SPECIFICATION Spec
CONSTANTS
    u1 = u1
    u2 = u2
    c1 = c1
    c2 = c2
    Users = {u1}
    Chars = {c1}
    Requests = {r1}
    Nobody = nobody
    Nick = nick
    Routes <- MCRoutes
    IsGuild = TRUE
    Roles <- MCRoles
    QueueTTL = 1
    AnswerTTL = 2
    MaxMessages = 2
    MaxAnswers = 1
    MaxFaults = 0
PROPERTY MessagesHandled
CHECK_DEADLOCK FALSE
