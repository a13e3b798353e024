SPECIFICATION Spec
CONSTANTS
    u1 = u1
    u2 = u2
    c1 = c1
    c2 = c2
    Users = {u1, u2}
    Chars = {c1, c2}
    Requests = {r1, r2}
    Nobody = nobody
    Nick = nick
    Routes <- MCRoutes
    IsGuild = TRUE
    Roles <- MCRoles
    QueueTTL = 1
    AnswerTTL = 2
    MaxMessages = 2
    MaxAnswers = 2
    MaxFaults = 1
INVARIANTS TypeOK  RegistrationsDurable
CHECK_DEADLOCK FALSE
