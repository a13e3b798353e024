---------------------------- MODULE Registration ----------------------------
(***************************************************************************)
(* Binding a Discord account to a character (api/, registerdb/, userdb/)   *)
(* and the Discord side it hangs on (discord/discord.go, discord_msg.go).  *)
(*                                                                         *)
(*   handlers   Discord.handleMessage, a goroutine per message; each one   *)
(*              holds Discord.mu from its first line to its last and runs  *)
(*              API.Command for "!register" in between                     *)
(*   requests   the quest script in the game polls /api/relays for tells   *)
(*              to send, and calls /api/register/confirm with the answer   *)
(*   keeper     Client.loop asks IsConnected, which takes Discord.mu too   *)
(*                                                                         *)
(* Registrations live in registerdb and its file, accepted names in userdb *)
(* and its file.  A timeout is the number of ticks an entry has left, in   *)
(* memory and in the file; 0 is expired.                                   *)
(***************************************************************************)
EXTENDS Naturals, FiniteSets

CONSTANTS
    Users,          \* Discord accounts
    Chars,          \* characters in the game
    Requests,       \* calls of the confirm handler that may be under way
    Nobody,         \* the empty name, no entry
    Nick,           \* external: the name of a user's Discord profile
    Routes,         \* enabled routes of the channel: [anyone, target]
    IsGuild,        \* guilddb has the channel as that of a guild
    Roles,          \* external: the character of a user's IGN: role, or Nobody
    QueueTTL,       \* 30 seconds, in ticks
    AnswerTTL,      \* 24 hours, in ticks
    MaxMessages,    \* bound on Discord messages
    MaxAnswers,     \* bound on calls of the confirm handler
    MaxFaults       \* bound on failed saves and connects, and on crashes

ASSUME RegistrationAssumption ==
    /\ {QueueTTL, AnswerTTL} \subseteq Nat \ {0}
    /\ {MaxMessages, MaxAnswers, MaxFaults} \subseteq Nat
    /\ {Nobody, Nick} \cap Chars = {}
    /\ Routes \subseteq [anyone : BOOLEAN, target : {"relay", "telnet"}]
    /\ IsGuild \in BOOLEAN
    /\ QueueTTL <= AnswerTTL
    /\ Roles \in [Users -> Chars \cup {Nobody}]
    /\ {"keeper", "free"} \cap Users = {}

VARIABLES
    dmu,            \* holder of Discord.mu: a user's handler, "keeper" or "free"
    umu,            \* userdb.mu is locked
    isConnected,    \* Discord.isConnected
    handler,        \* per user, its handleMessage: place, message and name
    reg,            \* registerdb.db.Registrations
    regFile,        \* its file
    isCut,          \* that file ends in the middle of an entry
    users,          \* userdb.users
    isNil,          \* userdb.users is the nil map
    usersFile,      \* its file: names, and whether save has written it
    isToml,         \* userdb's path ends in .toml
    confirm,        \* per request, where registerConfirm is
    heard,          \* what came of the message handled last: who, as whom, where
    told,           \* external: the requests whose tell the game delivered
    accepted,       \* history: requests that an acceptance found open
    consents,       \* history: requests whose character's player accepted
    unsaved,        \* history: the last save of registrations failed
    messages, answers, faults

regVars == <<reg, regFile, isCut, unsaved>>
userVars == <<umu, users, isNil, usersFile>>
discordVars == <<dmu, isConnected, handler, heard>>
tells == <<told, consents>>
bounds == <<messages, answers, faults>>
vars == <<dmu, umu, isConnected, handler, reg, regFile, isCut, users, isNil, usersFile, isToml,
          confirm, heard, told, accepted, consents, unsaved, messages, answers, faults>>

Statuses == {"In Queue", "Waiting Reply", "Confirmed", "Denied", "Reported"}
\* Every entry has the code "1234" from Set on, until Confirmed blanks it.
Entries == [char : Chars, status : Statuses, left : 0..AnswerTTL, code : BOOLEAN]
NoEntry == [char |-> Nobody, status |-> "none", left |-> 0, code |-> FALSE]
Silence == [user |-> Nobody, name |-> Nobody, targets |-> {}]
Idle == [pc |-> "idle", asks |-> Nobody, name |-> Nobody]
NoAnswer == [pc |-> "idle", user |-> Nobody, char |-> Nobody]

Fault == faults < MaxFaults /\ faults' = faults + 1

-----------------------------------------------------------------------------
(* registerdb.                                                             *)

NoRegistrations == [u \in Users |-> NoEntry]

\* save creates the file anew: a failure leaves it as it was, empty or cut off.
\* It is logged and memory goes on.
SaveRegistrations ==
    \/ regFile' = reg' /\ isCut' = FALSE /\ unsaved' = FALSE /\ UNCHANGED faults
    \/ /\ Fault /\ unsaved' = TRUE
       /\ \/ UNCHANGED <<regFile, isCut>>
          \/ regFile' = NoRegistrations /\ isCut' \in BOOLEAN

\* Mutant: the tell's time is added to that of an answer.
SetLong(u, c) ==
    /\ reg' = [reg EXCEPT ![u] = [char |-> c, status |-> "In Queue",
                                  left |-> AnswerTTL + QueueTTL, code |-> TRUE]]
    /\ SaveRegistrations

Set(u, c) ==
    /\ reg' = [reg EXCEPT ![u] = [char |-> c, status |-> "In Queue", left |-> QueueTTL,
                                  code |-> TRUE]]
    /\ SaveRegistrations

\* Mutant: only the answer that ends a registration is worth a save.
UpdateInMemory(u, s) ==
    /\ reg' = [reg EXCEPT ![u].status = s, ![u].left = AnswerTTL,
                          ![u].code = @ /\ s # "Confirmed"]
    /\ IF s = "Confirmed" THEN SaveRegistrations ELSE UNCHANGED <<regFile, isCut, unsaved, faults>>

Update(u, s) ==
    /\ reg' = [reg EXCEPT ![u].status = s, ![u].left = AnswerTTL,
                          ![u].code = @ /\ s # "Confirmed"]
    /\ SaveRegistrations

\* The map is walked in any order: the first entry with the code decides, and
\* an expired one ends the search.
FindByCode(u) == reg[u].code /\ reg[u].left > 0

Queued == {u \in Users : reg[u].left > 0 /\ reg[u].status = "In Queue"}

\* QueuedEntries marks what it returns, in memory only.
MarkWaiting == [u \in Users |-> IF u \in Queued THEN [reg[u] EXCEPT !.status = "Waiting Reply"]
                                ELSE reg[u]]

-----------------------------------------------------------------------------
(* userdb.                                                                 *)
NoUsers == [u \in Users |-> Nobody]
EmptyUsersFile == [names |-> NoUsers, saved |-> FALSE]

\* A .txt path is parsed line by line as id:name, and save writes TOML to any
\* path: of a file it wrote, no line is read back.
Parsed(f, toml) == IF f.saved /\ ~toml THEN NoUsers ELSE f.names

SaveUsers ==
    \/ usersFile' = [names |-> users', saved |-> TRUE] /\ UNCHANGED faults
    \/ Fault /\ usersFile' \in {usersFile, EmptyUsersFile}

\* Set locks mu and no path unlocks it.  A user that is known keeps its name.
SetUser(u, c) ==
    /\ ~umu /\ umu' = TRUE
    /\ IF isNil \/ users[u] # Nobody
       THEN UNCHANGED <<users, usersFile, faults>>
       ELSE users' = [users EXCEPT ![u] = c] /\ SaveUsers
    /\ UNCHANGED isNil

-----------------------------------------------------------------------------
(* Discord.handleMessage.                                                  *)
HandlerRest == UNCHANGED <<userVars, isToml, confirm, accepted, tells, answers, isConnected>>

Name(u) == users[u]

\* Discord may not answer.
GetIGNName(u) == {Roles[u], Nobody}

\* An event of the gateway: chat, or "!register" with a character.
MessageArrives(u) ==
    /\ isConnected /\ handler[u].pc = "idle" /\ messages < MaxMessages
    /\ messages' = messages + 1
    /\ \E c \in Chars \cup {Nobody} :
          handler' = [handler EXCEPT ![u] = [pc |-> "waiting", asks |-> c, name |-> Nobody]]
    /\ HandlerRest /\ UNCHANGED <<dmu, heard, regVars, faults>>

Lock(u) ==
    /\ handler[u].pc = "waiting" /\ dmu = "free"
    /\ dmu' = u /\ heard' = Silence
    /\ handler' = [handler EXCEPT ![u].pc = "locked"]
    /\ HandlerRest /\ UNCHANGED <<regVars, messages, faults>>

\* userdb.Name waits for userdb.mu.  Without a name there, the IGN: role of the
\* account, if Discord can say.
LooksUpName(u) ==
    /\ handler[u].pc = "locked" /\ ~umu
    /\ \E name \in IF Name(u) # Nobody THEN {Name(u)} ELSE GetIGNName(u) :
          handler' = [handler EXCEPT ![u].name = name,
                                     ![u].pc = IF handler[u].asks = Nobody THEN "route"
                                               ELSE "command"]
    /\ HandlerRest /\ UNCHANGED <<dmu, heard, regVars, messages, faults>>

\* API.Command refuses while the last request is open or was answered within
\* a day, unless it was denied.
MayRegister(u) == reg[u] = NoEntry \/ reg[u].status = "Denied" \/ reg[u].left = 0

\* The reply is posted, a refusal or the news that a tell is queued, unless the
\* API or its registration is off.
Replies(u) ==
    /\ handler[u].pc = "command"
    /\ \E next \in {"route"} \cup (IF MayRegister(u) THEN {"replied"} ELSE {}) :
          handler' = [handler EXCEPT ![u].pc = next]
    /\ HandlerRest /\ UNCHANGED <<dmu, heard, regVars, messages, faults>>

\* LastSentMessage, and the entry that refers to it; or the reply could not be
\* posted, nothing was before it, and there is no entry.
Registers(u) ==
    /\ handler[u].pc = "replied"
    /\ Set(u, handler[u].asks) \/ (Fault /\ UNCHANGED regVars)
    /\ handler' = [handler EXCEPT ![u].pc = "route"]
    /\ HandlerRest /\ UNCHANGED <<dmu, heard, messages>>

\* Who has no name speaks under that of the profile where a route lets anyone,
\* if Discord can say.
SpeaksAs(u) ==
    IF handler[u].name # Nobody THEN {handler[u].name}
    ELSE IF \E r \in Routes : r.anyone THEN {Nick, Nobody} ELSE {Nobody}

\* The routes of the channel that take the message, and the channel's guild.
Targets(u) ==
    {r.target : r \in {q \in Routes : handler[u].name # Nobody \/ q.anyone}}
        \cup (IF IsGuild THEN {"guild"} ELSE {})

Unlocks(u) == dmu' = "free" /\ handler' = [handler EXCEPT ![u] = Idle]

\* Without a name the message is discarded.  mu is released either way.
Route(u) ==
    /\ handler[u].pc = "route"
    /\ Unlocks(u)
    /\ \E name \in SpeaksAs(u) :
          IF name = Nobody THEN UNCHANGED heard
          ELSE heard' = [user |-> u, name |-> name, targets |-> Targets(u)]
    /\ HandlerRest /\ UNCHANGED <<regVars, messages, faults>>

-----------------------------------------------------------------------------
(* Client.loop and Discord.Connect.                                        *)
KeeperRest == UNCHANGED <<userVars, regVars, handler, heard, isToml, confirm, accepted, tells,
                          messages, answers>>

\* IsConnected says no, and Connect takes mu.
KeeperConnects ==
    /\ dmu = "free" /\ ~isConnected
    /\ dmu' = "keeper"
    /\ KeeperRest /\ UNCHANGED <<isConnected, faults>>

\* Open fails; or all goes well, or it goes wrong after isConnected is set, and
\* the keeper does not come back.
Connect ==
    /\ dmu = "keeper" /\ dmu' = "free"
    /\ \/ isConnected' = TRUE /\ UNCHANGED faults
       \/ Fault /\ UNCHANGED isConnected
    /\ KeeperRest

-----------------------------------------------------------------------------
(* The quest script: /api/relays and /api/register/confirm.                *)
ApiRest == UNCHANGED <<discordVars, isToml, messages>>

\* The script sends a tell to the character of each, unless the answer is lost.
Relays ==
    /\ Queued # {}
    /\ reg' = MarkWaiting
    /\ told' \in {told, told \cup {<<u, reg[u].char>> : u \in Queued}}
    /\ ApiRest /\ UNCHANGED <<regFile, isCut, unsaved, userVars, confirm, accepted, consents,
                              answers, faults>>

\* A player answers a tell, and the script calls with the code it came with.  All
\* requests have the same code, so that the entry found may be another's.  A call
\* that finds nothing, an expired entry or one that was answered changes nothing.
ConfirmFinds(r) ==
    /\ confirm[r].pc = "idle" /\ answers < MaxAnswers /\ answers' = answers + 1
    /\ \E tell \in told, u \in Users, action \in {"deny", "report", "accept"} :
          /\ consents' = IF action = "accept" THEN consents \cup {tell} ELSE consents
          /\ FindByCode(u) /\ reg[u].status \notin {"Confirmed", "Denied"}
          /\ confirm' = [confirm EXCEPT ![r] = [pc |-> action, user |-> u,
                                                    char |-> reg[u].char]]
          /\ accepted' = IF action = "accept" /\ reg[u].left > 0 /\ reg[u].status # "Denied"
                         THEN accepted \cup {<<u, reg[u].char>>} ELSE accepted
    /\ ApiRest /\ UNCHANGED <<regVars, userVars, told, faults>>

ConfirmEnds(r) == confirm' = [confirm EXCEPT ![r] = NoAnswer]

ConfirmRefuses(r) ==
    /\ confirm[r].pc \in {"deny", "report"}
    /\ Update(confirm[r].user, IF confirm[r].pc = "deny" THEN "Denied" ELSE "Reported")
    /\ ConfirmEnds(r)
    /\ ApiRest /\ UNCHANGED <<userVars, accepted, tells, answers>>

\* Mutant: the name bound is that of the entry as it is now.
ConfirmAcceptsCurrent(r) ==
    /\ confirm[r].pc = "accept"
    /\ SetUser(confirm[r].user, reg[confirm[r].user].char)
    /\ IF isNil THEN ConfirmEnds(r) ELSE confirm' = [confirm EXCEPT ![r].pc = "update"]
    /\ ApiRest /\ UNCHANGED <<regVars, accepted, tells, answers>>

\* userdb.Set.  The nil map panics: net/http ends the handler, mu stays locked.
ConfirmAccepts(r) ==
    /\ confirm[r].pc = "accept"
    /\ SetUser(confirm[r].user, confirm[r].char)
    /\ IF isNil THEN ConfirmEnds(r) ELSE confirm' = [confirm EXCEPT ![r].pc = "update"]
    /\ ApiRest /\ UNCHANGED <<regVars, accepted, tells, answers>>

\* registerdb.Update, and EditMessage of the message the entry names.
ConfirmUpdates(r) ==
    /\ confirm[r].pc = "update"
    /\ Update(confirm[r].user, "Confirmed")
    /\ ConfirmEnds(r)
    /\ ApiRest /\ UNCHANGED <<userVars, accepted, tells, answers>>

-----------------------------------------------------------------------------
(* Time and restarts.                                                      *)
Aged(r) == [u \in Users |-> IF r[u].left = 0 THEN r[u] ELSE [r[u] EXCEPT !.left = @ - 1]]

Tick ==
    /\ reg' = Aged(reg) /\ regFile' = Aged(regFile)
    /\ reg' # reg \/ regFile' # regFile
    /\ UNCHANGED <<discordVars, isCut, unsaved, userVars, isToml, confirm, accepted, tells,
                   bounds>>

\* registerdb.New and userdb.New with the files as the crash leaves them: a
\* crash in the middle of a save leaves the file empty.  With a file that is cut
\* off, which cannot be decoded, there is no start.
Restart ==
    /\ Fault /\ ~isCut
    /\ \E torn \in {{}, {"registrations"}, {"users"}} :
          /\ "registrations" \in torn =>
                \/ \E u \in Users : handler[u].pc = "replied"
                \/ \E r \in Requests : confirm[r].pc \in {"deny", "report", "update"}
          /\ "users" \in torn =>
                \E r \in Requests : /\ confirm[r].pc = "accept" /\ ~umu /\ ~isNil
                                    /\ users[confirm[r].user] = Nobody
          /\ regFile' = IF "registrations" \in torn THEN NoRegistrations ELSE regFile
          /\ usersFile' = IF "users" \in torn THEN EmptyUsersFile ELSE usersFile
    /\ reg' = regFile' /\ unsaved' = FALSE
    /\ users' = Parsed(usersFile', isToml) /\ isNil' = FALSE /\ umu' = FALSE
    /\ dmu' = "keeper" /\ isConnected' = FALSE
    /\ handler' = [u \in Users |-> Idle] /\ confirm' = [r \in Requests |-> NoAnswer]
    /\ heard' = Silence
    /\ UNCHANGED <<isToml, isCut, accepted, tells, messages, answers>>

-----------------------------------------------------------------------------
\* The users file may be missing: New writes one and leaves the map nil.
Init ==
    /\ dmu = "keeper" /\ isConnected = FALSE
    /\ handler = [u \in Users |-> Idle] /\ confirm = [r \in Requests |-> NoAnswer]
    /\ reg = NoRegistrations /\ regFile = reg /\ isCut = FALSE
    /\ isToml \in BOOLEAN /\ isNil \in BOOLEAN /\ umu = FALSE
    /\ users = NoUsers /\ usersFile = EmptyUsersFile
    /\ heard = Silence /\ told = {} /\ accepted = {} /\ consents = {} /\ unsaved = FALSE
    /\ messages = 0 /\ answers = 0 /\ faults = 0

HandlerStep(u) == LooksUpName(u) \/ Replies(u) \/ Registers(u) \/ Route(u)
ConfirmStep(r) == ConfirmRefuses(r) \/ ConfirmAccepts(r) \/ ConfirmUpdates(r)

Next ==
    \/ \E u \in Users : MessageArrives(u) \/ Lock(u) \/ HandlerStep(u)
    \/ \E r \in Requests : ConfirmFinds(r) \/ ConfirmStep(r)
    \/ Relays \/ KeeperConnects \/ Connect
    \/ Tick \/ Restart

\* Goroutines run; a waiter of a Go mutex that is released again and again
\* gets it (after a millisecond the mutex is handed to the longest waiter).
Fairness ==
    /\ \A u \in Users : SF_vars(Lock(u)) /\ WF_vars(HandlerStep(u))
    /\ \A r \in Requests : WF_vars(ConfirmStep(r))
    /\ SF_vars(KeeperConnects) /\ WF_vars(Connect)

Spec == Init /\ [][Next]_vars /\ Fairness

-----------------------------------------------------------------------------
\* The handlers that have taken Discord.mu.
Inside == {u \in Users : handler[u].pc \notin {"idle", "waiting"}}

\* Types of the variables; a timeout is never longer than a day.
TypeOK ==
    /\ dmu \in Users \cup {"keeper", "free"}
    /\ umu \in BOOLEAN /\ isConnected \in BOOLEAN
    /\ handler \in [Users -> [pc : {"idle", "waiting", "locked", "command", "replied",
                                    "route"},
                              asks : Chars \cup {Nobody}, name : Chars \cup {Nobody}]]
    /\ reg \in [Users -> Entries \cup {NoEntry}] /\ regFile \in [Users -> Entries \cup {NoEntry}]
    /\ users \in [Users -> Chars \cup {Nobody}] /\ isNil \in BOOLEAN /\ isToml \in BOOLEAN
    /\ usersFile \in [names : [Users -> Chars \cup {Nobody}], saved : BOOLEAN]
    /\ confirm \in [Requests -> [pc : {"idle", "deny", "report", "accept", "update"},
                                 user : Users \cup {Nobody}, char : Chars \cup {Nobody}]]
    /\ heard \in [user : Users \cup {Nobody}, name : Chars \cup {Nobody, Nick},
                 targets : SUBSET {"relay", "telnet", "guild"}]
    /\ {told, accepted, consents} \subseteq SUBSET (Users \X Chars)
    /\ isCut \in BOOLEAN /\ unsaved \in BOOLEAN
    /\ {messages, answers, faults} \subseteq Nat

\* No account has a character's name, and none speaks under one, unless some
\* player's acceptance found that account's request for that character open, or
\* the account has the role: userdb.Set gets the name of the entry that was
\* found, whatever was registered since.
BindingsAccepted ==
    \A u \in Users :
        /\ users[u] # Nobody => <<u, users[u]>> \in accepted
        /\ heard.user = u /\ heard.name \in Chars =>
              <<u, heard.name>> \in accepted \/ heard.name = Roles[u]

\* API.Command's reply: "I sent a /tell to %s, you have 2 minutes to go in game
\* and [ accept ] it."  The player who gets the tell decides on the request.
BindingsConsented == \A u \in Users : users[u] # Nobody => <<u, users[u]>> \in consents

\* What a restart would read back is what is in memory, except that a request
\* whose tell went out is back in the queue, unless the last save failed.
\* Every Set and Update saves, and none saves less than the whole map.
RegistrationsDurable ==
    unsaved \/ \A u \in Users :
        \/ regFile[u] = reg[u]
        \/ /\ reg[u].status = "Waiting Reply"
           /\ regFile[u] = [reg[u] EXCEPT !.status = "In Queue"]

\* The usage text of !register: "Your messages in discord will be seen in game
\* as this character name."  Every message is at least handled.
MessagesHandled == \A u \in Users : handler[u].pc = "waiting" ~> handler[u].pc = "idle"
=============================================================================
