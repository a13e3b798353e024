------------------------- MODULE RegistrationProofs -------------------------
(***************************************************************************)
(* Proofs about Registration, for any number of accounts, characters,      *)
(* answers under way, messages, failed saves and restarts.                 *)
(***************************************************************************)
EXTENDS Registration, TLAPS

Registrations == [Users -> Entries \cup {NoEntry}]
Names == [Users -> Chars \cup {Nobody}]
Message == [pc : {"idle", "waiting", "locked", "command", "replied", "route"},
            asks : Chars \cup {Nobody}, name : Chars \cup {Nobody}]
Answer == [pc : {"idle", "deny", "report", "accept", "update"},
           user : Users \cup {Nobody}, char : Chars \cup {Nobody}]
Heard == [user : Users \cup {Nobody}, name : Chars \cup {Nobody, Nick},
          targets : SUBSET {"relay", "telnet", "guild"}]

\* A handler is past its first line exactly while it holds Discord.mu, and what
\* it asks registerdb for is a character.
DiscordInv ==
    /\ dmu \in Users \cup {"keeper", "free"} /\ isConnected \in BOOLEAN
    /\ handler \in [Users -> Message] /\ heard \in Heard
    /\ \A u \in Users : handler[u].pc \in {"command", "replied"} => handler[u].asks \in Chars
    /\ \A u \in Users : handler[u].pc \notin {"idle", "waiting"} <=> dmu = u

\* The file has what memory has, up to tells that went out.
StoreInv ==
    /\ reg \in Registrations /\ regFile \in Registrations
    /\ unsaved \in BOOLEAN /\ faults \in Nat
    /\ RegistrationsDurable

\* An answer under way is about an entry that is there, and an acceptance is of
\* a request that was open.
AnswerInv ==
    /\ confirm \in [Requests -> Answer] /\ accepted \subseteq Users \X Chars
    /\ \A r \in Requests : confirm[r].pc # "idle" =>
          confirm[r].user \in Users /\ confirm[r].char \in Chars
              /\ reg[confirm[r].user] \in Entries
    /\ \A r \in Requests : confirm[r].pc = "accept" =>
          <<confirm[r].user, confirm[r].char>> \in accepted

\* Names in memory and in the file were accepted.
UserInv ==
    /\ umu \in BOOLEAN /\ isNil \in BOOLEAN /\ isToml \in BOOLEAN
    /\ users \in Names /\ usersFile \in [names : Names, saved : BOOLEAN]
    /\ \A u \in Users : users[u] # Nobody => <<u, users[u]>> \in accepted
    /\ \A u \in Users : usersFile.names[u] # Nobody => <<u, usersFile.names[u]>> \in accepted

\* The name a handler carries, and the one a message was heard under, was
\* accepted or is that of a role.
SpeakInv ==
    /\ \A u \in Users : handler[u].name # Nobody =>
          <<u, handler[u].name>> \in accepted \/ handler[u].name = Roles[u]
    /\ \A u \in Users : heard.user = u /\ heard.name \in Chars =>
          <<u, heard.name>> \in accepted \/ heard.name = Roles[u]

CountInv == messages \in Nat /\ answers \in Nat

\* The tells and what was answered to them are about accounts and characters.
TellInv ==
    told \subseteq Users \X Chars /\ consents \subseteq Users \X Chars /\ isCut \in BOOLEAN

\* The inductive invariant.
RegistrationInv ==
    DiscordInv /\ StoreInv /\ AnswerInv /\ UserInv /\ SpeakInv /\ CountInv /\ TellInv

-----------------------------------------------------------------------------
(* Discord.mu and its holder.                                              *)
LEMMA RegistrationConstants ==
    /\ QueueTTL \in Nat \ {0} /\ AnswerTTL \in Nat \ {0} /\ QueueTTL <= AnswerTTL
    /\ Nobody \notin Chars /\ Nick \notin Chars
    /\ Roles \in [Users -> Chars \cup {Nobody}]
    /\ \A u \in Users : u # "keeper" /\ u # "free"
BY RegistrationAssumption

\* A handler that goes on from one place to another with the lock.
LEMMA HandlerMoves ==
    ASSUME DiscordInv, UNCHANGED <<dmu, isConnected, heard>>, NEW u \in Users, NEW m \in Message,
           handler' = [handler EXCEPT ![u] = m],
           handler[u].pc \notin {"idle", "waiting"} <=> m.pc \notin {"idle", "waiting"},
           m.pc \in {"command", "replied"} => m.asks \in Chars
    PROVE  DiscordInv'
<1>1. handler' \in [Users -> Message]
    BY DEF DiscordInv
<1>2. handler'[u] = m /\ \A v \in Users \ {u} : handler'[v] = handler[v]
    BY DEF DiscordInv
<1>3. QED
    BY <1>1, <1>2 DEF DiscordInv

\* Every step keeps Discord.mu with the handler that is past its first line.
LEMMA DiscordStep == DiscordInv /\ UserInv /\ [Next]_vars => DiscordInv'
<1> SUFFICES ASSUME DiscordInv, UserInv, [Next]_vars PROVE DiscordInv'
    OBVIOUS
<1>t. handler \in [Users -> Message] /\ users \in Names
    BY DEF DiscordInv, UserInv
<1>1. ASSUME NEW u \in Users, MessageArrives(u) PROVE DiscordInv'
  <2>1. PICK c \in Chars \cup {Nobody} :
          handler' = [handler EXCEPT ![u] = [pc |-> "waiting", asks |-> c, name |-> Nobody]]
      BY <1>1 DEF MessageArrives
  <2>2. UNCHANGED <<dmu, isConnected, heard>> /\ handler[u].pc = "idle"
      BY <1>1 DEF MessageArrives, HandlerRest
  <2>3. [pc |-> "waiting", asks |-> c, name |-> Nobody] \in Message
      BY DEF Message
  <2>4. QED
      BY <2>1, <2>2, <2>3, HandlerMoves
<1>2. ASSUME NEW u \in Users, Lock(u) PROVE DiscordInv'
  <2>1. /\ handler' = [handler EXCEPT ![u].pc = "locked"] /\ dmu' = u /\ dmu = "free"
        /\ heard' = Silence /\ isConnected' = isConnected
      BY <1>2 DEF Lock, HandlerRest
  <2>2. /\ handler' \in [Users -> Message] /\ handler'[u].pc = "locked"
        /\ \A v \in Users \ {u} : handler'[v] = handler[v]
      BY <1>t, <2>1 DEF Message
  <2>3. heard' \in Heard
      BY <2>1 DEF Silence, Heard
  <2>4. \A v \in Users : handler[v].pc \in {"idle", "waiting"}
      BY <2>1, RegistrationConstants DEF DiscordInv
  <2>5. QED
      BY <2>1, <2>2, <2>3, <2>4 DEF DiscordInv
<1>3. ASSUME NEW u \in Users, LooksUpName(u) PROVE DiscordInv'
  <2>1. UNCHANGED <<dmu, isConnected, heard>> /\ handler[u].pc = "locked"
      BY <1>3 DEF LooksUpName, HandlerRest
  <2>2. PICK name \in IF Name(u) # Nobody THEN {Name(u)} ELSE GetIGNName(u) :
          handler' = [handler EXCEPT ![u].name = name,
                                     ![u].pc = IF handler[u].asks = Nobody THEN "route"
                                               ELSE "command"]
      BY <1>3 DEF LooksUpName
  <2>3. name \in Chars \cup {Nobody}
      BY <1>t, RegistrationConstants DEF Name, GetIGNName, Names
  <2> DEFINE m == [handler[u] EXCEPT !.name = name,
                                     !.pc = IF handler[u].asks = Nobody THEN "route" ELSE "command"]
  <2>4. handler' = [handler EXCEPT ![u] = m]
      BY <1>t, <2>2 DEF Message
  <2>5. m \in Message /\ m.pc \in {"route", "command"} /\ (m.pc = "command" => m.asks \in Chars)
      BY <1>t, <2>3 DEF Message
  <2> HIDE DEF m
  <2>6. QED
      BY <2>1, <2>4, <2>5, HandlerMoves
<1>4. ASSUME NEW u \in Users, Replies(u) \/ Registers(u) PROVE DiscordInv'
  <2>1. UNCHANGED <<dmu, isConnected, heard>> /\ handler[u].pc \in {"command", "replied"}
      BY <1>4 DEF Replies, Registers, HandlerRest
  <2>2. PICK next \in {"route", "replied"} : handler' = [handler EXCEPT ![u].pc = next]
      BY <1>4 DEF Replies, Registers
  <2> DEFINE m == [handler[u] EXCEPT !.pc = next]
  <2>3. handler' = [handler EXCEPT ![u] = m]
      BY <1>t, <2>2 DEF Message
  <2>4. m \in Message /\ m.pc \in {"route", "replied"} /\ m.asks = handler[u].asks
      BY <1>t DEF Message
  <2>5. handler[u].asks \in Chars
      BY <2>1 DEF DiscordInv
  <2> HIDE DEF m
  <2>6. QED
      BY <2>1, <2>3, <2>4, <2>5, HandlerMoves
<1>5. ASSUME NEW u \in Users, Route(u) PROVE DiscordInv'
  <2>1. /\ dmu' = "free" /\ handler' = [handler EXCEPT ![u] = Idle] /\ isConnected' = isConnected
        /\ handler[u].pc = "route"
      BY <1>5 DEF Route, Unlocks, HandlerRest
  <2>2. dmu = u
      BY <2>1 DEF DiscordInv
  <2>3. /\ handler' \in [Users -> Message] /\ handler'[u].pc = "idle"
        /\ \A v \in Users \ {u} : handler'[v] = handler[v]
    <3>1. Idle \in Message /\ Idle.pc = "idle"
        BY DEF Idle, Message
    <3>2. QED
        BY <1>t, <2>1, <3>1
  <2>4. heard' \in Heard
    <3>1. heard \in Heard
        BY DEF DiscordInv
    <3>2. PICK name \in SpeaksAs(u) :
            IF name = Nobody THEN UNCHANGED heard
            ELSE heard' = [user |-> u, name |-> name, targets |-> Targets(u)]
        BY <1>5 DEF Route
    <3>3. name \in Chars \cup {Nobody, Nick}
        BY <1>t DEF SpeaksAs, Message
    <3>4. Targets(u) \in SUBSET {"relay", "telnet", "guild"}
        BY RegistrationAssumption DEF Targets
    <3>5. QED
        BY <3>1, <3>2, <3>3, <3>4 DEF Heard
  <2>5. \A v \in Users : handler'[v].pc \in {"idle", "waiting"}
      BY <2>2, <2>3 DEF DiscordInv
  <2>6. QED
      BY <2>1, <2>3, <2>4, <2>5, RegistrationConstants DEF DiscordInv
<1>6. CASE KeeperConnects \/ Connect
  <2>1. /\ UNCHANGED <<handler, heard>> /\ dmu \in {"free", "keeper"} /\ dmu' \in {"free", "keeper"}
      BY <1>6 DEF KeeperConnects, Connect, KeeperRest
  <2>2. isConnected' = isConnected \/ isConnected' = TRUE
      BY <1>6 DEF KeeperConnects, Connect
  <2>3. isConnected' \in BOOLEAN
      BY <2>2, Zenon DEF DiscordInv
  <2>4. QED
      BY <2>1, <2>3, RegistrationConstants DEF DiscordInv
<1>7. CASE Restart
  <2>1. /\ dmu' = "keeper" /\ isConnected' = FALSE /\ heard' = Silence
        /\ handler' = [u \in Users |-> Idle]
      BY <1>7 DEF Restart
  <2>2. heard' \in Heard
      BY <2>1 DEF Silence, Heard
  <2>3. handler' \in [Users -> Message] /\ \A u \in Users : handler'[u].pc = "idle"
      BY <2>1 DEF Idle, Message
  <2>4. isConnected' \in BOOLEAN
      BY <2>1, Zenon
  <2>5. QED
      BY <2>1, <2>2, <2>3, <2>4, RegistrationConstants DEF DiscordInv
<1>8. CASE UNCHANGED discordVars
    BY <1>8 DEF discordVars, DiscordInv
<1>9. ASSUME NEW r \in Requests, ConfirmFinds(r) \/ ConfirmStep(r) PROVE UNCHANGED discordVars
    BY <1>9 DEF ConfirmFinds, ConfirmStep, ConfirmRefuses, ConfirmAccepts, ConfirmUpdates, ApiRest
<1>10. CASE Relays \/ Tick \/ UNCHANGED vars
    BY <1>8, <1>10 DEF Relays, ApiRest, Tick, vars, discordVars
<1>11. QED
    BY <1>1, <1>2, <1>3, <1>4, <1>5, <1>6, <1>7, <1>8, <1>9, <1>10 DEF Next, HandlerStep

-----------------------------------------------------------------------------
(* registerdb and its file.                                                *)
LEMMA EntryFields ==
    ASSUME NEW e \in Entries \cup {NoEntry}
    PROVE  /\ e.left \in 0..AnswerTTL /\ e.code \in BOOLEAN
           /\ e = [char |-> e.char, status |-> e.status, left |-> e.left, code |-> e.code]
           /\ e.left > 0 \/ e.code => e \in Entries
<1>1. CASE e \in Entries
    BY <1>1 DEF Entries
<1>2. CASE e = NoEntry
    BY <1>2, RegistrationConstants DEF NoEntry
<1>3. QED
    BY <1>1, <1>2

\* A status that is set and set back changes nothing.
LEMMA StatusBack ==
    ASSUME NEW C, NEW S, NEW L, NEW B, NEW was \in [char : C, status : S, left : L, code : B],
           was.status = "In Queue"
    PROVE  was = [[was EXCEPT !.status = "Waiting Reply"] EXCEPT !.status = "In Queue"]
OBVIOUS

\* A request that is marked as told, and queued again, is what it was.
LEMMA MarkedBack ==
    ASSUME NEW was \in Entries, was.status = "In Queue",
           NEW marked, marked = [was EXCEPT !.status = "Waiting Reply"]
    PROVE  marked.status = "Waiting Reply" /\ was = [marked EXCEPT !.status = "In Queue"]
<1>1. marked.status = "Waiting Reply"
    BY DEF Entries
<1>2. was = [[was EXCEPT !.status = "Waiting Reply"] EXCEPT !.status = "In Queue"]
    BY StatusBack DEF Entries
<1>3. QED
    BY <1>1, <1>2

\* The file without registrations is one.
LEMMA NoRegistrationsType == NoRegistrations \in Registrations
BY DEF NoRegistrations, Registrations

\* A save writes all of memory, or it failed and is known to have.
LEMMA SaveStores ==
    ASSUME StoreInv, reg' \in Registrations, SaveRegistrations
    PROVE  StoreInv'
<1>1. CASE regFile' = reg' /\ unsaved' = FALSE /\ UNCHANGED faults
  <2>1. unsaved' \in BOOLEAN
      BY <1>1, Zenon
  <2>2. QED
      BY <1>1, <2>1 DEF StoreInv, RegistrationsDurable
<1>2. CASE Fault /\ unsaved' = TRUE /\ regFile' \in {regFile, NoRegistrations}
  <2>1. unsaved' \in BOOLEAN
      BY <1>2, Zenon
  <2>2. faults' \in Nat /\ regFile' \in Registrations
      BY <1>2, NoRegistrationsType DEF Fault, StoreInv
  <2>3. QED
      BY <1>2, <2>1, <2>2 DEF StoreInv, RegistrationsDurable
<1>3. QED
    BY <1>1, <1>2 DEF SaveRegistrations

\* Set makes an entry, and stores it unless the save fails.
LEMMA SetType ==
    ASSUME StoreInv, NEW u \in Users, NEW c \in Chars, Set(u, c)
    PROVE  /\ StoreInv'
           /\ \A v \in Users : reg[v] \in Entries => reg'[v] \in Entries
<1> DEFINE e == [char |-> c, status |-> "In Queue", left |-> QueueTTL, code |-> TRUE]
<1>1. e \in Entries
    BY RegistrationConstants DEF Entries, Statuses
<1>2. reg' = [reg EXCEPT ![u] = e] /\ SaveRegistrations
    BY DEF Set
<1> HIDE DEF e
<1>3. reg' \in Registrations
    BY <1>1, <1>2 DEF StoreInv, Registrations
<1>4. QED
    BY <1>1, <1>2, <1>3, SaveStores DEF StoreInv, Registrations

\* Update answers an entry that is there, and stores it unless the save fails.
LEMMA UpdateType ==
    ASSUME StoreInv, NEW u \in Users, reg[u] \in Entries,
           NEW s \in {"Confirmed", "Denied", "Reported"}, Update(u, s)
    PROVE  /\ StoreInv'
           /\ \A v \in Users : reg[v] \in Entries => reg'[v] \in Entries
<1> DEFINE code == reg[u].code /\ s # "Confirmed"
           e == [reg[u] EXCEPT !.status = s, !.left = AnswerTTL, !.code = code]
<1>2. reg' = [reg EXCEPT ![u] = e] /\ SaveRegistrations
    BY DEF Update, StoreInv, Registrations
<1>c. code \in BOOLEAN
    BY Zenon
<1> HIDE DEF code
<1>1. e \in Entries
  <2>1. AnswerTTL \in 0..AnswerTTL
      BY RegistrationConstants
  <2>2. s \in Statuses
      BY DEF Statuses
  <2>3. QED
      BY <1>c, <2>1, <2>2 DEF Entries
<1> HIDE DEF e
<1>3. reg' \in Registrations
    BY <1>1, <1>2 DEF StoreInv, Registrations
<1>4. QED
    BY <1>1, <1>2, <1>3, SaveStores DEF StoreInv, Registrations

\* Time passes for an entry.
LEMMA AgedEntry ==
    ASSUME NEW R \in Registrations
    PROVE  /\ Aged(R) \in Registrations
           /\ \A u \in Users : R[u] \in Entries => Aged(R)[u] \in Entries
           /\ \A u \in Users : Aged(R)[u] = IF R[u].left = 0 THEN R[u]
                                            ELSE [R[u] EXCEPT !.left = R[u].left - 1]
<1>1. \A u \in Users : Aged(R)[u] = IF R[u].left = 0 THEN R[u]
                                    ELSE [R[u] EXCEPT !.left = R[u].left - 1]
    BY DEF Aged
<1>2. ASSUME NEW u \in Users PROVE Aged(R)[u] \in Entries \cup {NoEntry} /\ (R[u] \in Entries => Aged(R)[u] \in Entries)
  <2>1. CASE R[u] \in Entries
    <3>1. R[u].left \in 0..AnswerTTL /\ AnswerTTL \in Nat
        BY <2>1, RegistrationConstants DEF Entries
    <3>2. CASE R[u].left = 0
        BY <1>1, <2>1, <3>2
    <3>3. CASE R[u].left # 0
      <4>1. R[u].left - 1 \in 0..AnswerTTL
          BY <3>1, <3>3
      <4>2. Aged(R)[u] = [R[u] EXCEPT !.left = R[u].left - 1]
          BY <1>1, <3>3
      <4>3. Aged(R)[u] \in Entries
          BY <2>1, <4>1, <4>2 DEF Entries
      <4>4. QED
          BY <4>3
    <3>4. QED
        BY <3>2, <3>3
  <2>2. CASE R[u] = NoEntry
    <3>1. R[u].left = 0
        BY <2>2 DEF NoEntry
    <3>2. Aged(R)[u] = R[u]
        BY <1>1, <3>1
    <3>3. QED
        BY <2>2, <3>2
  <2>3. QED
      BY <2>1, <2>2 DEF Registrations
<1>3. Aged(R) = [u \in Users |-> Aged(R)[u]]
    BY DEF Aged
<1>4. QED
    BY <1>1, <1>2, <1>3 DEF Registrations

\* Nothing happens to the registrations.
LEMMA StoreAlone ==
    ASSUME StoreInv, UNCHANGED regVars, faults' \in Nat
    PROVE  StoreInv'
BY DEF StoreInv, regVars, RegistrationsDurable

\* Entries go away only when the program starts again.
Kept == \A u \in Users : reg[u] \in Entries => reg'[u] \in Entries

\* Every step keeps file and memory alike up to tells, and no entry
\* disappears but by a restart.
LEMMA StoreStep ==
    DiscordInv /\ StoreInv /\ AnswerInv /\ UserInv /\ [Next]_vars =>
        StoreInv' /\ (Kept \/ Restart)
<1> SUFFICES ASSUME DiscordInv, StoreInv, AnswerInv, UserInv, [Next]_vars
             PROVE  StoreInv' /\ (Kept \/ Restart)
    OBVIOUS
<1>t. reg \in Registrations /\ regFile \in Registrations /\ faults \in Nat
    BY DEF StoreInv
<1>0. ASSUME UNCHANGED regVars, faults' = faults \/ faults' = faults + 1
      PROVE  StoreInv' /\ Kept
    BY <1>0, <1>t, StoreAlone DEF Kept, regVars
<1>1. ASSUME NEW u \in Users,
             MessageArrives(u) \/ Lock(u) \/ LooksUpName(u) \/ Replies(u) \/ Route(u)
      PROVE  StoreInv' /\ Kept
  <2>1. UNCHANGED regVars /\ faults' = faults
      BY <1>1 DEF MessageArrives, Lock, LooksUpName, Replies, Route
  <2>2. QED
      BY <1>0, <2>1
<1>2. ASSUME NEW u \in Users, Registers(u) PROVE StoreInv' /\ Kept
  <2>1. handler[u].asks \in Chars
      BY <1>2 DEF Registers, DiscordInv
  <2>2. CASE Set(u, handler[u].asks)
      BY <2>1, <2>2, SetType DEF Kept
  <2>3. CASE Fault /\ UNCHANGED regVars
      BY <1>0, <2>3 DEF Fault
  <2>4. QED
      BY <1>2, <2>2, <2>3 DEF Registers
<1>3. ASSUME NEW r \in Requests, ConfirmFinds(r) PROVE StoreInv' /\ Kept
  <2>1. UNCHANGED regVars /\ faults' = faults
      BY <1>3 DEF ConfirmFinds
  <2>2. QED
      BY <1>0, <2>1
<1>4. ASSUME NEW r \in Requests, ConfirmRefuses(r) \/ ConfirmUpdates(r) PROVE StoreInv' /\ Kept
  <2>1. PICK s \in {"Confirmed", "Denied", "Reported"} : Update(confirm[r].user, s)
      BY <1>4 DEF ConfirmRefuses, ConfirmUpdates
  <2>2. confirm[r].user \in Users /\ reg[confirm[r].user] \in Entries
      BY <1>4 DEF ConfirmRefuses, ConfirmUpdates, AnswerInv
  <2>3. QED
      BY <2>1, <2>2, UpdateType DEF Kept
<1>5. ASSUME NEW r \in Requests, ConfirmAccepts(r) PROVE StoreInv' /\ Kept
  <2>1. UNCHANGED regVars
      BY <1>5 DEF ConfirmAccepts
  <2>2. faults' = faults \/ faults' = faults + 1
      BY <1>5 DEF ConfirmAccepts, SetUser, SaveUsers, Fault
  <2>3. QED
      BY <1>0, <2>1, <2>2
<1>6. CASE Relays
  <2>1. reg' = MarkWaiting /\ UNCHANGED <<regFile, unsaved, faults>>
      BY <1>6 DEF Relays
  <2>2. ASSUME NEW u \in Users
        PROVE  /\ reg'[u] \in Entries \cup {NoEntry}
               /\ reg[u] \in Entries => reg'[u] \in Entries
               /\ \/ reg'[u] = reg[u]
                  \/ /\ reg[u] \in Entries /\ reg[u].status = "In Queue"
                     /\ reg'[u] = [reg[u] EXCEPT !.status = "Waiting Reply"]
    <3>1. reg[u] \in Entries \cup {NoEntry}
        BY <1>t DEF Registrations
    <3>2. CASE u \in Queued
      <4>1. reg[u] \in Entries /\ reg[u].status = "In Queue"
          BY <3>1, <3>2, EntryFields DEF Queued
      <4>2. reg'[u] = [reg[u] EXCEPT !.status = "Waiting Reply"]
          BY <2>1, <3>2 DEF MarkWaiting
      <4>3. reg'[u] \in Entries
          BY <4>1, <4>2 DEF Entries, Statuses
      <4>4. QED
          BY <4>1, <4>2, <4>3
    <3>3. CASE u \notin Queued
        BY <2>1, <3>1, <3>3 DEF MarkWaiting
    <3>4. QED
        BY <3>2, <3>3
  <2>3. reg' \in Registrations /\ Kept
      BY <2>1, <2>2 DEF Registrations, MarkWaiting, Kept
  <2>4. RegistrationsDurable'
    <3>1. SUFFICES ASSUME ~unsaved, NEW u \in Users
                   PROVE  \/ regFile[u] = reg'[u]
                          \/ /\ reg'[u].status = "Waiting Reply"
                             /\ regFile[u] = [reg'[u] EXCEPT !.status = "In Queue"]
        BY <2>1 DEF RegistrationsDurable
    <3>2. \/ regFile[u] = reg[u]
          \/ /\ reg[u].status = "Waiting Reply"
             /\ regFile[u] = [reg[u] EXCEPT !.status = "In Queue"]
        BY <3>1 DEF StoreInv, RegistrationsDurable
    <3>3. CASE reg'[u] = reg[u]
        BY <3>2, <3>3
    <3>4. CASE /\ reg[u] \in Entries /\ reg[u].status = "In Queue"
               /\ reg'[u] = [reg[u] EXCEPT !.status = "Waiting Reply"]
      <4>1. regFile[u] = reg[u]
          BY <3>2, <3>4
      <4>2. reg'[u].status = "Waiting Reply" /\ reg[u] = [reg'[u] EXCEPT !.status = "In Queue"]
          BY <3>4, MarkedBack
      <4>3. QED
          BY <4>1, <4>2
    <3>5. QED
        BY <2>2, <3>3, <3>4
  <2>5. QED
      BY <1>t, <2>1, <2>3, <2>4 DEF StoreInv
<1>7. CASE KeeperConnects \/ Connect
  <2>1. UNCHANGED regVars /\ (faults' = faults \/ faults' = faults + 1)
      BY <1>7 DEF KeeperConnects, Connect, KeeperRest, Fault
  <2>2. QED
      BY <1>0, <2>1
<1>8. CASE Tick
  <2>1. reg' = Aged(reg) /\ regFile' = Aged(regFile) /\ UNCHANGED <<unsaved, faults>>
      BY <1>8 DEF Tick, bounds
  <2>2. reg' \in Registrations /\ regFile' \in Registrations /\ Kept
      BY <1>t, <2>1, AgedEntry DEF Kept
  <2>3. RegistrationsDurable'
    <3>1. SUFFICES ASSUME ~unsaved, NEW u \in Users
                   PROVE  \/ regFile'[u] = reg'[u]
                          \/ /\ reg'[u].status = "Waiting Reply"
                             /\ regFile'[u] = [reg'[u] EXCEPT !.status = "In Queue"]
        BY <2>1 DEF RegistrationsDurable
    <3>2. \/ regFile[u] = reg[u]
          \/ /\ reg[u].status = "Waiting Reply"
             /\ regFile[u] = [reg[u] EXCEPT !.status = "In Queue"]
        BY <3>1 DEF StoreInv, RegistrationsDurable
    <3>3. /\ reg'[u] = IF reg[u].left = 0 THEN reg[u]
                       ELSE [reg[u] EXCEPT !.left = reg[u].left - 1]
          /\ regFile'[u] = IF regFile[u].left = 0 THEN regFile[u]
                           ELSE [regFile[u] EXCEPT !.left = regFile[u].left - 1]
        BY <1>t, <2>1, AgedEntry
    <3>4. CASE regFile[u] = reg[u]
        BY <3>3, <3>4
    <3>5. CASE /\ reg[u].status = "Waiting Reply"
               /\ regFile[u] = [reg[u] EXCEPT !.status = "In Queue"]
      <4>1. reg[u] \in Entries
        <5>1. reg[u] \in Entries \cup {NoEntry}
            BY <1>t DEF Registrations
        <5>2. NoEntry.status = "none"
            BY DEF NoEntry
        <5>3. QED
            BY <3>5, <5>1, <5>2
      <4>a. reg[u].left \in Nat
          BY <4>1, RegistrationConstants, EntryFields
      <4>2. regFile[u].left = reg[u].left /\ reg[u].left \in Nat
          BY <3>5, <4>1, <4>a DEF Entries
      <4>3. CASE reg[u].left = 0
          BY <3>3, <3>5, <4>2, <4>3
      <4>4. CASE reg[u].left # 0
        <5> DEFINE n == reg[u].left - 1
        <5>1. /\ reg'[u] = [reg[u] EXCEPT !.left = n]
              /\ regFile'[u] = [[reg[u] EXCEPT !.status = "In Queue"] EXCEPT !.left = n]
            BY <3>3, <3>5, <4>2, <4>4
        <5> HIDE DEF n
        <5>2. QED
            BY <3>5, <4>1, <5>1 DEF Entries
      <4>5. QED
          BY <4>3, <4>4
    <3>6. QED
        BY <3>2, <3>4, <3>5
  <2>4. QED
      BY <1>t, <2>1, <2>2, <2>3 DEF StoreInv
<1>9. CASE Restart
  <2>1. regFile' \in {NoRegistrations, regFile} /\ reg' = regFile' /\ unsaved' = FALSE
      BY <1>9 DEF Restart
  <2>2. regFile' \in Registrations /\ faults' \in Nat
      BY <1>9, <1>t, <2>1, NoRegistrationsType DEF Restart, Fault
  <2>3. unsaved' \in BOOLEAN
      BY <2>1, Zenon
  <2>4. QED
      BY <1>9, <2>1, <2>2, <2>3 DEF StoreInv, RegistrationsDurable
<1>10. CASE UNCHANGED vars
    BY <1>0, <1>10 DEF vars, regVars
<1>11. QED
    BY <1>1, <1>2, <1>3, <1>4, <1>5, <1>6, <1>7, <1>8, <1>9, <1>10
       DEF Next, HandlerStep, ConfirmStep

-----------------------------------------------------------------------------
(* Answers.                                                                *)
LEMMA AnswersAlone ==
    ASSUME AnswerInv, Kept, UNCHANGED <<confirm, accepted>>
    PROVE  AnswerInv'
BY DEF AnswerInv, Kept

\* A call of the confirm handler goes on or ends.
LEMMA AnswerMoves ==
    ASSUME AnswerInv, Kept, accepted' = accepted, NEW r \in Requests,
           \/ confirm' = [confirm EXCEPT ![r] = NoAnswer]
           \/ confirm' = [confirm EXCEPT ![r].pc = "update"] /\ confirm[r].pc = "accept"
    PROVE  AnswerInv'
<1>t. confirm \in [Requests -> Answer]
    BY DEF AnswerInv
<1>0. \A q \in Requests \ {r} : confirm'[q] = confirm[q]
    BY <1>t
<1>1. CASE confirm' = [confirm EXCEPT ![r] = NoAnswer]
  <2>1. NoAnswer \in Answer /\ NoAnswer.pc = "idle"
      BY DEF NoAnswer, Answer
  <2>2. confirm' \in [Requests -> Answer] /\ confirm'[r].pc = "idle"
      BY <1>t, <1>1, <2>1
  <2>3. QED
      BY <1>0, <2>2 DEF AnswerInv, Kept
<1>2. CASE confirm' = [confirm EXCEPT ![r].pc = "update"] /\ confirm[r].pc = "accept"
  <2>1. /\ confirm' \in [Requests -> Answer] /\ confirm'[r].pc = "update"
        /\ confirm'[r].user = confirm[r].user /\ confirm'[r].char = confirm[r].char
      BY <1>t, <1>2 DEF Answer
  <2>2. QED
      BY <1>0, <1>2, <2>1 DEF AnswerInv, Kept
<1>3. QED
    BY <1>1, <1>2

\* Every step keeps answers with the entry and the character they were for.
LEMMA AnswerStep ==
    StoreInv /\ AnswerInv /\ (Kept \/ Restart) /\ [Next]_vars => AnswerInv' /\ accepted \subseteq accepted'
<1> SUFFICES ASSUME StoreInv, AnswerInv, Kept \/ Restart, [Next]_vars
             PROVE  AnswerInv' /\ accepted \subseteq accepted'
    OBVIOUS
<1>t. confirm \in [Requests -> Answer] /\ reg \in Registrations
    BY DEF AnswerInv, StoreInv
<1>1. CASE Restart
  <2>1. confirm' = [r \in Requests |-> NoAnswer] /\ accepted' = accepted
      BY <1>1 DEF Restart
  <2>2. NoAnswer \in Answer /\ NoAnswer.pc = "idle"
      BY DEF NoAnswer, Answer
  <2>3. confirm' \in [Requests -> Answer] /\ \A r \in Requests : confirm'[r].pc = "idle"
      BY <2>1, <2>2
  <2>4. QED
      BY <2>1, <2>3 DEF AnswerInv
<1>2. CASE Kept /\ UNCHANGED <<confirm, accepted>>
    BY <1>2, AnswersAlone
<1>3. ASSUME NEW u \in Users, MessageArrives(u) \/ Lock(u) \/ HandlerStep(u)
      PROVE  UNCHANGED <<confirm, accepted>>
    BY <1>3 DEF MessageArrives, Lock, HandlerStep, LooksUpName, Replies, Registers, Route, HandlerRest
<1>4. CASE Relays \/ KeeperConnects \/ Connect \/ Tick \/ UNCHANGED vars
  <2>1. UNCHANGED <<confirm, accepted>>
      BY <1>4 DEF Relays, KeeperConnects, Connect, KeeperRest, Tick, vars
  <2>2. QED
      BY <1>1, <1>2, <2>1
<1>5. ASSUME NEW r \in Requests, ConfirmStep(r), Kept PROVE AnswerInv' /\ accepted \subseteq accepted'
  <2>1. accepted' = accepted
      BY <1>5 DEF ConfirmStep, ConfirmRefuses, ConfirmAccepts, ConfirmUpdates
  <2>2. \/ confirm' = [confirm EXCEPT ![r] = NoAnswer]
        \/ confirm' = [confirm EXCEPT ![r].pc = "update"] /\ confirm[r].pc = "accept"
      BY <1>5 DEF ConfirmStep, ConfirmRefuses, ConfirmAccepts, ConfirmUpdates, ConfirmEnds
  <2>3. QED
      BY <1>5, <2>1, <2>2, AnswerMoves
<1>6. ASSUME NEW r \in Requests, ConfirmFinds(r), Kept PROVE AnswerInv' /\ accepted \subseteq accepted'
  <2>1. PICK u \in Users, action \in {"deny", "report", "accept"} :
          /\ FindByCode(u) /\ reg[u].status \notin {"Confirmed", "Denied"}
          /\ confirm' = [confirm EXCEPT ![r] = [pc |-> action, user |-> u, char |-> reg[u].char]]
          /\ accepted' = IF action = "accept" /\ reg[u].left > 0 /\ reg[u].status # "Denied"
                         THEN accepted \cup {<<u, reg[u].char>>} ELSE accepted
      BY <1>6 DEF ConfirmFinds
  <2>2. reg[u] \in Entries /\ reg[u].left > 0
    <3>1. reg[u] \in Entries \cup {NoEntry}
        BY <1>t DEF Registrations
    <3>2. QED
        BY <2>1, <3>1, EntryFields DEF FindByCode
  <2>3. reg[u].char \in Chars
      BY <2>2 DEF Entries
  <2>4. /\ accepted \subseteq accepted' /\ accepted' \subseteq Users \X Chars
        /\ action = "accept" => <<u, reg[u].char>> \in accepted'
      BY <2>1, <2>2, <2>3 DEF AnswerInv
  <2> DEFINE a == [pc |-> action, user |-> u, char |-> reg[u].char]
  <2>5. a \in Answer /\ a.pc = action /\ a.user = u /\ a.char = reg[u].char
      BY <2>3 DEF Answer
  <2>6. /\ confirm' \in [Requests -> Answer] /\ confirm'[r] = a
        /\ \A q \in Requests \ {r} : confirm'[q] = confirm[q]
      BY <1>t, <2>1, <2>5
  <2> HIDE DEF a
  <2>7. QED
      BY <1>6, <2>2, <2>3, <2>4, <2>5, <2>6 DEF AnswerInv, Kept
<1>7. QED
    BY <1>1, <1>2, <1>3, <1>4, <1>5, <1>6 DEF Next

-----------------------------------------------------------------------------
(* userdb and the names messages are heard under.                          *)
LEMMA NoUsersType ==
    /\ NoUsers \in Names /\ \A u \in Users : NoUsers[u] = Nobody
    /\ EmptyUsersFile \in [names : Names, saved : BOOLEAN] /\ EmptyUsersFile.names = NoUsers
BY DEF NoUsers, Names, EmptyUsersFile

\* Every name that a step binds or saves was accepted.
LEMMA UserStep ==
    ASSUME UserInv, AnswerInv, accepted \subseteq accepted', [Next]_vars
    PROVE  UserInv'
<1>t. /\ umu \in BOOLEAN /\ isNil \in BOOLEAN /\ isToml \in BOOLEAN
      /\ users \in Names /\ usersFile \in [names : Names, saved : BOOLEAN]
    BY DEF UserInv
<1>0. CASE UNCHANGED <<userVars, isToml>>
    BY <1>0 DEF UserInv, userVars
<1>1. ASSUME NEW u \in Users, MessageArrives(u) \/ Lock(u) \/ HandlerStep(u)
      PROVE  UNCHANGED <<userVars, isToml>>
    BY <1>1 DEF MessageArrives, Lock, HandlerStep, LooksUpName, Replies, Registers, Route, HandlerRest
<1>2. ASSUME NEW r \in Requests, ConfirmFinds(r) \/ ConfirmRefuses(r) \/ ConfirmUpdates(r)
      PROVE  UNCHANGED <<userVars, isToml>>
    BY <1>2 DEF ConfirmFinds, ConfirmRefuses, ConfirmUpdates, ApiRest
<1>3. ASSUME NEW r \in Requests, ConfirmAccepts(r) PROVE UserInv'
  <2> DEFINE u == confirm[r].user
             c == confirm[r].char
  <2>1. u \in Users /\ c \in Chars /\ <<u, c>> \in accepted
      BY <1>3 DEF ConfirmAccepts, AnswerInv
  <2>2. SetUser(u, c) /\ UNCHANGED <<isToml, isNil>>
      BY <1>3 DEF ConfirmAccepts, ApiRest, SetUser
  <2> HIDE DEF u, c
  <2>3. umu' \in BOOLEAN
    <3>1. umu' = TRUE
        BY <2>2 DEF SetUser
    <3>2. QED
        BY <3>1, Zenon
  <2>4. CASE UNCHANGED <<users, usersFile>>
      BY <1>t, <2>2, <2>3, <2>4 DEF UserInv
  <2>5. CASE users' = [users EXCEPT ![u] = c] /\ SaveUsers
    <3>1. users' \in Names /\ \A v \in Users : users'[v] # Nobody => <<v, users'[v]>> \in accepted
        BY <1>t, <2>1, <2>5 DEF Names, UserInv
    <3>2. CASE usersFile' = [names |-> users', saved |-> TRUE]
        BY <1>t, <2>2, <2>3, <3>1, <3>2 DEF UserInv
    <3>3. CASE usersFile' = usersFile
        BY <1>t, <2>2, <2>3, <3>1, <3>3 DEF UserInv
    <3>4. CASE usersFile' = EmptyUsersFile
        BY <1>t, <2>2, <2>3, <3>1, <3>4, NoUsersType DEF UserInv
    <3>5. QED
        BY <2>5, <3>2, <3>3, <3>4 DEF SaveUsers
  <2>6. QED
      BY <2>2, <2>4, <2>5 DEF SetUser
<1>4. CASE Restart
  <2>1. /\ usersFile' \in {EmptyUsersFile, usersFile} /\ users' = Parsed(usersFile', isToml)
        /\ isNil' = FALSE /\ umu' = FALSE /\ isToml' = isToml
      BY <1>4 DEF Restart
  <2>2. /\ usersFile' \in [names : Names, saved : BOOLEAN]
        /\ \A u \in Users : usersFile'.names[u] # Nobody => <<u, usersFile'.names[u]>> \in accepted'
      BY <2>1, NoUsersType DEF UserInv
  <2>3. users' \in {NoUsers, usersFile'.names}
      BY <2>1 DEF Parsed
  <2>4. /\ users' \in Names
        /\ \A u \in Users : users'[u] # Nobody => <<u, users'[u]>> \in accepted'
      BY <2>2, <2>3, NoUsersType
  <2>5. isNil' \in BOOLEAN /\ umu' \in BOOLEAN
      BY <2>1, Zenon
  <2>6. QED
      BY <1>t, <2>1, <2>2, <2>4, <2>5 DEF UserInv
<1>5. CASE Relays \/ KeeperConnects \/ Connect \/ Tick \/ UNCHANGED vars
  <2>1. UNCHANGED <<userVars, isToml>>
      BY <1>5 DEF Relays, ApiRest, KeeperConnects, Connect, KeeperRest, Tick, vars, userVars
  <2>2. QED
      BY <1>0, <2>1
<1>6. QED
    BY <1>0, <1>1, <1>2, <1>3, <1>4, <1>5 DEF Next, ConfirmStep

\* Every name that a step looks up or speaks under was accepted.
LEMMA SpeakStep ==
    ASSUME DiscordInv, UserInv, SpeakInv, accepted \subseteq accepted', [Next]_vars
    PROVE  SpeakInv'
<1>t. handler \in [Users -> Message] /\ users \in Names
    BY DEF DiscordInv, UserInv
<1>0. ASSUME heard' = heard \/ heard' = Silence,
             \A u \in Users : handler'[u].name \in {handler[u].name, Nobody}
      PROVE  SpeakInv'
  <2>1. Silence.name = Nobody
      BY DEF Silence
  <2>2. heard'.name \in Chars => heard' = heard
      BY <1>0, <2>1, RegistrationConstants
  <2>3. QED
      BY <1>0, <2>2 DEF SpeakInv
<1>1. ASSUME NEW u \in Users, MessageArrives(u) PROVE SpeakInv'
  <2>1. PICK c \in Chars \cup {Nobody} :
          handler' = [handler EXCEPT ![u] = [pc |-> "waiting", asks |-> c, name |-> Nobody]]
      BY <1>1 DEF MessageArrives
  <2>2. heard' = heard
      BY <1>1 DEF MessageArrives
  <2>3. QED
      BY <1>0, <1>t, <2>1, <2>2
<1>2. ASSUME NEW u \in Users, Lock(u) \/ Replies(u) \/ Registers(u) PROVE SpeakInv'
  <2>1. heard' = heard \/ heard' = Silence
      BY <1>2 DEF Lock, Replies, Registers
  <2>2. \E next \in {"locked", "route", "replied"} : handler' = [handler EXCEPT ![u].pc = next]
      BY <1>2 DEF Lock, Replies, Registers
  <2>3. \A v \in Users : handler'[v].name = handler[v].name
      BY <1>t, <2>2 DEF Message
  <2>4. QED
      BY <1>0, <2>1, <2>3
<1>3. ASSUME NEW u \in Users, LooksUpName(u) PROVE SpeakInv'
  <2>1. heard' = heard
      BY <1>3 DEF LooksUpName
  <2>2. PICK name \in IF Name(u) # Nobody THEN {Name(u)} ELSE GetIGNName(u) :
          handler' = [handler EXCEPT ![u].name = name,
                                     ![u].pc = IF handler[u].asks = Nobody THEN "route"
                                               ELSE "command"]
      BY <1>3 DEF LooksUpName
  <2>3. name # Nobody => <<u, name>> \in accepted \/ name = Roles[u]
      BY <2>2 DEF Name, GetIGNName, UserInv
  <2>4. handler'[u].name = name /\ \A v \in Users \ {u} : handler'[v] = handler[v]
      BY <1>t, <2>2 DEF Message
  <2>5. QED
      BY <2>1, <2>3, <2>4 DEF SpeakInv
<1>4. ASSUME NEW u \in Users, Route(u) PROVE SpeakInv'
  <2>1. handler' = [handler EXCEPT ![u] = Idle] /\ Idle.name = Nobody
      BY <1>4 DEF Route, Unlocks, Idle
  <2>2. \A v \in Users : handler'[v].name \in {handler[v].name, Nobody}
      BY <1>t, <2>1
  <2>3. PICK name \in SpeaksAs(u) :
          IF name = Nobody THEN UNCHANGED heard
          ELSE heard' = [user |-> u, name |-> name, targets |-> Targets(u)]
      BY <1>4 DEF Route
  <2>4. CASE name = Nobody
      BY <1>0, <2>2, <2>3, <2>4
  <2>5. CASE name # Nobody
    <3>1. heard'.user = u /\ heard'.name = name
        BY <2>3, <2>5
    <3>2. name \in Chars => name = handler[u].name
        BY <2>5, RegistrationConstants DEF SpeaksAs
    <3>3. QED
        BY <2>2, <2>5, <3>1, <3>2 DEF SpeakInv
  <2>6. QED
      BY <2>4, <2>5
<1>5. CASE Restart
  <2>1. heard' = Silence /\ handler' = [u \in Users |-> Idle] /\ Idle.name = Nobody
      BY <1>5 DEF Restart, Idle
  <2>2. QED
      BY <1>0, <2>1
<1>6. ASSUME NEW r \in Requests, ConfirmFinds(r) \/ ConfirmStep(r) PROVE heard' = heard /\ handler' = handler
    BY <1>6 DEF ConfirmFinds, ConfirmStep, ConfirmRefuses, ConfirmAccepts, ConfirmUpdates, ApiRest,
                discordVars
<1>7. CASE Relays \/ KeeperConnects \/ Connect \/ Tick \/ UNCHANGED vars
  <2>1. heard' = heard /\ handler' = handler
      BY <1>7 DEF Relays, ApiRest, KeeperConnects, Connect, KeeperRest, Tick, vars, discordVars
  <2>2. QED
      BY <1>0, <2>1
<1>8. QED
    BY <1>0, <1>1, <1>2, <1>3, <1>4, <1>5, <1>6, <1>7 DEF Next, HandlerStep

\* Messages and answers are counted up.
LEMMA CountStep == CountInv /\ [Next]_vars => CountInv'
<1> SUFFICES ASSUME CountInv, [Next]_vars PROVE CountInv'
    OBVIOUS
<1>1. ASSUME NEW u \in Users, MessageArrives(u) \/ Lock(u) \/ HandlerStep(u) PROVE CountInv'
    BY <1>1 DEF CountInv, MessageArrives, Lock, HandlerStep, LooksUpName, Replies, Registers, Route,
                HandlerRest
<1>2. ASSUME NEW r \in Requests, ConfirmFinds(r) \/ ConfirmStep(r) PROVE CountInv'
    BY <1>2 DEF CountInv, ConfirmFinds, ConfirmStep, ConfirmRefuses, ConfirmAccepts, ConfirmUpdates,
                ApiRest
<1>3. CASE Relays \/ KeeperConnects \/ Connect \/ Tick \/ Restart \/ UNCHANGED vars
    BY <1>3 DEF CountInv, Relays, ApiRest, KeeperConnects, Connect, KeeperRest, Tick, Restart, bounds,
                vars
<1>4. QED
    BY <1>1, <1>2, <1>3 DEF Next

\* A save leaves the file whole or cut off.
LEMMA SaveCuts == isCut \in BOOLEAN /\ SaveRegistrations => isCut' \in BOOLEAN
<1> SUFFICES ASSUME isCut \in BOOLEAN, SaveRegistrations PROVE isCut' \in BOOLEAN
    OBVIOUS
<1>1. CASE isCut' = FALSE
    BY <1>1, Zenon
<1>2. CASE isCut' = isCut
    BY <1>2, Zenon
<1>3. QED
    BY <1>1, <1>2, Zenon DEF SaveRegistrations

\* Tells are sent for requests in the queue, and only tells are answered.
LEMMA TellStep == StoreInv /\ TellInv /\ [Next]_vars => TellInv'
<1> SUFFICES ASSUME StoreInv, TellInv, [Next]_vars PROVE TellInv'
    OBVIOUS
<1>0. CASE UNCHANGED <<told, consents, isCut>>
    BY <1>0 DEF TellInv
<1>s. ASSUME UNCHANGED <<told, consents>>, SaveRegistrations PROVE TellInv'
    BY <1>s, SaveCuts DEF TellInv
<1>1. ASSUME NEW u \in Users, MessageArrives(u) \/ Lock(u) \/ LooksUpName(u) \/ Replies(u) \/ Route(u)
      PROVE  UNCHANGED <<told, consents, isCut>>
    BY <1>1 DEF MessageArrives, Lock, LooksUpName, Replies, Route, HandlerRest, regVars, tells
<1>2. ASSUME NEW u \in Users, Registers(u) PROVE TellInv'
  <2>1. UNCHANGED <<told, consents>> /\ (SaveRegistrations \/ isCut' = isCut)
      BY <1>2 DEF Registers, HandlerRest, regVars, tells, Set
  <2>2. QED
      BY <2>1, <1>0, <1>s
<1>3. ASSUME NEW r \in Requests, ConfirmFinds(r) PROVE TellInv'
  <2>1. PICK tell \in told : consents' \in {consents, consents \cup {tell}}
      BY <1>3 DEF ConfirmFinds
  <2>2. UNCHANGED <<told, isCut>>
      BY <1>3 DEF ConfirmFinds, regVars
  <2>3. QED
      BY <2>1, <2>2 DEF TellInv
<1>4. ASSUME NEW r \in Requests, ConfirmStep(r) PROVE TellInv'
  <2>1. UNCHANGED <<told, consents>> /\ (SaveRegistrations \/ isCut' = isCut)
      BY <1>4 DEF ConfirmStep, ConfirmRefuses, ConfirmAccepts, ConfirmUpdates, Update, regVars, tells
  <2>2. QED
      BY <2>1, <1>0, <1>s
<1>5. CASE Relays
  <2> DEFINE sent == {<<u, reg[u].char>> : u \in Queued}
  <2>1. \A u \in Queued : u \in Users /\ reg[u].char \in Chars
    <3>1. ASSUME NEW u \in Queued PROVE reg[u].char \in Chars
      <4>1. u \in Users /\ reg[u].left > 0 /\ reg[u] \in Entries \cup {NoEntry}
          BY DEF Queued, StoreInv, Registrations
      <4>2. QED
          BY <4>1, EntryFields DEF Entries
    <3>2. QED
        BY <3>1 DEF Queued
  <2>2. sent \subseteq Users \X Chars
      BY <2>1
  <2>3. told' \in {told, told \cup sent} /\ UNCHANGED <<consents, isCut>>
      BY <1>5 DEF Relays
  <2> HIDE DEF sent
  <2>4. QED
      BY <2>2, <2>3 DEF TellInv
<1>6. CASE KeeperConnects \/ Connect \/ Tick \/ Restart \/ UNCHANGED vars
    BY <1>0, <1>6 DEF KeeperConnects, Connect, KeeperRest, Tick, Restart, regVars, tells, vars
<1>7. QED
    BY <1>0, <1>1, <1>2, <1>3, <1>4, <1>5, <1>6 DEF Next, HandlerStep

-----------------------------------------------------------------------------
(* The theorems.                                                           *)
LEMMA RegistrationInit == Init => RegistrationInv
<1> SUFFICES ASSUME Init PROVE RegistrationInv
    OBVIOUS
<1>1. DiscordInv
  <2>1. heard \in Heard
      BY DEF Init, Silence, Heard
  <2>2. handler \in [Users -> Message] /\ \A u \in Users : handler[u].pc = "idle"
      BY DEF Init, Idle, Message
  <2>3. isConnected \in BOOLEAN
      BY Zenon DEF Init
  <2>4. dmu = "keeper"
      BY DEF Init
  <2>5. QED
      BY <2>1, <2>2, <2>3, <2>4, RegistrationConstants DEF DiscordInv
<1>2. StoreInv
  <2>1. unsaved \in BOOLEAN
      BY Zenon DEF Init
  <2>2. reg \in Registrations /\ regFile = reg /\ faults \in Nat
      BY NoRegistrationsType DEF Init
  <2>3. QED
      BY <2>1, <2>2 DEF StoreInv, RegistrationsDurable
<1>3. AnswerInv
  <2>1. confirm \in [Requests -> Answer] /\ \A r \in Requests : confirm[r].pc = "idle"
      BY DEF Init, NoAnswer, Answer
  <2>2. QED
      BY <2>1 DEF AnswerInv, Init
<1>4. UserInv
  <2>1. umu \in BOOLEAN /\ isNil \in BOOLEAN /\ isToml \in BOOLEAN
      BY Zenon DEF Init
  <2>2. QED
      BY <2>1, NoUsersType DEF Init, UserInv
<1>5. SpeakInv
  <2>1. (\A u \in Users : handler[u].name = Nobody) /\ heard.name = Nobody
      BY DEF Init, Idle, Silence
  <2>2. QED
      BY <2>1, RegistrationConstants DEF SpeakInv
<1>6. CountInv
    BY DEF Init, CountInv
<1>7. TellInv
  <2>1. isCut \in BOOLEAN
      BY Zenon DEF Init
  <2>2. QED
      BY <2>1 DEF Init, TellInv
<1>8. QED
    BY <1>1, <1>2, <1>3, <1>4, <1>5, <1>6, <1>7 DEF RegistrationInv

\* The registration's invariant holds in every behaviour.
LEMMA RegistrationInductive == Spec => []RegistrationInv
<1>1. RegistrationInv /\ [Next]_vars => RegistrationInv'
  <2> SUFFICES ASSUME RegistrationInv, [Next]_vars PROVE RegistrationInv'
      OBVIOUS
  <2>1. DiscordInv /\ StoreInv /\ AnswerInv /\ UserInv /\ SpeakInv /\ CountInv /\ TellInv
      BY DEF RegistrationInv
  <2>2. StoreInv' /\ (Kept \/ Restart)
      BY <2>1, StoreStep
  <2>3. AnswerInv' /\ accepted \subseteq accepted'
      BY <2>1, <2>2, AnswerStep
  <2>4. QED
      BY <2>1, <2>2, <2>3, DiscordStep, UserStep, SpeakStep, CountStep, TellStep DEF RegistrationInv
<1>2. QED
    BY <1>1, RegistrationInit, PTL DEF Spec

\* Types; an entry's timeout is never longer than a day.
THEOREM RegistrationTypeCorrect == Spec => []TypeOK
<1>1. RegistrationInv => TypeOK
    BY DEF RegistrationInv, DiscordInv, StoreInv, AnswerInv, UserInv, CountInv, TellInv, TypeOK,
           Registrations, Names, Message, Answer, Heard
<1>2. QED
    BY <1>1, RegistrationInductive, PTL

\* No account has or uses a character's name for which no request of that
\* account was open when some player's acceptance found it, unless Discord's IGN:
\* role gives it: through any interleaving of answers and new requests, failed
\* saves and restarts.  It does not say that the player of that character
\* accepted: the shared code lets another do so (BindingsConsented).
THEOREM NamesWereRequested == Spec => []BindingsAccepted
<1>1. RegistrationInv => BindingsAccepted
    BY DEF RegistrationInv, UserInv, SpeakInv, BindingsAccepted
<1>2. QED
    BY <1>1, RegistrationInductive, PTL

\* Unless the last save failed, a restart reads back every registration.
THEOREM RegistrationsAreDurable == Spec => []RegistrationsDurable
<1>1. RegistrationInv => RegistrationsDurable
    BY DEF RegistrationInv, StoreInv
<1>2. QED
    BY <1>1, RegistrationInductive, PTL

\* Discord.mu: handleMessage runs one message at a time, and never while the
\* keeper connects.
OneMessageAtATime == Inside = {dmu} \ {"keeper", "free"}

\* Discord.mu excludes other handlers and the keeper, whatever the number of accounts.
THEOREM HandlersExclude == Spec => []OneMessageAtATime
<1>1. RegistrationInv => OneMessageAtATime
    BY RegistrationConstants DEF RegistrationInv, DiscordInv, OneMessageAtATime, Inside
<1>2. QED
    BY <1>1, RegistrationInductive, PTL


\* The guards of HandlerStep, with the choices its steps make: the message's
\* handler finds one of its steps open, and Fault is not needed for any of them.
StepOpen(u) ==
    \/ handler[u].pc = "locked" /\ ~umu
          /\ (IF Name(u) # Nobody THEN {Name(u)} ELSE GetIGNName(u)) # {}
    \/ handler[u].pc = "command"
    \/ handler[u].pc = "replied" /\ handler[u].asks \in Chars
    \/ handler[u].pc = "route" /\ SpeaksAs(u) # {}

\* What handleMessage promises its successors: whoever holds Discord.mu is at a step
\* it can take, unless it waits for userdb.mu.
HolderHasAStep ==
    dmu \in {"free", "keeper"} \/ (dmu \in Inside /\ (umu \/ StepOpen(dmu)))

\* No handler is left holding Discord.mu with nothing to do, and nothing but
\* userdb.mu stands between a holder and its unlock, whatever the registrations,
\* routes and roles are.
THEOREM HoldersAreNotStuck == Spec => []HolderHasAStep
<1>1. ASSUME RegistrationInv, dmu \notin {"free", "keeper"}, ~umu
      PROVE  dmu \in Inside /\ StepOpen(dmu)
    <2>1. dmu \in Users /\ handler[dmu].pc \notin {"idle", "waiting"} /\ handler[dmu] \in Message
        BY <1>1 DEF RegistrationInv, DiscordInv
    <2>2. dmu \in Inside
        BY <2>1 DEF Inside
    <2>3. handler[dmu].pc \in {"locked", "command", "replied", "route"}
        BY <2>1 DEF Message
    <2>4. handler[dmu].pc = "replied" => handler[dmu].asks \in Chars
        BY <1>1, <2>1 DEF RegistrationInv, DiscordInv
    <2>5. SpeaksAs(dmu) # {} /\ GetIGNName(dmu) # {}
        BY DEF SpeaksAs, GetIGNName
    <2>6. QED
        BY <1>1, <2>2, <2>3, <2>4, <2>5 DEF StepOpen
<1>2. RegistrationInv => (dmu \notin {"free", "keeper"} => dmu \in Inside)
    BY DEF RegistrationInv, DiscordInv, Inside
<1>3. RegistrationInv => HolderHasAStep
    BY <1>1, <1>2 DEF HolderHasAStep
<1>4. QED
    BY <1>3, RegistrationInductive, PTL

=============================================================================
