--------------------------- MODULE ConsoleProofs ---------------------------
(***************************************************************************)
(* Proofs about Console, for any number of browsers, sessions, channel     *)
(* tables, passwords, requests, commands and crashes.                      *)
(***************************************************************************)
EXTENDS Console, TLAPS

Programs == {"hub", "cmd"}

\* Settings the hub starts with.
Startable == {c \in Confs : c.web => c.password # NoPassword}

Process == [pc : {"off", "migrate", "repath", "load", "loaded", "up"},
            copy : Startable \cup {NoCopy}]
Request == [cookie : Sessions \cup {NoSession},
            pc : {"idle", "handle", "applied", "persist", "loaded"},
            table : Tables \cup {BadTable}, copy : Startable \cup {NoCopy}]
Wanted == [password : Passwords \cup {NoPassword}, web : BOOLEAN, limit : -1..1]

\* The file, and what the hub made of it.
FileInv ==
    /\ conf \in Startable /\ data \in {"old", "new"} /\ task \in Tasks
    /\ router \in Tables /\ channels \in Tables /\ passwordHash \in Passwords \cup {NoPassword}
    /\ opened \in {"old", "new"} /\ limit \in [applied : 0..1, asked : -1..1]
    /\ wanted \in Wanted /\ faults \in Nat

\* Programs: one that is about to save has read settings the hub starts with.
ProcInv ==
    /\ proc \in [Programs -> Process]
    /\ \A p \in Programs : proc[p].pc \in {"repath", "loaded"} => proc[p].copy \in Startable
    /\ proc["hub"].pc # "loaded" /\ proc["cmd"].pc # "up"

\* Requests run only in a hub that is up; a table that was applied has passed
\* Verify.
RequestInv ==
    /\ browser \in [Browsers -> Request]
    /\ \A b \in Browsers : browser[b].pc = "loaded" => browser[b].copy \in Startable
    /\ \A b \in Browsers :
          browser[b].pc \in {"applied", "persist", "loaded"} => browser[b].table \in Tables
    /\ \A b \in Browsers : browser[b].pc # "idle" => Up

\* A session in the store has left what it was not idle.
SessionInv ==
    /\ left \in [Live -> 0..TTL] /\ Live \subseteq used /\ used \subseteq Sessions
    /\ idle \in [Sessions -> 0..TTL] /\ sweepDue \in BOOLEAN
    /\ \A s \in Live : left[s] + idle[s] = TTL
    /\ \A b \in Browsers : browser[b].cookie \in used \cup {NoSession}

\* Programs that have begun to change the settings.
Busy == {p \in Programs : proc[p].pc \in {"repath", "loaded"}}

\* Unless two writers overlapped there is one at a time, and the copy it has is
\* the file.
CopyInv ==
    ~overlapped =>
        /\ \A b, c \in Handling : b = c
        /\ \A p, q \in Busy : p = q
        /\ Handling = {} \/ Busy = {}
        /\ \A p \in Busy : proc[p].copy = conf
        /\ \A b \in Browsers : browser[b].pc = "loaded" => browser[b].copy = conf

\* What the operator asked for is in the file.
WantedInv ==
    ~overlapped =>
        /\ conf.password = wanted.password /\ conf.web = wanted.web
        /\ setUp \/ conf.limit = wanted.limit

\* How far a table has come: it is in the router, then in the hub's copy, then
\* in the file; before and after that the three agree.
AgreeInv ==
    ~overlapped /\ Up =>
        /\ ~apart /\ (\A b \in Browsers : browser[b].pc \in {"idle", "handle"}) =>
              router = conf.channels /\ channels = router
        /\ \A b \in Browsers : browser[b].pc = "applied" => router = browser[b].table
        /\ \A b \in Browsers : browser[b].pc \in {"persist", "loaded"} =>
              router = browser[b].table /\ channels = router

\* How far the migration has come.
MigrateInv ==
    /\ \A p \in Programs : proc[p].pc = "repath" => data = "new"
    /\ ~overlapped /\ conf.path = "new" => data = "new"
    /\ ~overlapped /\ ~unmigrated /\ proc["hub"].pc = "load" => conf.path = "new"
    /\ ~overlapped /\ ~unmigrated /\ Up => opened = "new" /\ data = "new"

-----------------------------------------------------------------------------
(* Settings.                                                               *)

\* Who may replace the file: handlers of requests and programs.
LEMMA WritingIs == Writing = Handling \cup Busy
BY DEF Writing, Busy, Programs

\* The settings of a configuration that Verify accepts.
LEMMA StartableFields ==
    ASSUME NEW c \in Startable
    PROVE  /\ c \in Confs /\ c.channels \in Tables /\ c.password \in Passwords \cup {NoPassword}
           /\ c.web \in BOOLEAN /\ c.limit \in -1..1 /\ c.path \in {"old", "new"}
           /\ c.web => c.password # NoPassword
BY DEF Startable, Confs

\* The changes that are made to settings leave them such that the hub starts.
LEMMA ChannelsKeepStartable ==
    ASSUME NEW c \in Startable, NEW t \in Tables
    PROVE  [c EXCEPT !.channels = t] \in Startable
BY DEF Startable, Confs

\* Renaming the data files in a configuration keeps it acceptable.
LEMMA PathKeepsStartable ==
    ASSUME NEW c \in Startable, NEW x \in {"old", "new"}
    PROVE  [c EXCEPT !.path = x] \in Startable
BY DEF Startable, Confs

\* No value of the limit makes a configuration unacceptable.
LEMMA LimitKeepsStartable ==
    ASSUME NEW c \in Startable, NEW n \in -1..1
    PROVE  [c EXCEPT !.limit = n] \in Startable
BY DEF Startable, Confs

\* applyDefaults leaves no limit unset.
LEMMA DefaultsType ==
    ASSUME NEW n \in -1..1
    PROVE  ApplyDefaults(n) \in 0..1
BY DEF ApplyDefaults

\* What a command makes of settings: the hub starts with them, their path is
\* the same, and only setup changes channels or limits.
LEMMA CommandedForms ==
    ASSUME NEW c \in Startable, task \in Tasks, NEW d \in Commanded(c)
    PROVE  /\ d \in Startable /\ d.path = c.path
           /\ task # "setup" => d.channels = c.channels /\ d.limit = c.limit
<1>1. CASE task = "password"
  <2>1. Commanded(c) = WebSetPassword(c)
      BY <1>1 DEF Commanded
  <2>2. PICK w \in BOOLEAN : d \in {[c EXCEPT !.password = p, !.web = w] : p \in Passwords}
      BY <2>1 DEF WebSetPassword
  <2>3. PICK p \in Passwords : d = [c EXCEPT !.password = p, !.web = w]
      BY <2>2
  <2>4. d \in Confs /\ d.password = p /\ d.path = c.path
        /\ d.channels = c.channels /\ d.limit = c.limit
      BY <2>3 DEF Startable, Confs
  <2>5. QED
      BY <1>1, <2>4, ConsoleAssumption DEF Startable
<1>2. CASE task \in {"enable", "disable"}
  <2>1. Commanded(c) = WebSetEnabled(c, task = "enable")
      BY <1>2 DEF Commanded
  <2>2. /\ task = "enable" => c.password # NoPassword
        /\ d = [c EXCEPT !.web = (task = "enable")]
      BY <2>1 DEF WebSetEnabled
  <2>3. CASE task = "enable"
      BY <2>2, <2>3 DEF Startable, Confs
  <2>4. CASE task = "disable"
      BY <2>2, <2>4 DEF Startable, Confs
  <2>5. QED
      BY <1>2, <2>3, <2>4
<1>3. CASE task = "setup"
  <2>1. Commanded(c) = RunHub(c)
      BY <1>3 DEF Commanded
  <2>2. PICK t \in Tables : d = [c EXCEPT !.channels = t, !.limit = ApplyDefaults(c.limit)]
      BY <2>1 DEF RunHub
  <2>3. ApplyDefaults(c.limit) \in -1..1
      BY StartableFields, DefaultsType
  <2>4. QED
      BY <1>3, <2>2, <2>3 DEF Startable, Confs
<1>4. QED
    BY <1>1, <1>2, <1>3 DEF Tasks

-----------------------------------------------------------------------------
(* Types and places.                                                       *)
ShapeInv == FileInv /\ ProcInv /\ RequestInv

\* Having no copy is not a configuration.
LEMMA NoCopyIsNoConf == NoCopy \notin Confs
BY ConsoleAssumption DEF NoCopy, Confs

\* A request that is over keeps its cookie.
LEMMA DoneRequest ==
    ASSUME NEW r \in Request
    PROVE  /\ Done(r) \in Request /\ Done(r).pc = "idle" /\ Done(r).cookie = r.cookie
BY DEF Done, Request

\* A save that succeeds or fails.
LEMMA SaveType ==
    ASSUME FileInv, NEW c \in Startable, Save(c)
    PROVE  conf' \in Startable /\ faults' \in Nat /\ conf' \in {c, conf}
BY DEF Save, Fault, FileInv

\* Steps that only programs take.
LEMMA RequestsAlone ==
    ASSUME RequestInv, browser' = browser, Up => Up'
    PROVE  RequestInv'
BY DEF RequestInv, Up

\* Every copy that a step makes or saves is one that Verify accepts.
LEMMA ShapeStep == ShapeInv /\ [Next]_vars => ShapeInv'
<1> SUFFICES ASSUME ShapeInv, [Next]_vars PROVE ShapeInv'
    OBVIOUS
<1>t. FileInv /\ ProcInv /\ RequestInv
    BY DEF ShapeInv
<1>p. "hub" \in Programs /\ "cmd" \in Programs /\ NoCopy \in Startable \cup {NoCopy}
    BY DEF Programs
<1>1. ASSUME NEW p \in Programs, MigrateRenames(p) PROVE ShapeInv'
  <2>1. FileInv'
      BY <1>1, <1>t DEF MigrateRenames, FileInv, hubVars
  <2>2. ProcInv'
    <3>1. conf \in Startable
        BY <1>t DEF FileInv
    <3>2. proc' \in {[proc EXCEPT ![p].pc = "load"], [proc EXCEPT ![p] = [pc |-> "repath", copy |-> conf]]}
        BY <1>1 DEF MigrateRenames
    <3>3. QED
        BY <1>t, <3>1, <3>2 DEF ProcInv, Process, Programs
  <2>3. RequestInv'
    <3>1. browser' = browser /\ (Up => Up')
        BY <1>1, <1>t DEF MigrateRenames, Up, ProcInv, Programs
    <3>2. QED
        BY <1>t, <3>1, RequestsAlone
  <2>4. QED
      BY <2>1, <2>2, <2>3 DEF ShapeInv
<1>f. ASSUME NEW p \in Programs, MigrateFails(p) PROVE ShapeInv'
  <2>1. FileInv'
      BY <1>f, <1>t DEF MigrateFails, Fault, FileInv, hubVars
  <2>2. ProcInv'
      BY <1>f, <1>t DEF MigrateFails, ProcInv, Process, Programs
  <2>3. RequestInv'
    <3>1. browser' = browser /\ (Up => Up')
        BY <1>f, <1>t DEF MigrateFails, Up, ProcInv, Programs
    <3>2. QED
        BY <1>t, <3>1, RequestsAlone
  <2>4. QED
      BY <2>1, <2>2, <2>3 DEF ShapeInv
<1>2. ASSUME NEW p \in Programs, MigrateSaves(p) PROVE ShapeInv'
  <2>1. proc[p].copy \in Startable /\ proc[p].pc = "repath"
      BY <1>2, <1>t DEF MigrateSaves, ProcInv
  <2>2. FileInv'
    <3>1. conf' \in {conf, [proc[p].copy EXCEPT !.path = "new"]} /\ faults' \in Nat
        BY <1>2, <1>t DEF MigrateSaves, Fault, FileInv
    <3>2. conf' \in Startable
        BY <1>t, <2>1, <3>1, PathKeepsStartable DEF FileInv
    <3>3. QED
        BY <1>2, <1>t, <3>1, <3>2 DEF MigrateSaves, FileInv, hubVars
  <2>3. ProcInv'
      BY <1>2, <1>t DEF MigrateSaves, ProcInv, Process, Programs, At
  <2>4. RequestInv'
    <3>1. browser' = browser /\ (Up => Up')
        BY <1>2, <1>t, <2>1 DEF MigrateSaves, Up, ProcInv, Programs
    <3>2. QED
        BY <1>t, <3>1, RequestsAlone
  <2>5. QED
      BY <2>2, <2>3, <2>4 DEF ShapeInv
<1>3. ASSUME NEW p \in Programs, Dies(p) PROVE ShapeInv'
  <2>1. FileInv'
      BY <1>3, <1>t DEF Dies, FileInv, fileVars, hubVars, historyVars, Fault
  <2>2. ProcInv'
      BY <1>3, <1>t DEF Dies, ProcInv, Process, Programs, At
  <2>3. RequestInv'
    <3>1. CASE p = "hub"
      <4>1. browser' = [b \in Browsers |-> Done(browser[b])]
          BY <1>3, <3>1 DEF Dies
      <4>2. \A b \in Browsers : browser'[b] \in Request /\ browser'[b].pc = "idle"
          BY <1>t, <4>1, DoneRequest DEF RequestInv
      <4>3. QED
          BY <4>1, <4>2 DEF RequestInv
    <3>2. CASE p # "hub"
      <4>1. browser' = browser /\ (Up => Up')
          BY <1>3, <3>2, <1>t DEF Dies, Up, ProcInv, Programs
      <4>2. QED
          BY <1>t, <4>1, RequestsAlone
    <3>3. QED
        BY <3>1, <3>2
  <2>4. QED
      BY <2>1, <2>2, <2>3 DEF ShapeInv
<1>4. CASE HubStarts
  <2>1. FileInv'
      BY <1>4, <1>t DEF HubStarts, FileInv, fileVars, hubVars
  <2>2. ProcInv'
      BY <1>4, <1>t DEF HubStarts, ProcInv, Process, Programs
  <2>3. RequestInv'
    <3>1. browser' = browser /\ ~Up
        BY <1>4 DEF HubStarts, Up
    <3>2. QED
        BY <1>t, <3>1, RequestsAlone
  <2>4. QED
      BY <2>1, <2>2, <2>3 DEF ShapeInv
<1>5. CASE HubRuns
  <2>1. conf \in Startable /\ wanted \in Wanted
      BY <1>t DEF FileInv
  <2>2. ApplyDefaults(conf.limit) \in 0..1 /\ wanted.limit \in -1..1
      BY <2>1, StartableFields, DefaultsType DEF Wanted
  <2>3. FileInv'
      BY <1>5, <1>t, <2>1, <2>2, StartableFields DEF HubRuns, FileInv, fileVars
  <2>4. ProcInv'
      BY <1>5, <1>t DEF HubRuns, ProcInv, Process, Programs
  <2>5. RequestInv'
    <3>1. browser' = browser /\ ~Up
        BY <1>5 DEF HubRuns, Up
    <3>2. QED
        BY <1>t, <3>1, RequestsAlone
  <2>6. QED
      BY <2>3, <2>4, <2>5 DEF ShapeInv
<1>6. CASE Tick
    BY <1>6, <1>t DEF Tick, ShapeInv, FileInv, ProcInv, RequestInv, fileVars, hubVars,
                      historyVars, Up
<1>7. ASSUME NEW b \in Browsers, Login(b) \/ Logout(b) PROVE ShapeInv'
  <2>1. FileInv' /\ ProcInv' /\ Up' = Up
      BY <1>7, <1>t DEF Login, Logout, RequestRest, StoreRest, FileInv, ProcInv, Up
  <2>2. \E s \in Sessions \cup {NoSession} : browser' = [browser EXCEPT ![b].cookie = s]
      BY <1>7 DEF Login, Logout
  <2>3. RequestInv'
      BY <1>t, <2>1, <2>2 DEF RequestInv, Request
  <2>4. QED
      BY <2>1, <2>3 DEF ShapeInv
<1>8. ASSUME NEW b \in Browsers, Auth(b) PROVE ShapeInv'
  <2>1. FileInv' /\ ProcInv' /\ Up' = Up /\ Up
      BY <1>8, <1>t DEF Auth, RequestRest, StoreRest, FileInv, ProcInv, Up
  <2>2. \/ browser' = browser
        \/ \E t \in Tables \cup {BadTable} :
              browser' = [browser EXCEPT ![b].pc = "handle", ![b].table = t]
      BY <1>8 DEF Auth
  <2>3. RequestInv'
      BY <1>t, <2>1, <2>2 DEF RequestInv, Request
  <2>4. QED
      BY <2>1, <2>3 DEF ShapeInv
<1>9. ASSUME NEW b \in Browsers, ReplaceRouter(b) PROVE ShapeInv'
  <2>1. browser[b] \in Request /\ browser[b].pc = "handle" /\ Up
      BY <1>9, <1>t DEF ReplaceRouter, RequestInv
  <2>2. ProcInv' /\ Up' = Up
      BY <1>9, <1>t DEF ReplaceRouter, HandlerRest, RequestRest, ProcInv, Up
  <2>3. CASE Verifies(browser[b].table)
    <3>1. browser[b].table \in Tables
        BY <2>1, <2>3 DEF Verifies, Request
    <3>2. FileInv'
        BY <1>9, <1>t, <2>3, <3>1 DEF ReplaceRouter, HandlerRest, RequestRest, FileInv
    <3>3. browser' = [browser EXCEPT ![b].pc = "applied"]
        BY <1>9, <2>3 DEF ReplaceRouter
    <3>4. RequestInv'
        BY <1>t, <2>1, <2>2, <3>1, <3>3 DEF RequestInv, Request
    <3>5. QED
        BY <2>2, <3>2, <3>4 DEF ShapeInv
  <2>4. CASE ~Verifies(browser[b].table)
    <3>1. FileInv'
        BY <1>9, <1>t, <2>4 DEF ReplaceRouter, HandlerRest, RequestRest, FileInv
    <3>2. browser' = [browser EXCEPT ![b] = Done(browser[b])]
        BY <1>9, <2>4 DEF ReplaceRouter
    <3>3. Done(browser[b]) \in Request /\ Done(browser[b]).pc = "idle"
        BY <2>1, DoneRequest
    <3>4. RequestInv'
        BY <1>t, <2>2, <3>2, <3>3 DEF RequestInv
    <3>5. QED
        BY <2>2, <3>1, <3>4 DEF ShapeInv
  <2>5. QED
      BY <2>3, <2>4
<1>10. ASSUME NEW b \in Browsers, ReplaceChannels(b) PROVE ShapeInv'
  <2>1. browser[b] \in Request /\ browser[b].pc = "applied" /\ Up /\ browser[b].table \in Tables
      BY <1>10, <1>t DEF ReplaceChannels, RequestInv
  <2>2. FileInv' /\ ProcInv' /\ Up' = Up
      BY <1>10, <1>t, <2>1 DEF ReplaceChannels, HandlerRest, RequestRest, FileInv, ProcInv, Up
  <2>3. browser' = [browser EXCEPT ![b].pc = "persist"]
      BY <1>10 DEF ReplaceChannels
  <2>4. RequestInv'
      BY <1>t, <2>1, <2>2, <2>3 DEF RequestInv, Request
  <2>5. QED
      BY <2>2, <2>4 DEF ShapeInv
<1>11. ASSUME NEW b \in Browsers, PersistLoads(b) PROVE ShapeInv'
  <2>1. browser[b] \in Request /\ browser[b].pc = "persist" /\ Up /\ browser[b].table \in Tables
      BY <1>11, <1>t DEF PersistLoads, RequestInv
  <2>2. FileInv' /\ ProcInv' /\ Up' = Up /\ conf \in Startable
      BY <1>11, <1>t DEF PersistLoads, HandlerRest, RequestRest, FileInv, ProcInv, Up, Fault
  <2>3. \/ browser' = [browser EXCEPT ![b].pc = "loaded", ![b].copy = conf]
        \/ browser' = [browser EXCEPT ![b] = Done(browser[b])]
      BY <1>11 DEF PersistLoads
  <2>4. Done(browser[b]) \in Request /\ Done(browser[b]).pc = "idle"
      BY <2>1, DoneRequest
  <2>5. CASE browser' = [browser EXCEPT ![b].pc = "loaded", ![b].copy = conf]
    <3>1. RequestInv'
        BY <1>t, <2>1, <2>2, <2>5 DEF RequestInv, Request
    <3>2. QED
        BY <2>2, <3>1 DEF ShapeInv
  <2>6. CASE browser' = [browser EXCEPT ![b] = Done(browser[b])]
    <3>1. RequestInv'
        BY <1>t, <2>2, <2>4, <2>6 DEF RequestInv
    <3>2. QED
        BY <2>2, <3>1 DEF ShapeInv
  <2>7. QED
      BY <2>3, <2>5, <2>6
<1>12. ASSUME NEW b \in Browsers, PersistSaves(b) PROVE ShapeInv'
  <2>1. /\ browser[b] \in Request /\ browser[b].pc = "loaded" /\ Up
        /\ browser[b].table \in Tables /\ browser[b].copy \in Startable
      BY <1>12, <1>t DEF PersistSaves, RequestInv
  <2>2. [browser[b].copy EXCEPT !.channels = browser[b].table] \in Startable
      BY <2>1, ChannelsKeepStartable
  <2>3. conf' \in Startable /\ faults' \in Nat
      BY <1>12, <1>t, <2>2, SaveType DEF PersistSaves
  <2>4. FileInv' /\ ProcInv' /\ Up' = Up
      BY <1>12, <1>t, <2>3 DEF PersistSaves, HandlerRest, RequestRest, FileInv, ProcInv, Up
  <2>5. browser' = [browser EXCEPT ![b] = Done(browser[b])]
      BY <1>12 DEF PersistSaves
  <2>6. Done(browser[b]) \in Request /\ Done(browser[b]).pc = "idle"
      BY <2>1, DoneRequest
  <2>7. RequestInv'
      BY <1>t, <2>4, <2>5, <2>6 DEF RequestInv
  <2>8. QED
      BY <2>4, <2>7 DEF ShapeInv
<1>13. CASE CommandStarts
  <2>1. FileInv'
      BY <1>13, <1>t DEF CommandStarts, CommandRest, FileInv, hubVars, Tasks
  <2>2. ProcInv' /\ Up' = Up /\ browser' = browser
      BY <1>13, <1>t DEF CommandStarts, CommandRest, ProcInv, Process, Programs, Up
  <2>3. QED
      BY <1>t, <2>1, <2>2, RequestsAlone DEF ShapeInv
<1>14. CASE CommandLoads
  <2>1. FileInv' /\ conf \in Startable
      BY <1>14, <1>t DEF CommandLoads, CommandRest, FileInv, hubVars
  <2>2. ProcInv' /\ Up' = Up /\ browser' = browser
      BY <1>14, <1>t, <2>1 DEF CommandLoads, CommandRest, ProcInv, Process, Programs, Up
  <2>3. QED
      BY <1>t, <2>1, <2>2, RequestsAlone DEF ShapeInv
<1>15. CASE CommandSaves
  <2>0. ProcInv' /\ proc["cmd"].copy \in Startable
      BY <1>15, <1>t, <1>p DEF CommandSaves, ProcInv, Process, Programs, At
  <2>1. ProcInv' /\ Up' = Up /\ browser' = browser /\ proc["cmd"].copy \in Startable
      BY <1>15, <1>t, <2>0 DEF CommandSaves, CommandRest, ProcInv, Programs, Up
  <2>2. task \in Tasks /\ wanted \in Wanted
      BY <1>t DEF FileInv
  <2>3. CASE Commanded(proc["cmd"].copy) = {}
    <3>1. FileInv'
        BY <1>15, <1>t, <2>3 DEF CommandSaves, CommandRest, FileInv, hubVars
    <3>2. QED
        BY <1>t, <2>1, <3>1, RequestsAlone DEF ShapeInv
  <2>4. CASE Commanded(proc["cmd"].copy) # {}
    <3>1. PICK c \in Commanded(proc["cmd"].copy) :
            /\ Save(c)
            /\ wanted' \in {wanted, [wanted EXCEPT !.password = c.password, !.web = c.web]}
        BY <1>15, <2>4 DEF CommandSaves
    <3>2. c \in Startable
        BY <2>1, <2>2, <3>1, CommandedForms
    <3>3. wanted' \in Wanted
        BY <2>2, <3>1, <3>2, StartableFields DEF Wanted
    <3>4. conf' \in Startable /\ faults' \in Nat
        BY <1>t, <3>1, <3>2, SaveType
    <3>5. FileInv'
        BY <1>15, <1>t, <3>3, <3>4 DEF CommandSaves, CommandRest, FileInv, hubVars
    <3>6. QED
        BY <1>t, <2>1, <3>5, RequestsAlone DEF ShapeInv
  <2>5. QED
      BY <2>3, <2>4
<1>16. CASE EditsLimit
  <2>1. PICK n \in {-1, 1} : conf' = [conf EXCEPT !.limit = n] /\ wanted' = [wanted EXCEPT !.limit = n]
      BY <1>16 DEF EditsLimit
  <2>n. n \in -1..1 /\ conf \in Startable
      BY <1>t DEF FileInv
  <2>2. conf' \in Startable
      BY <2>n, <2>1, LimitKeepsStartable
  <2>3. wanted' \in Wanted
      BY <1>t, <2>1 DEF FileInv, Wanted
  <2>4. FileInv' /\ ProcInv' /\ Up' = Up /\ browser' = browser
      BY <1>16, <1>t, <2>2, <2>3 DEF EditsLimit, CommandRest, FileInv, ProcInv, hubVars, Up
  <2>5. QED
      BY <1>t, <2>4, RequestsAlone DEF ShapeInv
<1>17. CASE UNCHANGED vars
    BY <1>17, <1>t DEF vars, ShapeInv, FileInv, ProcInv, RequestInv, Up
<1>18. QED
    BY <1>1, <1>f, <1>2, <1>3, <1>4, <1>5, <1>6, <1>7, <1>8, <1>9, <1>10, <1>11, <1>12, <1>13, <1>14,
       <1>15, <1>16, <1>17 DEF Next, Programs

-----------------------------------------------------------------------------
(* Sessions.                                                               *)
LEMMA SessionsAlone ==
    ASSUME SessionInv, UNCHANGED storeVars,
           \A b \in Browsers : browser'[b].cookie = browser[b].cookie
    PROVE  SessionInv'
BY DEF SessionInv, storeVars, Live

\* A hub that has just started has no sessions.
LEMMA EmptyStore == DOMAIN <<>> = {} /\ <<>> \in [{} -> 0..TTL]
OBVIOUS

\* What a session has left and how long it was idle keep adding up to TTL.
LEMMA SessionStep == ShapeInv /\ SessionInv /\ [Next]_vars => SessionInv'
<1> SUFFICES ASSUME ShapeInv, SessionInv, [Next]_vars PROVE SessionInv'
    OBVIOUS
<1>b. browser \in [Browsers -> Request]
    BY DEF ShapeInv, RequestInv
<1>1. ASSUME NEW p \in Programs, MigrateRenames(p) \/ MigrateSaves(p) PROVE SessionInv'
    BY <1>1, SessionsAlone DEF MigrateRenames, MigrateSaves
<1>f. ASSUME NEW p \in Programs, MigrateFails(p) PROVE SessionInv'
    BY <1>f, SessionsAlone DEF MigrateFails
<1>2. ASSUME NEW p \in Programs, Dies(p) PROVE SessionInv'
  <2>1. used' = used /\ idle' = idle
      BY <1>2 DEF Dies
  <2>2. CASE p = "hub"
    <3>1. left' = <<>> /\ sweepDue' = FALSE /\ browser' = [b \in Browsers |-> Done(browser[b])]
        BY <1>2, <2>2 DEF Dies
    <3>2. \A b \in Browsers : browser'[b].cookie = browser[b].cookie
        BY <1>b, <3>1, DoneRequest
    <3>3. Live' = {} /\ left' \in [Live' -> 0..TTL]
        BY <3>1, EmptyStore DEF Live
    <3>4. QED
        BY <2>1, <3>1, <3>2, <3>3 DEF SessionInv
  <2>3. CASE p # "hub"
      BY <1>2, <2>1, <2>3, SessionsAlone DEF Dies, storeVars
  <2>4. QED
      BY <2>2, <2>3
<1>3. CASE HubStarts \/ HubRuns
    BY <1>3, SessionsAlone DEF HubStarts, HubRuns
<1>4. CASE Tick
  <2>1. /\ left' = [s \in Live |-> IF left[s] = 0 THEN 0 ELSE left[s] - 1]
        /\ idle' = [s \in Sessions |-> IF s \in Live /\ idle[s] < TTL THEN idle[s] + 1 ELSE idle[s]]
        /\ sweepDue' = TRUE /\ used' = used /\ browser' = browser
      BY <1>4 DEF Tick
  <2>2. Live' = Live
      BY <2>1 DEF Live
  <2>3. \A s \in Live : left[s] \in 0..TTL /\ idle[s] \in 0..TTL /\ left[s] + idle[s] = TTL
      BY DEF SessionInv
  <2>4. TTL \in Nat
      BY ConsoleAssumption
  <2>5. left' \in [Live -> 0..TTL] /\ \A s \in Live : left'[s] + idle'[s] = TTL
    <3>1. Live \subseteq Sessions
        BY DEF SessionInv
    <3>2. \A s \in Live : left'[s] \in 0..TTL /\ left'[s] + idle'[s] = TTL
        BY <2>1, <2>3, <2>4, <3>1
    <3>3. QED
        BY <2>1, <3>2
  <2>6. idle' \in [Sessions -> 0..TTL]
      BY <2>1, <2>4 DEF SessionInv
  <2>7. QED
      BY <2>1, <2>2, <2>5, <2>6 DEF SessionInv
<1>5. ASSUME NEW b \in Browsers, Login(b) PROVE SessionInv'
  <2>1. PICK s \in Sessions : Create(s) /\ browser' = [browser EXCEPT ![b].cookie = s]
      BY <1>5 DEF Login
  <2>2. /\ s \notin used /\ used' = used \cup {s} /\ sweepDue' = FALSE
        /\ idle' = [idle EXCEPT ![s] = 0]
      BY <2>1 DEF Create
  <2>3. PICK K \in SUBSET Live :
          left' = [x \in K \cup {s} |-> IF x = s THEN TTL ELSE left[x]]
    <3>1. left' = [x \in (IF sweepDue THEN Live \ Expired ELSE Live) \cup {s} |->
                      IF x = s THEN TTL ELSE left[x]]
        BY <2>1 DEF Create
    <3>2. CASE sweepDue
        BY <3>1, <3>2
    <3>3. CASE ~sweepDue
        BY <3>1, <3>3
    <3>4. QED
        BY <3>2, <3>3
  <2>4. Live' = K \cup {s} /\ s \notin K
      BY <2>2, <2>3 DEF Live, SessionInv
  <2>5. left' \in [Live' -> 0..TTL] /\ \A x \in Live' : left'[x] + idle'[x] = TTL
    <3>1. Live \subseteq Sessions /\ TTL \in Nat
        BY ConsoleAssumption DEF SessionInv
    <3>2. \A x \in K : left'[x] \in 0..TTL /\ left'[x] + idle'[x] = TTL
        BY <2>2, <2>3, <2>4, <3>1 DEF SessionInv
    <3>3. left'[s] = TTL /\ idle'[s] = 0
        BY <2>2, <2>3 DEF SessionInv
    <3>4. QED
        BY <2>3, <2>4, <3>1, <3>2, <3>3
  <2>6. idle' \in [Sessions -> 0..TTL]
      BY <2>2, ConsoleAssumption DEF SessionInv
  <2>7. \A c \in Browsers : browser'[c].cookie \in used' \cup {NoSession}
      BY <1>b, <2>1, <2>2 DEF SessionInv, Request
  <2>8. QED
      BY <2>2, <2>4, <2>5, <2>6, <2>7 DEF SessionInv
<1>6. ASSUME NEW b \in Browsers, Logout(b) PROVE SessionInv'
  <2>1. /\ left' = Without(left, {browser[b].cookie})
        /\ browser' = [browser EXCEPT ![b].cookie = NoSession]
        /\ UNCHANGED <<used, sweepDue, idle>>
      BY <1>6 DEF Logout
  <2>2. Live' = Live \ {browser[b].cookie} /\ \A s \in Live' : left'[s] = left[s]
      BY <2>1 DEF Without, Live
  <2>3. left' \in [Live' -> 0..TTL]
      BY <2>1, <2>2 DEF SessionInv, Without, Live
  <2>4. \A c \in Browsers : browser'[c].cookie \in used \cup {NoSession}
      BY <1>b, <2>1 DEF SessionInv, Request
  <2>5. QED
      BY <2>1, <2>2, <2>3, <2>4 DEF SessionInv
<1>7. ASSUME NEW b \in Browsers, Auth(b) PROVE SessionInv'
  <2> DEFINE s == browser[b].cookie
  <2>1. /\ s \in Live /\ left' = Get(s) /\ UNCHANGED <<used, sweepDue>>
        /\ idle' = IF idle[s] < TTL THEN [idle EXCEPT ![s] = 0] ELSE idle
      BY <1>7 DEF Auth
  <2>2. \A c \in Browsers : browser'[c].cookie = browser[c].cookie
    <3>1. \/ browser' = browser
          \/ \E t \in Tables \cup {BadTable} :
                browser' = [browser EXCEPT ![b].pc = "handle", ![b].table = t]
        BY <1>7 DEF Auth
    <3>2. QED
        BY <1>b, <3>1 DEF Request
  <2>3. /\ TTL \in Nat /\ s \in Sessions /\ left[s] \in 0..TTL /\ idle[s] \in 0..TTL
        /\ left[s] + idle[s] = TTL
      BY <2>1, ConsoleAssumption DEF SessionInv
  <2>4. idle' \in [Sessions -> 0..TTL] /\ \A x \in Live \ {s} : idle'[x] = idle[x]
      BY <2>1, <2>3 DEF SessionInv
  <2>5. CASE left[s] = 0
    <3>1. Live' = Live \ {s} /\ left' = [x \in Live \ {s} |-> left[x]]
        BY <2>1, <2>5 DEF Get, Without, Live
    <3>2. QED
        BY <2>1, <2>2, <2>4, <3>1 DEF SessionInv
  <2>6. CASE left[s] # 0
    <3>1. Live' = Live /\ left' = [left EXCEPT ![s] = TTL]
        BY <2>1, <2>6 DEF Get, Live
    <3>2. idle'[s] = 0 /\ left'[s] = TTL
        BY <2>1, <2>3, <2>6, <3>1 DEF SessionInv
    <3>3. \A x \in Live : left'[x] + idle'[x] = TTL
        BY <2>3, <2>4, <3>1, <3>2 DEF SessionInv
    <3>t. left \in [Live -> 0..TTL] /\ TTL \in 0..TTL
        BY <2>3 DEF SessionInv
    <3>4. left' \in [Live -> 0..TTL]
        BY <3>t, <3>1
    <3>5. QED
        BY <2>1, <2>2, <2>4, <3>1, <3>3, <3>4 DEF SessionInv
  <2>7. QED
      BY <2>5, <2>6
<1>8. ASSUME NEW b \in Browsers,
             ReplaceRouter(b) \/ ReplaceChannels(b) \/ PersistLoads(b) \/ PersistSaves(b)
      PROVE  SessionInv'
  <2>1. UNCHANGED storeVars
      BY <1>8 DEF ReplaceRouter, ReplaceChannels, PersistLoads, PersistSaves, HandlerRest
  <2>2. \/ browser' = [browser EXCEPT ![b] = Done(browser[b])]
        \/ browser' = [browser EXCEPT ![b].pc = "applied"]
        \/ browser' = [browser EXCEPT ![b].pc = "persist"]
        \/ browser' = [browser EXCEPT ![b].pc = "loaded", ![b].copy = conf]
      BY <1>8 DEF ReplaceRouter, ReplaceChannels, PersistLoads, PersistSaves
  <2>3. Done(browser[b]).cookie = browser[b].cookie
      BY <1>b, DoneRequest
  <2>4. \A c \in Browsers : browser'[c].cookie = browser[c].cookie
      BY <1>b, <2>2, <2>3 DEF Request
  <2>5. QED
      BY <2>1, <2>4, SessionsAlone
<1>9. CASE CommandStarts \/ CommandLoads \/ CommandSaves \/ EditsLimit
    BY <1>9, SessionsAlone DEF CommandStarts, CommandLoads, CommandSaves, EditsLimit, CommandRest
<1>10. CASE UNCHANGED vars
    BY <1>10, SessionsAlone DEF vars, storeVars
<1>11. QED
    BY <1>1, <1>f, <1>2, <1>3, <1>4, <1>5, <1>6, <1>7, <1>8, <1>9, <1>10 DEF Next, Programs

-----------------------------------------------------------------------------
(* Writers of the file.                                                    *)

\* A step that starts no writer and leaves the file.
LEMMA CopyKept ==
    ASSUME CopyInv, conf' = conf, overlapped' = overlapped,
           Handling' \subseteq Handling, Busy' \subseteq Busy,
           \A p \in Busy' : proc'[p].copy = proc[p].copy,
           \A b \in Browsers : browser'[b].pc = "loaded" =>
              \/ browser'[b].copy = conf
              \/ browser[b].pc = "loaded" /\ browser'[b].copy = browser[b].copy
    PROVE  CopyInv'
BY DEF CopyInv

\* A step after which no request is being handled and one program at most has
\* the file, just read.
LEMMA CopyFresh ==
    ASSUME ~overlapped' => /\ Handling' = {}
                           /\ \E p \in Programs : Busy' \subseteq {p}
                           /\ \A p \in Busy' : proc'[p].copy = conf'
    PROVE  CopyInv'
<1>1. Handling' = {} => \A b \in Browsers : browser'[b].pc # "loaded"
    BY DEF Handling
<1>2. QED
    BY <1>1 DEF CopyInv

\* A writer has the file to itself.
LEMMA ProgramAlone ==
    ASSUME CopyInv, ~overlapped, NEW p \in Busy
    PROVE  Handling = {} /\ Busy = {p} /\ proc[p].copy = conf
BY DEF CopyInv

\* Without overlap a request in progress is the only writer.
LEMMA BrowserAlone ==
    ASSUME CopyInv, ~overlapped, NEW b \in Handling
    PROVE  Handling = {b} /\ Busy = {} /\ (browser[b].pc = "loaded" => browser[b].copy = conf)
BY DEF CopyInv, Handling

\* Who is not handling a request is idle.
LEMMA IdleOrHandling ==
    ASSUME RequestInv, NEW b \in Browsers, b \notin Handling
    PROVE  browser[b].pc = "idle"
BY DEF RequestInv, Request, Handling

\* Every step keeps a lone writer's copy the file but for its own change.
LEMMA CopyStep == ShapeInv /\ CopyInv /\ [Next]_vars => CopyInv'
<1> SUFFICES ASSUME ShapeInv, CopyInv, [Next]_vars PROVE CopyInv'
    OBVIOUS
<1>b. browser \in [Browsers -> Request] /\ proc \in [Programs -> Process]
    BY DEF ShapeInv, RequestInv, ProcInv
<1>1. ASSUME NEW p \in Programs, MigrateRenames(p) PROVE CopyInv'
  <2>1. browser' = browser /\ conf' = conf /\ Handling' = Handling /\ p \notin Busy
      BY <1>1 DEF MigrateRenames, Handling, Busy
  <2>2. CASE conf.path = "new"
    <3>1. proc' = [proc EXCEPT ![p].pc = "load"] /\ overlapped' = overlapped
        BY <1>1, <2>2 DEF MigrateRenames
    <3>2. Busy' \subseteq Busy /\ \A q \in Busy' : proc'[q].copy = proc[q].copy
        BY <1>b, <3>1 DEF Busy, Process
    <3>3. QED
        BY <2>1, <3>1, <3>2, CopyKept
  <2>3. CASE conf.path # "new"
    <3>1. /\ proc' = [proc EXCEPT ![p] = [pc |-> "repath", copy |-> conf]]
          /\ overlapped' = (overlapped \/ Writing # {})
        BY <1>1, <2>3 DEF MigrateRenames
    <3>2. ~overlapped' => Handling = {} /\ Busy = {}
        BY <3>1, WritingIs
    <3>3. ~overlapped' => Busy' \subseteq {p}
        BY <1>b, <3>1, <3>2 DEF Busy
    <3>4. ~overlapped' => \A q \in Busy' : proc'[q].copy = conf'
        BY <1>b, <2>1, <3>1, <3>3
    <3>5. QED
        BY <2>1, <3>2, <3>3, <3>4, CopyFresh
  <2>4. QED
      BY <2>2, <2>3
<1>f. ASSUME NEW p \in Programs, MigrateFails(p) PROVE CopyInv'
  <2>1. browser' = browser /\ conf' = conf /\ Handling' = Handling
      BY <1>f DEF MigrateFails, Handling
  <2>2. proc' = [proc EXCEPT ![p].pc = "load"] /\ overlapped' = overlapped
      BY <1>f DEF MigrateFails
  <2>3. Busy' \subseteq Busy /\ \A q \in Busy' : proc'[q].copy = proc[q].copy
      BY <1>b, <2>2 DEF Busy, Process
  <2>4. QED
      BY <2>1, <2>2, <2>3, CopyKept
<1>2. ASSUME NEW p \in Programs, MigrateSaves(p) \/ (p = "cmd" /\ CommandSaves) PROVE CopyInv'
  <2>1. /\ p \in Busy /\ proc' = [proc EXCEPT ![p] = At(proc'[p].pc)]
        /\ proc'[p].pc \in {"load", "off"} /\ browser' = browser /\ overlapped' = overlapped
    <3>1. p \in Busy /\ browser' = browser /\ overlapped' = overlapped
        BY <1>2 DEF MigrateSaves, CommandSaves, CommandRest, Busy
    <3>2. proc' = [proc EXCEPT ![p] = At("load")] \/ proc' = [proc EXCEPT ![p] = At("off")]
        BY <1>2 DEF MigrateSaves, CommandSaves
    <3>3. QED
        BY <1>b, <3>1, <3>2 DEF At
  <2>2. ~overlapped => Handling = {} /\ Busy = {p}
      BY <2>1, ProgramAlone
  <2>3. Handling' = Handling
      BY <2>1 DEF Handling
  <2>4. Busy' \subseteq Busy \ {p}
      BY <1>b, <2>1 DEF Busy
  <2>5. QED
      BY <2>1, <2>2, <2>3, <2>4, CopyFresh
<1>3. ASSUME NEW p \in Programs, Dies(p) PROVE CopyInv'
  <2>1. /\ conf' = conf /\ overlapped' = overlapped /\ proc' = [proc EXCEPT ![p] = At("off")]
        /\ browser' \in {browser, [b \in Browsers |-> Done(browser[b])]}
      BY <1>3 DEF Dies, fileVars, historyVars
  <2>2. Busy' \subseteq Busy /\ \A q \in Busy' : proc'[q].copy = proc[q].copy
      BY <1>b, <2>1 DEF Busy, At
  <2>3. \A b \in Browsers : browser'[b] = browser[b] \/ browser'[b].pc = "idle"
      BY <1>b, <2>1, DoneRequest
  <2>4. Handling' \subseteq Handling
      BY <2>3 DEF Handling
  <2>5. QED
      BY <2>1, <2>2, <2>3, <2>4, CopyKept
<1>4. CASE HubStarts \/ HubRuns \/ CommandStarts
  <2>1. conf' = conf /\ overlapped' = overlapped /\ browser' = browser
      BY <1>4 DEF HubStarts, HubRuns, CommandStarts, CommandRest, fileVars
  <2>2. \/ proc' = [proc EXCEPT !["hub"].pc = "migrate"]
        \/ proc' = [proc EXCEPT !["hub"].pc = "up"]
        \/ proc' = [proc EXCEPT !["cmd"].pc = "migrate"]
      BY <1>4 DEF HubStarts, HubRuns, CommandStarts
  <2>3. Busy' \subseteq Busy /\ \A q \in Busy' : proc'[q].copy = proc[q].copy
      BY <1>b, <2>2 DEF Busy, Process, Programs
  <2>4. Handling' = Handling
      BY <2>1 DEF Handling
  <2>5. QED
      BY <2>1, <2>3, <2>4, CopyKept
<1>5. CASE Tick \/ UNCHANGED vars
  <2>1. conf' = conf /\ overlapped' = overlapped /\ browser' = browser /\ proc' = proc
      BY <1>5 DEF Tick, vars, fileVars, historyVars
  <2>2. Handling' = Handling /\ Busy' = Busy
      BY <2>1 DEF Handling, Busy
  <2>3. QED
      BY <2>1, <2>2, CopyKept
<1>6. ASSUME NEW b \in Browsers, Login(b) \/ Logout(b) PROVE CopyInv'
  <2>1. conf' = conf /\ overlapped' = overlapped /\ proc' = proc
      BY <1>6 DEF Login, Logout, RequestRest, StoreRest
  <2>2. \E s \in Sessions \cup {NoSession} : browser' = [browser EXCEPT ![b].cookie = s]
      BY <1>6 DEF Login, Logout
  <2>3. \A c \in Browsers : browser'[c].pc = browser[c].pc /\ browser'[c].copy = browser[c].copy
      BY <1>b, <2>2 DEF Request
  <2>4. Handling' = Handling /\ Busy' = Busy
      BY <2>1, <2>3 DEF Handling, Busy
  <2>5. QED
      BY <2>1, <2>3, <2>4, CopyKept
<1>7. ASSUME NEW b \in Browsers, Auth(b) PROVE CopyInv'
  <2>1. conf' = conf /\ proc' = proc /\ Busy' = Busy
      BY <1>7 DEF Auth, RequestRest, StoreRest, Busy
  <2>2. CASE browser' = browser /\ overlapped' = overlapped
    <3>1. Handling' = Handling
        BY <2>2 DEF Handling
    <3>2. QED
        BY <2>1, <2>2, <3>1, CopyKept
  <2>3. CASE /\ \E t \in Tables \cup {BadTable} :
                   browser' = [browser EXCEPT ![b].pc = "handle", ![b].table = t]
             /\ overlapped' = (overlapped \/ Writing # {})
    <3>1. SUFFICES ASSUME ~overlapped' PROVE CopyInv'
        BY DEF CopyInv
    <3>2. Handling = {} /\ Busy = {}
        BY <2>3, <3>1, WritingIs
    <3>3. browser'[b].pc = "handle" /\ \A c \in Browsers \ {b} : browser'[c] = browser[c]
        BY <1>b, <2>3 DEF Request
    <3>4. Handling' \subseteq {b} /\ \A c \in Browsers : browser'[c].pc # "loaded"
        BY <3>2, <3>3 DEF Handling
    <3>5. QED
        BY <2>1, <3>2, <3>4 DEF CopyInv
  <2>4. QED
      BY <1>7, <2>2, <2>3 DEF Auth
<1>8. ASSUME NEW b \in Browsers, ReplaceRouter(b) \/ ReplaceChannels(b) \/ PersistLoads(b)
      PROVE  CopyInv'
  <2>1. conf' = conf /\ proc' = proc /\ Busy' = Busy /\ overlapped' = overlapped
      BY <1>8 DEF ReplaceRouter, ReplaceChannels, PersistLoads, HandlerRest, RequestRest, Busy
  <2>2. \/ browser' = [browser EXCEPT ![b] = Done(browser[b])]
        \/ browser' = [browser EXCEPT ![b].pc = "applied"]
        \/ browser' = [browser EXCEPT ![b].pc = "persist"]
        \/ browser' = [browser EXCEPT ![b].pc = "loaded", ![b].copy = conf]
      BY <1>8 DEF ReplaceRouter, ReplaceChannels, PersistLoads
  <2>3. Done(browser[b]).pc = "idle" /\ b \in Handling
      BY <1>8, <1>b, DoneRequest DEF ReplaceRouter, ReplaceChannels, PersistLoads, Handling
  <2>4. /\ \A c \in Browsers \ {b} : browser'[c] = browser[c]
        /\ browser'[b].pc = "loaded" => browser'[b].copy = conf
      BY <1>b, <2>2, <2>3 DEF Request
  <2>5. Handling' \subseteq Handling
      BY <2>3, <2>4 DEF Handling
  <2>6. QED
      BY <2>1, <2>4, <2>5, CopyKept
<1>9. ASSUME NEW b \in Browsers, PersistSaves(b) PROVE CopyInv'
  <2>1. /\ b \in Handling /\ browser' = [browser EXCEPT ![b] = Done(browser[b])]
        /\ Busy' = Busy /\ overlapped' = overlapped
      BY <1>9 DEF PersistSaves, HandlerRest, RequestRest, Handling, Busy
  <2>2. ~overlapped => Handling = {b} /\ Busy = {}
      BY <2>1, BrowserAlone
  <2>3. Done(browser[b]).pc = "idle"
      BY <1>b, DoneRequest
  <2>4. Handling' \subseteq Handling \ {b}
      BY <1>b, <2>1, <2>3 DEF Handling
  <2>5. QED
      BY <2>1, <2>2, <2>4, CopyFresh DEF Programs
<1>10. CASE CommandLoads
  <2>1. /\ proc' = [proc EXCEPT !["cmd"] = [pc |-> "loaded", copy |-> conf]]
        /\ overlapped' = (overlapped \/ Writing # {})
        /\ conf' = conf /\ browser' = browser
      BY <1>10 DEF CommandLoads, CommandRest
  <2>2. ~overlapped' => Handling' = {} /\ Busy = {}
      BY <2>1, WritingIs DEF Handling
  <2>3. ~overlapped' => Busy' \subseteq {"cmd"}
      BY <1>b, <2>1, <2>2 DEF Busy
  <2>4. "cmd" \in Programs
      BY DEF Programs
  <2>5. ~overlapped' => \A q \in Busy' : proc'[q].copy = conf'
      BY <1>b, <2>1, <2>3, <2>4
  <2>6. QED
      BY <2>2, <2>3, <2>4, <2>5, CopyFresh
<1>11. CASE EditsLimit
  <2>1. overlapped' = (overlapped \/ Writing # {}) /\ proc' = proc /\ browser' = browser
      BY <1>11 DEF EditsLimit, CommandRest
  <2>2. ~overlapped' => Handling' = {} /\ Busy' = {}
      BY <2>1, WritingIs DEF Handling, Busy
  <2>3. QED
      BY <2>2, CopyFresh DEF Programs
<1>12. QED
    BY <1>1, <1>f, <1>2, <1>3, <1>4, <1>5, <1>6, <1>7, <1>8, <1>9, <1>10, <1>11 DEF Next, Programs

-----------------------------------------------------------------------------
(* What a save without an overlap does to the file.                        *)
LEMMA MigrateSavesFile ==
    ASSUME ShapeInv, CopyInv, ~overlapped, NEW p \in Programs, MigrateSaves(p)
    PROVE  /\ \/ conf' = [conf EXCEPT !.path = "new"] /\ conf'.path = "new"
                 /\ unmigrated' = unmigrated
              \/ conf' = conf /\ unmigrated' = TRUE
           /\ conf'.password = conf.password /\ conf'.web = conf.web
           /\ conf'.limit = conf.limit /\ conf'.channels = conf.channels
<1>1. proc[p].copy = conf /\ conf \in Confs
  <2>1. p \in Busy
      BY DEF MigrateSaves, Busy
  <2>2. QED
      BY <2>1, ProgramAlone DEF ShapeInv, FileInv, Startable
<1>2. \/ conf' = [conf EXCEPT !.path = "new"] /\ unmigrated' = unmigrated
      \/ conf' = conf /\ unmigrated' = TRUE
    BY <1>1 DEF MigrateSaves
<1>3. QED
    BY <1>1, <1>2 DEF Confs

\* The channel editor changes nothing but the channels.
LEMMA PersistSavesFile ==
    ASSUME ShapeInv, CopyInv, ~overlapped, NEW b \in Browsers, PersistSaves(b)
    PROVE  /\ conf'.password = conf.password /\ conf'.web = conf.web
           /\ conf'.limit = conf.limit /\ conf'.path = conf.path
<1>1. browser[b].copy = conf /\ conf \in Confs
  <2>1. b \in Handling /\ browser[b].pc = "loaded"
      BY DEF PersistSaves, Handling
  <2>2. QED
      BY <2>1, BrowserAlone DEF ShapeInv, FileInv, Startable
<1>2. conf' \in {conf, [conf EXCEPT !.channels = browser[b].table]}
    BY <1>1 DEF PersistSaves, Save
<1>3. QED
    BY <1>1, <1>2 DEF Confs

\* A command changes nothing or what its operator wanted, and setup leaves
\* router and file apart until the next start.
LEMMA CommandSavesFile ==
    ASSUME ShapeInv, CopyInv, ~overlapped, CommandSaves
    PROVE  /\ conf'.path = conf.path
           /\ \/ conf' = conf /\ UNCHANGED <<wanted, apart, setUp>>
              \/ /\ wanted' = [wanted EXCEPT !.password = conf'.password, !.web = conf'.web]
                 /\ task = "setup" => apart' /\ setUp'
                 /\ apart => apart'
                 /\ setUp => setUp'
                 /\ task # "setup" => conf'.channels = conf.channels /\ conf'.limit = conf.limit
<1>1. /\ proc["cmd"].copy = conf /\ conf \in Startable /\ task \in Tasks /\ faults \in Nat
      /\ CommandSaves
  <2>1. "cmd" \in Busy
      BY DEF CommandSaves, Busy, Programs
  <2>2. QED
      BY <2>1, ProgramAlone DEF ShapeInv, FileInv
<1>2. CASE Commanded(conf) = {}
    BY <1>1, <1>2 DEF CommandSaves
<1>3. CASE Commanded(conf) # {}
  <2>1. PICK c \in Commanded(conf) :
          /\ Save(c)
          /\ IF faults' = faults
             THEN /\ wanted' = [wanted EXCEPT !.password = c.password, !.web = c.web]
                  /\ apart' = (apart \/ task = "setup")
                  /\ setUp' = (setUp \/ task = "setup")
             ELSE UNCHANGED <<wanted, apart, setUp>>
      BY <1>1, <1>3 DEF CommandSaves
  <2>2. /\ c.path = conf.path
        /\ task # "setup" => c.channels = conf.channels /\ c.limit = conf.limit
      BY <1>1, CommandedForms
  <2>3. CASE faults' = faults
    <3>1. conf' = c
        BY <1>1, <2>1, <2>3 DEF Save, Fault
    <3>2. QED
        BY <2>1, <2>2, <2>3, <3>1
  <2>4. CASE faults' # faults
    <3>1. conf' = conf
        BY <2>1, <2>4 DEF Save
    <3>2. QED
        BY <2>1, <2>4, <3>1
  <2>5. QED
      BY <2>3, <2>4
<1>4. QED
    BY <1>2, <1>3

-----------------------------------------------------------------------------
(* What the operator asked for.                                            *)
LEMMA WantedAlone ==
    ASSUME WantedInv, UNCHANGED <<conf, wanted, setUp>>, overlapped => overlapped'
    PROVE  WantedInv'
BY DEF WantedInv

\* The file keeps the settings that were wanted last.
LEMMA WantedStep == ShapeInv /\ CopyInv /\ WantedInv /\ [Next]_vars => WantedInv'
<1> SUFFICES ASSUME ShapeInv, CopyInv, WantedInv, [Next]_vars PROVE WantedInv'
    OBVIOUS
<1>1. ASSUME NEW p \in Programs, MigrateRenames(p) PROVE WantedInv'
    BY <1>1, WantedAlone DEF MigrateRenames
<1>f. ASSUME NEW p \in Programs, MigrateFails(p) PROVE WantedInv'
    BY <1>f, WantedAlone DEF MigrateFails
<1>2. ASSUME NEW p \in Programs, MigrateSaves(p) PROVE WantedInv'
  <2>1. overlapped' = overlapped /\ wanted' = wanted /\ setUp' = setUp
      BY <1>2 DEF MigrateSaves
  <2>2. QED
      BY <1>2, <2>1, MigrateSavesFile DEF WantedInv
<1>3. ASSUME NEW p \in Programs, Dies(p) PROVE WantedInv'
    BY <1>3, WantedAlone DEF Dies, fileVars, historyVars
<1>4. CASE HubStarts \/ HubRuns \/ Tick
    BY <1>4, WantedAlone DEF HubStarts, HubRuns, Tick, fileVars, historyVars
<1>5. ASSUME NEW b \in Browsers, Login(b) \/ Logout(b) \/ Auth(b) PROVE WantedInv'
  <2>1. UNCHANGED <<conf, wanted, setUp>>
      BY <1>5 DEF Login, Logout, Auth, RequestRest, StoreRest
  <2>2. overlapped' = overlapped \/ overlapped' = (overlapped \/ Writing # {})
      BY <1>5 DEF Login, Logout, Auth
  <2>m. overlapped => overlapped'
      BY <2>2, Zenon
  <2>3. QED
      BY <2>m, <2>1, WantedAlone
<1>6. ASSUME NEW b \in Browsers, ReplaceRouter(b) \/ ReplaceChannels(b) \/ PersistLoads(b)
      PROVE  WantedInv'
    BY <1>6, WantedAlone DEF ReplaceRouter, ReplaceChannels, PersistLoads, HandlerRest, RequestRest
<1>7. ASSUME NEW b \in Browsers, PersistSaves(b) PROVE WantedInv'
  <2>1. overlapped' = overlapped /\ wanted' = wanted /\ setUp' = setUp
      BY <1>7 DEF PersistSaves, HandlerRest, RequestRest
  <2>2. QED
      BY <1>7, <2>1, PersistSavesFile DEF WantedInv
<1>8. CASE CommandStarts \/ CommandLoads
  <2>1. UNCHANGED <<conf, wanted, setUp>>
      BY <1>8 DEF CommandStarts, CommandLoads
  <2>2. overlapped' = overlapped \/ overlapped' = (overlapped \/ Writing # {})
      BY <1>8 DEF CommandStarts, CommandLoads
  <2>m. overlapped => overlapped'
      BY <2>2, Zenon
  <2>3. QED
      BY <2>m, <2>1, WantedAlone
<1>9. CASE CommandSaves
  <2>1. SUFFICES ASSUME ~overlapped' PROVE WantedInv'
      BY DEF WantedInv
  <2>2. ~overlapped
      BY <1>9, <2>1 DEF CommandSaves
  <2>3. /\ wanted \in Wanted /\ conf.password = wanted.password /\ conf.web = wanted.web
        /\ setUp \/ conf.limit = wanted.limit
      BY <2>2 DEF WantedInv, ShapeInv, FileInv
  <2>4. CASE conf' = conf /\ UNCHANGED <<wanted, apart, setUp>>
      BY <2>3, <2>4 DEF WantedInv
  <2>5. CASE /\ wanted' = [wanted EXCEPT !.password = conf'.password, !.web = conf'.web]
             /\ task = "setup" => apart' /\ setUp'
             /\ setUp => setUp'
             /\ task # "setup" => conf'.channels = conf.channels /\ conf'.limit = conf.limit
    <3>1. /\ wanted'.password = conf'.password /\ wanted'.web = conf'.web
          /\ wanted'.limit = wanted.limit
        BY <2>3, <2>5 DEF Wanted
    <3>2. QED
        BY <2>3, <2>5, <3>1 DEF WantedInv
  <2>6. QED
      BY <1>9, <2>2, <2>4, <2>5, CommandSavesFile
<1>10. CASE EditsLimit
  <2>1. PICK n \in {-1, 1} : conf' = [conf EXCEPT !.limit = n] /\ wanted' = [wanted EXCEPT !.limit = n]
      BY <1>10 DEF EditsLimit
  <2>2. setUp' = setUp /\ overlapped' = (overlapped \/ Writing # {})
      BY <1>10 DEF EditsLimit
  <2>3. conf \in Confs /\ wanted \in Wanted
      BY DEF ShapeInv, FileInv, Startable
  <2>4. /\ conf'.password = conf.password /\ conf'.web = conf.web /\ conf'.limit = n
        /\ wanted'.password = wanted.password /\ wanted'.web = wanted.web /\ wanted'.limit = n
      BY <2>1, <2>3 DEF Confs, Wanted
  <2>5. QED
      BY <2>2, <2>4 DEF WantedInv
<1>11. CASE UNCHANGED vars
    BY <1>11, WantedAlone DEF vars
<1>12. QED
    BY <1>1, <1>f, <1>2, <1>3, <1>4, <1>5, <1>6, <1>7, <1>8, <1>9, <1>10, <1>11 DEF Next, Programs

-----------------------------------------------------------------------------
(* The channels in the router, in the hub and in the file.                 *)

\* A step that changes no table anywhere, no place of a request beyond its
\* start, and does not bring the hub up.
LEMMA AgreeAlone ==
    ASSUME AgreeInv, UNCHANGED <<router, channels>>, conf'.channels = conf.channels,
           overlapped => overlapped', apart => apart', Up' => Up,
           \A b \in Browsers : \/ browser'[b].pc = browser[b].pc
                                  /\ browser'[b].table = browser[b].table
                               \/ {browser[b].pc, browser'[b].pc} \subseteq {"idle", "handle"}
    PROVE  AgreeInv'
<1>1. \A b \in Browsers : browser'[b].pc \in {"idle", "handle"} => browser[b].pc \in {"idle", "handle"}
    OBVIOUS
<1>2. \A b \in Browsers : browser'[b].pc \in {"applied", "persist", "loaded"} =>
        browser[b].pc = browser'[b].pc /\ browser[b].table = browser'[b].table
    OBVIOUS
<1>3. QED
    BY <1>1, <1>2 DEF AgreeInv

\* Router, hub and file keep the same table.
LEMMA AgreeStep == ShapeInv /\ CopyInv /\ AgreeInv /\ [Next]_vars => AgreeInv'
<1> SUFFICES ASSUME ShapeInv, CopyInv, AgreeInv, [Next]_vars PROVE AgreeInv'
    OBVIOUS
<1>b. /\ browser \in [Browsers -> Request] /\ proc \in [Programs -> Process] /\ RequestInv
      /\ "hub" \in Programs /\ "cmd" \in Programs
    BY DEF ShapeInv, RequestInv, ProcInv, Programs
<1>1. ASSUME NEW p \in Programs, MigrateRenames(p) PROVE AgreeInv'
  <2>1. /\ UNCHANGED <<router, channels, conf, browser, apart>>
        /\ overlapped' = overlapped \/ overlapped' = (overlapped \/ Writing # {})
      BY <1>1 DEF MigrateRenames, hubVars
  <2>2. Up' => Up
      BY <1>1, <1>b DEF MigrateRenames, Up, Process
  <2>m. overlapped => overlapped'
      BY <2>1, Zenon
  <2>3. QED
      BY <2>m, <2>1, <2>2, AgreeAlone
<1>f. ASSUME NEW p \in Programs, MigrateFails(p) PROVE AgreeInv'
  <2>1. UNCHANGED <<router, channels, conf, browser, apart, overlapped>>
      BY <1>f DEF MigrateFails, hubVars
  <2>2. Up' => Up
      BY <1>f, <1>b DEF MigrateFails, Up, Process
  <2>3. QED
      BY <2>1, <2>2, AgreeAlone
<1>2. ASSUME NEW p \in Programs, MigrateSaves(p) PROVE AgreeInv'
  <2>1. SUFFICES ASSUME ~overlapped' PROVE AgreeInv'
      BY DEF AgreeInv
  <2>2. UNCHANGED <<router, channels, browser, apart, overlapped>>
      BY <1>2 DEF MigrateSaves, hubVars
  <2>3. Up' => Up
      BY <1>2, <1>b DEF MigrateSaves, Up, At
  <2>4. conf'.channels = conf.channels
      BY <1>2, <2>1, <2>2, MigrateSavesFile
  <2>5. QED
      BY <2>2, <2>3, <2>4, AgreeAlone
<1>3. ASSUME NEW p \in Programs, Dies(p) PROVE AgreeInv'
  <2>1. UNCHANGED <<router, channels, conf, apart, overlapped>>
      BY <1>3 DEF Dies, hubVars, fileVars, historyVars
  <2>2. CASE p = "hub"
    <3>1. ~Up'
        BY <1>3, <1>b, <2>2 DEF Dies, Up, At
    <3>2. QED
        BY <3>1 DEF AgreeInv
  <2>3. CASE p # "hub"
    <3>1. browser' = browser /\ (Up' => Up)
        BY <1>3, <1>b, <2>3 DEF Dies, Up
    <3>2. QED
        BY <2>1, <3>1, AgreeAlone
  <2>4. QED
      BY <2>2, <2>3
<1>4. CASE HubStarts
  <2>1. ~Up'
      BY <1>4, <1>b DEF HubStarts, Up, Process
  <2>2. QED
      BY <2>1 DEF AgreeInv
<1>5. CASE HubRuns
  <2>1. /\ router' = conf.channels /\ channels' = conf.channels /\ conf' = conf /\ ~Up
        /\ browser' = browser
      BY <1>5 DEF HubRuns, Up, fileVars
  <2>2. \A b \in Browsers : browser'[b].pc = "idle"
      BY <1>b, <2>1 DEF RequestInv, Request
  <2>3. QED
      BY <2>1, <2>2 DEF AgreeInv
<1>6. CASE Tick \/ UNCHANGED vars
  <2>1. UNCHANGED <<router, channels, conf, apart, overlapped, browser>> /\ proc' = proc
      BY <1>6 DEF Tick, vars, hubVars, fileVars, historyVars
  <2>2. Up' = Up
      BY <2>1 DEF Up
  <2>3. QED
      BY <2>1, <2>2, AgreeAlone
<1>7. ASSUME NEW b \in Browsers, Login(b) \/ Logout(b) PROVE AgreeInv'
  <2>1. UNCHANGED <<router, channels, conf, apart, overlapped>> /\ proc' = proc
      BY <1>7 DEF Login, Logout, RequestRest, StoreRest
  <2>2. \E s \in Sessions \cup {NoSession} : browser' = [browser EXCEPT ![b].cookie = s]
      BY <1>7 DEF Login, Logout
  <2>3. \A c \in Browsers : browser'[c].pc = browser[c].pc /\ browser'[c].table = browser[c].table
      BY <1>b, <2>2 DEF Request
  <2>4. Up' = Up
      BY <2>1 DEF Up
  <2>5. QED
      BY <2>1, <2>3, <2>4, AgreeAlone
<1>8. ASSUME NEW b \in Browsers, Auth(b) PROVE AgreeInv'
  <2>1. /\ UNCHANGED <<router, channels, conf, apart>> /\ proc' = proc
        /\ overlapped' = overlapped \/ overlapped' = (overlapped \/ Writing # {})
      BY <1>8 DEF Auth, RequestRest, StoreRest
  <2>2. /\ browser[b].pc = "idle"
        /\ \/ browser' = browser
           \/ \E t \in Tables \cup {BadTable} :
                 browser' = [browser EXCEPT ![b].pc = "handle", ![b].table = t]
      BY <1>8 DEF Auth
  <2>3. /\ \A c \in Browsers \ {b} : browser'[c] = browser[c]
        /\ {browser[b].pc, browser'[b].pc} \subseteq {"idle", "handle"}
      BY <1>b, <2>2 DEF Request
  <2>4. Up' = Up
      BY <2>1 DEF Up
  <2>m. overlapped => overlapped'
      BY <2>1, Zenon
  <2>5. QED
      BY <2>m, <2>1, <2>3, <2>4, AgreeAlone
<1>9. ASSUME NEW b \in Browsers, ReplaceRouter(b) PROVE AgreeInv'
  <2>1. /\ UNCHANGED <<channels, conf, apart, overlapped>> /\ proc' = proc
        /\ browser[b].pc = "handle" /\ b \in Handling
      BY <1>9 DEF ReplaceRouter, HandlerRest, RequestRest, Handling
  <2>2. Up' = Up
      BY <2>1 DEF Up
  <2>3. CASE Verifies(browser[b].table)
    <3>1. SUFFICES ASSUME ~overlapped PROVE AgreeInv'
        BY <2>1 DEF AgreeInv
    <3>2. router' = browser[b].table /\ browser' = [browser EXCEPT ![b].pc = "applied"]
        BY <1>9, <2>3 DEF ReplaceRouter
    <3>3. browser'[b].pc = "applied" /\ browser'[b].table = browser[b].table
        BY <1>b, <3>2 DEF Request
    <3>4. \A c \in Browsers \ {b} : browser'[c].pc = "idle"
        BY <1>b, <2>1, <3>1, <3>2, BrowserAlone, IdleOrHandling
    <3>5. QED
        BY <3>2, <3>3, <3>4 DEF AgreeInv
  <2>4. CASE ~Verifies(browser[b].table)
    <3>1. router' = router /\ browser' = [browser EXCEPT ![b] = Done(browser[b])]
        BY <1>9, <2>4 DEF ReplaceRouter
    <3>2. Done(browser[b]).pc = "idle"
        BY <1>b, DoneRequest
    <3>3. /\ \A c \in Browsers \ {b} : browser'[c] = browser[c]
          /\ {browser[b].pc, browser'[b].pc} \subseteq {"idle", "handle"}
        BY <1>b, <2>1, <3>1, <3>2
    <3>4. QED
        BY <2>1, <2>2, <3>1, <3>3, AgreeAlone
  <2>5. QED
      BY <2>3, <2>4
<1>10. ASSUME NEW b \in Browsers, ReplaceChannels(b) PROVE AgreeInv'
  <2>1. /\ UNCHANGED <<router, overlapped>> /\ proc' = proc /\ channels' = browser[b].table
        /\ browser[b].pc = "applied" /\ b \in Handling
        /\ browser' = [browser EXCEPT ![b].pc = "persist"]
      BY <1>10 DEF ReplaceChannels, HandlerRest, RequestRest, Handling
  <2>2. SUFFICES ASSUME ~overlapped, Up PROVE AgreeInv'
      BY <2>1 DEF AgreeInv, Up
  <2>3. browser'[b].pc = "persist" /\ browser'[b].table = browser[b].table
      BY <1>b, <2>1 DEF Request
  <2>4. \A c \in Browsers \ {b} : browser'[c].pc = "idle"
      BY <1>b, <2>1, <2>2, BrowserAlone, IdleOrHandling
  <2>5. router = browser[b].table
      BY <2>1, <2>2 DEF AgreeInv
  <2>6. QED
      BY <2>1, <2>3, <2>4, <2>5 DEF AgreeInv
<1>11. ASSUME NEW b \in Browsers, PersistLoads(b) PROVE AgreeInv'
  <2>1. /\ UNCHANGED <<router, channels, overlapped>> /\ proc' = proc
        /\ browser[b].pc = "persist" /\ b \in Handling
      BY <1>11 DEF PersistLoads, HandlerRest, RequestRest, Handling
  <2>2. SUFFICES ASSUME ~overlapped, Up PROVE AgreeInv'
      BY <2>1 DEF AgreeInv, Up
  <2>3. /\ browser' = [browser EXCEPT ![b] = browser'[b]]
        /\ \/ browser'[b].pc = "loaded" /\ browser'[b].table = browser[b].table
           \/ browser'[b].pc = "idle" /\ apart' = TRUE
    <3>1. \/ browser' = [browser EXCEPT ![b].pc = "loaded", ![b].copy = conf]
          \/ browser' = [browser EXCEPT ![b] = Done(browser[b])] /\ apart' = TRUE
        BY <1>11 DEF PersistLoads
    <3>2. Done(browser[b]).pc = "idle"
        BY <1>b, DoneRequest
    <3>3. QED
        BY <1>b, <3>1, <3>2 DEF Request
  <2>4. \A c \in Browsers \ {b} : browser'[c].pc = "idle"
      BY <1>b, <2>1, <2>2, <2>3, BrowserAlone, IdleOrHandling
  <2>5. router = browser[b].table /\ channels = router
      BY <2>1, <2>2 DEF AgreeInv
  <2>6. QED
      BY <2>1, <2>3, <2>4, <2>5 DEF AgreeInv
<1>12. ASSUME NEW b \in Browsers, PersistSaves(b) PROVE AgreeInv'
  <2>1. /\ UNCHANGED <<router, channels, overlapped>> /\ proc' = proc
        /\ browser[b].pc = "loaded" /\ b \in Handling
        /\ apart' = (conf'.channels # browser[b].table)
        /\ browser' = [browser EXCEPT ![b] = Done(browser[b])]
      BY <1>12 DEF PersistSaves, HandlerRest, RequestRest, Handling
  <2>2. SUFFICES ASSUME ~overlapped, Up PROVE AgreeInv'
      BY <2>1 DEF AgreeInv, Up
  <2>3. Done(browser[b]).pc = "idle"
      BY <1>b, DoneRequest
  <2>4. \A c \in Browsers : browser'[c].pc = "idle"
      BY <1>b, <2>1, <2>2, <2>3, BrowserAlone, IdleOrHandling
  <2>5. router = browser[b].table /\ channels = router
      BY <2>1, <2>2 DEF AgreeInv
  <2>6. QED
      BY <2>1, <2>4, <2>5 DEF AgreeInv
<1>13. CASE CommandStarts \/ CommandLoads
  <2>1. /\ UNCHANGED <<router, channels, conf, apart, browser>>
        /\ overlapped' = overlapped \/ overlapped' = (overlapped \/ Writing # {})
      BY <1>13 DEF CommandStarts, CommandLoads, CommandRest, hubVars
  <2>2. Up' = Up
      BY <1>13, <1>b DEF CommandStarts, CommandLoads, Up, Process
  <2>m. overlapped => overlapped'
      BY <2>1, Zenon
  <2>3. QED
      BY <2>m, <2>1, <2>2, AgreeAlone
<1>14. CASE CommandSaves
  <2>1. UNCHANGED <<router, channels, browser, overlapped>>
      BY <1>14 DEF CommandSaves, CommandRest, hubVars
  <2>2. Up' = Up
      BY <1>14, <1>b DEF CommandSaves, Up
  <2>3. SUFFICES ASSUME ~overlapped, Up PROVE AgreeInv'
      BY <2>1, <2>2 DEF AgreeInv
  <2>4. Handling = {}
    <3>1. "cmd" \in Busy
        BY <1>14 DEF CommandSaves, Busy, Programs
    <3>2. QED
        BY <2>3, <3>1, ProgramAlone
  <2>5. \A b \in Browsers : browser'[b].pc = "idle" /\ browser[b].pc = "idle"
      BY <1>b, <2>1, <2>4, IdleOrHandling
  <2>6. ~apart' => ~apart /\ conf'.channels = conf.channels
    <3>1. \/ conf' = conf /\ apart' = apart
          \/ /\ task = "setup" => apart'
             /\ apart => apart'
             /\ task # "setup" => conf'.channels = conf.channels
        BY <1>14, <2>3, CommandSavesFile
    <3>2. QED
        BY <3>1
  <2>7. QED
      BY <2>1, <2>3, <2>5, <2>6 DEF AgreeInv
<1>15. CASE EditsLimit
  <2>1. /\ UNCHANGED <<router, channels, apart, browser>> /\ proc' = proc
        /\ overlapped' = (overlapped \/ Writing # {})
      BY <1>15 DEF EditsLimit, CommandRest, hubVars
  <2>2. conf'.channels = conf.channels
      BY <1>15 DEF EditsLimit, ShapeInv, FileInv, Startable, Confs
  <2>3. Up' = Up
      BY <2>1 DEF Up
  <2>4. QED
      BY <2>1, <2>2, <2>3, AgreeAlone
<1>16. QED
    BY <1>1, <1>f, <1>2, <1>3, <1>4, <1>5, <1>6, <1>7, <1>8, <1>9, <1>10, <1>11, <1>12, <1>13, <1>14,
       <1>15 DEF Next, Programs

-----------------------------------------------------------------------------
(* The migration.                                                          *)

\* A step that moves no file and starts no program past the migration.
LEMMA MigrateAlone ==
    ASSUME MigrateInv, UNCHANGED <<data, opened, unmigrated>>, overlapped => overlapped',
           ~overlapped' => conf'.path = conf.path,
           \A p \in Programs : proc'[p].pc = "repath" => proc[p].pc = "repath",
           proc'["hub"].pc = "load" => proc["hub"].pc = "load", Up' => Up
    PROVE  MigrateInv'
BY DEF MigrateInv

\* The data files stay where the configuration, or the next migration,
\* looks for them.
LEMMA MigrateStep == ShapeInv /\ CopyInv /\ MigrateInv /\ [Next]_vars => MigrateInv'
<1> SUFFICES ASSUME ShapeInv, CopyInv, MigrateInv, [Next]_vars PROVE MigrateInv'
    OBVIOUS
<1>b. /\ proc \in [Programs -> Process] /\ conf \in Confs /\ data \in {"old", "new"}
      /\ "hub" \in Programs /\ "cmd" \in Programs
    BY DEF ShapeInv, FileInv, ProcInv, Programs, Startable
<1>1. ASSUME NEW p \in Programs, MigrateRenames(p) PROVE MigrateInv'
  <2>1. UNCHANGED <<conf, unmigrated, opened>> /\ proc[p].pc = "migrate"
      BY <1>1 DEF MigrateRenames, hubVars
  <2>2. CASE conf.path = "new"
    <3>1. proc' = [proc EXCEPT ![p].pc = "load"] /\ UNCHANGED <<data, overlapped>>
        BY <1>1, <2>2 DEF MigrateRenames
    <3>2. /\ \A q \in Programs : proc'[q].pc = "repath" => proc[q].pc = "repath"
          /\ Up' => Up
        BY <1>b, <3>1 DEF Process, Up
    <3>3. QED
        BY <2>1, <2>2, <3>1, <3>2 DEF MigrateInv
  <2>3. CASE conf.path # "new"
    <3>1. /\ proc' = [proc EXCEPT ![p] = [pc |-> "repath", copy |-> conf]] /\ data' = "new"
          /\ overlapped' = (overlapped \/ Writing # {})
        BY <1>1, <2>3 DEF MigrateRenames
    <3>2. proc'["hub"].pc = "load" => proc["hub"].pc = "load"
        BY <1>b, <3>1
    <3>3. Up' => Up
        BY <1>b, <3>1 DEF Up
    <3>4. overlapped => overlapped'
        BY <3>1, Zenon
    <3>5. QED
        BY <2>1, <2>3, <3>1, <3>2, <3>3, <3>4 DEF MigrateInv
  <2>4. QED
      BY <2>2, <2>3
<1>f. ASSUME NEW p \in Programs, MigrateFails(p) PROVE MigrateInv'
  <2>1. /\ UNCHANGED <<conf, overlapped>> /\ unmigrated' = TRUE /\ data' \in {data, "new"}
        /\ proc' = [proc EXCEPT ![p].pc = "load"]
      BY <1>f DEF MigrateFails
  <2>2. \A q \in Programs : proc'[q].pc = "repath" => proc[q].pc = "repath"
      BY <1>b, <2>1 DEF Process
  <2>3. QED
      BY <2>1, <2>2 DEF MigrateInv
<1>2. ASSUME NEW p \in Programs, MigrateSaves(p) PROVE MigrateInv'
  <2>1. /\ proc' = [proc EXCEPT ![p] = At("load")] /\ proc[p].pc = "repath"
        /\ UNCHANGED <<data, opened, overlapped>> /\ data = "new"
      BY <1>2 DEF MigrateSaves, hubVars, MigrateInv
  <2>2. /\ \A q \in Programs : proc'[q].pc = "repath" => proc[q].pc = "repath"
        /\ Up' => Up
      BY <1>b, <2>1 DEF At, Up
  <2>3. ~overlapped => \/ conf'.path = "new" /\ unmigrated' = unmigrated
                       \/ conf' = conf /\ unmigrated' = TRUE
      BY <1>2, MigrateSavesFile
  <2>4. QED
      BY <2>1, <2>2, <2>3 DEF MigrateInv
<1>3. ASSUME NEW p \in Programs, Dies(p) PROVE MigrateInv'
  <2>1. /\ UNCHANGED <<data, opened, unmigrated, overlapped, conf>>
        /\ proc' = [proc EXCEPT ![p] = At("off")]
      BY <1>3 DEF Dies, fileVars, hubVars, historyVars
  <2>2. /\ \A q \in Programs : proc'[q].pc = "repath" => proc[q].pc = "repath"
        /\ proc'["hub"].pc = "load" => proc["hub"].pc = "load"
        /\ Up' => Up
      BY <1>b, <2>1 DEF At, Up
  <2>3. QED
      BY <2>1, <2>2, MigrateAlone
<1>4. CASE HubStarts
  <2>1. /\ UNCHANGED <<data, opened, overlapped, conf>>
        /\ proc' = [proc EXCEPT !["hub"].pc = "migrate"]
      BY <1>4 DEF HubStarts, fileVars, hubVars
  <2>2. /\ \A q \in Programs : proc'[q].pc = "repath" => proc[q].pc = "repath"
        /\ proc'["hub"].pc = "migrate"
      BY <1>b, <2>1 DEF Process
  <2>3. QED
      BY <2>1, <2>2 DEF MigrateInv, Up
<1>5. CASE HubRuns
  <2>1. /\ UNCHANGED <<data, unmigrated, overlapped, conf>> /\ opened' = conf.path
        /\ proc' = [proc EXCEPT !["hub"].pc = "up"] /\ proc["hub"].pc = "load"
      BY <1>5 DEF HubRuns, fileVars
  <2>2. /\ \A q \in Programs : proc'[q].pc = "repath" => proc[q].pc = "repath"
        /\ proc'["hub"].pc = "up"
      BY <1>b, <2>1 DEF Process
  <2>3. ~overlapped /\ ~unmigrated => conf.path = "new" /\ data = "new"
      BY <2>1 DEF MigrateInv
  <2>4. QED
      BY <2>1, <2>2, <2>3 DEF MigrateInv
<1>6. CASE Tick \/ UNCHANGED vars
  <2>1. UNCHANGED <<data, opened, unmigrated, overlapped, conf, proc>>
      BY <1>6 DEF Tick, vars, fileVars, hubVars, historyVars
  <2>2. Up' = Up
      BY <2>1 DEF Up
  <2>3. QED
      BY <2>1, <2>2, MigrateAlone
<1>7. ASSUME NEW b \in Browsers, Login(b) \/ Logout(b) \/ Auth(b) PROVE MigrateInv'
  <2>1. /\ UNCHANGED <<data, opened, unmigrated, conf, proc>>
        /\ overlapped' = overlapped \/ overlapped' = (overlapped \/ Writing # {})
      BY <1>7 DEF Login, Logout, Auth, RequestRest, StoreRest
  <2>2. Up' = Up
      BY <2>1 DEF Up
  <2>3. overlapped => overlapped'
      BY <2>1, Zenon
  <2>4. QED
      BY <2>1, <2>2, <2>3, MigrateAlone
<1>8. ASSUME NEW b \in Browsers,
             ReplaceRouter(b) \/ ReplaceChannels(b) \/ PersistLoads(b) \/ PersistSaves(b)
      PROVE  MigrateInv'
  <2>1. UNCHANGED <<data, opened, unmigrated, overlapped, proc>>
      BY <1>8 DEF ReplaceRouter, ReplaceChannels, PersistLoads, PersistSaves, HandlerRest,
                  RequestRest
  <2>2. Up' = Up
      BY <2>1 DEF Up
  <2>3. ~overlapped' => conf'.path = conf.path
    <3>1. CASE PersistSaves(b)
        BY <2>1, <3>1, PersistSavesFile
    <3>2. CASE ~PersistSaves(b)
        BY <1>8, <3>2 DEF ReplaceRouter, ReplaceChannels, PersistLoads
    <3>3. QED
        BY <3>1, <3>2
  <2>4. QED
      BY <2>1, <2>2, <2>3, MigrateAlone
<1>9. CASE CommandStarts \/ CommandLoads \/ CommandSaves
  <2>1. /\ UNCHANGED <<data, opened, unmigrated>>
        /\ overlapped' = overlapped \/ overlapped' = (overlapped \/ Writing # {})
      BY <1>9 DEF CommandStarts, CommandLoads, CommandSaves, CommandRest, hubVars
  <2>2. overlapped => overlapped'
      BY <2>1, Zenon
  <2>3. \/ proc' = [proc EXCEPT !["cmd"].pc = "migrate"]
        \/ proc' = [proc EXCEPT !["cmd"] = [pc |-> "loaded", copy |-> conf]]
        \/ proc' = [proc EXCEPT !["cmd"] = At("off")]
      BY <1>9 DEF CommandStarts, CommandLoads, CommandSaves
  <2>4. /\ \A q \in Programs : proc'[q].pc = "repath" => proc[q].pc = "repath"
        /\ proc'["hub"] = proc["hub"]
      BY <1>b, <2>3 DEF Process, At
  <2>5. ~overlapped' => conf'.path = conf.path
    <3>1. CASE CommandSaves
        BY <2>2, <3>1, CommandSavesFile
    <3>2. CASE ~CommandSaves
        BY <1>9, <3>2 DEF CommandStarts, CommandLoads
    <3>3. QED
        BY <3>1, <3>2
  <2>6. QED
      BY <2>1, <2>2, <2>4, <2>5, MigrateAlone DEF Up
<1>10. CASE EditsLimit
  <2>1. /\ UNCHANGED <<data, opened, unmigrated, proc>>
        /\ overlapped' = (overlapped \/ Writing # {})
      BY <1>10 DEF EditsLimit, CommandRest, hubVars
  <2>2. conf'.path = conf.path
      BY <1>10, <1>b DEF EditsLimit, Confs
  <2>3. overlapped => overlapped'
      BY <2>1, Zenon
  <2>4. Up' = Up
      BY <2>1 DEF Up
  <2>5. QED
      BY <2>1, <2>2, <2>3, <2>4, MigrateAlone
<1>11. QED
    BY <1>1, <1>f, <1>2, <1>3, <1>4, <1>5, <1>6, <1>7, <1>8, <1>9, <1>10 DEF Next, Programs

-----------------------------------------------------------------------------
(* The theorems.                                                           *)

\* The inductive invariant.
ConsoleInv ==
    ShapeInv /\ SessionInv /\ CopyInv /\ WantedInv /\ AgreeInv /\ MigrateInv

\* The invariant holds of the files a hub is first started with.
LEMMA ConsoleInit == Init => ConsoleInv
<1> SUFFICES ASSUME Init PROVE ConsoleInv
    OBVIOUS
<1>1. conf \in Confs /\ (conf.web <=> conf.password # NoPassword) /\ conf.limit = 0
    BY DEF Init
<1>2. /\ conf.channels \in Tables /\ conf.password \in Passwords \cup {NoPassword}
      /\ conf.web \in BOOLEAN /\ conf.path \in {"old", "new"}
    BY <1>1 DEF Confs
<1>3. \A p \in Programs : proc[p] = [pc |-> "off", copy |-> NoCopy]
    BY DEF Init, At, Programs
<1>4. \A b \in Browsers : browser[b] = [cookie |-> NoSession, pc |-> "idle", table |-> BadTable,
                                        copy |-> NoCopy]
    BY DEF Init
<1>5. FileInv
  <2>1. conf \in Startable /\ wanted \in Wanted
      BY <1>1, <1>2 DEF Init, Startable, Wanted
  <2>2. QED
      BY <1>2, <2>1 DEF Init, FileInv, Tasks
<1>6. ProcInv
  <2>1. proc \in [Programs -> Process]
      BY <1>3 DEF Init, Process, Programs, At
  <2>2. QED
      BY <1>3, <2>1 DEF ProcInv, Programs
<1>7. RequestInv
  <2>1. browser \in [Browsers -> Request]
      BY <1>4 DEF Init, Request
  <2>2. QED
      BY <1>4, <2>1 DEF RequestInv
<1>8. SessionInv
  <2>1. Live = {} /\ left \in [Live -> 0..TTL]
      BY EmptyStore DEF Init, Live
  <2>2. idle \in [Sessions -> 0..TTL] /\ used = {} /\ sweepDue = FALSE
      BY ConsoleAssumption DEF Init
  <2>3. sweepDue \in BOOLEAN
      BY <2>2, Zenon
  <2>4. \A b \in Browsers : browser[b].cookie = NoSession
      BY <1>4
  <2>5. QED
      BY <2>1, <2>2, <2>3, <2>4 DEF SessionInv
<1>9. CopyInv
  <2>1. Handling = {} /\ Busy = {}
      BY <1>3, <1>4 DEF Handling, Busy
  <2>2. QED
      BY <1>4, <2>1 DEF CopyInv
<1>10. WantedInv
    BY <1>1 DEF Init, WantedInv
<1>11. ~Up /\ proc["hub"].pc = "off"
    BY <1>3 DEF Up, Programs
<1>12. AgreeInv
    BY <1>11 DEF AgreeInv
<1>13. MigrateInv
    BY <1>3, <1>11 DEF MigrateInv, Init
<1>14. QED
    BY <1>5, <1>6, <1>7, <1>8, <1>9, <1>10, <1>12, <1>13 DEF ConsoleInv, ShapeInv

\* The console's invariant holds in every behaviour.
LEMMA ConsoleInductive == Spec => []ConsoleInv
<1>1. ConsoleInv /\ [Next]_vars => ConsoleInv'
    BY ShapeStep, SessionStep, CopyStep, WantedStep, AgreeStep, MigrateStep DEF ConsoleInv
<1>2. QED
    BY <1>1, ConsoleInit, PTL DEF Spec

\* Types, for any run of the hub, the commands and the browsers.
THEOREM ConsoleTypeCorrect == Spec => []TypeOK
<1>1. ConsoleInv => TypeOK
  <2> SUFFICES ASSUME ConsoleInv PROVE TypeOK
      OBVIOUS
  <2>1. FileInv /\ ProcInv /\ RequestInv /\ SessionInv
      BY DEF ConsoleInv, ShapeInv
  <2>2. Startable \subseteq Confs
      BY DEF Startable
  <2>3. conf \in [channels : Tables \cup {BadTable}, password : Passwords \cup {NoPassword},
                  web : BOOLEAN, limit : -1..1, path : {"old", "new"}]
      BY <2>1 DEF FileInv, Startable, Confs
  <2>4. \A p \in {"hub", "cmd"} :
          /\ proc[p].pc \in {"off", "migrate", "repath", "load", "loaded", "up"}
          /\ proc[p].copy \in Confs \cup {NoCopy}
      BY <2>1, <2>2 DEF ProcInv, Process, Programs
  <2>5. \A b \in Browsers :
          /\ browser[b].pc \in {"idle", "handle", "applied", "persist", "loaded"}
          /\ browser[b].table \in Tables \cup {BadTable}
          /\ browser[b].copy \in Confs \cup {NoCopy}
      BY <2>1, <2>2 DEF RequestInv, Request
  <2>6. \A s \in Live : left[s] \in 0..TTL
      BY <2>1 DEF SessionInv
  <2>7. QED
      BY <2>1, <2>3, <2>4, <2>5, <2>6 DEF TypeOK, FileInv, SessionInv
<1>2. QED
    BY <1>1, ConsoleInductive, PTL

\* However the writers of modern-eq-chat.conf interleave, fail and die, the file
\* passes Verify: every copy somebody may write back passes it.
THEOREM FileAlwaysStarts == Spec => []DiskStarts
<1>1. ConsoleInv => DiskStarts
    BY StartableFields DEF ConsoleInv, ShapeInv, FileInv, DiskStarts
<1>2. QED
    BY <1>1, ConsoleInductive, PTL

\* Writers that do not overlap lose none of each other's settings, and what a
\* browser applied is the same in the router, in the hub and in the file.
THEOREM SettingsAreKept == Spec => []EditsKept
<1>1. ConsoleInv => EditsKept
  <2> SUFFICES ASSUME ConsoleInv, ~overlapped PROVE EditsKept
      BY DEF EditsKept
  <2>1. RequestInv /\ WantedInv /\ AgreeInv
      BY DEF ConsoleInv, ShapeInv
  <2>2. Handling = {} => \A b \in Browsers : browser[b].pc = "idle"
      BY <2>1, IdleOrHandling
  <2>3. QED
      BY <2>1, <2>2 DEF EditsKept, WantedInv, AgreeInv
<1>2. QED
    BY <1>1, ConsoleInductive, PTL

\* A hub that is up opened the roster by the name it is on disk under, wherever
\* earlier starts died in the migration.
THEOREM RosterIsFound == Spec => []DataFound
<1>1. ConsoleInv => DataFound
    BY DEF ConsoleInv, MigrateInv, DataFound
<1>2. QED
    BY <1>1, ConsoleInductive, PTL

\* requireAuth lets a request by only for a session in the store that was used
\* less than sessionTTL ago.
THEOREM StaleSessionsAreRefused == Spec => SessionsExpire
<1> DEFINE Fresh == \A b \in Browsers :
                      browser[b].pc = "idle" /\ browser'[b].pc = "handle" =>
                          browser[b].cookie \in Live /\ idle[browser[b].cookie] < TTL
<1>1. ConsoleInv /\ [Next]_vars => [Fresh]_vars
  <2> SUFFICES ASSUME ConsoleInv, [Next]_vars PROVE [Fresh]_vars
      OBVIOUS
  <2> SUFFICES ASSUME NEW b \in Browsers, browser[b].pc = "idle", browser'[b].pc = "handle"
               PROVE  browser[b].cookie \in Live /\ idle[browser[b].cookie] < TTL
      OBVIOUS
  <2>b. browser \in [Browsers -> Request] /\ SessionInv /\ TTL \in Nat
      BY ConsoleAssumption DEF ConsoleInv, ShapeInv, RequestInv
  <2>1. browser' # browser
      OBVIOUS
  <2>2. ASSUME NEW c \in Browsers, Login(c) \/ Logout(c) PROVE FALSE
    <3>1. \E s \in Sessions \cup {NoSession} : browser' = [browser EXCEPT ![c].cookie = s]
        BY <2>2 DEF Login, Logout
    <3>2. QED
        BY <2>b, <3>1 DEF Request
  <2>3. ASSUME NEW c \in Browsers,
               ReplaceRouter(c) \/ ReplaceChannels(c) \/ PersistLoads(c) \/ PersistSaves(c)
        PROVE  FALSE
    <3>1. \/ browser' = [browser EXCEPT ![c] = Done(browser[c])]
          \/ browser' = [browser EXCEPT ![c].pc = "applied"]
          \/ browser' = [browser EXCEPT ![c].pc = "persist"]
          \/ browser' = [browser EXCEPT ![c].pc = "loaded", ![c].copy = conf]
        BY <2>3 DEF ReplaceRouter, ReplaceChannels, PersistLoads, PersistSaves
    <3>2. Done(browser[c]).pc = "idle"
        BY <2>b, DoneRequest
    <3>3. QED
        BY <2>b, <3>1, <3>2 DEF Request
  <2>4. ASSUME NEW p \in Programs, Dies(p) PROVE FALSE
    <3>1. browser' = [c \in Browsers |-> Done(browser[c])]
        BY <2>1, <2>4 DEF Dies
    <3>2. QED
        BY <2>b, <3>1, DoneRequest
  <2>5. ASSUME NEW c \in Browsers, Auth(c)
        PROVE  browser[b].cookie \in Live /\ idle[browser[b].cookie] < TTL
    <3>1. /\ browser[c].cookie \in Live /\ left' = Get(browser[c].cookie)
          /\ browser[c].cookie \in DOMAIN left'
          /\ \E t \in Tables \cup {BadTable} :
                browser' = [browser EXCEPT ![c].pc = "handle", ![c].table = t]
        BY <2>1, <2>5 DEF Auth
    <3>2. b = c
        BY <2>b, <3>1 DEF Request
    <3>3. left[browser[c].cookie] # 0
        BY <3>1 DEF Get, Without
    <3>4. QED
        BY <2>b, <3>1, <3>2, <3>3 DEF SessionInv
  <2>6. CASE \/ HubStarts \/ HubRuns \/ Tick \/ CommandStarts \/ CommandLoads \/ CommandSaves
             \/ EditsLimit \/ UNCHANGED vars
        \/ \E p \in Programs : MigrateRenames(p) \/ MigrateFails(p) \/ MigrateSaves(p)
      BY <2>1, <2>6 DEF HubStarts, HubRuns, Tick, CommandStarts, CommandLoads, CommandSaves,
                        EditsLimit, CommandRest, MigrateRenames, MigrateFails, MigrateSaves,
                        vars
  <2>7. QED
      BY <2>2, <2>3, <2>4, <2>5, <2>6 DEF Next, Programs
<1>2. QED
    BY <1>1, ConsoleInductive, PTL DEF Spec, SessionsExpire

=============================================================================
