------------------------------ MODULE Console ------------------------------
(***************************************************************************)
(* The management interface (webui/), and modern-eq-chat.conf with all who *)
(* write it: the interface, the "web" commands (cmd_web.go), the setup     *)
(* wizard (setup/hub.go) and the migration of old file names that every    *)
(* program start begins with (config/migrate.go).  Each of them reads the  *)
(* whole file, changes its part and replaces the whole file; none locks    *)
(* it.  A setup run or a password command may sit at a prompt in between.  *)
(*                                                                         *)
(* A limit is -1 for off, 0 for unset and 1 for any number; Verify turns   *)
(* what the file says into what the hub uses, 0 for off.                   *)
(***************************************************************************)
EXTENDS Integers, FiniteSets

CONSTANTS
    Browsers,       \* browsers, each with a cookie and a request at a time
    Sessions,       \* session IDs; each is drawn once
    NoSession,      \* no cookie
    Tables,         \* channel tables that pass Verify
    BadTable,       \* one that does not
    Passwords,      \* admin passwords
    NoPassword,     \* none is set
    TTL,            \* sessionTTL, in ticks
    MaxOps,         \* bound on requests and commands
    MaxFaults       \* bound on failed saves, crashes and hand edits

ASSUME ConsoleAssumption ==
    /\ TTL \in Nat \ {0} /\ MaxOps \in Nat /\ MaxFaults \in Nat
    /\ NoSession \notin Sessions /\ BadTable \notin Tables /\ NoPassword \notin Passwords

Confs == [channels : Tables, password : Passwords \cup {NoPassword}, web : BOOLEAN,
          limit : -1..1, path : {"old", "new"}]
NoCopy == [channels |-> BadTable, password |-> NoPassword, web |-> FALSE, limit |-> 0,
           path |-> "new"]

VARIABLES
    conf,           \* modern-eq-chat.conf
    data,           \* the name the roster is on disk under
    proc,           \* the hub and the command: place, and the copy it read
    task,           \* what the command is to do, and the operator's answer
    router,         \* the hub's routing table
    channels,       \* Hub.cfg.Channels
    passwordHash,   \* Server.passwordHash
    opened,         \* the roster file the hub opened
    limit,          \* the limit the hub applies, and the one asked for then
    left,           \* per session in the store, ticks until it expires
    used,           \* session IDs that were drawn
    sweepDue,       \* sessionSweepEvery has passed since lastSweep
    browser,        \* per browser: cookie, place, table and copy of the file
    idle,           \* history: per session, ticks since it last was used
    wanted,         \* history: what the operator last asked for
    overlapped,     \* history: two writers of the file were at it at once
    apart,          \* history: the hub and the file may differ in channels
    setUp,          \* history: setup has saved the file
    unmigrated,     \* history: a migration failed since the hub's start began
    ops, faults

fileVars == <<conf, data>>
hubVars == <<router, channels, passwordHash, opened, limit>>
storeVars == <<left, used, sweepDue, idle>>
historyVars == <<wanted, overlapped, apart, setUp, unmigrated>>
vars == <<conf, data, proc, task, router, channels, passwordHash, opened, limit, left, used,
          sweepDue, browser, idle, wanted, overlapped, apart, setUp, unmigrated, ops, faults>>

Fault == faults < MaxFaults /\ faults' = faults + 1
Op == ops < MaxOps /\ ops' = ops + 1

Up == proc["hub"].pc = "up"
Live == DOMAIN left
At(pc) == [pc |-> pc, copy |-> NoCopy]
Done(request) == [request EXCEPT !.pc = "idle", !.table = BadTable, !.copy = NoCopy]
Without(f, S) == [x \in DOMAIN f \ S |-> f[x]]

\* Whoever has begun to change the settings and has not finished.
Handling == {b \in Browsers : browser[b].pc \in {"handle", "applied", "persist", "loaded"}}
Writing == Handling \cup {p \in {"hub", "cmd"} : proc[p].pc \in {"repath", "loaded"}}

-----------------------------------------------------------------------------
(* config: Verify, Save and Migrate.                                       *)

\* Mutant: a table is taken as it is.
VerifiesAny(t) == TRUE

\* HubConfig.verify refuses names that are empty or double and patterns that
\* do not parse.
Verifies(t) == t # BadTable

\* Mutant: a negative number is kept.
ApplyDefaultsKeeps(n) == IF n = 0 THEN 1 ELSE n

\* HubLimits.applyDefaults.
ApplyDefaults(n) == IF n = 0 THEN 1 ELSE IF n < 0 THEN 0 ELSE n

\* Save replaces the file by renaming a temporary one, or fails and leaves it.
Save(c) ==
    \/ conf' = c /\ UNCHANGED faults
    \/ Fault /\ UNCHANGED conf

\* Migrate reads the file, then renames the data file if it has the old name.
MigrateRenames(p) ==
    /\ proc[p].pc = "migrate"
    /\ IF conf.path = "new"
       THEN proc' = [proc EXCEPT ![p].pc = "load"] /\ UNCHANGED <<data, overlapped>>
       ELSE /\ data' = "new"
            /\ proc' = [proc EXCEPT ![p] = [pc |-> "repath", copy |-> conf]]
            /\ overlapped' = (overlapped \/ Writing # {})
    /\ UNCHANGED <<conf, task, hubVars, storeVars, browser, wanted, apart, setUp, unmigrated,
                   ops, faults>>

\* A rename fails, of this file or, after it, of another that the configuration
\* names: the new names are not saved.  It is a warning, and the start goes on.
MigrateFails(p) ==
    /\ proc[p].pc = "migrate" /\ conf.path = "old" /\ Fault
    /\ data' \in {data, "new"} /\ unmigrated' = TRUE
    /\ proc' = [proc EXCEPT ![p].pc = "load"]
    /\ UNCHANGED <<conf, task, hubVars, storeVars, browser, wanted, overlapped, apart, setUp, ops>>

\* Mutant: nothing to save for a file that has moved before.
MigrateForgets(p) ==
    /\ proc[p].pc = "repath"
    /\ proc' = [proc EXCEPT ![p] = At("load")]
    /\ UNCHANGED <<conf, faults, unmigrated, data, task, hubVars, storeVars, browser, wanted,
                   overlapped, apart, setUp, ops>>

\* Then it saves the new path.  A failure is a warning, and the start goes on.
MigrateSaves(p) ==
    /\ proc[p].pc = "repath"
    /\ proc' = [proc EXCEPT ![p] = At("load")]
    /\ \/ conf' = [proc[p].copy EXCEPT !.path = "new"] /\ UNCHANGED <<faults, unmigrated>>
       \/ Fault /\ unmigrated' = TRUE /\ UNCHANGED conf
    /\ UNCHANGED <<data, task, hubVars, storeVars, browser, wanted, overlapped, apart, setUp,
                   ops>>

-----------------------------------------------------------------------------
(* The hub starts and stops.                                               *)
HubStarts ==
    /\ proc["hub"].pc = "off"
    /\ proc' = [proc EXCEPT !["hub"].pc = "migrate"] /\ unmigrated' = FALSE
    /\ UNCHANGED <<fileVars, task, hubVars, storeVars, browser, wanted, overlapped, apart,
                   setUp, ops, faults>>

\* NewConfig and Verify, hub.New, webui.New.
HubRuns ==
    /\ proc["hub"].pc = "load" /\ conf.channels \in Tables
    /\ conf.web => conf.password # NoPassword
    /\ proc' = [proc EXCEPT !["hub"].pc = "up"]
    /\ router' = conf.channels /\ channels' = conf.channels
    /\ passwordHash' = IF conf.web THEN conf.password ELSE NoPassword
    /\ opened' = conf.path
    /\ limit' = [applied |-> ApplyDefaults(conf.limit), asked |-> wanted.limit]
    /\ apart' = FALSE
    /\ UNCHANGED <<fileVars, task, storeVars, browser, wanted, overlapped, setUp, unmigrated,
                   ops, faults>>

\* A stop or a crash, of the hub or of a command, at any point.  The session
\* store is in memory; browsers keep their cookies.
Dies(p) ==
    /\ proc[p].pc # "off" /\ Fault
    /\ proc' = [proc EXCEPT ![p] = At("off")]
    /\ IF p = "hub"
       THEN /\ left' = <<>> /\ sweepDue' = FALSE
            /\ browser' = [b \in Browsers |-> Done(browser[b])]
       ELSE UNCHANGED <<left, sweepDue, browser>>
    /\ UNCHANGED <<fileVars, task, hubVars, used, idle, historyVars, ops>>

-----------------------------------------------------------------------------
(* The session store.                                                      *)
Expired == {s \in Live : left[s] = 0}

\* create sweeps first, if it is time.
Create(s) ==
    /\ s \notin used /\ used' = used \cup {s}
    /\ left' = [x \in (IF sweepDue THEN Live \ Expired ELSE Live) \cup {s} |->
                   IF x = s THEN TTL ELSE left[x]]
    /\ sweepDue' = FALSE
    /\ idle' = [idle EXCEPT ![s] = 0]

\* Mutant: using a session extends it, however late.
GetExtends(s) == [left EXCEPT ![s] = TTL]

\* get drops a session that has expired and extends any other.
Get(s) == IF left[s] = 0 THEN Without(left, {s}) ELSE [left EXCEPT ![s] = TTL]

Tick ==
    /\ \E s \in Live : left[s] > 0
    /\ left' = [s \in Live |-> IF left[s] = 0 THEN 0 ELSE left[s] - 1]
    /\ idle' = [s \in Sessions |-> IF s \in Live /\ idle[s] < TTL THEN idle[s] + 1 ELSE idle[s]]
    /\ sweepDue' = TRUE
    /\ UNCHANGED <<fileVars, proc, task, hubVars, used, browser, historyVars, ops, faults>>

-----------------------------------------------------------------------------
(* Requests.                                                               *)
RequestRest == UNCHANGED <<data, proc, task, passwordHash, opened, limit, wanted, setUp,
                           unmigrated>>
StoreRest == UNCHANGED <<router, channels, conf, faults>>

\* handleLogin: the guard lets it by and the password is right.
Login(b) ==
    /\ Up /\ passwordHash # NoPassword /\ browser[b].pc = "idle" /\ Op
    /\ \E s \in Sessions : Create(s) /\ browser' = [browser EXCEPT ![b].cookie = s]
    /\ RequestRest /\ StoreRest /\ UNCHANGED <<overlapped, apart>>

Logout(b) ==
    /\ Up /\ browser[b].pc = "idle" /\ browser[b].cookie # NoSession
    /\ left' = Without(left, {browser[b].cookie})
    /\ browser' = [browser EXCEPT ![b].cookie = NoSession]
    /\ RequestRest /\ StoreRest /\ UNCHANGED <<used, sweepDue, idle, overlapped, apart, ops>>

\* requireAuth.  A request without the right CSRF token is refused, but it has
\* extended the session.
Auth(b) ==
    LET s == browser[b].cookie IN
    /\ Up /\ browser[b].pc = "idle" /\ Op
    /\ s \in Live
    /\ left' = Get(s)
    /\ idle' = IF idle[s] < TTL THEN [idle EXCEPT ![s] = 0] ELSE idle
    /\ \/ UNCHANGED <<browser, overlapped>>
       \/ /\ s \in DOMAIN left'
          /\ \E t \in Tables \cup {BadTable} :
                browser' = [browser EXCEPT ![b].pc = "handle", ![b].table = t]
          /\ overlapped' = (overlapped \/ Writing # {})
    /\ RequestRest /\ StoreRest /\ UNCHANGED <<used, sweepDue, apart>>

HandlerRest == RequestRest /\ UNCHANGED <<storeVars, overlapped, ops>>

\* handleChannels: ReplaceChannels verifies, swaps the router's table ...
ReplaceRouter(b) ==
    /\ browser[b].pc = "handle"
    /\ IF Verifies(browser[b].table)
       THEN /\ router' = browser[b].table
            /\ browser' = [browser EXCEPT ![b].pc = "applied"]
       ELSE browser' = [browser EXCEPT ![b] = Done(@)] /\ UNCHANGED router
    /\ HandlerRest /\ UNCHANGED <<channels, conf, apart, faults>>

\* ... and then the hub's own copy.
ReplaceChannels(b) ==
    /\ browser[b].pc = "applied"
    /\ channels' = browser[b].table
    /\ browser' = [browser EXCEPT ![b].pc = "persist"]
    /\ HandlerRest /\ UNCHANGED <<router, conf, apart, faults>>

\* persistChannels reads the file anew, or cannot ...
PersistLoads(b) ==
    /\ browser[b].pc = "persist"
    /\ \/ /\ browser' = [browser EXCEPT ![b].pc = "loaded", ![b].copy = conf]
          /\ UNCHANGED <<apart, faults>>
       \/ Fault /\ browser' = [browser EXCEPT ![b] = Done(@)] /\ apart' = TRUE
    /\ HandlerRest /\ UNCHANGED <<router, channels, conf>>

\* Mutant: the settings the hub started with are written back.
PersistFromMemory(b) ==
    /\ browser[b].pc = "loaded"
    /\ Save([browser[b].copy EXCEPT !.channels = browser[b].table, !.password = passwordHash])
    /\ apart' = (conf'.channels # browser[b].table)
    /\ browser' = [browser EXCEPT ![b] = Done(@)]
    /\ HandlerRest /\ UNCHANGED <<router, channels>>

\* ... and replaces it.
PersistSaves(b) ==
    /\ browser[b].pc = "loaded"
    /\ Save([browser[b].copy EXCEPT !.channels = browser[b].table])
    /\ apart' = (conf'.channels # browser[b].table)
    /\ browser' = [browser EXCEPT ![b] = Done(@)]
    /\ HandlerRest /\ UNCHANGED <<router, channels>>

-----------------------------------------------------------------------------
(* Commands and the operator's editor.                                     *)
CommandRest == UNCHANGED <<data, hubVars, storeVars, browser, unmigrated>>

CommandStarts ==
    /\ proc["cmd"].pc = "off" /\ Op
    /\ proc' = [proc EXCEPT !["cmd"].pc = "migrate"]
    /\ task' \in {"password", "enable", "disable", "setup"}
    /\ CommandRest /\ UNCHANGED <<conf, wanted, overlapped, apart, setUp, faults>>

CommandLoads ==
    /\ proc["cmd"].pc = "load"
    /\ proc' = [proc EXCEPT !["cmd"] = [pc |-> "loaded", copy |-> conf]]
    /\ overlapped' = (overlapped \/ Writing # {})
    /\ CommandRest /\ UNCHANGED <<conf, task, wanted, apart, setUp, ops, faults>>

\* What a command makes of its copy and of the operator's answers: the password,
\* and whether to enable the interface, unless it is enabled ...
WebSetPassword(c) ==
    UNION {{[c EXCEPT !.password = p, !.web = w] : p \in Passwords} :
               w \in IF c.web THEN {TRUE} ELSE BOOLEAN}

WebSetEnabled(c, on) ==
    IF on /\ c.password = NoPassword THEN {} ELSE {[c EXCEPT !.web = on]}

\* ... or channels, and setup saves what Verify has filled in.
RunHub(c) == {[c EXCEPT !.channels = t, !.limit = ApplyDefaults(c.limit)] : t \in Tables}

Commanded(c) ==
    CASE task = "password" -> WebSetPassword(c)
      [] task \in {"enable", "disable"} -> WebSetEnabled(c, task = "enable")
      [] task = "setup" -> RunHub(c)

\* The command saves, or ends with an error.
CommandSaves ==
    /\ proc["cmd"].pc = "loaded"
    /\ proc' = [proc EXCEPT !["cmd"] = At("off")]
    /\ IF Commanded(proc["cmd"].copy) = {}
       THEN UNCHANGED <<conf, wanted, apart, setUp, faults>>
       ELSE \E c \in Commanded(proc["cmd"].copy) :
               /\ Save(c)
               /\ IF faults' = faults
                  THEN /\ wanted' = [wanted EXCEPT !.password = c.password, !.web = c.web]
                       /\ apart' = (apart \/ task = "setup")
                       /\ setUp' = (setUp \/ task = "setup")
                  ELSE UNCHANGED <<wanted, apart, setUp>>
    /\ CommandRest /\ UNCHANGED <<task, overlapped, ops>>

\* The operator sets a limit by hand.
EditsLimit ==
    /\ Op
    /\ \E n \in {-1, 1} : /\ conf' = [conf EXCEPT !.limit = n]
                          /\ wanted' = [wanted EXCEPT !.limit = n]
    /\ overlapped' = (overlapped \/ Writing # {})
    /\ CommandRest /\ UNCHANGED <<proc, task, apart, setUp, faults>>

-----------------------------------------------------------------------------
\* An installation of the program's earlier name or a present one, before or
\* after the interface was set up.
Init ==
    /\ conf \in {c \in Confs : c.limit = 0 /\ (c.web <=> c.password # NoPassword)}
    /\ data = conf.path
    /\ proc = [p \in {"hub", "cmd"} |-> At("off")] /\ task = "setup"
    /\ router = conf.channels /\ channels = conf.channels /\ passwordHash = NoPassword
    /\ opened = conf.path /\ limit = [applied |-> 1, asked |-> 0]
    /\ left = <<>> /\ used = {} /\ sweepDue = FALSE
    /\ browser = [b \in Browsers |-> [cookie |-> NoSession, pc |-> "idle", table |-> BadTable,
                                      copy |-> NoCopy]]
    /\ idle = [s \in Sessions |-> 0]
    /\ wanted = [password |-> conf.password, web |-> conf.web, limit |-> 0]
    /\ overlapped = FALSE /\ apart = FALSE /\ setUp = FALSE /\ unmigrated = FALSE
    /\ ops = 0 /\ faults = 0

Next ==
    \/ \E p \in {"hub", "cmd"} : MigrateRenames(p) \/ MigrateFails(p) \/ MigrateSaves(p) \/ Dies(p)
    \/ HubStarts \/ HubRuns \/ Tick
    \/ \E b \in Browsers : \/ Login(b) \/ Logout(b) \/ Auth(b) \/ ReplaceRouter(b)
                           \/ ReplaceChannels(b) \/ PersistLoads(b) \/ PersistSaves(b)
    \/ CommandStarts \/ CommandLoads \/ CommandSaves \/ EditsLimit

Spec == Init /\ [][Next]_vars

-----------------------------------------------------------------------------
Tasks == {"password", "enable", "disable", "setup"}

\* Types of the variables; the sessions in the store were drawn once.
TypeOK ==
    /\ conf \in [channels : Tables \cup {BadTable}, password : Passwords \cup {NoPassword},
                 web : BOOLEAN, limit : -1..1, path : {"old", "new"}]
    /\ data \in {"old", "new"} /\ task \in Tasks
    /\ \A p \in {"hub", "cmd"} :
          /\ proc[p].pc \in {"off", "migrate", "repath", "load", "loaded", "up"}
          /\ proc[p].copy \in Confs \cup {NoCopy}
    /\ {router, channels} \subseteq Tables /\ passwordHash \in Passwords \cup {NoPassword}
    /\ opened \in {"old", "new"} /\ limit \in [applied : 0..1, asked : -1..1]
    /\ Live \subseteq used /\ used \subseteq Sessions /\ \A s \in Live : left[s] \in 0..TTL
    /\ sweepDue \in BOOLEAN /\ idle \in [Sessions -> 0..TTL]
    /\ \A b \in Browsers :
          /\ browser[b].cookie \in used \cup {NoSession}
          /\ browser[b].pc \in {"idle", "handle", "applied", "persist", "loaded"}
          /\ browser[b].table \in Tables \cup {BadTable}
          /\ browser[b].copy \in Confs \cup {NoCopy}

\* Whatever writers do to each other, the file on disk is one the hub starts
\* with: channels that pass Verify, and a password if the interface is on.
\* handleChannels applies a table to the running hub before it saves it.
DiskStarts ==
    /\ conf.channels \in Tables
    /\ conf.web => conf.password # NoPassword

\* Writers that do not overlap keep each other's settings, and a table set in
\* the browser is the same in the router, in the hub's copy and in the file:
\* persistChannels reads the file again before it replaces it.
EditsKept ==
    ~overlapped =>
        /\ conf.password = wanted.password /\ conf.web = wanted.web
        /\ setUp \/ conf.limit = wanted.limit
        /\ Up /\ ~apart /\ Handling = {} => router = conf.channels /\ channels = router

\* The hub runs on the roster the operator had, however often a start died in
\* the middle of the migration, unless this start could not rename the files or save
\* their names, or another writer had an older copy of the configuration.
DataFound == Up /\ ~unmigrated /\ ~overlapped => opened = data

\* A request is handled only for a session that was used within sessionTTL and
\* was neither logged out nor lost in a restart.
SessionsExpire ==
    [][\A b \in Browsers :
          browser[b].pc = "idle" /\ browser'[b].pc = "handle" =>
              browser[b].cookie \in Live /\ idle[browser[b].cookie] < TTL]_vars

\* applyDefaults: "an operator who deliberately disables a limit must not have
\* it silently switched back on."
OffStaysOff == Up /\ ~overlapped /\ limit.asked = -1 => limit.applied = 0
=============================================================================
