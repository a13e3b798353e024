------------------------------- MODULE Roster -------------------------------
(***************************************************************************)
(* The roster of authorized agents (hub/roster.go): a file shared, without *)
(* a lock, by the running hub and by every invocation of the command line. *)
(* Within a process Roster.mu makes an operation atomic; between processes *)
(* only single file system calls are.  An operation is therefore the steps *)
(*                                                                         *)
(*   Begin    refreshLocked: stat, compare with loadedModTime              *)
(*   Load     loadLocked: read the file                                    *)
(*   Apply    the check and the change in memory                           *)
(*   Commit   saveLocked: rename the temporary file over the roster        *)
(*   Restat   saveLocked: stat again and record the modification time      *)
(*                                                                         *)
(* and between any two of them the other process may take steps of its own *)
(* or this one may crash.  NewRoster saves an empty roster where it finds  *)
(* none, in two steps too: Create and Created.                             *)
(***************************************************************************)
EXTENDS Naturals

CONSTANTS
    Procs,      \* processes that hold the roster
    Keys,       \* server keys
    Names,      \* display names
    None,       \* no entry
    FileThere,  \* whether the file exists before any process starts
    MayFail,    \* whether saving may fail (disk full, permissions)
    MaxOps      \* bound on the operations begun

ASSUME RosterAssumption ==
    FileThere \in BOOLEAN /\ MayFail \in BOOLEAN /\ MaxOps \in Nat

Entry == [token : Nat, name : Names, disabled : BOOLEAN, seen : BOOLEAN]
Map   == [Keys -> Entry \cup {None}]
Empty == [k \in Keys |-> None]

Kinds == {"add", "rotate", "remove", "disable", "enable", "rename", "seen", "read"}
Call  == [kind : Kinds, key : Keys, name : Names, token : Nat]

ASSUME NoneAssumption == None \notin Entry /\ None \notin Call /\ None \notin Map

VARIABLES
    file,       \* the roster on disk
    mtime,      \* its modification time; every rename is a tick of its own,
                \* and 0 says that there is no file
    entries,    \* per process, Roster.entries
    loaded,     \* per process, Roster.loadedModTime
    pc,         \* per process, the step its operation is at
    call,       \* per process, the operation
    undo,       \* per process, the entries before the change
    stat,       \* per process, the modification time loadLocked found
    ops,        \* operations begun
    truth,      \* history: what the operations that were saved amount to
    calm,       \* history: so far no two writing operations overlapped, no
                \* reload failed, and no failed save left its change in memory
    granted     \* history: servers that were added and not removed

procVars == <<entries, loaded, pc, call, undo, stat>>
rosterVars == <<file, mtime, entries, loaded, pc, call, undo, stat, ops, truth, calm, granted>>

\* A process is in the middle of an operation that may write.
Writing(p) ==
    \/ pc[p] \in {"create", "created"}
    \/ pc[p] \in {"load", "apply", "save", "restat"} /\ call[p].kind # "read"

\* The operation returns: its local variables are gone.
Return(p) ==
    /\ pc' = [pc EXCEPT ![p] = "idle"]
    /\ call' = [call EXCEPT ![p] = None]
    /\ undo' = [undo EXCEPT ![p] = None]

-----------------------------------------------------------------------------
(* What an operation needs and what it does to the entries.                *)
Possible(c, m) ==
    CASE c.kind = "add"  -> m[c.key] = None
      [] c.kind = "read" -> FALSE
      [] OTHER           -> m[c.key] # None

Changed(c, e) ==
    CASE c.kind = "add"     -> [token |-> c.token, name |-> c.name,
                                disabled |-> FALSE, seen |-> FALSE]
      [] c.kind = "remove"  -> None
      [] c.kind = "rotate"  -> [e EXCEPT !.token = c.token]
      [] c.kind = "disable" -> [e EXCEPT !.disabled = TRUE]
      [] c.kind = "enable"  -> [e EXCEPT !.disabled = FALSE]
      [] c.kind = "rename"  -> [e EXCEPT !.name = c.name]
      [] c.kind = "seen"    -> [e EXCEPT !.seen = TRUE]
      [] OTHER              -> e

Effect(c, m) == [m EXCEPT ![c.key] = Changed(c, m[c.key])]

\* The operations that undo their change in memory when it cannot be saved.
RollsBack(c) == c.kind \in {"add", "rotate", "rename"}

-----------------------------------------------------------------------------
\* NewRoster, in a process that starts: the file is looked for.
Start(p) ==
    /\ pc[p] = "down"
    /\ pc' = [pc EXCEPT ![p] = IF mtime = 0 THEN "create" ELSE "start"]
    /\ stat' = [stat EXCEPT ![p] = mtime]
    /\ calm' = (calm /\ (mtime = 0 => \A q \in Procs : ~Writing(q)))
    /\ UNCHANGED <<file, mtime, entries, loaded, call, undo, ops, truth, granted>>

\* It was there, and is read.
Open(p) ==
    /\ pc[p] = "start"
    /\ pc' = [pc EXCEPT ![p] = "idle"]
    /\ entries' = [entries EXCEPT ![p] = file]
    /\ loaded' = [loaded EXCEPT ![p] = stat[p]]
    /\ UNCHANGED <<file, mtime, call, undo, stat, ops, truth, calm, granted>>

\* It was not, and an empty one is saved.
Create(p) ==
    /\ pc[p] = "create"
    /\ pc' = [pc EXCEPT ![p] = "created"]
    /\ file' = entries[p]
    /\ mtime' = mtime + 1
    /\ UNCHANGED <<entries, loaded, call, undo, stat, ops, truth, calm, granted>>

Created(p) ==
    /\ pc[p] = "created"
    /\ pc' = [pc EXCEPT ![p] = "idle"]
    /\ loaded' = [loaded EXCEPT ![p] = mtime]
    /\ UNCHANGED <<file, mtime, entries, call, undo, stat, ops, truth, calm, granted>>

\* Mutant: the file is not looked at before an operation.
BeginWithoutRefresh(p, c) ==
    /\ pc[p] = "idle" /\ ops < MaxOps
    /\ ops' = ops + 1
    /\ call' = [call EXCEPT ![p] = c]
    /\ pc' = [pc EXCEPT ![p] = "apply"]
    /\ calm' = (calm /\ (c.kind = "read" \/ \A q \in Procs : ~Writing(q)))
    /\ UNCHANGED <<file, mtime, entries, loaded, undo, stat, truth, granted>>

\* Every operation starts with refreshLocked.
Begin(p, c) ==
    /\ pc[p] = "idle" /\ ops < MaxOps
    /\ ops' = ops + 1
    /\ call' = [call EXCEPT ![p] = c]
    /\ IF mtime = loaded[p]
       THEN pc' = [pc EXCEPT ![p] = "apply"] /\ UNCHANGED stat
       ELSE pc' = [pc EXCEPT ![p] = "load"] /\ stat' = [stat EXCEPT ![p] = mtime]
    /\ calm' = (calm /\ (c.kind = "read" \/ \A q \in Procs : ~Writing(q)))
    /\ UNCHANGED <<file, mtime, entries, loaded, undo, truth, granted>>

\* Mutant: the modification time is noted, the file is not read.
LoadOnlyTime(p) ==
    /\ pc[p] = "load"
    /\ pc' = [pc EXCEPT ![p] = "apply"]
    /\ loaded' = [loaded EXCEPT ![p] = stat[p]]
    /\ UNCHANGED <<file, mtime, entries, call, undo, stat, ops, truth, calm, granted>>

Load(p) ==
    /\ pc[p] = "load"
    /\ pc' = [pc EXCEPT ![p] = "apply"]
    /\ entries' = [entries EXCEPT ![p] = file]
    /\ loaded' = [loaded EXCEPT ![p] = stat[p]]
    /\ UNCHANGED <<file, mtime, call, undo, stat, ops, truth, calm, granted>>

\* The read fails: the refresh warns, and goes on with what it has.
LoadFails(p) ==
    /\ MayFail
    /\ pc[p] = "load"
    /\ pc' = [pc EXCEPT ![p] = "apply"]
    /\ calm' = FALSE
    /\ UNCHANGED <<file, mtime, entries, loaded, call, undo, stat, ops, truth, granted>>

\* Mutant: what the change replaces is not kept.
ApplyForgetsUndo(p) ==
    /\ pc[p] = "apply"
    /\ IF Possible(call[p], entries[p])
       THEN /\ pc' = [pc EXCEPT ![p] = "save"]
            /\ entries' = [entries EXCEPT ![p] = Effect(call[p], entries[p])]
            /\ UNCHANGED <<call, undo>>
       ELSE Return(p) /\ UNCHANGED entries
    /\ UNCHANGED <<file, mtime, loaded, stat, ops, truth, calm, granted>>

Apply(p) ==
    /\ pc[p] = "apply"
    /\ IF Possible(call[p], entries[p])
       THEN /\ pc' = [pc EXCEPT ![p] = "save"]
            /\ undo' = [undo EXCEPT ![p] = entries[p]]
            /\ entries' = [entries EXCEPT ![p] = Effect(call[p], entries[p])]
            /\ UNCHANGED call
       ELSE Return(p) /\ UNCHANGED entries
    /\ UNCHANGED <<file, mtime, loaded, stat, ops, truth, calm, granted>>

Commit(p) ==
    /\ pc[p] = "save"
    /\ pc' = [pc EXCEPT ![p] = "restat"]
    /\ file' = entries[p]
    /\ mtime' = mtime + 1
    /\ truth' = IF Possible(call[p], truth) THEN Effect(call[p], truth) ELSE truth
    /\ granted' = IF call[p].kind = "remove" THEN granted \ {call[p].key} ELSE granted
    /\ UNCHANGED <<entries, loaded, call, undo, stat, ops, calm>>

SaveFails(p) ==
    /\ MayFail
    /\ pc[p] = "save"
    /\ Return(p)
    /\ entries' = IF RollsBack(call[p]) THEN [entries EXCEPT ![p] = undo[p]] ELSE entries
    /\ calm' = (calm /\ RollsBack(call[p]))
    /\ UNCHANGED <<file, mtime, loaded, stat, ops, truth, granted>>

\* The operation returns; Add hands out its token.
Restat(p) ==
    /\ pc[p] = "restat"
    /\ Return(p)
    /\ loaded' = [loaded EXCEPT ![p] = mtime]
    /\ granted' = IF call[p].kind = "add" THEN granted \cup {call[p].key} ELSE granted
    /\ UNCHANGED <<file, mtime, entries, stat, ops, truth, calm>>

\* The process crashes, a command is done, or NewRoster failed.
Stop(p) ==
    /\ pc[p] # "down"
    /\ pc' = [pc EXCEPT ![p] = "down"]
    /\ entries' = [entries EXCEPT ![p] = Empty]
    /\ loaded' = [loaded EXCEPT ![p] = 0]
    /\ call' = [call EXCEPT ![p] = None]
    /\ undo' = [undo EXCEPT ![p] = None]
    /\ UNCHANGED <<file, mtime, stat, ops, truth, calm, granted>>

-----------------------------------------------------------------------------
Calls == [kind : Kinds, key : Keys, name : Names, token : {ops + 1}]

RosterInit ==
    /\ file = Empty /\ mtime = IF FileThere THEN 1 ELSE 0
    /\ entries = [p \in Procs |-> Empty]
    /\ loaded = [p \in Procs |-> 0]
    /\ pc = [p \in Procs |-> "down"]
    /\ call = [p \in Procs |-> None]
    /\ undo = [p \in Procs |-> None]
    /\ stat = [p \in Procs |-> 0]
    /\ ops = 0
    /\ truth = Empty /\ calm = TRUE /\ granted = {}

RosterNext ==
    \/ \E p \in Procs : Start(p)
    \/ \E p \in Procs : Open(p)
    \/ \E p \in Procs : Create(p)
    \/ \E p \in Procs : Created(p)
    \/ \E p \in Procs, c \in Calls : Begin(p, c)
    \/ \E p \in Procs : Load(p)
    \/ \E p \in Procs : LoadFails(p)
    \/ \E p \in Procs : Apply(p)
    \/ \E p \in Procs : Commit(p)
    \/ \E p \in Procs : SaveFails(p)
    \/ \E p \in Procs : Restat(p)
    \/ \E p \in Procs : Stop(p)

RosterSpec == RosterInit /\ [][RosterNext]_rosterVars

-----------------------------------------------------------------------------
\* File and memories are rosters, and an operation that is about to save has the
\* entries to go back to.
RosterTypeOK ==
    /\ file \in Map /\ mtime \in Nat
    /\ entries \in [Procs -> Map] /\ loaded \in [Procs -> Nat]
    /\ pc \in [Procs -> {"down", "start", "create", "created", "idle", "load",
                      "apply", "save", "restat"}]
    /\ call \in [Procs -> Call \cup {None}]
    /\ undo \in [Procs -> Map \cup {None}]
    /\ stat \in [Procs -> Nat] /\ ops \in Nat
    /\ truth \in Map /\ calm \in BOOLEAN /\ granted \in SUBSET Keys
    /\ \A p \in Procs : pc[p] \in {"load", "apply", "save", "restat"} => call[p] \in Call
    /\ \A p \in Procs : pc[p] = "save" => undo[p] \in Map

\* No update is lost: as long as no two writing operations overlap, the file
\* holds exactly what all operations that were saved amount to, whichever of
\* the processes made them, crashed in the middle of one, failed to save one
\* or read the roster meanwhile (refreshLocked, saveLocked).
NoLostUpdate == calm => file = truth

\* refreshLocked: a process that finds the modification time unchanged holds
\* the file's contents in memory, so that skipping the reload is right.
CacheCoherent ==
    calm => \A p \in Procs : pc[p] \in {"idle", "load", "apply"} /\ loaded[p] = mtime
                               => entries[p] = file

\* Roster.Add, Rotate, ...: "already exists" and "not found" are decided on the
\* roster as it is, not as this process last saw it.
ChecksAreCurrent ==
    calm => \A p \in Procs : pc[p] = "apply" /\ call[p].kind # "read" => entries[p] = truth

\* What the two rest on.  Modification times never come from the future; as
\* long as all is calm one process at most is writing, and where it stands
\* says how its entries relate to the file.
TimesArePast == \A p \in Procs : loaded[p] <= mtime /\ stat[p] <= mtime

WriterInv ==
    /\ \A p \in Procs : pc[p] \in {"save", "restat"} => call[p].kind # "read"
    /\ \A p \in Procs : pc[p] \in {"down", "create"} => entries[p] = Empty
    /\ mtime = 0 => file = Empty
    /\ calm => \A p \in Procs : Writing(p) =>
          /\ \A q \in Procs : Writing(q) => q = p
          /\ pc[p] = "apply" => entries[p] = file
          /\ pc[p] = "save" => /\ undo[p] = file
                               /\ Possible(call[p], file)
                               /\ entries[p] = Effect(call[p], file)
          /\ pc[p] = "create" => file = Empty
          /\ pc[p] \in {"created", "restat"} => entries[p] = file

\* roster.go: comparing modification times "stops its next save from
\* clobbering that addition": an agent whose Add has returned stays on the
\* roster until it is removed.
AdditionsSurvive == \A k \in granted : file[k] # None
=============================================================================
