------------------------------- MODULE Enroll -------------------------------
(***************************************************************************)
(* Enrollment: an agent that has a short code and no token exchanges one   *)
(* for the other (agent/enroll.go, Hub.handleEnroll).  The codes are in a  *)
(* file that the hub shares, without a lock, with every invocation of the  *)
(* command line (hub/enroll.go).  EnrollStore.mu makes an operation atomic *)
(* within a process.  Between processes it is two steps: Begin is what     *)
(* comes before the hashing of codes (refreshLocked, pruneLocked), Finish  *)
(* what comes after it (the change in memory and saveLocked).  How stat,   *)
(* read and rename interleave within them is the subject of Roster, whose  *)
(* file is kept the same way; the roster itself is here a table of tokens, *)
(* each of its operations one step.                                        *)
(***************************************************************************)
EXTENDS Naturals, FiniteSets

CONSTANTS
    Hub,            \* the process of the running hub
    Commands,       \* processes of the command line
    Conns,          \* enrollment attempts of agents, a connection each
    Codes,          \* codes NewEnrollCode draws
    Keys,           \* server keys
    Wrong,          \* a well-formed code that was never issued
    None,           \* no entry, no operation, no code
    EnrollTTL,      \* DefaultEnrollTTL, in ticks
    MaxAttempts,    \* maxEnrollAttempts
    MaxNow,         \* bound on the clock
    MaxOps,         \* bound on the operations of the store
    MayFail         \* whether saving may fail

Procs == Commands \cup {Hub}

ASSUME EnrollAssumption ==
    /\ Hub \notin Commands
    /\ EnrollTTL \in Nat \ {0} /\ MaxAttempts \in Nat \ {0}
    /\ MaxNow \in Nat /\ MaxOps \in Nat /\ MayFail \in BOOLEAN

EnrollEntry == [key : Keys, expires : Nat, attempts : Nat]
Store == [Codes -> EnrollEntry \cup {None}]
Op == [kind : {"create"}, code : Codes, key : Keys]
        \cup [kind : {"redeem"}, code : Codes \cup {Wrong}, conn : Conns]
        \cup [kind : {"revoke"}, code : Codes]
        \cup [kind : {"pending"}]

ASSUME NoneAssumption ==
    /\ None \notin EnrollEntry /\ None \notin Op /\ None \notin Keys
    /\ None \notin Codes /\ Wrong \notin Codes /\ Wrong # None

Empty == [c \in Codes |-> None]

VARIABLES
    now,        \* the clock
    file,       \* the codes on disk
    mtime,      \* its modification time, a tick per rename; 0: no file
    entries,    \* per process, EnrollStore.entries
    loaded,     \* per process, EnrollStore.loadedModTime
    op,         \* per process, the operation that holds EnrollStore.mu
    up,         \* processes that run
    conn,       \* per attempt, where agent and handler are
    card,       \* per attempt, the code the operator typed
    grant,      \* per attempt, the key and token the hub added for it
    roster,     \* Roster.entries: the token of every server, 0 for none
    tokens,     \* tokens made so far
    ops,        \* operations begun
    issued,     \* history: codes handed to an operator
    crossed,    \* history: processes whose writing operation has overlapped with
                \* one of another process
    expires,    \* history: per code, the time it expires
    accepted,   \* history: per code, how often Redeem accepted it
    revoked,    \* history: codes whose Revoke returned no error
    spent,      \* history: codes accepted by an operation nobody crossed
    cancelled,  \* history: codes revoked by an operation nobody crossed
    charged,    \* history: per code, the wrong guesses that were saved by an
                \* operation nobody crossed
    touched,    \* history: keys whose roster entry an operator changed
    excused     \* history: tokens lost with a reply, a crash or a failed
                \* rollback

store == <<file, mtime, entries, loaded>>
hist == <<expires, accepted, revoked, spent, cancelled, charged>>
vars == <<now, file, mtime, entries, loaded, op, up, conn, card, grant, roster,
          tokens, ops, issued, crossed, expires, accepted, revoked, spent, cancelled,
          charged, touched, excused>>

-----------------------------------------------------------------------------
IsExpired(e) == now > e.expires \/ e.attempts >= MaxAttempts

Live(m) == {c \in Codes : m[c] # None}

Pruned(m) == [c \in Codes |-> IF m[c] # None /\ IsExpired(m[c]) THEN None ELSE m[c]]

\* Mutant: the file is not looked at.
RefreshedNot(p) == entries[p]

\* refreshLocked: a file with another modification time replaces the entries.
Refreshed(p) == IF mtime = 0 \/ mtime = loaded[p] THEN entries[p] ELSE file

Writes(o) == o # None /\ o.kind # "pending"

Writers == {p \in Procs : Writes(op[p])}

\* A wrong guess is charged to every code.
Charged(m) == [c \in Codes |-> IF m[c] = None THEN None
                               ELSE [m[c] EXCEPT !.attempts = @ + 1]]

\* The entries an operation means to save.
Result(o, m) ==
    CASE o.kind = "create" ->
            [m EXCEPT ![o.code] = [key |-> o.key, expires |-> now + EnrollTTL, attempts |-> 0]]
      [] o.kind = "redeem" /\ o.code \notin Live(m) -> Pruned(Charged(m))
      [] OTHER -> [m EXCEPT ![o.code] = None]

\* saveLocked: rename, then stat again.
Save(p, m) ==
    /\ file' = m
    /\ mtime' = mtime + 1
    /\ loaded' = [loaded EXCEPT ![p] = mtime + 1]
    /\ entries' = [entries EXCEPT ![p] = m]

\* It fails: what the operation did stays in memory, but for Create's entry.
SaveFails(p, o, m) ==
    /\ MayFail
    /\ entries' = [entries EXCEPT ![p] = IF o.kind = "create" THEN entries[p] ELSE m]
    /\ UNCHANGED <<file, mtime, loaded>>

NoGrant == [key |-> None, token |-> 0]

\* The attempts that end here without a token: their connections are closed.
Close(A) ==
    /\ conn' = [a \in Conns |-> IF a \in A THEN "refused" ELSE conn[a]]
    /\ card' = [a \in Conns |-> IF a \in A THEN None ELSE card[a]]
    /\ grant' = [a \in Conns |-> IF a \in A THEN NoGrant ELSE grant[a]]

-----------------------------------------------------------------------------
(* The store.                                                              *)

\* NewEnrollStore, in the hub and in every command (openHub).
Open(p) ==
    /\ p \notin up
    /\ up' = up \cup {p}
    /\ entries' = [entries EXCEPT ![p] = IF mtime = 0 THEN Empty ELSE file]
    /\ loaded' = [loaded EXCEPT ![p] = mtime]
    /\ UNCHANGED <<now, file, mtime, op, conn, card, grant, roster, tokens, ops,
                   issued, crossed, hist, touched, excused>>

\* An operation takes the lock, refreshes and (but for Revoke) prunes.
Begin(p, o) ==
    /\ p \in up /\ op[p] = None /\ ops < MaxOps
    /\ op' = [op EXCEPT ![p] = o]
    /\ ops' = ops + 1
    /\ entries' = [entries EXCEPT ![p] = IF o.kind = "revoke" THEN Refreshed(p)
                                         ELSE Pruned(Refreshed(p))]
    /\ loaded' = [loaded EXCEPT ![p] = mtime]
    /\ crossed' = IF Writes(o) /\ Writers # {} THEN Writers \cup {p} ELSE crossed
    /\ UNCHANGED <<now, file, mtime, up, card, grant, roster, tokens, hist, touched, excused>>

\* enroll <key>, or the web interface's Enroll and Rotate: a new code, for a
\* server that may be on the roster already.
BeginCreate(p, c, k) ==
    /\ c \notin issued
    /\ issued' = issued \cup {c}
    /\ Begin(p, [kind |-> "create", code |-> c, key |-> k])
    /\ UNCHANGED conn

\* enroll revoke, or the web interface's.
BeginRevoke(p, c) ==
    /\ c \in issued
    /\ Begin(p, [kind |-> "revoke", code |-> c])
    /\ UNCHANGED <<issued, conn>>

\* enroll list: nothing is saved, and the operation is over at once.
Pending(p) ==
    /\ p \in up /\ op[p] = None /\ ops < MaxOps
    /\ ops' = ops + 1
    /\ entries' = [entries EXCEPT ![p] = Pruned(Refreshed(p))]
    /\ loaded' = [loaded EXCEPT ![p] = mtime]
    /\ UNCHANGED <<now, file, mtime, op, up, conn, card, grant, roster, tokens,
                   issued, crossed, hist, touched, excused>>

\* handleEnroll asks for the code to be redeemed.
BeginRedeem(a) ==
    /\ conn[a] = "sent"
    /\ conn' = [conn EXCEPT ![a] = "redeeming"]
    /\ Begin(Hub, [kind |-> "redeem", code |-> card[a], conn |-> a])
    /\ UNCHANGED issued

\* Create and Revoke return; Revoke fails if there is no such code.
Finish(p) ==
    LET o == op[p] IN
    /\ o # None /\ o.kind \in {"create", "revoke"}
    /\ op' = [op EXCEPT ![p] = None]
    /\ crossed' = crossed \ {p}
    /\ IF o.kind = "revoke" /\ o.code \notin Live(entries[p])
       THEN UNCHANGED <<store, expires, revoked, cancelled>>
       ELSE \/ /\ Save(p, Result(o, entries[p]))
               /\ expires' = IF o.kind = "create"
                             THEN [expires EXCEPT ![o.code] = now + EnrollTTL] ELSE expires
               /\ revoked' = IF o.kind = "revoke" THEN revoked \cup {o.code} ELSE revoked
               /\ cancelled' = IF o.kind = "revoke" /\ p \notin crossed
                               THEN cancelled \cup {o.code} ELSE cancelled
            \/ /\ SaveFails(p, o, Result(o, entries[p]))
               /\ UNCHANGED <<expires, revoked, cancelled>>
    /\ UNCHANGED <<now, up, conn, card, grant, roster, tokens, ops, issued,
                   accepted, spent, charged, touched, excused>>

\* The histories when Redeem accepts a code and when it charges a wrong guess.
Accepts(c) ==
    /\ accepted' = [accepted EXCEPT ![c] = @ + 1]
    /\ spent' = IF Hub \in crossed THEN spent ELSE spent \cup {c}
    /\ crossed' = crossed \ {Hub}
    /\ UNCHANGED <<expires, revoked, cancelled, charged>>

Charges ==
    charged' = [c \in Codes |-> IF c \in issued /\ Hub \notin crossed
                                THEN charged[c] + 1 ELSE charged[c]]

\* Mutant: the code is accepted without being deleted from the file.
RedeemsKeeps(a) ==
    LET o == op[Hub]  m == entries[Hub] IN
    /\ o # None /\ o.kind = "redeem" /\ o.conn = a
    /\ o.code \in Live(m) /\ ~IsExpired(m[o.code])
    /\ op' = [op EXCEPT ![Hub] = None]
    /\ conn' = [conn EXCEPT ![a] = "adding"]
    /\ grant' = [grant EXCEPT ![a] = [key |-> m[o.code].key, token |-> 0]]
    /\ Accepts(o.code)
    /\ UNCHANGED <<now, store, up, card, roster, tokens, ops, issued, touched, excused>>

\* Mutant: the entry is not copied before it is deleted.
RedeemsForgets(a) ==
    LET o == op[Hub]  m == entries[Hub] IN
    /\ o # None /\ o.kind = "redeem" /\ o.conn = a
    /\ o.code \in Live(m) /\ ~IsExpired(m[o.code])
    /\ op' = [op EXCEPT ![Hub] = None]
    /\ Save(Hub, Result(o, m))
    /\ conn' = [conn EXCEPT ![a] = "adding"]
    /\ Accepts(o.code)
    /\ UNCHANGED <<now, up, card, grant, roster, tokens, ops, issued, touched, excused>>

\* Redeem finds the code alive, deletes and saves.
Redeems(a) ==
    LET o == op[Hub]  m == entries[Hub] IN
    /\ o # None /\ o.kind = "redeem" /\ o.conn = a
    /\ o.code \in Live(m) /\ ~IsExpired(m[o.code])
    /\ op' = [op EXCEPT ![Hub] = None]
    /\ Save(Hub, Result(o, m))
    /\ conn' = [conn EXCEPT ![a] = "adding"]
    /\ grant' = [grant EXCEPT ![a] = [key |-> m[o.code].key, token |-> 0]]
    /\ Accepts(o.code)
    /\ UNCHANGED <<now, up, card, roster, tokens, ops, issued, touched, excused>>

\* Redeem returns an error: the code is unknown (charged to all others),
\* expired since pruneLocked, or could not be saved as redeemed.  The guard
\* counts a failure and the agent gets the same vague answer.
Refuses(a) ==
    LET o == op[Hub]  m == entries[Hub] IN
    /\ o # None /\ o.kind = "redeem" /\ o.conn = a
    /\ op' = [op EXCEPT ![Hub] = None]
    /\ Close({a})
    /\ crossed' = crossed \ {Hub}
    /\ \/ /\ o.code \in Live(m) => IsExpired(m[o.code])
          /\ Save(Hub, Result(o, m))
          /\ IF o.code \in Live(m) THEN UNCHANGED charged ELSE Charges
       \/ SaveFails(Hub, o, Result(o, m)) /\ UNCHANGED charged
    /\ UNCHANGED <<now, up, roster, tokens, ops, issued, expires, accepted, revoked, spent,
                   cancelled, touched, excused>>

\* A process ends: a command is done, or the hub is stopped or crashes; the
\* hub's connections are gone with it.
Connected(a) == conn[a] \notin {"idle", "enrolled", "refused"}

Stop(p) ==
    /\ p \in up
    /\ up' = up \ {p}
    /\ op' = [op EXCEPT ![p] = None]
    /\ crossed' = crossed \ {p}
    /\ IF p = Hub
       THEN LET A == {a \in Conns : Connected(a)} IN
            Close(A) /\ excused' = excused \cup ({grant[a].token : a \in A} \ {0})
       ELSE UNCHANGED <<conn, card, grant, excused>>
    /\ UNCHANGED <<now, store, roster, tokens, ops, issued, hist, touched>>

Tick ==
    /\ now < MaxNow
    /\ now' = now + 1
    /\ UNCHANGED <<store, op, up, conn, card, grant, roster, tokens, ops, issued,
                   crossed, hist, touched, excused>>

-----------------------------------------------------------------------------
(* agent.Enroll and Hub.handleEnroll.                                      *)
AgentRest == <<now, store, op, up, roster, tokens, ops, issued, crossed, hist, touched>>

\* The operator typed a code, perhaps again, the hub was reached and its
\* fingerprint is the pinned one or was confirmed: the code is sent.  An
\* attempt that ends before that leaves no trace.
Present(a, c) ==
    /\ conn[a] \in {"idle", "refused"} /\ Hub \in up
    /\ c \in issued \cup {Wrong}
    /\ conn' = [conn EXCEPT ![a] = "sent"]
    /\ card' = [card EXCEPT ![a] = c]
    /\ UNCHANGED <<AgentRest, grant, excused>>

\* The two speak different versions, or the request cannot be decoded: the code
\* is not touched.
Mismatch(a) ==
    /\ conn[a] = "sent"
    /\ Close({a})
    /\ UNCHANGED <<AgentRest, excused>>

\* Roster.Add: refused for a server that is there (and if it cannot be saved).
Add(a) ==
    /\ conn[a] = "adding"
    /\ \/ /\ roster[grant[a].key] = 0
          /\ tokens' = tokens + 1
          /\ roster' = [roster EXCEPT ![grant[a].key] = tokens + 1]
          /\ grant' = [grant EXCEPT ![a].token = tokens + 1]
          /\ conn' = [conn EXCEPT ![a] = "replying"]
          /\ UNCHANGED card
       \/ /\ roster[grant[a].key] # 0 \/ MayFail
          /\ Close({a})
          /\ UNCHANGED <<tokens, roster>>
    /\ UNCHANGED <<now, store, op, up, ops, issued, crossed, hist, touched, excused>>

\* The reply is written, or the write fails.
Reply(a) ==
    /\ conn[a] = "replying"
    /\ \E s \in {"delivered", "rollback"} : conn' = [conn EXCEPT ![a] = s]
    /\ UNCHANGED <<AgentRest, card, grant, excused>>

\* Mutant: the entry stays.
RollbackNot(a) ==
    /\ conn[a] = "rollback"
    /\ Close({a})
    /\ UNCHANGED <<AgentRest, excused>>

\* Roster.Remove by key; if there is none, or it cannot be saved, a warning.
Rollback(a) ==
    /\ conn[a] = "rollback"
    /\ Close({a})
    /\ \/ roster' = [roster EXCEPT ![grant[a].key] = 0] /\ UNCHANGED excused
       \/ MayFail /\ excused' = excused \cup {grant[a].token} /\ UNCHANGED roster
    /\ UNCHANGED <<now, store, op, up, tokens, ops, issued, crossed, hist, touched>>

\* The agent reads its token, or has given up or lost the connection by then.
AgentReads(a) ==
    /\ conn[a] = "delivered"
    /\ \/ conn' = [conn EXCEPT ![a] = "enrolled"] /\ UNCHANGED <<card, grant, excused>>
       \/ Close({a}) /\ excused' = excused \cup {grant[a].token}
    /\ UNCHANGED AgentRest

\* agent add and agent rotate, agent remove (or the web interface's); once per
\* key, since nothing is claimed of a key after that.
OperatorChanges(k) ==
    /\ k \notin touched /\ ops < MaxOps /\ ops' = ops + 1
    /\ touched' = touched \cup {k}
    /\ \/ tokens' = tokens + 1 /\ roster' = [roster EXCEPT ![k] = tokens + 1]
       \/ roster[k] # 0 /\ roster' = [roster EXCEPT ![k] = 0] /\ UNCHANGED tokens
    /\ UNCHANGED <<now, store, op, up, conn, card, grant, issued, crossed, hist, excused>>

-----------------------------------------------------------------------------
Init ==
    /\ now = 0 /\ file = Empty /\ mtime = 0
    /\ entries = [p \in Procs |-> Empty] /\ loaded = [p \in Procs |-> 0]
    /\ op = [p \in Procs |-> None] /\ up = {}
    /\ conn = [a \in Conns |-> "idle"] /\ card = [a \in Conns |-> None]
    /\ grant = [a \in Conns |-> NoGrant]
    /\ roster = [k \in Keys |-> 0] /\ tokens = 0 /\ ops = 0 /\ issued = {}
    /\ accepted = [c \in Codes |-> 0] /\ charged = [c \in Codes |-> 0]
    /\ expires = [c \in Codes |-> 0] /\ revoked = {} /\ spent = {} /\ cancelled = {}
    /\ crossed = {} /\ touched = {} /\ excused = {}

Next ==
    \/ \E p \in Procs : Open(p)
    \/ \E p \in Procs, c \in Codes, k \in Keys : BeginCreate(p, c, k)
    \/ \E p \in Procs, c \in Codes : BeginRevoke(p, c)
    \/ \E p \in Procs : Pending(p)
    \/ \E p \in Procs : Finish(p)
    \/ \E p \in Procs : Stop(p)
    \/ \E a \in Conns : BeginRedeem(a)
    \/ \E a \in Conns : Redeems(a)
    \/ \E a \in Conns : Refuses(a)
    \/ Tick
    \/ \E a \in Conns, c \in Codes \cup {Wrong} : Present(a, c)
    \/ \E a \in Conns : Mismatch(a)
    \/ \E a \in Conns : Add(a)
    \/ \E a \in Conns : Reply(a)
    \/ \E a \in Conns : Rollback(a)
    \/ \E a \in Conns : AgentReads(a)
    \/ \E k \in Keys : OperatorChanges(k)

Spec == Init /\ [][Next]_vars

-----------------------------------------------------------------------------
ConnStates == {"idle", "sent", "redeeming", "adding", "replying",
               "rollback", "delivered", "enrolled", "refused"}

\* The types, and that an attempt the hub works on has what its step needs.
TypeOK ==
    /\ now \in Nat /\ mtime \in Nat /\ tokens \in Nat /\ ops \in Nat
    /\ file \in Store /\ entries \in [Procs -> Store] /\ loaded \in [Procs -> Nat]
    /\ op \in [Procs -> Op \cup {None}] /\ up \subseteq Procs
    /\ conn \in [Conns -> ConnStates] /\ card \in [Conns -> Codes \cup {Wrong, None}]
    /\ grant \in [Conns -> [key : Keys \cup {None}, token : Nat]]
    /\ roster \in [Keys -> Nat] /\ issued \subseteq Codes
    /\ accepted \in [Codes -> Nat] /\ charged \in [Codes -> Nat]
    /\ expires \in [Codes -> Nat] /\ revoked \subseteq Codes
    /\ spent \subseteq Codes /\ cancelled \subseteq Codes /\ crossed \subseteq Procs
    /\ touched \subseteq Keys /\ excused \subseteq Nat
    /\ \A a \in Conns :
          conn[a] \in {"adding", "replying", "rollback", "delivered", "enrolled"}
             => grant[a].key \in Keys

\* EnrollStore.Redeem: "a code works exactly once even if two agents race to
\* present it".  A code whose redemption no other process's writing operation
\* crossed is not accepted again, whatever crashes, restarts, fails to save or
\* crosses after that.
SingleUse == [][\A c \in Codes : accepted'[c] > accepted[c] => c \notin spent]_vars

\* Redeem accepts a code only in its time; not after a Revoke, in any process,
\* that succeeded and that no writing operation of another process crossed; and
\* not after maxEnrollAttempts wrong guesses whose charge was saved by a Redeem
\* that none crossed.  Later crossings, failed saves and restarts undo none of
\* this.
OnlyLiveCodesAccepted ==
    [][\A c \in Codes : accepted'[c] > accepted[c] =>
          now <= expires[c] /\ c \notin cancelled /\ charged[c] < MaxAttempts]_vars

\* EnrollStore.Revoke's comment: "Revoke cancels an outstanding code".
RevokeCancels == \A c \in revoked : file[c] = None

\* An agent that was given a token can connect with it: the roster holds that
\* token, whatever other enrollments for the same server do, fail at or roll
\* back, unless an operator changed the entry.
IssuedTokenWorks ==
    \A a \in Conns : conn[a] = "enrolled" /\ grant[a].key \notin touched =>
        roster[grant[a].key] = grant[a].token

\* handleEnroll's rollback: a server is on the roster only if its agent has
\* the token, is about to get it, or an operator put it there; what is left
\* over is lost with a crash, with a reply the agent did not read or with a
\* rollback that could not be saved.
RosterAccounted ==
    \A k \in Keys : roster[k] # 0 /\ k \notin touched =>
        \/ roster[k] \in excused
        \/ \E a \in Conns : /\ conn[a] \in {"replying", "rollback", "delivered", "enrolled"}
                            /\ grant[a] = [key |-> k, token |-> roster[k]]

\* What handleEnroll promises both sides: tokens given out work, and only they
\* are on the roster.
TokensAccounted == IssuedTokenWorks /\ RosterAccounted
=============================================================================
