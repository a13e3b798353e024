---------------------------- MODULE EnrollProofs ----------------------------
(***************************************************************************)
(* Proofs about Enroll, for any number of processes, connections, codes,   *)
(* servers and operations, with crashes and failed saves anywhere.         *)
(***************************************************************************)
EXTENDS Enroll, TLAPS

\* A code is typed before it is sent, only the hub redeems, and the attempt it
\* redeems for waits for the answer.
RedeemInv ==
    /\ \A a \in Conns : conn[a] = "sent" => card[a] \in Codes \cup {Wrong}
    /\ \A p \in Procs : op[p] # None /\ op[p].kind = "redeem" =>
          p = Hub /\ conn[op[p].conn] = "redeeming"

\* A code whose Create has returned, or was lost with its process.
Made(c) ==
    c \in issued /\ \A p \in Procs : op[p] # None /\ op[p].kind = "create" => op[p].code # c

\* No process has seen a file that is still to be written, a code is created
\* once, and one that is not yet made is nowhere.
IssuedInv ==
    /\ \A p \in Procs : loaded[p] <= mtime
    /\ \A c \in Codes : ~Made(c) =>
          /\ file[c] = None /\ charged[c] = 0 /\ c \notin spent /\ c \notin cancelled
          /\ \A p \in Procs : entries[p][c] = None
    /\ \A p \in Procs : op[p] # None /\ op[p].kind = "create" =>
          /\ op[p].code \in issued
          /\ \A q \in Procs : op[q] # None /\ op[q].kind = "create" /\ op[q].code = op[p].code
                => q = p

\* A process that would not read the file again.
Current(p) == loaded[p] = mtime

\* Writing operations that overlap are crossed; one that nobody crossed works on
\* what is in the file.
WriterInv ==
    /\ crossed \subseteq Writers
    /\ \A p, q \in Writers : p # q => p \in crossed
    /\ \A p \in Writers \ crossed : Current(p)

\* A process whose copy of the codes may still be used, or saved.
Reach(p) == Current(p) \/ Writes(op[p])

\* A code that is spent or cancelled is gone from the file and from every copy
\* that may still be used.
GoneInv ==
    \A c \in spent \cup cancelled :
        file[c] = None /\ \A p \in Procs : Reach(p) => entries[p][c] = None

\* An entry says when its code expires and misses none of the guesses charged.
Honest(e, time, guesses) == e # None => e.expires = time /\ e.attempts >= guesses

CountInv ==
    \A c \in Codes :
        /\ Honest(file[c], expires[c], charged[c])
        /\ \A p \in Procs : Reach(p) => Honest(entries[p][c], expires[c], charged[c])

\* Attempts that have a token.
Holders == {a \in Conns : conn[a] \in {"replying", "rollback", "delivered", "enrolled"}}

\* Every holder has a token of its own, and the roster has it unless an
\* operator changed the entry.
HolderInv ==
    /\ \A k \in Keys : roster[k] <= tokens
    /\ \A a \in Holders :
          /\ grant[a].token \in 1 .. tokens
          /\ \A b \in Holders : grant[a].token = grant[b].token => a = b
          /\ grant[a].key \notin touched => roster[grant[a].key] = grant[a].token

-----------------------------------------------------------------------------
(* The operations on tables of codes.                                      *)

\* What each kind of operation carries.
LEMMA OpFields ==
    ASSUME NEW o \in Op
    PROVE  /\ o.kind \in {"create", "redeem", "revoke", "pending"}
           /\ o.kind = "create" => o.code \in Codes /\ o.key \in Keys
           /\ o.kind = "redeem" => o.code \in Codes \cup {Wrong} /\ o.conn \in Conns
           /\ o.kind = "revoke" => o.code \in Codes
BY DEF Op

\* What is known of a code that is in a store.
LEMMA StoreEntry ==
    ASSUME NEW m \in Store, NEW c \in Codes, m[c] # None
    PROVE  m[c] \in EnrollEntry /\ m[c].key \in Keys /\ m[c].expires \in Nat /\ m[c].attempts \in Nat
BY DEF Store, EnrollEntry

\* Pruning drops codes and changes none.
LEMMA PrunedType ==
    ASSUME NEW m \in Store
    PROVE  Pruned(m) \in Store /\ \A c \in Codes : Pruned(m)[c] \in {None, m[c]}
BY DEF Store, Pruned

\* A wrong guess is charged to every code, and adds none.
LEMMA ChargedType ==
    ASSUME NEW m \in Store
    PROVE  /\ Charged(m) \in Store
           /\ \A c \in Codes : m[c] = None => Charged(m)[c] = None
           /\ \A c \in Codes : m[c] # None =>
                 Charged(m)[c] = [m[c] EXCEPT !.attempts = @ + 1]
<1>1. ASSUME NEW c \in Codes, m[c] # None
      PROVE  [m[c] EXCEPT !.attempts = @ + 1] \in EnrollEntry
    BY <1>1, StoreEntry DEF EnrollEntry
<1>2. QED
    BY <1>1 DEF Store, Charged

\* An operation that writes makes a table of a table; only Create adds an entry.
LEMMA ResultType ==
    ASSUME now \in Nat, NEW m \in Store, NEW o \in Op, o.kind # "pending"
    PROVE  /\ Result(o, m) \in Store
           /\ \A c \in Codes : m[c] = None /\ Result(o, m)[c] # None =>
                 o.kind = "create" /\ o.code = c
<1>1. CASE o.kind = "create"
  <2>1. [key |-> o.key, expires |-> now + EnrollTTL, attempts |-> 0] \in EnrollEntry
      BY <1>1, OpFields, EnrollAssumption DEF EnrollEntry
  <2>2. QED
      BY <1>1, <2>1, OpFields DEF Result, Store
<1>2. CASE o.kind = "redeem" /\ o.code \notin Live(m)
    BY <1>2, PrunedType, ChargedType DEF Result
<1>3. CASE o.kind = "revoke" \/ (o.kind = "redeem" /\ o.code \in Live(m))
  <2>1. o.code \in Codes
      BY <1>3, OpFields DEF Live
  <2>2. Result(o, m) = [m EXCEPT ![o.code] = None]
      BY <1>3 DEF Result
  <2>3. QED
      BY <2>1, <2>2 DEF Store
<1>4. QED
    BY <1>1, <1>2, <1>3, OpFields

\* The store without codes is a store.
LEMMA EmptyType == Empty \in Store
BY DEF Empty, Store

\* A refresh has a store, the file's or the one in memory.
LEMMA RefreshedType ==
    ASSUME TypeOK, NEW p \in Procs
    PROVE  Refreshed(p) \in Store /\ Pruned(Refreshed(p)) \in Store
<1>1. Refreshed(p) \in Store
    BY DEF Refreshed, TypeOK
<1>2. QED
    BY <1>1, PrunedType

-----------------------------------------------------------------------------
(* The types.                                                              *)

\* Closing connections refuses them and leaves the others alone.
LEMMA CloseType ==
    ASSUME TypeOK, NEW A \in SUBSET Conns, Close(A)
    PROVE  /\ conn' \in [Conns -> ConnStates] /\ card' \in [Conns -> Codes \cup {Wrong, None}]
           /\ grant' \in [Conns -> [key : Keys \cup {None}, token : Nat]]
           /\ \A a \in A : conn'[a] = "refused"
           /\ \A a \in Conns \ A : conn'[a] = conn[a] /\ card'[a] = card[a] /\ grant'[a] = grant[a]
           /\ \A a \in Conns :
                 conn'[a] \in {"adding", "replying", "rollback", "delivered", "enrolled"}
                    => grant'[a].key \in Keys
BY DEF Close, NoGrant, TypeOK, ConnStates

\* An operation begins: the types of what Begin changes.
LEMMA BeginType ==
    ASSUME TypeOK, NEW p \in Procs, NEW o \in Op, Begin(p, o)
    PROVE  /\ op' \in [Procs -> Op \cup {None}] /\ ops' \in Nat
           /\ entries' \in [Procs -> Store] /\ loaded' \in [Procs -> Nat]
           /\ crossed' \subseteq Procs
<1>1. crossed' \subseteq Procs
    BY DEF Begin, TypeOK, Writers
<1>2. QED
    BY <1>1, RefreshedType DEF Begin, TypeOK

\* The store after a save that succeeded or failed.
LEMMA SaveType ==
    ASSUME TypeOK, NEW p \in Procs, NEW o, NEW m \in Store, Save(p, m) \/ SaveFails(p, o, m)
    PROVE  /\ file' \in Store /\ mtime' \in Nat
           /\ entries' \in [Procs -> Store] /\ loaded' \in [Procs -> Nat]
BY DEF Save, SaveFails, TypeOK

\* Every step keeps the types.
LEMMA TypeStep == TypeOK /\ RedeemInv /\ [Next]_vars => TypeOK'
<1> SUFFICES ASSUME TypeOK, RedeemInv, [Next]_vars PROVE TypeOK'
    OBVIOUS
<1>h. Hub \in Procs
    BY DEF Procs
<1>1. ASSUME NEW p \in Procs, Open(p) PROVE TypeOK'
    BY <1>1, EmptyType DEF Open, TypeOK, hist
<1>2. ASSUME NEW p \in Procs, NEW c \in Codes, NEW k \in Keys, BeginCreate(p, c, k) PROVE TypeOK'
  <2>1. [kind |-> "create", code |-> c, key |-> k] \in Op
      BY DEF Op
  <2>2. QED
      BY <1>2, <2>1, BeginType DEF BeginCreate, Begin, TypeOK, hist
<1>3. ASSUME NEW p \in Procs, NEW c \in Codes, BeginRevoke(p, c) PROVE TypeOK'
  <2>1. [kind |-> "revoke", code |-> c] \in Op
      BY DEF Op
  <2>2. QED
      BY <1>3, <2>1, BeginType DEF BeginRevoke, Begin, TypeOK, hist
<1>4. ASSUME NEW p \in Procs, Pending(p) PROVE TypeOK'
    BY <1>4, RefreshedType DEF Pending, TypeOK, hist
<1>5. ASSUME NEW p \in Procs, Finish(p) PROVE TypeOK'
  <2>1. op[p] \in Op /\ op[p].kind # "pending" /\ op[p].code \in Codes
      BY <1>5, OpFields DEF Finish, TypeOK
  <2>2. Result(op[p], entries[p]) \in Store
      BY <2>1, ResultType DEF TypeOK
  <2>3. /\ file' \in Store /\ mtime' \in Nat
        /\ entries' \in [Procs -> Store] /\ loaded' \in [Procs -> Nat]
      BY <1>5, <2>2, SaveType DEF Finish, store, TypeOK
  <2>4. /\ expires' \in [Codes -> Nat] /\ revoked' \subseteq Codes
        /\ cancelled' \subseteq Codes /\ crossed' \subseteq Procs
      BY <1>5, <2>1, EnrollAssumption DEF Finish, TypeOK
  <2>5. QED
      BY <1>5, <2>3, <2>4 DEF Finish, TypeOK
<1>6. ASSUME NEW p \in Procs, Stop(p) PROVE TypeOK'
  <2>1. CASE p = Hub
    <3>1. {a \in Conns : Connected(a)} \in SUBSET Conns
        OBVIOUS
    <3>2. Close({a \in Conns : Connected(a)})
        BY <1>6, <2>1 DEF Stop
    <3>3. \A a \in Conns : grant[a].token \in Nat
        BY DEF TypeOK
    <3>4. excused' \subseteq Nat
      <4>1. excused' = excused \cup
                  ({grant[a].token : a \in {b \in Conns : Connected(b)}} \ {0})
          BY <1>6, <2>1, Zenon DEF Stop
      <4>2. \A n \in {grant[a].token : a \in {b \in Conns : Connected(b)}} : n \in Nat
          BY <3>3, Zenon
      <4>3. QED
          BY <4>1, <4>2 DEF TypeOK
    <3>5. QED
        BY <1>6, <3>1, <3>2, <3>4, CloseType DEF Stop, TypeOK, store, hist
  <2>2. CASE p # Hub
      BY <1>6, <2>2 DEF Stop, TypeOK, store, hist
  <2>3. QED
      BY <2>1, <2>2
<1>7. ASSUME NEW a \in Conns, BeginRedeem(a) PROVE TypeOK'
  <2>1. [kind |-> "redeem", code |-> card[a], conn |-> a] \in Op
      BY <1>7 DEF Op, BeginRedeem, RedeemInv
  <2>2. QED
      BY <1>7, <1>h, <2>1, BeginType DEF BeginRedeem, Begin, TypeOK, ConnStates, hist
<1>8. ASSUME NEW a \in Conns, Redeems(a) PROVE TypeOK'
  <2> DEFINE m == entries[Hub]
  <2>1. op[Hub] \in Op /\ op[Hub].kind = "redeem" /\ m \in Store
      BY <1>8, <1>h DEF Redeems, TypeOK
  <2>2. op[Hub].code \in Codes /\ m[op[Hub].code].key \in Keys
      BY <1>8, <2>1, StoreEntry DEF Redeems, Live
  <2>3. Save(Hub, Result(op[Hub], m)) /\ Result(op[Hub], m) \in Store
      BY <1>8, <2>1, ResultType DEF Redeems, TypeOK
  <2>4. /\ file' \in Store /\ mtime' \in Nat
        /\ entries' \in [Procs -> Store] /\ loaded' \in [Procs -> Nat]
      BY <1>h, <2>3, SaveType
  <2>5. grant' \in [Conns -> [key : Keys \cup {None}, token : Nat]] /\ grant'[a].key \in Keys
      BY <1>8, <2>2 DEF Redeems, TypeOK
  <2>6. /\ accepted' \in [Codes -> Nat] /\ spent' \subseteq Codes /\ crossed' \subseteq Procs
        /\ UNCHANGED <<expires, revoked, cancelled, charged>>
      BY <1>8, <2>2 DEF Redeems, Accepts, TypeOK
  <2>7. conn' = [conn EXCEPT ![a] = "adding"] /\ \A b \in Conns \ {a} : grant'[b] = grant[b]
      BY <1>8 DEF Redeems, TypeOK
  <2>8. QED
    <3>1. op' \in [Procs -> Op \cup {None}] /\ conn' \in [Conns -> ConnStates]
        BY <1>8, <2>7 DEF Redeems, TypeOK, ConnStates
    <3>2. UNCHANGED <<now, up, card, roster, tokens, ops, issued, touched, excused>>
        BY <1>8 DEF Redeems
    <3>3. ASSUME NEW b \in Conns, conn'[b] \in {"adding", "replying", "rollback", "delivered",
                                                "enrolled"}
          PROVE  grant'[b].key \in Keys
      <4>1. CASE b = a
          BY <2>5, <4>1
      <4>2. CASE b # a
        <5>1. conn'[b] = conn[b] /\ grant'[b] = grant[b]
            BY <2>7, <4>2 DEF TypeOK
        <5>2. QED
            BY <3>3, <5>1 DEF TypeOK
      <4>3. QED
          BY <4>1, <4>2
    <3>4. QED
        BY <2>4, <2>5, <2>6, <3>1, <3>2, <3>3 DEF TypeOK
<1>9. ASSUME NEW a \in Conns, Refuses(a) PROVE TypeOK'
  <2> DEFINE m == entries[Hub]
  <2>1. op[Hub] \in Op /\ op[Hub].kind = "redeem" /\ m \in Store /\ Close({a})
      BY <1>9, <1>h DEF Refuses, TypeOK
  <2>2. Result(op[Hub], m) \in Store
      BY <2>1, ResultType DEF TypeOK
  <2>3. /\ file' \in Store /\ mtime' \in Nat
        /\ entries' \in [Procs -> Store] /\ loaded' \in [Procs -> Nat]
      BY <1>9, <1>h, <2>2, SaveType DEF Refuses
  <2>4. charged' \in [Codes -> Nat] /\ crossed' \subseteq Procs
      BY <1>9 DEF Refuses, Charges, TypeOK
  <2>5. QED
      BY <1>9, <2>1, <2>3, <2>4, CloseType DEF Refuses, TypeOK
<1>10. CASE Tick
    BY <1>10 DEF Tick, TypeOK, store, hist
<1>11. ASSUME NEW a \in Conns, NEW c \in Codes \cup {Wrong}, Present(a, c) PROVE TypeOK'
    BY <1>11 DEF Present, AgentRest, TypeOK, store, hist, ConnStates
<1>12. ASSUME NEW a \in Conns, Mismatch(a) PROVE TypeOK'
    BY <1>12, CloseType DEF Mismatch, AgentRest, TypeOK, store, hist
<1>13. ASSUME NEW a \in Conns, Add(a) PROVE TypeOK'
  <2>1. CASE Close({a})
    <3>1. {a} \in SUBSET Conns
        OBVIOUS
    <3>2. tokens' \in Nat /\ roster' \in [Keys -> Nat]
        BY <1>13 DEF Add, TypeOK
    <3>3. QED
        BY <1>13, <2>1, <3>1, <3>2, CloseType DEF Add, TypeOK, store, hist
  <2>2. CASE ~Close({a})
    <3>1. /\ conn[a] = "adding" /\ grant[a].key \in Keys
          /\ tokens' = tokens + 1 /\ roster' = [roster EXCEPT ![grant[a].key] = tokens + 1]
          /\ grant' = [grant EXCEPT ![a].token = tokens + 1]
          /\ conn' = [conn EXCEPT ![a] = "replying"] /\ card' = card
        BY <1>13, <2>2 DEF Add, TypeOK
    <3>2. tokens' \in Nat /\ roster' \in [Keys -> Nat] /\ conn' \in [Conns -> ConnStates]
        BY <3>1 DEF TypeOK, ConnStates
    <3>3. /\ grant' \in [Conns -> [key : Keys \cup {None}, token : Nat]]
          /\ \A b \in Conns : grant'[b].key = grant[b].key
        BY <3>1 DEF TypeOK
    <3>4. QED
        BY <1>13, <3>1, <3>2, <3>3 DEF Add, TypeOK, store, hist
  <2>3. QED
      BY <2>1, <2>2
<1>14. ASSUME NEW a \in Conns, Reply(a) PROVE TypeOK'
    BY <1>14 DEF Reply, AgentRest, TypeOK, store, hist, ConnStates
<1>15. ASSUME NEW a \in Conns, Rollback(a) PROVE TypeOK'
  <2>1. Close({a}) /\ {a} \in SUBSET Conns /\ grant[a].token \in Nat
      BY <1>15 DEF Rollback, TypeOK
  <2>2. excused' \in {excused, excused \cup {grant[a].token}}
      BY <1>15 DEF Rollback
  <2>3. roster' \in {roster, [roster EXCEPT ![grant[a].key] = 0]}
      BY <1>15 DEF Rollback
  <2>4. roster' \in [Keys -> Nat] /\ excused' \subseteq Nat
      BY <2>1, <2>2, <2>3 DEF TypeOK
  <2>5. QED
      BY <1>15, <2>1, <2>4, CloseType DEF Rollback, TypeOK, store, hist
<1>16. ASSUME NEW a \in Conns, AgentReads(a) PROVE TypeOK'
  <2>1. CASE Close({a})
    <3>1. {a} \in SUBSET Conns /\ excused' \subseteq Nat
        BY <1>16 DEF AgentReads, TypeOK
    <3>2. QED
        BY <1>16, <2>1, <3>1, CloseType DEF AgentReads, AgentRest, TypeOK, store, hist
  <2>2. CASE ~Close({a})
    <3>1. /\ conn[a] = "delivered" /\ conn' = [conn EXCEPT ![a] = "enrolled"]
          /\ UNCHANGED <<card, grant, excused>>
        BY <1>16, <2>2 DEF AgentReads
    <3>2. QED
        BY <1>16, <3>1 DEF AgentReads, AgentRest, TypeOK, store, hist, ConnStates
  <2>3. QED
      BY <2>1, <2>2
<1>17. ASSUME NEW k \in Keys, OperatorChanges(k) PROVE TypeOK'
    BY <1>17 DEF OperatorChanges, TypeOK, store, hist
<1>18. CASE UNCHANGED vars
    BY <1>18 DEF vars, TypeOK
<1>19. QED
    BY <1>1, <1>2, <1>3, <1>4, <1>5, <1>6, <1>7, <1>8, <1>9, <1>10, <1>11, <1>12, <1>13,
       <1>14, <1>15, <1>16, <1>17, <1>18 DEF Next

\* Every step keeps what an operation under way says of its code.
LEMMA RedeemStep == TypeOK /\ RedeemInv /\ [Next]_vars => RedeemInv'
<1> SUFFICES ASSUME TypeOK, RedeemInv, [Next]_vars PROVE RedeemInv'
    OBVIOUS
<1>h. Hub \in Procs
    BY DEF Procs
<1>c. \A p \in Procs : op[p] # None /\ op[p].kind = "redeem" => op[p].conn \in Conns
    BY OpFields DEF TypeOK
\* Steps that begin no redemption and leave the attempt of the one under way.
<1>1. ASSUME \A p \in Procs : op'[p] = op[p] \/ op'[p] = None \/ op'[p].kind # "redeem",
             \A a \in Conns : conn'[a] = "sent" => conn[a] = "sent" /\ card'[a] = card[a],
             \A a \in Conns : conn[a] = "redeeming" => conn'[a] = "redeeming"
      PROVE  RedeemInv'
    BY <1>1, <1>c DEF RedeemInv
<1>2. ASSUME NEW p \in Procs, Open(p) \/ Pending(p) \/ Finish(p) PROVE RedeemInv'
    BY <1>2, <1>1 DEF Open, Pending, Finish, TypeOK
<1>3. ASSUME NEW p \in Procs, NEW c \in Codes,
             BeginRevoke(p, c) \/ \E k \in Keys : BeginCreate(p, c, k)
      PROVE  RedeemInv'
  <2>1. conn' = conn /\ card' = card
      BY <1>3 DEF BeginCreate, BeginRevoke, Begin
  <2>2. \A q \in Procs : op'[q] = op[q] \/ op'[q].kind # "redeem"
    <3>1. CASE BeginRevoke(p, c)
        BY <3>1 DEF BeginRevoke, Begin, TypeOK
    <3>2. ASSUME NEW k \in Keys, BeginCreate(p, c, k)
          PROVE  \A q \in Procs : op'[q] = op[q] \/ op'[q].kind # "redeem"
        BY <3>2 DEF BeginCreate, Begin, TypeOK
    <3>3. QED
        BY <1>3, <3>1, <3>2
  <2>3. QED
      BY <1>1, <2>1, <2>2
<1>4. ASSUME NEW p \in Procs, Stop(p) PROVE RedeemInv'
  <2>1. CASE p = Hub
    <3>1. \A q \in Procs : op'[q] # None => op'[q] = op[q] /\ q # Hub
        BY <1>4, <2>1 DEF Stop, TypeOK
    <3>2. Close({a \in Conns : Connected(a)}) /\ {a \in Conns : Connected(a)} \in SUBSET Conns
        BY <1>4, <2>1 DEF Stop
    <3>3. \A a \in Conns : conn'[a] # "sent"
        BY <3>2 DEF Close, Connected
    <3>4. QED
        BY <3>1, <3>3 DEF RedeemInv
  <2>2. CASE p # Hub
      BY <1>4, <2>2, <1>1 DEF Stop, TypeOK
  <2>3. QED
      BY <2>1, <2>2
<1>5. ASSUME NEW a \in Conns, BeginRedeem(a) PROVE RedeemInv'
  <2>1. /\ op' = [op EXCEPT ![Hub] = [kind |-> "redeem", code |-> card[a], conn |-> a]]
        /\ op[Hub] = None /\ card' = card /\ conn' = [conn EXCEPT ![a] = "redeeming"]
      BY <1>5 DEF BeginRedeem, Begin
  <2>2. \A p \in Procs \ {Hub} : op'[p] = op[p]
      BY <2>1 DEF TypeOK
  <2>3. op'[Hub].conn = a /\ conn'[a] = "redeeming"
      BY <2>1, <1>h DEF TypeOK
  <2>4. QED
      BY <1>c, <2>1, <2>2, <2>3 DEF RedeemInv, TypeOK
<1>6. ASSUME NEW a \in Conns, Redeems(a) \/ Refuses(a) PROVE RedeemInv'
  <2>1. op' = [op EXCEPT ![Hub] = None]
      BY <1>6 DEF Redeems, Refuses
  <2>2. \A p \in Procs : op'[p] # None => op'[p] = op[p] /\ p # Hub
      BY <2>1, <1>h DEF TypeOK
  <2>3. \A b \in Conns : conn'[b] = "sent" => conn[b] = "sent" /\ card'[b] = card[b]
      BY <1>6 DEF Redeems, Refuses, Close, TypeOK
  <2>4. QED
      BY <2>2, <2>3 DEF RedeemInv
<1>7. ASSUME NEW a \in Conns, NEW c \in Codes \cup {Wrong}, Present(a, c) PROVE RedeemInv'
  <2>1. /\ op' = op /\ conn' = [conn EXCEPT ![a] = "sent"] /\ card' = [card EXCEPT ![a] = c]
        /\ conn[a] # "redeeming"
      BY <1>7 DEF Present, AgentRest
  <2>2. QED
      BY <1>c, <2>1 DEF RedeemInv, TypeOK
<1>8. ASSUME NEW a \in Conns, Mismatch(a) \/ Rollback(a) PROVE RedeemInv'
  <2>1. op' = op /\ Close({a}) /\ conn[a] # "redeeming"
      BY <1>8 DEF Mismatch, Rollback, AgentRest
  <2>2. QED
      BY <1>1, <2>1 DEF Close
<1>9. ASSUME NEW a \in Conns, Add(a) \/ AgentReads(a) \/ Reply(a) PROVE RedeemInv'
  <2>1. op' = op /\ conn[a] \in {"adding", "replying", "delivered"}
      BY <1>9 DEF Add, AgentReads, Reply, AgentRest
  <2>2. \A b \in Conns \ {a} : conn'[b] = conn[b] /\ card'[b] = card[b]
      BY <1>9 DEF Add, AgentReads, Reply, Close, TypeOK
  <2>3. conn'[a] # "sent"
      BY <1>9 DEF Add, AgentReads, Reply, Close, TypeOK
  <2>4. QED
      BY <1>1, <2>1, <2>2, <2>3
<1>10. CASE Tick \/ (\E k \in Keys : OperatorChanges(k)) \/ UNCHANGED vars
    BY <1>10, <1>1 DEF Tick, OperatorChanges, vars
<1>11. QED
    BY <1>2, <1>3, <1>4, <1>5, <1>6, <1>7, <1>8, <1>9, <1>10 DEF Next

-----------------------------------------------------------------------------
(* What the steps do to the store.                                         *)

\* Steps that leave the codes alone.
Elsewhere ==
    \/ Tick
    \/ \E a \in Conns, c \in Codes \cup {Wrong} : Present(a, c)
    \/ \E a \in Conns : Mismatch(a) \/ Add(a) \/ Reply(a) \/ Rollback(a) \/ AgentReads(a)
    \/ \E k \in Keys : OperatorChanges(k)
    \/ UNCHANGED vars

\* A step elsewhere touches neither the file of codes nor a copy of it.
LEMMA ElsewhereUnchanged ==
    Elsewhere => UNCHANGED <<file, mtime, entries, loaded, op, issued, crossed, expires, accepted,
                             revoked, spent, cancelled, charged>>
BY DEF Elsewhere, Tick, Present, Mismatch, Add, Reply, Rollback, AgentReads, OperatorChanges,
       AgentRest, store, hist, vars

\* What a process goes on with is the file, or what it has if that is current.
LEMMA RefreshedForms ==
    ASSUME TypeOK, IssuedInv, NEW p \in Procs
    PROVE  Refreshed(p) = file \/ (Current(p) /\ Refreshed(p) = entries[p])
BY DEF TypeOK, IssuedInv, Refreshed, Current

\* A process reads: what it then has is what it refreshed, less some codes; the
\* histories of the codes stay.
Reads(p) ==
    /\ file' = file /\ mtime' = mtime /\ loaded' = [loaded EXCEPT ![p] = mtime]
    /\ \A q \in Procs \ {p} : entries'[q] = entries[q] /\ op'[q] = op[q]
    /\ \A c \in Codes : entries'[p][c] # None =>
          \/ entries'[p][c] = file[c]
          \/ Current(p) /\ entries'[p][c] = entries[p][c]
    /\ UNCHANGED <<expires, accepted, revoked, spent, cancelled, charged>>

\* Opening, listing and beginning an operation only read the file.
LEMMA ReadingSteps ==
    ASSUME TypeOK, IssuedInv, NEW p \in Procs
    PROVE  /\ Open(p) => Reads(p)
           /\ Pending(p) => Reads(p)
           /\ \A o : Begin(p, o) => Reads(p)
<1>1. Open(p) => Reads(p)
    BY DEF Open, Reads, TypeOK, Empty, hist
<1>2. Refreshed(p) \in Store /\ \A c \in Codes : Pruned(Refreshed(p))[c] \in {None, Refreshed(p)[c]}
    BY RefreshedType, PrunedType
<1>3. Pending(p) => Reads(p)
    BY <1>2, RefreshedForms DEF Pending, Reads, TypeOK, hist
<1>4. ASSUME NEW o, Begin(p, o) PROVE Reads(p)
    BY <1>2, <1>4, RefreshedForms DEF Begin, Reads, TypeOK, hist
<1>5. QED
    BY <1>1, <1>3, <1>4

\* A process ends its operation and writes m: the save succeeds, or memory alone
\* has it.
Wrote(p, m) ==
    /\ Writes(op[p]) /\ op' = [op EXCEPT ![p] = None] /\ crossed' = crossed \ {p}
    /\ issued' = issued
    /\ Save(p, m) \/ (\E o : SaveFails(p, o, m))

\* A save replaces the file or leaves it, and only the writer's copy changes; what
\* may still be used of the others was already in use, and after a save that
\* nobody crossed there is nothing of them.
LEMMA WroteForms ==
    ASSUME TypeOK, IssuedInv, WriterInv, NEW p \in Procs, NEW m, Wrote(p, m)
    PROVE  /\ \A q \in Procs \ {p} : entries'[q] = entries[q] /\ (Reach(q)' => Reach(q))
           /\ entries'[p] \in {m, entries[p]} /\ file' \in {m, file}
           /\ \A q \in Procs : loaded'[q] <= mtime'
           /\ Save(p, m) /\ p \notin crossed =>
                 file' = m /\ entries'[p] = m /\ \A q \in Procs : Reach(q)' => q = p
<1>1. \A q \in Procs \ {p} : entries'[q] = entries[q] /\ op'[q] = op[q] /\ loaded'[q] = loaded[q]
    BY DEF Wrote, Save, SaveFails, TypeOK
<1>2. /\ \A q \in Procs : loaded'[q] <= mtime'
      /\ mtime' = mtime \/ (Save(p, m) /\ \A q \in Procs \ {p} : ~Current(q)')
    BY DEF Wrote, Save, SaveFails, TypeOK, Current, IssuedInv
<1>3. \A q \in Procs \ {p} : Reach(q)' => Reach(q)
    BY <1>1, <1>2 DEF Reach, Current
<1>4. entries'[p] \in {m, entries[p]} /\ file' \in {m, file}
    BY DEF Wrote, Save, SaveFails, TypeOK
<1>5. ASSUME Save(p, m), p \notin crossed, NEW q \in Procs, Reach(q)', q # p PROVE FALSE
  <2>1. ~Current(q)'
      BY <1>5 DEF Save, Current, IssuedInv, TypeOK
  <2>2. Writes(op[q])
      BY <1>1, <1>5, <2>1 DEF Reach
  <2>3. QED
      BY <1>5, <2>2 DEF WriterInv, Writers, Wrote
<1>6. Save(p, m) => file' = m /\ entries'[p] = m
    BY DEF Save, TypeOK
<1>7. QED
    BY <1>1, <1>2, <1>3, <1>4, <1>5, <1>6

\* After a process has read, its own copy is what the file says or what it was,
\* and the others' are as they were.
LEMMA ReadForms ==
    ASSUME TypeOK, NEW p \in Procs, Reads(p)
    PROVE  \A q \in Procs \ {p} : entries'[q] = entries[q] /\ (Reach(q)' => Reach(q))
BY DEF Reads, Reach, Current, TypeOK

\* Create and Revoke end without a change, or write.
LEMMA FinishForms ==
    ASSUME TypeOK, NEW p \in Procs, Finish(p)
    PROVE  /\ op[p] \in Op /\ op[p] # None /\ op[p].kind \in {"create", "revoke"}
           /\ op[p].code \in Codes /\ Writes(op[p])
           /\ op' = [op EXCEPT ![p] = None] /\ crossed' = crossed \ {p}
           /\ UNCHANGED <<issued, accepted, spent, charged>>
           /\ \/ UNCHANGED <<store, expires, revoked, cancelled>>
              \/ /\ Wrote(p, Result(op[p], entries[p]))
                 /\ op[p].kind = "revoke" => op[p].code \in Live(entries[p])
                 /\ \/ op[p].kind = "revoke" /\ expires' = expires
                    \/ /\ op[p].kind = "create" /\ Save(p, Result(op[p], entries[p]))
                       /\ expires' = [expires EXCEPT ![op[p].code] = now + EnrollTTL]
                 /\ \/ cancelled' = cancelled
                    \/ /\ op[p].kind = "revoke" /\ Save(p, Result(op[p], entries[p]))
                       /\ p \notin crossed /\ cancelled' = cancelled \cup {op[p].code}
<1>1. op[p] \in Op /\ op[p] # None /\ op[p].kind \in {"create", "revoke"}
    BY DEF Finish, TypeOK
<1>2. op[p].code \in Codes /\ Writes(op[p])
    BY <1>1, OpFields DEF Writes
<1>3. op[p].kind = "create" /\ SaveFails(p, op[p], Result(op[p], entries[p])) => UNCHANGED store
    BY DEF SaveFails, store, TypeOK
<1>4. QED
    BY <1>1, <1>2, <1>3 DEF Finish, Wrote

\* Redeem ends: it accepts a code that is alive and saves, or refuses.
LEMMA RedeemForms ==
    ASSUME TypeOK, NEW a \in Conns, Redeems(a) \/ Refuses(a)
    PROVE  /\ Hub \in Procs /\ op[Hub] \in Op /\ op[Hub] # None /\ op[Hub].kind = "redeem"
           /\ Wrote(Hub, Result(op[Hub], entries[Hub]))
           /\ UNCHANGED <<expires, cancelled, revoked>>
           /\ Redeems(a) =>
                 /\ op[Hub].code \in Live(entries[Hub]) /\ Save(Hub, Result(op[Hub], entries[Hub]))
                 /\ charged' = charged
                 /\ spent' = IF Hub \in crossed THEN spent ELSE spent \cup {op[Hub].code}
           /\ Refuses(a) =>
                 /\ UNCHANGED <<accepted, spent>>
                 /\ \/ charged' = charged
                    \/ /\ Charges /\ Save(Hub, Result(op[Hub], entries[Hub]))
                       /\ op[Hub].code \notin Live(entries[Hub])
<1>1. Hub \in Procs /\ op[Hub] \in Op /\ op[Hub] # None /\ op[Hub].kind = "redeem"
    BY DEF Redeems, Refuses, TypeOK, Procs
<1>2. Wrote(Hub, Result(op[Hub], entries[Hub]))
    BY <1>1 DEF Redeems, Accepts, Refuses, Wrote, Writes
<1>3. UNCHANGED <<expires, cancelled, revoked>>
    BY DEF Redeems, Accepts, Refuses
<1>4. QED
    BY <1>1, <1>2, <1>3 DEF Redeems, Accepts, Refuses

\* What an operation of a process writes has no code that the process did not
\* have, but for the one it creates.
LEMMA ResultHas ==
    ASSUME TypeOK, NEW p \in Procs, Writes(op[p]), NEW c \in Codes, entries[p][c] = None,
           op[p].kind = "create" => op[p].code # c
    PROVE  Result(op[p], entries[p])[c] = None
BY ResultType DEF TypeOK, Writes

\* Stopping leaves the codes alone, and ends an operation.
LEMMA StopForms ==
    ASSUME TypeOK, NEW p \in Procs, Stop(p)
    PROVE  /\ UNCHANGED <<file, mtime, entries, loaded, issued, expires, accepted, revoked, spent,
                          cancelled, charged>>
           /\ op' = [op EXCEPT ![p] = None] /\ crossed' = crossed \ {p}
           /\ \A q \in Procs : op'[q] # None => op'[q] = op[q]
           /\ \A q \in Procs : Reach(q)' => Reach(q)
BY DEF Stop, store, hist, TypeOK, Reach, Current, Writes

-----------------------------------------------------------------------------
(* The store's invariants.                                                 *)

\* Codes are nowhere before they are made.
LEMMA IssuedStep == TypeOK /\ IssuedInv /\ WriterInv /\ [Next]_vars => IssuedInv'
<1> SUFFICES ASSUME TypeOK, IssuedInv, WriterInv, [Next]_vars PROVE IssuedInv'
    OBVIOUS
<1> DEFINE Creates(o, c) == o # None /\ o.kind = "create" /\ o.code = c
\* A process reads, and begins nothing or a creation of its own.
<1>r. ASSUME NEW p \in Procs, Reads(p), issued \subseteq issued',
             \/ issued' = issued /\ (op'[p] = op[p] \/ op'[p].kind # "create")
             \/ \E c \in Codes : c \notin issued /\ issued' = issued \cup {c} /\ op'[p].code = c
      PROVE  IssuedInv'
  <2>1. \A q \in Procs : loaded'[q] <= mtime'
      BY <1>r DEF Reads, IssuedInv, TypeOK
  <2>2. \A c \in Codes : ~Made(c)' => ~Made(c)
      BY <1>r DEF Made, Reads
  <2>3. \A c \in Codes : ~Made(c) => file'[c] = None /\ \A q \in Procs : entries'[q][c] = None
      BY <1>r DEF Reads, IssuedInv
  <2>4. \A q \in Procs : op'[q] # None /\ op'[q].kind = "create" =>
            /\ op'[q].code \in issued'
            /\ \A r \in Procs : op'[r] # None /\ op'[r].kind = "create" /\ op'[r].code = op'[q].code
                  => r = q
      BY <1>r DEF Reads, IssuedInv
  <2>5. UNCHANGED <<charged, spent, cancelled>>
      BY <1>r DEF Reads
  <2>6. QED
      BY <2>1, <2>2, <2>3, <2>4, <2>5 DEF IssuedInv
\* Operations that end.
<1>e. ASSUME issued' = issued, \A q \in Procs : op'[q] # None => op'[q] = op[q]
      PROVE  /\ \A c \in Codes : ~Made(c)' => ~Made(c)
             /\ \A q \in Procs : op'[q] # None /\ op'[q].kind = "create" =>
                  /\ op'[q].code \in issued'
                  /\ \A r \in Procs : op'[r] # None /\ op'[r].kind = "create" /\ op'[r].code = op'[q].code
                        => r = q
    BY <1>e DEF Made, IssuedInv
<1>w. ASSUME NEW p \in Procs, Wrote(p, Result(op[p], entries[p])),
             \A c \in Codes : ~Made(c)' => charged'[c] = 0 /\ c \notin spent' /\ c \notin cancelled'
      PROVE  IssuedInv'
  <2> DEFINE m == Result(op[p], entries[p])
  <2>1. \A q \in Procs : op'[q] # None => op'[q] = op[q] /\ q # p
      BY <1>w DEF Wrote, TypeOK
  <2>2. issued' = issued /\ op[p] # None
      BY <1>w DEF Wrote, Writes
  <2>3. ASSUME NEW c \in Codes, ~Made(c)' PROVE m[c] = None
    <3>1. ~Made(c)
        BY <1>e, <2>1, <2>2, <2>3
    <3>2. op[p].kind = "create" => op[p].code # c
        BY <2>1, <2>2, <2>3 DEF Made, IssuedInv
    <3>3. QED
        BY <1>w, <3>1, <3>2, ResultHas DEF IssuedInv, Wrote
  <2>4. ASSUME NEW c \in Codes, ~Made(c)'
        PROVE  file'[c] = None /\ \A q \in Procs : entries'[q][c] = None
    <3>1. ~Made(c)
        BY <1>e, <2>1, <2>2, <2>4
    <3>2. file[c] = None /\ \A q \in Procs : entries[q][c] = None
        BY <3>1 DEF IssuedInv
    <3>3. QED
        BY <1>w, <2>3, <2>4, <3>2, WroteForms
  <2>5. \A q \in Procs : loaded'[q] <= mtime'
      BY <1>w, WroteForms
  <2>6. QED
      BY <1>w, <1>e, <2>1, <2>2, <2>4, <2>5 DEF IssuedInv
<1>1. ASSUME NEW p \in Procs, Open(p) \/ Pending(p) PROVE IssuedInv'
    BY <1>1, <1>r, ReadingSteps DEF Open, Pending
<1>2. ASSUME NEW p \in Procs, NEW c \in Codes, NEW k \in Keys, BeginCreate(p, c, k) PROVE IssuedInv'
  <2>1. Begin(p, [kind |-> "create", code |-> c, key |-> k]) /\ issued' = issued \cup {c}
        /\ c \notin issued
      BY <1>2 DEF BeginCreate
  <2>2. op'[p].code = c
      BY <2>1 DEF Begin, TypeOK
  <2>3. Reads(p)
      BY <2>1, ReadingSteps
  <2>4. QED
      BY <2>1, <2>2, <2>3, <1>r
<1>3. ASSUME NEW p \in Procs, NEW c \in Codes, BeginRevoke(p, c) PROVE IssuedInv'
  <2>1. Begin(p, [kind |-> "revoke", code |-> c]) /\ issued' = issued
      BY <1>3 DEF BeginRevoke
  <2>2. op'[p].kind = "revoke"
      BY <2>1 DEF Begin, TypeOK
  <2>3. QED
      BY <2>1, <2>2, <1>r, ReadingSteps
<1>4. ASSUME NEW a \in Conns, BeginRedeem(a) PROVE IssuedInv'
  <2>1. Begin(Hub, [kind |-> "redeem", code |-> card[a], conn |-> a]) /\ issued' = issued
      BY <1>4 DEF BeginRedeem
  <2>2. Hub \in Procs /\ op'[Hub].kind = "redeem"
      BY <2>1 DEF Begin, TypeOK, Procs
  <2>3. QED
      BY <2>1, <2>2, <1>r, ReadingSteps
<1>5. ASSUME NEW p \in Procs, Finish(p) PROVE IssuedInv'
  <2>1. \A q \in Procs : op'[q] # None => op'[q] = op[q] /\ q # p
      BY <1>5, FinishForms DEF TypeOK
  <2>2. issued' = issued
      BY <1>5, FinishForms
  <2>3. CASE UNCHANGED <<store, expires, revoked, cancelled>>
    <3>1. UNCHANGED <<file, mtime, entries, loaded, charged, spent, cancelled>>
        BY <1>5, <2>3, FinishForms DEF store
    <3>2. QED
        BY <1>e, <2>1, <2>2, <3>1 DEF IssuedInv
  <2>4. CASE Wrote(p, Result(op[p], entries[p]))
    <3>1. ASSUME NEW c \in Codes, ~Made(c)'
          PROVE  charged'[c] = 0 /\ c \notin spent' /\ c \notin cancelled'
      <4>1. ~Made(c)
          BY <1>e, <2>1, <2>2, <3>1
      <4>2. charged[c] = 0 /\ c \notin spent /\ c \notin cancelled /\ entries[p][c] = None
          BY <4>1 DEF IssuedInv
      <4>3. UNCHANGED <<charged, spent>>
          BY <1>5, FinishForms
      <4>4. c \in cancelled' => c \in cancelled \/ c \in Live(entries[p])
          BY <1>5, FinishForms
      <4>5. QED
          BY <4>2, <4>3, <4>4 DEF Live
    <3>2. QED
        BY <2>4, <3>1, <1>w
  <2>5. QED
      BY <1>5, <2>3, <2>4, FinishForms
<1>6. ASSUME NEW a \in Conns, Redeems(a) \/ Refuses(a) PROVE IssuedInv'
  <2>1. /\ Hub \in Procs /\ op[Hub] # None /\ op[Hub].kind = "redeem"
        /\ Wrote(Hub, Result(op[Hub], entries[Hub]))
      BY <1>6, RedeemForms
  <2>2. \A q \in Procs : op'[q] # None => op'[q] = op[q] /\ q # Hub
      BY <2>1 DEF Wrote, TypeOK
  <2>3. issued' = issued
      BY <2>1 DEF Wrote
  <2>4. ASSUME NEW c \in Codes, ~Made(c)'
        PROVE  charged'[c] = 0 /\ c \notin spent' /\ c \notin cancelled'
    <3>1. ~Made(c)
        BY <1>e, <2>2, <2>3, <2>4
    <3>2. charged[c] = 0 /\ c \notin spent /\ c \notin cancelled /\ entries[Hub][c] = None
        BY <2>1, <3>1 DEF IssuedInv
    \* A code that is being created is created by a process that crosses this one.
    <3>3. c \in issued => Hub \in crossed
      <4>1. ASSUME NEW q \in Procs, Creates(op[q], c) PROVE Hub \in crossed
        <5>1. q \in Writers /\ Hub \in Writers /\ q # Hub
            BY <2>1, <4>1 DEF Writers, Writes, Wrote
        <5>2. QED
            BY <5>1 DEF WriterInv
      <4>2. QED
          BY <3>1, <4>1 DEF Made
    <3>4. charged'[c] = 0
        BY <1>6, <3>2, <3>3, RedeemForms DEF Charges
    <3>5. c \notin spent'
        BY <1>6, <3>2, RedeemForms DEF Live
    <3>6. QED
        BY <1>6, <3>2, <3>4, <3>5, RedeemForms
  <2>5. QED
      BY <2>1, <2>4, <1>w
<1>7. ASSUME NEW p \in Procs, Stop(p) PROVE IssuedInv'
  <2>1. /\ \A c \in Codes : ~Made(c)' => ~Made(c)
        /\ UNCHANGED <<file, mtime, entries, loaded, charged, spent, cancelled>>
      BY <1>7, <1>e, StopForms
  <2>2. QED
      BY <1>7, <1>e, <2>1, StopForms DEF IssuedInv
<1>8. CASE Elsewhere
    BY <1>8, ElsewhereUnchanged DEF IssuedInv, Made
<1>9. QED
    BY <1>1, <1>2, <1>3, <1>4, <1>5, <1>6, <1>7, <1>8 DEF Next, Elsewhere

\* Writers that overlap are crossed, and one alone is up to date.
LEMMA WriterStep == TypeOK /\ IssuedInv /\ WriterInv /\ [Next]_vars => WriterInv'
<1> SUFFICES ASSUME TypeOK, IssuedInv, WriterInv, [Next]_vars PROVE WriterInv'
    OBVIOUS
<1>h. Hub \in Procs
    BY DEF Procs
<1>b. ASSUME NEW p \in Procs, NEW o, Begin(p, o) PROVE WriterInv'
  <2>1. Reads(p) /\ op' = [op EXCEPT ![p] = o] /\ ~Writes(op[p])
      BY <1>b, ReadingSteps DEF Begin, Writes
  <2>2. \A q \in Procs : Current(q)' <=> Current(q) \/ q = p
      BY <2>1 DEF Reads, Current, TypeOK
  <2>3. CASE Writes(o)
    <3>1. Writers' = Writers \cup {p} /\ p \notin Writers
        BY <2>1, <2>3 DEF Writers, TypeOK
    <3>2. CASE Writers = {}
      <4>1. crossed' = {} /\ Writers' = {p}
          BY <1>b, <3>1, <3>2 DEF Begin, WriterInv
      <4>2. QED
          BY <2>2, <4>1 DEF WriterInv
    <3>3. CASE Writers # {}
      <4>1. crossed' = Writers'
          BY <1>b, <2>3, <3>1, <3>3 DEF Begin
      <4>2. QED
          BY <4>1 DEF WriterInv
    <3>4. QED
        BY <3>2, <3>3
  <2>4. CASE ~Writes(o)
    <3>1. Writers' = Writers /\ crossed' = crossed
        BY <1>b, <2>1, <2>4 DEF Begin, Writers, TypeOK
    <3>2. QED
        BY <2>2, <3>1 DEF WriterInv, Writers
  <2>5. QED
      BY <2>3, <2>4
\* An operation ends, or is lost.
<1>e. ASSUME NEW p \in Procs, op' = [op EXCEPT ![p] = None], crossed' = crossed \ {p},
             (mtime' = mtime /\ loaded' = loaded) \/ p \in Writers
      PROVE  WriterInv'
  <2>1. Writers' = Writers \ {p}
      BY <1>e DEF Writers, Writes, TypeOK
  <2>2. CASE mtime' = mtime /\ loaded' = loaded
      BY <1>e, <2>1, <2>2 DEF WriterInv, Current
  <2>3. CASE p \in Writers
      BY <1>e, <2>1, <2>3 DEF WriterInv
  <2>4. QED
      BY <1>e, <2>2, <2>3
<1>1. ASSUME NEW p \in Procs, Open(p) \/ Pending(p) PROVE WriterInv'
  <2>1. Reads(p) /\ UNCHANGED <<op, crossed>>
      BY <1>1, ReadingSteps DEF Open, Pending
  <2>2. Writers' = Writers /\ \A q \in Procs : Current(q) => Current(q)'
      BY <2>1 DEF Reads, Writers, Current, TypeOK
  <2>3. QED
      BY <2>1, <2>2 DEF WriterInv, Writers
<1>2. ASSUME NEW p \in Procs, NEW c \in Codes, BeginRevoke(p, c) \/ \E k \in Keys : BeginCreate(p, c, k)
      PROVE  WriterInv'
    BY <1>2, <1>b DEF BeginRevoke, BeginCreate
<1>3. ASSUME NEW a \in Conns, BeginRedeem(a) PROVE WriterInv'
    BY <1>h, <1>3, <1>b DEF BeginRedeem
<1>4. ASSUME NEW p \in Procs, Finish(p) PROVE WriterInv'
    BY <1>4, <1>e, FinishForms DEF Writers
<1>5. ASSUME NEW a \in Conns, Redeems(a) \/ Refuses(a) PROVE WriterInv'
    BY <1>5, <1>e, RedeemForms DEF Writers, Wrote
<1>6. ASSUME NEW p \in Procs, Stop(p) PROVE WriterInv'
    BY <1>6, <1>e, StopForms
<1>7. CASE Elsewhere
    BY <1>7, ElsewhereUnchanged DEF WriterInv, Writers, Current
<1>8. QED
    BY <1>1, <1>2, <1>3, <1>4, <1>5, <1>6, <1>7 DEF Next, Elsewhere

\* What is spent or cancelled is gone for good.
LEMMA GoneStep ==
    TypeOK /\ IssuedInv /\ WriterInv /\ GoneInv /\ [Next]_vars => GoneInv'
<1> SUFFICES ASSUME TypeOK, IssuedInv, WriterInv, GoneInv, [Next]_vars PROVE GoneInv'
    OBVIOUS
<1>t. spent \cup cancelled \subseteq Codes
    BY DEF TypeOK
<1>r. ASSUME NEW p \in Procs, Reads(p) PROVE GoneInv'
  <2>1. ASSUME NEW c \in spent \cup cancelled
        PROVE  file'[c] = None /\ \A q \in Procs : Reach(q)' => entries'[q][c] = None
    <3>1. entries'[p][c] = None
        BY <1>r, <1>t, <2>1 DEF GoneInv, Reads, Reach
    <3>2. QED
        BY <1>r, <2>1, <3>1, ReadForms DEF GoneInv, Reads
  <2>2. QED
      BY <1>r, <2>1 DEF GoneInv, Reads
\* What a process writes has none of the codes that are gone.
<1>g. ASSUME NEW p \in Procs, Wrote(p, Result(op[p], entries[p])), NEW c \in spent \cup cancelled
      PROVE  Result(op[p], entries[p])[c] = None
  <2>1. entries[p][c] = None /\ Made(c) /\ op[p] # None
      BY <1>g, <1>t DEF GoneInv, Reach, Wrote, Writes, IssuedInv
  <2>2. QED
      BY <1>g, <1>t, <2>1, ResultHas DEF Made, Wrote
<1>w. ASSUME NEW p \in Procs, Wrote(p, Result(op[p], entries[p])),
             NEW c, c \in spent \cup cancelled \/
                    (c \in Codes /\ p \notin crossed /\ Save(p, Result(op[p], entries[p]))
                       /\ Result(op[p], entries[p])[c] = None)
      PROVE  file'[c] = None /\ \A q \in Procs : Reach(q)' => entries'[q][c] = None
  <2>1. CASE c \in spent \cup cancelled
    <3>1. Result(op[p], entries[p])[c] = None
        BY <1>g, <1>w, <2>1
    <3>2. file[c] = None /\ entries[p][c] = None /\ \A q \in Procs : Reach(q) => entries[q][c] = None
        BY <1>w, <2>1 DEF GoneInv, Reach, Wrote
    <3>3. QED
        BY <1>w, <3>1, <3>2, WroteForms
  <2>2. CASE p \notin crossed /\ Save(p, Result(op[p], entries[p])) /\ Result(op[p], entries[p])[c] = None
      BY <1>w, <2>2, WroteForms
  <2>3. QED
      BY <1>w, <2>1, <2>2
<1>1. ASSUME NEW p \in Procs, Open(p) \/ Pending(p) \/ \E o : Begin(p, o) PROVE GoneInv'
    BY <1>1, <1>r, ReadingSteps
<1>2. ASSUME NEW p \in Procs, NEW c \in Codes, BeginRevoke(p, c) \/ \E k \in Keys : BeginCreate(p, c, k)
      PROVE  GoneInv'
    BY <1>2, <1>1 DEF BeginCreate, BeginRevoke
<1>3. ASSUME NEW a \in Conns, BeginRedeem(a) PROVE GoneInv'
    BY <1>3, <1>1 DEF BeginRedeem, Procs
<1>4. ASSUME NEW p \in Procs, Finish(p) PROVE GoneInv'
  <2> DEFINE o == op[p]
             m == Result(o, entries[p])
  <2>1. CASE UNCHANGED <<store, expires, revoked, cancelled>>
    <3>1. UNCHANGED <<file, mtime, entries, loaded, spent, cancelled>> /\ op' = [op EXCEPT ![p] = None]
        BY <1>4, <2>1, FinishForms DEF store
    <3>2. \A q \in Procs : Reach(q)' => Reach(q)
        BY <3>1 DEF Reach, Current, Writes, TypeOK
    <3>3. QED
        BY <3>1, <3>2 DEF GoneInv
  <2>2. CASE Wrote(p, m)
    <3>1. o.kind = "revoke" => m[o.code] = None
      <4>1. entries[p] \in Store /\ o.code \in Codes
          BY <1>4, FinishForms DEF TypeOK
      <4>2. QED
          BY <4>1 DEF Result, Store
    <3>2. ASSUME NEW c \in spent' \cup cancelled'
          PROVE  c \in spent \cup cancelled \/ (c \in Codes /\ p \notin crossed /\ Save(p, m) /\ m[c] = None)
      <4>1. CASE UNCHANGED <<cancelled, spent>>
          BY <3>2, <4>1
      <4>2. CASE ~UNCHANGED <<cancelled, spent>>
        <5>1. /\ o.kind = "revoke" /\ Save(p, m) /\ p \notin crossed
              /\ cancelled' = cancelled \cup {o.code} /\ spent' = spent /\ o.code \in Codes
            BY <1>4, <4>2, FinishForms
        <5>2. QED
            BY <3>1, <3>2, <5>1
      <4>3. QED
          BY <4>1, <4>2
    <3>3. \A c \in spent' \cup cancelled' :
              file'[c] = None /\ \A q \in Procs : Reach(q)' => entries'[q][c] = None
        BY <2>2, <3>2, <1>w
    <3>4. QED
        BY <3>3 DEF GoneInv
  <2>3. QED
      BY <1>4, <2>1, <2>2, FinishForms
<1>5. ASSUME NEW a \in Conns, Redeems(a) \/ Refuses(a) PROVE GoneInv'
  <2> DEFINE o == op[Hub]
             m == Result(o, entries[Hub])
  <2>1. Hub \in Procs /\ o \in Op /\ o.kind = "redeem" /\ Wrote(Hub, m)
      BY <1>5, RedeemForms
  <2>2. ASSUME NEW c \in spent' \cup cancelled'
        PROVE  c \in spent \cup cancelled \/ (c \in Codes /\ Hub \notin crossed /\ Save(Hub, m) /\ m[c] = None)
    <3>1. CASE c \in spent \cup cancelled
        BY <3>1
    <3>2. CASE c \notin spent \cup cancelled
      <4>1. Redeems(a)
          BY <1>5, <2>2, <3>2, RedeemForms
      <4>2. Hub \notin crossed /\ c = o.code /\ Save(Hub, m) /\ c \in Live(entries[Hub])
          BY <2>2, <3>2, <4>1, RedeemForms
      <4>3. m = [entries[Hub] EXCEPT ![o.code] = None] /\ entries[Hub] \in Store /\ c \in Codes
          BY <2>1, <4>2 DEF Result, Live, TypeOK
      <4>4. QED
          BY <4>2, <4>3 DEF Store
    <3>3. QED
        BY <3>1, <3>2
  <2>3. \A c \in spent' \cup cancelled' :
            file'[c] = None /\ \A q \in Procs : Reach(q)' => entries'[q][c] = None
      BY <2>1, <2>2, <1>w
  <2>4. QED
      BY <2>3 DEF GoneInv
<1>6. ASSUME NEW p \in Procs, Stop(p) PROVE GoneInv'
    BY <1>6, StopForms DEF GoneInv
<1>7. CASE Elsewhere
    BY <1>7, ElsewhereUnchanged DEF GoneInv, Reach, Current
<1>8. QED
    BY <1>1, <1>2, <1>3, <1>4, <1>5, <1>6, <1>7 DEF Next, Elsewhere

\* Entries keep the time their code expires and every guess charged.
LEMMA CountStep ==
    TypeOK /\ IssuedInv /\ WriterInv /\ CountInv /\ [Next]_vars => CountInv'
<1> SUFFICES ASSUME TypeOK, IssuedInv, WriterInv, CountInv, [Next]_vars PROVE CountInv'
    OBVIOUS
<1>r. ASSUME NEW p \in Procs, Reads(p) PROVE CountInv'
  <2>1. ASSUME NEW c \in Codes
        PROVE  /\ Honest(file[c], expires[c], charged[c])
               /\ \A q \in Procs : Reach(q)' => Honest(entries'[q][c], expires[c], charged[c])
    <3>1. Honest(entries'[p][c], expires[c], charged[c])
        BY <1>r, <2>1 DEF CountInv, Reads, Reach, Honest
    <3>2. QED
        BY <1>r, <2>1, <3>1, ReadForms DEF CountInv
  <2>2. QED
      BY <1>r, <2>1 DEF CountInv, Reads
\* What is written is honest, and so are the copies the others may still use.
<1>w. ASSUME NEW p \in Procs, NEW m, Wrote(p, m), NEW c \in Codes,
             Honest(m[c], expires'[c], charged'[c]),
             \/ expires'[c] = expires[c] /\ charged'[c] = charged[c]
             \/ file[c] = None /\ \A q \in Procs : entries[q][c] = None
             \/ p \notin crossed /\ Save(p, m)
      PROVE  /\ Honest(file'[c], expires'[c], charged'[c])
             /\ \A q \in Procs : Reach(q)' => Honest(entries'[q][c], expires'[c], charged'[c])
  <2>1. CASE p \notin crossed /\ Save(p, m)
      BY <1>w, <2>1, WroteForms
  <2>2. CASE ~(p \notin crossed /\ Save(p, m))
    <3>1. /\ Honest(file[c], expires'[c], charged'[c])
          /\ \A q \in Procs : Reach(q) => Honest(entries[q][c], expires'[c], charged'[c])
        BY <1>w, <2>2 DEF CountInv, Honest
    <3>2. Reach(p)
        BY <1>w DEF Reach, Wrote
    <3>3. QED
        BY <1>w, <3>1, <3>2, WroteForms
  <2>3. QED
      BY <2>1, <2>2
<1>1. ASSUME NEW p \in Procs, Open(p) \/ Pending(p) \/ \E o : Begin(p, o) PROVE CountInv'
    BY <1>1, <1>r, ReadingSteps
<1>2. ASSUME NEW p \in Procs, NEW c \in Codes, BeginRevoke(p, c) \/ \E k \in Keys : BeginCreate(p, c, k)
      PROVE  CountInv'
    BY <1>2, <1>1 DEF BeginRevoke, BeginCreate
<1>3. ASSUME NEW a \in Conns, BeginRedeem(a) PROVE CountInv'
    BY <1>3, <1>1 DEF BeginRedeem, Procs
<1>4. ASSUME NEW p \in Procs, Finish(p) PROVE CountInv'
  <2> DEFINE o == op[p]
             m == Result(o, entries[p])
  <2>1. /\ o \in Op /\ o # None /\ o.kind \in {"create", "revoke"} /\ o.code \in Codes /\ Writes(o)
        /\ charged' = charged /\ op' = [op EXCEPT ![p] = None] /\ entries[p] \in Store
      BY <1>4, FinishForms DEF TypeOK
  <2>2. \A c \in Codes : Honest(entries[p][c], expires[c], charged[c])
      BY <2>1 DEF CountInv, Reach
  <2>3. CASE UNCHANGED <<store, expires, revoked, cancelled>>
    <3>1. UNCHANGED <<file, mtime, entries, loaded, expires, charged>>
        BY <2>1, <2>3 DEF store
    <3>2. \A q \in Procs : Reach(q)' => Reach(q)
        BY <2>1, <3>1 DEF Reach, Current, Writes, TypeOK
    <3>3. QED
        BY <3>1, <3>2 DEF CountInv, Honest
  <2>4. CASE Wrote(p, m) /\ ~UNCHANGED <<store, expires, revoked, cancelled>>
    <3>1. ASSUME NEW c \in Codes
          PROVE  /\ Honest(m[c], expires'[c], charged'[c])
                 /\ \/ expires'[c] = expires[c] /\ charged'[c] = charged[c]
                    \/ file[c] = None /\ \A q \in Procs : entries[q][c] = None
      <4>1. CASE o.kind = "revoke"
        <5>1. expires' = expires
            BY <1>4, <4>1, FinishForms
        <5>2. m[c] \in {None, entries[p][c]}
            BY <2>1, <4>1 DEF Result, Store
        <5>3. QED
            BY <2>1, <2>2, <5>1, <5>2 DEF Honest
      <4>2. CASE o.kind = "create"
        <5>1. m = [entries[p] EXCEPT ![o.code] = [key |-> o.key, expires |-> now + EnrollTTL,
                                                  attempts |-> 0]]
            BY <4>2 DEF Result
        <5>2. CASE c # o.code
          <6>1. m[c] = entries[p][c] /\ expires'[c] = expires[c]
              BY <1>4, <2>1, <5>1, <5>2, FinishForms DEF TypeOK, Store
          <6>2. QED
              BY <2>1, <2>2, <6>1
        <5>3. CASE c = o.code
          <6>1. ~Made(c)
              BY <2>1, <4>2, <5>3 DEF Made
          <6>2. charged[c] = 0 /\ file[c] = None /\ \A q \in Procs : entries[q][c] = None
              BY <6>1 DEF IssuedInv
          <6>3. m[c].expires = now + EnrollTTL /\ m[c].attempts = 0
              BY <2>1, <5>1, <5>3 DEF Store
          <6>4. expires'[c] = now + EnrollTTL
              BY <1>4, <2>4, <4>2, <5>3, FinishForms DEF TypeOK
          <6>5. QED
              BY <2>1, <6>2, <6>3, <6>4 DEF Honest
        <5>4. QED
            BY <5>2, <5>3
      <4>3. QED
          BY <2>1, <4>1, <4>2
    <3>2. QED
        BY <2>4, <3>1, <1>w DEF CountInv
  <2>5. QED
      BY <1>4, <2>3, <2>4, FinishForms
<1>5. ASSUME NEW a \in Conns, Redeems(a) \/ Refuses(a) PROVE CountInv'
  <2> DEFINE o == op[Hub]
             m == Result(o, entries[Hub])
  <2>1. /\ Hub \in Procs /\ o \in Op /\ o # None /\ o.kind = "redeem" /\ Wrote(Hub, m)
        /\ entries[Hub] \in Store /\ expires' = expires
      BY <1>5, RedeemForms DEF TypeOK
  <2>2. \A c \in Codes : Honest(entries[Hub][c], expires[c], charged[c])
      BY <2>1 DEF CountInv, Reach, Wrote
  <2>3. ASSUME NEW c \in Codes
        PROVE  /\ Honest(m[c], expires'[c], charged'[c])
               /\ charged'[c] = charged[c] \/ (Hub \notin crossed /\ Save(Hub, m))
    <3>1. CASE o.code \in Live(entries[Hub])
      <4>1. m = [entries[Hub] EXCEPT ![o.code] = None] /\ charged' = charged
          BY <1>5, <2>1, <3>1, RedeemForms DEF Result, Live
      <4>2. m[c] \in {None, entries[Hub][c]}
          BY <2>1, <4>1 DEF Store
      <4>3. QED
          BY <2>1, <2>2, <4>1, <4>2 DEF Honest
    <3>2. CASE o.code \notin Live(entries[Hub])
      <4>1. m = Pruned(Charged(entries[Hub])) /\ Charged(entries[Hub]) \in Store
          BY <2>1, <3>2, ChargedType DEF Result
      <4>2. m[c] \in {None, Charged(entries[Hub])[c]}
          BY <4>1, PrunedType
      <4>3. /\ charged'[c] \in {charged[c], charged[c] + 1} /\ charged[c] \in Nat
            /\ charged'[c] = charged[c] \/ (Hub \notin crossed /\ Save(Hub, m))
          BY <1>5, <3>2, RedeemForms DEF Charges, TypeOK
      <4>4. ASSUME m[c] # None PROVE m[c].expires = expires[c] /\ m[c].attempts >= charged'[c]
        <5>1. entries[Hub][c] # None /\ m[c] = [entries[Hub][c] EXCEPT !.attempts = @ + 1]
            BY <2>1, <4>2, <4>4, ChargedType
        <5>2. entries[Hub][c] \in EnrollEntry /\ entries[Hub][c].attempts \in Nat
            BY <2>1, <5>1, StoreEntry
        <5>3. m[c].expires = entries[Hub][c].expires /\ m[c].attempts = entries[Hub][c].attempts + 1
            BY <5>1, <5>2 DEF EnrollEntry
        <5>4. entries[Hub][c].expires = expires[c] /\ entries[Hub][c].attempts >= charged[c]
            BY <2>2, <5>1 DEF Honest
        <5>5. QED
            BY <4>3, <5>2, <5>3, <5>4
      <4>5. QED
          BY <2>1, <4>3, <4>4 DEF Honest
    <3>3. QED
        BY <3>1, <3>2
  <2>4. QED
      BY <2>1, <2>3, <1>w DEF CountInv
<1>6. ASSUME NEW p \in Procs, Stop(p) PROVE CountInv'
    BY <1>6, StopForms DEF CountInv, Honest
<1>7. CASE Elsewhere
    BY <1>7, ElsewhereUnchanged DEF CountInv, Reach, Current, Honest
<1>8. QED
    BY <1>1, <1>2, <1>3, <1>4, <1>5, <1>6, <1>7 DEF Next, Elsewhere

-----------------------------------------------------------------------------
(* The tokens.                                                             *)

\* Steps that leave the roster and every attempt that has a token alone.
TokensAlone ==
    /\ UNCHANGED <<roster, tokens, touched, excused>>
    /\ \A a \in Conns : a \in Holders' <=> a \in Holders
    /\ \A a \in Holders : conn'[a] = conn[a] /\ grant'[a] = grant[a]

\* Operations on codes leave tokens and roster alone.
LEMMA TokensAloneSteps ==
    ASSUME TypeOK, RedeemInv
    PROVE  /\ \A p \in Procs : Open(p) \/ Pending(p) \/ Finish(p) => TokensAlone
           /\ \A p \in Procs, c \in Codes, k \in Keys : BeginCreate(p, c, k) => TokensAlone
           /\ \A p \in Procs, c \in Codes : BeginRevoke(p, c) => TokensAlone
           /\ \A p \in Procs \ {Hub} : Stop(p) => TokensAlone
           /\ \A a \in Conns : BeginRedeem(a) \/ Redeems(a) \/ Refuses(a) => TokensAlone
           /\ \A a \in Conns, c \in Codes \cup {Wrong} : Present(a, c) => TokensAlone
           /\ \A a \in Conns : Mismatch(a) => TokensAlone
           /\ Tick \/ UNCHANGED vars => TokensAlone
<1>1. ASSUME UNCHANGED <<roster, tokens, touched, excused, conn, grant>> PROVE TokensAlone
    BY <1>1 DEF TokensAlone, Holders
<1>2. ASSUME NEW a \in Conns, UNCHANGED <<roster, tokens, touched, excused>>,
             a \notin Holders, a \notin Holders',
             \A b \in Conns \ {a} : conn'[b] = conn[b] /\ grant'[b] = grant[b]
      PROVE  TokensAlone
    BY <1>2 DEF TokensAlone, Holders
<1>3. \A p \in Procs : Open(p) \/ Pending(p) \/ Finish(p) => TokensAlone
    BY <1>1 DEF Open, Pending, Finish
<1>4. \A p \in Procs, c \in Codes, k \in Keys : BeginCreate(p, c, k) => TokensAlone
    BY <1>1 DEF BeginCreate, Begin
<1>5. \A p \in Procs, c \in Codes : BeginRevoke(p, c) => TokensAlone
    BY <1>1 DEF BeginRevoke, Begin
<1>6. \A p \in Procs \ {Hub} : Stop(p) => TokensAlone
    BY <1>1 DEF Stop
<1>7. ASSUME NEW a \in Conns, BeginRedeem(a) \/ Redeems(a) \/ Refuses(a) PROVE TokensAlone
  <2>1. conn[a] \in {"sent", "redeeming"}
    <3>1. CASE BeginRedeem(a)
        BY <3>1 DEF BeginRedeem
    <3>2. CASE ~BeginRedeem(a)
        BY <1>7, <3>2 DEF Redeems, Refuses, RedeemInv, Procs
    <3>3. QED
        BY <3>1, <3>2
  <2>2. conn'[a] \in {"redeeming", "adding", "refused"}
      BY <1>7 DEF BeginRedeem, Redeems, Refuses, Close, TypeOK
  <2>3. \A b \in Conns \ {a} : conn'[b] = conn[b] /\ grant'[b] = grant[b]
      BY <1>7 DEF BeginRedeem, Begin, Redeems, Refuses, Close, TypeOK
  <2>4. UNCHANGED <<roster, tokens, touched, excused>>
      BY <1>7 DEF BeginRedeem, Begin, Redeems, Refuses
  <2>5. QED
      BY <2>1, <2>2, <2>3, <2>4, <1>2 DEF Holders
<1>8. ASSUME NEW a \in Conns, NEW c \in Codes \cup {Wrong}, Present(a, c) PROVE TokensAlone
  <2>1. a \notin Holders /\ a \notin Holders'
      BY <1>8 DEF Present, Holders, TypeOK
  <2>2. QED
      BY <1>8, <2>1, <1>2 DEF Present, AgentRest, TypeOK
<1>9. ASSUME NEW a \in Conns, Mismatch(a) PROVE TokensAlone
  <2>1. a \notin Holders /\ a \notin Holders'
      BY <1>9 DEF Mismatch, Close, Holders, TypeOK
  <2>2. QED
      BY <1>9, <2>1, <1>2 DEF Mismatch, Close, AgentRest, TypeOK
<1>10. Tick \/ UNCHANGED vars => TokensAlone
    BY <1>1 DEF Tick, vars
<1>11. QED
    BY <1>3, <1>4, <1>5, <1>6, <1>7, <1>8, <1>9, <1>10

\* The steps that touch tokens.
LEMMA TokenSteps ==
    TypeOK /\ RedeemInv /\ [Next]_vars =>
        \/ TokensAlone
        \/ Stop(Hub)
        \/ \E a \in Conns : Add(a) \/ Reply(a) \/ Rollback(a) \/ AgentReads(a)
        \/ \E k \in Keys : OperatorChanges(k)
BY TokensAloneSteps DEF Next

\* The connections of a hub that stops are gone, and their tokens excused.
LEMMA StopTokens ==
    ASSUME TypeOK, Stop(Hub)
    PROVE  /\ UNCHANGED <<roster, tokens, touched>> /\ excused \subseteq excused'
           /\ \A a \in Holders' : a \in Holders /\ grant'[a] = grant[a]
           /\ \A a \in Holders : \/ a \in Holders'
                                 \/ grant[a].token = 0 \/ grant[a].token \in excused'
<1>1. Close({a \in Conns : Connected(a)}) /\ UNCHANGED <<roster, tokens, touched>>
    BY DEF Stop
<1>2. excused' = excused \cup ({grant[a].token : a \in {b \in Conns : Connected(b)}} \ {0})
    BY Zenon DEF Stop
<1>3. \A a \in Conns : Connected(a) => grant[a].token = 0 \/ grant[a].token \in excused'
    BY <1>2
<1>4. \A a \in Conns : ~Connected(a) => conn'[a] = conn[a] /\ grant'[a] = grant[a]
    BY <1>1 DEF Close
<1>5. \A a \in Conns : Connected(a) => conn'[a] = "refused"
    BY <1>1 DEF Close
<1>6. QED
    BY <1>1, <1>2, <1>3, <1>4, <1>5 DEF Holders

\* One attempt gives up its token.
LEMMA ClosedHolder ==
    ASSUME TypeOK, NEW a \in Conns, Close({a})
    PROVE  Holders' = Holders \ {a} /\ \A b \in Holders' : grant'[b] = grant[b]
BY DEF Close, Holders

\* Every holder has a token of its own, and the roster has it.
LEMMA HolderStep ==
    TypeOK /\ RedeemInv /\ HolderInv /\ [Next]_vars => HolderInv'
<1> SUFFICES ASSUME TypeOK, RedeemInv, HolderInv, [Next]_vars PROVE HolderInv'
    OBVIOUS
\* Attempts end, and the roster stays.
<1>c. ASSUME UNCHANGED <<roster, tokens, touched>>,
             \A a \in Holders' : a \in Holders /\ grant'[a] = grant[a]
      PROVE  HolderInv'
    BY <1>c DEF HolderInv
<1>1. CASE TokensAlone
    BY <1>1, <1>c DEF TokensAlone, Holders
<1>2. CASE Stop(Hub)
    BY <1>2, <1>c, StopTokens
<1>3. ASSUME NEW a \in Conns, Add(a) PROVE HolderInv'
  <2>1. CASE Close({a}) /\ UNCHANGED <<tokens, roster>>
      BY <1>3, <2>1, <1>c, ClosedHolder DEF Add
  <2>2. CASE ~(Close({a}) /\ UNCHANGED <<tokens, roster>>)
    <3> DEFINE k == grant[a].key
    <3>1. /\ conn[a] = "adding" /\ k \in Keys /\ roster[k] = 0 /\ tokens' = tokens + 1
          /\ roster' = [roster EXCEPT ![k] = tokens + 1]
          /\ grant' = [grant EXCEPT ![a].token = tokens + 1]
          /\ conn' = [conn EXCEPT ![a] = "replying"] /\ touched' = touched
        BY <1>3, <2>2 DEF Add, TypeOK
    <3>2. Holders' = Holders \cup {a} /\ a \notin Holders
        BY <3>1 DEF Holders, TypeOK
    <3>3. \A b \in Holders : grant'[b] = grant[b]
        BY <3>1, <3>2 DEF Holders, TypeOK
    <3>4. grant'[a].token = tokens + 1 /\ grant'[a].key = k
        BY <3>1 DEF TypeOK
    <3>5. \A b \in Holders : grant[b].key = k => k \in touched
        BY <3>1 DEF HolderInv, Holders, TypeOK
    <3>6. roster'[k] = tokens + 1 /\ \A j \in Keys \ {k} : roster'[j] = roster[j]
        BY <3>1 DEF TypeOK
    <3>7. \A b \in Holders : grant[b].token \in 1 .. tokens /\ grant[b].key \in Keys
        BY DEF HolderInv, Holders, TypeOK
    <3>8. \A j \in Keys : roster'[j] <= tokens'
        BY <3>1, <3>6 DEF HolderInv, TypeOK
    <3>9. \A b \in Holders' : grant'[b].token \in 1 .. tokens'
        BY <3>1, <3>2, <3>3, <3>4, <3>7 DEF TypeOK
    <3>10. \A b, c \in Holders' : grant'[b].token = grant'[c].token => b = c
      <4>1. \A b \in Holders : grant'[b].token # grant'[a].token
          BY <3>3, <3>4, <3>7 DEF TypeOK
      <4>2. QED
          BY <3>2, <3>3, <4>1 DEF HolderInv
    <3>11. \A b \in Holders' : grant'[b].key \notin touched' => roster'[grant'[b].key] = grant'[b].token
        BY <3>1, <3>2, <3>3, <3>4, <3>5, <3>6, <3>7 DEF HolderInv
    <3>12. QED
        BY <3>8, <3>9, <3>10, <3>11 DEF HolderInv
  <2>3. QED
      BY <2>1, <2>2
<1>4. ASSUME NEW a \in Conns, Reply(a) PROVE HolderInv'
  <2>1. Holders' = Holders /\ UNCHANGED <<grant, roster, tokens, touched>>
      BY <1>4 DEF Reply, AgentRest, Holders, TypeOK
  <2>2. QED
      BY <2>1, <1>c
<1>5. ASSUME NEW a \in Conns, Rollback(a) PROVE HolderInv'
  <2>1. /\ Holders' = Holders \ {a} /\ \A b \in Holders' : grant'[b] = grant[b]
        /\ UNCHANGED <<tokens, touched>> /\ a \in Holders
      BY <1>5, ClosedHolder DEF Rollback, Holders
  <2>2. CASE UNCHANGED roster
      BY <2>1, <2>2, <1>c
  <2>3. CASE roster' = [roster EXCEPT ![grant[a].key] = 0]
    <3>1. \A b \in Holders' : grant[b].key = grant[a].key => grant[b].key \in touched
        BY <2>1 DEF HolderInv
    <3>2. \A j \in Keys : roster'[j] <= tokens
        BY <2>3 DEF HolderInv, TypeOK
    <3>3. \A b \in Holders' : grant[b].key \notin touched => roster'[grant[b].key] = grant[b].token
        BY <2>1, <2>3, <3>1 DEF HolderInv, Holders, TypeOK
    <3>4. QED
        BY <2>1, <3>2, <3>3 DEF HolderInv
  <2>4. QED
      BY <1>5, <2>2, <2>3 DEF Rollback
<1>6. ASSUME NEW a \in Conns, AgentReads(a) PROVE HolderInv'
  <2>1. UNCHANGED <<roster, tokens, touched>>
      BY <1>6 DEF AgentReads, AgentRest
  <2>2. CASE Close({a})
      BY <2>1, <2>2, <1>c, ClosedHolder
  <2>3. CASE ~Close({a})
    <3>1. Holders' = Holders /\ grant' = grant
        BY <1>6, <2>3 DEF AgentReads, Holders, TypeOK
    <3>2. QED
        BY <2>1, <3>1, <1>c
  <2>4. QED
      BY <2>2, <2>3
<1>7. ASSUME NEW k \in Keys, OperatorChanges(k) PROVE HolderInv'
  <2>1. /\ UNCHANGED <<conn, grant>> /\ touched' = touched \cup {k}
        /\ tokens' \in {tokens, tokens + 1} /\ roster' \in [Keys -> Nat]
        /\ \A j \in Keys \ {k} : roster'[j] = roster[j]
        /\ roster'[k] <= tokens'
      BY <1>7 DEF OperatorChanges, TypeOK
  <2>2. Holders' = Holders
      BY <2>1 DEF Holders
  <2>3. \A j \in Keys : roster'[j] <= tokens'
      BY <2>1 DEF HolderInv, TypeOK
  <2>4. \A a \in Holders : grant[a].token \in 1 .. tokens' /\ grant[a].key \in Keys
      BY <2>1 DEF HolderInv, Holders, TypeOK
  <2>5. QED
      BY <2>1, <2>2, <2>3, <2>4 DEF HolderInv
<1>8. QED
    BY <1>1, <1>2, <1>3, <1>4, <1>5, <1>6, <1>7, TokenSteps

\* What is on the roster is accounted for.
LEMMA AccountedStep ==
    TypeOK /\ RedeemInv /\ HolderInv /\ RosterAccounted /\ [Next]_vars => RosterAccounted'
<1> SUFFICES ASSUME TypeOK, RedeemInv, HolderInv, RosterAccounted, [Next]_vars
             PROVE  RosterAccounted'
    OBVIOUS
<1> DEFINE Has(a, k) == a \in Holders /\ grant[a] = [key |-> k, token |-> roster[k]]
<1>a. \A k \in Keys : roster[k] # 0 /\ k \notin touched =>
          roster[k] \in excused \/ \E a \in Conns : Has(a, k)
    BY DEF RosterAccounted, Holders
\* Whoever answers for an entry still does, or the entry is excused.
<1>c. ASSUME excused \subseteq excused', touched \subseteq touched',
             \A k \in Keys : roster'[k] # 0 /\ k \notin touched' => roster'[k] = roster[k],
             \A a \in Holders : \/ a \in Holders' /\ grant'[a] = grant[a]
                                \/ grant[a].token = 0 \/ grant[a].token \in excused'
                                \/ roster'[grant[a].key] = 0
      PROVE  RosterAccounted'
  <2>1. SUFFICES ASSUME NEW k \in Keys, roster'[k] # 0, k \notin touched', roster'[k] \notin excused'
                 PROVE  \E a \in Conns : a \in Holders' /\ grant'[a] = [key |-> k, token |-> roster'[k]]
      BY DEF RosterAccounted, Holders
  <2>2. roster[k] = roster'[k] /\ k \notin touched /\ roster[k] \notin excused
      BY <1>c, <2>1
  <2>3. PICK a \in Conns : Has(a, k)
      BY <1>a, <2>1, <2>2
  <2>4. grant[a].key = k /\ grant[a].token = roster[k]
      BY <2>3
  <2>5. a \in Holders' /\ grant'[a] = grant[a]
      BY <1>c, <2>1, <2>2, <2>3, <2>4
  <2>6. QED
      BY <2>2, <2>3, <2>5
<1>1. CASE TokensAlone
    BY <1>1, <1>c DEF TokensAlone, Holders
<1>2. CASE Stop(Hub)
  <2>1. \A a \in Holders : \/ a \in Holders' /\ grant'[a] = grant[a]
                           \/ grant[a].token = 0 \/ grant[a].token \in excused'
      BY <1>2, StopTokens
  <2>2. QED
      BY <1>2, <2>1, <1>c, StopTokens
<1>3. ASSUME NEW a \in Conns, Add(a) PROVE RosterAccounted'
  <2>1. UNCHANGED <<touched, excused>> /\ a \notin Holders
      BY <1>3 DEF Add, Holders
  <2>2. CASE Close({a}) /\ UNCHANGED <<tokens, roster>>
    <3>1. \A b \in Holders : b \in Holders' /\ grant'[b] = grant[b]
        BY <2>1, <2>2, ClosedHolder
    <3>2. QED
        BY <2>1, <2>2, <3>1, <1>c
  <2>3. CASE ~(Close({a}) /\ UNCHANGED <<tokens, roster>>)
    <3> DEFINE k == grant[a].key
    <3>1. /\ k \in Keys
          /\ roster' = [roster EXCEPT ![k] = tokens + 1]
          /\ grant' = [grant EXCEPT ![a].token = tokens + 1]
          /\ conn' = [conn EXCEPT ![a] = "replying"]
        BY <1>3, <2>3 DEF Add, TypeOK
    <3>2. a \in Holders' /\ \A b \in Holders : b \in Holders' /\ grant'[b] = grant[b]
        BY <2>1, <3>1 DEF Holders, TypeOK
    <3>3. grant'[a] = [key |-> k, token |-> roster'[k]]
        BY <3>1 DEF TypeOK
    <3>4. ASSUME NEW j \in Keys, roster'[j] # 0, j \notin touched', j # k
          PROVE  \/ roster'[j] \in excused'
                 \/ \E b \in Conns : b \in Holders' /\ grant'[b] = [key |-> j, token |-> roster'[j]]
      <4>1. roster'[j] = roster[j]
          BY <3>1, <3>4 DEF TypeOK
      <4>2. roster[j] \in excused \/ \E b \in Conns : Has(b, j)
          BY <1>a, <2>1, <3>4, <4>1
      <4>3. QED
          BY <2>1, <3>2, <4>1, <4>2
    <3>5. QED
        BY <3>2, <3>3, <3>4 DEF RosterAccounted, Holders
  <2>4. QED
      BY <2>2, <2>3
<1>4. ASSUME NEW a \in Conns, Reply(a) PROVE RosterAccounted'
  <2>1. Holders' = Holders /\ UNCHANGED <<grant, roster, touched, excused>>
      BY <1>4 DEF Reply, AgentRest, Holders, TypeOK
  <2>2. QED
      BY <2>1, <1>c
<1>5. ASSUME NEW a \in Conns, Rollback(a) PROVE RosterAccounted'
  <2>1. /\ Holders' = Holders \ {a} /\ \A b \in Holders' : grant'[b] = grant[b]
        /\ touched' = touched /\ grant[a].key \in Keys
      BY <1>5, ClosedHolder DEF Rollback, TypeOK
  <2>2. CASE UNCHANGED roster /\ excused' = excused \cup {grant[a].token}
      BY <2>1, <2>2, <1>c
  <2>3. CASE roster' = [roster EXCEPT ![grant[a].key] = 0] /\ excused' = excused
    <3>1. roster'[grant[a].key] = 0 /\ \A k \in Keys : roster'[k] # 0 => roster'[k] = roster[k]
        BY <2>1, <2>3 DEF TypeOK
    <3>2. QED
        BY <2>1, <2>3, <3>1, <1>c
  <2>4. QED
      BY <1>5, <2>2, <2>3 DEF Rollback
<1>6. ASSUME NEW a \in Conns, AgentReads(a) PROVE RosterAccounted'
  <2>1. UNCHANGED <<roster, touched>>
      BY <1>6 DEF AgentReads, AgentRest
  <2>2. CASE Close({a}) /\ excused' = excused \cup {grant[a].token}
      BY <2>1, <2>2, <1>c, ClosedHolder
  <2>3. CASE ~(Close({a}) /\ excused' = excused \cup {grant[a].token})
    <3>1. Holders' = Holders /\ grant' = grant /\ excused' = excused
        BY <1>6, <2>3 DEF AgentReads, Holders, TypeOK
    <3>2. QED
        BY <2>1, <3>1, <1>c
  <2>4. QED
      BY <2>2, <2>3
<1>7. ASSUME NEW k \in Keys, OperatorChanges(k) PROVE RosterAccounted'
  <2>1. /\ UNCHANGED <<conn, grant, excused>> /\ touched' = touched \cup {k}
        /\ \A j \in Keys \ {k} : roster'[j] = roster[j]
      BY <1>7 DEF OperatorChanges, TypeOK
  <2>2. Holders' = Holders
      BY <2>1 DEF Holders
  <2>3. QED
      BY <2>1, <2>2, <1>c
<1>8. QED
    BY <1>1, <1>2, <1>3, <1>4, <1>5, <1>6, <1>7, TokenSteps

-----------------------------------------------------------------------------
\* The inductive invariant of the store and of the tokens.
EnrollInv ==
    /\ TypeOK /\ RedeemInv /\ IssuedInv /\ WriterInv /\ GoneInv /\ CountInv
    /\ HolderInv /\ RosterAccounted

\* The invariant holds before anything is issued.
LEMMA InitInv == Init => EnrollInv
<1> SUFFICES ASSUME Init PROVE EnrollInv
    OBVIOUS
<1>1. TypeOK
    BY EmptyType DEF Init, TypeOK, NoGrant, ConnStates
<1>2. RedeemInv /\ WriterInv
    BY DEF Init, RedeemInv, WriterInv, Writers, Writes
<1>3. IssuedInv
    BY DEF Init, IssuedInv, Empty
<1>4. GoneInv /\ CountInv
    BY DEF Init, GoneInv, CountInv, Honest, Empty
<1>5. HolderInv /\ RosterAccounted
    BY DEF Init, HolderInv, Holders, RosterAccounted
<1>6. QED
    BY <1>1, <1>2, <1>3, <1>4, <1>5 DEF EnrollInv

\* The enrollment's invariant holds in every behaviour.
LEMMA EnrollInvariant == Spec => []EnrollInv
<1>1. EnrollInv /\ [Next]_vars => EnrollInv'
    BY TypeStep, RedeemStep, IssuedStep, WriterStep, GoneStep, CountStep, HolderStep, AccountedStep
       DEF EnrollInv
<1>2. QED
    BY <1>1, InitInv, PTL DEF Spec

\* The state of enrollment is well typed in every behaviour: an attempt the hub
\* works on has the server its code stands for.
THEOREM EnrollTypeCorrect == Spec => []TypeOK
<1>1. EnrollInv => TypeOK
    BY DEF EnrollInv
<1>2. QED
    BY <1>1, EnrollInvariant, PTL

\* handleEnroll: every token an agent has works, whatever other attempts for
\* the same server do, and every entry of the roster has its agent.
THEOREM TokensAreAccounted == Spec => []TokensAccounted
<1>1. EnrollInv => TokensAccounted
    BY DEF EnrollInv, HolderInv, Holders, TokensAccounted, IssuedTokenWorks
<1>2. QED
    BY <1>1, EnrollInvariant, PTL

\* Only Redeem accepts a code, and the entry it works on is alive and honest.
LEMMA AcceptingStep ==
    ASSUME EnrollInv, [Next]_vars, NEW c \in Codes, accepted'[c] > accepted[c]
    PROVE  /\ c \notin spent /\ c \notin cancelled
           /\ now <= expires[c] /\ charged[c] < MaxAttempts
<1>1. TypeOK /\ GoneInv /\ CountInv
    BY DEF EnrollInv
<1>2. accepted' # accepted
    BY <1>1 DEF TypeOK
<1>3. PICK a \in Conns : Redeems(a)
  <2>1. ~Elsewhere
      BY <1>2, ElsewhereUnchanged
  <2>2. QED
      BY <1>2, <2>1 DEF Next, Elsewhere, Open, BeginCreate, BeginRevoke, BeginRedeem, Begin,
                        Pending, Finish, Stop, Refuses, hist
<1> DEFINE o == op[Hub]
           e == entries[Hub][o.code]
<1>4. /\ o # None /\ o.kind = "redeem" /\ o.code \in Codes /\ e # None /\ ~IsExpired(e)
      /\ accepted' = [accepted EXCEPT ![o.code] = @ + 1]
    BY <1>3 DEF Redeems, Accepts, Live
<1>5. c = o.code
    BY <1>1, <1>4 DEF TypeOK
<1>6. Hub \in Procs /\ Reach(Hub)
    BY <1>4 DEF Procs, Reach, Writes
<1>7. e.expires = expires[c] /\ e.attempts >= charged[c]
    BY <1>1, <1>4, <1>5, <1>6 DEF CountInv, Honest
<1>8. c \notin spent /\ c \notin cancelled
    BY <1>1, <1>4, <1>5, <1>6 DEF GoneInv
<1>9. e.expires \in Nat /\ e.attempts \in Nat /\ charged[c] \in Nat /\ now \in Nat
    BY <1>1, <1>4, <1>6, StoreEntry DEF TypeOK
<1>10. QED
    BY <1>4, <1>7, <1>8, <1>9, EnrollAssumption DEF IsExpired

\* EnrollStore.Redeem accepts no code again that it accepted while no other
\* process wrote, for any number of agents and commands, with crashes, restarts,
\* failed saves and crossings before and after.
THEOREM CodesWorkOnce == Spec => SingleUse
<1>1. EnrollInv /\ [Next]_vars => [\A c \in Codes : accepted'[c] > accepted[c] => c \notin spent]_vars
    BY AcceptingStep
<1>2. QED
    BY <1>1, EnrollInvariant, PTL DEF Spec, SingleUse

\* Redeem accepts no code that has expired, that was revoked while no other
\* process wrote, or that was charged maxEnrollAttempts guesses which were saved
\* while no other process wrote.
THEOREM DeadCodesAreRefused == Spec => OnlyLiveCodesAccepted
<1>1. EnrollInv /\ [Next]_vars =>
          [\A c \in Codes : accepted'[c] > accepted[c] =>
              now <= expires[c] /\ c \notin cancelled /\ charged[c] < MaxAttempts]_vars
    BY AcceptingStep
<1>2. QED
    BY <1>1, EnrollInvariant, PTL DEF Spec, OnlyLiveCodesAccepted
=============================================================================
