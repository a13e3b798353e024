-------------------------- MODULE SourceLinkProofs --------------------------
(***************************************************************************)
(* Proofs about SourceLink, for any number of sockets, readers, players    *)
(* and faults.                                                             *)
(***************************************************************************)
EXTENDS SourceLink, FiniteSetTheorems, SequenceTheorems, TLAPS

First == {"dialFirst", "shakeFirst", "startedFirst"}
Connecting == {"dial", "shake", "started"} \cup First

\* A reader that was started and has not given the connection up.
Active(place) == place \in {"read", "close", "clear"}

\* Where Connect, the readers and the connection are.
PlaceInv ==
    /\ sock \in [Sockets -> {"free", "open", "broken"}] /\ conn \in Sockets \cup {NoConn}
    /\ isConnected \in BOOLEAN /\ isInitialState \in BOOLEAN
    /\ keeper \in {"sleep", "announce"} \cup Connecting
    /\ reader \in [Readers -> {"none", "read", "close", "clear", "announce"}]

\* Connect runs only while isConnected is false, and nothing has run before the
\* first one.
KeeperInv ==
    /\ isInitialState => keeper = "sleep" /\ ~isConnected /\ \A r \in Readers : reader[r] = "none"
    /\ keeper \in Connecting => ~isConnected
    /\ keeper \in {"dial", "dialFirst"} => conn = NoConn
    /\ keeper \in {"shake", "shakeFirst", "started", "startedFirst"} => conn # NoConn

\* There is one active reader at most.  It was started by the Connect that is
\* ending or isConnected is true, and it has a connection until it drops it.
ReaderInv ==
    /\ \A r, q \in Readers : Active(reader[r]) /\ Active(reader[q]) => r = q
    /\ \A r \in Readers : reader[r] = "read" => isConnected \/ keeper \in {"started", "startedFirst"}
    /\ \A r \in Readers : reader[r] \in {"close", "clear"} => isConnected
    /\ \A r \in Readers : reader[r] \in {"read", "close"} => conn # NoConn
    /\ \A r \in Readers : reader[r] = "close" => sock[conn] # "open"

\* Only the current connection is not closed.
SocketInv == \A s \in Sockets : sock[s] # "free" => s = conn

\* What was announced last is how it is, once those who announce are done.  The
\* first connection is not announced.
TruthInv ==
    /\ ~muddled /\ keeper # "announce" /\ Announcing = {} =>
          (said = "up" => isConnected) /\ (said = "down" => ~isConnected)
    /\ isInitialState \/ keeper \in First => said = "none" /\ Announcing = {}

\* The game server, what it has on the wire, and what was announced.
WireInv ==
    /\ server \in BOOLEAN /\ players \subseteq Players /\ faults \in 0 .. MaxFaults
    /\ wire \in Seq(Lines) /\ footer \in 0 .. Cardinality(Players)
    /\ said \in {"none", "up", "down"} /\ muddled \in BOOLEAN

\* The list of players; a dump has a deadline only while it lasts.
DumpInv ==
    /\ isPlayerDump \in BOOLEAN /\ late \in BOOLEAN /\ (late => isPlayerDump)
    /\ dump \subseteq Players /\ characters \subseteq Players /\ onlineCount \in Nat

\* The status loop and the sender.
WriterInv ==
    /\ writer \in [Writers -> {"idle", "write", "wait", "report"}]
    /\ online \in Nat /\ reported \in [count : Nat, up : BOOLEAN] /\ crashed \in BOOLEAN

\* The inductive invariant.
LinkInv == PlaceInv /\ KeeperInv /\ ReaderInv /\ SocketInv
SourceInv == LinkInv /\ TruthInv /\ WireInv /\ DumpInv /\ WriterInv

-----------------------------------------------------------------------------
(* Connect, the readers and the connection.                                *)
linkVars == <<sock, conn, isConnected, isInitialState, keeper, reader>>

\* What does not touch the link keeps its invariant.
LEMMA LinkAlone ==
    ASSUME LinkInv, UNCHANGED linkVars
    PROVE  LinkInv'
BY DEF LinkInv, PlaceInv, KeeperInv, ReaderInv, SocketInv, linkVars

\* The old connection is dropped while nobody reads it.
LEMMA DropsOld ==
    ASSUME LinkInv, DropOld, keeper = "sleep", ~isConnected
    PROVE  /\ sock' \in [Sockets -> {"free", "open", "broken"}] /\ conn' = NoConn
           /\ \A s \in Sockets : sock'[s] = "free"
           /\ \A r \in Readers : ~Active(reader[r])
<1>1. sock' = [s \in Sockets |-> IF s = conn THEN "free" ELSE sock[s]] /\ conn' = NoConn
    BY DEF DropOld
<1>2. \A s \in Sockets : sock'[s] = "free"
    BY <1>1 DEF LinkInv, SocketInv, PlaceInv
<1>3. \A r \in Readers : ~Active(reader[r])
    BY DEF LinkInv, KeeperInv, ReaderInv, Active
<1>4. QED
    BY <1>1, <1>2, <1>3 DEF LinkInv, PlaceInv

\* Sockets break.
LEMMA SocketsBreak ==
    ASSUME LinkInv, UNCHANGED <<conn, isConnected, isInitialState, keeper, reader>>,
           sock' \in [Sockets -> {"free", "open", "broken"}],
           \A s \in Sockets : sock'[s] = sock[s] \/ (sock[s] = "open" /\ sock'[s] = "broken")
    PROVE  LinkInv'
<1>1. PlaceInv' /\ KeeperInv'
    BY DEF LinkInv, PlaceInv, KeeperInv
<1>2. SocketInv'
    BY DEF LinkInv, SocketInv
<1>3. ReaderInv'
    BY SourceLinkAssumption DEF LinkInv, ReaderInv, PlaceInv
<1>4. QED
    BY <1>1, <1>2, <1>3 DEF LinkInv

\* Every step of keepalive, readers and senders keeps the link's invariant.
LEMMA LinkStep == LinkInv /\ [Next]_vars => LinkInv'
<1> SUFFICES ASSUME LinkInv, [Next]_vars PROVE LinkInv'
    OBVIOUS
<1>t. PlaceInv /\ KeeperInv /\ ReaderInv /\ SocketInv
    BY DEF LinkInv
<1>1. CASE FirstConnect
  <2>1. /\ DropOld /\ isInitialState /\ isInitialState' = FALSE /\ keeper' = "dialFirst"
        /\ UNCHANGED <<isConnected, reader>>
      BY <1>1 DEF FirstConnect
  <2>2. /\ sock' \in [Sockets -> {"free", "open", "broken"}] /\ conn' = NoConn
        /\ \A s \in Sockets : sock'[s] = "free"
        /\ \A r \in Readers : ~Active(reader[r])
      BY <1>t, <2>1, DropsOld DEF KeeperInv
  <2>3. isInitialState' \in BOOLEAN
      BY <2>1, Zenon
  <2>4. PlaceInv'
      BY <1>t, <2>1, <2>2, <2>3 DEF PlaceInv, Connecting, First
  <2>5. KeeperInv'
      BY <1>t, <2>1, <2>2 DEF KeeperInv
  <2>6. ReaderInv' /\ SocketInv'
      BY <2>1, <2>2 DEF ReaderInv, SocketInv, Active
  <2>7. QED
      BY <2>4, <2>5, <2>6 DEF LinkInv
<1>2. CASE Reconnect
  <2>1. /\ DropOld /\ ~isInitialState /\ keeper = "sleep" /\ ~isConnected /\ keeper' = "dial"
        /\ UNCHANGED <<isConnected, isInitialState, reader>>
      BY <1>2 DEF Reconnect, Started
  <2>2. /\ sock' \in [Sockets -> {"free", "open", "broken"}] /\ conn' = NoConn
        /\ \A s \in Sockets : sock'[s] = "free"
        /\ \A r \in Readers : ~Active(reader[r])
      BY <2>1, DropsOld
  <2>3. PlaceInv'
      BY <1>t, <2>1, <2>2 DEF PlaceInv, Connecting
  <2>4. KeeperInv'
      BY <2>1, <2>2 DEF KeeperInv
  <2>5. ReaderInv' /\ SocketInv'
      BY <2>1, <2>2 DEF ReaderInv, SocketInv, Active
  <2>6. QED
      BY <2>3, <2>4, <2>5 DEF LinkInv
<1>3. CASE DialFails \/ HandshakeFails
  <2>1. /\ keeper \in {"dial", "dialFirst", "shake", "shakeFirst"} /\ keeper' = "sleep"
        /\ UNCHANGED <<sock, conn, isConnected, isInitialState, reader>>
      BY <1>3 DEF DialFails, HandshakeFails, Dialling, Shaking
  <2>2. PlaceInv' /\ SocketInv'
      BY <1>t, <2>1 DEF PlaceInv, SocketInv
  <2>3. KeeperInv'
      BY <1>t, <2>1 DEF KeeperInv, Connecting, First
  <2>4. ReaderInv'
      BY <1>t, <2>1 DEF ReaderInv
  <2>5. QED
      BY <2>2, <2>3, <2>4 DEF LinkInv
<1>4. CASE DialOk
  <2>1. PICK s \in Sockets : sock[s] = "free" /\ sock' = [sock EXCEPT ![s] = "open"] /\ conn' = s
      BY <1>4 DEF DialOk
  <2>2. /\ keeper \in {"dial", "dialFirst"} /\ keeper' \in {"shake", "shakeFirst"}
        /\ UNCHANGED <<isConnected, isInitialState, reader>>
      BY <1>4 DEF DialOk, Dialling
  <2>3. conn = NoConn /\ ~isConnected /\ ~isInitialState /\ NoConn \notin Sockets
      BY <1>t, <2>2, SourceLinkAssumption DEF KeeperInv, Connecting, First
  <2>4. \A r \in Readers : ~Active(reader[r])
      BY <1>t, <2>2, <2>3 DEF ReaderInv, Active
  <2>5. PlaceInv'
      BY <1>t, <2>1, <2>2 DEF PlaceInv, Connecting, First
  <2>6. KeeperInv'
      BY <2>1, <2>2, <2>3 DEF KeeperInv
  <2>7. ReaderInv'
      BY <2>2, <2>4 DEF ReaderInv, Active
  <2>8. SocketInv'
      BY <1>t, <2>1, <2>3 DEF SocketInv, PlaceInv
  <2>9. QED
      BY <2>5, <2>6, <2>7, <2>8 DEF LinkInv
<1>5. CASE HandshakeOk
  <2>1. PICK r \in Readers : reader[r] = "none" /\ reader' = [reader EXCEPT ![r] = "read"]
      BY <1>5 DEF HandshakeOk
  <2>2. /\ keeper \in {"shake", "shakeFirst"} /\ keeper' \in {"started", "startedFirst"}
        /\ UNCHANGED <<sock, conn, isConnected, isInitialState>>
      BY <1>5 DEF HandshakeOk, Shaking
  <2>3. conn # NoConn /\ ~isConnected /\ ~isInitialState
      BY <1>t, <2>2 DEF KeeperInv, Connecting, First
  <2>4. \A q \in Readers : ~Active(reader[q])
      BY <1>t, <2>2, <2>3 DEF ReaderInv, Active
  <2>5. PlaceInv' /\ SocketInv'
      BY <1>t, <2>1, <2>2 DEF PlaceInv, SocketInv, Connecting, First
  <2>6. KeeperInv'
      BY <2>2, <2>3 DEF KeeperInv
  <2>7. reader'[r] = "read" /\ \A q \in Readers \ {r} : ~Active(reader'[q])
      BY <1>t, <2>1, <2>4 DEF PlaceInv
  <2>8. ReaderInv'
      BY <2>2, <2>3, <2>7 DEF ReaderInv, Active
  <2>9. QED
      BY <2>5, <2>6, <2>8 DEF LinkInv
<1>6. CASE Connected
  <2>1. /\ keeper \in {"started", "startedFirst"} /\ keeper' \in {"announce", "sleep"}
        /\ isConnected' = TRUE /\ UNCHANGED <<sock, conn, isInitialState, reader>>
      BY <1>6 DEF Connected
  <2>2. ~isInitialState
      BY <1>t, <2>1 DEF KeeperInv
  <2>3. isConnected' \in BOOLEAN
      BY <2>1, Zenon
  <2>4. PlaceInv' /\ SocketInv'
      BY <1>t, <2>1, <2>3 DEF PlaceInv, SocketInv
  <2>5. KeeperInv'
      BY <2>1, <2>2 DEF KeeperInv, Connecting, First
  <2>6. ReaderInv'
      BY <1>t, <2>1 DEF ReaderInv
  <2>7. QED
      BY <2>4, <2>5, <2>6 DEF LinkInv
<1>7. CASE AnnounceUp
  <2>1. /\ keeper = "announce" /\ keeper' = "sleep"
        /\ UNCHANGED <<sock, conn, isConnected, isInitialState, reader>>
      BY <1>7 DEF AnnounceUp
  <2>2. PlaceInv' /\ SocketInv' /\ ReaderInv'
      BY <1>t, <2>1 DEF PlaceInv, SocketInv, ReaderInv
  <2>3. KeeperInv'
      BY <1>t, <2>1 DEF KeeperInv, Connecting, First
  <2>4. QED
      BY <2>2, <2>3 DEF LinkInv
<1>8. ASSUME NEW r \in Readers, ReadFails(r) PROVE LinkInv'
  <2>1. /\ reader[r] = "read" /\ conn # NoConn /\ sock[conn] # "open"
        /\ reader' = [reader EXCEPT ![r] = IF isConnected THEN "close" ELSE "none"]
        /\ UNCHANGED <<sock, conn, isConnected, isInitialState, keeper>>
      BY <1>8 DEF ReadFails, ReaderRest
  <2>2. /\ reader'[r] = IF isConnected THEN "close" ELSE "none"
        /\ \A q \in Readers \ {r} : reader'[q] = reader[q] /\ ~Active(reader[q])
      BY <1>t, <2>1 DEF PlaceInv, ReaderInv, Active
  <2>3. PlaceInv' /\ SocketInv'
      BY <1>t, <2>1 DEF PlaceInv, SocketInv
  <2>4. KeeperInv'
      BY <1>t, <2>1 DEF KeeperInv
  <2>5. ReaderInv'
      BY <1>t, <2>1, <2>2 DEF ReaderInv, Active
  <2>6. QED
      BY <2>3, <2>4, <2>5 DEF LinkInv
<1>9. ASSUME NEW r \in Readers, Closes(r) PROVE LinkInv'
  <2>1. /\ reader[r] = "close" /\ reader' = [reader EXCEPT ![r] = "clear"] /\ conn' = NoConn
        /\ sock' = [s \in Sockets |-> IF s = conn THEN "free" ELSE sock[s]]
        /\ UNCHANGED <<isConnected, isInitialState, keeper>>
      BY <1>9 DEF Closes, ReaderRest
  <2>2. /\ reader'[r] = "clear"
        /\ \A q \in Readers \ {r} : reader'[q] = reader[q] /\ ~Active(reader[q])
      BY <1>t, <2>1 DEF PlaceInv, ReaderInv, Active
  <2>3. isConnected /\ ~isInitialState /\ keeper \notin Connecting
      BY <1>t, <2>1 DEF ReaderInv, KeeperInv
  <2>4. PlaceInv'
      BY <1>t, <2>1 DEF PlaceInv
  <2>5. SocketInv'
      BY <1>t, <2>1 DEF SocketInv
  <2>6. KeeperInv'
      BY <2>1, <2>3 DEF KeeperInv, Connecting, First
  <2>7. ReaderInv'
      BY <2>1, <2>2, <2>3 DEF ReaderInv, Active
  <2>8. QED
      BY <2>4, <2>5, <2>6, <2>7 DEF LinkInv
<1>10. ASSUME NEW r \in Readers, Clears(r) PROVE LinkInv'
  <2>1. /\ reader[r] = "clear" /\ reader' = [reader EXCEPT ![r] = "announce"]
        /\ isConnected' = FALSE /\ UNCHANGED <<sock, conn, isInitialState, keeper>>
      BY <1>10 DEF Clears, ReaderRest
  <2>2. \A q \in Readers : ~Active(reader'[q])
      BY <1>t, <2>1 DEF PlaceInv, ReaderInv, Active
  <2>3. isConnected /\ ~isInitialState /\ keeper \notin Connecting
      BY <1>t, <2>1 DEF ReaderInv, KeeperInv
  <2>4. isConnected' \in BOOLEAN
      BY <2>1, Zenon
  <2>5. PlaceInv' /\ SocketInv'
      BY <1>t, <2>1, <2>4 DEF PlaceInv, SocketInv
  <2>6. KeeperInv'
      BY <2>1, <2>3 DEF KeeperInv, Connecting, First
  <2>7. ReaderInv'
      BY <2>2 DEF ReaderInv, Active
  <2>8. QED
      BY <2>5, <2>6, <2>7 DEF LinkInv
<1>11. ASSUME NEW r \in Readers, AnnounceDown(r) PROVE LinkInv'
  <2>1. /\ reader[r] = "announce" /\ reader' = [reader EXCEPT ![r] = "none"]
        /\ UNCHANGED <<sock, conn, isConnected, isInitialState, keeper>>
      BY <1>11 DEF AnnounceDown, ReaderRest
  <2>2. reader'[r] = "none" /\ \A q \in Readers \ {r} : reader'[q] = reader[q]
      BY <1>t, <2>1 DEF PlaceInv
  <2>3. PlaceInv' /\ SocketInv'
      BY <1>t, <2>1 DEF PlaceInv, SocketInv
  <2>4. KeeperInv'
      BY <1>t, <2>1, <2>2 DEF KeeperInv
  <2>5. ReaderInv'
      BY <1>t, <2>1, <2>2 DEF ReaderInv, Active
  <2>6. QED
      BY <2>3, <2>4, <2>5 DEF LinkInv
<1>12. CASE ServerStops \/ ConnectionBreaks
  <2>1. UNCHANGED <<conn, isConnected, isInitialState, keeper, reader>>
      BY <1>12 DEF ServerStops, ConnectionBreaks, ExternalOnly
  <2>2. \/ sock' = [s \in Sockets |-> IF sock[s] = "open" THEN "broken" ELSE sock[s]]
        \/ \E s \in Sockets : sock[s] = "open" /\ sock' = [sock EXCEPT ![s] = "broken"]
      BY <1>12 DEF ServerStops, ConnectionBreaks
  <2>3. /\ sock' \in [Sockets -> {"free", "open", "broken"}]
        /\ \A s \in Sockets : sock'[s] = sock[s] \/ (sock[s] = "open" /\ sock'[s] = "broken")
    <3>0. sock \in [Sockets -> {"free", "open", "broken"}]
        BY <1>t DEF PlaceInv
    <3>1. CASE sock' = [s \in Sockets |-> IF sock[s] = "open" THEN "broken" ELSE sock[s]]
      <4>1. sock' \in [Sockets -> {"free", "open", "broken"}]
          BY <3>0, <3>1
      <4>2. \A s \in Sockets : sock'[s] = IF sock[s] = "open" THEN "broken" ELSE sock[s]
          BY <3>1
      <4>3. QED
          BY <4>1, <4>2
    <3>2. ASSUME NEW x \in Sockets, sock[x] = "open", sock' = [sock EXCEPT ![x] = "broken"]
          PROVE  /\ sock' \in [Sockets -> {"free", "open", "broken"}]
                 /\ \A s \in Sockets : \/ sock'[s] = sock[s]
                                       \/ sock[s] = "open" /\ sock'[s] = "broken"
      <4>1. sock' \in [Sockets -> {"free", "open", "broken"}]
          BY <3>0, <3>2
      <4>2. \A s \in Sockets : sock'[s] = IF s = x THEN "broken" ELSE sock[s]
          BY <3>0, <3>2
      <4>3. QED
          BY <3>2, <4>1, <4>2
    <3>3. QED
        BY <2>2, <3>1, <3>2
  <2>4. QED
      BY <2>1, <2>3, SocketsBreak
<1>13. ASSUME NEW r \in Readers, ReadsLine(r) PROVE UNCHANGED linkVars
    BY <1>13 DEF ReadsLine, ReaderRest, linkVars
<1>14. ASSUME NEW w \in Writers, SendChecks(w) \/ SendWrites(w) PROVE UNCHANGED linkVars
    BY <1>14 DEF SendChecks, SendWrites, WriterRest, linkVars
<1>15. CASE \/ WhoReturns \/ Reports \/ ServerStarts \/ PlayerComesOrGoes \/ DumpTakesLong
            \/ UNCHANGED vars
  <2>1. UNCHANGED linkVars
      BY <1>15 DEF WhoReturns, Reports, WriterRest, ServerStarts, PlayerComesOrGoes, ExternalOnly,
                   DumpTakesLong, vars, linkVars
  <2>2. QED
      BY <2>1, LinkAlone
<1>16. QED
    BY <1>1, <1>2, <1>3, <1>4, <1>5, <1>6, <1>7, <1>8, <1>9, <1>10, <1>11, <1>12, <1>13, <1>14,
       <1>15, LinkAlone DEF Next, Goroutines

-----------------------------------------------------------------------------
(* Announcements.                                                          *)
LEMMA TruthAlone ==
    ASSUME TruthInv, UNCHANGED <<muddled, said, isConnected>>, Announcing' = Announcing,
           keeper' = "announce" <=> keeper = "announce",
           isInitialState' \/ keeper' \in First => isInitialState \/ keeper \in First
    PROVE  TruthInv'
BY DEF TruthInv

\* A reader that moves without an announcement.
LEMMA AnnouncingKept ==
    ASSUME PlaceInv, NEW r \in Readers, NEW place, reader' = [reader EXCEPT ![r] = place],
           place # "announce", reader[r] # "announce"
    PROVE  Announcing' = Announcing
BY DEF PlaceInv, Announcing

\* Every step keeps what was announced last in accord with the flag.
LEMMA TruthStep == LinkInv /\ TruthInv /\ [Next]_vars => TruthInv'
<1> SUFFICES ASSUME LinkInv, TruthInv, [Next]_vars PROVE TruthInv'
    OBVIOUS
<1>t. PlaceInv /\ KeeperInv /\ ReaderInv
    BY DEF LinkInv
<1>1. CASE FirstConnect \/ Reconnect
  <2>1. /\ UNCHANGED <<muddled, said, isConnected, reader>> /\ keeper' # "announce"
        /\ keeper # "announce"
      BY <1>1, <1>t DEF FirstConnect, Reconnect, KeeperInv
  <2>2. Announcing' = Announcing
      BY <2>1 DEF Announcing
  <2>3. isInitialState' \/ keeper' \in First => isInitialState \/ keeper \in First
      BY <1>1 DEF FirstConnect, Reconnect, First
  <2>4. QED
      BY <2>1, <2>2, <2>3, TruthAlone
<1>2. CASE DialFails \/ HandshakeFails \/ DialOk
  <2>1. UNCHANGED <<muddled, said, isConnected, reader, isInitialState>>
      BY <1>2 DEF DialFails, HandshakeFails, DialOk
  <2>2. Announcing' = Announcing
      BY <2>1 DEF Announcing
  <2>3. /\ keeper # "announce" /\ keeper' # "announce"
        /\ keeper' \in First => keeper \in First
      BY <1>2 DEF DialFails, HandshakeFails, DialOk, Dialling, Shaking, First
  <2>4. QED
      BY <2>1, <2>2, <2>3, TruthAlone
<1>3. CASE HandshakeOk
  <2>1. UNCHANGED <<muddled, said, isConnected, isInitialState>>
      BY <1>3 DEF HandshakeOk
  <2>2. Announcing' = Announcing
      BY <1>3, <1>t, AnnouncingKept DEF HandshakeOk
  <2>3. /\ keeper # "announce" /\ keeper' # "announce"
        /\ keeper' \in First => keeper \in First
      BY <1>3 DEF HandshakeOk, Shaking, First
  <2>4. QED
      BY <2>1, <2>2, <2>3, TruthAlone
<1>4. CASE Connected
  <2>1. /\ UNCHANGED <<muddled, said, isInitialState, reader>> /\ isConnected' = TRUE
        /\ keeper \in {"started", "startedFirst"}
        /\ keeper' = IF keeper = "started" THEN "announce" ELSE "sleep"
      BY <1>4 DEF Connected
  <2>2. ~isInitialState /\ keeper' \notin First
      BY <1>t, <2>1 DEF KeeperInv, First
  <2>3. keeper' # "announce" => said = "none"
      BY <2>1 DEF TruthInv, First
  <2>4. QED
      BY <2>1, <2>2, <2>3 DEF TruthInv
<1>5. CASE AnnounceUp
  <2>1. /\ keeper = "announce" /\ keeper' = "sleep"
        /\ UNCHANGED <<isConnected, isInitialState, reader>>
      BY <1>5 DEF AnnounceUp
  <2>2. \/ said' = "up" /\ muddled' = (muddled \/ Announcing # {} \/ ~isConnected)
        \/ muddled' = TRUE
      BY <1>5 DEF AnnounceUp
  <2>3. ~muddled' => said' = "up" /\ isConnected
      BY <2>2, Zenon
  <2>4. ~isInitialState /\ keeper' \notin First
      BY <1>t, <2>1 DEF KeeperInv, First
  <2>5. QED
      BY <2>1, <2>3, <2>4 DEF TruthInv
<1>6. ASSUME NEW r \in Readers, ReadFails(r) \/ Closes(r) PROVE TruthInv'
  <2>1. UNCHANGED <<muddled, said, isConnected, isInitialState, keeper>>
      BY <1>6 DEF ReadFails, Closes, ReaderRest
  <2>2. \E place \in {"close", "none", "clear"} : reader' = [reader EXCEPT ![r] = place]
      BY <1>6 DEF ReadFails, Closes
  <2>3. reader[r] # "announce"
      BY <1>6 DEF ReadFails, Closes
  <2>4. Announcing' = Announcing
      BY <1>t, <2>2, <2>3, AnnouncingKept
  <2>5. QED
      BY <2>1, <2>4, TruthAlone
<1>7. ASSUME NEW r \in Readers, Clears(r) PROVE TruthInv'
  <2>1. /\ reader[r] = "clear" /\ reader' = [reader EXCEPT ![r] = "announce"]
        /\ UNCHANGED <<isInitialState, keeper>>
      BY <1>7 DEF Clears, ReaderRest
  <2>2. ~isInitialState /\ keeper \notin First
      BY <1>t, <2>1 DEF KeeperInv, ReaderInv, Connecting
  <2>3. r \in Announcing'
      BY <1>t, <2>1 DEF PlaceInv, Announcing
  <2>4. QED
      BY <2>1, <2>2, <2>3 DEF TruthInv
<1>8. ASSUME NEW r \in Readers, AnnounceDown(r) PROVE TruthInv'
  <2>1. /\ reader[r] = "announce" /\ UNCHANGED <<isConnected, isInitialState, keeper>>
        /\ \/ said' = "down" /\ muddled' = (muddled \/ isConnected \/ keeper = "announce")
           \/ muddled' = TRUE
      BY <1>8 DEF AnnounceDown, ReaderRest
  <2>2. ~isInitialState /\ keeper \notin First
      BY <2>1 DEF TruthInv, Announcing
  <2>3. ~muddled' => said' = "down" /\ ~isConnected
      BY <2>1, Zenon
  <2>4. QED
      BY <2>1, <2>2, <2>3 DEF TruthInv
<1>9. ASSUME NEW r \in Readers, ReadsLine(r)
      PROVE  UNCHANGED <<muddled, said, isConnected, isInitialState, keeper, reader>>
    BY <1>9 DEF ReadsLine, ReaderRest
<1>10. ASSUME NEW w \in Writers, SendChecks(w) \/ SendWrites(w)
       PROVE  UNCHANGED <<muddled, said, isConnected, isInitialState, keeper, reader>>
    BY <1>10 DEF SendChecks, SendWrites, WriterRest
<1>11. CASE UNCHANGED <<muddled, said, isConnected, isInitialState, keeper, reader>>
    BY <1>11 DEF TruthInv, Announcing
<1>12. CASE \/ WhoReturns \/ Reports \/ ServerStops \/ ServerStarts \/ ConnectionBreaks
            \/ PlayerComesOrGoes \/ DumpTakesLong \/ UNCHANGED vars
  <2>1. UNCHANGED <<muddled, said, isConnected, isInitialState, keeper, reader>>
      BY <1>12 DEF WhoReturns, Reports, WriterRest, ServerStops, ServerStarts, ConnectionBreaks,
                   PlayerComesOrGoes, ExternalOnly, DumpTakesLong, vars
  <2>2. QED
      BY <1>11, <2>1
<1>13. QED
    BY <1>1, <1>2, <1>3, <1>4, <1>5, <1>6, <1>7, <1>8, <1>9, <1>10, <1>11, <1>12
       DEF Next, Goroutines

-----------------------------------------------------------------------------
(* The wire, the dumps and those who write.                                *)
LEMMA PlayersFinite ==
    ASSUME NEW P \in SUBSET Players
    PROVE  /\ Cardinality(P) \in Nat /\ Cardinality(P) \in 0 .. Cardinality(Players)
           /\ Cardinality(Players) \in Nat
<1>1. IsFiniteSet(P) /\ Cardinality(P) <= Cardinality(Players)
    BY SourceLinkAssumption, FS_Subset
<1>2. Cardinality(P) \in Nat /\ Cardinality(Players) \in Nat
    BY <1>1, SourceLinkAssumption, FS_CardinalityType
<1>3. QED
    BY <1>1, <1>2

\* A new connection has nothing on the wire.
LEMMA EmptyWire == <<>> \in Seq(Lines) /\ 0 \in 0 .. Cardinality(Players)
<1>1. {} \in SUBSET Players
    OBVIOUS
<1>2. QED
    BY <1>1, PlayersFinite, EmptySeq

\* The answer to a who is made of lines.
LEMMA AnswerLines ==
    ASSUME NEW P \in SUBSET Players, NEW order \in [1 .. Cardinality(P) -> P]
    PROVE  <<"header">> \o order \o <<"footer">> \in Seq(Lines)
<1>1. Cardinality(P) \in Nat
    BY PlayersFinite
<1>2. order \in [1 .. Cardinality(P) -> Lines]
    BY DEF Lines
<1>3. order \in Seq(Lines)
    BY <1>1, <1>2
<1>4. <<"header">> \in Seq(Lines) /\ <<"footer">> \in Seq(Lines)
    BY DEF Lines
<1>5. <<"header">> \o order \in Seq(Lines)
    BY <1>3, <1>4, ConcatProperties
<1>6. QED
    BY <1>4, <1>5, ConcatProperties

\* Every step keeps the wire a list of lines.
LEMMA WireStep == WireInv /\ [Next]_vars => WireInv'
<1> SUFFICES ASSUME WireInv, [Next]_vars PROVE WireInv'
    OBVIOUS
<1> DEFINE Wired(w, f) == w \in Seq(Lines) /\ f \in 0 .. Cardinality(Players)
<1>t. Wired(wire, footer) /\ players \in SUBSET Players /\ MaxFaults \in Nat
    BY SourceLinkAssumption DEF WireInv
<1>f. faults' = faults \/ (faults < MaxFaults /\ faults' = faults + 1) => faults' \in 0 .. MaxFaults
    BY SourceLinkAssumption DEF WireInv
<1>e. ASSUME wire' = <<>>, footer' = 0 PROVE Wired(wire', footer')
    BY <1>e, EmptyWire
<1>w. ASSUME UNCHANGED <<server, players, said, muddled>>, Wired(wire', footer'),
             faults' = faults \/ (faults < MaxFaults /\ faults' = faults + 1)
      PROVE  WireInv'
    BY <1>w, <1>f DEF WireInv
<1>1. CASE FirstConnect \/ Reconnect
  <2>1. UNCHANGED <<server, players, said, muddled, faults>> /\ wire' = <<>> /\ footer' = 0
      BY <1>1 DEF FirstConnect, Reconnect, KeeperRest, DropOld
  <2>2. QED
      BY <1>w, <1>e, <2>1
<1>2. CASE DialFails \/ DialOk \/ HandshakeOk \/ Connected
  <2>1. UNCHANGED <<server, players, said, muddled, faults, wire, footer>>
      BY <1>2 DEF DialFails, DialOk, HandshakeOk, Connected, KeeperRest
  <2>2. QED
      BY <1>w, <1>t, <2>1
<1>3. CASE HandshakeFails
  <2>1. /\ UNCHANGED <<server, players, said, muddled, wire, footer>>
        /\ faults' = faults \/ (faults < MaxFaults /\ faults' = faults + 1)
      BY <1>3 DEF HandshakeFails, KeeperRest
  <2>2. QED
      BY <1>w, <1>t, <2>1
<1>4. ASSUME \/ AnnounceUp
             \/ \E r \in Readers : AnnounceDown(r)
      PROVE  WireInv'
  <2>1. UNCHANGED <<server, players, faults, wire, footer>> /\ said' \in {said, "up", "down"}
      BY <1>4 DEF AnnounceUp, AnnounceDown, KeeperRest, ReaderRest
  <2>2. \/ muddled' = (muddled \/ Announcing # {} \/ ~isConnected)
        \/ muddled' = (muddled \/ isConnected \/ keeper = "announce")
        \/ muddled' = TRUE
      BY <1>4 DEF AnnounceUp, AnnounceDown
  <2>3. muddled' \in BOOLEAN
      BY <2>2, Zenon
  <2>4. said' \in {"none", "up", "down"}
      BY <2>1 DEF WireInv
  <2>5. QED
      BY <2>1, <2>3, <2>4 DEF WireInv
<1>5. ASSUME NEW r \in Readers, ReadsLine(r) PROVE WireInv'
  <2>1. /\ UNCHANGED <<server, players, said, muddled, faults, footer>>
        /\ wire # <<>> /\ wire' = Tail(wire)
      BY <1>5 DEF ReadsLine, ReaderRest
  <2>2. wire' \in Seq(Lines)
      BY <1>t, <2>1, HeadTailProperties
  <2>3. QED
      BY <1>w, <1>t, <2>1, <2>2
<1>6. ASSUME NEW r \in Readers, ReadFails(r) \/ Clears(r) PROVE WireInv'
  <2>1. UNCHANGED <<server, players, said, muddled, faults, wire, footer>>
      BY <1>6 DEF ReadFails, Clears, ReaderRest
  <2>2. QED
      BY <1>w, <1>t, <2>1
<1>7. ASSUME NEW r \in Readers, Closes(r) PROVE WireInv'
  <2>1. UNCHANGED <<server, players, said, muddled, faults>> /\ wire' = <<>> /\ footer' = 0
      BY <1>7 DEF Closes, ReaderRest
  <2>2. QED
      BY <1>w, <1>e, <2>1
<1>8. ASSUME NEW w \in Writers, SendWrites(w) PROVE WireInv'
  <2>1. UNCHANGED <<server, players, said, muddled, faults>>
      BY <1>8 DEF SendWrites, WriterRest
  <2>2. \/ UNCHANGED <<wire, footer>>
        \/ \E order \in [1 .. Cardinality(players) -> players] :
              /\ wire' = <<"header">> \o order \o <<"footer">>
              /\ footer' = Cardinality(players)
      BY <1>8 DEF SendWrites
  <2>3. Wired(wire', footer')
      BY <1>t, <2>2, AnswerLines, PlayersFinite
  <2>4. QED
      BY <1>w, <2>1, <2>3
<1>9. ASSUME NEW w \in Writers, SendChecks(w) PROVE WireInv'
  <2>1. UNCHANGED <<server, players, said, muddled, faults, wire, footer>>
      BY <1>9 DEF SendChecks, WriterRest
  <2>2. QED
      BY <1>w, <1>t, <2>1
<1>10. CASE WhoReturns \/ Reports \/ UNCHANGED vars
  <2>1. UNCHANGED <<server, players, said, muddled, faults, wire, footer>>
      BY <1>10 DEF WhoReturns, Reports, WriterRest, vars
  <2>2. QED
      BY <1>w, <1>t, <2>1
<1>11. CASE ServerStops
  <2>1. /\ server' = FALSE /\ UNCHANGED <<players, said, muddled>> /\ wire' = <<>> /\ footer' = 0
        /\ faults < MaxFaults /\ faults' = faults + 1
      BY <1>11 DEF ServerStops, ExternalOnly
  <2>2. server' \in BOOLEAN
      BY <2>1, Zenon
  <2>3. QED
      BY <1>e, <1>f, <2>1, <2>2 DEF WireInv
<1>12. CASE ServerStarts
  <2>1. server' = TRUE /\ UNCHANGED <<players, said, muddled, faults, wire, footer>>
      BY <1>12 DEF ServerStarts, ExternalOnly
  <2>2. server' \in BOOLEAN
      BY <2>1, Zenon
  <2>3. QED
      BY <2>1, <2>2 DEF WireInv
<1>13. CASE ConnectionBreaks
  <2>1. /\ UNCHANGED <<server, players, said, muddled>> /\ wire' = <<>> /\ footer' = 0
        /\ faults < MaxFaults /\ faults' = faults + 1
      BY <1>13 DEF ConnectionBreaks, ExternalOnly
  <2>2. QED
      BY <1>w, <1>e, <2>1
<1>14. CASE PlayerComesOrGoes
  <2>1. /\ UNCHANGED <<server, said, muddled, wire, footer>>
        /\ faults < MaxFaults /\ faults' = faults + 1
      BY <1>14 DEF PlayerComesOrGoes, ExternalOnly
  <2>2. players' \subseteq Players
      BY <1>14, <1>t DEF PlayerComesOrGoes
  <2>3. QED
      BY <1>f, <2>1, <2>2 DEF WireInv
<1>15. CASE DumpTakesLong
  <2>1. /\ UNCHANGED <<server, players, said, muddled, wire, footer>>
        /\ faults' = faults \/ (faults < MaxFaults /\ faults' = faults + 1)
      BY <1>15 DEF DumpTakesLong
  <2>2. QED
      BY <1>w, <1>t, <2>1
<1>16. QED
    BY <1>1, <1>2, <1>3, <1>4, <1>5, <1>6, <1>7, <1>8, <1>9, <1>10, <1>11, <1>12, <1>13, <1>14,
       <1>15 DEF Next, Goroutines

\* Every step keeps the parser's partial dump typed.
LEMMA DumpStep == WireInv /\ DumpInv /\ [Next]_vars => DumpInv'
<1> SUFFICES ASSUME WireInv, DumpInv, [Next]_vars PROVE DumpInv'
    OBVIOUS
<1>0. CASE UNCHANGED dumpVars
    BY <1>0 DEF DumpInv, dumpVars
<1>1. CASE \/ FirstConnect \/ Reconnect \/ DialFails \/ DialOk \/ HandshakeOk \/ HandshakeFails
           \/ Connected \/ AnnounceUp
  <2>1. UNCHANGED dumpVars
      BY <1>1 DEF FirstConnect, Reconnect, DialFails, DialOk, HandshakeOk, HandshakeFails, Connected,
                  AnnounceUp, KeeperRest
  <2>2. QED
      BY <1>0, <2>1
<1>2. ASSUME NEW r \in Readers, ReadFails(r) \/ Closes(r) \/ Clears(r) \/ AnnounceDown(r)
      PROVE  UNCHANGED dumpVars
    BY <1>2 DEF ReadFails, Closes, Clears, AnnounceDown
<1>3. ASSUME NEW w \in Writers, SendChecks(w) \/ SendWrites(w) PROVE UNCHANGED dumpVars
    BY <1>3 DEF SendChecks, SendWrites, WriterRest
<1>4. CASE \/ WhoReturns \/ Reports \/ ServerStops \/ ServerStarts \/ ConnectionBreaks
           \/ PlayerComesOrGoes \/ UNCHANGED vars
  <2>1. UNCHANGED dumpVars
      BY <1>4 DEF WhoReturns, Reports, WriterRest, ServerStops, ServerStarts, ConnectionBreaks,
                  PlayerComesOrGoes, ExternalOnly, vars, dumpVars
  <2>2. QED
      BY <1>0, <2>1
<1>5. CASE DumpTakesLong
  <2>1. isPlayerDump /\ late' = TRUE /\ UNCHANGED <<isPlayerDump, dump, characters, onlineCount>>
      BY <1>5 DEF DumpTakesLong
  <2>2. late' \in BOOLEAN
      BY <2>1, Zenon
  <2>3. QED
      BY <2>1, <2>2 DEF DumpInv
<1>6. ASSUME NEW r \in Readers, ReadsLine(r) PROVE DumpInv'
  <2>1. ParseLine(Head(wire))
      BY <1>6 DEF ReadsLine
  <2>2. CASE SetCharacters(Head(wire))
    <3>1. isPlayerDump' = FALSE /\ late' = FALSE /\ dump' = dump /\ characters' = dump
        BY <2>2 DEF SetCharacters
    <3>2. isPlayerDump' \in BOOLEAN /\ late' \in BOOLEAN
        BY <3>1, Zenon
    <3>3. onlineCount' \in Nat
      <4>1. Cardinality(dump) \in Nat
          BY PlayersFinite DEF DumpInv
      <4>2. footer \in Nat
          BY PlayersFinite DEF WireInv
      <4>3. QED
          BY <2>2, <4>1, <4>2 DEF SetCharacters
    <3>4. QED
        BY <3>1, <3>2, <3>3 DEF DumpInv
  <2>3. CASE /\ isPlayerDump' = TRUE /\ late' = FALSE /\ dump' = {}
             /\ UNCHANGED <<characters, onlineCount>>
    <3>1. isPlayerDump' \in BOOLEAN /\ late' \in BOOLEAN
        BY <2>3, Zenon
    <3>2. QED
        BY <2>3, <3>1 DEF DumpInv
  <2>4. CASE /\ Head(wire) \in Players /\ dump' = dump \cup {Head(wire)}
             /\ UNCHANGED <<isPlayerDump, late, characters, onlineCount>>
      BY <2>4 DEF DumpInv
  <2>5. CASE onlineCount' = footer /\ UNCHANGED <<isPlayerDump, late, dump, characters>>
    <3>1. footer \in Nat
        BY PlayersFinite DEF WireInv
    <3>2. QED
        BY <2>5, <3>1 DEF DumpInv
  <2>6. QED
      BY <1>0, <2>1, <2>2, <2>3, <2>4, <2>5 DEF ParseLine
<1>7. QED
    BY <1>0, <1>1, <1>2, <1>3, <1>4, <1>5, <1>6 DEF Next, Goroutines

\* Every step keeps the status loop and the senders typed.
LEMMA WriterStep == PlaceInv /\ DumpInv /\ WriterInv /\ [Next]_vars => WriterInv'
<1> SUFFICES ASSUME PlaceInv, DumpInv, WriterInv, [Next]_vars PROVE WriterInv'
    OBVIOUS
<1>t. writer \in [Writers -> {"idle", "write", "wait", "report"}] /\ online \in Nat
    BY DEF WriterInv
<1>0. CASE UNCHANGED <<writer, online, reported, crashed>>
    BY <1>0 DEF WriterInv
<1>1. CASE \/ FirstConnect \/ Reconnect \/ DialFails \/ DialOk \/ HandshakeOk \/ HandshakeFails
           \/ Connected \/ AnnounceUp
  <2>1. UNCHANGED <<writer, online, reported, crashed>>
      BY <1>1 DEF FirstConnect, Reconnect, DialFails, DialOk, HandshakeOk, HandshakeFails, Connected,
                  AnnounceUp, KeeperRest
  <2>2. QED
      BY <1>0, <2>1
<1>2. ASSUME NEW r \in Readers,
             ReadsLine(r) \/ ReadFails(r) \/ Closes(r) \/ Clears(r) \/ AnnounceDown(r)
      PROVE  UNCHANGED <<writer, online, reported, crashed>>
    BY <1>2 DEF ReadsLine, ReadFails, Closes, Clears, AnnounceDown, ReaderRest
<1>3. CASE \/ ServerStops \/ ServerStarts \/ ConnectionBreaks \/ PlayerComesOrGoes
           \/ DumpTakesLong \/ UNCHANGED vars
  <2>1. UNCHANGED <<writer, online, reported, crashed>>
      BY <1>3 DEF ServerStops, ServerStarts, ConnectionBreaks, PlayerComesOrGoes, ExternalOnly,
                  DumpTakesLong, vars
  <2>2. QED
      BY <1>0, <2>1
<1>4. ASSUME NEW w \in Writers, SendChecks(w) PROVE WriterInv'
  <2>1. UNCHANGED <<reported, crashed>> /\ online' \in {0, online}
      BY <1>4 DEF SendChecks
  <2>2. \E place \in {"report", "idle", "write"} : writer' = [writer EXCEPT ![w] = place]
      BY <1>4 DEF SendChecks
  <2>3. writer' \in [Writers -> {"idle", "write", "wait", "report"}]
      BY <1>t, <2>2
  <2>4. QED
      BY <1>t, <2>1, <2>3 DEF WriterInv
<1>5. ASSUME NEW w \in Writers, SendWrites(w) PROVE WriterInv'
  <2>1. crashed' = (conn = NoConn) /\ reported' = reported /\ online' \in {0, online}
      BY <1>5 DEF SendWrites
  <2>2. crashed' \in BOOLEAN
      BY <2>1, Zenon
  <2>3. \/ writer' = writer
        \/ \E place \in {"idle", "wait", "report"} : writer' = [writer EXCEPT ![w] = place]
    <3> DEFINE place == CASE w = "sender" -> "idle"
                          [] sock[conn] = "open" -> "wait"
                          [] OTHER -> "report"
    <3>1. writer' = writer \/ writer' = [writer EXCEPT ![w] = place]
        BY <1>5 DEF SendWrites
    <3>2. place \in {"idle", "wait", "report"}
        OBVIOUS
    <3>3. QED
        BY <3>1, <3>2
  <2>4. writer' \in [Writers -> {"idle", "write", "wait", "report"}]
      BY <1>t, <2>3
  <2>5. QED
      BY <1>t, <2>1, <2>2, <2>4 DEF WriterInv
<1>6. CASE WhoReturns
  <2>1. /\ online' = onlineCount /\ UNCHANGED <<reported, crashed>>
        /\ writer' = [writer EXCEPT !["status"] = "report"]
      BY <1>6 DEF WhoReturns
  <2>2. writer' \in [Writers -> {"idle", "write", "wait", "report"}]
      BY <1>t, <2>1
  <2>3. QED
      BY <2>1, <2>2 DEF WriterInv, DumpInv
<1>7. CASE Reports
  <2>1. /\ reported' = [count |-> online, up |-> isConnected] /\ UNCHANGED <<online, crashed>>
        /\ writer' = [writer EXCEPT !["status"] = "idle"]
      BY <1>7 DEF Reports
  <2>2. writer' \in [Writers -> {"idle", "write", "wait", "report"}]
      BY <1>t, <2>1
  <2>3. reported' \in [count : Nat, up : BOOLEAN]
      BY <1>t, <2>1 DEF PlaceInv
  <2>4. QED
      BY <2>1, <2>2, <2>3 DEF WriterInv
<1>8. QED
    BY <1>0, <1>1, <1>2, <1>3, <1>4, <1>5, <1>6, <1>7 DEF Next, Goroutines

-----------------------------------------------------------------------------
(* The theorems.                                                           *)
LEMMA SourceInit == Init => SourceInv
<1> SUFFICES ASSUME Init PROVE SourceInv
    OBVIOUS
<1>1. \A r \in Readers : reader[r] = "none"
    BY DEF Init
<1>2. /\ isConnected \in BOOLEAN /\ isInitialState \in BOOLEAN /\ server \in BOOLEAN
      /\ muddled \in BOOLEAN /\ isPlayerDump \in BOOLEAN /\ late \in BOOLEAN /\ crashed \in BOOLEAN
    BY Zenon DEF Init
<1>3. PlaceInv
    BY <1>2 DEF Init, PlaceInv
<1>4. KeeperInv /\ ReaderInv /\ SocketInv
    BY <1>1 DEF Init, KeeperInv, ReaderInv, SocketInv, Active, Connecting, First
<1>5. TruthInv
    BY <1>1 DEF Init, TruthInv, Announcing
<1>6. WireInv
    BY <1>2, EmptyWire, SourceLinkAssumption DEF Init, WireInv
<1>7. DumpInv
    BY <1>2 DEF Init, DumpInv
<1>8. WriterInv
  <2>1. reported \in [count : Nat, up : BOOLEAN]
      BY DEF Init
  <2>2. QED
      BY <1>2, <2>1 DEF Init, WriterInv
<1>9. QED
    BY <1>3, <1>4, <1>5, <1>6, <1>7, <1>8 DEF SourceInv, LinkInv

\* The link's invariant holds in every behaviour.
LEMMA SourceInductive == Spec => []SourceInv
<1>1. SourceInv /\ [Next]_vars => SourceInv'
    BY LinkStep, TruthStep, WireStep, DumpStep, WriterStep DEF SourceInv, LinkInv
<1>2. QED
    BY <1>1, SourceInit, PTL DEF Spec

\* Types; a handshake always has a connection to talk on.
THEOREM SourceLinkTypeCorrect == Spec => []TypeOK
<1>1. SourceInv => TypeOK
  <2> SUFFICES ASSUME SourceInv PROVE TypeOK
      OBVIOUS
  <2>1. PlaceInv /\ KeeperInv /\ WireInv /\ DumpInv /\ WriterInv
      BY DEF SourceInv, LinkInv
  <2>2. keeper \in {"sleep", "dial", "dialFirst", "shake", "shakeFirst", "started",
                    "startedFirst", "announce"}
      BY <2>1 DEF PlaceInv, Connecting, First
  <2>3. QED
      BY <2>1, <2>2 DEF TypeOK, PlaceInv, KeeperInv, WireInv, DumpInv, WriterInv
<1>2. QED
    BY <1>1, SourceInductive, PTL

\* Connect and Disconnect replace t.conn under the readers' feet: there is
\* still one reader at most, it never meets nil, and no connection leaks.
THEOREM OneReaderAtATime == Spec => []OneReader
<1>1. SourceInv => OneReader
  <2> SUFFICES ASSUME SourceInv PROVE OneReader
      OBVIOUS
  <2>1. ReaderInv /\ SocketInv
      BY DEF SourceInv, LinkInv
  <2> DEFINE A == {r \in Readers : reader[r] \in {"read", "close", "clear"}}
  <2>2. A = {} \/ \E r : A = {r}
      BY <2>1 DEF ReaderInv, Active
  <2>3. Cardinality(A) <= 1
    <3> HIDE DEF A
    <3>1. CASE A = {}
        BY <3>1, FS_EmptySet
    <3>2. CASE \E r : A = {r}
      <4>1. PICK r : A = {r}
          BY <3>2
      <4>2. Cardinality({r}) = 1
          BY FS_Singleton, Zenon
      <4>3. QED
          BY <4>1, <4>2
    <3>3. QED
        BY <2>2, <3>1, <3>2
  <2>4. QED
      BY <2>1, <2>3 DEF OneReader, ReaderInv, SocketInv
<1>2. QED
    BY <1>1, SourceInductive, PTL

\* Whatever breaks and however often, the last announcement is true once the
\* announcers are done, unless one failed or a reconnect overtook a loss.
THEOREM AnnouncementsAreTrue == Spec => []AnnouncedTruth
<1>1. SourceInv => AnnouncedTruth
    BY DEF SourceInv, TruthInv, AnnouncedTruth
<1>2. QED
    BY <1>1, SourceInductive, PTL

=============================================================================
