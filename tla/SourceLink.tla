----------------------------- MODULE SourceLink -----------------------------
(***************************************************************************)
(* The telnet connection to the game server and the loops around it        *)
(* (telnet/telnet.go, telnet_online.go, client/client.go).  Goroutines:    *)
(*                                                                         *)
(*   keepalive   Client.loop: calls Telnet.Connect while IsConnected is    *)
(*               false; Connect holds Telnet.mu                            *)
(*   readers     Telnet.loop, one started by every successful Connect;     *)
(*               reads whatever t.conn is, and calls Disconnect, which     *)
(*               takes no lock, when a read fails                          *)
(*   status      the status loop: sends "who", waits, reports the count    *)
(*   sender      Telnet.Send from Discord or the relay                     *)
(*                                                                         *)
(* t.conn and isConnected are read and written without a lock on several   *)
(* of these paths, so each such access is a step of its own.               *)
(***************************************************************************)
EXTENDS Naturals, FiniteSets, Sequences

CONSTANTS
    Readers,    \* loop goroutines that may exist at once
    Sockets,    \* connections the system tells apart
    Players,    \* characters
    NoConn,     \* nil
    MaxFaults   \* bound on what goes wrong or changes: breaks, failed
                \* handshakes, players that come and go, slow dumps

ASSUME SourceLinkAssumption ==
    MaxFaults \in Nat /\ NoConn \notin Sockets /\ IsFiniteSet(Players)

Lines == {"header", "footer"} \cup Players

VARIABLES
    server,         \* external: the game server answers
    players,        \* external: who is in the game
    faults,         \* faults so far
    sock,           \* per socket: "free", "open" or "broken"
    wire,           \* lines the server sent that were not read yet
    footer,         \* per footer on the wire, the number it says
    conn,           \* Telnet.conn
    isConnected,    \* Telnet.isConnected
    isInitialState, \* Telnet.isInitialState
    keeper,         \* where the keepalive loop is
    reader,         \* per reader, where it is
    writer,         \* where the status loop and the sender are
    isPlayerDump,   \* Telnet.isPlayerDump
    late,           \* lastPlayerDump has passed
    dump,           \* Telnet.characters
    characters,     \* characterdb.characters
    onlineCount,    \* characterdb.onlineCount
    online,         \* the status loop's count
    reported,       \* count and source state last given to the agent
    said,           \* the announcement that reached Discord last
    muddled,        \* history: an announcement failed or two crossed
    crashed         \* the process died on a nil connection

external == <<server, players, faults, sock, wire, footer>>
dumpVars == <<isPlayerDump, late, dump, characters, onlineCount>>
vars == <<server, players, faults, sock, wire, footer, conn, isConnected,
          isInitialState, keeper, reader, writer, isPlayerDump, late, dump,
          characters, onlineCount, online, reported, said, muddled, crashed>>

Writers == {"status", "sender"}

\* Telnet.mu is held by Connect.
Locked == keeper # "sleep"

Announcing == {r \in Readers : reader[r] = "announce"}

\* The goroutine that would read the next line.
Listening == {r \in Readers : reader[r] = "read"}

-----------------------------------------------------------------------------
(* The game server and the network.                                        *)
ExternalOnly == UNCHANGED <<conn, isConnected, isInitialState, keeper, reader, writer,
                            dumpVars, online, reported, said, muddled, crashed>>

ServerStops ==
    /\ server /\ faults < MaxFaults
    /\ server' = FALSE /\ faults' = faults + 1
    /\ sock' = [s \in Sockets |-> IF sock[s] = "open" THEN "broken" ELSE sock[s]]
    /\ wire' = <<>> /\ footer' = 0
    /\ ExternalOnly /\ UNCHANGED players

ServerStarts ==
    /\ ~server /\ server' = TRUE
    /\ ExternalOnly /\ UNCHANGED <<players, faults, sock, wire, footer>>

ConnectionBreaks ==
    /\ faults < MaxFaults /\ faults' = faults + 1
    /\ \E s \in Sockets : sock[s] = "open" /\ sock' = [sock EXCEPT ![s] = "broken"]
    /\ wire' = <<>> /\ footer' = 0
    /\ ExternalOnly /\ UNCHANGED <<server, players>>

PlayerComesOrGoes ==
    /\ faults < MaxFaults /\ faults' = faults + 1
    /\ \E p \in Players : players' = IF p \in players THEN players \ {p} ELSE players \cup {p}
    /\ ExternalOnly /\ UNCHANGED <<server, sock, wire, footer>>

\* A second passes since the dump began: the dump is slow, or was cut off.
DumpTakesLong ==
    /\ isPlayerDump /\ ~late /\ late' = TRUE
    /\ IF wire = <<>> THEN UNCHANGED faults ELSE faults < MaxFaults /\ faults' = faults + 1
    /\ UNCHANGED <<server, players, sock, wire, footer, conn, isConnected,
                   isInitialState, keeper, reader, writer, isPlayerDump, dump,
                   characters, onlineCount, online, reported, said, muddled, crashed>>

-----------------------------------------------------------------------------
(* Client.loop and Telnet.Connect.                                         *)
KeeperRest == UNCHANGED <<server, players, writer, dumpVars, online, reported, crashed>>

\* The old connection, left by a handshake that failed, is dropped.
DropOld ==
    /\ sock' = [s \in Sockets |-> IF s = conn THEN "free" ELSE sock[s]]
    /\ wire' = <<>> /\ footer' = 0
    /\ conn' = NoConn

\* Client.Connect connects before the two loops are started.
FirstConnect ==
    /\ isInitialState /\ isInitialState' = FALSE
    /\ keeper' = "dialFirst"
    /\ DropOld
    /\ KeeperRest /\ UNCHANGED <<faults, isConnected, reader, said, muddled>>

\* They run from then on, whether it succeeded or not.
Started == ~isInitialState /\ keeper \notin {"dialFirst", "shakeFirst", "startedFirst"}

\* Client.loop: IsConnected says no, and Connect takes the lock.
Reconnect ==
    /\ ~crashed /\ Started /\ keeper = "sleep" /\ ~isConnected
    /\ keeper' = "dial"
    /\ DropOld
    /\ KeeperRest /\ UNCHANGED <<faults, isConnected, isInitialState, reader, said, muddled>>

Dialling == keeper \in {"dial", "dialFirst"}

\* Dial fails: nobody listens.
DialFails ==
    /\ ~crashed /\ Dialling /\ ~server
    /\ keeper' = "sleep"
    /\ KeeperRest /\ UNCHANGED <<faults, sock, wire, footer, conn, isConnected,
                                 isInitialState, reader, said, muddled>>

\* t.conn is set before the handshake, and Who may write to it.
DialOk ==
    /\ ~crashed /\ Dialling /\ server
    /\ \E s \in Sockets : /\ sock[s] = "free"
                          /\ sock' = [sock EXCEPT ![s] = "open"]
                          /\ conn' = s
    /\ keeper' = IF keeper = "dialFirst" THEN "shakeFirst" ELSE "shake"
    /\ KeeperRest /\ UNCHANGED <<faults, wire, footer, isConnected, isInitialState, reader,
                                 said, muddled>>

Shaking == keeper \in {"shake", "shakeFirst"}

\* The handshake fails or times out: t.conn stays, and isConnected is false.
HandshakeFails ==
    /\ ~crashed /\ Shaking
    /\ IF sock[conn] = "broken" THEN UNCHANGED faults
       ELSE faults < MaxFaults /\ faults' = faults + 1
    /\ keeper' = "sleep"
    /\ KeeperRest /\ UNCHANGED <<sock, conn, wire, footer, isConnected, isInitialState,
                                 reader, said, muddled>>

\* Login, echo off, acceptmessages on; then the reader is started.
HandshakeOk ==
    /\ ~crashed /\ Shaking /\ sock[conn] = "open"
    /\ \E r \in Readers : /\ reader[r] = "none"
                          /\ reader' = [reader EXCEPT ![r] = "read"]
    /\ keeper' = IF keeper = "shakeFirst" THEN "startedFirst" ELSE "started"
    /\ KeeperRest /\ UNCHANGED <<faults, sock, conn, wire, footer, isConnected,
                                 isInitialState, said, muddled>>

\* Only now is isConnected set.  The first connection is not announced.
Connected ==
    /\ ~crashed /\ keeper \in {"started", "startedFirst"}
    /\ isConnected' = TRUE
    /\ keeper' = IF keeper = "started" THEN "announce" ELSE "sleep"
    /\ KeeperRest /\ UNCHANGED <<faults, sock, wire, footer, conn, isInitialState,
                                 reader, said, muddled>>

\* The "serverup" routes, still under the lock; a failure is a warning.
AnnounceUp ==
    /\ ~crashed /\ keeper = "announce"
    /\ keeper' = "sleep"
    /\ \/ said' = "up" /\ muddled' = (muddled \/ Announcing # {} \/ ~isConnected)
       \/ muddled' = TRUE /\ UNCHANGED said
    /\ KeeperRest /\ UNCHANGED <<faults, sock, wire, footer, conn, isConnected,
                                 isInitialState, reader>>

-----------------------------------------------------------------------------
(* Telnet.loop and Telnet.Disconnect.                                      *)
ReaderRest == UNCHANGED <<server, players, faults, isInitialState, keeper, writer,
                          online, reported, crashed>>

\* characterdb.SetCharacters, and the count unless the line states one.
SetCharacters(line) ==
    /\ characters' = dump
    /\ onlineCount' = IF line = "footer" THEN footer ELSE Cardinality(dump)
    /\ isPlayerDump' = FALSE /\ late' = FALSE
    /\ UNCHANGED dump

\* Mutant: the end of a dump does not end it.
ParsePatiently(line) ==
    CASE ~isPlayerDump /\ line = "header" ->
            /\ isPlayerDump' = TRUE /\ late' = FALSE /\ dump' = {}
            /\ UNCHANGED <<characters, onlineCount>>
      [] isPlayerDump /\ line = "footer" ->
            /\ isPlayerDump' = TRUE /\ characters' = dump /\ onlineCount' = footer
            /\ UNCHANGED <<late, dump>>
      [] isPlayerDump /\ line \in Players ->
            dump' = dump \cup {line} /\ UNCHANGED <<isPlayerDump, late, characters, onlineCount>>
      [] OTHER -> UNCHANGED dumpVars

\* Mutant: a dump that took too long is ended, its deadline is kept.
ParseKeepsLate(line) ==
    IF isPlayerDump /\ late
    THEN /\ characters' = dump /\ onlineCount' = Cardinality(dump)
         /\ isPlayerDump' = FALSE /\ UNCHANGED <<late, dump>>
    ELSE ParsePatiently(line)

\* parsePlayerEntries and, unless it claims the line, parsePlayersOnline.  A
\* dump that took too long is ended by the next line, whatever that is; a
\* header that comes in a dump is ignored.
ParseLine(line) ==
    CASE isPlayerDump /\ (late \/ line = "footer") -> SetCharacters(line)
      [] ~isPlayerDump /\ line = "header" ->
            /\ isPlayerDump' = TRUE /\ late' = FALSE /\ dump' = {}
            /\ UNCHANGED <<characters, onlineCount>>
      [] isPlayerDump /\ ~late /\ line \in Players ->
            dump' = dump \cup {line} /\ UNCHANGED <<isPlayerDump, late, characters, onlineCount>>
      [] ~isPlayerDump /\ line = "footer" ->
            onlineCount' = footer /\ UNCHANGED <<isPlayerDump, late, dump, characters>>
      [] OTHER -> UNCHANGED dumpVars

ReadsLine(r) ==
    /\ ~crashed /\ reader[r] = "read" /\ conn # NoConn
    /\ sock[conn] = "open" /\ wire # <<>>
    /\ ParseLine(Head(wire))
    /\ wire' = Tail(wire)
    /\ ReaderRest /\ UNCHANGED <<sock, footer, conn, isConnected, reader, said, muddled>>

\* A read fails, and Disconnect looks at isConnected.
ReadFails(r) ==
    /\ ~crashed /\ reader[r] = "read" /\ conn # NoConn
    /\ sock[conn] # "open"
    /\ reader' = [reader EXCEPT ![r] = IF isConnected THEN "close" ELSE "none"]
    /\ ReaderRest /\ UNCHANGED <<sock, wire, footer, conn, isConnected, dumpVars, said, muddled>>

\* Close, cancel, conn = nil.
Closes(r) ==
    /\ ~crashed /\ reader[r] = "close"
    /\ sock' = [s \in Sockets |-> IF s = conn THEN "free" ELSE sock[s]]
    /\ wire' = <<>> /\ footer' = 0
    /\ conn' = NoConn
    /\ reader' = [reader EXCEPT ![r] = "clear"]
    /\ ReaderRest /\ UNCHANGED <<isConnected, dumpVars, said, muddled>>

\* Mutant: the loop goes on after Disconnect.
ClearsStays(r) ==
    /\ ~crashed /\ reader[r] = "clear"
    /\ isConnected' = FALSE
    /\ reader' = [reader EXCEPT ![r] = "read"]
    /\ ReaderRest /\ UNCHANGED <<sock, wire, footer, conn, dumpVars, said, muddled>>

\* Mutant: the loss is not announced.
ClearsSilently(r) ==
    /\ ~crashed /\ reader[r] = "clear"
    /\ isConnected' = FALSE
    /\ reader' = [reader EXCEPT ![r] = "none"]
    /\ ReaderRest /\ UNCHANGED <<sock, wire, footer, conn, dumpVars, said, muddled>>

\* isConnected = false, after which the keepalive loop may connect again.
Clears(r) ==
    /\ ~crashed /\ reader[r] = "clear"
    /\ isConnected' = FALSE
    /\ reader' = [reader EXCEPT ![r] = "announce"]
    /\ ReaderRest /\ UNCHANGED <<sock, wire, footer, conn, dumpVars, said, muddled>>

\* The "serverdown" routes; the keepalive loop may be faster.
AnnounceDown(r) ==
    /\ ~crashed /\ reader[r] = "announce"
    /\ reader' = [reader EXCEPT ![r] = "none"]
    /\ \/ said' = "down" /\ muddled' = (muddled \/ isConnected \/ keeper = "announce")
       \/ muddled' = TRUE /\ UNCHANGED said
    /\ ReaderRest /\ UNCHANGED <<sock, wire, footer, conn, isConnected, dumpVars>>

-----------------------------------------------------------------------------
(* sendLn, Telnet.Send, Telnet.Who and the status loop.                    *)
WriterRest == UNCHANGED <<server, players, faults, sock, conn, isConnected, isInitialState,
                          keeper, reader, dumpVars, said, muddled>>

\* Send looks at isConnected, Who does not; sendLn then looks at t.conn.
SendChecks(w) ==
    /\ ~crashed /\ writer[w] = "idle" /\ Started
    /\ w = "sender" => isConnected
    /\ IF conn = NoConn
       THEN /\ writer' = [writer EXCEPT ![w] = IF w = "status" THEN "report" ELSE "idle"]
            /\ online' = IF w = "status" THEN 0 ELSE online
       ELSE writer' = [writer EXCEPT ![w] = "write"] /\ UNCHANGED online
    /\ WriterRest /\ UNCHANGED <<wire, footer, reported, crashed>>

\* The server answers a who once the login is over, and when it has answered
\* the last one.
LoggedIn == isConnected \/ keeper = "started"
Answered == sock[conn] = "open" /\ LoggedIn /\ server /\ wire = <<>>

\* t.conn is read again: nil by now is a crash, a broken one an error.
SendWrites(w) ==
    /\ ~crashed /\ writer[w] = "write"
    /\ crashed' = (conn = NoConn)
    /\ IF conn = NoConn
       THEN UNCHANGED <<writer, online, wire, footer>>
       ELSE /\ writer' = [writer EXCEPT ![w] =
                  CASE w = "sender" -> "idle"
                    [] sock[conn] = "open" -> "wait"
                    [] OTHER -> "report"]
            /\ online' = IF w = "status" /\ sock[conn] # "open" THEN 0 ELSE online
            /\ IF w = "status" /\ Answered
               THEN \E order \in [1 .. Cardinality(players) -> players] :
                      /\ \A i, j \in DOMAIN order : order[i] = order[j] => i = j
                      /\ wire' = <<"header">> \o order \o <<"footer">>
                      /\ footer' = Cardinality(players)
               ELSE UNCHANGED <<wire, footer>>
    /\ WriterRest /\ UNCHANGED reported

\* Who waits 100 ms and takes the count, whether the answer was read or not.
WhoReturns ==
    /\ ~crashed /\ writer["status"] = "wait" /\ ~Locked
    /\ online' = onlineCount
    /\ writer' = [writer EXCEPT !["status"] = "report"]
    /\ WriterRest /\ UNCHANGED <<wire, footer, reported, crashed>>

\* SetPlayerCount and SetSourceUp, after which the loop sleeps.
Reports ==
    /\ ~crashed /\ writer["status"] = "report" /\ ~Locked
    /\ reported' = [count |-> online, up |-> isConnected]
    /\ writer' = [writer EXCEPT !["status"] = "idle"]
    /\ WriterRest /\ UNCHANGED <<wire, footer, online, crashed>>

-----------------------------------------------------------------------------
Init ==
    /\ server \in BOOLEAN /\ players = {} /\ faults = 0
    /\ sock = [s \in Sockets |-> "free"] /\ wire = <<>> /\ footer = 0
    /\ conn = NoConn /\ isConnected = FALSE /\ isInitialState = TRUE
    /\ keeper = "sleep" /\ reader = [r \in Readers |-> "none"]
    /\ writer = [w \in Writers |-> "idle"]
    /\ isPlayerDump = FALSE /\ late = FALSE /\ dump = {} /\ characters = {}
    /\ onlineCount = 0 /\ online = 0
    /\ reported = [count |-> 0, up |-> FALSE]
    /\ said = "none" /\ muddled = FALSE /\ crashed = FALSE

Goroutines ==
    \/ FirstConnect
    \/ Reconnect
    \/ DialFails
    \/ DialOk
    \/ HandshakeOk
    \/ Connected
    \/ AnnounceUp
    \/ \E r \in Readers : ReadsLine(r)
    \/ \E r \in Readers : ReadFails(r)
    \/ \E r \in Readers : Closes(r)
    \/ \E r \in Readers : Clears(r)
    \/ \E r \in Readers : AnnounceDown(r)
    \/ \E w \in Writers : SendChecks(w)
    \/ \E w \in Writers : SendWrites(w)
    \/ WhoReturns
    \/ Reports

Next ==
    \/ Goroutines
    \/ HandshakeFails
    \/ ServerStops
    \/ ServerStarts
    \/ ConnectionBreaks
    \/ PlayerComesOrGoes
    \/ DumpTakesLong

Fairness ==
    /\ WF_vars(FirstConnect) /\ WF_vars(Reconnect) /\ WF_vars(DialFails) /\ WF_vars(DialOk)
    /\ WF_vars(HandshakeOk) /\ WF_vars(HandshakeFails)
    /\ WF_vars(Connected) /\ WF_vars(AnnounceUp)
    /\ \A r \in Readers :
          /\ WF_vars(ReadsLine(r)) /\ WF_vars(ReadFails(r)) /\ WF_vars(Closes(r))
          /\ WF_vars(Clears(r)) /\ WF_vars(AnnounceDown(r))
    /\ WF_vars(SendChecks("status")) /\ WF_vars(SendWrites("status"))
    /\ WF_vars(WhoReturns) /\ WF_vars(Reports)
    /\ WF_vars(ServerStarts)

Spec == Init /\ [][Next]_vars /\ Fairness

-----------------------------------------------------------------------------
TypeOK ==
    /\ server \in BOOLEAN /\ players \subseteq Players /\ faults \in 0 .. MaxFaults
    /\ sock \in [Sockets -> {"free", "open", "broken"}]
    /\ wire \in Seq(Lines) /\ footer \in 0 .. Cardinality(Players)
    /\ conn \in Sockets \cup {NoConn}
    /\ isConnected \in BOOLEAN /\ isInitialState \in BOOLEAN
    /\ keeper \in {"sleep", "dial", "dialFirst", "shake", "shakeFirst", "started",
                  "startedFirst", "announce"}
    /\ reader \in [Readers -> {"none", "read", "close", "clear", "announce"}]
    /\ writer \in [Writers -> {"idle", "write", "wait", "report"}]
    /\ isPlayerDump \in BOOLEAN /\ late \in BOOLEAN
    /\ dump \subseteq Players /\ characters \subseteq Players
    /\ onlineCount \in Nat /\ online \in Nat
    /\ reported \in [count : Nat, up : BOOLEAN]
    /\ said \in {"none", "up", "down"} /\ muddled \in BOOLEAN /\ crashed \in BOOLEAN
    /\ late => isPlayerDump
    /\ keeper \in {"shake", "shakeFirst", "started", "startedFirst"} => conn # NoConn

\* Telnet.loop reads t.conn anew for every line, and Connect and Disconnect
\* replace it without stopping the loop: there is still never a second reader
\* on a connection, a reader never finds t.conn nil, Disconnect closes only the
\* connection whose read failed, and every connection but t.conn is closed.
OneReader ==
    /\ Cardinality({r \in Readers : reader[r] \in {"read", "close", "clear"}}) <= 1
    /\ \A r \in Readers : reader[r] \in {"read", "close"} => conn # NoConn
    /\ \A r \in Readers : reader[r] = "close" => sock[conn] # "open"
    /\ \A s \in Sockets : sock[s] # "free" => s = conn

\* The announcements follow the connection: once nobody is announcing, what
\* Discord was told last is how it is, unless an announcement failed or the
\* reconnect overtook the one of the loss.
AnnouncedTruth ==
    ~muddled /\ ~crashed /\ keeper # "announce" /\ Announcing = {} =>
        /\ said = "up" => isConnected
        /\ said = "down" => ~isConnected

\* The reader ended before isConnected was set: nothing notices.
Deaf == isConnected /\ keeper = "sleep" /\ \A r \in Readers : reader[r] \in {"none", "announce"}

Accurate ==
    /\ isConnected /\ Listening # {}
    /\ characters = players /\ onlineCount = Cardinality(players)
    /\ reported = [count |-> Cardinality(players), up |-> TRUE]

\* Client.loop and the status loop: after the last fault the link is up again,
\* the list of players is right (a dump that was cut off or too slow spoils
\* the next one at most) and the agent has reported the right count, unless
\* the process crashed or the reader was lost.
SourceRecovers == <>[](Accurate \/ Deaf \/ crashed)

=============================================================================
