----------------------------- MODULE AgentLink -----------------------------
(***************************************************************************)
(* An agent's link to the hub (agent/agent.go): the connection loop with   *)
(* its backoff, one writer goroutine per session that drains the outbound  *)
(* queue and sends heartbeats, the reader with its ping handler, and       *)
(* Disconnect, which may come at any moment.                               *)
(*                                                                         *)
(* The queue outlives sessions and so may a writer: when a session ends    *)
(* its writer is told by a context, and until it looks it competes with    *)
(* the next session's writer for the queue.  What is written lies in the   *)
(* socket until the hub's reader of that session handles it, which may be  *)
(* after the next session began; an outage loses it.                       *)
(***************************************************************************)
EXTENDS Naturals, Sequences

CONSTANTS
    MaxSessions,    \* bound on the connections made; the last one stays up
    MaxCount,       \* bound on the player count
    MaxChanges,     \* bound on the changes of the player count
    MaxChats,       \* bound on the chat lines published
    QueueLimit,     \* outboundQueue
    MaxBackoff,     \* maxBackoff, in units of minBackoff
    WireLimit,      \* frames a socket holds that the hub has not read
    None            \* no frame

ASSUME LinkAssumption ==
    /\ MaxSessions \in Nat /\ MaxCount \in Nat /\ MaxChanges \in Nat /\ MaxChats \in Nat
    /\ QueueLimit \in Nat \ {0} /\ MaxBackoff \in Nat \ {0} /\ WireLimit \in Nat \ {0}

Sessions == 1 .. MaxSessions
NoSession == 0
Status == [status : 0 .. MaxCount]
Chat   == [chat : 1 .. MaxChats]
Frame  == Status \cup Chat

ASSUME NoneAssumption == None \notin Frame

VARIABLES
    loop,        \* where Agent.loop is
    cur,         \* the session it runs, or ran last
    conn,        \* per session, the agent's socket
    wire,        \* per session, the frames written that the hub has not handled
    aconn,       \* Agent.conn
    isConnected, \* Agent.isConnected
    backoff,     \* the loop's backoff
    reader,      \* what the reader of the current session does
    writer,      \* per session, where its writeLoop is
    hand,        \* per session, the frame its writer is writing
    cancelled,   \* the sessions whose context is done
    out,         \* Agent.out
    count,       \* Agent.playerCount
    changes,     \* changes of the count so far
    chats,       \* chat lines published so far
    stop,        \* where Disconnect is; it cancels Agent.ctx first
    toClose,     \* the socket Disconnect took
    hubCount,    \* the count the hub shows for the current session
    hubLast,     \* history: per session, the last chat line the hub received
    late         \* history: per session, the frames its writer took from the
                 \* queue after its socket was closed

loopVars == <<loop, cur, aconn, isConnected, backoff, reader>>
writerVars == <<writer, hand, late>>
hubVars == <<wire, hubCount, hubLast>>
sourceVars == <<count, changes, chats>>
stopVars == <<stop, toClose>>
vars == <<loop, cur, conn, wire, aconn, isConnected, backoff, reader, writer, hand,
          cancelled, out, count, changes, chats, stop, toClose, hubCount, hubLast, late>>

ctxDone == stop # "no"

-----------------------------------------------------------------------------
(* Agent.loop and Agent.session                                            *)

TopEnds ==
    /\ loop = "top" /\ ctxDone
    /\ loop' = "ended"
    /\ UNCHANGED <<cur, conn, aconn, isConnected, backoff, reader, writerVars, cancelled,
                   out, sourceVars, stopVars, hubVars>>

DialOk ==
    /\ loop = "top" /\ ~ctxDone /\ cur < MaxSessions
    /\ loop' = "hello"
    /\ cur' = cur + 1
    /\ conn' = [conn EXCEPT ![cur + 1] = "open"]
    /\ UNCHANGED <<aconn, isConnected, backoff, reader, writerVars, cancelled, out,
                   sourceVars, stopVars, hubVars>>

DialFails ==
    /\ loop = "top" /\ ~ctxDone
    /\ loop' = "wait"
    /\ UNCHANGED <<cur, conn, aconn, isConnected, backoff, reader, writerVars, cancelled,
                   out, sourceVars, stopVars, hubVars>>

\* The hub refuses the hello, or the link breaks under it.
HelloFails ==
    /\ loop = "hello" /\ conn[cur] = "closed"
    /\ loop' = "wait"
    /\ UNCHANGED <<cur, conn, aconn, isConnected, backoff, reader, writerVars, cancelled,
                   out, sourceVars, stopVars, hubVars>>

\* Welcome: the hub shows no players for a new session.
HelloOk ==
    /\ loop = "hello" /\ conn[cur] = "open"
    /\ loop' = "attach"
    /\ aconn' = cur
    /\ hubCount' = 0
    /\ UNCHANGED <<cur, conn, isConnected, backoff, reader, writerVars, cancelled, out,
                   sourceVars, stopVars, wire, hubLast>>

Attach ==
    /\ loop = "attach"
    /\ loop' = "run"
    /\ isConnected' = TRUE
    /\ reader' = "read"
    /\ writer' = [writer EXCEPT ![cur] = "first"]
    /\ UNCHANGED <<cur, conn, aconn, backoff, hand, late, cancelled, out, sourceVars, stopVars, hubVars>>

\* A read fails, or its deadline passes in silence, and the session returns: its
\* context is cancelled first, its socket closed after that.
SessionEnds ==
    /\ loop = "run" /\ reader = "read"
    /\ conn[cur] = "closed" \/ cur < MaxSessions
    /\ loop' = "closing"
    /\ cancelled' = cancelled \cup {cur}
    /\ UNCHANGED <<cur, conn, aconn, isConnected, backoff, reader, writerVars, out,
                   sourceVars, stopVars, hubVars>>

\* Mutant: the loop ends with the session.
SessionClosesEnds ==
    /\ loop = "closing"
    /\ loop' = "ended"
    /\ conn' = [conn EXCEPT ![cur] = "closed"]
    /\ isConnected' = FALSE
    /\ UNCHANGED <<cur, aconn, backoff, reader, writerVars, cancelled, out, sourceVars,
                   stopVars, hubVars>>

SessionCloses ==
    /\ loop = "closing"
    /\ loop' = "wait"
    /\ conn' = [conn EXCEPT ![cur] = "closed"]
    /\ isConnected' = FALSE
    /\ UNCHANGED <<cur, aconn, backoff, reader, writerVars, cancelled, out, sourceVars,
                   stopVars, hubVars>>

WaitEnds ==
    /\ loop = "wait" /\ ctxDone
    /\ loop' = "ended"
    /\ UNCHANGED <<cur, conn, aconn, isConnected, backoff, reader, writerVars, cancelled,
                   out, sourceVars, stopVars, hubVars>>

BackoffExpires ==
    /\ loop = "wait"
    /\ loop' = "top"
    /\ backoff' = IF isConnected THEN 1
                  ELSE IF 2 * backoff > MaxBackoff THEN MaxBackoff ELSE 2 * backoff
    /\ UNCHANGED <<cur, conn, aconn, isConnected, reader, writerVars, cancelled, out,
                   sourceVars, stopVars, hubVars>>

-----------------------------------------------------------------------------
(* Agent.readLoop: the ping handler writes a pong from the reader.         *)
Ping ==
    /\ loop = "run" /\ reader = "read" /\ conn[cur] = "open"
    /\ reader' = "pong"
    /\ UNCHANGED <<loop, cur, conn, aconn, isConnected, backoff, writerVars, cancelled,
                   out, sourceVars, stopVars, hubVars>>

Pong ==
    /\ loop = "run" /\ reader = "pong"
    /\ reader' = "read"
    /\ UNCHANGED <<loop, cur, conn, aconn, isConnected, backoff, writerVars, cancelled,
                   out, sourceVars, stopVars, hubVars>>

\* The link breaks; both ends see it as a closed socket.
LinkBreaks(s) ==
    /\ conn[s] = "open" /\ s < MaxSessions
    /\ conn' = [conn EXCEPT ![s] = "closed"]
    /\ UNCHANGED <<loopVars, writerVars, cancelled, out, sourceVars, stopVars, hubVars>>

-----------------------------------------------------------------------------
(* Agent.writeLoop and Agent.sendStatus                                    *)

StatusNow == [status |-> count]

Put(s, frame) == wire' = [wire EXCEPT ![s] = Append(@, frame)]

\* The first status: its failure is not looked at.
FirstStatus(s) ==
    /\ writer[s] = "first"
    /\ writer' = [writer EXCEPT ![s] = "select"]
    /\ IF conn[s] = "open" THEN Put(s, StatusNow) ELSE UNCHANGED wire
    /\ UNCHANGED <<loopVars, conn, hand, late, cancelled, out, sourceVars, stopVars,
                   hubCount, hubLast>>

TakeFrame(s) ==
    /\ writer[s] = "select" /\ out # <<>>
    /\ writer' = [writer EXCEPT ![s] = "write"]
    /\ hand' = [hand EXCEPT ![s] = Head(out)]
    /\ out' = Tail(out)
    /\ late' = IF conn[s] = "closed" THEN [late EXCEPT ![s] = @ + 1] ELSE late
    /\ UNCHANGED <<loopVars, conn, cancelled, sourceVars, stopVars, hubVars>>

\* Mutant: there is no heartbeat.
NoHeartbeat(s) == FALSE

Heartbeat(s) ==
    /\ writer[s] = "select"
    /\ writer' = [writer EXCEPT ![s] = "write"]
    /\ hand' = [hand EXCEPT ![s] = StatusNow]
    /\ UNCHANGED <<loopVars, conn, late, cancelled, out, sourceVars, stopVars, hubVars>>

WriterCancelled(s) ==
    /\ writer[s] = "select" /\ s \in cancelled
    /\ writer' = [writer EXCEPT ![s] = "ended"]
    /\ UNCHANGED <<loopVars, conn, hand, late, cancelled, out, sourceVars, stopVars, hubVars>>

Written(s) ==
    /\ writer[s] = "write" /\ conn[s] = "open" /\ Len(wire[s]) < WireLimit
    /\ writer' = [writer EXCEPT ![s] = "select"]
    /\ hand' = [hand EXCEPT ![s] = None]
    /\ Put(s, hand[s])
    /\ UNCHANGED <<loopVars, conn, late, cancelled, out, sourceVars, stopVars, hubCount, hubLast>>

\* The socket is closed, or full until the write's deadline.
MayFail(s) == conn[s] = "closed" \/ (Len(wire[s]) >= WireLimit /\ s < MaxSessions)

\* Mutant: the writer goes on after a failed write.
WriteFailsGoesOn(s) ==
    /\ writer[s] = "write" /\ MayFail(s)
    /\ writer' = [writer EXCEPT ![s] = "select"]
    /\ hand' = [hand EXCEPT ![s] = None]
    /\ conn' = [conn EXCEPT ![s] = "closed"]
    /\ UNCHANGED <<loopVars, late, cancelled, out, sourceVars, stopVars, hubVars>>

\* Mutant: a frame that could not be written goes back to the queue.
WriteFailsRequeues(s) ==
    /\ writer[s] = "write" /\ MayFail(s)
    /\ writer' = [writer EXCEPT ![s] = "ended"]
    /\ hand' = [hand EXCEPT ![s] = None]
    /\ conn' = [conn EXCEPT ![s] = "closed"]
    /\ out' = IF Len(out) < QueueLimit THEN Append(out, hand[s]) ELSE out
    /\ UNCHANGED <<loopVars, late, cancelled, sourceVars, stopVars, hubVars>>

\* The writer closes its socket and ends; the frame is gone.
WriteFails(s) ==
    /\ writer[s] = "write" /\ MayFail(s)
    /\ writer' = [writer EXCEPT ![s] = "ended"]
    /\ hand' = [hand EXCEPT ![s] = None]
    /\ conn' = [conn EXCEPT ![s] = "closed"]
    /\ UNCHANGED <<loopVars, late, cancelled, out, sourceVars, stopVars, hubVars>>

-----------------------------------------------------------------------------
(* The hub's reader of session s.                                          *)

\* It handles a frame: a count is shown while the session is the agent's last.
HubReads(s) ==
    LET frame == Head(wire[s]) IN
    /\ wire[s] # <<>>
    /\ wire' = [wire EXCEPT ![s] = Tail(@)]
    /\ hubCount' = IF frame \in Status /\ s = cur THEN frame.status ELSE hubCount
    /\ hubLast' = IF frame \in Chat THEN [hubLast EXCEPT ![s] = frame.chat] ELSE hubLast
    /\ UNCHANGED <<loopVars, conn, writerVars, cancelled, out, sourceVars, stopVars>>

\* What was on its way when the link broke is lost.
WireLost(s) ==
    /\ conn[s] = "closed" /\ wire[s] # <<>>
    /\ wire' = [wire EXCEPT ![s] = <<>>]
    /\ UNCHANGED <<loopVars, conn, writerVars, cancelled, out, sourceVars, stopVars,
                   hubCount, hubLast>>

-----------------------------------------------------------------------------
(* Agent.enqueue: a full queue gives up its oldest frame; or the new one,   *)
(* when a second sender fills the slot; or one more than it had to, when a  *)
(* writer took a frame after the queue was found full.                      *)
\* Mutant: the queue is not bounded.
EnqueuedUnbounded(frame) == {Append(out, frame)}

Enqueued(frame) ==
    UNION {IF Len(out) < QueueLimit THEN {Append(out, frame)} ELSE {out},
           IF out # <<>> /\ Len(out) + 1 >= QueueLimit THEN {Append(Tail(out), frame)} ELSE {}}

\* Agent.SetPlayerCount, called with a new value.
SetPlayerCount(n) ==
    /\ n # count /\ changes < MaxChanges
    /\ count' = n
    /\ changes' = changes + 1
    /\ \E q \in Enqueued([status |-> n]) : out' = q
    /\ UNCHANGED <<loopVars, conn, writerVars, cancelled, chats, stopVars, hubVars>>

\* Agent.Publish, for a line that is no echo.
PublishChat ==
    /\ chats < MaxChats
    /\ chats' = chats + 1
    /\ \E q \in Enqueued([chat |-> chats + 1]) : out' = q
    /\ UNCHANGED <<loopVars, conn, writerVars, cancelled, count, changes, stopVars, hubVars>>

-----------------------------------------------------------------------------
(* Agent.Disconnect                                                        *)
StopCancels ==
    /\ stop = "no"
    /\ stop' = "cancelled"
    /\ UNCHANGED <<loopVars, conn, writerVars, cancelled, out, sourceVars, toClose, hubVars>>

StopDetaches ==
    /\ stop = "cancelled"
    /\ stop' = "detached"
    /\ toClose' = aconn
    /\ aconn' = NoSession
    /\ UNCHANGED <<loop, cur, isConnected, backoff, reader, conn, writerVars, cancelled,
                   out, sourceVars, hubVars>>

StopCloses ==
    /\ stop = "detached"
    /\ stop' = "done"
    /\ conn' = IF toClose = NoSession THEN conn ELSE [conn EXCEPT ![toClose] = "closed"]
    /\ isConnected' = FALSE
    /\ UNCHANGED <<loop, cur, aconn, backoff, reader, writerVars, cancelled, out,
                   sourceVars, toClose, hubVars>>

-----------------------------------------------------------------------------
Init ==
    /\ loop = "top" /\ cur = NoSession
    /\ conn = [s \in Sessions |-> "none"]
    /\ aconn = NoSession /\ isConnected = FALSE /\ backoff = 1 /\ reader = "read"
    /\ writer = [s \in Sessions |-> "off"]
    /\ hand = [s \in Sessions |-> None]
    /\ cancelled = {} /\ out = <<>>
    /\ count = 0 /\ changes = 0 /\ chats = 0
    /\ stop = "no" /\ toClose = NoSession
    /\ wire = [s \in Sessions |-> <<>>]
    /\ hubCount = 0 /\ hubLast = [s \in Sessions |-> 0]
    /\ late = [s \in Sessions |-> 0]

LoopNext ==
    \/ TopEnds \/ DialOk \/ DialFails \/ HelloFails \/ HelloOk \/ Attach
    \/ SessionEnds \/ SessionCloses \/ WaitEnds \/ BackoffExpires \/ Ping \/ Pong

WriterNext(s) ==
    \/ FirstStatus(s) \/ TakeFrame(s) \/ Heartbeat(s) \/ WriterCancelled(s)
    \/ Written(s) \/ WriteFails(s)

Next ==
    \/ LoopNext
    \/ \E s \in Sessions : WriterNext(s) \/ LinkBreaks(s) \/ HubReads(s) \/ WireLost(s)
    \/ \E n \in 0 .. MaxCount : SetPlayerCount(n)
    \/ PublishChat
    \/ StopCancels \/ StopDetaches \/ StopCloses

\* The goroutines run.  The hub can be reached again and again, so that a dial
\* succeeds in the end; a writer's select chooses among its ready cases at
\* random, so that a due heartbeat is not passed over for ever.
LoopRuns ==
    \/ TopEnds \/ HelloFails \/ HelloOk \/ Attach \/ SessionCloses \/ WaitEnds
    \/ BackoffExpires \/ Pong \/ (SessionEnds /\ conn[cur] = "closed")

Fairness ==
    /\ WF_vars(LoopRuns) /\ SF_vars(DialOk)
    /\ \A s \in Sessions :
        /\ WF_vars(FirstStatus(s) \/ Written(s) \/ WriteFails(s))
        /\ WF_vars(HubReads(s) \/ WireLost(s))
        /\ SF_vars(Heartbeat(s))
    /\ WF_vars(StopDetaches \/ StopCloses)

Spec == Init /\ [][Next]_vars /\ Fairness

-----------------------------------------------------------------------------
TypeOK ==
    /\ loop \in {"top", "hello", "attach", "run", "closing", "wait", "ended"}
    /\ cur \in 0 .. MaxSessions /\ aconn \in 0 .. MaxSessions /\ toClose \in 0 .. MaxSessions
    /\ loop \in {"hello", "attach", "run", "closing"} => cur \in Sessions
    /\ conn \in [Sessions -> {"none", "open", "closed"}]
    /\ isConnected \in BOOLEAN /\ backoff \in 1 .. MaxBackoff
    /\ reader \in {"read", "pong"}
    /\ writer \in [Sessions -> {"off", "first", "select", "write", "ended"}]
    /\ hand \in [Sessions -> Frame \cup {None}]
    /\ cancelled \subseteq Sessions
    /\ out \in Seq(Frame) /\ Len(out) <= QueueLimit
    /\ count \in 0 .. MaxCount /\ changes \in Nat /\ chats \in 0 .. MaxChats
    /\ stop \in {"no", "cancelled", "detached", "done"}
    /\ wire \in [Sessions -> Seq(Frame)]
    /\ hubCount \in 0 .. MaxCount /\ hubLast \in [Sessions -> 0 .. MaxChats]
    /\ late \in [Sessions -> Nat]

\* The lines in a queue, and those that have left it for session s.
ChatIn(q) == {q[i].chat : i \in {j \in DOMAIN q : q[j] \in Chat}}
Held(s) == ChatIn(wire[s]) \cup (IF hand[s] \in Chat THEN {hand[s].chat} ELSE {})

\* The lines that can still arrive.
InTransit == ChatIn(out) \cup UNION {Held(s) : s \in Sessions}

Channel == INSTANCE LossyChannel
           WITH Lanes <- Sessions, sent <- chats, transit <- InTransit, got <- hubLast

\* Agent.out and writeLoop implement the channel: across outages, full queues
\* and writers of two sessions that drain the queue at once, the hub handles no
\* line twice, and the lines of a session in the order of their publication.
ImplementsChannel == Channel!Spec

\* writeLoop: a writer whose socket is closed takes one more frame of the queue
\* at most, though its select may prefer the queue to its context, others close
\* the socket under it and its successor drains the same queue.
OldWriterTakesOne == \A s \in Sessions : late[s] <= 1

\* Session.writeLoop's comment: one goroutine writes to a socket, because the
\* library "does not support concurrent writers".
OneWriterPerSocket == reader = "pong" => writer[cur] \notin {"first", "write"}

\* What the first two rest on.  A session has a writer, and frames on its wire,
\* only once it is attached; a writer holds a frame only while it writes, and one
\* that took a frame late is about to fail or has ended; the chat in the queue is
\* in order and newer than all that has left it, and what left it for a
\* session is in order too and not with another session.
SessionsInv ==
    \A s \in Sessions :
        writer[s] # "off" => s <= cur /\ (s = cur => loop \notin {"hello", "attach"})

WritersInv ==
    \A s \in Sessions :
        /\ (hand[s] # None) = (writer[s] = "write")
        /\ late[s] <= 1
        /\ late[s] = 1 => conn[s] = "closed" /\ writer[s] \in {"write", "ended"}

Ordered(q) ==
    \A i, j \in DOMAIN q : i < j /\ q[i] \in Chat /\ q[j] \in Chat => q[i].chat < q[j].chat

OrderInv ==
    /\ Ordered(out)
    /\ \A n \in ChatIn(out) : n <= chats
    /\ \A s \in Sessions :
          /\ Ordered(wire[s]) /\ hubLast[s] <= chats
          /\ \A m \in Held(s) : hubLast[s] < m /\ m <= chats
          /\ \A n \in ChatIn(out) : hubLast[s] < n /\ \A m \in Held(s) : m < n
          /\ hand[s] \in Chat => \A m \in ChatIn(wire[s]) : m < hand[s].chat
    /\ \A s, t \in Sessions : s # t => Held(s) \cap Held(t) = {}

\* sendStatus: the player count the hub shows becomes the agent's, whichever
\* reports were dropped, lost or taken by an old writer.
StatusConverges == <>[](ctxDone \/ hubCount = count)

\* Agent.loop: until Disconnect the agent always comes back to the hub.
ComesBack == []<>(isConnected \/ ctxDone)

=============================================================================
