-------------------------- MODULE AgentLinkProofs --------------------------
(***************************************************************************)
(* Proofs about AgentLink, for any number of sessions, any queue length    *)
(* and any number of chat lines.                                           *)
(***************************************************************************)
EXTENDS AgentLink, TLAPS

\* A status is no chat.
LEMMA StatusIsNoChat == \A n : [status |-> n] \notin Chat
<1>1. \A c \in Chat : DOMAIN c = {"chat"}
    BY DEF Chat
<1>2. \A n : DOMAIN [status |-> n] = {"status"}
    OBVIOUS
<1>3. QED
    BY <1>1, <1>2

\* What enqueue makes of the queue: the frame is put behind the queue, or
\* behind its tail, or is dropped.
LEMMA EnqueuedForms ==
    ASSUME NEW frame, NEW q \in Enqueued(frame)
    PROVE  \/ q = out
           \/ q = Append(out, frame) /\ Len(out) < QueueLimit
           \/ out # <<>> /\ q = Append(Tail(out), frame)
BY DEF Enqueued

\* enqueue keeps the queue's type and bound.
LEMMA EnqueuedType ==
    ASSUME out \in Seq(Frame), Len(out) <= QueueLimit, NEW frame \in Frame,
           NEW q \in Enqueued(frame)
    PROVE  q \in Seq(Frame) /\ Len(q) <= QueueLimit
<1>1. QueueLimit \in Nat
    BY LinkAssumption
<1>2. CASE q = out
    BY <1>2
<1>3. CASE q = Append(out, frame) /\ Len(out) < QueueLimit
    BY <1>1, <1>3
<1>4. CASE out # <<>> /\ q = Append(Tail(out), frame)
    BY <1>1, <1>4
<1>5. QED
    BY <1>2, <1>3, <1>4, EnqueuedForms

\* A new queue is a queue.
LEMMA EmptyQueue == <<>> \in Seq(Frame) /\ Len(<<>>) = 0
OBVIOUS

\* The head and the tail of a queue.
LEMMA QueueParts ==
    ASSUME NEW q \in Seq(Frame), q # <<>>, Len(q) <= QueueLimit
    PROVE  Head(q) \in Frame /\ Tail(q) \in Seq(Frame) /\ Len(Tail(q)) <= QueueLimit
BY LinkAssumption

\* A frame that is put on a wire, or taken from one, leaves wires.
LEMMA PutType ==
    ASSUME wire \in [Sessions -> Seq(Frame)], NEW s \in Sessions, NEW f \in Frame, Put(s, f)
    PROVE  /\ wire' \in [Sessions -> Seq(Frame)] /\ wire'[s] = Append(wire[s], f)
           /\ \A t \in Sessions \ {s} : wire'[t] = wire[t]
<1>1. Append(wire[s], f) \in Seq(Frame)
    OBVIOUS
<1>2. QED
    BY <1>1 DEF Put

\* The types hold initially and every step keeps them.
LEMMA TypeStep == TypeOK /\ WritersInv /\ [Next]_vars => TypeOK'
<1> SUFFICES ASSUME TypeOK, WritersInv, [Next]_vars PROVE TypeOK'
    OBVIOUS
<1> USE LinkAssumption DEF TypeOK, Sessions, NoSession
<1>1. CASE TopEnds \/ DialFails \/ HelloFails \/ WaitEnds
    BY <1>1 DEF TopEnds, DialFails, HelloFails, WaitEnds, hubVars, writerVars, sourceVars,
                stopVars
<1>0. CASE Ping \/ Pong
    BY <1>0 DEF Ping, Pong, hubVars, writerVars, sourceVars, stopVars
<1>2. CASE DialOk
  <2>1. /\ cur' \in Sessions /\ loop' = "hello"
        /\ conn' \in [Sessions -> {"none", "open", "closed"}]
      BY <1>2 DEF DialOk
  <2>2. UNCHANGED <<aconn, isConnected, backoff, reader, writerVars, cancelled, out,
                    sourceVars, stopVars, hubVars>>
      BY <1>2 DEF DialOk
  <2>3. QED
      BY <2>1, <2>2, SMTT(30) DEF hubVars, writerVars, sourceVars, stopVars
<1>3. CASE HelloOk
  <2>1. /\ loop' = "attach" /\ cur' = cur /\ cur \in Sessions /\ aconn' = cur /\ hubCount' = 0
        /\ UNCHANGED <<conn, isConnected, backoff, reader, writerVars, cancelled, out,
                       sourceVars, stopVars, wire, hubLast>>
      BY <1>3 DEF HelloOk
  <2>2. QED
      BY <2>1, SMTT(30) DEF writerVars, sourceVars, stopVars
<1>4. CASE Attach
    BY <1>4, SMTT(30) DEF Attach, hubVars, sourceVars, stopVars
<1>5. CASE SessionEnds \/ SessionCloses
    BY <1>5 DEF SessionEnds, SessionCloses, hubVars, writerVars, sourceVars, stopVars
<1>6. CASE BackoffExpires
  <2>1. backoff' \in 1 .. MaxBackoff
      BY <1>6 DEF BackoffExpires
  <2>2. QED
      BY <1>6, <2>1 DEF BackoffExpires, hubVars, writerVars, sourceVars, stopVars
<1>7. ASSUME NEW s \in Sessions, WriterNext(s) PROVE TypeOK'
  <2> USE DEF hubVars, loopVars, writerVars, sourceVars, stopVars
  <2>a. StatusNow \in Frame
      BY DEF StatusNow, Frame, Status
  <2>1. CASE FirstStatus(s)
    <3>1. wire' \in [Sessions -> Seq(Frame)]
        BY <2>1, <2>a, PutType DEF FirstStatus
    <3>2. QED
        BY <1>7, <2>1, <3>1 DEF FirstStatus
  <2>2. CASE TakeFrame(s)
    <3>1. Head(out) \in Frame /\ Tail(out) \in Seq(Frame) /\ Len(Tail(out)) <= QueueLimit
        BY <2>2, QueueParts DEF TakeFrame
    <3>2. late' \in [Sessions -> Nat]
      <4>1. late \in [Sessions -> Nat] /\ late[s] + 1 \in Nat
          OBVIOUS
      <4>2. CASE late' = late
          BY <4>1, <4>2
      <4>3. CASE late' = [late EXCEPT ![s] = late[s] + 1]
          BY <4>1, <4>3
      <4>4. QED
          BY <2>2, <4>2, <4>3 DEF TakeFrame
    <3>3. /\ out' \in Seq(Frame) /\ Len(out') <= QueueLimit
          /\ hand' \in [Sessions -> Frame \cup {None}]
          /\ writer' \in [Sessions -> {"off", "first", "select", "write", "ended"}]
        BY <2>2, <3>1 DEF TakeFrame
    <3>4. QED
        BY <2>2, <3>2, <3>3 DEF TakeFrame
  <2>3. CASE Heartbeat(s)
      BY <1>7, <2>3, <2>a DEF Heartbeat
  <2>4. CASE WriterCancelled(s)
      BY <1>7, <2>4 DEF WriterCancelled
  <2>5. CASE Written(s)
    <3>1. hand[s] \in Frame
        BY <2>5 DEF Written, WritersInv
    <3>2. wire' \in [Sessions -> Seq(Frame)]
        BY <2>5, <3>1, PutType DEF Written
    <3>3. QED
        BY <1>7, <2>5, <3>2 DEF Written
  <2>6. CASE WriteFails(s)
      BY <1>7, <2>6 DEF WriteFails
  <2>7. QED
      BY <1>7, <2>1, <2>2, <2>3, <2>4, <2>5, <2>6 DEF WriterNext
<1>8. ASSUME NEW s \in Sessions, LinkBreaks(s) PROVE TypeOK'
    BY <1>8 DEF LinkBreaks, hubVars, loopVars, writerVars, sourceVars, stopVars
<1>9. ASSUME NEW n \in 0 .. MaxCount, SetPlayerCount(n) PROVE TypeOK'
  <2>1. [status |-> n] \in Frame
      BY DEF Frame, Status
  <2>2. out' \in Seq(Frame) /\ Len(out') <= QueueLimit
      BY <1>9, <2>1, EnqueuedType DEF SetPlayerCount
  <2>3. QED
      BY <1>9, <2>2, SMTT(30) DEF SetPlayerCount, hubVars, loopVars, writerVars, stopVars
<1>10. CASE PublishChat
  <2>1. [chat |-> chats + 1] \in Frame
      BY <1>10 DEF PublishChat, Frame, Chat
  <2>2. out' \in Seq(Frame) /\ Len(out') <= QueueLimit
      BY <1>10, <2>1, EnqueuedType DEF PublishChat
  <2>3. QED
      BY <1>10, <2>2, SMTT(30) DEF PublishChat, hubVars, loopVars, writerVars, stopVars
<1>11. CASE StopCancels \/ StopDetaches \/ StopCloses
  <2> USE DEF hubVars, loopVars, writerVars, sourceVars
  <2>1. CASE StopCancels
      BY <2>1 DEF StopCancels
  <2>2. CASE StopDetaches
      BY <2>2 DEF StopDetaches
  <2>3. CASE StopCloses
      BY <2>3 DEF StopCloses
  <2>4. QED
      BY <1>11, <2>1, <2>2, <2>3
<1>12. CASE UNCHANGED vars
    BY <1>12 DEF vars
<1>13. ASSUME NEW s \in Sessions, HubReads(s) PROVE TypeOK'
  <2> DEFINE frame == Head(wire[s])
  <2>1. frame \in Frame /\ Tail(wire[s]) \in Seq(Frame)
      BY <1>13 DEF HubReads
  <2>2. wire' \in [Sessions -> Seq(Frame)]
      BY <1>13, <2>1 DEF HubReads
  <2>3. hubCount' \in 0 .. MaxCount
      BY <1>13 DEF HubReads, Status
  <2>4. hubLast' \in [Sessions -> 0 .. MaxChats]
    <3>1. frame \in Chat => frame.chat \in 0 .. MaxChats
        BY DEF Chat
    <3>2. hubLast' = IF frame \in Chat THEN [hubLast EXCEPT ![s] = frame.chat] ELSE hubLast
        BY <1>13 DEF HubReads
    <3> HIDE DEF frame
    <3>3. QED
        BY <3>1, <3>2
  <2>5. QED
      BY <1>13, <2>2, <2>3, <2>4 DEF HubReads, loopVars, writerVars, sourceVars, stopVars
<1>14. ASSUME NEW s \in Sessions, WireLost(s) PROVE TypeOK'
  <2>1. wire' \in [Sessions -> Seq(Frame)]
      BY <1>14, EmptyQueue DEF WireLost
  <2>2. QED
      BY <1>14, <2>1 DEF WireLost, loopVars, writerVars, sourceVars, stopVars
<1>15. QED
    BY <1>0, <1>1, <1>2, <1>3, <1>4, <1>5, <1>6, <1>7, <1>8, <1>9, <1>10, <1>11, <1>12, <1>13,
       <1>14 DEF Next, LoopNext

\* The types hold initially.
LEMMA TypeInit == Init => TypeOK
<1> SUFFICES ASSUME Init PROVE TypeOK
    OBVIOUS
<1> USE LinkAssumption DEF Init, Sessions, NoSession
<1>1. /\ out \in Seq(Frame) /\ Len(out) <= QueueLimit
      /\ wire \in [Sessions -> Seq(Frame)]
    BY EmptyQueue
<1>2. /\ hand \in [Sessions -> Frame \cup {None}] /\ late \in [Sessions -> Nat]
      /\ hubLast \in [Sessions -> 0 .. MaxChats]
    OBVIOUS
<1>3. /\ conn \in [Sessions -> {"none", "open", "closed"}]
      /\ writer \in [Sessions -> {"off", "first", "select", "write", "ended"}]
    OBVIOUS
<1>4. isConnected \in BOOLEAN /\ cancelled \subseteq Sessions
    OBVIOUS
<1>5. /\ loop \in {"top", "hello", "attach", "run", "closing", "wait", "ended"}
      /\ loop \in {"hello", "attach", "run", "closing"} => cur \in Sessions
      /\ reader \in {"read", "pong"}
      /\ stop \in {"no", "cancelled", "detached", "done"}
    OBVIOUS
<1>6. /\ cur \in 0 .. MaxSessions /\ aconn \in 0 .. MaxSessions
      /\ toClose \in 0 .. MaxSessions /\ backoff \in 1 .. MaxBackoff
      /\ count \in 0 .. MaxCount /\ changes \in Nat /\ chats \in 0 .. MaxChats
      /\ hubCount \in 0 .. MaxCount
    OBVIOUS
<1> QED
    BY <1>1, <1>2, <1>3, <1>4, <1>5, <1>6, Zenon DEF TypeOK

-----------------------------------------------------------------------------
\* A session gets its writer when it is attached, not before.
LEMMA SessionsStep == TypeOK /\ SessionsInv /\ [Next]_vars => SessionsInv'
<1> SUFFICES ASSUME TypeOK, SessionsInv, [Next]_vars PROVE SessionsInv'
    OBVIOUS
<1> USE LinkAssumption DEF TypeOK, SessionsInv, Sessions
<1>1. CASE UNCHANGED <<cur, loop, writer>>
    BY <1>1
<1>2. CASE TopEnds \/ DialFails \/ HelloFails \/ HelloOk \/ SessionEnds \/ SessionCloses
           \/ WaitEnds \/ BackoffExpires
    BY <1>2 DEF TopEnds, DialFails, HelloFails, HelloOk, SessionEnds, SessionCloses,
                WaitEnds, BackoffExpires, writerVars
<1>3. CASE DialOk
    BY <1>3 DEF DialOk, writerVars
<1>4. CASE Attach
    BY <1>4 DEF Attach
<1>5. ASSUME NEW s \in Sessions, WriterNext(s) PROVE SessionsInv'
  <2>1. UNCHANGED <<cur, loop>> /\ writer[s] # "off"
      BY <1>5 DEF WriterNext, FirstStatus, TakeFrame, Heartbeat, WriterCancelled, Written,
                  WriteFails, loopVars
  <2>2. \A t \in Sessions : writer'[t] # "off" => t = s \/ writer[t] # "off"
      BY <1>5 DEF WriterNext, FirstStatus, TakeFrame, Heartbeat, WriterCancelled, Written,
                  WriteFails
  <2>3. QED
      BY <2>1, <2>2
<1>6. QED
    BY <1>1, <1>2, <1>3, <1>4, <1>5
       DEF Next, LoopNext, Ping, Pong, LinkBreaks, HubReads, WireLost, SetPlayerCount,
           PublishChat, StopCancels, StopDetaches, StopCloses, loopVars, writerVars, vars

\* Once its socket is closed a writer takes a frame, fails to write it and ends: a
\* socket stays closed, and no session gets a second writer.
LEMMA WritersStep == TypeOK /\ SessionsInv /\ WritersInv /\ [Next]_vars => WritersInv'
<1> SUFFICES ASSUME TypeOK, SessionsInv, WritersInv, [Next]_vars PROVE WritersInv'
    OBVIOUS
<1> USE NoneAssumption DEF TypeOK, WritersInv
<1>1. ASSUME UNCHANGED <<writer, hand, late>>,
             \A s \in Sessions : late[s] = 1 /\ conn[s] = "closed" => conn'[s] = "closed"
      PROVE  WritersInv'
    BY <1>1
<1>2. CASE DialOk
  <2>1. \A s \in Sessions : s # cur + 1 => conn'[s] = conn[s]
      BY <1>2 DEF DialOk
  <2>2. cur + 1 \in Sessions => writer[cur + 1] = "off"
      BY <1>2, LinkAssumption DEF SessionsInv, Sessions
  <2>3. QED
      BY <1>1, <1>2, <2>1, <2>2 DEF DialOk, writerVars
<1>3. CASE Attach
  <2>1. writer[cur] = "off" /\ cur \in Sessions
      BY <1>3 DEF Attach, SessionsInv
  <2>2. QED
      BY <1>3, <2>1 DEF Attach
<1>4. ASSUME NEW s \in Sessions, WriterNext(s) PROVE WritersInv'
  <2>1. CASE FirstStatus(s)
      BY <1>4, <2>1 DEF FirstStatus
  <2>2. CASE TakeFrame(s)
    <3>1. late[s] = 0
      <4>1. writer[s] = "select" /\ late[s] \in Nat /\ late[s] <= 1
          BY <2>2 DEF TakeFrame
      <4>2. late[s] # 1
          BY <4>1
      <4>3. QED
          BY <4>1, <4>2
    <3>2. Head(out) # None
        BY <2>2 DEF TakeFrame
    <3>3. \A t \in Sessions :
             late'[t] = IF t # s THEN late[t] ELSE IF conn[s] = "closed" THEN 1 ELSE 0
        BY <2>2, <3>1 DEF TakeFrame
    <3>4. QED
        BY <1>4, <2>2, <3>1, <3>2, <3>3 DEF TakeFrame
  <2>3. CASE Heartbeat(s)
    <3>1. StatusNow # None
        BY DEF StatusNow, Frame, Status
    <3>2. QED
        BY <1>4, <2>3, <3>1 DEF Heartbeat
  <2>4. CASE WriterCancelled(s)
      BY <1>4, <2>4 DEF WriterCancelled
  <2>5. CASE Written(s)
      BY <1>4, <2>5 DEF Written
  <2>6. CASE WriteFails(s)
      BY <1>4, <2>6 DEF WriteFails
  <2>7. QED
      BY <1>4, <2>1, <2>2, <2>3, <2>4, <2>5, <2>6 DEF WriterNext
<1>5. ASSUME NEW s \in Sessions, LinkBreaks(s) PROVE WritersInv'
    BY <1>1, <1>5 DEF LinkBreaks, writerVars
<1>6. CASE SessionCloses
    BY <1>1, <1>6 DEF SessionCloses, writerVars
<1>7. CASE StopCloses
    BY <1>1, <1>7 DEF StopCloses, writerVars
<1>8. CASE UNCHANGED <<writer, hand, late, conn>>
    BY <1>1, <1>8
<1>9. QED
    BY <1>2, <1>3, <1>4, <1>5, <1>6, <1>7, <1>8
       DEF Next, LoopNext, TopEnds, DialFails, HelloFails, HelloOk, SessionEnds,
           WaitEnds, BackoffExpires, Ping, Pong, HubReads, WireLost, SetPlayerCount,
           PublishChat, StopCancels, StopDetaches, loopVars, writerVars, vars

-----------------------------------------------------------------------------
(* The chat of a queue without its head, and with one frame more.          *)
LEMMA ChatMembers ==
    \A q, n : n \in ChatIn(q) <=> \E i \in DOMAIN q : q[i] \in Chat /\ n = q[i].chat
BY DEF ChatIn

\* What has left the queue for a session, before and after a step.
LEMMA HeldMembers ==
    /\ \A s, n : n \in Held(s) <=> n \in ChatIn(wire[s]) \/ (hand[s] \in Chat /\ n = hand[s].chat)
    /\ \A s, n : n \in Held(s)'
                    <=> n \in ChatIn(wire'[s]) \/ (hand'[s] \in Chat /\ n = hand'[s].chat)
BY DEF Held

\* A session holds the same lines when neither its wire nor its hand changes.
LEMMA HeldSame ==
    ASSUME NEW s, wire'[s] = wire[s], hand'[s] = hand[s]
    PROVE  Held(s)' = Held(s)
BY DEF Held

\* A session holds the same lines when its wire and its hand together do.
LEMMA HeldEqual ==
    ASSUME NEW s,
           \A n : n \in ChatIn(wire'[s]) \/ (hand'[s] \in Chat /\ n = hand'[s].chat)
                   <=> n \in ChatIn(wire[s]) \/ (hand[s] \in Chat /\ n = hand[s].chat)
    PROVE  Held(s)' = Held(s)
<1>1. \A n : n \in Held(s)' <=> n \in Held(s)
    BY HeldMembers
<1>2. QED
    BY <1>1

\* A queue all of whose frames are in another has no other lines.
LEMMA ChatSubset ==
    ASSUME NEW q, NEW r, \A i \in DOMAIN q : q[i] \in Chat => \E j \in DOMAIN r : r[j] = q[i]
    PROVE  ChatIn(q) \subseteq ChatIn(r)
BY ChatMembers

\* An empty queue has no lines and is in order.
LEMMA EmptyOrder == ChatIn(<<>>) = {} /\ Ordered(<<>>)
BY DEF ChatIn, Ordered

\* Taking the head of a queue takes its oldest line, or none.
LEMMA TailOrder ==
    ASSUME NEW q \in Seq(Frame), q # <<>>, Ordered(q)
    PROVE  /\ Ordered(Tail(q)) /\ ChatIn(Tail(q)) \subseteq ChatIn(q)
           /\ Head(q) \notin Chat => ChatIn(q) = ChatIn(Tail(q))
           /\ Head(q) \in Chat => /\ Head(q).chat \in ChatIn(q)
                                  /\ \A m \in ChatIn(Tail(q)) : Head(q).chat < m
                                  /\ \A m \in ChatIn(q) : m = Head(q).chat \/ m \in ChatIn(Tail(q))
<1> DEFINE r == Tail(q)
           f == Head(q)
<1>1. /\ DOMAIN r = 1 .. Len(q) - 1 /\ DOMAIN q = 1 .. Len(q) /\ Len(q) \in Nat
      /\ f = q[1] /\ 1 \in DOMAIN q
    OBVIOUS
<1>2. \A i \in DOMAIN r : r[i] = q[i + 1]
    OBVIOUS
<1> HIDE DEF r, f
<1>3. \A i \in DOMAIN r : r[i] = q[i + 1] /\ i + 1 \in DOMAIN q /\ 1 < i + 1
    BY <1>1, <1>2
<1>4. \A i \in DOMAIN q : i = 1 \/ \E j \in DOMAIN r : r[j] = q[i]
  <2>1. TAKE i \in DOMAIN q
  <2>2. CASE i # 1
    <3>1. i - 1 \in DOMAIN r /\ i - 1 + 1 = i
        BY <1>1, <2>2
    <3>2. r[i - 1] = q[i]
        BY <1>2, <3>1
    <3>3. QED
        BY <3>1, <3>2
  <2>3. QED
      BY <2>2
<1>5. Ordered(r)
  <2>1. \A i, j \in DOMAIN r : i < j => i + 1 < j + 1
      BY <1>1
  <2>2. QED
      BY <1>3, <2>1 DEF Ordered
<1>6. ChatIn(r) \subseteq ChatIn(q)
    BY <1>3, ChatSubset
<1>7. ASSUME f \notin Chat PROVE ChatIn(q) = ChatIn(r)
  <2>1. ChatIn(q) \subseteq ChatIn(r)
      BY <1>1, <1>4, <1>7, ChatSubset
  <2>2. QED
      BY <1>6, <2>1
<1>8. ASSUME f \in Chat
      PROVE  /\ f.chat \in ChatIn(q)
             /\ \A m \in ChatIn(r) : f.chat < m
             /\ \A m \in ChatIn(q) : m = f.chat \/ m \in ChatIn(r)
  <2>1. f.chat \in ChatIn(q)
      BY <1>1, <1>8, ChatMembers
  <2>2. \A i \in DOMAIN r : r[i] \in Chat => f.chat < r[i].chat
      BY <1>1, <1>3, <1>8 DEF Ordered
  <2>3. \A m \in ChatIn(r) : f.chat < m
      BY <2>2, ChatMembers
  <2>4. \A m \in ChatIn(q) : m = f.chat \/ m \in ChatIn(r)
      BY <1>1, <1>4, ChatMembers
  <2>5. QED
      BY <2>1, <2>3, <2>4
<1>9. QED
    BY <1>5, <1>6, <1>7, <1>8 DEF r, f

\* A queue stays sorted when a newer line is put at its end.
LEMMA AppendOrder ==
    ASSUME NEW q \in Seq(Frame), NEW f \in Frame, Ordered(q),
           f \in Chat => \A m \in ChatIn(q) : m < f.chat
    PROVE  /\ Ordered(Append(q, f))
           /\ \A n : n \in ChatIn(Append(q, f)) <=> n \in ChatIn(q) \/ (f \in Chat /\ n = f.chat)
<1> DEFINE r == Append(q, f)
<1>1. /\ DOMAIN r = 1 .. Len(q) + 1 /\ DOMAIN q = 1 .. Len(q) /\ Len(q) \in Nat
      /\ r[Len(q) + 1] = f
      /\ \A i \in DOMAIN q : r[i] = q[i]
    OBVIOUS
<1> HIDE DEF r
<1>2. /\ \A i \in DOMAIN r : i \in DOMAIN q \/ i = Len(q) + 1
      /\ \A i \in DOMAIN q : i \in DOMAIN r /\ i < Len(q) + 1
      /\ Len(q) + 1 \in DOMAIN r
    BY <1>1
<1>3. f \in Chat => \A i \in DOMAIN q : q[i] \in Chat => q[i].chat < f.chat
    BY ChatMembers
<1>4. Ordered(r)
  <2>1. SUFFICES ASSUME NEW i \in DOMAIN r, NEW j \in DOMAIN r, i < j, r[i] \in Chat, r[j] \in Chat
                 PROVE  r[i].chat < r[j].chat
      BY DEF Ordered
  <2>2. i \in DOMAIN q
      BY <1>1, <2>1
  <2>3. CASE j \in DOMAIN q
      BY <1>1, <2>1, <2>2, <2>3 DEF Ordered
  <2>4. CASE j = Len(q) + 1
      BY <1>1, <1>3, <2>1, <2>2, <2>4
  <2>5. QED
      BY <1>2, <2>3, <2>4
<1>5. ASSUME NEW n
      PROVE  n \in ChatIn(r) <=> n \in ChatIn(q) \/ (f \in Chat /\ n = f.chat)
  <2>1. n \in ChatIn(r) => n \in ChatIn(q) \/ (f \in Chat /\ n = f.chat)
      BY <1>1, <1>2, ChatMembers
  <2>2. n \in ChatIn(q) => n \in ChatIn(r)
      BY <1>1, <1>2, ChatSubset
  <2>3. f \in Chat /\ n = f.chat => n \in ChatIn(r)
      BY <1>1, <1>2, ChatMembers
  <2>4. QED
      BY <2>1, <2>2, <2>3
<1>6. QED
    BY <1>4, <1>5 DEF r

\* What enqueue does to the order: a frame newer than all chat published so far
\* keeps it, and the queue has no other new line.
LEMMA EnqueueOrder ==
    ASSUME TypeOK, OrderInv, NEW f \in Frame, NEW q \in Enqueued(f),
           f \in Chat => f.chat = chats + 1
    PROVE  /\ Ordered(q)
           /\ \A n \in ChatIn(q) : n \in ChatIn(out) \/ (f \in Chat /\ n = chats + 1)
<1>1. /\ out \in Seq(Frame) /\ chats \in Nat /\ Ordered(out)
      /\ \A n \in ChatIn(out) : n \in Nat /\ n <= chats
    BY LinkAssumption, ChatMembers DEF TypeOK, OrderInv, Chat
<1>2. CASE q = out
    BY <1>1, <1>2
<1>3. CASE q = Append(out, f)
    BY <1>1, <1>3, AppendOrder
<1>4. CASE out # <<>> /\ q = Append(Tail(out), f)
  <2> DEFINE t == Tail(out)
  <2>1. t \in Seq(Frame) /\ Ordered(t) /\ ChatIn(t) \subseteq ChatIn(out)
      BY <1>1, <1>4, TailOrder
  <2>2. q = Append(t, f)
      BY <1>4
  <2> HIDE DEF t
  <2>3. QED
      BY <1>1, <2>1, <2>2, AppendOrder
<1>5. QED
    BY <1>2, <1>3, <1>4, EnqueuedForms

-----------------------------------------------------------------------------
\* What each step does to the lines on their way, in the terms the invariant
\* and the refinement share.
Stays(s) == Held(s)' = Held(s) /\ wire'[s] = wire[s] /\ hand'[s] = hand[s]

\* A status on a wire or in a hand is no line.
LEMMA StatusSteps ==
    ASSUME TypeOK, SessionsInv, WritersInv, OrderInv, NEW s \in Sessions,
           FirstStatus(s) \/ Heartbeat(s)
    PROVE  /\ UNCHANGED <<out, chats, hubLast>>
           /\ \A t \in Sessions : /\ ChatIn(wire'[t]) = ChatIn(wire[t]) /\ Ordered(wire'[t])
                                  /\ hand'[t] \in Chat => hand'[t] = hand[t]
                                  /\ Held(t)' = Held(t)
<1>1. StatusNow \in Frame /\ StatusNow \notin Chat
    BY StatusIsNoChat DEF StatusNow, Frame, Status, TypeOK
<1>2. \A t \in Sessions : Ordered(wire[t]) /\ wire[t] \in Seq(Frame)
    BY DEF OrderInv, TypeOK
<1>3. CASE FirstStatus(s)
  <2>1. UNCHANGED <<out, chats, hubLast, hand>> /\ (Put(s, StatusNow) \/ wire' = wire)
      BY <1>3 DEF FirstStatus, sourceVars
  <2>2. CASE Put(s, StatusNow)
    <3>1. wire'[s] = Append(wire[s], StatusNow) /\ \A t \in Sessions \ {s} : wire'[t] = wire[t]
        BY <1>1, <2>2, PutType DEF TypeOK
    <3>2. /\ Ordered(wire'[s])
          /\ \A n : n \in ChatIn(wire'[s]) <=> n \in ChatIn(wire[s])
        BY <1>1, <1>2, <3>1, AppendOrder
    <3>3. ChatIn(wire'[s]) = ChatIn(wire[s])
        BY <3>2
    <3>4. Held(s)' = Held(s)
        BY <2>1, <3>3, HeldEqual
    <3>5. \A t \in Sessions \ {s} : Held(t)' = Held(t)
        BY <2>1, <3>1, HeldSame
    <3>6. QED
        BY <1>2, <2>1, <3>1, <3>2, <3>3, <3>4, <3>5
  <2>3. CASE wire' = wire
    <3>1. \A t \in Sessions : Held(t)' = Held(t)
        BY <2>1, <2>3, HeldSame
    <3>2. QED
        BY <1>2, <2>1, <2>3, <3>1
  <2>4. QED
      BY <2>1, <2>2, <2>3
<1>4. CASE Heartbeat(s)
  <2>1. /\ UNCHANGED <<out, chats, hubLast, wire>>
        /\ \A t \in Sessions : hand'[t] = IF t = s THEN StatusNow ELSE hand[t]
      BY <1>4 DEF Heartbeat, sourceVars, hubVars, TypeOK
  <2>2. hand[s] = None /\ None \notin Chat
      BY <1>4, NoneAssumption DEF Heartbeat, WritersInv, Frame
  <2>3. Held(s)' = Held(s)
      BY <1>1, <2>1, <2>2, HeldEqual
  <2>4. \A t \in Sessions \ {s} : hand'[t] = hand[t] /\ Held(t)' = Held(t)
      BY <2>1, HeldSame
  <2>5. QED
      BY <1>1, <1>2, <2>1, <2>3, <2>4
<1>5. QED
    BY <1>3, <1>4

\* A writer takes the oldest line of the queue, or a status.
LEMMA TakeStep ==
    ASSUME TypeOK, SessionsInv, WritersInv, OrderInv, NEW s \in Sessions, TakeFrame(s)
    PROVE  /\ UNCHANGED <<chats, hubLast, wire>>
           /\ Ordered(out') /\ ChatIn(out') \subseteq ChatIn(out)
           /\ \A t \in Sessions \ {s} : Stays(t)
           /\ Held(s) = ChatIn(wire[s])
           /\ \/ Held(s)' = Held(s) /\ hand'[s] \notin Chat
              \/ /\ hand'[s] \in Chat /\ hand'[s].chat \in ChatIn(out)
                 /\ \A n : n \in Held(s)' <=> n \in Held(s) \/ n = hand'[s].chat
                 /\ \A n \in ChatIn(out') : hand'[s].chat < n
<1>1. /\ UNCHANGED <<chats, hubLast, wire>> /\ out # <<>> /\ out' = Tail(out)
      /\ \A t \in Sessions : hand'[t] = IF t = s THEN Head(out) ELSE hand[t]
    BY DEF TakeFrame, sourceVars, hubVars, TypeOK
<1>2. hand[s] = None /\ None \notin Chat
    BY NoneAssumption DEF TakeFrame, WritersInv, Frame
<1>3. out \in Seq(Frame) /\ Ordered(out)
    BY DEF TypeOK, OrderInv
<1>4. Held(s) = ChatIn(wire[s])
    BY <1>2, HeldMembers
<1>5. \A t \in Sessions \ {s} : Stays(t)
    BY <1>1, HeldSame DEF Stays
<1>6. CASE Head(out) \notin Chat
  <2>1. Held(s)' = Held(s)
      BY <1>1, <1>2, <1>6, HeldEqual
  <2>2. QED
      BY <1>1, <1>3, <1>4, <1>5, <1>6, <2>1, TailOrder
<1>7. CASE Head(out) \in Chat
    BY <1>1, <1>3, <1>4, <1>5, <1>7, TailOrder, HeldMembers
<1>8. QED
    BY <1>6, <1>7

\* A write moves the line in the hand to the wire.
LEMMA WriteStep ==
    ASSUME TypeOK, SessionsInv, WritersInv, OrderInv, NEW s \in Sessions, Written(s)
    PROVE  /\ UNCHANGED <<out, chats, hubLast>> /\ Ordered(wire'[s]) /\ hand'[s] \notin Chat
           /\ \A t \in Sessions : Held(t)' = Held(t)
           /\ \A t \in Sessions \ {s} : Stays(t)
<1>1. /\ UNCHANGED <<out, chats, hubLast>> /\ Put(s, hand[s])
      /\ \A t \in Sessions : hand'[t] = IF t = s THEN None ELSE hand[t]
    BY DEF Written, sourceVars, TypeOK
<1>2. hand[s] \in Frame /\ None \notin Chat
    BY NoneAssumption DEF Written, WritersInv, Frame, TypeOK
<1>3. wire'[s] = Append(wire[s], hand[s]) /\ \A t \in Sessions \ {s} : wire'[t] = wire[t]
    BY <1>1, <1>2, PutType DEF TypeOK
<1>4. /\ wire[s] \in Seq(Frame) /\ Ordered(wire[s])
      /\ hand[s] \in Chat => \A m \in ChatIn(wire[s]) : m < hand[s].chat
    BY DEF TypeOK, OrderInv
<1>5. /\ Ordered(wire'[s])
      /\ \A n : n \in ChatIn(wire'[s])
                   <=> n \in ChatIn(wire[s]) \/ (hand[s] \in Chat /\ n = hand[s].chat)
    BY <1>2, <1>3, <1>4, AppendOrder
<1>6. \A t \in Sessions \ {s} : Stays(t)
    BY <1>1, <1>3, HeldSame DEF Stays
<1>7. Held(s)' = Held(s)
    BY <1>1, <1>2, <1>5, HeldMembers
<1>8. QED
    BY <1>1, <1>2, <1>5, <1>6, <1>7 DEF Stays

\* A failed write loses the line in the hand, a broken link what is on the wire.
LEMMA LossStep ==
    ASSUME TypeOK, SessionsInv, WritersInv, OrderInv, NEW s \in Sessions,
           WriteFails(s) \/ WireLost(s)
    PROVE  /\ UNCHANGED <<out, chats, hubLast>> /\ Ordered(wire'[s])
           /\ ChatIn(wire'[s]) \subseteq ChatIn(wire[s])
           /\ hand'[s] \in Chat => hand'[s] = hand[s]
           /\ Held(s)' \subseteq Held(s)
           /\ \A t \in Sessions \ {s} : Stays(t)
<1>1. None \notin Chat /\ Ordered(wire[s])
    BY NoneAssumption DEF OrderInv, Frame
<1>2. CASE WriteFails(s)
  <2>1. /\ UNCHANGED <<out, chats, hubLast, wire>>
        /\ \A t \in Sessions : hand'[t] = IF t = s THEN None ELSE hand[t]
      BY <1>2 DEF WriteFails, sourceVars, hubVars, TypeOK
  <2>2. \A t \in Sessions \ {s} : Stays(t)
      BY <2>1, HeldSame DEF Stays
  <2>3. Held(s)' \subseteq Held(s)
      BY <1>1, <2>1, HeldMembers
  <2>4. QED
      BY <1>1, <2>1, <2>2, <2>3
<1>3. CASE WireLost(s)
  <2>1. /\ UNCHANGED <<out, chats, hubLast, hand>>
        /\ \A t \in Sessions : wire'[t] = IF t = s THEN <<>> ELSE wire[t]
      BY <1>3 DEF WireLost, sourceVars, writerVars, TypeOK
  <2>2. QED
      BY <1>1, <2>1, EmptyOrder, HeldMembers DEF Stays
<1>4. QED
    BY <1>2, <1>3

\* The hub handles the oldest line of a wire, or a status.
LEMMA ReadStep ==
    ASSUME TypeOK, SessionsInv, WritersInv, OrderInv, NEW s \in Sessions, HubReads(s)
    PROVE  /\ UNCHANGED <<out, chats, hand>> /\ Ordered(wire'[s])
           /\ ChatIn(wire'[s]) \subseteq ChatIn(wire[s])
           /\ \A t \in Sessions \ {s} : Stays(t)
           /\ \/ hubLast' = hubLast /\ Held(s)' = Held(s)
              \/ \E n \in Held(s) : /\ hubLast' = [hubLast EXCEPT ![s] = n]
                                    /\ Held(s)' = Held(s) \ {n}
                                    /\ \A m \in Held(s)' : n < m
<1> DEFINE f == Head(wire[s])
<1>1. /\ UNCHANGED <<out, chats, hand>> /\ wire[s] # <<>>
      /\ wire'[s] = Tail(wire[s])
      /\ \A t \in Sessions \ {s} : wire'[t] = wire[t]
      /\ hubLast' = IF f \in Chat THEN [hubLast EXCEPT ![s] = f.chat] ELSE hubLast
    BY DEF HubReads, sourceVars, writerVars, TypeOK
<1>2. /\ wire[s] \in Seq(Frame) /\ Ordered(wire[s])
      /\ hand[s] \in Chat => \A m \in ChatIn(wire[s]) : m < hand[s].chat
    BY DEF TypeOK, OrderInv
<1>3. \A t \in Sessions \ {s} : Stays(t)
    BY <1>1, HeldMembers DEF Stays
<1>4. /\ Ordered(wire'[s]) /\ ChatIn(wire'[s]) \subseteq ChatIn(wire[s])
      /\ f \notin Chat => ChatIn(wire[s]) = ChatIn(wire'[s])
      /\ f \in Chat => /\ f.chat \in ChatIn(wire[s])
                       /\ \A m \in ChatIn(wire'[s]) : f.chat < m
                       /\ \A m \in ChatIn(wire[s]) : m = f.chat \/ m \in ChatIn(wire'[s])
    BY <1>1, <1>2, TailOrder
<1> HIDE DEF f
<1>5. CASE f \notin Chat
    BY <1>1, <1>3, <1>4, <1>5, HeldMembers
<1>6. CASE f \in Chat
  <2>1. f.chat \in Held(s)
      BY <1>4, <1>6, HeldMembers
  <2>2. \A m \in Held(s)' : f.chat < m
      BY <1>1, <1>2, <1>4, <1>6, HeldMembers
  <2>3. \A m \in Held(s) : m = f.chat \/ m \in Held(s)'
      BY <1>1, <1>4, <1>6, HeldMembers
  <2>4. Held(s)' \subseteq Held(s) /\ f.chat \notin Held(s)'
    <3>1. \A m \in Nat : ~(m < m)
        OBVIOUS
    <3>2. f.chat \in Nat
        BY <1>6 DEF Chat
    <3>3. QED
        BY <1>1, <1>4, <2>2, <3>1, <3>2, HeldMembers
  <2>5. Held(s)' = Held(s) \ {f.chat}
      BY <2>3, <2>4
  <2>6. QED
      BY <1>1, <1>3, <1>4, <1>6, <2>1, <2>2, <2>5
<1>7. QED
    BY <1>5, <1>6

\* Chat stays in order on its way through the queue, the hands and the wires.
LEMMA OrderStep ==
    TypeOK /\ SessionsInv /\ WritersInv /\ OrderInv /\ [Next]_vars => OrderInv'
<1> SUFFICES ASSUME TypeOK, SessionsInv, WritersInv, OrderInv, [Next]_vars PROVE OrderInv'
    OBVIOUS
<1>a. /\ chats \in Nat /\ \A s \in Sessions : hubLast[s] \in Nat
      /\ \A n \in ChatIn(out) : n \in Nat
      /\ \A s \in Sessions : Held(s) \subseteq Nat
      /\ \A s \in Sessions : hand[s] \in Chat => hand[s].chat \in Held(s)
      /\ \A s \in Sessions : ChatIn(wire[s]) \subseteq Held(s)
  <2>1. chats \in Nat /\ \A s \in Sessions : hubLast[s] \in Nat
      BY LinkAssumption DEF TypeOK
  <2>2. \A c \in Chat : c.chat \in Nat
      BY DEF Chat
  <2>3. \A q : ChatIn(q) \subseteq Nat
      BY <2>2, ChatMembers
  <2>4. QED
      BY <2>1, <2>2, <2>3, HeldMembers
<1>b. /\ Ordered(out) /\ \A n \in ChatIn(out) : n <= chats
      /\ \A s \in Sessions :
            /\ Ordered(wire[s]) /\ hubLast[s] <= chats
            /\ \A m \in Held(s) : hubLast[s] < m /\ m <= chats
            /\ \A n \in ChatIn(out) : hubLast[s] < n /\ \A m \in Held(s) : m < n
            /\ hand[s] \in Chat => \A m \in ChatIn(wire[s]) : m < hand[s].chat
      /\ \A s, t \in Sessions : s # t => Held(s) \cap Held(t) = {}
    BY DEF OrderInv
<1>1. ASSUME Ordered(out'), \A n \in ChatIn(out') : n <= chats',
             \A s \in Sessions :
                /\ Ordered(wire'[s]) /\ hubLast'[s] <= chats'
                /\ \A m \in Held(s)' : hubLast'[s] < m /\ m <= chats'
                /\ \A n \in ChatIn(out') : hubLast'[s] < n /\ \A m \in Held(s)' : m < n
                /\ hand'[s] \in Chat => \A m \in ChatIn(wire'[s]) : m < hand'[s].chat,
             \A s, t \in Sessions : s # t => Held(s)' \cap Held(t)' = {}
      PROVE  OrderInv'
    BY <1>1 DEF OrderInv
<1>2. CASE UNCHANGED <<hand, out, hubLast, chats, wire>>
    BY <1>2 DEF OrderInv, Held
<1>3. ASSUME UNCHANGED <<hand, hubLast, wire>>, chats' \in Nat, chats <= chats', Ordered(out'),
             \A n \in ChatIn(out') : n \in ChatIn(out) \/ (n = chats + 1 /\ n = chats')
      PROVE  OrderInv'
  <2>1. \A s \in Sessions : Held(s)' = Held(s)
      BY <1>3, HeldSame
  <2>2. \A n \in ChatIn(out') : n <= chats'
      BY <1>a, <1>b, <1>3
  <2>3. ASSUME NEW s \in Sessions
        PROVE  /\ Ordered(wire'[s]) /\ hubLast'[s] <= chats'
               /\ \A m \in Held(s)' : hubLast'[s] < m /\ m <= chats'
               /\ \A n \in ChatIn(out') : hubLast'[s] < n /\ \A m \in Held(s)' : m < n
               /\ hand'[s] \in Chat => \A m \in ChatIn(wire'[s]) : m < hand'[s].chat
    <3>1. hubLast[s] <= chats
        BY <1>b DEF OrderInv
    <3>2. QED
        BY <1>a, <1>b, <1>3, <2>1, <3>1
  <2>4. QED
      BY <1>1, <1>b, <1>3, <2>1, <2>2, <2>3
<1>4. ASSUME NEW n \in 0 .. MaxCount, SetPlayerCount(n) PROVE OrderInv'
  <2>1. [status |-> n] \in Frame /\ [status |-> n] \notin Chat
      BY StatusIsNoChat DEF Frame, Status
  <2>2. Ordered(out') /\ \A m \in ChatIn(out') : m \in ChatIn(out)
      BY <1>4, <2>1, EnqueueOrder DEF SetPlayerCount
  <2>3. UNCHANGED <<hand, hubLast, chats, wire>>
      BY <1>4 DEF SetPlayerCount, writerVars, hubVars
  <2>4. QED
      BY <1>3, <1>a, <2>2, <2>3
<1>5. CASE PublishChat
  <2>1. [chat |-> chats + 1] \in Frame /\ [chat |-> chats + 1].chat = chats + 1
      BY <1>5, <1>a, LinkAssumption DEF PublishChat, Frame, Chat, TypeOK
  <2>2. Ordered(out') /\ \A m \in ChatIn(out') : m \in ChatIn(out) \/ m = chats + 1
      BY <1>5, <2>1, EnqueueOrder DEF PublishChat
  <2>3. UNCHANGED <<hand, hubLast, wire>> /\ chats' = chats + 1
      BY <1>5 DEF PublishChat, writerVars, hubVars
  <2>4. QED
      BY <1>3, <1>a, <2>2, <2>3
<1>6. ASSUME NEW s \in Sessions, FirstStatus(s) \/ Heartbeat(s) PROVE OrderInv'
  <2>1. /\ UNCHANGED <<out, chats, hubLast>>
        /\ \A t \in Sessions : /\ ChatIn(wire'[t]) = ChatIn(wire[t]) /\ Ordered(wire'[t])
                               /\ hand'[t] \in Chat => hand'[t] = hand[t]
                               /\ Held(t)' = Held(t)
      BY <1>6, StatusSteps
  <2>2. QED
      BY <1>1, <1>b, <2>1
<1>7. ASSUME NEW s \in Sessions, TakeFrame(s) PROVE OrderInv'
  <2>1. /\ UNCHANGED <<chats, hubLast, wire>>
        /\ Ordered(out') /\ ChatIn(out') \subseteq ChatIn(out)
        /\ \A t \in Sessions \ {s} : Stays(t)
        /\ Held(s) = ChatIn(wire[s])
        /\ \/ Held(s)' = Held(s) /\ hand'[s] \notin Chat
           \/ /\ hand'[s] \in Chat /\ hand'[s].chat \in ChatIn(out)
              /\ \A n : n \in Held(s)' <=> n \in Held(s) \/ n = hand'[s].chat
              /\ \A n \in ChatIn(out') : hand'[s].chat < n
      BY <1>7, TakeStep
  <2>2. \A t \in Sessions \ {s} : Held(t)' = Held(t) /\ hand'[t] = hand[t]
      BY <2>1 DEF Stays
  <2>3. CASE Held(s)' = Held(s) /\ hand'[s] \notin Chat
      BY <1>1, <1>b, <2>1, <2>2, <2>3
  <2>4. CASE /\ hand'[s] \in Chat /\ hand'[s].chat \in ChatIn(out)
             /\ \A n : n \in Held(s)' <=> n \in Held(s) \/ n = hand'[s].chat
             /\ \A n \in ChatIn(out') : hand'[s].chat < n
    <3>1. /\ \A m \in Held(s)' : hubLast'[s] < m /\ m <= chats'
          /\ \A n \in ChatIn(out') : hubLast'[s] < n /\ \A m \in Held(s)' : m < n
          /\ \A m \in ChatIn(wire'[s]) : m < hand'[s].chat
        BY <1>a, <1>b, <2>1, <2>4
    <3>2. ASSUME NEW t \in Sessions \ {s}
          PROVE  Held(t)' \cap Held(s)' = {}
      <4>1. hand'[s].chat \notin Held(t)
          BY <1>a, <1>b, <2>4
      <4>2. QED
          BY <1>b, <2>2, <2>4, <4>1
    <3>3. QED
        BY <1>1, <1>b, <2>1, <2>2, <3>1, <3>2
  <2>5. QED
      BY <2>1, <2>3, <2>4
<1>8. ASSUME NEW s \in Sessions, Written(s) PROVE OrderInv'
  <2>1. /\ UNCHANGED <<out, chats, hubLast>> /\ Ordered(wire'[s]) /\ hand'[s] \notin Chat
        /\ \A t \in Sessions : Held(t)' = Held(t)
        /\ \A t \in Sessions \ {s} : wire'[t] = wire[t] /\ hand'[t] = hand[t]
      BY <1>8, WriteStep DEF Stays
  <2>2. QED
      BY <1>1, <1>b, <2>1
<1>9. ASSUME NEW s \in Sessions, WriteFails(s) \/ WireLost(s) PROVE OrderInv'
  <2>1. /\ UNCHANGED <<out, chats, hubLast>> /\ Ordered(wire'[s])
        /\ ChatIn(wire'[s]) \subseteq ChatIn(wire[s])
        /\ hand'[s] \in Chat => hand'[s] = hand[s]
        /\ Held(s)' \subseteq Held(s)
        /\ \A t \in Sessions \ {s} : Held(t)' = Held(t) /\ wire'[t] = wire[t] /\ hand'[t] = hand[t]
      BY <1>9, LossStep DEF Stays
  <2>2. \A t, u \in Sessions : t # u => Held(t)' \cap Held(u)' = {}
      BY <1>b, <2>1
  <2>3. QED
      BY <1>1, <1>b, <2>1, <2>2
<1>10. ASSUME NEW s \in Sessions, HubReads(s) PROVE OrderInv'
  <2>1. /\ UNCHANGED <<out, chats, hand>> /\ Ordered(wire'[s])
        /\ ChatIn(wire'[s]) \subseteq ChatIn(wire[s])
        /\ \A t \in Sessions \ {s} : Held(t)' = Held(t) /\ wire'[t] = wire[t]
        /\ \/ hubLast' = hubLast /\ Held(s)' = Held(s)
           \/ \E n \in Held(s) : /\ hubLast' = [hubLast EXCEPT ![s] = n]
                                 /\ Held(s)' = Held(s) \ {n}
                                 /\ \A m \in Held(s)' : n < m
      BY <1>10, ReadStep DEF Stays
  <2>2. Held(s)' \subseteq Held(s) /\ \A t \in Sessions \ {s} : hubLast'[t] = hubLast[t]
      BY <2>1 DEF TypeOK
  <2>3. /\ \A m \in Held(s)' : hubLast'[s] < m
        /\ \A n \in ChatIn(out) : hubLast'[s] < n
      BY <1>b, <2>1 DEF TypeOK
  <2>4. \A t, u \in Sessions : t # u => Held(t)' \cap Held(u)' = {}
      BY <1>b, <2>1, <2>2
  <2>5. ASSUME NEW t \in Sessions
        PROVE  /\ Ordered(wire'[t]) /\ hubLast'[t] <= chats'
               /\ \A m \in Held(t)' : hubLast'[t] < m /\ m <= chats'
               /\ \A n \in ChatIn(out') : hubLast'[t] < n /\ \A m \in Held(t)' : m < n
               /\ hand'[t] \in Chat => \A m \in ChatIn(wire'[t]) : m < hand'[t].chat
    <3>1. CASE t # s
        BY <1>b, <2>1, <2>2, <3>1
    <3>2. CASE t = s
      <4>1. hubLast'[s] <= chats
          BY <1>b, <2>1 DEF TypeOK
      <4>2. QED
          BY <1>b, <2>1, <2>2, <2>3, <3>2, <4>1
    <3>3. QED
        BY <3>1, <3>2
  <2>6. QED
      BY <1>1, <1>b, <2>1, <2>4, <2>5
<1>11. QED
    BY <1>2, <1>4, <1>5, <1>6, <1>7, <1>8, <1>9, <1>10
       DEF Next, LoopNext, WriterNext, TopEnds, DialOk, DialFails, HelloFails, HelloOk,
           Attach, SessionEnds, SessionCloses, WaitEnds, BackoffExpires, Ping, Pong,
           WriterCancelled, LinkBreaks, StopCancels, StopDetaches, StopCloses,
           hubVars, loopVars, writerVars, sourceVars, vars

\* The invariants behind the refinement hold in every behaviour.
LEMMA LinkInvariant == Spec => [](TypeOK /\ SessionsInv /\ WritersInv /\ OrderInv)
<1>1. Init => SessionsInv /\ WritersInv
    BY DEF Init, SessionsInv, WritersInv, Sessions
<1>2. Init => OrderInv
    BY NoneAssumption, EmptyOrder, HeldMembers DEF Init, OrderInv, Frame
<1>3. QED
    BY <1>1, <1>2, TypeInit, TypeStep, SessionsStep, WritersStep, OrderStep, PTL DEF Spec

-----------------------------------------------------------------------------
\* The player count, the queue, the sockets and every goroutine's place stay
\* what they are declared to be; the queue never exceeds its limit.
THEOREM LinkTypeCorrect == Spec => []TypeOK
BY LinkInvariant, PTL

\* The writer of a session takes at most one frame from the queue it shares with
\* its successor after its socket was closed, whoever closed it and however
\* often its select passes over the cancelled context.
THEOREM OldWriterTakesOneFrame == Spec => []OldWriterTakesOne
<1>1. WritersInv => OldWriterTakesOne
    BY DEF WritersInv, OldWriterTakesOne
<1>2. QED
    BY <1>1, LinkInvariant, PTL

-----------------------------------------------------------------------------
(* The refinement of LossyChannel.                                         *)

\* What is in transit, before and after a step.
LEMMA TransitMembers ==
    /\ \A n : n \in InTransit <=> n \in ChatIn(out) \/ \E s \in Sessions : n \in Held(s)
    /\ \A n : n \in InTransit' <=> n \in ChatIn(out') \/ \E s \in Sessions : n \in Held(s)'
BY DEF InTransit

\* Every step of the link is a step of the channel, or none: a writer moves a line
\* from the queue to its hand and on to the wire, the hub's reader delivers the
\* oldest line of a wire, and what breaks, fails or is dropped only loses lines.
LEMMA ChannelStep ==
    TypeOK /\ SessionsInv /\ WritersInv /\ OrderInv /\ [Next]_vars
        => [Channel!Next]_(Channel!vars)
<1> SUFFICES ASSUME TypeOK, SessionsInv, WritersInv, OrderInv, [Next]_vars
             PROVE  Channel!Next \/ UNCHANGED Channel!vars
    OBVIOUS
<1>1. ASSUME UNCHANGED <<hubLast, chats>>, InTransit' \subseteq InTransit
      PROVE  Channel!Next
    BY <1>1 DEF Channel!Next, Channel!Lose
<1>2. ASSUME UNCHANGED <<hubLast, chats>>, ChatIn(out') \subseteq ChatIn(out),
             \A s \in Sessions : Held(s)' \subseteq Held(s)
      PROVE  Channel!Next
  <2>1. InTransit' \subseteq InTransit
      BY <1>2, TransitMembers
  <2>2. QED
      BY <1>1, <1>2, <2>1
<1>3. ASSUME UNCHANGED <<hand, out, hubLast, chats, wire>> PROVE Channel!Next
    BY <1>2, <1>3, HeldMembers
<1>4. ASSUME NEW n \in 0 .. MaxCount, SetPlayerCount(n) PROVE Channel!Next
  <2>1. [status |-> n] \in Frame /\ [status |-> n] \notin Chat
      BY StatusIsNoChat DEF Frame, Status
  <2>2. ChatIn(out') \subseteq ChatIn(out)
      BY <1>4, <2>1, EnqueueOrder DEF SetPlayerCount
  <2>3. UNCHANGED <<hand, hubLast, chats, wire>>
      BY <1>4 DEF SetPlayerCount, writerVars, hubVars
  <2>4. QED
      BY <1>2, <2>2, <2>3, HeldMembers
<1>5. CASE PublishChat
  <2>1. [chat |-> chats + 1] \in Frame /\ [chat |-> chats + 1].chat = chats + 1
      BY <1>5, LinkAssumption DEF PublishChat, Frame, Chat, TypeOK
  <2>2. \A m \in ChatIn(out') : m \in ChatIn(out) \/ m = chats + 1
      BY <1>5, <2>1, EnqueueOrder DEF PublishChat
  <2>3. UNCHANGED <<hand, hubLast, wire>> /\ chats' = chats + 1
      BY <1>5 DEF PublishChat, writerVars, hubVars
  <2>4. \A s \in Sessions : Held(s)' = Held(s)
      BY <2>3, HeldSame
  <2>5. InTransit' \subseteq InTransit \cup {chats + 1}
      BY <2>2, <2>4, TransitMembers
  <2>6. QED
      BY <2>3, <2>5 DEF Channel!Next, Channel!Publish
<1>6. ASSUME NEW s \in Sessions, FirstStatus(s) \/ Heartbeat(s) PROVE Channel!Next
    BY <1>2, <1>6, StatusSteps
<1>7. ASSUME NEW s \in Sessions, TakeFrame(s) PROVE Channel!Next
  <2>1. /\ UNCHANGED <<chats, hubLast>> /\ ChatIn(out') \subseteq ChatIn(out)
        /\ \A t \in Sessions \ {s} : Held(t)' = Held(t)
        /\ \A n \in Held(s)' : n \in Held(s) \/ n \in ChatIn(out)
      BY <1>7, TakeStep DEF Stays
  <2>2. InTransit' \subseteq InTransit
      BY <2>1, TransitMembers
  <2>3. QED
      BY <1>1, <2>1, <2>2
<1>8. ASSUME NEW s \in Sessions, Written(s) PROVE Channel!Next
    BY <1>2, <1>8, WriteStep
<1>9. ASSUME NEW s \in Sessions, WriteFails(s) \/ WireLost(s) PROVE Channel!Next
    BY <1>2, <1>9, LossStep DEF Stays
<1>10. ASSUME NEW s \in Sessions, HubReads(s) PROVE Channel!Next
  <2>1. /\ UNCHANGED <<out, chats>> /\ \A t \in Sessions \ {s} : Held(t)' = Held(t)
        /\ \/ hubLast' = hubLast /\ Held(s)' = Held(s)
           \/ \E n \in Held(s) : hubLast' = [hubLast EXCEPT ![s] = n] /\ Held(s)' = Held(s) \ {n}
      BY <1>10, ReadStep DEF Stays
  <2>2. CASE hubLast' = hubLast /\ Held(s)' = Held(s)
      BY <1>2, <2>1, <2>2
  <2>3. ASSUME NEW n \in Held(s), hubLast' = [hubLast EXCEPT ![s] = n], Held(s)' = Held(s) \ {n}
        PROVE  Channel!Next
    <3>1. n \in InTransit /\ n > hubLast[s] /\ n \in Nat
      <4>1. n \in Nat
          BY HeldMembers, ChatMembers DEF Chat
      <4>2. QED
          BY <4>1, TransitMembers DEF OrderInv, TypeOK
    <3>2. n \notin ChatIn(out) /\ \A t \in Sessions \ {s} : n \notin Held(t)
        BY <3>1 DEF OrderInv
    <3>3. InTransit' = InTransit \ {n}
        BY <2>1, <2>3, <3>2, TransitMembers
    <3>4. QED
        BY <2>1, <2>3, <3>1, <3>3 DEF Channel!Next, Channel!Deliver
  <2>4. QED
      BY <2>1, <2>2, <2>3
<1>11. QED
    BY <1>3, <1>4, <1>5, <1>6, <1>7, <1>8, <1>9, <1>10
       DEF Next, LoopNext, WriterNext, TopEnds, DialOk, DialFails, HelloFails, HelloOk,
           Attach, SessionEnds, SessionCloses, WaitEnds, BackoffExpires, Ping, Pong,
           WriterCancelled, LinkBreaks, StopCancels, StopDetaches, StopCloses,
           hubVars, loopVars, writerVars, sourceVars, vars

\* The agent's link implements the lossy channel: the hub handles no line twice
\* and the lines of a session in the order of their publication, over any number
\* of sessions whose writers drain one queue, whatever is dropped or lost.
THEOREM LinkImplementsChannel == Spec => ImplementsChannel
<1>1. Init => Channel!Init
    BY NoneAssumption, EmptyOrder, HeldMembers DEF Init, Channel!Init, InTransit, Frame
<1>2. QED
    BY <1>1, LinkInvariant, ChannelStep, PTL DEF Spec, ImplementsChannel, Channel!Spec
=============================================================================
