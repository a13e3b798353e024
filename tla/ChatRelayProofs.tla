--------------------------- MODULE ChatRelayProofs ---------------------------
(* Theorems of ChatRelay, for every value of its constants.                *)
EXTENDS ChatRelay, TLAPS

\* Sending a frame to a bounded queue leaves a queue of frames.
LEMMA SendType ==
    ASSUME NEW S, NEW q \in Seq(S), NEW f \in S, NEW r \in SendOutcomes(q, f)
    PROVE  r \in Seq(S)
  <1>1. r \in {q, Append(q, f)} \/ (q # <<>> /\ r = Append(Tail(q), f))
    BY DEF SendOutcomes
  <1>2. CASE r \in {q, Append(q, f)}
    BY <1>2
  <1>3. CASE q # <<>> /\ r = Append(Tail(q), f)
    BY <1>3
  <1>4. QED
    BY <1>1, <1>2, <1>3

\* The rest of a queue, and its first element.
LEMMA TailType ==
    ASSUME NEW S, NEW q \in Seq(S), q # <<>>
    PROVE  Tail(q) \in Seq(S) /\ Head(q) \in S
  OBVIOUS

\* The event NewEvent makes is an event.
LEMMA NewEventType ==
    ASSUME TypeOK, nextId <= MaxEvents, NEW o \in Publishers, NEW ch \in Channels,
           NEW l \in Lines, NEW r \in Roots
    PROVE  NewEvent(o, ch, l, r) \in Event
  BY RelayAssumption DEF TypeOK, NewEvent, Event, Ids, Hops

\* agent.Publish keeps the types of what it touches.
LEMMA AgentPublishType ==
    ASSUME TypeOK, NEW s \in Servers, NEW ch \in Channels, NEW l \in Lines,
           NEW r \in Nat, r = nextId \/ r \in Roots, AgentPublish(s, ch, l, r)
    PROVE  /\ out' \in [Servers -> Seq(Event)]
           /\ echo' \in [Servers -> [Lines -> Nat]]
           /\ nextId' \in Nat \ {0}
           /\ speaker' \in [Ids -> Publishers \cup {None}]
  <1> DEFINE line == Sanitize[l]
  <1>1. CASE line = Blank
    BY <1>1 DEF AgentPublish, TypeOK
  <1>2. CASE line # Blank
    <2>1. line \in Lines
      BY <1>2, RelayAssumption
    <2>2. echo' = [echo EXCEPT ![s][line] = 0]
      BY <1>2 DEF AgentPublish
    <2>3. echo' \in [Servers -> [Lines -> Nat]]
      BY <2>1, <2>2 DEF TypeOK
    <2>4. CASE IsEcho(s, line)
      BY <1>2, <2>3, <2>4 DEF AgentPublish, TypeOK
    <2>5. CASE ~IsEcho(s, line)
      <3>1. /\ nextId <= MaxEvents
            /\ \E q \in SendOutcomes(out[s], NewEvent(s, ch, line, r)) :
                   out' = [out EXCEPT ![s] = q]
            /\ nextId' = nextId + 1
            /\ speaker' = [speaker EXCEPT ![nextId] = s]
        BY <1>2, <2>5 DEF AgentPublish
      <3>2. r \in Roots /\ s \in Publishers
        BY <3>1, RelayAssumption DEF TypeOK, Roots, Ids, Publishers
      <3>3. NewEvent(s, ch, line, r) \in Event
        BY <2>1, <3>1, <3>2, NewEventType
      <3>4. out' \in [Servers -> Seq(Event)]
        BY <3>1, <3>3, SendType DEF TypeOK
      <3>5. speaker' \in [Ids -> Publishers \cup {None}]
        BY <3>1, <3>2 DEF TypeOK
      <3>6. QED
        BY <2>3, <3>1, <3>4, <3>5 DEF TypeOK
    <2>6. QED
      BY <2>4, <2>5
  <1>3. QED
    BY <1>1, <1>2

\* Hub.Publish keeps the types of what it touches.
LEMMA PublishType ==
    ASSUME TypeOK, NEW p \in Publishers, NEW raw \in Event, Publish(p, raw)
    PROVE  /\ seen' \in [current : SUBSET Ids, previous : SUBSET Ids, rotateAt : Nat]
           /\ pub' \in [Publishers -> Fanout \cup {None}]
           /\ handled' \in [Ids -> Nat]
           /\ accepted' \in [Ids -> Nat]
           /\ onDiscord' \in [Roots -> Nat]
  <1> DEFINE e == [raw EXCEPT !.line = Sanitize[raw.line]]
             planned == Valid(e) /\ Routable(e)
             fan == [event |-> [e EXCEPT !.hop = @ + 1], targets |-> Targets(e)]
  <1>1. e.id \in Ids /\ e.root \in Roots /\ e.hop = raw.hop /\ e.id = raw.id
    BY DEF Event
  <1>2. Rotated \in [current : SUBSET Ids, previous : SUBSET Ids, rotateAt : Nat]
    BY RelayAssumption DEF Rotated, TypeOK
  <1>3. Record(e.id) \in [current : SUBSET Ids, previous : SUBSET Ids, rotateAt : Nat]
    BY <1>1, <1>2 DEF Record
  <1>4. seen' \in [current : SUBSET Ids, previous : SUBSET Ids, rotateAt : Nat]
    BY <1>3 DEF Publish, TypeOK
  <1>5. ASSUME planned, Targets(e) # {}  PROVE fan \in Fanout
    <2>1. e.line # Blank /\ e.hop = 0
      BY <1>5 DEF Valid, Routable
    <2>2. [e EXCEPT !.hop = @ + 1] \in Event
      <3>1. e \in Event /\ 1 \in Hops
        BY <2>1, RelayAssumption DEF Event, Hops
      <3> HIDE DEF e
      <3>2. QED
        BY <2>1, <3>1 DEF Event
    <2>3. Targets(e) \in (SUBSET Servers) \ {{}}
      BY <1>5 DEF Targets, TypeOK
    <2>4. QED
      BY <2>2, <2>3 DEF Fanout
  <1>6. pub' = IF planned /\ Targets(e) # {} THEN [pub EXCEPT ![p] = fan] ELSE pub
    BY DEF Publish
  <1>7. pub' \in [Publishers -> Fanout \cup {None}]
    BY <1>5, <1>6 DEF TypeOK
  <1>8. handled' \in [Ids -> Nat] /\ accepted' \in [Ids -> Nat] /\ onDiscord' \in [Roots -> Nat]
    <2>1. /\ handled' \in {handled, [handled EXCEPT ![e.id] = now]}
          /\ accepted' \in {accepted, [accepted EXCEPT ![e.id] = @ + 1]}
          /\ onDiscord' \in {onDiscord, [onDiscord EXCEPT ![e.root] = @ + 1]}
      BY DEF Publish
    <2> HIDE DEF e
    <2>t. /\ now \in Nat /\ handled \in [Ids -> Nat] /\ accepted \in [Ids -> Nat]
          /\ onDiscord \in [Roots -> Nat] /\ e.id \in Ids /\ e.root \in Roots
      BY <1>1 DEF TypeOK
    <2>2. handled' \in [Ids -> Nat]
      <3>1. [handled EXCEPT ![e.id] = now] \in [Ids -> Nat]
        BY <2>t, Zenon
      <3>2. QED
        BY <2>1, <2>t, <3>1
    <2>3. accepted' \in [Ids -> Nat]
      <3>1. accepted[e.id] + 1 \in Nat
        BY <2>t
      <3>2. [accepted EXCEPT ![e.id] = @ + 1] \in [Ids -> Nat]
        BY <2>t, <3>1, Zenon
      <3>3. QED
        BY <2>1, <2>t, <3>2
    <2>4. onDiscord' \in [Roots -> Nat]
      <3>1. onDiscord[e.root] + 1 \in Nat
        BY <2>t
      <3>2. [onDiscord EXCEPT ![e.root] = @ + 1] \in [Roots -> Nat]
        BY <2>t, <3>1, Zenon
      <3>3. QED
        BY <2>1, <2>t, <3>2
    <2>5. QED
      BY <2>2, <2>3, <2>4
  <1>9. QED
    BY <1>4, <1>7, <1>8

\* agent.inject and injectTestLine keep the types of what they touch.
LEMMA WriteToGameType ==
    ASSUME TypeOK, NEW t \in Servers, NEW l \in Lines, NEW ch \in Channels,
           NEW r \in Roots, WriteToGame(t, l, ch, r)
    PROVE  /\ echo' \in [Servers -> [Lines -> Nat]]
           /\ owed' \in [Servers -> Seq(Owed)]
           /\ injected' \in [Servers -> [Ids -> Nat]]
  <1>1. Pruned(t) \in [Lines -> Nat]
    BY DEF Pruned, Unexpired, TypeOK
  <1>2. Remembered(t, l) \in [Lines -> Nat]
    BY <1>1, RelayAssumption DEF Remembered, TypeOK
  <1>3. echo' \in [Servers -> [Lines -> Nat]]
    BY <1>2 DEF WriteToGame, TypeOK
  <1>4. [line |-> l, channel |-> ch, root |-> r, at |-> now] \in Owed
    BY DEF Owed, TypeOK
  <1>5. owed' \in [Servers -> Seq(Owed)]
    <2>1. Append(owed[t], [line |-> l, channel |-> ch, root |-> r, at |-> now]) \in Seq(Owed)
      BY <1>4 DEF TypeOK
    <2>2. QED
      BY <2>1 DEF WriteToGame, TypeOK
  <1>6. injected' \in [Servers -> [Ids -> Nat]]
    <2>1. CASE r = TestRoot
      BY <2>1 DEF WriteToGame, TypeOK
    <2>2. CASE r # TestRoot
      <3>1. r \in Ids
        BY <2>2 DEF Roots
      <3>2. [injected EXCEPT ![t][r] = @ + 1] \in [Servers -> [Ids -> Nat]]
        BY <3>1 DEF TypeOK
      <3>3. QED
        BY <2>2, <3>2 DEF WriteToGame, TypeOK
    <2>3. QED
      BY <2>1, <2>2
  <1>7. QED
    BY <1>3, <1>5, <1>6

\* The model is well typed: in particular every queue holds only frames, every
\* fan-out in progress has targets left and carries a valid event.
THEOREM TypeCorrect == Spec => []TypeOK
  <1>1. Init => TypeOK
    BY RelayAssumption DEF Init, TypeOK
  <1>2. ASSUME TypeOK, [Next]_vars  PROVE TypeOK'
    <2> USE <1>2
    <2>1. ASSUME NEW s \in Servers, NEW ch \in Channels, NEW l \in Sayable[s], PlayerSays(s, ch, l)
          PROVE  TypeOK'
      <3>1. l \in Lines /\ nextId \in Nat
        BY RelayAssumption DEF TypeOK, Publishers
      <3>2. AgentPublish(s, ch, l, nextId)
        BY <2>1 DEF PlayerSays
      <3>3. QED
        BY <2>1, <3>1, <3>2, AgentPublishType DEF PlayerSays, TypeOK, routerVars
    <2>2. ASSUME NEW p \in {Discord, Local}, NEW ch \in Channels, NEW l \in Sayable[p], HubHears(p, ch, l)
          PROVE  TypeOK'
      <3>1. l \in Lines /\ p \in Publishers /\ nextId \in Roots /\ nextId \in Ids
        BY <2>2, RelayAssumption DEF HubHears, TypeOK, Roots, Ids, Publishers
      <3>2. NewEvent(p, ch, l, nextId) \in Event
        BY <2>2, <3>1, NewEventType DEF HubHears
      <3>3. Publish(p, NewEvent(p, ch, l, nextId))
        BY <2>2 DEF HubHears
      <3>4. /\ seen' \in [current : SUBSET Ids, previous : SUBSET Ids, rotateAt : Nat]
            /\ pub' \in [Publishers -> Fanout \cup {None}]
            /\ handled' \in [Ids -> Nat] /\ accepted' \in [Ids -> Nat]
            /\ onDiscord' \in [Roots -> Nat]
        BY <3>1, <3>2, <3>3, PublishType
      <3>5. said' \in SUBSET Lines /\ nextId' \in Nat \ {0}
            /\ speaker' \in [Ids -> Publishers \cup {None}]
        BY <2>2, <3>1 DEF HubHears, TypeOK
      <3>6. QED
        BY <2>2, <3>4, <3>5 DEF HubHears, TypeOK
    <2>3. ASSUME NEW s \in Servers, GameEchoes(s)  PROVE TypeOK'
      <3>1. /\ Tail(owed[s]) \in Seq(Owed) /\ Head(owed[s]) \in Owed
        BY <2>3, TailType DEF GameEchoes, TypeOK
      <3>2. AgentPublish(s, Head(owed[s]).channel, Head(owed[s]).line, Head(owed[s]).root)
        BY <2>3 DEF GameEchoes
      <3>3. Head(owed[s]).channel \in Channels /\ Head(owed[s]).line \in Lines
            /\ Head(owed[s]).root \in Roots /\ Head(owed[s]).root \in Nat
        BY <3>1 DEF Owed, Roots, Ids, TestRoot
      <3>4. QED
        BY <2>3, <3>1, <3>2, <3>3, AgentPublishType DEF GameEchoes, TypeOK, routerVars
    <2>4. ASSUME NEW s \in Servers, EchoUnmatched(s)  PROVE TypeOK'
      BY <2>4, TailType DEF EchoUnmatched, TypeOK, routerVars, historyVars
    <2>5. ASSUME NEW s \in Servers, HubReads(s)  PROVE TypeOK'
      <3>1. Tail(out[s]) \in Seq(Event) /\ Head(out[s]) \in Event
        BY <2>5, TailType DEF HubReads, TypeOK
      <3>2. s \in Publishers /\ [Head(out[s]) EXCEPT !.origin = s] \in Event
        BY <3>1 DEF Publishers, Event
      <3>3. Publish(s, [Head(out[s]) EXCEPT !.origin = s])
        BY <2>5 DEF HubReads
      <3>4. QED
        BY <2>5, <3>1, <3>2, <3>3, PublishType DEF HubReads, TypeOK
    <2>6. ASSUME NEW s \in Servers, FrameLost(s)  PROVE TypeOK'
      BY <2>6, TailType DEF FrameLost, TypeOK, routerVars, historyVars
    <2>7. ASSUME NEW p \in Publishers, NEW t \in Servers, Forward(p, t)  PROVE TypeOK'
      <3>1. pub[p] \in Fanout
        BY <2>7, NullAssumption DEF Forward, TypeOK
      <3>2. pub' \in [Publishers -> Fanout \cup {None}]
        BY <2>7, <3>1 DEF Forward, TypeOK, Fanout
      <3>3. down' \in [Servers -> Seq(Frame)]
        <4>1. pub[p].event \in Frame
          BY <3>1 DEF Fanout, Frame
        <4>2. CASE t \in connected
          <5>1. PICK q \in SendOutcomes(down[t], pub[p].event) : down' = [down EXCEPT ![t] = q]
            BY <2>7, <4>2 DEF Forward
          <5>2. q \in Seq(Frame)
            BY <4>1, <5>1, SendType DEF TypeOK
          <5>3. QED
            BY <5>1, <5>2 DEF TypeOK
        <4>3. QED
          BY <2>7, <4>2 DEF Forward, TypeOK
      <3>4. QED
        BY <2>7, <3>2, <3>3 DEF Forward, TypeOK, agentVars, historyVars
    <2>8. ASSUME NEW s \in Servers, SendTest(s)  PROVE TypeOK'
      <3>1. PICK q \in SendOutcomes(down[s], TestFrame) : down' = [down EXCEPT ![s] = q]
        BY <2>8 DEF SendTest
      <3>2. q \in Seq(Frame)
        BY <3>1, SendType DEF TypeOK, Frame
      <3>3. QED
        BY <2>8, <3>1, <3>2 DEF SendTest, TypeOK, routerVars, agentVars, historyVars
    <2>9. ASSUME NEW table \in Tables, ReplaceChannels(table)  PROVE TypeOK'
      BY <2>9 DEF ReplaceChannels, TypeOK, agentVars, historyVars
    <2>10. ASSUME NEW s \in Servers, Connect(s)  PROVE TypeOK'
      BY <2>10 DEF Connect, TypeOK, agentVars, historyVars
    <2>11. ASSUME NEW s \in Servers, Disconnect(s)  PROVE TypeOK'
      BY <2>11 DEF Disconnect, TypeOK, agentVars, historyVars
    <2>12. ASSUME NEW t \in Servers, Inject(t)  PROVE TypeOK'
      <3> DEFINE e == Head(down[t])
                 line == Sanitize[e.line]
      <3>1. Tail(down[t]) \in Seq(Frame) /\ e \in Event
        BY <2>12, TailType DEF Inject, TypeOK, Frame
      <3>2. CASE e.origin = t \/ e.channel \notin AgentChannels[t] \/ line = Blank
        BY <2>12, <3>1, <3>2 DEF Inject, TypeOK, routerVars
      <3>3. CASE ~(e.origin = t \/ e.channel \notin AgentChannels[t] \/ line = Blank)
        <4>1. line \in Lines /\ e.channel \in Channels /\ e.root \in Roots
          BY <3>1, <3>3, RelayAssumption DEF Event
        <4>2. WriteToGame(t, line, e.channel, e.root)
          BY <2>12, <3>3 DEF Inject
        <4>3. QED
          BY <2>12, <3>1, <4>1, <4>2, WriteToGameType DEF Inject, TypeOK, routerVars
      <3>4. QED
        BY <3>2, <3>3
    <2>13. ASSUME NEW t \in Servers, HandleTest(t)  PROVE TypeOK'
      <3>1. Tail(down[t]) \in Seq(Frame)
        BY <2>13, TailType DEF HandleTest, TypeOK
      <3>2. CASE TestChannel \in AgentChannels[t]
        <4>1. WriteToGame(t, TestLine, TestChannel, TestRoot)
          BY <2>13, <3>2 DEF HandleTest
        <4>2. QED
          BY <2>13, <3>1, <4>1, WriteToGameType, RelayAssumption
             DEF HandleTest, TypeOK, routerVars, Roots
      <3>3. CASE TestChannel \notin AgentChannels[t]
        BY <2>13, <3>1, <3>3 DEF HandleTest, TypeOK, routerVars
      <3>4. QED
        BY <3>2, <3>3
    <2>14. ASSUME NEW t \in Servers, NEW hop \in Hops, Bounce(t, hop)  PROVE TypeOK'
      <3>1. Tail(down[t]) \in Seq(Frame) /\ Head(down[t]) \in Event
        BY <2>14, TailType DEF Bounce, TypeOK, Frame
      <3>2. [Head(down[t]) EXCEPT !.hop = hop] \in Event
        BY <3>1 DEF Event
      <3>3. out' \in [Servers -> Seq(Event)]
        BY <2>14, <3>2, SendType DEF Bounce, TypeOK
      <3>4. QED
        BY <2>14, <3>1, <3>3 DEF Bounce, TypeOK, routerVars, historyVars
    <2>15. CASE Tick
      BY <2>15 DEF Tick, TypeOK, routerVars, agentVars, historyVars
    <2>16. CASE UNCHANGED vars
      BY <2>16 DEF vars, TypeOK
    <2>17. QED
      BY <2>1, <2>2, <2>3, <2>4, <2>5, <2>6, <2>7, <2>8, <2>9, <2>10, <2>11, <2>12,
         <2>13, <2>14, <2>15, <2>16 DEF Next
  <1>3. QED
    BY <1>1, <1>2, PTL DEF Spec

-----------------------------------------------------------------------------
\* What a queue holds after a send was in it before, or is the frame sent.
LEMMA SendElements ==
    ASSUME NEW S, NEW q \in Seq(S), NEW f \in S, NEW r \in SendOutcomes(q, f),
           NEW i \in DOMAIN r
    PROVE  r[i] = f \/ \E j \in DOMAIN q : r[i] = q[j]
  <1>1. QueueLimit \in Nat \ {0}
    BY RelayAssumption
  <1>2. QED
    BY <1>1 DEF SendOutcomes

\* What is left of a queue was in it before.
LEMMA TailElements ==
    ASSUME NEW S, NEW q \in Seq(S), q # <<>>, NEW i \in DOMAIN Tail(q)
    PROVE  \E j \in DOMAIN q : Tail(q)[i] = q[j]
  OBVIOUS

\* The first half of NeverToOrigin for one queue.
Foreign(s, q) == \A i \in DOMAIN q : q[i] # TestFrame => q[i].origin # s

\* Sending a foreign frame leaves a queue foreign, whatever is dropped.
LEMMA ForeignSend ==
    ASSUME NEW s, NEW q \in Seq(Frame), Foreign(s, q), NEW f \in Frame,
           f # TestFrame => f.origin # s, NEW r \in SendOutcomes(q, f)
    PROVE  Foreign(s, r)
  BY SendElements DEF Foreign

\* Taking a frame leaves a queue foreign.
LEMMA ForeignTail ==
    ASSUME NEW s, NEW q \in Seq(Frame), q # <<>>, Foreign(s, q)
    PROVE  Foreign(s, Tail(q))
  BY TailElements DEF Foreign

\* What Hub.Publish plans never includes the publisher's own server.
LEMMA PublishNeverToOrigin ==
    ASSUME TypeOK, NeverToOrigin, NEW p \in Publishers, NEW raw \in Event, Publish(p, raw)
    PROVE  \A q \in Publishers : pub'[q] # None => pub'[q].event.origin \notin pub'[q].targets
  <1> DEFINE e == [raw EXCEPT !.line = Sanitize[raw.line]]
             fwd == [e EXCEPT !.hop = @ + 1]
             fan == [event |-> fwd, targets |-> Targets(e)]
  <1>1. fwd.origin = e.origin
    BY DEF Event
  <1>2. e.origin \notin Targets(e)
    BY DEF Targets
  <1>3. fan.event.origin \notin fan.targets
    BY <1>1, <1>2
  <1>4. pub' = pub \/ pub' = [pub EXCEPT ![p] = fan]
    BY DEF Publish
  <1> HIDE DEF fan
  <1>5. QED
    BY <1>3, <1>4 DEF NeverToOrigin, TypeOK

\* A server is never sent its own chat (Router.Route's self-exclusion together
\* with the origin Hub.onFrame takes from the session), however many servers,
\* queues and publishers there are.
THEOREM OwnChatIsNeverSentBack == Spec => []NeverToOrigin
  <1>1. Init => NeverToOrigin
    BY DEF Init, NeverToOrigin
  <1>2. ASSUME TypeOK, NeverToOrigin, [Next]_vars  PROVE NeverToOrigin'
    <2> USE <1>2
    <2> DEFINE PubOK == \A p \in Publishers :
                            pub'[p] # None => pub'[p].event.origin \notin pub'[p].targets
               DownOK == \A s \in Servers : Foreign(s, down'[s])
    <2>1. SUFFICES PubOK /\ DownOK
      BY DEF NeverToOrigin, Foreign
    <2>2. \A s \in Servers : Foreign(s, down[s])
      BY DEF NeverToOrigin, Foreign
    <2>3. ASSUME NEW p \in {Discord, Local}, NEW ch \in Channels, NEW l \in Sayable[p], HubHears(p, ch, l)
          PROVE  PubOK /\ DownOK
      <3>1. NewEvent(p, ch, l, nextId) \in Event /\ p \in Publishers
        <4>1. l \in Lines /\ p \in Publishers /\ nextId \in Roots
          BY <2>3, RelayAssumption DEF HubHears, TypeOK, Roots, Ids, Publishers
        <4>2. QED
          BY <2>3, <4>1, NewEventType DEF HubHears
      <3>2. Publish(p, NewEvent(p, ch, l, nextId)) /\ down' = down
        BY <2>3 DEF HubHears
      <3>3. QED
        BY <2>2, <3>1, <3>2, PublishNeverToOrigin
    <2>4. ASSUME NEW s \in Servers, HubReads(s)  PROVE PubOK /\ DownOK
      <3>1. Head(out[s]) \in Event
        BY <2>4, TailType DEF HubReads, TypeOK
      <3>2. s \in Publishers /\ [Head(out[s]) EXCEPT !.origin = s] \in Event
        BY <3>1 DEF Publishers, Event
      <3>3. Publish(s, [Head(out[s]) EXCEPT !.origin = s]) /\ down' = down
        BY <2>4 DEF HubReads
      <3>4. QED
        BY <2>2, <3>2, <3>3, PublishNeverToOrigin
    <2>5. ASSUME NEW p \in Publishers, NEW t \in Servers, Forward(p, t)  PROVE PubOK /\ DownOK
      <3>1. pub[p] \in Fanout /\ t \in pub[p].targets
        BY <2>5, NullAssumption DEF Forward, TypeOK
      <3>2. pub[p].event.origin # t /\ pub[p].event \in Frame
        BY <2>5, <3>1 DEF Forward, NeverToOrigin, Fanout, Frame
      <3>3. PubOK
        <4>1. pub[p].event.origin \notin pub[p].targets
          BY <2>5 DEF Forward, NeverToOrigin
        <4>2. pub'[p] = None \/ pub'[p] = [event |-> pub[p].event,
                                          targets |-> pub[p].targets \ {t}]
          BY <2>5 DEF Forward, TypeOK
        <4>3. \A q \in Publishers \ {p} : pub'[q] = pub[q]
          BY <2>5 DEF Forward, TypeOK
        <4>4. pub'[p] # None => pub'[p].event.origin \notin pub'[p].targets
          BY <4>1, <4>2
        <4>5. QED
          BY <4>3, <4>4 DEF NeverToOrigin
      <3>4. CASE t \in connected
        <4>1. PICK q \in SendOutcomes(down[t], pub[p].event) : down' = [down EXCEPT ![t] = q]
          BY <2>5, <3>4 DEF Forward
        <4>2. down[t] \in Seq(Frame) /\ Foreign(t, down[t])
          BY <2>2 DEF TypeOK
        <4>3. Foreign(t, q)
          BY <3>2, <4>1, <4>2, ForeignSend
        <4>4. QED
          BY <2>2, <3>3, <4>1, <4>3 DEF TypeOK
      <3>5. CASE t \notin connected
        BY <2>2, <2>5, <3>3, <3>5 DEF Forward
      <3>6. QED
        BY <3>4, <3>5
    <2>6. ASSUME NEW s \in Servers, SendTest(s)  PROVE PubOK /\ DownOK
      <3>1. PICK q \in SendOutcomes(down[s], TestFrame) : down' = [down EXCEPT ![s] = q]
        BY <2>6 DEF SendTest
      <3>2. Foreign(s, q)
        BY <2>2, <3>1, ForeignSend DEF TypeOK, Frame
      <3>3. QED
        BY <2>2, <2>6, <3>1, <3>2 DEF SendTest, TypeOK, routerVars, NeverToOrigin
    <2>7. ASSUME NEW s \in Servers, Disconnect(s)  PROVE PubOK /\ DownOK
      BY <2>2, <2>7 DEF Disconnect, TypeOK, NeverToOrigin, Foreign
    <2>8. ASSUME NEW t \in Servers, pub' = pub, down[t] # <<>>,
                 down' = [down EXCEPT ![t] = Tail(down[t])]
          PROVE  PubOK /\ DownOK
      <3>1. Foreign(t, Tail(down[t]))
        BY <2>2, <2>8, ForeignTail DEF TypeOK
      <3>2. QED
        BY <2>2, <2>8, <3>1 DEF TypeOK, NeverToOrigin
    <2>9. CASE UNCHANGED <<pub, down>>
      BY <2>2, <2>9 DEF NeverToOrigin
    <2>10. QED
      BY <2>3, <2>4, <2>5, <2>6, <2>7, <2>8, <2>9
         DEF Next, vars, routerVars, agentVars, historyVars, PlayerSays, GameEchoes, EchoUnmatched, FrameLost,
             ReplaceChannels, Connect, Inject, HandleTest, Bounce, Tick
  <1>3. QED
    BY <1>1, <1>2, TypeCorrect, PTL DEF Spec

-----------------------------------------------------------------------------
\* The invariant of the seenCache, of a cache c that is not the variable.
SeenOK(c) ==
    /\ c.rotateAt <= now + SeenWindow
    /\ \A i \in Ids : handled[i] # 0 /\ i \notin c.current \cup c.previous
                        => handled[i] + 2 * SeenWindow < c.rotateAt
    /\ \A i \in c.previous : handled[i] + SeenWindow <= c.rotateAt

\* A rotation forgets only what was handled before the last rotation.
LEMMA RotatedOK ==
    ASSUME TypeOK, SeenInv
    PROVE  SeenOK(Rotated)
  <1>1. CASE now > seen.rotateAt
    <2> DEFINE c == [current |-> {}, previous |-> seen.current, rotateAt |-> now + SeenWindow]
    <2>1. Rotated = c
      BY <1>1 DEF Rotated
    <2>2. \A i \in seen.current : handled[i] + SeenWindow <= c.rotateAt
      BY RelayAssumption DEF SeenInv, TypeOK
    <2>3. ASSUME NEW i \in Ids, handled[i] # 0, i \notin seen.current
          PROVE  handled[i] + 2 * SeenWindow < c.rotateAt
      <3>1. CASE i \in seen.previous
        <4>1. handled[i] + SeenWindow <= seen.rotateAt
          BY <3>1 DEF SeenInv
        <4>2. QED
          BY <1>1, <4>1, RelayAssumption DEF TypeOK
      <3>2. CASE i \notin seen.previous
        <4>1. handled[i] + 2 * SeenWindow < seen.rotateAt
          BY <2>3, <3>2 DEF SeenInv
        <4>2. QED
          BY <1>1, <4>1, RelayAssumption DEF TypeOK
      <3>3. QED
        BY <3>1, <3>2
    <2>4. c.rotateAt <= now + SeenWindow
      BY RelayAssumption DEF TypeOK
    <2>5. QED
      BY <2>1, <2>2, <2>3, <2>4 DEF SeenOK
  <1>2. CASE ~(now > seen.rotateAt)
    BY <1>2 DEF Rotated, SeenInv, SeenOK
  <1>3. QED
    BY <1>1, <1>2

\* Hub.Publish keeps the invariant and plans no delivery for an ID handled
\* within the window.
LEMMA PublishSeen ==
    ASSUME TypeOK, SeenInv, now' = now, NEW p \in Publishers, NEW raw \in Event, Publish(p, raw)
    PROVE  /\ SeenInv'
           /\ \A i \in Ids : handled'[i] # handled[i] /\ handled[i] # 0
                               => now > handled[i] + SeenWindow
  <1> DEFINE e == [raw EXCEPT !.line = Sanitize[raw.line]]
             planned == Valid(e) /\ Routable(e)
  <1>1. e.id \in Ids
    BY DEF Event
  <1>2. /\ seen' = IF Valid(e) THEN Record(e.id) ELSE seen
        /\ handled' = IF planned THEN [handled EXCEPT ![e.id] = now] ELSE handled
    BY DEF Publish
  <1>3. SeenOK(Rotated)
    BY RotatedOK
  <1>4. Rotated \in [current : SUBSET Ids, previous : SUBSET Ids, rotateAt : Nat]
    BY RelayAssumption DEF Rotated, TypeOK
  <1> HIDE DEF e
  <1>5. CASE planned
    <2>1. /\ seen' = [Rotated EXCEPT !.current = @ \cup {e.id}]
          /\ e.id \notin Rotated.current \cup Rotated.previous
          /\ handled' = [handled EXCEPT ![e.id] = now]
      BY <1>2, <1>5 DEF Routable, Record, SeenBefore
    <2>2. seen'.rotateAt = Rotated.rotateAt /\ seen'.previous = Rotated.previous
          /\ seen'.current = Rotated.current \cup {e.id}
      BY <1>4, <2>1
    <2>3. \A i \in Ids : handled'[i] = IF i = e.id THEN now ELSE handled[i]
      BY <1>1, <2>1 DEF TypeOK
    <2>4. SeenInv'
      <3>1. now \in Nat /\ SeenWindow \in Nat /\ Rotated.rotateAt \in Nat
        BY <1>4, RelayAssumption DEF TypeOK
      <3>2. (seen.rotateAt <= now + SeenWindow)'
        BY <1>3, <2>2 DEF SeenOK
      <3>3. (\A i \in Ids : handled[i] <= now)'
        BY <2>3, <3>1 DEF SeenInv
      <3>4. (\A i \in Ids : handled[i] # 0 /\ i \notin seen.current \cup seen.previous
                        => handled[i] + 2 * SeenWindow < seen.rotateAt)'
        BY <1>3, <2>2, <2>3 DEF SeenOK
      <3>5. (\A i \in seen.previous : handled[i] + SeenWindow <= seen.rotateAt)'
        BY <1>3, <1>4, <2>1, <2>2, <2>3 DEF SeenOK
      <3>6. QED
        BY <3>2, <3>3, <3>4, <3>5 DEF SeenInv
    <2>5. handled[e.id] # 0 => now > handled[e.id] + SeenWindow
      <3>1. handled[e.id] # 0 => handled[e.id] + 2 * SeenWindow < Rotated.rotateAt
        BY <1>1, <1>3, <2>1 DEF SeenOK
      <3>2. Rotated.rotateAt <= now + SeenWindow
        BY <1>3 DEF SeenOK
      <3>3. QED
        BY <1>1, <1>4, <3>1, <3>2, RelayAssumption DEF TypeOK
    <2>6. QED
      BY <2>3, <2>4, <2>5
  <1>6. CASE ~planned
    <2>1. handled' = handled
      BY <1>2, <1>6
    <2>2. CASE Valid(e)
      <3>1. seen'.rotateAt = Rotated.rotateAt /\ seen'.previous = Rotated.previous
            /\ (seen'.current = Rotated.current \/ seen'.current = Rotated.current \cup {e.id})
        BY <1>2, <1>4, <2>2 DEF Record
      <3>2. QED
        BY <1>1, <1>3, <1>4, <2>1, <3>1 DEF SeenInv, SeenOK, TypeOK
    <2>3. CASE ~Valid(e)
      BY <1>2, <2>1, <2>3 DEF SeenInv
    <2>4. QED
      BY <2>2, <2>3
  <1>7. QED
    BY <1>5, <1>6

\* A step keeps the seenCache's invariant, and plans deliveries for an ID again
\* only after the window.
LEMMA StepSeen ==
    ASSUME TypeOK, SeenInv, [Next]_vars
    PROVE  /\ SeenInv'
           /\ \A i \in Ids : handled'[i] # handled[i] /\ handled[i] # 0
                               => now > handled[i] + SeenWindow
  <1>1. ASSUME NEW p \in {Discord, Local}, NEW ch \in Channels, NEW l \in Sayable[p], HubHears(p, ch, l)
        PROVE  \E q \in Publishers, e \in Event : Publish(q, e) /\ now' = now
    <2>1. l \in Lines /\ p \in Publishers /\ nextId \in Roots
      BY <1>1, RelayAssumption DEF HubHears, TypeOK, Roots, Ids, Publishers
    <2>2. NewEvent(p, ch, l, nextId) \in Event
      BY <1>1, <2>1, NewEventType DEF HubHears
    <2>3. QED
      BY <1>1, <2>1, <2>2 DEF HubHears
  <1>2. ASSUME NEW s \in Servers, HubReads(s)
        PROVE  \E q \in Publishers, e \in Event : Publish(q, e) /\ now' = now
    <2>1. Head(out[s]) \in Event
      BY <1>2, TailType DEF HubReads, TypeOK
    <2>2. s \in Publishers /\ [Head(out[s]) EXCEPT !.origin = s] \in Event
      BY <2>1 DEF Publishers, Event
    <2>3. QED
      BY <1>2, <2>2 DEF HubReads
  <1>3. CASE \E q \in Publishers, e \in Event : Publish(q, e) /\ now' = now
    BY <1>3, PublishSeen
  <1>4. CASE UNCHANGED <<now, seen, handled>>
    BY <1>4 DEF SeenInv
  <1>5. CASE Tick
    BY <1>5, RelayAssumption DEF Tick, SeenInv, TypeOK, routerVars, historyVars
  <1>6. QED
    BY <1>1, <1>2, <1>3, <1>4, <1>5
       DEF Next, vars, routerVars, agentVars, historyVars, PlayerSays, GameEchoes, EchoUnmatched,
           FrameLost, Forward, SendTest, ReplaceChannels, Connect, Disconnect, Inject, HandleTest, Bounce

\* The two generations of the seenCache remember what they must: between two
\* plans for the same ID more than the window passes, whatever the agents send.
THEOREM DuplicatesAreRejected == Spec => DuplicatesRejected
  <1>1. Init => SeenInv
    BY RelayAssumption DEF Init, SeenInv
  <1>2. TypeOK /\ SeenInv /\ [Next]_vars => SeenInv'
    BY StepSeen
  <1>3. TypeOK /\ SeenInv /\ [Next]_vars
          => [\A i \in Ids : handled'[i] # handled[i] /\ handled[i] # 0
                               => now > handled[i] + SeenWindow]_vars
    BY StepSeen
  <1>4. QED
    BY <1>1, <1>2, <1>3, TypeCorrect, PTL DEF Spec, DuplicatesRejected

-----------------------------------------------------------------------------
(* No feedback.  The invariant follows an utterance through the system: the *)
(* line behind an ID (Witness), where it may be at each stage (StageInv),   *)
(* and the cache entry that waits for its echo (EchoInv).                   *)
Held(q) == {q[i] : i \in DOMAIN q}

\* The events that went through Hub.Publish.
Relayed ==
    {pub[p].event : p \in {q \in Publishers : pub[q] # None}}
    \cup UNION {Held(down[s]) \ {TestFrame} : s \in Servers}

\* x, an event or an owed line, carries what f says is the line behind its ID.
Carries(f, x) ==
    /\ x.root < nextId
    /\ x.root = TestRoot => Canon(x.line) = Canon(TestLine)
    /\ x.root # TestRoot => f[x.root] \in said /\ Canon(x.line) = Canon(f[x.root])

\* f names the line behind every ID: no two IDs have the same.
Names(f) ==
    /\ f \in [Ids -> Lines \cup {Blank}]
    /\ \A i \in Ids : f[i] \in said \cup {Blank}
    /\ \A i, j \in Ids : f[i] = f[j] /\ f[i] # Blank => i = j

Witness(f) ==
    /\ Names(f)
    /\ \A s \in Servers : \A e \in Held(out[s]) : Carries(f, e)
    /\ \A e \in Relayed : Carries(f, e)
    /\ \A s \in Servers : \A o \in Held(owed[s]) : Carries(f, o)

\* Everything on its way goes back to a line that was said, or to the test line.
UtteredInv ==
    /\ \A l \in said : \E p \in Publishers : l \in Sayable[p]
    /\ \E f \in [Ids -> Lines \cup {Blank}] : Witness(f)

\* What the hub relays does not change any more once an agent sanitized it.
Settled(l) == Sanitize[l] # Blank => Sanitize[Sanitize[l]] = Sanitize[l]
SettledInv == \A e \in Relayed : Settled(e.line)

\* The game echoes in order and in time.
TimeInv ==
    \A s \in Servers : \A j \in DOMAIN owed[s] :
        /\ owed[s][j].at <= now /\ now <= owed[s][j].at + EchoDelay
        /\ \A k \in DOMAIN owed[s] : j < k => owed[s][j].at <= owed[s][k].at

\* A line the game still owes is in the cache until its echo is due, under the
\* very text the echo will be looked up with, unless it was relayed twice.
EchoInv ==
    \A s \in Servers : \A o \in Held(owed[s]) :
        o.root # TestRoot /\ accepted[o.root] <= 1 =>
            Sanitize[o.line] = o.line /\ o.at + EchoTTL <= echo[s][o.line]

\* One frame at most of a session's queue carries utterance i; one owed line.
OneFrame(q, i) ==
    \A j, k \in DOMAIN q : q[j] # TestFrame /\ q[k] # TestFrame
                             /\ q[j].root = i /\ q[k].root = i => j = k
OneOwed(q, i) == \A j, k \in DOMAIN q : q[j].root = i /\ q[k].root = i => j = k

\* Utterance i is still on its way to server s.
Fanning(p, i)   == pub[p] # None /\ pub[p].event.root = i
Travelling(s, i) ==
    \/ \E p \in Publishers : Fanning(p, i) /\ s \in pub[p].targets
    \/ \E e \in Held(down[s]) : e # TestFrame /\ e.root = i

\* An ID not given out yet, and an utterance the hub has not accepted yet,
\* have been nowhere.
FreshInv ==
    \A i \in Ids :
        /\ i >= nextId \/ accepted[i] = 0 =>
              onDiscord[i] = 0 /\ \A s \in Servers : injected[s][i] = 0
        /\ accepted[i] = 0 =>
              /\ \A e \in Relayed : e.root # i
              /\ \A s \in Servers : \A e \in Held(out[s]) : e.root = i => speaker[i] = s

\* An utterance accepted at most once is carried by its own event only, comes
\* from where it was said, and reaches a server at most once: it is in one
\* fan-out, then in one frame, and then injected and owed once.
StageInv ==
    \A i \in Ids : accepted[i] <= 1 =>
        /\ \A s \in Servers : \A e \in Held(out[s]) : e.root = i => e.id = i
        /\ \A e \in Relayed : e.root = i => e.id = i /\ e.origin = speaker[i]
        /\ \A p, q \in Publishers : Fanning(p, i) /\ Fanning(q, i) => p = q
        /\ \A p \in Publishers, s \in Servers : Fanning(p, i) /\ s \in pub[p].targets =>
              \A e \in Held(down[s]) : e # TestFrame => e.root # i
        /\ \A s \in Servers :
              /\ Travelling(s, i) => injected[s][i] = 0
              /\ OneFrame(down[s], i) /\ OneOwed(owed[s], i)
              /\ \A o \in Held(owed[s]) : o.root = i => injected[s][i] = 1

FeedbackInv ==
    /\ UtteredInv /\ SettledInv /\ TimeInv /\ EchoInv /\ FreshInv /\ StageInv
    /\ NoFeedback

\* What a queue holds after a send, a read or an append.
LEMMA HeldSend ==
    ASSUME NEW S, NEW q \in Seq(S), NEW f \in S, NEW r \in SendOutcomes(q, f)
    PROVE  Held(r) \subseteq Held(q) \cup {f}
  BY SendElements DEF Held

\* Taking from a queue adds nothing to it.
LEMMA HeldTail ==
    ASSUME NEW S, NEW q \in Seq(S), q # <<>>
    PROVE  Held(Tail(q)) \subseteq Held(q) /\ Head(q) \in Held(q) /\ Head(q) \in S
  <1>1. Held(Tail(q)) \subseteq Held(q)
    BY TailElements DEF Held
  <1>2. 1 \in DOMAIN q /\ Head(q) = q[1]
    OBVIOUS
  <1>3. QED
    BY <1>1, <1>2, TailType DEF Held

\* Putting an element at the end adds that element.
LEMMA HeldAppend ==
    ASSUME NEW S, NEW q \in Seq(S), NEW x \in S
    PROVE  Held(Append(q, x)) \subseteq Held(q) \cup {x}
  BY DEF Held

\* The elements of a typed queue have its type.
LEMMA HeldType ==
    ASSUME NEW S, NEW q \in Seq(S)
    PROVE  Held(q) \subseteq S
  BY DEF Held

\* Sanitizing a line does not change what it will have become.
LEMMA CanonStable ==
    ASSUME QuietWorld, NEW l \in Lines, Sanitize[l] # Blank
    PROVE  /\ Sanitize[l] \in Lines /\ Canon(Sanitize[l]) = Canon(l)
           /\ Settled(Sanitize[l])
  <1>1. Sanitize[l] \in Lines
    BY RelayAssumption
  <1>2. Canon(l) = Sanitize[Sanitize[l]]
    BY DEF Canon
  <1>3. Canon(l) # Blank => Sanitize[Canon(l)] = Canon(l)
    BY DEF QuietWorld
  <1>4. QED
    BY <1>1, <1>2, <1>3 DEF Canon, Settled

\* A fixed line is what it has become.
LEMMA CanonFixed ==
    ASSUME NEW l \in Lines, Sanitize[l] = l
    PROVE  Canon(l) = l /\ Canon(l) # Blank
  BY RelayAssumption DEF Canon

\* The event Hub.Publish fans out.
Planned(raw) == LET e == [raw EXCEPT !.line = Sanitize[raw.line]]
                IN  Valid(e) /\ Routable(e)
Forwarded(raw) == LET e == [raw EXCEPT !.line = Sanitize[raw.line]]
                  IN  [e EXCEPT !.hop = @ + 1]

\* Hub.Publish forwards an event with its ID, root and origin and with
\* the line sanitized.
LEMMA ForwardedFields ==
    ASSUME NEW raw \in Event
    PROVE  /\ Forwarded(raw).id = raw.id /\ Forwarded(raw).root = raw.root
           /\ Forwarded(raw).origin = raw.origin
           /\ Forwarded(raw).line = Sanitize[raw.line]
           /\ Planned(raw) => Sanitize[raw.line] # Blank /\ Forwarded(raw) \in Event
  <1> DEFINE e == [raw EXCEPT !.line = Sanitize[raw.line]]
  <1>1. /\ e.id = raw.id /\ e.root = raw.root /\ e.origin = raw.origin
        /\ e.line = Sanitize[raw.line] /\ e.hop = raw.hop /\ e.channel = raw.channel
    BY DEF Event
  <1>2. e = [id |-> raw.id, origin |-> raw.origin, channel |-> raw.channel,
             line |-> Sanitize[raw.line], hop |-> raw.hop, root |-> raw.root]
    BY DEF Event
  <1>3. Forwarded(raw) = [id |-> raw.id, origin |-> raw.origin, channel |-> raw.channel,
             line |-> Sanitize[raw.line], hop |-> raw.hop + 1, root |-> raw.root]
    <2>1. Forwarded(raw) = [e EXCEPT !.hop = @ + 1]
      BY DEF Forwarded
    <2> HIDE DEF e
    <2>2. [e EXCEPT !.hop = @ + 1]
             = [id |-> e.id, origin |-> e.origin, channel |-> e.channel,
                line |-> e.line, hop |-> e.hop + 1, root |-> e.root]
      BY <1>2
    <2>3. QED
      BY <1>1, <2>1, <2>2
  <1>4. ASSUME Planned(raw)
        PROVE  Sanitize[raw.line] # Blank /\ Forwarded(raw) \in Event
    <2>1. e.line # Blank /\ e.hop = 0
      BY <1>4 DEF Planned, Valid, Routable
    <2>2. Sanitize[raw.line] \in Lines /\ raw.hop = 0 /\ 1 \in Hops
      BY <1>1, <2>1, RelayAssumption DEF Event, Hops
    <2>3. QED
      BY <1>1, <1>3, <2>1, <2>2 DEF Event
  <1>5. QED
    BY <1>3, <1>4

\* Hub.Publish relays the event it planned for and nothing else.
LEMMA PublishPub ==
    ASSUME TypeOK, NEW p \in Publishers, NEW raw \in Event, Publish(p, raw)
    PROVE  \/ pub' = pub
           \/ /\ Planned(raw)
              /\ \E T \in SUBSET Servers :
                     pub' = [pub EXCEPT ![p] = [event |-> Forwarded(raw), targets |-> T]]
  <1> DEFINE e == [raw EXCEPT !.line = Sanitize[raw.line]]
  <1>1. Targets(e) \in SUBSET Servers
    BY DEF Targets, TypeOK
  <1>2. QED
    BY <1>1 DEF Publish, Planned, Forwarded

\* What each step adds to the agents' queues, to what the hub relays and to
\* what the games owe.
OutAdds(s, e) ==
    \/ \E ch \in Channels : \E l \in Sayable[s] :
           PlayerSays(s, ch, l) /\ Sanitize[l] # Blank /\ nextId \in Ids
             /\ e = NewEvent(s, ch, Sanitize[l], nextId) /\ nextId' = nextId + 1
             /\ speaker' = [speaker EXCEPT ![nextId] = s]
    \/ /\ GameEchoes(s) /\ owed[s] # <<>> /\ nextId \in Ids /\ nextId' = nextId + 1
       /\ Sanitize[Head(owed[s]).line] # Blank
       /\ ~IsEcho(s, Sanitize[Head(owed[s]).line])
       /\ e = NewEvent(s, Head(owed[s]).channel, Sanitize[Head(owed[s]).line], Head(owed[s]).root)
    \/ \E hop \in Hops :
           Bounce(s, hop) /\ Head(down[s]) \in Relayed /\ Head(down[s]) \in Event
             /\ e = [Head(down[s]) EXCEPT !.hop = hop]

RelayAdds(e) ==
    \/ \E p \in {Discord, Local}, ch \in Channels : \E l \in Sayable[p] :
           HubHears(p, ch, l) /\ NewEvent(p, ch, l, nextId) \in Event
             /\ Planned(NewEvent(p, ch, l, nextId))
             /\ e = Forwarded(NewEvent(p, ch, l, nextId))
    \/ \E s \in Servers :
           HubReads(s) /\ Head(out[s]) \in Held(out[s]) /\ Head(out[s]) \in Event
             /\ Planned([Head(out[s]) EXCEPT !.origin = s])
             /\ e = Forwarded([Head(out[s]) EXCEPT !.origin = s])

OwedAdds(s, o) ==
    \/ /\ Inject(s) /\ Head(down[s]) \in Relayed /\ Head(down[s]) \in Event
       /\ Sanitize[Head(down[s]).line] # Blank /\ Head(down[s]).origin # s
       /\ o.line = Sanitize[Head(down[s]).line] /\ o.root = Head(down[s]).root /\ o.at = now
    \/ HandleTest(s) /\ o.line = TestLine /\ o.root = TestRoot /\ o.at = now

\* agent.Publish adds the event it made, and none for an echo.
LEMMA AgentPublishOut ==
    ASSUME TypeOK, NEW s \in Servers, NEW ch \in Channels, NEW l \in Lines,
           NEW r \in Nat, r = nextId \/ r \in Roots, AgentPublish(s, ch, l, r),
           NEW e \in Held(out'[s]), e \notin Held(out[s])
    PROVE  /\ Sanitize[l] # Blank /\ ~IsEcho(s, Sanitize[l])
           /\ nextId \in Ids /\ nextId' = nextId + 1
           /\ speaker' = [speaker EXCEPT ![nextId] = s]
           /\ e = NewEvent(s, ch, Sanitize[l], r)
  <1>1. Sanitize[l] # Blank
    BY DEF AgentPublish
  <1>2. ~IsEcho(s, Sanitize[l])
    BY DEF AgentPublish
  <1>3. /\ nextId <= MaxEvents
        /\ \E q \in SendOutcomes(out[s], NewEvent(s, ch, Sanitize[l], r)) :
               out' = [out EXCEPT ![s] = q]
        /\ nextId' = nextId + 1
        /\ speaker' = [speaker EXCEPT ![nextId] = s]
    BY <1>1, <1>2 DEF AgentPublish
  <1>4. nextId \in Ids /\ r \in Roots /\ s \in Publishers /\ Sanitize[l] \in Lines
    BY <1>1, <1>3, RelayAssumption DEF TypeOK, Ids, Roots, Publishers
  <1>5. NewEvent(s, ch, Sanitize[l], r) \in Event
    BY <1>3, <1>4, NewEventType
  <1>6. PICK q \in SendOutcomes(out[s], NewEvent(s, ch, Sanitize[l], r)) :
               out' = [out EXCEPT ![s] = q]
    BY <1>3
  <1>7. out'[s] = q /\ out[s] \in Seq(Event)
    BY <1>6 DEF TypeOK
  <1>8. e = NewEvent(s, ch, Sanitize[l], r)
    BY <1>5, <1>7, HeldSend
  <1>9. QED
    BY <1>1, <1>2, <1>3, <1>4, <1>8

\* What can be new in an agent's queue: an utterance, an echo or a bounce.
LEMMA OutStep ==
    ASSUME TypeOK, [Next]_vars, NEW s \in Servers, NEW e \in Held(out'[s]), e \notin Held(out[s])
    PROVE  OutAdds(s, e)
  <1>1. ASSUME NEW t \in Servers, NEW ch \in Channels, NEW l \in Sayable[t], PlayerSays(t, ch, l)
        PROVE  OutAdds(s, e)
    <2>1. l \in Lines /\ nextId \in Nat /\ AgentPublish(t, ch, l, nextId)
      BY <1>1, RelayAssumption DEF TypeOK, Publishers, PlayerSays
    <2>2. s = t
      BY <2>1 DEF AgentPublish, TypeOK
    <2>3. QED
      BY <1>1, <2>1, <2>2, AgentPublishOut DEF OutAdds
  <1>2. ASSUME NEW t \in Servers, GameEchoes(t)  PROVE OutAdds(s, e)
    <2> DEFINE o == Head(owed[t])
    <2>1. owed[t] # <<>> /\ o \in Owed
      BY <1>2, TailType DEF GameEchoes, TypeOK
    <2>2. o.channel \in Channels /\ o.line \in Lines /\ o.root \in Roots /\ o.root \in Nat
      BY <2>1 DEF Owed, Roots, Ids, TestRoot
    <2>3. AgentPublish(t, o.channel, o.line, o.root)
      BY <1>2 DEF GameEchoes
    <2>4. s = t
      BY <2>3 DEF AgentPublish, TypeOK
    <2>5. /\ Sanitize[o.line] # Blank /\ ~IsEcho(t, Sanitize[o.line])
          /\ nextId \in Ids /\ nextId' = nextId + 1
          /\ e = NewEvent(t, o.channel, Sanitize[o.line], o.root)
      <3>1. e \in Held(out'[t]) /\ e \notin Held(out[t])
        BY <2>4
      <3> DEFINE ch == o.channel
                 l == o.line
                 r == o.root
      <3>2. AgentPublish(t, ch, l, r) /\ ch \in Channels /\ l \in Lines /\ r \in Roots /\ r \in Nat
        BY <2>2, <2>3
      <3> HIDE DEF ch, l, r
      <3>3. /\ Sanitize[l] # Blank /\ ~IsEcho(t, Sanitize[l])
            /\ nextId \in Ids /\ nextId' = nextId + 1
            /\ e = NewEvent(t, ch, Sanitize[l], r)
        BY <3>1, <3>2, AgentPublishOut
      <3>4. QED
        BY <3>3 DEF ch, l, r
    <2>6. QED
      BY <1>2, <2>1, <2>4, <2>5 DEF OutAdds
  <1>3. ASSUME NEW t \in Servers, NEW hop \in Hops, Bounce(t, hop)  PROVE OutAdds(s, e)
    <2> DEFINE b == [Head(down[t]) EXCEPT !.hop = hop]
    <2>1. down[t] # <<>> /\ Head(down[t]) # TestFrame
      BY <1>3 DEF Bounce
    <2>2. Head(down[t]) \in Held(down[t]) /\ Head(down[t]) \in Event
      BY <2>1, HeldTail DEF TypeOK, Frame
    <2>3. Head(down[t]) \in Relayed
      BY <2>1, <2>2 DEF Relayed
    <2>4. b \in Event
      BY <2>2 DEF Event
    <2>5. PICK q \in SendOutcomes(out[t], b) : out' = [out EXCEPT ![t] = q]
      BY <1>3 DEF Bounce
    <2>6. s = t /\ out'[t] = q /\ out[t] \in Seq(Event)
      BY <2>5 DEF TypeOK
    <2>7. e = b
      BY <2>4, <2>6, HeldSend
    <2>8. QED
      BY <1>3, <2>2, <2>3, <2>6, <2>7 DEF OutAdds
  <1>4. ASSUME NEW t \in Servers, out[t] # <<>>, out' = [out EXCEPT ![t] = Tail(out[t])]
        PROVE  OutAdds(s, e)
    BY <1>4, HeldTail DEF TypeOK
  <1>5. QED
    BY <1>1, <1>2, <1>3, <1>4
       DEF Next, vars, agentVars, EchoUnmatched, HubReads, FrameLost, HubHears, Forward, SendTest,
           ReplaceChannels, Connect, Disconnect, Inject, HandleTest, Tick

\* Hub.Publish adds to what is relayed the event it planned for.
LEMMA PublishRelayed ==
    ASSUME TypeOK, NEW p \in Publishers, NEW raw \in Event, Publish(p, raw), down' = down,
           NEW e \in Relayed', e \notin Relayed
    PROVE  Planned(raw) /\ e = Forwarded(raw)
  <1>1. pub' # pub
    BY DEF Relayed
  <1>2. PICK T \in SUBSET Servers :
            pub' = [pub EXCEPT ![p] = [event |-> Forwarded(raw), targets |-> T]]
    BY <1>1, PublishPub
  <1>3. Planned(raw)
    BY <1>1, PublishPub
  <1>4. PICK q \in Publishers : pub'[q] # None /\ e = pub'[q].event
    BY DEF Relayed
  <1>5. q = p
    BY <1>2, <1>4 DEF TypeOK, Relayed
  <1>6. pub'[p] = [event |-> Forwarded(raw), targets |-> T]
    BY <1>2 DEF TypeOK
  <1>7. QED
    BY <1>3, <1>4, <1>5, <1>6

\* What can be new in the hub's hands: what Publish planned.
LEMMA RelayedStep ==
    ASSUME TypeOK, [Next]_vars, NEW e \in Relayed', e \notin Relayed
    PROVE  RelayAdds(e)
  <1>1. ASSUME NEW p \in {Discord, Local}, NEW ch \in Channels, NEW l \in Sayable[p], HubHears(p, ch, l)
        PROVE  RelayAdds(e)
    <2>1. l \in Lines /\ p \in Publishers /\ nextId \in Roots
      BY <1>1, RelayAssumption DEF HubHears, TypeOK, Roots, Ids, Publishers
    <2>2. NewEvent(p, ch, l, nextId) \in Event
      BY <1>1, <2>1, NewEventType DEF HubHears
    <2>3. Publish(p, NewEvent(p, ch, l, nextId)) /\ down' = down
      BY <1>1 DEF HubHears
    <2>4. Planned(NewEvent(p, ch, l, nextId)) /\ e = Forwarded(NewEvent(p, ch, l, nextId))
      BY <2>1, <2>2, <2>3, PublishRelayed
    <2>5. QED
      BY <1>1, <2>2, <2>4 DEF RelayAdds
  <1>2. ASSUME NEW s \in Servers, HubReads(s)  PROVE RelayAdds(e)
    <2>1. Head(out[s]) \in Event /\ Head(out[s]) \in Held(out[s])
      BY <1>2, HeldTail DEF HubReads, TypeOK
    <2>2. s \in Publishers /\ [Head(out[s]) EXCEPT !.origin = s] \in Event
      BY <2>1 DEF Publishers, Event
    <2>3. Publish(s, [Head(out[s]) EXCEPT !.origin = s]) /\ down' = down
      BY <1>2 DEF HubReads
    <2>4. /\ Planned([Head(out[s]) EXCEPT !.origin = s])
          /\ e = Forwarded([Head(out[s]) EXCEPT !.origin = s])
      BY <2>2, <2>3, PublishRelayed
    <2>5. QED
      BY <1>2, <2>1, <2>4 DEF RelayAdds
  <1>3. ASSUME NEW p \in Publishers, NEW t \in Servers, Forward(p, t)  PROVE RelayAdds(e)
    <2>1. pub[p] \in Fanout /\ pub[p] # None
      BY <1>3, NullAssumption DEF Forward, TypeOK
    <2>2. pub[p].event \in Relayed /\ pub[p].event \in Frame
      BY <2>1 DEF Relayed, Fanout, Frame
    <2>3. \A q \in Publishers : pub'[q] # None => pub[q] # None /\ pub'[q].event = pub[q].event
      BY <1>3, <2>1 DEF Forward, TypeOK
    <2>4. \A s \in Servers : Held(down'[s]) \subseteq Held(down[s]) \cup {pub[p].event}
      <3>1. CASE t \in connected
        <4>1. PICK q \in SendOutcomes(down[t], pub[p].event) : down' = [down EXCEPT ![t] = q]
          BY <1>3, <3>1 DEF Forward
        <4>2. Held(q) \subseteq Held(down[t]) \cup {pub[p].event}
          BY <2>2, <4>1, HeldSend DEF TypeOK
        <4>3. QED
          BY <4>1, <4>2 DEF TypeOK
      <3>2. QED
        BY <1>3, <3>1 DEF Forward
    <2>5. QED
      BY <2>2, <2>3, <2>4 DEF Relayed
  <1>4. ASSUME NEW s \in Servers, SendTest(s)  PROVE RelayAdds(e)
    <2>1. PICK q \in SendOutcomes(down[s], TestFrame) : down' = [down EXCEPT ![s] = q]
      BY <1>4 DEF SendTest
    <2>2. Held(q) \subseteq Held(down[s]) \cup {TestFrame}
      <3>1. down[s] \in Seq(Frame) /\ TestFrame \in Frame
        BY DEF TypeOK, Frame
      <3>2. QED
        BY <2>1, <3>1, HeldSend
    <2>3. \A t \in Servers : Held(down'[t]) \subseteq Held(down[t]) \cup {TestFrame}
      BY <2>1, <2>2 DEF TypeOK
    <2>4. QED
      BY <1>4, <2>3 DEF Relayed, SendTest, routerVars
  <1>5. ASSUME NEW s \in Servers, Disconnect(s)  PROVE RelayAdds(e)
    <2>1. \A t \in Servers : Held(down'[t]) \subseteq Held(down[t])
      BY <1>5 DEF Disconnect, TypeOK, Held
    <2>2. QED
      BY <1>5, <2>1 DEF Relayed, Disconnect
  <1>6. ASSUME NEW s \in Servers, pub' = pub, down[s] # <<>>,
               down' = [down EXCEPT ![s] = Tail(down[s])]
        PROVE  RelayAdds(e)
    <2>1. \A t \in Servers : Held(down'[t]) \subseteq Held(down[t])
      BY <1>6, HeldTail DEF TypeOK
    <2>2. QED
      BY <1>6, <2>1 DEF Relayed
  <1>7. CASE UNCHANGED <<pub, down>>
    BY <1>7 DEF Relayed
  <1>8. QED
    BY <1>1, <1>2, <1>3, <1>4, <1>5, <1>6, <1>7
       DEF Next, vars, routerVars, PlayerSays, GameEchoes, EchoUnmatched, FrameLost,
           ReplaceChannels, Connect, Inject, HandleTest, Bounce, Tick

\* What can be new of the game's debts: a line written to the game.
LEMMA OwedStep ==
    ASSUME TypeOK, [Next]_vars, NEW s \in Servers, NEW o \in Held(owed'[s]), o \notin Held(owed[s])
    PROVE  OwedAdds(s, o)
  <1>1. ASSUME NEW t \in Servers, NEW l \in Lines, NEW ch \in Channels, NEW r \in Roots,
               WriteToGame(t, l, ch, r)
        PROVE  s = t /\ o = [line |-> l, channel |-> ch, root |-> r, at |-> now]
    <2> DEFINE x == [line |-> l, channel |-> ch, root |-> r, at |-> now]
    <2>1. x \in Owed
      BY DEF Owed, TypeOK
    <2>2. owed' = [owed EXCEPT ![t] = Append(owed[t], x)]
      BY <1>1 DEF WriteToGame
    <2>3. Held(Append(owed[t], x)) \subseteq Held(owed[t]) \cup {x}
      BY <2>1, HeldAppend DEF TypeOK
    <2> HIDE DEF x
    <2>4. s = t /\ o = x
      BY <2>2, <2>3 DEF TypeOK
    <2>5. QED
      BY <2>4 DEF x
  <1>2. ASSUME NEW t \in Servers, Inject(t)  PROVE OwedAdds(s, o)
    <2> DEFINE e == Head(down[t])
    <2>1. down[t] # <<>> /\ e # TestFrame
      BY <1>2 DEF Inject
    <2>2. e \in Held(down[t]) /\ e \in Event
      BY <2>1, HeldTail DEF TypeOK, Frame
    <2>3. e \in Relayed
      BY <2>1, <2>2 DEF Relayed
    <2>4. ~(e.origin = t \/ e.channel \notin AgentChannels[t] \/ Sanitize[e.line] = Blank)
      BY <1>2 DEF Inject
    <2>5. WriteToGame(t, Sanitize[e.line], e.channel, e.root)
      BY <1>2, <2>4 DEF Inject
    <2>6. Sanitize[e.line] \in Lines /\ e.channel \in Channels /\ e.root \in Roots
      BY <2>2, <2>4, RelayAssumption DEF Event
    <2>7. s = t /\ o = [line |-> Sanitize[e.line], channel |-> e.channel, root |-> e.root, at |-> now]
      BY <1>1, <2>5, <2>6
    <2>8. QED
      BY <1>2, <2>2, <2>3, <2>4, <2>7 DEF OwedAdds
  <1>3. ASSUME NEW t \in Servers, HandleTest(t)  PROVE OwedAdds(s, o)
    <2>1. WriteToGame(t, TestLine, TestChannel, TestRoot)
      BY <1>3 DEF HandleTest
    <2>2. TestLine \in Lines /\ TestChannel \in Channels /\ TestRoot \in Roots
      BY RelayAssumption DEF Roots
    <2>3. s = t /\ o = [line |-> TestLine, channel |-> TestChannel, root |-> TestRoot, at |-> now]
      BY <1>1, <2>1, <2>2
    <2>4. QED
      BY <1>3, <2>3 DEF OwedAdds
  <1>4. ASSUME NEW t \in Servers, owed[t] # <<>>, owed' = [owed EXCEPT ![t] = Tail(owed[t])]
        PROVE  OwedAdds(s, o)
    BY <1>4, HeldTail DEF TypeOK
  <1>5. QED
    BY <1>2, <1>3, <1>4
       DEF Next, vars, agentVars, PlayerSays, GameEchoes, EchoUnmatched, HubReads, FrameLost,
           HubHears, Forward, SendTest, ReplaceChannels, Connect, Disconnect, Bounce, Tick

-----------------------------------------------------------------------------
\* IDs and what was said only grow, by what somebody may say.
LEMMA SaidGrows ==
    ASSUME TypeOK, [Next]_vars
    PROVE  /\ nextId' \in Nat /\ nextId <= nextId' /\ said \subseteq said'
           /\ \A l \in said' \ said : \E p \in Publishers : l \in Sayable[p]
  <1>1. nextId' \in {nextId, nextId + 1}
    BY DEF Next, vars, agentVars, routerVars, historyVars, AgentPublish, PlayerSays, GameEchoes,
           EchoUnmatched, HubReads, FrameLost, HubHears, Forward, SendTest, ReplaceChannels,
           Connect, Disconnect, Inject, HandleTest, Bounce, Tick
  <1>2. said' = said \/ \E p \in Publishers : \E l \in Sayable[p] : said' = said \cup {l}
    BY DEF Next, vars, agentVars, routerVars, historyVars, PlayerSays, GameEchoes, Publishers,
           EchoUnmatched, HubReads, FrameLost, HubHears, Forward, SendTest, ReplaceChannels,
           Connect, Disconnect, Inject, HandleTest, Bounce, Tick
  <1>3. nextId \in Nat
    BY DEF TypeOK
  <1>4. QED
    BY <1>1, <1>2, <1>3

\* A step names a line nobody said before, or none.
Utters(l) ==
    /\ l \in Lines /\ l \notin said /\ said' = said \cup {l}
    /\ nextId \in Ids /\ nextId' = nextId + 1

\* The lines behind the IDs after a step: the old ones, and the new one.
LEMMA NamesStep ==
    ASSUME TypeOK, [Next]_vars, NEW f \in [Ids -> Lines \cup {Blank}], Names(f)
    PROVE  \E h \in [Ids -> Lines \cup {Blank}] :
               /\ Names(h)'
               /\ \A x : x.root \in Roots /\ Carries(f, x) => Carries(h, x)'
               /\ \A l, x : Utters(l) /\ x.root = nextId /\ Canon(x.line) = Canon(l)
                              => Carries(h, x)'
  <1>0. nextId \in Nat /\ nextId' \in Nat /\ nextId <= nextId' /\ said \subseteq said' /\ nextId # 0
    BY SaidGrows DEF TypeOK
  <1>1. CASE \E l : Utters(l)
    <2>1. PICK l : Utters(l)
      BY <1>1
    <2>2. /\ l \in Lines /\ l \notin said /\ said' = said \cup {l} /\ nextId \in Ids
          /\ nextId' = nextId + 1 /\ l # Blank
      BY <2>1, RelayAssumption DEF Utters
    <2>3. PICK h \in [Ids -> Lines \cup {Blank}] :
              h[nextId] = l /\ \A i \in Ids : i # nextId => h[i] = f[i]
      <3>1. [f EXCEPT ![nextId] = l] \in [Ids -> Lines \cup {Blank}]
        BY <2>2
      <3>2. /\ [f EXCEPT ![nextId] = l][nextId] = l
            /\ \A i \in Ids : i # nextId => [f EXCEPT ![nextId] = l][i] = f[i]
        BY <2>2
      <3>3. QED
        BY <3>1, <3>2
    <2>4. Names(h)'
      <3>1. \A i \in Ids : h[i] \in said' \cup {Blank}
        BY <2>2, <2>3 DEF Names
      <3>2. \A i \in Ids : f[i] # l
        BY <2>2 DEF Names
      <3>3. \A i, j \in Ids : h[i] = h[j] /\ h[i] # Blank => i = j
        BY <2>2, <2>3, <3>2 DEF Names
      <3>4. QED
        BY <2>3, <3>1, <3>3 DEF Names
    <2>5. ASSUME NEW x, x.root \in Roots, Carries(f, x)  PROVE Carries(h, x)'
      <3>1. x.root < nextId /\ x.root \in Nat
        BY <2>5 DEF Carries, Roots, Ids, TestRoot
      <3>2. x.root # TestRoot => x.root \in Ids /\ h[x.root] = f[x.root]
        BY <1>0, <2>3, <2>5, <3>1 DEF Roots
      <3>3. QED
        BY <1>0, <2>5, <3>1, <3>2 DEF Carries
    <2>6. ASSUME NEW m, NEW x, Utters(m), x.root = nextId, Canon(x.line) = Canon(m)
          PROVE  Carries(h, x)'
      <3>1. m = l
        BY <2>2, <2>6 DEF Utters
      <3>2. nextId # TestRoot
        BY <1>0 DEF TestRoot
      <3>3. QED
        BY <1>0, <2>2, <2>3, <2>6, <3>1, <3>2 DEF Carries
    <2>7. QED
      BY <2>3, <2>4, <2>5, <2>6
  <1>2. CASE \A l : ~Utters(l)
    <2>1. Names(f)'
      BY <1>0 DEF Names
    <2>2. ASSUME NEW x, x.root \in Roots, Carries(f, x)  PROVE Carries(f, x)'
      <3>1. x.root < nextId /\ x.root \in Nat
        BY <2>2 DEF Carries, Roots, Ids, TestRoot
      <3>2. QED
        BY <1>0, <2>2, <3>1 DEF Carries
    <2>3. QED
      BY <1>2, <2>1, <2>2
  <1>3. QED
    BY <1>1, <1>2

\* Every step keeps what is on its way going back to utterances.
LEMMA UtteredStep ==
    ASSUME QuietWorld, TypeOK, UtteredInv, [Next]_vars
    PROVE  UtteredInv'
  <1>1. (\A l \in said : \E p \in Publishers : l \in Sayable[p])'
    BY SaidGrows DEF UtteredInv
  <1>2. PICK f \in [Ids -> Lines \cup {Blank}] : Witness(f)
    BY DEF UtteredInv
  <1>3. PICK h \in [Ids -> Lines \cup {Blank}] :
               /\ Names(h)'
               /\ \A x : x.root \in Roots /\ Carries(f, x) => Carries(h, x)'
               /\ \A l, x : Utters(l) /\ x.root = nextId /\ Canon(x.line) = Canon(l)
                              => Carries(h, x)'
    BY <1>2, NamesStep DEF Witness
  <1>4. /\ \A s \in Servers : \A e \in Held(out[s]) : Carries(f, e) /\ e \in Event
        /\ \A e \in Relayed : Carries(f, e) /\ e \in Event
        /\ \A s \in Servers : \A o \in Held(owed[s]) : Carries(f, o) /\ o \in Owed
    <2>1. \A s \in Servers : Held(out[s]) \subseteq Event
      BY HeldType DEF TypeOK
    <2>2. \A s \in Servers : Held(owed[s]) \subseteq Owed
      BY HeldType DEF TypeOK
    <2>3. Relayed \subseteq Event
      <3>1. \A p \in Publishers : pub[p] # None => pub[p].event \in Event
        BY DEF TypeOK, Fanout
      <3>2. \A s \in Servers : Held(down[s]) \subseteq Frame
        BY HeldType DEF TypeOK
      <3>3. QED
        BY <3>1, <3>2 DEF Relayed, Frame
    <2>4. QED
      BY <1>2, <2>1, <2>2, <2>3 DEF Witness
  <1>5. \A x \in Event \cup Owed : x.root \in Roots /\ x.line \in Lines
    BY DEF Event, Owed
  <1>6. nextId # TestRoot
    BY DEF TypeOK, TestRoot
  <1>7. ASSUME NEW s \in Servers, NEW e \in Held(out'[s])  PROVE Carries(h, e)'
    <2>1. CASE e \in Held(out[s])
      BY <1>3, <1>4, <1>5, <2>1
    <2>2. CASE OutAdds(s, e)
      <3>1. ASSUME NEW ch \in Channels, NEW l \in Sayable[s], PlayerSays(s, ch, l),
                   Sanitize[l] # Blank, nextId \in Ids, nextId' = nextId + 1,
                   e = NewEvent(s, ch, Sanitize[l], nextId)
            PROVE  Carries(h, e)'
        <4>1. l \in Lines
          BY RelayAssumption DEF Publishers
        <4>2. Utters(l)
          BY <3>1, <4>1 DEF Utters, PlayerSays, Unsaid, QuietWorld
        <4>3. e.root = nextId /\ Canon(e.line) = Canon(l)
          BY <3>1, <4>1, CanonStable DEF NewEvent
        <4>4. QED
          BY <1>3, <4>2, <4>3
      <3>2. ASSUME owed[s] # <<>>, Sanitize[Head(owed[s]).line] # Blank,
                   e = NewEvent(s, Head(owed[s]).channel, Sanitize[Head(owed[s]).line],
                                Head(owed[s]).root)
            PROVE  Carries(h, e)'
        <4> DEFINE o == Head(owed[s])
        <4>1. o \in Held(owed[s])
          BY <3>2, HeldTail DEF TypeOK
        <4>2. Carries(f, o) /\ o.line \in Lines /\ o.root \in Roots
          BY <1>4, <1>5, <4>1
        <4>3. e.root = o.root /\ Canon(e.line) = Canon(o.line)
          BY <3>2, <4>2, CanonStable DEF NewEvent
        <4>4. Carries(f, e) /\ e.root \in Roots
          BY <4>2, <4>3 DEF Carries
        <4>5. QED
          BY <1>3, <4>4
      <3>3. ASSUME NEW hop \in Hops, Head(down[s]) \in Relayed,
                   e = [Head(down[s]) EXCEPT !.hop = hop]
            PROVE  Carries(h, e)'
        <4>1. Carries(f, Head(down[s])) /\ Head(down[s]) \in Event
          BY <1>4, <3>3
        <4>2. e.root = Head(down[s]).root /\ e.line = Head(down[s]).line
          BY <3>3, <4>1 DEF Event
        <4>3. Carries(f, e) /\ e.root \in Roots
          BY <1>5, <4>1, <4>2 DEF Carries
        <4>4. QED
          BY <1>3, <4>3
      <3>4. QED
        BY <2>2, <3>1, <3>2, <3>3 DEF OutAdds
    <2>3. QED
      BY <1>7, <2>1, <2>2, OutStep
  <1>8. ASSUME NEW e \in Relayed'  PROVE Carries(h, e)'
    <2>1. CASE e \in Relayed
      BY <1>3, <1>4, <1>5, <2>1
    <2>2. CASE RelayAdds(e)
      <3>1. ASSUME NEW p \in {Discord, Local}, NEW ch \in Channels, NEW l \in Sayable[p],
                   HubHears(p, ch, l), NewEvent(p, ch, l, nextId) \in Event,
                   Planned(NewEvent(p, ch, l, nextId)),
                   e = Forwarded(NewEvent(p, ch, l, nextId))
            PROVE  Carries(h, e)'
        <4>1. l \in Lines /\ nextId \in Ids
          BY <3>1, RelayAssumption DEF Publishers, HubHears, Ids, TypeOK
        <4>2. Utters(l)
          BY <3>1, <4>1 DEF Utters, HubHears, Unsaid, QuietWorld
        <4>3. NewEvent(p, ch, l, nextId).root = nextId /\ NewEvent(p, ch, l, nextId).line = l
          BY DEF NewEvent
        <4>4. e.root = nextId /\ e.line = Sanitize[l] /\ Sanitize[l] # Blank
          BY <3>1, <4>3, ForwardedFields
        <4>5. Canon(e.line) = Canon(l)
          BY <4>1, <4>4, CanonStable
        <4>6. QED
          BY <1>3, <4>2, <4>4, <4>5
      <3>2. ASSUME NEW s \in Servers, Head(out[s]) \in Held(out[s]),
                   Planned([Head(out[s]) EXCEPT !.origin = s]),
                   e = Forwarded([Head(out[s]) EXCEPT !.origin = s])
            PROVE  Carries(h, e)'
        <4> DEFINE raw == [Head(out[s]) EXCEPT !.origin = s]
        <4>1. Carries(f, Head(out[s])) /\ Head(out[s]) \in Event
          BY <1>4, <3>2
        <4>2. raw \in Event /\ raw.root = Head(out[s]).root /\ raw.line = Head(out[s]).line
          BY <4>1 DEF Event, Publishers
        <4>3. e.root = raw.root /\ e.line = Sanitize[raw.line] /\ Sanitize[raw.line] # Blank
          BY <3>2, <4>2, ForwardedFields
        <4>4. Canon(e.line) = Canon(raw.line) /\ raw.root \in Roots
          BY <1>5, <4>2, <4>3, CanonStable
        <4>5. Carries(f, e) /\ e.root \in Roots
          BY <4>1, <4>2, <4>3, <4>4 DEF Carries
        <4>6. QED
          BY <1>3, <4>5
      <3>3. QED
        BY <2>2, <3>1, <3>2 DEF RelayAdds
    <2>3. QED
      BY <1>8, <2>1, <2>2, RelayedStep
  <1>9. ASSUME NEW s \in Servers, NEW o \in Held(owed'[s])  PROVE Carries(h, o)'
    <2>1. CASE o \in Held(owed[s])
      BY <1>3, <1>4, <1>5, <2>1
    <2>2. CASE OwedAdds(s, o)
      <3>1. ASSUME Head(down[s]) \in Relayed, Sanitize[Head(down[s]).line] # Blank,
                   o.line = Sanitize[Head(down[s]).line], o.root = Head(down[s]).root
            PROVE  Carries(h, o)'
        <4>1. Carries(f, Head(down[s])) /\ Head(down[s]).line \in Lines /\ o.root \in Roots
          BY <1>4, <1>5, <3>1
        <4>2. Canon(o.line) = Canon(Head(down[s]).line)
          BY <3>1, <4>1, CanonStable
        <4>3. Carries(f, o)
          BY <3>1, <4>1, <4>2 DEF Carries
        <4>4. QED
          BY <1>3, <4>1, <4>3
      <3>2. ASSUME o.line = TestLine, o.root = TestRoot  PROVE Carries(h, o)'
        BY <3>2, SaidGrows DEF Carries, TestRoot, TypeOK
      <3>3. QED
        BY <2>2, <3>1, <3>2 DEF OwedAdds
    <2>3. QED
      BY <1>9, <2>1, <2>2, OwedStep
  <1>10. Witness(h)'
    BY <1>3, <1>7, <1>8, <1>9 DEF Witness
  <1>11. QED
    BY <1>1, <1>10 DEF UtteredInv

-----------------------------------------------------------------------------
\* The elements of the queues are events and owed lines.
LEMMA ItemTypes ==
    ASSUME TypeOK
    PROVE  /\ \A s \in Servers : Held(out[s]) \subseteq Event
           /\ \A s \in Servers : Held(owed[s]) \subseteq Owed
           /\ \A s \in Servers : Held(down[s]) \subseteq Frame
           /\ Relayed \subseteq Event
  <1>1. \A s \in Servers : Held(out[s]) \subseteq Event
    BY HeldType DEF TypeOK
  <1>2. \A s \in Servers : Held(owed[s]) \subseteq Owed
    BY HeldType DEF TypeOK
  <1>3. \A p \in Publishers : pub[p] # None => pub[p].event \in Event
    BY DEF TypeOK, Fanout
  <1>4. \A s \in Servers : Held(down[s]) \subseteq Frame
    BY HeldType DEF TypeOK
  <1>5. QED
    BY <1>1, <1>2, <1>3, <1>4 DEF Relayed, Frame

\* What the hub relays stays sanitized for good.
LEMMA SettledStep ==
    ASSUME QuietWorld, TypeOK, SettledInv, [Next]_vars
    PROVE  SettledInv'
  <1> SUFFICES ASSUME NEW e \in Relayed'  PROVE Settled(e.line)
    BY DEF SettledInv, Settled
  <1>1. CASE e \in Relayed
    BY <1>1 DEF SettledInv
  <1>2. ASSUME NEW raw \in Event, Planned(raw), e = Forwarded(raw)  PROVE Settled(e.line)
    <2>1. e.line = Sanitize[raw.line] /\ Sanitize[raw.line] # Blank /\ raw.line \in Lines
      BY <1>2, ForwardedFields DEF Event
    <2>2. QED
      BY <2>1, CanonStable
  <1>3. CASE RelayAdds(e)
    <2>1. ASSUME NEW s \in Servers, Head(out[s]) \in Event
          PROVE  [Head(out[s]) EXCEPT !.origin = s] \in Event
      BY <2>1 DEF Event, Publishers
    <2>2. QED
      BY <1>2, <1>3, <2>1 DEF RelayAdds
  <1>4. QED
    BY <1>1, <1>3, RelayedStep

\* Two lines a game owes that have become the same are the same utterance.
LEMMA SameUtterance ==
    ASSUME QuietWorld, TypeOK, UtteredInv, NEW s \in Servers,
           NEW o \in Held(owed[s]), NEW x \in Held(owed[s]), o.root # TestRoot,
           Canon(o.line) = Canon(x.line), Canon(o.line) # Blank
    PROVE  x.root = o.root
  <1>1. PICK f \in [Ids -> Lines \cup {Blank}] : Witness(f)
    BY DEF UtteredInv
  <1>2. Carries(f, o) /\ Carries(f, x) /\ Names(f)
    BY <1>1 DEF Witness
  <1>3. o \in Owed /\ x \in Owed
    BY ItemTypes
  <1>4. o.root \in Ids /\ x.root \in Roots
    BY <1>3 DEF Owed, Roots
  <1>5. f[o.root] \in said /\ Canon(o.line) = Canon(f[o.root])
    BY <1>2 DEF Carries
  <1>6. PICK p \in Publishers : f[o.root] \in Sayable[p]
    BY <1>5 DEF UtteredInv
  <1>7. CASE x.root = TestRoot
    <2>1. Canon(TestLine) = Canon(f[o.root])
      BY <1>2, <1>5, <1>7 DEF Carries
    <2>2. TestLine = f[o.root]
      BY <1>5, <1>6, <2>1 DEF QuietWorld
    <2>3. QED
      BY <1>6, <2>2 DEF QuietWorld
  <1>8. CASE x.root # TestRoot
    <2>1. f[x.root] \in said /\ Canon(x.line) = Canon(f[x.root]) /\ x.root \in Ids
      BY <1>2, <1>4, <1>8 DEF Carries, Roots
    <2>2. PICK q \in Publishers : f[x.root] \in Sayable[q]
      BY <2>1 DEF UtteredInv
    <2>3. f[x.root] = f[o.root]
      <3>1. Canon(f[x.root]) = Canon(f[o.root]) /\ Canon(f[x.root]) # Blank
        BY <1>5, <2>1
      <3>2. ASSUME NEW l \in Sayable[q], NEW m \in Sayable[p],
                   Canon(l) = Canon(m), Canon(l) # Blank
            PROVE  l = m
        BY <3>2 DEF QuietWorld
      <3>3. QED
        BY <1>6, <2>2, <3>1, <3>2, Zenon
    <2>4. f[o.root] # Blank
      BY <1>6, RelayAssumption
    <2>5. QED
      BY <1>2, <1>4, <2>1, <2>3, <2>4 DEF Names
  <1>9. QED
    BY <1>7, <1>8

\* A line nobody said does not become one a game owes.
LEMMA NotOwed ==
    ASSUME QuietWorld, TypeOK, UtteredInv, NEW s \in Servers, NEW o \in Held(owed[s]),
           o.root # TestRoot, Canon(o.line) # Blank,
           NEW p \in Publishers, NEW l \in Sayable[p], l \notin said
    PROVE  Canon(l) # Canon(o.line)
  <1>1. PICK f \in [Ids -> Lines \cup {Blank}] : Witness(f)
    BY DEF UtteredInv
  <1>2. f[o.root] \in said /\ Canon(o.line) = Canon(f[o.root])
    BY <1>1 DEF Witness, Carries
  <1>3. PICK q \in Publishers : f[o.root] \in Sayable[q]
    BY <1>2 DEF UtteredInv
  <1>4. QED
    BY <1>2, <1>3 DEF QuietWorld

\* The game's debts stay in order and in time.
LEMMA TimeStep ==
    ASSUME TypeOK, TimeInv, [Next]_vars
    PROVE  TimeInv'
  <1>0. now \in Nat /\ EchoDelay \in Nat
        /\ \A s \in Servers : \A j \in DOMAIN owed[s] : owed[s][j].at \in Nat
    <2>1. \A s \in Servers : \A j \in DOMAIN owed[s] : owed[s][j] \in Owed
      BY DEF TypeOK
    <2>2. QED
      BY <2>1, RelayAssumption DEF Owed, TypeOK
  <1>1. CASE Tick
    <2>1. owed' = owed /\ now' = now + 1
      BY <1>1 DEF Tick, agentVars
    <2>2. ASSUME NEW s \in Servers, NEW j \in DOMAIN owed[s]
          PROVE  now + 1 <= owed[s][j].at + EchoDelay
      <3>1. owed[s] # <<>> /\ 1 \in DOMAIN owed[s] /\ Head(owed[s]) = owed[s][1] /\ (j = 1 \/ 1 < j)
        BY DEF TypeOK
      <3>2. owed[s][1].at <= owed[s][j].at
        BY <1>0, <3>1 DEF TimeInv
      <3>3. now < owed[s][1].at + EchoDelay
        BY <1>1, <3>1 DEF Tick
      <3>4. QED
        BY <1>0, <3>1, <3>2, <3>3
    <2>3. QED
      BY <1>0, <2>1, <2>2 DEF TimeInv
  <1>2. ASSUME NEW t \in Servers, NEW l \in Lines, NEW ch \in Channels, NEW r \in Roots,
               WriteToGame(t, l, ch, r), now' = now
        PROVE  TimeInv'
    <2> DEFINE x == [line |-> l, channel |-> ch, root |-> r, at |-> now]
               q == Append(owed[t], x)
    <2>1. CASE owed' = [owed EXCEPT ![t] = q]
      <3>1. x.at = now /\ x \in Owed
        BY DEF Owed, TypeOK
      <3>2. owed[t] \in Seq(Owed)
        BY DEF TypeOK
      <3> HIDE DEF x
      <3>3. \A j \in DOMAIN q : (j \in DOMAIN owed[t] /\ q[j] = owed[t][j])
                                 \/ (j = Len(owed[t]) + 1 /\ q[j] = x)
        BY <3>1, <3>2
      <3>4. DOMAIN owed[t] = 1 .. Len(owed[t]) /\ Len(owed[t]) \in Nat
        BY <3>2
      <3> HIDE DEF q
      <3>5. ASSUME NEW j \in DOMAIN q
            PROVE  /\ q[j].at <= now /\ now <= q[j].at + EchoDelay
                   /\ \A k \in DOMAIN q : j < k => q[j].at <= q[k].at
        BY <1>0, <3>1, <3>3, <3>4 DEF TimeInv
      <3>6. owed'[t] = q /\ \A s \in Servers \ {t} : owed'[s] = owed[s]
        BY <2>1 DEF TypeOK
      <3>7. QED
        BY <1>2, <3>5, <3>6 DEF TimeInv
    <2>2. CASE owed' = owed
      BY <1>2, <2>2 DEF TimeInv
    <2>3. QED
      BY <1>2, <2>1, <2>2 DEF WriteToGame
  <1>3. ASSUME NEW t \in Servers, owed[t] # <<>>, owed' = [owed EXCEPT ![t] = Tail(owed[t])], now' = now
        PROVE  TimeInv'
    <2> DEFINE q == Tail(owed[t])
    <2>1. \A j \in DOMAIN q : j \in Nat /\ j + 1 \in DOMAIN owed[t] /\ q[j] = owed[t][j + 1]
      BY <1>3 DEF TypeOK
    <2>2. owed'[t] = q /\ \A s \in Servers \ {t} : owed'[s] = owed[s]
      BY <1>3 DEF TypeOK
    <2> HIDE DEF q
    <2>3. ASSUME NEW j \in DOMAIN q
          PROVE  /\ q[j].at <= now /\ now <= q[j].at + EchoDelay
                 /\ \A k \in DOMAIN q : j < k => q[j].at <= q[k].at
      BY <2>1 DEF TimeInv
    <2>4. QED
      BY <1>3, <2>2, <2>3 DEF TimeInv
  <1>4. CASE UNCHANGED <<owed, now>>
    BY <1>4 DEF TimeInv
  <1>5. ASSUME NEW t \in Servers, Inject(t)  PROVE TimeInv'
    <2>1. CASE owed' = owed
      BY <1>4, <1>5, <2>1 DEF Inject
    <2>2. CASE owed' # owed
      <3> DEFINE e == Head(down[t])
      <3>1. e \in Event
        BY <1>5, TailType DEF Inject, TypeOK, Frame
      <3>2. WriteToGame(t, Sanitize[e.line], e.channel, e.root) /\ Sanitize[e.line] # Blank /\ now' = now
        BY <1>5, <2>2 DEF Inject
      <3>3. Sanitize[e.line] \in Lines /\ e.channel \in Channels /\ e.root \in Roots
        BY <3>1, <3>2, RelayAssumption DEF Event
      <3>4. QED
        BY <1>2, <3>2, <3>3
    <2>3. QED
      BY <2>1, <2>2
  <1>6. ASSUME NEW t \in Servers, HandleTest(t)  PROVE TimeInv'
    <2>1. CASE owed' = owed
      BY <1>4, <1>6, <2>1 DEF HandleTest
    <2>2. CASE owed' # owed
      <3>1. WriteToGame(t, TestLine, TestChannel, TestRoot) /\ now' = now
        BY <1>6, <2>2 DEF HandleTest
      <3>2. TestLine \in Lines /\ TestChannel \in Channels /\ TestRoot \in Roots
        BY RelayAssumption DEF Roots
      <3>3. QED
        BY <1>2, <3>1, <3>2
    <2>3. QED
      BY <2>1, <2>2
  <1>7. QED
    BY <1>1, <1>3, <1>4, <1>5, <1>6
       DEF Next, vars, agentVars, PlayerSays, GameEchoes, EchoUnmatched, HubReads, FrameLost,
           HubHears, Forward, SendTest, ReplaceChannels, Connect, Disconnect, Bounce

-----------------------------------------------------------------------------
\* Deliveries planned are never taken back.
LEMMA AcceptedGrows ==
    ASSUME TypeOK, [Next]_vars, NEW i \in Ids
    PROVE  accepted'[i] \in Nat /\ accepted[i] \in Nat /\ accepted[i] <= accepted'[i]
  <1>1. ASSUME NEW p \in Publishers, NEW raw, Publish(p, raw)
        PROVE  accepted' = accepted \/ \E j : accepted' = [accepted EXCEPT ![j] = @ + 1]
    BY <1>1 DEF Publish
  <1>2. accepted' = accepted \/ \E j : accepted' = [accepted EXCEPT ![j] = @ + 1]
    BY <1>1 DEF Next, vars, historyVars, PlayerSays, GameEchoes, EchoUnmatched, HubReads, FrameLost,
           HubHears, Forward, SendTest, ReplaceChannels, Connect, Disconnect, Inject, HandleTest,
           Bounce, Tick, Publishers
  <1>3. accepted \in [Ids -> Nat]
    BY DEF TypeOK
  <1>4. QED
    BY <1>2, <1>3

\* What is left after the first element was there behind it.
LEMMA TailIndex ==
    ASSUME NEW S, NEW q \in Seq(S), q # <<>>, NEW x \in Held(Tail(q))
    PROVE  \E k \in DOMAIN q : k # 1 /\ q[k] = x
  <1>1. PICK j \in DOMAIN Tail(q) : Tail(q)[j] = x
    BY DEF Held
  <1>2. j \in Nat \ {0} /\ j + 1 \in DOMAIN q /\ Tail(q)[j] = q[j + 1]
    OBVIOUS
  <1>3. QED
    BY <1>1, <1>2

\* A step leaves the entry of a line whose echo is still to come: remembering
\* another line keeps it, and no other line is looked up under its text.
LEMMA EchoKept ==
    ASSUME QuietWorld, CachesFit, TypeOK, UtteredInv, SettledInv, TimeInv, EchoInv, StageInv,
           [Next]_vars, NEW s \in Servers, NEW o \in Held(owed[s]), o \in Held(owed'[s]),
           o.root \in Ids, accepted[o.root] <= 1
    PROVE  Sanitize[o.line] = o.line /\ o.at + EchoTTL <= echo'[s][o.line]
  <1>1. o \in Owed /\ o.line \in Lines /\ o.at \in Nat /\ o.root # TestRoot
    <2>1. o \in Owed
      BY ItemTypes
    <2>2. QED
      BY <2>1 DEF Owed, TestRoot, Ids
  <1>2. Sanitize[o.line] = o.line /\ o.at + EchoTTL <= echo[s][o.line]
    BY <1>1 DEF EchoInv
  <1>3. Canon(o.line) = o.line /\ Canon(o.line) # Blank
    BY <1>1, <1>2, CanonFixed
  <1>4. now \in Nat /\ EchoTTL \in Nat /\ EchoDelay \in Nat /\ EchoDelay < EchoTTL
        /\ echo[s] \in [Lines -> Nat]
    BY RelayAssumption DEF TypeOK, QuietWorld
  <1>5. o.at <= now /\ now <= o.at + EchoDelay
    BY DEF TimeInv, Held
  <1>6. now < echo[s][o.line]
    BY <1>1, <1>2, <1>4, <1>5
  <1>7. SUFFICES o.at + EchoTTL <= echo'[s][o.line]
    BY <1>2
  <1>8. ASSUME NEW t \in Servers, NEW ch, NEW l \in Lines, NEW r, AgentPublish(t, ch, l, r),
               t = s => Sanitize[l] # o.line
        PROVE  echo'[s][o.line] = echo[s][o.line]
    <2>1. echo' = echo \/ (Sanitize[l] # Blank /\ echo' = [echo EXCEPT ![t][Sanitize[l]] = 0])
      BY <1>8 DEF AgentPublish
    <2>2. QED
      BY <1>1, <1>8, <2>1 DEF TypeOK
  <1>9. ASSUME NEW t \in Servers, NEW ch \in Channels, NEW l \in Sayable[t], PlayerSays(t, ch, l)
        PROVE  echo'[s][o.line] = echo[s][o.line]
    <2>1. l \in Lines /\ t \in Publishers
      BY RelayAssumption DEF Publishers
    <2>2. l \notin said /\ AgentPublish(t, ch, l, nextId)
      BY <1>9 DEF PlayerSays, Unsaid, QuietWorld
    <2>3. Sanitize[l] # o.line
      <3>1. SUFFICES ASSUME Sanitize[l] = o.line  PROVE FALSE
        OBVIOUS
      <3>2. Sanitize[l] # Blank
        BY <1>1, <3>1, RelayAssumption
      <3>3. Canon(l) = Canon(o.line)
        BY <2>1, <3>1, <3>2, CanonStable
      <3>4. QED
        BY <1>1, <1>3, <2>1, <2>2, <3>3, NotOwed
    <2>4. QED
      BY <1>8, <2>1, <2>2, <2>3
  <1>10. ASSUME NEW t \in Servers, GameEchoes(t)
         PROVE  echo'[s][o.line] = echo[s][o.line]
    <2> DEFINE x == Head(owed[t])
    <2>1. owed[t] # <<>> /\ owed' = [owed EXCEPT ![t] = Tail(owed[t])]
          /\ AgentPublish(t, x.channel, x.line, x.root)
      BY <1>10 DEF GameEchoes
    <2>2. x \in Held(owed[t]) /\ x \in Owed /\ x = owed[t][1] /\ 1 \in DOMAIN owed[t]
      BY <2>1, HeldTail DEF TypeOK
    <2>3. x.line \in Lines
      BY <2>2 DEF Owed
    <2>4. t = s => Sanitize[x.line] # o.line
      <3>1. SUFFICES ASSUME t = s, Sanitize[x.line] = o.line  PROVE FALSE
        OBVIOUS
      <3>2. Sanitize[x.line] # Blank
        BY <1>1, <3>1, RelayAssumption
      <3>3. Canon(x.line) = Canon(o.line)
        BY <2>3, <3>1, <3>2, CanonStable
      <3>4. x.root = o.root
        BY <1>1, <1>3, <2>2, <3>1, <3>3, SameUtterance
      <3>5. owed'[s] = Tail(owed[s]) /\ owed[s] \in Seq(Owed) /\ owed[s] # <<>>
        BY <2>1, <3>1 DEF TypeOK
      <3>6. PICK k \in DOMAIN owed[s] : k # 1 /\ owed[s][k] = o
        BY <3>5, TailIndex
      <3>7. OneOwed(owed[s], o.root)
        BY DEF StageInv
      <3> HIDE DEF x
      <3>8. QED
        BY <2>2, <3>1, <3>4, <3>6, <3>7 DEF OneOwed
    <2> HIDE DEF x
    <2>5. QED
      BY <1>8, <2>1, <2>3, <2>4
  <1>11. ASSUME NEW t \in Servers, NEW l \in Lines, NEW ch, NEW r, WriteToGame(t, l, ch, r)
         PROVE  o.at + EchoTTL <= echo'[s][o.line]
    <2>1. echo' = [echo EXCEPT ![t] = Remembered(t, l)]
      BY <1>11 DEF WriteToGame
    <2>2. CASE t # s
      BY <1>2, <2>1, <2>2 DEF TypeOK
    <2>3. CASE t = s
      <3>1. echo'[s] = [Unexpired(s) EXCEPT ![l] = now + EchoTTL]
        BY <2>1, <2>3 DEF Remembered, CachesFit, TypeOK
      <3>2. Unexpired(s)[o.line] = echo[s][o.line]
        BY <1>1, <1>4, <1>6 DEF Unexpired
      <3>3. echo'[s][o.line] = IF l = o.line THEN now + EchoTTL ELSE echo[s][o.line]
        BY <1>1, <3>1, <3>2 DEF Unexpired
      <3>4. QED
        BY <1>1, <1>2, <1>4, <1>5, <3>3
    <2>4. QED
      BY <2>2, <2>3
  <1>12. ASSUME NEW t \in Servers, Inject(t)  PROVE o.at + EchoTTL <= echo'[s][o.line]
    <2> DEFINE e == Head(down[t])
    <2>1. e \in Event
      BY <1>12, TailType DEF Inject, TypeOK, Frame
    <2>2. CASE echo' = echo
      BY <1>2, <2>2
    <2>3. CASE echo' # echo
      <3>1. WriteToGame(t, Sanitize[e.line], e.channel, e.root) /\ Sanitize[e.line] # Blank
        BY <1>12, <2>3 DEF Inject
      <3>2. Sanitize[e.line] \in Lines
        BY <2>1, <3>1, RelayAssumption DEF Event
      <3>3. QED
        BY <1>11, <3>1, <3>2
    <2>4. QED
      BY <2>2, <2>3
  <1>13. ASSUME NEW t \in Servers, HandleTest(t)  PROVE o.at + EchoTTL <= echo'[s][o.line]
    <2>1. TestLine \in Lines
      BY RelayAssumption
    <2>2. echo' = echo \/ WriteToGame(t, TestLine, TestChannel, TestRoot)
      BY <1>13 DEF HandleTest
    <2>3. QED
      BY <1>2, <1>11, <2>1, <2>2
  <1>14. CASE echo' = echo
    BY <1>2, <1>14
  <1>15. QED
    BY <1>2, <1>9, <1>10, <1>12, <1>13, <1>14
       DEF Next, vars, agentVars, EchoUnmatched, HubReads, FrameLost,
           HubHears, Forward, SendTest, ReplaceChannels, Connect, Disconnect, Bounce, Tick

\* Every debt of the game keeps an echo cache entry that outlives it.
LEMMA EchoStep ==
    ASSUME QuietWorld, CachesFit, TypeOK, UtteredInv, SettledInv, TimeInv, EchoInv, StageInv,
           TypeOK', [Next]_vars
    PROVE  EchoInv'
  <1> SUFFICES ASSUME NEW s \in Servers, NEW o \in Held(owed'[s]), o.root # TestRoot,
                      accepted'[o.root] <= 1
               PROVE  Sanitize[o.line] = o.line /\ o.at + EchoTTL <= echo'[s][o.line]
    BY DEF EchoInv
  <1>1. o \in Owed
    <2>1. owed'[s] \in Seq(Owed)
      BY DEF TypeOK
    <2>2. QED
      BY <2>1, HeldType
  <1>2. o.root \in Ids /\ accepted[o.root] <= 1
    <2>1. o.root \in Ids
      BY <1>1 DEF Owed, Roots
    <2>2. QED
      BY <2>1, AcceptedGrows
  <1>3. CASE o \in Held(owed[s])
    BY <1>2, <1>3, EchoKept
  <1>4. CASE o \notin Held(owed[s])
    <2>1. OwedAdds(s, o)
      BY <1>4, OwedStep
    <2> DEFINE e == Head(down[s])
               l == Sanitize[e.line]
    <2>2. Inject(s) /\ e \in Relayed /\ e \in Event /\ l # Blank /\ o.line = l /\ o.at = now
      BY <2>1 DEF OwedAdds
    <2>3. owed' # owed
      BY <1>4
    <2>4. WriteToGame(s, l, e.channel, e.root)
      BY <2>2, <2>3 DEF Inject
    <2>5. Sanitize[l] = l
      BY <2>2 DEF SettledInv, Settled
    <2>6. l \in Lines
      BY <2>2, RelayAssumption DEF Event
    <2> HIDE DEF l
    <2>7. echo' = [echo EXCEPT ![s] = Remembered(s, l)]
      BY <2>4 DEF WriteToGame
    <2>8. echo'[s] = [Unexpired(s) EXCEPT ![l] = now + EchoTTL]
      BY <2>7 DEF Remembered, CachesFit, TypeOK
    <2>9. echo'[s][l] = now + EchoTTL
      BY <2>6, <2>8 DEF Unexpired
    <2>10. now + EchoTTL <= now + EchoTTL
      BY RelayAssumption DEF TypeOK
    <2>11. QED
      BY <2>2, <2>5, <2>9, <2>10
  <1>5. QED
    BY <1>3, <1>4

-----------------------------------------------------------------------------
\* The hub plans deliveries for raw: a fresh utterance of Discord or of the
\* local server, or what an agent sent.
Plans(raw) ==
    /\ raw \in Event /\ Planned(raw) /\ accepted'[raw.id] = accepted[raw.id] + 1
    /\ \/ /\ raw.id = nextId /\ raw.root = nextId /\ nextId \in Ids
          /\ nextId' = nextId + 1 /\ speaker'[nextId] = raw.origin
       \/ \E s \in Servers : \E x \in Held(out[s]) :
              raw.origin = s /\ raw.id = x.id /\ raw.root = x.root

\* The counts of Hub.Publish.
LEMMA PublishCounts ==
    ASSUME TypeOK, NEW p \in Publishers, NEW raw \in Event, Publish(p, raw)
    PROVE  /\ Planned(raw) => accepted'[raw.id] = accepted[raw.id] + 1
           /\ \A i \in Ids : onDiscord'[i] # onDiscord[i] =>
                  /\ Planned(raw) /\ raw.root = i /\ raw.origin # Discord
                  /\ onDiscord'[i] = onDiscord[i] + 1
  <1> DEFINE e == [raw EXCEPT !.line = Sanitize[raw.line]]
  <1>1. e.id = raw.id /\ e.root = raw.root /\ e.origin = raw.origin /\ raw.id \in Ids /\ raw.root \in Roots
    BY DEF Event
  <1>2. accepted' = IF Planned(raw) THEN [accepted EXCEPT ![raw.id] = @ + 1] ELSE accepted
    BY <1>1 DEF Publish, Planned
  <1>3. onDiscord' = IF Planned(raw) /\ ShowsOnDiscord(e)
                     THEN [onDiscord EXCEPT ![raw.root] = @ + 1] ELSE onDiscord
    BY <1>1 DEF Publish, Planned
  <1>4. ShowsOnDiscord(e) => raw.origin # Discord
    BY <1>1 DEF ShowsOnDiscord
  <1> HIDE DEF e
  <1>5. Planned(raw) => accepted'[raw.id] = accepted[raw.id] + 1
    BY <1>1, <1>2 DEF TypeOK
  <1>6. ASSUME NEW i \in Ids, onDiscord'[i] # onDiscord[i]
        PROVE  /\ Planned(raw) /\ raw.root = i /\ raw.origin # Discord
               /\ onDiscord'[i] = onDiscord[i] + 1
    <2>1. i \in Roots /\ onDiscord \in [Roots -> Nat]
      BY DEF Roots, TypeOK
    <2>2. Planned(raw) /\ ShowsOnDiscord(e)
      BY <1>3, <1>6
    <2>3. onDiscord' = [onDiscord EXCEPT ![raw.root] = @ + 1]
      BY <1>3, <2>2
    <2>4. QED
      BY <1>1, <1>4, <1>6, <2>1, <2>2, <2>3
  <1>7. QED
    BY <1>5, <1>6

\* What Hub.Publish is called with, where it plans deliveries.
LEMMA HearsPlans ==
    ASSUME TypeOK, NEW p \in {Discord, Local}, NEW ch \in Channels, NEW l \in Sayable[p],
           HubHears(p, ch, l), Planned(NewEvent(p, ch, l, nextId))
    PROVE  Plans(NewEvent(p, ch, l, nextId))
  <1> DEFINE raw == NewEvent(p, ch, l, nextId)
  <1>1. l \in Lines /\ p \in Publishers /\ nextId \in Roots /\ nextId \in Ids
    BY RelayAssumption DEF HubHears, TypeOK, Roots, Ids, Publishers
  <1>2. raw \in Event
    BY <1>1, NewEventType DEF HubHears
  <1>3. Publish(p, raw) /\ nextId' = nextId + 1 /\ speaker' = [speaker EXCEPT ![nextId] = p]
    BY DEF HubHears
  <1>4. raw.id = nextId /\ raw.root = nextId /\ raw.origin = p
    BY DEF NewEvent
  <1> HIDE DEF raw
  <1>5. accepted'[raw.id] = accepted[raw.id] + 1
    BY <1>1, <1>2, <1>3, PublishCounts DEF raw
  <1>6. speaker'[nextId] = p
    BY <1>1, <1>3 DEF TypeOK
  <1>7. Planned(raw)
    BY DEF raw
  <1>8. Plans(raw)
    BY <1>1, <1>2, <1>3, <1>4, <1>5, <1>6, <1>7 DEF Plans
  <1>9. QED
    BY <1>8 DEF raw

\* What an agent sent is planned with its own server as the origin.
LEMMA ReadsPlans ==
    ASSUME TypeOK, NEW s \in Servers, HubReads(s),
           Planned([Head(out[s]) EXCEPT !.origin = s])
    PROVE  Plans([Head(out[s]) EXCEPT !.origin = s])
  <1> DEFINE raw == [Head(out[s]) EXCEPT !.origin = s]
  <1>1. Head(out[s]) \in Event /\ Head(out[s]) \in Held(out[s])
    BY HeldTail DEF HubReads, TypeOK
  <1>2. /\ s \in Publishers /\ raw \in Event
        /\ raw.origin = s /\ raw.id = Head(out[s]).id /\ raw.root = Head(out[s]).root
    BY <1>1 DEF Publishers, Event
  <1>3. Publish(s, raw)
    BY DEF HubReads
  <1>4. Planned(raw)
    OBVIOUS
  <1> HIDE DEF raw
  <1>5. accepted'[raw.id] = accepted[raw.id] + 1
    BY <1>2, <1>3, <1>4, PublishCounts
  <1>6. Plans(raw)
    BY <1>1, <1>2, <1>4, <1>5 DEF Plans
  <1>7. QED
    BY <1>6 DEF raw

\* Whatever comes new into the hub's hands was planned in that step.
LEMMA RelayPlans ==
    ASSUME TypeOK, NEW e, RelayAdds(e)
    PROVE  \E raw : Plans(raw) /\ e = Forwarded(raw)
  BY HearsPlans, ReadsPlans DEF RelayAdds

\* A line is shown on Discord only when the hub plans deliveries for it.
LEMMA DiscordStep ==
    ASSUME TypeOK, [Next]_vars, NEW i \in Ids, onDiscord'[i] # onDiscord[i]
    PROVE  \E raw : /\ Plans(raw) /\ raw.root = i /\ raw.origin # Discord
                    /\ onDiscord'[i] = onDiscord[i] + 1
  <1>1. ASSUME NEW p \in {Discord, Local}, NEW ch \in Channels, NEW l \in Sayable[p], HubHears(p, ch, l)
        PROVE  \E raw : /\ Plans(raw) /\ raw.root = i /\ raw.origin # Discord
                        /\ onDiscord'[i] = onDiscord[i] + 1
    <2> DEFINE raw == NewEvent(p, ch, l, nextId)
    <2>1. l \in Lines /\ p \in Publishers /\ nextId \in Roots
      BY <1>1, RelayAssumption DEF HubHears, TypeOK, Roots, Ids, Publishers
    <2>2. raw \in Event
      BY <1>1, <2>1, NewEventType DEF HubHears
    <2>3. Publish(p, raw)
      BY <1>1 DEF HubHears
    <2>4. Planned(raw) => Plans(raw)
      BY <1>1, HearsPlans
    <2> HIDE DEF raw
    <2>5. Planned(raw) /\ raw.root = i /\ raw.origin # Discord /\ onDiscord'[i] = onDiscord[i] + 1
      BY <2>1, <2>2, <2>3, PublishCounts
    <2>6. QED
      BY <2>4, <2>5
  <1>2. ASSUME NEW s \in Servers, HubReads(s)
        PROVE  \E raw : /\ Plans(raw) /\ raw.root = i /\ raw.origin # Discord
                        /\ onDiscord'[i] = onDiscord[i] + 1
    <2> DEFINE raw == [Head(out[s]) EXCEPT !.origin = s]
    <2>1. Head(out[s]) \in Event
      BY <1>2, TailType DEF HubReads, TypeOK
    <2>2. s \in Publishers /\ raw \in Event
      BY <2>1 DEF Publishers, Event
    <2>3. Publish(s, raw)
      BY <1>2 DEF HubReads
    <2>4. Planned(raw) => Plans(raw)
      BY <1>2, ReadsPlans
    <2> HIDE DEF raw
    <2>5. Planned(raw) /\ raw.root = i /\ raw.origin # Discord /\ onDiscord'[i] = onDiscord[i] + 1
      BY <2>2, <2>3, PublishCounts
    <2>6. QED
      BY <2>4, <2>5
  <1>3. QED
    BY <1>1, <1>2
       DEF Next, vars, historyVars, PlayerSays, GameEchoes, EchoUnmatched, FrameLost, Forward,
           SendTest, ReplaceChannels, Connect, Disconnect, Inject, HandleTest, Bounce, Tick

\* Only agent.inject counts an injection.
LEMMA InjectedStep ==
    ASSUME TypeOK, [Next]_vars, NEW s \in Servers, NEW i \in Ids, injected'[s][i] # injected[s][i]
    PROVE  /\ Inject(s) /\ down[s] # <<>> /\ Head(down[s]) # TestFrame
           /\ Head(down[s]) \in Held(down[s]) /\ Head(down[s]) \in Relayed
           /\ Head(down[s]).root = i /\ Head(down[s]).origin # s
           /\ injected'[s][i] = injected[s][i] + 1
  <1>1. ASSUME NEW t \in Servers, Inject(t)
        PROVE  /\ Inject(s) /\ down[s] # <<>> /\ Head(down[s]) # TestFrame
               /\ Head(down[s]) \in Held(down[s]) /\ Head(down[s]) \in Relayed
               /\ Head(down[s]).root = i /\ Head(down[s]).origin # s
               /\ injected'[s][i] = injected[s][i] + 1
    <2> DEFINE e == Head(down[t])
    <2>1. down[t] # <<>> /\ e # TestFrame
      BY <1>1 DEF Inject
    <2>2. e \in Held(down[t]) /\ e \in Event
      BY <2>1, HeldTail DEF TypeOK, Frame
    <2>3. e \in Relayed
      BY <2>1, <2>2 DEF Relayed
    <2>4. e.origin # t /\ WriteToGame(t, Sanitize[e.line], e.channel, e.root)
      BY <1>1 DEF Inject
    <2>5. injected' = [injected EXCEPT ![t][e.root] = @ + 1] /\ e.root # TestRoot
      BY <2>4 DEF WriteToGame
    <2>6. e.root \in Ids
      BY <2>2, <2>5 DEF Event, Roots
    <2> HIDE DEF e
    <2>7. s = t /\ e.root = i /\ injected'[s][i] = injected[s][i] + 1
      BY <2>5, <2>6 DEF TypeOK
    <2>8. QED
      BY <1>1, <2>1, <2>2, <2>3, <2>4, <2>7 DEF e
  <1>2. ASSUME NEW t \in Servers, HandleTest(t)  PROVE FALSE
    BY <1>2 DEF HandleTest, WriteToGame
  <1>3. QED
    BY <1>1, <1>2
       DEF Next, vars, historyVars, PlayerSays, GameEchoes, EchoUnmatched, HubReads, FrameLost,
           HubHears, Forward, SendTest, ReplaceChannels, Connect, Disconnect, Bounce, Tick

\* The speaker behind an ID that was given out does not change.
LEMMA SpeakerStep ==
    ASSUME TypeOK, [Next]_vars, NEW i \in Ids, i # nextId
    PROVE  speaker'[i] = speaker[i]
  <1>1. speaker' = speaker \/ \E p : speaker' = [speaker EXCEPT ![nextId] = p]
    BY DEF Next, vars, historyVars, PlayerSays, AgentPublish, GameEchoes, EchoUnmatched, HubReads, FrameLost,
           HubHears, Forward, SendTest, ReplaceChannels, Connect, Disconnect, Inject, HandleTest,
           Bounce, Tick
  <1>2. QED
    BY <1>1 DEF TypeOK

\* An utterance on its way has an ID that was given out.
LEMMA RootsAreOld ==
    ASSUME TypeOK, UtteredInv
    PROVE  /\ \A s \in Servers : \A e \in Held(out[s]) : e.root < nextId
           /\ \A e \in Relayed : e.root < nextId
           /\ \A s \in Servers : \A o \in Held(owed[s]) : o.root < nextId
  <1>1. PICK f \in [Ids -> Lines \cup {Blank}] : Witness(f)
    BY DEF UtteredInv
  <1>2. QED
    BY <1>1 DEF Witness, Carries

\* The first plan for an utterance is for its own event, from where it was said.
LEMMA PlanMeans ==
    ASSUME TypeOK, UtteredInv, FreshInv, StageInv, [Next]_vars,
           NEW raw, Plans(raw), NEW i \in Ids, raw.root = i, accepted'[i] <= 1
    PROVE  raw.id = i /\ accepted[i] = 0 /\ accepted'[i] = 1 /\ raw.origin = speaker'[i]
  <1>1. accepted[i] \in Nat /\ accepted'[i] \in Nat /\ accepted[i] <= 1
    BY AcceptedGrows
  <1>2. nextId \in Nat
    BY DEF TypeOK
  <1>3. CASE /\ raw.id = nextId /\ raw.root = nextId /\ speaker'[nextId] = raw.origin
    BY <1>1, <1>3 DEF Plans
  <1>4. ASSUME NEW s \in Servers, NEW x \in Held(out[s]), raw.origin = s, raw.id = x.id, raw.root = x.root
        PROVE  raw.id = i /\ accepted[i] = 0 /\ accepted'[i] = 1 /\ raw.origin = speaker'[i]
    <2>1. raw.id = i
      BY <1>1, <1>4 DEF StageInv
    <2>2. accepted[i] = 0 /\ accepted'[i] = 1
      BY <1>1, <2>1 DEF Plans
    <2>3. speaker[i] = s
      BY <1>4, <2>2 DEF FreshInv
    <2>4. i < nextId
      BY <1>4, RootsAreOld
    <2>5. speaker'[i] = speaker[i]
      BY <1>2, <2>4, SpeakerStep DEF Ids
    <2>6. QED
      BY <1>4, <2>1, <2>2, <2>3, <2>5
  <1>5. QED
    BY <1>3, <1>4 DEF Plans

\* An ID that was not accepted has been shown nowhere.
LEMMA FreshStep ==
    ASSUME TypeOK, UtteredInv, FreshInv, StageInv, [Next]_vars
    PROVE  FreshInv'
  <1> SUFFICES ASSUME NEW i \in Ids
               PROVE  /\ (i >= nextId' \/ accepted'[i] = 0) =>
                            onDiscord'[i] = 0 /\ \A s \in Servers : injected'[s][i] = 0
                      /\ accepted'[i] = 0 =>
                            /\ \A e \in Relayed' : e.root # i
                            /\ \A s \in Servers : \A e \in Held(out'[s]) : e.root = i => speaker'[i] = s
    BY DEF FreshInv
  <1>0. nextId \in Nat /\ nextId' \in Nat /\ nextId <= nextId' /\ i \in Nat
        /\ accepted[i] \in Nat /\ accepted'[i] \in Nat /\ accepted[i] <= accepted'[i]
    <2>1. nextId \in Nat /\ i \in Nat
      BY DEF TypeOK, Ids
    <2>2. nextId' \in Nat /\ nextId <= nextId'
      BY SaidGrows
    <2>3. accepted[i] \in Nat /\ accepted'[i] \in Nat /\ accepted[i] <= accepted'[i]
      BY AcceptedGrows
    <2>4. QED
      BY <2>1, <2>2, <2>3
  <1>1. ASSUME i >= nextId' \/ accepted'[i] = 0
        PROVE  onDiscord'[i] = 0 /\ \A s \in Servers : injected'[s][i] = 0
    <2>1. i >= nextId \/ accepted[i] = 0
      BY <1>0, <1>1
    <2>2. onDiscord[i] = 0 /\ \A s \in Servers : injected[s][i] = 0
      BY <2>1 DEF FreshInv
    <2>3. onDiscord'[i] = onDiscord[i]
      <3>1. SUFFICES ASSUME onDiscord'[i] # onDiscord[i]  PROVE FALSE
        OBVIOUS
      <3>2. PICK raw : Plans(raw) /\ raw.root = i
        BY <3>1, DiscordStep
      <3>3. CASE accepted'[i] = 0
        BY <3>2, <3>3, PlanMeans
      <3>4. CASE i >= nextId'
        BY <1>0, <3>2, <3>4, RootsAreOld DEF Plans
      <3>5. QED
        BY <1>1, <3>3, <3>4
    <2>4. ASSUME NEW s \in Servers  PROVE injected'[s][i] = injected[s][i]
      <3>1. SUFFICES ASSUME injected'[s][i] # injected[s][i]  PROVE FALSE
        OBVIOUS
      <3>2. Head(down[s]) \in Relayed /\ Head(down[s]).root = i
        BY <3>1, InjectedStep
      <3>3. i < nextId
        BY <3>2, RootsAreOld
      <3>4. accepted[i] # 0
        BY <3>2 DEF FreshInv
      <3>5. QED
        BY <1>0, <2>1, <3>3, <3>4
    <2>5. QED
      BY <2>2, <2>3, <2>4
  <1>2. ASSUME accepted'[i] = 0, NEW e \in Relayed', e.root = i  PROVE FALSE
    <2>1. accepted[i] = 0
      BY <1>0, <1>2
    <2>2. e \notin Relayed
      BY <1>2, <2>1 DEF FreshInv
    <2>3. PICK raw : Plans(raw) /\ e = Forwarded(raw)
      BY <1>2, <2>2, RelayedStep, RelayPlans
    <2>4. raw.root = i
      BY <1>2, <2>3, ForwardedFields DEF Plans
    <2>5. QED
      BY <1>2, <2>3, <2>4, PlanMeans
  <1>3. ASSUME accepted'[i] = 0, NEW s \in Servers, NEW e \in Held(out'[s]), e.root = i
        PROVE  speaker'[i] = s
    <2>1. accepted[i] = 0
      BY <1>0, <1>3
    <2>2. CASE e \in Held(out[s])
      <3>1. speaker[i] = s /\ i < nextId
        BY <1>3, <2>1, <2>2, RootsAreOld DEF FreshInv
      <3>2. QED
        BY <1>0, <3>1, SpeakerStep
    <2>3. CASE OutAdds(s, e)
      <3>1. ASSUME NEW ch \in Channels, NEW l, nextId \in Ids,
                   e = NewEvent(s, ch, Sanitize[l], nextId),
                   speaker' = [speaker EXCEPT ![nextId] = s]
            PROVE  speaker'[i] = s
        <4>1. i = nextId
          BY <1>3, <3>1 DEF NewEvent
        <4>2. QED
          BY <3>1, <4>1 DEF TypeOK
      <3>2. ASSUME owed[s] # <<>>,
                   e = NewEvent(s, Head(owed[s]).channel, Sanitize[Head(owed[s]).line],
                                Head(owed[s]).root)
            PROVE  FALSE
        <4>1. Head(owed[s]) \in Held(owed[s]) /\ Head(owed[s]).root = i
          BY <1>3, <3>2, HeldTail DEF TypeOK, NewEvent
        <4>2. injected[s][i] = 1
          BY <2>1, <4>1 DEF StageInv
        <4>3. injected[s][i] = 0
          BY <2>1 DEF FreshInv
        <4>4. QED
          BY <4>2, <4>3
      <3>3. ASSUME NEW hop \in Hops, Head(down[s]) \in Relayed, Head(down[s]) \in Event,
                   e = [Head(down[s]) EXCEPT !.hop = hop]
            PROVE  FALSE
        <4>1. Head(down[s]).root = i
          BY <1>3, <3>3 DEF Event
        <4>2. QED
          BY <2>1, <3>3, <4>1 DEF FreshInv
      <3>4. QED
        BY <2>3, <3>1, <3>2, <3>3 DEF OutAdds
    <2>4. QED
      BY <1>3, <2>2, <2>3, OutStep
  <1>4. QED
    BY <1>1, <1>2, <1>3

-----------------------------------------------------------------------------
\* A fan-out goes on to fewer targets, or is new and the only one that changed.
LEMMA PubStep ==
    ASSUME TypeOK, [Next]_vars, NEW p \in Publishers, pub'[p] # None
    PROVE  \/ /\ pub[p] # None /\ pub'[p].event = pub[p].event
              /\ pub'[p].targets \subseteq pub[p].targets
           \/ /\ down' = down /\ injected' = injected
              /\ \A q \in Publishers \ {p} : pub'[q] = pub[q]
              /\ \E raw : Plans(raw) /\ pub'[p].event = Forwarded(raw)
  <1> DEFINE Old == /\ pub[p] # None /\ pub'[p].event = pub[p].event
                    /\ pub'[p].targets \subseteq pub[p].targets
             New == /\ down' = down /\ injected' = injected
                    /\ \A q \in Publishers \ {p} : pub'[q] = pub[q]
                    /\ \E raw : Plans(raw) /\ pub'[p].event = Forwarded(raw)
  <1>1. CASE pub'[p] = pub[p]
    <2>1. Old
      BY <1>1
    <2>2. QED
      BY <2>1
  <1>2. ASSUME NEW r \in Publishers, NEW raw \in Event, Publish(r, raw), down' = down,
               injected' = injected, pub'[p] # pub[p], Planned(raw) => Plans(raw)
        PROVE  New
    <2>1. PICK T \in SUBSET Servers :
              pub' = [pub EXCEPT ![r] = [event |-> Forwarded(raw), targets |-> T]]
      BY <1>2, PublishPub
    <2>2. Planned(raw)
      BY <1>2, PublishPub
    <2>3. r = p /\ pub'[p] = [event |-> Forwarded(raw), targets |-> T]
          /\ \A q \in Publishers \ {p} : pub'[q] = pub[q]
      BY <1>2, <2>1 DEF TypeOK
    <2>4. pub'[p].event = Forwarded(raw)
      BY <2>3
    <2>5. QED
      BY <1>2, <2>2, <2>3, <2>4
  <1>3. ASSUME NEW r \in {Discord, Local}, NEW ch \in Channels, NEW l \in Sayable[r], HubHears(r, ch, l),
               pub'[p] # pub[p]
        PROVE  New
    <2>1. l \in Lines /\ r \in Publishers /\ nextId \in Roots
      BY <1>3, RelayAssumption DEF HubHears, TypeOK, Roots, Ids, Publishers
    <2>2. NewEvent(r, ch, l, nextId) \in Event
      BY <1>3, <2>1, NewEventType DEF HubHears
    <2>3. Publish(r, NewEvent(r, ch, l, nextId)) /\ down' = down /\ injected' = injected
      BY <1>3 DEF HubHears
    <2>4. Planned(NewEvent(r, ch, l, nextId)) => Plans(NewEvent(r, ch, l, nextId))
      BY <1>3, HearsPlans
    <2>5. QED
      BY <1>2, <1>3, <2>1, <2>2, <2>3, <2>4
  <1>4. ASSUME NEW s \in Servers, HubReads(s), pub'[p] # pub[p]  PROVE New
    <2> DEFINE raw == [Head(out[s]) EXCEPT !.origin = s]
    <2>1. Head(out[s]) \in Event
      BY <1>4, TailType DEF HubReads, TypeOK
    <2>2. s \in Publishers /\ raw \in Event
      BY <2>1 DEF Publishers, Event
    <2>3. Publish(s, raw) /\ down' = down /\ injected' = injected
      BY <1>4 DEF HubReads
    <2>4. Planned(raw) => Plans(raw)
      BY <1>4, ReadsPlans
    <2> HIDE DEF raw
    <2>5. QED
      BY <1>2, <1>4, <2>2, <2>3, <2>4
  <1>5. ASSUME NEW q \in Publishers, NEW t \in Servers, Forward(q, t), pub'[p] # pub[p]  PROVE Old
    <2>1. q = p /\ pub[p] # None
      BY <1>5 DEF Forward, TypeOK
    <2>2. pub'[p] = [event |-> pub[p].event, targets |-> pub[p].targets \ {t}]
      BY <1>5, <2>1 DEF Forward, TypeOK
    <2>3. QED
      BY <2>1, <2>2
  <1> HIDE DEF Old, New
  <1>6. CASE pub'[p] # pub[p]
    BY <1>3, <1>4, <1>5, <1>6
       DEF Old, New, Next, vars, routerVars, PlayerSays, GameEchoes, EchoUnmatched, FrameLost, SendTest,
           ReplaceChannels, Connect, Disconnect, Inject, HandleTest, Bounce, Tick
  <1>7. QED
    BY <1>1, <1>6

\* Queues keep at most one frame of an utterance.
LEMMA OneFrameSend ==
    ASSUME NEW i, NEW q \in Seq(Frame), NEW f \in Frame, NEW r \in SendOutcomes(q, f),
           OneFrame(q, i),
           f # TestFrame /\ f.root = i => \A e \in Held(q) : e # TestFrame => e.root # i
    PROVE  OneFrame(r, i)
  <1>1. \A j \in DOMAIN q : q[j] \in Held(q)
    BY DEF Held
  <1>2. ASSUME NEW u \in Seq(Frame), OneFrame(u, i), \A j \in DOMAIN u : u[j] \in Held(q)
        PROVE  OneFrame(Append(u, f), i)
    <2>1. \A j \in DOMAIN Append(u, f) :
              (j \in DOMAIN u /\ Append(u, f)[j] = u[j]) \/ (j = Len(u) + 1 /\ Append(u, f)[j] = f)
      OBVIOUS
    <2>2. QED
      BY <1>2, <2>1 DEF OneFrame
  <1>3. ASSUME q # <<>>
        PROVE  /\ Tail(q) \in Seq(Frame) /\ OneFrame(Tail(q), i)
               /\ \A j \in DOMAIN Tail(q) : Tail(q)[j] \in Held(q)
    <2>1. \A j \in DOMAIN Tail(q) : j \in Nat /\ j + 1 \in DOMAIN q /\ Tail(q)[j] = q[j + 1]
      BY <1>3
    <2>2. OneFrame(Tail(q), i)
      BY <2>1 DEF OneFrame
    <2>3. QED
      BY <1>1, <1>3, <2>1, <2>2
  <1>4. r = q \/ r = Append(q, f) \/ (q # <<>> /\ r = Append(Tail(q), f))
    BY DEF SendOutcomes
  <1>5. QED
    BY <1>1, <1>2, <1>3, <1>4

\* Taking a frame leaves one frame at most of an utterance.
LEMMA OneFrameTail ==
    ASSUME NEW i, NEW q \in Seq(Frame), q # <<>>, OneFrame(q, i)
    PROVE  OneFrame(Tail(q), i)
  <1>1. \A j \in DOMAIN Tail(q) : j \in Nat /\ j + 1 \in DOMAIN q /\ Tail(q)[j] = q[j + 1]
    OBVIOUS
  <1>2. QED
    BY <1>1 DEF OneFrame

\* What a step does to a session's queue.
LEMMA DownStep ==
    ASSUME TypeOK, [Next]_vars, NEW s \in Servers
    PROVE  \/ down'[s] = down[s]
           \/ down'[s] = <<>>
           \/ down[s] # <<>> /\ down'[s] = Tail(down[s])
           \/ down'[s] \in SendOutcomes(down[s], TestFrame)
           \/ \E p \in Publishers :
                  /\ pub[p] # None /\ pub[p].event \in Event /\ s \in pub[p].targets
                  /\ down'[s] \in SendOutcomes(down[s], pub[p].event)
                  /\ pub'[p] # None => s \notin pub'[p].targets
  <1>1. ASSUME NEW p \in Publishers, NEW t \in Servers, Forward(p, t), down'[s] # down[s]
        PROVE  /\ pub[p] # None /\ pub[p].event \in Event /\ s \in pub[p].targets
               /\ down'[s] \in SendOutcomes(down[s], pub[p].event)
               /\ pub'[p] # None => s \notin pub'[p].targets
    <2>1. pub[p] \in Fanout /\ pub[p] # None /\ t \in pub[p].targets
      BY <1>1, NullAssumption DEF Forward, TypeOK
    <2>2. PICK q \in SendOutcomes(down[t], pub[p].event) : down' = [down EXCEPT ![t] = q]
      BY <1>1 DEF Forward
    <2>3. s = t /\ down'[s] = q
      BY <1>1, <2>2 DEF TypeOK
    <2>4. pub'[p] = None \/ pub'[p] = [event |-> pub[p].event, targets |-> pub[p].targets \ {t}]
      BY <1>1 DEF Forward, TypeOK
    <2>5. pub'[p] # None => t \notin pub'[p].targets
      BY <2>4
    <2>6. QED
      BY <2>1, <2>2, <2>3, <2>5 DEF Fanout
  <1>2. ASSUME NEW t \in Servers, SendTest(t), down'[s] # down[s]
        PROVE  down'[s] \in SendOutcomes(down[s], TestFrame)
    BY <1>2 DEF SendTest, TypeOK
  <1>3. ASSUME NEW t \in Servers, Disconnect(t), down'[s] # down[s]
        PROVE  down'[s] = <<>>
    BY <1>3 DEF Disconnect, TypeOK
  <1>4. ASSUME NEW t \in Servers, down[t] # <<>>, down' = [down EXCEPT ![t] = Tail(down[t])],
               down'[s] # down[s]
        PROVE  down[s] # <<>> /\ down'[s] = Tail(down[s])
    BY <1>4 DEF TypeOK
  <1>5. CASE down'[s] # down[s]
    BY <1>1, <1>2, <1>3, <1>4, <1>5
       DEF Next, vars, PlayerSays, GameEchoes, EchoUnmatched, HubReads, FrameLost, HubHears,
           ReplaceChannels, Connect, Inject, HandleTest, Bounce, Tick
  <1>6. QED
    BY <1>5

\* What a step does to the lines a game owes.
LEMMA OwedQueueStep ==
    ASSUME TypeOK, [Next]_vars, NEW s \in Servers
    PROVE  \/ owed'[s] = owed[s]
           \/ owed[s] # <<>> /\ owed'[s] = Tail(owed[s])
           \/ \E x \in Owed : owed'[s] = Append(owed[s], x) /\ x.root = TestRoot
           \/ \E x \in Owed :
                 /\ owed'[s] = Append(owed[s], x) /\ x.root \in Ids
                 /\ Head(down[s]) \in Held(down[s]) /\ Head(down[s]) # TestFrame
                 /\ Head(down[s]).root = x.root
                 /\ injected'[s][x.root] = injected[s][x.root] + 1
  <1>1. ASSUME NEW t \in Servers, NEW l \in Lines, NEW ch \in Channels, NEW r \in Roots,
               WriteToGame(t, l, ch, r), owed'[s] # owed[s]
        PROVE  /\ s = t
               /\ \E x \in Owed : owed'[s] = Append(owed[s], x) /\ x.root = r
               /\ r # TestRoot => injected'[s][r] = injected[s][r] + 1 /\ r \in Ids
    <2> DEFINE x == [line |-> l, channel |-> ch, root |-> r, at |-> now]
    <2>1. owed' = [owed EXCEPT ![t] = Append(@, x)]
          /\ injected' = IF r = TestRoot THEN injected ELSE [injected EXCEPT ![t][r] = @ + 1]
      BY <1>1 DEF WriteToGame
    <2>2. x \in Owed /\ x.root = r
      BY DEF Owed, TypeOK
    <2> HIDE DEF x
    <2>3. s = t /\ owed'[s] = Append(owed[s], x)
      BY <1>1, <2>1 DEF TypeOK
    <2>4. r # TestRoot => injected'[s][r] = injected[s][r] + 1 /\ r \in Ids
      BY <2>1, <2>3 DEF TypeOK, Roots
    <2>5. QED
      BY <2>2, <2>3, <2>4
  <1>2. ASSUME NEW t \in Servers, Inject(t), owed'[s] # owed[s]
        PROVE  \/ \E x \in Owed : owed'[s] = Append(owed[s], x) /\ x.root = TestRoot
               \/ \E x \in Owed :
                    /\ owed'[s] = Append(owed[s], x) /\ x.root \in Ids
                    /\ Head(down[s]) \in Held(down[s]) /\ Head(down[s]) # TestFrame
                    /\ Head(down[s]).root = x.root
                    /\ injected'[s][x.root] = injected[s][x.root] + 1
    <2> DEFINE e == Head(down[t])
    <2>1. down[t] # <<>> /\ e # TestFrame
      BY <1>2 DEF Inject
    <2>2. e \in Held(down[t]) /\ e \in Event
      BY <2>1, HeldTail DEF TypeOK, Frame
    <2>3. WriteToGame(t, Sanitize[e.line], e.channel, e.root) /\ Sanitize[e.line] # Blank
      BY <1>2 DEF Inject
    <2>4. Sanitize[e.line] \in Lines /\ e.channel \in Channels /\ e.root \in Roots
      BY <2>2, <2>3, RelayAssumption DEF Event
    <2>5. /\ s = t
          /\ \E x \in Owed : owed'[s] = Append(owed[s], x) /\ x.root = e.root
          /\ e.root # TestRoot => injected'[s][e.root] = injected[s][e.root] + 1 /\ e.root \in Ids
      BY <1>1, <1>2, <2>3, <2>4
    <2>6. QED
      BY <2>1, <2>2, <2>5
  <1>3. ASSUME NEW t \in Servers, HandleTest(t), owed'[s] # owed[s]
        PROVE  \E x \in Owed : owed'[s] = Append(owed[s], x) /\ x.root = TestRoot
    <2>1. WriteToGame(t, TestLine, TestChannel, TestRoot)
      BY <1>3 DEF HandleTest
    <2>2. TestLine \in Lines /\ TestChannel \in Channels /\ TestRoot \in Roots
      BY RelayAssumption DEF Roots
    <2>3. QED
      BY <1>1, <1>3, <2>1, <2>2
  <1>4. ASSUME NEW t \in Servers, owed[t] # <<>>, owed' = [owed EXCEPT ![t] = Tail(owed[t])],
               owed'[s] # owed[s]
        PROVE  owed[s] # <<>> /\ owed'[s] = Tail(owed[s])
    BY <1>4 DEF TypeOK
  <1>5. CASE owed'[s] # owed[s]
    BY <1>2, <1>3, <1>4, <1>5
       DEF Next, vars, agentVars, PlayerSays, GameEchoes, EchoUnmatched, HubReads, FrameLost,
           HubHears, Forward, SendTest, ReplaceChannels, Connect, Disconnect, Bounce, Tick
  <1>6. QED
    BY <1>5

-----------------------------------------------------------------------------
\* The echo of an utterance accepted at most once is recognised.
LEMMA EchoRecognised ==
    ASSUME QuietWorld, TypeOK, TimeInv, EchoInv, NEW s \in Servers, owed[s] # <<>>,
           Head(owed[s]).root \in Ids, accepted[Head(owed[s]).root] <= 1
    PROVE  IsEcho(s, Sanitize[Head(owed[s]).line])
  <1> DEFINE o == Head(owed[s])
  <1>1. o \in Held(owed[s]) /\ o \in Owed /\ 1 \in DOMAIN owed[s] /\ o = owed[s][1]
    BY HeldTail DEF TypeOK
  <1>2. o.line \in Lines /\ o.at \in Nat /\ o.root # TestRoot
    BY <1>1 DEF Owed, TestRoot, Ids
  <1>3. now <= o.at + EchoDelay
    BY <1>1 DEF TimeInv
  <1> HIDE DEF o
  <1>4. Sanitize[o.line] = o.line /\ o.at + EchoTTL <= echo[s][o.line]
    BY <1>1, <1>2 DEF EchoInv, o
  <1>5. echo[s][o.line] \in Nat /\ now \in Nat /\ EchoTTL \in Nat /\ EchoDelay \in Nat /\ EchoDelay < EchoTTL
    BY <1>2, RelayAssumption DEF TypeOK, QuietWorld
  <1>6. now < echo[s][o.line]
    BY <1>2, <1>3, <1>4, <1>5
  <1>7. QED
    BY <1>4, <1>6 DEF IsEcho, o

\* An utterance accepted once stays in one stage at a time: fanned out, in a
\* frame, or injected and owed.
LEMMA StageStep ==
    ASSUME QuietWorld, TypeOK, UtteredInv, TimeInv, EchoInv, FreshInv, StageInv, [Next]_vars
    PROVE  StageInv'
  <1> SUFFICES ASSUME NEW i \in Ids, accepted'[i] <= 1
        PROVE  /\ \A s \in Servers : \A e \in Held(out'[s]) : e.root = i => e.id = i
               /\ \A e \in Relayed' : e.root = i => e.id = i /\ e.origin = speaker'[i]
               /\ \A p, q \in Publishers : Fanning(p, i)' /\ Fanning(q, i)' => p = q
               /\ \A p \in Publishers, s \in Servers : Fanning(p, i)' /\ s \in pub'[p].targets =>
                     \A e \in Held(down'[s]) : e # TestFrame => e.root # i
               /\ \A s \in Servers :
                     /\ Travelling(s, i)' => injected'[s][i] = 0
                     /\ OneFrame(down'[s], i) /\ OneOwed(owed'[s], i)
                     /\ \A o \in Held(owed'[s]) : o.root = i => injected'[s][i] = 1
    BY DEF StageInv, OneFrame, OneOwed
  <1>1. accepted[i] <= 1 /\ accepted[i] \in Nat /\ nextId \in Nat /\ i \in Nat /\ i # TestRoot
    BY AcceptedGrows DEF TypeOK, Ids, TestRoot
  <1>2. /\ \A s \in Servers : \A e \in Held(out[s]) : e.root = i => e.id = i
        /\ \A e \in Relayed : e.root = i => e.id = i /\ e.origin = speaker[i]
        /\ \A p, q \in Publishers : Fanning(p, i) /\ Fanning(q, i) => p = q
        /\ \A p \in Publishers, s \in Servers : Fanning(p, i) /\ s \in pub[p].targets =>
              \A e \in Held(down[s]) : e # TestFrame => e.root # i
        /\ \A s \in Servers :
              /\ Travelling(s, i) => injected[s][i] = 0
              /\ OneFrame(down[s], i) /\ OneOwed(owed[s], i)
              /\ \A o \in Held(owed[s]) : o.root = i => injected[s][i] = 1
    BY <1>1 DEF StageInv
  \* An utterance that is planned now was nowhere before.
  <1>3. ASSUME NEW raw, Plans(raw), raw.root = i
        PROVE  /\ raw.id = i /\ raw.origin = speaker'[i]
               /\ \A e \in Relayed : e.root # i
               /\ \A p \in Publishers : ~Fanning(p, i)
               /\ \A s \in Servers : injected[s][i] = 0 /\ \A e \in Held(down[s]) : e # TestFrame => e.root # i
    <2>1. raw.id = i /\ accepted[i] = 0 /\ raw.origin = speaker'[i]
      BY <1>3, PlanMeans
    <2>2. (\A e \in Relayed : e.root # i) /\ \A s \in Servers : injected[s][i] = 0
      BY <2>1 DEF FreshInv
    <2>3. \A p \in Publishers : pub[p] # None => pub[p].event \in Relayed
      BY DEF Relayed
    <2>4. \A s \in Servers : \A e \in Held(down[s]) : e # TestFrame => e \in Relayed
      BY DEF Relayed
    <2>5. QED
      BY <2>1, <2>2, <2>3, <2>4 DEF Fanning
  <1>4. ASSUME NEW s \in Servers, NEW e \in Held(out'[s]), e.root = i  PROVE e.id = i
    <2>1. CASE e \in Held(out[s])
      BY <1>2, <1>4, <2>1
    <2>2. CASE OutAdds(s, e)
      <3>1. ASSUME NEW ch, NEW l, e = NewEvent(s, ch, Sanitize[l], nextId)  PROVE e.id = i
        BY <1>4, <3>1 DEF NewEvent
      <3>2. ASSUME owed[s] # <<>>, ~IsEcho(s, Sanitize[Head(owed[s]).line]),
                   e = NewEvent(s, Head(owed[s]).channel, Sanitize[Head(owed[s]).line],
                                Head(owed[s]).root)
            PROVE  FALSE
        <4>1. Head(owed[s]).root = i
          BY <1>4, <3>2 DEF NewEvent
        <4>2. QED
          BY <1>1, <3>2, <4>1, EchoRecognised
      <3>3. ASSUME NEW hop, Head(down[s]) \in Relayed, Head(down[s]) \in Event,
                   e = [Head(down[s]) EXCEPT !.hop = hop]
            PROVE  e.id = i
        <4>1. e.root = Head(down[s]).root /\ e.id = Head(down[s]).id
          BY <3>3 DEF Event
        <4>2. QED
          BY <1>2, <1>4, <3>3, <4>1
      <3>4. QED
        BY <2>2, <3>1, <3>2, <3>3 DEF OutAdds
    <2>3. QED
      BY <1>4, <2>1, <2>2, OutStep
  <1>5. ASSUME NEW e \in Relayed', e.root = i  PROVE e.id = i /\ e.origin = speaker'[i]
    <2>1. CASE e \in Relayed
      <3>1. i < nextId
        BY <1>5, <2>1, RootsAreOld
      <3>2. speaker'[i] = speaker[i]
        BY <1>1, <3>1, SpeakerStep
      <3>3. QED
        BY <1>2, <1>5, <2>1, <3>2
    <2>2. CASE e \notin Relayed
      <3>1. PICK raw : Plans(raw) /\ e = Forwarded(raw)
        BY <1>5, <2>2, RelayedStep, RelayPlans
      <3>2. e.id = raw.id /\ e.root = raw.root /\ e.origin = raw.origin
        BY <3>1, ForwardedFields DEF Plans
      <3>3. QED
        BY <1>3, <1>5, <3>1, <3>2
    <2>3. QED
      BY <2>1, <2>2
  \* A fan-out of the utterance is the old one, or one that was planned now.
  <1>6. ASSUME NEW p \in Publishers, Fanning(p, i)'
        PROVE  \/ Fanning(p, i) /\ pub'[p].targets \subseteq pub[p].targets
               \/ /\ down' = down /\ injected' = injected
                  /\ \A q \in Publishers \ {p} : pub'[q] = pub[q]
                  /\ \E raw : Plans(raw) /\ raw.root = i
    <2>1. pub'[p] # None /\ pub'[p].event.root = i
      BY <1>6 DEF Fanning
    <2>2. ASSUME NEW raw, Plans(raw), pub'[p].event = Forwarded(raw)  PROVE raw.root = i
      BY <2>1, <2>2, ForwardedFields DEF Plans
    <2>3. QED
      BY <2>1, <2>2, PubStep DEF Fanning
  <1>7. ASSUME NEW p \in Publishers, NEW q \in Publishers, Fanning(p, i)', Fanning(q, i)', p # q
        PROVE  FALSE
    <2>1. CASE Fanning(p, i) /\ Fanning(q, i)
      BY <1>2, <1>7, <2>1
    <2>2. ASSUME NEW x \in Publishers, NEW y \in Publishers, x # y, Fanning(y, i)',
                 \A z \in Publishers \ {x} : pub'[z] = pub[z],
                 NEW raw, Plans(raw), raw.root = i
          PROVE  FALSE
      <3>1. Fanning(y, i)
        BY <2>2 DEF Fanning
      <3>2. QED
        BY <1>3, <2>2, <3>1
    <2>3. QED
      BY <1>6, <1>7, <2>1, <2>2
  <1>8. ASSUME NEW p \in Publishers, NEW s \in Servers, Fanning(p, i)', s \in pub'[p].targets,
               NEW e \in Held(down'[s]), e # TestFrame, e.root = i
        PROVE  FALSE
    <2>1. CASE down' = down /\ \E raw : Plans(raw) /\ raw.root = i
      BY <1>3, <1>8, <2>1
    <2>2. CASE Fanning(p, i) /\ pub'[p].targets \subseteq pub[p].targets
      <3>1. \A x \in Held(down[s]) : x # TestFrame => x.root # i
        BY <1>2, <1>8, <2>2
      <3>2. down[s] \in Seq(Frame) /\ TestFrame \in Frame
        BY DEF TypeOK, Frame
      <3>3. CASE down'[s] = down[s]
        BY <1>8, <3>1, <3>3
      <3>4. CASE down'[s] = <<>>
        BY <1>8, <3>4 DEF Held
      <3>5. CASE down[s] # <<>> /\ down'[s] = Tail(down[s])
        BY <1>8, <3>1, <3>2, <3>5, HeldTail
      <3>6. CASE down'[s] \in SendOutcomes(down[s], TestFrame)
        BY <1>8, <3>1, <3>2, <3>6, HeldSend
      <3>7. ASSUME NEW q \in Publishers, pub[q] # None, pub[q].event \in Event, s \in pub[q].targets,
                   down'[s] \in SendOutcomes(down[s], pub[q].event),
                   pub'[q] # None => s \notin pub'[q].targets
            PROVE  FALSE
        <4>1. pub[q].event \in Frame
          BY <3>7 DEF Frame
        <4>2. e \in Held(down[s]) \cup {pub[q].event}
          BY <1>8, <3>2, <3>7, <4>1, HeldSend
        <4>3. Fanning(q, i)
          BY <1>8, <3>1, <3>7, <4>2 DEF Fanning
        <4>4. q = p
          BY <1>2, <2>2, <4>3
        <4>5. QED
          BY <1>8, <3>7, <4>4 DEF Fanning
      <3>8. QED
        BY <3>3, <3>4, <3>5, <3>6, <3>7, DownStep
    <2>3. QED
      BY <1>6, <1>8, <2>1, <2>2
  \* What is on its way to a server was so before, or was planned now.
  <1>9. ASSUME NEW s \in Servers, Travelling(s, i)'  PROVE injected[s][i] = 0
    <2>1. ASSUME NEW p \in Publishers, Fanning(p, i)', s \in pub'[p].targets
          PROVE  injected[s][i] = 0
      <3>1. CASE Fanning(p, i) /\ pub'[p].targets \subseteq pub[p].targets
        BY <1>2, <2>1, <3>1 DEF Travelling
      <3>2. CASE \E raw : Plans(raw) /\ raw.root = i
        BY <1>3, <3>2
      <3>3. QED
        BY <1>6, <2>1, <3>1, <3>2
    <2>2. ASSUME NEW e \in Held(down'[s]), e # TestFrame, e.root = i
          PROVE  injected[s][i] = 0
      <3>1. down[s] \in Seq(Frame) /\ TestFrame \in Frame
        BY DEF TypeOK, Frame
      <3>2. CASE e \in Held(down[s])
        BY <1>2, <2>2, <3>2 DEF Travelling
      <3>3. CASE down'[s] = <<>>
        BY <2>2, <3>3 DEF Held
      <3>4. CASE down[s] # <<>> /\ down'[s] = Tail(down[s])
        BY <2>2, <3>1, <3>2, <3>4, HeldTail
      <3>5. CASE down'[s] \in SendOutcomes(down[s], TestFrame)
        BY <2>2, <3>1, <3>2, <3>5, HeldSend
      <3>6. ASSUME NEW q \in Publishers, pub[q] # None, pub[q].event \in Event, s \in pub[q].targets,
                   down'[s] \in SendOutcomes(down[s], pub[q].event), e \notin Held(down[s])
            PROVE  injected[s][i] = 0
        <4>1. pub[q].event \in Frame
          BY <3>6 DEF Frame
        <4>2. e = pub[q].event
          BY <2>2, <3>1, <3>6, <4>1, HeldSend
        <4>3. Travelling(s, i)
          BY <2>2, <3>6, <4>2 DEF Travelling, Fanning
        <4>4. QED
          BY <1>2, <4>3
      <3>7. QED
        BY <2>2, <3>2, <3>3, <3>4, <3>5, <3>6, DownStep
    <2>3. QED
      BY <1>9, <2>1, <2>2 DEF Travelling
  \* An injection counts only for the frame that was on its way, and takes it.
  <1>10. ASSUME NEW s \in Servers, injected'[s][i] # injected[s][i]
         PROVE  /\ injected[s][i] = 0 /\ injected'[s][i] = 1
                /\ ~Travelling(s, i)'
    <2> DEFINE e == Head(down[s])
    <2>1. /\ Inject(s) /\ down[s] # <<>> /\ e # TestFrame /\ e \in Held(down[s])
          /\ e.root = i /\ injected'[s][i] = injected[s][i] + 1
      BY <1>10, InjectedStep
    <2>2. Travelling(s, i)
      BY <2>1 DEF Travelling
    <2>3. injected[s][i] = 0 /\ injected'[s][i] = 1
      BY <1>2, <2>1, <2>2
    <2>4. pub' = pub /\ down' = [down EXCEPT ![s] = Tail(down[s])]
      BY <2>1 DEF Inject, routerVars
    <2>5. ASSUME NEW p \in Publishers, Fanning(p, i)', s \in pub'[p].targets  PROVE FALSE
      <3>1. Fanning(p, i) /\ s \in pub[p].targets
        BY <2>4, <2>5 DEF Fanning
      <3>2. QED
        BY <1>2, <2>1, <3>1
    <2>6. ASSUME NEW x \in Held(down'[s]), x # TestFrame, x.root = i  PROVE FALSE
      <3>1. down[s] \in Seq(Frame) /\ down'[s] = Tail(down[s])
        BY <2>4 DEF TypeOK
      <3>2. PICK k \in DOMAIN down[s] : k # 1 /\ down[s][k] = x
        BY <2>1, <2>6, <3>1, TailIndex
      <3>3. 1 \in DOMAIN down[s] /\ down[s][1] = e
        BY <2>1, <3>1
      <3>4. OneFrame(down[s], i)
        BY <1>2
      <3> HIDE DEF e
      <3>5. QED
        BY <2>1, <2>6, <3>2, <3>3, <3>4 DEF OneFrame
    <2>7. QED
      BY <2>3, <2>5, <2>6 DEF Travelling
  <1>11. ASSUME NEW s \in Servers, Travelling(s, i)'  PROVE injected'[s][i] = 0
    BY <1>9, <1>10, <1>11
  <1>12. ASSUME NEW s \in Servers  PROVE OneFrame(down'[s], i)
    <2>1. down[s] \in Seq(Frame) /\ TestFrame \in Frame /\ OneFrame(down[s], i)
      BY <1>2 DEF TypeOK, Frame
    <2>2. CASE down'[s] = <<>>
      BY <2>2 DEF OneFrame
    <2>3. ASSUME NEW q \in Publishers, pub[q] # None, pub[q].event \in Event, s \in pub[q].targets,
                 down'[s] \in SendOutcomes(down[s], pub[q].event)
          PROVE  OneFrame(down'[s], i)
      <3>1. pub[q].event \in Frame
        BY <2>3 DEF Frame
      <3>2. pub[q].event.root = i => \A e \in Held(down[s]) : e # TestFrame => e.root # i
        BY <1>2, <2>3 DEF Fanning
      <3>3. QED
        BY <2>1, <2>3, <3>1, <3>2, OneFrameSend
    <2>4. CASE down'[s] \in SendOutcomes(down[s], TestFrame)
      BY <2>1, <2>4, OneFrameSend
    <2>5. CASE down[s] # <<>> /\ down'[s] = Tail(down[s])
      BY <2>1, <2>5, OneFrameTail
    <2>6. QED
      BY <2>1, <2>2, <2>3, <2>4, <2>5, DownStep
  \* A line owed anew was on its way, so that none was owed before.
  <1>13. ASSUME NEW s \in Servers, NEW x \in Owed, x.root = i, owed'[s] = Append(owed[s], x)
         PROVE  injected[s][i] = 0 /\ injected'[s][i] = 1
                /\ \A o \in Held(owed[s]) : o.root # i
    <2>1. owed[s] \in Seq(Owed)
      BY DEF TypeOK
    <2>2. owed'[s] # owed[s] /\ (owed[s] # <<>> => owed'[s] # Tail(owed[s]))
      <3>1. Len(owed'[s]) = Len(owed[s]) + 1 /\ Len(owed[s]) \in Nat
        BY <1>13, <2>1
      <3>2. ASSUME owed'[s] = owed[s]  PROVE FALSE
        <4>1. Len(owed'[s]) = Len(owed[s])
          BY <3>2
        <4>2. QED
          BY <3>1, <4>1
      <3>3. ASSUME owed[s] # <<>>, owed'[s] = Tail(owed[s])  PROVE FALSE
        <4>1. Len(owed'[s]) = Len(owed[s]) - 1
          BY <2>1, <3>3
        <4>2. QED
          BY <3>1, <4>1
      <3>4. QED
        BY <3>2, <3>3
    <2>3. ASSUME NEW y \in Owed, owed'[s] = Append(owed[s], y)  PROVE y = x
      <3>1. owed'[s][Len(owed[s]) + 1] = x
        BY <1>13, <2>1
      <3>2. owed'[s][Len(owed[s]) + 1] = y
        BY <2>1, <2>3
      <3>3. QED
        BY <3>1, <3>2
    <2>4. /\ Head(down[s]) \in Held(down[s]) /\ Head(down[s]) # TestFrame
          /\ Head(down[s]).root = i /\ injected'[s][i] = injected[s][i] + 1
      BY <1>1, <1>13, <2>2, <2>3, OwedQueueStep
    <2>5. Travelling(s, i)
      BY <2>4 DEF Travelling
    <2>6. injected[s][i] = 0
      BY <1>2, <2>5
    <2>7. QED
      BY <1>2, <2>4, <2>6
  <1>14. ASSUME NEW s \in Servers
         PROVE  /\ OneOwed(owed'[s], i)
                /\ \A o \in Held(owed'[s]) : o.root = i => injected'[s][i] = 1
    <2>1. owed[s] \in Seq(Owed) /\ OneOwed(owed[s], i)
          /\ \A o \in Held(owed[s]) : o.root = i => injected[s][i] = 1
      BY <1>2 DEF TypeOK
    <2>2. \A o \in Held(owed[s]) : o.root = i => injected'[s][i] = 1
      BY <1>10, <2>1
    <2>3. CASE owed'[s] = owed[s]
      BY <2>1, <2>2, <2>3
    <2>4. CASE owed[s] # <<>> /\ owed'[s] = Tail(owed[s])
      <3>1. \A j \in DOMAIN Tail(owed[s]) :
                j \in Nat /\ j + 1 \in DOMAIN owed[s] /\ Tail(owed[s])[j] = owed[s][j + 1]
        BY <2>1, <2>4
      <3>2. OneOwed(Tail(owed[s]), i)
        BY <2>1, <3>1 DEF OneOwed
      <3>3. Held(Tail(owed[s])) \subseteq Held(owed[s])
        BY <2>1, <2>4, HeldTail
      <3>4. QED
        BY <2>2, <2>4, <3>2, <3>3
    <2>5. ASSUME NEW x \in Owed, owed'[s] = Append(owed[s], x)
          PROVE  /\ OneOwed(owed'[s], i)
                 /\ \A o \in Held(owed'[s]) : o.root = i => injected'[s][i] = 1
      <3>1. \A j \in DOMAIN Append(owed[s], x) :
                \/ j \in DOMAIN owed[s] /\ Append(owed[s], x)[j] = owed[s][j]
                \/ j = Len(owed[s]) + 1 /\ Append(owed[s], x)[j] = x
        BY <2>1
      <3>2. x.root = i => \A j \in DOMAIN owed[s] : owed[s][j].root # i
        BY <1>13, <2>5 DEF Held
      <3>3. OneOwed(Append(owed[s], x), i)
        BY <2>1, <3>1, <3>2 DEF OneOwed
      <3>4. Held(Append(owed[s], x)) \subseteq Held(owed[s]) \cup {x}
        BY <2>1, HeldAppend
      <3>5. x.root = i => injected'[s][i] = 1
        BY <1>13, <2>5
      <3>6. QED
        BY <2>2, <2>5, <3>3, <3>4, <3>5
    <2>6. QED
      BY <2>3, <2>4, <2>5, OwedQueueStep
  <1>15. QED
    BY <1>4, <1>5, <1>7, <1>8, <1>11, <1>12, <1>14

\* From the stages: no step shows a line where it came from, or twice.
LEMMA FeedbackStep ==
    ASSUME TypeOK, UtteredInv, FreshInv, StageInv, NoFeedback, [Next]_vars
    PROVE  NoFeedback'
  <1> SUFFICES ASSUME NEW i \in Ids, accepted'[i] <= 1
        PROVE  /\ speaker'[i] \in Servers => injected'[speaker'[i]][i] = 0
               /\ speaker'[i] = Discord => onDiscord'[i] = 0
               /\ \A s \in Servers : injected'[s][i] <= 1
               /\ onDiscord'[i] <= 1
    BY DEF NoFeedback
  <1>1. accepted[i] <= 1 /\ accepted[i] \in Nat /\ nextId \in Nat /\ i \in Nat
    BY AcceptedGrows DEF TypeOK, Ids
  <1>2. /\ speaker[i] \in Servers => injected[speaker[i]][i] = 0
        /\ speaker[i] = Discord => onDiscord[i] = 0
        /\ \A s \in Servers : injected[s][i] <= 1
        /\ onDiscord[i] <= 1
    BY <1>1 DEF NoFeedback
  <1>3. CASE i = nextId
    <2>1. onDiscord[i] = 0 /\ \A s \in Servers : injected[s][i] = 0
      BY <1>1, <1>3 DEF FreshInv
    <2>2. \A s \in Servers : injected'[s][i] = 0
      <3>1. SUFFICES ASSUME NEW s \in Servers, injected'[s][i] # injected[s][i]  PROVE FALSE
        BY <2>1
      <3>2. Head(down[s]) \in Relayed /\ Head(down[s]).root = i
        BY <3>1, InjectedStep
      <3>3. QED
        BY <1>1, <1>3, <3>2, RootsAreOld
    <2>3. CASE onDiscord'[i] = onDiscord[i]
      BY <2>1, <2>2, <2>3
    <2>4. CASE onDiscord'[i] # onDiscord[i]
      <3>1. PICK raw : /\ Plans(raw) /\ raw.root = i /\ raw.origin # Discord
                       /\ onDiscord'[i] = onDiscord[i] + 1
        BY <2>4, DiscordStep
      <3>2. raw.origin = speaker'[i]
        BY <3>1, PlanMeans
      <3>3. QED
        BY <2>1, <2>2, <3>1, <3>2
    <2>5. QED
      BY <2>3, <2>4
  <1>4. CASE i # nextId
    <2>1. speaker'[i] = speaker[i]
      BY <1>4, SpeakerStep
    <2>2. ASSUME NEW s \in Servers, injected'[s][i] # injected[s][i]
          PROVE  injected'[s][i] = 1 /\ speaker[i] # s
      <3> DEFINE e == Head(down[s])
      <3>1. /\ e \in Held(down[s]) /\ e # TestFrame /\ e \in Relayed /\ e.root = i /\ e.origin # s
            /\ injected'[s][i] = injected[s][i] + 1
        BY <2>2, InjectedStep
      <3>2. Travelling(s, i)
        BY <3>1 DEF Travelling
      <3>3. injected[s][i] = 0 /\ e.origin = speaker[i]
        BY <1>1, <3>1, <3>2 DEF StageInv
      <3>4. QED
        BY <3>1, <3>3
    <2>3. ASSUME onDiscord'[i] # onDiscord[i]
          PROVE  onDiscord'[i] = 1 /\ speaker[i] # Discord
      <3>1. PICK raw : /\ Plans(raw) /\ raw.root = i /\ raw.origin # Discord
                       /\ onDiscord'[i] = onDiscord[i] + 1
        BY <2>3, DiscordStep
      <3>2. accepted[i] = 0 /\ raw.origin = speaker'[i]
        BY <3>1, PlanMeans
      <3>3. onDiscord[i] = 0
        BY <3>2 DEF FreshInv
      <3>4. QED
        BY <2>1, <3>1, <3>2, <3>3
    <2>4. QED
      BY <1>2, <2>1, <2>2, <2>3
  <1>5. QED
    BY <1>3, <1>4

\* Before anything is said the invariant holds.
LEMMA FeedbackInit ==
    ASSUME Init
    PROVE  FeedbackInv
  <1>1. /\ \A s \in Servers : Held(out[s]) = {} /\ Held(owed[s]) = {} /\ Held(down[s]) = {}
        /\ Relayed = {}
    BY DEF Init, Held, Relayed
  <1>2. UtteredInv
    <2>1. PICK f \in [Ids -> Lines \cup {Blank}] : \A i \in Ids : f[i] = Blank
      <3>1. [i \in Ids |-> Blank] \in [Ids -> Lines \cup {Blank}]
        OBVIOUS
      <3>2. QED
        BY <3>1
    <2>2. Names(f)
      BY <2>1 DEF Names
    <2>3. said = {}
      BY DEF Init
    <2>4. QED
      BY <1>1, <2>2, <2>3 DEF UtteredInv, Witness
  <1>3. SettledInv /\ EchoInv
    BY <1>1 DEF SettledInv, EchoInv
  <1>4. TimeInv
    BY DEF Init, TimeInv
  <1>5. FreshInv
    BY <1>1 DEF Init, FreshInv, Roots
  <1>6. \A p \in Publishers : pub[p] = None
    BY DEF Init
  <1>7. StageInv
    <2>1. \A i \in Ids : \A p \in Publishers : ~Fanning(p, i)
      BY <1>6 DEF Fanning
    <2>2. \A i \in Ids : \A s \in Servers : OneFrame(down[s], i) /\ OneOwed(owed[s], i)
      BY DEF Init, OneFrame, OneOwed
    <2>3. QED
      BY <1>1, <2>1, <2>2 DEF StageInv, Travelling
  <1>8. NoFeedback
    BY DEF Init, NoFeedback, Roots
  <1>9. QED
    BY <1>2, <1>3, <1>4, <1>5, <1>7, <1>8 DEF FeedbackInv

\* The invariant holds in a quiet world while no echoCache is over its limit.
LEMMA FeedbackInvariant ==
    ASSUME QuietWorld
    PROVE  Spec /\ []CachesFit => []FeedbackInv
  <1>1. Init => FeedbackInv
    BY FeedbackInit
  <1>2. TypeOK /\ TypeOK' /\ CachesFit /\ FeedbackInv /\ [Next]_vars => FeedbackInv'
    BY UtteredStep, SettledStep, TimeStep, EchoStep, FreshStep, StageStep, FeedbackStep
       DEF FeedbackInv
  <1>3. QED
    BY <1>1, <1>2, TypeCorrect, PTL DEF Spec

\* One suppression per injection (agent/echo.go): in a quiet world, for any
\* number of servers, tables and faulty agents, the echo of an injected line is
\* never published as fresh chat, as long as no echoCache is over its limit.
THEOREM EchoesAreSuppressed ==
    ASSUME QuietWorld
    PROVE  Spec /\ []CachesFit => []OneSuppressionPerInjection
  <1>1. TypeOK /\ FeedbackInv => OneSuppressionPerInjection
    <2> SUFFICES ASSUME TypeOK, FeedbackInv, NEW e \in InFlight, e.root # TestRoot,
                        accepted[e.root] <= 1
                 PROVE  e.id = e.root
      BY DEF OneSuppressionPerInjection
    <2>1. (\E s \in Servers : e \in Held(out[s])) \/ e \in Relayed
      <3>1. \/ \E s \in Servers : \E k \in DOMAIN out[s] : e = out[s][k]
            \/ \E p \in Publishers : pub[p] # None /\ e = pub[p].event
            \/ \E s \in Servers : \E k \in DOMAIN down[s] : e = down[s][k] /\ e # TestFrame
        BY DEF InFlight
      <3>2. QED
        BY <3>1 DEF Relayed, Held
    <2>2. e \in Event
      BY <2>1, ItemTypes
    <2>3. e.root \in Ids
      BY <2>2 DEF Event, Roots
    <2>4. QED
      BY <2>1, <2>3 DEF FeedbackInv, StageInv
  <1>2. QED
    BY <1>1, FeedbackInvariant, TypeCorrect, PTL

\* No feedback loop: in a quiet world no line comes back to where it was typed
\* and no server and not Discord shows it twice, however messages are delayed
\* and lost, sessions come and go and faulty agents send events back.
THEOREM NothingComesBack ==
    ASSUME QuietWorld
    PROVE  Spec /\ []CachesFit => []NoFeedback
  <1>1. FeedbackInv => NoFeedback
    BY DEF FeedbackInv
  <1>2. QED
    BY <1>1, FeedbackInvariant, PTL
=============================================================================
