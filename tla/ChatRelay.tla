----------------------------- MODULE ChatRelay -----------------------------
(***************************************************************************)
(* The chat path of the relay, end to end: a line a player types on one    *)
(* game server is published by that server's agent (agent.Publish), routed *)
(* by the hub (Hub.onFrame, Hub.Publish, Router.Route), fanned out to the  *)
(* sessions of the other agents (Session.Send), injected by each of them   *)
(* into its own game server (agent.inject), and echoed by that game server *)
(* down the very telnet connection the agent reads its chat from.          *)
(*                                                                         *)
(* The hazard is the feedback loop: an echo taken for fresh chat.  Three   *)
(* guards stand against it, and all three are here: the origin is never a  *)
(* target, the hub remembers the IDs it handled (seenCache) and refuses an *)
(* event that was relayed before (hop), and the agent suppresses the echo  *)
(* of what it injected (echoCache).                                        *)
(*                                                                         *)
(* A chat line stands for its name and message together, which is what     *)
(* EchoKey is made of; Sanitize is what sanitize.Name and sanitize.Message *)
(* make of it.  Queues carry frames; Session.Send and agent.enqueue are    *)
(* taken here as single steps.                                             *)
(***************************************************************************)
EXTENDS Naturals, Sequences, FiniteSets

CONSTANTS
    Servers,        \* server keys of the agents on the roster
    Discord,        \* relay.OriginDiscord: chat typed in Discord
    Local,          \* the key of a game server on the hub's own machine
    Channels,       \* channel names an event can carry
    Tables,         \* the routing tables an operator may configure
    AgentChannels,  \* per server, the channels its agent has enabled
    Lines,          \* chat lines: a name and a message
    Sayable,        \* per publisher, the lines its players or users may send
    Blank,          \* what a line without a usable name or message becomes
    Sanitize,       \* what sanitize.Name/Message make of a line
    TestLine,       \* the line injectTestLine writes
    TestChannel,    \* the channel it writes it to, "ooc"
    Faulty,         \* agents that send a received event back to the hub
    SeenWindow,     \* seenCache.window
    EchoTTL,        \* echoCache.ttl
    EchoLimit,      \* echoCache.limit
    QueueLimit,     \* capacity of Session.out and of Agent.out
    MaxHop,         \* the hop count Validate accepts at most
    None,           \* no value
    TestFrame,      \* a test frame; only its kind matters here
    EchoDelay,      \* environment: the game echoes a line within this time
    DistinctLines,  \* environment: no line is said twice
    MaxTime,        \* bound on the clock
    MaxEvents,      \* bound on the number of events created
    MaxOwed         \* bound on the lines a game server has still to echo

Publishers == Servers \cup {Discord, Local}
Ids        == 1 .. MaxEvents
TestRoot   == 0
Roots      == Ids \cup {TestRoot}
Entry      == [enabled : BOOLEAN, cross : BOOLEAN, discord : BOOLEAN]

ASSUME RelayAssumption ==
    /\ Discord \notin Servers /\ Local \notin Servers /\ Discord # Local
    /\ \A table \in Tables : /\ DOMAIN table \subseteq Channels
                             /\ \A ch \in DOMAIN table : table[ch] \in Entry
    /\ AgentChannels \in [Servers -> SUBSET Channels]
    /\ Blank \notin Lines /\ Sayable \in [Publishers -> SUBSET Lines]
    /\ Sanitize \in [Lines -> Lines \cup {Blank}]
    /\ TestLine \in Lines /\ TestChannel \in Channels
    /\ Faulty \subseteq Servers
    /\ SeenWindow \in Nat /\ EchoTTL \in Nat /\ EchoLimit \in Nat
    /\ QueueLimit \in Nat \ {0} /\ MaxHop \in Nat /\ EchoDelay \in Nat
    /\ DistinctLines \in BOOLEAN /\ MaxTime \in Nat /\ MaxEvents \in Nat
    /\ MaxOwed \in Nat

VARIABLES
    now,        \* the clock
    channels,   \* Router.channels: the live routing table
    seen,       \* Router.seen: the two generations of the seenCache
    connected,  \* the keys of Hub.sessions
    out,        \* per server, Agent.out: frames on their way to the hub
    pub,        \* per publisher, the fan-out Hub.Publish is in the middle of
    down,       \* per server, Session.out: frames on their way to the agent
    echo,       \* per server, echoCache.expiry; 0 stands for no entry
    owed,       \* per server, injected lines the game has still to echo
    nextId,     \* the next fresh event ID (relay.NewID)
    said,       \* history: the lines that were said
    speaker,    \* history: where the utterance behind an ID was typed
    handled,    \* history: when the hub last planned deliveries for an ID
    accepted,   \* history: how often deliveries were planned for an ID
    injected,   \* history: how often an utterance was written to a server
    onDiscord   \* history: how often an utterance was sent to Discord

routerVars  == <<channels, seen, connected, pub>>
agentVars   == <<out, echo, owed>>
historyVars == <<said, speaker, handled, accepted, injected, onDiscord>>
vars == <<now, channels, seen, connected, out, pub, down, echo, owed, nextId,
          said, speaker, handled, accepted, injected, onDiscord>>

(***************************************************************************)
(* Events and frames.  root is not in the code: it names the utterance an  *)
(* event carries, which an echo shares with the event that was injected.   *)
(***************************************************************************)
Hops  == 0 .. MaxHop + 1
Event == [id : Ids, origin : Publishers, channel : Channels,
          line : Lines, hop : Hops, root : Roots]
Owed  == [line : Lines, channel : Channels, root : Roots, at : Nat]
Fanout == [event : Event, targets : (SUBSET Servers) \ {{}}]

ASSUME NullAssumption == None \notin Fanout /\ TestFrame \notin Event

NewEvent(origin, ch, line, root) ==
    [id |-> nextId, origin |-> origin, channel |-> ch, line |-> line,
     hop |-> 0, root |-> root]

\* A full queue gives up its oldest frame; or the frame being sent, when
\* another sender takes the slot that frees; or one frame more than it had to,
\* when the queue's reader took one after the queue was found full.
SendOutcomes(q, frame) ==
    UNION {IF Len(q) < QueueLimit THEN {Append(q, frame)} ELSE {q},
           IF q # <<>> /\ Len(q) + 1 >= QueueLimit THEN {Append(Tail(q), frame)} ELSE {}}

-----------------------------------------------------------------------------
(* The seenCache: two generations, rotated by the first lookup after       *)
(* rotateAt.                                                                *)
\* Mutant: a rotation starts both generations afresh.
RotatedForgetsAll ==
    IF now > seen.rotateAt
    THEN [current |-> {}, previous |-> {}, rotateAt |-> now + SeenWindow]
    ELSE seen

Rotated ==
    IF now > seen.rotateAt
    THEN [current |-> {}, previous |-> seen.current, rotateAt |-> now + SeenWindow]
    ELSE seen

SeenBefore(id) == id \in Rotated.current \cup Rotated.previous

Record(id) ==
    IF SeenBefore(id) THEN Rotated
                      ELSE [Rotated EXCEPT !.current = @ \cup {id}]

(* Event.Validate, on a sanitized event.                                   *)
Valid(e) == e.line # Blank /\ e.hop <= MaxHop

\* The events Route plans deliveries for.
Routable(e) ==
    /\ ~SeenBefore(e.id)
    /\ e.hop = 0
    /\ e.channel \in DOMAIN channels
    /\ channels[e.channel].enabled

\* Mutant: the origin is not excluded.
TargetsWithOrigin(e) ==
    IF channels[e.channel].cross \/ e.origin = Discord THEN connected ELSE {}

Targets(e) ==
    IF channels[e.channel].cross \/ e.origin = Discord
    THEN connected \ {e.origin}
    ELSE {}

\* Mutant: chat from Discord is shown on Discord.
ShowsAllOnDiscord(e) == channels[e.channel].discord

ShowsOnDiscord(e) == channels[e.channel].discord /\ e.origin # Discord

(* Hub.Publish up to the fan-out: sanitize, take the connected keys, route,*)
(* send the Discord leg, mark the hop.                                     *)
Publish(p, raw) ==
    LET e == [raw EXCEPT !.line = Sanitize[raw.line]]
        planned == Valid(e) /\ Routable(e)
    IN  /\ seen' = IF Valid(e) THEN Record(e.id) ELSE seen
        /\ pub' = IF planned /\ Targets(e) # {}
                  THEN [pub EXCEPT ![p] = [event |-> [e EXCEPT !.hop = @ + 1],
                                           targets |-> Targets(e)]]
                  ELSE pub
        /\ handled' = IF planned THEN [handled EXCEPT ![e.id] = now] ELSE handled
        /\ accepted' = IF planned THEN [accepted EXCEPT ![e.id] = @ + 1] ELSE accepted
        /\ onDiscord' = IF planned /\ ShowsOnDiscord(e)
                        THEN [onDiscord EXCEPT ![e.root] = @ + 1]
                        ELSE onDiscord

-----------------------------------------------------------------------------
(* The echoCache.                                                          *)
Unexpired(s) == [l \in Lines |-> IF echo[s][l] < now THEN 0 ELSE echo[s][l]]

Pruned(s) ==
    IF Cardinality({l \in Lines : Unexpired(s)[l] # 0}) > EchoLimit
    THEN [l \in Lines |-> 0]
    ELSE Unexpired(s)

\* Mutant: an entry expires as soon as it is made.
RememberedWithoutTTL(s, line) == [Pruned(s) EXCEPT ![line] = now]

Remembered(s, line) == [Pruned(s) EXCEPT ![line] = now + EchoTTL]

IsEcho(s, line) == now < echo[s][line]

(* agent.Publish: one observed line, with the event it becomes.            *)
AgentPublish(s, ch, raw, root) ==
    LET line == Sanitize[raw]
    IN  IF line = Blank
        THEN UNCHANGED <<out, echo, nextId, speaker>>
        ELSE /\ echo' = [echo EXCEPT ![s][line] = 0]
             /\ IF IsEcho(s, line)
                THEN UNCHANGED <<out, nextId, speaker>>
                ELSE /\ nextId <= MaxEvents
                     /\ \E q \in SendOutcomes(out[s], NewEvent(s, ch, line, root)) :
                            out' = [out EXCEPT ![s] = q]
                     /\ nextId' = nextId + 1
                     /\ speaker' = [speaker EXCEPT ![nextId] = s]

\* The environment's choice of what is said: any line, or a line nobody said.
Unsaid(line) == DistinctLines => line \notin said

PlayerSays(s, ch, raw) ==
    /\ Unsaid(raw)
    /\ said' = said \cup {raw}
    /\ AgentPublish(s, ch, raw, nextId)
    /\ UNCHANGED <<now, routerVars, down, owed, handled, accepted, injected, onDiscord>>

\* The game writes an injected line back on the telnet connection.
GameEchoes(s) ==
    /\ owed[s] # <<>>
    /\ owed' = [owed EXCEPT ![s] = Tail(@)]
    /\ LET o == Head(owed[s]) IN AgentPublish(s, o.channel, o.line, o.root)
    /\ UNCHANGED <<now, routerVars, down, said, handled, accepted, injected, onDiscord>>

\* The line it writes back matches none of the agent's chat triggers.
EchoUnmatched(s) ==
    /\ owed[s] # <<>>
    /\ owed' = [owed EXCEPT ![s] = Tail(@)]
    /\ UNCHANGED <<now, routerVars, down, out, echo, nextId, historyVars>>

-----------------------------------------------------------------------------
(* The hub.                                                                *)

\* Hub.onFrame for an event frame: the origin is the session's server key,
\* whatever the agent wrote.
HubReads(s) ==
    /\ s \in connected /\ out[s] # <<>> /\ pub[s] = None
    /\ Publish(s, [Head(out[s]) EXCEPT !.origin = s])
    /\ out' = [out EXCEPT ![s] = Tail(@)]
    /\ UNCHANGED <<now, channels, connected, down, echo, owed, nextId, said, speaker, injected>>

\* The session's limiter refuses the event, or the frame is lost with a
\* failing write on the agent's side.
FrameLost(s) ==
    /\ out[s] # <<>>
    /\ out' = [out EXCEPT ![s] = Tail(@)]
    /\ UNCHANGED <<now, routerVars, down, echo, owed, nextId, historyVars>>

\* Client.onRelayPublish in hub mode: chat from Discord or from the hub's own
\* game server goes straight to Publish.
HubHears(p, ch, raw) ==
    /\ p \in {Discord, Local} /\ pub[p] = None
    /\ nextId <= MaxEvents
    /\ Unsaid(raw)
    /\ said' = said \cup {raw}
    /\ Publish(p, NewEvent(p, ch, raw, nextId))
    /\ nextId' = nextId + 1
    /\ speaker' = [speaker EXCEPT ![nextId] = p]
    /\ UNCHANGED <<now, channels, connected, out, down, echo, owed, injected>>

\* Mutant: the fan-out is not closed after its last target.
ForwardKeepsOpen(p, t) ==
    /\ pub[p] # None /\ t \in pub[p].targets
    /\ pub' = [pub EXCEPT ![p] = [event |-> pub[p].event, targets |-> pub[p].targets \ {t}]]
    /\ IF t \in connected
       THEN \E q \in SendOutcomes(down[t], pub[p].event) : down' = [down EXCEPT ![t] = q]
       ELSE UNCHANGED down
    /\ UNCHANGED <<now, channels, seen, connected, agentVars, nextId, historyVars>>

\* One step of the fan-out: the session is looked up again, and may be gone.
Forward(p, t) ==
    /\ pub[p] # None /\ t \in pub[p].targets
    /\ pub' = [pub EXCEPT ![p] =
            IF pub[p].targets = {t} THEN None
            ELSE [event |-> pub[p].event, targets |-> pub[p].targets \ {t}]]
    /\ IF t \in connected
       THEN \E q \in SendOutcomes(down[t], pub[p].event) : down' = [down EXCEPT ![t] = q]
       ELSE UNCHANGED down
    /\ UNCHANGED <<now, channels, seen, connected, agentVars, nextId, historyVars>>

\* Hub.TestAgent with a visible line; the test has an ID of its own.
SendTest(s) ==
    /\ s \in connected
    /\ nextId <= MaxEvents /\ nextId' = nextId + 1
    /\ \E q \in SendOutcomes(down[s], TestFrame) : down' = [down EXCEPT ![s] = q]
    /\ UNCHANGED <<now, routerVars, agentVars, historyVars>>

ReplaceChannels(table) ==
    /\ channels' = table
    /\ UNCHANGED <<now, seen, connected, pub, down, agentVars, nextId, historyVars>>

Connect(s) ==
    /\ s \notin connected
    /\ connected' = connected \cup {s}
    /\ UNCHANGED <<now, channels, seen, pub, down, agentVars, nextId, historyVars>>

\* The session ends and takes its queue with it.
Disconnect(s) ==
    /\ s \in connected
    /\ connected' = connected \ {s}
    /\ down' = [down EXCEPT ![s] = <<>>]
    /\ UNCHANGED <<now, channels, seen, pub, agentVars, nextId, historyVars>>

-----------------------------------------------------------------------------
(* The receiving agent.                                                    *)

\* Remember before sending; the write to telnet may fail.
WriteToGame(t, line, ch, root) ==
    /\ Len(owed[t]) < MaxOwed
    /\ echo' = [echo EXCEPT ![t] = Remembered(t, line)]
    /\ \/ /\ owed' = [owed EXCEPT ![t] = Append(@, [line |-> line, channel |-> ch,
                                                    root |-> root, at |-> now])]
          /\ injected' = IF root = TestRoot THEN injected
                         ELSE [injected EXCEPT ![t][root] = @ + 1]
       \/ UNCHANGED <<owed, injected>>

\* agent.inject.
Inject(t) ==
    /\ down[t] # <<>> /\ Head(down[t]) # TestFrame
    /\ down' = [down EXCEPT ![t] = Tail(@)]
    /\ LET e == Head(down[t])
           line == Sanitize[e.line]
       IN  IF e.origin = t \/ e.channel \notin AgentChannels[t] \/ line = Blank
           THEN UNCHANGED <<echo, owed, injected>>
           ELSE WriteToGame(t, line, e.channel, e.root)
    /\ UNCHANGED <<now, routerVars, out, nextId, said, speaker, handled, accepted, onDiscord>>

\* agent.handleTest with injectTestLine: the name of the test line is not
\* sanitized.
HandleTest(t) ==
    /\ down[t] # <<>> /\ Head(down[t]) = TestFrame
    /\ down' = [down EXCEPT ![t] = Tail(@)]
    /\ IF TestChannel \in AgentChannels[t]
       THEN WriteToGame(t, TestLine, TestChannel, TestRoot)
       ELSE UNCHANGED <<echo, owed, injected>>
    /\ UNCHANGED <<now, routerVars, out, nextId, said, speaker, handled, accepted, onDiscord>>

\* What Route's duplicate and hop checks are there for: an agent that sends
\* an event the hub gave it straight back, claiming any hop count.
Bounce(t, hop) ==
    /\ t \in Faulty /\ down[t] # <<>> /\ Head(down[t]) # TestFrame
    /\ down' = [down EXCEPT ![t] = Tail(@)]
    /\ \E q \in SendOutcomes(out[t], [Head(down[t]) EXCEPT !.hop = hop]) :
           out' = [out EXCEPT ![t] = q]
    /\ UNCHANGED <<now, routerVars, echo, owed, nextId, historyVars>>

Tick ==
    /\ now < MaxTime
    /\ \A s \in Servers : owed[s] # <<>> => now < Head(owed[s]).at + EchoDelay
    /\ now' = now + 1
    /\ UNCHANGED <<routerVars, down, agentVars, nextId, historyVars>>

-----------------------------------------------------------------------------
Init ==
    /\ now = 1
    /\ channels \in Tables
    /\ seen = [current |-> {}, previous |-> {}, rotateAt |-> 1 + SeenWindow]
    /\ connected = {}
    /\ out = [s \in Servers |-> <<>>]
    /\ pub = [p \in Publishers |-> None]
    /\ down = [s \in Servers |-> <<>>]
    /\ echo = [s \in Servers |-> [l \in Lines |-> 0]]
    /\ owed = [s \in Servers |-> <<>>]
    /\ nextId = 1
    /\ said = {}
    /\ speaker = [i \in Ids |-> None]
    /\ handled = [i \in Ids |-> 0]
    /\ accepted = [i \in Ids |-> 0]
    /\ injected = [s \in Servers |-> [i \in Ids |-> 0]]
    /\ onDiscord = [r \in Roots |-> 0]

Next ==
    \/ \E s \in Servers, ch \in Channels : \E l \in Sayable[s] : PlayerSays(s, ch, l)
    \/ \E p \in {Discord, Local}, ch \in Channels : \E l \in Sayable[p] : HubHears(p, ch, l)
    \/ \E s \in Servers : GameEchoes(s)
    \/ \E s \in Servers : EchoUnmatched(s)
    \/ \E s \in Servers : HubReads(s)
    \/ \E s \in Servers : FrameLost(s)
    \/ \E p \in Publishers, t \in Servers : Forward(p, t)
    \/ \E s \in Servers : SendTest(s)
    \/ \E table \in Tables : ReplaceChannels(table)
    \/ \E s \in Servers : Connect(s)
    \/ \E s \in Servers : Disconnect(s)
    \/ \E s \in Servers : Inject(s)
    \/ \E s \in Servers : HandleTest(s)
    \/ \E s \in Servers, hop \in Hops : Bounce(s, hop)
    \/ Tick

Spec == Init /\ [][Next]_vars

-----------------------------------------------------------------------------
Frame == Event \cup {TestFrame}

TypeOK ==
    /\ now \in Nat \ {0}
    /\ channels \in Tables
    /\ seen \in [current : SUBSET Ids, previous : SUBSET Ids, rotateAt : Nat]
    /\ connected \in SUBSET Servers
    /\ out \in [Servers -> Seq(Event)]
    /\ pub \in [Publishers -> Fanout \cup {None}]
    /\ down \in [Servers -> Seq(Frame)]
    /\ echo \in [Servers -> [Lines -> Nat]]
    /\ owed \in [Servers -> Seq(Owed)]
    /\ nextId \in Nat \ {0}
    /\ said \in SUBSET Lines
    /\ speaker \in [Ids -> Publishers \cup {None}]
    /\ handled \in [Ids -> Nat]
    /\ accepted \in [Ids -> Nat]
    /\ injected \in [Servers -> [Ids -> Nat]]
    /\ onDiscord \in [Roots -> Nat]

\* The events that are somewhere on their way.
InFlight ==
    (UNION {{out[s][i] : i \in DOMAIN out[s]} : s \in Servers})
    \cup {pub[p].event : p \in {q \in Publishers : pub[q] # None}}
    \cup UNION {{down[s][i] : i \in DOMAIN down[s]} \ {TestFrame} : s \in Servers}

\* A server is never sent its own chat: no session queue and no fan-out in
\* progress holds an event for the server it came from, whatever origin the
\* agent that published it wrote into it (Hub.onFrame, Router.Route).
NeverToOrigin ==
    /\ \A s \in Servers : \A i \in DOMAIN down[s] :
           down[s][i] # TestFrame => down[s][i].origin # s
    /\ \A p \in Publishers : pub[p] # None => pub[p].event.origin \notin pub[p].targets

\* Router.seenCache: within the window after it planned deliveries for an ID,
\* the hub plans none for that ID, whichever agents send it back how often.
DuplicatesRejected ==
    [][\A i \in Ids : handled'[i] # handled[i] /\ handled[i] # 0
                        => now > handled[i] + SeenWindow]_vars

\* What the seenCache keeps: an ID the hub planned deliveries for is in one of
\* the generations, or was planned more than two windows before the next
\* rotation; the previous generation is at least as old as the last rotation.
SeenInv ==
    /\ seen.rotateAt <= now + SeenWindow
    /\ \A i \in Ids : handled[i] <= now
    /\ \A i \in Ids : handled[i] # 0 /\ i \notin seen.current \cup seen.previous
                        => handled[i] + 2 * SeenWindow < seen.rotateAt
    /\ \A i \in seen.previous : handled[i] + SeenWindow <= seen.rotateAt

\* agent/echo.go: one suppression per injection is exactly the number of
\* echoes produced, so the echo of an injected line is never published as
\* fresh chat.  (An ID the hub has handled twice was injected twice.)
OneSuppressionPerInjection ==
    \A e \in InFlight :
        e.root # TestRoot /\ accepted[e.root] <= 1 => e.id = e.root

\* No feedback loop: chat never comes back to where it was typed, neither to
\* the players of the game server it was typed on nor to Discord, and no
\* game server shows it twice.
NoFeedback ==
    \A i \in Ids : accepted[i] <= 1 =>
        /\ speaker[i] \in Servers => injected[speaker[i]][i] = 0
        /\ speaker[i] = Discord => onDiscord[i] = 0
        /\ \A s \in Servers : injected[s][i] <= 1
        /\ onDiscord[i] <= 1

-----------------------------------------------------------------------------
(* What NoFeedback needs of the world around the agents.  Canon is what a  *)
(* line has become when it is injected: sanitized by the agent or the hub  *)
(* and again after that.                                                   *)
Canon(l) == IF Sanitize[l] = Blank THEN Blank ELSE Sanitize[Sanitize[l]]

\* Nobody repeats a line or says one that looks like another's or like the
\* test line, whose name no player can have; a line sanitized twice stays as
\* it is; and the game echoes before echoCache forgets.
QuietWorld ==
    /\ DistinctLines /\ EchoDelay < EchoTTL
    /\ \A l \in Lines : Canon(l) # Blank => Sanitize[Canon(l)] = Canon(l)
    /\ \A p \in Publishers : TestLine \notin Sayable[p]
    /\ \A p, q \in Publishers : \A l \in Sayable[p] \cup {TestLine}, m \in Sayable[q] :
           Canon(l) = Canon(m) /\ Canon(l) # Blank => l = m

\* No echoCache has grown beyond its limit, where remember clears it.
CachesFit == \A s \in Servers : Pruned(s) = Unexpired(s)
=============================================================================
