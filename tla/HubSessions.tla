---------------------------- MODULE HubSessions ----------------------------
(***************************************************************************)
(* The life of agent sessions on the hub.  Every connection is one handler *)
(* goroutine (Hub.handleAgent) that admits, authenticates, welcomes and    *)
(* registers a session, starts its writer and becomes its reader; a second *)
(* connection of the same server replaces the first; Hub.Disconnect takes  *)
(* the map of sessions down while handshakes are under way; operators      *)
(* rename servers (Hub.RenameAgent) and probe agents (Hub.TestAgent).      *)
(* Each step below ends where the code releases Hub.mu, blocks, or does    *)
(* I/O.                                                                    *)
(***************************************************************************)
EXTENDS Naturals, FiniteSets

CONSTANTS
    Conns,      \* connections agents open, each with its Session
    Keys,       \* server keys on the roster
    KeyOf,      \* the server whose agent opens a connection
    MaxAgents,  \* guard.Limits.MaxAgents; 0 for no limit
    Names,      \* display names
    OldName,    \* the name every server starts with
    Renames,    \* calls of RenameAgent
    RenameTo,   \* the server and the name of each call
    Probes,     \* calls of TestAgent
    ProbeOf,    \* the server each call probes
    ReplyBuffer,\* capacity of a probe's reply channel (pendingTests.add)
    MaxCalls,   \* bound on the calls of RenameAgent and TestAgent
    None        \* no session

ASSUME SessionsAssumption ==
    /\ KeyOf \in [Conns -> Keys] /\ ProbeOf \in [Probes -> Keys]
    /\ RenameTo \in [Renames -> [key : Keys, name : Names]]
    /\ MaxAgents \in Nat /\ ReplyBuffer \in Nat \ {0} /\ MaxCalls \in Nat
    /\ OldName \in Names
    /\ None \notin Conns

VARIABLES
    pc,         \* per connection, where its handler is
    writer,     \* per connection, its writeLoop
    closed,     \* the sessions that were closed: done and the socket
    closing,    \* sessions a goroutine is about to close (addSession)
    peer,       \* connections whose agent is still there
    shortName,  \* per connection, Session.shortName
    sessions,   \* Hub.sessions
    roster,     \* the display name the roster holds for a server
    renaming,   \* per RenameAgent call, where it is
    stop,       \* where Hub.Disconnect is
    toClose,    \* the sessions Disconnect copied and has still to close
    cancelled,  \* Hub.ctx is done
    probe,      \* per TestAgent call, where it is
    target,     \* per TestAgent call, the session it looked up
    waiting,    \* pendingTests.waiting
    replies,    \* per TestAgent call, replies in its channel
    asked,      \* probes an agent has received and not answered
    delivering  \* per connection, the probe whose reply deliver() holds

connVars   == <<pc, writer, closed, closing, peer, shortName, sessions, delivering>>
renameVars == <<roster, renaming>>
stopVars   == <<stop, toClose, cancelled>>
probeVars  == <<probe, target, waiting, replies, asked>>
vars == <<pc, writer, closed, closing, peer, shortName, sessions, roster, renaming,
          stop, toClose, cancelled, probe, target, waiting, replies, asked, delivering>>

HandlerStates == {"new", "admitted", "named", "welcomed", "added", "check", "read",
                  "deliver", "returned", "gone"}
Reading    == {"check", "read", "deliver"}

\* Mutant: a server without a session counts as a session.
RegisteredOrNil == {sessions[k] : k \in Keys}

Registered == {sessions[k] : k \in Keys} \ {None}

\* The calls operators have made.
Calls == Cardinality({r \in Renames : renaming[r] # "new"})
         + Cardinality({p \in Probes : probe[p] # "new"})

Goto(c, state) == pc' = [pc EXCEPT ![c] = state]

-----------------------------------------------------------------------------
(* Hub.handleAgent                                                         *)

\* The connection arrives while the listener is open; AllowConnection is
\* asked with the number of sessions there are now.
Admit(c) ==
    /\ pc[c] = "new" /\ stop # "down"
    /\ IF MaxAgents > 0 /\ Cardinality(Registered) >= MaxAgents
       THEN Goto(c, "gone") /\ UNCHANGED peer
       ELSE Goto(c, "admitted") /\ peer' = peer \cup {c}
    /\ UNCHANGED <<writer, closed, closing, shortName, sessions, delivering,
                   renameVars, stopVars, probeVars>>

\* The hello is read and the token verified: the session takes its name from
\* the roster entry Authenticate returned.  A bad hello, a wrong version or a
\* refused token end the connection, as does a silent peer (read deadline).
Authenticate(c) ==
    /\ pc[c] = "admitted" /\ c \in peer
    /\ Goto(c, "named")
    /\ shortName' = [shortName EXCEPT ![c] = roster[KeyOf[c]]]
    /\ UNCHANGED <<writer, closed, closing, peer, sessions, delivering,
                   renameVars, stopVars, probeVars>>

Reject(c) ==
    /\ pc[c] = "admitted"
    /\ Goto(c, "gone")
    /\ closed' = closed \cup {c}
    /\ UNCHANGED <<writer, closing, peer, shortName, sessions, delivering,
                   renameVars, stopVars, probeVars>>

Welcome(c) ==
    /\ pc[c] = "named"
    /\ IF c \in peer
       THEN Goto(c, "welcomed") /\ UNCHANGED closed
       ELSE Goto(c, "gone") /\ closed' = closed \cup {c}
    /\ UNCHANGED <<writer, closing, peer, shortName, sessions, delivering,
                   renameVars, stopVars, probeVars>>

\* Mutant: the session that is replaced is left open.
AddSessionKeepsOld(c) ==
    /\ pc[c] = "welcomed"
    /\ Goto(c, "added")
    /\ sessions' = [sessions EXCEPT ![KeyOf[c]] = c]
    /\ UNCHANGED <<writer, closed, closing, peer, shortName, delivering,
                   renameVars, stopVars, probeVars>>

AddSession(c) ==
    /\ pc[c] = "welcomed"
    /\ Goto(c, "added")
    /\ closing' = closing \cup ({sessions[KeyOf[c]]} \ {None})
    /\ sessions' = [sessions EXCEPT ![KeyOf[c]] = c]
    /\ UNCHANGED <<writer, closed, peer, shortName, delivering,
                   renameVars, stopVars, probeVars>>

\* After MarkSeen: the writer is started and the handler becomes the reader.
StartLoops(c) ==
    /\ pc[c] = "added"
    /\ Goto(c, "check")
    /\ writer' = [writer EXCEPT ![c] = "run"]
    /\ UNCHANGED <<closed, closing, peer, shortName, sessions, delivering,
                   renameVars, stopVars, probeVars>>

\* The goroutine addSession started for the session it replaced.
CloseReplaced(c) ==
    /\ c \in closing
    /\ closing' = closing \ {c}
    /\ closed' = closed \cup {c}
    /\ UNCHANGED <<pc, writer, peer, shortName, sessions, delivering,
                   renameVars, stopVars, probeVars>>

-----------------------------------------------------------------------------
(* Session.readLoop and Session.writeLoop                                  *)

\* ctx and done are looked at between frames only.
ReaderChecks(c) ==
    /\ pc[c] = "check"
    /\ IF cancelled \/ c \in closed
       THEN Goto(c, "returned") /\ closed' = closed \cup {c}
       ELSE Goto(c, "read") /\ UNCHANGED closed
    /\ UNCHANGED <<writer, closing, peer, shortName, sessions, delivering,
                   renameVars, stopVars, probeVars>>

\* An event or a status frame arrives.
ReadsFrame(c) ==
    /\ pc[c] = "read" /\ c \notin closed /\ c \in peer
    /\ Goto(c, "check")
    /\ UNCHANGED <<writer, closed, closing, peer, shortName, sessions, delivering,
                   renameVars, stopVars, probeVars>>

\* The reply to a probe arrives, on whichever connection the agent has now;
\* deliver() takes the caller's channel out of the map.
ReadsReply(c, p) ==
    /\ pc[c] = "read" /\ c \notin closed /\ c \in peer
    /\ p \in asked /\ ProbeOf[p] = KeyOf[c]
    /\ asked' = asked \ {p}
    /\ IF p \in waiting
       THEN /\ Goto(c, "deliver")
            /\ delivering' = [delivering EXCEPT ![c] = p]
       ELSE Goto(c, "check") /\ UNCHANGED delivering
    /\ waiting' = waiting \ {p}
    /\ UNCHANGED <<writer, closed, closing, peer, shortName, sessions, renameVars,
                   stopVars, probe, target, replies>>

\* Mutant: the reply channel has no buffer.
HasRoomUnbuffered(p) == probe[p] = "waits" /\ replies[p] < ReplyBuffer

HasRoom(p) == replies[p] < ReplyBuffer

DeliversReply(c) ==
    /\ pc[c] = "deliver"
    /\ LET p == delivering[c]
       IN  HasRoom(p) /\ replies' = [replies EXCEPT ![p] = @ + 1]
    /\ delivering' = [delivering EXCEPT ![c] = None]
    /\ Goto(c, "check")
    /\ UNCHANGED <<writer, closed, closing, peer, shortName, sessions, renameVars,
                   stopVars, probe, target, waiting, asked>>

\* The read fails: the socket was closed, or the agent is gone and the
\* deadline passed.
ReadFails(c) ==
    /\ pc[c] = "read"
    /\ c \in closed \/ c \notin peer
    /\ Goto(c, "returned")
    /\ closed' = closed \cup {c}
    /\ UNCHANGED <<writer, closing, peer, shortName, sessions, delivering,
                   renameVars, stopVars, probeVars>>

\* Mutant: whatever session the server has is removed.
RemoveSessionAny(c) ==
    /\ pc[c] = "returned"
    /\ Goto(c, "gone")
    /\ sessions' = [sessions EXCEPT ![KeyOf[c]] = None]
    /\ UNCHANGED <<writer, closed, closing, peer, shortName, delivering,
                   renameVars, stopVars, probeVars>>

\* Mutant: the handler ends without removing its session.
RemoveSessionNot(c) ==
    /\ pc[c] = "returned"
    /\ Goto(c, "gone")
    /\ UNCHANGED <<writer, closed, closing, peer, shortName, sessions, delivering,
                   renameVars, stopVars, probeVars>>

RemoveSession(c) ==
    /\ pc[c] = "returned"
    /\ Goto(c, "gone")
    /\ sessions' = IF sessions[KeyOf[c]] = c
                   THEN [sessions EXCEPT ![KeyOf[c]] = None]
                   ELSE sessions
    /\ UNCHANGED <<writer, closed, closing, peer, shortName, delivering,
                   renameVars, stopVars, probeVars>>

\* done is closed, or a write fails: the writer closes the session and ends.
WriterEnds(c) ==
    /\ writer[c] = "run"
    /\ c \in closed \/ c \notin peer
    /\ writer' = [writer EXCEPT ![c] = "ended"]
    /\ closed' = closed \cup {c}
    /\ UNCHANGED <<pc, closing, peer, shortName, sessions, delivering,
                   renameVars, stopVars, probeVars>>

\* The agent goes away, or the network to it does.
PeerDrops(c) ==
    /\ c \in peer
    /\ peer' = peer \ {c}
    /\ UNCHANGED <<pc, writer, closed, closing, shortName, sessions, delivering,
                   renameVars, stopVars, probeVars>>

-----------------------------------------------------------------------------
(* Hub.Disconnect                                                          *)

StopClears ==
    /\ stop = "up"
    /\ stop' = "closing"
    /\ toClose' = Registered
    /\ sessions' = [k \in Keys |-> None]
    /\ UNCHANGED <<pc, writer, closed, closing, peer, shortName, delivering, cancelled,
                   renameVars, probeVars>>

StopCloses(c) ==
    /\ c \in toClose
    /\ toClose' = toClose \ {c}
    /\ closed' = closed \cup {c}
    /\ UNCHANGED <<pc, writer, closing, peer, shortName, sessions, delivering, stop,
                   cancelled, renameVars, probeVars>>

\* Mutant: the context is not cancelled.
StopWithoutCancel ==
    /\ stop = "closing" /\ toClose = {}
    /\ stop' = "cancelled"
    /\ UNCHANGED <<connVars, toClose, cancelled, renameVars, probeVars>>

StopCancels ==
    /\ stop = "closing" /\ toClose = {}
    /\ stop' = "cancelled"
    /\ cancelled' = TRUE
    /\ UNCHANGED <<connVars, toClose, renameVars, probeVars>>

\* server.Shutdown: the listener closes; hijacked connections are not its
\* concern.
StopListener ==
    /\ stop = "cancelled"
    /\ stop' = "down"
    /\ UNCHANGED <<connVars, toClose, cancelled, renameVars, probeVars>>

-----------------------------------------------------------------------------
(* Hub.RenameAgent                                                         *)

RenameRoster(r) ==
    /\ renaming[r] = "new" /\ Calls < MaxCalls
    /\ renaming' = [renaming EXCEPT ![r] = "saved"]
    /\ roster' = [roster EXCEPT ![RenameTo[r].key] = RenameTo[r].name]
    /\ UNCHANGED <<connVars, stopVars, probeVars>>

RenameSession(r) ==
    /\ renaming[r] = "saved"
    /\ renaming' = [renaming EXCEPT ![r] = "done"]
    /\ LET c == sessions[RenameTo[r].key]
       IN  shortName' = IF c = None THEN shortName
                        ELSE [shortName EXCEPT ![c] = RenameTo[r].name]
    /\ UNCHANGED <<pc, writer, closed, closing, peer, sessions, delivering, roster,
                   stopVars, probeVars>>

-----------------------------------------------------------------------------
(* Hub.TestAgent                                                           *)

ProbeStarts(p) ==
    /\ probe[p] = "new" /\ Calls < MaxCalls
    /\ target' = [target EXCEPT ![p] = sessions[ProbeOf[p]]]
    /\ IF sessions[ProbeOf[p]] = None
       THEN /\ probe' = [probe EXCEPT ![p] = "offline"]
            /\ UNCHANGED waiting
       ELSE /\ probe' = [probe EXCEPT ![p] = "armed"]
            /\ waiting' = waiting \cup {p}
    /\ UNCHANGED <<connVars, renameVars, stopVars, replies, asked>>

\* Send does nothing on a closed session; the frame may be dropped, or never
\* reach the agent.
ProbeSends(p) ==
    /\ probe[p] = "armed"
    /\ probe' = [probe EXCEPT ![p] = "waits"]
    /\ \/ target[p] \notin closed /\ asked' = asked \cup {p}
       \/ UNCHANGED asked
    /\ UNCHANGED <<connVars, renameVars, stopVars, target, waiting, replies>>

ProbeHears(p) ==
    /\ probe[p] = "waits" /\ replies[p] > 0
    /\ replies' = [replies EXCEPT ![p] = @ - 1]
    /\ probe' = [probe EXCEPT ![p] = "answered"]
    /\ waiting' = waiting \ {p}
    /\ UNCHANGED <<connVars, renameVars, stopVars, target, asked>>

ProbeTimesOut(p) ==
    /\ probe[p] = "waits"
    /\ probe' = [probe EXCEPT ![p] = "timeout"]
    /\ waiting' = waiting \ {p}
    /\ UNCHANGED <<connVars, renameVars, stopVars, target, replies, asked>>

-----------------------------------------------------------------------------
Init ==
    /\ pc = [c \in Conns |-> "new"]
    /\ writer = [c \in Conns |-> "off"]
    /\ closed = {} /\ closing = {} /\ peer = {}
    /\ shortName = [c \in Conns |-> OldName]
    /\ sessions = [k \in Keys |-> None]
    /\ roster = [k \in Keys |-> OldName]
    /\ renaming = [r \in Renames |-> "new"]
    /\ stop = "up" /\ toClose = {} /\ cancelled = FALSE
    /\ probe = [p \in Probes |-> "new"]
    /\ target = [p \in Probes |-> None]
    /\ waiting = {}
    /\ replies = [p \in Probes |-> 0]
    /\ asked = {}
    /\ delivering = [c \in Conns |-> None]

Next ==
    \/ \E c \in Conns : Admit(c)
    \/ \E c \in Conns : Authenticate(c)
    \/ \E c \in Conns : Reject(c)
    \/ \E c \in Conns : Welcome(c)
    \/ \E c \in Conns : AddSession(c)
    \/ \E c \in Conns : StartLoops(c)
    \/ \E c \in Conns : CloseReplaced(c)
    \/ \E c \in Conns : ReaderChecks(c)
    \/ \E c \in Conns : ReadsFrame(c)
    \/ \E c \in Conns, p \in Probes : ReadsReply(c, p)
    \/ \E c \in Conns : DeliversReply(c)
    \/ \E c \in Conns : ReadFails(c)
    \/ \E c \in Conns : RemoveSession(c)
    \/ \E c \in Conns : WriterEnds(c)
    \/ \E c \in Conns : PeerDrops(c)
    \/ StopClears
    \/ \E c \in Conns : StopCloses(c)
    \/ StopCancels
    \/ StopListener
    \/ \E r \in Renames : RenameRoster(r)
    \/ \E r \in Renames : RenameSession(r)
    \/ \E p \in Probes : ProbeStarts(p)
    \/ \E p \in Probes : ProbeSends(p)
    \/ \E p \in Probes : ProbeHears(p)
    \/ \E p \in Probes : ProbeTimesOut(p)

\* Every goroutine that can go on does: handshakes are bounded by read and
\* write deadlines, a connected agent sends a status frame every heartbeat,
\* and Disconnect, once called, runs to its end.
Fairness ==
    /\ \A c \in Conns :
        /\ WF_vars(Authenticate(c) \/ Reject(c))
        /\ WF_vars(Welcome(c)) /\ WF_vars(AddSession(c)) /\ WF_vars(StartLoops(c))
        /\ WF_vars(CloseReplaced(c)) /\ WF_vars(ReaderChecks(c))
        /\ WF_vars(ReadsFrame(c)) /\ WF_vars(ReadFails(c)) /\ WF_vars(DeliversReply(c))
        /\ WF_vars(RemoveSession(c)) /\ WF_vars(WriterEnds(c)) /\ WF_vars(StopCloses(c))
    /\ WF_vars(StopCancels) /\ WF_vars(StopListener)

Spec == Init /\ [][Next]_vars /\ Fairness

-----------------------------------------------------------------------------
TypeOK ==
    /\ pc \in [Conns -> HandlerStates]
    /\ writer \in [Conns -> {"off", "run", "ended"}]
    /\ closed \subseteq Conns /\ closing \subseteq Conns /\ peer \subseteq Conns
    /\ shortName \in [Conns -> Names]
    /\ sessions \in [Keys -> Conns \cup {None}]
    /\ roster \in [Keys -> Names]
    /\ renaming \in [Renames -> {"new", "saved", "done"}]
    /\ stop \in {"up", "closing", "cancelled", "down"}
    /\ toClose \subseteq Conns /\ cancelled \in BOOLEAN
    /\ probe \in [Probes -> {"new", "offline", "armed", "waits", "answered", "timeout"}]
    /\ target \in [Probes -> Conns \cup {None}]
    /\ waiting \subseteq Probes /\ asked \subseteq Probes
    /\ replies \in [Probes -> Nat]
    /\ delivering \in [Conns -> Probes \cup {None}]

\* Hub.sessions holds only sessions of the right server whose handler is still
\* running and will remove them: a handler that has ended never leaves its
\* session behind, however replacements, ends and Disconnect interleave
\* (addSession, removeSession).
RegisteredIsLive ==
    \A k \in Keys : sessions[k] # None =>
        /\ KeyOf[sessions[k]] = k
        /\ pc[sessions[k]] \in {"added", "returned"} \cup Reading

\* removeSession: a session disappears from the map only when its own reader
\* has returned, or in Hub.Disconnect; never because the handler of an older
\* session of the same server ended late.
OnlyOwnEndRemoves ==
    [][\A k \in Keys : sessions[k] # None /\ sessions'[k] = None
                           => pc[sessions[k]] = "returned" \/ stop' # stop]_vars

\* pendingTests.add: the session's read loop never blocks on a reply nobody
\* is waiting for any more.
ReaderNeverBlocked == \A c \in Conns : pc[c] = "deliver" => HasRoom(delivering[c])

\* Hub.TestAgent: a probe that is over leaves nothing in pendingTests, and a
\* probe still waiting is in the map or its reply is on the way to it.
ProbesAccounted ==
    \A p \in Probes :
        /\ p \in waiting => probe[p] \in {"armed", "waits"}
        /\ probe[p] \in {"armed", "waits"} /\ p \notin waiting
               => replies[p] > 0 \/ \E c \in Conns : pc[c] = "deliver" /\ delivering[c] = p

\* Late, lost and repeated replies neither block a reader nor leave a probe
\* behind, nor strand one that waits.
ProbesSettle == ReaderNeverBlocked /\ ProbesAccounted

\* What keeps a reply channel from filling up: a probe in the map has no reply
\* in its channel and none on the way, one reader at most delivers to it, and a
\* call that has not begun has neither.
OneReplyPerProbe ==
    /\ \A p \in waiting : replies[p] = 0
    /\ \A c \in Conns : pc[c] = "deliver" =>
          /\ delivering[c] \in Probes \ waiting
          /\ replies[delivering[c]] = 0 /\ probe[delivering[c]] # "new"
          /\ \A d \in Conns : pc[d] = "deliver" /\ delivering[d] = delivering[c] => d = c
    /\ \A p \in Probes : probe[p] = "new" => p \notin waiting /\ replies[p] = 0

\* A session that was replaced does not linger as a zombie, its handler and its
\* writer end (addSession); and that of an agent that vanished is unregistered
\* (the read deadline).
SessionsEnd ==
    \A c \in Conns :
        /\ (pc[c] \in Reading /\ c \notin Registered) ~> (pc[c] = "gone" /\ writer[c] = "ended")
        /\ (c \in Registered /\ c \notin peer) ~> (c \notin Registered)

\* Hub.Disconnect: once it has returned every handler and writer ends, those
\* of handshakes that were under way when it ran included.
ShutdownCompletes ==
    (stop = "down") ~> (\A c \in Conns : pc[c] \in {"new", "gone"} /\ writer[c] # "run")

=============================================================================
