------------------------- MODULE HubSessionsProofs -------------------------
(***************************************************************************)
(* Proofs about HubSessions, for any number of connections, servers,       *)
(* renames and probes.                                                     *)
(***************************************************************************)
EXTENDS HubSessions, TLAPS

\* A hub that has just started is well typed.
LEMMA InitTypeOK == Init => TypeOK
<1> SUFFICES ASSUME Init PROVE TypeOK
    OBVIOUS
<1>1. /\ OldName \in Names /\ cancelled \in BOOLEAN
      /\ pc \in [Conns -> HandlerStates] /\ writer \in [Conns -> {"off", "run", "ended"}]
    BY SessionsAssumption DEF Init, HandlerStates
<1>2. QED
    BY <1>1 DEF Init, TypeOK

\* Every step keeps the types.
LEMMA TypeOKStep == TypeOK /\ [Next]_vars => TypeOK'
<1> SUFFICES ASSUME TypeOK, [Next]_vars PROVE TypeOK'
    OBVIOUS
<1> USE DEF connVars, renameVars, stopVars, probeVars
<1> USE DEF TypeOK, Goto, HandlerStates
<1>1. ASSUME NEW c \in Conns, Admit(c) PROVE TypeOK'
    BY <1>1, SessionsAssumption DEF Admit
<1>2. ASSUME NEW c \in Conns, Authenticate(c) PROVE TypeOK'
    BY <1>2, SessionsAssumption DEF Authenticate
<1>3. ASSUME NEW c \in Conns, Reject(c) PROVE TypeOK'
    BY <1>3, SessionsAssumption DEF Reject
<1>4. ASSUME NEW c \in Conns, Welcome(c) PROVE TypeOK'
    BY <1>4, SessionsAssumption DEF Welcome
<1>5. ASSUME NEW c \in Conns, AddSession(c) PROVE TypeOK'
    BY <1>5, SessionsAssumption DEF AddSession
<1>6. ASSUME NEW c \in Conns, StartLoops(c) PROVE TypeOK'
    BY <1>6, SessionsAssumption DEF StartLoops
<1>7. ASSUME NEW c \in Conns, CloseReplaced(c) PROVE TypeOK'
    BY <1>7, SessionsAssumption DEF CloseReplaced
<1>8. ASSUME NEW c \in Conns, ReaderChecks(c) PROVE TypeOK'
    BY <1>8, SessionsAssumption DEF ReaderChecks
<1>9. ASSUME NEW c \in Conns, ReadsFrame(c) PROVE TypeOK'
    BY <1>9, SessionsAssumption DEF ReadsFrame
<1>10. ASSUME NEW c \in Conns, DeliversReply(c) PROVE TypeOK'
  <2>1. CASE delivering[c] \in Probes
    BY <1>10, <2>1 DEF DeliversReply
  <2>2. CASE delivering[c] \notin Probes
    <3>1. replies' = replies
      BY <1>10, <2>2 DEF DeliversReply
    <3>2. QED
      BY <1>10, <3>1 DEF DeliversReply
  <2>3. QED
    BY <2>1, <2>2
<1>11. ASSUME NEW c \in Conns, ReadFails(c) PROVE TypeOK'
    BY <1>11, SessionsAssumption DEF ReadFails
<1>12. ASSUME NEW c \in Conns, RemoveSession(c) PROVE TypeOK'
    BY <1>12, SessionsAssumption DEF RemoveSession
<1>13. ASSUME NEW c \in Conns, WriterEnds(c) PROVE TypeOK'
    BY <1>13, SessionsAssumption DEF WriterEnds
<1>14. ASSUME NEW c \in Conns, PeerDrops(c) PROVE TypeOK'
    BY <1>14, SessionsAssumption DEF PeerDrops
<1>15. ASSUME NEW c \in Conns, StopCloses(c) PROVE TypeOK'
    BY <1>15, SessionsAssumption DEF StopCloses
<1>16. ASSUME NEW c \in Conns, NEW p \in Probes, ReadsReply(c, p) PROVE TypeOK'
  <2>1. CASE p \in waiting
    BY <1>16, <2>1 DEF ReadsReply
  <2>2. CASE p \notin waiting
    BY <1>16, <2>2 DEF ReadsReply
  <2>3. QED
    BY <2>1, <2>2
<1>17. CASE StopClears
    BY <1>17, SessionsAssumption DEF StopClears, Registered
<1>18. CASE StopCancels
    BY <1>18, SessionsAssumption DEF StopCancels
<1>19. CASE StopListener
    BY <1>19, SessionsAssumption DEF StopListener
<1>20. ASSUME NEW r \in Renames, RenameRoster(r) PROVE TypeOK'
    BY <1>20, SessionsAssumption DEF RenameRoster
<1>21. ASSUME NEW r \in Renames, RenameSession(r) PROVE TypeOK'
    BY <1>21, SessionsAssumption DEF RenameSession
<1>22. ASSUME NEW p \in Probes, ProbeStarts(p) PROVE TypeOK'
  <2>1. sessions[ProbeOf[p]] \in Conns \cup {None}
    BY SessionsAssumption
  <2>2. CASE sessions[ProbeOf[p]] = None
    BY <1>22, <2>1, <2>2 DEF ProbeStarts
  <2>3. CASE sessions[ProbeOf[p]] # None
    BY <1>22, <2>1, <2>3 DEF ProbeStarts
  <2>4. QED
    BY <2>2, <2>3
<1>23. ASSUME NEW p \in Probes, ProbeSends(p) PROVE TypeOK'
    BY <1>23, SessionsAssumption DEF ProbeSends
<1>24. ASSUME NEW p \in Probes, ProbeHears(p) PROVE TypeOK'
    BY <1>24, SessionsAssumption DEF ProbeHears
<1>25. ASSUME NEW p \in Probes, ProbeTimesOut(p) PROVE TypeOK'
    BY <1>25, SessionsAssumption DEF ProbeTimesOut
<1>26. CASE UNCHANGED vars
    BY <1>26 DEF vars
<1>27. QED
    BY <1>1, <1>2, <1>3, <1>4, <1>5, <1>6, <1>7, <1>8, <1>9, <1>10, <1>11, <1>12, <1>13, <1>14, <1>15, <1>16, <1>17, <1>18, <1>19, <1>20, <1>21, <1>22, <1>23, <1>24, <1>25, <1>26 DEF Next

\* Every step keeps the map of sessions to live ones.
LEMMA RegisteredStep == TypeOK /\ RegisteredIsLive /\ [Next]_vars => RegisteredIsLive'
<1> SUFFICES ASSUME TypeOK, RegisteredIsLive, [Next]_vars PROVE RegisteredIsLive'
    OBVIOUS
<1> USE DEF connVars, renameVars, stopVars, probeVars
<1> USE DEF TypeOK, RegisteredIsLive, Goto, Reading
<1>1. ASSUME NEW c \in Conns, Admit(c) PROVE RegisteredIsLive'
  <2>1. \E state \in HandlerStates : Goto(c, state)
    BY <1>1 DEF Admit, HandlerStates
  <2>2. pc[c] = "new" /\ UNCHANGED sessions
    BY <1>1 DEF Admit
  <2>3. QED
    BY <2>1, <2>2, SessionsAssumption
<1>2. ASSUME NEW c \in Conns, Authenticate(c) PROVE RegisteredIsLive'
    BY <1>2, SessionsAssumption DEF Authenticate
<1>3. ASSUME NEW c \in Conns, Reject(c) PROVE RegisteredIsLive'
    BY <1>3, SessionsAssumption DEF Reject
<1>4. ASSUME NEW c \in Conns, Welcome(c) PROVE RegisteredIsLive'
    BY <1>4, SessionsAssumption DEF Welcome
<1>5. ASSUME NEW c \in Conns, AddSession(c) PROVE RegisteredIsLive'
    BY <1>5, SessionsAssumption DEF AddSession
<1>6. ASSUME NEW c \in Conns, StartLoops(c) PROVE RegisteredIsLive'
    BY <1>6, SessionsAssumption DEF StartLoops
<1>7. ASSUME NEW c \in Conns, CloseReplaced(c) PROVE RegisteredIsLive'
    BY <1>7, SessionsAssumption DEF CloseReplaced
<1>8. ASSUME NEW c \in Conns, ReaderChecks(c) PROVE RegisteredIsLive'
    BY <1>8, SessionsAssumption DEF ReaderChecks
<1>9. ASSUME NEW c \in Conns, ReadsFrame(c) PROVE RegisteredIsLive'
    BY <1>9, SessionsAssumption DEF ReadsFrame
<1>10. ASSUME NEW c \in Conns, DeliversReply(c) PROVE RegisteredIsLive'
    BY <1>10, SessionsAssumption DEF DeliversReply
<1>11. ASSUME NEW c \in Conns, ReadFails(c) PROVE RegisteredIsLive'
    BY <1>11, SessionsAssumption DEF ReadFails
<1>12. ASSUME NEW c \in Conns, RemoveSession(c) PROVE RegisteredIsLive'
    BY <1>12, SessionsAssumption DEF RemoveSession
<1>13. ASSUME NEW c \in Conns, WriterEnds(c) PROVE RegisteredIsLive'
    BY <1>13, SessionsAssumption DEF WriterEnds
<1>14. ASSUME NEW c \in Conns, PeerDrops(c) PROVE RegisteredIsLive'
    BY <1>14, SessionsAssumption DEF PeerDrops
<1>15. ASSUME NEW c \in Conns, StopCloses(c) PROVE RegisteredIsLive'
    BY <1>15, SessionsAssumption DEF StopCloses
<1>16. ASSUME NEW c \in Conns, NEW p \in Probes, ReadsReply(c, p) PROVE RegisteredIsLive'
    BY <1>16, SessionsAssumption DEF ReadsReply
<1>17. CASE StopClears
    BY <1>17, SessionsAssumption DEF StopClears, Registered
<1>18. CASE StopCancels
    BY <1>18, SessionsAssumption DEF StopCancels
<1>19. CASE StopListener
    BY <1>19, SessionsAssumption DEF StopListener
<1>20. ASSUME NEW r \in Renames, RenameRoster(r) PROVE RegisteredIsLive'
    BY <1>20, SessionsAssumption DEF RenameRoster
<1>21. ASSUME NEW r \in Renames, RenameSession(r) PROVE RegisteredIsLive'
    BY <1>21, SessionsAssumption DEF RenameSession
<1>22. ASSUME NEW p \in Probes, ProbeStarts(p) PROVE RegisteredIsLive'
    BY <1>22, SessionsAssumption DEF ProbeStarts
<1>23. ASSUME NEW p \in Probes, ProbeSends(p) PROVE RegisteredIsLive'
    BY <1>23, SessionsAssumption DEF ProbeSends
<1>24. ASSUME NEW p \in Probes, ProbeHears(p) PROVE RegisteredIsLive'
    BY <1>24, SessionsAssumption DEF ProbeHears
<1>25. ASSUME NEW p \in Probes, ProbeTimesOut(p) PROVE RegisteredIsLive'
    BY <1>25, SessionsAssumption DEF ProbeTimesOut
<1>26. CASE UNCHANGED vars
    BY <1>26 DEF vars
<1>27. QED
    BY <1>1, <1>2, <1>3, <1>4, <1>5, <1>6, <1>7, <1>8, <1>9, <1>10, <1>11, <1>12, <1>13, <1>14, <1>15, <1>16, <1>17, <1>18, <1>19, <1>20, <1>21, <1>22, <1>23, <1>24, <1>25, <1>26 DEF Next

\* Every step keeps at most one reply per probe.
LEMMA OneReplyStep == TypeOK /\ OneReplyPerProbe /\ [Next]_vars => OneReplyPerProbe'
<1> SUFFICES ASSUME TypeOK, OneReplyPerProbe, [Next]_vars PROVE OneReplyPerProbe'
    OBVIOUS
<1> USE DEF connVars, renameVars, stopVars, probeVars
<1> USE DEF TypeOK, OneReplyPerProbe, Goto
<1>1. ASSUME NEW c \in Conns, Admit(c) PROVE OneReplyPerProbe'
    BY <1>1 DEF Admit
<1>2. ASSUME NEW c \in Conns, Authenticate(c) PROVE OneReplyPerProbe'
    BY <1>2 DEF Authenticate
<1>3. ASSUME NEW c \in Conns, Reject(c) PROVE OneReplyPerProbe'
    BY <1>3 DEF Reject
<1>4. ASSUME NEW c \in Conns, Welcome(c) PROVE OneReplyPerProbe'
    BY <1>4 DEF Welcome
<1>5. ASSUME NEW c \in Conns, AddSession(c) PROVE OneReplyPerProbe'
    BY <1>5 DEF AddSession
<1>6. ASSUME NEW c \in Conns, StartLoops(c) PROVE OneReplyPerProbe'
    BY <1>6 DEF StartLoops
<1>7. ASSUME NEW c \in Conns, CloseReplaced(c) PROVE OneReplyPerProbe'
    BY <1>7 DEF CloseReplaced
<1>8. ASSUME NEW c \in Conns, ReaderChecks(c) PROVE OneReplyPerProbe'
    BY <1>8 DEF ReaderChecks
<1>9. ASSUME NEW c \in Conns, ReadsFrame(c) PROVE OneReplyPerProbe'
    BY <1>9 DEF ReadsFrame
<1>10. ASSUME NEW c \in Conns, DeliversReply(c) PROVE OneReplyPerProbe'
    BY <1>10 DEF DeliversReply
<1>11. ASSUME NEW c \in Conns, ReadFails(c) PROVE OneReplyPerProbe'
    BY <1>11 DEF ReadFails
<1>12. ASSUME NEW c \in Conns, RemoveSession(c) PROVE OneReplyPerProbe'
    BY <1>12 DEF RemoveSession
<1>13. ASSUME NEW c \in Conns, WriterEnds(c) PROVE OneReplyPerProbe'
    BY <1>13 DEF WriterEnds
<1>14. ASSUME NEW c \in Conns, PeerDrops(c) PROVE OneReplyPerProbe'
    BY <1>14 DEF PeerDrops
<1>15. ASSUME NEW c \in Conns, StopCloses(c) PROVE OneReplyPerProbe'
    BY <1>15 DEF StopCloses
<1>16. ASSUME NEW c \in Conns, NEW p \in Probes, ReadsReply(c, p) PROVE OneReplyPerProbe'
    BY <1>16 DEF ReadsReply
<1>17. CASE StopClears
    BY <1>17 DEF StopClears
<1>18. CASE StopCancels
    BY <1>18 DEF StopCancels
<1>19. CASE StopListener
    BY <1>19 DEF StopListener
<1>20. ASSUME NEW r \in Renames, RenameRoster(r) PROVE OneReplyPerProbe'
    BY <1>20 DEF RenameRoster
<1>21. ASSUME NEW r \in Renames, RenameSession(r) PROVE OneReplyPerProbe'
    BY <1>21 DEF RenameSession
<1>22. ASSUME NEW p \in Probes, ProbeStarts(p) PROVE OneReplyPerProbe'
    BY <1>22 DEF ProbeStarts
<1>23. ASSUME NEW p \in Probes, ProbeSends(p) PROVE OneReplyPerProbe'
    BY <1>23 DEF ProbeSends
<1>24. ASSUME NEW p \in Probes, ProbeHears(p) PROVE OneReplyPerProbe'
    BY <1>24 DEF ProbeHears
<1>25. ASSUME NEW p \in Probes, ProbeTimesOut(p) PROVE OneReplyPerProbe'
    BY <1>25 DEF ProbeTimesOut
<1>26. CASE UNCHANGED vars
    BY <1>26 DEF vars
<1>27. QED
    BY <1>1, <1>2, <1>3, <1>4, <1>5, <1>6, <1>7, <1>8, <1>9, <1>10, <1>11, <1>12, <1>13, <1>14, <1>15, <1>16, <1>17, <1>18, <1>19, <1>20, <1>21, <1>22, <1>23, <1>24, <1>25, <1>26 DEF Next

\* Every step keeps the probes accounted for.
LEMMA AccountedStep == TypeOK /\ OneReplyPerProbe /\ ProbesAccounted /\ [Next]_vars => ProbesAccounted'
<1> SUFFICES ASSUME TypeOK, OneReplyPerProbe, ProbesAccounted, [Next]_vars PROVE ProbesAccounted'
    OBVIOUS
<1> USE DEF connVars, renameVars, stopVars, probeVars
<1> USE DEF TypeOK, OneReplyPerProbe, ProbesAccounted, Goto
<1>1. ASSUME NEW c \in Conns, Admit(c) PROVE ProbesAccounted'
    BY <1>1 DEF Admit
<1>2. ASSUME NEW c \in Conns, Authenticate(c) PROVE ProbesAccounted'
    BY <1>2 DEF Authenticate
<1>3. ASSUME NEW c \in Conns, Reject(c) PROVE ProbesAccounted'
    BY <1>3 DEF Reject
<1>4. ASSUME NEW c \in Conns, Welcome(c) PROVE ProbesAccounted'
    BY <1>4 DEF Welcome
<1>5. ASSUME NEW c \in Conns, AddSession(c) PROVE ProbesAccounted'
    BY <1>5 DEF AddSession
<1>6. ASSUME NEW c \in Conns, StartLoops(c) PROVE ProbesAccounted'
    BY <1>6 DEF StartLoops
<1>7. ASSUME NEW c \in Conns, CloseReplaced(c) PROVE ProbesAccounted'
    BY <1>7 DEF CloseReplaced
<1>8. ASSUME NEW c \in Conns, ReaderChecks(c) PROVE ProbesAccounted'
    BY <1>8 DEF ReaderChecks
<1>9. ASSUME NEW c \in Conns, ReadsFrame(c) PROVE ProbesAccounted'
    BY <1>9 DEF ReadsFrame
<1>10. ASSUME NEW c \in Conns, DeliversReply(c) PROVE ProbesAccounted'
    BY <1>10 DEF DeliversReply
<1>11. ASSUME NEW c \in Conns, ReadFails(c) PROVE ProbesAccounted'
    BY <1>11 DEF ReadFails
<1>12. ASSUME NEW c \in Conns, RemoveSession(c) PROVE ProbesAccounted'
    BY <1>12 DEF RemoveSession
<1>13. ASSUME NEW c \in Conns, WriterEnds(c) PROVE ProbesAccounted'
    BY <1>13 DEF WriterEnds
<1>14. ASSUME NEW c \in Conns, PeerDrops(c) PROVE ProbesAccounted'
    BY <1>14 DEF PeerDrops
<1>15. ASSUME NEW c \in Conns, StopCloses(c) PROVE ProbesAccounted'
    BY <1>15 DEF StopCloses
<1>16. ASSUME NEW c \in Conns, NEW p \in Probes, ReadsReply(c, p) PROVE ProbesAccounted'
    BY <1>16 DEF ReadsReply
<1>17. CASE StopClears
    BY <1>17 DEF StopClears
<1>18. CASE StopCancels
    BY <1>18 DEF StopCancels
<1>19. CASE StopListener
    BY <1>19 DEF StopListener
<1>20. ASSUME NEW r \in Renames, RenameRoster(r) PROVE ProbesAccounted'
    BY <1>20 DEF RenameRoster
<1>21. ASSUME NEW r \in Renames, RenameSession(r) PROVE ProbesAccounted'
    BY <1>21 DEF RenameSession
<1>22. ASSUME NEW p \in Probes, ProbeStarts(p) PROVE ProbesAccounted'
    BY <1>22 DEF ProbeStarts
<1>23. ASSUME NEW p \in Probes, ProbeSends(p) PROVE ProbesAccounted'
    BY <1>23 DEF ProbeSends
<1>24. ASSUME NEW p \in Probes, ProbeHears(p) PROVE ProbesAccounted'
    BY <1>24 DEF ProbeHears
<1>25. ASSUME NEW p \in Probes, ProbeTimesOut(p) PROVE ProbesAccounted'
    BY <1>25 DEF ProbeTimesOut
<1>26. CASE UNCHANGED vars
    BY <1>26 DEF vars
<1>27. QED
    BY <1>1, <1>2, <1>3, <1>4, <1>5, <1>6, <1>7, <1>8, <1>9, <1>10, <1>11, <1>12, <1>13, <1>14, <1>15, <1>16, <1>17, <1>18, <1>19, <1>20, <1>21, <1>22, <1>23, <1>24, <1>25, <1>26 DEF Next

-----------------------------------------------------------------------------
\* The four invariants hold together in every reachable state.
LEMMA SessionsInvariant ==
    Spec => [](TypeOK /\ RegisteredIsLive /\ OneReplyPerProbe /\ ProbesAccounted)
<1> DEFINE Inv == TypeOK /\ RegisteredIsLive /\ OneReplyPerProbe /\ ProbesAccounted
<1>1. Init => Inv
  <2>1. Init => RegisteredIsLive
    BY DEF Init, RegisteredIsLive
  <2>2. Init => OneReplyPerProbe /\ ProbesAccounted
    BY DEF Init, OneReplyPerProbe, ProbesAccounted
  <2>3. QED
    BY <2>1, <2>2, InitTypeOK
<1>2. Inv /\ [Next]_vars => Inv'
    BY TypeOKStep, RegisteredStep, OneReplyStep, AccountedStep
<1>3. QED
    BY <1>1, <1>2, PTL DEF Spec

\* The state of every handler, writer, rename, probe and of Hub.Disconnect
\* stays within its type.
THEOREM SessionsTypeCorrect == Spec => []TypeOK
BY SessionsInvariant, PTL

\* Hub.sessions: whatever number of connections of a server replace each other
\* while Disconnect runs, the map never holds a session whose handler ended.
THEOREM NoZombieInTheMap == Spec => []RegisteredIsLive
BY SessionsInvariant, PTL

\* pendingTests.deliver: no read loop blocks on a reply channel, for any
\* number of concurrent probes and late replies.
LEMMA RepliesNeverBlock == Spec => []ReaderNeverBlocked
<1>1. OneReplyPerProbe => ReaderNeverBlocked
    BY SessionsAssumption DEF OneReplyPerProbe, ReaderNeverBlocked, HasRoom
<1>2. QED
    BY <1>1, SessionsInvariant, PTL

\* Hub.TestAgent: whichever replies are late, lost or repeated, no reader is
\* stuck, no probe leaks from pendingTests and no reply is lost there.
THEOREM ProbesNeverStick == Spec => []ProbesSettle
<1>1. ReaderNeverBlocked /\ ProbesAccounted => ProbesSettle
    BY DEF ProbesSettle
<1>2. QED
    BY <1>1, RepliesNeverBlock, SessionsInvariant, PTL

\* removeSession: the late end of a replaced session never unregisters the
\* session that replaced it.
THEOREM OldEndsLeaveNewAlone == Spec => OnlyOwnEndRemoves
<1> DEFINE Removal == \A k \in Keys : sessions[k] # None /\ sessions'[k] = None
                          => pc[sessions[k]] = "returned" \/ stop' # stop
<1>1. TypeOK /\ [Next]_vars => [Removal]_vars
  <2> SUFFICES ASSUME TypeOK, Next PROVE Removal
      OBVIOUS
  <2> USE DEF connVars
  <2>1. ASSUME NEW c \in Conns, AddSession(c) PROVE Removal
      BY <2>1, SessionsAssumption DEF AddSession, TypeOK
  <2>2. ASSUME NEW c \in Conns, RemoveSession(c) PROVE Removal
      BY <2>2, SessionsAssumption DEF RemoveSession, TypeOK
  <2>3. CASE StopClears
      BY <2>3 DEF StopClears
  <2>4. CASE UNCHANGED sessions
      BY <2>4
  <2>5. QED
      BY <2>1, <2>2, <2>3, <2>4 DEF Next, Admit, Authenticate, Reject, Welcome,
         StartLoops, CloseReplaced, ReaderChecks, ReadsFrame, ReadsReply,
         DeliversReply, ReadFails, WriterEnds, PeerDrops, StopCloses, StopCancels,
         StopListener, RenameRoster, RenameSession, ProbeStarts, ProbeSends,
         ProbeHears, ProbeTimesOut
<1>2. QED
    BY <1>1, SessionsInvariant, PTL DEF Spec, OnlyOwnEndRemoves
=============================================================================
