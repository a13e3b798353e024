---------------------------- MODULE MCChatRelay ----------------------------
(* Values for the constants of ChatRelay.                                  *)
EXTENDS ChatRelay, TLC

CONSTANTS ooc, long, cut, hi, test, testClean, junk

Linked   == [enabled |-> TRUE, cross |-> TRUE, discord |-> TRUE]
Unlinked == [enabled |-> TRUE, cross |-> FALSE, discord |-> FALSE]
Off      == [enabled |-> FALSE, cross |-> TRUE, discord |-> TRUE]

MCTables == {ooc :> Linked, ooc :> Unlinked, ooc :> Off}
MCAgentChannels == [s \in Servers |-> {ooc}]
\* A message is trimmed before it is cut to its maximal length, so that one
\* cut after a space loses that space when it is sanitized again.  The test
\* line's name holds spaces, which sanitize.Name drops; a name of nothing but
\* such characters becomes blank.
MCSanitize == (long :> cut) @@ (cut :> hi) @@ (hi :> hi) @@ (test :> testClean)
              @@ (testClean :> testClean) @@ (junk :> Blank)
MCSayable == [p \in Publishers |-> {long, junk}]
\* The world NoFeedback is about.
ASSUME QuietInstance == QuietWorld
=============================================================================
