---------------------------- MODULE LossyChannel ----------------------------
(***************************************************************************)
(* What an agent's link promises for chat.  A line that was published may  *)
(* be lost, at any time and silently; it arrives once at most, over one of *)
(* the lanes the link has had, and the lines of a lane arrive in the order *)
(* of publication.  A lane may be slower than the one that replaced it.    *)
(* There is no queue, session or writer here.                              *)
(***************************************************************************)
EXTENDS Naturals

CONSTANT Lanes

VARIABLES
    sent,       \* number of the line published last
    transit,    \* lines that may still arrive
    got         \* per lane, number of the line that arrived last

vars == <<sent, transit, got>>

Init == sent = 0 /\ transit = {} /\ got = [l \in Lanes |-> 0]

\* A line is published; it or others may be lost for it.
Publish ==
    /\ sent' = sent + 1
    /\ transit' \in SUBSET (transit \cup {sent + 1})
    /\ got' = got

\* A line arrives, behind what arrived over its lane.
Deliver(l) ==
    \E n \in transit :
        /\ n > got[l]
        /\ got' = [got EXCEPT ![l] = n]
        /\ transit' = transit \ {n}
        /\ sent' = sent

Lose ==
    /\ transit' \in SUBSET transit
    /\ UNCHANGED <<sent, got>>

Next == Publish \/ (\E l \in Lanes : Deliver(l)) \/ Lose

Spec == Init /\ [][Next]_vars
=============================================================================
