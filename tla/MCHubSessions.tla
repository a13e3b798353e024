--------------------------- MODULE MCHubSessions ---------------------------
(* Values for the constants of HubSessions.                                *)
EXTENDS HubSessions, TLC

CONSTANTS c1, c2, k1, k2, r1, old, new

\* Both connections are the same server's: the second replaces the first.
OneServer == (c1 :> k1) @@ (c2 :> k1)
MCProbeOf == [p \in Probes |-> k1]
MCRenameTo == [r \in Renames |-> [key |-> k1, name |-> new]]
=============================================================================
