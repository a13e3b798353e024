--------------------------- MODULE MCRegistration ---------------------------
EXTENDS Registration

CONSTANTS u1, u2, c1, c2

\* u2 has an IGN: role.
MCRoles == [u \in Users |-> IF u = u2 THEN c2 ELSE Nobody]
MCRoutes == {[anyone |-> TRUE, target |-> "telnet"], [anyone |-> FALSE, target |-> "relay"]}
=============================================================================
