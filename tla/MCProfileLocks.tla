--------------------------- MODULE MCProfileLocks ---------------------------
(* Two profiles, a directory with another one below it, and one beside them. *)
EXTENDS ProfileLocks

CONSTANTS a, ab, c, m1, m2

MCPaths == {a, ab, c}
MCAbove == [p \in Paths |-> IF p = ab THEN <<a>> ELSE <<>>]
MCTarget == [m \in Mounts |-> IF m = m1 THEN a ELSE c]
=============================================================================
