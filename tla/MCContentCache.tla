--------------------------- MODULE MCContentCache ---------------------------
(* Two assets: a managed one whose size never changes, so that only its hash  *)
(* tells its versions apart, and one of an external library that shrinks.     *)
EXTENDS ContentCache

CONSTANTS managed, external

BothAssets == {managed, external}
OneManaged == {managed}
MCVersions == {1, 2}
MCSizes == [a \in Assets |-> IF a = managed THEN <<1, 1>> ELSE <<2, 1>>]
=============================================================================
