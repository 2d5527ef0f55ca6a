------------------------- MODULE MCNautilusEmblems -------------------------
(* Files a and b of one profile, which share a batch, and a file c of another *)
(* profile whose URI is too large for any request.                            *)
EXTENDS NautilusEmblems

CONSTANTS a, b, c

TwoProfiles == [f \in Files |-> IF f = c THEN "work" ELSE "home"]
LargeC == {c}
=============================================================================
