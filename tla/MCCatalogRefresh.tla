-------------------------- MODULE MCCatalogRefresh --------------------------
(* Pages of one asset.  Where sweeps are checked, a Live Photo 1 with its     *)
(* motion part 2 and an asset 3 others change; where the cursor is, two       *)
(* assets of which this client uploads, trashes and restores one.             *)
EXTENDS CatalogRefresh

LivePhotos == [a \in Assets |-> IF a = 1 THEN 2 ELSE None]
NoMotion == [a \in Assets |-> None]
NoAssets == {}
Three == {1, 2, 3}
One == {1}
Two == {1, 2}
=============================================================================
