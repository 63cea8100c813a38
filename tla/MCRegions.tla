------------------------------- MODULE MCRegions -------------------------------
(* Regions with pages and nodes that TLC may exchange: no page is the first,  *)
(* and no node but the strokes is told from another.                          *)
EXTENDS Regions

Renamings == Permutations(Pages) \cup Permutations(Nodes \ Strokes)
=============================================================================
