--------------------------- MODULE MCResponseCache ---------------------------
(* Small instances of the response cache for TLC.                          *)
EXTENDS ResponseCache, TLC

CONSTANTS r1, r2, list, volumes, moreVolumes

MCRequests == {r1, r2}
MCPages == {list, volumes, moreVolumes}
MCPathOf == [p \in MCPages |-> IF p = list THEN "/mangas" ELSE "/mangas/x/volumes"]
MCPopular == {list}
MCSymmetry == Permutations(MCRequests) \cup Permutations({volumes, moreVolumes})
=============================================================================
