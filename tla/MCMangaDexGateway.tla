------------------------- MODULE MCMangaDexGateway -------------------------
(* Small instances of the MangaDex gateway for TLC.                        *)
EXTENDS MangaDexGateway, TLC

CONSTANTS r1, r2, r3

MCRequests == {r1, r2, r3}
MCPair == {r1, r2}
MCNobody == {}

MCSymmetry == Permutations(MCRequests)
=============================================================================
