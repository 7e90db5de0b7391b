----------------------------- MODULE MCCatalog -----------------------------
(* Instances of Catalog for TLC.                                           *)
EXTENDS Catalog, TLC

CONSTANTS r1, r2, m1, m2, l1, c1, c2

MCPair == {r1, r2}
MCOne == {m1}
MCBoth == {m1, m2}
MCLocal == {l1}
MCNone == {}
MCCreators == {c1, c2}
MCCrossed == m1 :> <<c1, c2>> @@ m2 :> <<c2, c1>>
MCAlone == m1 :> <<c1, c1>>
MCSearch == {<<m1>>, <<m2>>, <<m1, m2>>}
MCSingle == {<<m1>>}
MCSymmetry == Permutations(MCPair)
=============================================================================
