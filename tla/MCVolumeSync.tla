---------------------------- MODULE MCVolumeSync ----------------------------
(* Small instances of the volume catalog for TLC.                          *)
EXTENDS VolumeSync, TLC

CONSTANTS s1, s2, e1

MCOneReader == {s1}
MCTwoReaders == {s1, s2}
MCNobody == {}
MCOneEditor == {e1}
MCReaderSymmetry == Permutations({s1, s2})
=============================================================================
