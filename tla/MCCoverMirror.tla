---------------------------- MODULE MCCoverMirror ----------------------------
(* Small instances of the cover mirror for TLC.                            *)
EXTENDS CoverMirror, TLC

CONSTANTS w1, w2, u1, c1, c2, i1, i2, t1, t2

OneImage == c1 :> i1
OneImageEach == c1 :> i1 @@ c2 :> i2
SameThumb == i1 :> t1 @@ i2 :> t1
OwnThumbs == i1 :> t1 @@ i2 :> t2

=============================================================================
