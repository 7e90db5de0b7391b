---------------------------- MODULE MCRequestPath ----------------------------
(* A small instance of the request path for TLC.                           *)
EXTENDS RequestPath, TLC

CONSTANTS r1, r2, c1, c2

(* Which slot a request has, and which address, makes no difference.       *)
Symmetry == Permutations({r1, r2}) \cup Permutations({c1, c2})
=============================================================================
