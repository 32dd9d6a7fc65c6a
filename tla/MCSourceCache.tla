--------------------------- MODULE MCSourceCache ---------------------------
(* An instance of SourceCache for TLC: three lanes of a run and two keys,  *)
(* so that one key can be pending while another is done or has failed.     *)
EXTENDS SourceCache

CONSTANTS a, b, c, k1, k2

ThreeLanes == {a, b, c}
TwoKeys    == {k1, k2}
=============================================================================
