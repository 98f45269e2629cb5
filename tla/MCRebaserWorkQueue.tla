------------------------- MODULE MCRebaserWorkQueue -------------------------
(* Model-checking instance of RebaserWorkQueue: two instances compete for  *)
(* two requests, one of which is malformed.                                *)
EXTENDS RebaserWorkQueue

CONSTANTS i1, i2, r1, r2

MCInstances == {i1, i2}
MCRequests == {r1, r2}
=============================================================================
