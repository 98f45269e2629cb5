---------------------------- MODULE MCLayerCache ----------------------------
(* Model-checking instance of LayerCache: two callers, two keys.           *)
EXTENDS LayerCache

CONSTANTS c1, c2, k1, k2, v1, v2

MCCallers == {c1, c2}
MCKeys == {k1, k2}
MCValues == {v1, v2}
\* Content-addressed keys: each key has one value.
ContentAddressed == [k \in MCKeys |-> IF k = k1 THEN v1 ELSE v2]
=============================================================================
