----------------------------- MODULE MCSchematic -----------------------------
(* Three create_node calls and one system.                                 *)
EXTENDS Schematic

CONSTANTS r1, r2, r3

MCRequests == {r1, r2, r3}

=============================================================================
