------------------------------ MODULE WorkQueue ------------------------------
(***************************************************************************)
(* What the rebaser-requests work queue promises its users (spec.md        *)
(* sections 4.6 and 8), stated without instances, acks or timers:          *)
(*                                                                         *)
(*  - a published item joins the queue;                                    *)
(*  - a consumer may hand a queued item to its rebaser, once or again;     *)
(*  - the queue removes an item only once it has been handed over, or when *)
(*    it is poison (bytes no consumer can decode, dropped with a log);     *)
(*  - a poison item is never handed over, and nothing leaves "removed".    *)
(*                                                                         *)
(* Duplicates are allowed here: whether they happen is a separate          *)
(* question (AtMostOnceRebased in RebaserWorkQueue).                       *)
(***************************************************************************)
CONSTANTS
    Items,      \* work items (model values)
    Poison      \* items a consumer cannot decode

VARIABLES
    queue,      \* items stored and not yet removed
    handed,     \* items handed to some consumer's rebaser at least once
    removed     \* items the queue has deleted

vars == <<queue, handed, removed>>

Init ==
    /\ queue = {}
    /\ handed = {}
    /\ removed = {}

Enqueue(m) ==
    /\ m \notin queue \cup removed
    /\ queue' = queue \cup {m}
    /\ UNCHANGED <<handed, removed>>

Hand(m) ==
    /\ m \in queue \ Poison
    /\ handed' = handed \cup {m}
    /\ UNCHANGED <<queue, removed>>

Remove(m) ==
    /\ m \in queue
    /\ m \in handed \cup Poison
    /\ queue' = queue \ {m}
    /\ removed' = removed \cup {m}
    /\ UNCHANGED handed

Next == \E m \in Items : Enqueue(m) \/ Hand(m) \/ Remove(m)

Spec == Init /\ [][Next]_vars
=============================================================================
