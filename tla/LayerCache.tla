----------------------------- MODULE LayerCache -----------------------------
(***************************************************************************)
(* The tiered cache of si-layer-cache, modelled from spec.md section 4.1   *)
(* (the LayerCache implementation is not among the sources; its tests in   *)
(* tests/integration_test/layer_cache.rs are).                             *)
(*                                                                         *)
(* One process's memory and disk tiers in front of the fleet-shared        *)
(* durable store. get(k) looks in memory, then disk (promoting into        *)
(* memory), then the store (promoting into disk and memory); insert(k, v)  *)
(* writes memory, disk and the store, and succeeds only when the store     *)
(* write does. Neither the spec nor the sources fix the order of the     *)
(* three writes; the model takes memory, disk, store, and ReadYourWrites   *)
(* rests only on Ok following the store write. Every tier access is a     *)
(* suspension point, so calls of several callers interleave between       *)
(* tiers. Replacing the process empties the memory tier; replacing its    *)
(* host empties the disk tier too.                                       *)
(***************************************************************************)
EXTENDS Naturals, Sequences, FiniteSets

CONSTANTS
    Callers,        \* concurrent callers of one LayerCache
    Keys,
    Values,
    Absent,         \* "not in this tier"
    ValueOf,        \* content addressing: the one value a key can have,
                    \* or Absent when a key may take any value
    MaxInserts,     \* insert calls in a behaviour
    MaxReplacements,\* process or host replacements in a behaviour
    StoreFailures   \* may a store write fail?

ASSUME ValueOf \in [Keys -> Values \cup {Absent}]
ASSUME StoreFailures \in BOOLEAN

VARIABLES
    mem, disk, store,   \* the three tiers: Keys -> Values \cup {Absent}
    pc,                 \* caller: "idle", "disk", "store", "promote",
                        \*   "insDisk", "insStore"
    op,                 \* the caller's call: [key, val, after], after: a get
                        \*   begun once an insert of its key had returned Ok
    inserted,           \* keys with an insert that returned Ok
    results,            \* history: <<key, result, after>> of finished gets
    inserts, replacements

vars == <<mem, disk, store, pc, op, inserted, results,
          inserts, replacements>>

Tiers == <<mem, disk, store>>

NotFound == "NotFound"
Error == "Error"

CanTake(k) == IF ValueOf[k] = Absent THEN Values ELSE {ValueOf[k]}

-----------------------------------------------------------------------------
(* Mutants, each a plausible slip in the cache.                           *)

\* the store write handed to a background task whose failure nobody sees:
\* insert returns Ok once disk is written.
InsertStoreDetached(c) ==
    /\ pc[c] = "insDisk"
    /\ disk' = [disk EXCEPT ![op[c].key] = op[c].val]
    /\ inserted' = inserted \cup {op[c].key}
    /\ pc' = [pc EXCEPT ![c] = "idle"]
    /\ UNCHANGED <<mem, store, op, results, inserts, replacements>>

\* the store's miss not told apart from a hit.
GetStorePromotesMiss(c) ==
    /\ pc[c] = "store"
    /\ op' = [op EXCEPT ![c].val = store[op[c].key]]
    /\ pc' = [pc EXCEPT ![c] = "promote"]
    /\ UNCHANGED <<Tiers, inserted, results, inserts, replacements>>

-----------------------------------------------------------------------------
Init ==
    /\ mem = [k \in Keys |-> Absent]
    /\ disk = [k \in Keys |-> Absent]
    /\ store = [k \in Keys |-> Absent]
    /\ pc = [c \in Callers |-> "idle"]
    /\ op = [c \in Callers |->
               [key |-> CHOOSE k \in Keys : TRUE, val |-> Absent, after |-> FALSE]]
    /\ inserted = {}
    /\ results = {}
    /\ inserts = 0
    /\ replacements = 0

Finish(c, k, r, after) ==
    /\ pc' = [pc EXCEPT ![c] = "idle"]
    /\ results' = results \cup {<<k, r, after>>}

(* get(k) begins with the memory tier: a hit returns without I/O.          *)
GetMem(c, k) ==
    /\ pc[c] = "idle"
    /\ op' = [op EXCEPT ![c] = [key |-> k, val |-> Absent, after |-> k \in inserted]]
    /\ IF mem[k] # Absent
         THEN Finish(c, k, mem[k], k \in inserted)
         ELSE /\ pc' = [pc EXCEPT ![c] = "disk"]
              /\ UNCHANGED results
    /\ UNCHANGED <<Tiers, inserted, inserts, replacements>>

(* get: the disk tier. An I/O error is returned, not treated as a miss; a  *)
(* hit is deserialized, written into memory and returned.                  *)
GetDisk(c) ==
    LET k == op[c].key IN
    /\ pc[c] = "disk"
    /\ \/ Finish(c, k, Error, op[c].after) /\ UNCHANGED mem
       \/ /\ disk[k] # Absent
          /\ mem' = [mem EXCEPT ![k] = disk[k]]
          /\ Finish(c, k, disk[k], op[c].after)
       \/ /\ disk[k] = Absent
          /\ pc' = [pc EXCEPT ![c] = "store"]
          /\ UNCHANGED <<mem, results>>
    /\ UNCHANGED <<disk, store, op, inserted, inserts, replacements>>

(* get: the durable store round trip. An error is returned; a miss in all  *)
(* three tiers is NotFound; a hit is carried to the promotion.             *)
GetStore(c) ==
    LET k == op[c].key IN
    /\ pc[c] = "store"
    /\ \/ Finish(c, k, Error, op[c].after) /\ UNCHANGED op
       \/ store[k] = Absent /\ Finish(c, k, NotFound, op[c].after) /\ UNCHANGED op
       \/ /\ store[k] # Absent
          /\ op' = [op EXCEPT ![c].val = store[k]]
          /\ pc' = [pc EXCEPT ![c] = "promote"]
          /\ UNCHANGED results
    /\ UNCHANGED <<Tiers, inserted, inserts, replacements>>

(* get: the value read from the store is written into disk (serialized)    *)
(* and memory, and returned.                                               *)
Promote(c) ==
    LET k == op[c].key IN
    /\ pc[c] = "promote"
    /\ disk' = [disk EXCEPT ![k] = op[c].val]
    /\ mem' = [mem EXCEPT ![k] = op[c].val]
    /\ Finish(c, k, op[c].val, op[c].after)
    /\ UNCHANGED <<store, op, inserted, inserts, replacements>>

(* insert(k, v) begins with the memory tier.                               *)
InsertMem(c, k, v) ==
    /\ pc[c] = "idle"
    /\ inserts < MaxInserts
    /\ v \in CanTake(k)
    /\ inserts' = inserts + 1
    /\ op' = [op EXCEPT ![c] = [key |-> k, val |-> v, after |-> FALSE]]
    /\ mem' = [mem EXCEPT ![k] = v]
    /\ pc' = [pc EXCEPT ![c] = "insDisk"]
    /\ UNCHANGED <<disk, store, inserted, results, replacements>>

(* insert: the disk tier (best effort: a failure is logged).               *)
InsertDisk(c) ==
    /\ pc[c] = "insDisk"
    /\ \E ok \in BOOLEAN :
         disk' = IF ok THEN [disk EXCEPT ![op[c].key] = op[c].val] ELSE disk
    /\ pc' = [pc EXCEPT ![c] = "insStore"]
    /\ UNCHANGED <<mem, store, op, inserted, results, inserts, replacements>>

(* insert: the durable store write, the durability boundary: insert        *)
(* returns Ok only when it succeeds, and an error otherwise.               *)
InsertStore(c) ==
    /\ pc[c] = "insStore"
    /\ \/ /\ store' = [store EXCEPT ![op[c].key] = op[c].val]
          /\ inserted' = inserted \cup {op[c].key}
       \/ StoreFailures /\ UNCHANGED <<store, inserted>>
    /\ pc' = [pc EXCEPT ![c] = "idle"]
    /\ UNCHANGED <<mem, disk, op, results, inserts, replacements>>

(* The process is replaced (memory lost) or its host too (disk lost).      *)
Replace ==
    /\ replacements < MaxReplacements
    /\ \A c \in Callers : pc[c] = "idle"
    /\ replacements' = replacements + 1
    /\ mem' = [k \in Keys |-> Absent]
    /\ \/ disk' = [k \in Keys |-> Absent]
       \/ UNCHANGED disk
    /\ UNCHANGED <<store, pc, op, inserted, results, inserts>>

Next ==
    \/ \E c \in Callers :
         \/ \E k \in Keys : GetMem(c, k) \/ \E v \in Values : InsertMem(c, k, v)
         \/ GetDisk(c) \/ GetStore(c) \/ Promote(c)
         \/ InsertDisk(c) \/ InsertStore(c)
    \/ Replace

Spec == Init /\ [][Next]_vars

-----------------------------------------------------------------------------
TypeOK ==
    /\ mem \in [Keys -> Values \cup {Absent}]
    /\ disk \in [Keys -> Values \cup {Absent}]
    /\ store \in [Keys -> Values \cup {Absent}]
    /\ pc \in [Callers -> {"idle", "disk", "store", "promote", "insDisk", "insStore"}]
    /\ \A c \in Callers : pc[c] = "promote" => op[c].val \in Values
    /\ inserted \subseteq Keys
    /\ results \subseteq Keys \X (Values \cup {NotFound, Error}) \X BOOLEAN

(* spec.md section 8: once insert(k, v) has returned Ok, a get(k) begun    *)
(* afterwards returns a value, never NotFound, whatever the tiers lost.    *)
ReadYourWrites ==
    \A r \in results : r[3] => r[2] # NotFound
=============================================================================
