------------------------------ MODULE Schematic ------------------------------
(***************************************************************************)
(* Node creation on the schematic (sdf schematic/create_node.rs, with      *)
(* dal System::new_with_node). create_node runs in one database            *)
(* transaction: it checks the schema kind against the parent node, creates *)
(* the component and its node, adds it to a system, writes the node's      *)
(* positions, and commits. Any `?` returns an error and the transaction is *)
(* dropped. After the commit it spawns one detached task that drives the   *)
(* dependent-value tasks with select_all, logging each failure and going   *)
(* on with the others, and answers before they finish.                     *)
(*                                                                         *)
(* Reads inside a transaction see what other transactions have committed   *)
(* plus its own writes; nothing here deletes a node.                       *)
(***************************************************************************)
EXTENDS Naturals, FiniteSets

CONSTANTS
    Requests,       \* create_node calls (model values)
    None,           \* no parent node / no system
    MaxNodes,       \* node ids the database hands out
    MaxSystems      \* systems created with new_with_node

NodeIds == 1..MaxNodes
SystemIds == 1..MaxSystems
SchematicKinds == {"Component", "Deployment"}
NodeKinds == {"Component", "Deployment", "System"}
Tasks == {"values", "system"}

VARIABLES
    nodes,      \* committed nodes: [id, kind, parent]
    positions,  \* committed positions: <<node id, schematic panel>>
    members,    \* committed system membership: <<node id, system id>>
    systems,    \* systems created so far
    nextId,     \* the node id sequence
    pc,         \* request: "idle", "positions", "commit", "done", "failed"
    buf,        \* request: the node written in its transaction
    bufPos,     \* request: the positions written in its transaction
    sys,        \* request: the system_id it passed
    pending,    \* dependent-value tasks spawned and not yet run: <<req, task>>
    attempted   \* history: tasks run, successfully or not

vars == <<nodes, positions, members, systems, nextId, pc, buf, bufPos, sys,
          pending, attempted>>

Committed == <<nodes, positions, members, systems, nextId>>

NoNode == [id |-> 0, kind |-> "Component", parent |-> None]

NodeById(id) == {n \in nodes : n.id = id}

(* The positions create_node writes for a new node: its own panel, and for *)
(* a deployment also the component panel inside it.                        *)
PositionsFor(n) ==
    {<<n.id, n.kind>>} \cup
        IF n.kind = "Deployment" THEN {<<n.id, "Component">>} ELSE {}

(* CreateNodeRequest, as far as create_node branches on it: the kind of    *)
(* the schema named by schema_id, parent_node_id and system_id. The        *)
(* position x, y, the workspace and the visibility are data.               *)
CreateNodeRequest ==
    [kind : SchematicKinds, parent_node_id : NodeIds \cup {None},
     system_id : SystemIds \cup {None}]

(* System::new: system_create_v1 inserts the system row in the caller's    *)
(* transaction.                                                            *)
SystemNew == systems' = systems + 1

-----------------------------------------------------------------------------
(* create_node's match on (schematic kind, parent_node_id): a component    *)
(* goes into an existing Deployment node, a deployment has no parent;      *)
(* every other pair is an error.                                           *)
ParentAccepted(k, p) ==
    \/ k = "Component" /\ p # None
       /\ \E n \in NodeById(p) : n.kind = "Deployment"
    \/ k = "Deployment" /\ p = None

-----------------------------------------------------------------------------
Init ==
    /\ nodes = {}
    /\ positions = {}
    /\ members = {}
    /\ systems = 0
    /\ nextId = 0
    /\ pc = [r \in Requests |-> "idle"]
    /\ buf = [r \in Requests |-> NoNode]
    /\ bufPos = [r \in Requests |-> {}]
    /\ sys = [r \in Requests |-> None]
    /\ pending = {}
    /\ attempted = {}

(* A `?` returned an error: the transaction is dropped with its writes.    *)
Fail(r) ==
    /\ pc' = [pc EXCEPT ![r] = "failed"]
    /\ buf' = [buf EXCEPT ![r] = NoNode]
    /\ bufPos' = [bufPos EXCEPT ![r] = {}]

-----------------------------------------------------------------------------
(* Mutant, a plausible slip in the code below.                           *)

-----------------------------------------------------------------------------
(* System::new_with_node: find the "system" schema and its default         *)
(* variant, create the system, set both, create a System node and attach   *)
(* it. The caller's transaction commits it; a failure leaves nothing.      *)
NewSystemWithNode ==
    /\ systems < MaxSystems /\ nextId < MaxNodes
    /\ SystemNew
    /\ nextId' = nextId + 1
    /\ nodes' = nodes \cup {[id |-> nextId + 1, kind |-> "System", parent |-> None]}
    /\ UNCHANGED <<positions, members, pc, buf, bufPos, sys, pending, attempted>>

(* create_node up to the positions: look up the schema and its default     *)
(* variant, check (kind, parent) (the parent must exist and be a           *)
(* Deployment), create the component with its node, and add it to the      *)
(* requested system. Each of these may fail.                               *)
CreateNode(r) ==
    /\ pc[r] = "idle"
    /\ \E req \in CreateNodeRequest :
       LET k == req.kind  p == req.parent_node_id  s == req.system_id IN
         /\ sys' = [sys EXCEPT ![r] = s]
         /\ \/ Fail(r) /\ UNCHANGED nextId
            \/ /\ ParentAccepted(k, p)
               /\ nextId < MaxNodes
               /\ nextId' = nextId + 1
               /\ buf' = [buf EXCEPT ![r] = [id |-> nextId + 1, kind |-> k, parent |-> p]]
               /\ \/ pc' = [pc EXCEPT ![r] = "positions"]
                  \/ Fail(r)
               /\ UNCHANGED bufPos
    /\ UNCHANGED <<nodes, positions, members, systems, pending, attempted>>

(* create_node: the node template, NodePosition::new and set_node for the *)
(* node, and for a deployment a second position for its component panel.  *)
WritePositions(r) ==
    /\ pc[r] = "positions"
    /\ \/ /\ bufPos' = [bufPos EXCEPT ![r] = PositionsFor(buf[r])]
          /\ pc' = [pc EXCEPT ![r] = "commit"]
          /\ UNCHANGED buf
       \/ Fail(r)
    /\ UNCHANGED <<Committed, sys, pending, attempted>>

(* create_node: txns.commit(); then spawn the task that runs the           *)
(* component's dependent-value tasks and those of add_to_system.           *)
Commit(r) ==
    /\ pc[r] = "commit"
    /\ \/ /\ nodes' = nodes \cup {buf[r]}
          /\ positions' = positions \cup bufPos[r]
          /\ members' = IF sys[r] = None THEN members
                        ELSE members \cup {<<buf[r].id, sys[r]>>}
          /\ pending' = pending \cup
               {<<r, t>> : t \in IF sys[r] = None THEN {"values"} ELSE Tasks}
          /\ pc' = [pc EXCEPT ![r] = "done"]
          /\ UNCHANGED <<buf, bufPos>>
       \/ Fail(r) /\ UNCHANGED <<nodes, positions, members, pending>>
    /\ UNCHANGED <<systems, nextId, sys, attempted>>

(* The spawned task: select_all yields whichever task finishes; an error  *)
(* is logged and the others go on.                                         *)
RunTask(r, t) ==
    /\ <<r, t>> \in pending
    /\ attempted' = attempted \cup {<<r, t>>}
    /\ pending' = pending \ {<<r, t>>}
    /\ UNCHANGED <<Committed, pc, buf, bufPos, sys>>

Next ==
    \/ NewSystemWithNode
    \/ \E r \in Requests :
         \/ CreateNode(r) \/ WritePositions(r) \/ Commit(r)
         \/ \E t \in Tasks : RunTask(r, t)

(* The spawned task is polled by the runtime until its futures are done.   *)
Spec == Init /\ [][Next]_vars
          /\ \A r \in Requests, t \in Tasks : WF_vars(RunTask(r, t))

-----------------------------------------------------------------------------
(* Every committed node, position and system membership is well formed:    *)
(* in particular create_node adds a node to a system only when the request *)
(* named one (the `if let Some(system_id)` before add_to_system).          *)
TypeOK ==
    /\ nodes \subseteq [id : NodeIds, kind : NodeKinds, parent : NodeIds \cup {None}]
    /\ positions \subseteq NodeIds \X SchematicKinds
    /\ members \subseteq NodeIds \X SystemIds
    /\ systems \in 0..MaxSystems /\ nextId \in 0..MaxNodes
    /\ pc \in [Requests -> {"idle", "positions", "commit", "done", "failed"}]
    /\ pending \subseteq Requests \X Tasks
    /\ attempted \subseteq Requests \X Tasks
=============================================================================
