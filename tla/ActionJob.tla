------------------------------ MODULE ActionJob ------------------------------
(***************************************************************************)
(* One ActionJob (dal/src/job/definition/action.rs) running an action of a *)
(* component, handed to SyncProcessor::enqueue_job                         *)
(* (dal/src/job/processor/sync_processor.rs), which runs it inline and     *)
(* panics if run() returns an error: prepare_for_execution marks it Running and commits, the      *)
(* action function runs against the outside world, process_and_record_    *)
(* execution records the result and commits, ensure_deletes_happened and,  *)
(* for a Destroy action, the removal of components waiting to be deleted   *)
(* follow. Any `?` may fail; run() then calls process_failed_action, whose *)
(* own errors are only logged. The process may also die between any two    *)
(* steps.                                                                  *)
(*                                                                         *)
(* State is what the commits leave in the workspace: the action's state,   *)
(* the component's resource and existence, the dependent actions enqueued, *)
(* the func run's result, and what exists outside (the real resource).     *)
(***************************************************************************)
EXTENDS Naturals

CONSTANTS
    Kinds,          \* ActionKind values in play, "Create" and "Destroy"
    HandlerErrors   \* may process_failed_action's own steps fail?

ASSUME Kinds \subseteq {"Create", "Destroy"} /\ HandlerErrors \in BOOLEAN

(* What ActionPrototype::run returns: an error, no result, or a result     *)
(* with a resource status and maybe a payload.                             *)
Outcomes ==
    {[status |-> "error"], [status |-> "none"]}
      \cup [status : {"Ok", "Error"}, payload : BOOLEAN]

VARIABLES
    pc,         \* step of the job; "queued" before enqueue_job, "done" when
                \* run() returned Ok(Done), "error" when it returned an error
    kind,       \* the prototype's ActionKind
    outcome,    \* what the action function returned
    action,     \* committed: "Queued", "Running", "Failed", "Removed"
    resource,   \* committed: the component has a resource
    component,  \* committed: "present", "toDelete", "removed"
    dependents, \* committed: dependent actions enqueued
    view,       \* the action's state in the snapshot of run()'s own ctx
    funcRun,    \* the func run's action result: "none", "Failure"
    logged      \* history: process_failed_action returned an error

vars == <<pc, kind, outcome, action, resource, component, dependents,
          view, funcRun, logged>>

Workspace == <<action, resource, component, dependents>>

(* Committing a write to the action from a snapshot in which it still      *)
(* exists, after another commit removed it: the rebaser either drops the   *)
(* update or brings the node back.                                         *)
CommitActionState(st) ==
    action' \in IF action = "Removed" THEN {"Removed", st} ELSE {st}

-----------------------------------------------------------------------------
(* Mutants, each a plausible slip in the code below.                       *)

\* process_failed_action without the final commit.
FailedActionNoCommit ==
    /\ pc = "failed"
    /\ funcRun' = IF view # "Removed" THEN "Failure" ELSE funcRun
    /\ pc' = "done"
    /\ UNCHANGED <<kind, outcome, Workspace, view, logged>>

-----------------------------------------------------------------------------
Init ==
    /\ pc = "queued"
    /\ kind \in Kinds
    /\ outcome = [status |-> "none"]
    /\ action = "Queued"
    /\ resource \in BOOLEAN
    /\ component \in {"present", "toDelete"}
    /\ dependents = FALSE
    /\ view = "Queued"
    /\ funcRun = "none"
    /\ logged = FALSE

(* SyncProcessor::enqueue_job: the job is run inline, right away.          *)
EnqueueJob ==
    /\ pc = "queued"
    /\ pc' = "start"
    /\ UNCHANGED <<kind, outcome, Workspace, view, funcRun, logged>>

(* run(): an error out of inner_run goes to process_failed_action.         *)
Fail == pc' = "failed"

(* prepare_for_execution: look up the component and prototype, set the     *)
(* action Running in ctx, commit and refresh ctx's snapshot, look up the   *)
(* component again. Each step may fail; a failure before the commit leaves *)
(* Running uncommitted but in ctx.                                         *)
PrepareForExecution ==
    /\ pc = "start"
    /\ \/ Fail /\ UNCHANGED <<action, view>>
       \/ Fail /\ view' = "Running" /\ UNCHANGED action
       \/ /\ action' = "Running" /\ view' = "Running"
          /\ \/ Fail
             \/ pc' = "execute"
    /\ UNCHANGED <<kind, outcome, resource, component, dependents, funcRun, logged>>

(* inner_run: ActionPrototype::run executes the action function; it fails, *)
(* or returns no result, or a result with a status and maybe a payload.    *)
RunPrototype ==
    /\ pc = "execute"
    /\ \E o \in Outcomes :
         /\ outcome' = o
         /\ IF o.status = "error" THEN Fail ELSE pc' = "record"
    /\ UNCHANGED <<kind, Workspace, view, funcRun, logged>>

(* process_and_record_execution, on a clone of ctx refreshed to the latest *)
(* snapshot: with a result, set the resource if there is a payload; on     *)
(* status Ok remove the action, clear the resource when there is no        *)
(* payload and remove the component if it was to be deleted, and enqueue   *)
(* the prototypes it triggers; otherwise (no result, or a status not Ok)   *)
(* mark the action Failed. Then commit. A failure at any step before the   *)
(* commit drops the clone with its changes.                                *)
ProcessAndRecordExecution ==
    LET o == outcome
        ok == o.status = "Ok"
    IN
    /\ pc = "record"
    /\ \/ Fail /\ UNCHANGED Workspace
       \/ /\ action' = IF ok THEN "Removed" ELSE "Failed"
          /\ resource' = CASE o.status = "none" -> resource
                           [] o.payload -> TRUE
                           [] ok -> FALSE
                           [] OTHER -> resource
          /\ component' = IF ok /\ ~o.payload /\ component = "toDelete"
                            THEN "removed" ELSE component
          /\ dependents' = (dependents \/ ok)
          /\ pc' = "ensureDeletes"
    /\ UNCHANGED <<kind, outcome, view, funcRun, logged>>

(* ensure_deletes_happened, on another clone: refresh, remove the nodes    *)
(* that still linger and commit if any did. A lookup or snapshot error     *)
(* fails the job.                                                          *)
EnsureDeletesHappened ==
    /\ pc = "ensureDeletes"
    /\ \/ Fail
       \/ pc' = IF kind = "Destroy" THEN "destroyCleanup" ELSE "done"
    /\ UNCHANGED <<kind, outcome, Workspace, view, funcRun, logged>>

(* inner_run, Destroy only, on ctx itself: re-read the prototype, refresh  *)
(* ctx's snapshot, remove every component to be deleted that is allowed to *)
(* be removed (no resource left), commit if one was. The re-read or the    *)
(* refresh may fail before ctx sees the latest snapshot, a later step      *)
(* after.                                                                  *)
RemoveDeletedComponents ==
    /\ pc = "destroyCleanup"
    /\ \/ Fail /\ UNCHANGED <<component, view>>
       \/ Fail /\ view' = action /\ UNCHANGED component
       \/ /\ component' = IF component = "toDelete" /\ ~resource
                            THEN "removed" ELSE component
          /\ view' = action
          /\ pc' = "done"
    /\ UNCHANGED <<kind, outcome, action, resource, dependents, funcRun, logged>>

(* process_failed_action, on ctx: set the action Failed in ctx (an error   *)
(* when ctx's snapshot no longer has it), write the func run's result      *)
(* Failure to the layer db (at once, outside the transaction), commit.     *)
(* With HandlerErrors each of the three may fail, leaving what the earlier *)
(* ones did. The error is logged and run() returns Done.                   *)
ProcessFailedAction ==
    LET setStateFails == view = "Removed" \/ HandlerErrors IN
    /\ pc = "failed"
    /\ \/ /\ view # "Removed"
          /\ CommitActionState("Failed")
          /\ funcRun' = "Failure"
          /\ UNCHANGED logged
       \/ /\ setStateFails
          /\ logged' = TRUE
          /\ UNCHANGED <<action, funcRun>>
       \/ /\ HandlerErrors /\ view # "Removed"
          /\ \/ UNCHANGED funcRun
             \/ funcRun' = "Failure"
          /\ logged' = TRUE
          /\ UNCHANGED action
    /\ pc' = "done"
    /\ UNCHANGED <<kind, outcome, resource, component, dependents, view>>

(* SyncProcessor::enqueue_job, once run() is back: an error panics the     *)
(* process, Ok returns to the caller.                                      *)
JobReturns ==
    /\ pc \in {"done", "error"}
    /\ pc' = IF pc = "done" THEN "returned" ELSE "panicked"
    /\ UNCHANGED <<kind, outcome, Workspace, view, funcRun, logged>>

(* The process dies between two steps; nothing uncommitted survives.       *)
Crash ==
    /\ pc \in {"start", "execute", "record", "ensureDeletes", "destroyCleanup",
               "failed", "done"}
    /\ pc' = "crashed"
    /\ UNCHANGED <<kind, outcome, Workspace, view, funcRun, logged>>

Next ==
    \/ EnqueueJob \/ JobReturns
    \/ PrepareForExecution \/ RunPrototype \/ ProcessAndRecordExecution
    \/ EnsureDeletesHappened \/ RemoveDeletedComponents
    \/ ProcessFailedAction \/ Crash

(* enqueue_job awaits the job's steps in sequence: once called it keeps    *)
(* going until it returns, unless the process dies. When it is called is   *)
(* up to its caller, so EnqueueJob has no fairness.                        *)
Spec == Init /\ [][Next]_vars /\ WF_vars(Next /\ pc # "queued" /\ pc' # "crashed")

-----------------------------------------------------------------------------
TypeOK ==
    /\ pc \in {"queued", "start", "execute", "record", "ensureDeletes",
               "destroyCleanup", "failed", "done", "error", "returned",
               "panicked", "crashed"}
    /\ kind \in Kinds
    /\ outcome \in Outcomes
    /\ action \in {"Queued", "Running", "Failed", "Removed"}
    /\ view \in {"Queued", "Running", "Failed", "Removed"}
    /\ resource \in BOOLEAN
    /\ component \in {"present", "toDelete", "removed"}
    /\ dependents \in BOOLEAN
    /\ funcRun \in {"none", "Failure"}
    /\ logged \in BOOLEAN

(* run(): a job that returned without the process dying leaves its action *)
(* settled, never Running: removed as a success or marked Failed, whatever *)
(* step of inner_run failed, unless process_failed_action itself failed    *)
(* (the error logged at run()).                                            *)
NotLeftRunning ==
    pc \in {"done", "returned"} /\ ~logged => action # "Running"

(* The comment at process_and_record_execution: status Ok means "the       *)
(* execution succeeded" and the action is removed. No func run of an       *)
(* action whose success was committed is recorded as a Failure.            *)
NoFailureAfterSuccess ==
    funcRun = "Failure" => ~dependents
=============================================================================
