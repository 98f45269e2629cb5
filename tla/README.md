# TLA+ models of systeminit's layer cache, activity bus, action jobs and schematic

This directory holds TLA+ specifications of the concurrent and failure-prone
parts of the repository:

- the si-layer-cache activity bus: `src/lib/si-layer-cache/src/activities.rs`;
- the tiered LayerCache: its implementation is not among the sources, so its behaviour is modelled from `spec.md` §4.1 (the integration tests in `src/lib/si-layer-cache/tests/integration_test/layer_cache.rs` exercise it but are not mapped);
- the dal ActionJob, run by the SyncProcessor: `src/lib/dal/src/job/definition/action.rs` and `src/lib/dal/src/job/processor/sync_processor.rs`;
- schematic node creation: `src/lib/sdf/src/server/service/schematic/create_node.rs` and `System::new_with_node`.

Each module comes with TLC configurations. `PROJECT.json` lists the
components, the runs, the mutants that show each property can fail, the
definition-to-source map, the findings and the hazards.

Run any check from this directory:

    tlc -workers 2 -config <cfg> <module named in PROJECT.json>

## The system and how its parts interact

The bus paths share one publisher. `ActivityPublisher::publish` serialises an
activity and waits for the broker's acknowledgment. Messages then travel one
of two ways:

- **Fan-out.** `ActivityMultiplexer::subscribe` keys a filter, reuses a
  broadcast sender for that key, or creates one.
  - Creating one first runs `ActivityStream::run`. That creates a pull
    consumer and spawns `process_messages`, which acks each message and
    spawns one `process_message` task per message.
  - `ActivityMultiplexerTask` then forwards the stream's unbounded channel
    into a broadcast channel. Local subscribers read that channel, and a
    subscriber that falls too far behind gets `Lagged`.
- **Competing consumers.** Every process attaches a `RebaserRequestWorkQueue`
  to the durable consumer `rebaser-requests`.
  - Its `process_messages` loop receives, acks, decodes and narrows each
    message, then sends it on a channel to the process's rebaser.
  - `run` selects this loop against the shutdown token.

The other parts work as follows:

- **LayerCache.** `get` tries memory, then disk (promoting the value into
  memory), then the durable store (promoting into disk and memory). `insert`
  writes all three tiers, and its result is the store write's result. Every
  tier access is a suspension point.
- **ActionJob.**
  1. `add_action` enqueues an action, and `SyncProcessor::enqueue_job`
     runs its job inline (an error of `run()` would panic the process).
  2. `prepare_for_execution` commits it as Running.
  3. The action function runs against the outside world.
  4. `process_and_record_execution` records the resource and either removes
     the action (success) or marks it Failed, then commits.
  5. `ensure_deletes_happened` and, for Destroy actions, a clean-up of
     components waiting to be deleted follow.
  6. Any error sends the job to `process_failed_action`, whose own errors
     are only logged; `run()` returns Done either way.

  Steps 4 and 5 run on *clones* of the job's context, while step 6 runs on
  the original one.
- **create_node.** It works inside one database transaction:
  1. validate the schema kind against the parent node;
  2. create the component and its node;
  3. add it to a system;
  4. write the node's positions;
  5. commit;
  6. spawn one detached task that drives the dependent-value tasks.

  It answers before that task has finished.

## Modules

| Module | Models | State | Actions |
|---|---|---|---|
| `RebaserWorkQueue` (MC: `MCRebaserWorkQueue`) | publish; the work-queue instances; the broker's durable consumer; the network | `pub`, `wq` (broker) and per instance `pc`, `token`, `held`, `chan`; acks in flight `ackNet`; history `rebased`, `lost` | `Publish`, `PublishFailed`, `Receive`, `AckAndForward` (ack, then process_message; nothing suspends between them), `Cancel` (select drops the future at its await), `Restart` (create), `Rebase`, `Crash`, `AckArrives`, `AckLost`, `AckWaitExpires` |
| `WorkQueue` | the promise of the rebaser-requests queue (spec.md §4.6, §8), with no instances, acks or timers | `queue`, `handed`, `removed` (sets of items) | `Enqueue`, `Hand`, `Remove` (only once handed, or poison) |
| `SubjectRouter` | the pure conversions of activities.rs: `to_subject`, the multiplex key, the consumer's filter subjects and how the broker matches them | none (operators over the strings the code builds) | none |
| `ActivityFanout` (MC: `MCActivityFanout`) | the multiplexer, streams, multiplexer tasks and subscribers of one process | the bus `log`, the broker `consumer` with its `unacked` messages, per stream `spawned`/`mpsc`/`amx`/`bcast`, the `channels` map, per subscriber `spc`/`sfilter`/`sup`/`pos`/`received`/`lagged`, `cancelled` | `Publish`, `SubscribeFast`, `SubscribeMiss`, `CreateStream`, `Register`, `Pull` (its ack may be lost), `Redeliver`, `ProcessMessage`, `Forward`, `Cancel`, `StopTask`, `Recv`, `Lag` |
| `LayerCache` (MC: `MCLayerCache`) | one process's memory and disk tiers over the shared store, several callers | `mem`, `disk`, `store`, per caller `pc`/`op`, history `inserted`/`results` | `GetMem`, `GetDisk`, `GetStore`, `Promote`, `InsertMem`, `InsertDisk`, `InsertStore`, `Replace` |
| `ActionJob` | one ActionJob run by `SyncProcessor::enqueue_job` | committed `action`, `resource`, `component`, `dependents`; `view` (the action as run()'s ctx sees it); `funcRun`; history `logged` | `EnqueueJob`, `PrepareForExecution`, `RunPrototype`, `ProcessAndRecordExecution`, `EnsureDeletesHappened`, `RemoveDeletedComponents`, `ProcessFailedAction`, `JobReturns`, `Crash` |
| `Schematic` (MC: `MCSchematic`) | concurrent create_node calls and system creation | committed `nodes`, `positions`, `members`; per request `pc`, `buf`, `bufPos`; spawned tasks `pending`/`attempted` | `NewSystemWithNode`, `CreateNode`, `WritePositions`, `Commit`, `RunTask` |

`ActivityFanout` extends `SubjectRouter`: it keys the multiplexer's map with
`MultiplexKey` and configures the consumer with `FilterSubjects`.

Each action models a whole handler step, from one suspension point to the
next. Every `?` that can fail is a disjunct of its action leading to the error
path. The map in `PROJECT.json` names the lines behind every definition.

The following parts are not in the sources, so they are modelled from
`spec.md` and marked `spec_modelled`:

- the broker's consumer behaviour (ack-wait, ack removal, redelivery of
  a message whose ack was lost);
- the network;
- crashes;
- the LayerCache tiers;
- the rebaser reading the channel.

## Runs and what they show

Passing runs:

- **rebaser_queue** (about 504k states). Two instances, two requests (one
  malformed), one crash each, one lost ack and one spurious ack-wait expiry.
  - The instances and the broker implement the abstract `WorkQueue`:
    `ImplementsWorkQueue` (see *Refinement* below).
  - Every confirmed request reaches a rebaser unless a crash lost it after
    its ack, or every instance was shut down: `EventuallyRebased`.
- **fanout_delivery** (about 69k states). Two subscribers of one filter,
  broadcast depth 1, two activities, failing consumer creation, one lost
  ack that the broker redelivers, and cancellation. With three activities
  and the lost ack, the run takes 13 minutes.
  - No delivery outside the filter: `FilterRespected`.
  - One upstream stream per filter when subscribes do not overlap:
    `OneStreamPerFilter`.
  - Every matching activity published after subscribe is received, lagged
    over, or cut off by shutdown: `DeliveredToSubscribers`. This holds even
    when the stream's ack is lost (`activities.rs:323` only logs the error)
    and the broker redelivers the message. A redelivery can then hand a
    subscriber the activity twice, which the fan-out path allows.
- **layer_cache** (about 1.3M states). Two callers, two content-addressed
  keys, two inserts, failing store writes, one replacement. A get begun after
  a successful insert never misses: `ReadYourWrites`.
- **action_job**. Either kind of action, an error possible at every step
  (`process_failed_action`'s own steps included), and crashes.
  - A returning job leaves the action Running only when
    `process_failed_action` itself failed (its error is only logged):
    `NotLeftRunning`.
  This run has no liveness property: whether `enqueue_job` returns follows
  from `run()` turning every error into `Ok(Done)` (`action.rs:103`) and
  needs no model.
- **schematic** (about 147k states). Three requests, four node ids, one
  system, a failure possible at every `?`, and the spawned dependent-value
  tasks. Every committed node, position and system membership is well
  formed; in particular a node joins a system only when the request named
  one: `TypeOK`. Nothing deletes a node and the commit is one transaction, so
  the parent check and the positions cannot go wrong under interleaving;
  the model checks no separate property for them.

Violation runs, each reported as a finding in `PROJECT.json`:

- **rebaser_duplicate.** An ack-wait expiry that races the ack delivers one
  request to two rebasers, against spec §8's "never to more than one".
- **fanout_dedup_race.** Two concurrent subscribes create two upstream streams
  (`activities.rs:219-239`), against spec §4.5. Both streams then pull from
  the one shared-name consumer, which splits the deliveries between them.
- **fanout_filters.** Every stream of a multiplexer shares the consumer name
  `activity-stream-{instance_id}`, so a second filter rewrites the first one's
  filter.
- **fanout_shutdown.** The stream's pull loop ignores cancellation, against
  spec §5.
- **fanout_key_order.** Two subscribes, one after the other, name the same
  two kinds in different orders. They get two upstream streams, because
  `subscribe` joins the subjects in the order given, while spec §4.5
  derives the key from the sorted set. Both streams attach to the one
  consumer `activity-stream-{instance_id}`, which hands each activity to
  only one of them. A subscriber therefore never receives an activity of
  its filter (`DeliveredToSubscribers`), with no concurrency at all.
- **action_job_stale_failure.** A failure after a committed success records
  the func run as Failure, because `process_failed_action` runs on the stale
  snapshot of the job's own ctx.

Each property of a passing run has a mutant in `PROJECT.json`. A mutant is a
plausible bug written as an operator in the module, such as:

- a dropped guard;
- a missing insert or commit;
- a `?` that ends a loop.

TLC finds the property violated once the mutant replaces the definition.

## Refinement

`WorkQueue` states what the competing-consumer path promises, without the
mechanism:

- a published item joins the queue;
- a consumer may hand a queued item to its rebaser, once or more often;
- the queue removes an item only once it has been handed over, or when it
  is poison.

`RebaserWorkQueue` instantiates it (`Abstract == INSTANCE WorkQueue WITH
...`) under this mapping:

- **queue**: the requests ready or delivered at the broker;
- **handed**: the requests rebased, waiting in an instance's channel, or
  lost with a crashed channel;
- **removed**: the requests the stream deleted.

`ImplementsWorkQueue == Abstract!Spec` is a property of the rebaser_queue
run. Every concrete step is an abstract step or a stutter:

- `Publish` and a stored `PublishFailed` are `Enqueue`.
- `AckAndForward` of a well-formed request is `Hand`.
- The first `AckArrives` of a request is `Remove`.
- Everything else leaves the mapped sets unchanged.

The invariant the previous sittings checked (a removed request was
forwarded) is the `Remove` guard, so the property replaces it. Duplicates
are allowed by `WorkQueue`. Whether they happen is the separate question of
the rebaser_duplicate run.

## Bounds

- **Two work-queue instances and two requests** are the least that show
  competing consumers and redelivery to another holder.
- **One crash, one lost ack and one spurious expiry** are enough to reach:
  - every recovery path: redelivery after a crash and after a lost ack;
  - the duplicate.
- **Two subscribers** are needed for both the fast path and the race.
- **Broadcast depth 1 with two activities** makes `Lagged` reachable, and
  lets two `process_message` tasks overtake each other.
- **One lost ack** per run is enough for a redelivery to race the first
  delivery's task.
- **Two callers, two keys and two inserts** allow interleaved insert/get on
  one key while the other key stays independent.
- **Three create_node requests** are the least for a deployment, a component
  inside it, and a request naming a System node as parent.

## Fairness

Weak fairness is assumed where the code justifies it:

- on every tokio task the code spawns or awaits (pull loops, process_message
  tasks, multiplexer tasks, subscribers polling their receivers, the
  create_node detached task);
- on the broker's ack-wait timer and the network's delivery of acks it does
  not drop;
- on a supervisor restarting a crashed process.

Crashes, lost acks, publications, cancellation and failures are never forced
to happen. `CHECK_DEADLOCK FALSE` is set where an idle or shut-down system
legitimately waits:

- a drained queue;
- returned jobs;
- finished requests.

## What is not modelled, and the plan

The following are left out:

- ActivityId, the Activity constructors and the postcard encoding. The
  subjects and keys are modelled, in `SubjectRouter`.
- The HTTP plumbing of the sdf handlers:
  - the route table of `v2/func.rs` and its error-to-status mapping are
    data, and route matching happens inside axum;
  - `fix.rs` and `workflow/resolve.rs` are an error enum and a handler
    that reads dal objects and commits.
- `definition.rs`: all but its imports is commented out, so there is no
  behaviour to translate.
- Data templates.
- Subscriber-side ordering. The per-message spawn in `process_messages`
  reorders same-subject activities. Spec §4.4 prescribes that spawn, and §5
  promises order only on the bus, so no run claims an order.
- The order of the three writes of `LayerCache::insert`. Neither the spec
  nor the sources fix it; the model writes memory, disk, then the store, and
  `ReadYourWrites` depends only on `Ok` following the store write. No run
  states what the tiers hold after a failed insert.
- Process death during create_node's detached dependent-value task. Values
  left stale by it would have to be recomputed by a path outside the sources.
- Job redelivery after a crash of an ActionJob, and any sweep of Running
  actions. Both live outside the sources.

- A composition of the two bus paths in one module. They share only the
  published stream, and neither path changes it: the fan-out consumer reads
  without removing, and the work queue reads its own stream sourced from
  it. Spec §5 promises no order across the paths. A joint model would add
  states and no behaviour that either module lacks.
- Larger fan-out instances. Three subscribers with two activities take
  about 17 seconds and show nothing two subscribers do not. Three
  subscribers with three activities pass 2M states in 15 minutes and do
  not finish.
