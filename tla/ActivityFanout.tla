--------------------------- MODULE ActivityFanout ---------------------------
(***************************************************************************)
(* The fan-out path of si-layer-cache (activities.rs) inside one process:  *)
(*                                                                         *)
(*  - ActivityMultiplexer::subscribe computes a multiplex key from the     *)
(*    filter, returns a receiver on an existing broadcast sender (read     *)
(*    lock), or else runs an ActivityStream, creates a broadcast channel,  *)
(*    spawns an ActivityMultiplexerTask and registers the sender (write    *)
(*    lock);                                                               *)
(*  - ActivityStream::run creates the pull consumer                        *)
(*    "activity-stream-{instance_id}" (deliver policy New, filter          *)
(*    subjects from the filter) and spawns process_messages, which acks    *)
(*    every message and spawns one process_message task per message;       *)
(*  - ActivityMultiplexerTask::run forwards the stream's channel to the    *)
(*    broadcast channel until the shutdown token is cancelled;             *)
(*  - subscribers read their broadcast receiver and lose the oldest items  *)
(*    when they fall more than the channel's capacity behind.              *)
(*                                                                         *)
(* The broker's consumer is identified by its name: creating it again      *)
(* attaches another pull loop to the same consumer, and a different        *)
(* filter either replaces the consumer's filter or makes the creation      *)
(* fail, depending on the server.                                          *)
(***************************************************************************)
EXTENDS Naturals, FiniteSets, SubjectRouter

CONSTANTS
    Kinds,          \* ActivityPayloadDiscriminants in play
    Filters,        \* the filters subscribers pass: Everything or a Seq(Kinds)
    Subscribers,    \* callers of subscribe, each keeping its receiver
    Capacity,       \* broadcast channel depth (1_000_000 in the code)
    MaxPublish,     \* activities published
    Sequential,     \* TRUE: subscribe calls never overlap
    MaxAckLosses    \* acks of the stream's consumer the network may drop

ASSUME Kinds \subseteq Discriminants
ASSUME Capacity \in Nat \ {0} /\ MaxPublish \in Nat /\ Sequential \in BOOLEAN
ASSUME MaxAckLosses \in Nat

MaxUpstreams == Cardinality(Subscribers)
Upstreams == 1..MaxUpstreams

VARIABLES
    log,        \* the activities stream: kind of each published activity
    consumer,   \* the broker consumer: [exists, filter, next]
    nUp,        \* ActivityStreams created so far
    spawned,    \* per stream: activities acked, in a process_message task
    mpsc,       \* per stream: the unbounded channel to its multiplexer task
    amx,        \* per stream: its multiplexer task "none", "running", "ended"
    bcast,      \* per stream: everything sent on its broadcast channel
    channels,   \* the multiplexer's map: key -> stream (0: absent)
    spc,        \* subscriber: "idle", "missed", "created", "subscribed", "failed"
    sfilter,    \* the filter the subscriber passed
    sup,        \* the stream whose broadcast channel it reads (0: none)
    pos,        \* index of the next broadcast item it reads
    since,      \* Len(log) when its subscribe returned
    received,   \* history: activities it received, in order
    lagged,     \* history: activities it skipped as Lagged
    cancelled,  \* the shutdown token
    unacked,    \* broker: activities delivered whose ack never arrived
    ackLosses   \* acks dropped so far

vars == <<log, consumer, nUp, spawned, mpsc, amx, bcast, channels, spc,
          sfilter, sup, pos, since, received, lagged, cancelled, unacked,
          ackLosses>>

Broker == <<consumer, unacked, ackLosses>>

Upstream == <<nUp, spawned, mpsc, amx, bcast>>
Subscriber == <<spc, sfilter, sup, pos, since, received, lagged>>

-----------------------------------------------------------------------------
(* The keys of the multiplexer's map (SubjectRouter's MultiplexKey).      *)
Keys == {MultiplexKey(f) : f \in Filters}

(* The kinds a subscriber asked for.                                       *)
FilterKinds(f) ==
    IF f = Everything THEN Kinds ELSE {f[k] : k \in DOMAIN f}

(* The oldest broadcast item still retained by a channel of depth Capacity *)
OldestRetained(u) ==
    IF Len(bcast[u]) > Capacity THEN Len(bcast[u]) - Capacity + 1 ELSE 1

Busy(s) == spc[s] \in {"missed", "created"}

-----------------------------------------------------------------------------
(* Mutants, each a plausible slip in the code below.                       *)

\* ActivityMultiplexerTask::process with `if let` instead of `while let`:
\* the task forwards one activity and ends.
ForwardOnce(u) ==
    /\ amx[u] = "running"
    /\ mpsc[u] # <<>>
    /\ bcast' = [bcast EXCEPT ![u] = Append(@, Head(mpsc[u]))]
    /\ mpsc' = [mpsc EXCEPT ![u] = Tail(@)]
    /\ amx' = [amx EXCEPT ![u] = "ended"]
    /\ UNCHANGED <<log, Broker, nUp, spawned, channels, Subscriber, cancelled>>

\* the fast path's receiver positioned one item too far.
SubscribeFastSkipsOne(s, f) ==
    LET u == channels[MultiplexKey(f)] IN
    /\ spc[s] = "idle"
    /\ Sequential => \A t \in Subscribers : ~Busy(t)
    /\ u # 0
    /\ spc' = [spc EXCEPT ![s] = "subscribed"]
    /\ sfilter' = [sfilter EXCEPT ![s] = f]
    /\ sup' = [sup EXCEPT ![s] = u]
    /\ pos' = [pos EXCEPT ![s] = Len(bcast[u]) + 2]
    /\ since' = [since EXCEPT ![s] = Len(log)]
    /\ UNCHANGED <<log, Broker, channels, Upstream, received, lagged, cancelled>>

\* the sender never inserted into the map after the stream is created.
RegisterWithoutInsert(s) ==
    LET u == sup[s] IN
    /\ spc[s] = "created"
    /\ amx' = [amx EXCEPT ![u] = "running"]
    /\ spc' = [spc EXCEPT ![s] = "subscribed"]
    /\ pos' = [pos EXCEPT ![s] = 1]
    /\ since' = [since EXCEPT ![s] = Len(log)]
    /\ UNCHANGED <<log, Broker, nUp, spawned, mpsc, bcast, channels, sfilter,
                   sup, received, lagged, cancelled>>

\* consumer_config ignoring the filter: filter_subjects never set.
ConsumerConfigUnfiltered(f) == Kinds

-----------------------------------------------------------------------------
Init ==
    /\ log = <<>>
    /\ consumer = [exists |-> FALSE, filter |-> {}, next |-> 1]
    /\ nUp = 0
    /\ spawned = [u \in Upstreams |-> {}]
    /\ mpsc = [u \in Upstreams |-> <<>>]
    /\ amx = [u \in Upstreams |-> "none"]
    /\ bcast = [u \in Upstreams |-> <<>>]
    /\ channels = [k \in Keys |-> 0]
    /\ spc = [s \in Subscribers |-> "idle"]
    /\ sfilter = [s \in Subscribers |-> Everything]
    /\ sup = [s \in Subscribers |-> 0]
    /\ pos = [s \in Subscribers |-> 1]
    /\ since = [s \in Subscribers |-> 0]
    /\ received = [s \in Subscribers |-> <<>>]
    /\ lagged = [s \in Subscribers |-> {}]
    /\ cancelled = FALSE
    /\ unacked = {}
    /\ ackLosses = 0

(* ActivityPublisher::publish of an activity of kind k, confirmed by the   *)
(* broker.                                                                 *)
Publish(k) ==
    /\ Len(log) < MaxPublish
    /\ log' = Append(log, k)
    /\ UNCHANGED <<Broker, channels, Upstream, Subscriber, cancelled>>

(* subscribe, fast path: the read lock finds a sender for the key and the  *)
(* caller gets a new receiver on it, positioned after everything sent.     *)
SubscribeFast(s, f) ==
    LET u == channels[MultiplexKey(f)] IN
    /\ spc[s] = "idle"
    /\ Sequential => \A t \in Subscribers : ~Busy(t)
    /\ u # 0
    /\ spc' = [spc EXCEPT ![s] = "subscribed"]
    /\ sfilter' = [sfilter EXCEPT ![s] = f]
    /\ sup' = [sup EXCEPT ![s] = u]
    /\ pos' = [pos EXCEPT ![s] = Len(bcast[u]) + 1]
    /\ since' = [since EXCEPT ![s] = Len(log)]
    /\ UNCHANGED <<log, Broker, channels, Upstream, received, lagged, cancelled>>

(* subscribe: the read lock finds no sender; the lock is released before  *)
(* the stream is created.                                                  *)
SubscribeMiss(s, f) ==
    /\ spc[s] = "idle"
    /\ Sequential => \A t \in Subscribers : ~Busy(t)
    /\ channels[MultiplexKey(f)] = 0
    /\ spc' = [spc EXCEPT ![s] = "missed"]
    /\ sfilter' = [sfilter EXCEPT ![s] = f]
    /\ UNCHANGED <<log, Broker, channels, Upstream, sup, pos, since,
                   received, lagged, cancelled>>

(* ActivityStream::consumer_config: the kinds whose subjects the broker     *)
(* lets through the consumer's filter_subjects.                            *)
ConsumerConfig(f) == {k \in Kinds : Matches(f, k)}

(* ActivityStream::run: create_consumer on the activities stream with the  *)
(* consumer_config, messages(), and spawn process_messages. A first        *)
(* creation starts at the end of the stream (DeliverPolicy::New); a later  *)
(* one with the same name attaches to the existing consumer and replaces   *)
(* its filter. Each of the three awaits may fail (the server may also      *)
(* reject a differing filter); the error goes to the caller of subscribe,  *)
(* and a failure of messages() leaves the consumer created.                *)
CreateStream(s) ==
    LET cfg == ConsumerConfig(sfilter[s])
        u == nUp + 1
        created == IF consumer.exists
                     THEN [consumer EXCEPT !.filter = cfg]
                     ELSE [exists |-> TRUE, filter |-> cfg, next |-> Len(log) + 1]
        attach ==
          /\ consumer' = created
          /\ nUp' = u
          /\ sup' = [sup EXCEPT ![s] = u]
          /\ spc' = [spc EXCEPT ![s] = "created"]
        fail ==
          /\ consumer' \in {consumer, created}
          /\ spc' = [spc EXCEPT ![s] = "failed"]
          /\ UNCHANGED <<nUp, sup>>
    IN
    /\ spc[s] = "missed"
    /\ attach \/ fail
    /\ UNCHANGED <<log, spawned, mpsc, amx, bcast, channels, sfilter, pos,
                   since, received, lagged, cancelled, unacked, ackLosses>>

(* subscribe, after the stream: broadcast::channel, spawn the multiplexer  *)
(* task, take the write lock and insert the sender under the key,          *)
(* replacing any sender registered meanwhile; return the receiver made     *)
(* with the channel.                                                       *)
Register(s) ==
    LET u == sup[s] IN
    /\ spc[s] = "created"
    /\ amx' = [amx EXCEPT ![u] = "running"]
    /\ channels' = [channels EXCEPT ![MultiplexKey(sfilter[s])] = u]
    /\ spc' = [spc EXCEPT ![s] = "subscribed"]
    /\ pos' = [pos EXCEPT ![s] = 1]
    /\ since' = [since EXCEPT ![s] = Len(log)]
    /\ UNCHANGED <<log, Broker, nUp, spawned, mpsc, bcast, sfilter, sup,
                   received, lagged, cancelled>>

(* ActivityStream::process_messages: the next message the consumer hands   *)
(* to this pull loop (the first one at or after its position whose kind    *)
(* passes its filter) is acked and handed to a spawned task. An ack error  *)
(* is only logged: the ack may never reach the broker, which then keeps    *)
(* the message pending. The loop does not watch the shutdown token.        *)
Pull(u) ==
    /\ u <= nUp
    /\ \E j \in consumer.next..Len(log) :
         /\ log[j] \in consumer.filter
         /\ \A i \in consumer.next..(j - 1) : log[i] \notin consumer.filter
         /\ consumer' = [consumer EXCEPT !.next = j + 1]
         /\ spawned' = [spawned EXCEPT ![u] = @ \cup {j}]
         /\ \/ UNCHANGED <<unacked, ackLosses>>
            \/ /\ ackLosses < MaxAckLosses
               /\ unacked' = unacked \cup {j}
               /\ ackLosses' = ackLosses + 1
    /\ UNCHANGED <<log, nUp, mpsc, amx, bcast, channels, Subscriber, cancelled>>

(* The consumer's ack-wait expires on a message whose ack never arrived:   *)
(* the broker delivers it again, to any pull loop on the consumer, and     *)
(* process_messages acks it and spawns another process_message task.      *)
Redeliver(u, j) ==
    /\ u <= nUp
    /\ j \in unacked
    /\ j \notin spawned[u]
    /\ unacked' = unacked \ {j}
    /\ spawned' = [spawned EXCEPT ![u] = @ \cup {j}]
    /\ UNCHANGED <<log, consumer, ackLosses, nUp, mpsc, amx, bcast, channels,
                   Subscriber, cancelled>>

(* ActivityStream::process_message, in its own task: decode and send on    *)
(* the stream's channel. Tasks run in any order. Once the multiplexer task *)
(* has ended its receiver is gone and the send error is only logged.       *)
ProcessMessage(u, j) ==
    /\ j \in spawned[u]
    /\ spawned' = [spawned EXCEPT ![u] = @ \ {j}]
    /\ mpsc' = IF amx[u] = "ended" THEN mpsc
               ELSE [mpsc EXCEPT ![u] = Append(@, j)]
    /\ UNCHANGED <<log, Broker, nUp, amx, bcast, channels, Subscriber, cancelled>>

(* ActivityMultiplexerTask::process: receive from the stream's channel and *)
(* send on the broadcast channel (a send without receivers is logged).     *)
Forward(u) ==
    /\ amx[u] = "running"
    /\ mpsc[u] # <<>>
    /\ bcast' = [bcast EXCEPT ![u] = Append(@, Head(mpsc[u]))]
    /\ mpsc' = [mpsc EXCEPT ![u] = Tail(@)]
    /\ UNCHANGED <<log, Broker, nUp, spawned, amx, channels, Subscriber, cancelled>>

(* The shutdown token is cancelled.                                        *)
Cancel ==
    /\ ~cancelled
    /\ cancelled' = TRUE
    /\ UNCHANGED <<log, Broker, channels, Upstream, Subscriber>>

(* ActivityMultiplexerTask::run: the select sees the cancelled token; the  *)
(* task ends and drops the stream's receiver.                              *)
StopTask(u) ==
    /\ cancelled
    /\ amx[u] = "running"
    /\ amx' = [amx EXCEPT ![u] = "ended"]
    /\ mpsc' = [mpsc EXCEPT ![u] = <<>>]
    /\ UNCHANGED <<log, Broker, nUp, spawned, bcast, channels, Subscriber, cancelled>>

(* A subscriber's recv() returns the next retained item.                   *)
Recv(s) ==
    LET u == sup[s] IN
    /\ spc[s] = "subscribed"
    /\ OldestRetained(u) <= pos[s] /\ pos[s] <= Len(bcast[u])
    /\ received' = [received EXCEPT ![s] = Append(@, bcast[u][pos[s]])]
    /\ pos' = [pos EXCEPT ![s] = @ + 1]
    /\ UNCHANGED <<log, Broker, channels, Upstream, spc, sfilter, sup, since,
                   lagged, cancelled>>

(* A subscriber more than Capacity behind gets RecvError::Lagged and       *)
(* resumes at the oldest retained item.                                    *)
Lag(s) ==
    LET u == sup[s] IN
    /\ spc[s] = "subscribed"
    /\ pos[s] < OldestRetained(u)
    /\ lagged' = [lagged EXCEPT ![s] =
                    @ \cup {bcast[u][i] : i \in pos[s]..(OldestRetained(u) - 1)}]
    /\ pos' = [pos EXCEPT ![s] = OldestRetained(u)]
    /\ UNCHANGED <<log, Broker, channels, Upstream, spc, sfilter, sup, since,
                   received, cancelled>>

Next ==
    \/ \E k \in Kinds : Publish(k)
    \/ \E s \in Subscribers :
         \/ \E f \in Filters : SubscribeFast(s, f) \/ SubscribeMiss(s, f)
         \/ CreateStream(s) \/ Register(s) \/ Recv(s) \/ Lag(s)
    \/ \E u \in Upstreams :
         \/ Pull(u) \/ Forward(u) \/ StopTask(u)
         \/ \E j \in spawned[u] : ProcessMessage(u, j)
         \/ \E j \in unacked : Redeliver(u, j)
    \/ Cancel

(* The runtime polls every spawned task and every pending subscribe call;  *)
(* subscribers keep reading their receivers; the broker's ack-wait timer   *)
(* fires.                                                                  *)
Fairness ==
    /\ \A s \in Subscribers :
         WF_vars(CreateStream(s)) /\ WF_vars(Register(s))
         /\ WF_vars(Recv(s)) /\ WF_vars(Lag(s))
    /\ \A u \in Upstreams :
         WF_vars(Pull(u)) /\ WF_vars(Forward(u)) /\ WF_vars(StopTask(u))
         /\ WF_vars(\E j \in spawned[u] : ProcessMessage(u, j))
    /\ WF_vars(\E u \in Upstreams, j \in unacked : Redeliver(u, j))

Spec == Init /\ [][Next]_vars /\ Fairness

-----------------------------------------------------------------------------
Activities == 1..MaxPublish

TypeOK ==
    /\ log \in Seq(Kinds) /\ Len(log) <= MaxPublish
    /\ consumer \in [exists : BOOLEAN, filter : SUBSET Kinds,
                     next : 1..(MaxPublish + 1)]
    /\ nUp \in 0..MaxUpstreams
    /\ spawned \in [Upstreams -> SUBSET Activities]
    /\ mpsc \in [Upstreams -> Seq(Activities)]
    /\ amx \in [Upstreams -> {"none", "running", "ended"}]
    /\ bcast \in [Upstreams -> Seq(Activities)]
    /\ channels \in [Keys -> 0..MaxUpstreams]
    /\ spc \in [Subscribers -> {"idle", "missed", "created", "subscribed", "failed"}]
    /\ sfilter \in [Subscribers -> Filters \cup {Everything}]
    /\ sup \in [Subscribers -> 0..MaxUpstreams]
    /\ pos \in [Subscribers -> Nat \ {0}]
    /\ \A s \in Subscribers :
         spc[s] = "subscribed" => pos[s] <= Len(bcast[sup[s]]) + 1
    /\ since \in [Subscribers -> 0..MaxPublish]
    /\ received \in [Subscribers -> Seq(Activities)]
    /\ lagged \in [Subscribers -> SUBSET Activities]
    /\ cancelled \in BOOLEAN
    /\ unacked \subseteq Activities
    /\ ackLosses \in 0..MaxAckLosses

(* spec.md section 8: an activity whose kind is not in a subscriber's      *)
(* filter is never delivered to it.                                        *)
FilterRespected ==
    \A s \in Subscribers : \A k \in DOMAIN received[s] :
        log[received[s][k]] \in FilterKinds(sfilter[s])

(* spec.md section 8: an activity published after a subscriber's           *)
(* subscribe returned, of a kind in its filter, is eventually received by  *)
(* it, unless it lagged over it or the shutdown token was cancelled.       *)
DeliveredToSubscribers ==
    \A s \in Subscribers : \A j \in Activities :
        (spc[s] = "subscribed" /\ j > since[s] /\ j <= Len(log)
           /\ log[j] \in FilterKinds(sfilter[s]))
          ~> (\/ \E k \in DOMAIN received[s] : received[s][k] = j
              \/ j \in lagged[s]
              \/ cancelled)

(* spec.md section 5: on cancellation every long-running loop, the stream *)
(* drain included, stops taking messages from the bus.                     *)
NoIntakeAfterShutdown ==
    [][cancelled => \A u \in Upstreams : spawned'[u] \subseteq spawned[u]]_vars

(* spec.md section 4.5: subscribe never creates a second upstream stream  *)
(* for a filter of one process, whether the calls overlap or not; the      *)
(* filter key comes from the sorted set of kinds, or a sentinel for all.   *)
OneStreamPerFilter ==
    LET key(f) == IF f = Everything THEN [all |-> TRUE, kinds |-> {}]
                  ELSE [all |-> FALSE, kinds |-> {f[i] : i \in DOMAIN f}]
        live == {s \in Subscribers : spc[s] \in {"created", "subscribed"}}
    IN \A s, t \in live : key(sfilter[s]) = key(sfilter[t]) => sup[s] = sup[t]
=============================================================================
