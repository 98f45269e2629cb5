-------------------------- MODULE RebaserWorkQueue --------------------------
(***************************************************************************)
(* The competing-consumer path of si-layer-cache (activities.rs):          *)
(*                                                                         *)
(*  - ActivityPublisher::publish puts a rebase-request activity on the     *)
(*    bus and awaits the broker's acknowledgment;                          *)
(*  - the broker keeps it in the rebaser-requests work-queue stream, read  *)
(*    through one durable consumer ("rebaser-requests") that every         *)
(*    instance of the fleet attaches to;                                   *)
(*  - each RebaserRequestWorkQueue instance loops in process_messages:     *)
(*    receive, ack, decode, narrow to a RebaseRequest, send on its local   *)
(*    unbounded channel, read by the rebaser of the same process;          *)
(*  - run() selects that loop against the shutdown token.                  *)
(*                                                                         *)
(* The broker (durable consumer with explicit ack and an ack-wait timer)   *)
(* and the network are modelled from spec.md section 4.6 and 6; instance   *)
(* crashes and restarts are the environment.                               *)
(***************************************************************************)
EXTENDS Naturals, Sequences, FiniteSets

CONSTANTS
    Instances,          \* processes running a RebaserRequestWorkQueue
    Requests,           \* rebase-request activities (model values)
    Malformed,          \* those whose bytes do not decode as an Activity
    None,               \* "no message in hand"
    MaxCrashes,         \* crashes per instance
    MaxSpurious,        \* ack-wait expiries while a live holder still acks
    MaxAckLosses        \* acks the network may drop

ASSUME Malformed \subseteq Requests
ASSUME {MaxCrashes, MaxSpurious, MaxAckLosses} \subseteq Nat

VARIABLES
    pub,        \* publisher's outcome per request: "none", "confirmed", "failed"
    wq,         \* broker: "absent", "ready", "delivered", "removed"
    pc,         \* instance: "recv", "ack", "done" (run returned), "crashed"
    token,      \* the instance's shutdown token has been cancelled
    held,       \* the message an instance has received and not yet acked
    ackNet,     \* acks sent and not yet seen by the broker: <<instance, msg>>
    chan,       \* the instance's unbounded channel to its rebaser
    rebased,    \* history: how many times each request reached a rebaser
    lost,       \* history: requests dropped from a channel by a crash
    crashes,    \* crashes so far per instance
    spurious,   \* ack-wait expiries so far of a message a live holder acks
    ackLosses   \* acks dropped so far

vars == <<pub, wq, pc, token, held, ackNet, chan, rebased, lost, crashes,
          spurious, ackLosses>>

-----------------------------------------------------------------------------
(* TryFrom<Activity> for ActivityRebaseRequest and the postcard decode in  *)
(* process_message: a request reaches the channel unless its bytes are     *)
(* malformed (then the error is logged and the message is dropped).        *)
IsRebaseRequest(m) == m \notin Malformed

(* A delivered message nobody will ack: no live instance holds it and no   *)
(* ack for it is on the way. The broker redelivers it after ack-wait.      *)
Orphaned(m) ==
    /\ \A i \in Instances : held[i] # m
    /\ \A a \in ackNet : a[2] # m

-----------------------------------------------------------------------------
(* Mutants, each a plausible slip in the code below.                       *)

\* process_message's error propagated with `?`: the receive loop ends and
\* run() returns, although the shutdown token was never cancelled.
ProcessMessageEndsLoop(i) ==
    LET m == held[i] IN
    /\ pc[i] = "ack"
    /\ ackNet' = ackNet \cup {<<i, m>>}
    /\ chan' = IF IsRebaseRequest(m)
                 THEN [chan EXCEPT ![i] = Append(@, m)] ELSE chan
    /\ pc' = [pc EXCEPT ![i] = IF IsRebaseRequest(m) THEN "recv" ELSE "done"]
    /\ held' = [held EXCEPT ![i] = None]
    /\ UNCHANGED <<pub, wq, token, rebased, lost, crashes, spurious, ackLosses>>

\* the ack queued as soon as the message is taken, so that dropping the
\* future at cancellation leaves an acked message nobody forwards.
CancelAfterAck(i) ==
    /\ pc[i] \in {"recv", "ack"}
    /\ ackNet' = IF pc[i] = "ack" THEN ackNet \cup {<<i, held[i]>>} ELSE ackNet
    /\ token' = [token EXCEPT ![i] = TRUE]
    /\ pc' = [pc EXCEPT ![i] = "done"]
    /\ held' = [held EXCEPT ![i] = None]
    /\ UNCHANGED <<pub, wq, chan, rebased, lost, crashes, spurious, ackLosses>>

\* the select's cancelled branch leaving the dropped message in hand.
CancelKeepsHeld(i) ==
    /\ pc[i] \in {"recv", "ack"}
    /\ token' = [token EXCEPT ![i] = TRUE]
    /\ pc' = [pc EXCEPT ![i] = "done"]
    /\ UNCHANGED <<pub, wq, held, chan, ackNet, rebased, lost, crashes,
                   spurious, ackLosses>>

-----------------------------------------------------------------------------
Init ==
    /\ pub = [m \in Requests |-> "none"]
    /\ wq = [m \in Requests |-> "absent"]
    /\ pc = [i \in Instances |-> "recv"]
    /\ token = [i \in Instances |-> FALSE]
    /\ held = [i \in Instances |-> None]
    /\ ackNet = {}
    /\ chan = [i \in Instances |-> <<>>]
    /\ rebased = [m \in Requests |-> 0]
    /\ lost = {}
    /\ crashes = [i \in Instances |-> 0]
    /\ spurious = 0
    /\ ackLosses = 0

Bus == <<pub, wq>>
Instance == <<pc, token, held, chan>>
History == <<rebased, lost, crashes, spurious, ackLosses>>

(* ActivityPublisher::publish, success: the broker stored the message and  *)
(* its acknowledgment reached the caller.                                  *)
Publish(m) ==
    /\ pub[m] = "none"
    /\ pub' = [pub EXCEPT ![m] = "confirmed"]
    /\ wq' = [wq EXCEPT ![m] = "ready"]
    /\ UNCHANGED <<Instance, ackNet, History>>

(* ActivityPublisher::publish, error: a transport error or a lost          *)
(* acknowledgment. The broker may or may not have stored the message; the  *)
(* publisher does not retry.                                               *)
PublishFailed(m) ==
    /\ pub[m] = "none"
    /\ pub' = [pub EXCEPT ![m] = "failed"]
    /\ \E stored \in BOOLEAN :
         wq' = [wq EXCEPT ![m] = IF stored THEN "ready" ELSE "absent"]
    /\ UNCHANGED <<Instance, ackNet, History>>

(* process_messages: stream.next() yields Ok(msg). The durable consumer    *)
(* hands each ready message to exactly one of the attached instances.      *)
Receive(i) ==
    /\ pc[i] = "recv"
    /\ \E m \in Requests :
         /\ wq[m] = "ready"
         /\ wq' = [wq EXCEPT ![m] = "delivered"]
         /\ held' = [held EXCEPT ![i] = m]
    /\ pc' = [pc EXCEPT ![i] = "ack"]
    /\ UNCHANGED <<pub, token, chan, ackNet, History>>

(* process_messages: msg.ack().await, then process_message(msg). The ack   *)
(* is queued on the connection (an ack error is only logged); the message  *)
(* is decoded, narrowed and sent on the channel, or the error is logged    *)
(* and the loop goes on. Nothing between the await's return and the send  *)
(* suspends.                                                               *)
AckAndForward(i) ==
    LET m == held[i] IN
    /\ pc[i] = "ack"
    /\ ackNet' = ackNet \cup {<<i, m>>}
    /\ chan' = IF IsRebaseRequest(m)
                 THEN [chan EXCEPT ![i] = Append(@, m)] ELSE chan
    /\ pc' = [pc EXCEPT ![i] = "recv"]
    /\ held' = [held EXCEPT ![i] = None]
    /\ UNCHANGED <<pub, wq, token, rebased, lost, crashes, spurious, ackLosses>>

(* run(): the shutdown token wins the select. The process_messages future *)
(* is dropped at its await: a message whose ack had not been queued is     *)
(* dropped unacked. tracker.close() and tracker.wait() return at once, as  *)
(* nothing was spawned on the tracker.                                     *)
Cancel(i) ==
    /\ pc[i] \in {"recv", "ack"}
    /\ token' = [token EXCEPT ![i] = TRUE]
    /\ pc' = [pc EXCEPT ![i] = "done"]
    /\ held' = [held EXCEPT ![i] = None]
    /\ UNCHANGED <<Bus, chan, ackNet, History>>

(* RebaserRequestWorkQueue::create in a restarted process: a fresh token   *)
(* and an empty channel, attached to the same durable consumer.            *)
Restart(i) ==
    /\ pc[i] = "crashed"
    /\ pc' = [pc EXCEPT ![i] = "recv"]
    /\ token' = [token EXCEPT ![i] = FALSE]
    /\ UNCHANGED <<Bus, held, chan, ackNet, History>>

(* The rebaser of the process takes the next request from the channel.     *)
Rebase(i) ==
    /\ pc[i] # "crashed"
    /\ chan[i] # <<>>
    /\ rebased' = [rebased EXCEPT ![Head(chan[i])] = @ + 1]
    /\ chan' = [chan EXCEPT ![i] = Tail(@)]
    /\ UNCHANGED <<Bus, pc, token, held, ackNet, lost, crashes, spurious, ackLosses>>

(* The process dies: the message in hand, the acks not yet flushed and the *)
(* requests waiting in the channel are gone.                               *)
Crash(i) ==
    /\ pc[i] # "crashed"
    /\ crashes[i] < MaxCrashes
    /\ crashes' = [crashes EXCEPT ![i] = @ + 1]
    /\ pc' = [pc EXCEPT ![i] = "crashed"]
    /\ held' = [held EXCEPT ![i] = None]
    /\ ackNet' = {a \in ackNet : a[1] # i}
    /\ lost' = lost \cup {chan[i][k] : k \in DOMAIN chan[i]}
    /\ chan' = [chan EXCEPT ![i] = <<>>]
    /\ UNCHANGED <<Bus, token, rebased, spurious, ackLosses>>

(* The broker receives an ack: the work-queue stream removes the message,  *)
(* also when it had already been queued for redelivery.                    *)
AckArrives(a) ==
    /\ a \in ackNet
    /\ ackNet' = ackNet \ {a}
    /\ wq' = [wq EXCEPT ![a[2]] = "removed"]
    /\ UNCHANGED <<pub, Instance, History>>

(* An ack is dropped on the way to the broker.                             *)
AckLost(a) ==
    /\ a \in ackNet
    /\ ackLosses < MaxAckLosses
    /\ ackLosses' = ackLosses + 1
    /\ ackNet' = ackNet \ {a}
    /\ UNCHANGED <<Bus, Instance, rebased, lost, crashes, spurious>>

(* The ack-wait timer of a delivered message expires and the broker makes  *)
(* it available for redelivery. Expiries racing a live holder's ack are    *)
(* bounded by MaxSpurious; expiries of orphaned messages are not.          *)
AckWaitExpires(m) ==
    /\ wq[m] = "delivered"
    /\ Orphaned(m) \/ spurious < MaxSpurious
    /\ spurious' = IF Orphaned(m) THEN spurious ELSE spurious + 1
    /\ wq' = [wq EXCEPT ![m] = "ready"]
    /\ UNCHANGED <<pub, Instance, ackNet, rebased, lost, crashes, ackLosses>>

Next ==
    \/ \E m \in Requests : Publish(m) \/ PublishFailed(m) \/ AckWaitExpires(m)
    \/ \E i \in Instances :
         \/ Receive(i) \/ AckAndForward(i) \/ Cancel(i)
         \/ Restart(i) \/ Rebase(i) \/ Crash(i)
    \/ \E a \in ackNet : AckArrives(a) \/ AckLost(a)

(* The tokio runtime keeps polling every live task, the network delivers   *)
(* the acks it does not drop, the broker's timers fire, and a crashed      *)
(* process is restarted by its supervisor.                                 *)
Fairness ==
    /\ \A i \in Instances :
         /\ WF_vars(Receive(i)) /\ WF_vars(AckAndForward(i))
         /\ WF_vars(Rebase(i)) /\ WF_vars(Restart(i))
    /\ \A m \in Requests : WF_vars(AckWaitExpires(m))
    /\ WF_vars(\E a \in ackNet : AckArrives(a))

Spec == Init /\ [][Next]_vars /\ Fairness

-----------------------------------------------------------------------------
TypeOK ==
    /\ pub \in [Requests -> {"none", "confirmed", "failed"}]
    /\ wq \in [Requests -> {"absent", "ready", "delivered", "removed"}]
    /\ pc \in [Instances -> {"recv", "ack", "done", "crashed"}]
    /\ token \in [Instances -> BOOLEAN]
    /\ held \in [Instances -> Requests \cup {None}]
    /\ \A i \in Instances : (held[i] # None) <=> (pc[i] = "ack")
    /\ ackNet \subseteq Instances \X Requests
    /\ chan \in [Instances -> Seq(Requests)]
    /\ rebased \in [Requests -> Nat]
    /\ lost \subseteq Requests
    /\ crashes \in [Instances -> 0..MaxCrashes]
    /\ spurious \in 0..MaxSpurious
    /\ ackLosses \in 0..MaxAckLosses

InChannel(m) == \E i \in Instances : \E k \in DOMAIN chan[i] : chan[i][k] = m

(* The abstract work queue under a refinement mapping: queued is ready or  *)
(* delivered at the broker; handed over is rebased, waiting in a channel,  *)
(* or lost with a crashed channel (a channel the request had reached).     *)
Abstract == INSTANCE WorkQueue WITH
    Items <- Requests,
    Poison <- Malformed,
    queue <- {m \in Requests : wq[m] \in {"ready", "delivered"}},
    handed <- {m \in Requests : rebased[m] > 0 \/ m \in lost \/ InChannel(m)},
    removed <- {m \in Requests : wq[m] = "removed"}

(* process_messages with the broker implements the work queue: the broker  *)
(* deletes a request only after some instance acked it and, in the same    *)
(* poll, forwarded it (or dropped it as undecodable); no instance forwards *)
(* a request that was never stored; cancellation, crashes, lost acks and   *)
(* ack-wait expiries never take a request back out of a channel's history. *)
ImplementsWorkQueue == Abstract!Spec

(* Every confirmed, well-formed rebase request eventually reaches a        *)
(* rebaser, unless a crash destroyed the channel holding it after the      *)
(* broker had removed it, or every instance's shutdown token has been      *)
(* cancelled.                                                              *)
EventuallyRebased ==
    \A m \in Requests :
        (pub[m] = "confirmed" /\ IsRebaseRequest(m))
            ~> (\/ rebased[m] > 0
                \/ (m \in lost /\ wq[m] = "removed")
                \/ \A i \in Instances : token[i])

(* spec.md section 8: a request on the work queue is delivered to exactly  *)
(* one instance, never to more than one.                                   *)
AtMostOnceRebased ==
    \A m \in Requests : rebased[m] <= 1
=============================================================================
