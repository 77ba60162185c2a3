------------------------------- MODULE Broker -------------------------------
(***************************************************************************)
(* RabbitMQ (external), as api-gateway/internal/queue/publisher.go and     *)
(* scheduler-service/cron/scheduler.go declare it: the queue execution.run *)
(* dead-letters a rejected message into execution.retry, whose TTL sends   *)
(* it back to execution.run.                                               *)
(*                                                                         *)
(* Every execution id is published at most once, so a message is named by  *)
(* its execution and the queues are one function from executions to the    *)
(* place of their message.  Delivering any message of execution.run rather *)
(* than the oldest covers every order the FIFO queue can produce, the      *)
(* reordering by requeues and by per-message TTLs included.                *)
(***************************************************************************)
EXTENDS Naturals, Models

CONSTANT
    MaxRetries    \* queue.MaxRetries: drop permanently after this many deaths

ASSUME MaxRetriesAssumption == MaxRetries \in Nat

VARIABLES
    place,        \* where the message of an execution is
    deaths        \* x-death[0].count of that message, as deathCount reads it

brokerVars == <<place, deaths>>

Places == {"none",    \* never stored by the broker
           "run",     \* ready in execution.run
           "held",    \* delivered to a consumer and not yet acknowledged
           "retry",   \* in execution.retry, waiting for its TTL
           "gone"}    \* acknowledged

BrokerInit ==
    /\ place = [e \in Executions |-> "none"]
    /\ deaths = [e \in Executions |-> 0]

Move(e, from, to) ==
    /\ place[e] = from
    /\ place' = [place EXCEPT ![e] = to]

\* Exchange "workflows" routes execution.run to the run queue.
Enqueue(e) == Move(e, "none", "run") /\ UNCHANGED deaths

\* basic.deliver to a consumer with manual acknowledgement (autoAck = false).
Hand(e) == Move(e, "run", "held") /\ UNCHANGED deaths

\* Ack(false).
Acknowledge(e) == Move(e, "held", "gone") /\ UNCHANGED deaths

\* Mutant of Reject: Nack(false, true), straight back to the run queue.
RejectAndRequeue(e) == Move(e, "held", "run") /\ UNCHANGED deaths

\* Nack(false, false): dead-lettered through workflows.dlx to execution.retry.
Reject(e) == Move(e, "held", "retry") /\ UNCHANGED deaths

\* Mutant of Expire: execution.retry without x-message-ttl.
ExpireNever(e) == Move(e, "retry", "retry") /\ UNCHANGED deaths

\* The TTL of execution.retry: the message returns to execution.run, and the
\* "expired" entry that now heads x-death counts one more round.
Expire(e) ==
    /\ Move(e, "retry", "run")
    /\ deaths' = [deaths EXCEPT ![e] = @ + 1]

\* The channels that held these messages are closed: they are ready again.  A requeue
\* adds no x-death entry.
Requeue(messages) ==
    /\ place' = [e \in Executions |-> IF e \in messages THEN "run" ELSE place[e]]
    /\ UNCHANGED deaths

\* deathCount(headers) >= MaxRetries.  Its mutant allows one more round.
ExhaustedLate(count) == count > MaxRetries
Exhausted(count) == count >= MaxRetries

BrokerTypeOK ==
    /\ place \in [Executions -> Places]
    /\ deaths \in [Executions -> 0..MaxRetries]
=============================================================================
