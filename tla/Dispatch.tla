------------------------------ MODULE Dispatch ------------------------------
(***************************************************************************)
(* The path of an execution from its trigger to its end: api-gateway's     *)
(* webhook and scheduler-service create the row and publish the message,   *)
(* api-gateway's worker pool consumes it and calls the execution-engine,   *)
(* and acknowledges or rejects the message by what the call returned.      *)
(* Composes Broker (the queues) and Engine (the RunExecution handlers and  *)
(* the rows) with the triggers, the workers and the failures between them. *)
(***************************************************************************)
EXTENDS Broker, Engine

CONSTANTS
    Scheduled,     \* executions created by scheduler-service; the webhook creates the others
    Workers,       \* the consumer goroutines: RabbitMQ.WorkerCount
    NoRun,         \* no call in flight
    MaxOutages     \* bound on gateway crashes, lost connections and closed channels

ASSUME ScheduledAssumption == Scheduled \subseteq Executions
ASSUME WorkersAssumption == IsFiniteSet(Workers)
ASSUME NoRunAssumption == NoRun \notin Runs
ASSUME MaxOutagesAssumption == MaxOutages \in Nat

VARIABLES
    trig,       \* how far the trigger of an execution has got
    gateway,    \* "up" or "down"
    open,       \* the workers whose channel is open; the others consume no more
    job,        \* the execution whose delivery a worker handles
    seen,       \* the x-death count in the headers of that delivery
    rpc,        \* the call a worker waits for
    calls,      \* history: RunExecution calls made for an execution
    requeued,   \* history: times its message went back because a channel was closed
    dropped,    \* history: executions dropped as "permanently failed"
    outages     \* history: gateway crashes and losses of channels so far

triggerVars == <<trig>>
poolVars == <<gateway, open>>
workerVars == <<job, seen, rpc>>
historyVars == <<calls, requeued, dropped, outages>>
vars == <<brokerVars, engineVars, triggerVars, poolVars, workerVars, historyVars>>

TriggerPhases == {"idle", "checked", "created", "published", "failed"}

Init ==
    /\ BrokerInit
    /\ status = [e \in Executions |-> "none"]
    /\ EngineInit
    /\ trig = [e \in Executions |-> "idle"]
    /\ gateway = "up"
    /\ open = Workers
    /\ job = [w \in Workers |-> NoExec]
    /\ seen = [w \in Workers |-> 0]
    /\ rpc = [w \in Workers |-> NoRun]
    /\ calls = [e \in Executions |-> 0]
    /\ requeued = [e \in Executions |-> 0]
    /\ dropped = {}
    /\ outages = 0
-----------------------------------------------------------------------------
(* The triggers: TriggerWorkflow, and the scheduler's checkAndTrigger.      *)

TriggerAt(e, from, to) ==
    /\ e \in Scheduled \/ gateway = "up"
    /\ trig[e] = from
    /\ trig' = [trig EXCEPT ![e] = to]
    /\ UNCHANGED <<poolVars, workerVars, historyVars>>

\* The workflow is read: it must not be deleted.  Neither trigger looks again.
CheckWorkflow(e) ==
    /\ TriggerAt(e, "idle", "checked")
    /\ WorkflowOf[e] \in alive
    /\ UNCHANGED <<brokerVars, engineVars>>

\* The scheduler goes through the workflows one by one.
ScheduledInTurn(e) ==
    e \in Scheduled => \A x \in Scheduled : trig[x] # "created"

\* INSERT INTO executions with status "pending".
CreateExecution(e) ==
    /\ ScheduledInTurn(e)
    /\ TriggerAt(e, "checked", "created")
    /\ status' = [status EXCEPT ![e] = "pending"]
    /\ UNCHANGED <<brokerVars, alive, run, hurt>>

\* The insert fails: the webhook returns the error, the scheduler goes on.
CreateFails(e) ==
    /\ "query" \in Faults
    /\ TriggerAt(e, "checked", "idle")
    /\ UNCHANGED <<brokerVars, engineVars>>

\* Mutant of Publish: the message is published before its row is created.
PublishFirst(e) ==
    /\ place[e] = "none" /\ trig[e] = "checked"
    /\ Enqueue(e)
    /\ UNCHANGED <<engineVars, trig, poolVars, workerVars, historyVars>>

Publish(e) ==
    /\ TriggerAt(e, "created", "published")
    /\ Enqueue(e)
    /\ UNCHANGED engineVars

\* The channel is not in confirm mode: Publish may return nil for a message the
\* broker never stores.
PublishLost(e) ==
    /\ "publish" \in Faults
    /\ TriggerAt(e, "created", "published")
    /\ UNCHANGED <<brokerVars, engineVars>>

\* Publish returns an error; the row stays.
PublishFails(e) ==
    /\ "publish" \in Faults
    /\ TriggerAt(e, "created", "failed")
    /\ UNCHANGED <<brokerVars, engineVars>>

TriggerStep(e) ==
    \/ CheckWorkflow(e) \/ CreateExecution(e) \/ CreateFails(e)
    \/ Publish(e) \/ PublishLost(e) \/ PublishFails(e)

\* What is left of the triggers of a process that dies.
AfterDeath(mine) ==
    [e \in Executions |->
       CASE e \in mine /\ trig[e] = "checked" -> "idle"
         [] e \in mine /\ trig[e] = "created" -> "failed"
         [] OTHER -> trig[e]]

\* scheduler-service dies between two statements of trigger; compose restarts it.
SchedulerCrash ==
    /\ "scheduler" \in Faults
    /\ \E e \in Scheduled : trig[e] \in {"checked", "created"}
    /\ trig' = AfterDeath(Scheduled)
    /\ UNCHANGED <<brokerVars, engineVars, poolVars, workerVars, historyVars>>
-----------------------------------------------------------------------------
(* The worker pool: consume and handle.                                     *)

\* Worker w returns from handle and waits for the next delivery.
Release(w) ==
    /\ job' = [job EXCEPT ![w] = NoExec]
    /\ seen' = [seen EXCEPT ![w] = 0]
    /\ rpc' = [rpc EXCEPT ![w] = NoRun]

\* d.Ack and d.Nack return an error, ignored, once the channel of the delivery is closed.
IfOpen(w, A) == IF w \in open THEN A ELSE UNCHANGED brokerVars
AckDelivery(w) == Release(w) /\ IfOpen(w, Acknowledge(job[w]))
NackDelivery(w) == Release(w) /\ IfOpen(w, Reject(job[w]))

\* Each worker has a channel of its own, with Qos(1): the broker sends it nothing while
\* it holds a delivery.
Deliver(w, e) ==
    /\ w \in open
    /\ job[w] = NoExec
    /\ Hand(e)
    /\ job' = [job EXCEPT ![w] = e]
    /\ seen' = [seen EXCEPT ![w] = deaths[e]]
    /\ UNCHANGED <<engineVars, trig, poolVars, rpc, historyVars>>

\* Worker w has a delivery and has not called the engine yet.  The message is well
\* formed and its execution exists (CreateExecution precedes Publish), so the
\* branches of handle for a bad body and a missing execution cannot be taken.
Handling(w) == job[w] # NoExec /\ rpc[w] = NoRun

Drop(w) ==
    /\ Handling(w) /\ Exhausted(seen[w])
    /\ AckDelivery(w)
    /\ dropped' = IF w \in open THEN dropped \cup {job[w]} ELSE dropped
    /\ UNCHANGED <<engineVars, trig, poolVars, calls, requeued, outages>>

\* Mutant of FailsBeforeCall: Nack(false, true) and no return, so the message is ready for
\* the next worker while this one goes on to its call.
FailsAndGoesOn(w) ==
    /\ Faults \cap {"query", "rpc"} # {}
    /\ Handling(w) /\ ~Exhausted(seen[w])
    /\ IfOpen(w, RejectAndRequeue(job[w]))
    /\ UNCHANGED <<engineVars, trig, poolVars, workerVars, historyVars>>

\* The lookup of the execution fails, or the engine cannot be reached.
FailsBeforeCall(w) ==
    /\ Faults \cap {"query", "rpc"} # {}
    /\ Handling(w) /\ ~Exhausted(seen[w])
    /\ NackDelivery(w)
    /\ UNCHANGED <<engineVars, trig, poolVars, historyVars>>

Call(w, r) ==
    /\ Handling(w) /\ ~Exhausted(seen[w])
    /\ Accept(r, job[w])
    /\ rpc' = [rpc EXCEPT ![w] = r]
    /\ calls' = [calls EXCEPT ![job[w]] = @ + 1]
    /\ UNCHANGED <<brokerVars, trig, poolVars, job, seen, requeued, dropped, outages>>

ReplyIs(w, results) == rpc[w] # NoRun /\ run[rpc[w]].pc = "reply" /\ run[rpc[w]].result \in results

\* A response, whatever its status: Ack.
ReplyOk(w) ==
    /\ ReplyIs(w, Terminal)
    /\ Collect(rpc[w])
    /\ AckDelivery(w)
    /\ UNCHANGED <<trig, poolVars, historyVars>>

\* Mutant of ReplyError: the error of the engine is acknowledged like a response.
ReplyErrorAcked(w) ==
    /\ ReplyIs(w, {"missing", "error"})
    /\ Collect(rpc[w])
    /\ AckDelivery(w)
    /\ UNCHANGED <<trig, poolVars, historyVars>>

\* The engine returned an error: Nack, whatever the error.
ReplyError(w) ==
    /\ ReplyIs(w, {"missing", "error"})
    /\ Collect(rpc[w])
    /\ NackDelivery(w)
    /\ UNCHANGED <<trig, poolVars, historyVars>>

\* The call breaks: the engine died, or the connection did.  In the second case the
\* run goes on, or has even finished.
CallBreaks(w) ==
    /\ rpc[w] # NoRun
    /\ run[rpc[w]].pc = "reset" \/ "rpc" \in Faults
    /\ Detach(rpc[w])
    /\ NackDelivery(w)
    /\ UNCHANGED <<trig, poolVars, historyVars>>

WorkerStep(w) ==
    \/ Drop(w) \/ FailsBeforeCall(w) \/ \E r \in Runs : Call(w, r)
    \/ ReplyOk(w) \/ ReplyError(w) \/ CallBreaks(w)
-----------------------------------------------------------------------------
(* Outages.                                                                 *)

\* The executions whose messages these workers hold unacknowledged.
HeldBy(workers) == {e \in Executions : \E w \in workers \cap open : job[w] = e}

\* The channels of these workers are gone, and what they held is ready again.
Disconnect(workers) ==
    /\ outages < MaxOutages
    /\ outages' = outages + 1
    /\ open' = open \ workers
    /\ Requeue(HeldBy(workers))
    /\ requeued' = [e \in Executions |->
                      IF e \in HeldBy(workers) THEN requeued[e] + 1 ELSE requeued[e]]
    /\ UNCHANGED <<calls, dropped>>

\* A worker whose channel is closed finishes its current job, then returns for good:
\* nothing opens another.  The publisher has a connection of its own.
ChannelsClosed(workers) ==
    /\ "connection" \in Faults
    /\ workers \cap open # {}
    /\ Disconnect(workers)
    /\ UNCHANGED <<engineVars, trig, gateway, workerVars>>

\* The pool's connection breaks, and all its channels with it.
ConnectionLost == ChannelsClosed(Workers)

\* RabbitMQ closes one channel: a delivery on it has been unacknowledged for longer than
\* its consumer timeout, say, since RunExecution takes as long as the steps do.
ChannelClosed(w) == ChannelsClosed({w})

\* api-gateway dies, or is shut down: its requests, its workers and their calls end.
GatewayCrash ==
    /\ "gateway" \in Faults
    /\ gateway = "up"
    /\ gateway' = "down"
    /\ Disconnect(Workers)
    /\ trig' = AfterDeath(Executions \ Scheduled)
    /\ job' = [w \in Workers |-> NoExec]
    /\ seen' = [w \in Workers |-> 0]
    /\ rpc' = [w \in Workers |-> NoRun]
    /\ run' = [r \in Runs |-> IF run[r].attached THEN WithoutCaller(r) ELSE run[r]]
    /\ UNCHANGED <<status, alive, hurt>>

\* main: if the pool cannot start, a warning is printed and the server starts anyway; a
\* worker whose Consume fails returns, and the others go on.
GatewayStart(consuming) ==
    /\ gateway = "down"
    /\ consuming = Workers \/ "connection" \in Faults
    /\ gateway' = "up" /\ open' = consuming
    /\ UNCHANGED <<brokerVars, engineVars, trig, workerVars, historyVars>>

Delete(f) ==
    /\ gateway = "up"
    /\ DeleteWorkflow(f)
    /\ UNCHANGED <<brokerVars, trig, poolVars, workerVars, historyVars>>

BrokerStep(e) ==
    /\ Expire(e)
    /\ UNCHANGED <<engineVars, trig, poolVars, workerVars, historyVars>>

EngineStep(r) ==
    /\ RunStep(r)
    /\ UNCHANGED <<brokerVars, trig, poolVars, workerVars, historyVars>>

EngineDies ==
    /\ EngineCrash
    /\ UNCHANGED <<brokerVars, trig, poolVars, workerVars, historyVars>>

Next ==
    \/ \E e \in Executions : TriggerStep(e) \/ BrokerStep(e)
    \/ \E w \in Workers :
         WorkerStep(w) \/ ChannelClosed(w) \/ \E e \in Executions : Deliver(w, e)
    \/ \E r \in Runs : EngineStep(r)
    \/ \E f \in Workflows : Delete(f)
    \/ \E consuming \in SUBSET Workers : GatewayStart(consuming)
    \/ SchedulerCrash \/ ConnectionLost \/ GatewayCrash \/ EngineDies

Spec == Init /\ [][Next]_vars

\* RabbitMQ delivers ready messages and expires TTLs; the goroutines of the pool and
\* of the engine run, and every step of a run ends (30 s timeout per step).  Nothing
\* is assumed of triggers, deletions, faults or the restart of api-gateway.
Fairness ==
    /\ \A e \in Executions : WF_vars(BrokerStep(e)) /\ WF_vars(\E w \in Workers : Deliver(w, e))
    /\ \A w \in Workers : WF_vars(WorkerStep(w))
    /\ \A r \in Runs : WF_vars(EngineStep(r))

\* The triggers are goroutines too: one that has begun takes its next step.
TriggerFairness == \A e \in Executions : WF_vars(trig[e] # "idle" /\ TriggerStep(e))

FairSpec == Spec /\ Fairness
PromptSpec == FairSpec /\ TriggerFairness
-----------------------------------------------------------------------------
TypeOK ==
    /\ BrokerTypeOK
    /\ EngineTypeOK
    /\ trig \in [Executions -> TriggerPhases]
    /\ gateway \in {"up", "down"} /\ open \subseteq Workers
    /\ job \in [Workers -> Executions \cup {NoExec}]
    /\ seen \in [Workers -> 0..MaxRetries]
    /\ rpc \in [Workers -> Runs \cup {NoRun}]
    /\ calls \in [Executions -> Nat]
    /\ requeued \in [Executions -> Nat]
    /\ dropped \subseteq Executions
    /\ outages \in 0..MaxOutages

\* However triggers, workers, retries and restarts interleave, two workers wait for runs
\* of the same execution only where the channel of one of them was closed under its
\* delivery: of those whose answer still counts there is one at most.
OverlapHasCause ==
    \A w, v \in Workers :
        w # v /\ rpc[w] # NoRun /\ rpc[v] # NoRun /\ job[w] = job[v] =>
            /\ w \notin open \/ v \notin open
            /\ requeued[job[w]] > 0

\* The retry limit of publisher.go bounds the work: the engine is called for an
\* execution at most MaxRetries times, and once more for each time a closed channel put
\* its message back (a requeue is not counted in x-death).
BoundedCalls ==
    \A e \in Executions : calls[e] <= MaxRetries + requeued[e]

\* A message acknowledged because the engine answered leaves a finished execution: the
\* row is terminal, or another run of it is between its two writes, unless a status
\* write failed or the engine died in a run of it and no run has written an end since.
Answer(e) == place[e] = "gone" /\ e \notin dropped
AnsweredIsFinished ==
    \A e \in Executions :
        Answer(e) => status[e] \in Terminal \/ Working(e) # {} \/ e \in hurt

\* "running" is true: a run of the execution is between its two writes, with the same
\* two exceptions, which the next run that comes to its end puts right.
RunningIsRun ==
    \A e \in Executions :
        status[e] = "running" => Working(e) # {} \/ e \in hurt

\* An execution that stays "pending" with nobody left to start it has one of the known
\* causes: its publish failed or was lost, its message was dropped after the retries,
\* or its status writes failed.
Uncalled(e) == {w \in Workers : Handling(w) /\ job[w] = e}
Owed(e) ==
    \/ trig[e] = "created"
    \/ place[e] \in {"run", "held", "retry"}
    \/ Uncalled(e) # {}
    \/ Active(e) # {}
StrandedHasCause ==
    \A e \in Executions :
        status[e] = "pending" /\ ~Owed(e) =>
            \/ trig[e] = "failed"
            \/ trig[e] = "published" /\ place[e] = "none"
            \/ e \in dropped
            \/ e \in hurt

\* The queues, calls and crashes together implement the lifecycle: the status moves
\* only while somebody is still to work on the execution, and never back to "pending".
Lifecycle == INSTANCE ExecutionLifecycle WITH owed <- {e \in Executions : Owed(e)}
ImplementsLifecycle == Lifecycle!Spec

\* A retry needs a fault: while the engine has been called only once for an execution,
\* its terminal status stands, whatever becomes of the message, its worker and the
\* caller of that run.
OnlyRetriesReopen ==
    [][\A e \in Executions :
          status[e] \in Terminal /\ status'[e] # status[e] => calls[e] >= 2]_vars

\* A message wears out: every step of it brings it nearer to its end, a rejection by
\* the x-death entry to come, and losing its channel puts it back by one delivery and no
\* more.
Rank(e) ==
    IF place[e] = "gone" THEN 0
    ELSE 3 * (MaxRetries - deaths[e])
         + (CASE place[e] = "run" -> 3 [] place[e] = "held" -> 2 [] OTHER -> 1)
MessagesWearOut ==
    [][\A e \in Executions :
          place[e] # "none" =>
             \/ place'[e] = place[e] /\ deaths'[e] = deaths[e]
             \/ Rank(e)' < Rank(e)
             \/ outages' # outages /\ Rank(e)' <= Rank(e) + 1]_vars

\* If some worker keeps its channel in the end, every message settles: retries, requeues and
\* concurrent messages cannot keep one in the queues for ever, orphaned runs come to
\* their end, and then the execution has ended too, unless it was dropped or a run of
\* it was killed and none came to its end after that.
Settled(e) ==
    /\ place[e] = "gone" /\ Active(e) = {}
    /\ status[e] \in Terminal \/ e \in dropped \/ e \in hurt
Settles ==
    <>[](open # {}) =>
        \A e \in Executions : place[e] = "run" ~> Settled(e)

\* Without faults a trigger that has read its workflow leads to a finished execution,
\* unless the workflow is deleted meanwhile.
TriggeredFinishes ==
    \A e \in Executions :
        trig[e] = "checked" ~> status[e] \in Terminal \/ WorkflowOf[e] \notin alive
-----------------------------------------------------------------------------
\* What the documentation says, and the code does not do.

\* stage-6-walkthrough: the lifecycle is pending -> running -> success | failed, so
\* an execution that has ended never runs again.
TerminalIsFinal ==
    [][\A e \in Executions : status[e] \in Terminal => status'[e] = status[e]]_vars
=============================================================================
