--------------------------- MODULE LifecycleProofs ---------------------------
(***************************************************************************)
(* The proof that Dispatch implements ExecutionLifecycle: under the        *)
(* inductive invariant of DispatchInv every step either creates an         *)
(* execution, or is a run's work on an execution that is owed, or is quiet.*)
(***************************************************************************)
EXTENDS DispatchProofs

\* No execution becomes owed, and no status moves: a step the abstract specification
\* calls Settle.
Quiet == status' = status /\ \A e \in Executions : Owed(e)' => Owed(e)

\* A run that was active, or none, in the next state.
RunsOnlyEnd ==
    \A r \in Runs : run'[r].pc \in {"load", "start", "steps"} =>
        run'[r].exec = run[r].exec /\ run[r].pc \in {"load", "start", "steps"}

\* Runs that only go on or end make no execution active.
LEMMA ActiveShrinks == RunsOnlyEnd => \A e \in Executions : Active(e)' \subseteq Active(e)
BY DEF RunsOnlyEnd, Active

\* A trigger other than the insert hands its execution on to the queue, or lets it go.
LEMMA TriggerQuiet ==
    ASSUME IInv, NEW e \in Executions, TriggerStep(e), ~CreateExecution(e)
    PROVE  Quiet
<1> USE DEF TriggerAt, brokerVars, engineVars, workerVars, IInv, TypeOK, BrokerTypeOK, Quiet, Owed,
          Active, Uncalled, Handling
<1>1. CASE Publish(e)
  BY <1>1 DEF Publish, Enqueue, Move
<1>2. CASE CheckWorkflow(e) \/ CreateFails(e) \/ PublishLost(e) \/ PublishFails(e)
  BY <1>2 DEF CheckWorkflow, CreateFails, PublishLost, PublishFails
<1> QED
  BY <1>1, <1>2 DEF TriggerStep

\* A worker keeps its message owed until it acknowledges it, and calls only for a
\* message it holds, or one that went back to the queue when its channel was closed.
LEMMA WorkerQuiet ==
    ASSUME IInv, NEW w \in Workers, WorkerStep(w)
    PROVE  Quiet
<1> USE DEF IInv
<1>1. rpc[w] # NoRun => rpc[w] \in Runs
  BY DEF TypeOK
<1>2. AckDelivery(w) \/ NackDelivery(w) =>
        \A e \in Executions : place'[e] \in {"run", "held", "retry"} =>
                                 place[e] \in {"run", "held", "retry"}
  BY DEF AckDelivery, NackDelivery, IfOpen, Acknowledge, Reject, Move, TypeOK,
         BrokerTypeOK, brokerVars
<1>7. AckDelivery(w) \/ NackDelivery(w) => \A e \in Executions : Uncalled(e)' \subseteq Uncalled(e)
  BY ReleaseUncalled DEF AckDelivery, NackDelivery
<1>3. CASE Drop(w) \/ FailsBeforeCall(w)
  BY <1>2, <1>3, <1>7 DEF Drop, FailsBeforeCall, engineVars, Quiet, Owed, Active
<1>4. ASSUME NEW r \in Runs, Call(w, r)
      PROVE  Quiet
  <2>1. job[w] \in Executions /\ w \in Uncalled(job[w])
    BY <1>4 DEF Call, Handling, TypeOK, Uncalled
  <2>2. ASSUME NEW e \in Executions, e # job[w]
        PROVE  Active(e)' \subseteq Active(e)
    BY <1>4, <2>2 DEF Call, Accept, Active, TypeOK, EngineTypeOK
  <2>3. \A e \in Executions : Uncalled(e)' \subseteq Uncalled(e)
    BY <1>4 DEF Call, Uncalled, Handling, TypeOK
  <2> QED
    BY <1>4, <2>1, <2>2, <2>3 DEF Call, Accept, brokerVars, Quiet, Owed
<1>5. CASE ReplyOk(w) \/ ReplyError(w)
  <2>1. RunsOnlyEnd
    BY <1>1, <1>5 DEF ReplyOk, ReplyError, ReplyIs, Collect, RunsOnlyEnd, TypeOK, EngineTypeOK, Idle
  <2> QED
    BY <1>2, <1>5, <1>7, <2>1, ActiveShrinks DEF ReplyOk, ReplyError, Collect, Quiet, Owed
<1>6. CASE CallBreaks(w)
  <2>1. WellFormed(run[rpc[w]]) /\ run[rpc[w]] \in RunRecord
    BY <1>1, <1>6 DEF CallBreaks, RunsWellFormed, TypeOK, EngineTypeOK
  <2>2. RunsOnlyEnd
    BY <1>1, <1>6, <2>1, WithoutCallerFields
       DEF CallBreaks, Detach, RunsOnlyEnd, TypeOK, EngineTypeOK, Idle
  <2> QED
    BY <1>2, <1>6, <1>7, <2>2, ActiveShrinks DEF CallBreaks, Detach, Quiet, Owed
<1> QED
  BY <1>3, <1>4, <1>5, <1>6 DEF WorkerStep

\* Deliveries, expiries and outages move messages between places that are all owed.
LEMMA QueueQuiet ==
    ASSUME IInv,
           \/ \E w \in Workers, e \in Executions : Deliver(w, e)
           \/ \E e \in Executions : BrokerStep(e)
           \/ \E workers \in SUBSET Workers : ChannelsClosed(workers)
           \/ \E consuming \in SUBSET Workers : GatewayStart(consuming)
           \/ \E f \in Workflows : Delete(f)
           \/ SchedulerCrash
    PROVE  Quiet
<1> USE DEF IInv, brokerVars, engineVars, workerVars, Quiet, Owed, Active, Uncalled, Handling, TypeOK,
          BrokerTypeOK
<1>1. CASE \E w \in Workers, e \in Executions : Deliver(w, e)
  BY <1>1 DEF Deliver, Hand, Move
<1>2. CASE \E e \in Executions : BrokerStep(e)
  BY <1>2 DEF BrokerStep, Expire, Move
<1>3. CASE \E workers \in SUBSET Workers : ChannelsClosed(workers)
  BY <1>3, HeldByFacts DEF ChannelsClosed, Disconnect, Requeue
<1>4. CASE (\E consuming \in SUBSET Workers : GatewayStart(consuming)) \/ \E f \in Workflows : Delete(f)
  BY <1>4 DEF GatewayStart, Delete, DeleteWorkflow
<1>5. CASE SchedulerCrash
  BY <1>5 DEF SchedulerCrash, AfterDeath
<1> QED
  BY <1>1, <1>2, <1>3, <1>4, <1>5

\* The deaths of the processes only end triggers, calls and runs.
LEMMA CrashQuiet ==
    ASSUME IInv, GatewayCrash \/ EngineDies
    PROVE  Quiet
<1> USE DEF IInv
<1>1. CASE GatewayCrash
  <2>1. RunsOnlyEnd
    <3> SUFFICES ASSUME NEW r \in Runs, run'[r].pc \in {"load", "start", "steps"}
                 PROVE  run'[r].exec = run[r].exec /\ run[r].pc \in {"load", "start", "steps"}
      BY DEF RunsOnlyEnd
    <3>1. run'[r] = IF run[r].attached THEN WithoutCaller(r) ELSE run[r]
      BY <1>1 DEF GatewayCrash
    <3>2. WellFormed(run[r]) /\ run[r] \in RunRecord
      BY DEF RunsWellFormed, TypeOK, EngineTypeOK
    <3> QED
      BY <3>1, <3>2, WithoutCallerFields DEF Idle
  <2> QED
    BY <1>1, <2>1, ActiveShrinks, HeldByFacts
       DEF GatewayCrash, Disconnect, Requeue, AfterDeath, Uncalled, Handling, Quiet, Owed, TypeOK,
           BrokerTypeOK
<1>2. CASE EngineDies
  <2>1. RunsOnlyEnd
    BY <1>2, CrashedFields DEF EngineDies, RunsOnlyEnd, TypeOK, Idle
  <2> QED
    BY <1>2, <2>1, ActiveShrinks
       DEF EngineDies, EngineCrash, brokerVars, workerVars, Uncalled, Handling, Quiet, Owed
<1> QED
  BY <1>1, <1>2

\* The insert makes exactly its own execution owed.
LEMMA CreateMaps ==
    ASSUME IInv, NEW e \in Executions, CreateExecution(e)
    PROVE  Lifecycle!Create(e)
<1>1. status[e] = "none"
  BY DEF CreateExecution, TriggerAt, IInv, RowBeforeMessage
<1>2. \A x \in Executions : Owed(x)' <=> Owed(x) \/ x = e
  BY DEF CreateExecution, TriggerAt, brokerVars, workerVars, Owed, Active, Uncalled, Handling, IInv,
         TypeOK
<1> QED
  BY <1>1, <1>2 DEF CreateExecution, Lifecycle!Create

\* A run writes only for its own execution, which it keeps owed; its last write may
\* leave the execution to nobody.
LEMMA RunMaps ==
    ASSUME IInv, NEW r \in Runs, EngineStep(r)
    PROVE  Quiet \/ Lifecycle!Work(run[r].exec)
<1> DEFINE e == run[r].exec
<1> USE DEF IInv
<1>1. run[r].pc # "idle" /\ run[r].pc \in {"load", "start", "steps"}
  BY DEF EngineStep, RunStep, Load, LoadMissing, LoadError, Start, Finish
<1>2. e \in Executions /\ WellFormed(run[r]) /\ run[r] \in RunRecord
  BY <1>1 DEF RunsWellFormed, WellFormed, TypeOK, EngineTypeOK
<1>3. Owed(e)
  BY <1>1, <1>2 DEF Owed, Active
<1>4. RunsOnlyEnd /\ \A s \in Runs \ {r} : run'[s] = run[s]
  <2>1. CASE Load(r) \/ \E written \in BOOLEAN : Start(r, written)
    BY <2>1, <1>1 DEF Load, Start, RunsOnlyEnd, TypeOK, EngineTypeOK, RunRecord
  <2>2. ASSUME NEW result \in Results, run' = [run EXCEPT ![r] = Answered(r, result)]
        PROVE  RunsOnlyEnd /\ \A s \in Runs \ {r} : run'[s] = run[s]
    <3>1. Answered(r, result).pc \in {"reply", "idle"}
      BY <1>1, <1>2, AnsweredFields DEF Idle
    <3> QED
      BY <2>2, <3>1 DEF RunsOnlyEnd, TypeOK, EngineTypeOK
  <2>3. CASE LoadMissing(r) \/ LoadError(r)
    BY <2>2, <2>3 DEF LoadMissing, LoadError, Results
  <2>4. CASE \E result \in Terminal, written \in BOOLEAN : Finish(r, result, written)
    BY <2>2, <2>4 DEF Finish, Results
  <2> QED
    BY <2>1, <2>3, <2>4 DEF EngineStep, RunStep
<1>5. \A x \in Executions : Owed(x)' => Owed(x)
  BY <1>4, ActiveShrinks DEF EngineStep, brokerVars, workerVars, Uncalled, Handling, Owed
<1>6. \A x \in Executions \ {e} : Owed(x) => Owed(x)'
  <2>1. \A x \in Executions \ {e} : Active(x) \subseteq Active(x)'
    BY <1>4 DEF Active
  <2> QED
    BY <2>1 DEF EngineStep, brokerVars, workerVars, Uncalled, Handling, Owed
<1>7. CASE status' = status
  BY <1>5, <1>7 DEF Quiet
<1>8. CASE status' # status
  <2>1. \E s \in {"running", "success", "failed"} : status' = [status EXCEPT ![e] = s]
    BY <1>8 DEF EngineStep, RunStep, Load, LoadMissing, LoadError, Start, Finish, WriteStatus, Terminal
  <2>2. {x \in Executions : Owed(x)}' \in
            {{x \in Executions : Owed(x)}, {x \in Executions : Owed(x)} \ {e}}
    BY <1>5, <1>6
  <2> QED
    BY <1>2, <1>3, <2>1, <2>2 DEF Lifecycle!Work
<1> QED
  BY <1>7, <1>8

\* The services implement the lifecycle: whatever queues, retries and crashes do, a
\* status moves only while somebody is still to work on its execution, never back to
\* "pending", and never again once nobody is.
THEOREM Refinement == Spec => ImplementsLifecycle
<1>1. Init => Lifecycle!Init
  BY DEF Init, BrokerInit, EngineInit, Idle, Lifecycle!Init, Owed, Active, Uncalled, Handling
<1>2. ASSUME Quiet
      PROVE  Lifecycle!Next
  BY <1>2 DEF Quiet, Lifecycle!Next, Lifecycle!Settle
<1>3. ASSUME IInv, [Next]_vars
      PROVE  [Lifecycle!Next]_(Lifecycle!vars)
  <2>1. ASSUME NEW e \in Executions, TriggerStep(e)
        PROVE  Lifecycle!Next
    BY <2>1, <1>2, <1>3, TriggerQuiet, CreateMaps DEF Lifecycle!Next
  <2>2. ASSUME NEW w \in Workers, WorkerStep(w)
        PROVE  Lifecycle!Next
    BY <2>2, <1>2, <1>3, WorkerQuiet
  <2>3. ASSUME NEW r \in Runs, EngineStep(r)
        PROVE  Lifecycle!Next
    <3>1. run[r].exec \in Executions
      BY <2>3, <1>3 DEF EngineStep, RunStep, Load, LoadMissing, LoadError, Start, Finish, IInv,
                        RunsWellFormed, WellFormed
    <3> QED
      BY <3>1, <2>3, <1>2, <1>3, RunMaps DEF Lifecycle!Next
  <2>4. CASE \/ \E w \in Workers, e \in Executions : Deliver(w, e)
             \/ \E e \in Executions : BrokerStep(e)
             \/ \E workers \in SUBSET Workers : ChannelsClosed(workers)
             \/ \E consuming \in SUBSET Workers : GatewayStart(consuming)
             \/ \E f \in Workflows : Delete(f)
             \/ SchedulerCrash
    BY <2>4, <1>2, <1>3, QueueQuiet
  <2>5. CASE GatewayCrash \/ EngineDies
    BY <2>5, <1>2, <1>3, CrashQuiet
  <2>6. CASE UNCHANGED vars
    BY <2>6 DEF vars, brokerVars, engineVars, triggerVars, workerVars, Lifecycle!vars, Owed, Active,
                Uncalled, Handling
  <2>7. CASE ConnectionLost \/ \E w \in Workers : ChannelClosed(w)
    BY <2>4, <2>7 DEF ConnectionLost, ChannelClosed
  <2> QED
    BY <1>3, <2>1, <2>2, <2>3, <2>4, <2>5, <2>6, <2>7 DEF Next
<1> QED
  BY <1>1, <1>3, Invariance, PTL DEF Spec, ImplementsLifecycle, Lifecycle!Spec
=============================================================================
