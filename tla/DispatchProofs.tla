--------------------------- MODULE DispatchProofs ---------------------------
(***************************************************************************)
(* Proofs about Dispatch for every set of executions, workers and runs,    *)
(* every retry limit and every combination of faults: the inductive        *)
(* invariant IInv of DispatchInv, action by action, and the safety         *)
(* properties that follow from it.                                         *)
(***************************************************************************)
EXTENDS DispatchInv, FiniteSetTheorems, TLAPS


\* The record of a run that has an answer: what its caller sees, or a free slot.
LEMMA AnsweredFields ==
    ASSUME NEW r \in Runs, run[r] \in RunRecord, WellFormed(run[r]), run[r].pc # "idle",
           NEW result \in Results
    PROVE  /\ Answered(r, result) \in RunRecord
           /\ WellFormed(Answered(r, result))
           /\ run[r].attached =>
                 /\ Answered(r, result).pc = "reply"
                 /\ Answered(r, result).attached
                 /\ Answered(r, result).exec = run[r].exec
                 /\ Answered(r, result).result = result
           /\ ~run[r].attached => Answered(r, result) = Idle
<1>1. CASE run[r].attached
  <2>1. Answered(r, result) = [pc |-> "reply", exec |-> run[r].exec,
                               result |-> result, attached |-> TRUE]
    BY <1>1 DEF Answered, RunRecord
  <2>2. QED
    BY <2>1, <1>1 DEF RunRecord, Phases, WellFormed
<1>2. CASE ~run[r].attached
  BY <1>2 DEF Answered, WellFormed, Idle, RunRecord, Phases, Results
<1>3. QED
  BY <1>1, <1>2

\* The record of a run whose caller has gone: the same run, unless it was over.
LEMMA WithoutCallerFields ==
    ASSUME NEW r \in Runs, run[r] \in RunRecord, WellFormed(run[r])
    PROVE  /\ WithoutCaller(r) \in RunRecord
           /\ WellFormed(WithoutCaller(r))
           /\ ~WithoutCaller(r).attached
           /\ run[r].pc \in {"reply", "reset"} => WithoutCaller(r) = Idle
           /\ run[r].pc \notin {"reply", "reset"} =>
                 /\ WithoutCaller(r).pc = run[r].pc
                 /\ WithoutCaller(r).exec = run[r].exec
                 /\ WithoutCaller(r).result = run[r].result
<1>1. CASE run[r].pc \in {"reply", "reset"}
  BY <1>1 DEF WithoutCaller, WellFormed, Idle, RunRecord, Phases, Results
<1>2. CASE run[r].pc \notin {"reply", "reset"}
  <2>1. WithoutCaller(r) = [pc |-> run[r].pc, exec |-> run[r].exec,
                            result |-> run[r].result, attached |-> FALSE]
    BY <1>2 DEF WithoutCaller, RunRecord
  <2>2. WithoutCaller(r) \in RunRecord /\ WithoutCaller(r).pc = run[r].pc
    BY <2>1 DEF RunRecord
  <2>3. ASSUME run[r].pc = "idle"
        PROVE  WithoutCaller(r) = Idle
    <3>1. run[r].exec = NoExec /\ run[r].result = "none"
      BY <2>3 DEF WellFormed, Idle
    <3>2. QED
      BY <2>1, <2>3, <3>1 DEF Idle
  <2>4. QED
    BY <2>1, <2>2, <2>3, <1>2 DEF WellFormed
<1>3. QED
  BY <1>1, <1>2

\* What the death of the engine leaves of a run.
LEMMA CrashedFields ==
    ASSUME EngineTypeOK, RunsWellFormed, EngineCrash, NEW r \in Runs
    PROVE  /\ run'[r] \in RunRecord
           /\ WellFormed(run'[r])
           /\ run[r].attached => /\ run'[r].pc = "reset"
                                 /\ run'[r].attached
                                 /\ run'[r].exec = run[r].exec
           /\ ~run[r].attached => run'[r] = Idle
<1>1. CASE run[r].attached
  <2>1. run'[r] = [pc |-> "reset", exec |-> run[r].exec, result |-> "none", attached |-> TRUE]
    BY <1>1 DEF EngineCrash, EngineTypeOK, RunRecord
  <2>2. QED
    BY <2>1, <1>1 DEF RunRecord, EngineTypeOK, RunsWellFormed, WellFormed, Idle, Phases, Results
<1>2. CASE ~run[r].attached
  BY <1>2 DEF EngineCrash, WellFormed, Idle, RunRecord, Phases, Results
<1>3. QED
  BY <1>1, <1>2

\* A step that makes no call, ends no row and gives no slot another execution keeps an
\* execution called once with its one run.
LEMMA OneRunKept ==
    ASSUME OneCallOneRun, calls' = calls,
           \A e \in Executions : status'[e] \in Terminal => status[e] \in Terminal,
           \A r \in Runs :
              /\ run'[r].exec \in {run[r].exec, NoExec}
              /\ run'[r].pc \in {"load", "start", "steps"} => run[r].pc \in {"load", "start", "steps"}
    PROVE  OneCallOneRun'
<1>1. \A e \in Executions, r \in Runs : run'[r].exec = e => run[r].exec = e
  BY NoExecAssumption
<1>2. \A e \in Executions : Active(e)' \subseteq Active(e)
  BY <1>1 DEF Active
<1> QED
  BY <1>1, <1>2 DEF OneCallOneRun

-----------------------------------------------------------------------------
(* Each action preserves the inductive invariant.                           *)

USE MaxRetriesAssumption, NoExecAssumption, NoRunAssumption, WorkflowOfAssumption,
    MaxOutagesAssumption

\* The workers that have still to call the engine for an execution can be counted.
LEMMA UncalledCount ==
    ASSUME NEW e \in Executions, NEW w \in Workers
    PROVE  /\ IsFiniteSet(Uncalled(e)) /\ Cardinality(Uncalled(e)) \in Nat
           /\ Cardinality(Uncalled(e) \ {w}) \in Nat
           /\ Cardinality(Uncalled(e) \ {w}) <= Cardinality(Uncalled(e))
           /\ w \in Uncalled(e) =>
                 /\ Cardinality(Uncalled(e) \ {w}) = Cardinality(Uncalled(e)) - 1
                 /\ Cardinality(Uncalled(e)) > 0
           /\ w \notin Uncalled(e) =>
                 /\ Uncalled(e) \ {w} = Uncalled(e)
                 /\ Cardinality(Uncalled(e) \cup {w}) = Cardinality(Uncalled(e)) + 1
<1>1. IsFiniteSet(Uncalled(e))
  BY WorkersAssumption, FS_Subset DEF Uncalled
<1>2. Cardinality(Uncalled(e)) \in Nat
  BY <1>1, FS_CardinalityType
<1>3. w \in Uncalled(e) => Cardinality(Uncalled(e) \ {w}) = Cardinality(Uncalled(e)) - 1
  BY <1>1, FS_RemoveElement
<1>4. w \in Uncalled(e) => Cardinality(Uncalled(e)) # 0
  BY <1>1, FS_EmptySet
<1>5. w \notin Uncalled(e) => Cardinality(Uncalled(e) \cup {w}) = Cardinality(Uncalled(e)) + 1
  BY <1>1, FS_AddElement
<1>6. w \notin Uncalled(e) => Uncalled(e) \ {w} = Uncalled(e)
  OBVIOUS
<1>7. Cardinality(Uncalled(e) \ {w}) \in Nat
  BY <1>1, FS_Subset, FS_CardinalityType
<1>8. Cardinality(Uncalled(e) \ {w}) <= Cardinality(Uncalled(e))
  BY <1>2, <1>3, <1>6
<1> QED
  BY <1>1, <1>2, <1>3, <1>4, <1>5, <1>6, <1>7, <1>8

\* A worker that leaves its delivery has no call to make any more.
LEMMA ReleaseUncalled ==
    ASSUME TypeOK, NEW w \in Workers, Release(w)
    PROVE  \A e \in Executions : Uncalled(e)' = Uncalled(e) \ {w}
BY DEF Release, TypeOK, Uncalled, Handling

\* Steps that touch no message, no worker and no call keep the budget.
LEMMA BudgetKept ==
    ASSUME CallBudget, UNCHANGED <<place, deaths, job, rpc, calls, requeued>>
    PROVE  CallBudget'
<1>1. \A e \in Executions : Uncalled(e)' = Uncalled(e) /\ Budget(e)' = Budget(e)
  BY DEF Uncalled, Handling, Budget
<1> QED
  BY <1>1 DEF CallBudget

\* A worker that rejects its delivery has a call less to make; the round it was in is
\* counted when the message expires.
LEMMA NackBudget ==
    ASSUME IInv, NEW w \in Workers, job[w] # NoExec, seen[w] < MaxRetries, NackDelivery(w),
           UNCHANGED <<calls, requeued>>
    PROVE  CallBudget'
<1> USE DEF IInv
<1>1. ASSUME NEW e \in Executions
      PROVE  /\ calls'[e] + Cardinality(Uncalled(e)') <= calls[e] + Cardinality(Uncalled(e))
             /\ calls'[e] + Cardinality(Uncalled(e)') \in Nat
    <2>1. Uncalled(e)' = Uncalled(e) \ {w}
      BY ReleaseUncalled DEF NackDelivery
    <2>2. Cardinality(Uncalled(e)') = Cardinality(Uncalled(e) \ {w})
      BY <2>1
    <2>3. /\ Cardinality(Uncalled(e)) \in Nat /\ Cardinality(Uncalled(e) \ {w}) \in Nat
          /\ Cardinality(Uncalled(e) \ {w}) <= Cardinality(Uncalled(e))
      BY UncalledCount
    <2>4. calls[e] \in Nat /\ calls'[e] = calls[e]
      BY DEF TypeOK
    <2> QED
      BY <2>2, <2>3, <2>4
<1>2. ASSUME NEW e \in Executions
      PROVE  Budget(e)' = Budget(e) /\ (place'[e] = "retry" => deaths'[e] < MaxRetries)
  <2>1. CASE w \in open /\ e = job[w]
    BY <2>1 DEF NackDelivery, IfOpen, Reject, Move, HeldMatchesJobs, TypeOK, BrokerTypeOK, Budget
  <2>2. CASE w \notin open \/ e # job[w]
    BY <2>2 DEF NackDelivery, IfOpen, Reject, Move, brokerVars, CallBudget, TypeOK, BrokerTypeOK,
                Budget
  <2> QED
    BY <2>1, <2>2
<1>3. \A e \in Executions : Budget(e) \in Nat
  BY DEF Budget, TypeOK, BrokerTypeOK
<1>4. ASSUME NEW e \in Executions
      PROVE  calls[e] + Cardinality(Uncalled(e)) \in Nat
  <2>1. Cardinality(Uncalled(e)) \in Nat
    BY UncalledCount
  <2>2. calls[e] \in Nat
    BY DEF TypeOK
  <2> QED
    BY <2>1, <2>2
<1> QED
  BY <1>1, <1>2, <1>3, <1>4 DEF CallBudget

\* A worker that acknowledges its delivery was in a round of its own, or gives up a call.
LEMMA AckBudget ==
    ASSUME IInv, NEW w \in Workers, job[w] # NoExec, AckDelivery(w), UNCHANGED <<calls, requeued>>,
           w \in Uncalled(job[w]) \/ seen[w] < MaxRetries
    PROVE  CallBudget'
<1> USE DEF IInv
<1>1. \A e \in Executions : Uncalled(e)' = Uncalled(e) \ {w}
  BY ReleaseUncalled DEF AckDelivery
<1>2. ASSUME NEW e \in Executions
      PROVE  /\ calls[e] \in Nat /\ requeued[e] \in Nat /\ deaths[e] \in 0..MaxRetries
             /\ Budget(e) \in Nat /\ calls[e] + Cardinality(Uncalled(e)) <= Budget(e)
    BY DEF TypeOK, BrokerTypeOK, Budget, CallBudget
<1>3. ASSUME NEW e \in Executions, w \notin open \/ e # job[w]
      PROVE  /\ calls'[e] + Cardinality(Uncalled(e)') <= Budget(e)'
             /\ place'[e] = "retry" => deaths'[e] < MaxRetries
    <2>1. place'[e] = place[e] /\ deaths'[e] = deaths[e]
      BY <1>3 DEF AckDelivery, IfOpen, Acknowledge, Move, brokerVars, TypeOK, BrokerTypeOK
    <2>2. Budget(e)' = Budget(e)
      BY <2>1 DEF Budget
    <2>3. /\ Cardinality(Uncalled(e)) \in Nat /\ Cardinality(Uncalled(e) \ {w}) \in Nat
          /\ Cardinality(Uncalled(e) \ {w}) <= Cardinality(Uncalled(e))
      BY UncalledCount
    <2>4. Cardinality(Uncalled(e)') = Cardinality(Uncalled(e) \ {w})
      BY <1>1
    <2> QED
      BY <1>2, <2>1, <2>2, <2>3, <2>4 DEF CallBudget
<1>4. ASSUME NEW e \in Executions, w \in open, e = job[w]
      PROVE  /\ calls'[e] + Cardinality(Uncalled(e)') <= Budget(e)'
             /\ place'[e] = "retry" => deaths'[e] < MaxRetries
    <2>1. place[e] = "held" /\ seen[w] = deaths[e] /\ place'[e] = "gone" /\ deaths'[e] = deaths[e]
      BY <1>4 DEF AckDelivery, IfOpen, Acknowledge, Move, HeldMatchesJobs, TypeOK, BrokerTypeOK
    <2>2. Budget(e) = requeued[e] + (deaths[e] + 1) /\ Budget(e)' = requeued[e] + MaxRetries
      BY <2>1 DEF Budget
    <2>3. CASE w \in Uncalled(e)
      <3>1. Cardinality(Uncalled(e)') = Cardinality(Uncalled(e)) - 1 /\ Cardinality(Uncalled(e)) \in Nat
        BY <1>1, <2>3, UncalledCount
      <3> QED
        BY <1>2, <2>1, <2>2, <3>1
    <2>4. CASE w \notin Uncalled(e)
      <3>1. Cardinality(Uncalled(e)') = Cardinality(Uncalled(e)) /\ Cardinality(Uncalled(e)) \in Nat
        BY <1>1, <2>4, UncalledCount
      <3> QED
        BY <1>2, <1>4, <2>1, <2>2, <2>4, <3>1
    <2> QED
      BY <2>3, <2>4
<1> QED
  BY <1>3, <1>4 DEF CallBudget

\* A trigger that reads its workflow touches neither row nor message.
LEMMA CheckWorkflowInv ==
    ASSUME IInv, NEW e \in Executions, CheckWorkflow(e)
    PROVE  IInv'
<1> USE DEF IInv, CheckWorkflow, TriggerAt, brokerVars, engineVars, poolVars, workerVars,
          historyVars
<1>1. TypeOK'
  BY DEF TypeOK, BrokerTypeOK, EngineTypeOK, TriggerPhases
<1>2. RowBeforeMessage'
  BY DEF RowBeforeMessage
<1>3. RunsWellFormed' /\ JobsExclusive' /\ HeldMatchesJobs' /\ CallsMatchRuns'
     /\ CallBudget' /\ PendingIsUnstarted' /\ RunningIsRun'
  BY BudgetKept DEF RunsWellFormed, JobsExclusive, HeldMatchesJobs, CallsMatchRuns,
        PendingIsUnstarted, RunningIsRun, Started, Answer, Working, WellFormed
<1>4. OneCallOneRun'
  BY DEF OneCallOneRun, Active
<1> QED
  BY <1>1, <1>2, <1>3, <1>4

\* The insert: the row is new, so nothing can run for it yet.
LEMMA CreateExecutionInv ==
    ASSUME IInv, NEW e \in Executions, CreateExecution(e)
    PROVE  IInv'
<1> USE DEF IInv, CreateExecution, TriggerAt, brokerVars, engineVars, poolVars, workerVars,
          historyVars
<1>1. TypeOK'
  BY DEF TypeOK, BrokerTypeOK, EngineTypeOK, Statuses, TriggerPhases
<1>2. RowBeforeMessage'
  BY DEF TypeOK, EngineTypeOK, RowBeforeMessage
<1>3. PendingIsUnstarted'
  BY DEF RowBeforeMessage, PendingIsUnstarted, Started, Answer
<1>4. RunningIsRun'
  BY DEF RunningIsRun, Working
<1>5. RunsWellFormed' /\ JobsExclusive' /\ HeldMatchesJobs' /\ CallsMatchRuns'
     /\ CallBudget'
  BY BudgetKept DEF RunsWellFormed, JobsExclusive, HeldMatchesJobs, CallsMatchRuns, WellFormed
<1>6. OneCallOneRun'
  BY OneRunKept DEF Terminal, TypeOK, EngineTypeOK
<1> QED
  BY <1>1, <1>2, <1>3, <1>4, <1>5, <1>6

\* A failed insert takes the trigger back to its start.
LEMMA CreateFailsInv ==
    ASSUME IInv, NEW e \in Executions, CreateFails(e)
    PROVE  IInv'
<1> USE DEF IInv, CreateFails, TriggerAt, brokerVars, engineVars, poolVars, workerVars,
          historyVars
<1>1. TypeOK'
  BY DEF TypeOK, BrokerTypeOK, EngineTypeOK, TriggerPhases
<1>2. RowBeforeMessage'
  BY DEF RowBeforeMessage
<1>3. RunsWellFormed' /\ JobsExclusive' /\ HeldMatchesJobs' /\ CallsMatchRuns'
     /\ CallBudget' /\ PendingIsUnstarted' /\ RunningIsRun'
  BY BudgetKept DEF RunsWellFormed, JobsExclusive, HeldMatchesJobs, CallsMatchRuns,
        PendingIsUnstarted, RunningIsRun, Started, Answer, Working, WellFormed
<1>4. OneCallOneRun'
  BY DEF OneCallOneRun, Active
<1> QED
  BY <1>1, <1>2, <1>3, <1>4

\* The message enters the queue after its row, with no calls made for it.
LEMMA PublishInv ==
    ASSUME IInv, NEW e \in Executions, Publish(e)
    PROVE  IInv'
<1> USE DEF IInv, Publish, TriggerAt, Enqueue, Move, brokerVars, engineVars, poolVars, workerVars,
          historyVars
<1>1. TypeOK'
  BY DEF TypeOK, BrokerTypeOK, EngineTypeOK, Places, TriggerPhases
<1>2. HeldMatchesJobs'
  BY DEF HeldMatchesJobs
<1>3. RowBeforeMessage'
  BY DEF TypeOK, RowBeforeMessage
<1>4. CallBudget'
  <2>1. \A x \in Executions : Uncalled(x)' = Uncalled(x) /\ Budget(x)' = Budget(x)
    BY DEF TypeOK, BrokerTypeOK, Uncalled, Handling, Budget
  <2> QED
    BY <2>1 DEF CallBudget
<1>5. PendingIsUnstarted'
  BY DEF PendingIsUnstarted, Started, Answer
<1>6. RunsWellFormed' /\ JobsExclusive' /\ CallsMatchRuns' /\ RunningIsRun'
  BY DEF RunsWellFormed, JobsExclusive, CallsMatchRuns, RunningIsRun, Working, WellFormed
<1>7. OneCallOneRun'
  BY DEF OneCallOneRun, Active
<1> QED
  BY <1>1, <1>2, <1>3, <1>4, <1>5, <1>6, <1>7

\* A publish the broker forgets leaves the queue as it was.
LEMMA PublishLostInv ==
    ASSUME IInv, NEW e \in Executions, PublishLost(e)
    PROVE  IInv'
<1> USE DEF IInv, PublishLost, TriggerAt, brokerVars, engineVars, poolVars, workerVars,
          historyVars
<1>1. TypeOK'
  BY DEF TypeOK, BrokerTypeOK, EngineTypeOK, TriggerPhases
<1>2. RowBeforeMessage'
  BY DEF RowBeforeMessage
<1>3. RunsWellFormed' /\ JobsExclusive' /\ HeldMatchesJobs' /\ CallsMatchRuns'
     /\ CallBudget' /\ PendingIsUnstarted' /\ RunningIsRun'
  BY BudgetKept DEF RunsWellFormed, JobsExclusive, HeldMatchesJobs, CallsMatchRuns,
        PendingIsUnstarted, RunningIsRun, Started, Answer, Working, WellFormed
<1>4. OneCallOneRun'
  BY DEF OneCallOneRun, Active
<1> QED
  BY <1>1, <1>2, <1>3, <1>4

\* A failed publish leaves the queue as it was.
LEMMA PublishFailsInv ==
    ASSUME IInv, NEW e \in Executions, PublishFails(e)
    PROVE  IInv'
<1> USE DEF IInv, PublishFails, TriggerAt, brokerVars, engineVars, poolVars, workerVars,
          historyVars
<1>1. TypeOK'
  BY DEF TypeOK, BrokerTypeOK, EngineTypeOK, TriggerPhases
<1>2. RowBeforeMessage'
  BY DEF RowBeforeMessage
<1>3. RunsWellFormed' /\ JobsExclusive' /\ HeldMatchesJobs' /\ CallsMatchRuns'
     /\ CallBudget' /\ PendingIsUnstarted' /\ RunningIsRun'
  BY BudgetKept DEF RunsWellFormed, JobsExclusive, HeldMatchesJobs, CallsMatchRuns,
        PendingIsUnstarted, RunningIsRun, Started, Answer, Working, WellFormed
<1>4. OneCallOneRun'
  BY DEF OneCallOneRun, Active
<1> QED
  BY <1>1, <1>2, <1>3, <1>4

\* The scheduler's death ends triggers and nothing else.
LEMMA SchedulerCrashInv ==
    ASSUME IInv, SchedulerCrash
    PROVE  IInv'
<1> USE DEF IInv, SchedulerCrash, AfterDeath, brokerVars, engineVars, poolVars, workerVars,
          historyVars
<1>1. TypeOK'
  BY DEF TypeOK, BrokerTypeOK, EngineTypeOK, TriggerPhases
<1>2. RowBeforeMessage'
  BY DEF RowBeforeMessage
<1>3. RunsWellFormed' /\ JobsExclusive' /\ HeldMatchesJobs' /\ CallsMatchRuns'
     /\ CallBudget' /\ PendingIsUnstarted' /\ RunningIsRun'
  BY BudgetKept DEF RunsWellFormed, JobsExclusive, HeldMatchesJobs, CallsMatchRuns,
        PendingIsUnstarted, RunningIsRun, Started, Answer, Working, WellFormed
<1>4. OneCallOneRun'
  BY DEF OneCallOneRun, Active
<1> QED
  BY <1>1, <1>2, <1>3, <1>4

\* A delivery takes a ready message, so no other worker can hold it.
LEMMA DeliverInv ==
    ASSUME IInv, NEW w \in Workers, NEW e \in Executions, Deliver(w, e)
    PROVE  IInv'
<1> USE DEF IInv, Deliver, Hand, Move, brokerVars, engineVars, poolVars, workerVars, historyVars
<1>1. TypeOK'
  BY DEF TypeOK, BrokerTypeOK, EngineTypeOK, Places
<1>2. JobsExclusive'
  <2>1. \A u \in open \ {w} : job'[u] = job[u] /\ job[u] # e
    BY DEF TypeOK, HeldMatchesJobs
  <2> QED
    BY <2>1 DEF JobsExclusive, TypeOK
<1>3. HeldMatchesJobs'
  BY DEF TypeOK, BrokerTypeOK, HeldMatchesJobs
<1>4. CallsMatchRuns'
  BY DEF CallsMatchRuns
<1>5. RowBeforeMessage'
  BY DEF RowBeforeMessage
<1>6. CallBudget'
  <2>1. w \notin Uncalled(e)
    BY DEF Uncalled, Handling
  <2>2. ASSUME NEW x \in Executions
        PROVE  Uncalled(x)' = IF x = e THEN Uncalled(x) \cup {w} ELSE Uncalled(x)
    BY DEF TypeOK, CallsMatchRuns, Uncalled, Handling
  <2>3. Cardinality(Uncalled(e)') = Cardinality(Uncalled(e)) + 1 /\ Cardinality(Uncalled(e)) \in Nat
    BY <2>1, <2>2, UncalledCount
  <2>4. Budget(e)' = Budget(e) + 1 /\ \A x \in Executions \ {e} : Budget(x)' = Budget(x)
    BY DEF TypeOK, BrokerTypeOK, Budget
  <2>5. calls[e] \in Nat /\ Budget(e) \in Nat
    BY DEF TypeOK, BrokerTypeOK, Budget
  <2>6. calls'[e] + Cardinality(Uncalled(e)') <= Budget(e)'
    BY <2>3, <2>4, <2>5 DEF CallBudget
  <2> QED
    BY <2>2, <2>4, <2>6 DEF TypeOK, BrokerTypeOK, CallBudget
<1>7. PendingIsUnstarted'
  BY DEF PendingIsUnstarted, Started, Answer
<1>8. RunsWellFormed' /\ RunningIsRun'
  BY DEF RunsWellFormed, RunningIsRun, Working, WellFormed
<1>9. OneCallOneRun'
  BY DEF OneCallOneRun, Active
<1> QED
  BY <1>1, <1>2, <1>3, <1>4, <1>5, <1>6, <1>7, <1>8, <1>9

\* Dropping a message after the retries ends it; its calls are within budget.
LEMMA DropInv ==
    ASSUME IInv, NEW w \in Workers, Drop(w)
    PROVE  IInv'
<1> USE DEF IInv, Drop, Handling, Exhausted, AckDelivery, Release, IfOpen,
          Acknowledge, Move, brokerVars, engineVars, poolVars, workerVars, historyVars
<1>1. TypeOK'
  BY DEF TypeOK, BrokerTypeOK, EngineTypeOK, Places
<1>2. JobsExclusive'
  BY DEF JobsExclusive
<1>3. HeldMatchesJobs'
  BY DEF TypeOK, BrokerTypeOK, JobsExclusive, HeldMatchesJobs
<1>4. CallsMatchRuns'
  BY DEF CallsMatchRuns
<1>5. RowBeforeMessage'
  BY DEF TypeOK, BrokerTypeOK, RunsWellFormed, RowBeforeMessage, WellFormed
<1>6. CallBudget'
  BY AckBudget DEF Uncalled
<1>7. PendingIsUnstarted'
  BY DEF TypeOK, BrokerTypeOK, PendingIsUnstarted, Started, Answer
<1>8. RunsWellFormed' /\ RunningIsRun'
  BY DEF RunsWellFormed, RunningIsRun, Working, WellFormed
<1>9. OneCallOneRun'
  BY DEF OneCallOneRun, Active
<1> QED
  BY <1>1, <1>2, <1>3, <1>4, <1>5, <1>6, <1>7, <1>8, <1>9

\* A handler that gives up before calling has used none of the budget of this round.
LEMMA FailsBeforeCallInv ==
    ASSUME IInv, NEW w \in Workers, FailsBeforeCall(w)
    PROVE  IInv'
<1> USE DEF IInv, FailsBeforeCall, Handling, Exhausted, NackDelivery, Release,
          IfOpen, Reject, Move, brokerVars, engineVars, poolVars, workerVars, historyVars
<1>1. TypeOK'
  BY DEF TypeOK, BrokerTypeOK, EngineTypeOK, Places
<1>2. JobsExclusive'
  BY DEF JobsExclusive
<1>3. HeldMatchesJobs'
  BY DEF TypeOK, BrokerTypeOK, JobsExclusive, HeldMatchesJobs
<1>4. CallsMatchRuns'
  BY DEF CallsMatchRuns
<1>5. RowBeforeMessage'
  BY DEF TypeOK, BrokerTypeOK, RunsWellFormed, RowBeforeMessage, WellFormed
<1>6. CallBudget'
  <2>1. seen[w] < MaxRetries
    BY DEF TypeOK
  <2> QED
    BY <2>1, NackBudget
<1>7. PendingIsUnstarted'
  BY DEF TypeOK, BrokerTypeOK, PendingIsUnstarted, Started, Answer
<1>8. RunsWellFormed' /\ RunningIsRun'
  BY DEF RunsWellFormed, RunningIsRun, Working, WellFormed
<1>9. OneCallOneRun'
  BY DEF OneCallOneRun, Active
<1> QED
  BY <1>1, <1>2, <1>3, <1>4, <1>5, <1>6, <1>7, <1>8, <1>9

\* The one call of this round of the message: the worker was not yet waiting for one.
LEMMA CallInv ==
    ASSUME IInv, NEW w \in Workers, NEW r \in Runs, Call(w, r)
    PROVE  IInv'
<1> USE DEF IInv, Call, Accept, Handling, Exhausted, brokerVars, engineVars, poolVars, workerVars,
          historyVars
<1>1. TypeOK'
  BY DEF TypeOK, BrokerTypeOK, EngineTypeOK, RunRecord, Phases, Results
<1>2. RunsWellFormed'
  BY DEF TypeOK, RunsWellFormed, WellFormed
<1>3. CallsMatchRuns'
  BY DEF TypeOK, BrokerTypeOK, EngineTypeOK, Idle, CallsMatchRuns
<1>4. RowBeforeMessage'
  BY DEF HeldMatchesJobs, RowBeforeMessage
<1>5. CallBudget'
  <2>1. job[w] \in Executions /\ w \in Uncalled(job[w])
    BY DEF TypeOK, Uncalled
  <2>2. \A e \in Executions : Uncalled(e)' = Uncalled(e) \ {w}
    BY DEF TypeOK, Uncalled
  <2>3. \A e \in Executions \ {job[w]} : Uncalled(e)' = Uncalled(e) /\ calls'[e] = calls[e]
    BY <2>2 DEF TypeOK, Uncalled
  <2>4. Cardinality(Uncalled(job[w])') = Cardinality(Uncalled(job[w])) - 1
    BY <2>1, <2>2, UncalledCount
  <2>5. calls'[job[w]] = calls[job[w]] + 1 /\ calls[job[w]] \in Nat
    BY <2>1 DEF TypeOK
  <2>6. Cardinality(Uncalled(job[w])) \in Nat
    BY <2>1, UncalledCount
  <2>7. \A e \in Executions : Budget(e)' = Budget(e)
    BY DEF Budget
  <2> QED
    BY <2>1, <2>3, <2>4, <2>5, <2>6, <2>7 DEF CallBudget
<1>6. PendingIsUnstarted'
  BY DEF PendingIsUnstarted, Started, Answer
<1>7. RunningIsRun'
  BY DEF Idle, RunningIsRun, Working
<1>8. JobsExclusive' /\ HeldMatchesJobs'
  BY DEF JobsExclusive, HeldMatchesJobs
<1>9. OneCallOneRun'
  <2>1. calls[job[w]] \in Nat /\ job[w] \in Executions
    BY DEF TypeOK
  <2>2. \A s \in Runs : run'[s].exec = IF s = r THEN job[w] ELSE run[s].exec
    BY DEF TypeOK, EngineTypeOK
  <2>3. \A e \in Executions : calls'[e] = IF e = job[w] THEN calls[e] + 1 ELSE calls[e]
    BY DEF TypeOK
  <2>4. CASE calls[job[w]] = 0
    BY <2>1, <2>2, <2>3, <2>4 DEF OneCallOneRun, Active, TypeOK, EngineTypeOK
  <2>5. CASE calls[job[w]] # 0
    <3>1. calls'[job[w]] \notin {0, 1}
      BY <2>1, <2>3, <2>5
    <3>2. ASSUME NEW e \in Executions, e # job[w]
          PROVE  Active(e)' = Active(e)
      BY <3>2, <2>2 DEF Active, TypeOK, EngineTypeOK, Idle
    <3> QED
      BY <2>2, <2>3, <3>1, <3>2 DEF OneCallOneRun
  <2> QED
    BY <2>4, <2>5
<1> QED
  BY <1>1, <1>2, <1>3, <1>4, <1>5, <1>6, <1>7, <1>8, <1>9

\* Acknowledging an answered message: the run wrote its terminal status, or hurt its row.
LEMMA ReplyOkInv ==
    ASSUME IInv, NEW w \in Workers, ReplyOk(w)
    PROVE  IInv'
<1> USE DEF IInv, ReplyOk, ReplyIs, Collect, AckDelivery, Release, IfOpen,
          Acknowledge, Move, brokerVars, engineVars, poolVars, workerVars, historyVars
<1>0. Idle \in RunRecord
  BY DEF Idle, RunRecord, Phases, Results
<1>1. TypeOK'
  BY <1>0 DEF TypeOK, BrokerTypeOK, EngineTypeOK, Places
<1>2. RunsWellFormed'
  BY DEF TypeOK, EngineTypeOK, Idle, RunsWellFormed, WellFormed
<1>3. JobsExclusive'
  BY DEF JobsExclusive
<1>4. HeldMatchesJobs'
  BY DEF TypeOK, BrokerTypeOK, JobsExclusive, HeldMatchesJobs
<1>5. CallsMatchRuns'
  BY DEF TypeOK, EngineTypeOK, Idle, JobsExclusive, CallsMatchRuns
<1>6. RowBeforeMessage'
  BY DEF TypeOK, BrokerTypeOK, Idle, RunsWellFormed, RowBeforeMessage, WellFormed
<1>7. CallBudget'
  BY AckBudget DEF CallsMatchRuns
<1>8. PendingIsUnstarted'
  BY DEF TypeOK, BrokerTypeOK, Idle, CallsMatchRuns, PendingIsUnstarted, Started, Answer
<1>9. RunningIsRun'
  BY DEF RunningIsRun, Working
<1>10. OneCallOneRun'
  BY OneRunKept DEF Idle, TypeOK, EngineTypeOK
<1> QED
  BY <1>1, <1>2, <1>3, <1>4, <1>5, <1>6, <1>7, <1>8, <1>9, <1>10

\* Rejecting after an error: the round is spent, and its death will be counted.
LEMMA ReplyErrorInv ==
    ASSUME IInv, NEW w \in Workers, ReplyError(w)
    PROVE  IInv'
<1> USE DEF IInv, ReplyError, ReplyIs, Collect, NackDelivery, Release, IfOpen,
          Reject, Move, brokerVars, engineVars, poolVars, workerVars, historyVars
<1>1. TypeOK'
  BY DEF TypeOK, BrokerTypeOK, EngineTypeOK, RunRecord, Phases, Results, Places, Idle
<1>2. RunsWellFormed'
  BY DEF TypeOK, EngineTypeOK, Idle, RunsWellFormed, WellFormed
<1>3. JobsExclusive'
  BY DEF JobsExclusive
<1>4. HeldMatchesJobs'
  BY DEF TypeOK, BrokerTypeOK, JobsExclusive, HeldMatchesJobs
<1>5. CallsMatchRuns'
  BY DEF TypeOK, EngineTypeOK, Idle, JobsExclusive, CallsMatchRuns
<1>6. RowBeforeMessage'
  BY DEF TypeOK, BrokerTypeOK, Idle, RunsWellFormed, RowBeforeMessage, WellFormed
<1>7. CallBudget'
  BY NackBudget DEF CallsMatchRuns
<1>8. PendingIsUnstarted'
  BY DEF TypeOK, BrokerTypeOK, Idle, PendingIsUnstarted, Started, Answer
<1>9. RunningIsRun'
  BY DEF RunningIsRun, Working
<1>10. OneCallOneRun'
  BY OneRunKept DEF Idle, TypeOK, EngineTypeOK
<1> QED
  BY <1>1, <1>2, <1>3, <1>4, <1>5, <1>6, <1>7, <1>8, <1>9, <1>10

\* A broken call leaves a run without a caller and spends the round.
LEMMA CallBreaksInv ==
    ASSUME IInv, NEW w \in Workers, CallBreaks(w)
    PROVE  IInv'
<1> USE DEF IInv, CallBreaks, Detach, NackDelivery, Release, IfOpen, Reject, Move,
          brokerVars, engineVars, poolVars, workerVars, historyVars
<1>1. /\ WellFormed(WithoutCaller(rpc[w]))
      /\ WithoutCaller(rpc[w]) \in RunRecord
      /\ ~WithoutCaller(rpc[w]).attached
      /\ run[rpc[w]].pc \in {"reply", "reset"} => WithoutCaller(rpc[w]) = Idle
      /\ run[rpc[w]].pc \notin {"reply", "reset"} =>
            /\ WithoutCaller(rpc[w]).pc = run[rpc[w]].pc
            /\ WithoutCaller(rpc[w]).exec = run[rpc[w]].exec
            /\ WithoutCaller(rpc[w]).result = run[rpc[w]].result
  BY WithoutCallerFields DEF TypeOK, EngineTypeOK, RunsWellFormed
<1>2. TypeOK'
  BY <1>1 DEF TypeOK, BrokerTypeOK, EngineTypeOK, Places
<1>3. RunsWellFormed'
  BY <1>1 DEF RunsWellFormed
<1>4. JobsExclusive'
  BY DEF JobsExclusive
<1>5. HeldMatchesJobs'
  BY DEF TypeOK, BrokerTypeOK, JobsExclusive, HeldMatchesJobs
<1>6. CallsMatchRuns'
  BY <1>1 DEF TypeOK, EngineTypeOK, JobsExclusive, CallsMatchRuns
<1>7. RowBeforeMessage'
  <2>1. \A e \in Executions :
              /\ status'[e] = "none" <=> trig'[e] \in {"idle", "checked"}
              /\ place'[e] # "none" => trig'[e] = "published"
    BY DEF TypeOK, BrokerTypeOK, RowBeforeMessage
  <2>2. \A r \in Runs : run'[r].pc # "idle" => place'[run'[r].exec] # "none"
    BY <1>1 DEF TypeOK, BrokerTypeOK, Idle, RunsWellFormed, RowBeforeMessage, WellFormed
  <2> QED
    BY <2>1, <2>2 DEF RowBeforeMessage
<1>8. CallBudget'
  BY NackBudget DEF CallsMatchRuns
<1>9. PendingIsUnstarted'
  BY <1>1 DEF TypeOK, BrokerTypeOK, Idle, PendingIsUnstarted, Started, Answer
<1>10. RunningIsRun'
  BY <1>1 DEF RunningIsRun, Working
<1>11. OneCallOneRun'
  <2>1. \A r \in Runs :
           /\ run'[r].exec \in {run[r].exec, NoExec}
           /\ run'[r].pc \in {"load", "start", "steps"} => run[r].pc \in {"load", "start", "steps"}
    BY <1>1 DEF Idle, TypeOK, EngineTypeOK
  <2> QED
    BY <2>1, OneRunKept
<1> QED
  BY <1>2, <1>3, <1>4, <1>5, <1>6, <1>7, <1>8, <1>9, <1>10, <1>11

\* The executions whose messages go back are held, and by these workers only.
LEMMA HeldByFacts ==
    ASSUME IInv, NEW workers \in SUBSET Workers
    PROVE  /\ \A e \in HeldBy(workers) : e \in Executions /\ place[e] = "held"
           /\ \A w \in workers \cap open : job[w] # NoExec => job[w] \in HeldBy(workers)
           /\ \A w \in open \ workers : job[w] \notin HeldBy(workers)
           /\ \A e \in Executions :
                 place[e] = "held" /\ e \notin HeldBy(workers) => \E w \in open \ workers : job[w] = e
BY DEF IInv, TypeOK, JobsExclusive, HeldMatchesJobs, HeldBy

\* What a requeue adds to the budget it takes from the round of the lost delivery.
LEMMA DisconnectFacts ==
    ASSUME IInv, NEW workers \in SUBSET Workers, Disconnect(workers)
    PROVE  /\ place' \in [Executions -> Places] /\ requeued' \in [Executions -> Nat]
           /\ outages' \in 0..MaxOutages /\ open' \subseteq Workers
           /\ \A e \in Executions : requeued'[e] >= requeued[e]
           /\ \A e \in HeldBy(workers) : requeued'[e] > 0
           /\ \A e \in Executions :
                 /\ place'[e] = "none" <=> place[e] = "none"
                 /\ place'[e] = "gone" <=> place[e] = "gone"
                 /\ place'[e] = "retry" <=> place[e] = "retry"
                 /\ place'[e] = "held" <=> place[e] = "held" /\ e \notin HeldBy(workers)
           /\ \A e \in Executions : Budget(e)' = Budget(e) /\ Budget(e) \in Nat
<1> USE DEF IInv, TypeOK, BrokerTypeOK, Disconnect, Requeue
<1>1. /\ place' \in [Executions -> Places] /\ requeued' \in [Executions -> Nat]
      /\ outages' \in 0..MaxOutages /\ open' \subseteq Workers
  BY DEF Places
<1>2. /\ \A e \in Executions : requeued'[e] >= requeued[e]
      /\ \A e \in HeldBy(workers) : requeued'[e] > 0
  BY HeldByFacts
<1>3. \A e \in Executions :
         /\ place'[e] = "none" <=> place[e] = "none"
         /\ place'[e] = "gone" <=> place[e] = "gone"
         /\ place'[e] = "retry" <=> place[e] = "retry"
         /\ place'[e] = "held" <=> place[e] = "held" /\ e \notin HeldBy(workers)
  BY HeldByFacts
<1>4. ASSUME NEW e \in Executions
      PROVE  Budget(e)' = Budget(e) /\ Budget(e) \in Nat
  <2>1. CASE e \in HeldBy(workers)
    <3>1. place[e] = "held" /\ place'[e] = "run" /\ requeued'[e] = requeued[e] + 1
      BY <2>1, HeldByFacts
    <3> QED
      BY <3>1 DEF Budget
  <2>2. CASE e \notin HeldBy(workers)
    BY <2>2 DEF Budget
  <2> QED
    BY <2>1, <2>2
<1> QED
  BY <1>1, <1>2, <1>3, <1>4

\* Held messages go back and are counted as requeued, while their workers go on.
LEMMA ChannelsClosedInv ==
    ASSUME IInv, NEW workers \in SUBSET Workers, ChannelsClosed(workers)
    PROVE  IInv'
<1> USE DEF IInv, ChannelsClosed, brokerVars, engineVars, poolVars, workerVars, historyVars
<1> USE DisconnectFacts
<1>1. Disconnect(workers) /\ open' = open \ workers /\ deaths' = deaths /\ calls' = calls
      /\ dropped' = dropped
  BY DEF Disconnect, Requeue
<1>2. TypeOK'
  BY <1>1 DEF TypeOK, BrokerTypeOK, EngineTypeOK
<1>3. JobsExclusive'
  BY <1>1 DEF JobsExclusive
<1>4. HeldMatchesJobs'
  <2>1. ASSUME NEW e \in Executions, place'[e] = "held"
        PROVE  \E w \in open' : job'[w] = e
    BY <1>1, <2>1, HeldByFacts
  <2>2. ASSUME NEW w \in Workers, job[w] # NoExec, w \in open'
        PROVE  place'[job[w]] = "held" /\ seen'[w] = deaths'[job[w]]
    BY <1>1, <2>2, HeldByFacts DEF TypeOK, HeldMatchesJobs
  <2>3. ASSUME NEW w \in Workers, job[w] # NoExec, w \notin open'
        PROVE  place'[job[w]] # "none" /\ requeued'[job[w]] > 0
    <3>1. job[w] \in Executions
      BY <2>3 DEF TypeOK
    <3>2. CASE w \in open
      BY <1>1, <2>3, <3>1, <3>2, HeldByFacts
    <3>3. CASE w \notin open
      <4>1. requeued[job[w]] > 0 /\ place[job[w]] # "none"
        BY <2>3, <3>3 DEF HeldMatchesJobs
      <4>2. requeued[job[w]] \in Nat /\ requeued'[job[w]] \in Nat /\ requeued'[job[w]] >= requeued[job[w]]
        BY <1>1, <3>1 DEF TypeOK
      <4> QED
        BY <1>1, <3>1, <4>1, <4>2
    <3> QED
      BY <3>2, <3>3
  <2> QED
    BY <2>1, <2>2, <2>3 DEF HeldMatchesJobs
<1>5. CallsMatchRuns'
  BY DEF CallsMatchRuns
<1>6. RowBeforeMessage'
  BY <1>1 DEF RunsWellFormed, RowBeforeMessage, WellFormed
<1>7. CallBudget'
  <2>1. \A x \in Executions : Uncalled(x)' = Uncalled(x)
    BY DEF Uncalled, Handling
  <2> QED
    BY <1>1, <2>1 DEF CallBudget
<1>8. PendingIsUnstarted'
  BY <1>1 DEF PendingIsUnstarted, Started, Answer
<1>9. RunsWellFormed' /\ RunningIsRun'
  BY DEF RunsWellFormed, RunningIsRun, Working, WellFormed
<1>10. OneCallOneRun'
  BY <1>1 DEF OneCallOneRun, Active
<1> QED
  BY <1>2, <1>3, <1>4, <1>5, <1>6, <1>7, <1>8, <1>9, <1>10

LEMMA GatewayCrashInv ==
    ASSUME IInv, GatewayCrash
    PROVE  IInv'
<1> USE DEF IInv, GatewayCrash, AfterDeath, brokerVars, engineVars, poolVars, workerVars,
          historyVars
<1>a. Disconnect(Workers) /\ open' = {} /\ deaths' = deaths /\ calls' = calls /\ dropped' = dropped
  BY DEF Disconnect, Requeue, TypeOK
<1>1. ASSUME NEW r \in Runs
  PROVE /\ run'[r] \in RunRecord /\ WellFormed(run'[r]) /\ ~run'[r].attached
        /\ run[r].pc \in {"reply", "reset"} => run'[r] = Idle
        /\ run[r].pc \notin {"reply", "reset"} =>
              run'[r].pc = run[r].pc /\ run'[r].exec = run[r].exec
                                     /\ run'[r].result = run[r].result
  <2>1. run'[r] = IF run[r].attached THEN WithoutCaller(r) ELSE run[r]
    OBVIOUS
  <2>2. WellFormed(run[r]) /\ run[r] \in RunRecord
    BY DEF RunsWellFormed, TypeOK, EngineTypeOK
  <2>3. CASE run[r].attached
    BY <2>1, <2>2, <2>3, WithoutCallerFields
  <2>4. CASE ~run[r].attached
    BY <2>1, <2>2, <2>4 DEF WellFormed
  <2> QED
    BY <2>3, <2>4
<1>2. run' \in [Runs -> RunRecord]
  BY <1>1
<1>3. TypeOK'
  BY <1>a, <1>2, DisconnectFacts DEF TypeOK, BrokerTypeOK, EngineTypeOK, TriggerPhases
<1>4. RunsWellFormed'
  BY <1>1 DEF RunsWellFormed
<1>5. JobsExclusive'
  BY <1>a DEF JobsExclusive
<1>6. HeldMatchesJobs'
  BY <1>a, DisconnectFacts, HeldByFacts DEF HeldMatchesJobs, TypeOK
<1>7. CallsMatchRuns'
  BY <1>1 DEF CallsMatchRuns
<1>8. RowBeforeMessage'
  <2>1. \A e \in Executions :
              /\ status'[e] = "none" <=> trig'[e] \in {"idle", "checked"}
              /\ place'[e] # "none" => trig'[e] = "published"
    BY <1>a, DisconnectFacts DEF RowBeforeMessage
  <2>2. \A r \in Runs : run'[r].pc # "idle" => place'[run'[r].exec] # "none"
    <3> SUFFICES ASSUME NEW r \in Runs, run'[r].pc # "idle"
                 PROVE  place'[run'[r].exec] # "none"
      OBVIOUS
    <3>1. run[r].pc \notin {"reply", "reset"} /\ run'[r].pc = run[r].pc /\ run'[r].exec = run[r].exec
      BY <1>1 DEF Idle
    <3>2. run[r].exec \in Executions /\ place[run[r].exec] # "none"
      BY <3>1 DEF RunsWellFormed, RowBeforeMessage, WellFormed
    <3> QED
      BY <1>a, <3>1, <3>2, DisconnectFacts
  <2> QED
    BY <2>1, <2>2 DEF RowBeforeMessage
<1>9. CallBudget'
  <2>1. ASSUME NEW e \in Executions
        PROVE  /\ calls'[e] + Cardinality(Uncalled(e)') <= Budget(e)'
               /\ place'[e] = "retry" => deaths'[e] < MaxRetries
    <3>1. Uncalled(e)' = {}
      BY DEF Uncalled, Handling
    <3>2. Cardinality(Uncalled(e)') = 0
      BY <3>1, FS_EmptySet
    <3>3. IsFiniteSet(Uncalled(e)) /\ Cardinality(Uncalled(e)) \in Nat
      <4>1. Uncalled(e) \subseteq Workers
        BY DEF Uncalled
      <4> QED
        BY <4>1, WorkersAssumption, FS_Subset, FS_CardinalityType
    <3>4. calls[e] \in Nat /\ calls[e] + Cardinality(Uncalled(e)) <= Budget(e)
      BY DEF TypeOK, CallBudget
    <3> QED
      BY <1>a, <3>2, <3>3, <3>4, DisconnectFacts DEF CallBudget
  <2> QED
    BY <2>1 DEF CallBudget
<1>10. PendingIsUnstarted'
  BY <1>a, <1>1, DisconnectFacts DEF Idle, PendingIsUnstarted, Started, Answer
<1>11. RunningIsRun'
  <2>1. \A x \in Executions : Working(x)' = Working(x)
    BY <1>1 DEF Working, Idle
  <2> QED
    BY <2>1 DEF RunningIsRun
<1>12. OneCallOneRun'
  <2>1. \A r \in Runs :
           /\ run'[r].exec \in {run[r].exec, NoExec}
           /\ run'[r].pc \in {"load", "start", "steps"} => run[r].pc \in {"load", "start", "steps"}
    BY <1>1 DEF Idle, TypeOK, EngineTypeOK
  <2> QED
    BY <1>a, <2>1, OneRunKept
<1> QED
  BY <1>3, <1>4, <1>5, <1>6, <1>7, <1>8, <1>9, <1>10, <1>11, <1>12

\* The gateway starts again with idle workers.
LEMMA GatewayStartInv ==
    ASSUME IInv, NEW c \in SUBSET Workers, GatewayStart(c)
    PROVE  IInv'
<1> USE DEF IInv, GatewayStart, brokerVars, engineVars, poolVars, workerVars, historyVars
<1>1. TypeOK'
  BY DEF TypeOK, BrokerTypeOK, EngineTypeOK
<1>2. JobsExclusive'
  BY DEF JobsExclusive
<1>3. HeldMatchesJobs'
  BY DEF JobsExclusive, HeldMatchesJobs
<1>4. CallsMatchRuns'
  BY DEF JobsExclusive, CallsMatchRuns
<1>5. CallBudget'
  BY BudgetKept
<1>6. RunsWellFormed' /\ RowBeforeMessage' /\ PendingIsUnstarted' /\ RunningIsRun'
  BY DEF RunsWellFormed, RowBeforeMessage, PendingIsUnstarted, RunningIsRun, Started,
        Answer, Working, WellFormed
<1>7. OneCallOneRun'
  BY DEF OneCallOneRun, Active
<1> QED
  BY <1>1, <1>2, <1>3, <1>4, <1>5, <1>6, <1>7

\* Deleting a workflow touches no execution.
LEMMA DeleteInv ==
    ASSUME IInv, NEW f \in Workflows, Delete(f)
    PROVE  IInv'
<1> USE DEF IInv, Delete, DeleteWorkflow, brokerVars, engineVars, poolVars, workerVars,
          historyVars
<1>1. TypeOK'
  BY DEF TypeOK, BrokerTypeOK, EngineTypeOK
<1>2. RunsWellFormed' /\ JobsExclusive' /\ HeldMatchesJobs' /\ CallsMatchRuns'
     /\ RowBeforeMessage' /\ CallBudget' /\ PendingIsUnstarted' /\ RunningIsRun'
  BY BudgetKept DEF RunsWellFormed, JobsExclusive, HeldMatchesJobs, CallsMatchRuns,
        RowBeforeMessage, PendingIsUnstarted, RunningIsRun, Started, Answer, Working, WellFormed
<1>3. OneCallOneRun'
  BY DEF OneCallOneRun, Active
<1> QED
  BY <1>1, <1>2, <1>3

\* The expiry of a retry counts the death the last round was spent for.
LEMMA BrokerStepInv ==
    ASSUME IInv, NEW e \in Executions, BrokerStep(e)
    PROVE  IInv'
<1> USE DEF IInv, BrokerStep, Expire, Move, brokerVars, engineVars, poolVars, workerVars,
          historyVars
<1>1. TypeOK'
  BY DEF TypeOK, BrokerTypeOK, EngineTypeOK, Places, CallBudget
<1>2. HeldMatchesJobs'
  BY DEF HeldMatchesJobs
<1>3. CallsMatchRuns'
  BY DEF HeldMatchesJobs, CallsMatchRuns
<1>4. RowBeforeMessage'
  BY DEF RowBeforeMessage
<1>5. CallBudget'
  <2>1. \A x \in Executions : Uncalled(x)' = Uncalled(x) /\ Budget(x)' = Budget(x)
    BY DEF TypeOK, BrokerTypeOK, Uncalled, Handling, Budget
  <2> QED
    BY <2>1 DEF CallBudget, TypeOK, BrokerTypeOK
<1>6. PendingIsUnstarted'
  BY DEF PendingIsUnstarted, Started, Answer
<1>7. RunsWellFormed' /\ JobsExclusive' /\ RunningIsRun'
  BY DEF RunsWellFormed, JobsExclusive, RunningIsRun, Working, WellFormed
<1>8. OneCallOneRun'
  BY DEF OneCallOneRun, Active
<1> QED
  BY <1>1, <1>2, <1>3, <1>4, <1>5, <1>6, <1>7, <1>8

\* A run that has read its rows has written nothing.
LEMMA LoadInv ==
    ASSUME IInv, NEW r \in Runs, EngineStep(r), Load(r)
    PROVE  IInv'
<1> USE DEF IInv, EngineStep, Load, brokerVars, engineVars, poolVars, workerVars, historyVars
<1>1. TypeOK'
  BY DEF TypeOK, BrokerTypeOK, EngineTypeOK, RunRecord, Phases
<1>2. RunsWellFormed'
  BY DEF RunsWellFormed, WellFormed
<1>3. CallsMatchRuns'
  BY DEF CallsMatchRuns
<1>4. RowBeforeMessage'
  BY DEF RowBeforeMessage
<1>5. PendingIsUnstarted'
  BY DEF PendingIsUnstarted, Started, Answer
<1>6. RunningIsRun'
  BY DEF RunningIsRun, Working
<1>7. JobsExclusive' /\ HeldMatchesJobs' /\ CallBudget'
  BY BudgetKept DEF JobsExclusive, HeldMatchesJobs
<1>8. OneCallOneRun'
  BY DEF OneCallOneRun, Active
<1> QED
  BY <1>1, <1>2, <1>3, <1>4, <1>5, <1>6, <1>7, <1>8

\* The run of a deleted workflow answers without having written.
LEMMA LoadMissingInv ==
    ASSUME IInv, NEW r \in Runs, EngineStep(r), LoadMissing(r)
    PROVE  IInv'
<1> USE DEF IInv, EngineStep, LoadMissing, brokerVars, engineVars, poolVars, workerVars,
          historyVars
<1>1. /\ WellFormed(Answered(r, "missing"))
      /\ Answered(r, "missing") \in RunRecord
      /\ run[r].attached =>
            /\ Answered(r, "missing").pc = "reply" /\ Answered(r, "missing").attached
            /\ Answered(r, "missing").exec = run[r].exec
            /\ Answered(r, "missing").result = "missing"
      /\ ~run[r].attached => Answered(r, "missing") = Idle
  BY AnsweredFields DEF TypeOK, EngineTypeOK, Results, RunsWellFormed
<1>2. TypeOK'
  BY <1>1 DEF TypeOK, BrokerTypeOK, EngineTypeOK
<1>3. RunsWellFormed'
  BY <1>1 DEF RunsWellFormed
<1>4. CallsMatchRuns'
  BY <1>1 DEF Idle, CallsMatchRuns
<1>5. RowBeforeMessage'
  BY <1>1 DEF Idle, RowBeforeMessage
<1>6. PendingIsUnstarted'
  BY <1>1 DEF Terminal, Idle, PendingIsUnstarted, Started, Answer
<1>7. RunningIsRun'
  BY DEF RunningIsRun, Working
<1>8. JobsExclusive' /\ HeldMatchesJobs' /\ CallBudget'
  BY BudgetKept DEF JobsExclusive, HeldMatchesJobs
<1>9. OneCallOneRun'
  BY <1>1, OneRunKept DEF Idle, TypeOK, EngineTypeOK
<1> QED
  BY <1>2, <1>3, <1>4, <1>5, <1>6, <1>7, <1>8, <1>9

\* A run that cannot read its rows answers without having written.
LEMMA LoadErrorInv ==
    ASSUME IInv, NEW r \in Runs, EngineStep(r), LoadError(r)
    PROVE  IInv'
<1> USE DEF IInv, EngineStep, LoadError, brokerVars, engineVars, poolVars, workerVars, historyVars
<1>1. /\ WellFormed(Answered(r, "error"))
      /\ Answered(r, "error") \in RunRecord
      /\ run[r].attached =>
            /\ Answered(r, "error").pc = "reply" /\ Answered(r, "error").attached
            /\ Answered(r, "error").exec = run[r].exec /\ Answered(r, "error").result = "error"
      /\ ~run[r].attached => Answered(r, "error") = Idle
  BY AnsweredFields DEF TypeOK, EngineTypeOK, Results, RunsWellFormed
<1>2. TypeOK'
  BY <1>1 DEF TypeOK, BrokerTypeOK, EngineTypeOK
<1>3. RunsWellFormed'
  BY <1>1 DEF RunsWellFormed
<1>4. CallsMatchRuns'
  BY <1>1 DEF Idle, CallsMatchRuns
<1>5. RowBeforeMessage'
  BY <1>1 DEF Idle, RowBeforeMessage
<1>6. PendingIsUnstarted'
  BY <1>1 DEF Terminal, Idle, PendingIsUnstarted, Started, Answer
<1>7. RunningIsRun'
  BY DEF RunningIsRun, Working
<1>8. JobsExclusive' /\ HeldMatchesJobs' /\ CallBudget'
  BY BudgetKept DEF JobsExclusive, HeldMatchesJobs
<1>9. OneCallOneRun'
  BY <1>1, OneRunKept DEF Idle, TypeOK, EngineTypeOK
<1> QED
  BY <1>2, <1>3, <1>4, <1>5, <1>6, <1>7, <1>8, <1>9

\* The first write: the row is running, or hurt.
LEMMA StartInv ==
    ASSUME IInv, NEW r \in Runs, NEW written \in BOOLEAN,
           EngineStep(r), Start(r, written)
    PROVE  IInv'
<1> USE DEF IInv, EngineStep, Start, WriteStatus, StillHurt, brokerVars, engineVars, poolVars, workerVars,
          historyVars
<1>1. status' \in [Executions -> Statuses] /\ hurt' \subseteq Executions
  BY DEF TypeOK, EngineTypeOK, Statuses, RunsWellFormed, WellFormed
<1>2. run' \in [Runs -> RunRecord] /\ WellFormed(run'[r])
  BY DEF TypeOK, EngineTypeOK, RunRecord, Phases, RunsWellFormed, WellFormed
<1>3. TypeOK'
  BY <1>1, <1>2 DEF TypeOK, BrokerTypeOK, EngineTypeOK
<1>4. RunsWellFormed'
  BY <1>2 DEF RunsWellFormed
<1>5. CallsMatchRuns'
  BY DEF CallsMatchRuns
<1>6. RowBeforeMessage'
  BY DEF RowBeforeMessage
<1>7. PendingIsUnstarted'
  BY <1>1 DEF PendingIsUnstarted, Started, Answer
<1>8. RunningIsRun'
  BY <1>2 DEF RunningIsRun, Working
<1>9. JobsExclusive' /\ HeldMatchesJobs' /\ CallBudget'
  BY BudgetKept DEF JobsExclusive, HeldMatchesJobs
<1>10. OneCallOneRun'
  BY OneRunKept DEF Terminal, TypeOK, EngineTypeOK
<1> QED
  BY <1>3, <1>4, <1>5, <1>6, <1>7, <1>8, <1>9, <1>10

\* The last write: the row is terminal and hurt no longer, or hurt.
LEMMA FinishInv ==
    ASSUME IInv, NEW r \in Runs, NEW result \in Terminal, NEW written \in BOOLEAN,
           EngineStep(r), Finish(r, result, written)
    PROVE  IInv'
<1> USE DEF IInv, EngineStep, Finish, WriteStatus, StillHurt, brokerVars, engineVars, poolVars, workerVars,
          historyVars
<1>1. /\ WellFormed(Answered(r, result))
      /\ Answered(r, result) \in RunRecord
      /\ run[r].attached =>
            /\ Answered(r, result).pc = "reply" /\ Answered(r, result).attached
            /\ Answered(r, result).exec = run[r].exec /\ Answered(r, result).result = result
      /\ ~run[r].attached => Answered(r, result) = Idle
  BY AnsweredFields DEF TypeOK, EngineTypeOK, Results, RunsWellFormed
<1>2. status' \in [Executions -> Statuses] /\ hurt' \subseteq Executions
  BY DEF TypeOK, EngineTypeOK, Statuses, RunsWellFormed, WellFormed
<1>3. TypeOK'
  BY <1>1, <1>2 DEF TypeOK, BrokerTypeOK, EngineTypeOK
<1>4. RunsWellFormed'
  BY <1>1 DEF RunsWellFormed
<1>5. CallsMatchRuns'
  BY <1>1 DEF Idle, CallsMatchRuns
<1>6. RowBeforeMessage'
  BY <1>1 DEF Terminal, Idle, RowBeforeMessage
<1>7. PendingIsUnstarted'
  <2>1. ASSUME NEW e \in Executions, status'[e] = "pending", e \notin hurt'
        PROVE  status[e] = "pending" /\ e \notin hurt /\ e # run[r].exec
    BY <2>1 DEF Terminal, TypeOK, EngineTypeOK
  <2>2. \A s \in Runs : s # r => run'[s] = run[s]
    BY DEF TypeOK, EngineTypeOK
  <2>3. run'[r].exec \in {run[r].exec, NoExec}
    BY <1>1 DEF Idle, TypeOK, EngineTypeOK
  <2> QED
    BY <2>1, <2>2, <2>3 DEF PendingIsUnstarted, Started, Answer
<1>8. RunningIsRun'
  BY <1>2 DEF Terminal, RunningIsRun, Working
<1>9. JobsExclusive' /\ HeldMatchesJobs' /\ CallBudget'
  BY BudgetKept DEF JobsExclusive, HeldMatchesJobs
<1>10. OneCallOneRun'
  <2>1. run[r].exec \in Executions /\ run[r].pc = "steps"
    BY DEF RunsWellFormed, WellFormed
  <2>2. \A s \in Runs : s # r => run'[s] = run[s]
    BY DEF TypeOK, EngineTypeOK
  <2>3. run'[r].exec \in {run[r].exec, NoExec} /\ run'[r].pc \in {"reply", "idle"}
    BY <1>1 DEF Idle, TypeOK, EngineTypeOK
  <2>4. \A e \in Executions : Active(e)' \subseteq Active(e) \ {r}
    BY <2>2, <2>3 DEF Active
  <2>5. \A e \in Executions : status'[e] \in Terminal => status[e] \in Terminal \/ e = run[r].exec
    BY <2>1 DEF TypeOK, EngineTypeOK
  <2>6. \A e \in Executions, s \in Runs : run'[s].exec = e => run[s].exec = e
    BY <2>2, <2>3
  <2>7. ASSUME NEW e \in Executions, calls[e] = 1, status'[e] \in Terminal
        PROVE  Active(e)' = {}
    <3>1. CASE status[e] \in Terminal
      BY <2>4, <2>7, <3>1 DEF OneCallOneRun
    <3>2. CASE e = run[r].exec
      <4>1. Active(e) \subseteq {r}
        BY <2>7, <3>2 DEF OneCallOneRun, Active
      <4> QED
        BY <2>4, <4>1
    <3> QED
      BY <2>5, <2>7, <3>1, <3>2
  <2> QED
    BY <2>1, <2>5, <2>6, <2>7 DEF OneCallOneRun
<1> QED
  BY <1>3, <1>4, <1>5, <1>6, <1>7, <1>8, <1>9, <1>10

\* The engine's death hurts the executions whose runs were between their writes.
LEMMA EngineDiesInv ==
    ASSUME IInv, EngineDies
    PROVE  IInv'
<1> USE DEF IInv, EngineDies, Working, brokerVars, engineVars, poolVars, workerVars, historyVars
<1>1. status' = status /\ alive' = alive
                       /\ hurt' = hurt \cup {e \in Executions : Working(e) # {}}
  BY DEF EngineCrash
<1>2. ASSUME NEW r \in Runs
      PROVE  /\ run'[r] \in RunRecord /\ WellFormed(run'[r])
             /\ run[r].attached => /\ run'[r].attached /\ run'[r].pc = "reset"
                                   /\ run'[r].exec = run[r].exec
             /\ ~run[r].attached => run'[r] = Idle
  BY CrashedFields DEF TypeOK
<1>3. run' \in [Runs -> RunRecord]
  BY <1>2 DEF TypeOK, EngineTypeOK, EngineCrash
<1>4. TypeOK'
  BY <1>1, <1>3 DEF TypeOK, BrokerTypeOK, EngineTypeOK
<1>5. RunsWellFormed'
  BY <1>2 DEF RunsWellFormed
<1>6. CallsMatchRuns'
  BY <1>2 DEF TypeOK, Idle, CallsMatchRuns
<1>7. RowBeforeMessage'
  BY <1>1, <1>2 DEF Idle, RunsWellFormed, WellFormed, RowBeforeMessage
<1>8. PendingIsUnstarted'
  BY <1>1, <1>2 DEF Idle, PendingIsUnstarted, Started, Answer
<1>9. RunningIsRun'
  BY <1>1 DEF RunningIsRun
<1>10. JobsExclusive' /\ HeldMatchesJobs' /\ CallBudget'
  BY BudgetKept DEF JobsExclusive, HeldMatchesJobs
<1>11. OneCallOneRun'
  <2>1. \A r \in Runs :
           /\ run'[r].exec \in {run[r].exec, NoExec}
           /\ run'[r].pc \in {"load", "start", "steps"} => run[r].pc \in {"load", "start", "steps"}
    BY <1>2 DEF Idle, TypeOK, EngineTypeOK
  <2> QED
    BY <2>1, <1>1, OneRunKept DEF EngineDies
<1> QED
  BY <1>4, <1>5, <1>6, <1>7, <1>8, <1>9, <1>10, <1>11

-----------------------------------------------------------------------------
(* The invariant holds initially and is preserved by every step.            *)

\* Nothing has happened yet: no row, no message, no call.
LEMMA InitIInv == Init => IInv
<1> SUFFICES ASSUME Init
             PROVE  IInv
  OBVIOUS
<1> USE DEF Init, BrokerInit, EngineInit
<1>1. TypeOK
  BY DEF TypeOK, BrokerTypeOK, EngineTypeOK, RunRecord, Phases, Results, Places, Statuses,
         TriggerPhases, Idle
<1>2. RunsWellFormed
  BY DEF RunsWellFormed, WellFormed, Idle
<1>3. JobsExclusive /\ HeldMatchesJobs
  BY DEF JobsExclusive, HeldMatchesJobs
<1>4. CallsMatchRuns
  BY DEF CallsMatchRuns, Idle
<1>5. RowBeforeMessage
  BY DEF RowBeforeMessage, Idle
<1>6. CallBudget
  <2>1. \A e \in Executions : Uncalled(e) = {}
    BY DEF Uncalled, Handling
  <2>2. \A e \in Executions : Cardinality(Uncalled(e)) = 0
    BY <2>1, FS_EmptySet
  <2>3. ASSUME NEW e \in Executions
        PROVE  calls[e] + Cardinality(Uncalled(e)) <= Budget(e) /\ place[e] # "retry"
    <3>1. place[e] = "none" /\ deaths[e] = 0 /\ requeued[e] = 0 /\ calls[e] = 0
      OBVIOUS
    <3> HIDE DEF Init, BrokerInit, EngineInit
    <3>2. Budget(e) = 0
      BY <3>1 DEF Budget
    <3> QED
      BY <2>2, <3>1, <3>2
  <2> QED
    BY <2>3 DEF CallBudget
<1>7. PendingIsUnstarted /\ RunningIsRun
  BY DEF PendingIsUnstarted, RunningIsRun
<1>8. OneCallOneRun
  BY DEF OneCallOneRun, Terminal, Idle
<1> QED
  BY <1>1, <1>2, <1>3, <1>4, <1>5, <1>6, <1>7, <1>8 DEF IInv

\* Stuttering changes none of the variables the invariant speaks of.
LEMMA StutterInv == IInv /\ UNCHANGED vars => IInv'
<1> SUFFICES ASSUME IInv, UNCHANGED vars
             PROVE  IInv'
  OBVIOUS
<1> USE DEF IInv, vars, brokerVars, engineVars, triggerVars, poolVars, workerVars, historyVars
<1>1. TypeOK' /\ RunsWellFormed'
  BY DEF TypeOK, BrokerTypeOK, EngineTypeOK, RunsWellFormed, WellFormed
<1>2. JobsExclusive' /\ HeldMatchesJobs' /\ CallsMatchRuns' /\ RowBeforeMessage' /\ CallBudget'
  BY BudgetKept DEF JobsExclusive, HeldMatchesJobs, CallsMatchRuns, RowBeforeMessage
<1>3. PendingIsUnstarted' /\ RunningIsRun'
  BY DEF PendingIsUnstarted, Started, Answer, RunningIsRun, Working
<1>4. OneCallOneRun'
  BY DEF OneCallOneRun, Active
<1> QED
  BY <1>1, <1>2, <1>3, <1>4

\* Every step preserves the inductive invariant: one case per action.
LEMMA NextIInv == IInv /\ [Next]_vars => IInv'
<1> SUFFICES ASSUME IInv, [Next]_vars
             PROVE  IInv'
  OBVIOUS
<1>1. ASSUME NEW e \in Executions, TriggerStep(e)
      PROVE  IInv'
  BY <1>1, CheckWorkflowInv, CreateExecutionInv, CreateFailsInv, PublishInv, PublishLostInv,
     PublishFailsInv DEF TriggerStep
<1>2. ASSUME NEW w \in Workers, WorkerStep(w)
      PROVE  IInv'
  BY <1>2, DropInv, FailsBeforeCallInv, CallInv, ReplyOkInv, ReplyErrorInv, CallBreaksInv
     DEF WorkerStep
<1>3. ASSUME NEW r \in Runs, EngineStep(r)
      PROVE  IInv'
  <2>1. RunStep(r)
    BY <1>3 DEF EngineStep
  <2>2. CASE Load(r) \/ LoadMissing(r) \/ LoadError(r)
    BY <2>2, <1>3, LoadInv, LoadMissingInv, LoadErrorInv
  <2>3. ASSUME NEW written \in BOOLEAN, Start(r, written)
        PROVE  IInv'
    BY <2>3, <1>3, StartInv
  <2>4. ASSUME NEW result \in Terminal, NEW written \in BOOLEAN, Finish(r, result, written)
        PROVE  IInv'
    BY <2>4, <1>3, FinishInv
  <2> QED
    BY <2>1, <2>2, <2>3, <2>4 DEF RunStep
<1>4. ASSUME NEW w \in Workers, NEW e \in Executions, Deliver(w, e)
      PROVE  IInv'
  BY <1>4, DeliverInv
<1>5. ASSUME NEW e \in Executions, BrokerStep(e)
      PROVE  IInv'
  BY <1>5, BrokerStepInv
<1>6. ASSUME NEW f \in Workflows, Delete(f)
      PROVE  IInv'
  BY <1>6, DeleteInv
<1>7. ASSUME NEW consuming \in SUBSET Workers, GatewayStart(consuming)
      PROVE  IInv'
  BY <1>7, GatewayStartInv
<1>8. CASE SchedulerCrash \/ GatewayCrash \/ EngineDies
  BY <1>8, SchedulerCrashInv, GatewayCrashInv, EngineDiesInv
<1>10. CASE ConnectionLost \/ \E w \in Workers : ChannelClosed(w)
  BY <1>10, ChannelsClosedInv DEF ConnectionLost, ChannelClosed
<1>9. CASE UNCHANGED vars
  BY <1>9, StutterInv
<1> QED
  BY <1>1, <1>2, <1>3, <1>4, <1>5, <1>6, <1>7, <1>8, <1>9, <1>10 DEF Next

-----------------------------------------------------------------------------
(* The theorems: what follows from the inductive invariant.                 *)

\* The queues, the workers, the runs and the rows stay consistent with each other:
\* the inductive invariant holds in every reachable state.
THEOREM Invariance == Spec => []IInv
<1>1. Init => IInv
  BY InitIInv
<1>2. IInv /\ [Next]_vars => IInv'
  BY NextIInv
<1> QED
  BY <1>1, <1>2, PTL DEF Spec

\* Every variable keeps its type: statuses, message places and run records are those
\* the services know, and no message dies more often than MaxRetries allows.
THEOREM TypeCorrect == Spec => []TypeOK
<1>1. IInv => TypeOK
  BY DEF IInv
<1> QED
  BY <1>1, Invariance, PTL

\* Two workers wait for runs of one execution only after a channel was closed under a
\* delivery of it, and at most one of the two can still acknowledge.
THEOREM OverlapCaused == Spec => []OverlapHasCause
<1>1. IInv => OverlapHasCause
  <2> SUFFICES ASSUME IInv, NEW w \in Workers, NEW v \in Workers,
                      w # v, rpc[w] # NoRun, rpc[v] # NoRun, job[w] = job[v]
               PROVE  (w \notin open \/ v \notin open) /\ requeued[job[w]] > 0
    BY DEF OverlapHasCause
  <2>1. job[w] # NoExec
    BY DEF IInv, CallsMatchRuns
  <2>2. w \notin open \/ v \notin open
    BY <2>1 DEF IInv, JobsExclusive
  <2> QED
    BY <2>1, <2>2 DEF IInv, HeldMatchesJobs
<1> QED
  BY <1>1, Invariance, PTL

\* The retry limit bounds the engine calls made for a message, whatever its requeues.
THEOREM CallsBounded == Spec => []BoundedCalls
<1>1. IInv => BoundedCalls
  <2> SUFFICES ASSUME IInv, NEW e \in Executions
               PROVE  calls[e] <= MaxRetries + requeued[e]
    BY DEF BoundedCalls
  <2> DEFINE n == Cardinality(Uncalled(e))
  <2>1. /\ calls[e] \in Nat /\ requeued[e] \in Nat /\ deaths[e] \in 0..MaxRetries
        /\ place[e] \in Places /\ calls[e] + n <= Budget(e)
    BY DEF IInv, TypeOK, BrokerTypeOK, CallBudget
  <2>2. n \in Nat
    BY WorkersAssumption, FS_Subset, FS_CardinalityType DEF Uncalled
  <2>3. CASE place[e] \in {"none", "run", "gone"}
    BY <2>1, <2>2, <2>3 DEF Budget
  <2>4. CASE place[e] = "retry"
    BY <2>1, <2>2, <2>4 DEF IInv, CallBudget, Budget
  <2>5. CASE place[e] = "held"
    <3>1. PICK w \in Workers : w \in open /\ job[w] = e /\ seen[w] = deaths[e] /\ e # NoExec
      BY <2>5 DEF IInv, TypeOK, HeldMatchesJobs
    <3>2. CASE rpc[w] = NoRun
      <4>1. n > 0
        BY <3>1, <3>2, UncalledCount DEF Uncalled, Handling
      <4> QED
        BY <2>1, <2>2, <2>5, <4>1 DEF Budget
    <3>3. CASE rpc[w] # NoRun
      <4>1. deaths[e] < MaxRetries
        BY <3>1, <3>3 DEF IInv, CallsMatchRuns
      <4> QED
        BY <2>1, <2>2, <2>5, <4>1 DEF Budget
    <3> QED
      BY <3>2, <3>3
  <2> QED
    BY <2>1, <2>3, <2>4, <2>5 DEF Places
<1> QED
  BY <1>1, Invariance, PTL

\* A row says "running" only while a run of it is between its two writes, or a write
\* failed or the engine died and no run has come to its end since.
THEOREM RunningTrue == Spec => []RunningIsRun
<1>1. IInv => RunningIsRun
  BY DEF IInv
<1> QED
  BY <1>1, Invariance, PTL

\* An acknowledged answer leaves a finished execution: the pool loses no work.
THEOREM AnsweredFinished == Spec => []AnsweredIsFinished
<1>1. IInv => AnsweredIsFinished
  <2> SUFFICES ASSUME IInv, NEW e \in Executions, Answer(e),
                      e \notin hurt, Working(e) = {}
               PROVE  status[e] \in Terminal
    BY DEF AnsweredIsFinished
  <2>1. status[e] \in Statuses
    BY DEF IInv, TypeOK, EngineTypeOK
  <2>2. status[e] # "none"
    BY DEF IInv, RowBeforeMessage, Answer
  <2>3. status[e] # "pending"
    BY DEF IInv, PendingIsUnstarted
  <2>4. status[e] # "running"
    BY DEF IInv, RunningIsRun
  <2> QED
    BY <2>1, <2>2, <2>3, <2>4 DEF Statuses
<1> QED
  BY <1>1, Invariance, PTL

\* An execution that stays pending with nobody left to start it has a known cause.
THEOREM Stranded == Spec => []StrandedHasCause
<1>1. IInv => StrandedHasCause
  <2> SUFFICES ASSUME IInv, NEW e \in Executions,
                      status[e] = "pending", ~Owed(e), e \notin dropped, e \notin hurt,
                      trig[e] # "failed"
               PROVE  trig[e] = "published" /\ place[e] = "none"
    BY DEF StrandedHasCause
  <2>1. trig[e] \in TriggerPhases /\ place[e] \in Places
    BY DEF IInv, TypeOK, BrokerTypeOK
  <2>2. trig[e] = "published"
    BY <2>1 DEF IInv, RowBeforeMessage, Owed, TriggerPhases
  <2>3. place[e] # "gone"
    BY DEF IInv, PendingIsUnstarted, Answer
  <2> QED
    BY <2>1, <2>2, <2>3 DEF Owed, Places
<1> QED
  BY <1>1, Invariance, PTL

-----------------------------------------------------------------------------
(* What a step may never do.                                                *)

\* A row that exists is written only by a run that still has work to do.
LEMMA WhoWrites ==
    ASSUME IInv, [Next]_vars, NEW e \in Executions, status'[e] # status[e]
    PROVE  status[e] = "none" \/ Active(e) # {}
<1> USE DEF IInv
<1>1. ASSUME NEW x \in Executions, CreateExecution(x)
      PROVE  status[e] = "none" \/ Active(e) # {}
  <2>1. status[x] = "none" /\ x = e
    BY <1>1 DEF CreateExecution, TriggerAt, RowBeforeMessage, TypeOK, EngineTypeOK
  <2> QED
    BY <2>1
<1>2. ASSUME NEW r \in Runs, EngineStep(r)
      PROVE  status[e] = "none" \/ Active(e) # {}
  <2>1. run[r].pc \in {"start", "steps"} /\ e = run[r].exec
    <3>1. run[r].pc \in {"start", "steps"} /\ \E s \in Statuses : status' = [status EXCEPT ![run[r].exec] = s]
      BY <1>2 DEF EngineStep, RunStep, Load, LoadMissing, LoadError, Start, Finish, WriteStatus,
                  Terminal, Statuses
    <3> QED
      BY <3>1 DEF TypeOK, EngineTypeOK
  <2> QED
    BY <2>1 DEF Active
<1>3. CASE UNCHANGED status
  BY <1>3
<1>4. ASSUME NEW x \in Executions, TriggerStep(x), ~CreateExecution(x)
      PROVE  UNCHANGED status
  BY <1>4 DEF TriggerStep, CheckWorkflow, CreateFails, Publish, PublishLost, PublishFails, engineVars
<1>5. ASSUME NEW w \in Workers, WorkerStep(w)
      PROVE  UNCHANGED status
  BY <1>5 DEF WorkerStep, Drop, FailsBeforeCall, Call, Accept, ReplyOk, ReplyError, Collect,
              CallBreaks, Detach, engineVars
<1>6. CASE \/ \E w \in Workers, x \in Executions : Deliver(w, x)
           \/ \E x \in Executions : BrokerStep(x)
           \/ \E f \in Workflows : Delete(f)
           \/ \E consuming \in SUBSET Workers : GatewayStart(consuming)
           \/ SchedulerCrash \/ ConnectionLost \/ GatewayCrash \/ EngineDies
           \/ \E w \in Workers : ChannelClosed(w)
           \/ UNCHANGED vars
  <2>1. UNCHANGED status
    BY <1>6 DEF Deliver, BrokerStep, Delete, DeleteWorkflow, GatewayStart, SchedulerCrash,
                ConnectionLost, ChannelClosed, ChannelsClosed, GatewayCrash, EngineDies,
                EngineCrash, engineVars, vars
  <2> QED
    BY <2>1
<1> QED
  BY <1>1, <1>2, <1>3, <1>4, <1>5, <1>6 DEF Next

\* Only a second call moves an execution that has ended: with one call there was one
\* run, and that run is over.
THEOREM RetriesReopen == Spec => OnlyRetriesReopen
<1>1. ASSUME IInv, [Next]_vars, NEW e \in Executions,
             status[e] \in Terminal, status'[e] # status[e]
      PROVE  calls[e] >= 2
  <2>1. calls[e] \in Nat
    BY <1>1 DEF IInv, TypeOK
  <2>2. Active(e) # {}
    BY <1>1, WhoWrites DEF Terminal
  <2>3. calls[e] \notin {0, 1}
    BY <1>1, <2>2 DEF IInv, OneCallOneRun, Active
  <2> QED
    BY <2>1, <2>3
<1>2. IInv /\ [Next]_vars =>
        [\A e \in Executions :
            status[e] \in Terminal /\ status'[e] # status[e] => calls[e] >= 2]_vars
  BY <1>1
<1> QED
  BY <1>2, Invariance, PTL DEF Spec, OnlyRetriesReopen

\* Every move of a message that can happen: the queues know no other.
Moved(e) ==
    \/ place'[e] = place[e] /\ deaths'[e] = deaths[e]
    \/ place[e] = "none"
    \/ place[e] = "run" /\ place'[e] = "held" /\ deaths'[e] = deaths[e]
    \/ place[e] = "held" /\ place'[e] \in {"gone", "retry"} /\ deaths'[e] = deaths[e]
    \/ place[e] = "retry" /\ place'[e] = "run" /\ deaths'[e] = deaths[e] + 1
    \/ place[e] = "held" /\ place'[e] = "run" /\ deaths'[e] = deaths[e] /\ outages' # outages

\* Every step moves every message in one of these ways.
LEMMA EveryMove ==
    ASSUME IInv, [Next]_vars
    PROVE  \A e \in Executions : Moved(e)
<1> USE DEF IInv, TypeOK, BrokerTypeOK, Move
<1>1. UNCHANGED brokerVars => \A e \in Executions : Moved(e)
  BY DEF brokerVars, Moved
<1>2. ASSUME NEW x \in Executions, TriggerStep(x)
      PROVE  \A e \in Executions : Moved(e)
  <2>1. CASE Publish(x)
    BY <2>1 DEF Publish, Enqueue, Moved
  <2> QED
    BY <1>1, <1>2, <2>1 DEF TriggerStep, CheckWorkflow, CreateExecution, CreateFails, PublishLost,
                            PublishFails
<1>3. ASSUME NEW w \in Workers, WorkerStep(w)
      PROVE  \A e \in Executions : Moved(e)
  <2>1. AckDelivery(w) \/ NackDelivery(w) => \A e \in Executions : Moved(e)
    <3>1. AckDelivery(w) \/ NackDelivery(w) =>
             UNCHANGED brokerVars \/ Acknowledge(job[w]) \/ Reject(job[w])
      BY DEF AckDelivery, NackDelivery, IfOpen
    <3>2. Acknowledge(job[w]) \/ Reject(job[w]) => \A e \in Executions : Moved(e)
      BY DEF Acknowledge, Reject, Moved
    <3> QED
      BY <3>1, <3>2, <1>1
  <2> QED
    BY <1>1, <1>3, <2>1 DEF WorkerStep, Drop, FailsBeforeCall, Call, ReplyOk, ReplyError, CallBreaks
<1>4. ASSUME NEW w \in Workers, NEW x \in Executions, Deliver(w, x)
      PROVE  \A e \in Executions : Moved(e)
  BY <1>4 DEF Deliver, Hand, Moved
<1>5. ASSUME NEW x \in Executions, BrokerStep(x)
      PROVE  \A e \in Executions : Moved(e)
  BY <1>5 DEF BrokerStep, Expire, Moved
<1>6. ASSUME NEW workers \in SUBSET Workers, Disconnect(workers)
      PROVE  \A e \in Executions : Moved(e)
  BY <1>6, HeldByFacts DEF Disconnect, Requeue, Moved
<1>8. CASE ConnectionLost \/ GatewayCrash \/ \E w \in Workers : ChannelClosed(w)
  BY <1>6, <1>8 DEF ConnectionLost, ChannelClosed, ChannelsClosed, GatewayCrash
<1>7. CASE \/ \E r \in Runs : EngineStep(r)
           \/ \E f \in Workflows : Delete(f)
           \/ \E consuming \in SUBSET Workers : GatewayStart(consuming)
           \/ SchedulerCrash \/ EngineDies \/ UNCHANGED vars
  BY <1>1, <1>7 DEF EngineStep, Delete, GatewayStart, SchedulerCrash, EngineDies, vars
<1> QED
  BY <1>2, <1>3, <1>4, <1>5, <1>7, <1>8 DEF Next

\* A message wears out: rejections and expiries only bring it nearer to its end, which
\* bounds the rounds of a message between two outages.
THEOREM WearOut == Spec => MessagesWearOut
<1>1. ASSUME IInv, IInv', NEW e \in Executions, Moved(e), place[e] # "none"
      PROVE  \/ place'[e] = place[e] /\ deaths'[e] = deaths[e]
             \/ Rank(e)' < Rank(e)
             \/ outages' # outages /\ Rank(e)' <= Rank(e) + 1
  <2>1. deaths[e] \in 0..MaxRetries /\ deaths'[e] \in 0..MaxRetries
    BY <1>1 DEF IInv, TypeOK, BrokerTypeOK
  <2> QED
    BY <1>1, <2>1 DEF Moved, Rank
<1>2. IInv /\ IInv' /\ [Next]_vars =>
        [\A e \in Executions :
            place[e] # "none" =>
               \/ place'[e] = place[e] /\ deaths'[e] = deaths[e]
               \/ Rank(e)' < Rank(e)
               \/ outages' # outages /\ Rank(e)' <= Rank(e) + 1]_vars
  BY <1>1, EveryMove
<1> QED
  BY <1>2, Invariance, PTL DEF Spec, MessagesWearOut
-----------------------------------------------------------------------------
(* Where the documented lifecycle holds (finding lifecycle_final): as long as *)
(* no call breaks, no connection is lost and no process dies.                *)

Breaks == {"rpc", "connection", "gateway", "engine"}

\* Every run has a caller, and the message of an execution that has ended is
\* acknowledged, or the answer that will have it acknowledged is ready.
Reported(e) ==
    \/ place[e] = "gone"
    \/ \E r \in Runs : run[r].exec = e /\ run[r].pc = "reply" /\ run[r].result \in Terminal
CalmInv ==
    /\ gateway = "up" /\ open = Workers
    /\ \A r \in Runs : run[r].pc # "idle" => run[r].attached /\ run[r].pc # "reset"
    /\ \A e \in Executions : status[e] \in Terminal => Reported(e)

\* A message that is gone stays gone.
LEMMA GoneStays ==
    ASSUME IInv, [Next]_vars, NEW e \in Executions, place[e] = "gone"
    PROVE  place'[e] = "gone"
BY EveryMove DEF Moved

\* The facts are kept while no run moves and no status.
LEMMA CalmStays ==
    ASSUME IInv, CalmInv, [Next]_vars, UNCHANGED <<run, gateway, open>>,
           \A e \in Executions : status'[e] \in Terminal => status'[e] = status[e]
    PROVE  CalmInv'
BY GoneStays DEF CalmInv, Reported

\* A run keeps its caller and leaves its answer for it.
LEMMA CalmRun ==
    ASSUME IInv, CalmInv, [Next]_vars, NEW r \in Runs, EngineStep(r)
    PROVE  CalmInv'
<1>1. run \in [Runs -> RunRecord] /\ status \in [Executions -> Statuses] /\ WellFormed(run[r])
  BY DEF IInv, TypeOK, EngineTypeOK, RunsWellFormed
<1>2. run[r].pc \in {"load", "start", "steps"} /\ run[r].attached
  BY DEF EngineStep, RunStep, Load, LoadMissing, LoadError, Start, Finish, CalmInv
<1>3. \E x : /\ run' = [run EXCEPT ![r] = x]
             /\ \/ \E pc \in {"start", "steps"} : x = [run[r] EXCEPT !.pc = pc]
                \/ \E result \in Results : x = Answered(r, result)
  <2>1. CASE Load(r) \/ \E written \in BOOLEAN : Start(r, written)
    BY <2>1 DEF Load, Start
  <2>2. CASE LoadMissing(r) \/ LoadError(r)
    BY <2>2 DEF LoadMissing, LoadError, Results
  <2>3. CASE \E result \in Terminal, written \in BOOLEAN : Finish(r, result, written)
    BY <2>3 DEF Finish, Results
  <2> QED
    BY <2>1, <2>2, <2>3 DEF EngineStep, RunStep
<1>4. /\ \A s \in Runs : s # r => run'[s] = run[s]
      /\ run'[r].attached /\ run'[r].pc # "reset" /\ run'[r].exec = run[r].exec
  <2>1. run[r] \in RunRecord
    BY <1>1
  <2>2. PICK x : /\ run' = [run EXCEPT ![r] = x]
                 /\ \/ \E pc \in {"start", "steps"} : x = [run[r] EXCEPT !.pc = pc]
                    \/ \E result \in Results : x = Answered(r, result)
    BY <1>3
  <2>3. run'[r] = x /\ \A s \in Runs : s # r => run'[s] = run[s]
    BY <1>1, <2>2
  <2>4. ASSUME NEW pc \in {"start", "steps"}, x = [run[r] EXCEPT !.pc = pc]
        PROVE  x.attached /\ x.pc # "reset" /\ x.exec = run[r].exec
    BY <1>2, <2>1, <2>4 DEF RunRecord
  <2>5. ASSUME NEW result \in Results, x = Answered(r, result)
        PROVE  x.attached /\ x.pc # "reset" /\ x.exec = run[r].exec
    BY <1>2, <2>1, <2>5 DEF Answered, RunRecord
  <2> QED
    BY <2>2, <2>3, <2>4, <2>5
<1>5. ASSUME NEW e \in Executions, status'[e] \in Terminal
      PROVE  Reported(e)'
  <2>1. CASE status[e] \in Terminal
    <3>1. Reported(e)
      BY <2>1 DEF CalmInv
    <3> QED
      BY <3>1, <1>2, <1>4, GoneStays DEF Reported
  <2>2. CASE status[e] \notin Terminal
    <3>1. PICK result \in Terminal, written \in BOOLEAN : Finish(r, result, written)
      BY <1>1, <1>5, <2>2 DEF EngineStep, RunStep, Load, LoadMissing, LoadError, Start,
                              WriteStatus, Terminal
    <3>2. e = run[r].exec
      BY <1>1, <1>5, <2>2, <3>1 DEF Finish, WriteStatus
    <3>3. run'[r].pc = "reply" /\ run'[r].result = result
      BY <1>1, <1>2, <3>1 DEF Finish, Answered, RunRecord
    <3> QED
      BY <1>4, <3>1, <3>2, <3>3 DEF Reported
  <2> QED
    BY <2>1, <2>2
<1> QED
  BY <1>4, <1>5 DEF CalmInv, EngineStep, poolVars

\* A worker takes the answer of a run and acknowledges its message in one step.
LEMMA CalmWorker ==
    ASSUME IInv, CalmInv, Faults \cap Breaks = {}, [Next]_vars, NEW w \in Workers, WorkerStep(w)
    PROVE  CalmInv'
<1>1. /\ run \in [Runs -> RunRecord] /\ job \in [Workers -> Executions \cup {NoExec}]
      /\ rpc \in [Workers -> Runs \cup {NoRun}] /\ place \in [Executions -> Places]
  BY DEF IInv, TypeOK, EngineTypeOK, BrokerTypeOK
<1>2. ~CallBreaks(w)
  <2>1. ASSUME rpc[w] # NoRun
        PROVE  run[rpc[w]].pc # "reset"
    BY <1>1, <2>1 DEF CalmInv
  <2> QED
    BY <2>1 DEF CallBreaks, Breaks
<1>3. CASE Drop(w) \/ FailsBeforeCall(w)
  BY <1>3, CalmStays DEF Drop, FailsBeforeCall, engineVars, poolVars
<1>4. ASSUME NEW r \in Runs, Call(w, r)
      PROVE  CalmInv'
  <2>1. /\ run[r] = Idle /\ \A s \in Runs : s # r => run'[s] = run[s]
        /\ run'[r].attached /\ run'[r].pc = "load"
    BY <1>1, <1>4 DEF Call, Accept
  <2>2. UNCHANGED <<status, gateway, open>>
    BY <1>4 DEF Call, Accept, poolVars
  <2> QED
    BY <2>1, <2>2, GoneStays DEF CalmInv, Reported, Idle
<1>5. CASE ReplyOk(w) \/ ReplyError(w)
  <2> DEFINE r == rpc[w]
  <2>1. /\ r \in Runs /\ run[r].exec = job[w] /\ job[w] \in Executions /\ place[job[w]] = "held"
    BY <1>1, <1>5 DEF ReplyOk, ReplyError, ReplyIs, IInv, CallsMatchRuns, HeldMatchesJobs, CalmInv
  <2>2. run'[r] = Idle /\ \A s \in Runs : s # r => run'[s] = run[s]
    BY <1>1, <1>5, <2>1 DEF ReplyOk, ReplyError, Collect
  <2>3. UNCHANGED <<status, gateway, open>>
    BY <1>5 DEF ReplyOk, ReplyError, Collect, poolVars
  <2>4. ASSUME NEW e \in Executions, status[e] \in Terminal
        PROVE  Reported(e)'
    <3>1. CASE ReplyOk(w) /\ e = job[w]
      <4>1. place'[e] = "gone"
        BY <1>1, <2>1, <3>1 DEF ReplyOk, AckDelivery, IfOpen, Acknowledge, Move, CalmInv
      <4> QED
        BY <4>1 DEF Reported
    <3>2. CASE ReplyError(w) \/ e # job[w]
      <4>1. ASSUME NEW s \in Runs, run[s].exec = e, run[s].result \in Terminal
            PROVE  s # r
        BY <2>1, <3>2, <4>1 DEF ReplyError, ReplyIs, Terminal
      <4> QED
        BY <2>2, <2>4, <4>1, GoneStays DEF CalmInv, Reported
    <3> QED
      BY <1>5, <3>1, <3>2
  <2> QED
    BY <2>2, <2>3, <2>4 DEF CalmInv, Idle
<1> QED
  BY <1>2, <1>3, <1>4, <1>5 DEF WorkerStep

\* The other actors leave runs alone, and none of the outages can happen.
LEMMA CalmNext ==
    ASSUME IInv, CalmInv, Faults \cap Breaks = {}, [Next]_vars
    PROVE  CalmInv'
<1>1. ASSUME NEW e \in Executions, TriggerStep(e)
      PROVE  CalmInv'
  <2>1. UNCHANGED <<run, gateway, open>>
    BY <1>1 DEF TriggerStep, CheckWorkflow, CreateExecution, CreateFails, Publish, PublishLost,
                PublishFails, TriggerAt, engineVars, poolVars
  <2>2. \A x \in Executions : status'[x] \in Terminal => status'[x] = status[x]
    BY <1>1 DEF TriggerStep, CheckWorkflow, CreateExecution, CreateFails, Publish, PublishLost,
                PublishFails, engineVars, IInv, TypeOK, EngineTypeOK, Terminal
  <2> QED
    BY <2>1, <2>2, CalmStays
<1>2. ASSUME NEW w \in Workers, NEW e \in Executions, Deliver(w, e)
      PROVE  CalmInv'
  BY <1>2, CalmStays DEF Deliver, engineVars, poolVars
<1>3. CASE \/ \E e \in Executions : BrokerStep(e)
           \/ \E f \in Workflows : Delete(f)
           \/ SchedulerCrash \/ UNCHANGED vars
  <2>1. UNCHANGED <<run, gateway, open, status>>
    BY <1>3 DEF BrokerStep, Delete, DeleteWorkflow, SchedulerCrash, engineVars, poolVars, vars
  <2> QED
    BY <2>1, CalmStays
<1>4. ~(\/ \E consuming \in SUBSET Workers : GatewayStart(consuming)
        \/ ConnectionLost \/ (\E w \in Workers : ChannelClosed(w)) \/ GatewayCrash \/ EngineDies)
  <2>1. "connection" \notin Faults /\ "gateway" \notin Faults /\ "engine" \notin Faults
    BY DEF Breaks
  <2>2. \A consuming \in SUBSET Workers : ~GatewayStart(consuming)
    BY DEF GatewayStart, CalmInv
  <2>3. ~ConnectionLost /\ ~GatewayCrash /\ \A w \in Workers : ~ChannelClosed(w)
    BY <2>1 DEF ConnectionLost, ChannelClosed, ChannelsClosed, GatewayCrash
  <2>4. ~EngineDies
    BY <2>1, Zenon DEF EngineDies, EngineCrash
  <2> QED
    BY <2>2, <2>3, <2>4
<1> QED
  BY <1>1, <1>2, <1>3, <1>4, CalmRun, CalmWorker DEF Next

\* TerminalIsFinal, which the code violates, holds where no call breaks, no connection is
\* lost and no process dies: failing queries, status writes and publishes and deleted
\* workflows do not reopen an execution, for all the retries they cause.
THEOREM FinalUnlessBroken ==
    ASSUME Faults \cap Breaks = {} PROVE Spec => TerminalIsFinal
<1>1. Init => CalmInv
  BY DEF Init, EngineInit, Idle, CalmInv, Terminal
<1>2. IInv /\ CalmInv /\ [Next]_vars => CalmInv'
  BY CalmNext
<1>3. ASSUME IInv, CalmInv, [Next]_vars, NEW e \in Executions, status[e] \in Terminal
      PROVE  status'[e] = status[e]
  <2> SUFFICES ASSUME status'[e] # status[e] PROVE FALSE
    OBVIOUS
  <2>1. PICK r \in Runs : run[r].exec = e /\ run[r].pc \in {"load", "start", "steps"}
    BY <1>3, WhoWrites DEF Active, Terminal
  <2>2. PICK w \in Workers : rpc[w] = r
    BY <1>3, <2>1 DEF CalmInv, IInv, CallsMatchRuns
  <2>3. rpc \in [Workers -> Runs \cup {NoRun}] /\ r # NoRun
    BY <1>3, NoRunAssumption DEF IInv, TypeOK
  <2>4. job[w] = e /\ e # NoExec /\ place[e] = "held"
    BY <1>3, <2>1, <2>2, <2>3 DEF CalmInv, IInv, CallsMatchRuns, HeldMatchesJobs
  <2>5. PICK s \in Runs : run[s].exec = e /\ run[s].pc = "reply"
    BY <1>3, <2>4 DEF CalmInv, Reported
  <2>6. PICK v \in Workers : rpc[v] = s
    BY <1>3, <2>5 DEF CalmInv, IInv, CallsMatchRuns
  <2>7. job[v] = e
    BY <1>3, <2>3, <2>5, <2>6, NoRunAssumption DEF IInv, CallsMatchRuns
  <2>8. v = w
    BY <1>3, <2>4, <2>7 DEF IInv, JobsExclusive, CalmInv
  <2> QED
    BY <2>1, <2>2, <2>5, <2>6, <2>8
<1>4. IInv /\ CalmInv /\ [Next]_vars =>
        [\A e \in Executions : status[e] \in Terminal => status'[e] = status[e]]_vars
  BY <1>3
<1> QED
  BY <1>1, <1>2, <1>4, Invariance, PTL DEF Spec, TerminalIsFinal
=============================================================================
