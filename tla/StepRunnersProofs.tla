------------------------- MODULE StepRunnersProofs --------------------------
(***************************************************************************)
(* The theorems about the data that flows through the steps.  RowsChain    *)
(* and RerunsAgree speak of the rows of step_logs.  What makes them        *)
(* inductive is what a run has in hand between two rows: an input that the *)
(* rows already account for, and an outcome its runner may have returned   *)
(* for that input.                                                         *)
(***************************************************************************)
EXTENDS StepRunners, StepLoopProofs

DataSet == SUBSET (FieldNames \X Prints)
DataRecord == [input : DataSet, output : DataSet]
Answer == [status : Terminal, output : DataSet]
Row == [at : 1..NumSteps, status : Terminal, input : DataSet, output : DataSet]

DataTypes ==
    /\ plan \in Plans
    /\ data \in [Runs -> DataRecord]
    /\ rows \in [Executions -> SUBSET Row]

\* Where the input of a step comes from, as RowsChain says.
Sourced(e, at, input) ==
    IF at = 1 THEN input = NoData
    ELSE \E before \in rows[e] :
           before.at = at - 1 /\ before.status = "success" /\ before.output = input

\* What its runner may have returned.
Possible(step, input, outcome, output) ==
    [status |-> outcome, output |-> output] \in Returned(step, input)

\* What a run has in hand.
InHand(r) ==
    /\ run[r].exec \in Executions \ unlogged =>
         /\ run[r].pc \in {"step", "log", "event"} =>
              Sourced(run[r].exec, run[r].at, data[r].input)
         /\ run[r].pc = "event" => RowOf(r) \in rows[run[r].exec]
    /\ run[r].pc \in {"log", "event"} =>
         Possible(plan[run[r].at], data[r].input, run[r].outcome, data[r].output)

RowsPossible ==
    \A e \in Executions : \A row \in rows[e] :
        Possible(plan[row.at], row.input, row.status, row.output)

\* RerunsAgree for the executions whose rows are all there.
SteadyTo(at) == "rpc" \notin Faults /\ \A i \in 1..at : Steady(plan[i])
LoggedAgree ==
    \A e \in Executions \ unlogged : \A row, other \in rows[e] :
        row.at = other.at /\ SteadyTo(row.at) => row = other

IInv ==
    /\ LoopInv
    /\ DataTypes
    /\ \A r \in Runs : InHand(r)
    /\ RowsPossible
    /\ RowsChain
    /\ LoggedAgree
-----------------------------------------------------------------------------
(* The runners.                                                             *)

\* The outputs that the runners put together have a type.
LEMMA Pair ==
    ASSUME NEW f \in FieldNames, NEW t \in Prints, NEW g \in FieldNames, NEW u \in Prints
    PROVE  {<<f, t>>, <<g, u>>} \in DataSet /\ {<<f, t>>} \in DataSet
BY DEF DataSet

\* The value of a field, or its default, can be printed.
LEMMA LookupPrints ==
    ASSUME NEW input \in DataSet, NEW field, NEW default \in Prints
    PROVE  Lookup(input, field, default) \in Prints
<1>1. CASE \E x \in input : x[1] = field
    <2> DEFINE y == CHOOSE x \in input : x[1] = field
    <2>1. y \in input
        BY <1>1
    <2>2. y \in FieldNames \X Prints
        BY <2>1 DEF DataSet
    <2>3. y[2] \in Prints
        BY <2>2
    <2> QED
        BY <1>1, <2>3 DEF Lookup
<1>2. CASE ~ \E x \in input : x[1] = field
    BY <1>2 DEF Lookup
<1> QED
    BY <1>1, <1>2

\* A template of either kind renders to something printed.
LEMMA RenderedPrints ==
    ASSUME NEW template, template.kind \in {"text", "field"},
           template.kind = "text" => template.text \in Texts, NEW input \in DataSet
    PROVE  Rendered(template, input) \in Prints
<1>1. CASE template.kind = "text"
    BY <1>1 DEF Rendered, Prints
<1>2. CASE template.kind = "field"
    BY <1>2, LookupPrints DEF Rendered, Prints
<1> QED
    BY <1>1, <1>2

\* A runner returns a final status and fields with printable values.
LEMMA ReturnedTypes ==
    ASSUME NEW p \in Plans, NEW i \in 1..NumSteps, NEW input \in DataSet,
           NEW x \in Returned(p[i], input)
    PROVE  x \in Answer
<1> DEFINE step == p[i]
<1>1. Failure \in Answer
    BY DEF Failure, Answer, NoData, Terminal, DataSet
<1>2. ASSUME NEW output \in DataSet PROVE Success(output) \in Answer
    BY DEF Success, Answer, Terminal
<1>3. CASE Unusable(step)
    BY <1>1, <1>3 DEF Returned
<1>4. ASSUME ~ Unusable(step), step.type = "http_request" PROVE x \in Answer
    <2>1. \A s \in {"200", "500"}, t \in Texts : {<<"status", s>>, <<"body", t>>} \in DataSet
        BY Pair DEF FieldNames, Prints
    <2>2. x \in HttpRun
        BY <1>4 DEF Returned
    <2>3. CASE x = Failure
        BY <1>1, <2>3
    <2>4. CASE x # Failure
        <3> PICK s \in {"200", "500"}, t \in Texts : x = Success({<<"status", s>>, <<"body", t>>})
            BY <2>2, <2>4 DEF HttpRun
        <3> QED
            BY <1>2, <2>1
    <2> QED
        BY <2>3, <2>4
<1>5. ASSUME ~ Unusable(step), step.type = "transform" PROVE x \in Answer
    <2>1. x \in TransformRun(step, input) \cup {Failure}
        BY <1>5 DEF Returned, Interrupted
    <2>2. CASE step.template.kind = "bad"
        BY <1>1, <2>1, <2>2 DEF TransformRun
    <2>3. CASE step.template.kind # "bad"
        <3>1. step.template.kind \in {"text", "field"}
            BY <1>5, <2>3, PlansAssumption DEF Unusable
        <3>2. step.template.kind = "text" => step.template.text \in Texts
            BY <1>5, PlansAssumption
        <3>3. OutputKey(step) \in FieldNames
            BY <1>5, PlansAssumption DEF OutputKey, FieldNames
        <3>4. Rendered(step.template, input) \in Prints
            BY <3>1, <3>2, RenderedPrints
        <3>5. {<<OutputKey(step), Rendered(step.template, input)>>} \in DataSet
            BY <3>3, <3>4 DEF DataSet
        <3> QED
            BY <1>1, <1>2, <2>1, <2>3, <3>5 DEF TransformRun
    <2> QED
        BY <2>2, <2>3
<1>6. ASSUME ~ Unusable(step), step.type = "condition" PROVE x \in Answer
    <2>1. \A t \in {"true", "false"} : {<<"condition", t>>, <<"input", "map">>} \in DataSet
        BY Pair DEF FieldNames, Prints
    <2>2. x \in ConditionRun(step, input) \cup {Failure}
        BY <1>6 DEF Returned, Interrupted
    <2> QED
        BY <1>1, <1>2, <2>1, <2>2 DEF ConditionRun
<1>7. ASSUME ~ Unusable(step), step.type = "delay" PROVE x \in Answer
    <2>1. x \in DelayRun(step, input) \cup {Failure}
        BY <1>7 DEF Returned, Interrupted
    <2> QED
        BY <1>1, <1>2, <2>1 DEF DelayRun
<1>8. ASSUME ~ Unusable(step), step.type = "send_email" PROVE x \in Answer
    <2>1. x \in EmailRun(step) \cup {Failure}
        BY <1>8 DEF Returned, Interrupted
    <2>2. step.to \in Texts
        BY <1>8, PlansAssumption DEF Unusable
    <2>3. {<<"sent", "true">>, <<"to", step.to>>} \in DataSet
        BY <2>2, Pair DEF FieldNames, Prints
    <2> QED
        BY <1>1, <1>2, <2>1, <2>3 DEF EmailRun
<1>9. ASSUME ~ Unusable(step), step.type = "ai_task" PROVE x \in Answer
    <2>1. \A t \in Texts : {<<"output", t>>} \in DataSet
        BY Pair DEF FieldNames, Prints
    <2>2. x \in AiRun
        BY <1>9 DEF Returned
    <2> QED
        BY <1>1, <1>2, <2>1, <2>2 DEF AiRun
<1>10. ~ Unusable(step) =>
         step.type \in {"http_request", "transform", "condition", "delay", "send_email", "ai_task"}
    BY DEF Unusable
<1> QED
    BY <1>3, <1>4, <1>5, <1>6, <1>7, <1>8, <1>9, <1>10

\* A steady step has one outcome for each input.
LEMMA OneOutcome ==
    ASSUME NEW step, Steady(step), "rpc" \notin Faults, NEW input,
           NEW x \in Returned(step, input), NEW y \in Returned(step, input)
    PROVE  x = y
<1>1. CASE Unusable(step)
    BY <1>1 DEF Returned
<1>2. CASE ~ Unusable(step) /\ step.type = "transform"
    BY <1>2 DEF Returned, TransformRun, Interrupted
<1>3. CASE ~ Unusable(step) /\ step.type = "condition"
    BY <1>3 DEF Returned, ConditionRun, Interrupted
<1>4. CASE ~ Unusable(step) /\ step.type = "delay"
    BY <1>4 DEF Returned, DelayRun, Interrupted, Steady
<1>5. CASE ~ Unusable(step) /\ step.type = "send_email"
    BY <1>5 DEF Returned, EmailRun, Interrupted
<1> QED
    BY <1>1, <1>2, <1>3, <1>4, <1>5 DEF Steady
-----------------------------------------------------------------------------
(* The steps.                                                               *)

\* It holds at the start, when there are no rows and no run is at work.
LEMMA InitEstablishes == Init => IInv
<1> SUFFICES ASSUME Init PROVE IInv
    OBVIOUS
<1>1. LoopInv
    BY LoopInitEstablishes DEF Init
<1>2. DataTypes
    <2>1. NoData \in DataSet
        BY DEF NoData, DataSet
    <2> QED
        BY <2>1 DEF Init, DataTypes, DataRecord
<1>3. \A r \in Runs : run[r].pc = "idle"
    BY DEF Init, LoopInit, Idle
<1> QED
    BY <1>1, <1>2, <1>3 DEF IInv, Init, InHand, RowsPossible, RowsChain, LoggedAgree

\* Run r moves with its data, the rows are left alone.
LEMMA RunMovesOn ==
    ASSUME IInv, NEW r \in Runs, LoopInv', run' = [run EXCEPT ![r] = run'[r]],
           data' = [data EXCEPT ![r] = data'[r]], data'[r] \in DataRecord,
           UNCHANGED <<plan, rows, unlogged>>, InHand(r)'
    PROVE  IInv'
<1>1. DataTypes'
    BY DEF IInv, DataTypes
<1>2. ASSUME NEW p \in Runs \ {r} PROVE InHand(p)'
    <2>1. run'[p] = run[p] /\ data'[p] = data[p]
        BY DEF IInv, LoopInv, LoopTypes, LoopTypeOK, DataTypes
    <2> QED
        BY <2>1 DEF IInv, InHand, Sourced, RowOf
<1>3. RowsPossible' /\ RowsChain' /\ LoggedAgree'
    BY DEF IInv, RowsPossible, RowsChain, LoggedAgree, SteadyTo
<1> QED
    BY <1>1, <1>2, <1>3 DEF IInv

\* A run begins with an empty input.
LEMMA BeginPreserves ==
    ASSUME IInv, NEW r \in Runs, Begin(r), LoopInv'
    PROVE  IInv'
<1> PICK written \in BOOLEAN : Start(r, written)
    BY DEF Begin
<1>1. data' = [data EXCEPT ![r] = data'[r]] /\ data'[r] = [input |-> NoData, output |-> NoData]
    BY DEF Begin, IInv, DataTypes
<1>2. /\ run' = [run EXCEPT ![r] = run'[r]]
      /\ run'[r].pc \in {"step", "finish"} /\ run'[r].at = 1
    BY DEF Start, IInv, LoopInv, LoopTypes, LoopTypeOK, LoopRun
<1>3. data'[r] \in DataRecord
    BY <1>1 DEF DataRecord, DataSet, NoData
<1>4. InHand(r)'
    BY <1>1, <1>2 DEF InHand, Sourced
<1> QED
    BY <1>1, <1>2, <1>3, <1>4, RunMovesOn DEF Begin, Start

\* A runner returns something it may return.
LEMMA PerformPreserves ==
    ASSUME IInv, NEW r \in Runs, Perform(r), LoopInv'
    PROVE  IInv'
<1>1. run[r] \in LoopRun /\ PhaseInv(run[r]) /\ run[r].pc = "step"
    BY RunFacts DEF IInv, Perform
<1>2. run[r].at \in 1..NumSteps /\ run[r].exec \in Executions
    BY <1>1 DEF PhaseInv
<1> PICK x \in Returned(plan[run[r].at], data[r].input) :
             /\ RunStep(r, x.status)
             /\ data' = [data EXCEPT ![r].output = x.output]
    BY DEF Perform, StepOf
<1>3. x \in Answer
    BY <1>2, ReturnedTypes DEF IInv, DataTypes, DataRecord
<1>4. /\ data' = [data EXCEPT ![r] = data'[r]]
      /\ data'[r].input = data[r].input /\ data'[r].output = x.output /\ data'[r] \in DataRecord
    BY <1>3 DEF IInv, DataTypes, DataRecord, Answer
<1>5. /\ run' = [run EXCEPT ![r] = run'[r]]
      /\ run'[r].pc = "log" /\ run'[r].exec = run[r].exec /\ run'[r].at = run[r].at
      /\ run'[r].outcome = x.status
    BY <1>1 DEF RunStep, IInv, LoopInv, LoopTypes, LoopTypeOK, LoopRun
<1>6. x = [status |-> x.status, output |-> x.output]
    BY <1>3 DEF Answer
<1>7. InHand(r)'
    <2>1. run[r].exec \in Executions \ unlogged =>
            Sourced(run[r].exec, run[r].at, data[r].input)'
        BY <1>1, <1>4, <1>5 DEF IInv, InHand, Sourced, Perform
    <2>2. Possible(plan[run[r].at], data[r].input, run[r].outcome, data[r].output)'
        <3>1. Possible(plan[run[r].at], data[r].input, x.status, x.output)
            BY <1>6 DEF Possible
        <3> QED
            BY <1>4, <1>5, <3>1 DEF Perform
    <2> QED
        BY <1>5, <2>1, <2>2 DEF InHand, RunStep
<1> QED
    BY <1>4, <1>5, <1>7, RunMovesOn DEF Perform, RunStep

\* The output of a successful step becomes the input of the next.
LEMMA GoOnPreserves ==
    ASSUME IInv, NEW r \in Runs, GoOn(r), LoopInv'
    PROVE  IInv'
<1>1. run[r] \in LoopRun /\ PhaseInv(run[r]) /\ run[r].pc = "event"
    BY RunFacts DEF IInv, GoOn, StepDone
<1>2. run[r].at \in 1..NumSteps /\ run[r].outcome \in Terminal
    BY <1>1 DEF PhaseInv
<1>3. /\ data' = [data EXCEPT ![r] = data'[r]] /\ data'[r] \in DataRecord
      /\ run[r].outcome # "failed" => data'[r].input = data[r].output
    BY DEF GoOn, IInv, DataTypes, DataRecord
<1>4. CASE LastStep(r)
    <2>1. run' = [run EXCEPT ![r] = run'[r]] /\ run'[r].pc = "finish"
        BY <1>1, <1>4 DEF GoOn, StepDone, IInv, LoopInv, LoopTypes, LoopTypeOK, LoopRun
    <2>2. InHand(r)'
        BY <2>1 DEF InHand
    <2> QED
        BY <1>3, <2>1, <2>2, RunMovesOn DEF GoOn, StepDone
<1>5. CASE ~ LastStep(r)
    <2>1. /\ run' = [run EXCEPT ![r] = run'[r]]
          /\ run'[r].pc = "step" /\ run'[r].exec = run[r].exec /\ run'[r].at = run[r].at + 1
        BY <1>1, <1>5 DEF GoOn, StepDone, IInv, LoopInv, LoopTypes, LoopTypeOK, LoopRun
    <2>2. run[r].outcome = "success"
        BY <1>2, <1>5 DEF LastStep, Terminal
    <2>3. InHand(r)'
        <3> SUFFICES ASSUME run[r].exec \in Executions \ unlogged
                     PROVE  Sourced(run[r].exec, run[r].at, data[r].input)'
            BY <2>1 DEF InHand, GoOn, StepDone
        <3>1. RowOf(r) \in rows[run[r].exec]
            BY <1>1 DEF IInv, InHand
        <3>2. /\ RowOf(r).at = run'[r].at - 1 /\ RowOf(r).status = "success"
              /\ RowOf(r).output = data'[r].input
            BY <1>2, <1>3, <2>1, <2>2 DEF RowOf
        <3>3. run'[r].at # 1
            BY <1>2, <2>1
        <3> QED
            BY <2>1, <3>1, <3>2, <3>3 DEF Sourced, GoOn
    <2> QED
        BY <1>3, <2>1, <2>3, RunMovesOn DEF GoOn, StepDone
<1> QED
    BY <1>4, <1>5

\* The other steps end a run, or begin one.
LEMMA RestPreserves ==
    ASSUME IInv, NEW r \in Runs, Rest(r), LoopInv'
    PROVE  IInv'
<1>1. run[r] \in LoopRun /\ run \in [Runs -> LoopRun]
    BY RunFacts DEF IInv, LoopInv, LoopTypes, LoopTypeOK
<1>2. /\ run' = [run EXCEPT ![r] = run'[r]] /\ run'[r].pc \notin {"step", "log", "event"}
      /\ UNCHANGED unlogged
    <2>1. CASE Load(r) \/ LoadFails(r) \/ Announce(r) \/ Collect(r)
        BY <1>1, <2>1 DEF Load, LoadFails, Announce, Collect, Idle, LoopRun
    <2>2. CASE \E written \in BOOLEAN : Finish(r, written)
        BY <1>1, <2>2 DEF Finish, LoopRun
    <2>3. CASE \E e \in Executions : Accept(r, e)
        BY <1>1, <2>3 DEF Accept, Idle
    <2> QED
        BY <2>1, <2>2, <2>3 DEF Rest
<1>3. data' = [data EXCEPT ![r] = data'[r]] /\ data'[r] \in DataRecord
    BY DEF Rest, IInv, DataTypes
<1>4. InHand(r)'
    BY <1>2 DEF InHand
<1> QED
    BY <1>2, <1>3, <1>4, RunMovesOn DEF Rest

\* Two rows of a step are one, if all steps up to it are steady and their rows are there.
LEMMA RowsAgree ==
    ASSUME DataTypes, NEW e \in Executions, RowsPossible, RowsChain, LoggedAgree,
           e \notin unlogged, NEW row \in Row, SteadyTo(row.at), NEW other \in rows[e], row.at = other.at,
           Sourced(e, row.at, row.input),
           Possible(plan[row.at], row.input, row.status, row.output)
    PROVE  row = other
<1>1. other \in Row
    BY DEF DataTypes
<1>2. Sourced(e, other.at, other.input)
    BY DEF RowsChain, Sourced
<1>3. row.input = other.input
    <2>1. CASE row.at = 1
        BY <1>2, <2>1 DEF Sourced
    <2>2. CASE row.at # 1
        <3>1. PICK b1 \in rows[e] : b1.at = row.at - 1 /\ b1.output = row.input
            BY <2>2 DEF Sourced
        <3>2. PICK b2 \in rows[e] : b2.at = row.at - 1 /\ b2.output = other.input
            BY <1>2, <2>2 DEF Sourced
        <3>3. SteadyTo(b1.at)
            BY <3>1 DEF SteadyTo, Row
        <3>4. b1 = b2
            BY <3>1, <3>2, <3>3 DEF LoggedAgree
        <3> QED
            BY <3>1, <3>2, <3>4
    <2> QED
        BY <2>1, <2>2
<1>4. Possible(plan[row.at], row.input, other.status, other.output)
    BY <1>3 DEF RowsPossible
<1>5. Steady(plan[row.at]) /\ "rpc" \notin Faults
    BY DEF SteadyTo, Row
<1>6. [status |-> row.status, output |-> row.output] = [status |-> other.status, output |-> other.output]
    BY <1>4, <1>5, OneOutcome DEF Possible
<1>7. row.status = other.status /\ row.output = other.output
    BY <1>6
<1> QED
    BY <1>1, <1>3, <1>7 DEF Row

\* A row records the input and the output in hand, or is lost.
LEMMA RecordPreserves ==
    ASSUME IInv, NEW r \in Runs, Record(r), LoopInv'
    PROVE  IInv'
<1> PICK written \in BOOLEAN :
           /\ WriteLog(r, written)
           /\ rows' = IF written THEN [rows EXCEPT ![run[r].exec] = @ \cup {RowOf(r)}] ELSE rows
    BY DEF Record
<1>1. run[r] \in LoopRun /\ PhaseInv(run[r]) /\ run[r].pc = "log"
    BY RunFacts DEF IInv, WriteLog
<1>2. PICK e \in Executions : e = run[r].exec
    BY <1>1 DEF PhaseInv
<1>3. PICK new : new = RowOf(r)
    OBVIOUS
<1>4. /\ new \in Row /\ new.at = run[r].at /\ new.status = run[r].outcome
      /\ new.input = data[r].input /\ new.output = data[r].output
    BY <1>1, <1>3 DEF IInv, DataTypes, DataRecord, Row, RowOf, PhaseInv
<1>5. Possible(plan[new.at], new.input, new.status, new.output)
    BY <1>1, <1>4 DEF IInv, InHand
<1>6. /\ run' = [run EXCEPT ![r] = run'[r]]
      /\ run'[r].pc = "event" /\ run'[r].exec = run[r].exec /\ run'[r].at = run[r].at
      /\ run'[r].outcome = run[r].outcome
    BY <1>1 DEF WriteLog, IInv, LoopInv, LoopTypes, LoopTypeOK, LoopRun
<1>7. UNCHANGED <<plan, data>>
    BY DEF Record
<1>8. unlogged' = IF written THEN unlogged ELSE unlogged \cup {e}
    BY <1>2 DEF WriteLog
<1>9. /\ \A p \in Executions : rows'[p] = IF written /\ p = e THEN rows[p] \cup {new} ELSE rows[p]
      /\ rows' \in [Executions -> SUBSET Row]
    <2>1. CASE written
        BY <1>2, <1>3, <1>4, <2>1 DEF IInv, DataTypes
    <2>2. CASE ~ written
        BY <2>2 DEF IInv, DataTypes
    <2> QED
        BY <2>1, <2>2
<1>10. DataTypes'
    BY <1>7, <1>9 DEF IInv, DataTypes
<1>11. \A f \in Executions \ unlogged' : \A at, input :
         Sourced(f, at, input) => Sourced(f, at, input)'
    BY <1>9 DEF Sourced
<1>12. \A p \in Runs : InHand(p)'
    <2>1. InHand(r)'
        <3>1. run'[r].exec \notin unlogged' => written /\ e \notin unlogged
            BY <1>2, <1>6, <1>8
        <3>2. run'[r].exec \notin unlogged' => Sourced(run[r].exec, run[r].at, data[r].input)'
            <4> SUFFICES ASSUME run'[r].exec \notin unlogged'
                         PROVE  Sourced(run[r].exec, run[r].at, data[r].input)'
                OBVIOUS
            <4>1. PICK at, input : at = run[r].at /\ input = data[r].input
                OBVIOUS
            <4>2. Sourced(e, at, input)
                BY <1>1, <1>2, <3>1, <4>1 DEF IInv, InHand
            <4>3. Sourced(e, at, input)'
                BY <1>2, <1>6, <1>11, <4>2
            <4> QED
                BY <1>2, <1>6, <1>7, <4>1, <4>3 DEF Sourced
        <3>3. RowOf(r)' = RowOf(r)
            BY <1>6, <1>7 DEF RowOf
        <3>4. run'[r].exec \notin unlogged' => RowOf(r)' \in rows'[run'[r].exec]
            BY <1>2, <1>3, <1>6, <1>9, <3>1, <3>3
        <3>5. Possible(plan[run[r].at], data[r].input, run[r].outcome, data[r].output)'
            BY <1>4, <1>5, <1>6, <1>7
        <3> QED
            BY <3>2, <3>4, <3>5 DEF InHand
    <2>2. ASSUME NEW p \in Runs \ {r} PROVE InHand(p)'
        <3>1. run'[p] = run[p] /\ data'[p] = data[p] /\ InHand(p) /\ RowOf(p)' = RowOf(p)
            BY <1>6, <1>7 DEF IInv, LoopInv, LoopTypes, LoopTypeOK, RowOf
        <3>2. PICK f, at, input : f = run[p].exec /\ at = run[p].at /\ input = data[p].input
            OBVIOUS
        <3>3. f \in Executions \ unlogged' => f \in Executions \ unlogged
            BY <1>8
        <3>4. f \in Executions \ unlogged' /\ run[p].pc \in {"step", "log", "event"} =>
                Sourced(f, at, input)'
            BY <1>11, <3>1, <3>2, <3>3 DEF InHand
        <3>5. f \in Executions \ unlogged' /\ run[p].pc = "event" => RowOf(p)' \in rows'[f]
            BY <1>9, <3>1, <3>2, <3>3 DEF InHand
        <3>6. run[p].pc \in {"log", "event"} =>
                Possible(plan[run[p].at], data[p].input, run[p].outcome, data[p].output)'
            BY <1>7, <3>1 DEF InHand
        <3>7. Sourced(f, at, input)' => Sourced(run[p].exec, run[p].at, data[p].input)'
            BY <3>1, <3>2 DEF Sourced
        <3> QED
            BY <3>1, <3>2, <3>4, <3>5, <3>6, <3>7 DEF InHand
    <2> QED
        BY <2>1, <2>2
<1>13. RowsPossible'
    BY <1>5, <1>7, <1>9 DEF IInv, RowsPossible
<1>14. written /\ e \notin unlogged => Sourced(e, new.at, new.input)
    BY <1>1, <1>2, <1>4 DEF IInv, InHand
<1>15. RowsChain'
    <2> SUFFICES ASSUME NEW f \in Executions \ unlogged', NEW row \in rows'[f]
                 PROVE  Sourced(f, row.at, row.input)'
        BY DEF RowsChain, Sourced
    <2>1. Sourced(f, row.at, row.input)
        <3>1. CASE row \in rows[f]
            BY <1>8, <3>1 DEF IInv, RowsChain, Sourced
        <3>2. CASE row \notin rows[f]
            BY <1>8, <1>9, <1>14, <3>2
        <3> QED
            BY <3>1, <3>2
    <2> QED
        BY <1>11, <2>1
<1>16. LoggedAgree'
    <2> SUFFICES ASSUME NEW f \in Executions \ unlogged',
                        NEW row \in rows'[f], NEW other \in rows'[f], row.at = other.at,
                        SteadyTo(row.at)
                 PROVE  row = other
        BY <1>7 DEF LoggedAgree, SteadyTo
    <2>1. CASE row \in rows[f] /\ other \in rows[f]
        BY <1>8, <2>1 DEF IInv, LoggedAgree
    <2>2. CASE row \notin rows[f] /\ other \in rows[f]
        <3>1. row = new /\ f = e /\ written /\ e \notin unlogged
            BY <1>8, <1>9, <2>2
        <3>2. other \in rows[e] /\ new.at = other.at
            BY <2>2, <3>1
        <3> QED
            BY <1>4, <1>5, <1>14, <3>1, <3>2, RowsAgree DEF IInv
    <2>3. CASE row \in rows[f] /\ other \notin rows[f]
        <3>1. other = new /\ f = e /\ written /\ e \notin unlogged
            BY <1>8, <1>9, <2>3
        <3>2. row \in rows[e] /\ new.at = row.at
            BY <2>3, <3>1
        <3> QED
            BY <1>4, <1>5, <1>14, <3>1, <3>2, RowsAgree DEF IInv
    <2>4. CASE row \notin rows[f] /\ other \notin rows[f]
        BY <1>9, <2>4
    <2> QED
        BY <2>1, <2>2, <2>3, <2>4
<1> QED
    BY <1>10, <1>12, <1>13, <1>15, <1>16 DEF IInv

\* Every step keeps the invariant.
LEMMA NextPreserves == IInv /\ [Next]_vars => IInv'
<1> SUFFICES ASSUME IInv, [Next]_vars PROVE IInv'
    OBVIOUS
<1>1. CASE \E r \in Runs : Begin(r) \/ Perform(r) \/ Record(r) \/ GoOn(r) \/ Rest(r)
    <2> PICK r \in Runs : Begin(r) \/ Perform(r) \/ Record(r) \/ GoOn(r) \/ Rest(r)
        BY <1>1
    <2>1. CASE Perform(r)
        <3>1. run[r] \in LoopRun /\ PhaseInv(run[r]) /\ run[r].pc = "step"
            BY <2>1, RunFacts DEF IInv, Perform
        <3>2. run[r].at \in 1..NumSteps
            BY <3>1 DEF PhaseInv
        <3> PICK x \in Returned(plan[run[r].at], data[r].input) : RunStep(r, x.status)
            BY <2>1 DEF Perform, StepOf
        <3>3. x.status \in Terminal
            BY <3>2, ReturnedTypes DEF IInv, DataTypes, DataRecord, Answer
        <3>4. LoopInv'
            BY <3>3, LoopPreserves DEF IInv, LoopStep
        <3> QED
            BY <2>1, <3>4, PerformPreserves
    <2>2. CASE Begin(r) \/ Record(r) \/ GoOn(r) \/ Rest(r)
        <3>1. LoopStep(r)
            BY <2>2 DEF Begin, Record, GoOn, Rest, LoopStep
        <3>2. LoopInv'
            BY <3>1, LoopPreserves DEF IInv
        <3> QED
            BY <2>2, <3>2, BeginPreserves, RecordPreserves, GoOnPreserves, RestPreserves
    <2> QED
        BY <2>1, <2>2
<1>2. CASE Crash /\ UNCHANGED <<plan, data, rows>>
    <2>1. LoopInv'
        BY <1>2, LoopPreserves DEF IInv
    <2>2. \A r \in Runs : InHand(r)'
        <3> SUFFICES ASSUME NEW r \in Runs PROVE run'[r].pc \in {"idle", "reset"}
            BY DEF InHand
        <3>1. run'[r] = Died(run[r])
            BY <1>2 DEF Crash
        <3> QED
            BY <3>1 DEF Died, Idle
    <2> QED
        BY <1>2, <2>1, <2>2 DEF IInv, DataTypes, RowsPossible, RowsChain, LoggedAgree, SteadyTo,
                                Crash
<1>3. CASE UNCHANGED vars
    <2>1. LoopInv'
        BY <1>3, LoopPreserves DEF IInv, vars
    <2>2. UNCHANGED <<run, data, rows, plan, unlogged>>
        BY <1>3 DEF vars, loopVars
    <2> QED
        BY <2>1, <2>2 DEF IInv, DataTypes, InHand, Sourced, RowOf, RowsPossible, RowsChain,
                          LoggedAgree, SteadyTo
<1> QED
    BY <1>1, <1>2, <1>3 DEF Next
-----------------------------------------------------------------------------
\* The inductive invariant holds of every reachable state.
THEOREM Invariance == Spec => []IInv
BY InitEstablishes, NextPreserves, PTL DEF Spec

\* Inputs and outputs are sets of named, printable fields (TypeOK).
THEOREM TypeCorrect == Spec => []TypeOK
<1>1. IInv => TypeOK
    <2> SUFFICES ASSUME IInv PROVE TypeOK
        OBVIOUS
    <2>1. \A r \in Runs : IsData(data[r].input) /\ IsData(data[r].output)
        BY DEF IInv, DataTypes, DataRecord, DataSet, IsData
    <2>2. \A e \in Executions : \A row \in rows[e] : IsData(row.input) /\ IsData(row.output)
        BY DEF IInv, DataTypes, Row, DataSet, IsData
    <2> QED
        BY <2>1, <2>2 DEF IInv, LoopInv, LoopTypes, DataTypes, TypeOK
<1> QED
    BY <1>1, Invariance, PTL

\* The step logs of an execution tell where each input came from (RowsChain).
THEOREM Chained == Spec => []RowsChain
<1>1. IInv => RowsChain
    BY DEF IInv
<1> QED
    BY <1>1, Invariance, PTL

\* If no log is lost and no caller goes away, the runs of an execution agree on every row up
\* to the first step that is not steady (RerunsAgree).
THEOREM Repeatable == ASSUME "write" \notin Faults PROVE Spec => []RerunsAgree
<1>1. Init => unlogged = {}
    BY DEF Init, LoopInit
<1>2. unlogged = {} /\ [Next]_vars => (unlogged = {})'
    <2> SUFFICES ASSUME unlogged = {}, [Next]_vars PROVE unlogged' = {}
        OBVIOUS
    <2>1. ASSUME NEW r \in Runs, NEW written \in BOOLEAN, WriteLog(r, written)
          PROVE  unlogged' = {}
        BY <2>1 DEF WriteLog
    <2> QED
        BY <2>1 DEF Next, vars, loopVars, Begin, Start, Perform, RunStep, Record, GoOn, StepDone,
                    Rest, Load, LoadFails, Crash, Announce, Collect, Finish, Accept
<1>3. IInv /\ unlogged = {} => RerunsAgree
    BY DEF IInv, LoggedAgree, RerunsAgree, SteadyTo
<1> QED
    BY <1>1, <1>2, <1>3, Invariance, PTL DEF Spec
=============================================================================
