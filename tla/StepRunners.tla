---------------------------- MODULE StepRunners -----------------------------
(***************************************************************************)
(* The data that flows through StepLoop: what each runner of               *)
(* execution-engine/internal/runner makes of its configuration and of the  *)
(* output of the step before it, and the step logs with their contents.    *)
(*                                                                         *)
(* A map[string]any is a set of pairs, of a field name and the text its    *)
(* value prints as ("%v"): the runners look at their input in no other     *)
(* way.  What a server or a language model answers is any of Texts.        *)
(***************************************************************************)
EXTENDS StepLoop

CONSTANTS
    Texts,       \* texts that come from outside or stand in a configuration
    NumberOf,    \* strconv.ParseFloat, of every text; 0 for what is no number
    Plans        \* the workflows: sequences of NumSteps step definitions

VARIABLES
    plan,        \* wf.Steps
    data,        \* the input of each run's current step, and its output
    rows         \* the step_logs of each execution

vars == <<loopVars, plan, data, rows>>

NoData == {}
FieldNames == {"status", "body", "result", "condition", "input", "sent", "to", "output"}
\* A nested map prints as "map[...]", a missing field as "<nil>" or "<no value>".
Prints == Texts \cup {"true", "false", "200", "500", "map", "<nil>", "<no value>"}
\* The recipients, output keys and template texts of the plans are among those of the model.
ASSUME PlansAssumption ==
    \A p \in Plans : \A i \in 1..NumSteps :
        /\ p[i].type = "transform" =>
             /\ p[i].outputKey \in FieldNames \cup {""}
             /\ p[i].template.kind \in {"text", "field", "bad", "none"}
             /\ p[i].template.kind = "text" => p[i].template.text \in Texts
        /\ p[i].type = "send_email" => p[i].to \in Texts \cup {""}

Lookup(input, field, default) ==
    IF \E x \in input : x[1] = field THEN (CHOOSE x \in input : x[1] = field)[2] ELSE default

Init ==
    /\ LoopInit
    /\ plan \in Plans
    /\ data = [r \in Runs |-> [input |-> NoData, output |-> NoData]]
    /\ rows = [e \in Executions |-> {}]
-----------------------------------------------------------------------------
(* The runners: what New and Run may return for a step.                     *)

Failure == [status |-> "failed", output |-> NoData]
Success(output) == [status |-> "success", output |-> output]

\* The factory: an unknown type, or a configuration without what the runner needs.
Unusable(step) ==
    CASE step.type = "http_request" -> step.url = ""
      [] step.type = "transform"    -> step.template.kind = "none"
      [] step.type = "condition"    -> step.field = "" \/ step.operator = ""
      [] step.type = "send_email"   -> step.to = ""
      [] step.type = "ai_task"      -> step.prompt = ""
      [] step.type = "delay"        -> FALSE
      [] OTHER                      -> TRUE

\* A response is a success whatever its status; a transport error is not.
HttpRun ==
    {Failure} \cup {Success({<<"status", s>>, <<"body", t>>}) : s \in {"200", "500"}, t \in Texts}

\* A mutant of OutputKey: without the default.
OutputKeyAsGiven(step) == step.outputKey
OutputKey(step) == IF step.outputKey = "" THEN "result" ELSE step.outputKey

\* The template is a text, a field of the input, or does not parse.
Rendered(template, input) ==
    CASE template.kind = "text"  -> template.text
      [] template.kind = "field" -> Lookup(input, template.text, "<no value>")
TransformRun(step, input) ==
    IF step.template.kind = "bad" THEN {Failure}
    ELSE {Success({<<OutputKey(step), Rendered(step.template, input)>>})}

Holds(operator, actual, value) ==
    CASE operator = "eq"  -> actual = value
      [] operator = "neq" -> actual # value
      [] operator = "gt"  -> NumberOf[actual] > NumberOf[value]
      [] operator = "lt"  -> NumberOf[actual] < NumberOf[value]
\* The outcome of a condition is data for the next step; the run goes on either way.
ConditionRun(step, input) ==
    LET actual == Lookup(input, step.field, "<nil>")
    IN  IF step.operator \notin {"eq", "neq", "gt", "lt"} THEN {Failure}
        ELSE {Success({<<"condition", IF Holds(step.operator, actual, step.value)
                                      THEN "true" ELSE "false">>,
                       <<"input", "map">>})}

\* A delay hands its input on, unless stepTimeout is over before it.  With a delay of about
\* stepTimeout ("even") both timers have run out and select takes either; one of too many
\* seconds ("huge") overflows to a Duration that is the platform's choice, and a negative
\* one is over at once.
DelayRun(step, input) ==
    (IF step.wait # "short" THEN {Failure} ELSE {})
        \cup (IF step.wait # "long" THEN {Success(input)} ELSE {})

EmailRun(step) == {Success({<<"sent", "true">>, <<"to", step.to>>})}

\* The stream of tokens fails, or its text is the output; a template that does not
\* parse fails.
AiRun == {Failure} \cup {Success({<<"output", t>>}) : t \in Texts}

\* The step's context is done before the runner looks: the caller has gone.
Interrupted == IF "rpc" \in Faults THEN {Failure} ELSE {}

Returned(step, input) ==
    IF Unusable(step) THEN {Failure}
    ELSE CASE step.type = "http_request" -> HttpRun
           [] step.type = "transform"    -> TransformRun(step, input) \cup Interrupted
           [] step.type = "condition"    -> ConditionRun(step, input) \cup Interrupted
           [] step.type = "delay"        -> DelayRun(step, input) \cup Interrupted
           [] step.type = "send_email"   -> EmailRun(step) \cup Interrupted
           [] step.type = "ai_task"      -> AiRun
-----------------------------------------------------------------------------
(* The loop of steps with its data.                                         *)

StepOf(r) == plan[run[r].at]

\* Mutant of Begin: the input of the slot's last run is still there.
BeginWithOldInput(r) ==
    /\ \E written \in BOOLEAN : Start(r, written)
    /\ UNCHANGED <<plan, data, rows>>

\* input := map[string]any{}: a run starts from nothing, not from the trigger's payload.
Begin(r) ==
    /\ data' = [data EXCEPT ![r] = [input |-> NoData, output |-> NoData]]
    /\ \E written \in BOOLEAN : Start(r, written)
    /\ UNCHANGED <<plan, rows>>

Perform(r) ==
    /\ run[r].pc = "step"
    /\ \E returned \in Returned(StepOf(r), data[r].input) :
         /\ RunStep(r, returned.status)
         /\ data' = [data EXCEPT ![r].output = returned.output]
    /\ UNCHANGED <<plan, rows>>

RowOf(r) == [at |-> run[r].at, status |-> run[r].outcome,
             input |-> data[r].input, output |-> data[r].output]

Record(r) ==
    /\ \E written \in BOOLEAN :
         /\ WriteLog(r, written)
         /\ rows' = IF written THEN [rows EXCEPT ![run[r].exec] = @ \cup {RowOf(r)}]
                    ELSE rows
    /\ UNCHANGED <<plan, data>>

\* Mutant of GoOn: the output is not handed to the next step.
GoOnWithInput(r) == StepDone(r) /\ UNCHANGED <<plan, data, rows>>

\* input = output, unless the step failed.
GoOn(r) ==
    /\ StepDone(r)
    /\ data' = [data EXCEPT ![r].input = IF run[r].outcome = "failed" THEN @
                                         ELSE data[r].output]
    /\ UNCHANGED <<plan, rows>>

Rest(r) ==
    /\ \/ Load(r) \/ LoadFails(r) \/ Announce(r) \/ Collect(r)
       \/ \E written \in BOOLEAN : Finish(r, written)
       \/ \E e \in Executions : Accept(r, e)
    /\ UNCHANGED <<plan, data, rows>>

Next ==
    \/ \E r \in Runs : Begin(r) \/ Perform(r) \/ Record(r) \/ GoOn(r) \/ Rest(r)
    \/ Crash /\ UNCHANGED <<plan, data, rows>>

Spec == Init /\ [][Next]_vars
-----------------------------------------------------------------------------
IsData(d) == d \subseteq FieldNames \X Prints

TypeOK ==
    /\ LoopTypeOK
    /\ plan \in Plans
    /\ \A r \in Runs : IsData(data[r].input) /\ IsData(data[r].output)
    /\ \A e \in Executions : \A row \in rows[e] : IsData(row.input) /\ IsData(row.output)

\* The step logs of an execution tell where each input came from, also when runs of it
\* overlap and their rows mix: the first step has an empty input, any other the output
\* of a successful row of the step before it.
RowsChain ==
    \A e \in Executions \ unlogged : \A row \in rows[e] :
        IF row.at = 1 THEN row.input = NoData
        ELSE \E before \in rows[e] :
               before.at = row.at - 1 /\ before.status = "success" /\ before.output = row.input

\* Running a workflow again is harmless as far as it can be: up to the first step that asks
\* the world outside, or that waits about as long as a step may take, all runs of an
\* execution leave the same row for each step, overlapping or one after the other, so a
\* retry cannot change the outcome.  (A caller who goes away may interrupt any step.)
Steady(step) ==
    /\ step.type \in {"transform", "condition", "delay", "send_email"}
    /\ step.type = "delay" => step.wait \in {"short", "long"}
RerunsAgree ==
    "rpc" \notin Faults =>
        \A e \in Executions : \A row, other \in rows[e] :
            row.at = other.at /\ (\A i \in 1..row.at : Steady(plan[i])) => row = other
=============================================================================
