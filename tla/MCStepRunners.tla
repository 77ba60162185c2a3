--------------------------- MODULE MCStepRunners ----------------------------
\* Small instances of StepRunners: workflows of two steps, chosen among two or three
\* configurations of each type.
EXTENDS StepRunners, TLC

CONSTANTS e1, f1, r1, r2

OneWorkflow == [e \in Executions |-> f1]

\* "5" and "5.0" are one number and two texts; "x" is none.
Numbers == [t \in Prints |-> CASE t \in {"5", "5.0"} -> 5
                               [] t = "200" -> 200
                               [] t = "500" -> 500
                               [] OTHER -> 0]

Template(kind, text) == [kind |-> kind, text |-> text]
Http(url) == [type |-> "http_request", url |-> url]
Transform(template, key) == [type |-> "transform", template |-> template, outputKey |-> key]
Condition(field, operator, value) ==
    [type |-> "condition", field |-> field, operator |-> operator, value |-> value]
Delay(wait) == [type |-> "delay", wait |-> wait]
Email(to) == [type |-> "send_email", to |-> to]
Ai(prompt) == [type |-> "ai_task", prompt |-> prompt]

Steps ==
    {Http("u"), Transform(Template("text", "5"), ""), Transform(Template("field", "body"), "output"),
     Transform(Template("bad", ""), ""), Transform(Template("none", ""), ""),
     Condition("result", "gt", "5.0"), Condition("status", "lt", "500"),
     Condition("body", "eq", "x"), Condition("condition", "like", "x"), Condition("", "eq", "x"),
     Condition("result", "neq", "5"), Delay("long"), Delay("short"), Delay("even"), Delay("huge"),
     Email("x"), Email(""), Ai("x"), [type |-> "branch"]}

\* The slots of runs are interchangeable.
Symmetry == Permutations(Runs)

Pairs == Steps \X Steps
=============================================================================
