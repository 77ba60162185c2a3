---------------------------- MODULE DispatchInv -----------------------------
(***************************************************************************)
(* The inductive invariant of Dispatch, as named parts: what the safety    *)
(* properties of Dispatch rest on.  Checked by TLC on small instances,     *)
(* proved in DispatchProofs.                                               *)
(***************************************************************************)
EXTENDS Dispatch

\* A run slot is free or a call; only a call that somebody waits for holds an answer.
WellFormed(x) ==
    /\ x.pc = "idle" => x = Idle
    /\ x.pc # "idle" => x.exec \in Executions
    /\ x.pc \in {"reply", "reset"} => x.attached
RunsWellFormed == \A r \in Runs : WellFormed(run[r])

\* Only workers that are alive have channels and deliveries, and no two open channels
\* have one of the same execution.
JobsExclusive ==
    /\ gateway = "down" => open = {} /\ \A w \in Workers : job[w] = NoExec
    /\ \A w, v \in open : job[w] = job[v] /\ job[w] # NoExec => w = v

\* The broker's view and the workers' view of who holds a message.  What a worker without
\* a channel still handles has gone back to the queue, and may be anywhere by now.
HeldMatchesJobs ==
    /\ \A e \in Executions : place[e] = "held" => \E w \in open : job[w] = e
    /\ \A w \in Workers : job[w] # NoExec =>
          /\ w \in open => place[job[w]] = "held" /\ seen[w] = deaths[job[w]]
          /\ w \notin open => place[job[w]] # "none" /\ requeued[job[w]] > 0

\* Calls in flight and the runs that serve them.
CallsMatchRuns ==
    /\ \A w \in Workers : rpc[w] # NoRun =>
          /\ job[w] # NoExec
          /\ run[rpc[w]].attached
          /\ run[rpc[w]].exec = job[w]
          /\ seen[w] < MaxRetries
    /\ \A w, v \in Workers : rpc[w] = rpc[v] /\ rpc[w] # NoRun => w = v
    /\ \A r \in Runs : run[r].attached => \E w \in Workers : rpc[w] = r

\* Row, trigger and message of an execution come into being in this order.
RowBeforeMessage ==
    /\ \A e \in Executions :
          /\ status[e] = "none" <=> trig[e] \in {"idle", "checked"}
          /\ place[e] # "none" => trig[e] = "published"
    /\ \A r \in Runs : run[r].pc # "idle" => place[run[r].exec] # "none"

\* How many calls each place of the message allows for, those included that workers have
\* still to make, with a channel or without.
Budget(e) ==
    requeued[e] + CASE place[e] = "gone"              -> MaxRetries
                    [] place[e] \in {"held", "retry"} -> deaths[e] + 1
                    [] OTHER                          -> deaths[e]
CallBudget ==
    \A e \in Executions :
        /\ calls[e] + Cardinality(Uncalled(e)) <= Budget(e)
        /\ place[e] = "retry" => deaths[e] < MaxRetries

\* A run past its first write, or its answer, or the acknowledgement of that answer:
\* the row has left "pending" unless a write failed.
Started(r) == run[r].pc = "steps" \/ (run[r].pc = "reply" /\ run[r].result \in Terminal)
PendingIsUnstarted ==
    \A e \in Executions :
        status[e] = "pending" /\ e \notin hurt =>
            /\ \A r \in Runs : run[r].exec = e => ~Started(r)
            /\ ~Answer(e)

\* An execution for which the engine was called once has had one run, which is over
\* when the row is terminal.
OneCallOneRun ==
    \A e \in Executions :
        /\ calls[e] = 0 => status[e] \notin Terminal /\ \A r \in Runs : run[r].exec # e
        /\ calls[e] = 1 =>
              /\ \A r, s \in Runs : run[r].exec = e /\ run[s].exec = e => r = s
              /\ status[e] \in Terminal => Active(e) = {}

IInv ==
    /\ TypeOK
    /\ RunsWellFormed
    /\ JobsExclusive
    /\ HeldMatchesJobs
    /\ CallsMatchRuns
    /\ RowBeforeMessage
    /\ CallBudget
    /\ PendingIsUnstarted
    /\ RunningIsRun
    /\ OneCallOneRun
=============================================================================
