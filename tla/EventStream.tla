---------------------------- MODULE EventStream -----------------------------
(***************************************************************************)
(* GET /executions/:id/stream, api-gateway's ExecutionStreamHandler, over  *)
(* the events of StepLoop: a client looks its execution up, and either     *)
(* gets the end of it at once or subscribes to the Redis channel of the    *)
(* workflow and is forwarded what is published there.                      *)
(*                                                                         *)
(* Redis pub/sub (external) hands an event to those subscribed at that     *)
(* moment and keeps nothing.  The channel is the workflow's, not the       *)
(* execution's: an event reaches the listeners of all its executions.      *)
(* A step of type ai_task publishes the tokens of its reply there as well, *)
(* naming the step but no execution.  Only the closing token is in the     *)
(* model: the others are forwarded in the same way and say less.           *)
(*                                                                         *)
(* A client may also call StreamExecution.  That is the loop of            *)
(* RunExecution, which sends each event to its caller as well, after it    *)
(* has been published; a caller that is gone does not stop it.             *)
(***************************************************************************)
EXTENDS StepLoop

CONSTANTS
    Clients,    \* requests for the stream of an execution, of either kind
    AiSteps     \* the steps of type ai_task

ASSUME AiStepsAssumption == AiSteps \subseteq 1..NumSteps

VARIABLES
    client,     \* what each of them has seen and has still to be sent
    caller,     \* of each run: the client that it streams to, if there is one
    said,       \* the runs whose ai_task has published all of its reply
    missed      \* history: the listeners an event did not reach, and what type it had

vars == <<loopVars, client, caller, said, missed>>

NoEvent == [type |-> "none", exec |-> NoExec, at |-> 0, status |-> "none"]
StepEvent(r) == [type |-> "step_done", exec |-> run[r].exec, at |-> run[r].at,
                 status |-> run[r].outcome]
TokenEvent(r) == [type |-> "ai_token", exec |-> NoExec, at |-> run[r].at,
                  status |-> "finished"]
EndEvent(e, s) == [type |-> "finished", exec |-> e, at |-> 0, status |-> s]
EventTypes == {"step_done", "ai_token", "finished"}
Events ==
    [type : {"step_done", "finished"}, exec : Executions, at : 0..NumSteps, status : Terminal]
    \cup [type : {"ai_token"}, exec : {NoExec}, at : AiSteps, status : {"finished"}]

\* "call": it has called StreamExecution; "ended": the handler was done; "cut": it gave up,
\* for an error, the request's time or its engine; "left": the client disconnected.
ClientPhases == {"free", "lookup", "subscribe", "stream", "call", "ended", "cut", "left"}

Init ==
    /\ LoopInit
    /\ client = [c \in Clients |->
                   [pc |-> "free", exec |-> NoExec, buffer |-> <<>>, last |-> NoEvent]]
    /\ caller = [r \in Runs |-> {}]
    /\ said = {}
    /\ missed = {}

\* Mutant of Listens: the channel carries the events of one execution.
ListensToOther(c, e) == client[c].pc = "stream" /\ client[c].exec # e
Listens(c, e) == client[c].pc = "stream" /\ WorkflowOf[client[c].exec] = WorkflowOf[e]

\* Mutant of Tell: every event is published by a goroutine of its own.
TellUnordered(r, event, direct) ==
    /\ \E late \in BOOLEAN :
          client' = [c \in Clients |->
                       CASE Listens(c, run[r].exec) ->
                              [client[c] EXCEPT !.buffer = IF late THEN Append(@, event)
                                                           ELSE <<event>> \o @]
                         [] c \in direct -> [client[c] EXCEPT !.last = event]
                         [] OTHER -> client[c]]
    /\ UNCHANGED missed

\* PUBLISH on executions:<workflow id> of the run, and, to those that it is sent to
\* directly, stream.Send, whose error is ignored.  Nobody looks whether PUBLISH fails, and a
\* subscriber whose connection or buffer fails it loses the event for itself alone.
Tell(r, event, direct) ==
    \E lost \in SUBSET {c \in Clients : Listens(c, run[r].exec)} :
        /\ lost = {} \/ "publish" \in Faults
        /\ client' = [c \in Clients |->
                        CASE Listens(c, run[r].exec) /\ c \notin lost ->
                               [client[c] EXCEPT !.buffer = Append(@, event)]
                          [] c \in direct -> [client[c] EXCEPT !.last = event]
                          [] OTHER -> client[c]]
        /\ missed' = missed \cup lost \X {event.type}

Connect(c, e) ==
    /\ client[c].pc = "free"
    /\ client' = [client EXCEPT ![c].pc = "lookup", ![c].exec = e]
    /\ UNCHANGED <<loopVars, caller, said, missed>>

\* The row is read.  If it is terminal, a "finished" event is made up from it.
Lookup(c) ==
    /\ client[c].pc = "lookup"
    /\ LET e == client[c].exec IN
       client' = IF status[e] \in Terminal
                 THEN [client EXCEPT ![c].pc = "ended", ![c].last = EndEvent(e, status[e])]
                 ELSE [client EXCEPT ![c].pc = "subscribe"]
    /\ UNCHANGED <<loopVars, caller, said, missed>>

\* The query of the row fails; the client is told that there is no such execution.
LookupFails(c) ==
    /\ client[c].pc = "lookup" /\ "query" \in Faults
    /\ client' = [client EXCEPT ![c].pc = "cut"]
    /\ UNCHANGED <<loopVars, caller, said, missed>>

\* Redis.Subscribe, some time after the row was read.
Subscribe(c) ==
    /\ client[c].pc = "subscribe"
    /\ client' = [client EXCEPT ![c].pc = "stream"]
    /\ UNCHANGED <<loopVars, caller, said, missed>>

\* Mutant of IsFinished: any event that says "finished".
SaysFinished(event) == event.type = "finished" \/ event.status = "finished"
IsFinished(event) == event.type = "finished"

\* The next event is written to the client; "finished" ends the stream, whichever
\* execution it names.
Forward(c) ==
    /\ client[c].pc = "stream" /\ client[c].buffer # <<>>
    /\ LET event == Head(client[c].buffer) IN
       client' = [client EXCEPT
                    ![c].pc = IF IsFinished(event) THEN "ended" ELSE "stream",
                    ![c].last = event,
                    ![c].buffer = IF IsFinished(event) THEN <<>> ELSE Tail(@)]
    /\ UNCHANGED <<loopVars, caller, said, missed>>

Disconnect(c) ==
    /\ client[c].pc \in {"lookup", "subscribe", "stream", "call"}
    /\ client' = [client EXCEPT ![c].pc = "left", ![c].buffer = <<>>]
    /\ caller' = [r \in Runs |-> caller[r] \ {c}]
    /\ UNCHANGED <<loopVars, said, missed>>

\* r.Context() is done although the client is there: go-zero ends it after the time it gives
\* a request, but for clients that ask for text/event-stream.
TimeOut(c) ==
    /\ client[c].pc \in {"lookup", "subscribe", "stream"}
    /\ client' = [client EXCEPT ![c].pc = "cut", ![c].buffer = <<>>]
    /\ UNCHANGED <<loopVars, caller, said, missed>>

Handler(c) == Lookup(c) \/ LookupFails(c) \/ Subscribe(c) \/ Forward(c)

\* A run is called by RunExecution, or for a client by StreamExecution, which nothing in
\* the repository does but the engine serves.
Call(r, e) ==
    /\ Accept(r, e)
    /\ \/ UNCHANGED <<client, caller>>
       \/ \E c \in Clients :
            /\ client[c].pc = "free"
            /\ client' = [client EXCEPT ![c].pc = "call", ![c].exec = e]
            /\ caller' = [caller EXCEPT ![r] = {c}]
    /\ UNCHANGED <<said, missed>>

\* publishToken, at the end of the reply.
Speak(r) ==
    /\ run[r].pc = "step" /\ run[r].at \in AiSteps /\ r \notin said
    /\ said' = said \cup {r}
    /\ Tell(r, TokenEvent(r), {})
    /\ UNCHANGED <<loopVars, caller>>

\* An ai_task succeeds when it has published the closing token, and fails before.
Perform(r, outcome) ==
    /\ RunStep(r, outcome)
    /\ run[r].at \in AiSteps => (outcome = "success" <=> r \in said)
    /\ said' = said \ {r}
    /\ UNCHANGED <<client, caller, missed>>

\* The handler returns, and with it the stream of its caller: done if the run came to its
\* end, with an error if it did not.
Return(r) ==
    /\ Collect(r)
    /\ client' = [c \in Clients |->
                    IF c \notin caller[r] THEN client[c]
                    ELSE [client[c] EXCEPT !.pc = IF run[r].outcome \in Terminal THEN "ended"
                                                  ELSE "cut"]]
    /\ caller' = [caller EXCEPT ![r] = {}]

\* The engine dies; whoever listens to Redis hears nothing of it.
EngineDies == Crash /\ said' = {} /\ UNCHANGED <<client, caller, missed>>

RunOn(r) ==
    \/ Silent(r) /\ UNCHANGED <<client, caller, said, missed>>
    \/ Speak(r)
    \/ \E outcome \in Terminal : Perform(r, outcome)
    \/ StepDone(r) /\ Tell(r, StepEvent(r), caller[r]) /\ UNCHANGED <<caller, said>>
    \/ /\ Announce(r) /\ Tell(r, EndEvent(run[r].exec, run[r].outcome), caller[r])
       /\ UNCHANGED <<caller, said>>
    \/ Return(r) /\ UNCHANGED <<said, missed>>

Next ==
    \/ \E r \in Runs : RunOn(r) \/ \E e \in Executions : Call(r, e)
    \/ EngineDies
    \/ \E c \in Clients :
         Handler(c) \/ TimeOut(c) \/ Disconnect(c) \/ \E e \in Executions : Connect(c, e)

\* Handlers and runs are goroutines that are not starved; nothing is assumed of the
\* callers and clients.
Spec ==
    /\ Init /\ [][Next]_vars
    /\ \A r \in Runs : WF_vars(RunOn(r))
    /\ \A c \in Clients : WF_vars(Handler(c))
-----------------------------------------------------------------------------
ClientRecord ==
    [pc : ClientPhases, exec : Executions \cup {NoExec}, buffer : Seq(Events),
     last : Events \cup {NoEvent}]

TypeOK ==
    /\ LoopTypeOK
    /\ client \in [Clients -> ClientRecord]
    /\ caller \in [Runs -> SUBSET Clients]
    /\ said \subseteq Runs
    /\ missed \subseteq Clients \X EventTypes

\* The loop of steps implements the run of Engine, with its two status writes.
EngineView == INSTANCE Engine WITH
    alive <- Workflows, run <- [r \in Runs |-> EngineRun(run[r])]
ImplementsEngine == EngineView!EngineSpec

\* Whoever is told "finished" can read the execution: the row was written before the
\* event went out, unless the write failed or the execution runs once more.
FinishedIsStored ==
    \A c \in Clients :
        LET event == client[c].last IN
        event.type = "finished" /\ started[event.exec] = 1 /\ event.exec \notin hurt =>
            status[event.exec] = event.status

\* Whoever is told that a step is done finds its log: the events of overlapping runs
\* arrive mixed, but none overtakes the row it reports, unless that row was lost.
StepIsLogged ==
    \A c \in Clients :
        LET event == client[c].last IN
        event.type = "step_done" /\ event.exec \notin unlogged =>
            <<event.at, event.status>> \in logs[event.exec]

\* The events of an execution that is run once make one story, whatever else is mixed in
\* between: after a step comes the next one if it succeeded, and after the last the end,
\* which tells the same outcome.  None is skipped, unless the client missed a step, and none
\* comes after the end.
Told(c, i) == IF i = 0 THEN client[c].last ELSE client[c].buffer[i]
Follows(before, after) ==
    /\ before.type = "step_done"
    /\ IF after.type = "finished"
       THEN after.status = before.status /\ (after.status = "failed" \/ before.at = NumSteps)
       ELSE before.status = "success" /\ after.at = before.at + 1
Successive(c, i, j) ==
    LET e == Told(c, i).exec IN
    /\ e \in Executions /\ started[e] = 1
    /\ Told(c, j).exec = e /\ \A k \in (i + 1)..(j - 1) : Told(c, k).exec # e
EventsFollow ==
    \A c \in Clients : \A i, j \in 0..Len(client[c].buffer) :
        /\ i < j /\ Successive(c, i, j)
        /\ <<c, "step_done">> \notin missed
        => Follows(Told(c, i), Told(c, j))

\* A stream that ends without an error, a timeout or a crash has told its client the end of
\* an execution of its workflow, and one that has told it goes on no longer.  The closing
\* token of an AI reply ("finished": true) is no end.
EndHasCause ==
    \A c \in Clients :
        /\ client[c].pc = "ended" =>
             /\ client[c].last.type = "finished"
             /\ WorkflowOf[client[c].last.exec] = WorkflowOf[client[c].exec]
        /\ client[c].pc = "stream" => client[c].last.type # "finished"

\* No client is left hanging that listens while a run of its execution is between its first
\* status write and the announcement of its end, or that has called the run itself: the
\* handler returns, or the client goes first.  What keeps a listener is an end that was lost
\* on its way, or an engine that dies first, and neither keeps the caller.
Ending(e) == \E r \in Runs : run[r].exec = e /\ run[r].pc \in {"start", "announce"} \cup Midway
Waits(c) == client[c].pc = "call" \/ (client[c].pc = "stream" /\ Ending(client[c].exec))
Over(c) ==
    \/ client[c].pc \in {"ended", "cut", "left"}
    \/ client[c].pc = "stream" /\ <<c, "finished">> \in missed
    \/ client[c].pc = "stream" /\ \E r \in Runs : run[r].exec = client[c].exec /\ run[r].pc = "reset"
StreamEnds == \A c \in Clients : Waits(c) ~> Over(c)

\* executionstreamhandler.go: "Stop streaming once execution finishes": the handler
\* returns for the end of the execution that was asked for.
EndedByOwnExecution ==
    \A c \in Clients : client[c].pc = "ended" => client[c].last.exec = client[c].exec
=============================================================================
