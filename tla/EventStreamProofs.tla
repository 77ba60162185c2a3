-------------------------- MODULE EventStreamProofs --------------------------
(***************************************************************************)
(* EventStream: its safety invariants, for any number of executions, runs, *)
(* steps and clients, and that StepLoop implements Engine.                 *)
(*                                                                         *)
(* On top of LoopInv, IInv says of every event that is under way or has    *)
(* arrived that the rows agree with it, and of an execution that was run   *)
(* once how far its only run has come.                                     *)
(***************************************************************************)
EXTENDS EventStream, StepLoopProofs

\* A run that has an outcome and has tried to write it, and one that has announced it too.
Decided(x) == x.pc \in {"announce", "reply"} /\ x.outcome \in Terminal
Answering(x) == x.pc = "reply" /\ x.outcome \in Terminal

\* An execution that has been run once at most.
OnceInv(e) ==
    /\ started[e] = 0 => status[e] = "pending" /\ \A r \in Runs : run[r].exec # e
    /\ started[e] = 1 => \A p, q \in Runs : run[p].exec = e /\ run[q].exec = e => p = q
    /\ started[e] = 1 =>
         \A r \in Runs : run[r].exec = e /\ run[r].pc # "reset" =>
             IF Decided(run[r]) THEN e \notin hurt => status[e] = run[r].outcome
             ELSE status[e] \notin Terminal

\* The rows agree with an event, and go on to do so.
LogKept(event) ==
    event.type = "step_done" /\ event.exec \notin unlogged =>
        <<event.at, event.status>> \in logs[event.exec]
StatusKept(event) ==
    event.type = "finished" =>
        /\ started[event.exec] # 0
        /\ started[event.exec] = 1 =>
             /\ event.exec \notin hurt => status[event.exec] = event.status
             /\ \A r \in Runs : run[r].exec = event.exec =>
                  Decided(run[r]) \/ run[r].pc = "reset"
EventInv(event) == LogKept(event) /\ StatusKept(event)

\* The events that a client has been sent or has still to be sent.
Heard(c) == {client[c].last} \cup {client[c].buffer[i] : i \in 1..Len(client[c].buffer)}

ClientInv(c) ==
    /\ \A event \in Heard(c) : EventInv(event)
    /\ client[c].pc # "free" => client[c].exec \in Executions
    /\ client[c].pc # "stream" => client[c].buffer = <<>>
    /\ client[c].pc \in {"free", "lookup", "subscribe", "stream"} => client[c].last.type # "finished"
    /\ \A i \in 1..Len(client[c].buffer) :
         client[c].buffer[i].type = "finished" =>
             WorkflowOf[client[c].buffer[i].exec] = WorkflowOf[client[c].exec]

\* A run streams to clients that have called it, and they have its end when it has answered.
CallInv(c) ==
    /\ \A r \in Runs : c \in caller[r] =>
         /\ client[c].pc = "call" /\ client[c].exec = run[r].exec /\ run[r].pc # "idle"
         /\ Answering(run[r]) =>
              client[c].last.type = "finished" /\ client[c].last.exec = run[r].exec
    /\ \A p, q \in Runs : c \in caller[p] /\ c \in caller[q] => p = q

\* Whose handler is done has had an end from its workflow.
EndsWithEnd ==
    \A c \in Clients :
        client[c].pc = "ended" =>
            /\ client[c].last.type = "finished"
            /\ WorkflowOf[client[c].last.exec] = WorkflowOf[client[c].exec]

StreamTypes ==
    /\ client \in [Clients -> ClientRecord]
    /\ caller \in [Runs -> SUBSET Clients]
    /\ said \subseteq Runs

IInv ==
    /\ LoopInv /\ StreamTypes
    /\ \A e \in Executions : OnceInv(e)
    /\ \A c \in Clients : ClientInv(c) /\ CallInv(c)
    /\ EndsWithEnd
-----------------------------------------------------------------------------
USE NumStepsAssumption, NoExecAssumption, WorkflowOfAssumption, AiStepsAssumption

\* It holds at the start: no run is at work and no client has heard anything.
LEMMA InitEstablishes == Init => IInv
<1> SUFFICES ASSUME Init PROVE IInv
    OBVIOUS
<1>1. LoopInv
    BY LoopInitEstablishes DEF Init
<1>2. ASSUME NEW c \in Clients
      PROVE  /\ client[c] = [pc |-> "free", exec |-> NoExec, buffer |-> <<>>, last |-> NoEvent]
             /\ client[c] \in ClientRecord
    BY DEF Init, ClientRecord, ClientPhases, NoEvent
<1>3. StreamTypes
    BY <1>2 DEF Init, StreamTypes
<1>4. \A e \in Executions : OnceInv(e)
    BY DEF Init, LoopInit, OnceInv, Idle
<1>5. \A c \in Clients : ClientInv(c) /\ CallInv(c)
    BY <1>2 DEF Init, ClientInv, CallInv, Heard, EventInv, LogKept, StatusKept, NoEvent
<1>6. EndsWithEnd
    BY <1>2 DEF EndsWithEnd
<1> QED
    BY <1>1, <1>3, <1>4, <1>5, <1>6 DEF IInv

\* Every step of the stream is a step of the loop or leaves it alone.
LEMMA NextIsLoopStep ==
    [Next]_vars => (\E r \in Runs : LoopStep(r)) \/ Crash \/ UNCHANGED loopVars
BY DEF Next, vars, RunOn, Silent, Speak, Perform, Return, Call, Handler, Lookup, LookupFails,
   Subscribe, Forward, TimeOut, Disconnect, Connect, EngineDies, LoopStep
-----------------------------------------------------------------------------
(* What a step of the loop does to an execution, and to what is known of an  *)
(* event.                                                                    *)

\* Any step but a call moves its run on, or ends it, and writes at most the status of its
\* own execution, at its start or its finish.
LEMMA RunGoesOn ==
    ASSUME LoopInv, NEW r \in Runs, LoopStep(r), ~\E e \in Executions : Accept(r, e)
    PROVE  /\ started' = started /\ unlogged \subseteq unlogged'
           /\ \A e \in hurt \ hurt' : e = run[r].exec /\ run[r].pc = "finish"
           /\ \A e \in Executions : logs[e] \subseteq logs'[e]
           /\ \A p \in Runs \ {r} : run'[p] = run[p]
           /\ run[r].exec \in Executions
           /\ \A e \in Executions \ {run[r].exec} : status'[e] = status[e]
           /\ \/ run[r].pc \in {"reply", "reset"} /\ run'[r] = Idle /\ status' = status
              \/ /\ run'[r].exec = run[r].exec
                 /\ run[r].pc = "announce" /\ Decided(run[r]) /\ Decided(run'[r])
                 /\ run'[r].outcome = run[r].outcome /\ status' = status
              \/ /\ run'[r].exec = run[r].exec
                 /\ run[r].pc = "start" /\ run'[r].pc \in {"step", "finish"}
                 /\ status'[run[r].exec] \in {"running", status[run[r].exec]}
              \/ /\ run'[r].exec = run[r].exec
                 /\ run[r].pc = "finish" /\ Decided(run'[r])
                 /\ run[r].exec \notin hurt' => status'[run[r].exec] = run'[r].outcome
              \/ /\ run'[r].exec = run[r].exec /\ status' = status
                 /\ run[r].pc \notin {"start", "finish", "announce", "reply", "reset"}
                 /\ ~Decided(run'[r])
<1>1. /\ run \in [Runs -> LoopRun] /\ run[r] \in LoopRun /\ PhaseInv(run[r])
      /\ status \in [Executions -> Statuses]
      /\ logs \in [Executions -> SUBSET ((1..NumSteps) \X Terminal)]
    BY RunFacts DEF LoopInv, LoopTypes, LoopTypeOK
<1>2. CASE Load(r)
    BY <1>1, <1>2 DEF Load, LoopRun, PhaseInv, Decided
<1>3. CASE \E outcome \in Terminal : RunStep(r, outcome)
    BY <1>1, <1>3 DEF RunStep, LoopRun, PhaseInv, Decided
<1>4. CASE StepDone(r)
    BY <1>1, <1>4 DEF StepDone, LoopRun, PhaseInv, Decided
<1>5. CASE Announce(r)
    BY <1>1, <1>5 DEF Announce, LoopRun, PhaseInv, Decided, Terminal
<1>6. CASE Collect(r)
    BY <1>1, <1>6 DEF Collect, LoopRun, PhaseInv
<1>7. CASE \E written \in BOOLEAN : WriteLog(r, written)
    BY <1>1, <1>7 DEF WriteLog, LoopRun, PhaseInv, Decided
<1>8. CASE \E written \in BOOLEAN : Start(r, written)
    BY <1>1, <1>8 DEF Start, WriteStatus, StillHurt, LoopRun, PhaseInv, Terminal
<1>9. CASE \E written \in BOOLEAN : Finish(r, written)
    BY <1>1, <1>9 DEF Finish, WriteStatus, StillHurt, LoopRun, PhaseInv, Decided, Terminal
<1>10. CASE LoadFails(r)
    BY <1>1, <1>10 DEF LoadFails, LoopRun, PhaseInv, Decided, Terminal
<1> QED
    BY <1>2, <1>3, <1>4, <1>5, <1>6, <1>7, <1>8, <1>9, <1>10 DEF LoopStep

\* The death of the engine leaves of each run which execution it was for.
LEMMA CrashEnds ==
    ASSUME LoopInv, Crash
    PROVE  /\ UNCHANGED <<status, logs, unlogged, started>> /\ hurt \subseteq hurt'
           /\ \A p \in Runs :
                /\ run'[p].exec = run[p].exec
                /\ run[p].exec \in Executions => run'[p].pc = "reset"
                /\ run[p].pc # "idle" => run'[p].pc = "reset"
                /\ run'[p].pc \in {"idle", "reset"}
<1>1. ASSUME NEW p \in Runs
      PROVE  /\ run'[p].exec = run[p].exec
             /\ run[p].exec \in Executions => run'[p].pc = "reset"
             /\ run[p].pc # "idle" => run'[p].pc = "reset"
             /\ run'[p].pc \in {"idle", "reset"}
    <2>1. run'[p] = Died(run[p]) /\ PhaseInv(run[p])
        BY RunFacts DEF Crash
    <2> QED
        BY <2>1 DEF Died, PhaseInv, Idle
<1> QED
    BY <1>1 DEF Crash

\* A call counts one run more of its execution and touches no row and no other run.
LEMMA CallBegins ==
    ASSUME LoopInv, NEW r \in Runs, NEW d \in Executions, Accept(r, d)
    PROVE  /\ UNCHANGED <<status, logs, hurt, unlogged>>
           /\ started[d] \in Nat /\ started'[d] = started[d] + 1
           /\ \A e \in Executions \ {d} : started'[e] = started[e]
           /\ run[r] = Idle /\ run'[r].exec = d /\ run'[r].pc = "load"
           /\ \A p \in Runs \ {r} : run'[p] = run[p]
BY DEF Accept, Idle, LoopInv, LoopTypes, LoopTypeOK

\* A step of a run keeps what is known of an execution that is run once.
LEMMA OnceKept ==
    ASSUME LoopInv, NEW e \in Executions, OnceInv(e), NEW r \in Runs, LoopStep(r)
    PROVE  OnceInv(e)'
<1>1. CASE \E d \in Executions : Accept(r, d)
    <2> PICK d \in Executions : Accept(r, d)
        BY <1>1
    <2>1. CASE d = e
        BY <2>1, CallBegins DEF OnceInv, Terminal, Decided
    <2>2. CASE d # e
        BY <2>2, CallBegins DEF OnceInv, Idle
    <2> QED
        BY <2>1, <2>2
<1>2. CASE ~\E d \in Executions : Accept(r, d)
    <2>1. CASE e # run[r].exec
        BY <1>2, <2>1, RunGoesOn DEF OnceInv, Idle
    <2>2. CASE e = run[r].exec
        <3>1. started' = started /\ (started[e] = 0 => FALSE)
            BY <1>2, <2>2, RunGoesOn DEF OnceInv
        <3>2. ASSUME started[e] = 1, NEW p \in Runs, run'[p].exec = e
              PROVE  p = r
            BY <1>2, <2>2, <3>2, RunGoesOn DEF OnceInv
        <3>3. ASSUME started[e] = 1, run'[r].exec = e
              PROVE  IF Decided(run'[r]) THEN e \notin hurt' => status'[e] = run'[r].outcome
                     ELSE status'[e] \notin Terminal
            <4>1. /\ e \in hurt \ hurt' => run[r].pc = "finish"
                  /\ run[r].pc # "reset" =>
                       IF Decided(run[r]) THEN e \notin hurt => status[e] = run[r].outcome
                       ELSE status[e] \notin Terminal
                BY <1>2, <2>2, <3>3, RunGoesOn DEF OnceInv
            <4>2. CASE run[r].pc \in {"reply", "reset"}
                BY <1>2, <2>2, <3>3, <4>2, RunGoesOn DEF Idle
            <4>3. CASE run[r].pc = "announce"
                BY <1>2, <2>2, <4>1, <4>3, RunGoesOn
            <4>4. CASE run[r].pc = "start"
                BY <1>2, <2>2, <4>1, <4>4, RunGoesOn DEF Terminal, Decided
            <4>5. CASE run[r].pc = "finish"
                BY <1>2, <2>2, <3>3, <4>5, RunGoesOn
            <4>6. CASE run[r].pc \notin {"reply", "reset", "announce", "start", "finish"}
                BY <1>2, <2>2, <4>1, <4>6, RunGoesOn DEF Decided
            <4> QED
                BY <4>2, <4>3, <4>4, <4>5, <4>6
        <3> QED
            BY <3>1, <3>2, <3>3 DEF OnceInv
    <2> QED
        BY <2>1, <2>2
<1> QED
    BY <1>1, <1>2

\* What an event says stays true: logs are only added, and the only run is over.
LEMMA EventKept ==
    ASSUME LoopInv, NEW event \in Events \cup {NoEvent}, EventInv(event), NEW r \in Runs, LoopStep(r)
    PROVE  EventInv(event)'
<1>1. event.type \in {"step_done", "finished"} => event.exec \in Executions
    BY DEF Events, NoEvent
<1>2. CASE \E d \in Executions : Accept(r, d)
    <2> PICK d \in Executions : Accept(r, d)
        BY <1>2
    <2>1. CASE d = event.exec
        BY <1>1, <2>1, CallBegins DEF EventInv, LogKept, StatusKept
    <2>2. CASE d # event.exec
        BY <1>1, <2>2, CallBegins DEF EventInv, LogKept, StatusKept
    <2> QED
        BY <2>1, <2>2
<1>3. CASE ~\E d \in Executions : Accept(r, d)
    <2>1. CASE event.exec # run[r].exec
        BY <1>1, <1>3, <2>1, RunGoesOn DEF EventInv, LogKept, StatusKept, Idle
    <2>2. CASE event.exec = run[r].exec
        <3>1. LogKept(event)'
            BY <1>1, <1>3, RunGoesOn DEF EventInv, LogKept
        <3>2. ASSUME event.type = "finished", started[event.exec] = 1
              PROVE  /\ event.exec \notin hurt' => status'[event.exec] = event.status
                     /\ \A p \in Runs : run'[p].exec = event.exec =>
                          Decided(run'[p]) \/ run'[p].pc = "reset"
            <4>1. /\ event.exec \notin hurt => status[event.exec] = event.status
                  /\ \A p \in Runs : run[p].exec = event.exec =>
                       Decided(run[p]) \/ run[p].pc = "reset"
                BY <1>3, <3>2, RunGoesOn DEF EventInv, StatusKept
            <4>2. run[r].pc \in {"announce", "reply", "reset"}
                BY <2>2, <4>1 DEF Decided
            <4>3. /\ status' = status /\ hurt \subseteq hurt'
                  /\ Decided(run'[r]) \/ run'[r].exec = NoExec
                BY <1>3, <4>2, RunGoesOn DEF Idle
            <4>4. \A p \in Runs \ {r} : run'[p] = run[p]
                BY <1>3, RunGoesOn
            <4> QED
                BY <1>1, <3>2, <4>1, <4>3, <4>4
        <3> QED
            BY <1>3, <3>1, <3>2, RunGoesOn DEF EventInv, StatusKept
    <2> QED
        BY <2>1, <2>2
<1> QED
    BY <1>2, <1>3

\* The same of the engine's death: what was decided before it stays decided.
LEMMA CrashKeeps ==
    ASSUME LoopInv, Crash
    PROVE  /\ \A e \in Executions : OnceInv(e) => OnceInv(e)'
           /\ \A event \in Events \cup {NoEvent} : EventInv(event) => EventInv(event)'
<1>1. ASSUME NEW e \in Executions, OnceInv(e)
      PROVE  OnceInv(e)'
    BY <1>1, CrashEnds DEF OnceInv
<1>2. ASSUME NEW event \in Events \cup {NoEvent}, EventInv(event)
      PROVE  EventInv(event)'
    <2>1. event.type \in {"step_done", "finished"} => event.exec \in Executions
        BY DEF Events, NoEvent
    <2> QED
        BY <1>2, <2>1, CrashEnds DEF EventInv, LogKept, StatusKept
<1> QED
    BY <1>1, <1>2

\* What the invariant says of the runs and of events survives every step.
LEMMA LoopPart ==
    ASSUME IInv, [Next]_vars
    PROVE  /\ LoopInv' /\ \A e \in Executions : OnceInv(e)'
           /\ \A event \in Events \cup {NoEvent} : EventInv(event) => EventInv(event)'
<1>1. CASE \E r \in Runs : LoopStep(r)
    BY <1>1, LoopPreserves, OnceKept, EventKept DEF IInv
<1>2. CASE UNCHANGED loopVars
    BY <1>2, LoopPreserves DEF IInv, loopVars, OnceInv, EventInv, LogKept, StatusKept
<1>3. CASE Crash
    BY <1>3, LoopPreserves, CrashKeeps DEF IInv
<1> QED
    BY <1>1, <1>2, <1>3, NextIsLoopStep
-----------------------------------------------------------------------------
(* The clients.                                                              *)

\* Whatever a client holds is an event, or nothing yet.
LEMMA HeardTypes ==
    ASSUME StreamTypes, NEW c \in Clients
    PROVE  /\ client[c] \in ClientRecord /\ client[c].last \in Events \cup {NoEvent}
           /\ \A i \in 1..Len(client[c].buffer) : client[c].buffer[i] \in Events
           /\ Heard(c) \subseteq Events \cup {NoEvent}
BY DEF StreamTypes, ClientRecord, Heard

\* What a client may have heard after a step.
NewsIsTrue(c) == \A event \in Heard(c)' : event \in Heard(c) \/ EventInv(event)'

\* A client that hears only true news has heard nothing false after the step.
LEMMA HeardKept ==
    ASSUME IInv, [Next]_vars, NEW c \in Clients, NewsIsTrue(c)
    PROVE  \A event \in Heard(c)' : EventInv(event)'
<1>1. Heard(c) \subseteq Events \cup {NoEvent} /\ \A event \in Heard(c) : EventInv(event)
    BY HeardTypes DEF IInv, ClientInv
<1> QED
    BY <1>1, LoopPart DEF NewsIsTrue

\* An event is told to those who have called the run, and to those who listen and do not
\* lose it.
LEMMA TellFacts ==
    ASSUME IInv, NEW r \in Runs, run[r].exec \in Executions, NEW event \in Events,
           NEW direct \in SUBSET caller[r], Tell(r, event, direct)
    PROVE  /\ client' \in [Clients -> ClientRecord]
           /\ \A c \in Clients :
                /\ client'[c].pc = client[c].pc /\ client'[c].exec = client[c].exec
                /\ \/ /\ client[c].pc = "stream"
                      /\ WorkflowOf[client[c].exec] = WorkflowOf[run[r].exec]
                      /\ client'[c].last = client[c].last
                      /\ client'[c].buffer = Append(client[c].buffer, event)
                   \/ /\ c \in direct /\ client[c].pc = "call"
                      /\ client'[c].last = event /\ client'[c].buffer = client[c].buffer
                   \/ c \notin direct /\ client'[c] = client[c]
<1>1. ASSUME NEW c \in Clients
      PROVE  /\ client'[c] \in ClientRecord
             /\ client'[c].pc = client[c].pc /\ client'[c].exec = client[c].exec
             /\ \/ /\ client[c].pc = "stream"
                   /\ WorkflowOf[client[c].exec] = WorkflowOf[run[r].exec]
                   /\ client'[c].last = client[c].last
                   /\ client'[c].buffer = Append(client[c].buffer, event)
                \/ /\ c \in direct /\ client[c].pc = "call"
                   /\ client'[c].last = event /\ client'[c].buffer = client[c].buffer
                \/ c \notin direct /\ client'[c] = client[c]
    <2>1. client[c] \in ClientRecord /\ (c \in direct => client[c].pc = "call")
        BY DEF IInv, StreamTypes, CallInv
    <2> PICK lost \in SUBSET {d \in Clients : Listens(d, run[r].exec)} :
               client' = [d \in Clients |->
                            CASE Listens(d, run[r].exec) /\ d \notin lost ->
                                   [client[d] EXCEPT !.buffer = Append(@, event)]
                              [] d \in direct -> [client[d] EXCEPT !.last = event]
                              [] OTHER -> client[d]]
        BY DEF Tell
    <2>2. CASE Listens(c, run[r].exec) /\ c \notin lost
        <3>1. client'[c] = [client[c] EXCEPT !.buffer = Append(@, event)]
            BY <2>1, <2>2 DEF Listens
        <3>2. Append(client[c].buffer, event) \in Seq(Events)
            BY <2>1 DEF ClientRecord
        <3> QED
            BY <2>1, <2>2, <3>1, <3>2 DEF Listens, ClientRecord
    <2>3. CASE ~Listens(c, run[r].exec) /\ c \in direct
        <3>1. client'[c] = [client[c] EXCEPT !.last = event]
            BY <2>3
        <3> QED
            BY <2>1, <2>3, <3>1 DEF ClientRecord
    <2>4. CASE ~Listens(c, run[r].exec) /\ c \notin direct
        <3>1. client'[c] = client[c]
            BY <2>4
        <3> QED
            BY <2>1, <2>4, <3>1
    <2>5. CASE Listens(c, run[r].exec) /\ c \in lost
        <3>1. c \notin direct
            BY <2>1, <2>5 DEF Listens
        <3>2. client'[c] = client[c]
            BY <2>5, <3>1
        <3> QED
            BY <2>1, <3>1, <3>2
    <2> QED
        BY <2>2, <2>3, <2>4, <2>5
<1>2. client' = [c \in Clients |-> client'[c]]
    BY DEF Tell
<1> QED
    BY <1>1, <1>2

\* Who listens is told, or is counted among those that the event has not reached.
LEMMA TellMisses ==
    ASSUME IInv, NEW r \in Runs, NEW event, NEW direct \in SUBSET caller[r],
           Tell(r, event, direct)
    PROVE  /\ missed \subseteq missed'
           /\ \A c \in Clients : Listens(c, run[r].exec) =>
                client'[c].buffer = Append(client[c].buffer, event) \/ <<c, event.type>> \in missed'
<1> PICK lost \in SUBSET {d \in Clients : Listens(d, run[r].exec)} :
           /\ client' = [d \in Clients |->
                           CASE Listens(d, run[r].exec) /\ d \notin lost ->
                                  [client[d] EXCEPT !.buffer = Append(@, event)]
                             [] d \in direct -> [client[d] EXCEPT !.last = event]
                             [] OTHER -> client[d]]
           /\ missed' = missed \cup lost \X {event.type}
    BY DEF Tell
<1>1. ASSUME NEW c \in Clients, Listens(c, run[r].exec), c \notin lost
      PROVE  client'[c].buffer = Append(client[c].buffer, event)
    <2>1. client[c] \in ClientRecord /\ c \notin direct
        BY <1>1 DEF IInv, StreamTypes, CallInv, Listens
    <2>2. client'[c] = [client[c] EXCEPT !.buffer = Append(@, event)]
        BY <1>1, <2>1
    <2> QED
        BY <2>1, <2>2 DEF ClientRecord
<1> QED
    BY <1>1

\* A run that publishes keeps the clients' part of the invariant, if the event is true.
LEMMA TellPreserves ==
    ASSUME IInv, [Next]_vars, NEW r \in Runs, run[r].exec \in Executions, NEW event \in Events,
           NEW direct \in SUBSET caller[r], Tell(r, event, direct), EventInv(event)',
           event.type = "finished" => event.exec = run[r].exec
    PROVE  /\ client' \in [Clients -> ClientRecord]
           /\ \A c \in Clients : ClientInv(c)'
           /\ EndsWithEnd'
<1>1. ASSUME NEW c \in Clients
      PROVE  ClientInv(c)'
    <2>1. client[c].buffer \in Seq(Events) /\ ClientInv(c)
        BY HeardTypes DEF IInv, ClientRecord
    <2>2. \A i \in 1..Len(client'[c].buffer) :
            \/ i \in 1..Len(client[c].buffer) /\ client'[c].buffer[i] = client[c].buffer[i]
            \/ /\ client'[c].buffer[i] = event
               /\ WorkflowOf[client[c].exec] = WorkflowOf[run[r].exec]
        <3>1. CASE /\ WorkflowOf[client[c].exec] = WorkflowOf[run[r].exec]
                   /\ client'[c].buffer = Append(client[c].buffer, event)
            BY <2>1, <3>1
        <3>2. CASE client'[c].buffer = client[c].buffer
            BY <3>2
        <3> QED
            BY <3>1, <3>2, TellFacts
    <2>3. client'[c].last \in {client[c].last, event} /\ client'[c].pc = client[c].pc
          /\ client'[c].exec = client[c].exec
        BY TellFacts
    <2>4. NewsIsTrue(c)
        BY <2>2, <2>3 DEF NewsIsTrue, Heard
    <2>5. \A e \in Heard(c)' : EventInv(e)'
        BY <2>4, HeardKept
    <2>6. client'[c].pc # "stream" => client'[c].buffer = <<>>
        <3>1. client[c].pc # "stream" => client'[c].buffer = client[c].buffer
            BY TellFacts
        <3> QED
            BY <2>1, <2>3, <3>1 DEF ClientInv
    <2>7. \A i \in 1..Len(client'[c].buffer) :
            client'[c].buffer[i].type = "finished" =>
                WorkflowOf[client'[c].buffer[i].exec] = WorkflowOf[client'[c].exec]
        BY <2>1, <2>2, <2>3 DEF ClientInv
    <2>8. client'[c].pc # "free" => client'[c].exec \in Executions
        BY <2>1, <2>3 DEF ClientInv
    <2>9. client'[c].pc \in {"free", "lookup", "subscribe", "stream"} =>
            client'[c].last.type # "finished"
        <3>1. client[c].pc # "call" => client'[c].last = client[c].last
            BY TellFacts DEF IInv, CallInv
        <3> QED
            BY <2>1, <2>3, <3>1 DEF ClientInv
    <2> QED
        BY <2>5, <2>6, <2>7, <2>8, <2>9 DEF ClientInv
<1>2. EndsWithEnd'
    BY TellFacts DEF IInv, EndsWithEnd
<1> QED
    BY <1>1, <1>2, TellFacts
-----------------------------------------------------------------------------
(* The steps of a run.                                                       *)

\* The reads and writes of a run publish nothing.
LEMMA SilentPreserves ==
    ASSUME IInv, [Next]_vars, NEW r \in Runs, Silent(r), UNCHANGED <<client, caller, said>>
    PROVE  IInv'
<1>1. \A c \in Clients : ClientInv(c)'
    <2> SUFFICES ASSUME NEW c \in Clients PROVE ClientInv(c)'
        OBVIOUS
    <2>1. NewsIsTrue(c)
        BY DEF NewsIsTrue, Heard
    <2> QED
        BY <2>1, HeardKept DEF IInv, ClientInv
<1>2. ASSUME NEW p \in Runs
      PROVE  run'[p].exec = run[p].exec /\ (run[p].pc # "idle" => run'[p].pc # "idle")
             /\ (Answering(run'[p]) => Answering(run[p]))
    BY DEF Silent, Load, LoadFails, Start, WriteLog, Finish, IInv, LoopInv, LoopTypes, LoopTypeOK,
       LoopRun, Answering, Terminal
<1>3. \A c \in Clients : CallInv(c)'
    BY <1>2 DEF IInv, CallInv
<1> QED
    BY <1>1, <1>3, LoopPart DEF IInv, StreamTypes, EndsWithEnd

\* The end of a step publishes nothing: an AI task has spoken before it.
LEMMA PerformPreserves ==
    ASSUME IInv, [Next]_vars, NEW r \in Runs, NEW outcome \in Terminal, Perform(r, outcome)
    PROVE  IInv'
<1>1. \A c \in Clients : ClientInv(c)'
    <2> SUFFICES ASSUME NEW c \in Clients PROVE ClientInv(c)'
        OBVIOUS
    <2>1. NewsIsTrue(c)
        BY DEF NewsIsTrue, Heard, Perform
    <2> QED
        BY <2>1, HeardKept DEF IInv, ClientInv, Perform
<1>2. ASSUME NEW p \in Runs
      PROVE  run'[p].exec = run[p].exec /\ (run[p].pc # "idle" => run'[p].pc # "idle")
             /\ (Answering(run'[p]) => Answering(run[p]))
    BY DEF Perform, RunStep, IInv, LoopInv, LoopTypes, LoopTypeOK, LoopRun, Answering
<1>3. \A c \in Clients : CallInv(c)'
    BY <1>2 DEF IInv, CallInv, Perform
<1> QED
    BY <1>1, <1>3, LoopPart DEF IInv, StreamTypes, EndsWithEnd, Perform

\* publishToken: the closing token names no execution, so it claims nothing of one.
LEMMA SpeakPreserves ==
    ASSUME IInv, [Next]_vars, NEW r \in Runs, Speak(r)
    PROVE  IInv'
<1>1. run[r].exec \in Executions
    BY RunFacts DEF Speak, IInv, PhaseInv
<1>2. TokenEvent(r) \in Events /\ TokenEvent(r).type = "ai_token"
    BY DEF TokenEvent, Events, Speak
<1> PICK event \in Events : event = TokenEvent(r)
    BY <1>2
<1>3. EventInv(event)' /\ {} \in SUBSET caller[r] /\ Tell(r, event, {})
    BY <1>2 DEF EventInv, LogKept, StatusKept, Speak
<1>4. /\ client' \in [Clients -> ClientRecord] /\ \A c \in Clients : ClientInv(c)'
      /\ EndsWithEnd'
    BY <1>1, <1>2, <1>3, TellPreserves
<1>5. \A c \in Clients : client'[c].pc = client[c].pc /\ client'[c].exec = client[c].exec
                          /\ client'[c].last = client[c].last
    BY <1>1, <1>3, TellFacts
<1>6. \A c \in Clients : CallInv(c)'
    BY <1>5 DEF IInv, CallInv, Speak, loopVars
<1> QED
    BY <1>4, <1>6, LoopPart DEF IInv, StreamTypes, Speak

\* step_done is published when the log of its step has been written, or lost.
LEMMA StepDonePreserves ==
    ASSUME IInv, [Next]_vars, NEW r \in Runs, StepDone(r), Tell(r, StepEvent(r), caller[r]),
           UNCHANGED <<caller, said>>
    PROVE  IInv'
<1>1. /\ run[r].exec \in Executions /\ run[r].at \in 1..NumSteps /\ run[r].outcome \in Terminal
      /\ run[r].exec \notin unlogged => <<run[r].at, run[r].outcome>> \in logs[run[r].exec]
    BY RunFacts DEF StepDone, IInv, PhaseInv, PastInv
<1>2. StepEvent(r) \in Events
    BY <1>1 DEF StepEvent, Events
<1> PICK event \in Events : event = StepEvent(r)
    BY <1>2
<1>3. EventInv(event)' /\ event.type = "step_done" /\ Tell(r, event, caller[r])
    BY <1>1 DEF StepEvent, EventInv, LogKept, StatusKept, StepDone
<1>4. /\ client' \in [Clients -> ClientRecord] /\ \A c \in Clients : ClientInv(c)'
      /\ EndsWithEnd'
    BY <1>1, <1>3, TellPreserves
<1>5. \A c \in Clients : client'[c].pc = client[c].pc /\ client'[c].exec = client[c].exec
                          /\ (c \notin caller[r] => client'[c].last = client[c].last)
    BY <1>1, <1>3, TellFacts
<1>6. ASSUME NEW p \in Runs
      PROVE  /\ run'[p].exec = run[p].exec /\ (run[p].pc # "idle" => run'[p].pc # "idle")
             /\ (Answering(run'[p]) => p # r /\ Answering(run[p]))
    BY DEF StepDone, IInv, LoopInv, LoopTypes, LoopTypeOK, LoopRun, Answering
<1>7. \A c \in Clients : CallInv(c)'
    BY <1>5, <1>6 DEF IInv, CallInv
<1> QED
    BY <1>4, <1>7, LoopPart DEF IInv, StreamTypes

\* finished is published when the status has been written, or the write was lost.
LEMMA AnnouncePreserves ==
    ASSUME IInv, [Next]_vars, NEW r \in Runs, Announce(r),
           Tell(r, EndEvent(run[r].exec, run[r].outcome), caller[r]), UNCHANGED <<caller, said>>
    PROVE  IInv'
<1> DEFINE e == run[r].exec
<1>1. e \in Executions /\ run[r].outcome \in Terminal /\ run[r].pc = "announce"
    BY RunFacts DEF Announce, IInv, PhaseInv, Terminal
<1>2. EndEvent(e, run[r].outcome) \in Events
    BY <1>1 DEF EndEvent, Events
<1> PICK event \in Events : event = EndEvent(e, run[r].outcome)
    BY <1>2
<1>3. event.type = "finished" /\ event.exec = e /\ event.status = run[r].outcome
    BY DEF EndEvent
<1>4. ASSUME NEW p \in Runs
      PROVE  run'[p] = IF p = r THEN [run[p] EXCEPT !.pc = "reply"] ELSE run[p]
    BY DEF Announce, IInv, LoopInv, LoopTypes, LoopTypeOK
<1>5. EventInv(event)'
    <2>1. OnceInv(e) /\ UNCHANGED <<status, started, hurt>>
        BY <1>1 DEF IInv, Announce
    <2>2. started[e] # 0
        BY <1>1, <2>1 DEF OnceInv
    <2>3. started[e] = 1 => \A p \in Runs : run'[p].exec = e => p = r
        BY <1>1, <1>4, <2>1 DEF OnceInv
    <2>4. started[e] = 1 /\ e \notin hurt => status[e] = run[r].outcome
        BY <1>1, <2>1 DEF OnceInv, Decided
    <2>5. Decided(run'[r])
        BY <1>1, <1>4, RunFacts DEF IInv, LoopRun, Decided
    <2> QED
        BY <1>3, <2>1, <2>2, <2>3, <2>4, <2>5 DEF EventInv, LogKept, StatusKept
<1>6. /\ client' \in [Clients -> ClientRecord] /\ \A c \in Clients : ClientInv(c)'
      /\ EndsWithEnd'
    BY <1>1, <1>3, <1>5, TellPreserves
<1>7. \A c \in Clients : client'[c].pc = client[c].pc /\ client'[c].exec = client[c].exec
                          /\ client'[c].last = IF c \in caller[r] THEN event ELSE client[c].last
    BY <1>1, TellFacts DEF IInv, CallInv
<1>8. ASSUME NEW p \in Runs
      PROVE  /\ run'[p].exec = run[p].exec /\ (run[p].pc # "idle" => run'[p].pc # "idle")
             /\ (Answering(run'[p]) => p = r \/ Answering(run[p]))
    BY <1>4, RunFacts DEF IInv, LoopRun
<1>9. \A c \in Clients : CallInv(c)'
    BY <1>3, <1>7, <1>8 DEF IInv, CallInv
<1> QED
    BY <1>6, <1>9, LoopPart DEF IInv, StreamTypes

\* A run that returns ends the stream of its caller, who has had "finished" if it is done.
LEMMA ReturnPreserves ==
    ASSUME IInv, [Next]_vars, NEW r \in Runs, Return(r), UNCHANGED said
    PROVE  IInv'
<1>1. ASSUME NEW c \in Clients
      PROVE  client'[c] = IF c \notin caller[r] THEN client[c]
                          ELSE [client[c] EXCEPT !.pc = IF run[r].outcome \in Terminal THEN "ended"
                                                        ELSE "cut"]
    BY DEF Return
<1>2. client' \in [Clients -> ClientRecord] /\ caller' \in [Runs -> SUBSET Clients]
    BY <1>1, HeardTypes DEF Return, IInv, StreamTypes, ClientRecord, ClientPhases
<1>3. \A c \in Clients : ClientInv(c)'
    <2> SUFFICES ASSUME NEW c \in Clients PROVE ClientInv(c)'
        OBVIOUS
    <2>1. client'[c].buffer = client[c].buffer /\ client'[c].last = client[c].last
          /\ client'[c].exec = client[c].exec /\ (client[c].pc = "free" <=> client'[c].pc = "free")
          /\ (client'[c].pc # "stream" => client[c].pc # "stream")
          /\ (client'[c].pc \in {"free", "lookup", "subscribe", "stream"} => client'[c] = client[c])
        <3>1. CASE c \notin caller[r]
            BY <1>1, <3>1
        <3>2. CASE c \in caller[r]
            <4>1. PICK pc \in {"ended", "cut"} : client'[c] = [client[c] EXCEPT !.pc = pc]
                BY <1>1, <3>2
            <4>2. client[c].pc = "call" /\ client[c] \in ClientRecord
                BY <3>2, HeardTypes DEF IInv, CallInv
            <4> QED
                BY <4>1, <4>2 DEF ClientRecord
        <3> QED
            BY <3>1, <3>2
    <2>2. NewsIsTrue(c)
        BY <2>1 DEF NewsIsTrue, Heard
    <2> QED
        BY <2>1, <2>2, HeardKept DEF IInv, ClientInv
<1>4. run[r].outcome \in Terminal => Answering(run[r])
    BY RunFacts DEF Return, Collect, IInv, PhaseInv, Terminal, Answering
<1>5. EndsWithEnd'
    <2> SUFFICES ASSUME NEW c \in Clients, client'[c].pc = "ended"
                 PROVE  /\ client'[c].last.type = "finished"
                        /\ WorkflowOf[client'[c].last.exec] = WorkflowOf[client'[c].exec]
        BY DEF EndsWithEnd
    <2>1. CASE c \in caller[r]
        <3>1. client'[c].last = client[c].last /\ client'[c].exec = client[c].exec
            BY <1>1, <2>1, HeardTypes DEF IInv, ClientRecord
        <3>2. run[r].outcome \in Terminal
            BY <1>1, <2>1, HeardTypes DEF IInv, ClientRecord
        <3>3. client[c].last.type = "finished" /\ client[c].last.exec = client[c].exec
            BY <1>4, <2>1, <3>2 DEF IInv, CallInv
        <3> QED
            BY <3>1, <3>3
    <2>2. CASE c \notin caller[r]
        BY <1>1, <2>2 DEF IInv, EndsWithEnd
    <2> QED
        BY <2>1, <2>2
<1>6. ASSUME NEW p \in Runs
      PROVE  /\ p # r => run'[p] = run[p] /\ caller'[p] = caller[p]
             /\ p = r => caller'[p] = {}
    BY DEF Return, Collect, IInv, StreamTypes, LoopInv, LoopTypes, LoopTypeOK
<1>7. \A c \in Clients : CallInv(c)'
    <2> SUFFICES ASSUME NEW c \in Clients PROVE CallInv(c)'
        OBVIOUS
    <2>1. CallInv(c)
        BY DEF IInv
    <2>2. CASE c \in caller[r]
        <3>1. \A p \in Runs : c \notin caller'[p]
            BY <1>6, <2>1, <2>2 DEF CallInv
        <3> QED
            BY <3>1 DEF CallInv
    <2>3. CASE c \notin caller[r]
        <3>1. client'[c] = client[c] /\ \A p \in Runs : c \in caller'[p] =>
                                           c \in caller[p] /\ run'[p] = run[p]
            BY <1>1, <1>6, <2>3
        <3> QED
            BY <2>1, <3>1 DEF CallInv
    <2> QED
        BY <2>2, <2>3
<1> QED
    BY <1>2, <1>3, <1>5, <1>7, LoopPart DEF IInv, StreamTypes

\* A call by RunExecution or, for a client, by StreamExecution.
LEMMA CallPreserves ==
    ASSUME IInv, [Next]_vars, NEW r \in Runs, NEW e \in Executions, Call(r, e)
    PROVE  IInv'
<1>1. Accept(r, e) /\ said' = said
    BY DEF Call
<1>2. run[r] = Idle /\ run'[r].exec = e /\ run'[r].pc = "load" /\ \A p \in Runs \ {r} : run'[p] = run[p]
    BY <1>1, CallBegins DEF IInv
<1>3. caller[r] = {}
    BY <1>2 DEF IInv, StreamTypes, CallInv, Idle
<1>4. CASE UNCHANGED <<client, caller>>
    <2>1. \A c \in Clients : ClientInv(c)'
        <3> SUFFICES ASSUME NEW c \in Clients PROVE ClientInv(c)'
            OBVIOUS
        <3>1. NewsIsTrue(c)
            BY <1>4 DEF NewsIsTrue, Heard
        <3> QED
            BY <1>4, <3>1, HeardKept DEF IInv, ClientInv
    <2>2. \A c \in Clients : CallInv(c)'
        BY <1>2, <1>3, <1>4 DEF IInv, CallInv
    <2> QED
        BY <1>1, <1>4, <2>1, <2>2, LoopPart DEF IInv, StreamTypes, EndsWithEnd
<1>5. ASSUME NEW c \in Clients, client[c].pc = "free",
             client' = [client EXCEPT ![c].pc = "call", ![c].exec = e],
             caller' = [caller EXCEPT ![r] = {c}]
      PROVE  IInv'
    <2>1. /\ client'[c] = [client[c] EXCEPT !.pc = "call", !.exec = e]
          /\ \A d \in Clients \ {c} : client'[d] = client[d]
          /\ client' \in [Clients -> ClientRecord]
          /\ caller' \in [Runs -> SUBSET Clients]
        BY <1>5 DEF IInv, StreamTypes, ClientRecord, ClientPhases
    <2>2. ASSUME NEW d \in Clients
          PROVE  ClientInv(d)' /\ CallInv(d)'
        <3>1. CASE d # c
            <4>1. client'[d] = client[d] /\ \A p \in Runs : d \in caller'[p] => d \in caller[p] /\ p # r
                BY <1>3, <1>5, <2>1, <3>1 DEF IInv, StreamTypes
            <4>2. NewsIsTrue(d)
                BY <4>1 DEF NewsIsTrue, Heard
            <4> QED
                BY <1>2, <4>1, <4>2, HeardKept DEF IInv, ClientInv, CallInv
        <3>2. CASE d = c
            <4>1. client'[c].pc = "call" /\ client'[c].exec = e
                  /\ client'[c].last = client[c].last /\ client'[c].buffer = client[c].buffer
                BY <2>1, HeardTypes DEF IInv, ClientRecord
            <4>2. NewsIsTrue(c)
                BY <4>1 DEF NewsIsTrue, Heard
            <4>3. client[c].buffer = <<>> /\ \A p \in Runs : c \notin caller[p]
                BY <1>5 DEF IInv, ClientInv, CallInv
            <4>4. ClientInv(c)'
                BY <4>1, <4>2, <4>3, HeardKept DEF ClientInv
            <4>5. \A p \in Runs : c \in caller'[p] => p = r
                BY <1>5, <4>3 DEF IInv, StreamTypes
            <4> QED
                BY <1>2, <3>2, <4>1, <4>4, <4>5 DEF CallInv, Answering
        <3> QED
            BY <3>1, <3>2
    <2>3. EndsWithEnd'
        <3>1. client'[c].pc = "call"
            BY <2>1, HeardTypes DEF IInv, ClientRecord
        <3> QED
            BY <2>1, <3>1 DEF IInv, EndsWithEnd
    <2> QED
        BY <1>1, <2>1, <2>2, <2>3, LoopPart DEF IInv, StreamTypes
<1> QED
    BY <1>4, <1>5 DEF Call
-----------------------------------------------------------------------------
(* The steps of the handler and of the client.                               *)

\* A step of one client that leaves the runs alone.
LEMMA ClientMoves ==
    ASSUME IInv, [Next]_vars, UNCHANGED <<loopVars, said>>, NEW c \in Clients,
           client' = [client EXCEPT ![c] = client'[c]], client'[c] \in ClientRecord,
           \/ caller' = caller /\ client[c].pc # "call"
           \/ caller' = [r \in Runs |-> caller[r] \ {c}],
           ClientInv(c)',
           client'[c].pc = "ended" =>
               /\ client'[c].last.type = "finished"
               /\ WorkflowOf[client'[c].last.exec] = WorkflowOf[client'[c].exec]
    PROVE  IInv'
<1>1. \A d \in Clients \ {c} : client'[d] = client[d]
    BY DEF IInv, StreamTypes
<1>2. /\ caller' \in [Runs -> SUBSET Clients] /\ client' \in [Clients -> ClientRecord]
      /\ \A r \in Runs : caller'[r] \subseteq caller[r] /\ c \notin caller'[r]
    BY DEF IInv, StreamTypes, CallInv
<1>3. ASSUME NEW d \in Clients
      PROVE  ClientInv(d)' /\ CallInv(d)'
    <2>1. CASE d # c
        <3>1. client'[d] = client[d]
            BY <1>1, <2>1
        <3>2. NewsIsTrue(d)
            BY <3>1 DEF NewsIsTrue, Heard
        <3> QED
            BY <1>2, <3>1, <3>2, HeardKept DEF IInv, ClientInv, CallInv, loopVars
    <2>2. CASE d = c
        BY <1>2, <2>2 DEF CallInv
    <2> QED
        BY <2>1, <2>2
<1>4. EndsWithEnd'
    BY <1>1 DEF IInv, EndsWithEnd
<1> QED
    BY <1>2, <1>3, <1>4, LoopPart DEF IInv, StreamTypes

\* The SSE handler looks the row up, subscribes, and forwards, or gives up.
LEMMA HandlerPreserves ==
    ASSUME IInv, [Next]_vars, NEW c \in Clients, Handler(c) \/ TimeOut(c)
    PROVE  IInv'
<1>1. client \in [Clients -> ClientRecord] /\ client[c] \in ClientRecord /\ ClientInv(c)
    BY DEF IInv, StreamTypes
<1>2. CASE Lookup(c)
    <2> DEFINE e == client[c].exec
    <2>1. e \in Executions /\ client[c].buffer = <<>>
        BY <1>1, <1>2 DEF Lookup, ClientInv
    <2>2. CASE status[e] \in Terminal
        <3>1. /\ client'[c] = [client[c] EXCEPT !.pc = "ended", !.last = EndEvent(e, status[e])]
              /\ client' = [client EXCEPT ![c] = client'[c]]
            BY <1>1, <1>2, <2>2 DEF Lookup
        <3>2. EndEvent(e, status[e]) \in Events
            BY <2>1, <2>2 DEF EndEvent, Events
        <3> PICK event \in Events : event = EndEvent(e, status[e])
            BY <3>2
        <3>3. /\ client'[c] \in ClientRecord /\ client'[c].pc = "ended" /\ client'[c].exec = e
              /\ client'[c].last = event /\ client'[c].buffer = <<>>
            BY <1>1, <2>1, <3>1 DEF ClientRecord, ClientPhases
        <3>4. event.type = "finished" /\ event.exec = e /\ event.status = status[e]
            BY DEF EndEvent
        <3>5. EventInv(event)
            <4>1. OnceInv(e)
                BY <2>1 DEF IInv
            <4> QED
                BY <2>2, <3>4, <4>1 DEF OnceInv, EventInv, LogKept, StatusKept, Terminal
        <3>6. ClientInv(c)'
            <4>1. EventInv(event)'
                BY <3>5, LoopPart
            <4>2. Heard(c)' = {event}
                BY <3>3 DEF Heard
            <4> QED
                BY <2>1, <3>3, <4>1, <4>2 DEF ClientInv
        <3> QED
            BY <1>2, <3>1, <3>3, <3>4, <3>6, ClientMoves DEF Lookup
    <2>3. CASE status[e] \notin Terminal
        <3>1. /\ client'[c] = [client[c] EXCEPT !.pc = "subscribe"]
              /\ client' = [client EXCEPT ![c] = client'[c]]
            BY <1>1, <1>2, <2>3 DEF Lookup
        <3>2. /\ client'[c] \in ClientRecord /\ client'[c].pc = "subscribe" /\ client'[c].exec = e
              /\ client'[c].last = client[c].last /\ client'[c].buffer = <<>>
            BY <1>1, <2>1, <3>1 DEF ClientRecord, ClientPhases
        <3>3. NewsIsTrue(c)
            BY <2>1, <3>2 DEF NewsIsTrue, Heard
        <3>4. ClientInv(c)'
            BY <1>1, <1>2, <2>1, <3>2, <3>3, HeardKept DEF ClientInv, Lookup
        <3> QED
            BY <1>2, <3>1, <3>2, <3>4, ClientMoves DEF Lookup
    <2> QED
        BY <2>2, <2>3
<1>3. CASE Subscribe(c)
    <2>1. /\ client'[c] = [client[c] EXCEPT !.pc = "stream"]
          /\ client' = [client EXCEPT ![c] = client'[c]]
        BY <1>1, <1>3 DEF Subscribe
    <2>2. /\ client'[c] \in ClientRecord /\ client'[c].pc = "stream"
          /\ client'[c].exec = client[c].exec
          /\ client'[c].last = client[c].last /\ client'[c].buffer = client[c].buffer
        BY <1>1, <2>1 DEF ClientRecord, ClientPhases
    <2>3. NewsIsTrue(c)
        BY <2>2 DEF NewsIsTrue, Heard
    <2>4. ClientInv(c)'
        BY <1>1, <1>3, <2>2, <2>3, HeardKept DEF Subscribe, ClientInv
    <2> QED
        BY <1>3, <2>1, <2>2, <2>4, ClientMoves DEF Subscribe
<1>4. CASE Forward(c)
    <2> DEFINE event == Head(client[c].buffer)
    <2>1. /\ client[c].buffer \in Seq(Events) /\ client[c].buffer # <<>>
          /\ event \in Events /\ event = client[c].buffer[1] /\ 1 \in 1..Len(client[c].buffer)
          /\ Tail(client[c].buffer) \in Seq(Events)
        BY <1>1, <1>4 DEF Forward, ClientRecord
    <2>2. /\ client'[c] = [client[c] EXCEPT !.pc = IF IsFinished(event) THEN "ended" ELSE "stream",
                                           !.last = event,
                                           !.buffer = IF IsFinished(event) THEN <<>> ELSE Tail(@)]
          /\ client' = [client EXCEPT ![c] = client'[c]]
        BY <1>1, <1>4 DEF Forward
    <2>3. /\ client'[c].pc = IF IsFinished(event) THEN "ended" ELSE "stream"
          /\ client'[c].last = event /\ client'[c].exec = client[c].exec
          /\ client'[c].buffer = IF IsFinished(event) THEN <<>> ELSE Tail(client[c].buffer)
          /\ client'[c] \in ClientRecord
        <3>1. /\ (IF IsFinished(event) THEN "ended" ELSE "stream") \in ClientPhases
              /\ (IF IsFinished(event) THEN <<>> ELSE Tail(client[c].buffer)) \in Seq(Events)
            BY <2>1 DEF ClientPhases
        <3> QED
            BY <1>1, <2>1, <2>2, <3>1 DEF ClientRecord
    <2>4. \A i \in 1..Len(client'[c].buffer) :
            i + 1 \in 1..Len(client[c].buffer) /\ client'[c].buffer[i] = client[c].buffer[i + 1]
        BY <2>1, <2>3
    <2>5. NewsIsTrue(c)
        BY <2>1, <2>3, <2>4 DEF NewsIsTrue, Heard
    <2>6. ClientInv(c)'
        <3>1. client'[c].pc = "stream" => client'[c].last.type # "finished"
            BY <2>3 DEF IsFinished
        <3>2. \A e \in Heard(c)' : EventInv(e)'
            BY <2>5, HeardKept
        <3>3. client'[c].pc # "stream" => client'[c].buffer = <<>>
            BY <2>3
        <3>4. client'[c].pc \notin {"free", "lookup", "subscribe"} /\ client'[c].exec \in Executions
            BY <1>1, <1>4, <2>3 DEF Forward, ClientInv
        <3> QED
            BY <1>1, <2>3, <2>4, <3>1, <3>2, <3>3, <3>4 DEF ClientInv
    <2>7. client'[c].pc = "ended" =>
            /\ client'[c].last.type = "finished"
            /\ WorkflowOf[client'[c].last.exec] = WorkflowOf[client'[c].exec]
        BY <1>1, <2>1, <2>3 DEF IsFinished, ClientInv
    <2> QED
        BY <1>4, <2>2, <2>3, <2>6, <2>7, ClientMoves DEF Forward
<1>5. CASE LookupFails(c) \/ TimeOut(c)
    <2>1. /\ client'[c].pc = "cut" /\ client'[c].buffer = <<>> /\ client'[c] \in ClientRecord
          /\ client'[c].exec = client[c].exec /\ client'[c].last = client[c].last
          /\ client' = [client EXCEPT ![c] = client'[c]]
        <3>1. <<>> \in Seq(Events) /\ "cut" \in ClientPhases
            BY DEF ClientPhases
        <3>2. CASE LookupFails(c)
            BY <1>1, <3>1, <3>2 DEF LookupFails, ClientRecord, ClientInv
        <3>3. CASE TimeOut(c)
            BY <1>1, <3>1, <3>3 DEF TimeOut, ClientRecord
        <3> QED
            BY <1>5, <3>2, <3>3
    <2>2. NewsIsTrue(c)
        BY <2>1 DEF NewsIsTrue, Heard
    <2>3. ClientInv(c)'
        BY <1>1, <1>5, <2>1, <2>2, HeardKept DEF LookupFails, TimeOut, ClientInv
    <2> QED
        BY <1>5, <2>1, <2>3, ClientMoves DEF LookupFails, TimeOut
<1> QED
    BY <1>2, <1>3, <1>4, <1>5 DEF Handler

\* A client asks for a stream, or leaves it.
LEMMA ClientPreserves ==
    ASSUME IInv, [Next]_vars, NEW c \in Clients,
           Disconnect(c) \/ \E e \in Executions : Connect(c, e)
    PROVE  IInv'
<1>1. client \in [Clients -> ClientRecord] /\ client[c] \in ClientRecord /\ ClientInv(c)
    BY DEF IInv, StreamTypes
<1>2. CASE Disconnect(c)
    <2>1. /\ client'[c] = [client[c] EXCEPT !.pc = "left", !.buffer = <<>>]
          /\ client' = [client EXCEPT ![c] = client'[c]]
        BY <1>1, <1>2 DEF Disconnect
    <2>2. /\ client'[c] \in ClientRecord /\ client'[c].pc = "left" /\ client'[c].buffer = <<>>
          /\ client'[c].exec = client[c].exec /\ client'[c].last = client[c].last
        <3>1. <<>> \in Seq(Events) /\ "left" \in ClientPhases
            BY DEF ClientPhases
        <3> QED
            BY <1>1, <2>1, <3>1 DEF ClientRecord
    <2>3. NewsIsTrue(c)
        BY <2>2 DEF NewsIsTrue, Heard
    <2>4. ClientInv(c)'
        BY <1>1, <1>2, <2>2, <2>3, HeardKept DEF Disconnect, ClientInv
    <2> QED
        BY <1>2, <2>1, <2>2, <2>4, ClientMoves DEF Disconnect
<1>3. ASSUME NEW e \in Executions, Connect(c, e)
      PROVE  IInv'
    <2>1. /\ client'[c] = [client[c] EXCEPT !.pc = "lookup", !.exec = e]
          /\ client' = [client EXCEPT ![c] = client'[c]]
        BY <1>1, <1>3 DEF Connect
    <2>2. /\ client'[c] \in ClientRecord /\ client'[c].pc = "lookup" /\ client'[c].exec = e
          /\ client'[c].buffer = client[c].buffer /\ client'[c].last = client[c].last
          /\ client[c].buffer = <<>>
        BY <1>1, <1>3, <2>1 DEF Connect, ClientRecord, ClientPhases, ClientInv
    <2>3. NewsIsTrue(c)
        BY <2>2 DEF NewsIsTrue, Heard
    <2>4. \A event \in Heard(c)' : EventInv(event)'
        BY <2>3, HeardKept
    <2>5. client'[c].last.type # "finished"
        BY <1>1, <1>3, <2>2 DEF ClientInv, Connect
    <2>6. ClientInv(c)'
        BY <2>2, <2>4, <2>5 DEF ClientInv
    <2> QED
        BY <1>3, <2>1, <2>2, <2>6, ClientMoves DEF Connect
<1> QED
    BY <1>2, <1>3

\* The engine dies, and no client has heard of it yet.
LEMMA EngineDiesPreserves ==
    ASSUME IInv, [Next]_vars, EngineDies
    PROVE  IInv'
<1>1. LoopInv /\ Crash /\ UNCHANGED <<client, caller>> /\ said' = {}
    BY DEF IInv, EngineDies
<1>2. ASSUME NEW c \in Clients
      PROVE  ClientInv(c)' /\ CallInv(c)'
    <2>1. NewsIsTrue(c)
        BY <1>1 DEF NewsIsTrue, Heard
    <2>2. ClientInv(c)'
        BY <1>1, <2>1, HeardKept DEF IInv, ClientInv
    <2>3. CallInv(c)'
        BY <1>1, CrashEnds DEF IInv, CallInv, Answering
    <2> QED
        BY <2>2, <2>3
<1> QED
    BY <1>1, <1>2, LoopPart DEF IInv, StreamTypes, EndsWithEnd
-----------------------------------------------------------------------------
\* The inductive invariant holds in every state.
THEOREM Invariance == Spec => []IInv
<1>1. Init => IInv
    BY InitEstablishes
<1>2. IInv /\ [Next]_vars => IInv'
    <2> SUFFICES ASSUME IInv, [Next]_vars PROVE IInv'
        OBVIOUS
    <2>1. ASSUME NEW r \in Runs, RunOn(r)
          PROVE  IInv'
        BY <2>1, SilentPreserves, SpeakPreserves, PerformPreserves, StepDonePreserves,
           AnnouncePreserves, ReturnPreserves DEF RunOn
    <2>2. ASSUME NEW r \in Runs, NEW e \in Executions, Call(r, e)
          PROVE  IInv'
        BY <2>2, CallPreserves
    <2>3. ASSUME NEW c \in Clients,
                 Handler(c) \/ TimeOut(c) \/ Disconnect(c) \/ \E e \in Executions : Connect(c, e)
          PROVE  IInv'
        BY <2>3, HandlerPreserves, ClientPreserves
    <2>4. CASE UNCHANGED vars
        <3>1. UNCHANGED <<loopVars, client, caller, said>>
            BY <2>4 DEF vars
        <3>2. ASSUME NEW c \in Clients
              PROVE  ClientInv(c)' /\ CallInv(c)'
            <4>1. NewsIsTrue(c)
                BY <3>1 DEF NewsIsTrue, Heard
            <4> QED
                BY <3>1, <4>1, HeardKept DEF IInv, ClientInv, CallInv, loopVars
        <3> QED
            BY <3>1, <3>2, LoopPart DEF IInv, StreamTypes, EndsWithEnd
    <2> QED
        BY <2>1, <2>2, <2>3, <2>4, EngineDiesPreserves DEF Next
<1> QED
    BY <1>1, <1>2, PTL DEF Spec

\* Types, for any number of runs and clients (TypeOK): a run never stands at a step that
\* the workflow does not have.
THEOREM TypeCorrect == Spec => []TypeOK
<1> DEFINE MissedOK == missed \subseteq Clients \X EventTypes
<1>1. Init => MissedOK
    BY DEF Init
<1>2. MissedOK /\ [Next]_vars => MissedOK'
    <2> SUFFICES ASSUME MissedOK, [Next]_vars PROVE MissedOK'
        OBVIOUS
    <2>1. ASSUME NEW r \in Runs, NEW event, event.type \in EventTypes, NEW direct,
                 Tell(r, event, direct)
          PROVE  MissedOK'
        BY <2>1 DEF Tell
    <2>2. ASSUME NEW r \in Runs, RunOn(r)
          PROVE  MissedOK'
        <3>1. CASE Speak(r)
            BY <2>1, <3>1 DEF Speak, TokenEvent, EventTypes
        <3>2. CASE StepDone(r) /\ Tell(r, StepEvent(r), caller[r]) /\ UNCHANGED <<caller, said>>
            BY <2>1, <3>2 DEF StepEvent, EventTypes
        <3>3. CASE /\ Announce(r) /\ Tell(r, EndEvent(run[r].exec, run[r].outcome), caller[r])
                   /\ UNCHANGED <<caller, said>>
            BY <2>1, <3>3 DEF EndEvent, EventTypes
        <3> QED
            BY <2>2, <3>1, <3>2, <3>3 DEF RunOn, Perform
    <2> QED
        BY <2>2 DEF Next, vars, Call, Handler, Lookup, LookupFails, Subscribe, Forward, TimeOut,
           Disconnect, Connect, EngineDies
<1>3. IInv /\ MissedOK => TypeOK
    BY DEF IInv, LoopInv, LoopTypes, StreamTypes, TypeOK
<1> HIDE DEF MissedOK
<1> QED
    BY <1>1, <1>2, <1>3, Invariance, PTL DEF Spec

\* The step logs account for the status (LogsExplainStatus), whatever runs overlap.
THEOREM LogsExplain == Spec => []LogsExplainStatus
<1>1. IInv => LogsExplainStatus
    BY DEF IInv, LoopInv
<1> QED
    BY <1>1, Invariance, PTL

\* An end that a client was told of is in the row (FinishedIsStored).
THEOREM FinishedStored == Spec => []FinishedIsStored
<1>1. IInv => FinishedIsStored
    BY DEF IInv, ClientInv, Heard, EventInv, StatusKept, FinishedIsStored
<1> QED
    BY <1>1, Invariance, PTL

\* A step that a client was told of has its log (StepIsLogged).
THEOREM StepLogged == Spec => []StepIsLogged
<1>1. IInv => StepIsLogged
    BY DEF IInv, ClientInv, Heard, EventInv, LogKept, StepIsLogged
<1> QED
    BY <1>1, Invariance, PTL

\* A stream that is done has told the end of an execution of its workflow, and one that goes
\* on has told none (EndHasCause).
THEOREM EndsForCause == Spec => []EndHasCause
<1>1. IInv => EndHasCause
    BY DEF IInv, ClientInv, EndsWithEnd, EndHasCause
<1> QED
    BY <1>1, Invariance, PTL
-----------------------------------------------------------------------------
(* The order of what a client is told.                                       *)

Size(c) == Len(client[c].buffer)

\* How far a run has come when `event' is the last that it has published.
UpTo(event, x) ==
    IF event.type = "finished" THEN x.pc = "reply"
    ELSE /\ event.type = "step_done"
         /\ \/ x.pc \in {"step", "log", "event"} /\ event.status = "success" /\ x.at = event.at + 1
            \/ /\ x.pc \in {"finish", "announce"} /\ event.status = x.outcome
               /\ event.status = "failed" \/ event.at = NumSteps

\* Nothing of its execution follows event i.
Newest(c, i) ==
    LET e == Told(c, i).exec IN
    /\ e \in Executions /\ started[e] = 1
    /\ \A k \in (i + 1)..Size(c) : Told(c, k).exec # e

\* No event of a step has passed it by.
AllSteps(c) == <<c, "step_done">> \notin missed

\* A client knows how far a run has come, or has only missed the end of it, or there is no
\* more to come.
Knows(c, event, x) ==
    \/ UpTo(event, x)
    \/ x.pc = "reply" /\ <<c, "finished">> \in missed
    \/ x.pc = "reset"

\* A subscriber that has missed no event of a step has been told everything of
\* the executions that it has been told of, but perhaps for their end.
OrderInv(c) ==
    /\ AllSteps(c) => \A i, j \in 0..Size(c) :
         i < j /\ Successive(c, i, j) => Follows(Told(c, i), Told(c, j))
    /\ client[c].pc = "stream" /\ AllSteps(c) => \A i \in 0..Size(c) : Newest(c, i) =>
         \A r \in Runs : run[r].exec = Told(c, i).exec => Knows(c, Told(c, i), run[r])
    /\ \A i \in 0..Size(c) : Told(c, i).exec \in Executions =>
         /\ started[Told(c, i).exec] # 0
         /\ client[c].pc = "stream" => WorkflowOf[Told(c, i).exec] = WorkflowOf[client[c].exec]
    /\ client[c].pc \in {"free", "lookup", "subscribe"} => client[c].last = NoEvent

Ordered == IInv /\ \A c \in Clients : OrderInv(c)

\* Positions in what a client is told, and what stands there.
LEMMA ToldTypes ==
    ASSUME IInv, NEW c \in Clients
    PROVE  /\ Size(c) \in Nat /\ client[c] \in ClientRecord
           /\ \A i \in 0..Size(c) : Told(c, i) \in Events \cup {NoEvent}
           /\ Told(c, 0) = client[c].last
           /\ client[c].pc # "stream" => Size(c) = 0
<1>1. client[c] \in ClientRecord /\ client[c].buffer \in Seq(Events)
    BY HeardTypes DEF IInv, ClientRecord
<1> QED
    BY <1>1, HeardTypes DEF IInv, ClientInv, Size, Told

\* A step that publishes nothing, and is no call either.
Unheard(r) == Silent(r) \/ Collect(r) \/ \E outcome \in Terminal : RunStep(r, outcome)

\* Where such a step takes its run.
LEMMA UnheardMoves ==
    ASSUME LoopInv, NEW r \in Runs, Unheard(r)
    PROVE  /\ started' = started
           /\ \A p \in Runs \ {r} : run'[p] = run[p]
           /\ \/ run'[r] = Idle
              \/ /\ run'[r].exec = run[r].exec
                 /\ \/ run[r].pc \in {"load", "start"}
                    \/ /\ run[r].pc \in {"step", "log"} /\ run'[r].pc \in {"log", "event"}
                       /\ run'[r].at = run[r].at
                    \/ /\ run[r].pc = "finish" /\ run'[r].pc = "announce"
                       /\ run'[r].outcome = run[r].outcome
<1>1. run \in [Runs -> LoopRun] /\ run[r] \in LoopRun
    BY RunFacts DEF LoopInv, LoopTypes, LoopTypeOK
<1>2. CASE Load(r)
    BY <1>1, <1>2 DEF Load, LoopRun
<1>3. CASE \E written \in BOOLEAN : Start(r, written)
    BY <1>1, <1>3 DEF Start, LoopRun
<1>4. CASE \E written \in BOOLEAN : WriteLog(r, written)
    BY <1>1, <1>4 DEF WriteLog, LoopRun
<1>5. CASE \E written \in BOOLEAN : Finish(r, written)
    BY <1>1, <1>5 DEF Finish, LoopRun
<1>6. CASE Collect(r)
    BY <1>1, <1>6 DEF Collect
<1>7. CASE \E outcome \in Terminal : RunStep(r, outcome)
    <2> PICK outcome \in Terminal : RunStep(r, outcome)
        BY <1>7
    <2>1. /\ run'[r] = [run[r] EXCEPT !.pc = "log", !.outcome = outcome]
          /\ run[r].pc = "step" /\ started' = started
          /\ \A p \in Runs \ {r} : run'[p] = run[p]
        BY <1>1 DEF RunStep
    <2>2. run'[r].pc = "log" /\ run'[r].exec = run[r].exec /\ run'[r].at = run[r].at
        BY <1>1, <2>1 DEF LoopRun
    <2> QED
        BY <2>1, <2>2
<1>8. CASE LoadFails(r)
    BY <1>1, <1>8 DEF LoadFails, LoopRun
<1> QED
    BY <1>2, <1>3, <1>4, <1>5, <1>6, <1>7, <1>8 DEF Unheard, Silent

\* Such a step takes no run past what it has published last.
LEMMA UpToKept ==
    ASSUME LoopInv, NEW r \in Runs, Unheard(r),
           NEW event, event.exec \in Executions, NEW p \in Runs, run'[p].exec = event.exec
    PROVE  /\ run[p].exec = event.exec /\ (UpTo(event, run[p]) => UpTo(event, run'[p]))
           /\ run[p].pc \in {"reply", "reset"} => run'[p].pc = run[p].pc
<1>1. CASE p # r
    BY <1>1, UnheardMoves
<1>2. CASE p = r
    <2>1. run'[r] # Idle
        BY <1>2 DEF Idle
    <2> QED
        BY <1>2, <2>1, UnheardMoves DEF UpTo
<1> QED
    BY <1>1, <1>2

\* The runs have moved, and the client has been told nothing meanwhile.
NothingNews(c) ==
    /\ missed' = missed
    /\ client'[c].last = client[c].last /\ client'[c].buffer = client[c].buffer
    /\ client'[c].pc = "stream" => client[c].pc = "stream" /\ client'[c].exec = client[c].exec
    /\ client'[c].pc \in {"free", "lookup", "subscribe"} =>
         client[c].pc \in {"free", "lookup", "subscribe"}

\* A step of a run, or a call, that a client is not told of.
LEMMA UntoldKept ==
    ASSUME Ordered, NEW c \in Clients, NothingNews(c),
           \/ \E r \in Runs : Unheard(r)
           \/ \E r \in Runs, e \in Executions : Accept(r, e)
           \/ Crash
           \/ UNCHANGED loopVars
    PROVE  OrderInv(c)'
<1>1. LoopInv /\ OrderInv(c)
    BY DEF Ordered, IInv
<1>2. Size(c)' = Size(c) /\ \A i : Told(c, i)' = Told(c, i)
    BY DEF NothingNews, Size, Told
<1>3. \A e \in Executions :
        /\ started[e] \in Nat /\ started'[e] \in {started[e], started[e] + 1}
        /\ started'[e] = 1 /\ started[e] # 0 =>
             started[e] = 1 /\ \A p \in Runs : run'[p].exec = e => run[p].exec = e
    <2>1. CASE \E r \in Runs : Unheard(r)
        <3> PICK r \in Runs : Unheard(r)
            BY <2>1
        <3>1. \A p \in Runs : run'[p].exec \in Executions => run'[p].exec = run[p].exec
            BY <1>1, UnheardMoves DEF Idle
        <3> QED
            BY <1>1, <3>1, UnheardMoves DEF LoopInv, LoopTypes
    <2>2. CASE \E r \in Runs, e \in Executions : Accept(r, e)
        <3> PICK r \in Runs, d \in Executions : Accept(r, d)
            BY <2>2
        <3>1. \A e \in Executions : started[e] \in Nat
            BY <1>1 DEF LoopInv, LoopTypes
        <3> QED
            BY <1>1, <3>1, CallBegins
    <2>3. CASE UNCHANGED loopVars
        BY <1>1, <2>3 DEF loopVars, LoopInv, LoopTypes
    <2>4. CASE Crash
        BY <1>1, <2>4, CrashEnds DEF LoopInv, LoopTypes
    <2> QED
        BY <2>1, <2>2, <2>3, <2>4
<1>4. \A i \in 0..Size(c) : Told(c, i).exec \in Executions =>
        started[Told(c, i).exec] # 0 /\ started'[Told(c, i).exec] # 0
    BY <1>1, <1>3 DEF OrderInv
<1>5. ASSUME AllSteps(c), NEW i \in 0..Size(c), NEW j \in 0..Size(c), i < j,
             Successive(c, i, j)'
      PROVE  Follows(Told(c, i), Told(c, j))
    <2>1. Successive(c, i, j)
        BY <1>2, <1>3, <1>4, <1>5 DEF Successive
    <2> QED
        BY <1>1, <1>5, <2>1 DEF OrderInv
<1>6. ASSUME client'[c].pc = "stream", AllSteps(c), NEW i \in 0..Size(c), Newest(c, i)',
             NEW p \in Runs, run'[p].exec = Told(c, i).exec
      PROVE  Knows(c, Told(c, i), run'[p])
    <2>1. Newest(c, i) /\ run[p].exec = Told(c, i).exec
        BY <1>2, <1>3, <1>4, <1>6 DEF Newest
    <2>2. client[c].pc = "stream" /\ Knows(c, Told(c, i), run[p])
        BY <1>1, <1>6, <2>1 DEF OrderInv, NothingNews
    <2>3. Told(c, i).exec \in Executions
        BY <2>1 DEF Newest
    <2>4. CASE \E r \in Runs : Unheard(r)
        BY <1>1, <1>6, <2>2, <2>3, <2>4, UpToKept DEF Knows
    <2>5. CASE \E r \in Runs, e \in Executions : Accept(r, e)
        <3> PICK r \in Runs, d \in Executions : Accept(r, d)
            BY <2>5
        <3>1. p # r
            BY <1>1, <2>1, <2>3, CallBegins DEF Idle
        <3> QED
            BY <1>1, <2>2, <3>1, CallBegins
    <2>6. CASE UNCHANGED loopVars
        BY <2>2, <2>6 DEF loopVars
    <2>7. CASE Crash
        BY <1>1, <2>1, <2>3, <2>7, CrashEnds DEF Knows
    <2> QED
        BY <2>4, <2>5, <2>6, <2>7
<1>7. missed' = missed
    BY DEF NothingNews
<1> QED
    BY <1>1, <1>2, <1>4, <1>5, <1>6, <1>7
    DEF OrderInv, NothingNews, AllSteps, Knows, Follows, UpTo

\* A run tells its event and goes on: who listens has it at the end of what it is told.
LEMMA ToldKept ==
    ASSUME Ordered, IInv', NEW c \in Clients, NEW r \in Runs, run[r].exec \in Executions,
           NEW event \in Events, NEW direct \in SUBSET caller[r], Tell(r, event, direct),
           started' = started, \A p \in Runs : run'[p].exec = run[p].exec,
           event.exec \in {run[r].exec, NoExec},
           \* what the event says of the run, before and after the step
           event.exec = NoExec => run' = run,
           event.exec # NoExec =>
               /\ run[r].pc \notin {"reply", "reset"} /\ event.type \in {"step_done", "finished"}
               /\ \A before : UpTo(before, run[r]) => Follows(before, event)
               /\ UpTo(event, run'[r])
               /\ \A p \in Runs \ {r} : run'[p] = run[p]
    PROVE  OrderInv(c)'
<1> DEFINE d == run[r].exec
<1>1. IInv /\ OrderInv(c) /\ event # NoEvent /\ started[d] # 0
    <2>1. event # NoEvent
        BY DEF Events, NoEvent
    <2>2. started[d] # 0
        BY DEF Ordered, IInv, OnceInv
    <2> QED
        BY <2>1, <2>2 DEF Ordered
<1>2. ASSUME started[d] = 1, NEW p \in Runs, run[p].exec = d
      PROVE  p = r
    BY <1>1, <1>2 DEF IInv, OnceInv
<1>3. CASE client'[c].pc = "stream" /\ client'[c].buffer = Append(client[c].buffer, event)
    <2> PICK n \in Nat : n = Size(c)
        BY <1>1, ToldTypes
    <2>1. /\ client[c].pc = "stream" /\ client'[c].exec = client[c].exec
          /\ client'[c].last = client[c].last
          /\ WorkflowOf[client[c].exec] = WorkflowOf[d]
        <3>1. client[c].buffer \in Seq(Events)
            BY <1>1, ToldTypes DEF ClientRecord
        <3>2. client'[c].buffer # client[c].buffer
            BY <1>3, <3>1
        <3> QED
            BY <1>1, <1>3, <3>2, TellFacts
    <2>0. (AllSteps(c)' => AllSteps(c)) /\ missed \subseteq missed'
        BY <1>1, TellMisses DEF AllSteps
    <2>2. /\ n \in Nat /\ Size(c)' = n + 1 /\ Told(c, n + 1)' = event
          /\ \A i \in 0..n : Told(c, i)' = Told(c, i)
        <3>1. client[c].buffer \in Seq(Events)
            BY <1>1, ToldTypes DEF ClientRecord
        <3> QED
            BY <1>3, <2>1, <3>1 DEF Size, Told
    <2>3. ASSUME AllSteps(c), NEW i \in 0..(n + 1), NEW j \in 0..(n + 1), i < j,
                 Successive(c, i, j)'
          PROVE  Follows(Told(c, i)', Told(c, j)')
        <3>1. i \in 0..n
            BY <2>2, <2>3
        <3>2. CASE j \in 0..n
            <4>1. \A k \in (i + 1)..(j - 1) : k \in 0..n
                BY <2>2, <3>1, <3>2
            <4>2. Successive(c, i, j)
                BY <2>2, <2>3, <3>1, <3>2, <4>1 DEF Successive
            <4> QED
                BY <1>1, <2>2, <2>3, <3>1, <3>2, <4>2 DEF OrderInv
        <3>3. CASE j = n + 1
            <4>1. /\ Told(c, i).exec \in Executions /\ started[Told(c, i).exec] = 1
                  /\ Told(c, i).exec = event.exec
                BY <2>2, <2>3, <3>1, <3>3 DEF Successive
            <4>2. event.exec = d /\ event.exec # NoExec
                BY <4>1
            <4>3. \A k \in (i + 1)..n : k \in (i + 1)..(j - 1) /\ k \in 0..n
                BY <2>2, <3>1, <3>3
            <4>4. Newest(c, i)
                BY <2>2, <2>3, <3>1, <4>1, <4>3 DEF Newest, Successive
            <4>5. UpTo(Told(c, i), run[r])
                BY <1>1, <2>1, <2>3, <3>1, <4>1, <4>2, <4>4 DEF OrderInv, Knows
            <4> QED
                BY <2>2, <3>1, <3>3, <4>2, <4>5
        <3> QED
            BY <2>2, <3>2, <3>3
    <2>4. ASSUME AllSteps(c), NEW i \in 0..(n + 1), Newest(c, i)', NEW p \in Runs,
                 run'[p].exec = Told(c, i)'.exec
          PROVE  Knows(c, Told(c, i), run[p])'
        <3>1. CASE i = n + 1
            <4>1. event.exec = d /\ event.exec # NoExec /\ started[d] = 1
                BY <2>2, <2>4, <3>1 DEF Newest
            <4>2. p = r
                BY <1>2, <2>2, <2>4, <3>1, <4>1
            <4> QED
                BY <2>2, <3>1, <4>1, <4>2 DEF Knows
        <3>2. CASE i \in 0..n
            <4>1. Told(c, i).exec # event.exec \/ event.exec = NoExec
                <5>1. n + 1 \in (i + 1)..(n + 1)
                    BY <2>2, <3>2
                <5> QED
                    BY <2>2, <2>4, <3>2, <5>1 DEF Newest
            <4>2. Newest(c, i)
                BY <2>2, <2>4, <3>2 DEF Newest
            <4>3. run[p].exec = Told(c, i).exec
                BY <2>2, <2>4, <3>2
            <4>4. Knows(c, Told(c, i), run[p])
                BY <1>1, <2>1, <2>4, <3>2, <4>2, <4>3 DEF OrderInv
            <4>5. run'[p] = run[p]
                BY <4>1, <4>3
            <4> QED
                BY <2>2, <2>0, <3>2, <4>4, <4>5 DEF Knows
        <3> QED
            BY <2>2, <3>1, <3>2
    <2>5. ASSUME NEW i \in 0..(n + 1), Told(c, i)'.exec \in Executions
          PROVE  /\ started[Told(c, i)'.exec] # 0
                 /\ WorkflowOf[Told(c, i)'.exec] = WorkflowOf[client'[c].exec]
        <3>1. CASE i = n + 1
            BY <1>1, <2>1, <2>2, <2>5, <3>1
        <3>2. CASE i \in 0..n
            BY <1>1, <2>1, <2>2, <2>5, <3>2 DEF OrderInv
        <3> QED
            BY <2>2, <3>1, <3>2
    <2> QED
        <3>1. /\ AllSteps(c)' => \A i, j \in 0..(n + 1) :
                   i < j /\ Successive(c, i, j)' => Follows(Told(c, i)', Told(c, j)')
              /\ AllSteps(c)' => \A i \in 0..(n + 1) : Newest(c, i)' =>
                   \A p \in Runs : run'[p].exec = Told(c, i)'.exec =>
                       Knows(c, Told(c, i), run[p])'
            BY <2>0, <2>3, <2>4
        <3>2. \A i \in 0..(n + 1) : \A p \in Runs :
                Knows(c, Told(c, i), run[p])' <=>
                    \/ UpTo(Told(c, i)', run'[p])
                    \/ run'[p].pc = "reply" /\ <<c, "finished">> \in missed'
                    \/ run'[p].pc = "reset"
            BY DEF Knows, UpTo
        <3> QED
            BY <1>3, <2>1, <2>2, <2>5, <3>1, <3>2 DEF OrderInv, Follows, Knows, UpTo
<1>4. CASE client'[c].pc # "stream"
    <2>1. Size(c)' = 0 /\ Told(c, 0)' = client'[c].last
        BY <1>4, ToldTypes DEF Size, Told, IInv, ClientInv
    <2>2. client'[c].pc = client[c].pc /\ client'[c].exec = client[c].exec
          /\ (client'[c].last = client[c].last \/ (client'[c].last = event /\ client[c].pc = "call"))
        BY <1>1, <1>4, TellFacts
    <2>3. client'[c].last.exec \in Executions => started[client'[c].last.exec] # 0
        BY <1>1, <2>2, ToldTypes DEF OrderInv
    <2>4. client'[c].pc \in {"free", "lookup", "subscribe"} => client'[c].last = NoEvent
        BY <1>1, <2>2 DEF OrderInv
    <2> QED
        BY <1>4, <2>1, <2>3, <2>4 DEF OrderInv
<1>5. CASE /\ client'[c] = client[c] /\ client[c].pc = "stream"
           /\ Listens(c, d) => <<c, event.type>> \in missed'
    <2>1. /\ Size(c)' = Size(c) /\ \A i : Told(c, i)' = Told(c, i)
          /\ missed \subseteq missed' /\ (AllSteps(c)' => AllSteps(c))
        BY <1>1, <1>5, TellMisses DEF Size, Told, AllSteps
    <2>2. ASSUME AllSteps(c), NEW i \in 0..Size(c), NEW j \in 0..Size(c), i < j,
                 Successive(c, i, j)'
          PROVE  Follows(Told(c, i), Told(c, j))
        <3>1. Successive(c, i, j)
            BY <2>1, <2>2 DEF Successive
        <3> QED
            BY <1>1, <2>2, <3>1 DEF OrderInv
    <2>3. ASSUME AllSteps(c)', NEW i \in 0..Size(c), Newest(c, i)', NEW p \in Runs,
                 run'[p].exec = Told(c, i).exec
          PROVE  Knows(c, Told(c, i), run[p])'
        <3>1. Newest(c, i) /\ run[p].exec = Told(c, i).exec
            BY <2>1, <2>3 DEF Newest
        <3>2. Knows(c, Told(c, i), run[p]) /\ Told(c, i).exec \in Executions
            BY <1>1, <1>5, <2>1, <2>3, <3>1 DEF OrderInv, Newest
        <3>3. CASE run'[p] = run[p]
            BY <2>1, <3>2, <3>3 DEF Knows
        \* It is the run that has told: the listener has missed its end, not a step.
        <3>4. CASE run'[p] # run[p]
            <4>1. p = r /\ event.exec = d /\ event.exec # NoExec
                BY <3>4
            <4>2. Listens(c, d)
                BY <1>1, <1>5, <3>1, <3>2, <4>1 DEF OrderInv, Listens
            <4>3. <<c, event.type>> \in missed' /\ event.type = "finished"
                BY <1>5, <2>3, <4>1, <4>2 DEF AllSteps
            <4> QED
                BY <4>1, <4>3 DEF Knows, UpTo
        <3> QED
            BY <3>3, <3>4
    <2> QED
        BY <1>1, <1>5, <2>1, <2>2, <2>3 DEF OrderInv, Follows, Knows, UpTo
<1>6. \/ client'[c].pc = "stream" /\ client'[c].buffer = Append(client[c].buffer, event)
      \/ client'[c].pc # "stream"
      \/ /\ client'[c] = client[c] /\ client[c].pc = "stream"
         /\ Listens(c, d) => <<c, event.type>> \in missed'
    BY <1>1, TellFacts, TellMisses
<1> QED
    BY <1>3, <1>4, <1>5, <1>6

\* A client that is not subscribed has been told one event at most.
LEMMA OneTold ==
    ASSUME IInv', NEW c \in Clients, client'[c].pc # "stream",
           client'[c].last.exec \in Executions => started'[client'[c].last.exec] # 0,
           client'[c].pc \in {"free", "lookup", "subscribe"} => client'[c].last = NoEvent
    PROVE  OrderInv(c)'
<1>1. client'[c].buffer = <<>>
    BY DEF IInv, ClientInv
<1>2. Size(c)' = 0 /\ Told(c, 0)' = client'[c].last
    BY <1>1 DEF Size, Told
<1> QED
    BY <1>2 DEF OrderInv

\* The steps of a client itself.
LEMMA ClientOrder ==
    ASSUME Ordered, IInv', NEW c \in Clients, UNCHANGED loopVars,
           NEW d, Handler(c) \/ TimeOut(c) \/ Disconnect(c) \/ Connect(c, d)
    PROVE  \A q \in Clients : OrderInv(q)'
<1>1. /\ client \in [Clients -> ClientRecord] /\ client[c] \in ClientRecord
      /\ IInv /\ OrderInv(c) /\ started' = started /\ run' = run /\ missed' = missed
    BY ToldTypes DEF Ordered, IInv, StreamTypes, loopVars, Handler, Lookup, LookupFails,
       Subscribe, Forward, TimeOut, Disconnect, Connect
<1>2. ASSUME NEW q \in Clients, q # c
      PROVE  OrderInv(q)'
    <2>1. client'[q] = client[q]
        BY <1>1, <1>2 DEF Handler, Lookup, LookupFails, Subscribe, Forward, TimeOut,
           Disconnect, Connect
    <2>2. NothingNews(q)
        BY <1>1, <2>1 DEF NothingNews
    <2> QED
        BY <2>2, UntoldKept
<1>3. client[c].last.exec \in Executions => started[client[c].last.exec] # 0
    BY <1>1, ToldTypes DEF OrderInv
<1>4. CASE Lookup(c)
    <2> DEFINE e == client[c].exec
    <2>1. client[c].last = NoEvent
        BY <1>1, <1>4 DEF Lookup, OrderInv
    <2>2. CASE status[e] \in Terminal
        <3>1. client'[c] = [client[c] EXCEPT !.pc = "ended", !.last = EndEvent(e, status[e])]
            BY <1>1, <1>4, <2>2 DEF Lookup
        <3>2. client'[c].pc = "ended" /\ client'[c].last = EndEvent(e, status[e])
            BY <1>1, <3>1 DEF ClientRecord
        <3>3. EventInv(client[c].last)'
            BY DEF IInv, ClientInv, Heard
        <3>4. started'[client'[c].last.exec] # 0
            BY <3>2, <3>3 DEF EventInv, StatusKept, EndEvent
        <3> QED
            BY <1>2, <3>2, <3>4, OneTold
    <2>3. CASE status[e] \notin Terminal
        <3>1. client'[c] = [client[c] EXCEPT !.pc = "subscribe"]
            BY <1>1, <1>4, <2>3 DEF Lookup
        <3>2. client'[c].pc = "subscribe" /\ client'[c].last = client[c].last
            BY <1>1, <3>1 DEF ClientRecord
        <3> QED
            BY <1>1, <1>2, <1>3, <2>1, <3>2, OneTold
    <2> QED
        BY <2>2, <2>3
<1>5. CASE Subscribe(c)
    <2>1. /\ client'[c].last = client[c].last /\ client'[c].buffer = client[c].buffer
          /\ client[c].pc = "subscribe"
        BY <1>1, <1>5 DEF Subscribe, ClientRecord
    <2>2. Size(c)' = 0 /\ Told(c, 0)' = NoEvent
        BY <1>1, <2>1, ToldTypes DEF Size, Told, OrderInv
    <2>3. client'[c].pc = "stream"
        BY <1>1, <1>5 DEF Subscribe, ClientRecord
    <2> QED
        BY <1>2, <2>2, <2>3 DEF OrderInv, Newest, NoEvent
<1>6. CASE Forward(c)
    <2> DEFINE event == Head(client[c].buffer)
    <2>1. /\ client[c].buffer \in Seq(Events) /\ client[c].buffer # <<>> /\ client[c].pc = "stream"
          /\ event = client[c].buffer[1] /\ Len(client[c].buffer) \in Nat \ {0}
        BY <1>1, <1>6 DEF Forward, ClientRecord
    <2>2. /\ client'[c].pc = IF IsFinished(event) THEN "ended" ELSE "stream"
          /\ client'[c].last = event /\ client'[c].exec = client[c].exec
          /\ client'[c].buffer = IF IsFinished(event) THEN <<>> ELSE Tail(client[c].buffer)
        BY <1>1, <1>6, <2>1 DEF Forward, ClientRecord
    <2> PICK n \in Nat \ {0} : n = Size(c)
        BY <2>1 DEF Size
    <2>3. event = Told(c, 1) /\ 1 \in 0..n
        BY <2>1 DEF Told
    <2>4. CASE IsFinished(event)
        <3>1. event.exec \in Executions => started[event.exec] # 0
            BY <1>1, <2>3 DEF OrderInv
        <3> QED
            BY <1>1, <1>2, <2>2, <2>4, <3>1, OneTold
    <2>5. CASE ~IsFinished(event)
        <3>1. /\ Size(c)' = n - 1 /\ n - 1 \in Nat
              /\ \A i \in 0..(n - 1) : i + 1 \in 0..n /\ Told(c, i)' = Told(c, i + 1)
            BY <2>1, <2>2, <2>3, <2>5 DEF Size, Told
        <3>2. ASSUME AllSteps(c), NEW i \in 0..(n - 1), NEW j \in 0..(n - 1), i < j,
                     Successive(c, i, j)'
              PROVE  Follows(Told(c, i)', Told(c, j)')
            <4>1. /\ Told(c, i + 1).exec \in Executions /\ started[Told(c, i + 1).exec] = 1
                  /\ Told(c, j + 1).exec = Told(c, i + 1).exec
                BY <1>1, <3>1, <3>2 DEF Successive
            <4>2. ASSUME NEW k \in (i + 2)..j
                  PROVE  Told(c, k).exec # Told(c, i + 1).exec
                <5>1. k - 1 \in (i + 1)..(j - 1) /\ k - 1 \in 0..(n - 1) /\ (k - 1) + 1 = k
                    OBVIOUS
                <5>2. Told(c, k - 1)'.exec # Told(c, i)'.exec
                    BY <3>2, <5>1 DEF Successive
                <5> QED
                    BY <3>1, <5>1, <5>2
            <4>3. Successive(c, i + 1, j + 1)
                <5>1. (i + 1) + 1 = i + 2 /\ (j + 1) - 1 = j
                    OBVIOUS
                <5> QED
                    BY <4>1, <4>2, <5>1 DEF Successive
            <4>4. i + 1 \in 0..n /\ j + 1 \in 0..n /\ i + 1 < j + 1
                BY <3>2
            <4> QED
                BY <1>1, <3>1, <3>2, <4>3, <4>4 DEF OrderInv
        <3>3. ASSUME AllSteps(c), NEW i \in 0..(n - 1), Newest(c, i)', NEW p \in Runs,
                     run'[p].exec = Told(c, i)'.exec
              PROVE  Knows(c, Told(c, i), run[p])'
            <4>1. Told(c, i + 1).exec \in Executions /\ started[Told(c, i + 1).exec] = 1
                BY <1>1, <3>1, <3>3 DEF Newest
            <4>2. ASSUME NEW k \in (i + 2)..n
                  PROVE  Told(c, k).exec # Told(c, i + 1).exec
                <5>1. k - 1 \in (i + 1)..(n - 1) /\ k - 1 \in 0..(n - 1) /\ (k - 1) + 1 = k
                    OBVIOUS
                <5>2. Told(c, k - 1)'.exec # Told(c, i)'.exec
                    BY <3>1, <3>3, <5>1 DEF Newest
                <5> QED
                    BY <3>1, <5>1, <5>2
            <4>3. Newest(c, i + 1)
                <5>1. (i + 1) + 1 = i + 2
                    OBVIOUS
                <5> QED
                    BY <4>1, <4>2, <5>1 DEF Newest
            <4> QED
                <5>1. Knows(c, Told(c, i + 1), run[p])
                    BY <1>1, <2>1, <3>1, <3>3, <4>3 DEF OrderInv
                <5> QED
                    BY <1>1, <3>1, <3>3, <5>1 DEF Knows
        <3>4. client'[c].pc = "stream"
            BY <2>2, <2>5
        <3>5. ASSUME NEW i \in 0..(n - 1), Told(c, i)'.exec \in Executions
              PROVE  /\ started'[Told(c, i)'.exec] # 0
                     /\ WorkflowOf[Told(c, i)'.exec] = WorkflowOf[client'[c].exec]
            BY <1>1, <2>1, <2>2, <3>1, <3>5 DEF OrderInv
        <3> QED
            <4>1. AllSteps(c)' <=> AllSteps(c)
                BY <1>1 DEF AllSteps
            <4>2. /\ AllSteps(c)' => \A i, j \in 0..(n - 1) :
                       i < j /\ Successive(c, i, j)' => Follows(Told(c, i)', Told(c, j)')
                  /\ AllSteps(c)' => \A i \in 0..(n - 1) : Newest(c, i)' =>
                       \A p \in Runs : run'[p].exec = Told(c, i)'.exec =>
                           Knows(c, Told(c, i), run[p])'
                BY <3>2, <3>3, <4>1
            <4>3. OrderInv(c)'
                BY <3>1, <3>4, <3>5, <4>2 DEF OrderInv, Knows, Follows, UpTo
            <4> QED
                BY <1>2, <4>3
    <2> QED
        BY <2>4, <2>5
<1>7. CASE Disconnect(c)
    <2>1. client'[c].pc = "left" /\ client'[c].last = client[c].last
        BY <1>1, <1>7 DEF Disconnect, ClientRecord
    <2> QED
        BY <1>1, <1>2, <1>3, <2>1, OneTold
<1>8. CASE Connect(c, d)
    <2>1. client'[c] = [client[c] EXCEPT !.pc = "lookup", !.exec = d] /\ client[c].pc = "free"
        BY <1>1, <1>8 DEF Connect
    <2>2. client'[c].pc = "lookup" /\ client'[c].last = client[c].last
        BY <1>1, <2>1 DEF ClientRecord
    <2> QED
        <3>1. client[c].last = NoEvent
            BY <1>1, <2>1 DEF OrderInv
        <3> QED
            BY <1>1, <1>2, <1>3, <2>2, <3>1, OneTold
<1>9. CASE LookupFails(c) \/ TimeOut(c)
    <2>1. client'[c].pc = "cut" /\ client'[c].last = client[c].last
        BY <1>1, <1>9 DEF LookupFails, TimeOut, ClientRecord
    <2> QED
        BY <1>1, <1>2, <1>3, <2>1, OneTold
<1> QED
    BY <1>2, <1>4, <1>5, <1>6, <1>7, <1>8, <1>9 DEF Handler

\* Every step keeps the order of what the clients are told.
LEMMA NextOrder == Ordered /\ [Next]_vars /\ IInv' => Ordered'
<1> SUFFICES ASSUME Ordered, [Next]_vars, IInv', NEW c \in Clients PROVE OrderInv(c)'
    BY DEF Ordered
<1>1. LoopInv /\ IInv /\ client[c] \in ClientRecord
    BY ToldTypes DEF Ordered, IInv
<1>2. ASSUME NEW r \in Runs, RunOn(r)
      PROVE  OrderInv(c)'
    <2>1. run \in [Runs -> LoopRun] /\ run[r] \in LoopRun /\ PhaseInv(run[r])
        BY <1>1, RunFacts DEF LoopInv, LoopTypes, LoopTypeOK
    <2>2. CASE Silent(r) /\ UNCHANGED <<client, caller, said, missed>>
        <3>1. NothingNews(c)
            BY <2>2 DEF NothingNews
        <3> QED
            BY <2>2, <3>1, UntoldKept DEF Unheard
    <2>3. CASE Speak(r)
        <3>1. run[r].exec \in Executions /\ TokenEvent(r) \in Events /\ TokenEvent(r).exec = NoExec
            BY <2>1, <2>3 DEF Speak, PhaseInv, TokenEvent, Events
        <3> PICK event \in Events : event = TokenEvent(r)
            BY <3>1
        <3>2. /\ Tell(r, event, {}) /\ {} \in SUBSET caller[r] /\ started' = started /\ run' = run
              /\ event.exec = NoExec
            BY <2>3, <3>1 DEF Speak, loopVars
        <3> QED
            BY <3>1, <3>2, ToldKept
    <2>4. CASE \E outcome \in Terminal : Perform(r, outcome)
        <3>1. NothingNews(c)
            BY <2>4 DEF Perform, NothingNews
        <3>2. Unheard(r)
            BY <2>4 DEF Perform, Unheard
        <3> QED
            BY <3>1, <3>2, UntoldKept
    <2>5. CASE StepDone(r) /\ Tell(r, StepEvent(r), caller[r]) /\ UNCHANGED <<caller, said>>
        <3>1. /\ run[r].exec \in Executions /\ run[r].at \in 1..NumSteps
              /\ run[r].outcome \in Terminal /\ run[r].pc = "event"
            BY <2>1, <2>5 DEF StepDone, PhaseInv
        <3>2. StepEvent(r) \in Events
            BY <3>1 DEF StepEvent, Events
        <3> PICK event \in Events : event = StepEvent(r)
            BY <3>2
        <3>3. /\ event.type = "step_done" /\ event.exec = run[r].exec /\ event.at = run[r].at
              /\ event.status = run[r].outcome /\ event.exec # NoExec
            BY <3>1 DEF StepEvent
        <3>4. /\ started' = started /\ \A p \in Runs \ {r} : run'[p] = run[p]
              /\ run'[r] = IF LastStep(r) THEN [run[r] EXCEPT !.pc = "finish"]
                           ELSE [run[r] EXCEPT !.pc = "step", !.at = run[r].at + 1]
            BY <2>1, <2>5 DEF StepDone
        <3>5. run'[r].exec = run[r].exec /\ UpTo(event, run'[r])
            <4>1. CASE LastStep(r)
                BY <2>1, <3>3, <3>4, <4>1 DEF LoopRun, UpTo, LastStep
            <4>2. CASE ~LastStep(r)
                <5>1. run'[r] = [run[r] EXCEPT !.pc = "step", !.at = run[r].at + 1]
                    BY <3>4, <4>2
                <5>2. run'[r].pc = "step" /\ run'[r].at = run[r].at + 1 /\ run'[r].exec = run[r].exec
                    BY <2>1, <5>1 DEF LoopRun
                <5> QED
                    BY <3>1, <3>3, <4>2, <5>2 DEF UpTo, LastStep, Terminal
            <4> QED
                BY <4>1, <4>2
        <3>6. \A before : UpTo(before, run[r]) => Follows(before, event)
            BY <3>1, <3>3 DEF UpTo, Follows
        <3>7. caller[r] \in SUBSET caller[r] /\ Tell(r, event, caller[r])
            BY <2>5
        <3> QED
            BY <3>1, <3>3, <3>4, <3>5, <3>6, <3>7, ToldKept
    <2>6. CASE /\ Announce(r) /\ Tell(r, EndEvent(run[r].exec, run[r].outcome), caller[r])
               /\ UNCHANGED <<caller, said>>
        <3>1. run[r].exec \in Executions /\ run[r].outcome \in Terminal /\ run[r].pc = "announce"
            BY <2>1, <2>6 DEF Announce, PhaseInv, Terminal
        <3>2. EndEvent(run[r].exec, run[r].outcome) \in Events
            BY <3>1 DEF EndEvent, Events
        <3> PICK event \in Events : event = EndEvent(run[r].exec, run[r].outcome)
            BY <3>2
        <3>3. /\ event.type = "finished" /\ event.exec = run[r].exec /\ event.exec # NoExec
              /\ event.status = run[r].outcome
            BY <3>1 DEF EndEvent
        <3>4. /\ started' = started /\ \A p \in Runs \ {r} : run'[p] = run[p]
              /\ run'[r] = [run[r] EXCEPT !.pc = "reply"]
            BY <2>1, <2>6 DEF Announce
        <3>5. run'[r].exec = run[r].exec /\ run'[r].pc = "reply"
            BY <2>1, <3>4 DEF LoopRun
        <3>6. UpTo(event, run'[r]) /\ \A before : UpTo(before, run[r]) => Follows(before, event)
            BY <3>1, <3>3, <3>5 DEF UpTo, Follows
        <3>7. caller[r] \in SUBSET caller[r] /\ Tell(r, event, caller[r])
            BY <2>6
        <3> QED
            BY <3>1, <3>3, <3>4, <3>5, <3>6, <3>7, ToldKept
    <2>7. CASE Return(r) /\ UNCHANGED <<said, missed>>
        <3>1. \/ client'[c] = client[c]
              \/ client'[c] = [client[c] EXCEPT !.pc = "ended"]
              \/ client'[c] = [client[c] EXCEPT !.pc = "cut"]
            BY <2>7 DEF Return
        <3>2. NothingNews(c)
            BY <1>1, <2>7, <3>1 DEF ClientRecord, NothingNews
        <3> QED
            BY <2>7, <3>2, UntoldKept DEF Unheard, Return
    <2> QED
        BY <1>2, <2>2, <2>3, <2>4, <2>5, <2>6, <2>7 DEF RunOn
<1>3. ASSUME NEW r \in Runs, NEW e \in Executions, Call(r, e)
      PROVE  OrderInv(c)'
    <2>1. \/ client'[c] = client[c]
          \/ client[c].pc = "free" /\ client'[c] = [client[c] EXCEPT !.pc = "call", !.exec = e]
        BY <1>1, <1>3 DEF Call, Ordered, IInv, StreamTypes
    <2>2. NothingNews(c)
        BY <1>1, <1>3, <2>1 DEF ClientRecord, NothingNews, Call
    <2> QED
        BY <1>3, <2>2, UntoldKept DEF Call
<1>4. ASSUME NEW q \in Clients,
             Handler(q) \/ TimeOut(q) \/ Disconnect(q) \/ \E e \in Executions : Connect(q, e)
      PROVE  OrderInv(c)'
    <2>1. UNCHANGED loopVars
        BY <1>4 DEF Handler, Lookup, LookupFails, Subscribe, Forward, TimeOut, Disconnect, Connect
    <2> QED
        BY <1>4, <2>1, ClientOrder
<1>5. CASE UNCHANGED vars
    <2>1. NothingNews(c) /\ UNCHANGED loopVars
        BY <1>5 DEF vars, NothingNews
    <2> QED
        BY <2>1, UntoldKept
<1>6. CASE EngineDies
    <2>1. NothingNews(c) /\ Crash
        BY <1>6 DEF EngineDies, NothingNews
    <2> QED
        BY <2>1, UntoldKept
<1> QED
    BY <1>2, <1>3, <1>4, <1>5, <1>6 DEF Next

\* The events of an execution that is run once reach a client as one story (EventsFollow).
THEOREM OneStory == Spec => []EventsFollow
<1>1. Init => \A c \in Clients : OrderInv(c)
    <2> SUFFICES ASSUME Init, NEW c \in Clients PROVE OrderInv(c)
        OBVIOUS
    <2>1. /\ client[c] = [pc |-> "free", exec |-> NoExec, buffer |-> <<>>, last |-> NoEvent]
        BY DEF Init
    <2>2. Size(c) = 0 /\ Told(c, 0) = NoEvent
        BY <2>1 DEF Size, Told
    <2> QED
        BY <2>1, <2>2 DEF OrderInv, NoEvent
<1>2. Ordered => EventsFollow
    BY DEF Ordered, OrderInv, EventsFollow, Size, AllSteps
<1>3. IInv /\ (\A c \in Clients : OrderInv(c)) => Ordered
    BY DEF Ordered
<1> QED
    BY <1>1, <1>2, <1>3, Invariance, NextOrder, PTL DEF Spec
-----------------------------------------------------------------------------
(* The refinement.                                                           *)

\* A run as Engine sees it.
View == [p \in Runs |-> EngineRun(run[p])]
Seen(pc, e, result) == [pc |-> pc, exec |-> e, result |-> result, attached |-> pc # "idle"]

BusyPhases == {"load", "start", "steps", "reply", "reset"}

\* The phases one by one, for the steps below.
LEMMA BusyFacts ==
    /\ "load" \in BusyPhases /\ "start" \in BusyPhases /\ "steps" \in BusyPhases
    /\ "reply" \in BusyPhases /\ "reset" \in BusyPhases
BY DEF BusyPhases

\* Engine sees the loop and the status write as one phase, and the answer as another.
LEMMA ViewOfRun ==
    ASSUME NEW x \in LoopRun, x.pc # "idle"
    PROVE  EngineRun(x) =
             IF x.pc \in Midway THEN Seen("steps", x.exec, "none")
             ELSE IF x.pc \in {"announce", "reply"} THEN Seen("reply", x.exec, x.outcome)
             ELSE Seen(x.pc, x.exec, "none")
<1>1. CASE x.pc \in Midway
    BY <1>1 DEF EngineRun, Seen, Midway
<1>2. CASE x.pc \in {"announce", "reply"}
    BY <1>2 DEF EngineRun, Seen, Midway
<1>3. CASE x.pc \notin Midway \cup {"announce", "reply"}
    BY <1>3 DEF EngineRun, Seen, Midway
<1> QED
    BY <1>1, <1>2, <1>3

\* It changes where the run moves.
LEMMA ViewMoves ==
    ASSUME IInv, NEW r \in Runs, run' = [run EXCEPT ![r] = run'[r]]
    PROVE  View' = [View EXCEPT ![r] = EngineRun(run'[r])]
BY DEF IInv, LoopInv, LoopTypes, LoopTypeOK, View

\* A record of Engine that moves on without its answer.
LEMMA SeenMoves ==
    ASSUME NEW p \in BusyPhases, NEW q \in BusyPhases, NEW e, NEW x
    PROVE  [Seen(p, e, x) EXCEPT !.pc = q] = Seen(q, e, x)
BY DEF Seen, BusyPhases

\* What Engine sees of a run when it has its answer.
LEMMA SeenAnswered ==
    ASSUME NEW e, NEW x
    PROVE  /\ [Seen("load", e, "none") EXCEPT !.pc = "reply", !.result = x] = Seen("reply", e, x)
           /\ [Seen("steps", e, "none") EXCEPT !.pc = "reply", !.result = x] = Seen("reply", e, x)
<1>1. ASSUME NEW p \in BusyPhases
      PROVE  [Seen(p, e, "none") EXCEPT !.pc = "reply", !.result = x] = Seen("reply", e, x)
    <2>1. [Seen(p, e, "none") EXCEPT !.pc = "reply", !.result = x]
            = [[Seen(p, e, "none") EXCEPT !.pc = "reply"] EXCEPT !.result = x]
        OBVIOUS
    <2>2. [Seen(p, e, "none") EXCEPT !.pc = "reply"] = Seen("reply", e, "none")
        BY SeenMoves DEF BusyPhases
    <2>3. [Seen("reply", e, "none") EXCEPT !.result = x] = Seen("reply", e, x)
        BY DEF Seen
    <2> QED
        BY <2>1, <2>2, <2>3
<1> QED
    BY <1>1, Zenon DEF BusyPhases

\* What Engine sees of a run when the engine has died.
LEMMA SeenReset ==
    ASSUME NEW p \in BusyPhases, NEW e, NEW x
    PROVE  [Seen(p, e, x) EXCEPT !.pc = "reset", !.result = "none"] = Seen("reset", e, "none")
<1>1. [Seen(p, e, x) EXCEPT !.pc = "reset", !.result = "none"]
        = [[Seen(p, e, x) EXCEPT !.pc = "reset"] EXCEPT !.result = "none"]
    OBVIOUS
<1>2. [Seen(p, e, x) EXCEPT !.pc = "reset"] = Seen("reset", e, x)
    BY SeenMoves DEF BusyPhases
<1>3. [Seen("reset", e, x) EXCEPT !.result = "none"] = Seen("reset", e, "none")
    BY DEF Seen
<1> QED
    BY <1>1, <1>2, <1>3

\* A run at work is seen as attached: no caller is lost in this module.
LEMMA SeenAttached ==
    ASSUME NEW p \in BusyPhases, NEW e, NEW x
    PROVE  Seen(p, e, x).attached
BY DEF Seen, BusyPhases

\* Every step of the loop is a step of Engine, or none.
LEMMA StepMaps ==
    ASSUME IInv, NEW r \in Runs, LoopStep(r)
    PROVE  EngineView!EngineNext \/ UNCHANGED EngineView!engineVars
<1>1. /\ run \in [Runs -> LoopRun] /\ run[r] \in LoopRun /\ PhaseInv(run[r])
      /\ status \in [Executions -> Statuses \ {"none"}]
    BY RunFacts DEF IInv, LoopInv, LoopTypes, LoopTypeOK
<1>2. View[r] = EngineRun(run[r]) /\ View = [View EXCEPT ![r] = View[r]]
    BY DEF View
<1>3. CASE \E e \in Executions : Accept(r, e)
    <2> PICK e \in Executions : Accept(r, e)
        BY <1>3
    <2> DEFINE x == [pc |-> "load", exec |-> e, at |-> 0, outcome |-> "none"]
    <2>1. run[r] = Idle /\ run'[r] = x /\ run' = [run EXCEPT ![r] = run'[r]]
        BY <1>1 DEF Accept, Idle
    <2>2. x \in LoopRun
        BY DEF LoopRun, LoopPhases
    <2>3. EngineRun(run[r]) = EngineView!Idle /\ EngineRun(x) = Seen("load", e, "none")
        <3>1. EngineRun(Idle) = EngineView!Idle
            BY DEF EngineRun, Idle, EngineView!Idle, Midway
        <3>2. x.pc = "load" /\ x.exec = e
            OBVIOUS
        <3> QED
            BY <2>1, <2>2, <3>1, <3>2, ViewOfRun DEF Midway
    <2>4. View' = [View EXCEPT ![r] = Seen("load", e, "none")]
        BY <2>1, <2>3, ViewMoves
    <2>5. EngineView!Accept(r, e)
        BY <1>2, <2>3, <2>4 DEF EngineView!Accept, Accept, View, Seen
    <2> QED
        BY <1>1, <2>5 DEF EngineView!EngineNext
<1>4. CASE Load(r)
    <2>1. run'[r] = [run[r] EXCEPT !.pc = "start"] /\ run' = [run EXCEPT ![r] = run'[r]]
        BY <1>1, <1>4 DEF Load
    <2>2. run'[r] \in LoopRun /\ run'[r].pc = "start" /\ run'[r].exec = run[r].exec
        BY <1>1, <2>1 DEF LoopRun, LoopPhases
    <2>3. View[r] = Seen("load", run[r].exec, "none") /\ run[r].exec \in Executions
        BY <1>1, <1>2, <1>4, ViewOfRun DEF Load, PhaseInv, Midway
    <2>4. View' = [View EXCEPT ![r] = Seen("start", run[r].exec, "none")]
        BY <2>1, <2>2, ViewMoves, ViewOfRun DEF Midway
    <2>5. [View EXCEPT ![r].pc = "start"] = [View EXCEPT ![r] = Seen("start", run[r].exec, "none")]
        <3>1. [View[r] EXCEPT !.pc = "start"] = Seen("start", run[r].exec, "none")
            BY <2>3, SeenMoves DEF BusyPhases
        <3> QED
            BY <3>1
    <2>6. View[r].pc = "load" /\ View[r].exec = run[r].exec
        BY <2>3 DEF Seen
    <2>7. EngineView!Load(r)
        BY <1>4, <2>3, <2>4, <2>5, <2>6 DEF EngineView!Load, Load, View
    <2> QED
        BY <2>7 DEF EngineView!EngineNext, EngineView!RunStep
<1>5. CASE \E written \in BOOLEAN : Start(r, written)
    <2> PICK written \in BOOLEAN : Start(r, written)
        BY <1>5
    <2>1. run' = [run EXCEPT ![r] = run'[r]] /\ run'[r] \in LoopRun
          /\ run'[r].pc \in {"step", "finish"} /\ run'[r].exec = run[r].exec
        <3>1. /\ run' = [run EXCEPT ![r] = run'[r]]
              /\ run'[r] = [run[r] EXCEPT !.pc = IF NumSteps = 0 THEN "finish" ELSE "step", !.at = 1,
                                           !.outcome = IF NumSteps = 0 THEN "success" ELSE "none"]
            BY <1>1 DEF Start
        <3>4. 1 \in 0..NumSteps + 1
            BY NumStepsAssumption
        <3>2. CASE NumSteps = 0
            <4>1. run'[r] = [run[r] EXCEPT !.pc = "finish", !.at = 1, !.outcome = "success"]
                BY <3>1, <3>2
            <4> QED
                BY <1>1, <3>1, <3>4, <4>1 DEF LoopRun, LoopPhases, Terminal
        <3>3. CASE NumSteps # 0
            <4>1. run'[r] = [run[r] EXCEPT !.pc = "step", !.at = 1, !.outcome = "none"]
                BY <3>1, <3>3
            <4> QED
                BY <1>1, <3>1, <3>4, <4>1 DEF LoopRun, LoopPhases, Terminal
        <3> QED
            BY <3>2, <3>3
    <2>2. View[r] = Seen("start", run[r].exec, "none")
        BY <1>1, <1>2, ViewOfRun DEF Start, Midway
    <2>3. View' = [View EXCEPT ![r] = Seen("steps", run[r].exec, "none")]
        BY <2>1, ViewMoves, ViewOfRun DEF Midway
    <2>4. EngineView!Start(r, written)
        <3>1. [View EXCEPT ![r].pc = "steps"] = [View EXCEPT ![r] = Seen("steps", run[r].exec, "none")]
            <4>1. [View[r] EXCEPT !.pc = "steps"] = Seen("steps", run[r].exec, "none")
                BY <2>2, SeenMoves DEF BusyPhases
            <4> QED
                BY <4>1
        <3>2. View[r].pc = "start" /\ View[r].exec = run[r].exec
            BY <2>2 DEF Seen
        <3>3. EngineView!WriteStatus(run[r].exec, "running", written)
            BY DEF EngineView!WriteStatus, EngineView!StillHurt, EngineView!Terminal, Start,
                   WriteStatus, StillHurt, Terminal
        <3> QED
            BY <2>3, <3>1, <3>2, <3>3 DEF EngineView!Start, View
    <2> QED
        BY <2>4 DEF EngineView!EngineNext, EngineView!RunStep
<1>6. CASE \E written \in BOOLEAN : Finish(r, written)
    <2> PICK written \in BOOLEAN : Finish(r, written)
        BY <1>6
    <2>1. run' = [run EXCEPT ![r] = run'[r]] /\ run'[r] \in LoopRun
          /\ run'[r].pc = "announce" /\ run'[r].exec = run[r].exec
          /\ run'[r].outcome = run[r].outcome /\ run[r].outcome \in Terminal
        BY <1>1 DEF Finish, LoopRun, LoopPhases, Terminal, PhaseInv
    <2>2. View[r] = Seen("steps", run[r].exec, "none")
        BY <1>1, <1>2, ViewOfRun DEF Finish, Midway
    <2>3. View' = [View EXCEPT ![r] = Seen("reply", run[r].exec, run[r].outcome)]
        BY <2>1, ViewMoves, ViewOfRun DEF Midway
    <2>4. EngineView!Finish(r, run[r].outcome, written)
        <3>1. EngineView!Answered(r, run[r].outcome) = Seen("reply", run[r].exec, run[r].outcome)
            <4>1. EngineView!Answered(r, run[r].outcome) =
                    IF View[r].attached
                    THEN [View[r] EXCEPT !.pc = "reply", !.result = run[r].outcome]
                    ELSE EngineView!Idle
                BY DEF EngineView!Answered, View
            <4>2. View[r].attached
                BY <2>2, BusyFacts, SeenAttached
            <4>3. [View[r] EXCEPT !.pc = "reply", !.result = run[r].outcome] =
                    Seen("reply", run[r].exec, run[r].outcome)
                BY <2>2, SeenAnswered
            <4> QED
                BY <4>1, <4>2, <4>3
        <3>2. View[r].pc = "steps" /\ View[r].exec = run[r].exec
            BY <2>2 DEF Seen
        <3>3. EngineView!WriteStatus(run[r].exec, run[r].outcome, written)
            BY DEF EngineView!WriteStatus, EngineView!StillHurt, EngineView!Terminal, Finish,
                   WriteStatus, StillHurt, Terminal
        <3> QED
            BY <2>3, <3>1, <3>2, <3>3 DEF EngineView!Finish, View
    <2>5. EngineView!RunStep(r)
        BY <2>1, <2>4 DEF EngineView!RunStep, Terminal, EngineView!Terminal
    <2> QED
        BY <2>5 DEF EngineView!EngineNext
<1>7. CASE Collect(r)
    <2>1. run' = [run EXCEPT ![r] = run'[r]] /\ run'[r] = Idle /\ Idle \in LoopRun
        BY <1>1, <1>7 DEF Collect, Idle, LoopRun, LoopPhases
    <2>2. View' = [View EXCEPT ![r] = EngineView!Idle]
        <3>1. EngineRun(Idle) = EngineView!Idle
            BY DEF EngineRun, Idle, EngineView!Idle, Midway
        <3> QED
            BY <2>1, <3>1, ViewMoves
    <2>3. CASE run[r].pc = "reply"
        <3>1. View[r] = Seen("reply", run[r].exec, run[r].outcome)
            BY <1>1, <1>2, <2>3, ViewOfRun DEF Midway
        <3>2. EngineView!Collect(r)
            BY <1>7, <2>2, <3>1 DEF EngineView!Collect, Collect, View, Seen
        <3> QED
            BY <3>2 DEF EngineView!EngineNext
    <2>4. CASE run[r].pc = "reset"
        <3>1. View[r] = Seen("reset", run[r].exec, "none")
            BY <1>1, <1>2, <2>4, ViewOfRun DEF Midway
        <3>2. View[r].attached /\ EngineView!WithoutCaller(r) = EngineView!Idle
            BY <3>1, SeenAttached DEF EngineView!WithoutCaller, View, BusyPhases, Seen
        <3>3. EngineView!Detach(r)
            BY <1>7, <2>2, <3>2 DEF EngineView!Detach, Collect, View
        <3> QED
            BY <3>3 DEF EngineView!EngineNext
    <2> QED
        BY <1>7, <2>3, <2>4 DEF Collect
<1>9. CASE LoadFails(r)
    <2>1. run'[r] = [run[r] EXCEPT !.pc = "reply", !.outcome = "error"] /\ run' = [run EXCEPT ![r] = run'[r]]
        BY <1>1, <1>9 DEF LoadFails
    <2>2. /\ run'[r] \in LoopRun /\ run'[r].pc = "reply" /\ run'[r].exec = run[r].exec
          /\ run'[r].outcome = "error"
        BY <1>1, <2>1 DEF LoopRun, LoopPhases
    <2>3. View[r] = Seen("load", run[r].exec, "none") /\ run[r].exec \in Executions
        BY <1>1, <1>2, <1>9, ViewOfRun DEF LoadFails, PhaseInv, Midway
    <2>4. View' = [View EXCEPT ![r] = Seen("reply", run[r].exec, "error")]
        BY <2>1, <2>2, ViewMoves, ViewOfRun DEF Midway
    <2>5. EngineView!Answered(r, "error") = Seen("reply", run[r].exec, "error")
        <3>1. EngineView!Answered(r, "error") =
                IF View[r].attached THEN [View[r] EXCEPT !.pc = "reply", !.result = "error"]
                ELSE EngineView!Idle
            BY DEF EngineView!Answered, View
        <3>2. View[r].attached
            BY <2>3, BusyFacts, SeenAttached
        <3>3. [View[r] EXCEPT !.pc = "reply", !.result = "error"] = Seen("reply", run[r].exec, "error")
            BY <2>3, SeenAnswered
        <3> QED
            BY <3>1, <3>2, <3>3
    <2>6. View[r].pc = "load" /\ View[r].exec = run[r].exec
        BY <2>3 DEF Seen
    <2>7. EngineView!LoadError(r)
        BY <1>9, <2>3, <2>4, <2>5, <2>6 DEF EngineView!LoadError, LoadFails, View
    <2> QED
        BY <2>7 DEF EngineView!EngineNext, EngineView!RunStep
<1>8. CASE StepDone(r) \/ Announce(r) \/ (\E outcome \in Terminal : RunStep(r, outcome))
             \/ \E written \in BOOLEAN : WriteLog(r, written)
    <2>1. run' = [run EXCEPT ![r] = run'[r]] /\ run'[r] \in LoopRun /\ run'[r].exec = run[r].exec
          /\ UNCHANGED <<status, hurt>>
          /\ \/ /\ run[r].pc \in Midway
                /\ run'[r].pc \in Midway
             \/ /\ run[r].pc = "announce" /\ run'[r].pc = "reply"
                /\ run'[r].outcome = run[r].outcome
        <3>1. CASE StepDone(r)
            <4>1. run[r].at + 1 \in 0..NumSteps + 1
                BY <1>1, <3>1 DEF StepDone, PhaseInv
            <4> QED
                BY <1>1, <3>1, <4>1 DEF StepDone, LoopRun, LoopPhases, Midway
        <3>2. CASE Announce(r)
            BY <1>1, <3>2 DEF Announce, LoopRun, LoopPhases, Midway
        <3>3. CASE \E outcome \in Terminal : RunStep(r, outcome)
            <4> PICK outcome \in Terminal : RunStep(r, outcome)
                BY <3>3
            <4>1. run[r].pc = "step" /\ UNCHANGED <<status, hurt>>
                BY DEF RunStep
            <4>2. /\ run' = [run EXCEPT ![r] = run'[r]]
                  /\ run'[r] = [run[r] EXCEPT !.pc = "log", !.outcome = outcome]
                BY <1>1 DEF RunStep
            <4>3. run'[r].pc = "log" /\ run'[r].exec = run[r].exec /\ run'[r] \in LoopRun
                BY <1>1, <4>2 DEF LoopRun, LoopPhases, Midway
            <4> QED
                BY <4>1, <4>2, <4>3 DEF Midway
        <3>4. CASE \E written \in BOOLEAN : WriteLog(r, written)
            BY <1>1, <3>4 DEF WriteLog, LoopRun, LoopPhases, Midway
        <3> QED
            BY <1>8, <3>1, <3>2, <3>3, <3>4
    <2>2. EngineRun(run'[r]) = EngineRun(run[r])
        BY <1>1, <2>1, ViewOfRun DEF Midway
    <2>3. View' = View
        BY <1>2, <2>1, <2>2, ViewMoves
    <2> QED
        BY <2>1, <2>3 DEF EngineView!engineVars, View
<1> QED
    BY <1>3, <1>4, <1>5, <1>6, <1>7, <1>8, <1>9 DEF LoopStep

\* The death of the engine is Engine's.
LEMMA CrashMaps == ASSUME IInv, Crash PROVE EngineView!EngineNext
<1>1. \A p \in Runs : run[p] \in LoopRun /\ PhaseInv(run[p])
    BY RunFacts DEF IInv
<1>2. ASSUME NEW p \in Runs
      PROVE  View'[p] = IF View[p].attached
                        THEN [View[p] EXCEPT !.pc = "reset", !.result = "none"]
                        ELSE EngineView!Idle
    <2>1. /\ run'[p] = Died(run[p])
          /\ View'[p] = EngineRun(run'[p])
          /\ View[p] = EngineRun(run[p])
        <3>1. run'[p] = Died(run[p])
            BY DEF Crash
        <3>2. View'[p] = EngineRun(run'[p]) /\ View[p] = EngineRun(run[p])
            BY DEF View
        <3> QED
            BY <3>1, <3>2
    <2>2. CASE run[p].pc = "idle"
        <3>1. run[p] = Idle /\ run'[p] = Idle
            BY <1>1, <2>1, <2>2 DEF Died, PhaseInv
        <3>2. EngineRun(Idle) = EngineView!Idle
            BY DEF EngineRun, Idle, EngineView!Idle, Midway
        <3> QED
            BY <2>1, <3>1, <3>2 DEF EngineView!Idle
    <2>3. CASE run[p].pc # "idle"
        <3>1. run'[p] = [pc |-> "reset", exec |-> run[p].exec, at |-> 0, outcome |-> "none"]
            BY <2>1, <2>3 DEF Died, Idle
        <3>2. View'[p] = Seen("reset", run[p].exec, "none")
            BY <2>1, <3>1 DEF EngineRun, Seen, Midway
        <3>3. PICK q \in BusyPhases, x \in Terminal \cup {"none", "error"} :
                    View[p] = Seen(q, run[p].exec, x)
            BY <1>1, <2>1, <2>3, ViewOfRun DEF LoopRun, LoopPhases, BusyPhases, Midway
        <3>4. View[p].attached
            BY <3>3, SeenAttached
        <3>5. [View[p] EXCEPT !.pc = "reset", !.result = "none"] = Seen("reset", run[p].exec, "none")
            <4>1. [Seen(q, run[p].exec, x) EXCEPT !.pc = "reset", !.result = "none"]
                    = Seen("reset", run[p].exec, "none")
                BY SeenReset
            <4> QED
                BY <3>3, <4>1
        <3> QED
            BY <3>2, <3>4, <3>5
    <2> QED
        BY <2>2, <2>3
<1>3. \A p \in Runs : View[p].exec = run[p].exec /\ (View[p].pc = "steps" <=> run[p].pc \in Midway)
                       /\ (View[p].pc \in {"idle", "reset"} <=> run[p].pc \in {"idle", "reset"})
    BY <1>1 DEF View, EngineRun, LoopRun, LoopPhases, Midway
<1>4. hurt' = hurt \cup {e \in Executions : EngineView!Working(e) # {}}
    <2>1. {run[r].exec : r \in {q \in Runs : run[q].pc \in Midway}}
            = {e \in Executions : EngineView!Working(e) # {}}
        <3>1. ASSUME NEW q \in Runs, run[q].pc \in Midway
              PROVE  run[q].exec \in Executions /\ q \in EngineView!Working(run[q].exec)
            BY <1>1, <1>3, <3>1 DEF EngineView!Working, PhaseInv, Midway, View
        <3>2. ASSUME NEW e \in Executions, NEW q \in EngineView!Working(e)
              PROVE  q \in Runs /\ run[q].pc \in Midway /\ run[q].exec = e
            BY <1>3, <3>2 DEF EngineView!Working, View
        <3> QED
            BY <3>1, <3>2
    <2> QED
        BY <2>1 DEF Crash
<1>5. \E p \in Runs : View[p].pc \notin {"idle", "reset"}
    BY <1>3 DEF Crash
<1>6. View' = [p \in Runs |-> IF View[p].attached
                              THEN [View[p] EXCEPT !.pc = "reset", !.result = "none"]
                              ELSE EngineView!Idle]
    BY <1>2 DEF View
<1>7. EngineView!EngineCrash
    BY <1>4, <1>5, <1>6 DEF EngineView!EngineCrash, Crash, View
<1> QED
    BY <1>7 DEF EngineView!EngineNext

\* StepLoop implements Engine (ImplementsEngine): for the rows, the steps of a run, their
\* logs and events all happen between two writes of the status.
THEOREM Refinement == Spec => ImplementsEngine
<1>1. Init => EngineView!EngineInit /\ status = [e \in Executions |-> "pending"]
    <2> SUFFICES ASSUME Init PROVE EngineView!EngineInit /\ status = [e \in Executions |-> "pending"]
        OBVIOUS
    <2>1. EngineRun(Idle) = EngineView!Idle
        BY DEF EngineRun, Idle, EngineView!Idle, Midway
    <2> QED
        BY <2>1 DEF Init, LoopInit, EngineView!EngineInit
<1>2. IInv /\ [Next]_vars => [EngineView!EngineNext]_EngineView!engineVars
    <2>1. UNCHANGED loopVars => UNCHANGED EngineView!engineVars
        BY DEF loopVars, EngineView!engineVars
    <2> QED
        BY <2>1, NextIsLoopStep, StepMaps, CrashMaps
<1> QED
    BY <1>1, <1>2, Invariance, PTL DEF Spec, ImplementsEngine, EngineView!EngineSpec
=============================================================================
