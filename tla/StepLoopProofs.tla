--------------------------- MODULE StepLoopProofs ---------------------------
(***************************************************************************)
(* What every step of a run preserves, whoever drives the runs: EventStream*)
(* and StepRunners prove their theorems from LoopInv.                      *)
(*                                                                         *)
(* LogsExplainStatus speaks of rows only.  LoopInv adds what a run knows   *)
(* of them while it works: it has come to its step over successful ones    *)
(* whose logs are there, and its outcome is that of the log it wrote last. *)
(***************************************************************************)
EXTENDS StepLoop, TLAPS

LoopTypes ==
    /\ LoopTypeOK
    /\ status \in [Executions -> Statuses \ {"none"}]
    /\ started \in [Executions -> Nat]

\* The phases of a run and what is in its fields by then.
PhaseInv(x) ==
    /\ x.pc = "idle" => x = Idle
    /\ x.pc # "idle" => x.exec \in Executions
    /\ x.pc \in {"step", "log", "event"} => x.at \in 1..NumSteps
    /\ x.pc \in {"log", "event"} => x.outcome \in Terminal
    /\ x.pc # "reply" => x.outcome # "error"
    /\ x.pc = "reset" => x.outcome = "none"
    /\ x.pc \in {"finish", "announce", "reply"} /\ x.outcome # "error" =>
         \/ NumSteps = 0 /\ x.outcome = "success"
         \/ x.at \in 1..NumSteps /\ (x.outcome = "failed" \/ (x.outcome = "success" /\ x.at = NumSteps))

\* The logs of the steps it has behind it.
PastInv(x) ==
    x.exec \in Executions \ unlogged =>
        /\ x.pc \in {"step", "log", "event", "finish"} =>
             \A j \in 1..(x.at - 1) : <<j, "success">> \in logs[x.exec]
        /\ x.pc \in {"event", "finish"} /\ NumSteps > 0 => <<x.at, x.outcome>> \in logs[x.exec]

LoopInv ==
    /\ LoopTypes
    /\ \A r \in Runs : PhaseInv(run[r]) /\ PastInv(run[r])
    /\ LogsExplainStatus
-----------------------------------------------------------------------------
USE NumStepsAssumption, NoExecAssumption

\* It holds at the start: nothing is logged and no run is at work.
LEMMA LoopInitEstablishes == LoopInit => LoopInv
<1> SUFFICES ASSUME LoopInit PROVE LoopInv
    OBVIOUS
<1>1. Idle \in LoopRun /\ PhaseInv(Idle) /\ PastInv(Idle)
    BY DEF Idle, LoopRun, LoopPhases, PhaseInv, PastInv
<1>2. LoopTypes
    BY <1>1 DEF LoopInit, LoopTypes, LoopTypeOK, Statuses
<1> QED
    BY <1>1, <1>2 DEF LoopInit, LoopInv, LogsExplainStatus

\* Run r moves, logs are only added, and what is known of r and of the rows holds.
LEMMA RunMoves ==
    ASSUME LoopInv, NEW r \in Runs, run' = [run EXCEPT ![r] = run'[r]], run'[r] \in LoopRun,
           status' \in [Executions -> Statuses \ {"none"}],
           logs' \in [Executions -> SUBSET ((1..NumSteps) \X Terminal)],
           \A e \in Executions : logs[e] \subseteq logs'[e],
           hurt' \cup unlogged' \subseteq Executions, unlogged \subseteq unlogged',
           started' \in [Executions -> Nat],
           PhaseInv(run[r])', PastInv(run[r])', LogsExplainStatus'
    PROVE  LoopInv'
<1>1. LoopTypes'
    BY DEF LoopInv, LoopTypes, LoopTypeOK
<1>2. ASSUME NEW p \in Runs \ {r}
      PROVE  PhaseInv(run[p])' /\ PastInv(run[p])'
    <2>1. run'[p] = run[p]
        BY DEF LoopInv, LoopTypes, LoopTypeOK
    <2> QED
        BY <2>1 DEF LoopInv, PhaseInv, PastInv
<1> QED
    BY <1>1, <1>2 DEF LoopInv

\* What is known of a run at each of its steps.
LEMMA RunFacts ==
    ASSUME LoopInv, NEW r \in Runs
    PROVE  run[r] \in LoopRun /\ PhaseInv(run[r]) /\ PastInv(run[r])
BY DEF LoopInv, LoopTypes, LoopTypeOK
-----------------------------------------------------------------------------
\* A new run has no step behind it.
LEMMA AcceptPreserves ==
    ASSUME LoopInv, NEW r \in Runs, NEW e \in Executions, Accept(r, e)
    PROVE  LoopInv'
<1>1. /\ run' = [run EXCEPT ![r] = run'[r]]
      /\ run'[r] = [pc |-> "load", exec |-> e, at |-> 0, outcome |-> "none"]
    BY DEF Accept, Idle, LoopInv, LoopTypes, LoopTypeOK
<1>2. run'[r] \in LoopRun
    BY <1>1 DEF LoopRun, LoopPhases
<1>3. PhaseInv(run[r])' /\ PastInv(run[r])'
    BY <1>1 DEF PhaseInv, PastInv
<1>4. started' \in [Executions -> Nat]
    BY DEF Accept, LoopInv, LoopTypes
<1>5. LogsExplainStatus'
    BY DEF Accept, LoopInv, LogsExplainStatus
<1> QED
    BY <1>1, <1>2, <1>3, <1>4, <1>5, RunMoves DEF Accept, LoopInv, LoopTypes, LoopTypeOK

\* The steps that write nothing.
LEMMA QuietPreserves ==
    ASSUME LoopInv, NEW r \in Runs, UNCHANGED <<status, logs, hurt, unlogged, started>>,
           Load(r) \/ LoadFails(r) \/ (\E outcome \in Terminal : RunStep(r, outcome))
              \/ StepDone(r) \/ Announce(r) \/ Collect(r)
    PROVE  LoopInv'
<1>1. run \in [Runs -> LoopRun] /\ run[r] \in LoopRun /\ PhaseInv(run[r]) /\ PastInv(run[r])
    BY RunFacts DEF LoopInv, LoopTypes, LoopTypeOK
<1> SUFFICES /\ run' = [run EXCEPT ![r] = run'[r]] /\ run'[r] \in LoopRun
             /\ PhaseInv(run[r])' /\ PastInv(run[r])'
    <2>1. LogsExplainStatus'
        BY DEF LoopInv, LogsExplainStatus
    <2> QED
        BY <2>1, RunMoves DEF LoopInv, LoopTypes, LoopTypeOK
<1>2. CASE Load(r)
    <2>1. run' = [run EXCEPT ![r] = run'[r]] /\ run'[r] = [run[r] EXCEPT !.pc = "start"]
        BY <1>1, <1>2 DEF Load
    <2> QED
        BY <1>1, <1>2, <2>1 DEF Load, LoopRun, LoopPhases, PhaseInv, PastInv
<1>3. CASE Announce(r)
    <2>1. run' = [run EXCEPT ![r] = run'[r]] /\ run'[r] = [run[r] EXCEPT !.pc = "reply"]
        BY <1>1, <1>3 DEF Announce
    <2> QED
        BY <1>1, <1>3, <2>1 DEF Announce, LoopRun, LoopPhases, PhaseInv, PastInv
<1>4. CASE Collect(r)
    <2>1. run' = [run EXCEPT ![r] = run'[r]] /\ run'[r] = Idle
        BY <1>1, <1>4 DEF Collect
    <2> QED
        BY <2>1 DEF Idle, LoopRun, LoopPhases, PhaseInv, PastInv
<1>5. ASSUME NEW outcome \in Terminal, RunStep(r, outcome)
      PROVE  /\ run' = [run EXCEPT ![r] = run'[r]] /\ run'[r] \in LoopRun
             /\ PhaseInv(run[r])' /\ PastInv(run[r])'
    <2>1. /\ run' = [run EXCEPT ![r] = run'[r]]
          /\ run'[r] = [run[r] EXCEPT !.pc = "log", !.outcome = outcome]
        BY <1>1, <1>5 DEF RunStep
    <2> QED
        BY <1>1, <1>5, <2>1 DEF RunStep, LoopRun, LoopPhases, PhaseInv, PastInv, Terminal
<1>6. CASE StepDone(r)
    <2>1. /\ run' = [run EXCEPT ![r] = run'[r]]
          /\ run'[r] = IF LastStep(r) THEN [run[r] EXCEPT !.pc = "finish"]
                       ELSE [run[r] EXCEPT !.pc = "step", !.at = run[r].at + 1]
        BY <1>1, <1>6 DEF StepDone
    <2>2. run[r].pc = "event" /\ run[r].at \in 1..NumSteps /\ run[r].outcome \in Terminal
        BY <1>1, <1>6 DEF StepDone, PhaseInv
    <2>3. CASE LastStep(r)
        <3>1. run'[r] = [run[r] EXCEPT !.pc = "finish"]
            BY <2>1, <2>3
        <3>2. /\ run'[r] \in LoopRun /\ run'[r].pc = "finish" /\ run'[r].at = run[r].at
              /\ run'[r].outcome = run[r].outcome /\ run'[r].exec = run[r].exec
            BY <1>1, <3>1 DEF LoopRun, LoopPhases
        <3>3. PhaseInv(run[r])'
            BY <1>1, <2>2, <2>3, <3>2 DEF LastStep, Terminal, PhaseInv
        <3>4. PastInv(run[r])'
            BY <1>1, <2>2, <3>2 DEF PastInv
        <3> QED
            BY <2>1, <3>2, <3>3, <3>4
    <2>4. CASE ~LastStep(r)
        <3>1. run[r].outcome = "success" /\ run[r].at + 1 \in 1..NumSteps
            BY <2>2, <2>4 DEF LastStep, Terminal
        <3>2. run'[r] \in LoopRun /\ PhaseInv(run[r])'
            <4>1. run'[r] = [run[r] EXCEPT !.pc = "step", !.at = run[r].at + 1]
                BY <2>1, <2>4
            <4>2. run'[r] \in LoopRun
                <5>1. run[r].at + 1 \in 0..NumSteps + 1
                    BY <3>1
                <5> QED
                    BY <1>1, <4>1, <5>1 DEF LoopRun, LoopPhases
            <4> QED
                BY <1>1, <2>2, <3>1, <4>1, <4>2 DEF LoopRun, PhaseInv
        <3>3. PastInv(run[r])'
            BY <1>1, <2>1, <2>2, <2>4, <3>1 DEF LoopRun, PastInv
        <3> QED
            BY <2>1, <3>2, <3>3
    <2> QED
        BY <2>3, <2>4
<1>7. CASE LoadFails(r)
    <2>1. /\ run' = [run EXCEPT ![r] = run'[r]]
          /\ run'[r] = [run[r] EXCEPT !.pc = "reply", !.outcome = "error"]
        BY <1>1, <1>7 DEF LoadFails
    <2> QED
        BY <1>1, <1>7, <2>1 DEF LoadFails, LoopRun, LoopPhases, PhaseInv, PastInv
<1> QED
    BY <1>2, <1>3, <1>4, <1>5, <1>6, <1>7

\* The write of "running" makes no claim about logs.
LEMMA StartPreserves ==
    ASSUME LoopInv, NEW r \in Runs, NEW written \in BOOLEAN, Start(r, written)
    PROVE  LoopInv'
<1>1. run \in [Runs -> LoopRun] /\ run[r] \in LoopRun /\ PhaseInv(run[r])
    BY RunFacts DEF LoopInv, LoopTypes, LoopTypeOK
<1>2. /\ run' = [run EXCEPT ![r] = run'[r]]
      /\ run'[r] = [run[r] EXCEPT !.pc = IF NumSteps = 0 THEN "finish" ELSE "step", !.at = 1,
                                   !.outcome = IF NumSteps = 0 THEN "success" ELSE "none"]
    BY <1>1 DEF Start
<1>3. run'[r] \in LoopRun /\ run[r].exec \in Executions
    BY <1>1, <1>2 DEF Start, LoopRun, LoopPhases, Terminal, PhaseInv
<1>4. PhaseInv(run[r])' /\ PastInv(run[r])'
    BY <1>1, <1>2, <1>3 DEF LoopRun, PhaseInv, PastInv
<1>5. status' \in [Executions -> Statuses \ {"none"}] /\ hurt' \subseteq Executions
    BY <1>3 DEF Start, WriteStatus, StillHurt, Terminal, Statuses, LoopInv, LoopTypes, LoopTypeOK
<1>6. LogsExplainStatus'
    BY <1>3, <1>5 DEF Start, WriteStatus, StillHurt, Terminal, LoopInv, LoopTypes, LoopTypeOK, LogsExplainStatus
<1> QED
    BY <1>2, <1>3, <1>4, <1>5, <1>6, RunMoves DEF Start, LoopInv, LoopTypes, LoopTypeOK

\* A log is added, or its loss is remembered.
LEMMA WriteLogPreserves ==
    ASSUME LoopInv, NEW r \in Runs, NEW written \in BOOLEAN, WriteLog(r, written)
    PROVE  LoopInv'
<1> DEFINE e == run[r].exec
<1>1. /\ run'[r] = [run[r] EXCEPT !.pc = "event"] /\ run'[r] \in LoopRun
      /\ run' = [run EXCEPT ![r] = run'[r]]
    BY RunFacts DEF WriteLog, LoopInv, LoopTypes, LoopTypeOK, LoopRun, LoopPhases
<1>2. /\ e \in Executions /\ run[r].at \in 1..NumSteps /\ run[r].outcome \in Terminal
      /\ run'[r].pc = "event" /\ run'[r].exec = e
      /\ run'[r].at = run[r].at /\ run'[r].outcome = run[r].outcome
    BY <1>1, RunFacts DEF WriteLog, PhaseInv, LoopRun
<1>3. /\ unlogged' \subseteq Executions /\ unlogged \subseteq unlogged'
      /\ e \notin unlogged' => written
    BY <1>2 DEF WriteLog, LoopInv, LoopTypes, LoopTypeOK
<1>4. /\ logs' \in [Executions -> SUBSET ((1..NumSteps) \X Terminal)]
      /\ \A d \in Executions : logs[d] \subseteq logs'[d]
      /\ written => <<run[r].at, run[r].outcome>> \in logs'[e]
    <2>1. <<run[r].at, run[r].outcome>> \in (1..NumSteps) \X Terminal
        BY <1>2
    <2>2. logs \in [Executions -> SUBSET ((1..NumSteps) \X Terminal)]
        BY DEF LoopInv, LoopTypes, LoopTypeOK
    <2> QED
        BY <1>2, <2>1, <2>2 DEF WriteLog
<1>5. PhaseInv(run[r])'
    BY <1>2 DEF PhaseInv, Terminal
<1>6. PastInv(run[r])'
    BY <1>2, <1>3, <1>4, RunFacts DEF WriteLog, PastInv
<1>7. LogsExplainStatus'
    BY <1>3, <1>4 DEF WriteLog, LoopInv, LogsExplainStatus
<1> QED
    BY <1>1, <1>3, <1>4, <1>5, <1>6, <1>7, RunMoves DEF WriteLog, LoopInv, LoopTypes, LoopTypeOK

\* The status is written by a run that has logged what it claims.
LEMMA FinishPreserves ==
    ASSUME LoopInv, NEW r \in Runs, NEW written \in BOOLEAN, Finish(r, written)
    PROVE  LoopInv'
<1> DEFINE e == run[r].exec
<1>1. /\ run' = [run EXCEPT ![r] = run'[r]] /\ run'[r] \in LoopRun
      /\ PhaseInv(run[r])' /\ PastInv(run[r])'
    <2>1. run \in [Runs -> LoopRun] /\ run[r] \in LoopRun /\ PhaseInv(run[r])
        BY RunFacts DEF LoopInv, LoopTypes, LoopTypeOK
    <2>2. run' = [run EXCEPT ![r] = run'[r]] /\ run'[r] = [run[r] EXCEPT !.pc = "announce"]
        BY <2>1 DEF Finish
    <2>3. run'[r] \in LoopRun
        BY <2>1, <2>2 DEF LoopRun, LoopPhases
    <2> QED
        BY <2>1, <2>2, <2>3 DEF Finish, LoopRun, PhaseInv, PastInv
<1>2. e \in Executions /\ run[r].outcome \in Terminal
    BY RunFacts DEF Finish, PhaseInv, Terminal
<1>3. status' \in [Executions -> Statuses \ {"none"}] /\ hurt' \subseteq Executions
    <2>1. run[r].outcome \in Statuses \ {"none"}
        BY <1>2 DEF Statuses, Terminal
    <2> QED
        BY <1>2, <2>1 DEF Finish, WriteStatus, StillHurt, LoopInv, LoopTypes, LoopTypeOK
<1>4. ASSUME e \notin unlogged
      PROVE  /\ run[r].outcome = "success" => \A i \in 1..NumSteps : <<i, "success">> \in logs[e]
             /\ run[r].outcome = "failed" =>
                  \E i \in 1..NumSteps : /\ <<i, "failed">> \in logs[e]
                                         /\ \A j \in 1..(i - 1) : <<j, "success">> \in logs[e]
    <2>1. CASE NumSteps = 0
        BY <2>1, RunFacts DEF Finish, PhaseInv
    <2>2. CASE NumSteps > 0
        <3>1. /\ \A j \in 1..(run[r].at - 1) : <<j, "success">> \in logs[e]
              /\ <<run[r].at, run[r].outcome>> \in logs[e]
              /\ run[r].at \in 1..NumSteps
              /\ run[r].outcome = "success" => run[r].at = NumSteps
            BY <1>2, <1>4, <2>2, RunFacts DEF Finish, PhaseInv, PastInv
        <3>2. ASSUME run[r].outcome = "success", NEW i \in 1..NumSteps
              PROVE  <<i, "success">> \in logs[e]
            BY <3>1, <3>2
        <3> QED
            BY <3>1, <3>2
    <2> QED
        BY <2>1, <2>2
<1>5. LogsExplainStatus'
    BY <1>2, <1>3, <1>4 DEF Finish, WriteStatus, StillHurt, LoopInv, LoopTypes, LoopTypeOK,
       LogsExplainStatus
<1> QED
    BY <1>1, <1>3, <1>5, RunMoves DEF Finish, LoopInv, LoopTypes, LoopTypeOK

\* The engine's death touches no row, and nothing is left to be known of its runs.
LEMMA CrashPreserves ==
    ASSUME LoopInv, Crash
    PROVE  LoopInv'
<1>1. ASSUME NEW p \in Runs
      PROVE  run'[p] \in LoopRun /\ PhaseInv(run[p])' /\ PastInv(run[p])'
    <2>1. run[p] \in LoopRun /\ PhaseInv(run[p]) /\ run'[p] = Died(run[p])
        BY RunFacts DEF Crash
    <2>2. CASE run[p].pc = "idle"
        BY <2>1, <2>2 DEF Died, PhaseInv, PastInv, Idle, LoopRun, LoopPhases
    <2>3. CASE run[p].pc # "idle"
        <3>1. run'[p] = [pc |-> "reset", exec |-> run[p].exec, at |-> 0, outcome |-> "none"]
            BY <2>1, <2>3 DEF Died, Idle
        <3> QED
            BY <2>1, <2>3, <3>1 DEF PhaseInv, PastInv, LoopRun, LoopPhases
    <2> QED
        BY <2>2, <2>3
<1>2. hurt' \subseteq Executions
    <2>1. ASSUME NEW q \in Runs, run[q].pc \in Midway
          PROVE  run[q].exec \in Executions
        BY <2>1, RunFacts DEF PhaseInv, Midway
    <2> QED
        BY <2>1 DEF Crash, LoopInv, LoopTypes, LoopTypeOK
<1>3. LoopTypes'
    <2>1. run' \in [Runs -> LoopRun]
        BY <1>1 DEF Crash
    <2> QED
        BY <1>2, <2>1 DEF Crash, LoopInv, LoopTypes, LoopTypeOK
<1>4. LogsExplainStatus'
    BY <1>2 DEF Crash, LoopInv, LogsExplainStatus
<1> QED
    BY <1>1, <1>3, <1>4 DEF LoopInv

\* Every step of runSteps, and every call of it.
LoopStep(r) ==
    \/ \E e \in Executions : Accept(r, e)
    \/ Load(r) \/ LoadFails(r) \/ StepDone(r) \/ Announce(r) \/ Collect(r)
    \/ \E outcome \in Terminal : RunStep(r, outcome)
    \/ \E written \in BOOLEAN : Start(r, written) \/ WriteLog(r, written) \/ Finish(r, written)

\* Every step of a run keeps the invariant of the loop, and so does the death of them all.
LEMMA LoopPreserves ==
    ASSUME LoopInv, (\E r \in Runs : LoopStep(r)) \/ Crash \/ UNCHANGED loopVars
    PROVE  LoopInv'
<1>1. CASE \E r \in Runs : LoopStep(r)
    <2> PICK r \in Runs : LoopStep(r)
        BY <1>1
    <2>1. CASE Load(r) \/ LoadFails(r) \/ StepDone(r) \/ Announce(r) \/ Collect(r)
                 \/ \E outcome \in Terminal : RunStep(r, outcome)
        <3>1. UNCHANGED <<status, logs, hurt, unlogged, started>>
            BY <2>1 DEF Load, LoadFails, StepDone, Announce, Collect, RunStep
        <3> QED
            BY <2>1, <3>1, QuietPreserves
    <2> QED
        BY <2>1, AcceptPreserves, StartPreserves, WriteLogPreserves, FinishPreserves DEF LoopStep
<1>2. CASE UNCHANGED loopVars
    BY <1>2 DEF loopVars, LoopInv, LoopTypes, LoopTypeOK, PhaseInv, PastInv, LogsExplainStatus
<1> QED
    BY <1>1, <1>2, CrashPreserves
=============================================================================
