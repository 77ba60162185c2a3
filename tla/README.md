# Workflow automation in TLA+

Models of the services of this repository: api-gateway, execution-engine and
scheduler-service, with the RabbitMQ queues, the PostgreSQL rows and the Redis
entries they share. TLC checks the models on small instances; TLAPS proves every
safety property that holds of them, and all three refinements, for instances of any
size; of three of the documented statements that the code violates they show where they do hold.

Paths below are relative to the repository and start with `src/`. File names
without a path stand for

| name | file |
|---|---|
| `executionworker.go` | `src/api-gateway/internal/worker/executionworker.go` |
| `publisher.go` | `src/api-gateway/internal/queue/publisher.go` |
| `executionlogic.go`, `workflowlogic.go` | `src/api-gateway/internal/logic/` |
| `executionstreamhandler.go` | `src/api-gateway/internal/handler/executionstreamhandler.go` |
| `server.go` | `src/execution-engine/internal/server/server.go` |
| `*_runner.go`, `runner.go` | `src/execution-engine/internal/runner/` |
| `scheduler.go` | `src/scheduler-service/cron/scheduler.go` |

## 1. Inventory

### The system in one paragraph

A *trigger* (the webhook of api-gateway, or scheduler-service) reads a workflow,
inserts an `executions` row with status `pending` and publishes a message. A
*worker* of api-gateway's pool consumes it with manual acknowledgement, looks the
execution up and calls `RunExecution` of execution-engine over gRPC. The engine
reads both rows, sets `running`, performs the steps in order, writes a step log and
publishes a Redis event for each, sets `success` or `failed`, and answers. The
worker acknowledges any answer and rejects any error; a rejected message waits in
`execution.retry` for its TTL and comes back, `MaxRetries` times at most. Clients
read workflows through a Redis cache and follow an execution over server-sent events
fed by the Redis channel of the workflow. The engine also serves the same run as a gRPC
stream (`StreamExecution`), which nothing in the repository calls.

### Components

| component | state | operations | interacts through | what makes it correct |
|---|---|---|---|---|
| webhook trigger (`executionlogic.go`) | the row it inserts | check workflow, insert, publish | rows, queue | no execution is stranded in `pending` without a known cause |
| queue and publisher (`publisher.go`) | messages, `x-death` counts | enqueue, deliver, ack, reject, expire, requeue | AMQP | no message circulates for ever; bounded retries |
| worker pool (`executionworker.go`) | the delivery and the call of each goroutine | consume, drop, fail, call, ack, nack | AMQP, gRPC, rows | of two callers of one execution one at most still counts; an acknowledged answer is a finished execution |
| execution-engine (`server.go`) | rows, step logs, the run's position | RunExecution and StreamExecution: load, start, steps, finish | gRPC, rows, Redis events | the status tells the truth also when runs overlap; the logs account for it |
| step runners | input and output of each step | one per step type | HTTP, language models | the rows chain; pure steps come out the same in a retry |
| scheduler-service (`scheduler.go`) | ticker, position of the check | query, decide, trigger | rows, queue | due workflows fire once per due minute |
| workflow CRUD and cache (`workflowlogic.go`) | row, cache entry, requests in flight | create, list, get, update, delete | PostgreSQL, Redis | nothing is served or listed to others; staleness ends |
| event stream (`executionstreamhandler.go`) | what a client was sent | lookup, subscribe, forward | Redis pub/sub | a stream ends, and when it is done it has told an end; what it reports is stored |
| start and stop (`gateway.go`, `main.go` of each service) | process up or down | crash, restart, start without consumers | docker-compose | nothing acknowledged is lost |
| authentication (`authmiddleware.go`, `claims.go`, `loginlogic.go`) | none | verify token, proxy login | Keycloak | subject and role reach the logic |
| handlers, routes, types, health; legacy in-process executor; generated code; configuration, tracing, deployment; playground | none of their own | | | not modelled (section 8) |

### What is hard here

* Nothing locks an execution. A call that breaks leaves its run going (the
  engine's database writes do not use the caller's context) while the message is
  retried, so two runs of one execution write the same row.
* A finished run whose answer is lost is run again from the start.
* The insert and the publish of a trigger are two statements, and the channel is not
  in confirm mode.
* Errors of the two status updates and of the log writes are ignored.
* The retry count lives in the message's `x-death` header and does not count
  requeues after a closed channel.
* Each consumer has a channel of its own, and RabbitMQ may close one alone, for a delivery
  that is unacknowledged too long: its message goes to another worker while the first
  still waits for the engine. No worker opens another channel, nor the pool another
  connection; the publisher has its own.
* Cache fill and invalidation are separate statements of separate requests.
* The event channel is per workflow, the stream per execution; pub/sub keeps nothing,
  and nobody looks at the error of a PUBLISH; a run whose loads fail or whose engine dies
  publishes no end at all; a token of an AI reply says `finished` on the same channel as the
  end of an execution.
* Ownership is checked against the row, in another statement than the one that reads
  what is served; rows older than the `user_id` column hold NULL.
* A delay of about the step timeout races it: both timers have run out, and `select` takes
  either. A number of seconds may be too large for `time.Duration`, whose conversion from
  float64 is then up to the processor.
* The scheduler takes "now" after its query, and the ticker after its first check; all
  workflows of a check share one "now", one list of rows, and each other's delays.

`PROJECT.json` lists these with their lines as hazards, each with the properties
that would catch it going wrong.

## 2. Modules

```
Models            rows, constants, kinds of faults
  Broker          RabbitMQ topology (external, as publisher.go declares it)
  Engine          RunExecution, a run as load -> start -> steps -> reply
    Dispatch      Broker + Engine + triggers, workers, outages   (the core)
      DispatchInv     its inductive invariant
        MCDispatch       instances for TLC
        DispatchProofs   proofs of the invariant and of what follows
          LifecycleProofs  proof that Dispatch implements ExecutionLifecycle
ExecutionLifecycle  the abstract promise about the status column
  StepLoop        runSteps statement by statement; implements Engine
    StepLoopProofs  its inductive invariant, shared by the two below
    EventStream   + SSE handler, StreamExecution   MCEventStream, EventStreamProofs
    StepRunners   + the data of the steps          MCStepRunners, StepRunnersProofs
WorkflowStore       the abstract promise of the CRUD of a workflow
  WorkflowCache     CRUD through Redis; implements it   MCWorkflowCache, WorkflowCacheProofs
Scheduler         the cron loop in time            MCScheduler, SchedulerProofs
```

**Broker.** `place[e]` is where the message of execution `e` is, `deaths[e]` what
`deathCount` reads from it. Each execution id is published at most once, so the
queues are one function. `Hand` picks any ready message: requeues and TTLs reorder
the queue, so this is the set of orders that can occur. `Expire` advances
`deaths`: the head of `x-death` after a round is its `expired` entry. `Requeue` puts back
what was held over closed channels and adds nothing to `x-death`.

**Engine.** One slot of `Runs` per call in flight: `pc`, the execution, the answer,
and `attached`, whether a caller still waits. `Load`, `LoadMissing`, `LoadError` are
the two reads of `RunExecution`; `Start` and `Finish` its status writes, each of which
may fail unnoticed (`written = FALSE`). `EngineCrash` ends all runs and leaves their
callers with an error. `hurt` remembers the executions with a failed status write or a
killed run and no end written since (`StillHurt`): the exceptions that the promises about
the status have to make, until the next run that comes to its end has put the row right.

**Dispatch.** Triggers (`CheckWorkflow`, `CreateExecution`, `Publish` and their
failures), workers (`Deliver`, `Drop`, `FailsBeforeCall`, `Call`, `ReplyOk`,
`ReplyError`, `CallBreaks`), outages (`ChannelClosed`, `ConnectionLost`, `GatewayCrash`,
`GatewayStart`, `SchedulerCrash`, `EngineDies`) and `Delete`. `open` has the workers whose
channel is open. `ChannelClosed(w)` closes one, `ConnectionLost` all of them; what was held
over them is ready again. A worker that has lost its channel ends its current job, call
included, while others go on consuming; its `Ack` or `Nack` goes nowhere (`IfOpen`), and then
it returns for good. A gateway that starts without a broker (`GatewayStart`) serves HTTP with
none or some of its workers. Two branches of `handle` are not there because no
state of the system reaches them: a malformed body (both publishers marshal the
struct the worker unmarshals) and a missing execution (rows are committed before
their message is published, and no code deletes them).

**ExecutionLifecycle.** An execution is *owed* from its creation until no actor will
work on it any more. Its status moves only while it is owed and never back to
`pending`. `Dispatch` implements it with `owed` = a trigger that has still to
publish, a message in the queues, or a run at work.

**StepLoop** splits `steps` of `Engine` into its statements: perform the step, write
the log, publish `step_done`, and so on until a step fails or the last is done, then
the status write, the `finished` event, the answer. A run whose loads fail (`LoadFails`)
answers with an error and writes and publishes nothing; `Crash` kills all runs and resets
their callers. `EventStream` checks that it implements `Engine`.

**EventStream** adds clients. Those of the SSE handler look the row up, subscribe, and
are forwarded the events of the workflow until one is a `finished`. Those of
`StreamExecution` are the caller of the run: they get its events directly, whether or
not the channel has other listeners, and their stream is over when the run returns. A
client is `ended` when its handler was done, and `cut` when the handler gave up: the lookup
failed (`LookupFails`), go-zero's time for a request was over (`TimeOut`), the loads of its
`StreamExecution` failed or the engine died under it (`Return`). An
AI step ends with a closing `ai_token` (`Speak`), which goes to the channel only and
which `IsFinished` has to tell from the end of an execution. `Tell` is the PUBLISH and the
`stream.Send`: any set of listeners may lose the event, all of them when the PUBLISH itself
fails, some when their own buffer or connection does; the caller gets it all
the same, and nothing else notices. `missed` remembers who has lost which type of event.

**StepRunners** adds what each runner makes of its configuration and input; a
`map[string]any` is a set of pairs of field and printed value, which is all the runners
look at. `Returned(step, input)` is the set of answers the runner of `step` can
give: one for those that compute, several for HTTP and the language models. A delay may
come out either way in two cases (`DelayRun`): when it is about as long as the step timeout
(`"even"`), where the timer and the context of the step race, and when its number of seconds
overflows (`"huge"`), where the platform chooses the duration.

**WorkflowCache** follows list, get, update and delete statement by statement for one
workflow, its row and its entry; `Create` is one insert. A request presents a token
(valid or not, with a subject or none, with the admin role or not), `Admitted` is the
middleware and `MayAccess` the owner check; `InList`, the WHERE clause of a list, is not the same
thing, for a row's owner may be `Null`.

**WorkflowStore** is what the CRUD of a workflow promises: a request is checked and
carried out in one step, on a row without a cache. `WorkflowCache` implements it, with a
request seen as `done` from the statement on that decides it: the answer of a get, the
UPDATE of an update, the refusal. That a get may be handed an older version, that an
update of a deleted row does nothing, and that a list passes over a row whose owner is
NULL is said there in one line each: all that the statements can be seen to do beyond
acting at once.

**Scheduler** follows the scheduled workflows through quarters of minutes: query, decide
for all rows at one `now`, trigger those that are due one after the other, the ticker
and its channel of one. Queries and inserts may fail; workflows are edited at any time.
`steady` remembers the workflows that have been active all along and that no failure has met.

Definitions whose comment begins with "Mutant of" are what the code would be with a
plausible bug; no specification uses them. Each property names one of them in
`PROJECT.json` under which it fails.

## 3. Runs

| run | instance | question |
|---|---|---|
| `dispatch_two` | 2 executions (one scheduled), 2 workers, 2 runs, `MaxRetries` = 1, 1 outage, all faults | executions sharing queue, workers and slots, with retries, requeues and orphaned runs; also the inductive invariant `IInv` |
| `dispatch_live` | 2 executions, 2 workers, 2 runs, `MaxRetries` = 1, 1 outage | does every queued message settle? Connection, single channels, gateway and engine may fail |
| `event_stream` | 1 execution of 2 steps, the first an AI task, 2 runs, 1 client; lost events, failing loads and lookups, timeouts, a dying engine | logs and status of overlapping runs; the stream of a client; `StepLoop` implements `Engine` |
| `step_runners` | every workflow of 2 steps out of 19 configurations, 2 runs, failing loads, a dying engine | how the data flows, and whether a rerun agrees |
| `workflow_cache` | a user, a token without a subject, an admin, an invalid token; 2 requests, 3 versions, failing Redis | who is served what; staleness ends; `WorkflowCache` implements `WorkflowStore` |
| `scheduler` | 5 minutes in quarters, checks of up to 3 quarters, failing queries and inserts, 1 restart, 2 workflows | pace, gaps and repetitions of checks |
| `dispatch_owned`, `lifecycle_final`, `cache_update_seen`, `list_ownerless`, `stream_other`, `scheduler_never` | as above | statements of the documentation that the code violates (section 6) |

The properties, in words:

* `OverlapHasCause`, `BoundedCalls`, `AnsweredIsFinished`, `RunningIsRun`,
  `StrandedHasCause`, `ImplementsLifecycle`, `Settles` (Dispatch): two
  workers wait for one execution only after a channel was closed under a delivery of it, and
  the answer to one of them at most still counts; the pool calls the engine at most `MaxRetries` times plus
  once per requeue; an acknowledged answer means a finished execution; `running`
  means that a run is at work; what stays `pending` does so for a known cause;
  the status follows the lifecycle; every message settles.
* `OnlyRetriesReopen`, `MessagesWearOut` (Dispatch): as long as the engine has been called
  once for an execution, its end stands, whatever becomes of the message; every move of a
  message brings it nearer to its end, but for a closed channel, which puts it back by
  one delivery.
* `LogsExplainStatus`, `FinishedIsStored`, `StreamEnds`, `ImplementsEngine`
  (EventStream): a success has a log for each step, a failure one for the failed
  step; the row precedes its `finished`; a client that listens while a run of its execution
  is between its first status write and the announcement of its end, or that has called the
  run, does not hang, unless the end was lost on its way to it or the engine died first; the
  loop refines the run.
* `StepIsLogged`, `EndHasCause` (EventStream): the log precedes its `step_done`, in
  overlapping runs too; a stream that is done, not cut by an error, a timeout or a crash, has
  told the end of an execution of the workflow, and one that has told it does not go on.
* `EventsFollow` (EventStream): what a client is told of an execution that is run once is
  one story, whatever is mixed in between: step after step, then the end with the outcome
  of the last one. None is skipped unless it was lost on its way.
* `RowsChain`, `RerunsAgree` (StepRunners): each step log's input is the output of a
  successful log of the step before; the runs of an execution agree on every row up to the
  first step that asks the world outside or waits about as long as a step may take
  (`Steady`).
* `ServedToOwner`, `DeletedIsHidden`, `StaleEnds` (WorkflowCache): a get or a list
  serves only holders of a valid token who own the workflow, or are admins, or find it
  without an owner; a deleted workflow is listed to nobody and served to admins at most,
  from an entry that outlived it; an outdated entry does not survive.
* `ImplementsStore` (WorkflowCache): the check of the owner still counts when the row is
  written or the answer given, a request writes once at most, and nobody who may access
  the workflow is turned away.
* `FiredWhenDue`, `TicksKept`, `NeverThrice`, `NoLongGap` (Scheduler): a
  workflow is triggered only in minutes that its expression names, not a minute late (finding
  7); ticks are neither lost nor added; delays put at most two checks
  into a minute and skip at most one (two after the first check), and a query that
  fails costs one minute and no other.
* `NeverTwoMissed` (Scheduler): of two minutes in a row that its expression names, a
  workflow that stays active and meets no failure is triggered in one at least.

**Bounds and why they are enough.** Two of everything that interacts: an orphaned
run and its retry are two runs; a delivery on a closed channel and its redelivery
are two workers; interference between executions needs two of them; the delay that one
workflow's insert puts on another needs two of those. `MaxRetries` = 1 instead of the
code's 3 reaches exhaustion earlier; the proofs cover every limit. `MaxOutages` and
`MaxRestarts` bound only the number of crashes. One step more makes no new case: two
steps are a first, a last, and a pair whose data must chain. `MaxVersion` 3 lets an
entry be two versions behind. `Horizon` 23 is five minutes in quarters, and of the two
workflows one is due in every minute, the other in every second one, so an early, a late
and a repeated check each fall into a minute that is due for it and into one that is
not. `MaxBusy` 3 is one quarter less than a minute, the longest for which the statements
about the pace hold. `EventStream` has one workflow and, with two runs, one execution:
events of two executions are the subject of `stream_other`. Writes do not fail in
`event_stream`: with them besides, the run does not end in time.
Writes that fail are in `dispatch_two` and in the proofs, which are about every set of faults.
The proofs remove all these bounds for the safety properties.
`CHECK_DEADLOCK FALSE` stands where the system may come to rest: all messages
settled, all runs made and all clients gone, or a gateway that is down (nothing in a
model forces it to return).

## 4. Fairness

`Dispatch`: RabbitMQ hands out ready messages while a worker is free and expires
TTLs; worker goroutines and runs are scheduled, and every step of a run ends since
`runSteps` gives each a timeout. No fairness is assumed of triggers, users,
faults or the restart of api-gateway: the pool's `Start` is called once per
process. `Settles` therefore has the premise that in the end some worker keeps its channel
(`<>[](open # {})`); without it a message may wait for ever, as
`src/docs/stage-6-walkthrough.md:380` concedes. Deliveries are fair per execution:
the queue is FIFO, so a ready message comes to its head.
`PromptSpec` adds that a trigger that has begun goes on, for `TriggeredFinishes`.
`EventStream`: runs and handlers are goroutines that are scheduled; clients may
leave or run out of time, and neither is taken for granted; no run has to be called.
`StreamEnds` is about clients that listen while a run of their execution is between its first
status write (pc `start`) and the announcement of its end (`announce`), and about the callers of
`StreamExecution`. A run before that may end without a word, for its loads may fail. Those may
wait for ever who have lost an end on its way, or whose engine died in the run, and nobody
else: a listener that has only lost steps and a caller of `StreamExecution`, whose call fails
with the engine, come to their end.
`WorkflowCache`: requests are handled to their end, and Redis expires entries.
`Scheduler` has no fairness: its properties are about what checks do, not whether.

## 5. Proofs

The proofs hold for every finite or infinite set of executions, workflows, run slots and
clients, every finite set of workers, every `MaxRetries`, number of steps, length of a
minute and bound on outages, and every combination of faults (the requests of
`WorkflowCache` are finitely many). Assumed are the named assumptions of the modules, which
say no more than the types of the constants and which TLC evaluates in the runs, and, where
the table says so, a hypothesis of the theorem, which is part of its statement:

| theorem | says | under |
|---|---|---|
| `DispatchProofs`: `Invariance`, `TypeCorrect` | `[]IInv`, `[]TypeOK` | |
| `OverlapCaused`, `CallsBounded`, `RunningTrue` | `[]OverlapHasCause`, `[]BoundedCalls`, `[]RunningIsRun` | |
| `AnsweredFinished`, `Stranded` | `[]AnsweredIsFinished`, `[]StrandedHasCause` | |
| `RetriesReopen`, `WearOut` | `OnlyRetriesReopen`, `MessagesWearOut` | |
| `FinalUnlessBroken` | `TerminalIsFinal` (finding 2) | `Faults \cap Breaks = {}` |
| `LifecycleProofs`: `Refinement` | `Spec => ImplementsLifecycle` | |
| `WorkflowCacheProofs`: `TypeCorrect`, `OwnershipKept`, `DeletionKept` | `[]TypeOK`, `[]ServedToOwner`, `[]DeletedIsHidden` | |
| `ActsAtomically` | `Spec => ImplementsStore` | |
| `SeenAlone` | `[]UpdateIsSeen` (finding 3) | `Alone`: one request at a time, Redis answers |
| `EventStreamProofs`: `TypeCorrect`, `LogsExplain` | `[]TypeOK`, `[]LogsExplainStatus` | |
| `FinishedStored`, `StepLogged`, `EndsForCause` | `[]FinishedIsStored`, `[]StepIsLogged`, `[]EndHasCause` | |
| `OneStory` | `[]EventsFollow` | |
| `Refinement` | `Spec => ImplementsEngine` | |
| `StepRunnersProofs`: `TypeCorrect`, `Chained` | `[]TypeOK`, `[]RowsChain` | |
| `Repeatable` | `[]RerunsAgree` | `"write" \notin Faults` |
| `SchedulerProofs`: `TypeCorrect` | `[]TypeOK` | |
| `DueOnly` | `[]FiredWhenDue` (finding 6) | every expression names some minute |
| `PaceKept`, `GapsBounded`, `AtMostTwice` | `[]TicksKept`, `NoLongGap`, `[]NeverThrice` | `Quick`: `MaxBusy < MinuteLen` |
| `SomeMinuteServed` | `[]NeverTwoMissed` | `Quick` |

The hypotheses are where the promise ends. When a log is lost, a run of which a row is
missing may have read other answers than its rerun. An expression that names no minute
is triggered all the same (finding 6). A check that takes a minute or more loses ticks.

**Where the documented statements hold.** Three of the statements that section 6 finds
violated are proved under a hypothesis, which separates what breaks them from what does not.
`pending -> running -> success | failed` is final as long as no call breaks, no channel is
closed and neither the gateway nor the engine dies (`Breaks`): failing queries, status
writes and publishes may still cause retries, but none of an execution that has ended. A
request sees the last update if requests do not overlap and Redis answers. A due minute is a
named minute if there is one. Of `list_ownerless` the refinement says it: of the three
disjuncts of `Refuse` in `WorkflowStore` only the last, a row whose owner is NULL, passes
over a workflow that its caller may access.

**Dispatch.** None of the properties is inductive: that two callers wait for one execution
only after a closed channel follows from who holds the message, which is not
mentioned in it. `IInv` (module `DispatchInv`) adds

* `RunsWellFormed`: a free slot is empty, and only a run somebody waits for keeps an answer;
* `JobsExclusive`, `HeldMatchesJobs`: no two workers with open channels handle one execution,
  and broker and workers agree on who of these holds what. A worker whose channel was closed
  may handle an execution that another holds as well; of it is known only that its message
  has been requeued, from which `OverlapHasCause` follows;
* `CallsMatchRuns`: calls of workers and attached runs are the same thing seen from two sides;
* `RowBeforeMessage`: row, trigger and message come into being in this order;
* `CallBudget`: the calls made and those that workers have still to make (`Uncalled`) are
  within what the place of the message allows for (`Budget`), from which
  `BoundedCalls` follows. The delicate case is a worker whose channel was closed and that has
  not called yet: its message has been counted as requeued and may be with another worker,
  so that both have a call to make, and the requeue allows for one of the two;
* `PendingIsUnstarted`: a run past its first write, its answer, and the
  acknowledgement of that answer each imply that the row has left `pending`, or a
  write failed;
* `OneCallOneRun`: an execution that the engine has been called once for has one run at
  most, and has not ended while that run has still a status to write;
* `TypeOK` and `RunningIsRun` themselves.

`DispatchProofs` has one lemma per action, with one step per conjunct that the action
can disturb and one step for the rest; `NextIInv` puts them together.

`MessagesWearOut` is a variant: `Rank` counts the retries left and, within a round, whether
the message is ready, held or waiting for its TTL. `Moved` lists the moves that the actions
make of a message; all but the requeue of closed channels lower the rank. For `FinalUnlessBroken`,
`CalmInv` adds that every run has its caller, and that the message of an execution that has
ended is acknowledged, or about to be by the answer of a run (`Reported`): so no other run
can begin.

**The lifecycle.** Under `IInv` each step is one of three: the insert, which is
`Create`; a step of a run, which is `Work` on an execution that its own activity
keeps owed; or `Quiet` (no status moves, nothing becomes owed), which is `Settle`.
The only step that makes a run active is `Call`, and its execution was owed before: a worker
that has still to call, with a channel or without, is among those who are to work on it
(`Uncalled` in `Owed`).

**WorkflowCache.** A get checks the owner in one statement and answers in another, with
anything in between. That the check still counts rests on what can never be undone: a row
once there keeps its owner, a row once deleted stays deleted. So `AccessInv` says of every
request that has passed its check that the caller may see the row, and of every request
that came after the deletion that it is past nothing, or an admin's. `ItemInv` and
`cache <= row.version` keep the entry from being ahead of the row; `Room` counts the updates
under way, each of which will write one version more. The refinement of `WorkflowStore`
rests on the same facts: what was checked at the SELECT is still true of the row at the
statement that is seen as the operation. `FreshInv` (for `SeenAlone`): with one request at a
time the entry is empty, current, or about to be deleted by the request that outdated it,
and what a get has read is no older than the updates answered before it came.

**StepLoop.** `PastInv`: a run at step `i` has logged successes of all steps before it,
unless a log of its execution was lost; `PhaseInv`: it ends because its last step failed
or because there is none left. `LogsExplainStatus` follows where the status is written,
and stays since logs are only ever added.

**EventStream.** What an event says must be true when it arrives, which is later than when
it is sent. `EventInv` therefore says of every event in a buffer and of every last one that
the rows agree with it, and is shown to be stable: logs only grow, and a status moves only
by a run. `OnceInv` counts: while an execution has been run once, the run that announces
its end is the only one and has no write before it. `CallInv` follows the callers of
`StreamExecution`: one run each, whose end they have been sent when it is about to return.

`EventsFollow` is about two events that a client is told one after the other, and these
were told by a run at different times. `OrderInv` connects them: for the newest event that a
subscriber has of an execution, `UpTo` says where its only run now stands, so that what the
run tells next must follow. That a subscriber is told everything from its first event on
holds but for events that are lost on their way: after a lost step nothing is claimed of that
client, after a lost end nothing follows, for the run only returns, and after the death of the
engine no run is left to tell anything (`Knows`).

**The loop as Engine.** The mapping sees `step`, `log`, `event` and `finish` as `steps`, and
`announce` and `reply` as `reply` with the answer; `ViewOfRun` says so for every record of a
run. Steps between the two status writes are then stutters, and each of the others is one
action of `Engine`; `LoadFails` and `Crash` are `LoadError` and `EngineCrash`.

**StepRunners.** Two things are known of every row: its answer is one its runner may give
to its input, and its input is the output of a successful row of the step before. `InHand`
says the same of what a run has not yet written down. `LoggedAgree` is an induction over
the steps without a recursive definition: two rows of one step have inputs that are outputs
of rows of the step before, which agree, and a runner that asks nobody has one answer to one
input. It is about the rows up to the first step that is not `Steady`, and since a prefix of
such steps has prefixes of such steps only, the induction goes through. It is in the order of
writing: when a row is added, the rows it was made from are there.

**Scheduler.** With `Quick`, no tick ever finds the channel full, so check number `k` begins
exactly at `born + k * MinuteLen` (`Timing`): delays never add up. A decision falls
less than a minute after its check began, which places its minute within one of the
minute of the check (`Decided`); `Since` allows for the checks since that had no decision
because their query failed. Two checks that decide in one minute are neighbours, and the
second of them began in it (`Second`), so there is no third (`Counted`). `Served` says of
the minute decided last that each steady workflow which it names has been triggered in it or
is still to be; since decisions skip one minute at most (`Decided`), one of two minutes in a
row has been decided.

Each proof module has one lemma per action or group of actions and puts them together
in a lemma about `Next`.

**Model-checked only.** The liveness properties `Settles`, `StreamEnds` and `StaleEnds`
(and `TriggeredFinishes`, which is violated): fairness and ENABLED are outside the
prover's reach.

## 6. Where the code and its documentation disagree

The first six have a run that TLC finds violated, in the last one the code keeps what one
document says and another denies; `PROJECT.json` quotes the lines.

1. `dispatch_owned`: the engine's `Workflow.UserID` is a `uint`, the gateway writes
   a Keycloak subject into that column, so `RunExecution` cannot scan the row of any
   workflow created by a logged-in user: its executions are retried, dropped and stay
   `pending`. That the scan fails was read from the two models; the run shows what
   follows from it. Because of it the other runs of `Dispatch` use `Owned = {}`
   (workflows with a NULL owner).
2. `lifecycle_final`: `pending -> running -> success | failed` is not final; a
   redelivery takes an ended execution back to `running`.
3. `cache_update_seen`: a get that read the row before an update can fill the cache
   after the update's `DEL`, so the next request does not read the database.
4. `list_ownerless`: a workflow whose row is older than the `user_id` column holds NULL
   there. Get, update and delete treat it as anybody's, as the documentation wants; the
   list compares it with `''` and shows it to admins only.
5. `stream_other`: the stream of one execution ends with the `finished` event of
   another execution of the same workflow.
6. `scheduler_never`: an expression that can never be due (30 February) is triggered
   by every check, since the zero time lies before any deadline.
7. `scheduler`: the comment beside the test says that an expression must fire "within
   [minuteAgo, now)", the minute before. The test accepts (minuteAgo, now], the current minute,
   as the walkthrough of stage 6 says; `FiredWhenDue` holds of it and fails under the comment's
   window, which is its mutant `FiresBefore`.

## 7. Plan

Done: every component with behaviour of its own as a model that TLC checks, composed where
components interact; the proofs of all their safety properties and of the three
refinements, and of where three of the violated statements hold.
What is left, in order of importance:

1. A shared instance of `Scheduler` and `Dispatch`, in which the executions that a check
   creates are those the workers consume. Now `Dispatch` has the two statements of
   `trigger` and `Scheduler` their times.
2. The gap between the lookup and the subscription of a stream as a property of its own:
   `StreamEnds` excludes the runs that end in it.
3. A step whose effects outside are counted, so that "at least once" is a property.

## 8. Not modelled

* Malformed message bodies and missing executions in `handle`: unreachable (section 2).
* The `ai_token` events before the closing one: forwarded like `step_done`, they end
  nothing and hold text only.
* The errors of `stream.Send` of `StreamExecution`, which are ignored: a caller that is gone
  is a client that has left. That its context is cancelled shows as a step that fails,
  which any step may.
* Contents of payloads, templates, HTTP bodies, prompts: data that no property tells
  apart beyond what `StepRunners` has. The trigger's payload reaches no step at all.
* How a token is verified: `valid` is the outcome. The login proxy, list and get of
  executions, health: no state, reads only. The fields of a workflow: an update is a version.
* The legacy executor `src/api-gateway/internal/engine/`: nothing calls it.
* Generated gRPC code, configuration, tracing, deployment files (they justify that a
  dead process is restarted), the playground.
* Loss of the database, of the broker's storage or of Redis as a whole.

## 9. Running the checks

In this directory, with TLC and TLAPS and the community modules on the library path:

```
tlc -config DispatchTwo.cfg MCDispatch.tla     # any run of PROJECT.json likewise
tlapm DispatchProofs.tla                       # and the other *Proofs modules
```

Each run takes from seconds to two or three minutes, the proofs some minutes in all.
