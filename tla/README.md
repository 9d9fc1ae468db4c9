# A TLA+ model of EventMesh Workflow

This directory is a verification project for the workflow engine in `src/`: TLA+
modules translated from the Go code, TLC configurations that check them on small
instances, and theorems checked by TLAPS. `PROJECT.json` maps every definition to
the lines it models and lists runs, mutants, findings, hazards and theorems.

## 1. The system

A workflow text (Serverless Workflow DSL 1.0.3 or the older `states` dialect) is
saved through the controller, turned into a graph of tasks in MySQL, and executed by
any number of engine processes that share the database.

| Component | State | Operations | Correct when |
| --- | --- | --- | --- |
| DSL parser (`third_party/swf`) | none | `Parse`, `FlattenTasks`, `Validate` | what it accepts can be stored and walked without losing a jump |
| Definition DAL (`internal/dal`) | workflow, task, action and relation tables | `Save`, `Delete`, `SelectStartTask`, `SelectTaskInstance` | the stored graph has a successor or END for every task; readers see whole definitions |
| Flow engine and gRPC service (`flow`, `api`) | none of its own | `Start`, `Transition` | a callback wakes the task that waits for it, calls return |
| Queue (`internal/queue`) | an unbuffered channel and one observer goroutine per process | `Publish`, `Observe`, `handle` | nothing published is lost, nobody waits for ever |
| Scheduler (`internal/schedule`) | a ticker goroutine per process, one database transaction per task | `Run`, `handle`, `lock`, `fetchTask` | each WAIT task instance is executed, and not more often than it should be |
| Task executors (`internal/task`) | none between runs | `Run` of operation, event, switch and nine local types | one successor per branch, completion at the end |
| Scheduler lock (`middleware/dblock`) | a MySQL session per lock, a refresher goroutine, a channel of capacity one | `ObtainTimeout`, `Release`, `refresher` | mutual exclusion, no leaked session, `Release` returns |
| A2A executor (`internal/bridge/a2a_executor.go`) | none between runs | `Execute`: send a task to an agent, poll it | the result is that of its own completed work, work is submitted a bounded number of times, the call ends |
| Workflow agent (`internal/bridge/workflow_agent.go`) | in-memory map from task ids to workflow instances | submit, status | an id that was given out is found |
| Controller (`cmd/controller`) | none | HTTP save, delete, query, start | it answers what happened to the definition |
| EventMesh queue, metrics, filters, jq, configuration | | | not modelled, see section 8 |

How they interact. `Start` inserts the workflow instance and publishes its first
task instance as WAIT. The observer inserts what is published. The scheduler opens a
transaction, takes the named lock, selects the newest WAIT row *outside* the
transaction, updates it to PROCESS *inside* it, releases the named lock, runs the
task (up to `RetryAttempts` times) and commits SUCCESS or FAIL. Local tasks publish their
successors as WAIT. An operation publishes its successor as SLEEP and then an event
that carries its id; the service behind EventMesh calls `Transition` with that id,
which publishes the row as WAIT, and the observer updates it.

The controller changes definitions in the same database while engines use them: a
`Save` with an id invalidates the old rows and inserts new ones in one transaction, whose
statements are sent by concurrent goroutines (`GoAndWait`); a `Delete` sends the same
updates without a transaction. A task may call an agent over HTTP inside its `Run`, thus
inside the scheduler's transaction and its `retry.Do`; a workflow may itself be offered as an
agent.

What is hard here: the transaction is longer than the lock that protects it; a row is
read before and updated after a wait for a row lock; the queue is a rendezvous, so a
message that was sent is not yet in the database; callbacks can come early, twice or
never; the scheduler and the observer of one process can wait for each other; a panic
ends a scheduler; processes crash between publishing and committing; the lock's holder
and its refresher share a channel; a definition is replaced or deleted under a running
task; the statements of two Saves deadlock in the server; `SelectTaskInstance` reads with three
goroutines that share one `err`; a timed-out agent call is submitted again while the first
one goes on. The `hazards` of `PROJECT.json` list them by line.

## 2. Modules

| Module | Models | Kind |
| --- | --- | --- |
| `TaskExecutors` | `internal/task`: `Run` of each task type as a sequence of visible operations (`Steps`) | definitions |
| `Scheduling` | engines, schedulers, observers, RPC goroutines, callbacks, failures, crashes | state machine, extends `TaskExecutors` |
| `TaskLifecycle` | the promise about one task instance's status | abstract specification, implemented by `Scheduling` with one engine |
| `DbLock` | the named lock, its refreshers and the connection pools | state machine |
| `TaskGraph` | parser, validation and graph builder | definitions |
| `GraphWalk` | save a text, start it, run its tasks one by one | state machine, composes `TaskGraph` and `TaskExecutors` |
| `DefinitionStore` | `Save` and `Delete` of the controller against each other and against an engine that starts and runs tasks | state machine |
| `A2ABridge` | A2A executor and workflow agent | state machine |
| `SchedulingProofs` | theorems about `TaskExecutors` and `Scheduling`: types, executions per readiness | proofs |
| `FlowProofs` | what each action of `Scheduling` does, field by field, and the flow of task instances: nothing lost, events follow sleepers, sleepers have wakers, panics | proofs, extends `SchedulingProofs` |
| `LifecycleProofs` | the refinement of `TaskLifecycle` | proofs, extends `FlowProofs` |
| `TokenProofs` | one token of control per instance | proofs, extends `LifecycleProofs` |
| `GraphWalkProofs` | theorems about `TaskGraph`, the executors on what it builds, and `GraphWalk` | proofs |
| `DbLockProofs`, `DefinitionStoreProofs`, `A2ABridgeProofs` | theorems about the three | proofs |
| `MCScheduling`, `MCGraphWalk`, `MCDefinitionStore` | workflows, texts, plans and symmetry for TLC (`DbLock` and `A2ABridge` are run as they are) | instances |

### Scheduling

| Variable | Code |
| --- | --- |
| `rows` | `t_workflow_task_instance`, committed data; `uuid` is `task_instance_id`; `runs` is history (executions committed since the row was made WAIT) |
| `instances` | `workflow_status` of `t_workflow_instance` |
| `lock` | owner of MySQL's `GET_LOCK("scheduler_lock")` |
| `sched[e]` | where the scheduler goroutine of `e` is: idle, after `Obtain` (select), before the claim (update), before `Release`, in `Run` at a step of an attempt, all attempts failed, dead after a panic |
| `calls` | RPC goroutines blocked in `queue.Publish` |
| `observer[e]` | the message the observer of `e` is handling (at most one) |
| `callbacks[u]` | Transition calls still to come for the event that names `u`; -1 before the event |

Each action is one database statement, one channel rendezvous or one external call, so
every interleaving of engines at that grain is explored. An executing transaction has
written PROCESS, which nobody else can see: PROCESS is therefore not a committed
status; what others do see is the row lock (`Locked`). The status is *not* checked by
the claim, as in the code. The selected row is the newest by `create_time` (seconds)
and then the oldest by id, as `Order("create_time desc").First` gives it.

`Steps(t)` depends on the stored definition only; the outcome of a switch condition is
part of the relation (`cond`). `TaskDefinition` is not a column of the table, so the
local executors interpret nothing; the model follows the code.

### DbLock

`locks` are `Lock` values: connection (open, broken and not yet noticed, closed),
the `unlocker` channel, the refresher's position, the context. `free` counts what
`db.Conn` can still hand out. A broken session frees the lock in MySQL at once; the
client notices on its next statement. `RELEASE_LOCK` can also fail on a live session
(`ExecFails`): `Release` returns before `Close`, and the lock stays with an open session
that no client refers to (`kept`) until that session ends. `Scheduling` uses the lock without these
details: it is taken and released, and freed by a crash. `DbLock` justifies the
exclusion this assumes (`Exclusive`, as long as no session breaks) and shows
what the details add.

### TaskGraph and GraphWalk

A text is what the parser looks at of each definition (name, keys, `then`, cases, action), in
the order they are written. Nesting is kept as a field: an item has the index of the definition
around it (`parent`) and stands under its key or under its `catch.when` (`part`). What an error
drops is then a set of items (`ParseV1Task`: the items read without an error; `Adopted`: the
items that become children of the one around them; `FlattenTasks`: those the walk reaches), and texts
of any depth are sequences that need no recursive operator. `MCGraphWalk` writes its texts nested
and flattens them. The stored relations are a set of rows. `GraphWalk` saves a text, starts an
instance and runs pending tasks in any order with any outcome of the conditions. Relation rows are
inserted by concurrent goroutines and read without ORDER BY, so a task's relations come in any order.

A stored task is named by its name: ids are uuids, names are unique in an accepted workflow, and the
two reserved ids are no uuids (`GraphAssumption`). Names are *not* unique in the text: a fork branch
or `catch.when` that the parser drops may use a name again, so `JumpsTaken` speaks about the tasks
that were kept.

### DefinitionStore

| Variable | Code |
| --- | --- |
| `plan` | which request each writer makes (update: `Save` with an id, create: `Save` without, delete), and whether tasks run and instances start meanwhile |
| `rows` | committed status of each version in `t_workflow`, `t_workflow_task` (with its actions) and `t_workflow_task_relation`; a version is named after the writer that stored it |
| `inst`, `tasks` | committed rows of the two instance tables |
| `wr[w]` | the request: statements still to be sent (`todo`), the one that waits for a lock (`at`), its transaction and what it has invalidated (`inv`) and inserted (`ins`) so far, whether a handler failed |
| `eng` | the scheduler at one task: the three concurrent reads with their shared `err`, the claim, `Run`, the outcome |
| `starts`, `queue` | a `Start` request between its query and its insert, published tasks not inserted yet |

A transaction's writes become visible at its commit. Locks are those InnoDB takes on rows
found through the index on `workflow_id` under REPEATABLE READ: an UPDATE of the workflow's rows
excludes other UPDATEs and INSERTs of that workflow until its transaction ends, INSERTs
exclude UPDATEs but not each other. A statement that has to wait ends when it gets the lock, when
`innodb_lock_wait_timeout` passes, or when the server finds two transactions waiting for
each other and rolls one of them back. After such a rollback the connection is in
autocommit mode and the handlers of `GoAndWait` that have not run yet do not know:
each of their statements commits by itself. The model has that (`tx = "lost"`, `victims`).
`Transaction` returns the error of the COMMIT: the server may have refused it, or carried it out
and the reply was lost (`tx = "unsure"`); both are answered with an error.
The task and action tables are one table `"task"`, since no query looks at the status of
either.

`Assign` and `Return` are the two halves of a read in `SelectTaskInstance`: a handler
assigns the captured `err` and later returns whatever it is by then.

### A2ABridge

| Variable | Code |
| --- | --- |
| `call[c]` | an `Execute` inside `retry.Do` (attempt, polls so far, the task id it polls, the task's `input`), or the request of a foreign client |
| `handlers` | `handleSubmitTask` invocations under way; `live` while their client still waits |
| `work` | what the agent was given, in order; for the `WorkflowAgent` a started workflow instance |
| `tasks` | `WorkflowAgent.taskToWorkflow` |
| `told`, `lost` | history: ids that were answered; a restart of the agent |

The client's HTTP time-out (`GivesUp`) leaves its handler running. The uuid a handler draws is
the number of its work: nobody can use that key before the answer, so starting the
workflow and the first map entry are one step; the second entry, under the id of the
request, is a step of its own because two requests may carry the same id. A foreign client
chooses the id of a request from `ReqId`, which all clients share, or uses one that somebody was
told (`Ids`); the executor's own client sends none. The
`WorkflowAgent` reports "working" for every task it knows, as the code does.

## 3. Runs that pass

| Run | Shows | States |
| --- | --- | --- |
| `SchedulingOne` | one engine, two RPC goroutines, two instances, one failure or crash: `TypeOK`, a task being executed is WAIT, one token of control per instance, SUCCESS means nothing is left, events follow their sleeper, refinement of `TaskLifecycle` | 210 484 |
| `SchedulingMany` | three engines on a listener with a sleeping successor, on tasks that raise or panic and on agent calls, one failure or crash: at most two executions per readiness, nothing lost, a task that stopped its scheduler is still WAIT, every sleeper but the successor of an agent call has an event that wakes it | 327 969 |
| `SchedulingTwo` | two engines on a linear workflow and on a fork, fairness: every instance becomes SUCCESS | 13 712 |
| `SchedulingLive` | duplicated callbacks against one scheduler, one failure or crash, fairness: the scheduler/observer circular wait dissolves, tasks are executed, calls return | 14 490 |
| `DbLock` | two engines, two broken sessions or failed statements: exclusion, connection accounting, no session returned with the lock and no lock without a user unless `RELEASE_LOCK` failed, a lost lock's context is cancelled, `Release` returns until something fails | 87 384 |
| `GraphWalk` | 3871 texts: only stored tasks run, no instance ends silently, `then` is followed, every branch of a fork is run, what is stored meets the assumptions of the executors | 15 268 |
| `DefinitionStore` | two requests at once, or one against an engine that starts instances or runs tasks, two failures (a statement, a refused or unanswered COMMIT, a crash of the controller), fairness: `Save` is atomic and its answer true, up to a lost reply to the COMMIT, unless a deadlock hit it, one version is offered, an early end of an instance has an explanation, everybody returns | 627 362 |
| `A2ABridge` | a task that ends its workflow calls a foreign agent, or a `WorkflowAgent` that also serves a client which may use its own id twice or the id the other client was told, one failure or crash, fairness of the client only: results are own and completed, work is bounded, output is fed back only after a failed completion, an id that was told is known and leads to work of a request with that id, the call ends | 459 993 |

Deadlock is checked in all Scheduling runs but `SchedulingMany` (all schedulers may
be dead after a panic). It is not checked for `DbLock` (clients can really block for ever, see
below), nor where the system comes to rest: `GraphWalk` (an instance ends), `DefinitionStore`
and `A2ABridge` (all requests are answered).

`EverybodyReturns` is about a wait that no deadlock detection sees: `Save` waits for the row of a
task whose `Run` waits, on another connection, for the instance row that `Save` holds. Only
the lock-wait time-outs and the limit of `retry.Do` end it. `CallEnds` holds without any fairness
of the agent: it may never answer and never finish.

Properties that mention `faults = 0` say what holds while nothing fails: a failed insert
is only logged by the observer and does lose work, so they are false under failures.
`InstancesComplete` exempts behaviours with a failure for the same reason.
`OneToken` and `CompletedIsOver` are about workflows without forks and one engine.

## 4. Runs that find a disagreement

| Run | Property | What the code does |
| --- | --- | --- |
| `StrandedSleeper` | `NoStrandedSleeper` | a callback that overtakes the observer's insert is dropped; the task sleeps for ever |
| `LifecycleTwoEngines` | `LifecycleSpec` | a second engine executes a task again and turns SUCCESS into FAIL |
| `DbLockPing` | `ReleaseReturns` | after a failed ping the holder's `Release` blocks for ever |
| `DeleteMarksAll` | `DeleteMarksAll` | a task that was selected before a Delete is run after it, and its successor is inserted as WAIT (USAGE.md:450) |

`findings` in `PROJECT.json` quotes the documentation and the lines.

Other disagreements were met while modelling. The model follows the code there too, but
no run is devoted to them:

* an agent call with a successor puts the successor to sleep and publishes no event
  (`operation_task.go:74`), although USAGE.md:128 and 493 show such workflows going on.
  `SleeperHasWaker` shows that these are the only sleepers without a waker;
* `then` of a fork is ignored (`dal/workflow.go:433-450`; USAGE.md:204 and 382);
* the `WorkflowAgent` always answers "working" (DESIGN.md 7.3 promises the state, USAGE.md:680
  lists it as to do): a workflow that calls one always times out and submits again, and
  `RetryAttempts` instances are started for one task (`BoundedWork` is reached);
* two `Save` requests that create the same id can both pass the check for an existing
  workflow, since `workflow_id` has no unique key (`OneVersion` therefore assumes that a
  creating `Save` is alone);
* after a deadlock between two Saves the remaining statements of the victim are committed one
  by one although the request answers with an error (`SavesAreAtomic` and `ReportIsTrue` exclude
  victims);
* when the update that ends the workflow fails after an agent's answer, the retry calls the
  agent again on its own output (`FedBackIsExplained`);
* with two requests of the same id, of one client or of two, the handler that writes the
  workflow agent's map last decides, even one that is not awaited any more; the id then leads a
  client to the other instance (`ToldIsKnown` asks for work of a request with the same id);
* a `RELEASE_LOCK` that fails on a live session leaves the lock with an open session that
  nobody refers to any more (`lock.go:44-46`): no engine schedules until the session ends
  (`OwnerIsUser` says that this is the only way to get there);
* a COMMIT of `Save` whose reply is lost is answered with an error although the version is
  stored (`ReportIsTrue` names the case);
* task instances are selected newest first: under steady arrivals the oldest WAIT row is never
  executed. `WaitingIsExecuted` is about finitely many rows;
* operations whose name starts with `agent:` are published as events: the A2A check
  documents the prefix (`a2a_integration.go:25`) and tests something else (lines 34-38);
* the first branch of a fork that ends makes the workflow instance SUCCESS while the
  others still run (`CompletedIsOver` is about workflows without forks);
* a duplicated callback that was selected before the task ran makes the finished task
  WAIT again (`AtMostTwoRuns` therefore counts executions per readiness);
* a lock attempt that times out leaves its connection open (`lock_client.go:100`); in
  `DbLock` the pool's `free` never recovers it;
* the sub-tasks of `do` (USAGE.md 3.5) are not executed, because `TaskDefinition` is
  `gorm:"-"` and is empty when the executor reads the task.

## 5. Bounds

* Engines: three are enough to show the argument of `AtMostTwoRuns` (one executes, one
  waits, one would have to queue up); the theorem covers any number.
* Instances: one or two; two show that instances do not disturb each other while the newest
  row is taken first. Arrivals are finite, so the liveness properties say nothing of a row that
  newer ones keep overtaking.
* `MaxRows`, `MaxUuids` are chosen above what the chosen workflows can create, so an
  insert is not cut off in the passing runs (Deadlock checking would report it).
* `MaxFaults` = 0, 1 or 2 injected failures: each is a failed statement, a lost event, a
  failed agent call, a failed commit or a crash, anywhere.
* `RetryAttempts` = 2 (5 in the code): one retry shows the repeated prefix of `Run`. The
  theorems hold for any positive value.
* `CreateTime`: two rows per second, so that both the order by time and the tie occur.
* `DbLock`: two engines, pools of two connections, two slots. A slot is used
  again when neither client nor refresher has a step left on it; a refresher stuck on a
  full channel counts as such, it can never move again.
* `DefinitionStore`: two requests, since all the waits of the code are between two parties;
  deadlock cycles are therefore pairs. Combinations that cannot interact (two requests *and* running
  tasks *and* starts) are left out of `AllPlans`; the theorems cover all of them. `MaxInst` = 2, two
  failures, `RetryAttempts` = 2.
* `A2ABridge`: one executor, one foreign client, `MaxForeign` = 2: it can send the same id again
  while its first request is still handled, or send the id the executor was told, so that two
  requests of one client and requests of two clients fall under one key. The theorem is for any
  number of clients that share ids. `MaxRetry` = 2 polls (30 in the code), `RetryAttempts` = 2,
  one failure. An answer overtaken by a retry, a map entry written late and a repeated call on an output all occur.
* `GraphWalk`: two top-level tasks and two levels of nesting; `MaxRuns` = 6 cuts loops. The theorems
  are about texts of any size and depth and any `MaxRuns`.

## 6. Fairness

`Scheduling!Fairness`: the ticker fires for ever and each step of a scheduler that is
not a failure is taken when it stays possible (`Works`); the observer ranges over its
channel for ever (`Drains`); InnoDB ends a wait for a row lock (`LockWaitTimeout`);
the service behind an event calls back (`CallsBack`). No failure or crash is ever required.
Only weak fairness is used, per engine: a scheduler that waits for the named lock may
starve in theory, and no property needs that it does not. `DbLock!Fairness`: every
goroutine runs, timers fire, `GET_LOCK` has its time-out and the work under the lock ends.
`DefinitionStore!Fairness`: each request, the scheduler and the observer go on whenever they stay
able to, which includes that the server ends a lock wait; crashes and injected failures are
never required. `A2ABridge!Fairness`: each client goes on by its own loops and timers
(the HTTP time-out, the poll interval, `retry.Do`); nothing is assumed of the agent or
of the handlers.

## 7. What is proved

`SchedulingProofs` is checked by TLAPS for every value of the constants that satisfies
`ExecutorAssumption` (a stored definition: task types, relations to stored tasks or END)
and `SchedulingAssumption` (bounds are naturals, at least one attempt).

* `StepsGood`: `Steps(t)` is a sequence of well-formed operations for every stored task. The
  lemmas before it treat each executor; the choice of the first decisive condition and
  of the last default needs `LeastNat` and `GreatestNat`.
* `TypeCorrect` (`Spec => []TypeOK`): `TypeOK` is inductive as it stands because it
  includes the references between rows, instances, messages and schedulers. One
  lemma per group of actions.
* `TwoRunsAtMost` (`Spec => []AtMostTwoRuns`): the invariant `RunsInv` adds that who selects,
  updates or releases holds the named lock, that a row lock has one holder, and what
  may be under way for a row after its first and second commit: after the first, either the
  engine that was already waiting still waits or it executes, never both; after the second
  nobody works on the row. `AtMostTwoRuns` alone is not inductive: nothing in it stops a
  third engine from waiting.
* `SingleEngineRunsWaiting`: with one engine, `[]ExecutingIsWaiting`. The invariant reaches back
  to the select (`ClaimedIsWaiting`) and needs that every update through the queue
  writes WAIT (`WakeUps`).

`FlowProofs` holds under the same assumptions, for any number of engines, callers, callbacks and
rows. Its base is `QueueInv`: an observer has at most one message, an insert has an id exactly
if it is of a sleeper, an update writes WAIT to the row with its id, no engine works on a
sleeping row, and an id that was not drawn yet has no callback.

* `EventFollowsSuccessor` (`[]AnnouncedIsQueued`): the invariant `AnnouncedInv` reaches back to
  the moment an engine has drawn an id: from then on, not only from the event on, the
  successor is with an observer or in the table.
* `PanicIsNotReported` (`[]PanicLeavesTaskWaiting`): `PanicInv` says that an engine on such a
  task has its panic still ahead and is never in the state that reports a failure.
  Nothing but a publish comes before a panic (`BeforePanic`).
* `WorkIsNeverDropped` (`NoSilentTask => []NothingLost`): a row that is SUCCESS has a later row of its
  instance, a message on its way, or a finished instance (`Followed`), and an engine in the
  middle of `Run` has already provided that if it has passed the publish or the completion
  (`DoneSoFar`). `NoSilentTask` (an event, listen or switch task has a transition) is needed: their
  executors return without completing the instance otherwise. The graph builder gives every
  task a relation: `DefinitionsAreExecutable` proves the hypothesis for every accepted text.
* `SleepersAreAwaited` (`SuccessorsAreAwaited => []SleeperHasWaker`): `WakerInv` extends the claim to
  sleepers that are still with an observer, and to runs that have drawn the id and have
  their event ahead. The hypothesis excludes operations that put a successor to sleep and have no
  event or agent call (no action name, a local action type, a name that panics); the code strands
  those, as it does the successor of an agent call.

`LifecycleProofs` is about the status column.

* `EndedIsNotReopened` (`Callbacks <= 1 => [][EndedStaysEnded]_vars`), for any number of engines: the
  observer updates a row by its id whatever status it has by then, so one has to show
  that no such update is under way. `WakeOnceInv`: the callback of an id is used once, at most one
  wake-up of a row is on its way, and while it is the row still sleeps; a row with an id that does
  not sleep has its callback spent.
* `OneEngineImplementsLifecycle` (`Engine = {only} /\ Callbacks <= 1 => (Spec => LifecycleSpec)`): the
  initial state and each step map to `TaskLifecycle`, with `WakeOnceInv` for the observer and
  `ClaimedIsWaiting` for the scheduler. Both hypotheses are needed: the run `LifecycleTwoEngines`
  refutes the refinement with a second engine, and with `Callbacks = 2` TLC refutes it for one.

`TokenProofs`: `ControlIsOneToken` and `CompletionIsLast` (`[]OneToken`, `[]CompletedIsOver`) for one
engine, `Callbacks <= 1`, `SuccessorsAreAwaited`, and a set `F` of tasks that contains the start tasks, is
closed under publishing and has no fork. `TokenInv` says for each instance that its live rows, its
messages with observers and those of RPC goroutines are together at most one, where a row under
execution stops being live at the publish and not at the commit, and none if the instance is
SUCCESS. `OneToken` alone is not inductive: it does not count a row that is in a transaction, so it
says nothing of a message that would already be there when the run begins, or of a row
that comes back when a run fails.

The constants of the `Scheduling` runs satisfy `NoSilentTask` and `SuccessorsAreAwaited`, and those of
`SchedulingOne` all the hypotheses of `TokenProofs` with `F = {order, route, ship}`: the
theorems speak about the checked instances too, and about all larger ones.

`DbLockProofs` holds for any number of engines, slots, pool sizes and failures, under
`DbLockAssumption`.

* `LockExclusive` and `OwnerUses` (`[]Exclusive`, `[]OwnerIsUser`): parts of `LockInv`, which adds that a
  client has a `Lock` value exactly from Obtain to the end of its Release (`OwnValue`), that the
  named lock belongs to every such value whose connection is open and no longer when it is about to
  be closed (`Owns`), and that a refresher releases only what is lost (`ReleasesLost`).
* `PoolSound` (`[]TypeOK`, of which the bound on `free` is the hard part): free connections, the one
  `GET_LOCK` runs on and those of `Lock` values not given back are at most `MaxOpen`
  (`Accounts`). Release, refresher and failures race for one value; none gives its
  connection back twice.

`DefinitionStoreProofs` holds for any set of writers, any plans and any number of failures, under
`StoreAssumption`. `SavesAtomic`, `ReportsTrue` and `VersionUnique` (`[]SavesAreAtomic`,
`[]ReportIsTrue`, `[]OneVersion`) are parts of one inductive invariant `StoreInv`. None is inductive
alone (`ReportIsTrue` distinguishes a COMMIT that was refused from one whose reply was lost): at the
commit one must know that the transaction has invalidated all tables or none
and inserted into all of them (`Deleting`, `Creating`: what is not in `todo` and did not fail is
in `inv` or `ins`), that nothing of the version was visible before (`Unseen`), that only deadlock
victims are outside their transaction (`LostIsVictim`), and, for a creating Save, that no
version is offered after its check (`CreatesNew`). The argument does not use the locks: it is
the single commit that makes a Save atomic.

`StoreTyped` (`[]TypeOK`) adds `RunTypes`: published tasks, too, belong to stored instances. Its key
lemma is that no step removes a row or gives it to another instance or version
(`TablesKeep`). `EarlyEndsExplained` (`[]EarlyEndIsExplained`) needs `EarlyInv`: the rows of a version are
inserted once, also by a victim of a deadlock that commits statement by statement (`InsertsOnce`), so
a status only goes from normal to invalid (`Ages`); tasks, messages and starts
are of versions whose relations were committed (`VersionsKnown`), so a relation that is not found was
invalidated; and the excuse holds from the moment the handler assigned its result until
the task ends (`ReadsExcused`).

`A2ABridgeProofs` holds for any clients, `RetryAttempts`, `MaxRetry` and number of failures, under
`BridgeAssumption`. `BridgeTypes`, `ResultsOwn`, `FedBackExplained` and `ToldKnown` follow from
`BridgeInv`: a handler past `Start` has work of its client, started by a request with its id, and its
ids are in the map (`HandlerOk`), a call that polls does so on its own work (`CallOk`), an entry of
the map, and what a client was told, is the work the id was drawn for or work of a request
that came with the id (`MapInv`, `ToldInv`); handlers of several clients may overwrite each other's
entry, never with work of another id. What the agent has only grows (`Grows`), so the facts about
handlers and calls that a step does not touch carry over. `WorkBounded` (`[]BoundedWork`) counts:
work of an executor plus handlers that will still start some is at most
`RetryAttempts * faults` plus the attempts of the current life that are past their `SendTask`
(`CountInv`). The handlers have to be counted because a client that gave up leaves them
running.

`GraphWalkProofs` holds for any set of texts of either dialect, of any size and depth, and any
`MaxRuns`, under `GraphAssumption` (the items are records of the right shape, nested ones come after
the one around them, no name is a reserved id).

* `StoredIsWellFormed`: of an accepted text every stored relation leads to a stored task or to END,
  that of START to a stored task, and every task has at least one relation and finitely many.
  `SwitchRelations`, `ForkRelations` and `OtherRelations` treat the three builders; `StoredRelations`
  shows that the rows found for a task are exactly those built for it, which rests on the uniqueness of
  names. Which items the parser keeps does not matter: the argument only uses that `Validate` has seen
  all the tasks that are stored, so nothing has to be known of the recursion.
* `TaskRun`, the key lemma: a run of any executor on a well-formed graph creates task instances of
  stored tasks only, reaches a publish or a completion or fails, follows the one relation of a
  task that is neither a switch nor a fork, and all the relations of a fork with branches, in
  whatever order the rows are read (`SeqOfSet`, by the pigeonhole principle). The cases are
  `OperationRun`, `SwitchRun` and `LocalRun`.
* `TypeCorrect`, `NeverSilent`, `ThenIsTaken` and `BranchesAreRun` (`[]TypeOK`, `[]NoSilentEnd`,
  `[]JumpsTaken`, `[]BranchesRun`) are consequences of `WalkInv`. None is inductive
  alone: what is stored must be what was built of an accepted text (`GraphInv`), nothing runs
  before the start (`StartInv`), and the target of a task that was run, and each branch of a fork, is
  pending as long as it was not run itself (`FollowInv`, `ForkInv`); `JumpsTaken` and `BranchesRun`
  say nothing of an instance that has not ended.
* `DefinitionsAreExecutable` (`[]StoredIsExecutable`) composes the parts: what `Save` stores satisfies
  `ExecutorAssumption`, for each order of the rows and each outcome of the conditions, and the
  hypothesis `NoSilentTask` of `WorkIsNeverDropped`. The theorems about `Scheduling` are therefore about
  every workflow that can be saved, up to the other hypotheses they name. `Actions` had to be wider for
  this than a first version of `TaskExecutors` had it: tasks without a call are stored with their own
  type as the type of their action.

The inductive invariants were checked with TLC before they were proved. Only
model-checked: liveness and anything with ENABLED (outside the prover's reach), which are
`WaitingIsExecuted`, `InstancesComplete`, `CallsReturn`, `LostIsCancelled`, `HealthyRelease`,
`EverybodyReturns` and `CallEnds`. Every safety invariant of a passing run is a theorem. What the
recursive functions in `ParseV1Task` and `FlattenTasks` compute for each text is not characterised
further: that would be an induction over data.

## 8. Not modelled

* Data: inputs and outputs, jq filters and expressions (only the outcome of conditions).
* `metrics`: at this commit `getPrometheusMetricsByConfig` leaves the `gauges` map nil,
  and writing it panics at start-up; `task_output_filter` is not in `mysql-schema.sql`. The
  model is of an engine that has started, with a schema that fits the structs.
* The EventMesh queue: its `init` runs before the configuration is loaded, so it is never
  registered.
* The controller's `Start`: its process does not observe the in-memory queue, so the call
  blocks after inserting the instance.
* The listing queries (`SelectList`, `SelectInstances`), the agent card and health pages, and
  message building: they keep no state and no property depends on them. Generated
  code, configuration.
* Panics inside `GoAndWait` handlers: they are recovered and counted as success, but no
  handler of this code panics before its statement was sent.
* A `Transition` without a task instance id (it matches any sleeping row of the instance).

## 9. Plan

1. (done) `TaskExecutors`, `Scheduling`, `TaskLifecycle`, `DbLock`, `TaskGraph`, `GraphWalk`.
2. (done) `DefinitionStore`: `Save` and `Delete` against each other and against a running engine.
3. (done) `A2ABridge`: the A2A executor under `retry.Do` and the workflow agent's task map.
4. (done) The theorems of section 7.
5. (done) Proofs about `TaskGraph` and `GraphWalk`, with nesting as a field in place of recursion.
6. Left: theorems for several engines in place of the one-engine ones (what `OneToken` becomes when
   a task may be executed twice).
