----------------------------- MODULE Scheduling -----------------------------
(***************************************************************************)
(* The run-time core of the workflow engine: any number of engine          *)
(* processes over one MySQL database.  Each engine has                     *)
(*   - a scheduler goroutine (internal/schedule/inline_scheduler.go) that  *)
(*     takes one WAIT task instance at a time and executes it inside a     *)
(*     database transaction,                                               *)
(*   - an unbuffered queue with one observer goroutine                     *)
(*     (internal/queue/in_memory_queue.go) that writes published task      *)
(*     instances to the database, and                                      *)
(*   - RPC goroutines (flow/engine.go) that start instances and that turn  *)
(*     EventMesh callbacks into transitions.                               *)
(*                                                                         *)
(* `rows' and `instances' hold COMMITTED data only.  An executing          *)
(* transaction has updated its row to PROCESS, which nobody else can see   *)
(* (reads are consistent snapshots) but which holds the row lock until the *)
(* transaction ends: see Locked.                                           *)
(***************************************************************************)
EXTENDS TaskExecutors, FiniteSets

CONSTANTS
    Engine,         \* engine processes
    Caller,         \* RPC goroutines that may be active at a time
    Nobody,         \* the owner of the free scheduler lock
    StartTask,      \* first tasks of the stored workflows
    CreateTime,     \* create_time (whole seconds) of each row
    RetryAttempts,  \* runs of a task before it is failed (5 in the code)
    Callbacks,      \* Transition calls the service makes for one event
    MaxInstances, MaxRows, MaxUuids, MaxFaults   \* bounds of the model

ASSUME SchedulingAssumption ==
    /\ Nobody \notin Engine
    /\ StartTask \subseteq Task
    /\ MaxInstances \in Nat /\ MaxRows \in Nat /\ MaxUuids \in Nat
    /\ MaxFaults \in Nat /\ Callbacks \in Nat
    /\ RetryAttempts \in Nat \ {0}
    /\ CreateTime \in [1 .. MaxRows -> Nat]

VARIABLES
    rows,       \* t_workflow_task_instance, by primary key
    instances,  \* workflow_status of t_workflow_instance, by primary key
    lock,       \* owner of the named lock "scheduler_lock"
    sched,      \* the scheduler goroutine of each engine
    calls,      \* RPC goroutines blocked in queue.Publish
    observer,   \* the message the observer of each engine is handling
    callbacks,  \* Transition calls still to come for each event, -1: no event
    uuids,      \* task instance ids drawn for sleeping rows so far
    faults      \* failures injected so far

vars == << rows, instances, lock, sched, calls, observer, callbacks, uuids, faults >>

Status   == {"SLEEP", "WAIT", "SUCCESS", "FAIL"}
Terminal == {"SUCCESS", "FAIL"}

(* `uuid' is the task_instance_id, 0 for the rows no event ever names.     *)
(* `runs' is history: executions committed since the row was last made     *)
(* WAIT.                                                                   *)
RowSet == [inst : Nat, task : Task, uuid : Nat, status : Status, runs : Nat]

(* What travels through the queue: id 0 is a new task instance.            *)
Msg == [id : Nat, inst : Nat, task : Task, uuid : Nat, status : {"SLEEP", "WAIT"}]

PC == {"idle", "select", "update", "release", "run", "failed", "dead"}

SchedSet == [pc : PC, row : Nat, attempt : Nat, step : Nat, uuid : Nat]

Idle == [pc |-> "idle", row |-> 0, attempt |-> 0, step |-> 0, uuid |-> 0]

Init ==
    /\ rows = << >>
    /\ instances = << >>
    /\ lock = Nobody
    /\ sched = [e \in Engine |-> Idle]
    /\ calls = {}
    /\ observer = [e \in Engine |-> {}]
    /\ callbacks = [u \in 1 .. MaxUuids |-> -1]
    /\ uuids = 0
    /\ faults = 0

-----------------------------------------------------------------------------
(* The row lock of InnoDB: e has updated row r and not yet committed.      *)
Holds(e, r) ==
    /\ r # 0
    /\ sched[e].row = r
    /\ sched[e].pc \in {"release", "run", "failed"}

Locked(r) == \E e \in Engine : Holds(e, r)

Fault == faults < MaxFaults /\ faults' = faults + 1

NoFault == UNCHANGED faults

-----------------------------------------------------------------------------
(* handle and lock: a tick begins a transaction and takes the named lock.  *)
(* A tick that cannot get it within two seconds gives up.                  *)
Obtain(e) ==
    /\ sched[e].pc = "idle"
    /\ lock = Nobody
    /\ lock' = e
    /\ sched' = [sched EXCEPT ![e].pc = "select"]
    /\ UNCHANGED << rows, instances, calls, observer, callbacks, uuids, faults >>

(* Mutation: the status condition of the query only leaves out sleepers.   *)
WaitingOrDone == {r \in DOMAIN rows : rows[r].status # "SLEEP"}

Waiting == {r \in DOMAIN rows : rows[r].status = "WAIT"}

(* ORDER BY create_time DESC, then by primary key. *)
SelectedFirst(r) ==
    /\ r \in Waiting
    /\ \A q \in Waiting : \/ CreateTime[q] < CreateTime[r]
                          \/ CreateTime[q] = CreateTime[r] /\ r <= q

(* SelectTaskInstance reads committed data, outside the transaction. *)
SelectTask(e) ==
    /\ sched[e].pc = "select"
    /\ \/ \E r \in Waiting :
            /\ SelectedFirst(r)
            /\ sched' = [sched EXCEPT ![e] = [@ EXCEPT !.pc = "update", !.row = r]]
       \/ /\ Waiting = {}
          /\ sched' = [sched EXCEPT ![e].pc = "release"]
    /\ UNCHANGED << rows, instances, lock, calls, observer, callbacks, uuids, faults >>

(* Mutation: the update does not wait for the row lock. *)
ClaimUnlocked(e) ==
    /\ sched[e].pc = "update"
    /\ sched' = [sched EXCEPT ![e].pc = "release"]
    /\ UNCHANGED << rows, instances, lock, calls, observer, callbacks, uuids, faults >>

(* UPDATE ... SET status = PROCESS WHERE id = row, inside the transaction: *)
(* waits for the row lock, with the named lock held, and does not look at  *)
(* the status the row has by then.                                         *)
ClaimTask(e) ==
    /\ sched[e].pc = "update"
    /\ ~ Locked(sched[e].row)
    /\ sched' = [sched EXCEPT ![e].pc = "release"]
    /\ UNCHANGED << rows, instances, lock, calls, observer, callbacks, uuids, faults >>

(* fetchTask returns an error: innodb_lock_wait_timeout while another      *)
(* transaction has the row, or any failure of the database.                *)
FetchFails(e) ==
    /\ sched[e].pc \in {"select", "update"}
    /\ \/ sched[e].pc = "update" /\ Locked(sched[e].row) /\ NoFault
       \/ Fault
    /\ sched' = [sched EXCEPT ![e] = [@ EXCEPT !.pc = "release", !.row = 0]]
    /\ UNCHANGED << rows, instances, lock, calls, observer, callbacks, uuids >>

(* The deferred Release runs when fetchTask returns, before the            *)
(* transaction commits; without a task the transaction ends here.          *)
Release(e) ==
    /\ sched[e].pc = "release"
    /\ lock' = Nobody
    /\ sched' = [sched EXCEPT ![e] =
                   IF @.row = 0 THEN Idle
                   ELSE [@ EXCEPT !.pc = "run", !.attempt = 1, !.step = 1]]
    /\ UNCHANGED << rows, instances, calls, observer, callbacks, uuids, faults >>

-----------------------------------------------------------------------------
(* Execution: the steps of Run, retried from the first one on an error.    *)
TaskOf(e) == rows[sched[e].row].task

Running(e, op) ==
    /\ sched[e].pc = "run"
    /\ sched[e].step <= Len(Steps(TaskOf(e)))
    /\ Steps(TaskOf(e))[sched[e].step].op = op

Advance(e, u) ==
    sched' = [sched EXCEPT ![e] = [sched[e] EXCEPT !.step = @ + 1, !.uuid = u]]

(* retry.Do with retry.Attempts(RetryAttempts). *)
Retry(e) ==
    sched' = [sched EXCEPT ![e] =
                IF sched[e].attempt < RetryAttempts
                THEN [sched[e] EXCEPT !.attempt = @ + 1, !.step = 1, !.uuid = 0]
                ELSE [sched[e] EXCEPT !.pc = "failed"]]

(* Mutation: the message is not among those handed to the queue. *)
PublishNothing(e) ==
    /\ Running(e, "publish")
    /\ Advance(e, 0)
    /\ UNCHANGED << rows, instances, lock, calls, observer, callbacks, uuids, faults >>

(* The send on the unbuffered channel completes when the observer takes    *)
(* the message, which is before it is in the database.                     *)
PublishTask(e) ==
    /\ Running(e, "publish")
    /\ observer[e] = {}
    /\ LET s == Steps(TaskOf(e))[sched[e].step]
           u == IF s.status = "SLEEP" THEN uuids + 1 ELSE 0
       IN  /\ u <= MaxUuids
           /\ uuids' = IF s.status = "SLEEP" THEN u ELSE uuids
           /\ observer' = [observer EXCEPT ![e] =
                {[id |-> 0, inst |-> rows[sched[e].row].inst, task |-> s.to,
                  uuid |-> u, status |-> s.status]}]
           /\ Advance(e, u)
    /\ UNCHANGED << rows, instances, lock, calls, callbacks, faults >>

SkipStep(e) ==
    /\ Running(e, "skip")
    /\ Advance(e, sched[e].uuid)
    /\ UNCHANGED << rows, instances, lock, calls, observer, callbacks, uuids, faults >>

(* The event reaches the service that will call Transition with the uuid   *)
(* of the sleeping successor; other events name no sleeping row, and the   *)
(* callback they cause finds nothing to do.                                *)
Announce(u) ==
    callbacks' = IF u = 0 THEN callbacks ELSE [callbacks EXCEPT ![u] = Callbacks]

(* Mutation: the event does not carry the id of the sleeping successor. *)
EventWithoutId(e) ==
    /\ Running(e, "event")
    /\ Advance(e, sched[e].uuid)
    /\ UNCHANGED << rows, instances, lock, calls, observer, callbacks, uuids, faults >>

PublishEvent(e) ==
    /\ Running(e, "event")
    /\ Announce(sched[e].uuid)
    /\ Advance(e, sched[e].uuid)
    /\ UNCHANGED << rows, instances, lock, calls, observer, uuids, faults >>

(* The catalog or EventMesh is unreachable, or the publish was carried out *)
(* and only its acknowledgement is lost.                                   *)
EventFails(e) ==
    /\ Running(e, "event")
    /\ Fault
    /\ Announce(sched[e].uuid) \/ UNCHANGED callbacks
    /\ Retry(e)
    /\ UNCHANGED << rows, instances, lock, calls, observer, uuids >>

(* The agent is polled to completion; its output goes nowhere. *)
CallAgent(e) ==
    /\ Running(e, "a2a")
    /\ \/ Advance(e, sched[e].uuid) /\ NoFault
       \/ Retry(e) /\ Fault
    /\ UNCHANGED << rows, instances, lock, calls, observer, callbacks, uuids >>

(* Mutation: the workflow status is missing from the update. *)
CompleteNothing(e) ==
    /\ Running(e, "complete")
    /\ Advance(e, sched[e].uuid)
    /\ UNCHANGED << rows, instances, lock, calls, observer, callbacks, uuids, faults >>

(* UpdateInstance runs on its own connection: it is visible at once. *)
CompleteWorkflow(e) ==
    /\ Running(e, "complete")
    /\ \/ /\ instances' = [instances EXCEPT ![rows[sched[e].row].inst] = "SUCCESS"]
          /\ Advance(e, sched[e].uuid)
          /\ NoFault
       \/ /\ Fault
          /\ Retry(e)
          /\ UNCHANGED instances
    /\ UNCHANGED << rows, lock, calls, observer, callbacks, uuids >>

TaskErrors(e) ==
    /\ Running(e, "error")
    /\ Retry(e)
    /\ UNCHANGED << rows, instances, lock, calls, observer, callbacks, uuids, faults >>

(* Mutation: a deferred commit instead of the rollback. *)
PanicCommits(e) ==
    /\ Running(e, "panic")
    /\ rows' = [rows EXCEPT ![sched[e].row].status = "SUCCESS"]
    /\ sched' = [sched EXCEPT ![e].pc = "dead"]
    /\ UNCHANGED << instances, lock, calls, observer, callbacks, uuids, faults >>

(* gorm rolls back and the panic goes on to the recover of Run, which is   *)
(* outside the ticker loop: this engine schedules nothing any more.        *)
Panic(e) ==
    /\ Running(e, "panic")
    /\ sched' = [sched EXCEPT ![e].pc = "dead"]
    /\ UNCHANGED << rows, instances, lock, calls, observer, callbacks, uuids, faults >>

(* Mutation: PROCESS is left as it is. *)
OutcomeProcess(e) ==
    CASE sched[e].pc = "failed" -> "FAIL"
      [] OTHER -> "PROCESS"

(* The second UpdateTaskInstance and the commit. *)
Outcome(e) ==
    CASE sched[e].pc = "failed" -> "FAIL"
      [] OTHER -> "SUCCESS"

Finished(e) ==
    \/ sched[e].pc = "failed"
    \/ sched[e].pc = "run" /\ sched[e].step > Len(Steps(TaskOf(e)))

Commit(e) ==
    /\ Finished(e)
    /\ LET r == sched[e].row
       IN  rows' = [rows EXCEPT ![r] =
                      [rows[r] EXCEPT !.status = Outcome(e), !.runs = @ + 1]]
    /\ sched' = [sched EXCEPT ![e] = Idle]
    /\ UNCHANGED << instances, lock, calls, observer, callbacks, uuids, faults >>

(* The update or the commit fails: the row is WAIT again. *)
Rollback(e) ==
    /\ Finished(e)
    /\ Fault
    /\ sched' = [sched EXCEPT ![e] = Idle]
    /\ UNCHANGED << rows, instances, lock, calls, observer, callbacks, uuids >>

-----------------------------------------------------------------------------
(* The observer goroutine. *)
Receive(e) ==
    /\ observer[e] = {}
    /\ \E k \in calls :
         /\ k.at = e
         /\ calls' = calls \ {k}
         /\ observer' = [observer EXCEPT ![e] = {k.msg}]
    /\ UNCHANGED << rows, instances, lock, sched, callbacks, uuids, faults >>

(* Mutation: the insert leaves out the task instance id. *)
InsertWithoutUuid(e) ==
    /\ Len(rows) < MaxRows
    /\ \E m \in observer[e] :
         /\ m.id = 0
         /\ rows' = Append(rows, [inst |-> m.inst, task |-> m.task, uuid |-> 0,
                                  status |-> m.status, runs |-> 0])
    /\ observer' = [observer EXCEPT ![e] = {}]
    /\ UNCHANGED << instances, lock, sched, calls, callbacks, uuids, faults >>

InsertTask(e) ==
    /\ Len(rows) < MaxRows
    /\ \E m \in observer[e] :
         /\ m.id = 0
         /\ rows' = Append(rows, [inst |-> m.inst, task |-> m.task, uuid |-> m.uuid,
                                  status |-> m.status, runs |-> 0])
    /\ observer' = [observer EXCEPT ![e] = {}]
    /\ UNCHANGED << instances, lock, sched, calls, callbacks, uuids, faults >>

(* Mutation: a transition is inserted as a new row. *)
UpdateInserts(e) ==
    /\ Len(rows) < MaxRows
    /\ \E m \in observer[e] :
         /\ m.id # 0
         /\ ~ Locked(m.id)
         /\ rows' = Append(rows, [inst |-> m.inst, task |-> m.task, uuid |-> m.uuid,
                                  status |-> m.status, runs |-> 0])
    /\ observer' = [observer EXCEPT ![e] = {}]
    /\ UNCHANGED << instances, lock, sched, calls, callbacks, uuids, faults >>

(* Every field of the message is written, whatever the row has become      *)
(* since Transition read it; waits for the row lock.                       *)
UpdateTask(e) ==
    /\ \E m \in observer[e] :
         /\ m.id # 0
         /\ ~ Locked(m.id)
         /\ rows' = [rows EXCEPT ![m.id] = [@ EXCEPT !.status = m.status, !.runs = 0]]
    /\ observer' = [observer EXCEPT ![e] = {}]
    /\ UNCHANGED << instances, lock, sched, calls, callbacks, uuids, faults >>

(* Mutation: the database waits for row locks without a limit. *)
LockWaitForever(e) ==
    /\ \E m \in observer[e] : m.id # 0 /\ Locked(m.id)
    /\ UNCHANGED vars

(* A failed write is logged and the message is gone: innodb_lock_wait_     *)
(* timeout, or any failure of the database.                                *)
LockWaitTimeout(e) ==
    /\ \E m \in observer[e] : m.id # 0 /\ Locked(m.id)
    /\ observer' = [observer EXCEPT ![e] = {}]
    /\ UNCHANGED << rows, instances, lock, sched, calls, callbacks, uuids, faults >>

ObserveFails(e) ==
    /\ observer[e] # {}
    /\ Fault
    /\ observer' = [observer EXCEPT ![e] = {}]
    /\ UNCHANGED << rows, instances, lock, sched, calls, callbacks, uuids >>

-----------------------------------------------------------------------------
(* RPC goroutines. *)
Free(c) == \A k \in calls : k.by # c

(* Engine.Start: the instance is committed before its first task is        *)
(* published.                                                              *)
Start(c, e) ==
    /\ Free(c)
    /\ Len(instances) < MaxInstances
    /\ instances' = Append(instances, "PROCESS")
    /\ \E t \in StartTask :
         calls' = calls \cup
           {[by |-> c, at |-> e,
             msg |-> [id |-> 0, inst |-> Len(instances) + 1, task |-> t,
                      uuid |-> 0, status |-> "WAIT"]]}
    /\ UNCHANGED << rows, lock, sched, observer, callbacks, uuids, faults >>

SleepingRows(u) == {r \in DOMAIN rows : rows[r].status = "SLEEP" /\ rows[r].uuid = u}

(* Engine.Transition: without a sleeping row the call returns nil and the  *)
(* callback is used up.                                                    *)
Transition(c, e) ==
    /\ Free(c)
    /\ \E u \in 1 .. MaxUuids :
         /\ callbacks[u] > 0
         /\ callbacks' = [callbacks EXCEPT ![u] = @ - 1]
         /\ \/ \E r \in SleepingRows(u) :
                 calls' = calls \cup
                   {[by |-> c, at |-> e,
                     msg |-> [id |-> r, inst |-> rows[r].inst, task |-> rows[r].task,
                              uuid |-> u, status |-> "WAIT"]]}
            \/ SleepingRows(u) = {} /\ UNCHANGED calls
    /\ UNCHANGED << rows, instances, lock, sched, observer, uuids, faults >>

-----------------------------------------------------------------------------
(* The process of e dies and is restarted: its transaction is rolled back, *)
(* its locks are freed with its connections, and what was in memory is     *)
(* gone.                                                                   *)
Crash(e) ==
    /\ Fault
    /\ lock' = IF lock = e THEN Nobody ELSE lock
    /\ sched' = [sched EXCEPT ![e] = Idle]
    /\ observer' = [observer EXCEPT ![e] = {}]
    /\ calls' = {k \in calls : k.at # e}
    /\ UNCHANGED << rows, instances, callbacks, uuids >>

-----------------------------------------------------------------------------
Execute(e) ==
    \/ PublishTask(e) \/ SkipStep(e) \/ PublishEvent(e) \/ EventFails(e)
    \/ CallAgent(e) \/ CompleteWorkflow(e) \/ TaskErrors(e) \/ Panic(e)
    \/ Commit(e) \/ Rollback(e)

Schedule(e) ==
    Obtain(e) \/ SelectTask(e) \/ ClaimTask(e) \/ FetchFails(e) \/ Release(e)

Observe(e) ==
    \/ Receive(e) \/ InsertTask(e) \/ UpdateTask(e)
    \/ LockWaitTimeout(e) \/ ObserveFails(e)

Next ==
    \E e \in Engine :
        \/ Schedule(e) \/ Execute(e) \/ Observe(e) \/ Crash(e)
        \/ \E c \in Caller : Start(c, e) \/ Transition(c, e)

Spec == Init /\ [][Next]_vars

-----------------------------------------------------------------------------
(* Fairness.  The ticker fires for ever and every call a scheduler makes   *)
(* returns (the blocking ones have time-outs of their own), the observer   *)
(* ranges over the channel for ever, innodb_lock_wait_timeout ends a wait  *)
(* for a row lock that is never freed, and the service behind an event     *)
(* does call back.  No failure is ever required to happen.                 *)
Works(e) ==
    \/ Obtain(e) \/ SelectTask(e) \/ ClaimTask(e) \/ Release(e)
    \/ PublishTask(e) \/ SkipStep(e) \/ PublishEvent(e)
    \/ CallAgent(e) /\ NoFault
    \/ CompleteWorkflow(e) /\ NoFault
    \/ TaskErrors(e) \/ Panic(e) \/ Commit(e)

Drains(e) == Receive(e) \/ InsertTask(e) \/ UpdateTask(e)

CallsBack == \E c \in Caller, e \in Engine : Transition(c, e)

Fairness ==
    /\ \A e \in Engine :
         /\ WF_vars(Works(e))
         /\ WF_vars(Drains(e))
         /\ WF_vars(LockWaitTimeout(e))
    /\ WF_vars(CallsBack)

FairSpec == Spec /\ Fairness

-----------------------------------------------------------------------------
(* PROPERTIES *)

StateTypes ==
    /\ rows \in Seq(RowSet)
    /\ instances \in Seq({"PROCESS", "SUCCESS"})
    /\ lock \in Engine \cup {Nobody}
    /\ sched \in [Engine -> SchedSet]
    /\ calls \subseteq [by : Caller, at : Engine, msg : Msg]
    /\ observer \in [Engine -> SUBSET Msg]
    /\ callbacks \in [1 .. MaxUuids -> Int]
    /\ uuids \in 0 .. MaxUuids
    /\ faults \in 0 .. MaxFaults

RefersTo(m) == m.id \in 0 .. Len(rows) /\ m.inst \in 1 .. Len(instances)

RowExists(s) ==
    /\ s.row \in 0 .. Len(rows)
    /\ s.pc \in {"idle", "select"} => s.row = 0
    /\ s.pc \in {"update", "run", "failed", "dead"} => s.row # 0
    /\ s.pc = "run" => s.step # 0

References ==
    /\ \A e \in Engine : RowExists(sched[e]) /\ \A m \in observer[e] : RefersTo(m)
    /\ \A k \in calls : RefersTo(k.msg)
    /\ \A r \in 1 .. Len(rows) : rows[r].inst \in 1 .. Len(instances)

(* The state is well formed.  No table has a foreign key and every id      *)
(* travels through memory, yet the row a scheduler works on, the row a     *)
(* queued transition names and the instance of every task instance exist.  *)
TypeOK == StateTypes /\ References

(* However many engines share the database, one readiness of a task        *)
(* instance leads to at most two committed executions.  The named lock is  *)
(* released before the commit, so a second engine can select a row that a  *)
(* first one is executing and run it again; but it waits for the row with  *)
(* the named lock held, so a third one cannot queue up behind it.          *)
AtMostTwoRuns == \A r \in DOMAIN rows : rows[r].runs <= 2

(* With one engine a row is executed only while it is WAIT in the          *)
(* database, from its claim to the end of its transaction: neither a retry *)
(* nor the engine that starts after a crash takes up a finished row.  (A   *)
(* duplicated callback can make a finished row WAIT again.)                *)
ExecutingIsWaiting ==
    \A e \in Engine : \A r \in DOMAIN rows : Holds(e, r) => rows[r].status = "WAIT"

(* The task of an instance that is still to be run: its row is SLEEP or    *)
(* WAIT and in no transaction, or it is on its way to the database.        *)
PendingRows(i) ==
    {r \in DOMAIN rows : /\ rows[r].inst = i
                         /\ rows[r].status \notin Terminal
                         /\ ~ Locked(r)}

InFlight(i) ==
    {e \in Engine : \E m \in observer[e] : m.id = 0 /\ m.inst = i}
      \cup {k \in calls : k.msg.id = 0 /\ k.msg.inst = i}

(* Control of a workflow without forks is a single token: as long as       *)
(* nothing fails, at most one task of an instance is still to be run.      *)
OneToken ==
    faults = 0 => \A i \in DOMAIN instances :
                     Cardinality(PendingRows(i)) + Cardinality(InFlight(i)) <= 1

(* A SUCCESS workflow instance has nothing left to run. *)
CompletedIsOver ==
    faults = 0 => \A i \in DOMAIN instances :
                     instances[i] = "SUCCESS" => PendingRows(i) = {} /\ InFlight(i) = {}

(* Work is never dropped between two components: as long as nothing fails, *)
(* an unfinished instance has a task that is not finished, one on its way  *)
(* to the database, or one that ended in FAIL.                             *)
NothingLost ==
    faults = 0 => \A i \in DOMAIN instances :
        \/ instances[i] = "SUCCESS"
        \/ InFlight(i) # {}
        \/ \E r \in DOMAIN rows : rows[r].inst = i /\ rows[r].status # "SUCCESS"

(* An event that can wake a task instance is published only after that     *)
(* instance was handed to the queue, so the answer to the event can only   *)
(* be ahead of the observer's insert and never ahead of the publish.       *)
AnnouncedIsQueued ==
    faults = 0 => \A u \in 1 .. MaxUuids : callbacks[u] >= 0 =>
        \/ \E r \in DOMAIN rows : rows[r].uuid = u
        \/ \E e \in Engine : \E m \in observer[e] : m.uuid = u

(* A sleeping task instance whose event is out is still going to be woken: *)
(* a callback for it is to come, or is in the queue.                       *)
Waking(r) ==
    \/ callbacks[rows[r].uuid] # 0
    \/ \E e \in Engine : \E m \in observer[e] : m.id = r
    \/ \E k \in calls : k.msg.id = r

NoStrandedSleeper ==
    faults = 0 => \A r \in DOMAIN rows : rows[r].status = "SLEEP" => Waking(r)

(* The tasks an agent call hands over to. *)
AgentFed ==
    {Transitions[t][1].to : t \in {s \in Task : /\ ActionOp(Action[s]) = "a2a"
                                                 /\ TaskType[s] \notin LocalTypes
                                                 /\ Transitions[s] # << >>}}

(* A sleeping task instance has an event out that will wake it, or the     *)
(* task that queued it is still being executed.  Only the successor of an  *)
(* agent call is left without either: the agent publishes no event.        *)
SleeperHasWaker ==
    faults = 0 => \A r \in DOMAIN rows : rows[r].status = "SLEEP" =>
        \/ callbacks[rows[r].uuid] >= 0
        \/ \E e \in Engine : Holds(e, sched[e].row) /\ sched[e].uuid = rows[r].uuid
        \/ rows[r].task \in AgentFed

(* A task whose execution panics is not lost and not reported as done: its *)
(* transaction is rolled back and the row stays WAIT.                      *)
PanicLeavesTaskWaiting ==
    \A e \in Engine : sched[e].pc = "dead" =>
        rows[sched[e].row].status = "WAIT" /\ rows[sched[e].row].runs = 0

(* A WAIT task instance is executed, although its engine may crash, its    *)
(* statements may fail, and its scheduler may wait for an observer that    *)
(* waits for the row.  The rows are finitely many: the scheduler takes the *)
(* newest one first, so that steady arrivals would keep the oldest one     *)
(* waiting.  A panic, or a Release that does not return, stops the engine  *)
(* and is not among the failures here.                                     *)
WaitingIsExecuted ==
    \A r \in 1 .. MaxRows :
        (r \in DOMAIN rows /\ rows[r].status = "WAIT")
            ~> (r \in DOMAIN rows /\ rows[r].status \in Terminal)

(* Start and Transition return: a goroutine blocked in Publish gets its    *)
(* message through, even when the observer waits for the row lock of a     *)
(* transaction whose scheduler waits for the observer.                     *)
CallsReturn == \A c \in Caller : ~ Free(c) ~> Free(c)

(* Every started instance of a workflow of local tasks comes to its end,   *)
(* through its forks and switches and however often two engines execute    *)
(* the same task, unless something fails.                                  *)
InstancesComplete ==
    \A i \in 1 .. MaxInstances :
        Len(instances) >= i ~> \/ Len(instances) >= i /\ instances[i] = "SUCCESS"
                               \/ faults # 0

(* The committed statuses follow the life cycle of TaskLifecycle. *)
Lifecycle == INSTANCE TaskLifecycle
                WITH status <- [r \in DOMAIN rows |-> rows[r].status]
LifecycleSpec == Lifecycle!Spec
=============================================================================
