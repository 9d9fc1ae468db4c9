----------------------------- MODULE FlowProofs -----------------------------
(***************************************************************************)
(* Theorems about Scheduling on the flow of task instances between the     *)
(* schedulers, the queues, the database and the services behind events.    *)
(***************************************************************************)
EXTENDS SchedulingProofs

-----------------------------------------------------------------------------
(* What each step of Scheduling does, field by field: the form in which    *)
(* the proofs about the flow of task instances use the actions.            *)

AtStep(e) == Steps(TaskOf(e))[sched[e].step]

Others(e) == \A f \in Engine : f # e => sched'[f] = sched[f]

Became(e, pc, row, uuid) ==
    /\ Others(e)
    /\ sched'[e].pc = pc /\ sched'[e].row = row /\ sched'[e].uuid = uuid

(* A row keeps its identity. *)
SameTask(q) ==
    /\ rows'[q].inst = rows[q].inst
    /\ rows'[q].task = rows[q].task
    /\ rows'[q].uuid = rows[q].uuid

-----------------------------------------------------------------------------
(* The effects. *)

(* handle up to the release of the named lock. *)
Moves(e) ==
    /\ sched[e].pc \in {"idle", "select", "update", "release"}
    /\ Others(e)
    /\ sched'[e].uuid \in {0, sched[e].uuid}
    /\ \/ sched'[e].pc \in {"idle", "select"}
       \/ sched'[e].pc = "update" /\ sched'[e].row \in Waiting
       \/ sched'[e].pc = "release" /\ sched'[e].row = 0
       \/ sched'[e].pc = "release" /\ sched'[e].row = sched[e].row /\ sched[e].pc = "update"
       \/ /\ sched'[e].pc = "run" /\ sched'[e].row = sched[e].row /\ sched'[e].step = 1
          /\ sched[e].pc = "release"
    /\ UNCHANGED << rows, instances, calls, observer, callbacks, uuids >>
    /\ faults' = 0 => faults = 0

(* The transaction of e ends and writes nothing. *)
Abandons(e) ==
    /\ sched[e].pc \in {"run", "failed"}
    /\ Others(e) /\ sched'[e] = Idle
    /\ UNCHANGED << rows, instances, calls, observer, callbacks, uuids >>
    /\ faults' # 0

Publishes(e, m) ==
    /\ Running(e, "publish")
    /\ Became(e, "run", sched[e].row, m.uuid) /\ sched'[e].step = sched[e].step + 1
    /\ m.id = 0 /\ m.inst = rows[sched[e].row].inst
    /\ m.task = AtStep(e).to /\ m.status = AtStep(e).status
    /\ IF m.status = "SLEEP" THEN m.uuid = uuids + 1 /\ uuids' = uuids + 1
                             ELSE m.uuid = 0 /\ uuids' = uuids
    /\ observer[e] = {}
    /\ observer' = [observer EXCEPT ![e] = {m}]
    /\ UNCHANGED << rows, instances, calls, callbacks, faults >>

Advances(e, op) ==
    /\ Running(e, op)
    /\ Became(e, "run", sched[e].row, sched[e].uuid) /\ sched'[e].step = sched[e].step + 1
    /\ IF op = "complete"
       THEN instances' = [instances EXCEPT ![rows[sched[e].row].inst] = "SUCCESS"]
       ELSE UNCHANGED instances
    /\ IF op = "event" THEN Announce(sched[e].uuid) ELSE UNCHANGED callbacks
    /\ UNCHANGED << rows, calls, observer, uuids, faults >>

Retries(e) ==
    /\ sched[e].pc = "run"
    /\ \/ Became(e, "run", sched[e].row, 0) /\ sched'[e].step = 1
       \/ Became(e, "failed", sched[e].row, sched[e].uuid)
    /\ \/ Running(e, "error") /\ UNCHANGED << callbacks, faults >>
       \/ Running(e, "event") /\ Announce(sched[e].uuid) /\ faults' # 0
       \/ (Running(e, "event") \/ Running(e, "a2a") \/ Running(e, "complete"))
            /\ UNCHANGED callbacks /\ faults' # 0
    /\ UNCHANGED << rows, instances, calls, observer, uuids >>

Dies(e) ==
    /\ Running(e, "panic")
    /\ Became(e, "dead", sched[e].row, sched[e].uuid) /\ sched'[e].step = sched[e].step
    /\ UNCHANGED << rows, instances, calls, observer, callbacks, uuids, faults >>

Commits(e, r) ==
    /\ Finished(e)
    /\ sched[e].row = r
    /\ Others(e) /\ sched'[e] = Idle
    /\ Len(rows') = Len(rows)
    /\ SameTask(r)
    /\ rows'[r].status = IF sched[e].pc = "failed" THEN "FAIL" ELSE "SUCCESS"
    /\ \A q \in 1 .. Len(rows) : q # r => rows'[q] = rows[q]
    /\ UNCHANGED << instances, calls, observer, callbacks, uuids, faults >>

Receives(e, k) ==
    /\ observer[e] = {}
    /\ k.at = e
    /\ calls' = calls \ {k}
    /\ observer' = [observer EXCEPT ![e] = {k.msg}]
    /\ UNCHANGED << rows, instances, sched, callbacks, uuids, faults >>

Inserts(e, m) ==
    /\ m.id = 0
    /\ Len(rows') = Len(rows) + 1
    /\ \A q \in 1 .. Len(rows) : rows'[q] = rows[q]
    /\ rows'[Len(rows) + 1] = [inst |-> m.inst, task |-> m.task, uuid |-> m.uuid,
                               status |-> m.status, runs |-> 0]
    /\ observer' = [observer EXCEPT ![e] = {}]
    /\ UNCHANGED << instances, sched, calls, callbacks, uuids, faults >>

Updates(e, m) ==
    /\ m.id \in 1 .. Len(rows)
    /\ ~ Locked(m.id)
    /\ Len(rows') = Len(rows)
    /\ SameTask(m.id)
    /\ rows'[m.id].status = m.status /\ rows'[m.id].runs = 0
    /\ \A q \in 1 .. Len(rows) : q # m.id => rows'[q] = rows[q]
    /\ observer' = [observer EXCEPT ![e] = {}]
    /\ UNCHANGED << instances, sched, calls, callbacks, uuids, faults >>

Drops(e) ==
    /\ faults' # 0 \/ (UNCHANGED faults /\ \E m \in observer[e] : m.id # 0)
    /\ observer' = [observer EXCEPT ![e] = {}]
    /\ UNCHANGED << rows, instances, sched, calls, callbacks, uuids >>

Calls(c, e, m) ==
    /\ Free(c)
    /\ calls' = calls \cup {[by |-> c, at |-> e, msg |-> m]}
    /\ UNCHANGED << rows, sched, observer, uuids, faults >>

Starts(m) ==
    /\ m.id = 0 /\ m.inst = Len(instances) + 1 /\ m.task \in StartTask
    /\ m.uuid = 0 /\ m.status = "WAIT"
    /\ instances' = Append(instances, "PROCESS")
    /\ UNCHANGED callbacks

Answers(u) == callbacks[u] > 0 /\ callbacks' = [callbacks EXCEPT ![u] = @ - 1]

Wakes(u, m) ==
    /\ Answers(u)
    /\ m.id \in SleepingRows(u)
    /\ m.inst = rows[m.id].inst /\ m.task = rows[m.id].task
    /\ m.uuid = u /\ m.status = "WAIT"
    /\ UNCHANGED instances

Misses(u) ==
    /\ Answers(u)
    /\ SleepingRows(u) = {}
    /\ UNCHANGED << rows, instances, sched, observer, calls, uuids, faults >>

Restarts(e) ==
    /\ faults' # 0
    /\ Others(e) /\ sched'[e] = Idle
    /\ observer' = [observer EXCEPT ![e] = {}]
    /\ calls' = {k \in calls : k.at # e}
    /\ UNCHANGED << rows, instances, callbacks, uuids >>

-----------------------------------------------------------------------------
LEMMA FaultEffect == TypeOK /\ Fault => faults' # 0
  BY SchedulingAssumption DEF TypeOK, StateTypes, Fault

LEMMA ScheduleEffect ==
    ASSUME TypeOK, NEW e \in Engine, Schedule(e)
    PROVE  Moves(e)
<1>0. sched \in [Engine -> SchedSet] /\ sched[e] \in SchedSet /\ RowExists(sched[e])
  BY DEF TypeOK, StateTypes, References
<1>1. /\ UNCHANGED << rows, instances, calls, observer, callbacks, uuids >>
      /\ faults' = 0 => faults = 0
  <2>1. UNCHANGED << rows, instances, calls, observer, callbacks, uuids >>
    BY DEF Schedule, Obtain, SelectTask, ClaimTask, FetchFails, Release
  <2>2. Fault \/ UNCHANGED faults
    BY DEF Schedule, Obtain, SelectTask, ClaimTask, FetchFails, Release, NoFault
  <2> QED
    BY <2>1, <2>2, FaultEffect
<1>2. CASE Obtain(e)
  BY <1>0, <1>1, <1>2 DEF Obtain, Moves, Others, SchedSet
<1>3. CASE SelectTask(e)
  <2>1. sched[e].row = 0
    BY <1>0, <1>3 DEF SelectTask, RowExists
  <2>2. ASSUME NEW r \in Waiting, sched' = [sched EXCEPT ![e] = [@ EXCEPT !.pc = "update", !.row = r]]
        PROVE  Moves(e)
    BY <1>0, <1>1, <1>3, <2>2 DEF SelectTask, Moves, Others, SchedSet
  <2>3. CASE sched' = [sched EXCEPT ![e].pc = "release"]
    BY <1>0, <1>1, <1>3, <2>1, <2>3 DEF SelectTask, Moves, Others, SchedSet
  <2> QED
    BY <1>3, <2>2, <2>3 DEF SelectTask
<1>4. CASE ClaimTask(e)
  BY <1>0, <1>1, <1>4 DEF ClaimTask, Moves, Others, SchedSet
<1>5. CASE FetchFails(e)
  BY <1>0, <1>1, <1>5 DEF FetchFails, Moves, Others, SchedSet
<1>6. CASE Release(e)
  BY <1>0, <1>1, <1>6 DEF Release, Moves, Others, SchedSet, Idle
<1> QED
  BY <1>2, <1>3, <1>4, <1>5, <1>6 DEF Schedule

LEMMA AdvanceEffect ==
    ASSUME TypeOK, NEW e \in Engine, sched[e].pc = "run", NEW u \in Nat, Advance(e, u)
    PROVE  Became(e, "run", sched[e].row, u) /\ sched'[e].step = sched[e].step + 1
<1>0. sched \in [Engine -> SchedSet] /\ sched[e] \in SchedSet
  BY DEF TypeOK, StateTypes
<1> QED
  BY <1>0 DEF Advance, Became, Others, SchedSet

LEMMA RetryEffect ==
    ASSUME TypeOK, NEW e \in Engine, sched[e].pc = "run", Retry(e)
    PROVE  \/ Became(e, "run", sched[e].row, 0) /\ sched'[e].step = 1
           \/ Became(e, "failed", sched[e].row, sched[e].uuid)
<1>0. sched \in [Engine -> SchedSet] /\ sched[e] \in SchedSet
  BY DEF TypeOK, StateTypes
<1> QED
  BY <1>0 DEF Retry, Became, Others, SchedSet

(* The steps of Run and the end of the transaction. *)
ExecuteOf(e) ==
    \/ \E m \in Msg : Publishes(e, m)
    \/ \E op \in {"skip", "event", "a2a", "complete"} : Advances(e, op)
    \/ Retries(e)
    \/ Dies(e)
    \/ \E r \in 1 .. Len(rows) : Commits(e, r)
    \/ Abandons(e)

LEMMA PublishEffect ==
    ASSUME TypeOK, NEW e \in Engine, PublishTask(e)
    PROVE  \E m \in Msg : Publishes(e, m)
<1> DEFINE s == AtStep(e)
           u == IF s.status = "SLEEP" THEN uuids + 1 ELSE 0
           m == [id |-> 0, inst |-> rows[sched[e].row].inst, task |-> s.to,
                 uuid |-> u, status |-> s.status]
<1>1. observer' = [observer EXCEPT ![e] = {m}] /\ UNCHANGED << rows, instances, calls, callbacks, faults >>
  BY DEF PublishTask, AtStep
<1>2. Advance(e, u) /\ uuids' = IF s.status = "SLEEP" THEN u ELSE uuids
  BY DEF PublishTask, AtStep
<1>3. Running(e, "publish") /\ observer[e] = {}
  BY DEF PublishTask
<1>4. TypeOK'
  BY TypePublishTask
<1>5. m \in Msg
  <2>1. observer'[e] = {m}
    BY <1>1 DEF TypeOK, StateTypes
  <2>2. observer'[e] \subseteq Msg
    BY <1>4 DEF TypeOK, StateTypes
  <2> QED
    BY <2>1, <2>2
<1>6. m.id = 0 /\ m.inst = rows[sched[e].row].inst /\ m.task = s.to /\ m.uuid = u /\ m.status = s.status
  OBVIOUS
<1>7. u \in Nat
  BY <1>5, <1>6 DEF Msg
<1> HIDE DEF m, u
<1>8. Became(e, "run", sched[e].row, m.uuid) /\ sched'[e].step = sched[e].step + 1
  BY <1>2, <1>3, <1>6, <1>7, AdvanceEffect DEF Running
<1>9. IF m.status = "SLEEP" THEN m.uuid = uuids + 1 /\ uuids' = uuids + 1
                            ELSE m.uuid = 0 /\ uuids' = uuids
  BY <1>2, <1>6 DEF u
<1>10. Publishes(e, m)
  BY <1>1, <1>3, <1>6, <1>8, <1>9 DEF Publishes
<1> QED
  BY <1>5, <1>10

LEMMA CommitEffect ==
    ASSUME TypeOK, NEW e \in Engine, Commit(e)
    PROVE  \E r \in 1 .. Len(rows) : Commits(e, r)
<1>1. sched[e] \in SchedSet /\ RowExists(sched[e]) /\ sched[e].pc \in {"run", "failed"}
  BY DEF TypeOK, StateTypes, References, Commit, Finished
<1>2. PICK r \in 1 .. Len(rows) : sched[e].row = r
  BY <1>1 DEF RowExists
<1> DEFINE w == [rows[r] EXCEPT !.status = Outcome(e), !.runs = @ + 1]
<1>3. rows \in Seq(RowSet) /\ rows[r] \in RowSet
  BY ElementOfSeq DEF TypeOK, StateTypes
<1>4. Outcome(e) = IF sched[e].pc = "failed" THEN "FAIL" ELSE "SUCCESS"
  BY DEF Outcome
<1>5. rows[r].runs + 1 \in Nat /\ Outcome(e) \in Status
  BY <1>3, <1>4 DEF RowSet, Status
<1>6. /\ w \in RowSet /\ w.inst = rows[r].inst /\ w.task = rows[r].task
      /\ w.uuid = rows[r].uuid /\ w.status = Outcome(e)
  <2>1. w \in RowSet
    BY <1>3, <1>5, RowRecord
  <2>2. w.inst = rows[r].inst /\ w.task = rows[r].task /\ w.uuid = rows[r].uuid /\ w.status = Outcome(e)
    BY <1>3 DEF RowSet
  <2> QED
    BY <2>1, <2>2
<1>7. rows' = [rows EXCEPT ![r] = w] /\ sched' = [sched EXCEPT ![e] = Idle]
  BY <1>2 DEF Commit
<1>8. Finished(e) /\ UNCHANGED << instances, calls, observer, callbacks, uuids, faults >>
  BY DEF Commit
<1> HIDE DEF w
<1>9. /\ Len(rows') = Len(rows)
      /\ \A q \in 1 .. Len(rows) : rows'[q] = IF q = r THEN w ELSE rows[q]
  BY <1>3, <1>6, <1>7, ExceptSeq
<1>10. Others(e) /\ sched'[e] = Idle
  BY <1>7 DEF Others, TypeOK, StateTypes
<1>11. SameTask(r) /\ rows'[r].status = IF sched[e].pc = "failed" THEN "FAIL" ELSE "SUCCESS"
  BY <1>4, <1>6, <1>9 DEF SameTask
<1>12. Commits(e, r)
  BY <1>2, <1>8, <1>9, <1>10, <1>11 DEF Commits
<1> QED
  BY <1>12

LEMMA ExecuteEffect ==
    ASSUME TypeOK, NEW e \in Engine, Execute(e)
    PROVE  ExecuteOf(e)
<1>0. sched \in [Engine -> SchedSet] /\ sched[e] \in SchedSet /\ sched[e].uuid \in Nat
  BY DEF TypeOK, StateTypes, SchedSet
<1>a. ASSUME Running(e, "skip") \/ Running(e, "event") \/ Running(e, "a2a")
                \/ Running(e, "complete"),
             Advance(e, sched[e].uuid)
      PROVE  Became(e, "run", sched[e].row, sched[e].uuid) /\ sched'[e].step = sched[e].step + 1
  BY <1>0, <1>a, AdvanceEffect DEF Running
<1>1. CASE PublishTask(e)
  BY <1>1, PublishEffect DEF ExecuteOf
<1>2. CASE SkipStep(e)
  <2>1. Advances(e, "skip")
    BY <1>2, <1>a DEF SkipStep, Advances
  <2> QED
    BY <2>1 DEF ExecuteOf
<1>3. CASE PublishEvent(e)
  <2>1. Advances(e, "event")
    BY <1>3, <1>a DEF PublishEvent, Advances
  <2> QED
    BY <2>1 DEF ExecuteOf
<1>4. CASE EventFails(e)
  <2>1. Retries(e)
    BY <1>4, RetryEffect, FaultEffect DEF EventFails, Retries, Running
  <2> QED
    BY <2>1 DEF ExecuteOf
<1>5. CASE CallAgent(e)
  <2>1. CASE Advance(e, sched[e].uuid) /\ NoFault
    <3>1. Advances(e, "a2a")
      BY <1>5, <1>a, <2>1 DEF CallAgent, Advances, NoFault
    <3> QED
      BY <3>1 DEF ExecuteOf
  <2>2. CASE Retry(e) /\ Fault
    <3>1. Retries(e)
      BY <1>5, <2>2, RetryEffect, FaultEffect DEF CallAgent, Retries, Running
    <3> QED
      BY <3>1 DEF ExecuteOf
  <2> QED
    BY <1>5, <2>1, <2>2 DEF CallAgent
<1>6. CASE CompleteWorkflow(e)
  <2>1. ASSUME instances' = [instances EXCEPT ![rows[sched[e].row].inst] = "SUCCESS"],
               Advance(e, sched[e].uuid), NoFault
        PROVE  Advances(e, "complete")
    BY <1>6, <1>a, <2>1 DEF CompleteWorkflow, Advances, NoFault
  <2>2. ASSUME Fault, Retry(e), UNCHANGED instances
        PROVE  Retries(e)
    BY <1>6, <2>2, RetryEffect, FaultEffect DEF CompleteWorkflow, Retries, Running
  <2> QED
    BY <1>6, <2>1, <2>2 DEF CompleteWorkflow, ExecuteOf
<1>7. CASE TaskErrors(e)
  <2>1. Retries(e)
    BY <1>7, RetryEffect DEF TaskErrors, Retries, Running
  <2> QED
    BY <2>1 DEF ExecuteOf
<1>8. CASE Panic(e)
  <2>1. Dies(e)
    BY <1>0, <1>8 DEF Panic, Dies, Became, Others, SchedSet
  <2> QED
    BY <2>1 DEF ExecuteOf
<1>9. CASE Commit(e)
  BY <1>9, CommitEffect DEF ExecuteOf
<1>10. CASE Rollback(e)
  <2>1. Abandons(e)
    BY <1>0, <1>10, FaultEffect DEF Rollback, Finished, Abandons, Others
  <2> QED
    BY <2>1 DEF ExecuteOf
<1> QED
  BY <1>1, <1>2, <1>3, <1>4, <1>5, <1>6, <1>7, <1>8, <1>9, <1>10 DEF Execute

(* The observer. *)
ObserveOf(e) ==
    \/ \E k \in calls : Receives(e, k)
    \/ \E m \in observer[e] : Inserts(e, m) \/ Updates(e, m)
    \/ Drops(e)

LEMMA ObserveEffect ==
    ASSUME TypeOK, NEW e \in Engine, Observe(e)
    PROVE  ObserveOf(e)
<1>0. /\ rows \in Seq(RowSet) /\ Len(rows) \in Nat /\ observer \in [Engine -> SUBSET Msg]
      /\ \A m \in observer[e] : m \in Msg /\ RefersTo(m)
  BY DEF TypeOK, StateTypes, References
<1>1. CASE Receive(e)
  BY <1>1 DEF Receive, Receives, ObserveOf
<1>2. CASE InsertTask(e)
  <2>1. PICK m \in observer[e] :
          /\ m.id = 0
          /\ rows' = Append(rows, [inst |-> m.inst, task |-> m.task, uuid |-> m.uuid,
                                   status |-> m.status, runs |-> 0])
    BY <1>2 DEF InsertTask
  <2> DEFINE w == [inst |-> m.inst, task |-> m.task, uuid |-> m.uuid,
                   status |-> m.status, runs |-> 0]
  <2>2. w \in RowSet
    BY <1>0 DEF Msg, RowSet, Status
  <2>3. /\ observer' = [observer EXCEPT ![e] = {}]
        /\ UNCHANGED << instances, sched, calls, callbacks, uuids, faults >>
    BY <1>2 DEF InsertTask
  <2>4. rows' = Append(rows, w)
    BY <2>1
  <2> HIDE DEF w
  <2>5. /\ Len(rows') = Len(rows) + 1
        /\ \A q \in 1 .. Len(rows) : rows'[q] = rows[q]
        /\ rows'[Len(rows) + 1] = w
    BY <1>0, <2>2, <2>4, AppendProperties
  <2>6. Inserts(e, m)
    BY <2>1, <2>3, <2>5 DEF Inserts, w
  <2> QED
    BY <2>6 DEF ObserveOf
<1>3. CASE UpdateTask(e)
  <2>1. PICK m \in observer[e] :
          /\ m.id # 0
          /\ ~ Locked(m.id)
          /\ rows' = [rows EXCEPT ![m.id] = [@ EXCEPT !.status = m.status, !.runs = 0]]
    BY <1>3 DEF UpdateTask
  <2> DEFINE w == [rows[m.id] EXCEPT !.status = m.status, !.runs = 0]
  <2>2. m \in Msg /\ m.id \in 1 .. Len(rows)
    BY <1>0, <2>1 DEF RefersTo
  <2>3. rows[m.id] \in RowSet /\ m.status \in Status
    BY <1>0, <2>2, ElementOfSeq DEF Msg, Status
  <2>4. w \in RowSet
    BY <2>3, RowRecord
  <2>5. /\ w.inst = rows[m.id].inst /\ w.task = rows[m.id].task /\ w.uuid = rows[m.id].uuid
        /\ w.status = m.status /\ w.runs = 0
    BY <2>3 DEF RowSet
  <2>6. rows' = [rows EXCEPT ![m.id] = w]
    BY <2>1
  <2>7. /\ observer' = [observer EXCEPT ![e] = {}]
        /\ UNCHANGED << instances, sched, calls, callbacks, uuids, faults >>
    BY <1>3 DEF UpdateTask
  <2> HIDE DEF w
  <2>8. /\ Len(rows') = Len(rows)
        /\ \A q \in 1 .. Len(rows) : rows'[q] = IF q = m.id THEN w ELSE rows[q]
    BY <1>0, <2>2, <2>4, <2>6, ExceptSeq
  <2>9. Updates(e, m)
    BY <2>1, <2>2, <2>5, <2>7, <2>8 DEF Updates, SameTask
  <2> QED
    BY <2>9 DEF ObserveOf
<1>4. CASE LockWaitTimeout(e)
  BY <1>4 DEF LockWaitTimeout, Drops, ObserveOf
<1>5. CASE ObserveFails(e)
  BY <1>5, FaultEffect DEF ObserveFails, Drops, ObserveOf
<1> QED
  BY <1>1, <1>2, <1>3, <1>4, <1>5 DEF Observe

(* RPC goroutines and crashes. *)
CallOf(c, e) ==
    \/ \E m \in Msg : Calls(c, e, m) /\ Starts(m)
    \/ \E u \in 1 .. MaxUuids : \E m \in Msg : Calls(c, e, m) /\ Wakes(u, m)
    \/ \E u \in 1 .. MaxUuids : Misses(u)

LEMMA CallEffect ==
    ASSUME TypeOK, NEW e \in Engine, NEW c \in Caller, Start(c, e) \/ Transition(c, e)
    PROVE  CallOf(c, e)
<1>0. rows \in Seq(RowSet) /\ Len(rows) \in Nat /\ Len(instances) \in Nat
  BY DEF TypeOK, StateTypes
<1>1. CASE Start(c, e)
  <2>1. PICK t \in StartTask :
          calls' = calls \cup
           {[by |-> c, at |-> e,
             msg |-> [id |-> 0, inst |-> Len(instances) + 1, task |-> t,
                      uuid |-> 0, status |-> "WAIT"]]}
    BY <1>1 DEF Start
  <2> DEFINE m == [id |-> 0, inst |-> Len(instances) + 1, task |-> t,
                   uuid |-> 0, status |-> "WAIT"]
  <2>2. m \in Msg
    BY <1>0, SchedulingAssumption DEF Msg
  <2>3. Starts(m)
    BY <1>1 DEF Start, Starts
  <2>4. Calls(c, e, m)
    BY <1>1, <2>1 DEF Start, Calls
  <2> QED
    BY <2>2, <2>3, <2>4 DEF CallOf
<1>2. CASE Transition(c, e)
  <2>1. PICK u \in 1 .. MaxUuids :
          /\ Answers(u)
          /\ \/ \E r \in SleepingRows(u) :
                  calls' = calls \cup
                    {[by |-> c, at |-> e,
                      msg |-> [id |-> r, inst |-> rows[r].inst, task |-> rows[r].task,
                               uuid |-> u, status |-> "WAIT"]]}
             \/ SleepingRows(u) = {} /\ UNCHANGED calls
    BY <1>2 DEF Transition, Answers
  <2>2. Free(c) /\ UNCHANGED << rows, instances, sched, observer, uuids, faults >>
    BY <1>2 DEF Transition
  <2>3. CASE SleepingRows(u) = {} /\ UNCHANGED calls
    BY <2>1, <2>2, <2>3 DEF Misses, CallOf
  <2>4. ASSUME NEW r \in SleepingRows(u),
               calls' = calls \cup
                    {[by |-> c, at |-> e,
                      msg |-> [id |-> r, inst |-> rows[r].inst, task |-> rows[r].task,
                               uuid |-> u, status |-> "WAIT"]]}
        PROVE  CallOf(c, e)
    <3> DEFINE m == [id |-> r, inst |-> rows[r].inst, task |-> rows[r].task,
                     uuid |-> u, status |-> "WAIT"]
    <3>1. r \in 1 .. Len(rows)
      BY <1>0 DEF SleepingRows
    <3>2. rows[r] \in RowSet
      BY <1>0, <3>1, ElementOfSeq
    <3>3. m \in Msg
      BY <3>1, <3>2 DEF Msg, RowSet
    <3>4. Wakes(u, m)
      BY <2>1, <2>2, <2>4 DEF Wakes
    <3>5. Calls(c, e, m)
      BY <2>2, <2>4 DEF Calls
    <3> QED
      BY <3>3, <3>4, <3>5 DEF CallOf
  <2> QED
    BY <2>1, <2>3, <2>4
<1> QED
  BY <1>1, <1>2

LEMMA CrashEffect ==
    ASSUME TypeOK, NEW e \in Engine, Crash(e)
    PROVE  Restarts(e)
<1>1. Others(e) /\ sched'[e] = Idle
  BY DEF Crash, Others, TypeOK, StateTypes
<1> QED
  BY <1>1, FaultEffect DEF Crash, Restarts

Effect ==
    \E e \in Engine : \/ Moves(e) \/ ExecuteOf(e) \/ ObserveOf(e) \/ Restarts(e)
                      \/ \E c \in Caller : CallOf(c, e)

(* Every step has one of these effects. *)
LEMMA NextEffect ==
    ASSUME TypeOK, [Next]_vars
    PROVE  Effect \/ UNCHANGED vars
BY ScheduleEffect, ExecuteEffect, ObserveEffect, CallEffect, CrashEffect DEF Next, Effect

-----------------------------------------------------------------------------
(* The forms of a run. *)


OpAt(t, j) == Steps(t)[j].op

(* The forms a run can have. *)
SwitchForm(t, s) ==
    /\ TaskType[t] = "switch" /\ Transitions[t] # << >>
    /\ Len(s) = 1
    /\ s[1].op \in {"error", "publish", "complete"} /\ s[1].status = "WAIT"

LastForm(t, s) ==
    /\ Len(s) = 2
    /\ s[1].op \in {"skip", "event", "a2a", "panic", "error"} /\ s[1].status = "WAIT"
    /\ s[2] = Do("complete")

AsleepForm(t, s) ==
    /\ TaskType[t] \notin LocalTypes \cup {"switch"} /\ Transitions[t] # << >>
    /\ s = << Publish(Transitions[t][1].to, "SLEEP"), Do(ActionOp(Action[t])) >>

LocalForm(t, s) ==
    /\ TaskType[t] \in LocalTypes
    /\ Len(s) = Len(Transitions[t]) + 1 /\ Len(s) >= 2
    /\ s[1].op \in {"error", "event", "skip"} /\ s[1].status = "WAIT"
    /\ s[2].op = "publish"
    /\ \A j \in 2 .. Len(s) : s[j].op \in {"skip", "publish"} /\ s[j].status = "WAIT"

NoForm(t, s) ==
    /\ TaskType[t] \in {"event", "listen", "switch"} /\ Transitions[t] = << >>
    /\ s = << >>

Form(t, s) ==
    SwitchForm(t, s) \/ LastForm(t, s) \/ AsleepForm(t, s) \/ LocalForm(t, s) \/ NoForm(t, s)

(* An interval from 1 determines its end. *)
LEMMA IntervalEnd ==
    ASSUME NEW a \in Nat, NEW b \in Nat, 1 .. a = 1 .. b
    PROVE  a = b
<1>1. a # 0 => a \in 1 .. b
  <2>1. a # 0 => a \in 1 .. a
    OBVIOUS
  <2> QED
    BY <2>1
<1>2. b # 0 => b \in 1 .. a
  <2>1. b # 0 => b \in 1 .. b
    OBVIOUS
  <2> QED
    BY <2>1
<1> QED
  BY <1>1, <1>2

(* Every executor's run has one of these forms. *)
LEMMA StepsForm ==
    ASSUME NEW t \in Task
    PROVE  Form(t, Steps(t))
<1> DEFINE tr == Transitions[t]
<1>0. tr \in Seq(Relations) /\ Len(tr) \in Nat /\ (tr # << >> => Len(tr) >= 1)
  BY ExecutorAssumption
<1>1. ASSUME TaskType[t] \notin LocalTypes \cup {"switch"} PROVE Form(t, OperationSteps(t))
  <2>1. ActionOp(Action[t]) \in {"skip", "event", "a2a", "panic"}
    BY DEF ActionOp
  <2>2. CASE EndsHere(tr)
    <3>1. OperationSteps(t) = << Do(ActionOp(Action[t])), Do("complete") >>
      BY <2>2 DEF OperationSteps
    <3>2. LastForm(t, OperationSteps(t))
      BY <2>1, <3>1 DEF LastForm, Do
    <3> QED
      BY <3>2 DEF Form
  <2>3. CASE ~ EndsHere(tr)
    <3>1. OperationSteps(t) = << Publish(tr[1].to, "SLEEP"), Do(ActionOp(Action[t])) >>
      BY <2>3 DEF OperationSteps
    <3>2. AsleepForm(t, OperationSteps(t))
      BY <1>1, <2>3, <3>1 DEF AsleepForm, EndsHere
    <3> QED
      BY <3>2 DEF Form
  <2> QED
    BY <2>2, <2>3
<1>2. CASE TaskType[t] \in LocalTypes
  <2>1. Steps(t) = LocalRuntimeSteps(t)
    BY <1>2 DEF Steps, LocalTypes
  <2>2. ExecuteOp(t) \in {"error", "event", "skip"}
    BY DEF ExecuteOp
  <2>3. CASE EndsHere(tr)
    <3>1. LocalRuntimeSteps(t) = << Do(ExecuteOp(t)), Do("complete") >>
      BY <2>3 DEF LocalRuntimeSteps
    <3>2. LastForm(t, Steps(t))
      BY <2>1, <2>2, <3>1 DEF LastForm, Do
    <3> QED
      BY <3>2 DEF Form
  <2>4. CASE ~ EndsHere(tr)
    <3> DEFINE n == Len(tr) + 1
               f == [i \in 1 .. n |->
                       IF i = 1 THEN Do(ExecuteOp(t)) ELSE PublishNextTask(tr[i - 1])]
    <3>1. Steps(t) = f
      BY <2>1, <2>4 DEF LocalRuntimeSteps
    <3>2. n \in Nat /\ n >= 2 /\ tr[1].to # TaskEndID
      BY <1>0, <2>4 DEF EndsHere
    <3>3. Len(Steps(t)) = n
      <4>1. Steps(t) \in Seq(StepSet)
        BY StepsGood DEF GoodSteps
      <4>2. DOMAIN Steps(t) = 1 .. Len(Steps(t)) /\ Len(Steps(t)) \in Nat
        BY <4>1
      <4>3. DOMAIN Steps(t) = 1 .. n
        BY <3>1
      <4> QED
        BY <3>2, <4>2, <4>3, IntervalEnd
    <3>4. f[1] = Do(ExecuteOp(t)) /\ f[2] = PublishNextTask(tr[1])
      BY <3>2
    <3>5. f[1].op \in {"error", "event", "skip"} /\ f[1].status = "WAIT"
      BY <2>2, <3>4 DEF Do
    <3>6. f[2].op = "publish"
      BY <3>2, <3>4 DEF PublishNextTask, Publish
    <3>7. ASSUME NEW j \in 2 .. n PROVE f[j].op \in {"skip", "publish"} /\ f[j].status = "WAIT"
      <4>1. f[j] = PublishNextTask(tr[j - 1])
        BY <3>2
      <4> QED
        BY <4>1 DEF PublishNextTask, Publish, Do
    <3> HIDE DEF f
    <3>8. LocalForm(t, Steps(t))
      BY <1>2, <3>1, <3>2, <3>3, <3>5, <3>6, <3>7 DEF LocalForm
    <3> QED
      BY <3>8 DEF Form
  <2> QED
    BY <2>3, <2>4
<1>3. CASE TaskType[t] \in {"event", "listen"}
  <2>1. Steps(t) = EventSteps(t)
    BY <1>3 DEF Steps, LocalTypes
  <2>2. CASE tr = << >>
    BY <1>3, <2>1, <2>2 DEF EventSteps, NoForm, Form
  <2>3. CASE tr # << >>
    BY <1>1, <1>3, <2>1, <2>3 DEF EventSteps, LocalTypes
  <2> QED
    BY <2>2, <2>3
<1>4. CASE TaskType[t] = "switch"
  <2>1. Steps(t) = SwitchSteps(t)
    BY <1>4 DEF Steps, LocalTypes
  <2>2. \/ tr = << >> /\ SwitchSteps(t) = << >>
        \/ tr # << >> /\ \E to : SwitchSteps(t) = << PublishOrComplete(to) >>
        \/ tr # << >> /\ SwitchSteps(t) \in {<< Do("error") >>, << Do("complete") >>}
    <3> DEFINE decisive == {i \in DOMAIN tr : tr[i].cond \in {"true", "error"}}
               default  == {i \in DOMAIN tr : tr[i].cond = ""}
               first    == CHOOSE i \in decisive : \A j \in decisive : i <= j
               last     == CHOOSE i \in default : \A j \in default : i >= j
    <3>1. CASE tr = << >>
      BY <3>1 DEF SwitchSteps
    <3>2. CASE tr # << >> /\ decisive # {}
      <4>1. SwitchSteps(t) = << IF tr[first].cond = "error" THEN Do("error")
                                ELSE PublishOrComplete(tr[first].to) >>
        BY <3>2 DEF SwitchSteps
      <4> QED
        BY <3>2, <4>1
    <3>3. CASE tr # << >> /\ decisive = {} /\ default # {}
      <4>1. SwitchSteps(t) = << PublishOrComplete(tr[last].to) >>
        BY <3>3 DEF SwitchSteps
      <4> QED
        BY <3>3, <4>1
    <3>4. CASE tr # << >> /\ decisive = {} /\ default = {}
      BY <3>4 DEF SwitchSteps
    <3> QED
      BY <3>1, <3>2, <3>3, <3>4
  <2>3. CASE tr = << >> /\ SwitchSteps(t) = << >>
    BY <1>4, <2>1, <2>3 DEF NoForm, Form
  <2>4. ASSUME NEW to, tr # << >>, SwitchSteps(t) = << PublishOrComplete(to) >>
        PROVE  SwitchForm(t, Steps(t))
    BY <1>4, <2>1, <2>4 DEF SwitchForm, PublishOrComplete, Publish, Do
  <2>5. ASSUME tr # << >>, SwitchSteps(t) \in {<< Do("error") >>, << Do("complete") >>}
        PROVE  SwitchForm(t, Steps(t))
    BY <1>4, <2>1, <2>5 DEF SwitchForm, Do
  <2> QED
    BY <2>2, <2>3, <2>4, <2>5 DEF Form
<1>5. CASE TaskType[t] \notin LocalTypes \cup {"event", "listen", "switch"}
  <2>1. Steps(t) = OperationSteps(t)
    BY <1>5 DEF Steps
  <2> QED
    BY <1>1, <1>5, <2>1
<1> QED
  BY <1>2, <1>3, <1>4, <1>5

-----------------------------------------------------------------------------
OneMessage == \A e \in Engine : \A m, n \in observer[e] : m = n

GoodMessage(m) ==
    IF m.id = 0 THEN (m.status = "SLEEP" <=> m.uuid # 0) /\ m.uuid <= uuids
                ELSE m.status = "WAIT" /\ m.uuid # 0 /\ m.uuid = rows[m.id].uuid

GoodMessages ==
    /\ \A e \in Engine : \A m \in observer[e] : GoodMessage(m)
    /\ \A k \in calls : GoodMessage(k.msg)

GoodRow(r) == rows[r].uuid <= uuids /\ (rows[r].status = "SLEEP" => rows[r].uuid # 0)

GoodSched(e) ==
    /\ sched[e].uuid <= uuids
    /\ sched[e].pc \in {"idle", "select", "update", "release"} => sched[e].uuid = 0
    /\ sched[e].row # 0 => rows[sched[e].row].status # "SLEEP"

QueueInv ==
    /\ OneMessage
    /\ GoodMessages
    /\ \A r \in 1 .. Len(rows) : GoodRow(r)
    /\ \A e \in Engine : GoodSched(e)
    /\ \A u \in 1 .. MaxUuids : u > uuids => callbacks[u] = -1

(* The steps as the queues and the tables see them, and as the schedulers  *)
(* see them.                                                               *)
Quiet == UNCHANGED << rows, observer, calls, uuids >>

CallEffects(e, m) ==
    \E c \in Caller : /\ Calls(c, e, m)
                      /\ Starts(m) \/ \E u \in 1 .. MaxUuids : Wakes(u, m)

QueueEffect ==
    \/ Quiet
    \/ \E e \in Engine : \/ \E m \in Msg : Publishes(e, m) \/ CallEffects(e, m)
                         \/ \E r \in 1 .. Len(rows) : Commits(e, r)
                         \/ \E k \in calls : Receives(e, k)
                         \/ \E m \in observer[e] : Inserts(e, m) \/ Updates(e, m)
                         \/ Drops(e)
                         \/ Restarts(e)

Stops(e) == Others(e) /\ sched'[e] = Idle /\ (faults' = 0 => Finished(e))

SchedEffect ==
    \/ UNCHANGED sched
    \/ \E e \in Engine : \/ Stops(e) \/ Moves(e) \/ Retries(e) \/ Dies(e)
                         \/ \E m \in Msg : Publishes(e, m)
                         \/ \E op \in {"skip", "event", "a2a", "complete"} : Advances(e, op)

(* Every step is one of each. *)
LEMMA EffectParts ==
    ASSUME Effect \/ UNCHANGED vars
    PROVE  QueueEffect /\ SchedEffect
<1>1. CASE UNCHANGED vars
  BY <1>1 DEF vars, QueueEffect, Quiet, SchedEffect
<1>2. ASSUME NEW e \in Engine, Moves(e) PROVE QueueEffect /\ SchedEffect
  BY <1>2 DEF Moves, QueueEffect, Quiet, SchedEffect
<1>3. ASSUME NEW e \in Engine, ExecuteOf(e) PROVE QueueEffect /\ SchedEffect
  <2>1. Retries(e) \/ Dies(e) \/ Abandons(e) => Quiet
    BY DEF Retries, Dies, Abandons, Quiet
  <2>2. \A op : Advances(e, op) => Quiet
    BY DEF Advances, Quiet
  <2>3. \A r : Commits(e, r) => Stops(e)
    BY DEF Commits, Stops
  <2>4. Abandons(e) => Stops(e)
    BY DEF Abandons, Stops
  <2>5. QueueEffect
    BY <1>3, <2>1, <2>2 DEF ExecuteOf, QueueEffect
  <2>6. SchedEffect
    BY <1>3, <2>3, <2>4 DEF ExecuteOf, SchedEffect
  <2> QED
    BY <2>5, <2>6
<1>4. ASSUME NEW e \in Engine, ObserveOf(e) PROVE QueueEffect /\ SchedEffect
  <2>1. QueueEffect
    BY <1>4 DEF ObserveOf, QueueEffect
  <2>2. UNCHANGED sched
    BY <1>4 DEF ObserveOf, Receives, Inserts, Updates, Drops
  <2> QED
    BY <2>1, <2>2 DEF SchedEffect
<1>5. ASSUME NEW e \in Engine, NEW c \in Caller, CallOf(c, e) PROVE QueueEffect /\ SchedEffect
  <2>1. UNCHANGED sched
    BY <1>5 DEF CallOf, Calls, Misses
  <2>2. \A u : Misses(u) => Quiet
    BY DEF Misses, Quiet
  <2>3. QueueEffect
    BY <1>5, <2>2 DEF CallOf, CallEffects, QueueEffect
  <2> QED
    BY <2>1, <2>3 DEF SchedEffect
<1>6. ASSUME NEW e \in Engine, Restarts(e) PROVE QueueEffect /\ SchedEffect
  <2>1. Stops(e)
    BY <1>6 DEF Restarts, Stops
  <2> QED
    BY <1>6, <2>1 DEF QueueEffect, SchedEffect
<1> QED
  BY <1>1, <1>2, <1>3, <1>4, <1>5, <1>6 DEF Effect

(* Rows are only added, keep their identity and never fall asleep again,   *)
(* and ids are only drawn.                                                 *)
Grows ==
    /\ uuids' >= uuids
    /\ Len(rows') >= Len(rows)
    /\ \A q \in 1 .. Len(rows) :
          SameTask(q) /\ (rows[q].status # "SLEEP" => rows'[q].status # "SLEEP")

LEMMA StepGrows ==
    ASSUME TypeOK, QueueInv, QueueEffect
    PROVE  Grows
<1>0. Len(rows) \in Nat /\ uuids \in Nat
  BY SchedulingAssumption DEF TypeOK, StateTypes
<1>1. CASE UNCHANGED << rows, uuids >>
  BY <1>0, <1>1 DEF Grows, SameTask
<1>2. ASSUME NEW e \in Engine, NEW m \in Msg, Publishes(e, m) PROVE Grows
  BY <1>0, <1>2 DEF Publishes, Grows, SameTask
<1>3. ASSUME NEW e \in Engine, NEW r \in 1 .. Len(rows), Commits(e, r) PROVE Grows
  BY <1>0, <1>3 DEF Commits, Grows, SameTask
<1>4. ASSUME NEW e \in Engine, NEW m \in observer[e], Inserts(e, m) PROVE Grows
  BY <1>0, <1>4 DEF Inserts, Grows, SameTask
<1>5. ASSUME NEW e \in Engine, NEW m \in observer[e], Updates(e, m) PROVE Grows
  <2>1. m.status = "WAIT"
    BY <1>5 DEF Updates, QueueInv, GoodMessages, GoodMessage
  <2> QED
    BY <1>0, <1>5, <2>1 DEF Updates, Grows, SameTask
<1>6. ASSUME NEW e \in Engine,
             (\E m \in Msg : CallEffects(e, m)) \/ (\E k \in calls : Receives(e, k)) \/ Drops(e) \/ Restarts(e)
      PROVE  UNCHANGED << rows, uuids >>
  BY <1>6 DEF CallEffects, Calls, Receives, Drops, Restarts
<1>7. CASE Quiet
  BY <1>1, <1>7 DEF Quiet
<1> QED
  BY <1>1, <1>2, <1>3, <1>4, <1>5, <1>6, <1>7 DEF QueueEffect

(* A good message stays good. *)
LEMMA MessageKeeps ==
    ASSUME TypeOK, TypeOK', Grows, NEW m \in Msg, RefersTo(m), GoodMessage(m)
    PROVE  GoodMessage(m)'
<1>1. Len(rows) \in Nat /\ uuids \in Nat /\ uuids' \in Nat /\ m.uuid \in Nat /\ m.id \in 0 .. Len(rows)
  BY SchedulingAssumption DEF TypeOK, StateTypes, RefersTo, Msg
<1>2. CASE m.id = 0
  BY <1>1, <1>2 DEF GoodMessage, Grows
<1>3. CASE m.id # 0
  <2>1. SameTask(m.id)
    BY <1>1, <1>3 DEF Grows
  <2> QED
    BY <1>3, <2>1 DEF GoodMessage, SameTask
<1> QED
  BY <1>2, <1>3

(* What is in the queues after a step was there before, or is good. *)
LEMMA QueuedBefore ==
    ASSUME TypeOK, TypeOK', QueueInv, QueueEffect
    PROVE  /\ \A f \in Engine : \A m \in observer'[f] :
                \/ m \in observer[f] \/ \E k \in calls : k.msg = m
                \/ \E e \in Engine : Publishes(e, m)
           /\ \A k \in calls' : k \in calls \/ \E e \in Engine : k.msg \in Msg /\ CallEffects(e, k.msg)
<1> DEFINE O == \A f \in Engine : \A m \in observer'[f] :
                  \/ m \in observer[f] \/ \E k \in calls : k.msg = m
                  \/ \E e \in Engine : Publishes(e, m)
           C == \A k \in calls' : k \in calls \/ \E e \in Engine : k.msg \in Msg /\ CallEffects(e, k.msg)
<1>0. observer \in [Engine -> SUBSET Msg]
  BY DEF TypeOK, StateTypes
<1>1. ASSUME UNCHANGED << observer, calls >> PROVE O /\ C
  BY <1>1
<1>2. ASSUME NEW e \in Engine, observer' = [observer EXCEPT ![e] = {}], calls' \subseteq calls PROVE O /\ C
  BY <1>0, <1>2
<1>3. ASSUME NEW e \in Engine, NEW m \in Msg, Publishes(e, m) PROVE O /\ C
  <2>1. UNCHANGED calls /\ observer' = [observer EXCEPT ![e] = {m}]
    BY <1>3 DEF Publishes
  <2> QED
    BY <1>0, <1>3, <2>1
<1>4. ASSUME NEW e \in Engine, NEW m \in Msg, CallEffects(e, m) PROVE O /\ C
  <2>1. UNCHANGED observer /\ \E c : calls' = calls \cup {[by |-> c, at |-> e, msg |-> m]}
    BY <1>4 DEF CallEffects, Calls
  <2> QED
    BY <1>4, <2>1
<1>5. ASSUME NEW e \in Engine, NEW k \in calls, Receives(e, k) PROVE O /\ C
  <2>1. calls' \subseteq calls /\ observer' = [observer EXCEPT ![e] = {k.msg}]
    BY <1>5 DEF Receives
  <2> QED
    BY <1>0, <2>1
<1>6. ASSUME NEW e \in Engine,
             (\E m \in observer[e] : Inserts(e, m) \/ Updates(e, m)) \/ Drops(e) \/ Restarts(e)
      PROVE  observer' = [observer EXCEPT ![e] = {}] /\ calls' \subseteq calls
  BY <1>6 DEF Inserts, Updates, Drops, Restarts
<1>7. ASSUME NEW e \in Engine, NEW r \in 1 .. Len(rows), Commits(e, r) PROVE UNCHANGED << observer, calls >>
  BY <1>7 DEF Commits
<1>8. Quiet => UNCHANGED << observer, calls >>
  BY DEF Quiet
<1> HIDE DEF O, C
<1>9. O /\ C
  BY <1>1, <1>2, <1>3, <1>4, <1>5, <1>6, <1>7, <1>8 DEF QueueEffect
<1> QED
  BY <1>9 DEF O, C

LEMMA QueueOneMessage ==
    ASSUME TypeOK, QueueInv, QueueEffect
    PROVE  OneMessage'
<1>0. observer \in [Engine -> SUBSET Msg] /\ OneMessage
  BY DEF TypeOK, StateTypes, QueueInv
<1>1. CASE UNCHANGED observer
  BY <1>0, <1>1 DEF OneMessage
<1>2. ASSUME NEW e \in Engine, observer' = [observer EXCEPT ![e] = {}] PROVE OneMessage'
  BY <1>0, <1>2 DEF OneMessage
<1>3. ASSUME NEW e \in Engine, NEW m, observer' = [observer EXCEPT ![e] = {m}] PROVE OneMessage'
  BY <1>0, <1>3 DEF OneMessage
<1>4. \A e \in Engine : \A m \in Msg : Publishes(e, m) => observer' = [observer EXCEPT ![e] = {m}]
  BY DEF Publishes
<1>5. \A e \in Engine : \A k \in calls : Receives(e, k) => observer' = [observer EXCEPT ![e] = {k.msg}]
  BY DEF Receives
<1>6. \A e \in Engine : \A m \in Msg : CallEffects(e, m) => UNCHANGED observer
  BY DEF CallEffects, Calls
<1>7. \A e \in Engine : \A r \in 1 .. Len(rows) : Commits(e, r) => UNCHANGED observer
  BY DEF Commits
<1>8. \A e \in Engine : \A m \in observer[e] :
         Inserts(e, m) \/ Updates(e, m) => observer' = [observer EXCEPT ![e] = {}]
  BY DEF Inserts, Updates
<1>9. \A e \in Engine : Drops(e) \/ Restarts(e) => observer' = [observer EXCEPT ![e] = {}]
  BY DEF Drops, Restarts
<1>10. Quiet => UNCHANGED observer
  BY DEF Quiet
<1> QED
  BY <1>1, <1>2, <1>3, <1>4, <1>5, <1>6, <1>7, <1>8, <1>9, <1>10 DEF QueueEffect

LEMMA PublishedGood ==
    ASSUME TypeOK, NEW e \in Engine, NEW m, Publishes(e, m)
    PROVE  GoodMessage(m)'
<1>1. uuids \in Nat
  BY SchedulingAssumption DEF TypeOK, StateTypes
<1> QED
  BY <1>1 DEF Publishes, GoodMessage

LEMMA CalledGood ==
    ASSUME TypeOK, QueueInv, NEW e \in Engine, NEW m \in Msg, CallEffects(e, m)
    PROVE  GoodMessage(m)'
<1>1. UNCHANGED << rows, uuids >> /\ uuids \in Nat
  BY SchedulingAssumption DEF CallEffects, Calls, TypeOK, StateTypes
<1>2. CASE Starts(m)
  BY <1>1, <1>2 DEF Starts, GoodMessage
<1>3. ASSUME NEW u \in 1 .. MaxUuids, Wakes(u, m) PROVE GoodMessage(m)'
  <2>1. m.id # 0 /\ rows[m.id].uuid = u /\ m.uuid = u /\ m.status = "WAIT" /\ u # 0
    BY <1>3 DEF Wakes, SleepingRows, TypeOK, StateTypes
  <2> QED
    BY <1>1, <2>1 DEF GoodMessage
<1> QED
  BY <1>2, <1>3 DEF CallEffects

LEMMA QueueMessages ==
    ASSUME TypeOK, TypeOK', QueueInv, QueueEffect, Grows
    PROVE  GoodMessages'
<1>1. ASSUME NEW m \in Msg, RefersTo(m), GoodMessage(m) PROVE GoodMessage(m)'
  BY <1>1, MessageKeeps
<1>2. ASSUME NEW f \in Engine, NEW m \in observer'[f] PROVE GoodMessage(m)'
  <2>1. \A n \in observer[f] : n \in Msg /\ RefersTo(n) /\ GoodMessage(n)
    BY DEF TypeOK, StateTypes, References, QueueInv, GoodMessages
  <2>2. \A k \in calls : k.msg \in Msg /\ RefersTo(k.msg) /\ GoodMessage(k.msg)
    BY DEF TypeOK, StateTypes, References, QueueInv, GoodMessages
  <2>3. \/ m \in observer[f] \/ \E k \in calls : k.msg = m
        \/ \E e \in Engine : Publishes(e, m)
    BY QueuedBefore
  <2> QED
    BY <1>1, <2>1, <2>2, <2>3, PublishedGood
<1>3. ASSUME NEW k \in calls' PROVE GoodMessage(k.msg)'
  <2>1. k \in calls => k.msg \in Msg /\ RefersTo(k.msg) /\ GoodMessage(k.msg)
    BY DEF TypeOK, StateTypes, References, QueueInv, GoodMessages
  <2>2. k \in calls \/ \E e \in Engine : k.msg \in Msg /\ CallEffects(e, k.msg)
    BY QueuedBefore
  <2> QED
    BY <1>1, <2>1, <2>2, CalledGood
<1> QED
  BY <1>2, <1>3 DEF GoodMessages

(* A step adds no row, or the one of an inserted message. *)
LEMMA RowsBefore ==
    ASSUME TypeOK, QueueEffect
    PROVE  \/ Len(rows') = Len(rows)
           \/ \E e \in Engine : \E m \in observer[e] : Inserts(e, m)
<1>1. \A e \in Engine : \A m \in Msg : Publishes(e, m) \/ CallEffects(e, m) => UNCHANGED rows
  BY DEF Publishes, CallEffects, Calls
<1>2. \A e \in Engine : \A r \in 1 .. Len(rows) : Commits(e, r) => Len(rows') = Len(rows)
  BY DEF Commits
<1>3. \A e \in Engine : \A k \in calls : Receives(e, k) => UNCHANGED rows
  BY DEF Receives
<1>4. \A e \in Engine : \A m \in observer[e] : Updates(e, m) => Len(rows') = Len(rows)
  BY DEF Updates
<1>5. \A e \in Engine : Drops(e) \/ Restarts(e) => UNCHANGED rows
  BY DEF Drops, Restarts
<1>6. Quiet => UNCHANGED rows
  BY DEF Quiet
<1> QED
  BY <1>1, <1>2, <1>3, <1>4, <1>5, <1>6 DEF QueueEffect

LEMMA QueueRows ==
    ASSUME TypeOK, TypeOK', QueueInv, QueueEffect, Grows
    PROVE  \A r \in 1 .. Len(rows') : GoodRow(r)'
<1>0. Len(rows) \in Nat /\ uuids \in Nat /\ uuids' \in Nat /\ uuids' >= uuids
  BY SchedulingAssumption DEF TypeOK, StateTypes, Grows
<1>1. ASSUME NEW r \in 1 .. Len(rows) PROVE GoodRow(r)'
  <2>1. GoodRow(r) /\ SameTask(r) /\ (rows'[r].status = "SLEEP" => rows[r].status = "SLEEP")
    BY DEF QueueInv, Grows
  <2>2. rows[r].uuid \in Nat
    <3>1. rows[r] \in RowSet
      BY ElementOfSeq DEF TypeOK, StateTypes
    <3> QED
      BY <3>1 DEF RowSet
  <2> QED
    BY <1>0, <2>1, <2>2 DEF GoodRow, SameTask
<1>2. CASE Len(rows') = Len(rows)
  BY <1>1, <1>2
<1>3. ASSUME NEW e \in Engine, NEW m \in observer[e], Inserts(e, m)
      PROVE  \A r \in 1 .. Len(rows') : GoodRow(r)'
  <2>1. GoodMessage(m) /\ m.id = 0
    BY <1>3 DEF QueueInv, GoodMessages, Inserts
  <2>2. PICK n \in Nat : n = Len(rows) + 1
    BY <1>0
  <2>3. rows'[n].uuid = m.uuid /\ rows'[n].status = m.status
    BY <1>3, <2>2 DEF Inserts
  <2>4. Len(rows') = n /\ uuids' = uuids
    BY <1>3, <2>2 DEF Inserts
  <2>5. GoodRow(n)'
    BY <2>1, <2>3, <2>4 DEF GoodRow, GoodMessage
  <2> QED
    BY <1>0, <1>1, <2>2, <2>4, <2>5
<1> QED
  BY <1>2, <1>3, RowsBefore

LEMMA QueueSched ==
    ASSUME TypeOK, TypeOK', QueueInv, Grows, SchedEffect
    PROVE  \A e \in Engine : GoodSched(e)'
<1>0. /\ Len(rows) \in Nat /\ uuids \in Nat /\ uuids' \in Nat /\ uuids' >= uuids
      /\ \A e \in Engine : /\ sched[e].uuid \in Nat /\ sched[e].row \in 0 .. Len(rows)
                           /\ sched'[e].row \in Nat
                           /\ sched'[e].pc \in {"idle", "select"} => sched'[e].row = 0
  <2>1. Len(rows) \in Nat /\ uuids \in Nat /\ uuids' \in Nat /\ uuids' >= uuids
    BY SchedulingAssumption DEF TypeOK, StateTypes, Grows
  <2>2. \A e \in Engine : sched[e] \in SchedSet /\ sched'[e] \in SchedSet
    BY DEF TypeOK, StateTypes
  <2>3. \A e \in Engine : /\ sched[e].row \in 0 .. Len(rows)
                          /\ sched'[e].pc \in {"idle", "select"} => sched'[e].row = 0
    BY DEF TypeOK, References, RowExists
  <2> QED
    BY <2>1, <2>2, <2>3 DEF SchedSet
<1>1. ASSUME NEW f \in Engine, sched'[f].row = sched[f].row, sched'[f].uuid <= uuids',
             sched'[f].pc \in {"idle", "select", "update", "release"} => sched'[f].uuid = 0
      PROVE  GoodSched(f)'
  <2>1. sched[f].row # 0 => rows[sched[f].row].status # "SLEEP"
    BY DEF QueueInv, GoodSched
  <2>2. sched[f].row # 0 => rows'[sched[f].row].status # "SLEEP"
    BY <1>0, <2>1 DEF Grows
  <2> QED
    BY <1>1, <2>2 DEF GoodSched
<1>2. ASSUME NEW f \in Engine, sched'[f] = sched[f] PROVE GoodSched(f)'
  <2>1. sched[f].uuid <= uuids /\ (sched[f].pc \in {"idle", "select", "update", "release"} => sched[f].uuid = 0)
    BY DEF QueueInv, GoodSched
  <2> QED
    BY <1>0, <1>1, <1>2, <2>1
<1>3. ASSUME NEW f \in Engine, sched'[f] = Idle PROVE GoodSched(f)'
  BY <1>0, <1>3 DEF GoodSched, Idle
<1>4. ASSUME NEW e \in Engine, Moves(e) PROVE GoodSched(e)'
  <2>1. sched'[e].uuid = 0 /\ UNCHANGED rows
    BY <1>4 DEF Moves, QueueInv, GoodSched
  <2>2. CASE sched'[e].row = sched[e].row
    BY <1>0, <1>1, <2>1, <2>2
  <2>3. CASE sched'[e].row = 0
    BY <1>0, <2>1, <2>3 DEF GoodSched
  <2>4. CASE sched'[e].row \in Waiting
    BY <1>0, <2>1, <2>4 DEF GoodSched, Waiting
  <2> QED
    BY <1>0, <1>4, <2>2, <2>3, <2>4 DEF Moves
<1>5. ASSUME NEW e \in Engine, Retries(e) PROVE GoodSched(e)'
  <2>1. sched'[e].row = sched[e].row /\ sched'[e].pc \in {"run", "failed"} /\ sched'[e].uuid \in {0, sched[e].uuid}
    BY <1>5 DEF Retries, Became
  <2>2. sched[e].uuid <= uuids
    BY DEF QueueInv, GoodSched
  <2> QED
    BY <1>0, <1>1, <2>1, <2>2
<1>6. ASSUME NEW e \in Engine, Dies(e) \/ (\E op : Advances(e, op)) PROVE GoodSched(e)'
  <2>1. sched'[e].row = sched[e].row /\ sched'[e].pc \in {"run", "dead"} /\ sched'[e].uuid = sched[e].uuid
    BY <1>6 DEF Dies, Advances, Became
  <2>2. sched[e].uuid <= uuids
    BY DEF QueueInv, GoodSched
  <2> QED
    BY <1>0, <1>1, <2>1, <2>2
<1>7. ASSUME NEW e \in Engine, NEW m \in Msg, Publishes(e, m) PROVE GoodSched(e)'
  <2>1. sched'[e].row = sched[e].row /\ sched'[e].pc = "run" /\ sched'[e].uuid <= uuids'
    BY <1>0, <1>7 DEF Publishes, Became
  <2> QED
    BY <1>1, <2>1
<1>8. ASSUME NEW e \in Engine, Others(e), GoodSched(e)' PROVE \A f \in Engine : GoodSched(f)'
  BY <1>2, <1>8 DEF Others
<1>9. \A e \in Engine : Stops(e) \/ Moves(e) \/ Retries(e) \/ Dies(e) \/ (\E m \in Msg : Publishes(e, m))
                           \/ (\E op : Advances(e, op)) => Others(e)
  BY DEF Stops, Moves, Retries, Dies, Publishes, Advances, Became
<1>10. \A e \in Engine : Stops(e) => GoodSched(e)'
  BY <1>3 DEF Stops
<1> QED
  BY <1>2, <1>4, <1>5, <1>6, <1>7, <1>8, <1>9, <1>10 DEF SchedEffect

(* A callback count changes when an event is published or answered. *)
CallbackEffect ==
    \/ UNCHANGED callbacks
    \/ \E e \in Engine : /\ Advances(e, "event") \/ Retries(e)
                         /\ Running(e, "event") /\ Announce(sched[e].uuid)
    \/ \E u \in 1 .. MaxUuids : Answers(u)

LEMMA EffectCallbacks ==
    ASSUME Effect \/ UNCHANGED vars
    PROVE  CallbackEffect
<1>1. CASE UNCHANGED vars
  BY <1>1 DEF vars, CallbackEffect
<1>2. ASSUME NEW e \in Engine, Moves(e) \/ ObserveOf(e) \/ Restarts(e) PROVE UNCHANGED callbacks
  BY <1>2 DEF Moves, ObserveOf, Receives, Inserts, Updates, Drops, Restarts
<1>3. ASSUME NEW e \in Engine, ExecuteOf(e) PROVE CallbackEffect
  <2>1. ASSUME NEW op, Advances(e, op) PROVE CallbackEffect
    BY <2>1 DEF Advances, CallbackEffect
  <2>2. CASE Retries(e)
    BY <2>2 DEF Retries, CallbackEffect
  <2>3. CASE (\E m \in Msg : Publishes(e, m)) \/ Dies(e) \/ (\E r \in 1 .. Len(rows) : Commits(e, r)) \/ Abandons(e)
    BY <2>3 DEF Publishes, Dies, Commits, Abandons, CallbackEffect
  <2> QED
    BY <1>3, <2>1, <2>2, <2>3 DEF ExecuteOf
<1>4. ASSUME NEW e \in Engine, NEW c \in Caller, CallOf(c, e) PROVE CallbackEffect
  BY <1>4 DEF CallOf, Starts, Wakes, Misses, CallbackEffect
<1> QED
  BY <1>1, <1>2, <1>3, <1>4 DEF Effect, CallbackEffect

LEMMA QueueCallbacks ==
    ASSUME TypeOK, TypeOK', QueueInv, Grows, CallbackEffect
    PROVE  \A u \in 1 .. MaxUuids : u > uuids' => callbacks'[u] = -1
<1>0. /\ uuids \in Nat /\ uuids' \in Nat /\ uuids' >= uuids /\ MaxUuids \in Nat
      /\ callbacks \in [1 .. MaxUuids -> Int]
      /\ \A u \in 1 .. MaxUuids : u > uuids => callbacks[u] = -1
  <2>1. uuids \in Nat /\ uuids' \in Nat /\ uuids' >= uuids
    BY SchedulingAssumption DEF TypeOK, StateTypes, Grows
  <2>2. MaxUuids \in Nat /\ callbacks \in [1 .. MaxUuids -> Int]
    BY SchedulingAssumption DEF TypeOK, StateTypes
  <2>3. \A u \in 1 .. MaxUuids : u > uuids => callbacks[u] = -1
    BY DEF QueueInv
  <2> QED
    BY <2>1, <2>2, <2>3
<1>1. CASE UNCHANGED callbacks
  BY <1>0, <1>1
<1>2. ASSUME NEW e \in Engine, Announce(sched[e].uuid)
      PROVE  \A u \in 1 .. MaxUuids : u > uuids' => callbacks'[u] = -1
  <2>1. sched[e].uuid <= uuids /\ sched[e].uuid \in Nat
    BY DEF QueueInv, GoodSched, TypeOK, StateTypes, SchedSet
  <2> QED
    BY <1>0, <1>2, <2>1 DEF Announce
<1>3. ASSUME NEW v \in 1 .. MaxUuids, Answers(v)
      PROVE  \A u \in 1 .. MaxUuids : u > uuids' => callbacks'[u] = -1
  BY <1>0, <1>3 DEF Answers
<1> QED
  BY <1>1, <1>2, <1>3 DEF CallbackEffect

LEMMA QueueInit == Init => QueueInv
<1> SUFFICES ASSUME Init PROVE QueueInv
  OBVIOUS
<1>1. \A e \in Engine : sched[e] = Idle /\ observer[e] = {}
  BY DEF Init
<1>2. OneMessage /\ GoodMessages
  BY <1>1 DEF Init, OneMessage, GoodMessages
<1>3. \A e \in Engine : GoodSched(e)
  BY <1>1 DEF GoodSched, Idle, Init
<1>4. Len(rows) = 0 /\ \A u \in 1 .. MaxUuids : callbacks[u] = -1
  BY DEF Init
<1> QED
  BY <1>2, <1>3, <1>4 DEF QueueInv

LEMMA QueueNext == TypeOK /\ QueueInv /\ [Next]_vars => QueueInv'
<1> SUFFICES ASSUME TypeOK, QueueInv, [Next]_vars
             PROVE  QueueInv'
  OBVIOUS
<1>1. TypeOK'
  BY TypeNext
<1>2. QueueEffect /\ SchedEffect /\ CallbackEffect
  BY NextEffect, EffectParts, EffectCallbacks
<1>3. Grows
  BY <1>2, StepGrows
<1>4. OneMessage' /\ GoodMessages'
  BY <1>1, <1>2, <1>3, QueueOneMessage, QueueMessages
<1>5. \A r \in 1 .. Len(rows') : GoodRow(r)'
  BY <1>1, <1>2, <1>3, QueueRows
<1>6. \A e \in Engine : GoodSched(e)'
  BY <1>1, <1>2, <1>3, QueueSched
<1>7. \A u \in 1 .. MaxUuids : u > uuids' => callbacks'[u] = -1
  BY <1>1, <1>2, <1>3, QueueCallbacks
<1> QED
  BY <1>4, <1>5, <1>6, <1>7 DEF QueueInv

-----------------------------------------------------------------------------
Queued(u) ==
    \/ \E r \in 1 .. Len(rows) : rows[r].uuid = u
    \/ \E e \in Engine : \E m \in observer[e] : m.uuid = u

AnnouncedInv ==
    faults = 0 =>
        /\ \A u \in 1 .. MaxUuids : callbacks[u] >= 0 => Queued(u)
        /\ \A e \in Engine : sched[e].uuid # 0 => Queued(sched[e].uuid)

(* A failure is never forgotten. *)
LEMMA EffectFaults ==
    ASSUME Effect \/ UNCHANGED vars, faults' = 0
    PROVE  faults = 0
<1>1. CASE UNCHANGED vars
  BY <1>1 DEF vars
<1>2. ASSUME NEW e \in Engine, Moves(e) \/ ObserveOf(e) \/ Restarts(e) PROVE faults = 0
  BY <1>2 DEF Moves, ObserveOf, Receives, Inserts, Updates, Drops, Restarts
<1>3. ASSUME NEW e \in Engine, ExecuteOf(e) PROVE faults = 0
  BY <1>3 DEF ExecuteOf, Publishes, Advances, Retries, Dies, Commits, Abandons
<1>4. ASSUME NEW e \in Engine, NEW c \in Caller, CallOf(c, e) PROVE faults = 0
  BY <1>4 DEF CallOf, Calls, Misses
<1> QED
  BY <1>1, <1>2, <1>3, <1>4 DEF Effect

(* Without a failure a message leaves the observer only for the database,  *)
(* or it is a transition that timed out.                                   *)
LEMMA MessageLeaves ==
    ASSUME TypeOK, QueueInv, QueueEffect, faults' = 0,
           NEW e \in Engine, NEW m \in observer[e], m \notin observer'[e]
    PROVE  Inserts(e, m) \/ m.id # 0
<1>0. observer \in [Engine -> SUBSET Msg] /\ \A n \in observer[e] : n = m
  BY DEF TypeOK, StateTypes, QueueInv, OneMessage
<1>1. CASE UNCHANGED observer
  BY <1>1
<1>2. ASSUME NEW f \in Engine, NEW n, observer[f] = {}, observer' = [observer EXCEPT ![f] = {n}] PROVE FALSE
  BY <1>0, <1>2
<1>3. ASSUME NEW f \in Engine, observer' = [observer EXCEPT ![f] = {}] PROVE f = e
  BY <1>0, <1>3
<1>4. ASSUME NEW f \in Engine, NEW n \in Msg, Publishes(f, n) PROVE FALSE
  <2>1. observer[f] = {} /\ observer' = [observer EXCEPT ![f] = {n}]
    BY <1>4 DEF Publishes
  <2> QED
    BY <1>2, <2>1
<1>5. ASSUME NEW f \in Engine, NEW k \in calls, Receives(f, k) PROVE FALSE
  <2>1. observer[f] = {} /\ observer' = [observer EXCEPT ![f] = {k.msg}]
    BY <1>5 DEF Receives
  <2> QED
    BY <1>2, <2>1
<1>6. ASSUME NEW f \in Engine, NEW n \in observer[f], Inserts(f, n) PROVE Inserts(e, m)
  <2>1. f = e
    BY <1>3, <1>6 DEF Inserts
  <2> QED
    BY <1>0, <1>6, <2>1
<1>7. ASSUME NEW f \in Engine, NEW n \in observer[f], Updates(f, n) PROVE m.id # 0
  <2>1. f = e /\ n.id # 0
    BY <1>3, <1>7 DEF Updates, TypeOK, StateTypes
  <2> QED
    BY <1>0, <2>1
<1>8. ASSUME NEW f \in Engine, Drops(f) PROVE m.id # 0
  <2>1. f = e
    BY <1>3, <1>8 DEF Drops
  <2> QED
    BY <1>0, <1>8, <2>1 DEF Drops
<1>9. \A f \in Engine : ~ Restarts(f)
  BY DEF Restarts
<1>10. \A f \in Engine : (\E n \in Msg : CallEffects(f, n)) \/ (\E r \in 1 .. Len(rows) : Commits(f, r))
                            => UNCHANGED observer
  BY DEF CallEffects, Calls, Commits
<1>11. Quiet => UNCHANGED observer
  BY DEF Quiet
<1> QED
  BY <1>1, <1>4, <1>5, <1>6, <1>7, <1>8, <1>9, <1>10, <1>11 DEF QueueEffect

LEMMA QueuedKeeps ==
    ASSUME TypeOK, TypeOK', QueueInv, QueueEffect, Grows, faults' = 0, NEW u, Queued(u)
    PROVE  Queued(u)'
<1>0. Len(rows) \in Nat /\ Len(rows') \in Nat /\ Len(rows') >= Len(rows)
  BY DEF TypeOK, StateTypes, Grows
<1>1. ASSUME NEW r \in 1 .. Len(rows), rows[r].uuid = u PROVE Queued(u)'
  <2>1. r \in 1 .. Len(rows') /\ rows'[r].uuid = u
    BY <1>0, <1>1 DEF Grows, SameTask
  <2> QED
    BY <2>1 DEF Queued
<1>2. ASSUME NEW e \in Engine, NEW m \in observer[e], m.uuid = u PROVE Queued(u)'
  <2>1. CASE m \in observer'[e]
    BY <1>2, <2>1 DEF Queued
  <2>2. CASE m.id # 0
    <3>1. m.id \in 1 .. Len(rows) /\ rows[m.id].uuid = u
      BY <1>2, <2>2 DEF QueueInv, GoodMessages, GoodMessage, TypeOK, References, RefersTo
    <3> QED
      BY <1>1, <3>1
  <2>3. CASE Inserts(e, m)
    <3>1. PICK n \in Nat : n = Len(rows) + 1
      BY <1>0
    <3>2. n \in 1 .. Len(rows') /\ rows'[n].uuid = u
      BY <1>0, <1>2, <2>3, <3>1 DEF Inserts
    <3> QED
      BY <3>2 DEF Queued
  <2> QED
    BY <2>1, <2>2, <2>3, MessageLeaves
<1> QED
  BY <1>1, <1>2 DEF Queued

(* The id a scheduler keeps for its event is the one it published last. *)
LEMMA SchedUuid ==
    ASSUME TypeOK, SchedEffect, NEW f \in Engine
    PROVE  \/ sched'[f].uuid \in {0, sched[f].uuid}
           \/ \E m \in Msg : Publishes(f, m) /\ sched'[f].uuid = m.uuid
<1>1. CASE UNCHANGED sched
  BY <1>1
<1>2. ASSUME NEW e \in Engine, e # f, Others(e) PROVE sched'[f].uuid = sched[f].uuid
  BY <1>2 DEF Others
<1>3. \A e \in Engine : Stops(e) \/ Moves(e) \/ Retries(e) \/ Dies(e) \/ (\E m \in Msg : Publishes(e, m))
                           \/ (\E op : Advances(e, op)) => Others(e)
  BY DEF Stops, Moves, Retries, Dies, Publishes, Advances, Became
<1>4. Stops(f) \/ Moves(f) \/ Retries(f) \/ Dies(f) \/ (\E op : Advances(f, op)) => sched'[f].uuid \in {0, sched[f].uuid}
  BY DEF Stops, Moves, Retries, Dies, Advances, Became, Idle
<1>5. \A m \in Msg : Publishes(f, m) => sched'[f].uuid = m.uuid
  BY DEF Publishes, Became
<1> QED
  BY <1>1, <1>2, <1>3, <1>4, <1>5 DEF SchedEffect

LEMMA AnnouncedNext == TypeOK /\ QueueInv /\ AnnouncedInv /\ [Next]_vars => AnnouncedInv'
<1> SUFFICES ASSUME TypeOK, QueueInv, AnnouncedInv, [Next]_vars, faults' = 0
             PROVE  /\ \A u \in 1 .. MaxUuids : callbacks'[u] >= 0 => Queued(u)'
                    /\ \A e \in Engine : sched'[e].uuid # 0 => Queued(sched[e].uuid)'
  BY DEF AnnouncedInv
<1>1. TypeOK'
  BY TypeNext
<1>2. QueueEffect /\ SchedEffect /\ CallbackEffect /\ faults = 0
  BY NextEffect, EffectParts, EffectCallbacks, EffectFaults
<1>3. Grows
  BY <1>2, StepGrows
<1>4. \A u : Queued(u) => Queued(u)'
  BY <1>1, <1>2, <1>3, QueuedKeeps
<1>5. ASSUME NEW u \in 1 .. MaxUuids, callbacks'[u] >= 0 PROVE Queued(u)'
  <2>0. callbacks \in [1 .. MaxUuids -> Int]
    BY DEF TypeOK, StateTypes
  <2>1. CASE callbacks[u] >= 0
    BY <1>2, <1>4, <2>1 DEF AnnouncedInv
  <2>2. CASE \E e \in Engine : sched[e].uuid = u
    <3>1. u # 0
      BY SchedulingAssumption
    <3> QED
      BY <1>2, <1>4, <2>2, <3>1 DEF AnnouncedInv
  <2>3. ASSUME NEW e \in Engine, Announce(sched[e].uuid), sched[e].uuid # u
        PROVE  callbacks'[u] = callbacks[u]
    BY <2>0, <2>3 DEF Announce
  <2>4. ASSUME NEW v \in 1 .. MaxUuids, Answers(v) PROVE callbacks[u] >= 0
    BY <1>5, <2>0, <2>4 DEF Answers
  <2> QED
    BY <1>2, <1>5, <2>1, <2>2, <2>3, <2>4 DEF CallbackEffect
<1>6. ASSUME NEW f \in Engine, sched'[f].uuid # 0 PROVE Queued(sched[f].uuid)'
  <2>1. PICK u \in Nat : u = sched'[f].uuid
    BY <1>1 DEF TypeOK, StateTypes, SchedSet
  <2>2. Queued(u)'
    <3>1. CASE u = sched[f].uuid
      BY <1>2, <1>4, <1>6, <2>1, <3>1 DEF AnnouncedInv
    <3>2. ASSUME NEW m \in Msg, Publishes(f, m), u = m.uuid PROVE Queued(u)'
      <4>1. m \in observer'[f]
        BY <3>2 DEF Publishes, TypeOK, StateTypes
      <4> QED
        BY <3>2, <4>1 DEF Queued
    <3> QED
      BY <1>2, <1>6, <2>1, <3>1, <3>2, SchedUuid
  <2> QED
    BY <2>1, <2>2 DEF Queued
<1> QED
  BY <1>5, <1>6

(* AnnouncedIsQueued, for any number of engines, callers and callbacks:    *)
(* publishNextTask draws the id and queues the successor before            *)
(* publishEvent lets the id out, and no interleaving of schedulers and     *)
(* observers changes that.                                                 *)
THEOREM EventFollowsSuccessor == Spec => []AnnouncedIsQueued
<1>1. Init => TypeOK /\ QueueInv /\ AnnouncedInv
  <2>1. Init => AnnouncedInv
    BY SchedulingAssumption DEF Init, AnnouncedInv, Idle
  <2> QED
    BY <2>1, TypeInit, QueueInit
<1>2. TypeOK /\ QueueInv /\ AnnouncedInv /\ [Next]_vars => (TypeOK /\ QueueInv /\ AnnouncedInv)'
  BY TypeNext, QueueNext, AnnouncedNext
<1>3. TypeOK /\ QueueInv /\ AnnouncedInv => AnnouncedIsQueued
  <2>1. TypeOK => DOMAIN rows = 1 .. Len(rows)
    BY DEF TypeOK, StateTypes
  <2> QED
    BY <2>1 DEF AnnouncedInv, AnnouncedIsQueued, Queued
<1> QED
  BY <1>1, <1>2, <1>3, PTL DEF Spec

-----------------------------------------------------------------------------
PanicAhead(t, i) == \E j \in i .. Len(Steps(t)) : OpAt(t, j) = "panic"

Panics(t) == PanicAhead(t, 1)

PanicState(e) ==
    /\ sched[e].pc = "dead" => Panics(TaskOf(e))
    /\ sched[e].row # 0 /\ Panics(TaskOf(e)) =>
          /\ sched[e].pc # "failed"
          /\ sched[e].pc = "run" => PanicAhead(TaskOf(e), sched[e].step)

PanicRow(r) == Panics(rows[r].task) => rows[r].status \in {"SLEEP", "WAIT"} /\ rows[r].runs = 0

PanicInv ==
    /\ \A r \in 1 .. Len(rows) : PanicRow(r)
    /\ \A e \in Engine : PanicState(e)

(* Only a publish comes before a panic. *)
LEMMA BeforePanic ==
    ASSUME NEW t \in Task, NEW j \in 1 .. Len(Steps(t)), OpAt(t, j) = "panic", NEW i \in 1 .. j
    PROVE  OpAt(t, i) \in {"publish", "panic"}
<1> DEFINE s == Steps(t)
<1>0. Form(t, s) /\ s[j].op = "panic"
  BY StepsForm DEF OpAt
<1>1. CASE SwitchForm(t, s)
  BY <1>0, <1>1 DEF SwitchForm
<1>2. CASE LastForm(t, s)
  <2>1. j \in {1, 2} /\ s[2].op = "complete"
    BY <1>2 DEF LastForm, Do
  <2> QED
    BY <1>0, <2>1 DEF OpAt
<1>3. CASE AsleepForm(t, s)
  <2>1. j \in {1, 2} /\ s[1].op = "publish"
    BY <1>3 DEF AsleepForm, Publish
  <2> QED
    BY <1>0, <2>1 DEF OpAt
<1>4. CASE LocalForm(t, s)
  <2>1. j = 1 \/ j \in 2 .. Len(s)
    OBVIOUS
  <2> QED
    BY <1>0, <1>4, <2>1 DEF LocalForm
<1>5. CASE NoForm(t, s)
  BY <1>5 DEF NoForm
<1> QED
  BY <1>0, <1>1, <1>2, <1>3, <1>4, <1>5 DEF Form

LEMMA StepsLength ==
    ASSUME NEW t \in Task
    PROVE  Steps(t) \in Seq(StepSet) /\ Len(Steps(t)) \in Nat
BY StepsGood DEF GoodSteps

(* The scheduler in front of a panic: it publishes or panics next. *)
LEMMA PanicNextOp ==
    ASSUME NEW t \in Task, NEW i \in Nat, i # 0, PanicAhead(t, i)
    PROVE  /\ i <= Len(Steps(t))
           /\ OpAt(t, i) \in {"publish", "panic"}
           /\ OpAt(t, i) = "publish" => PanicAhead(t, i + 1)
<1>0. Len(Steps(t)) \in Nat
  BY StepsLength
<1>1. PICK j \in i .. Len(Steps(t)) : OpAt(t, j) = "panic"
  BY DEF PanicAhead
<1>2. j \in 1 .. Len(Steps(t)) /\ i \in 1 .. j
  BY <1>0, <1>1
<1>3. OpAt(t, i) \in {"publish", "panic"}
  BY <1>1, <1>2, BeforePanic
<1>4. OpAt(t, i) = "publish" => j # i
  BY <1>1
<1>5. j # i => j \in i + 1 .. Len(Steps(t))
  BY <1>0, <1>2
<1> QED
  BY <1>0, <1>1, <1>2, <1>3, <1>4, <1>5 DEF PanicAhead

(* The task a scheduler works on is a task, and stays the same. *)
LEMMA TaskOfRow ==
    ASSUME TypeOK, NEW e \in Engine, sched[e].row # 0
    PROVE  /\ sched[e].row \in 1 .. Len(rows)
           /\ TaskOf(e) \in Task
           /\ sched[e].pc = "run" => sched[e].step \in Nat /\ sched[e].step # 0
<1>1. sched[e] \in SchedSet /\ RowExists(sched[e]) /\ Len(rows) \in Nat
  BY DEF TypeOK, StateTypes, References
<1>2. sched[e].row \in 1 .. Len(rows)
  BY <1>1 DEF RowExists
<1>3. rows[sched[e].row] \in RowSet
  BY <1>2, ElementOfSeq DEF TypeOK, StateTypes
<1> QED
  BY <1>1, <1>2, <1>3 DEF RowExists, TaskOf, RowSet, SchedSet

LEMMA TaskOfKeeps ==
    ASSUME TypeOK, Grows, NEW e \in Engine, sched[e].row # 0, sched'[e].row = sched[e].row
    PROVE  TaskOf(e)' = TaskOf(e)
BY TaskOfRow DEF Grows, SameTask, TaskOf

LEMMA PanicKeeps ==
    ASSUME TypeOK, Grows, NEW f \in Engine, PanicState(f), sched'[f] = sched[f]
    PROVE  PanicState(f)'
<1>1. CASE sched[f].row = 0
  <2>1. sched[f].pc # "dead"
    BY <1>1 DEF TypeOK, References, RowExists
  <2> QED
    BY <1>1, <2>1 DEF PanicState
<1>2. CASE sched[f].row # 0
  <2>1. TaskOf(f)' = TaskOf(f)
    BY <1>2, TaskOfKeeps
  <2> QED
    BY <2>1 DEF PanicState
<1> QED
  BY <1>1, <1>2

(* A scheduler that does something else than publish or panic is not in    *)
(* front of a panic.                                                       *)
LEMMA NotPanicking ==
    ASSUME TypeOK, NEW e \in Engine, PanicState(e), NEW op, Running(e, op), op \notin {"publish", "panic"}
    PROVE  sched[e].row # 0 /\ ~ Panics(TaskOf(e))
<1>1. sched[e].row # 0 /\ sched[e].pc = "run"
  BY DEF Running, TypeOK, References, RowExists
<1>2. OpAt(TaskOf(e), sched[e].step) = op
  BY DEF Running, OpAt
<1> QED
  BY <1>1, <1>2, TaskOfRow, PanicNextOp DEF PanicState

LEMMA PanicSched ==
    ASSUME TypeOK, TypeOK', PanicInv, Grows, SchedEffect
    PROVE  \A e \in Engine : PanicState(e)'
<1>1. ASSUME NEW e \in Engine, Others(e), PanicState(e)' PROVE \A f \in Engine : PanicState(f)'
  BY <1>1, PanicKeeps DEF Others, PanicInv
<1>2. CASE UNCHANGED sched
  BY <1>2, PanicKeeps DEF PanicInv
<1>3. ASSUME NEW e \in Engine, Stops(e) PROVE PanicState(e)'
  BY <1>3 DEF Stops, Idle, PanicState
<1>4. ASSUME NEW e \in Engine, Moves(e) PROVE PanicState(e)'
  <2>1. sched'[e].pc \notin {"dead", "failed"} /\ (sched'[e].pc = "run" => sched'[e].step = 1)
    BY <1>4 DEF Moves
  <2> QED
    BY <2>1 DEF PanicState, Panics
<1>5. ASSUME NEW e \in Engine, NEW op \in {"skip", "event", "a2a", "complete", "error"},
             Running(e, op), sched'[e].row = sched[e].row, sched'[e].pc \in {"run", "failed"}
      PROVE  PanicState(e)'
  <2>1. sched[e].row # 0 /\ ~ Panics(TaskOf(e))
    BY <1>5, NotPanicking DEF PanicInv
  <2>2. TaskOf(e)' = TaskOf(e)
    BY <1>5, <2>1, TaskOfKeeps
  <2> QED
    BY <1>5, <2>1, <2>2 DEF PanicState
<1>6. ASSUME NEW e \in Engine, Retries(e) PROVE PanicState(e)'
  <2>1. sched'[e].row = sched[e].row /\ sched'[e].pc \in {"run", "failed"}
    BY <1>6 DEF Retries, Became
  <2>2. \E op \in {"event", "a2a", "complete", "error"} : Running(e, op)
    BY <1>6 DEF Retries
  <2> QED
    BY <1>5, <2>1, <2>2
<1>7. ASSUME NEW e \in Engine, NEW op \in {"skip", "event", "a2a", "complete"}, Advances(e, op)
      PROVE  PanicState(e)'
  BY <1>5, <1>7 DEF Advances, Became
<1>8. ASSUME NEW e \in Engine, Dies(e) PROVE PanicState(e)'
  <2>1. sched[e].row # 0 /\ sched[e].pc = "run"
    BY <1>8 DEF Dies, Running, TypeOK, References, RowExists
  <2>2. /\ TaskOf(e)' = TaskOf(e) /\ TaskOf(e) \in Task /\ sched'[e].pc = "dead"
        /\ sched[e].step \in Nat /\ sched[e].step # 0
    BY <1>8, <2>1, TaskOfKeeps, TaskOfRow DEF Dies, Became
  <2>3. Len(Steps(TaskOf(e))) \in Nat /\ sched[e].step <= Len(Steps(TaskOf(e)))
    BY <1>8, <2>2, StepsLength DEF Dies, Running
  <2>4. OpAt(TaskOf(e), sched[e].step) = "panic"
    BY <1>8 DEF Dies, Running, OpAt
  <2>5. Panics(TaskOf(e))
    BY <2>2, <2>3, <2>4 DEF Panics, PanicAhead
  <2> QED
    BY <2>2, <2>5 DEF PanicState
<1>9. ASSUME NEW e \in Engine, NEW m \in Msg, Publishes(e, m) PROVE PanicState(e)'
  <2>1. sched[e].row # 0 /\ sched[e].pc = "run"
    BY <1>9 DEF Publishes, Running, TypeOK, References, RowExists
  <2>2. /\ TaskOf(e)' = TaskOf(e) /\ TaskOf(e) \in Task /\ sched'[e].pc = "run"
        /\ sched'[e].step = sched[e].step + 1
        /\ sched[e].step \in Nat /\ sched[e].step # 0
    BY <1>9, <2>1, TaskOfKeeps, TaskOfRow DEF Publishes, Became
  <2>3. OpAt(TaskOf(e), sched[e].step) = "publish"
    BY <1>9 DEF Publishes, Running, OpAt
  <2>4. Panics(TaskOf(e)) => PanicAhead(TaskOf(e), sched[e].step)
    BY <2>1 DEF PanicInv, PanicState
  <2>5. Panics(TaskOf(e)) => PanicAhead(TaskOf(e), sched[e].step + 1)
    BY <2>2, <2>3, <2>4, PanicNextOp
  <2> QED
    BY <2>2, <2>5 DEF PanicState
<1>10. \A e \in Engine : Stops(e) \/ Moves(e) \/ Retries(e) \/ Dies(e) \/ (\E m \in Msg : Publishes(e, m))
                           \/ (\E op : Advances(e, op)) => Others(e)
  BY DEF Stops, Moves, Retries, Dies, Publishes, Advances, Became
<1> QED
  BY <1>1, <1>2, <1>3, <1>4, <1>6, <1>7, <1>8, <1>9, <1>10 DEF SchedEffect

LEMMA PanicRows ==
    ASSUME TypeOK, TypeOK', QueueInv, PanicInv, QueueEffect
    PROVE  \A r \in 1 .. Len(rows') : PanicRow(r)'
<1>0. Len(rows) \in Nat
  BY DEF TypeOK, StateTypes
<1>1. CASE UNCHANGED rows
  BY <1>1 DEF PanicInv, PanicRow
<1>2. ASSUME NEW e \in Engine, NEW r \in 1 .. Len(rows), Commits(e, r)
      PROVE  \A q \in 1 .. Len(rows') : PanicRow(q)'
  <2>1. sched[e].row = r /\ sched[e].row # 0 /\ Finished(e) /\ SameTask(r) /\ Len(rows') = Len(rows)
    BY <1>2 DEF Commits
  <2>2. ~ Panics(TaskOf(e))
    <3>1. CASE sched[e].pc = "failed"
      BY <2>1, <3>1 DEF PanicInv, PanicState
    <3>2. CASE sched[e].pc = "run" /\ sched[e].step > Len(Steps(TaskOf(e)))
      <4>1. TaskOf(e) \in Task /\ sched[e].step \in Nat /\ sched[e].step # 0
        BY <2>1, <3>2, TaskOfRow
      <4>2. Len(Steps(TaskOf(e))) \in Nat
        BY <4>1, StepsLength
      <4>3. ~ PanicAhead(TaskOf(e), sched[e].step)
        BY <3>2, <4>1, <4>2, PanicNextOp
      <4> QED
        BY <2>1, <3>2, <4>3 DEF PanicInv, PanicState
    <3> QED
      BY <2>1, <3>1, <3>2 DEF Finished
  <2>3. PanicRow(r)'
    BY <2>1, <2>2 DEF PanicRow, SameTask, TaskOf
  <2>4. \A q \in 1 .. Len(rows) : q # r => rows'[q] = rows[q]
    BY <1>2 DEF Commits
  <2> QED
    BY <2>1, <2>3, <2>4 DEF PanicInv, PanicRow
<1>3. ASSUME NEW e \in Engine, NEW m \in observer[e], Inserts(e, m)
      PROVE  \A q \in 1 .. Len(rows') : PanicRow(q)'
  <2>1. PICK n \in Nat : n = Len(rows) + 1
    BY <1>0
  <2>2. m.status \in {"SLEEP", "WAIT"}
    BY DEF TypeOK, StateTypes, Msg
  <2>3. rows'[n].status = m.status /\ rows'[n].runs = 0 /\ Len(rows') = n
    BY <1>3, <2>1 DEF Inserts
  <2>4. PanicRow(n)'
    BY <2>2, <2>3 DEF PanicRow
  <2>5. \A q \in 1 .. Len(rows) : rows'[q] = rows[q]
    BY <1>3 DEF Inserts
  <2>6. ASSUME NEW q \in 1 .. Len(rows) PROVE PanicRow(q)'
    BY <2>5 DEF PanicInv, PanicRow
  <2>7. \A q \in 1 .. n : q = n \/ q \in 1 .. Len(rows)
    BY <1>0, <2>1
  <2> QED
    BY <2>3, <2>4, <2>6, <2>7
<1>4. ASSUME NEW e \in Engine, NEW m \in observer[e], Updates(e, m)
      PROVE  \A q \in 1 .. Len(rows') : PanicRow(q)'
  <2>1. m.status \in {"SLEEP", "WAIT"}
    BY DEF TypeOK, StateTypes, Msg
  <2>2. PICK r \in 1 .. Len(rows) : r = m.id
    BY <1>4 DEF Updates
  <2>3. /\ rows'[r].status = m.status /\ rows'[r].runs = 0 /\ Len(rows') = Len(rows)
        /\ \A q \in 1 .. Len(rows) : q # r => rows'[q] = rows[q]
    BY <1>4, <2>2 DEF Updates
  <2> QED
    BY <2>1, <2>3 DEF PanicInv, PanicRow
<1>5. \A e \in Engine : (\E m \in Msg : Publishes(e, m) \/ CallEffects(e, m)) \/ (\E k \in calls : Receives(e, k))
                           \/ Drops(e) \/ Restarts(e) => UNCHANGED rows
  BY DEF Publishes, CallEffects, Calls, Receives, Drops, Restarts
<1>6. Quiet => UNCHANGED rows
  BY DEF Quiet
<1> QED
  BY <1>1, <1>2, <1>3, <1>4, <1>5, <1>6 DEF QueueEffect

LEMMA PanicNext == TypeOK /\ QueueInv /\ PanicInv /\ [Next]_vars => PanicInv'
<1> SUFFICES ASSUME TypeOK, QueueInv, PanicInv, [Next]_vars PROVE PanicInv'
  OBVIOUS
<1>1. TypeOK'
  BY TypeNext
<1>2. QueueEffect /\ SchedEffect
  BY NextEffect, EffectParts
<1>3. Grows
  BY <1>2, StepGrows
<1> QED
  BY <1>1, <1>2, <1>3, PanicRows, PanicSched DEF PanicInv

(* PanicLeavesTaskWaiting, whatever else the engines do: isA2ATask panics  *)
(* on a short operation name before anything of the task was reported, and *)
(* no engine ever commits such a task.                                     *)
THEOREM PanicIsNotReported == Spec => []PanicLeavesTaskWaiting
<1>1. Init => TypeOK /\ QueueInv /\ PanicInv
  <2>1. Init => PanicInv
    BY DEF Init, PanicInv, PanicState, Idle
  <2> QED
    BY <2>1, TypeInit, QueueInit
<1>2. TypeOK /\ QueueInv /\ PanicInv /\ [Next]_vars => (TypeOK /\ QueueInv /\ PanicInv)'
  BY TypeNext, QueueNext, PanicNext
<1>3. TypeOK /\ QueueInv /\ PanicInv => PanicLeavesTaskWaiting
  <2> SUFFICES ASSUME TypeOK, QueueInv, PanicInv, NEW e \in Engine, sched[e].pc = "dead"
               PROVE  rows[sched[e].row].status = "WAIT" /\ rows[sched[e].row].runs = 0
    BY DEF PanicLeavesTaskWaiting
  <2>1. sched[e].row # 0
    BY DEF TypeOK, References, RowExists
  <2>2. sched[e].row \in 1 .. Len(rows)
    BY <2>1, TaskOfRow
  <2>3. Panics(rows[sched[e].row].task)
    BY DEF PanicInv, PanicState, TaskOf
  <2>4. rows[sched[e].row].status # "SLEEP"
    BY <2>1 DEF QueueInv, GoodSched
  <2> QED
    BY <2>2, <2>3, <2>4 DEF PanicInv, PanicRow
<1> QED
  BY <1>1, <1>2, <1>3, PTL DEF Spec

-----------------------------------------------------------------------------
(* A new task instance of i is on its way to the database. *)
Carried(i) ==
    \/ \E e \in Engine : \E m \in observer[e] : m.id = 0 /\ m.inst = i
    \/ \E k \in calls : k.msg.id = 0 /\ k.msg.inst = i

HasRow(i, r) == \E q \in 1 .. Len(rows) : q > r /\ rows[q].inst = i

(* The instance of row r goes on after r. *)
Followed(r) ==
    \/ instances[rows[r].inst] = "SUCCESS"
    \/ Carried(rows[r].inst)
    \/ HasRow(rows[r].inst, r)

(* What e has executed so far handed its instance on if it was to. *)
DoneSoFar(e) ==
    sched[e].pc = "run" =>
        \A j \in 1 .. Len(Steps(TaskOf(e))) : j < sched[e].step =>
            /\ OpAt(TaskOf(e), j) \notin {"error", "panic"}
            /\ OpAt(TaskOf(e), j) \in {"publish", "complete"} => Followed(sched[e].row)

LostInv ==
    faults = 0 =>
        /\ \A i \in 1 .. Len(instances) : Carried(i) \/ HasRow(i, 0)
        /\ \A r \in 1 .. Len(rows) : rows[r].status = "SUCCESS" => Followed(r)
        /\ \A e \in Engine : DoneSoFar(e)

(* No event, listen or switch task is without a transition: such a task    *)
(* ends without a successor and without completing its instance.           *)
NoSilentTask ==
    \A t \in Task : TaskType[t] \in {"event", "listen", "switch"} => Transitions[t] # << >>

LEMMA CarriedInFlight ==
    ASSUME NEW i
    PROVE  Carried(i) <=> InFlight(i) # {}
BY DEF Carried, InFlight

(* A complete run publishes or completes, unless it stops on the way. *)
LEMMA RunHandsOn ==
    ASSUME NoSilentTask, NEW t \in Task
    PROVE  \E j \in 1 .. Len(Steps(t)) : OpAt(t, j) \in {"publish", "complete", "error", "panic"}
<1> DEFINE s == Steps(t)
<1>0. Form(t, s) /\ ~ NoForm(t, s)
  BY StepsForm DEF NoForm, NoSilentTask
<1>1. CASE SwitchForm(t, s)
  BY <1>1 DEF SwitchForm, OpAt
<1>2. CASE LastForm(t, s)
  BY <1>2 DEF LastForm, Do, OpAt
<1>3. CASE AsleepForm(t, s)
  <2>1. Len(s) = 2 /\ s[1].op = "publish"
    BY <1>3 DEF AsleepForm, Publish
  <2> QED
    BY <2>1 DEF OpAt
<1>4. CASE LocalForm(t, s)
  <2>1. Len(s) \in Nat /\ Len(s) >= 2 /\ s[2].op = "publish"
    BY <1>4, StepsLength DEF LocalForm
  <2>2. 2 \in 1 .. Len(s)
    BY <2>1
  <2> QED
    BY <2>1, <2>2 DEF OpAt
<1> QED
  BY <1>0, <1>1, <1>2, <1>3, <1>4 DEF Form

(* Instances are started, and once completed they stay completed. *)
InstancesGrow ==
    /\ Len(instances') >= Len(instances)
    /\ \A i \in 1 .. Len(instances) : instances[i] = "SUCCESS" => instances'[i] = "SUCCESS"

InstanceEffect ==
    \/ UNCHANGED instances
    \/ \E e \in Engine : \/ Advances(e, "complete")
                         \/ \E c \in Caller, m \in Msg : Calls(c, e, m) /\ Starts(m)

LEMMA EffectInstances ==
    ASSUME Effect \/ UNCHANGED vars
    PROVE  InstanceEffect
<1>1. CASE UNCHANGED vars
  BY <1>1 DEF vars, InstanceEffect
<1>2. ASSUME NEW e \in Engine, Moves(e) \/ ObserveOf(e) \/ Restarts(e) PROVE UNCHANGED instances
  BY <1>2 DEF Moves, ObserveOf, Receives, Inserts, Updates, Drops, Restarts
<1>3. ASSUME NEW e \in Engine, ExecuteOf(e) PROVE InstanceEffect
  <2>1. ASSUME NEW op, Advances(e, op), op # "complete" PROVE UNCHANGED instances
    BY <2>1 DEF Advances
  <2>2. Retries(e) \/ (\E m \in Msg : Publishes(e, m)) \/ Dies(e) \/ (\E r \in 1 .. Len(rows) : Commits(e, r))
           \/ Abandons(e) => UNCHANGED instances
    BY DEF Retries, Publishes, Dies, Commits, Abandons
  <2> QED
    BY <1>3, <2>1, <2>2 DEF ExecuteOf, InstanceEffect
<1>4. ASSUME NEW e \in Engine, NEW c \in Caller, CallOf(c, e) PROVE InstanceEffect
  <2>1. \A u \in 1 .. MaxUuids : Misses(u) \/ (\E m \in Msg : Wakes(u, m)) => UNCHANGED instances
    BY DEF Misses, Wakes
  <2> QED
    BY <1>4, <2>1 DEF CallOf, InstanceEffect
<1> QED
  BY <1>1, <1>2, <1>3, <1>4 DEF Effect, InstanceEffect

(* The instance of the row a scheduler works on. *)
LEMMA InstanceOf ==
    ASSUME TypeOK, NEW e \in Engine, sched[e].row # 0
    PROVE  rows[sched[e].row].inst \in 1 .. Len(instances)
BY TaskOfRow DEF TypeOK, References

LEMMA CompletesInstance ==
    ASSUME TypeOK, NEW e \in Engine, Advances(e, "complete")
    PROVE  /\ Len(instances') = Len(instances)
           /\ \A i \in 1 .. Len(instances) :
                 instances'[i] = IF i = rows[sched[e].row].inst THEN "SUCCESS" ELSE instances[i]
<1>1. sched[e].row # 0
  BY DEF Advances, Running, TypeOK, References, RowExists
<1>2. PICK i \in 1 .. Len(instances) : i = rows[sched[e].row].inst
  BY <1>1, InstanceOf
<1>3. instances' = [instances EXCEPT ![i] = "SUCCESS"] /\ instances \in Seq({"PROCESS", "SUCCESS"})
  BY <1>2 DEF Advances, TypeOK, StateTypes
<1> QED
  BY <1>2, <1>3, ExceptSeq

LEMMA StartsInstance ==
    ASSUME TypeOK, NEW m \in Msg, Starts(m)
    PROVE  /\ Len(instances') = Len(instances) + 1
           /\ \A i \in 1 .. Len(instances) : instances'[i] = instances[i]
           /\ instances'[Len(instances) + 1] = "PROCESS"
<1>1. instances' = Append(instances, "PROCESS") /\ instances \in Seq({"PROCESS", "SUCCESS"})
  BY DEF Starts, TypeOK, StateTypes
<1> QED
  BY <1>1, AppendProperties

LEMMA StepInstances ==
    ASSUME TypeOK, InstanceEffect
    PROVE  InstancesGrow
<1>0. Len(instances) \in Nat
  BY DEF TypeOK, StateTypes
<1>1. CASE UNCHANGED instances
  BY <1>0, <1>1 DEF InstancesGrow
<1>2. ASSUME NEW e \in Engine, Advances(e, "complete") PROVE InstancesGrow
  BY <1>0, <1>2, CompletesInstance DEF InstancesGrow
<1>3. ASSUME NEW m \in Msg, Starts(m) PROVE InstancesGrow
  BY <1>0, <1>3, StartsInstance DEF InstancesGrow
<1> QED
  BY <1>1, <1>2, <1>3 DEF InstanceEffect

(* Without a failure a blocked call keeps its message until the observer   *)
(* takes it.                                                               *)
LEMMA CallLeaves ==
    ASSUME TypeOK, QueueEffect, faults' = 0, NEW k \in calls, k \notin calls'
    PROVE  \E e \in Engine : k.msg \in observer'[e]
<1>0. observer \in [Engine -> SUBSET Msg]
  BY DEF TypeOK, StateTypes
<1>1. ASSUME NEW e \in Engine, NEW l \in calls, Receives(e, l) PROVE k.msg \in observer'[e]
  <2>1. l = k
    BY <1>1 DEF Receives
  <2> QED
    BY <1>0, <1>1, <2>1 DEF Receives
<1>2. \A e \in Engine : ~ Restarts(e)
  BY DEF Restarts
<1>3. \A e \in Engine : \A m \in Msg : ~ (Publishes(e, m) \/ CallEffects(e, m))
  BY DEF Publishes, CallEffects, Calls
<1>4. \A e \in Engine : /\ ~ (\E r \in 1 .. Len(rows) : Commits(e, r)) /\ ~ Drops(e)
                        /\ ~ \E m \in observer[e] : Inserts(e, m) \/ Updates(e, m)
  BY DEF Commits, Drops, Inserts, Updates
<1>5. ~ Quiet
  BY DEF Quiet
<1> QED
  BY <1>1, <1>2, <1>3, <1>4, <1>5 DEF QueueEffect

LEMMA RowKeeps ==
    ASSUME TypeOK, TypeOK', Grows, NEW i, NEW r \in Nat, HasRow(i, r)
    PROVE  HasRow(i, r)'
<1>0. Len(rows) \in Nat /\ Len(rows') \in Nat /\ Len(rows') >= Len(rows)
  BY DEF TypeOK, StateTypes, Grows
<1>1. PICK q \in 1 .. Len(rows) : q > r /\ rows[q].inst = i
  BY DEF HasRow
<1>2. q \in 1 .. Len(rows') /\ rows'[q].inst = i
  BY <1>0, <1>1 DEF Grows, SameTask
<1> QED
  BY <1>1, <1>2 DEF HasRow

LEMMA CarriedKeeps ==
    ASSUME TypeOK, TypeOK', QueueInv, QueueEffect, Grows, faults' = 0,
           NEW i, NEW r \in 0 .. Len(rows), Carried(i)
    PROVE  Carried(i)' \/ HasRow(i, r)'
<1>0. Len(rows) \in Nat
  BY DEF TypeOK, StateTypes
<1>1. ASSUME NEW e \in Engine, NEW m \in observer[e], m.id = 0, m.inst = i
      PROVE  Carried(i)' \/ HasRow(i, r)'
  <2>1. CASE m \in observer'[e]
    BY <1>1, <2>1 DEF Carried
  <2>2. CASE Inserts(e, m)
    <3>1. PICK n \in Nat : n = Len(rows) + 1
      BY <1>0
    <3>2. n > r /\ n \in 1 .. Len(rows') /\ rows'[n].inst = i
      BY <1>0, <1>1, <2>2, <3>1 DEF Inserts
    <3> QED
      BY <3>2 DEF HasRow
  <2> QED
    BY <1>1, <2>1, <2>2, MessageLeaves
<1>2. ASSUME NEW k \in calls, k.msg.id = 0, k.msg.inst = i
      PROVE  Carried(i)'
  <2>1. CASE k \in calls'
    BY <1>2, <2>1 DEF Carried
  <2>2. CASE k \notin calls'
    <3>1. \E e \in Engine : k.msg \in observer'[e]
      BY <2>2, CallLeaves
    <3> QED
      BY <1>2, <3>1 DEF Carried
  <2> QED
    BY <2>1, <2>2
<1> QED
  BY <1>1, <1>2 DEF Carried

LEMMA FollowedKeeps ==
    ASSUME TypeOK, TypeOK', QueueInv, QueueEffect, Grows, InstancesGrow, faults' = 0,
           NEW r \in 1 .. Len(rows), Followed(r)
    PROVE  Followed(r)'
<1>0. r \in Nat /\ r \in 0 .. Len(rows)
  BY DEF TypeOK, StateTypes
<1>1. PICK i \in 1 .. Len(instances) : i = rows[r].inst
  BY DEF TypeOK, References
<1>2. rows'[r].inst = i
  BY <1>1 DEF Grows, SameTask
<1>3. CASE instances[i] = "SUCCESS"
  BY <1>2, <1>3 DEF InstancesGrow, Followed
<1>4. CASE Carried(i)
  <2>1. Carried(i)' \/ HasRow(i, r)'
    BY <1>0, <1>4, CarriedKeeps
  <2> QED
    BY <1>2, <2>1 DEF Followed, Carried, HasRow
<1>5. CASE HasRow(i, r)
  <2>1. HasRow(i, r)'
    BY <1>0, <1>5, RowKeeps
  <2> QED
    BY <1>2, <2>1 DEF Followed, HasRow
<1> QED
  BY <1>1, <1>3, <1>4, <1>5 DEF Followed

LEMMA LostInstances ==
    ASSUME TypeOK, TypeOK', QueueInv, QueueEffect, Grows, InstanceEffect, faults' = 0,
           \A i \in 1 .. Len(instances) : Carried(i) \/ HasRow(i, 0)
    PROVE  \A i \in 1 .. Len(instances') : Carried(i)' \/ HasRow(i, 0)'
<1>0. Len(instances) \in Nat /\ 0 \in 0 .. Len(rows) /\ 0 \in Nat
  BY DEF TypeOK, StateTypes
<1>1. ASSUME NEW i \in 1 .. Len(instances) PROVE Carried(i)' \/ HasRow(i, 0)'
  BY <1>0, CarriedKeeps, RowKeeps
<1>2. CASE Len(instances') = Len(instances)
  BY <1>1, <1>2
<1>3. ASSUME NEW c \in Caller, NEW e \in Engine, NEW m \in Msg, Calls(c, e, m), Starts(m)
      PROVE  \A i \in 1 .. Len(instances') : Carried(i)' \/ HasRow(i, 0)'
  <2>1. PICK n \in Nat : n = Len(instances) + 1
    BY <1>0
  <2>2. Len(instances') = n
    BY <1>3, <2>1, StartsInstance
  <2>3. m.id = 0 /\ m.inst = n
    BY <1>3, <2>1 DEF Starts
  <2>4. \E k \in calls' : k.msg = m
    <3>1. [by |-> c, at |-> e, msg |-> m] \in calls'
      BY <1>3 DEF Calls
    <3>2. [by |-> c, at |-> e, msg |-> m].msg = m
      OBVIOUS
    <3> QED
      BY <3>1, <3>2
  <2>5. Carried(n)'
    BY <2>3, <2>4 DEF Carried
  <2>6. \A i \in 1 .. n : i = n \/ i \in 1 .. Len(instances)
    BY <1>0, <2>1
  <2> QED
    BY <1>1, <2>2, <2>5, <2>6
<1>4. \A e \in Engine : Advances(e, "complete") => Len(instances') = Len(instances)
  BY CompletesInstance
<1> QED
  BY <1>2, <1>3, <1>4 DEF InstanceEffect

LEMMA LostRows ==
    ASSUME NoSilentTask, TypeOK, TypeOK', QueueInv, QueueEffect, Grows, InstancesGrow, faults' = 0,
           \A r \in 1 .. Len(rows) : rows[r].status = "SUCCESS" => Followed(r),
           \A e \in Engine : DoneSoFar(e)
    PROVE  \A r \in 1 .. Len(rows') : rows'[r].status = "SUCCESS" => Followed(r)'
<1>0. Len(rows) \in Nat
  BY DEF TypeOK, StateTypes
<1>1. ASSUME NEW r \in 1 .. Len(rows), Followed(r) PROVE Followed(r)'
  BY <1>1, FollowedKeeps
<1>2. CASE UNCHANGED rows
  BY <1>1, <1>2
<1>3. ASSUME NEW e \in Engine, NEW r \in 1 .. Len(rows), Commits(e, r), rows'[r].status = "SUCCESS"
      PROVE  Followed(r)
  <2>1. sched[e].row = r /\ sched[e].row # 0 /\ sched[e].pc = "run" /\ sched[e].step > Len(Steps(TaskOf(e)))
    BY <1>3 DEF Commits, Finished
  <2>2. TaskOf(e) \in Task /\ sched[e].step \in Nat
    BY <2>1, TaskOfRow
  <2>3. Len(Steps(TaskOf(e))) \in Nat
    BY <2>2, StepsLength
  <2>4. PICK j \in 1 .. Len(Steps(TaskOf(e))) : OpAt(TaskOf(e), j) \in {"publish", "complete", "error", "panic"}
    BY <2>2, RunHandsOn
  <2>5. j < sched[e].step
    BY <2>1, <2>2, <2>3, <2>4
  <2> QED
    BY <2>1, <2>4, <2>5 DEF DoneSoFar
<1>4. ASSUME NEW e \in Engine, NEW r \in 1 .. Len(rows), Commits(e, r)
      PROVE  \A q \in 1 .. Len(rows') : rows'[q].status = "SUCCESS" => Followed(q)'
  <2>1. Len(rows') = Len(rows) /\ \A q \in 1 .. Len(rows) : q # r => rows'[q] = rows[q]
    BY <1>4 DEF Commits
  <2> QED
    BY <1>1, <1>3, <1>4, <2>1
<1>5. ASSUME NEW e \in Engine, NEW m \in observer[e], Inserts(e, m)
      PROVE  \A q \in 1 .. Len(rows') : rows'[q].status = "SUCCESS" => Followed(q)'
  <2>1. m.status # "SUCCESS"
    BY DEF TypeOK, StateTypes, Msg
  <2>2. PICK n \in Nat : n = Len(rows) + 1
    BY <1>0
  <2>3. /\ Len(rows') = n /\ rows'[n].status # "SUCCESS"
        /\ \A q \in 1 .. Len(rows) : rows'[q] = rows[q]
    BY <1>5, <2>1, <2>2 DEF Inserts
  <2>4. \A q \in 1 .. n : q = n \/ q \in 1 .. Len(rows)
    BY <1>0, <2>2
  <2> QED
    BY <1>1, <2>3, <2>4
<1>6. ASSUME NEW e \in Engine, NEW m \in observer[e], Updates(e, m)
      PROVE  \A q \in 1 .. Len(rows') : rows'[q].status = "SUCCESS" => Followed(q)'
  <2>1. m.status # "SUCCESS"
    BY DEF TypeOK, StateTypes, Msg
  <2>2. /\ Len(rows') = Len(rows) /\ rows'[m.id].status = m.status
        /\ \A q \in 1 .. Len(rows) : q # m.id => rows'[q] = rows[q]
    BY <1>6 DEF Updates
  <2> QED
    BY <1>1, <2>1, <2>2
<1>7. \A e \in Engine : (\E m \in Msg : Publishes(e, m) \/ CallEffects(e, m)) \/ (\E k \in calls : Receives(e, k))
                           \/ Drops(e) \/ Restarts(e) => UNCHANGED rows
  BY DEF Publishes, CallEffects, Calls, Receives, Drops, Restarts
<1>8. Quiet => UNCHANGED rows
  BY DEF Quiet
<1> QED
  BY <1>2, <1>4, <1>5, <1>6, <1>7, <1>8 DEF QueueEffect

(* The scheduler that executes step `op' has handed on what it had to. *)
LEMMA DoneStep ==
    ASSUME TypeOK, TypeOK', QueueInv, QueueEffect, Grows, InstancesGrow, faults' = 0,
           NEW e \in Engine, DoneSoFar(e), NEW op, Running(e, op), op \notin {"error", "panic"},
           sched'[e].row = sched[e].row, sched'[e].step = sched[e].step + 1,
           op \in {"publish", "complete"} => Followed(sched[e].row)'
    PROVE  DoneSoFar(e)'
<1>1. sched[e].row # 0 /\ sched[e].pc = "run"
  BY DEF Running, TypeOK, References, RowExists
<1>2. PICK r \in 1 .. Len(rows), t \in Task, n \in Nat : r = sched[e].row /\ t = TaskOf(e) /\ n = sched[e].step
  BY <1>1, TaskOfRow
<1>3. TaskOf(e)' = t
  BY <1>1, <1>2, TaskOfKeeps
<1>4. Followed(r) => Followed(r)'
  BY FollowedKeeps
<1>5. op \in {"publish", "complete"} => Followed(r)'
  BY <1>2 DEF Followed
<1>6. OpAt(t, n) = op
  BY <1>2 DEF Running, OpAt
<1>7. ASSUME NEW j \in 1 .. Len(Steps(t)), j < n + 1
      PROVE  /\ OpAt(t, j) \notin {"error", "panic"}
             /\ OpAt(t, j) \in {"publish", "complete"} => Followed(r)'
  <2>1. CASE j = n
    BY <1>5, <1>6, <2>1
  <2>2. CASE j < n
    BY <1>1, <1>2, <1>4, <2>2 DEF DoneSoFar
  <2>3. Len(Steps(t)) \in Nat
    BY StepsLength
  <2> QED
    BY <1>2, <1>7, <2>1, <2>2, <2>3
<1>8. sched'[e].row = r /\ sched'[e].step = n + 1
  BY <1>2
<1> QED
  BY <1>3, <1>7, <1>8 DEF DoneSoFar, Followed

LEMMA LostSched ==
    ASSUME TypeOK, TypeOK', QueueInv, QueueEffect, SchedEffect, Grows, InstancesGrow, faults' = 0,
           \A e \in Engine : DoneSoFar(e)
    PROVE  \A e \in Engine : DoneSoFar(e)'
<1>1. ASSUME NEW f \in Engine, sched'[f] = sched[f] PROVE DoneSoFar(f)'
  <2>1. CASE sched[f].pc # "run"
    BY <1>1, <2>1 DEF DoneSoFar
  <2>2. CASE sched[f].pc = "run"
    <3>1. sched[f].row # 0
      BY <2>2 DEF TypeOK, References, RowExists
    <3>2. PICK r \in 1 .. Len(rows) : r = sched[f].row
      BY <3>1, TaskOfRow
    <3>3. Followed(r) => Followed(r)'
      BY FollowedKeeps
    <3>4. Followed(sched[f].row) => Followed(sched[f].row)'
      BY <1>1, <3>2, <3>3 DEF Followed
    <3>5. TaskOf(f)' = TaskOf(f)
      BY <1>1, <3>1, TaskOfKeeps
    <3> QED
      BY <1>1, <3>4, <3>5 DEF DoneSoFar
  <2> QED
    BY <2>1, <2>2
<1>2. ASSUME NEW e \in Engine, sched'[e].pc = "run" => sched'[e].step = 1 PROVE DoneSoFar(e)'
  <2>1. \A n : \A j \in 1 .. n : ~ (j < 1)
    OBVIOUS
  <2> QED
    BY <1>2, <2>1 DEF DoneSoFar
<1>3. ASSUME NEW e \in Engine, Others(e), DoneSoFar(e)' PROVE \A f \in Engine : DoneSoFar(f)'
  BY <1>1, <1>3 DEF Others
<1>4. ASSUME NEW e \in Engine, Stops(e) \/ Moves(e) \/ Retries(e) \/ Dies(e) PROVE DoneSoFar(e)'
  BY <1>2, <1>4 DEF Stops, Moves, Retries, Dies, Became, Idle
<1>5. ASSUME NEW e \in Engine, NEW m \in Msg, Publishes(e, m) PROVE DoneSoFar(e)'
  <2>1. sched'[e].row = sched[e].row /\ sched'[e].step = sched[e].step + 1 /\ Running(e, "publish")
    BY <1>5 DEF Publishes, Became
  <2>2. m \in observer'[e] /\ m.id = 0 /\ m.inst = rows'[sched'[e].row].inst
    BY <1>5, <2>1 DEF Publishes, TypeOK, StateTypes
  <2>3. Followed(sched[e].row)'
    BY <2>2 DEF Followed, Carried
  <2> QED
    BY <2>1, <2>3, DoneStep
<1>6. ASSUME NEW e \in Engine, NEW op \in {"skip", "event", "a2a", "complete"}, Advances(e, op)
      PROVE  DoneSoFar(e)'
  <2>1. sched'[e].row = sched[e].row /\ sched'[e].step = sched[e].step + 1 /\ Running(e, op)
    BY <1>6 DEF Advances, Became
  <2>2. op = "complete" => Followed(sched[e].row)'
    <3> HAVE op = "complete"
    <3>1. sched[e].row # 0
      BY <2>1 DEF Running, TypeOK, References, RowExists
    <3>2. instances'[rows[sched[e].row].inst] = "SUCCESS"
      BY <1>6, <3>1, CompletesInstance, InstanceOf
    <3>3. UNCHANGED rows
      BY <1>6 DEF Advances
    <3> QED
      BY <2>1, <3>2, <3>3 DEF Followed
  <2> QED
    BY <2>1, <2>2, DoneStep
<1>7. \A e \in Engine : Stops(e) \/ Moves(e) \/ Retries(e) \/ Dies(e) \/ (\E m \in Msg : Publishes(e, m))
                           \/ (\E op : Advances(e, op)) => Others(e)
  BY DEF Stops, Moves, Retries, Dies, Publishes, Advances, Became
<1> QED
  BY <1>1, <1>3, <1>4, <1>5, <1>6, <1>7 DEF SchedEffect

LEMMA LostNext ==
    ASSUME NoSilentTask
    PROVE  TypeOK /\ QueueInv /\ LostInv /\ [Next]_vars => LostInv'
<1> SUFFICES ASSUME TypeOK, QueueInv, LostInv, [Next]_vars, faults' = 0
             PROVE  /\ \A i \in 1 .. Len(instances') : Carried(i)' \/ HasRow(i, 0)'
                    /\ \A r \in 1 .. Len(rows') : rows'[r].status = "SUCCESS" => Followed(r)'
                    /\ \A e \in Engine : DoneSoFar(e)'
  BY DEF LostInv
<1>1. TypeOK'
  BY TypeNext
<1>2. QueueEffect /\ SchedEffect /\ InstanceEffect /\ faults = 0
  BY NextEffect, EffectParts, EffectInstances, EffectFaults
<1>3. Grows /\ InstancesGrow
  BY <1>2, StepGrows, StepInstances
<1>4. /\ \A i \in 1 .. Len(instances) : Carried(i) \/ HasRow(i, 0)
      /\ \A r \in 1 .. Len(rows) : rows[r].status = "SUCCESS" => Followed(r)
      /\ \A e \in Engine : DoneSoFar(e)
  BY <1>2 DEF LostInv
<1>5. \A i \in 1 .. Len(instances') : Carried(i)' \/ HasRow(i, 0)'
  BY <1>1, <1>2, <1>3, <1>4, LostInstances
<1>6. \A r \in 1 .. Len(rows') : rows'[r].status = "SUCCESS" => Followed(r)'
  BY <1>1, <1>2, <1>3, <1>4, LostRows
<1>7. \A e \in Engine : DoneSoFar(e)'
  BY <1>1, <1>2, <1>3, <1>4, LostSched
<1> QED
  BY <1>5, <1>6, <1>7

(* NothingLost, for every workflow whose event, listen and switch tasks    *)
(* have a transition, and any number of engines: from Start over the queue *)
(* and the observer to the executor that publishes the next task, each     *)
(* component hands the instance on before it lets go of it.                *)
THEOREM WorkIsNeverDropped ==
    ASSUME NoSilentTask
    PROVE  Spec => []NothingLost
<1>1. Init => TypeOK /\ QueueInv /\ LostInv
  <2>1. Init => LostInv
    BY DEF Init, LostInv, DoneSoFar, Idle
  <2> QED
    BY <2>1, TypeInit, QueueInit
<1>2. TypeOK /\ QueueInv /\ LostInv /\ [Next]_vars => (TypeOK /\ QueueInv /\ LostInv)'
  BY TypeNext, QueueNext, LostNext
<1>3. TypeOK /\ QueueInv /\ LostInv => NothingLost
  <2> SUFFICES ASSUME TypeOK, LostInv, faults = 0, NEW i \in DOMAIN instances,
                      instances[i] # "SUCCESS", InFlight(i) = {}
               PROVE  \E r \in DOMAIN rows : rows[r].inst = i /\ rows[r].status # "SUCCESS"
    BY DEF NothingLost
  <2> DEFINE T == {r \in 1 .. Len(rows) : rows[r].inst = i}
  <2>1. i \in 1 .. Len(instances) /\ DOMAIN rows = 1 .. Len(rows) /\ Len(rows) \in Nat
    BY DEF TypeOK, StateTypes
  <2>2. ~ Carried(i)
    BY CarriedInFlight
  <2>3. HasRow(i, 0)
    BY <2>1, <2>2 DEF LostInv
  <2>4. T # {} /\ T \in SUBSET (0 .. Len(rows))
    BY <2>1, <2>3 DEF HasRow
  <2>5. PICK r \in T : \A q \in T : r >= q
    BY <2>1, <2>4, GreatestNat
  <2>6. r \in 1 .. Len(rows) /\ rows[r].inst = i /\ ~ HasRow(i, r)
    BY <2>1, <2>5 DEF HasRow
  <2>7. ~ Followed(r)
    BY <2>2, <2>6 DEF Followed
  <2>8. rows[r].status # "SUCCESS"
    BY <2>6, <2>7 DEF LostInv
  <2> QED
    BY <2>1, <2>6, <2>8
<1> QED
  BY <1>1, <1>2, <1>3, PTL DEF Spec

-----------------------------------------------------------------------------
EventFrom(t, i) == \E j \in i .. Len(Steps(t)) : OpAt(t, j) = "event"

(* An event of e's run is still to come. *)
EventAhead(e) == sched[e].pc = "run" /\ EventFrom(TaskOf(e), sched[e].step)

HasWaker(u, t) ==
    \/ callbacks[u] >= 0
    \/ \E e \in Engine : sched[e].uuid = u /\ EventAhead(e)
    \/ t \in AgentFed

(* A run has drawn no id when it begins. *)
Fresh(e) == sched[e].pc = "run" /\ sched[e].step = 1 => sched[e].uuid = 0

WakerInv ==
    /\ \A e \in Engine : Fresh(e)
    /\ \A k \in calls : k.msg.status = "WAIT"
    /\ faults = 0 =>
         /\ \A r \in 1 .. Len(rows) : rows[r].status = "SLEEP" => HasWaker(rows[r].uuid, rows[r].task)
         /\ \A e \in Engine : \A m \in observer[e] : m.status = "SLEEP" => HasWaker(m.uuid, m.task)

(* An operation that has a successor publishes an event or calls an agent. *)
SuccessorsAreAwaited ==
    \A t \in Task : TaskType[t] \notin LocalTypes \cup {"switch"} /\ Transitions[t] # << >>
                       => ActionOp(Action[t]) \in {"event", "a2a"} \/ EndsHere(Transitions[t])

(* Nothing but the publish a run begins with comes before an event. *)
LEMMA BeforeEvent ==
    ASSUME NEW t \in Task, NEW j \in 1 .. Len(Steps(t)), OpAt(t, j) = "event", NEW i \in 1 .. j
    PROVE  OpAt(t, i) = "event" \/ (OpAt(t, i) = "publish" /\ i = 1)
<1> DEFINE s == Steps(t)
<1>0. Form(t, s) /\ s[j].op = "event"
  BY StepsForm DEF OpAt
<1>1. CASE SwitchForm(t, s)
  BY <1>0, <1>1 DEF SwitchForm
<1>2. CASE LastForm(t, s)
  <2>1. j \in {1, 2} /\ s[2].op = "complete"
    BY <1>2 DEF LastForm, Do
  <2> QED
    BY <1>0, <2>1 DEF OpAt
<1>3. CASE AsleepForm(t, s)
  <2>1. j \in {1, 2} /\ s[1].op = "publish"
    BY <1>3 DEF AsleepForm, Publish
  <2> QED
    BY <1>0, <2>1 DEF OpAt
<1>4. CASE LocalForm(t, s)
  <2>1. j = 1 \/ j \in 2 .. Len(s)
    OBVIOUS
  <2>2. j = 1
    BY <1>0, <1>4, <2>1 DEF LocalForm
  <2>3. i = j
    BY <2>2
  <2> QED
    BY <1>0, <2>3 DEF OpAt
<1>5. CASE NoForm(t, s)
  BY <1>5 DEF NoForm
<1> QED
  BY <1>0, <1>1, <1>2, <1>3, <1>4, <1>5 DEF Form

LEMMA EventNextOp ==
    ASSUME NEW t \in Task, NEW i \in Nat, i # 0, EventFrom(t, i)
    PROVE  /\ i <= Len(Steps(t))
           /\ OpAt(t, i) = "event" \/ (OpAt(t, i) = "publish" /\ i = 1)
<1>0. Len(Steps(t)) \in Nat
  BY StepsLength
<1>1. PICK j \in i .. Len(Steps(t)) : OpAt(t, j) = "event"
  BY DEF EventFrom
<1>2. j \in 1 .. Len(Steps(t)) /\ i \in 1 .. j
  BY <1>0, <1>1
<1> QED
  BY <1>0, <1>1, <1>2, BeforeEvent

(* Only an operation publishes a sleeping successor, and it does so first. *)
LEMMA SleepsFirst ==
    ASSUME NEW t \in Task, NEW i \in 1 .. Len(Steps(t)), Steps(t)[i].status = "SLEEP"
    PROVE  AsleepForm(t, Steps(t)) /\ i = 1
<1> DEFINE s == Steps(t)
<1>0. Form(t, s)
  BY StepsForm
<1>1. CASE SwitchForm(t, s)
  BY <1>1 DEF SwitchForm
<1>2. CASE LastForm(t, s)
  <2>1. i \in {1, 2} /\ s[2].status = "WAIT" /\ s[1].status = "WAIT"
    BY <1>2 DEF LastForm, Do
  <2> QED
    BY <2>1
<1>3. CASE AsleepForm(t, s)
  <2>1. i \in {1, 2} /\ s[2].status = "WAIT"
    BY <1>3 DEF AsleepForm, Do
  <2> QED
    BY <1>3, <2>1
<1>4. CASE LocalForm(t, s)
  <2>1. i = 1 \/ i \in 2 .. Len(s)
    OBVIOUS
  <2> QED
    BY <1>4, <2>1 DEF LocalForm
<1>5. CASE NoForm(t, s)
  BY <1>5 DEF NoForm
<1> QED
  BY <1>0, <1>1, <1>2, <1>3, <1>4, <1>5 DEF Form

LEMMA FreshKeeps ==
    ASSUME TypeOK, QueueInv, SchedEffect, \A e \in Engine : Fresh(e)
    PROVE  \A e \in Engine : Fresh(e)'
<1>1. ASSUME NEW f \in Engine, sched'[f] = sched[f] PROVE Fresh(f)'
  BY <1>1 DEF Fresh
<1>2. ASSUME NEW e \in Engine, Others(e), Fresh(e)' PROVE \A f \in Engine : Fresh(f)'
  BY <1>1, <1>2 DEF Others
<1>3. ASSUME NEW e \in Engine, Moves(e) PROVE Fresh(e)'
  BY <1>3 DEF Moves, Fresh, QueueInv, GoodSched
<1>4. ASSUME NEW e \in Engine, Stops(e) \/ Retries(e) \/ Dies(e) PROVE Fresh(e)'
  BY <1>4 DEF Stops, Retries, Dies, Became, Idle, Fresh
<1>5. ASSUME NEW e \in Engine, sched[e].pc = "run", sched'[e].step = sched[e].step + 1 PROVE Fresh(e)'
  <2>1. sched[e].step \in Nat /\ sched[e].step # 0
    BY <1>5 DEF TypeOK, StateTypes, SchedSet, References, RowExists
  <2> QED
    BY <1>5, <2>1 DEF Fresh
<1>6. \A e \in Engine : (\E m \in Msg : Publishes(e, m)) \/ (\E op : Advances(e, op))
         => sched[e].pc = "run" /\ sched'[e].step = sched[e].step + 1
  BY DEF Publishes, Advances, Running
<1>7. \A e \in Engine : Stops(e) \/ Moves(e) \/ Retries(e) \/ Dies(e) \/ (\E m \in Msg : Publishes(e, m))
                           \/ (\E op : Advances(e, op)) => Others(e)
  BY DEF Stops, Moves, Retries, Dies, Publishes, Advances, Became
<1> QED
  BY <1>1, <1>2, <1>3, <1>4, <1>5, <1>6, <1>7 DEF SchedEffect

LEMMA CallsWait ==
    ASSUME TypeOK, TypeOK', QueueInv, QueueEffect, \A k \in calls : k.msg.status = "WAIT"
    PROVE  \A k \in calls' : k.msg.status = "WAIT"
<1>1. \A e \in Engine : \A m \in Msg : CallEffects(e, m) => m.status = "WAIT"
  BY DEF CallEffects, Starts, Wakes
<1> QED
  BY <1>1, QueuedBefore

(* With an id drawn and an event to come, the event is the next step. *)
LEMMA EventIsNext ==
    ASSUME TypeOK, NEW e \in Engine, Fresh(e), sched[e].uuid # 0, EventAhead(e)
    PROVE  Running(e, "event") /\ \A op : Running(e, op) => op = "event"
<1>1. sched[e].row # 0 /\ sched[e].pc = "run"
  BY DEF EventAhead, TypeOK, References, RowExists
<1>2. TaskOf(e) \in Task /\ sched[e].step \in Nat /\ sched[e].step # 0
  BY <1>1, TaskOfRow
<1>3. EventFrom(TaskOf(e), sched[e].step)
  BY DEF EventAhead
<1>4. sched[e].step <= Len(Steps(TaskOf(e))) /\ OpAt(TaskOf(e), sched[e].step) = "event"
  BY <1>1, <1>2, <1>3, EventNextOp DEF Fresh
<1> QED
  BY <1>1, <1>4 DEF Running, OpAt

LEMMA CallbackKeeps ==
    ASSUME TypeOK, CallbackEffect, NEW u \in 1 .. MaxUuids, callbacks[u] >= 0
    PROVE  callbacks'[u] >= 0
<1>0. callbacks \in [1 .. MaxUuids -> Int] /\ Callbacks \in Nat
  BY SchedulingAssumption DEF TypeOK, StateTypes
<1>1. ASSUME NEW e \in Engine, Announce(sched[e].uuid) PROVE callbacks'[u] >= 0
  BY <1>0, <1>1 DEF Announce
<1>2. ASSUME NEW v \in 1 .. MaxUuids, Answers(v) PROVE callbacks'[u] >= 0
  BY <1>0, <1>2 DEF Answers
<1> QED
  BY <1>1, <1>2 DEF CallbackEffect

LEMMA WakerKeeps ==
    ASSUME TypeOK, TypeOK', QueueInv, Grows, SchedEffect, CallbackEffect, faults' = 0,
           \A e \in Engine : Fresh(e), NEW u \in 1 .. MaxUuids, NEW t, HasWaker(u, t)
    PROVE  HasWaker(u, t)'
<1>0. u # 0
  BY SchedulingAssumption
<1>1. CASE callbacks[u] >= 0
  BY <1>1, CallbackKeeps DEF HasWaker
<1>2. CASE t \in AgentFed
  BY <1>2 DEF HasWaker, AgentFed
<1>3. ASSUME NEW e \in Engine, sched[e].uuid = u, EventAhead(e) PROVE HasWaker(u, t)'
  <2>1. /\ sched[e].pc = "run" /\ sched[e].row # 0
        /\ Running(e, "event") /\ \A op : Running(e, op) => op = "event"
    BY <1>0, <1>3, EventIsNext DEF EventAhead, TypeOK, References, RowExists
  <2>2. CASE sched'[e] = sched[e]
    <3>1. TaskOf(e)' = TaskOf(e)
      BY <2>1, <2>2, TaskOfKeeps
    <3>2. EventAhead(e)'
      BY <1>3, <2>2, <3>1 DEF EventAhead
    <3> QED
      BY <1>3, <2>2, <3>2 DEF HasWaker
  <2>3. ~ Stops(e)
    <3>1. ~ Finished(e)
      <4>1. sched[e].step \in Nat /\ Len(Steps(TaskOf(e))) \in Nat
        BY <2>1, TaskOfRow, StepsLength
      <4> QED
        BY <2>1, <4>1 DEF Finished, Running
    <3> QED
      BY <3>1 DEF Stops
  <2>4. ~ Moves(e) /\ ~ Dies(e) /\ ~ \E m \in Msg : Publishes(e, m)
    BY <2>1 DEF Moves, Dies, Publishes
  <2>5. ~ Retries(e)
    BY <2>1 DEF Retries
  <2>6. ASSUME NEW op \in {"skip", "event", "a2a", "complete"}, Advances(e, op) PROVE HasWaker(u, t)'
    <3>1. Announce(u)
      BY <1>3, <2>1, <2>6 DEF Advances
    <3>2. callbacks'[u] >= 0
      BY <1>0, <3>1, SchedulingAssumption DEF Announce, TypeOK, StateTypes
    <3> QED
      BY <3>2 DEF HasWaker
  <2>7. \A f \in Engine : Stops(f) \/ Moves(f) \/ Retries(f) \/ Dies(f) \/ (\E m \in Msg : Publishes(f, m))
                           \/ (\E op : Advances(f, op)) => Others(f)
    BY DEF Stops, Moves, Retries, Dies, Publishes, Advances, Became
  <2>8. \A f \in Engine : Others(f) => f = e \/ sched'[e] = sched[e]
    BY DEF Others
  <2> QED
    BY <2>2, <2>3, <2>4, <2>5, <2>6, <2>7, <2>8 DEF SchedEffect
<1> QED
  BY <1>1, <1>2, <1>3 DEF HasWaker

(* The successor an operation puts to sleep has its event to come. *)
LEMMA PublishedHasWaker ==
    ASSUME SuccessorsAreAwaited, TypeOK, TypeOK', Grows, NEW e \in Engine, NEW m, Publishes(e, m),
           m.status = "SLEEP"
    PROVE  HasWaker(m.uuid, m.task)'
<1>1. sched[e].row # 0 /\ sched[e].pc = "run"
  BY DEF Publishes, Running, TypeOK, References, RowExists
<1>2. PICK t \in Task, i \in Nat : t = TaskOf(e) /\ i = sched[e].step /\ i # 0
  BY <1>1, TaskOfRow
<1>3. /\ sched'[e].pc = "run" /\ sched'[e].uuid = m.uuid /\ sched'[e].step = i + 1
      /\ sched'[e].row = sched[e].row
  BY <1>2 DEF Publishes, Became
<1>4. TaskOf(e)' = t
  BY <1>1, <1>2, <1>3, TaskOfKeeps
<1>5. i \in 1 .. Len(Steps(t)) /\ Steps(t)[i].status = "SLEEP" /\ m.task = Steps(t)[i].to
      /\ Steps(t)[i].op = "publish"
  <2>1. Len(Steps(t)) \in Nat
    BY StepsLength
  <2>2. Running(e, "publish") /\ AtStep(e).status = "SLEEP" /\ m.task = AtStep(e).to
    BY DEF Publishes
  <2>3. AtStep(e) = Steps(t)[i] /\ i <= Len(Steps(t)) /\ Steps(t)[i].op = "publish"
    BY <1>2, <2>2 DEF Running, AtStep
  <2>4. i \in 1 .. Len(Steps(t))
    BY <1>2, <2>1, <2>3
  <2> QED
    BY <2>2, <2>3, <2>4
<1>6. AsleepForm(t, Steps(t)) /\ i = 1
  BY <1>5, SleepsFirst
<1>7. /\ m.task = Transitions[t][1].to /\ OpAt(t, 2) = ActionOp(Action[t]) /\ Len(Steps(t)) = 2
      /\ TaskType[t] \notin LocalTypes \cup {"switch"} /\ Transitions[t] # << >>
  BY <1>5, <1>6 DEF AsleepForm, Publish, Do, OpAt
<1>8. m.task \in Task
  BY <1>5, StepsGood DEF GoodSteps, GoodStep
<1>9. ~ EndsHere(Transitions[t])
  BY <1>7, <1>8, ExecutorAssumption DEF EndsHere
<1>10. CASE ActionOp(Action[t]) = "a2a"
  <2>1. m.task \in AgentFed
    BY <1>7, <1>10 DEF AgentFed
  <2> QED
    BY <2>1 DEF HasWaker, AgentFed
<1>11. CASE ActionOp(Action[t]) = "event"
  <2>1. EventFrom(t, i + 1)
    BY <1>6, <1>7, <1>11 DEF EventFrom
  <2>2. EventAhead(e)'
    BY <1>3, <1>4, <2>1 DEF EventAhead
  <2> QED
    BY <1>3, <2>2 DEF HasWaker
<1> QED
  BY <1>7, <1>9, <1>10, <1>11 DEF SuccessorsAreAwaited

LEMMA WakerNext ==
    ASSUME SuccessorsAreAwaited
    PROVE  TypeOK /\ QueueInv /\ WakerInv /\ [Next]_vars => WakerInv'
<1> SUFFICES ASSUME TypeOK, QueueInv, WakerInv, [Next]_vars PROVE WakerInv'
  OBVIOUS
<1>1. TypeOK'
  BY TypeNext
<1>2. /\ QueueEffect /\ SchedEffect /\ CallbackEffect
      /\ (faults' = 0 => faults = 0) /\ \A e \in Engine : Fresh(e)
  BY NextEffect, EffectParts, EffectCallbacks, EffectFaults DEF WakerInv
<1>3. Grows
  BY <1>2, StepGrows
<1>4. \A e \in Engine : Fresh(e)'
  BY <1>2, FreshKeeps
<1>5. \A k \in calls' : k.msg.status = "WAIT"
  BY <1>1, <1>2, CallsWait DEF WakerInv
<1>6. ASSUME faults' = 0, NEW u \in 1 .. MaxUuids, NEW t, HasWaker(u, t) PROVE HasWaker(u, t)'
  BY <1>1, <1>2, <1>3, <1>6, WakerKeeps
<1>7. MaxUuids \in Nat /\ uuids \in 0 .. MaxUuids /\ Len(rows) \in Nat
  BY SchedulingAssumption DEF TypeOK, StateTypes
<1>8. ASSUME faults' = 0, NEW e \in Engine, NEW m \in observer[e], m.status = "SLEEP"
      PROVE  HasWaker(m.uuid, m.task) /\ HasWaker(m.uuid, m.task)'
  <2>1. HasWaker(m.uuid, m.task)
    BY <1>2, <1>8 DEF WakerInv
  <2>2. GoodMessage(m) /\ m.uuid \in Nat
    BY DEF QueueInv, GoodMessages, TypeOK, StateTypes, Msg
  <2>3. m.uuid \in 1 .. MaxUuids
    BY <1>7, <1>8, <2>2 DEF GoodMessage
  <2> QED
    BY <1>6, <1>8, <2>1, <2>3
<1>9. ASSUME faults' = 0, NEW e \in Engine, NEW m \in observer'[e], m.status = "SLEEP"
      PROVE  HasWaker(m.uuid, m.task)'
  <2>1. m \in observer[e] \/ (\E k \in calls : k.msg = m) \/ \E f \in Engine : Publishes(f, m)
    BY <1>1, <1>2, QueuedBefore
  <2>2. ~ \E k \in calls : k.msg = m
    BY <1>9 DEF WakerInv
  <2>3. ASSUME NEW f \in Engine, Publishes(f, m) PROVE HasWaker(m.uuid, m.task)'
    BY <1>1, <1>3, <1>9, <2>3, PublishedHasWaker
  <2> QED
    BY <1>8, <1>9, <2>1, <2>2, <2>3
<1>10. ASSUME faults' = 0, NEW r \in 1 .. Len(rows), rows'[r].status = "SLEEP"
       PROVE  HasWaker(rows[r].uuid, rows[r].task)'
  <2>1. PICK u \in Nat, t \in Task : u = rows[r].uuid /\ t = rows[r].task
    <3>1. rows[r] \in RowSet
      BY ElementOfSeq DEF TypeOK, StateTypes
    <3> QED
      BY <3>1 DEF RowSet
  <2>2. rows[r].status = "SLEEP" /\ SameTask(r) /\ GoodRow(r)
    BY <1>3, <1>10 DEF Grows, QueueInv
  <2>3. u \in 1 .. MaxUuids
    BY <1>7, <2>1, <2>2 DEF GoodRow
  <2>4. HasWaker(u, t)
    BY <1>2, <1>10, <2>1, <2>2 DEF WakerInv
  <2>5. HasWaker(u, t)'
    BY <1>6, <1>10, <2>3, <2>4
  <2>6. rows'[r].uuid = u /\ rows'[r].task = t
    BY <2>1, <2>2 DEF SameTask
  <2> QED
    BY <2>5, <2>6 DEF HasWaker, EventAhead
<1>11. ASSUME faults' = 0, NEW r \in 1 .. Len(rows'), rows'[r].status = "SLEEP"
       PROVE  HasWaker(rows[r].uuid, rows[r].task)'
  <2>1. CASE r \in 1 .. Len(rows)
    BY <1>10, <1>11, <2>1
  <2>2. ASSUME NEW e \in Engine, NEW m \in observer[e], Inserts(e, m), r \notin 1 .. Len(rows)
        PROVE  HasWaker(rows[r].uuid, rows[r].task)'
    <3>1. r = Len(rows) + 1
      BY <1>7, <2>2 DEF Inserts
    <3>2. rows'[r].uuid = m.uuid /\ rows'[r].task = m.task /\ rows'[r].status = m.status
      BY <2>2, <3>1 DEF Inserts
    <3>3. HasWaker(m.uuid, m.task)'
      BY <1>8, <1>11, <3>2
    <3> QED
      BY <3>2, <3>3 DEF HasWaker, EventAhead
  <2> QED
    BY <1>2, <2>1, <2>2, RowsBefore
<1> QED
  BY <1>4, <1>5, <1>9, <1>11 DEF WakerInv

(* SleeperHasWaker, for every workflow whose operations with a successor   *)
(* publish an event or call an agent: the sleeping row and the event that  *)
(* is to wake it travel through different goroutines, and at no moment is  *)
(* the row there without its waker.                                        *)
THEOREM SleepersAreAwaited ==
    ASSUME SuccessorsAreAwaited
    PROVE  Spec => []SleeperHasWaker
<1>1. Init => TypeOK /\ QueueInv /\ WakerInv
  <2>1. Init => WakerInv
    BY DEF Init, WakerInv, Fresh, Idle
  <2> QED
    BY <2>1, TypeInit, QueueInit
<1>2. TypeOK /\ QueueInv /\ WakerInv /\ [Next]_vars => (TypeOK /\ QueueInv /\ WakerInv)'
  BY TypeNext, QueueNext, WakerNext
<1>3. TypeOK /\ QueueInv /\ WakerInv => SleeperHasWaker
  <2>1. TypeOK => DOMAIN rows = 1 .. Len(rows)
    BY DEF TypeOK, StateTypes
  <2>2. TypeOK => \A e \in Engine : EventAhead(e) => Holds(e, sched[e].row)
    BY DEF TypeOK, References, RowExists, EventAhead, Holds
  <2> QED
    BY <2>1, <2>2 DEF WakerInv, HasWaker, SleeperHasWaker
<1> QED
  BY <1>1, <1>2, <1>3, PTL DEF Spec
=============================================================================
