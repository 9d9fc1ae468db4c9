-------------------------- MODULE DefinitionStore --------------------------
(***************************************************************************)
(* The definition DAL (internal/dal/workflow.go) under the controller's    *)
(* Save and Delete and an engine that starts and runs tasks at the same    *)
(* time.                                                                   *)
(*                                                                         *)
(* One workflow id.  A version is what one Save stored, named after its    *)
(* writer.  The workflow has two tasks that need no event, the second one  *)
(* ends it.  t_workflow_task and t_workflow_task_action, whose status no   *)
(* query looks at, are the one table "task".  Rows are locked as InnoDB    *)
(* locks rows found by the index on workflow_id: an UPDATE of the workflow *)
(* excludes other UPDATEs and INSERTs of it until its transaction ends.    *)
(***************************************************************************)
EXTENDS Integers, Sequences, FiniteSets

CONSTANTS
    Writer,         \* controller requests that change the definition
    Stored,         \* the version that is stored at the beginning
    NoTable,        \* no statement is waiting
    Plans,          \* what the writers do, whether tasks run, whether instances start
    RetryAttempts,  \* runs of a task by retry.Do (5 in the code)
    MaxInst,        \* bound on workflow instances
    MaxFaults       \* bound on injected failures

Version     == Writer \cup {Stored}
Definitions == {"workflow", "task", "relation"}
Tables      == Definitions \cup {"instance", "taskInstance"}
Reads       == {"task", "relation", "action"}
Modes       == {"none", "update", "create", "delete"}

ASSUME StoreAssumption ==
    /\ Stored \notin Writer
    /\ NoTable \notin Tables
    /\ Plans \subseteq [mode : [Writer -> Modes], runs : BOOLEAN, starts : BOOLEAN]
    /\ RetryAttempts \in Nat \ {0} /\ MaxInst \in Nat /\ MaxFaults \in Nat

VARIABLES
    plan,     \* the plan of this behaviour
    rows,     \* committed status of each version in each definition table
    inst,     \* committed status of the workflow instances
    tasks,    \* committed rows of t_workflow_task_instance
    queue,    \* task instances published and not inserted yet
    wr,       \* the writers
    eng,      \* the scheduler's handling of a task
    starts,   \* the version the Start request under way has found
    victims,  \* writers whose transaction a deadlock rolled back
    crashed,  \* the controller died
    early,    \* instances ended by their first task
    faults

vars == << plan, rows, inst, tasks, queue, wr, eng, starts, victims, crashed, early, faults >>

InstStatus == {"process", "success", "invalid"}
TaskStatus == {"WAIT", "SUCCESS", "FAIL", "INVALID"}
TaskSet    == [inst : Nat, ver : Version, no : {1, 2}, st : TaskStatus]

(* tx: a lost transaction was rolled back by the server, an unsure one was *)
(* committed and the answer did not arrive.                                *)
WriterSet == [pc : {"idle", "delete", "check", "create", "over"},
              todo : SUBSET Tables, at : Tables \cup {NoTable},
              tx : {"none", "open", "lost", "unsure"},
              inv : SUBSET Tables, ins : SUBSET Definitions, bad : BOOLEAN]

EngineSet == [pc : {"idle", "read", "claim", "run", "finish"}, row : Nat,
              reads : [Reads -> {"todo", "assigned", "returned"}],
              err : BOOLEAN, failed : BOOLEAN,
              got : SUBSET Reads, missed : SUBSET Reads,
              tries : Nat, st : {"SUCCESS", "FAIL"}]

NoWriter == [pc |-> "idle", todo |-> {}, at |-> NoTable, tx |-> "none",
             inv |-> {}, ins |-> {}, bad |-> FALSE]

NoRun == [pc |-> "idle", row |-> 0, reads |-> [r \in Reads |-> "todo"], err |-> FALSE,
          failed |-> FALSE, got |-> {}, missed |-> {}, tries |-> 0, st |-> "SUCCESS"]

Init ==
    /\ plan \in Plans
    /\ rows = [t \in Definitions |-> [v \in Version |-> IF v = Stored THEN "normal" ELSE "none"]]
    /\ inst = << "process" >>
    /\ tasks = << [inst |-> 1, ver |-> Stored, no |-> 1, st |-> "WAIT"] >>
    /\ queue = << >>
    /\ wr = [w \in Writer |-> NoWriter]
    /\ eng = NoRun
    /\ starts = {}
    /\ victims = {}
    /\ crashed = FALSE
    /\ early = {}
    /\ faults = 0

Fault   == faults < MaxFaults /\ faults' = faults + 1
NoFault == UNCHANGED faults

engineVars == << queue, eng, starts, early >>

-----------------------------------------------------------------------------
(* Locks.                                                                  *)
Updating(w, t)  == wr[w].tx = "open" /\ t \in wr[w].inv
Inserting(w, t) == wr[w].tx = "open" /\ t \in wr[w].ins

(* The scheduler holds the row it claimed until its transaction ends. *)
RowHeld == eng.pc \in {"run", "finish"}

(* No writer other than those of ws excludes an INSERT, or an UPDATE of a  *)
(* single row, of table t.                                                 *)
RowFree(ws, t) == \A u \in Writer \ ws : ~ Updating(u, t)

(* The next statement of w on t can go on. *)
Free(w, t) ==
    /\ RowFree({w}, t)
    /\ wr[w].pc = "delete" => /\ \A u \in Writer \ {w} : ~ Inserting(u, t)
                              /\ t = "taskInstance" => ~ RowHeld

(* Two transactions wait for each other. *)
InCycle(w) ==
    \E u \in Writer \ {w} :
        /\ wr[w].at # NoTable /\ wr[u].at # NoTable
        /\ Updating(u, wr[w].at) \/ (wr[w].pc = "delete" /\ Inserting(u, wr[w].at))
        /\ Updating(w, wr[u].at) \/ (wr[u].pc = "delete" /\ Inserting(w, wr[u].at))

-----------------------------------------------------------------------------
(* Committed writes: the rows of the workflow in the tables inv are set to *)
(* InvalidStatus, those of version v in the tables ins are there.          *)
Write(inv, ins, v) ==
    /\ rows' = [t \in Definitions |-> [x \in Version |->
                  IF x = v /\ t \in ins THEN "normal"
                  ELSE IF t \in inv /\ rows[t][x] = "normal" THEN "invalid"
                  ELSE rows[t][x]]]
    /\ inst' = IF "instance" \in inv THEN [i \in DOMAIN inst |-> "invalid"] ELSE inst
    /\ tasks' = IF "taskInstance" \in inv
                THEN [i \in DOMAIN tasks |-> [tasks[i] EXCEPT !.st = "INVALID"]] ELSE tasks

NoWrite == UNCHANGED << rows, inst, tasks >>

Over(w, bad) == wr' = [wr EXCEPT ![w] = [NoWriter EXCEPT !.pc = "over", !.bad = bad]]

(* Mutation: what was sent before the error stays. *)
PartialRollback(w) == Over(w, TRUE) /\ Write(wr[w].inv, wr[w].ins, w)

Rollback(w) == Over(w, TRUE) /\ NoWrite

Commit(w) == Over(w, FALSE) /\ Write(wr[w].inv, wr[w].ins, w)

(* The server has committed, but the connection or the controller dies     *)
(* before the request is answered.                                         *)
CommitUnanswered(w) ==
    /\ wr' = [wr EXCEPT ![w] = [NoWriter EXCEPT !.pc = "over", !.bad = TRUE, !.tx = "unsure"]]
    /\ Write(wr[w].inv, wr[w].ins, w)

-----------------------------------------------------------------------------
(* Save and Delete.                                                        *)
Begin(w) ==
    /\ wr[w].pc = "idle"
    /\ \/ /\ plan.mode[w] = "update"
          /\ wr' = [wr EXCEPT ![w].pc = "delete", ![w].todo = Tables, ![w].tx = "open"]
       \/ /\ plan.mode[w] = "delete"
          /\ wr' = [wr EXCEPT ![w].pc = "delete", ![w].todo = Tables]
       \/ /\ plan.mode[w] = "create"
          /\ wr' = [wr EXCEPT ![w].pc = "check", ![w].tx = "open"]
    /\ NoWrite
    /\ UNCHANGED << plan, engineVars, victims, crashed, faults >>

(* The statements of one transaction share its connection: none is sent    *)
(* while another one waits.  Those of Delete each have their own.          *)
MaySend(w, t) == t \in wr[w].todo /\ wr[w].at \in {NoTable, t}

Done(w, t) == [wr EXCEPT ![w].todo = @ \ {t}, ![w].at = NoTable]

(* One handler of delete or create.  Outside a transaction, or after the   *)
(* server rolled it back, the statement commits by itself.                 *)
Statement(w, t) ==
    /\ MaySend(w, t)
    /\ Free(w, t)
    /\ LET upd == IF wr[w].pc = "delete" THEN {t} ELSE {}
           new == IF wr[w].pc = "create" THEN {t} ELSE {}
       IN  IF wr[w].tx = "open"
           THEN /\ wr' = [Done(w, t) EXCEPT ![w].inv = @ \cup upd, ![w].ins = @ \cup new]
                /\ NoWrite
           ELSE wr' = Done(w, t) /\ Write(upd, new, w)
    /\ UNCHANGED << plan, engineVars, victims, crashed, faults >>

Waits(w, t) ==
    /\ MaySend(w, t)
    /\ ~ Free(w, t)
    /\ wr[w].at = NoTable /\ wr[w].tx # "none"
    /\ wr' = [wr EXCEPT ![w].at = t]
    /\ NoWrite
    /\ UNCHANGED << plan, engineVars, victims, crashed, faults >>

(* innodb_lock_wait_timeout, or the statement fails; the transaction goes  *)
(* on without it.                                                          *)
StatementFails(w, t) ==
    /\ MaySend(w, t)
    /\ \/ ~ Free(w, t) /\ (wr[w].at = t \/ wr[w].tx = "none") /\ ~ InCycle(w) /\ NoFault
       \/ Fault
    /\ wr' = [Done(w, t) EXCEPT ![w].bad = TRUE]
    /\ NoWrite
    /\ UNCHANGED << plan, engineVars, victims, crashed >>

(* The server rolls the whole transaction of the victim back.  Its other   *)
(* handlers do not know and go on, on a connection that now commits each   *)
(* statement.                                                              *)
Deadlock(w) ==
    /\ InCycle(w)
    /\ wr' = [Done(w, wr[w].at) EXCEPT ![w].bad = TRUE, ![w].tx = "lost",
                                       ![w].inv = {}, ![w].ins = {}]
    /\ victims' = victims \cup {w}
    /\ NoWrite
    /\ UNCHANGED << plan, engineVars, crashed, faults >>

(* Mutation: a handler that fails is not counted as done by GoAndWait. *)
DeletedIfClean(w) ==
    /\ wr[w].pc = "delete" /\ wr[w].todo = {} /\ ~ wr[w].bad
    /\ IF plan.mode[w] = "delete" THEN Over(w, FALSE)
       ELSE wr' = [wr EXCEPT ![w].pc = "check"]
    /\ NoWrite
    /\ UNCHANGED << plan, engineVars, victims, crashed, faults >>

(* GoAndWait of delete returns. *)
Deleted(w) ==
    /\ wr[w].pc = "delete" /\ wr[w].todo = {}
    /\ IF plan.mode[w] = "delete" THEN Over(w, wr[w].bad) /\ NoWrite
       ELSE IF wr[w].bad THEN Rollback(w)
       ELSE wr' = [wr EXCEPT ![w].pc = "check"] /\ NoWrite
    /\ UNCHANGED << plan, engineVars, victims, crashed, faults >>

(* The versions QueryDetail shows. *)
Listed == {v \in Version : rows["workflow"][v] = "normal"}

(* Mutation: nobody asks whether the workflow is there already. *)
NeverExists(w) == FALSE

(* Select, in the transaction of w: a row of the workflow is normal. *)
Exists(w) == "workflow" \notin wr[w].inv /\ Listed # {}

(* create: swf.Parse may refuse the text; then "workflow id already        *)
(* exists".                                                                *)
Check(w) ==
    /\ wr[w].pc = "check"
    /\ \E parsed \in BOOLEAN :
         IF ~ parsed \/ Exists(w) THEN Rollback(w)
         ELSE wr' = [wr EXCEPT ![w].pc = "create", ![w].todo = Definitions] /\ NoWrite
    /\ UNCHANGED << plan, engineVars, victims, crashed, faults >>

(* Mutation: create does not return the error of GoAndWait. *)
CreatedAnyway(w) ==
    /\ wr[w].pc = "create" /\ wr[w].todo = {}
    /\ Commit(w)
    /\ UNCHANGED << plan, engineVars, victims, crashed, faults >>

(* GoAndWait of create returns, and Transaction with it: it rolls back     *)
(* what failed, and returns the error of the COMMIT of the rest, which the *)
(* server may refuse.                                                      *)
Created(w) ==
    /\ wr[w].pc = "create" /\ wr[w].todo = {}
    /\ \/ (IF wr[w].bad THEN Rollback(w) ELSE Commit(w)) /\ NoFault
       \/ ~ wr[w].bad /\ (Rollback(w) \/ CommitUnanswered(w)) /\ Fault
    /\ UNCHANGED << plan, engineVars, victims, crashed >>

(* The controller dies: open transactions are rolled back, the statements  *)
(* of a Delete that were not sent never are.                               *)
ControllerCrash ==
    /\ ~ crashed
    /\ Fault
    /\ crashed' = TRUE
    /\ wr' = [w \in Writer |-> IF wr[w].pc = "over" THEN wr[w]
                               ELSE [NoWriter EXCEPT !.pc = "over", !.bad = TRUE]]
    /\ NoWrite
    /\ UNCHANGED << plan, engineVars, victims >>

-----------------------------------------------------------------------------
(* Starting a workflow.                                                    *)

(* SelectStartTask: the first relation from START that is normal. *)
Startable == {v \in Version : rows["relation"][v] = "normal"}

SelectStartTask ==
    /\ plan.starts
    /\ starts = {} /\ Len(inst) < MaxInst
    /\ \E v \in Startable : starts' = {v}
    /\ NoWrite
    /\ UNCHANGED << plan, queue, wr, eng, victims, crashed, early, faults >>

(* Mutation: the task is published although the instance was not stored. *)
PublishedAnyway ==
    \E v \in starts :
        /\ starts' = {}
        /\ inst' = IF RowFree({}, "instance") THEN Append(inst, "process") ELSE inst
        /\ queue' = Append(queue, [inst |-> Len(inst) + 1, ver |-> v, no |-> 1, st |-> "WAIT"])
        /\ UNCHANGED << plan, rows, tasks, wr, eng, victims, crashed, early, faults >>

(* The rest of engine.Start: the instance is stored, its first task        *)
(* published.                                                              *)
InsertInstance ==
    \E v \in starts :
        /\ starts' = {}
        /\ \/ /\ RowFree({}, "instance")
              /\ inst' = Append(inst, "process")
              /\ queue' = Append(queue, [inst |-> Len(inst) + 1, ver |-> v, no |-> 1, st |-> "WAIT"])
           \/ ~ RowFree({}, "instance") /\ UNCHANGED << inst, queue >>
        /\ UNCHANGED << plan, rows, tasks, wr, eng, victims, crashed, early, faults >>

(* The observer inserts a task, or logs that it could not. *)
InsertTaskInstance ==
    /\ queue # << >>
    /\ queue' = Tail(queue)
    /\ \/ RowFree({}, "taskInstance") /\ tasks' = Append(tasks, Head(queue))
       \/ ~ RowFree({}, "taskInstance") /\ UNCHANGED tasks
    /\ UNCHANGED << plan, rows, inst, wr, eng, starts, victims, crashed, early, faults >>

-----------------------------------------------------------------------------
(* The scheduler.                                                          *)
schedulerFrame == << plan, rows, wr, starts, victims, crashed >>

(* The newest row that waits. *)
SelectTaskInstance ==
    /\ plan.runs
    /\ eng.pc = "idle"
    /\ \E i \in DOMAIN tasks :
         /\ tasks[i].st = "WAIT"
         /\ \A j \in i + 1 .. Len(tasks) : tasks[j].st # "WAIT"
         /\ eng' = [NoRun EXCEPT !.pc = "read", !.row = i]
    /\ UNCHANGED << schedulerFrame, inst, tasks, queue, early, faults >>

(* selectTask and selectTaskAction find their rows whatever their status.  *)
Found(r) == r = "relation" => rows["relation"][tasks[eng.row].ver] = "normal"

(* A handler queries and assigns the err that all three share ...          *)
Assign(r) ==
    /\ eng.pc = "read" /\ eng.reads[r] = "todo"
    /\ \/ /\ NoFault
          /\ eng' = [eng EXCEPT !.reads[r] = "assigned", !.err = FALSE,
                                !.got = IF Found(r) THEN @ \cup {r} ELSE @]
       \/ /\ Fault
          /\ eng' = [eng EXCEPT !.reads[r] = "assigned", !.err = TRUE, !.missed = @ \cup {r}]
    /\ UNCHANGED << schedulerFrame, inst, tasks, queue, early >>

(* ... and returns what the err is by then. *)
Return(r) ==
    /\ eng.pc = "read" /\ eng.reads[r] = "assigned"
    /\ eng' = [eng EXCEPT !.reads[r] = "returned", !.failed = @ \/ eng.err]
    /\ UNCHANGED << schedulerFrame, inst, tasks, queue, early, faults >>

(* Mutation: GoAndWait returns with its first handler. *)
ReadNotAwaited ==
    /\ eng.pc = "read" /\ \E r \in Reads : eng.reads[r] = "returned"
    /\ eng' = IF eng.failed \/ "task" \notin eng.got THEN NoRun ELSE [eng EXCEPT !.pc = "claim"]
    /\ UNCHANGED << schedulerFrame, inst, tasks, queue, early, faults >>

(* completeTaskInstance: without its task the row is left as it is. *)
ReadDone ==
    /\ eng.pc = "read" /\ \A r \in Reads : eng.reads[r] = "returned"
    /\ eng' = IF eng.failed \/ "task" \notin eng.got THEN NoRun ELSE [eng EXCEPT !.pc = "claim"]
    /\ UNCHANGED << schedulerFrame, inst, tasks, queue, early, faults >>

(* UpdateTaskInstance by id: it may have to wait, and does not look at     *)
(* what became of the row.                                                 *)
Claim ==
    /\ eng.pc = "claim"
    /\ eng' = IF RowFree({}, "taskInstance") THEN [eng EXCEPT !.pc = "run"] ELSE NoRun
    /\ UNCHANGED << schedulerFrame, inst, tasks, queue, early, faults >>

Row == tasks[eng.row]

(* publishNextTasks. *)
RunNext ==
    /\ eng.pc = "run" /\ Row.no = 1 /\ "relation" \in eng.got
    /\ queue' = Append(queue, [Row EXCEPT !.no = 2, !.st = "WAIT"])
    /\ eng' = [eng EXCEPT !.pc = "finish"]
    /\ UNCHANGED << schedulerFrame, inst, tasks, early, faults >>

(* publishNextOrComplete: UpdateInstance, on a connection of its own.  It  *)
(* fails when the lock is not given in time, and retry.Do tries again.     *)
RunComplete ==
    /\ eng.pc = "run" /\ (Row.no = 2 \/ "relation" \notin eng.got)
    /\ \/ /\ RowFree({}, "instance")
          /\ inst' = [inst EXCEPT ![Row.inst] = "success"]
          /\ early' = IF Row.no = 1
                      THEN early \cup {[ver |-> Row.ver, missed |-> "relation" \in eng.missed]}
                      ELSE early
          /\ eng' = [eng EXCEPT !.pc = "finish"]
       \/ /\ ~ RowFree({}, "instance")
          /\ eng' = IF eng.tries + 1 < RetryAttempts THEN [eng EXCEPT !.tries = @ + 1]
                    ELSE [eng EXCEPT !.pc = "finish", !.st = "FAIL"]
          /\ UNCHANGED << inst, early >>
    /\ UNCHANGED << schedulerFrame, tasks, queue, faults >>

Finish ==
    /\ eng.pc = "finish"
    /\ tasks' = [tasks EXCEPT ![eng.row].st = eng.st]
    /\ eng' = NoRun
    /\ UNCHANGED << schedulerFrame, inst, queue, early, faults >>

-----------------------------------------------------------------------------
WriterStep(w) ==
    \/ Begin(w) \/ Deadlock(w) \/ Deleted(w) \/ Check(w) \/ Created(w)
    \/ \E t \in Tables : Statement(w, t) \/ Waits(w, t) \/ StatementFails(w, t)

EngineStep ==
    \/ SelectTaskInstance \/ ReadDone \/ Claim \/ RunNext \/ RunComplete \/ Finish
    \/ \E r \in Reads : Assign(r) \/ Return(r)

Next ==
    \/ \E w \in Writer : WriterStep(w)
    \/ ControllerCrash
    \/ SelectStartTask \/ InsertInstance \/ InsertTaskInstance
    \/ EngineStep

Spec     == Init /\ [][Next]_vars
Fairness == WF_vars(EngineStep) /\ WF_vars(InsertTaskInstance)
            /\ \A w \in Writer : WF_vars(WriterStep(w))
FairSpec == Spec /\ Fairness

-----------------------------------------------------------------------------
TypeOK ==
    /\ plan \in Plans
    /\ rows \in [Definitions -> [Version -> {"none", "normal", "invalid"}]]
    /\ inst \in Seq(InstStatus)
    /\ tasks \in Seq(TaskSet) /\ queue \in Seq(TaskSet)
    /\ \A i \in DOMAIN tasks : tasks[i].inst \in DOMAIN inst
    /\ wr \in [Writer -> WriterSet]
    /\ eng \in EngineSet /\ (eng.pc # "idle" => eng.row \in DOMAIN tasks)
    /\ starts \subseteq Version /\ victims \subseteq Writer
    /\ crashed \in BOOLEAN
    /\ faults \in 0 .. MaxFaults

Deletes == {w \in Writer : plan.mode[w] = "delete"}
Creates == {w \in Writer : plan.mode[w] = "create"}

(* Without a Delete, and as long as no deadlock took a transaction away,   *)
(* every version is whole: its rows are in all the tables with the same    *)
(* status, whatever failed, crashed or ran at the same time.  So what      *)
(* QueryDetail shows (the workflow table) is what SelectStartTask starts   *)
(* (the relations).                                                        *)
SavesAreAtomic ==
    Deletes = {} /\ victims = {} =>
        \A v \in Version, t \in Definitions : rows[t][v] = rows["workflow"][v]

(* What a Save answers is what it did: after an answer of success its      *)
(* whole version was stored.  After an error none of it is, unless the     *)
(* error is that of a COMMIT that was carried out: then all of it is.  A   *)
(* deadlock that took the transaction away under handlers that went on is  *)
(* left out.                                                               *)
ReportIsTrue ==
    \A w \in Writer \ (Deletes \cup victims) :
        wr[w].pc = "over" =>
            \A t \in Definitions :
                (rows[t][w] = "none") = (wr[w].bad /\ wr[w].tx # "unsure")

(* A creating Save is the only one: nobody else can insert between its     *)
(* check and its commit.                                                   *)
CreatesAlone ==
    \A w \in Creates, u \in Writer : plan.mode[u] \in {"update", "create"} => u = w

(* Two versions of the workflow are never offered at once, unless it is    *)
(* created while another Save is under way: each Save invalidates what it  *)
(* finds, or refuses ("workflow id already exists").                       *)
OneVersion ==
    CreatesAlone /\ victims = {} => \A u, v \in Listed : u = v

(* An instance that is ended by its first task, as if that had no          *)
(* successor, had its definition invalidated under it, or a query of the   *)
(* relations failed and the nil of another one hid the error.              *)
EarlyEndIsExplained ==
    \A e \in early : e.missed \/ rows["relation"][e.ver] = "invalid"

(* Every request of the controller returns and every task the scheduler    *)
(* took up is let go again, although Save can wait for the row of a task   *)
(* whose Run waits, on another connection, for the instance row of Save: a *)
(* cycle the server does not see.                                          *)
EverybodyReturns ==
    []<> (eng.pc = "idle" /\ \A w \in Writer : wr[w].pc \in {"idle", "over"})

(* What docs say of Delete: once it has answered with success, and with no *)
(* Save around, no task of the workflow is left to be run.                 *)
DeleteMarksAll ==
    \A w \in Deletes :
        wr[w].pc = "over" /\ ~ wr[w].bad =>
            \A i \in DOMAIN tasks : tasks[i].st # "WAIT"
=============================================================================
