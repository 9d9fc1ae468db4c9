--------------------------- MODULE TaskExecutors ---------------------------
(***************************************************************************)
(* The task executors of internal/task: what Task.Run does for each type   *)
(* of task, as the sequence of externally visible operations it performs.  *)
(*                                                                         *)
(* A stored workflow definition is a constant: TaskType, Transitions (the  *)
(* relation rows of a task, in the order the database returns them) and    *)
(* Action (its first action row; a missing row has the empty name).        *)
(* Names are abstracted to the classes the code tells apart:               *)
(*   "" (no operation), "short" (one or two bytes), "a2a" (starts with     *)
(*   those three bytes), "agent:" and "other".                             *)
(* The `cond' of a relation is "" when it has no condition, and otherwise  *)
(* what matchCondition returns for it on the input of the instance.        *)
(***************************************************************************)
EXTENDS Integers, Sequences

CONSTANTS Task, TaskEndID, TaskType, Transitions, Action

(* The types of isLocalRuntimeTask. *)
LocalTypes == {"set", "do", "fork", "for", "try", "wait", "raise", "run", "emit"}

(* normalizeTaskType stores one of these; "call" falls through to the      *)
(* operation executor in New.                                              *)
Types == LocalTypes \cup {"operation", "call", "event", "listen", "switch"}

Relations == [to : Task \cup {TaskEndID}, cond : {"", "true", "false", "error"}]

(* The type of an action is what follows `call', or the type of the task;  *)
(* a call of any other kind is treated like "http".                        *)
Actions == [type : Types \cup {"", "asyncapi", "http", "openapi", "grpc", "a2a", "agent"},
            name : {"", "short", "a2a", "agent:", "other"}]

ASSUME ExecutorAssumption ==
    /\ TaskEndID \notin Task
    /\ TaskType \in [Task -> Types]
    /\ Transitions \in [Task -> Seq(Relations)]
    /\ Action \in [Task -> Actions]

-----------------------------------------------------------------------------
(* A step is one operation of Run:                                         *)
(*   publish   hand a new task instance for `to' to the queue              *)
(*   event     publishEvent: catalog lookup and EventMesh publish          *)
(*   a2a       call an agent and wait for its result                       *)
(*   complete  mark the workflow instance SUCCESS                          *)
(*   error     return an error                                             *)
(*   panic     slice bounds out of range in isA2ATask                      *)
(*   skip      nothing (no action, or an END branch of a fork)             *)
Ops == {"publish", "event", "a2a", "complete", "error", "panic", "skip"}

StepSet == [op : Ops, to : Task \cup {TaskEndID}, status : {"SLEEP", "WAIT"}]

Do(op) == [op |-> op, to |-> TaskEndID, status |-> "WAIT"]

Publish(to, status) == [op |-> "publish", to |-> to, status |-> status]

(* Only the first three bytes of the name are looked at, and they are      *)
(* sliced off without a length check.                                      *)
IsA2ATask(a) == a.type \in {"a2a", "agent"} \/ a.name = "a2a"

ActionOp(a) ==
    CASE a.name = "" \/ a.type \in LocalTypes          -> "skip"
      [] a.name # "" /\ a.type \notin LocalTypes /\ IsA2ATask(a) -> "a2a"
      [] a.name = "short" /\ a.type \notin LocalTypes /\ ~IsA2ATask(a) -> "panic"
      [] OTHER                                          -> "event"

(* publishOrComplete and publishNextOrComplete.                            *)
PublishOrComplete(to) ==
    IF to = TaskEndID THEN Do("complete") ELSE Publish(to, "WAIT")

EndsHere(tr) == tr = << >> \/ tr[1].to = TaskEndID

(* The successor of an operation is queued, asleep, before the event that  *)
(* will wake it is published.                                              *)
OperationSteps(t) ==
    LET tr == Transitions[t] IN
    IF EndsHere(tr)
    THEN << Do(ActionOp(Action[t])), Do("complete") >>
    ELSE << Publish(tr[1].to, "SLEEP"), Do(ActionOp(Action[t])) >>

EventSteps(t) == IF Transitions[t] = << >> THEN << >> ELSE OperationSteps(t)

(* Mutation: no return after the transition of a condition that is true.   *)
SwitchWithoutReturn(t) ==
    LET tr   == Transitions[t]
        true == {i \in DOMAIN tr : tr[i].cond = "true"}
    IN  IF true = {} THEN << Do("complete") >>
        ELSE << PublishOrComplete(tr[CHOOSE i \in true : TRUE].to), Do("complete") >>

(* The first condition that is true, or that cannot be evaluated, decides; *)
(* otherwise the last relation without a condition is the default.         *)
SwitchSteps(t) ==
    LET tr       == Transitions[t]
        decisive == {i \in DOMAIN tr : tr[i].cond \in {"true", "error"}}
        default  == {i \in DOMAIN tr : tr[i].cond = ""}
    IN  CASE tr = << >> -> << >>
          [] tr # << >> /\ decisive # {} ->
               LET i == CHOOSE i \in decisive : \A j \in decisive : i <= j
               IN  << IF tr[i].cond = "error" THEN Do("error")
                                              ELSE PublishOrComplete(tr[i].to) >>
          [] tr # << >> /\ decisive = {} /\ default # {} ->
               LET i == CHOOSE i \in default : \A j \in default : i >= j
               IN  << PublishOrComplete(tr[i].to) >>
          [] OTHER -> << Do("complete") >>

(* The definition of a task is not a column of t_workflow_task, so the     *)
(* executors of set, do, for, try and wait find none and pass the input    *)
(* on; raise always fails; run and emit publish an event.                  *)
ExecuteOp(t) ==
    CASE TaskType[t] = "raise" -> "error"
      [] TaskType[t] \in {"run", "emit"} /\ Action[t].name # "" -> "event"
      [] OTHER -> "skip"

(* publishNextTasks, for one relation.                                     *)
PublishNextTask(rel) ==
    IF rel.to = TaskEndID THEN Do("skip") ELSE Publish(rel.to, "WAIT")

LocalRuntimeSteps(t) ==
    LET tr == Transitions[t] IN
    IF EndsHere(tr)
    THEN << Do(ExecuteOp(t)), Do("complete") >>
    ELSE [i \in 1 .. Len(tr) + 1 |->
            IF i = 1 THEN Do(ExecuteOp(t)) ELSE PublishNextTask(tr[i - 1])]

(* The dispatch of task.New followed by Run. *)
Steps(t) ==
    CASE TaskType[t] \in LocalTypes           -> LocalRuntimeSteps(t)
      [] TaskType[t] \in {"event", "listen"}  -> EventSteps(t)
      [] TaskType[t] = "switch"               -> SwitchSteps(t)
      [] OTHER                                -> OperationSteps(t)
=============================================================================
