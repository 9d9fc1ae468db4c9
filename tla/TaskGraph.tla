----------------------------- MODULE TaskGraph -----------------------------
(***************************************************************************)
(* From a workflow text to the stored task graph: the parser and the       *)
(* validation of third_party/swf, and buildTask / buildTaskAction /        *)
(* buildTaskRelation of internal/dal.  Pure definitions.                   *)
(*                                                                         *)
(* A text is [kind, start, items]: its definitions in the order they are   *)
(* written, each nested one after the one around it.  An item of a v1 text *)
(* is                                                                      *)
(*   [name, keys, call, then, cases, parent, part]                         *)
(* where `keys' are the task keys present, `call' the action of a call     *)
(* task, `then' may be Absent, a case is [cond, then], `parent' is the     *)
(* item around it (0: none) and `part' tells whether it is under the key   *)
(* of that item ("subs") or under its catch.when ("catch").  An item of a  *)
(* legacy text is a state                                                  *)
(*   [name, type, actions, transition, end, cases]                         *)
(* with the `actions' whose functions are declared.                        *)
(***************************************************************************)
EXTENDS Integers, Sequences, Functions, FiniteSetsExt

CONSTANTS TaskStartID, TaskEndID, Absent, ShortNames

Directives == {"end", "exit", "continue"}

(* The order in which detectV1TaskType looks for keys. *)
KeyOrder == << "call", "switch", "set", "do", "fork", "for", "try", "wait",
               "raise", "run", "emit", "listen" >>

DetectV1TaskType(keys) ==
    LET found == SelectSeq(KeyOrder, LAMBDA k : k \in keys)
    IN  IF found = << >> \/ Head(found) = "call" THEN "operation" ELSE Head(found)

(* What the executors see of a task name that is used as an operation      *)
(* name.  One that starts with "a2a" makes an agent call in place of an    *)
(* event, which is the same to the walk over the graph.                    *)
NameClass(n) == IF n \in ShortNames THEN "short" ELSE "other"

-----------------------------------------------------------------------------
(* parseV1TaskList and parseV1Task.                                        *)
Under(items, i, part) == {j \in DOMAIN items : items[j].parent = i /\ items[j].part = part}

TypeAt(items, i) == DetectV1TaskType(items[i].keys)

(* The items that are read without an error.  An error below a fork branch *)
(* or in catch.when drops that part, any other one fails the whole list.   *)
ParseV1Task(items) ==
    LET ok[i \in DOMAIN items] ==
          /\ items[i].name # ""
          /\ TypeAt(items, i) \in {"do", "for", "try"} =>
                \A j \in Under(items, i, "subs") : ok[j]
    IN  {i \in DOMAIN items : ok[i]}

(* Item i is made a child of the item p around it. *)
Adopted(items, p, i, ok) ==
    \/ items[i].part = "subs" /\ TypeAt(items, p) \in {"do", "for", "try"}
    \/ items[i].part = "subs" /\ TypeAt(items, p) = "fork" /\ i \in ok
    \/ items[i].part = "catch" /\ TypeAt(items, p) = "try" /\ Under(items, p, "catch") \subseteq ok

(* FlattenTasks: the walk over the nested tasks. *)
FlattenTasks(items) ==
    LET ok == ParseV1Task(items)
        walked[i \in DOMAIN items] ==
          \/ items[i].parent = 0
          \/ walked[items[i].parent] /\ Adopted(items, items[i].parent, i, ok)
    IN  {i \in DOMAIN items : walked[i]}

V1Task(item) ==
    LET type == DetectV1TaskType(item.keys) IN
    [name     |-> item.name,
     type     |-> type,
     then     |-> IF item.then = Absent THEN "" ELSE item.then,
     explicit |-> item.then # Absent,
     actions  |-> CASE type = "operation" -> << item.call >>
                    [] type \in {"set", "emit", "listen", "wait", "raise", "run"} ->
                         << [type |-> type, name |-> NameClass(item.name)] >>
                    [] OTHER -> << >>,
     cases    |-> IF type = "switch" THEN item.cases ELSE << >>,
     parent   |-> item.parent]

(* legacyThen, and parseLegacyWorkflow for one state. *)
LegacyThen(s) ==
    IF s.transition # "" THEN s.transition ELSE IF s.end THEN "end" ELSE ""

LegacyTask(s) ==
    [name     |-> s.name,
     type     |-> s.type,
     then     |-> LegacyThen(s),
     explicit |-> TRUE,
     actions  |-> s.actions,
     cases    |-> IF s.type = "switch" THEN s.cases ELSE << >>,
     parent   |-> 0]

ParseTask(doc, i) == IF doc.kind = "v1" THEN V1Task(doc.items[i]) ELSE LegacyTask(doc.items[i])

(* A parsed workflow: its tasks, the nested ones included, at the places   *)
(* of their items.                                                         *)
Parsed(doc, ok, start, kept) ==
    [ok |-> ok, start |-> start, tasks |-> [i \in kept |-> ParseTask(doc, i)]]

ParseV1Workflow(doc) ==
    LET top == {i \in DOMAIN doc.items : doc.items[i].parent = 0}
    IN  Parsed(doc, top # {} /\ top \subseteq ParseV1Task(doc.items),
               IF top = {} THEN "" ELSE doc.items[Min(top)].name,
               FlattenTasks(doc.items))

ParseLegacyWorkflow(doc) ==
    LET named == {i \in DOMAIN doc.items : doc.items[i].name # ""}
    IN  Parsed(doc, doc.items # << >>,
               IF doc.start = "" /\ named # {} THEN doc.items[Min(named)].name ELSE doc.start,
               named)

ParseDocument(doc) ==
    IF doc.kind = "v1" THEN ParseV1Workflow(doc) ELSE ParseLegacyWorkflow(doc)

-----------------------------------------------------------------------------
TaskNames(wf) == {wf.tasks[i].name : i \in DOMAIN wf.tasks}

Children(wf, i) == {j \in DOMAIN wf.tasks : wf.tasks[j].parent = i}

IsValidFlowTarget(target, names) == target \in Directives \cup names

UniqueNames(wf) ==
    /\ DOMAIN wf.tasks # {}
    /\ "" \notin TaskNames(wf)
    /\ \A i, j \in DOMAIN wf.tasks : wf.tasks[i].name = wf.tasks[j].name => i = j

ValidThen(wf) ==
    \A i \in DOMAIN wf.tasks :
        wf.tasks[i].explicit /\ wf.tasks[i].then # "" =>
            IsValidFlowTarget(wf.tasks[i].then, TaskNames(wf))

Validate(wf) ==
    /\ UniqueNames(wf)
    /\ ValidThen(wf)
    /\ \A i \in DOMAIN wf.tasks : \A c \in Range(wf.tasks[i].cases) :
         c.then # "" => IsValidFlowTarget(c.then, TaskNames(wf))

Accepted(doc) == LET wf == ParseDocument(doc) IN wf.ok /\ Validate(wf)

-----------------------------------------------------------------------------
(* buildTask.  A task is identified by its name (task ids are fresh uuids  *)
(* and names are unique in an accepted workflow).                          *)
StoredTypes == {"operation", "event", "switch", "set", "do", "fork", "for", "try", "wait",
                "raise", "run", "emit", "listen"}

(* Mutation: the type of a legacy state is stored as it is. *)
TypeAsWritten(type) == type

NormalizeTaskType(type) == IF type \in StoredTypes THEN type ELSE "operation"

(* Only the first stored action is ever used. *)
BuildTaskAction(task) ==
    IF task.actions # << >> THEN Head(task.actions)
    ELSE [type |-> NormalizeTaskType(task.type), name |-> NameClass(task.name)]

(* Mutation: "continue" is not among the directives. *)
ResolveWithoutContinue(next, names) ==
    IF next \in names \cup {"continue"} THEN next ELSE TaskEndID

ResolveFlowDirective(next, names) ==
    IF next \in names \ Directives THEN next ELSE TaskEndID

(* Row `no' of a task's relations. *)
Relation(from, no, to, cond) == [from |-> from, no |-> no, to |-> to, cond |-> cond]

FirstChild(wf, i) == wf.tasks[Min(Children(wf, i))].name

(* Mutation: nested tasks go before an explicit `then'. *)
ChildrenFirst(wf, i) ==
    ResolveFlowDirective(IF Children(wf, i) # {} THEN FirstChild(wf, i) ELSE wf.tasks[i].then,
                         TaskNames(wf))

ResolveNextTaskID(wf, i) ==
    CASE wf.tasks[i].explicit -> ResolveFlowDirective(wf.tasks[i].then, TaskNames(wf))
      [] ~ wf.tasks[i].explicit /\ Children(wf, i) # {} ->
           ResolveFlowDirective(FirstChild(wf, i), TaskNames(wf))
      [] OTHER -> TaskEndID

(* Mutation: a fork is given the one successor of a do task. *)
ForkFirstChild(wf, i) == {Relation(wf.tasks[i].name, 1, ResolveNextTaskID(wf, i), "")}

BuildForkTaskRelation(wf, i) ==
    IF Children(wf, i) = {} THEN {Relation(wf.tasks[i].name, 1, TaskEndID, "")}
    ELSE {Relation(wf.tasks[i].name, j, wf.tasks[j].name, "") : j \in Children(wf, i)}

(* Mutation: no relation for a switch without cases. *)
SwitchRelationsOnly(task, names) ==
    {Relation(task.name, k, ResolveFlowDirective(task.cases[k].then, names), task.cases[k].cond) :
        k \in DOMAIN task.cases}

BuildSwitchTaskRelation(task, names) ==
    IF task.cases = << >> THEN {Relation(task.name, 1, TaskEndID, "")}
    ELSE {Relation(task.name, k, ResolveFlowDirective(task.cases[k].then, names),
                   task.cases[k].cond) : k \in DOMAIN task.cases}

RelationsFrom(wf, i) ==
    CASE wf.tasks[i].type = "switch" -> BuildSwitchTaskRelation(wf.tasks[i], TaskNames(wf))
      [] wf.tasks[i].type = "fork"   -> BuildForkTaskRelation(wf, i)
      [] OTHER -> {Relation(wf.tasks[i].name, 1, ResolveNextTaskID(wf, i), "")}

BuildTaskRelation(wf) ==
    (IF wf.start \in TaskNames(wf) THEN {Relation(TaskStartID, 1, wf.start, "")} ELSE {})
      \cup UNION {RelationsFrom(wf, i) : i \in DOMAIN wf.tasks}

(* What create stores.  The text of a task (TaskDefinition) is not part of *)
(* it: the field is tagged gorm:"-".                                       *)
Stored(doc) ==
    LET wf    == ParseDocument(doc)
        at(n) == wf.tasks[CHOOSE i \in DOMAIN wf.tasks : wf.tasks[i].name = n]
    IN  [tasks     |-> TaskNames(wf),
         type      |-> [n \in TaskNames(wf) |-> NormalizeTaskType(at(n).type)],
         action    |-> [n \in TaskNames(wf) |-> BuildTaskAction(at(n))],
         relations |-> BuildTaskRelation(wf)]
=============================================================================
