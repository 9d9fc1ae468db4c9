----------------------------- MODULE GraphWalk -----------------------------
(***************************************************************************)
(* What becomes of a workflow text: it is saved (TaskGraph), an instance   *)
(* of it is started, and its tasks are run one at a time with the          *)
(* executors of TaskExecutors, until none is left.  Concurrency, sleeping  *)
(* and failures of the environment are the subject of Scheduling; here a   *)
(* task is run in one step and every published task instance gets its      *)
(* turn, in any order.                                                     *)
(***************************************************************************)
EXTENDS TaskGraph, Bags, SequencesExt

CONSTANTS
    Documents,  \* workflow texts
    MaxRuns     \* bound: task executions of an instance

Cases == [cond : STRING, then : STRING]

Operations == [type : StoredTypes \cup {"", "asyncapi", "http", "openapi", "grpc", "a2a", "agent"},
               name : {"", "short", "a2a", "agent:", "other"}]

Items == [name : STRING, keys : SUBSET STRING, call : Operations,
          then : STRING \cup {Absent}, cases : Seq(Cases), parent : Nat, part : {"subs", "catch"}]

States == [name : STRING, type : STRING, actions : Seq(Operations),
           transition : STRING, end : BOOLEAN, cases : Seq(Cases)]

(* The ids of stored tasks are uuids, never the two reserved ones.         *)
ASSUME GraphAssumption ==
    /\ MaxRuns \in Nat
    /\ TaskStartID # TaskEndID
    /\ \A d \in Documents :
         /\ \/ d.kind = "v1" /\ d.items \in Seq(Items)
            \/ d.kind = "legacy" /\ d.items \in Seq(States)
         /\ \A i \in DOMAIN d.items :
              /\ d.items[i].name \notin {TaskStartID, TaskEndID}
              /\ d.kind = "v1" => d.items[i].parent < i

(* Nothing is stored. *)
NoGraph == [tasks |-> {}, type |-> << >>, action |-> << >>, relations |-> {}]

VARIABLES
    doc,      \* the text that was submitted
    graph,    \* what is stored of it
    pending,  \* bag of the tasks of the task instances to be run
    ran,      \* the tasks that were run
    runs,     \* number of task executions
    failed,   \* a task instance failed or panicked (the instance is not told)
    status    \* of the workflow instance, and before it exists

vars == << doc, graph, pending, ran, runs, failed, status >>

Init ==
    /\ doc \in Documents
    /\ graph = NoGraph
    /\ pending = EmptyBag
    /\ ran = {}
    /\ runs = 0
    /\ failed = FALSE
    /\ status = "submitted"

(* dal.Save of a text that does not replace another workflow. *)
Save ==
    /\ status = "submitted"
    /\ \/ /\ Accepted(doc)
          /\ graph' = Stored(doc)
          /\ status' = "saved"
       \/ /\ ~ Accepted(doc)
          /\ status' = "rejected"
          /\ UNCHANGED graph
    /\ UNCHANGED << doc, pending, ran, runs, failed >>

(* The relation rows of a task.  They are inserted by concurrent           *)
(* goroutines and selected without an ORDER BY: no order can be relied on. *)
RelationsOf(t) == {r \in graph.relations : r.from = t}

(* SelectStartTask and Engine.Start: ErrWorkflowNotExists without a START  *)
(* relation.                                                               *)
Start ==
    /\ status = "saved"
    /\ \/ \E r \in RelationsOf(TaskStartID) :
            /\ pending' = SetToBag({r.to})
            /\ status' = "PROCESS"
       \/ /\ RelationsOf(TaskStartID) = {}
          /\ status' = "not exists"
          /\ UNCHANGED pending
    /\ UNCHANGED << doc, graph, ran, runs, failed >>

-----------------------------------------------------------------------------
(* The executors, for one outcome of the conditions on the current input.  *)
Conditions == {r.cond : r \in graph.relations} \ {""}

Outcomes == [Conditions -> {"true", "false", "error"}]

Evaluated(rel, out) ==
    [i \in DOMAIN rel |->
        [to |-> rel[i].to, cond |-> IF rel[i].cond = "" THEN "" ELSE out[rel[i].cond]]]

(* The task instance that SelectTaskInstance completed, for a task whose   *)
(* relations came back as rel.                                             *)
Executor(t, rel, out) == INSTANCE TaskExecutors
                           WITH Task <- graph.tasks,
                                TaskType <- graph.type,
                                Action <- graph.action,
                                Transitions <- [u \in {t} |-> Evaluated(rel, out)]

(* A run whose steps contain an error or a panic does not get past it.     *)
(* An error is always the first step, so its retries repeat nothing; after *)
(* a panic the task instance would be run again by the next engine, to the *)
(* same effect.                                                            *)
Reached(steps, ops) ==
    {i \in DOMAIN steps :
        /\ steps[i].op \in ops
        /\ \A j \in DOMAIN steps : j < i => steps[j].op \notin {"error", "panic"}}

Has(steps, ops) == Reached(steps, ops) # {}

Published(steps) ==
    LET pubs == Reached(steps, {"publish"})
    IN  [u \in {steps[i].to : i \in pubs} |-> Cardinality({i \in pubs : steps[i].to = u})]

Run(t) ==
    /\ BagIn(t, pending)
    /\ runs < MaxRuns
    /\ \E out \in Outcomes, rel \in SetToSeqs(RelationsOf(t)) :
         LET steps == Executor(t, rel, out)!Steps(t) IN
         /\ pending' = (pending (-) SetToBag({t})) (+) Published(steps)
         /\ status' = IF Has(steps, {"complete"}) THEN "SUCCESS" ELSE status
         /\ failed' = (failed \/ Has(steps, {"error", "panic"}))
    /\ ran' = ran \cup {t}
    /\ runs' = runs + 1
    /\ UNCHANGED << doc, graph >>

Next ==
    \/ Save
    \/ Start
    \/ \E t \in BagToSet(pending) : Run(t)

Spec == Init /\ [][Next]_vars

-----------------------------------------------------------------------------
(* PROPERTIES *)

(* The state is well formed: a task instance is only ever created for a    *)
(* stored task, whatever the text says.                                    *)
TypeOK ==
    /\ status \in {"submitted", "saved", "rejected", "not exists", "PROCESS", "SUCCESS"}
    /\ failed \in BOOLEAN
    /\ ran \cup BagToSet(pending) \subseteq graph.tasks
    /\ runs \in 0 .. MaxRuns

(* No accepted text leaves an instance in PROCESS with nothing to run: the *)
(* executors of event and switch tasks return without completing the       *)
(* instance when a task has no relation, so every task must have one.      *)
NoSilentEnd == pending = EmptyBag => status # "PROCESS" \/ failed

(* The tasks that were run, of the given types, and that name a task in    *)
(* their `then'.                                                           *)
Jumps(types) ==
    LET tasks == ParseDocument(doc).tasks IN
    {i \in DOMAIN tasks : /\ tasks[i].name \in ran
                          /\ NormalizeTaskType(tasks[i].type) \in types
                          /\ tasks[i].then \notin Directives \cup {""}}

JumpTypes ==
    {"operation", "event", "set", "do", "for", "try", "wait", "run", "emit", "listen"}

Ended == status = "SUCCESS" /\ pending = EmptyBag /\ ~ failed

(* `then' jumps to the named task: when an instance has come to its end,   *)
(* the target of every task it ran has been run as well, also for a task   *)
(* with nested tasks.  (The target of a fork is not stored at all.)        *)
JumpsTaken ==
    Ended => \A i \in Jumps(JumpTypes) : ParseDocument(doc).tasks[i].then \in ran

(* The forks that were run. *)
Forks ==
    LET tasks == ParseDocument(doc).tasks IN
    {i \in DOMAIN tasks : tasks[i].name \in ran /\ tasks[i].type = "fork"}

(* No branch of a fork is lost between the text and the engine: when an    *)
(* instance has come to its end, every branch that the parser kept of      *)
(* every fork it ran has been run, in whatever order the relation rows     *)
(* were read and although the first branch that ends marks the instance    *)
(* SUCCESS.                                                                *)
BranchesRun ==
    Ended => \A i \in Forks : \A j \in Children(ParseDocument(doc), i) :
                ParseDocument(doc).tasks[j].name \in ran

(* What is stored of an accepted text is what the executors assume of a    *)
(* definition, in whatever order its rows are read and whatever its        *)
(* conditions give: a type that task.New dispatches, relations that lead   *)
(* to stored tasks or to the end, and at least one of them, without which  *)
(* event and switch tasks would neither go on nor complete the instance.   *)
StoredIsExecutable ==
    status \notin {"submitted", "rejected"} =>
        \A t \in graph.tasks, out \in Outcomes : \A rel \in SetToSeqs(RelationsOf(t)) :
            /\ graph.type[t] \in Executor(t, rel, out)!Types
            /\ graph.action[t] \in Executor(t, rel, out)!Actions
            /\ Evaluated(rel, out) \in Seq(Executor(t, rel, out)!Relations) \ {<< >>}
=============================================================================
