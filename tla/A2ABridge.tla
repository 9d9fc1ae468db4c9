----------------------------- MODULE A2ABridge -----------------------------
(***************************************************************************)
(* internal/bridge: a workflow task calls an agent (A2AExecutor), and a    *)
(* workflow is offered as an agent (WorkflowAgent).                        *)
(*                                                                         *)
(* A client submits work to one agent.  It is an executor inside the       *)
(* retry.Do of a scheduler, which sends no task id, or a foreign A2A       *)
(* client that may put any id it likes into its request, also one that     *)
(* others use.  The agent is a foreign one, whose answers follow what its  *)
(* tasks have become, or the WorkflowAgent, whose tasks are workflow       *)
(* instances and which keeps the map from task ids to them in memory.      *)
(*                                                                         *)
(* A task id is one of the requests' own or the number of the work it      *)
(* stands for, in place of the uuid the handler draws.                     *)
(***************************************************************************)
EXTENDS Integers, Sequences, FiniteSets

CONSTANTS
    Executor,       \* workflow tasks that call the agent
    Ending,         \* those of them that end their workflow
    Foreign,        \* other clients of the WorkflowAgent
    ReqId,          \* the ids they make up for their requests
    Textless,       \* clients whose messages may be without text
    NoId,           \* no task id: none in the request, none answered yet
    RetryAttempts,  \* runs of a task by retry.Do (5 in the code)
    MaxRetry,       \* polls of one attempt (30 in the code)
    MaxForeign,     \* bound on the work the foreign clients submit
    MaxFaults       \* bound on injected failures

Client == Executor \cup Foreign

ASSUME BridgeAssumption ==
    /\ Executor \cap Foreign = {}
    /\ NoId \notin ReqId \cup Nat
    /\ ReqId \cap Nat = {}
    /\ Textless \subseteq Client /\ Ending \subseteq Executor
    /\ RetryAttempts \in Nat \ {0} /\ MaxRetry \in Nat \ {0}
    /\ MaxForeign \in Nat /\ MaxFaults \in Nat

VARIABLES
    agent,     \* which agent answers: "foreign" or "workflow"
    work,      \* what the agent was given: by whom, on which input, its state
    tasks,     \* WorkflowAgent.taskToWorkflow
    handlers,  \* handleSubmitTask invocations that are under way
    call,      \* the call each client is in
    told,      \* task ids clients were told, with the work they stand for
    lost,      \* the agent was restarted and its map is gone
    faults

vars == << agent, work, tasks, handlers, call, told, lost, faults >>

(* t.input of the executor: what its task was given, or the output of an   *)
(* earlier answer.                                                         *)
Inputs     == {"given", "output"}
TaskId     == ReqId \cup Nat
WorkSet    == [by : Client, id : TaskId \cup {NoId}, input : Inputs,
               state : {"working", "completed", "failed"}]
HandlerSet == [by : Client, id : TaskId \cup {NoId}, no : Nat, input : Inputs, work : Nat,
               pc : {"start", "mapId", "reply"}, live : BOOLEAN]
CallSet    == [pc : {"idle", "send", "wait", "poll", "done", "ended", "failed"},
               attempt : Nat, polls : Nat, task : TaskId \cup {NoId}, input : Inputs]

Idle == [pc |-> "idle", attempt |-> 0, polls |-> 0, task |-> NoId, input |-> "given"]

Init ==
    /\ agent \in {"foreign", "workflow"}
    /\ work = << >>
    /\ tasks = [k \in {} |-> 0]
    /\ handlers = {}
    /\ call = [c \in Client |-> Idle]
    /\ told = {}
    /\ lost = FALSE
    /\ faults = 0

Fault   == faults < MaxFaults /\ faults' = faults + 1
NoFault == UNCHANGED faults

-----------------------------------------------------------------------------
(* What becomes of a call.                                                 *)

(* Mutation: one attempt more than retry.Attempts allows. *)
ErrsOnceMore(c, k) ==
    IF c \notin Executor THEN Idle
    ELSE IF k.attempt <= RetryAttempts
         THEN [Idle EXCEPT !.pc = "send", !.attempt = k.attempt + 1, !.input = k.input]
         ELSE [k EXCEPT !.pc = "failed"]

(* Run returns an error: retry.Do starts over or gives the task up.  What  *)
(* the agent was given stays with it.  A foreign client just stops.        *)
Errs(c, k) ==
    IF c \notin Executor THEN Idle
    ELSE IF k.attempt < RetryAttempts
         THEN [Idle EXCEPT !.pc = "send", !.attempt = k.attempt + 1, !.input = k.input]
         ELSE [k EXCEPT !.pc = "failed"]

(* Mutation: a poll that learns nothing is not counted. *)
PollsForever(c, k) == k

(* The poll told nothing: the next one, or "timed out after ... retries".  *)
PollsOn(c, k) ==
    IF k.polls + 1 < MaxRetry THEN [k EXCEPT !.polls = @ + 1] ELSE Errs(c, k)

(* Mutation: every answer that is not "failed" is taken for the result. *)
AnsweredEarly(c, k, state) ==
    IF state = "failed" THEN Errs(c, k) ELSE [k EXCEPT !.pc = "done"]

(* Mutation: what a failed task says becomes the input of the next run. *)
AnsweredKept(c, k, state) ==
    IF state = "completed" THEN [k EXCEPT !.pc = "done"]
    ELSE IF state = "failed" THEN Errs(c, [k EXCEPT !.input = "output"])
    ELSE PollsOn(c, k)

(* pollUntilComplete, on the status of an answer. *)
Answered(c, k, state) ==
    IF state = "completed" THEN [k EXCEPT !.pc = "done"]
    ELSE IF state = "failed" THEN Errs(c, k)
    ELSE PollsOn(c, k)

-----------------------------------------------------------------------------
(* SendTask.                                                               *)
Submitted == Len(work) + Cardinality({h \in handlers : h.pc = "start"})

Begin(c) ==
    /\ call[c].pc = "idle"
    /\ c \in Foreign => agent = "workflow" /\ Submitted < MaxForeign
    /\ call' = [call EXCEPT ![c] = [Idle EXCEPT !.pc = "send", !.attempt = 1]]
    /\ UNCHANGED << agent, work, tasks, handlers, told, lost, faults >>

(* The ids the request of c may have.  A foreign client can also use one   *)
(* that it, or another client, was told.                                   *)
Ids(c) == {NoId} \cup IF c \in Foreign THEN ReqId \cup {t[1] : t \in told} ELSE {}

Send(c) ==
    /\ call[c].pc = "send"
    /\ LET used == {h.no : h \in {g \in handlers : g.by = c /\ g.pc = "start"}}
           no   == CHOOSE n \in 0 .. Cardinality(used) : n \notin used
       IN  \E id \in Ids(c) :
             handlers' = handlers \cup
               {[by |-> c, id |-> id, no |-> no, input |-> call[c].input, work |-> 0,
                 pc |-> "start", live |-> TRUE]}
    /\ call' = [call EXCEPT ![c].pc = "wait"]
    /\ UNCHANGED << agent, work, tasks, told, lost, faults >>

(* handleSubmitTask finds no text in the message. *)
Refuses(c) == agent = "workflow" /\ c \in Textless

(* The request is refused or does not get through. *)
SendFails(c) ==
    /\ call[c].pc = "send"
    /\ \/ Refuses(c) /\ NoFault
       \/ Fault
    /\ call' = [call EXCEPT ![c] = Errs(c, @)]
    /\ UNCHANGED << agent, work, tasks, handlers, told, lost >>

(* The answers of the handlers of c are not awaited any more, and those    *)
(* that have only the answer left to write are as good as over.            *)
Orphaned(c) ==
    {h \in handlers : h.by # c} \cup
    {[h EXCEPT !.live = FALSE] : h \in {g \in handlers : g.by = c /\ g.pc # "reply"}}

(* The HTTP client waits 30 seconds; the handler goes on without it.       *)
GivesUp(c) ==
    /\ call[c].pc = "wait"
    /\ handlers' = Orphaned(c)
    /\ call' = [call EXCEPT ![c] = Errs(c, @)]
    /\ UNCHANGED << agent, work, tasks, told, lost, faults >>

-----------------------------------------------------------------------------
(* The agent.  A handler whose number of work is known needs no other.     *)
Replace(h, pc, w) ==
    handlers' = (handlers \ {h}) \cup
        IF pc = "reply" /\ ~ h.live THEN {}
        ELSE {[h EXCEPT !.pc = pc, !.work = w, !.no = 0]}

(* The request names its task, and the agent cares. *)
Named(h) == agent = "workflow" /\ h.id # NoId

Put(f, id, w) == [k \in DOMAIN f \cup {id} |-> IF k = id THEN w ELSE f[k]]

(* Mutation: the entry is made before the workflow is started. *)
MappedFirst(h) ==
    /\ h.pc = "start"
    /\ tasks' = Put(tasks, Len(work) + 1, Len(work) + 1)
    /\ Replace(h, IF Named(h) THEN "mapId" ELSE "reply", Len(work) + 1)
    /\ UNCHANGED << agent, work, call, told, lost, faults >>

(* engine.Start and the entry under the uuid of the handler, a key nobody  *)
(* knows before the answer.  A foreign agent takes the task in its own way.*)
StartWork(h) ==
    /\ h.pc = "start"
    /\ work' = Append(work, [by |-> h.by, id |-> h.id, input |-> h.input, state |-> "working"])
    /\ tasks' = IF agent = "workflow" THEN Put(tasks, Len(work) + 1, Len(work) + 1) ELSE tasks
    /\ Replace(h, IF Named(h) THEN "mapId" ELSE "reply", Len(work) + 1)
    /\ UNCHANGED << agent, call, told, lost, faults >>

(* The status 500, or a foreign agent's refusal. *)
StartFails(h) ==
    /\ h.pc = "start"
    /\ Fault
    /\ handlers' = handlers \ {h}
    /\ call' = IF h.live THEN [call EXCEPT ![h.by] = Errs(h.by, @)] ELSE call
    /\ UNCHANGED << agent, work, tasks, told, lost >>

(* Mutation: the id of the request is answered but not entered. *)
RequestIdNotMapped(h) ==
    /\ h.pc = "mapId"
    /\ Replace(h, "reply", h.work)
    /\ UNCHANGED << agent, work, tasks, call, told, lost, faults >>

(* The second entry, under the id of the request, whoever else used it;    *)
(* another handler of the same id may have been faster, or slower.         *)
MapRequestId(h) ==
    /\ h.pc = "mapId"
    /\ tasks' = Put(tasks, h.id, h.work)
    /\ Replace(h, "reply", h.work)
    /\ UNCHANGED << agent, work, call, told, lost, faults >>

AnswerId(h) == IF Named(h) THEN h.id ELSE h.work

(* What is said of work w: the WorkflowAgent always says "working". *)
StatusOf(w) == IF agent = "workflow" THEN "working" ELSE work[w].state

(* Execute, on the answer to SendTask: only "completed" is looked at, and  *)
(* anything else, "failed" too, is left to the polls.                      *)
Reply(h) ==
    /\ h.pc = "reply"
    /\ handlers' = handlers \ {h}
    /\ told' = told \cup {<< AnswerId(h), h.work >>}
    /\ call' = [call EXCEPT ![h.by] =
         IF h.by \in Foreign THEN Idle
         ELSE [@ EXCEPT !.task = AnswerId(h),
                 !.pc = IF StatusOf(h.work) = "completed" THEN "done" ELSE "poll"]]
    /\ UNCHANGED << agent, work, tasks, lost, faults >>

(* A foreign agent comes to an end with its work.  What becomes of a        *)
(* workflow instance is left to Scheduling: no answer here depends on it.  *)
WorkEnds(w) ==
    /\ agent = "foreign"
    /\ work[w].state = "working"
    /\ \E s \in {"completed", "failed"} : work' = [work EXCEPT ![w].state = s]
    /\ UNCHANGED << agent, tasks, handlers, call, told, lost, faults >>

-----------------------------------------------------------------------------
(* pollUntilComplete: one GET.  The WorkflowAgent says "working", or 404   *)
(* once its map is lost, and the client treats both alike.                 *)
Poll(c) ==
    /\ call[c].pc = "poll"
    /\ call' = [call EXCEPT ![c] =
         IF agent = "workflow" THEN PollsOn(c, @) ELSE Answered(c, @, StatusOf(@.task))]
    /\ UNCHANGED << agent, work, tasks, handlers, told, lost, faults >>

(* The GET fails and is passed over, or its answer carries an error. *)
PollFails(c) ==
    /\ call[c].pc = "poll"
    /\ Fault
    /\ \E k \in {PollsOn(c, call[c]), Errs(c, call[c])} : call' = [call EXCEPT ![c] = k]
    /\ UNCHANGED << agent, work, tasks, handlers, told, lost >>

(* runA2AAction keeps the output, unless it is empty, as the input of the  *)
(* task; Run goes on to end the workflow or is over.                       *)
Finish(c) ==
    /\ call[c].pc = "done"
    /\ call' = [call EXCEPT ![c].pc = "ended"]
    /\ UNCHANGED << agent, work, tasks, handlers, told, lost, faults >>

(* The update of the workflow instance fails, and Run is tried again: it   *)
(* calls the agent once more, on the output of the call that succeeded.    *)
FinishFails(c) ==
    /\ call[c].pc = "done"
    /\ c \in Ending
    /\ Fault
    /\ \E i \in {call[c].input, "output"} :
         call' = [call EXCEPT ![c] = Errs(c, [@ EXCEPT !.input = i])]
    /\ UNCHANGED << agent, work, tasks, handlers, told, lost >>

-----------------------------------------------------------------------------
(* The engine of an executor dies.  Its task is WAIT again and will be run *)
(* from the start.                                                         *)
CallerCrash(c) ==
    /\ c \in Executor
    /\ Fault
    /\ call[c].pc \in {"send", "wait", "poll", "done"}
    /\ call' = [call EXCEPT ![c] = Idle]
    /\ handlers' = Orphaned(c)
    /\ UNCHANGED << agent, work, tasks, told, lost >>

(* The process of the WorkflowAgent dies: the map was only in memory. *)
AgentCrash ==
    /\ agent = "workflow"
    /\ Fault
    /\ tasks' = [k \in {} |-> 0]
    /\ handlers' = {}
    /\ call' = [c \in Client |-> IF call[c].pc = "wait" THEN Errs(c, call[c]) ELSE call[c]]
    /\ lost' = TRUE
    /\ UNCHANGED << agent, work, told >>

-----------------------------------------------------------------------------
(* The steps a client takes by itself, by its own loops and timers. *)
ClientStep(c) == Begin(c) \/ Send(c) \/ SendFails(c) \/ GivesUp(c) \/ Poll(c) \/ Finish(c)

Next ==
    \/ \E c \in Client : ClientStep(c) \/ PollFails(c) \/ FinishFails(c) \/ CallerCrash(c)
    \/ \E h \in handlers :
         StartWork(h) \/ StartFails(h) \/ MapRequestId(h) \/ Reply(h)
    \/ \E w \in DOMAIN work : WorkEnds(w)
    \/ AgentCrash

Spec     == Init /\ [][Next]_vars
Fairness == \A c \in Client : WF_vars(ClientStep(c))
FairSpec == Spec /\ Fairness

-----------------------------------------------------------------------------
TypeOK ==
    /\ agent \in {"foreign", "workflow"}
    /\ work \in Seq(WorkSet)
    /\ DOMAIN tasks \subseteq TaskId /\ tasks \in [DOMAIN tasks -> DOMAIN work]
    /\ handlers \subseteq HandlerSet
    /\ call \in [Client -> CallSet]
    /\ told \subseteq TaskId \X (DOMAIN work)
    /\ lost \in BOOLEAN
    /\ faults \in 0 .. MaxFaults

(* The result an executor goes on with is that of work it submitted itself *)
(* and that the agent has completed, however many earlier attempts of it   *)
(* are still answered or still running (Execute, pollUntilComplete).       *)
ResultIsOwn ==
    \A c \in Executor : call[c].pc \in {"done", "ended"} =>
        /\ call[c].task \in DOMAIN work
        /\ work[call[c].task].by = c
        /\ work[call[c].task].state = "completed"

WorkOf(c) == {w \in DOMAIN work : work[w].by = c}

(* Timed-out polls and answers that come too late make retry.Do submit     *)
(* work again that the agent already has, but never beyond RetryAttempts   *)
(* times, and once more so often for each failure, a crash of the engine   *)
(* included: a crash makes retry.Do count from the start.                  *)
BoundedWork ==
    \A c \in Executor : Cardinality(WorkOf(c)) <= RetryAttempts * (1 + faults)

(* Only the failure to end the workflow after a result can make an         *)
(* executor submit the output of the agent to the agent again.             *)
FedBackIsExplained ==
    \A w \in DOMAIN work : work[w].input = "output" =>
        /\ work[w].by \in Ending
        /\ faults > 0
        /\ \E v \in 1 .. w - 1 : work[v].by = work[w].by /\ work[v].state = "completed"

(* The work task id k can stand for: the agent drew k for it, or its       *)
(* request came with k.                                                    *)
Meant(k) == {w \in DOMAIN work : w = k \/ work[w].id = k}

(* As long as the agent was not restarted, a task id a client was told is  *)
(* found by handleTaskStatus.  It leads to the work the client was told    *)
(* of, or else to work of another request that came with the same id: an   *)
(* id no other request used is never answered with somebody else's work.   *)
ToldIsKnown ==
    agent = "workflow" /\ ~ lost =>
        \A t \in told :
            /\ t[1] \in DOMAIN tasks
            /\ {tasks[t[1]], t[2]} \subseteq Meant(t[1])

(* A call ends, or dies with its engine, whatever the agent does: it may   *)
(* never answer, never finish, or always say "working".                    *)
CallEnds ==
    \A c \in Executor :
        call[c].pc \in {"send", "wait", "poll"} ~> call[c].pc \in {"ended", "failed", "idle"}
=============================================================================
