---------------------------- MODULE TokenProofs ----------------------------
(***************************************************************************)
(* Control of an instance is a single token: theorems about Scheduling     *)
(* with one engine and workflows without forks.                            *)
(***************************************************************************)
EXTENDS LifecycleProofs, FiniteSetTheorems

(* The steps that hand the instance on, or end it. *)
HandOps == {"publish", "complete"}

Handed(e) ==
    /\ sched[e].pc = "run"
    /\ \E j \in 1 .. Len(Steps(TaskOf(e))) : j < sched[e].step /\ OpAt(TaskOf(e), j) \in HandOps

(* Where the token of instance i can be: in a row that is still to be      *)
(* executed or whose execution has not handed it on, with the observer, or *)
(* in a call.                                                              *)
LiveRows(i) ==
    {r \in 1 .. Len(rows) : /\ rows[r].inst = i
                            /\ rows[r].status \notin Terminal
                            /\ ~ \E e \in Engine : sched[e].row = r /\ Handed(e)}

Observed(i) == {e \in Engine : \E m \in observer[e] : m.id = 0 /\ m.inst = i}

Called(i) == {k \in calls : k.msg.id = 0 /\ k.msg.inst = i}

AllEqual(S) == \A x, y \in S : x = y

Single(R, O, C) ==
    /\ AllEqual(R) /\ AllEqual(O) /\ AllEqual(C)
    /\ R = {} \/ O = {}
    /\ R = {} \/ C = {}
    /\ O = {} \/ C = {}

Token(i) ==
    /\ Single(LiveRows(i), Observed(i), Called(i))
    /\ instances[i] = "SUCCESS" => LiveRows(i) = {} /\ Observed(i) = {} /\ Called(i) = {}

TokenInv == faults = 0 => \A i \in 1 .. Len(instances) : Token(i)

(* A task that is no fork: a local task has at most one transition. *)
Unforked(t) == TaskType[t] \in LocalTypes => Len(Transitions[t]) <= 1

NoForks == \A r \in 1 .. Len(rows) : Unforked(rows[r].task)

(* The tasks that the started workflows can come to are in F, and none of  *)
(* them is a fork.                                                         *)
UnforkedFlow(F) ==
    /\ StartTask \subseteq F /\ F \subseteq Task
    /\ \A t \in F : /\ Unforked(t)
                    /\ \A j \in 1 .. Len(Steps(t)) : OpAt(t, j) = "publish" => Steps(t)[j].to \in F

InFlow(F) ==
    /\ \A r \in 1 .. Len(rows) : rows[r].task \in F
    /\ \A e \in Engine : \A m \in observer[e] : m.id = 0 => m.task \in F
    /\ \A k \in calls : k.msg.id = 0 => k.msg.task \in F

-----------------------------------------------------------------------------
(* No step leaves the flow. *)
LEMMA InFlowNext ==
    ASSUME NEW F, UnforkedFlow(F)
    PROVE  TypeOK /\ QueueInv /\ InFlow(F) /\ [Next]_vars => InFlow(F)'
<1> SUFFICES ASSUME TypeOK, QueueInv, InFlow(F), [Next]_vars PROVE InFlow(F)'
  OBVIOUS
<1>0. TypeOK' /\ QueueEffect /\ Len(rows) \in Nat
  BY TypeNext, NextEffect, EffectParts DEF TypeOK, StateTypes
<1>1. Grows
  BY <1>0, StepGrows
<1>2. ASSUME NEW r \in 1 .. Len(rows) PROVE rows'[r].task \in F
  BY <1>1 DEF Grows, SameTask, InFlow
<1>3. ASSUME NEW e \in Engine, NEW m \in observer[e], Inserts(e, m), NEW r \in 1 .. Len(rows')
      PROVE  rows'[r].task \in F
  <2>1. Len(rows') = Len(rows) + 1 /\ rows'[Len(rows) + 1].task = m.task /\ m.task \in F
    BY <1>3 DEF Inserts, InFlow
  <2>2. r \in 1 .. Len(rows) \/ r = Len(rows) + 1
    BY <1>0, <2>1
  <2> QED
    BY <1>2, <2>1, <2>2
<1>4. \A r \in 1 .. Len(rows') : rows'[r].task \in F
  BY <1>0, <1>2, <1>3, RowsBefore
<1>5. ASSUME NEW e \in Engine, NEW m, Publishes(e, m) PROVE m.task \in F
  <2>1. Running(e, "publish") /\ m.task = Steps(TaskOf(e))[sched[e].step].to
    BY <1>5 DEF Publishes, AtStep
  <2>2. sched[e].row # 0 /\ sched[e].pc = "run"
    BY <2>1 DEF Running, TypeOK, References, RowExists
  <2>3. PICK t \in F, n \in Nat : t = TaskOf(e) /\ n = sched[e].step /\ n # 0
    BY <2>2, TaskOfRow DEF InFlow, TaskOf
  <2>4. t \in Task /\ n <= Len(Steps(t)) /\ OpAt(t, n) = "publish"
    BY <2>1, <2>3 DEF Running, OpAt, UnforkedFlow
  <2>5. n \in 1 .. Len(Steps(t))
    BY <2>3, <2>4, StepsLength
  <2> QED
    BY <2>1, <2>3, <2>4, <2>5 DEF UnforkedFlow
<1>6. ASSUME NEW e \in Engine, NEW m \in Msg, CallEffects(e, m), m.id = 0 PROVE m.task \in F
  <2>1. ~ \E u \in 1 .. MaxUuids : Wakes(u, m)
    BY <1>6 DEF Wakes, SleepingRows, TypeOK, StateTypes
  <2> QED
    BY <1>6, <2>1 DEF CallEffects, Starts, UnforkedFlow
<1>7. \A e \in Engine : \A m \in observer'[e] : m.id = 0 => m.task \in F
  BY <1>0, <1>5, QueuedBefore DEF InFlow
<1>8. \A k \in calls' : k.msg.id = 0 => k.msg.task \in F
  BY <1>0, <1>6, QueuedBefore DEF InFlow
<1> QED
  BY <1>4, <1>7, <1>8 DEF InFlow

-----------------------------------------------------------------------------
(* A token that disappears, moves or is born stays single. *)
LEMMA SingleShrinks ==
    ASSUME NEW R, NEW O, NEW C, Single(R, O, C),
           NEW R1 \in SUBSET R, NEW O1 \in SUBSET O, NEW C1 \in SUBSET C
    PROVE  Single(R1, O1, C1)
BY DEF Single, AllEqual

LEMMA SingleToObserver ==
    ASSUME NEW R, NEW O, NEW C, Single(R, O, C), NEW r \in R, NEW e,
           NEW R1 \in SUBSET (R \ {r}), NEW O1 \in SUBSET (O \cup {e}), NEW C1 \in SUBSET C
    PROVE  Single(R1, O1, C1)
<1>1. O = {} /\ C = {} /\ R \ {r} = {}
  BY DEF Single, AllEqual
<1> QED
  BY <1>1 DEF Single, AllEqual

LEMMA SingleToRow ==
    ASSUME NEW R, NEW O, NEW C, Single(R, O, C), NEW e \in O, NEW n,
           NEW R1 \in SUBSET (R \cup {n}), NEW O1 \in SUBSET (O \ {e}), NEW C1 \in SUBSET C
    PROVE  Single(R1, O1, C1)
<1>1. R = {} /\ C = {} /\ O \ {e} = {}
  BY DEF Single, AllEqual
<1> QED
  BY <1>1 DEF Single, AllEqual

LEMMA SingleReceived ==
    ASSUME NEW R, NEW O, NEW C, Single(R, O, C), NEW k \in C, NEW e,
           NEW R1 \in SUBSET R, NEW O1 \in SUBSET (O \cup {e}), NEW C1 \in SUBSET (C \ {k})
    PROVE  Single(R1, O1, C1)
<1>1. R = {} /\ O = {} /\ C \ {k} = {}
  BY DEF Single, AllEqual
<1> QED
  BY <1>1 DEF Single, AllEqual

-----------------------------------------------------------------------------
(* After a run has handed its instance on, it neither does so again nor    *)
(* fails.                                                                  *)
LEMMA HandsOnOnce ==
    ASSUME SuccessorsAreAwaited, NEW t \in Task, Unforked(t),
           NEW i \in 1 .. Len(Steps(t)), NEW j \in 1 .. Len(Steps(t)), i < j, OpAt(t, i) \in HandOps
    PROVE  OpAt(t, j) \notin HandOps \cup {"error", "panic"}
<1> DEFINE s == Steps(t)
<1>0. Form(t, s) /\ Len(s) \in Nat /\ s[i].op \in HandOps
  BY StepsForm, StepsLength DEF OpAt
<1>1. CASE SwitchForm(t, s)
  <2>1. Len(s) = 1
    BY <1>1 DEF SwitchForm
  <2> QED
    BY <1>0, <2>1
<1>2. CASE LastForm(t, s)
  <2>1. Len(s) = 2 /\ s[1].op \notin HandOps
    BY <1>2 DEF LastForm, HandOps
  <2>2. i = 1
    BY <1>0, <2>1
  <2> QED
    BY <1>0, <2>1, <2>2
<1>3. CASE AsleepForm(t, s)
  <2>1. Len(s) = 2 /\ s[2].op = ActionOp(Action[t]) /\ s[1].to = Transitions[t][1].to /\ s[1].op = "publish"
    BY <1>3 DEF AsleepForm, Publish, Do
  <2>2. j = 2 /\ 1 \in 1 .. Len(s)
    BY <1>0, <2>1
  <2>3. s[1].to \in Task
    BY <2>1, <2>2, StepsGood DEF GoodSteps, GoodStep
  <2>4. ~ EndsHere(Transitions[t])
    BY <1>3, <2>1, <2>3, ExecutorAssumption DEF EndsHere, AsleepForm
  <2>5. ActionOp(Action[t]) \in {"event", "a2a"}
    BY <1>3, <2>4 DEF SuccessorsAreAwaited, AsleepForm
  <2> QED
    BY <2>1, <2>2, <2>5 DEF OpAt, HandOps
<1>4. CASE LocalForm(t, s)
  <2>1. Len(Transitions[t]) \in Nat
    BY ExecutorAssumption
  <2>2. Len(s) <= 2 /\ s[1].op \notin HandOps
    BY <1>0, <1>4, <2>1 DEF LocalForm, Unforked, HandOps
  <2>3. i = 1
    BY <1>0, <2>2
  <2> QED
    BY <1>0, <2>2, <2>3
<1>5. CASE NoForm(t, s)
  BY <1>0, <1>5 DEF NoForm
<1> QED
  BY <1>0, <1>1, <1>2, <1>3, <1>4, <1>5 DEF Form

(* A scheduler that is about to hand on or to fail has not handed on. *)
LEMMA NotYetHanded ==
    ASSUME NoForks, SuccessorsAreAwaited, TypeOK, NEW e \in Engine,
           NEW op \in HandOps \cup {"error", "panic"}, Running(e, op)
    PROVE  ~ Handed(e)
<1>1. sched[e].row # 0 /\ sched[e].pc = "run"
  BY DEF Running, TypeOK, References, RowExists
<1>2. PICK t \in Task, i \in Nat : t = TaskOf(e) /\ i = sched[e].step /\ i # 0 /\ Unforked(t)
  BY <1>1, TaskOfRow DEF NoForks, TaskOf
<1>3. i <= Len(Steps(t)) /\ OpAt(t, i) = op /\ Len(Steps(t)) \in Nat
  BY <1>2, StepsLength DEF Running, OpAt
<1>4. i \in 1 .. Len(Steps(t))
  BY <1>2, <1>3
<1>5. ASSUME NEW j \in 1 .. Len(Steps(t)), j < i, OpAt(t, j) \in HandOps PROVE FALSE
  BY <1>2, <1>3, <1>4, <1>5, HandsOnOnce
<1> QED
  BY <1>2, <1>5 DEF Handed

-----------------------------------------------------------------------------
LEMMA TokenShrinks ==
    ASSUME NEW i, Token(i), LiveRows(i)' \subseteq LiveRows(i), Observed(i)' \subseteq Observed(i),
           Called(i)' \subseteq Called(i), instances'[i] = instances[i]
    PROVE  Token(i)'
<1>1. Single(LiveRows(i)', Observed(i)', Called(i)')
  BY SingleShrinks DEF Token
<1> QED
  BY <1>1 DEF Token, Single, AllEqual

LEMMA HandedKeeps ==
    ASSUME TypeOK, Grows, NEW f \in Engine, sched'[f] = sched[f]
    PROVE  Handed(f) <=> Handed(f)'
<1>1. CASE sched[f].pc = "run"
  <2>1. sched[f].row # 0
    BY <1>1 DEF TypeOK, References, RowExists
  <2>2. TaskOf(f)' = TaskOf(f)
    BY <2>1, TaskOfKeeps
  <2> QED
    BY <2>2 DEF Handed
<1>2. CASE sched[f].pc # "run"
  BY <1>2 DEF Handed
<1> QED
  BY <1>1, <1>2

(* A row that has the token after a step had it before, unless it is new. *)
LEMMA LiveBefore ==
    ASSUME TypeOK, Grows, NEW i, NEW q \in 1 .. Len(rows), q \in LiveRows(i)',
           rows[q].status \notin Terminal,
           \A f \in Engine : Handed(f) /\ sched[f].row = q => Handed(f)' /\ sched'[f].row = q
    PROVE  q \in LiveRows(i)
<1>1. rows'[q].inst = i /\ ~ \E e \in Engine : sched'[e].row = q /\ Handed(e)'
  BY DEF LiveRows
<1>2. rows[q].inst = i
  BY <1>1 DEF Grows, SameTask
<1> QED
  BY <1>1, <1>2 DEF LiveRows

(* A step of one scheduler that changes no row. *)
LEMMA LiveWhileRunning ==
    ASSUME TypeOK, Grows, UNCHANGED rows, NEW e \in Engine, Others(e),
           Handed(e) => Handed(e)' /\ sched'[e].row = sched[e].row, NEW i
    PROVE  LiveRows(i)' \subseteq LiveRows(i)
<1> SUFFICES ASSUME NEW q \in LiveRows(i)' PROVE q \in LiveRows(i)
  OBVIOUS
<1>1. q \in 1 .. Len(rows) /\ rows[q].status \notin Terminal
  BY DEF LiveRows
<1>2. \A f \in Engine : f # e => sched'[f] = sched[f]
  BY DEF Others
<1>3. \A f \in Engine : f # e => (Handed(f) <=> Handed(f)')
  BY <1>2, HandedKeeps
<1> QED
  BY <1>1, <1>2, <1>3, LiveBefore

(* No step of a scheduler. *)
LEMMA LiveAtRest ==
    ASSUME TypeOK, Grows, UNCHANGED sched, NEW i, NEW q \in 1 .. Len(rows), q \in LiveRows(i)',
           rows[q].status \notin Terminal
    PROVE  q \in LiveRows(i)
<1>1. \A f \in Engine : Handed(f) <=> Handed(f)'
  BY HandedKeeps
<1> QED
  BY <1>1, LiveBefore

LEMMA LiveUnchanged ==
    ASSUME TypeOK, Grows, UNCHANGED << rows, sched >>, NEW i
    PROVE  LiveRows(i)' \subseteq LiveRows(i)
<1> SUFFICES ASSUME NEW q \in LiveRows(i)' PROVE q \in LiveRows(i)
  OBVIOUS
<1>1. q \in 1 .. Len(rows) /\ rows[q].status \notin Terminal
  BY DEF LiveRows
<1> QED
  BY <1>1, LiveAtRest

(* Messages that stay are no new token. *)
LEMMA MailUnchanged ==
    ASSUME UNCHANGED << observer, calls >>, NEW i
    PROVE  Observed(i)' \subseteq Observed(i) /\ Called(i)' \subseteq Called(i)
BY DEF Observed, Called

(* The row in execution has the token until it hands it on, and then not   *)
(* any more.                                                               *)
LEMMA HandsOn ==
    ASSUME NoForks, SuccessorsAreAwaited, NEW only, Engine = {only}, TypeOK, TypeOK', Grows, ClaimedIsWaiting,
           NEW e \in Engine, NEW op \in HandOps, Running(e, op), Became(e, "run", sched[e].row, sched'[e].uuid),
           sched'[e].step = sched[e].step + 1, UNCHANGED rows
    PROVE  /\ sched[e].row \in LiveRows(rows[sched[e].row].inst)
           /\ \A i : LiveRows(i)' \subseteq LiveRows(i) \ {sched[e].row}
<1>1. sched[e].row # 0 /\ sched[e].pc = "run"
  BY DEF Running, TypeOK, References, RowExists
<1>2. PICK r \in 1 .. Len(rows), t \in Task, n \in Nat :
        r = sched[e].row /\ t = TaskOf(e) /\ n = sched[e].step /\ n # 0
  BY <1>1, TaskOfRow
<1>3. ~ Handed(e)
  BY NotYetHanded
<1>4. Others(e) /\ sched'[e].row = r /\ sched'[e].pc = "run" /\ sched'[e].step = n + 1
  BY <1>2 DEF Became
<1>5. Handed(e)'
  <2>1. TaskOf(e)' = t
    BY <1>1, <1>2, <1>4, TaskOfKeeps
  <2>2. n <= Len(Steps(t)) /\ OpAt(t, n) = op /\ Len(Steps(t)) \in Nat
    BY <1>2, StepsLength DEF Running, OpAt
  <2>3. n \in 1 .. Len(Steps(t)) /\ n < n + 1
    BY <1>2, <2>2
  <2> QED
    BY <1>4, <2>1, <2>2, <2>3 DEF Handed
<1>6. rows[r].status = "WAIT"
  BY <1>1, <1>2 DEF ClaimedIsWaiting, Holds
<1>7. r \in LiveRows(rows[r].inst)
  BY <1>3, <1>6 DEF LiveRows, Terminal
<1>8. ASSUME NEW i PROVE LiveRows(i)' \subseteq LiveRows(i)
  BY <1>3, <1>4, LiveWhileRunning
<1>9. ASSUME NEW i PROVE r \notin LiveRows(i)'
  BY <1>4, <1>5 DEF LiveRows
<1> QED
  BY <1>2, <1>7, <1>8, <1>9

-----------------------------------------------------------------------------
(* One lemma per effect: the token of an instance stays single.            *)

(* Steps of a scheduler that neither hand on nor end a transaction. *)
LEMMA TokenRuns ==
    ASSUME NoForks, SuccessorsAreAwaited, TypeOK, Grows, faults' = 0, NEW e \in Engine,
           \/ Moves(e) \/ Retries(e) \/ Dies(e)
           \/ \E op \in {"skip", "event", "a2a"} : Advances(e, op),
           NEW i, Token(i)
    PROVE  Token(i)'
<1>1. UNCHANGED << rows, instances, calls, observer >> /\ Others(e)
  BY DEF Moves, Retries, Dies, Advances, Became
<1>2. Handed(e) => Handed(e)' /\ sched'[e].row = sched[e].row
  <2>1. CASE Moves(e)
    BY <2>1 DEF Moves, Handed
  <2>2. CASE Retries(e)
    <3>1. Running(e, "error")
      BY <2>2 DEF Retries
    <3> QED
      BY <3>1, NotYetHanded
  <2>3. CASE Dies(e)
    <3>1. Running(e, "panic")
      BY <2>3 DEF Dies
    <3> QED
      BY <3>1, NotYetHanded
  <2>4. ASSUME NEW op \in {"skip", "event", "a2a"}, Advances(e, op)
        PROVE  Handed(e) => Handed(e)' /\ sched'[e].row = sched[e].row
    <3>1. sched[e].pc = "run" /\ sched[e].row # 0
      BY <2>4 DEF Advances, Running, TypeOK, References, RowExists
    <3>2. sched'[e].pc = "run" /\ sched'[e].row = sched[e].row /\ sched'[e].step = sched[e].step + 1
      BY <2>4 DEF Advances, Became
    <3>3. TaskOf(e)' = TaskOf(e) /\ TaskOf(e) \in Task /\ sched[e].step \in Nat
      BY <3>1, <3>2, TaskOfKeeps, TaskOfRow
    <3>4. Len(Steps(TaskOf(e))) \in Nat
      BY <3>3, StepsLength
    <3> QED
      BY <3>2, <3>3, <3>4 DEF Handed
  <2> QED
    BY <2>1, <2>2, <2>3, <2>4
<1>3. LiveRows(i)' \subseteq LiveRows(i)
  BY <1>1, <1>2, LiveWhileRunning
<1>4. Observed(i)' \subseteq Observed(i) /\ Called(i)' \subseteq Called(i)
  BY <1>1, MailUnchanged
<1> QED
  BY <1>1, <1>3, <1>4, TokenShrinks

(* The end of the workflow. *)
LEMMA TokenCompletes ==
    ASSUME NoForks, SuccessorsAreAwaited, NEW only, Engine = {only}, TypeOK, TypeOK', Grows, ClaimedIsWaiting,
           NEW e \in Engine, Advances(e, "complete"), NEW i \in 1 .. Len(instances), Token(i)
    PROVE  Token(i)'
<1>1. /\ Running(e, "complete") /\ Became(e, "run", sched[e].row, sched'[e].uuid)
      /\ sched'[e].step = sched[e].step + 1 /\ UNCHANGED << rows, calls, observer >>
  BY DEF Advances, Became
<1>2. PICK r : r = sched[e].row
  OBVIOUS
<1>3. r \in LiveRows(rows[r].inst) /\ LiveRows(i)' \subseteq LiveRows(i) \ {r}
  BY <1>1, <1>2, HandsOn DEF HandOps
<1>4. Observed(i)' \subseteq Observed(i) /\ Called(i)' \subseteq Called(i)
  BY <1>1, MailUnchanged
<1>5. CASE i = rows[r].inst
  <2>1. Observed(i) = {} /\ Called(i) = {} /\ LiveRows(i) \ {r} = {}
    BY <1>3, <1>5 DEF Token, Single, AllEqual
  <2>2. LiveRows(i)' = {} /\ Observed(i)' = {} /\ Called(i)' = {}
    BY <1>3, <1>4, <2>1
  <2> QED
    BY <2>2 DEF Token, Single, AllEqual
<1>6. CASE i # rows[r].inst
  <2>1. instances'[i] = instances[i]
    BY <1>2, <1>6, CompletesInstance
  <2> QED
    BY <1>3, <1>4, <2>1, TokenShrinks
<1> QED
  BY <1>5, <1>6

(* The row in execution hands the token to the observer. *)
LEMMA TokenPublishes ==
    ASSUME NoForks, SuccessorsAreAwaited, NEW only, Engine = {only}, TypeOK, TypeOK', Grows, ClaimedIsWaiting,
           NEW e \in Engine, NEW m \in Msg, Publishes(e, m), NEW i \in 1 .. Len(instances), Token(i)
    PROVE  Token(i)'
<1>1. /\ Running(e, "publish") /\ Became(e, "run", sched[e].row, sched'[e].uuid)
      /\ sched'[e].step = sched[e].step + 1 /\ UNCHANGED << rows, instances, calls >>
      /\ observer' = [observer EXCEPT ![e] = {m}]
  BY DEF Publishes, Became
<1>2. PICK r : r = sched[e].row /\ m.inst = rows[r].inst
  BY DEF Publishes
<1>3. r \in LiveRows(rows[r].inst) /\ LiveRows(i)' \subseteq LiveRows(i) \ {r}
  BY <1>1, <1>2, HandsOn DEF HandOps
<1>4. Called(i)' \subseteq Called(i)
  BY <1>1 DEF Called
<1>5. Observed(i)' \subseteq Observed(i) \cup {e} /\ (i # m.inst => Observed(i)' \subseteq Observed(i))
  <2>1. \A f \in Engine : observer'[f] = IF f = e THEN {m} ELSE observer[f]
    BY <1>1 DEF TypeOK, StateTypes
  <2> QED
    BY <2>1 DEF Observed
<1>6. CASE i = rows[r].inst
  <2>1. Single(LiveRows(i)', Observed(i)', Called(i)')
    <3>1. Single(LiveRows(i), Observed(i), Called(i)) /\ r \in LiveRows(i)
      BY <1>3, <1>6 DEF Token
    <3>2. /\ LiveRows(i)' \in SUBSET (LiveRows(i) \ {r})
          /\ Observed(i)' \in SUBSET (Observed(i) \cup {e})
          /\ Called(i)' \in SUBSET Called(i)
      BY <1>3, <1>4, <1>5
    <3> QED
      BY ONLY <3>1, <3>2, SingleToObserver
  <2>2. instances'[i] # "SUCCESS"
    BY <1>1, <1>3, <1>6 DEF Token
  <2> QED
    BY <2>1, <2>2 DEF Token, Single, AllEqual
<1>7. CASE i # rows[r].inst
  BY <1>1, <1>2, <1>3, <1>4, <1>5, <1>7, TokenShrinks
<1> QED
  BY <1>6, <1>7

(* The end of a transaction. *)
LEMMA TokenCommits ==
    ASSUME TypeOK, Grows, NEW e \in Engine, NEW r \in 1 .. Len(rows), Commits(e, r), NEW i, Token(i)
    PROVE  Token(i)'
<1>1. /\ Others(e) /\ sched[e].row = r /\ Len(rows') = Len(rows)
      /\ rows'[r].status \in Terminal /\ \A q \in 1 .. Len(rows) : q # r => rows'[q] = rows[q]
      /\ UNCHANGED << instances, calls, observer >>
  BY DEF Commits, Terminal
<1>2. LiveRows(i)' \subseteq LiveRows(i)
  <2> SUFFICES ASSUME NEW q \in LiveRows(i)' PROVE q \in LiveRows(i)
    OBVIOUS
  <2>1. q \in 1 .. Len(rows) /\ rows'[q].status \notin Terminal
    BY <1>1 DEF LiveRows
  <2>2. q # r /\ rows[q].status \notin Terminal
    BY <1>1, <2>1
  <2>3. \A f \in Engine : f # e => sched'[f] = sched[f]
    BY <1>1 DEF Others
  <2>4. \A f \in Engine : f # e => (Handed(f) <=> Handed(f)')
    BY <2>3, HandedKeeps
  <2> QED
    BY <1>1, <2>1, <2>2, <2>3, <2>4, LiveBefore
<1>3. Observed(i)' \subseteq Observed(i) /\ Called(i)' \subseteq Called(i)
  BY <1>1, MailUnchanged
<1> QED
  BY <1>1, <1>2, <1>3, TokenShrinks

(* The observer lets go of its message. *)
LEMMA ObservedShrinks ==
    ASSUME TypeOK, NEW e \in Engine, observer' = [observer EXCEPT ![e] = {}], UNCHANGED calls, NEW i
    PROVE  Observed(i)' \subseteq Observed(i) \ {e} /\ Called(i)' \subseteq Called(i)
<1>1. \A f \in Engine : observer'[f] = IF f = e THEN {} ELSE observer[f]
  BY DEF TypeOK, StateTypes
<1> QED
  BY <1>1 DEF Observed, Called

LEMMA TokenUpdates ==
    ASSUME TypeOK, Grows, WakeOnceInv, NEW e \in Engine, NEW m \in observer[e], Updates(e, m), NEW i, Token(i)
    PROVE  Token(i)'
<1>1. /\ m.id \in 1 .. Len(rows) /\ Len(rows') = Len(rows) /\ UNCHANGED << instances, sched, calls >>
      /\ observer' = [observer EXCEPT ![e] = {}] /\ \A q \in 1 .. Len(rows) : q # m.id => rows'[q] = rows[q]
  BY DEF Updates
<1>2. rows[m.id].status \notin Terminal
  <2>1. OnItsWay(m) /\ m.id # 0
    BY <1>1 DEF WakeOnceInv
  <2> QED
    BY <2>1 DEF OnItsWay, Terminal
<1>3. LiveRows(i)' \subseteq LiveRows(i)
  <2> SUFFICES ASSUME NEW q \in LiveRows(i)' PROVE q \in LiveRows(i)
    OBVIOUS
  <2>1. q \in 1 .. Len(rows) /\ rows[q].status \notin Terminal
    BY <1>1, <1>2 DEF LiveRows
  <2> QED
    BY <1>1, <2>1, LiveAtRest
<1>4. Observed(i)' \subseteq Observed(i) /\ Called(i)' \subseteq Called(i)
  BY <1>1, ObservedShrinks
<1> QED
  BY <1>1, <1>3, <1>4, TokenShrinks

(* The observer hands the token to a new row. *)
LEMMA TokenInserts ==
    ASSUME TypeOK, Grows, QueueInv, NEW e \in Engine, NEW m \in observer[e], Inserts(e, m), NEW i, Token(i)
    PROVE  Token(i)'
<1>0. Len(rows) \in Nat
  BY DEF TypeOK, StateTypes
<1>1. PICK n \in Nat : n = Len(rows) + 1
  BY <1>0
<1>2. /\ m.id = 0 /\ Len(rows') = n /\ \A q \in 1 .. Len(rows) : rows'[q] = rows[q]
      /\ rows'[n].inst = m.inst /\ UNCHANGED << instances, sched, calls >>
      /\ observer' = [observer EXCEPT ![e] = {}]
  BY <1>1 DEF Inserts
<1>3. LiveRows(i)' \subseteq LiveRows(i) \cup {n} /\ (i # m.inst => n \notin LiveRows(i)')
  <2>1. ASSUME NEW q \in LiveRows(i)', q # n PROVE q \in LiveRows(i)
    <3>1. q \in 1 .. n /\ rows'[q].status \notin Terminal
      BY <1>2 DEF LiveRows
    <3>2. q \in 1 .. Len(rows)
      BY <1>0, <1>1, <2>1, <3>1
    <3> QED
      BY <1>2, <3>1, <3>2, LiveAtRest
  <2>2. n \in LiveRows(i)' => i = m.inst
    BY <1>2 DEF LiveRows
  <2> QED
    BY <2>1, <2>2
<1>4. Observed(i)' \subseteq Observed(i) \ {e} /\ Called(i)' \subseteq Called(i)
  BY <1>2, ObservedShrinks
<1>5. CASE i = m.inst
  <2>1. Single(LiveRows(i), Observed(i), Called(i)) /\ e \in Observed(i)
    BY <1>2, <1>5 DEF Token, Observed
  <2>2. /\ LiveRows(i)' \in SUBSET (LiveRows(i) \cup {n})
        /\ Observed(i)' \in SUBSET (Observed(i) \ {e})
        /\ Called(i)' \in SUBSET Called(i)
    BY <1>3, <1>4
  <2>3. Single(LiveRows(i)', Observed(i)', Called(i)')
    BY ONLY <2>1, <2>2, SingleToRow
  <2>4. instances'[i] # "SUCCESS"
    BY <1>2, <2>1 DEF Token
  <2> QED
    BY <2>3, <2>4 DEF Token, Single, AllEqual
<1>6. CASE i # m.inst
  <2>1. LiveRows(i)' \subseteq LiveRows(i) /\ Observed(i)' \subseteq Observed(i)
    BY <1>3, <1>4, <1>6
  <2> QED
    BY <1>2, <1>4, <2>1, TokenShrinks
<1> QED
  BY <1>5, <1>6

(* The call hands its message to the observer, the token with it when the  *)
(* message is a new task instance.                                         *)
LEMMA TokenReceives ==
    ASSUME TypeOK, Grows, NEW e \in Engine, NEW k \in calls, Receives(e, k), NEW i, Token(i)
    PROVE  Token(i)'
<1>1. /\ calls' = calls \ {k} /\ observer' = [observer EXCEPT ![e] = {k.msg}]
      /\ UNCHANGED << rows, instances, sched >>
  BY DEF Receives
<1>2. LiveRows(i)' \subseteq LiveRows(i)
  BY <1>1, LiveUnchanged
<1>3. Called(i)' \subseteq Called(i) \ {k}
  BY <1>1 DEF Called
<1>4. /\ Observed(i)' \subseteq Observed(i) \cup {e}
      /\ k \notin Called(i) => Observed(i)' \subseteq Observed(i)
  <2>1. \A f \in Engine : observer'[f] = IF f = e THEN {k.msg} ELSE observer[f]
    BY <1>1 DEF TypeOK, StateTypes
  <2> QED
    BY <2>1 DEF Observed, Called
<1>5. CASE k \in Called(i)
  <2>1. Single(LiveRows(i), Observed(i), Called(i))
    BY DEF Token
  <2>2. /\ LiveRows(i)' \in SUBSET LiveRows(i)
        /\ Observed(i)' \in SUBSET (Observed(i) \cup {e})
        /\ Called(i)' \in SUBSET (Called(i) \ {k})
    BY <1>2, <1>3, <1>4
  <2>3. Single(LiveRows(i)', Observed(i)', Called(i)')
    BY ONLY <1>5, <2>1, <2>2, SingleReceived
  <2>4. instances'[i] # "SUCCESS"
    BY <1>1, <1>5 DEF Token
  <2> QED
    BY <2>3, <2>4 DEF Token, Single, AllEqual
<1>6. CASE k \notin Called(i)
  BY <1>1, <1>2, <1>3, <1>4, <1>6, TokenShrinks
<1> QED
  BY <1>5, <1>6

(* A lost message, a callback, or nothing. *)
LEMMA TokenRests ==
    ASSUME TypeOK, Grows, NEW i, Token(i),
           \/ \E e \in Engine : Drops(e)
           \/ \E c \in Caller, e \in Engine, m \in Msg : Calls(c, e, m) /\ \E u \in 1 .. MaxUuids : Wakes(u, m)
           \/ \E u \in 1 .. MaxUuids : Misses(u)
           \/ UNCHANGED vars
    PROVE  Token(i)'
<1>1. UNCHANGED << rows, instances, sched >>
  BY DEF Drops, Calls, Wakes, Misses, vars
<1>2. LiveRows(i)' \subseteq LiveRows(i)
  BY <1>1, LiveUnchanged
<1>3. Observed(i)' \subseteq Observed(i) /\ Called(i)' \subseteq Called(i)
  <2>1. ASSUME NEW e \in Engine, Drops(e) PROVE Observed(i)' \subseteq Observed(i) /\ Called(i)' \subseteq Called(i)
    BY <2>1, ObservedShrinks DEF Drops
  <2>2. ASSUME NEW c \in Caller, NEW e \in Engine, NEW m \in Msg, Calls(c, e, m),
               NEW u \in 1 .. MaxUuids, Wakes(u, m)
        PROVE  Observed(i)' \subseteq Observed(i) /\ Called(i)' \subseteq Called(i)
    <3>1. PICK x : calls' = calls \cup {x} /\ x.msg = m /\ UNCHANGED observer
      <4>1. calls' = calls \cup {[by |-> c, at |-> e, msg |-> m]} /\ UNCHANGED observer
        BY <2>2 DEF Calls
      <4>2. [by |-> c, at |-> e, msg |-> m].msg = m
        OBVIOUS
      <4> QED
        BY <4>1, <4>2
    <3>2. m.id # 0
      <4>1. m.id \in DOMAIN rows
        BY <2>2 DEF Wakes, SleepingRows
      <4> QED
        BY <4>1 DEF TypeOK, StateTypes
    <3> QED
      BY <3>1, <3>2 DEF Observed, Called
  <2>3. CASE UNCHANGED << observer, calls >>
    BY <2>3, MailUnchanged
  <2>4. \A u \in 1 .. MaxUuids : Misses(u) => UNCHANGED << observer, calls >>
    BY DEF Misses
  <2> QED
    BY <2>1, <2>2, <2>3, <2>4 DEF vars
<1> QED
  BY <1>1, <1>2, <1>3, TokenShrinks

(* A new instance begins with one token, in the call of Start. *)
LEMMA TokenStarts ==
    ASSUME TypeOK, Grows, NEW c \in Caller, NEW e \in Engine, NEW m \in Msg, Calls(c, e, m), Starts(m),
           \A i \in 1 .. Len(instances) : Token(i), NEW i \in 1 .. Len(instances')
    PROVE  Token(i)'
<1>0. Len(instances) \in Nat
  BY DEF TypeOK, StateTypes
<1>1. PICK n \in Nat : n = Len(instances) + 1
  BY <1>0
<1>2. /\ Len(instances') = n /\ instances'[n] = "PROCESS" /\ m.inst = n
      /\ \A j \in 1 .. Len(instances) : instances'[j] = instances[j]
  BY <1>1, StartsInstance DEF Starts
<1>3. PICK x : calls' = calls \cup {x} /\ x.msg = m /\ UNCHANGED << observer, rows, sched >>
  <2>1. calls' = calls \cup {[by |-> c, at |-> e, msg |-> m]} /\ UNCHANGED << observer, rows, sched >>
    BY DEF Calls
  <2>2. [by |-> c, at |-> e, msg |-> m].msg = m
    OBVIOUS
  <2> QED
    BY <2>1, <2>2
<1>4. LiveRows(i)' \subseteq LiveRows(i)
  BY <1>3, LiveUnchanged
<1>5. Observed(i)' \subseteq Observed(i)
  BY <1>3 DEF Observed
<1>6. CASE i = n
  <2>1. n \notin 1 .. Len(instances)
    BY <1>0, <1>1
  <2>2. LiveRows(i) = {}
    BY <1>6, <2>1 DEF LiveRows, TypeOK, References
  <2>3. Observed(i) = {}
    BY <1>6, <2>1 DEF Observed, TypeOK, References, RefersTo
  <2>4. Called(i)' \subseteq {x}
    BY <1>3, <1>6, <2>1 DEF Called, TypeOK, References, RefersTo
  <2>5. LiveRows(i)' = {} /\ Observed(i)' = {} /\ AllEqual(Called(i)')
    BY <1>4, <1>5, <2>2, <2>3, <2>4 DEF AllEqual
  <2> QED
    BY <1>2, <1>6, <2>5 DEF Token, Single, AllEqual
<1>7. CASE i # n
  <2>1. i \in 1 .. Len(instances)
    BY <1>0, <1>1, <1>2, <1>7
  <2>2. Called(i)' \subseteq Called(i)
    BY <1>2, <1>3, <1>7 DEF Called
  <2> QED
    BY <1>2, <1>4, <1>5, <2>1, <2>2, TokenShrinks
<1> QED
  BY <1>6, <1>7

LEMMA TokenNext ==
    ASSUME NEW only, Engine = {only}, SuccessorsAreAwaited
    PROVE  TypeOK /\ QueueInv /\ WakeOnceInv /\ ClaimedIsWaiting /\ NoForks /\ TokenInv /\ [Next]_vars
              => TokenInv'
<1> SUFFICES ASSUME NoForks, TypeOK, QueueInv, WakeOnceInv, ClaimedIsWaiting, TokenInv, [Next]_vars, faults' = 0,
                    NEW i \in 1 .. Len(instances')
             PROVE  Token(i)'
  BY DEF TokenInv
<1>1. TypeOK' /\ (Effect \/ UNCHANGED vars)
  BY TypeNext, NextEffect
<1>2. Grows /\ InstanceEffect
  BY <1>1, EffectParts, EffectInstances, StepGrows
<1>3. \A j \in 1 .. Len(instances) : Token(j)
  BY <1>1, EffectFaults DEF TokenInv
<1>4. ASSUME NEW e \in Engine, NEW c \in Caller, NEW m \in Msg, Calls(c, e, m), Starts(m) PROVE Token(i)'
  BY <1>2, <1>3, <1>4, TokenStarts
<1>5. CASE ~ \E e \in Engine, c \in Caller, m \in Msg : Calls(c, e, m) /\ Starts(m)
  <2>1. Len(instances') = Len(instances)
    BY <1>2, <1>5, CompletesInstance DEF InstanceEffect
  <2>2. i \in 1 .. Len(instances) /\ Token(i)
    BY <1>3, <2>1
  <2>3. CASE UNCHANGED vars
    BY <1>2, <2>2, <2>3, TokenRests
  <2>4. ASSUME NEW e \in Engine, Moves(e) PROVE Token(i)'
    BY <1>2, <2>2, <2>4, TokenRuns
  <2>5. ASSUME NEW e \in Engine, ExecuteOf(e) PROVE Token(i)'
    <3>1. CASE Retries(e) \/ Dies(e) \/ \E op \in {"skip", "event", "a2a"} : Advances(e, op)
      BY <1>2, <2>2, <3>1, TokenRuns
    <3>2. CASE Advances(e, "complete")
      BY <1>1, <1>2, <2>2, <3>2, TokenCompletes
    <3>3. ASSUME NEW m \in Msg, Publishes(e, m) PROVE Token(i)'
      BY <1>1, <1>2, <2>2, <3>3, TokenPublishes
    <3>4. ASSUME NEW r \in 1 .. Len(rows), Commits(e, r) PROVE Token(i)'
      BY <1>2, <2>2, <3>4, TokenCommits
    <3>5. ~ Abandons(e)
      BY DEF Abandons
    <3> QED
      BY <2>5, <3>1, <3>2, <3>3, <3>4, <3>5 DEF ExecuteOf
  <2>6. ASSUME NEW e \in Engine, ObserveOf(e) PROVE Token(i)'
    <3>1. ASSUME NEW k \in calls, Receives(e, k) PROVE Token(i)'
      BY <1>2, <2>2, <3>1, TokenReceives
    <3>2. ASSUME NEW m \in observer[e], Inserts(e, m) PROVE Token(i)'
      BY <1>2, <2>2, <3>2, TokenInserts
    <3>3. ASSUME NEW m \in observer[e], Updates(e, m) PROVE Token(i)'
      BY <1>2, <2>2, <3>3, TokenUpdates
    <3>4. CASE Drops(e)
      BY <1>2, <2>2, <3>4, TokenRests
    <3> QED
      BY <2>6, <3>1, <3>2, <3>3, <3>4 DEF ObserveOf
  <2>7. \A e \in Engine : ~ Restarts(e)
    BY DEF Restarts
  <2>8. ASSUME NEW e \in Engine, NEW c \in Caller, CallOf(c, e) PROVE Token(i)'
    BY <1>2, <1>5, <2>2, <2>8, TokenRests DEF CallOf
  <2> QED
    BY <1>1, <2>3, <2>4, <2>5, <2>6, <2>7, <2>8 DEF Effect
<1> QED
  BY <1>4, <1>5

-----------------------------------------------------------------------------
(* What is still to be run has the token. *)
LEMMA PendingIsLive ==
    ASSUME TypeOK, NEW i
    PROVE  PendingRows(i) \subseteq LiveRows(i) /\ InFlight(i) = Observed(i) \cup Called(i)
<1>1. \A e \in Engine : Handed(e) => Holds(e, sched[e].row)
  BY DEF Handed, Holds, TypeOK, References, RowExists
<1>2. PendingRows(i) \subseteq LiveRows(i)
  BY <1>1 DEF PendingRows, LiveRows, Locked, TypeOK, StateTypes
<1> QED
  BY <1>2 DEF InFlight, Observed, Called

(* The cardinality of a set without two elements. *)
LEMMA AtMostOne ==
    ASSUME NEW S, AllEqual(S)
    PROVE  Cardinality(S) \in {0, 1} /\ (S = {} => Cardinality(S) = 0)
<1>1. CASE S = {}
  BY <1>1, FS_EmptySet
<1>2. ASSUME NEW x \in S PROVE Cardinality(S) = 1
  <2>1. S = {x}
    BY DEF AllEqual
  <2> QED
    BY <2>1, FS_Singleton
<1> QED
  BY <1>1, <1>2

LEMMA TokenInvariant ==
    ASSUME NEW only, Engine = {only}, Callbacks <= 1, NEW F, UnforkedFlow(F), SuccessorsAreAwaited
    PROVE  Spec => [](TypeOK /\ TokenInv)
<1> DEFINE Inv == TypeOK /\ QueueInv /\ WakeOnceInv /\ ClaimedIsWaiting /\ InFlow(F) /\ TokenInv
<1>1. Init => Inv
  <2>1. Init => ClaimedIsWaiting /\ InFlow(F) /\ TokenInv
    BY DEF Init, ClaimedIsWaiting, InFlow, TokenInv
  <2> QED
    BY <2>1, TypeInit, QueueInit, WakeOnceInit
<1>2. Inv /\ [Next]_vars => Inv'
  <2>1. QueueInv => WakeUps
    BY DEF QueueInv, GoodMessages, GoodMessage, WakeUps, WakesUp
  <2>2. Inv /\ [Next]_vars => ClaimedIsWaiting'
    BY <2>1, ClaimedNext
  <2>3. Inv => NoForks
    BY DEF InFlow, UnforkedFlow, NoForks
  <2>4. Inv /\ [Next]_vars => TokenInv'
    BY <2>3, TokenNext
  <2> QED
    BY <2>2, <2>4, TypeNext, QueueNext, WakeOnceNext, InFlowNext
<1> QED
  BY <1>1, <1>2, PTL DEF Spec

(* OneToken for one engine, services that answer an event at most once and *)
(* workflows without forks, however many instances run: until something    *)
(* fails, each instance is in one place, a row that is still to be run or  *)
(* a message on its way to become one.  Retries after an error of the task *)
(* itself and panics of the scheduler are included.                        *)
THEOREM ControlIsOneToken ==
    ASSUME NEW only, Engine = {only}, Callbacks <= 1, NEW F, UnforkedFlow(F), SuccessorsAreAwaited
    PROVE  Spec => []OneToken
<1>1. TypeOK /\ TokenInv => OneToken
  <2> SUFFICES ASSUME TypeOK, TokenInv, faults = 0, NEW i \in DOMAIN instances
               PROVE  Cardinality(PendingRows(i)) + Cardinality(InFlight(i)) <= 1
    BY DEF OneToken
  <2>1. i \in 1 .. Len(instances)
    BY DEF TypeOK, StateTypes
  <2>2. Single(LiveRows(i), Observed(i), Called(i))
    BY <2>1 DEF TokenInv, Token
  <2>3. PendingRows(i) \subseteq LiveRows(i) /\ InFlight(i) = Observed(i) \cup Called(i)
    BY PendingIsLive
  <2>4. AllEqual(PendingRows(i)) /\ AllEqual(InFlight(i)) /\ (PendingRows(i) = {} \/ InFlight(i) = {})
    BY <2>2, <2>3 DEF Single, AllEqual
  <2>5. /\ Cardinality(PendingRows(i)) \in {0, 1} /\ (PendingRows(i) = {} => Cardinality(PendingRows(i)) = 0)
        /\ Cardinality(InFlight(i)) \in {0, 1} /\ (InFlight(i) = {} => Cardinality(InFlight(i)) = 0)
    BY <2>4, AtMostOne
  <2> QED
    BY <2>4, <2>5
<1> QED
  BY <1>1, TokenInvariant, PTL

(* CompletedIsOver under the same conditions: the task that marks its      *)
(* instance SUCCESS had the only token, so no other task of the instance   *)
(* is still to be run.                                                     *)
THEOREM CompletionIsLast ==
    ASSUME NEW only, Engine = {only}, Callbacks <= 1, NEW F, UnforkedFlow(F), SuccessorsAreAwaited
    PROVE  Spec => []CompletedIsOver
<1>1. TypeOK /\ TokenInv => CompletedIsOver
  <2> SUFFICES ASSUME TypeOK, TokenInv, faults = 0, NEW i \in DOMAIN instances, instances[i] = "SUCCESS"
               PROVE  PendingRows(i) = {} /\ InFlight(i) = {}
    BY DEF CompletedIsOver
  <2>1. i \in 1 .. Len(instances)
    BY DEF TypeOK, StateTypes
  <2>2. LiveRows(i) = {} /\ Observed(i) = {} /\ Called(i) = {}
    BY <2>1 DEF TokenInv, Token
  <2> QED
    BY <2>2, PendingIsLive
<1> QED
  BY <1>1, TokenInvariant, PTL
=============================================================================
