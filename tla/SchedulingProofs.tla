-------------------------- MODULE SchedulingProofs --------------------------
(***************************************************************************)
(* Theorems about Scheduling, for every set of engines and RPC goroutines, *)
(* every stored workflow and every bound.                                  *)
(***************************************************************************)
EXTENDS Scheduling, SequenceTheorems, WellFoundedInduction, TLAPS

-----------------------------------------------------------------------------
(* The steps of every executor are well typed, and what it publishes is a  *)
(* task: END is never published (publishNextTasks, publishOrComplete).     *)

(* A nonempty set of naturals has a least element. *)
LEMMA LeastNat ==
    ASSUME NEW T \in SUBSET Nat, T # {}
    PROVE  \E x \in T : \A y \in T : x <= y
<1>1. \E x \in T : \A y \in T : ~ (<< y, x >> \in OpToRel(<, Nat))
  BY NatLessThanWellFounded, WFMin
<1>2. PICK x \in T : \A y \in T : ~ (<< y, x >> \in OpToRel(<, Nat))
  BY <1>1
<1>3. ASSUME NEW y \in T PROVE x <= y
  <2>1. << y, x >> \in Nat \X Nat
    OBVIOUS
  <2>2. ~ (y < x)
    BY <1>2, <2>1 DEF OpToRel
  <2> QED
    BY <2>2
<1> QED
  BY <1>3

(* A nonempty set of naturals with a bound has a greatest element. *)
LEMMA GreatestNat ==
    ASSUME NEW n \in Nat, NEW T \in SUBSET (0 .. n), T # {}
    PROVE  \E x \in T : \A y \in T : x >= y
<1> DEFINE D == {d \in Nat : n - d \in T}
<1>1. D \in SUBSET Nat /\ D # {}
  <2>1. PICK x \in T : TRUE
    OBVIOUS
  <2>2. n - x \in Nat /\ n - (n - x) = x
    OBVIOUS
  <2> QED
    BY <2>2
<1>2. PICK d \in D : \A c \in D : d <= c
  BY <1>1, LeastNat
<1>3. ASSUME NEW y \in T PROVE n - d >= y
  <2>1. n - y \in Nat /\ n - (n - y) = y
    OBVIOUS
  <2>2. n - y \in D
    BY <2>1
  <2> QED
    BY <1>2, <2>2
<1> QED
  BY <1>3

(* Indices of a sequence are natural numbers up to its length. *)
LEMMA IntervalFromZero ==
    ASSUME NEW n \in Nat
    PROVE  1 .. n \subseteq 0 .. n
OBVIOUS

(* A step that is well formed. *)
GoodStep(s) == s \in StepSet /\ (s.op = "publish" => s.to \in Task)

(* A step other than a publish is well formed. *)
LEMMA DoGood ==
    ASSUME NEW op \in Ops \ {"publish"}
    PROVE  GoodStep(Do(op))
BY DEF GoodStep, Do, StepSet, Ops

(* Publishing a task is a well formed step. *)
LEMMA PublishGood ==
    ASSUME NEW to \in Task, NEW status \in {"SLEEP", "WAIT"}
    PROVE  GoodStep(Publish(to, status))
BY DEF GoodStep, Publish, StepSet, Ops

(* publishOrComplete never publishes END. *)
LEMMA PublishOrCompleteGood ==
    ASSUME NEW to \in Task \cup {TaskEndID}
    PROVE  GoodStep(PublishOrComplete(to))
<1>1. GoodStep(Do("complete"))
  BY DoGood DEF Ops
<1>2. to # TaskEndID => GoodStep(Publish(to, "WAIT"))
  BY PublishGood
<1> QED
  BY <1>1, <1>2 DEF PublishOrComplete

GoodSteps(s) == s \in Seq(StepSet) /\ \A i \in 1 .. Len(s) : GoodStep(s[i])

(* A run of one well formed step. *)
LEMMA OneGood ==
    ASSUME NEW a, GoodStep(a)
    PROVE  GoodSteps(<< a >>)
BY DEF GoodSteps, GoodStep

(* A run of two well formed steps. *)
LEMMA TwoGood ==
    ASSUME NEW a, NEW b, GoodStep(a), GoodStep(b)
    PROVE  GoodSteps(<< a, b >>)
BY DEF GoodSteps, GoodStep

(* The operation executor: its first relation is a task or END. *)
LEMMA OperationGood ==
    ASSUME NEW t \in Task
    PROVE  GoodSteps(OperationSteps(t))
<1> DEFINE tr == Transitions[t]
<1>1. tr \in Seq(Relations) /\ Action[t] \in Actions
  BY ExecutorAssumption
<1>2. ActionOp(Action[t]) \in Ops \ {"publish"}
  BY DEF ActionOp, Ops
<1>3. GoodStep(Do(ActionOp(Action[t]))) /\ GoodStep(Do("complete"))
  BY <1>2, DoGood DEF Ops
<1>4. ~ EndsHere(tr) => GoodStep(Publish(tr[1].to, "SLEEP"))
  <2> HAVE ~ EndsHere(tr)
  <2>1. tr # << >> /\ tr[1].to # TaskEndID
    BY DEF EndsHere
  <2>2. tr[1] \in Relations
    BY <1>1, <2>1
  <2>3. tr[1].to \in Task
    BY <2>1, <2>2 DEF Relations
  <2> QED
    BY <2>3, PublishGood
<1> QED
  BY <1>3, <1>4, TwoGood DEF OperationSteps

(* The switch executor, whichever relation the conditions choose. *)
LEMMA SwitchGood ==
    ASSUME NEW t \in Task
    PROVE  GoodSteps(SwitchSteps(t))
<1> DEFINE tr       == Transitions[t]
           decisive == {i \in DOMAIN tr : tr[i].cond \in {"true", "error"}}
           default  == {i \in DOMAIN tr : tr[i].cond = ""}
           first    == CHOOSE i \in decisive : \A j \in decisive : i <= j
           last     == CHOOSE i \in default : \A j \in default : i >= j
<1>1. tr \in Seq(Relations)
  BY ExecutorAssumption
<1>2. DOMAIN tr = 1 .. Len(tr) /\ Len(tr) \in Nat
  BY <1>1
<1>3. ASSUME NEW i \in DOMAIN tr PROVE GoodStep(PublishOrComplete(tr[i].to))
  <2>1. tr[i] \in Relations
    BY <1>1, <1>2, ElementOfSeq
  <2>2. tr[i].to \in Task \cup {TaskEndID}
    BY <2>1 DEF Relations
  <2> QED
    BY <2>2, PublishOrCompleteGood
<1>4. decisive # {} => first \in DOMAIN tr
  <2> HAVE decisive # {}
  <2>1. decisive \in SUBSET Nat
    BY <1>2
  <2>2. \E i \in decisive : \A j \in decisive : i <= j
    BY <2>1, LeastNat
  <2> QED
    BY <2>2
<1>5. default # {} => last \in DOMAIN tr
  <2> HAVE default # {}
  <2>1. default \in SUBSET (0 .. Len(tr))
    <3>1. default \subseteq DOMAIN tr
      OBVIOUS
    <3>2. DOMAIN tr \subseteq 0 .. Len(tr)
      BY <1>2, IntervalFromZero
    <3> QED
      BY <3>1, <3>2
  <2>2. \E i \in default : \A j \in default : i >= j
    BY <1>2, <2>1, GreatestNat
  <2> QED
    BY <2>2
<1>6. GoodStep(Do("error")) /\ GoodStep(Do("complete"))
  BY DoGood DEF Ops
<1>7. CASE tr = << >>
  BY <1>7 DEF SwitchSteps, GoodSteps
<1>8. CASE tr # << >> /\ decisive # {}
  <2>1. SwitchSteps(t) = << IF tr[first].cond = "error" THEN Do("error")
                            ELSE PublishOrComplete(tr[first].to) >>
    BY <1>8 DEF SwitchSteps
  <2>2. GoodStep(IF tr[first].cond = "error" THEN Do("error")
                 ELSE PublishOrComplete(tr[first].to))
    BY <1>3, <1>4, <1>6, <1>8
  <2> QED
    BY <2>1, <2>2, OneGood
<1>9. CASE tr # << >> /\ decisive = {} /\ default # {}
  <2>1. SwitchSteps(t) = << PublishOrComplete(tr[last].to) >>
    BY <1>9 DEF SwitchSteps
  <2>2. GoodStep(PublishOrComplete(tr[last].to))
    BY <1>3, <1>5, <1>9
  <2> QED
    BY <2>1, <2>2, OneGood
<1>10. CASE tr # << >> /\ decisive = {} /\ default = {}
  <2>1. SwitchSteps(t) = << Do("complete") >>
    BY <1>10 DEF SwitchSteps
  <2> QED
    BY <2>1, <1>6, OneGood
<1> QED
  BY <1>7, <1>8, <1>9, <1>10

(* The local runtime: the END branches of a fork are skipped. *)
LEMMA LocalRuntimeGood ==
    ASSUME NEW t \in Task
    PROVE  GoodSteps(LocalRuntimeSteps(t))
<1> DEFINE tr == Transitions[t]
           f  == [i \in 1 .. Len(tr) + 1 |->
                    IF i = 1 THEN Do(ExecuteOp(t))
                    ELSE IF tr[i - 1].to = TaskEndID THEN Do("skip")
                    ELSE Publish(tr[i - 1].to, "WAIT")]
<1>1. tr \in Seq(Relations)
  BY ExecutorAssumption
<1>2. ExecuteOp(t) \in Ops \ {"publish"}
  BY DEF ExecuteOp, Ops
<1>3. GoodStep(Do(ExecuteOp(t))) /\ GoodStep(Do("complete")) /\ GoodStep(Do("skip"))
  BY <1>2, DoGood DEF Ops
<1>4. CASE EndsHere(tr)
  BY <1>3, <1>4, TwoGood DEF LocalRuntimeSteps
<1>5. CASE ~ EndsHere(tr)
  <2>1. LocalRuntimeSteps(t) = f
    BY <1>5 DEF LocalRuntimeSteps, PublishNextTask
  <2>2. ASSUME NEW i \in 1 .. Len(tr) + 1 PROVE GoodStep(f[i])
    <3>1. CASE i = 1
      BY <1>3, <3>1
    <3>2. CASE i # 1
      <4>1. i - 1 \in 1 .. Len(tr)
        BY <1>1, <3>2
      <4>2. tr[i - 1].to \in Task \cup {TaskEndID}
        <5>1. tr[i - 1] \in Relations
          BY <1>1, <4>1, ElementOfSeq
        <5> QED
          BY <5>1 DEF Relations
      <4>3. tr[i - 1].to # TaskEndID => GoodStep(Publish(tr[i - 1].to, "WAIT"))
        BY <4>2, PublishGood
      <4> QED
        BY <1>3, <3>2, <4>3
    <3> QED
      BY <3>1, <3>2
  <2>3. Len(tr) + 1 \in Nat
    BY <1>1
  <2>4. \A i \in 1 .. Len(tr) + 1 : f[i] \in StepSet
    BY <2>2 DEF GoodStep
  <2>5. f \in Seq(StepSet) /\ Len(f) = Len(tr) + 1
    <3> DEFINE n == Len(tr) + 1
    <3>1. f \in [1 .. n -> StepSet]
      BY <2>4
    <3> HIDE DEF f, n
    <3>2. n \in Nat => f \in Seq(StepSet) /\ Len(f) = n
      BY <3>1
    <3> QED
      BY <2>3, <3>2 DEF n
  <2> QED
    BY <2>1, <2>2, <2>5 DEF GoodSteps
<1> QED
  BY <1>4, <1>5

(* Every executor only performs well formed steps, whatever the stored     *)
(* definition: it publishes tasks, never END.                              *)
THEOREM StepsGood ==
    ASSUME NEW t \in Task
    PROVE  GoodSteps(Steps(t))
<1>1. GoodSteps(EventSteps(t))
  <2>1. GoodSteps(<< >>)
    BY DEF GoodSteps
  <2> QED
    BY <2>1, OperationGood DEF EventSteps
<1> QED
  BY <1>1, OperationGood, SwitchGood, LocalRuntimeGood DEF Steps

-----------------------------------------------------------------------------
(* Type correctness. *)

(* An engine starts over empty tables. *)
LEMMA TypeInit == Init => TypeOK
BY SchedulingAssumption
   DEF Init, TypeOK, StateTypes, References, RefersTo, RowExists, Idle, SchedSet, PC

(* A step of one scheduler that leaves the queue and the task instances    *)
(* alone only has to give that scheduler a well formed state.              *)
LEMMA SchedStep ==
    ASSUME TypeOK, NEW e \in Engine, NEW s \in SchedSet, RowExists(s),
           sched' = [sched EXCEPT ![e] = s],
           UNCHANGED << rows, calls, observer >>,
           instances' \in Seq({"PROCESS", "SUCCESS"}), Len(instances') = Len(instances),
           lock' \in Engine \cup {Nobody}, callbacks' \in [1 .. MaxUuids -> Int],
           uuids' \in 0 .. MaxUuids, faults' \in 0 .. MaxFaults
    PROVE  TypeOK'
<1>1. StateTypes'
  BY DEF TypeOK, StateTypes
<1>2. \A f \in Engine : RowExists(sched[f])' /\ \A m \in observer[f] : RefersTo(m)'
  BY DEF TypeOK, StateTypes, References, RowExists, RefersTo
<1>3. (\A k \in calls : RefersTo(k.msg))'
  BY DEF TypeOK, References, RefersTo
<1>4. (\A r \in 1 .. Len(rows) : rows[r].inst \in 1 .. Len(instances))'
  BY DEF TypeOK, References
<1> QED
  BY <1>1, <1>2, <1>3, <1>4 DEF TypeOK, References

(* The updates of a scheduler's state that the actions make. *)
LEMMA SchedRecord ==
    ASSUME NEW x \in SchedSet, NEW p \in PC, NEW r \in Nat, NEW a \in Nat,
           NEW n \in Nat, NEW u \in Nat
    PROVE  /\ [x EXCEPT !.pc = p] \in SchedSet
           /\ [x EXCEPT !.pc = p, !.row = r] \in SchedSet
           /\ [x EXCEPT !.step = n, !.uuid = u] \in SchedSet
           /\ [x EXCEPT !.attempt = a, !.step = n, !.uuid = u] \in SchedSet
           /\ [x EXCEPT !.pc = p, !.attempt = a, !.step = n] \in SchedSet
BY DEF SchedSet

(* The next state of a scheduler after a step that succeeded. *)
LEMMA AdvanceState ==
    ASSUME TypeOK, NEW e \in Engine, sched[e].pc = "run", NEW u \in Nat
    PROVE  LET s == [sched[e] EXCEPT !.step = @ + 1, !.uuid = u]
           IN  s \in SchedSet /\ RowExists(s)
<1> DEFINE x == sched[e]
           s == [x EXCEPT !.step = @ + 1, !.uuid = u]
<1>1. x \in SchedSet /\ RowExists(x) /\ x.pc = "run"
  BY DEF TypeOK, StateTypes, References
<1>2. x.step + 1 \in Nat \ {0}
  BY <1>1 DEF SchedSet
<1>3. s \in SchedSet
  <2> HIDE DEF x
  <2> QED
    BY <1>1, <1>2, SchedRecord DEF PC
<1>4. s.row = x.row /\ s.pc = x.pc /\ s.step = x.step + 1
  BY <1>1 DEF SchedSet
<1> HIDE DEF s, x
<1>5. RowExists(s)
  BY <1>1, <1>2, <1>4 DEF RowExists
<1> QED
  BY <1>3, <1>5 DEF s, x

RetryOf(x) ==
    IF x.attempt < RetryAttempts
    THEN [x EXCEPT !.attempt = @ + 1, !.step = 1, !.uuid = 0]
    ELSE [x EXCEPT !.pc = "failed"]

(* The next state of a scheduler after a step that failed. *)
LEMMA RetryState ==
    ASSUME TypeOK, NEW e \in Engine, sched[e].pc = "run"
    PROVE  RetryOf(sched[e]) \in SchedSet /\ RowExists(RetryOf(sched[e]))
<1> DEFINE x == sched[e]
           s == [x EXCEPT !.attempt = @ + 1, !.step = 1, !.uuid = 0]
           f == [x EXCEPT !.pc = "failed"]
<1>1. x \in SchedSet /\ RowExists(x) /\ x.pc = "run"
  BY DEF TypeOK, StateTypes, References
<1>2. x.attempt + 1 \in Nat
  BY <1>1 DEF SchedSet
<1>3. s \in SchedSet /\ f \in SchedSet
  <2> HIDE DEF x
  <2> QED
    BY <1>1, <1>2, SchedRecord DEF PC
<1>4. /\ s.row = x.row /\ s.pc = x.pc /\ s.step = 1
      /\ f.row = x.row /\ f.pc = "failed"
  BY <1>1 DEF SchedSet
<1> HIDE DEF s, f, x
<1>5. RowExists(s) /\ RowExists(f)
  BY <1>1, <1>4 DEF RowExists
<1> QED
  BY <1>3, <1>5 DEF s, f, x, RetryOf

(* The actions of handle up to the release of the named lock. *)
LEMMA TypeSchedule ==
    ASSUME TypeOK, NEW e \in Engine, Schedule(e)
    PROVE  TypeOK'
<1> USE DEF TypeOK, StateTypes
<1>0. sched[e] \in SchedSet /\ RowExists(sched[e])
  BY DEF References
<1>1. CASE Obtain(e)
  <2> DEFINE s == [sched[e] EXCEPT !.pc = "select"]
  <2>1. s \in SchedSet /\ RowExists(s)
    BY <1>0, <1>1 DEF Obtain, SchedSet, PC, RowExists
  <2> QED
    BY <1>1, <2>1, SchedStep DEF Obtain
<1>2. CASE SelectTask(e)
  <2>1. ASSUME NEW r \in Waiting,
               sched' = [sched EXCEPT ![e] = [@ EXCEPT !.pc = "update", !.row = r]]
        PROVE  TypeOK'
    <3> DEFINE s == [sched[e] EXCEPT !.pc = "update", !.row = r]
    <3>1. r \in 1 .. Len(rows)
      BY DEF Waiting
    <3>2. s \in SchedSet
      <4>1. r \in Nat /\ "update" \in PC
        BY <3>1 DEF PC
      <4> QED
        BY <1>0, <4>1, SchedRecord
    <3>3. s.row = r /\ s.pc = "update"
      BY <1>0 DEF SchedSet
    <3>4. RowExists(s)
      BY <3>1, <3>3 DEF RowExists
    <3> QED
      BY <1>2, <2>1, <3>2, <3>4, SchedStep DEF SelectTask
  <2>2. CASE sched' = [sched EXCEPT ![e].pc = "release"]
    <3> DEFINE s == [sched[e] EXCEPT !.pc = "release"]
    <3>1. s \in SchedSet /\ RowExists(s)
      BY <1>0, <1>2 DEF SelectTask, SchedSet, PC, RowExists
    <3> QED
      BY <1>2, <2>2, <3>1, SchedStep DEF SelectTask
  <2> QED
    BY <1>2, <2>1, <2>2 DEF SelectTask
<1>3. CASE ClaimTask(e)
  <2> DEFINE s == [sched[e] EXCEPT !.pc = "release"]
  <2>1. s \in SchedSet /\ RowExists(s)
    BY <1>0, <1>3 DEF ClaimTask, SchedSet, PC, RowExists
  <2> QED
    BY <1>3, <2>1, SchedStep DEF ClaimTask
<1>4. CASE FetchFails(e)
  <2> DEFINE s == [sched[e] EXCEPT !.pc = "release", !.row = 0]
  <2>0. s \in SchedSet /\ s.row = 0 /\ s.pc = "release"
    <3>1. "release" \in PC /\ 0 \in Nat
      BY DEF PC
    <3>2. s \in SchedSet
      BY <1>0, <3>1, SchedRecord
    <3> QED
      BY <1>0, <3>2 DEF SchedSet
  <2>1. RowExists(s)
    BY <2>0 DEF RowExists
  <2>2. faults' \in 0 .. MaxFaults
    BY <1>4, SchedulingAssumption DEF FetchFails, Fault, NoFault
  <2> QED
    BY <1>4, <2>0, <2>1, <2>2, SchedStep DEF FetchFails
<1>5. CASE Release(e)
  <2> DEFINE s == IF sched[e].row = 0 THEN Idle
                  ELSE [sched[e] EXCEPT !.pc = "run", !.attempt = 1, !.step = 1]
  <2>1. s \in SchedSet /\ RowExists(s)
    <3>1. CASE sched[e].row = 0
      BY <3>1 DEF Idle, SchedSet, PC, RowExists
    <3>2. CASE sched[e].row # 0
      <4>1. s \in SchedSet
        BY <1>0, <3>2, SchedRecord DEF PC
      <4>2. s.row = sched[e].row /\ s.pc = "run" /\ s.step = 1
        BY <1>0, <3>2 DEF SchedSet
      <4> QED
        BY <1>0, <3>2, <4>1, <4>2 DEF RowExists
    <3> QED
      BY <3>1, <3>2
  <2>2. sched' = [sched EXCEPT ![e] = s]
    BY <1>5 DEF Release
  <2> HIDE DEF s
  <2> QED
    BY <1>5, <2>1, <2>2, SchedStep DEF Release
<1> QED
  BY <1>1, <1>2, <1>3, <1>4, <1>5 DEF Schedule

(* The message a scheduler publishes and what it leaves behind. *)
LEMMA TypePublishTask ==
    ASSUME TypeOK, NEW e \in Engine, PublishTask(e)
    PROVE  TypeOK'
<1> USE DEF TypeOK, StateTypes
<1> DEFINE t == TaskOf(e)
           s == Steps(t)[sched[e].step]
           u == IF s.status = "SLEEP" THEN uuids + 1 ELSE 0
           m == [id |-> 0, inst |-> rows[sched[e].row].inst, task |-> s.to,
                 uuid |-> u, status |-> s.status]
           q == [sched[e] EXCEPT !.step = @ + 1, !.uuid = u]
<1>1. sched[e] \in SchedSet /\ RowExists(sched[e]) /\ sched[e].pc = "run"
  BY DEF References, PublishTask, Running
<1>2. sched[e].row \in 1 .. Len(rows) /\ sched[e].step \in Nat \ {0}
  BY <1>1 DEF RowExists, SchedSet
<1>3. rows[sched[e].row] \in RowSet
  BY <1>2, ElementOfSeq
<1>4. t \in Task /\ rows[sched[e].row].inst \in 1 .. Len(instances)
  BY <1>2, <1>3 DEF TaskOf, RowSet, References
<1>5. sched[e].step \in 1 .. Len(Steps(t)) /\ s.op = "publish"
  <2>1. Len(Steps(t)) \in Nat
    BY <1>4, StepsGood DEF GoodSteps
  <2> QED
    BY <1>2, <2>1 DEF PublishTask, Running
<1>6. s \in StepSet /\ s.to \in Task
  BY <1>4, <1>5, StepsGood DEF GoodSteps, GoodStep
<1>7. s.status \in {"SLEEP", "WAIT"}
  BY <1>6 DEF StepSet
<1>9. u \in Nat /\ u <= MaxUuids /\ uuids' \in 0 .. MaxUuids
  BY SchedulingAssumption DEF PublishTask
<1>10. m \in Msg /\ RefersTo(m)
  BY <1>4, <1>6, <1>7, <1>9 DEF Msg, RefersTo
<1>11. q \in SchedSet /\ RowExists(q)
  BY <1>1, <1>9, AdvanceState
<1>12. /\ sched' = [sched EXCEPT ![e] = q]
       /\ observer' = [observer EXCEPT ![e] = {m}]
       /\ UNCHANGED << rows, instances, lock, calls, callbacks, faults >>
  <2>1. Advance(e, u)
    BY DEF PublishTask
  <2>2. observer' = [observer EXCEPT ![e] = {m}]
    BY DEF PublishTask
  <2>3. UNCHANGED << rows, instances, lock, calls, callbacks, faults >>
    BY DEF PublishTask
  <2> HIDE DEF u, m
  <2> QED
    <3>1. sched' = [sched EXCEPT ![e] = q]
      BY ONLY <2>1 DEF Advance
    <3> QED
      BY <2>2, <2>3, <3>1
<1> HIDE DEF m, q, u, s, t
<1>13. StateTypes'
  BY <1>9, <1>10, <1>11, <1>12
<1>14. References'
  BY <1>10, <1>11, <1>12 DEF References, RowExists, RefersTo
<1> QED
  BY <1>13, <1>14

(* Announcing an event keeps the callback counts numbers. *)
LEMMA AnnounceType ==
    ASSUME TypeOK, NEW u, Announce(u)
    PROVE  callbacks' \in [1 .. MaxUuids -> Int]
<1>1. Callbacks \in Int /\ callbacks \in [1 .. MaxUuids -> Int]
  BY SchedulingAssumption DEF TypeOK, StateTypes
<1> QED
  BY <1>1 DEF Announce

(* A fault is counted within the budget. *)
LEMMA FaultType ==
    ASSUME TypeOK, Fault \/ NoFault
    PROVE  faults' \in 0 .. MaxFaults
BY SchedulingAssumption DEF TypeOK, StateTypes, Fault, NoFault

(* A step of Run that succeeds, other than a publish. *)
LEMMA TypeAdvance ==
    ASSUME TypeOK, NEW e \in Engine, sched[e].pc = "run", Advance(e, sched[e].uuid),
           UNCHANGED << rows, lock, calls, observer, uuids, faults >>,
           instances' \in Seq({"PROCESS", "SUCCESS"}), Len(instances') = Len(instances),
           callbacks' \in [1 .. MaxUuids -> Int]
    PROVE  TypeOK'
<1> DEFINE s == [sched[e] EXCEPT !.step = @ + 1, !.uuid = sched[e].uuid]
<1>1. sched[e].uuid \in Nat
  BY DEF TypeOK, StateTypes, SchedSet
<1>2. s \in SchedSet /\ RowExists(s)
  BY <1>1, AdvanceState
<1>3. sched' = [sched EXCEPT ![e] = s]
  BY DEF Advance
<1>4. lock' \in Engine \cup {Nobody} /\ uuids' \in 0 .. MaxUuids /\ faults' \in 0 .. MaxFaults
  BY DEF TypeOK, StateTypes
<1> HIDE DEF s
<1> QED
  BY <1>2, <1>3, <1>4, SchedStep

(* A step of Run that fails. *)
LEMMA TypeRetry ==
    ASSUME TypeOK, NEW e \in Engine, sched[e].pc = "run", Retry(e),
           UNCHANGED << rows, instances, lock, calls, observer, uuids >>,
           callbacks' \in [1 .. MaxUuids -> Int], faults' \in 0 .. MaxFaults
    PROVE  TypeOK'
<1>1. RetryOf(sched[e]) \in SchedSet /\ RowExists(RetryOf(sched[e]))
  BY RetryState
<1>2. sched' = [sched EXCEPT ![e] = RetryOf(sched[e])]
  BY DEF Retry, RetryOf
<1>3. /\ lock' \in Engine \cup {Nobody} /\ uuids' \in 0 .. MaxUuids
      /\ instances' \in Seq({"PROCESS", "SUCCESS"}) /\ Len(instances') = Len(instances)
  BY DEF TypeOK, StateTypes
<1> QED
  BY <1>1, <1>2, <1>3, SchedStep

(* Marking an instance SUCCESS keeps the table of instances well formed. *)
LEMMA TypeComplete ==
    ASSUME TypeOK, NEW i \in 1 .. Len(instances),
           instances' = [instances EXCEPT ![i] = "SUCCESS"]
    PROVE  instances' \in Seq({"PROCESS", "SUCCESS"}) /\ Len(instances') = Len(instances)
BY ExceptSeq DEF TypeOK, StateTypes

(* Writing the status and the run count of a row. *)
LEMMA RowRecord ==
    \A x \in RowSet : \A s \in Status, n \in Nat :
        /\ [x EXCEPT !.status = s, !.runs = n] \in RowSet
        /\ [x EXCEPT !.status = s, !.runs = n].inst = x.inst
BY DEF RowSet

(* The transaction ends: the scheduler is idle, and the row it worked on,  *)
(* if it was written, is still a row of the same instance.                 *)
LEMMA TypeCommit ==
    ASSUME TypeOK, NEW e \in Engine, Commit(e)
    PROVE  TypeOK'
<1> DEFINE r == sched[e].row
           w == [rows[r] EXCEPT !.status = Outcome(e), !.runs = @ + 1]
<1>1. sched[e] \in SchedSet /\ RowExists(sched[e]) /\ sched[e].pc \in {"run", "failed"}
  BY DEF TypeOK, StateTypes, References, Commit, Finished
<1>2. r \in 1 .. Len(rows)
  BY <1>1 DEF RowExists
<1>3. rows \in Seq(RowSet) /\ rows[r] \in RowSet
  BY <1>2, ElementOfSeq DEF TypeOK, StateTypes
<1>4. rows[r].runs + 1 \in Nat /\ Outcome(e) \in Status
  BY <1>3 DEF RowSet, Outcome, Status
<1>5. w \in RowSet /\ w.inst = rows[r].inst
  BY <1>3, <1>4, RowRecord
<1>6. rows' = [rows EXCEPT ![r] = w] /\ sched' = [sched EXCEPT ![e] = Idle]
  BY DEF Commit
<1>7. UNCHANGED << instances, lock, calls, observer, callbacks, uuids, faults >>
  BY DEF Commit
<1> HIDE DEF w, r
<1>8. /\ rows' \in Seq(RowSet) /\ Len(rows') = Len(rows)
      /\ \A q \in 1 .. Len(rows) : rows'[q] = IF q = r THEN w ELSE rows[q]
  BY <1>2, <1>3, <1>5, <1>6, ExceptSeq
<1>9. \A q \in 1 .. Len(rows') : rows'[q].inst \in 1 .. Len(instances')
  BY <1>5, <1>7, <1>8 DEF TypeOK, References
<1>10. Idle \in SchedSet /\ RowExists(Idle)'
  BY <1>8 DEF Idle, SchedSet, PC, RowExists, TypeOK, StateTypes
<1>11. StateTypes'
  BY <1>6, <1>7, <1>8, <1>10 DEF TypeOK, StateTypes
<1>12. \A f \in Engine : RowExists(sched[f])'
  BY <1>6, <1>8, <1>10 DEF TypeOK, StateTypes, References, RowExists
<1>13. /\ \A f \in Engine : \A m \in observer'[f] : RefersTo(m)'
       /\ \A k \in calls' : RefersTo(k.msg)'
  BY <1>7, <1>8 DEF TypeOK, References, RefersTo
<1> QED
  BY <1>9, <1>11, <1>12, <1>13 DEF TypeOK, References

(* The actions of Run and the end of the transaction. *)
LEMMA TypeExecute ==
    ASSUME TypeOK, NEW e \in Engine, Execute(e)
    PROVE  TypeOK'
<1>0. /\ callbacks \in [1 .. MaxUuids -> Int] /\ faults \in 0 .. MaxFaults
      /\ instances \in Seq({"PROCESS", "SUCCESS"})
      /\ lock \in Engine \cup {Nobody} /\ uuids \in 0 .. MaxUuids
      /\ sched[e] \in SchedSet /\ RowExists(sched[e])
  BY DEF TypeOK, StateTypes, References
<1>1. CASE PublishTask(e)
  BY <1>1, TypePublishTask
<1>2. CASE SkipStep(e)
  BY <1>0, <1>2, TypeAdvance DEF SkipStep, Running
<1>3. CASE PublishEvent(e)
  <2>1. callbacks' \in [1 .. MaxUuids -> Int]
    BY <1>3, AnnounceType DEF PublishEvent
  <2> QED
    BY <1>0, <1>3, <2>1, TypeAdvance DEF PublishEvent, Running
<1>4. CASE EventFails(e)
  <2>1. callbacks' \in [1 .. MaxUuids -> Int]
    BY <1>0, <1>4, AnnounceType DEF EventFails
  <2>2. faults' \in 0 .. MaxFaults
    BY <1>4, FaultType DEF EventFails
  <2> QED
    BY <1>4, <2>1, <2>2, TypeRetry DEF EventFails, Running
<1>5. CASE CallAgent(e)
  <2>1. CASE Advance(e, sched[e].uuid) /\ NoFault
    BY <1>0, <1>5, <2>1, TypeAdvance DEF CallAgent, Running, NoFault
  <2>2. CASE Retry(e) /\ Fault
    <3>1. faults' \in 0 .. MaxFaults
      BY <2>2, FaultType
    <3> QED
      BY <1>0, <1>5, <2>2, <3>1, TypeRetry DEF CallAgent, Running
  <2> QED
    BY <1>5, <2>1, <2>2 DEF CallAgent
<1>6. CASE CompleteWorkflow(e)
  <2>1. ASSUME instances' = [instances EXCEPT ![rows[sched[e].row].inst] = "SUCCESS"],
               Advance(e, sched[e].uuid), NoFault
        PROVE  TypeOK'
    <3>1. sched[e].pc = "run" /\ UNCHANGED << rows, lock, calls, observer, callbacks, uuids, faults >>
      BY <1>6, <2>1 DEF CompleteWorkflow, Running, NoFault
    <3>2. rows[sched[e].row].inst \in 1 .. Len(instances)
      BY <1>0, <3>1 DEF RowExists, TypeOK, References
    <3>3. instances' \in Seq({"PROCESS", "SUCCESS"}) /\ Len(instances') = Len(instances)
      BY <2>1, <3>2, TypeComplete
    <3> QED
      BY <1>0, <2>1, <3>1, <3>3, TypeAdvance
  <2>2. ASSUME Fault, Retry(e), UNCHANGED instances
        PROVE  TypeOK'
    <3>1. faults' \in 0 .. MaxFaults
      BY <2>2, FaultType
    <3> QED
      BY <1>0, <1>6, <2>2, <3>1, TypeRetry DEF CompleteWorkflow, Running
  <2> QED
    BY <1>6, <2>1, <2>2 DEF CompleteWorkflow
<1>7. CASE TaskErrors(e)
  BY <1>0, <1>7, TypeRetry DEF TaskErrors, Running
<1>8. CASE Panic(e)
  <2> DEFINE s == [sched[e] EXCEPT !.pc = "dead"]
  <2>1. s \in SchedSet /\ RowExists(s)
    BY <1>0, <1>8 DEF Panic, Running, RowExists, SchedSet, PC
  <2> QED
    BY <1>0, <1>8, <2>1, SchedStep DEF Panic
<1>9. CASE Commit(e)
  BY <1>9, TypeCommit
<1>10. CASE Rollback(e)
  <2>1. Idle \in SchedSet /\ RowExists(Idle)
    BY DEF Idle, SchedSet, PC, RowExists, TypeOK, StateTypes
  <2>2. faults' \in 0 .. MaxFaults
    BY <1>10, FaultType DEF Rollback
  <2> QED
    BY <1>0, <1>10, <2>1, <2>2, SchedStep DEF Rollback
<1> QED
  BY <1>1, <1>2, <1>3, <1>4, <1>5, <1>6, <1>7, <1>8, <1>9, <1>10 DEF Execute

(* The observer goroutine: what it inserts or updates was a well formed    *)
(* message, and the table of task instances only grows.                    *)
LEMMA TypeObserve ==
    ASSUME TypeOK, NEW e \in Engine, Observe(e)
    PROVE  TypeOK'
<1> DEFINE emptied == observer' = [observer EXCEPT ![e] = {}]
<1>0. rows \in Seq(RowSet) /\ observer \in [Engine -> SUBSET Msg]
  BY DEF TypeOK, StateTypes
<1>1. CASE Receive(e)
  <2>1. PICK k \in calls : /\ calls' = calls \ {k}
                           /\ observer' = [observer EXCEPT ![e] = {k.msg}]
    BY <1>1 DEF Receive
  <2>2. k.msg \in Msg /\ RefersTo(k.msg)
    BY DEF TypeOK, StateTypes, References
  <2> QED
    BY <1>1, <2>1, <2>2 DEF Receive, TypeOK, StateTypes, References, RefersTo, RowExists
<1>2. CASE InsertTask(e)
  <2>1. PICK m \in observer[e] :
          rows' = Append(rows, [inst |-> m.inst, task |-> m.task, uuid |-> m.uuid,
                                status |-> m.status, runs |-> 0])
    BY <1>2 DEF InsertTask
  <2> DEFINE w == [inst |-> m.inst, task |-> m.task, uuid |-> m.uuid,
                   status |-> m.status, runs |-> 0]
  <2>2. m \in Msg /\ RefersTo(m)
    BY <1>0 DEF TypeOK, References
  <2>3. w \in RowSet /\ w.inst \in 1 .. Len(instances)
    BY <2>2 DEF Msg, RowSet, Status, RefersTo
  <2> HIDE DEF w
  <2>4. /\ rows' \in Seq(RowSet) /\ Len(rows') = Len(rows) + 1
        /\ \A q \in 1 .. Len(rows) : rows'[q] = rows[q]
        /\ rows'[Len(rows) + 1] = w
    BY <1>0, <2>1, <2>3, AppendProperties DEF w
  <2>5. emptied /\ UNCHANGED << instances, lock, sched, calls, callbacks, uuids, faults >>
    BY <1>2 DEF InsertTask
  <2>6. Len(rows) \in Nat
    BY <1>0
  <2>7. \A q \in 1 .. Len(rows') : rows'[q].inst \in 1 .. Len(instances')
    BY <2>3, <2>4, <2>5, <2>6 DEF TypeOK, References
  <2>8. StateTypes'
    BY <2>4, <2>5 DEF TypeOK, StateTypes
  <2>9. \A f \in Engine : RowExists(sched[f])' /\ \A x \in observer'[f] : RefersTo(x)'
    BY <1>0, <2>4, <2>5, <2>6 DEF TypeOK, References, RowExists, RefersTo
  <2>10. \A k \in calls' : RefersTo(k.msg)'
    BY <2>4, <2>5, <2>6 DEF TypeOK, References, RefersTo
  <2> QED
    BY <2>7, <2>8, <2>9, <2>10 DEF TypeOK, References
<1>3. CASE UpdateTask(e)
  <2>1. PICK m \in observer[e] :
          /\ m.id # 0
          /\ rows' = [rows EXCEPT ![m.id] = [@ EXCEPT !.status = m.status, !.runs = 0]]
    BY <1>3 DEF UpdateTask
  <2> DEFINE w == [rows[m.id] EXCEPT !.status = m.status, !.runs = 0]
  <2>2. m \in Msg /\ m.id \in 1 .. Len(rows)
    BY <1>0, <2>1 DEF TypeOK, References, RefersTo
  <2>3. rows[m.id] \in RowSet /\ m.status \in Status
    BY <1>0, <2>2, ElementOfSeq DEF Msg, Status
  <2>4. w \in RowSet /\ w.inst = rows[m.id].inst
    BY <2>3, RowRecord
  <2>5. rows' = [rows EXCEPT ![m.id] = w]
    BY <2>1
  <2> HIDE DEF w
  <2>6. /\ rows' \in Seq(RowSet) /\ Len(rows') = Len(rows)
        /\ \A q \in 1 .. Len(rows) : rows'[q] = IF q = m.id THEN w ELSE rows[q]
    BY <1>0, <2>2, <2>4, <2>5, ExceptSeq
  <2>7. emptied /\ UNCHANGED << instances, lock, sched, calls, callbacks, uuids, faults >>
    BY <1>3 DEF UpdateTask
  <2>8. \A q \in 1 .. Len(rows') : rows'[q].inst \in 1 .. Len(instances')
    BY <2>4, <2>6, <2>7 DEF TypeOK, References
  <2>9. StateTypes'
    BY <2>6, <2>7 DEF TypeOK, StateTypes
  <2>10. \A f \in Engine : RowExists(sched[f])' /\ \A x \in observer'[f] : RefersTo(x)'
    BY <1>0, <2>6, <2>7 DEF TypeOK, References, RowExists, RefersTo
  <2>11. \A k \in calls' : RefersTo(k.msg)'
    BY <2>6, <2>7 DEF TypeOK, References, RefersTo
  <2> QED
    BY <2>8, <2>9, <2>10, <2>11 DEF TypeOK, References
<1>4. CASE LockWaitTimeout(e)
  BY <1>4 DEF LockWaitTimeout, TypeOK, StateTypes, References, RefersTo, RowExists
<1>5. CASE ObserveFails(e)
  <2>1. faults' \in 0 .. MaxFaults
    BY <1>5, FaultType DEF ObserveFails
  <2> QED
    BY <1>5, <2>1 DEF ObserveFails, TypeOK, StateTypes, References, RefersTo, RowExists
<1> QED
  BY <1>1, <1>2, <1>3, <1>4, <1>5 DEF Observe

(* Start and Transition: the message names an instance that was inserted   *)
(* just before, or a row that was read.                                    *)
LEMMA TypeCall ==
    ASSUME TypeOK, NEW e \in Engine, NEW c \in Caller, Start(c, e) \/ Transition(c, e)
    PROVE  TypeOK'
<1>0. rows \in Seq(RowSet) /\ instances \in Seq({"PROCESS", "SUCCESS"})
  BY DEF TypeOK, StateTypes
<1>1. CASE Start(c, e)
  <2>1. PICK t \in StartTask :
          calls' = calls \cup
           {[by |-> c, at |-> e,
             msg |-> [id |-> 0, inst |-> Len(instances) + 1, task |-> t,
                      uuid |-> 0, status |-> "WAIT"]]}
    BY <1>1 DEF Start
  <2> DEFINE m == [id |-> 0, inst |-> Len(instances) + 1, task |-> t,
                   uuid |-> 0, status |-> "WAIT"]
  <2>2. instances' = Append(instances, "PROCESS")
        /\ UNCHANGED << rows, lock, sched, observer, callbacks, uuids, faults >>
    BY <1>1 DEF Start
  <2>3. instances' \in Seq({"PROCESS", "SUCCESS"}) /\ Len(instances') = Len(instances) + 1
    BY <1>0, <2>2, AppendProperties
  <2>4. Len(instances) \in Nat /\ Len(rows) \in Nat
    BY <1>0
  <2>5. m \in Msg /\ m.id \in 0 .. Len(rows') /\ m.inst \in 1 .. Len(instances')
    BY <2>2, <2>3, <2>4, SchedulingAssumption DEF Msg
  <2>6. calls' = calls \cup {[by |-> c, at |-> e, msg |-> m]}
    BY <2>1
  <2> HIDE DEF m
  <2>7. StateTypes'
    BY <2>2, <2>3, <2>5, <2>6 DEF TypeOK, StateTypes
  <2>8. \A f \in Engine : RowExists(sched[f])' /\ \A x \in observer'[f] : RefersTo(x)'
    BY <2>2, <2>3, <2>4 DEF TypeOK, References, RowExists, RefersTo
  <2>9. \A k \in calls' : RefersTo(k.msg)'
    BY <2>2, <2>3, <2>4, <2>5, <2>6 DEF TypeOK, References, RefersTo
  <2>10. \A q \in 1 .. Len(rows') : rows'[q].inst \in 1 .. Len(instances')
    BY <2>2, <2>3, <2>4 DEF TypeOK, References
  <2> QED
    BY <2>7, <2>8, <2>9, <2>10 DEF TypeOK, References
<1>2. CASE Transition(c, e)
  <2>1. PICK u \in 1 .. MaxUuids :
          /\ callbacks' = [callbacks EXCEPT ![u] = @ - 1]
          /\ \/ \E r \in SleepingRows(u) :
                  calls' = calls \cup
                    {[by |-> c, at |-> e,
                      msg |-> [id |-> r, inst |-> rows[r].inst, task |-> rows[r].task,
                               uuid |-> u, status |-> "WAIT"]]}
             \/ UNCHANGED calls
    BY <1>2 DEF Transition
  <2>2. UNCHANGED << rows, instances, lock, sched, observer, uuids, faults >>
    BY <1>2 DEF Transition
  <2>3. callbacks' \in [1 .. MaxUuids -> Int]
    BY <2>1 DEF TypeOK, StateTypes
  <2>4. calls' \subseteq [by : Caller, at : Engine, msg : Msg]
        /\ \A k \in calls' : RefersTo(k.msg)
    <3>1. CASE UNCHANGED calls
      BY <3>1 DEF TypeOK, StateTypes, References
    <3>2. ASSUME NEW r \in SleepingRows(u),
                 calls' = calls \cup
                    {[by |-> c, at |-> e,
                      msg |-> [id |-> r, inst |-> rows[r].inst, task |-> rows[r].task,
                               uuid |-> u, status |-> "WAIT"]]}
          PROVE  /\ calls' \subseteq [by : Caller, at : Engine, msg : Msg]
                 /\ \A k \in calls' : RefersTo(k.msg)
      <4> DEFINE m == [id |-> r, inst |-> rows[r].inst, task |-> rows[r].task,
                       uuid |-> u, status |-> "WAIT"]
      <4>1. r \in 1 .. Len(rows)
        BY <1>0 DEF SleepingRows
      <4>2. rows[r] \in RowSet /\ rows[r].inst \in 1 .. Len(instances)
        BY <1>0, <4>1, ElementOfSeq DEF TypeOK, References
      <4>3. m \in Msg /\ RefersTo(m)
        BY <4>1, <4>2 DEF Msg, RowSet, RefersTo
      <4>4. calls' = calls \cup {[by |-> c, at |-> e, msg |-> m]}
        BY <3>2
      <4> HIDE DEF m
      <4> QED
        BY <4>3, <4>4 DEF TypeOK, StateTypes, References
    <3> QED
      BY <2>1, <3>1, <3>2
  <2> QED
    BY <2>2, <2>3, <2>4 DEF TypeOK, StateTypes, References, RefersTo, RowExists
<1> QED
  BY <1>1, <1>2

(* A crash only empties what was in memory. *)
LEMMA TypeCrash ==
    ASSUME TypeOK, NEW e \in Engine, Crash(e)
    PROVE  TypeOK'
<1>1. Idle \in SchedSet /\ RowExists(Idle)
  BY DEF Idle, SchedSet, PC, RowExists, TypeOK, StateTypes
<1>2. faults' \in 0 .. MaxFaults
  BY FaultType DEF Crash
<1>3. StateTypes'
  BY <1>1, <1>2 DEF Crash, TypeOK, StateTypes
<1>4. References'
  BY <1>1 DEF Crash, TypeOK, StateTypes, References, RefersTo, RowExists
<1> QED
  BY <1>3, <1>4 DEF TypeOK

(* TypeOK is inductive. *)
LEMMA TypeNext == TypeOK /\ [Next]_vars => TypeOK'
<1> SUFFICES ASSUME TypeOK, [Next]_vars PROVE TypeOK'
  OBVIOUS
<1>1. CASE UNCHANGED vars
  BY <1>1 DEF vars, TypeOK, StateTypes, References, RefersTo, RowExists
<1>2. CASE Next
  BY <1>2, TypeSchedule, TypeExecute, TypeObserve, TypeCall, TypeCrash DEF Next
<1> QED
  BY <1>1, <1>2

(* The state of the engines, the queues and the database is always well    *)
(* formed: no scheduler, queued message or task instance refers to a row   *)
(* or an instance that does not exist.                                     *)
THEOREM TypeCorrect == Spec => []TypeOK
BY TypeInit, TypeNext, PTL DEF Spec

-----------------------------------------------------------------------------
(* At most two committed executions.                                       *)
(*                                                                         *)
(* AtMostTwoRuns is not inductive.  What makes it true is that an engine   *)
(* waits for a row lock while it holds the named lock (LockHeld), that the *)
(* row lock is exclusive (OneHolder), and that a row can only be selected  *)
(* before its first commit: after it (runs = 1) either the one engine that *)
(* was already waiting still waits, or it is executing, not both; after    *)
(* the second (runs = 2) nobody works on the row any more.                 *)

AtUpdate(e, r) == sched[e].pc = "update" /\ sched[e].row = r

LockHeld ==
    \A e \in Engine : sched[e].pc \in {"select", "update", "release"} => lock = e

OneHolder ==
    \A e, f \in Engine : \A r \in 1 .. Len(rows) : Holds(e, r) /\ Holds(f, r) => e = f

RunsOf(r) ==
    /\ rows[r].runs <= 2
    /\ rows[r].runs >= 1 => rows[r].status \in Terminal
    /\ rows[r].runs = 1 => \A e, f \in Engine : ~ (Holds(e, r) /\ AtUpdate(f, r))
    /\ rows[r].runs = 2 => \A e \in Engine : ~ Holds(e, r) /\ ~ AtUpdate(e, r)

RunsInv == LockHeld /\ OneHolder /\ \A r \in 1 .. Len(rows) : RunsOf(r)

(* Initially there are no rows and every scheduler is idle. *)
LEMMA RunsInit == Init => RunsInv
BY DEF Init, RunsInv, LockHeld, OneHolder, Idle

(* A step that writes no row and after which nobody holds or waits for a   *)
(* row he did not hold or wait for before.                                 *)
LEMMA ShrinkingStep ==
    ASSUME RunsInv, UNCHANGED rows, LockHeld',
           \A f \in Engine : \A r \in 1 .. Len(rows) :
              (Holds(f, r)' => Holds(f, r)) /\ (AtUpdate(f, r)' => AtUpdate(f, r))
    PROVE  RunsInv'
<1>1. OneHolder'
  BY DEF RunsInv, OneHolder
<1>2. ASSUME NEW r \in 1 .. Len(rows) PROVE RunsOf(r)'
  BY DEF RunsInv, RunsOf
<1> QED
  BY <1>1, <1>2 DEF RunsInv

(* A step in the middle of an execution. *)
LEMMA RunningStep ==
    ASSUME TypeOK, RunsInv, NEW e \in Engine, NEW s \in SchedSet,
           sched[e].pc = "run", sched' = [sched EXCEPT ![e] = s],
           s.row = sched[e].row, s.pc \in {"run", "failed", "dead"},
           UNCHANGED << rows, lock >>
    PROVE  RunsInv'
<1>1. sched \in [Engine -> SchedSet]
  BY DEF TypeOK, StateTypes
<1>2. LockHeld'
  BY <1>1 DEF RunsInv, LockHeld
<1>3. ASSUME NEW f \in Engine, NEW r \in 1 .. Len(rows)
      PROVE  (Holds(f, r)' => Holds(f, r)) /\ (AtUpdate(f, r)' => AtUpdate(f, r))
  BY <1>1 DEF Holds, AtUpdate
<1> QED
  BY <1>2, <1>3, ShrinkingStep

(* A step that ends the transaction of e without writing its row. *)
LEMMA AbandonStep ==
    ASSUME TypeOK, RunsInv, NEW e \in Engine, sched' = [sched EXCEPT ![e] = Idle],
           lock' = lock \/ (lock = e /\ lock' = Nobody), UNCHANGED rows
    PROVE  RunsInv'
<1>1. sched \in [Engine -> SchedSet]
  BY DEF TypeOK, StateTypes
<1>2. LockHeld'
  BY <1>1 DEF RunsInv, LockHeld, Idle
<1>3. ASSUME NEW f \in Engine, NEW r \in 1 .. Len(rows)
      PROVE  (Holds(f, r)' => Holds(f, r)) /\ (AtUpdate(f, r)' => AtUpdate(f, r))
  BY <1>1 DEF Holds, AtUpdate, Idle
<1> QED
  BY <1>2, <1>3, ShrinkingStep

(* Steps of the observer and of RPC goroutines that write no row. *)
LEMMA OtherStep ==
    ASSUME RunsInv, UNCHANGED << rows, lock, sched >>
    PROVE  RunsInv'
BY DEF RunsInv, LockHeld, OneHolder, RunsOf, Holds, AtUpdate

(* The actions under the named lock. *)
LEMMA RunsSchedule ==
    ASSUME TypeOK, RunsInv, NEW e \in Engine, Schedule(e)
    PROVE  RunsInv'
<1>0. sched \in [Engine -> SchedSet] /\ RowExists(sched[e])
  BY DEF TypeOK, StateTypes, References
<1>1. CASE Obtain(e)
  <2>1. LockHeld'
    BY <1>0, <1>1, SchedulingAssumption DEF Obtain, RunsInv, LockHeld
  <2>2. ASSUME NEW f \in Engine, NEW r \in 1 .. Len(rows)
        PROVE  (Holds(f, r)' => Holds(f, r)) /\ (AtUpdate(f, r)' => AtUpdate(f, r))
    BY <1>0, <1>1 DEF Obtain, Holds, AtUpdate
  <2> QED
    BY <1>1, <2>1, <2>2, ShrinkingStep DEF Obtain
<1>2. CASE SelectTask(e)
  <2>1. lock = e /\ sched[e].pc = "select" /\ sched[e].row = 0 /\ UNCHANGED << rows, lock >>
    BY <1>0, <1>2 DEF SelectTask, RunsInv, LockHeld, RowExists
  <2>2. ASSUME NEW r \in Waiting,
               sched' = [sched EXCEPT ![e] = [@ EXCEPT !.pc = "update", !.row = r]]
        PROVE  RunsInv'
    <3>1. /\ sched'[e].pc = "update" /\ sched'[e].row = r
          /\ \A f \in Engine \ {e} : sched'[f] = sched[f]
      BY <1>0, <2>2 DEF SchedSet
    <3>2. LockHeld'
      BY <2>1, <3>1 DEF RunsInv, LockHeld
    <3>3. \A f \in Engine : \A q \in 1 .. Len(rows) : Holds(f, q)' => Holds(f, q)
      BY <3>1 DEF Holds
    <3>4. \A f \in Engine : \A q \in 1 .. Len(rows) :
             AtUpdate(f, q)' => AtUpdate(f, q) \/ q = r
      BY <3>1 DEF AtUpdate
    <3>5. OneHolder'
      BY <2>1, <3>3 DEF RunsInv, OneHolder
    <3>6. rows[r].status = "WAIT" /\ r \in 1 .. Len(rows)
      BY DEF Waiting, TypeOK, StateTypes
    <3>7. ~ (rows[r].runs >= 1)
      BY <3>6 DEF RunsInv, RunsOf, Terminal
    <3>8. ASSUME NEW q \in 1 .. Len(rows) PROVE RunsOf(q)'
      BY <2>1, <3>3, <3>4, <3>7 DEF RunsInv, RunsOf
    <3> QED
      BY <2>1, <3>2, <3>5, <3>8 DEF RunsInv
  <2>3. CASE sched' = [sched EXCEPT ![e].pc = "release"]
    <3>1. LockHeld'
      BY <1>0, <2>1, <2>3 DEF RunsInv, LockHeld
    <3>2. ASSUME NEW f \in Engine, NEW r \in 1 .. Len(rows)
          PROVE  (Holds(f, r)' => Holds(f, r)) /\ (AtUpdate(f, r)' => AtUpdate(f, r))
      BY <1>0, <2>1, <2>3 DEF Holds, AtUpdate, SchedSet
    <3> QED
      BY <2>1, <3>1, <3>2, ShrinkingStep
  <2> QED
    BY <1>2, <2>2, <2>3 DEF SelectTask
<1>3. CASE ClaimTask(e)
  <2>0. PICK r : r = sched[e].row
    OBVIOUS
  <2>1. /\ lock = e /\ sched[e].pc = "update" /\ r \in 1 .. Len(rows)
        /\ UNCHANGED << rows, lock >> /\ AtUpdate(e, r)
    BY <1>0, <1>3, <2>0 DEF ClaimTask, RunsInv, LockHeld, RowExists, AtUpdate
  <2>2. /\ sched'[e].pc = "release" /\ sched'[e].row = r
        /\ \A f \in Engine \ {e} : sched'[f] = sched[f]
    BY <1>0, <1>3, <2>0 DEF ClaimTask, SchedSet
  <2>3. LockHeld'
    BY <2>1, <2>2 DEF RunsInv, LockHeld
  <2>4. \A f \in Engine : ~ Holds(f, r)
    BY <1>3, <2>0 DEF ClaimTask, Locked
  <2>5. \A f \in Engine : \A q \in 1 .. Len(rows) :
           /\ Holds(f, q)' => Holds(f, q) \/ (f = e /\ q = r)
           /\ AtUpdate(f, q)' => AtUpdate(f, q) /\ f # e
    BY <2>2 DEF Holds, AtUpdate
  <2>6. \A f \in Engine : ~ AtUpdate(f, r)'
    BY <2>1, <2>2 DEF RunsInv, LockHeld, AtUpdate
  <2>7. OneHolder'
    BY <2>1, <2>4, <2>5 DEF RunsInv, OneHolder
  <2>8. ASSUME NEW q \in 1 .. Len(rows) PROVE RunsOf(q)'
    <3>1. CASE q = r
      BY <2>1, <2>6, <3>1 DEF RunsInv, RunsOf
    <3>2. CASE q # r
      BY <2>1, <2>5, <3>2 DEF RunsInv, RunsOf
    <3> QED
      BY <3>1, <3>2
  <2> QED
    BY <2>1, <2>3, <2>7, <2>8 DEF RunsInv
<1>4. CASE FetchFails(e)
  <2>1. /\ sched'[e].pc = "release" /\ sched'[e].row = 0
        /\ \A f \in Engine \ {e} : sched'[f] = sched[f]
    BY <1>0, <1>4 DEF FetchFails, SchedSet
  <2>2. lock = e /\ UNCHANGED << rows, lock >>
    BY <1>4 DEF FetchFails, RunsInv, LockHeld
  <2>3. LockHeld'
    BY <2>1, <2>2 DEF RunsInv, LockHeld
  <2>4. ASSUME NEW f \in Engine, NEW r \in 1 .. Len(rows)
        PROVE  (Holds(f, r)' => Holds(f, r)) /\ (AtUpdate(f, r)' => AtUpdate(f, r))
    BY <2>1 DEF Holds, AtUpdate
  <2> QED
    BY <2>2, <2>3, <2>4, ShrinkingStep
<1>5. CASE Release(e)
  <2>1. lock = e /\ lock' = Nobody /\ UNCHANGED rows
    BY <1>5 DEF Release, RunsInv, LockHeld
  <2>2. CASE sched[e].row = 0
    BY <1>5, <2>1, <2>2, AbandonStep DEF Release
  <2>3. CASE sched[e].row # 0
    <3>1. sched' = [sched EXCEPT ![e] =
                      [sched[e] EXCEPT !.pc = "run", !.attempt = 1, !.step = 1]]
      BY <1>5, <2>3 DEF Release
    <3>2. /\ sched'[e].pc = "run" /\ sched'[e].row = sched[e].row
          /\ \A f \in Engine \ {e} : sched'[f] = sched[f]
      BY <1>0, <3>1 DEF SchedSet
    <3>3. LockHeld'
      BY <2>1, <3>2 DEF RunsInv, LockHeld
    <3>4. ASSUME NEW f \in Engine, NEW r \in 1 .. Len(rows)
          PROVE  (Holds(f, r)' => Holds(f, r)) /\ (AtUpdate(f, r)' => AtUpdate(f, r))
      BY <1>5, <3>2 DEF Holds, AtUpdate, Release
    <3> QED
      BY <2>1, <3>3, <3>4, ShrinkingStep
  <2> QED
    BY <2>2, <2>3
<1> QED
  BY <1>1, <1>2, <1>3, <1>4, <1>5 DEF Schedule

(* The steps of an execution; the commit is what counts a run. *)
LEMMA RunsCommit ==
    ASSUME TypeOK, RunsInv, NEW e \in Engine, Commit(e)
    PROVE  RunsInv'
<1>a. PICK r : r = sched[e].row
  OBVIOUS
<1> DEFINE w == [rows[r] EXCEPT !.status = Outcome(e), !.runs = @ + 1]
<1>0. rows \in Seq(RowSet) /\ sched \in [Engine -> SchedSet] /\ RowExists(sched[e])
  BY DEF TypeOK, StateTypes, References
<1>1. r \in 1 .. Len(rows) /\ Holds(e, r)
  BY <1>0, <1>a DEF Commit, Finished, RowExists, Holds
<1>2. rows[r] \in RowSet
  BY <1>0, <1>1, ElementOfSeq
<1>3. w \in RowSet /\ w.runs = rows[r].runs + 1 /\ w.status \in Terminal
  <2>2. rows[r].runs + 1 \in Nat /\ Outcome(e) \in Status /\ Outcome(e) \in Terminal
    BY <1>2 DEF RowSet, Outcome, Status, Terminal
  <2>3. w \in RowSet
    BY <1>2, <2>2, RowRecord
  <2>4. w.runs = rows[r].runs + 1 /\ w.status = Outcome(e)
    BY <1>2 DEF RowSet
  <2> QED
    BY <2>2, <2>3, <2>4
<1>4. rows' = [rows EXCEPT ![r] = w] /\ sched' = [sched EXCEPT ![e] = Idle] /\ lock' = lock
  BY <1>a DEF Commit
<1> HIDE DEF w
<1>5. Len(rows') = Len(rows) /\ \A q \in 1 .. Len(rows) : rows'[q] = IF q = r THEN w ELSE rows[q]
  BY <1>0, <1>1, <1>3, <1>4, ExceptSeq
<1>6. sched'[e] = Idle /\ \A f \in Engine \ {e} : sched'[f] = sched[f]
  BY <1>0, <1>4
<1>7. LockHeld'
  BY <1>4, <1>6 DEF RunsInv, LockHeld, Idle
<1>8. \A f \in Engine : \A q \in 1 .. Len(rows) :
         /\ Holds(f, q)' => Holds(f, q) /\ f # e
         /\ AtUpdate(f, q)' => AtUpdate(f, q)
  BY <1>6 DEF Holds, AtUpdate, Idle
<1>9. OneHolder'
  BY <1>5, <1>8 DEF RunsInv, OneHolder
<1>10. \A f \in Engine : ~ Holds(f, r)'
  BY <1>1, <1>8 DEF RunsInv, OneHolder
<1>11. RunsOf(r)'
  <2>1. rows[r].runs \in {0, 1}
    BY <1>1, <1>2 DEF RunsInv, RunsOf, RowSet
  <2>2. rows[r].runs = 1 => \A f \in Engine : ~ AtUpdate(f, r)'
    BY <1>1, <1>8 DEF RunsInv, RunsOf
  <2>3. rows'[r] = w
    BY <1>1, <1>5
  <2> QED
    BY <1>3, <1>10, <2>1, <2>2, <2>3 DEF RunsOf
<1>12. ASSUME NEW q \in 1 .. Len(rows), q # r PROVE RunsOf(q)'
  BY <1>5, <1>8, <1>12 DEF RunsInv, RunsOf
<1> QED
  BY <1>5, <1>7, <1>9, <1>11, <1>12 DEF RunsInv

(* The other steps of an execution. *)
LEMMA RunsExecute ==
    ASSUME TypeOK, RunsInv, NEW e \in Engine, Execute(e)
    PROVE  RunsInv'
<1>0. sched[e] \in SchedSet /\ sched[e].uuid \in Nat
  BY DEF TypeOK, StateTypes, SchedSet
<1>1. ASSUME sched[e].pc = "run", NEW u \in Nat, Advance(e, u), UNCHANGED << rows, lock >>
      PROVE  RunsInv'
  <2> DEFINE s == [sched[e] EXCEPT !.step = @ + 1, !.uuid = u]
  <2>1. s \in SchedSet
    BY <1>1, AdvanceState
  <2>2. s.row = sched[e].row /\ s.pc = "run"
    BY <1>0, <1>1 DEF SchedSet
  <2>3. sched' = [sched EXCEPT ![e] = s]
    BY <1>1 DEF Advance
  <2> HIDE DEF s
  <2> QED
    BY <1>1, <2>1, <2>2, <2>3, RunningStep
<1>2. ASSUME sched[e].pc = "run", Retry(e), UNCHANGED << rows, lock >>
      PROVE  RunsInv'
  <2> DEFINE s == RetryOf(sched[e])
  <2>1. s \in SchedSet
    BY <1>2, RetryState
  <2>2. s.row = sched[e].row /\ s.pc \in {"run", "failed"}
    BY <1>0, <1>2 DEF SchedSet, RetryOf
  <2>3. sched' = [sched EXCEPT ![e] = s]
    BY <1>2 DEF Retry, RetryOf
  <2> HIDE DEF s
  <2> QED
    BY <1>2, <2>1, <2>2, <2>3, RunningStep
<1>3. CASE PublishTask(e)
  <2>1. PICK u : u <= MaxUuids /\ u \in Nat /\ Advance(e, u)
    <3> DEFINE s == Steps(TaskOf(e))[sched[e].step]
               u == IF s.status = "SLEEP" THEN uuids + 1 ELSE 0
    <3>1. u \in Nat
      BY DEF TypeOK, StateTypes
    <3>2. u <= MaxUuids /\ Advance(e, u)
      BY <1>3 DEF PublishTask
    <3> QED
      BY <3>1, <3>2
  <2> QED
    BY <1>1, <1>3, <2>1 DEF PublishTask, Running
<1>4. CASE SkipStep(e) \/ PublishEvent(e)
  BY <1>0, <1>1, <1>4 DEF SkipStep, PublishEvent, Running
<1>5. CASE EventFails(e) \/ TaskErrors(e)
  BY <1>2, <1>5 DEF EventFails, TaskErrors, Running
<1>6. CASE CallAgent(e)
  BY <1>0, <1>1, <1>2, <1>6 DEF CallAgent, Running
<1>7. CASE CompleteWorkflow(e)
  BY <1>0, <1>1, <1>2, <1>7 DEF CompleteWorkflow, Running
<1>8. CASE Panic(e)
  <2> DEFINE s == [sched[e] EXCEPT !.pc = "dead"]
  <2>1. s \in SchedSet /\ s.row = sched[e].row /\ s.pc = "dead"
    BY <1>0 DEF SchedSet, PC
  <2> QED
    BY <1>8, <2>1, RunningStep DEF Panic, Running
<1>9. CASE Commit(e)
  BY <1>9, RunsCommit
<1>10. CASE Rollback(e)
  BY <1>10, AbandonStep DEF Rollback
<1> QED
  BY <1>3, <1>4, <1>5, <1>6, <1>7, <1>8, <1>9, <1>10 DEF Execute

(* The observer inserts rows that nobody works on, and makes a row WAIT    *)
(* again only when no transaction holds it.                                *)
LEMMA RunsObserve ==
    ASSUME TypeOK, RunsInv, NEW e \in Engine, Observe(e)
    PROVE  RunsInv'
<1>0. rows \in Seq(RowSet) /\ observer \in [Engine -> SUBSET Msg] /\ Len(rows) \in Nat
  BY DEF TypeOK, StateTypes
<1>1. CASE Receive(e) \/ LockWaitTimeout(e) \/ ObserveFails(e)
  BY <1>1, OtherStep DEF Receive, LockWaitTimeout, ObserveFails
<1>2. CASE InsertTask(e)
  <2>1. PICK m \in observer[e] :
          rows' = Append(rows, [inst |-> m.inst, task |-> m.task, uuid |-> m.uuid,
                                status |-> m.status, runs |-> 0])
    BY <1>2 DEF InsertTask
  <2> DEFINE w == [inst |-> m.inst, task |-> m.task, uuid |-> m.uuid,
                   status |-> m.status, runs |-> 0]
  <2>2. m \in Msg
    BY <1>0
  <2>3. w \in RowSet /\ w.runs = 0
    BY <2>2 DEF Msg, RowSet, Status
  <2> HIDE DEF w
  <2>4. /\ Len(rows') = Len(rows) + 1
        /\ \A q \in 1 .. Len(rows) : rows'[q] = rows[q]
        /\ rows'[Len(rows) + 1] = w
    BY <1>0, <2>1, <2>3, AppendProperties DEF w
  <2>5. UNCHANGED << lock, sched >>
    BY <1>2 DEF InsertTask
  <2>6. LockHeld'
    BY <2>5 DEF RunsInv, LockHeld
  <2>7. \A f \in Engine : sched[f].row \in 0 .. Len(rows)
    BY DEF TypeOK, References, RowExists
  <2>8. OneHolder'
    BY <1>0, <2>4, <2>5, <2>7 DEF RunsInv, OneHolder, Holds
  <2>9. ASSUME NEW q \in 1 .. Len(rows) PROVE RunsOf(q)'
    BY <2>4, <2>5 DEF RunsInv, RunsOf, Holds, AtUpdate
  <2>10. ASSUME NEW q \in 1 .. Len(rows'), q \notin 1 .. Len(rows) PROVE RunsOf(q)'
    <3>1. q = Len(rows) + 1
      BY <1>0, <2>4, <2>10
    <3>2. rows'[q].runs = 0
      BY <2>3, <2>4, <3>1
    <3> QED
      BY <3>2 DEF RunsOf
  <2> QED
    BY <2>6, <2>8, <2>9, <2>10 DEF RunsInv
<1>3. CASE UpdateTask(e)
  <2>1. PICK m \in observer[e] :
          /\ m.id # 0
          /\ ~ Locked(m.id)
          /\ rows' = [rows EXCEPT ![m.id] = [@ EXCEPT !.status = m.status, !.runs = 0]]
    BY <1>3 DEF UpdateTask
  <2> DEFINE w == [rows[m.id] EXCEPT !.status = m.status, !.runs = 0]
  <2>2. m \in Msg /\ m.id \in 1 .. Len(rows)
    BY <1>0, <2>1 DEF TypeOK, References, RefersTo
  <2>3. rows[m.id] \in RowSet /\ m.status \in Status
    BY <1>0, <2>2, ElementOfSeq DEF Msg, Status
  <2>4. w \in RowSet /\ w.runs = 0
    <3>1. w \in RowSet
      BY <2>3, RowRecord
    <3> QED
      BY <2>3, <3>1 DEF RowSet
  <2>5. rows' = [rows EXCEPT ![m.id] = w]
    BY <2>1
  <2> HIDE DEF w
  <2>6. /\ Len(rows') = Len(rows)
        /\ \A q \in 1 .. Len(rows) : rows'[q] = IF q = m.id THEN w ELSE rows[q]
    BY <1>0, <2>2, <2>4, <2>5, ExceptSeq
  <2>7. UNCHANGED << lock, sched >>
    BY <1>3 DEF UpdateTask
  <2>8. LockHeld' /\ OneHolder'
    BY <2>6, <2>7 DEF RunsInv, LockHeld, OneHolder, Holds
  <2>9. ASSUME NEW q \in 1 .. Len(rows) PROVE RunsOf(q)'
    <3>1. CASE q = m.id
      BY <2>4, <2>6, <3>1 DEF RunsOf
    <3>2. CASE q # m.id
      BY <2>6, <2>7, <3>2 DEF RunsInv, RunsOf, Holds, AtUpdate
    <3> QED
      BY <3>1, <3>2
  <2> QED
    BY <2>6, <2>8, <2>9 DEF RunsInv
<1> QED
  BY <1>1, <1>2, <1>3 DEF Observe

(* RunsInv is inductive relative to TypeOK. *)
LEMMA RunsNext == TypeOK /\ RunsInv /\ [Next]_vars => RunsInv'
<1> SUFFICES ASSUME TypeOK, RunsInv, [Next]_vars PROVE RunsInv'
  OBVIOUS
<1>1. CASE UNCHANGED vars
  BY <1>1, OtherStep DEF vars
<1>2. ASSUME NEW e \in Engine, NEW c \in Caller, Start(c, e) \/ Transition(c, e)
      PROVE  RunsInv'
  BY <1>2, OtherStep DEF Start, Transition
<1>3. ASSUME NEW e \in Engine, Crash(e) PROVE RunsInv'
  BY <1>3, AbandonStep DEF Crash
<1>4. CASE Next
  BY <1>2, <1>3, <1>4, RunsSchedule, RunsExecute, RunsObserve DEF Next
<1> QED
  BY <1>1, <1>4

(* However many engines share the database, and whatever crashes, fails or *)
(* is delivered twice, one readiness of a task instance is executed to its *)
(* commit at most twice.                                                   *)
THEOREM TwoRunsAtMost == Spec => []AtMostTwoRuns
<1>1. TypeOK /\ RunsInv => AtMostTwoRuns
  BY DEF RunsInv, RunsOf, AtMostTwoRuns, TypeOK, StateTypes
<1> QED
  BY <1>1, TypeCorrect, RunsInit, RunsNext, PTL DEF Spec

-----------------------------------------------------------------------------
(* With one engine nothing that has ended is executed again.               *)
(*                                                                         *)
(* The invariant reaches back to the moment of the select (AtUpdate), and  *)
(* needs to know that whatever updates a row makes it WAIT (WakeUps).      *)

WakesUp(m) == m.id # 0 => m.status = "WAIT"

WakeUps ==
    /\ \A e \in Engine : \A m \in observer[e] : WakesUp(m)
    /\ \A k \in calls : WakesUp(k.msg)

ClaimedIsWaiting ==
    \A e \in Engine : \A r \in 1 .. Len(rows) :
        Holds(e, r) \/ AtUpdate(e, r) => rows[r].status = "WAIT"

(* Only Transition names a row, and it does so with the status WAIT. *)
LEMMA WakeUpsNext == TypeOK /\ WakeUps /\ [Next]_vars => WakeUps'
<1> SUFFICES ASSUME TypeOK, WakeUps, [Next]_vars PROVE WakeUps'
  OBVIOUS
<1>0. observer \in [Engine -> SUBSET Msg]
  BY DEF TypeOK, StateTypes
<1>1. ASSUME UNCHANGED << observer, calls >> PROVE WakeUps'
  BY <1>1 DEF WakeUps
<1>2. ASSUME NEW e \in Engine, observer' = [observer EXCEPT ![e] = {}], UNCHANGED calls
      PROVE  WakeUps'
  BY <1>0, <1>2 DEF WakeUps
<1>3. ASSUME NEW e \in Engine, Schedule(e) PROVE WakeUps'
  BY <1>1, <1>3 DEF Schedule, Obtain, SelectTask, ClaimTask, FetchFails, Release
<1>4. ASSUME NEW e \in Engine, Execute(e) PROVE WakeUps'
  <2>1. CASE PublishTask(e)
    <3> DEFINE s == Steps(TaskOf(e))[sched[e].step]
               m == [id |-> 0, inst |-> rows[sched[e].row].inst, task |-> s.to,
                     uuid |-> IF s.status = "SLEEP" THEN uuids + 1 ELSE 0,
                     status |-> s.status]
    <3>1. observer' = [observer EXCEPT ![e] = {m}] /\ UNCHANGED calls
      BY <2>1 DEF PublishTask
    <3>2. m.id = 0
      OBVIOUS
    <3> HIDE DEF m
    <3> QED
      BY <1>0, <3>1, <3>2 DEF WakeUps, WakesUp
  <2>2. CASE ~ PublishTask(e)
    <3>1. UNCHANGED << observer, calls >>
      BY <1>4, <2>2 DEF Execute, SkipStep, PublishEvent, EventFails, CallAgent,
                        CompleteWorkflow, TaskErrors, Panic, Commit, Rollback
    <3> QED
      BY <1>1, <3>1
  <2> QED
    BY <2>1, <2>2
<1>5. ASSUME NEW e \in Engine, Observe(e) PROVE WakeUps'
  <2>1. CASE Receive(e)
    <3>1. PICK k \in calls : /\ calls' = calls \ {k}
                             /\ observer' = [observer EXCEPT ![e] = {k.msg}]
      BY <2>1 DEF Receive
    <3> QED
      BY <1>0, <3>1 DEF WakeUps
  <2>2. CASE ~ Receive(e)
    <3>1. observer' = [observer EXCEPT ![e] = {}] /\ UNCHANGED calls
      BY <1>5, <2>2 DEF Observe, InsertTask, UpdateTask, LockWaitTimeout, ObserveFails
    <3> QED
      BY <1>2, <3>1
  <2> QED
    BY <2>1, <2>2
<1>6. ASSUME NEW e \in Engine, NEW c \in Caller, Start(c, e) PROVE WakeUps'
  <2>1. PICK t \in StartTask :
          calls' = calls \cup
           {[by |-> c, at |-> e,
             msg |-> [id |-> 0, inst |-> Len(instances) + 1, task |-> t,
                      uuid |-> 0, status |-> "WAIT"]]}
    BY <1>6 DEF Start
  <2>2. UNCHANGED observer
    BY <1>6 DEF Start
  <2> QED
    BY <2>1, <2>2 DEF WakeUps, WakesUp
<1>7. ASSUME NEW e \in Engine, NEW c \in Caller, Transition(c, e) PROVE WakeUps'
  <2>1. CASE UNCHANGED calls
    BY <1>1, <1>7, <2>1 DEF Transition
  <2>2. CASE ~ UNCHANGED calls
    <3>1. PICK u \in 1 .. MaxUuids : \E r \in SleepingRows(u) :
            calls' = calls \cup
              {[by |-> c, at |-> e,
                msg |-> [id |-> r, inst |-> rows[r].inst, task |-> rows[r].task,
                         uuid |-> u, status |-> "WAIT"]]}
      BY <1>7, <2>2 DEF Transition
    <3>2. UNCHANGED observer
      BY <1>7 DEF Transition
    <3> QED
      BY <3>1, <3>2 DEF WakeUps, WakesUp
  <2> QED
    BY <2>1, <2>2
<1>8. ASSUME NEW e \in Engine, Crash(e) PROVE WakeUps'
  BY <1>0, <1>8 DEF Crash, WakeUps
<1>9. CASE UNCHANGED vars
  BY <1>1, <1>9 DEF vars
<1> QED
  BY <1>3, <1>4, <1>5, <1>6, <1>7, <1>8, <1>9 DEF Next

(* A row is selected when it is WAIT, and until the engine is done with it *)
(* only the observer can write it.                                         *)
LEMMA ClaimedNext ==
    ASSUME NEW only, Engine = {only}, TypeOK, WakeUps, ClaimedIsWaiting, [Next]_vars
    PROVE  ClaimedIsWaiting'
<1>0. /\ rows \in Seq(RowSet) /\ Len(rows) \in Nat
      /\ sched \in [Engine -> SchedSet] /\ observer \in [Engine -> SUBSET Msg]
      /\ \A e \in Engine : RowExists(sched[e])
  BY DEF TypeOK, StateTypes, References
<1>1. ASSUME UNCHANGED rows,
             \A e \in Engine : \A r \in 1 .. Len(rows) :
                (Holds(e, r) \/ AtUpdate(e, r))' =>
                    Holds(e, r) \/ AtUpdate(e, r) \/ rows[r].status = "WAIT"
      PROVE  ClaimedIsWaiting'
  BY <1>1 DEF ClaimedIsWaiting
<1>2. ASSUME UNCHANGED << rows, sched >> PROVE ClaimedIsWaiting'
  BY <1>2 DEF ClaimedIsWaiting, Holds, AtUpdate
<1>3. ASSUME NEW e \in Engine, Schedule(e) PROVE ClaimedIsWaiting'
  <2>1. UNCHANGED rows
    BY <1>3 DEF Schedule, Obtain, SelectTask, ClaimTask, FetchFails, Release
  <2>2. ASSUME NEW f \in Engine, NEW r \in 1 .. Len(rows), (Holds(f, r) \/ AtUpdate(f, r))'
        PROVE  Holds(f, r) \/ AtUpdate(f, r) \/ rows[r].status = "WAIT"
    <3>1. CASE Obtain(e)
      BY <1>0, <2>2, <3>1 DEF Obtain, Holds, AtUpdate, SchedSet
    <3>2. CASE SelectTask(e)
      BY <1>0, <2>2, <3>2 DEF SelectTask, Waiting, Holds, AtUpdate, SchedSet, RowExists
    <3>3. CASE ClaimTask(e)
      BY <1>0, <2>2, <3>3 DEF ClaimTask, Holds, AtUpdate, SchedSet
    <3>4. CASE FetchFails(e)
      BY <1>0, <2>2, <3>4 DEF FetchFails, Holds, AtUpdate, SchedSet
    <3>5. CASE Release(e)
      BY <1>0, <2>2, <3>5 DEF Release, Idle, Holds, AtUpdate, SchedSet
    <3> QED
      BY <1>3, <3>1, <3>2, <3>3, <3>4, <3>5 DEF Schedule
  <2> QED
    BY <1>1, <2>1, <2>2
<1>4. ASSUME NEW e \in Engine, Execute(e) PROVE ClaimedIsWaiting'
  <2>1. CASE Commit(e)
    <3>1. sched' = [sched EXCEPT ![e] = Idle] /\ e = only
      BY <2>1 DEF Commit
    <3>2. \A f \in Engine : sched'[f].pc = "idle"
      BY <1>0, <3>1 DEF Idle
    <3> QED
      BY <3>2 DEF ClaimedIsWaiting, Holds, AtUpdate
  <2>2. CASE ~ Commit(e)
    <3>1. UNCHANGED rows
      BY <1>4, <2>2 DEF Execute, PublishTask, SkipStep, PublishEvent, EventFails, CallAgent,
                        CompleteWorkflow, TaskErrors, Panic, Rollback
    <3>2. sched[e].pc \in {"run", "failed"}
      BY <1>4 DEF Execute, PublishTask, SkipStep, PublishEvent, EventFails, CallAgent,
                  CompleteWorkflow, TaskErrors, Panic, Rollback, Commit, Finished, Running
    <3>3. \/ \E u : Advance(e, u)
          \/ Retry(e)
          \/ sched' = [sched EXCEPT ![e].pc = "dead"]
          \/ sched' = [sched EXCEPT ![e] = Idle]
      BY <1>4, <2>2 DEF Execute, PublishTask, SkipStep, PublishEvent, EventFails, CallAgent,
                        CompleteWorkflow, TaskErrors, Panic, Rollback
    <3>4. /\ sched'[e].pc \in {"run", "failed", "dead", "idle"}
          /\ sched'[e].row = sched[e].row \/ sched'[e].pc = "idle"
      <4>1. sched[e] \in SchedSet
        BY <1>0
      <4>2. CASE \E u : Advance(e, u)
        BY <1>0, <3>2, <4>1, <4>2 DEF Advance, SchedSet
      <4>3. CASE Retry(e)
        BY <1>0, <3>2, <4>1, <4>3 DEF Retry, SchedSet
      <4>4. CASE sched' = [sched EXCEPT ![e].pc = "dead"]
        BY <1>0, <4>1, <4>4 DEF SchedSet
      <4>5. CASE sched' = [sched EXCEPT ![e] = Idle]
        BY <1>0, <4>5 DEF Idle
      <4> QED
        BY <3>3, <4>2, <4>3, <4>4, <4>5
    <3>5. \A f \in Engine : f = e
      OBVIOUS
    <3> QED
      BY <1>1, <3>1, <3>2, <3>4, <3>5 DEF Holds, AtUpdate
  <2> QED
    BY <2>1, <2>2
<1>5. ASSUME NEW e \in Engine, Observe(e) PROVE ClaimedIsWaiting'
  <2>1. UNCHANGED sched
    BY <1>5 DEF Observe, Receive, InsertTask, UpdateTask, LockWaitTimeout, ObserveFails
  <2>2. CASE InsertTask(e)
    <3>1. PICK m \in observer[e] :
            rows' = Append(rows, [inst |-> m.inst, task |-> m.task, uuid |-> m.uuid,
                                  status |-> m.status, runs |-> 0])
      BY <2>2 DEF InsertTask
    <3> DEFINE w == [inst |-> m.inst, task |-> m.task, uuid |-> m.uuid,
                     status |-> m.status, runs |-> 0]
    <3>2. w \in RowSet
      BY <1>0 DEF Msg, RowSet, Status
    <3> HIDE DEF w
    <3>3. Len(rows') = Len(rows) + 1 /\ \A q \in 1 .. Len(rows) : rows'[q] = rows[q]
      BY <1>0, <3>1, <3>2, AppendProperties DEF w
    <3>4. \A f \in Engine : sched'[f].row \in 0 .. Len(rows)
      BY <1>0, <2>1 DEF RowExists
    <3> QED
      BY <1>0, <2>1, <3>3, <3>4 DEF ClaimedIsWaiting, Holds, AtUpdate
  <2>3. CASE UpdateTask(e)
    <3>1. PICK m \in observer[e] :
            /\ m.id # 0
            /\ rows' = [rows EXCEPT ![m.id] = [@ EXCEPT !.status = m.status, !.runs = 0]]
      BY <2>3 DEF UpdateTask
    <3> DEFINE w == [rows[m.id] EXCEPT !.status = m.status, !.runs = 0]
    <3>2. m \in Msg /\ m.id \in 1 .. Len(rows) /\ m.status = "WAIT"
      BY <1>0, <3>1 DEF TypeOK, References, RefersTo, WakeUps, WakesUp
    <3>3. rows[m.id] \in RowSet /\ m.status \in Status
      BY <1>0, <3>2, ElementOfSeq DEF Status
    <3>4. w \in RowSet
      BY <3>3, RowRecord
    <3>5. w.status = "WAIT"
      BY <3>2, <3>3 DEF RowSet
    <3>6. rows' = [rows EXCEPT ![m.id] = w]
      BY <3>1
    <3> HIDE DEF w
    <3>7. /\ Len(rows') = Len(rows)
          /\ \A q \in 1 .. Len(rows) : rows'[q] = IF q = m.id THEN w ELSE rows[q]
      BY <1>0, <3>2, <3>4, <3>6, ExceptSeq
    <3> QED
      BY <2>1, <3>5, <3>7 DEF ClaimedIsWaiting, Holds, AtUpdate
  <2>4. CASE ~ InsertTask(e) /\ ~ UpdateTask(e)
    BY <1>2, <1>5, <2>4 DEF Observe, Receive, LockWaitTimeout, ObserveFails
  <2> QED
    BY <2>2, <2>3, <2>4
<1>6. ASSUME NEW e \in Engine, NEW c \in Caller, Start(c, e) \/ Transition(c, e)
      PROVE  ClaimedIsWaiting'
  BY <1>2, <1>6 DEF Start, Transition
<1>7. ASSUME NEW e \in Engine, Crash(e) PROVE ClaimedIsWaiting'
  <2>1. UNCHANGED rows /\ \A f \in Engine : sched'[f].pc = "idle" \/ sched'[f] = sched[f]
    BY <1>0, <1>7 DEF Crash, Idle
  <2> QED
    BY <1>1, <2>1 DEF Holds, AtUpdate
<1>8. CASE UNCHANGED vars
  BY <1>2, <1>8 DEF vars
<1> QED
  BY <1>3, <1>4, <1>5, <1>6, <1>7, <1>8 DEF Next

(* What a deployment with a single engine executes is WAIT in the          *)
(* database, even when it crashes, when callbacks are duplicated or when   *)
(* the database fails: a task instance that has ended is executed again    *)
(* only if a duplicated callback has made it WAIT again.                   *)
THEOREM SingleEngineRunsWaiting ==
    ASSUME NEW only, Engine = {only}
    PROVE  Spec => []ExecutingIsWaiting
<1>1. Init => WakeUps /\ ClaimedIsWaiting
  BY DEF Init, WakeUps, ClaimedIsWaiting
<1>2. TypeOK /\ WakeUps /\ ClaimedIsWaiting /\ [Next]_vars => ClaimedIsWaiting'
  BY ClaimedNext
<1>3. TypeOK /\ ClaimedIsWaiting => ExecutingIsWaiting
  BY DEF TypeOK, StateTypes, ClaimedIsWaiting, ExecutingIsWaiting
<1> QED
  BY <1>1, <1>2, <1>3, WakeUpsNext, TypeCorrect, PTL DEF Spec
=============================================================================
