-------------------------- MODULE LifecycleProofs --------------------------
(***************************************************************************)
(* A service that answers an event at most once wakes a sleeping task      *)
(* instance at most once, and with one engine Scheduling implements        *)
(* TaskLifecycle.                                                          *)
(***************************************************************************)
EXTENDS FlowProofs

(* No two schedulers have drawn the same id. *)
Apart == \A e, f \in Engine : sched[e].uuid # 0 /\ sched[e].uuid = sched[f].uuid => e = f

Unannounced(e) == sched[e].uuid # 0 /\ EventAhead(e) => callbacks[sched[e].uuid] = -1

(* The event with id u was published and answered. *)
Spent(u) == callbacks[u] = 0

AwakeIsSpent(r) == rows[r].uuid # 0 /\ rows[r].status # "SLEEP" => Spent(rows[r].uuid)

(* A transition on its way to the database. *)
OnItsWay(m) == m.id # 0 => Spent(m.uuid) /\ rows[m.id].status = "SLEEP"

(* No two of them are for the same row. *)
OneOnItsWay ==
    /\ \A k, l \in calls : k.msg.id # 0 /\ k.msg.id = l.msg.id => k = l
    /\ \A e, f \in Engine : \A m \in observer[e], n \in observer[f] : m.id # 0 /\ m.id = n.id => e = f
    /\ \A e \in Engine : \A m \in observer[e] : \A k \in calls : m.id # 0 => m.id # k.msg.id

WakeOnceInv ==
    /\ Apart
    /\ \A u \in 1 .. MaxUuids : callbacks[u] <= 1
    /\ \A e \in Engine : Fresh(e) /\ Unannounced(e)
    /\ \A r \in 1 .. Len(rows) : AwakeIsSpent(r)
    /\ \A e \in Engine : \A m \in observer[e] : OnItsWay(m)
    /\ \A k \in calls : OnItsWay(k.msg)
    /\ OneOnItsWay

(* No run publishes two events. *)
LEMMA EventOnce ==
    ASSUME NEW t \in Task, NEW i \in 1 .. Len(Steps(t)), NEW j \in 1 .. Len(Steps(t)),
           OpAt(t, i) = "event", OpAt(t, j) = "event"
    PROVE  i = j
<1> DEFINE s == Steps(t)
<1>0. Form(t, s) /\ s[i].op = "event" /\ s[j].op = "event"
  BY StepsForm DEF OpAt
<1>1. CASE SwitchForm(t, s)
  BY <1>0, <1>1 DEF SwitchForm
<1>2. CASE LastForm(t, s)
  <2>1. i \in {1, 2} /\ j \in {1, 2} /\ s[2].op = "complete"
    BY <1>2 DEF LastForm, Do
  <2> QED
    BY <1>0, <2>1
<1>3. CASE AsleepForm(t, s)
  <2>1. i \in {1, 2} /\ j \in {1, 2} /\ s[1].op = "publish"
    BY <1>3 DEF AsleepForm, Publish
  <2> QED
    BY <1>0, <2>1
<1>4. CASE LocalForm(t, s)
  <2>1. \A k \in 1 .. Len(s) : k = 1 \/ k \in 2 .. Len(s)
    OBVIOUS
  <2> QED
    BY <1>0, <1>4, <2>1 DEF LocalForm
<1>5. CASE NoForm(t, s)
  BY <1>5 DEF NoForm
<1> QED
  BY <1>0, <1>1, <1>2, <1>3, <1>4, <1>5 DEF Form

(* What comes after a step other than the first publish is no event. *)
LEMMA NoEventAfter ==
    ASSUME NEW t \in Task, NEW i \in Nat, i # 0, i <= Len(Steps(t)), OpAt(t, i) # "publish"
    PROVE  ~ EventFrom(t, i + 1)
<1>0. Len(Steps(t)) \in Nat
  BY StepsLength
<1> SUFFICES ASSUME NEW j \in i + 1 .. Len(Steps(t)), OpAt(t, j) = "event" PROVE FALSE
  BY DEF EventFrom
<1>1. j \in 1 .. Len(Steps(t)) /\ i \in 1 .. Len(Steps(t)) /\ i \in 1 .. j /\ i # j
  BY <1>0
<1>2. OpAt(t, i) = "event"
  BY <1>1, BeforeEvent
<1> QED
  BY <1>1, <1>2, EventOnce

(* A scheduler with an id and an event to come had both before the step,   *)
(* or has just drawn the id.                                               *)
LEMMA AheadBefore ==
    ASSUME TypeOK, TypeOK', QueueInv, Grows, SchedEffect,
           NEW f \in Engine, sched'[f].uuid # 0, EventAhead(f)'
    PROVE  \/ sched'[f] = sched[f]
           \/ \E m \in Msg : Publishes(f, m) /\ sched'[f].uuid = m.uuid
<1>0. sched'[f].pc = "run" /\ sched'[f].row # 0
  BY DEF EventAhead, TypeOK, References, RowExists
<1>1. ~ Stops(f) /\ ~ Dies(f) /\ ~ Retries(f)
  BY <1>0 DEF Stops, Idle, Dies, Retries, Became
<1>2. ~ Moves(f)
  <2>1. sched[f].pc \in {"idle", "select", "update", "release"} => sched[f].uuid = 0
    BY DEF QueueInv, GoodSched
  <2> QED
    BY <2>1 DEF Moves
<1>3. ASSUME NEW op \in {"skip", "event", "a2a", "complete"}, Advances(f, op) PROVE FALSE
  <2>1. Running(f, op) /\ sched'[f].row = sched[f].row /\ sched'[f].step = sched[f].step + 1
    BY <1>3 DEF Advances, Became
  <2>2. sched[f].row # 0 /\ sched[f].pc = "run"
    BY <1>0, <2>1 DEF Running
  <2>3. PICK t \in Task, i \in Nat : t = TaskOf(f) /\ i = sched[f].step /\ i # 0
    BY <2>2, TaskOfRow
  <2>4. TaskOf(f)' = t
    BY <2>1, <2>2, <2>3, TaskOfKeeps
  <2>5. i <= Len(Steps(t)) /\ OpAt(t, i) # "publish"
    BY <2>1, <2>3 DEF Running, OpAt
  <2>6. ~ EventFrom(t, i + 1)
    BY <2>3, <2>5, NoEventAfter
  <2> QED
    BY <2>1, <2>3, <2>4, <2>6 DEF EventAhead
<1>4. \A e \in Engine : Stops(e) \/ Moves(e) \/ Retries(e) \/ Dies(e) \/ (\E m \in Msg : Publishes(e, m))
                           \/ (\E op : Advances(e, op)) => Others(e)
  BY DEF Stops, Moves, Retries, Dies, Publishes, Advances, Became
<1>5. \A e \in Engine : Others(e) => e = f \/ sched'[f] = sched[f]
  BY DEF Others
<1>6. \A m \in Msg : Publishes(f, m) => sched'[f].uuid = m.uuid
  BY DEF Publishes, Became
<1> QED
  BY <1>1, <1>2, <1>3, <1>4, <1>5, <1>6 DEF SchedEffect

LEMMA OnceUnannounced ==
    ASSUME TypeOK, TypeOK', QueueInv, Grows, SchedEffect, CallbackEffect, Apart,
           \A e \in Engine : Unannounced(e)
    PROVE  \A e \in Engine : Unannounced(e)'
<1> SUFFICES ASSUME NEW f \in Engine, sched'[f].uuid # 0, EventAhead(f)'
             PROVE  callbacks'[sched'[f].uuid] = -1
  BY DEF Unannounced
<1>0. callbacks \in [1 .. MaxUuids -> Int] /\ uuids \in Nat /\ uuids' \in 0 .. MaxUuids
  BY SchedulingAssumption DEF TypeOK, StateTypes
<1>1. CASE sched'[f] = sched[f]
  <2>1. sched[f].row # 0 /\ sched[f].pc = "run"
    BY <1>1 DEF EventAhead, TypeOK, References, RowExists
  <2>2. TaskOf(f)' = TaskOf(f)
    BY <1>1, <2>1, TaskOfKeeps
  <2>3. EventAhead(f) /\ sched[f].uuid # 0
    BY <1>1, <2>2 DEF EventAhead
  <2>4. callbacks[sched[f].uuid] = -1
    BY <2>3 DEF Unannounced
  <2>5. ASSUME NEW g \in Engine, Advances(g, "event") \/ Retries(g), Announce(sched[g].uuid)
        PROVE  callbacks'[sched[f].uuid] = callbacks[sched[f].uuid]
    <3>1. g # f
      <4>1. ~ Advances(f, "event")
        <5>1. sched[f].step \in Nat
          BY DEF TypeOK, StateTypes, SchedSet
        <5> QED
          BY <1>1, <5>1 DEF Advances
      <4>2. ~ Retries(f)
        BY <1>1, <2>1, <2>3 DEF Retries, Became
      <4> QED
        BY <2>5, <4>1, <4>2
    <3>2. sched[g].uuid # sched[f].uuid
      BY <2>3, <3>1 DEF Apart
    <3> QED
      BY <1>0, <2>5, <3>2 DEF Announce
  <2>6. ASSUME NEW v \in 1 .. MaxUuids, Answers(v)
        PROVE  callbacks'[sched[f].uuid] = callbacks[sched[f].uuid]
    BY <1>0, <2>4, <2>6 DEF Answers
  <2> QED
    BY <1>1, <2>4, <2>5, <2>6 DEF CallbackEffect
<1>2. ASSUME NEW m \in Msg, Publishes(f, m), sched'[f].uuid = m.uuid
      PROVE  callbacks'[sched'[f].uuid] = -1
  <2>1. m.uuid = uuids + 1 /\ uuids' = uuids + 1 /\ UNCHANGED callbacks
    BY <1>2 DEF Publishes
  <2>2. m.uuid \in 1 .. MaxUuids /\ m.uuid > uuids
    BY <1>0, <2>1
  <2> QED
    BY <1>2, <2>1, <2>2 DEF QueueInv
<1> QED
  BY <1>1, <1>2, AheadBefore

LEMMA OnceApart ==
    ASSUME TypeOK, QueueInv, SchedEffect, Apart
    PROVE  Apart'
<1>0. uuids \in Nat /\ \A e \in Engine : sched[e].uuid \in Nat /\ sched[e].uuid <= uuids
  BY SchedulingAssumption DEF TypeOK, StateTypes, SchedSet, QueueInv, GoodSched
<1>1. ASSUME NEW e \in Engine, NEW f \in Engine, e # f, sched'[e].uuid # 0,
             sched'[e].uuid = sched'[f].uuid, NEW m \in Msg, Publishes(e, m), sched'[e].uuid = m.uuid
      PROVE  FALSE
  <2>1. sched'[f] = sched[f]
    BY <1>1 DEF Publishes, Became, Others
  <2>2. m.uuid = uuids + 1
    BY <1>1 DEF Publishes
  <2>3. sched[f].uuid = uuids + 1
    BY <1>1, <2>1, <2>2
  <2>4. sched[f].uuid <= uuids
    BY <1>0
  <2> QED
    BY <1>0, <2>3, <2>4
<1>2. ASSUME NEW e \in Engine, NEW f \in Engine, e # f, sched'[e].uuid # 0, sched'[e].uuid = sched'[f].uuid
      PROVE  FALSE
  <2>1. sched'[e].uuid = sched[e].uuid
    BY <1>1, <1>2, SchedUuid
  <2>2. sched'[f].uuid = sched[f].uuid
    BY <1>1, <1>2, SchedUuid
  <2> QED
    BY <1>2, <2>1, <2>2 DEF Apart
<1> QED
  BY <1>2 DEF Apart

LEMMA OnceCallbacks ==
    ASSUME Callbacks <= 1, TypeOK, CallbackEffect, \A u \in 1 .. MaxUuids : callbacks[u] <= 1
    PROVE  \A u \in 1 .. MaxUuids : callbacks'[u] <= 1
<1>0. callbacks \in [1 .. MaxUuids -> Int] /\ Callbacks \in Nat
  BY SchedulingAssumption DEF TypeOK, StateTypes
<1>1. ASSUME NEW e \in Engine, Announce(sched[e].uuid) PROVE \A u \in 1 .. MaxUuids : callbacks'[u] <= 1
  BY <1>0, <1>1 DEF Announce
<1>2. ASSUME NEW v \in 1 .. MaxUuids, Answers(v) PROVE \A u \in 1 .. MaxUuids : callbacks'[u] <= 1
  BY <1>0, <1>2 DEF Answers
<1> QED
  BY <1>1, <1>2 DEF CallbackEffect

LEMMA SpentKeeps ==
    ASSUME TypeOK, WakeOnceInv, CallbackEffect, NEW u \in 1 .. MaxUuids, Spent(u)
    PROVE  Spent(u)'
<1>0. callbacks \in [1 .. MaxUuids -> Int]
  BY DEF TypeOK, StateTypes
<1>1. ASSUME NEW e \in Engine, Running(e, "event"), Announce(sched[e].uuid) PROVE Spent(u)'
  <2>1. CASE sched[e].uuid = 0
    BY <1>1, <2>1 DEF Announce, Spent
  <2>2. CASE sched[e].uuid # 0
    <3>1. sched[e].pc = "run" /\ sched[e].row # 0
      BY <1>1 DEF Running, TypeOK, References, RowExists
    <3>2. sched[e].step \in Nat /\ TaskOf(e) \in Task
      BY <3>1, TaskOfRow
    <3>3. Len(Steps(TaskOf(e))) \in Nat /\ sched[e].step <= Len(Steps(TaskOf(e)))
          /\ OpAt(TaskOf(e), sched[e].step) = "event"
      BY <1>1, <3>2, StepsLength DEF Running, OpAt
    <3>4. EventAhead(e)
      BY <3>1, <3>2, <3>3 DEF EventAhead, EventFrom
    <3>5. callbacks[sched[e].uuid] = -1
      BY <2>2, <3>4 DEF WakeOnceInv, Unannounced
    <3>6. sched[e].uuid # u
      BY <3>5 DEF Spent
    <3> QED
      BY <1>0, <1>1, <3>6 DEF Announce, Spent
  <2> QED
    BY <2>1, <2>2
<1>2. ASSUME NEW v \in 1 .. MaxUuids, Answers(v) PROVE Spent(u)'
  BY <1>0, <1>2 DEF Answers, Spent
<1>3. CASE UNCHANGED callbacks
  BY <1>3 DEF Spent
<1> QED
  BY <1>1, <1>2, <1>3 DEF CallbackEffect

(* The ids of messages and of rows with one are ids of events. *)
LEMMA UuidRange ==
    ASSUME TypeOK, QueueInv
    PROVE  /\ \A r \in 1 .. Len(rows) : rows[r].uuid # 0 => rows[r].uuid \in 1 .. MaxUuids
           /\ \A m \in Msg : m.id # 0 /\ RefersTo(m) /\ GoodMessage(m) =>
                 m.id \in 1 .. Len(rows) /\ m.uuid = rows[m.id].uuid /\ m.uuid \in 1 .. MaxUuids
<1>0. uuids \in 0 .. MaxUuids /\ MaxUuids \in Nat /\ Len(rows) \in Nat
  BY SchedulingAssumption DEF TypeOK, StateTypes
<1>1. ASSUME NEW r \in 1 .. Len(rows), rows[r].uuid # 0 PROVE rows[r].uuid \in 1 .. MaxUuids
  <2>1. rows[r].uuid \in Nat
    <3>1. rows[r] \in RowSet
      BY ElementOfSeq DEF TypeOK, StateTypes
    <3> QED
      BY <3>1 DEF RowSet
  <2>2. rows[r].uuid <= uuids
    BY DEF QueueInv, GoodRow
  <2> QED
    BY <1>0, <1>1, <2>1, <2>2
<1>2. ASSUME NEW m \in Msg, m.id # 0, RefersTo(m), GoodMessage(m)
      PROVE  m.id \in 1 .. Len(rows) /\ m.uuid = rows[m.id].uuid /\ m.uuid \in 1 .. MaxUuids
  <2>1. m.id \in 1 .. Len(rows)
    BY <1>0, <1>2 DEF RefersTo
  <2>2. m.uuid = rows[m.id].uuid /\ m.uuid # 0
    BY <1>2 DEF GoodMessage
  <2> QED
    BY <1>1, <2>1, <2>2
<1> QED
  BY <1>1, <1>2

(* Every message of the queues, with what is known of it. *)
LEMMA Mail ==
    ASSUME TypeOK, QueueInv
    PROVE  /\ \A e \in Engine : \A m \in observer[e] : m \in Msg /\ RefersTo(m) /\ GoodMessage(m)
           /\ \A k \in calls : k.msg \in Msg /\ RefersTo(k.msg) /\ GoodMessage(k.msg)
<1>1. \A e \in Engine : \A m \in observer[e] : m \in Msg /\ RefersTo(m) /\ GoodMessage(m)
  BY DEF TypeOK, StateTypes, References, QueueInv, GoodMessages
<1>2. \A k \in calls : k.msg \in Msg /\ RefersTo(k.msg) /\ GoodMessage(k.msg)
  BY DEF TypeOK, StateTypes, References, QueueInv, GoodMessages
<1> QED
  BY <1>1, <1>2

(* Only the observer wakes a row. *)
LEMMA SleeperStays ==
    ASSUME TypeOK, QueueInv, QueueEffect,
           NEW r \in 1 .. Len(rows), rows[r].status = "SLEEP", rows'[r].status # "SLEEP"
    PROVE  \E e \in Engine : \E m \in observer[e] : Updates(e, m) /\ m.id = r
<1>1. rows'[r] # rows[r]
  OBVIOUS
<1>2. ASSUME NEW e \in Engine, NEW q \in 1 .. Len(rows), Commits(e, q) PROVE FALSE
  <2>1. q # r
    BY <1>2 DEF Commits, QueueInv, GoodSched
  <2> QED
    BY <1>1, <1>2, <2>1 DEF Commits
<1>3. ASSUME NEW e \in Engine, NEW m \in observer[e], Inserts(e, m) PROVE FALSE
  BY <1>1, <1>3 DEF Inserts
<1>4. ASSUME NEW e \in Engine, NEW m \in observer[e], Updates(e, m) PROVE m.id = r
  BY <1>1, <1>4 DEF Updates
<1>5. \A e \in Engine : (\E m \in Msg : Publishes(e, m) \/ CallEffects(e, m)) \/ (\E k \in calls : Receives(e, k))
                           \/ Drops(e) \/ Restarts(e) => UNCHANGED rows
  BY DEF Publishes, CallEffects, Calls, Receives, Drops, Restarts
<1>6. Quiet => UNCHANGED rows
  BY DEF Quiet
<1> QED
  BY <1>1, <1>2, <1>3, <1>4, <1>5, <1>6 DEF QueueEffect

LEMMA OnceRows ==
    ASSUME TypeOK, TypeOK', QueueInv, WakeOnceInv, QueueEffect, CallbackEffect, Grows
    PROVE  \A r \in 1 .. Len(rows') : AwakeIsSpent(r)'
<1>0. Len(rows) \in Nat
  BY DEF TypeOK, StateTypes
<1>1. ASSUME NEW u \in 1 .. MaxUuids, Spent(u) PROVE Spent(u)'
  BY <1>1, SpentKeeps
<1>2. ASSUME NEW r \in 1 .. Len(rows) PROVE AwakeIsSpent(r)'
  <2> SUFFICES ASSUME rows'[r].uuid # 0, rows'[r].status # "SLEEP" PROVE callbacks'[rows'[r].uuid] = 0
    BY DEF AwakeIsSpent, Spent
  <2>1. PICK u \in 1 .. MaxUuids : u = rows[r].uuid /\ u = rows'[r].uuid
    BY UuidRange DEF Grows, SameTask
  <2>2. CASE rows[r].status # "SLEEP"
    <3>1. Spent(u)
      BY <2>1, <2>2 DEF WakeOnceInv, AwakeIsSpent
    <3>2. Spent(u)'
      BY <1>1, <3>1
    <3> QED
      BY <2>1, <3>2 DEF Spent
  <2>3. CASE rows[r].status = "SLEEP"
    <3>1. PICK e \in Engine : \E m \in observer[e] : Updates(e, m) /\ m.id = r
      BY <2>3, SleeperStays
    <3>2. PICK m \in observer[e] : m.id = r
      BY <3>1
    <3>3. m.uuid = u /\ Spent(m.uuid)
      <4>1. m.id # 0
        BY <3>2
      <4>2. m \in Msg /\ RefersTo(m) /\ GoodMessage(m) /\ OnItsWay(m)
        BY Mail DEF WakeOnceInv
      <4>3. m.uuid = rows[m.id].uuid /\ Spent(m.uuid)
        BY <4>1, <4>2 DEF GoodMessage, OnItsWay
      <4> QED
        BY <2>1, <3>2, <4>3
    <3>4. Spent(u)'
      BY <1>1, <3>3
    <3> QED
      BY <2>1, <3>4 DEF Spent
  <2> QED
    BY <2>2, <2>3
<1>3. ASSUME NEW e \in Engine, NEW m \in observer[e], Inserts(e, m)
      PROVE  \A r \in 1 .. Len(rows') : AwakeIsSpent(r)'
  <2>1. PICK n \in Nat : n = Len(rows) + 1
    BY <1>0
  <2>2. Len(rows') = n /\ rows'[n].uuid = m.uuid /\ rows'[n].status = m.status
    BY <1>3, <2>1 DEF Inserts
  <2>3. m.status = "SLEEP" <=> m.uuid # 0
    BY <1>3, Mail DEF GoodMessage, Inserts
  <2>4. AwakeIsSpent(n)'
    BY <2>2, <2>3 DEF AwakeIsSpent
  <2>5. \A r \in 1 .. n : r = n \/ r \in 1 .. Len(rows)
    BY <1>0, <2>1
  <2> QED
    BY <1>2, <2>2, <2>4, <2>5
<1> QED
  BY <1>2, <1>3, RowsBefore

(* The row of a transition sleeps until the transition reaches it. *)
LEMMA OnceOnItsWay ==
    ASSUME TypeOK, TypeOK', QueueInv, WakeOnceInv, QueueEffect, CallbackEffect, Grows
    PROVE  /\ \A e \in Engine : \A m \in observer'[e] : OnItsWay(m)'
           /\ \A k \in calls' : OnItsWay(k.msg)'
<1>0. observer \in [Engine -> SUBSET Msg] /\ callbacks \in [1 .. MaxUuids -> Int]
  BY DEF TypeOK, StateTypes
<1>1. ASSUME NEW m \in Msg, m.id # 0, RefersTo(m), GoodMessage(m), OnItsWay(m),
             ~ \E e \in Engine : \E n \in observer[e] : Updates(e, n) /\ n.id = m.id
      PROVE  OnItsWay(m)'
  <2>1. m.id \in 1 .. Len(rows) /\ m.uuid \in 1 .. MaxUuids
    BY <1>1, UuidRange
  <2>2. Spent(m.uuid)'
    BY <1>1, <2>1, SpentKeeps DEF OnItsWay
  <2>3. rows'[m.id].status = "SLEEP"
    BY <1>1, <2>1, SleeperStays DEF OnItsWay
  <2> QED
    BY <2>2, <2>3 DEF OnItsWay
<1>2. ASSUME NEW f \in Engine, NEW m \in observer'[f] PROVE OnItsWay(m)'
  <2>1. CASE m.id = 0
    BY <2>1 DEF OnItsWay
  <2>2. CASE m.id # 0 /\ m \in observer[f]
    <3>1. ASSUME NEW e \in Engine, NEW n \in observer[e], Updates(e, n), n.id = m.id PROVE FALSE
      <4>1. e = f
        BY <2>2, <3>1 DEF WakeOnceInv, OneOnItsWay
      <4>2. observer'[f] = {}
        BY <1>0, <3>1, <4>1 DEF Updates
      <4> QED
        BY <4>2
    <3> QED
      BY <1>1, <2>2, <3>1, Mail DEF WakeOnceInv
  <2>3. ASSUME NEW k \in calls, k.msg = m, m.id # 0 PROVE OnItsWay(m)'
    <3>1. ~ \E e \in Engine : \E n \in observer[e] : Updates(e, n) /\ n.id = m.id
      BY <2>3 DEF WakeOnceInv, OneOnItsWay
    <3> QED
      BY <1>1, <2>3, <3>1, Mail DEF WakeOnceInv
  <2>4. ~ (m.id # 0 /\ \E e \in Engine : Publishes(e, m))
    BY DEF Publishes
  <2> QED
    BY <2>1, <2>2, <2>3, <2>4, QueuedBefore
<1>3. ASSUME NEW k \in calls' PROVE OnItsWay(k.msg)'
  <2>1. PICK m : m = k.msg
    OBVIOUS
  <2>2. CASE m.id = 0
    BY <2>1, <2>2 DEF OnItsWay
  <2>3. CASE k \in calls /\ m.id # 0
    <3>1. ~ \E e \in Engine : \E n \in observer[e] : Updates(e, n) /\ n.id = m.id
      BY <2>1, <2>3 DEF WakeOnceInv, OneOnItsWay
    <3>2. OnItsWay(m)'
      BY <1>1, <2>1, <2>3, <3>1, Mail DEF WakeOnceInv
    <3> QED
      BY <2>1, <3>2
  <2>4. ASSUME NEW e \in Engine, CallEffects(e, m), m.id # 0 PROVE OnItsWay(m)'
    <3>1. PICK u \in 1 .. MaxUuids : Wakes(u, m) /\ UNCHANGED rows
      BY <2>4 DEF CallEffects, Starts, Calls
    <3>2. callbacks'[u] = 0
      BY <1>0, <3>1 DEF Wakes, Answers, WakeOnceInv
    <3> QED
      BY <3>1, <3>2 DEF Wakes, SleepingRows, OnItsWay, Spent
  <2> QED
    BY <2>1, <2>2, <2>3, <2>4, QueuedBefore
<1> QED
  BY <1>2, <1>3

(* A transition that is called for finds no other one for its row. *)
LEMMA FirstOnItsWay ==
    ASSUME TypeOK, QueueInv, WakeOnceInv, NEW e \in Engine, NEW m \in Msg, CallEffects(e, m), m.id # 0
    PROVE  /\ \A k \in calls : k.msg.id # m.id
           /\ \A f \in Engine : \A n \in observer[f] : n.id # m.id
<1>1. PICK u \in 1 .. MaxUuids : Wakes(u, m)
  BY DEF CallEffects, Starts
<1>2. callbacks[u] > 0 /\ rows[m.id].uuid = u
  BY <1>1 DEF Wakes, Answers, SleepingRows
<1>3. ASSUME NEW n \in Msg, GoodMessage(n), OnItsWay(n), n.id = m.id PROVE FALSE
  <2>1. n.uuid = u /\ Spent(n.uuid)
    BY <1>2, <1>3 DEF GoodMessage, OnItsWay
  <2> QED
    BY <1>2, <2>1 DEF Spent
<1>4. \A k \in calls : k.msg \in Msg /\ GoodMessage(k.msg) /\ OnItsWay(k.msg)
  BY Mail DEF WakeOnceInv
<1>5. \A f \in Engine : \A n \in observer[f] : n \in Msg /\ GoodMessage(n) /\ OnItsWay(n)
  BY Mail DEF WakeOnceInv
<1> QED
  BY <1>3, <1>4, <1>5

LEMMA OnceUnique ==
    ASSUME TypeOK, TypeOK', QueueInv, WakeOnceInv, QueueEffect
    PROVE  OneOnItsWay'
<1>0. observer \in [Engine -> SUBSET Msg] /\ OneOnItsWay
  BY DEF TypeOK, StateTypes, WakeOnceInv
<1>1. ASSUME calls' \subseteq calls,
             \A f \in Engine : \A m \in observer'[f] : m.id # 0 => m \in observer[f]
      PROVE  OneOnItsWay'
  BY <1>0, <1>1 DEF OneOnItsWay
<1>2. ASSUME NEW e \in Engine, NEW m \in Msg, Publishes(e, m) PROVE OneOnItsWay'
  <2>1. m.id = 0 /\ UNCHANGED calls /\ observer' = [observer EXCEPT ![e] = {m}]
    BY <1>2 DEF Publishes
  <2> QED
    BY <1>0, <1>1, <2>1
<1>3. ASSUME NEW e \in Engine, observer' = [observer EXCEPT ![e] = {}], calls' \subseteq calls
      PROVE  OneOnItsWay'
  BY <1>0, <1>1, <1>3
<1>4. ASSUME NEW e \in Engine, NEW k \in calls, Receives(e, k) PROVE OneOnItsWay'
  <2>1. observer[e] = {} /\ observer' = [observer EXCEPT ![e] = {k.msg}] /\ calls' = calls \ {k}
    BY <1>4 DEF Receives
  <2>2. \A f \in Engine : observer'[f] = IF f = e THEN {k.msg} ELSE observer[f]
    BY <1>0, <2>1
  <2>3. \A i, l \in calls' : i.msg.id # 0 /\ i.msg.id = l.msg.id => i = l
    BY <1>0, <2>1 DEF OneOnItsWay
  <2>4. ASSUME NEW f \in Engine, NEW g \in Engine, NEW m \in observer'[f], NEW n \in observer'[g],
               m.id # 0, m.id = n.id
        PROVE  f = g
    <3>1. f = e \/ (m \in observer[f] /\ m.id # k.msg.id)
      BY <1>0, <2>2, <2>4 DEF OneOnItsWay
    <3>2. g = e \/ (n \in observer[g] /\ n.id # k.msg.id)
      BY <1>0, <2>2, <2>4 DEF OneOnItsWay
    <3>3. CASE f = e
      BY <2>2, <2>4, <3>2, <3>3
    <3>4. CASE g = e
      BY <2>2, <2>4, <3>1, <3>4
    <3>5. CASE f # e /\ g # e
      BY <1>0, <2>2, <2>4, <3>5 DEF OneOnItsWay
    <3> QED
      BY <3>3, <3>4, <3>5
  <2>5. ASSUME NEW f \in Engine, NEW m \in observer'[f], NEW l \in calls', m.id # 0 PROVE m.id # l.msg.id
    <3>1. CASE f = e
      BY <1>0, <2>1, <2>2, <2>5, <3>1 DEF OneOnItsWay
    <3>2. CASE f # e
      BY <1>0, <2>1, <2>2, <2>5, <3>2 DEF OneOnItsWay
    <3> QED
      BY <3>1, <3>2
  <2> QED
    BY <2>3, <2>4, <2>5 DEF OneOnItsWay
<1>5. ASSUME NEW e \in Engine, NEW m \in Msg, CallEffects(e, m) PROVE OneOnItsWay'
  <2>1. PICK x : calls' = calls \cup {x} /\ x.msg = m /\ UNCHANGED observer
    <3>1. PICK c \in Caller : calls' = calls \cup {[by |-> c, at |-> e, msg |-> m]} /\ UNCHANGED observer
      BY <1>5 DEF CallEffects, Calls
    <3>2. [by |-> c, at |-> e, msg |-> m].msg = m
      OBVIOUS
    <3> QED
      BY <3>1, <3>2
  <2>2. m.id # 0 => /\ \A k \in calls : k.msg.id # m.id
                    /\ \A f \in Engine : \A n \in observer[f] : n.id # m.id
    BY <1>5, FirstOnItsWay
  <2>3. \A k, l \in calls' : k.msg.id # 0 /\ k.msg.id = l.msg.id => k = l
    BY <1>0, <2>1, <2>2 DEF OneOnItsWay
  <2>4. \A f \in Engine : \A n \in observer'[f] : \A k \in calls' : n.id # 0 => n.id # k.msg.id
    BY <1>0, <2>1, <2>2 DEF OneOnItsWay
  <2> QED
    BY <1>0, <2>1, <2>3, <2>4 DEF OneOnItsWay
<1>6. ASSUME NEW e \in Engine,
             (\E m \in observer[e] : Inserts(e, m) \/ Updates(e, m)) \/ Drops(e) \/ Restarts(e)
      PROVE  observer' = [observer EXCEPT ![e] = {}] /\ calls' \subseteq calls
  BY <1>6 DEF Inserts, Updates, Drops, Restarts
<1>7. CASE UNCHANGED << observer, calls >>
  BY <1>1, <1>7
<1>8. \A e \in Engine : \A r \in 1 .. Len(rows) : Commits(e, r) => UNCHANGED << observer, calls >>
  BY DEF Commits
<1>9. Quiet => UNCHANGED << observer, calls >>
  BY DEF Quiet
<1> QED
  BY <1>2, <1>3, <1>4, <1>5, <1>6, <1>7, <1>8, <1>9 DEF QueueEffect

LEMMA WakeOnceInit == Init => WakeOnceInv
<1> SUFFICES ASSUME Init PROVE WakeOnceInv
  OBVIOUS
<1>1. \A e \in Engine : sched[e] = Idle /\ observer[e] = {}
  BY DEF Init
<1>2. Apart /\ \A e \in Engine : Fresh(e) /\ Unannounced(e)
  BY <1>1 DEF Apart, Fresh, Unannounced, Idle
<1>3. calls = {} /\ Len(rows) = 0 /\ \A u \in 1 .. MaxUuids : callbacks[u] <= 1
  BY DEF Init
<1>4. OneOnItsWay
  BY <1>1, <1>3 DEF OneOnItsWay
<1> QED
  BY <1>1, <1>2, <1>3, <1>4 DEF WakeOnceInv

LEMMA WakeOnceNext ==
    ASSUME Callbacks <= 1
    PROVE  TypeOK /\ QueueInv /\ WakeOnceInv /\ [Next]_vars => WakeOnceInv'
<1> SUFFICES ASSUME TypeOK, QueueInv, WakeOnceInv, [Next]_vars PROVE WakeOnceInv'
  OBVIOUS
<1>1. TypeOK'
  BY TypeNext
<1>2. QueueEffect /\ SchedEffect /\ CallbackEffect
  BY NextEffect, EffectParts, EffectCallbacks
<1>3. Grows
  BY <1>2, StepGrows
<1>4. /\ Apart /\ \A u \in 1 .. MaxUuids : callbacks[u] <= 1
      /\ (\A e \in Engine : Fresh(e)) /\ \A e \in Engine : Unannounced(e)
  BY DEF WakeOnceInv
<1>5. Apart' /\ \A u \in 1 .. MaxUuids : callbacks'[u] <= 1
  BY <1>2, <1>4, OnceApart, OnceCallbacks
<1>6. (\A e \in Engine : Fresh(e)') /\ \A e \in Engine : Unannounced(e)'
  BY <1>1, <1>2, <1>3, <1>4, FreshKeeps, OnceUnannounced
<1>7. \A r \in 1 .. Len(rows') : AwakeIsSpent(r)'
  BY <1>1, <1>2, <1>3, OnceRows
<1>8. (\A e \in Engine : \A m \in observer'[e] : OnItsWay(m)') /\ \A k \in calls' : OnItsWay(k.msg)'
  BY <1>1, <1>2, <1>3, OnceOnItsWay
<1>9. OneOnItsWay'
  BY <1>1, <1>2, OnceUnique
<1> QED
  BY <1>5, <1>6, <1>7, <1>8, <1>9 DEF WakeOnceInv

-----------------------------------------------------------------------------
(* A task instance that has ended is not made ready again. *)
EndedStaysEnded ==
    \A r \in 1 .. Len(rows) : rows[r].status \in Terminal => rows'[r].status \in Terminal

LEMMA EndedStep ==
    ASSUME TypeOK, QueueInv, WakeOnceInv, QueueEffect
    PROVE  EndedStaysEnded
<1>1. CASE UNCHANGED rows
  BY <1>1 DEF EndedStaysEnded
<1>2. ASSUME NEW e \in Engine, NEW r \in 1 .. Len(rows), Commits(e, r) PROVE EndedStaysEnded
  BY <1>2 DEF Commits, EndedStaysEnded, Terminal
<1>3. ASSUME NEW e \in Engine, NEW m \in observer[e], Inserts(e, m) PROVE EndedStaysEnded
  BY <1>3 DEF Inserts, EndedStaysEnded
<1>4. ASSUME NEW e \in Engine, NEW m \in observer[e], Updates(e, m) PROVE EndedStaysEnded
  <2>1. m.id \in 1 .. Len(rows) /\ \A q \in 1 .. Len(rows) : q # m.id => rows'[q] = rows[q]
    BY <1>4 DEF Updates
  <2>2. OnItsWay(m) /\ m.id # 0
    BY <2>1 DEF WakeOnceInv
  <2>3. rows[m.id].status \notin Terminal
    BY <2>2 DEF OnItsWay, Terminal
  <2> QED
    BY <2>1, <2>3 DEF EndedStaysEnded
<1>5. \A e \in Engine : (\E m \in Msg : Publishes(e, m) \/ CallEffects(e, m)) \/ (\E k \in calls : Receives(e, k))
                           \/ Drops(e) \/ Restarts(e) => UNCHANGED rows
  BY DEF Publishes, CallEffects, Calls, Receives, Drops, Restarts
<1>6. Quiet => UNCHANGED rows
  BY DEF Quiet
<1> QED
  BY <1>1, <1>2, <1>3, <1>4, <1>5, <1>6 DEF QueueEffect

(* However many engines there are, and whatever fails: as long as a        *)
(* service answers an event at most once, the observer's update of a row   *)
(* (made without looking at the status it has by then) never reopens a     *)
(* task instance that is SUCCESS or FAIL.                                  *)
THEOREM EndedIsNotReopened ==
    ASSUME Callbacks <= 1
    PROVE  Spec => [][EndedStaysEnded]_vars
<1>1. Init => TypeOK /\ QueueInv /\ WakeOnceInv
  BY TypeInit, QueueInit, WakeOnceInit
<1>2. TypeOK /\ QueueInv /\ WakeOnceInv /\ [Next]_vars => (TypeOK /\ QueueInv /\ WakeOnceInv)'
  BY TypeNext, QueueNext, WakeOnceNext
<1>3. TypeOK /\ QueueInv /\ WakeOnceInv /\ [Next]_vars => [EndedStaysEnded]_vars
  <2> SUFFICES ASSUME TypeOK, QueueInv, WakeOnceInv, [Next]_vars PROVE EndedStaysEnded
    OBVIOUS
  <2>1. QueueEffect
    BY NextEffect, EffectParts
  <2> QED
    BY <2>1, EndedStep
<1> QED
  BY <1>1, <1>2, <1>3, PTL DEF Spec

-----------------------------------------------------------------------------
(* The refinement of TaskLifecycle. *)
Statuses == [r \in DOMAIN rows |-> rows[r].status]

LEMMA StatusesType ==
    TypeOK => /\ Statuses \in Seq(Status) /\ Len(Statuses) = Len(rows)
              /\ DOMAIN Statuses = 1 .. Len(rows)
              /\ \A r \in 1 .. Len(rows) : Statuses[r] = rows[r].status
<1> SUFFICES ASSUME TypeOK
             PROVE  /\ Statuses \in Seq(Status) /\ Len(Statuses) = Len(rows)
                    /\ DOMAIN Statuses = 1 .. Len(rows)
                    /\ \A r \in 1 .. Len(rows) : Statuses[r] = rows[r].status
  OBVIOUS
<1>1. rows \in Seq(RowSet) /\ Len(rows) \in Nat /\ DOMAIN rows = 1 .. Len(rows)
  BY DEF TypeOK, StateTypes
<1>2. \A r \in 1 .. Len(rows) : rows[r].status \in Status
  <2> TAKE r \in 1 .. Len(rows)
  <2>1. rows[r] \in RowSet
    BY <1>1, ElementOfSeq
  <2> QED
    BY <2>1 DEF RowSet
<1>3. Statuses = [r \in 1 .. Len(rows) |-> rows[r].status]
  BY <1>1 DEF Statuses
<1>4. Statuses \in [1 .. Len(rows) -> Status]
  BY <1>2, <1>3
<1>5. Statuses \in Seq(Status)
  BY <1>1, <1>4, IsASeq DEF Statuses
<1>6. Len(Statuses) = Len(rows)
  <2>1. DOMAIN Statuses = 1 .. Len(Statuses) /\ Len(Statuses) \in Nat
    BY <1>5
  <2>2. DOMAIN Statuses = 1 .. Len(rows)
    BY <1>3
  <2> QED
    BY <1>1, <2>1, <2>2, IntervalEnd
<1> QED
  BY <1>3, <1>5, <1>6

(* The statuses change in one place. *)
LEMMA StatusesExcept ==
    ASSUME TypeOK, TypeOK', NEW r \in 1 .. Len(rows), NEW s, Len(rows') = Len(rows),
           rows'[r].status = s, \A q \in 1 .. Len(rows) : q # r => rows'[q] = rows[q]
    PROVE  Statuses' = [Statuses EXCEPT ![r] = s]
<1>1. Statuses' = [q \in 1 .. Len(rows) |-> rows'[q].status]
  BY DEF Statuses, TypeOK, StateTypes
<1>2. Statuses = [q \in 1 .. Len(rows) |-> rows[q].status]
  BY DEF Statuses, TypeOK, StateTypes
<1> QED
  BY <1>1, <1>2

(* The statuses of the old rows, and that of the new one. *)
LEMMA StatusesAppend ==
    ASSUME TypeOK, TypeOK', NEW s \in Status, Len(rows') = Len(rows) + 1,
           rows'[Len(rows) + 1].status = s, \A q \in 1 .. Len(rows) : rows'[q] = rows[q]
    PROVE  Statuses' = Append(Statuses, s)
<1>0. Len(rows) \in Nat
  BY DEF TypeOK, StateTypes
<1>1. /\ Statuses \in Seq(Status) /\ Len(Statuses) = Len(rows)
      /\ \A r \in 1 .. Len(rows) : Statuses[r] = rows[r].status
  BY StatusesType
<1>2. Statuses' = [q \in 1 .. Len(rows) + 1 |-> rows'[q].status]
  BY DEF Statuses, TypeOK, StateTypes
<1>3. /\ Append(Statuses, s) \in Seq(Status) /\ Len(Append(Statuses, s)) = Len(rows) + 1
      /\ \A q \in 1 .. Len(rows) : Append(Statuses, s)[q] = rows[q].status
      /\ Append(Statuses, s)[Len(rows) + 1] = s
  BY <1>1, AppendProperties
<1>4. \A q \in 1 .. Len(rows) + 1 : q \in 1 .. Len(rows) \/ q = Len(rows) + 1
  BY <1>0
<1>5. Append(Statuses, s) = [q \in 1 .. Len(rows) + 1 |-> rows'[q].status]
  <2> DEFINE A == Append(Statuses, s)
  <2> HIDE DEF A
  <2>1. A \in Seq(Status) /\ Len(A) = Len(rows) + 1
    BY <1>3 DEF A
  <2>2. A = [q \in 1 .. Len(rows) + 1 |-> A[q]]
    BY <2>1
  <2>3. \A q \in 1 .. Len(rows) + 1 : A[q] = rows'[q].status
    BY <1>3, <1>4 DEF A
  <2>4. A = [q \in 1 .. Len(rows) + 1 |-> rows'[q].status]
    BY <2>2, <2>3
  <2> QED
    BY <2>4 DEF A
<1> QED
  BY <1>2, <1>5

LEMMA LifecycleStep ==
    ASSUME NEW only, Engine = {only}, TypeOK, TypeOK', QueueInv, WakeOnceInv, ClaimedIsWaiting, QueueEffect
    PROVE  Lifecycle!Next \/ Statuses' = Statuses
<1>0. /\ DOMAIN Statuses = 1 .. Len(rows) /\ Len(rows) \in Nat
      /\ \A r \in 1 .. Len(rows) : Statuses[r] = rows[r].status
  BY StatusesType DEF TypeOK, StateTypes
<1>1. CASE UNCHANGED rows
  BY <1>1 DEF Statuses
<1>2. ASSUME NEW e \in Engine, NEW r \in 1 .. Len(rows), Commits(e, r) PROVE Lifecycle!Next
  <2>1. Holds(e, r)
    BY <1>2 DEF Commits, Finished, Holds
  <2>2. Statuses[r] = "WAIT"
    BY <1>0, <2>1 DEF ClaimedIsWaiting
  <2>3. PICK s \in {"SUCCESS", "FAIL"} : rows'[r].status = s
    BY <1>2 DEF Commits
  <2>4. Statuses' = [Statuses EXCEPT ![r] = s]
    BY <1>2, <2>3, StatusesExcept DEF Commits
  <2> QED
    BY <1>0, <2>2, <2>4 DEF Lifecycle!Next, Lifecycle!Finish, Statuses
<1>3. ASSUME NEW e \in Engine, NEW m \in observer[e], Inserts(e, m) PROVE Lifecycle!Next
  <2>1. m.status \in {"SLEEP", "WAIT"} /\ m.status \in Status
    BY DEF TypeOK, StateTypes, Msg, Status
  <2>2. rows'[Len(rows) + 1].status = m.status
    BY <1>3 DEF Inserts
  <2>3. Statuses' = Append(Statuses, m.status)
    BY <1>3, <2>1, <2>2, StatusesAppend DEF Inserts
  <2> QED
    BY <2>1, <2>3 DEF Lifecycle!Next, Lifecycle!Create, Statuses
<1>4. ASSUME NEW e \in Engine, NEW m \in observer[e], Updates(e, m) PROVE Lifecycle!Next
  <2>1. PICK r \in 1 .. Len(rows) : r = m.id
    BY <1>4 DEF Updates
  <2>2. Statuses[r] = "SLEEP" /\ m.status = "WAIT"
    <3>1. m.id # 0 /\ OnItsWay(m) /\ GoodMessage(m)
      BY <2>1, Mail DEF WakeOnceInv
    <3> QED
      BY <1>0, <2>1, <3>1 DEF OnItsWay, GoodMessage
  <2>3. Statuses' = [Statuses EXCEPT ![r] = "WAIT"]
    BY <1>4, <2>1, <2>2, StatusesExcept DEF Updates
  <2> QED
    BY <1>0, <2>2, <2>3 DEF Lifecycle!Next, Lifecycle!Wake, Statuses
<1>5. \A e \in Engine : (\E m \in Msg : Publishes(e, m) \/ CallEffects(e, m)) \/ (\E k \in calls : Receives(e, k))
                           \/ Drops(e) \/ Restarts(e) => UNCHANGED rows
  BY DEF Publishes, CallEffects, Calls, Receives, Drops, Restarts
<1>6. Quiet => UNCHANGED rows
  BY DEF Quiet
<1> QED
  BY <1>1, <1>2, <1>3, <1>4, <1>5, <1>6 DEF QueueEffect

(* With one engine, and services that answer an event at most once, the    *)
(* engine implements TaskLifecycle: whatever fails or crashes, the status  *)
(* column of a task instance only ever goes SLEEP, WAIT and then once to   *)
(* SUCCESS or FAIL.                                                        *)
THEOREM OneEngineImplementsLifecycle ==
    ASSUME NEW only, Engine = {only}, Callbacks <= 1
    PROVE  Spec => LifecycleSpec
<1> DEFINE Inv == TypeOK /\ QueueInv /\ WakeOnceInv /\ ClaimedIsWaiting
<1>1. Init => Inv
  <2>1. Init => ClaimedIsWaiting
    BY DEF Init, ClaimedIsWaiting
  <2> QED
    BY <2>1, TypeInit, QueueInit, WakeOnceInit
<1>2. Inv /\ [Next]_vars => Inv'
  <2>1. QueueInv => WakeUps
    BY DEF QueueInv, GoodMessages, GoodMessage, WakeUps, WakesUp
  <2>2. Inv /\ [Next]_vars => ClaimedIsWaiting'
    BY <2>1, ClaimedNext
  <2> QED
    BY <2>2, TypeNext, QueueNext, WakeOnceNext
<1>3. Init => Lifecycle!Init
  BY DEF Init, Lifecycle!Init
<1>4. Inv /\ [Next]_vars => [Lifecycle!Next]_Statuses
  <2> SUFFICES ASSUME Inv, [Next]_vars PROVE Lifecycle!Next \/ Statuses' = Statuses
    OBVIOUS
  <2>1. TypeOK' /\ QueueEffect
    BY TypeNext, NextEffect, EffectParts
  <2> QED
    BY <2>1, LifecycleStep
<1> QED
  BY <1>1, <1>2, <1>3, <1>4, PTL DEF Spec, LifecycleSpec, Lifecycle!Spec, Statuses
=============================================================================
