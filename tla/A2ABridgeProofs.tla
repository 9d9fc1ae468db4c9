-------------------------- MODULE A2ABridgeProofs --------------------------
(***************************************************************************)
(* Theorems about A2ABridge, for any clients, any number of retries, polls *)
(* and failures.                                                           *)
(***************************************************************************)
EXTENDS A2ABridge, FiniteSetTheorems, TLAPS

(* An executor has a result it may be given as an input: it ends its       *)
(* workflow, that has failed, and an earlier task of it is completed.      *)
HasOutput(c) ==
    /\ c \in Ending
    /\ faults > 0
    /\ \E v \in DOMAIN work : work[v].by = c /\ work[v].state = "completed"

OwnWork(c, w) == w \in DOMAIN work /\ work[w].by = c

(* A handler past Start has its work, and its ids are in the map.  The     *)
(* request of an executor has no id.                                       *)
HandlerOk(h) ==
    /\ h.pc # "start" => OwnWork(h.by, h.work) /\ work[h.work].id = h.id
    /\ h.pc # "start" /\ agent = "workflow" => h.work \in DOMAIN tasks
    /\ h.pc = "mapId" => Named(h)
    /\ h.pc = "reply" /\ Named(h) => h.id \in DOMAIN tasks
    /\ h.by \in Executor => h.id = NoId
    /\ h.input = "output" => HasOutput(h.by)

HandlerInv == \A h \in handlers : HandlerOk(h)

(* A call that got an answer got it from its own work. *)
CallOk(c, k) ==
    /\ k.pc \in {"poll", "done", "ended"} => c \in Executor /\ OwnWork(c, k.task)
    /\ k.pc \in {"done", "ended"} => work[k.task].state = "completed"
    /\ k.input = "output" => HasOutput(c)

CallInv == \A c \in Client : CallOk(c, call[c])

(* An id leads to work it can stand for, and was told for such work. *)
MapInv == \A id \in DOMAIN tasks : tasks[id] \in Meant(id)

ToldInv ==
    \A t \in told :
        /\ t[2] \in Meant(t[1])
        /\ agent = "workflow" /\ ~ lost => t[1] \in DOMAIN tasks

BridgeInv ==
    /\ TypeOK /\ IsFiniteSet(handlers)
    /\ HandlerInv /\ CallInv /\ MapInv /\ ToldInv /\ FedBackIsExplained

-----------------------------------------------------------------------------
(* Finite sets.                                                            *)
LEMMA Image ==
    ASSUME NEW S, IsFiniteSet(S), NEW f
    PROVE  LET T == {f[x] : x \in S}
           IN  IsFiniteSet(T) /\ Cardinality(T) <= Cardinality(S)
<1> DEFINE T == {f[x] : x \in S}
           g == [x \in S |-> f[x]]
<1>1. g \in Surjection(S, T)
  BY DEF Surjection
<1> QED
  BY <1>1, FS_Surjection

(* A finite set of n numbers leaves one of 0 .. n out. *)
LEMMA Fresh ==
    ASSUME NEW S, IsFiniteSet(S)
    PROVE  \E n \in 0 .. Cardinality(S) : n \notin S
<1>1. Cardinality(S) \in Nat
  BY FS_CardinalityType
<1>2. IsFiniteSet(0 .. Cardinality(S)) /\ Cardinality(0 .. Cardinality(S)) = Cardinality(S) + 1
  BY <1>1, FS_Interval
<1>3. CASE 0 .. Cardinality(S) \subseteq S
  BY <1>1, <1>2, <1>3, FS_Subset
<1> QED
  BY <1>3

-----------------------------------------------------------------------------
LEMMA IdleGood == Idle \in CallSet
  BY DEF Idle, CallSet, Inputs

LEMMA BridgeInit == Init => BridgeInv
<1> SUFFICES ASSUME Init PROVE BridgeInv
  OBVIOUS
<1>1. TypeOK
  <2>1. work \in Seq(WorkSet) /\ tasks \in [DOMAIN tasks -> DOMAIN work] /\ DOMAIN tasks = {}
    BY DEF Init
  <2>2. call \in [Client -> CallSet]
    BY IdleGood DEF Init
  <2>3. faults \in 0 .. MaxFaults
    BY BridgeAssumption DEF Init
  <2> QED
    BY <2>1, <2>2, <2>3 DEF Init, TypeOK
<1>2. IsFiniteSet(handlers)
  BY FS_EmptySet DEF Init
<1>3. HandlerInv /\ CallInv /\ MapInv /\ ToldInv /\ FedBackIsExplained
  BY DEF Init, HandlerInv, CallInv, CallOk, MapInv, ToldInv, FedBackIsExplained, Idle
<1> QED
  BY <1>1, <1>2, <1>3 DEF BridgeInv

(* Errs keeps calls well formed; its call has no answer. *)
LEMMA ErrsGood ==
    ASSUME NEW c \in Client, NEW k \in CallSet
    PROVE  /\ Errs(c, k) \in CallSet
           /\ Errs(c, k).pc \in {"idle", "send", "failed"}
           /\ Errs(c, k).input = "output" => k.input = "output"
<1>1. CASE c \notin Executor
  BY <1>1, IdleGood DEF Errs, Idle
<1>2. CASE c \in Executor /\ k.attempt < RetryAttempts
  <2>1. Errs(c, k) = [pc |-> "send", attempt |-> k.attempt + 1, polls |-> 0, task |-> NoId,
                      input |-> k.input]
    BY <1>2 DEF Errs, Idle
  <2> QED
    BY <2>1 DEF CallSet
<1>3. CASE c \in Executor /\ ~ (k.attempt < RetryAttempts)
  BY <1>3 DEF Errs, CallSet
<1> QED
  BY <1>1, <1>2, <1>3

LEMMA PollsOnGood ==
    ASSUME NEW c \in Client, NEW k \in CallSet
    PROVE  /\ PollsOn(c, k) \in CallSet
           /\ \/ PollsOn(c, k).pc \in {"idle", "send", "failed"}
              \/ PollsOn(c, k).pc = k.pc /\ PollsOn(c, k).task = k.task
           /\ PollsOn(c, k).input = "output" => k.input = "output"
<1>1. CASE k.polls + 1 < MaxRetry
  BY <1>1 DEF PollsOn, CallSet
<1>2. CASE ~ (k.polls + 1 < MaxRetry)
  BY <1>2, ErrsGood DEF PollsOn
<1> QED
  BY <1>1, <1>2

-----------------------------------------------------------------------------
(* What the agent has is never taken away again, its memory apart. *)
Grows ==
    /\ agent' = agent
    /\ DOMAIN work \subseteq DOMAIN work'
    /\ \A w \in DOMAIN work : /\ work'[w].by = work[w].by /\ work'[w].id = work[w].id
                              /\ work[w].state = "completed" => work'[w].state = "completed"
    /\ DOMAIN tasks \subseteq DOMAIN tasks'
    /\ faults \in Nat /\ faults' \in Nat /\ faults' >= faults

LEMMA HasOutputGrows ==
    ASSUME Grows, NEW c, HasOutput(c)
    PROVE  HasOutput(c)'
  BY DEF Grows, HasOutput

LEMMA HandlerGrows ==
    ASSUME Grows, NEW h, HandlerOk(h)
    PROVE  HandlerOk(h)'
  BY HasOutputGrows DEF Grows, HandlerOk, OwnWork, Named

LEMMA MeantGrows ==
    ASSUME Grows, NEW k, NEW w, w \in Meant(k)
    PROVE  w \in Meant(k)'
  BY DEF Grows, Meant

LEMMA CallsGrow ==
    ASSUME Grows, \A c \in Client : CallOk(c, call'[c])
    PROVE  CallInv'
  BY HasOutputGrows DEF Grows, CallInv, CallOk, OwnWork

(* A step that gives the agent nothing and takes nothing from it. *)
LEMMA QuietStep ==
    ASSUME BridgeInv, UNCHANGED << agent, work, tasks, told, lost >>,
           faults' \in 0 .. MaxFaults, faults' >= faults,
           handlers' \subseteq HandlerSet, IsFiniteSet(handlers'),
           \A h \in handlers' : HandlerOk(h),
           call' \in [Client -> CallSet],
           CallInv' \/ \A c \in Client : CallOk(c, call'[c])
    PROVE  BridgeInv'
<1>1. Grows
  BY BridgeAssumption DEF BridgeInv, TypeOK, Grows
<1>2. TypeOK'
  BY DEF BridgeInv, TypeOK
<1>3. HandlerInv'
  BY <1>1, HandlerGrows DEF HandlerInv
<1>4. CallInv'
  BY <1>1, CallsGrow
<1>5. MapInv' /\ ToldInv'
  BY DEF BridgeInv, MapInv, ToldInv, Meant
<1>6. FedBackIsExplained'
  BY <1>1 DEF BridgeInv, FedBackIsExplained, Grows
<1> QED
  BY <1>2, <1>3, <1>4, <1>5, <1>6 DEF BridgeInv

(* The same when only the call of c changes. *)
LEMMA OneCall ==
    ASSUME BridgeInv, NEW c \in Client, NEW k \in CallSet,
           call' = [call EXCEPT ![c] = k], CallOk(c, k),
           UNCHANGED << agent, work, tasks, told, lost, handlers >>,
           faults' = faults \/ Fault
    PROVE  BridgeInv'
<1>1. faults' \in 0 .. MaxFaults /\ faults' >= faults
  BY BridgeAssumption DEF BridgeInv, TypeOK, Fault
<1>2. call' \in [Client -> CallSet] /\ \A d \in Client : CallOk(d, call'[d])
  BY DEF BridgeInv, TypeOK, CallInv
<1>3. handlers' \subseteq HandlerSet /\ IsFiniteSet(handlers') /\ \A h \in handlers' : HandlerOk(h)
  BY DEF BridgeInv, TypeOK, HandlerInv
<1> QED
  BY <1>1, <1>2, <1>3, QuietStep

LEMMA ErrsOk ==
    ASSUME NEW c \in Client, NEW k \in CallSet, k.input = "output" => HasOutput(c)
    PROVE  Errs(c, k) \in CallSet /\ CallOk(c, Errs(c, k))
  BY ErrsGood DEF CallOk

LEMMA PollsOnOk ==
    ASSUME NEW c \in Client, NEW k \in CallSet, CallOk(c, k)
    PROVE  PollsOn(c, k) \in CallSet /\ CallOk(c, PollsOn(c, k))
  BY PollsOnGood DEF CallOk

(* The handlers that stay when those of c are not awaited any more. *)
LEMMA OrphanedOk ==
    ASSUME BridgeInv, NEW c
    PROVE  /\ Orphaned(c) \subseteq HandlerSet
           /\ IsFiniteSet(Orphaned(c))
           /\ \A h \in Orphaned(c) : HandlerOk(h)
<1> DEFINE mine  == {g \in handlers : g.by = c /\ g.pc # "reply"}
           other == {h \in handlers : h.by # c}
           f     == [h \in HandlerSet |-> [h EXCEPT !.live = FALSE]]
<1>1. handlers \subseteq HandlerSet /\ IsFiniteSet(handlers)
  BY DEF BridgeInv, TypeOK
<1>2. IsFiniteSet(mine) /\ IsFiniteSet(other)
  BY <1>1, FS_Subset
<1>3. IsFiniteSet({f[h] : h \in mine})
  <2> HIDE DEF f, mine
  <2> QED
    BY <1>2, Image
<1>4. Orphaned(c) = other \cup {f[h] : h \in mine}
  BY <1>1 DEF Orphaned
<1>5. \A h \in HandlerSet : /\ f[h] \in HandlerSet
                            /\ f[h].by = h.by /\ f[h].pc = h.pc /\ f[h].work = h.work
                            /\ f[h].input = h.input /\ f[h].id = h.id
  BY DEF HandlerSet
<1>6. \A h \in HandlerSet : HandlerOk(h) => HandlerOk(f[h])
  <2> HIDE DEF f
  <2> QED
    BY <1>5 DEF HandlerOk, Named
<1>7. \A h \in handlers : HandlerOk(h)
  BY DEF BridgeInv, HandlerInv
<1> HIDE DEF f
<1>8. IsFiniteSet(Orphaned(c))
  <2> DEFINE A == {f[h] : h \in mine}
  <2>1. IsFiniteSet(A) /\ IsFiniteSet(other) /\ Orphaned(c) = other \cup A
    BY <1>2, <1>3, <1>4
  <2> HIDE DEF A, other
  <2> QED
    BY <2>1, FS_Union
<1> QED
  BY <1>1, <1>4, <1>5, <1>6, <1>7, <1>8

-----------------------------------------------------------------------------
(* The actions.                                                            *)
LEMMA CallFacts ==
    ASSUME BridgeInv, NEW c \in Client
    PROVE  call[c] \in CallSet /\ CallOk(c, call[c]) /\ (call[c].input = "output" => HasOutput(c))
  BY DEF BridgeInv, TypeOK, CallInv, CallOk

LEMMA BeginStep ==
    ASSUME BridgeInv, NEW c \in Client, Begin(c)
    PROVE  BridgeInv'
<1> DEFINE k == [Idle EXCEPT !.pc = "send", !.attempt = 1]
<1>1. k \in CallSet /\ CallOk(c, k)
  BY DEF CallSet, CallOk, Idle, Inputs
<1> HIDE DEF k
<1>2. call' = [call EXCEPT ![c] = k]
  BY DEF Begin, k
<1> QED
  BY <1>1, <1>2, OneCall DEF Begin

LEMMA SendStep ==
    ASSUME BridgeInv, NEW c \in Client, Send(c)
    PROVE  BridgeInv'
<1> DEFINE starting == {g \in handlers : g.by = c /\ g.pc = "start"}
           used == {h.no : h \in starting}
           no   == CHOOSE n \in 0 .. Cardinality(used) : n \notin used
           f    == [h \in HandlerSet |-> h.no]
           hd(id) == [by |-> c, id |-> id, no |-> no, input |-> call[c].input, work |-> 0,
                      pc |-> "start", live |-> TRUE]
           k    == [call[c] EXCEPT !.pc = "wait"]
<1>1. handlers \subseteq HandlerSet /\ IsFiniteSet(handlers)
  BY DEF BridgeInv, TypeOK
<1>2. IsFiniteSet(starting)
  BY <1>1, FS_Subset
<1>3. used = {f[h] : h \in starting}
  BY <1>1
<1>4. IsFiniteSet({f[h] : h \in starting})
  <2> HIDE DEF f, starting
  <2> QED
    BY <1>2, Image
<1>5. no \in Nat
  <2>1. IsFiniteSet(used)
    BY <1>3, <1>4
  <2> HIDE DEF used
  <2>2. \E n \in 0 .. Cardinality(used) : n \notin used
    BY <2>1, Fresh
  <2>3. Cardinality(used) \in Nat
    BY <2>1, FS_CardinalityType
  <2> QED
    BY <2>2, <2>3
<1> HIDE DEF no
<1>6. ASSUME NEW id \in Ids(c)
      PROVE  hd(id) \in HandlerSet /\ HandlerOk(hd(id))
  <2>1. call[c].input \in Inputs /\ (call[c].input = "output" => HasOutput(c))
    BY CallFacts DEF CallSet
  <2>2. id \in TaskId \cup {NoId} /\ (c \in Executor => id = NoId)
    BY BridgeAssumption DEF Ids, TaskId, BridgeInv, TypeOK
  <2>3. hd(id) \in HandlerSet
    BY <1>5, <2>1, <2>2 DEF HandlerSet
  <2> QED
    BY <2>1, <2>2, <2>3 DEF HandlerOk
<1>7. k \in CallSet /\ CallOk(c, k)
  BY CallFacts DEF CallSet, CallOk
<1>8. PICK id \in Ids(c) : handlers' = handlers \cup {hd(id)}
  BY DEF Send, no
<1>80. call' = [call EXCEPT ![c] = k]
  BY CallFacts DEF Send, CallSet
<1> HIDE DEF hd, k
<1>9. handlers' \subseteq HandlerSet /\ IsFiniteSet(handlers') /\ \A h \in handlers' : HandlerOk(h)
  BY <1>1, <1>6, <1>8, FS_AddElement DEF BridgeInv, HandlerInv
<1>10. call' \in [Client -> CallSet] /\ \A d \in Client : CallOk(d, call'[d])
  BY <1>7, <1>80 DEF BridgeInv, TypeOK, CallInv
<1>11. faults' \in 0 .. MaxFaults /\ faults' >= faults
  BY BridgeAssumption DEF Send, BridgeInv, TypeOK
<1>12. UNCHANGED << agent, work, tasks, told, lost >>
  BY DEF Send
<1> QED
  BY <1>9, <1>10, <1>11, <1>12, QuietStep

LEMMA SendFailsStep ==
    ASSUME BridgeInv, NEW c \in Client, SendFails(c)
    PROVE  BridgeInv'
<1>1. Errs(c, call[c]) \in CallSet /\ CallOk(c, Errs(c, call[c]))
  BY CallFacts, ErrsOk
<1>2. call' = [call EXCEPT ![c] = Errs(c, call[c])]
  BY DEF SendFails
<1> QED
  BY <1>1, <1>2, OneCall DEF SendFails, NoFault

(* The client leaves its handlers behind. *)
LEMMA LeaveStep ==
    ASSUME BridgeInv, NEW c \in Client, NEW k \in CallSet, CallOk(c, k),
           call' = [call EXCEPT ![c] = k], handlers' = Orphaned(c),
           UNCHANGED << agent, work, tasks, told, lost >>,
           faults' = faults \/ Fault
    PROVE  BridgeInv'
<1>1. faults' \in 0 .. MaxFaults /\ faults' >= faults
  BY BridgeAssumption DEF BridgeInv, TypeOK, Fault
<1>2. call' \in [Client -> CallSet] /\ \A d \in Client : CallOk(d, call'[d])
  BY DEF BridgeInv, TypeOK, CallInv
<1> QED
  BY <1>1, <1>2, OrphanedOk, QuietStep

LEMMA GivesUpStep ==
    ASSUME BridgeInv, NEW c \in Client, GivesUp(c)
    PROVE  BridgeInv'
<1>1. Errs(c, call[c]) \in CallSet /\ CallOk(c, Errs(c, call[c]))
  BY CallFacts, ErrsOk
<1>2. call' = [call EXCEPT ![c] = Errs(c, call[c])]
  BY DEF GivesUp
<1> QED
  BY <1>1, <1>2, LeaveStep DEF GivesUp

LEMMA CallerCrashStep ==
    ASSUME BridgeInv, NEW c \in Client, CallerCrash(c)
    PROVE  BridgeInv'
<1>1. Idle \in CallSet /\ CallOk(c, Idle)
  BY IdleGood DEF CallOk, Idle
<1> QED
  BY <1>1, LeaveStep DEF CallerCrash

LEMMA PollStep ==
    ASSUME BridgeInv, NEW c \in Client, Poll(c)
    PROVE  BridgeInv'
<1>1. call[c] \in CallSet /\ CallOk(c, call[c])
  BY CallFacts
<1>2. c \in Executor /\ OwnWork(c, call[c].task)
  BY <1>1 DEF Poll, CallOk
<1> DEFINE k == IF agent = "workflow" THEN PollsOn(c, call[c])
                ELSE Answered(c, call[c], StatusOf(call[c].task))
<1>3. call' = [call EXCEPT ![c] = k]
  BY DEF Poll
<1>4. k \in CallSet /\ CallOk(c, k)
  <2>1. CASE k = PollsOn(c, call[c])
    BY <1>1, <2>1, PollsOnOk
  <2>2. CASE k = Errs(c, call[c])
    BY <1>1, <2>2, ErrsOk, CallFacts
  <2>3. CASE k = [call[c] EXCEPT !.pc = "done"] /\ work[call[c].task].state = "completed"
    BY <1>1, <1>2, <2>3 DEF CallSet, CallOk
  <2> QED
    BY <2>1, <2>2, <2>3 DEF Answered, StatusOf
<1> HIDE DEF k
<1> QED
  BY <1>3, <1>4, OneCall DEF Poll

LEMMA PollFailsStep ==
    ASSUME BridgeInv, NEW c \in Client, PollFails(c)
    PROVE  BridgeInv'
<1>1. PICK k \in {PollsOn(c, call[c]), Errs(c, call[c])} : call' = [call EXCEPT ![c] = k]
  BY DEF PollFails
<1>2. k \in CallSet /\ CallOk(c, k)
  BY <1>1, CallFacts, PollsOnOk, ErrsOk
<1> QED
  BY <1>1, <1>2, OneCall DEF PollFails

LEMMA FinishStep ==
    ASSUME BridgeInv, NEW c \in Client, Finish(c)
    PROVE  BridgeInv'
<1> DEFINE k == [call[c] EXCEPT !.pc = "ended"]
<1>1. call' = [call EXCEPT ![c] = k]
  BY CallFacts DEF Finish, CallSet
<1>2. k \in CallSet /\ CallOk(c, k)
  BY CallFacts DEF Finish, CallSet, CallOk
<1> HIDE DEF k
<1> QED
  BY <1>1, <1>2, OneCall DEF Finish

LEMMA FinishFailsStep ==
    ASSUME BridgeInv, NEW c \in Client, FinishFails(c)
    PROVE  BridgeInv'
<1>1. PICK i \in {call[c].input, "output"} :
        call' = [call EXCEPT ![c] = Errs(c, [call[c] EXCEPT !.input = i])]
  BY DEF FinishFails
<1> DEFINE j == [call[c] EXCEPT !.input = i]
           k == Errs(c, j)
<1>2. call[c] \in CallSet /\ CallOk(c, call[c])
  BY CallFacts
<1>3. j \in CallSet
  BY <1>2 DEF CallSet, Inputs
<1> HIDE DEF j
<1>4. k \in CallSet /\ k.pc \in {"idle", "send", "failed"}
  BY <1>3, ErrsGood
<1>5. call' = [call EXCEPT ![c] = k]
  BY <1>1 DEF j
<1> HIDE DEF k
<1>6. /\ faults \in 0 .. MaxFaults /\ faults' = faults + 1 /\ faults' \in 0 .. MaxFaults
      /\ UNCHANGED << agent, work, tasks, told, lost, handlers >>
  BY BridgeAssumption DEF FinishFails, Fault, BridgeInv, TypeOK
<1>7. Grows
  BY <1>6, BridgeAssumption DEF Grows
<1>8. HasOutput(c)'
  BY <1>2, <1>6, BridgeAssumption DEF FinishFails, CallOk, OwnWork, HasOutput
<1>9. \A d \in Client \ {c} : call'[d] = call[d] /\ CallOk(d, call[d])
  BY <1>5 DEF BridgeInv, TypeOK, CallInv
<1>10. call' \in [Client -> CallSet] /\ call'[c] = k
  BY <1>4, <1>5 DEF BridgeInv, TypeOK
<1>11. CallInv'
  BY <1>4, <1>7, <1>8, <1>9, <1>10, HasOutputGrows DEF CallInv, CallOk, Grows, OwnWork
<1>12. handlers' \subseteq HandlerSet /\ IsFiniteSet(handlers') /\ \A h \in handlers' : HandlerOk(h)
  BY <1>6 DEF BridgeInv, TypeOK, HandlerInv
<1> QED
  BY <1>6, <1>10, <1>11, <1>12, QuietStep

LEMMA StartFailsStep ==
    ASSUME BridgeInv, NEW h \in handlers, StartFails(h)
    PROVE  BridgeInv'
<1>1. h.by \in Client
  BY DEF BridgeInv, TypeOK, HandlerSet
<1>2. Errs(h.by, call[h.by]) \in CallSet /\ CallOk(h.by, Errs(h.by, call[h.by]))
  BY <1>1, CallFacts, ErrsOk
<1>3. call' \in {call, [call EXCEPT ![h.by] = Errs(h.by, call[h.by])]}
  BY DEF StartFails
<1>4. call' \in [Client -> CallSet] /\ \A d \in Client : CallOk(d, call'[d])
  BY <1>1, <1>2, <1>3 DEF BridgeInv, TypeOK, CallInv
<1>5. handlers' \subseteq HandlerSet /\ IsFiniteSet(handlers') /\ \A g \in handlers' : HandlerOk(g)
  BY FS_RemoveElement DEF StartFails, BridgeInv, TypeOK, HandlerInv
<1>6. faults' \in 0 .. MaxFaults /\ faults' >= faults
  BY BridgeAssumption DEF BridgeInv, TypeOK, StartFails, Fault
<1>7. UNCHANGED << agent, work, tasks, told, lost >>
  BY DEF StartFails
<1> QED
  BY <1>4, <1>5, <1>6, <1>7, QuietStep

(* What Replace makes of the handlers. *)
LEMMA ReplaceOk ==
    ASSUME BridgeInv, Grows, NEW h \in handlers, NEW pc \in {"mapId", "reply"}, NEW w \in Nat,
           Replace(h, pc, w),
           OwnWork(h.by, w)', work'[w].id = h.id,
           agent = "workflow" => w \in DOMAIN tasks',
           pc = "mapId" => Named(h),
           pc = "reply" /\ Named(h) => h.id \in DOMAIN tasks'
    PROVE  handlers' \subseteq HandlerSet /\ IsFiniteSet(handlers') /\ HandlerInv'
<1> DEFINE g == [h EXCEPT !.pc = pc, !.work = w, !.no = 0]
<1>1. handlers \subseteq HandlerSet /\ IsFiniteSet(handlers) /\ h \in HandlerSet
  BY DEF BridgeInv, TypeOK
<1>2. /\ g \in HandlerSet
      /\ g.by = h.by /\ g.id = h.id /\ g.pc = pc /\ g.work = w /\ g.input = h.input
  BY <1>1 DEF HandlerSet
<1> HIDE DEF g
<1>3. HandlerOk(h) /\ (h.input = "output" => HasOutput(h.by)')
  BY HasOutputGrows DEF BridgeInv, HandlerInv, HandlerOk
<1>4. HandlerOk(g)'
  BY <1>2, <1>3 DEF HandlerOk, Grows, Named
<1>5. handlers' = handlers \ {h} \/ handlers' = (handlers \ {h}) \cup {g}
  BY DEF Replace, g
<1>6. IsFiniteSet(handlers \ {h})
  BY <1>1, FS_RemoveElement
<1>7. IsFiniteSet(handlers')
  <2>1. \A H : IsFiniteSet(H) => IsFiniteSet(H \cup {g})
    BY FS_AddElement
  <2> QED
    BY <1>5, <1>6, <2>1
<1>8. \A x \in handlers : HandlerOk(x)'
  BY HandlerGrows DEF BridgeInv, HandlerInv
<1> QED
  BY <1>1, <1>2, <1>4, <1>5, <1>7, <1>8 DEF HandlerInv

LEMMA StartWorkStep ==
    ASSUME BridgeInv, NEW h \in handlers, StartWork(h)
    PROVE  BridgeInv'
<1> DEFINE new == [by |-> h.by, id |-> h.id, input |-> h.input, state |-> "working"]
           pc  == IF Named(h) THEN "mapId" ELSE "reply"
<1>1. work \in Seq(WorkSet) /\ h \in HandlerSet /\ HandlerOk(h)
  BY DEF BridgeInv, TypeOK, HandlerInv
<1>0. PICK n \in Nat \ {0} : n = Len(work) + 1
  BY <1>1
<1>2. new \in WorkSet
  BY <1>1 DEF WorkSet, HandlerSet
<1>3. work' = Append(work, new)
  BY DEF StartWork
<1>4. /\ work' \in Seq(WorkSet) /\ n \in Nat
      /\ DOMAIN work = 1 .. n - 1 /\ DOMAIN work' = 1 .. n
      /\ work'[n] = new /\ \A w \in DOMAIN work : work'[w] = work[w]
  <2> HIDE DEF new
  <2> QED
    BY <1>0, <1>1, <1>2, <1>3
<1>5. UNCHANGED << agent, call, told, lost, faults >> /\ Replace(h, pc, n)
  BY <1>0 DEF StartWork
<1>6. tasks' = IF agent = "workflow" THEN Put(tasks, n, n) ELSE tasks
  BY <1>0 DEF StartWork
<1>7. new.by = h.by /\ new.id = h.id /\ new.input = h.input
  OBVIOUS
<1> HIDE DEF new, pc
<1>8. /\ tasks \in [DOMAIN tasks -> DOMAIN work]
      /\ DOMAIN tasks \subseteq TaskId
      /\ faults \in 0 .. MaxFaults
      /\ told \subseteq TaskId \X DOMAIN work
      /\ call \in [Client -> CallSet]
      /\ agent \in {"foreign", "workflow"} /\ lost \in BOOLEAN
  BY DEF BridgeInv, TypeOK
<1>9. /\ DOMAIN tasks \subseteq DOMAIN tasks'
      /\ DOMAIN tasks' \subseteq TaskId
      /\ tasks' \in [DOMAIN tasks' -> DOMAIN work']
      /\ agent = "workflow" => n \in DOMAIN tasks'
      /\ \A id \in DOMAIN tasks' : \/ id = n /\ tasks'[id] = n
                                   \/ id \in DOMAIN tasks /\ tasks'[id] = tasks[id]
  <2>1. CASE agent = "workflow"
    <3>1. tasks' = [k \in DOMAIN tasks \cup {n} |-> IF k = n THEN n ELSE tasks[k]]
      BY <1>6, <2>1 DEF Put
    <3>2. n \in DOMAIN work' /\ DOMAIN work \subseteq DOMAIN work' /\ n \in TaskId
      BY <1>4 DEF TaskId
    <3>3. DOMAIN tasks' = DOMAIN tasks \cup {n}
      BY <3>1
    <3>4. \A id \in DOMAIN tasks' : tasks'[id] = IF id = n THEN n ELSE tasks[id]
      BY <3>1
    <3>5. \A id \in DOMAIN tasks' : tasks'[id] \in DOMAIN work'
      BY <1>8, <3>2, <3>3, <3>4
    <3>6. tasks' = [id \in DOMAIN tasks' |-> tasks'[id]]
      BY <3>1
    <3>7. tasks' \in [DOMAIN tasks' -> DOMAIN work']
      BY <3>5, <3>6
    <3> QED
      BY <1>8, <3>2, <3>3, <3>4, <3>7
  <2>2. CASE agent # "workflow"
    BY <1>4, <1>6, <1>8, <2>2
  <2> QED
    BY <2>1, <2>2
<1>10. Grows
  BY <1>4, <1>5, <1>8, <1>9, BridgeAssumption DEF Grows
<1>11. /\ pc \in {"mapId", "reply"} /\ OwnWork(h.by, n)' /\ work'[n].id = h.id
       /\ pc = "mapId" => Named(h)
       /\ pc = "reply" => ~ Named(h)
  BY <1>4, <1>7 DEF pc, OwnWork
<1>12. handlers' \subseteq HandlerSet /\ IsFiniteSet(handlers') /\ HandlerInv'
  BY <1>4, <1>5, <1>9, <1>10, <1>11, ReplaceOk
<1>13. TypeOK'
  BY <1>4, <1>5, <1>8, <1>9, <1>12 DEF TypeOK
<1>14. CallInv'
  BY <1>5, <1>10, CallsGrow DEF BridgeInv, CallInv
<1>15. MapInv'
  <2>1. n \in Meant(n)'
    BY <1>4 DEF Meant
  <2> QED
    BY <1>9, <1>10, <2>1, MeantGrows DEF BridgeInv, MapInv
<1>16. ToldInv'
  BY <1>5, <1>9, <1>10, MeantGrows DEF BridgeInv, ToldInv
<1>17. FedBackIsExplained'
  <2>1. \A w \in DOMAIN work : 1 .. w - 1 \subseteq DOMAIN work
    BY <1>4
  <2>2. ASSUME NEW w \in DOMAIN work, work[w].input = "output"
        PROVE  /\ work'[w].by \in Ending /\ faults' > 0
               /\ \E v \in 1 .. w - 1 : work'[v].by = work'[w].by /\ work'[v].state = "completed"
    BY <1>4, <1>5, <2>1, <2>2 DEF BridgeInv, FedBackIsExplained
  <2>3. ASSUME new.input = "output"
        PROVE  /\ new.by \in Ending /\ faults' > 0
               /\ \E v \in 1 .. n - 1 : work'[v].by = new.by /\ work'[v].state = "completed"
    <3>1. HasOutput(h.by)
      BY <1>1, <1>7, <2>3 DEF HandlerOk
    <3> QED
      BY <1>4, <1>5, <1>7, <3>1 DEF HasOutput
  <2> QED
    BY <1>4, <2>2, <2>3 DEF FedBackIsExplained
<1> QED
  BY <1>12, <1>13, <1>14, <1>15, <1>16, <1>17 DEF BridgeInv

LEMMA MapRequestIdStep ==
    ASSUME BridgeInv, NEW h \in handlers, MapRequestId(h)
    PROVE  BridgeInv'
<1>1. /\ tasks \in [DOMAIN tasks -> DOMAIN work]
      /\ DOMAIN tasks \subseteq TaskId
      /\ faults \in 0 .. MaxFaults
      /\ h \in HandlerSet
  BY DEF BridgeInv, TypeOK
<1>2. /\ UNCHANGED << agent, work, call, told, lost, faults >> /\ Replace(h, "reply", h.work)
      /\ tasks' = Put(tasks, h.id, h.work)
  BY DEF MapRequestId
<1>3. /\ OwnWork(h.by, h.work) /\ work[h.work].id = h.id /\ Named(h)
      /\ agent = "workflow" => h.work \in DOMAIN tasks
  BY DEF BridgeInv, HandlerInv, HandlerOk, MapRequestId
<1>4. h.work \in DOMAIN work /\ work[h.work].by = h.by
  BY <1>3 DEF OwnWork
<1>5. tasks' = [k \in DOMAIN tasks \cup {h.id} |-> IF k = h.id THEN h.work ELSE tasks[k]]
  BY <1>2 DEF Put
<1>6. DOMAIN tasks' = DOMAIN tasks \cup {h.id}
  BY <1>5
<1>7. \A id \in DOMAIN tasks' : tasks'[id] = IF id = h.id THEN h.work ELSE tasks[id]
  BY <1>5
<1>8. tasks' = [id \in DOMAIN tasks' |-> tasks'[id]]
  BY <1>5
<1>9. tasks' \in [DOMAIN tasks' -> DOMAIN work'] /\ DOMAIN tasks' \subseteq TaskId
  <2>1. \A id \in DOMAIN tasks' : tasks'[id] \in DOMAIN work
    BY <1>1, <1>4, <1>6, <1>7
  <2>2. DOMAIN tasks' \subseteq TaskId
    BY <1>1, <1>3, <1>6 DEF Named, HandlerSet
  <2> QED
    BY <1>2, <1>8, <2>1, <2>2
<1>10. Grows
  BY <1>1, <1>2, <1>6, BridgeAssumption DEF Grows
<1>11. handlers' \subseteq HandlerSet /\ IsFiniteSet(handlers') /\ HandlerInv'
  <2>1. h.work \in Nat
    BY <1>1 DEF HandlerSet
  <2>2. OwnWork(h.by, h.work)'
    BY <1>2, <1>4 DEF OwnWork
  <2> QED
    BY <1>2, <1>3, <1>6, <1>10, <2>1, <2>2, ReplaceOk
<1>12. TypeOK'
  BY <1>2, <1>9, <1>11 DEF BridgeInv, TypeOK
<1>13. CallInv'
  BY <1>2, <1>10, CallsGrow DEF BridgeInv, CallInv
<1>14. MapInv'
  <2>1. h.work \in Meant(h.id)
    BY <1>3, <1>4 DEF Meant
  <2> QED
    BY <1>6, <1>7, <1>10, <2>1, MeantGrows DEF BridgeInv, MapInv
<1>15. ToldInv' /\ FedBackIsExplained'
  BY <1>2, <1>6, <1>10, MeantGrows DEF BridgeInv, ToldInv, FedBackIsExplained
<1> QED
  BY <1>11, <1>12, <1>13, <1>14, <1>15 DEF BridgeInv

LEMMA ReplyStep ==
    ASSUME BridgeInv, NEW h \in handlers, Reply(h)
    PROVE  BridgeInv'
<1> DEFINE id == AnswerId(h)
           k  == IF h.by \in Foreign THEN Idle
                 ELSE [call[h.by] EXCEPT !.task = id,
                         !.pc = IF StatusOf(h.work) = "completed" THEN "done" ELSE "poll"]
<1>1. h \in HandlerSet /\ HandlerOk(h) /\ h.by \in Client /\ h.work \in Nat
  BY DEF BridgeInv, TypeOK, HandlerInv, HandlerSet
<1>2. h.work \in DOMAIN work /\ work[h.work].by = h.by /\ work[h.work].id = h.id
  BY <1>1 DEF HandlerOk, OwnWork, Reply
<1>5. h.by \notin Foreign => h.by \in Executor
  BY <1>1 DEF Client
<1>3. /\ id = h.work \/ id = h.id
      /\ h.by \notin Foreign => id = h.work
      /\ agent = "workflow" => id \in DOMAIN tasks
  BY <1>1, <1>5 DEF AnswerId, Named, HandlerOk, Reply
<1>4. id \in TaskId
  BY <1>1 DEF AnswerId, Named, TaskId, HandlerSet
<1> HIDE DEF id
<1>6. k \in CallSet /\ CallOk(h.by, k)
  <2>1. CASE h.by \in Foreign
    BY <2>1, IdleGood DEF CallOk, Idle
  <2>2. CASE h.by \notin Foreign
    <3>1. call[h.by] \in CallSet /\ (call[h.by].input = "output" => HasOutput(h.by))
      BY <1>1, CallFacts
    <3>2. /\ k \in CallSet /\ k.task = h.work /\ k.input = call[h.by].input
          /\ k.pc = IF StatusOf(h.work) = "completed" THEN "done" ELSE "poll"
      BY <1>3, <1>4, <2>2, <3>1 DEF CallSet
    <3>3. StatusOf(h.work) = "completed" => work[h.work].state = "completed"
      BY DEF StatusOf
    <3> HIDE DEF k
    <3> QED
      BY <1>2, <1>5, <2>2, <3>1, <3>2, <3>3 DEF CallOk, OwnWork
  <2> QED
    BY <2>1, <2>2
<1>7. /\ call' = [call EXCEPT ![h.by] = k] /\ handlers' = handlers \ {h}
      /\ told' = told \cup {<< id, h.work >>}
      /\ UNCHANGED << agent, work, tasks, lost, faults >>
  BY DEF Reply, id
<1> HIDE DEF k
<1>8. call' \in [Client -> CallSet] /\ \A d \in Client : CallOk(d, call'[d])
  BY <1>1, <1>6, <1>7 DEF BridgeInv, TypeOK, CallInv
<1>9. handlers' \subseteq HandlerSet /\ IsFiniteSet(handlers')
  BY <1>7, FS_RemoveElement DEF BridgeInv, TypeOK
<1>10. told' \subseteq TaskId \X DOMAIN work
  BY <1>2, <1>4, <1>7 DEF BridgeInv, TypeOK
<1>11. Grows
  BY <1>7, BridgeAssumption DEF BridgeInv, TypeOK, Grows
<1>12. TypeOK'
  BY <1>7, <1>8, <1>9, <1>10 DEF BridgeInv, TypeOK
<1>13. HandlerInv'
  BY <1>7, <1>11, HandlerGrows DEF BridgeInv, HandlerInv
<1>14. CallInv'
  BY <1>8, <1>11, CallsGrow
<1>15. MapInv' /\ FedBackIsExplained'
  BY <1>7 DEF BridgeInv, MapInv, Meant, FedBackIsExplained
<1>16. ToldInv'
  <2>1. h.work \in Meant(id)
    BY <1>2, <1>3 DEF Meant
  <2>2. \A t \in told' : t \in told \/ (t[1] = id /\ t[2] = h.work)
    BY <1>7
  <2> QED
    BY <1>3, <1>7, <1>11, <2>1, <2>2, MeantGrows DEF BridgeInv, ToldInv
<1> QED
  BY <1>9, <1>12, <1>13, <1>14, <1>15, <1>16 DEF BridgeInv

LEMMA WorkEndsStep ==
    ASSUME BridgeInv, NEW w \in DOMAIN work, WorkEnds(w)
    PROVE  BridgeInv'
<1>1. work \in Seq(WorkSet) /\ work[w] \in WorkSet
  BY DEF BridgeInv, TypeOK
<1>2. PICK s \in {"completed", "failed"} : work' = [work EXCEPT ![w].state = s]
  BY DEF WorkEnds
<1>3. UNCHANGED << agent, tasks, handlers, call, told, lost, faults >> /\ work[w].state = "working"
  BY DEF WorkEnds
<1>4. /\ work' \in Seq(WorkSet) /\ DOMAIN work' = DOMAIN work
      /\ \A v \in DOMAIN work : /\ work'[v].by = work[v].by /\ work'[v].input = work[v].input
                                /\ work'[v].id = work[v].id
                                /\ work[v].state = "completed" => work'[v].state = "completed"
  BY <1>1, <1>2, <1>3 DEF WorkSet
<1>5. Grows
  BY <1>3, <1>4, BridgeAssumption DEF BridgeInv, TypeOK, Grows
<1>6. TypeOK'
  BY <1>3, <1>4 DEF BridgeInv, TypeOK
<1>7. HandlerInv'
  BY <1>3, <1>5, HandlerGrows DEF BridgeInv, HandlerInv
<1>8. CallInv'
  BY <1>3, <1>5, CallsGrow DEF BridgeInv, CallInv
<1>9. MapInv'
  BY <1>3, <1>5, MeantGrows DEF BridgeInv, MapInv
<1>10. ToldInv'
  BY <1>3, <1>5, MeantGrows DEF BridgeInv, ToldInv
<1>11. FedBackIsExplained'
  <2>1. \A v \in DOMAIN work : 1 .. v - 1 \subseteq DOMAIN work
    BY <1>1
  <2> QED
    BY <1>3, <1>4, <2>1 DEF BridgeInv, FedBackIsExplained
<1> QED
  BY <1>3, <1>6, <1>7, <1>8, <1>9, <1>10, <1>11 DEF BridgeInv

LEMMA AgentCrashStep ==
    ASSUME BridgeInv, AgentCrash
    PROVE  BridgeInv'
<1>1. /\ UNCHANGED << agent, work, told >> /\ handlers' = {} /\ lost' = TRUE
      /\ DOMAIN tasks' = {} /\ tasks' \in [DOMAIN tasks' -> DOMAIN work']
  BY DEF AgentCrash
<1>2. faults' \in 0 .. MaxFaults /\ faults' >= faults /\ faults \in Nat /\ faults' \in Nat
  BY BridgeAssumption DEF BridgeInv, TypeOK, AgentCrash, Fault
<1>3. \A c \in Client : call'[c] = call[c] \/ call'[c] = Errs(c, call[c])
  BY DEF AgentCrash
<1>4. \A c \in Client : call'[c] \in CallSet /\ CallOk(c, call'[c])
  BY <1>3, CallFacts, ErrsOk
<1>5. call' = [c \in Client |-> call'[c]]
  BY DEF AgentCrash
<1>6. call' \in [Client -> CallSet]
  BY <1>4, <1>5
<1>7. CallInv'
  BY <1>1, <1>2, <1>4 DEF CallInv, CallOk, OwnWork, HasOutput
<1>8. TypeOK' /\ IsFiniteSet(handlers')
  BY <1>1, <1>2, <1>6, FS_EmptySet DEF BridgeInv, TypeOK
<1>9. HandlerInv' /\ MapInv'
  BY <1>1 DEF HandlerInv, MapInv
<1>10. ToldInv'
  BY <1>1 DEF BridgeInv, ToldInv, Meant
<1>11. FedBackIsExplained'
  BY <1>1, <1>2 DEF BridgeInv, FedBackIsExplained
<1> QED
  BY <1>7, <1>8, <1>9, <1>10, <1>11 DEF BridgeInv

LEMMA BridgeNext == BridgeInv /\ [Next]_vars => BridgeInv'
<1> SUFFICES ASSUME BridgeInv, [Next]_vars PROVE BridgeInv'
  OBVIOUS
<1>1. ASSUME NEW c \in Client,
             ClientStep(c) \/ PollFails(c) \/ FinishFails(c) \/ CallerCrash(c)
      PROVE  BridgeInv'
  BY <1>1, BeginStep, SendStep, SendFailsStep, GivesUpStep, PollStep, FinishStep, PollFailsStep,
     FinishFailsStep, CallerCrashStep DEF ClientStep
<1>2. ASSUME NEW h \in handlers,
             StartWork(h) \/ StartFails(h) \/ MapRequestId(h) \/ Reply(h)
      PROVE  BridgeInv'
  BY <1>2, StartWorkStep, StartFailsStep, MapRequestIdStep, ReplyStep
<1>3. ASSUME NEW w \in DOMAIN work, WorkEnds(w) PROVE BridgeInv'
  BY <1>3, WorkEndsStep
<1>4. CASE AgentCrash
  BY <1>4, AgentCrashStep
<1>5. CASE UNCHANGED vars
  <2>1. UNCHANGED << agent, work, tasks, handlers, call, told, lost, faults >>
    BY <1>5 DEF vars
  <2> QED
    BY <2>1 DEF BridgeInv, TypeOK, HandlerInv, HandlerOk, Named, CallInv, CallOk, OwnWork,
       HasOutput, MapInv, ToldInv, Meant, FedBackIsExplained
<1> QED
  BY <1>1, <1>2, <1>3, <1>4, <1>5 DEF Next

-----------------------------------------------------------------------------
LEMMA BridgeInvariant == Spec => []BridgeInv
  BY BridgeInit, BridgeNext, PTL DEF Spec

(* Types: in particular the map leads only to work that was started, and   *)
(* nobody is told an id without work.                                      *)
THEOREM BridgeTypes == Spec => []TypeOK
<1>1. BridgeInv => TypeOK
  BY DEF BridgeInv
<1> QED
  BY <1>1, BridgeInvariant, PTL

(* An executor never goes on with the result of somebody else's work, or   *)
(* with one that is not there yet (Execute, pollUntilComplete).            *)
THEOREM ResultsOwn == Spec => []ResultIsOwn
<1>1. BridgeInv => ResultIsOwn
  BY DEF BridgeInv, CallInv, CallOk, OwnWork, ResultIsOwn, Client
<1> QED
  BY <1>1, BridgeInvariant, PTL

(* An agent is given its own output again only after the workflow could    *)
(* not be ended (runA2AAction keeps the output in t.input across retries). *)
THEOREM FedBackExplained == Spec => []FedBackIsExplained
<1>1. BridgeInv => FedBackIsExplained
  BY DEF BridgeInv
<1> QED
  BY <1>1, BridgeInvariant, PTL

(* The map of the WorkflowAgent knows every id a client was told, as long  *)
(* as its process lives, and answers for the work the client was told of   *)
(* unless another request came with the same id: however many clients      *)
(* share ids, reuse drawn ones, and however their handlers interleave      *)
(* (handleSubmitTask, handleTaskStatus).                                   *)
THEOREM ToldKnown == Spec => []ToldIsKnown
<1>1. BridgeInv => ToldIsKnown
  BY DEF BridgeInv, MapInv, ToldInv, ToldIsKnown
<1> QED
  BY <1>1, BridgeInvariant, PTL

-----------------------------------------------------------------------------
(* The bound on the work of an executor: what it submitted is what the     *)
(* agent has and what handlers are still going to start, and each attempt  *)
(* past its SendTask accounts for one.  A crash of the engine starts the   *)
(* count of attempts over.                                                 *)
Starting(c) == {h \in handlers : h.by = c /\ h.pc = "start"}
Given(c)    == Cardinality(WorkOf(c)) + Cardinality(Starting(c))
Spent(k)    == IF k.pc = "send" THEN k.attempt - 1 ELSE k.attempt

CountOk(k) ==
    /\ k.attempt <= RetryAttempts
    /\ k.pc = "send" => k.attempt >= 1
    /\ k.pc = "idle" => k.attempt = 0

Counted(c) ==
    /\ CountOk(call[c])
    /\ Given(c) <= RetryAttempts * faults + Spent(call[c])

CountInv == \A c \in Executor : Counted(c)

LEMMA GivenType ==
    ASSUME BridgeInv, NEW c
    PROVE  /\ IsFiniteSet(WorkOf(c)) /\ Cardinality(WorkOf(c)) \in Nat
           /\ IsFiniteSet(Starting(c)) /\ Cardinality(Starting(c)) \in Nat
           /\ Given(c) \in Nat
<1>1. IsFiniteSet(handlers) /\ work \in Seq(WorkSet)
  BY DEF BridgeInv, TypeOK
<1>2. IsFiniteSet(1 .. Len(work))
  BY <1>1, FS_Interval
<1>3. WorkOf(c) \subseteq 1 .. Len(work) /\ Starting(c) \subseteq handlers
  BY <1>1 DEF WorkOf, Starting
<1>4. IsFiniteSet(WorkOf(c)) /\ IsFiniteSet(Starting(c))
  BY <1>1, <1>2, <1>3, FS_Subset
<1> QED
  BY <1>4, FS_CardinalityType DEF Given

LEMMA Times ==
    \A r, m, n \in Nat :
        /\ n >= m => r * n >= r * m
        /\ r * (m + 1) = r * m + r
        /\ r * m \in Nat
  OBVIOUS

LEMMA GivenNat == BridgeInv => \A c \in Client : Given(c) \in Nat
  BY GivenType

LEMMA GivenNatNext == BridgeInv' => (\A c \in Client : Given(c) \in Nat)'
  BY GivenNat, PTL

(* Each step of an executor's call costs at most what it accounts for. *)
LEMMA CountStep ==
    ASSUME BridgeInv, BridgeInv', NEW c \in Executor, Counted(c),
           faults' >= faults,
           CountOk(call'[c]),
           \/ Given(c)' <= Given(c) /\ Spent(call'[c]) >= Spent(call[c])
           \/ Given(c)' <= Given(c) + 1 /\ Spent(call'[c]) >= Spent(call[c]) + 1
           \/ Given(c)' <= Given(c) /\ faults' = faults + 1 /\ Spent(call'[c]) = 0
    PROVE  Counted(c)'
<1>1. c \in Client /\ RetryAttempts \in Nat /\ faults \in Nat /\ faults' \in Nat
  BY BridgeAssumption DEF Client, BridgeInv, TypeOK
<1>2. call[c].attempt \in Nat /\ call'[c].attempt \in Nat
  BY <1>1 DEF BridgeInv, TypeOK, CallSet
<1>3. Given(c) \in Nat /\ Given(c)' \in Nat
  BY <1>1, GivenNat, GivenNatNext
<1>4. /\ RetryAttempts * faults' >= RetryAttempts * faults
      /\ RetryAttempts * (faults + 1) = RetryAttempts * faults + RetryAttempts
      /\ RetryAttempts * faults \in Nat /\ RetryAttempts * faults' \in Nat
  <2> DEFINE r == RetryAttempts
             m == faults
             n == faults'
  <2>1. r \in Nat /\ m \in Nat /\ n \in Nat /\ n >= m
    BY <1>1
  <2> HIDE DEF r, m, n
  <2>2. r * n >= r * m /\ r * (m + 1) = r * m + r /\ r * m \in Nat /\ r * n \in Nat
    BY <2>1, Times
  <2> QED
    BY <2>2 DEF r, m, n
<1> DEFINE x == Given(c)
           y == Given(c)'
           p == RetryAttempts * faults
           q == RetryAttempts * faults'
<1>5. Spent(call[c]) \in Int /\ Spent(call'[c]) \in Int /\ Spent(call[c]) <= RetryAttempts
  BY <1>1, <1>2 DEF Spent, Counted, CountOk
<1>6. y <= q + Spent(call'[c])
  <2>1. x <= p + Spent(call[c]) /\ q >= p
    BY <1>4 DEF Counted
  <2>2. faults' = faults + 1 => q = p + RetryAttempts
    BY <1>4
  <2>3. x \in Nat /\ y \in Nat /\ p \in Nat /\ q \in Nat
    BY <1>3, <1>4
  <2>4. \/ y <= x /\ Spent(call'[c]) >= Spent(call[c])
        \/ y <= x + 1 /\ Spent(call'[c]) >= Spent(call[c]) + 1
        \/ y <= x /\ q = p + RetryAttempts /\ Spent(call'[c]) = 0
    BY <2>2
  <2> HIDE DEF x, y, p, q
  <2> QED
    BY <1>1, <1>5, <2>1, <2>3, <2>4
<1> QED
  BY <1>6 DEF Counted

(* What the steps do to the count of attempts. *)
LEMMA ErrsCount ==
    ASSUME NEW c \in Executor, NEW k \in CallSet, CountOk(k)
    PROVE  CountOk(Errs(c, k)) /\ Spent(Errs(c, k)) >= Spent(k)
<1>1. RetryAttempts \in Nat /\ k.attempt \in Nat
  BY BridgeAssumption DEF CallSet
<1>2. CASE k.attempt < RetryAttempts
  <2>1. Errs(c, k).pc = "send" /\ Errs(c, k).attempt = k.attempt + 1
    BY <1>2 DEF Errs, Idle
  <2> QED
    BY <1>1, <1>2, <2>1 DEF CountOk, Spent
<1>3. CASE ~ (k.attempt < RetryAttempts)
  <2>1. Errs(c, k).pc = "failed" /\ Errs(c, k).attempt = k.attempt
    BY <1>3 DEF Errs, CallSet
  <2> QED
    BY <1>1, <2>1 DEF CountOk, Spent
<1> QED
  BY <1>2, <1>3

LEMMA SameAttempt ==
    ASSUME NEW j \in CallSet, NEW k \in CallSet, CountOk(j),
           k.attempt = j.attempt, k.pc \notin {"idle", "send"}
    PROVE  CountOk(k) /\ Spent(k) >= Spent(j)
<1>1. j.attempt \in Nat
  BY DEF CallSet
<1> QED
  BY <1>1 DEF CountOk, Spent

LEMMA PollsOnCount ==
    ASSUME NEW c \in Executor, NEW k \in CallSet, CountOk(k), k.pc = "poll"
    PROVE  CountOk(PollsOn(c, k)) /\ Spent(PollsOn(c, k)) >= Spent(k)
<1>1. CASE k.polls + 1 < MaxRetry
  <2> DEFINE j == [k EXCEPT !.polls = @ + 1]
  <2>1. PollsOn(c, k) = j /\ j \in CallSet /\ j.attempt = k.attempt /\ j.pc = "poll"
    BY <1>1 DEF PollsOn, CallSet
  <2> HIDE DEF j
  <2> QED
    BY <2>1, SameAttempt
<1>2. CASE ~ (k.polls + 1 < MaxRetry)
  BY <1>2, ErrsCount DEF PollsOn
<1> QED
  BY <1>1, <1>2

LEMMA CallCount ==
    ASSUME BridgeInv, BridgeInv', Next, NEW c \in Executor, CountOk(call[c])
    PROVE  /\ CountOk(call'[c])
           /\ Spent(call'[c]) >= Spent(call[c]) \/ CallerCrash(c)
<1> DEFINE Goal == /\ CountOk(call'[c])
                   /\ Spent(call'[c]) >= Spent(call[c]) \/ CallerCrash(c)
<1>1. c \in Client /\ call[c] \in CallSet /\ call'[c] \in CallSet /\ call \in [Client -> CallSet]
  BY DEF Client, BridgeInv, TypeOK
<1>2. call[c].attempt \in Nat /\ RetryAttempts \in Nat \ {0}
  BY <1>1, BridgeAssumption DEF CallSet
<1>3. CASE call'[c] = call[c]
  BY <1>2, <1>3 DEF Spent
<1>4. CASE call'[c] = Errs(c, call[c])
  BY <1>1, <1>4, ErrsCount
<1>5. CASE call[c].pc = "poll" /\ call'[c] = PollsOn(c, call[c])
  BY <1>1, <1>5, PollsOnCount
<1>6. CASE call'[c].attempt = call[c].attempt /\ call'[c].pc \notin {"idle", "send"}
  BY <1>1, <1>6, SameAttempt
<1>7. ASSUME NEW d \in Client, ClientStep(d)
      PROVE  Goal
  <2>1. CASE d # c
    BY <1>1, <1>3, <1>7, <2>1 DEF ClientStep, Begin, Send, SendFails, GivesUp, Poll, Finish
  <2>2. CASE d = c /\ Begin(d)
    BY <1>1, <1>2, <2>2 DEF Begin, Idle, CountOk, Spent
  <2>3. CASE d = c /\ Send(d)
    BY <1>1, <1>6, <2>3 DEF Send, CallSet
  <2>4. CASE d = c /\ (SendFails(d) \/ GivesUp(d))
    BY <1>1, <1>4, <2>4 DEF SendFails, GivesUp
  <2>5. CASE d = c /\ Poll(d)
    <3>1. call'[c] \in {PollsOn(c, call[c]), Errs(c, call[c]), [call[c] EXCEPT !.pc = "done"]}
      BY <1>1, <2>5 DEF Poll, Answered
    <3>2. call[c].pc = "poll"
      BY <2>5 DEF Poll
    <3>3. CASE call'[c] = [call[c] EXCEPT !.pc = "done"]
      BY <1>1, <1>6, <3>3 DEF CallSet
    <3> QED
      BY <1>4, <1>5, <3>1, <3>2, <3>3
  <2>6. CASE d = c /\ Finish(d)
    BY <1>1, <1>6, <2>6 DEF Finish, CallSet
  <2> QED
    BY <1>7, <2>1, <2>2, <2>3, <2>4, <2>5, <2>6 DEF ClientStep
<1>8. ASSUME NEW d \in Client, PollFails(d)
      PROVE  Goal
  BY <1>1, <1>3, <1>4, <1>5, <1>8 DEF PollFails
<1>9. ASSUME NEW d \in Client, FinishFails(d)
      PROVE  Goal
  <2>1. CASE d # c
    BY <1>1, <1>3, <1>9, <2>1 DEF FinishFails
  <2>2. CASE d = c
    <3>1. PICK i \in {call[c].input, "output"} :
            call'[c] = Errs(c, [call[c] EXCEPT !.input = i])
      BY <1>1, <1>9, <2>2 DEF FinishFails
    <3> DEFINE j == [call[c] EXCEPT !.input = i]
    <3>2. j \in CallSet /\ j.attempt = call[c].attempt /\ j.pc = call[c].pc
      BY <1>1, <3>1 DEF CallSet, Inputs
    <3> HIDE DEF j
    <3>3. CountOk(j) /\ Spent(j) = Spent(call[c])
      BY <3>2 DEF CountOk, Spent
    <3>4. CountOk(Errs(c, j)) /\ Spent(Errs(c, j)) >= Spent(j)
      BY <3>2, <3>3, ErrsCount
    <3> QED
      BY <3>1, <3>3, <3>4 DEF j
  <2> QED
    BY <2>1, <2>2
<1>10. ASSUME NEW d \in Client, CallerCrash(d)
       PROVE  Goal
  <2>1. CASE d # c
    BY <1>1, <1>3, <1>10, <2>1 DEF CallerCrash
  <2>2. CASE d = c
    <3>1. call'[c] = Idle
      BY <1>1, <1>10, <2>2 DEF CallerCrash
    <3> QED
      BY <1>2, <1>10, <2>2, <3>1 DEF Idle, CountOk
  <2> QED
    BY <2>1, <2>2
<1>11. ASSUME NEW h \in handlers, StartWork(h) \/ StartFails(h) \/ MapRequestId(h)
       PROVE  Goal
  <2>1. \/ call' = call
        \/ call' = [call EXCEPT ![h.by] = Errs(h.by, call[h.by])]
    BY <1>11 DEF StartWork, StartFails, MapRequestId
  <2>2. call'[c] = call[c] \/ call'[c] = Errs(c, call[c])
    BY <1>1, <2>1
  <2> QED
    BY <1>3, <1>4, <2>2
<1>12. ASSUME NEW h \in handlers, Reply(h)
       PROVE  Goal
  <2>1. CASE h.by # c
    BY <1>1, <1>3, <1>12, <2>1 DEF Reply
  <2>2. CASE h.by = c
    <3>1. c \notin Foreign
      BY BridgeAssumption
    <3> QED
      BY <1>1, <1>6, <1>12, <2>2, <3>1 DEF Reply, CallSet
  <2> QED
    BY <2>1, <2>2
<1>13. ASSUME (\E w \in DOMAIN work : WorkEnds(w)) \/ AgentCrash
       PROVE  Goal
  <2>1. call'[c] = call[c] \/ call'[c] = Errs(c, call[c])
    BY <1>1, <1>13 DEF WorkEnds, AgentCrash
  <2> QED
    BY <1>3, <1>4, <2>1
<1> HIDE DEF Goal
<1>14. Goal
  <2>1. ASSUME NEW d \in Client,
               ClientStep(d) \/ PollFails(d) \/ FinishFails(d) \/ CallerCrash(d)
        PROVE  Goal
    BY <1>7, <1>8, <1>9, <1>10, <2>1
  <2>2. ASSUME NEW h \in handlers,
               StartWork(h) \/ StartFails(h) \/ MapRequestId(h) \/ Reply(h)
        PROVE  Goal
    BY <1>11, <1>12, <2>2
  <2>3. CASE \E d \in Client :
              ClientStep(d) \/ PollFails(d) \/ FinishFails(d) \/ CallerCrash(d)
    BY <2>1, <2>3
  <2>4. CASE \E h \in handlers :
              StartWork(h) \/ StartFails(h) \/ MapRequestId(h) \/ Reply(h)
    BY <2>2, <2>4
  <2> QED
    BY <1>13, <2>3, <2>4 DEF Next
<1> QED
  BY <1>14 DEF Goal

(* What the steps do to the work that was submitted. *)
LEMMA GivenLess ==
    ASSUME BridgeInv, NEW c, WorkOf(c)' = WorkOf(c), Starting(c)' \subseteq Starting(c)
    PROVE  Given(c)' <= Given(c)
<1>1. /\ IsFiniteSet(Starting(c)) /\ Cardinality(Starting(c)) \in Nat
      /\ Cardinality(WorkOf(c)) \in Nat
  BY GivenType
<1>2. Cardinality(Starting(c)') <= Cardinality(Starting(c)) /\ IsFiniteSet(Starting(c)')
  BY <1>1, FS_Subset
<1>3. Cardinality(Starting(c)') \in Nat
  BY <1>2, FS_CardinalityType
<1>4. Given(c)' = Cardinality(WorkOf(c)) + Cardinality(Starting(c)')
  BY DEF Given
<1> QED
  BY <1>1, <1>2, <1>3, <1>4 DEF Given

LEMMA GivenOrphaned ==
    ASSUME BridgeInv, NEW c, NEW d, work' = work, handlers' = Orphaned(d)
    PROVE  Given(c)' <= Given(c)
<1>1. handlers \subseteq HandlerSet
  BY DEF BridgeInv, TypeOK
<1>2. WorkOf(c)' = WorkOf(c)
  BY DEF WorkOf
<1>3. CASE c # d
  <2>1. Starting(c)' \subseteq Starting(c)
    BY <1>1, <1>3 DEF Starting, Orphaned, HandlerSet
  <2> QED
    BY <1>2, <2>1, GivenLess
<1>4. CASE c = d
  <2> DEFINE f == [h \in HandlerSet |-> [h EXCEPT !.live = FALSE]]
             S == Starting(c)
             T == {f[h] : h \in S}
  <2>1. Starting(c)' \subseteq T
    BY <1>1, <1>4 DEF Starting, Orphaned, HandlerSet
  <2>2. IsFiniteSet(S) /\ Cardinality(S) \in Nat /\ Cardinality(WorkOf(c)) \in Nat
    BY GivenType
  <2>3. IsFiniteSet(T) /\ Cardinality(T) <= Cardinality(S)
    <3> HIDE DEF f, S
    <3> QED
      BY <2>2, Image
  <2> HIDE DEF T
  <2>4. Cardinality(Starting(c)') <= Cardinality(T) /\ IsFiniteSet(Starting(c)')
    BY <2>1, <2>3, FS_Subset
  <2>5. Cardinality(Starting(c)') \in Nat /\ Cardinality(T) \in Nat
    BY <2>3, <2>4, FS_CardinalityType
  <2>6. Given(c)' = Cardinality(WorkOf(c)) + Cardinality(Starting(c)')
    BY <1>2 DEF Given
  <2> QED
    BY <2>2, <2>3, <2>4, <2>5, <2>6 DEF Given
<1> QED
  BY <1>3, <1>4

LEMMA GivenSend ==
    ASSUME BridgeInv, NEW c, NEW d \in Client, Send(d)
    PROVE  /\ Given(c)' <= Given(c) + 1
           /\ c # d => Given(c)' <= Given(c)
<1>1. PICK hd : handlers' = handlers \cup {hd} /\ hd.by = d
  <2> DEFINE used == {h.no : h \in {g \in handlers : g.by = d /\ g.pc = "start"}}
             no   == CHOOSE n \in 0 .. Cardinality(used) : n \notin used
             new(id) == [by |-> d, id |-> id, no |-> no, input |-> call[d].input, work |-> 0,
                         pc |-> "start", live |-> TRUE]
  <2>1. PICK id \in Ids(d) : handlers' = handlers \cup {new(id)}
    BY DEF Send
  <2>2. new(id).by = d
    OBVIOUS
  <2> HIDE DEF new
  <2> QED
    BY <2>1, <2>2
<1>2. WorkOf(c)' = WorkOf(c)
  BY DEF Send, WorkOf
<1>3. ASSUME c # d PROVE Given(c)' <= Given(c)
  <2>1. Starting(c)' \subseteq Starting(c)
    BY <1>1, <1>3 DEF Starting
  <2> QED
    BY <1>2, <2>1, GivenLess
<1> DEFINE S == Starting(c)
<1>4. IsFiniteSet(S) /\ Cardinality(S) \in Nat /\ Cardinality(WorkOf(c)) \in Nat
  BY GivenType
<1>5. S' = S \/ S' = S \cup {hd}
  BY <1>1 DEF Starting
<1>6. Cardinality(S') \in {Cardinality(S), Cardinality(S) + 1}
  <2> DEFINE A == S
             B == S'
  <2>1. IsFiniteSet(A) /\ (B = A \/ B = A \cup {hd})
    BY <1>4, <1>5
  <2> HIDE DEF A, B
  <2>2. Cardinality(B) \in {Cardinality(A), Cardinality(A) + 1}
    BY <2>1, FS_AddElement
  <2> QED
    BY <2>2 DEF A, B
<1>7. Given(c)' = Cardinality(WorkOf(c)) + Cardinality(S')
  BY <1>2 DEF Given
<1>8. Given(c)' <= Given(c) + 1
  BY <1>4, <1>6, <1>7 DEF Given
<1> QED
  BY <1>3, <1>8

LEMMA GivenStart ==
    ASSUME BridgeInv, NEW c, NEW h \in handlers, StartWork(h)
    PROVE  Given(c)' <= Given(c)
<1>1. work \in Seq(WorkSet) /\ h \in HandlerSet
  BY DEF BridgeInv, TypeOK
<1>2. work' = Append(work, [by |-> h.by, id |-> h.id, input |-> h.input, state |-> "working"])
  BY DEF StartWork
<1>3. PICK n \in Nat \ {0} : n = Len(work) + 1
  BY <1>1
<1>4. /\ DOMAIN work = 1 .. n - 1 /\ DOMAIN work' = 1 .. n
      /\ work'[n].by = h.by /\ \A w \in DOMAIN work : work'[w] = work[w]
  BY <1>1, <1>2, <1>3
<1>5. \A g \in handlers' : (g \in handlers /\ g # h) \/ g.pc # "start"
  <2> DEFINE pc  == IF Named(h) THEN "mapId" ELSE "reply"
             new == [h EXCEPT !.pc = pc, !.work = Len(work) + 1, !.no = 0]
  <2>1. handlers' \subseteq (handlers \ {h}) \cup {new}
    BY DEF StartWork, Replace
  <2>2. new.pc # "start"
    BY <1>1 DEF HandlerSet
  <2> HIDE DEF new
  <2> QED
    BY <2>1, <2>2
<1>6. CASE h.by # c
  <2>1. WorkOf(c)' = WorkOf(c)
    BY <1>4, <1>6 DEF WorkOf
  <2>2. Starting(c)' \subseteq Starting(c)
    BY <1>5 DEF Starting
  <2> QED
    BY <2>1, <2>2, GivenLess
<1>7. CASE h.by = c
  <2> DEFINE S == Starting(c)
             W == WorkOf(c)
             S2 == Starting(c)'
             W2 == WorkOf(c)'
  <2>1. IsFiniteSet(S) /\ Cardinality(S) \in Nat /\ IsFiniteSet(W) /\ Cardinality(W) \in Nat
    BY GivenType
  <2>2. W2 = W \cup {n} /\ n \notin W
    BY <1>4, <1>7 DEF WorkOf
  <2>3. S2 \subseteq S \ {h} /\ h \in S
    BY <1>5, <1>7 DEF Starting, StartWork
  <2>4. Given(c)' = Cardinality(W2) + Cardinality(S2) /\ Given(c) = Cardinality(W) + Cardinality(S)
    BY DEF Given
  <2> HIDE DEF S, W, S2, W2
  <2>5. Cardinality(W2) = Cardinality(W) + 1
    BY <2>1, <2>2, FS_AddElement
  <2>6. IsFiniteSet(S \ {h}) /\ Cardinality(S \ {h}) = Cardinality(S) - 1
    BY <2>1, <2>3, FS_RemoveElement
  <2>7. IsFiniteSet(S2) /\ Cardinality(S2) <= Cardinality(S \ {h})
    BY <2>3, <2>6, FS_Subset
  <2>8. Cardinality(S2) \in Nat
    BY <2>7, FS_CardinalityType
  <2> QED
    BY <2>1, <2>4, <2>5, <2>6, <2>7, <2>8
<1> QED
  BY <1>6, <1>7

LEMMA GivenCount ==
    ASSUME BridgeInv, Next, NEW c \in Executor
    PROVE  \/ Given(c)' <= Given(c)
           \/ Given(c)' <= Given(c) + 1 /\ Send(c)
<1> DEFINE Goal == \/ Given(c)' <= Given(c)
                   \/ Given(c)' <= Given(c) + 1 /\ Send(c)
<1>1. handlers \subseteq HandlerSet /\ work \in Seq(WorkSet)
  BY DEF BridgeInv, TypeOK
<1>2. ASSUME work' = work, handlers' \subseteq handlers PROVE Goal
  <2>1. WorkOf(c)' = WorkOf(c) /\ Starting(c)' \subseteq Starting(c)
    BY <1>2 DEF WorkOf, Starting
  <2> QED
    BY <2>1, GivenLess
<1> HIDE DEF Goal
<1>3. ASSUME NEW d \in Client,
             ClientStep(d) \/ PollFails(d) \/ FinishFails(d) \/ CallerCrash(d)
      PROVE  Goal
  <2>1. CASE Send(d)
    BY <2>1, GivenSend DEF Goal
  <2>2. CASE GivesUp(d) \/ CallerCrash(d)
    <3>1. work' = work /\ handlers' = Orphaned(d)
      BY <2>2 DEF GivesUp, CallerCrash
    <3> QED
      BY <3>1, GivenOrphaned DEF Goal
  <2>3. CASE \/ Begin(d) \/ SendFails(d) \/ Poll(d) \/ Finish(d) \/ PollFails(d) \/ FinishFails(d)
    <3>1. work' = work /\ handlers' = handlers
      BY <2>3 DEF Begin, SendFails, Poll, Finish, PollFails, FinishFails
    <3> QED
      BY <1>2, <3>1
  <2> QED
    BY <1>3, <2>1, <2>2, <2>3 DEF ClientStep
<1>4. ASSUME NEW h \in handlers,
             StartWork(h) \/ StartFails(h) \/ MapRequestId(h) \/ Reply(h)
      PROVE  Goal
  <2>1. CASE StartWork(h)
    BY <2>1, GivenStart DEF Goal
  <2>2. CASE StartFails(h) \/ Reply(h)
    <3>1. work' = work /\ handlers' \subseteq handlers
      BY <2>2 DEF StartFails, Reply
    <3> QED
      BY <1>2, <3>1
  <2>3. CASE MapRequestId(h)
    <3> DEFINE new == [h EXCEPT !.pc = "reply", !.work = h.work, !.no = 0]
    <3>1. work' = work /\ handlers' \subseteq (handlers \ {h}) \cup {new}
      BY <2>3 DEF MapRequestId, Replace
    <3>2. new.pc # "start"
      BY <1>1 DEF HandlerSet
    <3> HIDE DEF new
    <3>3. WorkOf(c)' = WorkOf(c) /\ Starting(c)' \subseteq Starting(c)
      BY <3>1, <3>2 DEF WorkOf, Starting
    <3> QED
      BY <3>3, GivenLess DEF Goal
  <2> QED
    BY <1>4, <2>1, <2>2, <2>3
<1>5. ASSUME NEW w \in DOMAIN work, WorkEnds(w) PROVE Goal
  <2>1. /\ handlers' = handlers /\ DOMAIN work' = DOMAIN work
        /\ \A v \in DOMAIN work : work'[v].by = work[v].by
    BY <1>1, <1>5 DEF WorkEnds, WorkSet
  <2>2. WorkOf(c)' = WorkOf(c) /\ Starting(c)' \subseteq Starting(c)
    BY <2>1 DEF WorkOf, Starting
  <2> QED
    BY <2>2, GivenLess DEF Goal
<1>6. ASSUME AgentCrash PROVE Goal
  <2>1. work' = work /\ handlers' \subseteq handlers
    BY <1>6 DEF AgentCrash
  <2> QED
    BY <1>2, <2>1
<1>7. Goal
  <2>1. CASE \E d \in Client :
              ClientStep(d) \/ PollFails(d) \/ FinishFails(d) \/ CallerCrash(d)
    BY <1>3, <2>1
  <2>2. CASE \E h \in handlers :
              StartWork(h) \/ StartFails(h) \/ MapRequestId(h) \/ Reply(h)
    BY <1>4, <2>2
  <2>3. CASE \E w \in DOMAIN work : WorkEnds(w)
    BY <1>5, <2>3
  <2> QED
    BY <1>6, <2>1, <2>2, <2>3 DEF Next
<1> QED
  BY <1>7 DEF Goal

LEMMA CountInit == Init => CountInv
<1> SUFFICES ASSUME Init, NEW c \in Executor PROVE Counted(c)
  BY DEF CountInv
<1>1. call[c] = Idle /\ faults = 0 /\ RetryAttempts \in Nat
  BY BridgeAssumption DEF Init, Client
<1>2. WorkOf(c) = {} /\ Starting(c) = {}
  BY DEF Init, WorkOf, Starting
<1>3. Given(c) = 0
  BY <1>2, FS_EmptySet DEF Given
<1> QED
  BY <1>1, <1>3 DEF Counted, CountOk, Spent, Idle

LEMMA CountNext == BridgeInv /\ BridgeInv' /\ CountInv /\ [Next]_vars => CountInv'
<1> SUFFICES ASSUME BridgeInv, BridgeInv', CountInv, [Next]_vars, NEW c \in Executor
             PROVE  Counted(c)'
  BY DEF CountInv
<1>1. Counted(c)
  BY DEF CountInv
<1>2. CASE UNCHANGED vars
  BY <1>1, <1>2 DEF vars, Counted, Given, WorkOf, Starting
<1>3. CASE Next
  <2>1. CountOk(call'[c]) /\ (Spent(call'[c]) >= Spent(call[c]) \/ CallerCrash(c))
    BY <1>1, <1>3, CallCount DEF Counted
  <2>2. faults' >= faults /\ faults' \in Nat /\ faults \in Nat
    <3>1. faults \in 0 .. MaxFaults /\ faults' \in 0 .. MaxFaults /\ MaxFaults \in Nat
      BY BridgeAssumption DEF BridgeInv, TypeOK
    <3>2. faults' = faults \/ faults' = faults + 1
      BY <1>3 DEF Next, ClientStep, Begin, Send, SendFails, GivesUp, Poll, Finish, PollFails,
         FinishFails, CallerCrash, StartWork, StartFails, MapRequestId, Reply, WorkEnds,
         AgentCrash, Fault, NoFault
    <3> QED
      BY <3>1, <3>2
  <2>3. CASE CallerCrash(c)
    <3>1. Given(c)' <= Given(c)
      BY <2>3, GivenOrphaned DEF CallerCrash
    <3>2. faults' = faults + 1 /\ Spent(call'[c]) = 0
      BY <2>3 DEF CallerCrash, Fault, Spent, Idle, BridgeInv, TypeOK, Client
    <3> QED
      BY <1>1, <2>1, <2>2, <3>1, <3>2, CountStep
  <2>4. CASE Send(c)
    <3>1. Given(c)' <= Given(c) + 1
      BY <2>4, GivenSend DEF Client
    <3>2. call[c] \in CallSet /\ call[c].pc = "send" /\ call'[c] = [call[c] EXCEPT !.pc = "wait"]
      BY <2>4 DEF Send, BridgeInv, TypeOK, Client
    <3>3. Spent(call'[c]) >= Spent(call[c]) + 1
      BY <3>2 DEF Spent, CallSet
    <3> QED
      BY <1>1, <2>1, <2>2, <3>1, <3>3, CountStep
  <2>5. CASE ~ CallerCrash(c) /\ ~ Send(c)
    BY <1>1, <1>3, <2>1, <2>2, <2>5, GivenCount, CountStep
  <2> QED
    BY <2>3, <2>4, <2>5
<1> QED
  BY <1>2, <1>3

(* Retries are bounded: an agent is never given the task of an executor    *)
(* more than RetryAttempts times, and again so often for each failure (of  *)
(* which only a crash of the engine can make retry.Do start over),         *)
(* although every attempt may leave work behind that nobody asks for.      *)
THEOREM WorkBounded == Spec => []BoundedWork
<1>1. Spec => []CountInv
  BY BridgeInvariant, CountInit, CountNext, PTL DEF Spec
<1>2. BridgeInv /\ CountInv => BoundedWork
  <2> SUFFICES ASSUME BridgeInv, CountInv, NEW c \in Executor
               PROVE  Cardinality(WorkOf(c)) <= RetryAttempts * (1 + faults)
    BY DEF BoundedWork
  <2>1. /\ RetryAttempts \in Nat /\ faults \in Nat /\ c \in Client
        /\ call[c].attempt \in Nat
    BY BridgeAssumption DEF BridgeInv, TypeOK, Client, CallSet
  <2>2. Spent(call[c]) \in Int /\ Spent(call[c]) <= RetryAttempts
    BY <2>1 DEF CountInv, Counted, CountOk, Spent
  <2>3. Cardinality(WorkOf(c)) \in Nat /\ Cardinality(Starting(c)) \in Nat
    BY GivenType
  <2>4. /\ RetryAttempts * (faults + 1) = RetryAttempts * faults + RetryAttempts
        /\ RetryAttempts * faults \in Nat
    BY <2>1, Times
  <2>5. Cardinality(WorkOf(c)) + Cardinality(Starting(c))
          <= RetryAttempts * faults + Spent(call[c])
    BY DEF CountInv, Counted, Given
  <2>6. 1 + faults = faults + 1
    BY <2>1
  <2> DEFINE p == RetryAttempts * faults
             q == RetryAttempts * (faults + 1)
  <2>7. Cardinality(WorkOf(c)) <= q
    <3>1. p \in Nat /\ q = p + RetryAttempts
      BY <2>4
    <3>2. Cardinality(WorkOf(c)) + Cardinality(Starting(c)) <= p + Spent(call[c])
      BY <2>5
    <3> HIDE DEF p, q
    <3> QED
      BY <2>1, <2>2, <2>3, <3>1, <3>2
  <2> QED
    BY <2>6, <2>7
<1> QED
  BY <1>1, <1>2, BridgeInvariant, PTL
=============================================================================
