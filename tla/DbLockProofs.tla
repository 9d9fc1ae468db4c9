---------------------------- MODULE DbLockProofs ----------------------------
(***************************************************************************)
(* Proofs about DbLock, for any number of engines and of Lock values, any  *)
(* size of the connection pools and any number of failures.                *)
(***************************************************************************)
EXTENDS DbLock, FiniteSetTheorems, TLAPS

(* TypeOK without the upper bound of the pools, which needs the accounts   *)
(* below.                                                                  *)
Types ==
    /\ owner \in Slot \cup {NoSlot}
    /\ locks \in [Slot -> LockSet]
    /\ client \in [Engine -> ClientSet]
    /\ free \in [Engine -> Nat]
    /\ faults \in 0 .. MaxFaults

HasLock == {"held", "send", "exec"}

(* A client has a Lock value exactly between Obtain and the end of its     *)
(* Release, and the value is its own.                                      *)
OwnValue ==
    \A e \in Engine :
        /\ client[e].slot # NoSlot <=> client[e].pc \in HasLock \cup {"close"}
        /\ client[e].slot # NoSlot => locks[client[e].slot].eng = e

(* An open connection of a client has the lock of MySQL until RELEASE_LOCK *)
(* was carried out on it.                                                  *)
Owns ==
    \A e \in Engine :
        /\ client[e].pc \in HasLock /\ locks[client[e].slot].conn = "open"
             => owner = client[e].slot
        /\ client[e].pc = "close" => owner # client[e].slot

(* The refresher releases only what is lost. *)
ReleasesLost ==
    \A s \in Slot : locks[s].refresher \in {"send", "exec"} => locks[s].conn # "open"

LockInv == OwnValue /\ Owns /\ OwnerIsUser /\ ReleasesLost

-----------------------------------------------------------------------------
(* Types. *)

(* The records a step writes are Lock values again. *)
LEMMA LockUpdate ==
    ASSUME Types, NEW s \in Slot, NEW x \in LockSet, locks' = [locks EXCEPT ![s] = x]
    PROVE  /\ locks' \in [Slot -> LockSet]
           /\ locks'[s] = x
           /\ \A q \in Slot : q # s => locks'[q] = locks[q]
  BY DEF Types

LEMMA ClientUpdate ==
    ASSUME Types, NEW e \in Engine, NEW x \in ClientSet, client' = [client EXCEPT ![e] = x]
    PROVE  /\ client' \in [Engine -> ClientSet]
           /\ client'[e] = x
           /\ \A f \in Engine : f # e => client'[f] = client[f]
  BY DEF Types

(* Is(y, x, c, r): y is the Lock value x with another connection state and *)
(* another point of its refresher.                                         *)
Is(y, x, c, r) ==
    y \in LockSet /\ y.eng = x.eng /\ y.kept = x.kept /\ y.conn = c /\ y.refresher = r

LEMMA LockFields ==
    ASSUME NEW x \in LockSet
    PROVE  /\ x.eng \in Engine
           /\ Is([x EXCEPT !.token = TRUE], x, x.conn, x.refresher)
           /\ Is([x EXCEPT !.conn = "closed"], x, "closed", x.refresher)
           /\ Is([x EXCEPT !.conn = "broken"], x, "broken", x.refresher)
           /\ Is([x EXCEPT !.refresher = "ping"], x, x.conn, "ping")
           /\ Is([x EXCEPT !.refresher = "select"], x, x.conn, "select")
           /\ Is([x EXCEPT !.token = FALSE, !.refresher = "done", !.cancelled = TRUE], x, x.conn, "done")
           /\ Is([x EXCEPT !.refresher = "send", !.cancelled = TRUE], x, x.conn, "send")
           /\ Is([x EXCEPT !.refresher = "send", !.cancelled = TRUE, !.conn = "closed"], x, "closed", "send")
           /\ Is([x EXCEPT !.token = TRUE, !.refresher = "exec"], x, x.conn, "exec")
           /\ Is([x EXCEPT !.refresher = "done", !.conn = "closed"], x, "closed", "done")
  BY DEF LockSet, Is

LEMMA NewIsLock == \A e \in Engine : New(e) \in LockSet
  BY DEF New, LockSet

LEMMA TypesInit == Init => Types
  <1> SUFFICES ASSUME Init PROVE Types
    OBVIOUS
  <1>1. (CHOOSE e \in Engine : TRUE) \in Engine
    BY DbLockAssumption
  <1>2. Over \in LockSet
    BY <1>1 DEF Over, LockSet
  <1>3. NoClient \in ClientSet
    BY DEF NoClient, ClientSet
  <1> QED
    BY <1>2, <1>3, DbLockAssumption DEF Init, Types

-----------------------------------------------------------------------------
(* What Release does once it is past its first line: it changes the Lock   *)
(* value of the client, and ends with the connection given back unless it  *)
(* was already.                                                            *)
Working(e, s, x, y) ==
    /\ client[e].slot = s
    /\ client' = [client EXCEPT ![e] = x]
    /\ locks' = [locks EXCEPT ![s] = y]
    /\ y.eng = locks[s].eng /\ y.kept = locks[s].kept
    /\ y.refresher = locks[s].refresher
    /\ UNCHANGED faults

Sends(e, s, x, y) ==
    /\ client[e].pc = "send" /\ x.pc = "exec" /\ x.slot = s
    /\ y.conn = locks[s].conn
    /\ UNCHANGED << owner, free >>

Frees(e, s, x, y) ==
    /\ client[e].pc = "exec" /\ x.pc = "close" /\ x.slot = s
    /\ locks[s].conn = "open" /\ y.conn = "open"
    /\ owner' = IF owner = s THEN NoSlot ELSE owner
    /\ UNCHANGED free

Leaves(e, s, x, y) ==
    /\ client[e].pc = "close" \/ (client[e].pc = "exec" /\ locks[s].conn # "open")
    /\ x = NoClient
    /\ y.conn = "closed"
    /\ free' = [free EXCEPT ![e] = IF locks[s].conn = "closed" THEN @ ELSE @ + 1]
    /\ UNCHANGED owner

ReleaseEffect(e, s, x, y) ==
    Working(e, s, x, y) /\ (Sends(e, s, x, y) \/ Frees(e, s, x, y) \/ Leaves(e, s, x, y))

LEMMA ReleaseSteps ==
    ASSUME Types, OwnValue, NEW e \in Engine, Send(e) \/ Exec(e) \/ Close(e)
    PROVE  \E s \in Slot, x \in ClientSet, y \in LockSet : ReleaseEffect(e, s, x, y)
  <1>0. client[e] \in ClientSet /\ client \in [Engine -> ClientSet] /\ NoClient \in ClientSet
    BY DEF Types, NoClient, ClientSet
  <1>1. client[e].slot \in Slot
    BY <1>0 DEF Send, Exec, Close, OwnValue, HasLock, ClientSet
  <1>2. PICK s \in Slot : client[e].slot = s
    BY <1>1
  <1> DEFINE l == locks[s]
             c == client[e]
  <1>3. l \in LockSet /\ locks \in [Slot -> LockSet] /\ locks = [locks EXCEPT ![s] = l]
    BY DEF Types
  <1>4. /\ [c EXCEPT !.pc = "exec"] \in ClientSet
        /\ [c EXCEPT !.pc = "exec"].pc = "exec" /\ [c EXCEPT !.pc = "exec"].slot = s
        /\ [c EXCEPT !.pc = "close"] \in ClientSet
        /\ [c EXCEPT !.pc = "close"].pc = "close" /\ [c EXCEPT !.pc = "close"].slot = s
    BY <1>0, <1>2 DEF ClientSet
  <1>5. CASE Send(e)
    <2> DEFINE x == [c EXCEPT !.pc = "exec"]
               y == [l EXCEPT !.token = TRUE]
    <2>1. Is(y, l, l.conn, l.refresher)
      BY <1>3, LockFields
    <2>2. locks' = [locks EXCEPT ![s] = y] /\ client' = [client EXCEPT ![e] = x]
      BY <1>0, <1>2, <1>3, <1>5 DEF Send
    <2>3. ReleaseEffect(e, s, x, y)
      BY <1>2, <1>4, <1>5, <2>1, <2>2 DEF Send, ReleaseEffect, Working, Sends, Is
    <2> QED
      BY <1>4, <2>1, <2>3 DEF Is
  <1>6. CASE Exec(e) /\ l.conn = "open"
    <2> DEFINE x == [c EXCEPT !.pc = "close"]
    <2>1. locks' = [locks EXCEPT ![s] = l] /\ client' = [client EXCEPT ![e] = x]
      BY <1>0, <1>2, <1>3, <1>6 DEF Exec
    <2>2. ReleaseEffect(e, s, x, l)
      BY <1>2, <1>4, <1>6, <2>1 DEF Exec, ReleaseEffect, Working, Frees
    <2> QED
      BY <1>3, <1>4, <2>2
  <1>7. CASE Exec(e) /\ l.conn = "broken"
    <2> DEFINE y == [l EXCEPT !.conn = "closed"]
    <2>1. Is(y, l, "closed", l.refresher)
      BY <1>3, LockFields
    <2>2. locks' = [locks EXCEPT ![s] = y] /\ client' = [client EXCEPT ![e] = NoClient]
      BY <1>0, <1>2, <1>3, <1>7 DEF Exec
    <2>3. ReleaseEffect(e, s, NoClient, y)
      BY <1>2, <1>7, <2>1, <2>2 DEF Exec, ReleaseEffect, Working, Leaves, Is
    <2> QED
      BY <1>0, <2>1, <2>3 DEF Is
  <1>8. CASE Exec(e) /\ l.conn = "closed"
    <2>1. locks' = [locks EXCEPT ![s] = l] /\ client' = [client EXCEPT ![e] = NoClient]
      BY <1>0, <1>2, <1>3, <1>8 DEF Exec
    <2>2. free' = [free EXCEPT ![e] = @]
      BY <1>2, <1>8 DEF Exec, Types
    <2>3. ReleaseEffect(e, s, NoClient, l)
      BY <1>2, <1>8, <2>1, <2>2 DEF Exec, ReleaseEffect, Working, Leaves
    <2> QED
      BY <1>0, <1>3, <2>3
  <1>9. CASE Close(e)
    <2> DEFINE y == [l EXCEPT !.conn = "closed"]
    <2>1. Is(y, l, "closed", l.refresher)
      BY <1>3, LockFields
    <2>2. locks' = [locks EXCEPT ![s] = y] /\ client' = [client EXCEPT ![e] = NoClient]
      BY <1>0, <1>2, <1>3, <1>9 DEF Close
    <2>3. ReleaseEffect(e, s, NoClient, y)
      BY <1>2, <1>9, <2>1, <2>2 DEF Close, ReleaseEffect, Working, Leaves, Is
    <2> QED
      BY <1>0, <2>1, <2>3 DEF Is
  <1>10. l.conn \in {"open", "broken", "closed"}
    BY <1>3 DEF LockSet
  <1> QED
    BY <1>5, <1>6, <1>7, <1>8, <1>9, <1>10

(* What a RELEASE_LOCK does that fails on a live session. *)
LEMMA ExecFailsEffect ==
    ASSUME Types, OwnValue, NEW e \in Engine, ExecFails(e)
    PROVE  \E s \in Slot, y \in LockSet :
             /\ client[e].slot = s /\ client[e].pc = "exec" /\ locks[s].conn = "open"
             /\ locks' = [locks EXCEPT ![s] = y]
             /\ y.eng = locks[s].eng /\ y.conn = "open" /\ y.kept
             /\ y.refresher = locks[s].refresher
             /\ client' = [client EXCEPT ![e] = NoClient]
             /\ UNCHANGED << owner, free >>
             /\ faults' \in 0 .. MaxFaults
  <1>1. client[e] \in ClientSet /\ client[e].slot \in Slot
    BY DEF Types, ExecFails, OwnValue, HasLock, ClientSet
  <1> DEFINE s == client[e].slot
             y == [locks[s] EXCEPT !.kept = TRUE]
  <1>2. locks[s] \in LockSet /\ locks \in [Slot -> LockSet]
    BY <1>1 DEF Types
  <1>3. /\ y \in LockSet /\ y.eng = locks[s].eng /\ y.conn = locks[s].conn /\ y.kept
        /\ y.refresher = locks[s].refresher
    BY <1>2 DEF LockSet
  <1>4. locks' = [locks EXCEPT ![s] = y]
    BY <1>1, <1>2 DEF ExecFails
  <1>5. faults' \in 0 .. MaxFaults
    BY DbLockAssumption DEF ExecFails, Fault, Types
  <1> QED
    BY <1>1, <1>3, <1>4, <1>5 DEF ExecFails

(* What Break does. *)
LEMMA BreakEffect ==
    ASSUME Types, NEW s \in Slot, Break(s)
    PROVE  \E y \in LockSet : /\ locks' = [locks EXCEPT ![s] = y]
                              /\ Is(y, locks[s], "broken", locks[s].refresher)
  <1> DEFINE y == [locks[s] EXCEPT !.conn = "broken"]
  <1>1. locks[s] \in LockSet /\ locks \in [Slot -> LockSet]
    BY DEF Types
  <1>2. Is(y, locks[s], "broken", locks[s].refresher)
    BY <1>1, LockFields
  <1>3. locks' = [locks EXCEPT ![s] = y]
    BY <1>1 DEF Break
  <1> QED
    BY <1>2, <1>3 DEF Is

-----------------------------------------------------------------------------
(* All the refresher does to a Lock value: it keeps the connection as it   *)
(* is, or gives a broken one back to the pool.                             *)
Rewrites(s, x) ==
    /\ locks' = [locks EXCEPT ![s] = x]
    /\ x.eng = locks[s].eng /\ x.kept = locks[s].kept
    /\ x.refresher \in {"send", "exec"} => x.conn # "open"
    /\ UNCHANGED << owner, client, faults >>

Keeps(s, x) == x.conn = locks[s].conn /\ UNCHANGED free

GivesBack(s, x) ==
    /\ locks[s].conn = "broken"
    /\ x.conn = "closed"
    /\ free' = [free EXCEPT ![locks[s].eng] = @ + 1]

LEMMA RefresherEffect ==
    ASSUME Types, ReleasesLost, NEW s \in Slot, RefresherStep(s)
    PROVE  \E x \in LockSet : Rewrites(s, x) /\ (Keeps(s, x) \/ GivesBack(s, x))
  <1> DEFINE l == locks[s]
  <1>0. l \in LockSet /\ locks \in [Slot -> LockSet]
    BY DEF Types
  <1>a. ASSUME NEW x \in LockSet, Rewrites(s, x), Keeps(s, x) \/ GivesBack(s, x)
        PROVE  \E y \in LockSet : Rewrites(s, y) /\ (Keeps(s, y) \/ GivesBack(s, y))
    BY <1>a
  <1>1. CASE Tick(s)
    <2> DEFINE x == [l EXCEPT !.refresher = "ping"]
    <2>1. x \in LockSet /\ x.eng = l.eng /\ x.kept = l.kept /\ x.conn = l.conn /\ x.refresher = "ping"
      BY <1>0, LockFields DEF Is
    <2>2. locks' = [locks EXCEPT ![s] = x]
      BY <1>0, <1>1 DEF Tick
    <2>3. Rewrites(s, x) /\ Keeps(s, x)
      BY <1>1, <2>1, <2>2 DEF Tick, Rewrites, Keeps
    <2> QED
      BY <1>a, <2>1, <2>3
  <1>2. CASE Unlocked(s)
    <2> DEFINE x == [l EXCEPT !.token = FALSE, !.refresher = "done", !.cancelled = TRUE]
    <2>1. x \in LockSet /\ x.eng = l.eng /\ x.kept = l.kept /\ x.conn = l.conn /\ x.refresher = "done"
      BY <1>0, LockFields DEF Is
    <2>2. locks' = [locks EXCEPT ![s] = x]
      BY <1>0, <1>2 DEF Unlocked
    <2>3. Rewrites(s, x) /\ Keeps(s, x)
      BY <1>2, <2>1, <2>2 DEF Unlocked, Rewrites, Keeps
    <2> QED
      BY <1>a, <2>1, <2>3
  <1>3. CASE PingOk(s)
    <2> DEFINE x == [l EXCEPT !.refresher = "select"]
    <2>1. x \in LockSet /\ x.eng = l.eng /\ x.kept = l.kept /\ x.conn = l.conn /\ x.refresher = "select"
      BY <1>0, LockFields DEF Is
    <2>2. locks' = [locks EXCEPT ![s] = x]
      BY <1>0, <1>3 DEF PingOk
    <2>3. Rewrites(s, x) /\ Keeps(s, x)
      BY <1>3, <2>1, <2>2 DEF PingOk, Rewrites, Keeps
    <2> QED
      BY <1>a, <2>1, <2>3
  <1>4. CASE PingFails(s) /\ UNCHANGED free
    <2> DEFINE x == [l EXCEPT !.refresher = "send", !.cancelled = TRUE]
    <2>1. x \in LockSet /\ x.eng = l.eng /\ x.kept = l.kept /\ x.conn = l.conn /\ x.refresher = "send"
      BY <1>0, LockFields DEF Is
    <2>2. CASE locks' = [locks EXCEPT ![s] = x]
      <3>1. Rewrites(s, x) /\ Keeps(s, x)
        BY <1>4, <2>1, <2>2 DEF PingFails, Rewrites, Keeps
      <3> QED
        BY <1>a, <2>1, <3>1
    <2> DEFINE y == [l EXCEPT !.refresher = "send", !.cancelled = TRUE, !.conn = "closed"]
    <2>3. CASE /\ locks' = [locks EXCEPT ![s] = y]
               /\ l.conn = "broken"
               /\ free' = [free EXCEPT ![l.eng] = @ + 1]
      <3>1. y \in LockSet /\ y.eng = l.eng /\ y.kept = l.kept /\ y.conn = "closed"
        BY <1>0, LockFields DEF Is
      <3>2. Rewrites(s, y) /\ GivesBack(s, y)
        BY <1>4, <2>3, <3>1 DEF PingFails, Rewrites, GivesBack
      <3> QED
        BY <1>a, <3>1, <3>2
    <2> QED
      BY <1>0, <1>4, <2>2, <2>3 DEF PingFails
  <1>5. CASE RefresherSend(s)
    <2> DEFINE x == [l EXCEPT !.token = TRUE, !.refresher = "exec"]
    <2>1. x \in LockSet /\ x.eng = l.eng /\ x.kept = l.kept /\ x.conn = l.conn /\ x.refresher = "exec"
      BY <1>0, LockFields DEF Is
    <2>2. locks' = [locks EXCEPT ![s] = x] /\ l.conn # "open"
      BY <1>0, <1>5 DEF RefresherSend, ReleasesLost
    <2>3. Rewrites(s, x) /\ Keeps(s, x)
      BY <1>5, <2>1, <2>2 DEF RefresherSend, Rewrites, Keeps
    <2> QED
      BY <1>a, <2>1, <2>3
  <1>6. CASE RefresherExec(s)
    <2> DEFINE x == [l EXCEPT !.refresher = "done", !.conn = "closed"]
    <2>1. x \in LockSet /\ x.eng = l.eng /\ x.kept = l.kept /\ x.conn = "closed" /\ x.refresher = "done"
      BY <1>0, LockFields DEF Is
    <2>2. locks' = [locks EXCEPT ![s] = x] /\ l.conn # "open"
      BY <1>0, <1>6 DEF RefresherExec, ReleasesLost
    <2>3. Rewrites(s, x)
      BY <1>6, <2>1, <2>2 DEF RefresherExec, Rewrites
    <2>4. l.conn = "closed" \/ l.conn = "broken"
      BY <1>0, <2>2 DEF LockSet
    <2>5. CASE l.conn = "broken"
      <3>1. GivesBack(s, x)
        BY <1>6, <2>1, <2>5 DEF RefresherExec, GivesBack
      <3> QED
        BY <1>a, <2>1, <2>3, <3>1
    <2>6. CASE l.conn = "closed"
      <3>1. free' = free
        BY <1>6, <2>6 DEF RefresherExec, Types
      <3>2. Keeps(s, x)
        BY <2>1, <2>6, <3>1 DEF Keeps
      <3> QED
        BY <1>a, <2>1, <2>3, <3>2
    <2> QED
      BY <2>4, <2>5, <2>6
  <1>7. CASE PingFails(s) /\ free' # free
    <2> DEFINE y == [l EXCEPT !.refresher = "send", !.cancelled = TRUE, !.conn = "closed"]
    <2>1. y \in LockSet /\ y.eng = l.eng /\ y.kept = l.kept /\ y.conn = "closed"
      BY <1>0, LockFields DEF Is
    <2>2. Rewrites(s, y) /\ GivesBack(s, y)
      BY <1>0, <1>7, <2>1 DEF PingFails, Rewrites, GivesBack
    <2> QED
      BY <1>a, <2>1, <2>2
  <1> QED
    BY <1>1, <1>2, <1>3, <1>4, <1>5, <1>6, <1>7, RefresherStep(s) DEF RefresherStep

-----------------------------------------------------------------------------
LEMMA TypesNext == Types /\ LockInv /\ [Next]_vars => Types'
  <1> SUFFICES ASSUME Types, LockInv, [Next]_vars PROVE Types'
    OBVIOUS
  <1> USE DbLockAssumption
  <1>0. NoClient \in ClientSet /\ \A e \in Engine : client[e] \in ClientSet
    BY DEF NoClient, ClientSet, Types
  <1>1. ASSUME NEW e \in Engine, Call(e) \/ TakeConn(e) \/ BeginRelease(e) PROVE Types'
    BY <1>0, <1>1 DEF Call, TakeConn, BeginRelease, Types, ClientSet
  <1>2. ASSUME NEW e \in Engine, GetLock(e) PROVE Types'
    <2>1. PICK s \in Slot : GetLock(e)!3!(s)
      BY <1>2 DEF GetLock
    <2>2. [pc |-> "held", slot |-> s] \in ClientSet
      BY DEF ClientSet
    <2> QED
      BY <1>2, <2>1, <2>2, NewIsLock DEF GetLock, Types
  <1>3. ASSUME NEW e \in Engine, GetLockTimeout(e) \/ GetLockFails(e) PROVE Types'
    BY <1>0, <1>3 DEF GetLockTimeout, GetLockFails, Fault, Types
  <1>4. ASSUME NEW e \in Engine, Send(e) \/ Exec(e) \/ Close(e) PROVE Types'
    <2>1. PICK s \in Slot, x \in ClientSet, y \in LockSet : ReleaseEffect(e, s, x, y)
      BY <1>4, ReleaseSteps DEF LockInv
    <2>2. locks' \in [Slot -> LockSet] /\ client' \in [Engine -> ClientSet]
      BY <2>1 DEF ReleaseEffect, Working, Types
    <2>3. owner' \in Slot \cup {NoSlot} /\ free' \in [Engine -> Nat] /\ faults' = faults
      BY <2>1 DEF ReleaseEffect, Working, Sends, Frees, Leaves, Types
    <2> QED
      BY <2>2, <2>3 DEF Types
  <1>5. ASSUME NEW s \in Slot, RefresherStep(s) PROVE Types'
    <2>1. PICK x \in LockSet : Rewrites(s, x) /\ (Keeps(s, x) \/ GivesBack(s, x))
      BY <1>5, RefresherEffect DEF LockInv
    <2>2. locks[s].eng \in Engine
      BY LockFields DEF Types
    <2> QED
      BY <2>1, <2>2 DEF Rewrites, Keeps, GivesBack, Types
  <1>6. ASSUME NEW s \in Slot, Break(s) PROVE Types'
    <2>1. PICK y \in LockSet : locks' = [locks EXCEPT ![s] = y]
      BY <1>6, BreakEffect
    <2> QED
      BY <1>6, <2>1 DEF Break, Fault, Types
  <1>7. CASE UNCHANGED vars
    BY <1>7 DEF vars, Types
  <1>8. ASSUME NEW e \in Engine, ExecFails(e) PROVE Types'
    BY <1>0, <1>8, ExecFailsEffect DEF LockInv, Types
  <1> QED
    BY <1>1, <1>2, <1>3, <1>4, <1>5, <1>6, <1>7, <1>8 DEF Next, ClientStep

-----------------------------------------------------------------------------
(* Exclusion. *)

LEMMA LockInit == Init => LockInv
  <1> SUFFICES ASSUME Init PROVE LockInv
    OBVIOUS
  <1>1. OwnValue /\ Owns
    BY DbLockAssumption DEF Init, OwnValue, Owns, NoClient, HasLock
  <1>2. OwnerIsUser /\ ReleasesLost
    BY DEF Init, OwnerIsUser, ReleasesLost, Over
  <1> QED
    BY <1>1, <1>2 DEF LockInv

(* No two clients share a Lock value. *)
LEMMA SlotsApart ==
    ASSUME OwnValue, NEW e \in Engine, NEW f \in Engine,
           client[e].slot # NoSlot, client[e].slot = client[f].slot
    PROVE  e = f
  BY DEF OwnValue

LEMMA LockOutside ==
    ASSUME Types, LockInv, NEW e \in Engine,
           \/ Call(e) \/ TakeConn(e) \/ BeginRelease(e)
           \/ GetLockTimeout(e) \/ GetLockFails(e)
    PROVE  LockInv'
  <1>1. /\ UNCHANGED << owner, locks >>
        /\ \A f \in Engine : f # e => client'[f] = client[f]
        /\ client'[e].slot = client[e].slot
        /\ client[e].pc \in HasLock <=> client'[e].pc \in HasLock
        /\ client[e].pc # "close" /\ client'[e].pc # "close"
    BY DEF Call, TakeConn, BeginRelease, GetLockTimeout, GetLockFails, Types, ClientSet,
           NoClient, HasLock, LockInv, OwnValue
  <1>2. OwnValue'
    BY <1>1 DEF OwnValue, LockInv
  <1>3. Owns'
    BY <1>1 DEF Owns, LockInv
  <1>4. OwnerIsUser'
    BY <1>1 DEF OwnerIsUser, Using, LockInv
  <1>5. ReleasesLost'
    BY <1>1 DEF ReleasesLost, LockInv
  <1> QED
    BY <1>2, <1>3, <1>4, <1>5 DEF LockInv

LEMMA LockGetLock ==
    ASSUME Types, LockInv, NEW e \in Engine, GetLock(e)
    PROVE  LockInv'
  <1>1. PICK s \in Slot : GetLock(e)!3!(s)
    BY DEF GetLock
  <1>2. /\ locks'[s] = New(e)
        /\ \A q \in Slot : q # s => locks'[q] = locks[q]
        /\ client'[e].pc = "held" /\ client'[e].slot = s
        /\ \A f \in Engine : f # e => client'[f] = client[f]
        /\ \A f \in Engine : client[f].slot # s
        /\ owner = NoSlot /\ owner' = s
    BY <1>1 DEF GetLock, Types, Unused, Using
  <1>3. \A f \in Engine : client[f].slot \in Slot \cup {NoSlot}
    BY DEF Types, ClientSet
  <1>4. OwnValue'
    BY <1>2, <1>3, DbLockAssumption DEF OwnValue, LockInv, New, HasLock
  <1>5. Owns'
    <2>1. \A f \in Engine : client[f].pc \in HasLock => locks[client[f].slot].conn # "open"
      BY <1>2 DEF Owns, OwnValue, LockInv
    <2> QED
      BY <1>2, <1>3, <2>1, DbLockAssumption DEF Owns, OwnValue, LockInv, HasLock
  <1>6. OwnerIsUser'
    BY <1>2 DEF OwnerIsUser, Using, New
  <1>7. ReleasesLost'
    BY <1>2 DEF ReleasesLost, LockInv, New
  <1> QED
    BY <1>4, <1>5, <1>6, <1>7 DEF LockInv

LEMMA LockRelease ==
    ASSUME Types, LockInv, NEW e \in Engine, Send(e) \/ Exec(e) \/ Close(e)
    PROVE  LockInv'
  <1>1. PICK s \in Slot, x \in ClientSet, y \in LockSet : ReleaseEffect(e, s, x, y)
    BY ReleaseSteps DEF LockInv
  <1>2. /\ locks'[s] = y /\ y.eng = locks[s].eng /\ y.refresher = locks[s].refresher
        /\ y.kept = locks[s].kept
        /\ \A q \in Slot : q # s => locks'[q] = locks[q]
        /\ client[e].slot = s /\ client'[e] = x
        /\ \A f \in Engine : f # e => client'[f] = client[f]
        /\ \A f \in Engine : client[f].slot \in Slot \cup {NoSlot}
    BY <1>1 DEF ReleaseEffect, Working, Types, ClientSet
  <1>3. \A f \in Engine : f # e => client[f].slot # s
    BY <1>2, SlotsApart, DbLockAssumption DEF LockInv
  <1>4. CASE Sends(e, s, x, y)
    <2>1. OwnValue' /\ Owns'
      BY <1>2, <1>3, <1>4, DbLockAssumption
         DEF Sends, LockInv, OwnValue, Owns, HasLock
    <2>2. OwnerIsUser'
      <3>1. \A f \in Engine : client'[f].slot = client[f].slot
        BY <1>2, <1>4 DEF Sends
      <3>2. \A q \in Slot : locks'[q].conn = locks[q].conn /\ locks'[q].kept = locks[q].kept
        BY <1>2, <1>4 DEF Sends
      <3>3. owner' = owner /\ owner \in Slot \cup {NoSlot}
        BY <1>4 DEF Sends, Types
      <3> QED
        BY <3>1, <3>2, <3>3 DEF LockInv, OwnerIsUser, Using
    <2>3. ReleasesLost'
      BY <1>2, <1>4 DEF Sends, LockInv, ReleasesLost
    <2> QED
      BY <2>1, <2>2, <2>3 DEF LockInv
  <1>5. CASE Frees(e, s, x, y)
    <2>1. owner = s /\ owner' = NoSlot
      BY <1>2, <1>5 DEF Frees, LockInv, Owns, HasLock
    <2>2. OwnValue'
      BY <1>2, <1>3, <1>5, DbLockAssumption DEF Frees, LockInv, OwnValue, HasLock
    <2>3. Owns'
      BY <1>2, <1>3, <1>5, <2>1, DbLockAssumption DEF Frees, LockInv, Owns, OwnValue, HasLock
    <2>4. OwnerIsUser' /\ ReleasesLost'
      BY <1>2, <1>5, <2>1 DEF Frees, LockInv, OwnerIsUser, ReleasesLost
    <2> QED
      BY <2>2, <2>3, <2>4 DEF LockInv
  <1>6. CASE Leaves(e, s, x, y)
    <2>1. owner # s /\ owner' = owner
      BY <1>2, <1>6, DbLockAssumption DEF Leaves, LockInv, Owns, OwnerIsUser
    <2>2. OwnValue'
      BY <1>2, <1>3, <1>6, DbLockAssumption DEF Leaves, LockInv, OwnValue, HasLock, NoClient
    <2>3. Owns'
      BY <1>2, <1>3, <1>6, <2>1, DbLockAssumption
         DEF Leaves, LockInv, Owns, OwnValue, HasLock, NoClient
    <2>4. OwnerIsUser'
      <3> SUFFICES ASSUME owner # NoSlot
                   PROVE  /\ locks'[owner].conn = "open"
                          /\ (\E f \in Engine : client'[f].slot = owner) <=> ~ locks'[owner].kept
        BY <2>1 DEF OwnerIsUser, Using
      <3>1. /\ locks[owner].conn = "open"
            /\ (\E f \in Engine : client[f].slot = owner) <=> ~ locks[owner].kept
        BY DEF LockInv, OwnerIsUser, Using
      <3>2. owner \in Slot /\ locks'[owner] = locks[owner]
        BY <1>2, <2>1 DEF Types
      <3>3. \A f \in Engine : client'[f].slot = owner <=> client[f].slot = owner
        BY <1>2, <1>6, <2>1, DbLockAssumption DEF Leaves, NoClient
      <3> QED
        BY <3>1, <3>2, <3>3
    <2>5. ReleasesLost'
      BY <1>2, <1>6 DEF Leaves, LockInv, ReleasesLost
    <2> QED
      BY <2>2, <2>3, <2>4, <2>5 DEF LockInv
  <1> QED
    BY <1>1, <1>4, <1>5, <1>6 DEF ReleaseEffect

LEMMA LockExecFails ==
    ASSUME Types, LockInv, NEW e \in Engine, ExecFails(e)
    PROVE  LockInv'
  <1>1. PICK s \in Slot, y \in LockSet :
             /\ client[e].slot = s /\ client[e].pc = "exec" /\ locks[s].conn = "open"
             /\ locks' = [locks EXCEPT ![s] = y]
             /\ y.eng = locks[s].eng /\ y.conn = "open" /\ y.kept
             /\ y.refresher = locks[s].refresher
             /\ client' = [client EXCEPT ![e] = NoClient]
             /\ UNCHANGED << owner, free >>
             /\ faults' \in 0 .. MaxFaults
    BY ExecFailsEffect DEF LockInv
  <1>2. /\ locks'[s] = y
        /\ \A q \in Slot : q # s => locks'[q] = locks[q]
        /\ client'[e] = NoClient
        /\ \A f \in Engine : f # e => client'[f] = client[f]
        /\ \A f \in Engine : client[f].slot \in Slot \cup {NoSlot}
    BY <1>1 DEF Types, ClientSet
  <1>3. \A f \in Engine : f # e => client[f].slot # s
    BY <1>1, SlotsApart, DbLockAssumption DEF LockInv
  <1>4. owner = s
    BY <1>1 DEF LockInv, Owns, HasLock
  <1>5. OwnValue'
    BY <1>1, <1>2, <1>3, DbLockAssumption DEF LockInv, OwnValue, HasLock, NoClient
  <1>6. Owns'
    BY <1>1, <1>2, <1>3, <1>4, DbLockAssumption DEF LockInv, Owns, OwnValue, HasLock, NoClient
  <1>7. OwnerIsUser'
    <2>1. \A f \in Engine : client'[f].slot # s
      BY <1>2, <1>3, DbLockAssumption DEF NoClient
    <2> QED
      BY <1>1, <1>2, <1>4, <2>1 DEF OwnerIsUser, Using
  <1>8. ReleasesLost'
    BY <1>1, <1>2 DEF LockInv, ReleasesLost
  <1> QED
    BY <1>5, <1>6, <1>7, <1>8 DEF LockInv

LEMMA LockRefresher ==
    ASSUME Types, LockInv, NEW s \in Slot, RefresherStep(s)
    PROVE  LockInv'
  <1>1. PICK x \in LockSet : Rewrites(s, x) /\ (Keeps(s, x) \/ GivesBack(s, x))
    BY RefresherEffect DEF LockInv
  <1>2. /\ locks'[s] = x /\ x.eng = locks[s].eng
        /\ x.conn = "open" <=> locks[s].conn = "open"
        /\ x.kept = locks[s].kept
        /\ x.refresher \in {"send", "exec"} => x.conn # "open"
        /\ \A q \in Slot : q # s => locks'[q] = locks[q]
        /\ \A f \in Engine : client[f].slot \in Slot \cup {NoSlot}
        /\ owner \in Slot \cup {NoSlot}
        /\ UNCHANGED << owner, client >>
    BY <1>1 DEF Rewrites, Keeps, GivesBack, Types, ClientSet
  <1>3. OwnValue'
    BY <1>2 DEF OwnValue, LockInv
  <1>4. Owns'
    BY <1>2, DbLockAssumption DEF Owns, LockInv, OwnValue
  <1>5. OwnerIsUser'
    BY <1>2 DEF OwnerIsUser, Using, LockInv
  <1>6. ReleasesLost'
    BY <1>2 DEF ReleasesLost, LockInv
  <1> QED
    BY <1>3, <1>4, <1>5, <1>6 DEF LockInv

LEMMA LockBreak ==
    ASSUME Types, LockInv, NEW s \in Slot, Break(s)
    PROVE  LockInv'
  <1>1. PICK y \in LockSet : /\ locks' = [locks EXCEPT ![s] = y]
                             /\ Is(y, locks[s], "broken", locks[s].refresher)
    BY BreakEffect
  <1>2. /\ locks'[s] = y /\ y.eng = locks[s].eng /\ y.conn = "broken"
        /\ \A q \in Slot : q # s => locks'[q] = locks[q]
        /\ \A f \in Engine : client[f].slot \in Slot \cup {NoSlot}
        /\ owner \in Slot \cup {NoSlot}
        /\ owner' = IF owner = s THEN NoSlot ELSE owner
        /\ UNCHANGED client
    BY <1>1 DEF Break, Is, Types, ClientSet
  <1>3. OwnValue'
    BY <1>2 DEF OwnValue, LockInv
  <1>4. Owns'
    BY <1>2, DbLockAssumption DEF Owns, LockInv, OwnValue, HasLock
  <1>5. OwnerIsUser'
    BY <1>2 DEF OwnerIsUser, Using, LockInv
  <1>6. ReleasesLost'
    BY <1>2 DEF ReleasesLost, LockInv
  <1> QED
    BY <1>3, <1>4, <1>5, <1>6 DEF LockInv

LEMMA LockNext == Types /\ LockInv /\ [Next]_vars => LockInv'
  <1> SUFFICES ASSUME Types, LockInv, [Next]_vars PROVE LockInv'
    OBVIOUS
  <1>1. CASE UNCHANGED vars
    BY <1>1 DEF vars, LockInv, OwnValue, Owns, OwnerIsUser, Using, ReleasesLost
  <1> QED
    BY <1>1, LockOutside, LockGetLock, LockRelease, LockExecFails, LockRefresher, LockBreak
       DEF Next, ClientStep

LEMMA LockInvariant == Spec => [](Types /\ LockInv)
  BY TypesInit, LockInit, TypesNext, LockNext, PTL DEF Spec

(* However often sessions are lost and statements fail, the lock of MySQL  *)
(* is never left behind on a connection in the pool: it belongs to a       *)
(* client between Obtain and Release, or RELEASE_LOCK failed on its        *)
(* session, and the connection was not given back (Release, lock.go).      *)
THEOREM OwnerUses == Spec => []OwnerIsUser
  <1>1. Types /\ LockInv => OwnerIsUser
    BY DEF LockInv
  <1> QED
    BY <1>1, LockInvariant, PTL

(* Mutual exclusion of Obtain and Release: two engines are between them at *)
(* the same time only if one of them has lost its session.                 *)
THEOREM LockExclusive == Spec => []Exclusive
  <1>1. Types /\ LockInv => Exclusive
    BY DEF Types, LockInv, Owns, OwnValue, Exclusive, Inside, HasLock
  <1> QED
    BY <1>1, LockInvariant, PTL

-----------------------------------------------------------------------------
(* The accounts of a pool: what it can still hand out, the connection its  *)
(* client is running GET_LOCK on and those of the Lock values that are not *)
(* closed.  Connections can only be lost: GET_LOCK that returns 0 leaves   *)
(* one behind.                                                             *)
Out(e) == {s \in Slot : locks[s].eng = e /\ locks[s].conn # "closed"}

Taken(e) == IF client[e].pc = "getlock" THEN 1 ELSE 0

Accounts ==
    \A e \in Engine :
        /\ IsFiniteSet(Out(e))
        /\ free[e] + Taken(e) + Cardinality(Out(e)) <= MaxOpen

LEMMA AccountsInit == Init => Accounts
  <1> SUFFICES ASSUME Init, NEW e \in Engine
               PROVE  /\ IsFiniteSet(Out(e))
                      /\ free[e] + Taken(e) + Cardinality(Out(e)) <= MaxOpen
    BY DEF Accounts
  <1>1. Out(e) = {}
    BY DEF Init, Out, Over
  <1>2. Taken(e) = 0 /\ free[e] = MaxOpen
    BY DEF Init, Taken, NoClient
  <1> QED
    BY <1>1, <1>2, FS_EmptySet, DbLockAssumption

(* A step that closes no connection of the engine twice and takes at most  *)
(* one that was counted: the three ways the accounts can move.             *)
LEMMA OutShrinks ==
    ASSUME NEW A, NEW B, IsFiniteSet(A), B \subseteq A
    PROVE  /\ IsFiniteSet(B) /\ Cardinality(B) \in Nat /\ Cardinality(A) \in Nat
           /\ Cardinality(B) <= Cardinality(A)
  BY FS_Subset, FS_CardinalityType

LEMMA OutGrows ==
    ASSUME NEW A, NEW B, NEW s, IsFiniteSet(A), B \subseteq A \cup {s}
    PROVE  /\ IsFiniteSet(B) /\ Cardinality(B) \in Nat /\ Cardinality(A) \in Nat
           /\ Cardinality(B) <= Cardinality(A) + 1
  <1>1. /\ IsFiniteSet(A \cup {s})
        /\ Cardinality(A \cup {s}) <= Cardinality(A) + 1
        /\ Cardinality(A) \in Nat
    BY FS_AddElement, FS_CardinalityType
  <1> QED
    BY <1>1, FS_Subset, FS_CardinalityType

LEMMA OutLoses ==
    ASSUME NEW A, NEW B, NEW s \in A, IsFiniteSet(A), B \subseteq A \ {s}
    PROVE  /\ IsFiniteSet(B) /\ Cardinality(B) \in Nat /\ Cardinality(A) \in Nat
           /\ Cardinality(B) + 1 <= Cardinality(A)
  <1>1. /\ IsFiniteSet(A \ {s})
        /\ Cardinality(A \ {s}) = Cardinality(A) - 1
        /\ Cardinality(A) \in Nat
    BY FS_RemoveElement, FS_CardinalityType
  <1> QED
    BY <1>1, FS_Subset, FS_CardinalityType

LEMMA AccountsGet ==
    ASSUME Types, Accounts, NEW e \in Engine, GetLock(e)
    PROVE  Accounts'
  <1> SUFFICES ASSUME NEW f \in Engine
               PROVE  /\ IsFiniteSet(Out(f)')
                      /\ free[f]' + Taken(f)' + Cardinality(Out(f)') <= MaxOpen
    BY DEF Accounts
  <1>1. PICK s \in Slot : GetLock(e)!3!(s)
    BY DEF GetLock
  <1>2. /\ locks'[s] = New(e)
        /\ \A q \in Slot : q # s => locks'[q] = locks[q]
        /\ client'[e].pc = "held" /\ client[e].pc = "getlock"
        /\ f # e => client'[f] = client[f]
        /\ free' = free /\ free[f] \in Nat /\ New(e).eng = e
    BY <1>1 DEF GetLock, Types, New
  <1>3. IsFiniteSet(Out(f)) /\ free[f] + Taken(f) + Cardinality(Out(f)) <= MaxOpen
    BY DEF Accounts
  <1>4. Taken(f) \in 0 .. 1 /\ Taken(f)' = IF f = e THEN Taken(f) - 1 ELSE Taken(f)
    BY <1>2 DEF Taken
  <1>5. CASE f = e
    <2>1. Out(f)' \subseteq Out(f) \cup {s}
      BY <1>2 DEF Out
    <2>2. /\ IsFiniteSet(Out(f)') /\ Cardinality(Out(f)') \in Nat /\ Cardinality(Out(f)) \in Nat
          /\ Cardinality(Out(f)') <= Cardinality(Out(f)) + 1
      BY <1>3, <2>1, OutGrows
    <2>3. free[f]' = free[f] /\ Taken(f)' = Taken(f) - 1
      BY <1>2, <1>4, <1>5
    <2> QED
      BY <1>2, <1>3, <1>4, <2>2, <2>3, DbLockAssumption
  <1>6. CASE f # e
    <2>1. Out(f)' \subseteq Out(f)
      BY <1>2, <1>6 DEF Out
    <2> QED
      BY <1>2, <1>3, <1>4, <1>6, <2>1, OutShrinks, DbLockAssumption
  <1> QED
    BY <1>5, <1>6

(* A connection of engine g that is not closed goes back to the pool of g. *)
LEMMA AccountsBack ==
    ASSUME Types, Accounts, NEW g \in Engine, NEW s \in Slot, NEW y,
           locks[s].eng = g, locks[s].conn # "closed",
           locks' = [locks EXCEPT ![s] = y], y.conn = "closed",
           free' = [free EXCEPT ![g] = @ + 1],
           \A f \in Engine : Taken(f)' = Taken(f)
    PROVE  Accounts'
  <1> SUFFICES ASSUME NEW f \in Engine
               PROVE  /\ IsFiniteSet(Out(f)')
                      /\ free[f]' + Taken(f)' + Cardinality(Out(f)') <= MaxOpen
    BY DEF Accounts
  <1>1. /\ locks'[s] = y
        /\ \A q \in Slot : q # s => locks'[q] = locks[q]
        /\ free[f] \in Nat
        /\ free'[f] = IF f = g THEN free[f] + 1 ELSE free[f]
    BY DEF Types
  <1>2. IsFiniteSet(Out(f)) /\ free[f] + Taken(f) + Cardinality(Out(f)) <= MaxOpen
    BY DEF Accounts
  <1>3. Taken(f) \in 0 .. 1
    BY DEF Taken
  <1>4. CASE f = g
    <2>1. s \in Out(f) /\ Out(f)' \subseteq Out(f) \ {s}
      BY <1>1, <1>4 DEF Out
    <2>2. /\ IsFiniteSet(Out(f)') /\ Cardinality(Out(f)') \in Nat /\ Cardinality(Out(f)) \in Nat
          /\ Cardinality(Out(f)') + 1 <= Cardinality(Out(f))
      BY <1>2, <2>1, OutLoses
    <2> QED
      BY <1>1, <1>2, <1>3, <1>4, <2>2, DbLockAssumption
  <1>5. CASE f # g
    <2>1. Out(f)' \subseteq Out(f)
      BY <1>1 DEF Out
    <2>2. /\ IsFiniteSet(Out(f)') /\ Cardinality(Out(f)') \in Nat /\ Cardinality(Out(f)) \in Nat
          /\ Cardinality(Out(f)') <= Cardinality(Out(f))
      BY <1>2, <2>1, OutShrinks
    <2> QED
      BY <1>1, <1>2, <1>3, <1>5, <2>2, DbLockAssumption
  <1> QED
    BY <1>4, <1>5

(* Lock values keep their connections, and no pool gains. *)
LEMMA AccountsKept ==
    ASSUME Types, Accounts,
           \A f \in Engine : Out(f)' \subseteq Out(f),
           \A f \in Engine : free'[f] \in Nat /\ free'[f] + Taken(f)' <= free[f] + Taken(f)
    PROVE  Accounts'
  <1> SUFFICES ASSUME NEW f \in Engine
               PROVE  /\ IsFiniteSet(Out(f)')
                      /\ free[f]' + Taken(f)' + Cardinality(Out(f)') <= MaxOpen
    BY DEF Accounts
  <1>1. IsFiniteSet(Out(f)) /\ free[f] + Taken(f) + Cardinality(Out(f)) <= MaxOpen
    BY DEF Accounts
  <1>2. Taken(f) \in 0 .. 1 /\ Taken(f)' \in 0 .. 1 /\ free[f] \in Nat /\ free'[f] \in Nat
    BY DEF Taken, Types
  <1>3. /\ IsFiniteSet(Out(f)') /\ Cardinality(Out(f)') \in Nat /\ Cardinality(Out(f)) \in Nat
        /\ Cardinality(Out(f)') <= Cardinality(Out(f))
    BY <1>1, OutShrinks
  <1> QED
    BY <1>1, <1>2, <1>3, DbLockAssumption

LEMMA AccountsNext == Types /\ LockInv /\ Accounts /\ [Next]_vars => Accounts'
  <1> SUFFICES ASSUME Types, LockInv, Accounts, [Next]_vars PROVE Accounts'
    OBVIOUS
  <1>0. ASSUME UNCHANGED locks PROVE \A f \in Engine : Out(f)' \subseteq Out(f)
    BY <1>0 DEF Out
  <1>1. ASSUME NEW e \in Engine,
               \/ Call(e) \/ TakeConn(e) \/ BeginRelease(e)
               \/ GetLockTimeout(e) \/ GetLockFails(e)
        PROVE  Accounts'
    <2>1. UNCHANGED locks
      BY <1>1 DEF Call, TakeConn, BeginRelease, GetLockTimeout, GetLockFails
    <2>2. \A f \in Engine : free'[f] \in Nat /\ free'[f] + Taken(f)' <= free[f] + Taken(f)
      BY <1>1 DEF Call, TakeConn, BeginRelease, GetLockTimeout, GetLockFails, Types, ClientSet,
                  Taken, NoClient
    <2> QED
      BY <1>0, <2>1, <2>2, AccountsKept
  <1>2. ASSUME NEW e \in Engine, GetLock(e) PROVE Accounts'
    BY <1>2, AccountsGet
  <1>3. ASSUME NEW e \in Engine, Send(e) \/ Exec(e) \/ Close(e) PROVE Accounts'
    <2>1. PICK s \in Slot, x \in ClientSet, y \in LockSet : ReleaseEffect(e, s, x, y)
      BY <1>3, ReleaseSteps DEF LockInv
    <2>2. \A f \in Engine : Taken(f)' = Taken(f)
      BY <2>1 DEF ReleaseEffect, Working, Sends, Frees, Leaves, Taken, Types, ClientSet, NoClient
    <2>3. locks[s].eng = e /\ y.eng = e
      BY <2>1, DbLockAssumption DEF ReleaseEffect, Working, LockInv, OwnValue
    <2>4. CASE y.conn # "closed" \/ locks[s].conn = "closed"
      <3>1. \A f \in Engine : Out(f)' \subseteq Out(f)
        BY <2>1, <2>3, <2>4 DEF ReleaseEffect, Working, Sends, Frees, Leaves, Out, Types
      <3>2. \A f \in Engine : free'[f] = free[f] /\ free[f] \in Nat
        BY <2>1, <2>4 DEF ReleaseEffect, Working, Sends, Frees, Leaves, Types
      <3> QED
        BY <2>2, <3>1, <3>2, AccountsKept DEF Taken
    <2>5. CASE y.conn = "closed" /\ locks[s].conn # "closed"
      <3>1. free' = [free EXCEPT ![e] = @ + 1] /\ locks' = [locks EXCEPT ![s] = y]
        BY <2>1, <2>5 DEF ReleaseEffect, Working, Sends, Frees, Leaves
      <3> QED
        BY <2>2, <2>3, <2>5, <3>1, AccountsBack
    <2> QED
      BY <2>4, <2>5
  <1>4. ASSUME NEW s \in Slot, RefresherStep(s) PROVE Accounts'
    <2>1. PICK x \in LockSet : Rewrites(s, x) /\ (Keeps(s, x) \/ GivesBack(s, x))
      BY <1>4, RefresherEffect DEF LockInv
    <2>2. \A f \in Engine : Taken(f)' = Taken(f) /\ Taken(f) \in 0 .. 1
      BY <2>1 DEF Rewrites, Taken
    <2>3. CASE Keeps(s, x)
      <3>1. \A f \in Engine : Out(f)' \subseteq Out(f)
        BY <2>1, <2>3 DEF Rewrites, Keeps, Out, Types
      <3> QED
        BY <2>2, <2>3, <3>1, AccountsKept DEF Keeps, Types
    <2>4. CASE GivesBack(s, x)
      <3>1. locks[s].eng \in Engine
        BY LockFields DEF Types
      <3> QED
        BY <2>1, <2>2, <2>4, <3>1, AccountsBack DEF Rewrites, GivesBack
    <2> QED
      BY <2>1, <2>3, <2>4
  <1>5. ASSUME NEW s \in Slot, Break(s) PROVE Accounts'
    <2>1. PICK y \in LockSet : /\ locks' = [locks EXCEPT ![s] = y]
                               /\ Is(y, locks[s], "broken", locks[s].refresher)
      BY <1>5, BreakEffect
    <2>2. \A f \in Engine : Out(f)' \subseteq Out(f)
      BY <1>5, <2>1 DEF Break, Is, Out, Types
    <2>3. \A f \in Engine : Taken(f)' = Taken(f) /\ Taken(f) \in 0 .. 1
      BY <1>5 DEF Break, Taken
    <2> QED
      BY <1>5, <2>2, <2>3, AccountsKept DEF Break, Types
  <1>6. CASE UNCHANGED vars
    BY <1>0, <1>6, AccountsKept DEF vars, Types, Taken
  <1>7. ASSUME NEW e \in Engine, ExecFails(e) PROVE Accounts'
    <2>1. PICK s \in Slot, y \in LockSet :
             /\ client[e].pc = "exec" /\ locks[s].conn = "open"
             /\ locks' = [locks EXCEPT ![s] = y]
             /\ y.eng = locks[s].eng
             /\ client' = [client EXCEPT ![e] = NoClient]
             /\ UNCHANGED free
      BY <1>7, ExecFailsEffect DEF LockInv
    <2>2. \A f \in Engine : Out(f)' \subseteq Out(f)
      BY <2>1 DEF Out, Types
    <2>3. \A f \in Engine : free'[f] \in Nat /\ free'[f] + Taken(f)' <= free[f] + Taken(f)
      BY <2>1 DEF Types, ClientSet, Taken, NoClient
    <2> QED
      BY <2>2, <2>3, AccountsKept
  <1> QED
    BY <1>1, <1>2, <1>3, <1>4, <1>5, <1>6, <1>7 DEF Next, ClientStep

(* A pool never holds more connections than it has: whatever Release, the  *)
(* refresher and the failures do to one Lock value at the same time, its   *)
(* connection is given back at most once.                                  *)
THEOREM PoolSound == Spec => []TypeOK
  <1>1. Types /\ Accounts => TypeOK
    <2> SUFFICES ASSUME Types, Accounts, NEW e \in Engine PROVE free[e] \in 0 .. MaxOpen
      BY DEF Types, TypeOK
    <2>1. Cardinality(Out(e)) \in Nat
      BY FS_CardinalityType DEF Accounts
    <2>2. free[e] + Taken(e) + Cardinality(Out(e)) <= MaxOpen
      BY DEF Accounts
    <2>3. free[e] \in Nat /\ Taken(e) \in 0 .. 1
      BY DEF Types, Taken
    <2> QED
      BY <2>1, <2>2, <2>3, DbLockAssumption
  <1> QED
    BY <1>1, LockInvariant, AccountsInit, AccountsNext, PTL DEF Spec
=============================================================================
