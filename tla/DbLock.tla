------------------------------- MODULE DbLock -------------------------------
(***************************************************************************)
(* middleware/dblock: the named MySQL lock under the scheduler.  A client  *)
(* takes a connection out of the pool of its engine and runs GET_LOCK on   *)
(* it; a refresher goroutine per acquired lock pings that connection until *)
(* it is told to stop through `unlocker', a channel of capacity one.       *)
(*                                                                         *)
(* One client per engine (its scheduler).  Acquired locks live in slots; a *)
(* slot is used again when both the client and the refresher have no       *)
(* further step to take on the lock in it.                                 *)
(***************************************************************************)
EXTENDS Integers, FiniteSets

CONSTANTS
    Engine,
    Slot,        \* storage for Lock values
    NoSlot,
    MaxOpen,     \* size of the connection pool of an engine
    MaxFaults    \* failures that are injected

ASSUME DbLockAssumption ==
    /\ Engine # {}
    /\ NoSlot \notin Slot
    /\ MaxOpen \in Nat \ {0}
    /\ MaxFaults \in Nat

VARIABLES
    owner,   \* the slot whose connection has the lock in MySQL
    locks,   \* the Lock values
    client,  \* the call each client is in
    free,    \* connections each pool can still hand out
    faults

vars == << owner, locks, client, free, faults >>

(* conn: a broken connection has not been noticed yet, a closed one is back *)
(* in the pool.  token: `unlocker' is full.  kept: RELEASE_LOCK failed on   *)
(* the open session (history).                                             *)
LockSet == [eng : Engine, conn : {"open", "broken", "closed"},
            token : BOOLEAN,
            refresher : {"select", "ping", "send", "exec", "done"},
            cancelled : BOOLEAN, kept : BOOLEAN]

ClientSet == [pc : {"idle", "conn", "getlock", "held", "send", "exec", "close"},
              slot : Slot \cup {NoSlot}]

NoClient == [pc |-> "idle", slot |-> NoSlot]

New(e) == [eng |-> e, conn |-> "open", token |-> FALSE,
           refresher |-> "select", cancelled |-> FALSE, kept |-> FALSE]

Over == [eng |-> CHOOSE e \in Engine : TRUE, conn |-> "closed", token |-> FALSE,
         refresher |-> "done", cancelled |-> TRUE, kept |-> FALSE]

Init ==
    /\ owner = NoSlot
    /\ locks = [s \in Slot |-> Over]
    /\ client = [e \in Engine |-> NoClient]
    /\ free = [e \in Engine |-> MaxOpen]
    /\ faults = 0

Fault == faults < MaxFaults /\ faults' = faults + 1

Using(e, s) == client[e].slot = s

(* The refresher waits to fill a channel that only it would empty. *)
Stuck(s) == locks[s].refresher = "send" /\ locks[s].token

Unused(s) ==
    /\ \A e \in Engine : ~ Using(e, s)
    /\ locks[s].refresher = "done" \/ Stuck(s)

-----------------------------------------------------------------------------
(* ObtainTimeoutContext *)
Call(e) ==
    /\ client[e].pc = "idle"
    /\ client' = [client EXCEPT ![e].pc = "conn"]
    /\ UNCHANGED << owner, locks, free, faults >>

(* db.Conn with the background context waits for a connection for ever. *)
TakeConn(e) ==
    /\ client[e].pc = "conn"
    /\ free[e] > 0
    /\ free' = [free EXCEPT ![e] = @ - 1]
    /\ client' = [client EXCEPT ![e].pc = "getlock"]
    /\ UNCHANGED << owner, locks, faults >>

(* Mutation: the result 0 is not told from 1. *)
GetLockIgnoringTimeout(e) ==
    /\ client[e].pc = "getlock"
    /\ \E s \in Slot :
         /\ Unused(s)
         /\ owner' = IF owner = NoSlot THEN s ELSE owner
         /\ locks' = [locks EXCEPT ![s] = New(e)]
         /\ client' = [client EXCEPT ![e] = [pc |-> "held", slot |-> s]]
    /\ UNCHANGED << free, faults >>

(* GET_LOCK returns 1. *)
GetLock(e) ==
    /\ client[e].pc = "getlock"
    /\ owner = NoSlot
    /\ \E s \in Slot :
         /\ Unused(s)
         /\ owner' = s
         /\ locks' = [locks EXCEPT ![s] = New(e)]
         /\ client' = [client EXCEPT ![e] = [pc |-> "held", slot |-> s]]
    /\ UNCHANGED << free, faults >>

(* GET_LOCK returns 0 after the time-out: the connection is not closed and *)
(* nobody has a reference to it any more.                                  *)
GetLockTimeout(e) ==
    /\ client[e].pc = "getlock"
    /\ owner # NoSlot
    /\ client' = [client EXCEPT ![e] = NoClient]
    /\ UNCHANGED << owner, locks, free, faults >>

(* GET_LOCK returns NULL or its result cannot be read.  Only a connection  *)
(* that database/sql finds broken goes back to the pool.                   *)
GetLockFails(e) ==
    /\ client[e].pc = "getlock"
    /\ Fault
    /\ client' = [client EXCEPT ![e] = NoClient]
    /\ \/ UNCHANGED free
       \/ free' = [free EXCEPT ![e] = @ + 1]
    /\ UNCHANGED << owner, locks >>

-----------------------------------------------------------------------------
(* Release, by the client and by the refresher after a failed ping.        *)
BeginRelease(e) ==
    /\ client[e].pc = "held"
    /\ client' = [client EXCEPT ![e].pc = "send"]
    /\ UNCHANGED << owner, locks, free, faults >>

Send(e) ==
    LET s == client[e].slot IN
    /\ client[e].pc = "send"
    /\ ~ locks[s].token
    /\ locks' = [locks EXCEPT ![s].token = TRUE]
    /\ client' = [client EXCEPT ![e].pc = "exec"]
    /\ UNCHANGED << owner, free, faults >>

(* Mutation: the connection is closed without RELEASE_LOCK. *)
ExecNothing(e) ==
    /\ client[e].pc = "exec"
    /\ client' = [client EXCEPT ![e].pc = "close"]
    /\ UNCHANGED << owner, locks, free, faults >>

(* RELEASE_LOCK.  On a connection that is broken or closed it returns an   *)
(* error, and then Release does not get to Close; database/sql has taken a *)
(* broken one back.                                                        *)
Exec(e) ==
    LET s == client[e].slot IN
    /\ client[e].pc = "exec"
    /\ \/ /\ locks[s].conn = "open"
          /\ owner' = IF owner = s THEN NoSlot ELSE owner
          /\ client' = [client EXCEPT ![e].pc = "close"]
          /\ UNCHANGED << locks, free >>
       \/ /\ locks[s].conn = "broken"
          /\ locks' = [locks EXCEPT ![s].conn = "closed"]
          /\ free' = [free EXCEPT ![e] = @ + 1]
          /\ client' = [client EXCEPT ![e] = NoClient]
          /\ UNCHANGED owner
       \/ /\ locks[s].conn = "closed"
          /\ client' = [client EXCEPT ![e] = NoClient]
          /\ UNCHANGED << owner, locks, free >>
    /\ UNCHANGED faults

(* RELEASE_LOCK is refused on a session that lives: Release returns before *)
(* Close, and the lock stays with a connection nobody refers to any more.  *)
ExecFails(e) ==
    /\ client[e].pc = "exec"
    /\ locks[client[e].slot].conn = "open"
    /\ Fault
    /\ locks' = [locks EXCEPT ![client[e].slot].kept = TRUE]
    /\ client' = [client EXCEPT ![e] = NoClient]
    /\ UNCHANGED << owner, free >>

Close(e) ==
    LET s == client[e].slot IN
    /\ client[e].pc = "close"
    /\ free' = [free EXCEPT ![e] = IF locks[s].conn = "closed" THEN @ ELSE @ + 1]
    /\ locks' = [locks EXCEPT ![s].conn = "closed"]
    /\ client' = [client EXCEPT ![e] = NoClient]
    /\ UNCHANGED << owner, faults >>

-----------------------------------------------------------------------------
(* refresher: select between the timer and the channel. *)
Tick(s) ==
    /\ locks[s].refresher = "select"
    /\ locks' = [locks EXCEPT ![s].refresher = "ping"]
    /\ UNCHANGED << owner, client, free, faults >>

Unlocked(s) ==
    /\ locks[s].refresher = "select"
    /\ locks[s].token
    /\ locks' = [locks EXCEPT ![s] =
                   [@ EXCEPT !.token = FALSE, !.refresher = "done", !.cancelled = TRUE]]
    /\ UNCHANGED << owner, client, free, faults >>

(* Mutation: the refresher releases the lock when the ping was answered. *)
PingInverted(s) ==
    /\ locks[s].refresher = "ping"
    /\ locks' = [locks EXCEPT ![s] = [@ EXCEPT !.refresher = "send", !.cancelled = TRUE]]
    /\ UNCHANGED << owner, client, free, faults >>

PingOk(s) ==
    /\ locks[s].refresher = "ping"
    /\ locks[s].conn = "open"
    /\ locks' = [locks EXCEPT ![s].refresher = "select"]
    /\ UNCHANGED << owner, client, free, faults >>

(* Mutation: the context is not cancelled. *)
PingFailsSilently(s) ==
    /\ locks[s].refresher = "ping"
    /\ locks[s].conn # "open"
    /\ locks' = [locks EXCEPT ![s].refresher = "send"]
    /\ UNCHANGED << owner, client, free, faults >>

(* The ping of a broken connection ends with its deadline, or with an      *)
(* error on which database/sql takes the connection back.                  *)
PingFails(s) ==
    /\ locks[s].refresher = "ping"
    /\ locks[s].conn # "open"
    /\ \/ /\ locks' = [locks EXCEPT ![s] =
                         [@ EXCEPT !.refresher = "send", !.cancelled = TRUE]]
          /\ UNCHANGED free
       \/ /\ locks[s].conn = "broken"
          /\ locks' = [locks EXCEPT ![s] =
                         [@ EXCEPT !.refresher = "send", !.cancelled = TRUE, !.conn = "closed"]]
          /\ free' = [free EXCEPT ![locks[s].eng] = @ + 1]
    /\ UNCHANGED << owner, client, faults >>

RefresherSend(s) ==
    /\ locks[s].refresher = "send"
    /\ ~ locks[s].token
    /\ locks' = [locks EXCEPT ![s] = [@ EXCEPT !.token = TRUE, !.refresher = "exec"]]
    /\ UNCHANGED << owner, client, free, faults >>

(* Mutation: the refresher gives the connection back in any case. *)
RefresherCloses(s) ==
    /\ locks[s].refresher = "exec"
    /\ locks' = [locks EXCEPT ![s] = [@ EXCEPT !.refresher = "done", !.conn = "closed"]]
    /\ free' = [free EXCEPT ![locks[s].eng] = @ + 1]
    /\ UNCHANGED << owner, client, faults >>

(* RELEASE_LOCK cannot succeed here: the connection is not open. *)
RefresherExec(s) ==
    /\ locks[s].refresher = "exec"
    /\ locks' = [locks EXCEPT ![s] = [@ EXCEPT !.refresher = "done", !.conn = "closed"]]
    /\ free' = [free EXCEPT ![locks[s].eng] =
                   IF locks[s].conn = "broken" THEN @ + 1 ELSE @]
    /\ UNCHANGED << owner, client, faults >>

-----------------------------------------------------------------------------
(* The session of the lock ends: MySQL frees the lock at once. *)
Break(s) ==
    /\ locks[s].conn = "open"
    /\ Fault
    /\ locks' = [locks EXCEPT ![s].conn = "broken"]
    /\ owner' = IF owner = s THEN NoSlot ELSE owner
    /\ UNCHANGED << client, free >>

ClientStep(e) ==
    \/ Call(e) \/ TakeConn(e) \/ GetLock(e) \/ GetLockTimeout(e) \/ GetLockFails(e)
    \/ BeginRelease(e) \/ Send(e) \/ Exec(e) \/ ExecFails(e) \/ Close(e)

RefresherStep(s) ==
    \/ Tick(s) \/ Unlocked(s) \/ PingOk(s) \/ PingFails(s)
    \/ RefresherSend(s) \/ RefresherExec(s)

Next ==
    \/ \E e \in Engine : ClientStep(e)
    \/ \E s \in Slot : RefresherStep(s) \/ Break(s)

Spec == Init /\ [][Next]_vars

(* Every goroutine keeps running, timers fire, GET_LOCK has a time-out and *)
(* the work done under the lock comes to an end.                           *)
Fairness ==
    /\ \A e \in Engine : WF_vars(ClientStep(e))
    /\ \A s \in Slot : WF_vars(RefresherStep(s))

FairSpec == Spec /\ Fairness

-----------------------------------------------------------------------------
(* PROPERTIES *)

(* The state is well formed: in particular a connection is never given     *)
(* back to the pool twice.                                                 *)
TypeOK ==
    /\ owner \in Slot \cup {NoSlot}
    /\ locks \in [Slot -> LockSet]
    /\ client \in [Engine -> ClientSet]
    /\ free \in [Engine -> 0 .. MaxOpen]
    /\ faults \in 0 .. MaxFaults

Inside(e) == client[e].pc = "held"

(* Two engines are between Obtain and Release at the same time only if one *)
(* of them has lost its session; it is not told before the next ping.      *)
Exclusive ==
    \A e, f \in Engine : e # f /\ Inside(e) /\ Inside(f) =>
        locks[client[e].slot].conn # "open" \/ locks[client[f].slot].conn # "open"

(* A connection never goes back to its pool while its session still has    *)
(* the lock.  The lock belongs to the client that is using it; only a      *)
(* RELEASE_LOCK that failed on the live session leaves it with nobody,     *)
(* until that session ends.                                                *)
OwnerIsUser ==
    owner # NoSlot =>
        /\ locks[owner].conn = "open"
        /\ (\E e \in Engine : Using(e, owner)) <=> ~ locks[owner].kept

(* GetContext: the context is cancelled once the lock is lost or released, *)
(* however the client, the refresher and the failure interleave.           *)
LostIsCancelled ==
    \A s \in Slot : (locks[s].conn # "open" /\ ~ locks[s].cancelled) ~> locks[s].cancelled

(* Release unlocks the lock and returns. *)
ReleaseReturns == \A e \in Engine : client[e].pc = "send" ~> client[e].pc = "idle"

(* As long as nothing fails Release returns, although the refresher may be *)
(* in the middle of a ping and take the token late or never.               *)
HealthyRelease ==
    \A e \in Engine : client[e].pc = "send" ~> client[e].pc = "idle" \/ faults # 0
=============================================================================
