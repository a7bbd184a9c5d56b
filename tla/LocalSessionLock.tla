-------------------------- MODULE LocalSessionLock --------------------------
(* The per-process conversation lock of app/core/session_lock.py as one       *)
(* asyncio event loop runs it: LocalSessionLockManager, the lease a chat turn *)
(* gets from it, and the renewal task of that lease.                          *)
(*                                                                            *)
(* A step of the model is what one task does between two suspension points.   *)
(* A task that finds the manager's guard free does not suspend, so it goes    *)
(* through the guarded section in the same step; it suspends only when the    *)
(* guard is held, or when the conversation's asyncio.Lock makes it wait.      *)
(*                                                                            *)
(* Time is counted in ticks; every lease carries the ticks it has left.       *)
EXTENDS Integers, Sequences, SequencesExt

CONSTANTS
    Turns,          \* chat turns (asyncio tasks running generate_sse_stream)
    Conversations,
    None,           \* no turn
    Wait,           \* TRUE iff SESSION_LOCK_ACQUIRE_WAIT_SECONDS > 0
    Cancellable,    \* TRUE iff a client may disconnect while its turn is suspended
    PromptLoop,     \* TRUE iff no tick passes while a task is ready to run
    TTL,            \* ticks a lease lives without renewal
    RenewInterval   \* ticks the renewal task sleeps

ASSUME LeaseAssumption ==
    /\ None \notin Turns
    /\ Wait \in BOOLEAN /\ Cancellable \in BOOLEAN /\ PromptLoop \in BOOLEAN
    /\ TTL \in Nat /\ RenewInterval \in Nat
    /\ 0 < RenewInterval /\ RenewInterval < TTL

VARIABLES
    pc,         \* where each turn is suspended
    conv,       \* the conversation each turn works on
    locked,     \* asyncio.Lock of each conversation: its flag ...
    lockQ,      \* ... and its waiters, in order
    guard,      \* turn suspended while it holds the manager's guard, or None
    guardQ,     \* tasks waiting for the guard, in order
    active,     \* _active: owner of the snapshot of each conversation, or None
    ttl,        \* ticks left in that snapshot; 0 is expired
    renewing,   \* state of each turn's renewal task
    renewIn     \* ticks until that task wakes

vars == <<pc, conv, locked, lockQ, guard, guardQ, active, ttl, renewing, renewIn>>

PC == {"idle", "guardAcquire", "takeLock", "waitLock", "guardBusy", "guardLease",
       "turn", "releasing", "guardRelease"}

TurnTask(t) == <<t, "turn">>
RenewTask(t) == <<t, "renew">>
Tasks == Turns \X {"turn", "renew"}

TypeOK ==
    /\ pc \in [Turns -> PC]
    /\ conv \in [Turns -> Conversations \union {None}]
    /\ locked \in [Conversations -> BOOLEAN]
    /\ lockQ \in [Conversations -> Seq(Turns)]
    /\ guard \in Turns \union {None}
    /\ guardQ \in Seq(Tasks)
    /\ active \in [Conversations -> Turns \union {None}]
    /\ ttl \in [Conversations -> 0 .. TTL]
    /\ renewing \in [Turns -> {"off", "sleep", "guard"}]
    /\ renewIn \in [Turns -> 0 .. RenewInterval]

Init ==
    /\ pc = [t \in Turns |-> "idle"]
    /\ conv = [t \in Turns |-> None]
    /\ locked = [c \in Conversations |-> FALSE]
    /\ lockQ = [c \in Conversations |-> <<>>]
    /\ guard = None
    /\ guardQ = <<>>
    /\ active = [c \in Conversations |-> None]
    /\ ttl = [c \in Conversations |-> 0]
    /\ renewing = [t \in Turns |-> "off"]
    /\ renewIn = [t \in Turns |-> 0]

-----------------------------------------------------------------------------
(* The two asyncio.Locks.  Lock.acquire returns at once only when the lock is *)
(* free and nobody waits; a woken waiter takes it when its turn comes.        *)

Queued(a) == \E i \in DOMAIN guardQ : guardQ[i] = a

GuardFreeFor(a) == guard = None /\ (guardQ # <<>> => Head(guardQ) = a)

EnterGuard(a) == GuardFreeFor(a) /\ guardQ' = (IF Queued(a) THEN Tail(guardQ) ELSE guardQ)

JoinGuardQueue(a) == ~GuardFreeFor(a) /\ ~Queued(a) /\ guardQ' = Append(guardQ, a)

LeaveGuardQueue(a) == guardQ' = (IF Queued(a) THEN Remove(guardQ, a) ELSE guardQ)

LockFreeFor(t, c) == ~locked[c] /\ (lockQ[c] # <<>> => Head(lockQ[c]) = t)

(* Mutant: a lease in its last tick already counts as expired. *)
ExpiredEarly(c) == active[c] # None /\ ttl[c] <= 1

(* _is_expired; an expired snapshot stays in _active until somebody looks. *)
Expired(c) == active[c] # None /\ ttl[c] = 0

(* not lock.locked() once _expire_if_needed has evicted an expired snapshot *)
FreeAfterExpiry(c) == Expired(c) \/ ~locked[c]

(* _expire_if_needed: drop an expired snapshot and free the lock under it. *)
ExpireIfNeeded(c) ==
    IF Expired(c)
    THEN /\ active' = [active EXCEPT ![c] = None]
         /\ locked' = [locked EXCEPT ![c] = FALSE]
    ELSE UNCHANGED <<active, locked>>

(* _lease, then start_auto_renew in the caller: no suspension between the two. *)
Lease(t, c) ==
    /\ locked' = [locked EXCEPT ![c] = TRUE]
    /\ active' = [active EXCEPT ![c] = t]
    /\ ttl' = [ttl EXCEPT ![c] = TTL]
    /\ pc' = [pc EXCEPT ![t] = "turn"]
    /\ renewing' = [renewing EXCEPT ![t] = "sleep"]
    /\ renewIn' = [renewIn EXCEPT ![t] = RenewInterval]

-----------------------------------------------------------------------------
(* LocalSessionLockManager.acquire *)

(* The guarded section of acquire, entered with the guard in hand. *)
AcquireSection(t, c) ==
    \/ /\ FreeAfterExpiry(c) /\ lockQ[c] = <<>>
       /\ Lease(t, c)
       /\ UNCHANGED <<guard, lockQ>>
    \/ (* `await lock.acquire()` queues behind earlier waiters, guard in hand *)
       /\ FreeAfterExpiry(c) /\ lockQ[c] # <<>>
       /\ ExpireIfNeeded(c)
       /\ guard' = t
       /\ lockQ' = [lockQ EXCEPT ![c] = Append(@, t)]
       /\ pc' = [pc EXCEPT ![t] = "takeLock"]
       /\ UNCHANGED <<ttl, renewing, renewIn>>
    \/ /\ ~FreeAfterExpiry(c) /\ ~Wait              \* SessionLockBusy
       /\ pc' = [pc EXCEPT ![t] = "idle"]
       /\ UNCHANGED <<guard, lockQ, locked, active, ttl, renewing, renewIn>>
    \/ /\ ~FreeAfterExpiry(c) /\ Wait
       /\ lockQ' = [lockQ EXCEPT ![c] = Append(@, t)]
       /\ pc' = [pc EXCEPT ![t] = "waitLock"]
       /\ UNCHANGED <<guard, locked, active, ttl, renewing, renewIn>>

(* A turn's owner token is a fresh uuid: a turn whose previous token still     *)
(* names a snapshot does not start again.                                     *)
Arrive(t, c) ==
    /\ pc[t] = "idle" /\ \A d \in Conversations : active[d] # t
    /\ conv' = [conv EXCEPT ![t] = c]
    /\ \/ EnterGuard(TurnTask(t)) /\ AcquireSection(t, c)
       \/ /\ JoinGuardQueue(TurnTask(t))
          /\ pc' = [pc EXCEPT ![t] = "guardAcquire"]
          /\ UNCHANGED <<locked, lockQ, guard, active, ttl, renewing, renewIn>>

AcquireInTurn(t) ==
    /\ pc[t] = "guardAcquire"
    /\ EnterGuard(TurnTask(t)) /\ AcquireSection(t, conv[t])
    /\ UNCHANGED conv

(* The lock is granted to the newcomer that waits for it inside the guard. *)
TakeLock(t) ==
    /\ pc[t] = "takeLock" /\ LockFreeFor(t, conv[t])
    /\ lockQ' = [lockQ EXCEPT ![conv[t]] = Tail(@)]
    /\ Lease(t, conv[t])
    /\ guard' = None
    /\ UNCHANGED <<conv, guardQ>>

(* The lock is granted to a waiter in wait_for, which then needs the guard. *)
WaitGranted(t) ==
    /\ pc[t] = "waitLock" /\ LockFreeFor(t, conv[t])
    /\ lockQ' = [lockQ EXCEPT ![conv[t]] = Tail(@)]
    /\ \/ EnterGuard(TurnTask(t)) /\ Lease(t, conv[t])
       \/ /\ JoinGuardQueue(TurnTask(t))
          /\ locked' = [locked EXCEPT ![conv[t]] = TRUE]
          /\ pc' = [pc EXCEPT ![t] = "guardLease"]
          /\ UNCHANGED <<active, ttl, renewing, renewIn>>
    /\ UNCHANGED <<conv, guard>>

LeaseInTurn(t) ==
    /\ pc[t] = "guardLease"
    /\ EnterGuard(TurnTask(t)) /\ Lease(t, conv[t])
    /\ UNCHANGED <<conv, guard, lockQ>>

(* wait_for gives up; the section after it may evict an expired snapshot. *)
BusySection(t) ==
    /\ EnterGuard(TurnTask(t))
    /\ ExpireIfNeeded(conv[t])
    /\ pc' = [pc EXCEPT ![t] = "idle"]

WaitTimedOut(t) ==
    /\ pc[t] = "waitLock"
    /\ lockQ' = [lockQ EXCEPT ![conv[t]] = Remove(@, t)]
    /\ \/ BusySection(t)
       \/ /\ JoinGuardQueue(TurnTask(t))
          /\ pc' = [pc EXCEPT ![t] = "guardBusy"]
          /\ UNCHANGED <<active, locked>>
    /\ UNCHANGED <<conv, guard, ttl, renewing, renewIn>>

BusyInTurn(t) ==
    /\ pc[t] = "guardBusy" /\ BusySection(t)
    /\ UNCHANGED <<conv, guard, lockQ, ttl, renewing, renewIn>>

-----------------------------------------------------------------------------
(* The renewal task: one unsuccessful renewal ends it, the turn goes on. *)

(* Mutant: the renewed snapshot keeps its old expiry. *)
RenewWithoutExtending(t) ==
    /\ EnterGuard(RenewTask(t))
    /\ renewing' = [renewing EXCEPT ![t] = IF active[conv[t]] = t THEN "sleep" ELSE "off"]
    /\ renewIn' = [renewIn EXCEPT ![t] = RenewInterval]
    /\ UNCHANGED ttl

(* LocalSessionLockManager.renew: an expired snapshot that nobody evicted yet  *)
(* is revived.                                                                *)
RenewSection(t) ==
    /\ EnterGuard(RenewTask(t))
    /\ IF active[conv[t]] = t
       THEN /\ ttl' = [ttl EXCEPT ![conv[t]] = TTL]
            /\ renewing' = [renewing EXCEPT ![t] = "sleep"]
            /\ renewIn' = [renewIn EXCEPT ![t] = RenewInterval]
       ELSE /\ renewing' = [renewing EXCEPT ![t] = "off"]
            /\ UNCHANGED <<ttl, renewIn>>

RenewDue(t) == renewing[t] = "sleep" /\ renewIn[t] = 0

Renew(t) ==
    /\ RenewDue(t)
    /\ \/ RenewSection(t)
       \/ /\ JoinGuardQueue(RenewTask(t))
          /\ renewing' = [renewing EXCEPT ![t] = "guard"]
          /\ UNCHANGED <<ttl, renewIn>>
    /\ UNCHANGED <<pc, conv, locked, lockQ, guard, active>>

RenewInTurn(t) ==
    /\ renewing[t] = "guard" /\ RenewSection(t)
    /\ UNCHANGED <<pc, conv, locked, lockQ, guard, active>>

-----------------------------------------------------------------------------
(* SessionLockLease.release: the renewal task is cancelled and awaited, then  *)
(* the manager's release runs under the guard.                                *)

(* Mutant: the renewal task outlives its turn. *)
EndTurnStillRenewing(t) ==
    /\ pc[t] = "turn"
    /\ pc' = [pc EXCEPT ![t] = "releasing"]
    /\ UNCHANGED <<conv, locked, lockQ, guard, guardQ, active, ttl, renewing, renewIn>>

(* The turn ends: normally, by an error or by a disconnect, always through the *)
(* `finally` of generate_sse_stream.                                          *)
EndTurn(t) ==
    /\ pc[t] = "turn"
    /\ pc' = [pc EXCEPT ![t] = "releasing"]
    /\ renewing' = [renewing EXCEPT ![t] = "off"]
    /\ LeaveGuardQueue(RenewTask(t))
    /\ UNCHANGED <<conv, locked, lockQ, guard, active, ttl, renewIn>>

(* Mutant: a release drops the snapshot and leaves the lock under it set. *)
ReleaseKeepingLock(t) ==
    /\ EnterGuard(TurnTask(t))
    /\ pc' = [pc EXCEPT ![t] = "idle"]
    /\ active' = IF active[conv[t]] = t THEN [active EXCEPT ![conv[t]] = None] ELSE active
    /\ UNCHANGED locked

(* LocalSessionLockManager.release: only the snapshot's owner frees the lock. *)
ReleaseSection(t) ==
    /\ EnterGuard(TurnTask(t))
    /\ pc' = [pc EXCEPT ![t] = "idle"]
    /\ IF active[conv[t]] = t /\ locked[conv[t]]
       THEN /\ active' = [active EXCEPT ![conv[t]] = None]
            /\ locked' = [locked EXCEPT ![conv[t]] = FALSE]
       ELSE UNCHANGED <<active, locked>>

Release(t) ==
    /\ pc[t] = "releasing"
    /\ \/ ReleaseSection(t)
       \/ /\ JoinGuardQueue(TurnTask(t))
          /\ pc' = [pc EXCEPT ![t] = "guardRelease"]
          /\ UNCHANGED <<active, locked>>
    /\ UNCHANGED <<conv, lockQ, guard, ttl, renewing, renewIn>>

ReleaseInTurn(t) ==
    /\ pc[t] = "guardRelease" /\ ReleaseSection(t)
    /\ UNCHANGED <<conv, lockQ, guard, ttl, renewing, renewIn>>

-----------------------------------------------------------------------------
(* A CancelledError raised at a suspension point outside the turn's own try    *)
(* block: the task leaves every queue, gives back the guard it holds, and      *)
(* keeps whatever the code has no handler for.                                *)
Cancel(t) ==
    /\ Cancellable
    /\ pc[t] \in {"guardAcquire", "takeLock", "waitLock", "guardBusy", "guardLease",
                  "guardRelease"}
    /\ pc' = [pc EXCEPT ![t] = "idle"]
    /\ lockQ' = [lockQ EXCEPT ![conv[t]] = Remove(@, t)]
    /\ LeaveGuardQueue(TurnTask(t))
    /\ guard' = IF guard = t THEN None ELSE guard
    /\ UNCHANGED <<conv, locked, active, ttl, renewing, renewIn>>

(* No task is ready: no renewal is due, no release is on its way, and nobody   *)
(* waits for a lock that is free.                                             *)
NothingReady ==
    /\ \A t \in Turns : ~RenewDue(t) /\ pc[t] # "releasing"
    /\ guard = None => guardQ = <<>>
    /\ \A c \in Conversations : locked[c] \/ lockQ[c] = <<>>

Tick ==
    /\ PromptLoop => NothingReady
    /\ ttl' = [c \in Conversations |-> IF ttl[c] > 0 THEN ttl[c] - 1 ELSE 0]
    /\ renewIn' = [t \in Turns |->
                     IF renewing[t] = "sleep" /\ renewIn[t] > 0 THEN renewIn[t] - 1
                                                               ELSE renewIn[t]]
    /\ UNCHANGED <<pc, conv, locked, lockQ, guard, guardQ, active, renewing>>

(* What the event loop runs as soon as it can, turn by turn. *)
LoopStep(t) ==
    \/ AcquireInTurn(t) \/ TakeLock(t) \/ WaitGranted(t) \/ LeaseInTurn(t)
    \/ BusyInTurn(t) \/ Renew(t) \/ RenewInTurn(t) \/ Release(t) \/ ReleaseInTurn(t)

Next ==
    \/ \E t \in Turns :
         \/ \E c \in Conversations : Arrive(t, c)
         \/ LoopStep(t) \/ WaitTimedOut(t) \/ EndTurn(t) \/ Cancel(t)
    \/ Tick

Spec == Init /\ [][Next]_vars

(* The loop runs every ready task, a wait_for deadline passes, a turn ends and *)
(* time goes on.  No client has to come, or to go.                            *)
Fairness ==
    /\ \A t \in Turns : WF_vars(LoopStep(t)) /\ WF_vars(WaitTimedOut(t)) /\ WF_vars(EndTurn(t))
    /\ WF_vars(Tick)

FairSpec == Spec /\ Fairness

-----------------------------------------------------------------------------
(* Properties *)

(* Seen from outside, turns start and stop, and a conversation runs one turn   *)
(* at a time: what generate_sse_stream takes the lock for.                    *)
Mutex == INSTANCE ConversationMutex WITH
            running <- {<<t, conv[t]>> : t \in {u \in Turns : pc[u] = "turn"}}

ImplementsMutex == Mutex!Spec

(* The flag of a conversation's asyncio.Lock and its snapshot agree: a lock    *)
(* that is set without a snapshot never expires and nobody can free it.       *)
LockHasOwner ==
    \A c \in Conversations :
        locked[c] <=> \/ active[c] # None
                      \/ \E t \in Turns : pc[t] = "guardLease" /\ conv[t] = c

(* A lease that has not expired leaves the books only when its own turn has   *)
(* ended: neither a stale owner's late release nor a failed acquire takes it. *)
LiveLeaseEndsWithItsTurn ==
    [][\A c \in Conversations :
         active[c] # None /\ ttl[c] > 0 /\ active'[c] # active[c]
            => pc[active[c]] \in {"releasing", "guardRelease"}]_vars

(* acquire answers: every call ends with a lease or with SessionLockBusy.      *)
AcquireAnswers ==
    \A t \in Turns :
        pc[t] \in {"guardAcquire", "takeLock", "waitLock", "guardBusy", "guardLease"}
            ~> pc[t] \in {"turn", "idle"}

(* A conversation whose lease was abandoned (a release cut short) can be used  *)
(* again: its snapshot stays in the way only until its TTL runs out.          *)
AbandonedLeaseExpires ==
    \A c \in Conversations : \A t \in Turns :
        active[c] = t /\ pc[t] = "idle" ~> FreeAfterExpiry(c) \/ active[c] # t
=============================================================================
