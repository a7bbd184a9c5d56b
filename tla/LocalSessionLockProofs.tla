----------------------- MODULE LocalSessionLockProofs -----------------------
(* Theorems about LocalSessionLock.  The first ones are about the lock as it is   *)
(* deployed: acquire does not wait (SESSION_LOCK_ACQUIRE_WAIT_SECONDS=0) and the   *)
(* event loop keeps up with its timers.  Any number of turns and conversations,    *)
(* any TTL above the renewal interval; clients may come and go.  The last one      *)
(* holds for every value of the constants.                                     *)
EXTENDS LocalSessionLock, TLAPS

(* Without waiting nobody suspends inside acquire, renew or release, so the    *)
(* guard is always free between two steps and no queue forms.                  *)
NobodyQueues ==
    /\ guard = None /\ guardQ = <<>>
    /\ \A c \in Conversations : lockQ[c] = <<>>
    /\ \A t \in Turns : /\ pc[t] \in {"idle", "turn", "releasing"}
                        /\ renewing[t] \in {"off", "sleep"}

LockIsLeased == \A c \in Conversations : locked[c] <=> active[c] # None

(* A running turn owns the snapshot of its conversation, and its renewal comes *)
(* before that snapshot expires.                                              *)
OwnsLease(t) ==
    /\ conv[t] \in Conversations
    /\ active[conv[t]] = t
    /\ renewing[t] = "sleep"
    /\ ttl[conv[t]] = TTL - RenewInterval + renewIn[t]

TurnsOwnLeases ==
    \A t \in Turns : /\ pc[t] = "turn" => OwnsLease(t)
                     /\ pc[t] = "releasing" => conv[t] \in Conversations
                     /\ pc[t] # "turn" => renewing[t] = "off"

IInv == TypeOK /\ NobodyQueues /\ LockIsLeased /\ TurnsOwnLeases

-----------------------------------------------------------------------------
(* While nobody queues, entering the guard changes nothing. *)
LEMMA GuardIsFree ==
    ASSUME NobodyQueues, NEW a
    PROVE  ~JoinGuardQueue(a) /\ (EnterGuard(a) => guardQ' = <<>>)
BY DEF NobodyQueues, GuardFreeFor, JoinGuardQueue, EnterGuard, Queued

(* A turn that may take the lock finds no turn running on its conversation. *)
LEMMA FreeMeansNobodyRuns ==
    ASSUME IInv, LeaseAssumption, NEW c \in Conversations, FreeAfterExpiry(c), NEW t \in Turns,
           pc[t] = "turn"
    PROVE  conv[t] # c
<1> SUFFICES ASSUME conv[t] = c PROVE FALSE
  OBVIOUS
<1>1. active[c] = t /\ ttl[c] = TTL - RenewInterval + renewIn[t] /\ locked[c]
  BY DEF IInv, TurnsOwnLeases, OwnsLease, LockIsLeased, LeaseAssumption
<1>2. renewIn[t] \in Nat
  BY DEF IInv, TypeOK
<1> QED BY <1>1, <1>2 DEF FreeAfterExpiry, Expired, LeaseAssumption

LEMMA LeaseKeepsIInv ==
    ASSUME IInv, LeaseAssumption, NEW t \in Turns, NEW c \in Conversations,
           pc[t] = "idle", FreeAfterExpiry(c), Lease(t, c),
           conv' = [conv EXCEPT ![t] = c], guardQ' = <<>>, UNCHANGED <<guard, lockQ>>
    PROVE  IInv'
<1>1. TypeOK'
  BY DEF IInv, TypeOK, Lease, PC, LeaseAssumption
<1>2. NobodyQueues'
  BY DEF IInv, TypeOK, NobodyQueues, Lease
<1>3. LockIsLeased'
  BY DEF IInv, TypeOK, LockIsLeased, Lease, LeaseAssumption
<1>4. OwnsLease(t)' /\ pc'[t] = "turn"
  BY DEF IInv, TypeOK, Lease, OwnsLease, LeaseAssumption
<1>5. ASSUME NEW u \in Turns, u # t
      PROVE  /\ pc'[u] = pc[u] /\ conv'[u] = conv[u] /\ renewing'[u] = renewing[u]
             /\ renewIn'[u] = renewIn[u]
             /\ \A d \in Conversations \ {c} : active'[d] = active[d] /\ ttl'[d] = ttl[d]
  BY <1>5 DEF IInv, TypeOK, Lease
<1>6. TurnsOwnLeases'
  BY <1>4, <1>5, FreeMeansNobodyRuns DEF IInv, TurnsOwnLeases, OwnsLease
<1> QED BY <1>1, <1>2, <1>3, <1>6 DEF IInv

(* Arriving: the turn gets a lease, or SessionLockBusy. *)
LEMMA ArriveLeasesOrIsBusy ==
    ASSUME IInv, ~Wait, NEW t \in Turns, NEW c \in Conversations, Arrive(t, c)
    PROVE  /\ pc[t] = "idle" /\ conv' = [conv EXCEPT ![t] = c]
           /\ guardQ' = <<>> /\ UNCHANGED <<guard, lockQ>>
           /\ \/ FreeAfterExpiry(c) /\ Lease(t, c)
              \/ /\ pc' = [pc EXCEPT ![t] = "idle"]
                 /\ UNCHANGED <<locked, active, ttl, renewing, renewIn>>
<1>1. NobodyQueues
  BY DEF IInv
<1>2. EnterGuard(TurnTask(t)) /\ AcquireSection(t, c)
  BY <1>1, GuardIsFree DEF Arrive
<1>3. guardQ' = <<>> /\ lockQ[c] = <<>>
  BY <1>1, <1>2, GuardIsFree DEF NobodyQueues
<1>4. \/ FreeAfterExpiry(c) /\ Lease(t, c) /\ UNCHANGED <<guard, lockQ>>
      \/ /\ pc' = [pc EXCEPT ![t] = "idle"]
         /\ UNCHANGED <<guard, lockQ, locked, active, ttl, renewing, renewIn>>
  BY <1>2, <1>3 DEF AcquireSection
<1> QED BY <1>3, <1>4 DEF Arrive

LEMMA ArriveKeepsIInv ==
    ASSUME IInv, LeaseAssumption, ~Wait, NEW t \in Turns, NEW c \in Conversations, Arrive(t, c)
    PROVE  IInv'
<1>1. CASE FreeAfterExpiry(c) /\ Lease(t, c)
  BY <1>1, ArriveLeasesOrIsBusy, LeaseKeepsIInv
<1>2. CASE /\ pc' = [pc EXCEPT ![t] = "idle"]
           /\ UNCHANGED <<locked, active, ttl, renewing, renewIn>>
  <2>1. /\ conv' = [conv EXCEPT ![t] = c] /\ guardQ' = <<>> /\ UNCHANGED <<guard, lockQ>>
        /\ pc[t] = "idle"
    BY ArriveLeasesOrIsBusy
  <2>2. pc' = pc
    BY <1>2, <2>1 DEF IInv, TypeOK
  <2>3. TypeOK' /\ NobodyQueues' /\ LockIsLeased'
    BY <1>2, <2>1, <2>2 DEF IInv, TypeOK, NobodyQueues, LockIsLeased
  <2>4. ASSUME NEW u \in Turns, pc[u] # "idle" PROVE conv'[u] = conv[u]
    BY <2>1, <2>4 DEF IInv, TypeOK
  <2>5. TurnsOwnLeases'
    BY <1>2, <2>2, <2>4 DEF IInv, TurnsOwnLeases, OwnsLease
  <2> QED BY <2>3, <2>5 DEF IInv
<1> QED BY <1>1, <1>2, ArriveLeasesOrIsBusy

LEMMA RenewKeepsIInv ==
    ASSUME IInv, LeaseAssumption, NEW t \in Turns, Renew(t)
    PROVE  IInv'
<1>1. RenewSection(t) /\ guardQ' = <<>>
  BY GuardIsFree DEF IInv, Renew, RenewSection
<1>2. pc[t] = "turn" /\ OwnsLease(t)
  BY DEF IInv, TurnsOwnLeases, Renew, RenewDue, NobodyQueues
<1>3. /\ ttl' = [ttl EXCEPT ![conv[t]] = TTL]
      /\ renewing' = [renewing EXCEPT ![t] = "sleep"]
      /\ renewIn' = [renewIn EXCEPT ![t] = RenewInterval]
      /\ UNCHANGED <<pc, conv, locked, lockQ, guard, active>>
  BY <1>1, <1>2 DEF RenewSection, OwnsLease, Renew
<1>4. TypeOK'
  <2>1. ttl' \in [Conversations -> 0 .. TTL]
    <3>1. TTL \in 0 .. TTL
      BY DEF LeaseAssumption
    <3>2. ttl \in [Conversations -> 0 .. TTL]
      BY DEF IInv, TypeOK
    <3> QED BY <1>3, <3>1, <3>2
  <2>2. renewIn' \in [Turns -> 0 .. RenewInterval]
    BY <1>3 DEF IInv, TypeOK, LeaseAssumption
  <2>3. renewing' \in [Turns -> {"off", "sleep", "guard"}]
    BY <1>3 DEF IInv, TypeOK
  <2>4. guardQ' \in Seq(Tasks)
    BY <1>1
  <2> QED BY <1>3, <2>1, <2>2, <2>3, <2>4 DEF IInv, TypeOK
<1>5. NobodyQueues' /\ LockIsLeased'
  BY <1>1, <1>3 DEF IInv, TypeOK, NobodyQueues, LockIsLeased
<1>6. OwnsLease(t)'
  BY <1>2, <1>3 DEF OwnsLease, IInv, TypeOK, LeaseAssumption
<1>7. ASSUME NEW u \in Turns, u # t, pc[u] = "turn" PROVE OwnsLease(u)'
  <2>1. OwnsLease(u) /\ conv[u] # conv[t]
    BY <1>2, <1>7 DEF IInv, TurnsOwnLeases, OwnsLease
  <2> QED BY <1>2, <1>3, <1>7, <2>1 DEF OwnsLease, IInv, TypeOK
<1>8. ASSUME NEW u \in Turns, u # t PROVE renewing'[u] = renewing[u]
  BY <1>3, <1>8 DEF IInv, TypeOK
<1>9. TurnsOwnLeases'
  BY <1>2, <1>3, <1>6, <1>7, <1>8 DEF IInv, TurnsOwnLeases
<1> QED BY <1>4, <1>5, <1>9 DEF IInv

LEMMA EndTurnKeepsIInv == ASSUME IInv, NEW t \in Turns, EndTurn(t) PROVE IInv'
<1>1. guardQ' = <<>>
  BY DEF IInv, NobodyQueues, EndTurn, LeaveGuardQueue, Queued
<1>2. TypeOK' /\ NobodyQueues' /\ LockIsLeased'
  BY <1>1 DEF IInv, TypeOK, NobodyQueues, LockIsLeased, EndTurn, PC
<1>3. TurnsOwnLeases'
  BY DEF IInv, TypeOK, TurnsOwnLeases, OwnsLease, EndTurn
<1> QED BY <1>2, <1>3 DEF IInv

(* A release frees the lock only if its own turn still owns the snapshot. *)
LEMMA ReleaseKeepsIInv ==
    ASSUME IInv, LeaseAssumption, NEW t \in Turns, Release(t)
    PROVE  IInv'
<1>1. ReleaseSection(t) /\ guardQ' = <<>>
  BY GuardIsFree DEF IInv, Release, ReleaseSection
<1>2. pc[t] = "releasing" /\ conv[t] \in Conversations
  BY DEF IInv, TurnsOwnLeases, Release
<1>3. /\ pc' = [pc EXCEPT ![t] = "idle"]
      /\ UNCHANGED <<conv, lockQ, guard, ttl, renewing, renewIn>>
  BY <1>1 DEF ReleaseSection, Release
<1>4. \/ UNCHANGED <<active, locked>>
      \/ /\ active[conv[t]] = t
         /\ active' = [active EXCEPT ![conv[t]] = None]
         /\ locked' = [locked EXCEPT ![conv[t]] = FALSE]
  BY <1>1 DEF ReleaseSection
<1>5. TypeOK' /\ NobodyQueues'
  BY <1>1, <1>3, <1>4 DEF IInv, TypeOK, NobodyQueues, PC
<1>6. LockIsLeased'
  BY <1>2, <1>4 DEF IInv, TypeOK, LockIsLeased
<1>7. ASSUME NEW u \in Turns, pc'[u] = "turn" PROVE OwnsLease(u)'
  <2>1. u # t /\ OwnsLease(u) /\ pc[u] = "turn"
    BY <1>2, <1>3, <1>7 DEF IInv, TypeOK, TurnsOwnLeases
  <2>2. active'[conv[u]] = u
    BY <1>2, <1>4, <2>1 DEF OwnsLease, IInv, TypeOK
  <2> QED BY <1>3, <2>1, <2>2 DEF OwnsLease
<1>8. TurnsOwnLeases'
  BY <1>2, <1>3, <1>7 DEF IInv, TypeOK, TurnsOwnLeases
<1> QED BY <1>5, <1>6, <1>8 DEF IInv

(* No lease expires under a running turn, because its renewal comes first. *)
LEMMA TickKeepsIInv ==
    ASSUME IInv, LeaseAssumption, PromptLoop, Tick
    PROVE  IInv'
<1>1. TypeOK'
  BY DEF IInv, TypeOK, Tick
<1>2. NobodyQueues' /\ LockIsLeased'
  BY DEF IInv, NobodyQueues, LockIsLeased, Tick
<1>3. ASSUME NEW t \in Turns, pc[t] = "turn" PROVE OwnsLease(t)'
  <2>1. OwnsLease(t) /\ renewIn[t] \in Nat /\ renewIn[t] # 0
    BY <1>3 DEF IInv, TypeOK, TurnsOwnLeases, OwnsLease, Tick, NothingReady, RenewDue
  <2>2. ttl'[conv[t]] = ttl[conv[t]] - 1
    BY <2>1 DEF OwnsLease, Tick, LeaseAssumption
  <2>3. renewIn'[t] = renewIn[t] - 1
    BY <2>1 DEF OwnsLease, Tick
  <2> QED BY <2>1, <2>2, <2>3 DEF OwnsLease, Tick, LeaseAssumption
<1>4. TurnsOwnLeases'
  BY <1>3 DEF IInv, TurnsOwnLeases, Tick
<1> QED BY <1>1, <1>2, <1>4 DEF IInv

(* What waits in a queue does not happen. *)
LEMMA NobodyInQueueMoves ==
    ASSUME IInv, NEW t \in Turns
    PROVE  /\ ~AcquireInTurn(t) /\ ~TakeLock(t) /\ ~WaitGranted(t) /\ ~LeaseInTurn(t)
           /\ ~BusyInTurn(t) /\ ~RenewInTurn(t) /\ ~ReleaseInTurn(t)
           /\ ~WaitTimedOut(t) /\ ~Cancel(t)
BY DEF IInv, NobodyQueues, AcquireInTurn, TakeLock, WaitGranted, LeaseInTurn, BusyInTurn,
       RenewInTurn, ReleaseInTurn, WaitTimedOut, Cancel

LEMMA StepsThatHappen ==
    ASSUME IInv, Next
    PROVE  \/ \E t \in Turns : \/ \E c \in Conversations : Arrive(t, c)
                              \/ Renew(t) \/ EndTurn(t) \/ Release(t)
           \/ Tick
BY NobodyInQueueMoves DEF Next, LoopStep

LEMMA InitIInv == ASSUME Init, LeaseAssumption PROVE IInv
BY DEF Init, LeaseAssumption, IInv, TypeOK, PC, NobodyQueues, LockIsLeased, TurnsOwnLeases

LEMMA StepKeepsIInv ==
    ASSUME IInv, LeaseAssumption, ~Wait, PromptLoop, [Next]_vars
    PROVE  IInv'
<1>1. CASE UNCHANGED vars
  BY <1>1 DEF vars, IInv, TypeOK, NobodyQueues, LockIsLeased, TurnsOwnLeases, OwnsLease
<1>2. CASE Next
  BY <1>2, StepsThatHappen, ArriveKeepsIInv, RenewKeepsIInv, EndTurnKeepsIInv,
     ReleaseKeepsIInv, TickKeepsIInv
<1> QED BY <1>1, <1>2

-----------------------------------------------------------------------------
(* The invariant is inductive for a lock that does not wait on a prompt loop. *)
THEOREM TurnsHoldTheirLocks ==
    ASSUME ~Wait, PromptLoop
    PROVE  Spec => []IInv
<1>1. Init => IInv
  BY InitIInv, LeaseAssumption
<1>2. IInv /\ [Next]_vars => IInv'
  BY StepKeepsIInv, LeaseAssumption
<1> QED BY <1>1, <1>2, PTL DEF Spec

(* The lock of a conversation is set exactly while a snapshot names its owner:  *)
(* none is left set that nobody could free.                                    *)
THEOREM LocksHaveOwners ==
    ASSUME ~Wait, PromptLoop
    PROVE  Spec => []LockHasOwner
<1>1. IInv => LockHasOwner
  BY DEF IInv, NobodyQueues, LockIsLeased, LockHasOwner
<1> QED BY <1>1, TurnsHoldTheirLocks, PTL

(* However turns, disconnects, renewals and the clock interleave, a             *)
(* conversation runs one turn at a time: LocalSessionLock implements            *)
(* ConversationMutex.                                                         *)
THEOREM OneTurnPerConversation ==
    ASSUME ~Wait, PromptLoop
    PROVE  Spec => ImplementsMutex
<1> DEFINE Running == {<<t, conv[t]>> : t \in {u \in Turns : pc[u] = "turn"}}
<1>1. Init => Mutex!Init
  BY DEF Init, Mutex!Init
<1>2. ASSUME IInv, NEW t \in Turns, NEW c \in Conversations, Arrive(t, c)
      PROVE  Mutex!Start(t, c) \/ Running' = Running
  <2>1. pc[t] = "idle" /\ conv' = [conv EXCEPT ![t] = c]
    BY <1>2, ArriveLeasesOrIsBusy
  <2>2. CASE FreeAfterExpiry(c) /\ Lease(t, c)
    <3>1. pc' = [pc EXCEPT ![t] = "turn"]
      BY <2>2 DEF Lease
    <3>2. \A u \in Turns : pc'[u] = "turn" <=> u = t \/ pc[u] = "turn"
      BY <1>2, <3>1 DEF IInv, TypeOK
    <3>3. conv'[t] = c /\ \A u \in Turns \ {t} : conv'[u] = conv[u]
      BY <2>1, <1>2 DEF IInv, TypeOK
    <3>4. Running' = Running \union {<<t, c>>}
      BY <2>1, <3>2, <3>3
    <3>5. \A r \in Running : r[1] # t /\ r[2] # c
      BY <1>2, <2>1, <2>2, FreeMeansNobodyRuns, LeaseAssumption
    <3> QED BY <3>4, <3>5 DEF Mutex!Start
  <2>3. CASE pc' = [pc EXCEPT ![t] = "idle"]
    <3>1. pc' = pc
      BY <1>2, <2>1, <2>3 DEF IInv, TypeOK
    <3>2. \A u \in Turns : pc[u] = "turn" => conv'[u] = conv[u]
      BY <1>2, <2>1 DEF IInv, TypeOK
    <3> QED BY <3>1, <3>2
  <2> QED BY <1>2, <2>2, <2>3, ArriveLeasesOrIsBusy
<1>3. ASSUME IInv, NEW t \in Turns, EndTurn(t)
      PROVE  \E r \in Running : Mutex!Stop(r)
  <2>1. pc[t] = "turn" /\ pc' = [pc EXCEPT ![t] = "releasing"] /\ conv' = conv
    BY <1>3 DEF EndTurn
  <2>2. \A u \in Turns : pc'[u] = "turn" <=> u # t /\ pc[u] = "turn"
    BY <1>3, <2>1 DEF IInv, TypeOK
  <2>3. Running' = Running \ {<<t, conv[t]>>} /\ <<t, conv[t]>> \in Running
    BY <2>1, <2>2
  <2> QED BY <2>3 DEF Mutex!Stop
<1>4. ASSUME IInv, NEW t \in Turns, Release(t) PROVE Running' = Running
  <2>1. pc[t] = "releasing" /\ pc' = [pc EXCEPT ![t] = "idle"] /\ conv' = conv
    BY <1>4, GuardIsFree DEF IInv, Release, ReleaseSection
  <2>2. \A u \in Turns : pc'[u] = "turn" <=> pc[u] = "turn"
    BY <1>4, <2>1 DEF IInv, TypeOK
  <2> QED BY <2>1, <2>2
<1>5. ASSUME NEW t \in Turns, Renew(t) PROVE Running' = Running
  BY <1>5 DEF Renew
<1>6. ASSUME Tick \/ UNCHANGED vars PROVE Running' = Running
  BY <1>6 DEF Tick, vars
<1>7. IInv /\ [Next]_vars => [Mutex!Next]_Running
  BY <1>2, <1>3, <1>4, <1>5, <1>6, StepsThatHappen DEF Mutex!Next
<1> QED BY <1>1, <1>7, TurnsHoldTheirLocks, PTL DEF Spec, ImplementsMutex, Mutex!Spec

-----------------------------------------------------------------------------
(* Whether acquire waits or not, whoever is cancelled where, and however late    *)
(* the loop is: what a step does to the lock of a conversation and to the        *)
(* snapshot of its owner.                                                      *)

TurnGoes(t, c, where) ==
    /\ pc' = [pc EXCEPT ![t] = where] /\ conv' = [conv EXCEPT ![t] = c]
    /\ pc[t] # "idle" => conv[t] = c

Taken(t, c) ==
    /\ TurnGoes(t, c, "turn")
    /\ FreeAfterExpiry(c) \/ pc[t] = "guardLease"
    /\ active' = [active EXCEPT ![c] = t] /\ locked' = [locked EXCEPT ![c] = TRUE]

Granted(t, c) ==
    /\ TurnGoes(t, c, "guardLease")
    /\ ~locked[c]
    /\ active' = active /\ locked' = [locked EXCEPT ![c] = TRUE]

Dropped(t, c) ==
    /\ \E where \in PC \ {"guardLease"} : TurnGoes(t, c, where)
    /\ Expired(c) \/ (active[c] = t /\ pc[t] \in {"releasing", "guardRelease"})
    /\ active' = [active EXCEPT ![c] = None] /\ locked' = [locked EXCEPT ![c] = FALSE]

Passed(t, c) ==
    /\ \E where \in PC \ {"guardLease"} : TurnGoes(t, c, where)
    /\ UNCHANGED <<active, locked>>

LeaseStep(t, c) == Taken(t, c) \/ Granted(t, c) \/ Dropped(t, c) \/ Passed(t, c)

(* A snapshot lies under a lock that is set.  A turn that was granted the lock    *)
(* and still waits for the guard keeps it set, without a snapshot, alone.         *)
LeaseInv ==
    /\ pc \in [Turns -> PC]
    /\ conv \in [Turns -> Conversations \union {None}]
    /\ \A t \in Turns : pc[t] # "idle" => conv[t] \in Conversations
    /\ active \in [Conversations -> Turns \union {None}]
    /\ locked \in [Conversations -> BOOLEAN]
    /\ \A c \in Conversations : active[c] # None => locked[c]
    /\ \A t \in Turns : pc[t] = "guardLease" => locked[conv[t]] /\ active[conv[t]] = None
    /\ \A t, u \in Turns :
         pc[t] = "guardLease" /\ pc[u] = "guardLease" /\ conv[t] = conv[u] => t = u

LEMMA TurnGoesOn ==
    ASSUME LeaseInv, NEW t \in Turns, NEW c \in Conversations, NEW where \in PC, TurnGoes(t, c, where)
    PROVE  /\ pc' \in [Turns -> PC] /\ conv' \in [Turns -> Conversations \union {None}]
           /\ pc'[t] = where /\ conv'[t] = c
           /\ \A u \in Turns \ {t} : pc'[u] = pc[u] /\ conv'[u] = conv[u]
           /\ \A u \in Turns : pc'[u] # "idle" => conv'[u] \in Conversations
BY DEF LeaseInv, TurnGoes

(* A step of a turn keeps the invariant, and takes no lease that is alive from    *)
(* a turn that is not about to release it.                                      *)
LEMMA LeaseStepKeeps ==
    ASSUME LeaseInv, LeaseAssumption, NEW t \in Turns, NEW c \in Conversations, LeaseStep(t, c)
    PROVE  /\ LeaseInv'
           /\ \A d \in Conversations :
                active[d] # None /\ ttl[d] > 0 /\ active'[d] # active[d]
                   => pc[active[d]] \in {"releasing", "guardRelease"}
<1>1. PICK where \in PC : TurnGoes(t, c, where)
  BY DEF LeaseStep, Taken, Granted, Dropped, Passed, PC
<1>2. /\ pc' \in [Turns -> PC] /\ conv' \in [Turns -> Conversations \union {None}]
      /\ pc'[t] = where /\ conv'[t] = c
      /\ \A u \in Turns \ {t} : pc'[u] = pc[u] /\ conv'[u] = conv[u]
      /\ \A u \in Turns : pc'[u] # "idle" => conv'[u] \in Conversations
  BY <1>1, TurnGoesOn
<1>3. /\ active' \in [Conversations -> Turns \union {None}] /\ locked' \in [Conversations -> BOOLEAN]
      /\ \A d \in Conversations \ {c} : active'[d] = active[d] /\ locked'[d] = locked[d]
  <2>1. CASE Taken(t, c)
    BY <2>1 DEF LeaseInv, Taken
  <2>2. CASE Granted(t, c)
    BY <2>2 DEF LeaseInv, Granted
  <2>3. CASE Dropped(t, c)
    BY <2>3 DEF LeaseInv, Dropped
  <2>4. CASE Passed(t, c)
    BY <2>4 DEF LeaseInv, Passed
  <2> QED BY <2>1, <2>2, <2>3, <2>4 DEF LeaseStep
<1>4. ASSUME NEW u \in Turns, pc[u] = "guardLease", conv[u] = c, u # t
      PROVE  Passed(t, c)
  <2>1. locked[c] /\ active[c] = None /\ ~(pc[t] = "guardLease" /\ conv[t] = c)
    BY <1>4 DEF LeaseInv
  <2>2. ~FreeAfterExpiry(c) /\ ~Expired(c)
    BY <2>1 DEF FreeAfterExpiry, Expired
  <2>3. ~Taken(t, c)
    BY <2>1, <2>2 DEF Taken, TurnGoes
  <2>4. ~Granted(t, c) /\ ~Dropped(t, c)
    BY <2>1, <2>2, LeaseAssumption DEF Granted, Dropped, LeaseAssumption
  <2> QED BY <2>3, <2>4 DEF LeaseStep
<1>5. ASSUME pc'[t] = "guardLease"
      PROVE  Granted(t, c)
  <2>1. ~Taken(t, c) /\ ~Dropped(t, c) /\ ~Passed(t, c)
    BY <1>5, TurnGoesOn DEF Taken, Dropped, Passed, PC
  <2> QED BY <2>1 DEF LeaseStep
<1>6. ASSUME Granted(t, c) PROVE locked'[c] /\ active'[c] = None
  BY <1>6 DEF Granted, LeaseInv
<1>7. \A d \in Conversations : active'[d] # None => locked'[d]
  <2>1. active'[c] # None => locked'[c]
    BY DEF LeaseInv, LeaseStep, Taken, Granted, Dropped, Passed
  <2> QED BY <1>3, <2>1 DEF LeaseInv
<1>8. \A u \in Turns : pc'[u] = "guardLease" => locked'[conv'[u]] /\ active'[conv'[u]] = None
  <2> SUFFICES ASSUME NEW u \in Turns, pc'[u] = "guardLease"
               PROVE  locked'[conv'[u]] /\ active'[conv'[u]] = None
    OBVIOUS
  <2>1. CASE u = t
    BY <1>2, <1>5, <1>6, <2>1
  <2>2. CASE u # t
    <3>1. pc[u] = "guardLease" /\ conv'[u] = conv[u] /\ conv[u] \in Conversations
          /\ locked[conv[u]] /\ active[conv[u]] = None
      BY <1>2, <2>2 DEF LeaseInv
    <3>2. CASE conv[u] = c
      BY <1>4, <2>2, <3>1, <3>2 DEF Passed
    <3>3. CASE conv[u] # c
      BY <1>3, <3>1, <3>3
    <3> QED BY <3>2, <3>3
  <2> QED BY <2>1, <2>2
<1>9. ASSUME NEW u \in Turns, pc[u] = "guardLease", u # t, pc'[t] = "guardLease"
      PROVE  conv[u] # c
  <2> SUFFICES ASSUME conv[u] = c PROVE FALSE
    OBVIOUS
  <2>1. ~locked[c]
    BY <1>5, <1>9 DEF Granted
  <2> QED BY <1>9, <2>1 DEF LeaseInv
<1>10. \A u, v \in Turns :
          pc'[u] = "guardLease" /\ pc'[v] = "guardLease" /\ conv'[u] = conv'[v] => u = v
  BY <1>2, <1>9 DEF LeaseInv
<1>11. LeaseInv'
  BY <1>2, <1>3, <1>7, <1>8, <1>10 DEF LeaseInv
<1>12. ASSUME active[c] # None, ttl[c] > 0, active'[c] # active[c]
       PROVE  pc[active[c]] \in {"releasing", "guardRelease"}
  <2>1. locked[c] /\ ttl[c] # 0
    BY <1>12 DEF LeaseInv
  <2>2. ~FreeAfterExpiry(c) /\ ~Expired(c)
    BY <2>1 DEF FreeAfterExpiry, Expired
  <2>3. ~(pc[t] = "guardLease" /\ conv[t] = c)
    BY <1>12 DEF LeaseInv
  <2>4. ~Taken(t, c)
    BY <2>2, <2>3 DEF Taken, TurnGoes
  <2>5. Dropped(t, c)
    BY <1>12, <2>4 DEF LeaseStep, Granted, Passed
  <2> QED BY <2>2, <2>5 DEF Dropped
<1> QED BY <1>3, <1>11, <1>12

-----------------------------------------------------------------------------
(* Every step of a turn has one of these effects, or none. *)

LEMMA LeaseTakes ==
    ASSUME NEW t \in Turns, NEW c \in Conversations, Lease(t, c),
           conv' = [conv EXCEPT ![t] = c], pc[t] # "idle" => conv[t] = c,
           FreeAfterExpiry(c) \/ pc[t] = "guardLease"
    PROVE  LeaseStep(t, c)
BY DEF Lease, LeaseStep, Taken, TurnGoes

LEMMA AcquireStep ==
    ASSUME NEW t \in Turns, NEW c \in Conversations, AcquireSection(t, c),
           conv' = [conv EXCEPT ![t] = c], pc[t] # "idle" => conv[t] = c
    PROVE  LeaseStep(t, c)
<1>1. CASE FreeAfterExpiry(c) /\ Lease(t, c)
  BY <1>1, LeaseTakes
<1>2. CASE ExpireIfNeeded(c) /\ pc' = [pc EXCEPT ![t] = "takeLock"]
  <2>1. TurnGoes(t, c, "takeLock") /\ "takeLock" \in PC \ {"guardLease"}
    BY <1>2 DEF TurnGoes, PC
  <2> QED BY <1>2, <2>1 DEF ExpireIfNeeded, LeaseStep, Dropped, Passed
<1>3. CASE pc' = [pc EXCEPT ![t] = "idle"] /\ UNCHANGED <<active, locked>>
  <2>1. TurnGoes(t, c, "idle") /\ "idle" \in PC \ {"guardLease"}
    BY <1>3 DEF TurnGoes, PC
  <2> QED BY <1>3, <2>1 DEF LeaseStep, Passed
<1>4. CASE pc' = [pc EXCEPT ![t] = "waitLock"] /\ UNCHANGED <<active, locked>>
  <2>1. TurnGoes(t, c, "waitLock") /\ "waitLock" \in PC \ {"guardLease"}
    BY <1>4 DEF TurnGoes, PC
  <2> QED BY <1>4, <2>1 DEF LeaseStep, Passed
<1> QED BY <1>1, <1>2, <1>3, <1>4 DEF AcquireSection

LEMMA ArriveStep ==
    ASSUME NEW t \in Turns, NEW c \in Conversations, Arrive(t, c)
    PROVE  LeaseStep(t, c)
<1>1. pc[t] = "idle" /\ conv' = [conv EXCEPT ![t] = c]
  BY DEF Arrive
<1>2. CASE AcquireSection(t, c)
  BY <1>1, <1>2, AcquireStep
<1>3. CASE pc' = [pc EXCEPT ![t] = "guardAcquire"] /\ UNCHANGED <<active, locked>>
  <2>1. TurnGoes(t, c, "guardAcquire") /\ "guardAcquire" \in PC \ {"guardLease"}
    BY <1>1, <1>3 DEF TurnGoes, PC
  <2> QED BY <1>3, <2>1 DEF LeaseStep, Passed
<1> QED BY <1>2, <1>3 DEF Arrive

LEMMA TurnStep ==
    ASSUME LeaseInv, NEW t \in Turns,
           \/ AcquireInTurn(t) \/ TakeLock(t) \/ WaitGranted(t) \/ LeaseInTurn(t)
           \/ WaitTimedOut(t) \/ BusyInTurn(t) \/ EndTurn(t) \/ Release(t) \/ ReleaseInTurn(t)
           \/ Cancel(t)
    PROVE  \E c \in Conversations : LeaseStep(t, c)
<1>1. conv' = conv /\ pc[t] # "idle"
  BY DEF AcquireInTurn, TakeLock, WaitGranted, LeaseInTurn, WaitTimedOut, BusyInTurn, EndTurn,
         Release, ReleaseInTurn, Cancel
<1>2. PICK c \in Conversations : c = conv[t]
  BY <1>1 DEF LeaseInv
<1>3. conv' = [conv EXCEPT ![t] = c]
  BY <1>1, <1>2 DEF LeaseInv
<1>4. ASSUME NEW where \in PC, pc' = [pc EXCEPT ![t] = where] PROVE TurnGoes(t, c, where)
  BY <1>2, <1>3, <1>4 DEF TurnGoes
<1>5. CASE AcquireInTurn(t)
  BY <1>2, <1>3, <1>5, AcquireStep DEF AcquireInTurn
<1>6. CASE TakeLock(t) \/ WaitGranted(t) \/ LeaseInTurn(t)
  <2>1. CASE Lease(t, conv[t])
    <3>1. FreeAfterExpiry(c) \/ pc[t] = "guardLease"
      BY <1>2, <1>6 DEF TakeLock, WaitGranted, LeaseInTurn, LockFreeFor, FreeAfterExpiry
    <3>2. Lease(t, c)
      BY <1>2, <2>1 DEF Lease
    <3> QED BY <1>2, <1>3, <3>1, <3>2, LeaseTakes
  <2>2. CASE ~Lease(t, conv[t])
    <3>1. /\ ~locked[c] /\ pc' = [pc EXCEPT ![t] = "guardLease"]
          /\ locked' = [locked EXCEPT ![c] = TRUE] /\ active' = active
      BY <1>2, <1>6, <2>2 DEF TakeLock, WaitGranted, LeaseInTurn, LockFreeFor
    <3>2. TurnGoes(t, c, "guardLease")
      BY <1>4, <3>1 DEF PC
    <3> QED BY <3>1, <3>2 DEF LeaseStep, Granted
  <2> QED BY <2>1, <2>2
<1>7. CASE WaitTimedOut(t) \/ BusyInTurn(t)
  <2>1. CASE BusySection(t)
    <3>1. TurnGoes(t, c, "idle") /\ "idle" \in PC \ {"guardLease"}
      BY <1>4, <2>1 DEF BusySection, PC
    <3>2. ExpireIfNeeded(c)
      BY <1>2, <2>1 DEF BusySection
    <3> QED BY <3>1, <3>2 DEF ExpireIfNeeded, LeaseStep, Dropped, Passed
  <2>2. CASE pc' = [pc EXCEPT ![t] = "guardBusy"] /\ UNCHANGED <<active, locked>>
    <3>1. TurnGoes(t, c, "guardBusy") /\ "guardBusy" \in PC \ {"guardLease"}
      BY <1>4, <2>2 DEF PC
    <3> QED BY <2>2, <3>1 DEF LeaseStep, Passed
  <2> QED BY <1>7, <2>1, <2>2 DEF WaitTimedOut, BusyInTurn
<1>8. CASE Release(t) \/ ReleaseInTurn(t)
  <2>1. CASE ReleaseSection(t)
    <3>1. TurnGoes(t, c, "idle") /\ "idle" \in PC \ {"guardLease"}
      BY <1>4, <2>1 DEF ReleaseSection, PC
    <3>2. pc[t] \in {"releasing", "guardRelease"}
      BY <1>8 DEF Release, ReleaseInTurn
    <3>3. \/ UNCHANGED <<active, locked>>
          \/ /\ active[c] = t
             /\ active' = [active EXCEPT ![c] = None] /\ locked' = [locked EXCEPT ![c] = FALSE]
      BY <1>2, <2>1 DEF ReleaseSection
    <3> QED BY <3>1, <3>2, <3>3 DEF LeaseStep, Dropped, Passed
  <2>2. CASE pc' = [pc EXCEPT ![t] = "guardRelease"] /\ UNCHANGED <<active, locked>>
    <3>1. TurnGoes(t, c, "guardRelease") /\ "guardRelease" \in PC \ {"guardLease"}
      BY <1>4, <2>2 DEF PC
    <3> QED BY <2>2, <3>1 DEF LeaseStep, Passed
  <2> QED BY <1>8, <2>1, <2>2 DEF Release, ReleaseInTurn
<1>9. CASE EndTurn(t) \/ Cancel(t)
  <2>1. /\ pc' = [pc EXCEPT ![t] = "releasing"] \/ pc' = [pc EXCEPT ![t] = "idle"]
        /\ UNCHANGED <<active, locked>>
    BY <1>9 DEF EndTurn, Cancel
  <2>2. TurnGoes(t, c, "releasing") \/ TurnGoes(t, c, "idle")
    BY <1>4, <2>1 DEF PC
  <2> QED BY <2>1, <2>2 DEF LeaseStep, Passed, PC
<1> QED BY <1>5, <1>6, <1>7, <1>8, <1>9

LEMMA ClockStep ==
    ASSUME Tick \/ UNCHANGED vars \/ \E t \in Turns : Renew(t) \/ RenewInTurn(t)
    PROVE  UNCHANGED <<pc, conv, active, locked>>
BY DEF Tick, vars, Renew, RenewInTurn

LEMMA NextStep ==
    ASSUME LeaseInv, [Next]_vars
    PROVE  \/ \E t \in Turns, c \in Conversations : LeaseStep(t, c)
           \/ UNCHANGED <<pc, conv, active, locked>>
BY ArriveStep, TurnStep, ClockStep DEF Next, LoopStep

(* A late release, a failed acquire or a cancelled one never takes a lease that  *)
(* is still alive from a turn that goes on, whatever the constants: waiting,      *)
(* disconnects and a loop behind its timers included.                           *)
THEOREM LiveLeasesEndWithTheirTurns == Spec => LiveLeaseEndsWithItsTurn
<1>1. Init => LeaseInv
  BY DEF Init, LeaseInv, PC
<1>2. LeaseInv /\ [Next]_vars =>
         /\ LeaseInv'
         /\ \A c \in Conversations :
              active[c] # None /\ ttl[c] > 0 /\ active'[c] # active[c]
                 => pc[active[c]] \in {"releasing", "guardRelease"}
  <2> SUFFICES ASSUME LeaseInv, [Next]_vars
               PROVE  /\ LeaseInv'
                      /\ \A c \in Conversations :
                           active[c] # None /\ ttl[c] > 0 /\ active'[c] # active[c]
                              => pc[active[c]] \in {"releasing", "guardRelease"}
    OBVIOUS
  <2>1. CASE \E t \in Turns, c \in Conversations : LeaseStep(t, c)
    BY <2>1, LeaseStepKeeps, LeaseAssumption
  <2>2. CASE UNCHANGED <<pc, conv, active, locked>>
    BY <2>2 DEF LeaseInv
  <2> QED BY <2>1, <2>2, NextStep
<1> QED BY <1>1, <1>2, PTL DEF Spec, LiveLeaseEndsWithItsTurn
=============================================================================
