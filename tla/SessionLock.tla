----------------------------- MODULE SessionLock -----------------------------
(* The conversation lock of app/core/session_lock.py as several processes use *)
(* it: the SessionLockManager facade of each process, the Redis key the        *)
(* processes share, and the process-local table a facade may fall back to.     *)
(*                                                                            *)
(* acquire never waits (SESSION_LOCK_ACQUIRE_WAIT_SECONDS=0, the default), so  *)
(* the local manager's operations are single steps: LocalSessionLock shows     *)
(* that they then never suspend.  A Redis call is two steps, sent and          *)
(* answered; a call that fails may or may not have been applied.               *)
EXTENDS Integers, FiniteSets

CONSTANTS
    Turns, Conversations, Processes,
    None,           \* no turn
    Home,           \* the process each turn is served by
    CanDegrade,     \* _can_degrade_to_local: auto, fallback allowed, development or test
    FaultyCalls,    \* the Redis calls that may fail: subset of RedisCalls
    MaxFaults,      \* bound: Redis calls that fail in a behaviour
    MaxCrashes,     \* bound: process crashes in a behaviour
    PromptLoop,     \* TRUE iff no tick passes while a call or a renewal is pending
    TTL, RenewInterval, Cooldown    \* in ticks

RedisCalls == {"set", "get", "renew", "release"}

ASSUME SessionLockAssumption ==
    /\ None \notin Turns
    /\ Home \in [Turns -> Processes]
    /\ CanDegrade \in BOOLEAN /\ PromptLoop \in BOOLEAN
    /\ FaultyCalls \subseteq RedisCalls
    /\ MaxFaults \in Nat /\ MaxCrashes \in Nat /\ Cooldown \in Nat
    /\ TTL \in Nat /\ RenewInterval \in Nat
    /\ 0 < RenewInterval /\ RenewInterval < TTL

VARIABLES
    pc,         \* what each turn is doing
    conv,       \* the conversation of each turn
    backend,    \* the backend of each turn's lease
    key,        \* Redis: the owner stored under each conversation's key, or None
    keyTtl,     \* Redis: ticks until the key expires
    local,      \* LocalSessionLockManager._active of each process
    localTtl,   \* ticks left in those snapshots; 0 is expired
    renewing,   \* state of each turn's renewal task
    renewIn,    \* ticks until that task wakes
    cooldown,   \* ticks until each process tries Redis again
    faults, crashes     \* how many of each there have been

vars == <<pc, conv, backend, key, keyTtl, local, localTtl, renewing, renewIn,
          cooldown, faults, crashes>>

leases == <<key, keyTtl, local, localTtl>>
renewal == <<renewing, renewIn>>

PC == {"idle", "setSent", "getSent", "turn", "releaseSent"}

TypeOK ==
    /\ pc \in [Turns -> PC]
    /\ conv \in [Turns -> Conversations \union {None}]
    /\ backend \in [Turns -> {"redis", "local"}]
    /\ key \in [Conversations -> Turns \union {None}]
    /\ keyTtl \in [Conversations -> 0 .. TTL]
    /\ local \in [Processes -> [Conversations -> Turns \union {None}]]
    /\ localTtl \in [Processes -> [Conversations -> 0 .. TTL]]
    /\ renewing \in [Turns -> {"off", "sleep", "sent"}]
    /\ renewIn \in [Turns -> 0 .. RenewInterval]
    /\ cooldown \in [Processes -> 0 .. Cooldown]
    /\ faults \in 0 .. MaxFaults /\ crashes \in 0 .. MaxCrashes

Init ==
    /\ pc = [t \in Turns |-> "idle"]
    /\ conv = [t \in Turns |-> None]
    /\ backend = [t \in Turns |-> "redis"]
    /\ key = [c \in Conversations |-> None]
    /\ keyTtl = [c \in Conversations |-> 0]
    /\ local = [p \in Processes |-> [c \in Conversations |-> None]]
    /\ localTtl = [p \in Processes |-> [c \in Conversations |-> 0]]
    /\ renewing = [t \in Turns |-> "off"]
    /\ renewIn = [t \in Turns |-> 0]
    /\ cooldown = [p \in Processes |-> 0]
    /\ faults = 0 /\ crashes = 0

-----------------------------------------------------------------------------
(* The Redis commands *)

(* Mutant: SET without NX. *)
SetAlways(t) ==
    /\ key' = [key EXCEPT ![conv[t]] = t]
    /\ keyTtl' = [keyTtl EXCEPT ![conv[t]] = TTL]

(* SET key owner NX PX ttl *)
SetNX(t) ==
    IF key[conv[t]] = None
    THEN /\ key' = [key EXCEPT ![conv[t]] = t]
         /\ keyTtl' = [keyTtl EXCEPT ![conv[t]] = TTL]
    ELSE UNCHANGED <<key, keyTtl>>

(* Mutant: DEL without comparing the owner. *)
DeleteAnyOwner(t) ==
    /\ key' = [key EXCEPT ![conv[t]] = None]
    /\ keyTtl' = [keyTtl EXCEPT ![conv[t]] = 0]

(* _RELEASE_IF_OWNER_LUA *)
DeleteIfOwner(t) ==
    IF key[conv[t]] = t
    THEN /\ key' = [key EXCEPT ![conv[t]] = None]
         /\ keyTtl' = [keyTtl EXCEPT ![conv[t]] = 0]
    ELSE UNCHANGED <<key, keyTtl>>

(* _RENEW_IF_OWNER_LUA *)
ExtendIfOwner(t) ==
    keyTtl' = IF key[conv[t]] = t THEN [keyTtl EXCEPT ![conv[t]] = TTL] ELSE keyTtl

(* One more Redis call of this kind fails. *)
Fault(call) ==
    /\ call \in FaultyCalls /\ faults < MaxFaults
    /\ faults' = faults + 1

-----------------------------------------------------------------------------
(* SessionLockManager.acquire *)

StartRenewal(t) ==
    /\ renewing' = [renewing EXCEPT ![t] = "sleep"]
    /\ renewIn' = [renewIn EXCEPT ![t] = RenewInterval]

(* LocalSessionLockManager.acquire: an expired snapshot is evicted and replaced. *)
LocalAcquire(t, c) ==
    LET p == Home[t] IN
    IF local[p][c] = None \/ localTtl[p][c] = 0
    THEN /\ local' = [local EXCEPT ![p][c] = t]
         /\ localTtl' = [localTtl EXCEPT ![p][c] = TTL]
         /\ pc' = [pc EXCEPT ![t] = "turn"]
         /\ backend' = [backend EXCEPT ![t] = "local"]
         /\ StartRenewal(t)
    ELSE /\ pc' = [pc EXCEPT ![t] = "idle"]        \* SessionLockBusy
         /\ UNCHANGED <<local, localTtl, backend, renewing, renewIn>>

(* _should_try_redis *)
ShouldTryRedis(p) ==
    /\ \A c \in Conversations : local[p][c] = None \/ localTtl[p][c] = 0
    /\ cooldown[p] = 0

(* An owner token is a fresh uuid: a turn whose previous token is still stored *)
(* somewhere does not start again.                                            *)
FreshOwner(t) ==
    /\ \A c \in Conversations : key[c] # t
    /\ \A p \in Processes, c \in Conversations : local[p][c] # t

Arrive(t, c) ==
    /\ pc[t] = "idle" /\ FreshOwner(t)
    /\ conv' = [conv EXCEPT ![t] = c]
    /\ \/ /\ ShouldTryRedis(Home[t])
          /\ pc' = [pc EXCEPT ![t] = "setSent"]
          /\ UNCHANGED <<backend, local, localTtl, renewing, renewIn>>
       \/ /\ ~ShouldTryRedis(Home[t])
          /\ LocalAcquire(t, c)
    /\ UNCHANGED <<key, keyTtl, cooldown, faults, crashes>>

SetAnswered(t) ==
    /\ pc[t] = "setSent"
    /\ SetNX(t)
    /\ IF key[conv[t]] = None
       THEN /\ pc' = [pc EXCEPT ![t] = "turn"]
            /\ backend' = [backend EXCEPT ![t] = "redis"]
            /\ StartRenewal(t)
       ELSE /\ pc' = [pc EXCEPT ![t] = "getSent"]
            /\ UNCHANGED <<backend, renewing, renewIn>>
    /\ UNCHANGED <<conv, local, localTtl, cooldown, faults, crashes>>

(* _redis_snapshot describes the owner for the SessionLockBusy raised next. *)
GetAnswered(t) ==
    /\ pc[t] = "getSent"
    /\ pc' = [pc EXCEPT ![t] = "idle"]
    /\ UNCHANGED <<conv, backend, leases, renewal, cooldown, faults, crashes>>

(* A call of the Redis manager raises: fall back to the local table, or let the *)
(* error end the request.                                                     *)
AcquireFails(t) ==
    /\ \/ /\ pc[t] = "setSent" /\ Fault("set")
          /\ SetNX(t) \/ UNCHANGED <<key, keyTtl>>
       \/ /\ pc[t] = "getSent" /\ Fault("get")
          /\ UNCHANGED <<key, keyTtl>>
    /\ \/ /\ CanDegrade
          /\ cooldown' = [cooldown EXCEPT ![Home[t]] = Cooldown]
          /\ LocalAcquire(t, conv[t])
       \/ /\ ~CanDegrade
          /\ pc' = [pc EXCEPT ![t] = "idle"]
          /\ UNCHANGED <<backend, local, localTtl, renewal, cooldown>>
    /\ UNCHANGED <<conv, crashes>>

-----------------------------------------------------------------------------
(* SessionLockLease._auto_renew: the first renewal that does not succeed is the *)
(* last; the turn goes on.                                                     *)

RenewDue(t) == renewing[t] = "sleep" /\ renewIn[t] = 0

StopRenewing(t) ==
    renewing' = [renewing EXCEPT ![t] = "off"] /\ UNCHANGED renewIn

Renew(t) ==
    LET p == Home[t]  c == conv[t] IN
    /\ RenewDue(t)
    /\ \/ /\ backend[t] = "redis"
          /\ renewing' = [renewing EXCEPT ![t] = "sent"]
          /\ UNCHANGED <<localTtl, renewIn>>
       \/ /\ backend[t] = "local" /\ local[p][c] = t
          /\ localTtl' = [localTtl EXCEPT ![p][c] = TTL]
          /\ StartRenewal(t)
       \/ /\ backend[t] = "local" /\ local[p][c] # t
          /\ StopRenewing(t)
          /\ UNCHANGED localTtl
    /\ UNCHANGED <<pc, conv, backend, key, keyTtl, local, cooldown, faults, crashes>>

RenewAnswered(t) ==
    /\ renewing[t] = "sent"
    /\ ExtendIfOwner(t)
    /\ IF key[conv[t]] = t THEN StartRenewal(t) ELSE StopRenewing(t)
    /\ UNCHANGED <<pc, conv, backend, key, local, localTtl, cooldown, faults, crashes>>

RenewFails(t) ==
    /\ renewing[t] = "sent" /\ Fault("renew")
    /\ ExtendIfOwner(t) \/ UNCHANGED keyTtl
    /\ StopRenewing(t)
    /\ UNCHANGED <<pc, conv, backend, key, local, localTtl, cooldown, crashes>>

-----------------------------------------------------------------------------
(* SessionLockLease.release, from the `finally` of generate_sse_stream *)

EndTurn(t) ==
    LET p == Home[t]  c == conv[t] IN
    /\ pc[t] = "turn"
    /\ StopRenewing(t)
    /\ \/ /\ backend[t] = "redis"
          /\ pc' = [pc EXCEPT ![t] = "releaseSent"]
          /\ UNCHANGED local
       \/ /\ backend[t] = "local"
          /\ pc' = [pc EXCEPT ![t] = "idle"]
          /\ local' = IF local[p][c] = t THEN [local EXCEPT ![p][c] = None] ELSE local
    /\ UNCHANGED <<conv, backend, key, keyTtl, localTtl, cooldown, faults, crashes>>

ReleaseAnswered(t) ==
    /\ pc[t] = "releaseSent"
    /\ DeleteIfOwner(t)
    /\ pc' = [pc EXCEPT ![t] = "idle"]
    /\ UNCHANGED <<conv, backend, local, localTtl, renewal, cooldown, faults, crashes>>

(* "Session lock release failed; relying on TTL expiry" *)
ReleaseFails(t) ==
    /\ pc[t] = "releaseSent" /\ Fault("release")
    /\ DeleteIfOwner(t) \/ UNCHANGED <<key, keyTtl>>
    /\ pc' = [pc EXCEPT ![t] = "idle"]
    /\ UNCHANGED <<conv, backend, local, localTtl, renewal, cooldown, crashes>>

-----------------------------------------------------------------------------
(* The environment *)

(* The client disconnects while a call is in flight: CancelledError is not an  *)
(* Exception, so nothing handles it, and the command may have been applied.    *)
Disconnect(t) ==
    /\ \/ /\ pc[t] = "setSent"
          /\ SetNX(t) \/ UNCHANGED <<key, keyTtl>>
       \/ /\ pc[t] = "releaseSent"
          /\ DeleteIfOwner(t) \/ UNCHANGED <<key, keyTtl>>
       \/ pc[t] = "getSent" /\ UNCHANGED <<key, keyTtl>>
    /\ pc' = [pc EXCEPT ![t] = "idle"]
    /\ UNCHANGED <<conv, backend, local, localTtl, renewal, cooldown, faults, crashes>>

(* A process dies and restarts: its turns and its memory are gone, its keys    *)
(* stay in Redis until they expire.                                           *)
Crash(p) ==
    /\ crashes < MaxCrashes
    /\ crashes' = crashes + 1
    /\ pc' = [t \in Turns |-> IF Home[t] = p THEN "idle" ELSE pc[t]]
    /\ renewing' = [t \in Turns |-> IF Home[t] = p THEN "off" ELSE renewing[t]]
    /\ local' = [local EXCEPT ![p] = [c \in Conversations |-> None]]
    /\ cooldown' = [cooldown EXCEPT ![p] = 0]
    /\ UNCHANGED <<conv, backend, key, keyTtl, localTtl, renewIn, faults>>

CallPending(t) ==
    pc[t] \in {"setSent", "getSent", "releaseSent"} \/ renewing[t] = "sent"

Less(n) == IF n > 0 THEN n - 1 ELSE 0

(* Mutant: the key outlives its TTL (SET without PX). *)
TickKeepingKeys ==
    /\ PromptLoop => \A t \in Turns : ~CallPending(t) /\ ~RenewDue(t)
    /\ keyTtl' = [c \in Conversations |-> Less(keyTtl[c])]
    /\ localTtl' = [p \in Processes |-> [c \in Conversations |-> Less(localTtl[p][c])]]
    /\ renewIn' = [t \in Turns |-> IF renewing[t] = "sleep" THEN Less(renewIn[t]) ELSE renewIn[t]]
    /\ cooldown' = [p \in Processes |-> Less(cooldown[p])]
    /\ UNCHANGED <<pc, conv, backend, key, local, renewing, faults, crashes>>

(* Redis removes a key whose TTL has run out; local snapshots wait for a look. *)
Tick ==
    /\ PromptLoop => \A t \in Turns : ~CallPending(t) /\ ~RenewDue(t)
    /\ key' = [c \in Conversations |-> IF keyTtl[c] > 1 THEN key[c] ELSE None]
    /\ keyTtl' = [c \in Conversations |-> Less(keyTtl[c])]
    /\ localTtl' = [p \in Processes |-> [c \in Conversations |-> Less(localTtl[p][c])]]
    /\ renewIn' = [t \in Turns |-> IF renewing[t] = "sleep" THEN Less(renewIn[t]) ELSE renewIn[t]]
    /\ cooldown' = [p \in Processes |-> Less(cooldown[p])]
    /\ UNCHANGED <<pc, conv, backend, local, renewing, faults, crashes>>

-----------------------------------------------------------------------------
Answered(t) ==
    SetAnswered(t) \/ GetAnswered(t) \/ Renew(t) \/ RenewAnswered(t) \/ ReleaseAnswered(t)

Failed(t) == AcquireFails(t) \/ RenewFails(t) \/ ReleaseFails(t)

Next ==
    \/ \E t \in Turns :
         \/ \E c \in Conversations : Arrive(t, c)
         \/ Answered(t) \/ Failed(t) \/ EndTurn(t) \/ Disconnect(t)
    \/ \E p \in Processes : Crash(p)
    \/ Tick

Spec == Init /\ [][Next]_vars

(* Calls are answered (or time out), turns end, time goes on. *)
Fairness ==
    /\ \A t \in Turns : WF_vars(Answered(t) \/ Failed(t)) /\ WF_vars(EndTurn(t))
    /\ WF_vars(Tick)

FairSpec == Spec /\ Fairness

-----------------------------------------------------------------------------
(* Properties *)

(* Seen from outside, over all processes, turns start and stop, and a           *)
(* conversation runs one turn at a time.                                      *)
Mutex == INSTANCE ConversationMutex WITH
            running <- {<<t, conv[t]>> : t \in {u \in Turns : pc[u] = "turn"}}

ImplementsMutex == Mutex!Spec

(* A turn that is running loses its Redis key only by expiry: no release or     *)
(* renewal of another owner, however late, takes it away.                      *)
RunningTurnKeepsItsKey ==
    [][\A c \in Conversations, t \in Turns :
         key[c] = t /\ pc[t] = "turn" /\ key'[c] # t => keyTtl[c] <= 1 /\ key'[c] = None]_vars

(* Nothing keeps a conversation busy for ever: a key whose turn is gone (crash, *)
(* lost release, answer lost on the way) goes away.                            *)
OrphanKeyExpires ==
    \A c \in Conversations, t \in Turns :
        key[c] = t /\ pc[t] = "idle" ~> key[c] # t

(* docs/架构与流程/session-consistency.md: after a degradation "当前进程内仍会按     *)
(* conversation_id 串行化", one process runs one turn per conversation.         *)
ProcessRunsOneTurn ==
    \A t, u \in Turns :
        pc[t] = "turn" /\ pc[u] = "turn" /\ conv[t] = conv[u] /\ Home[t] = Home[u] => t = u
=============================================================================
