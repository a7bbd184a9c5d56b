------------------------------ MODULE MCMutex ------------------------------
(* The conversation lock as it is by default, without a wait: inside one process   *)
(* (LocalSessionLock), and over Redis for two processes.  TLC explores each by      *)
(* itself, `backing` says which; both move the same turns.                         *)
EXTENDS LocalSessionLock

CONSTANTS
    t1, t2, t3, c1, c2, p1, p2,
    Cooldown,                   (* in ticks *)
    MaxFaults, MaxCrashes       (* bounds *)

VARIABLES
    backing,                                                            (* "local", "redis" *)
    backend, key, keyTtl, local, localTtl, cooldown, faults, crashes    (* of SessionLock *)

(* An owner, a rival, and a bystander who shares the guard *)
MCTurns == {t1, t2, t3}
TwoConversations == {c1, c2}

(* Two turns on one process, one on another; any call but a renewal may fail. *)
Redis == INSTANCE SessionLock WITH
    Processes <- {p1, p2}, Home <- [t \in Turns |-> IF t = t2 THEN p2 ELSE p1],
    CanDegrade <- FALSE, FaultyCalls <- {"set", "get", "release"}

localOnly == <<locked, lockQ, guard, guardQ, active, ttl>>
redisOnly == <<backend, key, keyTtl, local, localTtl, cooldown, faults, crashes>>

EitherInit == backing \in {"local", "redis"} /\ Init /\ Redis!Init

EitherNext ==
    \/ backing = "local" /\ Next /\ UNCHANGED <<backing, redisOnly>>
    \/ backing = "redis" /\ Redis!Next /\ UNCHANGED <<backing, localOnly>>

EitherSpec == EitherInit /\ [][EitherNext]_<<backing, vars, Redis!vars>>

(* Seen from outside, over all processes, turns start and stop, and a conversation *)
(* runs one turn at a time (ImplementsMutex of SessionLock).                      *)
RedisImplementsMutex == Redis!ImplementsMutex
=============================================================================
