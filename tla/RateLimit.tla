----------------------------- MODULE RateLimit -----------------------------
(* app/core/rate_limit.py for one client and one path: fixed windows, counted in   *)
(* Redis by every process, and by each process for itself when Redis does not      *)
(* answer in time.                                                              *)
EXTENDS Naturals, FiniteSets

CONSTANTS
    Requests,
    Processes,
    Limit,
    MaxWindow       (* bound: the windows are 0..MaxWindow *)

ASSUME RateAssumption == {Limit, MaxWindow} \subseteq Nat /\ {"redis", "nobody"} \cap Processes = {}

VARIABLES
    backend,        (* API_RATE_LIMIT_BACKEND: "redis" or "local" *)
    local_fallback, (* API_RATE_LIMIT_LOCAL_FALLBACK *)
    window,         (* the window of the clock *)
    counter,        (* the counter of a key in Redis, 0 if there is none *)
    expires,        (* the window at whose end it may expire, Never before EXPIRE *)
    bucket,         (* _buckets of a process: window_start and count of a key *)
    req             (* where a request is, its key, and who decided on it when *)

rateVars == <<backend, local_fallback, window, counter, expires, bucket, req>>

Windows == 0..MaxWindow
Never == MaxWindow + 1
Untouched == [at |-> "idle", key |-> 0, now |-> 0, count |-> 0, seen |-> 0, by |-> "nobody"]

RateInit ==
    /\ backend \in {"redis", "local"} /\ local_fallback \in BOOLEAN
    /\ window = 0
    /\ counter = [w \in Windows |-> 0] /\ expires = [w \in Windows |-> Never]
    /\ bucket = [p \in Processes |-> [w \in Windows |-> [start |-> w, count |-> 0]]]
    /\ req = [r \in Requests |-> Untouched]

ClockTurns ==
    /\ window < MaxWindow
    /\ window' = window + 1
    /\ UNCHANGED <<backend, local_fallback, counter, expires, bucket, req>>

KeyExpires(w) ==
    /\ counter[w] > 0 /\ window > expires[w]
    /\ counter' = [counter EXCEPT ![w] = 0] /\ expires' = [expires EXCEPT ![w] = Never]
    /\ UNCHANGED <<backend, local_fallback, window, bucket, req>>

(* _key; the clock is read a second time for the seconds left, once there is a client *)
Keyed(r) ==
    /\ req[r].at = "idle"
    /\ req' = [req EXCEPT ![r].at = "keyed", ![r].key = window]
    /\ UNCHANGED <<backend, local_fallback, window, counter, expires, bucket>>

Sent(r) ==
    /\ backend = "redis"
    /\ req[r].at = "keyed"
    /\ req' = [req EXCEPT ![r].at = "sent", ![r].now = window]
    /\ UNCHANGED <<backend, local_fallback, window, counter, expires, bucket>>

Incremented(w) == counter' = [counter EXCEPT ![w] = @ + 1]

(* INCR *)
Counted(r) ==
    /\ req[r].at = "sent"
    /\ Incremented(req[r].key)
    /\ req' = [req EXCEPT ![r].at = IF counter[req[r].key] = 0 THEN "expiring" ELSE "counted",
                          ![r].count = counter[req[r].key] + 1, ![r].seen = window]
    /\ UNCHANGED <<backend, local_fallback, window, expires, bucket>>

(* Mutant: the seconds that are gone instead of the seconds left. *)
AlreadyOver(now) == 0

EndOf(now) == now + 1

(* EXPIRE, of a key that may be gone again *)
Expiring(w, now) ==
    expires' = IF counter[w] = 0 THEN expires ELSE [expires EXCEPT ![w] = EndOf(now) - 1]

ExpirySet(r) ==
    /\ req[r].at = "expiring"
    /\ Expiring(req[r].key, req[r].now)
    /\ req' = [req EXCEPT ![r].at = "counted"]
    /\ UNCHANGED <<backend, local_fallback, window, counter, bucket>>

Verdict(count) == IF count <= Limit THEN "admitted" ELSE "refused"

(* TTL answers within the time of the operation. *)
Decided(r) ==
    /\ req[r].at = "counted"
    /\ req' = [req EXCEPT ![r].at = Verdict(req[r].count), ![r].by = "redis"]
    /\ UNCHANGED <<backend, local_fallback, window, counter, expires, bucket>>

(* The command under way was applied or not; nobody knows. *)
Unanswered(r) ==
    \/ req[r].at = "sent" /\ Incremented(req[r].key) /\ UNCHANGED expires
    \/ req[r].at = "expiring" /\ Expiring(req[r].key, req[r].now) /\ UNCHANGED counter
    \/ req[r].at \in {"sent", "expiring", "counted"} /\ UNCHANGED <<counter, expires>>

RefusedUnavailable(r) ==
    /\ ~local_fallback
    /\ Unanswered(r)
    /\ req' = [req EXCEPT ![r].at = "refused"]
    /\ UNCHANGED <<backend, local_fallback, window, bucket>>

(* LocalFixedWindowRateLimitStore.increment, under its lock *)
CountedLocally(r, p) ==
    LET w == req[r].key
        old == bucket[p][w]
        new == [start |-> window, count |-> IF old.start = window THEN old.count + 1 ELSE 1]
    IN /\ \/ backend = "local" /\ req[r].at = "keyed" /\ UNCHANGED <<counter, expires>>
          \/ local_fallback /\ Unanswered(r)
       /\ bucket' = [bucket EXCEPT ![p][w] = new]
       /\ req' = [req EXCEPT ![r].at = Verdict(new.count), ![r].by = p, ![r].seen = window]
       /\ UNCHANGED <<backend, local_fallback, window>>

RateNext ==
    \/ ClockTurns
    \/ \E w \in Windows : KeyExpires(w)
    \/ \E r \in Requests : \/ Keyed(r) \/ Sent(r) \/ Counted(r) \/ ExpirySet(r) \/ Decided(r)
                           \/ RefusedUnavailable(r)
                           \/ \E p \in Processes : CountedLocally(r, p)

RateSpec == RateInit /\ [][RateNext]_rateVars

(* Of the requests counted in the window of their key, Redis admits at most the    *)
(* limit and each process on its own at most the limit again; the processes admit   *)
(* nobody unless they are asked first or asked instead.  (A request that reaches Redis only after its *)
(* window may start the counter of that window anew.)                            *)
LimitPerWindow ==
    \A w \in Windows, by \in {"redis"} \union Processes :
        LET admitted == {r \in Requests : /\ req[r].at = "admitted" /\ req[r].by = by
                                          /\ req[r].key = w /\ req[r].seen = w}
        IN /\ Cardinality(admitted) <= Limit
           /\ admitted # {} => by = "redis" \/ backend = "local" \/ local_fallback
=============================================================================
