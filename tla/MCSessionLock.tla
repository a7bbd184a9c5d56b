---------------------------- MODULE MCSessionLock ----------------------------
(* Instances of SessionLock for TLC. *)
EXTENDS SessionLock

CONSTANTS t1, t2, t3, c1, p1, p2

ThreeTurns == {t1, t2, t3}
OneConversation == {c1}
TwoProcesses == {p1, p2}

(* t1 and t3 are served by the same process *)
MCHome == [t \in Turns |-> IF t = t2 THEN p2 ELSE p1]

AllCalls == RedisCalls
AcquireCalls == {"set", "get"}
=============================================================================
