------------------------- MODULE MCLocalSessionLock -------------------------
(* Instances of LocalSessionLock for TLC. *)
EXTENDS LocalSessionLock

CONSTANTS t1, t2, t3, c1

MCTurns == {t1, t2, t3}
OneConversation == {c1}
=============================================================================
