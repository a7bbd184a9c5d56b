-------------------------- MODULE SessionLockProofs --------------------------
(* Theorems about SessionLock, for any number of processes, turns and          *)
(* conversations: a running turn keeps its key whatever fails, and where no     *)
(* facade falls back to its local table, renewals succeed and calls are          *)
(* answered in time, the Redis lock is the mutex of ConversationMutex.         *)
EXTENDS SessionLock, TLAPS

(* Nothing is known of the clock here: Redis keys are typed, and that is all.   *)
KeysTyped ==
    /\ key \in [Conversations -> Turns \union {None}]
    /\ keyTtl \in [Conversations -> 0 .. TTL]

(* No facade falls back, no renewal fails, and the loop is prompt. *)
Dependable == ~CanDegrade /\ "renew" \notin FaultyCalls /\ PromptLoop

(* The local tables stay empty, and Redis is always tried. *)
NothingIsLocal ==
    /\ \A p \in Processes : cooldown[p] = 0
    /\ \A p \in Processes, c \in Conversations : local[p][c] = None
    /\ \A t \in Turns : backend[t] = "redis"

(* A running turn owns the key of its conversation, and its renewal comes      *)
(* before that key expires.                                                   *)
OwnsKey(t) ==
    /\ conv[t] \in Conversations
    /\ key[conv[t]] = t
    /\ renewing[t] \in {"sleep", "sent"}
    /\ keyTtl[conv[t]] = TTL - RenewInterval + renewIn[t]

TurnsOwnKeys ==
    \A t \in Turns : /\ pc[t] = "turn" => OwnsKey(t)
                     /\ pc[t] # "idle" => conv[t] \in Conversations
                     /\ pc[t] # "turn" => renewing[t] = "off"

IInv == TypeOK /\ NothingIsLocal /\ TurnsOwnKeys

-----------------------------------------------------------------------------
(* The Redis commands *)

LEMMA CommandsAreTyped ==
    ASSUME KeysTyped, SessionLockAssumption, NEW t \in Turns, conv[t] \in Conversations
    PROVE  /\ SetNX(t) => KeysTyped'
           /\ DeleteIfOwner(t) => KeysTyped'
           /\ ExtendIfOwner(t) /\ key' = key => KeysTyped'
<1>1. TTL \in 0 .. TTL /\ 0 \in 0 .. TTL
  BY DEF SessionLockAssumption
<1>2. ASSUME SetNX(t) PROVE KeysTyped'
  BY <1>1, <1>2 DEF KeysTyped, SetNX
<1>3. ASSUME DeleteIfOwner(t) PROVE KeysTyped'
  BY <1>1, <1>3 DEF KeysTyped, DeleteIfOwner
<1>4. ASSUME ExtendIfOwner(t), key' = key PROVE KeysTyped'
  BY <1>1, <1>4 DEF KeysTyped, ExtendIfOwner
<1> QED BY <1>2, <1>3, <1>4

(* A command of one turn leaves the keys of all others alone. *)
LEMMA OthersKeepTheirKeys ==
    ASSUME KeysTyped, SessionLockAssumption, NEW t \in Turns, conv[t] \in Conversations,
           NEW c \in Conversations, key[c] \notin {None, t}
    PROVE  /\ SetNX(t) \/ DeleteIfOwner(t) => key'[c] = key[c] /\ keyTtl'[c] = keyTtl[c]
           /\ ExtendIfOwner(t) => keyTtl'[c] = keyTtl[c]
BY DEF KeysTyped, SetNX, DeleteIfOwner, ExtendIfOwner

-----------------------------------------------------------------------------
(* A step of one turn in which it does not start: the others keep their keys. *)
LEMMA TurnMoves ==
    ASSUME IInv, SessionLockAssumption, NEW t \in Turns, NEW where \in PC \ {"turn"},
           pc' = [pc EXCEPT ![t] = where],
           conv' = conv \/ \E c \in Conversations : conv' = [conv EXCEPT ![t] = c],
           where # "idle" => conv'[t] \in Conversations,
           renewing' = [renewing EXCEPT ![t] = "off"],
           \/ UNCHANGED <<key, keyTtl>>
           \/ conv[t] \in Conversations /\ SetNX(t)
           \/ conv[t] \in Conversations /\ DeleteIfOwner(t),
           faults' \in 0 .. MaxFaults,
           UNCHANGED <<backend, local, localTtl, renewIn, cooldown, crashes>>
    PROVE  IInv'
<1>1. KeysTyped'
  BY CommandsAreTyped DEF IInv, TypeOK, KeysTyped
<1>2. TypeOK'
  <2>1. conv' \in [Turns -> Conversations \union {None}]
    BY DEF IInv, TypeOK
  <2>2. pc' \in [Turns -> PC] /\ renewing' \in [Turns -> {"off", "sleep", "sent"}]
    BY DEF IInv, TypeOK
  <2> QED BY <1>1, <2>1, <2>2 DEF IInv, TypeOK, KeysTyped
<1>3. NothingIsLocal'
  BY DEF IInv, NothingIsLocal
<1>4. ASSUME NEW u \in Turns, u # t
      PROVE  pc'[u] = pc[u] /\ conv'[u] = conv[u] /\ renewing'[u] = renewing[u]
  BY <1>4 DEF IInv, TypeOK
<1>5. ASSUME NEW u \in Turns, u # t, pc[u] = "turn" PROVE OwnsKey(u)'
  <2>1. OwnsKey(u) /\ u # None
    BY <1>5 DEF IInv, TurnsOwnKeys, SessionLockAssumption
  <2>2. key'[conv[u]] = key[conv[u]] /\ keyTtl'[conv[u]] = keyTtl[conv[u]]
    BY <1>5, <2>1, OthersKeepTheirKeys DEF OwnsKey, IInv, TypeOK, KeysTyped
  <2> QED BY <1>4, <1>5, <2>1, <2>2 DEF OwnsKey
<1>6. TurnsOwnKeys'
  <2>1. pc'[t] = where /\ renewing'[t] = "off"
    BY DEF IInv, TypeOK
  <2> QED BY <1>4, <1>5, <2>1 DEF IInv, TurnsOwnKeys
<1> QED BY <1>2, <1>3, <1>6 DEF IInv

LEMMA ArriveSends ==
    ASSUME IInv, NEW t \in Turns, NEW c \in Conversations, Arrive(t, c)
    PROVE  /\ pc[t] = "idle" /\ pc' = [pc EXCEPT ![t] = "setSent"]
           /\ conv' = [conv EXCEPT ![t] = c]
           /\ UNCHANGED <<backend, leases, renewal, cooldown, faults, crashes>>
<1>1. ShouldTryRedis(Home[t])
  BY SessionLockAssumption DEF IInv, NothingIsLocal, ShouldTryRedis, SessionLockAssumption
<1> QED BY <1>1 DEF Arrive, leases, renewal

LEMMA ArriveKeepsIInv ==
    ASSUME IInv, NEW t \in Turns, NEW c \in Conversations, Arrive(t, c)
    PROVE  IInv'
<1>1. renewing[t] = "off" /\ renewing' = renewing
  BY ArriveSends DEF IInv, TurnsOwnKeys, renewal
<1>2. renewing' = [renewing EXCEPT ![t] = "off"] /\ faults' \in 0 .. MaxFaults
  BY <1>1, ArriveSends DEF IInv, TypeOK
<1>3. conv'[t] \in Conversations
  BY ArriveSends DEF IInv, TypeOK
<1> QED BY <1>2, <1>3, ArriveSends, TurnMoves, SessionLockAssumption DEF PC, leases, renewal

(* The call that takes the key starts the turn: nobody else runs there. *)
LEMMA FreeKeyMeansNobodyRuns ==
    ASSUME IInv, SessionLockAssumption, NEW c \in Conversations, key[c] = None, NEW u \in Turns,
           pc[u] = "turn"
    PROVE  conv[u] # c
BY DEF IInv, TurnsOwnKeys, OwnsKey, SessionLockAssumption

LEMMA StartKeepsIInv ==
    ASSUME IInv, SessionLockAssumption, NEW t \in Turns, SetAnswered(t), key[conv[t]] = None
    PROVE  IInv'
<1>1. /\ pc[t] = "setSent" /\ pc' = [pc EXCEPT ![t] = "turn"]
      /\ backend' = [backend EXCEPT ![t] = "redis"]
      /\ renewing' = [renewing EXCEPT ![t] = "sleep"]
      /\ renewIn' = [renewIn EXCEPT ![t] = RenewInterval]
      /\ key' = [key EXCEPT ![conv[t]] = t] /\ keyTtl' = [keyTtl EXCEPT ![conv[t]] = TTL]
      /\ UNCHANGED <<conv, local, localTtl, cooldown, faults, crashes>>
  BY DEF SetAnswered, SetNX, StartRenewal
<1>2. conv[t] \in Conversations
  BY <1>1 DEF IInv, TurnsOwnKeys
<1>3. TypeOK'
  <2>1. TTL \in 0 .. TTL /\ RenewInterval \in 0 .. RenewInterval
    BY DEF SessionLockAssumption
  <2> QED BY <1>1, <1>2, <2>1 DEF IInv, TypeOK, PC
<1>4. NothingIsLocal'
  BY <1>1 DEF IInv, NothingIsLocal, TypeOK
<1>5. pc'[t] = "turn" /\ OwnsKey(t)'
  BY <1>1, <1>2 DEF IInv, TypeOK, OwnsKey, SessionLockAssumption
<1>6. ASSUME NEW u \in Turns, u # t
      PROVE  /\ pc'[u] = pc[u] /\ conv'[u] = conv[u] /\ renewing'[u] = renewing[u]
             /\ renewIn'[u] = renewIn[u]
             /\ pc[u] = "turn" => OwnsKey(u)'
  <2>1. pc'[u] = pc[u] /\ conv'[u] = conv[u] /\ renewing'[u] = renewing[u] /\ renewIn'[u] = renewIn[u]
    BY <1>1, <1>6 DEF IInv, TypeOK
  <2>2. ASSUME pc[u] = "turn" PROVE OwnsKey(u)'
    <3>1. conv[u] # conv[t] /\ OwnsKey(u)
      BY <1>2, <2>2, FreeKeyMeansNobodyRuns DEF IInv, TurnsOwnKeys
    <3> QED BY <1>1, <1>2, <2>1, <3>1 DEF OwnsKey, IInv, TypeOK
  <2> QED BY <2>1, <2>2
<1>7. TurnsOwnKeys'
  BY <1>1, <1>2, <1>5, <1>6 DEF IInv, TurnsOwnKeys
<1> QED BY <1>3, <1>4, <1>7 DEF IInv

LEMMA SetKeepsIInv == ASSUME IInv, SessionLockAssumption, NEW t \in Turns, SetAnswered(t) PROVE IInv'
<1>1. CASE key[conv[t]] # None
  <2>1. /\ pc[t] = "setSent" /\ pc' = [pc EXCEPT ![t] = "getSent"]
        /\ UNCHANGED <<conv, key, keyTtl, backend, renewing, renewIn, local, localTtl, cooldown,
                       faults, crashes>>
    BY <1>1 DEF SetAnswered, SetNX
  <2>2. conv[t] \in Conversations /\ renewing[t] = "off"
    BY <2>1 DEF IInv, TurnsOwnKeys
  <2>3. renewing' = [renewing EXCEPT ![t] = "off"] /\ faults' \in 0 .. MaxFaults
    BY <2>1, <2>2 DEF IInv, TypeOK
  <2> QED BY <2>1, <2>2, <2>3, TurnMoves DEF PC
<1> QED BY <1>1, StartKeepsIInv

(* The calls that end an acquire without a lease, or a turn *)
LEMMA EndKeepsIInv ==
    ASSUME IInv, SessionLockAssumption, Dependable, NEW t \in Turns,
           \/ GetAnswered(t) \/ AcquireFails(t) \/ EndTurn(t)
           \/ ReleaseAnswered(t) \/ ReleaseFails(t) \/ Disconnect(t)
    PROVE  /\ IInv'
           /\ conv' = conv
           /\ \E where \in PC \ {"turn"} : pc' = [pc EXCEPT ![t] = where]
<1>1. /\ conv' = conv
      /\ UNCHANGED <<backend, local, localTtl, renewIn, cooldown, crashes>>
      /\ faults' \in 0 .. MaxFaults
  <2>1. CASE GetAnswered(t) \/ ReleaseAnswered(t) \/ Disconnect(t)
    BY <2>1 DEF GetAnswered, ReleaseAnswered, Disconnect, leases, renewal, IInv, TypeOK
  <2>2. CASE ReleaseFails(t) \/ AcquireFails(t)
    BY <2>2 DEF ReleaseFails, AcquireFails, Fault, Dependable, renewal, IInv, TypeOK,
                SessionLockAssumption
  <2>3. CASE EndTurn(t)
    BY <2>3 DEF EndTurn, StopRenewing, IInv, NothingIsLocal, TypeOK
  <2> QED BY <2>1, <2>2, <2>3
<1>2. \E where \in {"idle", "releaseSent"} :
         pc' = [pc EXCEPT ![t] = where] /\ (where = "idle" \/ EndTurn(t))
  BY DEF GetAnswered, AcquireFails, EndTurn, ReleaseAnswered, ReleaseFails, Disconnect, Dependable
<1>3. pc[t] # "idle" /\ conv[t] \in Conversations
  <2>1. pc[t] \in {"getSent", "setSent", "turn", "releaseSent"}
    BY DEF GetAnswered, AcquireFails, EndTurn, ReleaseAnswered, ReleaseFails, Disconnect
  <2> QED BY <2>1 DEF IInv, TurnsOwnKeys
<1>4. renewing' = [renewing EXCEPT ![t] = "off"]
  <2>1. CASE EndTurn(t)
    BY <2>1 DEF EndTurn, StopRenewing
  <2>2. CASE ~EndTurn(t)
    <3>1. renewing' = renewing /\ pc[t] # "turn"
      BY <2>2 DEF GetAnswered, AcquireFails, ReleaseAnswered, ReleaseFails, Disconnect, Dependable,
                  renewal
    <3>2. renewing[t] = "off"
      BY <3>1 DEF IInv, TurnsOwnKeys
    <3> QED BY <3>1, <3>2 DEF IInv, TypeOK
  <2> QED BY <2>1, <2>2
<1>5. UNCHANGED <<key, keyTtl>> \/ SetNX(t) \/ DeleteIfOwner(t)
  BY DEF GetAnswered, AcquireFails, EndTurn, ReleaseAnswered, ReleaseFails, Disconnect, leases
<1>6. PICK where \in {"idle", "releaseSent"} : pc' = [pc EXCEPT ![t] = where]
  BY <1>2
<1>7. where \in PC \ {"turn"} /\ conv'[t] \in Conversations
  BY <1>1, <1>3 DEF PC
<1>8. IInv'
  BY <1>1, <1>3, <1>4, <1>5, <1>6, <1>7, TurnMoves
<1> QED BY <1>1, <1>6, <1>7, <1>8

(* A renewal sends its call in time, and the answer gives the key a whole TTL. *)
LEMMA RenewKeepsIInv ==
    ASSUME IInv, SessionLockAssumption, NEW t \in Turns, Renew(t) \/ RenewAnswered(t)
    PROVE  IInv' /\ UNCHANGED <<pc, conv>>
<1>1. pc[t] = "turn" /\ OwnsKey(t) /\ backend[t] = "redis"
  BY DEF IInv, TurnsOwnKeys, Renew, RenewDue, RenewAnswered, NothingIsLocal
<1>2. UNCHANGED <<pc, conv, backend, key, local, cooldown, faults, crashes, localTtl>>
  BY <1>1 DEF Renew, RenewAnswered
<1>3. \/ /\ renewing' = [renewing EXCEPT ![t] = "sent"]
         /\ UNCHANGED <<keyTtl, renewIn>>
      \/ /\ renewing' = [renewing EXCEPT ![t] = "sleep"]
         /\ keyTtl' = [keyTtl EXCEPT ![conv[t]] = TTL]
         /\ renewIn' = [renewIn EXCEPT ![t] = RenewInterval]
  BY <1>1 DEF Renew, RenewAnswered, ExtendIfOwner, StartRenewal, OwnsKey
<1>4. TypeOK'
  <2>1. TTL \in 0 .. TTL /\ RenewInterval \in 0 .. RenewInterval
    BY DEF SessionLockAssumption
  <2>2. /\ renewing' \in [Turns -> {"off", "sleep", "sent"}]
        /\ renewIn' \in [Turns -> 0 .. RenewInterval]
        /\ keyTtl' \in [Conversations -> 0 .. TTL]
    <3>1. CASE renewing' = [renewing EXCEPT ![t] = "sent"] /\ UNCHANGED <<keyTtl, renewIn>>
      BY <3>1 DEF IInv, TypeOK
    <3>2. CASE /\ renewing' = [renewing EXCEPT ![t] = "sleep"]
               /\ keyTtl' = [keyTtl EXCEPT ![conv[t]] = TTL]
               /\ renewIn' = [renewIn EXCEPT ![t] = RenewInterval]
      BY <2>1, <3>2 DEF IInv, TypeOK
    <3> QED BY <1>3, <3>1, <3>2
  <2> QED BY <1>2, <2>2 DEF IInv, TypeOK
<1>5. OwnsKey(t)'
  BY <1>1, <1>2, <1>3 DEF OwnsKey, IInv, TypeOK, SessionLockAssumption
<1>6. ASSUME NEW u \in Turns, u # t
      PROVE  renewing'[u] = renewing[u] /\ (pc[u] = "turn" => OwnsKey(u)')
  <2>1. renewing'[u] = renewing[u] /\ renewIn'[u] = renewIn[u]
    BY <1>3, <1>6 DEF IInv, TypeOK
  <2>2. ASSUME pc[u] = "turn" PROVE OwnsKey(u) /\ conv[u] # conv[t]
    BY <1>1, <1>6, <2>2 DEF IInv, TurnsOwnKeys, OwnsKey
  <2>3. ASSUME pc[u] = "turn" PROVE keyTtl'[conv[u]] = keyTtl[conv[u]]
    BY <1>1, <1>3, <2>2, <2>3 DEF IInv, TypeOK, OwnsKey
  <2> QED BY <1>2, <2>1, <2>2, <2>3 DEF OwnsKey
<1>7. TurnsOwnKeys'
  BY <1>1, <1>2, <1>5, <1>6 DEF IInv, TurnsOwnKeys
<1> QED BY <1>2, <1>4, <1>7 DEF IInv, NothingIsLocal

LEMMA CrashKeepsIInv == ASSUME IInv, SessionLockAssumption, NEW p \in Processes, Crash(p) PROVE IInv'
<1>1. TypeOK'
  <2>1. pc' \in [Turns -> PC] /\ renewing' \in [Turns -> {"off", "sleep", "sent"}]
    BY DEF IInv, TypeOK, Crash, PC
  <2>2. local' \in [Processes -> [Conversations -> Turns \union {None}]]
    BY DEF IInv, TypeOK, Crash
  <2>3. cooldown' \in [Processes -> 0 .. Cooldown] /\ crashes' \in 0 .. MaxCrashes
    BY DEF IInv, TypeOK, Crash, SessionLockAssumption
  <2>4. UNCHANGED <<conv, backend, key, keyTtl, localTtl, renewIn, faults>>
    BY DEF Crash
  <2>5. /\ conv' \in [Turns -> Conversations \union {None}]
        /\ backend' \in [Turns -> {"redis", "local"}]
        /\ key' \in [Conversations -> Turns \union {None}]
        /\ keyTtl' \in [Conversations -> 0 .. TTL]
    BY <2>4 DEF IInv, TypeOK
  <2>6. /\ localTtl' \in [Processes -> [Conversations -> 0 .. TTL]]
        /\ renewIn' \in [Turns -> 0 .. RenewInterval]
        /\ faults' \in 0 .. MaxFaults
    BY <2>4 DEF IInv, TypeOK
  <2> QED BY <2>1, <2>2, <2>3, <2>5, <2>6 DEF TypeOK
<1>2. NothingIsLocal'
  BY DEF IInv, TypeOK, NothingIsLocal, Crash
<1>3. TurnsOwnKeys'
  BY DEF IInv, TypeOK, TurnsOwnKeys, OwnsKey, Crash
<1> QED BY <1>1, <1>2, <1>3 DEF IInv

(* No key expires under a running turn, because its renewal comes first. *)
LEMMA TickKeepsIInv == ASSUME IInv, SessionLockAssumption, Dependable, Tick PROVE IInv'
<1>1. TypeOK'
  BY DEF IInv, TypeOK, Tick, Less, SessionLockAssumption
<1>2. NothingIsLocal'
  BY DEF IInv, NothingIsLocal, Tick, Less
<1>3. ASSUME NEW t \in Turns, pc[t] = "turn" PROVE OwnsKey(t)'
  <2>1. OwnsKey(t) /\ renewing[t] = "sleep" /\ renewIn[t] \in Nat /\ renewIn[t] # 0
    BY <1>3 DEF IInv, TypeOK, TurnsOwnKeys, OwnsKey, Tick, CallPending, RenewDue, Dependable
  <2>2. keyTtl[conv[t]] > 1 /\ keyTtl[conv[t]] \in Nat
    BY <2>1 DEF OwnsKey, SessionLockAssumption
  <2>3. key'[conv[t]] = t /\ keyTtl'[conv[t]] = keyTtl[conv[t]] - 1
    BY <2>1, <2>2 DEF OwnsKey, Tick, Less
  <2>4. renewIn'[t] = renewIn[t] - 1
    BY <2>1 DEF Tick, Less
  <2> QED BY <2>1, <2>3, <2>4 DEF OwnsKey, Tick, SessionLockAssumption
<1>4. TurnsOwnKeys'
  BY <1>3 DEF IInv, TurnsOwnKeys, Tick
<1> QED BY <1>1, <1>2, <1>4 DEF IInv

LEMMA NoRenewalFails == ASSUME Dependable, NEW t PROVE ~RenewFails(t)
BY DEF Dependable, RenewFails, Fault

LEMMA InitIInv == ASSUME Init, SessionLockAssumption PROVE IInv
BY DEF Init, SessionLockAssumption, IInv, TypeOK, PC, NothingIsLocal, TurnsOwnKeys

LEMMA StepKeepsIInv ==
    ASSUME IInv, SessionLockAssumption, Dependable, [Next]_vars
    PROVE  IInv'
<1>1. CASE UNCHANGED vars
  BY <1>1 DEF vars, IInv, TypeOK, NothingIsLocal, TurnsOwnKeys, OwnsKey
<1>2. CASE Next
  BY <1>2, ArriveKeepsIInv, SetKeepsIInv, EndKeepsIInv, RenewKeepsIInv, NoRenewalFails,
     CrashKeepsIInv, TickKeepsIInv DEF Next, Answered, Failed
<1> QED BY <1>1, <1>2

-----------------------------------------------------------------------------
(* A running turn holds the key of its conversation with enough time left, for  *)
(* as many turns and processes as there are.                                  *)
THEOREM TurnsHoldTheirKeys ==
    ASSUME Dependable
    PROVE  Spec => []IInv
<1>1. Init => IInv
  BY InitIInv, SessionLockAssumption
<1>2. IInv /\ [Next]_vars => IInv'
  BY StepKeepsIInv, SessionLockAssumption
<1> QED BY <1>1, <1>2, PTL DEF Spec

(* Over all processes a conversation runs one turn at a time, though processes *)
(* crash, clients disconnect and calls other than renewals fail with or without *)
(* effect: the Redis lock implements ConversationMutex.                       *)
THEOREM OneTurnPerConversation ==
    ASSUME Dependable
    PROVE  Spec => ImplementsMutex
<1> DEFINE Running == {<<t, conv[t]>> : t \in {u \in Turns : pc[u] = "turn"}}
<1>1. Init => Mutex!Init
  BY DEF Init, Mutex!Init
<1>2. ASSUME IInv, NEW t \in Turns, NEW c \in Conversations, Arrive(t, c) PROVE Running' = Running
  <2>1. /\ pc[t] # "turn" /\ \A u \in Turns : pc'[u] = "turn" <=> pc[u] = "turn"
        /\ \A u \in Turns : u # t => conv'[u] = conv[u]
    BY <1>2, ArriveSends DEF IInv, TypeOK
  <2> QED BY <2>1
<1>3. ASSUME IInv, NEW t \in Turns, SetAnswered(t), NEW c \in Conversations, c = conv[t]
      PROVE  Running' = Running \/ Mutex!Start(t, c)
  <2>1. pc[t] = "setSent" /\ conv' = conv /\ conv[t] = c
    BY <1>3 DEF SetAnswered
  <2>2. CASE key[conv[t]] = None
    <3>1. \A u \in Turns : pc'[u] = "turn" <=> u = t \/ pc[u] = "turn"
      BY <1>3, <2>2 DEF SetAnswered, IInv, TypeOK
    <3>2. Running' = Running \union {<<t, c>>}
      BY <2>1, <3>1
    <3>3. \A r \in Running : r[1] # t /\ r[2] # c
      BY <1>3, <2>1, <2>2, FreeKeyMeansNobodyRuns, SessionLockAssumption
    <3> QED BY <3>2, <3>3 DEF Mutex!Start
  <2>3. CASE key[conv[t]] # None
    <3>1. \A u \in Turns : pc'[u] = "turn" <=> pc[u] = "turn"
      BY <1>3, <2>1, <2>3 DEF SetAnswered, IInv, TypeOK
    <3> QED BY <2>1, <3>1
  <2> QED BY <2>2, <2>3
<1>4. ASSUME IInv, Dependable, NEW t \in Turns,
             \/ GetAnswered(t) \/ AcquireFails(t) \/ EndTurn(t)
             \/ ReleaseAnswered(t) \/ ReleaseFails(t) \/ Disconnect(t)
      PROVE  Running' = Running \/ \E r \in Running : Mutex!Stop(r)
  <2>1. conv' = conv /\ \A u \in Turns : pc'[u] = "turn" <=> u # t /\ pc[u] = "turn"
    BY <1>4, EndKeepsIInv, SessionLockAssumption DEF IInv, TypeOK
  <2>2. CASE pc[t] = "turn"
    <3>1. Running' = Running \ {<<t, conv[t]>>} /\ <<t, conv[t]>> \in Running
      BY <2>1, <2>2
    <3> QED BY <3>1 DEF Mutex!Stop
  <2>3. CASE pc[t] # "turn"
    BY <2>1, <2>3
  <2> QED BY <2>2, <2>3
<1>5. ASSUME IInv, NEW t \in Turns, Renew(t) \/ RenewAnswered(t) PROVE Running' = Running
  BY <1>5, RenewKeepsIInv, SessionLockAssumption
<1>6. ASSUME IInv, NEW p \in Processes, Crash(p) PROVE \E dead \in SUBSET Turns : Mutex!StopAll(dead)
  <2> DEFINE dead == {t \in Turns : Home[t] = p}
  <2>1. conv' = conv /\ \A u \in Turns : pc'[u] = "turn" <=> u \notin dead /\ pc[u] = "turn"
    BY <1>6 DEF Crash
  <2>2. Running' = {r \in Running : r[1] \notin dead}
    BY <2>1
  <2> QED BY <2>2 DEF Mutex!StopAll
<1>7. ASSUME Tick \/ UNCHANGED vars PROVE Running' = Running
  BY <1>7 DEF Tick, vars
<1>8. IInv /\ [Next]_vars => [Mutex!Next]_Running
  <2> SUFFICES ASSUME IInv, [Next]_vars PROVE [Mutex!Next]_Running
    OBVIOUS
  <2>1. CASE Tick \/ UNCHANGED vars
    BY <1>7, <2>1
  <2>2. CASE \E t \in Turns, c \in Conversations : Arrive(t, c)
    BY <1>2, <2>2
  <2>3. CASE \E t \in Turns : SetAnswered(t)
    <3>1. PICK t \in Turns : SetAnswered(t)
      BY <2>3
    <3>2. PICK c \in Conversations : c = conv[t]
      BY <3>1 DEF SetAnswered, IInv, TurnsOwnKeys
    <3>3. Running' = Running \/ Mutex!Start(t, c)
      BY <1>3, <3>1, <3>2
    <3> QED BY <3>3 DEF Mutex!Next
  <2>4. CASE \E t \in Turns : \/ GetAnswered(t) \/ AcquireFails(t) \/ EndTurn(t)
                             \/ ReleaseAnswered(t) \/ ReleaseFails(t) \/ Disconnect(t)
    <3>1. Running' = Running \/ \E r \in Running : Mutex!Stop(r)
      BY <1>4, <2>4
    <3> QED BY <3>1 DEF Mutex!Next
  <2>5. CASE \E t \in Turns : Renew(t) \/ RenewAnswered(t)
    BY <1>5, <2>5
  <2>6. CASE \E p \in Processes : Crash(p)
    <3>1. \E dead \in SUBSET Turns : Mutex!StopAll(dead)
      BY <1>6, <2>6
    <3> HIDE DEF Running
    <3> QED BY <3>1 DEF Mutex!Next
  <2> QED BY <2>1, <2>2, <2>3, <2>4, <2>5, <2>6, NoRenewalFails DEF Next, Answered, Failed
<1> QED BY <1>1, <1>8, TurnsHoldTheirKeys, PTL DEF Spec, ImplementsMutex, Mutex!Spec

-----------------------------------------------------------------------------
(* Whatever fails, degrades, crashes or comes late *)

ConvTyped == \A t \in Turns : pc[t] # "idle" => conv[t] \in Conversations
TypeInv == TypeOK /\ ConvTyped

LEMMA TtlsFit ==
    ASSUME SessionLockAssumption
    PROVE  TTL \in 0 .. TTL /\ RenewInterval \in 0 .. RenewInterval /\ 0 \in 0 .. TTL
           /\ Cooldown \in 0 .. Cooldown /\ 0 \in 0 .. Cooldown
BY DEF SessionLockAssumption

LEMMA LocalAcquireIsTyped ==
    ASSUME TypeOK, SessionLockAssumption, NEW t \in Turns, NEW c \in Conversations,
           LocalAcquire(t, c)
    PROVE  /\ local' \in [Processes -> [Conversations -> Turns \union {None}]]
           /\ localTtl' \in [Processes -> [Conversations -> 0 .. TTL]]
           /\ \E where \in PC : pc' = [pc EXCEPT ![t] = where]
           /\ backend' \in [Turns -> {"redis", "local"}]
           /\ renewing' \in [Turns -> {"off", "sleep", "sent"}]
           /\ renewIn' \in [Turns -> 0 .. RenewInterval]
<1>1. Home[t] \in Processes
  BY DEF SessionLockAssumption
<1>2. CASE UNCHANGED <<local, localTtl, backend, renewing, renewIn>> /\ pc' = [pc EXCEPT ![t] = "idle"]
  BY <1>2 DEF TypeOK, PC
<1>3. CASE /\ local' = [local EXCEPT ![Home[t]][c] = t]
           /\ localTtl' = [localTtl EXCEPT ![Home[t]][c] = TTL]
           /\ pc' = [pc EXCEPT ![t] = "turn"]
           /\ backend' = [backend EXCEPT ![t] = "local"]
           /\ StartRenewal(t)
  BY <1>1, <1>3, TtlsFit DEF TypeOK, PC, StartRenewal
<1> QED BY <1>2, <1>3 DEF LocalAcquire

(* What a step of one turn does to what it does not keep typed by itself *)
LEMMA TurnIsTyped ==
    ASSUME TypeInv, SessionLockAssumption, NEW t \in Turns, NEW where \in PC,
           pc' = [pc EXCEPT ![t] = where], conv' = conv, pc[t] # "idle",
           KeysTyped',
           local' \in [Processes -> [Conversations -> Turns \union {None}]],
           localTtl' \in [Processes -> [Conversations -> 0 .. TTL]],
           backend' \in [Turns -> {"redis", "local"}],
           renewing' \in [Turns -> {"off", "sleep", "sent"}],
           renewIn' \in [Turns -> 0 .. RenewInterval],
           cooldown' \in [Processes -> 0 .. Cooldown],
           faults' \in 0 .. MaxFaults, crashes' = crashes
    PROVE  TypeInv'
BY DEF TypeInv, TypeOK, ConvTyped, KeysTyped

LEMMA ArriveIsTyped ==
    ASSUME TypeInv, SessionLockAssumption, NEW t \in Turns, NEW c \in Conversations, Arrive(t, c)
    PROVE  TypeInv'
<1>1. /\ local' \in [Processes -> [Conversations -> Turns \union {None}]]
      /\ localTtl' \in [Processes -> [Conversations -> 0 .. TTL]]
      /\ \E where \in PC : pc' = [pc EXCEPT ![t] = where]
      /\ backend' \in [Turns -> {"redis", "local"}]
      /\ renewing' \in [Turns -> {"off", "sleep", "sent"}]
      /\ renewIn' \in [Turns -> 0 .. RenewInterval]
  <2>1. CASE LocalAcquire(t, c)
    BY <2>1, LocalAcquireIsTyped DEF TypeInv
  <2>2. CASE pc' = [pc EXCEPT ![t] = "setSent"]
             /\ UNCHANGED <<backend, local, localTtl, renewing, renewIn>>
    BY <2>2 DEF TypeInv, TypeOK, PC
  <2> QED BY <2>1, <2>2 DEF Arrive
<1>2. conv' = [conv EXCEPT ![t] = c] /\ UNCHANGED <<key, keyTtl, cooldown, faults, crashes>>
  BY DEF Arrive
<1>3. TypeOK'
  BY <1>1, <1>2 DEF TypeInv, TypeOK
<1>4. ConvTyped'
  BY <1>1, <1>2 DEF TypeInv, TypeOK, ConvTyped
<1> QED BY <1>3, <1>4 DEF TypeInv

LEMMA CallIsTyped ==
    ASSUME TypeInv, SessionLockAssumption, NEW t \in Turns,
           \/ SetAnswered(t) \/ GetAnswered(t) \/ EndTurn(t) \/ Disconnect(t)
           \/ ReleaseAnswered(t) \/ ReleaseFails(t) \/ AcquireFails(t)
    PROVE  TypeInv'
<1>1. pc[t] # "idle" /\ conv[t] \in Conversations /\ conv' = conv /\ crashes' = crashes
  <2>1. pc[t] \in {"setSent", "getSent", "turn", "releaseSent"} /\ conv' = conv /\ crashes' = crashes
    BY DEF SetAnswered, GetAnswered, EndTurn, Disconnect, ReleaseAnswered, ReleaseFails, AcquireFails
  <2> QED BY <2>1 DEF TypeInv, ConvTyped
<1>2. KeysTyped'
  <2>1. KeysTyped
    BY DEF TypeInv, TypeOK, KeysTyped
  <2>2. SetNX(t) \/ DeleteIfOwner(t) \/ UNCHANGED <<key, keyTtl>>
    BY DEF SetAnswered, GetAnswered, EndTurn, Disconnect, ReleaseAnswered, ReleaseFails,
           AcquireFails, leases
  <2>3. CASE UNCHANGED <<key, keyTtl>>
    BY <2>1, <2>3 DEF KeysTyped
  <2> QED BY <1>1, <2>1, <2>2, <2>3, CommandsAreTyped
<1>3. faults' \in 0 .. MaxFaults
  <2>1. faults' = faults \/ (faults < MaxFaults /\ faults' = faults + 1)
    BY DEF SetAnswered, GetAnswered, EndTurn, Disconnect, ReleaseAnswered, ReleaseFails,
           AcquireFails, Fault
  <2> QED BY <2>1 DEF TypeInv, TypeOK, SessionLockAssumption
<1>4. CASE AcquireFails(t)
  <2>1. CASE LocalAcquire(t, conv[t]) /\ cooldown' = [cooldown EXCEPT ![Home[t]] = Cooldown]
    <3>1. cooldown' \in [Processes -> 0 .. Cooldown]
      BY <2>1, TtlsFit DEF TypeInv, TypeOK
    <3> QED BY <1>1, <1>2, <1>3, <2>1, <3>1, LocalAcquireIsTyped, TurnIsTyped DEF TypeInv
  <2>2. CASE pc' = [pc EXCEPT ![t] = "idle"]
             /\ UNCHANGED <<backend, local, localTtl, renewal, cooldown>>
    BY <1>1, <1>2, <1>3, <2>2, TurnIsTyped DEF TypeInv, TypeOK, PC, renewal
  <2> QED BY <1>4, <2>1, <2>2 DEF AcquireFails
<1>5. CASE SetAnswered(t)
  <2>1. UNCHANGED <<local, localTtl, cooldown>>
    BY <1>5 DEF SetAnswered
  <2>2. CASE pc' = [pc EXCEPT ![t] = "turn"] /\ backend' = [backend EXCEPT ![t] = "redis"]
             /\ StartRenewal(t)
    <3>1. /\ backend' \in [Turns -> {"redis", "local"}]
          /\ renewing' \in [Turns -> {"off", "sleep", "sent"}]
          /\ renewIn' \in [Turns -> 0 .. RenewInterval]
      BY <2>2, TtlsFit DEF StartRenewal, TypeInv, TypeOK
    <3> QED BY <1>1, <1>2, <1>3, <2>1, <2>2, <3>1, TurnIsTyped DEF TypeInv, TypeOK, PC
  <2>3. CASE pc' = [pc EXCEPT ![t] = "getSent"] /\ UNCHANGED <<backend, renewing, renewIn>>
    BY <1>1, <1>2, <1>3, <2>1, <2>3, TurnIsTyped DEF TypeInv, TypeOK, PC
  <2> QED BY <1>5, <2>2, <2>3 DEF SetAnswered
<1>6. CASE GetAnswered(t) \/ Disconnect(t) \/ ReleaseAnswered(t) \/ ReleaseFails(t)
  <2>1. pc' = [pc EXCEPT ![t] = "idle"] /\ UNCHANGED <<backend, local, localTtl, renewal, cooldown>>
    BY <1>6 DEF GetAnswered, Disconnect, ReleaseAnswered, ReleaseFails, leases
  <2> QED BY <1>1, <1>2, <1>3, <2>1, TurnIsTyped DEF TypeInv, TypeOK, PC, renewal
<1>7. CASE EndTurn(t)
  <2>1. PICK where \in {"releaseSent", "idle"} : pc' = [pc EXCEPT ![t] = where]
    BY <1>7 DEF EndTurn
  <2>2. /\ renewing' \in [Turns -> {"off", "sleep", "sent"}]
        /\ UNCHANGED <<renewIn, backend, localTtl, cooldown>>
    BY <1>7 DEF EndTurn, StopRenewing, TypeInv, TypeOK
  <2>3. local' \in [Processes -> [Conversations -> Turns \union {None}]]
    <3>1. local' = local \/ local' = [local EXCEPT ![Home[t]][conv[t]] = None]
      BY <1>7 DEF EndTurn
    <3>2. Home[t] \in Processes /\ local \in [Processes -> [Conversations -> Turns \union {None}]]
      BY DEF SessionLockAssumption, TypeInv, TypeOK
    <3>3. CASE local' = local
      BY <3>2, <3>3
    <3>4. CASE local' = [local EXCEPT ![Home[t]][conv[t]] = None]
      BY <1>1, <3>2, <3>4
    <3> QED BY <3>1, <3>3, <3>4
  <2> QED BY <1>1, <1>2, <1>3, <2>1, <2>2, <2>3, TurnIsTyped DEF TypeInv, TypeOK, PC
<1> QED BY <1>4, <1>5, <1>6, <1>7

LEMMA RenewalIsTyped ==
    ASSUME TypeInv, SessionLockAssumption, NEW t \in Turns,
           Renew(t) \/ RenewAnswered(t) \/ RenewFails(t)
    PROVE  TypeInv' /\ UNCHANGED <<pc, conv, key>>
<1>1. UNCHANGED <<pc, conv, backend, key, local, cooldown, crashes>>
  BY DEF Renew, RenewAnswered, RenewFails
<1>2. keyTtl' \in [Conversations -> 0 .. TTL]
  <2>1. keyTtl' = keyTtl \/ keyTtl' = [keyTtl EXCEPT ![conv[t]] = TTL]
    BY DEF Renew, RenewAnswered, RenewFails, ExtendIfOwner
  <2> QED BY <2>1, TtlsFit DEF TypeInv, TypeOK
<1>3. renewing' \in [Turns -> {"off", "sleep", "sent"}] /\ renewIn' \in [Turns -> 0 .. RenewInterval]
  <2>1. \/ StartRenewal(t) \/ StopRenewing(t)
        \/ renewing' = [renewing EXCEPT ![t] = "sent"] /\ UNCHANGED renewIn
    BY DEF Renew, RenewAnswered, RenewFails
  <2>2. CASE StartRenewal(t)
    BY <2>2, TtlsFit DEF StartRenewal, TypeInv, TypeOK
  <2>3. CASE StopRenewing(t)
    BY <2>3 DEF StopRenewing, TypeInv, TypeOK
  <2>4. CASE renewing' = [renewing EXCEPT ![t] = "sent"] /\ UNCHANGED renewIn
    BY <2>4 DEF TypeInv, TypeOK
  <2> QED BY <2>1, <2>2, <2>3, <2>4
<1>4. localTtl' \in [Processes -> [Conversations -> 0 .. TTL]]
  <2>1. localTtl' = localTtl \/ localTtl' = [localTtl EXCEPT ![Home[t]][conv[t]] = TTL]
    BY DEF Renew, RenewAnswered, RenewFails
  <2>2. CASE localTtl' = [localTtl EXCEPT ![Home[t]][conv[t]] = TTL] /\ conv[t] \in Conversations
    <3>1. Home[t] \in Processes
      BY DEF SessionLockAssumption
    <3> QED BY <2>2, <3>1, TtlsFit DEF TypeInv, TypeOK
  <2>3. CASE localTtl' = [localTtl EXCEPT ![Home[t]][conv[t]] = TTL] /\ conv[t] \notin Conversations
    <3>1. \A p \in Processes : [localTtl[p] EXCEPT ![conv[t]] = TTL] = localTtl[p]
      BY <2>3 DEF TypeInv, TypeOK
    <3> QED BY <2>3, <3>1 DEF TypeInv, TypeOK
  <2> QED BY <2>1, <2>2, <2>3 DEF TypeInv, TypeOK
<1>5. faults' \in 0 .. MaxFaults
  <2>1. faults' = faults \/ (faults < MaxFaults /\ faults' = faults + 1)
    BY DEF Renew, RenewAnswered, RenewFails, Fault
  <2> QED BY <2>1 DEF TypeInv, TypeOK, SessionLockAssumption
<1> QED BY <1>1, <1>2, <1>3, <1>4, <1>5 DEF TypeInv, TypeOK, ConvTyped

LEMMA EnvironmentIsTyped ==
    ASSUME TypeInv, SessionLockAssumption, Tick \/ \E p \in Processes : Crash(p)
    PROVE  TypeInv'
<1>1. CASE Tick
  BY <1>1 DEF TypeInv, TypeOK, ConvTyped, Tick, Less, SessionLockAssumption
<1>2. ASSUME NEW p \in Processes, Crash(p) PROVE TypeInv'
  <2>1. pc' \in [Turns -> PC] /\ renewing' \in [Turns -> {"off", "sleep", "sent"}]
    BY <1>2 DEF TypeInv, TypeOK, Crash, PC
  <2>2. local' \in [Processes -> [Conversations -> Turns \union {None}]]
    BY <1>2 DEF TypeInv, TypeOK, Crash
  <2>3. cooldown' \in [Processes -> 0 .. Cooldown] /\ crashes' \in 0 .. MaxCrashes
    BY <1>2, TtlsFit DEF TypeInv, TypeOK, Crash, SessionLockAssumption
  <2>4. ConvTyped'
    BY <1>2 DEF TypeInv, ConvTyped, Crash
  <2> QED BY <1>2, <2>1, <2>2, <2>3, <2>4 DEF TypeInv, TypeOK, Crash
<1> QED BY <1>1, <1>2

(* Type correctness of the facades, the tables and Redis, whatever fails *)
THEOREM TypeCorrect == Spec => []TypeInv
<1>1. Init => TypeInv
  BY SessionLockAssumption DEF Init, SessionLockAssumption, TypeInv, TypeOK, ConvTyped, PC
<1>2. TypeInv /\ [Next]_vars => TypeInv'
  <2> SUFFICES ASSUME TypeInv, [Next]_vars PROVE TypeInv'
    OBVIOUS
  <2>1. CASE UNCHANGED vars
    BY <2>1 DEF vars, TypeInv, TypeOK, ConvTyped
  <2>2. CASE Next
    BY <2>2, SessionLockAssumption, ArriveIsTyped, CallIsTyped, RenewalIsTyped, EnvironmentIsTyped
       DEF Next, Answered, Failed
  <2> QED BY <2>1, <2>2
<1> QED BY <1>1, <1>2, PTL DEF Spec

(* A late release or renewal of another owner, an answer lost, a crash or a      *)
(* degradation takes no key from a running turn: only its own expiry does.      *)
THEOREM RunningTurnsKeepTheirKeys == Spec => RunningTurnKeepsItsKey
<1>1. TypeInv /\ [Next]_vars =>
         \A c \in Conversations, t \in Turns :
           key[c] = t /\ pc[t] = "turn" /\ key'[c] # t => keyTtl[c] <= 1 /\ key'[c] = None
  <2> SUFFICES ASSUME TypeInv, [Next]_vars, NEW c \in Conversations, NEW t \in Turns,
                      key[c] = t, pc[t] = "turn", key'[c] # t
               PROVE  keyTtl[c] <= 1 /\ key'[c] = None
    OBVIOUS
  <2>1. key' # key
    OBVIOUS
  <2>2. CASE Tick
    BY <2>2 DEF Tick, TypeInv, TypeOK
  <2>3. ASSUME NEW u \in Turns, SetNX(u) PROVE key'[c] = key[c]
    BY <2>3, SessionLockAssumption DEF SetNX, TypeInv, TypeOK, SessionLockAssumption
  <2>4. ASSUME NEW u \in Turns, DeleteIfOwner(u), pc[u] # "turn" PROVE key'[c] = key[c]
    BY <2>4 DEF DeleteIfOwner, TypeInv, TypeOK
  <2>5. ASSUME NEW u \in Turns, Answered(u) \/ Failed(u) \/ EndTurn(u) \/ Disconnect(u)
        PROVE  key' = key \/ SetNX(u) \/ (DeleteIfOwner(u) /\ pc[u] # "turn")
    BY <2>5 DEF Answered, Failed, SetAnswered, GetAnswered, Renew, RenewAnswered, ReleaseAnswered,
                AcquireFails, RenewFails, ReleaseFails, EndTurn, Disconnect, leases
  <2>6. ASSUME \/ \E u \in Turns, d \in Conversations : Arrive(u, d)
               \/ \E p \in Processes : Crash(p)
               \/ UNCHANGED vars
        PROVE  key' = key
    BY <2>6 DEF Arrive, Crash, vars
  <2> QED BY <2>1, <2>2, <2>3, <2>4, <2>5, <2>6 DEF Next
<1> QED BY <1>1, TypeCorrect, PTL DEF Spec, RunningTurnKeepsItsKey
=============================================================================
