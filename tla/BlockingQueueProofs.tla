------------------------ MODULE BlockingQueueProofs ------------------------
(***************************************************************************)
(* What TLAPS proves of BlockingQueue, for any finite set of producers,    *)
(* any values and any capacity: its types, its ring accounting, its count  *)
(* of waiters, and, for pushes that are never timed, that no producer is   *)
(* left asleep beside an empty queue.                                      *)
(***************************************************************************)
EXTENDS BlockingQueue, FiniteSetTheorems, TLAPS

-----------------------------------------------------------------------------
(* How many producers are at one of the places of S.                       *)

At(f, S) == {p \in Producers : f[p] \in S}

(* There are finitely many of them.                                        *)
LEMMA AtFinite ==
  ASSUME NEW f, NEW S
  PROVE  IsFiniteSet(At(f, S)) /\ Cardinality(At(f, S)) \in Nat
<1>1. At(f, S) \subseteq Producers
  BY DEF At
<1>2. IsFiniteSet(At(f, S))
  BY <1>1, ProducersAssumption, FS_Subset
<1>. QED
  BY <1>2, FS_CardinalityType

(* One producer more when one moves into S.                                *)
LEMMA AtEnter ==
  ASSUME NEW f \in [Producers -> Places], NEW S, NEW p \in Producers, NEW a,
         f[p] \notin S, a \in S
  PROVE  Cardinality(At([f EXCEPT ![p] = a], S)) = Cardinality(At(f, S)) + 1
<1>1. At([f EXCEPT ![p] = a], S) = At(f, S) \cup {p}
  BY DEF At
<1>2. p \notin At(f, S)
  BY DEF At
<1>. QED
  BY <1>1, <1>2, AtFinite, FS_AddElement

(* One less when one moves out of it.                                      *)
LEMMA AtLeave ==
  ASSUME NEW f \in [Producers -> Places], NEW S, NEW p \in Producers, NEW a,
         f[p] \in S, a \notin S
  PROVE  /\ Cardinality(At([f EXCEPT ![p] = a], S)) = Cardinality(At(f, S)) - 1
         /\ Cardinality(At(f, S)) > 0
<1>1. At([f EXCEPT ![p] = a], S) = At(f, S) \ {p}
  BY DEF At
<1>2. p \in At(f, S)
  BY DEF At
<1>3. Cardinality(At([f EXCEPT ![p] = a], S)) = Cardinality(At(f, S)) - 1
  BY <1>1, <1>2, AtFinite, FS_RemoveElement
<1>4. Cardinality(At(f, S)) # 0
  BY <1>2, AtFinite, FS_EmptySet
<1>. QED
  BY <1>3, <1>4, AtFinite

(* And as many when one moves within S or outside of it.                   *)
LEMMA AtStay ==
  ASSUME NEW f \in [Producers -> Places], NEW S, NEW p \in Producers, NEW a,
         f[p] \in S <=> a \in S
  PROVE  At([f EXCEPT ![p] = a], S) = At(f, S)
BY DEF At

-----------------------------------------------------------------------------
(* The inductive invariant.  TypeOK alone is not: that the two counts stay *)
(* natural numbers when they are lowered follows from what they count, and *)
(* that a stored value has its type from the call it came with.            *)

(* The state of the condition variable counts the pushes asleep and those  *)
(* about to unregister.                                                    *)
Counted == {"wait", "expiring"}

WaitersAsleep == waiters = Cardinality(At(pc, Counted))

(* A push that is under way has its arguments.                             *)
CallPresent ==
  \A p \in Producers :
    pc[p] # "idle" => call[p] \in [value : Values, timeout : Timeouts]

Inv ==
  TypeOK /\ RingInv /\ WaitersCounted /\ WaitersAsleep /\ CallPresent

(* WaitersCounted in the words of the lemmas.                              *)
LEMMA CountedAt == WaitersCounted <=> not_full_waiters = Cardinality(At(pc, Waiting))
BY DEF WaitersCounted, At

LEMMA AdvanceInSlots ==
  ASSUME NEW i \in Slots
  PROVE  Advance(i) \in Slots
BY BoundsAssumption DEF Slots, Advance

LEMMA InitInv == Init => Inv
<1>. SUFFICES ASSUME Init PROVE Inv
  OBVIOUS
<1>1. TypeOK
  BY BoundsAssumption DEF Init, TypeOK, Slots, Places, Waiting
<1>2. RingInv
  BY BoundsAssumption DEF Init, RingInv, Slot
<1>3. At(pc, Waiting) = {} /\ At(pc, Counted) = {}
  BY DEF Init, At, Waiting, Counted
<1>4. WaitersCounted /\ WaitersAsleep
  BY <1>3, FS_EmptySet, CountedAt DEF Init, WaitersAsleep
<1>5. CallPresent
  BY DEF Init, CallPresent
<1>. QED
  BY <1>1, <1>2, <1>4, <1>5 DEF Inv

(* What storing a value, or failing to, does to the ring.                  *)
LEMMA StoreRing ==
  ASSUME TypeOK, RingInv, CallPresent, NEW p \in Producers,
         pc[p] # "idle", Store(p)
  PROVE  /\ data' \in [Slots -> Values \cup {None}]
         /\ write' \in Slots /\ read' \in Slots /\ len' \in 0 .. Bounds
         /\ result' \in [Producers -> 0 .. Bounds]
         /\ call' \in [Producers -> [value : Values, timeout : Timeouts]
                                      \cup {None}]
         /\ RingInv'
         /\ pc' = [pc EXCEPT ![p] = "idle"]
         /\ \A q \in Producers \ {p} : call'[q] = call[q]
<1>. USE BoundsAssumption
<1>1. call' = [call EXCEPT ![p] = None] /\ pc' = [pc EXCEPT ![p] = "idle"]
  BY DEF Store, Return
<1>2. call' \in [Producers -> [value : Values, timeout : Timeouts] \cup {None}]
  BY <1>1 DEF TypeOK
<1>3. \A q \in Producers \ {p} : call'[q] = call[q]
  BY <1>1 DEF TypeOK
<1>4. CASE ~Full /\ data' = [data EXCEPT ![write] = call[p].value]
           /\ write' = Advance(write) /\ len' = len + 1 /\ read' = read
           /\ result' = [result EXCEPT ![p] = len + 1]
  <2>1. call[p].value \in Values
    BY DEF CallPresent
  <2>2. data' \in [Slots -> Values \cup {None}]
    BY <1>4, <2>1 DEF TypeOK
  <2>3. write' \in Slots
    BY <1>4, AdvanceInSlots DEF TypeOK
  <2>4. read' \in Slots /\ len' \in 0 .. Bounds
    BY <1>4 DEF TypeOK, Full
  <2>5. len + 1 \in 0 .. Bounds
    BY <1>4 DEF TypeOK, Full
  <2>6. result' \in [Producers -> 0 .. Bounds]
    BY <1>4, <2>5 DEF TypeOK
  <2>7. RingInv'
    BY <1>4 DEF TypeOK, RingInv, Slot, Full, Advance, Slots
  <2>. QED
    BY <1>1, <1>2, <1>3, <2>2, <2>3, <2>4, <2>6, <2>7
<1>5. CASE ring' = ring /\ result' = [result EXCEPT ![p] = 0]
  BY <1>1, <1>2, <1>3, <1>5 DEF ring, TypeOK, RingInv, Slot
<1>. QED
  BY <1>4, <1>5 DEF Store, Return

(* What taking the oldest value does to it.                                *)
LEMMA RemoveRing ==
  ASSUME TypeOK, RingInv, Remove
  PROVE  /\ data' \in [Slots -> Values \cup {None}]
         /\ write' \in Slots /\ read' \in Slots /\ len' \in 0 .. Bounds
         /\ popped' \in Values \cup {None}
         /\ RingInv'
<1>. USE BoundsAssumption
<1>1. read' \in Slots
  BY AdvanceInSlots DEF TypeOK, Remove
<1>2. RingInv'
  BY DEF TypeOK, RingInv, Slot, Remove, Advance, Slots
<1>. QED
  BY <1>1, <1>2 DEF TypeOK, Remove

(* A signal leaves the condition variable well typed and the number of     *)
(* its waiters alone.                                                      *)
LEMMA SignalNotFullCond ==
  ASSUME TypeOK, SignalNotFull
  PROVE  /\ waiters' = waiters
         /\ signals' \in Nat
         /\ notified' \subseteq Producers
<1>1. CASE UNCHANGED cond
  BY <1>1 DEF TypeOK, cond
<1>2. CASE Signal
  <2>1. CASE UNCHANGED cond
    BY <2>1 DEF TypeOK, cond
  <2>2. CASE /\ signals < waiters /\ signals' = signals + 1 /\ waiters' = waiters
             /\ \/ \E p \in Sleepers : notified' = notified \cup {p}
                \/ Sleepers = {} /\ UNCHANGED notified
    BY <2>2 DEF TypeOK, Sleepers
  <2>. QED
    BY <1>2, <2>1, <2>2 DEF Signal
<1>. QED
  BY <1>1, <1>2 DEF SignalNotFull

-----------------------------------------------------------------------------
(* Every step keeps the invariant, one action at a time.                   *)

(* The steps of push that touch neither ring nor arguments only have to    *)
(* keep the types and the two counts.                                      *)
LEMMA MoveInv ==
  ASSUME Inv, NEW p \in Producers, NEW a \in Places \ {"idle"},
         pc[p] # "idle", pc' = [pc EXCEPT ![p] = a],
         UNCHANGED <<ring, mutex, call, result, popped>>,
         signals' \in Nat, notified' \subseteq Producers,
         not_full_waiters' = Cardinality(At(pc', Waiting)),
         waiters' = Cardinality(At(pc', Counted))
  PROVE  Inv'
<1>1. TypeOK'
  BY AtFinite DEF Inv, TypeOK, ring
<1>2. RingInv'
  BY DEF Inv, RingInv, ring, Slot
<1>3. WaitersCounted'
  BY DEF WaitersCounted, At
<1>4. WaitersAsleep'
  BY DEF WaitersAsleep
<1>5. CallPresent'
  BY DEF Inv, TypeOK, CallPresent
<1>. QED
  BY <1>1, <1>2, <1>3, <1>4, <1>5 DEF Inv

LEMMA PushInv ==
  ASSUME Inv, NEW p \in Producers, Push(p)
  PROVE  Inv'
<1>. USE DEF Inv
<1>t. pc \in [Producers -> Places] /\ not_full_waiters = Cardinality(At(pc, Waiting))
      /\ waiters = Cardinality(At(pc, Counted))
  BY CountedAt DEF TypeOK, WaitersAsleep
<1>1. CASE Call(p)
  <2>1. At(pc', Waiting) = At(pc, Waiting)
        /\ At(pc', Counted) = At(pc, Counted)
    BY <1>1, <1>t, AtStay DEF Call, Waiting, Counted
  <2>2. TypeOK'
    BY <1>1 DEF Call, TypeOK, Places, ring, cond
  <2>3. RingInv'
    BY <1>1 DEF Call, RingInv, ring, Slot
  <2>4. WaitersCounted' /\ WaitersAsleep'
    BY <1>1, <1>t, <2>1 DEF Call, WaitersCounted, WaitersAsleep, At, cond
  <2>5. CallPresent'
    BY <1>1 DEF Call, CallPresent, TypeOK
  <2>. QED
    BY <2>2, <2>3, <2>4, <2>5
<1>2. CASE PushNow(p)
  <2>1. Store(p) /\ pc[p] = "lock"
    BY <1>2 DEF PushNow
  <2>2. pc' = [pc EXCEPT ![p] = "idle"]
    BY <2>1 DEF Store, Return
  <2>. pc[p] \notin Waiting /\ pc[p] \notin Counted
       /\ "idle" \notin Waiting /\ "idle" \notin Counted
    BY <2>1 DEF Waiting, Counted
  <2>3. At(pc', Waiting) = At(pc, Waiting)
        /\ At(pc', Counted) = At(pc, Counted)
    BY <2>2, <1>t, AtStay
  <2>4. TypeOK' /\ RingInv'
    BY <1>2, <2>1, StoreRing DEF PushNow, TypeOK, Places, cond
  <2>5. WaitersCounted' /\ WaitersAsleep'
    BY <1>2, <1>t, <2>3 DEF PushNow, WaitersCounted, WaitersAsleep, At, cond
  <2>6. CallPresent'
    BY <2>1, <2>2, StoreRing DEF CallPresent, TypeOK
  <2>. QED
    BY <2>4, <2>5, <2>6
<1>3. CASE PushWait(p)
  <2>1. pc[p] = "lock" /\ pc' = [pc EXCEPT ![p] = "wait"]
    BY <1>3 DEF PushWait
  <2>. pc[p] \notin Waiting /\ pc[p] \notin Counted
       /\ "wait" \in Waiting /\ "wait" \in Counted
    BY <2>1 DEF Waiting, Counted
  <2>2. Cardinality(At(pc', Waiting)) = not_full_waiters + 1
    BY <2>1, <1>t, AtEnter
  <2>3. Cardinality(At(pc', Counted)) = waiters + 1
    BY <2>1, <1>t, AtEnter
  <2>. QED
    BY <1>3, <2>1, <2>2, <2>3, MoveInv DEF PushWait, TypeOK, Places, Waiting
<1>4. CASE PushResume(p) \/ PushTimeout(p)
  <2>1. pc[p] \in {"woken", "expired"}
    BY <1>4 DEF PushResume, PushTimeout
  <2>2. pc' = [pc EXCEPT ![p] = "idle"]
    BY <1>4 DEF PushResume, PushTimeout, Store, Return
  <2>. pc[p] \in Waiting /\ pc[p] \notin Counted
       /\ "idle" \notin Waiting /\ "idle" \notin Counted
    BY <2>1 DEF Waiting, Counted
  <2>3. Cardinality(At(pc', Waiting)) = not_full_waiters - 1 /\ not_full_waiters > 0
    BY <2>2, <1>t, AtLeave
  <2>4. At(pc', Counted) = At(pc, Counted)
    BY <2>2, <1>t, AtStay
  <2>5. TypeOK' /\ RingInv' /\ \A q \in Producers \ {p} : call'[q] = call[q]
    <3>1. CASE PushResume(p)
      BY <3>1, <2>1, <2>3, StoreRing DEF PushResume, TypeOK, Places, cond
    <3>2. CASE PushTimeout(p)
      <4>1. result' \in [Producers -> 0 .. Bounds]
        BY <3>2, BoundsAssumption DEF PushTimeout, Return, TypeOK
      <4>2. call' \in [Producers -> [value : Values, timeout : Timeouts]
                                     \cup {None}]
            /\ \A q \in Producers \ {p} : call'[q] = call[q]
        BY <3>2 DEF PushTimeout, Return, TypeOK
      <4>3. pc' \in [Producers -> Places] /\ not_full_waiters' \in Nat
        BY <3>2, <2>2, <2>3, <1>t DEF PushTimeout, TypeOK, Places
      <4>4. TypeOK'
        BY <3>2, <4>1, <4>2, <4>3 DEF PushTimeout, TypeOK, ring, cond
      <4>. QED
        BY <3>2, <4>2, <4>4 DEF PushTimeout, RingInv, ring, Slot
    <3>. QED
      BY <1>4, <3>1, <3>2
  <2>6. WaitersCounted' /\ WaitersAsleep'
    BY <1>4, <1>t, <2>3, <2>4
    DEF PushResume, PushTimeout, WaitersCounted, WaitersAsleep, At, cond
  <2>7. CallPresent'
    BY <2>2, <2>5 DEF CallPresent, TypeOK
  <2>. QED
    BY <2>5, <2>6, <2>7
<1>5. CASE SpuriousWake(p) \/ Resleep(p)
  <2>1. UNCHANGED <<ring, mutex, not_full_waiters, waiters, signals, pc, call,
                    result, popped>> /\ notified' \subseteq Producers
    BY <1>5 DEF SpuriousWake, Resleep, TypeOK
  <2>. QED
    BY <2>1 DEF TypeOK, RingInv, Slot, WaitersCounted, WaitersAsleep, CallPresent,
                At, ring
<1>6. CASE Consume(p)
  <2>1. pc[p] = "wait" /\ pc' = [pc EXCEPT ![p] = "woken"]
    BY <1>6 DEF Consume
  <2>. pc[p] \in Waiting /\ pc[p] \in Counted
       /\ "woken" \in Waiting /\ "woken" \notin Counted
    BY <2>1 DEF Waiting, Counted
  <2>2. At(pc', Waiting) = At(pc, Waiting)
    BY <2>1, <1>t, AtStay
  <2>3. Cardinality(At(pc', Counted)) = waiters - 1
    BY <2>1, <1>t, AtLeave
  <2>4. signals' \in Nat /\ notified' \subseteq Producers
    BY <1>6 DEF Consume, TypeOK
  <2>. QED
    BY <1>6, <1>t, <2>1, <2>2, <2>3, <2>4, MoveInv DEF Consume, Places, Waiting
<1>7. CASE Expire(p)
  <2>1. pc[p] = "wait" /\ pc' = [pc EXCEPT ![p] = "expiring"]
    BY <1>7 DEF Expire
  <2>2. At(pc', Waiting) = At(pc, Waiting)
        /\ At(pc', Counted) = At(pc, Counted)
    BY <2>1, <1>t, AtStay DEF Waiting, Counted
  <2>3. signals' \in Nat /\ notified' \subseteq Producers
    BY <1>7 DEF Expire, TypeOK
  <2>. QED
    BY <1>7, <1>t, <2>1, <2>2, <2>3, MoveInv DEF Expire, Places, Waiting
<1>8. CASE Unregister(p)
  <2>1. pc[p] = "expiring" /\ pc' = [pc EXCEPT ![p] = "expired"]
    BY <1>8 DEF Unregister
  <2>. pc[p] \in Waiting /\ pc[p] \in Counted
       /\ "expired" \in Waiting /\ "expired" \notin Counted
    BY <2>1 DEF Waiting, Counted
  <2>2. At(pc', Waiting) = At(pc, Waiting)
    BY <2>1, <1>t, AtStay
  <2>3. Cardinality(At(pc', Counted)) = waiters - 1
    BY <2>1, <1>t, AtLeave
  <2>4. signals' \in Nat /\ notified' \subseteq Producers
    BY <1>8 DEF Unregister, TypeOK
  <2>. QED
    BY <1>8, <1>t, <2>1, <2>2, <2>3, <2>4, MoveInv DEF Unregister, Places, Waiting
<1>. QED
  BY <1>1, <1>2, <1>3, <1>4, <1>5, <1>6, <1>7, <1>8 DEF Push

LEMMA ConsumerInv ==
  ASSUME Inv, Consumer
  PROVE  Inv'
<1>. USE DEF Inv
<1>1. CASE Pop \/ DrainNext \/ DrainDeinit
  <2>1. UNCHANGED <<not_full_waiters, pc, call, result>>
    BY <1>1 DEF Pop, DrainNext, DrainDeinit
  <2>2. waiters' = waiters /\ signals' \in Nat /\ notified' \subseteq Producers
    BY <1>1, SignalNotFullCond DEF Pop, DrainNext, DrainDeinit, cond, TypeOK
  <2>3. /\ data' \in [Slots -> Values \cup {None}]
        /\ write' \in Slots /\ read' \in Slots /\ len' \in 0 .. Bounds
        /\ popped' \in Values \cup {None} /\ RingInv'
    <3>1. CASE Pop \/ DrainNext
      BY <3>1, RemoveRing DEF Pop, DrainNext
    <3>2. CASE DrainDeinit
      BY <3>2 DEF DrainDeinit, ring, TypeOK, RingInv, Slot
    <3>. QED
      BY <1>1, <3>1, <3>2
  <2>4. mutex' \in {"free", "drain"}
    BY <1>1 DEF Pop, DrainNext, DrainDeinit, TypeOK
  <2>5. TypeOK'
    BY <2>1, <2>2, <2>3, <2>4 DEF TypeOK
  <2>. QED
    BY <2>1, <2>2, <2>3, <2>5 DEF WaitersCounted, WaitersAsleep, CallPresent, At
<1>2. CASE Drain
  BY <1>2 DEF Drain, ring, cond, TypeOK, RingInv, Slot, WaitersCounted,
              WaitersAsleep, CallPresent, At
<1>. QED
  BY <1>1, <1>2 DEF Consumer

LEMMA NextInv == Inv /\ [Next]_vars => Inv'
<1>. SUFFICES ASSUME Inv, [Next]_vars PROVE Inv'
  OBVIOUS
<1>1. CASE \E p \in Producers : Push(p)
  BY <1>1, PushInv
<1>2. CASE Consumer
  BY <1>2, ConsumerInv
<1>3. CASE UNCHANGED vars
  BY <1>3 DEF vars, Inv, TypeOK, RingInv, Slot, WaitersCounted, WaitersAsleep,
              CallPresent, At
<1>. QED
  BY <1>1, <1>2, <1>3 DEF Next

(* Every behaviour of the queue keeps its inductive invariant.             *)
THEOREM Invariance == Spec => []Inv
BY InitInv, NextInv, PTL DEF Spec

(* Type correctness: no interleaving of pushes, pops, drains, spurious     *)
(* wakeups and timeouts takes an index out of the ring, the count out of   *)
(* 0 .. Bounds, or either waiter count below zero (an unsigned underflow   *)
(* in blocking_queue.zig and in lib/compat/thread.zig).                    *)
THEOREM TypeCorrect == Spec => []TypeOK
<1>1. Inv => TypeOK
  BY DEF Inv
<1>. QED
  BY <1>1, Invariance, PTL

(* The two indices and the count of blocking_queue.zig always agree.       *)
THEOREM RingAccounted == Spec => []RingInv
<1>1. Inv => RingInv
  BY DEF Inv
<1>. QED
  BY <1>1, Invariance, PTL

(* not_full_waiters is exactly the number of pushes inside their wait,     *)
(* whether they leave it with a signal or at their deadline.               *)
THEOREM WaitersAreCounted == Spec => []WaitersCounted
<1>1. Inv => WaitersCounted
  BY DEF Inv
<1>. QED
  BY <1>1, Invariance, PTL

-----------------------------------------------------------------------------
(* No lost wakeup.  A timed push can take a sleeper off the futex between  *)
(* a signal and its use, so what follows is for pushes that are never      *)
(* timed, which is all that ghastty makes.                                 *)

Untimed == "ns" \notin Timeouts

(* Only sleepers have been woken, each signal has one of them to take it,  *)
(* and nobody has reached a deadline.                                      *)
SignalsAnswered ==
  /\ notified \subseteq At(pc, {"wait"})
  /\ signals <= Cardinality(notified)
  /\ \A p \in Producers : pc[p] \notin {"expiring", "expired"}

(* While a push sleeps, the queue has something to pop (and that pop will  *)
(* signal), the iterator that will signal is open, or the signal was given.*)
WakeupDue ==
  (\E p \in Producers : pc[p] = "wait")
    => \/ len > 0
       \/ mutex = "drain"
       \/ \E p \in Producers : pc[p] = "woken"
       \/ signals > 0

WakeupInv == Inv /\ SignalsAnswered /\ WakeupDue

LEMMA InitWakeup == Init => WakeupInv
<1>. SUFFICES ASSUME Init PROVE WakeupInv
  OBVIOUS
<1>1. Cardinality({}) = 0
  BY FS_EmptySet
<1>2. SignalsAnswered
  BY <1>1 DEF Init, SignalsAnswered
<1>3. WakeupDue
  BY DEF Init, WakeupDue
<1>. QED
  BY <1>2, <1>3, InitInv DEF WakeupInv

(* A push that is asleep, or counted as such, was not timed.               *)
LEMMA UntimedCall ==
  ASSUME Inv, Untimed, NEW p \in Producers, pc[p] # "idle"
  PROVE  call[p].timeout # "ns"
BY DEF Inv, CallPresent, Untimed

LEMMA NotifiedFinite ==
  ASSUME TypeOK
  PROVE  IsFiniteSet(notified) /\ Cardinality(notified) \in Nat
BY ProducersAssumption, FS_Subset, FS_CardinalityType DEF TypeOK

(* What pop and the end of a drain do: if anybody sleeps there is a signal *)
(* afterwards, and still a woken sleeper for each.                         *)
LEMMA SignalNotFullWakes ==
  ASSUME WakeupInv, SignalNotFull, pc' = pc
  PROVE  /\ (\E p \in Producers : pc[p] = "wait") => signals' > 0
         /\ SignalsAnswered'
<1>. USE DEF WakeupInv
<1>1. /\ TypeOK
      /\ not_full_waiters = Cardinality(At(pc, Waiting))
      /\ waiters = Cardinality(At(pc, Counted))
      /\ pc \in [Producers -> Places]
  BY CountedAt DEF Inv, TypeOK, WaitersAsleep
<1>2. IsFiniteSet(notified) /\ Cardinality(notified) \in Nat
  BY <1>1, NotifiedFinite
<1>3. At(pc, Counted) = At(pc, {"wait"})
  BY DEF At, Counted, SignalsAnswered
<1>4. CASE \E p \in Producers : pc[p] = "wait"
  <2>1. At(pc, Waiting) # {} /\ At(pc, Counted) # {}
    BY <1>4 DEF At, Waiting, Counted
  <2>2. not_full_waiters > 0 /\ waiters > 0
    BY <1>1, <2>1, AtFinite, FS_EmptySet
  <2>3. Signal
    BY <2>2 DEF SignalNotFull
  <2>4. CASE signals >= waiters /\ UNCHANGED cond
    BY <2>2, <2>4, <1>1 DEF cond, SignalsAnswered, TypeOK, At
  <2>5. CASE /\ signals < waiters /\ signals' = signals + 1
             /\ \E p \in Sleepers : notified' = notified \cup {p}
    <3>1. PICK p \in Sleepers : notified' = notified \cup {p}
      BY <2>5
    <3>2. p \notin notified /\ p \in At(pc, {"wait"})
      BY DEF Sleepers, At
    <3>3. Cardinality(notified') = Cardinality(notified) + 1
      BY <3>1, <3>2, <1>2, FS_AddElement
    <3>4. signals' <= Cardinality(notified') /\ signals' > 0
      BY <2>5, <3>3, <1>1, <1>2 DEF SignalsAnswered, TypeOK
    <3>5. notified' \subseteq At(pc', {"wait"})
      BY <3>1, <3>2 DEF SignalsAnswered
    <3>. QED
      BY <3>4, <3>5 DEF SignalsAnswered
  <2>6. CASE /\ signals < waiters /\ signals' = signals + 1
             /\ Sleepers = {} /\ UNCHANGED notified
    <3>1. notified = At(pc, {"wait"})
      BY <2>6 DEF Sleepers, SignalsAnswered, At
    <3>2. Cardinality(notified) = waiters
      BY <3>1, <1>1, <1>3
    <3>3. signals' <= Cardinality(notified') /\ signals' > 0
      BY <2>6, <3>2, <1>1 DEF TypeOK
    <3>. QED
      BY <2>6, <3>3 DEF SignalsAnswered
  <2>. QED
    BY <2>3, <2>4, <2>5, <2>6 DEF Signal
<1>5. CASE ~ \E p \in Producers : pc[p] = "wait"
  <2>1. waiters = 0
    BY <1>1, <1>3, <1>5, FS_EmptySet DEF At
  <2>2. ~ (signals < waiters)
    BY <2>1, <1>1 DEF TypeOK
  <2>3. UNCHANGED cond
    BY <2>2 DEF SignalNotFull, Signal
  <2>. QED
    BY <1>5, <2>3 DEF cond, SignalsAnswered, At
<1>. QED
  BY <1>4, <1>5

LEMMA PushWakeup ==
  ASSUME WakeupInv, Untimed, NEW p \in Producers, Push(p)
  PROVE  SignalsAnswered' /\ WakeupDue'
<1>. USE DEF WakeupInv
<1>0. /\ pc \in [Producers -> Places] /\ len \in 0 .. Bounds
      /\ signals \in Nat /\ Bounds > 0 /\ Bounds \in Nat
      /\ IsFiniteSet(notified) /\ Cardinality(notified) \in Nat
  BY NotifiedFinite, BoundsAssumption DEF Inv, TypeOK
<1>1. CASE Call(p)
  BY <1>0, <1>1 DEF Call, SignalsAnswered, WakeupDue, At, ring, cond
<1>2. CASE PushNow(p)
  <2>1. pc[p] = "lock" /\ pc' = [pc EXCEPT ![p] = "idle"] /\ UNCHANGED <<mutex, cond>>
    BY <1>2 DEF PushNow, Store, Return
  <2>2. len' > 0 \/ len' = len
    BY <1>0, <1>2 DEF PushNow, Store, ring
  <2>. QED
    BY <1>0, <2>1, <2>2 DEF SignalsAnswered, WakeupDue, At, cond
<1>3. CASE PushWait(p)
  <2>1. len' > 0
    BY <1>0, <1>3 DEF PushWait, Full, ring
  <2>. QED
    BY <1>0, <1>3, <2>1 DEF PushWait, SignalsAnswered, WakeupDue, At
<1>4. CASE PushResume(p)
  <2>1. pc[p] = "woken" /\ pc' = [pc EXCEPT ![p] = "idle"] /\ UNCHANGED cond
    BY <1>4 DEF PushResume, Store, Return
  <2>2. len' > 0
    BY <1>0, <1>4 DEF PushResume, Store, Full, ring
  <2>. QED
    BY <1>0, <2>1, <2>2 DEF SignalsAnswered, WakeupDue, At, cond
<1>5. CASE SpuriousWake(p)
  <2>1. p \notin notified /\ p \in At(pc, {"wait"}) /\ notified' = notified \cup {p}
    BY <1>5 DEF SpuriousWake, Sleepers, At
  <2>2. Cardinality(notified') = Cardinality(notified) + 1
    BY <2>1, <1>0, FS_AddElement
  <2>. QED
    BY <1>0, <1>5, <2>1, <2>2
    DEF SpuriousWake, SignalsAnswered, WakeupDue, At, ring
<1>6. CASE Consume(p)
  <2>1. pc[p] = "wait" /\ pc' = [pc EXCEPT ![p] = "woken"] /\ p \in notified
    BY <1>6, UntimedCall DEF Consume
  <2>2. notified' = notified \ {p} /\ signals' = signals - 1 /\ signals > 0
    BY <1>6 DEF Consume
  <2>3. Cardinality(notified') = Cardinality(notified) - 1
    BY <2>1, <2>2, <1>0, FS_RemoveElement
  <2>. QED
    BY <1>0, <2>1, <2>2, <2>3 DEF SignalsAnswered, WakeupDue, At
<1>7. CASE Resleep(p)
  <2>1. notified' \subseteq notified /\ IsFiniteSet(notified')
    BY <1>0, <1>7, FS_Subset DEF Resleep
  <2>2. Cardinality(notified') \in Nat
    BY <2>1, FS_CardinalityType
  <2>. QED
    BY <1>0, <1>7, <2>1, <2>2
    DEF Resleep, SignalsAnswered, WakeupDue, At, ring
<1>8. CASE PushTimeout(p) \/ Expire(p) \/ Unregister(p)
  BY <1>8, UntimedCall DEF PushTimeout, Expire, Unregister, SignalsAnswered
<1>. QED
  BY <1>1, <1>2, <1>3, <1>4, <1>5, <1>6, <1>7, <1>8 DEF Push

LEMMA ConsumerWakeup ==
  ASSUME WakeupInv, Consumer
  PROVE  SignalsAnswered' /\ WakeupDue'
<1>. USE DEF WakeupInv
<1>1. CASE Pop \/ DrainDeinit
  BY <1>1, SignalNotFullWakes DEF Pop, DrainDeinit, WakeupDue
<1>2. CASE Drain \/ DrainNext
  BY <1>2 DEF Drain, DrainNext, SignalsAnswered, WakeupDue, At, cond
<1>. QED
  BY <1>1, <1>2 DEF Consumer

(* Pushes that are never timed lose no wakeup, however many producers      *)
(* sleep, however large the queue and whether the consumer pops or drains: *)
(* no push is asleep beside an empty queue unless a signal is on its way   *)
(* to somebody who will fill it again.  (blocking_queue.zig signals only   *)
(* while not_full_waiters is positive, and once per drain.)                *)
THEOREM NoLostProducer ==
  ASSUME Untimed
  PROVE  Spec => []NoStrandedProducer
<1>1. WakeupInv /\ [Next]_vars => WakeupInv'
  <2>. SUFFICES ASSUME WakeupInv, [Next]_vars PROVE WakeupInv'
    OBVIOUS
  <2>1. Inv'
    BY NextInv DEF WakeupInv
  <2>2. CASE \E p \in Producers : Push(p)
    BY <2>1, <2>2, PushWakeup DEF WakeupInv
  <2>3. CASE Consumer
    BY <2>1, <2>3, ConsumerWakeup DEF WakeupInv
  <2>4. CASE UNCHANGED vars
    BY <2>1, <2>4 DEF vars, WakeupInv, SignalsAnswered, WakeupDue, At
  <2>. QED
    BY <2>2, <2>3, <2>4 DEF Next
<1>2. WakeupInv => NoStrandedProducer
  <2>. SUFFICES ASSUME WakeupInv, len = 0, mutex # "drain",
                       \E p \in Producers : pc[p] = "wait",
                       ~ \E p \in Producers : pc[p] = "woken"
                PROVE  \E p \in Producers :
                         pc[p] = "wait" /\ p \in notified /\ signals > 0
    BY DEF NoStrandedProducer
  <2>1. signals > 0
    BY DEF WakeupInv, WakeupDue
  <2>2. Cardinality(notified) # 0
    BY <2>1, NotifiedFinite DEF WakeupInv, Inv, TypeOK, SignalsAnswered
  <2>3. notified # {}
    BY <2>2, FS_EmptySet
  <2>. QED
    BY <2>1, <2>3 DEF WakeupInv, SignalsAnswered, At
<1>. QED
  BY <1>1, <1>2, InitWakeup, PTL DEF Spec

=============================================================================
