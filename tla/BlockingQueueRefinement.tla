----------------------- MODULE BlockingQueueRefinement -----------------------
(***************************************************************************)
(* BlockingQueue implements BoundedFifo: every initial state maps to an    *)
(* initial state and every step, under the refinement mapping Unread, to a *)
(* step of the abstract buffer or to none.                                 *)
(***************************************************************************)
EXTENDS BlockingQueueProofs, SequenceTheorems

-----------------------------------------------------------------------------
(* A producer without arguments has no push under way, and only a timed    *)
(* push reaches a deadline.                                                *)
CallMatchesPc ==
  \A p \in Producers :
    /\ pc[p] = "idle" => call[p] = None
    /\ pc[p] \in {"expiring", "expired"} => call[p].timeout = "ns"

RInv == Inv /\ CallMatchesPc

LEMMA InitRInv == Init => RInv
BY InitInv DEF Init, RInv, CallMatchesPc

LEMMA NextRInv == RInv /\ [Next]_vars => RInv'
<1>. SUFFICES ASSUME RInv, [Next]_vars PROVE RInv'
  OBVIOUS
<1>1. Inv'
  BY NextInv DEF RInv
<1>2. CallMatchesPc'
  <2>. USE DEF RInv, Inv, TypeOK, CallMatchesPc
  <2>1. CASE \E p \in Producers : Push(p)
    <3>. PICK p \in Producers : Push(p)
      BY <2>1
    <3>1. CASE Call(p)
      BY <3>1 DEF Call
    <3>2. CASE PushNow(p) \/ PushResume(p) \/ PushTimeout(p)
      BY <3>2 DEF PushNow, PushResume, PushTimeout, Store, Return
    <3>3. CASE PushWait(p) \/ SpuriousWake(p) \/ Consume(p) \/ Resleep(p)
      BY <3>3 DEF PushWait, SpuriousWake, Consume, Resleep
    <3>4. CASE Expire(p) \/ Unregister(p)
      BY <3>4 DEF Expire, Unregister
    <3>. QED
      BY <3>1, <3>2, <3>3, <3>4 DEF Push
  <2>2. CASE Consumer
    BY <2>2 DEF Consumer, Pop, Drain, DrainNext, DrainDeinit
  <2>3. CASE UNCHANGED vars
    BY <2>3 DEF vars
  <2>. QED
    BY <2>1, <2>2, <2>3 DEF Next
<1>. QED
  BY <1>1, <1>2 DEF RInv

-----------------------------------------------------------------------------
(* The mapping.                                                            *)

LEMMA SeqIsFunction ==
  ASSUME NEW S, NEW s \in Seq(S)
  PROVE  s = [i \in 1 .. Len(s) |-> s[i]]
BY LenProperties

(* The ring read from its oldest value is a sequence of len values.        *)
LEMMA UnreadSeq ==
  ASSUME TypeOK
  PROVE  /\ Unread \in Seq(Values \cup {None})
         /\ Len(Unread) = len
         /\ \A i \in 1 .. len : Unread[i] = data[Slot(i - 1)]
<1>1. len \in Nat
  BY BoundsAssumption DEF TypeOK
<1>2. \A i \in 1 .. len : data[Slot(i - 1)] \in Values \cup {None}
  BY BoundsAssumption DEF TypeOK, Slots, Slot
<1>3. Unread \in [1 .. len -> Values \cup {None}]
  BY <1>2 DEF Unread
<1>. QED
  BY <1>1, <1>3 DEF Unread

(* Storing a value appends it, because the slot written is the one after   *)
(* the newest value and none of the unread ones.                           *)
LEMMA StoreAppends ==
  ASSUME Inv, NEW v \in Values, ~Full,
         data' = [data EXCEPT ![write] = v], len' = len + 1, read' = read
  PROVE  Unread' = Append(Unread, v)
<1>. USE BoundsAssumption
<1>1. len \in Nat /\ len < Bounds /\ read \in Slots /\ write = Slot(len)
      /\ data \in [Slots -> Values \cup {None}]
  BY DEF Inv, TypeOK, Full, RingInv
<1>2. \A i \in 0 .. len : Slot(i)' = Slot(i) /\ Slot(i) \in Slots
  BY <1>1 DEF Slot, Slots
<1>3. \A i \in 0 .. len - 1 : Slot(i) # write
  BY <1>1 DEF Slot, Slots
<1>4. Unread' = [i \in 1 .. len + 1 |-> data'[Slot(i - 1)']]
  BY <1>1 DEF Unread
<1>5. \A i \in 1 .. len + 1 :
        data'[Slot(i - 1)'] = IF i = len + 1 THEN v ELSE data[Slot(i - 1)]
  <2>. SUFFICES ASSUME NEW i \in 1 .. len + 1
                PROVE  data'[Slot(i - 1)']
                         = IF i = len + 1 THEN v ELSE data[Slot(i - 1)]
    OBVIOUS
  <2>1. i - 1 \in 0 .. len
    BY <1>1
  <2>2. CASE i = len + 1
    BY <1>1, <1>2, <2>1, <2>2
  <2>3. CASE i # len + 1
    BY <1>1, <1>2, <1>3, <2>1, <2>3
  <2>. QED
    BY <2>2, <2>3
<1>6. Append(Unread, v)
        = [i \in 1 .. len + 1 |-> IF i = len + 1 THEN v ELSE data[Slot(i - 1)]]
  <2>1. Unread \in Seq(Values \cup {None}) /\ Len(Unread) = len
        /\ \A i \in 1 .. len : Unread[i] = data[Slot(i - 1)]
    BY UnreadSeq DEF Inv
  <2>2. Append(Unread, v) \in Seq(Values \cup {None})
        /\ Len(Append(Unread, v)) = len + 1
        /\ \A i \in 1 .. len + 1 :
             Append(Unread, v)[i] = IF i = len + 1 THEN v ELSE Unread[i]
    BY <1>1, <2>1
  <2>3. Append(Unread, v) = [i \in 1 .. len + 1 |-> Append(Unread, v)[i]]
    BY <2>2, SeqIsFunction
  <2>4. \A i \in 1 .. len + 1 :
          Append(Unread, v)[i] = IF i = len + 1 THEN v ELSE data[Slot(i - 1)]
    BY <1>1, <2>1, <2>2
  <2>. QED
    BY <2>3, <2>4
<1>. QED
  BY <1>4, <1>5, <1>6

(* Taking a value takes the head.                                          *)
LEMMA RemoveTakesHead ==
  ASSUME Inv, Remove
  PROVE  /\ Unread # << >>
         /\ popped' = Head(Unread)
         /\ Unread' = Tail(Unread)
<1>. USE BoundsAssumption
<1>1. /\ len \in Nat /\ len > 0 /\ len <= Bounds /\ read \in Slots
      /\ popped' = data[read] /\ read' = Advance(read)
      /\ len' = len - 1 /\ data' = data
  BY DEF Inv, TypeOK, Remove
<1>2. /\ Unread \in Seq(Values \cup {None}) /\ Len(Unread) = len
      /\ \A i \in 1 .. len : Unread[i] = data[Slot(i - 1)]
  BY UnreadSeq DEF Inv
<1>3. Slot(0) = read
  BY <1>1 DEF Slot, Slots
<1>4. \A i \in 1 .. len - 1 : Slot(i - 1)' = Slot(i)
  BY <1>1 DEF Slot, Slots, Advance
<1>5. Unread' = [i \in 1 .. len - 1 |-> data[Slot(i)]]
  BY <1>1, <1>4 DEF Unread
<1>6. Unread # << >> /\ popped' = Head(Unread)
  BY <1>1, <1>2, <1>3
<1>7. Tail(Unread) \in Seq(Values \cup {None}) /\ Len(Tail(Unread)) = len - 1
      /\ \A i \in 1 .. len - 1 : Tail(Unread)[i] = data[Slot(i)]
  BY <1>1, <1>2
<1>8. Tail(Unread) = [i \in 1 .. len - 1 |-> Tail(Unread)[i]]
  BY <1>7, SeqIsFunction
<1>9. Unread' = Tail(Unread)
  BY <1>5, <1>7, <1>8
<1>. QED
  BY <1>6, <1>9

-----------------------------------------------------------------------------
(* The steps.                                                              *)

(* The end of push is a Commit or a Fail of the buffer.                    *)
LEMMA StoreRefines ==
  ASSUME RInv, NEW p \in Producers, pc[p] # "idle", Store(p), popped' = popped
  PROVE  Fifo!Commit(p) \/ Fifo!Fail(p)
<1>1. Len(Unread) = len /\ len \in 0 .. Bounds
  BY UnreadSeq DEF RInv, Inv, TypeOK
<1>2. call[p] # None /\ call[p].value \in Values
  BY NoneAssumption DEF RInv, Inv, CallPresent
<1>3. CASE ~Full /\ data' = [data EXCEPT ![write] = call[p].value]
           /\ write' = Advance(write) /\ len' = len + 1 /\ read' = read
           /\ Return(p, len + 1)
  <2>1. Unread' = Append(Unread, call[p].value)
    BY <1>2, <1>3, StoreAppends DEF RInv
  <2>2. Len(Unread) < Bounds
    BY <1>1, <1>3, BoundsAssumption DEF Full
  <2>. QED
    BY <1>1, <1>2, <1>3, <2>1, <2>2 DEF Return, Fifo!Commit
<1>4. CASE Full /\ ring' = ring /\ Return(p, 0)
  <2>1. Unread' = Unread
    BY <1>4 DEF ring, Unread, Slot
  <2>. QED
    BY <1>1, <1>2, <1>4, <2>1 DEF Full, Return, Fifo!Fail
<1>. QED
  BY <1>3, <1>4 DEF Store

LEMMA PushRefines ==
  ASSUME RInv, NEW p \in Producers, Push(p)
  PROVE  Fifo!Begin(p) \/ Fifo!Commit(p) \/ Fifo!Fail(p) \/ UNCHANGED Fifo!vars
<1>1. CASE Call(p)
  <2>1. Unread' = Unread
    BY <1>1 DEF Call, ring, Unread, Slot
  <2>2. call[p] = None
    BY <1>1 DEF Call, RInv, CallMatchesPc
  <2>. QED
    BY <1>1, <2>1, <2>2 DEF Call, Fifo!Begin
<1>2. CASE PushNow(p) \/ PushResume(p)
  BY <1>2, StoreRefines DEF PushNow, PushResume
<1>3. CASE PushTimeout(p)
  <2>1. Unread' = Unread
    BY <1>3 DEF PushTimeout, ring, Unread, Slot
  <2>2. call[p].timeout = "ns" /\ call[p] # None
    BY <1>3, NoneAssumption
    DEF PushTimeout, RInv, CallMatchesPc, Inv, CallPresent
  <2>. QED
    BY <1>3, <2>1, <2>2 DEF PushTimeout, Return, Fifo!Fail
<1>4. CASE PushWait(p) \/ SpuriousWake(p) \/ Consume(p) \/ Resleep(p)
           \/ Expire(p) \/ Unregister(p)
  <2>1. UNCHANGED <<ring, call, result, popped>>
    BY <1>4 DEF PushWait, SpuriousWake, Consume, Resleep, Expire, Unregister
  <2>2. Unread' = Unread
    BY <2>1 DEF ring, Unread, Slot
  <2>. QED
    BY <2>1, <2>2 DEF Fifo!vars
<1>. QED
  BY <1>1, <1>2, <1>3, <1>4 DEF Push

LEMMA ConsumerRefines ==
  ASSUME RInv, Consumer
  PROVE  Fifo!Take \/ UNCHANGED Fifo!vars
<1>1. CASE Pop \/ DrainNext
  BY <1>1, RemoveTakesHead DEF Pop, DrainNext, RInv, Fifo!Take
<1>2. CASE Drain \/ DrainDeinit
  <2>1. UNCHANGED <<ring, call, result, popped>>
    BY <1>2 DEF Drain, DrainDeinit
  <2>2. Unread' = Unread
    BY <2>1 DEF ring, Unread, Slot
  <2>. QED
    BY <2>1, <2>2 DEF Fifo!vars
<1>. QED
  BY <1>1, <1>2 DEF Consumer

(* The ring, its mutex and its condition variable are a bounded            *)
(* first-in first-out buffer: whatever the interleaving, a value is        *)
(* delivered once, in the order of the pushes, and a push that is not      *)
(* timed fails only against a full queue.                                  *)
THEOREM Refinement == Spec => FifoSpec
<1>1. Init => Fifo!Init
  <2>. SUFFICES ASSUME Init PROVE Fifo!Init
    OBVIOUS
  <2>1. Unread = << >>
    BY DEF Init, Unread
  <2>. QED
    BY <2>1 DEF Init, Fifo!Init
<1>2. RInv /\ [Next]_vars => [Fifo!Next]_(Fifo!vars)
  <2>. SUFFICES ASSUME RInv, [Next]_vars PROVE [Fifo!Next]_(Fifo!vars)
    OBVIOUS
  <2>1. CASE \E p \in Producers : Push(p)
    BY <2>1, PushRefines DEF Fifo!Next
  <2>2. CASE Consumer
    BY <2>2, ConsumerRefines DEF Fifo!Next
  <2>3. CASE UNCHANGED vars
    BY <2>3 DEF vars, Fifo!vars, Unread, Slot
  <2>. QED
    BY <2>1, <2>2, <2>3 DEF Next
<1>. QED
  BY <1>1, <1>2, InitRInv, NextRInv, PTL DEF Spec, FifoSpec, Fifo!Spec

=============================================================================
