--------------------------- MODULE ReadThreadProofs ---------------------------
(***************************************************************************)
(* What TLAPS proves of ReadThread, for any number and size of buffers,    *)
(* any thresholds and any stream: exclusive ownership of the buffers, and  *)
(* that what was read from the pty is handed to the terminal in order,     *)
(* each byte once, and none is left behind when the thread ends; and that  *)
(* neither condition variable nor the idle pipe loses a wakeup.            *)
(***************************************************************************)
EXTENDS ReadThread, SequenceTheorems, TLAPS

-----------------------------------------------------------------------------
(* The inductive invariant: where every byte between the pty and the       *)
(* terminal is.  Bytes are numbered, so a buffer is described by its first *)
(* byte and its length, and the buffers in flight follow on one another,   *)
(* from the byte after the last parsed to the byte before the first that   *)
(* the gather stage has in hand.                                           *)

First(s) == bufs[s][1]

(* Bytes in the buffer being filled, and parsed of the one being parsed.   *)
InHand == IF Filling THEN total ELSE 0
Parsed == IF Parsing THEN pos ELSE 0

Published ==
  \A k \in 0 .. count - 1 :
    /\ lens[Place(k)] \in 1 .. BufferCapacity
    /\ Len(bufs[Place(k)]) = lens[Place(k)]
    /\ \A i \in 1 .. lens[Place(k)] :
         bufs[Place(k)][i] = First(Place(k)) + (i - 1)

Adjacent ==
  \A k \in 1 .. count - 1 :
    First(Place(k)) = First(Place(k - 1)) + lens[Place(k - 1)]

Oldest == count > 0 => First(tail) + Parsed = output + 1

Newest ==
  count > 0 => First(Place(count - 1)) + lens[Place(count - 1)] + InHand
                 = taken + 1

NoneInFlight == count = 0 => output + InHand = taken

Gathered ==
  Filling /\ total > 0
    => /\ Len(bufs[head]) = total
       /\ \A i \in 1 .. total : bufs[head][i] = (taken - total) + i

BatchInv == Parsing => batch = lens[tail] /\ pos <= batch

(* done is the last the gather stage says, and the parse stage ends only   *)
(* after it, or without a gather stage, and with nothing in flight.        *)
EndInv ==
  /\ done => gpc \in {"farewell", "ended"}
  /\ ppc \in {"join", "ended"} => count = 0 /\ (done \/ gpc = "unborn")
  /\ ppc = "start" => count = 0 /\ gpc = "unborn"

Bytes ==
  /\ Published /\ Adjacent /\ Oldest /\ Newest /\ NoneInFlight /\ Gathered
  /\ BatchInv

Inv == TypeOK /\ RingInv /\ Bytes /\ EndInv

(* TypeOK in two parts, for the provers keep truth values apart from the   *)
(* rest.                                                                   *)
Numbers ==
  /\ written \in Nat /\ taken \in 0 .. written
  /\ bufs \in [Slots -> Seq(Nat)]
  /\ lens \in [Slots -> 0 .. BufferCapacity]
  /\ head \in Slots /\ tail \in Slots
  /\ count \in 0 .. BufferCount
  /\ idle \in 0 .. PipeCapacity
  /\ gpc \in {"unborn", "claim", "blocked", "read", "bridge", "bridged",
              "drain", "publish", "announce", "poll", "finish", "farewell",
              "ended"}
  /\ total \in 0 .. BufferCapacity
  /\ spins \in 0 .. SpinMax
  /\ revents \subseteq Events
  /\ ppc \in {"start", "next", "sleep", "parse", "signal", "wake", "join",
              "ended"}
  /\ slot \in Slots /\ batch \in 0 .. BufferCapacity
  /\ pos \in 0 .. BufferCapacity
  /\ output \in Nat

Booleans ==
  /\ hup \in BOOLEAN /\ quit \in BOOLEAN
  /\ bridging \in BOOLEAN /\ done \in BOOLEAN
  /\ bridged \in BOOLEAN /\ fatal \in BOOLEAN
  /\ wake \in BOOLEAN

LEMMA TypeParts == TypeOK <=> Numbers /\ Booleans
BY DEF TypeOK, Numbers, Booleans

LEMMA TypePartsNext == TypeOK' <=> Numbers' /\ Booleans'
BY DEF TypeOK, Numbers, Booleans

-----------------------------------------------------------------------------
(* The ring.                                                               *)

LEMMA IncStep ==
  ASSUME NEW i \in Slots
  PROVE  Inc(i) = (IF i + 1 = BufferCount THEN 0 ELSE i + 1) /\ Inc(i) \in Slots
<1>1. BufferCount \in Nat /\ BufferCount > 0
  BY BufferAssumption
<1>2. CASE i + 1 = BufferCount
  BY <1>1, <1>2 DEF Inc, Slots
<1>3. CASE i + 1 # BufferCount
  BY <1>1, <1>3 DEF Inc, Slots
<1>. QED
  BY <1>2, <1>3

(* Places of buffers in flight are slots, each another one, and none is    *)
(* the head while there is a free buffer.                                  *)
LEMMA Places ==
  ASSUME TypeOK, RingInv
  PROVE  /\ \A k \in 0 .. count : Place(k) \in Slots
         /\ Place(0) = tail
         /\ count < BufferCount => \A k \in 0 .. count - 1 : Place(k) # head
<1>1. tail \in Nat /\ tail < BufferCount /\ count \in 0 .. BufferCount
      /\ BufferCount \in Nat /\ head = Place(count)
  BY BufferAssumption DEF TypeOK, RingInv, Slots
<1>2. \A k \in 0 .. count : Place(k) \in Slots
  BY <1>1 DEF Place, Slots
<1>3. Place(0) = tail
  BY <1>1 DEF Place
<1>4. count < BufferCount => \A k \in 0 .. count - 1 : Place(k) # head
  BY <1>1 DEF Place
<1>. QED
  BY <1>2, <1>3, <1>4

LEMMA InitInv == Init => Inv
<1>. SUFFICES ASSUME Init PROVE Inv
  OBVIOUS
<1>1. TypeOK
  <2>1. bufs \in [Slots -> Seq(Nat)]
    BY EmptySeq DEF Init
  <2>2. Numbers
    BY <2>1, BufferAssumption DEF Init, Numbers, Slots, Events
  <2>3. Booleans
    BY DEF Init, Booleans
  <2>. QED
    BY <2>2, <2>3, TypeParts
<1>2. RingInv
  BY BufferAssumption DEF Init, RingInv, Place, Filling, Parsing
<1>3. Bytes
  BY DEF Init, Bytes, Published, Adjacent, Oldest, Newest, NoneInFlight,
         Gathered, BatchInv, InHand, Parsed, Filling, Parsing
<1>4. EndInv
  BY DEF Init, EndInv
<1>. QED
  BY <1>1, <1>2, <1>3, <1>4 DEF Inv

(* Steps that move no byte and no buffer.                                  *)
LEMMA NothingMoves ==
  ASSUME Inv,
         UNCHANGED <<taken, ring, slot, batch, pos, output>>,
         Parsing' <=> Parsing,
         InHand' = InHand,
         Filling' => count < BufferCount,
         Filling' /\ total' > 0 => Filling /\ total' = total
  PROVE  RingInv' /\ Bytes'
<1>1. RingInv'
  BY DEF Inv, RingInv, Place, ring
<1>2. Published' /\ Adjacent' /\ BatchInv'
  BY DEF Inv, Bytes, Published, Adjacent, BatchInv, Place, First, ring
<1>3. Oldest'
  BY DEF Inv, Bytes, Oldest, First, Parsed, ring
<1>4. Newest' /\ NoneInFlight'
  BY DEF Inv, Bytes, Newest, NoneInFlight, Place, First, ring
<1>5. Gathered'
  BY DEF Inv, Bytes, Gathered, ring
<1>. QED
  BY <1>1, <1>2, <1>3, <1>4, <1>5 DEF Bytes

(* The steps of the gather stage that neither read nor publish.            *)
LEMMA GatherKeeps ==
  ASSUME Inv,
         \/ Claim \/ ReadClosed \/ DeliverSmall \/ Spin \/ BudgetSpent
         \/ Bridge \/ BridgeEvents \/ BridgeTimeout \/ ClearBridging
         \/ DrainIdle \/ PublishNothing \/ AnnounceBatch \/ Poll \/ PollFails
         \/ SetDone \/ AnnounceDone
  PROVE  Inv'
<1>. USE BufferAssumption DEF Inv
<1>1. /\ UNCHANGED <<taken, ring, slot, batch, pos, output>>
      /\ UNCHANGED child
      /\ Parsing' <=> Parsing
  BY DEF Claim, ReadClosed, DeliverSmall, Spin, BudgetSpent, Bridge,
         BridgeEvents, BridgeTimeout, ClearBridging, DrainIdle,
         PublishNothing, AnnounceBatch, Poll, PollFails, SetDone,
         AnnounceDone, WakeParse, parse, Parsing
<1>2. /\ InHand' = InHand
      /\ Filling' => count < BufferCount
      /\ Filling' /\ total' > 0 => Filling /\ total' = total
  <2>1. CASE Claim
    BY <2>1 DEF Claim, Filling, InHand, TypeOK
  <2>2. CASE ReadClosed \/ DeliverSmall \/ Spin \/ BudgetSpent \/ Bridge
    BY <2>2 DEF ReadClosed, DeliverSmall, Spin, BudgetSpent, Bridge, Dry,
                Filling, InHand, RingInv
  <2>3. CASE BridgeEvents \/ BridgeTimeout \/ ClearBridging \/ DrainIdle
    BY <2>3 DEF BridgeEvents, BridgeTimeout, ClearBridging, DrainIdle,
                Filling, InHand, RingInv
  <2>4. CASE PublishNothing
    BY <2>4 DEF PublishNothing, AfterBatch, Filling, InHand
  <2>5. CASE AnnounceBatch \/ Poll \/ PollFails \/ SetDone \/ AnnounceDone
    BY <2>5 DEF AnnounceBatch, Poll, PollFails, SetDone, AnnounceDone,
                AfterBatch, Filling, InHand
  <2>. QED
    BY <2>1, <2>2, <2>3, <2>4, <2>5
<1>3. RingInv' /\ Bytes'
  BY <1>1, <1>2, NothingMoves
<1>4. Numbers'
  <2>. Numbers
    BY TypeParts
  <2>1. total' \in {0, total}
    BY DEF Claim, ReadClosed, DeliverSmall, Spin, BudgetSpent, Bridge,
           BridgeEvents, BridgeTimeout, ClearBridging, DrainIdle,
           PublishNothing, AnnounceBatch, Poll, PollFails, SetDone,
           AnnounceDone
  <2>2. spins' \in 0 .. SpinMax
    <3>1. CASE Spin
      BY <3>1 DEF Spin, Numbers
    <3>2. CASE ~Spin
      <4>1. spins' \in {0, spins}
        BY <3>2
        DEF Claim, ReadClosed, DeliverSmall, BudgetSpent, Bridge,
            BridgeEvents, BridgeTimeout, ClearBridging, DrainIdle,
            PublishNothing, AnnounceBatch, Poll, PollFails, SetDone,
            AnnounceDone
      <4>. QED
        BY <4>1 DEF Numbers
    <3>. QED
      BY <3>1, <3>2
  <2>3. idle' \in {0, idle}
    BY DEF Claim, ReadClosed, DeliverSmall, Spin, BudgetSpent, Bridge,
           BridgeEvents, BridgeTimeout, ClearBridging, DrainIdle,
           PublishNothing, AnnounceBatch, Poll, PollFails, SetDone,
           AnnounceDone
  <2>4. revents' \subseteq Events
    BY DEF Claim, ReadClosed, DeliverSmall, Spin, BudgetSpent, Bridge,
           BridgeEvents, BridgeTimeout, ClearBridging, DrainIdle,
           PublishNothing, AnnounceBatch, Poll, PollFails, SetDone,
           AnnounceDone, Ready, Events, Numbers
  <2>5. gpc' \in {gpc, "blocked", "read", "publish", "bridge", "bridged",
                  "drain", "claim", "poll", "finish", "farewell", "ended"}
    BY DEF Claim, ReadClosed, DeliverSmall, Spin, BudgetSpent, Bridge,
           BridgeEvents, BridgeTimeout, ClearBridging, DrainIdle,
           PublishNothing, AnnounceBatch, Poll, PollFails, SetDone,
           AnnounceDone, AfterBatch
  <2>6. ppc' \in {ppc, "next"}
    BY DEF Claim, ReadClosed, DeliverSmall, Spin, BudgetSpent, Bridge,
           BridgeEvents, BridgeTimeout, ClearBridging, DrainIdle,
           PublishNothing, AnnounceBatch, Poll, PollFails, SetDone,
           AnnounceDone, WakeParse, parse
  <2>. QED
    BY <1>1, <2>1, <2>2, <2>3, <2>4, <2>5, <2>6 DEF Numbers, child, ring
<1>5. Booleans'
  <2>1. hup' = hup /\ quit' = quit /\ wake' = wake
    BY <1>1
    DEF Claim, ReadClosed, DeliverSmall, Spin, BudgetSpent, Bridge,
        BridgeEvents, BridgeTimeout, ClearBridging, DrainIdle,
        PublishNothing, AnnounceBatch, Poll, PollFails, SetDone,
        AnnounceDone, WakeParse, parse, child
  <2>2. Booleans
    BY TypeParts
  <2>3. CASE Claim
    BY <2>1, <2>2, <2>3 DEF Claim, Booleans
  <2>4. CASE ReadClosed
    BY <2>1, <2>2, <2>4 DEF ReadClosed, Booleans
  <2>5. CASE DeliverSmall \/ Spin \/ BudgetSpent
    BY <2>1, <2>2, <2>5 DEF DeliverSmall, Spin, BudgetSpent, Booleans
  <2>6. CASE Bridge
    BY <2>1, <2>2, <2>6 DEF Bridge, Booleans
  <2>7. CASE ClearBridging
    BY <2>1, <2>2, <2>7 DEF ClearBridging, Booleans
  <2>8. CASE BridgeEvents \/ BridgeTimeout \/ DrainIdle \/ PublishNothing
    BY <2>1, <2>2, <2>8
    DEF BridgeEvents, BridgeTimeout, DrainIdle, PublishNothing, Booleans
  <2>9. CASE AnnounceBatch \/ Poll \/ PollFails \/ AnnounceDone
    BY <2>1, <2>2, <2>9
    DEF AnnounceBatch, Poll, PollFails, AnnounceDone, Booleans
  <2>10. CASE SetDone
    BY <2>1, <2>2, <2>10 DEF SetDone, Booleans
  <2>. QED
    BY <2>3, <2>4, <2>5, <2>6, <2>7, <2>8, <2>9, <2>10
<1>6. EndInv'
  <2>1. count' = count
    BY <1>1 DEF ring
  <2>2. /\ ppc' \in {"join", "ended"} => ppc \in {"join", "ended"}
        /\ ppc' = "start" => ppc = "start"
    BY DEF Claim, ReadClosed, DeliverSmall, Spin, BudgetSpent, Bridge,
           BridgeEvents, BridgeTimeout, ClearBridging, DrainIdle,
           PublishNothing, AnnounceBatch, Poll, PollFails, SetDone,
           AnnounceDone, WakeParse, parse
  <2>7. gpc # "unborn"
    BY DEF Claim, ReadClosed, DeliverSmall, Spin, BudgetSpent, Bridge,
           BridgeEvents, BridgeTimeout, ClearBridging, DrainIdle,
           PublishNothing, AnnounceBatch, Poll, PollFails, SetDone,
           AnnounceDone, Dry
  <2>3. CASE SetDone
    BY <2>1, <2>2, <2>7, <2>3 DEF SetDone, EndInv
  <2>4. CASE AnnounceDone
    BY <2>1, <2>2, <2>7, <2>4 DEF AnnounceDone, EndInv
  <2>5. CASE gpc \notin {"farewell", "ended"} /\ done' = done
    BY <2>1, <2>2, <2>7, <2>5 DEF EndInv
  <2>6. \/ SetDone
        \/ AnnounceDone
        \/ gpc \notin {"farewell", "ended"} /\ done' = done
    BY DEF Claim, ReadClosed, DeliverSmall, Spin, BudgetSpent, Bridge,
           BridgeEvents, BridgeTimeout, ClearBridging, DrainIdle,
           PublishNothing, AnnounceBatch, Poll, PollFails, Dry
  <2>. QED
    BY <2>3, <2>4, <2>5, <2>6
<1>. QED
  BY <1>3, <1>4, <1>5, <1>6, TypePartsNext

(* A read fills the buffer at head, which no place in flight is.           *)
LEMMA ReadKeeps ==
  ASSUME Inv, ReadBytes
  PROVE  Inv'
<1>. USE BufferAssumption DEF Inv
<1>1. PICK n \in 1 .. (written - taken) :
        /\ total + n <= BufferCapacity
        /\ bufs' = [bufs EXCEPT ![head] =
                      SubSeq(@, 1, total) \o [i \in 1 .. n |-> taken + i]]
        /\ total' = total + n
        /\ taken' = taken + n
        /\ gpc' = IF total + n < BufferCapacity THEN "read" ELSE "publish"
  BY DEF ReadBytes
<1>2. /\ gpc = "read" /\ Filling /\ Filling' /\ count < BufferCount
      /\ UNCHANGED <<lens, head, tail, count, ppc, slot, batch, pos, output>>
      /\ UNCHANGED <<written, hup, quit, bridging, done, idle, bridged, fatal,
                     revents, wake>>
      /\ spins' = 0
  BY <1>1 DEF ReadBytes, ReadFrame, Filling, RingInv, parse, child
<1>3. n \in Nat /\ n > 0 /\ total \in Nat /\ taken \in Nat /\ written \in Nat
      /\ taken + n <= written /\ head \in Slots
      /\ bufs \in [Slots -> Seq(Nat)] /\ count \in Nat /\ output \in Nat
  BY <1>1 DEF TypeOK
<1>. DEFINE old == SubSeq(bufs[head], 1, total)
            new == [i \in 1 .. n |-> taken + i]
            buf == old \o new
<1>4. old \in Seq(Nat) /\ Len(old) = total
      /\ \A i \in 1 .. total : old[i] = (taken - total) + i
  <2>1. CASE total = 0
    <3>1. old = << >>
      BY <2>1, SubSeqEmpty
    <3>. QED
      BY <2>1, <3>1, EmptySeq
  <2>2. CASE total > 0
    <3>1. Len(bufs[head]) = total
          /\ \A i \in 1 .. total : bufs[head][i] = (taken - total) + i
      BY <1>2, <2>2 DEF Bytes, Gathered
    <3>2. \A i \in 1 .. total : bufs[head][i] \in Nat
      BY <1>3, <3>1, ElementOfSeq
    <3>3. /\ old \in Seq(Nat)
          /\ Len(old) = total
          /\ \A i \in 1 .. total : old[i] = bufs[head][i]
      BY <1>3, <2>2, <3>2, SubSeqProperties
    <3>. QED
      BY <3>1, <3>3
  <2>. QED
    BY <1>3, <2>1, <2>2
<1>5. new \in Seq(Nat) /\ Len(new) = n /\ \A i \in 1 .. n : new[i] = taken + i
  BY <1>3, IsASeq
<1>6. buf \in Seq(Nat) /\ Len(buf) = total + n
      /\ \A i \in 1 .. total + n : buf[i] = (taken - total) + i
  <2>1. buf \in Seq(Nat) /\ Len(buf) = Len(old) + Len(new)
        /\ \A i \in 1 .. Len(old) + Len(new) :
             buf[i] = IF i <= Len(old) THEN old[i] ELSE new[i - Len(old)]
    BY <1>4, <1>5, ConcatProperties
  <2>2. \A i \in 1 .. total + n : buf[i] = (taken - total) + i
    <3>. SUFFICES ASSUME NEW i \in 1 .. total + n
                  PROVE  buf[i] = (taken - total) + i
      OBVIOUS
    <3>1. buf[i] = IF i <= total THEN old[i] ELSE new[i - total]
      BY <1>3, <1>4, <1>5, <2>1
    <3>2. CASE i <= total
      BY <1>3, <1>4, <3>1, <3>2
    <3>3. CASE ~ (i <= total)
      <4>1. i - total \in 1 .. n
        BY <1>3, <3>3
      <4>. QED
        BY <1>3, <1>5, <3>1, <3>3, <4>1
    <3>. QED
      BY <3>2, <3>3
  <2>. QED
    BY <1>4, <1>5, <2>1, <2>2
<1>7. bufs' \in [Slots -> Seq(Nat)] /\ bufs'[head] = buf
      /\ \A s \in Slots \ {head} : bufs'[s] = bufs[s]
  BY <1>1, <1>3, <1>6
<1>8. TypeOK'
  <2>1. Numbers'
    BY <1>1, <1>2, <1>3, <1>7 DEF TypeOK, Numbers
  <2>2. Booleans'
    BY <1>2, TypeParts DEF Booleans
  <2>. QED
    BY <2>1, <2>2, TypePartsNext
<1>9. RingInv'
  BY <1>2 DEF RingInv, Place, Parsing
<1>10. \A k \in 0 .. count - 1 :
         Place(k)' = Place(k) /\ bufs'[Place(k)] = bufs[Place(k)]
  BY <1>2, <1>3, <1>7, Places DEF Place
<1>11. Published' /\ Adjacent'
  <2>1. Published'
    BY <1>2, <1>10 DEF Bytes, Published, First
  <2>2. Adjacent'
    <3>. SUFFICES ASSUME NEW k \in 1 .. count - 1
                  PROVE  First(Place(k))' = First(Place(k - 1))' + lens[Place(k - 1)]'
      BY <1>2 DEF Adjacent
    <3>1. k \in 0 .. count - 1 /\ k - 1 \in 0 .. count - 1
      BY <1>3
    <3>2. First(Place(k)) = First(Place(k - 1)) + lens[Place(k - 1)]
      BY DEF Bytes, Adjacent
    <3>. QED
      BY <1>2, <1>10, <3>1, <3>2 DEF First
  <2>. QED
    BY <2>1, <2>2
<1>12. Oldest' /\ Newest' /\ NoneInFlight'
  <2>1. count > 0 => bufs'[tail] = bufs[tail] /\ bufs'[Place(count - 1)] = bufs[Place(count - 1)]
    BY <1>3, <1>10, Places
  <2>2. InHand' = InHand + n
    BY <1>1, <1>2 DEF InHand
  <2>3. Oldest'
    BY <1>2, <2>1 DEF Bytes, Oldest, First, Parsed, Parsing
  <2>4. Newest'
    <3>1. CASE count > 0
      <4>. DEFINE last == Place(count - 1)
      <4>1. count - 1 \in 0 .. count - 1
        BY <1>3, <3>1
      <4>2. last' = last /\ bufs'[last] = bufs[last]
        BY <1>2, <1>10, <4>1
      <4>3. last \in Slots /\ Len(bufs[last]) = lens[last]
            /\ lens[last] \in 1 .. BufferCapacity
        BY <1>3, <4>1, Places DEF Bytes, Published
      <4>4. bufs[last][1] \in Nat
        BY <1>3, <4>3, ElementOfSeq
      <4>5. bufs[last][1] + lens[last] + InHand = taken + 1
        BY <3>1 DEF Bytes, Newest, First
      <4>6. InHand \in Nat
        BY <1>3 DEF InHand
      <4>7. bufs[last][1] + lens[last] + (InHand + n) = taken + n + 1
        <5>1. lens[last] \in Nat
          BY <4>3
        <5>2. n \in Nat /\ taken \in Nat
          BY <1>3
        <5>3. PICK x \in Nat, y \in Nat : x = bufs[last][1] /\ y = lens[last]
          BY <4>4, <5>1, Zenon
        <5>4. x + y + InHand = taken + 1
          BY ONLY <4>5, <5>3, Zenon
        <5>5. x + y + (InHand + n) = taken + n + 1
          BY ONLY <4>6, <5>2, <5>4
        <5>. QED
          BY ONLY <5>3, <5>5, Zenon
      <4>. QED
        BY <1>1, <1>2, <2>2, <4>2, <4>7 DEF Newest, First
    <3>. QED
      BY <1>2, <3>1 DEF Newest
  <2>5. NoneInFlight'
    BY <1>1, <1>2, <1>3, <2>2 DEF Bytes, NoneInFlight, InHand
  <2>. QED
    BY <2>3, <2>4, <2>5
<1>13. Gathered'
  <2>1. taken' - total' = taken - total
    BY <1>1, <1>3
  <2>. QED
    BY <1>1, <1>2, <1>6, <1>7, <2>1 DEF Gathered
<1>14. BatchInv' /\ EndInv'
  BY <1>1, <1>2 DEF Bytes, BatchInv, EndInv, Parsing
<1>. QED
  BY <1>8, <1>9, <1>11, <1>12, <1>13, <1>14 DEF Bytes

(* Publishing hands the buffer at head over.                               *)
LEMMA PublishKeeps ==
  ASSUME Inv, Publish
  PROVE  Inv'
<1>. USE BufferAssumption DEF Inv
<1>. Numbers
  BY TypeParts
<1>1. /\ gpc = "publish" /\ Filling /\ ~Filling' /\ count < BufferCount
      /\ total \in Nat /\ total > 0 /\ total <= BufferCapacity
      /\ lens' = [lens EXCEPT ![head] = total]
      /\ head' = Inc(head) /\ count' = count + 1 /\ gpc' = "announce"
      /\ UNCHANGED <<taken, bufs, tail, total, ppc, slot, batch, pos, output>>
  BY DEF Publish, Filling, RingInv, Numbers, parse
<1>2. /\ hup' = hup /\ quit' = quit /\ bridging' = bridging /\ done' = done
      /\ bridged' = bridged /\ fatal' = fatal /\ wake' = wake
      /\ UNCHANGED <<written, idle, spins, revents>>
  BY DEF Publish, child, parse
<1>3. count \in Nat /\ head \in Slots /\ tail \in Slots /\ taken \in Nat
      /\ BufferCount \in Nat /\ count + 1 \in 0 .. BufferCount
      /\ head = Place(count) /\ output \in Nat
      /\ bufs \in [Slots -> Seq(Nat)] /\ lens \in [Slots -> 0 .. BufferCapacity]
  BY <1>1 DEF Numbers, RingInv
<1>4. TypeOK'
  <2>1. lens' \in [Slots -> 0 .. BufferCapacity]
    BY <1>1, <1>3
  <2>2. head' \in Slots
    BY <1>1, <1>3, IncStep
  <2>3. Numbers'
    BY <1>1, <1>2, <1>3, <2>1, <2>2 DEF Numbers
  <2>4. Booleans'
    BY <1>2, TypeParts DEF Booleans
  <2>. QED
    BY <2>3, <2>4, TypePartsNext
<1>5. RingInv'
  <2>1. head' = IF head + 1 = BufferCount THEN 0 ELSE head + 1
    BY <1>1, <1>3, IncStep
  <2>2. tail \in Nat /\ tail < BufferCount /\ count < BufferCount
    BY <1>1, <1>3 DEF Slots
  <2>3. head' = Place(count)'
    <3>1. CASE tail + count < BufferCount
      BY <1>1, <1>3, <2>1, <2>2, <3>1 DEF Place
    <3>2. CASE ~ (tail + count < BufferCount)
      BY <1>1, <1>3, <2>1, <2>2, <3>2 DEF Place
    <3>. QED
      BY <3>1, <3>2
  <2>4. Parsing' <=> Parsing
    BY <1>1 DEF Parsing
  <2>. QED
    BY <1>1, <1>3, <2>3, <2>4 DEF RingInv
<1>6. /\ \A k \in 0 .. count : Place(k)' = Place(k) /\ Place(k) \in Slots
      /\ \A k \in 0 .. count - 1 : lens'[Place(k)] = lens[Place(k)]
      /\ lens'[head] = total
  BY <1>1, <1>3, Places DEF Place
<1>7. Len(bufs[head]) = total
      /\ \A i \in 1 .. total : bufs[head][i] = (taken - total) + i
  BY <1>1 DEF Bytes, Gathered
<1>8. First(head) = taken - total + 1
  BY <1>1, <1>7 DEF First
<1>9. Published'
  <2>. SUFFICES ASSUME NEW k \in 0 .. count
                PROVE  /\ lens'[Place(k)] \in 1 .. BufferCapacity
                       /\ Len(bufs[Place(k)]) = lens'[Place(k)]
                       /\ \A i \in 1 .. lens'[Place(k)] :
                            bufs[Place(k)][i] = First(Place(k)) + (i - 1)
    <3>1. count' - 1 = count
      BY <1>1, <1>3
    <3>. QED
      BY <1>1, <1>6, <3>1 DEF Published, First
  <2>1. CASE k = count
    <3>1. \A i \in 1 .. total : bufs[head][i] = First(head) + (i - 1)
      BY <1>1, <1>3, <1>7, <1>8
    <3>. QED
      BY <1>1, <1>3, <1>6, <1>7, <2>1, <3>1
  <2>2. CASE k # count
    <3>1. k \in 0 .. count - 1
      BY <1>3, <2>2
    <3>. QED
      BY <1>6, <3>1 DEF Bytes, Published
  <2>. QED
    BY <2>1, <2>2
<1>10. count > 0 => First(head) = First(Place(count - 1)) + lens[Place(count - 1)]
  <2>. SUFFICES ASSUME count > 0
                PROVE  First(head) = First(Place(count - 1)) + lens[Place(count - 1)]
    OBVIOUS
  <2>1. First(Place(count - 1)) + lens[Place(count - 1)] + total = taken + 1
    BY <1>1 DEF Bytes, Newest, InHand
  <2>2. Place(count - 1) \in Slots /\ count - 1 \in 0 .. count - 1
    BY <1>3, Places
  <2>3. Len(bufs[Place(count - 1)]) = lens[Place(count - 1)]
        /\ lens[Place(count - 1)] \in 1 .. BufferCapacity
    BY <2>2 DEF Bytes, Published
  <2>4. First(Place(count - 1)) \in Nat /\ lens[Place(count - 1)] \in Nat
    BY <1>3, <2>2, <2>3, ElementOfSeq DEF First
  <2>. QED
    BY <1>1, <1>3, <1>8, <2>1, <2>4
<1>11. Adjacent'
  <2>. SUFFICES ASSUME NEW k \in 1 .. count
                PROVE  First(Place(k)) = First(Place(k - 1)) + lens'[Place(k - 1)]
    <3>1. count' - 1 = count
      BY <1>1, <1>3
    <3>2. \A k \in 1 .. count : k \in 0 .. count /\ k - 1 \in 0 .. count
      BY <1>3
    <3>3. \A k \in 1 .. count : Place(k)' = Place(k) /\ Place(k - 1)' = Place(k - 1)
      BY <1>6, <3>2
    <3>. QED
      BY <1>1, <3>1, <3>3 DEF Adjacent, First
  <2>1. k - 1 \in 0 .. count - 1
    BY <1>3
  <2>2. CASE k = count
    BY <1>3, <1>6, <1>10, <2>1, <2>2
  <2>3. CASE k # count
    <3>1. k \in 1 .. count - 1
      BY <1>3, <2>3
    <3>. QED
      BY <1>6, <2>1, <3>1 DEF Bytes, Adjacent
  <2>. QED
    BY <2>2, <2>3
<1>12. Oldest'
  <2>1. Parsed' = Parsed
    BY <1>1 DEF Parsed, Parsing
  <2>2. CASE count > 0
    BY <1>1, <2>1, <2>2 DEF Bytes, Oldest, First
  <2>3. CASE count = 0
    <3>1. output + total = taken /\ Parsed = 0 /\ head = tail
      BY <1>1, <1>3, <2>3, Places DEF Bytes, NoneInFlight, InHand, RingInv, Parsed
    <3>. QED
      BY <1>1, <1>3, <1>8, <2>1, <3>1 DEF Oldest, First
  <2>. QED
    BY <1>3, <2>2, <2>3
<1>13. Newest'
  <2>1. Place(count - 1)' = head /\ InHand' = 0
    BY <1>1, <1>3 DEF InHand, Place
  <2>. QED
    BY <1>1, <1>3, <1>6, <1>8, <2>1 DEF Newest, First
<1>14. NoneInFlight' /\ Gathered'
  BY <1>1, <1>3 DEF NoneInFlight, Gathered
<1>15. BatchInv'
  <2>1. Parsing => count > 0 /\ tail = Place(0) /\ 0 \in 0 .. count - 1
    BY <1>3, Places DEF RingInv
  <2>. QED
    BY <1>1, <1>6, <2>1 DEF Bytes, BatchInv, Parsing
<1>16. EndInv'
  BY <1>1, <1>2 DEF EndInv
<1>. QED
  BY <1>4, <1>5, <1>9, <1>11, <1>12, <1>13, <1>14, <1>15, <1>16 DEF Bytes

(* The steps of the child, of the shutdown, and those of the parse stage   *)
(* between two batches.                                                    *)
LEMMA OthersKeep ==
  ASSUME Inv,
         ChildWrite \/ ChildExit \/ ThreadExit \/ SignalSlot \/ WriteIdle \/ Join
  PROVE  Inv'
<1>. USE BufferAssumption DEF Inv
<1>. Numbers /\ Booleans
  BY TypeParts
<1>1. /\ UNCHANGED <<taken, ring, slot, batch, pos, output, total, spins,
                     revents>>
      /\ gpc' = gpc \/ (gpc = "blocked" /\ gpc' = "claim")
      /\ ppc' = ppc \/ (~Parsing /\ ppc' \in {"wake", "next"})
           \/ (ppc = "join" /\ ppc' = "ended")
      /\ done' = done
  BY DEF ChildWrite, ChildExit, ThreadExit, SignalSlot, WriteIdle, Join, parse,
         gather, child, Parsing
<1>2. /\ Parsing' <=> Parsing
      /\ InHand' = InHand
      /\ Filling' => count < BufferCount
      /\ Filling' /\ total' > 0 => Filling /\ total' = total
  BY <1>1 DEF Parsing, InHand, Filling, RingInv
<1>3. RingInv' /\ Bytes'
  BY <1>1, <1>2, NothingMoves
<1>4. Numbers'
  <2>1. written' \in Nat /\ written' >= written
    <3>1. written' \in {written, written + 1}
      BY DEF ChildWrite, ChildExit, ThreadExit, SignalSlot, WriteIdle, Join,
             child
    <3>. QED
      BY <3>1 DEF Numbers
  <2>2. idle' \in 0 .. PipeCapacity
    BY DEF ChildWrite, ChildExit, ThreadExit, SignalSlot, WriteIdle, Join,
           Numbers
  <2>. QED
    BY <1>1, <2>1, <2>2 DEF Numbers, ring, Parsing
<1>5. Booleans'
  <2>1. CASE ChildWrite
    BY <2>1 DEF ChildWrite, Booleans, gather, parse
  <2>2. CASE ChildExit
    BY <2>2 DEF ChildExit, Booleans, gather, parse
  <2>3. CASE ThreadExit
    BY <2>3 DEF ThreadExit, Booleans, gather, parse
  <2>4. CASE SignalSlot
    BY <2>4 DEF SignalSlot, Booleans, child
  <2>5. CASE WriteIdle \/ Join
    BY <2>5 DEF WriteIdle, Join, Booleans, child, gather
  <2>. QED
    BY <2>1, <2>2, <2>3, <2>4, <2>5
<1>6. EndInv'
  BY <1>1 DEF EndInv, ring
<1>. QED
  BY <1>3, <1>4, <1>5, <1>6, TypePartsNext

(* The gather thread is spawned, or the read thread returns without it.     *)
LEMMA SpawnKeeps ==
  ASSUME Inv, Spawn \/ SpawnFails
  PROVE  Inv'
<1>. USE BufferAssumption DEF Inv
<1>. Numbers /\ Booleans
  BY TypeParts
<1>1. /\ UNCHANGED <<written, taken, ring, idle, slot, batch, pos, output,
                     total, spins, revents>>
      /\ ppc = "start" /\ gpc = "unborn" /\ count = 0
      /\ \/ ppc' = "next" /\ gpc' = "claim"
         \/ ppc' = "ended" /\ gpc' = gpc
  BY DEF Spawn, SpawnFails, gather, child, EndInv
<1>2. /\ UNCHANGED <<hup, quit, bridging, done, bridged, fatal, wake>>
  BY DEF Spawn, SpawnFails, gather, child
<1>3. /\ Parsing' <=> Parsing
      /\ InHand' = InHand
      /\ ~Filling'
  BY <1>1 DEF Parsing, InHand, Filling
<1>4. RingInv' /\ Bytes'
  BY <1>1, <1>3, NothingMoves
<1>5. Numbers'
  BY <1>1 DEF Numbers, ring
<1>6. Booleans'
  BY <1>2 DEF Booleans
<1>7. EndInv'
  BY <1>1, <1>2 DEF EndInv, ring
<1>. QED
  BY <1>4, <1>5, <1>6, <1>7, TypePartsNext

(* The parse stage takes the oldest batch, or finds none.                  *)
LEMMA NextBatchKeeps ==
  ASSUME Inv, NextBatch
  PROVE  Inv'
<1>. USE BufferAssumption DEF Inv
<1>. Numbers /\ Booleans
  BY TypeParts
<1>1. /\ ppc = "next" /\ ~Parsing
      /\ UNCHANGED <<written, taken, bufs, lens, head, tail, count, idle, gpc,
                     total, spins, revents, output>>
  BY DEF NextBatch, Parsing, child, ring, gather
<1>2. Booleans' /\ done' = done
  BY DEF NextBatch, Booleans, child, gather
<1>3. CASE count > 0
  <2>1. slot' = tail /\ batch' = lens[tail] /\ pos' = 0 /\ ppc' = "parse"
    BY <1>3 DEF NextBatch
  <2>2. Numbers'
    BY <1>1, <2>1 DEF Numbers
  <2>3. RingInv'
    BY <1>1, <1>3, <2>1 DEF RingInv, Filling, Parsing, Place
  <2>4. Bytes'
    <3>1. Published' /\ Adjacent'
      BY <1>1 DEF Bytes, Published, Adjacent, Place, First
    <3>2. Parsed' = Parsed
      BY <1>1, <2>1 DEF Parsed, Parsing
    <3>3. Oldest'
      BY <1>1, <3>2 DEF Bytes, Oldest, First
    <3>4. Newest' /\ NoneInFlight' /\ Gathered'
      BY <1>1 DEF Bytes, Newest, NoneInFlight, Gathered, InHand, Filling,
                  First, Place
    <3>5. BatchInv'
      BY <1>1, <2>1 DEF BatchInv, Numbers
    <3>. QED
      BY <3>1, <3>3, <3>4, <3>5 DEF Bytes
  <2>5. EndInv'
    BY <1>1, <1>2, <2>1 DEF EndInv
  <2>. QED
    BY <1>2, <2>2, <2>3, <2>4, <2>5, TypePartsNext
<1>4. CASE ~ (count > 0)
  <2>1. /\ UNCHANGED <<slot, batch, pos>>
        /\ ppc' \in {"join", "sleep"} /\ (ppc' = "join" => done)
    BY <1>4 DEF NextBatch
  <2>2. /\ Parsing' <=> Parsing
        /\ InHand' = InHand
        /\ Filling' => count < BufferCount
        /\ Filling' /\ total' > 0 => Filling /\ total' = total
    BY <1>1, <2>1 DEF Parsing, InHand, Filling, RingInv
  <2>3. RingInv' /\ Bytes'
    BY <1>1, <2>1, <2>2, NothingMoves DEF ring
  <2>4. Numbers'
    BY <1>1, <2>1 DEF Numbers
  <2>5. EndInv'
    BY <1>1, <1>2, <1>4, <2>1 DEF EndInv, Numbers
  <2>. QED
    BY <1>2, <2>3, <2>4, <2>5, TypePartsNext
<1>. QED
  BY <1>3, <1>4

(* Byte pos + 1 of the oldest batch is the one after the last parsed.      *)
LEMMA NextByte ==
  ASSUME Inv, ParseByte
  PROVE  output' = output + 1
<1>. USE DEF Inv
<1>. Numbers
  BY TypeParts
<1>1. Parsing /\ count > 0 /\ slot = tail /\ batch = lens[tail] /\ pos < batch
      /\ output' = bufs[tail][pos + 1] /\ pos \in Nat /\ count \in Nat
      /\ output \in Nat
  BY DEF ParseByte, Parsing, RingInv, Bytes, BatchInv, Numbers
<1>2. Place(0) = tail /\ 0 \in 0 .. count - 1
  BY <1>1, Places
<1>3. lens[tail] \in 1 .. BufferCapacity /\ Len(bufs[tail]) = lens[tail]
      /\ \A i \in 1 .. lens[tail] : bufs[tail][i] = First(tail) + (i - 1)
  BY <1>2 DEF Bytes, Published
<1>4. pos + 1 \in 1 .. lens[tail]
  BY <1>1, <1>3, BufferAssumption
<1>5. output' = First(tail) + pos
  <2>1. output' = First(tail) + ((pos + 1) - 1)
    BY <1>1, <1>3, <1>4
  <2>2. (pos + 1) - 1 = pos
    BY <1>1
  <2>. QED
    BY <2>1, <2>2
<1>6. First(tail) + pos = output + 1
  BY <1>1 DEF Bytes, Oldest, Parsed
<1>. QED
  BY <1>5, <1>6

LEMMA ParseByteKeeps ==
  ASSUME Inv, ParseByte
  PROVE  Inv'
<1>. USE BufferAssumption DEF Inv
<1>. Numbers /\ Booleans
  BY TypeParts
<1>1. /\ Parsing /\ Parsing' /\ pos < batch /\ pos' = pos + 1 /\ count > 0
      /\ slot = tail
      /\ UNCHANGED <<written, taken, bufs, lens, head, tail, count, idle, gpc,
                     total, spins, revents, ppc, slot, batch>>
  BY DEF ParseByte, Parsing, child, ring, gather, RingInv
<1>2. Booleans' /\ done' = done
  BY DEF ParseByte, Booleans, child, gather
<1>3. output' = output + 1
  BY NextByte
<1>4. Numbers'
  BY <1>1, <1>3 DEF Numbers
<1>5. RingInv'
  BY <1>1 DEF RingInv, Filling, Place
<1>6. Published' /\ Adjacent'
  BY <1>1 DEF Bytes, Published, Adjacent, Place, First
<1>7. Oldest'
  <2>1. First(tail) + pos = output + 1
    BY <1>1 DEF Bytes, Oldest, Parsed
  <2>2. First(tail) \in Nat
    <3>1. Place(0) = tail /\ 0 \in 0 .. count - 1
      BY <1>1, Places DEF Numbers
    <3>2. Len(bufs[tail]) \in 1 .. BufferCapacity
      BY <3>1 DEF Bytes, Published
    <3>3. 1 \in 1 .. Len(bufs[tail]) /\ bufs[tail] \in Seq(Nat)
      BY <3>2 DEF Numbers
    <3>. QED
      BY <3>3, ElementOfSeq DEF First
  <2>3. First(tail)' = First(tail)
    BY <1>1 DEF First
  <2>4. First(tail) + (pos + 1) = (output + 1) + 1
    <3>1. PICK x \in Nat : x = First(tail)
      BY <2>2, Zenon
    <3>2. pos \in Nat /\ output \in Nat
      BY DEF Numbers
    <3>3. x + pos = output + 1
      BY ONLY <2>1, <3>1, Zenon
    <3>4. x + (pos + 1) = (output + 1) + 1
      BY ONLY <3>2, <3>3
    <3>. QED
      BY ONLY <3>1, <3>4, Zenon
  <2>. QED
    BY <1>1, <1>3, <2>3, <2>4 DEF Oldest, Parsed
<1>8. Newest' /\ NoneInFlight' /\ Gathered'
  BY <1>1 DEF Bytes, Newest, NoneInFlight, Gathered, InHand, Filling, First,
              Place
<1>9. BatchInv'
  BY <1>1 DEF Bytes, BatchInv, Numbers
<1>10. EndInv'
  BY <1>1, <1>2 DEF EndInv
<1>. QED
  BY <1>2, <1>4, <1>5, <1>6, <1>7, <1>8, <1>9, <1>10, TypePartsNext DEF Bytes

(* Giving the oldest buffer back moves every other one a place down.       *)
LEMMA ReleaseKeeps ==
  ASSUME Inv, Release
  PROVE  Inv'
<1>. USE BufferAssumption DEF Inv
<1>. Numbers /\ Booleans
  BY TypeParts
<1>1. /\ Parsing /\ ~Parsing' /\ count > 0 /\ slot = tail
      /\ pos = lens[tail]
      /\ tail' = Inc(tail) /\ count' = count - 1 /\ ppc' = "signal"
      /\ UNCHANGED <<written, taken, bufs, lens, head, idle, gpc, total, spins,
                     revents, slot, batch, pos, output>>
  BY DEF Release, Parsing, child, gather, RingInv, Bytes, BatchInv
<1>2. wake' \in BOOLEAN /\ UNCHANGED <<hup, quit, bridging, done, bridged, fatal>>
  BY DEF Release, child, gather, Booleans
<1>3. /\ count \in 1 .. BufferCount /\ BufferCount \in Nat /\ count - 1 \in Nat
      /\ tail \in Nat /\ tail < BufferCount /\ tail \in Slots
      /\ taken \in Nat /\ output \in Nat /\ total \in Nat
      /\ bufs \in [Slots -> Seq(Nat)]
  BY <1>1 DEF Numbers, Slots
<1>4. tail' = (IF tail + 1 = BufferCount THEN 0 ELSE tail + 1) /\ tail' \in Slots
  BY <1>1, <1>3, IncStep
<1>5. ASSUME NEW k \in 0 .. count - 1
      PROVE  (IF tail' + k < BufferCount THEN tail' + k
              ELSE (tail' + k) - BufferCount) = Place(k + 1)
  <2>1. k \in Nat /\ k < BufferCount
    BY <1>3
  <2>2. CASE tail + 1 = BufferCount
    BY <1>3, <1>4, <2>1, <2>2 DEF Place
  <2>3. CASE tail + 1 # BufferCount
    BY <1>3, <1>4, <2>1, <2>3 DEF Place
  <2>. QED
    BY <2>2, <2>3
<1>6. \A k \in 0 .. count - 1 : Place(k)' = Place(k + 1)
  BY <1>5 DEF Place
<1>7. tail' = Place(1) /\ tail = Place(0)
  BY <1>3, <1>4 DEF Place
<1>8. InHand' = InHand /\ InHand \in Nat /\ Parsed = lens[tail] /\ Parsed' = 0
  BY <1>1, <1>3 DEF InHand, Filling, Parsed
<1>9. TypeOK'
  <2>1. Numbers'
    BY <1>1, <1>3, <1>4 DEF Numbers
  <2>2. Booleans'
    BY <1>2 DEF Booleans
  <2>. QED
    BY <2>1, <2>2, TypePartsNext
<1>10. RingInv'
  <2>1. head = Place(count)
    BY DEF RingInv
  <2>2. head' = Place(count)'
    <3>1. Place(count)' = (IF tail' + count' < BufferCount THEN tail' + count'
                           ELSE (tail' + count') - BufferCount)
      BY DEF Place
    <3>2. count' \in 0 .. count - 1 /\ count' + 1 = count
      BY <1>1, <1>3
    <3>. QED
      BY <1>1, <1>5, <2>1, <3>1, <3>2
  <2>3. Filling' => count' < BufferCount
    BY <1>1, <1>3
  <2>. QED
    BY <1>1, <2>2, <2>3 DEF RingInv
<1>11. Published'
  <2>. SUFFICES ASSUME NEW k \in 0 .. count - 2
                PROVE  /\ lens[Place(k + 1)] \in 1 .. BufferCapacity
                       /\ Len(bufs[Place(k + 1)]) = lens[Place(k + 1)]
                       /\ \A i \in 1 .. lens[Place(k + 1)] :
                            bufs[Place(k + 1)][i] = First(Place(k + 1)) + (i - 1)
    <3>1. count' - 1 = count - 2
      BY <1>1, <1>3
    <3>2. \A k \in 0 .. count - 2 : k \in 0 .. count - 1
      BY <1>3
    <3>3. \A k \in 0 .. count - 2 : Place(k)' = Place(k + 1)
      BY <1>6, <3>2
    <3>. QED
      BY <1>1, <3>1, <3>3 DEF Published, First
  <2>1. k + 1 \in 0 .. count - 1
    BY <1>3
  <2>. QED
    BY <2>1 DEF Bytes, Published
<1>12. Adjacent'
  <2>. SUFFICES ASSUME NEW k \in 1 .. count - 2
                PROVE  First(Place(k + 1)) = First(Place(k)) + lens[Place(k)]
    <3>1. count' - 1 = count - 2
      BY <1>1, <1>3
    <3>2. \A k \in 1 .. count - 2 :
            /\ k \in 0 .. count - 1 /\ k - 1 \in 0 .. count - 1
            /\ (k - 1) + 1 = k
      BY <1>3
    <3>3. \A k \in 1 .. count - 2 :
            Place(k)' = Place(k + 1) /\ Place(k - 1)' = Place(k)
      BY <1>6, <3>2
    <3>. QED
      BY <1>1, <3>1, <3>3 DEF Adjacent, First
  <2>1. k + 1 \in 1 .. count - 1 /\ (k + 1) - 1 = k
    BY <1>3
  <2>2. First(Place(k + 1)) = First(Place((k + 1) - 1)) + lens[Place((k + 1) - 1)]
    BY <2>1 DEF Bytes, Adjacent
  <2>. QED
    BY <2>1, <2>2
<1>13. First(tail) + lens[tail] = output + 1
  BY <1>1, <1>8 DEF Bytes, Oldest
<1>14. Oldest'
  <2>1. CASE count = 1
    BY <1>1, <2>1 DEF Oldest
  <2>2. CASE count # 1
    <3>1. 1 \in 1 .. count - 1 /\ 1 - 1 = 0
      BY <1>3, <2>2
    <3>2. First(Place(1)) = First(Place(1 - 1)) + lens[Place(1 - 1)]
      BY <3>1 DEF Bytes, Adjacent
    <3>3. First(tail)' = output + 1
      BY <1>1, <1>7, <1>13, <3>1, <3>2 DEF First
    <3>4. (output + 1) + 0 = output + 1
      BY <1>3
    <3>. QED
      BY <1>1, <1>8, <3>3, <3>4 DEF Oldest
  <2>. QED
    BY <2>1, <2>2
<1>15. Newest'
  <2>1. CASE count = 1
    BY <1>1, <2>1 DEF Newest
  <2>2. CASE count # 1
    <3>1. /\ count' - 1 = count - 2 /\ count - 2 \in 0 .. count - 1
          /\ (count - 2) + 1 = count - 1
      <4>1. count \in Nat /\ count > 1 /\ count' = count - 1
        BY <1>1, <1>3, <2>2
      <4>. QED
        BY ONLY <4>1
    <3>2. Place(count - 1)' = Place(count - 1)
      <4>1. \A k \in 0 .. count - 1 : Place(k + 1) =
              (IF tail' + k < BufferCount THEN tail' + k
               ELSE (tail' + k) - BufferCount)
        BY <1>5
      <4>2. Place(count - 1) =
              (IF tail' + (count' - 1) < BufferCount THEN tail' + (count' - 1)
               ELSE (tail' + (count' - 1)) - BufferCount)
        BY <3>1, <4>1
      <4>. QED
        BY <4>2 DEF Place
    <3>3. First(Place(count - 1)) + lens[Place(count - 1)] + InHand = taken + 1
      BY <1>1 DEF Bytes, Newest
    <3>. QED
      BY <1>1, <1>8, <3>2, <3>3 DEF Newest, First
  <2>. QED
    BY <2>1, <2>2
<1>16. NoneInFlight'
  <2>1. CASE count = 1
    <3>1. First(Place(0)) + lens[Place(0)] + InHand = taken + 1
      <4>1. count > 0 /\ count - 1 = 0
        BY <2>1
      <4>. QED
        BY <4>1 DEF Bytes, Newest
    <3>2. (output + 1) + InHand = taken + 1
      BY ONLY <1>7, <1>13, <3>1, Zenon
    <3>3. output + InHand = taken
      BY ONLY <1>3, <1>8, <3>2
    <3>. QED
      BY <1>1, <1>8, <3>3 DEF NoneInFlight
  <2>2. CASE count # 1
    BY <1>1, <1>3, <2>2 DEF NoneInFlight
  <2>. QED
    BY <2>1, <2>2
<1>17. Gathered' /\ BatchInv'
  BY <1>1 DEF Bytes, Gathered, Filling, BatchInv
<1>18. EndInv'
  BY <1>1, <1>2 DEF EndInv
<1>. QED
  BY <1>9, <1>10, <1>11, <1>12, <1>14, <1>15, <1>16, <1>17, <1>18 DEF Bytes

-----------------------------------------------------------------------------
(* Every step keeps the invariant.                                         *)
LEMMA NextInv == Inv /\ [Next]_vars => Inv'
<1>. SUFFICES ASSUME Inv, [Next]_vars PROVE Inv'
  OBVIOUS
<1>1. CASE UNCHANGED vars
  <2>1. TypeOK' /\ RingInv'
    BY <1>1 DEF vars, Inv, TypeOK, RingInv, Place, Filling, Parsing
  <2>2. Bytes'
    BY <1>1 DEF vars, Inv, Bytes, Published, Adjacent, Oldest, Newest,
                NoneInFlight, Gathered, BatchInv, Place, First, InHand, Parsed,
                Filling, Parsing
  <2>3. EndInv'
    BY <1>1 DEF vars, Inv, EndInv
  <2>. QED
    BY <2>1, <2>2, <2>3 DEF Inv
<1>2. CASE ChildWrite \/ ChildExit \/ ThreadExit
  BY <1>2, OthersKeep
<1>3. CASE Gather \/ BridgeTimeout \/ PollFails
  BY <1>3, GatherKeeps, ReadKeeps, PublishKeeps DEF Gather
<1>4. CASE Parse \/ SpawnFails
  BY <1>4, OthersKeep, SpawnKeeps, NextBatchKeeps, ParseByteKeeps, ReleaseKeeps
  DEF Parse
<1>. QED
  BY <1>1, <1>2, <1>3, <1>4 DEF Next

LEMMA Inductive == Spec => []Inv
BY InitInv, NextInv, PTL DEF Spec

(* The state of both stages keeps its type: no buffer is ever read beyond  *)
(* its capacity, and the count never leaves the ring.                      *)
THEOREM TypeCorrect == Spec => []TypeOK
<1>1. Inv => TypeOK
  BY DEF Inv
<1>. QED
  BY <1>1, Inductive, PTL

(* The head of the ring is count places after its tail, and the gather     *)
(* stage holds a buffer only while one is free.                            *)
THEOREM RingKept == Spec => []RingInv
<1>1. Inv => RingInv
  BY DEF Inv
<1>. QED
  BY <1>1, Inductive, PTL

(* The buffer that Exec.zig's gather stage fills is never the one its      *)
(* parse stage reads without the lock.                                     *)
THEOREM BuffersAreExclusive == Spec => []BufferExclusive
<1>1. Inv => BufferExclusive
  <2>. SUFFICES ASSUME Inv, Filling, Parsing PROVE head # slot
    BY DEF BufferExclusive
  <2>1. count \in Nat /\ count > 0 /\ count < BufferCount /\ slot = tail
    BY BufferAssumption DEF Inv, RingInv, TypeOK
  <2>2. 0 \in 0 .. count - 1
    BY <2>1
  <2>. QED
    BY <2>1, <2>2, Places DEF Inv
<1>. QED
  BY <1>1, Inductive, PTL

(* When the io-reader thread ends, all that was read from the pty has been *)
(* handed to the terminal.                                                 *)
THEOREM EndedIsDrained == Spec => []EndsDrained
<1>1. Inv => EndsDrained
  <2>. SUFFICES ASSUME Inv, ppc = "ended" PROVE output = taken
    BY DEF EndsDrained
  <2>1. count = 0 /\ InHand = 0
    BY DEF Inv, EndInv, InHand, Filling
  <2>2. output + 0 = taken
    BY <2>1 DEF Inv, Bytes, NoneInFlight
  <2>3. output \in Nat
    BY DEF Inv, TypeOK
  <2>. QED
    BY <2>2, <2>3
<1>. QED
  BY <1>1, Inductive, PTL

(* The terminal gets the child's bytes in the order they were written,     *)
(* each exactly once.                                                      *)
THEOREM BytesInOrder == Spec => InOrder
<1>1. Inv /\ [Next]_vars => [output' = output + 1]_output
  <2>. SUFFICES ASSUME Inv, [Next]_vars, output' # output
                PROVE  output' = output + 1
    OBVIOUS
  <2>1. ParseByte
    BY DEF Next, Gather, Parse, vars, parse, WakeParse, ReadFrame,
           ChildWrite, ChildExit, ThreadExit, Claim, ReadBytes, ReadClosed,
           DeliverSmall, Spin, BudgetSpent, Bridge, BridgeEvents,
           BridgeTimeout, ClearBridging, DrainIdle, Publish, PublishNothing,
           AnnounceBatch, Poll, PollFails, SetDone, AnnounceDone, NextBatch,
           Release, SignalSlot, WriteIdle, Join, Spawn, SpawnFails
  <2>. QED
    BY <2>1, NextByte
<1>. QED
  BY <1>1, Inductive, PTL DEF Spec, InOrder

-----------------------------------------------------------------------------
(* Wakeups.  A stage looks at its condition and goes to sleep under the    *)
(* mutex, so a change that it has to see comes after it and is followed by *)
(* the signal; the bridge sleeps only after it has armed the wake through  *)
(* the idle pipe.                                                          *)
WakeInv ==
  /\ NoLostWakeup
  /\ gpc = "bridge" => bridging
  /\ IdleWakePending

(* The counters a step of either stage looks at are numbers.               *)
LEMMA Counters ==
  ASSUME TypeOK
  PROVE  /\ count \in Nat /\ BufferCount \in Nat \ {0} /\ idle \in Nat
         /\ PipeCapacity \in Nat \ {0}
BY BufferAssumption DEF TypeOK

(* The gather stage signals what it publishes and arms what it waits for.  *)
LEMMA GatherWakes ==
  ASSUME TypeOK, WakeInv, Gather \/ BridgeTimeout \/ PollFails
  PROVE  WakeInv'
<1>. USE Counters DEF WakeInv, NoLostWakeup, IdleWakePending, child, ring,
       parse
<1>1. CASE Claim
  BY <1>1 DEF Claim
<1>2. CASE ReadBytes
  BY <1>2 DEF ReadBytes, ReadFrame
<1>3. CASE ReadClosed
  BY <1>3 DEF ReadClosed
<1>4. CASE DeliverSmall
  BY <1>4 DEF DeliverSmall, Dry
<1>5. CASE Spin
  BY <1>5 DEF Spin
<1>6. CASE BudgetSpent
  BY <1>6 DEF BudgetSpent, Dry
<1>7. CASE Bridge
  BY <1>7 DEF Bridge, Dry
<1>8. CASE BridgeEvents
  BY <1>8 DEF BridgeEvents
<1>9. CASE ClearBridging
  BY <1>9 DEF ClearBridging
<1>10. CASE DrainIdle
  BY <1>10 DEF DrainIdle
<1>11. CASE Publish
  BY <1>11 DEF Publish
<1>12. CASE PublishNothing
  BY <1>12 DEF PublishNothing, AfterBatch
<1>13. CASE AnnounceBatch
  BY <1>13 DEF AnnounceBatch, WakeParse, AfterBatch
<1>14. CASE Poll
  BY <1>14 DEF Poll
<1>15. CASE SetDone
  BY <1>15 DEF SetDone
<1>16. CASE AnnounceDone
  BY <1>16 DEF AnnounceDone, WakeParse
<1>17. CASE BridgeTimeout
  BY <1>17 DEF BridgeTimeout
<1>18. CASE PollFails
  BY <1>18 DEF PollFails
<1>. QED
  BY <1>1, <1>2, <1>3, <1>4, <1>5, <1>6, <1>7, <1>8, <1>9, <1>10, <1>11, <1>12, <1>13, <1>14, <1>15, <1>16, <1>17, <1>18 DEF Gather

(* The parse stage signals the slot it frees, and writes to the idle pipe  *)
(* if the release that left nothing in flight found a bridge armed.        *)
LEMMA ParseWakes ==
  ASSUME TypeOK, WakeInv, Parse \/ SpawnFails
  PROVE  WakeInv'
<1>. USE Counters DEF WakeInv, NoLostWakeup, IdleWakePending, child, ring,
       gather
<1>1. CASE NextBatch
  BY <1>1 DEF NextBatch
<1>2. CASE ParseByte
  BY <1>2 DEF ParseByte
<1>3. CASE Release
  <2>1. /\ ppc' = "signal" /\ UNCHANGED <<gpc, bridging, idle>>
    BY <1>3 DEF Release
  <2>2. NoLostWakeup' /\ (gpc' = "bridge" => bridging')
    BY <2>1
  <2>3. gpc = "bridge" /\ count' = 0 /\ IdlePipe => wake'
    <3>1. count' = 0 => count = 1
      BY <1>3 DEF Release
    <3>2. wake' = (count = 1 /\ bridging /\ IdlePipe)
      BY <1>3 DEF Release
    <3>3. gpc = "bridge" => bridging
      BY DEF WakeInv
    <3>. QED
      BY <3>1, <3>2, <3>3, Zenon
  <2>. QED
    BY <2>1, <2>2, <2>3
<1>4. CASE SignalSlot
  BY <1>4 DEF SignalSlot
<1>5. CASE WriteIdle
  BY <1>5 DEF WriteIdle
<1>6. CASE Join
  BY <1>6 DEF Join
<1>7. CASE Spawn
  BY <1>7 DEF Spawn
<1>8. CASE SpawnFails
  BY <1>8 DEF SpawnFails
<1>. QED
  BY <1>1, <1>2, <1>3, <1>4, <1>5, <1>6, <1>7, <1>8 DEF Parse

(* The wakeups are kept in every reachable state.                          *)
LEMMA WakeHolds == Spec => []WakeInv
<1>1. Init => WakeInv
  BY DEF Init, WakeInv, NoLostWakeup, IdleWakePending
<1>2. ASSUME Inv, WakeInv, [Next]_vars PROVE WakeInv'
  <2>1. CASE Gather \/ BridgeTimeout \/ PollFails
    BY <1>2, <2>1, GatherWakes DEF Inv
  <2>2. CASE Parse \/ SpawnFails
    BY <1>2, <2>2, ParseWakes DEF Inv
  <2>3. CASE ChildWrite \/ ChildExit \/ ThreadExit \/ UNCHANGED vars
    BY <1>2, <2>3 DEF ChildWrite, ChildExit, ThreadExit, vars, ring, gather,
       parse, WakeInv, NoLostWakeup, IdleWakePending
  <2>. QED
    BY <1>2, <2>1, <2>2, <2>3 DEF Next
<1>. QED
  BY <1>1, <1>2, Inductive, PTL DEF Spec

(* Neither batch_ready nor slot_free loses a wakeup: a stage asleep        *)
(* although its condition holds has the signal on its way, though both     *)
(* threads signal after they have given up Pipeline.mutex.                 *)
THEOREM WakeupsKept == Spec => []NoLostWakeup
<1>1. WakeInv => NoLostWakeup
  BY DEF WakeInv
<1>. QED
  BY <1>1, WakeHolds, PTL

(* A gather stage that bridges a gap never sleeps on a batch the parse     *)
(* stage could take now: if nothing is in flight any more, the idle pipe   *)
(* holds a byte or the parse stage is about to write it.                   *)
THEOREM BridgeIsWoken == Spec => []IdleWakePending
<1>1. WakeInv => IdleWakePending
  BY DEF WakeInv
<1>. QED
  BY <1>1, WakeHolds, PTL

=============================================================================
