----------------------------- MODULE ReadThread ------------------------------
(***************************************************************************)
(* termio/Exec.zig, ReadThread: the two threads that carry a child's       *)
(* output from the pty to the terminal.  The gather stage reads the pty    *)
(* into a ring of BufferCount buffers; the parse stage (the io-reader      *)
(* thread) hands each published buffer to Termio.processOutput.  A batch   *)
(* is delivered at the first EAGAIN unless the stream looks saturated, in  *)
(* which case the gather stage bridges the gap: it retries, then sleeps in *)
(* a short poll that the parse stage interrupts through the idle pipe.     *)
(*                                                                         *)
(* Bytes are numbered in the order the child writes them, so a byte is its *)
(* position in the stream.  Every critical section of Pipeline.mutex,      *)
(* every signal, poll, read and write is an action of its own.             *)
(***************************************************************************)
EXTENDS Naturals, Sequences

CONSTANTS
  BufferCount,     \* buffer_count
  BufferCapacity,  \* buffer_capacity
  Threshold,       \* bridge_threshold
  SpinMax,         \* bridge_spin_max
  IdlePipe,        \* whether pipe2 gave the parse stage its wake pipe
  PipeCapacity,    \* how many bytes the idle pipe holds
  KernelQueue,     \* how many bytes the pty holds before the child blocks
  MaxBytes         \* bound: how many bytes the child writes

ASSUME BufferAssumption ==
  /\ BufferCount \in Nat \ {0}
  /\ BufferCapacity \in Nat \ {0}
  /\ Threshold \in Nat /\ SpinMax \in Nat
  /\ PipeCapacity \in Nat \ {0}
  /\ KernelQueue \in Nat \ {0} /\ MaxBytes \in Nat
  /\ IdlePipe \in BOOLEAN

VARIABLES
  written, taken,          \* bytes into and out of the pty
  hup,                     \* the child's side of the pty is closed
  quit,                    \* threadExit wrote to the quit pipe
  bufs, lens,              \* the buffers and their valid lengths
  head, tail, count,       \* the ring
  bridging, done,          \* flags under the mutex
  idle,                    \* bytes in the idle pipe
  gpc,                     \* where the gather stage is
  total, spins, bridged,   \* its locals; bridged: bridge_start is set
  fatal, revents,          \* its locals; revents: what poll returned
  ppc,                     \* where the parse stage is
  slot, batch, pos, wake,  \* its locals: the batch it parses, how far it is
  output                   \* the last byte handed to the terminal

child == <<written, hup, quit>>
ring == <<bufs, lens, head, tail, count>>
gather == <<gpc, total, spins, bridged, fatal, revents>>
parse == <<ppc, slot, batch, pos, wake, output>>
vars == <<written, taken, hup, quit, bufs, lens, head, tail, count, bridging,
          done, idle, gpc, total, spins, bridged, fatal, revents, ppc, slot,
          batch, pos, wake, output>>

Slots == 0 .. BufferCount - 1
Inc(i) == (i + 1) % BufferCount
Events == {"in", "hup", "quit", "idle"}

Init ==
  /\ written = 0 /\ taken = 0 /\ hup = FALSE /\ quit = FALSE
  /\ bufs = [i \in Slots |-> <<>>]
  /\ lens = [i \in Slots |-> 0]
  /\ head = 0 /\ tail = 0 /\ count = 0
  /\ bridging = FALSE /\ done = FALSE
  /\ idle = 0
  /\ gpc = "unborn"
  /\ total = 0 /\ spins = 0 /\ bridged = FALSE /\ fatal = FALSE
  /\ revents = {}
  /\ ppc = "start"
  /\ slot = 0 /\ batch = 0 /\ pos = 0 /\ wake = FALSE
  /\ output = 0

-----------------------------------------------------------------------------
(* The world outside: the child, and the io thread that shuts it down.     *)

ChildWrite ==
  /\ ~hup
  /\ written < MaxBytes
  /\ written - taken < KernelQueue
  /\ written' = written + 1
  /\ UNCHANGED <<taken, hup, quit, ring, bridging, done, idle, gather, parse>>

ChildExit ==
  /\ ~hup
  /\ hup' = TRUE
  /\ UNCHANGED <<written, taken, quit, ring, bridging, done, idle, gather,
                 parse>>

(* Exec.threadExit writes to the quit pipe.  It has stopped the child, but *)
(* others may keep the pty open and go on writing.                         *)
ThreadExit ==
  /\ ~quit
  /\ quit' = TRUE
  /\ UNCHANGED <<written, taken, hup, ring, bridging, done, idle, gather,
                 parse>>

(* What poll reports for the pty and the quit pipe.                        *)
Ready ==
  {e \in {"in", "hup", "quit"} : \/ e = "in" /\ taken < written
                                 \/ e = "hup" /\ hup
                                 \/ e = "quit" /\ quit}

-----------------------------------------------------------------------------
(* The gather stage.                                                       *)

(* Mutant: the ring is taken for full one buffer too late.                 *)
ClaimFull ==
  /\ gpc = "claim"
  /\ gpc' = "read"
  /\ total' = 0 /\ spins' = 0 /\ bridged' = FALSE
  /\ UNCHANGED <<child, taken, ring, bridging, done, idle, fatal, revents,
                 parse>>

(* Claim the next buffer, or sleep in slot_free while all are in flight.   *)
Claim ==
  /\ gpc = "claim"
  /\ IF count = BufferCount
     THEN /\ gpc' = "blocked"
          /\ UNCHANGED <<total, spins, bridged>>
     ELSE /\ gpc' = "read"
          /\ total' = 0 /\ spins' = 0 /\ bridged' = FALSE
  /\ UNCHANGED <<child, taken, ring, bridging, done, idle, fatal, revents,
                 parse>>

(* What a read leaves alone.                                               *)
ReadFrame ==
  /\ spins' = 0
  /\ UNCHANGED <<child, lens, head, tail, count, bridging, done, idle,
                 bridged, fatal, revents, parse>>

(* Mutants: a read past the end of the buffer; a read to its start.        *)
ReadBytesOver ==
  /\ gpc = "read"
  /\ \E n \in 1 .. (written - taken) :
       /\ total <= BufferCapacity
       /\ bufs' = [bufs EXCEPT ![head] =
                     SubSeq(@, 1, total) \o [i \in 1 .. n |-> taken + i]]
       /\ total' = total + n /\ taken' = taken + n
       /\ gpc' = IF total + n < BufferCapacity THEN "read" ELSE "publish"
  /\ ReadFrame

ReadBytesFront ==
  /\ gpc = "read"
  /\ \E n \in 1 .. (written - taken) :
       /\ total + n <= BufferCapacity
       /\ bufs' = [bufs EXCEPT ![head] =
                     [i \in 1 .. n |-> taken + i] \o SubSeq(@, 1, total)]
       /\ total' = total + n /\ taken' = taken + n
       /\ gpc' = IF total + n < BufferCapacity THEN "read" ELSE "publish"
  /\ ReadFrame

(* read returns some of the bytes in the pty, as many as fit at most.      *)
ReadBytes ==
  /\ gpc = "read"
  /\ \E n \in 1 .. (written - taken) :
       /\ total + n <= BufferCapacity
       /\ bufs' = [bufs EXCEPT ![head] =
                     SubSeq(@, 1, total) \o [i \in 1 .. n |-> taken + i]]
       /\ total' = total + n
       /\ taken' = taken + n
       /\ gpc' = IF total + n < BufferCapacity THEN "read" ELSE "publish"
  /\ ReadFrame

(* The pty is closed and empty: EIO on Linux, a read of 0 bytes on macOS.  *)
ReadClosed ==
  /\ gpc = "read"
  /\ taken = written /\ hup
  /\ fatal' \in {TRUE, fatal}
  /\ gpc' = "publish"
  /\ UNCHANGED <<child, taken, ring, bridging, done, idle, total, spins,
                 bridged, revents, parse>>

Dry == gpc = "read" /\ taken = written /\ ~hup

(* Too little to call the stream saturated: deliver without delay.         *)
DeliverSmall ==
  /\ Dry
  /\ total < Threshold
  /\ gpc' = "publish"
  /\ UNCHANGED <<child, taken, ring, bridging, done, idle, total, spins,
                 bridged, fatal, revents, parse>>

Spin ==
  /\ Dry
  /\ total >= Threshold
  /\ spins < SpinMax
  /\ spins' = spins + 1
  /\ UNCHANGED <<child, taken, ring, bridging, done, idle, gpc, total,
                 bridged, fatal, revents, parse>>

(* The batch has bridged for its whole budget.                             *)
BudgetSpent ==
  /\ Dry
  /\ total >= Threshold /\ spins >= SpinMax
  /\ bridged
  /\ gpc' = "publish"
  /\ UNCHANGED <<child, taken, ring, bridging, done, idle, total, spins,
                 bridged, fatal, revents, parse>>

(* Mutant: the wake is not armed.                                          *)
BridgeUnarmed ==
  /\ Dry
  /\ total >= Threshold /\ spins >= SpinMax
  /\ ~bridged /\ bridged' = TRUE
  /\ gpc' = IF count = 0 THEN "publish" ELSE "bridge"
  /\ UNCHANGED <<child, taken, ring, bridging, done, idle, total, spins,
                 fatal, revents, parse>>

(* Deliver if the parser is idle, else arm the wake and go to sleep.       *)
Bridge ==
  /\ Dry
  /\ total >= Threshold /\ spins >= SpinMax
  /\ bridged' = TRUE
  /\ IF count = 0
     THEN gpc' = "publish" /\ UNCHANGED bridging
     ELSE gpc' = "bridge" /\ bridging' = TRUE
  /\ UNCHANGED <<child, taken, ring, done, idle, total, spins, fatal,
                 revents, parse>>

(* The bridge poll reports events.                                         *)
BridgeEvents ==
  /\ gpc = "bridge"
  /\ revents' = Ready \cup (IF idle > 0 THEN {"idle"} ELSE {})
  /\ revents' # {}
  /\ gpc' = "bridged"
  /\ UNCHANGED <<child, taken, ring, bridging, done, idle, total, spins,
                 bridged, fatal, parse>>

(* The bridge poll times out, or fails.                                    *)
BridgeTimeout ==
  /\ gpc = "bridge"
  /\ revents' = {}
  /\ gpc' = "bridged"
  /\ UNCHANGED <<child, taken, ring, bridging, done, idle, total, spins,
                 bridged, fatal, parse>>

(* clearBridging, and what to do about the events: quit before idle before *)
(* data.                                                                   *)
ClearBridging ==
  /\ gpc = "bridged"
  /\ bridging' = FALSE
  /\ fatal' = (fatal \/ "quit" \in revents)
  /\ \/ "quit" \in revents /\ gpc' = "publish"
     \/ "quit" \notin revents /\ "idle" \in revents /\ gpc' = "drain"
     \/ {"quit", "idle"} \cap revents = {} /\ "in" \in revents /\ gpc' = "read"
     \/ {"quit", "idle", "in"} \cap revents = {} /\ gpc' = "publish"
  /\ UNCHANGED <<child, taken, ring, done, idle, total, spins, bridged,
                 revents, parse>>

DrainIdle ==
  /\ gpc = "drain"
  /\ idle' = 0
  /\ gpc' = "publish"
  /\ UNCHANGED <<child, taken, ring, bridging, done, total, spins, bridged,
                 fatal, revents, parse>>

(* After a batch: stop, read on if the buffer was full, or wait for data.  *)
AfterBatch ==
  CASE fatal -> "finish"
    [] ~fatal /\ total = BufferCapacity -> "claim"
    [] OTHER -> "poll"

Publish ==
  /\ gpc = "publish"
  /\ total > 0
  /\ lens' = [lens EXCEPT ![head] = total]
  /\ head' = Inc(head)
  /\ count' = count + 1
  /\ gpc' = "announce"
  /\ UNCHANGED <<child, taken, bufs, tail, bridging, done, idle, total,
                 spins, bridged, fatal, revents, parse>>

PublishNothing ==
  /\ gpc = "publish"
  /\ total = 0
  /\ gpc' = AfterBatch
  /\ UNCHANGED <<child, taken, ring, bridging, done, idle, total, spins,
                 bridged, fatal, revents, parse>>

(* batch_ready.signal, after the mutex is released.                        *)
WakeParse ==
  /\ ppc' = IF ppc = "sleep" THEN "next" ELSE ppc
  /\ UNCHANGED <<slot, batch, pos, wake, output>>

(* Mutant: no signal after a batch.                                        *)
AnnounceNoBatch ==
  /\ gpc = "announce"
  /\ gpc' = AfterBatch
  /\ UNCHANGED <<child, taken, ring, bridging, done, idle, total, spins,
                 bridged, fatal, revents, parse>>

AnnounceBatch ==
  /\ gpc = "announce"
  /\ WakeParse
  /\ gpc' = AfterBatch
  /\ UNCHANGED <<child, taken, ring, bridging, done, idle, total, spins,
                 bridged, fatal, revents>>

(* The outer poll, with no timeout: quit and hangup end the stage.         *)
Poll ==
  /\ gpc = "poll"
  /\ Ready # {}
  /\ revents' = Ready
  /\ gpc' = IF revents' \cap {"quit", "hup"} # {} THEN "finish" ELSE "claim"
  /\ UNCHANGED <<child, taken, ring, bridging, done, idle, total, spins,
                 bridged, fatal, parse>>

(* The outer poll fails: the stage gives up.                               *)
PollFails ==
  /\ gpc = "poll"
  /\ revents' = {}
  /\ gpc' = "finish"
  /\ UNCHANGED <<child, taken, ring, bridging, done, idle, total, spins,
                 bridged, fatal, parse>>

(* However the stage exits: done, then the signal.                         *)
SetDone ==
  /\ gpc = "finish"
  /\ done' = TRUE
  /\ gpc' = "farewell"
  /\ UNCHANGED <<child, taken, ring, bridging, idle, total, spins, bridged,
                 fatal, revents, parse>>

(* Mutant: no signal after done.                                           *)
AnnounceNothing ==
  /\ gpc = "farewell"
  /\ gpc' = "ended"
  /\ UNCHANGED <<child, taken, ring, bridging, done, idle, total, spins,
                 bridged, fatal, revents, parse>>

AnnounceDone ==
  /\ gpc = "farewell"
  /\ WakeParse
  /\ gpc' = "ended"
  /\ UNCHANGED <<child, taken, ring, bridging, done, idle, total, spins,
                 bridged, fatal, revents>>

Gather ==
  \/ Claim \/ ReadBytes \/ ReadClosed \/ DeliverSmall \/ Spin \/ BudgetSpent
  \/ Bridge \/ BridgeEvents \/ ClearBridging \/ DrainIdle \/ Publish
  \/ PublishNothing \/ AnnounceBatch \/ Poll \/ SetDone \/ AnnounceDone

-----------------------------------------------------------------------------
(* The parse stage.                                                        *)

(* The pty is made non-blocking and the gather thread spawned.             *)
Spawn ==
  /\ ppc = "start"
  /\ ppc' = "next" /\ gpc' = "claim"
  /\ UNCHANGED <<child, taken, ring, bridging, done, idle, total, spins,
                 bridged, fatal, revents, slot, batch, pos, wake, output>>

(* One of the two fails: the thread returns, and nobody reads the pty.     *)
SpawnFails ==
  /\ ppc = "start"
  /\ ppc' = "ended"
  /\ UNCHANGED <<child, taken, ring, bridging, done, idle, gather, slot,
                 batch, pos, wake, output>>

(* Mutant: done is looked at before the count.                             *)
NextBatchUnlessDone ==
  /\ ppc = "next"
  /\ \/ done /\ ppc' = "join" /\ UNCHANGED <<slot, batch, pos>>
     \/ ~done /\ count = 0 /\ ppc' = "sleep" /\ UNCHANGED <<slot, batch, pos>>
     \/ /\ ~done /\ count > 0
        /\ slot' = tail /\ batch' = lens[tail] /\ pos' = 0
        /\ ppc' = "parse"
  /\ UNCHANGED <<child, taken, ring, bridging, done, idle, gather, wake,
                 output>>

(* Take the oldest batch, sleep in batch_ready, or end with the stream.    *)
NextBatch ==
  /\ ppc = "next"
  /\ IF count > 0
     THEN /\ slot' = tail
          /\ batch' = lens[tail]
          /\ pos' = 0
          /\ ppc' = "parse"
     ELSE /\ ppc' = IF done THEN "join" ELSE "sleep"
          /\ UNCHANGED <<slot, batch, pos>>
  /\ UNCHANGED <<child, taken, ring, bridging, done, idle, gather, wake,
                 output>>

(* processOutput reads the buffer with no lock held, a byte at a time.     *)
ParseByte ==
  /\ ppc = "parse"
  /\ pos < batch
  /\ output' = bufs[slot][pos + 1]
  /\ pos' = pos + 1
  /\ UNCHANGED <<child, taken, ring, bridging, done, idle, gather, ppc, slot,
                 batch, wake>>

(* Mutants: tail stays where it is; the count is tested before its         *)
(* decrement.                                                              *)
ReleaseInPlace ==
  /\ ppc = "parse" /\ pos = batch
  /\ count' = count - 1
  /\ wake' = (count = 1 /\ bridging /\ IdlePipe)
  /\ ppc' = "signal"
  /\ UNCHANGED <<child, taken, bufs, lens, head, tail, bridging, done, idle,
                 gather, slot, batch, pos, output>>

ReleaseTestFirst ==
  /\ ppc = "parse" /\ pos = batch
  /\ tail' = Inc(tail)
  /\ count' = count - 1
  /\ wake' = (count = 0 /\ bridging /\ IdlePipe)
  /\ ppc' = "signal"
  /\ UNCHANGED <<child, taken, bufs, lens, head, bridging, done, idle, gather,
                 slot, batch, pos, output>>

(* Give the buffer back; decide under the mutex whether to wake a bridge.  *)
Release ==
  /\ ppc = "parse"
  /\ pos = batch
  /\ tail' = Inc(tail)
  /\ count' = count - 1
  /\ wake' = (count = 1 /\ bridging /\ IdlePipe)
  /\ ppc' = "signal"
  /\ UNCHANGED <<child, taken, bufs, lens, head, bridging, done, idle, gather,
                 slot, batch, pos, output>>

(* slot_free.signal, after the mutex is released.                          *)
SignalSlot ==
  /\ ppc = "signal"
  /\ gpc' = IF gpc = "blocked" THEN "claim" ELSE gpc
  /\ ppc' = IF wake THEN "wake" ELSE "next"
  /\ UNCHANGED <<child, taken, ring, bridging, done, idle, total, spins,
                 bridged, fatal, revents, slot, batch, pos, wake, output>>

(* The write to the idle pipe, which does not block if the pipe is full.   *)
WriteIdle ==
  /\ ppc = "wake"
  /\ idle' = IF idle < PipeCapacity THEN idle + 1 ELSE idle
  /\ ppc' = "next"
  /\ UNCHANGED <<child, taken, ring, bridging, done, gather, slot, batch, pos,
                 wake, output>>

(* The thread returns when the gather thread has.                          *)
Join ==
  /\ ppc = "join"
  /\ gpc = "ended"
  /\ ppc' = "ended"
  /\ UNCHANGED <<child, taken, ring, bridging, done, idle, gather, slot,
                 batch, pos, wake, output>>

Parse ==
  Spawn \/ NextBatch \/ ParseByte \/ Release \/ SignalSlot \/ WriteIdle
  \/ Join

-----------------------------------------------------------------------------
Next ==
  \/ ChildWrite \/ ChildExit \/ ThreadExit
  \/ Gather \/ BridgeTimeout \/ PollFails
  \/ Parse \/ SpawnFails

Spec == Init /\ [][Next]_vars

(* Both threads are scheduled; processOutput returns.  Nothing is assumed  *)
(* of the child, of the shutdown, or of the bridge poll's timeout.         *)
Fairness == WF_vars(Gather) /\ WF_vars(Parse)

FairSpec == Spec /\ Fairness

-----------------------------------------------------------------------------
(* Properties                                                              *)

Filling == gpc \in {"read", "bridge", "bridged", "drain", "publish"}
Parsing == ppc = "parse"

TypeOK ==
  /\ written \in Nat /\ taken \in 0 .. written
  /\ hup \in BOOLEAN /\ quit \in BOOLEAN
  /\ bufs \in [Slots -> Seq(Nat)]
  /\ lens \in [Slots -> 0 .. BufferCapacity]
  /\ head \in Slots /\ tail \in Slots
  /\ count \in 0 .. BufferCount
  /\ bridging \in BOOLEAN /\ done \in BOOLEAN
  /\ idle \in 0 .. PipeCapacity
  /\ gpc \in {"unborn", "claim", "blocked", "read", "bridge", "bridged",
              "drain", "publish", "announce", "poll", "finish", "farewell",
              "ended"}
  /\ total \in 0 .. BufferCapacity
  /\ spins \in 0 .. SpinMax
  /\ bridged \in BOOLEAN /\ fatal \in BOOLEAN
  /\ revents \subseteq Events
  /\ ppc \in {"start", "next", "sleep", "parse", "signal", "wake", "join",
              "ended"}
  /\ slot \in Slots /\ batch \in 0 .. BufferCapacity
  /\ pos \in 0 .. BufferCapacity
  /\ wake \in BOOLEAN
  /\ output \in Nat

(* "A buffer is owned by exactly one stage at a time, so buffer contents   *)
(* need no locking": the buffer the gather stage fills is never the one    *)
(* the parse stage reads.                                                  *)
BufferExclusive == Filling /\ Parsing => head # slot

(* The buffer k places after the oldest one in flight, around the ring.    *)
Place(k) ==
  IF tail + k < BufferCount THEN tail + k ELSE (tail + k) - BufferCount

(* head is count places after tail around the ring, and the gather stage   *)
(* holds a buffer only while one is free.                                  *)
RingInv ==
  /\ head = Place(count)
  /\ Filling => count < BufferCount
  /\ Parsing => count > 0 /\ slot = tail

(* The terminal sees the child's bytes in order, each once: across buffer  *)
(* hand-offs, partial reads and bridged gaps.                              *)
InOrder == [][output' = output + 1]_output

(* Nothing read from the pty is dropped in the ring: when the thread ends, *)
(* by quit, hangup or error, all of it has been parsed.                    *)
EndsDrained == ppc = "ended" => output = taken

(* No lost wakeup on either condition variable: a stage asleep although    *)
(* its condition holds has a signal on its way.                            *)
NoLostWakeup ==
  /\ ppc = "sleep" /\ (count > 0 \/ done) => gpc \in {"announce", "farewell"}
  /\ gpc = "blocked" /\ count < BufferCount => ppc = "signal"

(* A bridging gather stage never sleeps on data while the parser is idle:  *)
(* the idle wake is in the pipe or on its way.                             *)
IdleWakePending ==
  (gpc = "bridge" /\ count = 0 /\ IdlePipe)
    => idle > 0 \/ ppc = "wake" \/ (ppc = "signal" /\ wake)

(* Everything read from the pty reaches the terminal, even if no bridge    *)
(* poll ever times out.                                                    *)
TakenIsParsed ==
  \A n \in 1 .. MaxBytes : (taken = n) ~> (output >= n)

(* After threadExit has stopped the child and written to the quit pipe,    *)
(* both threads end, so that the join returns.                             *)
QuitEnds == quit ~> (ppc = "ended")

(* Exec.zig:1659-1661: "HUP without IN means no more data is coming.       *)
(* Deliver and let the outer poll decide what to do."  When the outer poll *)
(* ends the stage because of a hangup, no more data is coming.             *)
HangupDrains ==
  (gpc = "finish" /\ "hup" \in revents /\ "quit" \notin revents)
    => taken = written

(* Exec.zig:1712-1713: "The idle fd is sliced off: the parse stage only    *)
(* writes to it while we're bridging."                                     *)
WakeOnlyWhileBridging == [][idle' > idle => bridging]_vars

=============================================================================
