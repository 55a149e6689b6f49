---------------------------- MODULE BlockingQueue ----------------------------
(***************************************************************************)
(* datastruct/blocking_queue.zig: the fixed-size queue behind every        *)
(* mailbox of ghastty (App, termio, renderer, search).  Producers call     *)
(* push with one of three timeouts; one consumer calls pop, or drains      *)
(* under the mutex.  There is no blocking pop.                             *)
(*                                                                         *)
(* Every critical section of the queue's mutex is one action, except a     *)
(* drain, which keeps the mutex from drain() to deinit().  The condition   *)
(* variable is modelled from the code that waits on it,                    *)
(* lib/compat/thread.zig: a count of waiters, a count of signals not yet   *)
(* consumed, and the set of sleepers the futex has let go.                 *)
(***************************************************************************)
EXTENDS Naturals, FiniteSets

CONSTANTS
  Producers,  \* the threads that push
  Values,     \* what they push
  Bounds,     \* the capacity (64 for every mailbox of the program)
  Timeouts,   \* the timeouts the producers use
  Drains,     \* whether the consumer calls drain besides pop
  None        \* no value

ASSUME BoundsAssumption == Bounds \in Nat \ {0}
ASSUME ProducersAssumption == IsFiniteSet(Producers)
ASSUME TimeoutsAssumption == Timeouts \subseteq {"instant", "forever", "ns"}
ASSUME NoneAssumption == None \notin [value : Values, timeout : Timeouts]

VARIABLES
  data, write, read, len,   \* the ring and its accounting
  mutex,                    \* "free", or "drain" while an iterator lives
  not_full_waiters,         \* how many pushes are inside a wait
  waiters, signals,         \* std.Io.Condition.state
  notified,                 \* sleepers the futex has woken
  pc,                       \* where each producer is inside push
  call,                     \* the value and timeout of its push
  result,                   \* what its last push returned
  popped                    \* what the last pop or next returned

ring == <<data, write, read, len>>
cond == <<waiters, signals, notified>>
vars == <<data, write, read, len, mutex, not_full_waiters,
          waiters, signals, notified, pc, call, result, popped>>

Slots == 0 .. Bounds - 1

(* The places a push can be between two critical sections.                 *)
(*   "lock"      called, has not had the mutex yet                         *)
(*   "wait"      asleep in the condition variable                          *)
(*   "expiring"  deadline passed and no signal seen, still counted waiting *)
(*   "woken"     consumed a signal, wants the mutex back                   *)
(*   "expired"   gave up waiting, wants the mutex back                     *)
Waiting == {"wait", "expiring", "woken", "expired"}
Places == {"idle", "lock"} \cup Waiting

(* Mutant: the bound compared with > lets one value too many in.           *)
FullLate == len > Bounds

Full == len = Bounds

Advance(i) == IF i + 1 >= Bounds THEN (i + 1) - Bounds ELSE i + 1

Init ==
  /\ data = [i \in Slots |-> None]
  /\ write = 0 /\ read = 0 /\ len = 0
  /\ mutex = "free"
  /\ not_full_waiters = 0
  /\ waiters = 0 /\ signals = 0 /\ notified = {}
  /\ pc = [p \in Producers |-> "idle"]
  /\ call = [p \in Producers |-> None]
  /\ result = [p \in Producers |-> 0]
  /\ popped = None

-----------------------------------------------------------------------------
(* The condition variable.                                                 *)

Sleepers == {p \in Producers : pc[p] = "wait"} \ notified

(* signal: one more signal than before unless every waiter already has     *)
(* one, and one sleeper let go.                                            *)
Signal ==
  \/ /\ signals < waiters
     /\ signals' = signals + 1
     /\ \/ \E p \in Sleepers : notified' = notified \cup {p}
        \/ Sleepers = {} /\ UNCHANGED notified
     /\ UNCHANGED waiters
  \/ signals >= waiters /\ UNCHANGED cond

(* A futex may also return without a wake.                                 *)
SpuriousWake(p) ==
  /\ p \in Sleepers
  /\ notified' = notified \cup {p}
  /\ UNCHANGED <<ring, mutex, not_full_waiters, waiters, signals, pc, call,
                 result, popped>>

(* Awake, the waiter takes a signal if there is one.  At its deadline it   *)
(* looks for a signal too, woken or not.                                   *)
Consume(p) ==
  /\ pc[p] = "wait"
  /\ p \in notified \/ call[p].timeout = "ns"
  /\ signals > 0
  /\ waiters' = waiters - 1
  /\ signals' = signals - 1
  /\ notified' = notified \ {p}
  /\ pc' = [pc EXCEPT ![p] = "woken"]
  /\ UNCHANGED <<ring, mutex, not_full_waiters, call, result, popped>>

(* Awake with no signal to take: back to the futex.                        *)
Resleep(p) ==
  /\ pc[p] = "wait"
  /\ p \in notified
  /\ signals = 0
  /\ notified' = notified \ {p}
  /\ UNCHANGED <<ring, mutex, not_full_waiters, waiters, signals, pc, call,
                 result, popped>>

(* The deadline passed and the load of the state showed no signal.         *)
Expire(p) ==
  /\ pc[p] = "wait"
  /\ call[p].timeout = "ns"
  /\ signals = 0
  /\ notified' = notified \ {p}
  /\ pc' = [pc EXCEPT ![p] = "expiring"]
  /\ UNCHANGED <<ring, mutex, not_full_waiters, waiters, signals, call,
                 result, popped>>

(* The fetchSub that follows does not look at the signals again.           *)
Unregister(p) ==
  /\ pc[p] = "expiring"
  /\ waiters' = waiters - 1
  /\ pc' = [pc EXCEPT ![p] = "expired"]
  /\ UNCHANGED <<ring, mutex, not_full_waiters, signals, notified, call,
                 result, popped>>

-----------------------------------------------------------------------------
(* push                                                                    *)

Call(p) ==
  /\ pc[p] = "idle"
  /\ \E v \in Values, t \in Timeouts :
       call' = [call EXCEPT ![p] = [value |-> v, timeout |-> t]]
  /\ pc' = [pc EXCEPT ![p] = "lock"]
  /\ UNCHANGED <<ring, mutex, not_full_waiters, cond, result, popped>>

Return(p, r) ==
  /\ result' = [result EXCEPT ![p] = r]
  /\ call' = [call EXCEPT ![p] = None]
  /\ pc' = [pc EXCEPT ![p] = "idle"]

(* The end of push: write the value, or return 0 if there is no room.      *)
Store(p) ==
  \/ /\ ~Full
     /\ data' = [data EXCEPT ![write] = call[p].value]
     /\ write' = Advance(write)
     /\ len' = len + 1
     /\ UNCHANGED read
     /\ Return(p, len + 1)
  \/ /\ Full
     /\ UNCHANGED ring
     /\ Return(p, 0)

(* First critical section, when the push does not have to wait.            *)
PushNow(p) ==
  /\ pc[p] = "lock" /\ mutex = "free"
  /\ ~Full \/ call[p].timeout = "instant"
  /\ Store(p)
  /\ UNCHANGED <<mutex, not_full_waiters, cond, popped>>

(* First critical section, when it does: the wait releases the mutex.      *)
PushWait(p) ==
  /\ pc[p] = "lock" /\ mutex = "free"
  /\ Full /\ call[p].timeout # "instant"
  /\ not_full_waiters' = not_full_waiters + 1
  /\ waiters' = waiters + 1
  /\ pc' = [pc EXCEPT ![p] = "wait"]
  /\ UNCHANGED <<ring, mutex, signals, notified, call, result, popped>>

(* Mutant: the decrement is missing where the wait gave up.                *)
PushTimeoutUncounted(p) ==
  /\ pc[p] = "expired" /\ mutex = "free"
  /\ Return(p, 0)
  /\ UNCHANGED <<ring, mutex, not_full_waiters, cond, popped>>

(* The wait returned: one look at the queue, never a second wait.          *)
PushResume(p) ==
  /\ pc[p] = "woken" /\ mutex = "free"
  /\ not_full_waiters' = not_full_waiters - 1
  /\ Store(p)
  /\ UNCHANGED <<mutex, cond, popped>>

(* The wait timed out: the push failed, whether there is room now or not.  *)
PushTimeout(p) ==
  /\ pc[p] = "expired" /\ mutex = "free"
  /\ not_full_waiters' = not_full_waiters - 1
  /\ Return(p, 0)
  /\ UNCHANGED <<ring, mutex, cond, popped>>

-----------------------------------------------------------------------------
(* The consumer.                                                           *)

(* Mutants: the count is not lowered; the index moves before the read.     *)
RemoveUncounted ==
  /\ len > 0
  /\ popped' = data[read] /\ read' = Advance(read)
  /\ UNCHANGED <<data, write, len>>

RemoveEarly ==
  /\ len > 0
  /\ popped' = data[Advance(read)] /\ read' = Advance(read) /\ len' = len - 1
  /\ UNCHANGED <<data, write>>

Remove ==
  /\ len > 0
  /\ popped' = data[read]
  /\ read' = Advance(read)
  /\ len' = len - 1
  /\ UNCHANGED <<data, write>>

(* Mutants: only a pop from a full queue signals; a second waiter is not   *)
(* counted as one.                                                         *)
SignalWhenFull ==
  IF not_full_waiters > 0 /\ len = Bounds THEN Signal ELSE UNCHANGED cond

SignalOneWaiter ==
  IF not_full_waiters = 1 THEN Signal ELSE UNCHANGED cond

SignalNotFull ==
  IF not_full_waiters > 0 THEN Signal ELSE UNCHANGED cond

Pop ==
  /\ mutex = "free"
  /\ Remove
  /\ SignalNotFull
  /\ UNCHANGED <<mutex, not_full_waiters, pc, call, result>>

Drain ==
  /\ Drains
  /\ mutex = "free"
  /\ mutex' = "drain"
  /\ UNCHANGED <<ring, not_full_waiters, cond, pc, call, result, popped>>

DrainNext ==
  /\ mutex = "drain"
  /\ Remove
  /\ UNCHANGED <<mutex, not_full_waiters, cond, pc, call, result>>

(* One signal, however many values the iterator took.                      *)
DrainDeinit ==
  /\ mutex = "drain"
  /\ mutex' = "free"
  /\ SignalNotFull
  /\ UNCHANGED <<ring, not_full_waiters, pc, call, result, popped>>

-----------------------------------------------------------------------------
Push(p) ==
  \/ Call(p) \/ PushNow(p) \/ PushWait(p) \/ PushResume(p) \/ PushTimeout(p)
  \/ SpuriousWake(p) \/ Consume(p) \/ Resleep(p) \/ Expire(p) \/ Unregister(p)

Consumer == Pop \/ Drain \/ DrainNext \/ DrainDeinit

Next == (\E p \in Producers : Push(p)) \/ Consumer

Spec == Init /\ [][Next]_vars

(* For a consumer that pops and does not drain: every thread that can run  *)
(* does, the consumer's event loop runs while there is something to pop,   *)
(* and the futex does not leave one sleeper behind for ever while it lets  *)
(* others go (it wakes them in order).                                     *)
Fairness ==
  /\ \A p \in Producers :
       /\ WF_vars(PushNow(p) \/ PushWait(p) \/ PushResume(p) \/ PushTimeout(p))
       /\ WF_vars(Expire(p)) /\ WF_vars(Unregister(p))
       /\ SF_vars(Consume(p))
       /\ SF_vars(Pop /\ p \in notified' \ notified)
  /\ WF_vars(Pop)

FairSpec == Spec /\ Fairness

-----------------------------------------------------------------------------
(* Properties                                                              *)

TypeOK ==
  /\ data \in [Slots -> Values \cup {None}]
  /\ write \in Slots /\ read \in Slots
  /\ len \in 0 .. Bounds
  /\ mutex \in {"free", "drain"}
  /\ not_full_waiters \in Nat
  /\ waiters \in Nat /\ signals \in Nat
  /\ notified \subseteq Producers
  /\ pc \in [Producers -> Places]
  /\ call \in [Producers -> [value : Values, timeout : Timeouts] \cup {None}]
  /\ result \in [Producers -> 0 .. Bounds]
  /\ popped \in Values \cup {None}

(* The slot i places after the oldest unread value, around the ring.       *)
Slot(i) == IF read + i < Bounds THEN read + i ELSE (read + i) - Bounds

(* The three indices agree: write is len places after read, around the     *)
(* ring.  push and pop move one of them and the count each, under the      *)
(* mutex; a wrap that is off by one would overwrite an unread value.       *)
RingInv == write = Slot(len)

(* not_full_waiters counts exactly the pushes between the += 1 and the     *)
(* deferred -= 1, whichever way each of them leaves the wait.  pop signals *)
(* only if it is positive, so a count too low loses wakeups.               *)
WaitersCounted ==
  not_full_waiters = Cardinality({p \in Producers : pc[p] \in Waiting})

(* No lost wakeup: if the queue is empty, so that no pop will signal       *)
(* again, and a push is asleep, then some push has a signal to act on and  *)
(* its value will make the consumer pop once more.                         *)
NoStrandedProducer ==
  (len = 0 /\ \E p \in Producers : pc[p] = "wait")
    => \/ mutex = "drain"
       \/ \E p \in Producers :
            \/ pc[p] = "woken"
            \/ pc[p] = "wait" /\ p \in notified /\ signals > 0

(* lib/compat/thread.zig:41-42: "Even on error, try to consume a pending   *)
(* signal first. Otherwise a race might cause a signal to get stuck in the *)
(* state with no corresponding waiter."                                    *)
NoStuckSignal == signals <= waiters

(* blocking_queue.zig:49, "Run forever or until interrupted": a forever    *)
(* push whose wait nothing can interrupt does not give up.                 *)
ForeverPushSucceeds ==
  [][\A p \in Producers :
       (call[p] # None /\ call[p].timeout = "forever" /\ call'[p] = None)
         => result'[p] > 0]_vars

(* Every push returns while the consumer keeps popping, however many       *)
(* producers compete for the slots that pops free.                         *)
PushReturns == \A p \in Producers : pc[p] = "lock" ~> pc[p] = "idle"

(* The queue is the bounded FIFO its users think of: values leave in the   *)
(* order their pushes took effect, none is lost or duplicated, each push   *)
(* takes effect once or fails, and only a timed push fails with room left. *)
Unread == [i \in 1 .. len |-> data[Slot(i - 1)]]

Fifo == INSTANCE BoundedFifo WITH queue <- Unread, Capacity <- Bounds
FifoSpec == Fifo!Spec

=============================================================================
