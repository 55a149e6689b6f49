----------------------------- MODULE BoundedFifo -----------------------------
(***************************************************************************)
(* What a mailbox of ghastty promises its users, with no ring, no mutex    *)
(* and no condition variable: a first-in first-out buffer of Capacity      *)
(* values that several threads push to and one thread takes from.  A push  *)
(* is a call that either appends its value, at one instant between call    *)
(* and return, or fails; it may fail only while the buffer is full, unless *)
(* the caller allowed it to give up after a time.  BlockingQueue           *)
(* implements this specification.                                          *)
(***************************************************************************)
EXTENDS Naturals, Sequences

CONSTANTS
  Producers,   \* the threads that push
  Values,      \* what they push
  Capacity,    \* how many values fit
  Timeouts,    \* the ways a push may wait: "instant", "forever", "ns"
  None         \* no call in progress, nothing taken yet

VARIABLES
  queue,    \* the values pushed and not yet taken, oldest first
  call,     \* call[p]: the push p is executing, or None
  result,   \* result[p]: what p's last push returned, 0 when it failed
  popped    \* the last value taken

vars == <<queue, call, result, popped>>

Init ==
  /\ queue = <<>>
  /\ call = [p \in Producers |-> None]
  /\ result = [p \in Producers |-> 0]
  /\ popped = None

(* A producer calls push. *)
Begin(p) ==
  /\ call[p] = None
  /\ \E v \in Values, t \in Timeouts :
       call' = [call EXCEPT ![p] = [value |-> v, timeout |-> t]]
  /\ UNCHANGED <<queue, result, popped>>

(* The push takes effect and returns the number of unread values. *)
Commit(p) ==
  /\ call[p] # None
  /\ Len(queue) < Capacity
  /\ queue' = Append(queue, call[p].value)
  /\ result' = [result EXCEPT ![p] = Len(queue) + 1]
  /\ call' = [call EXCEPT ![p] = None]
  /\ UNCHANGED popped

(* The push fails: the buffer is full now, or the time it had is over. *)
Fail(p) ==
  /\ call[p] # None
  /\ Len(queue) = Capacity \/ call[p].timeout = "ns"
  /\ result' = [result EXCEPT ![p] = 0]
  /\ call' = [call EXCEPT ![p] = None]
  /\ UNCHANGED <<queue, popped>>

(* The consumer takes the oldest value. *)
Take ==
  /\ queue # <<>>
  /\ popped' = Head(queue)
  /\ queue' = Tail(queue)
  /\ UNCHANGED <<call, result>>

Next ==
  \/ \E p \in Producers : Begin(p) \/ Commit(p) \/ Fail(p)
  \/ Take

Spec == Init /\ [][Next]_vars

=============================================================================
