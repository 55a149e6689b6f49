--------------------------- MODULE MCSurfaceThreads --------------------------
(* SurfaceThreads for TLC: mailboxes so small that a handful of sends      *)
(* fills them.  The renderer's holds two messages in the runs that care    *)
(* who wakes it: the reset of the cursor blink that is published without a *)
(* notification may fill a mailbox of one all by itself, never one of 64.  *)
EXTENDS SurfaceThreads

CapTiny == [q \in Queues |-> 1]
CapSmall == [q \in Queues |-> IF q = "rend" THEN 2 ELSE 1]
CapAmple == [q \in Queues |-> 8]

=============================================================================
