----------------------------- MODULE MCReadThread ----------------------------
(* ReadThread for TLC.  The buffers are a few bytes and the child writes a *)
(* few more than fit in the ring, so that the ring fills, wraps and        *)
(* bridges.                                                                *)
EXTENDS ReadThread

=============================================================================
