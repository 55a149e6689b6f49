---------------------------- MODULE MCWindows ----------------------------
(* Instances of Windows for TLC. *)
EXTENDS Windows

\* A window that waits for its scale; two tabs, one of them split; two windows.
MCLayouts ==
    {<< <<>> >>, << <<{1, 2}, {3}>> >>, << <<{1}>>, <<{2}, {3}>> >>}
==========================================================================
