--------------------------- MODULE MCFramePresent ---------------------------
(* Instances of FramePresent: the configurations give the constants.       *)
EXTENDS FramePresent
=============================================================================
