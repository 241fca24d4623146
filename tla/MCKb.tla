-------------------------------- MODULE MCKb --------------------------------
(***************************************************************************)
(* An instance of CourseKb for TLC: files of two batches, one and none.    *)
(***************************************************************************)
EXTENDS CourseKb, TLC

CONSTANTS long, short, scan

MCBatches == long :> 2 @@ short :> 1 @@ scan :> 0

=============================================================================
