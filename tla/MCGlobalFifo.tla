---------------------------- MODULE MCGlobalFifo ----------------------------
(***************************************************************************)
(* Instances of GlobalFifo for TLC; the .cfg files choose the tasks.       *)
(***************************************************************************)
EXTENDS GlobalFifo, TLC

CONSTANTS r1, r2, w1, w2, c1, e1, b0, b1, none

=============================================================================
