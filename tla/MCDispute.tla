------------------------------ MODULE MCDispute -------------------------------
(***************************************************************************)
(* Instances of Dispute for TLC: the configurations give processes and     *)
(* disputes as model values.  No symmetry, since liveness is checked.      *)
(***************************************************************************)
EXTENDS Dispute, TLC

CONSTANTS p1, p2, d1
=============================================================================
