------------------------------ MODULE MCContract ------------------------------
(***************************************************************************)
(* Instances of Contract for TLC.  Processes that serve HTTP requests are  *)
(* interchangeable, and so are workers.                                    *)
(***************************************************************************)
EXTENDS Contract, TLC

Symmetry == Permutations(Users) \cup Permutations(Workers)
=============================================================================
