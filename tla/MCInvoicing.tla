----------------------------- MODULE MCInvoicing -----------------------------
(***************************************************************************)
(* Instances of Invoicing for TLC.  Processes are interchangeable, and so  *)
(* are organizations.                                                      *)
(***************************************************************************)
EXTENDS Invoicing, TLC

Symmetry == Permutations(Procs) \cup Permutations(Orgs)
=============================================================================
