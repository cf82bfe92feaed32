------------------------------- MODULE MCOutbox -------------------------------
(***************************************************************************)
(* Instances of Outbox for TLC: the configurations give events and workers *)
(* as model values.  No symmetry, since liveness is checked.               *)
(***************************************************************************)
EXTENDS Outbox, TLC

CONSTANTS e1, e2, w1, w2
===============================================================================
