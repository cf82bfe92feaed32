-------------------------------- MODULE MCCall --------------------------------
(***************************************************************************)
(* An instance of Call for TLC: one tab for each of two users.             *)
(***************************************************************************)
EXTENDS Call

CONSTANTS u1, u2, t1, t2

MCOwner == (t1 :> u1) @@ (t2 :> u2)
=============================================================================
