-------------------------------- MODULE Serial --------------------------------
(***************************************************************************)
(* Contract with a witness of the behaviours in which handlers run one at  *)
(* a time: alone is true as long as no two handlers have overlapped, none  *)
(* was cut off, and the provider did not onboard with the contract under   *)
(* way.  What Contract promises of such behaviours only is then an         *)
(* invariant that says "alone => ...", and one instance answers for both   *)
(* kinds of promises.                                                      *)
(***************************************************************************)
EXTENDS Contract

VARIABLE alone

NoOverlap == \A p, q \in Procs : ~ IsIdle(p) /\ ~ IsIdle(q) => p = q

StaysAlone ==
  alone' = /\ alone
           /\ crashes' = crashes
           /\ NoOverlap'
           /\ onboarded' # onboarded => proposal.status = "pending"

SerialNext == Next /\ StaysAlone

SerialSpec == Init /\ alone = TRUE /\ [][SerialNext]_<<vars, alone>>

\* The macro status is a projection of the milestones between two handlers
\* (recomputeMacroStatusAndUpdateProposal), if they run one at a time: active
\* or accepted, too, when all that was left has been cancelled.
AloneStatusIsProjection == alone => MacroStatusIsProjection

\* No money is held for a contract that was never accepted, if handlers run
\* one at a time.
AloneNoEscrowOutside == alone => NoEscrowOutsideContract

\* The end-of-project effects have run once when a contract is completed and
\* never before, if handlers run one at a time.
AloneCloseOutOnce == alone => CloseOutExactlyOnce

\* Every submission has its auto-approve event, if handlers run one at a
\* time.
AloneSubmissionIsTimed == alone => SubmissionIsTimed
=============================================================================
