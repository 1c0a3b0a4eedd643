----------------------- MODULE MCVerificationLineage -----------------------
(***************************************************************************)
(* Two profile versions as the code registers them: the second approves    *)
(* one more source.  Window and maximum age are equal and longer than the  *)
(* settling period, as they are for every tool of the catalogue.           *)
(***************************************************************************)
EXTENDS VerificationLineage, TLC

CONSTANTS simulator, prometheus

MCApproved == (1 :> {simulator}) @@ (2 :> {simulator, prometheus})
=============================================================================
