----------------------------- MODULE MCRelease -----------------------------
(* Two deployments, one after the other or both at once, after a third. *)
EXTENDS Release

CONSTANTS d1, d2

MCDeployments == {d1, d2}
============================================================================
