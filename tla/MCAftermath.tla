---------------------------- MODULE MCAftermath ----------------------------
(***************************************************************************)
(* Two sessions, one user and one agent: the user may submit twice, and    *)
(* may try to approve what the user proposed.  The model can name a cause  *)
(* next to the leading hypothesis and the verification, or cite only the   *)
(* first evidence row, which is flagged.                                   *)
(***************************************************************************)
EXTENDS Aftermath, TLC

MCClaims ==
    {[cites |-> {<<"hypothesis", 1>>, <<"verification", 1>>},
      figuresRecorded |-> TRUE, causal |-> TRUE],
     [cites |-> {<<"evidence", 1>>}, figuresRecorded |-> TRUE, causal |-> FALSE]}
MCFlagged == {<<"evidence", 1>>}
Symmetry == Permutations(Sessions)
=============================================================================
