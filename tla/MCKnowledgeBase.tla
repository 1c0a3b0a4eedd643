-------------------------- MODULE MCKnowledgeBase --------------------------
(***************************************************************************)
(* Two importers deployed with the same embedding model, one investigation *)
(* and one manager over one source.  Body b2 is b1 in another layout and   *)
(* has the same canonical text, b4 is refused.                             *)
(***************************************************************************)
EXTENDS KnowledgeBase, TLC

CONSTANTS b1, b2, b3, b4, m1

MCCanonical == (b1 :> b1) @@ (b2 :> b1) @@ (b3 :> b3) @@ (b4 :> Refused)
MCModelOf == [p \in Importers \cup Searchers |-> m1]
Symmetry == Permutations(Importers)
=============================================================================
