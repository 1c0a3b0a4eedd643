------------------------ MODULE MCInvestigationRun ------------------------
(***************************************************************************)
(* Two workers race for the request, or one has it to itself.  The model   *)
(* may ask for the domain of the menu twice or for one that is not on it,  *)
(* contradict itself, revise an earlier hypothesis or one of the same      *)
(* answer, cite a record that does not exist or break its schema.          *)
(***************************************************************************)
EXTENDS InvestigationRun, TLC

CONSTANTS w1, w2, d1, d2

TwoWorkers == {w1, w2}
OneWorker == {w1}
RaceSymmetry == Permutations(TwoWorkers)

\* Room for two collections and one hypothesis, and nothing to spare.
RacePolicy == [iterations |-> 4, tool_calls |-> 3, tokens |-> 5]

\* Room for one collection and one hypothesis.
LastPolicy == [iterations |-> 3, tool_calls |-> 2, tokens |-> 4]

Collect(domain, gap) ==
    [valid |-> TRUE, action |-> "collect_evidence", domain |-> domain, gap |-> gap]

\* Only d1 is on the menu; what names d2 is turned into reasoning.
MCPlannerOutputs == {Collect(d1, "cause"), Collect(d1, "more"), Collect(d2, "cause")}

\* A draft cites at most so many records as support.
Draft(contradicted, known, cites) ==
    [contradicted |-> contradicted, known |-> known, cites |-> cites, claim |-> 90, gaps |-> {}]

Output(drafts, action, target, gap) ==
    [valid |-> TRUE, drafts |-> drafts,
     reflection |-> [action |-> action, target |-> target, gap |-> gap]]

Concluding == Output(<<Draft(FALSE, TRUE, 2)>>, "terminate_success", "none", "none")

Revising ==
    Output(<<Draft(TRUE, TRUE, 2), Draft(FALSE, FALSE, 2)>>, "revise_hypothesis", "prior", "more")

RevisingItself ==
    Output(<<Draft(FALSE, TRUE, 1), Draft(FALSE, TRUE, 2)>>, "revise_hypothesis", "latest", "none")

RaceHypothesisOutputs == {Concluding, Revising, RevisingItself, NoResponse}
LastHypothesisOutputs == {Concluding, NoResponse}
===========================================================================
