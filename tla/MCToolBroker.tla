--------------------------- MODULE MCToolBroker ---------------------------
(***************************************************************************)
(* Two announcers of one escalation and an executor that rolls the         *)
(* deployment back.                                                        *)
(***************************************************************************)
EXTENDS ToolBroker

CONSTANTS a1, a2, x1

MCAnnouncers == {a1, a2}
OneExecutor == {x1}

\* One transition, announced twice.
SameEvent == (a1 :> "escalated" @@ a2 :> "escalated" @@ x1 :> "r3")

MCOpening == {"escalated"}
MCCatalogue == {"write.jira_issue", "notify.slack_channel", "mutate.k8s_deployment"}
BrokerSymmetry == Permutations(MCAnnouncers)
===========================================================================
