------------------------------- MODULE Capital -------------------------------
(***************************************************************************)
(* What capital is given to: the alphas that are deployed (Deployment) and *)
(* the instruments of a portfolio (Allocation), which share no state.      *)
(***************************************************************************)
EXTENDS Deployment, Allocation

CapitalSpec == DeploySpec /\ AllocSpec

(* Whatever is called in whatever order: no more capital is given out than *)
(* there is, the better alphas are ranked first and none is approved       *)
(* without evidence; and the limits hold of the final weights, and the     *)
(* caps of what is sized.                                                  *)
CapsHold == DeploymentSound /\ PortfolioCapped
=============================================================================
