----------------------------- MODULE MCCampaign -----------------------------
(* A small campaign whose script is invoked twice.  The cohorts are numbers, *)
(* because rows are created and launched in their order.                     *)
EXTENDS CampaignPool

MCCohorts == 1..3
MCInvocations == 1..2
=============================================================================
