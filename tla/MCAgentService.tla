--------------------------- MODULE MCAgentService ---------------------------
(* Instances of AgentService for TLC.  No property and no action tells one  *)
(* printer from another, so the safety runs treat them as interchangeable.  *)
EXTENDS AgentService, TLC

Printers == Permutations(Instances)
=============================================================================
