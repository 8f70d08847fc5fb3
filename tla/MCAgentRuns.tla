---------------------------- MODULE MCAgentRuns ----------------------------
(* Two runs, every route, budgets on both sides of the longest route.      *)
EXTENDS AgentRuns
CONSTANTS r1, r2
MCRuns == {r1, r2}
=============================================================================
