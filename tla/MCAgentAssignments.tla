------------------------- MODULE MCAgentAssignments -------------------------
(* Two assignments and two runs: a second dispatch, or a run of its own    *)
(* beside a dispatched one.                                                *)
EXTENDS AgentAssignments, TLC
CONSTANTS r1, r2, i1, i2
MCRuns == {r1, r2}
MCAssignments == {i1, i2}
Symmetry == Permutations(MCRuns) \cup Permutations(MCAssignments)
=============================================================================
