------------------------- MODULE MCProductionTrial -------------------------
EXTENDS ProductionTrial

MCEditableSettings == {"hf", "production", "unseeded"}

\* A checkout where every gate passed weakly, and one where each is complete; a copy that is
\* cut short leaves none.
MCSourceEvidence == {[g \in Gates |-> "weak"], [g \in Gates |-> "strong"]}

\* A gate that fails.
MCRecords == {<<"mock_e2e", "failed">>}

\* One label is found, or several.
MCVerificationResults == {"single", "multiple"}

\* All harnesses pass, or all but the meeting closure.
MCHarnessResults == {Harnesses, Harnesses \ {"meeting_closure"}}
=============================================================================
