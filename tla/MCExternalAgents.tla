-------------------------- MODULE MCExternalAgents --------------------------
(***************************************************************************)
(* TLC instance of ExternalAgents.                                         *)
(***************************************************************************)
EXTENDS ExternalAgents, TLC

CONSTANTS u1, u2

TwoUsers == {u1, u2}
TwoFlows == {1, 2}
Symmetry == Permutations(TwoUsers)

\* A provider's own command, one that the runtime lets run, one that is found but cannot be
\* started, and one that is only looked for then.
SomeCommands ==
  {<<"named", "unlisted">>, <<"named", "listed">>, <<"named", "lost">>, <<"relative", "listed">>}

\* Processes with everything and with little: one where the run does not find the workspace, one
\* where the commands are not installed, some that mock what they can, without a workspace, with
\* one that is gone or with the demonstration's.
SomeSettings ==
  {[allowed |-> Providers, api |-> TRUE, cli |-> TRUE, mock |-> FALSE, configured |-> TRUE,
    workspace |-> x[1], installed |-> x[2], resolved |-> x[3]] :
     x \in {<<"app", TRUE, TRUE>>, <<"app", TRUE, FALSE>>, <<"bare", FALSE, TRUE>>}}
  \cup {[allowed |-> {"claude", "local"}, api |-> FALSE, cli |-> FALSE, mock |-> TRUE,
          configured |-> FALSE, workspace |-> w, installed |-> FALSE,
          resolved |-> w # "unset"] :
           w \in {"unset", "gone", "app"}}
=============================================================================
