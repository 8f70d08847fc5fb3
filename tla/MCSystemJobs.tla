---------------------------- MODULE MCSystemJobs ----------------------------
(***************************************************************************)
(* TLC instance of SystemJobs.                                             *)
(***************************************************************************)
EXTENDS SystemJobs

CONSTANTS j1, j2

TwoJobs == {j1, j2}
=============================================================================
