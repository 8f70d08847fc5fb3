---------------------------- MODULE MCLiveSession ----------------------------
(***************************************************************************)
(* TLC instances of LiveSession: a client that stays on its socket, and    *)
(* one that comes back on a second socket while the first may be open.     *)
(***************************************************************************)
EXTENDS LiveSession

CONSTANTS k1, k2

OneSocket  == {k1}
Reconnects == {k1, k2}
=============================================================================
