----------------------------- MODULE MCRoomSync -----------------------------
(***************************************************************************)
(* TLC instance of RoomSync: a page and a client that also sends text.     *)
(***************************************************************************)
EXTENDS RoomSync

CONSTANTS c1, c2

TwoClients == {c1, c2}
OneTalker  == {c2}
=============================================================================
