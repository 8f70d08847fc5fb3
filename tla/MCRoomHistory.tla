--------------------------- MODULE MCRoomHistory ---------------------------
(***************************************************************************)
(* TLC instance of RoomHistory: an unknown voice and the speaker's own.    *)
(***************************************************************************)
EXTENDS RoomReads, TLC

CONSTANTS u1, u2, voice, self, note

TwoUsers == {u1, u2}
TwoLabels == {voice, self}
OneNote == {note}
Symmetry == Permutations(TwoUsers)
=============================================================================
