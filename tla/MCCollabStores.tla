--------------------------- MODULE MCCollabStores ---------------------------
(***************************************************************************)
(* TLC instance of CollabStores.                                           *)
(***************************************************************************)
EXTENDS CollabStores
=============================================================================
