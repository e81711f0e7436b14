--------------------------- MODULE MCMatchHistory ----------------------------
(***************************************************************************)
(* Small instances of module MatchHistory for TLC.                         *)
(***************************************************************************)
EXTENDS MatchHistory, MCMatchmaking
=============================================================================
