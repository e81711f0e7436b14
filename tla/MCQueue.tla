------------------------------- MODULE MCQueue -------------------------------
(***************************************************************************)
(* A small instance of the linked queue: two of the three clients have the *)
(* same nickname, and a client may be queued more than once.               *)
(***************************************************************************)
EXTENDS QueueRefinement, TLC

CONSTANTS a, b, c

MCNicknameOf == a :> a @@ b :> a @@ c :> c

MCSymmetry == Permutations(Node)
=============================================================================
