----------------------------- MODULE MCRegistry -----------------------------
(***************************************************************************)
(* Small instances of the registry: the clients are numbers.               *)
(***************************************************************************)
EXTENDS AVLRegistry

\* The third and the last client have nicknames with the same sum.
MCTwins == [c \in Client |-> IF c = 8 THEN 3 ELSE c]

MCDistinct == [c \in Client |-> c]
=============================================================================
