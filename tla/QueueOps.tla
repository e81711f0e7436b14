------------------------------ MODULE QueueOps ------------------------------
(***************************************************************************)
(* The queue of a room as the sequence of its clients, head first, and     *)
(* what the functions of server.c do to it.  Module LinkedQueue has the    *)
(* same functions at the level of nodes and pointers.                      *)
(***************************************************************************)
EXTENDS Integers, Sequences, SequencesExt

\* The first position of q whose client satisfies P, as a set that is empty
\* when no client does: both searches of server.c go from the head onwards.
FirstIndex(q, P(_)) ==
    {i \in 1..Len(q) : P(q[i]) /\ \A j \in 1..(i - 1) : ~P(q[j])}

\* q without its first client that satisfies P.
RemoveFirstWhere(q, P(_)) ==
    LET I == FirstIndex(q, P)
    IN  IF I = {} THEN q ELSE RemoveAt(q, CHOOSE i \in I : TRUE)

\* deleteNodeQueue removes the first node whose client has the nickname.
DeleteNickname(q, nickname, NameOf) ==
    RemoveFirstWhere(q, LAMBDA c : NameOf[c] = nickname)
=============================================================================
