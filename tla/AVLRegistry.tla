----------------------------- MODULE AVLRegistry ----------------------------
(***************************************************************************)
(* The registry as the server keeps it, an AVL tree under one mutex, and   *)
(* the bag of module NicknameRegistry that it implements while the server  *)
(* is small.                                                               *)
(***************************************************************************)
EXTENDS RegistryClient, AVLTree

CONSTANT MaxInside   \* a bound: how many clients are inside at a time

VARIABLE root   \* the field of AVLNicknames

arVars == <<pc, numeroClientsServer, root>>

ARInit ==
    /\ ClientInit
    /\ root = Null

ARCheck(c) ==
    /\ Check(c, NicknameExists(root, SumOf[c]))
    /\ UNCHANGED root

ARGivesUp(c) ==
    /\ GivesUp(c)
    /\ UNCHANGED root

ARInsert(c) ==
    /\ Cardinality(Inside) < MaxInside
    /\ Insert(c)
    /\ root' = InsertNickname(root, SumOf[c])

\* A mistake to test the properties with: the number stays in the tree.
LeavesNumber(c) ==
    /\ Delete(c)
    /\ UNCHANGED root

ARDelete(c) ==
    /\ Delete(c)
    /\ root' = DeleteNickname(root, SumOf[c])

ARNext == \E c \in Client : ARCheck(c) \/ ARGivesUp(c) \/ ARInsert(c) \/ ARDelete(c)

ARSpec == ARInit /\ [][ARNext]_arVars

-----------------------------------------------------------------------------
Numbers == InOrderOf(root)

Occurrences(s) == Cardinality({i \in DOMAIN Numbers : Numbers[i] = s})

NR == INSTANCE NicknameRegistry WITH taken <- [s \in Sum |-> Occurrences(s)]

\* The tree does what a bag of the numbers would do: each insertion adds one
\* number and each deletion takes one away, and the search finds what is there.
ImplementsRegistry == NR!NRSpec

\* The search order: equal numbers may be on both sides of a node, once a
\* rotation has been there, but never a greater one before a smaller one.
InOrder == \A i, j \in DOMAIN Numbers : i < j => Numbers[i] <= Numbers[j]

\* The tree is an AVL tree: no path is much longer than another.
Balanced == \A T \in Subtrees(root) : Altezza(T.sx) - Altezza(T.dx) \in -1..1

\* "STRUTTURA AVLNICKNAMES: contiene tutti i nicknames dei client": the number
\* of every client that is inside is in the tree.
NobodyForgotten == \A c \in Inside : Occurrences(SumOf[c]) > 0
=============================================================================
