------------------------------ MODULE AVLTree -------------------------------
(***************************************************************************)
(* The tree of AVL.c, as values: a node is a record and NULL is a record   *)
(* with a height only, so that a dereference of NULL, which crashes the    *)
(* server, stops the model checker.  A node's nickname is not kept: the    *)
(* functions that are used search by the number alone.                     *)
(***************************************************************************)
EXTENDS Integers, Sequences

Null == [altezza |-> -1]

Altezza(T) == T.altezza

Taller(T1, T2) == IF Altezza(T1) > Altezza(T2) THEN Altezza(T1) ELSE Altezza(T2)

\* Every function of AVL.c that links a node to new children sets its height
\* to this before it returns.
Node(n, sx, dx) ==
    [uniqueNumberNickname |-> n, sx |-> sx, dx |-> dx, altezza |-> 1 + Taller(sx, dx)]

WithSX(T, sx) == Node(T.uniqueNumberNickname, sx, T.dx)
WithDX(T, dx) == Node(T.uniqueNumberNickname, T.sx, dx)

-----------------------------------------------------------------------------
\* A mistake to test the properties with: the middle subtree is not moved.
RotateLosing(T) == WithDX(T.sx, WithSX(T, Null))

RotateSSX(T) == WithDX(T.sx, WithSX(T, T.sx.dx))

\* A mistake to test the properties with: the wrong subtree is moved.
RotateMirrored(T) == WithSX(T.dx, WithDX(T, T.dx.dx))

RotateSDX(T) == WithSX(T.dx, WithDX(T, T.dx.sx))
RotateDSX(T) == RotateSSX(WithSX(T, RotateSDX(T.sx)))
RotateDDX(T) == RotateSDX(WithDX(T, RotateSSX(T.dx)))

\* abs(altezza(T->sx) - altezza(T->dx)) == 2: on which side is not asked, so
\* each of the two functions below relies on its caller for the side.
Unbalanced(T) == Altezza(T.sx) - Altezza(T.dx) \in {-2, 2}

BilanciaSX(T) ==
    IF ~Unbalanced(T) THEN T
    ELSE IF Altezza(T.sx.sx) > Altezza(T.sx.dx) THEN RotateSSX(T) ELSE RotateDSX(T)

BilanciaDX(T) ==
    IF ~Unbalanced(T) THEN T
    ELSE IF Altezza(T.dx.dx) > Altezza(T.dx.sx) THEN RotateSDX(T) ELSE RotateDDX(T)

-----------------------------------------------------------------------------
RECURSIVE InsertNickname(_, _)
InsertNickname(T, n) ==
    IF T = Null THEN Node(n, Null, Null)
    ELSE IF n >= T.uniqueNumberNickname
         THEN BilanciaDX(WithDX(T, InsertNickname(T.dx, n)))
         ELSE BilanciaSX(WithSX(T, InsertNickname(T.sx, n)))

\* The number taken out of T, and what the parent of T then points to.  When
\* bilanciaDX rotates, the new top of the subtree is dropped and the parent goes
\* on pointing to the old one, which the rotation made its left child.
RECURSIVE StaccaMinimo(_)
StaccaMinimo(T) ==
    IF T.sx = Null THEN [min |-> T.uniqueNumberNickname, rest |-> T.dx]
    ELSE LET below == StaccaMinimo(T.sx)
             now   == WithSX(T, below.rest)
         IN  [min  |-> below.min,
              rest |-> IF Unbalanced(now) THEN BilanciaDX(now).sx ELSE now]

\* A mistake to test the properties with: the root is not rebalanced.
DeleteRootOnly(T) ==
    IF T.dx # Null /\ T.sx # Null
    THEN LET s == StaccaMinimo(T.dx) IN Node(s.min, T.sx, s.rest)
    ELSE IF T.dx # Null THEN T.dx ELSE T.sx

DeleteRoot(T) ==
    IF T.dx # Null /\ T.sx # Null
    THEN LET s == StaccaMinimo(T.dx) IN BilanciaSX(Node(s.min, T.sx, s.rest))
    ELSE IF T.dx # Null THEN T.dx ELSE T.sx

RECURSIVE DeleteNickname(_, _)
DeleteNickname(T, n) ==
    CASE T = Null -> T
      [] T # Null /\ T.uniqueNumberNickname < n ->
            BilanciaSX(WithDX(T, DeleteNickname(T.dx, n)))
      [] T # Null /\ T.uniqueNumberNickname > n ->
            BilanciaDX(WithSX(T, DeleteNickname(T.sx, n)))
      [] T # Null /\ T.uniqueNumberNickname = n -> DeleteRoot(T)

RECURSIVE NicknameExists(_, _)
NicknameExists(T, n) ==
    /\ T # Null
    /\ \/ T.uniqueNumberNickname = n
       \/ T.uniqueNumberNickname < n /\ NicknameExists(T.dx, n)
       \/ T.uniqueNumberNickname > n /\ NicknameExists(T.sx, n)

-----------------------------------------------------------------------------
\* The numbers in the tree from left to right, the order printTree shows.
RECURSIVE InOrderOf(_)
InOrderOf(T) ==
    IF T = Null THEN <<>>
    ELSE InOrderOf(T.sx) \o <<T.uniqueNumberNickname>> \o InOrderOf(T.dx)

\* T and the subtrees below it, without NULL.
RECURSIVE Subtrees(_)
Subtrees(T) ==
    IF T = Null THEN {} ELSE {T} \cup Subtrees(T.sx) \cup Subtrees(T.dx)
=============================================================================
