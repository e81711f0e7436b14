--------------------------- MODULE QueueRefinement ---------------------------
(***************************************************************************)
(* The linked list of server.c implements the queue of module RoomQueue.   *)
(***************************************************************************)
EXTENDS LinkedQueue

Capacity == Cardinality(Node)

\* Chain[i] is the i-th node from the head, Null after the last one.
Chain ==
    LET chain[i \in 1..(Capacity + 1)] ==
            IF i = 1 THEN head
            ELSE IF chain[i - 1] \in Allocated THEN next[chain[i - 1]] ELSE Null
    IN  chain

Length == Cardinality({i \in 1..(Capacity + 1) : Chain[i] \in Allocated})

\* The clients in the list, head first: the queue it stands for.
Contents == [i \in 1..Length |-> client[Chain[i]]]

RQ == INSTANCE RoomQueue WITH queue <- Contents

\* Every operation of server.c on the list does to the clients in it what the
\* same operation of RoomQueue does to its sequence, with the same answer.
ImplementsRoomQueue == RQ!RQSpec

-----------------------------------------------------------------------------
\* The pointers point to nodes or are NULL; the count is not negative.
TypeOK ==
    /\ head \in NodeOrNull /\ tail \in NodeOrNull /\ count \in Nat
    /\ next \in [Node -> NodeOrNull \cup {Freed}]
    /\ client \in [Node -> Client \cup {Freed}]
    /\ doing \in {"none", "delete", "find"}
    /\ cur \in NodeOrNull /\ prev \in NodeOrNull
    /\ refused \in SUBSET Pairs

\* The three fields of Queue agree with the list, which ends, and the list has
\* exactly the nodes that are not freed: no link leads to freed memory, and no
\* node is lost.
ListIntact ==
    /\ Chain[Capacity + 1] = Null
    /\ count = Length
    /\ tail = IF Length = 0 THEN Null ELSE Chain[Length]
    /\ Allocated = {Chain[i] : i \in 1..Length}

\* A search never looks at freed memory: its two nodes are in the list, one
\* after the other.
CallIntact ==
    /\ doing # "none" /\ cur # Null => cur \in Allocated
    /\ prev # Null => prev \in Allocated /\ next[prev] = cur
    /\ doing = "delete" /\ prev = Null => cur = head
=============================================================================
