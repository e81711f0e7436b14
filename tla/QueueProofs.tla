----------------------------- MODULE QueueProofs ----------------------------
(***************************************************************************)
(* The linked list of server.c stays a list, whatever the size of the heap *)
(* and whoever is queued under whatever nickname, and it implements the    *)
(* queue of module RoomQueue.                                              *)
(***************************************************************************)
EXTENDS QueueRefinement, QueueLemmas

\* The k-th node of s, NULL before the first and after the last.
At(s, k) == IF k \in 1..Len(s) THEN s[k] ELSE Null

\* The list in the heap has the nodes s, and there are no others.
Lists(s) ==
    /\ \A i, j \in 1..Len(s) : s[i] = s[j] => i = j
    /\ head = At(s, 1) /\ tail = At(s, Len(s)) /\ count = Len(s)
    /\ \A i \in 1..Len(s) : next[s[i]] = At(s, i + 1) /\ client[s[i]] \in Client
    /\ \A n \in Node : next[n] # Freed => \E i \in 1..Len(s) : n = s[i]

\* A search looks at the k-th node of s, and has gone past the ones before it.
LooksAt(s, k) == cur = At(s, k) /\ prev = At(s, k - 1)

Passed(s, k) ==
    \/ doing = "delete" /\ k >= 1
       /\ \A j \in 1..(k - 1) : NicknameOf[client[s[j]]] # nickname
    \/ doing = "find" /\ k >= 2 /\ Len(s) >= 2
       /\ \A j \in 2..(k - 1) : {client[s[j]], client[s[1]]} \in refused

Calls(s) ==
    /\ doing # "none" => \E k \in 1..(Len(s) + 1) : LooksAt(s, k) /\ Passed(s, k)
    /\ doing = "none" => cur = Null /\ prev = Null
    /\ doing # "find" => refused = {}
    /\ doing = "delete" => nickname \in {NicknameOf[c] : c \in Client}

ListInv == TypeOK /\ \E s \in Seq(Node) : Lists(s) /\ Calls(s)

-----------------------------------------------------------------------------
(***************************************************************************)
(* The chain of pointers from the head is that list.                       *)
(***************************************************************************)
LEMMA AtType ==
    ASSUME NEW s \in Seq(Node), NEW k \in Int
    PROVE  /\ At(s, k) \in NodeOrNull /\ At(s, k) # Freed
           /\ At(s, k) \in Node <=> k \in 1..Len(s)
           /\ At(s, k) = Null <=> k \notin 1..Len(s)
<1>1. \A i \in 1..Len(s) : s[i] \in Node
    BY ElementOfSeq
<1>2. Null \notin Node /\ Freed \notin Node /\ Freed # Null
    BY HeapAssumption
<1> QED BY <1>1, <1>2 DEF At, NodeOrNull

\* The nodes of the list are the ones allocated.
LEMMA ListedAllocated ==
    ASSUME NEW s \in Seq(Node), Lists(s)
    PROVE  /\ Allocated = {s[i] : i \in 1..Len(s)}
           /\ \A k \in Int : At(s, k) \in Allocated <=> k \in 1..Len(s)
<1>1. ASSUME NEW i \in 1..Len(s) PROVE s[i] \in Allocated
  <2>1. s[i] \in Node /\ i + 1 \in Int /\ next[s[i]] = At(s, i + 1)
      BY ElementOfSeq, LenProperties DEF Lists
  <2> QED BY <2>1, AtType DEF Allocated
<1>2. ASSUME NEW n \in Allocated PROVE \E i \in 1..Len(s) : n = s[i]
    BY <1>2 DEF Allocated, Lists
<1>3. Allocated = {s[i] : i \in 1..Len(s)}
    BY <1>1, <1>2
<1>4. ASSUME NEW k \in Int PROVE At(s, k) \in Allocated <=> k \in 1..Len(s)
  <2>1. k \in 1..Len(s) => At(s, k) \in Allocated
      BY <1>1 DEF At
  <2>2. At(s, k) \in Allocated => At(s, k) \in Node
      BY DEF Allocated
  <2> QED BY <2>1, <2>2, AtType
<1> QED BY <1>3, <1>4

LEMMA ListFits ==
    ASSUME NEW s \in Seq(Node), Lists(s)
    PROVE  /\ Capacity \in Nat /\ Len(s) \in Nat /\ Len(s) <= Capacity
           /\ Cardinality(1..Len(s)) = Len(s)
<1>1. Capacity \in Nat /\ Len(s) \in Nat
    BY FS_CardinalityType, HeapAssumption, LenProperties DEF Capacity
<1>2. s \in Injection(1..Len(s), Node)
    BY LenProperties, ElementOfSeq DEF Lists, Injection, IsInjective
<1>3. IsFiniteSet(1..Len(s)) /\ Cardinality(1..Len(s)) = Len(s)
    BY <1>1, FS_Interval
<1>4. Cardinality(1..Len(s)) <= Cardinality(Node)
    BY <1>2, FS_Injection, HeapAssumption
<1> QED BY <1>1, <1>3, <1>4 DEF Capacity

LEMMA ChainIsList ==
    ASSUME NEW s \in Seq(Node), Lists(s)
    PROVE  \A k \in 1..(Capacity + 1) : Chain[k] = At(s, k)
<1> DEFINE body(f) == [i \in 1..(Capacity + 1) |->
              IF i = 1 THEN head ELSE IF f[i - 1] \in Allocated THEN next[f[i - 1]] ELSE Null]
           list == [i \in 1..(Capacity + 1) |-> At(s, i)]
           found == CHOOSE f : f = body(f)
<1>1. Capacity \in Nat /\ Len(s) \in Nat
    BY ListFits
<1>2. At(s, 1) = head
    BY DEF Lists
<1>3. ASSUME NEW i \in 2..(Capacity + 1)
      PROVE  At(s, i) = IF At(s, i - 1) \in Allocated THEN next[At(s, i - 1)] ELSE Null
  <2>0. i - 1 \in Int /\ (i - 1) + 1 = i /\ (i - 1 \notin 1..Len(s) => i \notin 1..Len(s))
      BY <1>1
  <2>1. CASE i - 1 \in 1..Len(s)
    <3>1. At(s, i - 1) = s[i - 1] /\ At(s, i - 1) \in Allocated
        BY <2>0, <2>1, ListedAllocated DEF At
    <3>2. next[s[i - 1]] = At(s, i)
        BY <2>0, <2>1 DEF Lists
    <3> QED BY <3>1, <3>2
  <2>2. CASE i - 1 \notin 1..Len(s)
    <3>1. At(s, i) = Null /\ At(s, i - 1) \notin Allocated
        BY <2>0, <2>2, ListedAllocated, AtType
    <3> QED BY <3>1
  <2> QED BY <2>1, <2>2
<1>4. list = body(list)
  <2>1. ASSUME NEW i \in 1..(Capacity + 1) PROVE list[i] = body(list)[i]
    <3>1. CASE i = 1
        BY <1>1, <1>2, <3>1
    <3>2. CASE i # 1
      <4>1. i \in 2..(Capacity + 1) /\ i - 1 \in 1..(Capacity + 1)
          BY <1>1, <3>2
      <4>2. list[i] = At(s, i) /\ list[i - 1] = At(s, i - 1)
          BY <4>1
      <4>3. body(list)[i] = IF list[i - 1] \in Allocated THEN next[list[i - 1]] ELSE Null
          BY <3>2
      <4> HIDE DEF list, body
      <4> QED BY <1>3, <4>1, <4>2, <4>3
    <3> QED BY <3>1, <3>2
  <2>2. DOMAIN list = 1..(Capacity + 1) /\ list = [i \in 1..(Capacity + 1) |-> list[i]]
      OBVIOUS
  <2> QED BY <2>1, <2>2
<1>5. found = body(found)
  <2> HIDE DEF list, body
  <2> QED BY <1>4
<1>6. Chain = found
    BY DEF Chain
<1>7. \A i \in 1..(Capacity + 1) : found[i] =
         IF i = 1 THEN head
         ELSE IF found[i - 1] \in Allocated THEN next[found[i - 1]] ELSE Null
    BY <1>5
<1> HIDE DEF found
<1> DEFINE same == {n \in 0..Capacity : found[n + 1] = At(s, n + 1)}
<1>8. 0..Capacity \subseteq same
  <2>1. 0 \in same
    <3>1. 0 \in 0..Capacity /\ 0 + 1 = 1 /\ 1 \in 1..(Capacity + 1)
        BY <1>1
    <3> QED BY <1>2, <1>7, <3>1
  <2>2. ASSUME NEW n \in 0..(Capacity - 1), n \in same PROVE n + 1 \in same
    <3>1. /\ n + 1 \in 0..Capacity /\ n + 2 \in 2..(Capacity + 1) /\ n + 2 \in 1..(Capacity + 1)
          /\ n + 2 # 1 /\ (n + 2) - 1 = n + 1 /\ (n + 1) + 1 = n + 2
        BY <1>1
    <3>2. found[n + 2] = IF found[n + 1] \in Allocated THEN next[found[n + 1]] ELSE Null
        BY <1>7, <3>1
    <3>3. At(s, n + 2) = IF At(s, n + 1) \in Allocated THEN next[At(s, n + 1)] ELSE Null
        BY <1>3, <3>1
    <3>4. found[n + 1] = At(s, n + 1)
        BY <2>2
    <3> QED BY <3>1, <3>2, <3>3, <3>4
  <2> HIDE DEF same
  <2> QED BY <1>1, <2>1, <2>2, UpTo
<1>9. ASSUME NEW k \in 1..(Capacity + 1) PROVE Chain[k] = At(s, k)
  <2>1. k - 1 \in 0..Capacity /\ (k - 1) + 1 = k
      BY <1>1
  <2> QED BY <1>6, <1>8, <2>1
<1> QED BY <1>9

\* The clients of the nodes s.
ClientsOf(s) == [i \in 1..Len(s) |-> client[s[i]]]

LEMMA ContentsOfList ==
    ASSUME NEW s \in Seq(Node), Lists(s)
    PROVE  Length = Len(s) /\ Contents = ClientsOf(s) /\ ClientsOf(s) \in Seq(Client)
<1>1. Capacity \in Nat /\ Len(s) \in Nat /\ Len(s) <= Capacity
    BY ListFits
<1>2. {i \in 1..(Capacity + 1) : Chain[i] \in Allocated} = 1..Len(s)
  <2>1. \A i \in 1..(Capacity + 1) : Chain[i] \in Allocated <=> i \in 1..Len(s)
      BY <1>1, ChainIsList, ListedAllocated
  <2> QED BY <1>1, <2>1
<1>3. Cardinality(1..Len(s)) = Len(s)
    BY ListFits
<1>4. Length = Len(s)
    BY <1>2, <1>3 DEF Length
<1>5. \A i \in 1..Len(s) : Chain[i] = s[i]
    BY <1>1, ChainIsList DEF At
<1>6. Contents = ClientsOf(s)
    BY <1>4, <1>5 DEF Contents, ClientsOf
<1>7. ClientsOf(s) \in [1..Len(s) -> Client]
    BY DEF Lists, ClientsOf
<1>8. ClientsOf(s) \in Seq(Client)
    BY <1>1, <1>7, SeqDef
<1> QED BY <1>4, <1>6, <1>8

\* So the list is intact, and a call looks at two nodes of it.
LEMMA ListInvIntact == ListInv => ListIntact /\ CallIntact
<1> SUFFICES ASSUME ListInv PROVE ListIntact /\ CallIntact
    OBVIOUS
<1>1. PICK s \in Seq(Node) : Lists(s) /\ Calls(s)
    BY DEF ListInv
<1>2. Capacity \in Nat /\ Len(s) \in Nat /\ Len(s) <= Capacity /\ Length = Len(s)
    BY <1>1, ListFits, ContentsOfList
<1>3. \A i \in 1..(Capacity + 1) : Chain[i] = At(s, i)
    BY <1>1, ChainIsList
<1>4. ListIntact
  <2>1. Chain[Capacity + 1] = Null
    <3>1. Capacity + 1 \in 1..(Capacity + 1) /\ Capacity + 1 \notin 1..Len(s)
        BY <1>2
    <3> QED BY <1>3, <3>1, AtType
  <2>2. tail = IF Length = 0 THEN Null ELSE Chain[Length]
    <3>1. tail = At(s, Len(s)) /\ (Len(s) = 0 => At(s, Len(s)) = Null)
        BY <1>1, <1>2, AtType DEF Lists
    <3> QED BY <1>2, <1>3, <3>1
  <2>3. Allocated = {Chain[i] : i \in 1..Length}
    <3>1. \A i \in 1..Len(s) : Chain[i] = s[i]
        BY <1>2, <1>3 DEF At
    <3> QED BY <1>1, <1>2, <3>1, ListedAllocated
  <2>4. count = Length
      BY <1>1, <1>2 DEF Lists
  <2> QED BY <2>1, <2>2, <2>3, <2>4 DEF ListIntact
<1>5. CallIntact
  <2>1. CASE doing # "none"
    <3>1. PICK k \in 1..(Len(s) + 1) : LooksAt(s, k)
        BY <1>1, <2>1 DEF Calls
    <3>2. cur # Null => cur \in Allocated
        BY <1>1, <1>2, <3>1, AtType, ListedAllocated DEF LooksAt
    <3>3. prev # Null => prev \in Allocated /\ next[prev] = cur
      <4>1. CASE k = 1
        <5>1. k - 1 \in Int /\ k - 1 \notin 1..Len(s)
            BY <1>2, <4>1
        <5>2. prev = Null
            BY <3>1, <5>1, AtType DEF LooksAt
        <5> QED BY <5>2
      <4>2. CASE k # 1
        <5>1. k - 1 \in 1..Len(s) /\ k - 1 \in Int /\ (k - 1) + 1 = k
            BY <1>2, <4>2
        <5>2. next[s[k - 1]] = At(s, k) /\ prev = s[k - 1] /\ cur = At(s, k)
            BY <1>1, <3>1, <5>1 DEF Lists, LooksAt, At
        <5>3. prev \in Allocated
            BY <1>1, <5>1, <5>2, ListedAllocated
        <5> QED BY <5>2, <5>3
      <4> QED BY <4>1, <4>2
    <3>4. prev = Null => cur = head
      <4>1. CASE k = 1
          BY <1>1, <3>1, <4>1 DEF LooksAt, Lists
      <4>2. CASE k # 1
        <5>1. k - 1 \in 1..Len(s) /\ k - 1 \in Int
            BY <1>2, <4>2
        <5> QED BY <3>1, <5>1, AtType DEF LooksAt
      <4> QED BY <4>1, <4>2
    <3> QED BY <2>1, <3>2, <3>3, <3>4 DEF CallIntact
  <2>2. CASE doing = "none"
      BY <1>1, <2>2 DEF Calls, CallIntact
  <2> QED BY <2>1, <2>2
<1> QED BY <1>4, <1>5

-----------------------------------------------------------------------------
(***************************************************************************)
(* Unlinking a node.                                                       *)
(***************************************************************************)

\* The k-th node of s is taken out of the links.
Unlinking(s, k) == IF k = 1 THEN next ELSE [next EXCEPT ![s[k - 1]] = next[s[k]]]

LEMMA Unlinked ==
    ASSUME TypeOK, NEW s \in Seq(Node), Lists(s), NEW k \in 1..Len(s),
           NEW t \in Seq(Node), t = RemoveAt(s, k)
    PROVE  /\ Len(s) \in Nat /\ Len(t) \in Nat /\ Len(t) = Len(s) - 1
           /\ \A i \in 1..Len(t) : t[i] = IF i < k THEN s[i] ELSE s[i + 1]
           /\ \A i, j \in 1..Len(t) : t[i] = t[j] => i = j
           /\ \A i \in 1..Len(t) : t[i] # s[k]
           /\ \A i \in 1..Len(s) : s[i] # s[k] => \E j \in 1..Len(t) : s[i] = t[j]
           /\ \A i \in 1..Len(t) : Unlinking(s, k)[t[i]] = At(t, i + 1)
           /\ At(t, 1) = IF k = 1 THEN next[s[1]] ELSE head
           /\ At(t, Len(t)) = IF k = Len(s) THEN At(s, k - 1) ELSE tail
<1>1. /\ Len(s) \in Nat /\ Len(t) = Len(s) - 1
      /\ \A i \in 1..(Len(s) - 1) : t[i] = IF i < k THEN s[i] ELSE s[i + 1]
    BY LenProperties, RemoveAtType, RemoveAtPositions
<1>2. Len(t) \in Nat
    BY LenProperties
<1>3. /\ \A i, j \in 1..Len(s) : s[i] = s[j] => i = j
      /\ head = At(s, 1) /\ tail = At(s, Len(s))
      /\ \A i \in 1..Len(s) : next[s[i]] = At(s, i + 1)
    BY DEF Lists
<1>4. \A i \in 1..Len(s) : s[i] \in Node
    BY ElementOfSeq
<1> DEFINE at(i) == IF i < k THEN i ELSE i + 1
<1>5. \A i \in 1..Len(t) : at(i) \in 1..Len(s) /\ at(i) # k /\ t[i] = s[at(i)]
    BY <1>1
<1>6. \A i, j \in 1..Len(t) : at(i) = at(j) => i = j
    BY <1>1
<1>7. \A i \in 1..Len(s) : i # k => \E j \in 1..Len(t) : i = at(j)
  <2> SUFFICES ASSUME NEW i \in 1..Len(s), i # k PROVE \E j \in 1..Len(t) : i = at(j)
      OBVIOUS
  <2>1. CASE i < k
      BY <1>1, <2>1
  <2>2. CASE i > k
    <3>1. i - 1 \in 1..Len(t) /\ i = at(i - 1)
        BY <1>1, <2>2
    <3> QED BY <3>1
  <2> QED BY <2>1, <2>2
<1>8. ASSUME NEW i \in 1..Len(t), NEW j \in 1..Len(t), t[i] = t[j] PROVE i = j
  <2>1. at(i) \in 1..Len(s) /\ at(j) \in 1..Len(s) /\ s[at(i)] = s[at(j)]
    <3> HIDE DEF at
    <3> QED BY <1>5, <1>8
  <2>2. at(i) = at(j)
    <3> HIDE DEF at
    <3> QED BY <1>3, <2>1
  <2> QED BY <1>6, <2>2
<1>9. ASSUME NEW i \in 1..Len(t) PROVE t[i] # s[k]
  <2>1. at(i) \in 1..Len(s) /\ at(i) # k /\ t[i] = s[at(i)]
      BY <1>5
  <2> HIDE DEF at
  <2> QED BY <1>3, <2>1
<1>10. \A i \in 1..Len(s) : s[i] # s[k] => \E j \in 1..Len(t) : s[i] = t[j]
  <2> HIDE DEF at
  <2> QED BY <1>5, <1>7
<1>11. ASSUME NEW i \in 1..Len(t) PROVE Unlinking(s, k)[t[i]] = At(t, i + 1)
  <2>1. next \in [Node -> NodeOrNull \cup {Freed}]
      BY DEF TypeOK
  <2>2. CASE i = k - 1
    <3>1. /\ k # 1 /\ k - 1 \in 1..Len(s) /\ t[i] = s[k - 1] /\ i + 1 = k
        BY <1>1, <2>2
    <3>2. Unlinking(s, k)[t[i]] = next[s[k]]
        BY <1>4, <2>1, <3>1 DEF Unlinking
    <3>3. next[s[k]] = At(s, k + 1)
        BY <1>3
    <3>4. At(s, k + 1) = At(t, k)
        BY <1>1 DEF At
    <3> QED BY <3>1, <3>2, <3>3, <3>4
  <2>3. CASE i # k - 1
    <3>1. Unlinking(s, k)[t[i]] = next[t[i]]
      <4>1. k # 1 => k - 1 \in 1..Len(s) /\ at(i) # k - 1 /\ at(i) \in 1..Len(s)
          BY <1>1, <2>3
      <4>2. k # 1 => t[i] # s[k - 1]
        <5> HIDE DEF at
        <5> QED BY <1>3, <1>5, <4>1
      <4>3. t[i] \in Node
          BY ElementOfSeq
      <4> QED BY <2>1, <4>2, <4>3 DEF Unlinking
    <3>2. next[t[i]] = At(s, at(i) + 1)
      <4> HIDE DEF at
      <4> QED BY <1>3, <1>5
    <3>3. At(s, at(i) + 1) = At(t, i + 1)
        BY <1>1, <2>3 DEF At
    <3> QED BY <3>1, <3>2, <3>3
  <2> QED BY <2>2, <2>3
<1>12. At(t, 1) = IF k = 1 THEN next[s[1]] ELSE head
  <2>1. k = 1 => next[s[1]] = At(s, 2)
      BY <1>3
  <2>2. k = 1 => At(s, 2) = At(t, 1)
      BY <1>1 DEF At
  <2>3. k # 1 => At(s, 1) = At(t, 1)
      BY <1>1 DEF At
  <2> QED BY <1>3, <2>1, <2>2, <2>3
<1>13. At(t, Len(t)) = IF k = Len(s) THEN At(s, k - 1) ELSE tail
  <2>1. k = Len(s) => At(t, Len(t)) = At(s, k - 1)
      BY <1>1 DEF At
  <2>2. k # Len(s) => At(t, Len(t)) = At(s, Len(s))
      BY <1>1 DEF At
  <2> QED BY <1>3, <2>1, <2>2
<1> HIDE DEF at
<1>14. \A i \in 1..Len(t) : t[i] = IF i < k THEN s[i] ELSE s[i + 1]
    BY <1>1
<1> QED BY <1>1, <1>2, <1>8, <1>9, <1>10, <1>11, <1>12, <1>13, <1>14

-----------------------------------------------------------------------------
(***************************************************************************)
(* What the operations do to the list.                                     *)
(***************************************************************************)
LEMMA EnqueueEffect ==
    ASSUME TypeOK, NEW s \in Seq(Node), Lists(s), NEW c \in Client, NEW n \in Node, Enqueue(c, n)
    PROVE  \E t \in Seq(Node) : Lists(t)' /\ ClientsOf(t)' = Append(ClientsOf(s), c)
<1> DEFINE t == Append(s, n)
<1>1. /\ Len(s) \in Nat /\ t \in Seq(Node) /\ Len(t) = Len(s) + 1
      /\ \A i \in 1..Len(s) : t[i] = s[i]
      /\ t[Len(s) + 1] = n
      /\ \A i \in 1..Len(s) : s[i] \in Node
    BY AppendProperties, LenProperties, ElementOfSeq
<1>2. /\ \A i, j \in 1..Len(s) : s[i] = s[j] => i = j
      /\ head = At(s, 1) /\ tail = At(s, Len(s)) /\ count = Len(s)
      /\ \A i \in 1..Len(s) : next[s[i]] = At(s, i + 1) /\ client[s[i]] \in Client
      /\ \A m \in Node : next[m] # Freed => \E i \in 1..Len(s) : m = s[i]
    BY DEF Lists
<1>3. /\ n \notin Allocated /\ count' = count + 1 /\ tail' = n
      /\ head' = IF tail = Null THEN n ELSE head
      /\ \A m \in Node : next'[m] = IF m = n THEN Null ELSE IF m = tail THEN n ELSE next[m]
      /\ \A m \in Node : client'[m] = IF m = n THEN c ELSE client[m]
    BY DEF Enqueue, TypeOK
<1>4. \A i \in 1..Len(s) : s[i] # n
    BY <1>3, ListedAllocated
<1>5. /\ tail = Null <=> Len(s) = 0
      /\ \A i \in 1..Len(s) : s[i] = tail <=> i = Len(s)
  <2>1. Len(s) \in 1..Len(s) <=> Len(s) # 0
      BY <1>1
  <2>2. tail = Null <=> Len(s) \notin 1..Len(s)
      BY <1>1, <1>2, AtType
  <2>3. ASSUME NEW i \in 1..Len(s) PROVE s[i] = tail <=> i = Len(s)
    <3>1. Len(s) \in 1..Len(s)
        BY <1>1
    <3> QED BY <1>2, <3>1 DEF At
  <2> QED BY <2>1, <2>2, <2>3
<1> HIDE DEF t
<1>6. \A i, j \in 1..Len(t) : t[i] = t[j] => i = j
  <2>1. \A i \in 1..Len(t) : i \in 1..Len(s) \/ i = Len(s) + 1
      BY <1>1
  <2> QED BY <1>1, <1>2, <1>4, <2>1
<1>7. head' = At(t, 1) /\ tail' = At(t, Len(t)) /\ count' = Len(t)
  <2>1. At(t, Len(t)) = n
      BY <1>1 DEF At
  <2>2. CASE Len(s) = 0
    <3>1. At(t, 1) = n
        BY <1>1, <2>2 DEF At
    <3> QED BY <1>1, <1>2, <1>3, <1>5, <2>1, <2>2, <3>1
  <2>3. CASE Len(s) # 0
    <3>1. At(t, 1) = At(s, 1)
        BY <1>1, <2>3 DEF At
    <3> QED BY <1>1, <1>2, <1>3, <1>5, <2>1, <2>3, <3>1
  <2> QED BY <2>2, <2>3
<1>8. ASSUME NEW i \in 1..Len(t)
      PROVE  next'[t[i]] = At(t, i + 1) /\ client'[t[i]] \in Client
  <2>1. CASE i = Len(s) + 1
    <3>1. t[i] = n /\ At(t, i + 1) = Null
        BY <1>1, <2>1 DEF At
    <3> QED BY <1>3, <3>1
  <2>2. CASE i = Len(s) /\ i # Len(s) + 1
    <3>1. i \in 1..Len(s) /\ t[i] = s[i] /\ At(t, i + 1) = n
        BY <1>1, <2>2 DEF At
    <3> QED BY <1>1, <1>2, <1>3, <1>4, <1>5, <2>2, <3>1
  <2>3. CASE i # Len(s) /\ i # Len(s) + 1
    <3>1. i \in 1..Len(s) /\ t[i] = s[i] /\ At(t, i + 1) = At(s, i + 1)
        BY <1>1, <2>3 DEF At
    <3> QED BY <1>1, <1>2, <1>3, <1>4, <1>5, <2>3, <3>1
  <2> QED BY <2>1, <2>2, <2>3
<1>9. ASSUME NEW m \in Node, next'[m] # Freed PROVE \E i \in 1..Len(t) : m = t[i]
  <2>1. CASE m = n
    <3>1. Len(s) + 1 \in 1..Len(t)
        BY <1>1
    <3> QED BY <1>1, <2>1, <3>1
  <2>2. CASE m # n
    <3>1. \E i \in 1..Len(s) : m = s[i]
      <4>1. CASE m = tail
        <5>1. Len(s) \in 1..Len(s)
            BY <1>1, <1>2, <4>1, AtType
        <5> QED BY <1>5, <4>1, <5>1
      <4>2. CASE m # tail
          BY <1>2, <1>3, <1>9, <2>2, <4>2
      <4> QED BY <4>1, <4>2
    <3>2. \A i \in 1..Len(s) : i \in 1..Len(t)
        BY <1>1
    <3> QED BY <1>1, <3>1, <3>2
  <2> QED BY <2>1, <2>2
<1>10. Lists(t)'
    BY <1>6, <1>7, <1>8, <1>9 DEF Lists
<1>11. ClientsOf(t)' = Append(ClientsOf(s), c)
  <2>1. ClientsOf(s) \in Seq(Client) /\ Len(ClientsOf(s)) = Len(s)
      BY <1>1, ContentsOfList DEF ClientsOf
  <2>2. /\ Append(ClientsOf(s), c) \in Seq(Client) /\ Len(Append(ClientsOf(s), c)) = Len(s) + 1
        /\ \A i \in 1..Len(s) : Append(ClientsOf(s), c)[i] = ClientsOf(s)[i]
        /\ Append(ClientsOf(s), c)[Len(s) + 1] = c
      BY <2>1, AppendProperties
  <2>3. ClientsOf(t)' = [i \in 1..Len(t) |-> client'[t[i]]]
      BY DEF ClientsOf
  <2>4. ClientsOf(t)' \in Seq(Client) /\ Len(ClientsOf(t)') = Len(t)
    <3>1. ClientsOf(t)' \in [1..Len(t) -> Client]
        BY <1>8, <2>3
    <3> QED BY <1>1, <2>3, <3>1, SeqDef
  <2>5. \A i \in 1..Len(t) : ClientsOf(t)'[i] = Append(ClientsOf(s), c)[i]
    <3> SUFFICES ASSUME NEW i \in 1..Len(t)
                 PROVE  client'[t[i]] = Append(ClientsOf(s), c)[i]
        BY <2>3
    <3>1. CASE i = Len(s) + 1
        BY <1>1, <1>3, <2>2, <3>1
    <3>2. CASE i # Len(s) + 1
      <4>1. i \in 1..Len(s) /\ t[i] = s[i]
          BY <1>1, <3>2
      <4>2. client'[s[i]] = client[s[i]] /\ ClientsOf(s)[i] = client[s[i]]
          BY <1>1, <1>3, <1>4, <4>1 DEF ClientsOf
      <4> QED BY <2>2, <4>1, <4>2
    <3> QED BY <3>1, <3>2
  <2> QED BY <1>1, <2>2, <2>4, <2>5, SeqEqual
<1> QED BY <1>1, <1>10, <1>11

\* Where a search looks.
LEMMA LookingAt ==
    ASSUME NEW s \in Seq(Node), Lists(s), NEW k \in 1..(Len(s) + 1), LooksAt(s, k)
    PROVE  /\ Len(s) \in Nat
           /\ cur # Null <=> k \in 1..Len(s)
           /\ cur # Null => cur = s[k] /\ cur \in Node /\ k <= Len(s)
           /\ prev = Null <=> k = 1
           /\ prev # Null => k - 1 \in 1..Len(s) /\ prev = s[k - 1] /\ prev \in Node
<1>1. Len(s) \in Nat /\ k \in Int /\ k - 1 \in Int
    BY LenProperties
<1>2. cur = At(s, k) /\ prev = At(s, k - 1)
    BY DEF LooksAt
<1>3. k - 1 \in 1..Len(s) <=> k # 1
    BY <1>1
<1>4. cur # Null <=> k \in 1..Len(s)
    BY <1>1, <1>2, AtType
<1>5. prev = Null <=> k = 1
    BY <1>1, <1>2, <1>3, AtType
<1>6. cur # Null => cur = s[k] /\ cur \in Node /\ k <= Len(s)
    BY <1>1, <1>2, <1>4, AtType DEF At
<1>7. prev # Null => k - 1 \in 1..Len(s) /\ prev = s[k - 1] /\ prev \in Node
    BY <1>1, <1>2, <1>3, <1>5, AtType DEF At
<1> QED BY <1>1, <1>4, <1>5, <1>6, <1>7

LEMMA UnlinkingType ==
    ASSUME TypeOK, NEW s \in Seq(Node), Lists(s), NEW k \in 1..Len(s), NEW n \in Node,
           Unlinking(s, k)[n] # Freed
    PROVE  \E i \in 1..Len(s) : n = s[i]
<1>1. CASE Unlinking(s, k)[n] = next[n]
    BY <1>1 DEF Lists
<1>2. CASE Unlinking(s, k)[n] # next[n]
  <2>1. k # 1 /\ n = s[k - 1] /\ k - 1 \in 1..Len(s)
      BY <1>2, LenProperties DEF Unlinking, TypeOK
  <2> QED BY <2>1
<1> QED BY <1>1, <1>2

LEMMA DeleteHitEffect ==
    ASSUME TypeOK, NEW s \in Seq(Node), Lists(s), NEW k \in 1..(Len(s) + 1), LooksAt(s, k),
           DeleteHit
    PROVE  /\ k \in 1..Len(s)
           /\ \E t \in Seq(Node) : Lists(t)' /\ ClientsOf(t)' = RemoveAt(ClientsOf(s), k)
<1> DEFINE t == RemoveAt(s, k)
<1>1. /\ cur # Null /\ count' = count - 1
      /\ head' = IF prev = Null THEN next[cur] ELSE head
      /\ tail' = IF count = 1 THEN Null ELSE IF cur = tail THEN prev ELSE tail
      /\ next' = [n \in Node |-> IF n \in {cur} THEN Freed
                   ELSE (IF prev = Null THEN next ELSE [next EXCEPT ![prev] = next[cur]])[n]]
      /\ client' = [n \in Node |-> IF n \in {cur} THEN Freed ELSE client[n]]
    BY DEF DeleteHit, Free
<1>2. /\ Len(s) \in Nat /\ k \in 1..Len(s) /\ cur = s[k] /\ (prev = Null <=> k = 1)
      /\ prev # Null => prev = s[k - 1]
    BY <1>1, LookingAt
<1>3. t \in Seq(Node) /\ \A i \in 1..Len(s) : s[i] \in Node
    BY <1>2, RemoveAtType, ElementOfSeq
<1> HIDE DEF t
<1>4. /\ Len(t) \in Nat /\ Len(t) = Len(s) - 1
      /\ \A i \in 1..Len(t) : t[i] = IF i < k THEN s[i] ELSE s[i + 1]
      /\ \A i, j \in 1..Len(t) : t[i] = t[j] => i = j
      /\ \A i \in 1..Len(t) : t[i] # s[k]
      /\ \A i \in 1..Len(s) : s[i] # s[k] => \E j \in 1..Len(t) : s[i] = t[j]
      /\ \A i \in 1..Len(t) : Unlinking(s, k)[t[i]] = At(t, i + 1)
      /\ At(t, 1) = IF k = 1 THEN next[s[1]] ELSE head
      /\ At(t, Len(t)) = IF k = Len(s) THEN At(s, k - 1) ELSE tail
    BY <1>2, <1>3, Unlinked DEF t
<1>5. \A n \in Node : /\ next'[n] = IF n = s[k] THEN Freed ELSE Unlinking(s, k)[n]
                      /\ client'[n] = IF n = s[k] THEN Freed ELSE client[n]
  <2>1. (IF prev = Null THEN next ELSE [next EXCEPT ![prev] = next[cur]]) = Unlinking(s, k)
      BY <1>2 DEF Unlinking
  <2> QED BY <1>1, <1>2, <2>1
<1>6. \A i \in 1..Len(t) : t[i] \in Node
    BY <1>3, ElementOfSeq
<1>7. head' = At(t, 1) /\ count' = Len(t)
    BY <1>1, <1>2, <1>4 DEF Lists
<1>8. tail' = At(t, Len(t))
  <2>1. CASE Len(s) = 1
    <3>1. Len(t) \notin 1..Len(t) /\ count = 1
        BY <1>4, <2>1 DEF Lists
    <3> QED BY <1>1, <3>1 DEF At
  <2>2. CASE Len(s) # 1
    <3>1. count # 1 /\ (cur = tail <=> k = Len(s))
        BY <1>2, <2>2 DEF Lists, At
    <3>2. prev = At(s, k - 1)
        BY DEF LooksAt
    <3> QED BY <1>1, <1>4, <3>1, <3>2
  <2> QED BY <2>1, <2>2
<1>9. ASSUME NEW i \in 1..Len(t) PROVE next'[t[i]] = At(t, i + 1) /\ client'[t[i]] \in Client
  <2>1. client[t[i]] \in Client
    <3>1. i \in 1..Len(s) /\ i + 1 \in 1..Len(s)
        BY <1>4
    <3> QED BY <1>4, <3>1 DEF Lists
  <2> QED BY <1>4, <1>5, <1>6, <2>1
<1>10. ASSUME NEW n \in Node, next'[n] # Freed PROVE \E i \in 1..Len(t) : n = t[i]
  <2>1. n # s[k] /\ Unlinking(s, k)[n] # Freed
      BY <1>5, <1>10
  <2>2. \E i \in 1..Len(s) : n = s[i]
      BY <1>2, <2>1, UnlinkingType
  <2> QED BY <1>4, <2>1, <2>2
<1>11. Lists(t)'
    BY <1>4, <1>7, <1>8, <1>9, <1>10 DEF Lists
<1>12. ClientsOf(t)' = RemoveAt(ClientsOf(s), k)
  <2> DEFINE q == ClientsOf(s)
  <2>1. q \in Seq(Client) /\ Len(q) = Len(s) /\ \A i \in 1..Len(s) : q[i] = client[s[i]]
      BY <1>2, ContentsOfList DEF ClientsOf
  <2> HIDE DEF q
  <2>2. /\ RemoveAt(q, k) \in Seq(Client) /\ Len(RemoveAt(q, k)) = Len(s) - 1
        /\ \A i \in 1..(Len(s) - 1) : RemoveAt(q, k)[i] = IF i < k THEN q[i] ELSE q[i + 1]
      BY <1>2, <2>1, RemoveAtType, RemoveAtPositions
  <2>3. ClientsOf(t)' = [i \in 1..Len(t) |-> client'[t[i]]]
      BY DEF ClientsOf
  <2>4. ClientsOf(t)' \in Seq(Client) /\ Len(ClientsOf(t)') = Len(t)
    <3>1. ClientsOf(t)' \in [1..Len(t) -> Client]
        BY <1>9, <2>3
    <3> QED BY <1>4, <2>3, <3>1, SeqDef
  <2>5. \A i \in 1..Len(t) : ClientsOf(t)'[i] = RemoveAt(q, k)[i]
    <3> SUFFICES ASSUME NEW i \in 1..Len(t) PROVE client'[t[i]] = RemoveAt(q, k)[i]
        BY <2>3
    <3>1. i \in 1..Len(s) /\ i + 1 \in 1..Len(s) /\ i \in 1..(Len(s) - 1)
        BY <1>4
    <3>2. client'[t[i]] = client[t[i]]
        BY <1>4, <1>5, <1>6
    <3> QED BY <1>4, <2>1, <2>2, <3>1, <3>2
  <2>6. ClientsOf(t)' = RemoveAt(q, k)
      BY <1>4, <2>2, <2>4, <2>5, SeqEqual
  <2> QED BY <2>6 DEF q
<1> QED BY <1>2, <1>3, <1>11, <1>12

LEMMA FindHitEffect ==
    ASSUME TypeOK, NEW s \in Seq(Node), Lists(s), NEW k \in 1..(Len(s) + 1), LooksAt(s, k),
           Passed(s, k), FindHit
    PROVE  /\ k \in 2..Len(s) /\ {client[s[k]], client[s[1]]} \notin refused
           /\ answer' = <<ClientsOf(s)[k], ClientsOf(s)[1]>>
           /\ \E u \in Seq(Node) :
                Lists(u)' /\ ClientsOf(u)' = RemoveAt(Tail(ClientsOf(s)), k - 1)
<1> DEFINE t == RemoveAt(s, k)
           u == Tail(t)
           links == [next EXCEPT ![prev] = next[cur]]
<1>1. /\ cur # Null /\ count' = count - 2
      /\ {client[cur], client[head]} \notin refused
      /\ answer' = <<client[cur], client[head]>>
      /\ head' = IF count = 2 THEN Null ELSE links[head]
      /\ tail' = IF count = 2 THEN Null ELSE IF next[cur] = Null THEN prev ELSE tail
      /\ next' = [n \in Node |-> IF n \in {cur, head} THEN Freed ELSE links[n]]
      /\ client' = [n \in Node |-> IF n \in {cur, head} THEN Freed ELSE client[n]]
    BY DEF FindHit, Free
<1>2. k >= 2
    BY DEF FindHit, Passed
<1>3. /\ Len(s) \in Nat /\ k \in 2..Len(s) /\ k \in 1..Len(s) /\ cur = s[k]
      /\ k - 1 \in 1..Len(s) /\ prev = s[k - 1] /\ 1 \in 1..Len(s)
    BY <1>1, <1>2, LookingAt
<1>4. /\ head = s[1] /\ links = Unlinking(s, k) /\ count = Len(s)
      /\ next[cur] = Null <=> k = Len(s)
  <2>1. next[cur] = At(s, k + 1) /\ head = s[1] /\ count = Len(s)
      BY <1>3 DEF Lists, At
  <2>2. At(s, k + 1) = Null <=> k = Len(s)
      BY <1>3, AtType
  <2> QED BY <1>3, <2>1, <2>2 DEF Unlinking
<1>5. t \in Seq(Node) /\ \A i \in 1..Len(s) : s[i] \in Node
    BY <1>3, RemoveAtType, ElementOfSeq
<1> HIDE DEF t, links
<1>6. /\ Len(t) \in Nat /\ Len(t) = Len(s) - 1
      /\ \A i \in 1..Len(t) : t[i] = IF i < k THEN s[i] ELSE s[i + 1]
      /\ \A i, j \in 1..Len(t) : t[i] = t[j] => i = j
      /\ \A i \in 1..Len(t) : t[i] # s[k]
      /\ \A i \in 1..Len(s) : s[i] # s[k] => \E j \in 1..Len(t) : s[i] = t[j]
      /\ \A i \in 1..Len(t) : Unlinking(s, k)[t[i]] = At(t, i + 1)
      /\ At(t, Len(t)) = IF k = Len(s) THEN At(s, k - 1) ELSE tail
    BY <1>3, <1>5, Unlinked DEF t
<1>7. Len(t) >= 1 /\ t # <<>> /\ 1 \in 1..Len(t) /\ t[1] = s[1]
    BY <1>3, <1>6
<1>8. /\ u \in Seq(Node) /\ Len(u) = Len(s) - 2 /\ Len(u) \in Nat
      /\ \A i \in 1..Len(u) : i + 1 \in 1..Len(t) /\ u[i] = t[i + 1]
    BY <1>5, <1>6, <1>7, HeadTailProperties, LenProperties
<1> HIDE DEF u
<1>9. \A n \in Node : /\ next'[n] = IF n = s[k] \/ n = s[1] THEN Freed ELSE Unlinking(s, k)[n]
                      /\ client'[n] = IF n = s[k] \/ n = s[1] THEN Freed ELSE client[n]
    BY <1>1, <1>3, <1>4
<1>10. \A i \in 1..Len(u) : u[i] \in Node /\ u[i] # s[k] /\ u[i] # s[1]
  <2> SUFFICES ASSUME NEW i \in 1..Len(u) PROVE u[i] \in Node /\ u[i] # s[k] /\ u[i] # s[1]
      OBVIOUS
  <2>1. i + 1 \in 1..Len(t) /\ i + 1 # 1 /\ u[i] = t[i + 1]
      BY <1>8
  <2>2. t[i + 1] # t[1]
      BY <1>6, <1>7, <2>1
  <2> QED BY <1>6, <1>7, <1>8, <2>1, <2>2, ElementOfSeq
<1>11. \A i \in 1..Len(u) : At(t, i + 2) = At(u, i + 1)
  <2> SUFFICES ASSUME NEW i \in 1..Len(u) PROVE At(t, i + 2) = At(u, i + 1)
      OBVIOUS
  <2>1. /\ i + 1 \in 1..Len(u) <=> i + 2 \in 1..Len(t)
        /\ (i + 1) + 1 = i + 2
      BY <1>6, <1>8
  <2> QED BY <1>8, <2>1 DEF At
<1>12. \A i, j \in 1..Len(u) : u[i] = u[j] => i = j
    BY <1>6, <1>8
<1>13. head' = At(u, 1) /\ count' = Len(u)
  <2>1. Unlinking(s, k)[t[1]] = At(t, 2)
      BY <1>6, <1>7
  <2>2. At(t, 2) = At(u, 1)
    <3>1. 2 \in 1..Len(t) <=> 1 \in 1..Len(u)
        BY <1>6, <1>8
    <3> QED BY <1>8, <3>1 DEF At
  <2>3. Len(s) = 2 => At(u, 1) = Null
      BY <1>8 DEF At
  <2> QED BY <1>1, <1>4, <1>7, <1>8, <2>1, <2>2, <2>3
<1>14. tail' = At(u, Len(u))
  <2>1. CASE Len(s) = 2
    <3>1. Len(u) \notin 1..Len(u)
        BY <1>8, <2>1
    <3> QED BY <1>1, <1>4, <2>1, <3>1 DEF At
  <2>2. CASE Len(s) # 2
    <3>1. At(u, Len(u)) = At(t, Len(t))
      <4>1. Len(u) \in 1..Len(u) /\ Len(u) + 1 = Len(t) /\ Len(t) \in 1..Len(t)
          BY <1>3, <1>6, <1>8, <2>2
      <4> QED BY <1>8, <4>1 DEF At
    <3>2. prev = At(s, k - 1)
        BY DEF LooksAt
    <3> QED BY <1>1, <1>4, <1>6, <2>2, <3>1, <3>2
  <2> QED BY <2>1, <2>2
<1>15. ASSUME NEW i \in 1..Len(u) PROVE next'[u[i]] = At(u, i + 1) /\ client'[u[i]] \in Client
  <2>1. client[u[i]] \in Client
    <3>1. i + 1 \in 1..Len(s) /\ i + 2 \in 1..Len(s) /\ u[i] \in {s[i + 1], s[i + 2]}
        BY <1>6, <1>8
    <3> QED BY <3>1 DEF Lists
  <2>2. Unlinking(s, k)[u[i]] = At(t, i + 2)
    <3>1. i + 1 \in 1..Len(t) /\ u[i] = t[i + 1] /\ (i + 1) + 1 = i + 2
        BY <1>8
    <3> QED BY <1>6, <3>1
  <2> QED BY <1>9, <1>10, <1>11, <2>1, <2>2
<1>16. ASSUME NEW n \in Node, next'[n] # Freed PROVE \E i \in 1..Len(u) : n = u[i]
  <2>1. n # s[k] /\ n # s[1] /\ Unlinking(s, k)[n] # Freed
      BY <1>9, <1>16
  <2>2. \E i \in 1..Len(s) : n = s[i]
      BY <1>3, <2>1, UnlinkingType
  <2>3. PICK j \in 1..Len(t) : n = t[j]
      BY <1>6, <2>1, <2>2
  <2>4. j # 1
      BY <1>7, <2>1, <2>3
  <2>5. j - 1 \in 1..Len(u) /\ (j - 1) + 1 = j
      BY <1>6, <1>8, <2>4
  <2>6. u[j - 1] = n
      BY <1>8, <2>3, <2>5
  <2> QED BY <2>5, <2>6
<1>17. Lists(u)'
    BY <1>12, <1>13, <1>14, <1>15, <1>16 DEF Lists
<1> DEFINE q == ClientsOf(s)
<1>18. q \in Seq(Client) /\ Len(q) = Len(s) /\ \A i \in 1..Len(s) : q[i] = client[s[i]]
    BY <1>3, ContentsOfList DEF ClientsOf
<1>19. answer' = <<q[k], q[1]>>
    BY <1>1, <1>3, <1>4, <1>18
<1> HIDE DEF q
<1>20. ClientsOf(u)' = RemoveAt(Tail(q), k - 1)
  <2>1. q # <<>>
      BY <1>3, <1>18
  <2>2. /\ Tail(q) \in Seq(Client) /\ Len(Tail(q)) = Len(s) - 1
        /\ \A i \in 1..(Len(s) - 1) : Tail(q)[i] = q[i + 1]
      BY <1>18, <2>1, HeadTailProperties
  <2>3. k - 1 \in 1..Len(Tail(q))
      BY <1>3, <2>2
  <2>4. /\ RemoveAt(Tail(q), k - 1) \in Seq(Client) /\ Len(RemoveAt(Tail(q), k - 1)) = Len(s) - 2
        /\ \A i \in 1..(Len(s) - 2) : RemoveAt(Tail(q), k - 1)[i] =
              IF i < k - 1 THEN Tail(q)[i] ELSE Tail(q)[i + 1]
    <3>1. /\ RemoveAt(Tail(q), k - 1) \in Seq(Client)
          /\ Len(RemoveAt(Tail(q), k - 1)) = Len(Tail(q)) - 1
          /\ \A i \in 1..(Len(Tail(q)) - 1) : RemoveAt(Tail(q), k - 1)[i] =
                IF i < k - 1 THEN Tail(q)[i] ELSE Tail(q)[i + 1]
        BY <2>2, <2>3, RemoveAtType, RemoveAtPositions
    <3>2. (Len(s) - 1) - 1 = Len(s) - 2
        BY <1>3
    <3> QED BY <2>2, <3>1, <3>2
  <2>5. ClientsOf(u)' = [i \in 1..Len(u) |-> client'[u[i]]]
      BY DEF ClientsOf
  <2>6. ClientsOf(u)' \in Seq(Client) /\ Len(ClientsOf(u)') = Len(u)
    <3>1. ClientsOf(u)' \in [1..Len(u) -> Client]
        BY <1>15, <2>5
    <3> QED BY <1>8, <2>5, <3>1, SeqDef
  <2>7. \A i \in 1..Len(u) : ClientsOf(u)'[i] = RemoveAt(Tail(q), k - 1)[i]
    <3> SUFFICES ASSUME NEW i \in 1..Len(u) PROVE client'[u[i]] = RemoveAt(Tail(q), k - 1)[i]
        BY <2>5
    <3>1. client'[u[i]] = client[u[i]]
        BY <1>9, <1>10
    <3>2. /\ i \in 1..(Len(s) - 2) /\ i \in 1..(Len(s) - 1) /\ i + 1 \in 1..(Len(s) - 1)
          /\ i + 1 \in 1..Len(s) /\ i + 2 \in 1..Len(s) /\ (i + 1) + 1 = i + 2
        BY <1>3, <1>8
    <3>3. u[i] = IF i < k - 1 THEN s[i + 1] ELSE s[i + 2]
        BY <1>3, <1>6, <1>8, <3>2
    <3>4. RemoveAt(Tail(q), k - 1)[i] = IF i < k - 1 THEN q[i + 1] ELSE q[i + 2]
        BY <2>2, <2>4, <3>2
    <3> QED BY <1>18, <3>1, <3>2, <3>3, <3>4
  <2> QED BY <1>8, <2>4, <2>6, <2>7, SeqEqual
<1> QED BY <1>1, <1>3, <1>4, <1>8, <1>17, <1>19, <1>20 DEF q

-----------------------------------------------------------------------------
(***************************************************************************)
(* Every step keeps the list, and the search in it.                        *)
(***************************************************************************)
LEMMA ListStart == LQInit => ListInv
<1> SUFFICES ASSUME LQInit PROVE ListInv
    OBVIOUS
<1>1. <<>> \in Seq(Node) /\ Len(<<>>) = 0 /\ \A k \in Int : At(<<>>, k) = Null
    BY EmptySeq DEF At
<1>2. Lists(<<>>)
    BY <1>1 DEF LQInit, Lists
<1>3. Calls(<<>>)
    BY DEF LQInit, Calls
<1>4. TypeOK
    BY DEF LQInit, TypeOK, NodeOrNull
<1> QED BY <1>1, <1>2, <1>3, <1>4 DEF ListInv

\* A new list and a search that has returned.
LEMMA NewList ==
    ASSUME NEW t \in Seq(Node), Lists(t)',
           next' \in [Node -> NodeOrNull \cup {Freed}], client' \in [Node -> Client \cup {Freed}],
           doing' = "none", cur' = Null, prev' = Null, refused' = {}
    PROVE  ListInv'
<1>1. Calls(t)'
    BY DEF Calls
<1>2. head' = At(t, 1) /\ tail' = At(t, Len(t)) /\ count' = Len(t) /\ Len(t) \in Nat
    BY LenProperties DEF Lists
<1>3. TypeOK'
    BY <1>2, AtType DEF TypeOK, NodeOrNull
<1> QED BY <1>1, <1>3 DEF ListInv

\* A search that goes on in the same list, from its k-th node.
LEMMA SearchGoesOn ==
    ASSUME ListInv, NEW s \in Seq(Node), Lists(s), NEW k \in 1..(Len(s) + 1),
           UNCHANGED listVars, LooksAt(s, k)', Passed(s, k)', refused' \in SUBSET Pairs,
           doing' = "delete" => refused' = {} /\ nickname' \in {NicknameOf[c] : c \in Client}
    PROVE  ListInv'
<1>1. Lists(s)'
    BY DEF Lists, listVars
<1>2. doing' \in {"delete", "find"}
    BY DEF Passed
<1>3. Calls(s)'
    BY <1>2 DEF Calls
<1>4. cur' \in NodeOrNull /\ prev' \in NodeOrNull
    BY AtType DEF LooksAt
<1>5. TypeOK'
    BY <1>2, <1>4 DEF TypeOK, ListInv, listVars
<1> QED BY <1>1, <1>3, <1>5 DEF ListInv

\* One node down.
LEMMA DescendEffect ==
    ASSUME NEW s \in Seq(Node), Lists(s), NEW k \in 1..(Len(s) + 1), LooksAt(s, k), Passed(s, k),
           cur # Null, Descend,
           doing = "delete" => NicknameOf[client[cur]] # nickname,
           doing = "find" => {client[cur], client[head]} \in refused
    PROVE  k + 1 \in 1..(Len(s) + 1) /\ LooksAt(s, k + 1)' /\ Passed(s, k + 1)'
<1>1. Len(s) \in Nat /\ k \in 1..Len(s) /\ cur = s[k]
    BY LookingAt
<1>2. /\ prev' = cur /\ cur' = next[cur]
      /\ UNCHANGED <<head, client, doing, nickname, refused>>
    BY DEF Descend, listVars
<1>3. next[s[k]] = At(s, k + 1) /\ At(s, k) = s[k] /\ (k + 1) - 1 = k
    BY <1>1 DEF Lists, At
<1>4. LooksAt(s, k + 1)'
    BY <1>1, <1>2, <1>3 DEF LooksAt
<1>5. Passed(s, k + 1)'
  <2>1. CASE doing = "delete"
    <3>1. \A j \in 1..k : NicknameOf[client[s[j]]] # nickname
      <4>1. \A j \in 1..k : j = k \/ j \in 1..(k - 1)
          BY <1>1
      <4> QED BY <1>1, <2>1, <4>1 DEF Passed
    <3> QED BY <1>1, <1>2, <1>3, <2>1, <3>1 DEF Passed
  <2>2. CASE doing = "find"
    <3>1. k >= 2 /\ Len(s) >= 2 /\ head = s[1]
        BY <1>1, <2>2 DEF Passed, Lists, At
    <3>2. \A j \in 2..k : {client[s[j]], client[s[1]]} \in refused
      <4>1. \A j \in 2..k : j = k \/ j \in 2..(k - 1)
          BY <1>1
      <4> QED BY <1>1, <2>2, <3>1, <4>1 DEF Passed
    <3> QED BY <1>1, <1>2, <1>3, <2>2, <3>1, <3>2 DEF Passed
  <2> QED BY <2>1, <2>2 DEF Passed
<1> QED BY <1>1, <1>4, <1>5

LEMMA ListKept == ListInv /\ [LQNext]_lqVars => ListInv'
<1> SUFFICES ASSUME ListInv, [LQNext]_lqVars PROVE ListInv'
    OBVIOUS
<1>T. TypeOK
    BY DEF ListInv
<1>S. PICK s \in Seq(Node) : Lists(s) /\ Calls(s)
    BY DEF ListInv
<1>K. doing # "none" => \E k \in 1..(Len(s) + 1) : LooksAt(s, k) /\ Passed(s, k)
    BY <1>S DEF Calls
<1>1. ASSUME NEW c \in Client, NEW n \in Node, Enqueue(c, n) PROVE ListInv'
  <2>1. PICK t \in Seq(Node) : Lists(t)'
      BY <1>1, <1>S, <1>T, EnqueueEffect
  <2>2. doing = "none" /\ UNCHANGED <<doing, cur, prev, refused>>
      BY <1>1 DEF Enqueue, callVars
  <2>3. cur' = Null /\ prev' = Null /\ refused' = {}
      BY <1>S, <2>2 DEF Calls
  <2>4. next' \in [Node -> NodeOrNull \cup {Freed}] /\ client' \in [Node -> Client \cup {Freed}]
      BY <1>1, <1>T DEF Enqueue, TypeOK, NodeOrNull
  <2> QED BY <2>1, <2>2, <2>3, <2>4, NewList
<1>2. ASSUME NEW c \in Client, DeleteStart(NicknameOf[c]) PROVE ListInv'
  <2>1. /\ doing = "none" /\ doing' = "delete" /\ nickname' = NicknameOf[c] /\ cur' = head /\ prev' = Null
        /\ UNCHANGED <<listVars, refused>>
      BY <1>2 DEF DeleteStart
  <2>2. refused = {} /\ head = At(s, 1) /\ At(s, 0) = Null /\ Len(s) \in Nat
      BY <1>S, <2>1, LenProperties DEF Calls, Lists, At
  <2>3. LooksAt(s, 1)' /\ Passed(s, 1)'
      BY <2>1, <2>2 DEF LooksAt, Passed
  <2>4. 1 \in 1..(Len(s) + 1)
      BY <2>2
  <2> QED BY <1>S, <2>1, <2>2, <2>3, <2>4, SearchGoesOn
<1>3. CASE DeleteSkip \/ FindSkip
  <2>1. /\ doing # "none" /\ cur # Null /\ Descend
        /\ doing = "delete" => NicknameOf[client[cur]] # nickname
        /\ doing = "find" => {client[cur], client[head]} \in refused
      BY <1>3 DEF DeleteSkip, FindSkip
  <2>2. PICK k \in 1..(Len(s) + 1) : LooksAt(s, k) /\ Passed(s, k)
      BY <1>K, <2>1
  <2>3. k + 1 \in 1..(Len(s) + 1) /\ LooksAt(s, k + 1)' /\ Passed(s, k + 1)'
      BY <1>S, <2>1, <2>2, DescendEffect
  <2>4. UNCHANGED <<listVars, doing, nickname, refused>>
      BY <2>1 DEF Descend
  <2>5. refused \in SUBSET Pairs
      BY <1>T DEF TypeOK
  <2>6. doing = "delete" => refused = {} /\ nickname \in {NicknameOf[c] : c \in Client}
      BY <1>S DEF Calls
  <2> QED BY <1>S, <2>3, <2>4, <2>5, <2>6, SearchGoesOn
<1>4. CASE DeleteHit
  <2>1. PICK k \in 1..(Len(s) + 1) : LooksAt(s, k) /\ Passed(s, k)
      BY <1>4, <1>K DEF DeleteHit
  <2>2. PICK t \in Seq(Node) : Lists(t)'
      BY <1>4, <1>S, <1>T, <2>1, DeleteHitEffect
  <2>3. cur \in Node /\ (prev # Null => prev \in Node)
      BY <1>4, <1>S, <2>1, LookingAt DEF DeleteHit
  <2>4. next' \in [Node -> NodeOrNull \cup {Freed}] /\ client' \in [Node -> Client \cup {Freed}]
    <3>1. (IF prev = Null THEN next ELSE [next EXCEPT ![prev] = next[cur]])
            \in [Node -> NodeOrNull \cup {Freed}]
        BY <1>T, <2>3 DEF TypeOK
    <3> QED BY <1>4, <1>T, <3>1 DEF DeleteHit, Free, TypeOK
  <2>5. doing' = "none" /\ cur' = Null /\ prev' = Null /\ refused' = {}
      BY <1>4 DEF DeleteHit, Return
  <2> QED BY <2>2, <2>4, <2>5, NewList
<1>5. CASE FindHit
  <2>1. PICK k \in 1..(Len(s) + 1) : LooksAt(s, k) /\ Passed(s, k)
      BY <1>5, <1>K DEF FindHit
  <2>2. PICK u \in Seq(Node) : Lists(u)'
      BY <1>5, <1>S, <1>T, <2>1, FindHitEffect
  <2>3. next' \in [Node -> NodeOrNull \cup {Freed}] /\ client' \in [Node -> Client \cup {Freed}]
    <3>1. cur \in Node
        BY <1>5, <1>S, <2>1, LookingAt DEF FindHit
    <3>2. [next EXCEPT ![prev] = next[cur]] \in [Node -> NodeOrNull \cup {Freed}]
        BY <1>T, <3>1 DEF TypeOK
    <3> QED BY <1>5, <1>T, <3>2 DEF FindHit, Free, TypeOK
  <2>4. doing' = "none" /\ cur' = Null /\ prev' = Null /\ refused' = {}
      BY <1>5 DEF FindHit, Return
  <2> QED BY <2>2, <2>3, <2>4, NewList
<1>6. CASE DeleteMiss \/ FindMiss
  <2>1. /\ doing' = "none" /\ cur' = Null /\ prev' = Null /\ refused' = {}
        /\ UNCHANGED <<head, tail, count, next, client>>
      BY <1>6 DEF DeleteMiss, FindMiss, Return, listVars
  <2>2. Lists(s)'
      BY <1>S, <2>1 DEF Lists
  <2> QED BY <1>T, <2>1, <2>2, NewList DEF TypeOK
<1>7. CASE FindStart
  <2>1. /\ count >= 2 /\ doing' = "find" /\ cur' = next[head] /\ prev' = head
        /\ refused' \in SUBSET Pairs /\ UNCHANGED listVars
      BY <1>7 DEF FindStart
  <2>2. /\ Len(s) \in Nat /\ Len(s) >= 2 /\ head = s[1] /\ next[s[1]] = At(s, 2)
        /\ At(s, 1) = s[1]
      BY <1>S, <2>1, LenProperties DEF Lists, At
  <2>3. LooksAt(s, 2)' /\ Passed(s, 2)'
      BY <2>1, <2>2 DEF LooksAt, Passed
  <2>4. 2 \in 1..(Len(s) + 1)
      BY <2>2
  <2> QED BY <1>S, <2>1, <2>3, <2>4, SearchGoesOn
<1>8. CASE UNCHANGED lqVars
  <2>1. Lists(s)' /\ Calls(s)'
      BY <1>8, <1>S DEF lqVars, listVars, callVars, Lists, Calls, LooksAt, Passed
  <2>2. TypeOK'
      BY <1>8, <1>T DEF lqVars, listVars, callVars, TypeOK
  <2> QED BY <2>1, <2>2 DEF ListInv
<1> QED BY <1>1, <1>2, <1>3, <1>4, <1>5, <1>6, <1>7, <1>8 DEF LQNext

LEMMA ListInvariant == LQSpec => []ListInv
  BY ListStart, ListKept, PTL DEF LQSpec

\* The pointers are typed, the list is intact after every operation, and no search
\* looks at freed memory, with any number of nodes, clients and equal nicknames.
THEOREM Typed == LQSpec => []TypeOK
<1>1. ListInv => TypeOK
    BY DEF ListInv
<1> QED BY <1>1, ListInvariant, PTL

THEOREM Linked == LQSpec => []ListIntact
  BY ListInvIntact, ListInvariant, PTL

THEOREM Searching == LQSpec => []CallIntact
  BY ListInvIntact, ListInvariant, PTL

-----------------------------------------------------------------------------
(***************************************************************************)
(* And it implements the queue of module RoomQueue.                        *)
(***************************************************************************)
LEMMA SameDeletion ==
    ASSUME NEW q, NEW name, NEW NameOf
    PROVE  RQ!DeleteNickname(q, name, NameOf) = DeleteNickname(q, name, NameOf)
BY DEF RQ!DeleteNickname, RQ!RemoveFirstWhere, RQ!FirstIndex, RQ!RemoveAt,
       DeleteNickname, RemoveFirstWhere, FirstIndex, RemoveAt

LEMMA SamePartner ==
    RQ!Partner = {i \in 1..Len(Tail(Contents)) :
                     /\ {Tail(Contents)[i], Head(Contents)} \notin refused
                     /\ \A j \in 1..(i - 1) :
                           ~({Tail(Contents)[j], Head(Contents)} \notin refused)}
BY DEF RQ!Partner, RQ!FirstIndex

ContentsKnown == \A s \in Seq(Node) : Lists(s) => Contents = ClientsOf(s)

LEMMA ContentsNow == ContentsKnown
  BY ContentsOfList DEF ContentsKnown

LEMMA ContentsNext ==
    ASSUME NEW s \in Seq(Node), Lists(s)'
    PROVE  Contents' = ClientsOf(s)'
<1>1. ContentsKnown'
    BY ContentsNow, PTL
<1> QED BY <1>1 DEF ContentsKnown

\* What the list holds stays when its nodes do.
LEMMA ContentsKept ==
    ASSUME NEW s \in Seq(Node), Lists(s), UNCHANGED listVars
    PROVE  Contents' = Contents
<1>1. Lists(s)' /\ ClientsOf(s)' = ClientsOf(s)
    BY DEF listVars, Lists, ClientsOf
<1> QED BY <1>1, ContentsNow, ContentsNext DEF ContentsKnown

LEMMA DeletionImplements ==
    ASSUME TypeOK, NEW s \in Seq(Node), Lists(s), Calls(s), DeleteHit \/ DeleteMiss
    PROVE  RQ!RQNext
<1> DEFINE q == ClientsOf(s)
<1>1. /\ doing = "delete" /\ answer' = <<>> /\ refused' = refused
    BY DEF DeleteHit, DeleteMiss, Return, Calls
<1>2. PICK c \in Client : nickname = NicknameOf[c]
    BY <1>1 DEF Calls
<1>3. PICK k \in 1..(Len(s) + 1) : LooksAt(s, k) /\ Passed(s, k)
    BY <1>1 DEF Calls
<1>4. /\ Len(s) \in Nat /\ q \in Seq(Client) /\ Len(q) = Len(s) /\ Contents = q
      /\ \A i \in 1..Len(s) : q[i] = client[s[i]]
    BY LenProperties, ContentsOfList DEF ClientsOf
<1>5. \A j \in 1..(k - 1) : NicknameOf[q[j]] # nickname
  <2>1. \A j \in 1..(k - 1) : j \in 1..Len(s) /\ NicknameOf[client[s[j]]] # nickname
      BY <1>1, <1>3, <1>4 DEF Passed
  <2> QED BY <1>4, <2>1
<1> HIDE DEF q
<1>6. Contents' = DeleteNickname(q, nickname, NicknameOf)
  <2>1. CASE DeleteHit
    <3>1. /\ k \in 1..Len(s)
          /\ \E t \in Seq(Node) : Lists(t)' /\ ClientsOf(t)' = RemoveAt(q, k)
        BY <1>3, <2>1, DeleteHitEffect DEF q
    <3>2. Contents' = RemoveAt(q, k)
        BY <3>1, ContentsNext
    <3>3. NicknameOf[q[k]] = nickname
      <4>1. cur # Null /\ NicknameOf[client[cur]] = nickname
          BY <2>1 DEF DeleteHit
      <4>2. cur = s[k]
          BY <1>3, <4>1, LookingAt
      <4> QED BY <1>4, <3>1, <4>1, <4>2
    <3> QED BY <1>4, <1>5, <3>1, <3>2, <3>3, DeleteNicknameFirst
  <2>2. CASE DeleteMiss
    <3>1. UNCHANGED listVars /\ cur = Null
        BY <2>2 DEF DeleteMiss
    <3>2. Contents' = q
        BY <1>4, <3>1, ContentsKept
    <3>3. k = Len(s) + 1
        BY <1>3, <3>1, LookingAt
    <3>4. \A j \in 1..Len(q) : j \in 1..(k - 1)
        BY <1>4, <3>3
    <3> QED BY <1>4, <1>5, <3>2, <3>4, DeleteNicknameFirst
  <2> QED BY <2>1, <2>2
<1>7. RQ!Discard(NicknameOf[c])
    BY <1>1, <1>2, <1>4, <1>6, SameDeletion DEF RQ!Discard
<1> QED BY <1>2, <1>7 DEF RQ!RQNext

LEMMA FindImplements ==
    ASSUME TypeOK, NEW s \in Seq(Node), Lists(s), Calls(s), FindHit \/ FindMiss
    PROVE  RQ!RQNext
<1> DEFINE q == ClientsOf(s)
<1>1. doing = "find" /\ refused' = {}
    BY DEF FindHit, FindMiss, Return
<1>2. refused' \in SUBSET RQ!Pairs
    BY <1>1
<1>3. PICK k \in 1..(Len(s) + 1) : LooksAt(s, k) /\ Passed(s, k)
    BY <1>1 DEF Calls
<1>4. /\ Len(s) \in Nat /\ q \in Seq(Client) /\ Len(q) = Len(s) /\ Contents = q
      /\ \A i \in 1..Len(s) : q[i] = client[s[i]]
    BY LenProperties, ContentsOfList DEF ClientsOf
<1>5. /\ k >= 2 /\ Len(s) >= 2
      /\ \A j \in 2..(k - 1) : {client[s[j]], client[s[1]]} \in refused
    BY <1>1, <1>3 DEF Passed
<1> HIDE DEF q
<1>6. /\ Head(q) = q[1] /\ Len(Tail(q)) = Len(s) - 1 /\ Len(Contents) >= 2
      /\ \A i \in 1..(Len(s) - 1) : Tail(q)[i] = q[i + 1]
  <2>1. q # <<>>
      BY <1>4, <1>5, EmptySeq
  <2> QED BY <1>4, <1>5, <2>1, HeadTailProperties
<1>7. \A j \in 1..(k - 2) : j \in 1..(Len(s) - 1) /\ {Tail(q)[j], Head(q)} \in refused
  <2> SUFFICES ASSUME NEW j \in 1..(k - 2)
               PROVE  j \in 1..(Len(s) - 1) /\ {Tail(q)[j], Head(q)} \in refused
      OBVIOUS
  <2>1. j \in 1..(Len(s) - 1) /\ j + 1 \in 2..(k - 1) /\ j + 1 \in 1..Len(s) /\ 1 \in 1..Len(s)
      BY <1>4, <1>5
  <2>2. {client[s[j + 1]], client[s[1]]} \in refused
      BY <1>5, <2>1
  <2>3. Tail(q)[j] = client[s[j + 1]] /\ Head(q) = client[s[1]]
      BY <1>4, <1>6, <2>1
  <2> QED BY <2>1, <2>2, <2>3
<1>8. CASE FindHit
  <2>1. /\ k \in 2..Len(s) /\ {client[s[k]], client[s[1]]} \notin refused
        /\ answer' = <<q[k], q[1]>>
        /\ \E u \in Seq(Node) : Lists(u)' /\ ClientsOf(u)' = RemoveAt(Tail(q), k - 1)
      BY <1>3, <1>8, FindHitEffect DEF q
  <2>2. Contents' = RemoveAt(Tail(q), k - 1)
      BY <2>1, ContentsNext
  <2>3. k - 1 \in 1..(Len(s) - 1) /\ (k - 1) + 1 = k /\ (k - 1) - 1 = k - 2 /\ k \in 1..Len(s) /\ 1 \in 1..Len(s)
      BY <1>4, <2>1
  <2>4. Tail(q)[k - 1] = q[k] /\ q[k] = client[s[k]] /\ Head(q) = client[s[1]]
      BY <1>4, <1>6, <2>3
  <2>5. k - 1 \in RQ!Partner
      BY <1>4, <1>6, <1>7, <2>1, <2>3, <2>4, SamePartner
  <2>6. RQ!RemoveAt(Tail(q), k - 1) = RemoveAt(Tail(q), k - 1)
      BY DEF RQ!RemoveAt, RemoveAt
  <2>7. answer' = <<Tail(q)[k - 1], Head(q)>>
      BY <1>6, <2>1, <2>4
  <2>8. RQ!TakePair
      BY <1>2, <1>4, <1>6, <2>2, <2>5, <2>6, <2>7 DEF RQ!TakePair
  <2> QED BY <2>8 DEF RQ!RQNext
<1>9. CASE FindMiss
  <2>1. UNCHANGED listVars /\ cur = Null /\ answer' = <<>>
      BY <1>9 DEF FindMiss
  <2>2. k = Len(s) + 1
      BY <1>3, <2>1, LookingAt
  <2>3. \A i \in 1..Len(Tail(q)) : {Tail(q)[i], Head(q)} \in refused
      BY <1>4, <1>6, <1>7, <2>2
  <2>4. RQ!Partner = {}
      BY <1>4, <2>3, SamePartner
  <2>5. RQ!TakeNobody
      BY <1>2, <1>6, <2>1, <2>4, ContentsKept DEF RQ!TakeNobody
  <2> QED BY <2>5 DEF RQ!RQNext
<1> QED BY <1>8, <1>9

LEMMA StepImplements == ListInv /\ [LQNext]_lqVars => [RQ!RQNext]_(RQ!rqVars)
<1> SUFFICES ASSUME ListInv, [LQNext]_lqVars PROVE RQ!RQNext \/ UNCHANGED RQ!rqVars
    OBVIOUS
<1>T. TypeOK
    BY DEF ListInv
<1>S. PICK s \in Seq(Node) : Lists(s) /\ Calls(s)
    BY DEF ListInv
<1>C. Contents = ClientsOf(s)
    BY <1>S, ContentsNow DEF ContentsKnown
<1>1. ASSUME NEW c \in Client, NEW n \in Node, Enqueue(c, n) PROVE RQ!RQNext
  <2>1. Contents' = Append(Contents, c)
      BY <1>1, <1>C, <1>S, <1>T, EnqueueEffect, ContentsNext
  <2>2. RQ!Arrive(c)
      BY <1>1, <2>1 DEF Enqueue, RQ!Arrive
  <2> QED BY <2>2 DEF RQ!RQNext
<1>2. ASSUME NEW c \in Client, DeleteStart(NicknameOf[c]) PROVE UNCHANGED RQ!rqVars
    BY <1>2, <1>S, ContentsKept DEF DeleteStart, RQ!rqVars
<1>3. CASE DeleteSkip \/ FindSkip
    BY <1>3, <1>S, ContentsKept DEF DeleteSkip, FindSkip, Descend, RQ!rqVars
<1>4. CASE DeleteHit \/ DeleteMiss
    BY <1>4, <1>S, <1>T, DeletionImplements
<1>5. CASE FindHit \/ FindMiss
    BY <1>5, <1>S, <1>T, FindImplements
<1>6. CASE FindStart
  <2>1. RQ!Reassign
      BY <1>6, <1>S, ContentsKept DEF FindStart, Pairs, RQ!Reassign, RQ!Pairs
  <2> QED BY <2>1 DEF RQ!RQNext
<1>7. CASE UNCHANGED lqVars
    BY <1>7, <1>S, ContentsKept DEF lqVars, RQ!rqVars
<1> QED BY <1>1, <1>2, <1>3, <1>4, <1>5, <1>6, <1>7 DEF LQNext

LEMMA InitImplements == LQInit => RQ!RQInit
<1> SUFFICES ASSUME LQInit PROVE RQ!RQInit
    OBVIOUS
<1>1. <<>> \in Seq(Node) /\ Len(<<>>) = 0 /\ \A k \in Int : At(<<>>, k) = Null
    BY EmptySeq DEF At
<1>2. Lists(<<>>)
    BY <1>1 DEF LQInit, Lists
<1>3. Contents = <<>>
  <2>1. Length = 0
      BY <1>1, <1>2, ContentsOfList
  <2>2. Contents = [i \in 1..0 |-> client[Chain[i]]] /\ 1..0 = {}
      BY <2>1 DEF Contents
  <2>3. Contents \in Seq(Client) /\ Len(Contents) = 0
    <3>1. Contents = ClientsOf(<<>>) /\ ClientsOf(<<>>) \in Seq(Client)
        BY <1>1, <1>2, ContentsOfList
    <3>2. DOMAIN Contents = 1..0
        BY <2>2
    <3> QED BY <3>1, <3>2, LenProperties
  <2> QED BY <2>3, EmptySeq
<1> QED BY <1>3 DEF LQInit, RQ!RQInit

\* The functions on the linked list do to the clients in it what the operations of
\* RoomQueue do to a sequence: one appends, one removes the first with a nickname, one
\* takes the head and its first partner or nobody.  Each of them frees nodes and mends
\* the links, the tail and the count in the middle of a recursion.
THEOREM Implementing == LQSpec => ImplementsRoomQueue
  BY InitImplements, StepImplements, ListInvariant, PTL DEF LQSpec, ImplementsRoomQueue, RQ!RQSpec
=============================================================================
