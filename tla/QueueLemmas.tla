----------------------------- MODULE QueueLemmas -----------------------------
(***************************************************************************)
(* What the operators on queues return.                                    *)
(***************************************************************************)
EXTENDS QueueOps, SequenceTheorems, FiniteSetTheorems, WellFoundedInduction, TLAPS

\* A set of natural numbers has a least one, as the intervals below its members are
\* well founded by inclusion.
LEMMA LeastNumber ==
    ASSUME NEW T, T \subseteq Nat, T # {}
    PROVE  \E m \in T : \A n \in T : m <= n
<1> DEFINE U == {0..(n - 1) : n \in T}
<1>1. U \subseteq FiniteSubsetsOf(Nat) /\ U # {}
  <2>1. ASSUME NEW n \in T PROVE 0..(n - 1) \in FiniteSubsetsOf(Nat)
      BY FS_Interval DEF FiniteSubsetsOf
  <2> QED BY <2>1
<1>2. IsWellFoundedOn(StrictSubsetOrdering(Nat), FiniteSubsetsOf(Nat))
    BY FS_StrictSubsetOrderingWellFounded
<1>3. PICK x \in U : \A y \in U : <<y, x>> \notin StrictSubsetOrdering(Nat)
  <2> HIDE DEF U
  <2> QED BY <1>1, <1>2, WFMin
<1>4. PICK m \in T : x = 0..(m - 1)
    BY <1>3
<1>5. ASSUME NEW n \in T, ~(m <= n) PROVE FALSE
  <2>1. 0..(n - 1) \subseteq 0..(m - 1) /\ n \in 0..(m - 1) /\ n \notin 0..(n - 1)
      BY <1>5
  <2>2. <<0..(n - 1), x>> \in StrictSubsetOrdering(Nat)
      BY <1>4, <2>1 DEF StrictSubsetOrdering
  <2> QED BY <1>3, <2>2
<1> QED BY <1>4, <1>5

\* Induction along the positions of a sequence.
LEMMA UpTo ==
    ASSUME NEW k \in Nat, NEW T, 0 \in T, \A n \in 0..(k - 1) : n \in T => n + 1 \in T
    PROVE  0..k \subseteq T
<1> DEFINE bad == (0..k) \ T
<1> SUFFICES ASSUME bad # {} PROVE FALSE
    OBVIOUS
<1>1. bad \subseteq Nat
    OBVIOUS
<1>2. PICK m \in bad : \A n \in bad : m <= n
  <2> HIDE DEF bad
  <2> QED BY <1>1, LeastNumber
<1>3. m # 0 /\ m - 1 \in 0..(k - 1) /\ m - 1 \in T /\ (m - 1) + 1 = m
    BY <1>2
<1> QED BY <1>2, <1>3

\* Removing one position leaves a sequence over the same set, one shorter.
LEMMA RemoveAtType ==
    ASSUME NEW S, NEW q \in Seq(S), NEW i \in 1..Len(q)
    PROVE  /\ RemoveAt(q, i) \in Seq(S)
           /\ Len(RemoveAt(q, i)) = Len(q) - 1
<1> DEFINE front == SubSeq(q, 1, i - 1)
           back  == SubSeq(q, i + 1, Len(q))
<1>1. front \in Seq(S) /\ Len(front) = i - 1
    BY SubSeqProperties
<1>2. back \in Seq(S) /\ Len(back) = Len(q) - i
    BY SubSeqProperties
<1>3. front \o back \in Seq(S) /\ Len(front \o back) = Len(front) + Len(back)
    BY <1>1, <1>2, ConcatProperties
<1>4. RemoveAt(q, i) = front \o back
    BY DEF RemoveAt
<1>5. (i - 1) + (Len(q) - i) = Len(q) - 1
    BY LenProperties
<1> HIDE DEF front, back
<1> QED BY <1>1, <1>2, <1>3, <1>4, <1>5

\* The tail of a queue that is not empty, and what a position in it holds.
LEMMA TailType ==
    ASSUME NEW S, NEW q \in Seq(S), Len(q) >= 1
    PROVE  /\ Head(q) \in S
           /\ Tail(q) \in Seq(S)
           /\ \A i \in 1..Len(Tail(q)) : Tail(q)[i] \in S
<1>1. q # <<>> BY EmptySeq
<1> QED BY <1>1, HeadTailProperties

\* Deleting by nickname leaves a sequence over the same set.
LEMMA DeleteNicknameType ==
    ASSUME NEW S, NEW q \in Seq(S), NEW nickname, NEW NameOf
    PROVE  DeleteNickname(q, nickname, NameOf) \in Seq(S)
<1> DEFINE P(c) == NameOf[c] = nickname
           I == {i \in 1..Len(q) : P(q[i]) /\ \A j \in 1..(i - 1) : ~P(q[j])}
<1>1. DeleteNickname(q, nickname, NameOf)
        = IF I = {} THEN q ELSE RemoveAt(q, CHOOSE i \in I : TRUE)
    BY DEF DeleteNickname, RemoveFirstWhere, FirstIndex
<1>2. ASSUME I # {} PROVE (CHOOSE i \in I : TRUE) \in 1..Len(q)
    BY <1>2
<1>3. ASSUME I # {} PROVE RemoveAt(q, CHOOSE i \in I : TRUE) \in Seq(S)
    BY <1>2, <1>3, RemoveAtType
<1> QED BY <1>1, <1>3

-----------------------------------------------------------------------------
(***************************************************************************)
(* Queues in which nobody stands twice.                                    *)
(***************************************************************************)

\* Who stands in a queue stands at one of its positions.
LEMMA ToSetPositions ==
    ASSUME NEW S, NEW q \in Seq(S)
    PROVE  /\ ToSet(q) = {q[i] : i \in 1..Len(q)}
           /\ ToSet(q) \subseteq S
           /\ IsInjective(q) <=> \A i, j \in 1..Len(q) : q[i] = q[j] => i = j
<1>1. DOMAIN q = 1..Len(q) /\ \A i \in 1..Len(q) : q[i] \in S
    BY LenProperties, ElementOfSeq
<1> QED BY <1>1 DEF ToSet, IsInjective

\* A client that enters is added, and stands there once if it did not before.
LEMMA AppendOnce ==
    ASSUME NEW S, NEW q \in Seq(S), NEW c \in S
    PROVE  /\ Append(q, c) \in Seq(S)
           /\ ToSet(Append(q, c)) = ToSet(q) \cup {c}
           /\ IsInjective(q) /\ c \notin ToSet(q) => IsInjective(Append(q, c))
<1> DEFINE n == Len(q)
           a == Append(q, c)
<1>1. n \in Nat
    BY LenProperties
<1>2. /\ a \in Seq(S) /\ Len(a) = n + 1 /\ a[n + 1] = c
      /\ \A i \in 1..n : a[i] = q[i]
    BY AppendProperties
<1>3. ToSet(a) = {a[i] : i \in 1..(n + 1)} /\ ToSet(q) = {q[i] : i \in 1..n}
    BY <1>2, ToSetPositions
<1>4. 1..(n + 1) = (1..n) \cup {n + 1}
    BY <1>1
<1>5. ToSet(a) = ToSet(q) \cup {c}
    BY <1>2, <1>3, <1>4
<1>6. ASSUME IsInjective(q), c \notin ToSet(q) PROVE IsInjective(a)
  <2>1. \A i, j \in 1..n : q[i] = q[j] => i = j
    BY <1>6, ToSetPositions
  <2>2. \A i \in 1..n : q[i] # c
    BY <1>3, <1>6
  <2>3. \A i, j \in 1..(n + 1) : a[i] = a[j] => i = j
    BY <1>2, <1>4, <2>1, <2>2
  <2> QED BY <1>2, <2>3, ToSetPositions
<1> QED BY <1>2, <1>5, <1>6

\* What stands where, after the client at position i is taken out.
LEMMA RemoveAtPositions ==
    ASSUME NEW S, NEW q \in Seq(S), NEW i \in 1..Len(q)
    PROVE  \A j \in 1..(Len(q) - 1) : RemoveAt(q, i)[j] = IF j < i THEN q[j] ELSE q[j + 1]
<1> DEFINE n == Len(q)
           front == SubSeq(q, 1, i - 1)
           back  == SubSeq(q, i + 1, n)
<1>1. n \in Nat /\ \A j \in 1..n : q[j] \in S
    BY LenProperties, ElementOfSeq
<1>2. /\ front \in Seq(S) /\ Len(front) = i - 1
      /\ \A j \in 1..(i - 1) : front[j] = q[j]
    BY <1>1, SubSeqProperties
<1>3. /\ back \in Seq(S) /\ Len(back) = n - i
      /\ \A j \in 1..(n - i) : back[j] = q[i + j]
    BY <1>1, SubSeqProperties
<1>4. RemoveAt(q, i) = front \o back
    BY DEF RemoveAt
<1> HIDE DEF front, back
<1>5. \A j \in 1..(n - 1) :
          (front \o back)[j] = IF j <= i - 1 THEN front[j] ELSE back[j - (i - 1)]
    BY <1>1, <1>2, <1>3, ConcatProperties
<1>6. ASSUME NEW j \in 1..(n - 1) PROVE (front \o back)[j] = IF j < i THEN q[j] ELSE q[j + 1]
  <2>1. CASE j < i
    BY <1>1, <1>2, <1>5, <2>1
  <2>2. CASE ~(j < i)
    <3>1. j - (i - 1) \in 1..(n - i) /\ i + (j - (i - 1)) = j + 1
      BY <1>1, <2>2
    <3>2. back[j - (i - 1)] = q[j + 1]
      BY <1>3, <3>1
    <3>3. ~(j <= i - 1)
      BY <2>2
    <3>4. (front \o back)[j] = back[j - (i - 1)]
      BY <1>5, <3>3
    <3> QED BY <2>2, <3>2, <3>4
  <2> QED BY <2>1, <2>2
<1> QED BY <1>4, <1>6

\* It was the only one of its kind.
LEMMA RemoveAtOnce ==
    ASSUME NEW S, NEW q \in Seq(S), NEW i \in 1..Len(q), IsInjective(q)
    PROVE  /\ ToSet(RemoveAt(q, i)) = ToSet(q) \ {q[i]}
           /\ IsInjective(RemoveAt(q, i))
<1> DEFINE n == Len(q)
           w == RemoveAt(q, i)
           at(j) == IF j < i THEN j ELSE j + 1
<1>1. n \in Nat /\ w \in Seq(S) /\ Len(w) = n - 1
    BY LenProperties, RemoveAtType
<1>2. \A j \in 1..(n - 1) : at(j) \in (1..n) \ {i} /\ w[j] = q[at(j)]
    BY <1>1, RemoveAtPositions
<1>3. \A h \in (1..n) \ {i} : \E j \in 1..(n - 1) : h = at(j)
  <2> SUFFICES ASSUME NEW h \in (1..n) \ {i} PROVE \E j \in 1..(n - 1) : h = at(j)
    OBVIOUS
  <2>1. CASE h < i
    BY <1>1, <2>1
  <2>2. CASE ~(h < i)
    <3>1. h - 1 \in 1..(n - 1) /\ h = at(h - 1)
      BY <1>1, <2>2
    <3> QED BY <3>1
  <2> QED BY <2>1, <2>2
<1>4. \A j, h \in 1..(n - 1) : at(j) = at(h) => j = h
    BY <1>1
<1>5. \A j, h \in 1..n : q[j] = q[h] => j = h
    BY ToSetPositions
<1>6. ToSet(w) = {w[j] : j \in 1..(n - 1)} /\ ToSet(q) = {q[j] : j \in 1..n}
    BY <1>1, ToSetPositions
<1> HIDE DEF w, at
<1>7. ToSet(w) = ToSet(q) \ {q[i]}
  <2>1. ASSUME NEW x \in ToSet(w) PROVE x \in ToSet(q) \ {q[i]}
    <3>1. PICK j \in 1..(n - 1) : x = w[j]
      BY <1>6, <2>1
    <3> QED BY <1>2, <1>5, <1>6, <3>1
  <2>2. ASSUME NEW x \in ToSet(q) \ {q[i]} PROVE x \in ToSet(w)
    <3>1. PICK h \in (1..n) \ {i} : x = q[h]
      BY <1>6, <2>2
    <3>2. PICK j \in 1..(n - 1) : h = at(j)
      BY <1>3, <3>1
    <3> QED BY <1>2, <1>6, <3>1, <3>2
  <2> QED BY <2>1, <2>2
<1>8. \A j, h \in 1..(n - 1) : w[j] = w[h] => j = h
    BY <1>2, <1>4, <1>5
<1>9. IsInjective(w)
    BY <1>1, <1>8, ToSetPositions
<1> QED BY <1>7, <1>9 DEF w

\* The queue behind its head.
LEMMA TailOnce ==
    ASSUME NEW S, NEW q \in Seq(S), Len(q) >= 1, IsInjective(q)
    PROVE  /\ Head(q) \in ToSet(q)
           /\ ToSet(Tail(q)) = ToSet(q) \ {Head(q)}
           /\ IsInjective(Tail(q))
<1> DEFINE n == Len(q)
           t == Tail(q)
<1>1. n \in Nat /\ q # <<>>
    BY LenProperties, EmptySeq
<1>2. t \in Seq(S) /\ Len(t) = n - 1 /\ \A i \in 1..(n - 1) : t[i] = q[i + 1]
    BY <1>1, HeadTailProperties
<1>3. Head(q) = q[1] /\ 1 \in 1..n
    BY <1>1
<1>4. \A i, j \in 1..n : q[i] = q[j] => i = j
    BY ToSetPositions
<1>5. ToSet(t) = {t[i] : i \in 1..(n - 1)} /\ ToSet(q) = {q[i] : i \in 1..n}
    BY <1>2, ToSetPositions
<1> HIDE DEF t
<1>6. \A i \in 1..(n - 1) : i + 1 \in (1..n) \ {1}
    BY <1>1
<1>7. \A h \in (1..n) \ {1} : h - 1 \in 1..(n - 1) /\ h = (h - 1) + 1
    BY <1>1
<1>8. ToSet(t) = ToSet(q) \ {Head(q)}
  <2>1. ASSUME NEW x \in ToSet(t) PROVE x \in ToSet(q) \ {Head(q)}
    <3>1. PICK i \in 1..(n - 1) : x = t[i]
      BY <1>5, <2>1
    <3>2. x = q[i + 1]
      BY <1>2, <3>1
    <3> QED BY <1>3, <1>4, <1>5, <1>6, <3>2
  <2>2. ASSUME NEW x \in ToSet(q) \ {Head(q)} PROVE x \in ToSet(t)
    <3>1. PICK h \in (1..n) \ {1} : x = q[h]
      BY <1>3, <1>5, <2>2
    <3>2. x = t[h - 1]
      BY <1>2, <1>7, <3>1
    <3> QED BY <1>5, <1>7, <3>2
  <2> QED BY <2>1, <2>2
<1>9. \A i, j \in 1..(n - 1) : t[i] = t[j] => i = j
  <2> SUFFICES ASSUME NEW i \in 1..(n - 1), NEW j \in 1..(n - 1), t[i] = t[j] PROVE i = j
    OBVIOUS
  <2>1. q[i + 1] = q[j + 1]
    BY <1>2
  <2>2. i + 1 = j + 1
    BY <1>4, <1>6, <2>1
  <2> QED BY <2>2
<1>10. IsInjective(t)
    BY <1>2, <1>9, ToSetPositions
<1> QED BY <1>3, <1>5, <1>8, <1>10 DEF t

\* What is left when the head and the client at position i behind it have been
\* taken out: the two were different, and nobody else is gone.
LEMMA PairOnce ==
    ASSUME NEW S, NEW q \in Seq(S), IsInjective(q), Len(q) >= 1, NEW i \in 1..Len(Tail(q))
    PROVE  /\ Head(q) \in ToSet(q) /\ Tail(q)[i] \in ToSet(q)
           /\ Tail(q)[i] # Head(q)
           /\ RemoveAt(Tail(q), i) \in Seq(S)
           /\ ToSet(RemoveAt(Tail(q), i)) = ToSet(q) \ {Head(q), Tail(q)[i]}
           /\ IsInjective(RemoveAt(Tail(q), i))
<1> DEFINE t == Tail(q)
<1>1. t \in Seq(S)
    BY TailType
<1>2. /\ Head(q) \in ToSet(q) /\ ToSet(t) = ToSet(q) \ {Head(q)} /\ IsInjective(t)
    BY TailOnce
<1>3. t[i] \in ToSet(t)
  <2>1. i \in 1..Len(t) /\ ToSet(t) = {t[j] : j \in 1..Len(t)}
    BY <1>1, ToSetPositions
  <2> QED BY <2>1
<1>4. /\ RemoveAt(t, i) \in Seq(S) /\ ToSet(RemoveAt(t, i)) = ToSet(t) \ {t[i]}
      /\ IsInjective(RemoveAt(t, i))
    BY <1>1, <1>2, RemoveAtType, RemoveAtOnce
<1> HIDE DEF t
<1>5. /\ t[i] \in ToSet(q) /\ t[i] # Head(q)
      /\ ToSet(RemoveAt(t, i)) = ToSet(q) \ {Head(q), t[i]}
    BY <1>2, <1>3, <1>4
<1> QED BY <1>2, <1>4, <1>5 DEF t

\* Deleting by nickname takes out the client that is meant, and nobody else, if no
\* other client with its nickname stands before it, and none at all if it does not.
LEMMA DeleteNicknameOnce ==
    ASSUME NEW S, NEW q \in Seq(S), IsInjective(q), NEW c \in S, NEW NameOf,
           \A i \in 1..Len(q) : NameOf[q[i]] = NameOf[c] => \E j \in 1..i : q[j] = c
    PROVE  /\ DeleteNickname(q, NameOf[c], NameOf) \in Seq(S)
           /\ ToSet(DeleteNickname(q, NameOf[c], NameOf)) = ToSet(q) \ {c}
           /\ IsInjective(DeleteNickname(q, NameOf[c], NameOf))
<1> DEFINE P(d) == NameOf[d] = NameOf[c]
           I == {i \in 1..Len(q) : P(q[i]) /\ \A j \in 1..(i - 1) : ~P(q[j])}
           w == DeleteNickname(q, NameOf[c], NameOf)
<1>1. w = IF I = {} THEN q ELSE RemoveAt(q, CHOOSE i \in I : TRUE)
    BY DEF DeleteNickname, RemoveFirstWhere, FirstIndex
<1>2. ToSet(q) = {q[i] : i \in 1..Len(q)} /\ \A i \in 1..Len(q) : q[i] \in S
    BY ToSetPositions, ElementOfSeq
<1>3. CASE I = {}
  <2>1. ASSUME NEW i \in 1..Len(q), q[i] = c PROVE FALSE
    <3>1. \A j \in 1..(i - 1) : j \in 1..Len(q) /\ j # i
      BY LenProperties
    <3>2. \A j \in 1..(i - 1) : ~P(q[j])
      <4> SUFFICES ASSUME NEW j \in 1..(i - 1), P(q[j]) PROVE FALSE
        OBVIOUS
      <4>1. j \in 1..Len(q) /\ j < i
        BY <3>1
      <4>2. PICK h \in 1..j : q[h] = c
        BY <4>1
      <4>3. h \in 1..Len(q) /\ h # i
        BY <4>1, <4>2
      <4> QED BY <2>1, <4>2, <4>3, ToSetPositions
    <3>3. i \in I
      BY <1>2, <2>1, <3>1, <3>2
    <3> QED BY <1>3, <3>3
  <2>2. c \notin ToSet(q)
    BY <1>2, <2>1
  <2> QED BY <1>1, <1>3, <2>2
<1>4. CASE I # {}
  <2>1. PICK i \in 1..Len(q) :
            i = (CHOOSE h \in I : TRUE) /\ P(q[i]) /\ \A j \in 1..(i - 1) : ~P(q[j])
    BY <1>4
  <2>2. q[i] = c
    <3>1. PICK j \in 1..i : q[j] = c
      BY <2>1
    <3>2. ~(j \in 1..(i - 1))
      BY <2>1, <3>1
    <3>3. j = i
      BY <3>2
    <3> QED BY <3>1, <3>3
  <2>3. w = RemoveAt(q, i)
    BY <1>1, <1>4, <2>1
  <2> HIDE DEF w
  <2> QED BY <2>2, <2>3, RemoveAtType, RemoveAtOnce DEF w
<1> QED BY <1>3, <1>4

\* The client deleted is the first with the nickname, and nobody when there is none.
LEMMA DeleteNicknameFirst ==
    ASSUME NEW S, NEW q \in Seq(S), NEW nickname, NEW NameOf
    PROVE  /\ \A k \in 1..Len(q) :
                 NameOf[q[k]] = nickname /\ (\A j \in 1..(k - 1) : NameOf[q[j]] # nickname)
                 => DeleteNickname(q, nickname, NameOf) = RemoveAt(q, k)
           /\ (\A j \in 1..Len(q) : NameOf[q[j]] # nickname)
              => DeleteNickname(q, nickname, NameOf) = q
<1> DEFINE P(c) == NameOf[c] = nickname
           I == {i \in 1..Len(q) : P(q[i]) /\ \A j \in 1..(i - 1) : ~P(q[j])}
<1>1. DeleteNickname(q, nickname, NameOf)
        = IF I = {} THEN q ELSE RemoveAt(q, CHOOSE i \in I : TRUE)
    BY DEF DeleteNickname, RemoveFirstWhere, FirstIndex
<1>2. ASSUME NEW k \in 1..Len(q), P(q[k]), \A j \in 1..(k - 1) : ~P(q[j])
      PROVE  k \in I /\ \A i \in I : i = k
    BY <1>2, LenProperties
<1>3. (\A j \in 1..Len(q) : ~P(q[j])) => I = {}
    OBVIOUS
<1>4. ASSUME NEW k \in 1..Len(q), P(q[k]), \A j \in 1..(k - 1) : ~P(q[j])
      PROVE  DeleteNickname(q, nickname, NameOf) = RemoveAt(q, k)
  <2>1. k \in I /\ \A i \in I : i = k
      BY <1>2, <1>4
  <2> HIDE DEF I
  <2> QED BY <1>1, <2>1
<1>5. (\A j \in 1..Len(q) : ~P(q[j])) => DeleteNickname(q, nickname, NameOf) = q
  <2> HIDE DEF I, P
  <2> QED BY <1>1, <1>3
<1> QED BY <1>4, <1>5
=============================================================================
