---------------------------- MODULE ProtocolProofs ---------------------------
(***************************************************************************)
(* The client program and the server stay in step until something crosses: *)
(* the places at which the two are, and the words between them.            *)
(***************************************************************************)
EXTENDS ProtocolProperties, QueueLemmas

(***************************************************************************)
(* Where the client is, where the server is, what is on its way to the     *)
(* server, what is on its way to the client.                               *)
(***************************************************************************)
Arrival == {
    <<"nickname", "nickname", <<"nickname">>, <<>>>>, <<"nickname", "refused", <<>>, <<"exists">>>>,
    <<"nickname", "welcome", <<>>, <<"ok">>>>,        <<"menu", "welcome", <<"ok">>, <<>>>>,
    <<"list", "welcome", <<"ok", "one">>, <<>>>>,     <<"quit", "welcome", <<"ok", "two">>, <<>>>>,
    <<"menu", "operation", <<>>, <<>>>>,              <<"list", "operation", <<"one">>, <<>>>>,
    <<"quit", "operation", <<"two">>, <<>>>>,         <<"quit", "leave", <<>>, <<"ok">>>>,
    <<"gone", "leave", <<"ok">>, <<>>>> }

Listing == {
    <<"list", "view", <<>>, <<"ok">>>>,               <<"count", "view", <<"ok">>, <<>>>>,
    <<"count", "counted", <<>>, <<"count">>>>,        <<"name", "counted", <<"ok">>, <<>>>>,
    <<"name", "named", <<>>, <<"name">>>>,            <<"max", "named", <<"ok">>, <<>>>>,
    <<"max", "sized", <<>>, <<"number">>>>,           <<"clients", "sized", <<"ok">>, <<>>>>,
    <<"clients", "listed", <<>>, <<"number">>>>,      <<"name", "listed", <<"ok">>, <<>>>>,
    <<"listed", "listed", <<"ok">>, <<>>>> }

Choosing == {
    <<"listed", "choice", <<>>, <<"ok">>>>,           <<"choose", "choice", <<>>, <<>>>>,
    <<"room", "choice", <<"room">>, <<>>>>,           <<"room", "chosen", <<>>, <<"ok">>>>,
    <<"full", "chosen", <<"ok">>, <<>>>>,             <<"full", "operation", <<>>, <<"full">>>>,
    <<"full", "feedback", <<>>, <<"ok">>>> }

Queueing == {
    <<"wait", "feedback", <<"ok">>, <<>>>>,            <<"wait", "feedback", <<"ok", "stopped">>, <<>>>>,
    <<"wait", "wait", <<>>, <<>>>>,                    <<"wait", "wait", <<"stopped">>, <<>>>>,
    <<"wait", "stopping", <<>>, <<"stopped">>>>,       <<"menu", "stopping", <<>>, <<>>>>,
    <<"list", "stopping", <<"one">>, <<>>>>,           <<"quit", "stopping", <<"two">>, <<>>>>,
    <<"wait", "operation", <<>>, <<"stopped">>>> }

Meeting == {
    <<"wait", "paired", <<>>, <<"ok">>>>,             <<"matched", "paired", <<>>, <<>>>>,
    <<"wait", "announced", <<>>, <<"ok">>>>,          <<"matched", "announced", <<>>, <<>>>>,
    <<"wait", "joining", <<>>, <<"ok", "ok">>>>,      <<"matched", "joining", <<>>, <<"ok">>>>,
    <<"greeting", "joining", <<"ok">>, <<>>>>,        <<"greeting", "joining", <<>>, <<>>>>,
    <<"greeting", "confirmed", <<>>, <<>>>> }

Parting == {
    <<"over", "over", <<>>, <<>>>>,                   <<"over", "after", <<>>, <<"ok">>>>,
    <<"wait", "after", <<"ok", "ok">>, <<>>>>,        <<"menu", "after", <<"ok">>, <<>>>>,
    <<"list", "after", <<"ok", "one">>, <<>>>>,       <<"quit", "after", <<"ok", "two">>, <<>>>> }

Quiet == Arrival \cup Listing \cup Choosing \cup Queueing \cup Meeting \cup Parting

\* In a chat there are any number of messages.
Chatter == Seq({"said"})
Greeting(c) == IF c = "greeting" THEN <<"nickname">> ELSE <<>>
Endings == {"stop", "timec", "idlec"}
Farewell(kind, s) == IF s = "after" THEN <<kind, "ok">> ELSE <<kind>>

Talks(c, s, u, d) ==
    /\ c \in Chatting /\ s = "chat"
    /\ u \in Chatter /\ (c = "greeting" => u = <<>>)
    /\ \E q \in Chatter : d = Greeting(c) \o q

Leaves(c, s, u, d) ==
    /\ c = "over" /\ s = "chat" /\ d = <<>>
    /\ \E q \in Chatter : u = q \o <<"stop">>

IsTold(c, s, u, d) ==
    /\ c \in Chatting /\ s \in {"over", "after"} /\ u = <<>>
    /\ \E q \in Chatter, kind \in Endings :
          d = Greeting(c) \o (q \o Farewell(kind, s)) /\ (chatTimedout <=> kind = "timec")

InDialogue(c, s, u, d) ==
    <<c, s, u, d>> \in Quiet \/ Talks(c, s, u, d) \/ Leaves(c, s, u, d) \/ IsTold(c, s, u, d)

-----------------------------------------------------------------------------
\* Both count the same rooms.
RoomsAgree(c, s) ==
    /\ c \in {"name", "max", "clients"} => listed \in Nat \ {0}
    /\ s \in {"named", "sized", "listed"} => toList \in Nat \ {0}
    /\ s = "counted" /\ c = "name" => listed = RoomCount
    /\ s \in {"named", "sized"} \/ (s = "listed" /\ c = "clients") => listed = toList
    /\ s = "listed" /\ c = "name" => listed = toList - 1
    /\ s = "listed" /\ c = "listed" => toList = 1

\* The watcher reads the answer the client gives while it waits.
MustWatch(c, s, u) ==
    \/ s \in {"paired", "announced"}
    \/ s = "wait" /\ ~stopWaiting
    \/ s = "joining" /\ ~(c = "greeting" /\ u = <<>>)

WatcherAgrees(c, s, u) ==
    /\ watcher = "reads" <=> MustWatch(c, s, u)
    /\ stopWaiting => s \in {"wait", "stopping"} /\ u # <<"stopped">>
    /\ s = "stopping" => stopWaiting

\* Only one STOP is typed.
StopperAgrees(c, u, d) ==
    stopper /\ cli # "gone" => /\ c = "wait" /\ ~stopWaiting
                               /\ u \notin {<<"stopped">>, <<"ok", "stopped">>} /\ d # <<"stopped">>

\* Both know where the client goes after a chat.
EndingAgrees(c, s) ==
    /\ chatTimedout => s \in {"over", "after", "feedback"}
    /\ c = "chat" \/ (c = "over" /\ s = "chat") => ~requeued
    /\ c = "over" /\ s \in {"over", "after"} => (requeued <=> chatTimedout)
    /\ s = "after" /\ c = "wait" => chatTimedout
    /\ s = "after" /\ c \in {"menu", "list", "quit"} => ~chatTimedout

Agrees(c, s, u, d) ==
    RoomsAgree(c, s) /\ WatcherAgrees(c, s, u) /\ StopperAgrees(c, u, d) /\ EndingAgrees(c, s)

InPlace(c, s, u, d) == InDialogue(c, s, u, d) /\ Agrees(c, s, u, d)

\* One of the two may have gone: what it left on the wire is as it was.
Joint(c, s, u, d) ==
    /\ cli \in {c, "gone"}
    /\ srv \in {s, "closed"}
    /\ srv # "closed" => up = Chunks(u)
    /\ cli # "gone" => down = Chunks(d) \/ (srv = "closed" /\ down = <<>>)
    /\ isConnected /\ (srv = "closed" => watcher # "reads")
    /\ InPlace(c, s, u, d)

\* Nothing is read any more.
Ended ==
    /\ cli = "gone"
    /\ watcher # "reads"
    /\ \/ srv = "closed"
       \/ ~isConnected /\ srv \in {"wait", "paired", "announced", "joining", "over"}

Words == {"nickname", "ok", "one", "two", "exists", "count", "name", "number", "room", "full",
          "stopped", "said", "stop", "timec", "idlec"}

InStepInv ==
    ~crossed => /\ ~misread
                /\ \/ Ended
                   \/ \E c, s : \E u, d \in Seq(Words) : Joint(c, s, u, d)

-----------------------------------------------------------------------------
(***************************************************************************)
(* What is read from a wire whose chunks are words.                        *)
(***************************************************************************)
LEMMA Sizes ==
    /\ \A k : Size(k) \in Nat \ {0}
    /\ \A k \in Digits : Size(k) = 1
    /\ \A k \in Names : Size(k) = NameSize
    /\ \A k \in Messages : Size(k) = MessageSize
    /\ \A k : k \notin Digits \cup Names \cup Messages => Size(k) = 2
    /\ NameSize \in Nat \ {0} /\ MessageSize \in Nat \ {0}
<1>1. NameSize \in Nat \ {0} /\ MessageSize \in Nat \ {0}
    BY SizesDiffer
<1>2. \A k : /\ k \in Digits => k \notin Names \cup Messages
             /\ k \in Names => k \notin Messages
    BY DEF Digits, Names, Messages
<1> QED BY <1>1, <1>2 DEF Size

LEMMA WordChunks ==
    ASSUME NEW S, NEW ws \in Seq(S)
    PROVE  /\ Chunks(ws) \in Seq([kind : S, size : Nat \ {0}]) /\ Len(Chunks(ws)) = Len(ws)
           /\ \A i \in 1..Len(ws) : Chunks(ws)[i].kind = ws[i] /\ Chunks(ws)[i].size = Size(ws[i])
           /\ Chunks(ws) = <<>> <=> ws = <<>>
<1>1. DOMAIN ws = 1..Len(ws) /\ Len(ws) \in Nat /\ \A i \in 1..Len(ws) : ws[i] \in S
    BY LenProperties, ElementOfSeq
<1>2. Chunks(ws) = [i \in 1..Len(ws) |-> [kind |-> ws[i], size |-> Size(ws[i])]]
    BY <1>1 DEF Chunks, Chunk
<1>3. Chunks(ws) \in [1..Len(ws) -> [kind : S, size : Nat \ {0}]]
  <2>1. \A k \in S : [kind |-> k, size |-> Size(k)] \in [kind : S, size : Nat \ {0}]
      BY Sizes
  <2> QED BY <1>1, <1>2, <2>1
<1>4. Chunks(ws) \in Seq([kind : S, size : Nat \ {0}])
  <2> DEFINE C == [kind : S, size : Nat \ {0}]
  <2> HIDE DEF C
  <2>1. Chunks(ws) \in [1..Len(ws) -> C]
      BY <1>3 DEF C
  <2>2. Chunks(ws) \in Seq(C)
      BY <1>1, <2>1, SeqDef
  <2> QED BY <2>2 DEF C
<1>5. Len(Chunks(ws)) = Len(ws)
    BY <1>1, <1>2, <1>4, LenProperties
<1> QED BY <1>1, <1>2, <1>4, <1>5, EmptySeq

LEMMA WordsJoined ==
    ASSUME NEW S, NEW ws \in Seq(S), NEW vs \in Seq(S)
    PROVE  ws \o vs \in Seq(S) /\ Chunks(ws) \o Chunks(vs) = Chunks(ws \o vs)
<1> DEFINE C == [kind : S, size : Nat \ {0}]
           l == Chunks(ws) \o Chunks(vs)
           r == Chunks(ws \o vs)
<1>1. /\ ws \o vs \in Seq(S) /\ Len(ws \o vs) = Len(ws) + Len(vs) /\ Len(ws) \in Nat /\ Len(vs) \in Nat
      /\ \A i \in 1..(Len(ws) + Len(vs)) :
            (ws \o vs)[i] = IF i <= Len(ws) THEN ws[i] ELSE vs[i - Len(ws)]
    BY ConcatProperties, LenProperties
<1>2. /\ Chunks(ws) \in Seq(C) /\ Len(Chunks(ws)) = Len(ws)
      /\ Chunks(vs) \in Seq(C) /\ Len(Chunks(vs)) = Len(vs)
      /\ r \in Seq(C) /\ Len(r) = Len(ws) + Len(vs)
    BY <1>1, WordChunks
<1>3. \A ks \in Seq(S) : \A i \in 1..Len(ks) : Chunks(ks)[i] = Chunk(ks[i])
    BY LenProperties DEF Chunks
<1>4. /\ l \in Seq(C) /\ Len(l) = Len(ws) + Len(vs)
      /\ \A i \in 1..(Len(ws) + Len(vs)) :
            l[i] = IF i <= Len(ws) THEN Chunks(ws)[i] ELSE Chunks(vs)[i - Len(ws)]
  <2> DEFINE a == Chunks(ws)
             b == Chunks(vs)
  <2>1. a \in Seq(C) /\ b \in Seq(C) /\ Len(a) = Len(ws) /\ Len(b) = Len(vs)
      BY <1>2
  <2> HIDE DEF a, b, C
  <2>2. /\ a \o b \in Seq(C) /\ Len(a \o b) = Len(a) + Len(b)
        /\ \A i \in 1..(Len(a) + Len(b)) : (a \o b)[i] = IF i <= Len(a) THEN a[i] ELSE b[i - Len(a)]
      BY <2>1, ConcatProperties
  <2> QED BY <2>1, <2>2 DEF a, b, C
<1> HIDE DEF l, r, C
<1>5. ASSUME NEW i \in 1..(Len(ws) + Len(vs)) PROVE l[i] = r[i]
  <2>1. r[i] = Chunk((ws \o vs)[i])
      BY <1>1, <1>3 DEF r
  <2>2. CASE i <= Len(ws)
    <3>1. i \in 1..Len(ws)
        BY <1>1, <2>2
    <3> QED BY <1>1, <1>3, <1>4, <2>1, <2>2, <3>1
  <2>3. CASE ~(i <= Len(ws))
    <3>1. i - Len(ws) \in 1..Len(vs)
        BY <1>1, <2>3
    <3> QED BY <1>1, <1>3, <1>4, <2>1, <2>3, <3>1
  <2> QED BY <2>2, <2>3
<1>6. l = r
    BY <1>2, <1>4, <1>5, SeqEqual
<1> QED BY <1>1, <1>6 DEF l, r

LEMMA WordsTail ==
    ASSUME NEW S, NEW ws \in Seq(S), ws # <<>>
    PROVE  /\ Tail(ws) \in Seq(S) /\ Head(ws) = ws[1] /\ Head(ws) \in S /\ Len(ws) \in Nat \ {0}
           /\ Chunks(Tail(ws)) = Tail(Chunks(ws))
           /\ Head(Chunks(ws)).kind = Head(ws) /\ Head(Chunks(ws)).size = Size(Head(ws))
<1> DEFINE C == [kind : S, size : Nat \ {0}]
<1>1. /\ Head(ws) = ws[1] /\ Head(ws) \in S /\ Tail(ws) \in Seq(S) /\ Len(Tail(ws)) = Len(ws) - 1
      /\ \A i \in 1..Len(Tail(ws)) : Tail(ws)[i] = ws[i + 1]
      /\ Len(ws) \in Nat \ {0}
    BY HeadTailProperties, EmptySeq, LenProperties
<1>2. /\ Chunks(ws) \in Seq(C) /\ Chunks(ws) # <<>> /\ Len(Chunks(ws)) = Len(ws)
      /\ Chunks(Tail(ws)) \in Seq(C) /\ Len(Chunks(Tail(ws))) = Len(ws) - 1
    BY <1>1, WordChunks
<1>3. /\ Head(Chunks(ws)) = Chunks(ws)[1]
      /\ Tail(Chunks(ws)) \in Seq(C) /\ Len(Tail(Chunks(ws))) = Len(ws) - 1
      /\ \A i \in 1..(Len(ws) - 1) : Tail(Chunks(ws))[i] = Chunks(ws)[i + 1]
    BY <1>2, HeadTailProperties
<1>4. \A ks \in Seq(S) : \A i \in 1..Len(ks) : Chunks(ks)[i] = Chunk(ks[i])
    BY LenProperties DEF Chunks
<1>5. \A i \in 1..(Len(ws) - 1) : Chunks(Tail(ws))[i] = Tail(Chunks(ws))[i]
  <2> SUFFICES ASSUME NEW i \in 1..(Len(ws) - 1) PROVE Chunks(Tail(ws))[i] = Tail(Chunks(ws))[i]
      OBVIOUS
  <2>1. i \in 1..Len(Tail(ws)) /\ i + 1 \in 1..Len(ws)
      BY <1>1
  <2> QED BY <1>1, <1>3, <1>4, <2>1
<1>6. Chunks(Tail(ws)) = Tail(Chunks(ws))
  <2> HIDE DEF C
  <2> QED BY <1>2, <1>3, <1>5, SeqEqual
<1>7. Chunks(ws)[1] = Chunk(ws[1])
    BY <1>1, <1>4
<1> QED BY <1>1, <1>3, <1>6, <1>7 DEF Chunk

\* The bytes of the first chunks.
LEMMA BytesBefore ==
    ASSUME NEW S, NEW w \in Seq([kind : S, size : Nat \ {0}])
    PROVE  /\ Before(w)[0] = 0
           /\ \A n \in 1..Len(w) : Before(w)[n] = Before(w)[n - 1] + w[n].size
           /\ \A n \in 0..Len(w) : Before(w)[n] \in Nat
           /\ \A n \in 1..Len(w) : Before(w)[n] >= w[1].size
           /\ \A n \in 2..Len(w) : Before(w)[n] > w[1].size
<1> DEFINE body(f) == [n \in 0..Len(w) |-> IF n = 0 THEN 0 ELSE f[n - 1] + w[n].size]
           sum == CHOOSE f : f = body(f)
           Sums(f, k) == /\ f \in [0..k -> Nat] /\ f[0] = 0
                         /\ \A n \in 1..k : f[n] = f[n - 1] + w[n].size
           T == {k \in 0..Len(w) : \E f \in [0..k -> Nat] : Sums(f, k)}
<1>1. Len(w) \in Nat /\ \A n \in 1..Len(w) : w[n].size \in Nat \ {0}
  <2>1. \A n \in 1..Len(w) : w[n] \in [kind : S, size : Nat \ {0}]
      BY ElementOfSeq
  <2> QED BY <2>1, LenProperties
<1>2. 0 \in T
  <2> DEFINE f == [n \in 0..0 |-> 0]
  <2>1. f \in [0..0 -> Nat] /\ Sums(f, 0)
      OBVIOUS
  <2> HIDE DEF f, Sums
  <2> QED BY <1>1, <2>1
<1>3. ASSUME NEW k \in 0..(Len(w) - 1), k \in T PROVE k + 1 \in T
  <2>1. PICK f \in [0..k -> Nat] : Sums(f, k)
      BY <1>3
  <2> DEFINE g == [n \in 0..(k + 1) |-> IF n = k + 1 THEN f[k] + w[k + 1].size ELSE f[n]]
  <2>2. k + 1 \in 1..Len(w) /\ k \in 0..k /\ k \in Nat
      BY <1>1
  <2>3. f[k] + w[k + 1].size \in Nat
      BY <1>1, <2>2
  <2>4. g \in [0..(k + 1) -> Nat]
    <3>1. \A n \in 0..(k + 1) : n # k + 1 => n \in 0..k
        BY <2>2
    <3> QED BY <2>3, <3>1
  <2>5. Sums(g, k + 1)
    <3>1. g[0] = 0
        BY <2>1, <2>2
    <3>2. ASSUME NEW n \in 1..(k + 1) PROVE g[n] = g[n - 1] + w[n].size
      <4>1. n - 1 \in 0..(k + 1) /\ n - 1 # k + 1 /\ n \in 0..(k + 1) /\ g[n - 1] = f[n - 1]
          BY <2>2
      <4>2. CASE n = k + 1
        <5>1. g[n] = f[k] + w[k + 1].size /\ n - 1 = k
            BY <2>2, <4>2
        <5> QED BY <4>1, <4>2, <5>1
      <4>3. CASE n # k + 1
        <5>1. n \in 1..k /\ g[n] = f[n]
            BY <2>2, <4>3
        <5> QED BY <2>1, <4>1, <5>1
      <4> QED BY <4>2, <4>3
    <3> QED BY <2>4, <3>1, <3>2
  <2> HIDE DEF g, Sums
  <2> QED BY <1>1, <2>2, <2>4, <2>5
<1>4. Len(w) \in T
  <2> HIDE DEF T
  <2>1. 0..Len(w) \subseteq T
      BY <1>1, <1>2, <1>3, UpTo
  <2> QED BY <1>1, <2>1
<1>5. PICK f \in [0..Len(w) -> Nat] : Sums(f, Len(w))
    BY <1>4
<1>6. f = body(f)
  <2>1. ASSUME NEW n \in 0..Len(w) PROVE f[n] = IF n = 0 THEN 0 ELSE f[n - 1] + w[n].size
    <3>1. n # 0 => n \in 1..Len(w)
        BY <1>1
    <3> QED BY <1>5, <3>1
  <2> QED BY <2>1
<1>7. sum = body(sum)
  <2> HIDE DEF body, Sums
  <2> QED BY <1>6
<1>8. Before(w) = sum
    BY DEF Before
<1>9. \A n \in 0..Len(w) : sum[n] = IF n = 0 THEN 0 ELSE sum[n - 1] + w[n].size
    BY <1>7
<1> HIDE DEF sum
<1>10. sum[0] = 0 /\ \A n \in 1..Len(w) : sum[n] = sum[n - 1] + w[n].size
  <2>1. 0 \in 0..Len(w) /\ \A n \in 1..Len(w) : n \in 0..Len(w) /\ n # 0
      BY <1>1
  <2> QED BY <1>9, <2>1
<1> DEFINE U == {n \in 0..Len(w) : /\ sum[n] \in Nat /\ (n >= 1 => sum[n] >= w[1].size)
                                   /\ (n >= 2 => sum[n] > w[1].size)}
<1>11. 0..Len(w) \subseteq U
  <2>1. 0 \in U
      BY <1>1, <1>10
  <2>2. ASSUME NEW n \in 0..(Len(w) - 1), n \in U PROVE n + 1 \in U
    <3>1. n + 1 \in 1..Len(w) /\ n + 1 \in 0..Len(w) /\ (n + 1) - 1 = n
        BY <1>1
    <3>2. sum[n + 1] = sum[n] + w[n + 1].size
        BY <1>10, <3>1
    <3>3. w[n + 1].size \in Nat \ {0} /\ sum[n] \in Nat /\ w[1].size \in Nat
        BY <1>1, <2>2, <3>1
    <3>4. CASE n = 0
        BY <1>10, <3>1, <3>2, <3>3, <3>4
    <3>5. CASE n # 0
      <4>1. n >= 1 /\ sum[n] >= w[1].size
          BY <2>2, <3>5
      <4>2. \A a, m \in Nat, b \in Nat \ {0} : a >= m => a + b \in Nat /\ a + b > m /\ a + b >= m
          OBVIOUS
      <4>3. sum[n + 1] \in Nat /\ sum[n + 1] > w[1].size /\ sum[n + 1] >= w[1].size
          BY <3>2, <3>3, <4>1, <4>2
      <4> QED BY <3>1, <4>3
    <3> QED BY <3>4, <3>5
  <2> HIDE DEF U
  <2> QED BY <1>1, <2>1, <2>2, UpTo
<1>12. \A n \in 0..Len(w) : /\ sum[n] \in Nat /\ (n >= 1 => sum[n] >= w[1].size)
                              /\ (n >= 2 => sum[n] > w[1].size)
    BY <1>11
<1> QED BY <1>1, <1>8, <1>10, <1>12

\* A read of as many bytes as the first word has returns it and leaves the others.
LEMMA WordRead ==
    ASSUME NEW S, NEW ws \in Seq(S), ws # <<>>
    PROVE  /\ Readable(Chunks(ws), Size(Head(ws)))
           /\ Got(Chunks(ws), Size(Head(ws))) = Head(ws)
           /\ Rest(Chunks(ws), Size(Head(ws))) = Chunks(Tail(ws))
<1> DEFINE w == Chunks(ws)
           count == Size(Head(ws))
           b == Before(w)
<1>1. /\ w \in Seq([kind : S, size : Nat \ {0}]) /\ w # <<>> /\ Len(w) \in Nat /\ Len(w) >= 1
      /\ Head(w) = w[1] /\ w[1].size = count /\ w[1].kind = Head(ws)
      /\ Tail(w) = Chunks(Tail(ws)) /\ count \in Nat \ {0}
  <2>1. w \in Seq([kind : S, size : Nat \ {0}]) /\ w # <<>> /\ Len(w) = Len(ws)
      BY WordChunks
  <2>2. Len(ws) \in Nat \ {0} /\ Head(w).kind = Head(ws) /\ Head(w).size = count /\ Tail(w) = Chunks(Tail(ws))
      BY WordsTail
  <2>3. Head(w) = w[1]
      BY <2>1, HeadTailProperties
  <2> QED BY <2>1, <2>2, <2>3, Sizes
<1> HIDE DEF w, count
<1>2. /\ b[0] = 0 /\ b[1] = count
      /\ \A n \in 0..Len(w) : b[n] \in Nat
      /\ \A n \in 1..Len(w) : b[n] >= count
      /\ \A n \in 2..Len(w) : b[n] > count
  <2>1. 1 \in 1..Len(w) /\ 1 - 1 = 0
      BY <1>1
  <2>2. b[1] = b[0] + w[1].size /\ b[0] = 0
      BY <1>1, <2>1, BytesBefore
  <2> HIDE DEF b
  <2>3. b[1] = count
      BY <1>1, <2>2
  <2> QED BY <1>1, <2>2, <2>3, BytesBefore DEF b
<1>3. Readable(w, count)
  <2>1. Len(w) \in 1..Len(w)
      BY <1>1
  <2> QED BY <1>2, <2>1 DEF Readable, Bytes
<1>4. Got(w, count) = Head(ws)
    BY <1>1 DEF Got
<1>5. Rest(w, count) = Tail(w)
  <2>0. Len(w) \in Nat /\ Len(w) >= 1 /\ count \in Nat
      BY <1>1
  <2> DEFINE Whole(n) == b[n] <= count /\ (n = Len(w) \/ b[n + 1] > count)
             whole == CHOOSE n \in 0..Len(w) : Whole(n)
  <2>1. 1 \in 0..Len(w) /\ Whole(1)
    <3>1. 1 # Len(w) => b[1 + 1] > count
      <4>1. ASSUME 1 # Len(w) PROVE 1 + 1 \in 2..Len(w)
        <5>1. \A l \in Nat : l >= 1 /\ 1 # l => 1 + 1 \in 2..l
            OBVIOUS
        <5> QED BY <2>0, <4>1, <5>1
      <4> HIDE DEF b
      <4> QED BY <1>2, <4>1
    <3>2. b[1] <= count
        BY <1>2, <2>0
    <3> QED BY <2>0, <3>1, <3>2
  <2>2. ASSUME NEW n \in 0..Len(w), Whole(n) PROVE n = 1
    <3>1. n # 0
      <4>1. Len(w) # 0 /\ 0 + 1 = 1
          BY <1>1
      <4> QED BY <1>1, <1>2, <2>2, <4>1
    <3>2. ~(n >= 2)
      <4> SUFFICES ASSUME n >= 2 PROVE FALSE
          OBVIOUS
      <4>1. n \in 2..Len(w) /\ n \in 0..Len(w)
          BY <1>1
      <4>2. b[n] > count /\ b[n] <= count /\ b[n] \in Nat
          BY <1>2, <2>2, <4>1
      <4> QED BY <1>1, <4>2
    <3> QED BY <1>1, <3>1, <3>2
  <2> HIDE DEF Whole
  <2>3. whole = 1
      BY <2>1, <2>2
  <2>4. count - b[1] = 0
      BY <1>1, <1>2
  <2>5. Rest(w, count) = SubSeq(w, 1 + 1, Len(w))
      BY <2>3, <2>4 DEF Rest, Whole
  <2>6. SubSeq(w, 2, Len(w)) = Tail(w)
      BY <1>1, TailIsSubSeq
  <2> QED BY <2>5, <2>6
<1> QED BY <1>1, <1>3, <1>4, <1>5 DEF w, count

\* Nothing is read from an empty wire.
LEMMA NothingRead ==
    ASSUME NEW count \in Nat \ {0}
    PROVE  ~Readable(<<>>, count) /\ Chunks(<<>>) = <<>>
<1>1. <<>> \in Seq([kind : {}, size : Nat \ {0}]) /\ Len(<<>>) = 0
    BY EmptySeq
<1>2. Before(<<>>)[0] = 0
    BY <1>1, BytesBefore
<1>3. Chunks(<<>>) = <<>>
  <2>1. <<>> \in Seq(Words)
      OBVIOUS
  <2> QED BY <2>1, WordChunks
<1> QED BY <1>1, <1>2, <1>3 DEF Readable, Bytes

-----------------------------------------------------------------------------
\* Short sequences.
LEMMA Short ==
    /\ <<>> \in Seq(Words) /\ (\A a \in Words : <<a>> \in Seq(Words))
    /\ \A a, b \in Words : <<a, b>> \in Seq(Words)
    /\ \A a : <<a>> # <<>> /\ Head(<<a>>) = a /\ Tail(<<a>>) = <<>> /\ <<>> \o <<a>> = <<a>> /\ <<a>> \o <<>> = <<a>>
    /\ \A a, b : /\ <<a, b>> # <<>> /\ Head(<<a, b>>) = a /\ Tail(<<a, b>>) = <<b>>
                 /\ <<>> \o <<a, b>> = <<a, b>> /\ <<a>> \o <<b>> = <<a, b>> /\ <<a, b>> \o <<>> = <<a, b>>
    /\ <<>> \o <<>> = <<>>
<1>1. \A a, b : <<a>> \o <<b>> = <<a, b>>
  <2> SUFFICES ASSUME NEW a, NEW b PROVE <<a>> \o <<b>> = <<a, b>>
      OBVIOUS
  <2>1. <<a>> \in Seq({a, b}) /\ <<b>> \in Seq({a, b}) /\ <<a, b>> \in Seq({a, b})
      OBVIOUS
  <2>2. Len(<<a>>) = 1 /\ Len(<<b>>) = 1 /\ Len(<<a, b>>) = 2
      OBVIOUS
  <2>3. /\ <<a>> \o <<b>> \in Seq({a, b}) /\ Len(<<a>> \o <<b>>) = 2
        /\ \A i \in 1..2 : (<<a>> \o <<b>>)[i] = IF i <= 1 THEN <<a>>[i] ELSE <<b>>[i - 1]
      BY <2>1, <2>2, ConcatProperties
  <2>4. \A i \in 1..2 : (<<a>> \o <<b>>)[i] = <<a, b>>[i]
      BY <2>3
  <2> QED BY <2>1, <2>2, <2>3, <2>4, SeqEqual
<1>2. \A a, b : <<a, b>> \o <<>> = <<a, b>> /\ <<>> \o <<a, b>> = <<a, b>>
  <2> SUFFICES ASSUME NEW a, NEW b PROVE <<a, b>> \o <<>> = <<a, b>> /\ <<>> \o <<a, b>> = <<a, b>>
      OBVIOUS
  <2>1. <<a, b>> \in Seq({a, b})
      OBVIOUS
  <2> QED BY <2>1, ConcatEmptySeq
<1>3. \A a : <<>> \o <<a>> = <<a>> /\ <<a>> \o <<>> = <<a>>
  <2> SUFFICES ASSUME NEW a PROVE <<>> \o <<a>> = <<a>> /\ <<a>> \o <<>> = <<a>>
      OBVIOUS
  <2>1. <<a>> \in Seq({a})
      OBVIOUS
  <2> QED BY <2>1, ConcatEmptySeq
<1>4. <<>> \o <<>> = <<>>
  <2>1. <<>> \in Seq({})
      OBVIOUS
  <2> QED BY <2>1, ConcatEmptySeq
<1>5. (\A a \in Words : <<a>> \in Seq(Words)) /\ \A a, b \in Words : <<a, b>> \in Seq(Words)
  <2> SUFFICES ASSUME NEW S, NEW a \in S, NEW b \in S PROVE <<a>> \in Seq(S) /\ <<a, b>> \in Seq(S)
      OBVIOUS
  <2> QED OBVIOUS
<1>6. \A a : <<a>> # <<>> /\ Head(<<a>>) = a /\ Tail(<<a>>) = <<>>
    OBVIOUS
<1>7. \A a, b : <<a, b>> # <<>> /\ Head(<<a, b>>) = a /\ Tail(<<a, b>>) = <<b>>
    OBVIOUS
<1> QED BY <1>1, <1>2, <1>3, <1>4, <1>5, <1>6, <1>7, EmptySeq

\* How many bytes a program asks for.
Counts == {1, 2, NameSize, MessageSize}

LEMMA Counting ==
    Counts \subseteq Nat \ {0} /\ 1 \in Counts /\ 2 \in Counts /\ NameSize \in Counts /\ MessageSize \in Counts
BY Sizes DEF Counts

\* What the client reads is the first word on its way.
LEMMA ClientReads ==
    ASSUME NEW c, NEW s, NEW u \in Seq(Words), NEW d \in Seq(Words),
           Joint(c, s, u, d), cli # "gone",
           NEW count \in Counts, NEW kinds, CliReads(count, kinds),
           d # <<>> => Size(Head(d)) = count /\ Head(d) \in kinds
    PROVE  d # <<>> /\ Got(down, count) = Head(d) /\ down' = Chunks(Tail(d)) /\ (misread' <=> misread)
<1>1. down # <<>>
    BY Counting, NothingRead DEF CliReads
<1>2. down = Chunks(d)
    BY <1>1 DEF Joint
<1>3. d # <<>>
    BY <1>1, <1>2, NothingRead
<1>4. Got(down, count) = Head(d) /\ Rest(down, count) = Chunks(Tail(d))
    BY <1>2, <1>3, WordRead
<1> QED BY <1>3, <1>4 DEF CliReads

\* The server, too.
LEMMA ServerReads ==
    ASSUME NEW c, NEW s, NEW u \in Seq(Words), NEW d \in Seq(Words),
           Joint(c, s, u, d), srv # "closed",
           NEW count \in Counts, NEW kinds, HandlerReads(count, kinds),
           u # <<>> => Size(Head(u)) = count /\ Head(u) \in kinds
    PROVE  u # <<>> /\ Got(up, count) = Head(u) /\ up' = Chunks(Tail(u)) /\ (misread' <=> misread)
<1>1. up # <<>>
    BY Counting, NothingRead DEF HandlerReads
<1>2. up = Chunks(u)
    BY DEF Joint
<1>3. u # <<>>
    BY <1>1, <1>2, NothingRead
<1>4. Got(up, count) = Head(u) /\ Rest(up, count) = Chunks(Tail(u))
    BY <1>2, <1>3, WordRead
<1> QED BY <1>3, <1>4 DEF HandlerReads

\* The client goes on.
LEMMA ClientGoes ==
    ASSUME NEW c, NEW s, NEW u \in Seq(Words), NEW d \in Seq(Words),
           Joint(c, s, u, d), ~misread', UNCHANGED <<srv, isConnected, watcher>>,
           NEW to, NEW words \in Seq(Words), CliGoes(to, words),
           NEW v \in Seq(Words), v = u \o words,
           NEW e \in Seq(Words), down' = Chunks(e) \/ (srv = "closed" /\ down' = <<>>),
           InPlace(to, s, v, e)'
    PROVE  InStepInv'
<1>1. srv' # "closed" => up' = Chunks(v)
    BY WordsJoined DEF CliGoes, Joint
<1>2. Joint(to, s, v, e)'
    BY <1>1 DEF Joint, CliGoes
<1> QED BY <1>2 DEF InStepInv

\* The client goes.
LEMMA ClientEnds ==
    ASSUME NEW c, NEW s, NEW u \in Seq(Words), NEW d \in Seq(Words),
           Joint(c, s, u, d), ~misread', UNCHANGED <<srvVars, listed, requeued>>, CliGoes("gone", <<>>)
    PROVE  InStepInv'
<1>1. u \o <<>> = u
    BY ConcatEmptySeq
<1>2. srv' # "closed" => up' = Chunks(u)
  <2>1. Chunks(u) \o Chunks(<<>>) = Chunks(u \o <<>>)
      BY EmptySeq, WordsJoined
  <2> QED BY <1>1, <2>1 DEF CliGoes, Joint, srvVars
<1>3. InPlace(c, s, u, d)'
    BY DEF Joint, CliGoes, srvVars, InPlace, InDialogue, Talks, Leaves, IsTold, Agrees, RoomsAgree, WatcherAgrees,
           MustWatch, StopperAgrees, EndingAgrees
<1>4. Joint(c, s, u, d)'
    BY <1>2, <1>3 DEF Joint, CliGoes, srvVars
<1> QED BY <1>4 DEF InStepInv

\* The server goes on.
LEMMA ServerGoes ==
    ASSUME NEW c, NEW s, NEW u \in Seq(Words), NEW d \in Seq(Words),
           Joint(c, s, u, d), srv # "closed", ~misread', UNCHANGED <<cli, isConnected>>,
           NEW to, to # "closed", NEW words \in Seq(Words), srv' = to, Sends(words),
           NEW v \in Seq(Words), up' = Chunks(v),
           NEW e \in Seq(Words), e = d \o words,
           InPlace(c, to, v, e)'
    PROVE  InStepInv'
<1>1. cli' # "gone" => down' = Chunks(e)
    BY WordsJoined DEF Sends, Joint
<1>2. Joint(c, to, v, e)'
    BY <1>1 DEF Joint
<1> QED BY <1>2 DEF InStepInv

\* The server closes the connection.
LEMMA ServerCloses ==
    ASSUME NEW c, NEW s, NEW u \in Seq(Words), NEW d \in Seq(Words),
           Joint(c, s, u, d), srv # "closed", ~misread', HandlerCloses,
           UNCHANGED <<cliVars, toList, watcher, isConnected, stopWaiting, chatTimedout>>, watcher # "reads"
    PROVE  InStepInv'
<1>1. InPlace(c, s, u, d)'
    BY DEF Joint, cliVars, InPlace, InDialogue, Talks, Leaves, IsTold, Agrees, RoomsAgree, WatcherAgrees,
           MustWatch, StopperAgrees, EndingAgrees
<1>2. Joint(c, s, u, d)'
    BY <1>1 DEF Joint, HandlerCloses, cliVars
<1> QED BY <1>2 DEF InStepInv

\* Outside a chat and its end the places are those of the tables.
LEMMA Places ==
    ASSUME NEW c, NEW s, NEW u, NEW d, InPlace(c, s, u, d)
    PROVE  /\ c \notin {"greeting", "chat", "over"} => <<c, s, u, d>> \in Quiet
           /\ s \notin {"chat", "over", "after"} => <<c, s, u, d>> \in Quiet
           /\ c = "chat" => Talks(c, s, u, d) \/ IsTold(c, s, u, d)
           /\ s = "chat" => Talks(c, s, u, d) \/ Leaves(c, s, u, d)
BY DEF InPlace, InDialogue, Talks, Leaves, IsTold, Chatting, Quiet, Arrival, Listing, Choosing, Queueing,
       Meeting, Parting

-----------------------------------------------------------------------------
\* The sizes of the words.
LEMMA WordSizes ==
    /\ \A k \in {"ok", "exists", "full", "stopped"} : Size(k) = 2
    /\ \A k \in {"one", "two", "room", "count", "number"} : Size(k) = 1
    /\ \A k \in {"nickname", "name"} : Size(k) = NameSize
    /\ \A k \in {"said", "stop", "timec", "idlec"} : Size(k) = MessageSize
BY Sizes DEF Digits, Names, Messages

\* A read of the client is answered by what the server has written for it.
LEMMA ClientHears ==
    ASSUME NEW c, NEW s, NEW u \in Seq(Words), NEW d \in Seq(Words), Joint(c, s, u, d), cli # "gone",
           NEW count \in Counts, NEW kinds, CliReads(count, kinds)
    PROVE  c = cli /\ d # <<>>
BY Counting, NothingRead DEF CliReads, Joint

LEMMA ClientTurns ==
    ASSUME NEW c, NEW s, NEW u \in Seq(Words), NEW d \in Seq(Words),
           Joint(c, s, u, d), ~misread, cli # "gone", UNCHANGED srvVars,
           NEW count \in Counts, NEW kinds, CliReads(count, kinds),
           d # <<>>, Size(Head(d)) = count, Head(d) \in kinds,
           NEW to, NEW words \in Seq(Words), NEW v, u \o words = v, NEW e, Tail(d) = e,
           Got(down, count) = Head(d) => CliGoes(to, words) /\ InPlace(to, s, v, e)'
    PROVE  InStepInv'
<1>1. Got(down, count) = Head(d) /\ down' = Chunks(Tail(d)) /\ ~misread'
    BY ClientReads
<1>2. Tail(d) \in Seq(Words) /\ u \o words \in Seq(Words)
    BY HeadTailProperties, ConcatProperties
<1>3. UNCHANGED <<srv, isConnected, watcher>>
    BY DEF srvVars
<1> QED BY <1>1, <1>2, <1>3, ClientGoes

-----------------------------------------------------------------------------
\* The registry accepts the nickname or refuses it.
LEMMA NicknameAnswered ==
    ASSUME NEW c, NEW s, NEW u \in Seq(Words), NEW d \in Seq(Words), Joint(c, s, u, d), ~misread, CliNickname
    PROVE  InStepInv'
<1> DEFINE kinds == {"ok", "exists"}
<1>1. cli = "nickname" /\ CliReads(2, kinds) /\ UNCHANGED <<srv, isConnected, watcher>>
    BY DEF CliNickname, CliTurn, Same, srvVars
<1>2. c = "nickname" /\ d # <<>>
    BY <1>1, Counting, ClientHears
<1>3. <<s, u, d>> \in {<<"refused", <<>>, <<"exists">>>>,
                     <<"welcome", <<>>, <<"ok">>>>}
    BY <1>2, Places DEF Joint, Quiet, Arrival, Listing, Choosing, Queueing, Meeting, Parting
<1>4. CASE <<s, u, d>> = <<"refused", <<>>, <<"exists">>>>
  <2>1. Head(d) = "exists" /\ Size("exists") = 2 /\ "exists" \in kinds
      BY <1>4, Short, WordSizes
  <2>2. Got(down, 2) = "exists" /\ ~misread'
    <3> HIDE DEF kinds
    <3> QED BY <1>1, <1>2, <2>1, Counting, ClientReads
  <2>3. CliGoes("gone", <<>>)
      BY <2>2 DEF CliNickname, CliTurn
  <2> QED BY <2>2, <2>3, ClientEnds DEF CliNickname, Same
<1>5. CASE <<s, u, d>> = <<"welcome", <<>>, <<"ok">>>>
  <2>1. s = "welcome" /\ u = <<>> /\ d = <<"ok">> /\ Head(d) = "ok" /\ Tail(d) = <<>>
      BY <1>5, Short
  <2>2. {<<"ok">>, <<>>} \subseteq Seq(Words) /\ u \o <<"ok">> = <<"ok">> /\ Size("ok") = 2 /\ "ok" \in kinds
      BY <2>1, Short, WordSizes DEF Words
  <2>3. Got(down, 2) = "ok" /\ down' = Chunks(<<>>) /\ ~misread'
    <3> HIDE DEF kinds
    <3> QED BY <1>1, <1>2, <2>1, <2>2, Counting, ClientReads
  <2>4. CliGoes("menu", <<"ok">>)
      BY <2>3 DEF CliNickname, CliTurn
  <2>5. InPlace("menu", s, <<"ok">>, <<>>)'
      BY <1>1, <1>2, <2>1, <2>3, <2>4 DEF CliNickname, CliTurn, Same, srvVars, CliGoes, Joint, InPlace,
         InDialogue, Quiet, Arrival, Agrees, RoomsAgree, WatcherAgrees, MustWatch, StopperAgrees, EndingAgrees
  <2> QED BY <1>1, <2>2, <2>3, <2>4, <2>5, ClientGoes
<1> QED BY <1>3, <1>4, <1>5

\* The list of the rooms is to follow.
LEMMA ListAnswered ==
    ASSUME NEW c, NEW s, NEW u \in Seq(Words), NEW d \in Seq(Words), Joint(c, s, u, d), ~misread, CliList
    PROVE  InStepInv'
<1> DEFINE kinds == {"ok", "invalid"}
<1>1. cli = "list" /\ CliReads(2, kinds) /\ UNCHANGED <<srv, isConnected, watcher>>
    BY DEF CliList, CliTurn, Same, srvVars
<1>2. c = "list" /\ d # <<>>
    BY <1>1, Counting, ClientHears
<1>3. <<s, u, d>> = <<"view", <<>>, <<"ok">>>>
    BY <1>2, Places DEF Joint, Quiet, Arrival, Listing, Choosing, Queueing, Meeting, Parting
<1>4. s = "view" /\ u = <<>> /\ d = <<"ok">> /\ Head(d) = "ok" /\ Tail(d) = <<>>
    BY <1>3, Short
<1>5. {<<"ok">>, <<>>} \subseteq Seq(Words) /\ u \o <<"ok">> = <<"ok">> /\ Size("ok") = 2 /\ "ok" \in kinds
    BY <1>4, Short, WordSizes DEF Words
<1>6. Got(down, 2) = "ok" /\ down' = Chunks(<<>>) /\ ~misread'
  <2> HIDE DEF kinds
  <2> QED BY <1>1, <1>2, <1>4, <1>5, Counting, ClientReads
<1>7. CliGoes("count", <<"ok">>)
    BY <1>6 DEF CliList, CliTurn
<1>8. InPlace("count", s, <<"ok">>, <<>>)'
    BY <1>1, <1>2, <1>4, <1>6, <1>7 DEF CliList, CliTurn, Same, srvVars, CliGoes, Joint, InPlace, InDialogue,
       Quiet, Listing, Agrees, RoomsAgree, WatcherAgrees, MustWatch, StopperAgrees, EndingAgrees
<1> QED BY <1>1, <1>5, <1>6, <1>7, <1>8, ClientGoes

\* The server says good-bye.
LEMMA QuitAnswered ==
    ASSUME NEW c, NEW s, NEW u \in Seq(Words), NEW d \in Seq(Words), Joint(c, s, u, d), ~misread, CliQuit
    PROVE  InStepInv'
<1> DEFINE kinds == {"ok", "invalid"}
<1>1. cli = "quit" /\ CliReads(2, kinds) /\ UNCHANGED <<srv, isConnected, watcher>>
    BY DEF CliQuit, CliTurn, Same, srvVars
<1>2. c = "quit" /\ d # <<>>
    BY <1>1, Counting, ClientHears
<1>3. <<s, u, d>> = <<"leave", <<>>, <<"ok">>>>
    BY <1>2, Places DEF Joint, Quiet, Arrival, Listing, Choosing, Queueing, Meeting, Parting
<1>4. s = "leave" /\ u = <<>> /\ d = <<"ok">> /\ Head(d) = "ok" /\ Tail(d) = <<>>
    BY <1>3, Short
<1>5. {<<"ok">>, <<>>} \subseteq Seq(Words) /\ u \o <<"ok">> = <<"ok">> /\ Size("ok") = 2 /\ "ok" \in kinds
    BY <1>4, Short, WordSizes DEF Words
<1>6. Got(down, 2) = "ok" /\ down' = Chunks(<<>>) /\ ~misread'
  <2> HIDE DEF kinds
  <2> QED BY <1>1, <1>2, <1>4, <1>5, Counting, ClientReads
<1>7. CliGoes("gone", <<"ok">>)
    BY <1>6 DEF CliQuit, CliTurn
<1>8. InPlace("gone", s, <<"ok">>, <<>>)'
    BY <1>1, <1>2, <1>4, <1>6, <1>7 DEF CliQuit, CliTurn, Same, srvVars, CliGoes, Joint, InPlace, InDialogue,
       Quiet, Arrival, Agrees, RoomsAgree, WatcherAgrees, MustWatch, StopperAgrees, EndingAgrees
<1> QED BY <1>1, <1>5, <1>6, <1>7, <1>8, ClientGoes

\* Both count the rooms from here on.
LEMMA CountRead ==
    ASSUME NEW c, NEW s, NEW u \in Seq(Words), NEW d \in Seq(Words), Joint(c, s, u, d), ~misread, CliCount
    PROVE  InStepInv'
<1> DEFINE kinds == {"count"}
<1>1. cli = "count" /\ CliReads(1, kinds) /\ UNCHANGED <<srv, isConnected, watcher>>
    BY DEF CliCount, srvVars
<1>2. c = "count" /\ d # <<>>
    BY <1>1, Counting, ClientHears
<1>3. <<s, u, d>> = <<"counted", <<>>, <<"count">>>>
    BY <1>2, Places DEF Joint, Quiet, Arrival, Listing, Choosing, Queueing, Meeting, Parting
<1>4. s = "counted" /\ u = <<>> /\ d = <<"count">> /\ Head(d) = "count" /\ Tail(d) = <<>>
    BY <1>3, Short
<1>5. {<<"ok">>, <<>>} \subseteq Seq(Words) /\ u \o <<"ok">> = <<"ok">> /\ Size("count") = 1 /\ "count" \in kinds
    BY <1>4, Short, WordSizes DEF Words
<1>6. Got(down, 1) = "count" /\ down' = Chunks(<<>>) /\ ~misread'
  <2> HIDE DEF kinds
  <2> QED BY <1>1, <1>2, <1>4, <1>5, Counting, ClientReads
<1>7. CliGoes("name", <<"ok">>)
    BY <1>6, CountsArePositive DEF CliCount
<1>8. InPlace("name", s, <<"ok">>, <<>>)'
    BY <1>1, <1>2, <1>4, <1>6, <1>7, CountsArePositive DEF CliCount, srvVars, CliGoes, Joint, InPlace,
       InDialogue, Quiet, Listing, Agrees, RoomsAgree, WatcherAgrees, MustWatch, StopperAgrees, EndingAgrees
<1> QED BY <1>1, <1>5, <1>6, <1>7, <1>8, ClientGoes

\* The name of a room.
LEMMA NameRead ==
    ASSUME NEW c, NEW s, NEW u \in Seq(Words), NEW d \in Seq(Words), Joint(c, s, u, d), ~misread, CliName
    PROVE  InStepInv'
<1> DEFINE kinds == {"name"}
<1>1. cli = "name" /\ CliReads(NameSize, kinds) /\ UNCHANGED <<srv, isConnected, watcher>>
    BY DEF CliName, CliRoom, Same, srvVars
<1>2. c = "name" /\ d # <<>>
    BY <1>1, Counting, ClientHears
<1>3. <<s, u, d>> = <<"named", <<>>, <<"name">>>>
    BY <1>2, Places DEF Joint, Quiet, Arrival, Listing, Choosing, Queueing, Meeting, Parting
<1>4. s = "named" /\ u = <<>> /\ d = <<"name">> /\ Head(d) = "name" /\ Tail(d) = <<>>
    BY <1>3, Short
<1>5. {<<"ok">>, <<>>} \subseteq Seq(Words) /\ u \o <<"ok">> = <<"ok">> /\ Size("name") = NameSize /\ "name" \in kinds
    BY <1>4, Short, WordSizes DEF Words
<1>6. Got(down, NameSize) = "name" /\ down' = Chunks(<<>>) /\ ~misread'
  <2> HIDE DEF kinds
  <2> QED BY <1>1, <1>2, <1>4, <1>5, Counting, ClientReads
<1>7. CliGoes("max", <<"ok">>)
    BY <1>6 DEF CliName, CliRoom
<1>8. InPlace("max", s, <<"ok">>, <<>>)'
    BY <1>1, <1>2, <1>4, <1>6, <1>7 DEF CliName, CliRoom, Same, srvVars, CliGoes, Joint, InPlace, InDialogue,
       Quiet, Listing, Agrees, RoomsAgree, WatcherAgrees, MustWatch, StopperAgrees, EndingAgrees
<1> QED BY <1>1, <1>5, <1>6, <1>7, <1>8, ClientGoes

\* Its size.
LEMMA MaxRead ==
    ASSUME NEW c, NEW s, NEW u \in Seq(Words), NEW d \in Seq(Words), Joint(c, s, u, d), ~misread, CliMax
    PROVE  InStepInv'
<1> DEFINE kinds == {"number"}
<1>1. cli = "max" /\ CliReads(1, kinds) /\ UNCHANGED <<srv, isConnected, watcher>>
    BY DEF CliMax, CliRoom, Same, srvVars
<1>2. c = "max" /\ d # <<>>
    BY <1>1, Counting, ClientHears
<1>3. <<s, u, d>> = <<"sized", <<>>, <<"number">>>>
    BY <1>2, Places DEF Joint, Quiet, Arrival, Listing, Choosing, Queueing, Meeting, Parting
<1>4. s = "sized" /\ u = <<>> /\ d = <<"number">> /\ Head(d) = "number" /\ Tail(d) = <<>>
    BY <1>3, Short
<1>5. {<<"ok">>, <<>>} \subseteq Seq(Words) /\ u \o <<"ok">> = <<"ok">> /\ Size("number") = 1 /\ "number" \in kinds
    BY <1>4, Short, WordSizes DEF Words
<1>6. Got(down, 1) = "number" /\ down' = Chunks(<<>>) /\ ~misread'
  <2> HIDE DEF kinds
  <2> QED BY <1>1, <1>2, <1>4, <1>5, Counting, ClientReads
<1>7. CliGoes("clients", <<"ok">>)
    BY <1>6 DEF CliMax, CliRoom
<1>8. InPlace("clients", s, <<"ok">>, <<>>)'
    BY <1>1, <1>2, <1>4, <1>6, <1>7 DEF CliMax, CliRoom, Same, srvVars, CliGoes, Joint, InPlace, InDialogue,
       Quiet, Listing, Agrees, RoomsAgree, WatcherAgrees, MustWatch, StopperAgrees, EndingAgrees
<1> QED BY <1>1, <1>5, <1>6, <1>7, <1>8, ClientGoes

\* One room less is to be read.
LEMMA ClientsRead ==
    ASSUME NEW c, NEW s, NEW u \in Seq(Words), NEW d \in Seq(Words), Joint(c, s, u, d), ~misread, CliClients
    PROVE  InStepInv'
<1> DEFINE kinds == {"number"}
<1>0. PICK to \in {"listed", "name"} : to = IF listed = 1 THEN "listed" ELSE "name"
    OBVIOUS
<1>1. cli = "clients" /\ CliReads(1, kinds) /\ UNCHANGED <<srv, isConnected, watcher>> /\ CliGoes(to, <<"ok">>)
    BY <1>0 DEF CliClients, CliRoom, srvVars
<1>2. c = "clients" /\ d # <<>>
    BY <1>1, Counting, ClientHears
<1>3. <<s, u, d>> = <<"listed", <<>>, <<"number">>>>
    BY <1>2, Places DEF Joint, Quiet, Arrival, Listing, Choosing, Queueing, Meeting, Parting
<1>4. s = "listed" /\ u = <<>> /\ d = <<"number">> /\ Head(d) = "number" /\ Tail(d) = <<>>
    BY <1>3, Short
<1>5. {<<"ok">>, <<>>} \subseteq Seq(Words) /\ u \o <<"ok">> = <<"ok">> /\ Size("number") = 1 /\ "number" \in kinds
    BY <1>4, Short, WordSizes DEF Words
<1>6. Got(down, 1) = "number" /\ down' = Chunks(<<>>) /\ ~misread'
  <2> HIDE DEF kinds
  <2> QED BY <1>1, <1>2, <1>4, <1>5, Counting, ClientReads
<1>7. Agrees(to, s, <<"ok">>, <<>>)'
  <2>1. listed = toList /\ listed \in Nat \ {0} /\ toList' = toList /\ listed' = listed - 1
      BY <1>2, <1>4 DEF CliClients, srvVars, Joint, InPlace, Agrees, RoomsAgree
  <2>2. RoomsAgree(to, s)'
      BY <1>0, <1>4, <2>1 DEF RoomsAgree
  <2> QED BY <1>0, <1>1, <1>2, <1>4, <2>2 DEF CliClients, srvVars, CliGoes, Joint, InPlace, Agrees, WatcherAgrees,
             MustWatch, StopperAgrees, EndingAgrees
<1>8. InPlace(to, s, <<"ok">>, <<>>)'
    BY <1>0, <1>4, <1>7 DEF InPlace, InDialogue, Quiet, Listing
<1> QED BY <1>1, <1>5, <1>6, <1>8, ClientGoes

\* The list is over.
LEMMA ListedAnswered ==
    ASSUME NEW c, NEW s, NEW u \in Seq(Words), NEW d \in Seq(Words), Joint(c, s, u, d), ~misread, CliListed
    PROVE  InStepInv'
<1> DEFINE kinds == {"ok"}
<1>1. cli = "listed" /\ CliReads(2, kinds) /\ UNCHANGED <<srv, isConnected, watcher>>
    BY DEF CliListed, CliTurn, Same, srvVars
<1>2. c = "listed" /\ d # <<>>
    BY <1>1, Counting, ClientHears
<1>3. <<s, u, d>> = <<"choice", <<>>, <<"ok">>>>
    BY <1>2, Places DEF Joint, Quiet, Arrival, Listing, Choosing, Queueing, Meeting, Parting
<1>4. s = "choice" /\ u = <<>> /\ d = <<"ok">> /\ Head(d) = "ok" /\ Tail(d) = <<>>
    BY <1>3, Short
<1>5. {<<>>} \subseteq Seq(Words) /\ u \o <<>> = <<>> /\ Size("ok") = 2 /\ "ok" \in kinds
    BY <1>4, Short, WordSizes DEF Words
<1>6. Got(down, 2) = "ok" /\ down' = Chunks(<<>>) /\ ~misread'
  <2> HIDE DEF kinds
  <2> QED BY <1>1, <1>2, <1>4, <1>5, Counting, ClientReads
<1>7. CliGoes("choose", <<>>)
    BY <1>6 DEF CliListed, CliTurn
<1>8. InPlace("choose", s, <<>>, <<>>)'
    BY <1>1, <1>2, <1>4, <1>6, <1>7 DEF CliListed, CliTurn, Same, srvVars, CliGoes, Joint, InPlace, InDialogue,
       Quiet, Choosing, Agrees, RoomsAgree, WatcherAgrees, MustWatch, StopperAgrees, EndingAgrees
<1> QED BY <1>1, <1>5, <1>6, <1>7, <1>8, ClientGoes

\* The room is one of the list.
LEMMA RoomAnswered ==
    ASSUME NEW c, NEW s, NEW u \in Seq(Words), NEW d \in Seq(Words), Joint(c, s, u, d), ~misread, CliTakes
    PROVE  InStepInv'
<1> DEFINE kinds == {"ok", "invalid"}
<1>1. cli = "room" /\ CliReads(2, kinds) /\ UNCHANGED <<srv, isConnected, watcher>>
    BY DEF CliTakes, CliTurn, Same, srvVars
<1>2. c = "room" /\ d # <<>>
    BY <1>1, Counting, ClientHears
<1>3. <<s, u, d>> = <<"chosen", <<>>, <<"ok">>>>
    BY <1>2, Places DEF Joint, Quiet, Arrival, Listing, Choosing, Queueing, Meeting, Parting
<1>4. s = "chosen" /\ u = <<>> /\ d = <<"ok">> /\ Head(d) = "ok" /\ Tail(d) = <<>>
    BY <1>3, Short
<1>5. {<<"ok">>, <<>>} \subseteq Seq(Words) /\ u \o <<"ok">> = <<"ok">> /\ Size("ok") = 2 /\ "ok" \in kinds
    BY <1>4, Short, WordSizes DEF Words
<1>6. Got(down, 2) = "ok" /\ down' = Chunks(<<>>) /\ ~misread'
  <2> HIDE DEF kinds
  <2> QED BY <1>1, <1>2, <1>4, <1>5, Counting, ClientReads
<1>7. CliGoes("full", <<"ok">>)
    BY <1>6 DEF CliTakes, CliTurn
<1>8. InPlace("full", s, <<"ok">>, <<>>)'
    BY <1>1, <1>2, <1>4, <1>6, <1>7 DEF CliTakes, CliTurn, Same, srvVars, CliGoes, Joint, InPlace, InDialogue,
       Quiet, Choosing, Agrees, RoomsAgree, WatcherAgrees, MustWatch, StopperAgrees, EndingAgrees
<1> QED BY <1>1, <1>5, <1>6, <1>7, <1>8, ClientGoes

\* The room is full, or the client waits.
LEMMA FullAnswered ==
    ASSUME NEW c, NEW s, NEW u \in Seq(Words), NEW d \in Seq(Words), Joint(c, s, u, d), ~misread, CliFull
    PROVE  InStepInv'
<1> DEFINE kinds == {"ok", "full"}
<1>1. cli = "full" /\ CliReads(2, kinds) /\ UNCHANGED <<srv, isConnected, watcher>>
    BY DEF CliFull, CliTurn, srvVars
<1>2. c = "full" /\ d # <<>>
    BY <1>1, Counting, ClientHears
<1>3. <<s, u, d>> \in {<<"operation", <<>>, <<"full">>>>,
                     <<"feedback", <<>>, <<"ok">>>>}
    BY <1>2, Places DEF Joint, Quiet, Arrival, Listing, Choosing, Queueing, Meeting, Parting
<1>4. CASE <<s, u, d>> = <<"operation", <<>>, <<"full">>>>
  <2>1. s = "operation" /\ u = <<>> /\ d = <<"full">> /\ Head(d) = "full" /\ Tail(d) = <<>>
      BY <1>4, Short
  <2>2. {<<>>} \subseteq Seq(Words) /\ u \o <<>> = <<>> /\ Size("full") = 2 /\ "full" \in kinds
      BY <2>1, Short, WordSizes DEF Words
  <2>3. Got(down, 2) = "full" /\ down' = Chunks(<<>>) /\ ~misread'
    <3> HIDE DEF kinds
    <3> QED BY <1>1, <1>2, <2>1, <2>2, Counting, ClientReads
  <2>4. CliGoes("menu", <<>>)
      BY <2>3 DEF CliFull, CliTurn
  <2>5. InPlace("menu", s, <<>>, <<>>)'
      BY <1>1, <1>2, <2>1, <2>3, <2>4 DEF CliFull, CliTurn, srvVars, CliGoes, Joint, InPlace, InDialogue, Quiet,
         Arrival, Agrees, RoomsAgree, WatcherAgrees, MustWatch, StopperAgrees, EndingAgrees
  <2> QED BY <1>1, <2>2, <2>3, <2>4, <2>5, ClientGoes
<1>5. CASE <<s, u, d>> = <<"feedback", <<>>, <<"ok">>>>
  <2>1. s = "feedback" /\ u = <<>> /\ d = <<"ok">> /\ Head(d) = "ok" /\ Tail(d) = <<>>
      BY <1>5, Short
  <2>2. {<<"ok">>, <<>>} \subseteq Seq(Words) /\ u \o <<"ok">> = <<"ok">> /\ Size("ok") = 2 /\ "ok" \in kinds
      BY <2>1, Short, WordSizes DEF Words
  <2>3. Got(down, 2) = "ok" /\ down' = Chunks(<<>>) /\ ~misread'
    <3> HIDE DEF kinds
    <3> QED BY <1>1, <1>2, <2>1, <2>2, Counting, ClientReads
  <2>4. CliGoes("wait", <<"ok">>)
      BY <2>3 DEF CliFull, CliTurn
  <2>5. InPlace("wait", s, <<"ok">>, <<>>)'
      BY <1>1, <1>2, <2>1, <2>3, <2>4 DEF CliFull, CliTurn, srvVars, CliGoes, Joint, InPlace, InDialogue, Quiet,
         Queueing, Agrees, RoomsAgree, WatcherAgrees, MustWatch, StopperAgrees, EndingAgrees
  <2> QED BY <1>1, <2>2, <2>3, <2>4, <2>5, ClientGoes
<1> QED BY <1>3, <1>4, <1>5

\* The wait is over.
LEMMA WaitAnswered ==
    ASSUME NEW c, NEW s, NEW u \in Seq(Words), NEW d \in Seq(Words), Joint(c, s, u, d), ~misread, CliWait
    PROVE  InStepInv'
<1> DEFINE kinds == {"ok", "stopped"}
<1>1. cli = "wait" /\ CliReads(2, kinds) /\ UNCHANGED <<srv, isConnected, watcher>>
    BY DEF CliWait, CliTurn, srvVars
<1>2. c = "wait" /\ d # <<>>
    BY <1>1, Counting, ClientHears
<1>3. <<s, u, d>> \in {<<"stopping", <<>>, <<"stopped">>>>,
                     <<"operation", <<>>, <<"stopped">>>>,
                     <<"paired", <<>>, <<"ok">>>>,
                     <<"announced", <<>>, <<"ok">>>>,
                     <<"joining", <<>>, <<"ok", "ok">>>>}
    BY <1>2, Places DEF Joint, Quiet, Arrival, Listing, Choosing, Queueing, Meeting, Parting
<1>4. CASE <<s, u, d>> = <<"stopping", <<>>, <<"stopped">>>>
  <2>1. s = "stopping" /\ u = <<>> /\ d = <<"stopped">> /\ Head(d) = "stopped" /\ Tail(d) = <<>>
      BY <1>4, Short
  <2>2. {<<>>} \subseteq Seq(Words) /\ u \o <<>> = <<>> /\ Size("stopped") = 2 /\ "stopped" \in kinds
      BY <2>1, Short, WordSizes DEF Words
  <2>3. Got(down, 2) = "stopped" /\ down' = Chunks(<<>>) /\ ~misread'
    <3> HIDE DEF kinds
    <3> QED BY <1>1, <1>2, <2>1, <2>2, Counting, ClientReads
  <2>4. CliGoes("menu", <<>>)
      BY <2>3 DEF CliWait, CliTurn
  <2>5. InPlace("menu", s, <<>>, <<>>)'
      BY <1>1, <1>2, <2>1, <2>3, <2>4 DEF CliWait, CliTurn, srvVars, CliGoes, Joint, InPlace, InDialogue, Quiet,
         Queueing, Agrees, RoomsAgree, WatcherAgrees, MustWatch, StopperAgrees, EndingAgrees
  <2> QED BY <1>1, <2>2, <2>3, <2>4, <2>5, ClientGoes
<1>5. CASE <<s, u, d>> = <<"operation", <<>>, <<"stopped">>>>
  <2>1. s = "operation" /\ u = <<>> /\ d = <<"stopped">> /\ Head(d) = "stopped" /\ Tail(d) = <<>>
      BY <1>5, Short
  <2>2. {<<>>} \subseteq Seq(Words) /\ u \o <<>> = <<>> /\ Size("stopped") = 2 /\ "stopped" \in kinds
      BY <2>1, Short, WordSizes DEF Words
  <2>3. Got(down, 2) = "stopped" /\ down' = Chunks(<<>>) /\ ~misread'
    <3> HIDE DEF kinds
    <3> QED BY <1>1, <1>2, <2>1, <2>2, Counting, ClientReads
  <2>4. CliGoes("menu", <<>>)
      BY <2>3 DEF CliWait, CliTurn
  <2>5. InPlace("menu", s, <<>>, <<>>)'
      BY <1>1, <1>2, <2>1, <2>3, <2>4 DEF CliWait, CliTurn, srvVars, CliGoes, Joint, InPlace, InDialogue, Quiet,
         Arrival, Agrees, RoomsAgree, WatcherAgrees, MustWatch, StopperAgrees, EndingAgrees
  <2> QED BY <1>1, <2>2, <2>3, <2>4, <2>5, ClientGoes
<1>6. CASE <<s, u, d>> = <<"paired", <<>>, <<"ok">>>>
  <2>1. s = "paired" /\ u = <<>> /\ d = <<"ok">> /\ Head(d) = "ok" /\ Tail(d) = <<>>
      BY <1>6, Short
  <2>2. {<<>>} \subseteq Seq(Words) /\ u \o <<>> = <<>> /\ Size("ok") = 2 /\ "ok" \in kinds
      BY <2>1, Short, WordSizes DEF Words
  <2>3. Got(down, 2) = "ok" /\ down' = Chunks(<<>>) /\ ~misread'
    <3> HIDE DEF kinds
    <3> QED BY <1>1, <1>2, <2>1, <2>2, Counting, ClientReads
  <2>4. CliGoes("matched", <<>>)
      BY <2>3 DEF CliWait, CliTurn
  <2>5. InPlace("matched", s, <<>>, <<>>)'
      BY <1>1, <1>2, <2>1, <2>3, <2>4 DEF CliWait, CliTurn, srvVars, CliGoes, Joint, InPlace, InDialogue, Quiet,
         Meeting, Agrees, RoomsAgree, WatcherAgrees, MustWatch, StopperAgrees, EndingAgrees
  <2> QED BY <1>1, <2>2, <2>3, <2>4, <2>5, ClientGoes
<1>7. CASE <<s, u, d>> = <<"announced", <<>>, <<"ok">>>>
  <2>1. s = "announced" /\ u = <<>> /\ d = <<"ok">> /\ Head(d) = "ok" /\ Tail(d) = <<>>
      BY <1>7, Short
  <2>2. {<<>>} \subseteq Seq(Words) /\ u \o <<>> = <<>> /\ Size("ok") = 2 /\ "ok" \in kinds
      BY <2>1, Short, WordSizes DEF Words
  <2>3. Got(down, 2) = "ok" /\ down' = Chunks(<<>>) /\ ~misread'
    <3> HIDE DEF kinds
    <3> QED BY <1>1, <1>2, <2>1, <2>2, Counting, ClientReads
  <2>4. CliGoes("matched", <<>>)
      BY <2>3 DEF CliWait, CliTurn
  <2>5. InPlace("matched", s, <<>>, <<>>)'
      BY <1>1, <1>2, <2>1, <2>3, <2>4 DEF CliWait, CliTurn, srvVars, CliGoes, Joint, InPlace, InDialogue, Quiet,
         Meeting, Agrees, RoomsAgree, WatcherAgrees, MustWatch, StopperAgrees, EndingAgrees
  <2> QED BY <1>1, <2>2, <2>3, <2>4, <2>5, ClientGoes
<1>8. CASE <<s, u, d>> = <<"joining", <<>>, <<"ok", "ok">>>>
  <2>1. s = "joining" /\ u = <<>> /\ d = <<"ok", "ok">> /\ Head(d) = "ok" /\ Tail(d) = <<"ok">>
      BY <1>8, Short
  <2>2. {<<"ok">>, <<>>} \subseteq Seq(Words) /\ u \o <<>> = <<>> /\ Size("ok") = 2 /\ "ok" \in kinds
      BY <2>1, Short, WordSizes DEF Words
  <2>3. Got(down, 2) = "ok" /\ down' = Chunks(<<"ok">>) /\ ~misread'
    <3> HIDE DEF kinds
    <3> QED BY <1>1, <1>2, <2>1, <2>2, Counting, ClientReads
  <2>4. CliGoes("matched", <<>>)
      BY <2>3 DEF CliWait, CliTurn
  <2>5. InPlace("matched", s, <<>>, <<"ok">>)'
      BY <1>1, <1>2, <2>1, <2>3, <2>4 DEF CliWait, CliTurn, srvVars, CliGoes, Joint, InPlace, InDialogue, Quiet,
         Meeting, Agrees, RoomsAgree, WatcherAgrees, MustWatch, StopperAgrees, EndingAgrees
  <2> QED BY <1>1, <2>2, <2>3, <2>4, <2>5, ClientGoes
<1> QED BY <1>3, <1>4, <1>5, <1>6, <1>7, <1>8

\* The handler has confirmed the match.
LEMMA MatchedAnswered ==
    ASSUME NEW c, NEW s, NEW u \in Seq(Words), NEW d \in Seq(Words), Joint(c, s, u, d), ~misread, CliMatched
    PROVE  InStepInv'
<1> DEFINE kinds == {"ok"}
<1>1. cli = "matched" /\ CliReads(2, kinds) /\ UNCHANGED <<srv, isConnected, watcher>>
    BY DEF CliMatched, CliTurn, Same, srvVars
<1>2. c = "matched" /\ d # <<>>
    BY <1>1, Counting, ClientHears
<1>3. <<s, u, d>> = <<"joining", <<>>, <<"ok">>>>
    BY <1>2, Places DEF Joint, Quiet, Arrival, Listing, Choosing, Queueing, Meeting, Parting
<1>4. s = "joining" /\ u = <<>> /\ d = <<"ok">> /\ Head(d) = "ok" /\ Tail(d) = <<>>
    BY <1>3, Short
<1>5. {<<"ok">>, <<>>} \subseteq Seq(Words) /\ u \o <<"ok">> = <<"ok">> /\ Size("ok") = 2 /\ "ok" \in kinds
    BY <1>4, Short, WordSizes DEF Words
<1>6. Got(down, 2) = "ok" /\ down' = Chunks(<<>>) /\ ~misread'
  <2> HIDE DEF kinds
  <2> QED BY <1>1, <1>2, <1>4, <1>5, Counting, ClientReads
<1>7. CliGoes("greeting", <<"ok">>)
    BY <1>6 DEF CliMatched, CliTurn
<1>8. InPlace("greeting", s, <<"ok">>, <<>>)'
    BY <1>1, <1>2, <1>4, <1>6, <1>7 DEF CliMatched, CliTurn, Same, srvVars, CliGoes, Joint, InPlace, InDialogue,
       Quiet, Meeting, Agrees, RoomsAgree, WatcherAgrees, MustWatch, StopperAgrees, EndingAgrees
<1> QED BY <1>1, <1>5, <1>6, <1>7, <1>8, ClientGoes

\* After a chat the program goes where the last message has said.
LEMMA OverAnswered ==
    ASSUME NEW c, NEW s, NEW u \in Seq(Words), NEW d \in Seq(Words), Joint(c, s, u, d), ~misread, CliOver
    PROVE  InStepInv'
<1> DEFINE kinds == {"ok"}
<1>1. cli = "over" /\ CliReads(2, kinds) /\ UNCHANGED <<srv, isConnected, watcher>>
    BY DEF CliOver, srvVars
<1>2. c = "over" /\ d # <<>>
    BY <1>1, Counting, ClientHears
<1>3. <<s, u, d>> = <<"after", <<>>, <<"ok">>>>
  <2>1. <<"over", s, u, d>> \in Quiet
      BY <1>2 DEF Joint, InPlace, InDialogue, Talks, Leaves, IsTold, Chatting
  <2> QED BY <1>2, <2>1 DEF Quiet, Arrival, Listing, Choosing, Queueing, Meeting, Parting
<1>4. s = "after" /\ u = <<>> /\ d = <<"ok">> /\ Head(d) = "ok" /\ Tail(d) = <<>>
    BY <1>3, Short
<1>5. /\ {<<"ok">>, <<"ok", "ok">>, <<>>} \subseteq Seq(Words)
      /\ u \o <<"ok">> = <<"ok">> /\ u \o <<"ok", "ok">> = <<"ok", "ok">> /\ Size("ok") = 2 /\ "ok" \in kinds
    BY <1>4, Short, WordSizes DEF Words
<1>6. Got(down, 2) = "ok" /\ down' = Chunks(<<>>) /\ ~misread'
  <2> HIDE DEF kinds
  <2> QED BY <1>1, <1>2, <1>4, <1>5, Counting, ClientReads
<1>7. (requeued <=> chatTimedout) /\ ~stopWaiting /\ (stopper => FALSE)
    BY <1>1, <1>2, <1>4 DEF Joint, InPlace, Agrees, WatcherAgrees, StopperAgrees, EndingAgrees
<1>8. CASE requeued
  <2>1. CliGoes("wait", <<"ok", "ok">>)
      BY <1>8 DEF CliOver
  <2>2. InPlace("wait", s, <<"ok", "ok">>, <<>>)'
    <3>1. <<"wait", "after", <<"ok", "ok">>, <<>>>> \in Quiet
        BY DEF Quiet, Parting
    <3>2. <<"ok", "ok">> # <<"stopped">> /\ <<"ok", "ok">> # <<"ok", "stopped">> /\ <<>> # <<"stopped">>
        OBVIOUS
    <3> QED BY <1>1, <1>2, <1>4, <1>7, <1>8, <2>1, <3>1, <3>2 DEF CliOver, srvVars, CliGoes, Joint, InPlace, InDialogue,
               Agrees, RoomsAgree, WatcherAgrees, MustWatch, StopperAgrees, EndingAgrees
  <2> QED BY <1>1, <1>5, <1>6, <2>1, <2>2, ClientGoes
<1>9. CASE ~requeued
  <2>1. CliGoes("menu", <<"ok">>)
      BY <1>9 DEF CliOver
  <2>2. InPlace("menu", s, <<"ok">>, <<>>)'
    <3>1. <<"menu", "after", <<"ok">>, <<>>>> \in Quiet
        BY DEF Quiet, Parting
    <3> QED BY <1>1, <1>2, <1>4, <1>7, <1>9, <2>1, <3>1 DEF CliOver, srvVars, CliGoes, Joint, InPlace, InDialogue,
               Agrees, RoomsAgree, WatcherAgrees, MustWatch, StopperAgrees, EndingAgrees
  <2> QED BY <1>1, <1>5, <1>6, <2>1, <2>2, ClientGoes
<1> QED BY <1>8, <1>9

-----------------------------------------------------------------------------
\* The user chooses an operation.
LEMMA OperationChosen ==
    ASSUME NEW c, NEW s, NEW u \in Seq(Words), NEW d \in Seq(Words), Joint(c, s, u, d), ~misread, CliMenu
    PROVE  InStepInv'
<1>1. /\ cli = "menu" /\ UNCHANGED <<srv, isConnected, watcher, down>> /\ ~misread'
      /\ CliGoes("list", <<"one">>) \/ CliGoes("quit", <<"two">>)
    BY DEF CliMenu, srvVars
<1>2. c = "menu"
    BY <1>1 DEF Joint
<1>3. <<s, u, d>> \in {<<"welcome", <<"ok">>, <<>>>>, <<"operation", <<>>, <<>>>>, <<"stopping", <<>>, <<>>>>,
                     <<"after", <<"ok">>, <<>>>>}
    BY <1>2, Places DEF Joint, Quiet, Arrival, Listing, Choosing, Queueing, Meeting, Parting
<1>4. PICK to \in {"list", "quit"}, w \in {"one", "two"} : CliGoes(to, <<w>>) /\ (to = "list" <=> w = "one")
  <2>1. CASE CliGoes("list", <<"one">>)
      BY <2>1
  <2>2. CASE CliGoes("quit", <<"two">>)
      BY <2>2
  <2> QED BY <1>1, <2>1, <2>2
<1>5. down' = Chunks(d) \/ (srv = "closed" /\ down' = <<>>)
    BY <1>1 DEF Joint
<1>6. <<w>> \in Seq(Words) /\ <<"ok", w>> \in Seq(Words)
    BY <1>4, Short DEF Words
<1>7. CASE u = <<>>
  <2>1. s \in {"operation", "stopping"} /\ d = <<>>
      BY <1>3, <1>7
  <2>2. <<to, s, <<w>>, d>> \in Quiet
      BY <1>4, <2>1 DEF Quiet, Arrival, Queueing
  <2>3. InPlace(to, s, <<w>>, d)'
      BY <1>1, <1>2, <1>4, <1>7, <2>1, <2>2 DEF CliMenu, srvVars, CliGoes, Joint, InPlace, InDialogue, Agrees,
         RoomsAgree, WatcherAgrees, MustWatch, StopperAgrees, EndingAgrees
  <2>4. u \o <<w>> = <<w>>
      BY <1>7, Short
  <2> QED BY <1>1, <1>4, <1>5, <1>6, <2>3, <2>4, ClientGoes
<1>8. CASE u = <<"ok">>
  <2>1. s \in {"welcome", "after"} /\ d = <<>>
      BY <1>3, <1>8
  <2>2. <<to, s, <<"ok", w>>, d>> \in Quiet
      BY <1>4, <2>1 DEF Quiet, Arrival, Parting
  <2>3. InPlace(to, s, <<"ok", w>>, d)'
      BY <1>1, <1>2, <1>4, <1>8, <2>1, <2>2 DEF CliMenu, srvVars, CliGoes, Joint, InPlace, InDialogue, Agrees,
         RoomsAgree, WatcherAgrees, MustWatch, StopperAgrees, EndingAgrees
  <2>4. u \o <<w>> = <<"ok", w>>
      BY <1>8, Short
  <2> QED BY <1>1, <1>4, <1>5, <1>6, <2>3, <2>4, ClientGoes
<1> QED BY <1>3, <1>7, <1>8

\* The user chooses a room.
LEMMA RoomChosen ==
    ASSUME NEW c, NEW s, NEW u \in Seq(Words), NEW d \in Seq(Words), Joint(c, s, u, d), ~misread, CliChoose
    PROVE  InStepInv'
<1>1. /\ cli = "choose" /\ UNCHANGED <<srv, isConnected, watcher, down>> /\ ~misread' /\ CliGoes("room", <<"room">>)
    BY DEF CliChoose, srvVars
<1>2. c = "choose"
    BY <1>1 DEF Joint
<1>3. <<s, u, d>> = <<"choice", <<>>, <<>>>>
    BY <1>2, Places DEF Joint, Quiet, Arrival, Listing, Choosing, Queueing, Meeting, Parting
<1>4. s = "choice" /\ u = <<>> /\ d = <<>>
    BY <1>3
<1>5. down' = Chunks(d) \/ (srv = "closed" /\ down' = <<>>)
    BY <1>1 DEF Joint
<1>6. <<"room">> \in Seq(Words) /\ u \o <<"room">> = <<"room">>
    BY <1>4, Short DEF Words
<1>7. InPlace("room", s, <<"room">>, d)'
    BY <1>1, <1>2, <1>4 DEF CliChoose, srvVars, CliGoes, Joint, InPlace, InDialogue, Quiet, Choosing, Agrees,
       RoomsAgree, WatcherAgrees, MustWatch, StopperAgrees, EndingAgrees
<1> QED BY <1>1, <1>5, <1>6, <1>7, ClientGoes

\* A STOP that does not cross the OK of the matcher.
LEMMA StopTyped ==
    ASSUME NEW c, NEW s, NEW u \in Seq(Words), NEW d \in Seq(Words), Joint(c, s, u, d), ~misread, TypeSTOP, ~crossed'
    PROVE  InStepInv'
<1>1. /\ cli # "gone" /\ UNCHANGED <<srv, isConnected, watcher, down>> /\ ~misread' /\ CliGoes(cli, <<"stopped">>)
      /\ stopper /\ ~stopper' /\ srv \in {"feedback", "wait"}
    BY DEF TypeSTOP, srvVars
<1>2. c = "wait" /\ cli = c /\ s = srv /\ ~stopWaiting /\ u # <<"stopped">> /\ u # <<"ok", "stopped">>
    BY <1>1 DEF Joint, InPlace, Agrees, StopperAgrees
<1>3. <<s, u, d>> \in {<<"feedback", <<"ok">>, <<>>>>, <<"wait", <<>>, <<>>>>}
    BY <1>1, <1>2, Places DEF Joint, Quiet, Arrival, Listing, Choosing, Queueing, Meeting, Parting
<1>4. down' = Chunks(d) \/ (srv = "closed" /\ down' = <<>>)
    BY <1>1 DEF Joint
<1>5. CASE <<s, u, d>> = <<"feedback", <<"ok">>, <<>>>>
  <2>1. s = "feedback" /\ u = <<"ok">> /\ d = <<>>
      BY <1>5
  <2>2. {<<"stopped">>, <<"ok", "stopped">>} \subseteq Seq(Words) /\ u \o <<"stopped">> = <<"ok", "stopped">>
      BY <2>1, Short DEF Words
  <2>3. InPlace("wait", s, <<"ok", "stopped">>, d)'
      BY <1>1, <1>2, <2>1 DEF TypeSTOP, srvVars, CliGoes, Joint, InPlace, InDialogue, Quiet, Queueing, Agrees,
         RoomsAgree, WatcherAgrees, MustWatch, StopperAgrees, EndingAgrees
  <2> QED BY <1>1, <1>2, <1>4, <2>2, <2>3, ClientGoes
<1>6. CASE <<s, u, d>> = <<"wait", <<>>, <<>>>>
  <2>1. s = "wait" /\ u = <<>> /\ d = <<>>
      BY <1>6
  <2>2. {<<"stopped">>} \subseteq Seq(Words) /\ u \o <<"stopped">> = <<"stopped">>
      BY <2>1, Short DEF Words
  <2>3. InPlace("wait", s, <<"stopped">>, d)'
      BY <1>1, <1>2, <2>1 DEF TypeSTOP, srvVars, CliGoes, Joint, InPlace, InDialogue, Quiet, Queueing, Agrees,
         RoomsAgree, WatcherAgrees, MustWatch, StopperAgrees, EndingAgrees
  <2> QED BY <1>1, <1>2, <1>4, <2>2, <2>3, ClientGoes
<1> QED BY <1>3, <1>5, <1>6

\* The end of the program leaves everything else as it is.
LEMMA ProgramEnds ==
    ASSUME NEW c, NEW s, NEW u \in Seq(Words), NEW d \in Seq(Words), Joint(c, s, u, d), ~misread, CliEnds \/ Vanish
    PROVE  InStepInv'
BY ClientEnds DEF CliEnds, Vanish

-----------------------------------------------------------------------------
\* The first of two sequences that are joined.
LEMMA Joined ==
    ASSUME NEW q \in Seq(Words), NEW r \in Seq(Words)
    PROVE  /\ q \o r \in Seq(Words) /\ <<>> \o r = r
           /\ q # <<>> => q \o r # <<>> /\ Head(q \o r) = Head(q) /\ Tail(q \o r) = Tail(q) \o r
<1>1. /\ q \o r \in Seq(Words) /\ <<>> \o r = r /\ Len(q) \in Nat /\ Len(r) \in Nat
      /\ Len(q \o r) = Len(q) + Len(r)
      /\ \A i \in 1..(Len(q) + Len(r)) : (q \o r)[i] = IF i <= Len(q) THEN q[i] ELSE r[i - Len(q)]
    BY ConcatProperties, ConcatEmptySeq, LenProperties
<1>2. ASSUME q # <<>> PROVE q \o r # <<>> /\ Head(q \o r) = Head(q) /\ Tail(q \o r) = Tail(q) \o r
  <2>1. Len(q) >= 1
      BY <1>1, <1>2, EmptySeq
  <2>2. q \o r # <<>>
      BY <1>1, <2>1, EmptySeq
  <2>3. Head(q \o r) = (q \o r)[1] /\ Head(q) = q[1] /\ Tail(q) \in Seq(Words) /\ Len(Tail(q)) = Len(q) - 1
      BY <1>1, <1>2, <2>2, HeadTailProperties
  <2>4. Head(q \o r) = Head(q)
      BY <1>1, <2>1, <2>3
  <2>5. /\ Tail(q) \o r \in Seq(Words) /\ Len(Tail(q) \o r) = Len(q) - 1 + Len(r)
        /\ \A i \in 1..(Len(q) - 1 + Len(r)) :
              (Tail(q) \o r)[i] = IF i <= Len(q) - 1 THEN Tail(q)[i] ELSE r[i - (Len(q) - 1)]
      BY <1>1, <2>3, ConcatProperties
  <2>6. /\ Tail(q \o r) \in Seq(Words) /\ Len(Tail(q \o r)) = Len(q) + Len(r) - 1
        /\ \A i \in 1..(Len(q) + Len(r) - 1) : Tail(q \o r)[i] = (q \o r)[i + 1]
      BY <1>1, <2>2, HeadTailProperties
  <2>7. \A i \in 1..(Len(q) - 1) : Tail(q)[i] = q[i + 1]
      BY <1>2, <2>3, HeadTailProperties
  <2>8. ASSUME NEW i \in 1..(Len(q) + Len(r) - 1) PROVE Tail(q \o r)[i] = (Tail(q) \o r)[i]
    <3>1. i + 1 \in 1..(Len(q) + Len(r)) /\ Tail(q \o r)[i] = (q \o r)[i + 1]
        BY <1>1, <2>6
    <3>2. CASE i <= Len(q) - 1
      <4>1. i \in 1..(Len(q) - 1) /\ i + 1 <= Len(q)
          BY <1>1, <3>2
      <4>2. (q \o r)[i + 1] = q[i + 1]
          BY <1>1, <3>1, <4>1
      <4> QED BY <1>1, <2>5, <2>7, <3>1, <3>2, <4>1, <4>2
    <3>3. CASE ~(i <= Len(q) - 1)
      <4>1. ~(i + 1 <= Len(q)) /\ (i + 1) - Len(q) = i - (Len(q) - 1)
          BY <1>1, <3>3
      <4>2. (q \o r)[i + 1] = r[(i + 1) - Len(q)]
          BY <1>1, <3>1, <4>1
      <4>3. (Tail(q) \o r)[i] = r[i - (Len(q) - 1)]
          BY <1>1, <2>5, <3>3
      <4> QED BY <3>1, <4>1, <4>2, <4>3
    <3> QED BY <3>2, <3>3
  <2>9. Len(q) + Len(r) - 1 = Len(q) - 1 + Len(r)
      BY <1>1
  <2>10. Tail(q \o r) = Tail(q) \o r
      BY <2>5, <2>6, <2>8, <2>9, SeqEqual
  <2> QED BY <2>2, <2>4, <2>10
<1> QED BY <1>1, <1>2

\* The messages of a chat.
LEMMA Chattered ==
    /\ Chatter \subseteq Seq(Words) /\ <<>> \in Chatter
    /\ \A q \in Chatter : q \o <<"said">> \in Chatter /\ q \o <<>> = q
    /\ \A q \in Chatter : q # <<>> => Head(q) = "said" /\ Tail(q) \in Chatter
<1>1. "said" \in Words /\ <<"said">> \in Chatter /\ <<>> \in Chatter
    BY DEF Words, Chatter
<1>2. ASSUME NEW q \in Chatter
      PROVE  /\ q \in Seq(Words) /\ q \o <<"said">> \in Chatter /\ q \o <<>> = q
             /\ q # <<>> => Head(q) = "said" /\ Tail(q) \in Chatter
  <2>1. q \in Seq(Words)
    <3>1. {"said"} \subseteq Words
        BY <1>1
    <3>2. Len(q) \in Nat /\ q \in [1..Len(q) -> {"said"}]
        BY LenProperties DEF Chatter
    <3>3. q \in [1..Len(q) -> Words]
        BY <3>1, <3>2
    <3> QED BY <3>2, <3>3, SeqDef
  <2>2. q \o <<"said">> \in Chatter /\ q \o <<>> = q
      BY <1>1, ConcatProperties, ConcatEmptySeq DEF Chatter
  <2>3. q # <<>> => Head(q) = "said" /\ Tail(q) \in Chatter
      BY HeadTailProperties DEF Chatter
  <2> QED BY <2>1, <2>2, <2>3
<1> QED BY <1>1, <1>2

\* The places of a client in a chat are no others.
LEMMA ChatPlaces ==
    ASSUME NEW c, NEW s, NEW u, NEW d, InPlace(c, s, u, d)
    PROVE  /\ c = "greeting" /\ d # <<>> => Talks(c, s, u, d) \/ IsTold(c, s, u, d)
           /\ c = "chat" => Talks(c, s, u, d) \/ IsTold(c, s, u, d)
           /\ c # "over" /\ s = "chat" => Talks(c, s, u, d)
BY DEF InPlace, InDialogue, Talks, Leaves, IsTold, Chatting, Quiet, Arrival, Listing, Choosing, Queueing,
       Meeting, Parting

\* The chat begins with the nickname of the other.
LEMMA GreetingRead ==
    ASSUME NEW c, NEW s, NEW u \in Seq(Words), NEW d \in Seq(Words), Joint(c, s, u, d), ~misread, CliGreeting
    PROVE  InStepInv'
<1> DEFINE kinds == {"nickname"}
<1>1. /\ cli = "greeting" /\ CliReads(NameSize, kinds) /\ UNCHANGED <<srv, isConnected, watcher>>
      /\ CliGoes("chat", <<>>)
    BY DEF CliGreeting, srvVars
<1>2. c = "greeting" /\ d # <<>>
    BY <1>1, Counting, ClientHears
<1>3. <<"nickname">> \in Seq(Words) /\ Size("nickname") = NameSize /\ Head(<<"nickname">>) = "nickname"
      /\ Tail(<<"nickname">>) = <<>> /\ <<"nickname">> # <<>> /\ u \o <<>> = u /\ <<>> \in Seq(Words)
    BY Short, WordSizes, ConcatEmptySeq DEF Words
<1>4. /\ s \notin {"joining", "wait", "paired", "announced", "counted", "named", "sized", "listed"}
      /\ s \in {"chat", "over", "after"} /\ (s # "chat" => u = <<>>)
    BY <1>2, ChatPlaces DEF Joint, Talks, IsTold
<1>5. \A r : Agrees("chat", s, u, r)'
    BY <1>1, <1>2, <1>4 DEF CliGreeting, srvVars, CliGoes, Joint, InPlace, Agrees,
       RoomsAgree, WatcherAgrees, MustWatch, StopperAgrees, EndingAgrees
<1>6. ASSUME NEW r \in Seq(Words), d = <<"nickname">> \o r, InDialogue("chat", s, u, r)' PROVE InStepInv'
  <2>1. Head(d) = "nickname" /\ Tail(d) = r
      BY <1>3, <1>6, Joined
  <2>2. Got(down, NameSize) = "nickname" /\ down' = Chunks(r) /\ ~misread'
      BY <1>1, <1>2, <1>3, <2>1, Counting, ClientReads
  <2>3. InPlace("chat", s, u, r)'
      BY <1>5, <1>6 DEF InPlace
  <2> QED BY <1>1, <1>3, <2>2, <2>3, ClientGoes
<1>7. CASE Talks(c, s, u, d)
  <2>1. PICK q \in Chatter : d = <<"nickname">> \o q
      BY <1>2, <1>7 DEF Talks, Greeting
  <2>2. q \in Seq(Words) /\ <<>> \o q = q
      BY Chattered, Joined, Short
  <2>3. Talks("chat", s, u, q)'
      BY <1>7, <2>2 DEF Talks, Greeting, Chatting
  <2> QED BY <1>6, <2>1, <2>2, <2>3 DEF InDialogue
<1>8. CASE IsTold(c, s, u, d)
  <2>1. PICK q \in Chatter, kind \in Endings :
           d = <<"nickname">> \o (q \o Farewell(kind, s)) /\ (chatTimedout <=> kind = "timec")
      BY <1>2, <1>8 DEF IsTold, Greeting
  <2> DEFINE r == q \o Farewell(kind, s)
  <2>2. Farewell(kind, s) \in Seq(Words)
      BY Short DEF Farewell, Endings, Words
  <2>3. r \in Seq(Words) /\ <<>> \o r = r
      BY <2>2, Chattered, Joined, Short
  <2>4. chatTimedout' = chatTimedout
      BY DEF CliGreeting, srvVars
  <2>5. IsTold("chat", s, u, r)'
      BY <1>8, <2>1, <2>3, <2>4 DEF IsTold, Greeting, Chatting
  <2> QED BY <1>6, <2>1, <2>3, <2>5 DEF InDialogue
<1> QED BY <1>2, <1>7, <1>8, ChatPlaces DEF Joint

\* A message of the chat, or its end.
LEMMA MessageHeard ==
    ASSUME NEW c, NEW s, NEW u \in Seq(Words), NEW d \in Seq(Words), Joint(c, s, u, d), ~misread, Hear
    PROVE  InStepInv'
<1>1. /\ cli = "chat" /\ CliReads(MessageSize, Messages) /\ UNCHANGED <<srv, isConnected, watcher, chatTimedout>>
      /\ CliGoes(IF Got(down, MessageSize) \in {"stop", "timec", "idlec"} THEN "over" ELSE "chat", <<>>)
      /\ requeued' = (Got(down, MessageSize) = "timec")
    BY DEF Hear, CliMessage, srvVars
<1>2. c = "chat" /\ d # <<>>
    BY <1>1, Counting, ClientHears
<1>3. /\ s \notin {"joining", "wait", "paired", "announced", "counted", "named", "sized", "listed"}
      /\ s \in {"chat", "over", "after"} /\ (s # "chat" => u = <<>>)
      /\ u \o <<>> = u /\ <<>> \in Seq(Words)
    BY <1>2, ChatPlaces, ConcatEmptySeq, EmptySeq DEF Joint, Talks, IsTold
<1>4. ASSUME Head(d) = "said", InDialogue("chat", s, u, Tail(d))' PROVE InStepInv'
  <2>1. Got(down, MessageSize) = "said" /\ down' = Chunks(Tail(d)) /\ ~misread'
    <3>1. Size("said") = MessageSize /\ "said" \in Messages
        BY WordSizes DEF Messages
    <3> QED BY <1>1, <1>2, <1>4, <3>1, Counting, ClientReads
  <2>2. CliGoes("chat", <<>>) /\ ~requeued'
      BY <1>1, <2>1
  <2>3. Agrees("chat", s, u, Tail(d))'
      BY <1>1, <1>2, <1>3, <2>2 DEF Hear, srvVars, CliGoes, Joint, InPlace, Agrees,
       RoomsAgree, WatcherAgrees, MustWatch, StopperAgrees, EndingAgrees
  <2>4. InPlace("chat", s, u, Tail(d))' /\ Tail(d) \in Seq(Words)
      BY <1>2, <1>4, <2>3, HeadTailProperties DEF InPlace
  <2> QED BY <1>1, <1>3, <2>1, <2>2, <2>4, ClientGoes
<1>5. CASE Talks(c, s, u, d)
  <2>1. PICK q \in Chatter : d = <<>> \o q
      BY <1>2, <1>5 DEF Talks, Greeting
  <2>2. d = q /\ Tail(d) \in Chatter /\ Head(d) = "said"
      BY <1>2, <2>1, Chattered, Joined, Short
  <2>3. <<>> \o Tail(d) = Tail(d)
      BY <2>2, Chattered, Joined, Short
  <2>4. Talks("chat", s, u, Tail(d))'
      BY <1>5, <2>2, <2>3 DEF Talks, Greeting, Chatting
  <2> QED BY <1>4, <2>2, <2>4 DEF InDialogue
<1>6. CASE IsTold(c, s, u, d)
  <2>1. PICK q \in Chatter, kind \in Endings :
           d = <<>> \o (q \o Farewell(kind, s)) /\ (chatTimedout <=> kind = "timec")
      BY <1>2, <1>6 DEF IsTold, Greeting
  <2>2. Farewell(kind, s) \in Seq(Words) /\ q \in Seq(Words)
      BY Short, Chattered DEF Farewell, Endings, Words
  <2>3. d = q \o Farewell(kind, s)
      BY <2>1, <2>2, Joined, Short
  <2>4. CASE q # <<>>
    <3>1. Head(d) = "said" /\ Tail(d) = Tail(q) \o Farewell(kind, s) /\ Tail(q) \in Chatter
        BY <2>2, <2>3, <2>4, Joined, Chattered
    <3>2. <<>> \o Tail(d) = Tail(d)
        BY <2>2, <3>1, Chattered, Joined
    <3>3. IsTold("chat", s, u, Tail(d))'
        BY <1>1, <1>6, <2>1, <3>1, <3>2 DEF IsTold, Greeting, Chatting
    <3> QED BY <1>4, <3>1, <3>3 DEF InDialogue
  <2>5. CASE q = <<>>
    <3> DEFINE e == IF s = "after" THEN <<"ok">> ELSE <<>>
    <3>1. Head(d) = kind /\ Tail(d) = e /\ e \in Seq(Words)
        BY <2>2, <2>3, <2>5, Joined, Short DEF Farewell, Words
    <3>2. Got(down, MessageSize) = kind /\ down' = Chunks(e) /\ ~misread'
      <4>1. Size(kind) = MessageSize /\ kind \in Messages
          BY WordSizes DEF Messages, Endings
      <4> HIDE DEF e
      <4> QED BY <1>1, <1>2, <3>1, <4>1, Counting, ClientReads
    <3>3. CliGoes("over", <<>>) /\ (requeued' <=> chatTimedout)
        BY <1>1, <2>1, <3>2 DEF Endings
    <3>4. s \in {"over", "after"} /\ u = <<>>
        BY <1>6 DEF IsTold
    <3>5. <<"over", s, u, e>> \in Quiet
        BY <3>4 DEF Quiet, Parting
    <3>6. Agrees("over", s, u, e)'
        BY <1>1, <1>2, <3>3, <3>4 DEF Hear, srvVars, CliGoes, Joint, InPlace, Agrees,
           RoomsAgree, WatcherAgrees, MustWatch, StopperAgrees, EndingAgrees
    <3>7. InPlace("over", s, u, e)'
        BY <3>5, <3>6 DEF InPlace, InDialogue
    <3> HIDE DEF e
    <3> QED BY <1>1, <1>3, <3>1, <3>2, <3>3, <3>7, ClientGoes
  <2> QED BY <2>4, <2>5
<1> QED BY <1>2, <1>5, <1>6, ChatPlaces DEF Joint

\* A message that does not cross the end of the chat.
LEMMA MessageSaid ==
    ASSUME NEW c, NEW s, NEW u \in Seq(Words), NEW d \in Seq(Words), Joint(c, s, u, d), ~misread, Say, ~crossed'
    PROVE  InStepInv'
<1>1. /\ cli = "chat" /\ srv = "chat" /\ UNCHANGED <<srv, isConnected, watcher, down>> /\ ~misread'
      /\ CliGoes("chat", <<"said">>)
    BY DEF Say, Listens, srvVars
<1>2. c = "chat" /\ s = "chat" /\ down' = Chunks(d) /\ Talks(c, s, u, d)
    BY <1>1, ChatPlaces DEF Joint
<1>3. u \in Chatter /\ u \o <<"said">> \in Chatter
    BY <1>2, Chattered DEF Talks
<1>4. Talks("chat", s, u \o <<"said">>, d)'
    BY <1>2, <1>3 DEF Talks
<1>5. Agrees("chat", s, u \o <<"said">>, d)'
    BY <1>1, <1>2 DEF Say, srvVars, CliGoes, Joint, InPlace, Agrees,
       RoomsAgree, WatcherAgrees, MustWatch, StopperAgrees, EndingAgrees
<1>6. InPlace("chat", s, u \o <<"said">>, d)'
    BY <1>4, <1>5 DEF InPlace, InDialogue
<1>7. <<"said">> \in Seq(Words) /\ u \o <<"said">> \in Seq(Words)
    BY <1>3, Short, Chattered DEF Words
<1> QED BY <1>1, <1>2, <1>6, <1>7, ClientGoes

\* A /STOP that crosses nothing.
LEMMA ChatStopped ==
    ASSUME NEW c, NEW s, NEW u \in Seq(Words), NEW d \in Seq(Words), Joint(c, s, u, d), ~misread, TypeStop, ~crossed'
    PROVE  InStepInv'
<1> DEFINE v == u \o <<"stop">>
<1>1. /\ cli = "chat" /\ srv = "chat" /\ UNCHANGED <<srv, isConnected, watcher>> /\ down' = <<>>
      /\ CliGoes("over", <<"stop">>)
    BY DEF TypeStop, Listens, srvVars
<1>2. c = "chat" /\ s = "chat" /\ Talks(c, s, u, d)
    BY <1>1, ChatPlaces DEF Joint
<1>3. ~misread' /\ ~requeued'
  <2>1. CASE CliMessage
    <3>1. d # <<>>
        BY <1>1, <2>1, Counting, ClientHears DEF CliMessage
    <3>2. PICK q \in Chatter : d = <<>> \o q
        BY <1>2 DEF Talks, Greeting
    <3>3. Head(d) = "said"
        BY <3>1, <3>2, Chattered, Joined, Short
    <3>4. Size("said") = MessageSize /\ "said" \in Messages
        BY WordSizes DEF Messages
    <3>5. Got(down, MessageSize) = "said" /\ ~misread'
        BY <1>1, <2>1, <3>1, <3>3, <3>4, Counting, ClientReads DEF CliMessage
    <3> QED BY <2>1, <3>5 DEF CliMessage
  <2>2. CASE UNCHANGED <<down, misread, requeued>>
      BY <1>2, <2>2 DEF Joint, InPlace, Agrees, EndingAgrees
  <2> QED BY <2>1, <2>2 DEF TypeStop
<1>4. v \in Seq(Words) /\ <<"stop">> \in Seq(Words) /\ Chunks(<<>>) = <<>> /\ u \in Chatter /\ <<>> \in Seq(Words)
    BY <1>2, Short, ConcatProperties, Counting, NothingRead DEF Words, Talks
<1>5. Leaves("over", s, v, <<>>)'
    BY <1>2, <1>4 DEF Leaves
<1>6. Agrees("over", s, v, <<>>)'
    BY <1>1, <1>2, <1>3 DEF TypeStop, srvVars, CliGoes, Joint, InPlace, Agrees,
       RoomsAgree, WatcherAgrees, MustWatch, StopperAgrees, EndingAgrees
<1>7. InPlace("over", s, v, <<>>)'
    BY <1>5, <1>6 DEF InPlace, InDialogue
<1> HIDE DEF v
<1> QED BY <1>1, <1>3, <1>4, <1>7, ClientGoes DEF v

-----------------------------------------------------------------------------
\* A read of the server is answered by what the client has written for it.
LEMMA ServerHears ==
    ASSUME NEW c, NEW s, NEW u \in Seq(Words), NEW d \in Seq(Words), Joint(c, s, u, d), srv # "closed",
           NEW count \in Counts, NEW kinds, HandlerReads(count, kinds)
    PROVE  s = srv /\ u # <<>>
BY Counting, NothingRead DEF HandlerReads, Joint

\* The client has read the welcome, and may have chosen already.
LEMMA WelcomeRead ==
    ASSUME NEW c, NEW s, NEW u \in Seq(Words), NEW d \in Seq(Words), Joint(c, s, u, d), ~misread, SrvWelcome
    PROVE  InStepInv'
<1> DEFINE kinds == {"ok"}
<1>1. srv = "welcome" /\ HandlerReads(2, kinds) /\ UNCHANGED <<cli, isConnected>>
    BY DEF SrvWelcome, HandlerTurn, Keep, cliVars
<1>2. s = "welcome" /\ u # <<>>
    BY <1>1, Counting, ServerHears
<1>3. <<c, u, d>> \in {<<"menu", <<"ok">>, <<>>>>,
                     <<"list", <<"ok", "one">>, <<>>>>,
                     <<"quit", <<"ok", "two">>, <<>>>>}
    BY <1>2, Places DEF Joint, Quiet, Arrival, Listing, Choosing, Queueing, Meeting, Parting
<1>4. CASE <<c, u, d>> = <<"menu", <<"ok">>, <<>>>>
  <2>1. c = "menu" /\ u = <<"ok">> /\ d = <<>> /\ Head(u) = "ok" /\ Tail(u) = <<>>
      BY <1>4, Short
  <2>2. {<<>>} \subseteq Seq(Words) /\ d \o <<>> = <<>> /\ Size("ok") = 2 /\ "ok" \in kinds
      BY <2>1, Short, WordSizes DEF Words
  <2>3. Got(up, 2) = "ok" /\ up' = Chunks(<<>>) /\ ~misread'
    <3> HIDE DEF kinds
    <3> QED BY <1>1, <1>2, <2>1, <2>2, Counting, ServerReads
  <2>4. srv' = "operation" /\ Sends(<<>>)
      BY <1>1, <1>2, <2>1, <2>3 DEF SrvWelcome, HandlerTurn, HandlerGoes
  <2>5. InPlace(c, "operation", <<>>, <<>>)'
      BY <1>1, <1>2, <2>1, <2>3, <2>4 DEF SrvWelcome, HandlerTurn, Keep, cliVars, Joint, InPlace, InDialogue,
         Quiet, Arrival, Agrees, RoomsAgree, WatcherAgrees, MustWatch, StopperAgrees, EndingAgrees
  <2> QED BY <1>1, <2>2, <2>3, <2>4, <2>5, ServerGoes
<1>5. CASE <<c, u, d>> = <<"list", <<"ok", "one">>, <<>>>>
  <2>1. c = "list" /\ u = <<"ok", "one">> /\ d = <<>> /\ Head(u) = "ok" /\ Tail(u) = <<"one">>
      BY <1>5, Short
  <2>2. {<<"one">>, <<>>} \subseteq Seq(Words) /\ d \o <<>> = <<>> /\ Size("ok") = 2 /\ "ok" \in kinds
      BY <2>1, Short, WordSizes DEF Words
  <2>3. Got(up, 2) = "ok" /\ up' = Chunks(<<"one">>) /\ ~misread'
    <3> HIDE DEF kinds
    <3> QED BY <1>1, <1>2, <2>1, <2>2, Counting, ServerReads
  <2>4. srv' = "operation" /\ Sends(<<>>)
      BY <1>1, <1>2, <2>1, <2>3 DEF SrvWelcome, HandlerTurn, HandlerGoes
  <2>5. InPlace(c, "operation", <<"one">>, <<>>)'
      BY <1>1, <1>2, <2>1, <2>3, <2>4 DEF SrvWelcome, HandlerTurn, Keep, cliVars, Joint, InPlace, InDialogue,
         Quiet, Arrival, Agrees, RoomsAgree, WatcherAgrees, MustWatch, StopperAgrees, EndingAgrees
  <2> QED BY <1>1, <2>2, <2>3, <2>4, <2>5, ServerGoes
<1>6. CASE <<c, u, d>> = <<"quit", <<"ok", "two">>, <<>>>>
  <2>1. c = "quit" /\ u = <<"ok", "two">> /\ d = <<>> /\ Head(u) = "ok" /\ Tail(u) = <<"two">>
      BY <1>6, Short
  <2>2. {<<"two">>, <<>>} \subseteq Seq(Words) /\ d \o <<>> = <<>> /\ Size("ok") = 2 /\ "ok" \in kinds
      BY <2>1, Short, WordSizes DEF Words
  <2>3. Got(up, 2) = "ok" /\ up' = Chunks(<<"two">>) /\ ~misread'
    <3> HIDE DEF kinds
    <3> QED BY <1>1, <1>2, <2>1, <2>2, Counting, ServerReads
  <2>4. srv' = "operation" /\ Sends(<<>>)
      BY <1>1, <1>2, <2>1, <2>3 DEF SrvWelcome, HandlerTurn, HandlerGoes
  <2>5. InPlace(c, "operation", <<"two">>, <<>>)'
      BY <1>1, <1>2, <2>1, <2>3, <2>4 DEF SrvWelcome, HandlerTurn, Keep, cliVars, Joint, InPlace, InDialogue,
         Quiet, Arrival, Agrees, RoomsAgree, WatcherAgrees, MustWatch, StopperAgrees, EndingAgrees
  <2> QED BY <1>1, <2>2, <2>3, <2>4, <2>5, ServerGoes
<1> QED BY <1>3, <1>4, <1>5, <1>6

\* The list of the rooms, or the end.
LEMMA OperationRead ==
    ASSUME NEW c, NEW s, NEW u \in Seq(Words), NEW d \in Seq(Words), Joint(c, s, u, d), ~misread, SrvOperation
    PROVE  InStepInv'
<1> DEFINE kinds == {"one", "two"}
<1>1. srv = "operation" /\ HandlerReads(1, kinds) /\ UNCHANGED <<cli, isConnected>>
    BY DEF SrvOperation, HandlerInput, Keep, cliVars
<1>2. s = "operation" /\ u # <<>>
    BY <1>1, Counting, ServerHears
<1>3. <<c, u, d>> \in {<<"list", <<"one">>, <<>>>>,
                     <<"quit", <<"two">>, <<>>>>}
    BY <1>2, Places DEF Joint, Quiet, Arrival, Listing, Choosing, Queueing, Meeting, Parting
<1>4. CASE <<c, u, d>> = <<"list", <<"one">>, <<>>>>
  <2>1. c = "list" /\ u = <<"one">> /\ d = <<>> /\ Head(u) = "one" /\ Tail(u) = <<>>
      BY <1>4, Short
  <2>2. {<<"ok">>, <<>>} \subseteq Seq(Words) /\ d \o <<"ok">> = <<"ok">> /\ Size("one") = 1 /\ "one" \in kinds
      BY <2>1, Short, WordSizes DEF Words
  <2>3. Got(up, 1) = "one" /\ up' = Chunks(<<>>) /\ ~misread'
    <3> HIDE DEF kinds
    <3> QED BY <1>1, <1>2, <2>1, <2>2, Counting, ServerReads
  <2>4. srv' = "view" /\ Sends(<<"ok">>)
      BY <1>1, <1>2, <2>1, <2>3 DEF SrvOperation, HandlerInput, HandlerGoes
  <2>5. InPlace(c, "view", <<>>, <<"ok">>)'
      BY <1>1, <1>2, <2>1, <2>3, <2>4 DEF SrvOperation, HandlerInput, Keep, cliVars, Joint, InPlace, InDialogue,
         Quiet, Listing, Agrees, RoomsAgree, WatcherAgrees, MustWatch, StopperAgrees, EndingAgrees
  <2> QED BY <1>1, <2>2, <2>3, <2>4, <2>5, ServerGoes
<1>5. CASE <<c, u, d>> = <<"quit", <<"two">>, <<>>>>
  <2>1. c = "quit" /\ u = <<"two">> /\ d = <<>> /\ Head(u) = "two" /\ Tail(u) = <<>>
      BY <1>5, Short
  <2>2. {<<"ok">>, <<>>} \subseteq Seq(Words) /\ d \o <<"ok">> = <<"ok">> /\ Size("two") = 1 /\ "two" \in kinds
      BY <2>1, Short, WordSizes DEF Words
  <2>3. Got(up, 1) = "two" /\ up' = Chunks(<<>>) /\ ~misread'
    <3> HIDE DEF kinds
    <3> QED BY <1>1, <1>2, <2>1, <2>2, Counting, ServerReads
  <2>4. srv' = "leave" /\ Sends(<<"ok">>)
      BY <1>1, <1>2, <2>1, <2>3 DEF SrvOperation, HandlerInput, HandlerGoes
  <2>5. InPlace(c, "leave", <<>>, <<"ok">>)'
      BY <1>1, <1>2, <2>1, <2>3, <2>4 DEF SrvOperation, HandlerInput, Keep, cliVars, Joint, InPlace, InDialogue,
         Quiet, Arrival, Agrees, RoomsAgree, WatcherAgrees, MustWatch, StopperAgrees, EndingAgrees
  <2> QED BY <1>1, <2>2, <2>3, <2>4, <2>5, ServerGoes
<1> QED BY <1>3, <1>4, <1>5

\* How many rooms there are.
LEMMA ViewRead ==
    ASSUME NEW c, NEW s, NEW u \in Seq(Words), NEW d \in Seq(Words), Joint(c, s, u, d), ~misread, SrvView
    PROVE  InStepInv'
<1> DEFINE kinds == {"ok"}
<1>1. srv = "view" /\ HandlerReads(2, kinds) /\ UNCHANGED <<cli, isConnected>>
    BY DEF SrvView, HandlerTurn, Keep, cliVars
<1>2. s = "view" /\ u # <<>>
    BY <1>1, Counting, ServerHears
<1>3. <<c, u, d>> = <<"count", <<"ok">>, <<>>>>
    BY <1>2, Places DEF Joint, Quiet, Arrival, Listing, Choosing, Queueing, Meeting, Parting
<1>4. c = "count" /\ u = <<"ok">> /\ d = <<>> /\ Head(u) = "ok" /\ Tail(u) = <<>>
    BY <1>3, Short
<1>5. {<<"count">>, <<>>} \subseteq Seq(Words) /\ d \o <<"count">> = <<"count">> /\ Size("ok") = 2 /\ "ok" \in kinds
    BY <1>4, Short, WordSizes DEF Words
<1>6. Got(up, 2) = "ok" /\ up' = Chunks(<<>>) /\ ~misread'
  <2> HIDE DEF kinds
  <2> QED BY <1>1, <1>2, <1>4, <1>5, Counting, ServerReads
<1>7. srv' = "counted" /\ Sends(<<"count">>)
    BY <1>1, <1>2, <1>4, <1>6 DEF SrvView, HandlerTurn, HandlerGoes
<1>8. InPlace(c, "counted", <<>>, <<"count">>)'
    BY <1>1, <1>2, <1>4, <1>6, <1>7 DEF SrvView, HandlerTurn, Keep, cliVars, Joint, InPlace, InDialogue, Quiet,
       Listing, Agrees, RoomsAgree, WatcherAgrees, MustWatch, StopperAgrees, EndingAgrees
<1> QED BY <1>1, <1>5, <1>6, <1>7, <1>8, ServerGoes

\* The server starts to count where the client does.
LEMMA CountedRead ==
    ASSUME NEW c, NEW s, NEW u \in Seq(Words), NEW d \in Seq(Words), Joint(c, s, u, d), ~misread, SrvCounted
    PROVE  InStepInv'
<1> DEFINE kinds == {"ok"}
<1>1. srv = "counted" /\ HandlerReads(2, kinds) /\ UNCHANGED <<cli, isConnected>>
    BY DEF SrvCounted, HandlerTurn, cliVars
<1>2. s = "counted" /\ u # <<>>
    BY <1>1, Counting, ServerHears
<1>3. <<c, u, d>> = <<"name", <<"ok">>, <<>>>>
    BY <1>2, Places DEF Joint, Quiet, Arrival, Listing, Choosing, Queueing, Meeting, Parting
<1>4. c = "name" /\ u = <<"ok">> /\ d = <<>> /\ Head(u) = "ok" /\ Tail(u) = <<>>
    BY <1>3, Short
<1>5. {<<"name">>, <<>>} \subseteq Seq(Words) /\ d \o <<"name">> = <<"name">> /\ Size("ok") = 2 /\ "ok" \in kinds
    BY <1>4, Short, WordSizes DEF Words
<1>6. Got(up, 2) = "ok" /\ up' = Chunks(<<>>) /\ ~misread'
  <2> HIDE DEF kinds
  <2> QED BY <1>1, <1>2, <1>4, <1>5, Counting, ServerReads
<1>7. srv' = "named" /\ Sends(<<"name">>)
    BY <1>1, <1>2, <1>4, <1>6, CountsArePositive DEF SrvCounted, HandlerTurn, HandlerGoes
<1>8. InPlace(c, "named", <<>>, <<"name">>)'
    BY <1>1, <1>2, <1>4, <1>6, <1>7, CountsArePositive DEF SrvCounted, HandlerTurn, cliVars, Joint, InPlace,
       InDialogue, Quiet, Listing, Agrees, RoomsAgree, WatcherAgrees, MustWatch, StopperAgrees, EndingAgrees
<1> QED BY <1>1, <1>5, <1>6, <1>7, <1>8, ServerGoes

\* The size of the room.
LEMMA NamedRead ==
    ASSUME NEW c, NEW s, NEW u \in Seq(Words), NEW d \in Seq(Words), Joint(c, s, u, d), ~misread, SrvNamed
    PROVE  InStepInv'
<1> DEFINE kinds == {"ok"}
<1>1. srv = "named" /\ HandlerReads(2, kinds) /\ UNCHANGED <<cli, isConnected>>
    BY DEF SrvNamed, HandlerTurn, Keep, cliVars
<1>2. s = "named" /\ u # <<>>
    BY <1>1, Counting, ServerHears
<1>3. <<c, u, d>> = <<"max", <<"ok">>, <<>>>>
    BY <1>2, Places DEF Joint, Quiet, Arrival, Listing, Choosing, Queueing, Meeting, Parting
<1>4. c = "max" /\ u = <<"ok">> /\ d = <<>> /\ Head(u) = "ok" /\ Tail(u) = <<>>
    BY <1>3, Short
<1>5. {<<"number">>, <<>>} \subseteq Seq(Words) /\ d \o <<"number">> = <<"number">> /\ Size("ok") = 2 /\ "ok" \in kinds
    BY <1>4, Short, WordSizes DEF Words
<1>6. Got(up, 2) = "ok" /\ up' = Chunks(<<>>) /\ ~misread'
  <2> HIDE DEF kinds
  <2> QED BY <1>1, <1>2, <1>4, <1>5, Counting, ServerReads
<1>7. srv' = "sized" /\ Sends(<<"number">>)
    BY <1>1, <1>2, <1>4, <1>6 DEF SrvNamed, HandlerTurn, HandlerGoes
<1>8. InPlace(c, "sized", <<>>, <<"number">>)'
    BY <1>1, <1>2, <1>4, <1>6, <1>7 DEF SrvNamed, HandlerTurn, Keep, cliVars, Joint, InPlace, InDialogue, Quiet,
       Listing, Agrees, RoomsAgree, WatcherAgrees, MustWatch, StopperAgrees, EndingAgrees
<1> QED BY <1>1, <1>5, <1>6, <1>7, <1>8, ServerGoes

\* The clients of the room.
LEMMA SizedRead ==
    ASSUME NEW c, NEW s, NEW u \in Seq(Words), NEW d \in Seq(Words), Joint(c, s, u, d), ~misread, SrvSized
    PROVE  InStepInv'
<1> DEFINE kinds == {"ok"}
<1>1. srv = "sized" /\ HandlerReads(2, kinds) /\ UNCHANGED <<cli, isConnected>>
    BY DEF SrvSized, HandlerTurn, Keep, cliVars
<1>2. s = "sized" /\ u # <<>>
    BY <1>1, Counting, ServerHears
<1>3. <<c, u, d>> = <<"clients", <<"ok">>, <<>>>>
    BY <1>2, Places DEF Joint, Quiet, Arrival, Listing, Choosing, Queueing, Meeting, Parting
<1>4. c = "clients" /\ u = <<"ok">> /\ d = <<>> /\ Head(u) = "ok" /\ Tail(u) = <<>>
    BY <1>3, Short
<1>5. {<<"number">>, <<>>} \subseteq Seq(Words) /\ d \o <<"number">> = <<"number">> /\ Size("ok") = 2 /\ "ok" \in kinds
    BY <1>4, Short, WordSizes DEF Words
<1>6. Got(up, 2) = "ok" /\ up' = Chunks(<<>>) /\ ~misread'
  <2> HIDE DEF kinds
  <2> QED BY <1>1, <1>2, <1>4, <1>5, Counting, ServerReads
<1>7. srv' = "listed" /\ Sends(<<"number">>)
    BY <1>1, <1>2, <1>4, <1>6 DEF SrvSized, HandlerTurn, HandlerGoes
<1>8. InPlace(c, "listed", <<>>, <<"number">>)'
    BY <1>1, <1>2, <1>4, <1>6, <1>7 DEF SrvSized, HandlerTurn, Keep, cliVars, Joint, InPlace, InDialogue, Quiet,
       Listing, Agrees, RoomsAgree, WatcherAgrees, MustWatch, StopperAgrees, EndingAgrees
<1> QED BY <1>1, <1>5, <1>6, <1>7, <1>8, ServerGoes

\* One room less is to be sent.
LEMMA ListedRead ==
    ASSUME NEW c, NEW s, NEW u \in Seq(Words), NEW d \in Seq(Words), Joint(c, s, u, d), ~misread, SrvListed
    PROVE  InStepInv'
<1> DEFINE kinds == {"ok"}
<1>1. srv = "listed" /\ HandlerReads(2, kinds) /\ UNCHANGED <<cli, isConnected>>
    BY DEF SrvListed, HandlerTurn, cliVars
<1>2. s = "listed" /\ u # <<>>
    BY <1>1, Counting, ServerHears
<1>3. <<c, u, d>> \in {<<"name", <<"ok">>, <<>>>>,
                     <<"listed", <<"ok">>, <<>>>>}
    BY <1>2, Places DEF Joint, Quiet, Arrival, Listing, Choosing, Queueing, Meeting, Parting
<1>4. CASE <<c, u, d>> = <<"name", <<"ok">>, <<>>>>
  <2>1. c = "name" /\ u = <<"ok">> /\ d = <<>> /\ Head(u) = "ok" /\ Tail(u) = <<>>
      BY <1>4, Short
  <2>2. {<<"name">>, <<>>} \subseteq Seq(Words) /\ d \o <<"name">> = <<"name">> /\ Size("ok") = 2 /\ "ok" \in kinds
      BY <2>1, Short, WordSizes DEF Words
  <2>3. Got(up, 2) = "ok" /\ up' = Chunks(<<>>) /\ ~misread'
    <3> HIDE DEF kinds
    <3> QED BY <1>1, <1>2, <2>1, <2>2, Counting, ServerReads
  <2>4. srv' = "named" /\ Sends(<<"name">>)
      BY <1>1, <1>2, <2>1, <2>3 DEF SrvListed, HandlerTurn, HandlerGoes, Joint, InPlace, Agrees, RoomsAgree
  <2>5. InPlace(c, "named", <<>>, <<"name">>)'
      BY <1>1, <1>2, <2>1, <2>3, <2>4 DEF SrvListed, HandlerTurn, cliVars, Joint, InPlace, InDialogue, Quiet,
         Listing, Agrees, RoomsAgree, WatcherAgrees, MustWatch, StopperAgrees, EndingAgrees
  <2> QED BY <1>1, <2>2, <2>3, <2>4, <2>5, ServerGoes
<1>5. CASE <<c, u, d>> = <<"listed", <<"ok">>, <<>>>>
  <2>1. c = "listed" /\ u = <<"ok">> /\ d = <<>> /\ Head(u) = "ok" /\ Tail(u) = <<>>
      BY <1>5, Short
  <2>2. {<<"ok">>, <<>>} \subseteq Seq(Words) /\ d \o <<"ok">> = <<"ok">> /\ Size("ok") = 2 /\ "ok" \in kinds
      BY <2>1, Short, WordSizes DEF Words
  <2>3. Got(up, 2) = "ok" /\ up' = Chunks(<<>>) /\ ~misread'
    <3> HIDE DEF kinds
    <3> QED BY <1>1, <1>2, <2>1, <2>2, Counting, ServerReads
  <2>4. srv' = "choice" /\ Sends(<<"ok">>)
      BY <1>1, <1>2, <2>1, <2>3 DEF SrvListed, HandlerTurn, HandlerGoes, Joint, InPlace, Agrees, RoomsAgree
  <2>5. InPlace(c, "choice", <<>>, <<"ok">>)'
      BY <1>1, <1>2, <2>1, <2>3, <2>4 DEF SrvListed, HandlerTurn, cliVars, Joint, InPlace, InDialogue, Quiet,
         Choosing, Agrees, RoomsAgree, WatcherAgrees, MustWatch, StopperAgrees, EndingAgrees
  <2> QED BY <1>1, <2>2, <2>3, <2>4, <2>5, ServerGoes
<1> QED BY <1>3, <1>4, <1>5

\* The room that is chosen.
LEMMA ChoiceRead ==
    ASSUME NEW c, NEW s, NEW u \in Seq(Words), NEW d \in Seq(Words), Joint(c, s, u, d), ~misread, SrvChoice
    PROVE  InStepInv'
<1> DEFINE kinds == {"room"}
<1>1. srv = "choice" /\ HandlerReads(1, kinds) /\ UNCHANGED <<cli, isConnected>>
    BY DEF SrvChoice, HandlerInput, Keep, cliVars
<1>2. s = "choice" /\ u # <<>>
    BY <1>1, Counting, ServerHears
<1>3. <<c, u, d>> = <<"room", <<"room">>, <<>>>>
    BY <1>2, Places DEF Joint, Quiet, Arrival, Listing, Choosing, Queueing, Meeting, Parting
<1>4. c = "room" /\ u = <<"room">> /\ d = <<>> /\ Head(u) = "room" /\ Tail(u) = <<>>
    BY <1>3, Short
<1>5. {<<"ok">>, <<>>} \subseteq Seq(Words) /\ d \o <<"ok">> = <<"ok">> /\ Size("room") = 1 /\ "room" \in kinds
    BY <1>4, Short, WordSizes DEF Words
<1>6. Got(up, 1) = "room" /\ up' = Chunks(<<>>) /\ ~misread'
  <2> HIDE DEF kinds
  <2> QED BY <1>1, <1>2, <1>4, <1>5, Counting, ServerReads
<1>7. srv' = "chosen" /\ Sends(<<"ok">>)
    BY <1>1, <1>2, <1>4, <1>6 DEF SrvChoice, HandlerInput, HandlerGoes
<1>8. InPlace(c, "chosen", <<>>, <<"ok">>)'
    BY <1>1, <1>2, <1>4, <1>6, <1>7 DEF SrvChoice, HandlerInput, Keep, cliVars, Joint, InPlace, InDialogue,
       Quiet, Choosing, Agrees, RoomsAgree, WatcherAgrees, MustWatch, StopperAgrees, EndingAgrees
<1> QED BY <1>1, <1>5, <1>6, <1>7, <1>8, ServerGoes

\* The watcher starts.
LEMMA FeedbackRead ==
    ASSUME NEW c, NEW s, NEW u \in Seq(Words), NEW d \in Seq(Words), Joint(c, s, u, d), ~misread, SrvFeedback
    PROVE  InStepInv'
<1> DEFINE kinds == {"ok"}
<1>1. srv = "feedback" /\ HandlerReads(2, kinds) /\ UNCHANGED <<cli, isConnected>>
    BY DEF SrvFeedback, HandlerTurn, cliVars
<1>2. s = "feedback" /\ u # <<>>
    BY <1>1, Counting, ServerHears
<1>3. <<c, u, d>> \in {<<"wait", <<"ok">>, <<>>>>,
                     <<"wait", <<"ok", "stopped">>, <<>>>>}
    BY <1>2, Places DEF Joint, Quiet, Arrival, Listing, Choosing, Queueing, Meeting, Parting
<1>4. CASE <<c, u, d>> = <<"wait", <<"ok">>, <<>>>>
  <2>1. c = "wait" /\ u = <<"ok">> /\ d = <<>> /\ Head(u) = "ok" /\ Tail(u) = <<>>
      BY <1>4, Short
  <2>2. {<<>>} \subseteq Seq(Words) /\ d \o <<>> = <<>> /\ Size("ok") = 2 /\ "ok" \in kinds
      BY <2>1, Short, WordSizes DEF Words
  <2>3. Got(up, 2) = "ok" /\ up' = Chunks(<<>>) /\ ~misread'
    <3> HIDE DEF kinds
    <3> QED BY <1>1, <1>2, <2>1, <2>2, Counting, ServerReads
  <2>4. srv' = "wait" /\ Sends(<<>>)
      BY <1>1, <1>2, <2>1, <2>3 DEF SrvFeedback, HandlerTurn, HandlerGoes
  <2>5. InPlace(c, "wait", <<>>, <<>>)'
      BY <1>1, <1>2, <2>1, <2>3, <2>4 DEF SrvFeedback, HandlerTurn, cliVars, Joint, InPlace, InDialogue, Quiet,
         Queueing, Agrees, RoomsAgree, WatcherAgrees, MustWatch, StopperAgrees, EndingAgrees
  <2> QED BY <1>1, <2>2, <2>3, <2>4, <2>5, ServerGoes
<1>5. CASE <<c, u, d>> = <<"wait", <<"ok", "stopped">>, <<>>>>
  <2>1. c = "wait" /\ u = <<"ok", "stopped">> /\ d = <<>> /\ Head(u) = "ok" /\ Tail(u) = <<"stopped">>
      BY <1>5, Short
  <2>2. {<<"stopped">>, <<>>} \subseteq Seq(Words) /\ d \o <<>> = <<>> /\ Size("ok") = 2 /\ "ok" \in kinds
      BY <2>1, Short, WordSizes DEF Words
  <2>3. Got(up, 2) = "ok" /\ up' = Chunks(<<"stopped">>) /\ ~misread'
    <3> HIDE DEF kinds
    <3> QED BY <1>1, <1>2, <2>1, <2>2, Counting, ServerReads
  <2>4. srv' = "wait" /\ Sends(<<>>)
      BY <1>1, <1>2, <2>1, <2>3 DEF SrvFeedback, HandlerTurn, HandlerGoes
  <2>5. InPlace(c, "wait", <<"stopped">>, <<>>)'
      BY <1>1, <1>2, <2>1, <2>3, <2>4 DEF SrvFeedback, HandlerTurn, cliVars, Joint, InPlace, InDialogue, Quiet,
         Queueing, Agrees, RoomsAgree, WatcherAgrees, MustWatch, StopperAgrees, EndingAgrees
  <2> QED BY <1>1, <2>2, <2>3, <2>4, <2>5, ServerGoes
<1> QED BY <1>3, <1>4, <1>5

\* The server goes where the client goes.
LEMMA AfterRead ==
    ASSUME NEW c, NEW s, NEW u \in Seq(Words), NEW d \in Seq(Words), Joint(c, s, u, d), ~misread, SrvAfter
    PROVE  InStepInv'
<1> DEFINE kinds == {"ok"}
<1>1. srv = "after" /\ HandlerReads(2, kinds) /\ UNCHANGED <<cli, isConnected>>
    BY DEF SrvAfter, HandlerTurn, Keep, cliVars
<1>2. s = "after" /\ u # <<>>
    BY <1>1, Counting, ServerHears
<1>3. <<c, u, d>> \in {<<"wait", <<"ok", "ok">>, <<>>>>,
                     <<"menu", <<"ok">>, <<>>>>,
                     <<"list", <<"ok", "one">>, <<>>>>,
                     <<"quit", <<"ok", "two">>, <<>>>>}
  <2>1. <<c, "after", u, d>> \in Quiet
      BY <1>2 DEF Joint, InPlace, InDialogue, Talks, Leaves, IsTold
  <2> QED BY <1>2, <2>1 DEF Quiet, Arrival, Listing, Choosing, Queueing, Meeting, Parting
<1>4. CASE <<c, u, d>> = <<"wait", <<"ok", "ok">>, <<>>>>
  <2>1. c = "wait" /\ u = <<"ok", "ok">> /\ d = <<>> /\ Head(u) = "ok" /\ Tail(u) = <<"ok">>
      BY <1>4, Short
  <2>2. {<<"ok">>, <<>>} \subseteq Seq(Words) /\ d \o <<>> = <<>> /\ Size("ok") = 2 /\ "ok" \in kinds
      BY <2>1, Short, WordSizes DEF Words
  <2>3. Got(up, 2) = "ok" /\ up' = Chunks(<<"ok">>) /\ ~misread'
    <3> HIDE DEF kinds
    <3> QED BY <1>1, <1>2, <2>1, <2>2, Counting, ServerReads
  <2>4. srv' = "feedback" /\ Sends(<<>>)
      BY <1>1, <1>2, <2>1, <2>3 DEF SrvAfter, HandlerTurn, HandlerGoes, Joint, InPlace, Agrees, EndingAgrees, WatcherAgrees
  <2>5. InPlace(c, "feedback", <<"ok">>, <<>>)'
      BY <1>1, <1>2, <2>1, <2>3, <2>4 DEF SrvAfter, HandlerTurn, Keep, cliVars, Joint, InPlace, InDialogue,
         Quiet, Queueing, Agrees, RoomsAgree, WatcherAgrees, MustWatch, StopperAgrees, EndingAgrees
  <2> QED BY <1>1, <2>2, <2>3, <2>4, <2>5, ServerGoes
<1>5. CASE <<c, u, d>> = <<"menu", <<"ok">>, <<>>>>
  <2>1. c = "menu" /\ u = <<"ok">> /\ d = <<>> /\ Head(u) = "ok" /\ Tail(u) = <<>>
      BY <1>5, Short
  <2>2. {<<>>} \subseteq Seq(Words) /\ d \o <<>> = <<>> /\ Size("ok") = 2 /\ "ok" \in kinds
      BY <2>1, Short, WordSizes DEF Words
  <2>3. Got(up, 2) = "ok" /\ up' = Chunks(<<>>) /\ ~misread'
    <3> HIDE DEF kinds
    <3> QED BY <1>1, <1>2, <2>1, <2>2, Counting, ServerReads
  <2>4. srv' = "operation" /\ Sends(<<>>)
      BY <1>1, <1>2, <2>1, <2>3 DEF SrvAfter, HandlerTurn, HandlerGoes, Joint, InPlace, Agrees, EndingAgrees, WatcherAgrees
  <2>5. InPlace(c, "operation", <<>>, <<>>)'
      BY <1>1, <1>2, <2>1, <2>3, <2>4 DEF SrvAfter, HandlerTurn, Keep, cliVars, Joint, InPlace, InDialogue,
         Quiet, Arrival, Agrees, RoomsAgree, WatcherAgrees, MustWatch, StopperAgrees, EndingAgrees
  <2> QED BY <1>1, <2>2, <2>3, <2>4, <2>5, ServerGoes
<1>6. CASE <<c, u, d>> = <<"list", <<"ok", "one">>, <<>>>>
  <2>1. c = "list" /\ u = <<"ok", "one">> /\ d = <<>> /\ Head(u) = "ok" /\ Tail(u) = <<"one">>
      BY <1>6, Short
  <2>2. {<<"one">>, <<>>} \subseteq Seq(Words) /\ d \o <<>> = <<>> /\ Size("ok") = 2 /\ "ok" \in kinds
      BY <2>1, Short, WordSizes DEF Words
  <2>3. Got(up, 2) = "ok" /\ up' = Chunks(<<"one">>) /\ ~misread'
    <3> HIDE DEF kinds
    <3> QED BY <1>1, <1>2, <2>1, <2>2, Counting, ServerReads
  <2>4. srv' = "operation" /\ Sends(<<>>)
      BY <1>1, <1>2, <2>1, <2>3 DEF SrvAfter, HandlerTurn, HandlerGoes, Joint, InPlace, Agrees, EndingAgrees, WatcherAgrees
  <2>5. InPlace(c, "operation", <<"one">>, <<>>)'
      BY <1>1, <1>2, <2>1, <2>3, <2>4 DEF SrvAfter, HandlerTurn, Keep, cliVars, Joint, InPlace, InDialogue,
         Quiet, Arrival, Agrees, RoomsAgree, WatcherAgrees, MustWatch, StopperAgrees, EndingAgrees
  <2> QED BY <1>1, <2>2, <2>3, <2>4, <2>5, ServerGoes
<1>7. CASE <<c, u, d>> = <<"quit", <<"ok", "two">>, <<>>>>
  <2>1. c = "quit" /\ u = <<"ok", "two">> /\ d = <<>> /\ Head(u) = "ok" /\ Tail(u) = <<"two">>
      BY <1>7, Short
  <2>2. {<<"two">>, <<>>} \subseteq Seq(Words) /\ d \o <<>> = <<>> /\ Size("ok") = 2 /\ "ok" \in kinds
      BY <2>1, Short, WordSizes DEF Words
  <2>3. Got(up, 2) = "ok" /\ up' = Chunks(<<"two">>) /\ ~misread'
    <3> HIDE DEF kinds
    <3> QED BY <1>1, <1>2, <2>1, <2>2, Counting, ServerReads
  <2>4. srv' = "operation" /\ Sends(<<>>)
      BY <1>1, <1>2, <2>1, <2>3 DEF SrvAfter, HandlerTurn, HandlerGoes, Joint, InPlace, Agrees, EndingAgrees, WatcherAgrees
  <2>5. InPlace(c, "operation", <<"two">>, <<>>)'
      BY <1>1, <1>2, <2>1, <2>3, <2>4 DEF SrvAfter, HandlerTurn, Keep, cliVars, Joint, InPlace, InDialogue,
         Quiet, Arrival, Agrees, RoomsAgree, WatcherAgrees, MustWatch, StopperAgrees, EndingAgrees
  <2> QED BY <1>1, <2>2, <2>3, <2>4, <2>5, ServerGoes
<1> QED BY <1>3, <1>4, <1>5, <1>6, <1>7

\* The nickname is accepted or refused.
LEMMA NicknameRead ==
    ASSUME NEW c, NEW s, NEW u \in Seq(Words), NEW d \in Seq(Words), Joint(c, s, u, d), ~misread, SrvNickname
    PROVE  InStepInv'
<1> DEFINE kinds == {"nickname"}
<1>1. srv = "nickname" /\ HandlerReads(NameSize, kinds) /\ UNCHANGED <<cli, isConnected>>
    BY DEF SrvNickname, Keep, cliVars
<1>2. s = "nickname" /\ u # <<>>
    BY <1>1, Counting, ServerHears
<1>3. <<c, u, d>> = <<"nickname", <<"nickname">>, <<>>>>
    BY <1>2, Places DEF Joint, Quiet, Arrival, Listing, Choosing, Queueing, Meeting, Parting
<1>4. c = "nickname" /\ u = <<"nickname">> /\ d = <<>> /\ Head(u) = "nickname" /\ Tail(u) = <<>>
    BY <1>3, Short
<1>5. /\ {<<"ok">>, <<"exists">>, <<>>} \subseteq Seq(Words) /\ d \o <<"ok">> = <<"ok">>
      /\ d \o <<"exists">> = <<"exists">> /\ Size("nickname") = NameSize /\ "nickname" \in kinds
    BY <1>4, Short, WordSizes DEF Words
<1>6. Got(up, NameSize) = "nickname" /\ up' = Chunks(<<>>) /\ ~misread'
  <2> HIDE DEF kinds
  <2> QED BY <1>1, <1>2, <1>4, <1>5, Counting, ServerReads
<1>7. CASE HandlerGoes("welcome", <<"ok">>)
  <2>1. srv' = "welcome" /\ Sends(<<"ok">>)
      BY <1>7 DEF HandlerGoes
  <2>2. InPlace(c, "welcome", <<>>, <<"ok">>)'
      BY <1>1, <1>2, <1>4, <2>1 DEF SrvNickname, Keep, cliVars, Joint, InPlace, InDialogue, Quiet, Arrival,
         Agrees, RoomsAgree, WatcherAgrees, MustWatch, StopperAgrees, EndingAgrees
  <2> QED BY <1>1, <1>5, <1>6, <2>1, <2>2, ServerGoes
<1>8. CASE HandlerGoes("closed", <<"exists">>)
  <2>1. srv' = "closed" /\ Sends(<<"exists">>)
      BY <1>8 DEF HandlerGoes
  <2>2. InPlace(c, "refused", <<>>, <<"exists">>)'
      BY <1>1, <1>2, <1>4, <2>1 DEF SrvNickname, Keep, cliVars, Joint, InPlace, InDialogue, Quiet, Arrival,
         Agrees, RoomsAgree, WatcherAgrees, MustWatch, StopperAgrees, EndingAgrees
  <2>3. cli' # "gone" => down' = Chunks(<<"exists">>)
    <3>1. Chunks(d) \o Chunks(<<"exists">>) = Chunks(d \o <<"exists">>)
        BY <1>5, WordsJoined
    <3> QED BY <1>1, <1>5, <2>1, <3>1 DEF Sends, Joint
  <2>4. watcher' # "reads"
      BY <1>1, <1>2 DEF SrvNickname, Keep, Joint, InPlace, Agrees, WatcherAgrees, MustWatch
  <2>5. Joint(c, "refused", <<>>, <<"exists">>)'
      BY <1>1, <2>1, <2>2, <2>3, <2>4 DEF Joint
  <2> QED BY <1>5, <1>6, <2>5 DEF InStepInv
<1> QED BY <1>7, <1>8 DEF SrvNickname

\* The client has gone and the server does.
LEMMA LeaveRead ==
    ASSUME NEW c, NEW s, NEW u \in Seq(Words), NEW d \in Seq(Words), Joint(c, s, u, d), ~misread, SrvLeave
    PROVE  InStepInv'
<1> DEFINE kinds == {"ok"}
<1>1. srv = "leave" /\ HandlerReads(2, kinds) /\ HandlerCloses
    BY DEF SrvLeave
<1>2. s = "leave" /\ u # <<>>
    BY <1>1, Counting, ServerHears
<1>3. <<c, u, d>> = <<"gone", <<"ok">>, <<>>>>
    BY <1>2, Places DEF Joint, Quiet, Arrival, Listing, Choosing, Queueing, Meeting, Parting
<1>4. Head(u) = "ok" /\ Size("ok") = 2 /\ "ok" \in kinds
    BY <1>3, Short, WordSizes
<1>5. ~misread'
  <2> HIDE DEF kinds
  <2> QED BY <1>1, <1>2, <1>4, Counting, ServerReads
<1>6. watcher # "reads"
    BY <1>2 DEF Joint, InPlace, Agrees, WatcherAgrees, MustWatch
<1> QED BY <1>1, <1>5, <1>6, ServerCloses DEF SrvLeave, Keep

\* The room has space or is full.
LEMMA ChosenRead ==
    ASSUME NEW c, NEW s, NEW u \in Seq(Words), NEW d \in Seq(Words), Joint(c, s, u, d), ~misread, SrvChosen
    PROVE  InStepInv'
<1> DEFINE kinds == {"ok"}
<1>1. srv = "chosen" /\ HandlerReads(2, kinds) /\ UNCHANGED <<cli, isConnected>>
    BY DEF SrvChosen, HandlerTurn, Keep, cliVars
<1>2. s = "chosen" /\ u # <<>>
    BY <1>1, Counting, ServerHears
<1>3. <<c, u, d>> = <<"full", <<"ok">>, <<>>>>
    BY <1>2, Places DEF Joint, Quiet, Arrival, Listing, Choosing, Queueing, Meeting, Parting
<1>4. c = "full" /\ u = <<"ok">> /\ d = <<>> /\ Head(u) = "ok" /\ Tail(u) = <<>>
    BY <1>3, Short
<1>5. Size("ok") = 2 /\ "ok" \in kinds
    BY WordSizes
<1>6. Got(up, 2) = "ok" /\ up' = Chunks(<<>>) /\ ~misread'
  <2> HIDE DEF kinds
  <2> QED BY <1>1, <1>2, <1>4, <1>5, Counting, ServerReads
<1>7. PICK to \in {"feedback", "operation"}, w \in {"ok", "full"} :
         HandlerGoes(to, <<w>>) /\ (to = "feedback" <=> w = "ok")
  <2>1. CASE HandlerTurn("chosen", "feedback", <<"ok">>)
      BY <1>6, <2>1 DEF HandlerTurn
  <2>2. CASE HandlerTurn("chosen", "operation", <<"full">>)
      BY <1>6, <2>2 DEF HandlerTurn
  <2> QED BY <2>1, <2>2 DEF SrvChosen
<1>8. srv' = to /\ Sends(<<w>>)
    BY <1>7 DEF HandlerGoes
<1>9. {<<w>>, <<>>} \subseteq Seq(Words) /\ d \o <<w>> = <<w>>
    BY <1>4, Short DEF Words
<1>10. InPlace(c, to, <<>>, <<w>>)'
    BY <1>1, <1>2, <1>4, <1>7, <1>8 DEF SrvChosen, Keep, cliVars, Joint, InPlace, InDialogue, Quiet, Choosing,
       Agrees, RoomsAgree, WatcherAgrees, MustWatch, StopperAgrees, EndingAgrees
<1> QED BY <1>1, <1>6, <1>7, <1>8, <1>9, <1>10, ServerGoes

-----------------------------------------------------------------------------
\* The handler gives up, or finds that the client is lost.
LEMMA HandlerGivesUp ==
    ASSUME NEW c, NEW s, NEW u \in Seq(Words), NEW d \in Seq(Words), Joint(c, s, u, d), ~misread, HandlerFails \/ HandlerDropped
    PROVE  InStepInv'
<1>1. isConnected
    BY DEF Joint
<1>2. srv \in DOMAIN SrvNeeds /\ HandlerCloses /\ Keep /\ ~misread'
    BY <1>1 DEF HandlerFails, HandlerDropped
<1>3. srv # "closed" /\ watcher # "reads"
    BY <1>2 DEF SrvNeeds, Joint, InPlace, Agrees, WatcherAgrees, MustWatch
<1> QED BY <1>2, <1>3, ServerCloses DEF Keep

\* The watcher reads the answer, or finds that the client is gone.
LEMMA WatcherEnds ==
    ASSUME NEW c, NEW s, NEW u \in Seq(Words), NEW d \in Seq(Words), Joint(c, s, u, d), ~misread, WatcherReads
    PROVE  InStepInv'
<1>1. watcher = "reads" /\ watcher' = "ended" /\ UNCHANGED <<cliVars, srv, toList, chatTimedout, down>>
    BY DEF WatcherReads
<1>2. srv # "closed" /\ s = srv /\ s \in {"wait", "paired", "announced", "joining"} /\ MustWatch(c, s, u)
    BY <1>1 DEF Joint, InPlace, Agrees, WatcherAgrees, MustWatch
<1>3. CASE cli = "gone" /\ ~Readable(up, 2) /\ UNCHANGED <<up, misread>> /\ ~isConnected'
    BY <1>1, <1>2, <1>3 DEF InStepInv, Ended, cliVars
<1>4. ASSUME HandlerReads(2, {"ok", "stopped"}), isConnected' = (isConnected /\ Got(up, 2) \in {"ok", "stopped"}),
             stopWaiting' = (stopWaiting \/ Got(up, 2) = "stopped")
      PROVE  InStepInv'
  <2> DEFINE kinds == {"ok", "stopped"}
  <2>1. u # <<>>
      BY <1>2, <1>4, Counting, ServerHears
  <2>2. <<c, s, u, d>> \in {<<"wait", "wait", <<"stopped">>, <<>>>>, <<"greeting", "joining", <<"ok">>, <<>>>>}
      BY <1>2, <2>1, Places DEF Joint, Quiet, Arrival, Listing, Choosing, Queueing, Meeting, Parting
  <2>3. /\ u = <<Head(u)>> /\ Tail(u) = <<>> /\ Size(Head(u)) = 2 /\ Head(u) \in kinds /\ d = <<>>
        /\ \/ c = "wait" /\ s = "wait" /\ Head(u) = "stopped"
           \/ c = "greeting" /\ s = "joining" /\ Head(u) = "ok"
    <3>1. CASE <<c, s, u, d>> = <<"wait", "wait", <<"stopped">>, <<>>>>
      <4>1. c = "wait" /\ s = "wait" /\ u = <<"stopped">> /\ d = <<>>
          BY <3>1
      <4> QED BY <4>1, Short, WordSizes
    <3>2. CASE <<c, s, u, d>> = <<"greeting", "joining", <<"ok">>, <<>>>>
      <4>1. c = "greeting" /\ s = "joining" /\ u = <<"ok">> /\ d = <<>>
          BY <3>2
      <4> QED BY <4>1, Short, WordSizes
    <3> QED BY <2>2, <3>1, <3>2
  <2>4. Got(up, 2) = Head(u) /\ up' = Chunks(<<>>) /\ ~misread'
    <3> HIDE DEF kinds
    <3> QED BY <1>2, <1>4, <2>1, <2>3, Counting, ServerReads DEF kinds
  <2>5. <<c, s, <<>>, d>> \in Quiet
      BY <2>3 DEF Quiet, Queueing, Meeting
  <2>6. isConnected' /\ (stopWaiting' <=> stopWaiting \/ Head(u) = "stopped")
      BY <1>4, <2>3, <2>4 DEF Joint
  <2>7. Agrees(c, s, <<>>, d)'
      BY <1>1, <1>2, <2>3, <2>6 DEF cliVars, Joint, InPlace,
         Agrees, RoomsAgree, WatcherAgrees, MustWatch, StopperAgrees, EndingAgrees
  <2>8. Joint(c, s, <<>>, d)'
      BY <1>1, <1>2, <2>4, <2>5, <2>6, <2>7 DEF cliVars, Joint, InPlace, InDialogue
  <2>9. <<>> \in Seq(Words)
      BY Short
  <2> QED BY <2>4, <2>8, <2>9 DEF InStepInv
<1> QED BY <1>3, <1>4 DEF WatcherReads

\* The server waits with the client: up is not read, and the words are sent.
LEMMA ServerWrites ==
    ASSUME NEW c, NEW s, NEW u \in Seq(Words), NEW d \in Seq(Words),
           Joint(c, s, u, d), srv # "closed", ~misread, UNCHANGED <<cli, isConnected, up, misread>>,
           NEW to, to # "closed", NEW words \in Seq(Words), srv' = to, Sends(words),
           NEW e, e = d \o words, InPlace(c, to, u, e)'
    PROVE  InStepInv'
<1>1. ~misread' /\ up' = Chunks(u) /\ e \in Seq(Words)
    BY ConcatProperties DEF Joint
<1> QED BY <1>1, ServerGoes

\* A STOP is answered.
LEMMA StopAnswered ==
    ASSUME NEW c, NEW s, NEW u \in Seq(Words), NEW d \in Seq(Words), Joint(c, s, u, d), ~misread, HandlerStopped
    PROVE  InStepInv'
<1>1. srv \in Waiting /\ isConnected /\ stopWaiting /\ UNCHANGED <<cli, isConnected, up, misread, watcher, stopWaiting>>
    BY DEF HandlerStopped, Keep, cliVars
<1>2. s = srv /\ s = "wait" /\ watcher # "reads"
    BY <1>1 DEF Waiting, Joint, InPlace, Agrees, WatcherAgrees, MustWatch
<1>3. srv' = "stopping" /\ Sends(<<"stopped">>)
    BY <1>2 DEF HandlerStopped, HandlerGoes
<1>4. u # <<"stopped">>
    BY <1>1 DEF Joint, InPlace, Agrees, WatcherAgrees
<1>5. <<c, u, d>> = <<"wait", <<>>, <<>>>>
    BY <1>2, <1>4, Places DEF Joint, Quiet, Arrival, Listing, Choosing, Queueing, Meeting, Parting
<1>6. c = "wait" /\ u = <<>> /\ d = <<>>
    BY <1>5
<1>7. <<"stopped">> \in Seq(Words) /\ d \o <<"stopped">> = <<"stopped">>
    BY <1>6, Short DEF Words
<1>8. InPlace(c, "stopping", u, <<"stopped">>)'
    BY <1>1, <1>2, <1>6 DEF HandlerStopped, Keep, cliVars, Queueing, Quiet, Joint, InPlace, InDialogue,
       Agrees, RoomsAgree, WatcherAgrees, MustWatch, StopperAgrees, EndingAgrees
<1> QED BY <1>1, <1>2, <1>3, <1>7, <1>8, ServerWrites

\* The client is out of the queue.
LEMMA HandlerBack ==
    ASSUME NEW c, NEW s, NEW u \in Seq(Words), NEW d \in Seq(Words), Joint(c, s, u, d), ~misread, HandlerLeaves
    PROVE  InStepInv'
<1>1. srv = "stopping" /\ srv' = "operation" /\ ~stopWaiting' /\ watcher = "ended"
      /\ UNCHANGED <<cli, isConnected, up, down, misread, watcher, listed, requeued, stopper, toList, chatTimedout>>
    BY DEF HandlerLeaves, cliVars
<1>2. s = "stopping" /\ stopWaiting
    BY <1>1 DEF Joint, InPlace, Agrees, WatcherAgrees
<1>3. <<c, "stopping", u, d>> \in Quiet
    BY <1>2, Places DEF Joint
<1>4. <<c, "operation", u, d>> \in Quiet
    BY <1>3 DEF Quiet, Arrival, Listing, Choosing, Queueing, Meeting, Parting
<1>5. Agrees(c, "operation", u, d)'
    BY <1>1, <1>2 DEF Joint, InPlace, Agrees, RoomsAgree, WatcherAgrees, MustWatch, StopperAgrees, EndingAgrees
<1>6. Joint(c, "operation", u, d)'
    BY <1>1, <1>4, <1>5 DEF Joint, InPlace, InDialogue
<1> QED BY <1>1, <1>6 DEF InStepInv

\* The handler confirms the match.
LEMMA MatchConfirmed ==
    ASSUME NEW c, NEW s, NEW u \in Seq(Words), NEW d \in Seq(Words), Joint(c, s, u, d), ~misread, HandlerMatched
    PROVE  InStepInv'
<1>1. srv = "announced" /\ srv' = "joining" /\ Sends(<<"ok">>)
      /\ UNCHANGED <<cli, isConnected, up, misread, watcher, stopWaiting>>
    BY DEF HandlerMatched, HandlerGoes, Keep, cliVars
<1>2. s = "announced"
    BY <1>1 DEF Joint
<1>3. <<c, u, d>> \in {<<"wait", <<>>, <<"ok">>>>, <<"matched", <<>>, <<>>>>}
    BY <1>2, Places DEF Joint, Quiet, Arrival, Listing, Choosing, Queueing, Meeting, Parting
<1>4. CASE <<c, u, d>> = <<"wait", <<>>, <<"ok">>>>
  <2>1. c = "wait" /\ u = <<>> /\ d = <<"ok">>
      BY <1>4
  <2>2. <<"ok">> \in Seq(Words) /\ d \o <<"ok">> = <<"ok", "ok">>
      BY <2>1, Short DEF Words
  <2>3. <<"wait", "joining", <<>>, <<"ok", "ok">>>> \in Quiet /\ <<"ok", "ok">> # <<"stopped">> /\ <<>> # <<"stopped">>
        /\ <<>> # <<"ok", "stopped">>
      BY DEF Quiet, Meeting
  <2>4. InPlace(c, "joining", u, <<"ok", "ok">>)'
      BY <1>1, <1>2, <2>1, <2>3 DEF HandlerMatched, Keep, cliVars, Joint, InPlace, InDialogue,
         Agrees, RoomsAgree, WatcherAgrees, MustWatch, StopperAgrees, EndingAgrees
  <2> QED BY <1>1, <2>2, <2>4, ServerWrites
<1>5. CASE <<c, u, d>> = <<"matched", <<>>, <<>>>>
  <2>1. c = "matched" /\ u = <<>> /\ d = <<>>
      BY <1>5
  <2>2. <<"ok">> \in Seq(Words) /\ d \o <<"ok">> = <<"ok">>
      BY <2>1, Short DEF Words
  <2>3. InPlace(c, "joining", u, <<"ok">>)'
      BY <1>1, <1>2, <2>1 DEF HandlerMatched, Keep, cliVars, Quiet, Meeting, Joint, InPlace, InDialogue,
         Agrees, RoomsAgree, WatcherAgrees, MustWatch, StopperAgrees, EndingAgrees
  <2> QED BY <1>1, <2>2, <2>3, ServerWrites
<1> QED BY <1>3, <1>4, <1>5

\* The watcher has ended: the client has answered.
LEMMA HandlerJoined ==
    ASSUME NEW c, NEW s, NEW u \in Seq(Words), NEW d \in Seq(Words), Joint(c, s, u, d), ~misread, HandlerJoins
    PROVE  InStepInv'
<1>1. srv = "joining" /\ srv' = "confirmed" /\ Sends(<<>>) /\ watcher = "ended"
      /\ UNCHANGED <<cli, isConnected, up, misread, watcher, stopWaiting>>
    BY DEF HandlerJoins, HandlerGoes, Keep, cliVars, Joint
<1>2. s = "joining" /\ c = "greeting" /\ u = <<>>
    BY <1>1 DEF Joint, InPlace, Agrees, WatcherAgrees, MustWatch
<1>3. <<d>> = <<<<>>>>
    BY <1>2, Places DEF Joint, Quiet, Arrival, Listing, Choosing, Queueing, Meeting, Parting
<1>4. d = <<>> /\ <<>> \in Seq(Words) /\ d \o <<>> = <<>>
    BY <1>3, Short
<1>5. InPlace(c, "confirmed", u, <<>>)'
    BY <1>1, <1>2, <1>4 DEF HandlerJoins, Keep, cliVars, Quiet, Meeting, Joint, InPlace, InDialogue,
       Agrees, RoomsAgree, WatcherAgrees, MustWatch, StopperAgrees, EndingAgrees
<1> QED BY <1>1, <1>4, <1>5, ServerWrites

-----------------------------------------------------------------------------
\* A match that does not cross a STOP.
LEMMA Matched ==
    ASSUME NEW c, NEW s, NEW u \in Seq(Words), NEW d \in Seq(Words), Joint(c, s, u, d), ~misread, Match, ~crossed'
    PROVE  InStepInv'
<1>1. srv = "wait" /\ s = "wait" /\ srv' = "paired" /\ Sends(<<"ok">>) /\ ~stopWaiting
      /\ Chunk("stopped") \notin ToSet(up) /\ UNCHANGED <<cli, isConnected, up, misread, watcher, stopWaiting>>
    BY DEF Match, cliVars, Joint, InPlace, Agrees, WatcherAgrees
<1>2. u # <<"stopped">>
  <2> SUFFICES ASSUME u = <<"stopped">> PROVE FALSE
      OBVIOUS
  <2>1. up = Chunks(<<"stopped">>)
      BY <1>1 DEF Joint
  <2>2. Chunks(<<"stopped">>)[1] = Chunk("stopped") /\ 1 \in DOMAIN Chunks(<<"stopped">>)
      BY DEF Chunks
  <2> QED BY <1>1, <2>1, <2>2 DEF ToSet
<1>3. <<c, u, d>> = <<"wait", <<>>, <<>>>>
    BY <1>1, <1>2, Places DEF Joint, Quiet, Arrival, Listing, Choosing, Queueing, Meeting, Parting
<1>4. c = "wait" /\ u = <<>> /\ d = <<>>
    BY <1>3
<1>5. <<"ok">> \in Seq(Words) /\ d \o <<"ok">> = <<"ok">>
    BY <1>4, Short DEF Words
<1>6. InPlace(c, "paired", u, <<"ok">>)'
  <2>1. <<"wait", "paired", <<>>, <<"ok">>>> \in Quiet /\ <<"ok">> # <<"stopped">>
      BY DEF Quiet, Meeting
  <2> QED BY <1>1, <1>4, <2>1 DEF Match, cliVars, Joint, InPlace, InDialogue,
         Agrees, RoomsAgree, WatcherAgrees, MustWatch, StopperAgrees, EndingAgrees
<1> QED BY <1>1, <1>5, <1>6, ServerWrites

\* The match is announced to the handler.
LEMMA Announced ==
    ASSUME NEW c, NEW s, NEW u \in Seq(Words), NEW d \in Seq(Words), Joint(c, s, u, d), ~misread, Announce
    PROVE  InStepInv'
<1>1. srv = "paired" /\ srv' = "announced"
      /\ UNCHANGED <<cli, isConnected, up, down, misread, watcher, listed, requeued, stopper, toList, chatTimedout, stopWaiting>>
    BY DEF Announce, cliVars
<1>2. s = "paired"
    BY <1>1 DEF Joint
<1>3. <<c, "paired", u, d>> \in Quiet
    BY <1>2, Places DEF Joint
<1>4. <<c, "announced", u, d>> \in Quiet
    BY <1>3 DEF Quiet, Arrival, Listing, Choosing, Queueing, Meeting, Parting
<1>5. Agrees(c, "announced", u, d)'
    BY <1>1, <1>2 DEF Joint, InPlace, Agrees, RoomsAgree, WatcherAgrees, MustWatch, StopperAgrees, EndingAgrees
<1>6. Joint(c, "announced", u, d)'
    BY <1>1, <1>4, <1>5 DEF Joint, InPlace, InDialogue
<1> QED BY <1>1, <1>6 DEF InStepInv

\* A chat begins.
LEMMA Greeted ==
    ASSUME NEW c, NEW s, NEW u \in Seq(Words), NEW d \in Seq(Words), Joint(c, s, u, d), ~misread, Greet, ~crossed'
    PROVE  InStepInv'
<1>1. srv = "confirmed" /\ s = "confirmed" /\ srv' = "chat" /\ Sends(<<"nickname">>)
      /\ UNCHANGED <<cli, isConnected, up, misread, watcher, stopWaiting>>
    BY DEF Greet, cliVars, Joint
<1>2. <<c, u, d>> = <<"greeting", <<>>, <<>>>>
    BY <1>1, Places DEF Joint, Quiet, Arrival, Listing, Choosing, Queueing, Meeting, Parting
<1>3. c = "greeting" /\ u = <<>> /\ d = <<>>
    BY <1>2
<1>4. <<"nickname">> \in Seq(Words) /\ d \o <<"nickname">> = <<"nickname">> /\ <<"nickname">> \o <<>> = <<"nickname">>
    BY <1>3, Short DEF Words
<1>5. Talks(c, "chat", u, <<"nickname">>)'
    BY <1>3, <1>4, Chattered DEF Talks, Greeting, Chatting
<1>6. Agrees(c, "chat", u, <<"nickname">>)'
    BY <1>1, <1>3 DEF Greet, cliVars, Joint, InPlace, InDialogue,
       Agrees, RoomsAgree, WatcherAgrees, MustWatch, StopperAgrees, EndingAgrees
<1>7. InPlace(c, "chat", u, <<"nickname">>)'
    BY <1>5, <1>6 DEF InPlace, InDialogue
<1> QED BY <1>1, <1>4, <1>7, ServerWrites

\* What is on its way in a chat, with more words behind it.
LEMMA SaidMore ==
    ASSUME NEW c, NEW q \in Chatter, NEW r \in Seq(Words), NEW t \in Seq(Words)
    PROVE  (Greeting(c) \o (q \o r)) \o t = Greeting(c) \o (q \o (r \o t))
<1>1. Greeting(c) \in Seq(Words) /\ q \in Seq(Words)
    BY Short, Chattered DEF Greeting, Words
<1> DEFINE g == Greeting(c)
           qr == q \o r
<1>2. qr \in Seq(Words)
    BY <1>1, ConcatProperties
<1>3. qr \o t = q \o (r \o t)
    BY <1>1, ConcatAssociative
<1>4. g \in Seq(Words)
    BY <1>1
<1> HIDE DEF g, qr
<1>5. (g \o qr) \o t = g \o (qr \o t)
    BY <1>2, <1>4, ConcatAssociative
<1> QED BY <1>3, <1>5 DEF g, qr

\* A message of the other.
LEMMA PeerHeard ==
    ASSUME NEW c, NEW s, NEW u \in Seq(Words), NEW d \in Seq(Words), Joint(c, s, u, d), ~misread, PeerSays, ~crossed'
    PROVE  InStepInv'
<1>1. srv = "chat" /\ s = "chat" /\ srv' = "chat" /\ Sends(<<"said">>) /\ cli \in Chatting
      /\ UNCHANGED <<cli, isConnected, up, misread, watcher, stopWaiting>>
    BY DEF PeerSays, cliVars, srvVars, Joint
<1>2. c \in Chatting /\ Talks(c, s, u, d)
  <2>1. c = cli /\ c # "over"
      BY <1>1 DEF Joint, Chatting
  <2> QED BY <1>1, <2>1, ChatPlaces DEF Joint
<1>3. PICK q \in Chatter : d = Greeting(c) \o q
    BY <1>2 DEF Talks
<1>4. <<>> \in Seq(Words) /\ <<"said">> \in Seq(Words) /\ <<>> \o <<"said">> = <<"said">> /\ q \o <<>> = q
      /\ q \o <<"said">> \in Chatter
    BY Short, Chattered DEF Words
<1>5. d \o <<"said">> = Greeting(c) \o (q \o <<"said">>)
    BY <1>3, <1>4, SaidMore
<1>6. Talks(c, "chat", u, d \o <<"said">>)'
    BY <1>1, <1>2, <1>4, <1>5 DEF Talks
<1>7. Agrees(c, "chat", u, d \o <<"said">>)'
    BY <1>1, <1>2 DEF PeerSays, cliVars, srvVars, Chatting, Joint, InPlace, InDialogue,
       Agrees, RoomsAgree, WatcherAgrees, MustWatch, StopperAgrees, EndingAgrees
<1>8. InPlace(c, "chat", u, d \o <<"said">>)'
    BY <1>6, <1>7 DEF InPlace, InDialogue
<1> QED BY <1>1, <1>4, <1>8, ServerWrites

\* The chat ends for this client, which has nothing on its way.
LEMMA ChatEnded ==
    ASSUME NEW kind \in Endings, ChatEnds(kind), ~crossed',
           NEW c, NEW s, NEW u \in Seq(Words), NEW d \in Seq(Words), Joint(c, s, u, d), ~misread
    PROVE  InStepInv'
<1>1. srv = "chat" /\ s = "chat" /\ srv' = "over" /\ Sends(<<kind>>) /\ cli \in Chatting /\ up = <<>>
      /\ UNCHANGED <<cli, isConnected, up, misread, watcher, stopWaiting>> /\ (chatTimedout' <=> kind = "timec")
    BY DEF ChatEnds, ToldAs, cliVars, Joint
<1>2. c \in Chatting /\ Talks(c, s, u, d) /\ u = <<>>
  <2>1. c = cli /\ c # "over" /\ Chunks(u) = <<>>
      BY <1>1 DEF Joint, Chatting
  <2>2. u = <<>>
      BY <2>1, WordChunks
  <2> QED BY <1>1, <2>1, <2>2, ChatPlaces DEF Joint
<1>3. PICK q \in Chatter : d = Greeting(c) \o q
    BY <1>2 DEF Talks
<1>4. <<>> \in Seq(Words) /\ <<kind>> \in Seq(Words) /\ <<>> \o <<kind>> = <<kind>> /\ q \o <<>> = q
    BY Short, Chattered DEF Words, Endings
<1>5. d \o <<kind>> = Greeting(c) \o (q \o Farewell(kind, "over"))
    BY <1>3, <1>4, SaidMore DEF Farewell
<1>6. IsTold(c, "over", u, d \o <<kind>>)'
    BY <1>1, <1>2, <1>5 DEF IsTold
<1>7. Agrees(c, "over", u, d \o <<kind>>)'
    BY <1>1, <1>2 DEF ChatEnds, cliVars, Chatting, Joint, InPlace, InDialogue,
       Agrees, RoomsAgree, WatcherAgrees, MustWatch, StopperAgrees, EndingAgrees
<1>8. InPlace(c, "over", u, d \o <<kind>>)'
    BY <1>6, <1>7 DEF InPlace, InDialogue
<1> QED BY <1>1, <1>4, <1>8, ServerWrites

\* A message of the client, or its stop.
LEMMA MessageRead ==
    ASSUME NEW c, NEW s, NEW u \in Seq(Words), NEW d \in Seq(Words), Joint(c, s, u, d), ~misread, ChatReads, ~crossed'
    PROVE  InStepInv'
<1> DEFINE kinds == {"said", "stop"}
<1>1. srv = "chat" /\ HandlerReads(MessageSize, kinds)
      /\ UNCHANGED <<cli, isConnected, watcher, stopWaiting, chatTimedout, listed, requeued, stopper, toList>>
    BY DEF ChatReads, cliVars
<1>2. s = "chat" /\ u # <<>> /\ <<>> \in Seq(Words) /\ d \o <<>> = d
    BY <1>1, Counting, ServerHears, ConcatEmptySeq, EmptySeq
<1>3. ASSUME Head(u) = "said", InDialogue(c, "chat", Tail(u), d)' PROVE InStepInv'
  <2>1. Got(up, MessageSize) = "said" /\ up' = Chunks(Tail(u)) /\ ~misread'
    <3>1. Size("said") = MessageSize /\ "said" \in kinds
        BY WordSizes
    <3> HIDE DEF kinds
    <3> QED BY <1>1, <1>2, <1>3, <3>1, Counting, ServerReads
  <2>2. srv' = "chat" /\ Sends(<<>>)
      BY <2>1 DEF ChatReads, HandlerGoes
  <2>3. Agrees(c, "chat", Tail(u), d)'
    <3>1. c \in {"greeting", "chat", "over"}
        BY <1>2, Places DEF Joint, Talks, Leaves, Chatting
    <3> QED BY <1>1, <1>2, <2>2, <3>1 DEF Joint, InPlace, InDialogue,
             Agrees, RoomsAgree, WatcherAgrees, MustWatch, StopperAgrees, EndingAgrees
  <2>4. InPlace(c, "chat", Tail(u), d)' /\ Tail(u) \in Seq(Words)
      BY <1>2, <1>3, <2>3, HeadTailProperties DEF InPlace
  <2> QED BY <1>1, <1>2, <2>1, <2>2, <2>4, ServerGoes
<1>4. CASE Talks(c, s, u, d)
  <2>1. u \in Chatter /\ Head(u) = "said" /\ Tail(u) \in Chatter /\ c # "greeting"
      BY <1>2, <1>4, Chattered DEF Talks
  <2>2. Talks(c, "chat", Tail(u), d)'
      BY <1>4, <2>1 DEF Talks
  <2> QED BY <1>3, <2>1, <2>2 DEF InDialogue
<1>5. CASE Leaves(c, s, u, d)
  <2>1. PICK q \in Chatter : u = q \o <<"stop">>
      BY <1>5 DEF Leaves
  <2>2. q \in Seq(Words) /\ <<"stop">> \in Seq(Words)
      BY Chattered, Short DEF Words
  <2>3. CASE q # <<>>
    <3>1. Head(u) = "said" /\ Tail(u) = Tail(q) \o <<"stop">> /\ Tail(q) \in Chatter
        BY <2>1, <2>2, <2>3, Joined, Chattered
    <3>2. Leaves(c, "chat", Tail(u), d)'
        BY <1>5, <3>1 DEF Leaves
    <3> QED BY <1>3, <3>1, <3>2 DEF InDialogue
  <2>4. CASE q = <<>>
    <3>1. Head(u) = "stop" /\ Tail(u) = <<>> /\ d = <<>> /\ c = "over"
        BY <1>5, <2>1, <2>2, <2>4, Joined, Short DEF Leaves
    <3>2. Got(up, MessageSize) = "stop" /\ up' = Chunks(<<>>) /\ ~misread'
      <4>1. Size("stop") = MessageSize /\ "stop" \in kinds
          BY WordSizes
      <4> HIDE DEF kinds
      <4> QED BY <1>1, <1>2, <3>1, <4>1, Counting, ServerReads
    <3>3. srv' = "over" /\ Sends(<<>>)
        BY <3>2 DEF ChatReads, HandlerGoes
    <3>4. InPlace(c, "over", <<>>, <<>>)'
        BY <1>1, <1>2, <3>1, <3>3 DEF Quiet, Parting, Joint, InPlace, InDialogue,
           Agrees, RoomsAgree, WatcherAgrees, MustWatch, StopperAgrees, EndingAgrees
    <3> QED BY <1>1, <1>2, <3>1, <3>2, <3>3, <3>4, ServerGoes
  <2> QED BY <2>3, <2>4
<1> QED BY <1>2, <1>4, <1>5, Places DEF Joint

\* The chat finds that the client is gone.
LEMMA ClientLost ==
    ASSUME NEW c, NEW s, NEW u \in Seq(Words), NEW d \in Seq(Words), Joint(c, s, u, d), ~misread, ChatLoses
    PROVE  InStepInv'
BY DEF ChatLoses, cliVars, InStepInv, Ended, Joint, InPlace, Agrees, WatcherAgrees, MustWatch

\* The handler is woken up and tells the client.
LEMMA HandlerWoken ==
    ASSUME NEW c, NEW s, NEW u \in Seq(Words), NEW d \in Seq(Words), Joint(c, s, u, d), ~misread, HandlerWakes
    PROVE  InStepInv'
<1>1. srv = "over" /\ s = "over" /\ srv' = "after" /\ Sends(<<"ok">>)
      /\ UNCHANGED <<cli, isConnected, up, misread, watcher, stopWaiting, chatTimedout>>
    BY DEF HandlerWakes, HandlerGoes, Keep, cliVars, Joint
<1>2. <<"ok">> \in Seq(Words)
    BY Short DEF Words
<1>3. CASE <<c, s, u, d>> \in Quiet
  <2>1. <<c, u, d>> = <<"over", <<>>, <<>>>>
      BY <1>1, <1>3 DEF Quiet, Arrival, Listing, Choosing, Queueing, Meeting, Parting
  <2>2. c = "over" /\ u = <<>> /\ d = <<>>
      BY <2>1
  <2>3. d \o <<"ok">> = <<"ok">>
      BY <2>2, Short
  <2>4. InPlace(c, "after", u, <<"ok">>)'
      BY <1>1, <2>2 DEF HandlerWakes, Keep, cliVars, Quiet, Parting, Joint, InPlace, InDialogue,
         Agrees, RoomsAgree, WatcherAgrees, MustWatch, StopperAgrees, EndingAgrees
  <2> QED BY <1>1, <1>2, <2>3, <2>4, ServerWrites
<1>4. CASE IsTold(c, s, u, d)
  <2>1. PICK q \in Chatter, kind \in Endings :
           d = Greeting(c) \o (q \o <<kind>>) /\ (chatTimedout <=> kind = "timec")
      BY <1>1, <1>4 DEF IsTold, Farewell
  <2>2. <<kind>> \in Seq(Words) /\ <<kind>> \o <<"ok">> = <<kind, "ok">>
      BY Short DEF Words, Endings
  <2>3. d \o <<"ok">> = Greeting(c) \o (q \o Farewell(kind, "after"))
    <3>1. d = Greeting(c) \o (q \o <<kind>>)
        BY <2>1
    <3>2. (Greeting(c) \o (q \o <<kind>>)) \o <<"ok">> = Greeting(c) \o (q \o (<<kind>> \o <<"ok">>))
        BY <1>2, <2>2, SaidMore
    <3> QED BY <2>2, <3>1, <3>2 DEF Farewell
  <2>4. IsTold(c, "after", u, d \o <<"ok">>)'
      BY <1>1, <1>4, <2>1, <2>3 DEF IsTold
  <2>5. Agrees(c, "after", u, d \o <<"ok">>)'
      BY <1>1, <1>4 DEF HandlerWakes, Keep, cliVars, IsTold, Chatting, Joint, InPlace, InDialogue,
         Agrees, RoomsAgree, WatcherAgrees, MustWatch, StopperAgrees, EndingAgrees
  <2>6. InPlace(c, "after", u, d \o <<"ok">>)'
      BY <2>4, <2>5 DEF InPlace, InDialogue
  <2> QED BY <1>1, <1>2, <2>6, ServerWrites
<1> QED BY <1>1, <1>3, <1>4 DEF Joint, InPlace, InDialogue, Talks, Leaves

-----------------------------------------------------------------------------
\* When nothing is read any more, the server closes the connection, or never does.
LEMMA StaysEnded ==
    ASSUME Ended, ~misread, Next
    PROVE  Ended' /\ ~misread'
<1>1. cli = "gone" /\ watcher # "reads" /\ srv \in {"closed", "wait", "paired", "announced", "joining", "over"}
      /\ (srv # "closed" => ~isConnected)
    BY DEF Ended
<1>2. ~CliStep
    BY <1>1 DEF CliStep, CliNickname, CliList, CliQuit, CliCount, CliName, CliMax, CliClients, CliListed, CliTakes, CliFull,
       CliWait, CliMatched, CliGreeting, Hear, CliOver, CliEnds, CliTurn, CliRoom, CliNeeds
<1>3. ~UserStep
    BY <1>1 DEF UserStep, CliMenu, CliChoose, TypeSTOP, Say, TypeStop, Vanish, Listens
<1>4. ASSUME SrvStep PROVE Ended' /\ ~misread'
  <2>1. ~ \/ SrvNickname \/ SrvWelcome \/ SrvOperation \/ SrvView \/ SrvLeave \/ SrvCounted \/ SrvNamed \/ SrvSized
          \/ SrvListed \/ SrvChoice \/ SrvChosen \/ SrvFeedback \/ SrvAfter
      BY <1>1 DEF SrvNickname, SrvWelcome, SrvOperation, SrvView, SrvLeave, SrvCounted, SrvNamed, SrvSized, SrvListed,
         SrvChoice, SrvChosen, SrvFeedback, SrvAfter, HandlerTurn, HandlerInput
  <2>2. ~ \/ HandlerFails \/ WatcherReads \/ HandlerStopped \/ HandlerLeaves \/ HandlerMatched \/ ChatReads \/ ChatLoses
      BY <1>1 DEF HandlerFails, WatcherReads, HandlerStopped, HandlerLeaves, HandlerMatched, ChatReads, ChatLoses, SrvNeeds,
         Waiting
  <2>3. CASE HandlerDropped
      BY <1>1, <2>3 DEF HandlerDropped, HandlerCloses, Keep, cliVars, Ended
  <2>4. CASE HandlerJoins
      BY <1>1, <2>4 DEF HandlerJoins, HandlerCloses, Keep, cliVars, Ended
  <2>5. CASE HandlerWakes
      BY <1>1, <2>5 DEF HandlerWakes, HandlerCloses, Keep, cliVars, Ended
  <2> QED BY <1>4, <2>1, <2>2, <2>3, <2>4, <2>5 DEF SrvStep
<1>5. ASSUME OthersStep PROVE Ended' /\ ~misread'
  <2>1. CASE Match
      BY <1>1, <2>1 DEF Match, cliVars, Ended
  <2>2. CASE Announce
      BY <1>1, <2>2 DEF Announce, cliVars, Ended
  <2>3. ~ \/ Greet \/ PeerSays \/ \E kind \in {"stop", "timec", "idlec"} : ChatEnds(kind)
      BY <1>1 DEF Greet, PeerSays, ChatEnds
  <2> QED BY <1>5, <2>1, <2>2, <2>3 DEF OthersStep
<1> QED BY <1>2, <1>3, <1>4, <1>5 DEF Next

\* What has crossed has crossed, and the fields are Booleans.
Flags == {requeued, stopWaiting, chatTimedout} \subseteq BOOLEAN

LEMMA FlagsStay ==
    ASSUME Flags, Next
    PROVE  Flags' /\ (crossed => crossed')
<1>1. CASE CliStep
  <2>1. UNCHANGED srvVars /\ UNCHANGED crossed
      BY <1>1 DEF CliStep, CliNickname, CliList, CliQuit, CliCount, CliName, CliMax, CliClients, CliListed, CliTakes,
         CliFull, CliWait, CliMatched, CliGreeting, Hear, CliOver, CliEnds, Same
  <2>2. requeued' \in {requeued, TRUE, FALSE}
    <3>1. CASE CliGreeting \/ Hear
        BY <3>1 DEF CliGreeting, Hear, CliMessage
    <3>2. CASE UNCHANGED requeued
        BY <3>2
    <3> QED BY <1>1, <3>1, <3>2 DEF CliStep, CliNickname, CliList, CliQuit, CliCount, CliName, CliMax, CliClients,
               CliListed, CliTakes, CliFull, CliWait, CliMatched, CliOver, CliEnds, Same
  <2> QED BY <2>1, <2>2 DEF srvVars, Flags
<1>2. CASE UserStep
  <2>1. UNCHANGED srvVars /\ (crossed => crossed')
    <3>1. CASE CliMenu \/ CliChoose \/ Vanish
      <4>1. UNCHANGED srvVars /\ UNCHANGED crossed
          BY <3>1 DEF CliMenu, CliChoose, Vanish
      <4> QED BY <4>1
    <3>2. CASE TypeSTOP
      <4>1. UNCHANGED srvVars
          BY <3>2 DEF TypeSTOP
      <4>2. crossed => crossed'
          BY <3>2 DEF TypeSTOP
      <4> QED BY <4>1, <4>2
    <3>3. CASE Say
      <4>1. UNCHANGED srvVars
          BY <3>3 DEF Say
      <4>2. crossed => crossed'
          BY <3>3 DEF Say
      <4> QED BY <4>1, <4>2
    <3>4. CASE TypeStop
      <4>1. UNCHANGED srvVars
          BY <3>4 DEF TypeStop
      <4>2. crossed => crossed'
          BY <3>4 DEF TypeStop
      <4> QED BY <4>1, <4>2
    <3> QED BY <1>2, <3>1, <3>2, <3>3, <3>4 DEF UserStep
  <2>2. requeued' \in {requeued, TRUE, FALSE}
    <3>1. CASE TypeStop
        BY <3>1 DEF TypeStop, CliMessage
    <3>2. CASE UNCHANGED requeued
        BY <3>2
    <3> QED BY <1>2, <3>1, <3>2 DEF UserStep, CliMenu, CliChoose, TypeSTOP, Say, Vanish
  <2> QED BY <2>1, <2>2 DEF srvVars, Flags
<1>3. CASE SrvStep
  <2>1. CASE ChatReads
      BY <2>1 DEF ChatReads, cliVars, Flags
  <2>2. CASE WatcherReads
      BY <2>2 DEF WatcherReads, cliVars, Flags
  <2>3. CASE SrvFeedback
    <3>1. chatTimedout' \in BOOLEAN /\ UNCHANGED <<requeued, stopWaiting, crossed>>
        BY <2>3 DEF SrvFeedback, cliVars
    <3> QED BY <3>1 DEF Flags
  <2>4. CASE HandlerLeaves \/ ChatLoses \/ SrvCounted \/ SrvListed
    <3>1. UNCHANGED <<requeued, chatTimedout, crossed>> /\ stopWaiting' \in {stopWaiting, FALSE}
        BY <2>4 DEF HandlerLeaves, ChatLoses, SrvCounted, SrvListed, cliVars
    <3> QED BY <3>1 DEF Flags
  <2>5. CASE Keep
      BY <2>5 DEF Keep, cliVars, Flags
  <2> QED BY <1>3, <2>1, <2>2, <2>3, <2>4, <2>5 DEF SrvStep, SrvNickname, SrvWelcome, SrvOperation, SrvView, SrvLeave,
             SrvNamed, SrvSized, SrvChoice, SrvChosen, HandlerFails, HandlerDropped, HandlerStopped, HandlerMatched,
             HandlerJoins, HandlerWakes, SrvAfter
<1>4. CASE OthersStep
  <2>1. CASE Match \/ Announce \/ Greet \/ PeerSays
    <3>1. UNCHANGED <<requeued, stopWaiting, chatTimedout>>
        BY <2>1 DEF Match, Announce, Greet, PeerSays, cliVars, srvVars
    <3>2. crossed => crossed'
      <4>1. CASE Match
          BY <4>1 DEF Match
      <4>2. CASE Announce
          BY <4>2 DEF Announce
      <4>3. CASE Greet
          BY <4>3 DEF Greet
      <4>4. CASE PeerSays
          BY <4>4 DEF PeerSays
      <4> QED BY <2>1, <4>1, <4>2, <4>3, <4>4
    <3> QED BY <3>1, <3>2 DEF Flags
  <2>2. ASSUME NEW kind, ChatEnds(kind) PROVE Flags' /\ (crossed => crossed')
    <3>1. UNCHANGED <<requeued, stopWaiting>> /\ (crossed => crossed') /\ chatTimedout' \in BOOLEAN
        BY <2>2 DEF ChatEnds, ToldAs, cliVars
    <3> QED BY <3>1 DEF Flags
  <2> QED BY <1>4, <2>1, <2>2 DEF OthersStep
<1> QED BY <1>1, <1>2, <1>3, <1>4 DEF Next

\* Every step of either program leads from places that agree to places that agree.
LEMMA StaysInStep ==
    ASSUME NEW c, NEW s, NEW u \in Seq(Words), NEW d \in Seq(Words), Joint(c, s, u, d), ~misread, ~crossed', Next
    PROVE  InStepInv'
<1>1. CASE CliStep
    BY <1>1, NicknameAnswered, ListAnswered, QuitAnswered, CountRead, NameRead, MaxRead, ClientsRead, ListedAnswered,
       RoomAnswered, FullAnswered, WaitAnswered, MatchedAnswered, GreetingRead, MessageHeard, OverAnswered, ProgramEnds
       DEF CliStep
<1>2. CASE UserStep
    BY <1>2, OperationChosen, RoomChosen, StopTyped, MessageSaid, ChatStopped, ProgramEnds DEF UserStep
<1>3. CASE SrvStep
    BY <1>3, NicknameRead, WelcomeRead, OperationRead, ViewRead, LeaveRead, CountedRead, NamedRead, SizedRead, ListedRead,
       ChoiceRead, ChosenRead, FeedbackRead, HandlerGivesUp, WatcherEnds, StopAnswered, HandlerBack, MatchConfirmed,
       HandlerJoined, MessageRead, ClientLost, HandlerWoken, AfterRead
       DEF SrvStep
<1>4. CASE OthersStep
    BY <1>4, Matched, Announced, Greeted, PeerHeard, ChatEnded DEF OthersStep, Endings
<1> QED BY <1>1, <1>2, <1>3, <1>4 DEF Next

-----------------------------------------------------------------------------
IInv == Flags /\ InStepInv

\* The two programs start in step and stay so until something crosses.
THEOREM StayingInStep == Spec => []IInv
<1>1. Init => IInv
  <2> SUFFICES ASSUME Init PROVE IInv
      OBVIOUS
  <2>1. Flags
      BY DEF Init, Flags
  <2>2. <<"nickname">> \in Seq(Words) /\ <<>> \in Seq(Words) /\ Chunks(<<>>) = <<>>
      BY Short, Counting, NothingRead DEF Words
  <2>3. InPlace("nickname", "nickname", <<"nickname">>, <<>>)
      BY DEF Init, InPlace, InDialogue, Quiet, Arrival, Agrees, RoomsAgree, WatcherAgrees, MustWatch, StopperAgrees,
         EndingAgrees
  <2>4. Joint("nickname", "nickname", <<"nickname">>, <<>>)
      BY <2>2, <2>3 DEF Init, Joint
  <2> QED BY <2>1, <2>2, <2>4 DEF Init, IInv, InStepInv
<1>2. IInv /\ [Next]_vars => IInv'
  <2> SUFFICES ASSUME IInv, [Next]_vars PROVE IInv'
      OBVIOUS
  <2>1. CASE Next
    <3>1. Flags' /\ (crossed => crossed')
        BY <2>1, FlagsStay DEF IInv
    <3>2. ASSUME ~crossed' PROVE InStepInv'
      <4>1. ~misread /\ (Ended \/ \E c, s : \E u, d \in Seq(Words) : Joint(c, s, u, d))
          BY <3>1, <3>2 DEF IInv, InStepInv
      <4>2. CASE Ended
          BY <2>1, <4>1, <4>2, StaysEnded DEF InStepInv
      <4>3. CASE \E c, s : \E u, d \in Seq(Words) : Joint(c, s, u, d)
          BY <2>1, <3>2, <4>1, <4>3, StaysInStep
      <4> QED BY <4>1, <4>2, <4>3
    <3>3. crossed' => InStepInv'
        BY DEF InStepInv
    <3> QED BY <3>1, <3>2, <3>3 DEF IInv
  <2>2. CASE UNCHANGED vars
    <3>1. UNCHANGED cliVars /\ UNCHANGED srvVars /\ UNCHANGED <<up, down, misread, crossed>>
        BY <2>2 DEF vars
    <3>2. Flags' /\ (Ended => Ended')
        BY <3>1 DEF IInv, Flags, Ended, cliVars, srvVars
    <3>3. ASSUME NEW c, NEW s, NEW u, NEW d, Joint(c, s, u, d) PROVE Joint(c, s, u, d)'
      <4>1. UNCHANGED <<cli, listed, requeued, stopper, srv, toList, watcher, isConnected, stopWaiting, chatTimedout>>
          BY <3>1 DEF cliVars, srvVars
      <4>2. InDialogue(c, s, u, d)'
        <5>1. Talks(c, s, u, d) => Talks(c, s, u, d)'
            BY DEF Talks
        <5>2. Leaves(c, s, u, d) => Leaves(c, s, u, d)'
            BY DEF Leaves
        <5>3. IsTold(c, s, u, d) => IsTold(c, s, u, d)'
            BY <4>1 DEF IsTold
        <5> QED BY <3>3, <5>1, <5>2, <5>3 DEF Joint, InPlace, InDialogue
      <4>3. RoomsAgree(c, s)'
          BY <3>3, <4>1 DEF Joint, InPlace, Agrees, RoomsAgree
      <4>4. WatcherAgrees(c, s, u)'
          BY <3>3, <4>1 DEF Joint, InPlace, Agrees, WatcherAgrees, MustWatch
      <4>5. StopperAgrees(c, u, d)'
          BY <3>3, <4>1 DEF Joint, InPlace, Agrees, StopperAgrees
      <4>6. EndingAgrees(c, s)'
          BY <3>3, <4>1 DEF Joint, InPlace, Agrees, EndingAgrees
      <4> QED BY <3>1, <3>3, <4>1, <4>2, <4>3, <4>4, <4>5, <4>6 DEF Joint, InPlace, Agrees
    <3>4. (misread' <=> misread) /\ (crossed' <=> crossed)
        BY <3>1
    <3> QED BY <3>2, <3>3, <3>4 DEF IInv, InStepInv
  <2> QED BY <2>1, <2>2
<1> QED BY <1>1, <1>2, PTL DEF Spec

\* Every read of either program returns what was written for it, until something
\* crosses.
THEOREM Reading == Spec => []InStepUntilCrossed
<1>1. IInv => InStepUntilCrossed
    BY DEF IInv, InStepInv, InStepUntilCrossed
<1> QED BY <1>1, StayingInStep, PTL

\* Where a client goes after a chat is known to both.
THEOREM EndingAlike == Spec => []SameEnding
<1>1. IInv => SameEnding
  <2> SUFFICES ASSUME IInv, cli = "over", srv = "after", ~crossed PROVE requeued = (chatTimedout /\ ~stopWaiting)
      BY DEF SameEnding
  <2>1. PICK c, s : \E u, d \in Seq(Words) : Joint(c, s, u, d)
      BY DEF IInv, InStepInv, Ended
  <2>2. PICK u, d \in Seq(Words) : Joint(c, s, u, d)
      BY <2>1
  <2>3. (requeued <=> chatTimedout) /\ ~stopWaiting
      BY <2>2 DEF Joint, InPlace, Agrees, WatcherAgrees, EndingAgrees
  <2>4. requeued \in BOOLEAN /\ chatTimedout \in BOOLEAN
      BY DEF IInv, Flags
  <2> QED BY <2>3, <2>4
<1> QED BY <1>1, StayingInStep, PTL

-----------------------------------------------------------------------------
(***************************************************************************)
(* At a place of the tables where both read, the first word on the way to  *)
(* one of them is as long as what it reads.                                *)
(***************************************************************************)
Fits(word, at, needs) == word # <<>> /\ Size(Head(word)) = needs[at]

Heard == {
    <<"nickname", <<"ok">>>>,  <<"list", <<"ok">>>>,       <<"quit", <<"ok">>>>,      <<"count", <<"count">>>>,
    <<"name", <<"name">>>>,    <<"max", <<"number">>>>,    <<"clients", <<"number">>>>, <<"listed", <<"ok">>>>,
    <<"room", <<"ok">>>>,      <<"full", <<"ok">>>>,       <<"full", <<"full">>>>,    <<"wait", <<"stopped">>>>,
    <<"over", <<"ok">>>> }

Answered == {
    <<"nickname", <<"nickname">>>>, <<"welcome", <<"ok", "one">>>>, <<"welcome", <<"ok", "two">>>>,
    <<"operation", <<"one">>>>,     <<"operation", <<"two">>>>,     <<"view", <<"ok">>>>,
    <<"counted", <<"ok">>>>,        <<"named", <<"ok">>>>,          <<"sized", <<"ok">>>>,
    <<"listed", <<"ok">>>>,         <<"choice", <<"room">>>>,       <<"chosen", <<"ok">>>>,
    <<"feedback", <<"ok">>>>,       <<"feedback", <<"ok", "stopped">>>>,
    <<"after", <<"ok", "ok">>>>,    <<"after", <<"ok", "one">>>>,   <<"after", <<"ok", "two">>>> }

LEMMA Listeners ==
    ASSUME NEW c \in DOMAIN CliNeeds, NEW s \in DOMAIN SrvNeeds, NEW u, NEW d, <<c, s, u, d>> \in Quiet
    PROVE  <<c, d>> \in Heard \/ <<s, u>> \in Answered
<1>1. c \notin {"menu", "choose", "gone"}
    BY DEF CliNeeds
<1>2. s \notin {"refused", "wait", "paired", "announced", "stopping", "joining", "confirmed", "over"}
    BY DEF SrvNeeds
<1>3. CASE <<c, s, u, d>> \in Arrival
    BY <1>1, <1>2, <1>3 DEF Arrival, Heard, Answered
<1>4. CASE <<c, s, u, d>> \in Listing
    BY <1>1, <1>2, <1>4 DEF Listing, Heard, Answered
<1>5. CASE <<c, s, u, d>> \in Choosing
    BY <1>1, <1>2, <1>5 DEF Choosing, Heard, Answered
<1>6. CASE <<c, s, u, d>> \in Queueing
    BY <1>1, <1>2, <1>6 DEF Queueing, Heard, Answered
<1>7. CASE <<c, s, u, d>> \in Meeting
    BY <1>1, <1>2, <1>7 DEF Meeting, Heard, Answered
<1>8. CASE <<c, s, u, d>> \in Parting
    BY <1>1, <1>2, <1>8 DEF Parting, Heard, Answered
<1> QED BY <1>3, <1>4, <1>5, <1>6, <1>7, <1>8 DEF Quiet

LEMMA ClientFits ==
    ASSUME NEW c, NEW d, <<c, d>> \in Heard
    PROVE  Fits(d, c, CliNeeds)
<1>1. CASE <<c, d>> \in {<<"nickname", <<"ok">>>>, <<"list", <<"ok">>>>, <<"quit", <<"ok">>>>, <<"listed", <<"ok">>>>,
                        <<"room", <<"ok">>>>, <<"full", <<"ok">>>>, <<"full", <<"full">>>>, <<"wait", <<"stopped">>>>,
                        <<"over", <<"ok">>>>}
  <2>1. PICK w \in {"ok", "full", "stopped"} : d = <<w>>
      BY <1>1
  <2>2. c \in {"nickname", "list", "quit", "listed", "room", "full", "wait", "over"}
      BY <1>1
  <2>3. CliNeeds[c] = 2
      BY <2>2 DEF CliNeeds
  <2> QED BY <2>1, <2>3, Short, WordSizes DEF Fits
<1>2. CASE <<c, d>> \in {<<"count", <<"count">>>>, <<"max", <<"number">>>>, <<"clients", <<"number">>>>}
  <2>1. PICK w \in {"count", "number"} : d = <<w>>
      BY <1>2
  <2>2. c \in {"count", "max", "clients"}
      BY <1>2
  <2>3. CliNeeds[c] = 1
      BY <2>2 DEF CliNeeds
  <2> QED BY <2>1, <2>3, Short, WordSizes DEF Fits
<1>3. CASE <<c, d>> = <<"name", <<"name">>>>
  <2>1. c = "name" /\ d = <<"name">>
      BY <1>3
  <2>2. CliNeeds["name"] = NameSize
      BY DEF CliNeeds
  <2> QED BY <2>1, <2>2, Short, WordSizes DEF Fits
<1> QED BY <1>1, <1>2, <1>3 DEF Heard

LEMMA ServerFits ==
    ASSUME NEW s, NEW u, <<s, u>> \in Answered
    PROVE  Fits(u, s, SrvNeeds)
<1>1. CASE <<s, u>> \in {<<"view", <<"ok">>>>, <<"counted", <<"ok">>>>, <<"named", <<"ok">>>>, <<"sized", <<"ok">>>>,
                        <<"listed", <<"ok">>>>, <<"chosen", <<"ok">>>>, <<"feedback", <<"ok">>>>}
  <2>1. u = <<"ok">> /\ s \in {"view", "counted", "named", "sized", "listed", "chosen", "feedback"}
      BY <1>1
  <2>2. SrvNeeds[s] = 2
      BY <2>1 DEF SrvNeeds
  <2> QED BY <2>1, <2>2, Short, WordSizes DEF Fits
<1>2. CASE <<s, u>> \in {<<"welcome", <<"ok", "one">>>>, <<"welcome", <<"ok", "two">>>>,
                        <<"feedback", <<"ok", "stopped">>>>, <<"after", <<"ok", "ok">>>>,
                        <<"after", <<"ok", "one">>>>, <<"after", <<"ok", "two">>>>}
  <2>1. PICK w : u = <<"ok", w>>
      BY <1>2
  <2>2. s \in {"welcome", "feedback", "after"}
      BY <1>2
  <2>3. SrvNeeds[s] = 2
      BY <2>2 DEF SrvNeeds
  <2> QED BY <2>1, <2>3, Short, WordSizes DEF Fits
<1>3. CASE <<s, u>> \in {<<"operation", <<"one">>>>, <<"operation", <<"two">>>>, <<"choice", <<"room">>>>}
  <2>1. PICK w \in {"one", "two", "room"} : u = <<w>>
      BY <1>3
  <2>2. s \in {"operation", "choice"}
      BY <1>3
  <2>3. SrvNeeds[s] = 1
      BY <2>2 DEF SrvNeeds
  <2> QED BY <2>1, <2>3, Short, WordSizes DEF Fits
<1>4. CASE <<s, u>> = <<"nickname", <<"nickname">>>>
  <2>1. s = "nickname" /\ u = <<"nickname">>
      BY <1>4
  <2>2. SrvNeeds["nickname"] = NameSize
      BY DEF SrvNeeds
  <2> QED BY <2>1, <2>2, Short, WordSizes DEF Fits
<1> QED BY <1>1, <1>2, <1>3, <1>4 DEF Answered

\* At the end of a chat the client has the rest of the chat to read.
LEMMA ToldFits ==
    ASSUME NEW c, NEW u, NEW d \in Seq(Words), IsTold(c, "after", u, d)
    PROVE  Fits(d, c, CliNeeds)
<1>1. PICK q \in Chatter, kind \in Endings : d = Greeting(c) \o (q \o Farewell(kind, "after"))
    BY DEF IsTold
<1>2. q \in Seq(Words) /\ Farewell(kind, "after") = <<kind, "ok">> /\ <<kind, "ok">> \in Seq(Words)
    BY Chattered, Short DEF Farewell, Endings, Words
<1>3. q \o <<kind, "ok">> \in Seq(Words)
    BY <1>2, Joined
<1>4. CASE c = "greeting"
  <2>1. <<"nickname">> \in Seq(Words) /\ <<"nickname">> # <<>> /\ Head(<<"nickname">>) = "nickname"
      BY Short DEF Words
  <2>2. d = <<"nickname">> \o (q \o <<kind, "ok">>)
      BY <1>1, <1>2, <1>4 DEF Greeting
  <2>3. d # <<>> /\ Head(d) = "nickname"
      BY <1>3, <2>1, <2>2, Joined
  <2>4. CliNeeds["greeting"] = NameSize
      BY DEF CliNeeds
  <2> QED BY <1>4, <2>3, <2>4, WordSizes DEF Fits
<1>5. CASE c = "chat"
  <2>1. d = q \o <<kind, "ok">>
    <3>1. d = <<>> \o (q \o <<kind, "ok">>) /\ <<>> \in Seq(Words)
        BY <1>1, <1>2, <1>5, Short DEF Greeting
    <3> QED BY <1>3, <3>1, Joined
  <2>2. PICK w \in {"said", "stop", "timec", "idlec"} : d # <<>> /\ Head(d) = w
    <3>1. CASE q # <<>>
        BY <1>2, <2>1, <3>1, Joined, Chattered
    <3>2. CASE q = <<>>
      <4>1. d = <<kind, "ok">>
          BY <1>2, <2>1, <3>2, Joined
      <4> QED BY <4>1, Short DEF Endings
    <3> QED BY <3>1, <3>2
  <2>3. CliNeeds["chat"] = MessageSize
      BY DEF CliNeeds
  <2> QED BY <1>5, <2>2, <2>3, WordSizes DEF Fits
<1> QED BY <1>4, <1>5 DEF IsTold, Chatting

\* The two programs never wait for each other: when both read, one of them has its
\* bytes on the way, unless something has crossed.
THEOREM Answering == Spec => []NeverBothListen
<1>1. IInv => NeverBothListen
  <2> SUFFICES ASSUME IInv, cli \in DOMAIN CliNeeds, srv \in DOMAIN SrvNeeds, ~crossed
               PROVE  Readable(down, CliNeeds[cli]) \/ Readable(up, SrvNeeds[srv])
      BY DEF NeverBothListen
  <2>1. cli # "gone" /\ srv \notin {"closed", "over", "chat"}
      BY DEF CliNeeds, SrvNeeds
  <2>2. PICK c, s : \E u, d \in Seq(Words) : Joint(c, s, u, d)
      BY <2>1 DEF IInv, InStepInv, Ended
  <2>3. PICK u, d \in Seq(Words) : Joint(c, s, u, d)
      BY <2>2
  <2>4. c = cli /\ s = srv /\ up = Chunks(u) /\ down = Chunks(d) /\ InDialogue(c, s, u, d)
      BY <2>1, <2>3 DEF Joint, InPlace
  <2>5. CASE Fits(d, c, CliNeeds)
      BY <2>4, <2>5, WordRead DEF Fits
  <2>6. CASE Fits(u, s, SrvNeeds)
      BY <2>4, <2>6, WordRead DEF Fits
  <2>7. CASE <<c, s, u, d>> \in Quiet
      BY <2>4, <2>5, <2>6, <2>7, Listeners, ClientFits, ServerFits
  <2>8. CASE IsTold(c, s, u, d)
    <3>1. s = "after"
        BY <2>1, <2>4, <2>8 DEF IsTold
    <3> QED BY <2>5, <2>8, <3>1, ToldFits
  <2> QED BY <2>1, <2>4, <2>7, <2>8 DEF InDialogue, Talks, Leaves
<1> QED BY <1>1, StayingInStep, PTL

-----------------------------------------------------------------------------
(***************************************************************************)
(* The types, in or out of step: what a read may leave on a wire, and the  *)
(* rooms that are still to be counted.                                     *)
(***************************************************************************)
Wires == Seq(Written)

\* A room is counted while there is one to send or to read.
RoomsLeft ==
    /\ cli \in {"name", "max", "clients"} => listed # 0
    /\ srv \in {"named", "sized", "listed"} => toList # 0

DialogueInv == TypeOK /\ RoomsLeft

LEMMA WrittenSizes ==
    /\ \A k \in Spoken : Chunk(k) \in Written
    /\ \A n \in Nat \ {0} : [kind |-> "garbled", size |-> n] \in Written
    /\ Written \subseteq [kind : Spoken \cup {"garbled"}, size : Nat \ {0}]
<1>1. \A k \in Spoken : Chunk(k) \in [kind : Spoken \cup {"garbled"}, size : Nat \ {0}]
    BY Sizes DEF Chunk
<1> QED BY <1>1 DEF Written

LEMMA SpokenChunks ==
    ASSUME NEW ws \in Seq(Spoken)
    PROVE  Chunks(ws) \in Wires
<1>1. DOMAIN ws = 1..Len(ws) /\ Len(ws) \in Nat /\ \A i \in 1..Len(ws) : ws[i] \in Spoken
    BY LenProperties, ElementOfSeq
<1>2. Chunks(ws) = [i \in 1..Len(ws) |-> Chunk(ws[i])]
    BY <1>1 DEF Chunks
<1>3. Chunks(ws) \in [1..Len(ws) -> Written]
  <2> HIDE DEF Chunks
  <2>1. \A i \in 1..Len(ws) : Chunk(ws[i]) \in Written
      BY <1>1, WrittenSizes
  <2> QED BY <1>2, <2>1
<1> QED BY <1>1, <1>3, SeqDef DEF Wires

\* What a read leaves on a wire is as it was, but for the word it has cut.
LEMMA RestWritten ==
    ASSUME NEW w \in Wires, NEW count \in Nat \ {0}, Readable(w, count)
    PROVE  Rest(w, count) \in Wires
<1> DEFINE b == Before(w)
           Whole(n) == b[n] <= count /\ (n = Len(w) \/ b[n + 1] > count)
           whole == CHOOSE n \in 0..Len(w) : Whole(n)
           T == {n \in 1..Len(w) : b[n] > count}
<1>1. Len(w) \in Nat /\ (\A i \in 1..Len(w) : w[i] \in Written)
    BY LenProperties, ElementOfSeq DEF Wires
<1>2. w \in Seq([kind : Spoken \cup {"garbled"}, size : Nat \ {0}])
  <2> DEFINE C == [kind : Spoken \cup {"garbled"}, size : Nat \ {0}]
  <2>1. \A i \in 1..Len(w) : w[i] \in C
      BY <1>1, WrittenSizes
  <2> HIDE DEF C
  <2>2. w \in [1..Len(w) -> C]
      BY <1>1, <2>1, LenProperties DEF Wires
  <2>3. w \in Seq(C)
      BY <1>1, <2>2, SeqDef
  <2> QED BY <2>3 DEF C
<1>3. /\ b[0] = 0
      /\ \A n \in 1..Len(w) : b[n] = b[n - 1] + w[n].size
      /\ \A n \in 0..Len(w) : b[n] \in Nat
    BY <1>2, BytesBefore
<1>4. b[Len(w)] >= count
    BY DEF Readable, Bytes
<1> HIDE DEF b
<1>5. \E n \in 0..Len(w) : Whole(n)
  <2>1. CASE T = {}
    <3>1. b[Len(w)] <= count
      <4>1. Len(w) \in 0..Len(w) /\ b[Len(w)] \in Nat /\ (Len(w) # 0 => Len(w) \in 1..Len(w))
          BY <1>1, <1>3
      <4>2. Len(w) # 0 => ~(b[Len(w)] > count)
          BY <2>1, <4>1
      <4> QED BY <1>3, <4>1, <4>2
    <3> QED BY <1>1, <3>1
  <2>2. CASE T # {}
    <3>1. T \subseteq Nat
        BY <1>1
    <3>2. PICK m \in T : \A n \in T : m <= n
      <4> HIDE DEF T
      <4> QED BY <2>2, <3>1, LeastNumber
    <3>3. m \in 1..Len(w) /\ b[m] > count /\ m - 1 \in 0..Len(w) /\ (m - 1) + 1 = m
        BY <1>1, <3>2
    <3>4. b[m - 1] <= count
      <4>1. CASE m = 1
          BY <1>3, <4>1
      <4>2. CASE m # 1
        <5>1. m - 1 \in 1..Len(w) /\ ~(m <= m - 1)
            BY <1>1, <3>3, <4>2
        <5>2. ~(b[m - 1] > count)
            BY <3>2, <5>1
        <5> QED BY <1>3, <3>3, <5>2
      <4> QED BY <4>1, <4>2
    <3>5. Whole(m - 1)
        BY <3>3, <3>4
    <3> QED BY <3>3, <3>5
  <2> QED BY <2>1, <2>2
<1>6. whole \in 0..Len(w) /\ Whole(whole)
  <2> HIDE DEF Whole
  <2> QED BY <1>5
<1> DEFINE begun == count - b[whole]
           cut == [kind |-> "garbled", size |-> w[whole + 1].size - begun]
<1>7. Rest(w, count) = IF begun = 0 THEN SubSeq(w, whole + 1, Len(w))
                                    ELSE <<cut>> \o SubSeq(w, whole + 2, Len(w))
    BY DEF Rest, b
<1> HIDE DEF whole
<1>8. CASE begun = 0
  <2>1. whole + 1 \in Int /\ Len(w) \in Int /\ \A i \in (whole + 1)..Len(w) : w[i] \in Written
      BY <1>1, <1>6
  <2>2. SubSeq(w, whole + 1, Len(w)) \in Seq(Written)
      BY <2>1, SubSeqProperties
  <2> QED BY <1>7, <1>8, <2>2 DEF Wires
<1>9. CASE begun # 0
  <2>1. whole # Len(w)
      BY <1>1, <1>3, <1>4, <1>6, <1>9
  <2>2. whole + 1 \in 1..Len(w) /\ (whole + 1) - 1 = whole /\ b[whole + 1] > count
      BY <1>1, <1>6, <2>1
  <2>3. b[whole + 1] = b[whole] + w[whole + 1].size /\ w[whole + 1].size \in Nat /\ b[whole] \in Nat
      BY <1>1, <1>3, <1>6, <2>2, WrittenSizes
  <2>4. w[whole + 1].size - begun \in Nat \ {0}
      BY <1>6, <2>2, <2>3
  <2>5. <<cut>> \in Seq(Written)
      BY <2>4, WrittenSizes
  <2>6. SubSeq(w, whole + 2, Len(w)) \in Seq(Written)
    <3>1. whole + 2 \in Int /\ Len(w) \in Int /\ \A i \in (whole + 2)..Len(w) : w[i] \in Written
        BY <1>1, <1>6
    <3> QED BY <3>1, SubSeqProperties
  <2>7. <<cut>> \o SubSeq(w, whole + 2, Len(w)) \in Seq(Written)
      BY <2>5, <2>6, ConcatProperties
  <2> QED BY <1>7, <1>9, <2>7 DEF Wires
<1> QED BY <1>8, <1>9

\* What is written follows what is there.
LEMMA WrittenJoined ==
    ASSUME NEW w \in Wires, NEW ws \in Seq(Spoken)
    PROVE  w \o Chunks(ws) \in Wires /\ <<>> \in Wires
BY SpokenChunks, ConcatProperties DEF Wires

-----------------------------------------------------------------------------
\* The fields that only a few steps change.
Marks == {requeued, stopper, isConnected, stopWaiting, chatTimedout, crossed}

LEMMA Reads ==
    ASSUME TypeOK
    PROVE  /\ \A count \in Nat \ {0} : \A kinds : CliReads(count, kinds) => down' \in Wires /\ misread' \in BOOLEAN
           /\ \A count \in Nat \ {0} : \A kinds : HandlerReads(count, kinds) => up' \in Wires /\ misread' \in BOOLEAN
<1>1. up \in Wires /\ down \in Wires /\ misread \in BOOLEAN
    BY DEF TypeOK, Wires
<1>2. ASSUME NEW count \in Nat \ {0}, NEW kinds, CliReads(count, kinds) PROVE down' \in Wires /\ misread' \in BOOLEAN
    BY <1>1, <1>2, RestWritten DEF CliReads
<1>3. ASSUME NEW count \in Nat \ {0}, NEW kinds, HandlerReads(count, kinds) PROVE up' \in Wires /\ misread' \in BOOLEAN
    BY <1>1, <1>3, RestWritten DEF HandlerReads
<1> QED BY <1>2, <1>3

LEMMA Writes ==
    ASSUME TypeOK, NEW to, NEW ws \in Seq(Spoken)
    PROVE  /\ CliGoes(to, ws) => cli' = to /\ up' \in Wires
           /\ Sends(ws) => down' \in Wires
<1>1. up \in Wires /\ down \in Wires
    BY DEF TypeOK, Wires
<1>2. <<>> \in Wires /\ up \o Chunks(ws) \in Wires /\ down \o Chunks(ws) \in Wires
    BY <1>1, WrittenJoined
<1> QED BY <1>1, <1>2 DEF CliGoes, Sends

LEMMA ShortSpoken ==
    /\ <<>> \in Seq(Spoken)
    /\ \A a \in Spoken : <<a>> \in Seq(Spoken)
    /\ \A a, b \in Spoken : <<a, b>> \in Seq(Spoken)
OBVIOUS

LEMMA Spoke ==
    {"one", "two", "room", "count", "number", "nickname", "name", "said", "stop", "timec", "idlec",
     "ok", "exists", "invalid", "full", "stopped"} \subseteq Spoken
BY DEF Spoken, Digits, Names, Messages

LEMMA CliTurns ==
    ASSUME TypeOK, NEW at, NEW count \in Nat \ {0}, NEW moves, CliTurn(at, count, moves),
           \A k \in DOMAIN moves : moves[k][1] \in CliPlaces /\ moves[k][2] \in Seq(Spoken)
    PROVE  /\ up' \in Wires /\ down' \in Wires /\ misread' \in BOOLEAN
           /\ cli' = "gone" \/ \E k \in DOMAIN moves : cli' = moves[k][1]
<1>1. CliReads(count, DOMAIN moves)
    BY DEF CliTurn
<1>2. CASE Got(down, count) \in DOMAIN moves
    BY <1>1, <1>2, Reads, Writes DEF CliTurn
<1>3. CASE Got(down, count) \notin DOMAIN moves
    BY <1>1, <1>3, Reads, Writes, ShortSpoken DEF CliTurn
<1> QED BY <1>2, <1>3

\* What a step of the client may change.
CliTypes ==
    /\ cli' \in CliPlaces /\ up' \in Wires /\ down' \in Wires /\ misread' \in BOOLEAN
    /\ listed' \in 0..RoomCount /\ (cli' \in {"name", "max", "clients"} => listed' # 0)
    /\ {requeued', stopper', crossed'} \subseteq BOOLEAN
    /\ UNCHANGED srvVars

LEMMA ClientTyped ==
    ASSUME DialogueInv, CliTypes
    PROVE  DialogueInv'
BY DEF DialogueInv, CliTypes, TypeOK, RoomsLeft, srvVars, Wires

LEMMA CliPlain ==
    /\ {"menu", "choose", "gone", "nickname", "list", "quit", "count", "name", "max", "clients", "listed", "room",
        "full", "wait", "matched", "greeting", "chat", "over"} = CliPlaces
    /\ {1, 2, NameSize, MessageSize} \subseteq Nat \ {0}
BY Sizes DEF CliPlaces, CliNeeds

\* The words that send the client on.
LEMMA CliWords ==
    ASSUME DialogueInv,
           CliNickname \/ CliList \/ CliQuit \/ CliListed \/ CliTakes \/ CliFull \/ CliWait \/ CliMatched
    PROVE  CliTypes
<1> USE DEF DialogueInv
<1>0. UNCHANGED <<listed, requeued, srvVars, crossed>> /\ stopper' \in BOOLEAN
  <2>1. CASE CliFull
    BY <2>1 DEF CliFull, TypeOK
  <2>2. CASE CliWait
    BY <2>2 DEF CliWait, TypeOK
  <2>3. CASE Same
    BY <2>3 DEF Same, TypeOK
  <2> QED BY <2>1, <2>2, <2>3 DEF CliNickname, CliList, CliQuit, CliListed, CliTakes, CliMatched
<1>1. ASSUME NEW at, NEW moves, CliTurn(at, 2, moves),
             \A k \in DOMAIN moves : /\ moves[k][1] \in CliPlaces \ {"name", "max", "clients"}
                                     /\ moves[k][2] \in Seq(Spoken)
      PROVE  CliTypes
  <2>1. /\ up' \in Wires /\ down' \in Wires /\ misread' \in BOOLEAN
        /\ cli' = "gone" \/ \E k \in DOMAIN moves : cli' = moves[k][1]
      BY <1>1, CliTurns
  <2>2. cli' \in CliPlaces \ {"name", "max", "clients"}
      BY <1>1, <2>1, CliPlain
  <2> QED BY <1>0, <2>1, <2>2 DEF CliTypes, TypeOK
<1> DEFINE Spots == CliPlaces \ {"name", "max", "clients"}
<1>2. {"menu", "gone", "count", "list", "choose", "full", "wait", "matched", "greeting"} \subseteq Spots
    BY CliPlain
<1>3. <<>> \in Seq(Spoken) /\ <<"ok">> \in Seq(Spoken)
    BY ShortSpoken, Spoke
<1> HIDE DEF Spots
<1>4. ASSUME NEW a \in Spots, NEW b \in Spots, NEW v \in Seq(Spoken), NEW x \in Seq(Spoken), NEW at,
             \/ CliTurn(at, 2, [ok |-> <<a, v>>, exists |-> <<b, x>>])
             \/ CliTurn(at, 2, [ok |-> <<a, v>>, invalid |-> <<b, x>>])
             \/ CliTurn(at, 2, [ok |-> <<a, v>>, full |-> <<b, x>>])
             \/ CliTurn(at, 2, [ok |-> <<a, v>>, stopped |-> <<b, x>>])
             \/ CliTurn(at, 2, [ok |-> <<a, v>>])
      PROVE  CliTypes
  <2>1. ASSUME NEW moves, moves \in {[ok |-> <<a, v>>, exists |-> <<b, x>>], [ok |-> <<a, v>>, invalid |-> <<b, x>>],
               [ok |-> <<a, v>>, full |-> <<b, x>>], [ok |-> <<a, v>>, stopped |-> <<b, x>>], [ok |-> <<a, v>>]}
        PROVE  \A k \in DOMAIN moves : moves[k][1] \in Spots /\ moves[k][2] \in Seq(Spoken)
      BY <2>1
  <2> QED BY <1>1, <1>4, <2>1 DEF Spots
<1>5. CASE CliNickname
    BY <1>2, <1>3, <1>4, <1>5 DEF CliNickname
<1>6. CASE CliList
    BY <1>2, <1>3, <1>4, <1>6 DEF CliList
<1>7. CASE CliQuit
    BY <1>2, <1>3, <1>4, <1>7 DEF CliQuit
<1>8. CASE CliListed
    BY <1>2, <1>3, <1>4, <1>8 DEF CliListed
<1>9. CASE CliTakes
    BY <1>2, <1>3, <1>4, <1>9 DEF CliTakes
<1>10. CASE CliFull
    BY <1>2, <1>3, <1>4, <1>10 DEF CliFull
<1>11. CASE CliWait
    BY <1>2, <1>3, <1>4, <1>11 DEF CliWait
<1>12. CASE CliMatched
    BY <1>2, <1>3, <1>4, <1>12 DEF CliMatched
<1> QED BY <1>5, <1>6, <1>7, <1>8, <1>9, <1>10, <1>11, <1>12

\* The rooms are counted down to the last.
LEMMA CliCounts ==
    ASSUME DialogueInv, CliCount \/ CliName \/ CliMax \/ CliClients
    PROVE  CliTypes
<1> USE DEF DialogueInv
<1>1. ASSUME NEW count \in {1, NameSize}, NEW kinds, NEW to, CliReads(count, kinds), CliGoes(to, <<"ok">>)
      PROVE  up' \in Wires /\ down' \in Wires /\ misread' \in BOOLEAN /\ cli' = to
    BY <1>1, CliPlain, Reads, Writes, ShortSpoken, Spoke
<1>2. RoomCount \in Nat \ {0} /\ listed \in 0..RoomCount
    BY CountsArePositive DEF TypeOK
<1>3. CASE CliCount
  <2>1. UNCHANGED <<requeued, stopper, srvVars, crossed>>
      BY <1>3 DEF CliCount
  <2>2. listed' \in {0, RoomCount} /\ CliReads(1, {"count"}) /\ CliGoes(IF listed' = 0 THEN "listed" ELSE "name", <<"ok">>)
      BY <1>3 DEF CliCount
  <2>3. cli' = (IF listed' = 0 THEN "listed" ELSE "name") /\ up' \in Wires /\ down' \in Wires /\ misread' \in BOOLEAN
      BY <1>1, <2>2
  <2> QED BY <1>2, <2>1, <2>2, <2>3, CliPlain DEF CliTypes, TypeOK
<1>4. CASE CliName \/ CliMax
  <2>1. UNCHANGED <<listed, requeued, stopper, srvVars, crossed>>
      BY <1>4 DEF CliName, CliMax, Same
  <2>2. cli \in {"name", "max"} /\ cli' \in {"max", "clients"} /\ up' \in Wires /\ down' \in Wires /\ misread' \in BOOLEAN
      BY <1>1, <1>4 DEF CliName, CliMax, CliRoom
  <2> QED BY <1>2, <2>1, <2>2, CliPlain DEF CliTypes, TypeOK, RoomsLeft
<1>5. CASE CliClients
  <2>1. UNCHANGED <<requeued, stopper, srvVars, crossed>> /\ listed' = listed - 1 /\ listed # 0
      BY <1>5 DEF CliClients, CliRoom, RoomsLeft
  <2>2. /\ cli' = (IF listed = 1 THEN "listed" ELSE "name") /\ up' \in Wires /\ down' \in Wires
        /\ misread' \in BOOLEAN
      BY <1>1, <1>5 DEF CliClients, CliRoom
  <2>3. listed' \in 0..RoomCount /\ (cli' = "name" => listed' # 0)
      BY <1>2, <2>1, <2>2
  <2> QED BY <2>1, <2>2, <2>3, CliPlain DEF CliTypes, TypeOK
<1> QED BY <1>3, <1>4, <1>5

\* Chats, their ends, and the choices of the user.
LEMMA CliTalks ==
    ASSUME DialogueInv, CliGreeting \/ Hear \/ CliOver \/ CliEnds \/ UserStep
    PROVE  CliTypes
<1> USE DEF DialogueInv
<1> DEFINE Spots == {"chat", "over", "wait", "menu", "gone", "list", "quit", "room"}
<1>1. UNCHANGED <<listed, srvVars>>
    BY DEF CliGreeting, Hear, CliOver, CliEnds, UserStep, CliMenu, CliChoose, TypeSTOP, Say, TypeStop, Vanish
<1>2. {requeued', stopper', crossed'} \subseteq BOOLEAN
  <2>1. requeued' \in BOOLEAN
      BY DEF TypeOK, CliGreeting, Hear, CliMessage, CliOver, CliEnds, UserStep, CliMenu, CliChoose, TypeSTOP, Say,
         TypeStop, Vanish
  <2>2. stopper' \in BOOLEAN
      BY DEF TypeOK, CliGreeting, Hear, CliOver, CliEnds, UserStep, CliMenu, CliChoose, TypeSTOP, Say, TypeStop, Vanish
  <2>3. crossed' \in BOOLEAN
      BY DEF TypeOK, CliGreeting, Hear, CliOver, CliEnds, UserStep, CliMenu, CliChoose, TypeSTOP, Say, TypeStop, Vanish
  <2> QED BY <2>1, <2>2, <2>3
<1>3. \E to \in Spots \cup {cli}, ws \in Seq(Spoken) : CliGoes(to, ws) /\ (to = cli => UNCHANGED cli)
  <2>1. /\ <<>> \in Seq(Spoken) /\ <<"ok">> \in Seq(Spoken) /\ <<"ok", "ok">> \in Seq(Spoken) /\ <<"one">> \in Seq(Spoken)
        /\ <<"two">> \in Seq(Spoken) /\ <<"room">> \in Seq(Spoken) /\ <<"stopped">> \in Seq(Spoken)
        /\ <<"said">> \in Seq(Spoken) /\ <<"stop">> \in Seq(Spoken)
      BY ShortSpoken, Spoke
  <2>2. CASE CliGreeting \/ Hear \/ CliEnds \/ Vanish
      BY <2>1, <2>2 DEF CliGreeting, Hear, CliEnds, Vanish, CliGoes
  <2>3. CASE CliOver
      BY <2>1, <2>3 DEF CliOver, CliGoes
  <2>4. CASE CliMenu \/ CliChoose \/ TypeSTOP
      BY <2>1, <2>4 DEF CliMenu, CliChoose, TypeSTOP, CliGoes
  <2>5. CASE Say \/ TypeStop
      BY <2>1, <2>5 DEF Say, TypeStop, CliGoes
  <2> QED BY <2>2, <2>3, <2>4, <2>5 DEF UserStep
<1>4. cli' \in Spots \cup {cli} /\ up' \in Wires
    BY <1>3, Writes
<1>5. down' \in Wires /\ misread' \in BOOLEAN
  <2>1. CASE UNCHANGED <<down, misread>>
      BY <2>1 DEF TypeOK, Wires
  <2>2. CASE \E count \in {2, NameSize, MessageSize} : \E kinds : CliReads(count, kinds)
      BY <2>2, CliPlain, Reads
  <2> QED BY <2>1, <2>2 DEF CliGreeting, Hear, CliMessage, CliOver, CliEnds, UserStep, CliMenu, CliChoose, TypeSTOP, Say,
             TypeStop, Vanish
<1>6. cli' \in CliPlaces /\ (cli' \in {"name", "max", "clients"} => cli' = cli)
    BY <1>4, CliPlain DEF TypeOK
<1> QED BY <1>1, <1>2, <1>4, <1>5, <1>6 DEF CliTypes, TypeOK, RoomsLeft
-----------------------------------------------------------------------------
\* What a step of the server may change.
SrvTypes ==
    /\ srv' \in SrvPlaces /\ up' \in Wires /\ down' \in Wires /\ misread' \in BOOLEAN
    /\ toList' \in 0..RoomCount /\ (srv' \in {"named", "sized", "listed"} => toList' # 0)
    /\ watcher' \in {"none", "reads", "ended"}
    /\ {isConnected', stopWaiting', chatTimedout', crossed'} \subseteq BOOLEAN
    /\ UNCHANGED cliVars

LEMMA ServerTyped ==
    ASSUME DialogueInv, SrvTypes, buffer' \in {"clean", "garbage"}
    PROVE  DialogueInv'
BY DEF DialogueInv, SrvTypes, TypeOK, RoomsLeft, cliVars, Wires

\* The buffer is cleaned after a message, and each chat begins with one of its own.
LEMMA BufferTyped ==
    ASSUME buffer \in {"clean", "garbage"}, SrvStep \/ OthersStep
    PROVE  buffer' \in {"clean", "garbage"}
<1>1. CASE SrvStep
  <2>1. CASE SrvNickname \/ SrvWelcome \/ SrvOperation \/ SrvView \/ SrvLeave \/ SrvCounted \/ SrvNamed \/ SrvSized
             \/ SrvListed \/ SrvChoice \/ SrvChosen \/ SrvFeedback
      BY <2>1 DEF SrvNickname, SrvWelcome, SrvOperation, SrvView, SrvLeave, SrvCounted, SrvNamed, SrvSized, SrvListed,
         SrvChoice, SrvChosen, SrvFeedback, Keep
  <2>2. CASE HandlerFails \/ WatcherReads \/ HandlerDropped \/ HandlerStopped \/ HandlerLeaves \/ HandlerMatched
             \/ HandlerJoins \/ ChatReads \/ ChatLoses \/ HandlerWakes \/ SrvAfter
      BY <2>2 DEF HandlerFails, WatcherReads, HandlerDropped, HandlerStopped, HandlerLeaves, HandlerMatched,
         HandlerJoins, ChatReads, ChatLoses, HandlerWakes, SrvAfter, Keep
  <2> QED BY <1>1, <2>1, <2>2 DEF SrvStep
<1>2. CASE OthersStep
    BY <1>2 DEF OthersStep, Match, Announce, Greet, PeerSays, ChatEnds
<1> QED BY <1>1, <1>2

LEMMA SrvPlain ==
    {"nickname", "welcome", "operation", "view", "leave", "counted", "named", "sized", "listed", "choice", "chosen",
     "feedback", "after", "wait", "paired", "announced", "stopping", "strayed", "joining", "confirmed", "chat", "over",
     "closed"} = SrvPlaces
BY DEF SrvPlaces, SrvNeeds, Waiting

LEMMA Turns ==
    ASSUME TypeOK, NEW at, NEW to, NEW ws \in Seq(Spoken)
    PROVE  /\ HandlerGoes(to, ws) => srv' = to /\ down' \in Wires
           /\ HandlerCloses => srv' = "closed" /\ down' \in Wires
           /\ HandlerTurn(at, to, ws) => srv' \in {to, "closed"} /\ up' \in Wires /\ down' \in Wires /\ misread' \in BOOLEAN
<1>1. HandlerGoes(to, ws) => srv' = to /\ down' \in Wires
    BY Writes DEF HandlerGoes
<1>2. HandlerCloses => srv' = "closed" /\ down' \in Wires
    BY WrittenJoined, ShortSpoken DEF HandlerCloses, TypeOK, Wires
<1>3. ASSUME HandlerTurn(at, to, ws)
      PROVE  srv' \in {to, "closed"} /\ up' \in Wires /\ down' \in Wires /\ misread' \in BOOLEAN
  <2>1. up' \in Wires /\ misread' \in BOOLEAN
      BY <1>3, Reads DEF HandlerTurn
  <2>2. HandlerGoes(to, ws) \/ HandlerCloses
      BY <1>3 DEF HandlerTurn
  <2> QED BY <1>1, <1>2, <2>1, <2>2
<1> QED BY <1>1, <1>2, <1>3

LEMMA Inputs ==
    ASSUME TypeOK, NEW at, NEW next, HandlerInput(at, next)
    PROVE  /\ srv' = at \/ \E k \in DOMAIN next : srv' = next[k]
           /\ up' \in Wires /\ down' \in Wires /\ misread' \in BOOLEAN
<1>1. up' \in Wires /\ misread' \in BOOLEAN
    BY Reads DEF HandlerInput
<1>2. <<"ok">> \in Seq(Spoken) /\ <<"invalid">> \in Seq(Spoken)
    BY ShortSpoken, Spoke
<1> DEFINE got == Got(up, 1)
<1>3. CASE got \in DOMAIN next
  <2>1. HandlerGoes(next[got], <<"ok">>)
      BY <1>3 DEF HandlerInput
  <2> QED BY <1>1, <1>2, <1>3, <2>1, Turns
<1>4. CASE got \notin DOMAIN next
  <2>1. HandlerGoes(at, <<"invalid">>)
      BY <1>4 DEF HandlerInput
  <2> QED BY <1>1, <1>2, <2>1, Turns
<1> QED BY <1>3, <1>4

\* The handler answers what it reads.
LEMMA HandlerAnswers ==
    ASSUME DialogueInv,
           \/ SrvNickname \/ SrvWelcome \/ SrvOperation \/ SrvView \/ SrvLeave \/ SrvCounted \/ SrvNamed \/ SrvSized
           \/ SrvListed \/ SrvChoice \/ SrvChosen \/ SrvFeedback \/ SrvAfter
    PROVE  SrvTypes
<1> USE DEF DialogueInv
<1> DEFINE Reached == srv' \in SrvPlaces /\ up' \in Wires /\ down' \in Wires /\ misread' \in BOOLEAN
           Counts3 == {"named", "sized", "listed"}
<1>1. /\ <<>> \in Seq(Spoken) /\ \A w \in {"ok", "exists", "count", "name", "number", "full"} : <<w>> \in Seq(Spoken)
    BY ShortSpoken, Spoke
<1>2. RoomCount \in Nat \ {0} /\ toList \in 0..RoomCount
    BY CountsArePositive DEF TypeOK
<1>3. ASSUME Keep, Reached, srv' \in Counts3 => srv \in Counts3 PROVE SrvTypes
    BY <1>3 DEF Keep, SrvTypes, TypeOK, RoomsLeft
<1> HIDE DEF Reached
<1>4. CASE SrvNickname
  <2>1. up' \in Wires /\ misread' \in BOOLEAN
      BY <1>4, CliPlain, Reads DEF SrvNickname
  <2>2. srv' \in {"welcome", "closed"} /\ down' \in Wires
      BY <1>1, <1>4, Turns DEF SrvNickname
  <2> QED BY <1>3, <1>4, <2>1, <2>2, SrvPlain DEF SrvNickname, Reached
<1>5. CASE SrvWelcome \/ SrvView \/ SrvAfter
  <2>1. ASSUME NEW at, NEW to \in {"operation", "counted", "feedback"}, NEW ws \in Seq(Spoken), HandlerTurn(at, to, ws)
        PROVE  Reached /\ srv' \notin Counts3
      BY <2>1, Turns, SrvPlain DEF Reached
  <2>2. Reached /\ srv' \notin Counts3
      BY <1>1, <1>5, <2>1 DEF SrvWelcome, SrvView, SrvAfter
  <2> QED BY <1>3, <1>5, <2>2 DEF SrvWelcome, SrvView, SrvAfter
<1>6. CASE SrvOperation
  <2>1. srv' \in {"operation", "view", "leave"} /\ up' \in Wires /\ down' \in Wires /\ misread' \in BOOLEAN
      BY <1>6, Inputs DEF SrvOperation
  <2> QED BY <1>3, <1>6, <2>1, SrvPlain DEF SrvOperation, Reached
<1>7. CASE SrvChoice
  <2>1. srv' \in {"choice", "chosen"} /\ up' \in Wires /\ down' \in Wires /\ misread' \in BOOLEAN
      BY <1>7, Inputs DEF SrvChoice
  <2> QED BY <1>3, <1>7, <2>1, SrvPlain DEF SrvChoice, Reached
<1>8. CASE SrvLeave
  <2>1. up' \in Wires /\ misread' \in BOOLEAN /\ srv' = "closed" /\ down' \in Wires
      BY <1>1, <1>8, CliPlain, Reads, Turns DEF SrvLeave
  <2> QED BY <1>3, <1>8, <2>1, SrvPlain DEF SrvLeave, Reached
<1>9. CASE SrvCounted
  <2>1. srv' \in {"named", "closed"} /\ up' \in Wires /\ down' \in Wires /\ misread' \in BOOLEAN
      BY <1>1, <1>9, Turns DEF SrvCounted
  <2>2. toList' = RoomCount /\ UNCHANGED <<cliVars, watcher, isConnected, stopWaiting, chatTimedout, crossed>>
      BY <1>9 DEF SrvCounted
  <2> QED BY <1>2, <2>1, <2>2, SrvPlain DEF SrvTypes, TypeOK
<1>10. CASE SrvNamed \/ SrvSized
  <2>1. PICK to \in {"sized", "listed"} : HandlerTurn(srv, to, <<"number">>) /\ srv \in Counts3
      BY <1>10 DEF SrvNamed, SrvSized, HandlerTurn
  <2>2. Reached
      BY <1>1, <2>1, Turns, SrvPlain DEF Reached
  <2> QED BY <1>3, <1>10, <2>1, <2>2 DEF SrvNamed, SrvSized
<1>11. CASE SrvListed
  <2>1. srv = "listed" /\ toList # 0
      BY <1>11 DEF SrvListed, HandlerTurn, RoomsLeft
  <2>2. toList' = toList - 1 /\ UNCHANGED <<cliVars, watcher, isConnected, stopWaiting, chatTimedout, crossed>>
      BY <1>11 DEF SrvListed
  <2>3. /\ srv' \in {IF toList = 1 THEN "choice" ELSE "named", "closed"}
        /\ up' \in Wires /\ down' \in Wires /\ misread' \in BOOLEAN
      BY <1>1, <1>11, Turns DEF SrvListed
  <2>4. toList' \in 0..RoomCount /\ (srv' = "named" => toList' # 0)
      BY <1>2, <2>1, <2>2, <2>3
  <2> QED BY <2>2, <2>3, <2>4, SrvPlain DEF SrvTypes, TypeOK
<1>12. CASE SrvChosen
  <2>1. PICK to \in {"feedback", "operation"}, ws \in {<<"ok">>, <<"full">>} : HandlerTurn("chosen", to, ws)
      BY <1>12 DEF SrvChosen
  <2>2. Reached /\ srv' \notin Counts3
      BY <1>1, <2>1, Turns, SrvPlain DEF Reached
  <2> QED BY <1>3, <1>12, <2>2 DEF SrvChosen
<1>13. CASE SrvFeedback
  <2>1. srv' \in {"wait", "closed"} /\ up' \in Wires /\ down' \in Wires /\ misread' \in BOOLEAN
      BY <1>1, <1>13, Turns DEF SrvFeedback
  <2>2. /\ watcher' \in {watcher, "reads"} /\ chatTimedout' \in BOOLEAN
        /\ UNCHANGED <<cliVars, toList, isConnected, stopWaiting, crossed>>
      BY <1>13 DEF SrvFeedback
  <2> QED BY <2>1, <2>2, SrvPlain DEF SrvTypes, TypeOK
<1> QED BY <1>4, <1>5, <1>6, <1>7, <1>8, <1>9, <1>10, <1>11, <1>12, <1>13

\* The wait, the chat, and what ends them.
LEMMA ServerActs ==
    ASSUME DialogueInv,
           \/ HandlerFails \/ WatcherReads \/ HandlerDropped \/ HandlerStopped \/ HandlerLeaves \/ HandlerMatched
           \/ HandlerJoins \/ ChatReads \/ ChatLoses \/ HandlerWakes \/ OthersStep
    PROVE  SrvTypes
<1> USE DEF DialogueInv
<1> DEFINE Aims == {"closed", "stopping", "strayed", "operation", "joining", "confirmed", "over", "chat", "after",
                    "paired", "announced"}
           Ends == {"stop", "timec", "idlec"}
<1>1. UNCHANGED <<cliVars, toList>>
    BY DEF HandlerFails, WatcherReads, HandlerDropped, HandlerStopped, HandlerLeaves, HandlerMatched, HandlerJoins,
       ChatReads, ChatLoses, HandlerWakes, OthersStep, Match, Announce, Greet, PeerSays, ChatEnds, Keep, srvVars
<1>2. watcher' \in {watcher, "ended"}
    BY DEF HandlerFails, WatcherReads, HandlerDropped, HandlerStopped, HandlerLeaves, HandlerMatched, HandlerJoins,
       ChatReads, ChatLoses, HandlerWakes, OthersStep, Match, Announce, Greet, PeerSays, ChatEnds, Keep, srvVars
<1>3. {isConnected', stopWaiting', chatTimedout', crossed'} \subseteq BOOLEAN
  <2>1. CASE WatcherReads
    <3>1. UNCHANGED <<chatTimedout, crossed>> /\ isConnected' \in BOOLEAN /\ stopWaiting' \in BOOLEAN
        BY <2>1 DEF WatcherReads, TypeOK
    <3> QED BY <3>1 DEF TypeOK
  <2>2. CASE HandlerLeaves \/ ChatLoses
      BY <2>2 DEF HandlerLeaves, ChatLoses, TypeOK
  <2>3. CASE ChatReads
    <3>1. UNCHANGED <<isConnected, stopWaiting, chatTimedout>> /\ crossed' \in BOOLEAN
        BY <2>3 DEF ChatReads, TypeOK
    <3> QED BY <3>1 DEF TypeOK
  <2>4. CASE Keep
      BY <2>4 DEF Keep, TypeOK
  <2>5. CASE Match \/ Announce
    <3>1. UNCHANGED <<isConnected, stopWaiting, chatTimedout>> /\ crossed' \in BOOLEAN
        BY <2>5 DEF Match, Announce, TypeOK
    <3> QED BY <3>1 DEF TypeOK
  <2>6. CASE Greet \/ PeerSays
    <3>1. UNCHANGED <<isConnected, stopWaiting, chatTimedout>> /\ crossed' \in BOOLEAN
        BY <2>6 DEF Greet, PeerSays, TypeOK, srvVars
    <3> QED BY <3>1 DEF TypeOK
  <2>7. CASE \E kind \in Ends : ChatEnds(kind)
    <3>1. UNCHANGED <<isConnected, stopWaiting>> /\ chatTimedout' \in BOOLEAN /\ crossed' \in BOOLEAN
        BY <2>7 DEF ChatEnds, TypeOK
    <3> QED BY <3>1 DEF TypeOK
  <2> QED BY <2>1, <2>2, <2>3, <2>4, <2>5, <2>6, <2>7 DEF HandlerFails, HandlerDropped, HandlerStopped, HandlerMatched,
             HandlerJoins, HandlerWakes, OthersStep
<1>4. up' \in Wires /\ misread' \in BOOLEAN
  <2>1. CASE UNCHANGED <<up, misread>>
      BY <2>1 DEF TypeOK, Wires
  <2>2. CASE \E count \in {2, MessageSize} : \E kinds : HandlerReads(count, kinds)
      BY <2>2, CliPlain, Reads
  <2> QED BY <2>1, <2>2 DEF HandlerFails, WatcherReads, HandlerDropped, HandlerStopped, HandlerLeaves, HandlerMatched,
             HandlerJoins, ChatReads, ChatLoses, HandlerWakes, OthersStep, Match, Announce, Greet, PeerSays, ChatEnds
<1>5. down' \in Wires /\ srv' \in Aims \cup {srv}
  <2>1. /\ <<>> \in Seq(Spoken)
        /\ \A w \in {"ok", "stopped", "nickname", "said", "stop", "timec", "idlec"} : <<w>> \in Seq(Spoken)
      BY ShortSpoken, Spoke
  <2>2. CASE UNCHANGED down /\ srv' \in Aims \cup {srv}
      BY <2>2 DEF TypeOK, Wires
  <2>3. CASE HandlerCloses
      BY <2>1, <2>3, Turns
  <2>4. ASSUME NEW ws \in Seq(Spoken), Sends(ws), srv' \in Aims \cup {srv} PROVE down' \in Wires /\ srv' \in Aims \cup {srv}
      BY <2>4, Writes
  <2>5. CASE HandlerFails \/ HandlerDropped \/ HandlerJoins \/ HandlerWakes
      BY <2>1, <2>3, <2>4, <2>5 DEF HandlerFails, HandlerDropped, HandlerJoins, HandlerWakes, HandlerGoes
  <2>6. CASE WatcherReads \/ HandlerLeaves \/ ChatLoses \/ Announce
      BY <2>2, <2>6 DEF WatcherReads, HandlerLeaves, ChatLoses, Announce
  <2>7. CASE HandlerStopped \/ HandlerMatched \/ Match \/ Greet
      BY <2>1, <2>4, <2>7 DEF HandlerStopped, HandlerMatched, HandlerGoes, Match, Greet
  <2>8. CASE PeerSays
      BY <2>1, <2>4, <2>8 DEF PeerSays, srvVars
  <2>9. CASE \E kind \in Ends : ChatEnds(kind)
    <3>1. PICK kind \in Ends : ChatEnds(kind)
        BY <2>9
    <3>2. PICK told \in ToldAs(kind) : Sends(<<told>>)
        BY <3>1 DEF ChatEnds
    <3>3. srv' = "over" /\ <<told>> \in Seq(Spoken)
        BY <2>1, <3>1, <3>2 DEF ChatEnds, ToldAs
    <3> QED BY <2>4, <3>2, <3>3
  <2>10. CASE ChatReads
    <3>1. PICK to \in {"over", "chat"}, ws \in {<<>>, <<"said">>, <<"stop">>} : HandlerGoes(to, ws)
        BY <2>10 DEF ChatReads
    <3> QED BY <2>1, <2>4, <3>1 DEF HandlerGoes
  <2> QED BY <2>5, <2>6, <2>7, <2>8, <2>9, <2>10 DEF OthersStep
<1>6. srv' \in SrvPlaces /\ (srv' \in {"named", "sized", "listed"} => srv' = srv)
    BY <1>5, SrvPlain DEF TypeOK
<1> QED BY <1>1, <1>2, <1>3, <1>4, <1>5, <1>6 DEF SrvTypes, TypeOK, RoomsLeft

\* Whatever is cut and joined, no chunk on either wire is empty or of another length
\* than the word it is taken for; the counts of rooms end at zero.
THEOREM Typing == Spec => []TypeOK
<1>1. Init => DialogueInv
  <2> SUFFICES ASSUME Init PROVE DialogueInv
      OBVIOUS
  <2>1. <<"nickname">> \in Seq(Spoken) /\ <<>> \in Seq(Spoken)
      BY ShortSpoken, Spoke
  <2>2. up \in Wires /\ down \in Wires
    <3>1. Chunks(<<"nickname">>) \in Wires
        BY <2>1, SpokenChunks
    <3>2. <<>> \in Wires
        BY DEF Wires
    <3> QED BY <3>1, <3>2 DEF Init
  <2>3. cli \in CliPlaces /\ srv \in SrvPlaces
      BY CliPlain, SrvPlain DEF Init
  <2>4. RoomCount \in Nat
      BY CountsArePositive
  <2>5. /\ listed = 0 /\ toList = 0 /\ watcher = "none" /\ cli = "nickname" /\ srv = "nickname"
        /\ {requeued, stopper, isConnected, stopWaiting, chatTimedout, misread, crossed} \subseteq BOOLEAN
        /\ buffer \in {"clean", "garbage"}
      BY DEF Init
  <2> QED BY <2>2, <2>3, <2>4, <2>5 DEF DialogueInv, TypeOK, RoomsLeft, Wires
<1>2. DialogueInv /\ [Next]_vars => DialogueInv'
  <2> SUFFICES ASSUME DialogueInv, [Next]_vars PROVE DialogueInv'
      OBVIOUS
  <2>1. CASE UNCHANGED vars
      BY <2>1 DEF vars, cliVars, srvVars, DialogueInv, TypeOK, RoomsLeft
  <2>2. CASE CliStep \/ UserStep
      BY <2>2, CliWords, CliCounts, CliTalks, ClientTyped DEF CliStep
  <2>3. CASE SrvStep \/ OthersStep
    <3>1. buffer \in {"clean", "garbage"}
        BY DEF DialogueInv, TypeOK
    <3> QED BY <2>3, <3>1, BufferTyped, HandlerAnswers, ServerActs, ServerTyped DEF SrvStep
  <2> QED BY <2>1, <2>2, <2>3 DEF Next
<1>3. DialogueInv => TypeOK
    BY DEF DialogueInv
<1> QED BY <1>1, <1>2, <1>3, PTL DEF Spec
=============================================================================
