----------------------------- MODULE PlaceProofs ----------------------------
(***************************************************************************)
(* Where the clients are, as long as nobody types STOP and no handler takes*)
(* a namesake of its client out of a queue: in one queue, once, or in one  *)
(* chat, or in none, whoever drops at whatever moment.  From this follows  *)
(* that the server implements the lobby, and what it remembers of a        *)
(* client's last assignment.  And how many clients the rooms count.        *)
(***************************************************************************)
EXTENDS LobbyRefinement, MatchHistory, MatchmakingProofs

\* The hypotheses of what follows.  With STOP it does not hold.  deleteNodeQueue
\* goes by the nickname, and two clients on the server may have the same one: the
\* registry is asked in one critical section and told in another.  So it is a
\* hypothesis on the behaviour that no deletion hits a namesake, that is, whenever
\* a handler is about to delete, nobody with its client's nickname stands before
\* its client in that queue, and nobody at all if its client does not.
NobodyStops   == MayStop = {}
DeletesItself ==
    \A c \in Client : pc[c] = "drop_delete" =>
      \A i \in 1..Len(coda[choice[c]]) :
        NicknameOf[coda[choice[c]][i]] = NicknameOf[c] =>
          \E j \in 1..i : coda[choice[c]][j] = c

\* The places of a handler whose client waits for a match, of one that has been
\* told of it, and of one that has found its client disconnected.
Waiting  == {"await", "block"}
Meeting  == {"dispatch", "match_join", "park", "park_block"}
Dropping == {"drop_delete", "drop_signal", "drop_join"}

\* Chat k has client c, whose flag it has not cleared yet; it has not yet marked
\* its pair.
Engaged(k)  == chatPC[k] \notin {"free", "wake2", "wake1"}
Holds(k, c) ==
    /\ Engaged(k) /\ c \in ChatPair(k)
    /\ chatPC[k] = "close2" => c = client2[k]
Unmarked(k) == chatPC[k] \in {"lock1", "lock2"}

\* What is known of a client in a queue: the handler still waits, or it goes to
\* take its client out.
WaitsIn(c, r) ==
    /\ currentRoom[c] = r /\ choice[c] = r
    /\ ~deletedFromQueue[c]
    /\ pc[c] \in Waiting \cup {"dispatch", "drop_delete"}
    /\ isConnected[c] => pc[c] \in Waiting
    /\ \A k \in Chat : ~Holds(k, c)

\* What is known of a client in a chat: it is in no other, and its handler, as
\* long as it is connected, has not gone beyond the wait for the chat's end,
\* nor beyond the wait for a match before the chat has marked it.
MeetsIn(c, k) ==
    /\ client1[k] # client2[k]
    /\ \A l \in Chat : Holds(l, c) => l = k
    /\ pc[c] \notin {"menu", "check", "refuse", "admit", "feedback", "enqueue"}
    /\ isConnected[c] => pc[c] \in Waiting \cup Meeting
    /\ isConnected[c] /\ Unmarked(k) => pc[c] \in Waiting
    /\ Unmarked(k) <=> ~isMatched[c]

PlaceOf(c) ==
    /\ ~stopWaiting[c] /\ pc[c] \notin {"stop_delete", "stop_join"}
    /\ pc[c] \in Dropping => ~isConnected[c]
    /\ deletedFromQueue[c] => /\ ~isConnected[c]
                              /\ pc[c] \in Waiting \cup Dropping \cup {"dispatch"}
    /\ \A r \in Room : c \in ToSet(coda[r]) => WaitsIn(c, r)
    /\ \A k \in Chat : Holds(k, c) => MeetsIn(c, k)
    /\ isMatched[c] => \E k \in Chat : Holds(k, c) /\ ~Unmarked(k)

PlaceInv ==
    /\ \A r \in Room : IsInjective(coda[r])
    /\ \A c \in Client : PlaceOf(c)

-----------------------------------------------------------------------------
\* At the start everybody is at the menu.
LEMMA InitPlaceInv == Init => PlaceInv
<1> SUFFICES ASSUME Init PROVE PlaceInv
    OBVIOUS
<1>1. \A r \in Room : ToSet(coda[r]) = {} /\ IsInjective(coda[r])
    BY DEF Init, ToSet, IsInjective
<1>2. \A k \in Chat : ~Engaged(k)
    BY DEF Init, Engaged
<1> QED BY <1>1, <1>2 DEF Init, PlaceInv, PlaceOf, Holds, Dropping

\* A step that moves nobody in a queue or a chat, and that one handler takes.
LEMMA HandlerFrame ==
    ASSUME PlaceInv, NEW c \in Client,
           UNCHANGED <<coda, isMatched, stopWaiting, chatPC, client1, client2>>,
           \A d \in Client \ {c} :
               /\ pc'[d] = pc[d]
               /\ isConnected'[d] = isConnected[d]
               /\ deletedFromQueue'[d] = deletedFromQueue[d]
               /\ currentRoom'[d] = currentRoom[d] /\ choice'[d] = choice[d],
           PlaceOf(c)'
    PROVE  PlaceInv'
<1>1. \A k \in Chat : Unmarked(k)' = Unmarked(k) /\ \A d \in Client : Holds(k, d)' = Holds(k, d)
    BY DEF Unmarked, Holds, Engaged, ChatPair
<1>2. ASSUME NEW d \in Client \ {c} PROVE PlaceOf(d)'
    BY <1>1 DEF PlaceInv, PlaceOf, WaitsIn, MeetsIn
<1> QED BY <1>2 DEF PlaceInv

\* Such a step of a handler that leaves the flags of its client, but may find it
\* disconnected.
LEMMA MovePlaceInv ==
    ASSUME TypeInv, PlaceInv, NEW c \in Client, NEW from, NEW to \in HandlerPC,
           Moves(c, from, to), NEW lost \in SUBSET {c},
           isConnected' = Disconnect(lost) \/ UNCHANGED isConnected,
           UNCHANGED <<coda, isMatched, stopWaiting, deletedFromQueue, currentRoom, choice,
                       chatPC, client1, client2>>,
           to \notin {"stop_delete", "stop_join"},
           to \in Dropping => ~isConnected'[c],
           deletedFromQueue[c] => to \in Waiting \cup Dropping \cup {"dispatch"},
           \A r \in Room : c \in ToSet(coda[r]) =>
               /\ to \in Waiting \cup {"dispatch", "drop_delete"}
               /\ isConnected'[c] => to \in Waiting,
           \A k \in Chat : Holds(k, c) =>
               /\ to \notin {"menu", "check", "refuse", "admit", "feedback", "enqueue"}
               /\ isConnected'[c] => to \in Waiting \cup Meeting
               /\ isConnected'[c] /\ Unmarked(k) => to \in Waiting
    PROVE  PlaceInv'
<1>1. /\ pc'[c] = to /\ \A d \in Client \ {c} : pc'[d] = pc[d]
      /\ isConnected'[c] => isConnected[c]
      /\ \A d \in Client \ {c} : isConnected'[d] = isConnected[d]
    BY DEF TypeInv, TypeOK, Moves, Disconnect
<1>2. \A k \in Chat : Unmarked(k)' = Unmarked(k) /\ \A d \in Client : Holds(k, d)' = Holds(k, d)
    BY DEF Unmarked, Holds, Engaged, ChatPair
<1>3. PlaceOf(c)
    BY DEF PlaceInv
<1>4. ASSUME NEW r \in Room, c \in ToSet(coda'[r]) PROVE WaitsIn(c, r)'
    BY <1>1, <1>2, <1>3, <1>4 DEF PlaceOf, WaitsIn
<1>5. ASSUME NEW k \in Chat, Holds(k, c)' PROVE MeetsIn(c, k)'
    BY <1>1, <1>2, <1>3, <1>5 DEF PlaceOf, MeetsIn
<1>6. PlaceOf(c)'
    BY <1>1, <1>2, <1>3, <1>4, <1>5 DEF PlaceOf
<1> QED BY <1>1, <1>6, HandlerFrame

-----------------------------------------------------------------------------
\* A client enters a queue: it was in none, and in no chat.
LEMMA EnqueueEffect ==
    ASSUME TypeInv, PlaceInv, NEW c \in Client, Enqueue(c)
    PROVE  /\ \A x \in Room : c \notin ToSet(coda[x])
           /\ \A k \in Chat : ~Holds(k, c)
           /\ \A x \in Room :
                /\ ToSet(coda'[x]) = IF x = choice[c] THEN ToSet(coda[x]) \cup {c}
                                                     ELSE ToSet(coda[x])
                /\ IsInjective(coda'[x])
<1>1. pc[c] = "enqueue" /\ coda' = [coda EXCEPT ![choice[c]] = Append(@, c)]
    BY DEF Enqueue, Moves
<1>2. (\A x \in Room : c \notin ToSet(coda[x])) /\ (\A k \in Chat : ~Holds(k, c))
    BY <1>1 DEF PlaceInv, PlaceOf, WaitsIn, MeetsIn, Waiting
<1>3. ASSUME NEW x \in Room
      PROVE  /\ ToSet(coda'[x]) = IF x = choice[c] THEN ToSet(coda[x]) \cup {c}
                                                   ELSE ToSet(coda[x])
             /\ IsInjective(coda'[x])
  <2>1. IsInjective(coda[x]) /\ coda[x] \in Seq(Client) /\ coda \in [Room -> Seq(Client)]
    BY DEF PlaceInv, TypeInv, TypeOK
  <2>2. CASE x = choice[c]
    <3>1. coda'[x] = Append(coda[x], c)
      BY <1>1, <2>1, <2>2
    <3> QED BY <1>2, <2>1, <2>2, <3>1, AppendOnce
  <2>3. CASE x # choice[c]
    <3>1. coda'[x] = coda[x]
      BY <1>1, <2>1, <2>3
    <3> QED BY <2>1, <2>3, <3>1
  <2> QED BY <2>2, <2>3
<1> QED BY <1>2, <1>3

LEMMA EnqueuePlaceInv ==
    ASSUME TypeInv, PlaceInv, NEW c \in Client, Enqueue(c)
    PROVE  PlaceInv'
<1>1. /\ pc[c] = "enqueue" /\ pc' = [pc EXCEPT ![c] = "await"]
      /\ currentRoom' = [currentRoom EXCEPT ![c] = choice[c]]
      /\ UNCHANGED <<isConnected, isMatched, stopWaiting, deletedFromQueue, choice, chatPC,
                     client1, client2>>
    BY DEF Enqueue, Moves
<1>2. /\ pc \in [Client -> HandlerPC]
      /\ currentRoom \in [Client -> Room \cup {NoRoom}]
    BY DEF TypeInv, TypeOK
<1>3. \A k \in Chat : Unmarked(k)' = Unmarked(k) /\ \A d \in Client : Holds(k, d)' = Holds(k, d)
    BY <1>1 DEF Unmarked, Holds, Engaged, ChatPair
<1>4. PlaceOf(c) /\ (\A x \in Room : c \notin ToSet(coda[x])) /\ (\A k \in Chat : ~Holds(k, c))
    BY EnqueueEffect DEF PlaceInv
<1>5. \A x \in Room :
        /\ ToSet(coda'[x]) = IF x = choice[c] THEN ToSet(coda[x]) \cup {c} ELSE ToSet(coda[x])
        /\ IsInjective(coda'[x])
    BY EnqueueEffect
<1>6. PlaceOf(c)'
    BY <1>1, <1>2, <1>3, <1>4, <1>5 DEF PlaceOf, WaitsIn, Waiting, Dropping
<1>7. ASSUME NEW d \in Client \ {c} PROVE PlaceOf(d)'
  <2>1. PlaceOf(d) /\ \A x \in Room : d \in ToSet(coda'[x]) => d \in ToSet(coda[x])
    BY <1>5 DEF PlaceInv
  <2> QED BY <1>1, <1>2, <1>3, <2>1 DEF PlaceOf, WaitsIn, MeetsIn
<1> QED BY <1>5, <1>6, <1>7 DEF PlaceInv

\* A client that was found disconnected is taken out of its queue, if the matcher
\* has not done so first.
LEMMA DropEffect ==
    ASSUME DeletesItself, TypeInv, PlaceInv, NEW c \in Client, DropDelete(c)
    PROVE  /\ \A x \in Room : c \in ToSet(coda[x]) => x = choice[c]
           /\ \A x \in Room : /\ ToSet(coda'[x]) = ToSet(coda[x]) \ {c}
                            /\ IsInjective(coda'[x])
<1> DEFINE r == choice[c]
<1>1. coda' = [coda EXCEPT ![r] = DeleteNickname(@, NicknameOf[c], NicknameOf)]
    BY DEF DropDelete, LeavesQueue
<1>2. \A x \in Room : c \in ToSet(coda[x]) => x = r
    BY DEF PlaceInv, PlaceOf, WaitsIn
<1>3. ASSUME NEW x \in Room
      PROVE  ToSet(coda'[x]) = ToSet(coda[x]) \ {c} /\ IsInjective(coda'[x])
  <2>1. IsInjective(coda[x]) /\ coda[x] \in Seq(Client) /\ coda \in [Room -> Seq(Client)]
    BY DEF PlaceInv, TypeInv, TypeOK
  <2>2. CASE x = r
    <3>1. coda'[x] = DeleteNickname(coda[x], NicknameOf[c], NicknameOf)
      BY <1>1, <2>1, <2>2
    <3>2. \A i \in 1..Len(coda[x]) :
              NicknameOf[coda[x][i]] = NicknameOf[c] => \E j \in 1..i : coda[x][j] = c
      <4>1. pc[c] = "drop_delete"
        BY DEF DropDelete, LeavesQueue, Moves
      <4> QED BY <2>2, <4>1 DEF DeletesItself
    <3> DEFINE q == coda[x]
    <3>3. /\ q \in Seq(Client) /\ IsInjective(q)
          /\ \A i \in 1..Len(q) : NicknameOf[q[i]] = NicknameOf[c] => \E j \in 1..i : q[j] = c
      BY <2>1, <3>2
    <3> HIDE DEF q
    <3>4. /\ ToSet(DeleteNickname(q, NicknameOf[c], NicknameOf)) = ToSet(q) \ {c}
          /\ IsInjective(DeleteNickname(q, NicknameOf[c], NicknameOf))
      BY <3>3, DeleteNicknameOnce
    <3> QED BY <3>1, <3>4 DEF q
  <2>3. CASE x # r
    <3>1. coda'[x] = coda[x] /\ c \notin ToSet(coda[x])
      BY <1>1, <1>2, <2>1, <2>3
    <3> QED BY <2>1, <3>1
  <2> QED BY <2>2, <2>3
<1> QED BY <1>2, <1>3

LEMMA DropPlaceInv ==
    ASSUME DeletesItself, TypeInv, PlaceInv, NEW c \in Client, DropDelete(c)
    PROVE  PlaceInv'
<1>1. /\ pc[c] = "drop_delete" /\ pc' = [pc EXCEPT ![c] = "drop_signal"]
      /\ deletedFromQueue' = [deletedFromQueue EXCEPT ![c] = TRUE]
      /\ UNCHANGED <<isConnected, isMatched, stopWaiting, currentRoom, choice, chatPC,
                     client1, client2>>
    BY DEF DropDelete, LeavesQueue, Moves, matchVars
<1>2. pc \in [Client -> HandlerPC] /\ deletedFromQueue \in [Client -> BOOLEAN]
    BY DEF TypeInv, TypeOK
<1>3. \A k \in Chat : Unmarked(k)' = Unmarked(k) /\ \A d \in Client : Holds(k, d)' = Holds(k, d)
    BY <1>1 DEF Unmarked, Holds, Engaged, ChatPair
<1>4. PlaceOf(c) /\ ~isConnected[c]
    BY <1>1 DEF PlaceInv, PlaceOf, Dropping
<1>5. \A x \in Room : ToSet(coda'[x]) = ToSet(coda[x]) \ {c} /\ IsInjective(coda'[x])
    BY DropEffect
<1>6. PlaceOf(c)'
    BY <1>1, <1>2, <1>3, <1>4, <1>5 DEF PlaceOf, MeetsIn, Waiting, Dropping
<1>7. ASSUME NEW d \in Client \ {c} PROVE PlaceOf(d)'
  <2>1. PlaceOf(d) /\ \A x \in Room : d \in ToSet(coda'[x]) => d \in ToSet(coda[x])
    BY <1>5 DEF PlaceInv
  <2> QED BY <1>1, <1>2, <1>3, <2>1 DEF PlaceOf, WaitsIn, MeetsIn
<1> QED BY <1>5, <1>6, <1>7 DEF PlaceInv

\* A handler keeps everybody in place.
LEMMA HandlerPlaceInv ==
    ASSUME DeletesItself, TypeInv, PlaceInv, NEW c \in Client, HandlerStep(c)
    PROVE  PlaceInv'
<1> USE DEF roomVars, flagVars, matchVars, otherFlags, HandlerPC, Waiting, Meeting, Dropping
<1>1. isConnected \in [Client -> BOOLEAN]
    BY DEF TypeInv, TypeOK
<1>2. /\ \A r \in Room : c \in ToSet(coda[r]) =>
            /\ pc[c] \in Waiting \cup {"dispatch", "drop_delete"}
            /\ isConnected[c] => pc[c] \in Waiting
            /\ ~deletedFromQueue[c] /\ ~isMatched[c]
      /\ \A k \in Chat : Holds(k, c) =>
            /\ pc[c] \notin {"menu", "check", "refuse", "admit", "feedback", "enqueue"}
            /\ isConnected[c] => pc[c] \in Waiting \cup Meeting
            /\ isConnected[c] /\ Unmarked(k) => pc[c] \in Waiting
            /\ Unmarked(k) <=> ~isMatched[c]
    BY DEF PlaceInv, PlaceOf, WaitsIn, MeetsIn
<1>3. /\ ~stopWaiting[c] /\ pc[c] \notin {"stop_delete", "stop_join"}
      /\ pc[c] \in Dropping => ~isConnected[c]
      /\ deletedFromQueue[c] => /\ ~isConnected[c]
                                /\ pc[c] \in Waiting \cup Dropping \cup {"dispatch"}
    BY DEF PlaceInv, PlaceOf
<1>4. ASSUME NEW lost \in SUBSET {c}, AnswersFull(c, lost) \/ AnswersSpace(c, lost) PROVE PlaceInv'
  <2>1. isConnected' = Disconnect(lost) /\ (isConnected'[c] => isConnected[c])
    BY <1>1, <1>4 DEF AnswersFull, AnswersSpace, Answered, LosesOnly, Disconnect
  <2>2. pc[c] \in {"refuse", "admit"}
    BY <1>4 DEF AnswersFull, AnswersSpace, Answered, Moves
  <2>3. \E to \in {"leave", "feedback", "exit"} : Moves(c, pc[c], to)
    BY <1>4, <2>2 DEF AnswersFull, AnswersSpace, Answered, Moves
  <2>4. UNCHANGED <<coda, isMatched, stopWaiting, deletedFromQueue, currentRoom, choice,
                    chatPC, client1, client2>>
    BY <1>4 DEF AnswersFull, AnswersSpace, Answered
  <2> QED BY <1>2, <1>3, <2>1, <2>2, <2>3, <2>4, MovePlaceInv DEF Moves
<1>5. ASSUME NEW lost \in SUBSET {c}, DispatchMatched(c, lost) PROVE PlaceInv'
  <2>1. isConnected' = Disconnect(lost) /\ isConnected'[c] = (c \notin lost)
    BY <1>1, <1>5 DEF DispatchMatched, LosesOnly, Disconnect
  <2> QED BY <1>2, <1>3, <1>5, <2>1, MovePlaceInv DEF DispatchMatched, Moves
<1>6. ASSUME NEW lost \in SUBSET {c}, AfterChat(c, lost) PROVE PlaceInv'
  <2>1. isConnected' = Disconnect(lost) /\ (isConnected'[c] <=> isConnected[c] /\ c \notin lost)
    BY <1>1, <1>6 DEF AfterChat, LosesOnly, Disconnect
  <2> QED BY <1>2, <1>3, <1>6, <2>1, MovePlaceInv DEF AfterChat, Again, Moves
<1>7. ASSUME NEW lost \in SUBSET {c}, DispatchStopped(c, lost) PROVE FALSE
    BY <1>3, <1>7 DEF DispatchStopped
<1>21. CASE FindsFull(c) \/ FindsSpace(c)
  <2>1. pc[c] = "check" /\ \E to \in {"refuse", "admit"} : Moves(c, "check", to)
    BY <1>21 DEF FindsFull, FindsSpace, FindsRoom, Moves
  <2>2. UNCHANGED <<coda, isConnected, isMatched, stopWaiting, deletedFromQueue, currentRoom,
                    choice, chatPC, client1, client2>>
    BY <1>21 DEF FindsFull, FindsSpace, FindsRoom
  <2> QED BY <1>2, <1>3, <2>1, <2>2, MovePlaceInv DEF Moves
<1>8. CASE Feedback(c)
    BY <1>2, <1>3, <1>8, MovePlaceInv DEF Feedback, Moves
<1>9. CASE NoFeedback(c)
  <2>1. isConnected' = Disconnect({c}) /\ ~isConnected'[c]
    BY <1>9 DEF NoFeedback, Disconnect
  <2> QED BY <1>2, <1>3, <1>9, <2>1, MovePlaceInv DEF NoFeedback, Moves
<1>10. CASE AwaitTest(c) \/ AwaitBlock(c)
    BY <1>2, <1>3, <1>10, MovePlaceInv DEF AwaitTest, AwaitBlock, TestsAndBlocks, Blocks, Moves
<1>11. CASE AwaitOver(c)
    BY <1>2, <1>3, <1>11, MovePlaceInv DEF AwaitOver, MustAwait, TestsAndGoesOn, Moves
<1>12. CASE DispatchDropped(c)
    BY <1>2, <1>3, <1>12, MovePlaceInv DEF DispatchDropped, Moves
<1>13. CASE DropSignal(c)
    BY <1>2, <1>3, <1>13, MovePlaceInv DEF DropSignal, Moves
<1>14. CASE DropJoin(c)
  <2>1. /\ pc[c] = "drop_join" /\ pc' = [pc EXCEPT ![c] = "leave"]
        /\ deletedFromQueue' = [deletedFromQueue EXCEPT ![c] = FALSE]
        /\ UNCHANGED <<coda, isConnected, isMatched, stopWaiting, currentRoom, choice, chatPC,
                       client1, client2>>
    BY <1>14 DEF DropJoin, Joins, Moves
  <2>2. pc \in [Client -> HandlerPC] /\ deletedFromQueue \in [Client -> BOOLEAN]
    BY DEF TypeInv, TypeOK
  <2>3. \A k \in Chat : Unmarked(k)' = Unmarked(k) /\ \A d \in Client : Holds(k, d)' = Holds(k, d)
    BY <2>1 DEF Unmarked, Holds, Engaged, ChatPair
  <2>4. PlaceOf(c)'
    <3>1. PlaceOf(c)
      BY DEF PlaceInv
    <3> QED BY <2>1, <2>2, <2>3, <3>1 DEF PlaceOf, WaitsIn, MeetsIn
  <2> QED BY <2>1, <2>2, <2>4, HandlerFrame
<1>15. CASE StopDelete(c) \/ StopJoin(c)
    BY <1>3, <1>15 DEF StopDelete, LeavesQueue, StopJoin, Joins, Moves
<1>16. CASE MatchJoin(c)
    BY <1>2, <1>3, <1>16, MovePlaceInv DEF MatchJoin, Joins, Moves
<1>17. CASE ParkTest(c) \/ ParkBlock(c)
  <2>1. CASE ParkTest(c)
    BY <1>2, <1>3, <2>1, MovePlaceInv DEF ParkTest, TestsAndBlocks, Moves
  <2>2. CASE ParkBlock(c)
    BY <1>2, <1>3, <2>2, MovePlaceInv DEF ParkBlock, Blocks, Moves
  <2> QED BY <1>17, <2>1, <2>2
<1>18. CASE ParkOver(c)
    BY <1>2, <1>3, <1>18, MovePlaceInv DEF ParkOver, MustPark, TestsAndGoesOn, Moves
<1>19. CASE Leave(c) \/ Exit(c)
  <2>1. CASE Leave(c)
    BY <1>2, <1>3, <2>1, MovePlaceInv DEF Leave, Moves
  <2>2. CASE Exit(c)
    BY <1>2, <1>3, <2>2, MovePlaceInv DEF Exit, Moves
  <2> QED BY <1>19, <2>1, <2>2
<1>20. CASE LeaveNowhere(c) \/ Forget(c)
  <2>1. /\ pc[c] \in {"leave", "forget"} /\ pc' = [pc EXCEPT ![c] = NextRound(c)]
        /\ currentRoom' \in {currentRoom, [currentRoom EXCEPT ![c] = NoRoom]}
        /\ choice' = [choice EXCEPT ![c] = NoRoom]
        /\ UNCHANGED <<coda, isConnected, isMatched, stopWaiting, deletedFromQueue, chatPC,
                       client1, client2>>
    BY <1>20 DEF LeaveNowhere, Forget, Moves
  <2>2. /\ pc \in [Client -> HandlerPC] /\ choice \in [Client -> Room \cup {NoRoom}]
        /\ currentRoom \in [Client -> Room \cup {NoRoom}]
    BY DEF TypeInv, TypeOK
  <2>3. \A k \in Chat : Unmarked(k)' = Unmarked(k) /\ \A d \in Client : Holds(k, d)' = Holds(k, d)
    BY <2>1 DEF Unmarked, Holds, Engaged, ChatPair
  <2>4. PlaceOf(c)'
    <3>1. PlaceOf(c)
      BY DEF PlaceInv
    <3>2. \A r \in Room : c \notin ToSet(coda'[r])
      BY <1>2, <2>1
    <3>3. pc'[c] = NextRound(c) /\ pc'[c] \in {"menu", "exit"}
          /\ (pc'[c] = "menu" => isConnected[c])
      BY <2>1, <2>2 DEF NextRound
    <3> QED BY <1>2, <2>1, <2>2, <2>3, <3>1, <3>2, <3>3 DEF PlaceOf, MeetsIn
  <2> QED BY <2>1, <2>2, <2>4, HandlerFrame
<1> QED
    BY <1>4, <1>5, <1>6, <1>7, <1>8, <1>9, <1>10, <1>11, <1>12, <1>13, <1>14, <1>15, <1>16,
       <1>17, <1>18, <1>19, <1>20, <1>21, EnqueuePlaceInv, DropPlaceInv DEF HandlerStep

\* So do the watcher and the user, when nobody types STOP.
LEMMA UserPlaceInv ==
    ASSUME NobodyStops, TypeInv, PlaceInv, NEW c \in Client, WatcherStep(c) \/ UserStep(c)
    PROVE  PlaceInv'
<1> USE DEF roomVars, flagVars, matchVars, otherFlags, HandlerPC, Waiting, Meeting, Dropping
<1>1. isConnected \in [Client -> BOOLEAN] /\ pc \in [Client -> HandlerPC]
    BY DEF TypeInv, TypeOK
<1>2. pc[c] = "menu" => /\ \A r \in Room : c \notin ToSet(coda[r])
                        /\ \A k \in Chat : ~Holds(k, c)
                        /\ ~deletedFromQueue[c]
    BY DEF PlaceInv, PlaceOf, WaitsIn, MeetsIn
<1>3. ASSUME UNCHANGED <<coda, isMatched, stopWaiting, deletedFromQueue, currentRoom, choice,
                         pc, chatPC, client1, client2>>,
             isConnected' = Disconnect({c}) \/ UNCHANGED isConnected
      PROVE  PlaceInv'
  <2>1. \A k \in Chat : Unmarked(k)' = Unmarked(k) /\ \A d \in Client : Holds(k, d)' = Holds(k, d)
    BY <1>3 DEF Unmarked, Holds, Engaged, ChatPair
  <2>2. /\ isConnected'[c] => isConnected[c]
        /\ \A d \in Client \ {c} : isConnected'[d] = isConnected[d]
    BY <1>1, <1>3 DEF Disconnect
  <2>3. PlaceOf(c)
    BY DEF PlaceInv
  <2>4. PlaceOf(c)'
    BY <1>3, <2>1, <2>2, <2>3 DEF PlaceOf, WaitsIn, MeetsIn
  <2> QED BY <1>3, <2>2, <2>4, HandlerFrame
<1>4. ASSUME NEW r \in Room, ChooseRoom(c, r) PROVE PlaceInv'
  <2>1. /\ pc[c] = "menu" /\ pc' = [pc EXCEPT ![c] = "check"]
        /\ choice' = [choice EXCEPT ![c] = r]
        /\ UNCHANGED <<coda, isConnected, isMatched, stopWaiting, deletedFromQueue,
                       currentRoom, chatPC, client1, client2>>
    BY <1>4 DEF ChooseRoom, Moves
  <2>2. choice \in [Client -> Room \cup {NoRoom}]
    BY DEF TypeInv, TypeOK
  <2>3. \A k \in Chat : Unmarked(k)' = Unmarked(k) /\ \A d \in Client : Holds(k, d)' = Holds(k, d)
    BY <2>1 DEF Unmarked, Holds, Engaged, ChatPair
  <2>4. PlaceOf(c)
    BY DEF PlaceInv
  <2>5. PlaceOf(c)'
    BY <1>1, <1>2, <2>1, <2>2, <2>3, <2>4 DEF PlaceOf
  <2> QED BY <1>1, <2>1, <2>2, <2>5, HandlerFrame
<1>5. CASE Quit(c)
  <2>1. isConnected' = Disconnect({c}) /\ Moves(c, "menu", "leave")
    BY <1>5 DEF Quit
  <2> QED BY <1>2, <1>5, <2>1, MovePlaceInv DEF Quit, Moves
<1>6. CASE Vanish(c)
  <2>1. isConnected' = Disconnect({c}) /\ Moves(c, "menu", "exit")
    BY <1>6 DEF Vanish
  <2> QED BY <1>2, <1>6, <2>1, MovePlaceInv DEF Vanish, Moves
<1>7. CASE WatchOK(c) \/ WatchSignal(c)
    BY <1>3, <1>7 DEF WatchOK, WatchSignal
<1>8. CASE WatchDrop(c)
    BY <1>3, <1>8 DEF WatchDrop
<1>9. CASE WatchTests(c)
    BY <1>3, <1>9 DEF WatchTests, NobodyStops
<1>10. CASE WatchStop(c)
    BY <1>10 DEF WatchStop, NobodyStops
<1> QED
    BY <1>4, <1>5, <1>6, <1>7, <1>8, <1>9, <1>10 DEF WatcherStep, UserStep

-----------------------------------------------------------------------------
\* A pair a matcher has found: two clients of its queue, and what the queue is
\* without them.
LEMMA PairFound ==
    ASSUME TypeInv, PlaceInv, NEW r \in Room, Searching(r), NEW i \in PartnerIndex(coda[r])
    PROVE  /\ Actual(r, i) \in ToSet(coda[r]) /\ HeadOf(r) \in ToSet(coda[r])
           /\ Actual(r, i) \in Client /\ HeadOf(r) \in Client
           /\ Actual(r, i) # HeadOf(r)
           /\ WithoutPair(r, i) \in Seq(Client)
           /\ ToSet(WithoutPair(r, i)) = ToSet(coda[r]) \ {Actual(r, i), HeadOf(r)}
           /\ IsInjective(WithoutPair(r, i))
<1>1. /\ coda[r] \in Seq(Client) /\ IsInjective(coda[r]) /\ Len(coda[r]) >= 1
      /\ i \in 1..Len(Tail(coda[r]))
    BY DEF TypeInv, TypeOK, PlaceInv, Searching, PartnerIndex, FirstIndex
<1> QED BY <1>1, PairOnce, PartnerType DEF Actual, HeadOf, WithoutPair

\* The matcher changes the queue of its room: it takes some clients out, for each
\* of which it marks that it did, and they were disconnected.
LEMMA RoomDropPlaceInv ==
    ASSUME TypeInv, PlaceInv, NEW r \in Room, NEW q \in Seq(Client), NEW those \in SUBSET ToSet(coda[r]),
           coda' = [coda EXCEPT ![r] = q],
           IsInjective(q), ToSet(q) = ToSet(coda[r]) \ those,
           \A c \in those : ~isConnected[c],
           \A c \in Client : deletedFromQueue'[c] <=> deletedFromQueue[c] \/ c \in those,
           UNCHANGED <<isConnected, isMatched, stopWaiting, matchVars, threadVars>>
    PROVE  PlaceInv'
<1> USE DEF matchVars, threadVars
<1>1. coda \in [Room -> Seq(Client)]
    BY DEF TypeInv, TypeOK
<1>2. \A k \in Chat : Unmarked(k)' = Unmarked(k) /\ \A d \in Client : Holds(k, d)' = Holds(k, d)
    BY DEF Unmarked, Holds, Engaged, ChatPair
<1>3. \A x \in Room : coda'[x] = IF x = r THEN q ELSE coda[x]
    BY <1>1
<1>4. ASSUME NEW c \in Client PROVE PlaceOf(c)'
  <2>1. PlaceOf(c) /\ \A x \in Room : c \in ToSet(coda'[x]) => c \in ToSet(coda[x])
    BY <1>3 DEF PlaceInv
  <2>2. ASSUME NEW x \in Room, c \in ToSet(coda'[x]) PROVE WaitsIn(c, x)'
    <3>1. WaitsIn(c, x)
      BY <2>1, <2>2 DEF PlaceOf
    <3>2. c \notin those
      <4> SUFFICES ASSUME c \in those PROVE FALSE
        OBVIOUS
      <4>1. WaitsIn(c, r)
        BY <2>1 DEF PlaceOf
      <4>2. x = r
        BY <3>1, <4>1 DEF WaitsIn
      <4> QED BY <1>3, <2>2, <4>2
    <3> QED BY <1>2, <3>1, <3>2 DEF WaitsIn
  <2>3. ASSUME c \in those PROVE WaitsIn(c, r)
    BY <2>1, <2>3 DEF PlaceOf
  <2> QED
    BY <1>2, <2>1, <2>2, <2>3 DEF PlaceOf, MeetsIn, WaitsIn, Waiting, Dropping
<1> QED BY <1>3, <1>4 DEF PlaceInv

\* So it does, both of the pair it found or one of them; the other one goes to the
\* end of the queue.
LEMMA RoomDropEffect ==
    ASSUME TypeInv, PlaceInv, NEW r \in Room, RoomDropsBoth(r) \/ RoomDropsOne(r)
    PROVE  \E those \in SUBSET ToSet(coda[r]), q \in Seq(Client) :
             /\ those # {} /\ \A c \in those : ~isConnected[c]
             /\ coda' = [coda EXCEPT ![r] = q]
             /\ IsInjective(q) /\ ToSet(q) = ToSet(coda[r]) \ those
             /\ \A c \in Client : deletedFromQueue'[c] <=> deletedFromQueue[c] \/ c \in those
<1>1. deletedFromQueue \in [Client -> BOOLEAN]
    BY DEF TypeInv, TypeOK
<1>2. CASE RoomDropsBoth(r)
  <2>1. PICK i \in PartnerIndex(coda[r]) :
            /\ ~isConnected[Actual(r, i)] /\ ~isConnected[HeadOf(r)]
            /\ coda' = [coda EXCEPT ![r] = WithoutPair(r, i)]
            /\ deletedFromQueue' = [deletedFromQueue EXCEPT ![Actual(r, i)] = TRUE,
                                                            ![HeadOf(r)] = TRUE]
    BY <1>2 DEF RoomDropsBoth
  <2> DEFINE those == {Actual(r, i), HeadOf(r)}
  <2>2. /\ those \subseteq ToSet(coda[r]) /\ WithoutPair(r, i) \in Seq(Client)
        /\ ToSet(WithoutPair(r, i)) = ToSet(coda[r]) \ those /\ IsInjective(WithoutPair(r, i))
    BY <1>2, PairFound DEF RoomDropsBoth
  <2>3. \A c \in Client : deletedFromQueue'[c] <=> deletedFromQueue[c] \/ c \in those
    BY <1>1, <2>1
  <2>4. those # {} /\ \A c \in those : ~isConnected[c]
    BY <2>1
  <2> QED BY <2>1, <2>2, <2>3, <2>4
<1>3. CASE RoomDropsOne(r)
  <2> DEFINE pair(i) == <<Actual(r, i), HeadOf(r)>>
  <2>1. PICK i \in PartnerIndex(coda[r]), n \in {1, 2} :
            /\ ~isConnected[pair(i)[n]]
            /\ coda' = [coda EXCEPT ![r] = Append(WithoutPair(r, i), pair(i)[3 - n])]
            /\ deletedFromQueue' = [deletedFromQueue EXCEPT ![pair(i)[n]] = TRUE]
    BY <1>3 DEF RoomDropsOne
  <2> DEFINE gone == pair(i)[n]
             back == pair(i)[3 - n]
             q == Append(WithoutPair(r, i), back)
  <2>2. {gone, back} = {Actual(r, i), HeadOf(r)} /\ 3 - n \in {1, 2} /\ n # 3 - n
    BY <2>1
  <2>3. /\ gone \in ToSet(coda[r]) /\ back \in ToSet(coda[r]) /\ gone # back /\ back \in Client
        /\ WithoutPair(r, i) \in Seq(Client) /\ IsInjective(WithoutPair(r, i))
        /\ ToSet(WithoutPair(r, i)) = ToSet(coda[r]) \ {gone, back}
    BY <1>3, <2>2, PairFound DEF RoomDropsOne
  <2> HIDE DEF gone, back
  <2>4. /\ q \in Seq(Client) /\ ToSet(q) = ToSet(coda[r]) \ {gone} /\ IsInjective(q)
    BY <2>3, AppendOnce
  <2>5. \A c \in Client : deletedFromQueue'[c] <=> deletedFromQueue[c] \/ c \in {gone}
    BY <1>1, <2>1 DEF gone
  <2>6. coda' = [coda EXCEPT ![r] = q] /\ ~isConnected[gone]
    BY <2>1 DEF gone, back
  <2>7. {gone} \in SUBSET ToSet(coda[r]) /\ {gone} # {} /\ \A c \in {gone} : ~isConnected[c]
    BY <2>3, <2>6
  <2> HIDE DEF q
  <2> QED BY <2>4, <2>5, <2>6, <2>7
<1> QED BY <1>2, <1>3

\* Two clients of a queue become the pair of a new chat: they were in no other.
LEMMA StartEffect ==
    ASSUME TypeInv, PlaceInv, NEW r \in Room, NEW k \in Chat, NEW lost \in SUBSET MayDrop,
           RoomStartsChat(r, k, lost)
    PROVE  \E c1, c2 \in Client :
             /\ c1 # c2 /\ {c1, c2} \subseteq ToSet(coda[r])
             /\ isConnected[c1] /\ isConnected[c2] /\ ~PairRefused(c1, c2)
             /\ \A x \in Room :
                  /\ ToSet(coda'[x]) = IF x = r THEN ToSet(coda[x]) \ {c1, c2} ELSE ToSet(coda[x])
                  /\ IsInjective(coda'[x])
             /\ chatPC'[k] = "lock1" /\ client1'[k] = c1 /\ client2'[k] = c2
             /\ \A l \in Chat \ {k} :
                  chatPC'[l] = chatPC[l] /\ client1'[l] = client1[l] /\ client2'[l] = client2[l]
             /\ matchedRoom' = [matchedRoom EXCEPT ![c1] = r, ![c2] = r]
<1>1. PICK i \in PartnerIndex(coda[r]) :
          /\ isConnected[Actual(r, i)] /\ isConnected[HeadOf(r)]
          /\ coda' = [coda EXCEPT ![r] = WithoutPair(r, i)]
          /\ matchedRoom' = [matchedRoom EXCEPT ![Actual(r, i)] = r, ![HeadOf(r)] = r]
          /\ client1' = [client1 EXCEPT ![k] = Actual(r, i)]
          /\ client2' = [client2 EXCEPT ![k] = HeadOf(r)]
    BY DEF RoomStartsChat
<1>2. chatPC' = [chatPC EXCEPT ![k] = "lock1"] /\ Searching(r)
    BY DEF RoomStartsChat
<1>3. ~PairRefused(Actual(r, i), HeadOf(r))
    BY DEF PartnerIndex, FirstIndex, Actual, HeadOf
<1> DEFINE c1 == Actual(r, i)
           c2 == HeadOf(r)
           q == WithoutPair(r, i)
<1>4. /\ c1 \in ToSet(coda[r]) /\ c2 \in ToSet(coda[r]) /\ c1 \in Client /\ c2 \in Client
      /\ c1 # c2 /\ ToSet(q) = ToSet(coda[r]) \ {c1, c2} /\ IsInjective(q)
    BY <1>2, PairFound
<1> HIDE DEF c1, c2, q
<1>5. /\ coda \in [Room -> Seq(Client)] /\ chatPC \in [Chat -> ChatPC]
      /\ client1 \in [Chat -> Client \cup {NoThread}]
      /\ client2 \in [Chat -> Client \cup {NoThread}]
    BY DEF TypeInv, TypeOK
<1>6. ASSUME NEW x \in Room
      PROVE  /\ ToSet(coda'[x]) = IF x = r THEN ToSet(coda[x]) \ {c1, c2} ELSE ToSet(coda[x])
             /\ IsInjective(coda'[x])
  <2>1. coda'[x] = IF x = r THEN q ELSE coda[x]
    BY <1>1, <1>5 DEF q
  <2>2. IsInjective(coda[x])
    BY DEF PlaceInv
  <2> QED BY <1>4, <2>1, <2>2
<1>7. /\ chatPC'[k] = "lock1" /\ client1'[k] = c1 /\ client2'[k] = c2
      /\ \A l \in Chat \ {k} :
            chatPC'[l] = chatPC[l] /\ client1'[l] = client1[l] /\ client2'[l] = client2[l]
    BY <1>1, <1>2, <1>5 DEF c1, c2
<1>8. /\ isConnected[c1] /\ isConnected[c2] /\ ~PairRefused(c1, c2)
      /\ matchedRoom' = [matchedRoom EXCEPT ![c1] = r, ![c2] = r]
    BY <1>1, <1>3 DEF c1, c2
<1> QED BY <1>4, <1>6, <1>7, <1>8

LEMMA StartPlaceInv ==
    ASSUME TypeInv, PlaceInv, NEW r \in Room, NEW k \in Chat, NEW lost \in SUBSET MayDrop,
           RoomStartsChat(r, k, lost)
    PROVE  PlaceInv'
<1>1. PICK c1, c2 \in Client :
          /\ c1 # c2 /\ {c1, c2} \subseteq ToSet(coda[r])
          /\ isConnected[c1] /\ isConnected[c2]
          /\ \A x \in Room :
               /\ ToSet(coda'[x]) = IF x = r THEN ToSet(coda[x]) \ {c1, c2} ELSE ToSet(coda[x])
               /\ IsInjective(coda'[x])
          /\ chatPC'[k] = "lock1" /\ client1'[k] = c1 /\ client2'[k] = c2
          /\ \A l \in Chat \ {k} :
               chatPC'[l] = chatPC[l] /\ client1'[l] = client1[l] /\ client2'[l] = client2[l]
    BY StartEffect
<1>2. /\ chatPC[k] = "free" /\ isConnected' = Disconnect(lost)
      /\ UNCHANGED <<isMatched, stopWaiting, deletedFromQueue, currentRoom, choice, pc>>
    BY DEF RoomStartsChat
<1>3. isMatched \in [Client -> BOOLEAN]
    BY DEF TypeInv, TypeOK
<1>4. /\ \A l \in Chat \ {k} : Unmarked(l)' = Unmarked(l)
                             /\ \A d \in Client : Holds(l, d)' = Holds(l, d)
      /\ \A d \in Client : (Holds(k, d)' <=> d \in {c1, c2}) /\ ~Holds(k, d)
      /\ Unmarked(k)'
    BY <1>1, <1>2 DEF Unmarked, Holds, Engaged, ChatPair
<1>5. \A d \in Client : isConnected'[d] => isConnected[d]
    BY <1>2 DEF Disconnect
<1>6. ASSUME NEW c \in Client PROVE PlaceOf(c)'
  <2>1. PlaceOf(c) /\ \A x \in Room : c \in ToSet(coda'[x]) => c \in ToSet(coda[x])
    BY <1>1 DEF PlaceInv
  <2>2. CASE c \in {c1, c2}
    <3>1. WaitsIn(c, r)
      BY <1>1, <2>1, <2>2 DEF PlaceOf
    <3>2. \A x \in Room : c \notin ToSet(coda'[x])
      BY <1>1, <2>1, <2>2, <3>1 DEF PlaceOf, WaitsIn
    <3>3. ~isMatched[c] /\ \A l \in Chat : ~Holds(l, c)
      BY <2>1, <3>1 DEF PlaceOf, WaitsIn
    <3>4. MeetsIn(c, k)'
      BY <1>1, <1>2, <1>4, <1>5, <3>1, <3>3 DEF WaitsIn, MeetsIn, Waiting
    <3>5. isConnected[c] /\ pc[c] \in Waiting
      BY <1>1, <2>2, <3>1 DEF WaitsIn
    <3> QED
      BY <1>2, <1>4, <1>5, <2>1, <3>1, <3>2, <3>3, <3>4, <3>5
      DEF PlaceOf, WaitsIn, Waiting, Dropping
  <2>3. CASE c \notin {c1, c2}
    <3>1. \A l \in Chat : (Holds(l, c)' <=> Holds(l, c)) /\ (Holds(l, c) => l # k)
      BY <1>4, <2>3
    <3>2. ASSUME NEW x \in Room, c \in ToSet(coda'[x]) PROVE WaitsIn(c, x)'
      BY <1>2, <1>5, <2>1, <3>1, <3>2 DEF PlaceOf, WaitsIn
    <3>3. ASSUME NEW l \in Chat, Holds(l, c)' PROVE MeetsIn(c, l)'
      BY <1>1, <1>2, <1>4, <1>5, <2>1, <3>1, <3>3 DEF PlaceOf, MeetsIn
    <3>4. isMatched'[c] => \E l \in Chat : Holds(l, c)' /\ ~Unmarked(l)'
      BY <1>2, <1>4, <2>1, <3>1 DEF PlaceOf
    <3> QED BY <1>2, <1>5, <2>1, <3>2, <3>3, <3>4 DEF PlaceOf
  <2> QED BY <2>2, <2>3
<1> QED BY <1>1, <1>6 DEF PlaceInv

\* A matcher keeps everybody in place.
LEMMA RoomPlaceInv ==
    ASSUME TypeInv, PlaceInv, NEW r \in Room, RoomStep(r)
    PROVE  PlaceInv'
<1>1. CASE RoomSleep(r) \/ RoomFindsNobody(r)
  <2>1. UNCHANGED <<coda, isConnected, isMatched, stopWaiting, deletedFromQueue, currentRoom,
                    choice, pc, chatPC, client1, client2>>
    BY <1>1 DEF RoomSleep, RoomFindsNobody, flagVars, matchVars, threadVars
  <2> QED BY <2>1 DEF PlaceInv, PlaceOf, WaitsIn, MeetsIn, Holds, Engaged, ChatPair, Unmarked
<1>2. CASE RoomDropsBoth(r) \/ RoomDropsOne(r)
  <2>1. UNCHANGED <<isConnected, isMatched, stopWaiting, matchVars, threadVars>>
    BY <1>2 DEF RoomDropsBoth, RoomDropsOne
  <2> QED BY <1>2, <2>1, RoomDropEffect, RoomDropPlaceInv
<1> QED BY <1>1, <1>2, StartPlaceInv DEF RoomStep

-----------------------------------------------------------------------------
\* A step of a chat after which every client is in the chats it was in before,
\* and no chat has become one that has marked its pair or that has not.
LEMMA ChatFrame ==
    ASSUME PlaceInv,
           UNCHANGED <<coda, isMatched, stopWaiting, deletedFromQueue, currentRoom, choice, pc>>,
           \A c \in Client : isConnected'[c] => isConnected[c],
           \A k \in Chat : Engaged(k)' <=> Engaged(k),
           \A k \in Chat : Engaged(k) => /\ client1'[k] = client1[k] /\ client2'[k] = client2[k]
                                        /\ (Unmarked(k)' <=> Unmarked(k))
                                        /\ (chatPC'[k] = "close2" <=> chatPC[k] = "close2")
    PROVE  PlaceInv'
<1>1. ASSUME NEW k \in Chat, NEW c \in Client PROVE Holds(k, c)' <=> Holds(k, c)
  <2>1. CASE Engaged(k)
    BY <2>1 DEF Holds, ChatPair
  <2>2. CASE ~Engaged(k)
    BY <2>2 DEF Holds
  <2> QED BY <2>1, <2>2
<1>2. ASSUME NEW c \in Client PROVE PlaceOf(c)'
  <2>1. PlaceOf(c)
    BY DEF PlaceInv
  <2>2. ASSUME NEW r \in Room, c \in ToSet(coda'[r]) PROVE WaitsIn(c, r)'
    BY <1>1, <2>1, <2>2 DEF PlaceOf, WaitsIn
  <2>3. ASSUME NEW k \in Chat, Holds(k, c)' PROVE MeetsIn(c, k)'
    <3>1. MeetsIn(c, k) /\ Engaged(k)
      BY <1>1, <2>1, <2>3 DEF PlaceOf, Holds
    <3> QED BY <1>1, <3>1 DEF MeetsIn
  <2>4. isMatched'[c] => \E k \in Chat : Holds(k, c)' /\ ~Unmarked(k)'
    BY <1>1, <2>1 DEF PlaceOf, Holds
  <2> QED BY <2>1, <2>2, <2>3, <2>4 DEF PlaceOf
<1> QED BY <1>2 DEF PlaceInv

\* The chat marks its pair.
LEMMA MarkPlaceInv ==
    ASSUME TypeInv, PlaceInv, NEW k \in Chat, ChatMarks(k)
    PROVE  PlaceInv'
<1>1. /\ chatPC[k] = "lock2" /\ chatPC' = [chatPC EXCEPT ![k] = "confirm1"]
      /\ isMatched' = [isMatched EXCEPT ![client1[k]] = TRUE, ![client2[k]] = TRUE]
      /\ UNCHANGED <<coda, isConnected, stopWaiting, deletedFromQueue, currentRoom, choice, pc,
                     client1, client2>>
    BY DEF ChatMarks, ChatMoves, roomVars
<1>2. chatPC \in [Chat -> ChatPC] /\ isMatched \in [Client -> BOOLEAN]
    BY DEF TypeInv, TypeOK
<1>3. /\ \A l \in Chat, d \in Client : Holds(l, d)' <=> Holds(l, d)
      /\ \A l \in Chat \ {k} : Unmarked(l)' = Unmarked(l)
      /\ Unmarked(k) /\ ~Unmarked(k)'
      /\ \A d \in Client : Holds(k, d) <=> d \in ChatPair(k)
    BY <1>1, <1>2 DEF Holds, Engaged, ChatPair, Unmarked
<1>4. \A d \in Client : isMatched'[d] <=> isMatched[d] \/ d \in ChatPair(k)
    BY <1>1, <1>2 DEF ChatPair
<1>5. ASSUME NEW c \in Client PROVE PlaceOf(c)'
  <2>1. PlaceOf(c)
    BY DEF PlaceInv
  <2>2. ASSUME NEW r \in Room, c \in ToSet(coda'[r]) PROVE WaitsIn(c, r)'
    BY <1>1, <1>3, <2>1, <2>2 DEF PlaceOf, WaitsIn
  <2>3. ASSUME NEW l \in Chat, Holds(l, c)' PROVE MeetsIn(c, l)'
    <3>1. MeetsIn(c, l) /\ (l = k <=> c \in ChatPair(k))
      BY <1>3, <2>1, <2>3 DEF PlaceOf, MeetsIn
    <3> QED BY <1>1, <1>2, <1>3, <1>4, <3>1 DEF MeetsIn, Meeting
  <2>4. isMatched'[c] => \E l \in Chat : Holds(l, c)' /\ ~Unmarked(l)'
    BY <1>3, <1>4, <2>1 DEF PlaceOf
  <2> QED BY <1>1, <2>1, <2>2, <2>3, <2>4 DEF PlaceOf
<1> QED BY <1>1, <1>5 DEF PlaceInv

\* The chat is over for one of its clients.
LEMMA ClosePlaceInv ==
    ASSUME TypeInv, PlaceInv, NEW k \in Chat, ChatCloses1(k) \/ ChatCloses2(k)
    PROVE  PlaceInv'
<1> DEFINE c0 == IF chatPC[k] = "close" THEN client1[k] ELSE client2[k]
<1>1. /\ \/ chatPC[k] = "close"  /\ chatPC' = [chatPC EXCEPT ![k] = "close2"]
         \/ chatPC[k] = "close2" /\ chatPC' = [chatPC EXCEPT ![k] = "wake2"]
      /\ isMatched' = [isMatched EXCEPT ![c0] = FALSE]
      /\ UNCHANGED <<coda, isConnected, stopWaiting, deletedFromQueue, currentRoom, choice, pc,
                     client1, client2>>
    BY DEF ChatCloses1, ChatCloses2, Unmarks, ChatMoves, roomVars, matchVars
<1>2. /\ chatPC \in [Chat -> ChatPC] /\ isMatched \in [Client -> BOOLEAN]
      /\ client1[k] \in Client /\ client2[k] \in Client
    BY <1>1 DEF TypeInv, TypeOK, Seated
<1>3. Holds(k, c0) /\ c0 \in Client /\ c0 \in ChatPair(k)
    BY <1>1, <1>2 DEF Holds, Engaged, ChatPair
<1>4. client1[k] # client2[k] /\ \A l \in Chat : Holds(l, c0) => l = k
  <2>1. MeetsIn(c0, k)
    BY <1>3 DEF PlaceInv, PlaceOf
  <2> QED BY <2>1 DEF MeetsIn
<1>5. /\ \A l \in Chat \ {k} : Unmarked(l)' = Unmarked(l)
                             /\ \A d \in Client : Holds(l, d)' <=> Holds(l, d)
      /\ ~Unmarked(k) /\ ~Unmarked(k)'
    BY <1>1, <1>2 DEF Holds, Engaged, ChatPair, Unmarked
<1>6. \A d \in Client : Holds(k, d)' <=> Holds(k, d) /\ d # c0
    BY <1>1, <1>2, <1>4 DEF Holds, Engaged, ChatPair
<1> HIDE DEF c0
<1>7. \A d \in Client : isMatched'[d] <=> isMatched[d] /\ d # c0
    BY <1>1, <1>2, <1>3
<1>8. ASSUME NEW c \in Client PROVE PlaceOf(c)'
  <2>1. PlaceOf(c)
    BY DEF PlaceInv
  <2>2. \A l \in Chat : Holds(l, c)' => Holds(l, c) /\ c # c0
    BY <1>4, <1>5, <1>6
  <2>3. ASSUME NEW r \in Room, c \in ToSet(coda'[r]) PROVE WaitsIn(c, r)'
    BY <1>1, <2>1, <2>2, <2>3 DEF PlaceOf, WaitsIn
  <2>4. ASSUME NEW l \in Chat, Holds(l, c)' PROVE MeetsIn(c, l)'
    <3>1. MeetsIn(c, l) /\ c # c0
      BY <2>1, <2>2, <2>4 DEF PlaceOf
    <3>2. Unmarked(l)' <=> Unmarked(l)
      BY <1>5
    <3> QED BY <1>1, <1>7, <2>2, <3>1, <3>2 DEF MeetsIn
  <2>5. isMatched'[c] => \E l \in Chat : Holds(l, c)' /\ ~Unmarked(l)'
    BY <1>5, <1>6, <1>7, <2>1 DEF PlaceOf
  <2> QED BY <1>1, <2>1, <2>3, <2>4, <2>5 DEF PlaceOf
<1> QED BY <1>1, <1>8 DEF PlaceInv

\* A chat keeps everybody in place; it is never a chat of a client with itself.
LEMMA ChatPlaceInv ==
    ASSUME TypeInv, PlaceInv, NEW k \in Chat, ChatStep(k) \/ ChatTalk(k)
    PROVE  PlaceInv'
<1> USE DEF roomVars, flagVars, matchVars
<1>1. /\ chatPC \in [Chat -> ChatPC]
      /\ client1 \in [Chat -> Client \cup {NoThread}]
      /\ client2 \in [Chat -> Client \cup {NoThread}]
    BY DEF TypeInv, TypeOK
<1>2. ASSUME NEW from, NEW to, ChatMoves(k, from, to),
             from \in {"lock1", "lock2"} <=> to \in {"lock1", "lock2"},
             from \notin {"free", "close2", "wake2", "wake1"},
             to \notin {"free", "close2", "wake2", "wake1"},
             UNCHANGED <<coda, isMatched, stopWaiting, deletedFromQueue, currentRoom, choice, pc,
                         client1, client2>>,
             UNCHANGED isConnected \/ \E lost \in SUBSET MayDrop : isConnected' = Disconnect(lost)
      PROVE  PlaceInv'
  <2>1. \A l \in Chat : /\ (Engaged(l)' <=> Engaged(l)) /\ (Unmarked(l)' <=> Unmarked(l))
                        /\ (chatPC'[l] = "close2" <=> chatPC[l] = "close2")
    BY <1>1, <1>2 DEF ChatMoves, Engaged, Unmarked
  <2>2. \A c \in Client : isConnected'[c] => isConnected[c]
    BY <1>2 DEF Disconnect
  <2> QED BY <1>2, <2>1, <2>2, ChatFrame
<1>3. CASE ChatLock1(k) \/ ChatConfirms1(k) \/ ChatConfirms2(k)
    BY <1>2, <1>3 DEF ChatLock1, ChatConfirms1, ChatConfirms2
<1>4. ASSUME NEW lost \in SUBSET MayDrop, ChatGreets(k, lost) PROVE PlaceInv'
    BY <1>2, <1>4 DEF ChatGreets
<1>5. ASSUME NEW lost \in SUBSET MayDrop, ChatEnds(k, lost) \/ ChatTimesOut(k, lost) PROVE PlaceInv'
    BY <1>2, <1>5 DEF ChatEnds, ChatTimesOut
<1>6. CASE ChatCancelled(k)
  <2>1. chatPC[k] = "lock2" /\ client1[k] = client2[k] /\ client1[k] \in Client
    BY <1>6 DEF ChatCancelled, ChatExits, ChatMoves, TypeInv, Seated
  <2>2. Holds(k, client1[k])
    BY <2>1 DEF Holds, Engaged, ChatPair
  <2> QED BY <2>1, <2>2 DEF PlaceInv, PlaceOf, MeetsIn
<1>7. CASE ChatWakes2(k) \/ ChatWakes1(k)
  <2>1. /\ chatPC[k] \in {"wake2", "wake1"}
        /\ chatPC' = [chatPC EXCEPT ![k] = IF chatPC[k] = "wake2" THEN "wake1" ELSE "free"]
        /\ \A l \in Chat \ {k} : client1'[l] = client1[l] /\ client2'[l] = client2[l]
        /\ UNCHANGED <<coda, isConnected, isMatched, stopWaiting, deletedFromQueue, currentRoom,
                       choice, pc>>
    BY <1>1, <1>7 DEF ChatWakes2, ChatWakes1, ChatExits, ChatMoves
  <2>2. \A l \in Chat : /\ (Engaged(l)' <=> Engaged(l)) /\ (Unmarked(l)' <=> Unmarked(l))
                        /\ (chatPC'[l] = "close2" <=> chatPC[l] = "close2")
    BY <1>1, <2>1 DEF Engaged, Unmarked
  <2>3. \A l \in Chat : Engaged(l) => client1'[l] = client1[l] /\ client2'[l] = client2[l]
    BY <2>1 DEF Engaged
  <2> QED BY <2>1, <2>2, <2>3, ChatFrame
<1> QED
    BY <1>3, <1>4, <1>5, <1>6, <1>7, MarkPlaceInv, ClosePlaceInv DEF ChatStep, ChatTalk

-----------------------------------------------------------------------------
\* Every step keeps everybody in place.
LEMMA NextPlaceInv ==
    ASSUME NobodyStops
    PROVE  TypeInv /\ PlaceInv /\ DeletesItself /\ [Next]_vars => PlaceInv'
<1> SUFFICES ASSUME TypeInv, PlaceInv, DeletesItself, [Next]_vars PROVE PlaceInv'
    OBVIOUS
<1>1. CASE Next
    BY <1>1, RoomPlaceInv, HandlerPlaceInv, UserPlaceInv, ChatPlaceInv DEF Next
<1>2. CASE UNCHANGED vars
    BY <1>2 DEF vars, roomVars, flagVars, matchVars, threadVars, PlaceInv, PlaceOf, WaitsIn,
                MeetsIn, Holds, Engaged, ChatPair, Unmarked
<1> QED BY <1>1, <1>2

\* The invariant says where each client is.
LEMMA PlaceInvPlaces == TypeInv /\ PlaceInv => InOnePlace
<1> SUFFICES ASSUME TypeInv, PlaceInv, NEW c \in Client
             PROVE  /\ Cardinality(Seats(c)) <= 1
                    /\ \A r \in Room : TimesQueued(c, r) <= 1
                    /\ \A r \in Room : TimesQueued(c, r) = 1
                          => Seats(c) = {} /\ currentRoom[c] = r
    BY DEF InOnePlace
<1>1. PlaceOf(c)
    BY DEF PlaceInv
<1>2. \A s \in Seats(c) : s[1] \in Chat /\ Holds(s[1], c)
    BY DEF Seats, Holds, Engaged, ChatPair
<1>3. Cardinality(Seats(c)) <= 1
  <2>1. CASE Seats(c) = {}
    BY <2>1, FS_EmptySet
  <2>2. CASE Seats(c) # {}
    <3>1. PICK s \in Seats(c) : TRUE
      BY <2>2
    <3>2. ASSUME NEW t \in Seats(c) PROVE t = s
      <4>1. MeetsIn(c, s[1]) /\ s[1] = t[1]
        BY <1>1, <1>2, <3>1, <3>2 DEF PlaceOf, MeetsIn
      <4>2. s \in Chat \X {1, 2} /\ t \in Chat \X {1, 2} /\ client1[s[1]] # client2[s[1]]
        BY <3>1, <3>2, <4>1 DEF Seats, MeetsIn
      <4>3. s[2] = t[2]
        BY <3>1, <3>2, <4>1, <4>2 DEF Seats
      <4> QED BY <4>1, <4>2, <4>3
    <3>3. Seats(c) = {s}
      BY <3>1, <3>2
    <3>4. Cardinality({s}) = 1
      BY FS_Singleton
    <3> QED BY <3>3, <3>4
  <2> QED BY <2>1, <2>2
<1>4. ASSUME NEW r \in Room
      PROVE  TimesQueued(c, r) <= 1 /\ (TimesQueued(c, r) = 1 => c \in ToSet(coda[r]))
  <2> DEFINE I == {i \in 1..Len(coda[r]) : coda[r][i] = c}
  <2>1. coda[r] \in Seq(Client) /\ IsInjective(coda[r])
    BY DEF TypeInv, TypeOK, PlaceInv
  <2>2. /\ ToSet(coda[r]) = {coda[r][i] : i \in 1..Len(coda[r])}
        /\ \A i, j \in 1..Len(coda[r]) : coda[r][i] = coda[r][j] => i = j
    BY <2>1, ToSetPositions
  <2>3. CASE I = {}
    <3>1. Cardinality(I) = 0
      BY <2>3, FS_EmptySet
    <3> QED BY <3>1 DEF TimesQueued
  <2>4. CASE I # {}
    <3>1. PICK i \in I : TRUE
      BY <2>4
    <3>2. I = {i}
      BY <2>2, <3>1
    <3>3. Cardinality(I) = 1
      BY <3>2, FS_Singleton
    <3> QED BY <2>2, <3>1, <3>3 DEF TimesQueued
  <2> QED BY <2>3, <2>4
<1>5. ASSUME NEW r \in Room, c \in ToSet(coda[r]) PROVE Seats(c) = {} /\ currentRoom[c] = r
    BY <1>1, <1>2, <1>5 DEF PlaceOf, WaitsIn
<1> QED BY <1>3, <1>4, <1>5

\* And that the handler of a client in a queue has not given up its client.
LEMMA PlaceInvQueuedIsAlive == TypeInv /\ PlaceInv => QueuedIsAlive
<1> SUFFICES ASSUME TypeInv, PlaceInv, NEW r \in Room, NEW i \in 1..Len(coda[r])
             PROVE  pc[coda[r][i]] \in {"await", "block", "dispatch", "drop_delete", "stop_delete"}
    BY DEF QueuedIsAlive
<1>1. coda[r] \in Seq(Client)
    BY DEF TypeInv, TypeOK
<1>2. coda[r][i] \in Client /\ coda[r][i] \in ToSet(coda[r])
    BY <1>1, ToSetPositions, ElementOfSeq
<1> QED BY <1>2 DEF PlaceInv, PlaceOf, WaitsIn, Waiting

\* While nobody types STOP, and as long as no deletion by nickname would hit a
\* namesake, a client is in one place at a time: in one queue, once, and that of its
\* current room, or in one chat; however the matchers' drops, the handlers' own and
\* the chats' ends interleave.
THEOREM Placing ==
    ASSUME NobodyStops
    PROVE  Spec => ([]DeletesItself => []InOnePlace)
<1>1. TypeInv /\ PlaceInv /\ DeletesItself /\ [Next]_vars => PlaceInv'
    BY NextPlaceInv
<1>2. TypeInv /\ [Next]_vars => TypeInv'
    BY NextTypeInv
<1> QED BY <1>1, <1>2, InitTypeInv, InitPlaceInv, PlaceInvPlaces, PTL DEF Spec

\* And under the same two hypotheses no queue holds a Client structure that is freed
\* or about to be.
THEOREM Living ==
    ASSUME NobodyStops
    PROVE  Spec => ([]DeletesItself => []QueuedIsAlive)
<1>1. TypeInv /\ PlaceInv /\ DeletesItself /\ [Next]_vars => PlaceInv'
    BY NextPlaceInv
<1>2. TypeInv /\ [Next]_vars => TypeInv'
    BY NextTypeInv
<1> QED BY <1>1, <1>2, InitTypeInv, InitPlaceInv, PlaceInvQueuedIsAlive, PTL DEF Spec

-----------------------------------------------------------------------------
(***************************************************************************)
(* The server implements the lobby.                                        *)
(***************************************************************************)

\* Chat k has the pair that c is one of; it lets go of both with the first flag that
\* it clears.
Pairs(k, c) == HasPair(k) /\ c \in ChatPair(k)

LEMMA PairsHold == ASSUME NEW k, NEW c, Pairs(k, c) PROVE Holds(k, c)
  BY DEF Pairs, Holds, HasPair, Engaged

\* What PartnerOf chooses is the other client of the only chat that has c.
Partners ==
    /\ \A k \in Chat : HasPair(k) => /\ client1[k] \in Client /\ client2[k] \in Client
                                     /\ client1[k] # client2[k]
    /\ \A c \in Client, k \in Chat :
          Pairs(k, c) => PartnerOf(c) = IF c = client1[k] THEN client2[k] ELSE client1[k]
    /\ \A c \in Client : (\A k \in Chat : ~Pairs(k, c)) => PartnerOf(c) = NoThread

LEMMA PartnersKnown == TypeInv /\ PlaceInv => Partners
<1> SUFFICES ASSUME TypeInv, PlaceInv PROVE Partners
    OBVIOUS
<1>1. ASSUME NEW k \in Chat, HasPair(k)
      PROVE  client1[k] \in Client /\ client2[k] \in Client /\ client1[k] # client2[k]
  <2>1. client1[k] \in Client /\ client2[k] \in Client
    BY <1>1 DEF TypeInv, Seated, HasPair
  <2>2. Holds(k, client1[k])
    BY <1>1, PairsHold DEF Pairs, ChatPair
  <2> QED BY <2>1, <2>2 DEF PlaceInv, PlaceOf, MeetsIn
<1>2. ASSUME NEW c \in Client, NEW k \in Chat, Pairs(k, c)
      PROVE  PartnerOf(c) = IF c = client1[k] THEN client2[k] ELSE client1[k]
  <2>1. \A l \in Chat : HasPair(l) /\ c \in ChatPair(l) <=> l = k
    BY <1>2, PairsHold DEF PlaceInv, PlaceOf, MeetsIn, Pairs
  <2>2. (CHOOSE l \in Chat : HasPair(l) /\ c \in ChatPair(l)) = k
    BY <2>1
  <2> QED BY <2>1, <2>2 DEF PartnerOf
<1>3. ASSUME NEW c \in Client, \A k \in Chat : ~Pairs(k, c) PROVE PartnerOf(c) = NoThread
    BY <1>3 DEF PartnerOf, Pairs
<1> QED BY <1>1, <1>2, <1>3 DEF Partners

\* A client whose chats stay as they are keeps its partner.
LEMMA KeepsPartner ==
    ASSUME Partners, Partners', NEW c \in Client,
           \A k \in Chat : Pairs(k, c)' <=> Pairs(k, c),
           \A k \in Chat : Pairs(k, c) => client1'[k] = client1[k] /\ client2'[k] = client2[k]
    PROVE  PartnerOf(c)' = PartnerOf(c)
<1>1. CASE \E k \in Chat : Pairs(k, c)
    BY <1>1 DEF Partners
<1>2. CASE \A k \in Chat : ~Pairs(k, c)
    BY <1>2 DEF Partners
<1> QED BY <1>1, <1>2

\* Where nobody gets a chat or loses one, the partners stay.
SeatsKept ==
    \A k \in Chat : /\ HasPair(k)' <=> HasPair(k)
                    /\ HasPair(k) => client1'[k] = client1[k] /\ client2'[k] = client2[k]

LEMMA KeepsPartners ==
    ASSUME Partners, Partners', SeatsKept
    PROVE  UNCHANGED [c \in Client |-> PartnerOf(c)]
<1>1. ASSUME NEW c \in Client PROVE PartnerOf(c)' = PartnerOf(c)
  <2>1. \A k \in Chat : Pairs(k, c)' <=> Pairs(k, c)
    BY DEF SeatsKept, Pairs, ChatPair
  <2>2. \A k \in Chat : Pairs(k, c) => client1'[k] = client1[k] /\ client2'[k] = client2[k]
    BY DEF SeatsKept, Pairs
  <2> QED BY <2>1, <2>2, KeepsPartner
<1> QED BY <1>1

\* A step that leaves the queues' clients and the chats' pairs does nothing in the
\* lobby.
LEMMA LobbyStutter ==
    ASSUME Partners, Partners', SeatsKept, \A r \in Room : ToSet(coda'[r]) = ToSet(coda[r])
    PROVE  UNCHANGED L!lobbyVars
<1>1. UNCHANGED [r \in Room |-> ToSet(coda[r])]
    OBVIOUS
<1> QED BY <1>1, KeepsPartners DEF L!lobbyVars

\* Some are taken out of a queue.
LEMMA LobbyDesert ==
    ASSUME Partners, Partners', SeatsKept, NEW r \in Room, NEW those \in SUBSET ToSet(coda[r]),
           those # {},
           \A x \in Room : ToSet(coda'[x]) = IF x = r THEN ToSet(coda[x]) \ those ELSE ToSet(coda[x])
    PROVE  L!LobbyNext
<1>1. L!Desert(those, r)
    BY KeepsPartners DEF L!Desert
<1> QED BY <1>1 DEF L!LobbyNext

-----------------------------------------------------------------------------
\* A handler brings its client into the lobby's waiting room or takes it out.
LEMMA HandlerLobby ==
    ASSUME DeletesItself, TypeInv, PlaceInv, Partners, Partners', NEW c \in Client, HandlerStep(c)
    PROVE  L!LobbyNext \/ UNCHANGED L!lobbyVars
<1>1. SeatsKept
  <2>1. UNCHANGED <<chatPC, client1, client2>>
    BY DEF HandlerStep, FindsFull, FindsSpace, FindsRoom, AnswersFull, AnswersSpace, Answered,
           DispatchStopped, DispatchMatched, AfterChat,
           Feedback, NoFeedback, Enqueue, AwaitTest, AwaitBlock, AwaitOver, TestsAndBlocks, Blocks,
           TestsAndGoesOn, DispatchDropped, DropDelete, LeavesQueue, DropSignal, DropJoin, StopDelete,
           StopJoin, MatchJoin, ParkTest, ParkBlock, ParkOver, Leave, LeaveNowhere, Forget, Exit
  <2> QED BY <2>1 DEF SeatsKept, HasPair
<1>2. CASE Enqueue(c)
  <2>1. /\ \A x \in Room : c \notin ToSet(coda[x])
        /\ \A k \in Chat : ~Holds(k, c)
        /\ \A x \in Room : ToSet(coda'[x]) = IF x = choice[c] THEN ToSet(coda[x]) \cup {c}
                                                             ELSE ToSet(coda[x])
    BY <1>2, EnqueueEffect
  <2>2. CASE choice[c] \in Room
    <3>1. L!AtLarge(c)
      BY <2>1, PairsHold DEF L!AtLarge, Partners
    <3>2. L!Joins(c, choice[c])
      BY <1>1, <2>1, <2>2, <3>1, KeepsPartners DEF L!Joins
    <3> QED BY <2>2, <3>2 DEF L!LobbyNext
  <2>3. CASE choice[c] \notin Room
    BY <1>1, <2>1, <2>3, LobbyStutter
  <2> QED BY <2>2, <2>3
<1>3. CASE DropDelete(c)
  <2>1. /\ \A x \in Room : c \in ToSet(coda[x]) => x = choice[c]
        /\ \A x \in Room : ToSet(coda'[x]) = ToSet(coda[x]) \ {c}
    BY <1>3, DropEffect
  <2>2. CASE \E x \in Room : c \in ToSet(coda[x])
    <3>1. PICK r \in Room : c \in ToSet(coda[r])
      BY <2>2
    <3>2. \A x \in Room : ToSet(coda'[x]) = IF x = r THEN ToSet(coda[x]) \ {c} ELSE ToSet(coda[x])
      BY <2>1, <3>1
    <3>3. {c} \in SUBSET ToSet(coda[r]) /\ {c} # {}
      BY <3>1
    <3> QED BY <1>1, <3>2, <3>3, LobbyDesert
  <2>3. CASE \A x \in Room : c \notin ToSet(coda[x])
    BY <1>1, <2>1, <2>3, LobbyStutter
  <2> QED BY <2>2, <2>3
<1>4. CASE StopDelete(c)
    BY <1>4 DEF StopDelete, LeavesQueue, Moves, PlaceInv, PlaceOf
<1>5. CASE ~(Enqueue(c) \/ DropDelete(c) \/ StopDelete(c))
  <2>1. UNCHANGED coda
    BY <1>5 DEF HandlerStep, FindsFull, FindsSpace, FindsRoom, AnswersFull, AnswersSpace, Answered,
           DispatchStopped, DispatchMatched, AfterChat,
           Feedback, NoFeedback, AwaitTest, AwaitBlock, AwaitOver, TestsAndBlocks, Blocks,
           TestsAndGoesOn, DispatchDropped, DropSignal, DropJoin,
           StopJoin, MatchJoin, ParkTest, ParkBlock, ParkOver, Leave, LeaveNowhere, Forget, Exit, roomVars
  <2> QED BY <1>1, <2>1, LobbyStutter
<1> QED BY <1>2, <1>3, <1>4, <1>5

\* A watcher and a user do nothing in the lobby.
LEMMA UserLobby ==
    ASSUME Partners, Partners', NEW c \in Client, WatcherStep(c) \/ UserStep(c)
    PROVE  UNCHANGED L!lobbyVars
<1>1. UNCHANGED <<coda, chatPC, client1, client2>>
    BY DEF WatcherStep, UserStep, ChooseRoom, Quit, Vanish, WatchOK, WatchStop, WatchDrop, WatchTests,
           WatchSignal, roomVars
<1>2. SeatsKept
    BY <1>1 DEF SeatsKept, HasPair
<1> QED BY <1>1, <1>2, LobbyStutter

\* A matcher takes disconnected clients out of its queue, or puts two together.
LEMMA RoomLobby ==
    ASSUME TypeInv, PlaceInv, Partners, Partners', NEW r \in Room, RoomStep(r)
    PROVE  L!LobbyNext \/ UNCHANGED L!lobbyVars
<1>1. CASE RoomSleep(r) \/ RoomFindsNobody(r)
  <2>1. UNCHANGED <<coda, chatPC, client1, client2>>
    BY <1>1 DEF RoomSleep, RoomFindsNobody, threadVars
  <2>2. SeatsKept
    BY <2>1 DEF SeatsKept, HasPair
  <2> QED BY <2>1, <2>2, LobbyStutter
<1>2. CASE RoomDropsBoth(r) \/ RoomDropsOne(r)
  <2>1. PICK those \in SUBSET ToSet(coda[r]), q \in Seq(Client) :
            those # {} /\ coda' = [coda EXCEPT ![r] = q] /\ ToSet(q) = ToSet(coda[r]) \ those
    BY <1>2, RoomDropEffect
  <2>2. coda \in [Room -> Seq(Client)]
    BY DEF TypeInv, TypeOK
  <2>3. \A x \in Room : coda'[x] = IF x = r THEN q ELSE coda[x]
    BY <2>1, <2>2
  <2>4. ASSUME NEW x \in Room
        PROVE  ToSet(coda'[x]) = IF x = r THEN ToSet(coda[x]) \ those ELSE ToSet(coda[x])
    <3>1. CASE x = r
      BY <2>1, <2>3, <3>1
    <3>2. CASE x # r
      <4>1. coda'[x] = coda[x]
        BY <2>3, <3>2
      <4> QED BY <3>2, <4>1
    <3> QED BY <3>1, <3>2
  <2>5. SeatsKept
    BY <1>2 DEF RoomDropsBoth, RoomDropsOne, threadVars, SeatsKept, HasPair
  <2> QED BY <2>1, <2>4, <2>5, LobbyDesert
<1>3. ASSUME NEW k \in Chat, NEW lost \in SUBSET MayDrop, RoomStartsChat(r, k, lost)
      PROVE  L!LobbyNext
  <2>1. PICK c1, c2 \in Client :
          /\ c1 # c2 /\ {c1, c2} \subseteq ToSet(coda[r])
          /\ \A x \in Room :
               ToSet(coda'[x]) = IF x = r THEN ToSet(coda[x]) \ {c1, c2} ELSE ToSet(coda[x])
          /\ chatPC'[k] = "lock1" /\ client1'[k] = c1 /\ client2'[k] = c2
          /\ \A l \in Chat \ {k} :
               chatPC'[l] = chatPC[l] /\ client1'[l] = client1[l] /\ client2'[l] = client2[l]
    BY <1>3, StartEffect
  <2>2. chatPC[k] = "free"
    BY <1>3 DEF RoomStartsChat
  <2>3. /\ \A l \in Chat \ {k}, d \in Client : Pairs(l, d)' <=> Pairs(l, d)
        /\ \A d \in Client : (Pairs(k, d)' <=> d \in {c1, c2}) /\ ~Pairs(k, d)
    BY <2>1, <2>2 DEF Pairs, HasPair, ChatPair
  <2>4. PartnerOf(c1)' = c2 /\ PartnerOf(c2)' = c1
    BY <2>1, <2>3 DEF Partners
  <2>5. ASSUME NEW d \in Client \ {c1, c2} PROVE PartnerOf(d)' = PartnerOf(d)
    BY <2>1, <2>3, KeepsPartner
  <2>6. L!Pair(c1, c2, r)
    BY <2>1, <2>4, <2>5 DEF L!Pair
  <2> QED BY <2>1, <2>6 DEF L!LobbyNext
<1> QED BY <1>1, <1>2, <1>3 DEF RoomStep

\* A chat parts its pair when it begins to close; what it does before and after is not
\* seen in the lobby.
LEMMA ChatLobby ==
    ASSUME TypeInv, PlaceInv, Partners, Partners', NEW k \in Chat, ChatStep(k) \/ ChatTalk(k)
    PROVE  L!LobbyNext \/ UNCHANGED L!lobbyVars
<1>1. chatPC \in [Chat -> ChatPC]
    BY DEF TypeInv, TypeOK
<1>2. CASE ChatCloses1(k)
  <2>1. /\ chatPC[k] = "close" /\ chatPC' = [chatPC EXCEPT ![k] = "close2"]
        /\ UNCHANGED <<coda, client1, client2>>
    BY <1>2 DEF ChatCloses1, Unmarks, ChatMoves, roomVars
  <2>2. HasPair(k) /\ \A d \in Client : Pairs(k, d) <=> d \in {client1[k], client2[k]}
    BY <2>1 DEF Pairs, HasPair, ChatPair
  <2>3. /\ \A l \in Chat \ {k}, d \in Client : Pairs(l, d)' <=> Pairs(l, d)
        /\ \A d \in Client : ~Pairs(k, d)'
    BY <1>1, <2>1 DEF Pairs, HasPair, ChatPair
  <2>4. PICK c1, c2 \in Client : c1 = client1[k] /\ c2 = client2[k]
    BY <2>2 DEF Partners
  <2>5. c1 # c2 /\ PartnerOf(c1) = c2
    BY <2>4, <2>2 DEF Partners
  <2>6. \A d \in {c1, c2} : \A l \in Chat : Pairs(l, d) => l = k
    BY <2>4, <2>2, PairsHold DEF PlaceInv, PlaceOf, MeetsIn
  <2>7. PartnerOf(c1)' = NoThread /\ PartnerOf(c2)' = NoThread
    <3>1. ASSUME NEW d \in {c1, c2}, NEW l \in Chat PROVE ~Pairs(l, d)'
      BY <2>3, <2>6
    <3> QED BY <3>1 DEF Partners
  <2>8. ASSUME NEW d \in Client \ {c1, c2} PROVE PartnerOf(d)' = PartnerOf(d)
    BY <2>4, <2>1, <2>2, <2>3, KeepsPartner
  <2>9. c2 # NoThread
    BY <2>5, ConstantsAssumption
  <2>10. L!Part(c1)
    <3> DEFINE partner == [d \in Client |-> PartnerOf(d)]
    <3>1. partner[c1] = c2
      BY <2>5
    <3>2. partner' = [partner EXCEPT ![c1] = NoThread, ![c2] = NoThread]
      BY <2>5, <2>7, <2>8
    <3>3. UNCHANGED [r \in Room |-> ToSet(coda[r])]
      BY <2>1
    <3> HIDE DEF partner
    <3>4. /\ partner[c1] # NoThread
          /\ partner' = [partner EXCEPT ![c1] = NoThread, ![partner[c1]] = NoThread]
      BY <2>9, <3>1, <3>2
    <3> QED BY <3>3, <3>4 DEF L!Part, partner
  <2> QED BY <2>5, <2>10 DEF L!LobbyNext
<1>3. CASE ChatCancelled(k)
  <2>1. HasPair(k) /\ client1[k] = client2[k]
    BY <1>3 DEF ChatCancelled, ChatExits, ChatMoves, HasPair
  <2> QED BY <2>1 DEF Partners
<1>4. CASE ~(ChatCloses1(k) \/ ChatCancelled(k))
  <2>1. UNCHANGED coda
    BY <1>4 DEF ChatStep, ChatTalk, ChatLock1, ChatMarks, ChatConfirms1, ChatConfirms2, ChatGreets,
                ChatCloses2, Unmarks, ChatWakes2, ChatWakes1, ChatEnds, ChatTimesOut, roomVars
  <2>2. SeatsKept
    <3>1. CASE ChatWakes1(k)
      BY <1>1, <3>1 DEF ChatWakes1, ChatExits, ChatMoves, SeatsKept, HasPair
    <3>2. ASSUME NEW from, NEW to, ChatMoves(k, from, to), UNCHANGED <<client1, client2>>,
                 from \in {"free", "close2", "wake2", "wake1"}
                   <=> to \in {"free", "close2", "wake2", "wake1"}
          PROVE  SeatsKept
      BY <1>1, <3>2 DEF ChatMoves, SeatsKept, HasPair
    <3>3. CASE ChatLock1(k) \/ ChatMarks(k) \/ ChatConfirms1(k) \/ ChatConfirms2(k) \/ ChatWakes2(k)
      BY <3>2, <3>3 DEF ChatLock1, ChatMarks, ChatConfirms1, ChatConfirms2, ChatWakes2
    <3>5. CASE ChatCloses2(k)
      BY <3>2, <3>5 DEF ChatCloses2, Unmarks
    <3>4. ASSUME NEW lost, ChatGreets(k, lost) \/ ChatEnds(k, lost) \/ ChatTimesOut(k, lost)
          PROVE  SeatsKept
      BY <3>2, <3>4 DEF ChatGreets, ChatEnds, ChatTimesOut
    <3> QED BY <1>4, <3>1, <3>3, <3>4, <3>5 DEF ChatStep, ChatTalk
  <2> QED BY <2>1, <2>2, LobbyStutter
<1> QED BY <1>2, <1>3, <1>4

-----------------------------------------------------------------------------
\* The server starts where the lobby does.
LEMMA InitLobby == Init => L!LobbyInit
<1> SUFFICES ASSUME Init PROVE L!LobbyInit
    OBVIOUS
<1>1. \A r \in Room : ToSet(coda[r]) = {}
    BY DEF Init, ToSet
<1>2. \A c \in Client : PartnerOf(c) = NoThread
    BY DEF Init, PartnerOf, HasPair
<1> QED BY <1>1, <1>2 DEF L!LobbyInit

\* Every step is one of the lobby or is not seen there.
LEMMA NextLobby ==
    ASSUME NobodyStops
    PROVE  TypeInv /\ PlaceInv /\ DeletesItself /\ TypeInv' /\ PlaceInv' /\ [Next]_vars
           => [L!LobbyNext]_(L!lobbyVars)
<1> SUFFICES ASSUME TypeInv, PlaceInv, DeletesItself, TypeInv', PlaceInv', [Next]_vars
             PROVE  L!LobbyNext \/ UNCHANGED L!lobbyVars
    OBVIOUS
<1>1. Partners
    BY PartnersKnown
<1>2. Partners'
    BY PartnersKnown, PTL
<1>3. CASE Next
    BY <1>1, <1>2, <1>3, RoomLobby, HandlerLobby, UserLobby, ChatLobby DEF Next
<1>4. CASE UNCHANGED vars
  <2>1. UNCHANGED coda /\ SeatsKept
    BY <1>4 DEF vars, roomVars, threadVars, SeatsKept, HasPair
  <2> QED BY <1>1, <1>2, <2>1, LobbyStutter
<1> QED BY <1>3, <1>4

\* While nobody types STOP and no deletion would hit a namesake, what the threads,
\* their mutexes and their flags do amounts to the lobby: a client that queues has no
\* partner left, a pair comes out of one queue and is parted for both at once, and
\* nothing else moves anybody.
THEOREM Refining ==
    ASSUME NobodyStops
    PROVE  Spec => ([]DeletesItself => ImplementsLobby)
<1>1. TypeInv /\ PlaceInv /\ DeletesItself /\ [Next]_vars => PlaceInv'
    BY NextPlaceInv
<1>2. TypeInv /\ [Next]_vars => TypeInv'
    BY NextTypeInv
<1>3. TypeInv /\ PlaceInv /\ DeletesItself /\ TypeInv' /\ PlaceInv' /\ [Next]_vars
      => [L!LobbyNext]_(L!lobbyVars)
    BY NextLobby
<1> QED
    BY <1>1, <1>2, <1>3, InitTypeInv, InitPlaceInv, InitLobby, PTL
    DEF Spec, ImplementsLobby, L!LobbySpec

-----------------------------------------------------------------------------
(***************************************************************************)
(* The occupancy of the rooms: it is never overstated.                     *)
(***************************************************************************)
\* What the count does not show: a handler outside the rooms has no current
\* room, one inside has the room it chose, and one that comes back to the
\* queue without having left, which Enqueue does not count again, is known by
\* its chatTimedout.
Outside == {"menu", "check", "refuse", "admit", "exit", "gone"}
Queueing == {"feedback", "enqueue"}

Placed ==
    \A c \in Client :
      /\ currentRoom[c] \in {NoRoom, choice[c]}
      /\ pc[c] \in Outside => currentRoom[c] = NoRoom
      /\ pc[c] \in Queueing /\ currentRoom[c] # NoRoom => chatTimedout[c]
      /\ pc[c] \in {"check", "admit"} => choice[c] \in Room

CountInv == Placed /\ NeverOvercounted

-----------------------------------------------------------------------------
\* There are finitely many clients in a room.
LEMMA OccupantsFinite == \A r \in Room : IsFiniteSet(Occupants(r)) /\ Cardinality(Occupants(r)) \in Nat
<1> SUFFICES ASSUME NEW r \in Room
             PROVE  IsFiniteSet(Occupants(r)) /\ Cardinality(Occupants(r)) \in Nat
    OBVIOUS
<1>1. Occupants(r) \subseteq Client
    BY DEF Occupants
<1> QED BY <1>1, FS_Subset, FS_CardinalityType, ConstantsAssumption

\* And finitely many after a step.
LEMMA OccupantsFiniteAfter ==
    \A r \in Room : IsFiniteSet(Occupants(r)') /\ Cardinality(Occupants(r)') \in Nat
<1> SUFFICES ASSUME NEW r \in Room
             PROVE  IsFiniteSet(Occupants(r)') /\ Cardinality(Occupants(r)') \in Nat
    OBVIOUS
<1>1. Occupants(r)' \subseteq Client
    BY DEF Occupants
<1> QED BY <1>1, FS_Subset, FS_CardinalityType, ConstantsAssumption

\* Where nobody is taken out of a room and no count grows, no room gets
\* overcounted.
LEMMA CountFrame ==
    ASSUME TypeInv, NeverOvercounted,
           \A r \in Room : numeroClients'[r] \in Int /\ numeroClients'[r] <= numeroClients[r],
           \A r \in Room : Occupants(r) \subseteq Occupants(r)'
    PROVE  NeverOvercounted'
<1> SUFFICES ASSUME NEW r \in Room PROVE numeroClients'[r] <= Cardinality(Occupants(r)')
    BY DEF NeverOvercounted
<1>1. Cardinality(Occupants(r)) <= Cardinality(Occupants(r)')
    BY OccupantsFiniteAfter, FS_Subset
<1>2. numeroClients[r] <= Cardinality(Occupants(r))
    BY DEF NeverOvercounted
<1>3. numeroClients[r] \in Int
    BY DEF TypeInv, TypeOK
<1> QED BY <1>1, <1>2, <1>3, OccupantsFinite, OccupantsFiniteAfter

\* A handler that moves inside or outside the rooms keeps the counts.
LEMMA MoveCountInv ==
    ASSUME TypeInv, CountInv,
           NEW c \in Client, NEW from, NEW to \in HandlerPC \ {"forget"},
           Moves(c, from, to),
           from # "forget",
           to \in {"check", "admit"} => choice[c] \in Room,
           UNCHANGED <<numeroClients, currentRoom, choice, chatTimedout>>,
           to \in Outside => currentRoom[c] = NoRoom,
           to \in Queueing => currentRoom[c] = NoRoom \/ chatTimedout[c]
    PROVE  CountInv'
<1>1. pc[c] = from /\ pc' = [pc EXCEPT ![c] = to] /\ pc \in [Client -> HandlerPC]
    BY DEF Moves, TypeInv, TypeOK
<1>2. Placed'
    BY <1>1 DEF CountInv, Placed, Outside, Queueing
<1>3. \A r \in Room : Occupants(r) \subseteq Occupants(r)'
    BY <1>1 DEF Occupants
<1>4. numeroClients \in [Room -> Int]
    BY DEF TypeInv, TypeOK
<1> QED BY <1>2, <1>3, <1>4, CountFrame DEF CountInv

-----------------------------------------------------------------------------
\* The client enters the queue: it is counted unless it already is.
LEMMA EnqueueCountInv ==
    ASSUME TypeInv, CountInv, NEW c \in Client, Enqueue(c)
    PROVE  CountInv'
<1>1. /\ pc[c] = "enqueue" /\ pc' = [pc EXCEPT ![c] = "await"]
      /\ currentRoom' = [currentRoom EXCEPT ![c] = choice[c]]
      /\ chatTimedout' = [chatTimedout EXCEPT ![c] = FALSE]
      /\ UNCHANGED choice
    BY DEF Enqueue, Moves
<1>2. /\ pc \in [Client -> HandlerPC] /\ numeroClients \in [Room -> Int]
      /\ currentRoom \in [Client -> Room \cup {NoRoom}]
      /\ chatTimedout \in [Client -> BOOLEAN]
    BY DEF TypeInv, TypeOK
<1>3. Placed'
    BY <1>1, <1>2 DEF CountInv, Placed, Outside, Queueing
<1>4. currentRoom[c] \in {NoRoom, choice[c]}
    BY DEF CountInv, Placed
<1>5. \A r \in Room : Occupants(r) \subseteq Occupants(r)'
    BY <1>1, <1>2, <1>4, ConstantsAssumption DEF Occupants
<1>6. CASE chatTimedout[c]
  <2>1. UNCHANGED numeroClients
    BY <1>6 DEF Enqueue
  <2> QED BY <1>2, <1>3, <1>5, <2>1, CountFrame DEF CountInv
<1>7. CASE ~chatTimedout[c]
  <2>1. currentRoom[c] = NoRoom
    BY <1>1, <1>7 DEF CountInv, Placed, Queueing
  <2>2. numeroClients' = [numeroClients EXCEPT ![choice[c]] = @ + 1]
    BY <1>7 DEF Enqueue
  <2>3. ASSUME NEW r \in Room PROVE numeroClients'[r] <= Cardinality(Occupants(r)')
    <3>1. numeroClients[r] \in Int /\ numeroClients[r] <= Cardinality(Occupants(r))
      BY <1>2 DEF CountInv, NeverOvercounted
    <3>2. CASE r = choice[c]
      <4>1. Occupants(r)' = Occupants(r) \cup {c} /\ c \notin Occupants(r)
        BY <1>1, <1>2, <2>1, <3>2, ConstantsAssumption DEF Occupants
      <4>2. Cardinality(Occupants(r)') = Cardinality(Occupants(r)) + 1
        BY <4>1, OccupantsFinite, FS_AddElement
      <4>3. numeroClients'[r] = numeroClients[r] + 1
        BY <1>2, <2>2, <3>2
      <4> QED BY <3>1, <4>2, <4>3, OccupantsFinite
    <3>3. CASE r # choice[c]
      <4>1. numeroClients'[r] = numeroClients[r]
        BY <1>2, <2>2, <3>3
      <4>2. Cardinality(Occupants(r)) <= Cardinality(Occupants(r)')
        BY <1>5, OccupantsFiniteAfter, FS_Subset
      <4> QED BY <3>1, <4>1, <4>2, OccupantsFinite, OccupantsFiniteAfter
    <3> QED BY <3>2, <3>3
  <2> QED BY <1>3, <2>3 DEF CountInv, NeverOvercounted
<1> QED BY <1>2, <1>6, <1>7

\* The client is taken out of the count of the room it is in.
LEMMA LeaveCountInv ==
    ASSUME TypeInv, CountInv, NEW c \in Client, Leave(c)
    PROVE  CountInv'
<1>1. /\ pc[c] = "leave" /\ pc' = [pc EXCEPT ![c] = "forget"]
      /\ currentRoom[c] # NoRoom
      /\ numeroClients' = [numeroClients EXCEPT ![currentRoom[c]] = @ - 1]
      /\ UNCHANGED <<currentRoom, choice, chatTimedout>>
    BY DEF Leave, Moves, matchVars, flagVars
<1>2. /\ pc \in [Client -> HandlerPC] /\ numeroClients \in [Room -> Int]
      /\ currentRoom \in [Client -> Room \cup {NoRoom}]
    BY DEF TypeInv, TypeOK
<1>3. Placed'
    BY <1>1, <1>2 DEF CountInv, Placed, Outside, Queueing
<1>4. ASSUME NEW r \in Room PROVE numeroClients'[r] <= Cardinality(Occupants(r)')
  <2>1. numeroClients[r] \in Int /\ numeroClients[r] <= Cardinality(Occupants(r))
    BY <1>2 DEF CountInv, NeverOvercounted
  <2>2. CASE r = currentRoom[c]
    <3>1. Occupants(r)' = Occupants(r) \ {c} /\ c \in Occupants(r)
      BY <1>1, <1>2, <2>2 DEF Occupants
    <3>2. Cardinality(Occupants(r)') = Cardinality(Occupants(r)) - 1
      BY <3>1, OccupantsFinite, FS_RemoveElement
    <3>3. numeroClients'[r] = numeroClients[r] - 1
      BY <1>1, <1>2, <2>2
    <3> QED BY <2>1, <3>2, <3>3, OccupantsFinite
  <2>3. CASE r # currentRoom[c]
    <3>1. Occupants(r)' = Occupants(r)
      BY <1>1, <1>2, <2>3 DEF Occupants
    <3>2. numeroClients'[r] = numeroClients[r]
      BY <1>1, <1>2, <2>3
    <3> QED BY <2>1, <3>1, <3>2
  <2> QED BY <2>2, <2>3
<1> QED BY <1>3, <1>4 DEF CountInv, NeverOvercounted

\* The client has no room any more, and was not counted in it any more.
LEMMA ForgetCountInv ==
    ASSUME TypeInv, CountInv, NEW c \in Client, Forget(c) \/ LeaveNowhere(c)
    PROVE  CountInv'
<1>1. /\ pc' = [pc EXCEPT ![c] = NextRound(c)] /\ NextRound(c) \in {"menu", "exit"}
      /\ pc[c] = "forget" \/ currentRoom[c] = NoRoom
      /\ currentRoom' = [currentRoom EXCEPT ![c] = NoRoom]
      /\ choice' = [choice EXCEPT ![c] = NoRoom]
      /\ UNCHANGED <<numeroClients, chatTimedout>>
    BY DEF Forget, LeaveNowhere, Moves, NextRound, roomVars, flagVars, TypeInv, TypeOK
<1>2. /\ pc \in [Client -> HandlerPC] /\ numeroClients \in [Room -> Int]
      /\ currentRoom \in [Client -> Room \cup {NoRoom}]
      /\ choice \in [Client -> Room \cup {NoRoom}]
    BY DEF TypeInv, TypeOK
<1>3. Placed'
    BY <1>1, <1>2 DEF CountInv, Placed, Outside, Queueing
<1>4. \A r \in Room : Occupants(r) \subseteq Occupants(r)'
    BY <1>1, <1>2, ConstantsAssumption DEF Occupants
<1> QED BY <1>1, <1>2, <1>3, <1>4, CountFrame DEF CountInv

\* A handler keeps the counts.
LEMMA HandlerCountInv ==
    ASSUME TypeInv, CountInv, NEW c \in Client, HandlerStep(c)
    PROVE  CountInv'
<1> USE DEF roomVars, flagVars, matchVars, otherFlags, Outside, Queueing, HandlerPC
<1>1. isConnected \in [Client -> BOOLEAN] /\ deletedFromQueue \in [Client -> BOOLEAN]
    BY DEF TypeInv, TypeOK
<1>2. /\ pc[c] \in Outside => currentRoom[c] = NoRoom
      /\ pc[c] = "check" => choice[c] \in Room
    BY DEF CountInv, Placed
<1>3. ASSUME NEW lost \in SUBSET {c}, AnswersFull(c, lost) \/ AnswersSpace(c, lost)
      PROVE  CountInv'
    BY <1>2, <1>3, MoveCountInv DEF AnswersFull, AnswersSpace, Answered, Moves
<1>13. CASE FindsFull(c) \/ FindsSpace(c)
    BY <1>2, <1>13, MoveCountInv DEF FindsFull, FindsSpace, FindsRoom, Moves
<1>4. ASSUME NEW lost \in SUBSET {c}, DispatchStopped(c, lost) \/ DispatchMatched(c, lost)
      PROVE  CountInv'
    BY <1>4, MoveCountInv DEF DispatchStopped, DispatchMatched
<1>5. ASSUME NEW lost \in SUBSET {c}, AfterChat(c, lost)
      PROVE  CountInv'
    BY <1>5, MoveCountInv DEF AfterChat, Again
<1>6. CASE Feedback(c) \/ NoFeedback(c)
  <2>1. currentRoom[c] = NoRoom \/ chatTimedout[c]
    BY <1>6 DEF CountInv, Placed, Feedback, NoFeedback, Moves
  <2> QED BY <1>6, <2>1, MoveCountInv DEF Feedback, NoFeedback
<1>7. CASE AwaitTest(c) \/ AwaitBlock(c) \/ AwaitOver(c)
    BY <1>7, MoveCountInv DEF AwaitTest, AwaitBlock, AwaitOver, TestsAndBlocks, Blocks,
       TestsAndGoesOn
<1>8. CASE ParkTest(c) \/ ParkBlock(c) \/ ParkOver(c)
    BY <1>8, MoveCountInv DEF ParkTest, ParkBlock, ParkOver, TestsAndBlocks, Blocks,
       TestsAndGoesOn
<1>9. CASE DispatchDropped(c) \/ DropSignal(c) \/ DropJoin(c)
    BY <1>9, MoveCountInv DEF DispatchDropped, DropSignal, DropJoin, Joins
<1>10. CASE DropDelete(c) \/ StopDelete(c)
    BY <1>10, MoveCountInv DEF DropDelete, StopDelete, LeavesQueue
<1>11. CASE StopJoin(c) \/ MatchJoin(c)
    BY <1>11, MoveCountInv DEF StopJoin, AgainAfterStop, MatchJoin, Joins
<1>12. CASE Exit(c)
    BY <1>2, <1>12, MoveCountInv DEF Exit, Moves
<1> QED
    BY <1>3, <1>4, <1>5, <1>6, <1>7, <1>8, <1>9, <1>10, <1>11, <1>12, <1>13,
       EnqueueCountInv, LeaveCountInv, ForgetCountInv DEF HandlerStep

\* So do the watcher and the user.
LEMMA UserCountInv ==
    ASSUME TypeInv, CountInv, NEW c \in Client, WatcherStep(c) \/ UserStep(c)
    PROVE  CountInv'
<1> USE DEF roomVars, flagVars, matchVars, otherFlags, Outside, Queueing, HandlerPC
<1>1. numeroClients \in [Room -> Int] /\ pc \in [Client -> HandlerPC]
    BY DEF TypeInv, TypeOK
<1>2. pc[c] \in Outside => currentRoom[c] = NoRoom
    BY DEF CountInv, Placed
<1>3. CASE WatcherStep(c) \/ WatchStop(c) \/ WatchDrop(c)
  <2>1. UNCHANGED <<pc, currentRoom, choice, chatTimedout, numeroClients>>
    BY <1>3 DEF WatcherStep, WatchOK, WatchTests, WatchSignal, WatchStop, WatchDrop
  <2>2. Placed'
    BY <2>1 DEF CountInv, Placed
  <2>3. \A r \in Room : Occupants(r)' = Occupants(r)
    BY <2>1 DEF Occupants
  <2> QED BY <1>1, <2>1, <2>2, <2>3, CountFrame DEF CountInv
<1>4. CASE Quit(c) \/ Vanish(c)
    BY <1>2, <1>4, MoveCountInv DEF Quit, Vanish, Moves
<1>5. ASSUME NEW r \in Room, ChooseRoom(c, r) PROVE CountInv'
  <2>1. /\ pc[c] = "menu" /\ pc' = [pc EXCEPT ![c] = "check"]
        /\ choice' = [choice EXCEPT ![c] = r]
        /\ UNCHANGED <<numeroClients, currentRoom, chatTimedout>>
    BY <1>5 DEF ChooseRoom, Moves
  <2>2. choice \in [Client -> Room \cup {NoRoom}]
    BY DEF TypeInv, TypeOK
  <2>3. Placed'
    BY <1>1, <1>2, <2>1, <2>2 DEF CountInv, Placed
  <2>4. \A x \in Room : Occupants(x) \subseteq Occupants(x)'
    BY <1>1, <2>1 DEF Occupants
  <2> QED BY <1>1, <2>1, <2>3, <2>4, CountFrame DEF CountInv
<1> QED BY <1>3, <1>4, <1>5 DEF UserStep

\* The matcher of a room only lowers counts, and a chat does not know them.
LEMMA OtherCountInv ==
    ASSUME TypeInv, CountInv,
           \/ \E r \in Room : RoomStep(r)
           \/ \E k \in Chat : ChatStep(k) \/ ChatTalk(k)
    PROVE  CountInv'
<1> USE DEF roomVars, flagVars, matchVars, threadVars
<1>1. numeroClients \in [Room -> Int] /\ chatTimedout \in [Client -> BOOLEAN]
    BY DEF TypeInv, TypeOK
<1>2. ASSUME UNCHANGED <<pc, currentRoom, choice>>,
             \A c \in Client : chatTimedout[c] => chatTimedout'[c],
             \A r \in Room : numeroClients'[r] \in Int /\ numeroClients'[r] <= numeroClients[r]
      PROVE  CountInv'
  <2>1. Placed'
    BY <1>2 DEF CountInv, Placed
  <2>2. \A r \in Room : Occupants(r)' = Occupants(r)
    BY <1>2 DEF Occupants
  <2> QED BY <1>2, <2>1, <2>2, CountFrame DEF CountInv
<1>3. ASSUME NEW r \in Room, RoomStep(r) PROVE CountInv'
  <2>1. CASE RoomSleep(r) \/ RoomFindsNobody(r)
    BY <1>1, <1>2, <2>1 DEF RoomSleep, RoomFindsNobody
  <2>2. CASE RoomDropsBoth(r) \/ RoomDropsOne(r)
    <3>1. UNCHANGED <<pc, currentRoom, choice, chatTimedout>>
      BY <2>2 DEF RoomDropsBoth, RoomDropsOne
    <3>2. \E n \in {1, 2} : numeroClients' = [numeroClients EXCEPT ![r] = @ - n]
      BY <2>2 DEF RoomDropsBoth, RoomDropsOne
    <3> QED BY <1>1, <1>2, <3>1, <3>2
  <2>3. ASSUME NEW k \in Chat, NEW lost \in SUBSET MayDrop, RoomStartsChat(r, k, lost)
        PROVE  CountInv'
    BY <1>1, <1>2, <2>3 DEF RoomStartsChat
  <2> QED BY <1>3, <2>1, <2>2, <2>3 DEF RoomStep
<1>4. ASSUME NEW k \in Chat, ChatStep(k) \/ ChatTalk(k) PROVE CountInv'
  <2>1. ASSUME NEW lost \in SUBSET MayDrop, ChatTimesOut(k, lost) PROVE CountInv'
    BY <1>1, <1>2, <2>1 DEF ChatTimesOut
  <2>2. ASSUME NEW lost \in SUBSET MayDrop, ChatGreets(k, lost) \/ ChatEnds(k, lost)
        PROVE  CountInv'
    BY <1>1, <1>2, <2>2 DEF ChatGreets, ChatEnds
  <2>3. CASE \/ ChatLock1(k) \/ ChatCancelled(k) \/ ChatMarks(k) \/ ChatConfirms1(k)
             \/ ChatConfirms2(k) \/ ChatCloses1(k) \/ ChatCloses2(k) \/ ChatWakes2(k) \/ ChatWakes1(k)
    <3>1. UNCHANGED <<pc, currentRoom, choice, chatTimedout, numeroClients>>
      BY <2>3 DEF ChatLock1, ChatCancelled, ChatMarks, ChatConfirms1, ChatConfirms2,
                  ChatCloses1, ChatCloses2, Unmarks, ChatWakes2, ChatWakes1
    <3> QED BY <1>1, <1>2, <3>1
  <2> QED BY <1>4, <2>1, <2>2, <2>3 DEF ChatStep, ChatTalk
<1> QED BY <1>3, <1>4

\* Every step keeps the counts.
LEMMA NextCountInv == TypeInv /\ CountInv /\ [Next]_vars => CountInv'
<1> SUFFICES ASSUME TypeInv, CountInv, [Next]_vars PROVE CountInv'
    OBVIOUS
<1>1. CASE Next
    BY <1>1, HandlerCountInv, UserCountInv, OtherCountInv DEF Next
<1>2. CASE UNCHANGED vars
    BY <1>2 DEF CountInv, Placed, NeverOvercounted, Occupants, vars, roomVars, flagVars,
                matchVars, threadVars
<1> QED BY <1>1, <1>2

\* At the start nobody is in a room and nobody is counted.
LEMMA InitCountInv == Init => CountInv
<1> SUFFICES ASSUME Init PROVE CountInv
    OBVIOUS
<1>1. Placed
    BY DEF Init, Placed, Queueing
<1>2. \A r \in Room : numeroClients[r] = 0
    BY DEF Init
<1> QED BY <1>1, <1>2, OccupantsFinite DEF CountInv, NeverOvercounted

\* The count of a room never exceeds the number of clients inside it, however
\* many there are and whoever stops, drops or is sent back by the chat timer, the
\* client included that goes round again when a chat has timed out under its STOP.
THEOREM Counting == Spec => []NeverOvercounted
<1>1. TypeInv /\ CountInv /\ [Next]_vars => CountInv'
    BY NextCountInv
<1>2. TypeInv /\ [Next]_vars => TypeInv'
    BY NextTypeInv
<1>3. CountInv => NeverOvercounted
    BY DEF CountInv
<1> QED BY <1>1, <1>2, <1>3, InitTypeInv, InitCountInv, PTL DEF Spec

-----------------------------------------------------------------------------
(***************************************************************************)
(* How many clients a room counts.  The occupancy is tested in one critical*)
(* section and raised in a later one, so the count may exceed the places of*)
(* the room, if two handlers are between the two at once.                  *)
(***************************************************************************)
\* The handler has found space, and is yet to count its client.
Admittee(c)   == pc[c] \in {"admit"} \cup Queueing /\ ~chatTimedout[c]
OneAtATime    == \A c, d \in Client : Admittee(c) /\ Admittee(d) /\ choice[c] = choice[d] => c = d
CountInBounds == \A r \in Room : numeroClients[r] <= MaxClients

\* There is still space for whoever has been told so.
SpaceInv ==
    /\ CountInBounds
    /\ \A c \in Client : Admittee(c) => choice[c] \in Room /\ numeroClients[choice[c]] < MaxClients

\* Where no count grows and nobody is told anything, nothing changes.
LEMMA SpaceFrame ==
    ASSUME TypeInv, SpaceInv,
           \A r \in Room : numeroClients'[r] \in Int /\ numeroClients'[r] <= numeroClients[r],
           \A c \in Client : Admittee(c)' => Admittee(c) /\ choice'[c] = choice[c]
    PROVE  SpaceInv'
<1>1. numeroClients \in [Room -> Int] /\ MaxClients \in Nat
    BY ConstantsAssumption DEF TypeInv, TypeOK
<1>2. CountInBounds'
    BY <1>1 DEF SpaceInv, CountInBounds
<1>3. ASSUME NEW c \in Client, Admittee(c)' PROVE choice'[c] \in Room /\ numeroClients'[choice'[c]] < MaxClients
    BY <1>1, <1>3 DEF SpaceInv
<1> QED BY <1>2, <1>3 DEF SpaceInv

\* A handler that moves on without being told anything.
LEMMA SpaceMove ==
    ASSUME TypeInv, SpaceInv, NEW c \in Client, NEW from, NEW to, Moves(c, from, to),
           \A r \in Room : numeroClients'[r] \in Int /\ numeroClients'[r] <= numeroClients[r],
           \A d \in Client : d # c => choice'[d] = choice[d],
           UNCHANGED chatTimedout,
           to \in {"admit"} \cup Queueing =>
               chatTimedout[c] \/ (from \in {"admit"} \cup Queueing /\ choice'[c] = choice[c])
    PROVE  SpaceInv'
<1>1. pc[c] = from /\ pc'[c] = to /\ \A d \in Client : d # c => pc'[d] = pc[d]
    BY DEF Moves, TypeInv, TypeOK
<1>2. \A d \in Client : Admittee(d)' => Admittee(d) /\ choice'[d] = choice[d]
    BY <1>1 DEF Admittee
<1> QED BY <1>2, SpaceFrame

\* The handler finds space when there is.
LEMMA FindsSpaceInv ==
    ASSUME TypeInv, CountInv, SpaceInv, NEW c \in Client, FindsSpace(c)
    PROVE  SpaceInv'
<1>1. /\ pc[c] = "check" /\ \A d \in Client : d # c => pc'[d] = pc[d]
      /\ UNCHANGED <<numeroClients, choice, chatTimedout>>
    BY DEF FindsSpace, FindsRoom, Moves, TypeInv, TypeOK, roomVars, flagVars, matchVars
<1>2. numeroClients \in [Room -> Int] /\ MaxClients \in Nat
    BY ConstantsAssumption DEF TypeInv, TypeOK
<1>3. choice[c] \in Room /\ numeroClients[choice[c]] < MaxClients
    BY <1>1, <1>2 DEF CountInv, Placed, SpaceInv, CountInBounds, FindsSpace, IsFull
<1>4. ASSUME NEW d \in Client, Admittee(d)' PROVE choice'[d] \in Room /\ numeroClients'[choice'[d]] < MaxClients
    BY <1>1, <1>3, <1>4 DEF SpaceInv, Admittee
<1> QED BY <1>1, <1>4 DEF SpaceInv, CountInBounds

\* The count is raised for the one who was told, and nobody else was.
LEMMA EnqueueSpaceInv ==
    ASSUME TypeInv, SpaceInv, OneAtATime, NEW c \in Client, Enqueue(c)
    PROVE  SpaceInv'
<1>1. /\ pc[c] = "enqueue" /\ pc'[c] = "await" /\ \A d \in Client : d # c => pc'[d] = pc[d]
      /\ \A d \in Client : d # c => chatTimedout'[d] = chatTimedout[d]
      /\ UNCHANGED choice
    BY DEF Enqueue, Moves, TypeInv, TypeOK
<1>2. numeroClients \in [Room -> Int] /\ MaxClients \in Nat
    BY ConstantsAssumption DEF TypeInv, TypeOK
<1>3. \A d \in Client : Admittee(d)' => d # c /\ Admittee(d)
    BY <1>1 DEF Admittee, Queueing
<1>4. CASE chatTimedout[c]
  <2>1. UNCHANGED numeroClients
    BY <1>4 DEF Enqueue
  <2> QED BY <1>1, <1>2, <1>3, <2>1, SpaceFrame
<1>5. CASE ~chatTimedout[c]
  <2>1. Admittee(c)
    BY <1>1, <1>5 DEF Admittee, Queueing
  <2>2. choice[c] \in Room /\ numeroClients[choice[c]] < MaxClients
    BY <2>1 DEF SpaceInv
  <2>3. \A r \in Room : numeroClients'[r] = IF r = choice[c] THEN numeroClients[r] + 1 ELSE numeroClients[r]
    BY <1>2, <1>5 DEF Enqueue
  <2>4. CountInBounds'
    BY <1>2, <2>2, <2>3 DEF SpaceInv, CountInBounds
  <2>5. ASSUME NEW d \in Client, Admittee(d)'
        PROVE  choice'[d] \in Room /\ numeroClients'[choice'[d]] < MaxClients
    <3>1. choice[d] # choice[c]
      BY <1>3, <2>1, <2>5 DEF OneAtATime
    <3> QED BY <1>1, <1>3, <2>3, <2>5, <3>1 DEF SpaceInv
  <2> QED BY <2>4, <2>5 DEF SpaceInv
<1> QED BY <1>4, <1>5

\* The other steps of a handler.
LEMMA HandlerSpaceInv ==
    ASSUME TypeInv, CountInv, SpaceInv, OneAtATime, NEW c \in Client, HandlerStep(c)
    PROVE  SpaceInv'
<1> USE DEF roomVars, flagVars, matchVars, otherFlags, Queueing
<1>1. /\ numeroClients \in [Room -> Int] /\ currentRoom \in [Client -> Room \cup {NoRoom}]
      /\ choice \in [Client -> Room \cup {NoRoom}]
    BY DEF TypeInv, TypeOK
<1>2. ASSUME NEW lost \in SUBSET {c},
             \/ AnswersFull(c, lost) \/ AnswersSpace(c, lost)
             \/ DispatchStopped(c, lost) \/ DispatchMatched(c, lost) \/ AfterChat(c, lost)
      PROVE  SpaceInv'
  <2>1. CASE AnswersFull(c, lost) \/ AnswersSpace(c, lost)
    BY <1>1, <2>1, SpaceMove DEF AnswersFull, AnswersSpace, Answered
  <2>2. CASE DispatchStopped(c, lost) \/ DispatchMatched(c, lost) \/ AfterChat(c, lost)
    BY <1>1, <2>2, SpaceMove DEF DispatchStopped, DispatchMatched, AfterChat, Again
  <2> QED BY <1>2, <2>1, <2>2
<1>10. CASE FindsFull(c)
    BY <1>1, <1>10, SpaceMove DEF FindsFull, FindsRoom
<1>3. CASE Feedback(c) \/ NoFeedback(c)
    BY <1>1, <1>3, SpaceMove DEF Feedback, NoFeedback
<1>4. CASE AwaitTest(c) \/ AwaitBlock(c) \/ AwaitOver(c) \/ ParkTest(c) \/ ParkBlock(c) \/ ParkOver(c)
    BY <1>1, <1>4, SpaceMove DEF AwaitTest, AwaitBlock, AwaitOver, ParkTest, ParkBlock, ParkOver,
       TestsAndBlocks, Blocks, TestsAndGoesOn
<1>5. CASE DispatchDropped(c) \/ DropSignal(c) \/ DropJoin(c) \/ StopJoin(c) \/ MatchJoin(c)
    BY <1>1, <1>5, SpaceMove DEF DispatchDropped, DropSignal, DropJoin, StopJoin, AgainAfterStop, MatchJoin, Joins
<1>6. CASE DropDelete(c) \/ StopDelete(c)
    BY <1>1, <1>6, SpaceMove DEF DropDelete, StopDelete, LeavesQueue
<1>7. CASE Leave(c)
  <2>1. Moves(c, "leave", "forget") /\ UNCHANGED <<choice, chatTimedout>>
    BY <1>7 DEF Leave
  <2>2. numeroClients' = [numeroClients EXCEPT ![currentRoom[c]] = @ - 1]
    BY <1>7 DEF Leave
  <2>3. \A r \in Room : numeroClients'[r] \in Int /\ numeroClients'[r] <= numeroClients[r]
    BY <1>1, <2>2
  <2> QED BY <2>1, <2>3, SpaceMove
<1>8. CASE LeaveNowhere(c) \/ Forget(c)
    BY <1>1, <1>8, SpaceMove DEF LeaveNowhere, Forget, NextRound
<1>9. CASE Exit(c)
    BY <1>1, <1>9, SpaceMove DEF Exit
<1> QED
    BY <1>2, <1>3, <1>4, <1>5, <1>6, <1>7, <1>8, <1>9, <1>10, FindsSpaceInv, EnqueueSpaceInv
    DEF HandlerStep

\* What the users, the watchers, the matchers and the chats do.
LEMMA OtherSpaceInv ==
    ASSUME TypeInv, SpaceInv,
           \/ \E c \in Client : WatcherStep(c) \/ UserStep(c)
           \/ \E r \in Room : RoomStep(r)
           \/ \E k \in Chat : ChatStep(k) \/ ChatTalk(k)
    PROVE  SpaceInv'
<1> USE DEF roomVars, flagVars, matchVars, threadVars, otherFlags
<1>1. /\ numeroClients \in [Room -> Int] /\ chatTimedout \in [Client -> BOOLEAN]
      /\ choice \in [Client -> Room \cup {NoRoom}]
    BY DEF TypeInv, TypeOK
<1>2. ASSUME UNCHANGED <<pc, choice>>,
             \A c \in Client : chatTimedout[c] => chatTimedout'[c],
             \A r \in Room : numeroClients'[r] \in Int /\ numeroClients'[r] <= numeroClients[r]
      PROVE  SpaceInv'
    BY <1>2, SpaceFrame DEF Admittee
<1>3. ASSUME NEW c \in Client, WatcherStep(c) \/ WatchStop(c) \/ WatchDrop(c) PROVE SpaceInv'
    BY <1>1, <1>2, <1>3 DEF WatcherStep, WatchOK, WatchTests, WatchSignal, WatchStop, WatchDrop
<1>4. ASSUME NEW c \in Client, Quit(c) \/ Vanish(c) PROVE SpaceInv'
    BY <1>1, <1>4, SpaceMove DEF Quit, Vanish, Queueing
<1>5. ASSUME NEW c \in Client, NEW r \in Room, ChooseRoom(c, r) PROVE SpaceInv'
  <2>1. /\ Moves(c, "menu", "check") /\ UNCHANGED <<numeroClients, chatTimedout>>
        /\ choice' = [choice EXCEPT ![c] = r]
    BY <1>5 DEF ChooseRoom
  <2> QED BY <1>1, <2>1, SpaceMove DEF Queueing
<1>6. ASSUME NEW r \in Room, RoomStep(r) PROVE SpaceInv'
  <2>1. UNCHANGED <<pc, choice, chatTimedout>>
    BY <1>6 DEF RoomStep, RoomSleep, RoomFindsNobody, RoomDropsBoth, RoomDropsOne, RoomStartsChat
  <2>2. \E n \in 0..2 : numeroClients' = [numeroClients EXCEPT ![r] = @ - n]
    <3>1. CASE UNCHANGED numeroClients
      <4>1. numeroClients' = [numeroClients EXCEPT ![r] = @ - 0]
        BY <1>1, <3>1
      <4> QED BY <4>1
    <3>2. CASE RoomDropsBoth(r) \/ RoomDropsOne(r)
        BY <3>2 DEF RoomDropsBoth, RoomDropsOne
    <3> QED BY <1>6, <3>1, <3>2 DEF RoomStep, RoomSleep, RoomFindsNobody, RoomStartsChat
  <2>3. \A x \in Room : numeroClients'[x] \in Int /\ numeroClients'[x] <= numeroClients[x]
    BY <1>1, <2>2
  <2> QED BY <1>2, <2>1, <2>3
<1>7. ASSUME NEW k \in Chat, ChatStep(k) \/ ChatTalk(k) PROVE SpaceInv'
  <2>1. UNCHANGED <<pc, choice, numeroClients>>
    BY <1>7 DEF ChatStep, ChatLock1, ChatCancelled, ChatMarks, ChatConfirms1, ChatConfirms2, ChatGreets,
       ChatCloses1, ChatCloses2, Unmarks, ChatWakes2, ChatWakes1, ChatTalk, ChatEnds, ChatTimesOut
  <2>2. \A c \in Client : chatTimedout[c] => chatTimedout'[c]
    BY <1>1, <1>7 DEF ChatStep, ChatLock1, ChatCancelled, ChatMarks, ChatConfirms1, ChatConfirms2, ChatGreets,
       ChatCloses1, ChatCloses2, Unmarks, ChatWakes2, ChatWakes1, ChatTalk, ChatEnds, ChatTimesOut
  <2> QED BY <1>1, <1>2, <2>1, <2>2
<1> QED BY <1>3, <1>4, <1>5, <1>6, <1>7 DEF UserStep

\* The count of a room never exceeds its places, whoever drops, stops or is sent
\* back to the queue, as long as no two handlers at a time have found space for
\* their clients and have yet to count them.  What the count is worth is another
\* matter: a client that is counted out twice leaves it too low.
LEMMA CountsInBounds == Spec => ([]OneAtATime => []CountInBounds)
<1>1. Init => SpaceInv
    BY ConstantsAssumption DEF Init, SpaceInv, CountInBounds, Admittee, Queueing
<1>2. TypeInv /\ CountInv /\ SpaceInv /\ OneAtATime /\ [Next]_vars => SpaceInv'
  <2> SUFFICES ASSUME TypeInv, CountInv, SpaceInv, OneAtATime, [Next]_vars PROVE SpaceInv'
      OBVIOUS
  <2>1. CASE Next
      BY <2>1, HandlerSpaceInv, OtherSpaceInv DEF Next
  <2>2. CASE UNCHANGED vars
      BY <2>2 DEF SpaceInv, CountInBounds, Admittee, vars, roomVars, flagVars, matchVars, threadVars
  <2> QED BY <2>1, <2>2
<1>3. TypeInv /\ CountInv /\ [Next]_vars => CountInv'
    BY NextCountInv
<1>4. TypeInv /\ [Next]_vars => TypeInv'
    BY NextTypeInv
<1>5. SpaceInv => CountInBounds
    BY DEF SpaceInv
<1> QED BY <1>1, <1>2, <1>3, <1>4, <1>5, InitTypeInv, InitCountInv, PTL DEF Spec

-----------------------------------------------------------------------------
(***************************************************************************)
(* As long as nobody is disconnected, and nobody types STOP, the count is  *)
(* exact.                                                                  *)
(***************************************************************************)
NobodyDrops == MayDrop = {}

\* The places of a handler inside a room, of one whose client chatTimedout may
\* concern, and of one whose client has left the server.
Inside == Waiting \cup Meeting \cup {"after_chat"}
Recent == Inside \cup Queueing
Left   == {"leave", "forget", "exit", "gone"}

\* Only who has left the server is disconnected, so no matcher drops anybody;
\* and the mark of the chat timer is on nobody who is not counted.
CalmAbout(c) ==
    /\ ~isConnected[c] => pc[c] \in Left /\ \A k \in Chat : ~Holds(k, c)
    /\ chatTimedout[c] => pc[c] \in Recent /\ currentRoom[c] # NoRoom
    /\ pc[c] \in Inside => currentRoom[c] # NoRoom
    /\ pc[c] \in {"admit"} \cup Queueing => choice[c] \in Room

CalmInv == ExactOccupancy /\ \A c \in Client : CalmAbout(c)

\* All that is known of the server when it is calm.
Known == TypeInv /\ PlaceInv /\ CountInv /\ CalmInv

\* Disconnecting nobody changes nothing.
LEMMA DisconnectsNobody ==
    ASSUME TypeInv, NEW lost, lost = {}, isConnected' = Disconnect(lost)
    PROVE  UNCHANGED isConnected
  BY DEF TypeInv, TypeOK, Disconnect

\* Where the counts and those inside stay, the counts stay exact.
LEMMA ExactFrame ==
    ASSUME ExactOccupancy,
           \A r \in Room : numeroClients'[r] = numeroClients[r] /\ Occupants(r)' = Occupants(r)
    PROVE  ExactOccupancy'
<1>1. ASSUME NEW r \in Room PROVE numeroClients'[r] = Cardinality(Occupants(r)')
  <2>1. numeroClients[r] = Cardinality(Occupants(r))
    BY DEF ExactOccupancy
  <2> QED BY <2>1
<1> QED BY <1>1 DEF ExactOccupancy

\* A handler's step leaves what is known of the other clients.
LEMMA CalmAboutOthers ==
    ASSUME CalmInv, NEW c \in Client,
           UNCHANGED <<chatPC, client1, client2>>,
           \A d \in Client \ {c} :
               /\ pc'[d] = pc[d] /\ isConnected'[d] = isConnected[d]
               /\ chatTimedout'[d] = chatTimedout[d]
               /\ currentRoom'[d] = currentRoom[d] /\ choice'[d] = choice[d],
           CalmAbout(c)'
    PROVE  \A d \in Client : CalmAbout(d)'
<1>1. \A k \in Chat, d \in Client : Holds(k, d)' = Holds(k, d)
    BY DEF Holds, Engaged, ChatPair
<1>2. ASSUME NEW d \in Client \ {c} PROVE CalmAbout(d)'
    BY <1>1 DEF CalmInv, CalmAbout
<1> QED BY <1>2

\* A handler that moves from one place to another.
LEMMA MoveCalmInv ==
    ASSUME Known, NEW c \in Client,
           NEW from \in HandlerPC \ {"forget"}, NEW to \in HandlerPC \ {"forget"},
           Moves(c, from, to),
           UNCHANGED <<numeroClients, isConnected, currentRoom, choice, chatTimedout, chatPC,
                       client1, client2>>,
           ~isConnected[c] => to \in Left,
           chatTimedout[c] => to \in Recent,
           to \in Inside => currentRoom[c] # NoRoom,
           to \in {"admit"} \cup Queueing => choice[c] \in Room
    PROVE  CalmInv'
<1>1. pc[c] = from /\ pc' = [pc EXCEPT ![c] = to] /\ pc \in [Client -> HandlerPC]
    BY DEF Moves, Known, TypeInv, TypeOK
<1>2. CalmAbout(c)'
  <2>1. CalmAbout(c)
    BY DEF Known, CalmInv
  <2>2. \A k \in Chat : Holds(k, c)' = Holds(k, c)
    BY DEF Holds, Engaged, ChatPair
  <2> QED BY <1>1, <2>1, <2>2 DEF CalmAbout
<1>3. \A r \in Room : Occupants(r)' = Occupants(r)
    BY <1>1 DEF Occupants
<1>4. \A d \in Client : CalmAbout(d)'
    BY <1>1, <1>2, CalmAboutOthers DEF Known
<1> QED BY <1>3, <1>4, ExactFrame DEF Known, CalmInv

\* Who enters a queue is counted; who comes back to it is counted already.
LEMMA EnqueueCalmInv ==
    ASSUME Known, NEW c \in Client, Enqueue(c)
    PROVE  CalmInv'
<1>1. /\ pc[c] = "enqueue" /\ pc' = [pc EXCEPT ![c] = "await"]
      /\ currentRoom' = [currentRoom EXCEPT ![c] = choice[c]]
      /\ chatTimedout' = [chatTimedout EXCEPT ![c] = FALSE]
      /\ UNCHANGED <<choice, isConnected, chatPC, client1, client2>>
    BY DEF Enqueue, Moves
<1>2. /\ pc \in [Client -> HandlerPC] /\ numeroClients \in [Room -> Int]
      /\ currentRoom \in [Client -> Room \cup {NoRoom}]
      /\ chatTimedout \in [Client -> BOOLEAN]
    BY DEF Known, TypeInv, TypeOK
<1>3. /\ isConnected[c] /\ choice[c] \in Room
      /\ IF chatTimedout[c] THEN currentRoom[c] = choice[c] ELSE currentRoom[c] = NoRoom
    BY <1>1 DEF Known, CalmInv, CalmAbout, Left, Queueing, CountInv, Placed
<1>4. CalmAbout(c)'
    BY <1>1, <1>2, <1>3, ConstantsAssumption DEF CalmAbout, Queueing
<1>5. ExactOccupancy'
  <2>1. CASE chatTimedout[c]
    <3>1. UNCHANGED numeroClients
      BY <2>1 DEF Enqueue
    <3>2. \A r \in Room : Occupants(r)' = Occupants(r)
      BY <1>1, <1>2, <1>3, <2>1 DEF Occupants
    <3> QED BY <3>1, <3>2, ExactFrame DEF Known, CalmInv
  <2>2. CASE ~chatTimedout[c]
    <3>1. numeroClients' = [numeroClients EXCEPT ![choice[c]] = @ + 1]
      BY <2>2 DEF Enqueue
    <3>2. ASSUME NEW r \in Room PROVE numeroClients'[r] = Cardinality(Occupants(r)')
      <4>1. numeroClients[r] = Cardinality(Occupants(r))
        BY DEF Known, CalmInv, ExactOccupancy
      <4>2. CASE r = choice[c]
        <5>1. Occupants(r)' = Occupants(r) \cup {c} /\ c \notin Occupants(r)
          BY <1>1, <1>2, <1>3, <2>2, <4>2, ConstantsAssumption DEF Occupants
        <5>2. Cardinality(Occupants(r)') = Cardinality(Occupants(r)) + 1
          BY <5>1, OccupantsFinite, FS_AddElement
        <5>3. numeroClients'[r] = numeroClients[r] + 1
          BY <1>2, <3>1, <4>2
        <5> QED BY <4>1, <5>2, <5>3
      <4>3. CASE r # choice[c]
        <5>1. Occupants(r)' = Occupants(r)
          BY <1>1, <1>2, <1>3, <2>2, <4>3, ConstantsAssumption DEF Occupants
        <5>2. numeroClients'[r] = numeroClients[r]
          BY <1>2, <3>1, <4>3
        <5> QED BY <4>1, <5>1, <5>2
      <4> QED BY <4>2, <4>3
    <3> QED BY <3>2 DEF ExactOccupancy
  <2> QED BY <2>1, <2>2
<1>6. \A d \in Client : CalmAbout(d)'
    BY <1>1, <1>2, <1>4, CalmAboutOthers DEF Known
<1> QED BY <1>5, <1>6 DEF CalmInv

\* Who leaves is taken out of the count it was in.
LEMMA LeaveCalmInv ==
    ASSUME Known, NEW c \in Client, Leave(c)
    PROVE  CalmInv'
<1>1. /\ pc[c] = "leave" /\ pc' = [pc EXCEPT ![c] = "forget"]
      /\ currentRoom[c] # NoRoom
      /\ numeroClients' = [numeroClients EXCEPT ![currentRoom[c]] = @ - 1]
      /\ UNCHANGED <<currentRoom, choice, chatTimedout, isConnected, chatPC, client1, client2>>
    BY DEF Leave, Moves, matchVars, flagVars
<1>2. /\ pc \in [Client -> HandlerPC] /\ numeroClients \in [Room -> Int]
      /\ currentRoom \in [Client -> Room \cup {NoRoom}]
    BY DEF Known, TypeInv, TypeOK
<1>3. CalmAbout(c)'
  <2>1. CalmAbout(c) /\ \A k \in Chat : Holds(k, c)' = Holds(k, c)
    BY <1>1 DEF Known, CalmInv, Holds, Engaged, ChatPair
  <2> QED BY <1>1, <1>2, <2>1 DEF CalmAbout, Left, Recent, Inside, Queueing, Waiting, Meeting
<1>4. ASSUME NEW r \in Room PROVE numeroClients'[r] = Cardinality(Occupants(r)')
  <2>1. numeroClients[r] = Cardinality(Occupants(r))
    BY DEF Known, CalmInv, ExactOccupancy
  <2>2. CASE r = currentRoom[c]
    <3>1. Occupants(r)' = Occupants(r) \ {c} /\ c \in Occupants(r)
      BY <1>1, <1>2, <2>2 DEF Occupants
    <3>2. Cardinality(Occupants(r)') = Cardinality(Occupants(r)) - 1
      BY <3>1, OccupantsFinite, FS_RemoveElement
    <3>3. numeroClients'[r] = numeroClients[r] - 1
      BY <1>1, <1>2, <2>2
    <3> QED BY <2>1, <3>2, <3>3
  <2>3. CASE r # currentRoom[c]
    <3>1. Occupants(r)' = Occupants(r)
      BY <1>1, <1>2, <2>3 DEF Occupants
    <3>2. numeroClients'[r] = numeroClients[r]
      BY <1>1, <1>2, <2>3
    <3> QED BY <2>1, <3>1, <3>2
  <2> QED BY <2>2, <2>3
<1>5. \A d \in Client : CalmAbout(d)'
    BY <1>1, <1>2, <1>3, CalmAboutOthers DEF Known
<1> QED BY <1>4, <1>5 DEF CalmInv, ExactOccupancy

\* Who forgets its room was not counted in it any more.
LEMMA ForgetCalmInv ==
    ASSUME Known, NEW c \in Client, Forget(c) \/ LeaveNowhere(c)
    PROVE  CalmInv'
<1>1. /\ pc' = [pc EXCEPT ![c] = NextRound(c)]
      /\ pc[c] \in {"leave", "forget"} /\ (pc[c] = "forget" \/ currentRoom[c] = NoRoom)
      /\ currentRoom' = [currentRoom EXCEPT ![c] = NoRoom]
      /\ choice' = [choice EXCEPT ![c] = NoRoom]
      /\ UNCHANGED <<numeroClients, chatTimedout, isConnected, chatPC, client1, client2>>
    BY DEF Forget, LeaveNowhere, Moves, roomVars, flagVars, Known, TypeInv, TypeOK
<1>2. /\ pc \in [Client -> HandlerPC] /\ numeroClients \in [Room -> Int]
      /\ currentRoom \in [Client -> Room \cup {NoRoom}]
      /\ choice \in [Client -> Room \cup {NoRoom}]
    BY DEF Known, TypeInv, TypeOK
<1>3. CalmAbout(c)'
  <2>1. CalmAbout(c) /\ \A k \in Chat : Holds(k, c)' = Holds(k, c)
    BY <1>1 DEF Known, CalmInv, Holds, Engaged, ChatPair
  <2>2. pc'[c] = IF isConnected[c] THEN "menu" ELSE "exit"
    BY <1>1, <1>2 DEF NextRound
  <2>3. ~chatTimedout[c]
    BY <1>1, <2>1 DEF CalmAbout, Recent, Inside, Queueing, Waiting, Meeting
  <2> QED
    BY <1>1, <1>2, <2>1, <2>2, <2>3 DEF CalmAbout, Left, Inside, Queueing, Waiting, Meeting
<1>4. \A r \in Room : Occupants(r)' = Occupants(r)
  <2>1. NextRound(c) # "forget"
    BY DEF NextRound
  <2> QED BY <1>1, <1>2, <2>1, ConstantsAssumption DEF Occupants
<1>5. \A d \in Client : CalmAbout(d)'
    BY <1>1, <1>2, <1>3, CalmAboutOthers DEF Known
<1> QED BY <1>1, <1>4, <1>5, ExactFrame DEF Known, CalmInv

\* A handler keeps the counts exact; when nobody drops the ways of one that finds
\* its client disconnected are closed.
LEMMA HandlerCalmInv ==
    ASSUME NobodyDrops, Known, NEW c \in Client, HandlerStep(c)
    PROVE  CalmInv'
<1> USE DEF roomVars, flagVars, matchVars, otherFlags, HandlerPC, Left, Recent, Inside, Queueing,
            Waiting, Meeting
<1>1. TypeInv
    BY DEF Known
<1>2. /\ ~isConnected[c] => pc[c] \in Left
      /\ chatTimedout[c] => pc[c] \in Recent /\ currentRoom[c] # NoRoom
      /\ pc[c] \in Inside => currentRoom[c] # NoRoom
      /\ pc[c] \in {"admit"} \cup Queueing => choice[c] \in Room
    BY DEF Known, CalmInv, CalmAbout
<1>3. ~stopWaiting[c] /\ pc[c] \notin {"stop_delete", "stop_join"}
      /\ (pc[c] \in Dropping => ~isConnected[c])
    BY DEF Known, PlaceInv, PlaceOf
<1>4. /\ currentRoom[c] \in {NoRoom, choice[c]} /\ choice[c] \in Room \cup {NoRoom}
      /\ pc[c] = "check" => choice[c] \in Room
    BY <1>1 DEF Known, CountInv, Placed, TypeInv, TypeOK
<1>5. ASSUME NEW lost \in SUBSET {c}, AnswersFull(c, lost) \/ AnswersSpace(c, lost) PROVE CalmInv'
  <2>1. lost = {} /\ UNCHANGED isConnected
    BY <1>1, <1>5, DisconnectsNobody DEF AnswersFull, AnswersSpace, Answered, LosesOnly, NobodyDrops
  <2> QED BY <1>2, <1>5, <2>1, MoveCalmInv DEF AnswersFull, AnswersSpace, Answered, Moves
<1>17. CASE FindsFull(c) \/ FindsSpace(c)
    BY <1>2, <1>4, <1>17, MoveCalmInv DEF FindsFull, FindsSpace, FindsRoom, Moves
<1>6. ASSUME NEW lost \in SUBSET {c}, DispatchMatched(c, lost) PROVE CalmInv'
  <2>1. lost = {} /\ UNCHANGED isConnected
    BY <1>1, <1>6, DisconnectsNobody DEF DispatchMatched, LosesOnly, NobodyDrops
  <2> QED BY <1>2, <1>6, <2>1, MoveCalmInv DEF DispatchMatched, Moves
<1>7. ASSUME NEW lost \in SUBSET {c}, AfterChat(c, lost) PROVE CalmInv'
  <2>1. lost = {} /\ UNCHANGED isConnected
    BY <1>1, <1>7, DisconnectsNobody DEF AfterChat, LosesOnly, NobodyDrops
  <2> QED BY <1>2, <1>3, <1>4, <1>7, <2>1, MoveCalmInv DEF AfterChat, Again, Moves
<1>8. CASE Feedback(c)
    BY <1>2, <1>8, MoveCalmInv DEF Feedback, Moves
<1>9. CASE AwaitTest(c) \/ AwaitBlock(c)
    BY <1>2, <1>9, MoveCalmInv DEF AwaitTest, AwaitBlock, TestsAndBlocks, Blocks, Moves
<1>10. CASE AwaitOver(c)
    BY <1>2, <1>10, MoveCalmInv DEF AwaitOver, TestsAndGoesOn, Moves
<1>11. CASE MatchJoin(c)
    BY <1>2, <1>11, MoveCalmInv DEF MatchJoin, Joins, Moves
<1>12. CASE ParkTest(c) \/ ParkBlock(c)
    BY <1>2, <1>12, MoveCalmInv DEF ParkTest, ParkBlock, TestsAndBlocks, Blocks, Moves
<1>13. CASE ParkOver(c)
    BY <1>2, <1>13, MoveCalmInv DEF ParkOver, TestsAndGoesOn, Moves
<1>14. CASE Exit(c)
    BY <1>2, <1>14, MoveCalmInv DEF Exit, Moves
<1>15. CASE \/ NoFeedback(c) \/ DispatchDropped(c) \/ DropDelete(c) \/ DropSignal(c) \/ DropJoin(c)
  <2>1. pc[c] \in {"feedback", "dispatch"} \cup Dropping
    BY <1>15 DEF NoFeedback, DispatchDropped, DropDelete, LeavesQueue, DropSignal, DropJoin, Joins,
                 Moves, Dropping
  <2>2. isConnected[c]
    BY <1>2, <2>1 DEF Dropping
  <2> QED
    BY <1>3, <1>15, <2>1, <2>2
    DEF NoFeedback, DispatchDropped, DropDelete, LeavesQueue, DropSignal, DropJoin, Joins, Moves,
        Dropping, NobodyDrops
<1>16. CASE StopDelete(c) \/ StopJoin(c) \/ \E lost \in SUBSET {c} : DispatchStopped(c, lost)
    BY <1>3, <1>16 DEF StopDelete, LeavesQueue, StopJoin, Joins, Moves, DispatchStopped
<1> QED
    BY <1>5, <1>6, <1>7, <1>8, <1>9, <1>10, <1>11, <1>12, <1>13, <1>14, <1>15, <1>16, <1>17,
       EnqueueCalmInv, LeaveCalmInv, ForgetCalmInv DEF HandlerStep

\* So do the watcher and the user, who is disconnected only by leaving.
LEMMA UserCalmInv ==
    ASSUME NobodyDrops, NobodyStops, Known, NEW c \in Client, WatcherStep(c) \/ UserStep(c)
    PROVE  CalmInv'
<1> USE DEF roomVars, flagVars, matchVars, otherFlags, HandlerPC, Left, Recent, Inside, Queueing,
            Waiting, Meeting
<1>1. /\ pc \in [Client -> HandlerPC] /\ isConnected \in [Client -> BOOLEAN]
      /\ choice \in [Client -> Room \cup {NoRoom}]
    BY DEF Known, TypeInv, TypeOK
<1>2. CalmAbout(c) /\ \A k \in Chat : pc[c] = "menu" => ~Holds(k, c)
    BY DEF Known, CalmInv, PlaceInv, PlaceOf, MeetsIn
<1>3. ASSUME UNCHANGED <<chatPC, client1, client2>>
      PROVE  \A k \in Chat : Holds(k, c)' = Holds(k, c)
    BY <1>3 DEF Holds, Engaged, ChatPair
<1>4. CASE WatchOK(c) \/ WatchTests(c) \/ WatchSignal(c)
  <2>1. UNCHANGED <<pc, isConnected, chatTimedout, currentRoom, choice, chatPC, client1, client2,
                    numeroClients>>
    BY <1>4 DEF WatchOK, WatchTests, WatchSignal
  <2>2. CalmAbout(c)' /\ \A r \in Room : Occupants(r)' = Occupants(r)
    BY <1>2, <1>3, <2>1 DEF CalmAbout, Occupants
  <2>3. \A d \in Client : CalmAbout(d)'
    BY <2>1, <2>2, CalmAboutOthers DEF Known
  <2> QED BY <2>1, <2>2, <2>3, ExactFrame DEF Known, CalmInv
<1>5. CASE WatchStop(c) \/ WatchDrop(c)
    BY <1>5 DEF WatchStop, WatchDrop, NobodyStops, NobodyDrops
<1>6. CASE Quit(c)
  <2>1. /\ pc[c] = "menu" /\ pc' = [pc EXCEPT ![c] = "leave"]
        /\ isConnected' = Disconnect({c})
        /\ UNCHANGED <<chatTimedout, currentRoom, choice, chatPC, client1, client2, numeroClients>>
    BY <1>6 DEF Quit, Moves
  <2>2. CalmAbout(c)'
    BY <1>1, <1>2, <1>3, <2>1 DEF CalmAbout
  <2>3. \A r \in Room : Occupants(r)' = Occupants(r)
    BY <1>1, <2>1 DEF Occupants
  <2>4. \A d \in Client \ {c} : isConnected'[d] = isConnected[d]
    BY <1>1, <2>1 DEF Disconnect
  <2>5. \A d \in Client : CalmAbout(d)'
    BY <1>1, <2>1, <2>2, <2>4, CalmAboutOthers DEF Known
  <2> QED BY <2>1, <2>3, <2>5, ExactFrame DEF Known, CalmInv
<1>7. CASE Vanish(c)
    BY <1>2, <1>7 DEF Vanish, Moves, CalmAbout, NobodyDrops
<1>8. ASSUME NEW r \in Room, ChooseRoom(c, r) PROVE CalmInv'
  <2>1. /\ pc[c] = "menu" /\ pc' = [pc EXCEPT ![c] = "check"] /\ isConnected[c]
        /\ choice' = [choice EXCEPT ![c] = r]
        /\ UNCHANGED <<isConnected, chatTimedout, currentRoom, chatPC, client1, client2,
                       numeroClients>>
    BY <1>8 DEF ChooseRoom, Moves
  <2>2. CalmAbout(c)'
    BY <1>1, <1>2, <2>1 DEF CalmAbout
  <2>3. \A x \in Room : Occupants(x)' = Occupants(x)
    BY <1>1, <2>1 DEF Occupants
  <2>4. \A d \in Client : CalmAbout(d)'
    BY <1>1, <2>1, <2>2, CalmAboutOthers DEF Known
  <2> QED BY <2>1, <2>3, <2>4, ExactFrame DEF Known, CalmInv
<1> QED BY <1>4, <1>5, <1>6, <1>7, <1>8 DEF WatcherStep, UserStep

\* A matcher drops nobody: who stands in a queue is connected.
LEMMA RoomCalmInv ==
    ASSUME NobodyDrops, Known, NEW r \in Room, RoomStep(r)
    PROVE  CalmInv'
<1> USE DEF roomVars, flagVars, matchVars, threadVars
<1>1. TypeInv /\ PlaceInv /\ \A c \in Client : CalmAbout(c)
    BY DEF Known, CalmInv
<1>2. CASE RoomSleep(r) \/ RoomFindsNobody(r)
  <2>1. UNCHANGED <<pc, isConnected, chatTimedout, currentRoom, choice, chatPC, client1, client2,
                    numeroClients>>
    BY <1>2 DEF RoomSleep, RoomFindsNobody
  <2> QED
    BY <1>1, <2>1, ExactFrame DEF Known, CalmInv, CalmAbout, Occupants, Holds, Engaged, ChatPair
<1>3. CASE RoomDropsBoth(r) \/ RoomDropsOne(r)
  <2>1. PICK those \in SUBSET ToSet(coda[r]) : those # {} /\ \A c \in those : ~isConnected[c]
    BY <1>1, <1>3, RoomDropEffect
  <2>2. PICK c \in those : TRUE
    BY <2>1
  <2>3. coda[r] \in Seq(Client)
    BY <1>1 DEF TypeInv, TypeOK
  <2>4. c \in Client /\ c \in ToSet(coda[r]) /\ ~isConnected[c]
    BY <2>1, <2>2, <2>3, ToSetPositions
  <2>5. pc[c] \in Waiting \cup {"dispatch", "drop_delete"}
    BY <1>1, <2>4 DEF PlaceInv, PlaceOf, WaitsIn
  <2> QED BY <1>1, <2>4, <2>5 DEF CalmAbout, Left, Waiting
<1>4. ASSUME NEW k \in Chat, NEW lost \in SUBSET MayDrop, RoomStartsChat(r, k, lost)
      PROVE  CalmInv'
  <2>1. PICK c1, c2 \in Client :
          /\ isConnected[c1] /\ isConnected[c2]
          /\ client1'[k] = c1 /\ client2'[k] = c2
          /\ \A l \in Chat \ {k} :
               chatPC'[l] = chatPC[l] /\ client1'[l] = client1[l] /\ client2'[l] = client2[l]
    BY <1>1, <1>4, StartEffect
  <2>2. UNCHANGED <<pc, isConnected, chatTimedout, currentRoom, choice, numeroClients>>
    BY <1>1, <1>4, DisconnectsNobody DEF RoomStartsChat, NobodyDrops
  <2>3. ASSUME NEW c \in Client PROVE CalmAbout(c)'
    <3>1. \A l \in Chat : Holds(l, c)' => Holds(l, c) \/ c \in {c1, c2}
      BY <2>1 DEF Holds, Engaged, ChatPair
    <3> QED BY <1>1, <2>1, <2>2, <3>1 DEF CalmAbout
  <2> QED BY <2>2, <2>3, ExactFrame DEF Known, CalmInv, Occupants
<1> QED BY <1>2, <1>3, <1>4 DEF RoomStep

\* A chat marks those it has for the chat timer, and they are inside a room.
LEMMA ChatCalmInv ==
    ASSUME NobodyDrops, Known, NEW k \in Chat, ChatStep(k) \/ ChatTalk(k)
    PROVE  CalmInv'
<1> USE DEF roomVars, flagVars, matchVars, threadVars
<1>1. TypeInv /\ PlaceInv /\ \A c \in Client : CalmAbout(c)
    BY DEF Known, CalmInv
<1>2. chatPC \in [Chat -> ChatPC] /\ chatTimedout \in [Client -> BOOLEAN]
    BY <1>1 DEF TypeInv, TypeOK
<1>3. UNCHANGED <<pc, isConnected, currentRoom, choice, numeroClients>>
  <2>1. CASE \/ ChatLock1(k) \/ ChatCancelled(k) \/ ChatMarks(k) \/ ChatConfirms1(k)
             \/ ChatConfirms2(k) \/ ChatCloses1(k) \/ ChatCloses2(k) \/ ChatWakes2(k) \/ ChatWakes1(k)
    BY <2>1 DEF ChatLock1, ChatCancelled, ChatMarks, ChatConfirms1, ChatConfirms2,
                ChatCloses1, ChatCloses2, Unmarks, ChatWakes2, ChatWakes1
  <2>2. ASSUME NEW lost \in SUBSET MayDrop,
               ChatGreets(k, lost) \/ ChatEnds(k, lost) \/ ChatTimesOut(k, lost)
        PROVE  UNCHANGED <<pc, isConnected, currentRoom, choice, numeroClients>>
    BY <1>1, <2>2, DisconnectsNobody DEF ChatGreets, ChatEnds, ChatTimesOut, NobodyDrops
  <2> QED BY <2>1, <2>2 DEF ChatStep, ChatTalk
<1>4. ASSUME NEW c \in Client, NEW l \in Chat, Holds(l, c)' PROVE Holds(l, c)
  <2>1. CASE ChatCancelled(k) \/ ChatWakes1(k)
    <3>1. /\ chatPC' = [chatPC EXCEPT ![k] = "free"]
          /\ client1' = [client1 EXCEPT ![k] = NoThread]
          /\ client2' = [client2 EXCEPT ![k] = NoThread]
      BY <2>1 DEF ChatCancelled, ChatWakes1, ChatExits, ChatMoves
    <3>2. client1 \in [Chat -> Client \cup {NoThread}] /\ client2 \in [Chat -> Client \cup {NoThread}]
      BY <1>1 DEF TypeInv, TypeOK
    <3> QED BY <1>2, <1>4, <3>1, <3>2 DEF Holds, Engaged, ChatPair
  <2>2. ASSUME NEW from, NEW to, ChatMoves(k, from, to), from \notin {"free", "close2", "wake2", "wake1"},
               UNCHANGED <<client1, client2>>
        PROVE  Holds(l, c)
    BY <1>2, <1>4, <2>2 DEF ChatMoves, Holds, Engaged, ChatPair
  <2>3. CASE ChatLock1(k) \/ ChatMarks(k) \/ ChatConfirms1(k) \/ ChatConfirms2(k) \/ ChatCloses1(k)
    BY <2>2, <2>3 DEF ChatLock1, ChatMarks, ChatConfirms1, ChatConfirms2, ChatCloses1, Unmarks
  <2>4. CASE ChatCloses2(k) \/ ChatWakes2(k)
    BY <1>2, <1>4, <2>4 DEF ChatCloses2, Unmarks, ChatWakes2, ChatMoves, Holds, Engaged, ChatPair
  <2>5. ASSUME NEW lost, ChatGreets(k, lost) \/ ChatEnds(k, lost) \/ ChatTimesOut(k, lost)
        PROVE  Holds(l, c)
    BY <2>2, <2>5 DEF ChatGreets, ChatEnds, ChatTimesOut
  <2> QED BY <2>1, <2>3, <2>4, <2>5 DEF ChatStep, ChatTalk
<1>5. ASSUME NEW c \in Client, chatTimedout'[c]
      PROVE  pc[c] \in Recent /\ currentRoom[c] # NoRoom
  <2>1. CASE chatTimedout[c]
    BY <1>1, <2>1 DEF CalmAbout
  <2>2. CASE ~chatTimedout[c]
    <3>1. \E lost \in SUBSET MayDrop : ChatTimesOut(k, lost)
      BY <1>5, <2>2 DEF ChatStep, ChatTalk, ChatLock1, ChatCancelled, ChatMarks, ChatConfirms1,
                        ChatConfirms2, ChatGreets, ChatCloses1, ChatCloses2, Unmarks, ChatWakes2,
                        ChatWakes1, ChatEnds
    <3>2. Holds(k, c)
      BY <1>5, <2>2, <3>1 DEF ChatTimesOut, ChatMoves, Holds, Engaged, ChatPair
    <3>3. pc[c] \in Inside
      BY <1>1, <3>2 DEF CalmAbout, PlaceInv, PlaceOf, MeetsIn, Inside
    <3> QED BY <1>1, <3>3 DEF CalmAbout, Recent
  <2> QED BY <2>1, <2>2
<1>6. \A c \in Client : CalmAbout(c)'
    BY <1>1, <1>3, <1>4, <1>5 DEF CalmAbout
<1> QED BY <1>3, <1>6, ExactFrame DEF Known, CalmInv, Occupants

\* At the start nobody is counted.
LEMMA InitCalmInv == Init => CalmInv
<1> SUFFICES ASSUME Init PROVE CalmInv
    OBVIOUS
<1>1. ASSUME NEW r \in Room PROVE numeroClients[r] = Cardinality(Occupants(r))
  <2>1. Occupants(r) = {}
    BY ConstantsAssumption DEF Init, Occupants
  <2>2. Cardinality({}) = 0
    BY FS_EmptySet
  <2> QED BY <2>1, <2>2 DEF Init
<1> QED
    BY <1>1 DEF Init, CalmInv, CalmAbout, ExactOccupancy, Inside, Waiting, Meeting, Queueing

\* No handler comes to delete its client.
LEMMA NobodyDeletes == ASSUME Known PROVE DeletesItself
<1> SUFFICES ASSUME NEW c \in Client, pc[c] = "drop_delete" PROVE FALSE
    BY DEF DeletesItself
<1>1. ~isConnected[c]
    BY DEF Known, PlaceInv, PlaceOf, Dropping
<1> QED BY <1>1 DEF Known, CalmInv, CalmAbout, Left

\* As long as nobody is disconnected by the network and nobody types STOP, the count
\* of a room is the number of clients inside it, through any number of chats that
\* end by themselves or by the chat timer, and whoever leaves, whatever the clients
\* are called.
THEOREM CountingExactly ==
    ASSUME NobodyDrops, NobodyStops
    PROVE  Spec => []ExactOccupancy
<1>1. Known /\ [Next]_vars => CalmInv'
  <2> SUFFICES ASSUME Known, [Next]_vars PROVE CalmInv'
    OBVIOUS
  <2>1. CASE Next
    BY <2>1, RoomCalmInv, HandlerCalmInv, UserCalmInv, ChatCalmInv DEF Next
  <2>2. CASE UNCHANGED vars
    BY <2>2 DEF vars, roomVars, flagVars, matchVars, threadVars, Known, CalmInv, CalmAbout,
                ExactOccupancy, Occupants, Holds, Engaged, ChatPair
  <2> QED BY <2>1, <2>2
<1>2. Known /\ [Next]_vars => TypeInv' /\ PlaceInv' /\ CountInv'
    BY NobodyDeletes, NextTypeInv, NextPlaceInv, NextCountInv DEF Known
<1>3. Init => TypeInv /\ PlaceInv /\ CountInv /\ CalmInv
    BY InitTypeInv, InitPlaceInv, InitCountInv, InitCalmInv
<1>4. CalmInv => ExactOccupancy
    BY DEF CalmInv
<1>5. Known <=> TypeInv /\ PlaceInv /\ CountInv /\ CalmInv
    BY DEF Known
<1> QED BY <1>1, <1>2, <1>3, <1>4, <1>5, PTL DEF Spec

\* Under the same hypotheses a room holds no more clients than it has places for as
\* long as no two handlers at a time have found space and have yet to count their
\* clients.  With clients that drop it does not follow: a client that a matcher and
\* its handler both count out leaves the count too low, and the room lets in more.
NeverOverfull == \A r \in Room : Cardinality(Occupants(r)) <= MaxClients

THEOREM Overbooking ==
    ASSUME NobodyDrops, NobodyStops
    PROVE  Spec => ([]OneAtATime => []NeverOverfull)
<1>1. ExactOccupancy /\ CountInBounds => NeverOverfull
    BY DEF ExactOccupancy, CountInBounds, NeverOverfull
<1> QED BY <1>1, CountingExactly, CountsInBounds, PTL

-----------------------------------------------------------------------------
(***************************************************************************)
(* What the server remembers of a client's last assignment, as long as     *)
(* nobody types STOP: the two fields that the search reads, one written by *)
(* the room and one by the chat, tell the same assignment whenever the     *)
(* search can look at them, and so the search refuses to repeat one.       *)
(***************************************************************************)
histVars == <<vars, lastMatch>>

\* The two fields hold the room of the last assignment and, unless its chat is
\* still to mark the pair, the address of the counterpart; the counterpart has
\* been assigned as well, to the same client or, since then, to another.
RoomKnown(c) == matchedRoom[c] = lastMatch[c][1]
AddressKnown(c) == \/ matchedAddress[c] = AddressOf[lastMatch[c][2]]
                   \/ \E k \in Chat : Holds(k, c) /\ Unmarked(k)

Remembers(c) ==
    IF lastMatch[c] = <<>> THEN matchedRoom[c] = NoRoom
    ELSE /\ lastMatch[lastMatch[c][2]] # <<>>
         /\ RoomKnown(c) /\ AddressKnown(c)

\* The two clients of a chat were assigned to each other last.
ChatRemembers(k) ==
    HasPair(k) => /\ lastMatch[client1[k]] # <<>> /\ lastMatch[client1[k]][2] = client2[k]
                  /\ lastMatch[client2[k]] # <<>> /\ lastMatch[client2[k]][2] = client1[k]

HistInv ==
    /\ lastMatch \in [Client -> (Room \X Client) \cup {<<>>}]
    /\ \A c \in Client : Remembers(c)
    /\ \A k \in Chat : ChatRemembers(k)

-----------------------------------------------------------------------------
\* At the start nobody has been assigned.
LEMMA InitHistInv == HistoryInit => HistInv
<1> SUFFICES ASSUME HistoryInit PROVE HistInv
    OBVIOUS
<1> QED BY DEF HistoryInit, Init, HistInv, Remembers, ChatRemembers, HasPair

\* A step that starts no chat records nothing.
LEMMA RecordsNothing ==
    ASSUME HistInv, Record, \A k \in Chat : ~Starts(k)
    PROVE  UNCHANGED lastMatch
<1>1. lastMatch' = [c \in Client |-> lastMatch[c]]
    BY DEF Record
<1> QED BY <1>1 DEF HistInv

\* What a step does not touch is remembered: it records nothing and leaves the
\* fields, and no unmarked chat becomes another.
LEMMA HistFrame ==
    ASSUME HistInv, UNCHANGED <<lastMatch, matchedRoom, matchedAddress>>,
           \A k \in Chat : HasPair(k)' => HasPair(k),
           \A k \in Chat : Unmarked(k) => Unmarked(k)',
           \A k \in Chat : HasPair(k) /\ HasPair(k)' => client1'[k] = client1[k] /\ client2'[k] = client2[k]
    PROVE  HistInv'
<1>1. ASSUME NEW c \in Client PROVE Remembers(c)'
  <2>1. Remembers(c)
    BY DEF HistInv
  <2>2. AddressKnown(c) => AddressKnown(c)'
    <3>1. \A k \in Chat : Holds(k, c) /\ Unmarked(k) => Holds(k, c)' /\ Unmarked(k)'
      BY DEF Holds, Engaged, HasPair, Unmarked, ChatPair
    <3> QED BY <3>1 DEF AddressKnown
  <2> QED BY <2>1, <2>2 DEF Remembers, RoomKnown
<1>2. ASSUME NEW k \in Chat PROVE ChatRemembers(k)'
  <2>1. ChatRemembers(k)
    BY DEF HistInv
  <2> QED BY <2>1 DEF ChatRemembers
<1> QED BY <1>1, <1>2 DEF HistInv

\* The chat that marks its pair keeps for each the address of the other.
LEMMA MarkHistInv ==
    ASSUME TypeInv, PlaceInv, HistInv, UNCHANGED lastMatch, NEW k \in Chat, ChatMarks(k)
    PROVE  HistInv'
<1>1. /\ chatPC[k] = "lock2" /\ chatPC' = [chatPC EXCEPT ![k] = "confirm1"]
      /\ matchedAddress' = [matchedAddress EXCEPT ![client1[k]] = AddressOf[client2[k]],
                                                  ![client2[k]] = AddressOf[client1[k]]]
      /\ client1[k] # client2[k]
      /\ UNCHANGED <<matchedRoom, client1, client2>>
    BY DEF ChatMarks, ChatMoves
<1>2. /\ chatPC \in [Chat -> ChatPC] /\ matchedAddress \in [Client -> Address]
      /\ client1[k] \in Client /\ client2[k] \in Client
    BY <1>1 DEF TypeInv, TypeOK, Seated
<1>3. /\ \A l \in Chat : HasPair(l)' <=> HasPair(l)
      /\ \A l \in Chat \ {k} : Unmarked(l)' = Unmarked(l)
      /\ HasPair(k)
    BY <1>1, <1>2 DEF HasPair, Unmarked
<1>4. ASSUME NEW l \in Chat PROVE ChatRemembers(l)'
  <2>1. ChatRemembers(l)
    BY DEF HistInv
  <2> QED BY <1>1, <1>3, <2>1 DEF ChatRemembers
<1>5. ASSUME NEW c \in Client PROVE Remembers(c)'
  <2>1. Remembers(c)
    BY DEF HistInv
  <2>2. CASE c \in {client1[k], client2[k]}
    <3>1. ChatRemembers(k)
      BY DEF HistInv
    <3>2. matchedAddress'[c] = AddressOf[lastMatch[c][2]]
      BY <1>1, <1>2, <1>3, <2>2, <3>1 DEF ChatRemembers
    <3> QED BY <1>1, <2>1, <3>2 DEF Remembers, RoomKnown, AddressKnown
  <2>3. CASE c \notin {client1[k], client2[k]}
    <3>1. matchedAddress'[c] = matchedAddress[c]
      BY <1>1, <1>2, <2>3
    <3>2. \A l \in Chat : Holds(l, c) /\ Unmarked(l) => Holds(l, c)' /\ Unmarked(l)'
      BY <1>1, <1>3, <2>3 DEF Holds, Engaged, Unmarked, ChatPair
    <3> QED BY <1>1, <2>1, <3>1, <3>2 DEF Remembers, RoomKnown, AddressKnown
  <2> QED BY <2>2, <2>3
<1> QED BY <1>4, <1>5 DEF HistInv

\* The assignment is recorded for both clients; the room writes its part at once.
LEMMA StartHistInv ==
    ASSUME TypeInv, PlaceInv, HistInv, Record, NEW r \in Room, NEW k \in Chat,
           NEW lost \in SUBSET MayDrop, RoomStartsChat(r, k, lost)
    PROVE  HistInv'
<1>1. PICK c1, c2 \in Client :
          /\ c1 # c2 /\ {c1, c2} \subseteq ToSet(coda[r])
          /\ chatPC'[k] = "lock1" /\ client1'[k] = c1 /\ client2'[k] = c2
          /\ \A l \in Chat \ {k} :
               chatPC'[l] = chatPC[l] /\ client1'[l] = client1[l] /\ client2'[l] = client2[l]
          /\ matchedRoom' = [matchedRoom EXCEPT ![c1] = r, ![c2] = r]
    BY StartEffect
<1>2. chatPC[k] = "free" /\ UNCHANGED matchedAddress
    BY DEF RoomStartsChat
<1>3. matchedRoom \in [Client -> Room \cup {NoRoom}]
    BY DEF TypeInv, TypeOK
<1>4. \A l \in Chat : Starts(l) <=> l = k
    BY <1>1, <1>2 DEF Starts
<1>5. lastMatch' = [c \in Client |-> IF c = c1 THEN <<r, c2>>
                                     ELSE IF c = c2 THEN <<r, c1>> ELSE lastMatch[c]]
  <2>1. (CHOOSE l \in Chat : Starts(l)) = k
    BY <1>4
  <2>2. ASSUME NEW c \in Client
        PROVE  (\E l \in Chat : Starts(l) /\ c \in {client1'[l], client2'[l]}) <=> c \in {c1, c2}
    BY <1>1, <1>4
  <2>3. matchedRoom'[c1] = r /\ matchedRoom'[c2] = r
    BY <1>1, <1>3
  <2>4. ASSUME NEW c \in Client
        PROVE  lastMatch'[c] = IF c = c1 THEN <<r, c2>> ELSE IF c = c2 THEN <<r, c1>> ELSE lastMatch[c]
    <3>1. CASE c \notin {c1, c2}
      BY <2>2, <3>1 DEF Record
    <3>2. CASE c = c1
      <4>1. lastMatch'[c] = <<matchedRoom'[c], client2'[k]>>
        BY <1>1, <2>1, <2>2, <3>2 DEF Record
      <4> QED BY <1>1, <2>3, <3>2, <4>1
    <3>3. CASE c = c2
      <4>1. lastMatch'[c] = <<matchedRoom'[c], client1'[k]>>
        BY <1>1, <2>1, <2>2, <3>3 DEF Record
      <4> QED BY <1>1, <2>3, <3>3, <4>1
    <3> QED BY <3>1, <3>2, <3>3
  <2>5. lastMatch' = [c \in Client |-> lastMatch'[c]]
    BY DEF Record
  <2> HIDE DEF Record
  <2> QED BY <2>4, <2>5
<1>6. /\ \A l \in Chat : HasPair(l)' <=> HasPair(l) \/ l = k
      /\ Unmarked(k)' /\ \A l \in Chat \ {k} : Unmarked(l)' = Unmarked(l)
      /\ ~HasPair(k)
    BY <1>1, <1>2 DEF HasPair, Unmarked
<1>7. \A l \in Chat : HasPair(l) => {client1[l], client2[l]} \cap {c1, c2} = {}
    BY <1>1 DEF PlaceInv, PlaceOf, WaitsIn, Holds, Engaged, HasPair, ChatPair
<1>8. \A l \in Chat : HasPair(l) => client1[l] \in Client /\ client2[l] \in Client
    BY DEF TypeInv, Seated, HasPair
<1>9. ASSUME NEW l \in Chat, HasPair(l)' PROVE ChatRemembers(l)'
  <2>1. CASE l = k
    BY <1>1, <1>5, <2>1 DEF ChatRemembers
  <2>2. CASE l # k
    <3>1. HasPair(l) /\ ChatRemembers(l)
      BY <1>6, <1>9, <2>2 DEF HistInv
    <3>2. /\ lastMatch'[client1[l]] = lastMatch[client1[l]]
          /\ lastMatch'[client2[l]] = lastMatch[client2[l]]
      BY <1>5, <1>7, <1>8, <3>1
    <3> QED BY <1>1, <2>2, <3>1, <3>2 DEF ChatRemembers
  <2> QED BY <2>1, <2>2
<1>10. \A c \in Client : lastMatch[c] # <<>> => lastMatch'[c] # <<>>
    BY <1>5
<1>11. ASSUME NEW c \in Client PROVE Remembers(c)'
  <2>1. Remembers(c)
    BY DEF HistInv
  <2>2. CASE c \in {c1, c2}
    <3>1. lastMatch'[c] = IF c = c1 THEN <<r, c2>> ELSE <<r, c1>>
      BY <1>5, <2>2
    <3>2. lastMatch'[c] # <<>> /\ lastMatch'[lastMatch'[c][2]] # <<>>
      BY <1>5, <2>2, <3>1
    <3>3. matchedRoom'[c] = lastMatch'[c][1]
      BY <1>1, <1>3, <2>2, <3>1
    <3>4. Holds(k, c)'
      BY <1>1, <1>6, <2>2 DEF Holds, Engaged, Unmarked, ChatPair
    <3>5. AddressKnown(c)'
      BY <1>6, <3>4 DEF AddressKnown
    <3>6. RoomKnown(c)'
      BY <3>3 DEF RoomKnown
    <3> QED BY <3>2, <3>5, <3>6 DEF Remembers
  <2>3. CASE c \notin {c1, c2}
    <3>1. lastMatch'[c] = lastMatch[c] /\ matchedRoom'[c] = matchedRoom[c]
      BY <1>1, <1>3, <1>5, <2>3
    <3>2. ASSUME NEW l \in Chat, Holds(l, c), Unmarked(l) PROVE Holds(l, c)' /\ Unmarked(l)'
      <4>1. l # k
        BY <1>2, <3>2 DEF Unmarked
      <4> QED BY <1>1, <3>2, <4>1 DEF Holds, Engaged, Unmarked, ChatPair
    <3>3. lastMatch[c] # <<>> => lastMatch[c][2] \in Client
      BY DEF HistInv
    <3> QED BY <1>2, <1>10, <2>1, <3>1, <3>2, <3>3 DEF Remembers, RoomKnown, AddressKnown
  <2> QED BY <2>2, <2>3
<1>12. lastMatch' \in [Client -> (Room \X Client) \cup {<<>>}]
    BY <1>5 DEF HistInv
<1> QED BY <1>9, <1>11, <1>12 DEF HistInv, ChatRemembers

-----------------------------------------------------------------------------
\* A step that marks no pair and starts no chat.
LEMMA QuietHistInv ==
    ASSUME HistInv, Record,
           UNCHANGED <<matchedRoom, matchedAddress>>,
           \A k \in Chat : /\ HasPair(k)' => HasPair(k) /\ client1'[k] = client1[k]
                                                       /\ client2'[k] = client2[k]
                           /\ Unmarked(k) => Unmarked(k)'
    PROVE  HistInv'
<1>1. \A k \in Chat : ~Starts(k)
    BY DEF Starts, HasPair
<1> QED BY <1>1, RecordsNothing, HistFrame

\* Every step keeps the memory.
LEMMA NextHistInv ==
    TypeInv /\ PlaceInv /\ HistInv /\ [HistoryNext]_histVars => HistInv'
<1> SUFFICES ASSUME TypeInv, PlaceInv, HistInv, [HistoryNext]_histVars PROVE HistInv'
    OBVIOUS
<1> USE DEF roomVars, flagVars, matchVars, threadVars
<1>1. chatPC \in [Chat -> ChatPC]
    BY DEF TypeInv, TypeOK
<1>2. ASSUME Record, UNCHANGED <<matchedRoom, matchedAddress, chatPC, client1, client2>>
      PROVE  HistInv'
    BY <1>2, QuietHistInv DEF HasPair, Unmarked
<1>3. ASSUME Record, NEW c \in Client, HandlerStep(c) \/ WatcherStep(c) \/ UserStep(c) PROVE HistInv'
  <2>1. CASE HandlerStep(c)
    BY <1>2, <1>3, <2>1
    DEF HandlerStep, FindsFull, FindsSpace, FindsRoom, AnswersFull, AnswersSpace, Answered,
        DispatchStopped, DispatchMatched, AfterChat, Feedback, NoFeedback, Enqueue, AwaitTest, AwaitBlock, AwaitOver, TestsAndBlocks, Blocks,
        TestsAndGoesOn, DispatchDropped, DropDelete, LeavesQueue, DropSignal, DropJoin, StopDelete,
        StopJoin, MatchJoin, ParkTest, ParkBlock, ParkOver, Leave, LeaveNowhere, Forget, Exit
  <2>2. CASE WatcherStep(c) \/ UserStep(c)
    BY <1>2, <1>3, <2>2
    DEF WatcherStep, UserStep, ChooseRoom, Quit, Vanish, WatchOK, WatchStop, WatchDrop, WatchTests,
        WatchSignal
  <2> QED BY <1>3, <2>1, <2>2
<1>4. ASSUME Record, NEW r \in Room, RoomStep(r) PROVE HistInv'
    BY <1>2, <1>4, StartHistInv
    DEF RoomStep, RoomSleep, RoomFindsNobody, RoomDropsBoth, RoomDropsOne
<1>5. ASSUME Record, NEW k \in Chat, ChatStep(k) \/ ChatTalk(k) PROVE HistInv'
  <2>1. ASSUME NEW from, NEW to, ChatMoves(k, from, to), to \notin {"lock1", "free"},
               from \notin {"free", "lock2"}, from = "lock1" => to = "lock2",
               from \in {"close2", "wake2", "wake1"} => to \in {"wake2", "wake1"},
               UNCHANGED <<matchedRoom, matchedAddress, client1, client2>>
        PROVE  HistInv'
    <3>1. \A l \in Chat : /\ HasPair(l)' => HasPair(l) /\ client1'[l] = client1[l]
                                                     /\ client2'[l] = client2[l]
                          /\ Unmarked(l) => Unmarked(l)'
      BY <1>1, <2>1 DEF ChatMoves, HasPair, Unmarked
    <3> QED BY <1>5, <2>1, <3>1, QuietHistInv
  <2>2. CASE \/ ChatLock1(k) \/ ChatConfirms1(k) \/ ChatConfirms2(k)
             \/ ChatCloses1(k) \/ ChatCloses2(k) \/ ChatWakes2(k)
    BY <2>1, <2>2
    DEF ChatLock1, ChatConfirms1, ChatConfirms2, ChatCloses1, ChatCloses2, Unmarks, ChatWakes2
  <2>3. ASSUME NEW lost, ChatGreets(k, lost) \/ ChatEnds(k, lost) \/ ChatTimesOut(k, lost)
        PROVE  HistInv'
    BY <2>1, <2>3 DEF ChatGreets, ChatEnds, ChatTimesOut
  <2>4. CASE ChatMarks(k)
    <3>1. \A l \in Chat : ~Starts(l)
      BY <1>1, <2>4 DEF ChatMarks, ChatMoves, Starts
    <3> QED BY <1>5, <2>4, <3>1, RecordsNothing, MarkHistInv
  <2>5. CASE ChatCancelled(k)
    BY <2>5, PartnersKnown DEF ChatCancelled, ChatExits, ChatMoves, Partners, HasPair
  <2>6. CASE ChatWakes1(k)
    <3>1. \A l \in Chat : /\ HasPair(l)' => HasPair(l) /\ client1'[l] = client1[l]
                                                     /\ client2'[l] = client2[l]
                          /\ Unmarked(l) => Unmarked(l)'
      BY <1>1, <2>6 DEF ChatWakes1, ChatExits, ChatMoves, HasPair, Unmarked
    <3> QED BY <1>5, <2>6, <3>1, QuietHistInv DEF ChatWakes1
  <2> QED BY <1>5, <2>2, <2>3, <2>4, <2>5, <2>6 DEF ChatStep, ChatTalk
<1>6. CASE UNCHANGED histVars
    BY <1>6, HistFrame DEF histVars, vars, HasPair, Unmarked
<1> QED BY <1>3, <1>4, <1>5, <1>6 DEF HistoryNext, Next

\* A client that stands in a queue is in no chat that is still to mark it.
LEMMA HistInvKnown == TypeInv /\ PlaceInv /\ HistInv => LastAssignmentKnown
<1> SUFFICES ASSUME TypeInv, PlaceInv, HistInv, NEW r \in Room, NEW c \in ToSet(coda[r])
             PROVE  IF lastMatch[c] = <<>> THEN matchedRoom[c] = NoRoom
                    ELSE /\ matchedRoom[c] = lastMatch[c][1]
                         /\ matchedAddress[c] = AddressOf[lastMatch[c][2]]
    BY DEF LastAssignmentKnown
<1>1. coda[r] \in Seq(Client)
    BY DEF TypeInv, TypeOK
<1>2. c \in Client
    BY <1>1, ToSetPositions
<1>3. Remembers(c) /\ \A k \in Chat : ~Holds(k, c)
    BY <1>2 DEF HistInv, PlaceInv, PlaceOf, WaitsIn
<1> QED BY <1>3 DEF Remembers, RoomKnown, AddressKnown

\* The invariant of the server with its memory.
LEMMA HistoryInvariant ==
    ASSUME NobodyStops
    PROVE  HistorySpec => ([]DeletesItself => [](TypeInv /\ PlaceInv /\ HistInv))
<1>1. TypeInv /\ PlaceInv /\ DeletesItself /\ [HistoryNext]_histVars => TypeInv' /\ PlaceInv'
  <2>1. [HistoryNext]_histVars => [Next]_vars
    BY DEF HistoryNext, histVars
  <2> QED BY <2>1, NextPlaceInv, NextTypeInv
<1>2. TypeInv /\ PlaceInv /\ HistInv /\ [HistoryNext]_histVars => HistInv'
    BY NextHistInv
<1>3. HistoryInit => TypeInv /\ PlaceInv /\ HistInv
    BY InitTypeInv, InitPlaceInv, InitHistInv DEF HistoryInit
<1> QED BY <1>1, <1>2, <1>3, PTL DEF HistorySpec, histVars

\* While nobody types STOP and no deletion by nickname would hit a namesake, the two
\* fields that the search reads of a client in a queue tell one assignment, its last
\* one; the address, which initClient leaves undefined, is not looked at before it has
\* been written.
THEOREM Remembering ==
    ASSUME NobodyStops
    PROVE  HistorySpec => ([]DeletesItself => []LastAssignmentKnown)
  BY HistoryInvariant, HistInvKnown, PTL

-----------------------------------------------------------------------------
(***************************************************************************)
(* Assignments.                                                            *)
(***************************************************************************)

\* Only a matcher starts a chat.
LEMMA OnlyRoomStarts ==
    ASSUME TypeInv, Next, NEW k \in Chat, Starts(k)
    PROVE  \E r \in Room, lost \in SUBSET MayDrop : RoomStartsChat(r, k, lost)
<1> USE DEF roomVars, flagVars, matchVars, threadVars
<1>1. chatPC \in [Chat -> ChatPC] /\ chatPC[k] = "free" /\ chatPC'[k] = "lock1"
    BY DEF TypeInv, TypeOK, Starts
<1>2. ASSUME NEW c \in Client, HandlerStep(c) \/ WatcherStep(c) \/ UserStep(c) PROVE FALSE
  <2>1. UNCHANGED chatPC
    <3>1. CASE HandlerStep(c)
      BY <3>1
      DEF HandlerStep, FindsFull, FindsSpace, FindsRoom, AnswersFull, AnswersSpace, Answered,
          DispatchStopped, DispatchMatched, AfterChat, Feedback, NoFeedback, Enqueue, AwaitTest, AwaitBlock, AwaitOver, TestsAndBlocks, Blocks,
          TestsAndGoesOn, DispatchDropped, DropDelete, LeavesQueue, DropSignal, DropJoin, StopDelete,
          StopJoin, MatchJoin, ParkTest, ParkBlock, ParkOver, Leave, LeaveNowhere, Forget, Exit
    <3>2. CASE WatcherStep(c) \/ UserStep(c)
      BY <3>2 DEF WatcherStep, UserStep, ChooseRoom, Quit, Vanish, WatchOK, WatchStop, WatchDrop,
                  WatchTests, WatchSignal
    <3> QED BY <1>2, <3>1, <3>2
  <2> QED BY <1>1, <2>1
<1>3. ASSUME NEW l \in Chat, ChatStep(l) \/ ChatTalk(l) PROVE FALSE
  <2>1. \E from, to : to # "lock1" /\ ChatMoves(l, from, to)
    <3>1. CASE ChatStep(l)
      BY <3>1 DEF ChatStep, ChatLock1, ChatMarks, ChatConfirms1, ChatConfirms2, ChatGreets,
                  ChatCloses1, ChatCloses2, Unmarks, ChatWakes2, ChatWakes1, ChatCancelled, ChatExits
    <3>2. CASE ChatTalk(l)
      BY <3>2 DEF ChatTalk, ChatEnds, ChatTimesOut
    <3> QED BY <1>3, <3>1, <3>2
  <2> QED BY <1>1, <2>1 DEF ChatMoves
<1>4. ASSUME NEW r \in Room, RoomStep(r)
      PROVE  \E lost \in SUBSET MayDrop : RoomStartsChat(r, k, lost)
  <2>1. PICK l \in Chat, lost \in SUBSET MayDrop : RoomStartsChat(r, l, lost)
    BY <1>1, <1>4 DEF RoomStep, RoomSleep, RoomFindsNobody, RoomDropsBoth, RoomDropsOne
  <2>2. l = k
    BY <1>1, <2>1 DEF RoomStartsChat
  <2> QED BY <2>1, <2>2
<1> QED BY <1>2, <1>3, <1>4 DEF Next

\* The search has refused every pair that one of the two remembers, if the other
\* was assigned in this room last.
LEMMA StartIsNew ==
    ASSUME TypeInv, PlaceInv, HistInv, NEW r \in Room, NEW k \in Chat,
           NEW lost \in SUBSET MayDrop, RoomStartsChat(r, k, lost)
    PROVE  LET c1 == client1'[k]
               c2 == client2'[k]
           IN  /\ matchedRoom'[c1] = r
               /\ Repeats(c1, c2, r) => lastMatch[c2][1] \in Room \ {r}
               /\ Repeats(c2, c1, r) => lastMatch[c1][1] \in Room \ {r}
<1>1. PICK c1, c2 \in Client :
          /\ c1 # c2 /\ {c1, c2} \subseteq ToSet(coda[r]) /\ ~PairRefused(c1, c2)
          /\ client1'[k] = c1 /\ client2'[k] = c2
          /\ matchedRoom' = [matchedRoom EXCEPT ![c1] = r, ![c2] = r]
    BY StartEffect
<1>2. matchedRoom'[c1] = r
    BY <1>1 DEF TypeInv, TypeOK
<1>3. currentRoom[c2] = r
    BY <1>1 DEF PlaceInv, PlaceOf, WaitsIn
<1>4. ASSUME NEW c \in {c1, c2}, lastMatch[c] # <<>>
      PROVE  /\ matchedRoom[c] = lastMatch[c][1]
             /\ matchedAddress[c] = AddressOf[lastMatch[c][2]]
             /\ lastMatch[lastMatch[c][2]] # <<>>
  <2>1. LastAssignmentKnown
    BY HistInvKnown
  <2> QED BY <1>1, <1>4, <2>1 DEF LastAssignmentKnown, HistInv, Remembers
<1>5. ASSUME NEW c \in {c1, c2}, NEW d \in {c1, c2}, Repeats(c, d, r)
      PROVE  /\ matchedRoom[c] = r /\ matchedAddress[c] = AddressOf[d]
             /\ matchedRoom[d] = lastMatch[d][1] /\ lastMatch[d][1] \in Room
  <2>1. lastMatch[c] # <<>> /\ lastMatch[c][1] = r /\ lastMatch[c][2] = d
    BY <1>5 DEF Repeats
  <2>2. lastMatch[d] # <<>>
    BY <1>4, <2>1
  <2>3. lastMatch[d] \in Room \X Client
    BY <1>1, <2>2 DEF HistInv
  <2> QED BY <1>4, <2>1, <2>2, <2>3
<1>6. Repeats(c1, c2, r) => lastMatch[c2][1] \in Room \ {r}
    BY <1>1, <1>3, <1>5 DEF PairRefused
<1>7. Repeats(c2, c1, r) => lastMatch[c1][1] \in Room \ {r}
    BY <1>1, <1>3, <1>5 DEF PairRefused
<1> QED BY <1>1, <1>2, <1>6, <1>7

LEMMA StartsAreNew ==
    TypeInv /\ PlaceInv /\ HistInv /\ [HistoryNext]_histVars =>
      \A k \in Chat : Starts(k) =>
        LET c1 == client1'[k]
            c2 == client2'[k]
            r == matchedRoom'[c1]
        IN  /\ Repeats(c1, c2, r) => lastMatch[c2][1] \in Room \ {r}
            /\ Repeats(c2, c1, r) => lastMatch[c1][1] \in Room \ {r}
<1> SUFFICES ASSUME TypeInv, PlaceInv, HistInv, [HistoryNext]_histVars,
                    NEW k \in Chat, Starts(k)
             PROVE  LET c1 == client1'[k]
                        c2 == client2'[k]
                        r == matchedRoom'[c1]
                    IN  /\ Repeats(c1, c2, r) => lastMatch[c2][1] \in Room \ {r}
                        /\ Repeats(c2, c1, r) => lastMatch[c1][1] \in Room \ {r}
    OBVIOUS
<1>1. Next
    BY DEF HistoryNext, histVars, vars, threadVars, Starts
<1>2. PICK r \in Room, lost \in SUBSET MayDrop : RoomStartsChat(r, k, lost)
    BY <1>1, OnlyRoomStarts
<1> QED BY <1>2, StartIsNew

\* While nobody types STOP and no deletion would hit a namesake, the last assignment
\* of a client is repeated only when the other of the two has been assigned in another
\* room since; where there is a single room, never.
THEOREM NotRepeating ==
    ASSUME NobodyStops
    PROVE  HistorySpec => ([]DeletesItself => NeverRepeats)
  BY HistoryInvariant, StartsAreNew, PTL DEF HistorySpec, histVars, NeverRepeats
-----------------------------------------------------------------------------
(***************************************************************************)
(* The handshake of a chat with its two handlers: it waits for nobody who  *)
(* has confirmed already, unless that client is disconnected.              *)
(***************************************************************************)
\* On the condition of a client wait only its own handler and the chat whose turn
\* it is.
WaitersKnown ==
    \A c \in Client : \A t \in waiters[c] :
      \/ t = c /\ pc[c] \in {"await", "park"}
      \/ t \in Chat /\ chatPC[t] = "confirm1" /\ client1[t] = c
      \/ t \in Chat /\ chatPC[t] = "confirm2" /\ client2[t] = c

\* The second client is kept at its test, since the chat has its mutex.
SecondHeld ==
    \A k \in Chat : chatPC[k] = "confirm1" /\ isConnected[client2[k]] => pc[client2[k]] = "await"

AwakeWhenMatched == \A c \in Client : isMatched[c] => pc[c] # "block"

WaitInv == WaitersKnown /\ SecondHeld /\ AwakeWhenMatched /\ ConfirmationAhead

\* All that is known here.
Met == TypeInv /\ LockInv /\ PlaceInv /\ WaitInv

\* A chat that waits on the condition of a client has it, has marked it, and is the
\* only one that does.
LEMMA WhoWaits ==
    ASSUME Met, NEW c \in Client, NEW k \in Chat, k \in waiters[c]
    PROVE  /\ Holds(k, c) /\ isMatched[c]
           /\ \/ chatPC[k] = "confirm1" /\ client1[k] = c
              \/ chatPC[k] = "confirm2" /\ client2[k] = c
           /\ \A t \in waiters[c] : t \in {c, k}
<1>1. ASSUME NEW l \in Chat, l \in waiters[c]
      PROVE  /\ Holds(l, c)
             /\ \/ chatPC[l] = "confirm1" /\ client1[l] = c
                \/ chatPC[l] = "confirm2" /\ client2[l] = c
  <2>1. l # c
      BY ConstantsAssumption
  <2> QED BY <1>1, <2>1 DEF Met, WaitInv, WaitersKnown, Holds, Engaged, ChatPair
<1>2. MeetsIn(c, k)
    BY <1>1 DEF Met, PlaceInv, PlaceOf
<1>3. isMatched[c]
    BY <1>1, <1>2 DEF MeetsIn, Unmarked
<1>4. \A t \in waiters[c] : t \in Chat => t = k
    BY <1>1, <1>2 DEF MeetsIn
<1>5. \A t \in waiters[c] : t \in Chat \/ t = c
    BY DEF Met, WaitInv, WaitersKnown
<1> QED BY <1>1, <1>3, <1>4, <1>5

\* Where no handler moves, nobody begins to wait and no chat enters its handshake.
LEMMA WaitFrame ==
    ASSUME WaitInv, UNCHANGED pc,
           \A c \in Client : /\ waiters'[c] \subseteq waiters[c]
                             /\ isConnected'[c] => isConnected[c]
                             /\ isMatched'[c] => isMatched[c],
           \A k \in Chat : \/ chatPC'[k] = chatPC[k] /\ client1'[k] = client1[k] /\ client2'[k] = client2[k]
                           \/ /\ chatPC'[k] \notin {"confirm1", "confirm2"}
                              /\ \A c \in Client : k \notin waiters'[c],
           \A k \in Chat : chatPC[k] # "free" => client1[k] \in Client /\ client2[k] \in Client
    PROVE  WaitInv'
<1>1. WaitersKnown'
    BY DEF WaitInv, WaitersKnown
<1>2. SecondHeld'
    BY DEF WaitInv, SecondHeld
<1>3. AwakeWhenMatched'
    BY DEF WaitInv, AwakeWhenMatched
<1>4. ConfirmationAhead'
  <2> SUFFICES ASSUME NEW k \in Chat, chatPC'[k] \in {"confirm1", "confirm2"}, NEW c \in ChatPair(k)',
                      k \in waiters'[c], isConnected'[c]
               PROVE  YetToConfirm(c)'
      BY DEF ConfirmationAhead
  <2>1. chatPC[k] = chatPC'[k] /\ c \in ChatPair(k) /\ c \in Client
      BY DEF ChatPair
  <2>2. YetToConfirm(c)
      BY <2>1 DEF WaitInv, ConfirmationAhead
  <2> QED BY <2>1, <2>2 DEF YetToConfirm
<1> QED BY <1>1, <1>2, <1>3, <1>4 DEF WaitInv

\* A handler moves on, and perhaps signals its client's condition.
LEMMA WaitMove ==
    ASSUME Met, NEW c \in Client, NEW from, NEW to, Moves(c, from, to),
           UNCHANGED <<isMatched, chatPC, client1, client2>>,
           \A d \in Client : waiters'[d] \subseteq waiters[d] /\ (isConnected'[d] => isConnected[d]),
           c \notin waiters'[c],
           to = "block" => ~isMatched[c],
           from = "await" => owner[c] = NoThread,
           \A k \in Chat : from \in {"await", "dispatch", "match_join"} /\ isConnected'[c] /\ k \in waiters'[c]
                             => to \in {"dispatch", "match_join"}
    PROVE  WaitInv'
<1>1. pc[c] = from /\ pc'[c] = to /\ \A d \in Client : d # c => pc'[d] = pc[d]
    BY DEF Met, Moves, TypeInv, TypeOK
<1>2. WaitersKnown'
    BY <1>1 DEF Met, WaitInv, WaitersKnown
<1>3. SecondHeld'
  <2> SUFFICES ASSUME NEW k \in Chat, chatPC[k] = "confirm1", isConnected'[client2[k]]
               PROVE  pc'[client2[k]] = "await"
      BY DEF SecondHeld
  <2>1. client2[k] \in Client /\ owner[client2[k]] = k
      BY DEF Met, TypeInv, Seated, LockInv, LockDiscipline
  <2>2. pc[client2[k]] = "await"
      BY <2>1 DEF Met, WaitInv, SecondHeld
  <2>3. client2[k] # c
      BY <1>1, <2>1, <2>2, ConstantsAssumption
  <2> QED BY <1>1, <2>1, <2>2, <2>3
<1>4. AwakeWhenMatched'
    BY <1>1 DEF Met, WaitInv, AwakeWhenMatched
<1>5. ConfirmationAhead'
  <2> SUFFICES ASSUME NEW k \in Chat, chatPC[k] \in {"confirm1", "confirm2"}, NEW d \in ChatPair(k),
                      k \in waiters'[d], isConnected'[d]
               PROVE  YetToConfirm(d)'
      BY DEF ConfirmationAhead, ChatPair
  <2>1. d \in Client
      BY DEF ChatPair, Met, TypeInv, Seated
  <2>2. YetToConfirm(d)
      BY <2>1 DEF Met, WaitInv, ConfirmationAhead
  <2> QED BY <1>1, <2>1, <2>2 DEF YetToConfirm
<1> QED BY <1>2, <1>3, <1>4, <1>5 DEF WaitInv

\* A handler goes to sleep: its client is not matched, or it has confirmed.
LEMMA BlockWaitInv ==
    ASSUME Met, NEW c \in Client, AwaitBlock(c) \/ ParkBlock(c)
    PROVE  WaitInv'
<1> USE DEF roomVars, flagVars, matchVars
<1>1. PICK from, to : Blocks(c, from, to) /\ <<from, to>> \in {<<"block", "await">>, <<"park_block", "park">>}
    BY DEF AwaitBlock, ParkBlock
<1>2. /\ pc[c] = from /\ pc'[c] = to /\ \A d \in Client : d # c => pc'[d] = pc[d]
      /\ waiters'[c] = waiters[c] \cup {c} /\ \A d \in Client : d # c => waiters'[d] = waiters[d]
      /\ UNCHANGED <<isConnected, isMatched, chatPC, client1, client2>>
    BY <1>1 DEF Blocks, Moves, Met, TypeInv, TypeOK
<1>3. from \in {"block", "park_block"} /\ to \in {"await", "park"}
    BY <1>1
<1>4. WaitersKnown'
    BY <1>2, <1>3 DEF Met, WaitInv, WaitersKnown
<1>5. SecondHeld'
  <2> SUFFICES ASSUME NEW k \in Chat, chatPC[k] = "confirm1", isConnected[client2[k]]
               PROVE  pc'[client2[k]] = "await"
      BY <1>2 DEF SecondHeld
  <2>1. client2[k] \in Client /\ pc[client2[k]] = "await"
      BY DEF Met, TypeInv, Seated, WaitInv, SecondHeld
  <2> QED BY <1>2, <1>3, <2>1
<1>6. AwakeWhenMatched'
    BY <1>2, <1>3 DEF Met, WaitInv, AwakeWhenMatched
<1>7. ConfirmationAhead'
  <2> SUFFICES ASSUME NEW k \in Chat, chatPC[k] \in {"confirm1", "confirm2"}, NEW d \in ChatPair(k),
                      k \in waiters'[d], isConnected[d]
               PROVE  YetToConfirm(d)'
      BY <1>2 DEF ConfirmationAhead, ChatPair
  <2>1. d \in Client /\ k # d
      BY ConstantsAssumption DEF ChatPair, Met, TypeInv, Seated
  <2>2. YetToConfirm(d)
      BY <1>2, <2>1 DEF Met, WaitInv, ConfirmationAhead
  <2>3. d # c
      BY <1>2, <1>3, <2>2 DEF YetToConfirm
  <2> QED BY <1>2, <2>1, <2>2, <2>3 DEF YetToConfirm
<1> QED BY <1>4, <1>5, <1>6, <1>7 DEF WaitInv

\* A handler confirms: only the chat waits, and is woken.
LEMMA ConfirmWaitInv ==
    ASSUME Met, NEW c \in Client, MatchJoin(c)
    PROVE  WaitInv'
<1> USE DEF roomVars, flagVars, matchVars
<1>1. /\ Moves(c, "match_join", "park") /\ Signal(c)
      /\ UNCHANGED <<isConnected, isMatched, chatPC, client1, client2>>
    BY DEF MatchJoin, Joins
<1>2. waiters \in WaitersType /\ pc[c] = "match_join"
    BY <1>1 DEF Met, TypeInv, TypeOK, WaitersType, Moves
<1>3. \A d \in Client : waiters'[d] \subseteq waiters[d]
    BY <1>1, <1>2 DEF Signal, Signalled, WaitersType
<1>4. c \notin waiters[c]
    BY <1>2, ConstantsAssumption DEF Met, WaitInv, WaitersKnown
<1>5. ASSUME NEW k \in Chat, k \in waiters[c] PROVE waiters'[c] = {}
  <2>1. waiters[c] = {k}
      BY <1>4, <1>5, WhoWaits
  <2> QED BY <1>1, <1>2, <2>1 DEF Signal, Signalled, WaitersType
<1> QED BY <1>1, <1>3, <1>4, <1>5, WaitMove

\* Every step of a handler.
LEMMA HandlerWaitInv ==
    ASSUME NobodyStops, Met, NEW c \in Client, HandlerStep(c)
    PROVE  WaitInv'
<1> USE DEF roomVars, flagVars, matchVars, otherFlags, syncVars
<1>1. /\ waiters \in WaitersType /\ isConnected \in [Client -> BOOLEAN] /\ isMatched \in [Client -> BOOLEAN]
      /\ \A lost : \A d \in Client : Disconnect(lost)[d] => isConnected[d]
    BY DEF Met, TypeInv, TypeOK, WaitersType, Disconnect
<1>2. pc[c] \notin {"await", "park"} => c \notin waiters[c]
    BY ConstantsAssumption DEF Met, WaitInv, WaitersKnown
<1>3. ~stopWaiting[c] /\ (pc[c] \in Dropping => ~isConnected[c])
    BY DEF Met, PlaceInv, PlaceOf
<1>4. ASSUME NEW k \in Chat, k \in waiters[c] PROVE isMatched[c]
    BY <1>4, WhoWaits
<1>5. ASSUME NEW lost \in SUBSET {c}, AnswersFull(c, lost) \/ AnswersSpace(c, lost) \/ AfterChat(c, lost)
      PROVE  WaitInv'
    BY <1>1, <1>2, <1>5, WaitMove DEF AnswersFull, AnswersSpace, Answered, AfterChat, LosesOnly, Moves
<1>14. CASE FindsFull(c) \/ FindsSpace(c)
    BY <1>1, <1>2, <1>14, WaitMove DEF FindsFull, FindsSpace, FindsRoom, Moves
<1>6. ASSUME NEW lost \in SUBSET {c}, DispatchMatched(c, lost) PROVE WaitInv'
  <2>1. c \in lost => ~isConnected'[c]
      BY <1>6 DEF DispatchMatched, LosesOnly, Disconnect
  <2> QED BY <1>1, <1>2, <1>6, <2>1, WaitMove DEF DispatchMatched, LosesOnly, Moves
<1>7. ASSUME NEW lost \in SUBSET {c} PROVE ~DispatchStopped(c, lost)
    BY <1>3 DEF DispatchStopped
<1>8. CASE Feedback(c) \/ NoFeedback(c) \/ Enqueue(c)
  <2>1. PICK from \in {"feedback", "enqueue"}, to \in {"enqueue", "leave", "await"} : Moves(c, from, to)
      BY <1>8 DEF Feedback, NoFeedback, Enqueue
  <2>2. /\ UNCHANGED <<isMatched, chatPC, client1, client2, waiters>>
        /\ isConnected' = Disconnect({c}) \/ UNCHANGED isConnected
      BY <1>8 DEF Feedback, NoFeedback, Enqueue
  <2>3. c \notin waiters[c]
      BY <1>2, <2>1 DEF Moves
  <2> QED BY <1>1, <2>1, <2>2, <2>3, WaitMove
<1>9. CASE AwaitTest(c)
  <2>1. /\ Moves(c, "await", "block") /\ CanLock(c, c) /\ ~isMatched[c]
        /\ UNCHANGED <<isConnected, isMatched, chatPC, client1, client2, waiters>>
      BY <1>9 DEF AwaitTest, MustAwait, TestsAndBlocks
  <2> QED BY <1>1, <1>4, <2>1, WaitMove DEF CanLock
<1>10. CASE AwaitOver(c) \/ ParkTest(c) \/ ParkOver(c)
    BY <1>1, <1>10, WaitMove DEF AwaitOver, ParkTest, ParkOver, TestsAndGoesOn, TestsAndBlocks, CanLock
<1>11. CASE DispatchDropped(c) \/ DropDelete(c) \/ DropJoin(c) \/ StopDelete(c) \/ StopJoin(c)
  <2>1. UNCHANGED <<isConnected, isMatched, chatPC, client1, client2, waiters>>
      BY <1>11 DEF DispatchDropped, DropDelete, DropJoin, StopDelete, StopJoin, LeavesQueue, Joins
  <2>2. PICK from \in {"dispatch", "drop_delete", "drop_join", "stop_delete", "stop_join"},
             to \in {"drop_signal", "drop_delete", "leave", "stop_join", "feedback"} :
          Moves(c, from, to) /\ (from = "dispatch" => ~isConnected[c])
      BY <1>11 DEF DispatchDropped, DropDelete, DropJoin, StopDelete, StopJoin, LeavesQueue, Joins
  <2>3. c \notin waiters[c]
      BY <1>2, <2>2 DEF Moves
  <2> QED BY <1>1, <2>1, <2>2, <2>3, WaitMove
<1>12. CASE DropSignal(c)
  <2>1. /\ Moves(c, "drop_signal", "drop_join") /\ Signal(c)
        /\ UNCHANGED <<isConnected, isMatched, chatPC, client1, client2>>
      BY <1>12 DEF DropSignal
  <2>2. \A d \in Client : waiters'[d] \subseteq waiters[d]
      BY <1>1, <2>1 DEF Signal, Signalled, WaitersType
  <2>3. c \notin waiters[c]
      BY <1>2, <2>1 DEF Moves
  <2> QED BY <2>1, <2>2, <2>3, WaitMove
<1>13. CASE Leave(c) \/ LeaveNowhere(c) \/ Forget(c) \/ Exit(c)
  <2>1. UNCHANGED <<isConnected, isMatched, chatPC, client1, client2, waiters>>
      BY <1>13 DEF Leave, LeaveNowhere, Forget, Exit
  <2>2. PICK from \in {"leave", "forget", "exit"}, to \in {"forget", "menu", "exit", "gone"} : Moves(c, from, to)
      BY <1>13 DEF Leave, LeaveNowhere, Forget, Exit, NextRound
  <2>3. c \notin waiters[c]
      BY <1>2, <2>2 DEF Moves
  <2> QED BY <1>1, <2>1, <2>2, <2>3, WaitMove
<1> QED BY <1>5, <1>6, <1>7, <1>8, <1>9, <1>10, <1>11, <1>12, <1>13, <1>14,
       BlockWaitInv, ConfirmWaitInv
    DEF HandlerStep

\* Neither users nor watchers nor matchers have a part in it, except that they may find
\* a client disconnected, or wake a thread early.
LEMMA OtherWaitInv ==
    ASSUME Met, \/ \E c \in Client : WatcherStep(c) \/ UserStep(c)
                \/ \E r \in Room : RoomStep(r)
    PROVE  WaitInv'
<1> USE DEF roomVars, flagVars, matchVars, otherFlags, syncVars, threadVars
<1>1. /\ waiters \in WaitersType /\ isConnected \in [Client -> BOOLEAN] /\ isMatched \in [Client -> BOOLEAN]
      /\ \A lost : \A d \in Client : Disconnect(lost)[d] => isConnected[d]
    BY DEF Met, TypeInv, TypeOK, WaitersType, Disconnect
<1>2. \A k \in Chat : chatPC[k] # "free" => client1[k] \in Client /\ client2[k] \in Client
    BY DEF Met, TypeInv, Seated
<1>3. ASSUME NEW c \in Client, WatcherStep(c) \/ WatchStop(c) \/ WatchDrop(c) PROVE WaitInv'
  <2>1. /\ UNCHANGED <<pc, isMatched, chatPC, client1, client2>>
        /\ UNCHANGED isConnected \/ isConnected' = Disconnect({c})
        /\ UNCHANGED waiters \/ Signal(c)
      BY <1>3 DEF WatcherStep, WatchOK, WatchTests, WatchSignal, WatchStop, WatchDrop
  <2>2. \A d \in Client : waiters'[d] \subseteq waiters[d]
      BY <1>1, <2>1 DEF Signal, Signalled, WaitersType
  <2> QED BY <1>1, <1>2, <2>1, <2>2, WaitFrame DEF Met
<1>4. ASSUME NEW c \in Client, Quit(c) \/ Vanish(c) \/ \E r \in Room : ChooseRoom(c, r) PROVE WaitInv'
  <2>1. PICK to \in {"leave", "exit", "check"} : Moves(c, "menu", to)
      BY <1>4 DEF Quit, Vanish, ChooseRoom
  <2>2. /\ UNCHANGED <<isMatched, chatPC, client1, client2, waiters>>
        /\ isConnected' = Disconnect({c}) \/ UNCHANGED isConnected
      BY <1>4 DEF Quit, Vanish, ChooseRoom
  <2>3. c \notin waiters[c]
      BY <2>1, ConstantsAssumption DEF Moves, Met, WaitInv, WaitersKnown
  <2> QED BY <1>1, <2>1, <2>2, <2>3, WaitMove
<1>5. ASSUME NEW r \in Room, RoomStep(r) PROVE WaitInv'
  <2>1. CASE RoomSleep(r) \/ RoomFindsNobody(r) \/ RoomDropsBoth(r) \/ RoomDropsOne(r)
    <3>1. UNCHANGED <<pc, isMatched, isConnected, chatPC, client1, client2, waiters>>
        BY <2>1 DEF RoomSleep, RoomFindsNobody, RoomDropsBoth, RoomDropsOne
    <3> QED BY <1>2, <3>1, WaitFrame DEF Met
  <2>2. ASSUME NEW k \in Chat, NEW lost \in SUBSET MayDrop, RoomStartsChat(r, k, lost) PROVE WaitInv'
    <3>1. /\ UNCHANGED <<pc, isMatched, waiters>> /\ isConnected' = Disconnect(lost)
          /\ chatPC[k] = "free" /\ chatPC' = [chatPC EXCEPT ![k] = "lock1"]
        BY <2>2 DEF RoomStartsChat
    <3>2. \A l \in Chat : l # k => client1'[l] = client1[l] /\ client2'[l] = client2[l]
        BY <2>2 DEF RoomStartsChat, Met, TypeInv, TypeOK
    <3>3. \A c \in Client : k \notin waiters[c]
        BY <3>1, WhoWaits
    <3>4. \A l \in Chat : l # k => chatPC'[l] = chatPC[l]
        BY <3>1 DEF Met, TypeInv, TypeOK
    <3>5. chatPC'[k] = "lock1"
        BY <3>1 DEF Met, TypeInv, TypeOK
    <3> QED BY <1>1, <1>2, <3>1, <3>2, <3>3, <3>4, <3>5, WaitFrame DEF Met
  <2> QED BY <1>5, <2>1, <2>2 DEF RoomStep
<1> QED BY <1>3, <1>4, <1>5 DEF UserStep

\* The condition of a client that a chat has is waited on by nobody else but its handler.
LEMMA OnlyHandlerWaits ==
    ASSUME Met, NEW k \in Chat, NEW c \in Client, Holds(k, c), k \notin waiters[c]
    PROVE  waiters[c] \subseteq {c}
<1> SUFFICES ASSUME NEW t \in waiters[c], t # c PROVE FALSE
    OBVIOUS
<1>1. t \in Chat
    BY DEF Met, WaitInv, WaitersKnown
<1>2. Holds(t, c)
    BY <1>1, WhoWaits
<1>3. t = k
    BY <1>1, <1>2 DEF Met, PlaceInv, PlaceOf, MeetsIn
<1> QED BY <1>3

\* A chat begins to wait for c: its signal wakes the handler of c if that is asleep, and
\* nobody else waits there.
LEMMA BeginsToWait ==
    ASSUME Met, NEW k \in Chat, NEW c \in Client, Holds(k, c), k \notin waiters[c],
           NEW w \in Signalled(c, waiters), waiters' = [w EXCEPT ![c] = @ \cup {k}]
    PROVE  waiters'[c] = {k} /\ \A d \in Client : d # c => waiters'[d] = waiters[d]
<1>1. waiters \in WaitersType
    BY DEF Met, TypeInv, TypeOK, WaitersType
<1>2. waiters[c] = {} \/ waiters[c] = {c}
    BY OnlyHandlerWaits
<1>3. w \in WaitersType /\ w[c] = {} /\ \A d \in Client : d # c => w[d] = waiters[d]
    BY <1>1, <1>2, SignalledType DEF Signalled, WaitersType
<1> QED BY <1>3 DEF WaitersType

\* A chat that enters a wait for c, whose handler has not confirmed if it is connected.
LEMMA EnterWaitInv ==
    ASSUME Met, NEW k \in Chat, NEW c \in Client, Holds(k, c), k \notin waiters[c],
           UNCHANGED <<pc, isConnected, client1, client2>>,
           waiters'[c] = {k}, \A d \in Client : d # c => waiters'[d] = waiters[d],
           \A d \in Client : k \notin waiters[d],
           \A l \in Chat : l # k => chatPC'[l] = chatPC[l],
           \/ chatPC'[k] = "confirm1" /\ client1[k] = c
           \/ chatPC'[k] = "confirm2" /\ client2[k] = c,
           isConnected[c] => pc[c] = "await",
           chatPC'[k] = "confirm1" /\ isConnected[client2[k]] => pc[client2[k]] = "await",
           \A d \in Client : isMatched'[d] => isMatched[d] \/ pc[d] # "block"
    PROVE  WaitInv'
<1>1. k # c
    BY ConstantsAssumption
<1>2. WaitersKnown'
  <2> SUFFICES ASSUME NEW d \in Client, NEW t \in waiters'[d]
               PROVE  \/ t = d /\ pc[d] \in {"await", "park"}
                      \/ t \in Chat /\ chatPC'[t] = "confirm1" /\ client1[t] = d
                      \/ t \in Chat /\ chatPC'[t] = "confirm2" /\ client2[t] = d
      BY DEF WaitersKnown
  <2>1. CASE d = c
      BY <2>1
  <2>2. CASE d # c
    <3>1. t \in waiters[d] /\ t # k
        BY <2>2
    <3> QED BY <3>1 DEF Met, WaitInv, WaitersKnown
  <2> QED BY <2>1, <2>2
<1>3. SecondHeld'
    BY DEF Met, WaitInv, SecondHeld
<1>4. AwakeWhenMatched'
    BY DEF Met, WaitInv, AwakeWhenMatched
<1>5. ConfirmationAhead'
  <2> SUFFICES ASSUME NEW l \in Chat, chatPC'[l] \in {"confirm1", "confirm2"}, NEW d \in ChatPair(l),
                      l \in waiters'[d], isConnected[d]
               PROVE  YetToConfirm(d)'
      BY DEF ConfirmationAhead, ChatPair
  <2>1. CASE l = k
    <3>1. d = c
        BY <2>1 DEF ChatPair, Holds, Engaged, Met, TypeInv, Seated
    <3> QED BY <1>1, <3>1 DEF YetToConfirm
  <2>2. CASE l # k
    <3>1. d \in Client /\ d # c /\ l \in waiters[d]
        BY <2>2 DEF ChatPair, Met, TypeInv, Seated
    <3>2. YetToConfirm(d)
        BY <2>2, <3>1 DEF Met, WaitInv, ConfirmationAhead
    <3> QED BY <3>1, <3>2 DEF YetToConfirm
  <2> QED BY <2>1, <2>2
<1> QED BY <1>2, <1>3, <1>4, <1>5 DEF WaitInv

\* The pair is marked and the first handler signalled.
LEMMA MarkWaitInv ==
    ASSUME Met, NEW k \in Chat, ChatMarks(k)
    PROVE  WaitInv'
<1>1. /\ chatPC[k] = "lock2" /\ \A l \in Chat : chatPC'[l] = IF l = k THEN "confirm1" ELSE chatPC[l]
      /\ client1[k] # client2[k]
      /\ UNCHANGED <<pc, isConnected, client1, client2>>
      /\ isMatched' = [isMatched EXCEPT ![client1[k]] = TRUE, ![client2[k]] = TRUE]
      /\ owner[client2[k]] = NoThread
    BY DEF ChatMarks, ChatMoves, CanLock, Met, TypeInv, TypeOK
<1>2. client1[k] \in Client /\ client2[k] \in Client /\ Holds(k, client1[k]) /\ Holds(k, client2[k])
    BY <1>1 DEF Met, TypeInv, Seated, Holds, Engaged, ChatPair
<1>3. \A d \in Client : k \notin waiters[d]
    BY <1>1, WhoWaits
<1>4. owner[client1[k]] = k
    BY <1>1 DEF Met, LockInv, LockDiscipline
<1>5. pc[client1[k]] # "block" /\ pc[client2[k]] # "block"
    BY <1>1, <1>2, <1>4, ConstantsAssumption DEF Met, LockInv, LockDiscipline
<1>6. \A c \in ChatPair(k) : isConnected[c] => pc[c] = "await"
    BY <1>1, <1>2, <1>5 DEF Met, PlaceInv, PlaceOf, MeetsIn, Unmarked, Waiting, ChatPair
<1>7. \A d \in Client : isMatched'[d] => isMatched[d] \/ pc[d] # "block"
    BY <1>1, <1>5 DEF Met, TypeInv, TypeOK
<1>8. PICK w \in Signalled(client1[k], waiters) : waiters' = [w EXCEPT ![client1[k]] = @ \cup {k}]
    BY DEF ChatMarks
<1>9. waiters'[client1[k]] = {k} /\ \A d \in Client : d # client1[k] => waiters'[d] = waiters[d]
    BY <1>2, <1>3, <1>8, BeginsToWait
<1> QED BY <1>1, <1>2, <1>3, <1>6, <1>7, <1>9, EnterWaitInv DEF ChatPair

\* The first has confirmed; the second is signalled.
LEMMA SecondWaitInv ==
    ASSUME Met, NEW k \in Chat, ChatConfirms1(k)
    PROVE  WaitInv'
<1> USE DEF flagVars
<1>1. /\ chatPC[k] = "confirm1" /\ \A l \in Chat : chatPC'[l] = IF l = k THEN "confirm2" ELSE chatPC[l]
      /\ UNCHANGED <<pc, isConnected, isMatched, client1, client2>>
      /\ k \notin waiters[client1[k]]
    BY DEF ChatConfirms1, ChatMoves, CanLock, Met, TypeInv, TypeOK
<1>2. client1[k] \in Client /\ client2[k] \in Client /\ Holds(k, client2[k]) /\ client1[k] # client2[k]
    BY <1>1 DEF Met, TypeInv, Seated, Holds, Engaged, ChatPair, LockInv, Distinct
<1>3. \A d \in Client : k \notin waiters[d]
    BY <1>1, WhoWaits
<1>4. isConnected[client2[k]] => pc[client2[k]] = "await"
    BY <1>1 DEF Met, WaitInv, SecondHeld
<1>5. PICK w \in Signalled(client2[k], waiters) : waiters' = [w EXCEPT ![client2[k]] = @ \cup {k}]
    BY DEF ChatConfirms1
<1>6. waiters'[client2[k]] = {k} /\ \A d \in Client : d # client2[k] => waiters'[d] = waiters[d]
    BY <1>2, <1>3, <1>5, BeginsToWait
<1> QED BY <1>1, <1>2, <1>3, <1>4, <1>6, EnterWaitInv

\* The other steps of a chat begin no wait.
LEMMA ChatWaitInv ==
    ASSUME Met, NEW k \in Chat, ChatStep(k) \/ ChatTalk(k)
    PROVE  WaitInv'
<1> USE DEF roomVars, flagVars, matchVars, otherFlags, syncVars
<1>1. /\ waiters \in WaitersType /\ isMatched \in [Client -> BOOLEAN]
      /\ \A lost : \A d \in Client : Disconnect(lost)[d] => isConnected[d]
      /\ chatPC \in [Chat -> ChatPC]
      /\ client1 \in [Chat -> Client \cup {NoThread}] /\ client2 \in [Chat -> Client \cup {NoThread}]
    BY DEF Met, TypeInv, TypeOK, WaitersType, Disconnect
<1>2. \A j \in Chat : chatPC[j] # "free" => client1[j] \in Client /\ client2[j] \in Client
    BY DEF Met, TypeInv, Seated
<1>3. ASSUME NEW from, NEW to, ChatMoves(k, from, to), to \notin {"confirm1", "confirm2"},
             from = "confirm2" => k \notin waiters[client2[k]], from # "confirm1", UNCHANGED pc,
             \A l \in Chat : l # k => client1'[l] = client1[l] /\ client2'[l] = client2[l],
             \A d \in Client : /\ waiters'[d] \subseteq waiters[d]
                               /\ isConnected'[d] => isConnected[d]
                               /\ isMatched'[d] => isMatched[d]
      PROVE  WaitInv'
  <2>1. chatPC[k] = from /\ chatPC'[k] = to /\ \A l \in Chat : l # k => chatPC'[l] = chatPC[l]
      BY <1>1, <1>3 DEF ChatMoves
  <2>2. \A d \in Client : k \notin waiters'[d]
      BY <1>3, <2>1, WhoWaits
  <2> QED BY <1>2, <1>3, <2>1, <2>2, WaitFrame DEF Met
<1>4. CASE ChatLock1(k)
    BY <1>3, <1>4 DEF ChatLock1
<1>5. CASE ChatCancelled(k)
    BY <1>1, <1>3, <1>5 DEF ChatCancelled, ChatExits
<1>6. CASE ChatConfirms2(k)
    BY <1>3, <1>6 DEF ChatConfirms2, CanLock
<1>7. ASSUME NEW lost \in SUBSET MayDrop, ChatGreets(k, lost) \/ ChatEnds(k, lost) \/ ChatTimesOut(k, lost)
      PROVE  WaitInv'
  <2>1. PICK from \in {"greet", "talk"}, to \in {"talk", "close"} : ChatMoves(k, from, to)
      BY <1>7 DEF ChatGreets, ChatEnds, ChatTimesOut
  <2>2. isConnected' = Disconnect(lost) /\ UNCHANGED <<pc, isMatched, client1, client2, waiters>>
      BY <1>7 DEF ChatGreets, ChatEnds, ChatTimesOut
  <2> QED BY <1>1, <1>3, <2>1, <2>2
<1>8. CASE ChatCloses1(k) \/ ChatCloses2(k)
  <2>1. PICK c \in {client1[k], client2[k]}, from \in {"close", "close2"}, to \in {"close2", "wake2"} :
          Unmarks(k, c, from, to)
      BY <1>8 DEF ChatCloses1, ChatCloses2
  <2>2. \A d \in Client : isMatched'[d] => isMatched[d]
      BY <1>1, <2>1 DEF Unmarks
  <2> QED BY <1>3, <2>1, <2>2 DEF Unmarks
<1>9. CASE ChatWakes2(k) \/ ChatWakes1(k)
  <2>1. PICK c \in {client1[k], client2[k]}, from \in {"wake2", "wake1"}, to \in {"wake1", "free"} :
          ChatMoves(k, from, to) /\ Signal(c)
      BY <1>9 DEF ChatWakes2, ChatWakes1, ChatExits
  <2>2. c \in Client
      BY <1>2, <2>1 DEF ChatMoves
  <2>3. \A d \in Client : waiters'[d] \subseteq waiters[d]
      BY <1>1, <2>1, <2>2 DEF Signal, Signalled, WaitersType
  <2>4. /\ UNCHANGED <<pc, isConnected, isMatched>>
        /\ \A l \in Chat : l # k => client1'[l] = client1[l] /\ client2'[l] = client2[l]
      BY <1>1, <1>9 DEF ChatWakes2, ChatWakes1, ChatExits
  <2> QED BY <1>3, <2>1, <2>3, <2>4
<1> QED BY <1>4, <1>5, <1>6, <1>7, <1>8, <1>9, MarkWaitInv, SecondWaitInv DEF ChatStep, ChatTalk

\* As long as nobody types STOP and no deletion would hit a namesake, a chat that waits
\* for the confirmation of a client that is connected waits for a signal that is yet to
\* come, whoever else drops: the only handler that confirms too early is one that finds
\* its client disconnected.
THEOREM Confirming ==
    ASSUME NobodyStops
    PROVE  Spec => ([]DeletesItself => []ConfirmationAhead)
<1>1. TypeInv /\ LockInv /\ PlaceInv /\ WaitInv /\ [Next]_vars => WaitInv'
  <2> SUFFICES ASSUME Met, [Next]_vars PROVE WaitInv'
      BY DEF Met
  <2>1. CASE Next
      BY <2>1, HandlerWaitInv, OtherWaitInv, ChatWaitInv DEF Next
  <2>2. CASE UNCHANGED vars
      BY <2>2 DEF Met, vars, roomVars, flagVars, matchVars, threadVars, syncVars, WaitInv, WaitersKnown,
         SecondHeld, AwakeWhenMatched, ConfirmationAhead, YetToConfirm, ChatPair
  <2> QED BY <2>1, <2>2
<1>2. TypeInv /\ PlaceInv /\ DeletesItself /\ [Next]_vars => PlaceInv'
    BY NextPlaceInv
<1>3. TypeInv /\ LockInv /\ [Next]_vars => LockInv'
    BY NextLockInv
<1>4. TypeInv /\ [Next]_vars => TypeInv'
    BY NextTypeInv
<1>5. Init => LockInv /\ WaitInv
    BY DEF Init, LockInv, LockDiscipline, Distinct, WaitInv, WaitersKnown, SecondHeld, AwakeWhenMatched,
       ConfirmationAhead
<1>6. WaitInv => ConfirmationAhead
    BY DEF WaitInv
<1> QED BY <1>1, <1>2, <1>3, <1>4, <1>5, <1>6, InitTypeInv, InitPlaceInv, PTL DEF Spec
=============================================================================
