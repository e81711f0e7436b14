------------------------- MODULE MatchmakingProofs --------------------------
(***************************************************************************)
(* What holds of module Matchmaking for any number of clients, rooms and   *)
(* chats, whoever stops or drops.                                          *)
(***************************************************************************)
EXTENDS Matchmaking, QueueLemmas, FiniteSetTheorems, TLAPS

-----------------------------------------------------------------------------
(***************************************************************************)
(* Types.  A chat that exists has two clients.                             *)
(***************************************************************************)
Seated ==
    \A k \in Chat : chatPC[k] # "free" => client1[k] \in Client /\ client2[k] \in Client

TypeInv == TypeOK /\ Seated

WaitersType == [Client -> SUBSET (Client \cup Chat)]

\* A signal takes at most one thread off a condition's wait set.
LEMMA SignalledType ==
    ASSUME NEW w \in WaitersType, NEW c \in Client, NEW v \in Signalled(c, w)
    PROVE  v \in WaitersType
  BY DEF Signalled, WaitersType

\* One more in one place of a count.
LEMMA IncrementType ==
    ASSUME NEW S, NEW f \in [S -> Int], NEW x
    PROVE  [f EXCEPT ![x] = @ + 1] \in [S -> Int]
<1>1. CASE x \in S
    BY <1>1
<1>2. CASE x \notin S
    BY <1>2
<1> QED BY <1>1, <1>2

\* The initial state is well typed.
LEMMA InitTypeInv == Init => TypeInv
  BY ConstantsAssumption DEF Init, TypeInv, TypeOK, Seated, Address, HandlerPC, WatcherPC, ChatPC

\* A handler keeps the types.
LEMMA HandlerTypeInv ==
    ASSUME TypeInv, NEW c \in Client, HandlerStep(c)
    PROVE  TypeInv'
<1> USE DEF TypeInv, TypeOK, Seated, HandlerPC, WatcherPC, ChatPC,
            roomVars, flagVars, matchVars, threadVars, syncVars, otherFlags
<1>1. ASSUME NEW lost \in SUBSET {c}, AnswersFull(c, lost) \/ AnswersSpace(c, lost)
      PROVE  TypeInv'
    BY <1>1 DEF AnswersFull, AnswersSpace, Answered, LosesOnly, Moves, Disconnect
<1>2. CASE FindsFull(c) \/ FindsSpace(c)
    BY <1>2 DEF FindsFull, FindsSpace, FindsRoom, Moves
<1>3. ASSUME NEW lost \in SUBSET {c}, DispatchStopped(c, lost) PROVE TypeInv'
    BY <1>3 DEF DispatchStopped, LosesOnly, Moves, Disconnect
<1>4. ASSUME NEW lost \in SUBSET {c}, DispatchMatched(c, lost) PROVE TypeInv'
    BY <1>4 DEF DispatchMatched, LosesOnly, Moves, Disconnect
<1>5. ASSUME NEW lost \in SUBSET {c}, AfterChat(c, lost) PROVE TypeInv'
    BY <1>5 DEF AfterChat, LosesOnly, Moves, Disconnect
<1>6. CASE Feedback(c)
    BY <1>6 DEF Feedback, Moves
<1>7. CASE NoFeedback(c)
    BY <1>7 DEF NoFeedback, Moves, Disconnect
<1>8. CASE Enqueue(c)
  <2>1. coda' \in [Room -> Seq(Client)]
    <3>1. \A q \in Seq(Client) : Append(q, c) \in Seq(Client)
      BY AppendProperties
    <3> QED BY <1>8, <3>1 DEF Enqueue
  <2>2. numeroClients' \in [Room -> Int]
    BY <1>8, IncrementType DEF Enqueue
  <2>3. currentRoom' \in [Client -> Room \cup {NoRoom}]
    BY <1>8 DEF Enqueue
  <2> QED BY <1>8, <2>1, <2>2, <2>3 DEF Enqueue, Moves
<1>9. CASE AwaitTest(c)
    BY <1>9 DEF AwaitTest, TestsAndBlocks, Moves
<1>10. CASE AwaitBlock(c)
    BY <1>10 DEF AwaitBlock, Blocks, Moves
<1>11. CASE AwaitOver(c)
    BY <1>11 DEF AwaitOver, TestsAndGoesOn, Moves
<1>12. CASE DispatchDropped(c)
    BY <1>12 DEF DispatchDropped, Moves
<1>13. CASE DropDelete(c)
    BY <1>13, DeleteNicknameType DEF DropDelete, LeavesQueue, Moves
<1>14. CASE DropSignal(c)
    BY <1>14, SignalledType DEF DropSignal, Moves, Signal, WaitersType
<1>15. CASE DropJoin(c)
    BY <1>15 DEF DropJoin, Joins, Moves
<1>16. CASE StopDelete(c)
    BY <1>16, DeleteNicknameType DEF StopDelete, LeavesQueue, Moves
<1>17. CASE StopJoin(c)
    BY <1>17 DEF StopJoin, Joins, Moves
<1>18. CASE MatchJoin(c)
    BY <1>18, SignalledType DEF MatchJoin, Joins, Moves, Signal, WaitersType
<1>19. CASE ParkTest(c)
    BY <1>19 DEF ParkTest, TestsAndBlocks, Moves
<1>20. CASE ParkBlock(c)
    BY <1>20 DEF ParkBlock, Blocks, Moves
<1>21. CASE ParkOver(c)
    BY <1>21 DEF ParkOver, TestsAndGoesOn, Moves
<1>22. CASE Leave(c)
    BY <1>22 DEF Leave, Moves
<1>23. CASE LeaveNowhere(c)
    BY <1>23 DEF LeaveNowhere, Moves, NextRound
<1>24. CASE Forget(c)
    BY <1>24 DEF Forget, Moves, NextRound
<1>25. CASE Exit(c)
    BY <1>25 DEF Exit, Moves
<1> HIDE DEF TypeInv
<1> QED
    BY <1>1, <1>2, <1>3, <1>4, <1>5, <1>6, <1>7, <1>8, <1>9, <1>10, <1>11, <1>12, <1>13, <1>14, <1>15, <1>16, <1>17, <1>18, <1>19, <1>20, <1>21, <1>22, <1>23, <1>24, <1>25 DEF HandlerStep

\* So do the watcher and the user.
LEMMA UserTypeInv ==
    ASSUME TypeInv, NEW c \in Client, WatcherStep(c) \/ UserStep(c)
    PROVE  TypeInv'
<1> USE DEF TypeInv, TypeOK, Seated, HandlerPC, WatcherPC, ChatPC,
            roomVars, flagVars, matchVars, threadVars, syncVars, otherFlags
<1>1. ASSUME NEW r \in Room, ChooseRoom(c, r) PROVE TypeInv'
    BY <1>1 DEF ChooseRoom, Moves
<1>2. CASE WatchOK(c)
    BY <1>2 DEF WatchOK
<1>3. CASE WatchSignal(c)
    BY <1>3, SignalledType DEF WatchSignal, Signal, WaitersType
<1>4. CASE Quit(c)
    BY <1>4 DEF Quit, Moves, Disconnect
<1>5. CASE Vanish(c)
    BY <1>5 DEF Vanish, Moves, Disconnect
<1>6. CASE WatchStop(c)
    BY <1>6 DEF WatchStop
<1>7. CASE WatchDrop(c)
    BY <1>7 DEF WatchDrop, Disconnect
<1>8. CASE WatchTests(c)
    BY <1>8 DEF WatchTests
<1> HIDE DEF TypeInv
<1> QED
    BY <1>1, <1>2, <1>3, <1>4, <1>5, <1>6, <1>7, <1>8 DEF WatcherStep, UserStep

\* So does a chat.
LEMMA ChatTypeInv ==
    ASSUME TypeInv, NEW k \in Chat, ChatStep(k) \/ ChatTalk(k)
    PROVE  TypeInv'
<1> USE DEF TypeInv, TypeOK, Seated, HandlerPC, WatcherPC, ChatPC,
            roomVars, flagVars, matchVars, threadVars, syncVars, otherFlags
<1>1. CASE ChatLock1(k)
    BY <1>1 DEF ChatLock1, ChatMoves
<1>2. CASE ChatCancelled(k)
    BY <1>2 DEF ChatCancelled, ChatExits, ChatMoves
<1>3. CASE ChatMarks(k)
  <2>1. client1[k] \in Client /\ client2[k] \in Client
    BY <1>3 DEF ChatMarks, ChatMoves
  <2>2. PICK w \in Signalled(client1[k], waiters) :
            waiters' = [w EXCEPT ![client1[k]] = @ \cup {k}]
    BY <1>3 DEF ChatMarks
  <2>3. w \in WaitersType
    BY <2>1, <2>2, SignalledType DEF WaitersType
  <2>4. waiters' \in WaitersType
    BY <2>1, <2>2, <2>3 DEF WaitersType
  <2>5. owner' \in [Client -> Client \cup Chat \cup {NoThread}]
    BY <1>3 DEF ChatMarks
  <2>6. matchedAddress' \in [Client -> Address]
    BY <1>3, <2>1 DEF ChatMarks, Address
  <2>7. isMatched' \in [Client -> BOOLEAN]
    BY <1>3 DEF ChatMarks
  <2>8. UNCHANGED <<coda, numeroClients, asleep, matchNotFound, isConnected, stopWaiting,
                    chatTimedout, deletedFromQueue, currentRoom, matchedRoom, choice,
                    pc, watcher, client1, client2>>
    BY <1>3 DEF ChatMarks
  <2>9. chatPC' \in [Chat -> ChatPC] /\ Seated'
    BY <1>3, <2>1, <2>8 DEF ChatMarks, ChatMoves
  <2> QED
    BY <2>4, <2>5, <2>6, <2>7, <2>8, <2>9 DEF WaitersType
<1>4. CASE ChatConfirms1(k)
  <2>1. client1[k] \in Client /\ client2[k] \in Client
    BY <1>4 DEF ChatConfirms1, ChatMoves
  <2>2. PICK w \in Signalled(client2[k], waiters) :
            waiters' = [w EXCEPT ![client2[k]] = @ \cup {k}]
    BY <1>4 DEF ChatConfirms1
  <2>3. w \in WaitersType
    BY <2>1, <2>2, SignalledType DEF WaitersType
  <2>4. waiters' \in WaitersType
    BY <2>1, <2>2, <2>3 DEF WaitersType
  <2>5. owner' \in [Client -> Client \cup Chat \cup {NoThread}]
    BY <1>4 DEF ChatConfirms1
  <2>6. UNCHANGED <<roomVars, flagVars, matchVars, pc, watcher, client1, client2>>
    BY <1>4 DEF ChatConfirms1
  <2>7. chatPC' \in [Chat -> ChatPC] /\ Seated'
    BY <1>4, <2>1, <2>6 DEF ChatConfirms1, ChatMoves
  <2> QED
    BY <2>4, <2>5, <2>6, <2>7 DEF WaitersType
<1>5. CASE ChatConfirms2(k)
    BY <1>5 DEF ChatConfirms2, ChatMoves
<1>6. CASE ChatCloses1(k) \/ ChatCloses2(k)
    BY <1>6 DEF ChatCloses1, ChatCloses2, Unmarks, ChatMoves
<1>7. CASE ChatWakes2(k)
    BY <1>7, SignalledType DEF ChatWakes2, ChatMoves, Signal, WaitersType
<1>8. CASE ChatWakes1(k)
    BY <1>8, SignalledType DEF ChatWakes1, ChatExits, ChatMoves, Signal, WaitersType
<1>9. ASSUME NEW lost \in SUBSET MayDrop, ChatGreets(k, lost) PROVE TypeInv'
    BY <1>9 DEF ChatGreets, ChatMoves, Disconnect
<1>10. ASSUME NEW lost \in SUBSET MayDrop, ChatEnds(k, lost) PROVE TypeInv'
    BY <1>10 DEF ChatEnds, ChatMoves, Disconnect
<1>11. ASSUME NEW lost \in SUBSET MayDrop, ChatTimesOut(k, lost) PROVE TypeInv'
    BY <1>11 DEF ChatTimesOut, ChatMoves, Disconnect
<1> HIDE DEF TypeInv
<1> QED
    BY <1>1, <1>2, <1>3, <1>4, <1>5, <1>6, <1>7, <1>8, <1>9, <1>10, <1>11 DEF ChatStep, ChatTalk

\* Where a search stops there is a client, and the queue without the pair is a
\* queue again.
LEMMA PartnerType ==
    ASSUME TypeInv, NEW r \in Room, Searching(r), NEW i \in PartnerIndex(coda[r])
    PROVE  /\ Actual(r, i) \in Client /\ HeadOf(r) \in Client
           /\ WithoutPair(r, i) \in Seq(Client)
<1>1. coda[r] \in Seq(Client) /\ Len(coda[r]) >= 1
    BY DEF TypeInv, TypeOK, Searching
<1>2. i \in 1..Len(Tail(coda[r]))
    BY DEF PartnerIndex, FirstIndex
<1> QED
    BY <1>1, <1>2, TailType, RemoveAtType DEF Actual, HeadOf, WithoutPair

\* The matcher of a room keeps the types.
LEMMA RoomTypeInv ==
    ASSUME TypeInv, NEW r \in Room, RoomStep(r)
    PROVE  TypeInv'
<1> USE DEF TypeInv, TypeOK, Seated, HandlerPC, WatcherPC, ChatPC,
            roomVars, flagVars, matchVars, threadVars, syncVars
<1>1. CASE RoomSleep(r)
    BY <1>1 DEF RoomSleep
<1>2. CASE RoomFindsNobody(r)
    BY <1>2 DEF RoomFindsNobody
<1>3. CASE RoomDropsBoth(r)
  <2>1. PICK i \in PartnerIndex(coda[r]) :
            /\ coda' = [coda EXCEPT ![r] = WithoutPair(r, i)]
            /\ deletedFromQueue' = [deletedFromQueue EXCEPT ![Actual(r, i)] = TRUE,
                                                            ![HeadOf(r)] = TRUE]
    BY <1>3 DEF RoomDropsBoth
  <2>2. WithoutPair(r, i) \in Seq(Client)
    BY <1>3, <2>1, PartnerType DEF RoomDropsBoth
  <2>3. deletedFromQueue' \in [Client -> BOOLEAN]
    BY <2>1
  <2>4. numeroClients' \in [Room -> Int]
    BY <1>3 DEF RoomDropsBoth
  <2>5. coda' \in [Room -> Seq(Client)]
    BY <2>1, <2>2
  <2> QED BY <1>3, <2>3, <2>4, <2>5 DEF RoomDropsBoth
<1>4. CASE RoomDropsOne(r)
  <2> DEFINE pair(i) == <<Actual(r, i), HeadOf(r)>>
  <2>1. PICK i \in PartnerIndex(coda[r]), n \in {1, 2} :
            /\ coda' = [coda EXCEPT ![r] = Append(WithoutPair(r, i), pair(i)[3 - n])]
            /\ deletedFromQueue' = [deletedFromQueue EXCEPT ![pair(i)[n]] = TRUE]
    BY <1>4 DEF RoomDropsOne
  <2>2. /\ WithoutPair(r, i) \in Seq(Client)
        /\ Actual(r, i) \in Client /\ HeadOf(r) \in Client
    BY <1>4, <2>1, PartnerType DEF RoomDropsOne
  <2>3. pair(i)[3 - n] \in Client
    BY <2>1, <2>2
  <2>4. Append(WithoutPair(r, i), pair(i)[3 - n]) \in Seq(Client)
    BY <2>2, <2>3, AppendProperties
  <2>5. deletedFromQueue' \in [Client -> BOOLEAN]
    BY <2>1
  <2>6. numeroClients' \in [Room -> Int]
    BY <1>4 DEF RoomDropsOne
  <2>7. coda' \in [Room -> Seq(Client)]
    BY <2>1, <2>4
  <2> QED BY <1>4, <2>5, <2>6, <2>7 DEF RoomDropsOne
<1>5. ASSUME NEW k \in Chat, NEW lost \in SUBSET MayDrop, RoomStartsChat(r, k, lost)
      PROVE  TypeInv'
  <2>1. PICK i \in PartnerIndex(coda[r]) :
            /\ coda' = [coda EXCEPT ![r] = WithoutPair(r, i)]
            /\ matchedRoom' = [matchedRoom EXCEPT ![Actual(r, i)] = r, ![HeadOf(r)] = r]
            /\ client1' = [client1 EXCEPT ![k] = Actual(r, i)]
            /\ client2' = [client2 EXCEPT ![k] = HeadOf(r)]
    BY <1>5 DEF RoomStartsChat
  <2>2. /\ WithoutPair(r, i) \in Seq(Client)
        /\ Actual(r, i) \in Client /\ HeadOf(r) \in Client
    BY <1>5, <2>1, PartnerType DEF RoomStartsChat
  <2> QED BY <1>5, <2>1, <2>2 DEF RoomStartsChat, Disconnect
<1> HIDE DEF TypeInv
<1> QED
    BY <1>1, <1>2, <1>3, <1>4, <1>5 DEF RoomStep

\* Every step keeps the types.
LEMMA NextTypeInv == TypeInv /\ [Next]_vars => TypeInv'
<1> SUFFICES ASSUME TypeInv, [Next]_vars PROVE TypeInv'
    OBVIOUS
<1>1. CASE Next
    BY <1>1, RoomTypeInv, HandlerTypeInv, UserTypeInv, ChatTypeInv DEF Next
<1>2. CASE UNCHANGED vars
    BY <1>2 DEF TypeInv, TypeOK, Seated, vars, roomVars, flagVars, matchVars, threadVars,
                syncVars
<1> QED BY <1>1, <1>2

\* Every variable of the server always has a value of its type, and every chat
\* that exists has two clients.
THEOREM Typing == Spec => [](TypeOK /\ Seated)
<1>1. Init => TypeInv
    BY InitTypeInv
<1>2. TypeInv /\ [Next]_vars => TypeInv'
    BY NextTypeInv
<1> QED BY <1>1, <1>2, PTL DEF Spec, TypeInv

-----------------------------------------------------------------------------
(***************************************************************************)
(* Who holds the clients' mutexes, and what it is for: the announcement of *)
(* a match is not lost, and a match that is announced is one a chat will   *)
(* take back.                                                              *)
(***************************************************************************)

\* The two waits of gestisciChat are on two different clients: ChatConfirms1
\* takes one mutex and gives back another.
Distinct ==
    \A k \in Chat : chatPC[k] \in {"confirm1", "confirm2"} => client1[k] # client2[k]

LockInv == LockDiscipline /\ Distinct

\* The places of the handlers and of the chats that rely on a mutex.
HandlerHolds == {"block", "park_block"}
ChatHolds    == {"lock2", "confirm1", "confirm2"}

-----------------------------------------------------------------------------
\* A step that leaves the owners alone and brings no thread to a place that
\* relies on one.
LEMMA LockFrame ==
    ASSUME LockInv,
           UNCHANGED owner,
           \A c \in Client : pc'[c] \in HandlerHolds => pc'[c] = pc[c],
           \A k \in Chat : chatPC'[k] \in ChatHolds =>
               chatPC'[k] = chatPC[k] /\ client1'[k] = client1[k] /\ client2'[k] = client2[k]
    PROVE  LockInv'
  BY DEF LockInv, LockDiscipline, Distinct, HandlerHolds, ChatHolds

\* A handler keeps the discipline.
LEMMA HandlerLockInv ==
    ASSUME TypeInv, LockInv, NEW c \in Client, HandlerStep(c)
    PROVE  LockInv'
<1> USE DEF threadVars, syncVars
<1>1. pc \in [Client -> HandlerPC] /\ owner \in [Client -> Client \cup Chat \cup {NoThread}]
    BY DEF TypeInv, TypeOK
<1>2. ASSUME NEW from, NEW to \in HandlerHolds, TestsAndBlocks(c, from, to) PROVE LockInv'
  <2>1. /\ UNCHANGED <<chatPC, client1, client2>>
        /\ owner[c] = NoThread /\ owner' = [owner EXCEPT ![c] = c]
        /\ pc' = [pc EXCEPT ![c] = to]
    BY <1>2 DEF TestsAndBlocks, Moves, CanLock
  <2>2. \A d \in Client : owner[d] # NoThread => owner'[d] = owner[d]
    BY <1>1, <2>1
  <2>3. \A k \in Chat : chatPC[k] \in ChatHolds => client1[k] \in Client /\ client2[k] \in Client
    BY DEF TypeInv, Seated, ChatHolds
  <2> QED
    BY <1>1, <2>1, <2>2, <2>3, ConstantsAssumption
    DEF LockInv, LockDiscipline, Distinct, HandlerHolds, ChatHolds
<1>3. ASSUME NEW from \in HandlerHolds, NEW to, to \notin HandlerHolds, Blocks(c, from, to)
      PROVE  LockInv'
  <2>1. /\ UNCHANGED <<chatPC, client1, client2>>
        /\ pc[c] \in HandlerHolds /\ owner' = [owner EXCEPT ![c] = NoThread]
        /\ pc' = [pc EXCEPT ![c] = to]
    BY <1>3 DEF Blocks, Moves
  <2>2. owner[c] = c
    BY <2>1 DEF LockInv, LockDiscipline, HandlerHolds
  <2>3. \A d \in Client : owner[d] # c => owner'[d] = owner[d]
    BY <1>1, <2>1, <2>2
  <2>4. \A k \in Chat : chatPC[k] \in ChatHolds => client1[k] \in Client /\ client2[k] \in Client
    BY DEF TypeInv, Seated, ChatHolds
  <2> QED
    BY <1>1, <1>3, <2>1, <2>2, <2>3, <2>4, ConstantsAssumption
    DEF LockInv, LockDiscipline, Distinct, HandlerHolds, ChatHolds
<1>4. ASSUME UNCHANGED <<chatPC, client1, client2, owner>>,
             NEW from, NEW to, to \notin HandlerHolds, Moves(c, from, to)
      PROVE  LockInv'
    BY <1>1, <1>4, LockFrame DEF Moves
<1>5. CASE AwaitTest(c)
    BY <1>2, <1>5 DEF AwaitTest, HandlerHolds
<1>6. CASE ParkTest(c)
    BY <1>2, <1>6 DEF ParkTest, HandlerHolds
<1>7. CASE AwaitBlock(c)
    BY <1>3, <1>7 DEF AwaitBlock, HandlerHolds
<1>8. CASE ParkBlock(c)
    BY <1>3, <1>8 DEF ParkBlock, HandlerHolds
<1>9. ASSUME NEW lost \in SUBSET {c},
             \/ AnswersFull(c, lost) \/ AnswersSpace(c, lost) \/ DispatchStopped(c, lost)
             \/ DispatchMatched(c, lost) \/ AfterChat(c, lost)
      PROVE  LockInv'
    BY <1>4, <1>9 DEF AnswersFull, AnswersSpace, Answered, DispatchStopped, DispatchMatched,
       AfterChat, HandlerHolds
<1>10. CASE FindsFull(c) \/ FindsSpace(c) \/ Feedback(c) \/ NoFeedback(c) \/ Enqueue(c)
    BY <1>4, <1>10 DEF FindsFull, FindsSpace, FindsRoom, Feedback, NoFeedback, Enqueue,
       HandlerHolds
<1>11. CASE AwaitOver(c) \/ ParkOver(c) \/ Exit(c)
    BY <1>4, <1>11 DEF AwaitOver, ParkOver, TestsAndGoesOn, Exit, HandlerHolds
<1>12. CASE DispatchDropped(c) \/ DropDelete(c) \/ DropSignal(c) \/ DropJoin(c)
    BY <1>4, <1>12 DEF DispatchDropped, DropDelete, LeavesQueue, DropSignal, DropJoin, Joins,
       HandlerHolds
<1>13. CASE StopDelete(c) \/ StopJoin(c) \/ MatchJoin(c)
    BY <1>4, <1>13 DEF StopDelete, LeavesQueue, StopJoin, MatchJoin, Joins, HandlerHolds
<1>14. CASE Leave(c) \/ LeaveNowhere(c) \/ Forget(c)
    BY <1>4, <1>14 DEF Leave, LeaveNowhere, Forget, NextRound, HandlerHolds
<1> QED
    BY <1>5, <1>6, <1>7, <1>8, <1>9, <1>10, <1>11, <1>12, <1>13, <1>14 DEF HandlerStep

\* So do the watcher, the user and the matcher of a room: they take no mutex.
LEMMA OtherLockInv ==
    ASSUME TypeInv, LockInv,
           \/ \E c \in Client : WatcherStep(c) \/ UserStep(c)
           \/ \E r \in Room : RoomStep(r)
    PROVE  LockInv'
<1> USE DEF threadVars, syncVars
<1>1. /\ pc \in [Client -> HandlerPC] /\ chatPC \in [Chat -> ChatPC]
      /\ client1 \in [Chat -> Client \cup {NoThread}]
      /\ client2 \in [Chat -> Client \cup {NoThread}]
    BY DEF TypeInv, TypeOK
<1>2. ASSUME UNCHANGED <<chatPC, client1, client2, owner>>,
             NEW c \in Client,
             \/ UNCHANGED pc
             \/ \E from \in HandlerPC, to \in HandlerPC \ HandlerHolds : Moves(c, from, to)
      PROVE  LockInv'
    BY <1>1, <1>2, LockFrame DEF Moves
<1>3. ASSUME NEW c \in Client, WatcherStep(c) PROVE LockInv'
    BY <1>2, <1>3 DEF WatcherStep, WatchOK, WatchTests, WatchSignal
<1>4. ASSUME NEW c \in Client, UserStep(c) PROVE LockInv'
    BY <1>2, <1>4 DEF UserStep, ChooseRoom, Quit, Vanish, WatchStop, WatchDrop,
                      HandlerPC, HandlerHolds
<1>5. ASSUME NEW r \in Room, RoomStep(r) PROVE LockInv'
  <2>1. ASSUME NEW k \in Chat, NEW lost \in SUBSET MayDrop, RoomStartsChat(r, k, lost)
        PROVE  LockInv'
    <3>1. /\ UNCHANGED <<owner, pc>>
          /\ chatPC' = [chatPC EXCEPT ![k] = "lock1"]
          /\ \A j \in Chat : j # k => client1'[j] = client1[j] /\ client2'[j] = client2[j]
      BY <1>1, <2>1 DEF RoomStartsChat
    <3> QED BY <1>1, <3>1, LockFrame DEF ChatHolds
  <2>2. CASE RoomSleep(r) \/ RoomFindsNobody(r) \/ RoomDropsBoth(r) \/ RoomDropsOne(r)
    <3>1. UNCHANGED <<pc, chatPC, client1, client2, owner>>
      BY <2>2 DEF RoomSleep, RoomFindsNobody, RoomDropsBoth, RoomDropsOne
    <3> QED BY <3>1, LockFrame
  <2> QED BY <1>5, <2>1, <2>2 DEF RoomStep
<1> QED BY <1>3, <1>4, <1>5

\* So does a chat, which takes two mutexes one after the other and exchanges
\* them in its waits.
LEMMA ChatLockInv ==
    ASSUME TypeInv, LockInv, NEW k \in Chat, ChatStep(k) \/ ChatTalk(k)
    PROVE  LockInv'
<1> USE DEF threadVars, syncVars
<1> DEFINE c1 == client1[k]
           c2 == client2[k]
<1>1. /\ pc \in [Client -> HandlerPC] /\ chatPC \in [Chat -> ChatPC]
      /\ owner \in [Client -> Client \cup Chat \cup {NoThread}]
      /\ client1 \in [Chat -> Client \cup {NoThread}]
      /\ client2 \in [Chat -> Client \cup {NoThread}]
    BY DEF TypeInv, TypeOK
<1>2. \A j \in Chat : chatPC[j] # "free" => client1[j] \in Client /\ client2[j] \in Client
    BY DEF TypeInv, Seated
<1>3. Client \cap Chat = {} /\ NoThread \notin Client \cup Chat
    BY ConstantsAssumption
<1>4. ASSUME UNCHANGED <<owner, pc, client1, client2>>,
             NEW from, NEW to, to \notin ChatHolds, ChatMoves(k, from, to)
      PROVE  LockInv'
    BY <1>1, <1>4, LockFrame DEF ChatMoves
<1>5. CASE ChatLock1(k)
  <2>1. /\ UNCHANGED <<pc, client1, client2>> /\ c1 \in Client
        /\ owner[c1] = NoThread /\ owner' = [owner EXCEPT ![c1] = k]
        /\ chatPC' = [chatPC EXCEPT ![k] = "lock2"]
    BY <1>2, <1>5 DEF ChatLock1, ChatMoves, CanLock
  <2>2. \A d \in Client : owner[d] # NoThread => owner'[d] = owner[d]
    BY <1>1, <2>1
  <2> QED
    BY <1>1, <1>2, <1>3, <2>1, <2>2 DEF LockInv, LockDiscipline, Distinct
<1>6. CASE ChatCancelled(k)
  <2>1. /\ UNCHANGED pc /\ c1 \in Client /\ chatPC[k] = "lock2"
        /\ owner' = [owner EXCEPT ![c1] = NoThread]
        /\ chatPC' = [chatPC EXCEPT ![k] = "free"]
        /\ \A j \in Chat : j # k => client1'[j] = client1[j] /\ client2'[j] = client2[j]
    BY <1>1, <1>2, <1>6 DEF ChatCancelled, ChatExits, ChatMoves
  <2>2. owner[c1] = k
    BY <2>1 DEF LockInv, LockDiscipline
  <2>3. \A d \in Client : owner[d] # k => owner'[d] = owner[d]
    BY <1>1, <2>1, <2>2
  <2> QED
    BY <1>1, <1>2, <1>3, <2>1, <2>3 DEF LockInv, LockDiscipline, Distinct
<1>7. CASE ChatMarks(k)
  <2>1. /\ UNCHANGED <<pc, client1, client2>> /\ c1 \in Client /\ c2 \in Client
        /\ c1 # c2 /\ chatPC[k] = "lock2" /\ owner[c2] = NoThread
        /\ owner' = [owner EXCEPT ![c1] = NoThread, ![c2] = k]
        /\ chatPC' = [chatPC EXCEPT ![k] = "confirm1"]
    BY <1>2, <1>7 DEF ChatMarks, ChatMoves, CanLock
  <2>2. owner[c1] = k
    BY <2>1 DEF LockInv, LockDiscipline
  <2>3. \A d \in Client : owner[d] \notin {k, NoThread} => owner'[d] = owner[d]
    BY <1>1, <2>1, <2>2
  <2> QED
    BY <1>1, <1>2, <1>3, <2>1, <2>3 DEF LockInv, LockDiscipline, Distinct
<1>8. CASE ChatConfirms1(k)
  <2>1. /\ UNCHANGED <<pc, client1, client2>> /\ c1 \in Client /\ c2 \in Client
        /\ chatPC[k] = "confirm1" /\ owner[c1] = NoThread
        /\ owner' = [owner EXCEPT ![c1] = k, ![c2] = NoThread]
        /\ chatPC' = [chatPC EXCEPT ![k] = "confirm2"]
    BY <1>2, <1>8 DEF ChatConfirms1, ChatMoves, CanLock
  <2>2. owner[c2] = k /\ c1 # c2
    BY <2>1 DEF LockInv, LockDiscipline, Distinct
  <2>3. \A d \in Client : owner[d] \notin {k, NoThread} => owner'[d] = owner[d]
    BY <1>1, <2>1, <2>2
  <2> QED
    BY <1>1, <1>2, <1>3, <2>1, <2>2, <2>3 DEF LockInv, LockDiscipline, Distinct
<1>9. CASE ChatConfirms2(k)
  <2>1. /\ UNCHANGED <<pc, client1, client2>> /\ c1 \in Client /\ chatPC[k] = "confirm2"
        /\ owner' = [owner EXCEPT ![c1] = NoThread]
        /\ chatPC' = [chatPC EXCEPT ![k] = "greet"]
    BY <1>2, <1>9 DEF ChatConfirms2, ChatMoves
  <2>2. owner[c1] = k
    BY <2>1 DEF LockInv, LockDiscipline
  <2>3. \A d \in Client : owner[d] # k => owner'[d] = owner[d]
    BY <1>1, <2>1, <2>2
  <2> QED
    BY <1>1, <1>2, <1>3, <2>1, <2>3 DEF LockInv, LockDiscipline, Distinct
<1>10. ASSUME NEW lost \in SUBSET MayDrop,
              ChatGreets(k, lost) \/ ChatEnds(k, lost) \/ ChatTimesOut(k, lost)
       PROVE  LockInv'
    BY <1>4, <1>10 DEF ChatGreets, ChatEnds, ChatTimesOut, ChatHolds
<1>11. CASE ChatCloses1(k) \/ ChatCloses2(k) \/ ChatWakes2(k)
    BY <1>4, <1>11 DEF ChatCloses1, ChatCloses2, Unmarks, ChatWakes2, ChatHolds
<1>12. CASE ChatWakes1(k)
  <2>1. /\ UNCHANGED <<owner, pc>> /\ chatPC' = [chatPC EXCEPT ![k] = "free"]
        /\ \A j \in Chat : j # k => client1'[j] = client1[j] /\ client2'[j] = client2[j]
    BY <1>1, <1>12 DEF ChatWakes1, ChatExits, ChatMoves
  <2> QED BY <1>1, <2>1, LockFrame DEF ChatHolds
<1> QED
    BY <1>5, <1>6, <1>7, <1>8, <1>9, <1>10, <1>11, <1>12 DEF ChatStep, ChatTalk

\* Every step keeps the discipline.
LEMMA NextLockInv == TypeInv /\ LockInv /\ [Next]_vars => LockInv'
<1> SUFFICES ASSUME TypeInv, LockInv, [Next]_vars PROVE LockInv'
    OBVIOUS
<1>1. CASE Next
    BY <1>1, HandlerLockInv, OtherLockInv, ChatLockInv DEF Next
<1>2. CASE UNCHANGED vars
    BY <1>2, LockFrame DEF vars, threadVars, syncVars
<1> QED BY <1>1, <1>2

\* A handler that is about to wait holds its client's mutex, and a chat holds
\* the mutexes its next step relies on, in every state of the server.
THEOREM Locking == Spec => []LockDiscipline
<1>1. Init => LockInv
    BY DEF Init, LockInv, LockDiscipline, Distinct
<1>2. TypeInv /\ LockInv /\ [Next]_vars => LockInv'
    BY NextLockInv
<1>3. Init => TypeInv
    BY InitTypeInv
<1>4. TypeInv /\ [Next]_vars => TypeInv'
    BY NextTypeInv
<1>5. LockInv => LockDiscipline
    BY DEF LockInv
<1> QED BY <1>1, <1>2, <1>3, <1>4, <1>5, PTL DEF Spec

-----------------------------------------------------------------------------
\* Only ChatMarks marks a client as matched, and only those of its pair.
LEMMA OnlyChatMarks ==
    ASSUME TypeInv, Next, NEW c \in Client, ~isMatched[c], isMatched'[c]
    PROVE  \E k \in Chat : ChatMarks(k) /\ c \in ChatPair(k)
<1> USE DEF flagVars, otherFlags
<1>1. isMatched \in [Client -> BOOLEAN]
    BY DEF TypeInv, TypeOK
<1>2. ASSUME NEW d \in Client, HandlerStep(d) PROVE FALSE
  <2>1. UNCHANGED isMatched
    BY <1>2 DEF HandlerStep, FindsFull, FindsSpace, FindsRoom, AnswersFull, AnswersSpace, Answered,
       LosesOnly, DispatchStopped,
       DispatchMatched, AfterChat, Feedback, NoFeedback, Enqueue, AwaitTest, AwaitBlock,
       AwaitOver, TestsAndBlocks, Blocks, TestsAndGoesOn, DispatchDropped, DropDelete,
       LeavesQueue, DropSignal, DropJoin, StopDelete, StopJoin, MatchJoin, ParkTest,
       ParkBlock, ParkOver, Leave, LeaveNowhere, Forget, Exit
  <2> QED BY <2>1
<1>3. ASSUME NEW d \in Client, WatcherStep(d) \/ UserStep(d) PROVE FALSE
  <2>1. UNCHANGED isMatched
    BY <1>3 DEF WatcherStep, WatchOK, WatchTests, WatchSignal, UserStep, ChooseRoom, Quit, Vanish,
       WatchStop, WatchDrop
  <2> QED BY <2>1
<1>4. ASSUME NEW r \in Room, RoomStep(r) PROVE FALSE
  <2>1. UNCHANGED isMatched
    BY <1>4 DEF RoomStep, RoomSleep, RoomFindsNobody, RoomDropsBoth, RoomDropsOne,
       RoomStartsChat
  <2> QED BY <2>1
<1>5. ASSUME NEW k \in Chat, ChatStep(k) \/ ChatTalk(k)
      PROVE  ChatMarks(k) /\ c \in ChatPair(k)
  <2>1. CASE ChatMarks(k)
    <3>1. isMatched' = [isMatched EXCEPT ![client1[k]] = TRUE, ![client2[k]] = TRUE]
      BY <2>1 DEF ChatMarks
    <3> QED BY <1>1, <2>1, <3>1 DEF ChatPair
  <2>2. CASE ChatCloses1(k) \/ ChatCloses2(k)
    BY <1>1, <2>2 DEF ChatCloses1, ChatCloses2, Unmarks
  <2>3. CASE \/ ChatLock1(k) \/ ChatCancelled(k) \/ ChatConfirms1(k) \/ ChatConfirms2(k)
             \/ (\E lost \in SUBSET MayDrop : ChatGreets(k, lost))
             \/ ChatWakes2(k) \/ ChatWakes1(k) \/ ChatTalk(k)
    <3>1. UNCHANGED isMatched
      BY <2>3 DEF ChatLock1, ChatCancelled, ChatConfirms1, ChatConfirms2, ChatGreets,
         ChatWakes2, ChatWakes1, ChatTalk, ChatEnds, ChatTimesOut
    <3> QED BY <3>1
  <2> QED BY <1>5, <2>1, <2>2, <2>3 DEF ChatStep
<1> QED BY <1>2, <1>3, <1>4, <1>5 DEF Next

\* The announcement of a match never falls between a handler's test of
\* isMatched and its wait: at that place the handler holds the mutex that the
\* chat that announces it has taken.
THEOREM Announcing == Spec => NoMissedMatch
<1>1. ASSUME TypeInv, LockInv, [Next]_vars
      PROVE  [\A c \in Client : ~isMatched[c] /\ isMatched'[c] => pc[c] # "block"]_vars
  <2>1. SUFFICES ASSUME Next, NEW c \in Client, ~isMatched[c], isMatched'[c], pc[c] = "block"
                 PROVE  FALSE
    BY <1>1
  <2>2. PICK k \in Chat : ChatMarks(k) /\ c \in ChatPair(k)
    BY <1>1, <2>1, OnlyChatMarks
  <2>3. owner[c] = c
    BY <1>1, <2>1 DEF LockInv, LockDiscipline
  <2>4. owner[client1[k]] = k /\ owner[client2[k]] = NoThread
    BY <1>1, <2>2 DEF ChatMarks, ChatMoves, CanLock, LockInv, LockDiscipline
  <2> QED
    BY <2>2, <2>3, <2>4, ConstantsAssumption DEF ChatPair
<1>2. Init => TypeInv
    BY InitTypeInv
<1>3. TypeInv /\ [Next]_vars => TypeInv'
    BY NextTypeInv
<1>4. Init => LockInv
    BY DEF Init, LockInv, LockDiscipline, Distinct
<1>5. TypeInv /\ LockInv /\ [Next]_vars => LockInv'
    BY NextLockInv
<1> QED BY <1>1, <1>2, <1>3, <1>4, <1>5, PTL DEF Spec, NoMissedMatch

-----------------------------------------------------------------------------
\* The places of a chat that has marked its pair and cleared neither mark.
Marking == {"confirm1", "confirm2", "greet", "talk", "close"}

\* A chat that has marked its pair keeps it until it clears the marks, one by one.
LEMMA KeepsPair ==
    ASSUME TypeInv, Next, NEW k \in Chat, chatPC[k] \in Marking \cup {"close2"}
    PROVE  \/ /\ chatPC[k] \in Marking => chatPC'[k] \in Marking
              /\ chatPC[k] = "close2" => chatPC'[k] = "close2"
              /\ client1'[k] = client1[k] /\ client2'[k] = client2[k]
           \/ ChatCloses1(k) \/ ChatCloses2(k)
<1> USE DEF threadVars, Marking
<1>1. /\ chatPC \in [Chat -> ChatPC]
      /\ client1 \in [Chat -> Client \cup {NoThread}]
      /\ client2 \in [Chat -> Client \cup {NoThread}]
    BY DEF TypeInv, TypeOK
<1> DEFINE Keeps == /\ chatPC[k] \in Marking => chatPC'[k] \in Marking
                    /\ chatPC[k] = "close2" => chatPC'[k] = "close2"
                    /\ client1'[k] = client1[k] /\ client2'[k] = client2[k]
<1>2. ASSUME NEW d \in Client, HandlerStep(d) PROVE Keeps
  <2>1. UNCHANGED <<chatPC, client1, client2>>
    BY <1>2 DEF HandlerStep, FindsFull, FindsSpace, FindsRoom, AnswersFull, AnswersSpace, Answered,
       DispatchStopped,
       DispatchMatched, AfterChat, Feedback, NoFeedback, Enqueue, AwaitTest, AwaitBlock,
       AwaitOver, TestsAndBlocks, Blocks, TestsAndGoesOn, DispatchDropped, DropDelete,
       LeavesQueue, DropSignal, DropJoin, StopDelete, StopJoin, MatchJoin, ParkTest,
       ParkBlock, ParkOver, Leave, LeaveNowhere, Forget, Exit
  <2> QED BY <2>1
<1>3. ASSUME NEW d \in Client, WatcherStep(d) \/ UserStep(d) PROVE Keeps
  <2>1. UNCHANGED <<chatPC, client1, client2>>
    BY <1>3 DEF WatcherStep, WatchOK, WatchTests, WatchSignal, UserStep, ChooseRoom, Quit, Vanish,
       WatchStop, WatchDrop
  <2> QED BY <2>1
<1>4. ASSUME NEW r \in Room, RoomStep(r) PROVE Keeps
  <2>1. CASE RoomSleep(r) \/ RoomFindsNobody(r) \/ RoomDropsBoth(r) \/ RoomDropsOne(r)
    BY <2>1 DEF RoomSleep, RoomFindsNobody, RoomDropsBoth, RoomDropsOne
  <2>2. ASSUME NEW j \in Chat, NEW lost \in SUBSET MayDrop, RoomStartsChat(r, j, lost)
        PROVE  Keeps
    <3>1. j # k
      BY <2>2 DEF RoomStartsChat
    <3>2. /\ chatPC' = [chatPC EXCEPT ![j] = "lock1"]
          /\ \A i \in Chat : i # j => client1'[i] = client1[i] /\ client2'[i] = client2[i]
      BY <1>1, <2>2 DEF RoomStartsChat
    <3> QED BY <1>1, <3>1, <3>2
  <2> QED BY <1>4, <2>1, <2>2 DEF RoomStep
<1>5. ASSUME NEW j \in Chat, ChatStep(j) \/ ChatTalk(j) PROVE Keeps \/ ChatCloses1(k) \/ ChatCloses2(k)
  <2>1. CASE ChatLock1(j) \/ ChatMarks(j) \/ ChatConfirms1(j) \/ ChatConfirms2(j)
    BY <1>1, <2>1 DEF ChatLock1, ChatMarks, ChatConfirms1, ChatConfirms2, ChatMoves
  <2>2. CASE (\E lost \in SUBSET MayDrop : ChatGreets(j, lost)) \/ ChatTalk(j)
    BY <1>1, <2>2 DEF ChatGreets, ChatTalk, ChatEnds, ChatTimesOut, ChatMoves
  <2>3. CASE ChatCloses1(j) \/ ChatCloses2(j) \/ ChatWakes2(j)
    BY <1>1, <2>3 DEF ChatCloses1, ChatCloses2, Unmarks, ChatWakes2, ChatMoves
  <2>4. CASE ChatCancelled(j) \/ ChatWakes1(j)
    BY <1>1, <2>4 DEF ChatCancelled, ChatWakes1, ChatExits, ChatMoves
  <2> QED BY <1>5, <2>1, <2>2, <2>3, <2>4 DEF ChatStep
<1> QED BY <1>2, <1>3, <1>4, <1>5 DEF Next

\* A client that is marked as matched has a chat that will clear the mark: no
\* client waits in ParkTest for a chat that is no more.
THEOREM Matching == Spec => []MatchedHasChat
<1>1. Init => MatchedHasChat
    BY DEF Init, MatchedHasChat
<1>2. ASSUME TypeInv, MatchedHasChat, [Next]_vars PROVE MatchedHasChat'
  <2>1. CASE UNCHANGED vars
    BY <1>2, <2>1 DEF MatchedHasChat, ChatPair, vars, flagVars, threadVars
  <2>2. ASSUME Next, NEW c \in Client, isMatched'[c]
        PROVE  \E k \in Chat : \/ c \in ChatPair(k)' /\ chatPC'[k] \in Marking
                               \/ c = client2'[k] /\ chatPC'[k] = "close2"
    <3>1. CASE isMatched[c]
      <4>1. PICK k \in Chat : \/ c \in ChatPair(k) /\ chatPC[k] \in Marking
                              \/ c = client2[k] /\ chatPC[k] = "close2"
        BY <1>2, <3>1 DEF MatchedHasChat, Marking
      <4>2. /\ isMatched \in [Client -> BOOLEAN] /\ chatPC \in [Chat -> ChatPC]
        BY <1>2 DEF TypeInv, TypeOK
      <4>3. CASE ChatCloses1(k)
        <5>1. c = client2[k]
          BY <2>2, <4>1, <4>2, <4>3 DEF ChatCloses1, Unmarks, ChatMoves, ChatPair
        <5>2. chatPC'[k] = "close2" /\ client2'[k] = client2[k]
          BY <4>2, <4>3 DEF ChatCloses1, Unmarks, ChatMoves
        <5> QED BY <5>1, <5>2
      <4>4. ~ChatCloses2(k)
        BY <2>2, <4>1, <4>2 DEF ChatCloses2, Unmarks, ChatMoves, Marking
      <4>5. CASE ~ChatCloses1(k)
        <5>1. /\ chatPC[k] \in Marking => chatPC'[k] \in Marking
              /\ chatPC[k] = "close2" => chatPC'[k] = "close2"
              /\ client1'[k] = client1[k] /\ client2'[k] = client2[k]
          BY <1>2, <2>2, <4>1, <4>4, <4>5, KeepsPair
        <5> QED BY <4>1, <5>1 DEF ChatPair
      <4> QED BY <4>3, <4>5
    <3>2. CASE ~isMatched[c]
      <4>1. PICK k \in Chat : ChatMarks(k) /\ c \in ChatPair(k)
        BY <1>2, <2>2, <3>2, OnlyChatMarks
      <4>2. chatPC' = [chatPC EXCEPT ![k] = "confirm1"] /\ UNCHANGED <<client1, client2>>
        BY <4>1 DEF ChatMarks, ChatMoves
      <4>3. chatPC'[k] = "confirm1"
        BY <1>2, <4>2 DEF TypeInv, TypeOK
      <4> QED BY <4>1, <4>2, <4>3 DEF ChatPair, Marking
    <3> QED BY <3>1, <3>2
  <2> QED BY <1>2, <2>1, <2>2 DEF MatchedHasChat, Marking
<1>3. Init => TypeInv
    BY InitTypeInv
<1>4. TypeInv /\ [Next]_vars => TypeInv'
    BY NextTypeInv
<1> QED BY <1>1, <1>2, <1>3, <1>4, PTL DEF Spec
=============================================================================
