---------------------------- MODULE ClientThread ----------------------------
(***************************************************************************)
(* gestisciClient, the handler of one client, from the menu to the end of  *)
(* its thread, and checkConnectionClient, the watcher it starts for each   *)
(* wait in a queue.  The dialogue with the client program is reduced to    *)
(* its outcomes: a reply arrives, or it does not, the connection is lost   *)
(* or the 20 seconds of the socket's timer are over (clients of MayDrop).  *)
(***************************************************************************)
EXTENDS ChatServer, QueueOps

Moves(c, from, to) ==
    /\ pc[c] = from
    /\ pc' = [pc EXCEPT ![c] = to]

\* isConnected of c becomes FALSE exactly if c is in lost.
LosesOnly(c, lost) ==
    /\ lost \subseteq {c} \cap MayDrop
    /\ isConnected' = Disconnect(lost)

otherFlags == <<isMatched, stopWaiting, chatTimedout, deletedFromQueue>>

-----------------------------------------------------------------------------
(***************************************************************************)
(* The menu and the test whether the room is full.                         *)
(***************************************************************************)

\* The user asks for the list of the rooms and picks one.
ChooseRoom(c, r) ==
    /\ Moves(c, "menu", "check")
    /\ isConnected[c]
    /\ numeroClients[r] >= CountFloor
    /\ choice' = [choice EXCEPT ![c] = r]
    /\ UNCHANGED <<roomVars, flagVars, currentRoom, matchedRoom, matchedAddress,
                   watcher, chatPC, client1, client2, syncVars>>

\* The user picks the entry that leaves the server.
Quit(c) ==
    /\ Moves(c, "menu", "leave")
    /\ isConnected' = Disconnect({c})
    /\ UNCHANGED <<roomVars, otherFlags, matchVars, watcher, chatPC, client1, client2, syncVars>>

\* The dialogue fails: its breaks skip the lines that leave the room.
Vanish(c) ==
    /\ Moves(c, "menu", "exit")
    /\ c \in MayDrop \/ ~isConnected[c]
    /\ isConnected' = Disconnect({c})
    /\ UNCHANGED <<roomVars, otherFlags, matchVars, watcher, chatPC, client1, client2, syncVars>>

\* The occupancy is tested under the room's mutex.
IsFull(r) == numeroClients[r] = MaxClients

FindsRoom(c, to) ==
    /\ Moves(c, "check", to)
    /\ UNCHANGED <<roomVars, flagVars, matchVars, watcher, chatPC, client1, client2, syncVars>>

FindsFull(c)  == FindsRoom(c, "refuse") /\ IsFull(choice[c])
FindsSpace(c) == FindsRoom(c, "admit") /\ ~IsFull(choice[c])

\* The answer is sent when the mutex has been released, whoever has left the
\* room or entered it by then; the client is counted later, by Enqueue.
Answered(c, from, lost, to) ==
    /\ Moves(c, from, IF isConnected[c] /\ c \notin lost THEN to ELSE "exit")
    /\ LosesOnly(c, lost)
    /\ UNCHANGED <<roomVars, otherFlags, matchVars, watcher, chatPC, client1, client2, syncVars>>

AnswersFull(c, lost)  == Answered(c, "refuse", lost, "leave")
AnswersSpace(c, lost) == Answered(c, "admit", lost, "feedback")

-----------------------------------------------------------------------------
(***************************************************************************)
(* The inner loop, once per wait in the queue.                             *)
(***************************************************************************)

\* The client confirms and its watcher is started.
Feedback(c) ==
    /\ Moves(c, "feedback", "enqueue")
    /\ isConnected[c]
    /\ watcher' = [watcher EXCEPT ![c] = "reading"]
    /\ UNCHANGED <<roomVars, flagVars, matchVars, chatPC, client1, client2, syncVars>>

\* The confirmation does not come, or something else comes.
NoFeedback(c) ==
    /\ Moves(c, "feedback", "leave")
    /\ c \in MayDrop \/ ~isConnected[c]
    /\ isConnected' = Disconnect({c})
    /\ UNCHANGED <<roomVars, otherFlags, matchVars, watcher, chatPC, client1, client2, syncVars>>

\* A mistake to test the properties with: a client that the chat timer sent
\* back to the queue is counted once more.
EnqueueCountsTwice(c) ==
    LET r == choice[c]
    IN  /\ Moves(c, "enqueue", "await")
        /\ coda' = [coda EXCEPT ![r] = Append(@, c)]
        /\ numeroClients' = [numeroClients EXCEPT ![r] = @ + 1]
        /\ chatTimedout' = [chatTimedout EXCEPT ![c] = FALSE]
        /\ currentRoom' = [currentRoom EXCEPT ![c] = r]
        /\ asleep' = [asleep EXCEPT ![r] = FALSE]
        /\ UNCHANGED <<matchNotFound, isConnected, isMatched, stopWaiting, deletedFromQueue,
                       matchedRoom, matchedAddress, choice, watcher, chatPC,
                       client1, client2, syncVars>>

\* Lines 593 to 610: a client that was sent back by the chat timer is still
\* counted in the room and is not counted again.
Enqueue(c) ==
    LET r == choice[c]
    IN  /\ Moves(c, "enqueue", "await")
        /\ coda' = [coda EXCEPT ![r] = Append(@, c)]
        /\ numeroClients' =
               IF chatTimedout[c] THEN numeroClients
                                  ELSE [numeroClients EXCEPT ![r] = @ + 1]
        /\ chatTimedout' = [chatTimedout EXCEPT ![c] = FALSE]
        /\ currentRoom' = [currentRoom EXCEPT ![c] = r]
        /\ asleep' = [asleep EXCEPT ![r] = FALSE]
        /\ UNCHANGED <<matchNotFound, isConnected, isMatched, stopWaiting, deletedFromQueue,
                       matchedRoom, matchedAddress, choice, watcher, chatPC,
                       client1, client2, syncVars>>

\* A mistake to test the properties with: the flags are tested without the
\* mutex.
TestsUnlocked(c, from, to) ==
    /\ Moves(c, from, to)
    /\ UNCHANGED <<roomVars, flagVars, matchVars, watcher, chatPC, client1, client2, syncVars>>

\* A wait on the client's own condition: with the mutex taken the flags are
\* tested; Blocks is pthread_cond_wait.  The flags are written by threads that
\* do not hold the mutex, so they may change between the two.
TestsAndBlocks(c, from, to) ==
    /\ Moves(c, from, to)
    /\ CanLock(c, c)
    /\ owner' = [owner EXCEPT ![c] = c]
    /\ UNCHANGED <<roomVars, flagVars, matchVars, watcher, chatPC, client1, client2, waiters>>

TestsAndGoesOn(c, from, to) ==
    /\ Moves(c, from, to)
    /\ CanLock(c, c)
    /\ UNCHANGED <<roomVars, flagVars, matchVars, watcher, chatPC, client1, client2, syncVars>>

Blocks(c, from, to) ==
    /\ Moves(c, from, to)
    /\ owner' = [owner EXCEPT ![c] = NoThread]
    /\ waiters' = [waiters EXCEPT ![c] = @ \cup {c}]
    /\ UNCHANGED <<roomVars, flagVars, matchVars, watcher, chatPC, client1, client2>>

MustAwait(c) == ~isMatched[c] /\ isConnected[c] /\ ~stopWaiting[c]

AwaitTest(c)  == MustAwait(c) /\ TestsAndBlocks(c, "await", "block")
AwaitBlock(c) == Blocks(c, "block", "await")
AwaitOver(c)  == ~MustAwait(c) /\ TestsAndGoesOn(c, "await", "dispatch")

-----------------------------------------------------------------------------
(***************************************************************************)
(* Out of the wait.  isConnected is tested first, then stopWaiting; the    *)
(* match is what is left.                                                  *)
(***************************************************************************)

\* The test of line 733: another round of the inner loop, or out of the room.
Again(c) == isConnected[c] /\ chatTimedout[c] /\ ~stopWaiting[c]

\* The same after the reset of stopWaiting: a chat that was made while the user
\* typed STOP may have been over, by its timer, before the handler gets here.
AgainAfterStop(c) == isConnected[c] /\ chatTimedout[c]

\* A mistake to test the properties with: the test of deletedFromQueue is the
\* wrong way round.
DispatchInverted(c) ==
    /\ Moves(c, "dispatch", IF deletedFromQueue[c] THEN "drop_delete" ELSE "drop_signal")
    /\ ~isConnected[c]
    /\ UNCHANGED <<roomVars, flagVars, matchVars, watcher, chatPC, client1, client2, syncVars>>

\* Disconnected.  deletedFromQueue is read before the room's mutex is taken.
DispatchDropped(c) ==
    /\ Moves(c, "dispatch", IF deletedFromQueue[c] THEN "drop_signal" ELSE "drop_delete")
    /\ ~isConnected[c]
    /\ UNCHANGED <<roomVars, flagVars, matchVars, watcher, chatPC, client1, client2, syncVars>>

\* The critical section of both deletions: the node that goes is the first one
\* with the client's nickname, if there is one.
LeavesQueue(c, from, to) ==
    LET r == choice[c]
    IN  /\ Moves(c, from, to)
        /\ coda' = [coda EXCEPT ![r] = DeleteNickname(@, NicknameOf[c], NicknameOf)]
        /\ deletedFromQueue' = [deletedFromQueue EXCEPT ![c] = TRUE]
        /\ UNCHANGED <<numeroClients, asleep, matchNotFound, isConnected, isMatched,
                       stopWaiting, chatTimedout, matchVars, watcher, chatPC,
                       client1, client2, syncVars>>

DropDelete(c) == LeavesQueue(c, "drop_delete", "drop_signal")

\* A gestisciChat that already waits for this client's confirmation is woken.
DropSignal(c) ==
    /\ Moves(c, "drop_signal", "drop_join")
    /\ Signal(c)
    /\ UNCHANGED <<roomVars, flagVars, matchVars, watcher, chatPC, client1, client2, owner>>

\* pthread_join of the watcher.
Joins(c, from, to) ==
    /\ Moves(c, from, to)
    /\ watcher[c] = "exited"
    /\ watcher' = [watcher EXCEPT ![c] = "none"]

DropJoin(c) ==
    /\ Joins(c, "drop_join", "leave")
    /\ deletedFromQueue' = [deletedFromQueue EXCEPT ![c] = FALSE]
    /\ UNCHANGED <<roomVars, isConnected, isMatched, stopWaiting, chatTimedout,
                   matchVars, chatPC, client1, client2, syncVars>>

\* The user typed STOP: the client is sent "ST" and leaves the queue.
DispatchStopped(c, lost) ==
    /\ Moves(c, "dispatch", "stop_delete")
    /\ isConnected[c] /\ stopWaiting[c]
    /\ LosesOnly(c, lost)
    /\ UNCHANGED <<roomVars, otherFlags, matchVars, watcher, chatPC, client1, client2, syncVars>>

StopDelete(c) ==
    LeavesQueue(c, "stop_delete", IF isConnected[c] THEN "stop_join" ELSE "leave")

StopJoin(c) ==
    /\ Joins(c, "stop_join", IF AgainAfterStop(c) THEN "feedback" ELSE "leave")
    /\ stopWaiting' = [stopWaiting EXCEPT ![c] = FALSE]
    /\ deletedFromQueue' = [deletedFromQueue EXCEPT ![c] = FALSE]
    /\ UNCHANGED <<roomVars, isConnected, isMatched, chatTimedout,
                   matchVars, chatPC, client1, client2, syncVars>>

\* Matched: the client is sent "OK"; if that fails the handler leaves the room
\* at once, without joining its watcher or confirming to the chat.
DispatchMatched(c, lost) ==
    /\ Moves(c, "dispatch", IF c \in lost THEN "leave" ELSE "match_join")
    /\ isConnected[c] /\ ~stopWaiting[c]
    /\ LosesOnly(c, lost)
    /\ UNCHANGED <<roomVars, otherFlags, matchVars, watcher, chatPC, client1, client2, syncVars>>

\* The watcher is joined and the chat is signalled, without the mutex.
MatchJoin(c) ==
    /\ Joins(c, "match_join", "park")
    /\ Signal(c)
    /\ UNCHANGED <<roomVars, flagVars, matchVars, chatPC, client1, client2, owner>>

\* A mistake to test the properties with: the second condition is inverted.
ParksWhenLost(c) == isMatched[c] /\ ~isConnected[c]

MustPark(c) == isMatched[c] /\ isConnected[c]

ParkTest(c)  == MustPark(c) /\ TestsAndBlocks(c, "park", "park_block")
ParkBlock(c) == Blocks(c, "park_block", "park")
ParkOver(c)  == ~MustPark(c) /\ TestsAndGoesOn(c, "park", "after_chat")

\* Lines 713 to 733: the handler and a client that is still connected exchange
\* one OK; then another round, or out of the room.
AfterChat(c, lost) ==
    /\ Moves(c, "after_chat", IF Again(c) /\ c \notin lost THEN "feedback" ELSE "leave")
    /\ LosesOnly(c, lost)
    /\ UNCHANGED <<roomVars, otherFlags, matchVars, watcher, chatPC, client1, client2, syncVars>>

-----------------------------------------------------------------------------
(***************************************************************************)
(* Out of the room, and out of the server.                                 *)
(***************************************************************************)

\* The test of line 762; the choice is a local of the loop it closes.
NextRound(c) == IF isConnected[c] THEN "menu" ELSE "exit"

\* A mistake to test the properties with: a room is forgotten with the wrong
\* constant.
ForgetsWrongly(c) ==
    /\ Moves(c, "forget", NextRound(c))
    /\ currentRoom' = [currentRoom EXCEPT ![c] = NoAddress]
    /\ choice' = [choice EXCEPT ![c] = NoRoom]
    /\ UNCHANGED <<roomVars, flagVars, matchedRoom, matchedAddress, watcher, chatPC,
                   client1, client2, syncVars>>

\* The room's count is decremented under its mutex; currentRoom, which the
\* matcher of the room reads under that mutex, is reset after it (Forget).
Leave(c) ==
    /\ currentRoom[c] # NoRoom
    /\ Moves(c, "leave", "forget")
    /\ numeroClients' = [numeroClients EXCEPT ![currentRoom[c]] = @ - 1]
    /\ UNCHANGED <<coda, asleep, matchNotFound, flagVars, matchVars, watcher, chatPC,
                   client1, client2, syncVars>>

LeaveNowhere(c) ==
    /\ currentRoom[c] = NoRoom
    /\ Moves(c, "leave", NextRound(c))
    /\ choice' = [choice EXCEPT ![c] = NoRoom]
    /\ UNCHANGED <<roomVars, flagVars, currentRoom, matchedRoom, matchedAddress, watcher,
                   chatPC, client1, client2, syncVars>>

Forget(c) ==
    /\ Moves(c, "forget", NextRound(c))
    /\ currentRoom' = [currentRoom EXCEPT ![c] = NoRoom]
    /\ choice' = [choice EXCEPT ![c] = NoRoom]
    /\ UNCHANGED <<roomVars, flagVars, matchedRoom, matchedAddress, watcher, chatPC,
                   client1, client2, syncVars>>

\* destroyClient.  The memory is freed here; what other threads still read in
\* it afterwards is taken to be what it held last.
Exit(c) ==
    /\ Moves(c, "exit", "gone")
    /\ UNCHANGED <<roomVars, flagVars, matchVars, watcher, chatPC, client1, client2, syncVars>>

-----------------------------------------------------------------------------
(***************************************************************************)
(* checkConnectionClient: reads two bytes, and signals the client's        *)
(* condition without the mutex.                                            *)
(***************************************************************************)

\* "OK": the client program sends it when it has read the OK of line 685.
WatchOK(c) ==
    /\ watcher[c] = "reading"
    /\ pc[c] = "match_join"
    /\ watcher' = [watcher EXCEPT ![c] = "signal"]
    /\ UNCHANGED <<roomVars, flagVars, matchVars, pc, chatPC, client1, client2, syncVars>>

\* "ST": the user stopped waiting; it may have been sent before a match.
WatchStop(c) ==
    /\ watcher[c] = "reading"
    /\ c \in MayStop
    /\ watcher' = [watcher EXCEPT ![c] = "signal"]
    /\ stopWaiting' = [stopWaiting EXCEPT ![c] = TRUE]
    /\ UNCHANGED <<roomVars, isConnected, isMatched, chatTimedout, deletedFromQueue,
                   matchVars, pc, chatPC, client1, client2, syncVars>>

\* The connection is lost.
WatchDrop(c) ==
    /\ watcher[c] = "reading"
    /\ c \in MayDrop
    /\ watcher' = [watcher EXCEPT ![c] = "lost"]
    /\ isConnected' = Disconnect({c})
    /\ UNCHANGED <<roomVars, otherFlags, matchVars, pc, chatPC, client1, client2, syncVars>>

\* The buffer was not written, and line 793 tests it all the same: the stack it
\* is in may still hold the "ST" an earlier watcher read.
WatchTests(c) ==
    /\ watcher[c] = "lost"
    /\ watcher' = [watcher EXCEPT ![c] = "signal"]
    /\ \/ stopWaiting' = stopWaiting
       \/ MayStop # {} /\ stopWaiting' = [stopWaiting EXCEPT ![c] = TRUE]
    /\ UNCHANGED <<roomVars, isConnected, isMatched, chatTimedout, deletedFromQueue,
                   matchVars, pc, chatPC, client1, client2, syncVars>>

WatchSignal(c) ==
    /\ watcher[c] = "signal"
    /\ watcher' = [watcher EXCEPT ![c] = "exited"]
    /\ Signal(c)
    /\ UNCHANGED <<roomVars, flagVars, matchVars, pc, chatPC, client1, client2, owner>>

-----------------------------------------------------------------------------
\* What the users decide: nobody has to do any of it.
UserStep(c) ==
    \/ \E r \in Room : ChooseRoom(c, r)
    \/ Quit(c)
    \/ Vanish(c)
    \/ WatchStop(c)
    \/ WatchDrop(c)

\* The handler's own steps; a reply of the client program comes within the 20
\* seconds of the socket's timer or not at all.
HandlerStep(c) ==
    \/ \E lost \in SUBSET {c} :
          \/ AnswersFull(c, lost)
          \/ AnswersSpace(c, lost)
          \/ DispatchStopped(c, lost)
          \/ DispatchMatched(c, lost)
          \/ AfterChat(c, lost)
    \/ FindsFull(c) \/ FindsSpace(c)
    \/ Feedback(c) \/ NoFeedback(c)
    \/ Enqueue(c)
    \/ AwaitTest(c) \/ AwaitBlock(c) \/ AwaitOver(c)
    \/ DispatchDropped(c) \/ DropDelete(c) \/ DropSignal(c) \/ DropJoin(c)
    \/ StopDelete(c) \/ StopJoin(c)
    \/ MatchJoin(c)
    \/ ParkTest(c) \/ ParkBlock(c) \/ ParkOver(c)
    \/ Leave(c) \/ LeaveNowhere(c) \/ Forget(c) \/ Exit(c)

\* The watcher's own steps: the client program answers the OK of a match.
WatcherStep(c) == WatchOK(c) \/ WatchTests(c) \/ WatchSignal(c)
=============================================================================
