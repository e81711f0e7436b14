----------------------------- MODULE ChatThread -----------------------------
(***************************************************************************)
(* gestisciChat: the thread of one matched pair.  It marks both clients as *)
(* matched, wakes their handlers one after the other and waits for each to *)
(* confirm, relays messages, and at the end releases the handlers.  What   *)
(* is said in the chat is left out: a chat ends by a /STOP, by 35 seconds  *)
(* of silence or a failed select (ChatEnds), by the 60-second timer        *)
(* (ChatTimesOut), or because a socket cannot be read or written (both,    *)
(* with lost not empty).                                                   *)
(***************************************************************************)
EXTENDS ChatServer

\* The thread moves on from where it is.
ChatMoves(k, from, to) ==
    /\ chatPC[k] = from
    /\ chatPC' = [chatPC EXCEPT ![k] = to]

ChatPair(k) == {client1[k], client2[k]}

\* The thread ends: its slot may be used again.
ChatExits(k, from) ==
    /\ ChatMoves(k, from, "free")
    /\ client1' = [client1 EXCEPT ![k] = NoThread]
    /\ client2' = [client2 EXCEPT ![k] = NoThread]

ChatLock1(k) ==
    /\ ChatMoves(k, "lock1", "lock2")
    /\ CanLock(k, client1[k])
    /\ owner' = [owner EXCEPT ![client1[k]] = k]
    /\ UNCHANGED <<roomVars, flagVars, matchVars, pc, watcher, client1, client2, waiters>>

\* A client matched with itself: its error-checking mutex refuses the second
\* lock and the thread is cancelled, releasing the first one.
ChatCancelled(k) ==
    /\ ChatExits(k, "lock2")
    /\ client1[k] = client2[k]
    /\ owner' = [owner EXCEPT ![client1[k]] = NoThread]
    /\ UNCHANGED <<roomVars, flagVars, matchVars, pc, watcher, waiters>>

\* A mistake to test the properties with: only one of the two addresses is kept.
MarksOneAddress(k) ==
    LET c1 == client1[k]
        c2 == client2[k]
    IN  /\ ChatMoves(k, "lock2", "confirm1")
        /\ c1 # c2
        /\ CanLock(k, c2)
        /\ isMatched' = [isMatched EXCEPT ![c1] = TRUE, ![c2] = TRUE]
        /\ matchedAddress' = [matchedAddress EXCEPT ![c1] = AddressOf[c2]]
        /\ owner' = [owner EXCEPT ![c1] = NoThread, ![c2] = k]
        /\ \E w \in Signalled(c1, waiters) : waiters' = [w EXCEPT ![c1] = @ \cup {k}]
        /\ UNCHANGED <<roomVars, isConnected, stopWaiting, chatTimedout, deletedFromQueue,
                       currentRoom, matchedRoom, choice, pc, watcher, client1, client2>>

\* Lines 828 to 841: with both mutexes held the pair is marked, Client1's
\* handler is signalled, and the wait for its confirmation releases the mutex
\* of Client1, not the one of Client2.
ChatMarks(k) ==
    LET c1 == client1[k]
        c2 == client2[k]
    IN  /\ ChatMoves(k, "lock2", "confirm1")
        /\ c1 # c2
        /\ CanLock(k, c2)
        /\ isMatched' = [isMatched EXCEPT ![c1] = TRUE, ![c2] = TRUE]
        /\ matchedAddress' = [matchedAddress EXCEPT ![c1] = AddressOf[c2],
                                                    ![c2] = AddressOf[c1]]
        /\ owner' = [owner EXCEPT ![c1] = NoThread, ![c2] = k]
        /\ \E w \in Signalled(c1, waiters) : waiters' = [w EXCEPT ![c1] = @ \cup {k}]
        /\ UNCHANGED <<roomVars, isConnected, stopWaiting, chatTimedout, deletedFromQueue,
                       currentRoom, matchedRoom, choice, pc, watcher, client1, client2>>

\* A mistake to test the properties with: the handler of the wrong client is
\* signalled.
ConfirmsWrongOne(k) ==
    LET c1 == client1[k]
        c2 == client2[k]
    IN  /\ ChatMoves(k, "confirm1", "confirm2")
        /\ CanLock(k, c1)
        /\ owner' = [owner EXCEPT ![c1] = k, ![c2] = NoThread]
        /\ \E w \in Signalled(c1, waiters) : waiters' = [w EXCEPT ![c2] = @ \cup {k}]
        /\ UNCHANGED <<roomVars, flagVars, matchVars, pc, watcher, client1, client2>>

\* Woken by a signal on Client1's condition, the thread takes Client1's mutex
\* back, signals Client2's handler and waits, releasing Client2's mutex.
ChatConfirms1(k) ==
    LET c1 == client1[k]
        c2 == client2[k]
    IN  /\ ChatMoves(k, "confirm1", "confirm2")
        /\ CanLock(k, c1)
        /\ owner' = [owner EXCEPT ![c1] = k, ![c2] = NoThread]
        /\ \E w \in Signalled(c2, waiters) : waiters' = [w EXCEPT ![c2] = @ \cup {k}]
        /\ UNCHANGED <<roomVars, flagVars, matchVars, pc, watcher, client1, client2>>

\* Woken on Client2's condition, the thread releases both mutexes.
ChatConfirms2(k) ==
    /\ ChatMoves(k, "confirm2", "greet")
    /\ CanLock(k, client2[k])
    /\ owner' = [owner EXCEPT ![client1[k]] = NoThread]
    /\ UNCHANGED <<roomVars, flagVars, matchVars, pc, watcher, client1, client2, waiters>>

\* Lines 856 to 881: each client is sent the other's nickname; the chat goes
\* on only if both are connected after that.
ChatGreets(k, lost) ==
    LET both == \A c \in ChatPair(k) : isConnected[c] /\ c \notin lost
    IN  /\ ChatMoves(k, "greet", IF both THEN "talk" ELSE "close")
        /\ lost \subseteq ChatPair(k) \cap MayDrop
        /\ isConnected' = Disconnect(lost)
        /\ UNCHANGED <<roomVars, isMatched, stopWaiting, chatTimedout, deletedFromQueue,
                       matchVars, pc, watcher, client1, client2, syncVars>>

ChatEnds(k, lost) ==
    /\ ChatMoves(k, "talk", "close")
    /\ lost \subseteq ChatPair(k) \cap MayDrop
    /\ isConnected' = Disconnect(lost)
    /\ UNCHANGED <<roomVars, isMatched, stopWaiting, chatTimedout, deletedFromQueue,
                   matchVars, pc, watcher, client1, client2, syncVars>>

\* SIGUSR1 interrupts select; the clients are to be matched again.
ChatTimesOut(k, lost) ==
    /\ ChatMoves(k, "talk", "close")
    /\ lost \subseteq ChatPair(k) \cap MayDrop
    /\ isConnected' = Disconnect(lost)
    /\ chatTimedout' = [c \in Client |-> chatTimedout[c] \/ c \in ChatPair(k)]
    /\ UNCHANGED <<roomVars, isMatched, stopWaiting, deletedFromQueue,
                   matchVars, pc, watcher, client1, client2, syncVars>>

\* The handlers are told that the chat is over: the flags are cleared without
\* the mutexes, one after the other; then the two conditions are signalled,
\* Client2's first.
Unmarks(k, c, from, to) ==
    /\ ChatMoves(k, from, to)
    /\ isMatched' = [isMatched EXCEPT ![c] = FALSE]
    /\ UNCHANGED <<roomVars, isConnected, stopWaiting, chatTimedout, deletedFromQueue,
                   matchVars, pc, watcher, client1, client2, syncVars>>

ChatCloses1(k) == Unmarks(k, client1[k], "close", "close2")

\* A mistake to test the properties with: the first flag is cleared twice.
ClosesFirstTwice(k) == Unmarks(k, client1[k], "close2", "wake2")

ChatCloses2(k) == Unmarks(k, client2[k], "close2", "wake2")

\* A mistake to test the properties with: the wrong condition is signalled.
WakesFirstTwice(k) ==
    /\ ChatMoves(k, "wake2", "wake1")
    /\ Signal(client1[k])
    /\ UNCHANGED <<roomVars, flagVars, matchVars, pc, watcher, client1, client2, owner>>

ChatWakes2(k) ==
    /\ ChatMoves(k, "wake2", "wake1")
    /\ Signal(client2[k])
    /\ UNCHANGED <<roomVars, flagVars, matchVars, pc, watcher, client1, client2, owner>>

ChatWakes1(k) ==
    /\ ChatExits(k, "wake1")
    /\ Signal(client1[k])
    /\ UNCHANGED <<roomVars, flagVars, matchVars, pc, watcher, owner>>

-----------------------------------------------------------------------------
\* The steps the thread takes on its own.
ChatStep(k) ==
    \/ ChatLock1(k)
    \/ ChatCancelled(k)
    \/ ChatMarks(k)
    \/ ChatConfirms1(k)
    \/ ChatConfirms2(k)
    \/ \E lost \in SUBSET MayDrop : ChatGreets(k, lost)
    \/ ChatCloses1(k)
    \/ ChatCloses2(k)
    \/ ChatWakes2(k)
    \/ ChatWakes1(k)

\* The steps that depend on what the two users do, and for how long.
ChatTalk(k) ==
    \E lost \in SUBSET MayDrop : ChatEnds(k, lost) \/ ChatTimesOut(k, lost)
=============================================================================
