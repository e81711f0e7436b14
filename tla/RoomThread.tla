----------------------------- MODULE RoomThread -----------------------------
(***************************************************************************)
(* gestisciRoom: the matcher of one room.  It sleeps until there are two   *)
(* clients in the queue, takes a pair out of it and starts the pair's      *)
(* gestisciChat.  Each action is one critical section under the room's     *)
(* mutex; between two of them the thread has released the mutex, and the   *)
(* only thing it carries over is matchNotFound.                            *)
(***************************************************************************)
EXTENDS ChatServer, QueueOps

\* The inner while of gestisciRoom: nothing to match, or the last search of
\* this queue found no pair.
RoomSleep(r) ==
    /\ ~asleep[r]
    /\ Len(coda[r]) < 2 \/ matchNotFound[r]
    /\ asleep' = [asleep EXCEPT ![r] = TRUE]
    /\ matchNotFound' = [matchNotFound EXCEPT ![r] = FALSE]
    /\ UNCHANGED <<coda, numeroClients, flagVars, matchVars, threadVars, syncVars>>

-----------------------------------------------------------------------------
(***************************************************************************)
(* findPairClientsFromQueue: the head of the queue and the first client    *)
(* behind it that is not the counterpart of the head's or its own last     *)
(* assignment, if that was in this room.                                   *)
(***************************************************************************)
Searching(r) == ~asleep[r] /\ Len(coda[r]) >= 2 /\ ~matchNotFound[r]

\* A mistake to test the properties with: only the head's last counterpart is
\* looked at.
RefusedByHead(actual, head) ==
    /\ currentRoom[head] = matchedRoom[actual]
    /\ currentRoom[head] = matchedRoom[head]
    /\ matchedAddress[head] = AddressOf[actual]

\* The condition of line 124, with actual and head as its two clients.
PairRefused(actual, head) ==
    /\ currentRoom[head] = matchedRoom[actual]
    /\ currentRoom[head] = matchedRoom[head]
    /\ \/ matchedAddress[head] = AddressOf[actual]
       \/ AddressOf[head] = matchedAddress[actual]

\* Positions in Tail(q) of the client to pair with Head(q): none or one.
PartnerIndex(q) == FirstIndex(Tail(q), LAMBDA c : ~PairRefused(c, Head(q)))

\* couplantClient1, couplantClient2 and the queue left when the search of room
\* r stops at position i of the tail.
Actual(r, i)      == Tail(coda[r])[i]
HeadOf(r)         == Head(coda[r])

\* A mistake to test the properties with: only the head is taken out.
WithoutHead(r, i) == Tail(coda[r])

WithoutPair(r, i) == RemoveAt(Tail(coda[r]), i)

\* The search fails: the thread will go to sleep, but not before it has
\* released and retaken the mutex.
RoomFindsNobody(r) ==
    /\ Searching(r)
    /\ PartnerIndex(coda[r]) = {}
    /\ matchNotFound' = [matchNotFound EXCEPT ![r] = TRUE]
    /\ UNCHANGED <<coda, numeroClients, asleep, flagVars, matchVars, threadVars, syncVars>>

\* Both clients of the pair are disconnected: both are dropped.
RoomDropsBoth(r) ==
    /\ Searching(r)
    /\ \E i \in PartnerIndex(coda[r]) :
         LET c1 == Actual(r, i)
             c2 == HeadOf(r)
         IN  /\ ~isConnected[c1] /\ ~isConnected[c2]
             /\ coda' = [coda EXCEPT ![r] = WithoutPair(r, i)]
             /\ deletedFromQueue' =
                    [deletedFromQueue EXCEPT ![c1] = TRUE, ![c2] = TRUE]
    /\ numeroClients' = [numeroClients EXCEPT ![r] = @ - 2]
    /\ UNCHANGED <<asleep, matchNotFound, isConnected, isMatched, stopWaiting,
                   chatTimedout, matchVars, threadVars, syncVars>>

\* One client of the pair is disconnected: it is dropped, the other one goes
\* back to the end of the queue.
RoomDropsOne(r) ==
    /\ Searching(r)
    /\ \E i \in PartnerIndex(coda[r]) :
         LET pair == <<Actual(r, i), HeadOf(r)>>
         IN  \E n \in {1, 2} :
               /\ ~isConnected[pair[n]] /\ isConnected[pair[3 - n]]
               /\ coda' = [coda EXCEPT ![r] = Append(WithoutPair(r, i), pair[3 - n])]
               /\ deletedFromQueue' = [deletedFromQueue EXCEPT ![pair[n]] = TRUE]
    /\ numeroClients' = [numeroClients EXCEPT ![r] = @ - 1]
    /\ UNCHANGED <<asleep, matchNotFound, isConnected, isMatched, stopWaiting,
                   chatTimedout, matchVars, threadVars, syncVars>>

\* Both are connected: each is sent "OK" (a write that fails marks its client
\* as disconnected, and the chat is started all the same) and a gestisciChat
\* thread is created for the pair.
RoomStartsChat(r, k, lost) ==
    /\ Searching(r)
    /\ chatPC[k] = "free"
    /\ \E i \in PartnerIndex(coda[r]) :
         LET c1 == Actual(r, i)
             c2 == HeadOf(r)
         IN  /\ isConnected[c1] /\ isConnected[c2]
             /\ lost \subseteq {c1, c2} \cap MayDrop
             /\ coda' = [coda EXCEPT ![r] = WithoutPair(r, i)]
             /\ matchedRoom' = [matchedRoom EXCEPT ![c1] = r, ![c2] = r]
             /\ client1' = [client1 EXCEPT ![k] = c1]
             /\ client2' = [client2 EXCEPT ![k] = c2]
    /\ isConnected' = Disconnect(lost)
    /\ chatPC' = [chatPC EXCEPT ![k] = "lock1"]
    /\ UNCHANGED <<numeroClients, asleep, matchNotFound, isMatched, stopWaiting,
                   chatTimedout, deletedFromQueue, currentRoom, matchedAddress,
                   choice, pc, watcher, syncVars>>

RoomStep(r) ==
    \/ RoomSleep(r)
    \/ RoomFindsNobody(r)
    \/ RoomDropsBoth(r)
    \/ RoomDropsOne(r)
    \/ \E k \in Chat, lost \in SUBSET MayDrop : RoomStartsChat(r, k, lost)
=============================================================================
