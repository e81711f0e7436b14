---------------------------- MODULE Matchmaking -----------------------------
(***************************************************************************)
(* The chat server from the room menu on: the matchers of the rooms, the   *)
(* handlers and watchers of the clients, and the chats, running            *)
(* concurrently on the state of module ChatServer.                         *)
(***************************************************************************)
EXTENDS RoomThread, ClientThread, ChatThread

\* initClient and main: every client is connected and at the menu, nobody is
\* in a room.  matchedAddress is the one field initClient does not set.
Init ==
    /\ coda = [r \in Room |-> <<>>]
    /\ numeroClients = [r \in Room |-> 0]
    /\ asleep = [r \in Room |-> FALSE]
    /\ matchNotFound = [r \in Room |-> FALSE]
    /\ isConnected = [c \in Client |-> TRUE]
    /\ isMatched = [c \in Client |-> FALSE]
    /\ stopWaiting = [c \in Client |-> FALSE]
    /\ chatTimedout = [c \in Client |-> FALSE]
    /\ deletedFromQueue = [c \in Client |-> FALSE]
    /\ currentRoom = [c \in Client |-> NoRoom]
    /\ matchedRoom = [c \in Client |-> NoRoom]
    /\ matchedAddress \in [Client -> StaleAddress]
    /\ choice = [c \in Client |-> NoRoom]
    /\ pc = [c \in Client |-> "menu"]
    /\ watcher = [c \in Client |-> "none"]
    /\ chatPC = [k \in Chat |-> "free"]
    /\ client1 = [k \in Chat |-> NoThread]
    /\ client2 = [k \in Chat |-> NoThread]
    /\ owner = [c \in Client |-> NoThread]
    /\ waiters = [c \in Client |-> {}]

Next ==
    \/ \E r \in Room : RoomStep(r)
    \/ \E c \in Client : HandlerStep(c) \/ WatcherStep(c) \/ UserStep(c)
    \/ \E k \in Chat : ChatStep(k) \/ ChatTalk(k)

Spec == Init /\ [][Next]_vars

\* Every thread of the server that can move does so eventually; what the users
\* do, and when a conversation ends, is left to them.
Fairness ==
    /\ \A r \in Room : WF_vars(RoomStep(r))
    /\ \A c \in Client : WF_vars(HandlerStep(c)) /\ WF_vars(WatcherStep(c))
    /\ \A k \in Chat : WF_vars(ChatStep(k))

FairSpec == Spec /\ Fairness

-----------------------------------------------------------------------------
\* The values the fields of Client and Room, and the threads' places, can have.
TypeOK ==
    /\ coda \in [Room -> Seq(Client)]
    /\ numeroClients \in [Room -> Int]
    /\ asleep \in [Room -> BOOLEAN]
    /\ matchNotFound \in [Room -> BOOLEAN]
    /\ isConnected \in [Client -> BOOLEAN]
    /\ isMatched \in [Client -> BOOLEAN]
    /\ stopWaiting \in [Client -> BOOLEAN]
    /\ chatTimedout \in [Client -> BOOLEAN]
    /\ deletedFromQueue \in [Client -> BOOLEAN]
    /\ currentRoom \in [Client -> Room \cup {NoRoom}]
    /\ matchedRoom \in [Client -> Room \cup {NoRoom}]
    /\ matchedAddress \in [Client -> Address]
    /\ choice \in [Client -> Room \cup {NoRoom}]
    /\ pc \in [Client -> HandlerPC]
    /\ watcher \in [Client -> WatcherPC]
    /\ chatPC \in [Chat -> ChatPC]
    /\ client1 \in [Chat -> Client \cup {NoThread}]
    /\ client2 \in [Chat -> Client \cup {NoThread}]
    /\ owner \in [Client -> Client \cup Chat \cup {NoThread}]
    /\ waiters \in [Client -> SUBSET (Client \cup Chat)]

-----------------------------------------------------------------------------
(***************************************************************************)
(* The occupancy of the rooms.                                             *)
(***************************************************************************)

\* The clients inside room r: from the moment they queue in it until they are
\* taken out of its count.
Occupants(r) == {c \in Client : currentRoom[c] = r /\ pc[c] # "forget"}

\* The count of a room never exceeds the number of clients that are inside it,
\* whatever the clients do: nobody is counted twice by the chat timer's round
\* trip, and nobody who left stays counted.
NeverOvercounted == \A r \in Room : numeroClients[r] <= Cardinality(Occupants(r))

\* As long as nobody is disconnected the count of a room is exact.
ExactOccupancy == \A r \in Room : numeroClients[r] = Cardinality(Occupants(r))

-----------------------------------------------------------------------------
(***************************************************************************)
(* Matches.                                                                *)
(***************************************************************************)

\* The places client c has in chats that have not yet told it that they ended.
Seats(c) ==
    {s \in Chat \X {1, 2} :
        /\ chatPC[s[1]] \notin {"free", "wake2", "wake1"}
        /\ chatPC[s[1]] = "close2" => s[2] = 2
        /\ c = IF s[2] = 1 THEN client1[s[1]] ELSE client2[s[1]]}

\* How often c stands in the queue of room r.
TimesQueued(c, r) == Cardinality({i \in 1..Len(coda[r]) : coda[r][i] = c})

\* A client is in one place at a time: in one queue, once, or in one chat.
InOnePlace ==
    \A c \in Client :
      /\ Cardinality(Seats(c)) <= 1
      /\ \A r \in Room : TimesQueued(c, r) <= 1
      /\ \A r \in Room : TimesQueued(c, r) = 1
            => Seats(c) = {} /\ currentRoom[c] = r

\* No queue holds a Client that is freed or about to be, though the matcher and the
\* handler each may take out a client that is lost.  It is so as long as no deletion by
\* nickname takes a namesake's node; and it says nothing of the pointers that a chat or
\* an unjoined watcher keeps.
QueuedIsAlive ==
    \A r \in Room : \A i \in 1..Len(coda[r]) :
        pc[coda[r][i]] \in {"await", "block", "dispatch", "drop_delete", "stop_delete"}

\* A match is announced only while the handler is not between its test of
\* isMatched and its wait: the announcement cannot be missed.
NoMissedMatch ==
    [][\A c \in Client : ~isMatched[c] /\ isMatched'[c] => pc[c] # "block"]_vars

\* A client that is marked as matched has a chat that will clear the mark.
MatchedHasChat ==
    \A c \in Client : isMatched[c] =>
      \E k \in Chat : \/ c \in ChatPair(k) /\ chatPC[k] \in {"confirm1", "confirm2", "greet", "talk", "close"}
                      \/ c = client2[k] /\ chatPC[k] = "close2"

\* Who holds the mutex of a client, at each place that relies on holding it.
LockDiscipline ==
    /\ \A c \in Client : pc[c] \in {"block", "park_block"} => owner[c] = c
    /\ \A k \in Chat :
         /\ chatPC[k] = "lock2"    => owner[client1[k]] = k
         /\ chatPC[k] = "confirm1" => owner[client2[k]] = k
         /\ chatPC[k] = "confirm2" => owner[client1[k]] = k

\* The handler of c has yet to confirm its match, and is not asleep: it will signal.
YetToConfirm(c) == pc[c] \in {"await", "dispatch", "match_join"} /\ c \notin waiters[c]

\* A chat that waits for a client that is still connected is not forgotten: the signal
\* that is to wake it has not been sent before the wait began, although the flag that
\* starts the handler and the signal that wakes it come one after the other.
ConfirmationAhead ==
    \A k \in Chat : \A c \in ChatPair(k) :
        chatPC[k] \in {"confirm1", "confirm2"} /\ k \in waiters[c] /\ isConnected[c] => YetToConfirm(c)

-----------------------------------------------------------------------------
(***************************************************************************)
(* What must happen, given that every thread that can move does.           *)
(***************************************************************************)

\* Two clients that gestisciRoom has put together get to talk, when nobody
\* disconnects: the handshake of gestisciChat with the two handlers, over
\* conditions that are signalled without their mutexes, comes to its end.
MatchedPairTalks == \A k \in Chat : chatPC[k] = "lock1" ~> chatPC[k] = "talk"

\* A handler that sleeps when its chat is over is woken and goes on, unless a chat
\* it had before is still to wake it: that late signal makes it test isMatched
\* again, just when this chat clears it and signals without the mutex.
SleeperReleased ==
    \A c \in Client :
      (/\ c \in waiters[c]
       /\ \E k \in Chat : chatPC[k] = "close" /\ c \in ChatPair(k)
       /\ \A k \in Chat : chatPC[k] \in {"close2", "wake2", "wake1"} => c \notin ChatPair(k))
      ~> pc[c] \notin {"park", "park_block"}

\* The thread of a chat whose clients disconnect is woken by their handlers and
\* ends, so that it is either used or gone: what line 647 promises, "WAKE UP Thread
\* gestisciChat()".  (A handler may signal before the chat waits, and then nobody does.)
ChatNotStuck == \A k \in Chat : chatPC[k] = "lock1" ~> chatPC[k] \in {"talk", "free"}
=============================================================================
