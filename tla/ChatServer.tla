----------------------------- MODULE ChatServer -----------------------------
(***************************************************************************)
(* The state the threads of the chat server share, and the operators on    *)
(* client mutexes and condition variables.  One handler thread             *)
(* (gestisciClient) and one watcher thread (checkConnectionClient) serve    *)
(* each Client structure, one matcher thread (gestisciRoom) serves each    *)
(* room, and one thread (gestisciChat) serves each pair that was matched.  *)
(* Modules RoomThread, ClientThread and ChatThread hold the actions of     *)
(* those threads; module Matchmaking composes them.                        *)
(*                                                                         *)
(* A critical section under a room's mutex is one action: nothing in it    *)
(* waits for another thread of the server.  The mutexes of the clients are *)
(* held across waits by gestisciChat, so their owners are state.           *)
(***************************************************************************)
EXTENDS Integers, Sequences, FiniteSets

CONSTANTS
    Client,       \* the Client structures, one per accepted connection
    Room,         \* the rooms of stanzeServer
    Chat,         \* bound: the gestisciChat threads that may exist at a time
    MaxClients,   \* maxClients of every room (MAX_CLIENTS_PER_ROOM)
    NicknameOf,   \* Client.nickname
    AddressOf,    \* Client.address, the peer's IP address without its port
    NoRoom,       \* NO_ROOM
    NoAddress,    \* an address field that holds no client's address
    NoThread,     \* the owner of a mutex nobody holds; also the clients of
                  \* a slot of Chat without a thread
    StaleAddress, \* what the malloc'ed matchedAddress may hold before its
                  \* first assignment
    CountFloor,   \* bound: nobody enters a room whose count is below it
    MayStop,      \* environment: the clients whose user may type STOP
    MayDrop       \* environment: the clients that may vanish or stay silent
                  \* for longer than the 20 seconds of SO_RCVTIMEO

ASSUME ConstantsAssumption ==
    /\ IsFiniteSet(Client)
    /\ MaxClients \in Nat \ {0}
    /\ CountFloor \in Int
    /\ StaleAddress \subseteq {AddressOf[c] : c \in Client} \cup {NoAddress}
    /\ NoRoom \notin Room
    /\ NoThread \notin Client \cup Chat
    /\ Client \cap Chat = {}
    /\ MayStop \subseteq Client
    /\ MayDrop \subseteq Client

VARIABLES
    coda,             \* coda[r]: the clients queued in room r, head first
    numeroClients,    \* Room.numeroClients, the occupancy shown to users
    asleep,           \* asleep[r]: gestisciRoom is inside pthread_cond_wait
    matchNotFound,    \* gestisciRoom's local flag
    isConnected, isMatched, stopWaiting, chatTimedout, deletedFromQueue,
    currentRoom, matchedRoom, matchedAddress,   \* the fields of Client
    choice,           \* gestisciClient's STANZA_SCELTA_CLIENT
    pc,               \* pc[c]: where gestisciClient of c is
    watcher,          \* watcher[c]: where checkConnectionClient of c is
    chatPC,           \* chatPC[k]: where gestisciChat k is
    client1, client2, \* its local variables Client1 and Client2
    owner,            \* owner[c]: the thread that holds Client.mutex
    waiters           \* waiters[c]: the threads blocked on Client.cond

roomVars   == <<coda, numeroClients, asleep, matchNotFound>>
flagVars   == <<isConnected, isMatched, stopWaiting, chatTimedout, deletedFromQueue>>
matchVars  == <<currentRoom, matchedRoom, matchedAddress, choice>>
threadVars == <<pc, watcher, chatPC, client1, client2>>
syncVars   == <<owner, waiters>>
vars       == <<roomVars, flagVars, matchVars, threadVars, syncVars>>

Address == {AddressOf[c] : c \in Client} \cup {NoAddress}

\* Where gestisciClient can be; the comments give the lines of mainServer.c.
HandlerPC == {
    "menu",        \* 352: top of the outer loop
    "check",       \* 548: about to test whether the room is full
    "refuse",      \* 562: found it full, about to answer "FU"
    "admit",       \* 568: found space, about to answer "OK"
    "feedback",    \* 572: waiting for the client's OK before queueing
    "enqueue",     \* 592: watcher started, about to enter the queue
    "await",       \* 612, 619: taking the mutex to test for a match
    "block",       \* 619: tested, mutex held, about to wait
    "dispatch",    \* 627: out of the wait
    "drop_delete", \* 635: leaving the queue, disconnected
    "drop_signal", \* 648: waking gestisciChat
    "drop_join",   \* 651: joining the watcher
    "stop_delete", \* 663: leaving the queue, the user typed STOP
    "stop_join",   \* 678: joining the watcher
    "match_join",  \* 691: joining the watcher, matched
    "park",        \* 698, 705: taking the mutex to test for the chat's end
    "park_block",  \* 705: tested, mutex held, about to wait
    "after_chat",  \* 713: chat over
    "leave",       \* 748: about to leave the room
    "forget",      \* 759: left the room's count, room not yet forgotten
    "exit",        \* 765: about to destroy the Client
    "gone" }       \* 776: thread finished

WatcherPC == {"none", "reading", "lost", "signal", "exited"}

\* "free" is a slot without a thread.
ChatPC == {"free", "lock1", "lock2", "confirm1", "confirm2", "greet", "talk",
           "close", "close2", "wake2", "wake1"}

-----------------------------------------------------------------------------
(***************************************************************************)
(* Client.mutex and Client.cond.                                           *)
(***************************************************************************)

\* pthread_cond_signal wakes one of the blocked threads, if there is one.
Signalled(c, w) ==
    IF w[c] = {} THEN {w} ELSE {[w EXCEPT ![c] = @ \ {t}] : t \in w[c]}

Signal(c) == waiters' \in Signalled(c, waiters)

\* A mistake to test the properties with: the mutex does not exclude anybody.
CanAlwaysLock(t, c) == t \notin waiters[c]

\* A thread that was never blocked, or was woken, can take a free mutex.
CanLock(t, c) == owner[c] = NoThread /\ t \notin waiters[c]

-----------------------------------------------------------------------------
(***************************************************************************)
(* write_to_client marks a client whose socket it cannot write as          *)
(* disconnected; lost is the set of clients this happens to.               *)
(***************************************************************************)
Disconnect(lost) == [c \in Client |-> isConnected[c] /\ c \notin lost]
=============================================================================
