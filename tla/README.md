# The chat server in TLA+

A verification project for the multi-threaded chat room: a server that puts
users of thematic rooms together, two by two, for chats of at most a minute. The
modules model the threads of `serverFolder/`, the client program of `clientFolder/`
and the dialogue between them; TLC checks them on small instances, and TLAPS proves
the central safety properties for any number of clients, rooms and chats.

## The system

| Component | Where | State | Operations |
|---|---|---|---|
| Matcher of a room (one thread per room) | `mainServer.c` `gestisciRoom`, `server.c` `findPairClientsFromQueue` | the room's queue and count, its own `matchNotFound` | wait for two clients, search a pair, drop disconnected clients, start a chat |
| Client handler (one thread per connection) | `gestisciClient` | the `Client` structure, the room chosen | nickname, menu, choice of a room, test whether it is full, queue, wait, leave the queue (disconnected, STOP), chat, leave the room, leave the server |
| Connection watcher (one thread per wait) | `checkConnectionClient` | - | reads `OK`, `ST` or the end of the connection; signals the handler |
| Chat (one thread per pair) | `gestisciChat` | its two clients | handshake with the two handlers, relay, end, release |
| Chat timer (one thread per chat) | `checkChatTimedout` | - | `SIGUSR1` to the chat after a minute |
| Queue of a room | `server.c` | linked list with `head`, `tail`, `numeroClients` | `enqueue`, `deleteNodeQueue`, `findPairClientsFromQueue` |
| Nickname registry | `AVL.c`, one tree | tree of nickname sums | exists, insert, delete, under one mutex |
| Socket input and output | `server.c` | `isConnected` | `safeRead`, `safeWrite`, 20-second timer |
| Connections and shutdown | `main`, `serverOFF`, `destroyRoom` | `serverON`, the listening socket | accept, SIGINT |
| Thread wrappers | `safeFunction.c` | - | a failing call cancels its thread |
| Client program | `mainClient.c`, `client.c` | its place in the dialogue, a thread that waits for `STOP` | menus, list of rooms, wait, chat, return to the menu or the queue |

How they interact. The queue and count of a room are shared by its matcher and all
handlers under the room's mutex. A `Client` is shared by its handler, its watcher,
the matcher and a chat; its flags are atomics which every thread writes with and
without the client's mutex, and its one condition variable has up to two
waiters, the handler and a chat, and is signalled by the watcher, the handler
and the chat. The registry is shared by all handlers under a mutex of its own. The
socket of a client is used by four threads of the server, which take turns without
saying so: the handler, the matcher (one `OK`), the watcher (one read) and the chat;
at the other end, two threads of the client program write to it. `serverON` is
written by a signal handler in the middle of `main` and read by the matchers.

What is hard about it: a condition with two kinds of waiters and signals sent
without the mutex; a mutex kept by a chat across a wait for a client that may
disconnect; decisions taken on a state read in an earlier critical section (the room
is full, the search failed, the client is still queued); three threads that
each take a disconnected client out of something; a structure that is freed by
one thread while others may still point to it; a dialogue without lengths or tags, in
which one message that crosses another makes every later read wrong; a timer whose
signal may find its thread anywhere; and a shutdown that tells only half of the
threads.

What makes each component correct:

- matcher: it pairs whom it may, never the same two twice in a row in a room, and
  does not sleep over a pair it could make;
- handler: the room's count is right, and a client is in one place at a time and is
  not forgotten in a queue;
- chat and handlers: an announced match is seen, a match is taken back by the chat
  that made it, the pair gets to talk, both handlers go on afterwards;
- queue: the list stays a list and does what a queue by that description does;
- registry: a nickname is refused exactly if somebody inside has it (or one with its
  sum), and the tree is a balanced search tree;
- chat and timer: what is said arrives in order, the users of a chat that had a message
  are told how it ended and go where their handlers expect them (before the first
  message they may be told nothing), and the timer knows its chat;
- dialogue: both programs read what the other wrote for them, never both wait, and
  notice when the other is gone;
- shutdown: `main` ends, matchers end, and no room is freed while it is in use.

## Modules

| Module | What it is |
|---|---|
| `ChatServer` | constants, variables, mutexes and conditions of the clients |
| `QueueOps` | a queue as a sequence, and what the functions of `server.c` do to it |
| `RoomThread` | actions of `gestisciRoom` |
| `ClientThread` | actions of `gestisciClient` and `checkConnectionClient` |
| `ChatThread` | actions of `gestisciChat` before and after the conversation |
| `Matchmaking` | the composition of the three, its fairness and its properties |
| `Lobby` | abstract specification: a client waits in a room, has a partner, or is at large |
| `LobbyRefinement` | the refinement mapping from `Matchmaking` to `Lobby` |
| `MatchHistory` | the composition with a history variable, the last assignment of each client |
| `RoomQueue` | abstract specification: the queue as a sequence |
| `LinkedQueue` | the queue as nodes and pointers, one step per recursive call |
| `QueueRefinement` | the refinement mapping from `LinkedQueue` to `RoomQueue`, and what keeps the list a list |
| `RegistryClient` | what a handler does around the registry: check, give up, insert, delete |
| `NicknameRegistry` | abstract specification: the registry as a bag of numbers |
| `AVLTree` | the functions of `AVL.c` on trees as values |
| `AVLRegistry` | the registry as a tree, and the refinement mapping to the bag |
| `ChatSession` | one chat: the relay loop, the timer thread, two users and their sockets |
| `SessionProperties` | what the two users may rely on |
| `Wire` | one direction of a connection: chunks of bytes, and reads of a fixed size |
| `Protocol` | `mainClient.c` and the threads of the server that use its socket, read by read |
| `ProtocolProperties` | what holds of the dialogue |
| `Shutdown` | `main`, `serverOFF`, `gestisciRoom` and the handlers as users of rooms and registry |
| `QueueLemmas` | what the operators of `QueueOps` return, and induction along a sequence |
| `MatchmakingProofs` | types, mutexes and matches of `Matchmaking` |
| `PlaceProofs` | where the clients are, the refinement of `Lobby`, the counts of the rooms and whom they hold, what a chat waits for, and what `MatchHistory` says of repeated matches |
| `QueueProofs` | the list on the heap is a list, and the refinement of `RoomQueue` |
| `ProtocolProofs` | where the two programs are and what is between them, as long as nothing crosses |
| `SessionProofs`, `ShutdownProofs` | theorems about `ChatSession` and `Shutdown` |
| `MCMatchmaking`, `MCMatchHistory`, `MCQueue`, `MCRegistry` | values of the constants for TLC |

`Matchmaking`, `ChatSession` and `Protocol` are three views of the same threads:
`Matchmaking` has all clients and what their threads share, with a dialogue as one
step and a conversation as one step; `ChatSession` is that conversation; `Protocol` is
those dialogues, for one client, with the others as its environment. `Shutdown` is
the fourth, in which what the queue holds does not matter. The registry meets the
rest only in the nickname a handler starts and ends with.

The operators whose comment says "a mistake to test the properties with" are
not part of any specification. Each is a wrong version of the definition after it,
and makes TLC find the property that `PROJECT.json` names beside it violated.

### State and actions

In `Matchmaking` the variables have the names of the fields: `isConnected`, `isMatched`,
`stopWaiting`, `chatTimedout`, `deletedFromQueue`, `currentRoom`, `matchedRoom`,
`matchedAddress` of `Client`; `coda` and `numeroClients` of `Room`; `matchNotFound`
is the local of `gestisciRoom`, `client1` and `client2` those of `gestisciChat`,
`choice` the `STANZA_SCELTA_CLIENT` of `gestisciClient`. `pc`, `watcher` and
`chatPC` say where the threads are; the comments of `HandlerPC` give the lines.
`owner` and `waiters` are the clients' mutexes and conditions, `asleep` the
condition of a room.

An action is the code between two points at which other threads can see or change
what matters:

- a critical section under a room's mutex is one action, with the recursive
  search or deletion in it (a thread in one waits for nobody);
- a wait on a client's condition is two actions, the test of the flags with the
  mutex held (`AwaitTest`, `ParkTest`) and `pthread_cond_wait` (`AwaitBlock`,
  `ParkBlock`), because the flags are written without the mutex; a woken thread
  must take the mutex again;
- the test of a room's occupancy (`FindsFull`, `FindsSpace`), the answer that is written
  after the unlock (`AnswersFull`, `AnswersSpace`) and the line that counts the client
  (`Enqueue`) are three actions, with whatever others do between them;
- the two flags that the end of a chat clears are two actions (`ChatCloses1`,
  `ChatCloses2`);
- a signal is an action of its own when it is sent outside the mutex (`DropSignal`,
  `WatchSignal`, `ChatWakes2`, `ChatWakes1`; `MatchJoin` with the join before it);
  it wakes any one of the waiters;
- a dialogue with the client program is one action with its outcomes: the answer
  comes, or it does not and the client counts as disconnected. `lost` is the set
  of clients whose socket failed in the step.

The constants `MayStop` and `MayDrop` say which users may type STOP and which may
disconnect or stay silent beyond the timer, so that a run can tell what holds with
and without them. `StaleAddress` is what the uninitialised `matchedAddress` may hold.

`Lobby` is what all this looks like from outside. Under the mapping of `LobbyRefinement`
`Joins` is `Enqueue`, `Desert` a drop by the matcher or by the handler (`RoomDropsBoth`,
`RoomDropsOne`, `DropDelete`), `Pair` is `RoomStartsChat` and `Part` is `ChatCloses1`; every
other action is a stutter.

In the registry, an action is a critical section; the dialogue between the check and
the insertion is the time in which `pc` is `"accepted"`. A tree is a record, NULL one
with a height only, so that a NULL that is dereferenced stops TLC. `Node` sets the
height as every function of `AVL.c` does before it returns. `StaccaMinimo` returns the
number that was detached and what the parent then points to, which after a rotation
is the *old* top (`BilanciaDX(now).sx`), as in the code that drops `root`.

In `ChatSession`, `user` is where each client program believes it is, `said` and
`heard` number the messages, `toServer` and `toClient` are the sockets. `SelectReady`
takes the set that select returns; `Serve` is one pass through the body of the `for`
over descriptors, with a failed read or write as a choice that is open only if the
client is gone; `CancelTimer` and `Close` are the lines after the loop. The timer
thread reads its argument, sleeps (a cancellation point), and signals: a signal has
an effect only on a select with nothing to return.

In `Protocol`, `cli` and `srv` are the reads at which the two programs wait, and `up`
and `down` the bytes between them. `CliTurn` and `HandlerTurn` are the two ways in
which nearly all turns are written: read so many bytes, compare, answer. A read that
is out of step cuts chunks up (`Rest`) and compares unequal to every word (`Got`).
`misread` and `crossed` are history variables; `crossed` becomes true when something
is sent that its receiver has no read for: a message after the end of a chat, a STOP
after the matcher's OK, the greeting of a chat that is over before it begins; and when
the receiver cannot know what is sent as what it is: an ending from a `buffer` that
`gestisciChat` has not written to yet (`ToldAs`).

In `Shutdown`, the steps of `main` wait while `serverOFF` runs on its stack. A handler
turns to any room, locks it, and unlocks it with or without a signal to its matcher;
`"undefined"` is where it is after it has used memory that was freed.

### Abstractions

- In `Matchmaking`, what is said in a chat is left out: a chat ends by `/STOP`, silence,
  an error (`ChatEnds`) or its timer (`ChatTimesOut`), with any of its clients lost.
- Memory that was freed keeps what it held: a thread that still uses a destroyed
  `Client` reads and writes that. `QueuedIsAlive` says when a queue never holds one;
  nothing is said of a chat and of a watcher that was not joined, which do go on using it.
- The variables that `gestisciChat` uses uninitialised when a client was lost before
  the chat began (`pthread_cancel` and two `free`) are taken to do nothing; the
  build can also crash there, which ends every behaviour and adds no state.
- The uninitialised buffer of a chat makes an ending before the first message unknown to
  the client: always in `ChatSession` (`"garbled"`), by choice in `Protocol`, where the
  memory may also happen to hold a NUL behind the five characters.
- The uninitialised buffer of the watcher may hold an old `ST` (`WatchTests`), if
  anybody can have typed STOP.
- Spurious wake-ups are left out: every lost wake-up that is found is lost without
  them. Allocation failures are left out.
- Clients of `Matchmaking` start at the menu, after the registry has accepted them, and
  the server is not shut down there (`serverON` is true); `Shutdown` has the rest.
- Messages of a chat are numbers modulo `MessageCount`, which is more than can be on
  their way; `MaxInFlight` bounds those. The 1024 bytes of a message are one unit in
  `ChatSession`; a client that dies within one is covered by `ChatLoses` of `Protocol`.
- `Wire` scales the sizes: a nickname is 4 bytes and a message 8, as long as both are
  more than a word of the dialogue, differ, and are even like it. A read cut short by
  the 20 seconds is `HandlerFails`, which closes the connection as the code does.
- In `Protocol` two threads of the server never read from one socket at a time: a
  client whose STOP raced with its match ends in `"strayed"`, since `Matchmaking` is
  where that state is explored.
- `errno` after a short read or write is never `EINTR`: `SIGUSR1` is installed with
  `signal`, which restarts reads and writes, so the branches of `gestisciChat` for a
  timer that interrupts a read or a write are never taken.
- The root of the registry's tree, which the code never initialises, is taken to be NULL.
- `Matchmaking` writes the length of `coda[r]` for `Queue.numeroClients` and takes
  the search and the deletion as operators on sequences. `LinkedQueue` is where this
  is justified: `ListIntact` (the count is the length) and `ImplementsRoomQueue`.

## Runs

`tlc -config <name>.cfg <module>`; sizes are distinct states.

| Run | Instance | Shows | States |
|---|---|---|---|
| `calm` | clients a, b; rooms r, s; two chat slots; nobody stops or drops | `ExactOccupancy`; `MatchedPairTalks`, `SleeperReleased` under fairness | 276,608 |
| `drops` | clients a, b, c, one room of two places, one chat slot; a may drop | `InOnePlace`, `QueuedIsAlive`, `ConfirmationAhead`, `LastAssignmentKnown`, `NeverRepeats`, `ImplementsLobby` | 2,405,948 |
| `stops` | clients a, b, one room of one place, one slot; both may drop, a may stop | `TypeOK`, `NeverOvercounted`, `MatchedHasChat`, `LockDiscipline`, `NoMissedMatch` | 2,849,844 |
| `queue` | three clients, two with one nickname; four nodes | `TypeOK`, `ListIntact`, `CallIntact`, `ImplementsRoomQueue` | 15,937 |
| `registry` | eight clients, two with one sum, at most six inside | `InOrder`, `Balanced`, `CheckIsExact`, `ImplementsRegistry` | 22,416 |
| `session` | two users, two messages of each on their way | `TypeOK`, `InOrder`, `EndingIsTold`, `KnowsItsChat`; `StopIsHeard` under fairness | 548,608 |
| `protocol` | one client, two rooms to list, two messages on their way | `TypeOK`, `InStepUntilCrossed`, `NeverBothListen`, `SameEnding`; `EndIsNoticed` under fairness | 50,666 |
| `shutdown` | two rooms, two handlers, one SIGINT at any time | `TypeOK`, `NeverFreedInside`, `NothingFreedEarly`, `WindsDown`; `MainEnds`, `SleepersEnd` under fairness | 154,681 |
| `stuck` | two clients, one may drop | `ChatNotStuck` is violated | |
| `forgets` | seven clients with different sums, all inside | `NobodyForgotten` is violated | |
| `out_of_step` | one client | `InStep` is violated | |
| `again` | clients a, b, c; rooms r, s of three places; one slot; nobody stops or drops | `NeverTwiceInARow` is violated | |

Bounds, and why they are enough:

- Clients. A match needs two; the third is the one that queues, is refused or is
  the other counterpart meanwhile. In the runs of `Matchmaking` they have different
  nicknames and addresses; equal ones are in `queue`, and in the proofs. The proofs
  cover any number of them for the properties they state.
- `Chat` bounds the chats that exist at a time: a room does not start a chat while no
  slot is free. With two clients a second slot lets a chat start while the one
  before it is still on its last lines (`calm`).
- `CountFloor`: since the count can go down by mistake without end (see below),
  nobody enters a room whose count is below -1. The proofs do not depend on its value.
- `Node`: four nodes for three clients, so that a list can have a head, a tail and
  two nodes between, and a client can be queued twice. A node is freed and used again.
- `MaxClients` is less than the clients in `drops` and `stops`, so that rooms are full: in
  `stops` the client that comes second is refused, or gets in between test and count,
  or because the count has drifted, or when the other has left. In `calm` and
  `again` nobody is refused.
- `MaxInside` = 6. Up to six numbers, deletions never make `StaccaMinimo` rotate below
  its caller, and the tree is a bag. The bound is sharp: with seven a number is lost
  (`forgets`), with eight the tree is found unbalanced, and with nine a rotation
  dereferences NULL, which crashes the server. The eight clients give every order in
  which six of them can come and go, two of them with the same number.
- `session`: two messages of each user on their way, so that both sockets are ready in
  one round and a message is left behind a stop; three numbers tell a gap from an echo.
  `Lower` is the client whose descriptor is served first; the code is symmetric
  but for that.
- `protocol`: two rooms make the loop over rooms repeat. `MaxUnread` stops the user and
  the other user from writing when that much is unread; the programs themselves are
  never held back by it.
- `shutdown`: two rooms, one signalled before the other; two handlers, so that one can
  hold a room's mutex while another waits. SIGINT comes once.
- Symmetry is used for safety only: over the clients that cannot drop (`drops`), all
  clients and rooms (`again`), nodes (`queue`).
- One room in `drops`: there `NeverRepeats` allows no repetition at all, since its exception
  needs a second. What two rooms do is run `again`; the theorem is for any number.
- `StaleAddress`: in `drops` every unwritten `matchedAddress` holds the address of a,
  so that reading one would show; elsewhere it holds nobody's.
- `CHECK_DEADLOCK FALSE`: the server may stop, in earnest. All clients may have left
  or the chat, the connection or the server is over; and the lost wake-ups described
  below end in a state where nothing moves. In `registry` deadlock is checked.

Fairness (`FairSpec`). In `Matchmaking`: weak fairness of every matcher, handler, watcher and chat on
its own steps, which is what a preemptive scheduler gives to a runnable thread; the
steps of a user (`UserStep`) and the end of a conversation (`ChatTalk`) have none,
since nobody has to choose a room or stop talking. A dialogue step is fair because
the 20-second timer of the socket ends it if the user does not (`NoFeedback` is
among the fair steps); `WatchOK` is fair because the client program answers the `OK`
of a match without its user. Weak fairness of a thread that waits for a mutex
would not be enough for a mutex that is taken again and again; here a client's mutex
is taken by its own handler and one chat, and `MatchedPairTalks` holds with it.

`ChatSession`: the chat, the timer and the client programs run; no silence need last
35 seconds and no chat a minute, and users type what they like. `Protocol`: both
programs run, and the 20 seconds of a read that nobody answers pass; matches, chats
and users have no fairness. `Shutdown`: weak fairness of every thread, and strong
fairness of a matcher on its room's mutex, which handlers take again and again: between
two locks of a handler there is an answer of its client, and the mutex is free for all
that time.

### What the violations say

- `stuck`: the one signal of line 648 may come before the wait it is meant for.
- `forgets`: `root` of `alberoAVL_staccaMinimo` is assigned and never used
  (`AVL.c:196`), so the rotation above the minimum cuts nodes off. A client that is
  inside is then not in the registry, which `server.h:65` calls "contiene tutti i
  nicknames dei client", and another may take its nickname.
- `out_of_step`: STOP is offered while the client waits (`mainClient.c:284`), and if it
  crosses the `OK` of a match the client reads `ST` at line 311 and exits with an error.
- `again`: `server.c:124` refuses a pair only if *both* were last matched in this room. If
  a and b are matched in r, then b and c in s, then a and b in r again, a is assigned
  to b in r twice in a row, which `server.c:107` excludes.

### What else does not hold

TLC also finds these, for which the project keeps no run; each formula is one that an
invariant of a run can be replaced by.

- `numeroClients[r] <= MaxClients` (run `stops`): lines 554 and 602 of
  `mainServer.c` are in two critical sections; a room takes one client too many for
  each handler that is between them, and, as line 554 tests for equality, everybody who
  comes while its count is above the limit. When nobody disconnects or types STOP this is the
  only way in which a room takes more clients than it has places
  (`PlaceProofs!Overbooking`); the next entry is another.
- `numeroClients[r] >= 0` (run `stops`): the matcher's decrement (232, 238, 245) is
  repeated by the handler (754). The count is then too low, for ever, and the room takes
  more clients than it has places.
- Who is told `FU` finds a full room: the answer (562) is written after the unlock (556), and
  whoever was inside may have left by then.
- With equal nicknames, `QueuedIsAlive` and `InOnePlace` (`drops` with one nickname for
  all): the handler of a disconnected client deletes by nickname (`server.c:59`), and takes
  the other client's node if that stands first. The dropped client stays in the queue
  while its structure is freed. Nicknames can be equal: a nickname is looked up (312-318) and
  inserted (342-348) in two critical sections with a dialogue in between. The other
  properties of `drops` hold in that instance; their proofs need the invariant that fails.
- A matcher that sleeps has fewer than two clients in its queue, or no pair among
  them: `matchNotFound` outlives the critical section it was computed in (216), so the
  client that queued in between gets no search until the next one comes.
- A search that returns nobody leaves no pair in the queue: the search pairs the head
  or nobody, although the comment at `server.c:105` promises a pair if there is one.
- Every handler is released when its chat is over: lines 1084-1090 clear the flags and
  signal without the mutexes. `SleeperReleased` is what is left of it, and its premise
  says when even a sleeping handler is missed: the two last lines of one chat may run
  when a client of it is in its next chat already, and wake its handler at the moment
  at which it must not test.
- Both users learn that their chat is over, and a user who types `/STOP` ends it for the other
  (`session` without the premises on `buffer`): 35 seconds of silence, the timer or an error
  of select before the first message send a buffer of which only the first five
  characters were ever written (909, 914, 921). The client compares the whole of it, and
  shows it as something said; the users are not taken to the menu or the queue, as
  `client.c:250-251` tells them, and a `/STOP` typed after that is read by nobody who
  would end the chat for the other (`client.c:252`). In `Protocol` the same ending is a
  crossing: the client waits for a message while the handler waits for its answer.
- A chat lasts a minute at most: `SIGUSR1` interrupts select and nothing else (1104). If the
  chat is not in select, or select has something to return, the signal is lost, and there is
  no other; no liveness property promises the timer's ending.
- Nobody uses a `Client` that was freed: a chat whose client disconnected, and the watcher of
  a handler that left at 675 or 687 without joining it, go on using it.
- Every matcher ends (`Shutdown`): one that has tested `serverON` and is signalled before
  it sleeps stays asleep. Nor is every handler spared: `HandlerEnds` and
  `HandlerLocksNothing` reach `"undefined"`, since `main` frees the registry and the
  matchers their rooms while handlers run; `NothingFreedEarly` says since when.
- `SignalRoom` finds its room: `serverON` is false (1129) before the rooms are signalled,
  and a matcher that was awake may have destroyed its own by then, with the condition
  that is signalled. What that does is undefined; in `Shutdown` it wakes nobody.

`InOnePlace`, `QueuedIsAlive` and `ImplementsLobby` are checked with nobody typing STOP.
With it they fail: a STOP that races with a match sends the handler back to the menu while the
chat starts, the client queues again, and can be matched with itself (`ChatCancelled`
is the second lock of an error-checking mutex). No statement in the code is
contradicted by that, so it is not among the violation runs.

## Proofs

`tlapm <module>.tla` for the seven modules with theorems. Their assumptions on the
constants are those of the modules, and TLC evaluates each in a run:

- `ConstantsAssumption` (`ChatServer`): finitely many clients, at least one place in a
  room, and the special values are none of the clients, rooms and chats;
- `HeapAssumption` (`LinkedQueue`): finitely many nodes, and NULL and the contents of
  freed memory are none of them;
- `LowerIsASide`, `BoundsArePositive` (`ChatSession`): one of two descriptors is the
  lower one, and something can be on its way;
- `SizesDiffer` (`Wire`): a name is longer than a word of the dialogue and shorter than a
  message (the sizes are also even, which no proof uses); `CountsArePositive` (`Protocol`):
  there is a room, and the bounds are positive;
- `RoomsAreThere`, `OwnersDiffer` (`Shutdown`): there is a room, and no handler is called
  "nobody" or "matcher".

Some theorems about `Matchmaking` have hypotheses of their own, written in their
statements. The code guarantees none of them:

- `NobodyStops` (`MayStop = {}`): with STOP the property fails, as said above, and the
  runs that check it have no user who types it (for `Confirming`, a
  handler that was stopped after its match goes back to the menu without the signal its
  chat waits for);
- `[]DeletesItself`: no handler is about to delete its client by nickname while another
  client with that nickname stands before it in that queue, or stands there and its own
  client does not. Clients on the server may have equal nicknames, since the registry is
  asked (312-318) and told (342-348) in two critical sections; what happens then is among
  `What else does not hold`. It is a hypothesis on the behaviour, weaker than that the
  nicknames differ, and the runs, whose nicknames differ, satisfy it;
- `NobodyDrops` (`MayDrop = {}`), for `CountingExactly` and `Overbooking` only: with a
  disconnected client the matcher and the handler may both count down;
- `[]OneAtATime`, for `Overbooking` only: never two handlers between the test of a room's
  occupancy and the line that counts them. Most behaviours of a server with few users
  are like that, and nothing in the code sees to it.

The other theorems assume nothing about who stops or drops or about nicknames, and none
assumes anything about addresses: they may be shared.

| Theorem | States |
|---|---|
| `MatchmakingProofs!Typing` | `Spec => [](TypeOK /\ Seated)` |
| `MatchmakingProofs!Locking` | `Spec => []LockDiscipline` |
| `MatchmakingProofs!Announcing` | `Spec => NoMissedMatch` |
| `MatchmakingProofs!Matching` | `Spec => []MatchedHasChat` |
| `PlaceProofs!Placing` | `NobodyStops`: `Spec => ([]DeletesItself => []InOnePlace)` |
| `PlaceProofs!Living` | `NobodyStops`: `Spec => ([]DeletesItself => []QueuedIsAlive)` |
| `PlaceProofs!Refining` | `NobodyStops`: `Spec => ([]DeletesItself => ImplementsLobby)` |
| `PlaceProofs!Counting` | `Spec => []NeverOvercounted` |
| `PlaceProofs!Overbooking` | `NobodyDrops`, `NobodyStops`: `Spec => ([]OneAtATime => []NeverOverfull)` |
| `PlaceProofs!CountingExactly` | `NobodyDrops`, `NobodyStops`: `Spec => []ExactOccupancy` |
| `PlaceProofs!Confirming` | `NobodyStops`: `Spec => ([]DeletesItself => []ConfirmationAhead)` |
| `PlaceProofs!Remembering` | `NobodyStops`: `HistorySpec => ([]DeletesItself => []LastAssignmentKnown)` |
| `PlaceProofs!NotRepeating` | `NobodyStops`: `HistorySpec => ([]DeletesItself => NeverRepeats)` |
| `QueueProofs!Typed` | `LQSpec => []TypeOK` |
| `QueueProofs!Linked` | `LQSpec => []ListIntact` |
| `QueueProofs!Searching` | `LQSpec => []CallIntact` |
| `QueueProofs!Implementing` | `LQSpec => ImplementsRoomQueue` |
| `SessionProofs!Typing` | `Spec => []TypeOK` |
| `SessionProofs!Telling` | `Spec => []EndingIsTold` |
| `SessionProofs!Ordering` | `Spec => []InOrder` |
| `SessionProofs!Signalling` | `Spec => []KnowsItsChat` |
| `ProtocolProofs!Typing` | `Spec => []TypeOK` |
| `ProtocolProofs!StayingInStep` | `Spec => []IInv`, the inductive invariant of the next three |
| `ProtocolProofs!Reading` | `Spec => []InStepUntilCrossed` |
| `ProtocolProofs!Answering` | `Spec => []NeverBothListen` |
| `ProtocolProofs!EndingAlike` | `Spec => []SameEnding` |
| `ShutdownProofs!Owning` | `Spec => []TypeOK` |
| `ShutdownProofs!Destroying` | `Spec => []NeverFreedInside` |
| `ShutdownProofs!FreeingLate` | `Spec => []NothingFreedEarly` |
| `ShutdownProofs!WindingDown` | `Spec => WindsDown` |

The argument of each:

- `MatchmakingProofs!Typing`. `TypeOK` is not inductive: the type of `waiters` and `owner`
  after a step of a chat needs the chat to have two clients. `Seated` says so of every
  chat that exists. `QueueLemmas` gives the types of the queue operators.
- `Locking`. `LockDiscipline` needs `Distinct`: `ChatConfirms1` takes one client's mutex
  and gives the other's back, and only if the two differ does it still hold one. A
  client matched with itself never gets that far.
- `Announcing`. At `"block"` the handler holds its client's mutex, and `ChatMarks`, the
  only step that marks a client (`OnlyChatMarks`), holds those of both its clients.
- `Matching`. A chat keeps its pair from `ChatMarks` until it clears both marks
  (`KeepsPair`).
- `Placing`, `Living`. That a client is in one place needs to be known from all three
  sides at once, which is `PlaceInv`: nobody stands twice in a queue; whoever stands in
  one has a handler that waits, or one that found it disconnected and is on its way to
  take it out (`WaitsIn`); whoever is in a chat is in that chat only, and its handler, as
  long as it is connected, has not gone past the waits of that chat (`MeetsIn`); and a
  client the matcher has thrown out is known to its handler as disconnected, and so
  leaves without being queued again. `WaitsIn` is also why no structure is freed while
  it stands in a queue: its handler has yet to take it out. `DeletesItself` is used in one
  step, `DropDelete`: the node that goes is the client's own, or none.
- `Refining`. Each action maps to the lobby's step of that name or to a stutter. Two
  need an argument, and it is `PlaceInv`: `ChatCloses1` is `Part`, as no other chat holds
  the two clients, and `RoomStartsChat` is `Pair`, as the two taken from the queue are in
  no other queue and no chat.
- `Counting`. `NeverOvercounted` needs `Placed`: outside the rooms a client has no
  current room; inside, its current room is the one it chose; and one that comes back
  to the queue without having left is known by `chatTimedout`, which nothing but
  `Enqueue` resets; that is so, too, for one that goes round again after a STOP, because its
  chat has timed out meanwhile (`AgainAfterStop`). So `Enqueue` adds one to the count exactly if it adds a client to the room
  or does not add one although it did, and `Leave` takes one from both. The matcher's
  extra decrements only lower the count, which is why the theorem is an inequality.
- `CountingExactly`. `CalmInv`: when nobody disconnects, only clients that have left
  the server count as disconnected and no chat holds them, so no matcher drops anybody
  and nothing is counted down twice; and the mark of the chat timer is on nobody who is
  not counted, which is what `Enqueue` reads from it. Nobody comes to a deletion either
  (`NobodyDeletes`), so `DeletesItself` need not be assumed.
- `Overbooking`. The clients inside are as many as the count says (`CountingExactly`), so it
  is the count that must stay within the places (`CountsInBounds`, which needs neither
  hypothesis on the users). `SpaceInv`: whoever has found that there is space, and is yet
  to be counted, still has it. With `OneAtATime` nobody else takes it before the handler that was
  told does; every other step leaves the counts or lowers them, and a client that the
  timer sent back to the queue is not counted again (`Placed`, from `Counting`).
- `Confirming`. A chat signals its first client, waits for the answer, and does the same
  with the second; each handler answers with one signal, when it has joined its watcher,
  and nobody looks whether the other waits. `WaitInv` adds to the invariants of `Placing` and
  `Locking` who may wait on a client's condition (`WaitersKnown`), that a match is marked
  only where its handler can still see it (`AwakeWhenMatched`), and that the chat, which keeps
  the mutex of the second client while it waits for the first, keeps that client's
  handler at its test by doing so (`SecondHeld`). So the first handler that goes on has been
  signalled by a chat that waits already, and the second has not gone on when the chat
  turns to it. The step at which it fails is that of a disconnected client
  (`DropSignal`), and the run `stuck` shows what comes of it.
- `Remembering`. The room of the last assignment is written by the matcher and the
  counterpart's address by the chat, later. `HistInv` says that the two agree but for a
  chat that has not marked its pair yet (`AddressKnown`), and that a chat's two clients
  were assigned to each other last. A client in a queue is in no chat (`PlaceInv`), so
  there both fields are right.
- `NotRepeating`. From that and the test of the search (`PairRefused`): a pair that passes
  it differs from the last assignment of both, or one of them was assigned in another
  room since.
- `Typed`, `Linked`, `Searching`. The invariant, `ListInv`, has a witness: a sequence of
  nodes without repetition, such that head, tail, count and every link are what the
  sequence says and no other node is allocated (`Lists`), and a search in progress looks
  at two neighbours in it and has refused all nodes before them (`Calls`). Appending a
  node, unlinking the k-th and unlinking the k-th and the first give the sequence of the
  next state (`EnqueueEffect`, `DeleteHitEffect`, `FindHitEffect`). That the chain of pointers
  is that sequence (`ChainIsList`) goes by induction along it.
- `Implementing`. The same effects, read through `ClientsOf`: the clients of the new
  sequence are what `RoomQueue` makes of the clients of the old. That the search found the
  *first* that fits, or that nobody does, is `Passed`.
- `SessionProofs!Typing`. By itself, with the types of what is on the wires.
- `Telling`. `EndInv`: a failed read or write means a client that is gone, and ends the
  loop; a stop is sent by a user who leaves, and every other ending is sent for what it
  stands for; and from the very step at which the loop is to end, whoever still chats has
  an ending on its way (`ToldAtOnce`); unless no message has gone through the chat: then
  nobody has been sent anything but what an unwritten buffer holds (`NobodyTold`).
- `Ordering`. `OrderInv`: there are numbers that lead from what a user has heard through what
  the server has sent to it, and on through what the server has yet to read, to what the
  other has said (`Leads`, `Joined`). A message passed on moves from the end of one stretch
  to the start of the other. A user that is gone is promised nothing.
- `Signalling`. `KnowsItsChat` needs `TimerInv`: the chat frees what the timer has not
  read only after it has cancelled the timer, so a timer with garbage is one that will
  not wake.
- `ProtocolProofs!Typing`. That the wires carry words and pieces of words, none of them
  empty, is kept by writes, which append chunks (`SpokenChunks`), and by reads, for whatever
  number of bytes: `Rest` leaves the chunks behind the one it cuts, and of that one what is
  left. The rooms yet to be listed are counted down only by the places that list them
  (`DialogueInv`).
- `StayingInStep`. That no read has gone wrong says nothing of the next one: the
  invariant must say what is on the wires. `Quiet` is a table with a row for every pair of
  places the two programs can be at outside a chat, and the words then on their way in
  each direction; within a chat and at its end there are any number of messages, and
  `Talks`, `Leaves` and `IsTold` say which. `Agrees` adds what the programs remember at a
  place: how many rooms are left to list (`RoomsAgree`), whether the watcher is yet to
  read (`WatcherAgrees`), whether a STOP can still be typed (`StopperAgrees`) and how the
  chat ended (`EndingAgrees`). If one of the two is gone, the other is where it was
  (`Joint`), until nothing is read any more (`Ended`). There is a lemma for each action,
  and it names the row the action leads to; what they share is `WordRead`, that a read of
  as many bytes as the first word has returns that word and leaves the others, for any
  sizes. A step after which something has crossed has nothing to show, and an
  ending sent from an unwritten buffer that the client takes for something said is one.
- `Reading`, `EndingAlike`. Parts of that invariant.
- `Answering`. In every row in which both programs read, the first word on one of the two
  wires is as long as what its reader asks for (`Listeners`, `ClientFits`, `ServerFits`); at the
  end of a chat it is the client who has something to read (`ToldFits`).
- `Owning`, `Destroying`. A room's mutex is the matcher's exactly where the matcher
  tests and searches, and a handler's in its critical section (`ShutdownInv`); a
  mutex is destroyed only while nobody has it, and a destroyed one is never locked
  again. So nobody has it later.
- `FreeingLate`. `Phases` ties the threads to `serverOFF`: `serverON` is true until the signal
  has begun to run, `main` leaves its loop only when it runs or is to run, and does not
  move while it does; a matcher goes to its end, and a handler to `"undefined"`, only when
  `serverON` is false.
- `WindingDown`. Each step of a matcher with `serverON` false, by itself, against the measure
  `StepsLeft`. With `Owning` and the fairness of `FairSpec` it is why a matcher that is awake
  ends; that it does is left to TLC (`SleepersEnd`).

`QueueLemmas` holds what several of them need: which client stands where, and who stands
in a queue at all, after `Append`, `Tail`, `RemoveAt`, `DeleteNickname` and the removal of a
pair. Induction along the positions of a sequence is a lemma there, too (`UpTo`): a set
of naturals has a least member (`LeastNumber`), since finite sets are well-founded under
inclusion, and a set in place of a predicate makes the step first-order.

Only model-checked:

- the registry: its refinement, `CheckIsExact`, and `InOrder` and `Balanced` of the tree, all
  with at most six clients inside; with seven `forgets` shows what happens. `AVLTree` consists of
  recursive operators, which the prover cannot take, and its properties are
  inductions over trees;
- the liveness properties `MatchedPairTalks`, `SleeperReleased`, `StopIsHeard`, `EndIsNoticed`,
  `MainEnds` and `SleepersEnd`: fairness and ENABLED are out of the prover's reach.

## Plan

Done: matchmaking with its history and the lobby it implements, the queue on nodes, the
registry on a tree, the chat, the dialogue, the shutdown; and, for every instance, each
invariant, each action property and each refinement that the runs check, but those of the
registry. Left:

1. The tree of `AVL.c` as functions on a heap of nodes, without recursion, as `LinkedQueue` has the
   list: its order and the numbers in it could then be proved up to the deletion that
   loses some.
2. The liveness properties, with a prover that takes fairness; `WindsDown` and
   `ConfirmationAhead` are the safety that two of them rest on.

Not modelled: `dequeue`, `printQueue` (never called) and the printing of the tree; what
`setupConnection` and the attributes of threads and mutexes set (calls to the library);
the terminal handling and screens of the client program; allocations that fail, and the
sizes of those that are too small; the network addresses beyond their equality; and
`Lista/` and `Test/`, stand-alone copies that nothing links.
