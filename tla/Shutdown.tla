------------------------------ MODULE Shutdown ------------------------------
(***************************************************************************)
(* The life of the server: main accepts clients until a SIGINT, whose      *)
(* handler serverOFF runs in the middle of main, wakes the matchers of the *)
(* rooms one by one and closes the socket; main then frees the registry    *)
(* and each matcher its own room.  The handlers of the clients are told    *)
(* nothing: they are the users of the rooms and of the registry.           *)
(***************************************************************************)
EXTENDS Naturals

CONSTANTS
    RoomCount,    \* MAX_NUM_ROOMS
    Handler       \* a bound: the clients that are accepted

ASSUME RoomsAreThere == RoomCount \in Nat \ {0}
ASSUME OwnersDiffer == {"nobody", "matcher"} \cap Handler = {}

Room == 1..RoomCount

VARIABLES
    serverON,
    socketServer,  \* whether it is open
    main,          \* where main is
    signal,        \* SIGINT: "none", "pending", "running", "done"; there is one
    nextRoom,      \* the i of serverOFF
    matcher,       \* where gestisciRoom of each room is
    owner,         \* who has the mutex of each room: "nobody", "matcher" or a handler
    handler,       \* where gestisciClient of each client is
    target         \* the room a handler locks

mainVars == <<serverON, socketServer, main, signal, nextRoom>>
vars == <<mainVars, matcher, owner, handler, target>>

Init ==
    /\ serverON = TRUE /\ socketServer = TRUE
    /\ main = "test" /\ signal = "none" /\ nextRoom = 1
    /\ matcher = [r \in Room |-> "lock"] /\ owner = [r \in Room |-> "nobody"]
    /\ handler = [h \in Handler |-> "none"] /\ target = [h \in Handler |-> 1]

-----------------------------------------------------------------------------
(***************************************************************************)
(* main, while serverOFF is not running.                                   *)
(***************************************************************************)
\* A mistake to test the properties with: another thread runs serverOFF.
MainGoesOn(from, to) ==
    /\ main = from /\ main' = to
    /\ UNCHANGED <<serverON, socketServer, nextRoom, matcher, owner, target>>

MainGoes(from, to) ==
    /\ main = from /\ main' = to
    /\ signal \notin {"pending", "running"}
    /\ UNCHANGED <<serverON, socketServer, nextRoom, matcher, owner, target>>

MainTests == MainGoes("test", IF serverON THEN "accept" ELSE "attributes") /\ UNCHANGED <<signal, handler>>

\* A thread is created for the new client.
Accept(h) ==
    /\ MainGoes("accept", "test")
    /\ socketServer
    /\ handler[h] = "none"
    /\ handler' = [handler EXCEPT ![h] = "running"]
    /\ UNCHANGED signal

\* EBADF is SERVER_OFF.
AcceptFindsClosed == MainGoes("accept", "attributes") /\ ~socketServer /\ UNCHANGED <<signal, handler>>

\* accept or an allocation fails: main sends itself the signal, and leaves the loop.
AcceptFails ==
    /\ MainGoes("accept", "attributes")
    /\ signal = "none" /\ signal' = "pending"
    /\ UNCHANGED handler

\* The attributes, the nodes of the tree, its mutex and its root are freed.
Teardown == [attributes |-> "tree", tree |-> "mutex", mutex |-> "registry", registry |-> "ended"]

MainFrees == (\E place \in DOMAIN Teardown : MainGoes(place, Teardown[place])) /\ UNCHANGED <<signal, handler>>

-----------------------------------------------------------------------------
(***************************************************************************)
(* serverOFF.  A call of accept that it interrupts is started again.       *)
(***************************************************************************)
SignalGoes(from, to) ==
    /\ signal = from /\ signal' = to
    /\ UNCHANGED <<main, owner, handler, target>>

Interrupt ==
    /\ SignalGoes("none", "pending")
    /\ main # "ended"
    /\ UNCHANGED <<serverON, socketServer, nextRoom, matcher>>

SwitchOff ==
    /\ SignalGoes("pending", "running")
    /\ serverON' = FALSE
    /\ UNCHANGED <<socketServer, nextRoom, matcher>>

\* pthread_cond_signal wakes the matcher that sleeps, and nobody if none does, or if
\* the room is no longer there.
Woken(r) == [matcher EXCEPT ![r] = IF @ = "asleep" THEN "woken" ELSE @]

SignalRoom ==
    /\ SignalGoes("running", "running")
    /\ nextRoom \in Room /\ nextRoom' = nextRoom + 1
    /\ matcher' = Woken(nextRoom)
    /\ UNCHANGED <<serverON, socketServer>>

\* A mistake to test the properties with: the socket is left open.
LeaveSocketOpen ==
    /\ SignalGoes("running", "done")
    /\ nextRoom \notin Room
    /\ UNCHANGED <<serverON, socketServer, nextRoom, matcher>>

CloseSocket ==
    /\ SignalGoes("running", "done")
    /\ nextRoom \notin Room
    /\ socketServer' = FALSE
    /\ UNCHANGED <<serverON, nextRoom, matcher>>

-----------------------------------------------------------------------------
(***************************************************************************)
(* gestisciRoom.  What the queue holds is left open: a search or a sleep.  *)
(***************************************************************************)
MatcherGoes(r, from, to, holder) ==
    /\ matcher[r] = from /\ matcher' = [matcher EXCEPT ![r] = to]
    /\ owner' = [owner EXCEPT ![r] = holder]
    /\ UNCHANGED <<mainVars, handler, target>>

\* The mutex is taken at the top of the loop and on the return from the wait.
MatcherLocks(r) ==
    /\ owner[r] = "nobody"
    /\ \E from \in {"lock", "woken"} : MatcherGoes(r, from, "test", "matcher")

MatcherTests(r) ==
    \/ MatcherGoes(r, "test", "search", "matcher")
    \/ serverON /\ MatcherGoes(r, "test", "wait", "matcher")

MatcherSleeps(r) == MatcherGoes(r, "wait", "asleep", "nobody")

\* A mistake to test the properties with: the mutex is kept.
MatcherSearchesOn(r) == MatcherGoes(r, "search", "again", "matcher")

\* The pair's chat is started, if serverON still holds, and the mutex released.
MatcherSearches(r) == MatcherGoes(r, "search", "again", "nobody")

\* A mistake to test the properties with: the loop goes on for ever.
MatcherNeverStops(r) == MatcherGoes(r, "again", "lock", owner[r])

MatcherRepeats(r) == MatcherGoes(r, "again", IF serverON THEN "lock" ELSE "emptied", owner[r])

\* A mistake to test the properties with: the result is not looked at.
DestroyAnyway(r) == MatcherGoes(r, "emptied", "destroyed", owner[r])

\* destroyRoom frees the nodes of the queue and destroys the mutex; if somebody has
\* it that fails, and the wrapper cancels the thread before anything else is freed.
DestroyMutex(r) == MatcherGoes(r, "emptied", IF owner[r] = "nobody" THEN "destroyed" ELSE "cancelled", owner[r])

FreeRoom(r) == MatcherGoes(r, "destroyed", "freed", owner[r])

-----------------------------------------------------------------------------
(***************************************************************************)
(* gestisciClient, as a user of the rooms and of the registry.             *)
(***************************************************************************)
HandlerTurnsTo(h, r) ==
    /\ handler[h] = "running"
    /\ handler' = [handler EXCEPT ![h] = "lock"]
    /\ target' = [target EXCEPT ![h] = r]
    /\ UNCHANGED <<mainVars, matcher, owner>>

HandlerLocks(h) ==
    /\ handler[h] = "lock"
    /\ matcher[target[h]] \notin {"destroyed", "freed"}
    /\ owner[target[h]] = "nobody"
    /\ owner' = [owner EXCEPT ![target[h]] = h]
    /\ handler' = [handler EXCEPT ![h] = "holds"]
    /\ UNCHANGED <<mainVars, matcher, target>>

\* A destroyed mutex is refused, and the wrapper cancels the handler; what a freed
\* one does is undefined.
HandlerLocksNothing(h) ==
    /\ handler[h] = "lock"
    /\ matcher[target[h]] \in {"destroyed", "freed"}
    /\ handler' = [handler EXCEPT ![h] = IF matcher[target[h]] = "freed" THEN "undefined" ELSE "ended"]
    /\ UNCHANGED <<mainVars, matcher, owner, target>>

\* The handler has read the room, or put its client in the queue and told the matcher.
HandlerUnlocks(h) ==
    /\ handler[h] = "holds"
    /\ matcher' \in {matcher, Woken(target[h])}
    /\ owner' = [owner EXCEPT ![target[h]] = "nobody"]
    /\ handler' = [handler EXCEPT ![h] = "running"]
    /\ UNCHANGED <<mainVars, target>>

\* The nickname is taken out of the registry, under its mutex.
HandlerEnds(h) ==
    /\ handler[h] = "running"
    /\ handler' = [handler EXCEPT ![h] = IF main \in {"registry", "ended"} THEN "undefined" ELSE "ended"]
    /\ UNCHANGED <<mainVars, matcher, owner, target>>

-----------------------------------------------------------------------------
MainStep == MainTests \/ AcceptFindsClosed \/ MainFrees \/ SwitchOff \/ SignalRoom \/ CloseSocket

MatcherStep(r) ==
    MatcherTests(r) \/ MatcherSleeps(r) \/ MatcherSearches(r) \/ MatcherRepeats(r)
        \/ DestroyMutex(r) \/ FreeRoom(r)

HandlerReleases(h) == HandlerLocks(h) \/ HandlerLocksNothing(h) \/ HandlerUnlocks(h)

Next ==
    \/ MainStep \/ AcceptFails \/ Interrupt
    \/ \E r \in Room : MatcherLocks(r) \/ MatcherStep(r)
    \/ \E h \in Handler :
         \/ Accept(h) \/ HandlerReleases(h) \/ HandlerEnds(h)
         \/ \E r \in Room : HandlerTurnsTo(h, r)

Spec == Init /\ [][Next]_vars

\* Every thread runs, and a mutex that is free again and again is got: between two
\* locks of a handler there is an answer of its client.
FairSpec ==
    /\ Spec
    /\ WF_vars(MainStep)
    /\ \A r \in Room : WF_vars(MatcherStep(r)) /\ SF_vars(MatcherLocks(r))
    /\ \A h \in Handler : WF_vars(HandlerReleases(h))

-----------------------------------------------------------------------------
\* The values of the variables, and who has a mutex is where it is had.
TypeOK ==
    /\ serverON \in BOOLEAN /\ socketServer \in BOOLEAN
    /\ main \in {"test", "accept", "ended"} \cup DOMAIN Teardown
    /\ signal \in {"none", "pending", "running", "done"} /\ nextRoom \in 1..(RoomCount + 1)
    /\ \A r \in Room : owner[r] = "matcher" <=> matcher[r] \in {"test", "wait", "search"}
    /\ \A h \in Handler : handler[h] \in {"none", "running", "lock", "holds", "ended", "undefined"}

\* destroyRoom runs without the room's mutex, yet the room is never destroyed, nor
\* its memory freed, under a handler that is inside its critical section.
NeverFreedInside ==
    \A h \in Handler : handler[h] = "holds" => matcher[target[h]] \notin {"destroyed", "freed"}

\* Nothing is freed early: main frees the registry when serverOFF has run to its end,
\* a matcher destroys its room when the server is off, and until then no handler
\* meets a mutex or a registry that is gone.
NothingFreedEarly ==
    /\ main \in {"tree", "mutex", "registry", "ended"} => signal = "done"
    /\ serverON => /\ \A r \in Room : matcher[r] \notin {"emptied", "destroyed", "freed", "cancelled"}
                   /\ \A h \in Handler : handler[h] # "undefined"

\* How far a matcher is from its end when the server is off.
StepsLeft == [wait |-> 8, asleep |-> 7, woken |-> 6, lock |-> 6, test |-> 5, search |-> 4, again |-> 3,
              emptied |-> 2, destroyed |-> 1, freed |-> 0, cancelled |-> 0]

\* Once the server is off no matcher goes round its loop again, nor goes to sleep
\* unless it had decided to before: each step it takes brings it nearer its end.
WindsDown ==
    [][~serverON => \A r \in Room : matcher'[r] = matcher[r] \/ StepsLeft[matcher'[r]] < StepsLeft[matcher[r]]]_vars

\* serverON, the rooms' condition variables and the socket are changed behind the
\* back of main, wherever it is, and main always leaves its loop and ends.
MainEnds == signal = "pending" ~> main = "ended"

\* A matcher that sleeps when serverOFF has not signalled its room yet wakes up, sees
\* that the server is off and ends, with its room freed or left to a handler.  (One
\* that has tested serverON before and sleeps after its signal does not.)
SleepersEnd ==
    \A r \in Room :
      (matcher[r] = "asleep" /\ ~serverON /\ nextRoom <= r) ~> matcher[r] \in {"freed", "cancelled"}
=============================================================================
