--------------------------- MODULE ShutdownProofs ---------------------------
(***************************************************************************)
(* No room is freed under a handler, nothing is freed before the server is *)
(* off, and then every matcher winds down: the proofs for any number of    *)
(* rooms and of handlers.                                                  *)
(***************************************************************************)
EXTENDS Shutdown, TLAPS

MatcherPlace == {"lock", "test", "wait", "asleep", "woken", "search", "again",
                 "emptied", "destroyed", "freed", "cancelled"}

\* The domains and ranges that the other parts rely on.
Shapes ==
    /\ serverON \in BOOLEAN /\ socketServer \in BOOLEAN
    /\ main \in {"test", "accept", "ended"} \cup DOMAIN Teardown
    /\ signal \in {"none", "pending", "running", "done"} /\ nextRoom \in 1..(RoomCount + 1)
    /\ matcher \in [Room -> MatcherPlace]
    /\ owner \in [Room -> {"nobody", "matcher"} \cup Handler]
    /\ handler \in [Handler -> {"none", "running", "lock", "holds", "ended", "undefined"}]
    /\ target \in [Handler -> Room]

\* A matcher has its room's mutex exactly where the code holds it.
MatcherOwns ==
    \A r \in Room : owner[r] = "matcher" <=> matcher[r] \in {"test", "wait", "search"}

\* A handler in a critical section has the mutex of the room it turned to.
HandlerOwns == \A h \in Handler : handler[h] = "holds" => owner[target[h]] = h

\* Once a mutex has been destroyed nobody has it.
DestroyedIsFree ==
    \A r \in Room : matcher[r] \in {"destroyed", "freed"} => owner[r] = "nobody"

ShutdownInv == Shapes /\ MatcherOwns /\ HandlerOwns /\ DestroyedIsFree

\* A signal wakes the matcher of the room, if it is asleep, and touches no other.
LEMMA Waking ==
    ASSUME matcher \in [Room -> MatcherPlace], NEW r \in Room
    PROVE  /\ Woken(r) \in [Room -> MatcherPlace]
           /\ \A s \in Room : Woken(r)[s] = matcher[s] \/ (matcher[s] = "asleep" /\ Woken(r)[s] = "woken")
<1> DEFINE place == IF matcher[r] = "asleep" THEN "woken" ELSE matcher[r]
<1>1. place \in MatcherPlace /\ (place = matcher[r] \/ (matcher[r] = "asleep" /\ place = "woken"))
    BY DEF MatcherPlace
<1>2. Woken(r) = [matcher EXCEPT ![r] = place]
    BY DEF Woken
<1> HIDE DEF place
<1> QED BY <1>1, <1>2

\* At the start nobody has a mutex.
LEMMA ShutdownStart == Init => ShutdownInv
BY RoomsAreThere DEF Init, ShutdownInv, Shapes, MatcherPlace, MatcherOwns, HandlerOwns, DestroyedIsFree, Room

\* main and serverOFF take no mutex; of the matchers they touch only one that is
\* asleep.
LEMMA MainKeeps ==
    ASSUME ShutdownInv,
           MainStep \/ AcceptFails \/ Interrupt \/ \E h \in Handler : Accept(h)
    PROVE  ShutdownInv'
<1> USE DEF ShutdownInv
<1>1. CASE SignalRoom
  <2>1. nextRoom \in Room /\ matcher' = Woken(nextRoom) /\ nextRoom' = nextRoom + 1
      BY <1>1 DEF SignalRoom, SignalGoes
  <2>2. nextRoom' \in 1..(RoomCount + 1)
      BY <2>1, RoomsAreThere DEF Room
  <2>3. Shapes'
      BY <1>1, <2>1, <2>2, Waking DEF Shapes, SignalRoom, SignalGoes
  <2>4. UNCHANGED <<owner, target, handler>>
      BY <1>1 DEF SignalRoom, SignalGoes
  <2>5. \A r \in Room : matcher'[r] = matcher[r] \/ (matcher[r] = "asleep" /\ matcher'[r] = "woken")
      BY <2>1, Waking DEF Shapes
  <2>6. MatcherOwns' /\ DestroyedIsFree'
      BY <2>4, <2>5 DEF MatcherOwns, DestroyedIsFree
  <2> QED BY <2>3, <2>4, <2>6 DEF HandlerOwns
<1>2. CASE ~SignalRoom
  <2>1. CASE MainTests \/ AcceptFindsClosed \/ SwitchOff \/ CloseSocket \/ AcceptFails \/ Interrupt
    <3>1. UNCHANGED <<matcher, owner, handler, target>>
        BY <2>1 DEF MainTests, AcceptFindsClosed, SwitchOff, CloseSocket, AcceptFails, Interrupt,
           MainGoes, SignalGoes
    <3>2. main' \in {"test", "accept", "ended"} \cup DOMAIN Teardown
        BY <2>1 DEF Shapes, MainTests, MainGoes, AcceptFindsClosed, SwitchOff, CloseSocket,
           AcceptFails, Interrupt, SignalGoes, Teardown
    <3>3. /\ serverON' \in BOOLEAN /\ socketServer' \in BOOLEAN
          /\ signal' \in {"none", "pending", "running", "done"} /\ nextRoom' = nextRoom
        BY <2>1 DEF Shapes, MainTests, MainGoes, AcceptFindsClosed, SwitchOff, CloseSocket, AcceptFails, Interrupt,
           SignalGoes
    <3> QED BY <3>1, <3>2, <3>3 DEF Shapes, MatcherOwns, HandlerOwns, DestroyedIsFree
  <2>2. CASE MainFrees
    <3>1. UNCHANGED <<serverON, socketServer, signal, nextRoom, matcher, owner, handler, target>>
        BY <2>2 DEF MainFrees, MainGoes
    <3>2. PICK place \in DOMAIN Teardown : main' = Teardown[place]
        BY <2>2 DEF MainFrees, MainGoes
    <3>3. main' \in {"test", "accept", "ended"} \cup DOMAIN Teardown
        BY <3>2 DEF Teardown
    <3> QED BY <3>1, <3>3 DEF Shapes, MatcherOwns, HandlerOwns, DestroyedIsFree
  <2>3. ASSUME NEW h \in Handler, Accept(h) PROVE ShutdownInv'
    <3>1. UNCHANGED <<serverON, socketServer, signal, nextRoom, matcher, owner, target>> /\ main' = "test"
        BY <2>3 DEF Accept, MainGoes
    <3>2. handler' = [handler EXCEPT ![h] = "running"]
        BY <2>3 DEF Accept
    <3>3. \A g \in Handler : handler'[g] = "holds" => handler[g] = "holds"
        BY <3>2 DEF Shapes
    <3> QED BY <3>1, <3>2, <3>3 DEF Shapes, MatcherOwns, HandlerOwns, DestroyedIsFree
  <2> QED BY <1>2, <2>1, <2>2, <2>3 DEF MainStep
<1> QED BY <1>1, <1>2

\* A matcher takes a mutex that nobody has, gives back its own, and destroys one
\* that nobody has; none of these is in the hands of a handler.
LEMMA MatcherKeeps ==
    ASSUME ShutdownInv, NEW r \in Room, MatcherLocks(r) \/ MatcherStep(r)
    PROVE  ShutdownInv'
<1> USE DEF ShutdownInv
<1>1. Shapes'
    BY DEF Shapes, MatcherPlace, MatcherLocks, MatcherStep, MatcherTests, MatcherSleeps,
       MatcherSearches, MatcherRepeats, DestroyMutex, FreeRoom, MatcherGoes, mainVars
<1>2. UNCHANGED <<handler, target>>
    BY DEF MatcherLocks, MatcherStep, MatcherTests, MatcherSleeps, MatcherSearches,
       MatcherRepeats, DestroyMutex, FreeRoom, MatcherGoes
<1>3. \A s \in Room \ {r} : matcher'[s] = matcher[s] /\ owner'[s] = owner[s]
    BY DEF Shapes, MatcherLocks, MatcherStep, MatcherTests, MatcherSleeps, MatcherSearches,
       MatcherRepeats, DestroyMutex, FreeRoom, MatcherGoes
<1>4. owner'[r] = "matcher" <=> matcher'[r] \in {"test", "wait", "search"}
    BY DEF Shapes, MatcherOwns, MatcherLocks, MatcherStep, MatcherTests, MatcherSleeps,
       MatcherSearches, MatcherRepeats, DestroyMutex, FreeRoom, MatcherGoes
<1>5. owner'[r] = owner[r] \/ owner[r] \in {"nobody", "matcher"}
    BY DEF Shapes, MatcherOwns, MatcherLocks, MatcherStep, MatcherTests, MatcherSleeps,
       MatcherSearches, MatcherRepeats, DestroyMutex, FreeRoom, MatcherGoes
<1>6. matcher'[r] \in {"destroyed", "freed"} => owner'[r] = "nobody"
    BY DEF Shapes, DestroyedIsFree, MatcherLocks, MatcherStep, MatcherTests, MatcherSleeps,
       MatcherSearches, MatcherRepeats, DestroyMutex, FreeRoom, MatcherGoes
<1>7. MatcherOwns'
    BY <1>3, <1>4 DEF MatcherOwns
<1>8. DestroyedIsFree'
    BY <1>3, <1>6 DEF DestroyedIsFree
<1>9. HandlerOwns'
  <2> SUFFICES ASSUME NEW h \in Handler, handler[h] = "holds" PROVE owner'[target[h]] = h
      BY <1>2 DEF HandlerOwns
  <2>1. target[h] \in Room /\ owner[target[h]] = h
      BY DEF Shapes, HandlerOwns
  <2>2. h \notin {"nobody", "matcher"}
      BY OwnersDiffer
  <2> QED BY <1>3, <1>5, <2>1, <2>2
<1> QED BY <1>1, <1>7, <1>8, <1>9

\* A handler takes a mutex that nobody has and that is still there, and gives back
\* its own.
LEMMA HandlerKeeps ==
    ASSUME ShutdownInv, NEW h \in Handler,
           HandlerReleases(h) \/ HandlerEnds(h) \/ \E r \in Room : HandlerTurnsTo(h, r)
    PROVE  ShutdownInv'
<1> USE DEF ShutdownInv
<1> DEFINE t == target[h]
<1>0. t \in Room /\ h \notin {"nobody", "matcher"} /\ h \in Handler
    BY OwnersDiffer DEF Shapes
<1>1. CASE HandlerLocks(h)
  <2>1. Shapes'
      BY <1>0, <1>1 DEF Shapes, HandlerLocks, mainVars
  <2>2. \A s \in Room : owner'[s] = IF s = t THEN h ELSE owner[s]
      BY <1>0, <1>1 DEF Shapes, HandlerLocks
  <2>3. owner[t] = "nobody" /\ matcher[t] \notin {"destroyed", "freed"} /\ UNCHANGED <<matcher, target>>
      BY <1>1 DEF HandlerLocks
  <2>4. MatcherOwns' /\ DestroyedIsFree'
      BY <1>0, <2>2, <2>3 DEF MatcherOwns, DestroyedIsFree
  <2>5. ASSUME NEW g \in Handler, handler'[g] = "holds" PROVE owner'[target[g]] = g
    <3>1. CASE g = h
        BY <1>0, <2>2, <3>1
    <3>2. CASE g # h
      <4>1. handler[g] = "holds"
          BY <1>1, <2>5, <3>2 DEF Shapes, HandlerLocks
      <4>2. owner[target[g]] = g /\ target[g] \in Room /\ g # "nobody"
          BY <4>1, OwnersDiffer DEF HandlerOwns, Shapes
      <4> QED BY <2>2, <2>3, <4>2
    <3> QED BY <3>1, <3>2
  <2> QED BY <2>1, <2>3, <2>4, <2>5 DEF HandlerOwns
<1>2. CASE HandlerUnlocks(h)
  <2>0. matcher' \in [Room -> MatcherPlace]
      BY <1>0, <1>2, Waking DEF Shapes, HandlerUnlocks
  <2>1. Shapes'
      BY <1>0, <1>2, <2>0 DEF Shapes, HandlerUnlocks, mainVars
  <2>2. \A s \in Room : owner'[s] = IF s = t THEN "nobody" ELSE owner[s]
      BY <1>0, <1>2 DEF Shapes, HandlerUnlocks
  <2>3. owner[t] = h /\ UNCHANGED target
      BY <1>2 DEF HandlerUnlocks, HandlerOwns
  <2>4. \A s \in Room : matcher'[s] = matcher[s] \/ (matcher[s] = "asleep" /\ matcher'[s] = "woken")
      BY <1>0, <1>2, Waking DEF Shapes, HandlerUnlocks
  <2>5. MatcherOwns' /\ DestroyedIsFree'
      BY <1>0, <2>2, <2>3, <2>4 DEF MatcherOwns, DestroyedIsFree
  <2>6. ASSUME NEW g \in Handler, handler'[g] = "holds" PROVE owner'[target[g]] = g
    <3>1. g # h /\ handler[g] = "holds"
        BY <1>2, <2>6 DEF Shapes, HandlerUnlocks
    <3>2. owner[target[g]] = g /\ target[g] \in Room
        BY <3>1 DEF HandlerOwns, Shapes
    <3> QED BY <2>2, <2>3, <3>1, <3>2
  <2> QED BY <2>1, <2>3, <2>5, <2>6 DEF HandlerOwns
<1>3. CASE HandlerLocksNothing(h) \/ HandlerEnds(h) \/ \E r \in Room : HandlerTurnsTo(h, r)
  <2>1. Shapes'
      BY <1>3 DEF Shapes, HandlerLocksNothing, HandlerEnds, HandlerTurnsTo, mainVars
  <2>2. UNCHANGED <<matcher, owner>>
      BY <1>3 DEF HandlerLocksNothing, HandlerEnds, HandlerTurnsTo
  <2>3. \A g \in Handler : handler'[g] = "holds" => handler[g] = "holds" /\ target'[g] = target[g]
      BY <1>3 DEF Shapes, HandlerLocksNothing, HandlerEnds, HandlerTurnsTo
  <2> QED BY <2>1, <2>2, <2>3 DEF MatcherOwns, HandlerOwns, DestroyedIsFree
<1> QED BY <1>1, <1>2, <1>3 DEF HandlerReleases

\* Every step keeps the invariant.
LEMMA ShutdownStep == ShutdownInv /\ [Next]_vars => ShutdownInv'
<1> SUFFICES ASSUME ShutdownInv, [Next]_vars PROVE ShutdownInv'
    OBVIOUS
<1>1. CASE UNCHANGED vars
    BY <1>1 DEF vars, mainVars, ShutdownInv, Shapes, MatcherOwns, HandlerOwns, DestroyedIsFree
<1>2. CASE Next
    BY <1>2, MainKeeps, MatcherKeeps, HandlerKeeps DEF Next
<1> QED BY <1>1, <1>2

\* The types, and a room's mutex in the hands of its matcher exactly where the
\* matcher tests and searches, in every state of a server that is shut down at any
\* moment.
THEOREM Owning == Spec => []TypeOK
<1>1. ShutdownInv => TypeOK
    BY DEF ShutdownInv, Shapes, MatcherOwns, TypeOK
<1> QED BY <1>1, ShutdownStart, ShutdownStep, PTL DEF Spec

\* destroyRoom, which takes no mutex, never destroys or frees a room while a
\* handler is inside its critical section.
THEOREM Destroying == Spec => []NeverFreedInside
<1>1. ShutdownInv => NeverFreedInside
  <2> SUFFICES ASSUME ShutdownInv, NEW h \in Handler, handler[h] = "holds"
               PROVE  matcher[target[h]] \notin {"destroyed", "freed"}
      BY DEF NeverFreedInside
  <2>1. owner[target[h]] = h /\ target[h] \in Room /\ h # "nobody"
      BY OwnersDiffer DEF ShutdownInv, HandlerOwns, Shapes
  <2> QED BY <2>1 DEF ShutdownInv, DestroyedIsFree
<1> QED BY <1>1, ShutdownStart, ShutdownStep, PTL DEF Spec

-----------------------------------------------------------------------------
(***************************************************************************)
(* How far main, serverOFF and the matchers are from each other.           *)
(***************************************************************************)
Leaving == {"attributes", "tree", "mutex", "registry", "ended"}
Over == {"emptied", "destroyed", "freed", "cancelled"}

\* serverON is false from the first line of serverOFF on; main leaves its loop when
\* the signal is there, and frees when serverOFF has returned.
Phases ==
    /\ signal \in {"running", "done"} <=> ~serverON
    /\ ~socketServer => signal = "done"
    /\ main \in Leaving => signal # "none"
    /\ main \in Leaving \ {"attributes"} => signal = "done"
    /\ serverON => \A r \in Room : matcher[r] \notin Over
    /\ serverON => \A h \in Handler : handler[h] # "undefined"

\* main does not move while serverOFF runs, and serverOFF is in no hurry.
LEMMA MainPhases ==
    ASSUME ShutdownInv, Phases, MainStep \/ AcceptFails \/ Interrupt \/ \E h \in Handler : Accept(h)
    PROVE  Phases'
<1> DEFINE Gone == \A r \in Room : matcher[r] \notin Over
           Well == \A h \in Handler : handler[h] # "undefined"
<1>1. (Gone => Gone') /\ (Well => Well')
  <2>1. CASE SignalRoom
    <3>1. nextRoom \in Room /\ matcher' = Woken(nextRoom) /\ UNCHANGED handler
        BY <2>1 DEF SignalRoom, SignalGoes
    <3>2. \A s \in Room : matcher'[s] = matcher[s] \/ matcher'[s] = "woken"
        BY <3>1, Waking DEF ShutdownInv, Shapes
    <3> QED BY <3>1, <3>2 DEF Over
  <2>2. CASE \E h \in Handler : Accept(h)
      BY <2>2 DEF ShutdownInv, Shapes, Accept, MainGoes
  <2>3. CASE UNCHANGED <<matcher, handler>>
      BY <2>3
  <2> QED BY <2>1, <2>2, <2>3 DEF MainStep, MainTests, MainGoes, AcceptFindsClosed, MainFrees, SwitchOff, CloseSocket,
             SignalGoes, AcceptFails, Interrupt
<1> HIDE DEF Gone, Well
<1>2. serverON \in BOOLEAN /\ socketServer \in BOOLEAN /\ main \in {"test", "accept", "ended"} \cup DOMAIN Teardown
    BY DEF ShutdownInv, Shapes
<1>3. /\ signal' \in {"running", "done"} <=> ~serverON'
      /\ ~socketServer' => signal' = "done"
      /\ main' \in Leaving => signal' # "none"
      /\ main' \in Leaving \ {"attributes"} => signal' = "done"
      /\ serverON' => serverON
  <2>1. CASE MainTests \/ AcceptFindsClosed \/ AcceptFails \/ \E h \in Handler : Accept(h)
      BY <1>2, <2>1 DEF Phases, Leaving, MainTests, AcceptFindsClosed, AcceptFails, Accept, MainGoes
  <2>2. CASE MainFrees
    <3>1. PICK place \in DOMAIN Teardown : MainGoes(place, Teardown[place])
        BY <2>2 DEF MainFrees
    <3>2. place \in Leaving \ {"ended"} /\ main = place /\ signal \notin {"pending", "running"}
        BY <3>1 DEF Teardown, MainGoes, Leaving
    <3>3. UNCHANGED <<signal, serverON, socketServer>>
        BY <2>2, <3>1 DEF MainFrees, MainGoes
    <3>4. signal = "done"
        BY <3>2 DEF ShutdownInv, Shapes, Phases, Leaving
    <3> QED BY <3>3, <3>4 DEF Phases
  <2>3. CASE Interrupt \/ SwitchOff \/ SignalRoom \/ CloseSocket
      BY <1>2, <2>3 DEF Phases, Leaving, Interrupt, SwitchOff, SignalRoom, CloseSocket, SignalGoes
  <2> QED BY <2>1, <2>2, <2>3 DEF MainStep
<1> QED BY <1>1, <1>3 DEF Phases, Gone, Well

\* A matcher leaves its loop, and a handler meets what has been freed, only when the
\* server is off.
LEMMA ThreadPhases ==
    ASSUME ShutdownInv, Phases,
           \/ \E r \in Room : MatcherLocks(r) \/ MatcherStep(r)
           \/ \E h \in Handler : HandlerReleases(h) \/ HandlerEnds(h) \/ \E r \in Room : HandlerTurnsTo(h, r)
    PROVE  Phases'
<1>1. UNCHANGED mainVars
    BY DEF MatcherLocks, MatcherStep, MatcherTests, MatcherSleeps, MatcherSearches, MatcherRepeats, DestroyMutex,
       FreeRoom, MatcherGoes, HandlerReleases, HandlerLocks, HandlerLocksNothing, HandlerUnlocks, HandlerEnds,
       HandlerTurnsTo
<1>2. serverON => \A r \in Room : matcher'[r] \notin Over
  <2> SUFFICES ASSUME serverON, NEW r \in Room PROVE matcher'[r] \notin Over
      OBVIOUS
  <2>1. matcher[r] \notin Over
      BY DEF Phases
  <2>2. ASSUME NEW s \in Room, MatcherLocks(s) \/ MatcherStep(s) PROVE matcher'[r] \notin Over
      BY <2>1, <2>2 DEF ShutdownInv, Shapes, Over, MatcherLocks, MatcherStep, MatcherTests, MatcherSleeps, MatcherSearches,
         MatcherRepeats, DestroyMutex, FreeRoom, MatcherGoes
  <2>3. ASSUME NEW h \in Handler, HandlerReleases(h) \/ HandlerEnds(h) \/ \E s \in Room : HandlerTurnsTo(h, s)
        PROVE  matcher'[r] \notin Over
    <3>1. matcher' = matcher \/ matcher' = Woken(target[h])
        BY <2>3 DEF HandlerReleases, HandlerLocks, HandlerLocksNothing, HandlerUnlocks, HandlerEnds, HandlerTurnsTo
    <3>2. target[h] \in Room
        BY DEF ShutdownInv, Shapes
    <3>3. matcher'[r] = matcher[r] \/ matcher'[r] = "woken"
        BY <3>1, <3>2, Waking DEF ShutdownInv, Shapes
    <3> QED BY <2>1, <3>3 DEF Over
  <2> QED BY <2>2, <2>3
<1>3. serverON => \A h \in Handler : handler'[h] # "undefined"
  <2> SUFFICES ASSUME serverON, NEW g \in Handler PROVE handler'[g] # "undefined"
      OBVIOUS
  <2>1. handler[g] # "undefined" /\ main \notin {"registry", "ended"} /\ signal # "done"
      BY DEF Phases, Leaving
  <2>2. \A r \in Room : matcher[r] # "freed"
      BY DEF Phases, Over
  <2>3. ASSUME NEW h \in Handler, HandlerReleases(h) \/ HandlerEnds(h) \/ \E s \in Room : HandlerTurnsTo(h, s)
        PROVE  handler'[g] # "undefined"
    <3>1. target[h] \in Room
        BY DEF ShutdownInv, Shapes
    <3> QED BY <2>1, <2>2, <2>3, <3>1 DEF ShutdownInv, Shapes, HandlerReleases, HandlerLocks, HandlerLocksNothing,
               HandlerUnlocks, HandlerEnds, HandlerTurnsTo
  <2>4. ASSUME NEW s \in Room, MatcherLocks(s) \/ MatcherStep(s) PROVE UNCHANGED handler
      BY <2>4 DEF MatcherLocks, MatcherStep, MatcherTests, MatcherSleeps, MatcherSearches, MatcherRepeats, DestroyMutex,
         FreeRoom, MatcherGoes
  <2> QED BY <2>1, <2>3, <2>4
<1> QED BY <1>1, <1>2, <1>3 DEF Phases, mainVars

\* Nothing is freed, and no handler meets what was freed, before the server is off,
\* and main frees the registry after serverOFF has returned.
THEOREM FreeingLate == Spec => []NothingFreedEarly
<1>1. Init => Phases
    BY DEF Init, Phases, Leaving, Over
<1>2. ShutdownInv /\ Phases /\ [Next]_vars => Phases'
  <2> SUFFICES ASSUME ShutdownInv, Phases, [Next]_vars PROVE Phases'
      OBVIOUS
  <2>1. CASE UNCHANGED vars
      BY <2>1 DEF vars, mainVars, Phases
  <2> QED BY <2>1, MainPhases, ThreadPhases DEF Next
<1>3. Phases => NothingFreedEarly
    BY DEF Phases, Leaving, Over, NothingFreedEarly
<1> QED BY <1>1, <1>2, <1>3, ShutdownStart, ShutdownStep, PTL DEF Spec

\* Once the server is off every step of a matcher brings it nearer its end: no search
\* is repeated and no sleep begins that was not decided on before.
THEOREM WindingDown == Spec => WindsDown
<1>1. ASSUME ShutdownInv, [Next]_vars
      PROVE  [~serverON => \A r \in Room : matcher'[r] = matcher[r] \/ StepsLeft[matcher'[r]] < StepsLeft[matcher[r]]]_vars
  <2> SUFFICES ASSUME Next, ~serverON, NEW r \in Room
               PROVE  matcher'[r] = matcher[r] \/ StepsLeft[matcher'[r]] < StepsLeft[matcher[r]]
      BY <1>1
  <2>0. ShutdownInv
      BY <1>1
  <2>1. ASSUME matcher[r] = "asleep", matcher'[r] = "woken" PROVE StepsLeft[matcher'[r]] < StepsLeft[matcher[r]]
      BY <2>1 DEF StepsLeft
  <2>2. CASE MainStep \/ AcceptFails \/ Interrupt \/ \E h \in Handler : Accept(h)
    <3>1. CASE SignalRoom
      <4>1. nextRoom \in Room /\ matcher' = Woken(nextRoom)
          BY <3>1 DEF SignalRoom
      <4> QED BY <2>0, <2>1, <4>1, Waking DEF ShutdownInv, Shapes
    <3>2. CASE ~SignalRoom
        BY <2>2, <3>2 DEF MainStep, MainTests, MainGoes, AcceptFindsClosed, MainFrees, SwitchOff, CloseSocket, AcceptFails,
           Interrupt, Accept
    <3> QED BY <3>1, <3>2
  <2>3. ASSUME NEW s \in Room, MatcherLocks(s) \/ MatcherStep(s)
        PROVE  matcher'[r] = matcher[r] \/ StepsLeft[matcher'[r]] < StepsLeft[matcher[r]]
    <3>1. PICK from, to : /\ matcher[s] = from /\ matcher' = [matcher EXCEPT ![s] = to]
                          /\ <<from, to>> \in {<<"lock", "test">>, <<"woken", "test">>, <<"test", "search">>,
                                <<"wait", "asleep">>, <<"search", "again">>, <<"again", "emptied">>,
                                <<"emptied", "destroyed">>, <<"emptied", "cancelled">>, <<"destroyed", "freed">>}
        BY <2>3 DEF MatcherLocks, MatcherStep, MatcherTests, MatcherSleeps, MatcherSearches, MatcherRepeats,
           DestroyMutex, FreeRoom, MatcherGoes
    <3>2. StepsLeft[to] < StepsLeft[from]
        BY <3>1 DEF StepsLeft
    <3> QED BY <2>0, <3>1, <3>2 DEF ShutdownInv, Shapes
  <2>4. ASSUME NEW h \in Handler, HandlerReleases(h) \/ HandlerEnds(h) \/ \E s \in Room : HandlerTurnsTo(h, s)
        PROVE  matcher'[r] = matcher[r] \/ StepsLeft[matcher'[r]] < StepsLeft[matcher[r]]
    <3>1. matcher' = matcher \/ matcher' = Woken(target[h])
        BY <2>4 DEF HandlerReleases, HandlerLocks, HandlerLocksNothing, HandlerUnlocks, HandlerEnds, HandlerTurnsTo
    <3>2. target[h] \in Room
        BY <2>0 DEF ShutdownInv, Shapes
    <3> QED BY <2>0, <2>1, <3>1, <3>2, Waking DEF ShutdownInv, Shapes
  <2> QED BY <2>2, <2>3, <2>4 DEF Next
<1> QED BY <1>1, ShutdownStart, ShutdownStep, PTL DEF Spec, WindsDown
=============================================================================
