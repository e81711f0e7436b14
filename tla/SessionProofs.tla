---------------------------- MODULE SessionProofs ---------------------------
(***************************************************************************)
(* One chat, for any bounds on its messages: its timer only signals a      *)
(* thread it has read the identifier of; whoever it leaves behind has been *)
(* told how it ended; and what is said in it arrives in order.             *)
(***************************************************************************)
EXTENDS SessionProperties, QueueLemmas

\* Nobody but the timer sets chatTimedout, as its last step.
TimesOutLast == timer # "ended" => \A i \in Side : chatTimedout[i] = FALSE

\* A timer that has not started when its argument is about to be freed has been
\* cancelled.
FreedIsCancelled == timer = "created" /\ chatPC \in {"free", "over"} => cancelled

\* What it reads from there is never used, as it ends in its sleep.
GarbageIsCancelled == tid = "garbage" => cancelled /\ timer \in {"asleep", "ended"}

ReadBeforeSleep == timer \in {"asleep", "awake"} => tid \in {"chat", "garbage"}

CancelledOnce == cancelled \in BOOLEAN /\ (cancelled => chatPC \in {"free", "over"})

TimerInv ==
    /\ TimesOutLast
    /\ FreedIsCancelled
    /\ GarbageIsCancelled
    /\ ReadBeforeSleep
    /\ CancelledOnce

\* The invariant holds at the start.
LEMMA TimerStart == Init => TimerInv
BY DEF Init, TimerInv, TimesOutLast, FreedIsCancelled, GarbageIsCancelled,
       ReadBeforeSleep, CancelledOnce, Side

\* The relay loop does not touch the timer, and stays before the freeing.
LEMMA RelayKeepsTimer ==
    ASSUME TimerInv, chatPC' \in {"first", "select", "serve"},
           chatPC \in {"first", "select", "serve"}, UNCHANGED <<timerVars, chatTimedout>>
    PROVE  TimerInv'
BY DEF TimerInv, timerVars, TimesOutLast, FreedIsCancelled, GarbageIsCancelled,
       ReadBeforeSleep, CancelledOnce

\* The users do not touch the server's threads.
LEMMA OthersKeepTimer ==
    ASSUME TimerInv, UNCHANGED <<timerVars, chatVars>>
    PROVE  TimerInv'
BY DEF TimerInv, timerVars, chatVars, TimesOutLast, FreedIsCancelled,
       GarbageIsCancelled, ReadBeforeSleep, CancelledOnce

\* Every step keeps the invariant.
LEMMA TimerStepKeeps == TimerInv /\ [Next]_vars => TimerInv'
<1> SUFFICES ASSUME TimerInv, [Next]_vars PROVE TimerInv'
    OBVIOUS
<1> USE DEF TimerInv, TimesOutLast, FreedIsCancelled, GarbageIsCancelled,
            ReadBeforeSleep, CancelledOnce
<1>1. CASE SelectReady
    BY <1>1, RelayKeepsTimer DEF SelectReady, Selecting, timerVars
<1>2. ASSUME NEW i \in Side, Serve(i) PROVE TimerInv'
  <2>1. chatPC = "serve" /\ chatPC' \in {"select", "serve"}
        /\ UNCHANGED <<timerVars, chatTimedout>>
      BY <1>2 DEF Serve
  <2> QED BY <2>1, RelayKeepsTimer
<1>3. CASE CancelTimer
  <2>1. /\ chatPC # "free" /\ chatPC # "over" /\ chatPC' = "free"
        /\ cancelled' = \A i \in Side : ~chatTimedout[i]
        /\ UNCHANGED <<timer, tid, chatTimedout>>
      BY <1>3 DEF CancelTimer, LoopOver
  <2>2. ~cancelled /\ tid # "garbage"
      BY <2>1
  <2>3. timer # "ended" => cancelled'
      BY <2>1
  <2>4. cancelled' \in BOOLEAN
      BY <2>1
  <2> QED BY <2>1, <2>2, <2>3, <2>4
<1>4. CASE Close
  <2>1. chatPC = "free" /\ chatPC' = "over" /\ UNCHANGED <<timerVars, chatTimedout>>
      BY <1>4 DEF Close
  <2> QED BY <2>1 DEF timerVars
<1>5. CASE SelectIdle \/ SelectFails
  <2>1. chatPC \in {"first", "select"} /\ chatPC' = "select"
        /\ UNCHANGED <<timerVars, chatTimedout>>
      BY <1>5 DEF SelectIdle, SelectFails, Selecting, TellsBoth
  <2> QED BY <2>1, RelayKeepsTimer
<1>6. CASE TimerStarts
  <2>1. /\ timer = "created" /\ timer' = "asleep"
        /\ tid' = IF chatPC = "over" THEN "garbage" ELSE "chat"
        /\ UNCHANGED <<chatPC, chatTimedout, cancelled>>
      BY <1>6 DEF TimerStarts, chatVars
  <2> QED BY <2>1
<1>7. CASE TimerCancelled
  <2>1. timer = "asleep" /\ timer' = "ended" /\ UNCHANGED <<chatPC, chatTimedout, tid, cancelled>>
      BY <1>7 DEF TimerCancelled, chatVars
  <2> QED BY <2>1
<1>8. CASE TimerWakes
  <2>1. /\ timer = "asleep" /\ ~cancelled /\ timer' = "awake"
        /\ UNCHANGED <<chatPC, chatTimedout, tid, cancelled>>
      BY <1>8 DEF TimerWakes, chatVars
  <2> QED BY <2>1
<1>9. CASE TimerFires
  <2>1. /\ timer = "awake" /\ timer' = "ended" /\ UNCHANGED <<tid, cancelled>>
        /\ \/ UNCHANGED chatPC
           \/ chatPC \in {"first", "select"} /\ chatPC' = "select"
      BY <1>9 DEF TimerFires, chatVars, Selecting, TellsBoth
  <2> QED BY <2>1
<1>10. ASSUME NEW i \in Side, UserStep(i) \/ Hear(i) PROVE TimerInv'
  <2>1. UNCHANGED <<timerVars, chatVars>>
      BY <1>10 DEF UserStep, Say, TypeStop, Vanish, Hear
  <2> QED BY <2>1, OthersKeepTimer
<1>11. CASE UNCHANGED vars
    BY <1>11, OthersKeepTimer DEF vars
<1> QED BY <1>1, <1>2, <1>3, <1>4, <1>5, <1>6, <1>7, <1>8, <1>9, <1>10, <1>11
        DEF Next, ChatStep, TimerStep

\* The timer never signals a thread it did not read the identifier of: it may
\* start after its argument was freed, but then it does not outlive its sleep.
THEOREM Signalling == Spec => []KnowsItsChat
<1>1. TimerInv => KnowsItsChat
    BY DEF TimerInv, GarbageIsCancelled, ReadBeforeSleep, KnowsItsChat
<1> QED BY <1>1, TimerStart, TimerStepKeeps, PTL DEF Spec

-----------------------------------------------------------------------------
(***************************************************************************)
(* Types.                                                                  *)
(***************************************************************************)
Message == [kind : {"said", "garbled"} \cup Closing, number : 0..(MessageCount - 1)]
Wire    == [Side -> Seq(Message)]

SessionType ==
    /\ TypeOK
    /\ toServer \in Wire /\ toClient \in Wire
    /\ stopChat \in BOOLEAN /\ buffer \in {"clean", "garbage"}

LEMMA Sides == Side = {1, 2} /\ \A i \in Side : Other(i) \in Side /\ Other(i) # i /\ Side = {i, Other(i)}
  BY DEF Side, Other

LEMMA AfterType == \A n \in Int : After(n) \in 0..(MessageCount - 1)
  BY BoundsArePositive DEF After

LEMMA MessageType ==
    /\ \A n \in 0..(MessageCount - 1) : Said(n) \in Message
    /\ \A kind \in Closing \cup {"garbled"} : Tell(kind) \in Message
  BY BoundsArePositive DEF Said, Tell, Message, Closing

\* What a write does to the wires.
LEMMA ArrivesEffect ==
    ASSUME NEW wire \in Wire, NEW i \in Side, NEW m \in Message
    PROVE  /\ Arrives(wire, i, m) \in Wire
           /\ \A k \in Side : Arrives(wire, i, m)[k] =
                IF k = i /\ user[i] # "gone" THEN Append(wire[k], m) ELSE wire[k]
<1>1. \A k \in Side : wire[k] \in Seq(Message)
    BY DEF Wire
<1>2. Append(wire[i], m) \in Seq(Message)
    BY <1>1, AppendProperties
<1> QED BY <1>1, <1>2 DEF Arrives, Wire

\* What telling both does.
LEMMA TellsEffect ==
    ASSUME SessionType, NEW kind \in Closing, TellsBoth(kind)
    PROVE  /\ \E m \in Message :
                /\ m.kind = IF buffer = "clean" THEN kind ELSE "garbled"
                /\ \A k \in Side : toClient'[k] = IF user[k] # "gone" THEN Append(toClient[k], m)
                                                                      ELSE toClient[k]
           /\ toClient' \in Wire
           /\ isConnected' \in [Side -> BOOLEAN]
           /\ \A k \in Side : isConnected'[k] \/ ~isConnected[k] \/ user[k] = "gone"
           /\ stopChat' /\ chatPC' = "select"
           /\ UNCHANGED <<userVars, toServer, buffer, ready>>
<1> DEFINE m == IF buffer = "clean" THEN Tell(kind) ELSE Tell("garbled")
<1>1. m \in Message /\ m.kind = IF buffer = "clean" THEN kind ELSE "garbled"
    BY MessageType DEF Tell
<1>2. /\ toClient' = Arrives(Arrives(toClient, 1, m), 2, m)
      /\ \E lost1 \in MayFail(1), lost2 \in MayFail(2) :
            isConnected' = [i \in Side |-> isConnected[i] /\ ~(IF i = 1 THEN lost1 ELSE lost2)]
      /\ stopChat' /\ chatPC' = "select" /\ UNCHANGED <<userVars, toServer, buffer, ready>>
    BY DEF TellsBoth
<1> HIDE DEF m
<1>3. 1 \in Side /\ 2 \in Side /\ toClient \in Wire
    BY DEF Side, SessionType
<1> DEFINE first == Arrives(toClient, 1, m)
<1>4. /\ first \in Wire
      /\ \A k \in Side : first[k] = IF k = 1 /\ user[1] # "gone" THEN Append(toClient[k], m)
                                                                ELSE toClient[k]
    BY <1>1, <1>3, ArrivesEffect
<1>5. toClient' = Arrives(first, 2, m)
    BY <1>2
<1> HIDE DEF first
<1>6. /\ toClient' \in Wire
      /\ \A k \in Side : toClient'[k] = IF k = 2 /\ user[2] # "gone" THEN Append(first[k], m)
                                                                    ELSE first[k]
    BY <1>1, <1>3, <1>4, <1>5, ArrivesEffect
<1>7. \A k \in Side : toClient'[k] = IF user[k] # "gone" THEN Append(toClient[k], m)
                                                         ELSE toClient[k]
    BY <1>4, <1>6 DEF Side
<1>8. /\ isConnected' \in [Side -> BOOLEAN]
      /\ \A k \in Side : isConnected'[k] \/ ~isConnected[k] \/ user[k] = "gone"
  <2>1. PICK lost1 \in MayFail(1), lost2 \in MayFail(2) :
          isConnected' = [i \in Side |-> isConnected[i] /\ ~(IF i = 1 THEN lost1 ELSE lost2)]
      BY <1>2
  <2>2. (lost1 => user[1] = "gone") /\ (lost2 => user[2] = "gone")
      BY <2>1 DEF MayFail
  <2>3. \A k \in Side : isConnected[k] \in BOOLEAN
      BY DEF SessionType, TypeOK
  <2>4. isConnected' \in [Side -> BOOLEAN]
      BY <2>1
  <2>5. isConnected'[1] <=> isConnected[1] /\ ~lost1
      BY <2>1, <1>3
  <2>6. isConnected'[2] <=> isConnected[2] /\ ~lost2
    <3>1. 2 # 1
        OBVIOUS
    <3> QED BY <2>1, <1>3, <3>1
  <2>7. \A k \in Side : k = 1 \/ k = 2
      BY DEF Side
  <2> QED BY <2>2, <2>3, <2>4, <2>5, <2>6, <2>7
<1> QED BY <1>1, <1>2, <1>6, <1>7, <1>8

\* What serving client i does: its message m goes to the other, who may be gone, and
\* then i may be answered with n, that the chat is over.
ServesWith(i, m, n, lost, answers) ==
    /\ m = IF toServer[i] = <<>> THEN n ELSE Head(toServer[i])
    /\ n.kind = "/STOP"
    /\ lost => user[Other(i)] = "gone"
    /\ answers <=> lost /\ toServer[i] # <<>> /\ isConnected[i]
    /\ \A k \in Side : toClient'[k] =
         IF answers THEN IF k = i /\ user[i] # "gone" THEN Append(toClient[k], n)
                                                     ELSE toClient[k]
         ELSE IF k = Other(i) /\ user[k] # "gone" THEN Append(toClient[k], m)
                                                  ELSE toClient[k]
    /\ toClient' \in Wire
    /\ toServer' = IF toServer[i] = <<>> THEN toServer
                   ELSE [toServer EXCEPT ![i] = Tail(@)]
    /\ toServer' \in Wire
    /\ isConnected' \in [Side -> BOOLEAN]
    /\ \A k \in Side : isConnected'[k] \/ ~isConnected[k]
                        \/ (k = i /\ toServer[i] = <<>>) \/ (lost /\ user[k] = "gone")
    /\ stopChat' \in BOOLEAN /\ (stopChat' <=> stopChat \/ lost \/ m.kind = "/STOP")
    /\ buffer' = "clean" /\ ready' = ready \ {i} /\ i \in ready /\ chatPC = "serve"
    /\ chatPC' = IF ready' = {} THEN "select" ELSE "serve"
    /\ UNCHANGED <<userVars, chatTimedout, timerVars>>

LEMMA ServeEffect ==
    ASSUME SessionType, NEW i \in Side, Serve(i)
    PROVE  \E m, n \in Message, lost, answers \in BOOLEAN : ServesWith(i, m, n, lost, answers)
<1> DEFINE j == Other(i)
           closed == toServer[i] = <<>>
           n == Tell("/STOP")
           m == IF closed THEN n ELSE Head(toServer[i])
<1>1. j \in Side /\ j # i /\ Side = {i, j}
    BY Sides
<1>2. /\ toServer \in Wire /\ toClient \in Wire /\ toServer[i] \in Seq(Message)
      /\ isConnected \in [Side -> BOOLEAN]
    BY DEF SessionType, TypeOK, Wire
<1>3. n \in Message /\ n.kind = "/STOP"
    BY MessageType DEF Closing, Tell
<1>4. ~closed => Head(toServer[i]) \in Message /\ Tail(toServer[i]) \in Seq(Message)
    BY <1>2, HeadTailProperties
<1>5. m \in Message
    BY <1>3, <1>4
<1>6. PICK lost \in MayFail(j), deaf \in MayFail(i) :
        LET answers == lost /\ ~closed /\ isConnected[i] IN
          /\ deaf => answers
          /\ isConnected' = [isConnected EXCEPT ![i] = @ /\ ~closed /\ ~deaf,
                                                ![j] = @ /\ ~lost]
          /\ toClient' = IF answers THEN Arrives(toClient, i, n) ELSE Arrives(toClient, j, m)
          /\ stopChat' = (stopChat \/ lost \/ m.kind = "/STOP")
    BY DEF Serve
<1>7. /\ toServer' = IF closed THEN toServer ELSE [toServer EXCEPT ![i] = Tail(@)]
      /\ buffer' = "clean" /\ ready' = ready \ {i} /\ i \in ready /\ chatPC = "serve"
      /\ chatPC' = IF ready' = {} THEN "select" ELSE "serve"
      /\ UNCHANGED <<userVars, chatTimedout, timerVars>>
    BY DEF Serve
<1>8. /\ lost \in BOOLEAN /\ deaf \in BOOLEAN
      /\ lost => user[j] = "gone"
      /\ deaf => user[i] = "gone"
    BY <1>6 DEF MayFail
<1> HIDE DEF n, m
<1> DEFINE answers == lost /\ ~closed /\ isConnected[i]
<1>9. answers \in BOOLEAN
    BY <1>2, <1>8
<1>10. toClient' = IF answers THEN Arrives(toClient, i, n) ELSE Arrives(toClient, j, m)
    BY <1>6 DEF m, n
<1>11. /\ toClient' \in Wire
       /\ \A k \in Side : toClient'[k] =
            IF answers THEN IF k = i /\ user[i] # "gone" THEN Append(toClient[k], n)
                                                        ELSE toClient[k]
            ELSE IF k = j /\ user[k] # "gone" THEN Append(toClient[k], m) ELSE toClient[k]
  <2>1. CASE answers
    <3>1. toClient' = Arrives(toClient, i, n)
      BY <1>10, <2>1
    <3> QED BY <1>2, <1>3, <2>1, <3>1, ArrivesEffect
  <2>2. CASE ~answers
    <3>1. toClient' = Arrives(toClient, j, m)
      BY <1>10, <2>2
    <3> QED BY <1>1, <1>2, <1>5, <2>2, <3>1, ArrivesEffect
  <2> QED BY <2>1, <2>2
<1>12. toServer' \in Wire
    BY <1>2, <1>4, <1>7 DEF Wire
<1>13. isConnected' = [isConnected EXCEPT ![i] = @ /\ ~closed /\ ~deaf, ![j] = @ /\ ~lost]
    BY <1>6
<1>14. isConnected' \in [Side -> BOOLEAN]
    BY <1>1, <1>2, <1>8, <1>13
<1>15. \A k \in Side : isConnected'[k] \/ ~isConnected[k] \/ (k = i /\ closed)
                                       \/ (lost /\ user[k] = "gone")
    BY <1>1, <1>2, <1>6, <1>8, <1>13
<1>16. stopChat' \in BOOLEAN /\ (stopChat' <=> stopChat \/ lost \/ m.kind = "/STOP")
    BY <1>6 DEF m, SessionType
<1>17. m = IF closed THEN n ELSE Head(toServer[i])
    BY DEF m
<1>18. ServesWith(i, m, n, lost, answers)
    BY <1>3, <1>7, <1>8, <1>11, <1>12, <1>14, <1>15, <1>16, <1>17 DEF ServesWith
<1> HIDE DEF answers
<1> QED
    BY <1>3, <1>5, <1>8, <1>9, <1>18

\* What user i makes of the next message from the server.
LEMMA HearsEffect ==
    ASSUME SessionType, NEW i \in Side, NEW otherwise \in {"chatting", "stopped"},
           Hears(i, otherwise)
    PROVE  /\ toClient[i] # <<>> /\ Head(toClient[i]) \in Message
           /\ toClient' = [toClient EXCEPT ![i] = Tail(@)] /\ toClient' \in Wire
           /\ heard' = [heard EXCEPT ![i] =
                IF Head(toClient[i]).kind = "said" THEN After(Head(toClient[i]).number) ELSE @]
           /\ heard' \in [Side -> 0..(MessageCount - 1)]
           /\ user' \in [Side -> {"chatting", "stopped", "menu", "queue", "gone"}]
           /\ \A k \in Side \ {i} : user'[k] = user[k]
           /\ user'[i] = "queue" => Head(toClient[i]).kind = "TIMEC"
           /\ user'[i] = "menu"  => Head(toClient[i]).kind \in {"/STOP", "IDLEC"}
           /\ user'[i] = "chatting" =>
                 otherwise = "chatting" /\ Head(toClient[i]).kind \notin Closing
<1> DEFINE m == Head(toClient[i])
           where == CASE m.kind = "TIMEC" -> "queue"
                      [] m.kind \in {"/STOP", "IDLEC"} /\ otherwise = "chatting" -> "menu"
                      [] OTHER -> otherwise
<1>1. /\ toClient[i] # <<>> /\ toClient' = [toClient EXCEPT ![i] = Tail(@)]
      /\ heard' = [heard EXCEPT ![i] = IF m.kind = "said" THEN After(m.number) ELSE @]
      /\ user' = [user EXCEPT ![i] = where]
    BY DEF Hears
<1>2. /\ user \in [Side -> {"chatting", "stopped", "menu", "queue", "gone"}]
      /\ heard \in [Side -> 0..(MessageCount - 1)]
      /\ toClient \in Wire /\ toClient[i] \in Seq(Message)
    BY DEF SessionType, TypeOK, Wire
<1>3. m \in Message /\ Tail(toClient[i]) \in Seq(Message)
    BY <1>1, <1>2, HeadTailProperties
<1>4. toClient' \in Wire
    BY <1>1, <1>2, <1>3 DEF Wire
<1>5. heard' \in [Side -> 0..(MessageCount - 1)]
  <2>1. m.number \in Int
      BY <1>3, BoundsArePositive DEF Message
  <2>2. After(m.number) \in 0..(MessageCount - 1)
      BY <2>1, AfterType
  <2> QED BY <1>1, <1>2, <2>2
<1>6. /\ where \in {"chatting", "stopped", "menu", "queue"}
      /\ where = "queue" => m.kind = "TIMEC"
      /\ where = "menu" => m.kind \in {"/STOP", "IDLEC"}
      /\ where = "chatting" => otherwise = "chatting" /\ m.kind \notin Closing
  <2>1. CASE m.kind = "TIMEC"
      BY <2>1
  <2>2. CASE m.kind # "TIMEC" /\ m.kind \in {"/STOP", "IDLEC"} /\ otherwise = "chatting"
      BY <2>2
  <2>3. CASE m.kind # "TIMEC" /\ ~(m.kind \in {"/STOP", "IDLEC"} /\ otherwise = "chatting")
      BY <2>3 DEF Closing
  <2> QED BY <2>1, <2>2, <2>3
<1> HIDE DEF where
<1>7. user'[i] = where /\ \A k \in Side \ {i} : user'[k] = user[k]
    BY <1>1, <1>2
<1>8. user' \in [Side -> {"chatting", "stopped", "menu", "queue", "gone"}]
    BY <1>1, <1>2, <1>6
<1> QED BY <1>1, <1>3, <1>4, <1>5, <1>6, <1>7, <1>8

\* What a user sends.
LEMMA SendsEffect ==
    ASSUME SessionType, NEW i \in Side, NEW m \in Message,
           toServer' = [toServer EXCEPT ![i] = Append(@, m)]
    PROVE  toServer' \in Wire /\ toServer'[i] = Append(toServer[i], m)
           /\ \A k \in Side \ {i} : toServer'[k] = toServer[k]
<1>1. toServer \in Wire /\ toServer[i] \in Seq(Message)
    BY DEF SessionType, Wire
<1>2. Append(toServer[i], m) \in Seq(Message)
    BY <1>1, AppendProperties
<1> QED BY <1>1, <1>2 DEF Wire

\* The types hold at the start and are kept by every step.
LEMMA SessionTypeStart == Init => SessionType
<1>1. <<>> \in Seq(Message) /\ 0 \in 0..(MessageCount - 1)
    BY BoundsArePositive
<1> SUFFICES ASSUME Init PROVE SessionType
    OBVIOUS
<1>2. toServer \in Wire /\ toClient \in Wire /\ stopChat \in BOOLEAN
      /\ buffer \in {"clean", "garbage"}
    BY <1>1 DEF Init, Wire
<1>3. /\ user \in [Side -> {"chatting", "stopped", "menu", "queue", "gone"}]
      /\ said \in [Side -> 0..(MessageCount - 1)] /\ heard \in [Side -> 0..(MessageCount - 1)]
    BY <1>1 DEF Init
<1>4. isConnected \in [Side -> BOOLEAN] /\ chatTimedout \in [Side -> BOOLEAN]
    BY DEF Init
<1>5. ready \subseteq Side /\ ready = {}
    BY DEF Init
<1> QED BY <1>2, <1>3, <1>4, <1>5 DEF Init, SessionType, TypeOK

LEMMA SessionTypeKept == SessionType /\ [Next]_vars => SessionType'
<1> SUFFICES ASSUME SessionType, [Next]_vars PROVE SessionType'
    OBVIOUS
<1>T. TypeOK /\ toServer \in Wire /\ toClient \in Wire
      /\ stopChat \in BOOLEAN /\ buffer \in {"clean", "garbage"}
    BY DEF SessionType
<1> USE DEF userVars, wires, chatVars, timerVars
<1>0. ASSUME NEW kind \in Closing, TellsBoth(kind),
             chatTimedout' \in [Side -> BOOLEAN], Selecting,
             timer' \in {"created", "asleep", "awake", "ended"}, UNCHANGED tid
      PROVE  SessionType'
  <2>1. ready = {}
      BY <1>0, <1>T DEF Selecting, TypeOK
  <2> QED BY <1>0, <1>T, <2>1, TellsEffect DEF SessionType, TypeOK
<1>1. CASE SelectReady
  <2>1. ready' \subseteq Side
      BY <1>1 DEF SelectReady, Readable
  <2> QED BY <1>1, <1>T, <2>1 DEF SelectReady, SessionType, TypeOK
<1>2. ASSUME NEW i \in Side, Serve(i) PROVE SessionType'
  <2>1. PICK m, n \in Message, lost, answers \in BOOLEAN : ServesWith(i, m, n, lost, answers)
      BY <1>2, ServeEffect
  <2> QED BY <1>T, <2>1 DEF ServesWith, SessionType, TypeOK
<1>3. CASE CancelTimer
    BY <1>3, <1>T DEF CancelTimer, LoopOver, SessionType, TypeOK
<1>4. CASE Close
    BY <1>4, <1>T DEF Close, SessionType, TypeOK
<1>5. CASE SelectIdle \/ SelectFails
  <2>1. PICK kind \in Closing : TellsBoth(kind)
      BY <1>5 DEF SelectIdle, SelectFails, Closing
  <2>2. UNCHANGED <<chatTimedout, timerVars>> /\ Selecting
      BY <1>5 DEF SelectIdle, SelectFails
  <2> QED BY <1>0, <1>T, <2>1, <2>2 DEF TypeOK
<1>6. CASE TimerStarts \/ TimerCancelled \/ TimerWakes
    BY <1>6, <1>T DEF TimerStarts, TimerCancelled, TimerWakes, SessionType, TypeOK
<1>7. CASE TimerFires
  <2>1. CASE Selecting /\ Readable = {}
    <3>1. /\ TellsBoth("TIMEC") /\ chatTimedout' = [i \in Side |-> TRUE]
          /\ timer' = "ended" /\ UNCHANGED tid
        BY <1>7, <2>1 DEF TimerFires
    <3>2. "TIMEC" \in Closing /\ chatTimedout' \in [Side -> BOOLEAN]
        BY <3>1 DEF Closing
    <3> QED BY <1>0, <2>1, <3>1, <3>2
  <2>2. CASE ~(Selecting /\ Readable = {})
      BY <1>7, <1>T, <2>2 DEF TimerFires, SessionType, TypeOK
  <2> QED BY <2>1, <2>2
<1>8. ASSUME NEW i \in Side, Say(i) PROVE SessionType'
  <2>1. said[i] \in 0..(MessageCount - 1) /\ After(said[i]) \in 0..(MessageCount - 1)
      BY <1>T, AfterType, BoundsArePositive DEF TypeOK
  <2>2. Said(said[i]) \in Message
      BY <2>1, MessageType
  <2>3. toServer' \in Wire
      BY <1>8, <2>2, SendsEffect DEF Say
  <2>4. said' \in [Side -> 0..(MessageCount - 1)]
      BY <1>8, <1>T, <2>1 DEF Say, TypeOK
  <2> QED BY <1>8, <1>T, <2>3, <2>4 DEF Say, SessionType, TypeOK
<1>9. ASSUME NEW i \in Side, TypeStop(i) PROVE SessionType'
  <2>1. Tell("/STOP") \in Message /\ toServer' = [toServer EXCEPT ![i] = Append(@, Tell("/STOP"))]
        /\ UNCHANGED <<said, chatVars, timerVars>>
      BY <1>9, MessageType DEF TypeStop, Closing
  <2>2. toServer' \in Wire
      BY <2>1, SendsEffect
  <2>3. /\ user' \in [Side -> {"chatting", "stopped", "menu", "queue", "gone"}]
        /\ heard' \in [Side -> 0..(MessageCount - 1)] /\ toClient' \in Wire
    <3>1. CASE Hears(i, "stopped")
        BY <3>1, HearsEffect
    <3>2. CASE user' = [user EXCEPT ![i] = "stopped"] /\ UNCHANGED <<heard, toClient>>
        BY <3>2, <1>T DEF TypeOK
    <3> QED BY <1>9, <3>1, <3>2 DEF TypeStop
  <2> QED BY <1>T, <2>1, <2>2, <2>3 DEF SessionType, TypeOK
<1>10. ASSUME NEW i \in Side, Vanish(i) PROVE SessionType'
  <2>1. <<>> \in Seq(Message)
      OBVIOUS
  <2>2. toClient' \in Wire
      BY <1>10, <1>T, <2>1 DEF Vanish, Wire
  <2> QED BY <1>10, <1>T, <2>2 DEF Vanish, SessionType, TypeOK
<1>11. ASSUME NEW i \in Side, Hear(i) PROVE SessionType'
  <2>1. Hears(i, "chatting") /\ UNCHANGED <<said, toServer, chatVars, timerVars>>
      BY <1>11 DEF Hear
  <2> QED BY <1>T, <2>1, HearsEffect DEF SessionType, TypeOK
<1>12. CASE UNCHANGED vars
    BY <1>12, <1>T DEF vars, SessionType, TypeOK
<1> QED BY <1>1, <1>2, <1>3, <1>4, <1>5, <1>6, <1>7, <1>8, <1>9, <1>10, <1>11, <1>12
        DEF Next, ChatStep, TimerStep, UserStep

\* The variables of a chat have their types.
THEOREM Typing == Spec => []TypeOK
<1>1. SessionType => TypeOK
    BY DEF SessionType
<1> QED BY <1>1, SessionTypeStart, SessionTypeKept, PTL DEF Spec

-----------------------------------------------------------------------------
(***************************************************************************)
(* The end of a chat.                                                      *)
(***************************************************************************)
Kinds(q) == {q[n].kind : n \in 1..Len(q)}

Timed == \E i \in Side : chatTimedout[i]

\* A client is only found to be disconnected when it is gone, and then the loop ends.
LostIsGone ==
    /\ \A i \in Side : isConnected[i] \/ user[i] = "gone"
    /\ \A i \in Side : isConnected[i] \/ stopChat

\* What select found is still there when it is served.
ReadyStays == \A i \in ready : toServer[i] # <<>> \/ user[i] = "gone"

\* A user sends nothing but messages and stops, and a stop when leaving.
StopsWhenLeaving ==
    \A i \in Side :
      /\ Kinds(toServer[i]) \subseteq {"said", "/STOP"}
      /\ "/STOP" \in Kinds(toServer[i]) => user[i] # "chatting"

\* Each ending is sent for what it stands for, and acted on as such.
EndsAsTold ==
    /\ Timed => stopChat /\ chatPC \in {"select", "free", "over"}
    /\ \A i \in Side :
         /\ user[i] = "queue" \/ "TIMEC" \in Kinds(toClient[i]) => Timed
         /\ user[i] = "menu" \/ Kinds(toClient[i]) \cap {"/STOP", "IDLEC"} # {}
              => stopChat /\ ~Timed

\* From the moment the loop is to end, whoever still chats has been told.
ToldAtOnce ==
    /\ chatPC = "serve" /\ stopChat => buffer = "clean"
    /\ stopChat /\ buffer = "clean" =>
         \A i \in Side : user[i] = "chatting" => Kinds(toClient[i]) \cap Ending # {}
    /\ chatPC \in {"free", "over"} => stopChat

EndInv == LostIsGone /\ ReadyStays /\ StopsWhenLeaving /\ EndsAsTold /\ ToldAtOnce

\* The kinds of messages in a wire as it grows and shrinks.
LEMMA KindsAppend ==
    ASSUME NEW q \in Seq(Message), NEW m \in Message
    PROVE  Kinds(Append(q, m)) = Kinds(q) \cup {m.kind}
<1>1. /\ Len(q) \in Nat /\ Len(Append(q, m)) = Len(q) + 1
      /\ \A n \in 1..Len(q) : Append(q, m)[n] = q[n]
      /\ Append(q, m)[Len(q) + 1] = m
    BY AppendProperties, LenProperties
<1>2. Kinds(Append(q, m)) \subseteq Kinds(q) \cup {m.kind}
    BY <1>1 DEF Kinds
<1>3. Kinds(q) \subseteq Kinds(Append(q, m))
    BY <1>1 DEF Kinds
<1>4. m.kind \in Kinds(Append(q, m))
    BY <1>1 DEF Kinds
<1> QED BY <1>2, <1>3, <1>4

LEMMA KindsTail ==
    ASSUME NEW q \in Seq(Message), q # <<>>
    PROVE  Kinds(q) = Kinds(Tail(q)) \cup {Head(q).kind}
<1>1. /\ Len(q) \in Nat /\ Len(q) # 0 /\ Len(Tail(q)) = Len(q) - 1 /\ Head(q) = q[1]
      /\ \A n \in 1..Len(Tail(q)) : Tail(q)[n] = q[n + 1]
    BY HeadTailProperties, EmptySeq
<1>2. Kinds(Tail(q)) \subseteq Kinds(q)
    BY <1>1 DEF Kinds
<1>3. Head(q).kind \in Kinds(q)
    BY <1>1 DEF Kinds
<1>4. Kinds(q) \subseteq Kinds(Tail(q)) \cup {Head(q).kind}
  <2> SUFFICES ASSUME NEW n \in 1..Len(q)
               PROVE  q[n].kind \in Kinds(Tail(q)) \cup {Head(q).kind}
      BY DEF Kinds
  <2>1. CASE n = 1
      BY <1>1, <2>1
  <2>2. CASE n # 1
    <3>1. n - 1 \in 1..Len(Tail(q)) /\ Tail(q)[n - 1] = q[n]
        BY <1>1, <2>2
    <3> QED BY <3>1 DEF Kinds
  <2> QED BY <2>1, <2>2
<1> QED BY <1>2, <1>3, <1>4

LEMMA KindsEmpty == Kinds(<<>>) = {}
  BY DEF Kinds

LEMMA EndStart == Init => EndInv
<1> SUFFICES ASSUME Init PROVE EndInv
    OBVIOUS
<1>1. /\ \A i \in Side : /\ user[i] = "chatting" /\ isConnected[i] /\ chatTimedout[i] = FALSE
                         /\ Kinds(toServer[i]) = {} /\ Kinds(toClient[i]) = {}
      /\ ready = {} /\ chatPC = "first" /\ stopChat = FALSE
    BY KindsEmpty DEF Init
<1> QED BY <1>1 DEF EndInv, LostIsGone, ReadyStays, StopsWhenLeaving, EndsAsTold, ToldAtOnce,
                    Timed

\* Telling both why the chat ends, with the flags of the timer set accordingly.
LEMMA TellsKeepsEnd ==
    ASSUME SessionType, EndInv, Selecting, NEW kind \in Closing, TellsBoth(kind),
           kind = "TIMEC" <=> Timed'
    PROVE  EndInv'
<1>1. PICK m \in Message :
        /\ m.kind = IF buffer = "clean" THEN kind ELSE "garbled"
        /\ \A k \in Side : toClient'[k] = IF user[k] # "gone" THEN Append(toClient[k], m)
                                                              ELSE toClient[k]
    BY TellsEffect
<1>2. /\ \A k \in Side : isConnected'[k] \/ ~isConnected[k] \/ user[k] = "gone"
      /\ stopChat' /\ chatPC' = "select" /\ UNCHANGED <<user, toServer, buffer, ready>>
    BY TellsEffect DEF userVars
<1>3. /\ ready = {} /\ ~stopChat /\ ~Timed
      /\ \A k \in Side : user[k] \notin {"queue", "menu"} /\ Kinds(toClient[k]) \cap Closing = {}
    BY DEF SessionType, TypeOK, Selecting, EndInv, EndsAsTold, Closing
<1>4. ASSUME NEW k \in Side
      PROVE  /\ Kinds(toClient'[k]) \subseteq Kinds(toClient[k]) \cup {m.kind}
             /\ user[k] = "chatting" => m.kind \in Kinds(toClient'[k])
  <2>1. toClient[k] \in Seq(Message)
      BY DEF SessionType, Wire
  <2> QED BY <1>1, <2>1, KindsAppend
<1>5. LostIsGone'
    BY <1>2 DEF EndInv, LostIsGone
<1>6. ReadyStays' /\ StopsWhenLeaving'
    BY <1>2, <1>3 DEF EndInv, ReadyStays, StopsWhenLeaving
<1>7. EndsAsTold'
  <2>1. Timed' => stopChat' /\ chatPC' \in {"select", "free", "over"}
      BY <1>2
  <2>2. ASSUME NEW k \in Side
        PROVE  /\ user'[k] \notin {"queue", "menu"}
               /\ "TIMEC" \in Kinds(toClient'[k]) => Timed'
               /\ Kinds(toClient'[k]) \cap {"/STOP", "IDLEC"} # {} => stopChat' /\ ~Timed'
    <3>1. user'[k] = user[k] /\ user[k] \notin {"queue", "menu"} /\ Kinds(toClient[k]) \cap Closing = {}
        BY <1>2, <1>3
    <3>2. Kinds(toClient'[k]) \cap Closing \subseteq {kind}
      <4>1. Kinds(toClient'[k]) \subseteq Kinds(toClient[k]) \cup {m.kind}
          BY <1>4
      <4>2. m.kind = kind \/ m.kind \notin Closing
          BY <1>1 DEF Closing
      <4> HIDE DEF Closing
      <4> QED BY <3>1, <4>1, <4>2
    <3> QED BY <1>2, <3>1, <3>2 DEF Closing
  <2> QED BY <2>1, <2>2 DEF EndsAsTold
<1>8. ToldAtOnce'
  <2>1. kind \in Ending'
      BY DEF Ending, Timed, Closing
  <2>2. buffer' = "clean" => \A k \in Side : user'[k] = "chatting" => kind \in Kinds(toClient'[k])
    <3>1. buffer' = buffer /\ \A k \in Side : user'[k] = user[k]
        BY <1>2
    <3>2. buffer = "clean" => m.kind = kind
        BY <1>1
    <3> QED BY <1>4, <3>1, <3>2
  <2> QED BY <1>2, <2>1, <2>2 DEF ToldAtOnce
<1> QED BY <1>5, <1>6, <1>7, <1>8 DEF EndInv

\* Serving a client.
LEMMA ServeKeepsEnd ==
    ASSUME SessionType, EndInv, NEW i \in Side, Serve(i)
    PROVE  EndInv'
<1>1. PICK m, n \in Message, lost, answers \in BOOLEAN : ServesWith(i, m, n, lost, answers)
    BY ServeEffect
<1>2. /\ ~Timed /\ UNCHANGED <<user, chatTimedout>> /\ chatPC' \in {"select", "serve"}
      /\ buffer' = "clean" /\ i \in ready /\ chatPC = "serve"
      /\ stopChat' <=> stopChat \/ lost \/ m.kind = "/STOP"
    BY <1>1 DEF ServesWith, EndInv, EndsAsTold, userVars
<1>3. ~Timed' /\ Ending = {"/STOP", "IDLEC"} /\ Ending' = {"/STOP", "IDLEC"}
    BY <1>2 DEF Timed, Ending
<1>4. toServer[i] \in Seq(Message) /\ \A k \in Side : toClient[k] \in Seq(Message)
    BY DEF SessionType, Wire
<1>5. toServer[i] # <<>> =>
        /\ m.kind \in Kinds(toServer[i])
        /\ Kinds(Tail(toServer[i])) \subseteq Kinds(toServer[i])
  <2>1. CASE toServer[i] # <<>>
    <3>1. m = Head(toServer[i])
        BY <1>1, <2>1 DEF ServesWith
    <3> QED BY <1>4, <2>1, <3>1, KindsTail
  <2> QED BY <2>1
<1>6. m.kind \in {"said", "/STOP"}
    BY <1>1, <1>5 DEF ServesWith, EndInv, StopsWhenLeaving
<1>7. ASSUME NEW k \in Side
      PROVE  /\ Kinds(toClient[k]) \subseteq Kinds(toClient'[k])
             /\ Kinds(toClient'[k]) \subseteq
                  Kinds(toClient[k]) \cup {IF answers THEN "/STOP" ELSE m.kind}
             /\ answers /\ k = i /\ user[k] # "gone" => "/STOP" \in Kinds(toClient'[k])
             /\ ~answers /\ k = Other(i) /\ user[k] # "gone" => m.kind \in Kinds(toClient'[k])
  <2>1. /\ Kinds(Append(toClient[k], n)) = Kinds(toClient[k]) \cup {"/STOP"}
        /\ Kinds(Append(toClient[k], m)) = Kinds(toClient[k]) \cup {m.kind}
      BY <1>1, <1>4, KindsAppend DEF ServesWith
  <2>2. toClient'[k] =
          IF answers THEN IF k = i /\ user[i] # "gone" THEN Append(toClient[k], n)
                                                      ELSE toClient[k]
          ELSE IF k = Other(i) /\ user[k] # "gone" THEN Append(toClient[k], m)
                                                   ELSE toClient[k]
      BY <1>1 DEF ServesWith
  <2> QED BY <2>1, <2>2
<1>8. LostIsGone'
  <2>1. /\ \A k \in Side : isConnected'[k] \/ ~isConnected[k]
                           \/ (k = i /\ toServer[i] = <<>>) \/ (lost /\ user[k] = "gone")
        /\ toServer[i] = <<>> => m.kind = "/STOP"
      BY <1>1 DEF ServesWith
  <2>2. toServer[i] = <<>> => user[i] = "gone"
      BY <1>2 DEF EndInv, ReadyStays
  <2> QED BY <1>2, <2>1, <2>2 DEF EndInv, LostIsGone
<1>9. /\ ready' = ready \ {i}
      /\ \A k \in Side \ {i} : toServer'[k] = toServer[k]
      /\ toServer'[i] = IF toServer[i] = <<>> THEN toServer[i] ELSE Tail(toServer[i])
    BY <1>1 DEF ServesWith, SessionType, Wire
<1>10. ReadyStays'
  <2>1. \A k \in ready' : k \in Side \ {i} /\ k \in ready
      BY <1>9 DEF SessionType, TypeOK
  <2> QED BY <1>2, <1>9, <2>1 DEF EndInv, ReadyStays
<1>11. StopsWhenLeaving'
    BY <1>2, <1>5, <1>9 DEF EndInv, StopsWhenLeaving
<1>12. answers <=> lost /\ toServer[i] # <<>> /\ isConnected[i]
    BY <1>1 DEF ServesWith
<1>13. EndsAsTold'
  <2>1. ASSUME NEW k \in Side
        PROVE  /\ ~(user'[k] = "queue" \/ "TIMEC" \in Kinds(toClient'[k]))
               /\ user'[k] = "menu" \/ Kinds(toClient'[k]) \cap {"/STOP", "IDLEC"} # {}
                   => stopChat' /\ ~Timed'
      BY <1>2, <1>3, <1>6, <1>7, <1>12 DEF EndInv, EndsAsTold
  <2> QED BY <1>3, <2>1 DEF EndsAsTold
<1>14. ToldAtOnce'
  <2>1. ASSUME stopChat', NEW k \in Side, user'[k] = "chatting"
        PROVE  Kinds(toClient'[k]) \cap Ending' # {}
    <3>1. user[k] = "chatting" /\ isConnected[k]
        BY <1>2, <2>1 DEF EndInv, LostIsGone
    <3>2. CASE stopChat
      <4>1. Kinds(toClient[k]) \cap Ending # {}
          BY <1>2, <3>1, <3>2 DEF EndInv, ToldAtOnce
      <4> QED BY <1>3, <1>7, <4>1
    <3>3. CASE lost
      <4>1. k = i
          BY <1>1, <3>1, <3>3, Sides DEF ServesWith
      <4>2. toServer[i] # <<>>
          BY <1>2, <3>1, <4>1 DEF EndInv, ReadyStays
      <4> QED BY <1>3, <1>7, <1>12, <3>1, <3>3, <4>1, <4>2
    <3>4. CASE m.kind = "/STOP" /\ ~lost
      <4>1. k # i
          BY <1>2, <1>5, <3>1, <3>4 DEF EndInv, ReadyStays, StopsWhenLeaving
      <4>2. k = Other(i)
          BY <4>1, Sides
      <4> QED BY <1>3, <1>7, <1>12, <3>1, <3>4, <4>2
    <3> QED BY <1>2, <2>1, <3>2, <3>3, <3>4
  <2> QED BY <1>2, <2>1 DEF ToldAtOnce
<1> QED BY <1>8, <1>10, <1>11, <1>13, <1>14 DEF EndInv

\* Who is gone stays gone, and what is sent stays until the server reads it.
LEMMA UsersKeepReady ==
    ASSUME LostIsGone, ReadyStays, UNCHANGED chatVars, ready \subseteq Side,
           \A k \in Side : user[k] = "gone" => user'[k] = "gone",
           \A k \in Side : toServer[k] # <<>> => toServer'[k] # <<>>
    PROVE  LostIsGone' /\ ReadyStays'
<1>1. UNCHANGED <<isConnected, stopChat, ready>>
    BY DEF chatVars
<1> QED BY <1>1 DEF LostIsGone, ReadyStays

\* Hearing the next message.
LEMMA HearKeepsEnds ==
    ASSUME SessionType, EndInv, NEW i \in Side, NEW otherwise \in {"chatting", "stopped"},
           user[i] = "chatting", Hears(i, otherwise), UNCHANGED chatVars
    PROVE  EndsAsTold' /\ ToldAtOnce'
<1> DEFINE head == Head(toClient[i]).kind
<1>1. /\ \A k \in Side \ {i} : user'[k] = user[k] /\ toClient'[k] = toClient[k]
      /\ Kinds(toClient[i]) = Kinds(toClient'[i]) \cup {head}
      /\ user'[i] = "queue" => head = "TIMEC"
      /\ user'[i] = "menu"  => head \in {"/STOP", "IDLEC"}
      /\ user'[i] = "chatting" => head \notin Closing /\ otherwise = "chatting"
  <2>1. toClient[i] \in Seq(Message) /\ toClient[i] # <<>>
      BY HearsEffect DEF SessionType, Wire
  <2>2. toClient'[i] = Tail(toClient[i]) /\ \A k \in Side \ {i} : toClient'[k] = toClient[k]
      BY HearsEffect DEF SessionType, Wire
  <2>3. Kinds(toClient[i]) = Kinds(toClient'[i]) \cup {head}
      BY <2>1, <2>2, KindsTail
  <2> QED BY <2>2, <2>3, HearsEffect
<1> HIDE DEF head
<1>2. UNCHANGED <<chatTimedout, stopChat, chatPC, buffer>>
    BY DEF chatVars
<1>3. (Timed' <=> Timed) /\ Ending' = Ending /\ Ending \subseteq Closing
    BY <1>2 DEF Timed, Ending, Closing
<1>4. EndsAsTold'
  <2>1. ASSUME NEW k \in Side
        PROVE  /\ user'[k] = "queue" \/ "TIMEC" \in Kinds(toClient'[k]) => Timed'
               /\ user'[k] = "menu" \/ Kinds(toClient'[k]) \cap {"/STOP", "IDLEC"} # {}
                    => stopChat' /\ ~Timed'
    <3>1. CASE k = i
        BY <1>1, <1>2, <1>3, <3>1 DEF EndInv, EndsAsTold
    <3>2. CASE k # i
      <4>1. user'[k] = user[k] /\ toClient'[k] = toClient[k]
          BY <1>1, <3>2
      <4> QED BY <1>2, <1>3, <4>1 DEF EndInv, EndsAsTold
    <3> QED BY <3>1, <3>2
  <2> QED BY <1>2, <1>3, <2>1 DEF EndInv, EndsAsTold
<1>5. ToldAtOnce'
  <2>1. ASSUME stopChat, buffer = "clean", NEW k \in Side, user'[k] = "chatting"
        PROVE  Kinds(toClient'[k]) \cap Ending' # {}
    <3>1. CASE k = i
      <4>1. Kinds(toClient[i]) \cap Ending # {} /\ head \notin Ending
          BY <1>1, <1>3, <2>1, <3>1 DEF EndInv, ToldAtOnce
      <4> QED BY <1>1, <1>3, <3>1, <4>1
    <3>2. CASE k # i
      <4>1. user'[k] = user[k] /\ toClient'[k] = toClient[k]
          BY <1>1, <3>2
      <4> QED BY <1>3, <2>1, <4>1 DEF EndInv, ToldAtOnce
    <3> QED BY <3>1, <3>2
  <2> QED BY <1>2, <2>1 DEF EndInv, ToldAtOnce
<1> QED BY <1>4, <1>5

LEMMA EndKept == SessionType /\ EndInv /\ [Next]_vars => EndInv'
<1> SUFFICES ASSUME SessionType, EndInv, [Next]_vars PROVE EndInv'
    OBVIOUS
<1>T. ready \subseteq Side /\ toServer \in Wire /\ toClient \in Wire
      /\ user \in [Side -> {"chatting", "stopped", "menu", "queue", "gone"}]
    BY DEF SessionType, TypeOK
<1>I. LostIsGone /\ ReadyStays /\ StopsWhenLeaving /\ EndsAsTold /\ ToldAtOnce
    BY DEF EndInv
<1>1. CASE SelectReady
  <2>1. /\ UNCHANGED <<user, toServer, toClient, isConnected, chatTimedout, stopChat>>
        /\ ready' = Readable /\ chatPC' = "serve" /\ ~stopChat
      BY <1>1 DEF SelectReady, Selecting, userVars, wires
  <2>2. ReadyStays'
      BY <2>1 DEF ReadyStays, Readable
  <2>3. LostIsGone' /\ StopsWhenLeaving'
      BY <1>I, <2>1 DEF LostIsGone, StopsWhenLeaving
  <2>4. (Timed' <=> Timed) /\ ~Timed
      BY <1>I, <2>1 DEF EndsAsTold, Timed
  <2>5. EndsAsTold' /\ ToldAtOnce'
      BY <1>I, <2>1, <2>4 DEF EndsAsTold, ToldAtOnce
  <2> QED BY <2>2, <2>3, <2>5 DEF EndInv
<1>2. ASSUME NEW i \in Side, Serve(i) PROVE EndInv'
    BY <1>2, ServeKeepsEnd
<1>3. CASE CancelTimer \/ Close
  <2>1. /\ UNCHANGED <<user, toServer, toClient, isConnected, chatTimedout, stopChat, buffer, ready>>
        /\ chatPC' \in {"free", "over"}
      BY <1>3 DEF CancelTimer, Close, userVars, wires
  <2>2. stopChat
      BY <1>3, <1>I DEF CancelTimer, Close, LoopOver, Selecting, LostIsGone, ToldAtOnce
  <2>3. LostIsGone' /\ ReadyStays' /\ StopsWhenLeaving'
      BY <1>I, <2>1 DEF LostIsGone, ReadyStays, StopsWhenLeaving
  <2>4. (Timed' <=> Timed) /\ Ending' = Ending
      BY <2>1 DEF Timed, Ending
  <2>5. EndsAsTold' /\ ToldAtOnce'
      BY <1>I, <2>1, <2>2, <2>4 DEF EndsAsTold, ToldAtOnce
  <2> QED BY <2>3, <2>5 DEF EndInv
<1>4. CASE SelectIdle \/ SelectFails
  <2>1. PICK kind \in {"/STOP", "IDLEC"} : TellsBoth(kind)
      BY <1>4 DEF SelectIdle, SelectFails
  <2>2. UNCHANGED chatTimedout /\ Selecting
      BY <1>4 DEF SelectIdle, SelectFails
  <2>3. ~Timed' /\ kind \in Closing /\ kind # "TIMEC"
      BY <1>I, <2>2 DEF Timed, EndsAsTold, Selecting, Closing
  <2> QED BY <2>1, <2>2, <2>3, TellsKeepsEnd
<1>5. CASE TimerFires
  <2>1. CASE Selecting /\ Readable = {}
    <3>1. TellsBoth("TIMEC") /\ chatTimedout' = [i \in Side |-> TRUE]
        BY <1>5, <2>1 DEF TimerFires
    <3>2. "TIMEC" \in Closing /\ Timed'
        BY <3>1 DEF Closing, Timed, Side
    <3> QED BY <2>1, <3>1, <3>2, TellsKeepsEnd
  <2>2. CASE ~(Selecting /\ Readable = {})
    <3>1. UNCHANGED <<userVars, wires, chatVars>>
        BY <1>5, <2>2 DEF TimerFires
    <3> QED BY <3>1 DEF userVars, wires, chatVars, EndInv, LostIsGone, ReadyStays,
                        StopsWhenLeaving, EndsAsTold, ToldAtOnce, Timed, Ending
  <2> QED BY <2>1, <2>2
<1>6. CASE TimerStarts \/ TimerCancelled \/ TimerWakes \/ UNCHANGED vars
  <2>1. UNCHANGED <<userVars, wires, chatVars>>
      BY <1>6 DEF TimerStarts, TimerCancelled, TimerWakes, vars
  <2> QED BY <2>1 DEF userVars, wires, chatVars, EndInv, LostIsGone, ReadyStays,
                      StopsWhenLeaving, EndsAsTold, ToldAtOnce, Timed, Ending
<1>7. ASSUME NEW i \in Side, Say(i) PROVE EndInv'
  <2>1. /\ toServer' = [toServer EXCEPT ![i] = Append(@, Said(said[i]))]
        /\ UNCHANGED <<user, toClient, chatVars>>
      BY <1>7 DEF Say
  <2>2. Said(said[i]) \in Message /\ Said(said[i]).kind = "said"
      BY MessageType DEF Said, SessionType, TypeOK
  <2>3. toServer[i] \in Seq(Message) /\ toServer'[i] = Append(toServer[i], Said(said[i]))
        /\ \A k \in Side \ {i} : toServer'[k] = toServer[k]
      BY <1>T, <2>1, <2>2, SendsEffect DEF Wire
  <2>4. toServer'[i] # <<>> /\ Kinds(toServer'[i]) = Kinds(toServer[i]) \cup {"said"}
      BY <2>2, <2>3, KindsAppend, AppendProperties
  <2>5. LostIsGone' /\ ReadyStays'
      BY <1>I, <1>T, <2>1, <2>3, <2>4, UsersKeepReady
  <2>6. StopsWhenLeaving'
      BY <1>I, <2>1, <2>3, <2>4 DEF StopsWhenLeaving
  <2>7. EndsAsTold' /\ ToldAtOnce'
      BY <1>I, <2>1 DEF EndsAsTold, ToldAtOnce, Timed, Ending, chatVars
  <2> QED BY <2>5, <2>6, <2>7 DEF EndInv
<1>8. ASSUME NEW i \in Side, TypeStop(i) PROVE EndInv'
  <2>1. /\ toServer' = [toServer EXCEPT ![i] = Append(@, Tell("/STOP"))]
        /\ UNCHANGED chatVars /\ user[i] = "chatting"
      BY <1>8 DEF TypeStop
  <2>2. Tell("/STOP") \in Message /\ Tell("/STOP").kind = "/STOP"
      BY MessageType DEF Tell, Closing
  <2>3. toServer[i] \in Seq(Message) /\ toServer'[i] = Append(toServer[i], Tell("/STOP"))
        /\ \A k \in Side \ {i} : toServer'[k] = toServer[k]
      BY <1>T, <2>1, <2>2, SendsEffect DEF Wire
  <2>4. toServer'[i] # <<>> /\ Kinds(toServer'[i]) = Kinds(toServer[i]) \cup {"/STOP"}
      BY <2>2, <2>3, KindsAppend, AppendProperties
  <2>5. /\ user'[i] # "chatting" /\ \A k \in Side \ {i} : user'[k] = user[k]
        /\ EndsAsTold' /\ ToldAtOnce'
    <3>1. CASE Hears(i, "stopped")
      <4>1. user'[i] # "chatting" /\ \A k \in Side \ {i} : user'[k] = user[k]
          BY <3>1, HearsEffect
      <4>2. EndsAsTold' /\ ToldAtOnce'
          BY <2>1, <3>1, HearKeepsEnds
      <4> QED BY <4>1, <4>2
    <3>2. CASE user' = [user EXCEPT ![i] = "stopped"] /\ UNCHANGED <<heard, toClient>>
      <4>1. user'[i] = "stopped" /\ \A k \in Side \ {i} : user'[k] = user[k]
          BY <1>T, <3>2
      <4>2. \A k \in Side : user'[k] \in {user[k], "stopped"} /\ toClient'[k] = toClient[k]
          BY <3>2, <4>1
      <4>3. EndsAsTold' /\ ToldAtOnce'
          BY <1>I, <2>1, <4>2 DEF EndsAsTold, ToldAtOnce, Timed, Ending, chatVars
      <4> QED BY <4>1, <4>3
    <3> QED BY <1>8, <3>1, <3>2 DEF TypeStop
  <2>6. LostIsGone' /\ ReadyStays'
      BY <1>I, <1>T, <2>1, <2>3, <2>4, <2>5, UsersKeepReady
  <2>7. StopsWhenLeaving'
      BY <1>I, <2>3, <2>4, <2>5 DEF StopsWhenLeaving
  <2> QED BY <2>5, <2>6, <2>7 DEF EndInv
<1>9. ASSUME NEW i \in Side, Vanish(i) PROVE EndInv'
  <2>1. /\ user'[i] = "gone" /\ toClient'[i] = <<>> /\ UNCHANGED <<toServer, chatVars>>
        /\ \A k \in Side \ {i} : user'[k] = user[k] /\ toClient'[k] = toClient[k]
      BY <1>9, <1>T DEF Vanish, Wire
  <2>2. Kinds(toClient'[i]) = {}
      BY <2>1, KindsEmpty
  <2>3. LostIsGone' /\ ReadyStays'
      BY <1>I, <1>T, <2>1, UsersKeepReady
  <2>4. StopsWhenLeaving'
      BY <1>I, <2>1 DEF StopsWhenLeaving
  <2>5. EndsAsTold' /\ ToldAtOnce'
      BY <1>I, <2>1, <2>2 DEF EndsAsTold, ToldAtOnce, Timed, Ending, chatVars
  <2> QED BY <2>3, <2>4, <2>5 DEF EndInv
<1>10. ASSUME NEW i \in Side, Hear(i) PROVE EndInv'
  <2>1. Hears(i, "chatting") /\ user[i] = "chatting" /\ UNCHANGED <<toServer, chatVars>>
      BY <1>10 DEF Hear
  <2>2. \A k \in Side \ {i} : user'[k] = user[k]
      BY <2>1, HearsEffect
  <2>3. LostIsGone' /\ ReadyStays'
      BY <1>I, <1>T, <2>1, <2>2, UsersKeepReady
  <2>4. StopsWhenLeaving'
      BY <1>I, <2>1, <2>2 DEF StopsWhenLeaving
  <2> QED BY <2>1, <2>3, <2>4, HearKeepsEnds DEF EndInv
<1> QED BY <1>1, <1>2, <1>3, <1>4, <1>5, <1>6, <1>7, <1>8, <1>9, <1>10
        DEF Next, ChatStep, TimerStep, UserStep

\* As long as the buffer holds what was in it before, no ending was ever sent whole.
NobodyTold ==
    buffer = "garbage" =>
      \A i \in Side : user[i] \notin {"menu", "queue"} /\ Kinds(toClient[i]) \subseteq {"garbled"}

LEMMA ToldStart == Init => NobodyTold
BY KindsEmpty DEF Init, NobodyTold

LEMMA ToldKept == SessionType /\ NobodyTold /\ [Next]_vars => NobodyTold'
<1> SUFFICES ASSUME SessionType, NobodyTold, [Next]_vars PROVE NobodyTold'
    OBVIOUS
<1>T. toClient \in Wire /\ user \in [Side -> {"chatting", "stopped", "menu", "queue", "gone"}]
    BY DEF SessionType, TypeOK
<1>1. ASSUME NEW kind \in Closing, TellsBoth(kind) PROVE NobodyTold'
  <2>1. PICK m \in Message :
          /\ m.kind = IF buffer = "clean" THEN kind ELSE "garbled"
          /\ \A k \in Side : toClient'[k] = IF user[k] # "gone" THEN Append(toClient[k], m)
                                                                ELSE toClient[k]
      BY <1>1, TellsEffect
  <2>2. UNCHANGED <<user, buffer>>
      BY <1>1, TellsEffect DEF userVars
  <2> SUFFICES ASSUME buffer = "garbage", NEW k \in Side
               PROVE  user[k] \notin {"menu", "queue"} /\ Kinds(toClient'[k]) \subseteq {"garbled"}
      BY <2>2 DEF NobodyTold
  <2>3. user[k] \notin {"menu", "queue"} /\ Kinds(toClient[k]) \subseteq {"garbled"}
      BY DEF NobodyTold
  <2>4. toClient[k] \in Seq(Message)
      BY <1>T DEF Wire
  <2>5. Kinds(Append(toClient[k], m)) = Kinds(toClient[k]) \cup {"garbled"}
      BY <2>1, <2>4, KindsAppend
  <2> QED BY <2>1, <2>3, <2>5
<1>2. ASSUME NEW i \in Side, NEW otherwise \in {"chatting", "stopped"}, Hears(i, otherwise), UNCHANGED buffer
      PROVE  NobodyTold'
  <2> SUFFICES ASSUME buffer = "garbage", NEW k \in Side
               PROVE  user'[k] \notin {"menu", "queue"} /\ Kinds(toClient'[k]) \subseteq {"garbled"}
      BY <1>2 DEF NobodyTold
  <2>1. user[k] \notin {"menu", "queue"} /\ Kinds(toClient[k]) \subseteq {"garbled"}
      BY DEF NobodyTold
  <2>2. CASE k # i
    <3>1. user'[k] = user[k] /\ toClient'[k] = toClient[k]
        BY <1>2, <1>T, <2>2, HearsEffect DEF Wire
    <3> QED BY <2>1, <3>1
  <2>3. CASE k = i
    <3>1. /\ toClient[k] \in Seq(Message) /\ toClient[k] # <<>> /\ toClient'[k] = Tail(toClient[k])
          /\ user'[k] = "queue" => Head(toClient[k]).kind = "TIMEC"
          /\ user'[k] = "menu"  => Head(toClient[k]).kind \in {"/STOP", "IDLEC"}
        BY <1>2, <1>T, <2>3, HearsEffect DEF Wire
    <3>2. Kinds(toClient[k]) = Kinds(Tail(toClient[k])) \cup {Head(toClient[k]).kind}
        BY <3>1, KindsTail
    <3> QED BY <2>1, <3>1, <3>2
  <2> QED BY <2>2, <2>3
<1>3. CASE ChatStep
  <2>1. CASE \E i \in Side : Serve(i)
    <3>1. buffer' = "clean"
        BY <2>1 DEF Serve
    <3> QED BY <3>1 DEF NobodyTold
  <2>2. CASE SelectReady \/ CancelTimer \/ Close
    <3>1. UNCHANGED <<user, toClient, buffer>>
        BY <2>2 DEF SelectReady, CancelTimer, Close, userVars, wires
    <3> QED BY <3>1 DEF NobodyTold
  <2> QED BY <1>3, <2>1, <2>2 DEF ChatStep
<1>4. CASE SelectIdle \/ SelectFails
    BY <1>1, <1>4 DEF SelectIdle, SelectFails, Closing
<1>5. CASE TimerStep \/ TimerWakes \/ UNCHANGED vars
  <2>1. TellsBoth("TIMEC") \/ UNCHANGED <<userVars, wires, chatVars>>
      BY <1>5 DEF TimerStep, TimerStarts, TimerCancelled, TimerWakes, TimerFires, vars
  <2>2. CASE UNCHANGED <<userVars, wires, chatVars>>
      BY <2>2 DEF NobodyTold, userVars, wires, chatVars
  <2> QED BY <1>1, <2>1, <2>2 DEF Closing
<1>6. ASSUME NEW i \in Side, UserStep(i) \/ Hear(i) PROVE NobodyTold'
  <2>1. UNCHANGED buffer
      BY <1>6 DEF UserStep, Say, TypeStop, Vanish, Hear, chatVars
  <2>2. CASE Say(i)
      BY <2>2 DEF Say, chatVars, NobodyTold
  <2>3. CASE Hears(i, "chatting") \/ Hears(i, "stopped")
      BY <1>2, <2>1, <2>3
  <2>4. CASE user' = [user EXCEPT ![i] = "stopped"] /\ UNCHANGED toClient
      BY <1>T, <2>1, <2>4 DEF NobodyTold
  <2>5. CASE Vanish(i)
    <3>1. /\ user'[i] = "gone" /\ toClient'[i] = <<>>
          /\ \A k \in Side \ {i} : user'[k] = user[k] /\ toClient'[k] = toClient[k]
        BY <1>T, <2>5 DEF Vanish, Wire
    <3> QED BY <2>1, <3>1, KindsEmpty DEF NobodyTold
  <2> QED BY <1>6, <2>2, <2>3, <2>4, <2>5 DEF UserStep, TypeStop, Hear
<1> QED BY <1>3, <1>4, <1>5, <1>6 DEF Next

\* When a chat is over that a message has gone through, whoever still chats has been
\* sent what ended it, and whoever was sent away is where the handler goes on; when
\* it is over before that, nobody has been told and nobody was sent away.
THEOREM Telling == Spec => []EndingIsTold
<1>1. SessionType /\ EndInv /\ NobodyTold => EndingIsTold
  <2> SUFFICES ASSUME SessionType, EndInv, NobodyTold, chatPC \in {"free", "over"}, NEW i \in Side
               PROVE  /\ buffer = "clean" =>
                           /\ user[i] = "chatting" =>
                                \E n \in DOMAIN toClient[i] : toClient[i][n].kind \in Ending
                           /\ user[i] = "menu"     => Ending # {"TIMEC"}
                           /\ user[i] = "queue"    => Ending = {"TIMEC"}
                      /\ buffer = "garbage" =>
                           /\ user[i] \notin {"menu", "queue"}
                           /\ \A n \in DOMAIN toClient[i] : toClient[i][n].kind = "garbled"
      BY DEF EndingIsTold
  <2>1. DOMAIN toClient[i] = 1..Len(toClient[i])
      BY LenProperties DEF SessionType, Wire
  <2>2. CASE buffer = "clean"
    <3>1. user[i] = "chatting" => Kinds(toClient[i]) \cap Ending # {}
        BY <2>2 DEF EndInv, ToldAtOnce
    <3>2. Kinds(toClient[i]) \cap Ending # {} =>
            \E n \in 1..Len(toClient[i]) : toClient[i][n].kind \in Ending
        BY DEF Kinds
    <3>3. user[i] = "menu" => Ending # {"TIMEC"}
        BY DEF EndInv, EndsAsTold, Ending, Timed
    <3>4. user[i] = "queue" => Ending = {"TIMEC"}
        BY DEF EndInv, EndsAsTold, Ending, Timed
    <3> QED BY <2>1, <2>2, <3>1, <3>2, <3>3, <3>4
  <2>3. CASE buffer = "garbage"
      BY <2>1, <2>3 DEF NobodyTold, Kinds
  <2> QED BY <2>2, <2>3
<1> QED BY <1>1, SessionTypeStart, SessionTypeKept, EndStart, EndKept, ToldStart, ToldKept, PTL DEF Spec

-----------------------------------------------------------------------------
(***************************************************************************)
(* The order of what is said.                                              *)
(***************************************************************************)
Number == 0..(MessageCount - 1)

\* next is the number expected after each message of w, and each message has it.
Numbers(next, w, first, last) ==
    /\ next[0] = first /\ next[Len(w)] = last
    /\ \A n \in 1..Len(w) :
         IF IsSaid(w[n]) THEN w[n].number = next[n - 1] /\ next[n] = After(next[n - 1])
                         ELSE next[n] = next[n - 1]

\* The numbers in w lead from first to last.
Leads(w, first, last) == \E next \in [0..Len(w) -> Number] : Numbers(next, w, first, last)

\* From what user j has heard to what the other has said: what the server has sent to
\* the one leads to what it has not yet read from the other.
Joined(j) == \E x \in Number : /\ Leads(toClient[j], heard[j], x)
                              /\ Leads(toServer[Other(j)], x, said[Other(j)])

OrderInv == \A j \in Side : user[j] # "gone" => Joined(j)

LEMMA LeadsEmpty == \A x \in Number : Leads(<<>>, x, x)
<1> TAKE x \in Number
<1> DEFINE next == [n \in 0..0 |-> x]
<1>1. next \in [0..Len(<<>>) -> Number] /\ Numbers(next, <<>>, x, x)
    BY DEF Numbers
<1> QED BY <1>1 DEF Leads

LEMMA LeadsAppend ==
    ASSUME NEW w \in Seq(Message), NEW m \in Message, NEW x \in Number, NEW y \in Number,
           Leads(w, x, y), IsSaid(m) => m.number = y
    PROVE  Leads(Append(w, m), x, IF IsSaid(m) THEN After(y) ELSE y)
<1>1. PICK next \in [0..Len(w) -> Number] : Numbers(next, w, x, y)
    BY DEF Leads
<1>2. /\ Len(w) \in Nat /\ Len(Append(w, m)) = Len(w) + 1
      /\ \A n \in 1..Len(w) : Append(w, m)[n] = w[n]
      /\ Append(w, m)[Len(w) + 1] = m
    BY AppendProperties, LenProperties
<1> DEFINE z == IF IsSaid(m) THEN After(y) ELSE y
           more == [n \in 0..(Len(w) + 1) |-> IF n = Len(w) + 1 THEN z ELSE next[n]]
<1>3. z \in Number
  <2>1. y \in Int
      BY BoundsArePositive DEF Number
  <2> QED BY <2>1, AfterType DEF Number
<1> HIDE DEF z
<1>4. more \in [0..Len(Append(w, m)) -> Number]
    BY <1>1, <1>2, <1>3
<1>5. more[0] = x /\ more[Len(Append(w, m))] = z
    BY <1>1, <1>2 DEF Numbers
<1>6. ASSUME NEW n \in 1..Len(Append(w, m))
      PROVE  IF IsSaid(Append(w, m)[n])
             THEN Append(w, m)[n].number = more[n - 1] /\ more[n] = After(more[n - 1])
             ELSE more[n] = more[n - 1]
  <2>1. CASE n = Len(w) + 1
    <3>1. Append(w, m)[n] = m /\ more[n - 1] = y /\ more[n] = z
        BY <1>1, <1>2, <2>1 DEF Numbers
    <3> QED BY <3>1 DEF z
  <2>2. CASE n # Len(w) + 1
    <3>1. n \in 1..Len(w) /\ Append(w, m)[n] = w[n]
          /\ more[n - 1] = next[n - 1] /\ more[n] = next[n]
        BY <1>2, <2>2
    <3> HIDE DEF more
    <3> QED BY <1>1, <3>1 DEF Numbers
  <2> QED BY <2>1, <2>2
<1> HIDE DEF more
<1>7. Numbers(more, Append(w, m), x, z)
    BY <1>5, <1>6 DEF Numbers
<1> QED BY <1>4, <1>7 DEF Leads, z

LEMMA LeadsTail ==
    ASSUME NEW w \in Seq(Message), w # <<>>, NEW x \in Number, NEW y \in Number,
           Leads(w, x, y)
    PROVE  /\ IsSaid(Head(w)) => Head(w).number = x
           /\ Leads(Tail(w), IF IsSaid(Head(w)) THEN After(x) ELSE x, y)
<1>1. PICK next \in [0..Len(w) -> Number] : Numbers(next, w, x, y)
    BY DEF Leads
<1>2. /\ Len(w) \in Nat /\ Len(w) # 0 /\ Len(Tail(w)) = Len(w) - 1 /\ Head(w) = w[1]
      /\ \A n \in 1..Len(Tail(w)) : Tail(w)[n] = w[n + 1]
    BY HeadTailProperties, EmptySeq
<1> DEFINE z == IF IsSaid(Head(w)) THEN After(x) ELSE x
           rest == [n \in 0..Len(Tail(w)) |-> next[n + 1]]
<1>3. next[1] = z /\ (IsSaid(Head(w)) => Head(w).number = x)
  <2>1. 1 \in 1..Len(w) /\ 1 - 1 = 0
      BY <1>2
  <2> QED BY <1>1, <1>2, <2>1 DEF Numbers
<1>4. rest \in [0..Len(Tail(w)) -> Number]
    BY <1>1, <1>2
<1>5. rest[0] = z /\ rest[Len(Tail(w))] = y
    BY <1>1, <1>2, <1>3 DEF Numbers
<1>6. ASSUME NEW n \in 1..Len(Tail(w))
      PROVE  IF IsSaid(Tail(w)[n])
             THEN Tail(w)[n].number = rest[n - 1] /\ rest[n] = After(rest[n - 1])
             ELSE rest[n] = rest[n - 1]
  <2>1. /\ n + 1 \in 1..Len(w) /\ Tail(w)[n] = w[n + 1] /\ (n + 1) - 1 = n
        /\ rest[n - 1] = next[n] /\ rest[n] = next[n + 1]
      BY <1>2
  <2> HIDE DEF rest
  <2> QED BY <1>1, <2>1 DEF Numbers
<1> HIDE DEF rest, z
<1>7. Numbers(rest, Tail(w), z, y)
    BY <1>5, <1>6 DEF Numbers
<1> QED BY <1>3, <1>4, <1>7 DEF Leads, z

LEMMA LeadsOn ==
    ASSUME NEW v \in Seq(Message), NEW w \in Seq(Message),
           NEW x \in Number, NEW y \in Number, NEW z \in Number,
           Leads(v, x, y), Leads(w, y, z)
    PROVE  Leads(v \o w, x, z)
<1>1. PICK nextV \in [0..Len(v) -> Number] : Numbers(nextV, v, x, y)
    BY DEF Leads
<1>2. PICK nextW \in [0..Len(w) -> Number] : Numbers(nextW, w, y, z)
    BY DEF Leads
<1>3. /\ Len(v) \in Nat /\ Len(w) \in Nat /\ Len(v \o w) = Len(v) + Len(w)
      /\ \A n \in 1..(Len(v) + Len(w)) :
            (v \o w)[n] = IF n <= Len(v) THEN v[n] ELSE w[n - Len(v)]
    BY ConcatProperties, LenProperties
<1> DEFINE both == [n \in 0..(Len(v) + Len(w)) |->
                      IF n <= Len(v) THEN nextV[n] ELSE nextW[n - Len(v)]]
<1>4. both \in [0..Len(v \o w) -> Number]
    BY <1>1, <1>2, <1>3
<1>5. both[0] = x /\ both[Len(v \o w)] = z
  <2>1. both[0] = x
      BY <1>1, <1>3 DEF Numbers
  <2>2. CASE Len(w) = 0
      BY <1>1, <1>2, <1>3, <2>2 DEF Numbers
  <2>3. CASE Len(w) # 0
    <3>1. /\ Len(v) + Len(w) \in 0..(Len(v) + Len(w)) /\ ~(Len(v) + Len(w) <= Len(v))
          /\ (Len(v) + Len(w)) - Len(v) = Len(w)
        BY <1>3, <2>3
    <3>2. both[Len(v) + Len(w)] = nextW[Len(w)]
        BY <3>1
    <3> QED BY <1>2, <1>3, <2>1, <3>2 DEF Numbers
  <2> QED BY <2>1, <2>2, <2>3
<1>6. ASSUME NEW n \in 1..Len(v \o w)
      PROVE  IF IsSaid((v \o w)[n])
             THEN (v \o w)[n].number = both[n - 1] /\ both[n] = After(both[n - 1])
             ELSE both[n] = both[n - 1]
  <2>1. CASE n <= Len(v)
    <3>1. n \in 1..Len(v) /\ (v \o w)[n] = v[n]
          /\ both[n - 1] = nextV[n - 1] /\ both[n] = nextV[n]
        BY <1>3, <2>1
    <3> HIDE DEF both
    <3> QED BY <1>1, <3>1 DEF Numbers
  <2>2. CASE ~(n <= Len(v))
    <3> DEFINE k == n - Len(v)
    <3>1. k \in 1..Len(w) /\ (v \o w)[n] = w[k] /\ both[n] = nextW[k]
        BY <1>3, <2>2
    <3>2. both[n - 1] = nextW[k - 1]
      <4>1. CASE k = 1
        <5>1. n - 1 = Len(v) /\ k - 1 = 0
            BY <1>3, <4>1
        <5> QED BY <1>1, <1>2, <1>3, <5>1 DEF Numbers
      <4>2. CASE k # 1
          BY <1>3, <3>1, <4>2
      <4> QED BY <4>1, <4>2
    <3> HIDE DEF both, k
    <3> QED BY <1>2, <3>1, <3>2 DEF Numbers
  <2> QED BY <2>1, <2>2
<1> HIDE DEF both
<1>7. Numbers(both, v \o w, x, z)
    BY <1>5, <1>6 DEF Numbers
<1> QED BY <1>4, <1>7 DEF Leads

\* What is expected is what the numbers lead to.
LEMMA LeadsAsExpected ==
    ASSUME NEW w \in Seq(Message), NEW x \in Number, NEW y \in Number, Leads(w, x, y)
    PROVE  /\ \A n \in 1..Len(w) : IsSaid(w[n]) => w[n].number = Expected(w, x)[n - 1]
           /\ Expected(w, x)[Len(w)] = y
<1>1. PICK next \in [0..Len(w) -> Number] : Numbers(next, w, x, y)
    BY DEF Leads
<1> DEFINE body(f) == [n \in 0..Len(w) |-> IF n = 0 THEN x
                        ELSE IF IsSaid(w[n]) THEN After(f[n - 1]) ELSE f[n - 1]]
           found == CHOOSE f : f = body(f)
<1>2. Len(w) \in Nat
    BY LenProperties
<1>3. next = body(next)
    BY <1>1, <1>2 DEF Numbers
<1>4. found = body(found)
    BY <1>3
<1>5. Expected(w, x) = found
    BY DEF Expected
<1>6. \A n \in 0..Len(w) : found[n] = IF n = 0 THEN x ELSE
                              IF IsSaid(w[n]) THEN After(found[n - 1]) ELSE found[n - 1]
    BY <1>4
<1> HIDE DEF found
<1> DEFINE same == {n \in 0..Len(w) : found[n] = next[n]}
<1>7. 0..Len(w) \subseteq same
  <2>1. 0 \in same
      BY <1>1, <1>2, <1>6 DEF Numbers
  <2>2. ASSUME NEW n \in 0..(Len(w) - 1), n \in same PROVE n + 1 \in same
    <3>1. n + 1 \in 1..Len(w) /\ n + 1 \in 0..Len(w) /\ n + 1 # 0 /\ (n + 1) - 1 = n
        BY <1>2
    <3>2. found[n + 1] = IF IsSaid(w[n + 1]) THEN After(found[n]) ELSE found[n]
        BY <1>6, <3>1
    <3>3. next[n + 1] = IF IsSaid(w[n + 1]) THEN After(next[n]) ELSE next[n]
        BY <1>1, <3>1 DEF Numbers
    <3> QED BY <2>2, <3>1, <3>2, <3>3
  <2> HIDE DEF same
  <2> QED BY <1>2, <2>1, <2>2, UpTo
<1>8. \A n \in 1..Len(w) : n - 1 \in 0..Len(w)
    BY <1>2
<1> QED BY <1>1, <1>2, <1>5, <1>7, <1>8 DEF Numbers

LEMMA OrderStart == Init => OrderInv
<1> SUFFICES ASSUME Init, NEW j \in Side PROVE Joined(j)
    BY DEF OrderInv
<1>1. Other(j) \in Side /\ 0 \in Number
    BY Sides, BoundsArePositive DEF Number
<1>2. /\ toClient[j] = <<>> /\ heard[j] = 0
      /\ toServer[Other(j)] = <<>> /\ said[Other(j)] = 0
    BY <1>1 DEF Init
<1> QED BY <1>1, <1>2, LeadsEmpty DEF Joined

\* The types the lemmas on wires need.
LEMMA WireTypes ==
    ASSUME SessionType, NEW j \in Side
    PROVE  /\ toClient[j] \in Seq(Message) /\ toServer[j] \in Seq(Message)
           /\ heard[j] \in Number /\ said[j] \in Number
           /\ Other(j) \in Side /\ Other(j) # j /\ Other(Other(j)) = j
  BY DEF SessionType, TypeOK, Wire, Number, Side, Other

\* Hearing the next message.
LEMMA HearKeepsOrder ==
    ASSUME SessionType, NEW i \in Side, NEW otherwise \in {"chatting", "stopped"},
           Hears(i, otherwise), Joined(i),
           UNCHANGED said, UNCHANGED toServer[Other(i)]
    PROVE  Joined(i)'
<1>1. /\ toClient[i] # <<>> /\ toClient'[i] = Tail(toClient[i])
      /\ heard'[i] = IF IsSaid(Head(toClient[i])) THEN After(Head(toClient[i]).number)
                                                  ELSE heard[i]
    BY HearsEffect DEF SessionType, TypeOK, Wire, IsSaid
<1>2. PICK x \in Number : /\ Leads(toClient[i], heard[i], x)
                          /\ Leads(toServer[Other(i)], x, said[Other(i)])
    BY DEF Joined
<1>3. Leads(toClient'[i], heard'[i], x)
    BY <1>1, <1>2, WireTypes, LeadsTail
<1> QED BY <1>2, <1>3 DEF Joined

\* Sending something.
LEMMA SendKeepsOrder ==
    ASSUME SessionType, NEW i \in Side, NEW m \in Message, Joined(Other(i)),
           toServer' = [toServer EXCEPT ![i] = Append(@, m)],
           IsSaid(m) => m.number = said[i],
           said'[i] = IF IsSaid(m) THEN After(said[i]) ELSE said[i],
           UNCHANGED <<toClient[Other(i)], heard[Other(i)]>>
    PROVE  Joined(Other(i))'
<1> DEFINE j == Other(i)
<1>1. Other(j) = i /\ toServer[i] \in Seq(Message) /\ said[i] \in Number
    BY WireTypes
<1>2. toServer'[i] = Append(toServer[i], m)
    BY SendsEffect
<1>3. PICK x \in Number : Leads(toClient[j], heard[j], x) /\ Leads(toServer[i], x, said[i])
    BY <1>1 DEF Joined
<1>4. Leads(toServer'[i], x, said'[i])
    BY <1>1, <1>2, <1>3, LeadsAppend
<1>5. toClient'[j] = toClient[j] /\ heard'[j] = heard[j]
    OBVIOUS
<1> HIDE DEF j
<1>6. Leads(toClient'[j], heard'[j], x) /\ Leads(toServer'[Other(j)], x, said'[Other(j)])
    BY <1>1, <1>3, <1>4, <1>5
<1> QED BY <1>6 DEF Joined, j

\* Telling both why the chat ends.
LEMMA TellsKeepsOrder ==
    ASSUME SessionType, OrderInv, NEW kind \in Closing, TellsBoth(kind)
    PROVE  OrderInv'
<1> SUFFICES ASSUME NEW j \in Side, user'[j] # "gone" PROVE Joined(j)'
    BY DEF OrderInv
<1>1. PICK m \in Message :
        /\ m.kind = IF buffer = "clean" THEN kind ELSE "garbled"
        /\ \A k \in Side : toClient'[k] = IF user[k] # "gone" THEN Append(toClient[k], m)
                                                              ELSE toClient[k]
    BY TellsEffect
<1>2. UNCHANGED <<user, heard, said, toServer>>
    BY TellsEffect DEF userVars
<1>3. ~IsSaid(m)
    BY <1>1 DEF IsSaid, Closing
<1>4. PICK x \in Number : /\ Leads(toClient[j], heard[j], x)
                          /\ Leads(toServer[Other(j)], x, said[Other(j)])
    BY <1>2 DEF OrderInv, Joined
<1>5. toClient'[j] = Append(toClient[j], m)
    BY <1>1, <1>2
<1>6. Leads(toClient'[j], heard[j], x)
    BY <1>3, <1>4, <1>5, WireTypes, LeadsAppend
<1> QED BY <1>2, <1>4, <1>6 DEF Joined

\* Serving a client.
LEMMA ServeKeepsOrder ==
    ASSUME SessionType, OrderInv, NEW i \in Side, Serve(i)
    PROVE  OrderInv'
<1> SUFFICES ASSUME NEW j \in Side, user'[j] # "gone" PROVE Joined(j)'
    BY DEF OrderInv
<1>1. PICK m, n \in Message, lost, answers \in BOOLEAN : ServesWith(i, m, n, lost, answers)
    BY ServeEffect
<1>2. UNCHANGED <<user, heard, said>> /\ user[j] # "gone"
    BY <1>1 DEF ServesWith, userVars
<1>3. PICK x \in Number : /\ Leads(toClient[j], heard[j], x)
                          /\ Leads(toServer[Other(j)], x, said[Other(j)])
    BY <1>2 DEF OrderInv, Joined
<1>4. /\ m = IF toServer[i] = <<>> THEN n ELSE Head(toServer[i])
      /\ ~IsSaid(n) /\ (lost => user[Other(i)] = "gone") /\ (answers => lost)
      /\ toClient'[j] =
           IF answers THEN IF j = i /\ user[i] # "gone" THEN Append(toClient[j], n)
                                                       ELSE toClient[j]
           ELSE IF j = Other(i) /\ user[j] # "gone" THEN Append(toClient[j], m)
                                                    ELSE toClient[j]
      /\ toServer' = IF toServer[i] = <<>> THEN toServer ELSE [toServer EXCEPT ![i] = Tail(@)]
    BY <1>1 DEF ServesWith, IsSaid
<1>5. CASE j = i
  <2>1. toServer'[Other(j)] = toServer[Other(j)]
      BY <1>4, <1>5, WireTypes DEF SessionType, Wire
  <2>2. toClient'[j] = Append(toClient[j], n) \/ toClient'[j] = toClient[j]
      BY <1>4, <1>5, WireTypes
  <2>3. Leads(toClient'[j], heard[j], x)
      BY <1>3, <1>4, <2>2, WireTypes, LeadsAppend
  <2> QED BY <1>2, <1>3, <2>1, <2>3 DEF Joined
<1>6. CASE j # i
  <2>1. j = Other(i) /\ Other(j) = i
      BY <1>6, Sides, WireTypes
  <2>2. toClient'[j] = Append(toClient[j], m)
      BY <1>2, <1>4, <2>1
  <2>3. CASE toServer[i] = <<>>
    <3>1. toServer'[i] = toServer[i] /\ ~IsSaid(m)
        BY <1>4, <2>3
    <3>2. Leads(toClient'[j], heard[j], x)
        BY <1>3, <2>2, <3>1, WireTypes, LeadsAppend
    <3> QED BY <1>2, <1>3, <2>1, <3>1, <3>2 DEF Joined
  <2>4. CASE toServer[i] # <<>>
    <3> DEFINE y == IF IsSaid(m) THEN After(x) ELSE x
    <3>1. toServer'[i] = Tail(toServer[i]) /\ m = Head(toServer[i])
        BY <1>4, <2>4 DEF SessionType, Wire
    <3>2. Leads(toServer'[i], y, said[i]) /\ (IsSaid(m) => m.number = x)
        BY <1>3, <2>1, <2>4, <3>1, WireTypes, LeadsTail
    <3>3. Leads(toClient'[j], heard[j], y)
        BY <1>3, <2>2, <3>2, WireTypes, LeadsAppend
    <3>4. y \in Number
      <4>1. x \in Int
          BY BoundsArePositive DEF Number
      <4> QED BY <4>1, AfterType DEF Number
    <3> HIDE DEF y
    <3> QED BY <1>2, <2>1, <3>2, <3>3, <3>4 DEF Joined
  <2> QED BY <2>3, <2>4
<1> QED BY <1>5, <1>6

LEMMA OrderKept == SessionType /\ OrderInv /\ [Next]_vars => OrderInv'
<1> SUFFICES ASSUME SessionType, OrderInv, [Next]_vars PROVE OrderInv'
    OBVIOUS
<1>0. CASE UNCHANGED <<user, said, heard, toServer, toClient>>
    BY <1>0 DEF OrderInv, Joined
<1>1. CASE \/ SelectReady \/ CancelTimer \/ Close \/ TimerStarts \/ TimerCancelled \/ TimerWakes
           \/ UNCHANGED vars
    BY <1>0, <1>1 DEF SelectReady, CancelTimer, Close, TimerStarts, TimerCancelled, TimerWakes,
                      vars, userVars, wires
<1>2. ASSUME NEW i \in Side, Serve(i) PROVE OrderInv'
    BY <1>2, ServeKeepsOrder
<1>3. CASE SelectIdle \/ SelectFails
  <2>1. PICK kind \in Closing : TellsBoth(kind)
      BY <1>3 DEF SelectIdle, SelectFails, Closing
  <2> QED BY <2>1, TellsKeepsOrder
<1>4. CASE TimerFires
  <2>1. CASE Selecting /\ Readable = {}
    <3>1. TellsBoth("TIMEC") /\ "TIMEC" \in Closing
        BY <1>4, <2>1 DEF TimerFires, Closing
    <3> QED BY <3>1, TellsKeepsOrder
  <2>2. CASE ~(Selecting /\ Readable = {})
      BY <1>0, <1>4, <2>2 DEF TimerFires, userVars, wires
  <2> QED BY <2>1, <2>2
<1>5. ASSUME NEW i \in Side, Say(i) PROVE OrderInv'
  <2>1. /\ toServer' = [toServer EXCEPT ![i] = Append(@, Said(said[i]))]
        /\ said' = [said EXCEPT ![i] = After(@)]
        /\ UNCHANGED <<user, heard, toClient>>
      BY <1>5 DEF Say
  <2>2. /\ Said(said[i]) \in Message /\ IsSaid(Said(said[i])) /\ Said(said[i]).number = said[i]
      BY MessageType, WireTypes DEF Said, IsSaid, Number
  <2>3. said'[i] = After(said[i]) /\ said'[Other(i)] = said[Other(i)]
        /\ toServer'[Other(i)] = toServer[Other(i)]
      BY <2>1, WireTypes DEF SessionType, TypeOK, Wire
  <2>4. Joined(Other(i)) => Joined(Other(i))'
      BY <2>1, <2>2, <2>3, SendKeepsOrder
  <2>5. Joined(i) => Joined(i)'
      BY <2>1, <2>3 DEF Joined
  <2> QED BY <2>1, <2>4, <2>5, Sides DEF OrderInv
<1>6. ASSUME NEW i \in Side, TypeStop(i) PROVE OrderInv'
  <2>1. /\ toServer' = [toServer EXCEPT ![i] = Append(@, Tell("/STOP"))]
        /\ UNCHANGED said /\ user[i] = "chatting"
      BY <1>6 DEF TypeStop
  <2>2. Tell("/STOP") \in Message /\ ~IsSaid(Tell("/STOP"))
      BY MessageType DEF Tell, IsSaid, Closing
  <2>3. toServer'[Other(i)] = toServer[Other(i)]
      BY <2>1, WireTypes DEF SessionType, Wire
  <2>4. /\ UNCHANGED <<user[Other(i)], toClient[Other(i)], heard[Other(i)]>>
        /\ Joined(i) => Joined(i)'
    <3>1. CASE Hears(i, "stopped")
      <4>1. UNCHANGED <<user[Other(i)], toClient[Other(i)], heard[Other(i)]>>
          BY <3>1, HearsEffect, WireTypes DEF SessionType, TypeOK, Wire
      <4>2. Joined(i) => Joined(i)'
          BY <2>1, <2>3, <3>1, HearKeepsOrder
      <4> QED BY <4>1, <4>2
    <3>2. CASE user' = [user EXCEPT ![i] = "stopped"] /\ UNCHANGED <<heard, toClient>>
      <4>1. UNCHANGED user[Other(i)]
          BY <3>2, WireTypes DEF SessionType, TypeOK
      <4> QED BY <2>1, <2>3, <3>2, <4>1 DEF Joined
    <3> QED BY <1>6, <3>1, <3>2 DEF TypeStop
  <2>5. Joined(Other(i)) => Joined(Other(i))'
      BY <2>1, <2>2, <2>4, SendKeepsOrder
  <2> QED BY <2>1, <2>4, <2>5, Sides DEF OrderInv
<1>7. ASSUME NEW i \in Side, Vanish(i) PROVE OrderInv'
  <2>1. /\ user'[i] = "gone" /\ UNCHANGED <<said, heard, toServer>>
        /\ UNCHANGED <<user[Other(i)], toClient[Other(i)]>>
      BY <1>7, WireTypes DEF Vanish, SessionType, TypeOK, Wire
  <2>2. Joined(Other(i)) => Joined(Other(i))'
      BY <2>1 DEF Joined
  <2> QED BY <2>1, <2>2, Sides DEF OrderInv
<1>8. ASSUME NEW i \in Side, Hear(i) PROVE OrderInv'
  <2>1. Hears(i, "chatting") /\ user[i] = "chatting" /\ UNCHANGED <<said, toServer>>
      BY <1>8 DEF Hear
  <2>2. UNCHANGED <<user[Other(i)], toClient[Other(i)], heard[Other(i)]>>
      BY <2>1, HearsEffect, WireTypes DEF SessionType, TypeOK, Wire
  <2>3. Joined(i) => Joined(i)'
      BY <2>1, HearKeepsOrder
  <2>4. Joined(Other(i)) => Joined(Other(i))'
      BY <2>1, <2>2 DEF Joined
  <2> QED BY <2>1, <2>2, <2>3, <2>4, Sides DEF OrderInv
<1> QED BY <1>1, <1>2, <1>3, <1>4, <1>5, <1>6, <1>7, <1>8
        DEF Next, ChatStep, TimerStep, UserStep

\* What one user says is heard by the other in that order, without a gap and without
\* an echo, however many messages are on their way.
THEOREM Ordering == Spec => []InOrder
<1>1. SessionType /\ OrderInv => InOrder
  <2> SUFFICES ASSUME SessionType, OrderInv, NEW j \in Side, user[j] # "gone"
               PROVE  LET way == toClient[j] \o toServer[Other(j)]
                          next == Expected(way, heard[j])
                      IN  /\ \A n \in DOMAIN way : IsSaid(way[n]) => way[n].number = next[n - 1]
                          /\ said[Other(j)] = next[Len(way)]
      BY DEF InOrder
  <2> DEFINE way == toClient[j] \o toServer[Other(j)]
  <2>1. PICK x \in Number : /\ Leads(toClient[j], heard[j], x)
                            /\ Leads(toServer[Other(j)], x, said[Other(j)])
      BY DEF OrderInv, Joined
  <2>2. /\ toClient[j] \in Seq(Message) /\ toServer[Other(j)] \in Seq(Message)
        /\ heard[j] \in Number /\ said[Other(j)] \in Number
      BY WireTypes
  <2>3. way \in Seq(Message) /\ DOMAIN way = 1..Len(way)
      BY <2>2, ConcatProperties, LenProperties
  <2>4. Leads(way, heard[j], said[Other(j)])
      BY <2>1, <2>2, LeadsOn
  <2> HIDE DEF way
  <2>5. /\ \A n \in 1..Len(way) : IsSaid(way[n]) => way[n].number = Expected(way, heard[j])[n - 1]
        /\ Expected(way, heard[j])[Len(way)] = said[Other(j)]
      BY <2>2, <2>3, <2>4, LeadsAsExpected
  <2> QED BY <2>3, <2>5 DEF way
<1> QED BY <1>1, SessionTypeStart, SessionTypeKept, OrderStart, OrderKept, PTL DEF Spec
=============================================================================
