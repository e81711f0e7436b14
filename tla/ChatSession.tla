----------------------------- MODULE ChatSession ----------------------------
(***************************************************************************)
(* One chat from its first message to its end: the relay loop of           *)
(* gestisciChat, the thread checkChatTimedout that interrupts it, and the  *)
(* two client programs with their sockets.  The greeting before it and the *)
(* handlers after it are in module Matchmaking.                            *)
(***************************************************************************)
EXTENDS Integers, Sequences, FiniteSets

CONSTANTS
    Lower,         \* the client (1 or 2) whose socket has the lower descriptor
    MaxInFlight,   \* a bound: how many messages of a user are on their way
    MessageCount   \* a bound: the messages of a user are numbered modulo this

ASSUME LowerIsASide == Lower \in {1, 2}
ASSUME BoundsArePositive == MaxInFlight \in Nat \ {0} /\ MessageCount \in Nat \ {0}

VARIABLES
    user,          \* what each client program believes: "chatting", "stopped" by
                   \* itself, sent back to the "menu" or to the "queue", or "gone"
    said, heard,   \* the number of the next message each user will say, or hear
    toServer, toClient,   \* the bytes in the sockets, a message at a time
    isConnected, chatTimedout,   \* the fields of the two Clients
    stopChat, buffer,            \* local variables of gestisciChat
    chatPC,        \* where gestisciChat is
    ready,         \* FileDescriptorSET, as far as it has not been served
    timer,         \* where checkChatTimedout is
    tid,           \* its local variable: the thread it will send SIGUSR1 to
    cancelled      \* pthread_cancel was called for it

userVars == <<user, said, heard>>
wires == <<toServer, toClient>>
chatVars == <<isConnected, chatTimedout, stopChat, buffer, chatPC, ready>>
timerVars == <<timer, tid, cancelled>>
vars == <<userVars, wires, chatVars, timerVars>>

Side == {1, 2}   \* Client1 and Client2
Other(i) == 3 - i

\* What is in a message: something said, one of the three that end a chat, or
\* one of those followed by what an uninitialised buffer held, which is no
\* longer equal to it.
Said(n) == [kind |-> "said", number |-> n]
Tell(kind) == [kind |-> kind, number |-> 0]
Closing == {"/STOP", "TIMEC", "IDLEC"}

\* The stack of the new thread, where the buffer is, may be fresh or left over
\* from another thread.
Init ==
    /\ user = [i \in Side |-> "chatting"]
    /\ said = [i \in Side |-> 0] /\ heard = [i \in Side |-> 0]
    /\ toServer = [i \in Side |-> <<>>] /\ toClient = [i \in Side |-> <<>>]
    /\ isConnected = [i \in Side |-> TRUE] /\ chatTimedout = [i \in Side |-> FALSE]
    /\ stopChat = FALSE /\ buffer \in {"clean", "garbage"}
    /\ chatPC = "first" /\ ready = {}
    /\ timer = "created" /\ tid = "unread" /\ cancelled = FALSE

-----------------------------------------------------------------------------
(***************************************************************************)
(* The client programs.                                                    *)
(***************************************************************************)
After(n) == (n + 1) % MessageCount

Say(i) ==
    /\ user[i] = "chatting"
    /\ Len(toServer[i]) + Len(toClient[Other(i)]) < MaxInFlight
    /\ toServer' = [toServer EXCEPT ![i] = Append(@, Said(said[i]))]
    /\ said' = [said EXCEPT ![i] = After(@)]
    /\ UNCHANGED <<user, heard, toClient, chatVars, timerVars>>

\* The next message from the server; otherwise is where the user is if it does
\* not end the chat.
Hears(i, otherwise) ==
    LET m == Head(toClient[i])
    IN  /\ toClient[i] # <<>>
        /\ toClient' = [toClient EXCEPT ![i] = Tail(@)]
        /\ heard' = [heard EXCEPT ![i] = IF m.kind = "said" THEN After(m.number) ELSE @]
        /\ user' = [user EXCEPT ![i] =
              CASE m.kind = "TIMEC" -> "queue"
                [] m.kind \in {"/STOP", "IDLEC"} /\ otherwise = "chatting" -> "menu"
                [] OTHER -> otherwise]

Hear(i) ==
    /\ user[i] = "chatting"
    /\ Hears(i, "chatting")
    /\ UNCHANGED <<said, toServer, chatVars, timerVars>>

\* The user types /STOP.  A message that is there in the same round of the
\* client's select is still read after it.
TypeStop(i) ==
    /\ user[i] = "chatting"
    /\ toServer' = [toServer EXCEPT ![i] = Append(@, Tell("/STOP"))]
    /\ \/ Hears(i, "stopped")
       \/ user' = [user EXCEPT ![i] = "stopped"] /\ UNCHANGED <<heard, toClient>>
    /\ UNCHANGED <<said, chatVars, timerVars>>

\* The program ends or the connection breaks: what was sent can still be read.
Vanish(i) ==
    /\ user[i] # "gone"
    /\ user' = [user EXCEPT ![i] = "gone"]
    /\ toClient' = [toClient EXCEPT ![i] = <<>>]
    /\ UNCHANGED <<said, heard, toServer, chatVars, timerVars>>

-----------------------------------------------------------------------------
(***************************************************************************)
(* gestisciChat.                                                           *)
(***************************************************************************)

\* One write to client i: what arrives, if anybody is there to receive it.
Arrives(wire, i, m) ==
    IF user[i] = "gone" THEN wire ELSE [wire EXCEPT ![i] = Append(@, m)]

\* A write to a client that is gone may succeed or fail.
MayFail(i) == IF user[i] = "gone" THEN BOOLEAN ELSE {FALSE}

Selecting == chatPC \in {"first", "select"} /\ ~stopChat /\ \A i \in Side : isConnected[i]

Readable == {i \in Side : toServer[i] # <<>> \/ user[i] = "gone"}

SelectReady ==
    /\ Selecting
    /\ Readable # {}
    /\ ready' = Readable
    /\ chatPC' = "serve"
    /\ UNCHANGED <<userVars, wires, isConnected, chatTimedout, stopChat, buffer, timerVars>>

\* A mistake to test the properties with: the second client is not told.
TellsOne(kind) ==
    /\ toClient' = Arrives(toClient, 1, Tell(kind))
    /\ stopChat' = TRUE
    /\ chatPC' = "select"
    /\ UNCHANGED <<userVars, toServer, isConnected, buffer, ready>>

\* select returned nothing to read: both are told why the chat ends, in the five
\* characters copied to the buffer and whatever follows them there.
TellsBoth(kind) ==
    LET m == IF buffer = "clean" THEN Tell(kind) ELSE Tell("garbled")
    IN  /\ toClient' = Arrives(Arrives(toClient, 1, m), 2, m)
        /\ \E lost1 \in MayFail(1), lost2 \in MayFail(2) :
              isConnected' = [i \in Side |-> isConnected[i] /\ ~(IF i = 1 THEN lost1 ELSE lost2)]
        /\ stopChat' = TRUE
        /\ chatPC' = "select"
        /\ UNCHANGED <<userVars, toServer, buffer, ready>>

\* 35 seconds without a message.
SelectIdle ==
    /\ Selecting
    /\ Readable = {}
    /\ TellsBoth("IDLEC")
    /\ UNCHANGED <<chatTimedout, timerVars>>

\* The first select is given a number of microseconds that was never set.
SelectFails ==
    /\ Selecting
    /\ chatPC = "first"
    /\ TellsBoth("/STOP")
    /\ UNCHANGED <<chatTimedout, timerVars>>

\* A mistake to test the properties with: the message goes back to its sender.
ServesBack(i) ==
    /\ chatPC = "serve" /\ i \in ready /\ toServer[i] # <<>>
    /\ toServer' = [toServer EXCEPT ![i] = Tail(@)]
    /\ toClient' = Arrives(toClient, i, Head(toServer[i]))
    /\ ready' = ready \ {i} /\ buffer' = "clean"
    /\ chatPC' = IF ready' = {} THEN "select" ELSE "serve"
    /\ UNCHANGED <<userVars, isConnected, chatTimedout, stopChat, timerVars>>

\* A mistake to test the properties with: a stop ends the loop and is not
\* written to the other client.
StopsSilently(i) ==
    /\ chatPC = "serve" /\ i \in ready /\ toServer[i] # <<>>
    /\ toServer' = [toServer EXCEPT ![i] = Tail(@)]
    /\ stopChat' = (stopChat \/ Head(toServer[i]).kind = "/STOP")
    /\ toClient' = IF stopChat' THEN toClient ELSE Arrives(toClient, Other(i), Head(toServer[i]))
    /\ ready' = ready \ {i} /\ buffer' = "clean"
    /\ chatPC' = IF ready' = {} THEN "select" ELSE "serve"
    /\ UNCHANGED <<userVars, isConnected, chatTimedout, timerVars>>

\* A mistake to test the properties with: the round ends with the first client.
ServesOne(i) ==
    /\ chatPC = "serve" /\ i \in ready /\ toServer[i] # <<>>
    /\ toServer' = [toServer EXCEPT ![i] = Tail(@)]
    /\ toClient' = Arrives(toClient, Other(i), Head(toServer[i]))
    /\ ready' = ready \ {i} /\ buffer' = "clean" /\ chatPC' = "select"
    /\ UNCHANGED <<userVars, isConnected, chatTimedout, stopChat, timerVars>>

\* The next ready descriptor: a message of client i is read and written to the
\* other.  The end of i's connection is told to the other as a stop, and a
\* failed write to the other is told to i.  The round goes on after a stop.
Serve(i) ==
    LET j      == Other(i)
        closed == toServer[i] = <<>>
        m      == IF closed THEN Tell("/STOP") ELSE Head(toServer[i])
    IN  /\ chatPC = "serve" /\ i \in ready
        /\ i # Lower => Lower \notin ready
        /\ \E lost \in MayFail(j), deaf \in MayFail(i) :
             LET answers == lost /\ ~closed /\ isConnected[i] IN
              /\ deaf => answers
              /\ isConnected' = [isConnected EXCEPT ![i] = @ /\ ~closed /\ ~deaf,
                                                    ![j] = @ /\ ~lost]
              /\ toClient' = IF answers THEN Arrives(toClient, i, Tell("/STOP"))
                                        ELSE Arrives(toClient, j, m)
              /\ stopChat' = (stopChat \/ lost \/ m.kind = "/STOP")
        /\ toServer' = IF closed THEN toServer ELSE [toServer EXCEPT ![i] = Tail(@)]
        /\ buffer' = "clean"
        /\ ready' = ready \ {i}
        /\ chatPC' = IF ready' = {} THEN "select" ELSE "serve"
        /\ UNCHANGED <<userVars, chatTimedout, timerVars>>

-----------------------------------------------------------------------------
\* After the loop: the timer is cancelled unless it has ended the chat, and then
\* the memory that holds its argument is freed.
LoopOver == chatPC \in {"first", "select"} /\ ~Selecting

\* A mistake to test the properties with: the timer is left alone.
NeverCancels ==
    /\ LoopOver
    /\ chatPC' = "free"
    /\ UNCHANGED <<userVars, wires, isConnected, chatTimedout, stopChat, buffer, ready, timerVars>>

CancelTimer ==
    /\ LoopOver
    /\ chatPC' = "free"
    /\ cancelled' = \A i \in Side : ~chatTimedout[i]
    /\ UNCHANGED <<userVars, wires, isConnected, chatTimedout, stopChat, buffer, ready, timer, tid>>

Close ==
    /\ chatPC = "free"
    /\ chatPC' = "over"
    /\ UNCHANGED <<userVars, wires, isConnected, chatTimedout, stopChat, buffer, ready, timerVars>>

-----------------------------------------------------------------------------
(***************************************************************************)
(* checkChatTimedout.                                                      *)
(***************************************************************************)

\* It copies its argument, even when it has been cancelled already: only the
\* sleep that follows is a cancellation point.
TimerStarts ==
    /\ timer = "created"
    /\ tid' = IF chatPC = "over" THEN "garbage" ELSE "chat"
    /\ timer' = "asleep"
    /\ UNCHANGED <<userVars, wires, chatVars, cancelled>>

TimerCancelled ==
    /\ timer = "asleep"
    /\ cancelled
    /\ timer' = "ended"
    /\ UNCHANGED <<userVars, wires, chatVars, tid, cancelled>>

\* The 61 seconds are over.
TimerWakes ==
    /\ timer = "asleep"
    /\ ~cancelled
    /\ timer' = "awake"
    /\ UNCHANGED <<userVars, wires, chatVars, tid, cancelled>>

\* pthread_kill: the signal makes a select fail that has nothing to return; it
\* does nothing to the other calls, which are restarted, or to a thread that is
\* between two calls, and then it is lost.
TimerFires ==
    /\ timer = "awake"
    /\ timer' = "ended"
    /\ IF Selecting /\ Readable = {}
       THEN /\ TellsBoth("TIMEC")
            /\ chatTimedout' = [i \in Side |-> TRUE]
       ELSE UNCHANGED <<userVars, wires, chatVars>>
    /\ UNCHANGED <<tid, cancelled>>

-----------------------------------------------------------------------------
ChatStep ==
    \/ SelectReady \/ (\E i \in Side : Serve(i)) \/ CancelTimer \/ Close

TimerStep == TimerStarts \/ TimerCancelled \/ TimerFires

UserStep(i) == Say(i) \/ TypeStop(i) \/ Vanish(i)

Next ==
    \/ ChatStep \/ SelectIdle \/ SelectFails
    \/ TimerStep \/ TimerWakes
    \/ \E i \in Side : UserStep(i) \/ Hear(i)

Spec == Init /\ [][Next]_vars

\* The threads of the server run, and so does the client program, which reads
\* what is sent to it.  No silence need ever last 35 seconds, and no chat a
\* minute; what a user types is left to the user.
Fairness ==
    /\ WF_vars(ChatStep)
    /\ WF_vars(TimerStep)
    /\ \A i \in Side : WF_vars(Hear(i))

FairSpec == Spec /\ Fairness
=============================================================================
