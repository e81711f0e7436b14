-------------------------- MODULE SessionProperties -------------------------
(***************************************************************************)
(* What the two users of a chat may rely on.                               *)
(***************************************************************************)
EXTENDS ChatSession

\* The values of the variables.
TypeOK ==
    /\ user \in [Side -> {"chatting", "stopped", "menu", "queue", "gone"}]
    /\ said \in [Side -> 0..(MessageCount - 1)]
    /\ heard \in [Side -> 0..(MessageCount - 1)]
    /\ isConnected \in [Side -> BOOLEAN] /\ chatTimedout \in [Side -> BOOLEAN]
    /\ chatPC \in {"first", "select", "serve", "free", "over"}
    /\ ready \subseteq Side /\ (ready # {} => chatPC = "serve")
    /\ timer \in {"created", "asleep", "awake", "ended"}
    /\ tid \in {"unread", "chat", "garbage"}

IsSaid(m) == m.kind = "said"

\* The number that is to come next after each of the messages on a way, where the
\* first of them is to come first.
Expected(way, first) ==
    LET next[n \in 0..Len(way)] == IF n = 0 THEN first
                                  ELSE IF IsSaid(way[n]) THEN After(next[n - 1]) ELSE next[n - 1]
    IN  next

\* What a user says is heard by the other in that order, without a gap and without
\* an echo, in whichever order the two sockets are served, until one of them has
\* left: the numbers on the way lead from the last one heard to the last one said.
InOrder ==
    \A j \in Side : user[j] # "gone" =>
      LET way  == toClient[j] \o toServer[Other(j)]   \* the oldest message first
          next == Expected(way, heard[j])
      IN  /\ \A n \in DOMAIN way : IsSaid(way[n]) => way[n].number = next[n - 1]
          /\ said[Other(j)] = next[Len(way)]

\* The kinds of messages that end a chat, as the handlers will go on.
Ending == IF \E i \in Side : chatTimedout[i] THEN {"TIMEC"} ELSE {"/STOP", "IDLEC"}

\* What becomes of the users when a chat is over.  Once a message has gone through
\* it, whatever ended it, a user who still chats has been sent what ended it, and the
\* place a user was sent back to is the place where the handler takes the client.
\* When silence, the timer or a failing select ends it before that, the opposite of
\* what chatStartUI tells the users (client.c:250-251): neither is sent anything that
\* the program knows as an ending, and neither is taken anywhere.
EndingIsTold ==
    chatPC \in {"free", "over"} =>
      /\ buffer = "clean" => \A i \in Side :
           /\ user[i] = "chatting" => \E n \in DOMAIN toClient[i] : toClient[i][n].kind \in Ending
           /\ user[i] = "menu"     => Ending # {"TIMEC"}
           /\ user[i] = "queue"    => Ending = {"TIMEC"}
      /\ buffer = "garbage" => \A i \in Side :
           /\ user[i] \notin {"menu", "queue"}
           /\ \A n \in DOMAIN toClient[i] : toClient[i][n].kind = "garbled"

\* The timer never sends its signal to a thread whose identifier it has read from
\* memory that was freed: it may start after the chat is over, but then it has been
\* cancelled.  (The identifier may still be that of a chat that has ended since.)
KnowsItsChat == timer = "awake" => tid = "chat"

\* A user who types /STOP ends the chat for the other, too, whatever else is on the
\* way, however much the other says and whenever the timer fires, except in a chat
\* that ends by itself before the server has read a message: there the /STOP is
\* never read and the other goes on chatting with nobody, against client.c:252.
StopIsHeard ==
    \A i \in Side :
      user[i] = "stopped" ~>
        \/ user[Other(i)] # "chatting"
        \/ chatPC = "over" /\ buffer = "garbage"
=============================================================================
