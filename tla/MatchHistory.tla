---------------------------- MODULE MatchHistory ----------------------------
(***************************************************************************)
(* Matchmaking with a record of the assignments the server makes.  The     *)
(* server remembers a client's last assignment in two fields, matchedRoom  *)
(* (written by the room when it takes the pair out of its queue) and       *)
(* matchedAddress (written by the chat, later); lastMatch is the assignment*)
(* itself, recorded when it is made.  It constrains nothing.               *)
(***************************************************************************)
EXTENDS Matchmaking

VARIABLE lastMatch   \* lastMatch[c]: <<room, counterpart>>, or <<>>

\* The step starts chat k.
Starts(k) == chatPC[k] = "free" /\ chatPC'[k] = "lock1"

Record ==
    lastMatch' = [c \in Client |->
        IF \E k \in Chat : Starts(k) /\ c \in {client1'[k], client2'[k]}
        THEN LET k == CHOOSE k \in Chat : Starts(k)
                 p == IF c = client1'[k] THEN client2'[k] ELSE client1'[k]
             IN  <<matchedRoom'[c], p>>
        ELSE lastMatch[c]]

HistoryInit == Init /\ lastMatch = [c \in Client |-> <<>>]
HistoryNext == Next /\ Record
HistorySpec == HistoryInit /\ [][HistoryNext]_<<vars, lastMatch>>

-----------------------------------------------------------------------------
\* c is assigned to p in room r although its last assignment was the same.
Repeats(c, p, r) == lastMatch[c] = <<r, p>>

\* What findPairClientsFromQueue keeps of its promise, reading fields that the room
\* and the chats write at different times: a client is assigned in the room of its last
\* assignment to the same counterpart only if that one has been assigned in another
\* room since.  In that case it is assigned to it twice in a row all the same.
NeverRepeats ==
    [][\A k \in Chat : Starts(k) =>
         LET c1 == client1'[k]
             c2 == client2'[k]
             r == matchedRoom'[c1]
         IN  /\ Repeats(c1, c2, r) => lastMatch[c2][1] \in Room \ {r}
             /\ Repeats(c2, c1, r) => lastMatch[c1][1] \in Room \ {r}]_<<vars, lastMatch>>

\* What the comment of findPairClientsFromQueue promises: "un client non puo' essere
\* assegnato ad una medesima controparte nella stessa stanza in due assegnazioni
\* consecutive".  The code asks that both clients were last matched in this room.
NeverTwiceInARow ==
    [][\A k \in Chat : Starts(k) =>
         LET c1 == client1'[k]
             c2 == client2'[k]
             r == matchedRoom'[c1]
         IN  ~Repeats(c1, c2, r) /\ ~Repeats(c2, c1, r)]_<<vars, lastMatch>>

\* The two fields that tell the search of a client's last assignment, one written
\* by the room and one by the chat, tell the same assignment, the last one,
\* whenever the client stands in a queue; and matchedAddress, which initClient
\* leaves undefined, is looked at only when it has been written.
LastAssignmentKnown ==
    \A r \in Room : \A c \in ToSet(coda[r]) :
        IF lastMatch[c] = <<>> THEN matchedRoom[c] = NoRoom
        ELSE matchedRoom[c] = lastMatch[c][1] /\ matchedAddress[c] = AddressOf[lastMatch[c][2]]
=============================================================================
