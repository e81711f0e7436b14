--------------------------- MODULE LobbyRefinement ---------------------------
(***************************************************************************)
(* Matchmaking implements Lobby as long as nobody types STOP: a client     *)
(* waits while it stands in a queue, and has the partner of a chat from    *)
(* the moment the room starts the chat until the chat has closed, long     *)
(* before and after its own handler knows of either.                       *)
(***************************************************************************)
EXTENDS Matchmaking

\* The chat still has its two clients; it lets go of both with the first of the
\* two flags it clears, since the handler of the other waits for the second.
HasPair(k) == chatPC[k] \notin {"free", "close2", "wake2", "wake1"}

\* The client that a chat has put c together with.
PartnerOf(c) ==
    IF \E k \in Chat : HasPair(k) /\ c \in ChatPair(k)
    THEN LET k == CHOOSE k \in Chat : HasPair(k) /\ c \in ChatPair(k)
         IN  IF c = client1[k] THEN client2[k] ELSE client1[k]
    ELSE NoThread

L == INSTANCE Lobby WITH
        Nobody <- NoThread,
        waiting <- [r \in Room |-> ToSet(coda[r])],
        partner <- [c \in Client |-> PartnerOf(c)]

\* A client queues only when no chat has it any more, whatever its handler was
\* told and when; a pair comes out of one queue, both at once, and is parted for
\* both at once, by the chat; nothing else puts anybody anywhere, whichever
\* handler, matcher or chat notices first that a client is gone.
ImplementsLobby == L!LobbySpec
=============================================================================
