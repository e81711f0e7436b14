-------------------------------- MODULE Lobby --------------------------------
(***************************************************************************)
(* What the server promises to its users from the room menu on: a client   *)
(* waits in one room or has one partner, who has it, and is otherwise at   *)
(* large.  Threads, mutexes, signals and flags are the business of module  *)
(* Matchmaking.                                                            *)
(***************************************************************************)
CONSTANTS Client, Room, Nobody

VARIABLES
    waiting,   \* waiting[r]: the clients that room r may put together
    partner    \* partner[c]: whom c has been put together with, or Nobody

lobbyVars == <<waiting, partner>>

LobbyInit ==
    /\ waiting = [r \in Room |-> {}]
    /\ partner = [c \in Client |-> Nobody]

AtLarge(c) == partner[c] = Nobody /\ \A r \in Room : c \notin waiting[r]

Joins(c, r) ==
    /\ AtLarge(c)
    /\ waiting' = [waiting EXCEPT ![r] = @ \cup {c}]
    /\ UNCHANGED partner

\* Some give up, or are given up as lost.
Desert(those, r) ==
    /\ those # {} /\ those \subseteq waiting[r]
    /\ waiting' = [waiting EXCEPT ![r] = @ \ those]
    /\ UNCHANGED partner

\* Two that wait in one room are put together.
Pair(c, d, r) ==
    /\ c # d /\ {c, d} \subseteq waiting[r]
    /\ waiting' = [waiting EXCEPT ![r] = @ \ {c, d}]
    /\ partner' = [partner EXCEPT ![c] = d, ![d] = c]

\* Both partners are at large at the same moment.
Part(c) ==
    /\ partner[c] # Nobody
    /\ partner' = [partner EXCEPT ![c] = Nobody, ![partner[c]] = Nobody]
    /\ UNCHANGED waiting

LobbyNext ==
    \/ \E c \in Client : Part(c)
    \/ \E r \in Room :
         \/ \E c \in Client : Joins(c, r)
         \/ \E those \in SUBSET waiting[r] : Desert(those, r)
         \/ \E c, d \in waiting[r] : Pair(c, d, r)

LobbySpec == LobbyInit /\ [][LobbyNext]_lobbyVars
=============================================================================
