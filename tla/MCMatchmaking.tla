---------------------------- MODULE MCMatchmaking ----------------------------
(***************************************************************************)
(* Small instances of module Matchmaking for TLC.  Every client connects   *)
(* from a host of its own under a nickname of its own.                     *)
(***************************************************************************)
EXTENDS LobbyRefinement

MCNicknameOf == [c \in Client |-> c]
MCAddressOf  == [c \in Client |-> c]
MCStale      == {NoAddress}
MCFloor      == -1

\* The memory that malloc returns may hold the address of a client, the worst
\* it can hold.
MCOldAddress == {AddressOf[c] : c \in MayDrop}

\* The clients that can be relied on are interchangeable, and so are the rooms.  Used
\* for safety only.
MCDropSymmetry == Permutations(Client \ MayDrop)
MCAllSymmetry  == MCDropSymmetry \cup Permutations(Room)
=============================================================================
