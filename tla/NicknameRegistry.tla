-------------------------- MODULE NicknameRegistry --------------------------
(***************************************************************************)
(* What the registry of nicknames promises to the handlers that use it     *)
(* under its mutex: a bag of numbers.                                      *)
(***************************************************************************)
EXTENDS RegistryClient

VARIABLE taken   \* how often each number is in the registry

nrVars == <<pc, numeroClientsServer, taken>>

NRInit ==
    /\ ClientInit
    /\ taken = [s \in Sum |-> 0]

NRCheck(c) ==
    /\ Check(c, taken[SumOf[c]] > 0)
    /\ UNCHANGED taken

NRGivesUp(c) ==
    /\ GivesUp(c)
    /\ UNCHANGED taken

NRInsert(c) ==
    /\ Insert(c)
    /\ taken' = [taken EXCEPT ![SumOf[c]] = @ + 1]

NRDelete(c) ==
    /\ Delete(c)
    /\ taken' = [taken EXCEPT ![SumOf[c]] = @ - 1]

NRNext == \E c \in Client : NRCheck(c) \/ NRGivesUp(c) \/ NRInsert(c) \/ NRDelete(c)

NRSpec == NRInit /\ [][NRNext]_nrVars
=============================================================================
