--------------------------- MODULE RegistryClient ---------------------------
(***************************************************************************)
(* What a client handler does around the registry of nicknames: the part   *)
(* of gestisciClient that does not depend on how the registry keeps them.  *)
(* The registry identifies a nickname by the sum of its characters, SumOf. *)
(***************************************************************************)
EXTENDS Integers, FiniteSets

CONSTANTS Client, SumOf

ASSUME SumsAreIntegers == SumOf \in [Client -> Int]

VARIABLES
    pc,                   \* where each handler is
    numeroClientsServer   \* the field of AVLNicknames

clientVars == <<pc, numeroClientsServer>>

\* "out" before the check and after the end, "accepted" between the check and
\* the insertion, "refused" when "EX" is about to be sent, "inside" from the
\* insertion to the deletion.
HandlerPC == {"out", "accepted", "refused", "inside"}

Sum == {SumOf[c] : c \in Client}

Inside == {c \in Client : pc[c] = "inside"}

\* The clients inside whose nicknames have sum s.
Holders(s) == {c \in Inside : SumOf[c] = s}

Moves(c, to) == pc' = [pc EXCEPT ![c] = to]

ClientInit ==
    /\ pc = [c \in Client |-> "out"]
    /\ numeroClientsServer = 0

-----------------------------------------------------------------------------
\* The nickname is read and looked up, in a critical section of its own.
Check(c, nicknameExists) ==
    /\ pc[c] = "out"
    /\ Moves(c, IF nicknameExists THEN "refused" ELSE "accepted")
    /\ UNCHANGED numeroClientsServer

\* "EX" is sent and the thread ends; so it does when "OK" cannot be sent, or is
\* not answered with "OK" within 20 seconds.  The client may come back.
GivesUp(c) ==
    /\ pc[c] \in {"refused", "accepted"}
    /\ Moves(c, "out")
    /\ UNCHANGED numeroClientsServer

\* The second critical section: alberoAVL_insertNickname does not look whether
\* the number is there.
Insert(c) ==
    /\ pc[c] = "accepted"
    /\ Moves(c, "inside")
    /\ numeroClientsServer' = numeroClientsServer + 1

\* The third, on the way out, whatever the client did inside.
Delete(c) ==
    /\ pc[c] = "inside"
    /\ Moves(c, "out")
    /\ numeroClientsServer' = numeroClientsServer - 1

-----------------------------------------------------------------------------
\* A nickname is refused only if a client that is inside has one with its sum,
\* and accepted only if none has: searches, insertions, deletions and the
\* rotations they cause keep every number where the next search finds it, even
\* one that was inserted twice and deleted once.
CheckIsExact ==
    [][\A c \in Client : pc[c] = "out" =>
         /\ pc'[c] = "accepted" => Holders(SumOf[c]) = {}
         /\ pc'[c] = "refused"  => Holders(SumOf[c]) # {}]_clientVars
=============================================================================
