------------------------------ MODULE RoomQueue ------------------------------
(***************************************************************************)
(* What the queue of a room promises to the threads that use it under the  *)
(* room's mutex: a sequence of clients, in order of arrival, from which a  *)
(* client is removed by nickname and a pair is taken by the matcher.       *)
(***************************************************************************)
EXTENDS QueueOps

CONSTANTS Client, NicknameOf

VARIABLES
    queue,    \* the clients, head first
    refused,  \* the sets {c, d} of clients that may not be paired now
    answer    \* what a search has just returned: <<Client1, Client2>>, <<>> for
              \* NULL and after any other operation

rqVars == <<queue, refused, answer>>

Pairs == {{c, d} : c, d \in Client}

RQInit ==
    /\ queue = <<>>
    /\ refused = {}
    /\ answer = <<>>

Arrive(c) ==
    /\ queue' = Append(queue, c)
    /\ answer' = <<>>
    /\ UNCHANGED refused

Discard(nickname) ==
    /\ queue' = DeleteNickname(queue, nickname, NicknameOf)
    /\ answer' = <<>>
    /\ UNCHANGED refused

Partner == FirstIndex(Tail(queue), LAMBDA c : {c, Head(queue)} \notin refused)

\* The head leaves with the first client behind it that it may be paired with.
\* The assignment changes who may be paired with whom from then on.
TakePair ==
    /\ Len(queue) >= 2
    /\ \E i \in Partner :
          /\ answer' = <<Tail(queue)[i], Head(queue)>>
          /\ queue' = RemoveAt(Tail(queue), i)
    /\ refused' \in SUBSET Pairs

TakeNobody ==
    /\ Len(queue) >= 2
    /\ Partner = {}
    /\ answer' = <<>>
    /\ refused' \in SUBSET Pairs
    /\ UNCHANGED queue

\* So do the assignments that are made elsewhere.
Reassign ==
    /\ refused' \in SUBSET Pairs
    /\ answer' = <<>>
    /\ UNCHANGED queue

RQNext ==
    \/ \E c \in Client : Arrive(c) \/ Discard(NicknameOf[c])
    \/ TakePair
    \/ TakeNobody
    \/ Reassign

RQSpec == RQInit /\ [][RQNext]_rqVars
=============================================================================
