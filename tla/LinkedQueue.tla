----------------------------- MODULE LinkedQueue -----------------------------
(***************************************************************************)
(* The queue of a room as server.c builds it: nodes on the heap, linked by *)
(* next, with a head, a tail and a count.  The two searches are recursive  *)
(* functions that go down the list; here each call is a step, with cur the *)
(* node it looks at and prev the one before it.  All of it runs under the  *)
(* room's mutex, so one operation is in progress at a time.                *)
(***************************************************************************)
EXTENDS Integers, Sequences, FiniteSets

CONSTANTS
    Client,      \* the clients that may be queued
    NicknameOf,  \* Client.nickname
    Node,        \* bound: the nodes the heap can hold
    Null,        \* NULL
    Freed        \* what the fields of a node hold that is not allocated

ASSUME HeapAssumption ==
    /\ IsFiniteSet(Node)
    /\ Null \notin Node
    /\ Freed \notin Node \cup Client \cup {Null}

VARIABLES
    head, tail, count,  \* the fields of Queue
    next, client,       \* the fields of nodoQueue, for every node of the heap
    doing,              \* the operation in progress: "none", "delete", "find"
    cur, prev,          \* the arguments of the current call
    nickname,           \* the nickname to delete
    refused,            \* the pairs the search in progress refuses
    answer              \* what a search has just returned

listVars == <<head, tail, count, next, client>>
callVars == <<doing, cur, prev, nickname>>
lqVars   == <<listVars, callVars, refused, answer>>

Pairs      == {{c, d} : c, d \in Client}
NodeOrNull == Node \cup {Null}
Allocated  == {n \in Node : next[n] # Freed}

\* main sets the count only; the memory malloc returns for a Queue at that
\* point of the program is fresh and holds zeros.
LQInit ==
    /\ head = Null /\ tail = Null /\ count = 0
    /\ next = [n \in Node |-> Freed]
    /\ client = [n \in Node |-> Freed]
    /\ doing = "none" /\ cur = Null /\ prev = Null /\ nickname = Null
    /\ refused = {}
    /\ answer = <<>>

-----------------------------------------------------------------------------
Enqueue(c, n) ==
    /\ doing = "none"
    /\ n \in Node \ Allocated
    /\ client' = [client EXCEPT ![n] = c]
    /\ next' = [m \in Node |-> IF m = n THEN Null
                               ELSE IF m = tail THEN n ELSE next[m]]
    /\ head' = IF tail = Null THEN n ELSE head
    /\ tail' = n
    /\ count' = count + 1
    /\ answer' = <<>>
    /\ UNCHANGED <<callVars, refused>>

\* A mistake to test the properties with: the node before is not kept.
DescendAlone ==
    /\ cur' = next[cur]
    /\ UNCHANGED <<listVars, doing, prev, nickname, refused, answer>>

\* The search goes one node down.
Descend ==
    /\ prev' = cur
    /\ cur' = next[cur]
    /\ UNCHANGED <<listVars, doing, nickname, refused, answer>>

Return ==
    /\ doing' = "none" /\ cur' = Null /\ prev' = Null /\ nickname' = Null
    /\ refused' = {}

\* free, of the nodes gone, in the links that are left.
Free(links, gone) ==
    /\ next'   = [n \in Node |-> IF n \in gone THEN Freed ELSE links[n]]
    /\ client' = [n \in Node |-> IF n \in gone THEN Freed ELSE client[n]]

-----------------------------------------------------------------------------
(***************************************************************************)
(* deleteNodeQueue, and the caller's assignment of its result to head.     *)
(***************************************************************************)
DeleteStart(name) ==
    /\ doing = "none"
    /\ doing' = "delete" /\ nickname' = name
    /\ cur' = head /\ prev' = Null
    /\ UNCHANGED <<listVars, refused, answer>>

DeleteSkip ==
    /\ doing = "delete" /\ cur # Null
    /\ NicknameOf[client[cur]] # nickname
    /\ Descend

\* A mistake to test the properties with: tail stays at the node that is freed.
DeleteKeepsTail ==
    /\ doing = "delete" /\ cur # Null
    /\ NicknameOf[client[cur]] = nickname
    /\ Free(IF prev = Null THEN next ELSE [next EXCEPT ![prev] = next[cur]], {cur})
    /\ head' = IF prev = Null THEN next[cur] ELSE head
    /\ tail' = IF count = 1 THEN Null ELSE tail
    /\ count' = count - 1
    /\ answer' = <<>>
    /\ Return

\* The node is freed; the link to it, in the node before it or in the queue,
\* gets its successor when the recursion returns.
DeleteHit ==
    /\ doing = "delete" /\ cur # Null
    /\ NicknameOf[client[cur]] = nickname
    /\ Free(IF prev = Null THEN next ELSE [next EXCEPT ![prev] = next[cur]], {cur})
    /\ head' = IF prev = Null THEN next[cur] ELSE head
    /\ tail' = IF count = 1 THEN Null ELSE IF cur = tail THEN prev ELSE tail
    /\ count' = count - 1
    /\ answer' = <<>>
    /\ Return

\* A mistake to test the properties with: a node that is not there is counted
\* as gone.
DeleteMissCounts ==
    /\ doing = "delete" /\ cur = Null
    /\ count' = count - 1
    /\ answer' = <<>>
    /\ Return
    /\ UNCHANGED <<head, tail, next, client>>

DeleteMiss ==
    /\ doing = "delete" /\ cur = Null
    /\ answer' = <<>>
    /\ Return
    /\ UNCHANGED listVars

-----------------------------------------------------------------------------
(***************************************************************************)
(* findPairClientsFromQueue, called with the second node and the first.    *)
(* Which pairs it refuses depends on the clients' last assignments, which  *)
(* do not change while the room's mutex is held.                           *)
(***************************************************************************)
FindStart ==
    /\ doing = "none"
    /\ count >= 2
    /\ doing' = "find"
    /\ cur' = next[head] /\ prev' = head
    /\ refused' \in SUBSET Pairs
    /\ answer' = <<>>
    /\ UNCHANGED <<listVars, nickname>>

FindSkip ==
    /\ doing = "find" /\ cur # Null
    /\ {client[cur], client[head]} \in refused
    /\ Descend

\* A mistake to test the properties with: a pair is taken that is refused.
FindAny ==
    LET links == [next EXCEPT ![prev] = next[cur]]
    IN  /\ doing = "find" /\ cur # Null
        /\ answer' = <<client[cur], client[head]>>
        /\ head' = IF count = 2 THEN Null ELSE links[head]
        /\ tail' = IF count = 2 THEN Null ELSE IF next[cur] = Null THEN prev ELSE tail
        /\ count' = count - 2
        /\ Free(links, {cur, head})
        /\ Return

\* cur is unlinked from the node before it and freed, then the head is.
FindHit ==
    LET links == [next EXCEPT ![prev] = next[cur]]
    IN  /\ doing = "find" /\ cur # Null
        /\ {client[cur], client[head]} \notin refused
        /\ answer' = <<client[cur], client[head]>>
        /\ head' = IF count = 2 THEN Null ELSE links[head]
        /\ tail' = IF count = 2 THEN Null ELSE IF next[cur] = Null THEN prev ELSE tail
        /\ count' = count - 2
        /\ Free(links, {cur, head})
        /\ Return

FindMiss ==
    /\ doing = "find" /\ cur = Null
    /\ answer' = <<>>
    /\ Return
    /\ UNCHANGED listVars

-----------------------------------------------------------------------------
LQNext ==
    \/ \E c \in Client :
          \/ \E n \in Node : Enqueue(c, n)
          \/ DeleteStart(NicknameOf[c])
    \/ DeleteSkip \/ DeleteHit \/ DeleteMiss
    \/ FindStart \/ FindSkip \/ FindHit \/ FindMiss

LQSpec == LQInit /\ [][LQNext]_lqVars
=============================================================================
