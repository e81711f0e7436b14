-------------------------------- MODULE Wire --------------------------------
(***************************************************************************)
(* One direction of a TCP connection between the programs: bytes in order, *)
(* kept as the chunks in which they were written.  Both programs read with *)
(* safeRead, a number of bytes that is fixed by the place in the dialogue, *)
(* so a read that is out of step cuts chunks up and joins them.            *)
(***************************************************************************)
EXTENDS Integers, Sequences, SequencesExt

CONSTANTS
    NameSize,      \* 16, the bytes of a nickname and of the name of a room
    MessageSize    \* 1024, the bytes of a message of a chat

\* Both are even, like the words of the dialogue.
ASSUME SizesDiffer ==
    /\ NameSize \in Nat /\ MessageSize \in Nat
    /\ 2 < NameSize /\ NameSize < MessageSize
    /\ NameSize % 2 = 0 /\ MessageSize % 2 = 0

Digits == {"one", "two", "room", "count", "number"}
Names == {"nickname", "name"}
Messages == {"said", "stop", "timec", "idlec"}

Size(kind) == CASE kind \in Digits   -> 1
                [] kind \in Names    -> NameSize
                [] kind \in Messages -> MessageSize
                [] OTHER             -> 2

Chunk(kind) == [kind |-> kind, size |-> Size(kind)]

Chunks(kinds) == [i \in DOMAIN kinds |-> Chunk(kinds[i])]

\* How many bytes the first n chunks have, for every n.
Before(wire) ==
    LET sum[n \in 0..Len(wire)] == IF n = 0 THEN 0 ELSE sum[n - 1] + wire[n].size
    IN  sum

Bytes(wire) == Before(wire)[Len(wire)]

\* safeRead returns count bytes; with fewer on the wire it goes on waiting.
Readable(wire, count) == Bytes(wire) >= count

\* What a program makes of them: a chunk that was written as such, or something
\* that is equal to no word of the dialogue.
Got(wire, count) == IF Head(wire).size = count THEN Head(wire).kind ELSE "garbled"

\* What they leave: the chunks behind the ones that are read whole, the first of
\* them cut if it was begun.
Rest(wire, count) ==
    LET whole == CHOOSE n \in 0..Len(wire) :
                   /\ Before(wire)[n] <= count
                   /\ n = Len(wire) \/ Before(wire)[n + 1] > count
        begun == count - Before(wire)[whole]
        cut   == [kind |-> "garbled", size |-> wire[whole + 1].size - begun]
    IN  IF begun = 0 THEN SubSeq(wire, whole + 1, Len(wire))
                     ELSE <<cut>> \o SubSeq(wire, whole + 2, Len(wire))

\* The messages of a chat that are on the wire.
ChatMessages(wire) == SelectSeq(wire, LAMBDA chunk : chunk.kind \in Messages)
=============================================================================
