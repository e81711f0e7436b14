------------------------- MODULE ProtocolProperties -------------------------
(***************************************************************************)
(* What holds of the dialogue of a client program with the server.         *)
(***************************************************************************)
EXTENDS Protocol

\* What may be on the way: words of the dialogue, each as long as it was written, and
\* the pieces of words that a read out of step has cut, none of them empty.
Spoken == Digits \cup Names \cup Messages \cup {"ok", "exists", "invalid", "full", "stopped"}
Written == {Chunk(word) : word \in Spoken} \cup [kind : {"garbled"}, size : Nat \ {0}]

CliPlaces == DOMAIN CliNeeds \cup {"menu", "choose", "gone"}
SrvPlaces == DOMAIN SrvNeeds \cup Waiting \cup {"stopping", "strayed", "joining", "confirmed", "chat", "over", "closed"}

\* The values of the variables; safeRead finds no chunk on either wire that is empty
\* or not as long as the word it is taken for, however far out of step it is.
TypeOK ==
    /\ cli \in CliPlaces /\ srv \in SrvPlaces
    /\ listed \in 0..RoomCount /\ toList \in 0..RoomCount
    /\ watcher \in {"none", "reads", "ended"}
    /\ {requeued, stopper, isConnected, stopWaiting, chatTimedout, misread, crossed} \subseteq BOOLEAN
    /\ buffer \in {"clean", "garbage"}
    /\ {up, down} \subseteq Seq(Written)

\* "Ricevi OK dal client" and the like: every read of either program returns what
\* the other has written for it.
InStep == ~misread

\* The dialogue is in step as long as nothing crosses the end of a chat or of a
\* wait: a message of one user while the other, or the server, ends the chat, a STOP
\* while the matcher sends its OK, the greeting of a chat that is over before it
\* begins; and as long as no chat ends before its first message with an ending that
\* the client takes for something said, because gestisciChat sends it from a buffer
\* it has never written to.  Everything else, menus, lists, full rooms, interrupted
\* waits, chats and returns to the queue, leaves both programs at the same place.
InStepUntilCrossed == misread => crossed

\* The two programs never wait for each other: when both read, one of them has its
\* bytes on the way, unless something has crossed.  (After an ending that it did not
\* know as one the client waits for a message and the handler for an answer.)
NeverBothListen ==
    cli \in DOMAIN CliNeeds /\ srv \in DOMAIN SrvNeeds =>
      \/ Readable(down, CliNeeds[cli])
      \/ Readable(up, SrvNeeds[srv])
      \/ crossed

\* In a chat, too, whatever the client has read so far, both agree about where the
\* client goes after it, unless something has crossed, such as an ending of which
\* the server knows (chatTimedout is set) and the client does not.
SameEnding ==
    cli = "over" /\ srv = "after" => requeued = (chatTimedout /\ ~stopWaiting) \/ crossed

\* When one side is gone, the other finds out and ends, wherever the dialogue is
\* and however it got out of step.  (The handler of a client whose chat has not
\* begun finds out when it does; "strayed" is left to Matchmaking.)
EndIsNoticed ==
    /\ cli = "gone" ~> srv \in {"closed", "confirmed", "strayed"}
    /\ srv = "closed" ~> cli = "gone"
=============================================================================
