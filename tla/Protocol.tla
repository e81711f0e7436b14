------------------------------ MODULE Protocol ------------------------------
(***************************************************************************)
(* The dialogue of one client program with the threads of the server that  *)
(* use its socket, one after the other: the handler, the matcher of the    *)
(* room, the watcher and the chat.  Everybody else is the environment: it  *)
(* decides when there is a match, what the other user of the chat does and *)
(* when a time is over.                                                    *)
(***************************************************************************)
EXTENDS Wire

CONSTANTS
    RoomCount,     \* MAX_NUM_ROOMS
    MaxInFlight,   \* a bound: the messages of one user that are on their way
    MaxUnread      \* a bound: what nobody waits for is written to a shorter wire

ASSUME CountsArePositive == {RoomCount, MaxInFlight, MaxUnread} \subseteq Nat \ {0}

VARIABLES
    cli,        \* where the client program is; "gone" when it has ended
    listed,     \* how many rooms it has still to read
    requeued,   \* its variable chatTimedout
    stopper,    \* its thread checkStopWaiting is reading the keyboard
    srv,        \* where the server is with this client; "closed" when it is done
    toList,     \* how many rooms it has still to send
    watcher,    \* checkConnectionClient: "none", "reads", "ended"
    isConnected, stopWaiting, chatTimedout,   \* the fields of Client
    buffer,     \* what gestisciChat writes from: "clean" after a message, else "garbage"
    up, down,   \* the bytes on their way to the server and to the client
    misread,    \* a program has read something else than it expects
    crossed     \* something was sent that its receiver no longer expects, or does not
                \* know again: an ending followed by what was in the buffer

cliVars == <<cli, listed, requeued, stopper>>
srvVars == <<srv, toList, watcher, isConnected, stopWaiting, chatTimedout, buffer>>
vars == <<cliVars, srvVars, up, down, misread, crossed>>

\* The client is connected and has sent its nickname; the handler has started.
Init ==
    /\ cli = "nickname" /\ listed = 0 /\ requeued = FALSE /\ stopper = FALSE
    /\ srv = "nickname" /\ toList = 0 /\ watcher = "none"
    /\ isConnected = TRUE /\ stopWaiting = FALSE /\ chatTimedout = FALSE
    /\ buffer = "garbage"
    /\ up = Chunks(<<"nickname">>) /\ down = <<>>
    /\ misread = FALSE /\ crossed = FALSE

\* TCP would hold much more, but no more is needed to go wrong in every way.
HasRoom(wire) == Len(wire) < MaxUnread

-----------------------------------------------------------------------------
(***************************************************************************)
(* The client program, mainClient.c.                                       *)
(***************************************************************************)

\* A read of count bytes that is expected to return one of kinds.
CliReads(count, kinds) ==
    /\ Readable(down, count)
    /\ down' = Rest(down, count)
    /\ misread' = (misread \/ Got(down, count) \notin kinds)

\* What is written to a connection that the server has closed is thrown away.
CliGoes(to, words) ==
    /\ cli' = to
    /\ up' = IF srv = "closed" THEN <<>> ELSE up \o Chunks(words)

\* At place at, count bytes are read; a word of the dialogue sends the program
\* on to another place with an answer, and anything else ends it.
CliTurn(at, count, moves) ==
    LET got == Got(down, count)
    IN  /\ cli = at
        /\ CliReads(count, DOMAIN moves)
        /\ IF got \in DOMAIN moves THEN CliGoes(moves[got][1], moves[got][2]) ELSE CliGoes("gone", <<>>)

Same == UNCHANGED <<listed, requeued, stopper, srvVars, crossed>>

CliNickname == CliTurn("nickname", 2, [ok |-> <<"menu", <<"ok">>>>, exists |-> <<"gone", <<>>>>]) /\ Same

\* The user chooses an operation, and later a room.
CliMenu ==
    /\ cli = "menu" /\ HasRoom(up)
    /\ CliGoes("list", <<"one">>) \/ CliGoes("quit", <<"two">>)
    /\ UNCHANGED <<listed, requeued, stopper, srvVars, down, misread, crossed>>

CliList == CliTurn("list", 2, [ok |-> <<"count", <<"ok">>>>, invalid |-> <<"menu", <<>>>>]) /\ Same

CliQuit == CliTurn("quit", 2, [ok |-> <<"gone", <<"ok">>>>, invalid |-> <<"menu", <<>>>>]) /\ Same

\* A mistake to test the properties with: one room too many is read.
CliCountOneMore ==
    /\ cli = "count"
    /\ CliReads(1, {"count"})
    /\ listed' = IF Got(down, 1) = "count" THEN RoomCount + 1 ELSE 0
    /\ CliGoes(IF listed' = 0 THEN "listed" ELSE "name", <<"ok">>)
    /\ UNCHANGED <<requeued, stopper, srvVars, crossed>>

\* atoi makes 0 of what is not a number, and then no room is read.
CliCount ==
    /\ cli = "count"
    /\ CliReads(1, {"count"})
    /\ listed' = IF Got(down, 1) = "count" THEN RoomCount ELSE 0
    /\ CliGoes(IF listed' = 0 THEN "listed" ELSE "name", <<"ok">>)
    /\ UNCHANGED <<requeued, stopper, srvVars, crossed>>

\* What is read about a room is not looked at.
CliRoom(at, count, kind, to) ==
    /\ cli = at
    /\ CliReads(count, {kind})
    /\ CliGoes(to, <<"ok">>)

CliName == CliRoom("name", NameSize, "name", "max") /\ Same

CliMax == CliRoom("max", 1, "number", "clients") /\ Same

CliClients ==
    /\ CliRoom("clients", 1, "number", IF listed = 1 THEN "listed" ELSE "name")
    /\ listed' = listed - 1
    /\ UNCHANGED <<requeued, stopper, srvVars, crossed>>

CliListed == CliTurn("listed", 2, [ok |-> <<"choose", <<>>>>]) /\ Same

CliChoose ==
    /\ cli = "choose" /\ HasRoom(up)
    /\ CliGoes("room", <<"room">>)
    /\ UNCHANGED <<listed, requeued, stopper, srvVars, down, misread, crossed>>

CliTakes == CliTurn("room", 2, [ok |-> <<"full", <<"ok">>>>, invalid |-> <<"choose", <<>>>>]) /\ Same

\* The wait begins with an OK and with the thread that reads the keyboard.
CliFull ==
    /\ CliTurn("full", 2, [ok |-> <<"wait", <<"ok">>>>, full |-> <<"menu", <<>>>>])
    /\ stopper' = (stopper \/ cli' = "wait")
    /\ UNCHANGED <<listed, requeued, srvVars, crossed>>

\* checkStopWaiting sends ST and ends.  The matcher may have sent its OK.
TypeSTOP ==
    /\ stopper
    /\ cli # "gone" /\ HasRoom(up)
    /\ stopper' = FALSE
    /\ CliGoes(cli, <<"stopped">>)
    /\ crossed' = (crossed \/ srv \notin {"feedback", "wait"})
    /\ UNCHANGED <<listed, requeued, srvVars, down, misread>>

\* OK cancels the thread that reads the keyboard, ST leaves it alone.
CliWait ==
    /\ CliTurn("wait", 2, [ok |-> <<"matched", <<>>>>, stopped |-> <<"menu", <<>>>>])
    /\ stopper' = (stopper /\ cli' # "matched")
    /\ UNCHANGED <<listed, requeued, srvVars, crossed>>

\* A mistake to test the properties with: the nickname of the other is not read.
CliMatchedHurried == CliTurn("matched", 2, [ok |-> <<"chat", <<"ok">>>>]) /\ Same

CliMatched == CliTurn("matched", 2, [ok |-> <<"greeting", <<"ok">>>>]) /\ Same

CliGreeting ==
    /\ cli = "greeting"
    /\ CliReads(NameSize, {"nickname"})
    /\ CliGoes("chat", <<>>)
    /\ requeued' = FALSE
    /\ UNCHANGED <<listed, stopper, srvVars, crossed>>

\* In a chat the program waits for the keyboard and the socket; while it is in
\* the middle of a message it does not read the keyboard.
Listens == cli = "chat" /\ (down = <<>> \/ Readable(down, MessageSize))

Say ==
    /\ Listens
    /\ Len(ChatMessages(up)) < MaxInFlight /\ HasRoom(up)
    /\ CliGoes("chat", <<"said">>)
    /\ crossed' = (crossed \/ srv # "chat")
    /\ UNCHANGED <<listed, requeued, stopper, srvVars, down, misread>>

\* What the program does with a message: three kinds end the chat.
CliMessage ==
    /\ CliReads(MessageSize, Messages)
    /\ requeued' = (Got(down, MessageSize) = "timec")

Hear ==
    /\ cli = "chat"
    /\ CliMessage
    /\ CliGoes(IF Got(down, MessageSize) \in {"stop", "timec", "idlec"} THEN "over" ELSE "chat", <<>>)
    /\ UNCHANGED <<listed, stopper, srvVars, crossed>>

\* The user types /STOP; a message that is there in the same round is read, too.
TypeStop ==
    /\ Listens
    /\ CliGoes("over", <<"stop">>)
    /\ CliMessage \/ UNCHANGED <<down, misread, requeued>>
    /\ crossed' = (crossed \/ srv # "chat" \/ down' # <<>>)
    /\ UNCHANGED <<listed, stopper, srvVars>>

\* A mistake to test the properties with: a client that is to wait again sends one.
CliOverAnswersOnce ==
    /\ cli = "over"
    /\ CliReads(2, {"ok"})
    /\ IF requeued THEN CliGoes("wait", <<"ok">>) ELSE CliGoes("menu", <<"ok">>)
    /\ stopper' = (stopper \/ requeued)
    /\ UNCHANGED <<listed, requeued, srvVars, crossed>>

\* Two bytes are read, whatever they are, and a client that is to wait again
\* sends two answers.
CliOver ==
    /\ cli = "over"
    /\ CliReads(2, {"ok"})
    /\ IF requeued THEN CliGoes("wait", <<"ok", "ok">>) ELSE CliGoes("menu", <<"ok">>)
    /\ stopper' = (stopper \/ requeued)
    /\ UNCHANGED <<listed, requeued, srvVars, crossed>>

\* A read that returns the end of the connection ends the program, whichever it
\* is; and at the menus it ends when 20 seconds are over.
CliNeeds == [nickname |-> 2, list |-> 2, quit |-> 2, count |-> 1, name |-> NameSize, max |-> 1,
              clients |-> 1, listed |-> 2, room |-> 2, full |-> 2, wait |-> 2,
              matched |-> 2, greeting |-> NameSize, chat |-> MessageSize, over |-> 2]

CliEnds ==
    /\ \/ cli \in DOMAIN CliNeeds /\ srv = "closed" /\ ~Readable(down, CliNeeds[cli])
       \/ cli \in {"menu", "choose"}
    /\ CliGoes("gone", <<>>)
    /\ UNCHANGED <<listed, requeued, stopper, srvVars, down, misread, crossed>>

\* The user closes the program, or it dies.
Vanish ==
    /\ cli # "gone"
    /\ CliGoes("gone", <<>>)
    /\ UNCHANGED <<listed, requeued, stopper, srvVars, down, misread, crossed>>

-----------------------------------------------------------------------------
(***************************************************************************)
(* The handler, mainServer.c.  A write to a client that is gone leaves no  *)
(* trace: that it failed is found out by the next read, too.               *)
(***************************************************************************)
Sends(words) == down' = IF cli = "gone" THEN down ELSE down \o Chunks(words)

HandlerReads(count, kinds) ==
    /\ Readable(up, count)
    /\ up' = Rest(up, count)
    /\ misread' = (misread \/ Got(up, count) \notin kinds)

HandlerGoes(to, words) ==
    /\ srv' = to
    /\ Sends(words)

\* isConnected becomes false, the loops end, the socket is closed.  Closing it
\* with bytes unread resets the connection, and what is on its way may be lost.
HandlerCloses ==
    /\ srv' = "closed"
    /\ down' \in IF up' = <<>> THEN {down} ELSE {down, <<>>}

\* Two bytes that must be OK.
HandlerTurn(at, to, words) ==
    /\ srv = at
    /\ HandlerReads(2, {"ok"})
    /\ IF Got(up, 2) = "ok" THEN HandlerGoes(to, words) ELSE HandlerCloses

\* A digit: what is not valid is asked for again.
HandlerInput(at, next) ==
    LET got == Got(up, 1)
    IN  /\ srv = at
        /\ HandlerReads(1, DOMAIN next)
        /\ IF got \in DOMAIN next THEN HandlerGoes(next[got], <<"ok">>)
                                   ELSE /\ HandlerGoes(at, <<"invalid">>)
                                        /\ cli = "gone" \/ HasRoom(down)

Keep == UNCHANGED <<cliVars, toList, watcher, isConnected, stopWaiting, chatTimedout, buffer, crossed>>

\* The registry accepts the nickname or refuses it.
SrvNickname ==
    /\ srv = "nickname"
    /\ HandlerReads(NameSize, {"nickname"})
    /\ HandlerGoes("welcome", <<"ok">>) \/ HandlerGoes("closed", <<"exists">>)
    /\ Keep

SrvWelcome == HandlerTurn("welcome", "operation", <<>>) /\ Keep

SrvOperation == HandlerInput("operation", [one |-> "view", two |-> "leave"]) /\ Keep

SrvView == HandlerTurn("view", "counted", <<"count">>) /\ Keep

SrvLeave ==
    /\ srv = "leave"
    /\ HandlerReads(2, {"ok"})
    /\ HandlerCloses
    /\ Keep

SrvCounted ==
    /\ HandlerTurn("counted", "named", <<"name">>)
    /\ toList' = RoomCount
    /\ UNCHANGED <<cliVars, watcher, isConnected, stopWaiting, chatTimedout, buffer, crossed>>

SrvNamed == HandlerTurn("named", "sized", <<"number">>) /\ Keep

SrvSized == HandlerTurn("sized", "listed", <<"number">>) /\ Keep

SrvListed ==
    /\ IF toList = 1 THEN HandlerTurn("listed", "choice", <<"ok">>)
                     ELSE HandlerTurn("listed", "named", <<"name">>)
    /\ toList' = toList - 1
    /\ UNCHANGED <<cliVars, watcher, isConnected, stopWaiting, chatTimedout, buffer, crossed>>

SrvChoice == HandlerInput("choice", [room |-> "chosen"]) /\ Keep

\* The room has space or is full.
SrvChosen ==
    /\ HandlerTurn("chosen", "feedback", <<"ok">>) \/ HandlerTurn("chosen", "operation", <<"full">>)
    /\ Keep

\* The client is queued, and the watcher starts to read from its socket.
SrvFeedback ==
    /\ HandlerTurn("feedback", "wait", <<>>)
    /\ watcher' = IF srv' = "wait" THEN "reads" ELSE watcher
    /\ chatTimedout' = (chatTimedout /\ srv' # "wait")
    /\ UNCHANGED <<cliVars, toList, isConnected, stopWaiting, buffer, crossed>>

SrvNeeds == [nickname |-> NameSize, welcome |-> 2, operation |-> 1, view |-> 2, leave |-> 2,
             counted |-> 2, named |-> 2, sized |-> 2, listed |-> 2, choice |-> 1,
             chosen |-> 2, feedback |-> 2, after |-> 2]

\* The handler's own reads end after 20 seconds, and with the connection.
HandlerFails ==
    /\ srv \in DOMAIN SrvNeeds
    /\ ~Readable(up, SrvNeeds[srv])
    /\ UNCHANGED <<up, misread>>
    /\ HandlerCloses
    /\ Keep

-----------------------------------------------------------------------------
(***************************************************************************)
(* The wait for a chat.                                                    *)
(***************************************************************************)
Waiting == {"wait", "paired", "announced"}

\* A mistake to test the properties with: the end of the connection is passed over.
WatcherReadsOn ==
    /\ watcher = "reads"
    /\ watcher' = "ended"
    /\ \/ /\ HandlerReads(2, {"ok", "stopped"})
          /\ isConnected' = (isConnected /\ Got(up, 2) \in {"ok", "stopped"})
          /\ stopWaiting' = (stopWaiting \/ Got(up, 2) = "stopped")
       \/ /\ cli = "gone" /\ ~Readable(up, 2)
          /\ UNCHANGED <<up, misread, isConnected, stopWaiting>>
    /\ UNCHANGED <<cliVars, srv, toList, chatTimedout, buffer, down, crossed>>

\* OK, ST, or a client that is gone; the buffer of a failed read may hold an ST.
WatcherReads ==
    /\ watcher = "reads"
    /\ watcher' = "ended"
    /\ \/ /\ HandlerReads(2, {"ok", "stopped"})
          /\ isConnected' = (isConnected /\ Got(up, 2) \in {"ok", "stopped"})
          /\ stopWaiting' = (stopWaiting \/ Got(up, 2) = "stopped")
       \/ /\ cli = "gone" /\ ~Readable(up, 2)
          /\ isConnected' = FALSE
          /\ stopWaiting' \in {stopWaiting, TRUE}
          /\ UNCHANGED <<up, misread>>
    /\ UNCHANGED <<cliVars, srv, toList, chatTimedout, buffer, down, crossed>>

\* The matcher takes the client from the queue and sends it an OK.
Match ==
    /\ srv \in {"wait", "stopping"}
    /\ srv' = IF srv = "wait" THEN "paired" ELSE "strayed"
    /\ Sends(<<"ok">>)
    /\ crossed' = (crossed \/ stopWaiting \/ Chunk("stopped") \in ToSet(up))
    /\ UNCHANGED <<cliVars, toList, watcher, isConnected, stopWaiting, chatTimedout, buffer, up, misread>>

\* gestisciChat sets isMatched.
Announce ==
    /\ srv = "paired"
    /\ srv' = "announced"
    /\ UNCHANGED <<cliVars, toList, watcher, isConnected, stopWaiting, chatTimedout, buffer, up,
                   down, misread, crossed>>

HandlerDropped ==
    /\ srv \in Waiting
    /\ ~isConnected
    /\ UNCHANGED <<up, misread>>
    /\ HandlerCloses
    /\ Keep

HandlerStopped ==
    /\ srv \in Waiting
    /\ isConnected /\ stopWaiting
    /\ HandlerGoes(IF srv = "wait" THEN "stopping" ELSE "strayed", <<"stopped">>)
    /\ UNCHANGED <<up, misread>>
    /\ Keep

\* The client is taken out of the queue, the watcher has ended.  A client that a
\* chat has by now goes to the menu as well, but two threads would read from its
\* socket: "strayed" is where this module leaves it to Matchmaking.
HandlerLeaves ==
    /\ srv = "stopping"
    /\ watcher = "ended"
    /\ srv' = "operation"
    /\ stopWaiting' = FALSE
    /\ UNCHANGED <<cliVars, toList, watcher, isConnected, chatTimedout, buffer, up, down, misread, crossed>>

HandlerMatched ==
    /\ srv = "announced"
    /\ isConnected /\ ~stopWaiting
    /\ HandlerGoes("joining", <<"ok">>)
    /\ UNCHANGED <<up, misread>>
    /\ Keep

\* The watcher has read an answer; the handler waits for the end of the chat.
HandlerJoins ==
    /\ srv = "joining"
    /\ watcher = "ended"
    /\ UNCHANGED <<up, misread>>
    /\ IF isConnected THEN HandlerGoes("confirmed", <<>>) ELSE HandlerCloses
    /\ Keep

-----------------------------------------------------------------------------
(***************************************************************************)
(* The chat.                                                               *)
(***************************************************************************)

\* The chat starts when both handlers have confirmed, with a buffer that nobody has
\* written to.  If the other client was lost by then, it is over and nobody is told.
Greet ==
    /\ srv = "confirmed"
    /\ Sends(<<"nickname">>)
    /\ srv' \in {"chat", "over"}
    /\ crossed' = (crossed \/ srv' = "over")
    /\ buffer' = "garbage"
    /\ UNCHANGED <<cliVars, toList, watcher, isConnected, stopWaiting, chatTimedout, up, misread>>

\* gestisciChat is in the middle of a message of this client.
Halfway == up # <<>> /\ ~Readable(up, MessageSize) /\ cli # "gone"

\* Where a client is that expects messages.
Chatting == {"greeting", "chat"}

PeerSays ==
    /\ srv = "chat" /\ ~Halfway
    /\ Len(ChatMessages(down)) < MaxInFlight /\ HasRoom(down)
    /\ Sends(<<"said">>)
    /\ crossed' = (crossed \/ cli \notin Chatting)
    /\ buffer' = "clean"
    /\ UNCHANGED <<cliVars, srv, toList, watcher, isConnected, stopWaiting, chatTimedout, up, misread>>

\* The five characters of an ending are copied to the buffer and all of it is sent.
\* Before the first message it may hold anything behind them, and then the client
\* takes the ending for something said.
ToldAs(kind) == {kind} \cup {k \in {"said"} : buffer = "garbage"}

\* A mistake to test the properties with: a chat that is over in time is like any.
ChatEndsAlike(kind) ==
    /\ srv = "chat" /\ ~Halfway
    /\ kind \in {"timec", "idlec"} => up = <<>> /\ cli # "gone"
    /\ srv' = "over"
    /\ \E told \in ToldAs(kind) :
         /\ Sends(<<told>>)
         /\ crossed' = (crossed \/ up # <<>> \/ cli \notin Chatting \/ told # kind)
    /\ UNCHANGED <<cliVars, toList, watcher, isConnected, stopWaiting, chatTimedout, buffer, up, misread>>

\* The other user stops or is gone, select fails, nobody speaks, or the timer fires.
ChatEnds(kind) ==
    /\ srv = "chat" /\ ~Halfway
    /\ kind \in {"timec", "idlec"} => up = <<>> /\ cli # "gone"
    /\ srv' = "over"
    /\ chatTimedout' = (kind = "timec")
    /\ \E told \in ToldAs(kind) :
         /\ Sends(<<told>>)
         /\ crossed' = (crossed \/ up # <<>> \/ cli \notin Chatting \/ told # kind)
    /\ UNCHANGED <<cliVars, toList, watcher, isConnected, stopWaiting, buffer, up, misread>>

\* A message of this client.  After a stop a message of the other that is there
\* in the same round is still passed on.
ChatReads ==
    /\ srv = "chat"
    /\ HandlerReads(MessageSize, {"said", "stop"})
    /\ IF Got(up, MessageSize) = "stop"
       THEN \E last \in {<<>>, <<"said">>, <<"stop">>} :
              /\ HandlerGoes("over", last)
              /\ crossed' = (crossed \/ last # <<>>)
       ELSE HandlerGoes("chat", <<>>) /\ UNCHANGED crossed
    /\ buffer' = "clean"
    /\ UNCHANGED <<cliVars, toList, watcher, isConnected, stopWaiting, chatTimedout>>

ChatLoses ==
    /\ srv = "chat"
    /\ cli = "gone" /\ ~Readable(up, MessageSize)
    /\ isConnected' = FALSE
    /\ srv' = "over"
    /\ UNCHANGED <<cliVars, toList, watcher, stopWaiting, chatTimedout, buffer, up, down, misread, crossed>>

\* The handler is woken up.
HandlerWakes ==
    /\ srv = "over"
    /\ UNCHANGED <<up, misread>>
    /\ IF isConnected THEN HandlerGoes("after", <<"ok">>) ELSE HandlerCloses
    /\ Keep

\* After the answer the client waits again or is at the menu.
SrvAfter ==
    /\ HandlerTurn("after", IF chatTimedout /\ ~stopWaiting THEN "feedback" ELSE "operation", <<>>)
    /\ Keep

-----------------------------------------------------------------------------
CliStep ==
    \/ CliNickname \/ CliList \/ CliQuit \/ CliCount \/ CliName \/ CliMax \/ CliClients
    \/ CliListed \/ CliTakes \/ CliFull \/ CliWait \/ CliMatched \/ CliGreeting \/ Hear
    \/ CliOver \/ CliEnds

UserStep == CliMenu \/ CliChoose \/ TypeSTOP \/ Say \/ TypeStop \/ Vanish

SrvStep ==
    \/ SrvNickname \/ SrvWelcome \/ SrvOperation \/ SrvView \/ SrvLeave \/ SrvCounted
    \/ SrvNamed \/ SrvSized \/ SrvListed \/ SrvChoice \/ SrvChosen \/ SrvFeedback
    \/ HandlerFails \/ WatcherReads \/ HandlerDropped \/ HandlerStopped \/ HandlerLeaves
    \/ HandlerMatched \/ HandlerJoins \/ ChatReads \/ ChatLoses \/ HandlerWakes \/ SrvAfter

OthersStep ==
    Match \/ Announce \/ Greet \/ PeerSays \/ \E kind \in {"stop", "timec", "idlec"} : ChatEnds(kind)

Next == CliStep \/ UserStep \/ SrvStep \/ OthersStep

Spec == Init /\ [][Next]_vars

\* Both programs run, and their 20 seconds pass.  What the users do, who is matched
\* and when, and what becomes of a chat is left open.
FairSpec == Spec /\ WF_vars(CliStep) /\ WF_vars(SrvStep)
=============================================================================
