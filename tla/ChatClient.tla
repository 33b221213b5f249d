------------------------------ MODULE ChatClient ------------------------------
(***************************************************************************)
(* The chat client (client/client2.c), three threads without a lock:       *)
(* main with its menu composes requests in sendbuf and shows them to the   *)
(* others through msgse_flag; thr_fn polls the server once a second with   *)
(* sendbuf, or with a default message while the flag is 0, and leaves each *)
(* answer in readbuf; thr_f2, started by a login, looks for messages of    *)
(* other users in readbuf.  main and thr_f2 both parse into chatclient,    *)
(* and main composes from it.  Every handler goes in the steps in which it *)
(* touches what is shared: sendbuf is erased before it is printed to, and  *)
(* chatclient is read again after it was tested.                           *)
(*                                                                         *)
(* A message is its command, the two users and nothing else; the server    *)
(* is what ChatServer lets its clients see, may never answer, and may end. *)
(* Sleeping takes any time.  Filling the fields of chatclient, one parse   *)
(* and one print are each one step at one moment.                          *)
(***************************************************************************)
EXTENDS Naturals, FiniteSets

CONSTANTS
  Me, Other, Admin, NoName,   \* users; NoName is an empty string
  MaxCommands,                \* bound: entries of the menu that are chosen
  MaxIncoming                 \* bound: answers to what was not asked for

ASSUME ChatClientAssumption ==
  /\ Cardinality({Me, Other, Admin, NoName}) = 4
  /\ MaxCommands \in Nat /\ MaxIncoming \in Nat

Message(c, from, to) == [cmd |-> c, from |-> from, to |-> to]
Nothing  == Message("nothing", NoName, NoName)    \* a buffer that is all zero
Torn     == Message("torn", NoName, NoName)       \* a string of which a part has been written
Default  == Message("default", NoName, NoName)    \* "$@00$$$@$"
Text     == Message("text", NoName, NoName)       \* processsend's text for the terminal
Blank    == Message("EMPTY", NoName, NoName)      \* Initchat
Logins   == {Message("LOGIN", Me, Admin), Message("REGISTER", Me, Admin)}
Look     == Message("LOOK", Me, Admin)
Sends    == {Message("SEND", Me, to) : to \in {Other, NoName, Admin}}
Ok       == Message("ANSEWER", Admin, Me)
Listing  == Message("LOOK", Admin, Me)
Strays   == {Message("SEND", Other, Me), Message("SEND", Other, Admin), Message("SEND", Me, Admin), Ok, Listing}

VARIABLES
  menu, goal, msg_command,             \* main: program counter, request, selectCmmand's argument
  msgse_flag, sendbuf, readbuf,
  chatclient, chat_valid,              \* the message parsed last, and its field chat_valid
  username_arrar,                      \* the messages the table of names was copied from
  poll, request, answer, conn,         \* thr_fn; the connection
  f2,                                  \* thr_f2: program counter
  commands, incoming,                  \* how many so far
  received                             \* history: what thr_fn has read

chat     == <<chatclient, chat_valid>>
locals   == <<goal, msg_command, username_arrar, commands>>
network  == <<request, answer, conn, incoming, received>>
vars     == <<menu, locals, msgse_flag, sendbuf, readbuf, chat, poll, network, f2>>

Init ==
  /\ menu = "start" /\ goal = Nothing /\ msg_command = "EMPTY" /\ msgse_flag = 0
  /\ sendbuf = Text /\ readbuf = Nothing /\ username_arrar = {}
  /\ chatclient = Blank /\ chat_valid = 0
  /\ poll = "test" /\ request = Nothing /\ answer = Nothing /\ conn = "open"
  /\ f2 = "off"
  /\ commands = 0 /\ incoming = 0 /\ received = {}

(* processData(readbuf, &chatclient) after its Initchat: a text that is no *)
(* message changes nothing, the default message only chat_valid.           *)
AnyText(buffer) == TRUE                            \* faulty: takes any text for a message
IsMessage(buffer) == buffer \notin {Nothing, Torn, Default, Text}
Initchat == chatclient' = Blank /\ chat_valid' = 0
Parses ==
  /\ chatclient' = IF IsMessage(readbuf) THEN readbuf ELSE chatclient
  /\ chat_valid' = IF IsMessage(readbuf) THEN 1 ELSE IF readbuf = Default THEN 0 ELSE chat_valid

(* What writeDataBuffer makes of chatclient: no message with chat_valid 0. *)
Composed == IF chat_valid = 1 THEN chatclient ELSE Default

-----------------------------------------------------------------------------
(* main. *)

MenuGoes(from, to) == menu = from /\ menu' = to

(* "Are you new?": REGISTER or LOGIN; anything else ends the client.       *)
Starts ==
  /\ \/ MenuGoes("start", "fill") /\ goal' \in Logins
     \/ MenuGoes("start", "ended") /\ UNCHANGED goal
  /\ UNCHANGED <<msg_command, username_arrar, commands, msgse_flag, sendbuf, readbuf, chat, poll, network, f2>>

(* FindUser, sendmessage (to an entry of the table, empty if there is      *)
(* none) and sendAllUser.                                                  *)
Chooses ==
  /\ MenuGoes("prompt", "fill") /\ commands < MaxCommands /\ commands' = commands + 1
  /\ \/ goal' = Look
     \/ goal' \in {m \in Sends : m.to = Other => username_arrar # {}}
  /\ UNCHANGED <<msg_command, username_arrar, msgse_flag, sendbuf, readbuf, chat, poll, network, f2>>

(* The fields of chatclient, then writeDataBuffer(&chatclient, sendbuf).   *)
FillsShown ==                                      \* faulty: raises the flag first
  /\ MenuGoes("fill", "memset")
  /\ chatclient' = goal /\ chat_valid' = 1 /\ msgse_flag' = 1
  /\ UNCHANGED <<locals, sendbuf, readbuf, poll, network, f2>>
FillsChat ==
  /\ MenuGoes("fill", "memset")
  /\ chatclient' = goal /\ chat_valid' = 1
  /\ UNCHANGED <<locals, msgse_flag, sendbuf, readbuf, poll, network, f2>>

(* memset, and a print that is under way: an empty string or a part.       *)
Erased == sendbuf' \in {Nothing, Torn}

ErasesSendbuf ==
  /\ MenuGoes("memset", "compose") /\ Erased
  /\ UNCHANGED <<locals, msgse_flag, readbuf, chat, poll, network, f2>>

Composes ==
  /\ MenuGoes("compose", "show") /\ sendbuf' = Composed
  /\ UNCHANGED <<locals, msgse_flag, readbuf, chat, poll, network, f2>>

ShowsRequest ==
  /\ MenuGoes("show", IF goal \in Sends THEN "window" ELSE "wait")
  /\ msgse_flag' = 1
  /\ UNCHANGED <<locals, sendbuf, readbuf, chat, poll, network, f2>>

(* A message to others is offered for one second only.                     *)
WindowCloses ==
  /\ MenuGoes("window", "prompt") /\ msgse_flag' = 0
  /\ UNCHANGED <<locals, sendbuf, readbuf, chat, poll, network, f2>>

(* islogin and FindUser look at readbuf once a second: processData.        *)
KeepsChat ==                                       \* faulty: forgets Initchat
  /\ MenuGoes("wait", "parse")
  /\ UNCHANGED <<locals, msgse_flag, sendbuf, readbuf, chat, poll, network, f2>>
ForgetsChat ==
  /\ MenuGoes("wait", "parse") /\ Initchat
  /\ UNCHANGED <<locals, msgse_flag, sendbuf, readbuf, poll, network, f2>>

ParsesAnswer ==
  /\ MenuGoes("parse", "test") /\ Parses
  /\ UNCHANGED <<locals, msgse_flag, sendbuf, readbuf, poll, network, f2>>

AnyCommand(c) == TRUE                              \* faulty: takes any message for the answer
IsAnswer(c) == c.cmd = IF goal = Look THEN "LOOK" ELSE "ANSEWER"

(* islogin gives any message to selectCmmand, FindUser only a listing.     *)
TestsChat ==
  /\ MenuGoes("test", IF chat_valid = 1 /\ (goal = Look => IsAnswer(chatclient))
                      THEN "select" ELSE "wait")
  /\ UNCHANGED <<locals, msgse_flag, sendbuf, readbuf, chat, poll, network, f2>>

(* Its argument chat_command is read again, when thr_f2 may have parsed    *)
(* another message.                                                        *)
Selects ==
  /\ MenuGoes("select", IF chatclient.cmd \in {"SEND", "LOOK", "ANSEWER"} THEN "erase" ELSE "selected")
  /\ msg_command' = chatclient.cmd
  /\ UNCHANGED <<goal, username_arrar, commands, msgse_flag, sendbuf, readbuf, chat, poll, network, f2>>

(* processsend, processLOOK, processAnswer: sendbuf is erased, whatever    *)
(* the flag is, then printed to from chatclient as it now is.              *)
ErasesForHandler ==
  /\ MenuGoes("erase", "print") /\ Erased
  /\ UNCHANGED <<locals, msgse_flag, readbuf, chat, poll, network, f2>>

ResponseTo(c) == Message("RESPONSE", c.to, c.from)

Prints ==
  /\ MenuGoes("print", IF msg_command = "LOOK" THEN "names" ELSE "selected")
  /\ sendbuf' = IF msg_command = "SEND" THEN Text ELSE ResponseTo(chatclient)
  /\ UNCHANGED <<locals, msgse_flag, readbuf, chat, poll, network, f2>>

(* processLOOK empties the table of names - in islogin through a null      *)
(* pointer - and fills it with the text of chatclient, one character at a  *)
(* time while thr_f2 may parse another message.                            *)
EmptiesNames ==
  /\ \/ MenuGoes("names", "copy") /\ goal = Look /\ username_arrar' = {}
     \/ MenuGoes("names", "ended") /\ goal # Look /\ UNCHANGED username_arrar
  /\ UNCHANGED <<goal, msg_command, commands, msgse_flag, sendbuf, readbuf, chat, poll, network, f2>>

CopiesNames ==
  /\ MenuGoes("copy", "copy") \/ MenuGoes("copy", "selected")
  /\ username_arrar' = username_arrar \cup ({chatclient} \ {Blank})
  /\ UNCHANGED <<goal, msg_command, commands, msgse_flag, sendbuf, readbuf, chat, poll, network, f2>>

(* islogin tests again for ANSEWER, FindUser goes on whatever was handled. *)
Accepts ==
  /\ MenuGoes("selected", "linger") /\ (goal = Look \/ IsAnswer(chatclient))
  /\ msgse_flag' = 1
  /\ UNCHANGED <<locals, sendbuf, readbuf, chat, poll, network, f2>>

NotYet ==
  /\ MenuGoes("selected", "wait") /\ goal # Look /\ ~IsAnswer(chatclient)
  /\ UNCHANGED <<locals, msgse_flag, sendbuf, readbuf, chat, poll, network, f2>>

(* The RESPONSE is offered for five seconds; a login then starts thr_f2.   *)
Lingers ==
  /\ MenuGoes("linger", "prompt") /\ msgse_flag' = 0
  /\ f2' = IF goal \in Logins THEN "init" ELSE f2
  /\ UNCHANGED <<locals, sendbuf, readbuf, chat, poll, network>>

Asks    == FillsChat \/ ErasesSendbuf \/ Composes \/ ShowsRequest \/ WindowCloses
Looks   == ForgetsChat \/ ParsesAnswer \/ TestsChat \/ Accepts \/ NotYet \/ Lingers
Handles == Selects \/ ErasesForHandler \/ Prints \/ EmptiesNames \/ CopiesNames
Menu    == Asks \/ Looks \/ Handles

-----------------------------------------------------------------------------
(* thr_fn. *)

PollGoes(from, to) == poll = from /\ poll' = to /\ menu # "ended"

(* if (msgse_flag == 0) ... else if (msgse_flag == 1): the volatile flag   *)
(* is read twice, and with neither nothing is written.                     *)
TestsFlag ==
  /\ \/ PollGoes("test", IF msgse_flag = 0 THEN "default" ELSE "test again")
     \/ PollGoes("test again", IF msgse_flag = 1 THEN "send" ELSE "memset")
  /\ UNCHANGED <<menu, locals, msgse_flag, sendbuf, readbuf, chat, network, f2>>

(* Write.  A string of length 0 sends nothing.  Once the server has ended, *)
(* a write is answered by a reset, one after the reset fails, and the next *)
(* raises SIGPIPE, which ends the client.                                  *)
Write(text) ==
  \/ conn = "open" /\ request' = text /\ UNCHANGED <<conn, menu>>
  \/ conn = "fin" /\ conn' = (IF text = Nothing THEN "fin" ELSE "reset") /\ UNCHANGED <<request, menu>>
  \/ conn = "reset" /\ conn' = "dead" /\ UNCHANGED <<request, menu>>
  \/ conn \in {"reset", "dead"} /\ menu' = "ended" /\ UNCHANGED <<request, conn>>

WritesRequest ==
  /\ \/ PollGoes("default", "memset") /\ Write(Default)
     \/ PollGoes("send", "memset") /\ Write(sendbuf)
  /\ UNCHANGED <<locals, msgse_flag, sendbuf, readbuf, chat, answer, incoming, received, f2>>

ErasesReadbuf ==
  /\ PollGoes("memset", "read") /\ readbuf' = Nothing
  /\ UNCHANGED <<menu, locals, msgse_flag, sendbuf, chat, network, f2>>

(* Read waits while the connection is open: the O_NONBLOCK that fcntl is   *)
(* given is set with F_SETFD, which does not know it.  Without it, or when *)
(* the server has ended, Read returns nothing, which nobody looks at.      *)
ReadsData ==
  /\ PollGoes("read", "test") /\ answer # Nothing
  /\ readbuf' = answer /\ answer' = Nothing
  /\ received' = received \cup {answer}
  /\ UNCHANGED <<menu, locals, msgse_flag, sendbuf, chat, request, conn, incoming, f2>>

ReadNeverWaits ==                                  \* faulty: as it would be with F_SETFL
  /\ PollGoes("read", "test") /\ answer = Nothing
  /\ UNCHANGED <<menu, locals, msgse_flag, sendbuf, readbuf, chat, network, f2>>
ReadsAgain ==                                      \* faulty: repeats Read until there is data
  FALSE /\ UNCHANGED vars
ReadsNothing ==
  /\ PollGoes("read", "test") /\ answer = Nothing /\ conn # "open"
  /\ conn' = IF conn = "reset" THEN "dead" ELSE conn
  /\ UNCHANGED <<menu, locals, msgse_flag, sendbuf, readbuf, chat, request, answer, incoming, received, f2>>

Polls == TestsFlag \/ WritesRequest \/ ErasesReadbuf \/ ReadsData \/ ReadsNothing

(* The server answers a request it reads: with what was asked for, at      *)
(* once or at a later poll, with the default, or with what it has for this *)
(* descriptor otherwise.  It may also leave it unanswered, or end; with a  *)
(* request unread the connection is then reset.                            *)
Answers(m) ==
  /\ request # Nothing /\ conn = "open" /\ request' = Nothing /\ answer' = m
  /\ UNCHANGED <<menu, locals, msgse_flag, sendbuf, readbuf, chat, poll, conn, received, f2>>

ServerOks     == request \in Logins /\ Answers(Ok) /\ UNCHANGED incoming
ServerLists   == request = Look /\ Answers(Listing) /\ UNCHANGED incoming
ServerDefault == Answers(Default) /\ UNCHANGED incoming
ServerStrays  == /\ incoming < MaxIncoming /\ incoming' = incoming + 1
                 /\ \E m \in Strays : Answers(m)
ServerEnds    ==
  /\ conn = "open" /\ request' = Nothing
  /\ conn' \in {"fin"} \cup (IF request # Nothing THEN {"reset"} ELSE {})
  /\ UNCHANGED <<menu, locals, msgse_flag, sendbuf, readbuf, chat, poll, answer, incoming, received, f2>>

Server == ServerOks \/ ServerLists \/ ServerDefault \/ ServerStrays \/ ServerEnds

-----------------------------------------------------------------------------
(* thr_f2: once a second, is there a message of another user?  What it     *)
(* prints to msgrecenote and shows is left out.                            *)

F2Goes(from, to) == f2 = from /\ f2' = to /\ menu # "ended"

F2Parses ==
  /\ \/ F2Goes("init", "parse") /\ Initchat
     \/ F2Goes("parse", "test") /\ Parses
  /\ UNCHANGED <<menu, locals, msgse_flag, sendbuf, readbuf, poll, network>>

F2Tests ==
  /\ F2Goes("test", IF chat_valid = 1 /\ chatclient.cmd = "SEND" THEN "select" ELSE "init")
  /\ UNCHANGED <<menu, locals, msgse_flag, sendbuf, readbuf, chat, poll, network>>

(* selectCmmand(chatclient.chat_command, ..., NULL): the command is read   *)
(* again, and for a listing main has parsed meanwhile processLOOK writes   *)
(* through the null pointer.                                               *)
F2Selects ==
  /\ F2Goes("select", "mine")
  /\ menu' = IF chatclient.cmd = "LOOK" THEN "ended" ELSE menu
  /\ UNCHANGED <<locals, msgse_flag, sendbuf, readbuf, chat, poll, network>>

F2Shows ==
  /\ F2Goes("mine", IF chatclient.cmd = "SEND" /\ chatclient.to \in {Me, Admin} THEN "clear" ELSE "init")
  /\ UNCHANGED <<menu, locals, msgse_flag, sendbuf, readbuf, chat, poll, network>>

F2Clears ==
  /\ F2Goes("clear", "init") /\ readbuf' = Nothing
  /\ UNCHANGED <<menu, locals, msgse_flag, sendbuf, chat, poll, network>>

thr_f2 == F2Parses \/ F2Tests \/ F2Selects \/ F2Shows \/ F2Clears

Next == Starts \/ Chooses \/ Menu \/ Polls \/ Server \/ thr_f2

Spec == Init /\ [][Next]_vars

(* main and thr_fn, when they can run, do run; the user need not choose    *)
(* anything, and the server owes nothing.                                  *)
FairSpec == Spec /\ WF_vars(Menu) /\ WF_vars(Polls)
-----------------------------------------------------------------------------
Received  == Strays \cup {Default}
Parsed    == Strays \cup {Blank}
Requested == Logins \cup Sends \cup {Look}
Sent      == {Nothing, Torn, Default, Text} \cup Strays \cup Requested \cup {ResponseTo(c) : c \in Parsed}

(* Every buffer and local keeps to its type. *)
TypeOK ==
  /\ menu \in {"start", "prompt", "fill", "memset", "compose", "show", "window", "wait", "parse", "test",
               "select", "erase", "print", "names", "copy", "selected", "linger", "ended"}
  /\ goal \in Requested \cup {Nothing}
  /\ msg_command \in {m.cmd : m \in Parsed}
  /\ msgse_flag \in {0, 1} /\ username_arrar \subseteq Strays
  /\ commands \in 0 .. MaxCommands /\ incoming \in 0 .. MaxIncoming
  /\ chatclient \in Parsed \cup Requested /\ chat_valid \in {0, 1}
  /\ sendbuf \in Sent /\ readbuf \in Received \cup {Nothing}
  /\ poll \in {"test", "test again", "default", "send", "memset", "read"}
  /\ request \in Sent /\ answer \in Received \cup {Nothing}
  /\ conn \in {"open", "fin", "reset", "dead"}
  /\ f2 \in {"off", "init", "parse", "test", "select", "mine", "clear"}
  /\ received \subseteq Received

(* At most one request of a client is under way, and thr_fn waits for its  *)
(* answer before it asks again, whatever main writes to sendbuf and        *)
(* msgse_flag meanwhile: what ChatServer takes its clients to do.          *)
OneAtATime ==
  /\ request = Nothing \/ answer = Nothing
  /\ request # Nothing \/ answer # Nothing => poll \in {"memset", "read"}

(* The session begins, and thr_f2 with it, only after the server's answer  *)
(* to the login has come, whatever else came before it.                    *)
SessionAfterAnswer == f2 # "off" => Ok \in received

(* There are names to choose from only after a listing has come, and they  *)
(* were copied from messages the server has sent - not from the request,   *)
(* which is a LOOK as well and in the same chatclient.  That they are from *)
(* a listing is more than the code achieves: thr_f2 parses into chatclient *)
(* while main tests it and copies from it.                                 *)
ListingWasReceived ==
  /\ username_arrar \subseteq received
  /\ username_arrar # {} => Listing \in received

(* Until thr_fn has read something but the default it never waits for an   *)
(* answer to nothing: the flag is raised only over a composed request.     *)
(* After that it may: processsend, processAnswer and processLOOK erase     *)
(* sendbuf while the flag is 1, the flag may fall between its two tests,   *)
(* and Read then does not return while the server lives.                   *)
LoginKeepsAsking ==
  received \subseteq {Default} /\ conn = "open" /\ poll = "read"
    => request # Nothing \/ answer # Nothing

(* The client ends when the server has ended, although nobody looks at     *)
(* what Read returns: it goes on polling until a Write raises SIGPIPE.     *)
EndsWithServer == conn # "open" ~> menu = "ended"
=============================================================================
