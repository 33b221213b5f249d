--------------------------- MODULE ChatClientProofs ---------------------------
(***************************************************************************)
(* Safety of the chat client: each invariant the run checks, for every     *)
(* choice of the users and of the bounds.                                  *)
(***************************************************************************)
EXTENDS ChatClient, TLAPS

(* TypeOK in two parts: where the threads are, and what the buffers hold. *)
Places ==
  /\ menu \in {"start", "prompt", "fill", "memset", "compose", "show", "window", "wait", "parse", "test",
               "select", "erase", "print", "names", "copy", "selected", "linger", "ended"}
  /\ poll \in {"test", "test again", "default", "send", "memset", "read"}
  /\ f2 \in {"off", "init", "parse", "test", "select", "mine", "clear"}
  /\ conn \in {"open", "fin", "reset", "dead"}
  /\ msgse_flag \in {0, 1} /\ commands \in 0 .. MaxCommands /\ incoming \in 0 .. MaxIncoming
Values ==
  /\ goal \in Requested \cup {Nothing} /\ username_arrar \subseteq Strays
  /\ msg_command \in {m.cmd : m \in Parsed}
  /\ chatclient \in Parsed \cup Requested /\ chat_valid \in {0, 1}
  /\ chat_valid = 1 => chatclient # Blank
  /\ sendbuf \in Sent /\ readbuf \in Received \cup {Nothing}
  /\ request \in Sent /\ answer \in Received \cup {Nothing}
  /\ received \subseteq Received

(* What is in readbuf has been read from the server; after its end no      *)
(* request is under way.                                                   *)
ReadInv ==
  /\ readbuf \in received \cup {Nothing}
  /\ conn # "open" => request = Nothing

(* Where main is says what it is asking for. *)
Handling == {"select", "erase", "print", "names", "copy", "selected", "linger"}
GoalInv ==
  /\ menu = "start" => goal = Nothing
  /\ menu \in {"fill", "memset", "compose", "show"} => goal \in Requested
  /\ menu = "window" => goal \in Sends
  /\ menu \in {"wait", "parse", "test"} \cup Handling => goal \in Logins \cup {Look}
  /\ menu = "copy" => goal = Look

(* From the moment main has forgotten its request, whoever parsed last     *)
(* took the message from readbuf; a listing is handled only after one has  *)
(* come, and a session begins only after a login was answered.             *)
AnswerInv ==
  /\ menu \in {"parse", "test"} \cup Handling => chatclient \in received \cup {Blank}
  /\ menu \in Handling /\ goal = Look => Listing \in received
  /\ menu = "linger" /\ goal \in Logins => Ok \in received

(* As long as nothing but the default has been read, main is in its login, *)
(* alone but for thr_fn, and handles nothing; the flag is raised once,     *)
(* over a composed request, and thr_fn writes something before each Read.  *)
Quiet  == received \subseteq {Default}
Hidden == menu \in {"start", "fill", "memset", "compose", "show"}
Shown  == menu \in {"wait", "parse", "test"}
LoginInv == Quiet =>
  /\ Hidden \/ Shown \/ menu = "ended"
  /\ goal \in Logins \cup {Nothing}
  /\ Hidden => msgse_flag = 0 /\ poll \notin {"test again", "send"}
  /\ menu \in {"memset", "compose"} => chatclient = goal /\ chat_valid = 1
  /\ menu = "show" => sendbuf # Nothing
  /\ Shown => msgse_flag = 1 /\ sendbuf # Nothing
  /\ menu \in {"parse", "test"} => chat_valid = 0
  /\ conn = "open" /\ poll \in {"memset", "read"} => request # Nothing \/ answer # Nothing

IInv ==
  /\ Places /\ Values /\ OneAtATime /\ ReadInv /\ GoalInv /\ AnswerInv /\ LoginInv
  /\ SessionAfterAnswer /\ ListingWasReceived

-----------------------------------------------------------------------------
(* Which messages are different: the facts of Message the proofs use. *)

LEMMA Commands ==
  /\ Nothing.cmd = "nothing" /\ Torn.cmd = "torn" /\ Default.cmd = "default" /\ Text.cmd = "text"
  /\ Blank.cmd = "EMPTY" /\ Look.cmd = "LOOK" /\ Listing.cmd = "LOOK" /\ Ok.cmd = "ANSEWER"
  /\ \A m \in Logins : m.cmd \in {"LOGIN", "REGISTER"}
  /\ \A m \in Sends : m.cmd = "SEND"
  /\ \A m \in Strays : m \in {Ok, Listing} \/ m.cmd = "SEND"
  /\ \A c : ResponseTo(c).cmd = "RESPONSE"
BY DEF Message, Nothing, Torn, Default, Text, Blank, Look, Listing, Ok, Logins, Sends, Strays, ResponseTo

LEMMA MessagesDiffer ==
  /\ Nothing \notin {Torn, Default, Text} \cup Strays \cup Parsed \cup Requested
  /\ \A c : ResponseTo(c) # Nothing
  /\ Default \notin Parsed \cup Requested
  /\ Blank \notin Received \cup Requested
  /\ Logins \cap Sends = {} /\ Look \notin Logins \cup Sends
BY Commands DEF Received, Parsed, Requested

LEMMA Kinds ==
  /\ Ok \in Strays /\ Listing \in Strays /\ Received = Strays \cup {Default}
  /\ Parsed = Strays \cup {Blank} /\ Requested = Logins \cup Sends \cup {Look}
  /\ {Nothing, Torn, Default, Text} \cup Strays \cup Requested \subseteq Sent
  /\ \A c \in Parsed : ResponseTo(c) \in Sent
BY DEF Strays, Received, Parsed, Requested, Sent

LEMMA OneOfAKind ==
  ASSUME NEW c \in Strays \cup {Blank}
  PROVE  (c.cmd = "LOOK" => c = Listing) /\ (c.cmd = "ANSEWER" => c = Ok)
BY Commands

LEMMA ParsesWhatWasReceived ==
  ASSUME Values, ReadInv, Parses
  PROVE  /\ chatclient' \in Parsed \cup Requested /\ chat_valid' \in {0, 1}
         /\ chatclient' \in {chatclient} \cup received
         /\ chat_valid' = 1 => chatclient' # Blank
         /\ Quiet => chatclient' = chatclient
         /\ Quiet /\ chat_valid = 0 => chat_valid' = 0
<1>1. CASE IsMessage(readbuf)
  <2>1. readbuf \in received /\ readbuf \in Strays
    BY <1>1, Kinds DEF Values, ReadInv, IsMessage
  <2>2. readbuf # Blank /\ ~Quiet
    BY <1>1, <2>1, MessagesDiffer, Kinds DEF Quiet, IsMessage
  <2> QED BY <1>1, <2>1, <2>2, Kinds DEF Parses
<1>2. CASE ~IsMessage(readbuf)
  BY <1>2 DEF Parses, Values
<1> QED BY <1>1, <1>2

LEMMA ComposedIsMessage ==
  ASSUME Values
  PROVE  Composed \in Sent /\ Composed # Nothing
<1>1. CASE chat_valid = 1
  BY <1>1, Kinds, MessagesDiffer DEF Composed, Values
<1>2. CASE chat_valid # 1
  BY <1>2, Kinds, MessagesDiffer DEF Composed
<1> QED BY <1>1, <1>2
-----------------------------------------------------------------------------
(* Initial states, and one lemma per thread. *)

LEMMA Bounds == MaxCommands \in Nat /\ MaxIncoming \in Nat
BY ChatClientAssumption

LEMMA InitIInv == Init => IInv
<1> SUFFICES ASSUME Init PROVE IInv
  OBVIOUS
<1>1. Places
  BY Bounds DEF Init, Places
<1>2. Values
  <2>1. "EMPTY" \in {m.cmd : m \in Parsed}
    BY Kinds, Commands
  <2> QED BY <2>1, Kinds, MessagesDiffer DEF Init, Values
<1>3. OneAtATime /\ ReadInv /\ GoalInv /\ AnswerInv
  BY DEF Init, OneAtATime, ReadInv, GoalInv, AnswerInv, Handling
<1>4. LoginInv
  BY DEF Init, LoginInv, Quiet, Hidden, Shown
<1>5. SessionAfterAnswer /\ ListingWasReceived
  BY DEF Init, SessionAfterAnswer, ListingWasReceived
<1> QED BY <1>1, <1>2, <1>3, <1>4, <1>5 DEF IInv

(* The user's choices. *)
LEMMA UserKeeps ==
  ASSUME IInv, Starts \/ Chooses
  PROVE  IInv'
<1> USE DEF IInv, locals, chat, network
<1>1. CASE Starts
  <2>1. Places'
    BY <1>1 DEF Starts, MenuGoes, Places
  <2>2. Values'
    BY <1>1, Kinds DEF Starts, MenuGoes, Values
  <2>3. OneAtATime' /\ ReadInv' /\ GoalInv'
    BY <1>1, Kinds DEF Starts, MenuGoes, OneAtATime, ReadInv, GoalInv, Handling
  <2>4. AnswerInv'
    BY <1>1 DEF Starts, MenuGoes, AnswerInv, Handling
  <2>5. LoginInv'
    BY <1>1 DEF Starts, MenuGoes, LoginInv, Quiet, Hidden, Shown, GoalInv
  <2>6. SessionAfterAnswer' /\ ListingWasReceived'
    BY <1>1 DEF Starts, MenuGoes, SessionAfterAnswer, ListingWasReceived
  <2> QED BY <2>1, <2>2, <2>3, <2>4, <2>5, <2>6
<1>2. CASE Chooses
  <2>1. Places'
    <3>1. /\ commands < MaxCommands /\ commands' = commands + 1
          /\ menu' = "fill" /\ UNCHANGED <<poll, f2, conn, msgse_flag, incoming>>
      BY <1>2 DEF Chooses, MenuGoes
    <3>2. commands \in 0 .. MaxCommands
      BY DEF Places
    <3>3. commands' \in 0 .. MaxCommands
      BY <3>1, <3>2, Bounds
    <3> QED BY <3>1, <3>3 DEF Places
  <2>2. Values'
    BY <1>2, Kinds DEF Chooses, MenuGoes, Values
  <2>3. OneAtATime' /\ ReadInv' /\ GoalInv'
    BY <1>2, Kinds DEF Chooses, MenuGoes, OneAtATime, ReadInv, GoalInv, Handling
  <2>4. AnswerInv'
    BY <1>2 DEF Chooses, MenuGoes, AnswerInv, Handling
  <2>5. LoginInv'
    BY <1>2 DEF Chooses, MenuGoes, LoginInv, Quiet, Hidden, Shown
  <2>6. SessionAfterAnswer' /\ ListingWasReceived'
    BY <1>2 DEF Chooses, MenuGoes, SessionAfterAnswer, ListingWasReceived
  <2> QED BY <2>1, <2>2, <2>3, <2>4, <2>5, <2>6
<1> QED BY <1>1, <1>2

(* main asks. *)
LEMMA AsksKeep ==
  ASSUME IInv, Asks
  PROVE  IInv'
<1> USE DEF IInv, locals, chat, network
<1>1. CASE FillsChat
  <2>1. Places'
    BY <1>1 DEF FillsChat, MenuGoes, Places
  <2>2. Values'
    BY <1>1, Kinds, MessagesDiffer DEF FillsChat, MenuGoes, Values, GoalInv
  <2>3. OneAtATime' /\ ReadInv' /\ GoalInv'
    BY <1>1, Kinds DEF FillsChat, MenuGoes, OneAtATime, ReadInv, GoalInv, Handling
  <2>4. AnswerInv'
    BY <1>1 DEF FillsChat, MenuGoes, AnswerInv, Handling
  <2>5. LoginInv'
    BY <1>1 DEF FillsChat, MenuGoes, LoginInv, Quiet, Hidden, Shown, GoalInv
  <2>6. SessionAfterAnswer' /\ ListingWasReceived'
    BY <1>1 DEF FillsChat, MenuGoes, SessionAfterAnswer, ListingWasReceived
  <2> QED BY <2>1, <2>2, <2>3, <2>4, <2>5, <2>6
<1>2. CASE ErasesSendbuf
  <2>1. Places'
    BY <1>2 DEF ErasesSendbuf, MenuGoes, Places, Erased
  <2>2. Values'
    BY <1>2, Kinds DEF ErasesSendbuf, MenuGoes, Values, Erased
  <2>3. OneAtATime' /\ ReadInv' /\ GoalInv'
    BY <1>2 DEF ErasesSendbuf, MenuGoes, OneAtATime, ReadInv, GoalInv, Handling
  <2>4. AnswerInv'
    BY <1>2 DEF ErasesSendbuf, MenuGoes, AnswerInv, Handling
  <2>5. LoginInv'
    BY <1>2 DEF ErasesSendbuf, MenuGoes, LoginInv, Quiet, Hidden, Shown
  <2>6. SessionAfterAnswer' /\ ListingWasReceived'
    BY <1>2 DEF ErasesSendbuf, MenuGoes, SessionAfterAnswer, ListingWasReceived
  <2> QED BY <2>1, <2>2, <2>3, <2>4, <2>5, <2>6
<1>3. CASE Composes
  <2>1. Places'
    BY <1>3 DEF Composes, MenuGoes, Places
  <2>2. Values'
    BY <1>3, ComposedIsMessage DEF Composes, MenuGoes, Values
  <2>3. OneAtATime' /\ ReadInv' /\ GoalInv'
    BY <1>3 DEF Composes, MenuGoes, OneAtATime, ReadInv, GoalInv, Handling
  <2>4. AnswerInv'
    BY <1>3 DEF Composes, MenuGoes, AnswerInv, Handling
  <2>5. LoginInv'
    BY <1>3, ComposedIsMessage DEF Composes, MenuGoes, LoginInv, Quiet, Hidden, Shown
  <2>6. SessionAfterAnswer' /\ ListingWasReceived'
    BY <1>3 DEF Composes, MenuGoes, SessionAfterAnswer, ListingWasReceived
  <2> QED BY <2>1, <2>2, <2>3, <2>4, <2>5, <2>6
<1>4. CASE ShowsRequest
  <2>1. Places'
    BY <1>4 DEF ShowsRequest, MenuGoes, Places
  <2>2. Values'
    BY <1>4 DEF ShowsRequest, MenuGoes, Values
  <2>3. OneAtATime' /\ ReadInv' /\ GoalInv'
    BY <1>4, Kinds DEF ShowsRequest, MenuGoes, OneAtATime, ReadInv, GoalInv, Handling
  <2>4. AnswerInv'
    BY <1>4 DEF ShowsRequest, MenuGoes, AnswerInv, Handling
  <2>5. LoginInv'
    BY <1>4, MessagesDiffer, Kinds DEF ShowsRequest, MenuGoes, LoginInv, Quiet, Hidden, Shown,
        GoalInv
  <2>6. SessionAfterAnswer' /\ ListingWasReceived'
    BY <1>4 DEF ShowsRequest, MenuGoes, SessionAfterAnswer, ListingWasReceived
  <2> QED BY <2>1, <2>2, <2>3, <2>4, <2>5, <2>6
<1>5. CASE WindowCloses
  <2>1. Places'
    BY <1>5 DEF WindowCloses, MenuGoes, Places
  <2>2. Values'
    BY <1>5 DEF WindowCloses, MenuGoes, Values
  <2>3. OneAtATime' /\ ReadInv' /\ GoalInv'
    BY <1>5 DEF WindowCloses, MenuGoes, OneAtATime, ReadInv, GoalInv, Handling
  <2>4. AnswerInv'
    BY <1>5 DEF WindowCloses, MenuGoes, AnswerInv, Handling
  <2>5. LoginInv'
    BY <1>5 DEF WindowCloses, MenuGoes, LoginInv, Quiet, Hidden, Shown
  <2>6. SessionAfterAnswer' /\ ListingWasReceived'
    BY <1>5 DEF WindowCloses, MenuGoes, SessionAfterAnswer, ListingWasReceived
  <2> QED BY <2>1, <2>2, <2>3, <2>4, <2>5, <2>6
<1> QED BY <1>1, <1>2, <1>3, <1>4, <1>5 DEF Asks

(* main looks for the answer. *)
LEMMA LooksKeep ==
  ASSUME IInv, Looks
  PROVE  IInv'
<1> USE DEF IInv, locals, chat, network
<1>1. CASE ForgetsChat
  <2>1. Places'
    BY <1>1 DEF ForgetsChat, MenuGoes, Places
  <2>2. Values'
    BY <1>1, Kinds DEF ForgetsChat, MenuGoes, Values, Initchat
  <2>3. OneAtATime' /\ ReadInv' /\ GoalInv'
    BY <1>1 DEF ForgetsChat, MenuGoes, OneAtATime, ReadInv, GoalInv, Handling
  <2>4. AnswerInv'
    BY <1>1 DEF ForgetsChat, MenuGoes, AnswerInv, Handling, Initchat
  <2>5. LoginInv'
    BY <1>1 DEF ForgetsChat, MenuGoes, LoginInv, Quiet, Hidden, Shown, Initchat
  <2>6. SessionAfterAnswer' /\ ListingWasReceived'
    BY <1>1 DEF ForgetsChat, MenuGoes, SessionAfterAnswer, ListingWasReceived
  <2> QED BY <2>1, <2>2, <2>3, <2>4, <2>5, <2>6
<1>2. CASE ParsesAnswer
  <2>1. Places'
    BY <1>2 DEF ParsesAnswer, MenuGoes, Places
  <2>2. Values'
    BY <1>2, ParsesWhatWasReceived DEF ParsesAnswer, MenuGoes, Values
  <2>3. OneAtATime' /\ ReadInv' /\ GoalInv'
    BY <1>2 DEF ParsesAnswer, MenuGoes, OneAtATime, ReadInv, GoalInv, Handling
  <2>4. AnswerInv'
    BY <1>2, ParsesWhatWasReceived DEF ParsesAnswer, MenuGoes, AnswerInv, Handling
  <2>5. LoginInv'
    BY <1>2, ParsesWhatWasReceived DEF ParsesAnswer, MenuGoes, LoginInv, Quiet, Hidden, Shown
  <2>6. SessionAfterAnswer' /\ ListingWasReceived'
    BY <1>2 DEF ParsesAnswer, MenuGoes, SessionAfterAnswer, ListingWasReceived
  <2> QED BY <2>1, <2>2, <2>3, <2>4, <2>5, <2>6
<1>3. CASE TestsChat
  <2>1. Places'
    BY <1>3 DEF TestsChat, MenuGoes, Places
  <2>2. Values'
    BY <1>3 DEF TestsChat, MenuGoes, Values
  <2>3. OneAtATime' /\ ReadInv' /\ GoalInv'
    BY <1>3 DEF TestsChat, MenuGoes, OneAtATime, ReadInv, GoalInv, Handling
  <2>4. AnswerInv'
    BY <1>3, OneOfAKind, Kinds, MessagesDiffer DEF TestsChat, MenuGoes, AnswerInv, Handling,
        IsAnswer, Values
  <2>5. LoginInv'
    BY <1>3 DEF TestsChat, MenuGoes, LoginInv, Quiet, Hidden, Shown
  <2>6. SessionAfterAnswer' /\ ListingWasReceived'
    BY <1>3 DEF TestsChat, MenuGoes, SessionAfterAnswer, ListingWasReceived
  <2> QED BY <2>1, <2>2, <2>3, <2>4, <2>5, <2>6
<1>4. CASE Accepts
  <2>1. Places'
    BY <1>4 DEF Accepts, MenuGoes, Places
  <2>2. Values'
    BY <1>4 DEF Accepts, MenuGoes, Values
  <2>3. OneAtATime' /\ ReadInv' /\ GoalInv'
    BY <1>4 DEF Accepts, MenuGoes, OneAtATime, ReadInv, GoalInv, Handling
  <2>4. AnswerInv'
    BY <1>4, OneOfAKind, Kinds, MessagesDiffer DEF Accepts, MenuGoes, AnswerInv, Handling,
        IsAnswer, Values, GoalInv
  <2>5. LoginInv'
    BY <1>4 DEF Accepts, MenuGoes, LoginInv, Quiet, Hidden, Shown
  <2>6. SessionAfterAnswer' /\ ListingWasReceived'
    BY <1>4 DEF Accepts, MenuGoes, SessionAfterAnswer, ListingWasReceived
  <2> QED BY <2>1, <2>2, <2>3, <2>4, <2>5, <2>6
<1>5. CASE NotYet
  <2>1. Places'
    BY <1>5 DEF NotYet, MenuGoes, Places
  <2>2. Values'
    BY <1>5 DEF NotYet, MenuGoes, Values
  <2>3. OneAtATime' /\ ReadInv' /\ GoalInv'
    BY <1>5 DEF NotYet, MenuGoes, OneAtATime, ReadInv, GoalInv, Handling
  <2>4. AnswerInv'
    BY <1>5 DEF NotYet, MenuGoes, AnswerInv, Handling
  <2>5. LoginInv'
    BY <1>5 DEF NotYet, MenuGoes, LoginInv, Quiet, Hidden, Shown
  <2>6. SessionAfterAnswer' /\ ListingWasReceived'
    BY <1>5 DEF NotYet, MenuGoes, SessionAfterAnswer, ListingWasReceived
  <2> QED BY <2>1, <2>2, <2>3, <2>4, <2>5, <2>6
<1>6. CASE Lingers
  <2>1. Places'
    BY <1>6 DEF Lingers, MenuGoes, Places
  <2>2. Values'
    BY <1>6 DEF Lingers, MenuGoes, Values
  <2>3. OneAtATime' /\ ReadInv' /\ GoalInv'
    BY <1>6 DEF Lingers, MenuGoes, OneAtATime, ReadInv, GoalInv, Handling
  <2>4. AnswerInv'
    BY <1>6 DEF Lingers, MenuGoes, AnswerInv, Handling
  <2>5. LoginInv'
    BY <1>6 DEF Lingers, MenuGoes, LoginInv, Quiet, Hidden, Shown
  <2>6. SessionAfterAnswer' /\ ListingWasReceived'
    BY <1>6 DEF Lingers, MenuGoes, SessionAfterAnswer, ListingWasReceived, AnswerInv, GoalInv,
        Handling
  <2> QED BY <2>1, <2>2, <2>3, <2>4, <2>5, <2>6
<1> QED BY <1>1, <1>2, <1>3, <1>4, <1>5, <1>6 DEF Looks

(* main handles a message. *)
LEMMA HandlesKeep ==
  ASSUME IInv, Handles
  PROVE  IInv'
<1> USE DEF IInv, locals, chat, network
<1>1. CASE Selects
  <2>1. Places'
    BY <1>1 DEF Selects, MenuGoes, Places
  <2>2. Values'
    <3>1. chatclient \in Parsed
      BY <1>1, Kinds, MessagesDiffer DEF Selects, MenuGoes, Values, AnswerInv, Handling
    <3>2. msg_command' \in {m.cmd : m \in Parsed}
      BY <1>1, <3>1 DEF Selects
    <3> QED BY <1>1, <3>2 DEF Selects, Values
  <2>3. OneAtATime' /\ ReadInv' /\ GoalInv'
    BY <1>1 DEF Selects, MenuGoes, OneAtATime, ReadInv, GoalInv, Handling
  <2>4. AnswerInv'
    BY <1>1 DEF Selects, MenuGoes, AnswerInv, Handling
  <2>5. LoginInv'
    BY <1>1 DEF Selects, MenuGoes, LoginInv, Quiet, Hidden, Shown
  <2>6. SessionAfterAnswer' /\ ListingWasReceived'
    BY <1>1 DEF Selects, MenuGoes, SessionAfterAnswer, ListingWasReceived
  <2> QED BY <2>1, <2>2, <2>3, <2>4, <2>5, <2>6
<1>2. CASE ErasesForHandler
  <2>1. Places'
    BY <1>2 DEF ErasesForHandler, MenuGoes, Places
  <2>2. Values'
    BY <1>2, Kinds DEF ErasesForHandler, MenuGoes, Values, Erased
  <2>3. OneAtATime' /\ ReadInv' /\ GoalInv'
    BY <1>2 DEF ErasesForHandler, MenuGoes, OneAtATime, ReadInv, GoalInv, Handling
  <2>4. AnswerInv'
    BY <1>2 DEF ErasesForHandler, MenuGoes, AnswerInv, Handling
  <2>5. LoginInv'
    BY <1>2 DEF ErasesForHandler, MenuGoes, LoginInv, Quiet, Hidden, Shown
  <2>6. SessionAfterAnswer' /\ ListingWasReceived'
    BY <1>2 DEF ErasesForHandler, MenuGoes, SessionAfterAnswer, ListingWasReceived
  <2> QED BY <2>1, <2>2, <2>3, <2>4, <2>5, <2>6
<1>3. CASE Prints
  <2>1. Places'
    BY <1>3 DEF Prints, MenuGoes, Places
  <2>2. Values'
    BY <1>3, Kinds, MessagesDiffer DEF Prints, MenuGoes, Values, AnswerInv, Handling
  <2>3. OneAtATime' /\ ReadInv' /\ GoalInv'
    BY <1>3 DEF Prints, MenuGoes, OneAtATime, ReadInv, GoalInv, Handling
  <2>4. AnswerInv'
    BY <1>3 DEF Prints, MenuGoes, AnswerInv, Handling
  <2>5. LoginInv'
    BY <1>3 DEF Prints, MenuGoes, LoginInv, Quiet, Hidden, Shown
  <2>6. SessionAfterAnswer' /\ ListingWasReceived'
    BY <1>3 DEF Prints, MenuGoes, SessionAfterAnswer, ListingWasReceived
  <2> QED BY <2>1, <2>2, <2>3, <2>4, <2>5, <2>6
<1>4. CASE EmptiesNames
  <2>1. Places'
    BY <1>4 DEF EmptiesNames, MenuGoes, Places
  <2>2. Values'
    BY <1>4 DEF EmptiesNames, MenuGoes, Values
  <2>3. OneAtATime' /\ ReadInv' /\ GoalInv'
    BY <1>4 DEF EmptiesNames, MenuGoes, OneAtATime, ReadInv, GoalInv, Handling
  <2>4. AnswerInv'
    BY <1>4 DEF EmptiesNames, MenuGoes, AnswerInv, Handling
  <2>5. LoginInv'
    BY <1>4 DEF EmptiesNames, MenuGoes, LoginInv, Quiet, Hidden, Shown
  <2>6. SessionAfterAnswer' /\ ListingWasReceived'
    BY <1>4 DEF EmptiesNames, MenuGoes, SessionAfterAnswer, ListingWasReceived
  <2> QED BY <2>1, <2>2, <2>3, <2>4, <2>5, <2>6
<1>5. CASE CopiesNames
  <2>1. Places'
    BY <1>5 DEF CopiesNames, MenuGoes, Places
  <2>2. Values'
    BY <1>5, Kinds, MessagesDiffer DEF CopiesNames, MenuGoes, Values, AnswerInv, Handling
  <2>3. OneAtATime' /\ ReadInv' /\ GoalInv'
    BY <1>5 DEF CopiesNames, MenuGoes, OneAtATime, ReadInv, GoalInv, Handling
  <2>4. AnswerInv'
    BY <1>5 DEF CopiesNames, MenuGoes, AnswerInv, Handling
  <2>5. LoginInv'
    BY <1>5 DEF CopiesNames, MenuGoes, LoginInv, Quiet, Hidden, Shown
  <2>6. SessionAfterAnswer' /\ ListingWasReceived'
    BY <1>5 DEF CopiesNames, MenuGoes, SessionAfterAnswer, ListingWasReceived, AnswerInv, GoalInv,
        Handling
  <2> QED BY <2>1, <2>2, <2>3, <2>4, <2>5, <2>6
<1> QED BY <1>1, <1>2, <1>3, <1>4, <1>5 DEF Handles

LEMMA MenuKeeps ==
  ASSUME IInv, Menu
  PROVE  IInv'
BY AsksKeep, LooksKeep, HandlesKeep DEF Menu

(* thr_fn. *)
LEMMA PollsKeep ==
  ASSUME IInv, Polls
  PROVE  IInv'
<1> USE DEF IInv, locals, chat, network
<1>1. CASE TestsFlag
  <2>1. Places'
    BY <1>1 DEF TestsFlag, PollGoes, Places
  <2>2. Values'
    BY <1>1 DEF TestsFlag, PollGoes, Values
  <2>3. OneAtATime' /\ ReadInv' /\ GoalInv'
    BY <1>1 DEF TestsFlag, PollGoes, OneAtATime, ReadInv, GoalInv, Handling
  <2>4. AnswerInv'
    BY <1>1 DEF TestsFlag, PollGoes, AnswerInv, Handling
  <2>5. LoginInv'
    BY <1>1 DEF TestsFlag, PollGoes, LoginInv, Quiet, Hidden, Shown
  <2>6. SessionAfterAnswer' /\ ListingWasReceived'
    BY <1>1 DEF TestsFlag, PollGoes, SessionAfterAnswer, ListingWasReceived
  <2> QED BY <2>1, <2>2, <2>3, <2>4, <2>5, <2>6
<1>2. CASE WritesRequest
  <2>1. Places'
    BY <1>2 DEF WritesRequest, Write, PollGoes, Places
  <2>2. Values'
    BY <1>2, Kinds DEF WritesRequest, Write, PollGoes, Values
  <2>3. OneAtATime' /\ ReadInv' /\ GoalInv'
    BY <1>2 DEF WritesRequest, Write, PollGoes, OneAtATime, ReadInv, GoalInv, Handling
  <2>4. AnswerInv'
    BY <1>2 DEF WritesRequest, Write, PollGoes, AnswerInv, Handling
  <2>5. LoginInv'
    BY <1>2, MessagesDiffer DEF WritesRequest, Write, PollGoes, LoginInv, Quiet, Hidden, Shown
  <2>6. SessionAfterAnswer' /\ ListingWasReceived'
    BY <1>2 DEF WritesRequest, Write, PollGoes, SessionAfterAnswer, ListingWasReceived
  <2> QED BY <2>1, <2>2, <2>3, <2>4, <2>5, <2>6
<1>3. CASE ErasesReadbuf
  <2>1. Places'
    BY <1>3 DEF ErasesReadbuf, PollGoes, Places
  <2>2. Values'
    BY <1>3 DEF ErasesReadbuf, PollGoes, Values
  <2>3. OneAtATime' /\ ReadInv' /\ GoalInv'
    BY <1>3 DEF ErasesReadbuf, PollGoes, OneAtATime, ReadInv, GoalInv, Handling
  <2>4. AnswerInv'
    BY <1>3 DEF ErasesReadbuf, PollGoes, AnswerInv, Handling
  <2>5. LoginInv'
    BY <1>3 DEF ErasesReadbuf, PollGoes, LoginInv, Quiet, Hidden, Shown
  <2>6. SessionAfterAnswer' /\ ListingWasReceived'
    BY <1>3 DEF ErasesReadbuf, PollGoes, SessionAfterAnswer, ListingWasReceived
  <2> QED BY <2>1, <2>2, <2>3, <2>4, <2>5, <2>6
<1>4. CASE ReadsData
  <2>1. Places'
    BY <1>4 DEF ReadsData, PollGoes, Places
  <2>2. Values'
    BY <1>4 DEF ReadsData, PollGoes, Values
  <2>3. OneAtATime' /\ ReadInv' /\ GoalInv'
    BY <1>4 DEF ReadsData, PollGoes, OneAtATime, ReadInv, GoalInv, Handling
  <2>4. AnswerInv'
    BY <1>4 DEF ReadsData, PollGoes, AnswerInv, Handling
  <2>5. LoginInv'
    BY <1>4 DEF ReadsData, PollGoes, LoginInv, Quiet, Hidden, Shown
  <2>6. SessionAfterAnswer' /\ ListingWasReceived'
    BY <1>4 DEF ReadsData, PollGoes, SessionAfterAnswer, ListingWasReceived
  <2> QED BY <2>1, <2>2, <2>3, <2>4, <2>5, <2>6
<1>5. CASE ReadsNothing
  <2>1. Places'
    BY <1>5 DEF ReadsNothing, PollGoes, Places
  <2>2. Values'
    BY <1>5 DEF ReadsNothing, PollGoes, Values
  <2>3. OneAtATime' /\ ReadInv' /\ GoalInv'
    BY <1>5 DEF ReadsNothing, PollGoes, OneAtATime, ReadInv, GoalInv, Handling
  <2>4. AnswerInv'
    BY <1>5 DEF ReadsNothing, PollGoes, AnswerInv, Handling
  <2>5. LoginInv'
    BY <1>5 DEF ReadsNothing, PollGoes, LoginInv, Quiet, Hidden, Shown
  <2>6. SessionAfterAnswer' /\ ListingWasReceived'
    BY <1>5 DEF ReadsNothing, PollGoes, SessionAfterAnswer, ListingWasReceived
  <2> QED BY <2>1, <2>2, <2>3, <2>4, <2>5, <2>6
<1> QED BY <1>1, <1>2, <1>3, <1>4, <1>5 DEF Polls

(* The server. *)
LEMMA ServerKeeps ==
  ASSUME IInv, Server
  PROVE  IInv'
<1> USE DEF IInv, locals, chat, network
<1>1. CASE ServerOks
  <2>1. Places'
    BY <1>1 DEF ServerOks, Answers, Places
  <2>2. Values'
    BY <1>1, Kinds DEF ServerOks, Answers, Values
  <2>3. OneAtATime' /\ ReadInv' /\ GoalInv'
    BY <1>1, Kinds, MessagesDiffer DEF ServerOks, Answers, OneAtATime, ReadInv, GoalInv, Handling
  <2>4. AnswerInv'
    BY <1>1 DEF ServerOks, Answers, AnswerInv, Handling
  <2>5. LoginInv'
    BY <1>1, Kinds, MessagesDiffer DEF ServerOks, Answers, LoginInv, Quiet, Hidden, Shown
  <2>6. SessionAfterAnswer' /\ ListingWasReceived'
    BY <1>1 DEF ServerOks, Answers, SessionAfterAnswer, ListingWasReceived
  <2> QED BY <2>1, <2>2, <2>3, <2>4, <2>5, <2>6
<1>2. CASE ServerLists
  <2>1. Places'
    BY <1>2 DEF ServerLists, Answers, Places
  <2>2. Values'
    BY <1>2, Kinds DEF ServerLists, Answers, Values
  <2>3. OneAtATime' /\ ReadInv' /\ GoalInv'
    BY <1>2, Kinds, MessagesDiffer DEF ServerLists, Answers, OneAtATime, ReadInv, GoalInv, Handling
  <2>4. AnswerInv'
    BY <1>2 DEF ServerLists, Answers, AnswerInv, Handling
  <2>5. LoginInv'
    BY <1>2, Kinds, MessagesDiffer DEF ServerLists, Answers, LoginInv, Quiet, Hidden, Shown
  <2>6. SessionAfterAnswer' /\ ListingWasReceived'
    BY <1>2 DEF ServerLists, Answers, SessionAfterAnswer, ListingWasReceived
  <2> QED BY <2>1, <2>2, <2>3, <2>4, <2>5, <2>6
<1>3. CASE ServerDefault
  <2>1. Places'
    BY <1>3 DEF ServerDefault, Answers, Places
  <2>2. Values'
    BY <1>3, Kinds DEF ServerDefault, Answers, Values
  <2>3. OneAtATime' /\ ReadInv' /\ GoalInv'
    BY <1>3, Kinds, MessagesDiffer DEF ServerDefault, Answers, OneAtATime, ReadInv, GoalInv,
        Handling
  <2>4. AnswerInv'
    BY <1>3 DEF ServerDefault, Answers, AnswerInv, Handling
  <2>5. LoginInv'
    BY <1>3, Kinds, MessagesDiffer DEF ServerDefault, Answers, LoginInv, Quiet, Hidden, Shown
  <2>6. SessionAfterAnswer' /\ ListingWasReceived'
    BY <1>3 DEF ServerDefault, Answers, SessionAfterAnswer, ListingWasReceived
  <2> QED BY <2>1, <2>2, <2>3, <2>4, <2>5, <2>6
<1>4. CASE ServerStrays
  <2>1. Places'
    <3>1. /\ incoming < MaxIncoming /\ incoming' = incoming + 1
          /\ UNCHANGED <<menu, poll, f2, conn, msgse_flag, commands>>
      BY <1>4 DEF ServerStrays, Answers
    <3>2. incoming \in 0 .. MaxIncoming
      BY DEF Places
    <3>3. incoming' \in 0 .. MaxIncoming
      BY <3>1, <3>2, Bounds
    <3> QED BY <3>1, <3>3 DEF Places
  <2>2. Values'
    BY <1>4, Kinds DEF ServerStrays, Answers, Values
  <2>3. OneAtATime' /\ ReadInv' /\ GoalInv'
    BY <1>4, Kinds, MessagesDiffer DEF ServerStrays, Answers, OneAtATime, ReadInv, GoalInv,
        Handling
  <2>4. AnswerInv'
    BY <1>4 DEF ServerStrays, Answers, AnswerInv, Handling
  <2>5. LoginInv'
    BY <1>4, Kinds, MessagesDiffer DEF ServerStrays, Answers, LoginInv, Quiet, Hidden, Shown
  <2>6. SessionAfterAnswer' /\ ListingWasReceived'
    BY <1>4 DEF ServerStrays, Answers, SessionAfterAnswer, ListingWasReceived
  <2> QED BY <2>1, <2>2, <2>3, <2>4, <2>5, <2>6
<1>5. CASE ServerEnds
  <2>1. Places'
    BY <1>5 DEF ServerEnds, Places
  <2>2. Values'
    BY <1>5, Kinds DEF ServerEnds, Values
  <2>3. OneAtATime' /\ ReadInv' /\ GoalInv'
    BY <1>5 DEF ServerEnds, OneAtATime, ReadInv, GoalInv, Handling
  <2>4. AnswerInv'
    BY <1>5 DEF ServerEnds, AnswerInv, Handling
  <2>5. LoginInv'
    BY <1>5 DEF ServerEnds, LoginInv, Quiet, Hidden, Shown
  <2>6. SessionAfterAnswer' /\ ListingWasReceived'
    BY <1>5 DEF ServerEnds, SessionAfterAnswer, ListingWasReceived
  <2> QED BY <2>1, <2>2, <2>3, <2>4, <2>5, <2>6
<1> QED BY <1>1, <1>2, <1>3, <1>4, <1>5 DEF Server

(* thr_f2, which does not run while nothing but the default has come. *)
LEMMA QuietNoF2 ==
  ASSUME IInv, f2 # "off"
  PROVE  ~Quiet
<1>1. Ok \in received /\ Ok # Default
  BY MessagesDiffer, Kinds DEF IInv, SessionAfterAnswer
<1> QED BY <1>1 DEF Quiet

LEMMA F2Keeps ==
  ASSUME IInv, thr_f2
  PROVE  IInv'
<1> USE DEF IInv, locals, chat, network
<1>1. CASE F2Parses
  <2>1. Places'
    BY <1>1 DEF F2Parses, F2Goes, Places
  <2>2. Values'
    BY <1>1, ParsesWhatWasReceived, Kinds DEF F2Parses, F2Goes, Values, Initchat
  <2>3. OneAtATime' /\ ReadInv' /\ GoalInv'
    BY <1>1 DEF F2Parses, F2Goes, OneAtATime, ReadInv, GoalInv, Handling
  <2>4. AnswerInv'
    BY <1>1, ParsesWhatWasReceived DEF F2Parses, F2Goes, AnswerInv, Handling, Initchat
  <2>5. LoginInv'
    <3>1. ~Quiet /\ received' = received
      BY <1>1, QuietNoF2 DEF F2Parses, F2Goes
    <3> QED BY <3>1 DEF LoginInv, Quiet
  <2>6. SessionAfterAnswer' /\ ListingWasReceived'
    BY <1>1 DEF F2Parses, F2Goes, SessionAfterAnswer, ListingWasReceived
  <2> QED BY <2>1, <2>2, <2>3, <2>4, <2>5, <2>6
<1>2. CASE F2Tests
  <2>1. Places'
    BY <1>2 DEF F2Tests, F2Goes, Places
  <2>2. Values'
    BY <1>2 DEF F2Tests, F2Goes, Values
  <2>3. OneAtATime' /\ ReadInv' /\ GoalInv'
    BY <1>2 DEF F2Tests, F2Goes, OneAtATime, ReadInv, GoalInv, Handling
  <2>4. AnswerInv'
    BY <1>2 DEF F2Tests, F2Goes, AnswerInv, Handling
  <2>5. LoginInv'
    <3>1. ~Quiet /\ received' = received
      BY <1>2, QuietNoF2 DEF F2Tests, F2Goes
    <3> QED BY <3>1 DEF LoginInv, Quiet
  <2>6. SessionAfterAnswer' /\ ListingWasReceived'
    BY <1>2 DEF F2Tests, F2Goes, SessionAfterAnswer, ListingWasReceived
  <2> QED BY <2>1, <2>2, <2>3, <2>4, <2>5, <2>6
<1>3. CASE F2Selects
  <2>1. Places'
    BY <1>3 DEF F2Selects, F2Goes, Places
  <2>2. Values'
    BY <1>3 DEF F2Selects, F2Goes, Values
  <2>3. OneAtATime' /\ ReadInv' /\ GoalInv'
    BY <1>3 DEF F2Selects, F2Goes, OneAtATime, ReadInv, GoalInv, Handling
  <2>4. AnswerInv'
    BY <1>3 DEF F2Selects, F2Goes, AnswerInv, Handling
  <2>5. LoginInv'
    <3>1. ~Quiet /\ received' = received
      BY <1>3, QuietNoF2 DEF F2Selects, F2Goes
    <3> QED BY <3>1 DEF LoginInv, Quiet
  <2>6. SessionAfterAnswer' /\ ListingWasReceived'
    BY <1>3 DEF F2Selects, F2Goes, SessionAfterAnswer, ListingWasReceived
  <2> QED BY <2>1, <2>2, <2>3, <2>4, <2>5, <2>6
<1>4. CASE F2Shows
  <2>1. Places'
    BY <1>4 DEF F2Shows, F2Goes, Places
  <2>2. Values'
    BY <1>4 DEF F2Shows, F2Goes, Values
  <2>3. OneAtATime' /\ ReadInv' /\ GoalInv'
    BY <1>4 DEF F2Shows, F2Goes, OneAtATime, ReadInv, GoalInv, Handling
  <2>4. AnswerInv'
    BY <1>4 DEF F2Shows, F2Goes, AnswerInv, Handling
  <2>5. LoginInv'
    <3>1. ~Quiet /\ received' = received
      BY <1>4, QuietNoF2 DEF F2Shows, F2Goes
    <3> QED BY <3>1 DEF LoginInv, Quiet
  <2>6. SessionAfterAnswer' /\ ListingWasReceived'
    BY <1>4 DEF F2Shows, F2Goes, SessionAfterAnswer, ListingWasReceived
  <2> QED BY <2>1, <2>2, <2>3, <2>4, <2>5, <2>6
<1>5. CASE F2Clears
  <2>1. Places'
    BY <1>5 DEF F2Clears, F2Goes, Places
  <2>2. Values'
    BY <1>5 DEF F2Clears, F2Goes, Values
  <2>3. OneAtATime' /\ ReadInv' /\ GoalInv'
    BY <1>5 DEF F2Clears, F2Goes, OneAtATime, ReadInv, GoalInv, Handling
  <2>4. AnswerInv'
    BY <1>5 DEF F2Clears, F2Goes, AnswerInv, Handling
  <2>5. LoginInv'
    <3>1. ~Quiet /\ received' = received
      BY <1>5, QuietNoF2 DEF F2Clears, F2Goes
    <3> QED BY <3>1 DEF LoginInv, Quiet
  <2>6. SessionAfterAnswer' /\ ListingWasReceived'
    BY <1>5 DEF F2Clears, F2Goes, SessionAfterAnswer, ListingWasReceived
  <2> QED BY <2>1, <2>2, <2>3, <2>4, <2>5, <2>6
<1> QED BY <1>1, <1>2, <1>3, <1>4, <1>5 DEF thr_f2

(* The strengthened invariant is inductive, and holds in every reachable   *)
(* state: for all users, and any number of commands and stray answers.     *)
THEOREM Inductive == Spec => []IInv
<1>1. ASSUME IInv, [Next]_vars PROVE IInv'
  <2>1. CASE Starts \/ Chooses
    BY <1>1, <2>1, UserKeeps
  <2>2. CASE Menu
    BY <1>1, <2>2, MenuKeeps
  <2>3. CASE Polls
    BY <1>1, <2>3, PollsKeep
  <2>4. CASE Server
    BY <1>1, <2>4, ServerKeeps
  <2>5. CASE thr_f2
    BY <1>1, <2>5, F2Keeps
  <2>6. CASE UNCHANGED vars
    <3> USE <1>1, <2>6 DEF IInv, vars, locals, chat, network
    <3>1. Places'
      BY DEF Places
    <3>2. Values'
      BY DEF Values
    <3>3. OneAtATime' /\ ReadInv' /\ GoalInv' /\ AnswerInv'
      BY DEF OneAtATime, ReadInv, GoalInv, AnswerInv
    <3>4. LoginInv' /\ SessionAfterAnswer' /\ ListingWasReceived'
      BY DEF LoginInv, Quiet, Hidden, Shown, SessionAfterAnswer, ListingWasReceived
    <3> QED BY <3>1, <3>2, <3>3, <3>4
  <2> QED BY <1>1, <2>1, <2>2, <2>3, <2>4, <2>5, <2>6 DEF Next
<1> QED BY <1>1, InitIInv, PTL DEF Spec

(* Every buffer and local of the client keeps to its type. *)
THEOREM TypeCorrect == Spec => []TypeOK
<1>1. IInv => TypeOK
  BY DEF IInv, Places, Values, TypeOK
<1> QED BY <1>1, Inductive, PTL

(* The client never has a second request under way, whatever main writes to *)
(* sendbuf and msgse_flag while thr_fn runs.                               *)
THEOREM OneRequest == Spec => []OneAtATime
<1>1. IInv => OneAtATime
  BY DEF IInv
<1> QED BY <1>1, Inductive, PTL

(* thr_f2 runs only after the answer to the login has been read. *)
THEOREM SessionNeedsAnswer == Spec => []SessionAfterAnswer
<1>1. IInv => SessionAfterAnswer
  BY DEF IInv
<1> QED BY <1>1, Inductive, PTL

(* The table of names is filled only after a listing has come, and from    *)
(* what the server has sent, wherever thr_f2 parses between main's test of *)
(* chatclient and its copy.                                                *)
THEOREM NamesNeedListing == Spec => []ListingWasReceived
<1>1. IInv => ListingWasReceived
  BY DEF IInv
<1> QED BY <1>1, Inductive, PTL

(* Until something but the default has been read, thr_fn never waits for   *)
(* an answer to nothing while the server lives.                            *)
THEOREM LoginAsks == Spec => []LoginKeepsAsking
<1>1. IInv => LoginKeepsAsking
  BY DEF IInv, LoginInv, Quiet, LoginKeepsAsking
<1> QED BY <1>1, Inductive, PTL
=============================================================================
