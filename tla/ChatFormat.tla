------------------------------ MODULE ChatFormat ------------------------------
(***************************************************************************)
(* The text of a chat message, "$@" valid command "$" sender "$" receiver  *)
(* "$" text "$@$": writeDataBuffer composes it and processData takes it    *)
(* apart (processdata.c of the server; the client has the same two).       *)
(*                                                                         *)
(* Strings are sequences of character codes.  The specification at the end *)
(* carries one message from writer to reader: the reader may look at it    *)
(* while it is written, and TCP may deliver it together with the next.     *)
(***************************************************************************)
EXTENDS Integers, Sequences, FiniteSets

CONSTANTS
  Chars,     \* characters of names and texts
  MaxLen,    \* bound: characters of a field
  Commands   \* commands that are sent

Dollar == 36
At     == 64
Zero   == 48

ASSUME ChatFormatAssumption ==
  Chars \subseteq Nat /\ MaxLen \in Nat /\ Commands \subseteq 0 .. 9

Initchat == [chat_valid |-> 0, chat_command |-> 0,
             chat_sendName |-> <<>>, chat_receiveName |-> <<>>, chat_message |-> <<>>]

(* The code's msg[i] is msg[i + 1] here. *)
HeadOnly(msg) == Len(msg) >= 3 /\ msg[1] = Dollar /\ msg[2] = At   \* faulty: trusts the end
Framed(msg) ==
  /\ Len(msg) >= 3 /\ msg[1] = Dollar /\ msg[2] = At
  /\ msg[Len(msg) - 1] = At /\ msg[Len(msg)] = Dollar

(* The "$" that end a field: the code looks at indices 3 to chatlen - 3.   *)
EndsButLast(msg) == {i \in 4 .. Len(msg) - 3 : msg[i] = Dollar}     \* faulty: one index short
Ends(msg) == {i \in 4 .. Len(msg) - 2 : msg[i] = Dollar}
End(msg, k) == CHOOSE i \in Ends(msg) : Cardinality({j \in Ends(msg) : j <= i}) = k

(* The text between the k-th "$" and the one before; none if there is none. *)
Field(msg, k) ==
  IF k > Cardinality(Ends(msg)) THEN <<>> ELSE SubSeq(msg, End(msg, k - 1) + 1, End(msg, k) - 1)

processData(msg) ==
  IF ~Framed(msg) \/ msg[3] = Zero THEN Initchat
  ELSE [chat_valid |-> msg[3] - Zero,
        chat_command |-> IF Ends(msg) = {} THEN 0 ELSE msg[End(msg, 1) - 1] - Zero,
        chat_sendName |-> Field(msg, 2), chat_receiveName |-> Field(msg, 3),
        chat_message |-> Field(msg, 4)]

writeDataBuffer(c) ==
  <<Dollar, At, c.chat_valid + Zero, c.chat_command + Zero, Dollar>>
    \o c.chat_sendName \o <<Dollar>> \o c.chat_receiveName \o <<Dollar>>
    \o c.chat_message \o <<Dollar, At, Dollar>>

-----------------------------------------------------------------------------
Texts == UNION {[1 .. n -> Chars] : n \in 0 .. MaxLen}
Chats == [chat_valid : {0, 1}, chat_command : Commands,
          chat_sendName : Texts, chat_receiveName : Texts, chat_message : Texts]

NormalSend == <<Dollar, At, Zero, Zero, Dollar, Dollar, Dollar, At, Dollar>>   \* "$@00$$$@$"

VARIABLES
  chat,      \* the message
  arrival,   \* how its text reaches the reader
  wire,      \* the text
  got        \* what the reader makes of it; "unread" before

Init == chat \in Chats /\ arrival = "none" /\ wire = <<>> /\ got = [chat_valid |-> -1]

(* Whole; or as far as it has been written, or sent; or followed by the    *)
(* next message of the same sender, which a byte stream does not separate. *)
Arrives ==
  /\ arrival = "none"
  /\ LET text == writeDataBuffer(chat) IN
       \/ arrival' = "whole" /\ wire' = text
       \/ arrival' = "torn" /\ \E n \in 0 .. Len(text) - 1 : wire' = SubSeq(text, 1, n)
       \/ arrival' = "joined" /\ wire' = text \o NormalSend
  /\ UNCHANGED <<chat, got>>

Parses == arrival # "none" /\ got.chat_valid = -1 /\ got' = processData(wire) /\ UNCHANGED <<chat, arrival, wire>>

Next == Arrives \/ Parses
Spec == Init /\ [][Next]_<<chat, arrival, wire, got>>
-----------------------------------------------------------------------------
Read == got.chat_valid # -1
HasNo(ch, text) == \A i \in DOMAIN text : text[i] # ch
UpToDollar(text) ==
  IF HasNo(Dollar, text) THEN text
  ELSE SubSeq(text, 1, (CHOOSE i \in DOMAIN text : text[i] = Dollar /\ HasNo(Dollar, SubSeq(text, 1, i - 1))) - 1)
NamesPlain == HasNo(Dollar, chat.chat_sendName) /\ HasNo(Dollar, chat.chat_receiveName)
Understood == [chat EXCEPT !.chat_message = UpToDollar(@)]

(* processData returns what writeDataBuffer was given, for names without   *)
(* "$"; of a text with a "$" it returns the part before it; a message that *)
(* is not valid, as the default one, is empty.                             *)
RoundTrip ==
  Read /\ arrival = "whole" =>
    got = IF chat.chat_valid = 0 THEN Initchat
          ELSE IF NamesPlain THEN Understood ELSE [got EXCEPT !.chat_valid = 1]

(* A text of which only a part is there is no message at all, unless a     *)
(* field holds the "@$" that ends one: this is what lets the threads of    *)
(* server and client read a buffer that is being written.                  *)
TornIsIgnored ==
  Read /\ arrival = "torn"
    /\ (\A i \in 1 .. Len(writeDataBuffer(chat)) - 2 :
          SubSeq(writeDataBuffer(chat), i, i + 1) # <<At, Dollar>>) => got = Initchat

(* Of two messages in one read the first is understood, the second lost;   *)
(* the first is understood as it would have been alone.                    *)
FirstOfJoined ==
  Read /\ arrival = "joined" => got = processData(writeDataBuffer(chat))
=============================================================================
