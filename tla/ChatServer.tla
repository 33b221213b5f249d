------------------------------ MODULE ChatServer ------------------------------
(***************************************************************************)
(* The chat server (server/main.c): main's select loop reads one request   *)
(* of a client, leaves it in readbuf_msg and answers at once with what     *)
(* sendbuf_msg holds for that client, or with a default; thr_fn parses     *)
(* readbuf_msg over and over, obeys what it finds and leaves the answer in *)
(* sendbuf_msg.  The two threads share both buffers, msg_status,           *)
(* flag_set_all, sockfdarrar and the list of clients without any lock, so  *)
(* each access to one of them is a step; a walk of the list is one step,   *)
(* what is done later with the node it found is another.                   *)
(*                                                                         *)
(* A message is its command and the one name its handling depends on; the  *)
(* text of it is left to ChatFormat.                                       *)
(***************************************************************************)
EXTENDS Integers, Sequences, FiniteSets, Functions

CONSTANTS
  Fds,          \* descriptors accept can return
  Names,        \* names of users
  User,         \* the user whose client has a descriptor: a client keeps one name
  Admin,        \* the name "admin": a message to everybody
  Registered,   \* names in the table Register to begin with
  FD_SETSIZE,   \* slots of client[]
  FlashLen,     \* entries of sockfdarrar, 20
  MaxRequests,  \* bound: requests other than default ones
  MaxClients,   \* bound: connections accepted
  NoName        \* an empty string

ASSUME ChatServerAssumption ==
  /\ Fds \subseteq Nat \ {0} /\ IsFiniteSet(Fds)
  /\ User \in [Fds -> Names] /\ Registered \subseteq Names /\ Admin \notin Names /\ NoName \notin Names \cup {Admin}
  /\ FD_SETSIZE \in Nat \ {0} /\ FlashLen \in Nat \ {0} /\ MaxRequests \in Nat /\ MaxClients \in Nat

Freed == -2      \* a pointer to a node that has been freed
Null  == -1      \* no node; also the number -1 the code uses for no descriptor

Message(c, n) == [cmd |-> c, name |-> n]
Nothing == Message("nothing", NoName)    \* a buffer that is all zero
Torn    == Message("torn", NoName)       \* a string of which a part has been written
Default == Message("default", NoName)    \* normalsenddata: "$@00$$$@$", valid is 0
RequestsOf(user) ==
  {Message("LOGIN", user), Message("REGISTER", user), Message("LOOK", NoName), Message("RESPONSE", NoName)}
    \cup {Message("SEND", n) : n \in Names \cup {Admin, NoName}}
Requests == UNION {RequestsOf(n) : n \in Names}
Unread == {Nothing, Torn, Default}       \* processData finds no valid message
Blank  == Message("EMPTY", NoName)       \* Initchat; also a request erased while parsed

VARIABLES
  peer,                     \* clients: state of each connection
  wire,                     \* requests not yet read
  requests, accepted,       \* how many so far
  client, maxi, maxfd, allset,                           \* main: connections
  main, rset, nready, sockfd, readbuf,                   \* main: round and request
  head,                                                  \* list of clients
  readbuf_msg, sendbuf_msg, msg_status, flag_set_all,    \* shared
  sockfdarrar, all_len,
  thr, ID, p, len, chatreceive, chatsend,                \* thr_fn
  Register,                                              \* the database
  down                                                   \* the process has ended

net    == <<peer, wire, requests, accepted>>
seats  == <<client, maxi, maxfd, allset>>
round  == <<main, rset, nready, sockfd, readbuf>>
mains  == <<net, seats, round>>
bcast  == <<flag_set_all, sockfdarrar, all_len>>
shared == <<readbuf_msg, sendbuf_msg, msg_status, bcast>>
talk   == <<thr, ID, len, chatreceive, chatsend, Register>>
rest   == <<head, shared, talk, p, down>>
vars   == <<mains, rest>>

Slots == 1 .. FD_SETSIZE

Init ==
  /\ peer = [f \in Fds |-> "closed"] /\ requests = 0 /\ accepted = 0
  /\ wire = [f \in Fds |-> Nothing]
  /\ client = [i \in Slots |-> Null] /\ maxi = 0 /\ maxfd = 0 /\ allset = {}
  /\ main = "select" /\ rset = {} /\ nready = 0 /\ sockfd = Null /\ readbuf = Nothing
  /\ head = <<>>
  /\ readbuf_msg = [ID |-> Null, buffer |-> Nothing]
  /\ sendbuf_msg = [ID |-> Null, buffer |-> Nothing]
  /\ msg_status = 0 /\ flag_set_all = 0
  /\ sockfdarrar = [i \in 1 .. FlashLen |-> 0] /\ all_len = 0
  /\ thr = "parse" /\ ID = Null /\ p = Null /\ len = 0
  /\ chatreceive = Blank /\ chatsend = Blank
  /\ Register = Registered /\ down = FALSE

-----------------------------------------------------------------------------
(* The list of clients, msgclient.c. *)

Least(S) == CHOOSE x \in S : \A y \in S : x <= y

Nodes_of(f) == {k \in DOMAIN head : head[k].clientnumber = f}
IsNode(f) == Nodes_of(f) # {}
Find_node(f) == IF IsNode(f) THEN f ELSE Null
Bears(n) == {k \in DOMAIN head : head[k].clientname = n}
find_clientname_node(n) == IF Bears(n) = {} THEN Null ELSE head[Least(Bears(n))].clientnumber
Insert_node(f) == head' = <<[clientnumber |-> f, clientname |-> NoName]>> \o head
Remove_node(f) ==
  /\ LET k == Least(Nodes_of(f)) IN
       head' = [i \in 1 .. Len(head) - 1 |-> head[IF i < k THEN i ELSE i + 1]]
  /\ p' = IF p = f THEN Freed ELSE p     \* thr_fn's pointer dangles
Insertclientname(f, n) ==
  head' = [k \in DOMAIN head |->
             IF head[k].clientnumber = f /\ head[k].clientname = NoName
               THEN [head[k] EXCEPT !.clientname = n] ELSE head[k]]
Flashed == IF Len(head) < FlashLen THEN Len(head) ELSE FlashLen
sock_flash == [i \in 1 .. FlashLen |-> IF i <= Flashed THEN head[i].clientnumber ELSE sockfdarrar[i]]

(* Isockfd: 0-based index of f among the entries in use, which it clears;  *)
(* else 0 while others have not been served, else -1.                      *)
Entries(f) == {i \in 1 .. all_len : sockfdarrar[i] = f}
Isockfd(f) ==
  IF Entries(f) # {} THEN Least(Entries(f)) - 1
  ELSE IF \E i \in 1 .. all_len : sockfdarrar[i] # Null THEN 0 ELSE -1
Cleared(f) == IF Entries(f) = {} THEN sockfdarrar
              ELSE [sockfdarrar EXCEPT ![Least(Entries(f))] = Null]

-----------------------------------------------------------------------------
(* The clients.  A client writes a request, waits for its answer, and only *)
(* then writes the next (client2.c).  One that ends with an answer unread  *)
(* resets its connection.                                                  *)

Says(f) ==
  /\ peer[f] \in {"new", "answered"}
  /\ \/ /\ wire' = [wire EXCEPT ![f] = Default] /\ UNCHANGED requests
     \/ /\ requests < MaxRequests /\ requests' = requests + 1
        /\ \E r \in RequestsOf(User[f]) : wire' = [wire EXCEPT ![f] = r]
  /\ peer' = [peer EXCEPT ![f] = "asked"]
  /\ UNCHANGED <<accepted, seats, round, rest>>

Leaves(f) ==
  /\ peer[f] \in {"new", "asked", "answered"}
  /\ \/ peer' = [peer EXCEPT ![f] = "eof"] /\ UNCHANGED wire
     \/ /\ peer[f] = "answered"
        /\ peer' = [peer EXCEPT ![f] = "reset"]
        /\ wire' = [wire EXCEPT ![f] = Nothing]
  /\ UNCHANGED <<requests, accepted, seats, round, rest>>

-----------------------------------------------------------------------------
(* main. *)

AtMain(pc) == main = pc /\ ~down
Readable(f) == wire[f] # Nothing \/ peer[f] \in {"eof", "reset"}
Ready == {f \in allset : f <= maxfd /\ Readable(f)}
FreeFds == {f \in Fds : peer[f] = "closed" /\ accepted < MaxClients}
FreeSlots == {i \in Slots : client[i] = Null}

MaxiForgotten(i) == maxi                           \* faulty: the new slot is never looked at
MaxiPastSlot(i) == IF i >= maxi THEN i + 1 ELSE maxi          \* faulty: one slot too many
MaxiRaised(i) == IF i > maxi THEN i ELSE maxi

(* select returns; a connection that waits is accepted into the lowest     *)
(* free slot, and with none free the server ends.                          *)
Select ==
  /\ AtMain("select") /\ Ready # {}
  /\ rset' = Ready /\ nready' = Cardinality(Ready) /\ main' = "loop"
  /\ UNCHANGED <<net, seats, sockfd, readbuf, rest>>

SelectAccepts ==
  /\ AtMain("select") /\ FreeFds # {} /\ FreeSlots # {}
  /\ LET connfd == Least(FreeFds)  i == Least(FreeSlots) IN
       /\ peer' = [peer EXCEPT ![connfd] = "new"]
       /\ client' = [client EXCEPT ![i] = connfd]
       /\ allset' = allset \cup {connfd}
       /\ maxfd' = IF connfd > maxfd THEN connfd ELSE maxfd
       /\ maxi' = MaxiRaised(i)
  /\ accepted' = accepted + 1 /\ rset' = Ready /\ nready' = Cardinality(Ready)
  /\ main' = IF Ready = {} THEN "select" ELSE "loop"
  /\ UNCHANGED <<wire, requests, sockfd, readbuf, rest>>

TooManyClients ==
  /\ AtMain("select") /\ FreeFds # {} /\ FreeSlots = {}
  /\ down' = TRUE
  /\ UNCHANGED <<mains, head, shared, talk, p>>

(* The for loop: slots in order until nready descriptors have been served. *)
(* The model takes what was served out of rset, where the code moves i past *)
(* it, and forgets sockfd and readbuf, which the next Read sets.  The loop *)
(* ends only by its break: RoundServesAll and Seated say why i never       *)
(* passes maxi before.                                                     *)
Found == {i \in 1 .. maxi : client[i] \in rset}
Slot  == Least(Found)

ServesAllButOne(f) ==                              \* faulty: a round ends early
  /\ nready' = nready - 1 /\ rset' = rset \ {f} /\ sockfd' = Null /\ readbuf' = Nothing
  /\ main' = IF nready' <= 1 THEN "select" ELSE "loop"
ServesOneMore(f) ==                                \* faulty: a round ends late
  /\ nready' = nready - 1 /\ rset' = rset \ {f} /\ sockfd' = Null /\ readbuf' = Nothing
  /\ main' = IF nready' < 0 THEN "select" ELSE "loop"
Served(f) ==
  /\ nready' = nready - 1 /\ rset' = rset \ {f} /\ sockfd' = Null /\ readbuf' = Nothing
  /\ main' = IF nready' = 0 THEN "select" ELSE "loop"

(* Read returns a request, or -1 after a reset: readbuf is then all zero   *)
(* and handled like a request.                                             *)
Reads ==
  /\ AtMain("loop") /\ Found # {}
  /\ LET f == client[Slot] IN
       /\ wire[f] # Nothing \/ peer[f] = "reset"
       /\ readbuf' = wire[f] /\ wire' = [wire EXCEPT ![f] = Nothing]
       /\ sockfd' = f /\ main' = "ID"
  /\ UNCHANGED <<peer, requests, accepted, seats, rset, nready, rest>>

FD_CLRForgotten(f) == allset                       \* faulty: the descriptor stays in allset
FD_CLR(f) == allset \ {f}

ReadsEof ==
  /\ AtMain("loop") /\ Found # {}
  /\ LET f == client[Slot] IN
       /\ wire[f] = Nothing /\ peer[f] = "eof" /\ IsNode(f)
       /\ Remove_node(f)
       /\ peer' = [peer EXCEPT ![f] = "closed"]
       /\ allset' = FD_CLR(f) /\ client' = [client EXCEPT ![Slot] = Null]
       /\ Served(f)
  /\ UNCHANGED <<wire, requests, accepted, maxi, maxfd, shared, talk, down>>

EofOfNobody ==     \* a client that hangs up before its first request ends the server
  /\ AtMain("loop") /\ Found # {}
  /\ LET f == client[Slot] IN wire[f] = Nothing /\ peer[f] = "eof" /\ ~IsNode(f)
  /\ down' = TRUE
  /\ UNCHANGED <<mains, head, shared, talk, p>>

SetsID ==
  /\ AtMain("ID")
  /\ readbuf_msg' = [readbuf_msg EXCEPT !.ID = sockfd]
  /\ main' = "node"
  /\ UNCHANGED <<net, seats, rset, nready, sockfd, readbuf, head, sendbuf_msg, msg_status, bcast, talk, p, down>>

(* The memory of a new node may be that of a node thr_fn still points to.  *)
KnownNever(f) == FALSE                             \* faulty: does not search the list
Known(f) == IsNode(f)
MakesNode ==
  /\ AtMain("node")
  /\ IF Known(sockfd) THEN UNCHANGED <<head, p>>
     ELSE Insert_node(sockfd) /\ p' \in (IF p = Freed THEN {Freed, sockfd} ELSE {p})
  /\ main' = "Insert"
  /\ UNCHANGED <<net, seats, rset, nready, sockfd, readbuf, shared, talk, down>>

Insert ==          \* ID and memset, then strcpy
  /\ \/ /\ AtMain("Insert") /\ main' = "strcpy"
        /\ readbuf_msg' = [ID |-> sockfd, buffer |-> Nothing]
     \/ /\ AtMain("strcpy") /\ main' = "check"
        /\ readbuf_msg' = [readbuf_msg EXCEPT !.buffer = readbuf]
  /\ UNCHANGED <<net, seats, rset, nready, sockfd, readbuf, head, sendbuf_msg, msg_status, bcast, talk, p, down>>

(* Write to sockfd.  A string of length 0 writes nothing; a connection that *)
(* was reset raises SIGPIPE, which nobody catches.                          *)
AnswersAgain(m) ==                                 \* faulty: goes on after an answer
  /\ peer' = IF peer[sockfd] = "asked" /\ m # Nothing THEN [peer EXCEPT ![sockfd] = "answered"] ELSE peer
  /\ main' = "check"
  /\ UNCHANGED <<nready, rset, sockfd, readbuf, wire, requests, accepted, seats, head, talk, p, down>>
Answers(m) ==
  /\ down' = (peer[sockfd] = "reset" /\ m # Nothing)
  /\ peer' = IF peer[sockfd] = "asked" /\ m # Nothing
               THEN [peer EXCEPT ![sockfd] = "answered"] ELSE peer
  /\ Served(sockfd)
  /\ UNCHANGED <<wire, requests, accepted, seats, head, talk, p>>

Checks ==          \* strlen(sendbuf_msg.buffer) != 0
  /\ AtMain("check")
  /\ \/ sendbuf_msg.buffer = Nothing /\ Answers(Default)
     \/ /\ sendbuf_msg.buffer # Nothing /\ main' = "route"
        /\ UNCHANGED <<net, rset, nready, seats, sockfd, readbuf, head, talk, p, down>>
  /\ UNCHANGED shared

Routes ==          \* flag_set_all == 0: is it for this client?
  /\ AtMain("route") /\ flag_set_all = 0
  /\ \/ sendbuf_msg.ID # sockfd /\ Answers(Default)
     \/ /\ sendbuf_msg.ID = sockfd /\ main' = "write"
        /\ UNCHANGED <<net, rset, nready, seats, sockfd, readbuf, head, talk, p, down>>
  /\ UNCHANGED shared

RoutesToAll ==     \* flag_set_all == 1
  /\ AtMain("route") /\ flag_set_all = 1
  /\ sockfdarrar' = Cleared(sockfd)
  /\ \/ /\ Isockfd(sockfd) > 0 /\ main' = "write all"
        /\ UNCHANGED <<net, rset, nready, seats, sockfd, readbuf, head, talk, p, down, flag_set_all, msg_status>>
     \/ Isockfd(sockfd) = 0 /\ Answers(Default) /\ UNCHANGED <<flag_set_all, msg_status>>
     \/ Isockfd(sockfd) < 0 /\ Answers(Default) /\ flag_set_all' = 0 /\ msg_status' = 1
  /\ UNCHANGED <<readbuf_msg, sendbuf_msg, all_len>>

(* The buffer is read again when it is sent. *)
Writes ==
  /\ \/ AtMain("write") /\ msg_status' = 1
     \/ AtMain("write all") /\ UNCHANGED msg_status
  /\ Answers(sendbuf_msg.buffer)
  /\ UNCHANGED <<readbuf_msg, sendbuf_msg, bcast>>

Serves ==
  \/ Select \/ Reads \/ ReadsEof \/ EofOfNobody
  \/ SetsID \/ MakesNode \/ Insert \/ Checks \/ Routes \/ RoutesToAll \/ Writes

Main == SelectAccepts \/ TooManyClients \/ Serves

-----------------------------------------------------------------------------
(* thr_fn. *)

At(pc) == thr = pc /\ ~down
Message_in == chatreceive.cmd

(* processData decides from the ends of the string, then takes its fields; *)
(* a string that is overwritten in between yields fields of the new one,   *)
(* or none.                                                                *)
ProcessData ==
  /\ \/ /\ At("parse") /\ chatreceive' = Blank
        /\ thr' = IF readbuf_msg.buffer \in Unread THEN "status" ELSE "fields"
     \/ /\ At("fields") /\ thr' = "command"
        /\ chatreceive' = IF readbuf_msg.buffer \in Unread THEN Blank ELSE readbuf_msg.buffer
  /\ UNCHANGED <<mains, head, shared, ID, len, chatsend, Register, p, down>>

(* processLogin and processRegister: the database, with the ID of the      *)
(* moment; then the client's node; then its name.                          *)
LoginAlways(n) == TRUE                             \* faulty: ignores what SearchRegiseSql returns
SearchRegiseSql(n) == n \in Register
InsertRegiseSql(n) == Register' = Register \cup {n}

processLogin ==
  /\ At("command") /\ Message_in = "LOGIN"
  /\ ID' = readbuf_msg.ID
  /\ \/ SearchRegiseSql(chatreceive.name) /\ thr' = "find" /\ UNCHANGED down
     \/ thr' = "answer" /\ UNCHANGED down       \* no such name, or another password
     \/ down' = TRUE /\ UNCHANGED thr           \* the query fails: exit(1)
  /\ UNCHANGED <<mains, head, shared, len, chatreceive, chatsend, Register, p>>

processRegister ==
  /\ At("command") /\ Message_in = "REGISTER"
  /\ ID' = readbuf_msg.ID
  /\ \/ /\ InsertRegiseSql(chatreceive.name) /\ thr' = "find"
        /\ UNCHANGED down
     \/ down' = TRUE /\ UNCHANGED <<Register, thr>>      \* the insertion fails: exit(1)
  /\ UNCHANGED <<mains, head, shared, len, chatreceive, chatsend, p>>

FindsNode ==
  /\ At("find")
  /\ p' = Find_node(ID) /\ down' = ~IsNode(ID)           \* NULL: exit(1)
  /\ thr' = "name"
  /\ UNCHANGED <<mains, head, shared, ID, len, chatreceive, chatsend, Register>>

NamesNode ==       \* a node freed meanwhile: undefined, the process may end
  /\ At("name")
  /\ IF p = Freed THEN UNCHANGED head /\ down' \in BOOLEAN
     ELSE Insertclientname(p, chatreceive.name) /\ UNCHANGED down
  /\ p' = Null /\ thr' = "answer"
  /\ UNCHANGED <<mains, shared, ID, len, chatreceive, chatsend, Register>>

AnswersOk ==       \* whatever the database said
  /\ At("answer") /\ thr' = "emit"
  /\ chatsend' = Message("ANSEWER", NoName)
  /\ sendbuf_msg' = [sendbuf_msg EXCEPT !.ID = readbuf_msg.ID]
  /\ ID' = Null
  /\ UNCHANGED <<mains, head, readbuf_msg, msg_status, bcast, len, chatreceive, Register, p, down>>

processLook ==
  /\ At("command") /\ Message_in = "LOOK" /\ thr' = "emit"
  /\ chatsend' = chatreceive
  /\ sendbuf_msg' = [sendbuf_msg EXCEPT !.ID = readbuf_msg.ID]
  /\ UNCHANGED <<mains, head, readbuf_msg, msg_status, bcast, ID, len, chatreceive, Register, p, down>>

processSEND ==
  /\ At("command") /\ Message_in = "SEND"
  /\ chatsend' = chatreceive
  /\ thr' = IF chatreceive.name = Admin THEN "flash" ELSE "lookup"
  /\ UNCHANGED <<mains, head, shared, ID, len, chatreceive, Register, p, down>>

(* To everybody: sock_flash, then its length, then the flag. *)
Flashes ==
  /\ At("flash") /\ thr' = "all"
  /\ sockfdarrar' = sock_flash /\ len' = Flashed
  /\ UNCHANGED <<mains, head, readbuf_msg, sendbuf_msg, msg_status, flag_set_all, all_len, ID, chatreceive, chatsend, Register, p, down>>

SetsAll ==
  /\ At("all") /\ thr' = "emit"
  /\ all_len' = len /\ len' = 0 /\ flag_set_all' = 1
  /\ UNCHANGED <<mains, head, readbuf_msg, sendbuf_msg, msg_status, sockfdarrar, ID, chatreceive, chatsend, Register, p, down>>

(* To one: its descriptor, then its node again; with none the process ends. *)
LooksUp ==
  /\ At("lookup") /\ thr' = "record"
  /\ sendbuf_msg' = [sendbuf_msg EXCEPT !.ID = find_clientname_node(chatreceive.name)]
  /\ UNCHANGED <<mains, head, readbuf_msg, msg_status, bcast, ID, len, chatreceive, chatsend, Register, p, down>>

Records ==
  /\ At("record") /\ thr' = "emit"
  /\ down' = ~IsNode(sendbuf_msg.ID)
  /\ UNCHANGED <<mains, head, shared, ID, len, chatreceive, chatsend, Register, p>>

(* A command that was erased falls through to the last answer once more.   *)
OtherCommand ==
  /\ At("command") /\ Message_in = "EMPTY" /\ thr' = "emit"
  /\ UNCHANGED <<mains, head, shared, ID, len, chatreceive, chatsend, Register, p, down>>

processResponse ==
  /\ At("command") /\ Message_in = "RESPONSE" /\ thr' = "clear"
  /\ sendbuf_msg' = [sendbuf_msg EXCEPT !.buffer = Nothing]
  /\ UNCHANGED <<mains, head, readbuf_msg, msg_status, bcast, ID, len, chatreceive, chatsend, Register, p, down>>

writeDataBuffer ==     \* memset and the first strings, then the whole
  /\ \/ /\ At("emit") /\ thr' = "emitted"
        /\ \E part \in {Nothing, Torn} : sendbuf_msg' = [sendbuf_msg EXCEPT !.buffer = part]
     \/ /\ At("emitted") /\ thr' = "clear"
        /\ sendbuf_msg' = [sendbuf_msg EXCEPT !.buffer = chatsend]
  /\ UNCHANGED <<mains, head, readbuf_msg, msg_status, bcast, ID, len, chatreceive, chatsend, Register, p, down>>

ClearsRequest ==       \* with it a request that main has inserted meanwhile
  /\ At("clear") /\ thr' = "status"
  /\ readbuf_msg' = [readbuf_msg EXCEPT !.buffer = Nothing]
  /\ UNCHANGED <<mains, head, sendbuf_msg, msg_status, bcast, ID, len, chatreceive, chatsend, Register, p, down>>

ClearsAnswer ==        \* msg_status == 1: something has been sent
  /\ \/ /\ At("status")
        /\ IF msg_status = 1
             THEN thr' = "reset" /\ sendbuf_msg' = [sendbuf_msg EXCEPT !.buffer = Nothing]
             ELSE thr' = "parse" /\ UNCHANGED sendbuf_msg
        /\ UNCHANGED msg_status
     \/ At("reset") /\ thr' = "parse" /\ msg_status' = 0 /\ UNCHANGED sendbuf_msg
  /\ UNCHANGED <<mains, head, readbuf_msg, bcast, ID, len, chatreceive, chatsend, Register, p, down>>

thr_fn ==
  \/ ProcessData \/ processLogin \/ processRegister \/ FindsNode \/ NamesNode \/ AnswersOk
  \/ processLook \/ processSEND \/ Flashes \/ SetsAll \/ LooksUp \/ Records
  \/ OtherCommand \/ processResponse \/ writeDataBuffer \/ ClearsRequest \/ ClearsAnswer

Next ==
  \/ \E f \in Fds : Says(f) \/ Leaves(f)
  \/ Main \/ thr_fn

Spec == Init /\ [][Next]_vars

(* Neither thread ever waits for the other.  Clients owe the server        *)
(* nothing: none need connect, speak or leave.                             *)
FairSpec == Spec /\ WF_vars(Serves)

(* A client keeps polling once a second for as long as it runs.            *)
PollingSpec == FairSpec /\ WF_vars(thr_fn) /\ \A f \in Fds : WF_vars(Says(f))
-----------------------------------------------------------------------------
Buffers == Requests \cup Unread \cup {Blank, Message("ANSEWER", NoName)}

(* Every field and local keeps to its type. *)
TypeOK ==
  /\ peer \in [Fds -> {"closed", "new", "asked", "answered", "eof", "reset"}]
  /\ wire \in [Fds -> Requests \cup {Nothing, Default}]
  /\ requests \in 0 .. MaxRequests /\ accepted \in 0 .. MaxClients
  /\ client \in [Slots -> Fds \cup {Null}] /\ maxi \in 0 .. FD_SETSIZE
  /\ maxfd \in Fds \cup {0} /\ allset \subseteq Fds
  /\ main \in {"select", "loop", "ID", "node", "Insert", "strcpy", "check", "route", "write", "write all"}
  /\ rset \subseteq Fds /\ nready \in Int /\ sockfd \in Fds \cup {Null}
  /\ readbuf \in Requests \cup {Nothing, Default}
  /\ head \in Seq([clientnumber : Fds, clientname : Names \cup {NoName}])
  /\ readbuf_msg \in [ID : Fds \cup {Null}, buffer : Requests \cup {Nothing, Default}]
  /\ sendbuf_msg \in [ID : Fds \cup {Null}, buffer : Buffers]
  /\ msg_status \in {0, 1} /\ flag_set_all \in {0, 1}
  /\ sockfdarrar \in [1 .. FlashLen -> Fds \cup {0, Null}]
  /\ all_len \in 0 .. FlashLen /\ len \in 0 .. FlashLen
  /\ thr \in {"parse", "fields", "command", "find", "name", "answer", "flash", "all", "lookup",
              "record", "emit", "emitted", "clear", "status", "reset"}
  /\ ID \in Fds \cup {Null} /\ p \in Fds \cup {Null, Freed}
  /\ chatreceive \in Requests \cup {Blank} /\ chatsend \in Buffers
  /\ Register \subseteq Names /\ down \in BOOLEAN

(* The connections main serves: each open descriptor is in allset and in   *)
(* one slot of client[], within maxi and maxfd, so that select and the     *)
(* for loop reach it whatever has been closed and reused.                  *)
Seated ==
  /\ allset = {f \in Fds : peer[f] # "closed"}
  /\ \A f \in allset : f <= maxfd /\ \E i \in 1 .. maxi : client[i] = f
  /\ \A i, j \in Slots : client[i] # Null => client[i] \in allset /\ (client[i] = client[j] => i = j)

(* The list of clients has one node for a connection, none for one that    *)
(* has been closed, and one for whoever is being answered.                 *)
ListSound ==
  /\ \A j, k \in DOMAIN head : head[j].clientnumber = head[k].clientnumber => j = k
  /\ \A k \in DOMAIN head : head[k].clientnumber \in allset
  /\ main \in {"Insert", "strcpy", "check", "route", "write", "write all"} => IsNode(sockfd)

(* Nobody is on the list under a name the database does not hold, whatever *)
(* becomes of the buffers between the lookup and the naming.               *)
NamesRegistered == \A k \in DOMAIN head : head[k].clientname \in Register \cup {NoName}

(* main goes back to select only when every descriptor select reported has *)
(* been served, although it stops counting slots when nready is used up.   *)
RoundServesAll == [][main' = "select" /\ main # "select" => rset' = {}]_vars

(* One answer for a request, at most: the server never writes to a client  *)
(* that waits for none.                                                    *)
WritesOnlyToAsking ==
  main \in {"ID", "node", "Insert", "strcpy", "check", "route", "write", "write all"}
    => wire[sockfd] = Nothing /\ peer[sockfd] \in {"asked", "eof", "reset"}

(* main never waits for one client while others wait for it: the for loop  *)
(* finds the descriptors it still owes a turn within maxi, and what select *)
(* saw of each is still there to be read.                                  *)
ReadsNeverBlock == main = "loop" => Found # {} /\ Readable(client[Slot])

(* What a client has sent is read, while the server runs, whatever the     *)
(* other clients do.                                                       *)
RequestIsRead == \A f \in Fds : wire[f] # Nothing ~> (wire[f] = Nothing \/ down)

(* A client that has sent a request gets some answer, while the server     *)
(* runs.                                                                   *)
RequestIsAnswered == \A f \in Fds : peer[f] = "asked" ~> (peer[f] # "asked" \/ down)

(* The name on a client's node is its own user's.                          *)
NamedByItself ==
  \A k \in DOMAIN head : head[k].clientname \in {User[head[k].clientnumber], NoName}

(* A broadcast's entry is crossed out only for a client that is then sent  *)
(* the message.                                                            *)
CrossedOutIsSent ==
  [][\A i \in 1 .. FlashLen :
       sockfdarrar[i] \in Fds /\ sockfdarrar'[i] = Null => main' = "write all"]_vars
=============================================================================
