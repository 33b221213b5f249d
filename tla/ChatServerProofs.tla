--------------------------- MODULE ChatServerProofs ---------------------------
(***************************************************************************)
(* Safety of the chat server: each invariant the run checks and            *)
(* RoundServesAll, for every choice of the constants.  The invariant is in *)
(* two halves.  What main keeps of its connections and of the round only   *)
(* the clients and main can change, whatever thr_fn does; the list and the *)
(* shared buffers both threads change.                                     *)
(***************************************************************************)
EXTENDS ChatServer, QueueLemmas

Serving == {"ID", "node", "Insert", "strcpy", "check", "route", "write", "write all"}

-----------------------------------------------------------------------------
(* TypeOK in parts: the network, main, and what thr_fn shares or owns.     *)
NetType ==
  /\ peer \in [Fds -> {"closed", "new", "asked", "answered", "eof", "reset"}]
  /\ wire \in [Fds -> Requests \cup {Nothing, Default}]
  /\ requests \in 0 .. MaxRequests /\ accepted \in 0 .. MaxClients
SeatsType ==
  /\ client \in [Slots -> Fds \cup {Null}] /\ maxi \in 0 .. FD_SETSIZE
  /\ maxfd \in Fds \cup {0} /\ allset \subseteq Fds
RoundType ==
  /\ main \in {"select", "loop"} \cup Serving
  /\ rset \subseteq Fds /\ nready \in Int /\ sockfd \in Fds \cup {Null}
  /\ readbuf \in Requests \cup {Nothing, Default}
Nodes == [clientnumber : Fds, clientname : Names \cup {NoName}]
SharedType ==
  /\ readbuf_msg \in [ID : Fds \cup {Null}, buffer : Requests \cup {Nothing, Default}]
  /\ sendbuf_msg \in [ID : Fds \cup {Null}, buffer : Buffers]
  /\ msg_status \in {0, 1} /\ flag_set_all \in {0, 1}
  /\ sockfdarrar \in [1 .. FlashLen -> Fds \cup {0, Null}]
  /\ all_len \in 0 .. FlashLen /\ len \in 0 .. FlashLen
ThrType ==
  /\ thr \in {"parse", "fields", "command", "find", "name", "answer", "flash", "all", "lookup",
              "record", "emit", "emitted", "clear", "status", "reset"}
  /\ ID \in Fds \cup {Null} /\ p \in Fds \cup {Null, Freed}
  /\ chatreceive \in Requests \cup {Blank} /\ chatsend \in Buffers
  /\ Register \subseteq Names

(* A request that has not been read is that of a client that waits for its *)
(* answer, or has left while it waited.                                    *)
WireAsked == \A f \in Fds : wire[f] # Nothing => peer[f] \in {"asked", "eof"}

(* The descriptors left in rset are open, nready counts them, and each but *)
(* the one main serves has something to be read.                           *)
RoundInv ==
  /\ nready = Cardinality(rset) /\ rset \subseteq allset
  /\ (main = "select") <=> (rset = {})
  /\ main \in Serving => sockfd \in rset
  /\ \A f \in rset : Readable(f) \/ (main \in Serving /\ f = sockfd)

(* Between the database and the naming of the node, the name is registered. *)
NameKnown == thr \in {"find", "name"} => chatreceive.name \in Register

MainInv == NetType /\ SeatsType /\ RoundType /\ Seated /\ WireAsked /\ RoundInv /\ WritesOnlyToAsking
ListInv == head \in Seq(Nodes) /\ ListSound /\ NamesRegistered
IInv    == MainInv /\ ListInv /\ SharedType /\ ThrType /\ NameKnown /\ down \in BOOLEAN

-----------------------------------------------------------------------------
(* The constants and the operators. *)

LEMMA Constant ==
  /\ Fds \subseteq Nat /\ 0 \notin Fds /\ IsFiniteSet(Fds) /\ Null \notin Fds /\ Freed \notin Fds
  /\ Null # Freed /\ Null \in Int /\ FD_SETSIZE \in Nat \ {0} /\ FlashLen \in Nat \ {0}
  /\ MaxRequests \in Nat /\ MaxClients \in Nat
  /\ User \in [Fds -> Names] /\ Registered \subseteq Names
BY ChatServerAssumption DEF Null, Freed

(* A set of numbers that is not empty has a least element. *)
LEMMA LeastFacts ==
  ASSUME NEW S, S \subseteq Nat, S # {}
  PROVE  Least(S) \in S /\ \A y \in S : Least(S) <= y
BY HasLeast DEF Least

(* What a client says is a request; only SEND names anybody but a user. *)
LEMMA RequestFacts ==
  /\ \A f \in Fds : RequestsOf(User[f]) \subseteq Requests
  /\ \A r \in Requests \cup {Blank} : r.cmd \in {"LOGIN", "REGISTER"} => r.name \in Names
BY Constant DEF Requests, RequestsOf, Message, Blank

-----------------------------------------------------------------------------
(* main's half. *)

LEMMA ReadyFacts ==
  ASSUME SeatsType
  PROVE  /\ Ready \subseteq allset /\ \A f \in Ready : Readable(f)
         /\ IsFiniteSet(Ready) /\ Cardinality(Ready) \in Nat
<1>1. Ready \subseteq allset /\ Ready \subseteq Fds /\ \A f \in Ready : Readable(f)
  BY DEF Ready, SeatsType
<1> QED BY <1>1, Constant, FS_Subset, FS_CardinalityType

(* Once a descriptor is served, nready still counts those that are left,   *)
(* and main goes back to select exactly when there is none.                *)
LEMMA ServedFacts ==
  ASSUME RoundType, nready = Cardinality(rset), NEW f \in rset, Served(f)
  PROVE  /\ rset' = rset \ {f} /\ sockfd' = Null /\ readbuf' = Nothing
         /\ main' \in {"select", "loop"} /\ nready' \in Int
         /\ nready' = Cardinality(rset') /\ ((main' = "select") <=> (rset' = {}))
<1>1. IsFiniteSet(rset) /\ IsFiniteSet(rset \ {f})
  BY Constant, FS_Subset DEF RoundType
<1>2. Cardinality(rset \ {f}) = Cardinality(rset) - 1
  BY <1>1, FS_RemoveElement
<1>3. (Cardinality(rset \ {f}) = 0) <=> (rset \ {f} = {})
  BY <1>1, FS_EmptySet
<1> QED BY <1>2, <1>3 DEF Served, RoundType

LEMMA InitMain == Init => MainInv
<1> SUFFICES ASSUME Init PROVE MainInv
  OBVIOUS
<1> USE Constant DEF Init
<1>1. NetType /\ SeatsType /\ RoundType
  BY DEF NetType, SeatsType, RoundType, Slots
<1>2. Seated
  BY DEF Seated, Slots
<1>3. RoundInv
  BY FS_EmptySet DEF RoundInv, Serving
<1> QED BY <1>1, <1>2, <1>3 DEF MainInv, WireAsked, WritesOnlyToAsking

(* A client speaks, or leaves. *)
LEMMA ClientsKeep ==
  ASSUME MainInv, NEW f \in Fds, Says(f) \/ Leaves(f)
  PROVE  MainInv'
<1> USE DEF MainInv
<1>0. UNCHANGED <<accepted, client, maxi, maxfd, allset, main, rset, nready, sockfd, readbuf>>
  BY DEF Says, Leaves, seats, round
<1>1. /\ peer' \in [Fds -> {"closed", "new", "asked", "answered", "eof", "reset"}]
      /\ wire' \in [Fds -> Requests \cup {Nothing, Default}] /\ requests' \in 0 .. MaxRequests
  BY Constant, RequestFacts DEF Says, Leaves, NetType
<1>2. /\ \A g \in Fds \ {f} : peer'[g] = peer[g] /\ wire'[g] = wire[g]
      /\ peer[f] # "closed" /\ peer'[f] # "closed"
      /\ wire'[f] # Nothing => peer'[f] \in {"asked", "eof"}
      /\ Readable(f) => Readable(f)'
  BY DEF Says, Leaves, NetType, WireAsked, Readable
<1>3. NetType' /\ SeatsType' /\ RoundType'
  BY <1>0, <1>1 DEF NetType, SeatsType, RoundType, Slots
<1>4. Seated'
  BY <1>0, <1>2 DEF Seated, Slots
<1>5. WireAsked'
  BY <1>2 DEF WireAsked
<1>6. WritesOnlyToAsking'
  BY <1>0 DEF WritesOnlyToAsking, Says, Leaves, NetType, RoundInv, RoundType, Serving
<1>7. RoundInv'
  BY <1>0, <1>2 DEF RoundInv, Readable, RoundType
<1> QED BY <1>3, <1>4, <1>5, <1>6, <1>7

(* select reports the descriptors that can be read. *)
LEMMA SelectKeeps ==
  ASSUME MainInv, Select
  PROVE  MainInv'
<1> USE DEF MainInv
<1>1. /\ UNCHANGED <<peer, wire, requests, accepted, client, maxi, maxfd, allset, sockfd, readbuf>>
      /\ rset' = Ready /\ Ready # {} /\ nready' = Cardinality(Ready) /\ main' = "loop"
  BY DEF Select, net, seats
<1>2. NetType' /\ SeatsType' /\ RoundType'
  BY <1>1, ReadyFacts DEF NetType, SeatsType, RoundType, Slots
<1>3. Seated' /\ WireAsked' /\ WritesOnlyToAsking'
  BY <1>1 DEF Seated, Slots, WireAsked, WritesOnlyToAsking
<1>4. RoundInv'
  BY <1>1, ReadyFacts DEF RoundInv, Readable, Serving
<1> QED BY <1>2, <1>3, <1>4

(* A new connection gets the lowest free slot. *)
LEMMA AcceptKeeps ==
  ASSUME MainInv, SelectAccepts
  PROVE  MainInv'
<1> DEFINE c == Least(FreeFds)
           i == Least(FreeSlots)
<1> USE DEF MainInv
<1>1. /\ c \in Fds /\ peer[c] = "closed" /\ accepted < MaxClients
      /\ i \in Slots /\ client[i] = Null
  <2>1. FreeFds # {} /\ FreeSlots # {}
    BY DEF SelectAccepts
  <2>2. FreeFds \subseteq Nat /\ FreeSlots \subseteq Nat
    <3>1. Slots \subseteq Nat
      BY Constant DEF Slots
    <3> QED BY <3>1, Constant DEF FreeFds, FreeSlots
  <2>3. c \in FreeFds /\ i \in FreeSlots
    BY <2>1, <2>2, LeastFacts
  <2> QED BY <2>3 DEF FreeFds, FreeSlots
<1>2. /\ peer' = [peer EXCEPT ![c] = "new"] /\ client' = [client EXCEPT ![i] = c]
      /\ allset' = allset \cup {c} /\ maxfd' = (IF c > maxfd THEN c ELSE maxfd)
      /\ maxi' = (IF i > maxi THEN i ELSE maxi) /\ accepted' = accepted + 1
      /\ rset' = Ready /\ nready' = Cardinality(Ready)
      /\ main' = (IF Ready = {} THEN "select" ELSE "loop")
      /\ UNCHANGED <<wire, requests, sockfd, readbuf>>
  BY DEF SelectAccepts, MaxiRaised
<1> HIDE DEF c, i
<1>3. NetType'
  BY <1>1, <1>2, Constant DEF NetType
<1>4. SeatsType'
  BY <1>1, <1>2, Constant DEF SeatsType, Slots
<1>5. RoundType'
  BY <1>2, ReadyFacts DEF RoundType, SeatsType
<1>6. Seated'
  <2>1. c \notin allset /\ \A j \in Slots : client[j] # c
    BY <1>1, Constant DEF Seated
  <2>2. allset' = {f \in Fds : peer'[f] # "closed"}
    BY <1>1, <1>2 DEF Seated, NetType
  <2>3. ASSUME NEW f \in allset' PROVE f <= maxfd' /\ \E j \in 1 .. maxi' : client'[j] = f
    <3>1. CASE f = c
      <4>1. f <= maxfd'
        BY <1>1, <1>2, <3>1, Constant DEF SeatsType
      <4>2. i \in 1 .. maxi' /\ client'[i] = f
        BY <1>1, <1>2, <3>1, Constant DEF SeatsType, Slots
      <4> QED BY <4>1, <4>2
    <3>2. CASE f # c
      <4>1. f \in allset /\ f <= maxfd
        BY <1>2, <3>2 DEF Seated
      <4>2. PICK j \in 1 .. maxi : client[j] = f
        BY <4>1 DEF Seated
      <4>3. j \in 1 .. maxi' /\ client'[j] = f
        BY <1>1, <1>2, <4>1, <4>2, Constant DEF SeatsType, Slots
      <4>4. f <= maxfd'
        BY <1>1, <1>2, <4>1, Constant DEF SeatsType
      <4> QED BY <4>3, <4>4
    <3> QED BY <3>1, <3>2
  <2>4. ASSUME NEW j \in Slots, NEW k \in Slots, client'[j] # Null
        PROVE  client'[j] \in allset' /\ (client'[j] = client'[k] => j = k)
    BY <1>1, <1>2, <2>1, <2>4 DEF Seated, SeatsType
  <2> QED BY <2>2, <2>3, <2>4 DEF Seated, Slots
<1>7. WireAsked' /\ WritesOnlyToAsking'
  BY <1>1, <1>2 DEF WireAsked, WritesOnlyToAsking, NetType
<1>8. RoundInv'
  <2>1. \A f \in Ready : Readable(f)'
    BY <1>1, <1>2, ReadyFacts DEF Readable, Seated, NetType, SeatsType
  <2> QED BY <1>2, <2>1, ReadyFacts DEF RoundInv, Serving
<1> QED BY <1>3, <1>4, <1>5, <1>6, <1>7, <1>8

(* The slot the for loop finds next holds a descriptor of rset. *)
LEMMA FoundFacts ==
  ASSUME SeatsType, RoundType, Found # {}
  PROVE  Slot \in 1 .. maxi /\ Slot \in Slots /\ client[Slot] \in rset /\ client[Slot] \in Fds
<1>1. Found \subseteq Nat
  BY Constant DEF Found, SeatsType
<1>2. Slot \in Found
  BY <1>1, LeastFacts DEF Slot
<1> QED BY <1>2, Constant DEF Found, SeatsType, RoundType, Slots

LEMMA ReadsKeeps ==
  ASSUME MainInv, Reads
  PROVE  MainInv'
<1> DEFINE f == client[Slot]
<1> USE DEF MainInv
<1>1. f \in rset /\ f \in Fds /\ (wire[f] # Nothing \/ peer[f] = "reset")
  BY FoundFacts DEF Reads
<1>2. /\ readbuf' = wire[f] /\ wire' = [wire EXCEPT ![f] = Nothing] /\ sockfd' = f
      /\ main = "loop" /\ main' = "ID"
      /\ UNCHANGED <<peer, requests, accepted, client, maxi, maxfd, allset, rset, nready>>
  BY DEF Reads, AtMain, seats
<1> HIDE DEF f
<1>3. NetType' /\ SeatsType' /\ RoundType'
  BY <1>1, <1>2 DEF NetType, SeatsType, RoundType, Slots, Serving
<1>4. Seated'
  BY <1>2 DEF Seated, Slots
<1>5. WireAsked' /\ WritesOnlyToAsking'
  BY <1>1, <1>2 DEF WireAsked, WritesOnlyToAsking, NetType
<1>6. RoundInv'
  BY <1>1, <1>2 DEF RoundInv, Readable, Serving, RoundType, NetType
<1> QED BY <1>3, <1>4, <1>5, <1>6

LEMMA ReadsEofKeeps ==
  ASSUME MainInv, ReadsEof
  PROVE  MainInv'
<1> DEFINE f == client[Slot]
<1> USE DEF MainInv
<1>1. f \in rset /\ f \in Fds /\ Slot \in Slots /\ wire[f] = Nothing
  BY FoundFacts DEF ReadsEof
<1>2. /\ main = "loop" /\ peer' = [peer EXCEPT ![f] = "closed"] /\ allset' = allset \ {f}
      /\ client' = [client EXCEPT ![Slot] = Null]
      /\ Served(f) /\ UNCHANGED <<wire, requests, accepted, maxi, maxfd>>
  BY DEF ReadsEof, FD_CLR, AtMain
<1>3. /\ rset' = rset \ {f} /\ sockfd' = Null /\ readbuf' = Nothing
      /\ main' \in {"select", "loop"} /\ nready' \in Int
      /\ nready' = Cardinality(rset') /\ ((main' = "select") <=> (rset' = {}))
  BY <1>1, <1>2, ServedFacts DEF RoundInv
<1> HIDE DEF f
<1>4. NetType' /\ SeatsType' /\ RoundType'
  BY <1>1, <1>2, <1>3 DEF NetType, SeatsType, RoundType, Slots
<1>5. Seated'
  <2>1. client[Slot] = f /\ f # Null
    BY <1>1, Constant DEF f
  <2>2. \A j \in Slots : j # Slot => client'[j] = client[j] /\ client[j] # f
    BY <1>1, <1>2, <2>1 DEF Seated, SeatsType
  <2>3. client'[Slot] = Null
    BY <1>1, <1>2 DEF SeatsType
  <2>4. allset' = {g \in Fds : peer'[g] # "closed"}
    BY <1>1, <1>2 DEF Seated, NetType
  <2>5. ASSUME NEW g \in allset' PROVE g <= maxfd' /\ \E j \in 1 .. maxi' : client'[j] = g
    <3>1. g \in allset /\ g # f /\ g <= maxfd
      BY <1>2 DEF Seated
    <3>2. PICK j \in 1 .. maxi : client[j] = g
      BY <3>1 DEF Seated
    <3>3. j \in Slots /\ j # Slot
      BY <2>1, <3>1, <3>2, Constant DEF SeatsType, Slots
    <3> QED BY <1>2, <2>2, <3>1, <3>2, <3>3
  <2>6. ASSUME NEW j \in Slots, NEW k \in Slots, client'[j] # Null
        PROVE  client'[j] \in allset' /\ (client'[j] = client'[k] => j = k)
    BY <1>2, <2>2, <2>3, <2>6 DEF Seated
  <2> QED BY <2>4, <2>5, <2>6 DEF Seated, Slots
<1>6. WireAsked' /\ WritesOnlyToAsking'
  BY <1>1, <1>2, <1>3 DEF WireAsked, WritesOnlyToAsking, NetType
<1>7. RoundInv'
  BY <1>1, <1>2, <1>3 DEF RoundInv, Readable, Serving, RoundType, NetType
<1> QED BY <1>3, <1>4, <1>5, <1>6, <1>7

(* main goes on to its next step with the client it serves. *)
LEMMA GoesOn ==
  ASSUME MainInv, main \in Serving, main' \in Serving,
         UNCHANGED <<net, seats, rset, nready, sockfd, readbuf>>
  PROVE  MainInv'
<1> USE DEF MainInv, net, seats
<1>1. NetType' /\ SeatsType' /\ RoundType'
  BY DEF NetType, SeatsType, RoundType, Slots
<1>2. Seated' /\ WireAsked' /\ WritesOnlyToAsking'
  BY DEF Seated, Slots, WireAsked, WritesOnlyToAsking, Serving
<1>3. RoundInv'
  <2>1. (main' = "select") <=> (rset' = {})
    BY DEF RoundInv, Serving
  <2> QED BY <2>1 DEF RoundInv, Readable
<1> QED BY <1>1, <1>2, <1>3

(* main answers the client it serves, or ends the server by doing so. *)
LEMMA AnswersKeeps ==
  ASSUME MainInv, main \in Serving, NEW m, Answers(m)
  PROVE  MainInv'
<1> USE DEF MainInv
<1>1. /\ sockfd \in rset /\ sockfd \in Fds /\ wire[sockfd] = Nothing
      /\ peer[sockfd] \in {"asked", "eof", "reset"}
  BY DEF RoundInv, RoundType, WritesOnlyToAsking, Serving
<1>2. /\ peer' \in {peer, [peer EXCEPT ![sockfd] = "answered"]}
      /\ peer' # peer => peer[sockfd] = "asked"
      /\ Served(sockfd) /\ UNCHANGED <<wire, requests, accepted, client, maxi, maxfd, allset>>
  BY DEF Answers, seats
<1>3. /\ rset' = rset \ {sockfd} /\ sockfd' = Null /\ readbuf' = Nothing
      /\ main' \in {"select", "loop"} /\ nready' \in Int
      /\ nready' = Cardinality(rset') /\ ((main' = "select") <=> (rset' = {}))
  BY <1>1, <1>2, ServedFacts DEF RoundInv
<1>4. \A f \in Fds \ {sockfd} : peer'[f] = peer[f]
  BY <1>2 DEF NetType
<1>5. peer'[sockfd] \in {"asked", "answered", "eof", "reset"}
  BY <1>1, <1>2 DEF NetType
<1>6. NetType' /\ SeatsType' /\ RoundType'
  BY <1>1, <1>2, <1>3 DEF NetType, SeatsType, RoundType, Slots
<1>7. Seated'
  BY <1>1, <1>2, <1>4, <1>5 DEF Seated, Slots
<1>8. WireAsked' /\ WritesOnlyToAsking'
  BY <1>1, <1>2, <1>3, <1>4 DEF WireAsked, WritesOnlyToAsking
<1>9. RoundInv'
  BY <1>1, <1>2, <1>3, <1>4 DEF RoundInv, Readable, Serving, RoundType
<1> QED BY <1>6, <1>7, <1>8, <1>9

(* thr_fn changes nothing of this half, and neither does the server's end. *)
LEMMA MainUnchanged ==
  ASSUME MainInv, UNCHANGED mains
  PROVE  MainInv'
<1> USE DEF MainInv, mains, net, seats, round
<1>1. NetType' /\ SeatsType' /\ RoundType'
  BY DEF NetType, SeatsType, RoundType, Slots
<1>2. Seated' /\ WireAsked' /\ WritesOnlyToAsking' /\ RoundInv'
  BY DEF Seated, Slots, WireAsked, WritesOnlyToAsking, RoundInv, Readable
<1> QED BY <1>1, <1>2

LEMMA MainKeeps ==
  ASSUME MainInv, Next
  PROVE  MainInv'
<1>1. ASSUME NEW f \in Fds, Says(f) \/ Leaves(f) PROVE MainInv'
  BY <1>1, ClientsKeep
<1>2. CASE SelectAccepts
  BY <1>2, AcceptKeeps
<1>3. CASE TooManyClients \/ EofOfNobody
  BY <1>3, MainUnchanged DEF TooManyClients, EofOfNobody
<1>4. CASE Select
  BY <1>4, SelectKeeps
<1>5. CASE Reads
  BY <1>5, ReadsKeeps
<1>6. CASE ReadsEof
  BY <1>6, ReadsEofKeeps
<1>7. CASE SetsID \/ MakesNode \/ Insert
  BY <1>7, GoesOn DEF SetsID, MakesNode, Insert, AtMain, Serving
<1>8. CASE Checks \/ Routes \/ RoutesToAll
  BY <1>8, GoesOn, AnswersKeeps DEF Checks, Routes, RoutesToAll, AtMain, Serving
<1>9. CASE Writes
  BY <1>9, AnswersKeeps DEF Writes, AtMain, Serving
<1>10. CASE thr_fn
  <2>1. UNCHANGED mains
    BY <1>10 DEF thr_fn, ProcessData, processLogin, processRegister, FindsNode, NamesNode, AnswersOk,
      processLook, processSEND, Flashes, SetsAll, LooksUp, Records,
      OtherCommand, processResponse, writeDataBuffer, ClearsRequest, ClearsAnswer
  <2> QED BY <2>1, MainUnchanged
<1> QED BY <1>1, <1>2, <1>3, <1>4, <1>5, <1>6, <1>7, <1>8, <1>9, <1>10 DEF Next, Main, Serves

-----------------------------------------------------------------------------
(* The list of clients, which both threads change. *)

Unique == \A j, k \in DOMAIN head : head[j].clientnumber = head[k].clientnumber => j = k

LEMMA HeadDomain ==
  ASSUME head \in Seq(Nodes)
  PROVE  /\ Len(head) \in Nat /\ DOMAIN head = 1 .. Len(head)
         /\ \A k \in DOMAIN head : head[k] \in Nodes /\ head[k].clientnumber \in Fds
<1>1. Len(head) \in Nat /\ DOMAIN head = 1 .. Len(head)
  OBVIOUS
<1>2. \A k \in DOMAIN head : head[k] \in Nodes
  OBVIOUS
<1>3. \A n \in Nodes : n.clientnumber \in Fds
  BY DEF Nodes
<1> QED BY <1>1, <1>2, <1>3

LEMMA InsertedFacts ==
  ASSUME head \in Seq(Nodes), NEW f \in Fds, Insert_node(f)
  PROVE  /\ head' \in Seq(Nodes) /\ DOMAIN head' = 1 .. Len(head) + 1
         /\ head'[1] = [clientnumber |-> f, clientname |-> NoName]
         /\ \A k \in 2 .. Len(head) + 1 : k - 1 \in DOMAIN head /\ head'[k] = head[k - 1]
<1> DEFINE n == [clientnumber |-> f, clientname |-> NoName]
<1>1. n \in Nodes
  BY DEF Nodes
<1> HIDE DEF n
<1>2. head' = <<n>> \o head
  BY DEF Insert_node, n
<1>3. <<n>> \in Seq(Nodes) /\ Len(<<n>>) = 1 /\ <<n>>[1] = n
  BY <1>1
<1>4. /\ head' \in Seq(Nodes) /\ Len(head') = Len(head) + 1
      /\ \A k \in 1 .. Len(head) + 1 : head'[k] = IF k <= 1 THEN <<n>>[k] ELSE head[k - 1]
  BY <1>2, <1>3, ConcatProperties
<1>5. head'[1] = n
  BY <1>3, <1>4, HeadDomain
<1>6. \A k \in 2 .. Len(head) + 1 : k - 1 \in DOMAIN head /\ head'[k] = head[k - 1]
  BY <1>4, HeadDomain
<1> QED BY <1>4, <1>5, <1>6 DEF n

LEMMA RemovedFacts ==
  ASSUME head \in Seq(Nodes), Unique, NEW f \in Fds, IsNode(f), Remove_node(f)
  PROVE  /\ head' \in Seq(Nodes) /\ Unique'
         /\ \A k \in DOMAIN head' :
              head'[k].clientnumber # f /\ \E j \in DOMAIN head : head'[k] = head[j]
<1> DEFINE n == Least(Nodes_of(f))
<1>1. n \in DOMAIN head /\ head[n].clientnumber = f
  <2>1. Nodes_of(f) \subseteq Nat /\ Nodes_of(f) # {}
    BY HeadDomain DEF Nodes_of, IsNode
  <2>2. n \in Nodes_of(f)
    BY <2>1, LeastFacts
  <2> QED BY <2>2 DEF Nodes_of
<1>2. head' = Without(head, n)
  BY DEF Remove_node, Without
<1> HIDE DEF n
<1>3. IsInjective(head)
  BY DEF Unique, IsInjective
<1>4. /\ head' \in Seq(Nodes) /\ Len(head') = Len(head) - 1 /\ DOMAIN head' = 1 .. Len(head) - 1
      /\ \A k \in 1 .. Len(head) - 1 : head'[k] = IF k < n THEN head[k] ELSE head[k + 1]
  <2> DEFINE w == Without(head, n)
  <2>1. /\ w \in Seq(Nodes) /\ Len(w) = Len(head) - 1
        /\ \A k \in 1 .. Len(w) : w[k] = IF k < n THEN head[k] ELSE head[k + 1]
    BY <1>1, <1>3, RemoveFacts
  <2> HIDE DEF w
  <2>2. DOMAIN w = 1 .. Len(w)
    BY <2>1, LenProperties
  <2>3. head' = w
    BY <1>2 DEF w
  <2> QED BY <2>1, <2>2, <2>3
<1> DEFINE at(k) == IF k < n THEN k ELSE k + 1
<1>5. \A k \in DOMAIN head' : at(k) \in DOMAIN head /\ head'[k] = head[at(k)] /\ at(k) # n
  BY <1>1, <1>4, HeadDomain
<1>6. \A j, k \in DOMAIN head' : at(j) = at(k) => j = k
  BY <1>1, <1>4, HeadDomain
<1> HIDE DEF at
<1>7. Unique'
  BY <1>5, <1>6 DEF Unique
<1>8. \A k \in DOMAIN head' : head'[k].clientnumber # f
  BY <1>1, <1>5 DEF Unique
<1> QED BY <1>4, <1>5, <1>7, <1>8

LEMMA NamedFacts ==
  ASSUME head \in Seq(Nodes), NEW f, NEW n \in Names, Insertclientname(f, n)
  PROVE  /\ head' \in Seq(Nodes) /\ DOMAIN head' = DOMAIN head
         /\ \A k \in DOMAIN head : /\ head'[k].clientnumber = head[k].clientnumber
                                  /\ head'[k].clientname \in {head[k].clientname, n}
<1>1. /\ DOMAIN head' = DOMAIN head
      /\ \A k \in DOMAIN head : head'[k] \in {head[k], [head[k] EXCEPT !.clientname = n]}
  BY DEF Insertclientname
<1>2. \A k \in DOMAIN head : /\ head'[k] \in Nodes
                             /\ head'[k].clientnumber = head[k].clientnumber
                             /\ head'[k].clientname \in {head[k].clientname, n}
  BY <1>1, HeadDomain DEF Nodes
<1>3. head' = [k \in 1 .. Len(head) |-> head'[k]]
  BY <1>1, HeadDomain DEF Insertclientname
<1>4. head' \in [1 .. Len(head) -> Nodes]
  BY <1>2, <1>3, HeadDomain
<1> QED BY <1>1, <1>2, <1>4, HeadDomain, IsASeq

After == {"Insert", "strcpy", "check", "route", "write", "write all"}

(* A step that leaves the list alone: nothing is closed, and main comes to *)
(* no later step with another client.                                      *)
LEMMA ListUntouched ==
  ASSUME ListInv, UNCHANGED head, allset \subseteq allset', Register \subseteq Register',
         main' \in After => main \in After /\ sockfd' = sockfd
  PROVE  ListInv'
<1>1. head' \in Seq(Nodes)
  BY DEF ListInv
<1>2. ListSound'
  BY DEF ListInv, ListSound, IsNode, Nodes_of, After
<1>3. NamesRegistered'
  BY DEF ListInv, NamesRegistered
<1> QED BY <1>1, <1>2, <1>3 DEF ListInv

(* main makes a node for the client it serves. *)
LEMMA MakesNodeKeeps ==
  ASSUME MainInv, ListInv, MakesNode
  PROVE  ListInv'
<1>1. /\ sockfd \in Fds /\ sockfd \in allset
      /\ UNCHANGED <<allset, sockfd, Register>>
  BY DEF MainInv, RoundInv, RoundType, MakesNode, AtMain, Serving, seats, talk
<1>2. CASE IsNode(sockfd)
  <2>1. UNCHANGED head
    BY <1>2 DEF MakesNode, Known
  <2>2. head' \in Seq(Nodes) /\ ListSound' /\ NamesRegistered'
    BY <1>1, <1>2, <2>1 DEF ListInv, ListSound, NamesRegistered, IsNode, Nodes_of
  <2> QED BY <2>2 DEF ListInv
<1>3. CASE ~IsNode(sockfd)
  <2>1. Insert_node(sockfd)
    BY <1>3 DEF MakesNode, Known
  <2>2. /\ head' \in Seq(Nodes) /\ DOMAIN head' = 1 .. Len(head) + 1
        /\ head'[1] = [clientnumber |-> sockfd, clientname |-> NoName]
        /\ \A k \in 2 .. Len(head) + 1 : k - 1 \in DOMAIN head /\ head'[k] = head[k - 1]
    BY <1>1, <2>1, InsertedFacts DEF ListInv
  <2>3. Len(head) \in Nat /\ DOMAIN head = 1 .. Len(head)
    BY HeadDomain DEF ListInv
  <2>4. /\ head'[1].clientnumber = sockfd /\ head'[1].clientname = NoName
        /\ \A k \in DOMAIN head' : k = 1 \/ (k - 1 \in DOMAIN head /\ head'[k] = head[k - 1])
        /\ DOMAIN head' \subseteq Nat /\ 1 \in DOMAIN head'
    BY <2>2, <2>3
  <2>5. \A k \in DOMAIN head : head[k].clientnumber # sockfd /\ head[k].clientnumber \in allset
    BY <1>3 DEF IsNode, Nodes_of, ListInv, ListSound
  <2>6. Unique'
    <3>1. SUFFICES ASSUME NEW j \in DOMAIN head', NEW k \in DOMAIN head',
                          head'[j].clientnumber = head'[k].clientnumber
                   PROVE  j = k
      BY DEF Unique
    <3>2. CASE j = 1 \/ k = 1
      BY <2>4, <2>5, <3>1, <3>2
    <3>3. CASE j # 1 /\ k # 1
      <4>1. /\ j - 1 \in DOMAIN head /\ k - 1 \in DOMAIN head
            /\ head[j - 1].clientnumber = head[k - 1].clientnumber
        BY <2>4, <3>1, <3>3
      <4>2. j - 1 = k - 1
        BY <4>1 DEF ListInv, ListSound
      <4> QED BY <2>4, <4>2
    <3> QED BY <3>2, <3>3
  <2>7. \A k \in DOMAIN head' : head'[k].clientnumber \in allset
    BY <1>1, <2>4, <2>5
  <2>8. IsNode(sockfd)'
    BY <1>1, <2>4 DEF IsNode, Nodes_of
  <2>9. NamesRegistered'
    <3>1. \A k \in DOMAIN head : head[k].clientname \in Register \cup {NoName}
      BY DEF ListInv, NamesRegistered
    <3>2. \A k \in DOMAIN head' : head'[k].clientname \in Register \cup {NoName}
      BY <2>4, <3>1
    <3> QED BY <1>1, <3>2 DEF NamesRegistered
  <2> QED BY <1>1, <2>2, <2>6, <2>7, <2>8, <2>9 DEF ListInv, ListSound, Unique
<1> QED BY <1>2, <1>3

(* main removes the node of a client that has left. *)
LEMMA ReadsEofKeepsList ==
  ASSUME MainInv, ListInv, ReadsEof
  PROVE  ListInv'
<1> DEFINE f == client[Slot]
<1>1. f \in rset /\ f \in Fds
  BY FoundFacts DEF ReadsEof, MainInv
<1>2. /\ IsNode(f) /\ Remove_node(f) /\ allset' = allset \ {f} /\ Served(f) /\ UNCHANGED Register
  BY DEF ReadsEof, FD_CLR, talk
<1>3. main' \notin After
  BY <1>2 DEF Served, After
<1>4. /\ head' \in Seq(Nodes) /\ Unique'
      /\ \A k \in DOMAIN head' :
           head'[k].clientnumber # f /\ \E j \in DOMAIN head : head'[k] = head[j]
  BY <1>1, <1>2, RemovedFacts DEF ListInv, ListSound, Unique
<1>5. \A k \in DOMAIN head' : head'[k].clientnumber \in allset'
  BY <1>2, <1>4 DEF ListInv, ListSound
<1>6. NamesRegistered'
  BY <1>2, <1>4 DEF ListInv, NamesRegistered
<1> QED BY <1>3, <1>4, <1>5, <1>6 DEF ListInv, ListSound, Unique, After

(* thr_fn names a node: one whose client may have changed, but with a name *)
(* the database holds.                                                     *)
LEMMA NamesNodeKeeps ==
  ASSUME ListInv, ThrType, NameKnown, NamesNode
  PROVE  ListInv'
<1>1. /\ UNCHANGED <<allset, main, sockfd, Register>>
      /\ chatreceive.name \in Register /\ chatreceive.name \in Names
  BY DEF NamesNode, At, NameKnown, ThrType, mains, seats, round
<1>2. CASE p = Freed
  BY <1>1, <1>2, ListUntouched DEF NamesNode
<1>3. CASE p # Freed
  <2>1. /\ head' \in Seq(Nodes) /\ DOMAIN head' = DOMAIN head
        /\ \A k \in DOMAIN head : /\ head'[k].clientnumber = head[k].clientnumber
                                 /\ head'[k].clientname \in {head[k].clientname, chatreceive.name}
    BY <1>1, <1>3, NamedFacts DEF NamesNode, ListInv
  <2>2. ListSound'
    BY <1>1, <2>1 DEF ListInv, ListSound, IsNode, Nodes_of
  <2>3. NamesRegistered'
    BY <1>1, <2>1 DEF ListInv, NamesRegistered
  <2> QED BY <2>1, <2>2, <2>3 DEF ListInv
<1> QED BY <1>2, <1>3

LEMMA ListKeeps ==
  ASSUME IInv, Next
  PROVE  ListInv'
<1> USE DEF IInv
<1>1. CASE MakesNode
  BY <1>1, MakesNodeKeeps
<1>2. CASE ReadsEof
  BY <1>2, ReadsEofKeepsList
<1>3. CASE NamesNode
  BY <1>3, NamesNodeKeeps
<1>4. ASSUME NEW f \in Fds, Says(f) \/ Leaves(f) PROVE ListInv'
  <2>1. UNCHANGED <<head, allset, Register, main, sockfd>>
    BY <1>4 DEF Says, Leaves, rest, talk, seats, round
  <2> QED BY <2>1, ListUntouched
<1>5. CASE Select \/ SelectAccepts \/ Reads
  <2>1. UNCHANGED <<head, Register>> /\ main' \notin After
    BY <1>5 DEF Select, SelectAccepts, Reads, After, rest, talk
  <2>2. allset \subseteq allset'
    BY <1>5 DEF Select, SelectAccepts, Reads, seats
  <2> QED BY <2>1, <2>2, ListUntouched
<1>6. CASE TooManyClients \/ EofOfNobody
  BY <1>6, ListUntouched DEF TooManyClients, EofOfNobody, mains, seats, round, talk
<1>7. CASE SetsID
  BY <1>7, ListUntouched DEF SetsID, After, seats, talk
<1>8. CASE Insert
  BY <1>8, ListUntouched DEF Insert, AtMain, After, seats, talk
<1>9. ASSUME NEW m, Answers(m) PROVE ListInv'
  <2>1. UNCHANGED <<head, allset, Register>> /\ main' \notin After
    BY <1>9 DEF Answers, Served, After, seats, talk
  <2> QED BY <2>1, ListUntouched
<1>10. CASE Checks \/ Routes \/ RoutesToAll \/ Writes
  <2>1. (\E m : Answers(m)) \/ (main \in After /\ UNCHANGED <<head, seats, talk, sockfd>>)
    BY <1>10 DEF Checks, Routes, RoutesToAll, Writes, AtMain, After
  <2>2. CASE \E m : Answers(m)
    BY <2>2, <1>9
  <2>3. CASE main \in After /\ UNCHANGED <<head, seats, talk, sockfd>>
    BY <2>3, ListUntouched DEF seats, talk
  <2> QED BY <2>1, <2>2, <2>3
<1>11. CASE thr_fn /\ ~NamesNode
  <2>1. UNCHANGED <<mains, head>>
    BY <1>11 DEF thr_fn, ProcessData, processLogin, processRegister, FindsNode, AnswersOk,
      processLook, processSEND, Flashes, SetsAll, LooksUp, Records,
      OtherCommand, processResponse, writeDataBuffer, ClearsRequest, ClearsAnswer
  <2>2. UNCHANGED <<allset, main, sockfd>>
    BY <2>1 DEF mains, seats, round
  <2>3. Register \subseteq Register'
    BY <1>11 DEF thr_fn, ProcessData, processLogin, processRegister, FindsNode, AnswersOk,
      processLook, processSEND, Flashes, SetsAll, LooksUp, Records, InsertRegiseSql, talk,
      OtherCommand, processResponse, writeDataBuffer, ClearsRequest, ClearsAnswer
  <2> QED BY <2>1, <2>2, <2>3, ListUntouched
<1> QED BY <1>1, <1>2, <1>3, <1>4, <1>5, <1>6, <1>7, <1>8, <1>10, <1>11 DEF Next, Main, Serves

-----------------------------------------------------------------------------
(* The shared buffers and what thr_fn keeps. *)

LEMMA BufferFacts ==
  /\ Requests \cup {Nothing, Torn, Default, Blank, Message("ANSEWER", NoName)} = Buffers
  /\ \A m \in Requests \cup {Nothing, Default} : m \notin Unread => m \in Requests
BY DEF Buffers, Unread

(* A broadcast's entries are descriptors, or crossed out. *)
LEMMA FlashFacts ==
  ASSUME head \in Seq(Nodes), SharedType
  PROVE  /\ Flashed \in 0 .. FlashLen
         /\ sock_flash \in [1 .. FlashLen -> Fds \cup {0, Null}]
         /\ \A f : Cleared(f) \in [1 .. FlashLen -> Fds \cup {0, Null}]
<1>1. Flashed \in 0 .. FlashLen /\ \A i \in 1 .. Flashed : i \in DOMAIN head
  BY HeadDomain, Constant DEF Flashed
<1>2. \A i \in 1 .. Flashed : head[i].clientnumber \in Fds
  BY <1>1, HeadDomain
<1>3. sock_flash \in [1 .. FlashLen -> Fds \cup {0, Null}]
  BY <1>1, <1>2 DEF sock_flash, SharedType
<1>4. ASSUME NEW f PROVE Cleared(f) \in [1 .. FlashLen -> Fds \cup {0, Null}]
  BY DEF Cleared, SharedType
<1> QED BY <1>1, <1>3, <1>4

(* The descriptor a name is looked up for is that of some node. *)
LEMMA LookupFacts ==
  ASSUME head \in Seq(Nodes), NEW n
  PROVE  find_clientname_node(n) \in Fds \cup {Null} /\ Find_node(ID) \in {ID, Null}
<1>1. CASE Bears(n) # {}
  <2>1. Bears(n) \subseteq Nat
    BY HeadDomain DEF Bears
  <2>2. Least(Bears(n)) \in DOMAIN head
    BY <1>1, <2>1, LeastFacts DEF Bears
  <2>3. find_clientname_node(n) \in Fds
    BY <1>1, <2>2, HeadDomain DEF find_clientname_node
  <2> QED BY <2>3 DEF Find_node
<1>2. CASE Bears(n) = {}
  BY <1>2 DEF find_clientname_node, Find_node
<1> QED BY <1>1, <1>2

BufferInv == SharedType /\ ThrType /\ NameKnown

LEMMA BuffersUntouched ==
  ASSUME BufferInv, UNCHANGED <<shared, talk>>, p' \in Fds \cup {Null, Freed}
  PROVE  BufferInv'
<1>1. SharedType'
  BY DEF BufferInv, SharedType, shared, bcast, talk
<1>2. ThrType' /\ NameKnown'
  BY DEF BufferInv, ThrType, NameKnown, talk
<1> QED BY <1>1, <1>2 DEF BufferInv

LEMMA MainKeepsBuffers ==
  ASSUME IInv, Main \/ \E f \in Fds : Says(f) \/ Leaves(f)
  PROVE  BufferInv'
<1> USE DEF IInv, BufferInv
<1>0. p \in Fds \cup {Null, Freed} /\ sockfd \in Fds \cup {Null} /\ readbuf \in Requests \cup {Nothing, Default}
  BY DEF ThrType, MainInv, RoundType
<1>1. ASSUME NEW f \in Fds, Says(f) \/ Leaves(f) PROVE BufferInv'
  BY <1>0, <1>1, BuffersUntouched DEF Says, Leaves, rest
<1>2. CASE Select \/ SelectAccepts \/ TooManyClients \/ Reads \/ EofOfNobody
  BY <1>0, <1>2, BuffersUntouched DEF Select, SelectAccepts, TooManyClients, Reads, EofOfNobody, rest
<1>3. CASE ReadsEof
  BY <1>0, <1>3, BuffersUntouched DEF ReadsEof, Remove_node
<1>4. CASE MakesNode
  BY <1>0, <1>4, BuffersUntouched DEF MakesNode
<1>5. CASE SetsID \/ Insert
  <2>1. UNCHANGED <<sendbuf_msg, msg_status, bcast, talk, p>>
    BY <1>5 DEF SetsID, Insert
  <2>2. readbuf_msg' \in [ID : Fds \cup {Null}, buffer : Requests \cup {Nothing, Default}]
    BY <1>0, <1>5 DEF SetsID, Insert, SharedType
  <2>3. SharedType' /\ ThrType' /\ NameKnown'
    BY <2>1, <2>2 DEF SharedType, ThrType, NameKnown, bcast, talk
  <2> QED BY <2>3
<1>6. CASE Checks \/ Routes
  BY <1>0, <1>6, BuffersUntouched DEF Checks, Routes, Answers
<1>7. CASE RoutesToAll \/ Writes
  <2>1. UNCHANGED <<readbuf_msg, sendbuf_msg, all_len, talk, p>>
    BY <1>7 DEF RoutesToAll, Writes, Answers, bcast
  <2>2. sockfdarrar' \in {sockfdarrar, Cleared(sockfd)} /\ flag_set_all' \in {flag_set_all, 0}
        /\ msg_status' \in {msg_status, 1}
    BY <1>7 DEF RoutesToAll, Writes, bcast
  <2>3. SharedType' /\ ThrType' /\ NameKnown'
    BY <2>1, <2>2, FlashFacts DEF ListInv, SharedType, ThrType, NameKnown, talk
  <2> QED BY <2>3
<1> QED BY <1>1, <1>2, <1>3, <1>4, <1>5, <1>6, <1>7 DEF Main, Serves

(* thr_fn.  Each step changes a few of its buffers; the name it has found   *)
(* registered is touched by none between the database and the node.        *)
LEMMA ThrKeepsBuffers ==
  ASSUME IInv, thr_fn
  PROVE  BufferInv'
<1> USE DEF IInv, BufferInv
<1>0. /\ readbuf_msg.ID \in Fds \cup {Null} /\ readbuf_msg.buffer \in Requests \cup {Nothing, Default}
      /\ chatreceive \in Buffers /\ chatsend \in Buffers
      /\ Message("ANSEWER", NoName) \in Buffers /\ Nothing \in Buffers /\ Torn \in Buffers
  BY BufferFacts DEF SharedType, ThrType
<1>1. CASE ProcessData
  <2>1. UNCHANGED <<shared, ID, p, len, chatsend, Register>>
    BY <1>1 DEF ProcessData
  <2>2. /\ chatreceive' \in Requests \cup {Blank} /\ thr' \in {"status", "fields", "command"}
    BY <1>0, <1>1, BufferFacts DEF ProcessData
  <2> QED BY <2>1, <2>2 DEF SharedType, ThrType, NameKnown, shared, bcast
<1>2. CASE processLogin \/ processRegister
  <2>1. chatreceive.name \in Names
    BY <1>2, RequestFacts DEF processLogin, processRegister, Message_in, ThrType
  <2>2. UNCHANGED <<shared, len, chatreceive, chatsend, p>> /\ ID' \in Fds \cup {Null}
    BY <1>0, <1>2 DEF processLogin, processRegister
  <2>3. Register' \subseteq Names /\ Register \subseteq Register'
    BY <1>2, <2>1 DEF processLogin, processRegister, InsertRegiseSql, ThrType
  <2>4. thr' \in {thr, "answer"} \/ (thr' = "find" /\ chatreceive.name \in Register')
    BY <1>2 DEF processLogin, processRegister, SearchRegiseSql, InsertRegiseSql
  <2> QED BY <2>2, <2>3, <2>4 DEF SharedType, ThrType, NameKnown, shared, bcast
<1>3. CASE FindsNode \/ NamesNode
  <2>1. UNCHANGED <<shared, ID, len, chatreceive, chatsend, Register>>
    BY <1>3 DEF FindsNode, NamesNode
  <2>2. p' \in Fds \cup {Null}
    BY <1>3, LookupFacts DEF FindsNode, NamesNode, ListInv, ThrType
  <2>3. thr' = "answer" \/ (thr' = "name" /\ thr = "find")
    BY <1>3 DEF FindsNode, NamesNode, At
  <2> QED BY <2>1, <2>2, <2>3 DEF SharedType, ThrType, NameKnown, shared, bcast
<1>4. CASE AnswersOk \/ processLook
  <2>1. /\ UNCHANGED <<readbuf_msg, msg_status, bcast, len, chatreceive, Register, p>>
        /\ thr' = "emit" /\ ID' \in {ID, Null}
    BY <1>4 DEF AnswersOk, processLook
  <2>2. sendbuf_msg' = [sendbuf_msg EXCEPT !.ID = readbuf_msg.ID] /\ chatsend' \in Buffers
    BY <1>0, <1>4 DEF AnswersOk, processLook
  <2>3. sendbuf_msg' \in [ID : Fds \cup {Null}, buffer : Buffers]
    BY <1>0, <2>2 DEF SharedType
  <2> QED BY <2>1, <2>2, <2>3 DEF SharedType, ThrType, NameKnown, bcast
<1>5. CASE processSEND \/ OtherCommand \/ Records
  <2>1. UNCHANGED <<shared, ID, len, chatreceive, Register, p>> /\ thr' \in {"flash", "lookup", "emit"}
    BY <1>5 DEF processSEND, OtherCommand, Records
  <2>2. chatsend' \in Buffers
    BY <1>0, <1>5 DEF processSEND, OtherCommand, Records
  <2> QED BY <2>1, <2>2 DEF SharedType, ThrType, NameKnown, shared, bcast
<1>6. CASE Flashes \/ SetsAll
  <2>1. /\ UNCHANGED <<readbuf_msg, sendbuf_msg, msg_status, ID, chatreceive, chatsend, Register, p>>
        /\ thr' \in {"all", "emit"}
    BY <1>6 DEF Flashes, SetsAll
  <2>2. /\ sockfdarrar' \in {sockfdarrar, sock_flash} /\ flag_set_all' \in {flag_set_all, 1}
        /\ len' \in {Flashed, 0} /\ all_len' \in {all_len, len}
    BY <1>6 DEF Flashes, SetsAll
  <2>3. 0 \in 0 .. FlashLen
    BY Constant
  <2> QED BY <2>1, <2>2, <2>3, FlashFacts DEF ListInv, SharedType, ThrType, NameKnown
<1>7. CASE LooksUp
  <2>1. UNCHANGED <<readbuf_msg, msg_status, bcast, ID, len, chatreceive, chatsend, Register, p>> /\ thr' = "record"
    BY <1>7 DEF LooksUp
  <2>2. sendbuf_msg' \in [ID : Fds \cup {Null}, buffer : Buffers]
    BY <1>7, LookupFacts DEF LooksUp, ListInv, SharedType
  <2> QED BY <2>1, <2>2 DEF SharedType, ThrType, NameKnown, bcast
<1>8. CASE processResponse \/ writeDataBuffer \/ ClearsAnswer
  <2>1. UNCHANGED <<readbuf_msg, bcast, ID, len, chatreceive, chatsend, Register, p>>
    BY <1>8 DEF processResponse, writeDataBuffer, ClearsAnswer
  <2>2. thr' \in {"emitted", "clear", "reset", "parse"} /\ msg_status' \in {msg_status, 0}
    BY <1>8 DEF processResponse, writeDataBuffer, ClearsAnswer
  <2>3. sendbuf_msg' = sendbuf_msg \/ \E m \in Buffers : sendbuf_msg' = [sendbuf_msg EXCEPT !.buffer = m]
    BY <1>0, <1>8 DEF processResponse, writeDataBuffer, ClearsAnswer
  <2>4. sendbuf_msg' \in [ID : Fds \cup {Null}, buffer : Buffers]
    BY <2>3 DEF SharedType
  <2> QED BY <2>1, <2>2, <2>4 DEF SharedType, ThrType, NameKnown, bcast
<1>9. CASE ClearsRequest
  <2>1. UNCHANGED <<sendbuf_msg, msg_status, bcast, ID, len, chatreceive, chatsend, Register, p>> /\ thr' = "status"
    BY <1>9 DEF ClearsRequest
  <2>2. readbuf_msg' \in [ID : Fds \cup {Null}, buffer : Requests \cup {Nothing, Default}]
    BY <1>9 DEF ClearsRequest, SharedType
  <2> QED BY <2>1, <2>2 DEF SharedType, ThrType, NameKnown, bcast
<1> QED BY <1>1, <1>2, <1>3, <1>4, <1>5, <1>6, <1>7, <1>8, <1>9 DEF thr_fn

LEMMA DownIsBoolean ==
  ASSUME down \in BOOLEAN, Next
  PROVE  down' \in BOOLEAN
<1>1. down' \in BOOLEAN \/ UNCHANGED down
  BY Zenon DEF Next, Says, Leaves, rest, Main, SelectAccepts, TooManyClients, Serves, Select, Reads, ReadsEof,
    EofOfNobody, SetsID, MakesNode, Insert, Checks, Routes, RoutesToAll, Writes, Answers, thr_fn,
    ProcessData, processLogin, processRegister, FindsNode, NamesNode, AnswersOk, processLook, processSEND,
    Flashes, SetsAll, LooksUp, Records, OtherCommand, processResponse, writeDataBuffer, ClearsRequest, ClearsAnswer
<1> QED BY <1>1

-----------------------------------------------------------------------------
LEMMA InitIInv == Init => IInv
<1> SUFFICES ASSUME Init PROVE IInv
  OBVIOUS
<1>1. MainInv
  BY InitMain
<1>2. ListInv
  BY DEF Init, ListInv, ListSound, NamesRegistered, IsNode, Nodes_of
<1>3. SharedType /\ ThrType /\ NameKnown
  BY BufferFacts, Constant DEF Init, SharedType, ThrType, NameKnown
<1> QED BY <1>1, <1>2, <1>3 DEF IInv, Init

(* The strengthened invariant is inductive, and holds in every reachable   *)
(* state: for any descriptors, slots, users and numbers of requests.       *)
THEOREM Inductive == Spec => []IInv
<1>1. ASSUME IInv, [Next]_vars PROVE IInv'
  <2>1. CASE Next
    <3>1. BufferInv'
      BY <1>1, <2>1, MainKeepsBuffers, ThrKeepsBuffers DEF Next
    <3>2. down' \in BOOLEAN
      BY <1>1, <2>1, DownIsBoolean DEF IInv
    <3> QED BY <1>1, <2>1, <3>1, <3>2, MainKeeps, ListKeeps DEF IInv, BufferInv
  <2>2. CASE UNCHANGED vars
    <3> USE <1>1, <2>2 DEF IInv, vars, rest
    <3>1. MainInv'
      BY MainUnchanged
    <3>2. ListInv'
      BY ListUntouched DEF mains, seats, round, talk
    <3>3. BufferInv'
      BY BuffersUntouched DEF BufferInv, ThrType
    <3> QED BY <3>1, <3>2, <3>3 DEF BufferInv
  <2> QED BY <1>1, <2>1, <2>2
<1> QED BY <1>1, InitIInv, PTL DEF Spec

(* Every field and local of the chat server keeps to its type: a           *)
(* descriptor is a descriptor, and what is stored in a buffer is a message. *)
THEOREM TypeCorrect == Spec => []TypeOK
<1>1. IInv => TypeOK
  BY DEF IInv, MainInv, ListInv, NetType, SeatsType, RoundType, SharedType, ThrType, TypeOK, Nodes, Serving
<1> QED BY <1>1, Inductive, PTL

(* The connections stay within reach of select and the for loop.           *)
THEOREM ConnectionsAreSeated == Spec => []Seated
<1>1. IInv => Seated
  BY DEF IInv, MainInv
<1> QED BY <1>1, Inductive, PTL

(* The list of clients is that of the connections, whatever thr_fn and     *)
(* main do to it in turn.                                                  *)
THEOREM ListIsSound == Spec => []ListSound
<1>1. IInv => ListSound
  BY DEF IInv, ListInv
<1> QED BY <1>1, Inductive, PTL

(* Only names of the database get onto the list.                           *)
THEOREM OnlyRegisteredNames == Spec => []NamesRegistered
<1>1. IInv => NamesRegistered
  BY DEF IInv, ListInv
<1> QED BY <1>1, Inductive, PTL

(* The server writes only to a client that waits for an answer.            *)
THEOREM AnswersAreAskedFor == Spec => []WritesOnlyToAsking
<1>1. IInv => WritesOnlyToAsking
  BY DEF IInv, MainInv
<1> QED BY <1>1, Inductive, PTL

(* main never waits in Read: what select has seen is still there when the  *)
(* for loop comes to it, and the for loop comes to it.                     *)
THEOREM MainNeverWaits == Spec => []ReadsNeverBlock
<1>1. IInv => ReadsNeverBlock
  <2> SUFFICES ASSUME IInv, main = "loop" PROVE Found # {} /\ Readable(client[Slot])
    BY DEF ReadsNeverBlock
  <2>1. PICK f \in rset : f \in allset
    BY DEF IInv, MainInv, RoundInv
  <2>2. PICK i \in 1 .. maxi : client[i] = f
    BY <2>1 DEF IInv, MainInv, Seated
  <2>3. Found # {}
    BY <2>1, <2>2 DEF Found
  <2>4. client[Slot] \in rset
    BY <2>3, FoundFacts DEF IInv, MainInv
  <2> QED BY <2>3, <2>4 DEF IInv, MainInv, RoundInv, Serving
<1> QED BY <1>1, Inductive, PTL

(* A round ends only when every descriptor select reported has been served. *)
THEOREM EveryRoundServesAll == Spec => RoundServesAll
<1>1. IInv' => (main' = "select" /\ main # "select" => rset' = {})
  BY DEF IInv, MainInv, RoundInv
<1> QED BY <1>1, Inductive, PTL DEF RoundServesAll
=============================================================================
