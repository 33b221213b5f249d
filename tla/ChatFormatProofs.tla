--------------------------- MODULE ChatFormatProofs ---------------------------
(***************************************************************************)
(* The text of a message, for every alphabet, length of the fields and set *)
(* of commands: what processData makes of a text that is whole, torn, or   *)
(* followed by another.  A separator is found by counting those before it, *)
(* so the proofs rest on the facts about Below of QueueLemmas.             *)
(***************************************************************************)
EXTENDS ChatFormat, QueueLemmas

LEMMA Joined ==
  ASSUME NEW a \in Seq(Nat), NEW n, n = Len(a), NEW b \in Seq(Nat)
  PROVE  /\ a \o b \in Seq(Nat) /\ Len(a \o b) = n + Len(b)
         /\ \A i \in 1 .. n : (a \o b)[i] = a[i]
         /\ \A i \in 1 .. Len(b) : (a \o b)[n + i] = b[i]
<1>1. /\ a \o b \in Seq(Nat) /\ Len(a \o b) = n + Len(b) /\ n \in Nat /\ Len(b) \in Nat
      /\ \A i \in 1 .. n + Len(b) : (a \o b)[i] = IF i <= n THEN a[i] ELSE b[i - n]
  BY ConcatProperties, LenProperties
<1>2. \A i \in 1 .. n : (a \o b)[i] = a[i]
  BY <1>1
<1>3. ASSUME NEW i \in 1 .. Len(b) PROVE (a \o b)[n + i] = b[i]
  <2>1. n + i \in 1 .. n + Len(b) /\ ~(n + i <= n) /\ (n + i) - n = i
    BY <1>1
  <2> QED BY <1>1, <2>1
<1> QED BY <1>1, <1>2, <1>3

(* A field is a sequence of characters. *)
LEMMA FieldFacts ==
  ASSUME NEW t \in Texts
  PROVE  t \in Seq(Nat) /\ Len(t) \in Nat /\ DOMAIN t = 1 .. Len(t)
<1>1. PICK n \in 0 .. MaxLen : t \in [1 .. n -> Chars]
  BY DEF Texts
<1>2. n \in Nat /\ Chars \subseteq Nat
  BY ChatFormatAssumption
<1>3. t \in [1 .. n -> Nat]
  BY <1>1, <1>2
<1> QED BY <1>2, <1>3

(* The text of c, character by character. *)
Sent(c)     == Len(c.chat_sendName)
Received(c) == Len(c.chat_receiveName)
Told(c)     == Len(c.chat_message)
Second(c) == 6 + Sent(c)
Third(c)  == 7 + Sent(c) + Received(c)
Last(c)   == 8 + Sent(c) + Received(c) + Told(c)

LEMMA TextFacts ==
  ASSUME NEW c \in Chats
  PROVE  LET w == writeDataBuffer(c) IN
         /\ w \in Seq(Nat) /\ Len(w) = Last(c) + 2
         /\ Sent(c) \in Nat /\ Received(c) \in Nat /\ Told(c) \in Nat
         /\ w[1] = Dollar /\ w[2] = At /\ w[3] = c.chat_valid + Zero /\ w[4] = c.chat_command + Zero
         /\ w[5] = Dollar /\ \A i \in 1 .. Sent(c) : w[5 + i] = c.chat_sendName[i]
         /\ w[Second(c)] = Dollar
         /\ \A i \in 1 .. Received(c) : w[Second(c) + i] = c.chat_receiveName[i]
         /\ w[Third(c)] = Dollar
         /\ \A i \in 1 .. Told(c) : w[Third(c) + i] = c.chat_message[i]
         /\ w[Last(c)] = Dollar /\ w[Last(c) + 1] = At /\ w[Last(c) + 2] = Dollar
<1> DEFINE h  == <<Dollar, At, c.chat_valid + Zero, c.chat_command + Zero, Dollar>>
           s  == c.chat_sendName
           r  == c.chat_receiveName
           m  == c.chat_message
           t1 == h \o s
           t2 == t1 \o <<Dollar>>
           t3 == t2 \o r
           t4 == t3 \o <<Dollar>>
           t5 == t4 \o m
           w  == t5 \o <<Dollar, At, Dollar>>
<1>0. writeDataBuffer(c) = w
  BY DEF writeDataBuffer
<1>1. /\ s \in Seq(Nat) /\ r \in Seq(Nat) /\ m \in Seq(Nat)
      /\ Len(s) \in Nat /\ Len(r) \in Nat /\ Len(m) \in Nat
  BY FieldFacts DEF Chats
<1>2. /\ h \in Seq(Nat) /\ Len(h) = 5
      /\ h[1] = Dollar /\ h[2] = At /\ h[3] = c.chat_valid + Zero /\ h[4] = c.chat_command + Zero
      /\ h[5] = Dollar
  <2>1. c.chat_valid \in {0, 1} /\ c.chat_command \in 0 .. 9
    BY ChatFormatAssumption DEF Chats
  <2>2. c.chat_valid + Zero \in Nat /\ c.chat_command + Zero \in Nat /\ Dollar \in Nat /\ At \in Nat
    BY <2>1 DEF Zero, Dollar, At
  <2> QED BY <2>2
<1>3. /\ <<Dollar>> \in Seq(Nat) /\ Len(<<Dollar>>) = 1 /\ <<Dollar>>[1] = Dollar
      /\ <<Dollar, At, Dollar>> \in Seq(Nat) /\ Len(<<Dollar, At, Dollar>>) = 3
      /\ <<Dollar, At, Dollar>>[1] = Dollar /\ <<Dollar, At, Dollar>>[2] = At
      /\ <<Dollar, At, Dollar>>[3] = Dollar
  BY DEF Dollar, At
<1> HIDE DEF h, s, r, m
<1>4. /\ t1 \in Seq(Nat) /\ Len(t1) = 5 + Len(s)
      /\ \A i \in 1 .. 5 : t1[i] = h[i]
      /\ \A i \in 1 .. Len(s) : t1[5 + i] = s[i]
  <2>1. PICK n : n = Len(h)
    OBVIOUS
  <2>2. h \in Seq(Nat) /\ s \in Seq(Nat)
    BY <1>1, <1>2
  <2> HIDE DEF h
  <2>3. /\ t1 \in Seq(Nat) /\ Len(t1) = n + Len(s)
        /\ \A i \in 1 .. n : t1[i] = h[i]
        /\ \A i \in 1 .. Len(s) : t1[n + i] = s[i]
    BY ONLY <2>1, <2>2, Joined
  <2> QED BY ONLY <1>2, <2>1, <2>3
<1> HIDE DEF t1
<1> DEFINE n1 == 5 + Len(s)
           n2 == 6 + Len(s)
           n3 == 6 + Len(s) + Len(r)
           n4 == 7 + Len(s) + Len(r)
           n5 == 7 + Len(s) + Len(r) + Len(m)
<1>17. /\ n1 \in Nat /\ n2 = n1 + 1 /\ n3 = n2 + Len(r) /\ n4 = n3 + 1 /\ n5 = n4 + Len(m)
  BY <1>1
<1> HIDE DEF n1, n2, n3, n4, n5
<1>5. /\ t2 \in Seq(Nat) /\ Len(t2) = n2
      /\ \A i \in 1 .. n1 : t2[i] = t1[i]
      /\ t2[n2] = Dollar
  <2>1. n1 = Len(t1)
    BY <1>4 DEF n1
  <2>2. /\ t2 \in Seq(Nat) /\ Len(t2) = n1 + 1
        /\ \A i \in 1 .. n1 : t2[i] = t1[i]
        /\ \A i \in 1 .. 1 : t2[n1 + i] = <<Dollar>>[i]
    BY <1>3, <1>4, <2>1, Joined
  <2>3. t2[n1 + 1] = <<Dollar>>[1]
    BY ONLY <2>2, 1 \in 1 .. 1
  <2> QED BY ONLY <1>3, <1>17, <2>2, <2>3
<1> HIDE DEF t2
<1>6. /\ t3 \in Seq(Nat) /\ Len(t3) = n3
      /\ \A i \in 1 .. n2 : t3[i] = t2[i]
      /\ \A i \in 1 .. Len(r) : t3[n2 + i] = r[i]
  <2>1. t2 \in Seq(Nat) /\ r \in Seq(Nat) /\ n2 = Len(t2)
    BY <1>1, <1>5
  <2>2. /\ t3 \in Seq(Nat) /\ Len(t3) = n2 + Len(r)
        /\ \A i \in 1 .. n2 : t3[i] = t2[i]
        /\ \A i \in 1 .. Len(r) : t3[n2 + i] = r[i]
    BY ONLY <2>1, Joined
  <2> QED BY <1>17, <2>2
<1> HIDE DEF t3
<1>7. /\ t4 \in Seq(Nat) /\ Len(t4) = n4
      /\ \A i \in 1 .. n3 : t4[i] = t3[i]
      /\ t4[n4] = Dollar
  <2>1. /\ t4 \in Seq(Nat) /\ Len(t4) = n3 + 1
        /\ \A i \in 1 .. n3 : t4[i] = t3[i]
        /\ \A i \in 1 .. 1 : t4[n3 + i] = <<Dollar>>[i]
    BY <1>3, <1>6, Joined
  <2>2. t4[n3 + 1] = <<Dollar>>[1]
    BY ONLY <2>1, 1 \in 1 .. 1
  <2> QED BY ONLY <1>3, <1>17, <2>1, <2>2
<1> HIDE DEF t4
<1>8. /\ t5 \in Seq(Nat) /\ Len(t5) = n5
      /\ \A i \in 1 .. n4 : t5[i] = t4[i]
      /\ \A i \in 1 .. Len(m) : t5[n4 + i] = m[i]
  <2>1. t4 \in Seq(Nat) /\ m \in Seq(Nat) /\ n4 = Len(t4)
    BY <1>1, <1>7
  <2>2. /\ t5 \in Seq(Nat) /\ Len(t5) = n4 + Len(m)
        /\ \A i \in 1 .. n4 : t5[i] = t4[i]
        /\ \A i \in 1 .. Len(m) : t5[n4 + i] = m[i]
    BY ONLY <2>1, Joined
  <2> QED BY <1>17, <2>2
<1> HIDE DEF t5
<1>9. /\ w \in Seq(Nat) /\ Len(w) = n5 + 3
      /\ \A i \in 1 .. n5 : w[i] = t5[i]
      /\ w[n5 + 1] = Dollar /\ w[n5 + 2] = At /\ w[n5 + 3] = Dollar
  <2>1. /\ w \in Seq(Nat) /\ Len(w) = n5 + 3
        /\ \A i \in 1 .. n5 : w[i] = t5[i]
        /\ \A i \in 1 .. 3 : w[n5 + i] = <<Dollar, At, Dollar>>[i]
    BY <1>3, <1>8, Joined
  <2>2. 1 \in 1 .. 3 /\ 2 \in 1 .. 3 /\ 3 \in 1 .. 3
    OBVIOUS
  <2>3. /\ w[n5 + 1] = <<Dollar, At, Dollar>>[1] /\ w[n5 + 2] = <<Dollar, At, Dollar>>[2]
        /\ w[n5 + 3] = <<Dollar, At, Dollar>>[3]
    BY ONLY <2>1, <2>2
  <2> QED BY <1>3, <2>1, <2>3
<1> HIDE DEF w
<1>10. /\ n2 \in Nat /\ n3 \in Nat /\ n4 \in Nat /\ n5 \in Nat /\ 5 <= n1
       /\ n1 <= n2 /\ n2 <= n3 /\ n3 <= n4 /\ n4 <= n5
  BY <1>1, <1>17 DEF n1
<1>11. \A i \in 1 .. n4 : w[i] = t4[i]
  BY <1>8, <1>9, <1>10
<1>12. \A i \in 1 .. n3 : w[i] = t3[i]
  BY <1>7, <1>10, <1>11
<1>13. \A i \in 1 .. n2 : w[i] = t2[i]
  BY <1>6, <1>10, <1>12
<1>14. \A i \in 1 .. n1 : w[i] = t1[i]
  BY <1>5, <1>10, <1>13, <1>17
<1>15. /\ w[1] = Dollar /\ w[2] = At /\ w[3] = c.chat_valid + Zero /\ w[4] = c.chat_command + Zero
       /\ w[5] = Dollar
  <2>1. /\ 1 \in 1 .. n1 /\ 2 \in 1 .. n1 /\ 3 \in 1 .. n1 /\ 4 \in 1 .. n1 /\ 5 \in 1 .. n1
        /\ 1 \in 1 .. 5 /\ 2 \in 1 .. 5 /\ 3 \in 1 .. 5 /\ 4 \in 1 .. 5 /\ 5 \in 1 .. 5
    BY <1>10, <1>17
  <2> HIDE DEF h
  <2>2. w[1] = h[1] /\ w[2] = h[2] /\ w[3] = h[3] /\ w[4] = h[4] /\ w[5] = h[5]
    BY ONLY <1>4, <1>14, <2>1
  <2> QED BY <1>2, <2>2
<1>16. \A i \in 1 .. Len(s) : w[5 + i] = s[i]
  <2>1. \A i \in 1 .. Len(s) : 5 + i \in 1 .. n1
    BY <1>1 DEF n1
  <2> QED BY <1>4, <1>14, <2>1
<1>18. w[n2] = Dollar /\ w[n4] = Dollar
  <2>1. n2 \in 1 .. n2 /\ n4 \in 1 .. n4
    BY <1>10, <1>17
  <2> QED BY <1>5, <1>7, <1>11, <1>13, <2>1
<1>19. \A i \in 1 .. Len(r) : w[n2 + i] = r[i]
  <2>1. \A i \in 1 .. Len(r) : n2 + i \in 1 .. n3
    BY <1>1, <1>10, <1>17
  <2> QED BY <1>6, <1>12, <2>1
<1>20. \A i \in 1 .. Len(m) : w[n4 + i] = m[i]
  <2>1. \A i \in 1 .. Len(m) : n4 + i \in 1 .. n5
    BY <1>1, <1>10, <1>17
  <2> QED BY <1>8, <1>9, <2>1
<1>21. Len(s) = Sent(c) /\ Len(r) = Received(c) /\ Len(m) = Told(c)
  BY DEF Sent, Received, Told, s, r, m
<1>22. /\ Last(c) = n5 + 1 /\ Last(c) + 1 = n5 + 2 /\ Last(c) + 2 = n5 + 3
       /\ Second(c) = n2 /\ Third(c) = n4
  BY <1>1, <1>21 DEF Second, Third, Last, n2, n4, n5
<1> QED BY <1>0, <1>1, <1>9, <1>15, <1>16, <1>18, <1>19, <1>20, <1>21, <1>22 DEF s, r, m

-----------------------------------------------------------------------------
(* Parts of a text. *)
LEMMA PartFacts ==
  ASSUME NEW w \in Seq(Nat), NEW a \in Nat, NEW b \in Int, 1 <= a, b <= Len(w)
  PROVE  /\ SubSeq(w, a, b) \in Seq(Nat)
         /\ Len(SubSeq(w, a, b)) = IF a <= b THEN b - a + 1 ELSE 0
         /\ \A i \in 1 .. b - a + 1 : SubSeq(w, a, b)[i] = w[a + i - 1]
<1>1. \A i \in a .. b : i \in 1 .. Len(w)
  BY LenProperties
<1>2. \A i \in a .. b : w[i] \in Nat
  BY <1>1, ElementOfSeq
<1>3. a \in Int
  OBVIOUS
<1> QED BY ONLY <1>2, <1>3, b \in Int, SubSeqProperties

(* The part of w between the separators a and b is the field t. *)
LEMMA SpanIs ==
  ASSUME NEW w \in Seq(Nat), NEW t \in Seq(Nat), NEW a \in Nat, NEW b \in Nat,
         b = a + Len(t) + 1, b <= Len(w), \A i \in 1 .. Len(t) : w[a + i] = t[i]
  PROVE  SubSeq(w, a + 1, b - 1) = t
<1> DEFINE u == SubSeq(w, a + 1, b - 1)
<1>1. /\ a + 1 \in Nat /\ b - 1 \in Int /\ 1 <= a + 1 /\ b - 1 <= Len(w) /\ Len(t) \in Nat
      /\ (b - 1) - (a + 1) + 1 = Len(t) /\ (a + 1 <= b - 1 <=> Len(t) # 0)
      /\ \A i \in 1 .. Len(t) : (a + 1) + i - 1 = a + i
  BY LenProperties
<1>2. PICK x \in Nat : x = a + 1
  BY <1>1
<1>3. PICK y \in Int : y = b - 1
  BY <1>1
<1>4. /\ SubSeq(w, x, y) \in Seq(Nat)
      /\ Len(SubSeq(w, x, y)) = IF x <= y THEN y - x + 1 ELSE 0
      /\ \A i \in 1 .. y - x + 1 : SubSeq(w, x, y)[i] = w[x + i - 1]
  <2>1. 1 <= x /\ y <= Len(w)
    BY <1>1, <1>2, <1>3
  <2> QED BY ONLY w \in Seq(Nat), x \in Nat, y \in Int, <2>1, PartFacts
<1>5. u \in Seq(Nat) /\ Len(u) = Len(t) /\ \A i \in 1 .. Len(t) : u[i] = t[i]
  BY <1>1, <1>2, <1>3, <1>4
<1> QED BY <1>5, SeqEqual

(* What is before the end of w is the same in a text that goes on after w. *)
LEMMA SameSpan ==
  ASSUME NEW w \in Seq(Nat), NEW v \in Seq(Nat), Len(w) <= Len(v), \A i \in 1 .. Len(w) : v[i] = w[i],
         NEW a \in Nat, NEW b \in Int, 1 <= a, b <= Len(w)
  PROVE  SubSeq(w, a, b) = SubSeq(v, a, b)
<1>1. Len(w) \in Nat /\ Len(v) \in Nat /\ b <= Len(v)
  BY LenProperties
<1>2. /\ SubSeq(w, a, b) \in Seq(Nat)
      /\ Len(SubSeq(w, a, b)) = IF a <= b THEN b - a + 1 ELSE 0
      /\ \A i \in 1 .. b - a + 1 : SubSeq(w, a, b)[i] = w[a + i - 1]
  BY PartFacts
<1>3. /\ SubSeq(v, a, b) \in Seq(Nat)
      /\ Len(SubSeq(v, a, b)) = IF a <= b THEN b - a + 1 ELSE 0
      /\ \A i \in 1 .. b - a + 1 : SubSeq(v, a, b)[i] = v[a + i - 1]
  BY <1>1, PartFacts
<1>4. \A i \in 1 .. Len(SubSeq(w, a, b)) : i \in 1 .. b - a + 1 /\ a + i - 1 \in 1 .. Len(w)
  BY <1>1, <1>2
<1>5. \A i \in 1 .. Len(SubSeq(w, a, b)) : SubSeq(w, a, b)[i] = SubSeq(v, a, b)[i]
  BY <1>2, <1>3, <1>4
<1> QED BY <1>2, <1>3, <1>5, SeqEqual

(* The separators of a text and the fields between them. *)
LEMMA EndsFacts ==
  ASSUME NEW msg \in Seq(Nat)
  PROVE  Ends(msg) \subseteq Nat /\ IsFiniteSet(Ends(msg)) /\ Cardinality(Ends(msg)) \in Nat
<1>1. Ends(msg) \in SUBSET (1 .. Len(msg)) /\ 1 .. Len(msg) \subseteq Nat
  BY LenProperties DEF Ends
<1>2. IsFiniteSet(1 .. Len(msg))
  BY LenProperties, FS_Interval
<1> QED BY <1>1, <1>2, FS_Subset, FS_CardinalityType

LEMMA EndIs ==
  ASSUME NEW msg \in Seq(Nat), NEW p \in Ends(msg), NEW k, k = Cardinality(Below(Ends(msg), p))
  PROVE  End(msg, k) = p
<1>1. ASSUME NEW i \in Ends(msg), Cardinality(Below(Ends(msg), i)) = k PROVE i = p
  <2>1. i \in Nat /\ p \in Nat /\ k \in Nat
    BY EndsFacts, BelowFacts
  <2>2. ~(i < p) /\ ~(p < i)
    BY <1>1, <2>1, EndsFacts, BelowFacts
  <2> QED BY <2>1, <2>2
<1>2. \A i : {j \in Ends(msg) : j <= i} = Below(Ends(msg), i)
  BY DEF Below
<1>3. End(msg, k) = CHOOSE i \in Ends(msg) : Cardinality(Below(Ends(msg), i)) = k
  BY <1>2 DEF End
<1> QED BY <1>1, <1>3

LEMMA FieldIs ==
  ASSUME NEW msg \in Seq(Nat), NEW a \in Ends(msg), NEW b \in Ends(msg), a < b,
         \A j \in Ends(msg) : j <= a \/ b <= j,
         NEW n \in Nat, Cardinality(Below(Ends(msg), a)) = n - 1
  PROVE  /\ Cardinality(Below(Ends(msg), b)) = n
         /\ Field(msg, n) = SubSeq(msg, a + 1, b - 1)
<1>1. Cardinality(Below(Ends(msg), b)) = n
  <2>1. Cardinality(Below(Ends(msg), b)) = Cardinality(Below(Ends(msg), a)) + 1
    BY EndsFacts, NextCounts
  <2> QED BY <2>1
<1>2. Below(Ends(msg), b) \in SUBSET Ends(msg)
  BY DEF Below
<1>3. Cardinality(Below(Ends(msg), b)) <= Cardinality(Ends(msg))
  BY <1>2, EndsFacts, FS_Subset
<1>4. End(msg, n) = b /\ End(msg, n - 1) = a
  <2>1. PICK k : k = n - 1
    OBVIOUS
  <2>2. End(msg, k) = a
    BY <2>1, EndIs
  <2> QED BY <1>1, <2>1, <2>2, EndIs
<1>5. ~(n > Cardinality(Ends(msg)))
  BY <1>1, <1>3, EndsFacts
<1> QED BY <1>1, <1>4, <1>5 DEF Field

-----------------------------------------------------------------------------
(* The state: what arrives is what was written, whole, in part or with     *)
(* more, and what has been read is processData of it.                      *)
FInv ==
  /\ chat \in Chats
  /\ \/ got = [chat_valid |-> -1]
     \/ arrival # "none" /\ got = processData(wire)
  /\ \/ arrival = "none"
     \/ arrival = "whole" /\ wire = writeDataBuffer(chat)
     \/ /\ arrival = "torn"
        /\ \E n \in 0 .. Len(writeDataBuffer(chat)) - 1 : wire = SubSeq(writeDataBuffer(chat), 1, n)
     \/ arrival = "joined" /\ wire = writeDataBuffer(chat) \o NormalSend

LEMMA Invariant == Spec => []FInv
<1>1. Init => FInv
  BY DEF Init, FInv
<1>2. FInv /\ [Next]_<<chat, arrival, wire, got>> => FInv'
  <2> SUFFICES ASSUME FInv, [Next]_<<chat, arrival, wire, got>> PROVE FInv'
    OBVIOUS
  <2>1. CASE Arrives
    <3>1. chat \in Chats /\ chat' = chat /\ got' = got /\ got = [chat_valid |-> -1]
      BY <2>1 DEF Arrives, FInv
    <3> HIDE DEF Chats
    <3> QED BY <2>1, <3>1 DEF Arrives, FInv
  <2>2. CASE Parses
    <3> HIDE DEF Chats
    <3> QED BY <2>2 DEF Parses, FInv
  <2>3. CASE UNCHANGED <<chat, arrival, wire, got>>
    BY <2>3 DEF FInv
  <2> QED BY <2>1, <2>2, <2>3 DEF Next
<1> QED BY <1>1, <1>2, PTL DEF Spec

LEMMA ReadIsParsed == FInv /\ Read => chat \in Chats /\ got = processData(wire)
BY DEF FInv, Read

-----------------------------------------------------------------------------
(* A text of which the end is missing does not end as a message does. *)
LEMMA TornText ==
  ASSUME NEW w \in Seq(Nat), NEW n \in 0 .. Len(w) - 1,
         \A i \in 1 .. Len(w) - 2 : SubSeq(w, i, i + 1) # <<At, Dollar>>
  PROVE  ~Framed(SubSeq(w, 1, n))
<1> DEFINE v == SubSeq(w, 1, n)
<1>1. SUFFICES ASSUME Framed(v) PROVE FALSE
  OBVIOUS
<1>2. /\ Len(w) \in Nat /\ n \in Nat /\ n <= Len(w)
  BY LenProperties
<1>3. /\ v \in Seq(Nat) /\ Len(v) = IF 1 <= n THEN n - 1 + 1 ELSE 0
      /\ \A i \in 1 .. n - 1 + 1 : v[i] = w[1 + i - 1]
  BY <1>2, PartFacts
<1>4. /\ Len(v) >= 3 /\ v[Len(v) - 1] = At /\ v[Len(v)] = Dollar
  BY <1>1 DEF Framed
<1> HIDE DEF v
<1>5. /\ Len(v) = n /\ 3 <= n /\ n - 1 \in 1 .. Len(w) - 2 /\ n \in 1 .. n - 1 + 1
      /\ n - 1 \in 1 .. n - 1 + 1 /\ 1 + n - 1 = n /\ 1 + (n - 1) - 1 = n - 1
  BY <1>2, <1>3, <1>4
<1>6. w[n - 1] = At /\ w[n] = Dollar
  BY <1>3, <1>4, <1>5
<1>7. PICK a \in Nat : a = n - 1
  BY <1>5
<1>8. /\ SubSeq(w, a, n) \in Seq(Nat) /\ Len(SubSeq(w, a, n)) = IF a <= n THEN n - a + 1 ELSE 0
      /\ \A i \in 1 .. n - a + 1 : SubSeq(w, a, n)[i] = w[a + i - 1]
  BY <1>2, <1>5, <1>7, PartFacts
<1>9. Len(SubSeq(w, a, n)) = 2 /\ SubSeq(w, a, n)[1] = w[a] /\ SubSeq(w, a, n)[2] = w[n]
  <2>1. /\ a <= n /\ n - a + 1 = 2 /\ 1 \in 1 .. n - a + 1 /\ 2 \in 1 .. n - a + 1
        /\ a + 1 - 1 = a /\ a + 2 - 1 = n
    BY <1>2, <1>7
  <2> QED BY <1>8, <2>1
<1>10. SubSeq(w, a, n) = <<At, Dollar>>
  <2>1. <<At, Dollar>> \in Seq(Nat) /\ Len(<<At, Dollar>>) = 2
    BY DEF At, Dollar
  <2>2. \A i \in 1 .. Len(SubSeq(w, a, n)) : SubSeq(w, a, n)[i] = <<At, Dollar>>[i]
    <3>1. \A i \in 1 .. Len(SubSeq(w, a, n)) : i = 1 \/ i = 2
      BY <1>9
    <3>2. SubSeq(w, a, n)[1] = At /\ SubSeq(w, a, n)[2] = Dollar
      BY <1>6, <1>7, <1>9
    <3>3. <<At, Dollar>>[1] = At /\ <<At, Dollar>>[2] = Dollar
      OBVIOUS
    <3> QED BY ONLY <3>1, <3>2, <3>3
  <2> QED BY <1>8, <1>9, <2>1, <2>2, SeqEqual
<1> QED BY <1>2, <1>5, <1>7, <1>10

(* A message that has been written, or sent, only in part is ignored,      *)
(* unless a field holds the two characters that end a message.             *)
THEOREM TornMessagesAreIgnored == Spec => []TornIsIgnored
<1>1. FInv => TornIsIgnored
  <2>1. SUFFICES ASSUME FInv, Read, arrival = "torn",
                        \A i \in 1 .. Len(writeDataBuffer(chat)) - 2 :
                          SubSeq(writeDataBuffer(chat), i, i + 1) # <<At, Dollar>>
                 PROVE  got = Initchat
    BY DEF TornIsIgnored
  <2>2. got = processData(wire) /\ writeDataBuffer(chat) \in Seq(Nat)
    BY <2>1, ReadIsParsed, TextFacts
  <2>3. PICK n \in 0 .. Len(writeDataBuffer(chat)) - 1 : wire = SubSeq(writeDataBuffer(chat), 1, n)
    BY <2>1 DEF FInv
  <2>4. ~Framed(wire)
    BY <2>1, <2>2, <2>3, TornText
  <2> QED BY <2>2, <2>4 DEF processData
<1> QED BY <1>1, Invariant, PTL

-----------------------------------------------------------------------------
(* The four separators of a message and what they count. *)
LEMMA FourSeparators ==
  ASSUME NEW c \in Chats
  PROVE  LET w == writeDataBuffer(c) IN
         /\ 5 \in Ends(w) /\ Second(c) \in Ends(w) /\ Third(c) \in Ends(w) /\ Last(c) \in Ends(w)
         /\ 5 < Second(c) /\ Second(c) < Third(c) /\ Third(c) < Last(c) /\ Last(c) \in Nat
         /\ \A j \in Ends(w) : 5 <= j /\ j <= Last(c)
         /\ Framed(w) /\ Len(w) = Last(c) + 2 /\ w \in Seq(Nat)
         /\ w[3] = c.chat_valid + Zero /\ w[4] = c.chat_command + Zero
         /\ c.chat_valid \in {0, 1} /\ c.chat_command \in 0 .. 9
<1> DEFINE w == writeDataBuffer(c)
<1>1. /\ w \in Seq(Nat) /\ Len(w) = Last(c) + 2
      /\ Sent(c) \in Nat /\ Received(c) \in Nat /\ Told(c) \in Nat
      /\ w[1] = Dollar /\ w[2] = At /\ w[3] = c.chat_valid + Zero /\ w[4] = c.chat_command + Zero
      /\ w[5] = Dollar /\ w[Second(c)] = Dollar /\ w[Third(c)] = Dollar
      /\ w[Last(c)] = Dollar /\ w[Last(c) + 1] = At /\ w[Last(c) + 2] = Dollar
  BY TextFacts
<1>2. c.chat_valid \in {0, 1} /\ c.chat_command \in 0 .. 9
  BY ChatFormatAssumption DEF Chats
<1> HIDE DEF w
<1>3. /\ 5 < Second(c) /\ Second(c) < Third(c) /\ Third(c) < Last(c)
      /\ Second(c) \in Nat /\ Third(c) \in Nat /\ Last(c) \in Nat
  <2>1. Sent(c) \in Nat /\ Received(c) \in Nat /\ Told(c) \in Nat
    BY <1>1
  <2> QED BY ONLY <2>1 DEF Second, Third, Last
<1>4. Len(w) - 2 = Last(c) /\ Len(w) - 1 = Last(c) + 1 /\ Len(w) >= 3
  <2>1. Len(w) = Last(c) + 2
    BY <1>1
  <2> QED BY ONLY <1>3, <2>1
<1>5. Ends(w) = {i \in 4 .. Last(c) : w[i] = Dollar}
  BY <1>4 DEF Ends
<1>6. /\ 5 \in 4 .. Last(c) /\ Second(c) \in 4 .. Last(c) /\ Third(c) \in 4 .. Last(c)
      /\ Last(c) \in 4 .. Last(c)
  BY <1>3
<1>7. 5 \in Ends(w) /\ Second(c) \in Ends(w) /\ Third(c) \in Ends(w) /\ Last(c) \in Ends(w)
  BY <1>1, <1>5, <1>6
<1>8. w[4] # Dollar
  <2>1. PICK k \in 0 .. 9 : w[4] = k + Zero
    BY <1>1, <1>2
  <2> QED BY ONLY <2>1 DEF Zero, Dollar
<1>9. ASSUME NEW j \in Ends(w) PROVE 5 <= j /\ j <= Last(c)
  <2>1. j \in 4 .. Last(c) /\ j # 4
    BY <1>5, <1>8
  <2> QED BY <1>3, <2>1
<1>10. Framed(w)
  BY <1>1, <1>4 DEF Framed
<1> QED BY <1>1, <1>2, <1>3, <1>7, <1>9, <1>10 DEF w

(* The first separator is the fifth character, whatever the fields hold;   *)
(* there are at least four, and one for each number up to four.            *)
LEMMA AtLeastFour ==
  ASSUME NEW c \in Chats
  PROVE  LET w == writeDataBuffer(c) IN
         /\ Cardinality(Below(Ends(w), 5)) = 1 /\ 4 <= Cardinality(Ends(w))
         /\ \A k \in 1 .. 4 : \E p \in Ends(w) : Cardinality(Below(Ends(w), p)) = k
<1> DEFINE w == writeDataBuffer(c)
           E == Ends(w)
           n(p) == Cardinality(Below(E, p))
<1>1. /\ 5 \in E /\ Second(c) \in E /\ Third(c) \in E /\ Last(c) \in E
      /\ 5 < Second(c) /\ Second(c) < Third(c) /\ Third(c) < Last(c)
      /\ \A j \in E : 5 <= j
      /\ w \in Seq(Nat)
  BY FourSeparators
<1> HIDE DEF w
<1>2. E \subseteq Nat /\ IsFiniteSet(E) /\ Cardinality(E) \in Nat
  BY <1>1, EndsFacts
<1> HIDE DEF E
<1>3. n(5) = 1
  BY <1>1, <1>2, FirstCounts
<1>4. /\ n(5) < n(Second(c)) /\ n(Second(c)) < n(Third(c)) /\ n(Third(c)) < n(Last(c))
      /\ \A p \in E : n(p) \in Nat
  BY <1>1, <1>2, BelowFacts
<1>5. \A p \in E : n(p) <= Cardinality(E)
  <2>1. \A p \in E : Below(E, p) \in SUBSET E
    BY DEF Below
  <2> QED BY <1>2, <2>1, FS_Subset
<1>6. 4 <= Cardinality(E)
  <2>1. /\ n(5) \in Nat /\ n(Second(c)) \in Nat /\ n(Third(c)) \in Nat /\ n(Last(c)) \in Nat
        /\ n(Last(c)) <= Cardinality(E)
    BY <1>1, <1>4, <1>5
  <2> HIDE DEF n
  <2> QED BY <1>2, <1>3, <1>4, <2>1
<1>7. \A p \in E : n(p) < Cardinality(E) => \E q \in E : n(q) = n(p) + 1
  BY <1>2, HasNext
<1> HIDE DEF n
<1>8. PICK p2 \in E : n(p2) = 2
  BY <1>1, <1>2, <1>3, <1>6, <1>7
<1>9. PICK p3 \in E : n(p3) = 3
  BY <1>2, <1>6, <1>7, <1>8
<1>10. PICK p4 \in E : n(p4) = 4
  BY <1>2, <1>6, <1>7, <1>9
<1>11. ASSUME NEW k \in 1 .. 4 PROVE \E p \in E : n(p) = k
  <2>1. k = 1 \/ k = 2 \/ k = 3 \/ k = 4
    OBVIOUS
  <2> QED BY <1>1, <1>3, <1>8, <1>9, <1>10, <2>1
<1> QED BY <1>3, <1>6, <1>11 DEF n, E, w

-----------------------------------------------------------------------------
(* A text that goes on: the separators before its end are the same and     *)
(* count the same, and so are the fields they end.                         *)
LEMMA FirstFields ==
  ASSUME NEW c \in Chats, NEW v \in Seq(Nat),
         Len(writeDataBuffer(c)) <= Len(v),
         \A i \in 1 .. Len(writeDataBuffer(c)) : v[i] = writeDataBuffer(c)[i]
  PROVE  LET w == writeDataBuffer(c) IN
         /\ Ends(v) # {} /\ End(v, 1) = End(w, 1) /\ End(w, 1) = 5
         /\ \A k \in 2 .. 4 : Field(v, k) = Field(w, k)
<1> DEFINE w == writeDataBuffer(c)
           E == Ends(w)
           F == Ends(v)
<1>1. /\ w \in Seq(Nat) /\ Len(w) = Last(c) + 2 /\ Last(c) \in Nat /\ 5 \in E
      /\ \A j \in E : 5 <= j /\ j <= Last(c)
      /\ Cardinality(Below(E, 5)) = 1 /\ 4 <= Cardinality(E)
      /\ \A k \in 1 .. 4 : \E p \in E : Cardinality(Below(E, p)) = k
  BY FourSeparators, AtLeastFour
<1>2. Len(w) <= Len(v) /\ Len(v) \in Nat /\ \A i \in 1 .. Len(w) : v[i] = w[i]
  BY LenProperties
<1> HIDE DEF w
<1>3. E = {j \in F : j <= Last(c)}
  <2>0. Len(w) = Last(c) + 2 /\ Last(c) \in Nat
    BY <1>1
  <2>1. Len(w) - 2 = Last(c) /\ Last(c) <= Len(v) - 2
    BY ONLY <1>2, <2>0
  <2>2. \A j \in 4 .. Last(c) : v[j] = w[j]
    <3>1. \A j \in 4 .. Last(c) : j \in 1 .. Len(w)
      BY <2>0
    <3> QED BY <1>2, <3>1
  <2>3. E = {j \in 4 .. Last(c) : w[j] = Dollar}
    BY <2>1 DEF Ends
  <2>4. {j \in F : j <= Last(c)} = {j \in 4 .. Last(c) : v[j] = Dollar}
    <3>1. \A j : j \in 4 .. Len(v) - 2 /\ j <= Last(c) <=> j \in 4 .. Last(c)
      BY ONLY <1>2, <2>0, <2>1
    <3> QED BY ONLY <3>1 DEF Ends, F
  <2> QED BY <2>2, <2>3, <2>4
<1>4. E \subseteq Nat /\ IsFiniteSet(E) /\ F \subseteq Nat /\ IsFiniteSet(F)
      /\ Cardinality(E) \in Nat /\ Cardinality(F) \in Nat
  BY <1>1, EndsFacts
<1>5. \A p \in E : p \in F /\ Below(F, p) = Below(E, p)
  <2>1. ASSUME NEW p \in E, NEW j \in F, j <= p PROVE j \in E
    <3>1. j \in Nat /\ p \in Nat /\ p <= Last(c)
      BY <1>1, <1>4
    <3> QED BY <1>1, <1>3, <2>1, <3>1
  <2>2. E \subseteq F
    BY <1>3
  <2> HIDE DEF E, F
  <2> QED BY <2>1, <2>2 DEF Below
<1>6. \A p \in E : /\ End(w, Cardinality(Below(E, p))) = p
                   /\ End(v, Cardinality(Below(E, p))) = p
  BY <1>1, <1>5, EndIs
<1>7. 4 <= Cardinality(F)
  <2>1. E \in SUBSET F
    BY <1>3
  <2> HIDE DEF E, F
  <2>2. Cardinality(E) <= Cardinality(F)
    BY <1>4, <2>1, FS_Subset
  <2>3. 4 <= Cardinality(E)
    BY <1>1
  <2> QED BY ONLY <1>4, <2>2, <2>3
<1>8. \A k \in 1 .. 4 : End(v, k) = End(w, k) /\ End(w, k) \in E
  BY <1>1, <1>6
<1>9. ASSUME NEW k \in 2 .. 4 PROVE Field(v, k) = Field(w, k)
  <2>1. k \in 1 .. 4 /\ k - 1 \in 1 .. 4 /\ ~(k > Cardinality(E)) /\ ~(k > Cardinality(F))
    <3>1. k \in 1 .. 4 /\ k - 1 \in 1 .. 4 /\ k <= 4 /\ k \in Nat
      OBVIOUS
    <3>2. 4 <= Cardinality(E) /\ Cardinality(E) \in Nat /\ Cardinality(F) \in Nat
      BY <1>1, <1>4
    <3> QED BY ONLY <1>7, <3>1, <3>2
  <2>2. PICK a \in E : a = End(w, k - 1) /\ a = End(v, k - 1)
    BY <1>8, <2>1
  <2>3. PICK b \in E : b = End(w, k) /\ b = End(v, k)
    BY <1>8, <2>1
  <2>4. a \in Nat /\ b \in Nat /\ b <= Last(c)
    BY <1>1, <1>4
  <2>5. PICK x \in Nat : x = a + 1
    BY <2>4
  <2>6. PICK y \in Int : y = b - 1
    BY <2>4
  <2>7. 1 <= x /\ y <= Len(w)
    <3>1. Len(w) = Last(c) + 2 /\ Last(c) \in Nat
      BY <1>1
    <3> QED BY ONLY <2>4, <2>5, <2>6, <3>1
  <2>8. SubSeq(w, x, y) = SubSeq(v, x, y)
    BY <1>1, <1>2, <2>5, <2>6, <2>7, SameSpan
  <2>9. Field(w, k) = SubSeq(w, x, y) /\ Field(v, k) = SubSeq(v, x, y)
    BY <2>1, <2>2, <2>3, <2>5, <2>6 DEF Field
  <2> QED BY <2>8, <2>9
<1>10. End(w, 1) = 5 /\ End(v, 1) = 5 /\ F # {}
  BY <1>1, <1>5, <1>6
<1> QED BY <1>9, <1>10 DEF w

(* Of two messages in one read the first is understood as it would have    *)
(* been alone.                                                             *)
THEOREM FirstMessageWins == Spec => []FirstOfJoined
<1>1. FInv => FirstOfJoined
  <2>1. SUFFICES ASSUME FInv, Read, arrival = "joined"
                 PROVE  got = processData(writeDataBuffer(chat))
    BY DEF FirstOfJoined
  <2> DEFINE w == writeDataBuffer(chat)
             v == w \o NormalSend
  <2>2. chat \in Chats /\ got = processData(wire) /\ wire = v
    BY <2>1, ReadIsParsed DEF FInv
  <2>3. /\ w \in Seq(Nat) /\ Framed(w) /\ 5 \in Ends(w) /\ Len(w) = Last(chat) + 2
        /\ Last(chat) \in Nat /\ 5 < Last(chat)
    <3> HIDE DEF Chats
    <3>1. Last(chat) \in Nat /\ 5 < Second(chat) /\ Second(chat) < Third(chat) /\ Third(chat) < Last(chat)
      BY <2>2, FourSeparators
    <3>2. Second(chat) \in Nat /\ Third(chat) \in Nat
      BY <2>2, TextFacts DEF Second, Third
    <3> QED BY <2>2, <3>1, <3>2, FourSeparators
  <2>4. /\ NormalSend \in Seq(Nat) /\ Len(NormalSend) = 9
        /\ NormalSend[8] = At /\ NormalSend[9] = Dollar
    BY DEF NormalSend, Dollar, At, Zero
  <2> HIDE DEF w
  <2>5. /\ v \in Seq(Nat) /\ Len(v) = Len(w) + Len(NormalSend)
        /\ \A i \in 1 .. Len(w) : v[i] = w[i]
        /\ \A i \in 1 .. Len(NormalSend) : v[Len(w) + i] = NormalSend[i]
    <3>1. PICK n : n = Len(w)
      OBVIOUS
    <3>2. w \in Seq(Nat) /\ NormalSend \in Seq(Nat)
      BY <2>3, <2>4
    <3> QED BY ONLY <3>1, <3>2, Joined
  <2> HIDE DEF v
  <2>6. Len(w) \in Nat /\ Len(v) = Len(w) + 9 /\ 3 <= Len(w)
    BY <2>3, <2>4, <2>5
  <2>7. /\ v[1] = w[1] /\ v[2] = w[2] /\ v[3] = w[3] /\ v[4] = w[4]
    <3>1. 1 \in 1 .. Len(w) /\ 2 \in 1 .. Len(w) /\ 3 \in 1 .. Len(w) /\ 4 \in 1 .. Len(w)
      BY <2>3, <2>6
    <3> QED BY <2>5, <3>1
  <2>8. v[Len(v) - 1] = At /\ v[Len(v)] = Dollar
    <3>1. /\ 8 \in 1 .. 9 /\ 9 \in 1 .. 9 /\ Len(v) - 1 = Len(w) + 8 /\ Len(v) = Len(w) + 9
      BY <2>6
    <3> QED BY <2>4, <2>5, <3>1
  <2>9. Framed(v)
    BY <2>3, <2>6, <2>7, <2>8 DEF Framed
  <2>10. /\ Ends(v) # {} /\ End(v, 1) = End(w, 1) /\ End(w, 1) = 5
         /\ \A k \in 2 .. 4 : Field(v, k) = Field(w, k)
    <3>1. Len(w) <= Len(v)
      BY <2>6
    <3> QED BY <2>2, <2>5, <3>1, FirstFields DEF w
  <2>11. Field(v, 2) = Field(w, 2) /\ Field(v, 3) = Field(w, 3) /\ Field(v, 4) = Field(w, 4)
    BY <2>10
  <2>12. v[End(v, 1) - 1] = w[End(w, 1) - 1]
    BY <2>7, <2>10
  <2>13. processData(v) = processData(w)
    BY <2>3, <2>7, <2>9, <2>10, <2>11, <2>12 DEF processData
  <2> QED BY <2>2, <2>13 DEF w
<1> QED BY <1>1, Invariant, PTL

-----------------------------------------------------------------------------
(* A field without "$" has no separator inside. *)
LEMMA NoneBetween ==
  ASSUME NEW w \in Seq(Nat), NEW t \in Seq(Nat), HasNo(Dollar, t),
         NEW a \in Nat, NEW b \in Nat, b = a + Len(t) + 1,
         \A i \in 1 .. Len(t) : w[a + i] = t[i]
  PROVE  \A j \in Ends(w) : j <= a \/ b <= j
<1>1. SUFFICES ASSUME NEW j \in Ends(w), a < j, j < b PROVE FALSE
  <2>1. \A j \in Ends(w) : j \in Nat
    BY EndsFacts
  <2> QED BY <2>1
<1>2. j \in Nat /\ w[j] = Dollar
  BY EndsFacts DEF Ends
<1>3. PICK i \in Nat : i = j - a
  BY <1>1, <1>2
<1>4. i \in 1 .. Len(t) /\ a + i = j
  <2>1. Len(t) \in Nat
    OBVIOUS
  <2> QED BY ONLY b = a + Len(t) + 1, a \in Nat, b \in Nat, <1>1, <1>2, <1>3, <2>1
<1>5. t[i] = Dollar /\ i \in DOMAIN t
  BY <1>2, <1>4
<1> QED BY <1>5 DEF HasNo

(* The first "$" of a text that has one, and the part before it. *)
LEMMA FirstDollar ==
  ASSUME NEW t \in Seq(Nat), ~HasNo(Dollar, t)
  PROVE  \E d \in 1 .. Len(t) : /\ t[d] = Dollar /\ \A i \in 1 .. d - 1 : t[i] # Dollar
                                /\ UpToDollar(t) = SubSeq(t, 1, d - 1)
<1> DEFINE D == {i \in 1 .. Len(t) : t[i] = Dollar}
           P(i) == t[i] = Dollar /\ HasNo(Dollar, SubSeq(t, 1, i - 1))
<1>1. Len(t) \in Nat /\ DOMAIN t = 1 .. Len(t)
  OBVIOUS
<1>2. D # {} /\ D \subseteq Nat
  BY <1>1 DEF HasNo
<1>3. PICK d \in D : \A i \in D : d <= i
  <2> HIDE DEF D
  <2> QED BY <1>2, HasLeast
<1>4. d \in 1 .. Len(t) /\ t[d] = Dollar /\ d \in Nat
  BY <1>1, <1>3
<1>5. \A i \in 1 .. d - 1 : t[i] # Dollar
  <2>1. ASSUME NEW i \in 1 .. d - 1, t[i] = Dollar PROVE FALSE
    <3>1. i \in 1 .. Len(t) /\ ~(d <= i)
      BY <1>1, <1>4
    <3> QED BY <1>3, <2>1, <3>1
  <2> QED BY <2>1
<1>6. ASSUME NEW i \in 1 .. Len(t)
      PROVE  /\ DOMAIN SubSeq(t, 1, i - 1) = 1 .. i - 1
             /\ \A x \in 1 .. i - 1 : SubSeq(t, 1, i - 1)[x] = t[x]
  <2>1. PICK y \in Int : y = i - 1
    OBVIOUS
  <2>2. y <= Len(t) /\ 0 <= y
    BY <1>1, <2>1
  <2>3. /\ SubSeq(t, 1, y) \in Seq(Nat) /\ Len(SubSeq(t, 1, y)) = IF 1 <= y THEN y - 1 + 1 ELSE 0
        /\ \A x \in 1 .. y - 1 + 1 : SubSeq(t, 1, y)[x] = t[1 + x - 1]
    BY <2>2, PartFacts
  <2>4. y - 1 + 1 = y /\ (\A x \in 1 .. y : 1 + x - 1 = x) /\ (~(1 <= y) => y = 0)
    BY <2>2
  <2>5. Len(SubSeq(t, 1, y)) = y /\ \A x \in 1 .. y : SubSeq(t, 1, y)[x] = t[x]
    BY <2>3, <2>4
  <2>6. DOMAIN SubSeq(t, 1, y) = 1 .. y
    BY <2>3, <2>5, LenProperties
  <2> QED BY <2>1, <2>5, <2>6
<1>7. P(d)
  BY <1>4, <1>5, <1>6 DEF HasNo
<1>8. ASSUME NEW i \in 1 .. Len(t), P(i) PROVE i = d
  <2>1. ~(i < d)
    BY <1>5, <1>8, <1>4
  <2>2. ASSUME d < i PROVE FALSE
    <3>1. d \in 1 .. i - 1
      BY <1>4, <2>2
    <3>2. SubSeq(t, 1, i - 1)[d] = Dollar /\ d \in DOMAIN SubSeq(t, 1, i - 1)
      BY <1>4, <1>6, <3>1
    <3> QED BY <1>8, <3>2 DEF HasNo
  <2> QED BY <1>4, <2>1, <2>2
<1>9. (CHOOSE i \in 1 .. Len(t) : P(i)) = d
  <2> HIDE DEF P
  <2> QED BY <1>4, <1>7, <1>8
<1>10. UpToDollar(t) = SubSeq(t, 1, d - 1)
  BY <1>1, <1>9 DEF UpToDollar
<1> QED BY <1>4, <1>5, <1>10

-----------------------------------------------------------------------------
(* The names of a message whose names have no "$", and of its text the     *)
(* part before the first "$".                                              *)
LEMMA PlainFields ==
  ASSUME NEW c \in Chats, HasNo(Dollar, c.chat_sendName), HasNo(Dollar, c.chat_receiveName)
  PROVE  LET w == writeDataBuffer(c) IN
         /\ Field(w, 2) = c.chat_sendName
         /\ Field(w, 3) = c.chat_receiveName
         /\ Field(w, 4) = UpToDollar(c.chat_message)
<1> DEFINE w == writeDataBuffer(c)
           E == Ends(w)
           s == c.chat_sendName
           r == c.chat_receiveName
           m == c.chat_message
<1>1. /\ w \in Seq(Nat) /\ Len(w) = Last(c) + 2
      /\ \A i \in 1 .. Sent(c) : w[5 + i] = s[i]
      /\ \A i \in 1 .. Received(c) : w[Second(c) + i] = r[i]
      /\ \A i \in 1 .. Told(c) : w[Third(c) + i] = m[i]
  BY TextFacts
<1>2. /\ s \in Seq(Nat) /\ r \in Seq(Nat) /\ m \in Seq(Nat)
      /\ Len(s) = Sent(c) /\ Len(r) = Received(c) /\ Len(m) = Told(c)
      /\ Sent(c) \in Nat /\ Received(c) \in Nat /\ Told(c) \in Nat
      /\ DOMAIN m = 1 .. Told(c)
  BY FieldFacts DEF Chats, Sent, Received, Told
<1>3. /\ 5 \in E /\ Second(c) \in E /\ Third(c) \in E /\ Last(c) \in E
      /\ 5 < Second(c) /\ Second(c) < Third(c) /\ Third(c) < Last(c)
      /\ \A j \in E : 5 <= j /\ j <= Last(c)
      /\ Cardinality(Below(E, 5)) = 1
  BY FourSeparators, AtLeastFour
<1>4. HasNo(Dollar, s) /\ HasNo(Dollar, r)
  OBVIOUS
<1> HIDE DEF w, s, r, m
<1>5. /\ Second(c) \in Nat /\ Third(c) \in Nat /\ Last(c) \in Nat
      /\ Second(c) = 5 + Sent(c) + 1 /\ Third(c) = Second(c) + Received(c) + 1
      /\ Last(c) = Third(c) + Told(c) + 1
      /\ Second(c) <= Last(c) + 2 /\ Third(c) <= Last(c) + 2 /\ Last(c) <= Last(c) + 2
  <2>1. Sent(c) \in Nat /\ Received(c) \in Nat /\ Told(c) \in Nat
    BY <1>2
  <2> QED BY ONLY <2>1 DEF Second, Third, Last
<1>6. PICK a \in Nat : a = 5
  OBVIOUS
<1>7. Cardinality(Below(E, Second(c))) = 2 /\ Field(w, 2) = s
  <2>1. \A j \in E : j <= a \/ Second(c) <= j
    <3>1. Second(c) = a + Len(s) + 1 /\ \A i \in 1 .. Len(s) : w[a + i] = s[i]
      BY <1>1, <1>2, <1>5, <1>6
    <3> QED BY ONLY <1>1, <1>2, <1>4, <1>5, <3>1, NoneBetween
  <2>2. /\ Cardinality(Below(E, Second(c))) = 2
        /\ Field(w, 2) = SubSeq(w, a + 1, Second(c) - 1)
    <3>1. PICK n \in Nat : n = 2
      OBVIOUS
    <3>2. a \in E /\ Second(c) \in E /\ a < Second(c) /\ Cardinality(Below(E, a)) = n - 1
      BY <1>3, <1>6, <3>1
    <3>3. /\ Cardinality(Below(E, Second(c))) = n
          /\ Field(w, n) = SubSeq(w, a + 1, Second(c) - 1)
      BY ONLY <1>1, <2>1, <3>2, FieldIs, n \in Nat
    <3> QED BY <3>1, <3>3
  <2>3. SubSeq(w, a + 1, Second(c) - 1) = s
    <3>1. Second(c) = a + Len(s) + 1 /\ Second(c) <= Len(w)
      BY <1>1, <1>2, <1>5, <1>6
    <3>2. \A i \in 1 .. Len(s) : w[a + i] = s[i]
      BY <1>1, <1>2, <1>6
    <3> QED BY ONLY <1>1, <1>2, <1>5, <3>1, <3>2, SpanIs
  <2> QED BY <2>2, <2>3
<1>8. Cardinality(Below(E, Third(c))) = 3 /\ Field(w, 3) = r
  <2>1. Third(c) = Second(c) + Len(r) + 1 /\ Third(c) <= Len(w)
    BY <1>1, <1>2, <1>5
  <2>2. \A i \in 1 .. Len(r) : w[Second(c) + i] = r[i]
    BY <1>1, <1>2
  <2>3. \A j \in E : j <= Second(c) \/ Third(c) <= j
    BY ONLY <1>1, <1>2, <1>4, <1>5, <2>1, <2>2, NoneBetween
  <2>4. /\ Cardinality(Below(E, Third(c))) = 3
        /\ Field(w, 3) = SubSeq(w, Second(c) + 1, Third(c) - 1)
    <3>1. PICK n \in Nat : n = 3
      OBVIOUS
    <3>2. Cardinality(Below(E, Second(c))) = n - 1
      BY <1>7, <3>1
    <3>3. /\ Cardinality(Below(E, Third(c))) = n
          /\ Field(w, n) = SubSeq(w, Second(c) + 1, Third(c) - 1)
      BY ONLY <1>1, <1>3, <2>3, <3>2, FieldIs, n \in Nat
    <3> QED BY <3>1, <3>3
  <2>5. SubSeq(w, Second(c) + 1, Third(c) - 1) = r
    BY ONLY <1>1, <1>2, <1>5, <2>1, <2>2, SpanIs
  <2> QED BY <2>4, <2>5
<1>9. \A i \in 1 .. Len(m) : w[Third(c) + i] = m[i]
  BY <1>1, <1>2
<1>10. CASE HasNo(Dollar, m)
  <2>1. Last(c) = Third(c) + Len(m) + 1 /\ Last(c) <= Len(w)
    BY <1>1, <1>2, <1>5
  <2>2. \A j \in E : j <= Third(c) \/ Last(c) <= j
    BY ONLY <1>1, <1>2, <1>5, <1>9, <1>10, <2>1, NoneBetween
  <2>3. Field(w, 4) = SubSeq(w, Third(c) + 1, Last(c) - 1)
    <3>1. PICK n \in Nat : n = 4
      OBVIOUS
    <3>2. Cardinality(Below(E, Third(c))) = n - 1
      BY <1>8, <3>1
    <3>3. Field(w, n) = SubSeq(w, Third(c) + 1, Last(c) - 1)
      BY ONLY <1>1, <1>3, <2>2, <3>2, FieldIs, n \in Nat
    <3> QED BY <3>1, <3>3
  <2>4. SubSeq(w, Third(c) + 1, Last(c) - 1) = m
    BY ONLY <1>1, <1>2, <1>5, <1>9, <2>1, SpanIs
  <2>5. UpToDollar(m) = m
    BY <1>10 DEF UpToDollar
  <2> QED BY <1>7, <1>8, <2>3, <2>4, <2>5 DEF w, s, r, m
<1>11. CASE ~HasNo(Dollar, m)
  <2>1. PICK d \in 1 .. Len(m) : /\ m[d] = Dollar /\ \A i \in 1 .. d - 1 : m[i] # Dollar
                                 /\ UpToDollar(m) = SubSeq(m, 1, d - 1)
    BY <1>2, <1>11, FirstDollar
  <2>2. PICK y \in Int : y = d - 1
    OBVIOUS
  <2>3. PICK p \in Nat : p = Third(c) + d
    BY <1>5
  <2>4. /\ d \in Nat /\ y \in Nat /\ y <= Len(m) /\ y - 1 + 1 = y /\ p = Third(c) + y + 1
        /\ Third(c) < p /\ p < Last(c) /\ p \in 4 .. Last(c) /\ p <= Len(w) /\ (~(1 <= y) => y = 0)
    <3>1. Len(m) \in Nat /\ Last(c) = Third(c) + Len(m) + 1 /\ Len(w) = Last(c) + 2 /\ 3 < Third(c)
      <4>1. Len(m) = Told(c) /\ Len(w) = Last(c) + 2 /\ 5 < Second(c) /\ Second(c) < Third(c)
        BY <1>1, <1>2, <1>3
      <4> QED BY ONLY <1>2, <1>5, <4>1
    <3> QED BY ONLY <1>5, <2>2, <2>3, <3>1, d \in 1 .. Len(m)
  <2>5. /\ SubSeq(m, 1, y) \in Seq(Nat) /\ Len(SubSeq(m, 1, y)) = y
        /\ \A x \in 1 .. y : SubSeq(m, 1, y)[x] = m[x]
    <3>1. /\ SubSeq(m, 1, y) \in Seq(Nat)
          /\ Len(SubSeq(m, 1, y)) = IF 1 <= y THEN y - 1 + 1 ELSE 0
          /\ \A x \in 1 .. y - 1 + 1 : SubSeq(m, 1, y)[x] = m[1 + x - 1]
      BY <1>2, <2>4, PartFacts
    <3>2. \A x \in 1 .. y : 1 + x - 1 = x
      OBVIOUS
    <3> QED BY <2>4, <3>1, <3>2
  <2> DEFINE u == SubSeq(m, 1, y)
  <2>6. HasNo(Dollar, u)
    <3>1. DOMAIN u = 1 .. y
      BY <2>5, LenProperties
    <3> QED BY <2>1, <2>2, <2>5, <3>1 DEF HasNo
  <2>7. \A i \in 1 .. Len(u) : w[Third(c) + i] = u[i]
    <3>1. \A i \in 1 .. y : i \in 1 .. Len(m)
      BY <1>2, <2>4
    <3> QED BY <1>9, <2>5, <3>1
  <2>8. u \in Seq(Nat) /\ p = Third(c) + Len(u) + 1
    BY <2>4, <2>5
  <2> HIDE DEF u
  <2>9. p \in E
    <3>1. d \in 1 .. Len(m) /\ w[p] = Dollar
      BY <1>9, <2>1, <2>3
    <3>2. Len(w) - 2 = Last(c)
      BY <1>1, <1>5
    <3> QED BY <2>4, <3>1, <3>2 DEF Ends
  <2>10. \A j \in E : j <= Third(c) \/ p <= j
    BY ONLY <1>1, <1>5, <2>6, <2>7, <2>8, NoneBetween, p \in Nat
  <2>11. Field(w, 4) = SubSeq(w, Third(c) + 1, p - 1)
    <3>1. PICK n \in Nat : n = 4
      OBVIOUS
    <3>2. Third(c) \in E /\ Third(c) < p /\ Cardinality(Below(E, Third(c))) = n - 1
      BY <1>3, <1>8, <2>4, <3>1
    <3>3. Field(w, n) = SubSeq(w, Third(c) + 1, p - 1)
      BY ONLY <1>1, <2>9, <2>10, <3>2, FieldIs, n \in Nat
    <3> QED BY <3>1, <3>3
  <2>12. SubSeq(w, Third(c) + 1, p - 1) = u
    BY ONLY <1>1, <1>5, <2>4, <2>7, <2>8, SpanIs, p \in Nat
  <2>13. UpToDollar(m) = u
    BY <2>1, <2>2 DEF u
  <2> QED BY <1>7, <1>8, <2>11, <2>12, <2>13 DEF w, s, r, m
<1> QED BY <1>10, <1>11

(* A message that has arrived whole is understood: a valid one as it was   *)
(* written, up to a "$" in its text, when its names have none; one that is *)
(* not valid as nothing.                                                   *)
THEOREM WholeMessagesAreUnderstood == Spec => []RoundTrip
<1>1. FInv => RoundTrip
  <2>1. SUFFICES ASSUME FInv, Read, arrival = "whole"
                 PROVE  got = IF chat.chat_valid = 0 THEN Initchat
                              ELSE IF NamesPlain THEN Understood ELSE [got EXCEPT !.chat_valid = 1]
    BY DEF RoundTrip
  <2> DEFINE w == writeDataBuffer(chat)
  <2>2. chat \in Chats /\ got = processData(w)
    BY <2>1, ReadIsParsed DEF FInv
  <2>3. /\ Framed(w) /\ w[3] = chat.chat_valid + Zero /\ w[4] = chat.chat_command + Zero
        /\ chat.chat_valid \in {0, 1} /\ chat.chat_command \in 0 .. 9
        /\ 5 \in Ends(w) /\ Cardinality(Below(Ends(w), 5)) = 1 /\ w \in Seq(Nat)
    <3> HIDE DEF Chats
    <3> QED BY <2>2, FourSeparators, AtLeastFour
  <2> HIDE DEF w
  <2>4. CASE chat.chat_valid = 0
    <3>1. w[3] = Zero
      BY <2>3, <2>4 DEF Zero
    <3> QED BY <2>2, <2>4, <3>1 DEF processData
  <2>5. CASE chat.chat_valid = 1
    <3>1. w[3] # Zero /\ w[3] - Zero = 1
      BY <2>3, <2>5 DEF Zero
    <3>2. Ends(w) # {} /\ End(w, 1) = 5
      BY <2>3, EndIs
    <3>3. w[End(w, 1) - 1] - Zero = chat.chat_command
      <4>1. PICK k \in 0 .. 9 : k = chat.chat_command
        BY <2>3
      <4>2. w[End(w, 1) - 1] = k + Zero
        BY <2>3, <3>2, <4>1
      <4>3. (k + Zero) - Zero = k
        BY DEF Zero
      <4> QED BY <4>1, <4>2, <4>3
    <3>4. got = [chat_valid |-> 1, chat_command |-> chat.chat_command,
                 chat_sendName |-> Field(w, 2), chat_receiveName |-> Field(w, 3),
                 chat_message |-> Field(w, 4)]
      BY <2>2, <2>3, <3>1, <3>2, <3>3 DEF processData
    <3>5. CASE NamesPlain
      <4>1. /\ Field(w, 2) = chat.chat_sendName /\ Field(w, 3) = chat.chat_receiveName
            /\ Field(w, 4) = UpToDollar(chat.chat_message)
        <5> HIDE DEF Chats
        <5> QED BY <2>2, <3>5, PlainFields DEF NamesPlain, w
      <4>2. Understood = [chat_valid |-> 1, chat_command |-> chat.chat_command,
                          chat_sendName |-> chat.chat_sendName,
                          chat_receiveName |-> chat.chat_receiveName,
                          chat_message |-> UpToDollar(chat.chat_message)]
        BY <2>2, <2>5 DEF Understood, Chats
      <4> QED BY <2>5, <3>4, <3>5, <4>1, <4>2
    <3>6. CASE ~NamesPlain
      <4>1. [got EXCEPT !.chat_valid = 1] = got
        BY <3>4
      <4> QED BY <2>5, <3>6, <4>1
    <3> QED BY <3>5, <3>6
  <2> QED BY <2>3, <2>4, <2>5
<1> QED BY <1>1, Invariant, PTL
=============================================================================
