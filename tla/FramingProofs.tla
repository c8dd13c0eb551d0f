--------------------------- MODULE FramingProofs ---------------------------
(***************************************************************************)
(* Proofs about Framing for any header length, node size, messages and     *)
(* number of messages.                                                     *)
(***************************************************************************)
EXTENDS Framing, SequenceTheorems, TLAPS

(***************************************************************************)
(* The bytes on their way: the wire and behind it what is still to be      *)
(* written; and the same with what the receiver has in its array.          *)
(***************************************************************************)
Way == wire \o pending
Hand == bt \o Way

Enc(i) == EncodedLen(sent[i])

(***************************************************************************)
(* The inductive invariant.  Intact speaks of what was delivered; that it  *)
(* stays so depends on where in the stream the receiver is, which differs  *)
(* between the two kinds of network.                                       *)
(***************************************************************************)
\* What was sent fits a node.
SentFit == \A i \in 1..Len(sent) : sent[i].err <= sent[i].content /\ Enc(i) <= m_base_size

\* A sender that is gone writes nothing more.
GoneIsQuiet == closed => pending = <<>>

\* The receiver's bytes are bytes of messages, and "left" counts them.
BtSent == \A j \in 1..Len(bt) : bt[j].of \in 1..Len(sent)
LeftCounts == pc \in {"header", "payload"} => left = Length - Len(bt)

\* The bytes on their way are those of messages that were sent ...
WaySent == \A j \in 1..Len(Way) :
             Way[j].of \in 1..Len(sent) /\ Way[j].at < Enc(Way[j].of)

\* ... a message's bytes follow each other, ...
WayRuns == \A j \in 1..Len(Way) : \A d \in Nat :
             (j + d <= Len(Way) /\ Way[j].at + d < Enc(Way[j].of))
               => Way[j + d] = Byte(Way[j].of, Way[j].at + d)

\* ... the next message follows its last, ...
WayGoesOn == \A j \in 1..Len(Way) :
               (j + 1 <= Len(Way) /\ Way[j].at + 1 = Enc(Way[j].of))
                 => Way[j + 1] = Byte(Way[j].of + 1, 0)

\* ... and the last byte is that of the last message.
WayEnds == (~closed /\ Len(Way) > 0)
             => /\ Way[Len(Way)].of = Len(sent)
                /\ Way[Len(Way)].at + 1 = Enc(Len(sent))

\* The message the receiver is at.
Current == Len(received) + 1

\* Have the messages up to the one in the receiver's hands no error text.
Good == /\ ~(network.pipelined /\ network.short)
        /\ \/ pc = "header" /\ Plain(Min2(Len(received), Len(sent)))
           \/ pc = "payload" /\ Plain(Min2(Current, Len(sent)))

Begin == IF pc = "header" THEN 0 ELSE kHeaderLen

\* The stream goes on with byte "at" of the current message, and if that is
\* all of it, with the next one.
GoesOnAt(at) ==
  IF Current <= Len(sent) /\ at = Enc(Current)
    THEN /\ Len(Way) > 0 => Way[1] = Byte(Current + 1, 0)
         /\ Len(Way) = 0 => closed \/ Len(sent) = Current
    ELSE /\ Len(Way) > 0 => Way[1] = Byte(Current, at)
         /\ Len(Way) = 0 => closed \/ (at = 0 /\ Len(sent) = Len(received))

\* The receiver knows the message it is at.
Knows == Good => /\ Len(received) <= Len(sent)
                 /\ pc = "payload" => /\ Current <= Len(sent) /\ msg = Header(Current)
                                      /\ msg.len > 0

\* If no read comes short a read gives all that was asked for and nothing
\* else, unless the sender is gone.
PlaceExact ==
  (Good /\ ~network.short) =>
    /\ Len(bt) = 0 => GoesOnAt(Begin)
    /\ Len(bt) > 0 =>
         /\ Current <= Len(sent)
         /\ \A j \in 1..Len(bt) : bt[j] = Byte(Current, Begin + j - 1)
         /\ \/ left = 0 /\ GoesOnAt(Begin + Length)
            \/ left > 0 /\ closed /\ Len(wire) = 0

\* If reads come short but only one message is on its way, too many bytes may
\* be taken for its header: then too few are left for it to be delivered.
PlaceAlone ==
  (Good /\ network.short) =>
    /\ Len(sent) <= Current
    /\ pc = "header" =>
         /\ Len(Hand) = 0 => closed \/ Len(sent) = Len(received)
         /\ Len(Hand) > 0 => /\ Len(sent) = Current /\ Len(Hand) <= Enc(Current)
                            /\ \A j \in 1..Len(Hand) : Hand[j] = Byte(Current, j - 1)
    /\ pc = "payload" =>
         \E o \in Nat : /\ kHeaderLen <= o /\ o + Len(Hand) <= Enc(Current)
                        /\ \A j \in 1..Len(Hand) : Hand[j] = Byte(Current, o + j - 1)

WayInv == WaySent /\ WayRuns /\ WayGoesOn /\ WayEnds
CountInv == SentFit /\ GoneIsQuiet /\ BtSent /\ LeftCounts
PlaceInv == Knows /\ PlaceExact /\ PlaceAlone /\ Intact

IInv == TypeOK /\ CountInv /\ WayInv /\ PlaceInv

(***************************************************************************)
(* Sequences.                                                              *)
(***************************************************************************)
\* Two sequences put together.
LEMMA Joined ==
  ASSUME NEW S, NEW a \in Seq(S), NEW b \in Seq(S)
  PROVE  /\ a \o b \in Seq(S) /\ Len(a \o b) = Len(a) + Len(b)
         /\ Len(a) \in Nat /\ Len(b) \in Nat
         /\ \A j \in 1..Len(a) : (a \o b)[j] = a[j]
         /\ \A j \in 1..Len(b) : (a \o b)[Len(a) + j] = b[j]
<1>1. Len(a) \in Nat /\ Len(b) \in Nat
  BY LenProperties
<1>2. /\ a \o b \in Seq(S) /\ Len(a \o b) = Len(a) + Len(b)
      /\ \A i \in 1..(Len(a) + Len(b)) :
           (a \o b)[i] = IF i <= Len(a) THEN a[i] ELSE b[i - Len(a)]
  BY ConcatProperties, Zenon
<1>3. ASSUME NEW j \in 1..Len(b)
      PROVE  (a \o b)[Len(a) + j] = b[j]
  <2>1. PICK i \in 1..(Len(a) + Len(b)) : i = Len(a) + j /\ ~(i <= Len(a)) /\ i - Len(a) = j
    BY <1>1
  <2> QED BY <1>2, <2>1
<1>4. ASSUME NEW j \in 1..Len(a)
      PROVE  (a \o b)[j] = a[j]
  <2>1. j \in 1..(Len(a) + Len(b)) /\ j <= Len(a)
    BY <1>1
  <2> QED BY <1>2, <2>1
<1> QED BY <1>1, <1>2, <1>3, <1>4

\* A sequence cut after k elements.
LEMMA CutAfter ==
  ASSUME NEW S, NEW s \in Seq(S), NEW k \in 0..Len(s)
  PROVE  /\ Len(s) \in Nat /\ k \in Nat
         /\ SubSeq(s, 1, k) \in Seq(S) /\ Len(SubSeq(s, 1, k)) = k
         /\ \A j \in 1..k : SubSeq(s, 1, k)[j] = s[j]
         /\ SubSeq(s, k + 1, Len(s)) \in Seq(S)
         /\ Len(SubSeq(s, k + 1, Len(s))) = Len(s) - k
         /\ \A j \in 1..(Len(s) - k) : SubSeq(s, k + 1, Len(s))[j] = s[j + k]
<1> DEFINE p == SubSeq(s, 1, k)
           t == SubSeq(s, k + 1, Len(s))
<1>1. Len(s) \in Nat /\ k \in Nat /\ k <= Len(s) /\ k + 1 \in Int
  BY LenProperties
<1>2. \A j \in 1..Len(s) : s[j] \in S
  BY ElementOfSeq
<1>3. /\ p \in Seq(S) /\ Len(p) = IF 1 <= k THEN k - 1 + 1 ELSE 0
      /\ \A i \in 1..(k - 1 + 1) : p[i] = s[1 + i - 1]
  <2>1. \A j \in 1..k : s[j] \in S
    BY <1>1, <1>2
  <2> QED BY <1>1, <2>1, SubSeqProperties
<1>4. /\ t \in Seq(S) /\ Len(t) = IF k + 1 <= Len(s) THEN Len(s) - (k + 1) + 1 ELSE 0
      /\ \A i \in 1..(Len(s) - (k + 1) + 1) : t[i] = s[(k + 1) + i - 1]
  <2>1. \A j \in (k + 1)..Len(s) : s[j] \in S
    BY <1>1, <1>2
  <2> QED BY <1>1, <2>1, SubSeqProperties
<1> HIDE DEF p, t
<1>5. Len(p) = k /\ \A j \in 1..k : p[j] = s[j]
  <2>1. k - 1 + 1 = k /\ \A j \in 1..k : 1 + j - 1 = j
    BY <1>1
  <2> QED BY <1>1, <1>3, <2>1
<1>6. Len(t) = Len(s) - k /\ \A j \in 1..(Len(s) - k) : t[j] = s[j + k]
  <2>1. Len(s) - (k + 1) + 1 = Len(s) - k /\ \A j \in 1..(Len(s) - k) : (k + 1) + j - 1 = j + k
    BY <1>1
  <2>2. Len(t) = Len(s) - k
    BY <1>1, <1>4
  <2>3. \A j \in 1..(Len(s) - k) : t[j] = s[(k + 1) + j - 1]
    BY <1>4, <2>1
  <2> QED BY <2>1, <2>2, <2>3
<1> QED BY <1>1, <1>3, <1>4, <1>5, <1>6 DEF p, t

\* Constants, and the length of a message.
LEMMA Lengths ==
  /\ kHeaderLen \in Nat /\ kHeaderLen > 0 /\ m_base_size \in Nat
  /\ kHeaderLen <= m_base_size /\ m_base_size > 0 /\ MaxMessages \in Nat
  /\ \A p \in Protocols : /\ p.content \in Nat /\ p.err \in Nat
                          /\ EncodedLen(p) \in Nat /\ kHeaderLen + p.content <= EncodedLen(p)
                          /\ p.err = 0 => EncodedLen(p) = kHeaderLen + p.content
<1>1. \A p \in Protocols : p \in [content : Nat, err : Nat]
  BY FramingAssumption
<1> QED BY <1>1, FramingAssumption DEF EncodedLen

\* The bytes of a message from byte a on.
LEMMA RunFacts ==
  ASSUME NEW i \in 1..MaxMessages, NEW a \in Nat, NEW b \in Nat, a <= b
  PROVE  /\ Run(i, a, b) \in Seq(Bytes) /\ Len(Run(i, a, b)) = b - a
         /\ \A j \in 1..(b - a) : Run(i, a, b)[j] = Byte(i, a + j - 1)
<1> DEFINE n == b - a
<1>1. n \in Nat /\ (IF b > a THEN b - a ELSE 0) = n
  OBVIOUS
<1>2. Run(i, a, b) = [j \in 1..n |-> Byte(i, a + j - 1)]
  BY <1>1 DEF Run
<1> HIDE DEF n
<1>3. \A j \in 1..n : Byte(i, a + j - 1) \in Bytes
  BY <1>1 DEF Bytes, Byte
<1>4. [j \in 1..n |-> Byte(i, a + j - 1)] \in Seq(Bytes)
      /\ Len([j \in 1..n |-> Byte(i, a + j - 1)]) = n
  BY <1>1, <1>3
<1> QED BY <1>2, <1>4 DEF n

(***************************************************************************)
(* What the steps do to the bytes on their way.                            *)
(***************************************************************************)
\* The sequences of bytes have their types.
SeqTypes == pending \in Seq(Bytes) /\ wire \in Seq(Bytes) /\ bt \in Seq(Bytes)

\* The bytes on their way, and with those in the array.
LEMMA WayIs ==
  ASSUME SeqTypes
  PROVE  /\ Way \in Seq(Bytes) /\ Len(Way) = Len(wire) + Len(pending) /\ Len(Way) \in Nat
         /\ Len(wire) \in Nat /\ Len(pending) \in Nat /\ Len(bt) \in Nat
         /\ \A j \in 1..Len(wire) : Way[j] = wire[j]
         /\ \A j \in 1..Len(pending) : Way[Len(wire) + j] = pending[j]
         /\ Hand \in Seq(Bytes) /\ Len(Hand) = Len(bt) + Len(Way) /\ Len(Hand) \in Nat
         /\ \A j \in 1..Len(bt) : Hand[j] = bt[j]
         /\ \A j \in 1..Len(Way) : Hand[Len(bt) + j] = Way[j]
         /\ \A j \in 1..Len(Way) : Way[j] \in Bytes /\ Way[j].of \in Nat /\ Way[j].at \in Nat
<1>1. wire \in Seq(Bytes) /\ pending \in Seq(Bytes) /\ bt \in Seq(Bytes)
  BY DEF SeqTypes
<1>2. /\ Way \in Seq(Bytes) /\ Len(Way) = Len(wire) + Len(pending)
      /\ Len(wire) \in Nat /\ Len(pending) \in Nat
      /\ \A j \in 1..Len(wire) : Way[j] = wire[j]
      /\ \A j \in 1..Len(pending) : Way[Len(wire) + j] = pending[j]
  BY <1>1, Joined DEF Way
<1>3. /\ Hand \in Seq(Bytes) /\ Len(Hand) = Len(bt) + Len(Way)
      /\ Len(bt) \in Nat /\ Len(Way) \in Nat
      /\ \A j \in 1..Len(bt) : Hand[j] = bt[j]
      /\ \A j \in 1..Len(Way) : Hand[Len(bt) + j] = Way[j]
  <2>1. Way \in Seq(Bytes)
    BY <1>2
  <2>2. bt \in Seq(Bytes)
    BY <1>1
  <2>3. Hand = bt \o Way
    BY DEF Hand
  <2> QED BY <2>1, <2>2, <2>3, Joined
<1>4. \A j \in 1..Len(Way) : Way[j] \in Bytes
  BY <1>2, ElementOfSeq
<1>5. \A b \in Bytes : b.of \in Nat /\ b.at \in Nat
  BY DEF Bytes
<1> QED BY <1>2, <1>3, <1>4, <1>5

\* The same after a step.
LEMMA WayIsNext ==
  ASSUME SeqTypes'
  PROVE  /\ Way' \in Seq(Bytes) /\ Len(Way') = Len(wire') + Len(pending') /\ Len(Way') \in Nat
         /\ Len(wire') \in Nat /\ Len(pending') \in Nat /\ Len(bt') \in Nat
         /\ \A j \in 1..Len(wire') : Way'[j] = wire'[j]
         /\ \A j \in 1..Len(pending') : Way'[Len(wire') + j] = pending'[j]
         /\ Hand' \in Seq(Bytes) /\ Len(Hand') = Len(bt') + Len(Way') /\ Len(Hand') \in Nat
         /\ \A j \in 1..Len(bt') : Hand'[j] = bt'[j]
         /\ \A j \in 1..Len(Way') : Hand'[Len(bt') + j] = Way'[j]
<1>1. wire' \in Seq(Bytes) /\ pending' \in Seq(Bytes) /\ bt' \in Seq(Bytes)
  BY DEF SeqTypes
<1>2. /\ Way' \in Seq(Bytes) /\ Len(Way') = Len(wire') + Len(pending')
      /\ Len(wire') \in Nat /\ Len(pending') \in Nat
      /\ \A j \in 1..Len(wire') : Way'[j] = wire'[j]
      /\ \A j \in 1..Len(pending') : Way'[Len(wire') + j] = pending'[j]
  BY <1>1, Joined DEF Way
<1>3. /\ Hand' \in Seq(Bytes) /\ Len(Hand') = Len(bt') + Len(Way')
      /\ Len(bt') \in Nat /\ Len(Way') \in Nat
      /\ \A j \in 1..Len(bt') : Hand'[j] = bt'[j]
      /\ \A j \in 1..Len(Way') : Hand'[Len(bt') + j] = Way'[j]
  <2>1. Way' \in Seq(Bytes)
    BY <1>2
  <2>2. bt' \in Seq(Bytes)
    BY <1>1
  <2>3. Hand' = bt' \o Way'
    BY DEF Hand
  <2> QED BY <2>1, <2>2, <2>3, Joined
<1> QED BY <1>2, <1>3

\* The way, some bytes further on.
LEMMA WayShift ==
  ASSUME SeqTypes, SeqTypes', WayInv, NEW k \in Nat, sent' = sent, closed' = closed,
         Len(Way') = Len(Way) - k, \A j \in 1..Len(Way') : Way'[j] = Way[j + k]
  PROVE  WayInv'
<1>1. Len(Way) \in Nat /\ Len(Way') \in Nat
  BY WayIs, WayIsNext
<1>2. \A j \in 1..Len(Way') : j + k \in 1..Len(Way)
  BY <1>1
<1>3. WaySent'
  BY <1>2 DEF WayInv, WaySent, Enc
<1>4. WayRuns'
  <2> SUFFICES ASSUME NEW j \in 1..Len(Way'), NEW d \in Nat, j + d <= Len(Way'),
                      Way'[j].at + d < EncodedLen(sent[Way'[j].of])
               PROVE  Way'[j + d] = Byte(Way'[j].of, Way'[j].at + d)
    BY DEF WayRuns, Enc
  <2>1. PICK i \in 1..Len(Way) : i = j + k
    BY <1>2
  <2>2. Way'[j] = Way[i] /\ i + d <= Len(Way)
    BY <1>1, <2>1
  <2>3. Way[i + d] = Byte(Way[i].of, Way[i].at + d)
    BY <2>2 DEF WayInv, WayRuns, Enc
  <2>4. PICK h \in 1..Len(Way') : h = j + d /\ h + k = i + d
    BY <1>1, <2>1
  <2> QED BY <2>2, <2>3, <2>4
<1>5. WayGoesOn'
  <2> SUFFICES ASSUME NEW j \in 1..Len(Way'), j + 1 <= Len(Way'),
                      Way'[j].at + 1 = EncodedLen(sent[Way'[j].of])
               PROVE  Way'[j + 1] = Byte(Way'[j].of + 1, 0)
    BY DEF WayGoesOn, Enc
  <2>1. PICK i \in 1..Len(Way) : i = j + k
    BY <1>2
  <2>2. Way'[j] = Way[i] /\ i + 1 <= Len(Way)
    BY <1>1, <2>1
  <2>3. Way[i + 1] = Byte(Way[i].of + 1, 0)
    BY <2>2 DEF WayInv, WayGoesOn, Enc
  <2>4. PICK h \in 1..Len(Way') : h = j + 1 /\ h + k = i + 1
    BY <1>1, <2>1
  <2> QED BY <2>2, <2>3, <2>4
<1>6. WayEnds'
  <2> SUFFICES ASSUME ~closed, Len(Way') > 0
               PROVE  Way'[Len(Way')].of = Len(sent)
                      /\ Way'[Len(Way')].at + 1 = EncodedLen(sent[Len(sent)])
    BY DEF WayEnds, Enc
  <2>1. Len(Way') \in 1..Len(Way') /\ Len(Way') + k = Len(Way) /\ Len(Way) > 0
    BY <1>1
  <2>2. Way'[Len(Way')] = Way[Len(Way)]
    BY <2>1
  <2> QED BY <2>1, <2>2 DEF WayInv, WayEnds, Enc
<1> QED BY <1>3, <1>4, <1>5, <1>6 DEF WayInv

\* The way, cut off at its end by a sender that is gone.
LEMMA WayCut ==
  ASSUME SeqTypes, SeqTypes', WayInv, sent' = sent, closed' = TRUE,
         Len(Way') <= Len(Way), \A j \in 1..Len(Way') : Way'[j] = Way[j]
  PROVE  WayInv'
<1>1. Len(Way) \in Nat /\ Len(Way') \in Nat
  BY WayIs, WayIsNext
<1>2. \A j \in 1..Len(Way') : j \in 1..Len(Way)
  BY <1>1
<1>3. WaySent'
  BY <1>2 DEF WayInv, WaySent, Enc
<1>4. WayRuns'
  <2> SUFFICES ASSUME NEW j \in 1..Len(Way'), NEW d \in Nat, j + d <= Len(Way'),
                      Way'[j].at + d < EncodedLen(sent[Way'[j].of])
               PROVE  Way'[j + d] = Byte(Way'[j].of, Way'[j].at + d)
    BY DEF WayRuns, Enc
  <2>1. j \in 1..Len(Way) /\ j + d \in 1..Len(Way') /\ j + d <= Len(Way)
    BY <1>1
  <2> QED BY <2>1 DEF WayInv, WayRuns, Enc
<1>5. WayGoesOn'
  <2> SUFFICES ASSUME NEW j \in 1..Len(Way'), j + 1 <= Len(Way'),
                      Way'[j].at + 1 = EncodedLen(sent[Way'[j].of])
               PROVE  Way'[j + 1] = Byte(Way'[j].of + 1, 0)
    BY DEF WayGoesOn, Enc
  <2>1. j \in 1..Len(Way) /\ j + 1 \in 1..Len(Way') /\ j + 1 <= Len(Way)
    BY <1>1
  <2> QED BY <2>1 DEF WayInv, WayGoesOn, Enc
<1>6. WayEnds'
  BY DEF WayEnds
<1> QED BY <1>3, <1>4, <1>5, <1>6 DEF WayInv

\* One message more was sent.
LEMMA Appended ==
  ASSUME sent \in Seq(Protocols), NEW p \in Protocols, sent' = Append(sent, p)
  PROVE  /\ sent' \in Seq(Protocols) /\ Len(sent) \in Nat /\ Len(sent') = Len(sent) + 1
         /\ \A i \in 1..Len(sent) : sent'[i] = sent[i] /\ sent[i] \in Protocols
         /\ sent'[Len(sent) + 1] = p
BY LenProperties, ElementOfSeq, AppendProperties

\* A message is added at the end of the way.
LEMMA WayGrown ==
  ASSUME SeqTypes, SeqTypes', WayInv, ~closed, closed' = closed,
         sent \in Seq(Protocols), NEW p \in Protocols, sent' = Append(sent, p),
         Len(Way') = Len(Way) + EncodedLen(p),
         \A j \in 1..Len(Way) : Way'[j] = Way[j],
         \A j \in 1..EncodedLen(p) : Way'[Len(Way) + j] = Byte(Len(sent) + 1, j - 1)
  PROVE  WayInv'
<1> DEFINE n == Len(sent)
           L == Len(Way)
           E == EncodedLen(p)
<1>1. L \in Nat /\ Len(Way') \in Nat /\ Len(Way') = L + E
      /\ \A j \in 1..L : Way[j].of \in Nat /\ Way[j].at \in Nat
  BY WayIs, WayIsNext
<1>2. E \in Nat /\ E > 0
  BY Lengths
<1>3. /\ n \in Nat /\ Len(sent') = n + 1 /\ sent'[n + 1] = p
      /\ \A i \in 1..n : sent'[i] = sent[i] /\ sent[i] \in Protocols
  BY Appended
<1>4. \A i \in 1..n : EncodedLen(sent[i]) \in Nat
  BY <1>3, Lengths
<1>5. \A j \in 1..L : /\ Way'[j] = Way[j] /\ Way[j].of \in 1..n
                      /\ Way[j].at < EncodedLen(sent[Way[j].of])
                      /\ sent'[Way[j].of] = sent[Way[j].of]
  BY <1>3 DEF WayInv, WaySent, Enc
<1>6. \A j \in 1..E : Way'[L + j].of = n + 1 /\ Way'[L + j].at = j - 1
  <2> TAKE j \in 1..E
  <2>1. Way'[L + j] = Byte(n + 1, j - 1)
    OBVIOUS
  <2> HIDE DEF n, L, E
  <2> QED BY <2>1 DEF Byte
<1>7. L > 0 => Way[L].of = n /\ Way[L].at + 1 = EncodedLen(sent[n])
  BY DEF WayInv, WayEnds, Enc
<1>8. \A j \in 1..Len(Way') : j \in 1..L \/ \E i \in 1..E : j = L + i
  <2> TAKE j \in 1..Len(Way')
  <2>1. (j - L \in 1..E /\ j = L + (j - L)) \/ j \in 1..L
    BY <1>1, <1>2
  <2> QED BY <2>1
<1> HIDE DEF n, L, E
<1>9. WaySent'
  <2> SUFFICES ASSUME NEW j \in 1..Len(Way')
               PROVE  Way'[j].of \in 1..(n + 1) /\ Way'[j].at < EncodedLen(sent'[Way'[j].of])
    BY <1>3 DEF WaySent, Enc
  <2>1. CASE j \in 1..L
    BY <1>3, <1>5, <2>1
  <2>2. ASSUME NEW i \in 1..E, j = L + i
        PROVE  Way'[j].of \in 1..(n + 1) /\ Way'[j].at < EncodedLen(sent'[Way'[j].of])
    <3>1. Way'[j].of = n + 1 /\ Way'[j].at = i - 1
      BY <1>6, <2>2
    <3> QED BY <1>2, <1>3, <3>1 DEF E
  <2> QED BY <1>8, <2>1, <2>2
<1>10. WayRuns'
  <2> SUFFICES ASSUME NEW j \in 1..Len(Way'), NEW d \in Nat, j + d <= Len(Way'),
                      Way'[j].at + d < EncodedLen(sent'[Way'[j].of])
               PROVE  Way'[j + d] = Byte(Way'[j].of, Way'[j].at + d)
    BY DEF WayRuns, Enc
  <2>1. CASE j \in 1..L
    <3>1. Way'[j] = Way[j] /\ Way[j].at + d < EncodedLen(sent[Way[j].of])
      BY <1>5, <2>1
    <3>2. CASE j + d <= L
      <4>1. Way[j + d] = Byte(Way[j].of, Way[j].at + d)
        BY <2>1, <3>1, <3>2 DEF WayInv, WayRuns, Enc, L
      <4>2. j + d \in 1..L
        BY <1>1, <2>1, <3>2
      <4> QED BY <1>5, <3>1, <4>1, <4>2
    <3>3. CASE j + d > L
      <4> DEFINE c == L - j
                 a == Way[j].at
      <4>1. c \in Nat /\ c < d /\ j + c = L /\ L > 0 /\ a \in Nat
        <5>1. a \in Nat /\ L \in Nat
          BY <1>1, <2>1
        <5>2. j \in Nat /\ 1 <= j /\ j <= L
          BY <2>1, <5>1
        <5> QED BY <3>3, <5>1, <5>2
      <4>2. EncodedLen(sent[Way[j].of]) \in Nat /\ a + d < EncodedLen(sent[Way[j].of])
        BY <1>4, <1>5, <2>1, <3>1
      <4> HIDE DEF a, c
      <4>5. a + c < EncodedLen(sent[Way[j].of]) /\ j + c <= L
        BY <1>1, <4>1, <4>2, SMTT(30)
      <4>6. Way[j + c] = Byte(Way[j].of, a + c)
        BY <2>1, <4>1, <4>5 DEF WayInv, WayRuns, Enc, L, a
      <4>3. Way[L] = Byte(Way[j].of, a + c)
        BY <4>1, <4>6
      <4>4. Way[j].of = n /\ a + c + 1 = EncodedLen(sent[n])
        BY <1>7, <4>1, <4>3 DEF Byte
      <4>7. FALSE
        BY <4>1, <4>2, <4>4
      <4> QED BY <4>7
    <3> QED BY <1>1, <2>1, <3>2, <3>3
  <2>2. ASSUME NEW i \in 1..E, j = L + i
        PROVE  Way'[j + d] = Byte(Way'[j].of, Way'[j].at + d)
    <3>1. Way'[j].of = n + 1 /\ Way'[j].at = i - 1
      BY <1>6, <2>2
    <3>2. PICK h \in 1..E : h = i + d /\ L + h = j + d /\ h - 1 = i - 1 + d
      BY <1>1, <1>2, <2>2
    <3>3. Way'[L + h] = Byte(n + 1, h - 1)
      BY DEF L, E, n
    <3> QED BY <3>1, <3>2, <3>3
  <2> QED BY <1>8, <2>1, <2>2
<1>11. WayGoesOn'
  <2> SUFFICES ASSUME NEW j \in 1..Len(Way'), j + 1 <= Len(Way'),
                      Way'[j].at + 1 = EncodedLen(sent'[Way'[j].of])
               PROVE  Way'[j + 1] = Byte(Way'[j].of + 1, 0)
    BY DEF WayGoesOn, Enc
  <2>1. CASE j \in 1..L
    <3>1. Way'[j] = Way[j] /\ Way[j].at + 1 = EncodedLen(sent[Way[j].of])
      BY <1>5, <2>1
    <3>2. CASE j + 1 <= L
      <4>1. Way[j + 1] = Byte(Way[j].of + 1, 0)
        BY <2>1, <3>1, <3>2 DEF WayInv, WayGoesOn, Enc, L
      <4>2. j + 1 \in 1..L
        BY <1>1, <2>1, <3>2
      <4> QED BY <1>5, <3>1, <4>1, <4>2
    <3>3. CASE j + 1 > L
      <4>1. j = L /\ L > 0 /\ 1 \in 1..E /\ 1 - 1 = 0
        BY <1>1, <1>2, <2>1, <3>3
      <4>2. Way'[L + 1] = Byte(n + 1, 1 - 1)
        BY <4>1 DEF L, E, n
      <4> QED BY <1>7, <3>1, <4>1, <4>2
    <3> QED BY <1>1, <2>1, <3>2, <3>3
  <2>2. ASSUME NEW i \in 1..E, j = L + i
        PROVE  FALSE
    <3>1. Way'[j].of = n + 1 /\ Way'[j].at = i - 1
      BY <1>6, <2>2
    <3>2. i - 1 + 1 = E
      BY <1>3, <3>1 DEF E
    <3> QED BY <1>1, <1>2, <2>2, <3>2
  <2> QED BY <1>8, <2>1, <2>2
<1>12. WayEnds'
  <2>1. E \in 1..E
    BY <1>2
  <2>3. Len(Way') = L + E
    BY <1>1
  <2>2. Way'[Len(Way')].of = n + 1 /\ Way'[Len(Way')].at = E - 1
    BY <1>6, <2>1, <2>3
  <2> QED BY <1>2, <1>3, <2>2 DEF WayEnds, Enc, E
<1> QED BY <1>9, <1>10, <1>11, <1>12 DEF WayInv

(***************************************************************************)
(* Types and counts.                                                       *)
(***************************************************************************)
Heads == [of : 0..MaxMessages, len : Nat, err : Nat]
RestTypes ==
  /\ sent \in Seq(Protocols) /\ Len(sent) <= MaxMessages
  /\ closed \in BOOLEAN /\ pc \in {"header", "payload"} \cup Ended
  /\ left \in Int /\ msg \in Heads
  /\ received \in Seq([head : Heads, body : Seq(Bytes)])
  /\ network \in [pipelined : BOOLEAN, short : BOOLEAN]

\* The type in two parts.
LEMMA Types == TypeOK <=> SeqTypes /\ RestTypes
BY DEF TypeOK, SeqTypes, RestTypes, Heads

\* What is used of the types most.
LEMMA Basics ==
  ASSUME SeqTypes, RestTypes
  PROVE  /\ Len(sent) \in Nat /\ Len(received) \in Nat /\ Len(bt) \in Nat
         /\ Len(wire) \in Nat /\ Len(pending) \in Nat
         /\ msg.len \in Nat /\ msg.err \in Nat /\ Length \in Nat
         /\ \A i \in 1..Len(sent) : sent[i] \in Protocols /\ Enc(i) \in Nat
                                    /\ Header(i) \in Heads
         /\ \A j \in 1..Len(bt) : bt[j] \in Bytes
<1>1. Len(sent) \in Nat /\ Len(received) \in Nat /\ Len(bt) \in Nat
      /\ Len(wire) \in Nat /\ Len(pending) \in Nat
  BY LenProperties DEF SeqTypes, RestTypes
<1>2. msg.len \in Nat /\ msg.err \in Nat /\ Length \in Nat
  BY Lengths DEF RestTypes, Heads, Length
<1>3. \A i \in 1..Len(sent) : sent[i] \in Protocols
  BY ElementOfSeq DEF RestTypes
<1>4. \A i \in 1..Len(sent) : Enc(i) \in Nat
  BY <1>3, Lengths DEF Enc
<1>5. \A i \in 1..Len(sent) : i \in 0..MaxMessages
  BY <1>1, Lengths DEF RestTypes
<1>6. \A i \in 1..Len(sent) : Header(i) \in Heads
  BY <1>3, <1>5, Lengths DEF Header, Heads
<1>7. \A j \in 1..Len(bt) : bt[j] \in Bytes
  BY ElementOfSeq DEF SeqTypes
<1> QED BY <1>1, <1>2, <1>3, <1>4, <1>6, <1>7

\* A message is sent.
LEMMA SendTypes ==
  ASSUME IInv, NEW p \in Protocols, sendProtocol(p),
         ~(p.err > p.content \/ EncodedLen(p) > m_base_size)
  PROVE  /\ ~closed /\ sent' = Append(sent, p) /\ RestTypes' /\ SeqTypes' /\ CountInv'
         /\ WayInv' /\ Len(Way') = Len(Way) + EncodedLen(p)
         /\ \A j \in 1..Len(Way) : Way'[j] = Way[j]
         /\ \A j \in 1..EncodedLen(p) : Way'[Len(Way) + j] = Byte(Len(sent) + 1, j - 1)
<1>1. SeqTypes /\ RestTypes /\ CountInv /\ WayInv
  BY Types DEF IInv
<1>2. /\ ~closed /\ pending = <<>> /\ Len(sent) < MaxMessages
      /\ sent' = Append(sent, p) /\ pending' = Run(Len(sent) + 1, 0, EncodedLen(p))
      /\ UNCHANGED <<closed, wire, pc, bt, left, msg, received, network>>
  BY DEF sendProtocol
<1>3. /\ sent' \in Seq(Protocols) /\ Len(sent) \in Nat /\ Len(sent') = Len(sent) + 1
      /\ \A i \in 1..Len(sent) : sent'[i] = sent[i] /\ sent[i] \in Protocols
      /\ sent'[Len(sent) + 1] = p
  BY <1>1, <1>2, Appended DEF RestTypes
<1>4. EncodedLen(p) \in Nat /\ 0 <= EncodedLen(p) /\ EncodedLen(p) - 0 = EncodedLen(p)
      /\ MaxMessages \in Nat /\ p.err \in Nat /\ p.content \in Nat /\ m_base_size \in Nat
  BY Lengths
<1>5. Len(sent) + 1 \in 1..MaxMessages /\ Len(sent') <= MaxMessages
  BY <1>2, <1>3, <1>4
<1>6. /\ pending' \in Seq(Bytes) /\ Len(pending') = EncodedLen(p)
      /\ \A j \in 1..EncodedLen(p) : pending'[j] = Byte(Len(sent) + 1, 0 + j - 1)
  <2> DEFINE i == Len(sent) + 1
             e == EncodedLen(p)
  <2>1. i \in 1..MaxMessages /\ e \in Nat /\ 0 <= e /\ 0 \in Nat /\ e - 0 = e
    BY <1>4, <1>5
  <2>2. pending' = Run(i, 0, e)
    BY <1>2
  <2> HIDE DEF i, e
  <2>3. /\ Run(i, 0, e) \in Seq(Bytes) /\ Len(Run(i, 0, e)) = e - 0
        /\ \A j \in 1..(e - 0) : Run(i, 0, e)[j] = Byte(i, 0 + j - 1)
    BY <2>1, RunFacts
  <2> QED BY <2>1, <2>2, <2>3 DEF i, e
<1>7. SeqTypes' /\ RestTypes'
  BY <1>1, <1>2, <1>3, <1>5, <1>6 DEF SeqTypes, RestTypes
<1>8. CountInv'
  <2>1. SentFit'
    <3> SUFFICES ASSUME NEW i \in 1..(Len(sent) + 1)
                 PROVE  sent'[i].err <= sent'[i].content /\ EncodedLen(sent'[i]) <= m_base_size
      BY <1>3 DEF SentFit, Enc
    <3>1. CASE i \in 1..Len(sent)
      BY <1>1, <1>3, <3>1 DEF CountInv, SentFit, Enc
    <3>2. CASE i = Len(sent) + 1
      BY <1>3, <1>4, <3>2
    <3> QED BY <1>3, <3>1, <3>2
  <2>2. BtSent'
    BY <1>1, <1>2, <1>3 DEF CountInv, BtSent
  <2> QED BY <1>1, <1>2, <2>1, <2>2 DEF CountInv, GoneIsQuiet, LeftCounts, Length
<1>9. /\ Len(Way) = Len(wire) /\ Len(Way') = Len(Way) + EncodedLen(p)
      /\ \A j \in 1..Len(Way) : Way'[j] = Way[j]
  <2>1. Len(pending) = 0
    BY <1>2
  <2>2. Len(Way) = Len(wire) /\ \A j \in 1..Len(wire) : Way[j] = wire[j]
    BY <1>1, <2>1, WayIs
  <2>3. Len(Way') = Len(wire') + Len(pending') /\ \A j \in 1..Len(wire') : Way'[j] = wire'[j]
    BY <1>7, WayIsNext
  <2> QED BY <1>2, <1>6, <2>2, <2>3
<1>10. \A j \in 1..EncodedLen(p) : Way'[Len(Way) + j] = Byte(Len(sent) + 1, j - 1)
  <2>1. \A j \in 1..Len(pending') : Way'[Len(wire') + j] = pending'[j]
    BY <1>7, WayIsNext
  <2>2. \A j \in 1..EncodedLen(p) : 0 + j - 1 = j - 1
    BY <1>4
  <2> QED BY <1>2, <1>6, <1>9, <2>1, <2>2
<1>11. WayInv'
  BY <1>1, <1>2, <1>7, <1>9, <1>10, WayGrown DEF RestTypes
<1> QED BY <1>2, <1>7, <1>8, <1>9, <1>10, <1>11

\* The sender is gone: what it had not written is lost.
LEMMA GoneTypes ==
  ASSUME IInv, closed' = TRUE, pending' = <<>>,
         UNCHANGED <<sent, wire, pc, bt, left, msg, received, network>>
  PROVE  /\ RestTypes' /\ SeqTypes' /\ CountInv' /\ WayInv'
         /\ Len(Way') <= Len(Way) /\ \A j \in 1..Len(Way') : Way'[j] = Way[j]
<1>1. SeqTypes /\ RestTypes /\ CountInv /\ WayInv
  BY Types DEF IInv
<1>2. SeqTypes'
  BY <1>1 DEF SeqTypes
<1>3. RestTypes'
  BY <1>1 DEF RestTypes
<1>4. CountInv'
  BY <1>1 DEF CountInv, SentFit, GoneIsQuiet, BtSent, LeftCounts, Length, Enc
<1>5. Len(pending') = 0
  OBVIOUS
<1>6. /\ Len(Way') = Len(wire) /\ Len(Way) = Len(wire) + Len(pending)
      /\ Len(wire) \in Nat /\ Len(pending) \in Nat
      /\ \A j \in 1..Len(wire) : Way'[j] = wire[j] /\ Way[j] = wire[j]
  BY <1>1, <1>2, <1>5, WayIs, WayIsNext
<1>7. WayInv'
  BY <1>1, <1>2, <1>6, WayCut
<1> QED BY <1>2, <1>3, <1>4, <1>6, <1>7

\* The sender writes: the way stays as it is.
LEMMA WriteTypes ==
  ASSUME IInv, writeFixedSize
  PROVE  /\ RestTypes' /\ SeqTypes' /\ CountInv' /\ WayInv'
         /\ Len(Way') = Len(Way) /\ \A j \in 1..Len(Way) : Way'[j] = Way[j]
         /\ UNCHANGED <<sent, closed, pc, bt, left, msg, received, network>>
         /\ ~closed
<1>1. SeqTypes /\ RestTypes /\ CountInv /\ WayInv
  BY Types DEF IInv
<1>2. ~closed /\ UNCHANGED <<sent, closed, pc, bt, left, msg, received, network>>
  BY DEF writeFixedSize
<1>3. PICK k \in 1..Len(pending) :
        /\ wire' = wire \o SubSeq(pending, 1, k)
        /\ pending' = SubSeq(pending, k + 1, Len(pending))
  BY DEF writeFixedSize
<1>4. Len(pending) \in Nat /\ Len(wire) \in Nat /\ k \in 0..Len(pending) /\ k \in Nat
  BY <1>1, Basics
<1>5. /\ SubSeq(pending, 1, k) \in Seq(Bytes) /\ Len(SubSeq(pending, 1, k)) = k
      /\ \A j \in 1..k : SubSeq(pending, 1, k)[j] = pending[j]
      /\ pending' \in Seq(Bytes) /\ Len(pending') = Len(pending) - k
      /\ \A j \in 1..(Len(pending) - k) : pending'[j] = pending[j + k]
  BY <1>1, <1>3, <1>4, CutAfter DEF SeqTypes
<1>6. /\ wire' \in Seq(Bytes) /\ Len(wire') = Len(wire) + k
      /\ \A j \in 1..Len(wire) : wire'[j] = wire[j]
      /\ \A j \in 1..k : wire'[Len(wire) + j] = pending[j]
  <2> DEFINE b == SubSeq(pending, 1, k)
  <2>1. wire \in Seq(Bytes) /\ b \in Seq(Bytes) /\ Len(b) = k
        /\ \A j \in 1..k : b[j] = pending[j]
    BY <1>1, <1>5 DEF SeqTypes
  <2>2. wire' = wire \o b
    BY <1>3
  <2> HIDE DEF b
  <2>3. /\ wire \o b \in Seq(Bytes) /\ Len(wire \o b) = Len(wire) + Len(b)
        /\ \A j \in 1..Len(wire) : (wire \o b)[j] = wire[j]
        /\ \A j \in 1..Len(b) : (wire \o b)[Len(wire) + j] = b[j]
    BY <2>1, Joined
  <2> QED BY <2>1, <2>2, <2>3
<1>7. SeqTypes' /\ RestTypes'
  BY <1>1, <1>2, <1>5, <1>6 DEF SeqTypes, RestTypes
<1>8. CountInv'
  BY <1>1, <1>2 DEF CountInv, SentFit, GoneIsQuiet, BtSent, LeftCounts, Length, Enc
<1>9. Len(Way') = Len(Way) /\ Len(Way) \in Nat /\ Len(Way) = Len(wire) + Len(pending)
  <2>1. Len(Way) = Len(wire) + Len(pending) /\ Len(Way) \in Nat
    BY <1>1, WayIs
  <2>2. Len(Way') = Len(wire') + Len(pending')
    BY <1>7, WayIsNext
  <2> QED BY <1>4, <1>5, <1>6, <2>1, <2>2
<1>10. ASSUME NEW j \in 1..Len(Way)
       PROVE  Way'[j] = Way[j]
  <2>1. CASE j \in 1..Len(wire)
    <3>1. j \in 1..Len(wire')
      BY <1>4, <1>6, <2>1
    <3> QED BY <1>1, <1>6, <1>7, <2>1, <3>1, WayIs, WayIsNext
  <2>2. ASSUME NEW i \in 1..k, j = Len(wire) + i
        PROVE  Way'[j] = Way[j]
    <3>1. j \in 1..Len(wire') /\ i \in 1..Len(pending)
      BY <1>4, <1>6, <2>2
    <3>2. Way'[j] = wire'[j] /\ Way[Len(wire) + i] = pending[i]
      BY <1>1, <1>7, <3>1, WayIs, WayIsNext
    <3> QED BY <1>6, <2>2, <3>2
  <2>3. ASSUME NEW i \in 1..(Len(pending) - k), j = Len(wire) + k + i
        PROVE  Way'[j] = Way[j]
    <3>1. i \in 1..Len(pending') /\ i + k \in 1..Len(pending)
          /\ Len(wire') + i = j /\ Len(wire) + (i + k) = j
      BY <1>4, <1>5, <1>6, <2>3
    <3>2. Way'[Len(wire') + i] = pending'[i] /\ Way[Len(wire) + (i + k)] = pending[i + k]
      BY <1>1, <1>7, <3>1, WayIs, WayIsNext
    <3> QED BY <1>5, <2>3, <3>1, <3>2
  <2>4. \/ j \in 1..Len(wire)
        \/ j - Len(wire) \in 1..k /\ j = Len(wire) + (j - Len(wire))
        \/ /\ j - Len(wire) - k \in 1..(Len(pending) - k)
           /\ j = Len(wire) + k + (j - Len(wire) - k)
    BY <1>4, <1>9
  <2> QED BY <2>1, <2>2, <2>3, <2>4
<1>11. WayInv'
  <2>1. 0 \in Nat /\ Len(Way') = Len(Way) - 0 /\ \A j \in 1..Len(Way') : j + 0 = j
    BY <1>9
  <2>2. \A j \in 1..Len(Way') : Way'[j] = Way[j + 0]
    BY <1>9, <1>10, <2>1
  <2> QED BY <1>1, <1>2, <1>7, <2>1, <2>2, WayShift
<1> QED BY <1>2, <1>7, <1>8, <1>9, <1>10, <1>11

\* The bytes a read may give.
LEMMA ReadBounds ==
  ASSUME SeqTypes, RestTypes, NEW k \in 1..Min2(Asked(Length), Len(wire))
  PROVE  /\ k \in Nat /\ 1 <= k /\ k <= Len(wire) /\ k <= Asked(Length)
         /\ Asked(Length) \in Int
         /\ Len(bt) = 0 /\ Fits(Length) => Asked(Length) = Length
<1>1. m_base_size \in Nat /\ m_base_size > 0
  BY Lengths
<1>2. Len(bt) \in Nat /\ Len(wire) \in Nat /\ Length \in Nat
  BY Basics
<1>3. npos \in Nat /\ (Len(bt) = 0 => npos = 0)
  BY <1>1, <1>2, Z3 DEF npos
<1>4. Asked(Length) \in Int
  BY <1>1, <1>2, <1>3 DEF Asked
<1>5. Min2(Asked(Length), Len(wire)) \in Int
      /\ Min2(Asked(Length), Len(wire)) <= Len(wire)
      /\ Min2(Asked(Length), Len(wire)) <= Asked(Length)
  BY <1>2, <1>4 DEF Min2
<1>6. Len(bt) = 0 /\ Fits(Length) => Asked(Length) = Length
  BY <1>1, <1>2, <1>3 DEF Asked, Fits
<1> QED BY <1>2, <1>4, <1>5, <1>6

\* A read moves bytes from the way to the array.
LEMMA ReadTypes ==
  ASSUME IInv, pc \in {"header", "payload"},
         NEW k \in 1..Min2(Asked(Length), Len(wire)),
         bt' = bt \o SubSeq(wire, 1, k), wire' = SubSeq(wire, k + 1, Len(wire)),
         left' = left - k, UNCHANGED <<sent, pending, closed, pc, msg, received, network>>
  PROVE  /\ RestTypes' /\ SeqTypes' /\ CountInv' /\ WayInv'
         /\ Len(Way') = Len(Way) - k /\ \A j \in 1..Len(Way') : Way'[j] = Way[j + k]
         /\ Len(bt') = Len(bt) + k
         /\ \A j \in 1..Len(bt) : bt'[j] = bt[j]
         /\ \A j \in 1..k : bt'[Len(bt) + j] = Way[j]
         /\ Len(Hand') = Len(Hand) /\ \A j \in 1..Len(Hand) : Hand'[j] = Hand[j]
         /\ Len(wire') = Len(wire) - k
<1>1. SeqTypes /\ RestTypes /\ CountInv /\ WayInv
  BY Types DEF IInv
<1>2. /\ Len(wire) \in Nat /\ Len(bt) \in Nat /\ Len(pending) \in Nat
      /\ k \in 0..Len(wire) /\ k \in Nat /\ k <= Len(wire)
  BY <1>1, Basics, ReadBounds
<1>3. /\ SubSeq(wire, 1, k) \in Seq(Bytes) /\ Len(SubSeq(wire, 1, k)) = k
      /\ \A j \in 1..k : SubSeq(wire, 1, k)[j] = wire[j]
      /\ wire' \in Seq(Bytes) /\ Len(wire') = Len(wire) - k
      /\ \A j \in 1..(Len(wire) - k) : wire'[j] = wire[j + k]
  BY <1>1, <1>2, CutAfter, SMTT(30) DEF SeqTypes
<1>4. /\ bt' \in Seq(Bytes) /\ Len(bt') = Len(bt) + k
      /\ \A j \in 1..Len(bt) : bt'[j] = bt[j]
      /\ \A j \in 1..k : bt'[Len(bt) + j] = wire[j]
  <2> DEFINE b == SubSeq(wire, 1, k)
  <2>1. bt \in Seq(Bytes) /\ b \in Seq(Bytes) /\ Len(b) = k
        /\ \A j \in 1..k : b[j] = wire[j]
    BY <1>1, <1>3 DEF SeqTypes
  <2>2. bt' = bt \o b
    OBVIOUS
  <2> HIDE DEF b
  <2>3. /\ bt \o b \in Seq(Bytes) /\ Len(bt \o b) = Len(bt) + Len(b)
        /\ \A j \in 1..Len(bt) : (bt \o b)[j] = bt[j]
        /\ \A j \in 1..Len(b) : (bt \o b)[Len(bt) + j] = b[j]
    BY <2>1, Joined, SMTT(30)
  <2> QED BY <2>1, <2>2, <2>3
<1>5. SeqTypes'
  BY <1>1, <1>3, <1>4 DEF SeqTypes
<1>6. RestTypes'
  BY <1>1, <1>2 DEF RestTypes
<1>7. /\ Len(Way) = Len(wire) + Len(pending) /\ Len(Way) \in Nat
      /\ \A j \in 1..Len(wire) : Way[j] = wire[j]
      /\ \A j \in 1..Len(pending) : Way[Len(wire) + j] = pending[j]
  BY <1>1, WayIs
<1>8. /\ Len(Way') = Len(wire') + Len(pending)
      /\ \A j \in 1..Len(wire') : Way'[j] = wire'[j]
      /\ \A j \in 1..Len(pending) : Way'[Len(wire') + j] = pending[j]
  BY <1>5, WayIsNext
<1>9. Len(Way') = Len(Way) - k
  BY <1>2, <1>3, <1>7, <1>8
<1>10. ASSUME NEW j \in 1..Len(Way')
       PROVE  Way'[j] = Way[j + k]
  <2>1. CASE j \in 1..(Len(wire) - k)
    <3>1. PICK i \in 1..Len(wire) : i = j + k
      BY <1>2, <2>1
    <3> QED BY <1>3, <1>7, <1>8, <2>1, <3>1
  <2>2. ASSUME NEW i \in 1..Len(pending), j = (Len(wire) - k) + i
        PROVE  Way'[j] = Way[j + k]
    <3>1. j + k = Len(wire) + i
      BY <1>2, <2>2
    <3> QED BY <1>3, <1>7, <1>8, <2>2, <3>1, SMTT(30)
  <2>3. \/ j \in 1..(Len(wire) - k)
        \/ /\ j - (Len(wire) - k) \in 1..Len(pending)
           /\ j = (Len(wire) - k) + (j - (Len(wire) - k))
    <3>1. Len(Way') = (Len(wire) - k) + Len(pending)
      BY <1>3, <1>8
    <3>2. j \in Nat /\ 1 <= j /\ j <= (Len(wire) - k) + Len(pending)
      BY <1>2, <3>1
    <3> QED BY <1>2, <3>2
  <2> QED BY <2>1, <2>2, <2>3
<1>11. WayInv'
  BY <1>1, <1>2, <1>5, <1>9, <1>10, WayShift
<1>12. \A j \in 1..k : bt'[Len(bt) + j] = Way[j] /\ j \in 1..Len(Way)
  <2>1. \A j \in 1..k : j \in 1..Len(wire) /\ j \in 1..Len(Way)
    BY <1>2, <1>7
  <2> QED BY <1>4, <1>7, <2>1
<1>13. /\ Len(Hand) = Len(bt) + Len(Way)
       /\ \A j \in 1..Len(bt) : Hand[j] = bt[j]
       /\ \A j \in 1..Len(Way) : Hand[Len(bt) + j] = Way[j]
  BY <1>1, WayIs
<1>14. /\ Len(Hand') = Len(bt') + Len(Way')
       /\ \A j \in 1..Len(bt') : Hand'[j] = bt'[j]
       /\ \A j \in 1..Len(Way') : Hand'[Len(bt') + j] = Way'[j]
  BY <1>5, WayIsNext
<1>15. Len(Hand') = Len(Hand)
  BY <1>2, <1>4, <1>7, <1>9, <1>13, <1>14
<1>16. ASSUME NEW j \in 1..Len(Hand)
       PROVE  Hand'[j] = Hand[j]
  <2>1. CASE j \in 1..Len(bt)
    <3>1. j \in 1..Len(bt')
      BY <1>2, <1>4, <2>1
    <3> QED BY <1>4, <1>13, <1>14, <2>1, <3>1
  <2>2. ASSUME NEW i \in 1..k, j = Len(bt) + i
        PROVE  Hand'[j] = Hand[j]
    <3>1. j \in 1..Len(bt')
      BY <1>2, <1>4, <2>2
    <3>2. Hand'[j] = Way[i]
      BY <1>12, <1>14, <2>2, <3>1
    <3> QED BY <1>12, <1>13, <2>2, <3>2
  <2>3. ASSUME NEW i \in 1..Len(Way'), j = Len(bt') + i
        PROVE  Hand'[j] = Hand[j]
    <3>1. i + k \in 1..Len(Way)
      BY <1>2, <1>7, <1>9
    <3>2. j = Len(bt) + (i + k)
      BY <1>2, <1>4, <2>3
    <3>3. Hand'[j] = Way'[i] /\ Way'[i] = Way[i + k]
      BY <1>10, <1>14, <2>3
    <3>4. Hand[Len(bt) + (i + k)] = Way[i + k]
      BY <1>13, <3>1
    <3> QED BY <3>2, <3>3, <3>4
  <2>4. \/ j \in 1..Len(bt)
        \/ j - Len(bt) \in 1..k /\ j = Len(bt) + (j - Len(bt))
        \/ j - Len(bt') \in 1..Len(Way') /\ j = Len(bt') + (j - Len(bt'))
    <3>1. /\ j \in Nat /\ 1 <= j /\ j <= Len(bt) + Len(Way)
          /\ Len(Way) \in Nat /\ Len(Way') = Len(Way) - k /\ Len(bt') = Len(bt) + k
      BY <1>2, <1>4, <1>7, <1>9, <1>13
    <3> QED BY <1>2, <3>1, SMTT(30)
  <2> QED BY <2>1, <2>2, <2>3, <2>4
<1>17. CountInv'
  <2>1. BtSent'
    <3> SUFFICES ASSUME NEW j \in 1..Len(bt') PROVE bt'[j].of \in 1..Len(sent)
      BY DEF BtSent
    <3>1. CASE j \in 1..Len(bt)
      BY <1>1, <1>4, <3>1 DEF CountInv, BtSent
    <3>2. ASSUME NEW i \in 1..k, j = Len(bt) + i
          PROVE  bt'[j].of \in 1..Len(sent)
      BY <1>1, <1>12, <3>2 DEF WayInv, WaySent
    <3>3. j \in 1..Len(bt) \/ (j - Len(bt) \in 1..k /\ j = Len(bt) + (j - Len(bt)))
      BY <1>2, <1>4
    <3> QED BY <3>1, <3>2, <3>3
  <2>2. LeftCounts'
    <3>1. Length' = Length /\ Length \in Nat /\ left = Length - Len(bt)
      BY <1>1, Basics DEF Length, CountInv, LeftCounts
    <3> QED BY <1>2, <1>4, <3>1 DEF LeftCounts
  <2> QED BY <1>1, <2>1, <2>2 DEF CountInv, SentFit, GoneIsQuiet, Enc
<1> QED BY <1>3, <1>4, <1>5, <1>6, <1>9, <1>10, <1>11, <1>12, <1>15, <1>16, <1>17

\* The receiver's own steps leave the way alone.
LEMMA SameWay ==
  ASSUME WayInv, UNCHANGED <<sent, pending, wire, closed>>
  PROVE  WayInv' /\ Way' = Way
BY DEF WayInv, WaySent, WayRuns, WayGoesOn, WayEnds, Way, Enc

\* The receiver gives up.
LEMMA StopTypes ==
  ASSUME IInv, pc' \in Ended,
         UNCHANGED <<sent, pending, wire, closed, bt, left, msg, received, network>>
  PROVE  RestTypes' /\ SeqTypes' /\ CountInv' /\ WayInv'
<1>1. SeqTypes /\ RestTypes /\ CountInv /\ WayInv
  BY Types DEF IInv
<1>2. SeqTypes'
  BY <1>1 DEF SeqTypes
<1>3. RestTypes'
  BY <1>1 DEF RestTypes
<1>4. CountInv'
  BY <1>1 DEF CountInv, SentFit, GoneIsQuiet, BtSent, LeftCounts, Ended, Enc
<1> QED BY <1>1, <1>2, <1>3, <1>4, SameWay

\* recvProtocol returns a message.
LEMMA DeliverTypes ==
  ASSUME IInv, NEW h \in Heads, NEW b \in Seq(Bytes), Deliver(h, b),
         UNCHANGED <<sent, pending, wire, closed, network>>
  PROVE  /\ RestTypes' /\ SeqTypes' /\ CountInv' /\ WayInv' /\ Way' = Way
         /\ Len(received') = Len(received) + 1 /\ Len(received) \in Nat
         /\ \A i \in 1..Len(received) : received'[i] = received[i]
         /\ received'[Len(received) + 1] = [head |-> h, body |-> b]
         /\ pc' = "header" /\ Len(bt') = 0 /\ left' = kHeaderLen
<1>1. SeqTypes /\ RestTypes /\ CountInv /\ WayInv
  BY Types DEF IInv
<1>2. /\ received' = Append(received, [head |-> h, body |-> b])
      /\ pc' = "header" /\ bt' = <<>> /\ left' = kHeaderLen /\ msg' = NoMsg
  BY DEF Deliver
<1>3. SeqTypes'
  BY <1>1, <1>2 DEF SeqTypes
<1>4. /\ received' \in Seq([head : Heads, body : Seq(Bytes)])
      /\ Len(received') = Len(received) + 1 /\ Len(received) \in Nat
      /\ \A i \in 1..Len(received) : received'[i] = received[i]
      /\ received'[Len(received) + 1] = [head |-> h, body |-> b]
  <2>1. received \in Seq([head : Heads, body : Seq(Bytes)])
        /\ [head |-> h, body |-> b] \in [head : Heads, body : Seq(Bytes)]
    BY <1>1 DEF RestTypes
  <2> QED BY <1>2, <2>1, LenProperties, AppendProperties
<1>5. NoMsg \in Heads
  BY Lengths DEF NoMsg, Heads
<1>6. RestTypes'
  BY <1>1, <1>2, <1>4, <1>5, Lengths DEF RestTypes
<1>7. CountInv'
  BY <1>1, <1>2, Lengths
     DEF CountInv, SentFit, GoneIsQuiet, BtSent, LeftCounts, Length, Enc
<1> QED BY <1>1, <1>2, <1>3, <1>4, <1>6, <1>7, SameWay

\* recvProtocol goes on with the payload.
LEMMA PayloadTypes ==
  ASSUME IInv, NEW h \in Heads, pc' = "payload", bt' = <<>>, left' = h.len, msg' = h,
         UNCHANGED <<sent, pending, wire, closed, network, received>>
  PROVE  RestTypes' /\ SeqTypes' /\ CountInv' /\ WayInv' /\ Way' = Way
<1>1. SeqTypes /\ RestTypes /\ CountInv /\ WayInv
  BY Types DEF IInv
<1>2. SeqTypes'
  BY <1>1 DEF SeqTypes
<1>3. h.len \in Nat
  BY DEF Heads
<1>4. RestTypes'
  BY <1>1, <1>3 DEF RestTypes
<1>5. CountInv'
  BY <1>1, <1>3 DEF CountInv, SentFit, GoneIsQuiet, BtSent, LeftCounts, Length, Enc
<1> QED BY <1>1, <1>2, <1>4, <1>5, SameWay

(***************************************************************************)
(* Where in the stream the receiver is.                                    *)
(***************************************************************************)
\* No error text up to b means none up to a.
LEMMA PlainDown ==
  ASSUME NEW a \in Int, NEW b \in Int, a <= b, Plain(b)
  PROVE  Plain(a)
<1>1. \A j \in 1..a : j \in 1..b
  OBVIOUS
<1> QED BY <1>1 DEF Plain

\* A receiver that gives up has no place to keep; it may crash only where the
\* theorem does not speak of it.
LEMMA StopPlace ==
  ASSUME IInv, pc' \in Ended, UNCHANGED <<sent, received, network>>,
         pc' = "crashed" => ~(~(network.pipelined /\ network.short) /\ Plain(Len(sent)))
  PROVE  PlaceInv'
<1>1. ~Good'
  BY DEF Good, Ended
<1>2. Intact'
  BY DEF IInv, PlaceInv, Intact, Plain, Whole, Header
<1> QED BY <1>1, <1>2 DEF PlaceInv, Knows, PlaceExact, PlaceAlone

\* The sender writes or closes: what is on its way is cut off at most.
LEMMA SenderPlace ==
  ASSUME IInv, SeqTypes', ~closed,
         UNCHANGED <<sent, pc, bt, left, msg, received, network>>,
         Len(Way') <= Len(Way), \A j \in 1..Len(Way') : Way'[j] = Way[j],
         closed' = TRUE \/ Len(Way') = Len(Way)
  PROVE  PlaceInv'
<1>1. SeqTypes /\ PlaceInv
  BY Types DEF IInv
<1>2. /\ Len(Way) \in Nat /\ Len(bt) \in Nat /\ Len(Hand) = Len(bt) + Len(Way)
      /\ \A j \in 1..Len(bt) : Hand[j] = bt[j]
      /\ \A j \in 1..Len(Way) : Hand[Len(bt) + j] = Way[j]
  BY <1>1, WayIs
<1>3. /\ Len(Way') \in Nat /\ Len(Hand') = Len(bt) + Len(Way')
      /\ \A j \in 1..Len(bt) : Hand'[j] = bt[j]
      /\ \A j \in 1..Len(Way') : Hand'[Len(bt) + j] = Way'[j]
  BY WayIsNext
<1>4. /\ Len(Hand') \in Nat /\ Len(Hand) \in Nat /\ Len(Hand') <= Len(Hand)
      /\ closed' = TRUE \/ Len(Hand') = Len(Hand)
  <2>1. Len(Hand') \in Nat /\ Len(Hand) \in Nat /\ Len(Hand') <= Len(Hand)
    BY <1>2, <1>3
  <2>2. CASE closed' = TRUE
    BY <2>1, <2>2
  <2>3. CASE Len(Way') = Len(Way)
    BY <1>2, <1>3, <2>1, <2>3
  <2> QED BY <2>2, <2>3
<1>5. ASSUME NEW j \in 1..Len(Hand')
      PROVE  Hand'[j] = Hand[j]
  <2>1. CASE j \in 1..Len(bt)
    BY <1>2, <1>3, <2>1
  <2>2. ASSUME NEW i \in 1..Len(Way'), j = Len(bt) + i
        PROVE  Hand'[j] = Hand[j]
    <3>1. i \in 1..Len(Way)
      BY <1>2, <1>3
    <3> QED BY <1>2, <1>3, <2>2, <3>1
  <2>3. j \in 1..Len(bt) \/ (j - Len(bt) \in 1..Len(Way') /\ j = Len(bt) + (j - Len(bt)))
    BY <1>2, <1>3
  <2> QED BY <2>1, <2>2, <2>3
<1>6. /\ Good' <=> Good
      /\ Current' = Current /\ Begin' = Begin /\ Length' = Length
      /\ \A i : Enc(i)' = Enc(i) /\ Header(i)' = Header(i)
  BY DEF Good, Plain, Current, Begin, Length, Enc, Header
<1>7. Knows'
  BY <1>1, <1>6 DEF PlaceInv, Knows, Current, Header
<1>8. ASSUME NEW at, GoesOnAt(at)
      PROVE  /\ Current <= Len(sent) /\ at = Enc(Current)
                  => /\ Len(Way') > 0 => Way'[1] = Byte(Current + 1, 0)
                     /\ Len(Way') = 0 => closed' \/ Len(sent) = Current
             /\ ~(Current <= Len(sent) /\ at = Enc(Current))
                  => /\ Len(Way') > 0 => Way'[1] = Byte(Current, at)
                     /\ Len(Way') = 0 => closed' \/ (at = 0 /\ Len(sent) = Len(received))
  <2>1. Len(Way') > 0 => Way'[1] = Way[1] /\ Len(Way) > 0
    <3>1. Len(Way') > 0 => 1 \in 1..Len(Way') /\ Len(Way) > 0
      BY <1>2, <1>3
    <3> QED BY <3>1
  <2>2. Len(Way') = 0 => closed' \/ Len(Way) = 0
    OBVIOUS
  <2> QED BY <1>8, <2>1, <2>2 DEF GoesOnAt
<1>9. PlaceExact'
  <2> SUFFICES ASSUME Good, ~network.short
               PROVE  /\ Len(bt) = 0 => GoesOnAt(Begin)'
                      /\ Len(bt) > 0 =>
                           /\ Current <= Len(sent)
                           /\ \A j \in 1..Len(bt) : bt[j] = Byte(Current, Begin + j - 1)
                           /\ left = 0 /\ GoesOnAt(Begin + Length)'
    BY <1>6 DEF PlaceExact
  <2>1. GoesOnAt(Begin) => GoesOnAt(Begin)'
    BY <1>6, <1>8 DEF GoesOnAt, Current, Enc
  <2>2. GoesOnAt(Begin + Length) => GoesOnAt(Begin + Length)'
    BY <1>6, <1>8 DEF GoesOnAt, Current, Enc
  <2> QED BY <1>1, <2>1, <2>2 DEF PlaceInv, PlaceExact
<1>10. PlaceAlone'
  <2> SUFFICES ASSUME Good, network.short
               PROVE  /\ Len(sent) <= Current
                      /\ pc = "header" =>
                           /\ Len(Hand') = 0 => closed' \/ Len(sent) = Len(received)
                           /\ Len(Hand') > 0 =>
                                /\ Len(sent) = Current /\ Len(Hand') <= Enc(Current)
                                /\ \A j \in 1..Len(Hand') : Hand'[j] = Byte(Current, j - 1)
                      /\ pc = "payload" =>
                           \E o \in Nat :
                             /\ kHeaderLen <= o /\ o + Len(Hand') <= Enc(Current)
                             /\ \A j \in 1..Len(Hand') : Hand'[j] = Byte(Current, o + j - 1)
    BY <1>6 DEF PlaceAlone, Current, Enc
  <2>0. SentFit /\ RestTypes /\ Len(sent) \in Nat /\ Len(received) \in Nat
        /\ \A i \in 1..Len(sent) : Enc(i) \in Nat
    BY <1>1, Types, Basics DEF IInv, CountInv
  <2>1. Len(sent) <= Current
    BY <1>1 DEF PlaceInv, PlaceAlone
  <2>2. ASSUME pc = "header", Len(Hand') > 0
        PROVE  /\ Len(sent) = Current /\ Len(Hand') <= Enc(Current)
               /\ \A j \in 1..Len(Hand') : Hand'[j] = Byte(Current, j - 1)
    <3>1. Len(Hand) > 0
      BY <1>4, <2>2
    <3>2. /\ Len(sent) = Current /\ Len(Hand) <= Enc(Current)
          /\ \A j \in 1..Len(Hand) : Hand[j] = Byte(Current, j - 1)
      BY <1>1, <2>2, <3>1 DEF PlaceInv, PlaceAlone
    <3>3. Enc(Current) \in Nat
      BY <2>0, <3>2 DEF Current
    <3>4. \A j \in 1..Len(Hand') : j \in 1..Len(Hand)
      BY <1>4
    <3> QED BY <1>4, <1>5, <3>2, <3>3, <3>4
  <2>3. ASSUME pc = "header", Len(Hand') = 0
        PROVE  closed' \/ Len(sent) = Len(received)
    BY <1>1, <1>4, <2>3 DEF PlaceInv, PlaceAlone
  <2>4. ASSUME pc = "payload"
        PROVE  \E o \in Nat :
                 /\ kHeaderLen <= o /\ o + Len(Hand') <= Enc(Current)
                 /\ \A j \in 1..Len(Hand') : Hand'[j] = Byte(Current, o + j - 1)
    <3>1. PICK o \in Nat : /\ kHeaderLen <= o /\ o + Len(Hand) <= Enc(Current)
                           /\ \A j \in 1..Len(Hand) : Hand[j] = Byte(Current, o + j - 1)
      BY <1>1, <2>4 DEF PlaceInv, PlaceAlone
    <3>2. Current \in 1..Len(sent)
      BY <1>1, <2>0, <2>4 DEF PlaceInv, Knows, Current
    <3>3. Enc(Current) \in Nat
      BY <2>0, <3>2
    <3>4. \A j \in 1..Len(Hand') : j \in 1..Len(Hand)
      BY <1>4
    <3>5. o + Len(Hand') <= Enc(Current)
      BY <1>4, <3>1, <3>3
    <3> QED BY <1>5, <3>1, <3>4, <3>5
  <2> QED BY <2>1, <2>2, <2>3, <2>4
<1>11. Intact'
  BY <1>1 DEF PlaceInv, Intact, Plain, Whole, Header
<1> QED BY <1>7, <1>9, <1>10, <1>11 DEF PlaceInv

\* A message is sent: it comes behind what is on its way.
LEMMA SendPlace ==
  ASSUME IInv, NEW p \in Protocols, sendProtocol(p),
         ~(p.err > p.content \/ EncodedLen(p) > m_base_size)
  PROVE  PlaceInv'
<1>1. SeqTypes /\ RestTypes /\ PlaceInv /\ WayInv
  BY Types DEF IInv
<1>2. /\ SeqTypes' /\ ~closed /\ Len(Way') = Len(Way) + EncodedLen(p)
      /\ \A j \in 1..Len(Way) : Way'[j] = Way[j]
      /\ \A j \in 1..EncodedLen(p) : Way'[Len(Way) + j] = Byte(Len(sent) + 1, j - 1)
      /\ sent' = Append(sent, p)
  BY SendTypes
<1>3. /\ UNCHANGED <<closed, wire, pc, bt, left, msg, received, network>>
      /\ network.pipelined \/ Len(received) = Len(sent)
  BY DEF sendProtocol
<1>4. /\ Len(sent) \in Nat /\ Len(sent') = Len(sent) + 1 /\ sent'[Len(sent) + 1] = p
      /\ \A i \in 1..Len(sent) : sent'[i] = sent[i]
  BY <1>1, <1>2, Appended DEF RestTypes
<1>5. /\ Len(received) \in Nat /\ Len(bt) \in Nat
      /\ \A i \in 1..Len(sent) : Enc(i) \in Nat
      /\ EncodedLen(p) \in Nat /\ EncodedLen(p) > 0
  BY <1>1, Basics, Lengths, SMTT(30)
<1>6. \A i \in 1..Len(sent) : Enc(i)' = Enc(i) /\ Header(i)' = Header(i) /\ Whole(i)' = Whole(i)
  BY <1>4 DEF Enc, Header, Whole
<1>7. ASSUME NEW x \in Nat, \A j \in 1..Min2(x, Len(sent')) : sent'[j].err = 0
      PROVE  Plain(Min2(x, Len(sent)))
  <2>1. /\ Min2(x, Len(sent)) \in Nat /\ Min2(x, Len(sent')) \in Nat
        /\ Min2(x, Len(sent)) <= Min2(x, Len(sent')) /\ Min2(x, Len(sent)) <= Len(sent)
    BY <1>4 DEF Min2
  <2>2. \A j \in 1..Min2(x, Len(sent)) : j \in 1..Min2(x, Len(sent')) /\ j \in 1..Len(sent)
    BY <1>4, <2>1
  <2> QED BY <1>4, <1>7, <2>2 DEF Plain
<1>8. Good' => Good
  <2>1. Current \in Nat /\ Current' = Current
    BY <1>3, <1>5 DEF Current
  <2>2. Good' => ~(network.pipelined /\ network.short)
    BY <1>3 DEF Good
  <2>3. CASE pc = "header"
    <3>1. Good' => \A j \in 1..Min2(Len(received), Len(sent')) : sent'[j].err = 0
      BY <1>3, <2>3 DEF Good, Plain
    <3> QED BY <1>5, <1>7, <2>2, <2>3, <3>1 DEF Good
  <2>4. CASE pc = "payload"
    <3>1. Good' => \A j \in 1..Min2(Current, Len(sent')) : sent'[j].err = 0
      BY <1>3, <2>1, <2>4 DEF Good, Plain
    <3> QED BY <1>7, <2>1, <2>2, <2>4, <3>1 DEF Good
  <2>5. Good' => pc \in {"header", "payload"}
    BY <1>3 DEF Good
  <2> QED BY <2>3, <2>4, <2>5
<1>9. Good => Len(received) <= Len(sent) /\ (pc = "payload" => Current \in 1..Len(sent))
  BY <1>1, <1>4, <1>5 DEF PlaceInv, Knows, Current
<1>10. Current' = Current /\ Begin' = Begin /\ Length' = Length
  BY <1>3 DEF Current, Begin, Length
<1>11. Knows'
  <2> SUFFICES ASSUME Good
               PROVE  /\ Len(received) <= Len(sent')
                      /\ pc = "payload" => /\ Current <= Len(sent') /\ msg = Header(Current)'
                                           /\ msg.len > 0
    BY <1>3, <1>8, <1>10 DEF Knows
  <2>1. pc = "payload" => msg = Header(Current) /\ msg.len > 0
    BY <1>1 DEF PlaceInv, Knows
  <2>2. pc = "payload" => Header(Current)' = Header(Current)
    BY <1>6, <1>9, <1>10 DEF Header
  <2> QED BY <1>4, <1>5, <1>9, <2>1, <2>2
<1>12. ASSUME Good, NEW at \in Nat, GoesOnAt(at)
       PROVE  GoesOnAt(at)'
  <2>1. Current \in Nat /\ Current > 0 /\ (Current <= Len(sent) => Current \in 1..Len(sent))
    BY <1>4, <1>5 DEF Current
  <2>2. Len(Way) \in Nat
    BY <1>1, WayIs
  <2>3. CASE Len(Way) > 0
    <3>1. Len(Way') > 0 /\ Way'[1] = Way[1] /\ 1 \in 1..Len(Way)
      BY <1>2, <1>5, <2>2, <2>3
    <3>2. CASE Current <= Len(sent) /\ at = Enc(Current)
      <4>1. Way[1] = Byte(Current + 1, 0)
        BY <1>12, <2>3, <3>2 DEF GoesOnAt
      <4>2. Current <= Len(sent') /\ at = Enc(Current)'
        BY <1>4, <1>6, <1>10, <2>1, <3>2 DEF Enc
      <4> QED BY <1>10, <3>1, <4>1, <4>2 DEF GoesOnAt
    <3>3. CASE ~(Current <= Len(sent) /\ at = Enc(Current))
      <4>1. Way[1] = Byte(Current, at)
        BY <1>12, <2>3, <3>3 DEF GoesOnAt
      <4>2. Way[1].of \in 1..Len(sent) /\ Way[1].at < Enc(Way[1].of)
        BY <1>1, <3>1 DEF WayInv, WaySent
      <4>3. Current \in 1..Len(sent) /\ at < Enc(Current)
        BY <4>1, <4>2 DEF Byte
      <4>4. at # Enc(Current)'
        BY <1>5, <1>6, <1>10, <4>3 DEF Enc
      <4> QED BY <1>10, <3>1, <4>1, <4>4 DEF GoesOnAt
    <3> QED BY <3>2, <3>3
  <2>4. CASE Len(Way) = 0
    <3>1. Len(Way') > 0 /\ Way'[1] = Byte(Len(sent) + 1, 0)
      <4>1. 1 \in 1..EncodedLen(p) /\ Len(Way) + 1 = 1 /\ 1 - 1 = 0
        BY <1>5, <2>4
      <4>2. Way'[Len(Way) + 1] = Byte(Len(sent) + 1, 1 - 1)
        BY <1>2, <4>1
      <4> QED BY <1>2, <1>5, <2>4, <4>1, <4>2
    <3>2. CASE Current <= Len(sent) /\ at = Enc(Current)
      <4>1. Len(sent) = Current
        BY <1>2, <1>12, <2>4, <3>2 DEF GoesOnAt
      <4>2. Current <= Len(sent') /\ at = Enc(Current)'
        BY <1>4, <1>6, <1>10, <2>1, <3>2 DEF Enc
      <4> QED BY <1>10, <3>1, <4>1, <4>2 DEF GoesOnAt
    <3>3. CASE ~(Current <= Len(sent) /\ at = Enc(Current))
      <4>1. at = 0 /\ Len(sent) = Len(received)
        BY <1>2, <1>12, <2>4, <3>3 DEF GoesOnAt
      <4>2. Len(sent) + 1 = Current
        BY <4>1 DEF Current
      <4>3. at # Enc(Current)'
        BY <1>4, <1>5, <1>10, <4>1, <4>2 DEF Enc
      <4> QED BY <1>10, <3>1, <4>1, <4>2, <4>3 DEF GoesOnAt
    <3> QED BY <3>2, <3>3
  <2> QED BY <2>2, <2>3, <2>4
<1>13. Begin \in Nat /\ Begin + Length \in Nat
  <2>1. Length \in Nat /\ kHeaderLen \in Nat
    BY <1>1, Basics, Lengths
  <2> QED BY <2>1 DEF Begin
<1>14. PlaceExact'
  <2> SUFFICES ASSUME Good, ~network.short
               PROVE  /\ Len(bt) = 0 => GoesOnAt(Begin)'
                      /\ Len(bt) > 0 =>
                           /\ Current <= Len(sent')
                           /\ \A j \in 1..Len(bt) : bt[j] = Byte(Current, Begin + j - 1)
                           /\ left = 0 /\ GoesOnAt(Begin + Length)'
    BY <1>3, <1>8, <1>10 DEF PlaceExact
  <2>1. GoesOnAt(Begin) => GoesOnAt(Begin)'
    <3>1. ASSUME NEW at \in Nat, at = Begin PROVE GoesOnAt(at)' <=> GoesOnAt(Begin)'
      BY <1>10, <3>1 DEF GoesOnAt
    <3> QED BY <1>12, <1>13, <3>1
  <2>2. GoesOnAt(Begin + Length) => GoesOnAt(Begin + Length)'
    <3>1. ASSUME NEW at \in Nat, at = Begin + Length
          PROVE  GoesOnAt(at)' <=> GoesOnAt(Begin + Length)'
      BY <1>10, <3>1 DEF GoesOnAt
    <3> QED BY <1>12, <1>13, <3>1
  <2>3. Current \in Nat
    BY <1>5 DEF Current
  <2>4. /\ Len(bt) = 0 => GoesOnAt(Begin)
        /\ Len(bt) > 0 =>
             /\ Current <= Len(sent)
             /\ \A j \in 1..Len(bt) : bt[j] = Byte(Current, Begin + j - 1)
             /\ left = 0 /\ GoesOnAt(Begin + Length)
    BY <1>1, <1>2 DEF PlaceInv, PlaceExact
  <2>5. Current <= Len(sent) => Current <= Len(sent')
    BY <1>4, <2>3
  <2> QED BY <2>1, <2>2, <2>4, <2>5
<1>15. PlaceAlone'
  <2> SUFFICES ASSUME Good, network.short
               PROVE  /\ Len(sent') = Current /\ pc = "header"
                      /\ Len(Hand') > 0 /\ Len(Hand') <= Enc(Current)'
                      /\ \A j \in 1..Len(Hand') : Hand'[j] = Byte(Current, j - 1)
    <3>1. Len(Hand') \in Nat /\ Current \in Nat
      BY <1>2, <1>5, WayIsNext DEF Current
    <3> QED BY <1>3, <1>8, <1>10, <3>1 DEF PlaceAlone
  <2>1. Len(received) = Len(sent)
    BY <1>3 DEF Good
  <2>2. pc = "header" /\ Current = Len(sent) + 1
    <3>1. Current = Len(sent) + 1
      BY <2>1 DEF Current
    <3>2. pc \in {"header", "payload"}
      BY DEF Good
    <3> QED BY <1>4, <1>9, <3>1, <3>2
  <2>3. Len(bt) = 0 /\ Len(Way) = 0
    <3>1. Len(Hand) = Len(bt) + Len(Way) /\ Len(Way) \in Nat
      BY <1>1, WayIs
    <3>2. ~(Len(Hand) > 0)
      BY <1>1, <1>4, <2>2 DEF PlaceInv, PlaceAlone
    <3> QED BY <1>5, <3>1, <3>2
  <2>4. Len(Hand') = EncodedLen(p) /\ \A j \in 1..EncodedLen(p) : Hand'[j] = Way'[j]
    <3>1. /\ Len(Hand') = Len(bt) + Len(Way')
          /\ \A j \in 1..Len(Way') : Hand'[Len(bt) + j] = Way'[j]
      BY <1>2, <1>3, WayIsNext
    <3>2. Len(Way') = EncodedLen(p) /\ \A j \in 1..EncodedLen(p) : 0 + j = j
      BY <1>2, <1>5, <2>3
    <3> QED BY <1>5, <2>3, <3>1, <3>2
  <2>5. \A j \in 1..EncodedLen(p) : Way'[j] = Byte(Current, j - 1)
    <3>1. \A j \in 1..EncodedLen(p) : 0 + j = j
      BY <1>5
    <3> QED BY <1>2, <2>2, <2>3, <3>1
  <2>6. Enc(Current)' = EncodedLen(p)
    BY <1>4, <1>10, <2>2 DEF Enc
  <2> QED BY <1>4, <1>5, <2>2, <2>4, <2>5, <2>6
<1>16. Intact'
  <2> SUFFICES ASSUME ~(network.pipelined /\ network.short)
               PROVE  /\ Plain(Len(sent))' => pc # "crashed"
                      /\ \A i \in DOMAIN received :
                           Plain(Min2(i, Len(sent)))'
                             => i <= Len(sent') /\ received[i] = Whole(i)'
    BY <1>3 DEF Intact
  <2>1. Plain(Len(sent))' => Plain(Len(sent))
    <3>1. \A j \in 1..Len(sent) : j \in 1..Len(sent')
      BY <1>4
    <3> QED BY <1>4, <3>1 DEF Plain
  <2>2. ASSUME NEW i \in DOMAIN received, Plain(Min2(i, Len(sent)))'
        PROVE  i <= Len(sent') /\ received[i] = Whole(i)'
    <3>1. i \in Nat /\ i > 0
      BY <1>1, <1>5 DEF RestTypes
    <3>2. Plain(Min2(i, Len(sent)))
      BY <1>7, <2>2, <3>1 DEF Plain
    <3>3. i <= Len(sent) /\ received[i] = Whole(i)
      BY <1>1, <3>2 DEF PlaceInv, Intact
    <3>4. i \in 1..Len(sent) /\ i <= Len(sent')
      BY <1>4, <3>1, <3>3
    <3> QED BY <1>6, <3>3, <3>4
  <2> QED BY <1>1, <2>1, <2>2 DEF PlaceInv, Intact
<1> QED BY <1>11, <1>14, <1>15, <1>16 DEF PlaceInv

\* Where the current message's bytes go on behind the first k of them, if the
\* way begins with byte "at" of it.
LEMMA Onwards ==
  ASSUME SeqTypes, RestTypes, SeqTypes', WayInv, NEW at \in Nat, NEW k \in Nat, k > 0,
         UNCHANGED <<sent, closed, received>>,
         Len(Way') = Len(Way) - k, \A j \in 1..Len(Way') : Way'[j] = Way[j + k],
         k <= Len(Way), Way[1] = Byte(Current, at),
         Current \in 1..Len(sent), at + k <= Enc(Current)
  PROVE  /\ \A j \in 1..k : Way[j] = Byte(Current, at + j - 1)
         /\ GoesOnAt(at + k)'
<1> DEFINE c == Current
           e == Enc(Current)
<1>1. /\ Len(Way) \in Nat /\ Len(Way') \in Nat /\ 1 \in 1..Len(Way)
      /\ c \in 1..Len(sent) /\ e \in Nat /\ Len(sent) \in Nat
      /\ Way[1].of = c /\ Way[1].at = at /\ at + k <= e
  <2>1. Len(Way) \in Nat /\ Len(Way') \in Nat
    BY WayIs, WayIsNext
  <2>2. Len(sent) \in Nat /\ Enc(Current) \in Nat
    BY Basics
  <2>3. 1 \in 1..Len(Way)
    BY <2>1
  <2>4. Way[1].of = Current /\ Way[1].at = at
    BY DEF Byte
  <2> QED BY <2>1, <2>2, <2>3, <2>4
<1>2. Current' = c /\ Enc(Current)' = e
  BY DEF Current, Enc
<1>3. \A d \in Nat : 1 + d <= Len(Way) /\ at + d < e => Way[1 + d] = Byte(c, at + d)
  BY <1>1 DEF WayInv, WayRuns
<1>4. GoesOnAt(at + k)' <=>
        IF c <= Len(sent) /\ at + k = e
          THEN /\ Len(Way') > 0 => Way'[1] = Byte(c + 1, 0)
               /\ Len(Way') = 0 => closed \/ Len(sent) = c
          ELSE /\ Len(Way') > 0 => Way'[1] = Byte(c, at + k)
               /\ Len(Way') = 0 => closed \/ (at + k = 0 /\ Len(sent) = Len(received))
  BY <1>2 DEF GoesOnAt
<1> HIDE DEF c, e
<1>5. ASSUME NEW j \in 1..k
      PROVE  Way[j] = Byte(c, at + j - 1)
  <2>1. PICK d \in Nat : d = j - 1 /\ 1 + d = j /\ at + d = at + j - 1
                         /\ 1 + d <= Len(Way) /\ at + d < e
    <3>1. j - 1 \in Nat /\ 1 + (j - 1) = j /\ at + (j - 1) = at + j - 1
          /\ 1 + (j - 1) <= Len(Way) /\ at + (j - 1) < e
      BY <1>1
    <3> QED BY <3>1
  <2> QED BY <1>3, <2>1
<1>6. /\ k \in 1..k /\ k \in 1..Len(Way) /\ at + k - 1 + 1 = at + k
      /\ Way[k].of = c /\ Way[k].at = at + k - 1
  <2>1. k \in 1..k /\ k \in 1..Len(Way) /\ at + k - 1 + 1 = at + k
    BY <1>1, SMTT(30)
  <2>2. Way[k] = Byte(c, at + k - 1)
    BY <1>5, <2>1
  <2> QED BY <2>1, <2>2 DEF Byte
<1>7. Len(Way') > 0 => Way'[1] = Way[1 + k] /\ 1 + k <= Len(Way) /\ k + 1 <= Len(Way)
                      /\ 1 + k = k + 1
  <2>1. Len(Way') > 0 => 1 \in 1..Len(Way') /\ 1 + k <= Len(Way) /\ k + 1 <= Len(Way)
                        /\ 1 + k = k + 1
    BY <1>1
  <2> QED BY <2>1
<1>8. Len(Way') = 0 => k = Len(Way) /\ Len(Way) > 0
  BY <1>1
<1>9. CASE at + k = e
  <2>1. Len(Way') > 0 => Way'[1] = Byte(c + 1, 0)
    <3>1. ASSUME k + 1 <= Len(Way) PROVE Way[k + 1] = Byte(c + 1, 0)
      <4>1. Way[k].at + 1 = Enc(Way[k].of)
        BY <1>6, <1>9 DEF e, c
      <4> QED BY <1>6, <3>1, <4>1 DEF WayInv, WayGoesOn
    <3> QED BY <1>7, <3>1
  <2>2. Len(Way') = 0 => closed \/ Len(sent) = c
    BY <1>6, <1>8 DEF WayInv, WayEnds
  <2>3. c <= Len(sent)
    BY <1>1
  <2> QED BY <1>4, <1>5, <1>9, <2>1, <2>2, <2>3 DEF c
<1>10. CASE at + k # e
  <2>1. at + k < e
    <3>1. at + k \in Nat /\ at + k <= e /\ e \in Nat
      BY <1>1
    <3> QED BY <1>10, <3>1
  <2>2. Len(Way') > 0 => Way'[1] = Byte(c, at + k)
    BY <1>3, <1>7, <2>1
  <2>3. ASSUME Len(Way') = 0 PROVE closed
    <3>1. SUFFICES ASSUME ~closed PROVE FALSE
      OBVIOUS
    <3>2. Way[k].of = Len(sent) /\ Way[k].at + 1 = Enc(Len(sent))
      BY <1>8, <2>3, <3>1 DEF WayInv, WayEnds
    <3>3. at + k = e
      BY <1>6, <3>2 DEF e, c
    <3> QED BY <1>10, <3>3
  <2> QED BY <1>4, <1>5, <1>10, <2>2, <2>3 DEF c
<1> QED BY <1>9, <1>10

\* A read: the receiver is further on in the same message.
LEMMA ReadPlace ==
  ASSUME IInv, pc \in {"header", "payload"}, left > 0, Fits(Length),
         NEW k \in 1..Min2(Asked(Length), Len(wire)),
         network.short \/ k >= left \/ (closed /\ k = Len(wire)),
         bt' = bt \o SubSeq(wire, 1, k), wire' = SubSeq(wire, k + 1, Len(wire)),
         left' = left - k, UNCHANGED <<sent, pending, closed, pc, msg, received, network>>
  PROVE  PlaceInv'
<1>1. SeqTypes /\ RestTypes /\ PlaceInv /\ WayInv /\ CountInv
  BY Types DEF IInv
<1>2. /\ SeqTypes'
      /\ Len(Way') = Len(Way) - k /\ \A j \in 1..Len(Way') : Way'[j] = Way[j + k]
      /\ Len(bt') = Len(bt) + k
      /\ \A j \in 1..k : bt'[Len(bt) + j] = Way[j]
      /\ Len(Hand') = Len(Hand) /\ \A j \in 1..Len(Hand) : Hand'[j] = Hand[j]
      /\ Len(wire') = Len(wire) - k
  BY ReadTypes
<1>3. /\ k \in Nat /\ 1 <= k /\ k <= Len(wire) /\ k <= Asked(Length)
      /\ Len(bt) = 0 => Asked(Length) = Length
  BY <1>1, ReadBounds
<1>4. /\ Good' <=> Good
      /\ Current' = Current /\ Begin' = Begin /\ Length' = Length
      /\ \A i : Enc(i)' = Enc(i) /\ Header(i)' = Header(i)
  BY DEF Good, Plain, Current, Begin, Length, Enc, Header
<1>5. Knows'
  BY <1>1, <1>4 DEF PlaceInv, Knows, Current, Header
<1>6. Intact'
  BY <1>1 DEF PlaceInv, Intact, Plain, Whole, Header
<1>7. PlaceAlone'
  <2>1. Good /\ network.short =>
          /\ Len(sent) <= Current
          /\ pc = "header" =>
               /\ Len(Hand) = 0 => closed \/ Len(sent) = Len(received)
               /\ Len(Hand) > 0 =>
                    /\ Len(sent) = Current /\ Len(Hand) <= Enc(Current)
                    /\ \A j \in 1..Len(Hand) : Hand[j] = Byte(Current, j - 1)
          /\ pc = "payload" =>
               \E o \in Nat : /\ kHeaderLen <= o /\ o + Len(Hand) <= Enc(Current)
                              /\ \A j \in 1..Len(Hand) : Hand[j] = Byte(Current, o + j - 1)
    BY <1>1 DEF PlaceInv, PlaceAlone
  <2> SUFFICES ASSUME Good, network.short
               PROVE  /\ Len(sent) <= Current
                      /\ pc = "header" =>
                           /\ Len(Hand') = 0 => closed \/ Len(sent) = Len(received)
                           /\ Len(Hand') > 0 =>
                                /\ Len(sent) = Current /\ Len(Hand') <= Enc(Current)
                                /\ \A j \in 1..Len(Hand') : Hand'[j] = Byte(Current, j - 1)
                      /\ pc = "payload" =>
                           \E o \in Nat :
                             /\ kHeaderLen <= o /\ o + Len(Hand') <= Enc(Current)
                             /\ \A j \in 1..Len(Hand') : Hand'[j] = Byte(Current, o + j - 1)
    BY <1>4 DEF PlaceAlone, Current, Enc
  <2> QED BY <1>2, <2>1, SMTT(30)
<1>8. PlaceExact'
  <2> SUFFICES ASSUME Good, ~network.short
               PROVE  /\ Len(bt') > 0 /\ Current <= Len(sent)
                      /\ \A j \in 1..Len(bt') : bt'[j] = Byte(Current, Begin + j - 1)
                      /\ \/ left' = 0 /\ GoesOnAt(Begin + Length)'
                         \/ left' > 0 /\ closed /\ Len(wire') = 0
    <3>1. Len(bt') > 0 => Len(bt') # 0
      OBVIOUS
    <3> QED BY <1>4, <3>1 DEF PlaceExact
  <2>1. /\ Len(bt) \in Nat /\ Len(wire) \in Nat /\ Length \in Nat /\ left = Length - Len(bt)
        /\ Len(sent) \in Nat /\ Len(received) \in Nat
        /\ Len(Way) \in Nat /\ Len(wire) <= Len(Way)
    <3>1. Len(Way) = Len(wire) + Len(pending) /\ Len(pending) \in Nat
      BY <1>1, WayIs
    <3> QED BY <1>1, <3>1, Basics DEF CountInv, LeftCounts
  <2>2. Len(bt) = 0 /\ GoesOnAt(Begin)
    <3>1. ~(Len(bt) > 0)
      BY <1>1, <1>3, <2>1 DEF PlaceInv, PlaceExact
    <3> QED BY <1>1, <2>1, <3>1 DEF PlaceInv, PlaceExact
  <2>3. k <= Length /\ left = Length /\ k <= Len(Way) /\ Len(Way) > 0 /\ k > 0
    BY <1>3, <2>1, <2>2
  <2>4. Current \in Nat /\ Current > 0 /\ (Current <= Len(sent) => Current \in 1..Len(sent))
    BY <2>1, SMTT(30) DEF Current
  <2>5. ASSUME Current \in 1..Len(sent)
        PROVE  Begin \in Nat /\ Enc(Current) \in Nat /\ Begin < Enc(Current)
               /\ Begin + Length <= Enc(Current)
    <3>1. /\ Enc(Current) \in Nat /\ sent[Current].content \in Nat
          /\ kHeaderLen + sent[Current].content <= Enc(Current)
      BY <1>1, <2>5, Basics, Lengths DEF Enc
    <3>2. kHeaderLen \in Nat /\ kHeaderLen > 0
      BY Lengths
    <3>3. CASE pc = "header"
      BY <3>1, <3>2, <3>3, SMTT(30) DEF Begin, Length
    <3>4. CASE pc = "payload"
      <4>1. msg = Header(Current) /\ msg.len > 0
        BY <1>1, <3>4 DEF PlaceInv, Knows
      <4>2. msg.len = sent[Current].content /\ msg.len > 0
        BY <4>1 DEF Header
      <4>3. Begin = kHeaderLen /\ Length = msg.len
        BY <3>4 DEF Begin, Length
      <4> QED BY <3>1, <3>2, <4>2, <4>3
    <3> QED BY <3>3, <3>4
  <2>6. Way[1] = Byte(Current, Begin)
    <3>1. ~(Current <= Len(sent) /\ Begin = Enc(Current))
      BY <2>4, <2>5
    <3> QED BY <2>2, <2>3, <3>1 DEF GoesOnAt
  <2>7. Current \in 1..Len(sent)
    <3>1. 1 \in 1..Len(Way)
      BY <2>1, <2>3
    <3>2. Way[1].of \in 1..Len(sent)
      BY <1>1, <3>1 DEF WayInv, WaySent
    <3> QED BY <2>6, <3>2 DEF Byte
  <2>8. Begin \in Nat /\ Begin + k <= Enc(Current)
    <3>1. Begin \in Nat /\ Enc(Current) \in Nat /\ Begin + Length <= Enc(Current)
      BY <2>5, <2>7
    <3> QED BY <1>3, <2>1, <2>3, <3>1, SMTT(30)
  <2>9. /\ \A j \in 1..k : Way[j] = Byte(Current, Begin + j - 1)
        /\ GoesOnAt(Begin + k)'
    <3> DEFINE b == Begin
    <3>1. b \in Nat /\ Way[1] = Byte(Current, b) /\ b + k <= Enc(Current) /\ b' = b
      BY <1>4, <2>6, <2>8
    <3> HIDE DEF b
    <3>2. ASSUME NEW at \in Nat, at = b
          PROVE  /\ \A j \in 1..k : Way[j] = Byte(Current, at + j - 1)
                 /\ GoesOnAt(at + k)'
      BY <1>1, <1>2, <1>3, <2>3, <2>7, <3>1, <3>2, Onwards
    <3>3. \A j \in 1..k : Way[j] = Byte(Current, b + j - 1)
      BY <3>1, <3>2
    <3>4. ASSUME NEW at \in Nat, at = b PROVE GoesOnAt(at + k)' <=> GoesOnAt(b + k)'
      BY <3>1, <3>4 DEF GoesOnAt
    <3>5. GoesOnAt(b + k)'
      BY <3>1, <3>2, <3>4
    <3> QED BY <3>3, <3>5 DEF b
  <2>10. Len(bt') = k /\ \A j \in 1..k : bt'[j] = Way[j]
    <3>1. Len(bt) + k = k /\ \A j \in 1..k : Len(bt) + j = j
      BY <1>3, <2>2
    <3> QED BY <1>2, <3>1
  <2>11. CASE k = Length
    <3>1. left' = 0
      BY <2>1, <2>3, <2>11
    <3>2. GoesOnAt(Begin + Length)' <=> GoesOnAt(Begin + k)'
      BY <1>4, <2>11 DEF GoesOnAt
    <3> QED BY <2>3, <2>7, <2>9, <2>10, <3>1, <3>2, SMTT(30)
  <2>12. CASE k # Length
    <3>1. ~(k >= left)
      BY <1>3, <2>1, <2>3, <2>12
    <3>2. closed /\ k = Len(wire)
      BY <3>1
    <3>3. left' > 0 /\ Len(wire') = 0
      BY <1>2, <1>3, <2>1, <2>3, <2>12, <3>2
    <3> QED BY <2>3, <2>7, <2>9, <2>10, <3>2, <3>3
  <2> QED BY <2>11, <2>12
<1> QED BY <1>5, <1>6, <1>7, <1>8 DEF PlaceInv

\* The network and the messages so far are ones the theorem speaks of.
Spoken == ~(network.pipelined /\ network.short) /\ Plain(Min2(Current, Len(sent)))

\* What is then known of the receiver.
LEMMA SpokenGood ==
  ASSUME IInv, Spoken, pc \in {"header", "payload"}
  PROVE  Good /\ Len(received) <= Len(sent)
<1>1. Len(sent) \in Nat /\ Len(received) \in Nat
  BY Types, Basics DEF IInv
<1>2. /\ Min2(Current, Len(sent)) \in Int /\ Min2(Len(received), Len(sent)) \in Int
      /\ Min2(Len(received), Len(sent)) <= Min2(Current, Len(sent))
  BY <1>1 DEF Min2, Current
<1>3. Plain(Min2(Len(received), Len(sent)))
  BY <1>2, PlainDown DEF Spoken
<1>4. Good
  BY <1>3 DEF Good, Spoken
<1> QED BY <1>4 DEF IInv, PlaceInv, Knows

\* A message no error text comes with.
LEMMA PlainMessage ==
  ASSUME IInv, Spoken, Current \in 1..Len(sent)
  PROVE  /\ sent[Current] \in Protocols /\ sent[Current].content \in Nat
         /\ Header(Current).len = sent[Current].content /\ Header(Current).err = 0
         /\ Enc(Current) = kHeaderLen + sent[Current].content
<1>1. Len(sent) \in Nat /\ Len(received) \in Nat /\ sent[Current] \in Protocols
  BY Types, Basics DEF IInv
<1>2. Min2(Current, Len(sent)) = Current
  BY <1>1 DEF Min2
<1>3. Current \in 1..Current
  BY <1>1
<1>4. sent[Current].err = 0
  BY <1>2, <1>3 DEF Spoken, Plain
<1> QED BY <1>1, <1>4, Lengths DEF Enc, Header

\* A message is handed on: it is the current one, all of it, and the next one
\* is at the head of the stream.
LEMMA DeliverPlace ==
  ASSUME IInv, NEW h \in Heads, NEW b \in Seq(Bytes), Deliver(h, b),
         UNCHANGED <<sent, pending, wire, closed, network>>,
         Spoken => /\ Current \in 1..Len(sent) /\ h = Header(Current)
                   /\ b = Run(Current, kHeaderLen, Enc(Current))
                   /\ ~network.short => GoesOnAt(Enc(Current))
                   /\ network.short => Len(sent) = Current /\ Len(Way) = 0
  PROVE  PlaceInv'
<1>1. SeqTypes /\ RestTypes /\ PlaceInv
  BY Types DEF IInv
<1>2. /\ SeqTypes' /\ Way' = Way
      /\ Len(received') = Len(received) + 1
      /\ \A i \in 1..Len(received) : received'[i] = received[i]
      /\ received'[Len(received) + 1] = [head |-> h, body |-> b]
      /\ pc' = "header" /\ Len(bt') = 0
  BY DeliverTypes
<1>3. /\ Len(sent) \in Nat /\ Len(received) \in Nat
      /\ \A i \in 1..Len(sent) : sent[i] \in Protocols
  BY <1>1, Basics
<1>4. Current = Len(received') /\ Current' = Current + 1 /\ Current \in Nat
  BY <1>2, <1>3 DEF Current
<1>5. Good' => Spoken
  BY <1>2, <1>4 DEF Good, Spoken, Plain
<1>6. Knows'
  BY <1>2, <1>4, <1>5 DEF Knows
<1>7. PlaceExact'
  <2> SUFFICES ASSUME Spoken, ~network.short
               PROVE  GoesOnAt(Begin)'
    BY <1>2, <1>5 DEF PlaceExact
  <2>1. Begin' = 0
    BY <1>2 DEF Begin
  <2>2. Current' <= Len(sent) => Enc(Current)' # 0
    <3>1. Current' <= Len(sent) => sent[Current + 1] \in Protocols
      BY <1>3, <1>4
    <3>2. \A p \in Protocols : EncodedLen(p) \in Nat /\ EncodedLen(p) > 0
      BY Lengths
    <3> QED BY <1>4, <3>1, <3>2 DEF Enc
  <2>3. /\ Len(Way) > 0 => Way[1] = Byte(Current + 1, 0)
        /\ Len(Way) = 0 => closed \/ Len(sent) = Current
    BY <1>3 DEF GoesOnAt
  <2> QED BY <1>2, <1>4, <2>1, <2>2, <2>3 DEF GoesOnAt
<1>8. PlaceAlone'
  <2> SUFFICES ASSUME Spoken, network.short
               PROVE  /\ Len(sent) <= Current + 1 /\ Len(Hand') = 0
                      /\ Len(sent) = Len(received')
    BY <1>2, <1>4, <1>5 DEF PlaceAlone
  <2>1. Len(Hand') = 0
    <3>1. Len(Hand') = Len(bt') + Len(Way')
      BY <1>2, WayIsNext
    <3> QED BY <1>2, <3>1
  <2> QED BY <1>3, <1>4, <2>1
<1>9. Intact'
  <2> SUFFICES ASSUME ~(network.pipelined /\ network.short),
                      NEW i \in DOMAIN received', Plain(Min2(i, Len(sent)))
               PROVE  i <= Len(sent) /\ received'[i] = Whole(i)
    BY <1>2 DEF Intact, Plain, Whole, Header
  <2>1. i \in 1..Len(received) \/ i = Len(received) + 1
    <3>1. received' \in Seq([head : Heads, body : Seq(Bytes)])
      BY DeliverTypes DEF RestTypes
    <3>2. DOMAIN received' = 1..Len(received')
      BY <3>1
    <3> QED BY <1>2, <1>3, <3>2
  <2>2. CASE i \in 1..Len(received)
    <3>1. i \in DOMAIN received
      BY <1>1, <2>2 DEF RestTypes
    <3> QED BY <1>1, <1>2, <2>2, <3>1 DEF PlaceInv, Intact
  <2>3. CASE i = Len(received) + 1
    <3>1. i = Current /\ Spoken
      BY <2>3 DEF Current, Spoken
    <3> QED BY <1>2, <1>3, <2>3, <3>1 DEF Whole, Enc
  <2> QED BY <2>1, <2>2, <2>3
<1> QED BY <1>6, <1>7, <1>8, <1>9 DEF PlaceInv

\* The header is decoded and the payload is next.
LEMMA PayloadPlace ==
  ASSUME IInv, NEW h \in Heads, pc' = "payload", bt' = <<>>, left' = h.len, msg' = h,
         UNCHANGED <<sent, pending, wire, closed, network, received>>,
         Spoken => /\ Current \in 1..Len(sent) /\ h = Header(Current) /\ h.len > 0
                   /\ ~network.short => GoesOnAt(kHeaderLen)
                   /\ network.short =>
                        /\ Len(sent) <= Current
                        /\ \E o \in Nat :
                             /\ kHeaderLen <= o /\ o + Len(Way) <= Enc(Current)
                             /\ \A j \in 1..Len(Way) : Way[j] = Byte(Current, o + j - 1)
  PROVE  PlaceInv'
<1>1. SeqTypes /\ RestTypes /\ PlaceInv
  BY Types DEF IInv
<1>2. SeqTypes' /\ Way' = Way
  BY PayloadTypes
<1>3. Len(sent) \in Nat /\ Len(received) \in Nat /\ Len(bt') = 0
  BY <1>1, Basics
<1>4. Current' = Current
  BY DEF Current
<1>5. Good' => Spoken
  BY <1>4 DEF Good, Spoken, Plain
<1>6. \A i : Enc(i)' = Enc(i) /\ Header(i)' = Header(i)
  BY DEF Enc, Header
<1>7. Knows'
  <2>1. Header(Current)' = Header(Current)
    BY <1>4 DEF Header
  <2>2. Spoken => Len(received) <= Len(sent) /\ Current <= Len(sent)
    BY <1>3 DEF Current
  <2> QED BY <1>4, <1>5, <2>1, <2>2 DEF Knows
<1>8. PlaceExact'
  <2>1. Begin' = kHeaderLen
    BY DEF Begin
  <2>2. GoesOnAt(kHeaderLen) => GoesOnAt(Begin)'
    BY <1>2, <1>4, <2>1 DEF GoesOnAt, Enc
  <2> QED BY <1>3, <1>5, <2>2 DEF PlaceExact
<1>9. PlaceAlone'
  <2>1. Len(Hand') = Len(Way) /\ \A j \in 1..Len(Way) : Hand'[j] = Way[j]
    <3>1. /\ Len(Hand') = Len(bt') + Len(Way') /\ Len(Way') \in Nat
          /\ \A j \in 1..Len(Way') : Hand'[Len(bt') + j] = Way'[j]
      BY <1>2, WayIsNext
    <3>2. \A j \in 1..Len(Way) : 0 + j = j
      BY <1>2, <3>1
    <3> QED BY <1>2, <1>3, <3>1, <3>2
  <2> SUFFICES ASSUME Spoken, network.short
               PROVE  /\ Len(sent) <= Current
                      /\ \E o \in Nat :
                           /\ kHeaderLen <= o /\ o + Len(Hand') <= Enc(Current)
                           /\ \A j \in 1..Len(Hand') : Hand'[j] = Byte(Current, o + j - 1)
    BY <1>4, <1>5 DEF PlaceAlone, Enc
  <2> QED BY <2>1
<1>10. Intact'
  BY <1>1 DEF PlaceInv, Intact, Plain, Whole, Header
<1> QED BY <1>7, <1>8, <1>9, <1>10 DEF PlaceInv

\* The header of a message the theorem speaks of is the first in the array,
\* and the stream goes on behind it.
LEMMA HeaderInPlace ==
  ASSUME IInv, pc = "header", left <= 0, Spoken
  PROVE  /\ bt[1] = Byte(Current, 0) /\ Current \in 1..Len(sent)
         /\ ~network.short => GoesOnAt(kHeaderLen)
         /\ network.short =>
              /\ Len(sent) = Current /\ Len(bt) + Len(Way) <= Enc(Current)
              /\ \A j \in 1..Len(Way) : Way[j] = Byte(Current, Len(bt) + j - 1)
<1>1. SeqTypes /\ RestTypes /\ PlaceInv /\ CountInv
  BY Types DEF IInv
<1>2. Good
  BY SpokenGood
<1>3. kHeaderLen \in Nat /\ kHeaderLen > 0 /\ Length = kHeaderLen /\ Begin = 0
  BY Lengths DEF Length, Begin
<1>4. Len(bt) \in Nat /\ Len(bt) >= kHeaderLen /\ Len(bt) > 0 /\ 1 \in 1..Len(bt)
      /\ Len(sent) \in Nat /\ Len(received) \in Nat
  <2>1. left = kHeaderLen - Len(bt)
    BY <1>1, <1>3 DEF CountInv, LeftCounts
  <2>2. Len(bt) \in Nat /\ Len(sent) \in Nat /\ Len(received) \in Nat
    BY <1>1, Basics
  <2> QED BY <1>3, <2>1, <2>2
<1>5. Current \in Nat /\ Current > 0
  BY <1>4 DEF Current
<1>6. CASE ~network.short
  <2>1. /\ Current <= Len(sent)
        /\ \A j \in 1..Len(bt) : bt[j] = Byte(Current, Begin + j - 1)
        /\ \/ left = 0 /\ GoesOnAt(Begin + Length)
           \/ left > 0
    BY <1>1, <1>2, <1>4, <1>6 DEF PlaceInv, PlaceExact
  <2>2. left \in Int /\ ~(left > 0)
    BY <1>1 DEF RestTypes
  <2>3. Begin + 1 - 1 = 0 /\ Begin + Length = kHeaderLen
    BY <1>3
  <2>4. bt[1] = Byte(Current, 0)
    BY <1>4, <2>1, <2>3
  <2>5. GoesOnAt(kHeaderLen)
    BY <2>1, <2>2, <2>3
  <2> QED BY <1>4, <1>5, <1>6, <2>1, <2>4, <2>5
<1>7. CASE network.short
  <2>1. /\ Len(Hand) = Len(bt) + Len(Way) /\ Len(Way) \in Nat /\ Hand[1] = bt[1]
        /\ \A j \in 1..Len(Way) : Hand[Len(bt) + j] = Way[j]
    BY <1>1, <1>4, WayIs
  <2>2. Len(Hand) > 0 /\ 1 \in 1..Len(Hand)
    BY <1>4, <2>1
  <2>3. /\ Len(sent) = Current /\ Len(Hand) <= Enc(Current)
        /\ \A j \in 1..Len(Hand) : Hand[j] = Byte(Current, j - 1)
    BY <1>1, <1>2, <1>7, <2>2 DEF PlaceInv, PlaceAlone
  <2>4. bt[1] = Byte(Current, 0)
    <3>1. Hand[1] = Byte(Current, 1 - 1) /\ 1 - 1 = 0
      BY <2>2, <2>3
    <3> QED BY <2>1, <3>1
  <2>5. ASSUME NEW j \in 1..Len(Way)
        PROVE  Way[j] = Byte(Current, Len(bt) + j - 1)
    <3>1. Len(bt) + j \in 1..Len(Hand)
      BY <1>4, <2>1
    <3>2. Hand[Len(bt) + j] = Byte(Current, Len(bt) + j - 1)
      BY <2>3, <3>1
    <3> QED BY <2>1, <3>2
  <2> QED BY <1>4, <1>5, <1>7, <2>1, <2>3, <2>4, <2>5
<1> QED BY <1>6, <1>7

\* decodeHeader keeps the invariant.
LEMMA DecodeStep ==
  ASSUME IInv, decodeHeader
  PROVE  IInv'
<1>1. SeqTypes /\ RestTypes /\ PlaceInv /\ CountInv /\ WayInv
  BY Types DEF IInv
<1>2. pc = "header" /\ left <= 0 /\ UNCHANGED <<sent, pending, wire, closed, network>>
  BY DEF decodeHeader
<1>3. /\ Len(bt) \in Nat /\ Len(bt) >= kHeaderLen /\ 1 \in 1..Len(bt)
      /\ kHeaderLen \in Nat /\ kHeaderLen > 0
  <2>1. left = kHeaderLen - Len(bt)
    BY <1>1, <1>2 DEF CountInv, LeftCounts, Length
  <2>2. Len(bt) \in Nat /\ kHeaderLen \in Nat /\ kHeaderLen > 0
    BY <1>1, Basics, Lengths
  <2> QED BY <1>2, <2>1, <2>2
<1>4. <<>> \in Seq(Bytes)
  OBVIOUS
<1>5. ASSUME NEW h \in Heads, Decoded(h), Spoken => h = Header(Current)
      PROVE  IInv'
  <2>1. CASE h.len = 0
    <3>1. Deliver(h, <<>>)
      BY <1>5, <2>1 DEF Decoded
    <3>2. RestTypes' /\ SeqTypes' /\ CountInv' /\ WayInv'
      BY <1>2, <1>4, <3>1, DeliverTypes
    <3>3. ASSUME Spoken
          PROVE  /\ Current \in 1..Len(sent) /\ h = Header(Current)
                 /\ <<>> = Run(Current, kHeaderLen, Enc(Current))
                 /\ ~network.short => GoesOnAt(Enc(Current))
                 /\ network.short => Len(sent) = Current /\ Len(Way) = 0
      <4>1. /\ Current \in 1..Len(sent) /\ h = Header(Current)
            /\ ~network.short => GoesOnAt(kHeaderLen)
            /\ network.short => Len(sent) = Current /\ Len(bt) + Len(Way) <= Enc(Current)
        BY <1>2, <1>5, <3>3, HeaderInPlace
      <4>2. Enc(Current) = kHeaderLen
        <5>1. /\ Header(Current).len = sent[Current].content
              /\ Enc(Current) = kHeaderLen + sent[Current].content
          BY <3>3, <4>1, PlainMessage
        <5> QED BY <1>3, <2>1, <4>1, <5>1
      <4>3. <<>> = Run(Current, kHeaderLen, Enc(Current))
        BY <1>3, <4>2 DEF Run
      <4>4. network.short => Len(Way) = 0
        <5>1. Len(Way) \in Nat
          BY <1>1, WayIs
        <5> QED BY <1>3, <4>1, <4>2, <5>1
      <4> QED BY <4>1, <4>2, <4>3, <4>4
    <3>4. PlaceInv'
      BY <1>2, <1>4, <3>1, <3>3, DeliverPlace
    <3> QED BY <3>2, <3>4, Types, PTL DEF IInv
  <2>2. CASE h.len # 0
    <3>1. pc' = "payload" /\ bt' = <<>> /\ left' = h.len /\ msg' = h /\ UNCHANGED received
      BY <1>5, <2>2 DEF Decoded
    <3>2. RestTypes' /\ SeqTypes' /\ CountInv' /\ WayInv'
      BY <1>2, <3>1, PayloadTypes
    <3>3. ASSUME Spoken
          PROVE  /\ Current \in 1..Len(sent) /\ h = Header(Current) /\ h.len > 0
                 /\ ~network.short => GoesOnAt(kHeaderLen)
                 /\ network.short =>
                      /\ Len(sent) <= Current
                      /\ \E o \in Nat :
                           /\ kHeaderLen <= o /\ o + Len(Way) <= Enc(Current)
                           /\ \A j \in 1..Len(Way) : Way[j] = Byte(Current, o + j - 1)
      <4>1. /\ Current \in 1..Len(sent) /\ h = Header(Current)
            /\ ~network.short => GoesOnAt(kHeaderLen)
            /\ network.short =>
                 /\ Len(sent) = Current /\ Len(bt) + Len(Way) <= Enc(Current)
                 /\ \A j \in 1..Len(Way) : Way[j] = Byte(Current, Len(bt) + j - 1)
        BY <1>2, <1>5, <3>3, HeaderInPlace
      <4>2. h.len > 0
        BY <2>2 DEF Heads
      <4>3. Len(sent) = Current => Len(sent) <= Current
        BY <1>1, Basics
      <4>4. kHeaderLen <= Len(bt)
        BY <1>3
      <4> QED BY <1>3, <4>1, <4>2, <4>3, <4>4
    <3>4. PlaceInv'
      BY <1>2, <3>1, <3>3, PayloadPlace
    <3> QED BY <3>2, <3>4, Types, PTL DEF IInv
  <2> QED BY <2>1, <2>2
<1>6. CASE bt[1].at = 0
  <2>1. Decoded(Header(bt[1].of))
    BY <1>6 DEF decodeHeader
  <2>2. bt[1].of \in 1..Len(sent)
    BY <1>1, <1>3 DEF CountInv, BtSent
  <2>3. Header(bt[1].of) \in Heads
    BY <1>1, <2>2, Basics
  <2>4. Spoken => bt[1].of = Current
    BY <1>2, HeaderInPlace DEF Byte
  <2> QED BY <1>5, <2>1, <2>3, <2>4
<1>7. CASE bt[1].at # 0
  <2>1. ~Spoken
    BY <1>2, <1>7, HeaderInPlace DEF Byte
  <2>2. CASE pc' = "ended" /\ UNCHANGED <<bt, left, msg, received>>
    <3>1. RestTypes' /\ SeqTypes' /\ CountInv' /\ WayInv'
      BY <1>2, <2>2, StopTypes DEF Ended
    <3>2. PlaceInv'
      BY <1>2, <2>2, StopPlace DEF Ended
    <3> QED BY <3>1, <3>2, Types, PTL DEF IInv
  <2>3. ASSUME NEW len \in JunkLens, Decoded([of |-> 0, len |-> len, err |-> 0])
        PROVE  IInv'
    <3>1. [of |-> 0, len |-> len, err |-> 0] \in Heads
      BY Lengths DEF JunkLens, Heads
    <3> QED BY <1>5, <2>1, <2>3, <3>1
  <2> QED BY <1>7, <2>2, <2>3 DEF decodeHeader
<1> QED BY <1>6, <1>7

\* The payload of a message the theorem speaks of is all that is in the array.
LEMMA PayloadInPlace ==
  ASSUME IInv, pc = "payload", left <= 0, Spoken
  PROVE  /\ Current \in 1..Len(sent) /\ msg = Header(Current) /\ msg.err = 0
         /\ bt = Run(Current, kHeaderLen, Enc(Current))
         /\ ~network.short => GoesOnAt(Enc(Current))
         /\ network.short => Len(sent) = Current /\ Len(Way) = 0
<1>1. SeqTypes /\ RestTypes /\ PlaceInv /\ CountInv
  BY Types DEF IInv
<1>2. Good
  BY SpokenGood
<1>3. Len(bt) \in Nat /\ Len(sent) \in Nat /\ Len(received) \in Nat /\ msg.len \in Nat
      /\ kHeaderLen \in Nat /\ Length = msg.len /\ Begin = kHeaderLen
  BY <1>1, Basics, Lengths DEF Length, Begin
<1>4. Current \in 1..Len(sent) /\ msg = Header(Current) /\ msg.len > 0
  BY <1>1, <1>2, <1>3 DEF PlaceInv, Knows, Current
<1>5. msg.err = 0 /\ Enc(Current) = kHeaderLen + msg.len
  BY <1>4, PlainMessage
<1>6. left = msg.len - Len(bt) /\ Len(bt) >= msg.len /\ Len(bt) > 0
  <2>1. left = msg.len - Len(bt)
    BY <1>1, <1>3 DEF CountInv, LeftCounts
  <2> QED BY <1>3, <1>4, <2>1
<1>7. ASSUME Len(bt) = msg.len, \A j \in 1..Len(bt) : bt[j] = Byte(Current, kHeaderLen + j - 1)
      PROVE  bt = Run(Current, kHeaderLen, Enc(Current))
  <2> DEFINE c == Current
             e == kHeaderLen + msg.len
  <2>1. c \in 1..MaxMessages
    <3>1. Len(sent) <= MaxMessages /\ MaxMessages \in Nat
      BY <1>1, Lengths DEF RestTypes
    <3> QED BY <1>3, <1>4, <3>1
  <2>2. e \in Nat /\ kHeaderLen <= e /\ e - kHeaderLen = Len(bt)
    BY <1>3, <1>7
  <2> HIDE DEF c, e
  <2>3. /\ Run(c, kHeaderLen, e) \in Seq(Bytes) /\ Len(Run(c, kHeaderLen, e)) = e - kHeaderLen
        /\ \A j \in 1..(e - kHeaderLen) : Run(c, kHeaderLen, e)[j] = Byte(c, kHeaderLen + j - 1)
    BY <1>3, <2>1, <2>2, RunFacts
  <2>4. \A j \in 1..Len(bt) : bt[j] = Run(c, kHeaderLen, e)[j]
    BY <1>7, <2>2, <2>3 DEF c
  <2>5. bt = Run(c, kHeaderLen, e)
    <3>1. bt \in Seq(Bytes)
      BY <1>1 DEF SeqTypes
    <3> QED BY <2>2, <2>3, <2>4, <3>1, SeqEqual
  <2> QED BY <1>5, <2>5 DEF c, e
<1>8. CASE ~network.short
  <2>1. /\ \A j \in 1..Len(bt) : bt[j] = Byte(Current, Begin + j - 1)
        /\ \/ left = 0 /\ GoesOnAt(Begin + Length)
           \/ left > 0
    BY <1>1, <1>2, <1>6, <1>8 DEF PlaceInv, PlaceExact
  <2>2. left = 0
    BY <1>3, <1>6, <2>1
  <2>3. Len(bt) = msg.len
    BY <1>3, <1>6, <2>2
  <2>4. GoesOnAt(Enc(Current))
    BY <1>3, <1>5, <2>1, <2>2
  <2> QED BY <1>3, <1>4, <1>5, <1>7, <1>8, <2>1, <2>3, <2>4
<1>9. CASE network.short
  <2>1. /\ Len(Hand) = Len(bt) + Len(Way) /\ Len(Way) \in Nat
        /\ \A j \in 1..Len(bt) : Hand[j] = bt[j]
    BY <1>1, WayIs
  <2>2. PICK o \in Nat : /\ kHeaderLen <= o /\ o + Len(Hand) <= Enc(Current)
                         /\ \A j \in 1..Len(Hand) : Hand[j] = Byte(Current, o + j - 1)
    BY <1>1, <1>2, <1>9 DEF PlaceInv, PlaceAlone
  <2>3. o = kHeaderLen /\ Len(Way) = 0 /\ Len(bt) = msg.len
    BY <1>3, <1>5, <1>6, <2>1, <2>2, SMTT(30)
  <2>4. \A j \in 1..Len(bt) : j \in 1..Len(Hand)
    BY <1>3, <2>1
  <2>5. \A j \in 1..Len(bt) : bt[j] = Byte(Current, kHeaderLen + j - 1)
    BY <2>1, <2>2, <2>3, <2>4
  <2>6. Len(sent) = Current
    <3>1. Len(sent) <= Current
      BY <1>1, <1>2, <1>9 DEF PlaceInv, PlaceAlone
    <3> QED BY <1>3, <1>4, <3>1
  <2> QED BY <1>4, <1>5, <1>7, <1>9, <2>3, <2>5, <2>6
<1> QED BY <1>8, <1>9

\* setPayload keeps the invariant.
LEMMA PayloadStep ==
  ASSUME IInv, setPayload
  PROVE  IInv'
<1>1. SeqTypes /\ RestTypes
  BY Types DEF IInv
<1>2. pc = "payload" /\ left <= 0 /\ UNCHANGED <<sent, pending, wire, closed, network>>
  BY DEF setPayload
<1>3. Len(bt) \in Nat /\ msg.err \in Nat /\ msg \in Heads /\ bt \in Seq(Bytes)
      /\ Len(sent) \in Nat /\ Len(received) \in Nat
  BY <1>1, Basics DEF RestTypes, SeqTypes
<1>4. CASE msg.err > 0 /\ Len(bt) < 1 + msg.err
  <2>1. pc' = "crashed" /\ UNCHANGED <<bt, left, msg, received>>
    BY <1>4 DEF setPayload
  <2>2. RestTypes' /\ SeqTypes' /\ CountInv' /\ WayInv'
    BY <1>2, <2>1, StopTypes DEF Ended
  <2>3. ~Spoken
    BY <1>2, <1>4, PayloadInPlace
  <2>4. Plain(Len(sent)) => Plain(Min2(Current, Len(sent)))
    <3>1. Min2(Current, Len(sent)) \in Int /\ Min2(Current, Len(sent)) <= Len(sent)
      BY <1>3 DEF Min2, Current
    <3> QED BY <1>3, <3>1, PlainDown
  <2>5. PlaceInv'
    BY <1>2, <2>1, <2>3, <2>4, StopPlace DEF Ended, Spoken
  <2> QED BY <2>2, <2>5, Types, PTL DEF IInv
<1>5. CASE ~(msg.err > 0 /\ Len(bt) < 1 + msg.err)
  <2> DEFINE body == SubSeq(bt, (IF msg.err > 0 THEN 2 + msg.err ELSE 1), Len(bt))
  <2>1. Deliver(msg, body)
    BY <1>5 DEF setPayload
  <2>2. body \in Seq(Bytes)
    <3>1. CASE msg.err > 0
      <4> DEFINE k == 1 + msg.err
      <4>1. k \in 0..Len(bt) /\ 2 + msg.err = k + 1
        BY <1>3, <1>5, <3>1
      <4>2. body = SubSeq(bt, k + 1, Len(bt))
        BY <3>1, <4>1
      <4> HIDE DEF k, body
      <4> QED BY <1>3, <4>1, <4>2, CutAfter
    <3>2. CASE ~(msg.err > 0)
      <4>1. Len(bt) \in 0..Len(bt)
        BY <1>3
      <4>2. body = SubSeq(bt, 1, Len(bt))
        BY <3>2
      <4> HIDE DEF body
      <4> QED BY <1>3, <4>1, <4>2, CutAfter
    <3> QED BY <3>1, <3>2
  <2>3. msg.err = 0 => body = bt
    <3> SUFFICES ASSUME msg.err = 0
                 PROVE  body = bt
      OBVIOUS
    <3>1. Len(bt) \in 0..Len(bt) /\ ~(msg.err > 0)
      BY <1>3
    <3>2. body = SubSeq(bt, 1, Len(bt))
      BY <3>1
    <3> HIDE DEF body
    <3>3. Len(body) = Len(bt) /\ \A j \in 1..Len(bt) : body[j] = bt[j]
      BY <1>3, <3>1, <3>2, CutAfter
    <3> QED BY <1>3, <2>2, <3>3, SeqEqual
  <2> HIDE DEF body
  <2>4. RestTypes' /\ SeqTypes' /\ CountInv' /\ WayInv'
    BY <1>2, <1>3, <2>1, <2>2, DeliverTypes
  <2>5. Spoken => /\ Current \in 1..Len(sent) /\ msg = Header(Current)
                  /\ body = Run(Current, kHeaderLen, Enc(Current))
                  /\ ~network.short => GoesOnAt(Enc(Current))
                  /\ network.short => Len(sent) = Current /\ Len(Way) = 0
    BY <1>2, <2>3, PayloadInPlace
  <2>6. PlaceInv'
    BY <1>2, <1>3, <2>1, <2>2, <2>5, DeliverPlace
  <2> QED BY <2>4, <2>6, Types, PTL DEF IInv
<1> QED BY <1>4, <1>5

(***************************************************************************)
(* The theorems.                                                           *)
(***************************************************************************)
\* The connection starts with nothing sent.
LEMMA InitIInv == Init => IInv
<1> SUFFICES ASSUME Init PROVE IInv
  OBVIOUS
<1>1. /\ Len(sent) = 0 /\ Len(bt) = 0 /\ Len(received) = 0
      /\ pc = "header" /\ left = kHeaderLen /\ received = <<>>
  BY DEF Init
<1>2. SeqTypes
  BY DEF Init, SeqTypes
<1>3. RestTypes
  <2>1. NoMsg \in Heads /\ kHeaderLen \in Nat /\ MaxMessages \in Nat
    BY Lengths DEF NoMsg, Heads
  <2>2. /\ sent \in Seq(Protocols) /\ Len(sent) <= MaxMessages
        /\ received \in Seq([head : Heads, body : Seq(Bytes)])
    BY <1>1, <2>1 DEF Init
  <2>3. closed \in BOOLEAN /\ network \in [pipelined : BOOLEAN, short : BOOLEAN]
    BY Zenon DEF Init
  <2>4. pc \in {"header", "payload"} \cup Ended /\ left \in Int /\ msg \in Heads
    BY <1>1, <2>1 DEF Init
  <2> QED BY <2>2, <2>3, <2>4 DEF RestTypes
<1>4. Len(Way) = 0 /\ Len(Hand) = 0
  <2>1. Len(wire) = 0 /\ Len(pending) = 0
    BY DEF Init
  <2>2. Len(Way) = Len(wire) + Len(pending) /\ Len(Hand) = Len(bt) + Len(Way)
    BY <1>2, WayIs
  <2> QED BY <1>1, <2>1, <2>2
<1>5. CountInv
  <2>1. pending = <<>> /\ kHeaderLen \in Nat
    BY Lengths DEF Init
  <2> QED BY <1>1, <2>1 DEF CountInv, SentFit, GoneIsQuiet, BtSent, LeftCounts, Length
<1>6. WayInv
  BY <1>4 DEF WayInv, WaySent, WayRuns, WayGoesOn, WayEnds
<1>7. PlaceInv
  <2>1. Knows /\ Intact
    BY <1>1 DEF Knows, Intact
  <2>2. Current = 1 /\ Begin = 0
    BY <1>1 DEF Current, Begin
  <2>3. PlaceExact
    BY <1>1, <1>4, <2>2 DEF PlaceExact, GoesOnAt
  <2>4. PlaceAlone
    BY <1>1, <1>4, <2>2 DEF PlaceAlone
  <2> QED BY <2>1, <2>3, <2>4 DEF PlaceInv
<1> QED BY <1>2, <1>3, <1>5, <1>6, <1>7, Types DEF IInv

\* Every step keeps the invariant.
LEMMA IInvStep == IInv /\ [Next]_vars => IInv'
<1> SUFFICES ASSUME IInv, [Next]_vars PROVE IInv'
  OBVIOUS
<1>1. ASSUME NEW p \in Protocols, sendProtocol(p)
      PROVE  IInv'
  <2>1. CASE p.err > p.content \/ EncodedLen(p) > m_base_size
    <3>1. /\ ~closed /\ closed' = TRUE /\ pending = <<>>
          /\ UNCHANGED <<sent, pending, wire, pc, bt, left, msg, received, network>>
      BY <1>1, <2>1 DEF sendProtocol
    <3>2. /\ RestTypes' /\ SeqTypes' /\ CountInv' /\ WayInv'
          /\ Len(Way') <= Len(Way) /\ \A j \in 1..Len(Way') : Way'[j] = Way[j]
      BY <3>1, GoneTypes
    <3>3. PlaceInv'
      BY <3>1, <3>2, SenderPlace
    <3> QED BY <3>2, <3>3, Types, PTL DEF IInv
  <2>2. CASE ~(p.err > p.content \/ EncodedLen(p) > m_base_size)
    <3>1. RestTypes' /\ SeqTypes' /\ CountInv' /\ WayInv'
      BY <1>1, <2>2, SendTypes
    <3>2. PlaceInv'
      BY <1>1, <2>2, SendPlace
    <3> QED BY <3>1, <3>2, Types, PTL DEF IInv
  <2> QED BY <2>1, <2>2
<1>2. ASSUME writeFixedSize PROVE IInv'
  <2>1. /\ RestTypes' /\ SeqTypes' /\ CountInv' /\ WayInv'
        /\ Len(Way') = Len(Way) /\ \A j \in 1..Len(Way) : Way'[j] = Way[j]
        /\ UNCHANGED <<sent, closed, pc, bt, left, msg, received, network>>
        /\ ~closed
    BY <1>2, WriteTypes
  <2>2. Len(Way') <= Len(Way)
    <3>1. Len(Way) \in Nat
      BY Types, WayIs DEF IInv
    <3> QED BY <2>1, <3>1
  <2>3. PlaceInv'
    BY <2>1, <2>2, SenderPlace
  <2> QED BY <2>1, <2>3, Types, PTL DEF IInv
<1>3. ASSUME CloseSocket PROVE IInv'
  <2>1. /\ ~closed /\ closed' = TRUE /\ pending' = <<>>
        /\ UNCHANGED <<sent, wire, pc, bt, left, msg, received, network>>
    BY <1>3 DEF CloseSocket
  <2>2. /\ RestTypes' /\ SeqTypes' /\ CountInv' /\ WayInv'
        /\ Len(Way') <= Len(Way) /\ \A j \in 1..Len(Way') : Way'[j] = Way[j]
    BY <2>1, GoneTypes
  <2>3. PlaceInv'
    BY <2>1, <2>2, SenderPlace
  <2> QED BY <2>2, <2>3, Types, PTL DEF IInv
<1>4. ASSUME ReadSome PROVE IInv'
  <2>1. /\ pc \in {"header", "payload"} /\ left > 0 /\ Fits(Length)
        /\ UNCHANGED <<sent, pending, closed, pc, msg, received, network>>
    BY <1>4 DEF ReadSome
  <2>2. PICK k \in 1..Min2(Asked(Length), Len(wire)) :
          /\ network.short \/ k >= left \/ (closed /\ k = Len(wire))
          /\ bt' = bt \o SubSeq(wire, 1, k)
          /\ wire' = SubSeq(wire, k + 1, Len(wire))
          /\ left' = left - k
    BY <1>4 DEF ReadSome
  <2>3. RestTypes' /\ SeqTypes' /\ CountInv' /\ WayInv'
    BY <2>1, <2>2, ReadTypes
  <2>4. PlaceInv'
    BY <2>1, <2>2, ReadPlace
  <2> QED BY <2>3, <2>4, Types, PTL DEF IInv
<1>5. ASSUME ReadOverruns PROVE IInv'
  <2>1. /\ pc = "payload" /\ ~Fits(Length) /\ pc' \in Ended
        /\ UNCHANGED <<sent, pending, wire, closed, bt, left, msg, received, network>>
    BY <1>5 DEF ReadOverruns
  <2>2. RestTypes' /\ SeqTypes' /\ CountInv' /\ WayInv'
    BY <2>1, StopTypes DEF Ended
  <2>3. ASSUME ~(network.pipelined /\ network.short), Plain(Len(sent))
        PROVE  FALSE
    <3>1. Len(sent) \in Nat /\ Len(received) \in Nat
          /\ \A i \in 1..Len(sent) : sent[i] \in Protocols
      BY Types, Basics DEF IInv
    <3>2. Min2(Current, Len(sent)) \in Int /\ Min2(Current, Len(sent)) <= Len(sent)
      BY <3>1 DEF Min2, Current
    <3>3. Spoken
      BY <2>3, <3>1, <3>2, PlainDown DEF Spoken
    <3>4. Good
      BY <2>1, <3>3, SpokenGood
    <3>5. Current \in 1..Len(sent) /\ msg = Header(Current)
      BY <2>1, <3>1, <3>4 DEF IInv, PlaceInv, Knows, Current
    <3>6. Enc(Current) = kHeaderLen + sent[Current].content /\ msg.len = sent[Current].content
          /\ sent[Current].content \in Nat
      BY <3>3, <3>5, PlainMessage
    <3>7. Enc(Current) <= m_base_size
      BY <3>5 DEF IInv, CountInv, SentFit
    <3>8. msg.len <= m_base_size
      BY <3>6, <3>7, Lengths
    <3> QED BY <2>1, <3>8 DEF Fits, Length
  <2>4. PlaceInv'
    BY <2>1, <2>3, StopPlace DEF Ended
  <2> QED BY <2>2, <2>4, Types, PTL DEF IInv
<1>6. ASSUME ReadEnds \/ ReadTimesOut PROVE IInv'
  <2>1. /\ pc' = "ended"
        /\ UNCHANGED <<sent, pending, wire, closed, bt, left, msg, received, network>>
    BY <1>6 DEF ReadEnds, ReadTimesOut
  <2>2. RestTypes' /\ SeqTypes' /\ CountInv' /\ WayInv'
    BY <2>1, StopTypes DEF Ended
  <2>3. PlaceInv'
    BY <2>1, StopPlace DEF Ended
  <2> QED BY <2>2, <2>3, Types, PTL DEF IInv
<1>7. ASSUME UNCHANGED vars PROVE IInv'
  <2>1. UNCHANGED <<sent, pending, wire, closed, pc, bt, left, msg, received, network>>
    BY <1>7 DEF vars
  <2>2. TypeOK' /\ CountInv'
    BY <2>1 DEF IInv, TypeOK, CountInv, SentFit, GoneIsQuiet, BtSent, LeftCounts, Length, Enc
  <2>3. WayInv' /\ Way' = Way /\ Hand' = Hand
    BY <2>1, SameWay DEF IInv, Hand
  <2>4. /\ Good' <=> Good
        /\ Current' = Current /\ Begin' = Begin /\ Length' = Length
    BY <2>1 DEF Good, Plain, Current, Begin, Length
  <2>5. Knows' /\ Intact'
    BY <2>1, <2>4 DEF IInv, PlaceInv, Knows, Current, Header, Intact, Plain, Whole
  <2>6. PlaceExact'
    BY <2>1, <2>3, <2>4 DEF IInv, PlaceInv, PlaceExact, GoesOnAt, Enc
  <2>7. PlaceAlone'
    BY <2>1, <2>3, <2>4 DEF IInv, PlaceInv, PlaceAlone, Enc
  <2> QED BY <2>2, <2>3, <2>5, <2>6, <2>7 DEF IInv, PlaceInv
<1> QED BY <1>1, <1>2, <1>3, <1>4, <1>5, <1>6, <1>7, DecodeStep, PayloadStep
        DEF Next, Send, Receive

\* The connection's state keeps its type: "left" may go below zero where
\* readFixedSize asks for too much, but no header, in place or out of it,
\* gives a negative length, and setPayload cuts no body beyond its end.
THEOREM TypeCorrect == Spec => []TypeOK
<1>1. IInv => TypeOK
  BY DEF IInv
<1> QED BY <1>1, InitIInv, IInvStep, PTL DEF Spec

\* recvProtocol hands on whole messages in order up to the first one with an
\* error text, for any division of the bytes into reads as long as callers do
\* not overlap their requests, and for any number of messages on their way as
\* long as no read comes short.
THEOREM ArrivesWhole == Spec => []Intact
<1>1. IInv => Intact
  BY DEF IInv, PlaceInv
<1> QED BY <1>1, InitIInv, IInvStep, PTL DEF Spec

(***************************************************************************)
(* Framing implements MessageStream.                                       *)
(***************************************************************************)
\* The messages sent, as they should arrive.
Messages == [i \in 1..Len(sent) |-> Whole(i)]

\* They depend on nothing else.
LEMMA SameMessages ==
  ASSUME UNCHANGED sent
  PROVE  Messages' = Messages
BY DEF Messages, Whole, Header, EncodedLen

\* A step that neither sends, delivers nor ends anything is none of the
\* stream's.
LEMMA StreamStutters ==
  ASSUME UNCHANGED <<sent, received>>, (pc \in Ended) = (pc' \in Ended)
  PROVE  UNCHANGED Stream!vars
<1>1. Messages' = Messages
  BY SameMessages
<1> QED BY <1>1 DEF Stream!vars, Messages

\* The receiver gives up, with an error or by a crash.
LEMMA StreamGivenUp ==
  ASSUME UNCHANGED <<sent, received>>, pc \notin Ended, pc' \in Ended
  PROVE  Stream!Next
<1>1. Messages' = Messages
  BY SameMessages
<1>2. Stream!GiveUp
  BY <1>1 DEF Stream!GiveUp, Messages
<1> QED BY <1>2 DEF Stream!Next

\* A message more is sent, and those before it stay as they are.
LEMMA StreamSent ==
  ASSUME TypeOK, NEW p \in Protocols, sent' = Append(sent, p), UNCHANGED <<received, pc>>
  PROVE  Stream!Next
<1> DEFINE n == Len(sent)
           M == Messages
           N == Messages'
<1>1. n \in Nat /\ Len(sent') = n + 1 /\ \A i \in 1..n : sent'[i] = sent[i]
  BY DEF TypeOK
<1>2. Len(M) = n /\ DOMAIN M = 1..n /\ \A i \in 1..n : M[i] = Whole(i)
  BY <1>1 DEF Messages
<1>3. Len(N) = n + 1 /\ DOMAIN N = 1..(n + 1) /\ \A i \in 1..(n + 1) : N[i] = Whole(i)'
  BY <1>1 DEF Messages
<1>4. \A i \in 1..n : Whole(i)' = Whole(i)
  BY <1>1 DEF Whole, Header, EncodedLen
<1>5. N = [i \in 1..(n + 1) |-> N[i]] /\ M = [i \in 1..n |-> M[i]]
  BY <1>1 DEF Messages
<1>6. N # <<>>
  BY <1>1, <1>3
<1> HIDE DEF M, N, n
<1>7. Append(M, N[n + 1]) = [i \in 1..(n + 1) |-> IF i = n + 1 THEN N[n + 1] ELSE M[i]]
  BY <1>1, <1>2, <1>5
<1>8. \A i \in 1..(n + 1) : N[i] = IF i = n + 1 THEN N[n + 1] ELSE M[i]
  BY <1>1, <1>2, <1>3, <1>4
<1>9. N = Append(M, N[Len(N)])
  BY <1>3, <1>5, <1>7, <1>8
<1>10. Stream!Send
  BY <1>6, <1>9 DEF Stream!Send, M, N, Messages
<1> QED BY <1>10 DEF Stream!Next

\* What Intact says of the message just handed on makes the step a delivery.
LEMMA StreamDelivered ==
  ASSUME TypeOK, Intact', Sound', UNCHANGED <<sent, network>>, NEW r,
         received' = Append(received, r), pc \notin Ended, pc' \notin Ended
  PROVE  Stream!Next
<1>n. PICK n : n = Len(received) + 1
  OBVIOUS
<1>1. n \in Nat /\ n \in DOMAIN received' /\ Len(received') = n /\ received'[n] = r
      /\ Len(sent) \in Nat
  BY <1>n DEF TypeOK
<1>2. n <= Len(sent) /\ r = Whole(n)'
  BY <1>n, <1>1 DEF Intact, Sound
<1>3. Messages' = Messages /\ Whole(n)' = Whole(n)
  BY SameMessages DEF Whole, Header, EncodedLen
<1>4. Len(Messages) = Len(sent) /\ Messages[n] = Whole(n)
  BY <1>1, <1>2 DEF Messages
<1>5. received' = Append(received, Messages[n]) /\ Len(received) < Len(Messages)
  BY <1>n, <1>1, <1>2, <1>3, <1>4
<1>6. Stream!Deliver
  BY <1>n, <1>3, <1>5 DEF Stream!Deliver, Messages
<1> QED BY <1>6 DEF Stream!Next

\* Every step on bytes is one on messages, or none.
LEMMA StreamStep ==
  IInv /\ IInv' /\ [Next]_vars /\ Sound' => [Stream!Next]_(Stream!vars)
<1> SUFFICES ASSUME IInv, IInv', [Next]_vars, Sound'
             PROVE  [Stream!Next]_(Stream!vars)
  OBVIOUS
<1>t. TypeOK /\ Intact'
  BY DEF IInv, PlaceInv
<1>1. ASSUME NEW p \in Protocols, sendProtocol(p) PROVE [Stream!Next]_(Stream!vars)
  <2>1. CASE UNCHANGED sent
    BY <1>1, <2>1, StreamStutters DEF sendProtocol
  <2>2. CASE sent' = Append(sent, p)
    BY <1>t, <1>1, <2>2, StreamSent DEF sendProtocol
  <2> QED BY <1>1, <2>1, <2>2 DEF sendProtocol
<1>2. CASE writeFixedSize \/ CloseSocket \/ ReadSome
  BY <1>2, StreamStutters DEF writeFixedSize, CloseSocket, ReadSome
<1>3. CASE ReadOverruns \/ ReadEnds \/ ReadTimesOut
  BY <1>3, StreamGivenUp DEF ReadOverruns, ReadEnds, ReadTimesOut, Ended
<1>4. CASE decodeHeader
  <2>1. pc = "header" /\ UNCHANGED <<sent, network>>
    BY <1>4 DEF decodeHeader
  <2>2. CASE pc' = "ended" /\ UNCHANGED received
    BY <2>1, <2>2, StreamGivenUp DEF Ended
  <2>3. ASSUME NEW m, Decoded(m) PROVE [Stream!Next]_(Stream!vars)
    <3>1. CASE m.len = 0
      BY <1>t, <2>1, <2>3, <3>1, StreamDelivered DEF Decoded, Deliver, Ended
    <3>2. CASE m.len # 0
      BY <2>1, <2>3, <3>2, StreamStutters DEF Decoded, Ended
    <3> QED BY <3>1, <3>2
  <2> QED BY <1>4, <2>2, <2>3 DEF decodeHeader
<1>5. CASE setPayload
  <2>1. pc = "payload" /\ UNCHANGED <<sent, network>>
    BY <1>5 DEF setPayload
  <2>2. CASE pc' = "crashed" /\ UNCHANGED received
    BY <2>1, <2>2, StreamGivenUp DEF Ended
  <2>3. ASSUME NEW body, Deliver(msg, body) PROVE Stream!Next
    BY <1>t, <2>1, <2>3, StreamDelivered DEF Deliver, Ended
  <2> QED BY <1>5, <2>2, <2>3 DEF setPayload
<1>6. CASE UNCHANGED vars
  BY <1>6, StreamStutters DEF vars
<1> QED BY <1>1, <1>2, <1>3, <1>4, <1>5, <1>6 DEF Next, Send, Receive

\* The bytes of a connection carry messages as MessageStream says, for any
\* header length, node size and number of messages: what the models of the
\* client, the server and the registry take a connection to do.
THEOREM CarriesMessages == Spec => ImplementsMessageStream
<1>1. Init => Stream!Init
  BY DEF Init, Stream!Init, Ended
<1>2. IInv /\ IInv' /\ [Next]_vars => [Sound' => [Stream!Next]_(Stream!vars)]_vars
  BY StreamStep
<1> QED BY <1>1, <1>2, InitIInv, IInvStep, PTL DEF Spec, ImplementsMessageStream
=============================================================================
