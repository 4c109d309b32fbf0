-------------------------- MODULE StreamReceiveProofs --------------------------
(* Messages are handed over as they were sent, for any messages, segments    *)
(* and sizes of the buffer.                                                  *)
EXTENDS StreamReceiveProps, Integers, SequenceTheorems, TLAPS

----------------------------------------------------------------------------
(* Sequences                                                                *)

Drop(q, n) == SubSeq(q, n + 1, Len(q))

LEMMA DropOf ==
  ASSUME NEW S, NEW q \in Seq(S), NEW n \in 0 .. Len(q)
  PROVE  /\ Drop(q, n) \in Seq(S) /\ Len(q) \in Nat
         /\ Len(Drop(q, n)) = Len(q) - n
         /\ \A j \in 1 .. Len(q) - n : Drop(q, n)[j] = q[n + j]
         /\ (Drop(q, n) = <<>> <=> n = Len(q))
<1>1. Len(q) \in Nat BY LenProperties
<1>2. \A j \in n + 1 .. Len(q) : q[j] \in S BY <1>1, ElementOfSeq
<1>3. Drop(q, n) \in Seq(S) BY <1>1, <1>2, SubSeqProperties DEF Drop
<1>4. Len(Drop(q, n)) = Len(q) - n BY <1>1 DEF Drop
<1>5. \A j \in 1 .. Len(q) - n : Drop(q, n)[j] = q[n + j] BY <1>1 DEF Drop
<1>6. Drop(q, n) = <<>> <=> Len(Drop(q, n)) = 0 BY <1>3, EmptySeq
<1>7. Len(Drop(q, n)) = 0 <=> n = Len(q) BY <1>1, <1>4
<1> QED BY <1>1, <1>3, <1>4, <1>5, <1>6, <1>7

LEMMA TakeOf ==
  ASSUME NEW S, NEW q \in Seq(S), NEW n \in 0 .. Len(q)
  PROVE  /\ SubSeq(q, 1, n) \in Seq(S) /\ Len(SubSeq(q, 1, n)) = n
         /\ \A j \in 1 .. n : SubSeq(q, 1, n)[j] = q[j]
<1>1. Len(q) \in Nat BY LenProperties
<1>2. \A j \in 1 .. n : q[j] \in S BY <1>1, ElementOfSeq
<1>3. SubSeq(q, 1, n) \in Seq(S) BY <1>1, <1>2, SubSeqProperties
<1>4. Len(SubSeq(q, 1, n)) = n BY <1>1
<1>5. \A j \in 1 .. n : SubSeq(q, 1, n)[j] = q[j] BY <1>1
<1> QED BY <1>3, <1>4, <1>5

LEMMA JoinOf ==
  ASSUME NEW S, NEW q \in Seq(S), NEW r \in Seq(S)
  PROVE  /\ q \o r \in Seq(S) /\ Len(q \o r) = Len(q) + Len(r)
         /\ Len(q) \in Nat /\ Len(r) \in Nat
         /\ \A j \in 1 .. Len(q) : (q \o r)[j] = q[j]
         /\ \A j \in 1 .. Len(r) : (q \o r)[Len(q) + j] = r[j]
<1>1. Len(q) \in Nat /\ Len(r) \in Nat BY LenProperties
<1>2. q \o r \in Seq(S) /\ Len(q \o r) = Len(q) + Len(r) BY ConcatProperties
<1>3. \A j \in 1 .. Len(q) : (q \o r)[j] = q[j] OBVIOUS
<1>4. \A j \in 1 .. Len(r) : (q \o r)[Len(q) + j] = r[j] OBVIOUS
<1> QED BY <1>1, <1>2, <1>3, <1>4

(* What is read from the front of q is read from the front of q \o r.       *)
LEMMA DropJoin ==
  ASSUME NEW S, NEW q \in Seq(S), NEW r \in Seq(S), NEW n \in 0 .. Len(q)
  PROVE  Drop(q, n) \o r = Drop(q \o r, n)
<1>1. PICK p \in Seq(S) : /\ p = Drop(q, n) /\ Len(p) = Len(q) - n
                          /\ \A j \in 1 .. Len(q) - n : p[j] = q[n + j]
  BY DropOf
<1>2. PICK v \in Seq(S) : /\ v = q \o r /\ Len(v) = Len(q) + Len(r)
                          /\ \A j \in 1 .. Len(q) : v[j] = q[j]
                          /\ \A j \in 1 .. Len(r) : v[Len(q) + j] = r[j]
  <2>1. /\ q \o r \in Seq(S) /\ Len(q \o r) = Len(q) + Len(r)
        /\ \A j \in 1 .. Len(q) : (q \o r)[j] = q[j]
        /\ \A j \in 1 .. Len(r) : (q \o r)[Len(q) + j] = r[j]
    BY JoinOf
  <2> QED BY <2>1
<1>3. Len(q) \in Nat /\ Len(r) \in Nat /\ n \in 0 .. Len(v) BY <1>2, LenProperties
<1>4. PICK x \in Seq(S) : /\ x = p \o r /\ Len(x) = Len(p) + Len(r)
                          /\ \A j \in 1 .. Len(p) : x[j] = p[j]
                          /\ \A j \in 1 .. Len(r) : x[Len(p) + j] = r[j]
  <2>1. /\ p \o r \in Seq(S) /\ Len(p \o r) = Len(p) + Len(r)
        /\ \A j \in 1 .. Len(p) : (p \o r)[j] = p[j]
        /\ \A j \in 1 .. Len(r) : (p \o r)[Len(p) + j] = r[j]
    BY JoinOf
  <2> QED BY <2>1
<1>5. PICK y \in Seq(S) : /\ y = Drop(v, n) /\ Len(y) = Len(v) - n
                          /\ \A j \in 1 .. Len(v) - n : y[j] = v[n + j]
  BY <1>3, DropOf
<1>6. Len(x) = Len(y) BY <1>1, <1>2, <1>3, <1>4, <1>5
<1>7. ASSUME NEW j \in 1 .. Len(x) PROVE x[j] = y[j]
  <2>1. j \in 1 .. Len(q) + Len(r) - n BY <1>1, <1>3, <1>4
  <2>2. y[j] = v[n + j] BY <1>2, <1>3, <1>5, <2>1
  <2>3. CASE j <= Len(q) - n
    <3>1. j \in 1 .. Len(q) - n /\ n + j \in 1 .. Len(q) BY <1>3, <2>1, <2>3
    <3> QED BY <1>1, <1>2, <1>4, <2>2, <3>1
  <2>4. CASE j > Len(q) - n
    <3>1. PICK l \in 1 .. Len(r) : j = Len(q) - n + l
      <4>1. j - (Len(q) - n) \in 1 .. Len(r) /\ j = Len(q) - n + (j - (Len(q) - n))
        BY <1>3, <2>1, <2>4
      <4> QED BY <4>1
    <3>2. n + j = Len(q) + l /\ j = Len(p) + l BY <1>1, <1>3, <3>1
    <3> QED BY <1>2, <1>4, <2>2, <3>2
  <2>5. j <= Len(q) - n \/ j > Len(q) - n BY <1>3, <2>1
  <2> QED BY <2>3, <2>4, <2>5
<1>8. x = y BY <1>6, <1>7, SeqEqual
<1> QED BY <1>1, <1>2, <1>4, <1>5, <1>8
----------------------------------------------------------------------------
(* The stream of the messages m.  At j is byte k of message i: the rest of  *)
(* the message follows, then the next message, or nothing after the last.   *)

Byte == Nat \X Nat
Follows(m, q, j, i, k) ==
  /\ i \in DOMAIN m /\ k \in 1 .. Size(m[i])
  /\ \A l \in 0 .. Size(m[i]) - k : j + l \in 1 .. Len(q) /\ q[j + l] = <<i, k + l>>
  /\ i = Len(m) => j + (Size(m[i]) - k) = Len(q)
  /\ i # Len(m) => /\ j + (Size(m[i]) - k) + 1 \in 1 .. Len(q)
                   /\ q[j + (Size(m[i]) - k) + 1] = <<i + 1, 1>>
Whole(m, q) == \A j \in 1 .. Len(q) : \E i, k \in Nat : Follows(m, q, j, i, k)

(* q begins behind the first t bytes of message i.                          *)
Begins(m, q, i, t) ==
  \/ i \in DOMAIN m /\ t < Size(m[i]) /\ Len(q) > 0 /\ q[1] = <<i, t + 1>>
  \/ i \in DOMAIN m /\ t = Size(m[i]) /\ i # Len(m) /\ Len(q) > 0 /\ q[1] = <<i + 1, 1>>
  \/ i \in DOMAIN m /\ t = Size(m[i]) /\ i = Len(m) /\ Len(q) = 0
  \/ i = Len(m) + 1 /\ t = 0 /\ Len(q) = 0

(* q is of message i, after its first t bytes.                              *)
Piece(q, i, t) == \A k \in 1 .. Len(q) : q[k] = <<i, t + k>>

LEMMA SizeType == \A x \in Message : x.head \in Nat \ {0} /\ x.body \in Nat /\ Size(x) \in Nat \ {0}
BY MessageAssumption DEF Size

LEMMA SizeAt ==
  ASSUME NEW m \in Seq(Message), NEW i \in DOMAIN m
  PROVE  Size(m[i]) \in Nat \ {0} /\ i \in Nat /\ i \in 1 .. Len(m) /\ Len(m) \in Nat
<1>1. DOMAIN m = 1 .. Len(m) /\ Len(m) \in Nat BY LenProperties
<1>2. m[i] \in Message BY <1>1, ElementOfSeq
<1> QED BY <1>1, <1>2, SizeType

LEMMA WholeDrop ==
  ASSUME NEW m \in Seq(Message), NEW q \in Seq(Byte), NEW n \in 0 .. Len(q), Whole(m, q)
  PROVE  Whole(m, Drop(q, n))
<1>1. PICK p \in Seq(Byte) : /\ p = Drop(q, n) /\ Len(p) = Len(q) - n
                             /\ \A j \in 1 .. Len(q) - n : p[j] = q[n + j]
  BY DropOf
<1>2. Len(q) \in Nat /\ n \in Nat BY LenProperties
<1>3. ASSUME NEW j \in 1 .. Len(p) PROVE \E i, k \in Nat : Follows(m, p, j, i, k)
  <2>1. n + j \in 1 .. Len(q) /\ j \in Nat BY <1>1, <1>2
  <2>2. PICK i, k \in Nat : Follows(m, q, n + j, i, k) BY <2>1 DEF Whole
  <2>3. PICK c \in Nat : c = Size(m[i]) BY <2>2, SizeAt DEF Follows
  <2>4. /\ i \in DOMAIN m /\ k \in 1 .. c
        /\ \A l \in 0 .. c - k : n + j + l \in 1 .. Len(q) /\ q[n + j + l] = <<i, k + l>>
        /\ i = Len(m) => n + j + (c - k) = Len(q)
        /\ i # Len(m) => n + j + (c - k) + 1 \in 1 .. Len(q) /\ q[n + j + (c - k) + 1] = <<i + 1, 1>>
    BY <2>2, <2>3 DEF Follows
  <2>5. ASSUME NEW l \in 0 .. c - k PROVE j + l \in 1 .. Len(p) /\ p[j + l] = <<i, k + l>>
    <3>1. n + j + l \in 1 .. Len(q) /\ q[n + j + l] = <<i, k + l>> BY <2>4
    <3>2. l \in Nat /\ n + (j + l) = n + j + l BY <1>2, <2>1, <2>3
    <3>3. j + l \in 1 .. Len(q) - n BY <1>2, <2>1, <3>1, <3>2
    <3> QED BY <1>1, <3>1, <3>2, <3>3
  <2>6. ASSUME i = Len(m) PROVE j + (c - k) = Len(p)
    <3>1. n + j + (c - k) = Len(q) BY <2>4, <2>6
    <3>2. PICK l \in Nat : l = c - k BY <2>3, <2>4
    <3> QED BY <1>1, <1>2, <2>1, <3>1, <3>2
  <2>7. i # Len(m) => j + (c - k) + 1 \in 1 .. Len(p) /\ p[j + (c - k) + 1] = <<i + 1, 1>>
    <3> SUFFICES ASSUME i # Len(m)
                 PROVE  j + (c - k) + 1 \in 1 .. Len(p) /\ p[j + (c - k) + 1] = <<i + 1, 1>>
      OBVIOUS
    <3>1. n + j + (c - k) + 1 \in 1 .. Len(q) /\ q[n + j + (c - k) + 1] = <<i + 1, 1>> BY <2>4
    <3>2. PICK l \in Nat : l = c - k BY <2>3, <2>4
    <3>3. n + (j + l + 1) = n + j + l + 1 /\ j + l + 1 \in 1 .. Len(q) - n
      BY <1>2, <2>1, <3>1, <3>2
    <3> QED BY <1>1, <3>1, <3>2, <3>3
  <2> QED BY <2>3, <2>4, <2>5, <2>6, <2>7 DEF Follows
<1> QED BY <1>1, <1>3 DEF Whole

(* The next bytes are those of the message, then those of the next one.     *)
Ahead(m, q, i, t, c) ==
  /\ \A k \in 1 .. c - t : k \in 1 .. Len(q) /\ q[k] = <<i, t + k>>
  /\ i = Len(m) => Len(q) = c - t
  /\ i # Len(m) => c - t + 1 \in 1 .. Len(q) /\ q[c - t + 1] = <<i + 1, 1>>

LEMMA NextBytes ==
  ASSUME NEW m \in Seq(Message), NEW q \in Seq(Byte), NEW i \in DOMAIN m, NEW t \in Nat,
         Whole(m, q), Begins(m, q, i, t), NEW c \in Nat, c = Size(m[i]), t <= c
  PROVE  Ahead(m, q, i, t, c)
<1>1. i \in 1 .. Len(m) /\ Len(m) \in Nat /\ Len(q) \in Nat BY SizeAt, LenProperties
<1>2. CASE t < c
  <2>1. Len(q) > 0 /\ q[1] = <<i, t + 1>> BY <1>1, <1>2 DEF Begins
  <2>2. 1 \in 1 .. Len(q) BY <1>1, <2>1
  <2>3. PICK x, y \in Nat : Follows(m, q, 1, x, y) BY <2>2 DEF Whole
  <2>4. PICK d \in Nat : d = Size(m[x]) BY <2>3, SizeAt DEF Follows
  <2>5. /\ y \in 1 .. d
        /\ \A l \in 0 .. d - y : 1 + l \in 1 .. Len(q) /\ q[1 + l] = <<x, y + l>>
        /\ x = Len(m) => 1 + (d - y) = Len(q)
        /\ x # Len(m) => 1 + (d - y) + 1 \in 1 .. Len(q) /\ q[1 + (d - y) + 1] = <<x + 1, 1>>
    BY <2>3, <2>4 DEF Follows
  <2>6. q[1] = <<x, y>>
    <3>1. 0 \in 0 .. d - y /\ 1 + 0 = 1 /\ y + 0 = y BY <2>4, <2>5
    <3> QED BY <2>5, <3>1
  <2>7. x = i /\ y = t + 1 /\ d = c BY <2>1, <2>4, <2>6
  <2>8. 1 + (d - y) = c - t BY <2>7
  <2>9. ASSUME NEW k \in 1 .. c - t PROVE k \in 1 .. Len(q) /\ q[k] = <<i, t + k>>
    <3>1. PICK l \in 0 .. d - y : k = 1 + l /\ t + k = y + l
      <4>1. k - 1 \in 0 .. d - y /\ k = 1 + (k - 1) /\ t + k = y + (k - 1) BY <2>7
      <4> QED BY <4>1
    <3> QED BY <2>5, <2>7, <3>1
  <2> QED BY <2>5, <2>7, <2>8, <2>9 DEF Ahead
<1>3. CASE t = c
  <2>1. c - t = 0 /\ i # Len(m) + 1 BY <1>1, <1>3
  <2>2. i = Len(m) => Len(q) = 0 BY <1>1, <1>3, <2>1 DEF Begins
  <2>3. i # Len(m) => Len(q) > 0 /\ q[1] = <<i + 1, 1>> BY <1>1, <1>3, <2>1 DEF Begins
  <2>4. \A k \in 1 .. c - t : k \in 1 .. Len(q) /\ q[k] = <<i, t + k>> BY <2>1
  <2>5. i # Len(m) => c - t + 1 \in 1 .. Len(q) /\ q[c - t + 1] = <<i + 1, 1>>
    <3>1. c - t + 1 = 1 BY <2>1
    <3>2. Len(q) > 0 => 1 \in 1 .. Len(q) BY <1>1
    <3> QED BY <2>3, <3>1, <3>2
  <2>6. i = Len(m) => Len(q) = c - t BY <2>1, <2>2
  <2> QED BY <2>4, <2>5, <2>6 DEF Ahead
<1> QED BY <1>2, <1>3

LEMMA BeginsDrop ==
  ASSUME NEW m \in Seq(Message), NEW q \in Seq(Byte), NEW i \in DOMAIN m, NEW t \in Nat,
         Whole(m, q), Begins(m, q, i, t), NEW n \in 0 .. Len(q), t + n <= Size(m[i])
  PROVE  Begins(m, Drop(q, n), i, t + n)
<1>1. i \in 1 .. Len(m) /\ Len(m) \in Nat /\ Len(q) \in Nat BY SizeAt, LenProperties
<1>2. PICK c \in Nat : c = Size(m[i]) BY SizeAt
<1>3. n \in Nat /\ t <= c /\ c - t \in Nat /\ n <= c - t BY <1>1, <1>2
<1>4. /\ \A k \in 1 .. c - t : k \in 1 .. Len(q) /\ q[k] = <<i, t + k>>
      /\ i = Len(m) => Len(q) = c - t
      /\ i # Len(m) => c - t + 1 \in 1 .. Len(q) /\ q[c - t + 1] = <<i + 1, 1>>
  <2>1. Ahead(m, q, i, t, c) BY <1>2, <1>3, NextBytes
  <2> QED BY <2>1 DEF Ahead
<1>5. PICK p \in Seq(Byte) : /\ p = Drop(q, n) /\ Len(p) = Len(q) - n
                             /\ \A j \in 1 .. Len(q) - n : p[j] = q[n + j]
  BY DropOf
<1>6. CASE n < c - t
  <2>1. n + 1 \in 1 .. c - t /\ t + (n + 1) = t + n + 1 BY <1>3, <1>6
  <2>2. n + 1 \in 1 .. Len(q) /\ q[n + 1] = <<i, t + n + 1>> BY <1>4, <2>1
  <2>3. Len(p) > 0 /\ 1 \in 1 .. Len(q) - n BY <1>1, <1>3, <1>5, <2>2
  <2>4. p[1] = q[n + 1] BY <1>5, <2>3
  <2>5. t + n < c BY <1>3, <1>6
  <2> QED BY <1>2, <1>5, <2>2, <2>3, <2>4, <2>5 DEF Begins
<1>7. CASE n = c - t
  <2>1. t + n = c BY <1>3, <1>7
  <2>2. CASE i = Len(m)
    <3>1. Len(p) = 0 BY <1>3, <1>4, <1>5, <1>7, <2>2
    <3> QED BY <1>2, <1>5, <2>1, <2>2, <3>1 DEF Begins
  <2>3. CASE i # Len(m)
    <3>1. n + 1 \in 1 .. Len(q) /\ q[n + 1] = <<i + 1, 1>> BY <1>4, <1>7, <2>3
    <3>2. Len(p) > 0 /\ 1 \in 1 .. Len(q) - n BY <1>1, <1>3, <1>5, <3>1
    <3>3. p[1] = q[n + 1] BY <1>5, <3>2
    <3> QED BY <1>2, <1>5, <2>1, <2>3, <3>1, <3>2, <3>3 DEF Begins
  <2> QED BY <2>2, <2>3
<1> QED BY <1>3, <1>6, <1>7

(* The next message begins where one is over.                               *)
LEMMA NextBegins ==
  ASSUME NEW m \in Seq(Message), NEW q \in Seq(Byte), NEW i \in DOMAIN m,
         Begins(m, q, i, Size(m[i]))
  PROVE  Begins(m, q, i + 1, 0)
<1>1. i \in 1 .. Len(m) /\ Len(m) \in Nat /\ Size(m[i]) \in Nat BY SizeAt
<1>2. CASE i = Len(m) /\ Len(q) = 0 BY <1>2 DEF Begins
<1>3. CASE i # Len(m) /\ Len(q) > 0 /\ q[1] = <<i + 1, 1>>
  <2>1. i + 1 \in DOMAIN m BY <1>1, <1>3, LenProperties
  <2>2. Size(m[i + 1]) > 0
    <3>1. Size(m[i + 1]) \in Nat \ {0} BY <2>1, SizeAt
    <3> QED BY <3>1
  <2>3. 0 + 1 = 1 OBVIOUS
  <2> QED BY <1>3, <2>1, <2>2, <2>3 DEF Begins
<1>4. i # Len(m) + 1 /\ ~(Size(m[i]) < Size(m[i])) BY <1>1
<1> QED BY <1>2, <1>3, <1>4 DEF Begins

(* Bytes that are there are those of a message that was sent.               *)
LEMMA Sent ==
  ASSUME NEW m \in Seq(Message), NEW k \in Seq(Byte), NEW w \in Seq(Byte), NEW i \in Nat,
         NEW t \in Nat, Begins(m, k \o w, i, t), t > 0 \/ Len(k) > 0
  PROVE  i \in DOMAIN m
<1>1. Len(k \o w) = Len(k) + Len(w) /\ Len(k) \in Nat /\ Len(w) \in Nat BY JoinOf
<1>2. ~(t = 0 /\ Len(k \o w) = 0) BY <1>1
<1> QED BY <1>2 DEF Begins

(* The bytes that have arrived are the next ones of the message.            *)
LEMMA Arrived ==
  ASSUME NEW m \in Seq(Message), NEW k \in Seq(Byte), NEW w \in Seq(Byte), NEW i \in DOMAIN m,
         NEW t \in Nat, Whole(m, k \o w), Begins(m, k \o w, i, t), t <= Size(m[i]),
         NEW j \in 1 .. Len(k), t + j <= Size(m[i])
  PROVE  k[j] = <<i, t + j>>
<1>1. /\ k \o w \in Seq(Byte) /\ Len(k \o w) = Len(k) + Len(w) /\ Len(k) \in Nat /\ Len(w) \in Nat
      /\ \A l \in 1 .. Len(k) : (k \o w)[l] = k[l]
  BY JoinOf
<1>2. PICK c \in Nat : c = Size(m[i]) BY SizeAt
<1>3. Ahead(m, k \o w, i, t, c) BY <1>1, <1>2, NextBytes
<1>4. j \in 1 .. c - t BY <1>1, <1>2
<1>5. (k \o w)[j] = <<i, t + j>> BY <1>3, <1>4 DEF Ahead
<1> QED BY <1>1, <1>5

(* The last byte that has arrived is of a message that was sent.            *)
LastSent(m, k, w) == k[Len(k)][1] \in DOMAIN m

LEMMA LastIsSent ==
  ASSUME NEW m \in Seq(Message), NEW k \in Seq(Byte), NEW w \in Seq(Byte), Len(k) > 0,
         Whole(m, k \o w)
  PROVE  LastSent(m, k, w)
<1>1. /\ Len(k \o w) = Len(k) + Len(w) /\ Len(k) \in Nat /\ Len(w) \in Nat
      /\ \A j \in 1 .. Len(k) : (k \o w)[j] = k[j]
  BY JoinOf
<1>2. Len(k) \in 1 .. Len(k) /\ Len(k) \in 1 .. Len(k \o w) BY <1>1
<1>3. PICK i, l \in Nat : Follows(m, k \o w, Len(k), i, l) BY <1>2 DEF Whole
<1>4. (k \o w)[Len(k)] = k[Len(k)] BY <1>1, <1>2
<1>5. k[Len(k)] \in Byte BY <1>2, ElementOfSeq
<1>6. i \in DOMAIN m /\ l \in 1 .. Size(m[i]) BY <1>3 DEF Follows
<1>7. k[Len(k)] = <<i, l>>
  <2>1. Size(m[i]) \in Nat BY <1>6, SizeAt
  <2>2. 0 \in 0 .. Size(m[i]) - l /\ l + 0 = l /\ Len(k) + 0 = Len(k) BY <1>1, <1>6, <2>1
  <2>3. (k \o w)[Len(k) + 0] = <<i, l + 0>> BY <1>3, <2>2 DEF Follows
  <2> QED BY <1>4, <2>2, <2>3
<1> QED BY <1>6, <1>7 DEF LastSent

(* A read of n bytes of the message.                                        *)
LEMMA ReadOf ==
  ASSUME NEW m \in Seq(Message), NEW k \in Seq(Byte), NEW w \in Seq(Byte), NEW i \in DOMAIN m,
         NEW t \in Nat, Whole(m, k \o w), Begins(m, k \o w, i, t),
         NEW n \in 0 .. Len(k), t + n <= Size(m[i])
  PROVE  /\ Drop(k, n) \in Seq(Byte) /\ Len(Drop(k, n)) = Len(k) - n
         /\ Whole(m, Drop(k, n) \o w) /\ Begins(m, Drop(k, n) \o w, i, t + n)
         /\ SubSeq(k, 1, n) \in Seq(Byte) /\ Len(SubSeq(k, 1, n)) = n
         /\ Piece(SubSeq(k, 1, n), i, t)
         /\ Len(Drop(k, n)) > 0 => Drop(k, n)[Len(Drop(k, n))] = k[Len(k)]
<1>1. k \o w \in Seq(Byte) /\ Len(k \o w) = Len(k) + Len(w) /\ Len(k) \in Nat /\ Len(w) \in Nat
  BY JoinOf
<1>2. Drop(k, n) \o w = Drop(k \o w, n) BY DropJoin
<1>3. n \in 0 .. Len(k \o w) BY <1>1
<1>4. Whole(m, Drop(k \o w, n)) BY <1>1, <1>3, WholeDrop
<1>5. Begins(m, Drop(k \o w, n), i, t + n) BY <1>1, <1>3, BeginsDrop
<1>6. /\ Drop(k, n) \in Seq(Byte) /\ Len(Drop(k, n)) = Len(k) - n
      /\ \A j \in 1 .. Len(k) - n : Drop(k, n)[j] = k[n + j]
  BY DropOf
<1>7. Len(Drop(k, n)) > 0 => Drop(k, n)[Len(Drop(k, n))] = k[Len(k)]
  <2> SUFFICES ASSUME Len(Drop(k, n)) > 0
               PROVE  Drop(k, n)[Len(Drop(k, n))] = k[Len(k)]
    OBVIOUS
  <2>1. Len(k) - n \in 1 .. Len(k) - n /\ n + (Len(k) - n) = Len(k) BY <1>1, <1>6
  <2>2. Drop(k, n)[Len(k) - n] = k[n + (Len(k) - n)] BY <1>6, <2>1
  <2> QED BY <1>6, <2>1, <2>2
<1>8. /\ SubSeq(k, 1, n) \in Seq(Byte) /\ Len(SubSeq(k, 1, n)) = n
      /\ \A j \in 1 .. n : SubSeq(k, 1, n)[j] = k[j]
  BY TakeOf
<1>9. Piece(SubSeq(k, 1, n), i, t)
  <2>1. ASSUME NEW j \in 1 .. n PROVE SubSeq(k, 1, n)[j] = <<i, t + j>>
    <3>1. Size(m[i]) \in Nat BY SizeAt
    <3>2. j \in 1 .. Len(k) /\ t + j <= Size(m[i]) /\ t <= Size(m[i]) BY <1>1, <3>1
    <3>3. k[j] = <<i, t + j>> BY <3>2, Arrived
    <3> QED BY <1>8, <3>3
  <2> QED BY <1>8, <2>1 DEF Piece
<1> QED BY <1>2, <1>4, <1>5, <1>6, <1>7, <1>8, <1>9

(* Pieces that follow each other are one.                                   *)
LEMMA PieceJoin ==
  ASSUME NEW p \in Seq(Byte), NEW r \in Seq(Byte), NEW i \in Nat, NEW t \in Nat,
         Piece(p, i, t), Piece(r, i, t + Len(p))
  PROVE  Piece(p \o r, i, t)
<1>1. /\ Len(p \o r) = Len(p) + Len(r) /\ Len(p) \in Nat /\ Len(r) \in Nat
      /\ \A j \in 1 .. Len(p) : (p \o r)[j] = p[j]
      /\ \A j \in 1 .. Len(r) : (p \o r)[Len(p) + j] = r[j]
  BY JoinOf
<1>2. ASSUME NEW j \in 1 .. Len(p) + Len(r) PROVE (p \o r)[j] = <<i, t + j>>
  <2>1. CASE j <= Len(p)
    <3>1. j \in 1 .. Len(p) BY <1>1, <2>1
    <3> QED BY <1>1, <3>1 DEF Piece
  <2>2. CASE j > Len(p)
    <3>1. j - Len(p) \in 1 .. Len(r) /\ j = Len(p) + (j - Len(p)) BY <1>1, <2>2
    <3>2. PICK l \in 1 .. Len(r) : j = Len(p) + l BY <3>1
    <3>3. (p \o r)[j] = r[l] /\ r[l] = <<i, t + Len(p) + l>> BY <1>1, <3>2 DEF Piece
    <3>4. t + Len(p) + l = t + j BY <1>1, <3>2
    <3> QED BY <3>3, <3>4
  <2>3. j <= Len(p) \/ j > Len(p) BY <1>1
  <2> QED BY <2>1, <2>2, <2>3
<1> QED BY <1>1, <1>2 DEF Piece

(* A message that was sent whole joins the stream.                          *)
Block(m, x) == [k \in 1 .. Size(x) |-> <<Len(m) + 1, k>>]

LEMMA BlockType ==
  ASSUME NEW m \in Seq(Message), NEW x \in Message
  PROVE  /\ Block(m, x) \in Seq(Byte) /\ Len(Block(m, x)) = Size(x) /\ Size(x) \in Nat \ {0}
         /\ \A k \in 1 .. Size(x) : Block(m, x)[k] = <<Len(m) + 1, k>>
<1>1. Size(x) \in Nat \ {0} /\ Len(m) \in Nat BY SizeType, LenProperties
<1>2. \A k \in 1 .. Size(x) : <<Len(m) + 1, k>> \in Byte BY <1>1 DEF Byte
<1>3. Block(m, x) \in [1 .. Size(x) -> Byte] BY <1>2 DEF Block
<1>4. Block(m, x) \in Seq(Byte) BY <1>1, <1>3, SeqDef
<1>5. Len(Block(m, x)) = Size(x) BY <1>1, <1>3, <1>4, LenProperties
<1> QED BY <1>1, <1>4, <1>5 DEF Block

LEMMA WholeSend ==
  ASSUME NEW m \in Seq(Message), NEW q \in Seq(Byte), NEW x \in Message, Whole(m, q)
  PROVE  Whole(Append(m, x), q \o Block(m, x))
<1>1. PICK N \in Nat : N = Len(m) BY LenProperties
<1>2. PICK d \in Nat \ {0} : d = Size(x) BY SizeType
<1>3. PICK b \in Seq(Byte) : b = Block(m, x) /\ Len(b) = d /\ \A k \in 1 .. d : b[k] = <<N + 1, k>>
  BY <1>1, <1>2, BlockType
<1>4. /\ DOMAIN m = 1 .. N /\ Append(m, x) \in Seq(Message) /\ Len(Append(m, x)) = N + 1
      /\ DOMAIN Append(m, x) = 1 .. N + 1 /\ \A i \in 1 .. N : Append(m, x)[i] = m[i]
      /\ Append(m, x)[N + 1] = x
  BY <1>1, AppendProperties, LenProperties
<1>5. PICK v \in Seq(Byte) : /\ v = q \o b /\ Len(v) = Len(q) + d
                             /\ \A j \in 1 .. Len(q) : v[j] = q[j]
                             /\ \A j \in 1 .. d : v[Len(q) + j] = <<N + 1, j>>
  <2>1. /\ q \o b \in Seq(Byte) /\ Len(q \o b) = Len(q) + Len(b)
        /\ \A j \in 1 .. Len(q) : (q \o b)[j] = q[j]
        /\ \A j \in 1 .. Len(b) : (q \o b)[Len(q) + j] = b[j]
    BY JoinOf
  <2>2. \A j \in 1 .. d : (q \o b)[Len(q) + j] = <<N + 1, j>> BY <1>3, <2>1
  <2>3. Len(q \o b) = Len(q) + d BY <1>3, <2>1
  <2> QED BY <2>1, <2>2, <2>3
<1>6. Len(q) \in Nat BY LenProperties
<1>7. ASSUME NEW j \in 1 .. Len(q) PROVE \E i, k \in Nat : Follows(Append(m, x), v, j, i, k)
  <2>1. PICK i, k \in Nat : Follows(m, q, j, i, k) BY DEF Whole
  <2>2. PICK c \in Nat : c = Size(m[i]) BY <2>1, SizeAt DEF Follows
  <2>3. /\ i \in 1 .. N /\ k \in 1 .. c
        /\ \A l \in 0 .. c - k : j + l \in 1 .. Len(q) /\ q[j + l] = <<i, k + l>>
        /\ i = N => j + (c - k) = Len(q)
        /\ i # N => j + (c - k) + 1 \in 1 .. Len(q) /\ q[j + (c - k) + 1] = <<i + 1, 1>>
    BY <1>1, <1>4, <2>1, <2>2 DEF Follows
  <2>4. i \in DOMAIN Append(m, x) /\ Size(Append(m, x)[i]) = c /\ i # Len(Append(m, x))
    BY <1>1, <1>4, <2>2, <2>3
  <2>5. ASSUME NEW l \in 0 .. c - k PROVE j + l \in 1 .. Len(v) /\ v[j + l] = <<i, k + l>>
    <3>1. j + l \in 1 .. Len(q) /\ q[j + l] = <<i, k + l>> BY <2>3
    <3>2. Len(v) >= Len(q) /\ Len(v) \in Nat BY <1>2, <1>5, <1>6
    <3>3. j + l \in 1 .. Len(v) BY <1>6, <3>1, <3>2
    <3> QED BY <1>5, <3>1, <3>3
  <2>6. j + (c - k) + 1 \in 1 .. Len(v) /\ v[j + (c - k) + 1] = <<i + 1, 1>>
    <3>1. CASE i = N
      <4>1. j + (c - k) + 1 = Len(q) + 1 BY <2>3, <3>1
      <4>2. 1 \in 1 .. d /\ Len(q) + 1 \in 1 .. Len(v) BY <1>2, <1>5, <1>6
      <4>3. v[Len(q) + 1] = <<N + 1, 1>> BY <1>5, <4>2
      <4> QED BY <3>1, <4>1, <4>2, <4>3
    <3>2. CASE i # N
      <4>1. j + (c - k) + 1 \in 1 .. Len(q) /\ q[j + (c - k) + 1] = <<i + 1, 1>> BY <2>3, <3>2
      <4>2. Len(v) >= Len(q) /\ Len(v) \in Nat BY <1>2, <1>5, <1>6
      <4>3. j + (c - k) + 1 \in 1 .. Len(v) BY <1>6, <4>1, <4>2
      <4> QED BY <1>5, <4>1, <4>3
    <3> QED BY <3>1, <3>2
  <2> QED BY <2>3, <2>4, <2>5, <2>6 DEF Follows
<1>8. ASSUME NEW k \in 1 .. d PROVE Follows(Append(m, x), v, Len(q) + k, N + 1, k)
  <2>1. N + 1 \in DOMAIN Append(m, x) /\ Size(Append(m, x)[N + 1]) = d BY <1>1, <1>2, <1>4
  <2>2. ASSUME NEW l \in 0 .. d - k
        PROVE  Len(q) + k + l \in 1 .. Len(v) /\ v[Len(q) + k + l] = <<N + 1, k + l>>
    <3>1. k + l \in 1 .. d /\ Len(q) + (k + l) = Len(q) + k + l /\ Len(q) + k + l \in 1 .. Len(v)
      BY <1>2, <1>5, <1>6
    <3>2. v[Len(q) + (k + l)] = <<N + 1, k + l>> BY <1>5, <3>1
    <3> QED BY <3>1, <3>2
  <2>3. Len(q) + k + (d - k) = Len(v) BY <1>2, <1>5, <1>6
  <2>4. N + 1 = Len(Append(m, x)) BY <1>4
  <2> QED BY <2>1, <2>2, <2>3, <2>4 DEF Follows
<1>9. ASSUME NEW j \in 1 .. Len(v) PROVE \E i, k \in Nat : Follows(Append(m, x), v, j, i, k)
  <2>1. CASE j <= Len(q)
    <3>1. j \in 1 .. Len(q) BY <1>6, <2>1
    <3> QED BY <1>7, <3>1
  <2>2. CASE j > Len(q)
    <3>1. j - Len(q) \in 1 .. d /\ j = Len(q) + (j - Len(q)) BY <1>2, <1>5, <1>6, <2>2
    <3>2. PICK k \in 1 .. d : j = Len(q) + k BY <3>1
    <3>3. k \in Nat /\ N + 1 \in Nat BY <1>1, <1>2
    <3>4. Follows(Append(m, x), v, j, N + 1, k) BY <1>8, <3>2
    <3> QED BY <3>3, <3>4
  <2>3. j <= Len(q) \/ j > Len(q) BY <1>6
  <2> QED BY <2>1, <2>2, <2>3
<1> QED BY <1>3, <1>5, <1>9 DEF Whole

LEMMA BeginsSend ==
  ASSUME NEW m \in Seq(Message), NEW q \in Seq(Byte), NEW x \in Message,
         NEW i \in Nat, NEW t \in Nat, Begins(m, q, i, t)
  PROVE  Begins(Append(m, x), q \o Block(m, x), i, t)
<1>1. PICK N \in Nat : N = Len(m) BY LenProperties
<1>2. PICK d \in Nat \ {0} : d = Size(x) BY SizeType
<1>3. PICK b \in Seq(Byte) : b = Block(m, x) /\ Len(b) = d /\ \A k \in 1 .. d : b[k] = <<N + 1, k>>
  BY <1>1, <1>2, BlockType
<1>4. /\ DOMAIN m = 1 .. N /\ Append(m, x) \in Seq(Message) /\ Len(Append(m, x)) = N + 1
      /\ DOMAIN Append(m, x) = 1 .. N + 1 /\ \A l \in 1 .. N : Append(m, x)[l] = m[l]
      /\ Append(m, x)[N + 1] = x
  BY <1>1, AppendProperties, LenProperties
<1>5. PICK v \in Seq(Byte) : /\ v = q \o b /\ Len(v) = Len(q) + d
                             /\ \A j \in 1 .. Len(q) : v[j] = q[j]
                             /\ \A j \in 1 .. d : v[Len(q) + j] = <<N + 1, j>>
  <2>1. /\ q \o b \in Seq(Byte) /\ Len(q \o b) = Len(q) + Len(b)
        /\ \A j \in 1 .. Len(q) : (q \o b)[j] = q[j]
        /\ \A j \in 1 .. Len(b) : (q \o b)[Len(q) + j] = b[j]
    BY JoinOf
  <2>2. \A j \in 1 .. d : (q \o b)[Len(q) + j] = <<N + 1, j>> BY <1>3, <2>1
  <2>3. Len(q \o b) = Len(q) + d BY <1>3, <2>1
  <2> QED BY <2>1, <2>2, <2>3
<1>6. Len(q) \in Nat BY LenProperties
<1>7. Len(v) > 0 /\ (Len(q) > 0 => v[1] = q[1]) /\ (Len(q) = 0 => v[1] = <<N + 1, 1>>)
  <2>1. Len(v) > 0 /\ 1 \in 1 .. d /\ Len(q) + 1 \in Nat BY <1>2, <1>5, <1>6
  <2>2. Len(q) > 0 => 1 \in 1 .. Len(q) BY <1>6
  <2>3. Len(q) = 0 => Len(q) + 1 = 1 BY <1>6
  <2>4. v[Len(q) + 1] = <<N + 1, 1>> BY <1>5, <2>1
  <2> QED BY <1>5, <2>1, <2>2, <2>3, <2>4
<1>8. CASE i \in DOMAIN m
  <2>1. i \in DOMAIN Append(m, x) /\ Size(Append(m, x)[i]) = Size(m[i]) /\ i # Len(Append(m, x))
    BY <1>4, <1>8
  <2>2. i # N + 1 BY <1>4, <1>8
  <2>3. CASE t < Size(m[i]) /\ Len(q) > 0 /\ q[1] = <<i, t + 1>>
    BY <1>3, <1>5, <1>7, <2>1, <2>3 DEF Begins
  <2>4. CASE t = Size(m[i]) /\ i # N /\ Len(q) > 0 /\ q[1] = <<i + 1, 1>>
    BY <1>3, <1>5, <1>7, <2>1, <2>4 DEF Begins
  <2>5. CASE t = Size(m[i]) /\ i = N /\ Len(q) = 0
    BY <1>3, <1>5, <1>7, <2>1, <2>5 DEF Begins
  <2> QED BY <1>1, <2>2, <2>3, <2>4, <2>5 DEF Begins
<1>9. CASE i = N + 1 /\ t = 0 /\ Len(q) = 0
  <2>1. i \in DOMAIN Append(m, x) /\ Size(Append(m, x)[i]) = d BY <1>2, <1>4, <1>9
  <2>2. t < d /\ t + 1 = 1 BY <1>2, <1>9
  <2> QED BY <1>3, <1>5, <1>7, <1>9, <2>1, <2>2 DEF Begins
<1> QED BY <1>1, <1>8, <1>9 DEF Begins

(* The first end of the header among the bytes that are looked at.          *)
LEMMA FirstEnd ==
  ASSUME NEW n \in Nat, NEW z \in Nat \ {0}, NEW E \in SUBSET (1 .. n),
         z <= n => z \in E, \A k \in E : z <= k
  PROVE  (IF E = {} THEN n ELSE CHOOSE k \in E : \A j \in E : k <= j) = Least(n, z)
<1>1. CASE z <= n
  <2>1. \A k \in E : (\A j \in E : k <= j) <=> k = z BY <1>1
  <2>2. (CHOOSE k \in E : \A j \in E : k <= j) = z
    <3>1. \E k \in E : \A j \in E : k <= j BY <1>1
    <3> QED BY <2>1, <3>1
  <2>3. E # {} /\ ~(n < z) BY <1>1
  <2> QED BY <2>2, <2>3 DEF Least
<1>2. CASE n < z
  <2>1. E = {} BY <1>2
  <2> QED BY <1>2, <2>1 DEF Least
<1> QED BY <1>1, <1>2

----------------------------------------------------------------------------
(* The invariant.  cur is the message that is read, taken how much of it    *)
(* was.  After an upgrade s is what it was, until the payload of a frame is *)
(* put there.                                                               *)

cur == Len(handed) + 1
Stale == func = "websocket" /\ step = 0
taken == Len(head) + (IF Stale THEN 0 ELSE Len(s))
Known == cur \in DOMAIN sent

Types ==
  /\ sent \in Seq(Message) /\ handed \in Seq(Seq(Byte))
  /\ wire \in Seq(Byte) /\ kernel \in Seq(Byte) /\ s \in Seq(Byte) /\ head \in Seq(Byte)
  /\ req_pos \in Nat /\ req_len \in Nat /\ com_len \in Nat /\ checked_len \in Nat /\ s_len \in Nat
(* The manager sends its messages; frames follow an upgrade.                *)
Kinds ==
  \A i \in DOMAIN sent :
    /\ sent[i].kind = "manager" <=> func = "ami_event"
    /\ sent[i].kind = "frame" <=> \E j \in 1 .. i - 1 : sent[j].kind = "upgrade"
(* A frame's header arrives in one piece.                                   *)
Unsplit == ~SplitHeader /\ Len(kernel) > 0 => ~InHeader(kernel[Len(kernel)])

(* What was not read begins where the reader is.                            *)
Stream == Whole(sent, kernel \o wire) /\ Begins(sent, kernel \o wire, cur, taken)
Pieces == Piece(head, cur, 0) /\ (~Stale => Piece(s, cur, Len(head)))

(* The readers, by where they are in the message                            *)
Waiting == pc \in {"epoll", "work", "call"}
Header ==
  /\ req_pos = 0 /\ req_len = 0 /\ com_len = Len(s)
  /\ com_len > 0 => com_len < sent[cur].head
AtHeader == Waiting /\ Header /\ (pc # "epoll" => checked_len > 0)
AtParse == pc = "parse" /\ Known /\ req_pos = 0 /\ req_len = 0 /\ com_len = sent[cur].head
Body == Known /\ req_pos = sent[cur].head /\ req_len = sent[cur].body
AtBody ==
  /\ Body
  /\ \/ pc \in {"epoll", "work"} /\ com_len < req_len
     \/ pc = "call" /\ checked_len = 0 /\ com_len = req_len
AtRoute == pc = "route" /\ Known /\ req_pos + com_len = Size(sent[cur]) /\ req_len = sent[cur].body
Http ==
  /\ head = <<>> /\ step = 0 /\ s_len = s_len0
  /\ \A j \in 1 .. Len(handed) : sent[j].kind # "upgrade"
  /\ AtHeader \/ AtParse \/ AtBody \/ AtRoute
Manager == head = <<>> /\ step = 0 /\ AtHeader /\ com_len < s_len
AtFrame == step = 0 /\ (Waiting \/ pc = "start") /\ head = <<>> /\ req_len = 0
AtFrameHeader ==
  /\ step = 0 /\ Known /\ req_len = 0
  /\ \/ pc = "extended" /\ Len(head) = 2 /\ Extended(sent[cur]) > 0
     \/ pc = "mask" /\ Len(head) = 2 + Extended(sent[cur]) /\ Masked(sent[cur])
     \/ pc = "payload" /\ Len(head) = sent[cur].head
AtPayload ==
  /\ step = 1 /\ Known /\ Len(head) = sent[cur].head
  /\ \/ pc \in {"epoll", "work"} /\ req_pos + req_len = sent[cur].body /\ com_len < req_len
     \/ pc = "call" /\ req_pos + req_len = sent[cur].body /\ com_len = req_len
     \/ pc = "unmask" /\ req_pos + com_len = sent[cur].body
Websocket ==
  /\ \E j \in 1 .. Len(handed) : sent[j].kind = "upgrade"
  /\ AtFrame \/ AtFrameHeader \/ AtPayload
Phase ==
  \/ func = "none" /\ Http
  \/ func = "ami_event" /\ Manager
  \/ func = "websocket" /\ Websocket
Counted == pc \in {"work", "call"} => checked_len <= Len(kernel)

Refused ==
  LET m == sent[cur]
  IN IF m.kind = "frame" THEN m.body > MaxData ELSE m.head >= s_len0 \/ Size(m) > s_len0
Closed ==
  /\ closed # "no" => pc = "closed"
  /\ closed = "garbled" => SplitHeader
  /\ closed # "garbled" => Len(handed) <= Len(sent) /\ HandedAsSent
  /\ closed = "too_large" => Known /\ Refused

Reading == Stream /\ Pieces /\ Unsplit /\ Phase /\ Counted
StreamInv ==
  /\ Types /\ Kinds /\ FitsBuffer /\ Closed
  /\ closed = "no" => Reading

(* The operators of the invariant, in numbers                               *)
LEMMA Numbers ==
  ASSUME Types
  PROVE  /\ Len(sent) \in Nat /\ Len(handed) \in Nat /\ cur \in Nat /\ taken \in Nat
         /\ Len(head) \in Nat /\ Len(s) \in Nat /\ Len(kernel) \in Nat /\ Len(wire) \in Nat
         /\ DOMAIN sent = 1 .. Len(sent) /\ DOMAIN handed = 1 .. Len(handed)
         /\ kernel \o wire \in Seq(Byte)
<1>1. /\ Len(sent) \in Nat /\ Len(handed) \in Nat
      /\ Len(head) \in Nat /\ Len(s) \in Nat /\ Len(kernel) \in Nat /\ Len(wire) \in Nat
      /\ DOMAIN sent = 1 .. Len(sent) /\ DOMAIN handed = 1 .. Len(handed)
  BY LenProperties DEF Types
<1>2. kernel \o wire \in Seq(Byte) BY ConcatProperties DEF Types
<1>3. cur \in Nat BY <1>1 DEF cur
<1>4. taken \in Nat BY <1>1 DEF taken
<1> QED BY <1>1, <1>2, <1>3, <1>4

(* The message that is read                                                 *)
LEMMA KnownMessage ==
  ASSUME Types, Known
  PROVE  /\ sent[cur] \in Message /\ cur \in 1 .. Len(sent)
         /\ sent[cur].head \in Nat \ {0} /\ sent[cur].body \in Nat
         /\ Size(sent[cur]) = sent[cur].head + sent[cur].body
<1>1. cur \in 1 .. Len(sent) BY Numbers DEF Known
<1>2. sent[cur] \in Message BY <1>1, ElementOfSeq DEF Types
<1> QED BY <1>1, <1>2, SizeType DEF Size

(* Of an empty sequence every part is a piece.                              *)
LEMMA NoPiece == \A i, t : Piece(<<>>, i, t)
<1>1. \A k \in 1 .. Len(<<>>) : FALSE OBVIOUS
<1> QED BY <1>1 DEF Piece

(* A read of n bytes of the message that is read.                           *)
LEMMA Reads ==
  ASSUME Types, Stream, Unsplit, Known, NEW n \in 0 .. Len(kernel),
         taken + n <= Size(sent[cur]), sent' = sent, wire' = wire, handed' = handed,
         kernel' = Drop(kernel, n), taken' = taken + n
  PROVE  /\ kernel' \in Seq(Byte) /\ Len(kernel') = Len(kernel) - n /\ Stream' /\ Unsplit'
         /\ SubSeq(kernel, 1, n) \in Seq(Byte) /\ Len(SubSeq(kernel, 1, n)) = n
         /\ Piece(SubSeq(kernel, 1, n), cur, taken)
<1>1. /\ kernel \in Seq(Byte) /\ wire \in Seq(Byte) /\ sent \in Seq(Message) /\ cur \in DOMAIN sent
      /\ taken \in Nat /\ Whole(sent, kernel \o wire) /\ Begins(sent, kernel \o wire, cur, taken)
  BY Numbers DEF Types, Stream, Known
<1>2. /\ Drop(kernel, n) \in Seq(Byte) /\ Len(Drop(kernel, n)) = Len(kernel) - n
      /\ Whole(sent, Drop(kernel, n) \o wire) /\ Begins(sent, Drop(kernel, n) \o wire, cur, taken + n)
      /\ SubSeq(kernel, 1, n) \in Seq(Byte) /\ Len(SubSeq(kernel, 1, n)) = n
      /\ Piece(SubSeq(kernel, 1, n), cur, taken)
      /\ Len(Drop(kernel, n)) > 0 => Drop(kernel, n)[Len(Drop(kernel, n))] = kernel[Len(kernel)]
  BY <1>1, ReadOf
<1>3. Stream' BY <1>2 DEF Stream, cur
<1>4. Unsplit'
  <2>1. Len(kernel) \in Nat BY Numbers
  <2>2. Len(kernel') > 0 => kernel'[Len(kernel')] = kernel[Len(kernel)] /\ Len(kernel) > 0
    BY <1>2, <2>1
  <2> QED BY <2>2 DEF Unsplit, InHeader
<1> QED BY <1>2, <1>3, <1>4

(* The next bytes that have arrived.                                        *)
LEMMA NextArrived ==
  ASSUME Types, Stream, Known, taken <= Size(sent[cur]),
         NEW j \in 1 .. Len(kernel), taken + j <= Size(sent[cur])
  PROVE  kernel[j] = <<cur, taken + j>>
<1>1. /\ kernel \in Seq(Byte) /\ wire \in Seq(Byte) /\ sent \in Seq(Message) /\ cur \in DOMAIN sent
      /\ taken \in Nat /\ Whole(sent, kernel \o wire) /\ Begins(sent, kernel \o wire, cur, taken)
  BY Numbers DEF Types, Stream, Known
<1> QED BY <1>1, Arrived

(* Where there are bytes there is a message.                                *)
LEMMA KnownByBytes ==
  ASSUME Types, Stream, taken > 0 \/ Len(kernel) > 0
  PROVE  Known
<1>1. /\ kernel \in Seq(Byte) /\ wire \in Seq(Byte) /\ sent \in Seq(Message) /\ cur \in Nat
      /\ taken \in Nat /\ Begins(sent, kernel \o wire, cur, taken)
  BY Numbers DEF Types, Stream
<1> QED BY <1>1, Sent DEF Known

(* What is appended to s.                                                   *)
LEMMA MoreOf ==
  ASSUME NEW p \in Seq(Byte), NEW r \in Seq(Byte), NEW i \in Nat, NEW t \in Nat,
         NEW u \in Nat, NEW n \in Nat, Piece(p, i, t), Piece(r, i, u), u = t + Len(p),
         n = Len(p)
  PROVE  /\ SubSeq(p, 1, n) \o r \in Seq(Byte) /\ Len(SubSeq(p, 1, n) \o r) = Len(p) + Len(r)
         /\ Piece(SubSeq(p, 1, n) \o r, i, t)
<1>1. SubSeq(p, 1, n) = p BY SubSeqFull
<1> QED BY <1>1, JoinOf, PieceJoin

(* A whole message is the bytes that were sent.                             *)
LEMMA WholeMessage ==
  ASSUME NEW h \in Seq(Byte), NEW i, Len(h) = Size(sent[i]), Piece(h, i, 0)
  PROVE  h = Bytes(i)
<1>1. Len(h) \in Nat BY LenProperties
<1>2. DOMAIN h = 1 .. Len(h) /\ h = [k \in 1 .. Len(h) |-> h[k]]
  BY LenProperties, SeqDef
<1>3. \A k \in 1 .. Len(h) : h[k] = <<i, k>>
  <2>1. ASSUME NEW k \in 1 .. Len(h) PROVE h[k] = <<i, k>>
    <3>1. h[k] = <<i, 0 + k>> BY DEF Piece
    <3>2. 0 + k = k BY <1>1
    <3> QED BY <3>1, <3>2
  <2> QED BY <2>1
<1> QED BY <1>2, <1>3 DEF Bytes

(* A message that is handed over is the one that is read.                   *)
LEMMA HandOver ==
  ASSUME Types, Known, Closed, closed = "no", NEW h \in Seq(Byte),
         Len(h) = Size(sent[cur]), Piece(h, cur, 0), handed' = Append(handed, h), sent' = sent
  PROVE  /\ handed' \in Seq(Seq(Byte)) /\ Len(handed') = cur /\ Len(handed') <= Len(sent)
         /\ HandedAsSent' /\ cur' = cur + 1
<1>1. /\ handed' \in Seq(Seq(Byte)) /\ Len(handed') = Len(handed) + 1
      /\ \A i \in 1 .. Len(handed) : handed'[i] = handed[i]
      /\ handed'[Len(handed) + 1] = h
  BY AppendProperties DEF Types
<1>2. Len(handed') = cur /\ cur' = cur + 1 BY <1>1 DEF cur
<1>3. cur <= Len(sent) /\ Len(handed) \in Nat /\ DOMAIN handed = 1 .. Len(handed)
  BY KnownMessage, Numbers
<1>4. DOMAIN handed' = 1 .. Len(handed) + 1 BY <1>1, LenProperties
<1>5. HandedAsSent BY DEF Closed
<1>6. HandedAsSent'
  <2>1. ASSUME NEW i \in 1 .. Len(handed) + 1 PROVE handed'[i] = Bytes(i)
    <3>1. CASE i \in 1 .. Len(handed) BY <1>1, <1>3, <1>5, <3>1 DEF HandedAsSent
    <3>2. CASE i = Len(handed) + 1
      <4>1. h = Bytes(cur) BY WholeMessage
      <4> QED BY <1>1, <3>2, <4>1 DEF cur
    <3> QED BY <1>3, <3>1, <3>2
  <2>2. \A i : Bytes(i)' = Bytes(i) BY DEF Bytes
  <2> QED BY <1>4, <2>1, <2>2 DEF HandedAsSent
<1> QED BY <1>1, <1>2, <1>3, <1>6

(* Then the next message is read.                                           *)
LEMMA NextMessage ==
  ASSUME Types, Known, Stream, taken = Size(sent[cur]), sent' = sent, kernel' = kernel,
         wire' = wire, cur' = cur + 1, taken' = 0
  PROVE  Stream'
<1>1. Begins(sent, kernel \o wire, cur + 1, 0)
  BY Numbers, NextBegins DEF Types, Stream, Known
<1> QED BY <1>1 DEF Stream

LEMMA ClosedStep ==
  ASSUME Closed, closed = "no", sent' = sent, handed' = handed,
         closed' \in {"no", "served", "too_large"}, closed' # "no" => pc' = "closed",
         closed' = "too_large" => Known /\ Refused
  PROVE  Closed'
<1>1. HandedAsSent' BY DEF Closed, HandedAsSent, Bytes
<1>2. closed' = "too_large" => Known' /\ Refused' BY DEF Known, Refused, cur
<1> QED BY <1>1, <1>2 DEF Closed

LEMMA KindsStep ==
  ASSUME Kinds, sent' = sent, func' = "ami_event" <=> func = "ami_event"
  PROVE  Kinds'
BY DEF Kinds

----------------------------------------------------------------------------
(* The steps                                                                *)

LEMMA InitInv == Init => StreamInv
<1> SUFFICES ASSUME Init PROVE StreamInv
  OBVIOUS
<1> USE DEF Init
<1>1. /\ Len(sent) = 0 /\ Len(handed) = 0 /\ Len(head) = 0
      /\ Len(s) = 0 /\ Len(kernel) = 0 /\ Len(wire) = 0
  BY EmptySeq
<1>2. Types BY EmptySeq, MessageAssumption DEF Types
<1>3. kernel \o wire = <<>> BY <1>2, ConcatEmptySeq DEF Types
<1>4. DOMAIN sent = {} /\ DOMAIN handed = {} BY <1>1, <1>2, Numbers
<1>5. taken = 0 /\ cur = 1 BY <1>1 DEF taken, cur
<1>6. Len(<<>>) = 0 BY EmptySeq
<1>7. Stream BY <1>1, <1>3, <1>5, <1>6 DEF Stream, Whole, Begins
<1>8. Pieces BY NoPiece DEF Pieces
<1>9. FitsBuffer /\ Unsplit /\ Counted BY <1>1, MessageAssumption DEF FitsBuffer, Unsplit, Counted
<1>10. AtHeader BY <1>1 DEF AtHeader, Waiting, Header
<1>11. Phase
  <2>1. 0 < s_len0 BY MessageAssumption
  <2> QED BY <1>1, <1>10, <2>1 DEF Phase, Http, Manager
<1>12. Kinds /\ Closed BY <1>1, <1>4 DEF Kinds, Closed, HandedAsSent
<1> QED BY <1>2, <1>7, <1>8, <1>9, <1>11, <1>12 DEF StreamInv, Reading

(* What is known of a message does not depend on those after it.            *)
LEMMA SendInv == StreamInv /\ Send => StreamInv'
<1> SUFFICES ASSUME StreamInv, Send PROVE StreamInv'
  OBVIOUS
<1> USE DEF StreamInv
<1>1. PICK x \in Message : /\ Sensible(x) /\ sent' = Append(sent, x)
                           /\ wire' = wire \o Block(sent, x)
  BY DEF Send, Block
<1>2. UNCHANGED <<kernel, dataVars, checked_len, user_data, func, wsVars, pc, handed, closed>>
  BY DEF Send
<1>3. /\ sent' \in Seq(Message) /\ Len(sent') = Len(sent) + 1
      /\ \A i \in 1 .. Len(sent) : sent'[i] = sent[i]
      /\ sent'[Len(sent) + 1] = x
  BY <1>1, AppendProperties DEF Types
<1>4. Block(sent, x) \in Seq(Byte) BY BlockType DEF Types
<1>5. wire' \in Seq(Byte) BY <1>1, <1>4, ConcatProperties DEF Types
<1>6. Types' BY <1>2, <1>3, <1>5 DEF Types, dataVars, wsVars
<1>7. DOMAIN sent = 1 .. Len(sent) /\ Len(sent) \in Nat /\ DOMAIN sent' = 1 .. Len(sent) + 1
  BY <1>3, <1>6, Numbers, LenProperties
<1>8. cur' = cur /\ taken' = taken /\ (Stale' <=> Stale) BY <1>2 DEF cur, taken, Stale, wsVars, dataVars
<1>9. Known => Known' /\ sent'[cur] = sent[cur] BY <1>3, <1>7, <1>8 DEF Known
<1>10. Kinds'
  <2>1. ASSUME NEW i \in 1 .. Len(sent)
        PROVE  /\ sent'[i].kind = "manager" <=> func = "ami_event"
               /\ sent'[i].kind = "frame" <=> \E j \in 1 .. i - 1 : sent'[j].kind = "upgrade"
    <3>1. \A j \in 1 .. i - 1 : sent'[j] = sent[j] BY <1>3, <1>7
    <3>2. sent'[i] = sent[i] BY <1>3
    <3>3. /\ sent[i].kind = "manager" <=> func = "ami_event"
          /\ sent[i].kind = "frame" <=> \E j \in 1 .. i - 1 : sent[j].kind = "upgrade"
      BY <1>7 DEF Kinds
    <3> QED BY <3>1, <3>2, <3>3
  <2>2. /\ x.kind = "manager" <=> func = "ami_event"
        /\ x.kind = "frame" <=> \E j \in 1 .. Len(sent) : sent'[j].kind = "upgrade"
    BY <1>1, <1>3, <1>7 DEF Sensible
  <2>3. \A i \in 1 .. Len(sent) + 1 : i \in 1 .. Len(sent) \/ i = Len(sent) + 1 BY <1>7
  <2>4. Len(sent) + 1 - 1 = Len(sent) BY <1>7
  <2>5. ASSUME NEW i \in 1 .. Len(sent) + 1
        PROVE  /\ sent'[i].kind = "manager" <=> func = "ami_event"
               /\ sent'[i].kind = "frame" <=> \E j \in 1 .. i - 1 : sent'[j].kind = "upgrade"
    <3>1. CASE i \in 1 .. Len(sent) BY <2>1, <3>1
    <3>2. CASE i = Len(sent) + 1 BY <1>3, <2>2, <2>4, <3>2
    <3> QED BY <2>3, <3>1, <3>2
  <2> QED BY <1>2, <1>7, <2>5 DEF Kinds
<1>11. FitsBuffer' BY <1>2 DEF FitsBuffer, dataVars
<1>12. Closed'
  <2>1. closed # "garbled" => Len(handed) <= Len(sent) + 1 /\ HandedAsSent'
    <3> SUFFICES ASSUME closed # "garbled" PROVE Len(handed) <= Len(sent) + 1 /\ HandedAsSent'
      OBVIOUS
    <3>1. Len(handed) <= Len(sent) /\ HandedAsSent /\ Len(handed) \in Nat BY Numbers DEF Closed
    <3>2. \A i \in DOMAIN handed : sent'[i] = sent[i]
      <4>1. DOMAIN handed = 1 .. Len(handed) BY Numbers
      <4> QED BY <1>3, <1>7, <3>1, <4>1
    <3>3. \A i \in DOMAIN handed : Bytes(i)' = Bytes(i) BY <3>2 DEF Bytes
    <3> QED BY <1>2, <1>7, <3>1, <3>3 DEF HandedAsSent
  <2>2. closed = "too_large" => Known' /\ Refused'
    <3>1. Known /\ Refused => Refused' BY <1>8, <1>9 DEF Refused
    <3> QED BY <1>9, <3>1 DEF Closed
  <2> QED BY <1>2, <1>3, <2>1, <2>2 DEF Closed
<1>13. ASSUME closed = "no" PROVE Reading'
  <2>1. Reading BY <1>13
  <2> USE <2>1 DEF Reading
  <2>2. Stream'
    <3>1. kernel \in Seq(Byte) /\ wire \in Seq(Byte) BY DEF Types
    <3>2. kernel' \o wire' = (kernel \o wire) \o Block(sent, x)
      BY <1>1, <1>2, <1>4, <3>1, ConcatAssociative
    <3>3. /\ kernel \o wire \in Seq(Byte) /\ sent \in Seq(Message) /\ cur \in Nat /\ taken \in Nat
          /\ Whole(sent, kernel \o wire) /\ Begins(sent, kernel \o wire, cur, taken)
      BY Numbers DEF Types, Stream
    <3>4. Whole(Append(sent, x), (kernel \o wire) \o Block(sent, x)) BY <3>3, WholeSend
    <3>5. Begins(Append(sent, x), (kernel \o wire) \o Block(sent, x), cur, taken)
      BY <3>3, BeginsSend
    <3> QED BY <1>1, <1>8, <3>2, <3>4, <3>5 DEF Stream
  <2>3. Pieces' BY <1>2, <1>8 DEF Pieces, wsVars, dataVars
  <2>4. Counted' BY <1>2 DEF Counted
  <2>5. AtHeader /\ ~Stale => AtHeader'
    <3> SUFFICES ASSUME AtHeader, ~Stale PROVE AtHeader'
      OBVIOUS
    <3>1. com_len > 0 => Known
      <4>1. com_len = Len(s) /\ Len(head) \in Nat /\ Len(s) \in Nat BY Numbers DEF AtHeader, Header
      <4>2. com_len > 0 => taken > 0 BY <4>1 DEF taken
      <4> QED BY <4>2, KnownByBytes
    <3>2. Header' BY <1>2, <1>8, <1>9, <3>1 DEF AtHeader, Header, dataVars
    <3> QED BY <1>2, <3>2 DEF AtHeader, Waiting
  <2>6. (AtParse => AtParse') /\ (AtBody => AtBody') /\ (AtRoute => AtRoute')
    BY <1>2, <1>8, <1>9 DEF AtParse, AtBody, Body, AtRoute, dataVars
  <2>7. (AtFrame => AtFrame') /\ (AtFrameHeader => AtFrameHeader') /\ (AtPayload => AtPayload')
    BY <1>2, <1>8, <1>9 DEF AtFrame, AtFrameHeader, AtPayload, Waiting, dataVars, wsVars
  <2>8. \A j \in 1 .. Len(handed) : sent'[j] = sent[j]
    <3>1. Len(handed) <= Len(sent) /\ Len(handed) \in Nat BY <1>13, Numbers DEF Closed
    <3> QED BY <1>3, <1>7, <3>1
  <2>12. Unsplit'
    <3> SUFFICES ASSUME ~SplitHeader, Len(kernel) > 0 PROVE ~InHeader(kernel[Len(kernel)])'
      BY <1>2 DEF Unsplit
    <3>1. ~InHeader(kernel[Len(kernel)]) BY DEF Unsplit
    <3>2. kernel[Len(kernel)][1] \in DOMAIN sent
      <4>1. /\ kernel \in Seq(Byte) /\ wire \in Seq(Byte) /\ Len(kernel) \in Nat
            /\ Whole(sent, kernel \o wire) /\ sent \in Seq(Message)
        BY Numbers DEF Types, Stream
      <4>2. LastSent(sent, kernel, wire) BY <4>1, LastIsSent
      <4> QED BY <4>2 DEF LastSent
    <3> QED BY <1>2, <1>3, <1>7, <3>1, <3>2 DEF InHeader
  <2>9. CASE func = "none" /\ Http
    BY <1>2, <2>2, <2>3, <2>4, <2>5, <2>6, <2>8, <2>9, <2>12 DEF Phase, Http, Stale, dataVars, wsVars
  <2>10. CASE func = "ami_event" /\ Manager
    BY <1>2, <2>2, <2>3, <2>4, <2>5, <2>10, <2>12 DEF Phase, Manager, Stale, dataVars, wsVars
  <2>11. CASE func = "websocket" /\ Websocket
    BY <1>2, <2>2, <2>3, <2>4, <2>7, <2>8, <2>11, <2>12 DEF Phase, Websocket, dataVars, wsVars
  <2> QED BY <2>9, <2>10, <2>11 DEF Phase
<1> QED BY <1>2, <1>6, <1>10, <1>11, <1>12, <1>13

(* A segment moves from the wire to the kernel; the stream is what it was.  *)
LEMMA ArriveInv == StreamInv /\ Arrive => StreamInv'
<1> SUFFICES ASSUME StreamInv, Arrive PROVE StreamInv'
  OBVIOUS
<1> USE DEF StreamInv
<1>1. PICK n \in 1 .. Len(wire) :
        /\ SplitHeader \/ ~InHeader(wire[n])
        /\ kernel' = kernel \o SubSeq(wire, 1, n) /\ wire' = SubSeq(wire, n + 1, Len(wire))
  BY DEF Arrive
<1>2. UNCHANGED <<sent, dataVars, checked_len, user_data, func, wsVars, pc, handed, closed>>
  BY DEF Arrive
<1>3. Len(wire) \in Nat /\ n \in 0 .. Len(wire) /\ n \in Nat \ {0} BY Numbers
<1>4. PICK p \in Seq(Byte) : p = SubSeq(wire, 1, n) /\ Len(p) = n /\ \A j \in 1 .. n : p[j] = wire[j]
  BY <1>3, TakeOf DEF Types
<1>5. wire' \in Seq(Byte)
  <2>1. Drop(wire, n) \in Seq(Byte) BY <1>3, DropOf DEF Types
  <2> QED BY <1>1, <2>1 DEF Drop
<1>6. /\ kernel' \in Seq(Byte) /\ Len(kernel') = Len(kernel) + n /\ Len(kernel) \in Nat
      /\ kernel'[Len(kernel')] = wire[n]
  <2>1. /\ kernel \o p \in Seq(Byte) /\ Len(kernel \o p) = Len(kernel) + Len(p) /\ Len(kernel) \in Nat
        /\ \A j \in 1 .. Len(p) : (kernel \o p)[Len(kernel) + j] = p[j]
    BY JoinOf DEF Types
  <2>2. n \in 1 .. Len(p) /\ n \in 1 .. n BY <1>3, <1>4
  <2>3. (kernel \o p)[Len(kernel) + n] = wire[n] BY <1>4, <2>1, <2>2
  <2> QED BY <1>1, <1>4, <2>1, <2>3
<1>7. kernel' \o wire' = kernel \o wire
  <2>1. SubSeq(wire, 1, n) \o SubSeq(wire, n + 1, Len(wire)) = wire
    <3>1. SubSeq(wire, 1, n) \o SubSeq(wire, n + 1, Len(wire)) = SubSeq(wire, 1, Len(wire))
      BY <1>3, ConcatAdjacentSubSeq DEF Types
    <3> QED BY <3>1, SubSeqFull DEF Types
  <2>2. kernel \in Seq(Byte) BY DEF Types
  <2>3. (kernel \o p) \o wire' = kernel \o (p \o wire') BY <1>5, <2>2, ConcatAssociative
  <2> QED BY <1>1, <1>4, <2>1, <2>3
<1>8. Types' BY <1>2, <1>5, <1>6 DEF Types, dataVars, wsVars
<1>9. Kinds' BY <1>2, KindsStep
<1>10. FitsBuffer' BY <1>2 DEF FitsBuffer, dataVars
<1>11. Closed'
  <2>1. \A i : Bytes(i)' = Bytes(i) BY <1>2 DEF Bytes
  <2>2. cur' = cur BY <1>2 DEF cur
  <2>3. (HandedAsSent' <=> HandedAsSent) /\ (Known' <=> Known) /\ (Refused' <=> Refused)
    BY <1>2, <2>1, <2>2 DEF HandedAsSent, Known, Refused
  <2> QED BY <1>2, <2>3 DEF Closed
<1>12. ASSUME closed = "no" PROVE Reading'
  <2>1. Reading BY <1>12
  <2> USE <2>1 DEF Reading
  <2>2. cur' = cur /\ taken' = taken /\ (Stale' <=> Stale) /\ (Known' <=> Known)
    BY <1>2 DEF cur, taken, Stale, Known, wsVars, dataVars
  <2>3. Stream' BY <1>2, <1>7, <2>2 DEF Stream
  <2>4. Pieces' BY <1>2, <2>2 DEF Pieces, wsVars, dataVars
  <2>5. Counted' BY <1>2, <1>6, <1>3 DEF Counted, Types
  <2>6. Unsplit' BY <1>1, <1>2, <1>6 DEF Unsplit, InHeader
  <2>7. (AtHeader => AtHeader') /\ (AtParse => AtParse') /\ (AtBody => AtBody') /\ (AtRoute => AtRoute')
    BY <1>2, <2>2 DEF AtHeader, Header, Waiting, AtParse, AtBody, Body, AtRoute, dataVars
  <2>8. (AtFrame => AtFrame') /\ (AtFrameHeader => AtFrameHeader') /\ (AtPayload => AtPayload')
    BY <1>2, <2>2 DEF AtFrame, AtFrameHeader, AtPayload, Waiting, dataVars, wsVars
  <2>9. Phase' BY <1>2, <2>7, <2>8 DEF Phase, Http, Manager, Websocket, dataVars, wsVars
  <2> QED BY <2>3, <2>4, <2>5, <2>6, <2>9
<1> QED BY <1>2, <1>8, <1>9, <1>10, <1>11, <1>12

(* Steps that change neither the bytes nor what is known of them.           *)
Still ==
  /\ closed = "no" /\ closed' = "no" /\ pc' # "closed"
  /\ UNCHANGED <<sent, wire, kernel, dataVars, func, wsVars, handed>>

LEMMA StillInv ==
  ASSUME StreamInv, Still, checked_len' \in Nat, Phase', Counted'
  PROVE  StreamInv'
<1> USE DEF StreamInv, Still
<1>1. Types' BY DEF Types, dataVars, wsVars
<1>2. Kinds' BY KindsStep
<1>3. FitsBuffer' BY DEF FitsBuffer, dataVars
<1>4. Closed' BY ClosedStep
<1>5. cur' = cur /\ taken' = taken /\ (Stale' <=> Stale)
  BY DEF cur, taken, Stale, wsVars, dataVars
<1>6. Stream' BY <1>5 DEF Stream, Reading
<1>7. Pieces' BY <1>5 DEF Pieces, Reading, wsVars, dataVars
<1>8. Unsplit' BY DEF Unsplit, InHeader, Reading
<1> QED BY <1>1, <1>2, <1>3, <1>4, <1>6, <1>7, <1>8 DEF Reading

(* Who runs has not closed the connection.                                  *)
LEMMA Open ==
  ASSUME StreamInv, pc # "closed"
  PROVE  closed = "no" /\ Reading
BY DEF StreamInv, Closed

LEMMA EventInv == StreamInv /\ Event => StreamInv'
<1> SUFFICES ASSUME StreamInv, Event PROVE StreamInv'
  OBVIOUS
<1> USE DEF Event
<1>1. closed = "no" /\ Reading BY Open
<1>2. Types BY DEF StreamInv
<1>3. Len(kernel) \in Nat \ {0}
  <2>1. Len(kernel) \in Nat /\ kernel \in Seq(Byte) BY <1>2, Numbers DEF Types
  <2> QED BY <2>1, EmptySeq
<1>4. Still BY <1>1 DEF Still
<1>5. checked_len' \in Nat /\ checked_len' > 0 /\ Counted' BY <1>3 DEF Counted
<1>6. cur' = cur /\ (Known' <=> Known) BY DEF cur, Known
<1>7. AtHeader => AtHeader'
  BY <1>5, <1>6 DEF AtHeader, Header, Waiting, dataVars
<1>8. (AtBody => AtBody') /\ ~AtParse /\ ~AtRoute
  BY <1>6 DEF AtBody, Body, AtParse, AtRoute, dataVars
<1>9. (AtFrame => AtFrame') /\ (AtPayload => AtPayload') /\ ~AtFrameHeader
  BY <1>6 DEF AtFrame, AtFrameHeader, AtPayload, Waiting, dataVars, wsVars
<1>10. Phase' BY <1>1, <1>7, <1>8, <1>9 DEF Reading, Phase, Http, Manager, Websocket, dataVars, wsVars
<1> QED BY <1>4, <1>5, <1>10, StillInv

LEMMA NoAutoReadInv == StreamInv /\ NoAutoRead => StreamInv'
<1> SUFFICES ASSUME StreamInv, NoAutoRead PROVE StreamInv'
  OBVIOUS
<1> USE DEF NoAutoRead
<1>1. closed = "no" /\ Reading BY Open
<1>2. Types BY DEF StreamInv
<1>3. Still BY <1>1 DEF Still
<1>4. checked_len' \in Nat /\ Counted' BY <1>1, <1>2 DEF Counted, Reading, Types
<1>5. cur' = cur /\ (Known' <=> Known) BY DEF cur, Known
<1>6. req_len \in Nat /\ com_len \in Nat /\ ~(com_len < req_len) BY <1>2 DEF Types
<1>7. AtHeader => AtHeader'
  BY <1>5 DEF AtHeader, Header, Waiting, dataVars
<1>8. ~AtBody /\ ~AtParse /\ ~AtRoute
  BY <1>6 DEF AtBody, Body, AtParse, AtRoute
<1>9. (AtFrame => AtFrame') /\ ~AtPayload /\ ~AtFrameHeader
  BY <1>5, <1>6 DEF AtFrame, AtFrameHeader, AtPayload, Waiting, dataVars, wsVars
<1>10. Phase' BY <1>1, <1>7, <1>8, <1>9 DEF Reading, Phase, Http, Manager, Websocket, dataVars, wsVars
<1> QED BY <1>3, <1>4, <1>10, StillInv

LEMMA BodyCompleteInv == StreamInv /\ BodyComplete => StreamInv'
<1> SUFFICES ASSUME StreamInv, BodyComplete PROVE StreamInv'
  OBVIOUS
<1> USE DEF BodyComplete
<1>1. closed = "no" /\ Reading BY Open
<1>2. Types BY DEF StreamInv
<1>3. Still BY <1>1 DEF Still
<1>4. checked_len' \in Nat /\ Counted' BY <1>1, <1>2 DEF Counted, Reading, Types
<1>5. cur' = cur /\ (Known' <=> Known) BY DEF cur, Known
<1>6. Http BY <1>1 DEF Reading, Phase
<1>7. Body /\ com_len = req_len
  BY <1>6 DEF Http, AtHeader, AtParse, AtRoute, AtBody
<1>8. AtRoute'
  <2>1. sent[cur].head + sent[cur].body = Size(sent[cur]) BY DEF Size
  <2> QED BY <1>5, <1>7, <2>1 DEF AtRoute, Body, dataVars
<1>9. Phase' BY <1>6, <1>8 DEF Phase, Http, dataVars, wsVars
<1> QED BY <1>3, <1>4, <1>9, StillInv

LEMMA StartFrameInv == StreamInv /\ StartFrame => StreamInv'
<1> SUFFICES ASSUME StreamInv, StartFrame PROVE StreamInv'
  OBVIOUS
<1> USE DEF StartFrame
<1>1. closed = "no" /\ Reading BY Open
<1>2. Types BY DEF StreamInv
<1>3. Still BY <1>1 DEF Still
<1>4. checked_len' \in Nat /\ Counted' BY <1>2 DEF Counted, Types
<1>5. cur' = cur /\ (Known' <=> Known) BY DEF cur, Known
<1>6. Websocket BY <1>1 DEF Reading, Phase
<1>7. CASE step = 0
  <2>1. AtFrame BY <1>6, <1>7 DEF Websocket, AtFrame, AtFrameHeader, AtPayload
  <2>2. AtFrame' BY <1>7, <2>1 DEF AtFrame, dataVars, wsVars
  <2> QED BY <1>3, <1>4, <1>6, <2>2, StillInv DEF Phase, Websocket, dataVars, wsVars
<1>8. CASE step # 0
  <2>1. AtPayload BY <1>6, <1>8 DEF Websocket, AtFrame, AtFrameHeader, AtPayload
  <2>2. AtPayload' BY <1>5, <1>8, <2>1 DEF AtPayload, dataVars, wsVars
  <2> QED BY <1>3, <1>4, <1>6, <2>2, StillInv DEF Phase, Websocket, dataVars, wsVars
<1> QED BY <1>7, <1>8

(* Steps that read n bytes of the message to the end of s.                  *)
Fills(n) ==
  /\ closed = "no" /\ n \in 0 .. Len(kernel) /\ Known /\ ~Stale /\ ~Stale'
  /\ taken + n <= Size(sent[cur]) /\ req_pos + com_len + n <= s_len
  /\ Read(n) /\ com_len' = com_len + n
  /\ UNCHANGED <<sent, wire, req_pos, req_len, s_len, func, wsVars, handed>>

LEMMA FillBytes ==
  ASSUME StreamInv, Reading, NEW n \in Nat, Fills(n)
  PROVE  /\ s' \in Seq(Byte) /\ Len(s') = Len(s) + n /\ Piece(s', cur, Len(head))
         /\ kernel' \in Seq(Byte) /\ Len(kernel') = Len(kernel) - n /\ Stream' /\ Unsplit'
<1>0. /\ n \in 0 .. Len(kernel) /\ taken + n <= Size(sent[cur])
      /\ req_pos + com_len + n <= s_len /\ com_len' = com_len + n
  BY DEF Fills
<1>1. /\ closed = "no" /\ Known /\ ~Stale /\ ~Stale'
      /\ s' = SubSeq(s, 1, req_pos + com_len) \o SubSeq(kernel, 1, n)
      /\ kernel' = Drop(kernel, n)
      /\ sent' = sent /\ wire' = wire /\ req_pos' = req_pos /\ req_len' = req_len
      /\ s_len' = s_len /\ func' = func /\ step' = step /\ head' = head /\ handed' = handed
  BY DEF Fills, Read, Drop, wsVars
<1>2. Types /\ Kinds /\ FitsBuffer /\ Closed BY DEF StreamInv
<1>3. /\ cur \in Nat /\ taken \in Nat /\ Len(head) \in Nat /\ Len(s) \in Nat /\ Len(kernel) \in Nat
  BY <1>2, Numbers
<1>4. /\ n \in Nat /\ req_pos \in Nat /\ com_len \in Nat /\ req_len \in Nat /\ s_len \in Nat
      /\ s \in Seq(Byte) /\ kernel \in Seq(Byte)
  BY <1>2, <1>3, <1>0 DEF Types
<1>5. /\ Len(s) = req_pos + com_len /\ taken = Len(head) + Len(s)
      /\ req_pos + req_len <= s_len
  BY <1>1, <1>2 DEF FitsBuffer, taken
<1>6. SubSeq(kernel, 1, n) \in Seq(Byte) /\ Len(SubSeq(kernel, 1, n)) = n
  BY <1>4, <1>0, TakeOf
<1>7. SubSeq(s, 1, req_pos + com_len) = s BY <1>4, <1>5, SubSeqFull
<1>8. s' \in Seq(Byte) /\ Len(s') = Len(s) + n
  <2>1. s' = s \o SubSeq(kernel, 1, n) BY <1>1, <1>7
  <2>2. /\ s \o SubSeq(kernel, 1, n) \in Seq(Byte)
        /\ Len(s \o SubSeq(kernel, 1, n)) = Len(s) + Len(SubSeq(kernel, 1, n))
    BY <1>4, <1>6, JoinOf
  <2> QED BY <1>6, <2>1, <2>2
<1>9. taken' = taken + n
  <2>1. taken' = Len(head') + Len(s') BY <1>1 DEF taken
  <2>2. head' = head BY <1>1
  <2>3. Len(s') = Len(s) + n /\ taken = Len(head) + Len(s) BY <1>5, <1>8
  <2>4. Len(head) \in Nat /\ Len(s) \in Nat BY <1>3
  <2> QED BY <2>1, <2>2, <2>3, <2>4
<1>10. /\ kernel' \in Seq(Byte) /\ Len(kernel') = Len(kernel) - n /\ Stream' /\ Unsplit'
       /\ Piece(SubSeq(kernel, 1, n), cur, taken)
  BY <1>1, <1>2, <1>9, <1>0, Reads DEF Reading
<1>11. Piece(s', cur, Len(head))
  <2>1. Piece(s, cur, Len(head)) BY <1>1 DEF Reading, Pieces
  <2>2. Piece(s \o SubSeq(kernel, 1, n), cur, Len(head))
    BY <1>3, <1>4, <1>5, <1>6, <1>10, <2>1, PieceJoin
  <2> QED BY <1>1, <1>7, <2>2
<1> QED BY <1>8, <1>10, <1>11

LEMMA FillInv ==
  ASSUME StreamInv, Reading, NEW n \in Nat, Fills(n), checked_len' \in Nat,
         closed' \in {"no", "too_large"},
         closed' = "no" => Phase' /\ Counted',
         closed' = "too_large" => pc' = "closed" /\ Refused
  PROVE  StreamInv'
<1>0. /\ n \in 0 .. Len(kernel) /\ taken + n <= Size(sent[cur])
      /\ req_pos + com_len + n <= s_len /\ com_len' = com_len + n
  BY DEF Fills
<1>1. /\ closed = "no" /\ Known /\ ~Stale /\ ~Stale'
      /\ sent' = sent /\ wire' = wire /\ req_pos' = req_pos /\ req_len' = req_len
      /\ s_len' = s_len /\ func' = func /\ step' = step /\ head' = head /\ handed' = handed
  BY DEF Fills, wsVars
<1>2. Types /\ Kinds /\ FitsBuffer /\ Closed BY DEF StreamInv
<1>4. /\ req_pos \in Nat /\ com_len \in Nat /\ req_len \in Nat /\ s_len \in Nat
  BY <1>2 DEF Types
<1>5. Len(s) = req_pos + com_len /\ req_pos + req_len <= s_len BY <1>1, <1>2 DEF FitsBuffer
<1>10. /\ s' \in Seq(Byte) /\ Len(s') = Len(s) + n /\ Piece(s', cur, Len(head))
       /\ kernel' \in Seq(Byte) /\ Stream' /\ Unsplit'
  BY FillBytes
<1>11. Types'
  <2>1. com_len' \in Nat BY <1>0, <1>4
  <2> QED BY <1>1, <1>2, <1>10, <2>1 DEF Types
<1>12. Kinds' BY <1>1, <1>2, KindsStep
<1>13. FitsBuffer'
  <2>1. req_pos + (com_len + n) <= s_len /\ Len(s') = req_pos + (com_len + n)
    BY <1>0, <1>4, <1>5, <1>10
  <2> QED BY <1>0, <1>1, <1>5, <2>1 DEF FitsBuffer
<1>14. Closed' BY <1>1, <1>2, ClosedStep
<1>15. Pieces'
  <2>1. Piece(head, cur, 0) BY DEF Reading, Pieces
  <2>2. cur' = cur BY <1>1 DEF cur
  <2> QED BY <1>1, <1>10, <2>1, <2>2 DEF Pieces
<1> QED BY <1>10, <1>11, <1>12, <1>13, <1>14, <1>15 DEF StreamInv, Reading

(* tst_work reads what is missing of a body, and no more.                   *)
LEMMA AutoReadInv == StreamInv /\ AutoRead => StreamInv'
<1> SUFFICES ASSUME StreamInv, AutoRead PROVE StreamInv'
  OBVIOUS
<1> DEFINE n == Least(Len(kernel), req_len - com_len)
<1>1. closed = "no" /\ Reading BY Open DEF AutoRead
<1>2. /\ Types /\ Len(kernel) \in Nat /\ req_len \in Nat /\ com_len \in Nat /\ req_pos \in Nat
      /\ Len(head) \in Nat /\ Len(s) \in Nat /\ s_len \in Nat
  BY Numbers DEF StreamInv, Types
<1>3. /\ pc = "work" /\ req_len > com_len /\ Read(n) /\ com_len' = com_len + n
      /\ com_len' >= req_len => checked_len' = 0 /\ pc' = "call"
      /\ ~(com_len' >= req_len) => checked_len' = n /\ pc' = "epoll"
      /\ UNCHANGED <<sent, wire, req_pos, req_len, s_len, user_data, func, wsVars, handed, closed>>
  BY DEF AutoRead
<1>4. n \in 0 .. Len(kernel) /\ n <= req_len - com_len /\ n \in Nat
  BY <1>2, <1>3 DEF Least
<1> HIDE DEF n
<1>5. checked_len' \in Nat /\ Counted' BY <1>2, <1>3, <1>4 DEF Counted
<1>6. cur' = cur /\ (Known' <=> Known) BY <1>3 DEF cur, Known
<1>7. Len(s) = req_pos + com_len /\ req_pos + req_len <= s_len BY <1>1 DEF StreamInv, FitsBuffer
<1>8. req_pos + com_len + n <= s_len BY <1>2, <1>4, <1>7
<1>9. CASE func = "none"
  <2>1. Http BY <1>1, <1>9 DEF Reading, Phase
  <2>2. Body /\ Known /\ head = <<>>
    BY <1>3, <2>1 DEF Http, AtHeader, Header, AtParse, AtRoute, AtBody, Body
  <2>3. /\ sent[cur].head \in Nat /\ sent[cur].body \in Nat
        /\ Size(sent[cur]) = sent[cur].head + sent[cur].body
    BY <1>2, <2>2, KnownMessage
  <2>4. ~Stale /\ ~Stale' BY <1>3, <1>9 DEF Stale
  <2>5. taken = sent[cur].head + com_len BY <1>2, <1>7, <2>2, <2>3, <2>4, EmptySeq DEF taken, Body
  <2>6. taken + n <= Size(sent[cur])
    <3>1. n <= sent[cur].body - com_len BY <1>4, <2>2 DEF Body
    <3> QED BY <1>2, <1>4, <2>3, <2>5, <3>1
  <2>7. Fills(n) BY <1>1, <1>3, <1>4, <1>8, <2>2, <2>4, <2>6 DEF Fills
  <2>8. AtBody'
    <3>1. Body' BY <1>3, <1>6, <2>2 DEF Body
    <3>2. com_len' >= req_len => com_len' = req_len BY <1>2, <1>3, <1>4
    <3>3. ~(com_len' >= req_len) => com_len' < req_len BY <1>2, <1>3, <1>4
    <3> QED BY <1>3, <3>1, <3>2, <3>3 DEF AtBody
  <2>9. Phase' BY <1>3, <1>9, <2>1, <2>8 DEF Phase, Http, wsVars
  <2> QED BY <1>1, <1>3, <1>4, <1>5, <2>7, <2>9, FillInv
<1>10. CASE func = "websocket"
  <2>1. Websocket BY <1>1, <1>10 DEF Reading, Phase
  <2>2. AtPayload BY <1>2, <1>3, <2>1 DEF Websocket, AtFrame, AtFrameHeader
  <2>3. Known /\ step = 1 /\ Len(head) = sent[cur].head /\ req_pos + req_len = sent[cur].body
    BY <1>3, <2>2 DEF AtPayload
  <2>4. /\ sent[cur].head \in Nat /\ sent[cur].body \in Nat
        /\ Size(sent[cur]) = sent[cur].head + sent[cur].body
    BY <1>2, <2>3, KnownMessage
  <2>5. ~Stale /\ ~Stale' BY <1>3, <2>3 DEF Stale, wsVars
  <2>6. taken = sent[cur].head + req_pos + com_len BY <1>2, <1>7, <2>3, <2>4, <2>5 DEF taken
  <2>7. taken + n <= Size(sent[cur])
    <3>1. n <= sent[cur].body - req_pos - com_len BY <1>2, <1>4, <2>3
    <3>2. PICK h, d \in Nat : h = sent[cur].head /\ d = sent[cur].body BY <2>4
    <3>3. n \in Nat /\ req_pos \in Nat /\ com_len \in Nat BY <1>2, <1>4
    <3>4. h + req_pos + com_len + n <= h + d BY <3>1, <3>2, <3>3
    <3> QED BY <2>4, <2>6, <3>2, <3>4
  <2>8. Fills(n) BY <1>1, <1>3, <1>4, <1>8, <2>3, <2>5, <2>7 DEF Fills
  <2>9. AtPayload'
    <3>1. com_len' >= req_len => com_len' = req_len BY <1>2, <1>3, <1>4
    <3>2. ~(com_len' >= req_len) => com_len' < req_len BY <1>2, <1>3, <1>4
    <3> QED BY <1>3, <1>6, <2>3, <3>1, <3>2 DEF AtPayload, wsVars
  <2>10. Phase' BY <1>3, <1>10, <2>1, <2>9 DEF Phase, Websocket, wsVars
  <2> QED BY <1>1, <1>3, <1>4, <1>5, <2>8, <2>10, FillInv
<1>11. func # "ami_event"
  <2>1. AtHeader => req_len = 0 BY DEF AtHeader, Header
  <2> QED BY <1>1, <1>2, <1>3, <2>1 DEF Reading, Phase, Manager
<1> QED BY <1>1, <1>9, <1>10, <1>11 DEF Reading, Phase

(* A header is read to its end, to the end of the buffer or of what was     *)
(* counted, whichever comes first.                                          *)
LEMMA UpToEnd ==
  ASSUME Types, Stream, Known, checked_len <= Len(kernel), NEW limit \in Nat,
         NEW z \in Nat \ {0}, taken + z = sent[cur].head
  PROVE  UpTo(limit) = Least(Least(limit, checked_len), z)
<1> DEFINE n == Least(limit, checked_len)
           E == {k \in 1 .. n : EndsHeader(kernel[k])}
<1>1. Len(kernel) \in Nat /\ checked_len \in Nat /\ taken \in Nat BY Numbers DEF Types
<1>2. n \in Nat /\ n <= Len(kernel) BY <1>1 DEF Least
<1> HIDE DEF n
<1>3. PICK h, d \in Nat : h = sent[cur].head /\ d = sent[cur].body /\ Size(sent[cur]) = h + d
  BY KnownMessage
<1>4. taken <= Size(sent[cur]) /\ taken + z <= Size(sent[cur]) BY <1>1, <1>3
<1>5. ASSUME NEW k \in 1 .. n, k <= z PROVE EndsHeader(kernel[k]) <=> k = z
  <2>1. k \in 1 .. Len(kernel) /\ taken + k <= Size(sent[cur]) BY <1>1, <1>2, <1>3, <1>5
  <2>2. kernel[k] = <<cur, taken + k>> BY <1>4, <2>1, NextArrived
  <2>3. taken + k = sent[cur].head <=> k = z BY <1>1, <1>3
  <2> QED BY <2>2, <2>3 DEF EndsHeader
<1>6. E \in SUBSET (1 .. n) OBVIOUS
<1>7. z <= n => z \in E
  <2> SUFFICES ASSUME z <= n PROVE z \in E
    OBVIOUS
  <2>1. z \in 1 .. n BY <1>2
  <2> QED BY <1>5, <2>1
<1>8. ASSUME NEW k \in E PROVE z <= k
  <2>1. k \in 1 .. n /\ EndsHeader(kernel[k]) OBVIOUS
  <2>2. k <= z => k = z BY <1>5, <2>1
  <2>3. k \in Nat BY <1>2, <2>1
  <2> QED BY <2>2, <2>3
<1> HIDE DEF E
<1>9. (IF E = {} THEN n ELSE CHOOSE k \in E : \A j \in E : k <= j) = Least(n, z)
  BY <1>2, <1>6, <1>7, <1>8, FirstEnd
<1> QED BY <1>9 DEF UpTo, E, n

(* The header is over with its last byte.                                   *)
LEMMA EndOf ==
  ASSUME Types, Known, NEW h \in Seq(Byte), Piece(h, cur, 0)
  PROVE  (h # <<>> /\ EndsHeader(h[Len(h)])) <=> Len(h) = sent[cur].head
<1>1. Len(h) \in Nat /\ (h = <<>> <=> Len(h) = 0) BY LenProperties, EmptySeq
<1>2. sent[cur].head \in Nat \ {0} BY KnownMessage
<1>3. CASE Len(h) = 0 BY <1>1, <1>2, <1>3
<1>4. CASE Len(h) > 0
  <2>1. Len(h) \in 1 .. Len(h) /\ 0 + Len(h) = Len(h) BY <1>1, <1>4
  <2>2. h[Len(h)] = <<cur, Len(h)>> BY <2>1 DEF Piece
  <2> QED BY <1>1, <1>4, <2>2 DEF EndsHeader
<1> QED BY <1>1, <1>3, <1>4

(* Where a header is read                                                   *)
LEMMA InHeaderFacts ==
  ASSUME StreamInv, Reading, AtHeader, head = <<>>, ~Stale, pc = "call"
  PROVE  /\ Known /\ checked_len <= Len(kernel) /\ taken = com_len /\ com_len < sent[cur].head
         /\ com_len = Len(s) /\ Len(head) = 0 /\ req_pos = 0 /\ req_len = 0
<1>1. Types /\ Stream BY DEF StreamInv, Reading
<1>2. Len(kernel) \in Nat /\ checked_len \in Nat /\ Len(s) \in Nat BY <1>1, Numbers DEF Types
<1>3. checked_len > 0 /\ checked_len <= Len(kernel) BY DEF AtHeader, Reading, Counted
<1>4. Len(kernel) > 0 BY <1>2, <1>3
<1>5. Known BY <1>1, <1>4, KnownByBytes
<1>6. /\ req_pos = 0 /\ req_len = 0 /\ com_len = Len(s)
      /\ com_len > 0 => com_len < sent[cur].head
  BY DEF AtHeader, Header
<1>7. Len(head) = 0 BY EmptySeq
<1>8. taken = com_len BY <1>2, <1>6, <1>7 DEF taken
<1>9. sent[cur].head \in Nat \ {0} BY <1>1, <1>5, KnownMessage
<1>10. com_len < sent[cur].head BY <1>2, <1>6, <1>9
<1> QED BY <1>3, <1>5, <1>6, <1>7, <1>8, <1>10

(* What a reader of a header takes from what has arrived.                   *)
LEMMA HeaderRead ==
  ASSUME StreamInv, Reading, AtHeader, head = <<>>, ~Stale, pc = "call",
         NEW limit \in Nat, NEW n, n = UpTo(limit)
  PROVE  /\ n \in Nat /\ n <= limit /\ n <= Len(kernel) /\ n \in 0 .. Len(kernel)
         /\ com_len + n <= sent[cur].head
<1>1. /\ Known /\ checked_len <= Len(kernel) /\ taken = com_len /\ com_len < sent[cur].head
  BY InHeaderFacts
<1>2. Types /\ Stream BY DEF StreamInv, Reading
<1>3. sent[cur].head \in Nat /\ com_len \in Nat /\ checked_len \in Nat /\ Len(kernel) \in Nat
  BY <1>1, <1>2, KnownMessage, Numbers DEF Types
<1>4. PICK z \in Nat \ {0} : com_len + z = sent[cur].head
  <2>1. sent[cur].head - com_len \in Nat \ {0} /\ com_len + (sent[cur].head - com_len) = sent[cur].head
    BY <1>1, <1>3
  <2> QED BY <2>1
<1>5. n = Least(Least(limit, checked_len), z) BY <1>1, <1>2, <1>4, UpToEnd
<1>6. n \in Nat /\ n <= limit /\ n <= checked_len /\ n <= z BY <1>3, <1>5 DEF Least
<1> QED BY <1>1, <1>3, <1>4, <1>6

(* The kind of the message that http() and ami_event() read                 *)
LEMMA KindOf ==
  ASSUME StreamInv, Reading, Known
  PROVE  /\ func = "none" => sent[cur].kind \in {"request", "upgrade"}
         /\ func = "ami_event" => sent[cur].kind = "manager"
         /\ func = "websocket" => sent[cur].kind = "frame"
<1>1. Types /\ Kinds /\ Phase BY DEF StreamInv, Reading
<1>2. cur \in DOMAIN sent /\ cur - 1 = Len(handed) BY <1>1, Numbers DEF Known, cur
<1>3. /\ sent[cur].kind = "manager" <=> func = "ami_event"
      /\ sent[cur].kind = "frame" <=> \E j \in 1 .. Len(handed) : sent[j].kind = "upgrade"
  BY <1>1, <1>2 DEF Kinds
<1>4. sent[cur].kind \in {"request", "upgrade", "frame", "manager"}
  BY <1>1, KnownMessage, MessageAssumption
<1> QED BY <1>1, <1>3, <1>4 DEF Phase, Http, Websocket

LEMMA ReadHeaderInv == StreamInv /\ ReadHeader => StreamInv'
<1> SUFFICES ASSUME StreamInv, ReadHeader PROVE StreamInv'
  OBVIOUS
<1>1. closed = "no" /\ Reading BY Open DEF ReadHeader
<1>2. PICK n : n = UpTo(s_len - req_pos - com_len) OBVIOUS
<1>3. /\ pc = "call" /\ func = "none" /\ checked_len > 0 /\ Read(n) /\ com_len' = com_len + n
      /\ req_pos + com_len' >= s_len => closed' = "too_large" /\ pc' = "closed"
      /\ ~(req_pos + com_len' >= s_len) => pc' = (IF Complete THEN "parse" ELSE "epoll") /\ closed' = closed
      /\ UNCHANGED <<sent, wire, req_pos, req_len, s_len, checked_len, user_data, func, wsVars, handed>>
  BY <1>2 DEF ReadHeader, Close
<1>4. Types /\ FitsBuffer BY DEF StreamInv
<1>5. Http BY <1>1, <1>3 DEF Reading, Phase
<1>6. AtHeader /\ head = <<>> BY <1>3, <1>5 DEF Http, AtParse, AtBody, AtRoute
<1>7. ~Stale /\ ~Stale' BY <1>3 DEF Stale
<1>8. /\ Known /\ taken = com_len /\ com_len < sent[cur].head
      /\ com_len = Len(s) /\ Len(head) = 0 /\ req_pos = 0 /\ req_len = 0
  BY <1>1, <1>3, <1>6, <1>7, InHeaderFacts
<1>9. s_len \in Nat /\ com_len \in Nat /\ checked_len \in Nat /\ com_len <= s_len
  BY <1>4, <1>8 DEF Types, FitsBuffer
<1>10. PICK limit \in Nat : limit = s_len - com_len /\ n = UpTo(limit)
  <2>1. s_len - com_len \in Nat /\ s_len - req_pos - com_len = s_len - com_len BY <1>8, <1>9
  <2> QED BY <1>2, <2>1
<1>11. /\ n \in Nat /\ n <= limit /\ n \in 0 .. Len(kernel) /\ com_len + n <= sent[cur].head
  BY <1>1, <1>3, <1>6, <1>7, <1>10, HeaderRead
<1>12. /\ sent[cur].head \in Nat \ {0} /\ sent[cur].body \in Nat
       /\ Size(sent[cur]) = sent[cur].head + sent[cur].body
  BY <1>4, <1>8, KnownMessage
<1>13. Fills(n)
  <2>1. taken + n <= Size(sent[cur]) BY <1>8, <1>9, <1>11, <1>12
  <2>2. req_pos + com_len + n <= s_len BY <1>8, <1>9, <1>10, <1>11
  <2> QED BY <1>1, <1>3, <1>7, <1>8, <1>11, <2>1, <2>2 DEF Fills
<1>14. s' \in Seq(Byte) /\ Len(s') = com_len + n /\ Piece(s', cur, 0)
  BY <1>1, <1>8, <1>11, <1>13, FillBytes
<1>15. Complete <=> com_len + n = sent[cur].head
  <2>1. (s' # <<>> /\ EndsHeader(s'[Len(s')])) <=> Len(s') = sent[cur].head
    BY <1>4, <1>8, <1>14, EndOf
  <2> QED BY <1>14, <2>1 DEF Complete
<1>16. cur' = cur /\ (Known' <=> Known) BY <1>3 DEF cur, Known
<1>17. CASE req_pos + com_len' >= s_len
  <2>1. sent[cur].head >= s_len0
    <3>1. com_len + n >= s_len /\ s_len = s_len0 BY <1>3, <1>5, <1>8, <1>9, <1>11, <1>17 DEF Http
    <3> QED BY <1>9, <1>11, <1>12, <3>1
  <2>2. sent[cur].kind # "frame" BY <1>1, <1>3, <1>8, KindOf
  <2>3. Refused BY <2>1, <2>2 DEF Refused
  <2> QED BY <1>1, <1>3, <1>9, <1>11, <1>13, <1>17, <2>3, FillInv
<1>18. CASE ~(req_pos + com_len' >= s_len)
  <2>1. Counted' BY <1>3, <1>18 DEF Counted
  <2>2. CASE com_len + n = sent[cur].head
    <3>1. AtParse' BY <1>3, <1>8, <1>15, <1>16, <1>18, <2>2 DEF AtParse
    <3>2. Phase' BY <1>3, <1>5, <3>1 DEF Phase, Http, wsVars
    <3> QED BY <1>1, <1>3, <1>9, <1>11, <1>13, <1>18, <2>1, <3>2, FillInv
  <2>3. CASE com_len + n # sent[cur].head
    <3>1. com_len + n < sent[cur].head BY <1>9, <1>11, <1>12, <2>3
    <3>2. AtHeader' BY <1>3, <1>8, <1>14, <1>15, <1>16, <1>18, <2>3, <3>1 DEF AtHeader, Header, Waiting
    <3>3. Phase' BY <1>3, <1>5, <3>2 DEF Phase, Http, wsVars
    <3> QED BY <1>1, <1>3, <1>9, <1>11, <1>13, <1>18, <2>1, <3>3, FillInv
  <2> QED BY <2>2, <2>3
<1> QED BY <1>17, <1>18

(* The length of the body is that of the message that is read.              *)
LEMMA FirstByte ==
  ASSUME Types, NEW h \in Seq(Byte), Piece(h, cur, 0), Len(h) > 0
  PROVE  h[1][1] = cur
<1>1. Len(h) \in Nat BY LenProperties
<1>2. 1 \in 1 .. Len(h) BY <1>1
<1> QED BY <1>2 DEF Piece

LEMMA ParseInv == StreamInv /\ Parse => StreamInv'
<1> SUFFICES ASSUME StreamInv, Parse PROVE StreamInv'
  OBVIOUS
<1>1. closed = "no" /\ Reading BY Open DEF Parse
<1>2. /\ pc = "parse"
      /\ UNCHANGED <<sent, wire, kernel, s, s_len, checked_len, func, wsVars, handed>>
  BY DEF Parse
<1>3. Types /\ FitsBuffer /\ Closed /\ Kinds BY DEF StreamInv
<1>4. func = "none" /\ Http /\ AtParse
  BY <1>1, <1>2 DEF Reading, Phase, Http, Manager, Websocket, AtHeader, AtParse, AtBody, AtRoute,
                    AtFrame, AtFrameHeader, AtPayload, Waiting
<1>5. Known /\ req_pos = 0 /\ req_len = 0 /\ com_len = sent[cur].head /\ head = <<>> /\ s_len = s_len0
  BY <1>4 DEF AtParse, Http
<1>6. PICK h \in Nat \ {0}, d \in Nat :
        h = sent[cur].head /\ d = sent[cur].body /\ Size(sent[cur]) = h + d
  BY <1>3, <1>5, KnownMessage
<1>7. Len(s) = h /\ h <= s_len /\ s_len \in Nat
  BY <1>1, <1>3, <1>5, <1>6 DEF FitsBuffer, Types
<1>8. ~Stale /\ ~Stale' BY <1>2, <1>4 DEF Stale
<1>9. Piece(s, cur, 0) BY <1>1, <1>5, <1>8, EmptySeq DEF Reading, Pieces
<1>10. ContentLength = d
  <2>1. s[1][1] = cur BY <1>3, <1>6, <1>7, <1>9, FirstByte DEF Types
  <2> QED BY <1>6, <2>1 DEF ContentLength
<1>11. cur' = cur /\ (Known' <=> Known) /\ taken' = taken /\ Kinds'
  BY <1>2, <1>3, KindsStep DEF cur, Known, taken, Stale, wsVars
<1>12. Stream' /\ Pieces' /\ Unsplit'
  BY <1>1, <1>2, <1>8, <1>11 DEF Stream, Pieces, Unsplit, InHeader, Reading, wsVars
<1>13. CASE d = 0 /\ pc' = "route" /\ UNCHANGED <<req_pos, req_len, com_len, closed>>
  <2>1. Types' BY <1>2, <1>3, <1>13 DEF Types, wsVars
  <2>2. FitsBuffer' BY <1>2, <1>3, <1>13 DEF FitsBuffer
  <2>3. Closed' BY <1>1, <1>2, <1>3, <1>13, ClosedStep
  <2>4. Counted' BY <1>13 DEF Counted
  <2>5. AtRoute' BY <1>2, <1>5, <1>6, <1>11, <1>13 DEF AtRoute
  <2>6. Phase' BY <1>2, <1>4, <2>5 DEF Phase, Http, wsVars
  <2> QED BY <1>11, <1>12, <2>1, <2>2, <2>3, <2>4, <2>6 DEF StreamInv, Reading
<1>14. CASE /\ d > 0 /\ d > s_len - com_len
            /\ closed' = "too_large" /\ pc' = "closed" /\ UNCHANGED <<req_pos, req_len, com_len>>
  <2>1. Types' BY <1>2, <1>3, <1>14 DEF Types, wsVars
  <2>2. FitsBuffer' BY <1>2, <1>3, <1>14 DEF FitsBuffer
  <2>3. Refused
    <3>1. sent[cur].kind # "frame" BY <1>1, <1>4, <1>5, KindOf
    <3>2. h + d > s_len BY <1>5, <1>6, <1>7, <1>14
    <3> QED BY <1>5, <1>6, <3>1, <3>2 DEF Refused
  <2>4. Closed' BY <1>1, <1>2, <1>3, <1>5, <1>14, <2>3, ClosedStep
  <2> QED BY <1>11, <1>14, <2>1, <2>2, <2>4 DEF StreamInv
<1>15. CASE /\ d > 0 /\ ~(d > s_len - com_len)
            /\ req_pos' = com_len /\ com_len' = 0 /\ req_len' = d
            /\ pc' = "epoll" /\ closed' = closed
  <2>1. req_pos' = h /\ h + d <= s_len BY <1>5, <1>6, <1>7, <1>15
  <2>2. Types' BY <1>2, <1>3, <1>6, <1>15, <2>1 DEF Types, wsVars
  <2>3. FitsBuffer' BY <1>2, <1>6, <1>7, <1>15, <2>1 DEF FitsBuffer
  <2>4. Closed' BY <1>1, <1>2, <1>3, <1>15, ClosedStep
  <2>5. Counted' BY <1>15 DEF Counted
  <2>6. AtBody' BY <1>2, <1>5, <1>6, <1>11, <1>15, <2>1 DEF AtBody, Body
  <2>7. Phase' BY <1>2, <1>4, <2>6 DEF Phase, Http, wsVars
  <2> QED BY <1>11, <1>12, <2>2, <2>3, <2>4, <2>5, <2>7 DEF StreamInv, Reading
<1> QED BY <1>10, <1>13, <1>14, <1>15 DEF Parse, TooLarge, Close

(* The kinds of the messages that were handed over, when one more is        *)
LEMMA HandedKinds ==
  ASSUME Types, Len(handed') = cur, sent' = sent
  PROVE  \A j \in 1 .. Len(handed') : j \in 1 .. Len(handed) \/ j = cur
<1>1. Len(handed) \in Nat /\ cur = Len(handed) + 1 BY Numbers DEF cur
<1> QED BY <1>1

LEMMA RouteInv == StreamInv /\ Route => StreamInv'
<1> SUFFICES ASSUME StreamInv, Route PROVE StreamInv'
  OBVIOUS
<1>1. closed = "no" /\ Reading BY Open DEF Route
<1>2. /\ pc = "route" /\ handed' = Append(handed, SubSeq(s, 1, req_pos + com_len))
      /\ UNCHANGED <<sent, wire, kernel, s_len, checked_len, wsVars>>
  BY DEF Route
<1>3. Types /\ FitsBuffer /\ Closed /\ Kinds BY DEF StreamInv
<1>4. func = "none" /\ Http /\ AtRoute
  BY <1>1, <1>2 DEF Reading, Phase, Http, Manager, Websocket, AtHeader, AtParse, AtBody, AtRoute,
                    AtFrame, AtFrameHeader, AtPayload, Waiting
<1>5. /\ Known /\ req_pos + com_len = Size(sent[cur]) /\ req_len = sent[cur].body
      /\ head = <<>> /\ step = 0 /\ s_len = s_len0
  BY <1>4 DEF AtRoute, Http
<1>6. /\ Len(s) = Size(sent[cur]) /\ s \in Seq(Byte) /\ req_pos \in Nat /\ com_len \in Nat
      /\ req_len \in Nat /\ s_len \in Nat /\ req_pos + com_len = Len(s)
  BY <1>1, <1>3, <1>5 DEF FitsBuffer, Types
<1>7. SubSeq(s, 1, req_pos + com_len) = s BY <1>6, SubSeqFull
<1>8. ~Stale BY <1>4 DEF Stale
<1>9. Piece(s, cur, 0) /\ taken = Size(sent[cur])
  <2>1. Len(head) = 0 /\ Len(s) \in Nat BY <1>3, <1>5, EmptySeq, Numbers
  <2>2. Piece(s, cur, 0) BY <1>1, <1>8, <2>1 DEF Reading, Pieces
  <2> QED BY <1>6, <1>8, <2>1, <2>2 DEF taken
<1>10. /\ handed' \in Seq(Seq(Byte)) /\ Len(handed') = cur /\ Len(handed') <= Len(sent)
       /\ HandedAsSent' /\ cur' = cur + 1
  BY <1>1, <1>2, <1>3, <1>5, <1>6, <1>7, <1>9, HandOver
<1>11. s[1][1] = cur
  <2>1. Len(s) > 0 BY <1>3, <1>5, <1>6, KnownMessage
  <2> QED BY <1>3, <1>6, <1>9, <2>1, FirstByte
<1>12. Unsplit' BY <1>1, <1>2 DEF Reading, Unsplit, InHeader
<1>13. wire' = wire /\ kernel' = kernel /\ head' = <<>> /\ step' = 0 /\ sent' = sent
  BY <1>2, <1>5 DEF wsVars
<1>14. Len(<<>>) = 0 /\ <<>> \in Seq(Byte) BY EmptySeq
<1>15. CASE /\ sent[cur].kind = "request" /\ Reset /\ pc' = "epoll"
            /\ func' = func /\ closed' = closed
  <2>1. s' = <<>> /\ req_pos' = 0 /\ req_len' = 0 /\ com_len' = 0 BY <1>15 DEF Reset
  <2>2. Types' BY <1>2, <1>3, <1>10, <1>13, <1>14, <2>1 DEF Types
  <2>3. FitsBuffer' BY <1>2, <1>6, <1>14, <2>1 DEF FitsBuffer
  <2>4. Kinds' BY <1>3, <1>13, <1>15, KindsStep
  <2>5. Closed' BY <1>1, <1>10, <1>13, <1>15 DEF Closed
  <2>6. taken' = 0 /\ ~Stale' BY <1>4, <1>13, <1>14, <1>15, <2>1 DEF taken, Stale
  <2>7. Stream' BY <1>1, <1>3, <1>5, <1>9, <1>10, <1>13, <2>6, NextMessage DEF Reading
  <2>8. Pieces' BY <1>13, <2>1, NoPiece DEF Pieces
  <2>9. Counted' BY <1>15 DEF Counted
  <2>10. AtHeader' BY <1>14, <1>15, <2>1 DEF AtHeader, Header, Waiting
  <2>11. \A j \in 1 .. Len(handed') : sent'[j].kind # "upgrade"
    BY <1>3, <1>4, <1>10, <1>13, <1>15, HandedKinds DEF Http
  <2>12. Phase' BY <1>2, <1>4, <1>5, <1>13, <1>15, <2>10, <2>11 DEF Phase, Http
  <2> QED BY <1>12, <2>2, <2>3, <2>4, <2>5, <2>7, <2>8, <2>9, <2>12 DEF StreamInv, Reading
<1>16. CASE /\ sent[cur].kind = "upgrade" /\ func' = "websocket" /\ pc' = "epoll"
            /\ UNCHANGED <<s, req_pos, req_len, com_len, closed>>
  <2>1. Types' BY <1>2, <1>3, <1>10, <1>13, <1>14, <1>16 DEF Types
  <2>2. FitsBuffer' BY <1>2, <1>3, <1>16 DEF FitsBuffer
  <2>3. Kinds' BY <1>3, <1>4, <1>13, <1>16, KindsStep
  <2>4. Closed' BY <1>1, <1>10, <1>13, <1>16 DEF Closed
  <2>5. taken' = 0 /\ Stale' BY <1>13, <1>14, <1>16 DEF taken, Stale
  <2>6. Stream' BY <1>1, <1>3, <1>5, <1>9, <1>10, <1>13, <2>5, NextMessage DEF Reading
  <2>7. Pieces' BY <1>13, <2>5, NoPiece DEF Pieces
  <2>8. Counted' BY <1>16 DEF Counted
  <2>9. AtFrame'
    <3>1. req_len = 0
      <4>1. sent[cur] \in Message BY <1>3, <1>5, KnownMessage
      <4> QED BY <1>5, <1>16, <4>1, MessageAssumption
    <3> QED BY <1>13, <1>16, <3>1 DEF AtFrame, Waiting
  <2>10. \E j \in 1 .. Len(handed') : sent'[j].kind = "upgrade"
    <3>1. cur \in 1 .. Len(handed') BY <1>3, <1>10, Numbers DEF cur
    <3> QED BY <1>13, <1>16, <3>1
  <2>11. Phase' BY <1>16, <2>9, <2>10 DEF Phase, Websocket
  <2> QED BY <1>12, <2>1, <2>2, <2>3, <2>4, <2>6, <2>7, <2>8, <2>11 DEF StreamInv, Reading
<1>17. CASE /\ closed' = "served" /\ pc' = "closed"
            /\ UNCHANGED <<func, s, req_pos, req_len, com_len>>
  <2>1. Types' BY <1>2, <1>3, <1>10, <1>13, <1>14, <1>17 DEF Types
  <2>2. FitsBuffer' BY <1>2, <1>3, <1>17 DEF FitsBuffer
  <2>3. Kinds' BY <1>3, <1>13, <1>17, KindsStep
  <2>4. Closed' BY <1>10, <1>13, <1>17 DEF Closed
  <2> QED BY <1>17, <2>1, <2>2, <2>3, <2>4 DEF StreamInv
<1> QED BY <1>11, <1>15, <1>16, <1>17 DEF Route, Close

(* ami_event hands a message over, or keeps what it has of it.              *)
LEMMA ReadMessageInv == StreamInv /\ ReadMessage => StreamInv'
<1> SUFFICES ASSUME StreamInv, ReadMessage PROVE StreamInv'
  OBVIOUS
<1>1. closed = "no" /\ Reading BY Open DEF ReadMessage
<1>2. PICK n : n = UpTo(s_len - com_len - 1) OBVIOUS
<1>3. PICK read : read = SubSeq(s, 1, com_len) \o SubSeq(kernel, 1, n) OBVIOUS
<1>4. /\ pc = "call" /\ func = "ami_event" /\ pc' = "epoll"
      /\ kernel' = Drop(kernel, n)
      /\ IF read # <<>> /\ EndsHeader(read[Len(read)])
         THEN handed' = Append(handed, read) /\ Reset
         ELSE s' = read /\ com_len' = com_len + n /\ UNCHANGED <<handed, req_pos, req_len>>
      /\ UNCHANGED <<sent, wire, s_len, checked_len, user_data, func, wsVars, closed>>
  BY <1>2, <1>3 DEF ReadMessage, Drop
<1>5. Types /\ FitsBuffer /\ Closed /\ Kinds BY DEF StreamInv
<1>6. Manager BY <1>1, <1>4 DEF Reading, Phase
<1>7. AtHeader /\ head = <<>> /\ step = 0 /\ com_len < s_len BY <1>6 DEF Manager
<1>8. ~Stale BY <1>4 DEF Stale
<1>9. /\ Known /\ taken = com_len /\ com_len < sent[cur].head
      /\ com_len = Len(s) /\ Len(head) = 0 /\ req_pos = 0 /\ req_len = 0
  BY <1>1, <1>4, <1>7, <1>8, InHeaderFacts
<1>10. s_len \in Nat /\ com_len \in Nat /\ checked_len \in Nat /\ s \in Seq(Byte) /\ kernel \in Seq(Byte)
  BY <1>5 DEF Types
<1>11. PICK limit \in Nat : limit = s_len - com_len - 1 /\ n = UpTo(limit)
  <2>1. s_len - com_len - 1 \in Nat BY <1>7, <1>10
  <2> QED BY <1>2, <2>1
<1>12. /\ n \in Nat /\ n <= limit /\ n \in 0 .. Len(kernel) /\ com_len + n <= sent[cur].head
  BY <1>1, <1>4, <1>7, <1>8, <1>11, HeaderRead
<1>13. /\ sent[cur] \in Message /\ sent[cur].head \in Nat \ {0}
       /\ Size(sent[cur]) = sent[cur].head + sent[cur].body
  BY <1>5, <1>9, KnownMessage
<1>14. sent[cur].kind = "manager" BY <1>1, <1>4, <1>9, KindOf
<1>15. Size(sent[cur]) = sent[cur].head
  <2>1. sent[cur].body = 0 BY <1>13, <1>14, MessageAssumption
  <2> QED BY <1>13, <2>1
<1>16. Piece(s, cur, 0) BY <1>1, <1>8, <1>9 DEF Reading, Pieces
<1>17. SubSeq(s, 1, com_len) = s BY <1>9, <1>10, SubSeqFull
<1>18. SubSeq(kernel, 1, n) \in Seq(Byte) /\ Len(SubSeq(kernel, 1, n)) = n BY <1>10, <1>12, TakeOf
<1>19. read \in Seq(Byte) /\ Len(read) = com_len + n
  <2>1. s \o SubSeq(kernel, 1, n) \in Seq(Byte)
        /\ Len(s \o SubSeq(kernel, 1, n)) = Len(s) + Len(SubSeq(kernel, 1, n))
    BY <1>10, <1>18, JoinOf
  <2> QED BY <1>3, <1>9, <1>17, <1>18, <2>1
<1>20. /\ sent \in Seq(Message) /\ wire \in Seq(Byte) /\ cur \in DOMAIN sent /\ cur \in Nat
       /\ Whole(sent, kernel \o wire) /\ Begins(sent, kernel \o wire, cur, com_len)
  BY <1>1, <1>5, <1>9, Numbers DEF Reading, Stream, Types, Known
<1>21. /\ kernel' \in Seq(Byte) /\ Whole(sent, kernel' \o wire)
       /\ Begins(sent, kernel' \o wire, cur, com_len + n)
       /\ Piece(SubSeq(kernel, 1, n), cur, com_len)
       /\ Len(kernel') > 0 => kernel'[Len(kernel')] = kernel[Len(kernel)]
       /\ Len(kernel') = Len(kernel) - n
  BY <1>4, <1>10, <1>12, <1>15, <1>20, ReadOf
<1>22. Piece(read, cur, 0)
  <2>1. com_len = 0 + Len(s) BY <1>9, <1>10
  <2>2. Piece(s \o SubSeq(kernel, 1, n), cur, 0)
    BY <1>10, <1>16, <1>18, <1>20, <1>21, <2>1, PieceJoin
  <2> QED BY <1>3, <1>17, <2>2
<1>23. (read # <<>> /\ EndsHeader(read[Len(read)])) <=> com_len + n = sent[cur].head
  <2>1. (read # <<>> /\ EndsHeader(read[Len(read)])) <=> Len(read) = sent[cur].head
    BY <1>5, <1>9, <1>19, <1>22, EndOf
  <2> QED BY <1>19, <2>1
<1>24. Unsplit'
  <2>1. Len(kernel) \in Nat BY <1>5, Numbers
  <2>2. Len(kernel') > 0 => Len(kernel) > 0 BY <1>12, <1>21, <2>1
  <2> QED BY <1>1, <1>4, <1>21, <2>2 DEF Reading, Unsplit, InHeader
<1>25. Counted' /\ Kinds' BY <1>4, <1>5, KindsStep DEF Counted
<1>26. sent' = sent /\ wire' = wire /\ head' = <<>> /\ step' = 0 /\ s_len' = s_len /\ ~Stale'
  BY <1>4, <1>7 DEF wsVars, Stale
<1>27. Len(<<>>) = 0 /\ <<>> \in Seq(Byte) BY EmptySeq
<1>28. CASE com_len + n = sent[cur].head
  <2>1. handed' = Append(handed, read) /\ s' = <<>> /\ req_pos' = 0 /\ req_len' = 0 /\ com_len' = 0
    BY <1>4, <1>23, <1>28 DEF Reset
  <2>2. /\ handed' \in Seq(Seq(Byte)) /\ Len(handed') = cur /\ Len(handed') <= Len(sent)
        /\ HandedAsSent' /\ cur' = cur + 1
    BY <1>1, <1>5, <1>9, <1>15, <1>19, <1>22, <1>26, <1>28, <2>1, HandOver
  <2>3. Types' BY <1>4, <1>5, <1>21, <1>26, <1>27, <2>1, <2>2 DEF Types
  <2>4. FitsBuffer' BY <1>10, <1>26, <1>27, <2>1 DEF FitsBuffer
  <2>5. Closed' BY <1>1, <1>4, <2>2 DEF Closed
  <2>6. taken' = 0 BY <1>26, <1>27, <2>1 DEF taken
  <2>7. Stream'
    <3>1. kernel' \o wire \in Seq(Byte) BY <1>20, <1>21, ConcatProperties
    <3>2. Begins(sent, kernel' \o wire, cur, Size(sent[cur])) BY <1>15, <1>21, <1>28
    <3>3. Begins(sent, kernel' \o wire, cur + 1, 0) BY <1>20, <3>1, <3>2, NextBegins
    <3> QED BY <1>21, <1>26, <2>2, <2>6, <3>3 DEF Stream
  <2>8. Pieces' BY <1>26, <2>1, NoPiece DEF Pieces
  <2>9. AtHeader' BY <1>4, <1>27, <2>1 DEF AtHeader, Header, Waiting
  <2>10. Phase'
    <3>1. com_len' < s_len' BY <1>7, <1>10, <1>26, <2>1
    <3> QED BY <1>4, <1>26, <2>9, <3>1 DEF Phase, Manager
  <2> QED BY <1>24, <1>25, <2>3, <2>4, <2>5, <2>7, <2>8, <2>10 DEF StreamInv, Reading
<1>29. CASE com_len + n # sent[cur].head
  <2>1. s' = read /\ com_len' = com_len + n /\ handed' = handed /\ req_pos' = 0 /\ req_len' = 0
    BY <1>4, <1>9, <1>23, <1>29
  <2>2. com_len + n \in Nat /\ com_len + n < s_len /\ com_len + n < sent[cur].head
    BY <1>10, <1>11, <1>12, <1>13, <1>29
  <2>3. cur' = cur /\ Known' BY <1>9, <1>26, <2>1 DEF cur, Known
  <2>4. Types' BY <1>4, <1>5, <1>19, <1>21, <1>26, <1>27, <2>1, <2>2 DEF Types
  <2>5. FitsBuffer' BY <1>10, <1>19, <1>26, <2>1, <2>2 DEF FitsBuffer
  <2>6. Closed' BY <1>1, <1>4, <1>5, <2>1, ClosedStep
  <2>7. taken' = com_len + n
    BY <1>19, <1>26, <1>27, <2>1, <2>2 DEF taken
  <2>8. Stream' BY <1>21, <1>26, <2>3, <2>7 DEF Stream
  <2>9. Pieces' BY <1>22, <1>26, <1>27, <2>1, <2>3, NoPiece DEF Pieces
  <2>10. AtHeader' BY <1>4, <1>19, <1>26, <2>1, <2>2, <2>3 DEF AtHeader, Header, Waiting
  <2>11. Phase' BY <1>4, <1>26, <2>1, <2>2, <2>10 DEF Phase, Manager
  <2> QED BY <1>24, <1>25, <2>4, <2>5, <2>6, <2>8, <2>9, <2>11 DEF StreamInv, Reading
<1> QED BY <1>28, <1>29

(* The header of a frame: two bytes, a longer length, a mask.               *)
LEMMA FrameHead ==
  ASSUME StreamInv, Reading, Known, func = "websocket"
  PROVE  /\ sent[cur].kind = "frame" /\ sent[cur].head \in {2, 4, 6, 8, 10, 14}
         /\ Extended(sent[cur]) \in Nat
         /\ sent[cur].head = 2 + Extended(sent[cur]) + (IF Masked(sent[cur]) THEN 4 ELSE 0)
<1>1. sent[cur].kind = "frame" BY KindOf
<1>2. sent[cur] \in Message BY KnownMessage DEF StreamInv
<1>3. sent[cur].head \in {2, 4, 6, 8, 10, 14} BY <1>1, <1>2, MessageAssumption
<1>4. PICK h \in {2, 4, 6, 8, 10, 14} : h = sent[cur].head BY <1>3
<1>5. Masked(sent[cur]) <=> h \in {6, 8, 14} BY <1>4 DEF Masked
<1>6. Extended(sent[cur]) = h - 2 - (IF h \in {6, 8, 14} THEN 4 ELSE 0) BY <1>4, <1>5 DEF Extended
<1>7. /\ h - 2 - (IF h \in {6, 8, 14} THEN 4 ELSE 0) \in Nat
      /\ h = 2 + (h - 2 - (IF h \in {6, 8, 14} THEN 4 ELSE 0)) + (IF h \in {6, 8, 14} THEN 4 ELSE 0)
  BY <1>4
<1> QED BY <1>1, <1>3, <1>4, <1>5, <1>6, <1>7

(* One of the reads of a frame's header                                     *)
HeadRead(n) ==
  /\ closed = "no" /\ func = "websocket" /\ step = 0 /\ Known /\ Len(kernel) > 0
  /\ Len(head) + n <= sent[cur].head
  /\ head' = head \o SubSeq(kernel, 1, Least(n, Len(kernel)))
  /\ kernel' = SubSeq(kernel, Least(n, Len(kernel)) + 1, Len(kernel))
  /\ Len(kernel) < n => handed' = Append(handed, head') /\ closed' = "garbled" /\ pc' = "closed"
  /\ ~(Len(kernel) < n) => handed' = handed /\ closed' = closed
  /\ UNCHANGED <<sent, wire, dataVars, checked_len, func, step>>

LEMMA HeadBytes ==
  ASSUME StreamInv, Reading, NEW n \in Nat, HeadRead(n), ~(Len(kernel) < n)
  PROVE  /\ head' \in Seq(Byte) /\ Len(head') = Len(head) + n /\ Piece(head', cur, 0)
         /\ kernel' \in Seq(Byte) /\ Stream' /\ Unsplit'
<1>1. /\ func = "websocket" /\ step = 0 /\ Known /\ func' = func /\ step' = step
      /\ sent' = sent /\ wire' = wire /\ handed' = handed
  BY DEF HeadRead
<1>2. Types /\ Stream /\ Unsplit BY DEF StreamInv, Reading
<1>3. /\ Len(kernel) \in Nat /\ Len(head) \in Nat /\ head \in Seq(Byte) /\ kernel \in Seq(Byte)
      /\ cur \in Nat
  BY <1>2, Numbers DEF Types
<1>4. Least(n, Len(kernel)) = n /\ n \in 0 .. Len(kernel) BY <1>3 DEF Least
<1>5. head' = head \o SubSeq(kernel, 1, n) /\ kernel' = Drop(kernel, n)
  BY <1>4 DEF HeadRead, Drop
<1>6. taken = Len(head) /\ taken' = Len(head') BY <1>1, <1>3, <1>5 DEF taken, Stale
<1>7. SubSeq(kernel, 1, n) \in Seq(Byte) /\ Len(SubSeq(kernel, 1, n)) = n BY <1>3, <1>4, TakeOf
<1>8. head' \in Seq(Byte) /\ Len(head') = Len(head) + n
  <2>1. /\ head \o SubSeq(kernel, 1, n) \in Seq(Byte)
        /\ Len(head \o SubSeq(kernel, 1, n)) = Len(head) + Len(SubSeq(kernel, 1, n))
    BY <1>3, <1>7, JoinOf
  <2> QED BY <1>5, <1>7, <2>1
<1>9. taken + n <= Size(sent[cur])
  <2>1. Len(head) + n <= sent[cur].head BY DEF HeadRead
  <2>2. /\ sent[cur].head \in Nat /\ sent[cur].body \in Nat
        /\ Size(sent[cur]) = sent[cur].head + sent[cur].body
    BY <1>1, <1>2, KnownMessage
  <2> QED BY <1>3, <1>6, <2>1, <2>2
<1>10. taken' = taken + n BY <1>6, <1>8
<1>11. /\ kernel' \in Seq(Byte) /\ Stream' /\ Unsplit' /\ Piece(SubSeq(kernel, 1, n), cur, Len(head))
  BY <1>1, <1>2, <1>4, <1>5, <1>6, <1>9, <1>10, Reads
<1>12. Piece(head', cur, 0)
  <2>1. Piece(head, cur, 0) /\ Len(head) = 0 + Len(head) BY <1>3 DEF Reading, Pieces
  <2>2. Piece(head \o SubSeq(kernel, 1, n), cur, 0) BY <1>3, <1>7, <1>11, <2>1, PieceJoin
  <2> QED BY <1>5, <2>2
<1> QED BY <1>8, <1>11, <1>12

(* A read that gets less than it asks for is of a header that was split.    *)
LEMMA ShortRead ==
  ASSUME StreamInv, Reading, NEW n \in Nat, HeadRead(n), Len(kernel) < n
  PROVE  SplitHeader
<1>1. func = "websocket" /\ step = 0 /\ Known /\ Len(kernel) > 0 /\ Len(head) + n <= sent[cur].head
  BY DEF HeadRead
<1>2. Types /\ Stream /\ Unsplit BY DEF StreamInv, Reading
<1>3. Len(kernel) \in Nat /\ Len(head) \in Nat BY <1>2, Numbers
<1>4. taken = Len(head) BY <1>1, <1>3 DEF taken, Stale
<1>5. PICK h, d \in Nat : h = sent[cur].head /\ d = sent[cur].body /\ Size(sent[cur]) = h + d
  BY <1>1, <1>2, KnownMessage
<1>6. /\ Len(kernel) \in 1 .. Len(kernel) /\ taken <= Size(sent[cur])
      /\ taken + Len(kernel) <= Size(sent[cur]) /\ Len(head) + Len(kernel) < h
  BY <1>1, <1>3, <1>4, <1>5
<1>7. kernel[Len(kernel)] = <<cur, taken + Len(kernel)>> BY <1>1, <1>2, <1>6, NextArrived
<1>8. sent[cur].kind = "frame" BY <1>1, FrameHead
<1>9. InHeader(kernel[Len(kernel)]) BY <1>4, <1>5, <1>6, <1>7, <1>8 DEF InHeader
<1> QED BY <1>1, <1>2, <1>9 DEF Unsplit

LEMMA HeadReadInv ==
  ASSUME StreamInv, Reading, NEW n \in Nat, HeadRead(n),
         ~(Len(kernel) < n) => Phase' /\ Counted'
  PROVE  StreamInv'
<1>1. /\ func' = func /\ step' = step /\ sent' = sent /\ wire' = wire /\ s' = s
      /\ req_pos' = req_pos /\ req_len' = req_len /\ com_len' = com_len /\ s_len' = s_len
      /\ checked_len' = checked_len /\ closed = "no" /\ func = "websocket" /\ step = 0
  BY DEF HeadRead, dataVars
<1>2. Types /\ Kinds /\ FitsBuffer /\ Closed BY DEF StreamInv
<1>3. Kinds' BY <1>1, <1>2, KindsStep
<1>4. CASE ~(Len(kernel) < n)
  <2>1. handed' = handed /\ closed' = closed BY <1>4 DEF HeadRead
  <2>2. /\ head' \in Seq(Byte) /\ Piece(head', cur, 0) /\ kernel' \in Seq(Byte) /\ Stream' /\ Unsplit'
    BY <1>4, HeadBytes
  <2>3. Types' BY <1>1, <1>2, <2>1, <2>2 DEF Types
  <2>4. FitsBuffer' BY <1>1, <1>2, <2>1 DEF FitsBuffer
  <2>5. Closed' BY <1>1, <1>2, <2>1, ClosedStep
  <2>6. Pieces' BY <1>1, <2>1, <2>2 DEF Pieces, Stale, cur
  <2> QED BY <1>3, <1>4, <2>2, <2>3, <2>4, <2>5, <2>6 DEF StreamInv, Reading
<1>5. CASE Len(kernel) < n
  <2>1. handed' = Append(handed, head') /\ closed' = "garbled" /\ pc' = "closed"
    BY <1>5 DEF HeadRead
  <2>2. /\ Len(kernel) \in Nat /\ head \in Seq(Byte) /\ kernel \in Seq(Byte)
        /\ handed \in Seq(Seq(Byte))
    BY <1>2, Numbers DEF Types
  <2>3. PICK k \in 0 .. Len(kernel) : k = Least(n, Len(kernel)) BY <1>5, <2>2 DEF Least
  <2>4. head' = head \o SubSeq(kernel, 1, k) /\ kernel' = Drop(kernel, k)
    BY <2>3 DEF HeadRead, Drop
  <2>5. SubSeq(kernel, 1, k) \in Seq(Byte) /\ kernel' \in Seq(Byte) BY <2>2, <2>4, TakeOf, DropOf
  <2>6. head' \in Seq(Byte) BY <2>2, <2>4, <2>5, ConcatProperties
  <2>7. handed' \in Seq(Seq(Byte)) BY <2>1, <2>2, <2>6, AppendProperties
  <2>8. Types' BY <1>1, <1>2, <2>5, <2>6, <2>7 DEF Types
  <2>9. FitsBuffer' BY <1>1, <1>2, <2>1 DEF FitsBuffer
  <2>10. Closed' BY <1>5, <2>1, ShortRead DEF Closed
  <2> QED BY <1>3, <2>1, <2>8, <2>9, <2>10 DEF StreamInv
<1> QED BY <1>4, <1>5

(* The head that was read is of the message.                                *)
LEMMA ReadStartInv == StreamInv /\ ReadStart => StreamInv'
<1> SUFFICES ASSUME StreamInv, ReadStart PROVE StreamInv'
  OBVIOUS
<1>1. closed = "no" /\ Reading BY Open DEF ReadStart
<1>2. pc = "start" /\ ReadPart(2, AfterStart) BY DEF ReadStart
<1>3. func = "websocket" /\ Websocket /\ AtFrame
  BY <1>1, <1>2 DEF Reading, Phase, Http, Manager, Websocket, AtHeader, AtParse, AtBody, AtRoute,
                    AtFrame, AtFrameHeader, AtPayload, Waiting
<1>4. Types /\ Stream BY <1>1 DEF StreamInv, Reading
<1>5. step = 0 /\ head = <<>> /\ req_len = 0 /\ Len(head) = 0 BY <1>3, EmptySeq DEF AtFrame
<1>6. Len(kernel) \in Nat /\ Len(kernel) > 0
  <2>1. Len(kernel) \in Nat /\ kernel \in Seq(Byte) BY <1>4, Numbers DEF Types
  <2> QED BY <1>2, <2>1, EmptySeq DEF ReadPart
<1>7. Known BY <1>4, <1>6, KnownByBytes
<1>8. /\ sent[cur].head \in {2, 4, 6, 8, 10, 14} /\ Extended(sent[cur]) \in Nat
      /\ sent[cur].head = 2 + Extended(sent[cur]) + (IF Masked(sent[cur]) THEN 4 ELSE 0)
  BY <1>1, <1>3, <1>7, FrameHead
<1>9. HeadRead(2)
  <2>1. Len(head) + 2 <= sent[cur].head BY <1>5, <1>8
  <2> QED BY <1>1, <1>2, <1>3, <1>5, <1>6, <1>7, <2>1 DEF HeadRead, ReadPart, Close
<1>10. ASSUME ~(Len(kernel) < 2) PROVE Phase' /\ Counted'
  <2>1. /\ pc' = AfterStart /\ handed' = handed /\ sent' = sent /\ func' = func /\ step' = step
        /\ req_len' = req_len
    BY <1>2, <1>10 DEF ReadPart, dataVars
  <2>2. head' \in Seq(Byte) /\ Len(head') = 2 /\ Piece(head', cur, 0)
    <3>1. Len(head') = Len(head) + 2 /\ head' \in Seq(Byte) /\ Piece(head', cur, 0)
      BY <1>1, <1>9, <1>10, HeadBytes
    <3> QED BY <1>5, <3>1
  <2>3. Frame = sent[cur]
    <3>1. head'[1][1] = cur BY <1>4, <2>2, FirstByte
    <3> QED BY <2>1, <3>1 DEF Frame
  <2>4. pc' = IF Extended(sent[cur]) > 0 THEN "extended"
              ELSE IF Masked(sent[cur]) THEN "mask" ELSE "payload"
    BY <2>1, <2>3 DEF AfterStart
  <2>5. cur' = cur /\ Known' BY <1>7, <2>1 DEF cur, Known
  <2>6. AtFrameHeader'
    <3>1. CASE Extended(sent[cur]) > 0
      BY <1>5, <2>1, <2>2, <2>4, <2>5, <3>1 DEF AtFrameHeader
    <3>2. CASE Extended(sent[cur]) = 0 /\ Masked(sent[cur])
      BY <1>5, <2>1, <2>2, <2>4, <2>5, <3>2 DEF AtFrameHeader
    <3>3. CASE Extended(sent[cur]) = 0 /\ ~Masked(sent[cur])
      <4>1. sent[cur].head = 2 BY <1>8, <3>3
      <4> QED BY <1>5, <2>1, <2>2, <2>4, <2>5, <3>3, <4>1 DEF AtFrameHeader
    <3> QED BY <1>8, <3>1, <3>2, <3>3
  <2>7. Counted' BY <2>4 DEF Counted
  <2> QED BY <1>3, <2>1, <2>6, <2>7 DEF Phase, Websocket
<1> QED BY <1>1, <1>9, <1>10, HeadReadInv

LEMMA ReadExtendedInv == StreamInv /\ ReadExtended => StreamInv'
<1> SUFFICES ASSUME StreamInv, ReadExtended PROVE StreamInv'
  OBVIOUS
<1>1. closed = "no" /\ Reading BY Open DEF ReadExtended
<1>2. /\ pc = "extended"
      /\ ReadPart(Part(sent[head[1][1]], "extended"), IF Masked(Frame) THEN "mask" ELSE "payload")
  BY DEF ReadExtended
<1>3. func = "websocket" /\ Websocket /\ AtFrameHeader
  BY <1>1, <1>2 DEF Reading, Phase, Http, Manager, Websocket, AtHeader, AtParse, AtBody, AtRoute,
                    AtFrame, AtFrameHeader, AtPayload, Waiting
<1>4. Types /\ Stream BY <1>1 DEF StreamInv, Reading
<1>5. step = 0 /\ Known /\ Len(head) = 2 /\ req_len = 0 BY <1>2, <1>3 DEF AtFrameHeader
<1>6. Len(kernel) \in Nat /\ Len(kernel) > 0
  <2>1. Len(kernel) \in Nat /\ kernel \in Seq(Byte) BY <1>4, Numbers DEF Types
  <2> QED BY <1>2, <2>1, EmptySeq DEF ReadPart
<1>7. head[1][1] = cur
  <2>1. Len(head) > 0 /\ head \in Seq(Byte) /\ Piece(head, cur, 0)
    BY <1>1, <1>4, <1>5 DEF Types, Reading, Pieces
  <2> QED BY <1>4, <2>1, FirstByte
<1>8. PICK n \in Nat : n = Extended(sent[cur])
                       /\ sent[cur].head = 2 + n + (IF Masked(sent[cur]) THEN 4 ELSE 0)
  BY <1>1, <1>3, <1>5, FrameHead
<1>9. ReadPart(n, IF Masked(Frame) THEN "mask" ELSE "payload") BY <1>2, <1>7, <1>8 DEF Part
<1>10. HeadRead(n)
  <2>1. Len(head) + n <= sent[cur].head BY <1>5, <1>8
  <2> QED BY <1>1, <1>3, <1>5, <1>6, <1>9, <2>1 DEF HeadRead, ReadPart, Close
<1>11. ASSUME ~(Len(kernel) < n) PROVE Phase' /\ Counted'
  <2>1. /\ pc' = (IF Masked(Frame) THEN "mask" ELSE "payload")
        /\ handed' = handed /\ sent' = sent /\ func' = func /\ step' = step /\ req_len' = req_len
    BY <1>9, <1>11 DEF ReadPart, dataVars
  <2>2. head' \in Seq(Byte) /\ Len(head') = 2 + n /\ Piece(head', cur, 0)
    <3>1. Len(head') = Len(head) + n /\ head' \in Seq(Byte) /\ Piece(head', cur, 0)
      BY <1>1, <1>10, <1>11, HeadBytes
    <3> QED BY <1>5, <3>1
  <2>3. Frame = sent[cur]
    <3>1. Len(head') > 0 BY <2>2
    <3>2. head'[1][1] = cur BY <1>4, <2>2, <3>1, FirstByte
    <3> QED BY <2>1, <3>2 DEF Frame
  <2>4. cur' = cur /\ Known' BY <1>5, <2>1 DEF cur, Known
  <2>5. AtFrameHeader'
    <3>1. CASE Masked(sent[cur])
      BY <1>5, <1>8, <2>1, <2>2, <2>3, <2>4, <3>1 DEF AtFrameHeader
    <3>2. CASE ~Masked(sent[cur])
      <4>1. sent[cur].head = 2 + n BY <1>8, <3>2
      <4> QED BY <1>5, <2>1, <2>2, <2>3, <2>4, <3>2, <4>1 DEF AtFrameHeader
    <3> QED BY <3>1, <3>2
  <2>6. Counted' BY <2>1 DEF Counted
  <2> QED BY <1>3, <2>1, <2>5, <2>6 DEF Phase, Websocket
<1> QED BY <1>1, <1>10, <1>11, HeadReadInv

LEMMA ReadMaskInv == StreamInv /\ ReadMask => StreamInv'
<1> SUFFICES ASSUME StreamInv, ReadMask PROVE StreamInv'
  OBVIOUS
<1>1. closed = "no" /\ Reading BY Open DEF ReadMask
<1>2. pc = "mask" /\ ReadPart(4, "payload") BY DEF ReadMask, Part
<1>3. func = "websocket" /\ Websocket /\ AtFrameHeader
  BY <1>1, <1>2 DEF Reading, Phase, Http, Manager, Websocket, AtHeader, AtParse, AtBody, AtRoute,
                    AtFrame, AtFrameHeader, AtPayload, Waiting
<1>4. Types /\ Stream BY <1>1 DEF StreamInv, Reading
<1>5. /\ step = 0 /\ Known /\ Len(head) = 2 + Extended(sent[cur]) /\ Masked(sent[cur]) /\ req_len = 0
  BY <1>2, <1>3 DEF AtFrameHeader
<1>6. Len(kernel) \in Nat /\ Len(kernel) > 0
  <2>1. Len(kernel) \in Nat /\ kernel \in Seq(Byte) BY <1>4, Numbers DEF Types
  <2> QED BY <1>2, <2>1, EmptySeq DEF ReadPart
<1>7. Extended(sent[cur]) \in Nat /\ sent[cur].head = 2 + Extended(sent[cur]) + 4
  BY <1>1, <1>3, <1>5, FrameHead
<1>8. HeadRead(4)
  <2>1. Len(head) + 4 <= sent[cur].head BY <1>5, <1>7
  <2> QED BY <1>1, <1>2, <1>3, <1>5, <1>6, <2>1 DEF HeadRead, ReadPart, Close
<1>9. ASSUME ~(Len(kernel) < 4) PROVE Phase' /\ Counted'
  <2>1. /\ pc' = "payload" /\ handed' = handed /\ sent' = sent /\ func' = func /\ step' = step
        /\ req_len' = req_len
    BY <1>2, <1>9 DEF ReadPart, dataVars
  <2>2. Len(head') = sent[cur].head
    <3>1. Len(head') = Len(head) + 4 BY <1>1, <1>8, <1>9, HeadBytes
    <3> QED BY <1>5, <1>7, <3>1
  <2>3. cur' = cur /\ Known' BY <1>5, <2>1 DEF cur, Known
  <2>4. AtFrameHeader' BY <1>5, <2>1, <2>2, <2>3 DEF AtFrameHeader
  <2>5. Counted' BY <2>1 DEF Counted
  <2> QED BY <1>3, <2>1, <2>4, <2>5 DEF Phase, Websocket
<1> QED BY <1>1, <1>8, <1>9, HeadReadInv

(* The part of the payload that is there is put to the front of s.          *)
LEMMA PayloadInv == StreamInv /\ Payload => StreamInv'
<1> SUFFICES ASSUME StreamInv, Payload PROVE StreamInv'
  OBVIOUS
<1>1. closed = "no" /\ Reading BY Open DEF Payload
<1>2. /\ pc = "payload"
      /\ UNCHANGED <<sent, wire, checked_len, user_data, func, head, handed>>
  BY DEF Payload
<1>3. func = "websocket" /\ Websocket /\ AtFrameHeader
  BY <1>1, <1>2 DEF Reading, Phase, Http, Manager, Websocket, AtHeader, AtParse, AtBody, AtRoute,
                    AtFrame, AtFrameHeader, AtPayload, Waiting
<1>4. Types /\ FitsBuffer /\ Closed /\ Kinds /\ Stream /\ Unsplit
  BY <1>1 DEF StreamInv, Reading
<1>5. step = 0 /\ Known /\ Len(head) = sent[cur].head /\ req_len = 0 BY <1>2, <1>3 DEF AtFrameHeader
<1>6. PICK h \in Nat \ {0}, d \in Nat :
        h = sent[cur].head /\ d = sent[cur].body /\ Size(sent[cur]) = h + d
  BY <1>4, <1>5, KnownMessage
<1>7. head[1][1] = cur
  <2>1. Len(head) > 0 /\ head \in Seq(Byte) /\ Piece(head, cur, 0)
    BY <1>1, <1>4, <1>5, <1>6 DEF Types, Reading, Pieces
  <2> QED BY <1>4, <2>1, FirstByte
<1>8. Kinds' /\ cur' = cur /\ (Known' <=> Known) BY <1>2, <1>4, KindsStep DEF cur, Known
<1>9. CASE TooLong(sent[cur])
  <2>1. closed' = "too_large" /\ pc' = "closed" /\ UNCHANGED <<kernel, dataVars, step>>
    BY <1>7, <1>9 DEF Payload, Close
  <2>2. Types' BY <1>2, <1>4, <2>1 DEF Types, dataVars
  <2>3. FitsBuffer' BY <1>4, <2>1 DEF FitsBuffer, dataVars
  <2>4. Refused
    <3>1. sent[cur].kind = "frame" BY <1>1, <1>3, <1>5, FrameHead
    <3> QED BY <1>9, <3>1 DEF Refused, TooLong
  <2>5. Closed' BY <1>1, <1>2, <1>4, <1>5, <2>1, <2>4, ClosedStep
  <2> QED BY <1>8, <2>1, <2>2, <2>3, <2>5 DEF StreamInv
<1>10. CASE ~TooLong(sent[cur])
  <2>1. PICK n : n = Least(d, Len(kernel)) OBVIOUS
  <2>2. /\ step' = 1 /\ s_len' = IF d > s_len THEN d ELSE s_len
        /\ s' = SubSeq(kernel, 1, n) /\ kernel' = Drop(kernel, n)
        /\ n < d => req_pos' = n /\ req_len' = d - n /\ com_len' = 0 /\ pc' = "epoll"
        /\ ~(n < d) => req_pos' = 0 /\ req_len' = 0 /\ com_len' = n /\ pc' = "unmask"
        /\ closed' = closed
    BY <1>6, <1>7, <1>10, <2>1 DEF Payload, Rest, Drop
  <2>3. Len(kernel) \in Nat /\ kernel \in Seq(Byte) /\ Len(head) \in Nat /\ s_len \in Nat
    BY <1>4, Numbers DEF Types
  <2>4. n \in 0 .. Len(kernel) /\ n \in Nat /\ n <= d BY <1>6, <2>1, <2>3 DEF Least
  <2>5. SubSeq(kernel, 1, n) \in Seq(Byte) /\ Len(SubSeq(kernel, 1, n)) = n BY <2>3, <2>4, TakeOf
  <2>6. s' \in Seq(Byte) /\ Len(s') = n BY <2>2, <2>5
  <2>7. taken = Len(head) BY <1>3, <1>5, <2>3 DEF taken, Stale
  <2>8. taken' = taken + n /\ ~Stale' BY <1>2, <2>2, <2>6, <2>7 DEF taken, Stale
  <2>9. taken + n <= Size(sent[cur]) BY <1>5, <1>6, <2>4, <2>7
  <2>10. sent' = sent /\ wire' = wire /\ handed' = handed /\ head' = head /\ func' = func BY <1>2
  <2>11. /\ kernel' \in Seq(Byte) /\ Stream' /\ Unsplit'
         /\ Piece(SubSeq(kernel, 1, n), cur, taken)
    BY <1>4, <1>5, <2>2, <2>4, <2>8, <2>9, <2>10, Reads
  <2>12. Pieces'
    <3>1. Piece(head, cur, 0) BY <1>1 DEF Reading, Pieces
    <3> QED BY <1>8, <2>2, <2>7, <2>10, <2>11, <3>1 DEF Pieces
  <2>13. s_len' \in Nat /\ d <= s_len' BY <1>6, <2>2, <2>3
  <2>14. CASE n < d
    <3>1. req_pos' = n /\ req_len' = d - n /\ com_len' = 0 /\ pc' = "epoll" BY <2>2, <2>14
    <3>2. d - n \in Nat /\ n + (d - n) = d /\ 0 < d - n /\ n + 0 = n BY <1>6, <2>4, <2>14
    <3>3. Types' BY <1>2, <1>4, <2>4, <2>6, <2>10, <2>11, <2>13, <3>1, <3>2 DEF Types
    <3>4. n <= s_len' BY <1>6, <2>4, <2>13
    <3>5. FitsBuffer' BY <2>6, <2>13, <3>1, <3>2, <3>4 DEF FitsBuffer
    <3>6. Closed' BY <1>1, <1>4, <2>2, <2>10, ClosedStep
    <3>7. Counted' BY <3>1 DEF Counted
    <3>8. AtPayload' BY <1>5, <1>6, <1>8, <2>2, <2>10, <3>1, <3>2 DEF AtPayload
    <3>9. Phase' BY <1>3, <2>10, <3>8 DEF Phase, Websocket
    <3> QED BY <1>8, <2>11, <2>12, <3>3, <3>5, <3>6, <3>7, <3>9 DEF StreamInv, Reading
  <2>15. CASE ~(n < d)
    <3>1. req_pos' = 0 /\ req_len' = 0 /\ com_len' = n /\ pc' = "unmask" BY <2>2, <2>15
    <3>2. n = d /\ 0 + n = n /\ 0 + 0 = 0 BY <1>6, <2>4, <2>15
    <3>3. Types' BY <1>2, <1>4, <2>4, <2>6, <2>10, <2>11, <2>13, <3>1 DEF Types
    <3>4. n <= s_len' /\ 0 <= s_len' BY <2>13, <3>2
    <3>5. FitsBuffer' BY <2>6, <3>1, <3>2, <3>4 DEF FitsBuffer
    <3>6. Closed' BY <1>1, <1>4, <2>2, <2>10, ClosedStep
    <3>7. Counted' BY <3>1 DEF Counted
    <3>8. AtPayload' BY <1>5, <1>6, <1>8, <2>2, <2>10, <3>1, <3>2 DEF AtPayload
    <3>9. Phase' BY <1>3, <2>10, <3>8 DEF Phase, Websocket
    <3> QED BY <1>8, <2>11, <2>12, <3>3, <3>5, <3>6, <3>7, <3>9 DEF StreamInv, Reading
  <2> QED BY <2>14, <2>15
<1> QED BY <1>9, <1>10

(* A frame is handed over when its payload is there.                        *)
LEMMA UnmaskInv == StreamInv /\ Unmask => StreamInv'
<1> SUFFICES ASSUME StreamInv, Unmask PROVE StreamInv'
  OBVIOUS
<1>1. closed = "no" /\ Reading BY Open DEF Unmask
<1>2. /\ pc = "unmask" /\ step' = 0 /\ head' = <<>>
      /\ s' = <<>> /\ req_pos' = 0 /\ req_len' = 0 /\ com_len' = 0
      /\ UNCHANGED <<sent, wire, kernel, s_len, checked_len, user_data, func>>
  BY DEF Unmask, Reset
<1>3. func = "websocket" /\ Websocket /\ AtPayload
  BY <1>1, <1>2 DEF Reading, Phase, Http, Manager, Websocket, AtHeader, AtParse, AtBody, AtRoute,
                    AtFrame, AtFrameHeader, AtPayload, Waiting
<1>4. Types /\ FitsBuffer /\ Closed /\ Kinds /\ Stream
  BY <1>1 DEF StreamInv, Reading
<1>5. step = 1 /\ Known /\ Len(head) = sent[cur].head /\ req_pos + com_len = sent[cur].body
  BY <1>2, <1>3 DEF AtPayload
<1>6. PICK h \in Nat \ {0}, d \in Nat :
        h = sent[cur].head /\ d = sent[cur].body /\ Size(sent[cur]) = h + d
  BY <1>4, <1>5, KnownMessage
<1>7. /\ Len(s) = d /\ s \in Seq(Byte) /\ head \in Seq(Byte) /\ s_len \in Nat /\ cur \in Nat
      /\ Len(head) = h
  BY <1>1, <1>4, <1>5, <1>6, Numbers DEF FitsBuffer, Types
<1>8. ~Stale BY <1>5 DEF Stale
<1>9. Piece(head, cur, 0) /\ Piece(s, cur, Len(head)) BY <1>1, <1>8 DEF Reading, Pieces
<1>10. head[1][1] = cur
  <2>1. Len(head) > 0 BY <1>6, <1>7
  <2> QED BY <1>4, <1>7, <1>9, <2>1, FirstByte
<1>11. SubSeq(s, 1, d) = s BY <1>6, <1>7, SubSeqFull
<1>12. handed' = Append(handed, head \o s) BY <1>6, <1>10, <1>11 DEF Unmask
<1>13. head \o s \in Seq(Byte) /\ Len(head \o s) = Size(sent[cur])
  <2>1. head \o s \in Seq(Byte) /\ Len(head \o s) = Len(head) + Len(s) BY <1>7, JoinOf
  <2> QED BY <1>6, <1>7, <2>1
<1>14. Piece(head \o s, cur, 0)
  <2>1. Len(head) = 0 + Len(head) BY <1>6, <1>7
  <2> QED BY <1>7, <1>9, <2>1, PieceJoin
<1>15. taken = Size(sent[cur]) BY <1>6, <1>7, <1>8 DEF taken
<1>16. /\ handed' \in Seq(Seq(Byte)) /\ Len(handed') = cur /\ Len(handed') <= Len(sent)
       /\ HandedAsSent' /\ cur' = cur + 1
  BY <1>1, <1>2, <1>4, <1>5, <1>12, <1>13, <1>14, HandOver
<1>17. Len(<<>>) = 0 /\ <<>> \in Seq(Byte) BY EmptySeq
<1>18. Types' BY <1>2, <1>4, <1>16, <1>17 DEF Types
<1>19. FitsBuffer' BY <1>2, <1>7, <1>17 DEF FitsBuffer
<1>20. Kinds' BY <1>2, <1>4, KindsStep
<1>21. CASE closed' = closed /\ pc' = "epoll"
  <2>1. Closed' BY <1>1, <1>2, <1>16, <1>21 DEF Closed
  <2>2. taken' = 0 BY <1>2, <1>17 DEF taken
  <2>3. Stream' BY <1>2, <1>4, <1>5, <1>15, <1>16, <2>2, NextMessage
  <2>4. Pieces' BY <1>2, NoPiece DEF Pieces
  <2>5. Unsplit' BY <1>1, <1>2 DEF Reading, Unsplit, InHeader
  <2>6. Counted' BY <1>21 DEF Counted
  <2>7. AtFrame' BY <1>2, <1>21 DEF AtFrame, Waiting
  <2>8. \E j \in 1 .. Len(handed') : sent'[j].kind = "upgrade"
    <3>1. PICK j \in 1 .. Len(handed) : sent[j].kind = "upgrade" BY <1>3 DEF Websocket
    <3>2. Len(handed) \in Nat /\ cur = Len(handed) + 1 BY <1>4, Numbers DEF cur
    <3>3. j \in 1 .. Len(handed') BY <1>16, <3>2
    <3> QED BY <1>2, <3>1, <3>3
  <2>9. Phase' BY <1>2, <1>3, <2>7, <2>8 DEF Phase, Websocket
  <2> QED BY <1>18, <1>19, <1>20, <2>1, <2>3, <2>4, <2>5, <2>6, <2>9 DEF StreamInv, Reading
<1>22. CASE closed' = "served" /\ pc' = "closed"
  <2>1. Closed' BY <1>2, <1>16, <1>22 DEF Closed
  <2> QED BY <1>18, <1>19, <1>20, <1>22, <2>1 DEF StreamInv
<1> QED BY <1>21, <1>22 DEF Unmask, Close

LEMMA StutterInv == StreamInv /\ UNCHANGED vars => StreamInv'
<1> SUFFICES ASSUME StreamInv, UNCHANGED vars PROVE StreamInv'
  OBVIOUS
<1>1. /\ sent' = sent /\ wire' = wire /\ kernel' = kernel /\ s' = s /\ req_pos' = req_pos
      /\ req_len' = req_len /\ com_len' = com_len /\ s_len' = s_len /\ checked_len' = checked_len
      /\ func' = func /\ step' = step /\ head' = head /\ pc' = pc /\ handed' = handed
      /\ closed' = closed
  BY DEF vars, dataVars, wsVars
<1>2. Types' /\ Kinds' /\ FitsBuffer' BY <1>1, KindsStep DEF StreamInv, Types, FitsBuffer
<1>3. cur' = cur /\ taken' = taken /\ (Stale' <=> Stale) /\ (Known' <=> Known)
  BY <1>1 DEF cur, taken, Stale, Known
<1>4. Closed'
  <2>1. \A i : Bytes(i)' = Bytes(i) BY <1>1 DEF Bytes
  <2> QED BY <1>1, <1>3, <2>1 DEF StreamInv, Closed, HandedAsSent, Refused
<1>5. ASSUME closed = "no" PROVE Reading'
  <2>1. Reading BY <1>5 DEF StreamInv
  <2>2. Stream' /\ Pieces' /\ Unsplit' /\ Counted'
    BY <1>1, <1>3, <2>1 DEF Reading, Stream, Pieces, Unsplit, InHeader, Counted
  <2>3. (AtHeader => AtHeader') /\ (AtParse => AtParse') /\ (AtBody => AtBody') /\ (AtRoute => AtRoute')
    BY <1>1, <1>3 DEF AtHeader, Header, Waiting, AtParse, AtBody, Body, AtRoute
  <2>4. (AtFrame => AtFrame') /\ (AtFrameHeader => AtFrameHeader') /\ (AtPayload => AtPayload')
    BY <1>1, <1>3 DEF AtFrame, AtFrameHeader, AtPayload, Waiting
  <2>5. Phase' BY <1>1, <2>1, <2>3, <2>4 DEF Reading, Phase, Http, Manager, Websocket
  <2> QED BY <2>2, <2>5 DEF Reading
<1> QED BY <1>1, <1>2, <1>4, <1>5 DEF StreamInv

(* Each step of the network and of the server keeps the readers in step     *)
(* with the stream: what is unread begins where the reader stands           *)
(* (tst.cpp:551-588, http.cpp:131-175, websocket.cpp:186-271).              *)
THEOREM StreamInvariant == Spec => []StreamInv
<1>1. Init => StreamInv BY InitInv
<1>2. StreamInv /\ [Next]_vars => StreamInv'
  BY SendInv, ArriveInv, EventInv, AutoReadInv, NoAutoReadInv, ReadHeaderInv, BodyCompleteInv,
     ParseInv, RouteInv, ReadMessageInv, StartFrameInv, ReadStartInv, ReadExtendedInv, ReadMaskInv,
     PayloadInv, UnmaskInv, StutterInv
  DEF Next, Server, tst_work, http, websocket
<1> QED BY <1>1, <1>2, PTL DEF Spec

----------------------------------------------------------------------------
(* The results                                                              *)

(* Whatever is sent, however TCP cuts it, and however large the buffer is,  *)
(* handlers get the messages whole, each once and in order: as long as no   *)
(* frame was parsed from a part of its header, which websocket() does not   *)
(* look for ...                                                             *)
THEOREM HandedUnlessGarbled == Spec => [](closed # "garbled" => HandedAsSent)
<1>1. StreamInv => (closed # "garbled" => HandedAsSent) BY DEF StreamInv, Closed
<1> QED BY <1>1, StreamInvariant, PTL

(* ... and so always where every such header arrives in one segment.        *)
THEOREM HandedSafe == ASSUME ~SplitHeader PROVE Spec => []HandedAsSent
<1>1. StreamInv => HandedAsSent BY DEF StreamInv, Closed
<1> QED BY <1>1, StreamInvariant, PTL

(* What http(), websocket() and ami_event() read, and what tst_work reads   *)
(* for them, fits the buffer of the connection.  A connection on which a    *)
(* header was misread is not followed any further.                          *)
THEOREM FitsSafe == Spec => []FitsBuffer
<1>1. StreamInv => FitsBuffer BY DEF StreamInv
<1> QED BY <1>1, StreamInvariant, PTL

(* What is refused is too large for the buffer, or for a frame.             *)
THEOREM RefusedSafe == Spec => []RefusedForSize
<1>1. StreamInv => RefusedForSize
  <2> SUFFICES ASSUME StreamInv, closed = "too_large"
               PROVE  LET m == sent[Len(handed) + 1]
                      IN IF m.kind = "frame" THEN m.body > MaxData
                         ELSE m.head >= s_len0 \/ Size(m) > s_len0
    BY DEF RefusedForSize
  <2> QED BY DEF StreamInv, Closed, Refused, cur
<1> QED BY <1>1, StreamInvariant, PTL
=============================================================================
