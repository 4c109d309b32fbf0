----------------------------- MODULE CodecsProofs -----------------------------
(***************************************************************************)
(* Theorem of Codecs: the length of every frame below 2^32 bytes is read as *)
(* it was sent.  The other conversions are folds over their input.          *)
(***************************************************************************)
EXTENDS CodecsProps, TLAPS

(* The two halves of a number below 2^32, and the bytes of each.            *)
LEMMA Halves ==
  ASSUME NEW n \in Nat, Fits(n)
  PROVE  /\ High(n) \in Nat /\ High(n) < 65536
         /\ Low(n) \in Nat /\ Low(n) < 65536
         /\ 65536 * High(n) + Low(n) = n
BY DEF High, Low, Fits

LEMMA SmallHalf ==
  ASSUME NEW n \in Nat, n < 65536
  PROVE  Fits(n) /\ Low(n) = n
BY DEF High, Low, Fits

LEMMA FourBytes ==
  ASSUME NEW n \in Nat, Fits(n)
  PROVE  /\ Byte(n, 0) \in Nat /\ Byte(n, 1) \in Nat /\ Byte(n, 2) \in Nat /\ Byte(n, 3) \in Nat
         /\ 256 * Byte(n, 3) + Byte(n, 2) = High(n)
         /\ 256 * Byte(n, 1) + Byte(n, 0) = Low(n)
<1>1. PICK m \in Nat : m = High(n)
  BY Halves
<1>2. PICK l \in Nat : l = Low(n)
  BY Halves
<1>3. /\ Byte(n, 0) = l % 256 /\ Byte(n, 1) = l \div 256
      /\ Byte(n, 2) = m % 256 /\ Byte(n, 3) = m \div 256
  BY <1>1, <1>2 DEF Byte
<1>4. /\ m % 256 \in Nat /\ m \div 256 \in Nat /\ 256 * (m \div 256) + (m % 256) = m
      /\ l % 256 \in Nat /\ l \div 256 \in Nat /\ 256 * (l \div 256) + (l % 256) = l
  OBVIOUS
<1> QED BY <1>1, <1>2, <1>3, <1>4

(* The three forms of a header.                                             *)
LEMMA ShortRead ==
  ASSUME NEW n \in Nat, n < 126, NEW b \in {0, 128}
  PROVE  Extended(<<129, b + n>>) = n
<1>1. (b + n) % 128 = n
  OBVIOUS
<1>2. <<129, b + n>>[2] = b + n
  OBVIOUS
<1> QED BY <1>1, <1>2 DEF Extended

TwoBytes(b, n) == <<129, b, Byte(n, 1), Byte(n, 0)>>

LEMMA TwoBytesRead ==
  ASSUME NEW n \in Nat, n < 65536, NEW b \in {126, 254}
  PROVE  Extended(TwoBytes(b, n)) = n
<1> DEFINE h == TwoBytes(b, n)
<1>1. h[2] % 128 = 126
  BY DEF TwoBytes
<1>2. h[3] = Byte(n, 1) /\ h[3 + 1] = Byte(n, 0)
  BY DEF TwoBytes
<1> HIDE DEF h
<1>3. 256 * Byte(n, 1) + Byte(n, 0) = n
  BY SmallHalf, FourBytes
<1>4. Uint16(h, 3) = n
  BY <1>2, <1>3 DEF Uint16
<1> QED BY <1>1, <1>4 DEF Extended, h

LEMMA EightBytesRead ==
  ASSUME NEW n \in Nat, Fits(n)
  PROVE  Extended(<<129, 255, 0, 0, 0, 0, Byte(n, 3), Byte(n, 2), Byte(n, 1), Byte(n, 0)>>) = n
<1> DEFINE h == <<129, 255, 0, 0, 0, 0, Byte(n, 3), Byte(n, 2), Byte(n, 1), Byte(n, 0)>>
<1>1. /\ h[3] = 0 /\ h[4] = 0 /\ h[5] = 0 /\ h[6] = 0
      /\ h[7] = Byte(n, 3) /\ h[8] = Byte(n, 2) /\ h[9] = Byte(n, 1) /\ h[10] = Byte(n, 0)
  OBVIOUS
<1>2. h[2] % 128 = 127
  OBVIOUS
<1> HIDE DEF h
<1>3. Uint16(h, 3) = 0 /\ Uint16(h, 5) = 0 /\ Uint16(h, 7) = High(n) /\ Uint16(h, 9) = Low(n)
  <2>1. /\ Uint16(h, 3) = 0 /\ Uint16(h, 5) = 0
        /\ Uint16(h, 7) = 256 * Byte(n, 3) + Byte(n, 2)
        /\ Uint16(h, 9) = 256 * Byte(n, 1) + Byte(n, 0)
    BY <1>1 DEF Uint16
  <2> QED BY <2>1, FourBytes
<1>4. Uint32(h, 3) = 0 /\ Uint32(h, 7) = n
  BY <1>3, Halves DEF Uint32
<1>5. Extended(h) = n
  BY <1>2, <1>4 DEF Extended
<1> QED BY <1>5 DEF h

LEMMA SentRead == \A n \in Nat : Fits(n) => Extended(Sent(n)) = n
<1> SUFFICES ASSUME NEW n \in Nat, Fits(n) PROVE Extended(Sent(n)) = n
  OBVIOUS
<1>1. CASE n < 126
  <2>1. Sent(n) = <<129, 128 + n>>
    BY <1>1 DEF Sent
  <2>2. Extended(<<129, 128 + n>>) = n
    BY <1>1, ShortRead
  <2> QED BY <2>1, <2>2
<1>2. CASE ~(n < 126) /\ n < 65536
  <2>1. Sent(n) = TwoBytes(254, n)
    BY <1>2 DEF Sent, TwoBytes
  <2>2. Extended(TwoBytes(254, n)) = n
    BY <1>2, TwoBytesRead
  <2> QED BY <2>1, <2>2
<1>3. CASE ~(n < 126) /\ ~(n < 65536)
  <2>1. Sent(n) = <<129, 255, 0, 0, 0, 0, Byte(n, 3), Byte(n, 2), Byte(n, 1), Byte(n, 0)>>
    BY <1>3 DEF Sent
  <2> QED BY <2>1, EightBytesRead
<1> QED BY <1>1, <1>2, <1>3

LEMMA WrittenRead == \A n \in Nat : n <= 126 => Extended(ws_writetext(n)) = n
<1> SUFFICES ASSUME NEW n \in Nat, n <= 126 PROVE Extended(ws_writetext(n)) = n
  OBVIOUS
<1>1. CASE n < 126
  <2>1. ws_writetext(n) = <<129, 0 + n>>
    BY <1>1 DEF ws_writetext
  <2>2. Extended(<<129, 0 + n>>) = n
    BY <1>1, ShortRead
  <2> QED BY <2>1, <2>2
<1>2. CASE n = 126
  <2>1. ws_writetext(n) = TwoBytes(126, n)
    BY <1>2 DEF ws_writetext, TwoBytes
  <2>2. Extended(TwoBytes(126, n)) = n
    BY <1>2, TwoBytesRead
  <2> QED BY <2>1, <2>2
<1> QED BY <1>1, <1>2

(* Inputs are put together from tokens.                                     *)
InputInv == codec \in DOMAIN Token /\ text \in Seq(Token[codec])

LEMMA InputLength == InputInv => LengthRead
<1> SUFFICES ASSUME InputInv, codec = "frame", NEW k \in DOMAIN text
             PROVE  /\ Extended(Sent(text[k])) = text[k]
                    /\ text[k] <= 126 => Extended(ws_writetext(text[k])) = text[k]
  BY DEF LengthRead
<1>1. text[k] \in Token["frame"]
  BY DEF InputInv
<1>2. text[k] \in Nat /\ Fits(text[k])
  BY <1>1, CodecsAssumption DEF CodecsAssumption
<1> QED BY <1>2, SentRead, WrittenRead

(* Whatever length below 2^32 a client sends in whichever of the three      *)
(* forms, websocket() reads that length, and so does a client for the       *)
(* service's texts of up to 126 bytes.                                      *)
THEOREM LengthSafe == Spec => []LengthRead
<1>1. Init => InputInv
  BY DEF Init, InputInv
<1>2. InputInv /\ [Next]_vars => InputInv'
  BY DEF InputInv, Next, Extend, vars
<1> QED BY <1>1, <1>2, InputLength, PTL DEF Spec
=============================================================================
