-------------------------------- MODULE Codecs --------------------------------
(***************************************************************************)
(* The conversions of src/amidtmf2 that read what others wrote: the length  *)
(* of a WebSocket frame, the query string of a request, an AMI message and  *)
(* the configuration file.  A string is a sequence of characters; what      *)
(* the code does in place is told by the string it leaves.                  *)
(***************************************************************************)
EXTENDS Naturals, Sequences, SequencesExt

CONSTANTS
  Token,      \* codec -> the strings its inputs are put together from; for frames, lengths
  MaxToken,   \* bound: codec -> how many of them
  MAX_PARSE   \* longer names and values are cut, 128 in the code

VARIABLES codec, text
vars == <<codec, text>>

High(n) == n \div 65536       \* the two halves of a number of four bytes
Low(n)  == n % 65536
Fits(n) == High(n) < 65536

ASSUME CodecsAssumption ==
  /\ MaxToken \in [DOMAIN Token -> Nat] /\ MAX_PARSE \in Nat \ {0}
  /\ "frame" \in DOMAIN Token
  /\ \A n \in Token["frame"] : n \in Nat /\ Fits(n)

(* An input grows, so that the states are all inputs up to the bound.       *)
Init == codec \in DOMAIN Token /\ text = <<>>
Extend == Len(text) < MaxToken[codec] /\ \E t \in Token[codec] : text' = Append(text, t) /\ UNCHANGED codec
Next == Extend
Spec == Init /\ [][Next]_vars

string == FlattenSeq(text)

----------------------------------------------------------------------------
(* strchr and strpbrk from position n, or the position after the end        *)
Find(s, n, chars) ==
  LET at == {k \in n .. Len(s) : s[k] \in chars}
  IN IF at = {} THEN Len(s) + 1 ELSE CHOOSE k \in at : \A j \in at : k <= j

trim(s) ==
  LET kept == {k \in DOMAIN s : s[k] # " "}
  IN IF kept = {} THEN <<>>
     ELSE SubSeq(s, CHOOSE k \in kept : \A j \in kept : k <= j,
                    CHOOSE k \in kept : \A j \in kept : k >= j)

----------------------------------------------------------------------------
(* ws_writetext: the header of a frame, and websocket(): the length in it.  *)
Uint16(h, k) == 256 * h[k] + h[k + 1]                       \* ntohs of two bytes
Uint32(h, k) == 65536 * Uint16(h, k) + Uint16(h, k + 2)     \* ntohl of four
Byte(n, k) ==                                               \* the k-th lowest byte of n
  CASE k = 0 -> Low(n) % 256 [] k = 1 -> Low(n) \div 256
    [] k = 2 -> High(n) % 256 [] k = 3 -> High(n) \div 256
ws_writetext(n) ==
  IF n < 126 THEN <<129, n>>
  ELSE IF n = 126 THEN <<129, 126, Byte(n, 1), Byte(n, 0)>>
  ELSE <<129, 127, Byte(n, 0), Byte(n, 1), Byte(n, 2), Byte(n, 3), 0, 0, 0, 0>>
Extended_Equal(h) ==   \* faulty: 126 and 127 taken alike
  IF h[2] % 128 < 126 THEN h[2] % 128 ELSE Uint16(h, 3)
Extended(h) ==
  LET n == h[2] % 128
  IN IF n < 126 THEN n
     ELSE IF n = 126 THEN Uint16(h, 3) ELSE 65536 * (65536 * Uint32(h, 3)) + Uint32(h, 7)

----------------------------------------------------------------------------
(* urlDecodeRewite: i reads, the result is written behind it.  What does    *)
(* not decode leaves the character that is there.  A byte that was decoded  *)
(* is told by its two digits.                                               *)
Hex == {"0", "4", "a"}
Rewrite_Overlap(t, i) ==    \* faulty: the two digits are read again
  LET s == t.s
  IN IF t.end \/ i < t.next THEN t
     ELSE IF s[i] # "%" THEN [t EXCEPT !.out = Append(@, s[i])]
     ELSE IF i + 2 > Len(s) THEN [t EXCEPT !.end = TRUE]
     ELSE IF {s[i + 1], s[i + 2]} \subseteq Hex
          THEN [t EXCEPT !.out = Append(@, s[i + 1] \o s[i + 2]), !.next = i + 2]
     ELSE [t EXCEPT !.out = Append(@, s[Len(t.out) + 1])]
Rewrite(t, i) ==
  LET s == t.s
  IN IF t.end \/ i < t.next THEN t
     ELSE IF s[i] # "%" THEN [t EXCEPT !.out = Append(@, s[i])]
     ELSE IF i + 2 > Len(s) THEN [t EXCEPT !.end = TRUE]
     ELSE IF {s[i + 1], s[i + 2]} \subseteq Hex
          THEN [t EXCEPT !.out = Append(@, s[i + 1] \o s[i + 2]), !.next = i + 3]
     ELSE [t EXCEPT !.out = Append(@, s[Len(t.out) + 1])]
urlDecodeRewite(s) ==
  FoldLeft(Rewrite, [s |-> s, out |-> <<>>, next |-> 1, end |-> FALSE], [i \in DOMAIN s |-> i]).out

(* CQueryString: CheckEscape with ALL, Parse and Get                        *)
CheckEscape(s) == SelectSeq(SubSeq(s, 1, Find(s, 1, {"CR"}) - 1), LAMBDA c : c # " ")
Cut(s) == CheckEscape(SubSeq(s, 1, IF Len(s) < MAX_PARSE THEN Len(s) ELSE MAX_PARSE - 1))
Parse(q) ==
  LET from[n \in 1 .. Len(q) + 1] ==    \* the pairs from position n on
        LET eq  == Find(q, n, {"="})
            amp == Find(q, eq + 1, {"&"})
        IN IF n > Len(q) \/ eq > Len(q) \/ eq = n \/ eq = Len(q) THEN <<>>
           ELSE <<<<Cut(SubSeq(q, n, eq - 1)), Cut(SubSeq(q, eq + 1, amp - 1))>>>>
                \o (IF amp > Len(q) THEN <<>> ELSE from[amp + 1])
  IN from[1]
(* The last value of a key in a list of pairs, as in a map                  *)
Get(pairs, key, default) ==
  LET at == {k \in DOMAIN pairs : pairs[k][1] = key}
  IN IF at = {} THEN default ELSE pairs[CHOOSE k \in at : \A j \in at : k >= j][2]

----------------------------------------------------------------------------
(* parse_amievent: header or value, where the part starts, the position     *)
(* that is looked at next (after a line end one character is passed over).  *)
Look_Kept(t, i) ==    \* faulty: the value starts with the character after the colon
  LET s == t.s
  IN IF i < t.next THEN t
     ELSE IF t.header
     THEN IF s[i] # ":" THEN t
          ELSE [t EXCEPT !.header = FALSE, !.key = SubSeq(s, t.start, i - 1), !.start = i + 1]
     ELSE IF s[i] = "CR"
     THEN [t EXCEPT !.out = Append(@, <<t.key, SubSeq(s, t.start, i - 1)>>), !.header = TRUE,
                    !.start = i + 2, !.next = i + 3]
     ELSE t
Look(t, i) ==
  LET s == t.s
      start == IF t.start = 0 /\ s[i] # " " THEN i ELSE t.start
  IN IF i < t.next THEN t
     ELSE IF t.header
     THEN IF s[i] # ":" THEN t
          ELSE [t EXCEPT !.header = FALSE, !.key = SubSeq(s, t.start, i - 1), !.start = 0]
     ELSE IF s[i] = "CR"
     THEN [t EXCEPT !.out = Append(@, <<t.key, SubSeq(s, start, i - 1)>>), !.header = TRUE,
                    !.start = i + 2, !.next = i + 3]
     ELSE [t EXCEPT !.start = start]
parse_amievent(s) ==
  FoldLeft(Look, [s |-> s, header |-> TRUE, start |-> 1, key |-> <<>>, out |-> <<>>, next |-> 1],
           [i \in DOMAIN s |-> i])

----------------------------------------------------------------------------
(* CWebConfig::Set: line by line; the value may hold a ":" or "=".          *)
Uncommented_Whole(line) ==    \* faulty: a comment must be the whole line
  IF line # <<>> /\ line[1] = "#" THEN <<>> ELSE line
Uncommented(line) == SubSeq(line, 1, Find(line, 1, {"#"}) - 1)
Line(t, l) ==
  LET line == Uncommented(l)
      open == Find(line, 1, {"["})
      close == Find(line, open, {"]"})
      sep  == Find(line, 1, {":", "="})
      name == trim(SubSeq(line, 1, sep - 1))
      value == trim(SubSeq(line, sep + 1, Len(line)))
  IN IF open <= Len(line)
     THEN [t EXCEPT !.section = IF close > Len(line) THEN <<>> ELSE SubSeq(line, open + 1, close - 1)]
     ELSE IF sep > Len(line) \/ name = <<>> \/ value = <<>> THEN t
     ELSE [t EXCEPT !.conf = Append(@, <<<<t.section, name>>, value>>)]
Set(lines) == FoldLeft(Line, [section |-> <<>>, conf |-> <<>>], lines).conf
==============================================================================
