----------------------------- MODULE CodecsProps -----------------------------
(* What the conversions promise, against definitions that do not scan.       *)
EXTENDS Codecs

Split(s, sep) ==    \* the parts between the separators
  LET ends == SelectSeq([k \in 1 .. Len(s) + 1 |-> k], LAMBDA k : k = Len(s) + 1 \/ s[k] = sep)
  IN [i \in DOMAIN ends |-> SubSeq(s, IF i = 1 THEN 1 ELSE ends[i - 1] + 1, ends[i] - 1)]
Before(s, sep) == Split(s, sep)[1]
After(s, sep) == SubSeq(s, Len(Before(s, sep)) + 2, Len(s))
Without(s, chars) == SelectSeq(s, LAMBDA c : c \notin chars)

(* A client's frame, as RFC 6455 encodes it, is read with the length it     *)
(* has; so are the service's own texts up to 126 bytes (websocket.cpp:42,   *)
(* 211).                                                                    *)
Sent(n) ==
  IF n < 126 THEN <<129, 128 + n>>
  ELSE IF n < 65536 THEN <<129, 254, Byte(n, 1), Byte(n, 0)>>
  ELSE <<129, 255, 0, 0, 0, 0, Byte(n, 3), Byte(n, 2), Byte(n, 1), Byte(n, 0)>>
LengthRead ==
  codec = "frame" =>
    \A k \in DOMAIN text :
      LET n == text[k]
      IN Extended(Sent(n)) = n /\ (n <= 126 => Extended(ws_writetext(n)) = n)

(* A query is read as it was written: each name has the value it was given  *)
(* last, with the escapes decoded, without blanks and line ends             *)
(* (http.cpp:261, http.h:136).                                              *)
Escaped(s) == {k \in DOMAIN s : s[k] = "%"}
WellEscaped(s) == \A k \in Escaped(s) : k + 2 <= Len(s) /\ {s[k + 1], s[k + 2]} \subseteq Hex
Plain(s) ==
  FlattenSeq([k \in DOMAIN s |->
    IF k \in Escaped(s) THEN <<s[k + 1] \o s[k + 2]>>
    ELSE IF {k - 1, k - 2} \intersect Escaped(s) # {} THEN <<>> ELSE <<s[k]>>])
Field(s) == Without(Plain(s), {" ", "CR"})
ProperPair(p) ==
  LET name == Before(p, "=")
      value == After(p, "=")
  IN /\ name \notin {<<>>, p} /\ value # <<>>
     /\ \A x \in {name, value} : /\ Len(Plain(x)) < MAX_PARSE
                                 /\ \A k \in DOMAIN x : x[k] = "CR" => k = Len(x)
FormRead ==
  LET pairs == Split(string, "&")
      name(k) == Field(Before(pairs[k], "="))
      last(i) == \A j \in i + 1 .. Len(pairs) : name(j) # name(i)
  IN codec = "query" /\ WellEscaped(string) /\ (\A i \in DOMAIN pairs : ProperPair(pairs[i])) =>
       \A i \in DOMAIN pairs : last(i) =>
         Get(Parse(urlDecodeRewite(string)), name(i), "") = Field(After(pairs[i], "="))

(* Every line of an AMI message whose text a zero ends becomes a key and    *)
(* its value, in order, and the scan never passes that zero                 *)
(* (amiproc.cpp:60).  The jobs' copy (328) goes to zeroed memory; the log's *)
(* copy (312) has no zero behind it and is not meant.                       *)
EventRead ==
  LET lines == Split(Without(string, {"LF"}), "CR")
      n == Len(lines) - 2
      lead(v) == {k \in DOMAIN v : v[k] # " "}
      value(v) == IF lead(v) = {} THEN <<>>
                  ELSE SubSeq(v, CHOOSE k \in lead(v) : \A j \in lead(v) : k <= j, Len(v))
      parsed == parse_amievent(string)
  IN codec = "event" /\ n > 0 /\ lines[n + 1] = <<>> /\ lines[n + 2] = <<>>
     /\ (\A i \in 1 .. n : Before(lines[i], ":") \notin {<<>>, lines[i]}) =>
       /\ parsed.out = [i \in 1 .. n |-> <<Before(lines[i], ":"), value(After(lines[i], ":"))>>]
       /\ parsed.next <= Len(string) + 1

(* Lines of a configuration file and what they say: <<"section", its name>>, *)
(* <<"value", name, value>> or <<"nothing">>.                                *)
Meaning ==
  (<<"[", "s", "]">> :> <<"section", <<"s">>>>)
  @@ (<<" ", "[", "t", "]", "#", "c">> :> <<"section", <<"t">>>>)
  @@ (<<"n", "=", "v">> :> <<"value", <<"n">>, <<"v">>>>)
  @@ (<<" ", "n", " ", ":", " ", "w", " ", "#", "c">> :> <<"value", <<"n">>, <<"w">>>>)
  @@ (<<"m", "=", "a", " ", "=", "b", ":">> :> <<"value", <<"m">>, <<"a", " ", "=", "b", ":">>>>)
  @@ [line \in {<<>>, <<"n">>, <<"n", "=", " ">>, <<"=", "v">>, <<"#", "n", "=", "x">>} |-> <<"nothing">>]

(* Get returns what the last line for the name says that stands in any      *)
(* section of that name, and the default when no such line says anything    *)
(* (WebConfig.cpp:77, 184).                                                 *)
ConfigRead ==
  codec = "config" /\ text # <<>> /\ Meaning[text[1]][1] = "section" =>
    \A section \in {<<"s">>, <<"t">>}, name \in {<<"n">>, <<"m">>} :
      LET under(k) == \E j \in 1 .. k : /\ Meaning[text[j]] = <<"section", section>>
                                      /\ \A i \in j + 1 .. k : Meaning[text[i]][1] # "section"
          said == {k \in DOMAIN text : /\ Meaning[text[k]][1] = "value"
                                       /\ Meaning[text[k]][2] = name /\ under(k)}
      IN Get(Set(text), <<section, name>>, "default") =
           IF said = {} THEN "default"
           ELSE Meaning[text[CHOOSE k \in said : \A j \in said : k >= j]][3]
=============================================================================
