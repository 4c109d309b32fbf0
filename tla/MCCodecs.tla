------------------------------- MODULE MCCodecs -------------------------------
(* The inputs of the run codecs: lengths of up to three bytes at the limits  *)
(* of each form of a header, parts of a query with and without escapes,      *)
(* lines of a message, lines of a configuration file.                        *)
EXTENDS CodecsProps

MCToken ==
  [frame  |-> {65536 * a + 256 * b + c : a, b, c \in {0, 1, 125, 126, 127, 255}},
   query  |-> {<<"a", "=">>, <<"b">>, <<"=">>, <<"&">>, <<" ">>, <<"CR">>, <<"%", "4", "a">>, <<"%">>},
   event  |-> {<<"k">>, <<":">>, <<" ">>, <<"CR", "LF">>, <<"j", ":", "v", "CR", "LF">>},
   config |-> DOMAIN Meaning]
MCMaxToken == [frame |-> 1, query |-> 7, event |-> 8, config |-> 4]
==============================================================================
