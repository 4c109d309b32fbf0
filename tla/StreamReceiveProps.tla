-------------------------- MODULE StreamReceiveProps --------------------------
(* What a client may expect of the messages it sends, however TCP cuts them. *)
EXTENDS StreamReceive

(* Handlers get the messages that were sent, whole, each once and in order, *)
(* and never a byte of the next one ("the next message is read later",      *)
(* http.cpp:150, tst.cpp:577).                                              *)
HandedAsSent == \A i \in DOMAIN handed : handed[i] = Bytes(i)

(* What is read fits the buffer, and its end is where the rest will be put: *)
(* http.cpp:178 ends it with a zero, tst.cpp:578 reads to req_pos+com_len.  *)
FitsBuffer ==
  /\ req_pos + com_len <= s_len /\ req_pos + req_len <= s_len
  /\ closed = "no" => Len(s) = req_pos + com_len

(* A request or frame is refused only for its size.                         *)
RefusedForSize ==
  closed = "too_large" =>
    LET m == sent[Len(handed) + 1]
    IN IF m.kind = "frame" THEN m.body > MaxData
       ELSE m.head >= s_len0 \/ Size(m) > s_len0

(* When everything has arrived, every message is handed over, or the server *)
(* has closed the connection: no reader waits for bytes that were read.     *)
AllHanded == wire = <<>> ~> (closed # "no" \/ Len(handed) = Len(sent))
===============================================================================
