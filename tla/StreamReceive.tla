---------------------------- MODULE StreamReceive ----------------------------
(***************************************************************************)
(* How src/amidtmf2 cuts the byte stream of a connection into messages:     *)
(* tst_main counts what has arrived, tst_work continues a read of req_len   *)
(* bytes on its own, http(), websocket() and ami_event() find the ends of   *)
(* requests, frames and manager messages, and hand each to its handler.     *)
(*                                                                          *)
(* A byte is <<number of its message, position in it>>.  The header of a    *)
(* request or manager message is over with its last byte (the CRLFCRLF).    *)
(***************************************************************************)
EXTENDS Naturals, Sequences

CONSTANTS
  Message,     \* what clients send, see MessageAssumption
  MaxMsg,      \* bound: messages on the connection
  s_len0,      \* the size of the receive buffer, 4096 in the code
  MaxData,     \* the longest payload of a frame, 10485760 in the code
  SplitHeader  \* TRUE: a segment may end inside the header of a frame

ASSUME MessageAssumption ==
  /\ \A m \in Message :
       /\ m.kind \in {"request", "upgrade", "frame", "manager"} /\ m.keep \in BOOLEAN
       /\ m.head \in Nat \ {0} /\ m.body \in Nat
       /\ m.kind = "frame" => m.head \in {2, 4, 6, 8, 10, 14}
       /\ m.kind \in {"upgrade", "manager"} => m.body = 0
  /\ {MaxMsg, MaxData} \subseteq Nat /\ s_len0 \in Nat \ {0} /\ SplitHeader \in BOOLEAN

VARIABLES
  sent,       \* the messages of the connection
  wire, kernel,  \* the bytes under way; the bytes that arrived and were not read
  s, req_pos, req_len, com_len, checked_len, s_len,  \* TST_DATA, s as far as it is filled
  user_data,  \* "none", or what the REQUEST_INFO or WS_INFO is of
  func,       \* psocket->func: "none", "websocket", "ami_event"
  step, head, \* WS_INFO: step, and the header bytes it was parsed from
  pc,
  handed,     \* the messages handed to handlers, as bytes
  closed      \* "no", or why the server closed the connection

dataVars == <<s, req_pos, req_len, com_len, s_len>>
wsVars   == <<step, head>>
vars == <<sent, wire, kernel, dataVars, checked_len, user_data, func, wsVars, pc, handed, closed>>

Size(m) == m.head + m.body
Bytes(i) == [k \in 1 .. Size(sent[i]) |-> <<i, k>>]
InHeader(b) == sent[b[1]].kind = "frame" /\ b[2] < sent[b[1]].head
EndsHeader(b) == b[2] = sent[b[1]].head

Init ==
  /\ sent = <<>> /\ wire = <<>> /\ kernel = <<>>
  /\ s = <<>> /\ req_pos = 0 /\ req_len = 0 /\ com_len = 0 /\ checked_len = 0 /\ s_len = s_len0
  /\ user_data = "none" /\ func \in {"none", "ami_event"}
  /\ step = 0 /\ head = <<>> /\ pc = "epoll" /\ handed = <<>> /\ closed = "no"

----------------------------------------------------------------------------
(* The other end sends requests, then perhaps an upgrade and frames; the    *)
(* manager its messages only.                                               *)
Sensible(m) ==
  /\ m.kind = "manager" <=> func = "ami_event"
  /\ m.kind = "frame" <=> \E j \in DOMAIN sent : sent[j].kind = "upgrade"
Send ==
  /\ Len(sent) < MaxMsg
  /\ \E m \in Message :
       /\ Sensible(m)
       /\ sent' = Append(sent, m)
       /\ wire' = wire \o [k \in 1 .. Size(m) |-> <<Len(sent) + 1, k>>]
  /\ UNCHANGED <<kernel, dataVars, checked_len, user_data, func, wsVars, pc, handed, closed>>

(* The network: a segment of any length arrives.                            *)
Arrive ==
  /\ \E n \in 1 .. Len(wire) :
       /\ SplitHeader \/ ~InHeader(wire[n])
       /\ kernel' = kernel \o SubSeq(wire, 1, n) /\ wire' = SubSeq(wire, n + 1, Len(wire))
  /\ UNCHANGED <<sent, dataVars, checked_len, user_data, func, wsVars, pc, handed, closed>>

Least(m, n) == IF m < n THEN m ELSE n
(* read of n bytes that are there, to the buffer at req_pos + com_len       *)
Read(n) ==
  /\ s' = SubSeq(s, 1, req_pos + com_len) \o SubSeq(kernel, 1, n)
  /\ kernel' = SubSeq(kernel, n + 1, Len(kernel))
Reset == s' = <<>> /\ req_pos' = 0 /\ req_len' = 0 /\ com_len' = 0
Close(why) == closed' = why /\ pc' = "closed"

----------------------------------------------------------------------------
(* tst_main: the bytes that have arrived are counted                        *)
Event ==
  /\ pc = "epoll" /\ kernel # <<>>
  /\ checked_len' = Len(kernel)
  /\ pc' = "work"
  /\ UNCHANGED <<sent, wire, kernel, dataVars, user_data, func, wsVars, handed, closed>>

(* tst_work: the rest of req_len bytes, or the user function                *)
AutoRead_Greedy ==   \* faulty: also what follows the message
  /\ pc = "work" /\ req_len > com_len
  /\ Read(Len(kernel)) /\ com_len' = com_len + Len(kernel)
  /\ IF com_len' >= req_len THEN checked_len' = 0 /\ pc' = "call"
     ELSE checked_len' = Len(kernel) /\ pc' = "epoll"
  /\ UNCHANGED <<sent, wire, req_pos, req_len, s_len, user_data, func, wsVars, handed, closed>>
AutoRead ==
  /\ pc = "work" /\ req_len > com_len
  /\ LET n == Least(Len(kernel), req_len - com_len)
     IN /\ Read(n) /\ com_len' = com_len + n
        /\ IF com_len' >= req_len THEN checked_len' = 0 /\ pc' = "call"
           ELSE checked_len' = n /\ pc' = "epoll"
  /\ UNCHANGED <<sent, wire, req_pos, req_len, s_len, user_data, func, wsVars, handed, closed>>
NoAutoRead ==
  /\ pc = "work" /\ req_len <= com_len
  /\ pc' = "call"
  /\ UNCHANGED <<sent, wire, kernel, dataVars, checked_len, user_data, func, wsVars, handed, closed>>

----------------------------------------------------------------------------
(* http() and ami_event() read byte by byte to the end of a header, the end *)
(* of the buffer or the end of what was counted.                            *)
UpTo(limit) ==
  LET n == Least(limit, checked_len)
      ends == {k \in 1 .. n : EndsHeader(kernel[k])}
  IN IF ends = {} THEN n ELSE CHOOSE k \in ends : \A j \in ends : k <= j
Complete == s' # <<>> /\ EndsHeader(s'[Len(s')])

ReadHeader ==
  /\ pc = "call" /\ func = "none" /\ checked_len > 0
  /\ LET n == UpTo(s_len - req_pos - com_len) IN Read(n) /\ com_len' = com_len + n
  /\ IF req_pos + com_len' >= s_len THEN Close("too_large")
     ELSE pc' = (IF Complete THEN "parse" ELSE "epoll") /\ UNCHANGED closed
  /\ UNCHANGED <<sent, wire, req_pos, req_len, s_len, checked_len, user_data, func, wsVars, handed>>

(* The body was read by tst_work.                                           *)
BodyComplete ==
  /\ pc = "call" /\ func = "none" /\ checked_len = 0
  /\ pc' = "route"
  /\ UNCHANGED <<sent, wire, kernel, dataVars, checked_len, user_data, func, wsVars, handed, closed>>

ContentLength == sent[s[1][1]].body
TooLarge_Never(n) == FALSE               \* faulty: no check
TooLarge_Equal(n) == n >= s_len - com_len   \* faulty: off by one
TooLarge(n) == n > s_len - com_len
Parse ==
  /\ pc = "parse"
  /\ user_data' = "request"
  /\ \/ ContentLength = 0 /\ pc' = "route" /\ UNCHANGED <<req_pos, req_len, com_len, closed>>
     \/ ContentLength > 0 /\ TooLarge(ContentLength)
        /\ Close("too_large") /\ UNCHANGED <<req_pos, req_len, com_len>>
     \/ /\ ContentLength > 0 /\ ~TooLarge(ContentLength)
        /\ req_pos' = com_len /\ com_len' = 0 /\ req_len' = ContentLength
        /\ pc' = "epoll" /\ UNCHANGED closed
  /\ UNCHANGED <<sent, wire, kernel, s, s_len, checked_len, func, wsVars, handed>>

(* The handler of the route, or the upgrade and the first call of websocket *)
Route ==
  /\ pc = "route"
  /\ handed' = Append(handed, SubSeq(s, 1, req_pos + com_len))
  /\ LET m == sent[s[1][1]]
     IN \/ /\ m.kind = "request" /\ m.keep
           /\ user_data' = "none" /\ Reset /\ pc' = "epoll" /\ UNCHANGED <<func, closed>>
        \/ /\ m.kind = "upgrade" /\ m.keep
           /\ func' = "websocket" /\ user_data' = "websocket" /\ pc' = "epoll"
           /\ UNCHANGED <<s, req_pos, req_len, com_len, closed>>
        \/ /\ ~m.keep
           /\ Close("served") /\ UNCHANGED <<user_data, func, s, req_pos, req_len, com_len>>
  /\ UNCHANGED <<sent, wire, kernel, s_len, checked_len, wsVars>>

(* ami_event: one message; nothing is refused.                              *)
ReadMessage ==
  /\ pc = "call" /\ func = "ami_event"
  /\ LET n == UpTo(s_len - com_len - 1)
     IN /\ kernel' = SubSeq(kernel, n + 1, Len(kernel))
        /\ LET read == SubSeq(s, 1, com_len) \o SubSeq(kernel, 1, n)
           IN IF read # <<>> /\ EndsHeader(read[Len(read)])
              THEN handed' = Append(handed, read) /\ Reset
              ELSE s' = read /\ com_len' = com_len + n /\ UNCHANGED <<handed, req_pos, req_len>>
  /\ pc' = "epoll"
  /\ UNCHANGED <<sent, wire, s_len, checked_len, user_data, func, wsVars, closed>>

----------------------------------------------------------------------------
(* websocket(): a header in up to three reads, none of which checks how     *)
(* much it got; each blocks until there is a byte.                          *)

Frame == sent[head'[1][1]]
Masked(m) == m.head \in {6, 8, 14}
Extended(m) == m.head - 2 - (IF Masked(m) THEN 4 ELSE 0)
Part(m, label) == IF label = "extended" THEN Extended(m) ELSE 4

StartFrame ==
  /\ pc = "call" /\ func = "websocket"
  /\ pc' = IF step = 0 THEN "start" ELSE "unmask"
  /\ UNCHANGED <<sent, wire, kernel, dataVars, checked_len, user_data, func, wsVars, handed, closed>>

(* After a short read the fields are taken from the wrong bytes.            *)
ReadPart(n, next) ==
  /\ kernel # <<>>
  /\ head' = head \o SubSeq(kernel, 1, Least(n, Len(kernel)))
  /\ kernel' = SubSeq(kernel, Least(n, Len(kernel)) + 1, Len(kernel))
  /\ IF Len(kernel) < n THEN handed' = Append(handed, head') /\ Close("garbled")
     ELSE pc' = next /\ UNCHANGED <<handed, closed>>
  /\ UNCHANGED <<sent, wire, dataVars, checked_len, user_data, func, step>>

AfterStart == IF Extended(Frame) > 0 THEN "extended" ELSE IF Masked(Frame) THEN "mask" ELSE "payload"
ReadStart == pc = "start" /\ ReadPart(2, AfterStart)
ReadExtended == /\ pc = "extended"
                /\ ReadPart(Part(sent[head[1][1]], "extended"),
                            IF Masked(Frame) THEN "mask" ELSE "payload")
ReadMask == pc = "mask" /\ ReadPart(Part(sent[head[1][1]], "mask"), "payload")

(* A frame that is too long, more memory if need be, the part of the        *)
(* payload that is there, and what tst_work has to read.                    *)
Rest_Whole(n) == sent[head[1][1]].body         \* faulty: the part that was read is not taken off
Rest(n) == sent[head[1][1]].body - n
TooLong(m) == m.head \in {10, 14} /\ m.body > MaxData
Payload ==
  /\ pc = "payload"
  /\ LET m == sent[head[1][1]]
         n == Least(m.body, Len(kernel))
     IN IF TooLong(m)
        THEN Close("too_large") /\ UNCHANGED <<kernel, dataVars, step>>
        ELSE /\ m.body > 0 => kernel # <<>>
             /\ step' = 1
             /\ s_len' = IF m.body > s_len THEN m.body ELSE s_len
             /\ s' = SubSeq(kernel, 1, n) /\ kernel' = SubSeq(kernel, n + 1, Len(kernel))
             /\ IF n < m.body
                THEN req_pos' = n /\ req_len' = Rest(n) /\ com_len' = 0 /\ pc' = "epoll"
                ELSE req_pos' = 0 /\ req_len' = 0 /\ com_len' = n /\ pc' = "unmask"
             /\ UNCHANGED closed
  /\ UNCHANGED <<sent, wire, checked_len, user_data, func, head, handed>>

(* The payload is unmasked and handed to websocket_func.                    *)
Unmask ==
  /\ pc = "unmask"
  /\ LET m == sent[head[1][1]]
     IN /\ handed' = Append(handed, head \o SubSeq(s, 1, m.body))
        /\ IF m.keep THEN pc' = "epoll" /\ UNCHANGED closed ELSE Close("served")
  /\ Reset /\ step' = 0 /\ head' = <<>>
  /\ UNCHANGED <<sent, wire, kernel, s_len, checked_len, user_data, func>>

----------------------------------------------------------------------------
websocket == StartFrame \/ ReadStart \/ ReadExtended \/ ReadMask \/ Payload \/ Unmask
http == ReadHeader \/ BodyComplete \/ Parse \/ Route
tst_work == AutoRead \/ NoAutoRead
Server == Event \/ tst_work \/ http \/ websocket \/ ReadMessage

Next == Send \/ Arrive \/ Server
Spec == Init /\ [][Next]_vars

(* epoll is level-triggered and the threads run; segments arrive.           *)
FairSpec == Spec /\ WF_vars(Server) /\ WF_vars(Arrive)
==============================================================================
