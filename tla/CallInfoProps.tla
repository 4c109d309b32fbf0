----------------------------- MODULE CallInfoProps -----------------------------
(* The record against the calls, seen when no event of the caller is left.   *)
EXTENDS CallInfo

(* While a call lasts the record names its channel and, once it is answered, *)
(* the channel of the other side (processevents.cpp:77, 208).                *)
RecordOfCall(c) ==
  /\ Found(c)
  /\ memcached[c] = [szChannel |-> call[c], szDestChannel |-> IF stage[c] = "answered" THEN call[c] ELSE 0]

(* After the call DTMF_STOP has deleted the record (processevents.cpp:96,    *)
(* setupdtmf/README.md:31).                                                  *)
StopDeletes == \A c \in Caller : stage[c] = "down" /\ ~Pending(c) => ~Found(c)

(* As long as no two events of a caller are handled at once, the record      *)
(* follows the call; and an accident in one call does not outlast the start  *)
(* of a next one that finds nothing pending.                                 *)
RecordFollowsCall ==
  \A c \in Caller \ overlap : ~Pending(c) => IF stage[c] = "down" THEN ~Found(c) ELSE RecordOfCall(c)
=============================================================================
