------------------------------- MODULE CallInfo -------------------------------
(***************************************************************************)
(* The record of a call in memcached: Asterisk's events are jobs of the     *)
(* thread pool, taken in their order by workers that then run at the same   *)
(* time; each handler reads and writes the record of the caller.            *)
(***************************************************************************)
EXTENDS Naturals, Sequences

CONSTANTS
  Caller,    \* the callers' numbers, the keys in memcached
  Worker,    \* threads of the pool
  MaxCall,   \* bound: calls of a caller, one after the other
  Empty,     \* the value "" that DTMF_STOP stores
  None       \* no record, no event

(* CallInfo_t tells the channel and the destination channel by the number   *)
(* of the call they belong to; 0 is an empty name.                          *)
CallInfo_t == [szChannel : 0 .. MaxCall, szDestChannel : 0 .. MaxCall]
Event ==
  [name : {"DTMF_START", "DialEnd", "DTMF_STOP"}, caller : Caller, call : 1 .. MaxCall, answer : BOOLEAN]

ASSUME CallInfoAssumption ==
  /\ MaxCall \in Nat /\ None # Empty
  /\ {None, Empty} \cap CallInfo_t = {} /\ None \notin Event

VARIABLES
  call,       \* caller -> the number of the current or last call
  stage,      \* caller -> Asterisk's channel: "up", "answered", "failed" or "down"
  queue,      \* events that no worker has taken
  job,        \* worker -> the Event it handles
  ci,         \* worker -> the CallInfo_t it read
  memcached,  \* caller -> CallInfo_t, Empty or None
  overlap     \* history: callers two of whose events are or were handled at once

vars == <<call, stage, queue, job, ci, memcached, overlap>>

Pending(c) ==
  \/ \E i \in DOMAIN queue : queue[i].caller = c
  \/ \E w \in Worker : job[w] # None /\ job[w].caller = c

Init ==
  /\ call = [c \in Caller |-> 0]
  /\ stage = [c \in Caller |-> "down"]
  /\ queue = <<>>
  /\ job = [w \in Worker |-> None]
  /\ ci = [w \in Worker |-> None]
  /\ memcached = [c \in Caller |-> None]
  /\ overlap = {}

----------------------------------------------------------------------------
(* The dialplan of the context DTMF.  What went wrong in a call is over     *)
(* when the next one starts with no event left.                             *)
Emit(name, c, n, answer) ==
  queue' = Append(queue, [name |-> name, caller |-> c, call |-> n, answer |-> answer])

CallStarts(c) ==
  /\ stage[c] = "down" /\ call[c] < MaxCall
  /\ stage' = [stage EXCEPT ![c] = "up"]
  /\ call' = [call EXCEPT ![c] = @ + 1]
  /\ overlap' = IF Pending(c) THEN overlap ELSE overlap \ {c}
  /\ Emit("DTMF_START", c, call[c] + 1, FALSE)

DialEnds(c) ==
  /\ stage[c] = "up"
  /\ \E answer \in BOOLEAN :
       /\ stage' = [stage EXCEPT ![c] = IF answer THEN "answered" ELSE "failed"]
       /\ Emit("DialEnd", c, call[c], answer)
  /\ UNCHANGED <<call, overlap>>

HangsUp(c) ==
  /\ stage[c] # "down"
  /\ stage' = [stage EXCEPT ![c] = "down"]
  /\ Emit("DTMF_STOP", c, call[c], FALSE)
  /\ UNCHANGED <<call, overlap>>

Asterisk(c) ==
  /\ CallStarts(c) \/ DialEnds(c) \/ HangsUp(c)
  /\ UNCHANGED <<job, ci, memcached>>

----------------------------------------------------------------------------
process_events(w) ==
  /\ job[w] = None /\ queue # <<>>
  /\ job' = [job EXCEPT ![w] = Head(queue)]
  /\ queue' = Tail(queue)
  /\ overlap' = overlap \union {c \in {Head(queue).caller} : \E v \in Worker : job[v] # None /\ job[v].caller = c}
  /\ UNCHANGED <<call, stage, ci, memcached>>

set_memcached(c, value) == memcached' = [memcached EXCEPT ![c] = value]
(* Only a value that begins with D is a record.                             *)
Found(c) == memcached[c] \notin {None, Empty}
Done(w) == job' = [job EXCEPT ![w] = None] /\ ci' = [ci EXCEPT ![w] = None]

event_userevent_Kept(w) ==    \* faulty: DTMF_STOP only logs
  LET e == job[w]
  IN /\ \/ /\ e.name = "DTMF_START"
           /\ set_memcached(e.caller, [szChannel |-> e.call, szDestChannel |-> 0])
        \/ e.name = "DTMF_STOP" /\ UNCHANGED memcached
     /\ Done(w)
event_userevent(w) ==
  LET e == job[w]
  IN /\ \/ /\ e.name = "DTMF_START"
           /\ set_memcached(e.caller, [szChannel |-> e.call, szDestChannel |-> 0])
        \/ /\ e.name = "DTMF_STOP"
           /\ set_memcached(e.caller, Empty)
     /\ Done(w)

get_callinfo(w) ==
  LET e == job[w]
  IN /\ e.name = "DialEnd" /\ ci[w] = None
     /\ IF e.answer /\ Found(e.caller)
        THEN ci' = [ci EXCEPT ![w] = memcached[e.caller]] /\ UNCHANGED job
        ELSE Done(w)
     /\ UNCHANGED memcached

set_callinfo(w) ==
  LET e == job[w]
  IN /\ e.name = "DialEnd" /\ ci[w] # None
     /\ set_memcached(e.caller, [ci[w] EXCEPT !.szDestChannel = e.call])
     /\ Done(w)

event_dialend(w) == get_callinfo(w) \/ set_callinfo(w)

Handler(w) ==
  /\ job[w] # None
  /\ event_userevent(w) \/ event_dialend(w)
  /\ UNCHANGED <<call, stage, queue, overlap>>

(* A value stored for one second is gone.                                   *)
Expire(c) ==
  /\ memcached[c] = Empty
  /\ set_memcached(c, None)
  /\ UNCHANGED <<call, stage, queue, job, ci, overlap>>

Next ==
  \/ \E c \in Caller : Asterisk(c) \/ Expire(c)
  \/ \E w \in Worker : process_events(w) \/ Handler(w)

Spec == Init /\ [][Next]_vars
==============================================================================
