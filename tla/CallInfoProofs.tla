---------------------------- MODULE CallInfoProofs ----------------------------
(* The record of a call against Asterisk's events, for any callers, workers  *)
(* and numbers of calls.                                                     *)
EXTENDS CallInfoProps, SequenceTheorems, TLAPS

Stage == {"up", "answered", "failed", "down"}

(* A worker has read a record only for a DialEnd with an answer.            *)
CallTypes ==
  /\ call \in [Caller -> 0 .. MaxCall] /\ stage \in [Caller -> Stage] /\ overlap \subseteq Caller
  /\ \A c \in Caller : stage[c] # "down" => call[c] # 0
  /\ queue \in Seq(Event) /\ job \in [Worker -> Event \union {None}]
  /\ memcached \in [Caller -> CallInfo_t \union {Empty, None}]
  /\ ci \in [Worker -> CallInfo_t \union {None}]
  /\ \A w \in Worker : ci[w] # None => job[w] # None /\ job[w].name = "DialEnd" /\ job[w].answer

----------------------------------------------------------------------------
(* The events of one caller in a sequence of events                         *)

Mine(q, i, c) == i \in DOMAIN q /\ q[i].caller = c
NoneOf(q, c) == \A i \in DOMAIN q : ~Mine(q, i, c)
First(q, i, c) == Mine(q, i, c) /\ \A j \in DOMAIN q : Mine(q, j, c) => i <= j
Final(q, i, c) == Mine(q, i, c) /\ \A j \in DOMAIN q : Mine(q, j, c) => j <= i
Adjacent(q, i, j, c) ==
  /\ Mine(q, i, c) /\ Mine(q, j, c) /\ i < j
  /\ \A k \in DOMAIN q : Mine(q, k, c) => k <= i \/ j <= k

LEMMA TailOf ==
  ASSUME NEW S, NEW s \in Seq(S), s # <<>>
  PROVE  /\ Head(s) = s[1] /\ 1 \in DOMAIN s /\ Head(s) \in S /\ Tail(s) \in Seq(S)
         /\ DOMAIN s \subseteq Nat \ {0}
         /\ \A i \in DOMAIN Tail(s) : i \in Nat \ {0} /\ i + 1 \in DOMAIN s /\ Tail(s)[i] = s[i + 1]
         /\ \A i \in DOMAIN s : i # 1 => i - 1 \in DOMAIN Tail(s) /\ Tail(s)[i - 1] = s[i]
<1>1. Len(s) \in Nat \ {0} /\ DOMAIN s = 1 .. Len(s)
  BY EmptySeq, LenProperties
<1>2. Head(s) \in S /\ Tail(s) \in Seq(S) /\ Len(Tail(s)) = Len(s) - 1
  BY HeadTailProperties
<1>3. DOMAIN Tail(s) = 1 .. Len(s) - 1
  BY <1>1, <1>2, LenProperties
<1>4. \A i \in 1 .. Len(s) - 1 : Tail(s)[i] = s[i + 1]
  BY <1>1, <1>2, HeadTailProperties
<1>5. Head(s) = s[1]
  OBVIOUS
<1>6. \A i \in DOMAIN s : i # 1 => i - 1 \in 1 .. Len(s) - 1 /\ (i - 1) + 1 = i
  BY <1>1
<1>7. \A i \in 1 .. Len(s) - 1 : i \in Nat \ {0} /\ i + 1 \in 1 .. Len(s)
  BY <1>1
<1> QED BY <1>1, <1>2, <1>3, <1>4, <1>5, <1>6, <1>7

(* What one event at the end, or one taken from the front, changes.         *)
LEMMA AppendLine ==
  ASSUME NEW q \in Seq(Event), NEW e \in Event, NEW p, p = Append(q, e), NEW c
  PROVE  /\ p \in Seq(Event) /\ Len(p) \in DOMAIN p /\ p[Len(p)] = e
         /\ \A i \in DOMAIN q : i \in DOMAIN p /\ i < Len(p) /\ p[i] = q[i]
         /\ \A i \in DOMAIN p : i \in DOMAIN q \/ i = Len(p)
<1>1. Len(q) \in Nat /\ DOMAIN q = 1 .. Len(q)
  BY LenProperties
<1>2. /\ p \in Seq(Event) /\ Len(p) = Len(q) + 1 /\ p[Len(q) + 1] = e
      /\ \A i \in 1 .. Len(q) : p[i] = q[i]
  BY AppendProperties
<1>3. DOMAIN p = 1 .. Len(q) + 1
  BY <1>2, LenProperties
<1> QED BY <1>1, <1>2, <1>3

(* p is q with the event e of c at its end                                  *)
Grown(p, q, e, c) ==
  /\ ~NoneOf(p, c)
  /\ \A i : Final(p, i, c) => p[i] = e
  /\ \A i : First(p, i, c) => (First(q, i, c) /\ p[i] = q[i]) \/ (NoneOf(q, c) /\ p[i] = e)
  /\ \A i, j : Adjacent(p, i, j, c) =>
       \/ Adjacent(q, i, j, c) /\ p[i] = q[i] /\ p[j] = q[j]
       \/ Final(q, i, c) /\ p[i] = q[i] /\ p[j] = e

LEMMA AppendMine ==
  ASSUME NEW q \in Seq(Event), NEW e \in Event, NEW p, p = Append(q, e), NEW c, e.caller = c
  PROVE  Grown(p, q, e, c)
<1>1. /\ Len(p) \in DOMAIN p /\ p[Len(p)] = e
      /\ \A i \in DOMAIN q : i \in DOMAIN p /\ i < Len(p) /\ p[i] = q[i]
      /\ \A i \in DOMAIN p : i \in DOMAIN q \/ i = Len(p)
  BY AppendLine
<1>2. DOMAIN q \subseteq Int /\ Len(p) \in Int
  BY LenProperties, AppendProperties
<1>3. Mine(p, Len(p), c) /\ \A i \in DOMAIN q : Mine(p, i, c) <=> Mine(q, i, c)
  BY <1>1 DEF Mine
<1>4. ~NoneOf(p, c)
  BY <1>1, <1>3 DEF NoneOf
<1>5. ASSUME NEW i, Final(p, i, c) PROVE p[i] = e
  BY <1>1, <1>2, <1>3, <1>5 DEF Final, Mine
<1>6. ASSUME NEW i, First(p, i, c)
      PROVE  (First(q, i, c) /\ p[i] = q[i]) \/ (NoneOf(q, c) /\ p[i] = e)
  <2>1. CASE i \in DOMAIN q
    BY <1>1, <1>3, <1>6, <2>1 DEF First
  <2>2. CASE i = Len(p)
    BY <1>1, <1>2, <1>3, <1>6, <2>2 DEF First, NoneOf
  <2> QED BY <1>1, <1>6, <2>1, <2>2 DEF First, Mine
<1>7. ASSUME NEW i, NEW j, Adjacent(p, i, j, c)
      PROVE  \/ Adjacent(q, i, j, c) /\ p[i] = q[i] /\ p[j] = q[j]
             \/ Final(q, i, c) /\ p[i] = q[i] /\ p[j] = e
  <2>1. i \in DOMAIN p /\ j \in DOMAIN p /\ i < j
    BY <1>7 DEF Adjacent, Mine
  <2>2. i \in DOMAIN q
    BY <1>1, <1>2, <2>1
  <2>3. CASE j \in DOMAIN q
    BY <1>1, <1>3, <1>7, <2>2, <2>3 DEF Adjacent
  <2>4. CASE j = Len(p)
    <3>1. \A k \in DOMAIN q : Mine(q, k, c) => k <= i
      BY <1>1, <1>2, <1>3, <1>7, <2>2, <2>4 DEF Adjacent
    <3> QED BY <1>1, <1>3, <1>7, <2>2, <2>4, <3>1 DEF Adjacent, Final
  <2> QED BY <1>1, <2>1, <2>3, <2>4
<1> QED BY <1>4, <1>5, <1>6, <1>7 DEF Grown

(* p has the same events of c as q                                          *)
Same(p, q, c) ==
  /\ NoneOf(p, c) <=> NoneOf(q, c)
  /\ \A i : Final(p, i, c) => Final(q, i, c) /\ p[i] = q[i]
  /\ \A i : First(p, i, c) => First(q, i, c) /\ p[i] = q[i]
  /\ \A i, j : Adjacent(p, i, j, c) => Adjacent(q, i, j, c) /\ p[i] = q[i] /\ p[j] = q[j]

LEMMA AppendOther ==
  ASSUME NEW q \in Seq(Event), NEW e \in Event, NEW p, p = Append(q, e), NEW c, e.caller # c
  PROVE  Same(p, q, c)
<1>1. /\ Len(p) \in DOMAIN p /\ p[Len(p)] = e
      /\ \A i \in DOMAIN q : i \in DOMAIN p /\ i < Len(p) /\ p[i] = q[i]
      /\ \A i \in DOMAIN p : i \in DOMAIN q \/ i = Len(p)
  BY AppendLine
<1>2. \A i : Mine(p, i, c) <=> Mine(q, i, c)
  BY <1>1 DEF Mine
<1>3. \A i : Mine(q, i, c) => p[i] = q[i] /\ i \in DOMAIN p
  BY <1>1 DEF Mine
<1>4. NoneOf(p, c) <=> NoneOf(q, c)
  BY <1>1, <1>2 DEF NoneOf, Mine
<1>5. \A i : Final(p, i, c) => Final(q, i, c) /\ p[i] = q[i]
  BY <1>2, <1>3 DEF Final
<1>6. \A i : First(p, i, c) => First(q, i, c) /\ p[i] = q[i]
  BY <1>2, <1>3 DEF First
<1>7. \A i, j : Adjacent(p, i, j, c) => Adjacent(q, i, j, c) /\ p[i] = q[i] /\ p[j] = q[j]
  BY <1>2, <1>3 DEF Adjacent
<1> QED BY <1>4, <1>5, <1>6, <1>7 DEF Same

(* p is q without its first event                                           *)
Shrunk(p, q, c) ==
  /\ \A i : Final(p, i, c) => Final(q, i + 1, c) /\ p[i] = q[i + 1]
  /\ \A i, j : Adjacent(p, i, j, c) =>
       Adjacent(q, i + 1, j + 1, c) /\ p[i] = q[i + 1] /\ p[j] = q[j + 1]
  /\ q[1].caller # c =>
       /\ NoneOf(p, c) <=> NoneOf(q, c)
       /\ \A i : First(p, i, c) => First(q, i + 1, c) /\ p[i] = q[i + 1]
  /\ q[1].caller = c =>
       /\ First(q, 1, c)
       /\ NoneOf(p, c) => Final(q, 1, c)
       /\ \A i : First(p, i, c) => Adjacent(q, 1, i + 1, c) /\ p[i] = q[i + 1]

LEMMA TailLine ==
  ASSUME NEW q \in Seq(Event), q # <<>>, NEW p, p = Tail(q), NEW c
  PROVE  Shrunk(p, q, c)
<1>1. /\ 1 \in DOMAIN q /\ DOMAIN q \subseteq Nat \ {0}
      /\ \A i \in DOMAIN p : i \in Nat \ {0} /\ i + 1 \in DOMAIN q /\ p[i] = q[i + 1]
      /\ \A i \in DOMAIN q : i # 1 => i - 1 \in DOMAIN p /\ p[i - 1] = q[i]
  BY TailOf
<1>2. \A i \in DOMAIN p : Mine(p, i, c) <=> Mine(q, i + 1, c)
  BY <1>1 DEF Mine
<1>3. \A k \in DOMAIN q : k # 1 /\ Mine(q, k, c) =>
        k - 1 \in DOMAIN p /\ Mine(p, k - 1, c) /\ k \in Nat \ {0}
  BY <1>1 DEF Mine
<1>4. \A i : Mine(p, i, c) => i \in DOMAIN p /\ i \in Nat \ {0} /\ Mine(q, i + 1, c) /\ p[i] = q[i + 1]
  BY <1>1, <1>2 DEF Mine
<1>5. ASSUME NEW i, Final(p, i, c) PROVE Final(q, i + 1, c) /\ p[i] = q[i + 1]
  <2>1. i \in Nat \ {0} /\ Mine(q, i + 1, c) /\ p[i] = q[i + 1]
    BY <1>4, <1>5 DEF Final
  <2>2. ASSUME NEW k \in DOMAIN q, Mine(q, k, c) PROVE k <= i + 1
    <3>1. CASE k = 1 BY <2>1, <3>1
    <3>2. CASE k # 1
      <4>1. k - 1 <= i /\ k \in Nat BY <1>3, <1>5, <2>2, <3>2 DEF Final
      <4> QED BY <2>1, <4>1
    <3> QED BY <3>1, <3>2
  <2> QED BY <2>1, <2>2 DEF Final
<1>6. ASSUME NEW i, NEW j, Adjacent(p, i, j, c)
      PROVE  Adjacent(q, i + 1, j + 1, c) /\ p[i] = q[i + 1] /\ p[j] = q[j + 1]
  <2>1. /\ i \in Nat \ {0} /\ Mine(q, i + 1, c) /\ p[i] = q[i + 1]
        /\ j \in Nat \ {0} /\ Mine(q, j + 1, c) /\ p[j] = q[j + 1] /\ i < j
    BY <1>4, <1>6 DEF Adjacent
  <2>2. ASSUME NEW k \in DOMAIN q, Mine(q, k, c) PROVE k <= i + 1 \/ j + 1 <= k
    <3>1. CASE k = 1 BY <2>1, <3>1
    <3>2. CASE k # 1
      <4>1. (k - 1 <= i \/ j <= k - 1) /\ k \in Nat BY <1>3, <1>6, <2>2, <3>2 DEF Adjacent
      <4> QED BY <2>1, <4>1
    <3> QED BY <3>1, <3>2
  <2>3. i + 1 < j + 1 BY <2>1
  <2> QED BY <2>1, <2>2, <2>3 DEF Adjacent
<1>7. ASSUME q[1].caller # c
      PROVE  /\ NoneOf(p, c) <=> NoneOf(q, c)
             /\ \A i : First(p, i, c) => First(q, i + 1, c) /\ p[i] = q[i + 1]
  <2>1. ~Mine(q, 1, c) BY <1>7 DEF Mine
  <2>2. NoneOf(p, c) <=> NoneOf(q, c) BY <1>3, <1>4, <2>1 DEF NoneOf, Mine
  <2>3. ASSUME NEW i, First(p, i, c) PROVE First(q, i + 1, c) /\ p[i] = q[i + 1]
    <3>1. i \in Nat \ {0} /\ Mine(q, i + 1, c) /\ p[i] = q[i + 1]
      BY <1>4, <2>3 DEF First
    <3>2. ASSUME NEW k \in DOMAIN q, Mine(q, k, c) PROVE i + 1 <= k
      <4>1. i <= k - 1 /\ k \in Nat BY <1>3, <2>1, <2>3, <3>2 DEF First
      <4> QED BY <3>1, <4>1
    <3> QED BY <3>1, <3>2 DEF First
  <2> QED BY <2>2, <2>3
<1>8. ASSUME q[1].caller = c
      PROVE  /\ First(q, 1, c)
             /\ NoneOf(p, c) => Final(q, 1, c)
             /\ \A i : First(p, i, c) => Adjacent(q, 1, i + 1, c) /\ p[i] = q[i + 1]
  <2>1. Mine(q, 1, c) BY <1>1, <1>8 DEF Mine
  <2>2. First(q, 1, c) BY <1>1, <2>1 DEF First
  <2>3. NoneOf(p, c) => Final(q, 1, c)
    <3> SUFFICES ASSUME NoneOf(p, c), NEW k \in DOMAIN q, Mine(q, k, c) PROVE k <= 1
      BY <2>1 DEF Final
    <3>1. k = 1 BY <1>3 DEF NoneOf
    <3> QED BY <3>1
  <2>4. ASSUME NEW i, First(p, i, c) PROVE Adjacent(q, 1, i + 1, c) /\ p[i] = q[i + 1]
    <3>1. i \in Nat \ {0} /\ Mine(q, i + 1, c) /\ p[i] = q[i + 1]
      BY <1>4, <2>4 DEF First
    <3>2. ASSUME NEW k \in DOMAIN q, Mine(q, k, c) PROVE k <= 1 \/ i + 1 <= k
      <4>1. CASE k = 1 BY <4>1
      <4>2. CASE k # 1
        <5>1. i <= k - 1 /\ k \in Nat BY <1>3, <2>4, <3>2, <4>2 DEF First
        <5> QED BY <3>1, <5>1
      <4> QED BY <4>1, <4>2
    <3>3. 1 < i + 1 BY <3>1
    <3> QED BY <2>1, <3>1, <3>2, <3>3 DEF Adjacent
  <2> QED BY <2>2, <2>3, <2>4
<1> QED BY <1>5, <1>6, <1>7, <1>8 DEF Shrunk
----------------------------------------------------------------------------
(* RecordFollowsCall looks at the moments when no event is left.  In        *)
(* between, the events of a caller that are left follow each other as the   *)
(* dialplan emitted them, the last one is that of the stage the call is in, *)
(* and the next one finds the record as the event before it leaves it.      *)

Follows(e, f) == f.name = "DialEnd" => e.name = "DTMF_START" /\ e.call = f.call

(* Of which stage e is the last event                                       *)
LastEvent(e, c) ==
  \/ stage[c] = "up" /\ e.name = "DTMF_START" /\ e.call = call[c]
  \/ stage[c] = "answered" /\ e.name = "DialEnd" /\ e.call = call[c] /\ e.answer
  \/ stage[c] = "failed" /\ e.name = "DialEnd" /\ e.call = call[c] /\ ~e.answer
  \/ stage[c] = "down" /\ e.name = "DTMF_STOP"

(* The record as DTMF_START leaves it, and what e must find.                *)
Started(n) == [szChannel |-> n, szDestChannel |-> 0]
Finds(e, r) == e.name = "DialEnd" => r = Started(e.call)

Handles(w, c) == job[w] # None /\ job[w].caller = c
Idle(c) == \A w \in Worker : ~Handles(w, c)

OneWorker(c) == \A v, w \in Worker : Handles(v, c) /\ Handles(w, c) => v = w
QueueInv(c) ==
  /\ \A i, j : Adjacent(queue, i, j, c) => Follows(queue[i], queue[j])
  /\ \A i : Final(queue, i, c) => LastEvent(queue[i], c)
JobInv(w, c) ==
  /\ \A i : First(queue, i, c) => Follows(job[w], queue[i])
  /\ NoneOf(queue, c) => LastEvent(job[w], c)
  /\ Finds(job[w], memcached[c])
  /\ ci[w] # None => ci[w] = memcached[c]
IdleInv(c) ==
  /\ \A i : First(queue, i, c) => Finds(queue[i], memcached[c])
  /\ NoneOf(queue, c) => IF stage[c] = "down" THEN ~Found(c) ELSE RecordOfCall(c)
InLine(c) ==
  /\ OneWorker(c) /\ QueueInv(c) /\ \A w \in Worker : Handles(w, c) => JobInv(w, c)
  /\ Idle(c) => IdleInv(c)
CallInv == CallTypes /\ \A c \in Caller \ overlap : InLine(c)

LEMMA NothingPending ==
  ASSUME NEW c
  PROVE  Pending(c) <=> ~Idle(c) \/ ~NoneOf(queue, c)
BY DEF Pending, Idle, Handles, NoneOf, Mine

LEMMA StartedIsRecord ==
  ASSUME NEW n \in 0 .. MaxCall
  PROVE  Started(n) \in CallInfo_t /\ Started(n) \notin {None, Empty}
BY CallInfoAssumption DEF Started, CallInfo_t

LEMMA InitCallInv == Init => CallInv
<1> SUFFICES ASSUME Init PROVE CallInv
  OBVIOUS
<1>1. CallTypes
  BY CallInfoAssumption, EmptySeq DEF Init, CallTypes, Stage
<1>2. \A c, i : ~Mine(queue, i, c)
  BY DEF Init, Mine
<1>3. \A c \in Caller : InLine(c)
  <2> SUFFICES ASSUME NEW c \in Caller PROVE InLine(c)
    OBVIOUS
  <2>1. \A w \in Worker : ~Handles(w, c) BY DEF Init, Handles
  <2>2. QueueInv(c) BY <1>2 DEF QueueInv, Adjacent, Final
  <2>3. IdleInv(c) BY <1>2 DEF IdleInv, First, Init, Found
  <2> QED BY <2>1, <2>2, <2>3 DEF InLine, OneWorker
<1> QED BY <1>1, <1>3 DEF CallInv

----------------------------------------------------------------------------
(* The steps of a call: one more event of its caller.                       *)

LEMMA EmitKeeps ==
  ASSUME CallTypes, NEW c0 \in Caller, NEW e \in Event, e.caller = c0,
         queue' = Append(queue, e), UNCHANGED <<job, ci, memcached>>,
         NEW c \in Caller, InLine(c),
         c # c0 => stage'[c] = stage[c] /\ call'[c] = call[c],
         c = c0 => \A f : f = e => LastEvent(f, c)',
         c = c0 => \A f : LastEvent(f, c) => Follows(f, e),
         c = c0 /\ stage[c] # "down" /\ RecordOfCall(c) => Finds(e, memcached[c]),
         c = c0 /\ stage[c] = "down" => e.name # "DialEnd"
  PROVE  InLine(c)'
<1>1. \A w : Handles(w, c)' <=> Handles(w, c)
  BY DEF Handles
<1>2. OneWorker(c)' /\ (Idle(c)' <=> Idle(c))
  BY <1>1 DEF InLine, OneWorker, Idle
<1>3. queue \in Seq(Event)
  BY DEF CallTypes
<1>4. CASE c # c0
  <2>1. Same(queue', queue, c) BY <1>3, <1>4, AppendOther
  <2>2. \A f : LastEvent(f, c)' <=> LastEvent(f, c)
    BY <1>4 DEF LastEvent
  <2>3. QueueInv(c)'
    BY <2>1, <2>2 DEF InLine, QueueInv, Same
  <2>4. \A w \in Worker : Handles(w, c) => JobInv(w, c)'
    BY <2>1, <2>2 DEF InLine, JobInv, Same
  <2>5. IdleInv(c) => IdleInv(c)'
    BY <1>4, <2>1 DEF IdleInv, RecordOfCall, Found, Same
  <2> QED BY <1>1, <1>2, <2>3, <2>4, <2>5 DEF InLine
<1>5. CASE c = c0
  <2>1. Grown(queue', queue, e, c) BY <1>3, <1>5, AppendMine
  <2>2. (\A f : f = e => LastEvent(f, c)') /\ \A f : LastEvent(f, c) => Follows(f, e)
    BY <1>5
  <2>3. \A i : Final(queue', i, c) => LastEvent(queue[i], c)'
    BY <2>1, <2>2 DEF LastEvent, Grown
  <2>4. QueueInv(c)'
    BY <2>1, <2>2, <2>3 DEF InLine, QueueInv, Grown
  <2>5. \A w \in Worker : Handles(w, c) => JobInv(w, c)'
    <3> SUFFICES ASSUME NEW w \in Worker, Handles(w, c) PROVE JobInv(w, c)'
      OBVIOUS
    <3>1. JobInv(w, c) BY DEF InLine
    <3>2. \A i : First(queue', i, c) => Follows(job[w], queue'[i])
      BY <2>1, <2>2, <3>1 DEF JobInv, Grown
    <3> QED BY <2>1, <3>1, <3>2 DEF JobInv, Grown
  <2>6. Idle(c) => IdleInv(c)'
    <3> SUFFICES ASSUME Idle(c), NEW i, First(queue', i, c) PROVE Finds(queue'[i], memcached[c])
      BY <2>1 DEF IdleInv, Grown
    <3>1. IdleInv(c) BY DEF InLine
    <3>2. CASE First(queue, i, c) /\ queue'[i] = queue[i] BY <3>1, <3>2 DEF IdleInv
    <3>3. CASE NoneOf(queue, c) /\ queue'[i] = e
      BY <1>5, <3>1, <3>3 DEF IdleInv, Finds
    <3> QED BY <2>1, <3>2, <3>3 DEF Grown
  <2> QED BY <1>1, <1>2, <2>4, <2>5, <2>6 DEF InLine
<1> QED BY <1>4, <1>5

LEMMA AsteriskKeeps ==
  ASSUME CallInv, NEW c0 \in Caller, Asterisk(c0)
  PROVE  CallInv'
<1>0. CallTypes /\ UNCHANGED <<job, ci, memcached>>
  BY DEF CallInv, Asterisk
<1>1. CASE CallStarts(c0)
  <2>0. PICK e : e = [name |-> "DTMF_START", caller |-> c0, call |-> call[c0] + 1, answer |-> FALSE]
    OBVIOUS
  <2>1. /\ stage[c0] = "down" /\ call[c0] < MaxCall /\ queue' = Append(queue, e)
        /\ stage' = [stage EXCEPT ![c0] = "up"] /\ call' = [call EXCEPT ![c0] = @ + 1]
        /\ overlap' = IF Pending(c0) THEN overlap ELSE overlap \ {c0}
    BY <1>1, <2>0 DEF CallStarts, Emit
  <2>2. e \in Event /\ e.caller = c0 /\ e.name = "DTMF_START" /\ call[c0] + 1 \in 1 .. MaxCall
    BY <1>0, <2>0, <2>1, CallInfoAssumption DEF CallTypes, Event
  <2>3. CallTypes'
    <3>1. queue' \in Seq(Event) BY <1>0, <2>1, <2>2, AppendProperties DEF CallTypes
    <3>2. call' \in [Caller -> 0 .. MaxCall] /\ stage' \in [Caller -> Stage]
      BY <1>0, <2>1, <2>2 DEF CallTypes, Stage
    <3>3. \A c \in Caller : stage'[c] # "down" => call'[c] # 0
      BY <1>0, <2>1, <2>2 DEF CallTypes
    <3> QED BY <1>0, <2>1, <3>1, <3>2, <3>3 DEF CallTypes
  <2>4. ASSUME NEW c \in Caller, InLine(c) PROVE InLine(c)'
    <3>1. c # c0 => stage'[c] = stage[c] /\ call'[c] = call[c]
      BY <1>0, <2>1 DEF CallTypes
    <3>2. c = c0 => \A f : f = e => LastEvent(f, c)'
      BY <1>0, <2>0, <2>1 DEF CallTypes, LastEvent
    <3>3. \A f : Follows(f, e)
      BY <2>2 DEF Follows
    <3> QED BY <1>0, <2>1, <2>2, <2>4, <3>1, <3>2, <3>3, EmitKeeps
  <2>5. CASE c0 \notin overlap \/ Pending(c0)
    <3>1. overlap' = overlap BY <1>0, <2>1, <2>5 DEF CallTypes
    <3> QED BY <2>3, <2>4, <3>1 DEF CallInv
  <2>6. CASE ~Pending(c0)
    <3>1. Idle(c0) /\ NoneOf(queue, c0) BY <2>6, NothingPending
    <3>2. Grown(queue', queue, e, c0)
      <4>1. queue \in Seq(Event) BY <1>0 DEF CallTypes
      <4> QED BY <2>1, <2>2, <4>1, AppendMine
    <3>3. /\ \A i : ~First(queue, i, c0) /\ ~Final(queue, i, c0)
          /\ \A i, j : ~Adjacent(queue, i, j, c0)
      BY <3>1 DEF NoneOf, First, Final, Adjacent, Mine
    <3>4. \A i : Final(queue', i, c0) => LastEvent(queue[i], c0)'
      <4>1. \A i : Final(queue', i, c0) => queue'[i] = e BY <3>2 DEF Grown
      <4>2. stage'[c0] = "up" /\ call'[c0] = e.call /\ e.name = "DTMF_START"
        BY <1>0, <2>0, <2>1 DEF CallTypes
      <4> QED BY <4>1, <4>2 DEF LastEvent
    <3>5. QueueInv(c0)' BY <3>2, <3>3, <3>4 DEF QueueInv, Grown
    <3>6. IdleInv(c0)' BY <2>2, <3>2, <3>3 DEF IdleInv, Finds, Grown
    <3>7. \A w \in Worker : ~Handles(w, c0)' BY <1>0, <3>1 DEF Idle, Handles
    <3>8. InLine(c0)' BY <3>5, <3>6, <3>7 DEF InLine, OneWorker
    <3>9. \A c \in Caller \ overlap' : c = c0 \/ c \notin overlap BY <2>1
    <3> QED BY <2>3, <2>4, <3>8, <3>9 DEF CallInv
  <2> QED BY <2>5, <2>6
<1>2. CASE DialEnds(c0)
  <2>1. PICK answer \in BOOLEAN :
          /\ stage' = [stage EXCEPT ![c0] = IF answer THEN "answered" ELSE "failed"]
          /\ Emit("DialEnd", c0, call[c0], answer)
    BY <1>2 DEF DialEnds
  <2>2. stage[c0] = "up" /\ UNCHANGED <<call, overlap>>
    BY <1>2 DEF DialEnds
  <2>0. PICK e : e = [name |-> "DialEnd", caller |-> c0, call |-> call[c0], answer |-> answer]
    OBVIOUS
  <2>3. queue' = Append(queue, e)
    BY <2>0, <2>1 DEF Emit
  <2>4. e \in Event /\ e.caller = c0
    BY <1>0, <2>0, <2>2, CallInfoAssumption DEF CallTypes, Event
  <2>5. CallTypes'
    <3>1. queue' \in Seq(Event) BY <1>0, <2>3, <2>4, AppendProperties DEF CallTypes
    <3>2. stage' \in [Caller -> Stage] BY <1>0, <2>1 DEF CallTypes, Stage
    <3>3. \A c \in Caller : stage'[c] # "down" => call'[c] # 0
      BY <1>0, <2>1, <2>2 DEF CallTypes
    <3> QED BY <1>0, <2>2, <3>1, <3>2, <3>3 DEF CallTypes
  <2>6. ASSUME NEW c \in Caller, InLine(c) PROVE InLine(c)'
    <3>1. c # c0 => stage'[c] = stage[c] /\ call'[c] = call[c]
      BY <1>0, <2>1, <2>2 DEF CallTypes
    <3>2. c = c0 => \A f : f = e => LastEvent(f, c)'
      BY <1>0, <2>0, <2>1, <2>2 DEF CallTypes, LastEvent
    <3>3. c = c0 => \A f : LastEvent(f, c) => Follows(f, e)
      BY <2>0, <2>2 DEF Follows, LastEvent
    <3>4. c = c0 /\ RecordOfCall(c) => Finds(e, memcached[c])
      BY <2>0, <2>2 DEF RecordOfCall, Finds, Started
    <3> QED BY <1>0, <2>2, <2>3, <2>4, <2>6, <3>1, <3>2, <3>3, <3>4, EmitKeeps
  <2> QED BY <2>2, <2>5, <2>6 DEF CallInv
<1>3. CASE HangsUp(c0)
  <2>0. PICK e : e = [name |-> "DTMF_STOP", caller |-> c0, call |-> call[c0], answer |-> FALSE]
    OBVIOUS
  <2>1. /\ stage[c0] # "down" /\ stage' = [stage EXCEPT ![c0] = "down"]
        /\ queue' = Append(queue, e) /\ UNCHANGED <<call, overlap>>
    BY <1>3, <2>0 DEF HangsUp, Emit
  <2>2. e \in Event /\ e.caller = c0 /\ e.name = "DTMF_STOP"
    BY <1>0, <2>0, <2>1, CallInfoAssumption DEF CallTypes, Event
  <2>3. CallTypes'
    <3>1. queue' \in Seq(Event) BY <1>0, <2>1, <2>2, AppendProperties DEF CallTypes
    <3>2. stage' \in [Caller -> Stage] BY <1>0, <2>1 DEF CallTypes, Stage
    <3>3. \A c \in Caller : stage'[c] # "down" => call'[c] # 0
      BY <1>0, <2>1 DEF CallTypes
    <3> QED BY <1>0, <2>1, <3>1, <3>2, <3>3 DEF CallTypes
  <2>4. ASSUME NEW c \in Caller, InLine(c) PROVE InLine(c)'
    <3>1. c # c0 => stage'[c] = stage[c] /\ call'[c] = call[c]
      BY <1>0, <2>1 DEF CallTypes
    <3>2. c = c0 => \A f : f = e => LastEvent(f, c)'
      BY <1>0, <2>0, <2>1 DEF CallTypes, LastEvent
    <3>3. /\ \A f : Follows(f, e)
          /\ Finds(e, memcached[c])
      BY <2>2 DEF Follows, Finds
    <3> QED BY <1>0, <2>1, <2>2, <2>4, <3>1, <3>2, <3>3, EmitKeeps
  <2> QED BY <2>1, <2>3, <2>4 DEF CallInv
<1> QED BY <1>1, <1>2, <1>3 DEF Asterisk
----------------------------------------------------------------------------
(* The workers                                                              *)

(* An event of another caller is taken.                                     *)
LEMMA TakeOther ==
  ASSUME CallTypes, NEW w \in Worker, process_events(w),
         NEW c \in Caller, Head(queue).caller # c, InLine(c)
  PROVE  InLine(c)'
<1>1. /\ job[w] = None /\ queue # <<>> /\ queue \in Seq(Event) /\ queue' = Tail(queue)
      /\ job' = [job EXCEPT ![w] = Head(queue)] /\ UNCHANGED <<call, stage, ci, memcached>>
  BY DEF process_events, CallTypes
<1>2. Shrunk(queue', queue, c) /\ Head(queue) = queue[1] BY <1>1, TailLine, TailOf
<1>3. \A v \in Worker : /\ Handles(v, c)' <=> Handles(v, c)
                        /\ Handles(v, c) => job'[v] = job[v]
  BY <1>1 DEF Handles, CallTypes
<1>4. OneWorker(c)' /\ (Idle(c)' <=> Idle(c))
  BY <1>3 DEF InLine, OneWorker, Idle
<1>5. /\ NoneOf(queue', c) <=> NoneOf(queue, c)
      /\ \A i : First(queue', i, c) => First(queue, i + 1, c) /\ queue'[i] = queue[i + 1]
  BY <1>2 DEF Shrunk
<1>6. QueueInv(c)'
  <2>1. \A i : Final(queue', i, c) => LastEvent(queue'[i], c)
    BY <1>2 DEF InLine, QueueInv, Shrunk
  <2>2. \A i : Final(queue', i, c) => LastEvent(queue[i], c)'
    BY <1>1, <2>1 DEF LastEvent
  <2>3. \A i, j : Adjacent(queue', i, j, c) => Follows(queue'[i], queue'[j])
    BY <1>2 DEF InLine, QueueInv, Shrunk
  <2> QED BY <2>2, <2>3 DEF QueueInv
<1>7. ASSUME NEW v \in Worker, Handles(v, c) PROVE JobInv(v, c)'
  <2>1. JobInv(v, c) /\ job'[v] = job[v] /\ UNCHANGED <<call, stage, ci, memcached>>
    BY <1>1, <1>3, <1>7 DEF InLine
  <2>2. \A i : First(queue', i, c) => Follows(job[v], queue'[i])
    BY <1>5, <2>1 DEF JobInv
  <2>3. NoneOf(queue', c) => LastEvent(job[v], c)' BY <1>5, <2>1 DEF JobInv, LastEvent
  <2> QED BY <2>1, <2>2, <2>3 DEF JobInv
<1>8. IdleInv(c) => IdleInv(c)'
  BY <1>1, <1>5 DEF IdleInv, RecordOfCall, Found
<1> QED BY <1>3, <1>4, <1>6, <1>7, <1>8 DEF InLine

(* The event that is taken is the first of its caller.                      *)
LEMMA TakeMine ==
  ASSUME CallTypes, NEW w \in Worker, process_events(w),
         NEW c \in Caller, Head(queue).caller = c, InLine(c), Idle(c)
  PROVE  InLine(c)'
<1>1. /\ job[w] = None /\ queue # <<>> /\ queue \in Seq(Event) /\ queue' = Tail(queue)
      /\ job' = [job EXCEPT ![w] = Head(queue)] /\ UNCHANGED <<call, stage, ci, memcached>>
  BY DEF process_events, CallTypes
<1>2. Shrunk(queue', queue, c) /\ Head(queue) = queue[1] /\ Head(queue) \in Event
  BY <1>1, TailLine, TailOf
<1>3. job'[w] = Head(queue) /\ \A v \in Worker : Handles(v, c)' => v = w
  BY <1>1 DEF Idle, Handles, CallTypes
<1>4. Handles(w, c)'
  BY <1>2, <1>3, CallInfoAssumption DEF Handles
<1>5. /\ First(queue, 1, c)
      /\ NoneOf(queue', c) => Final(queue, 1, c)
      /\ \A i : First(queue', i, c) => Adjacent(queue, 1, i + 1, c) /\ queue'[i] = queue[i + 1]
  BY <1>2 DEF Shrunk
<1>6. QueueInv(c)'
  <2>1. \A i : Final(queue', i, c) => LastEvent(queue'[i], c)
    BY <1>2 DEF InLine, QueueInv, Shrunk
  <2>2. \A i : Final(queue', i, c) => LastEvent(queue[i], c)'
    BY <1>1, <2>1 DEF LastEvent
  <2>3. \A i, j : Adjacent(queue', i, j, c) => Follows(queue'[i], queue'[j])
    BY <1>2 DEF InLine, QueueInv, Shrunk
  <2> QED BY <2>2, <2>3 DEF QueueInv
<1>7. JobInv(w, c)'
  <2>1. \A i : First(queue', i, c) => Follows(job'[w], queue'[i])
    BY <1>2, <1>3, <1>5 DEF InLine, QueueInv
  <2>2. NoneOf(queue', c) => LastEvent(job[w], c)'
    <3>1. NoneOf(queue', c) => LastEvent(queue[1], c) BY <1>5 DEF InLine, QueueInv
    <3> QED BY <1>1, <1>2, <1>3, <3>1 DEF LastEvent
  <2>3. Finds(job'[w], memcached'[c])
    BY <1>1, <1>2, <1>3, <1>5 DEF InLine, IdleInv
  <2>4. ci'[w] = None
    BY <1>1 DEF CallTypes
  <2> QED BY <2>1, <2>2, <2>3, <2>4 DEF JobInv
<1> QED BY <1>3, <1>4, <1>6, <1>7 DEF InLine, OneWorker, Idle

LEMMA TakeKeeps ==
  ASSUME CallInv, NEW w \in Worker, process_events(w)
  PROVE  CallInv'
<1>1. /\ CallTypes /\ queue # <<>> /\ queue \in Seq(Event) /\ queue' = Tail(queue) /\ job[w] = None
      /\ job' = [job EXCEPT ![w] = Head(queue)] /\ UNCHANGED <<call, stage, ci, memcached>>
      /\ overlap' = overlap \union
           {c \in {Head(queue).caller} : \E v \in Worker : job[v] # None /\ job[v].caller = c}
  BY DEF process_events, CallInv, CallTypes
<1>2. Head(queue) \in Event /\ queue' \in Seq(Event)
  BY <1>1, TailOf
<1>3. Head(queue).caller \in Caller
  BY <1>2 DEF Event
<1>4. CallTypes'
  <2>1. job' \in [Worker -> Event \union {None}] BY <1>1, <1>2 DEF CallTypes
  <2>2. \A v \in Worker : ci[v] # None => v # w /\ job'[v] = job[v] BY <1>1 DEF CallTypes
  <2>3. \A v \in Worker : ci[v] # None => job'[v] # None /\ job'[v].name = "DialEnd" /\ job'[v].answer
    BY <1>1, <2>2 DEF CallTypes
  <2>4. overlap' \subseteq Caller BY <1>1, <1>3 DEF CallTypes
  <2> QED BY <1>1, <1>2, <2>1, <2>3, <2>4 DEF CallTypes
<1>5. ASSUME NEW c \in Caller \ overlap' PROVE InLine(c)'
  <2>1. InLine(c) BY <1>1 DEF CallInv
  <2>2. Head(queue).caller = c => Idle(c) BY <1>1 DEF Idle, Handles
  <2> QED BY <1>1, <2>1, <2>2, TakeOther, TakeMine
<1> QED BY <1>4, <1>5 DEF CallInv

(* A handler whose event is of another caller does not touch c's record.    *)
LEMMA HandleOther ==
  ASSUME CallTypes, NEW w \in Worker, NEW c \in Caller, InLine(c), ~Handles(w, c), ~Handles(w, c)',
         UNCHANGED <<call, stage, queue>>, memcached'[c] = memcached[c],
         \A v \in Worker : v # w => job'[v] = job[v] /\ ci'[v] = ci[v]
  PROVE  InLine(c)'
<1>1. \A v \in Worker : /\ Handles(v, c)' <=> Handles(v, c)
                        /\ Handles(v, c) => job'[v] = job[v] /\ ci'[v] = ci[v]
  BY DEF Handles
<1>2. OneWorker(c)' /\ (Idle(c)' <=> Idle(c))
  BY <1>1 DEF InLine, OneWorker, Idle
<1>3. QueueInv(c)' BY DEF InLine, QueueInv, LastEvent
<1>4. ASSUME NEW v \in Worker, Handles(v, c) PROVE JobInv(v, c)'
  BY <1>1, <1>4 DEF InLine, JobInv, LastEvent
<1>5. IdleInv(c) => IdleInv(c)' BY DEF IdleInv, RecordOfCall, Found
<1> QED BY <1>1, <1>2, <1>3, <1>4, <1>5 DEF InLine

(* A handler ends and leaves the record as the next event, or nobody, wants *)
(* to find it.                                                              *)
LEMMA HandlerEnds ==
  ASSUME CallTypes, NEW w \in Worker, NEW c \in Caller, InLine(c), Handles(w, c),
         UNCHANGED <<call, stage, queue>>, Done(w),
         job[w].name = "DTMF_START" => memcached'[c] = Started(job[w].call),
         job[w].name = "DTMF_STOP" => memcached'[c] = Empty,
         job[w].name = "DialEnd" /\ ~job[w].answer => memcached'[c] = Started(job[w].call),
         job[w].name = "DialEnd" /\ job[w].answer =>
           memcached'[c] = [szChannel |-> job[w].call, szDestChannel |-> job[w].call]
  PROVE  InLine(c)'
<1>1. job' = [job EXCEPT ![w] = None] /\ ci' = [ci EXCEPT ![w] = None]
  BY DEF Done
<1>2. JobInv(w, c) /\ \A v \in Worker : Handles(v, c) => v = w
  BY DEF InLine, OneWorker
<1>3. \A v \in Worker : ~Handles(v, c)'
  BY <1>1, <1>2 DEF Handles, CallTypes
<1>4. QueueInv(c)' BY DEF InLine, QueueInv, LastEvent
<1>5. job[w] \in Event BY DEF CallTypes, Handles
<1>6. ASSUME NEW i, First(queue, i, c) PROVE Finds(queue[i], memcached'[c])
  BY <1>2, <1>6 DEF JobInv, Follows, Finds
<1>7. ASSUME NoneOf(queue, c)
      PROVE  IF stage[c] = "down" THEN ~Found(c)' ELSE RecordOfCall(c)'
  <2>1. LastEvent(job[w], c) BY <1>2, <1>7 DEF JobInv
  <2>2. job[w].call \in 0 .. MaxCall BY <1>5, CallInfoAssumption DEF Event
  <2>3. Started(job[w].call) \notin {None, Empty} BY <2>2, StartedIsRecord
  <2>4. [szChannel |-> job[w].call, szDestChannel |-> job[w].call] \notin {None, Empty}
    BY <2>2, CallInfoAssumption DEF CallInfo_t
  <2>5. CASE stage[c] = "up" BY <2>1, <2>3, <2>5 DEF LastEvent, RecordOfCall, Found, Started
  <2>6. CASE stage[c] = "answered" BY <2>1, <2>4, <2>6 DEF LastEvent, RecordOfCall, Found
  <2>7. CASE stage[c] = "failed" BY <2>1, <2>3, <2>7 DEF LastEvent, RecordOfCall, Found, Started
  <2>8. CASE stage[c] = "down" BY <2>1, <2>8 DEF LastEvent, Found
  <2> QED BY <2>1, <2>5, <2>6, <2>7, <2>8 DEF LastEvent
<1>8. IdleInv(c)' BY <1>6, <1>7 DEF IdleInv
<1> QED BY <1>3, <1>4, <1>8 DEF InLine, OneWorker

LEMMA HandlerKeeps ==
  ASSUME CallInv, NEW w \in Worker, Handler(w)
  PROVE  CallInv'
<1> DEFINE e == job[w]
           c0 == e.caller
<1>1. /\ CallTypes /\ e # None /\ e \in Event /\ c0 \in Caller
      /\ UNCHANGED <<call, stage, queue, overlap>>
  BY DEF CallInv, CallTypes, Handler, Event
<1>2. e.call \in 0 .. MaxCall
  BY <1>1, CallInfoAssumption DEF Event
<1>3. \A c : Handles(w, c) <=> c = c0
  BY <1>1 DEF Handles
<1>4. ASSUME Done(w), NEW r \in CallInfo_t \union {Empty, None}, set_memcached(c0, r),
             e.name = "DTMF_START" => r = Started(e.call),
             e.name = "DTMF_STOP" => r = Empty,
             c0 \notin overlap /\ e.name = "DialEnd" =>
               r = IF e.answer THEN [szChannel |-> e.call, szDestChannel |-> e.call] ELSE Started(e.call)
      PROVE  CallInv'
  <2>1. /\ job' = [job EXCEPT ![w] = None] /\ ci' = [ci EXCEPT ![w] = None]
        /\ memcached' = [memcached EXCEPT ![c0] = r]
    BY <1>4 DEF Done, set_memcached
  <2>2. CallTypes' BY <1>1, <1>4, <2>1 DEF CallTypes
  <2>3. ASSUME NEW c \in Caller \ overlap PROVE InLine(c)'
    <3>1. InLine(c) BY DEF CallInv
    <3>2. CASE c = c0
      <4>1. memcached'[c] = r BY <1>1, <2>1, <3>2 DEF CallTypes
      <4>2. Handles(w, c) BY <1>3, <3>2
      <4>3. /\ job[w].name = "DTMF_START" => memcached'[c] = Started(job[w].call)
            /\ job[w].name = "DTMF_STOP" => memcached'[c] = Empty
            /\ job[w].name = "DialEnd" /\ ~job[w].answer => memcached'[c] = Started(job[w].call)
            /\ job[w].name = "DialEnd" /\ job[w].answer =>
                 memcached'[c] = [szChannel |-> job[w].call, szDestChannel |-> job[w].call]
        BY <1>4, <2>3, <3>2, <4>1
      <4> QED BY <1>1, <1>4, <3>1, <4>2, <4>3, HandlerEnds
    <3>3. CASE c # c0
      <4>1. memcached'[c] = memcached[c] BY <1>1, <2>1, <3>3 DEF CallTypes
      <4>2. ~Handles(w, c) BY <1>3, <3>3
      <4>3. ~Handles(w, c)' BY <1>1, <2>1 DEF Handles, CallTypes
      <4>4. \A v \in Worker : v # w => job'[v] = job[v] /\ ci'[v] = ci[v]
        BY <1>1, <2>1 DEF CallTypes
      <4> QED BY <1>1, <3>1, <4>1, <4>2, <4>3, <4>4, HandleOther
    <3> QED BY <3>2, <3>3
  <2> QED BY <1>1, <2>2, <2>3 DEF CallInv
<1>5. memcached[c0] \in CallInfo_t \union {Empty, None}
  BY <1>1 DEF CallTypes
<1>6. c0 \notin overlap => Finds(e, memcached[c0]) /\ (ci[w] # None => ci[w] = memcached[c0])
  BY <1>1, <1>3 DEF CallInv, InLine, JobInv
<1>7. Started(e.call) \in CallInfo_t /\ Started(e.call) \notin {None, Empty}
  BY <1>2, StartedIsRecord
<1>8. CASE event_userevent(w)
  <2>1. CASE e.name = "DTMF_START" /\ set_memcached(c0, Started(e.call))
    BY <1>4, <1>7, <1>8, <2>1 DEF event_userevent
  <2>2. CASE e.name = "DTMF_STOP" /\ set_memcached(c0, Empty)
    BY <1>4, <1>8, <2>2 DEF event_userevent
  <2> QED BY <1>8, <2>1, <2>2 DEF event_userevent, Started
<1>9. CASE get_callinfo(w)
  <2>1. e.name = "DialEnd" /\ ci[w] = None /\ UNCHANGED memcached
    BY <1>9 DEF get_callinfo
  <2>2. CASE e.answer /\ Found(c0)
    <3>1. job' = job /\ ci' = [ci EXCEPT ![w] = memcached[c0]]
      BY <1>9, <2>2 DEF get_callinfo
    <3>2. memcached[c0] \in CallInfo_t BY <1>5, <2>2 DEF Found
    <3>3. CallTypes' BY <1>1, <2>1, <2>2, <3>1, <3>2 DEF CallTypes
    <3>4. ASSUME NEW c \in Caller \ overlap PROVE InLine(c)'
      <4>1. InLine(c) /\ \A v : Handles(v, c)' <=> Handles(v, c) BY <3>1 DEF CallInv, Handles
      <4>2. OneWorker(c)' /\ (Idle(c)' <=> Idle(c)) BY <4>1 DEF InLine, OneWorker, Idle
      <4>3. QueueInv(c)' BY <1>1, <4>1 DEF InLine, QueueInv, LastEvent
      <4>4. ASSUME NEW v \in Worker, Handles(v, c) PROVE JobInv(v, c)'
        <5>1. JobInv(v, c) BY <4>1, <4>4 DEF InLine
        <5>2. ci'[v] # None => ci'[v] = memcached[c]
          BY <1>1, <1>3, <3>1, <4>4, <5>1 DEF CallTypes, JobInv
        <5> QED BY <1>1, <2>1, <3>1, <5>1, <5>2 DEF JobInv, LastEvent
      <4>5. IdleInv(c) => IdleInv(c)'
        BY <1>1, <2>1 DEF IdleInv, RecordOfCall, Found
      <4> QED BY <4>1, <4>2, <4>3, <4>4, <4>5 DEF InLine
    <3> QED BY <1>1, <3>3, <3>4 DEF CallInv
  <2>3. CASE ~(e.answer /\ Found(c0))
    <3>1. Done(w) BY <1>9, <2>3 DEF get_callinfo
    <3>2. set_memcached(c0, memcached[c0])
      BY <1>1, <2>1 DEF set_memcached, CallTypes
    <3>3. c0 \notin overlap => memcached[c0] = Started(e.call)
      BY <1>6, <2>1 DEF Finds
    <3>4. c0 \notin overlap => ~e.answer
      BY <1>7, <2>3, <3>3 DEF Found
    <3> QED BY <1>4, <1>5, <2>1, <3>1, <3>2, <3>3, <3>4
  <2> QED BY <2>2, <2>3
<1>10. CASE set_callinfo(w)
  <2>1. e.name = "DialEnd" /\ ci[w] # None /\ Done(w)
        /\ set_memcached(c0, [ci[w] EXCEPT !.szDestChannel = e.call])
    BY <1>10 DEF set_callinfo
  <2>2. ci[w] \in CallInfo_t /\ e.answer BY <1>1, <2>1 DEF CallTypes
  <2>3. [ci[w] EXCEPT !.szDestChannel = e.call] \in CallInfo_t
    BY <1>2, <2>2 DEF CallInfo_t
  <2>4. c0 \notin overlap =>
          [ci[w] EXCEPT !.szDestChannel = e.call] = [szChannel |-> e.call, szDestChannel |-> e.call]
    BY <1>6, <2>1 DEF Finds, Started
  <2> QED BY <1>4, <2>1, <2>2, <2>3, <2>4
<1> QED BY <1>8, <1>9, <1>10 DEF Handler, event_dialend

LEMMA ExpireKeeps ==
  ASSUME CallInv, NEW c0 \in Caller, Expire(c0)
  PROVE  CallInv'
<1>1. /\ CallTypes /\ memcached[c0] = Empty /\ memcached' = [memcached EXCEPT ![c0] = None]
      /\ UNCHANGED <<call, stage, queue, job, ci, overlap>>
  BY DEF CallInv, Expire, set_memcached
<1>2. CallTypes' BY <1>1 DEF CallTypes
<1>3. ASSUME NEW c \in Caller \ overlap PROVE InLine(c)'
  <2>1. InLine(c) /\ \A v : Handles(v, c)' <=> Handles(v, c) BY <1>1 DEF CallInv, Handles
  <2>2. OneWorker(c)' /\ (Idle(c)' <=> Idle(c)) BY <2>1 DEF InLine, OneWorker, Idle
  <2>3. QueueInv(c)' BY <1>1, <2>1 DEF InLine, QueueInv, LastEvent
  <2>4. c # c0 => memcached'[c] = memcached[c] BY <1>1 DEF CallTypes
  <2>5. c = c0 => memcached[c] = Empty /\ memcached'[c] = None BY <1>1 DEF CallTypes
  <2>6. ASSUME NEW e \in Event, Finds(e, memcached[c]) PROVE Finds(e, memcached'[c])
    <3>1. e.call \in 0 .. MaxCall BY CallInfoAssumption DEF Event
    <3>2. Started(e.call) # Empty BY <3>1, StartedIsRecord
    <3> QED BY <2>4, <2>5, <2>6, <3>2 DEF Finds
  <2>7. ASSUME NEW v \in Worker, Handles(v, c) PROVE JobInv(v, c)'
    <3>1. JobInv(v, c) /\ job[v] \in Event BY <1>1, <2>1, <2>7 DEF InLine, Handles, CallTypes
    <3>2. ci[v] # None => ci[v] \in CallInfo_t /\ ci[v] = memcached[c]
      BY <1>1, <3>1 DEF CallTypes, JobInv
    <3>3. ci[v] # None => memcached'[c] = memcached[c]
      BY <2>4, <2>5, <3>2, CallInfoAssumption
    <3> QED BY <1>1, <2>6, <3>1, <3>2, <3>3 DEF JobInv, LastEvent
  <2>8. IdleInv(c) => IdleInv(c)'
    <3> SUFFICES ASSUME IdleInv(c) PROVE IdleInv(c)'
      OBVIOUS
    <3>1. \A i : First(queue, i, c) => queue[i] \in Event
      BY <1>1, LenProperties DEF CallTypes, First, Mine
    <3>2. \A i : First(queue, i, c) => Finds(queue[i], memcached'[c])
      BY <2>6, <3>1 DEF IdleInv
    <3>3. Found(c)' <=> Found(c) BY <2>4, <2>5 DEF Found
    <3>4. Found(c) => memcached'[c] = memcached[c] BY <2>4, <2>5 DEF Found
    <3> QED BY <1>1, <3>2, <3>3, <3>4 DEF IdleInv, RecordOfCall
  <2> QED BY <2>1, <2>2, <2>3, <2>7, <2>8 DEF InLine
<1> QED BY <1>1, <1>2, <1>3 DEF CallInv

----------------------------------------------------------------------------
LEMMA NextCallInv == CallInv /\ [Next]_vars => CallInv'
<1> SUFFICES ASSUME CallInv, [Next]_vars PROVE CallInv'
  OBVIOUS
<1>1. CASE UNCHANGED vars
  BY <1>1 DEF vars, CallInv, CallTypes, InLine, OneWorker, QueueInv, JobInv, IdleInv, Idle, Handles,
     LastEvent, RecordOfCall, Found
<1> QED BY <1>1, AsteriskKeeps, ExpireKeeps, TakeKeeps, HandlerKeeps DEF Next

(* While no two events of a caller are handled at once, its record is there *)
(* exactly during the call and names its channels, whenever no event is     *)
(* left (processevents.cpp:77, 96, 208); and an accident in one call is     *)
(* over when the next one starts with nothing pending.                      *)
THEOREM RecordSafe == Spec => []RecordFollowsCall
<1>1. CallInv => RecordFollowsCall
  <2> SUFFICES ASSUME CallInv, NEW c \in Caller \ overlap, ~Pending(c)
               PROVE  IF stage[c] = "down" THEN ~Found(c) ELSE RecordOfCall(c)
    BY DEF RecordFollowsCall
  <2>1. InLine(c) /\ Idle(c) /\ NoneOf(queue, c) BY NothingPending DEF CallInv
  <2> QED BY <2>1 DEF InLine, IdleInv
<1> QED BY <1>1, InitCallInv, NextCallInv, PTL DEF Spec
=============================================================================
