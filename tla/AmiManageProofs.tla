--------------------------- MODULE AmiManageProofs ---------------------------
(* Theorems of AmiManage, for any workers, connections, requests and        *)
(* events: the lock discipline of ami_sync, then connections, answers and   *)
(* events.                                                                  *)
EXTENDS AmiManageProps, SequenceTheorems, TLAPS

(* OneSleeper is not inductive: a caller falls asleep in Send, but what     *)
(* keeps the others out was decided in Lock.  A worker from its lock of     *)
(* mutexAMI to its unlock owns the mutex of its AMI_MANAGE, and only those  *)
(* sleep.                                                                   *)
Label == {"idle", "manage", "sync", "buffer", "lock", "send", "wait", "answered", "reply",
          "look", "count", "handle", "clear", "event", "done"}
Place == Conn \union {NULL}
PlaceOK ==
  /\ ami_socket \in Place /\ armed \subseteq Place /\ this \in [Worker -> Place]
  /\ mutexAMI \in [Conn -> Worker \union {NULL}] /\ pc \in [Worker -> Label]
Owned == \A w \in Worker : pc[w] \in {"send", "wait"} => this[w] \in Conn /\ mutexAMI[this[w]] = w
Waiting == sleeping \subseteq {w \in Worker : pc[w] = "wait"}
CallerInv == PlaceOK /\ Owned /\ Waiting

(* NULL is no connection and no worker.                                     *)
LEMMA NullApart == NULL \notin Conn /\ NULL \notin Worker
  BY AmiAssumption

(* The invariant is about six variables; a step that leaves them alone      *)
(* keeps it.                                                                *)
LEMMA KeepCaller ==
  CallerInv /\ UNCHANGED <<ami_socket, armed, this, mutexAMI, pc, sleeping>> => CallerInv'
  BY DEF CallerInv, PlaceOK, Owned, Waiting

(* At first nobody calls and nothing is locked.                             *)
LEMMA InitCaller == Init => CallerInv
  BY DEF Init, CallerInv, PlaceOK, Owned, Waiting, Place, Label

(* The login job moves the global and arms the connection.                  *)
LEMMA LoginKeeps ==
  ASSUME CallerInv, amiLogin
  PROVE  CallerInv'
<1>1. UNCHANGED <<this, mutexAMI, pc, sleeping>>
  BY DEF amiLogin, threadVars
<1>2. ami_socket' \in Place /\ armed' \subseteq Place
  <2> USE DEF CallerInv, PlaceOK, Place
  <2>1. CASE LoginCheck BY <2>1 DEF LoginCheck, socketVars
  <2>2. CASE LoginNew BY <2>2 DEF LoginNew
  <2>3. CASE LoginConnect BY <2>3 DEF LoginConnect
  <2>4. CASE LoginTalk BY <2>4 DEF LoginTalk
  <2>5. CASE LoginAdd BY <2>5 DEF LoginAdd
  <2>6. CASE LoginDelete BY <2>6 DEF LoginDelete
  <2>7. CASE LoginReset BY <2>7 DEF LoginReset
  <2> QED BY <2>1, <2>2, <2>3, <2>4, <2>5, <2>6, <2>7 DEF amiLogin
<1> QED BY <1>1, <1>2 DEF CallerInv, PlaceOK, Owned, Waiting

(* closesocket resets the global and disarms.                               *)
LEMMA CloseKeeps ==
  ASSUME CallerInv, closesocket
  PROVE  CallerInv'
<1>1. UNCHANGED <<this, mutexAMI, pc, sleeping>>
  BY DEF closesocket, threadVars, manageVars
<1>2. ami_socket' \in Place /\ armed' \subseteq Place
  BY DEF closesocket, dtmf2_disconnected, Delete, CallerInv, PlaceOK, Place
<1> QED BY <1>1, <1>2 DEF CallerInv, PlaceOK, Owned, Waiting

(* One step of a caller: Lock finds the mutex free, so no other caller of   *)
(* this AMI_MANAGE is between its lock and its unlock; Return gives it back.*)
LEMMA SyncKeeps ==
  ASSUME NEW w \in Worker, CallerInv, ami_sync(w)
  PROVE  CallerInv'
<1> USE NullApart DEF CallerInv, PlaceOK, Owned, Waiting, Goto
<1>0. UNCHANGED <<ami_socket, armed>>
  BY DEF ami_sync, socketVars
<1>1. CASE Start(w) BY <1>0, <1>1 DEF Start, Begin, manageVars, Label
<1>2. CASE Manage(w)
  <2>1. UNCHANGED <<mutexAMI, sleeping>> BY <1>2 DEF Manage, manageVars
  <2>2. CASE UNCHANGED <<this, pc>> BY <1>0, <2>1, <2>2, KeepCaller
  <2>3. CASE this' = [this EXCEPT ![w] = ami_socket] /\ Goto(w, "sync")
    BY <1>0, <1>2, <2>1, <2>3 DEF Manage, Label
  <2> QED BY <1>2, <2>2, <2>3 DEF Manage
<1>3. CASE Sync(w) BY <1>0, <1>3 DEF Sync, manageVars, Label
<1>4. CASE Buffer(w) BY <1>0, <1>4 DEF Buffer, manageVars, Label
<1>5. CASE Lock(w)
  <2>1. UNCHANGED <<this, sleeping>> BY <1>5 DEF Lock
  <2>2. CASE UNCHANGED <<mutexAMI, pc>> BY <1>0, <2>1, <2>2, KeepCaller
  <2>3. CASE ~Gone(this[w])
    <3>1. this[w] \in Conn BY <2>3 DEF Gone, Place
    <3>2. mutexAMI[this[w]] = NULL BY <1>5, <2>3 DEF Lock
    <3>3. mutexAMI' = [mutexAMI EXCEPT ![this[w]] = w] /\ pc' = [pc EXCEPT ![w] = "send"]
      BY <1>5, <2>3 DEF Lock
    <3> QED BY <1>0, <1>5, <2>1, <3>1, <3>2, <3>3 DEF Lock, Label
  <2> QED BY <1>5, <2>2, <2>3 DEF Lock
<1>6. CASE Send(w)
  <2>1. UNCHANGED <<this, mutexAMI>> BY <1>6 DEF Send
  <2>2. CASE UNCHANGED <<pc, sleeping>> BY <1>0, <2>1, <2>2, KeepCaller
  <2>3. CASE sleeping' = sleeping \union {w} /\ Goto(w, "wait")
    BY <1>0, <1>6, <2>1, <2>3 DEF Send, Label
  <2> QED BY <1>6, <2>2, <2>3 DEF Send
<1>7. CASE Expire(w) BY <1>0, <1>7 DEF Expire, manageVars
<1>8. CASE Return(w)
  <2>1. UNCHANGED <<this, sleeping>> BY <1>8 DEF Return
  <2>2. CASE UNCHANGED <<mutexAMI, pc>> BY <1>0, <2>1, <2>2, KeepCaller
  <2>3. CASE ~Gone(this[w])
    <3>1. mutexAMI[this[w]] = w /\ this[w] \in Conn /\ w \notin sleeping BY <1>8 DEF Return
    <3>2. mutexAMI' = [mutexAMI EXCEPT ![this[w]] = NULL] /\ pc' = [pc EXCEPT ![w] = "answered"]
      BY <1>8, <2>3 DEF Return
    <3> QED BY <1>0, <2>1, <3>1, <3>2 DEF Label
  <2> QED BY <1>8, <2>2, <2>3 DEF Return
<1>9. CASE Continue(w) BY <1>0, <1>9 DEF Continue, manageVars, Label
<1>10. CASE Finish(w) BY <1>0, <1>10 DEF Finish, manageVars, Label
<1>11. CASE Reply(w)
  <2>1. UNCHANGED <<mutexAMI, sleeping>> BY <1>11 DEF Reply, manageVars
  <2>2. this' = [this EXCEPT ![w] = NULL] /\ pc' = [pc EXCEPT ![w] = "idle"] /\ pc[w] = "reply"
    BY <1>11 DEF Reply
  <2> QED BY <1>0, <2>1, <2>2 DEF Label, Place
<1> QED BY <1>1, <1>2, <1>3, <1>4, <1>5, <1>6, <1>7, <1>8, <1>9, <1>10, <1>11 DEF ami_sync

(* One step of ami_event: it takes no mutexAMI, and only wakes.             *)
LEMMA EventKeeps ==
  ASSUME NEW w \in Worker, CallerInv, ami_event(w)
  PROVE  CallerInv'
<1> USE DEF CallerInv, PlaceOK, Owned, Waiting, Goto
<1>0. UNCHANGED <<ami_socket, mutexAMI>>
  BY DEF ami_event
<1>1. CASE Read(w)
  <2>1. PICK c \in armed : armed' = armed \ {c} /\ this' = [this EXCEPT ![w] = c]
    BY <1>1 DEF Read
  <2>2. UNCHANGED sleeping /\ pc[w] = "idle" /\ pc' = [pc EXCEPT ![w] = "look"]
    BY <1>1 DEF Read
  <2> QED BY <1>0, <2>1, <2>2 DEF Label
<1>2. CASE Look(w) BY <1>0, <1>2 DEF Look, Label
<1>3. CASE EventCount(w) BY <1>0, <1>3 DEF EventCount, Label
<1>4. CASE Handle(w)
  <2>1. UNCHANGED <<armed, this>> /\ pc[w] = "handle" BY <1>4 DEF Handle
  <2>2. sleeping' \subseteq sleeping BY <1>4 DEF Handle
  <2>3. pc' = pc \/ pc' = [pc EXCEPT ![w] = "event"] \/ pc' = [pc EXCEPT ![w] = "done"]
    BY <1>4 DEF Handle
  <2> QED BY <1>0, <2>1, <2>2, <2>3 DEF Label
<1>5. CASE Clear(w) BY <1>0, <1>5 DEF Clear, Label
<1>6. CASE Dispatch(w) BY <1>0, <1>6 DEF Dispatch, Label
<1>7. CASE Rearm(w)
  <2>1. armed' = armed \union {this[w]} /\ this' = [this EXCEPT ![w] = NULL] /\ UNCHANGED sleeping
    BY <1>7 DEF Rearm
  <2>2. pc[w] = "done" /\ pc' = [pc EXCEPT ![w] = "idle"] BY <1>7 DEF Rearm
  <2> QED BY <1>0, <2>1, <2>2 DEF Label, Place
<1> QED BY <1>1, <1>2, <1>3, <1>4, <1>5, <1>6, <1>7 DEF ami_event

(* Every step keeps the invariant.                                          *)
LEMMA NextCaller == CallerInv /\ [Next]_vars => CallerInv'
<1> SUFFICES ASSUME CallerInv, [Next]_vars PROVE CallerInv'
  OBVIOUS
<1>1. CASE Asterisk
  BY <1>1, KeepCaller DEF Asterisk, manageVars, socketVars, threadVars
<1>2. CASE amiLogin BY <1>2, LoginKeeps
<1>3. CASE closesocket BY <1>3, CloseKeeps
<1>4. ASSUME NEW w \in Worker, ami_sync(w) PROVE CallerInv' BY <1>4, SyncKeeps
<1>5. ASSUME NEW w \in Worker, ami_event(w) PROVE CallerInv' BY <1>5, EventKeeps
<1>6. CASE UNCHANGED vars
  BY <1>6, KeepCaller DEF vars, manageVars, socketVars, threadVars
<1> QED BY <1>1, <1>2, <1>3, <1>4, <1>5, <1>6 DEF Next

(* However many workers call ami_sync while connections come and go, two    *)
(* never sleep on the condition of one AMI_MANAGE (amiproc.h:48,            *)
(* amiproc.cpp:111-141), up to the first access to freed memory.            *)
THEOREM OneSleeperSafe == Spec => []OneSleeper
<1>1. CallerInv => OneSleeper
  BY DEF CallerInv, Owned, Waiting, OneSleeper
<1> QED BY <1>1, InitCaller, NextCaller, PTL DEF Spec

----------------------------------------------------------------------------
(* Connections                                                              *)

Caller(w)  == pc[w] \in {"manage", "sync", "buffer", "lock", "send", "wait", "answered", "reply"}
Handler(w) == pc[w] \in {"look", "count", "handle", "clear", "event", "done"}
Client(c)  == c \in Conn /\ object[c] = "client"

Condition == {"none", "new", "user1", "client", "closing", "deleted"}

(* What the login job knows of the global.                                  *)
LoginOK ==
  /\ loginPc = "idle" => ami_socket = NULL \/ Client(ami_socket)
  /\ loginPc = "new" => ami_socket = NULL
  /\ loginPc \in {"connect", "talk", "add", "delete", "reset"} => ami_socket \in Conn
  /\ loginPc = "connect" => object[ami_socket] = "new"
  /\ loginPc = "talk" => object[ami_socket] = "user1"
  /\ loginPc = "add" => object[ami_socket] = "client"
  /\ loginPc = "delete" => object[ami_socket] \in {"new", "user1"}
  /\ loginPc = "reset" => object[ami_socket] = "deleted"

(* The living connection is the global one; it is armed or has a handler,   *)
(* never both, and never two handlers.                                      *)
OneShot ==
  /\ \A c \in Conn : object[c] \in {"new", "user1", "client"} => ami_socket = c
  /\ \A c \in armed : Client(c) /\ loginPc = "idle"
  /\ \A w \in Worker : Handler(w) => /\ Client(this[w]) /\ loginPc = "idle"
                                     /\ this[w] \notin armed
  /\ \A v, w \in Worker : Handler(v) /\ Handler(w) => v = w

(* Callers use connections that were there once, and as long as none was    *)
(* lost the one that is there.                                              *)
CallerPlaces ==
  /\ \A w \in Worker : Caller(w) => Lost # {} \/ Client(ami_socket)
  /\ \A w \in Worker : Caller(w) /\ pc[w] # "manage" => this[w] \in Conn
  /\ \A w \in Worker : pc[w] \in {"lock", "send", "wait"} => buf[w] \in Conn
  /\ \A w \in Worker : this[w] # NULL => object[this[w]] # "none"
  /\ QuickClose /\ (loginPc # "idle" \/ ami_socket # NULL) =>
       \A c \in Conn : object[c] # "closing"

SocketInv ==
  /\ ami_socket \in Place /\ object \in [Conn -> Condition] /\ armed \subseteq Conn
  /\ loginPc \in {"idle", "new", "connect", "talk", "add", "delete", "reset"}
  /\ pc \in [Worker -> Label] /\ this \in [Worker -> Place] /\ buf \in [Worker -> Place]
  /\ LoginOK /\ OneShot /\ CallerPlaces

----------------------------------------------------------------------------
(* Requests                                                                 *)

Fresh(r) == r > made \/ \E w \in Worker : req[w] = r /\ pc[w] \in {"manage", "sync", "buffer", "lock", "send"}

Result == {"ok", "fail", "past", "timeout", "unconnected"}
Response == [mode : {"none", "request", "response"}, result : Result,
             text : Request \union {NULL}, freed : BOOLEAN]

(* Each caller has a request of its own, which nobody has freed.            *)
RequestInv ==
  /\ made \in 0 .. MaxReq /\ req \in [Worker -> Request \union {NULL}]
  /\ resp \in [Request -> Response]
  /\ \A w \in Worker : Caller(w) <=> req[w] # NULL
  /\ \A v, w \in Worker : req[v] = req[w] /\ req[v] # NULL => v = w
  /\ \A w \in Worker : req[w] # NULL => req[w] <= made
  /\ \A r \in Request : r > made => told[r] = NULL /\ ~resp[r].freed
  /\ \A w \in Worker : req[w] # NULL => told[req[w]] = NULL /\ ~resp[req[w]].freed

(* pResp is the request of a sleeping caller, or of one whose wait ended    *)
(* without a signal.                                                        *)
PRespInv ==
  /\ pResp \in [Conn -> Request \union {NULL}] /\ late \subseteq Request
  /\ \A c, d \in Conn : pResp[c] = pResp[d] /\ pResp[c] # NULL => c = d
  /\ \A c \in Conn : pResp[c] # NULL => ~Fresh(pResp[c])
  /\ \A c \in Conn : pResp[c] # NULL /\ pResp[c] \notin late =>
       \E w \in sleeping : this[w] = c /\ req[w] = pResp[c]
  /\ \A w \in sleeping : pResp[this[w]] \in {req[w], NULL}
  /\ \A w \in Worker : pc[w] \in {"count", "handle"} => pResp[this[w]] # NULL

(* Messages.                                                                *)
ActionMessage == [kind : {"Action"}, id : Nat, req : Request]
AnswerMessage == [kind : {"Response"}, id : Nat, req : Request]
EventMessage(n) == [kind : {"Event"}, id : Nat, req : 1 .. n]
InMessage(n) == AnswerMessage \union EventMessage(n)
Judged(v, x) == x \in AnswerMessage /\ v[x.req] # NULL
Fit(v, n, x) == Judged(v, x) \/ x \in EventMessage(n)
MessageInv ==
  /\ sent \in [Conn -> Seq(ActionMessage)] /\ inbox \in [Conn -> Seq(InMessage(emitted))]
  /\ actionid \in [Conn -> Nat]
  /\ verdict \in [Request -> {"ok", "fail", NULL}]
  /\ msg \in [Worker -> InMessage(emitted) \union {NULL}]
  /\ \A c \in Conn : \A i \in DOMAIN inbox[c] : Fit(verdict, emitted, inbox[c][i])
  /\ \A w \in Worker : Handler(w) => Fit(verdict, emitted, msg[w])
  /\ \A w \in Worker : pc[w] \in {"count", "handle", "clear"} => Judged(verdict, msg[w])
  /\ \A w \in Worker : ~Handler(w) => msg[w] = NULL
  /\ emitted \in 0 .. MaxEvent /\ jobs \in Seq(1 .. MaxEvent) /\ dropped \subseteq Request

(* A request is sent once, and judged once.                                 *)
OnceInv ==
  /\ \A c \in Conn : \A i \in DOMAIN sent[c] : \A r \in Request :
       sent[c][i].req = r => verdict[r] = NULL /\ ~Fresh(r)
  /\ \A c, d \in Conn : \A i \in DOMAIN sent[c] : \A k \in DOMAIN sent[d] :
       sent[c][i].req = sent[d][k].req => c = d /\ i = k
  /\ \A r \in Request : Fresh(r) => verdict[r] = NULL

(* A worker has an answer and may still write it.                           *)
Answering(w) == pc[w] \in {"look", "count", "handle"} /\ msg[w].kind = "Response"

(* The ActionID tells whose answer it is: the youngest one on a connection  *)
(* belongs to the request in pResp.                                         *)
Matches(c, id, r) == id <= actionid[c] /\ (id = actionid[c] /\ pResp[c] # NULL => r = pResp[c])
MatchInv ==
  /\ \A c \in Conn : \A i \in DOMAIN sent[c] : Matches(c, sent[c][i].id, sent[c][i].req)
  /\ \A c \in Conn : \A i \in DOMAIN inbox[c] :
       inbox[c][i].kind = "Response" => Matches(c, inbox[c][i].id, inbox[c][i].req)
  /\ \A w \in Worker : \A c \in Conn : Answering(w) /\ this[w] = c => Matches(c, msg[w].id, msg[w].req)

(* A caller that is told ok or fail has its own answer, and nobody writes   *)
(* into its response object any more.                                       *)
Own(r) == /\ verdict[r] # NULL /\ resp[r].result = verdict[r] /\ resp[r].text = r
          /\ \A c \in Conn : pResp[c] # r
Settled(w, r) ==
  /\ pc[w] = "wait" /\ w \notin sleeping /\ r \notin late => Own(r) \/ resp[r].result = "past"
  /\ pc[w] \in {"answered", "reply"} /\ resp[r].result \in {"ok", "fail"} => Own(r)
OutcomeInv == \A w \in Worker : \A r \in Request : req[w] = r => Settled(w, r)

(* While every wait ended by a signal and nothing was lost, a connection    *)
(* owes at most one answer: to the caller that sleeps on it.                *)
Due(c) == IF /\ pResp[c] # NULL /\ resp[pResp[c]].mode = "request"
             /\ \E w \in sleeping : this[w] = c /\ req[w] = pResp[c]
          THEN {<<actionid[c], pResp[c]>>} ELSE {}
Sending(q, due) == Len(q) <= 1 /\ \A i \in DOMAIN q : <<q[i].id, q[i].req>> \in due
Coming(q, due) ==
  /\ \A i \in DOMAIN q : q[i].kind = "Response" => <<q[i].id, q[i].req>> \in due
  /\ \A i, k \in DOMAIN q : q[i].kind = "Response" /\ q[k].kind = "Response" => i = k
NoAnswer(q) == \A i \in DOMAIN q : q[i].kind # "Response"

(* It is in one place, and resp_waitcount counts that caller.               *)
DeliverInv ==
  /\ dropped = {}
  /\ \A c \in Conn : /\ Sending(sent[c], Due(c)) /\ Coming(inbox[c], Due(c))
                     /\ sent[c] # <<>> => NoAnswer(inbox[c])
  /\ \A w \in Worker : \A c \in Conn : Answering(w) /\ this[w] = c =>
       /\ <<msg[w].id, msg[w].req>> \in Due(c)
       /\ sent[c] = <<>> /\ NoAnswer(inbox[c])
  /\ \A w \in Worker : pc[w] # "clear" /\ (pc[w] = "event" => msg[w].kind = "Event")
  /\ \A c \in Conn : mutexAMI[c] # NULL => pc[mutexAMI[c]] \in {"send", "wait"} /\ this[mutexAMI[c]] = c
  /\ \A c \in Conn : resp_waitcount[c] = (IF mutexAMI[c] = NULL THEN 0 ELSE 1)
                        + (IF \E w \in Worker : pc[w] = "handle" /\ this[w] = c THEN 1 ELSE 0)

(* Events of a connection that is up are read and handed over in the order  *)
(* in which they were emitted.                                              *)
Quiet(q)    == \A i \in DOMAIN q : q[i].kind # "Event"
After(q, n) == \A i \in DOMAIN q : q[i].kind = "Event" => n < q[i].req
Ordered(q)  == \A i, k \in DOMAIN q : q[i].kind = "Event" /\ q[k].kind = "Event" /\ i < k => q[i].req < q[k].req
Carries(w)  == Handler(w) /\ pc[w] # "done" /\ msg[w].kind = "Event"

OrderInv ==
  /\ \A i \in DOMAIN jobs : jobs[i] <= emitted
  /\ \A i, k \in DOMAIN jobs : i < k => jobs[i] < jobs[k]
  /\ \A w \in Worker : Carries(w) => /\ \A i \in DOMAIN jobs : jobs[i] < msg[w].req
                                     /\ After(inbox[this[w]], msg[w].req)
  /\ \A c \in Conn : object[c] \notin {"client", "closing", "deleted"} => Quiet(inbox[c])
  /\ \A c \in Conn : object[c] = "client" => /\ Ordered(inbox[c])
                                             /\ \A i \in DOMAIN jobs : After(inbox[c], jobs[i])
----------------------------------------------------------------------------
(* SocketInv is an invariant                                                *)

LEMMA InitSocket == Init => SocketInv
BY NullApart DEF Init, SocketInv, LoginOK, OneShot, CallerPlaces, Place, Label, Condition, Caller,
   Handler, Client

(* What is not none stays so, what is lost stays lost.                      *)
LEMMA LoginSocket ==
  ASSUME SocketInv, amiLogin
  PROVE  SocketInv'
<1> USE NullApart DEF SocketInv, Place, Condition
<1>1. UNCHANGED <<this, buf, pc>>
  BY DEF amiLogin, threadVars
<1>3. CASE LoginCheck
  BY <1>1, <1>3 DEF LoginCheck, socketVars, LoginOK, OneShot, CallerPlaces, Caller, Handler, Client, Lost
<1>4. CASE LoginNew
  BY <1>1, <1>4 DEF LoginNew, LoginOK, OneShot, CallerPlaces, Caller, Handler, Client, Lost
<1>5. CASE LoginConnect
  BY <1>1, <1>5 DEF LoginConnect, LoginOK, OneShot, CallerPlaces, Caller, Handler, Client, Lost
<1>6. CASE LoginTalk
  BY <1>1, <1>6 DEF LoginTalk, LoginOK, OneShot, CallerPlaces, Caller, Handler, Client, Lost
<1>7. CASE LoginAdd
  BY <1>1, <1>7 DEF LoginAdd, LoginOK, OneShot, CallerPlaces, Caller, Handler, Client, Lost
<1>8. CASE LoginDelete
  BY <1>1, <1>8 DEF LoginDelete, LoginOK, OneShot, CallerPlaces, Caller, Handler, Client, Lost
<1>9. CASE LoginReset
  BY <1>1, <1>9 DEF LoginReset, LoginOK, OneShot, CallerPlaces, Caller, Handler, Client, Lost
<1> QED BY <1>3, <1>4, <1>5, <1>6, <1>7, <1>8, <1>9 DEF amiLogin

LEMMA CloseSocket ==
  ASSUME SocketInv, closesocket
  PROVE  SocketInv'
<1> USE NullApart DEF SocketInv, Place, Condition
<1>1. UNCHANGED <<this, buf, pc, loginPc>>
  BY DEF closesocket, threadVars
<1>2. ASSUME NEW c \in Conn, dtmf2_disconnected(c) PROVE SocketInv'
  BY <1>1, <1>2 DEF dtmf2_disconnected, LoginOK, OneShot, CallerPlaces, Caller, Handler, Client, Lost
<1>3. ASSUME NEW c \in Conn, Delete(c) PROVE SocketInv'
  BY <1>1, <1>3 DEF Delete, LoginOK, OneShot, CallerPlaces, Caller, Handler, Client, Lost
<1> QED BY <1>2, <1>3 DEF closesocket
(* A worker's step that leaves connections and handlers alone.              *)
SocketFrame == UNCHANGED <<ami_socket, object, armed, loginPc>>

LEMMA SyncSocket ==
  ASSUME NEW w \in Worker, SocketInv, ami_sync(w)
  PROVE  SocketInv'
<1> USE NullApart DEF SocketInv, Place, Label, Goto
<1>1. SocketFrame
  BY DEF ami_sync, socketVars, SocketFrame
<1> USE <1>1 DEF SocketFrame
<1>2. CASE UNCHANGED <<pc, this, buf>>
  BY <1>2 DEF LoginOK, OneShot, CallerPlaces, Caller, Handler, Client, Lost
<1>3. CASE Start(w)
  BY <1>2, <1>3 DEF Start, LoginOK, OneShot, CallerPlaces, Caller, Handler, Client, Lost
<1>4. CASE Manage(w)
  BY <1>2, <1>4 DEF Manage, Gone, LoginOK, OneShot, CallerPlaces, Caller, Handler, Client, Lost
<1>5. CASE Sync(w)
  BY <1>2, <1>5 DEF Sync, LoginOK, OneShot, CallerPlaces, Caller, Handler, Client, Lost
<1>6. CASE Buffer(w)
  BY <1>2, <1>6 DEF Buffer, Gone, LoginOK, OneShot, CallerPlaces, Caller, Handler, Client, Lost
<1>7. CASE Lock(w)
  BY <1>2, <1>7 DEF Lock, LoginOK, OneShot, CallerPlaces, Caller, Handler, Client, Lost
<1>8. CASE Send(w)
  BY <1>2, <1>8 DEF Send, LoginOK, OneShot, CallerPlaces, Caller, Handler, Client, Lost
<1>9. CASE Expire(w)
  BY <1>2, <1>9 DEF Expire
<1>10. CASE Return(w)
  BY <1>2, <1>10 DEF Return, LoginOK, OneShot, CallerPlaces, Caller, Handler, Client, Lost
<1>11. CASE Continue(w)
  BY <1>11 DEF Continue, LoginOK, OneShot, CallerPlaces, Caller, Handler, Client, Lost
<1>12. CASE Finish(w)
  BY <1>12 DEF Finish, LoginOK, OneShot, CallerPlaces, Caller, Handler, Client, Lost
<1>13. CASE Reply(w)
  BY <1>13 DEF Reply, LoginOK, OneShot, CallerPlaces, Caller, Handler, Client, Lost
<1> QED BY <1>3, <1>4, <1>5, <1>6, <1>7, <1>8, <1>9, <1>10, <1>11, <1>12, <1>13 DEF ami_sync

LEMMA EventSocket ==
  ASSUME NEW w \in Worker, SocketInv, ami_event(w)
  PROVE  SocketInv'
<1> USE NullApart DEF SocketInv, Place, Label, Goto
<1>1. UNCHANGED <<ami_socket, object, loginPc, buf>>
  BY DEF ami_event
<1> USE <1>1
<1>2. CASE UNCHANGED <<pc, this, armed>>
  BY <1>2 DEF LoginOK, OneShot, CallerPlaces, Caller, Handler, Client, Lost
<1>3. CASE Read(w)
  BY <1>3 DEF Read, LoginOK, OneShot, CallerPlaces, Caller, Handler, Client, Lost
<1>4. CASE Look(w)
  BY <1>2, <1>4 DEF Look, LoginOK, OneShot, CallerPlaces, Caller, Handler, Client, Lost
<1>5. CASE EventCount(w)
  BY <1>2, <1>5 DEF EventCount, LoginOK, OneShot, CallerPlaces, Caller, Handler, Client, Lost
<1>6. CASE Handle(w)
  BY <1>2, <1>6 DEF Handle, LoginOK, OneShot, CallerPlaces, Caller, Handler, Client, Lost
<1>7. CASE Clear(w)
  BY <1>2, <1>7 DEF Clear, LoginOK, OneShot, CallerPlaces, Caller, Handler, Client, Lost
<1>8. CASE Dispatch(w)
  BY <1>8 DEF Dispatch, LoginOK, OneShot, CallerPlaces, Caller, Handler, Client, Lost
<1>9. CASE Rearm(w)
  BY <1>9 DEF Rearm, LoginOK, OneShot, CallerPlaces, Caller, Handler, Client, Lost
<1> QED BY <1>3, <1>4, <1>5, <1>6, <1>7, <1>8, <1>9 DEF ami_event

LEMMA SocketStep ==
  ASSUME SocketInv, [Next]_vars
  PROVE  SocketInv'
<1>1. CASE Asterisk \/ UNCHANGED vars
  <2>1. UNCHANGED <<ami_socket, object, armed, loginPc, pc, this, buf>>
    BY <1>1 DEF Asterisk, vars, socketVars, threadVars
  <2> QED BY <2>1 DEF SocketInv, LoginOK, OneShot, CallerPlaces, Caller, Handler, Client, Lost
<1> QED BY <1>1, LoginSocket, CloseSocket, SyncSocket, EventSocket DEF Next
----------------------------------------------------------------------------
(* RequestInv is an invariant                                               *)

(* NULL is no request and no verdict.                                       *)
LEMMA NoRequest == NULL \notin Request /\ NULL \notin {"ok", "fail"} /\ MaxReq \in Nat /\ MaxEvent \in Nat
BY AmiAssumption

LEMMA InitRequest == Init => RequestInv
BY NoRequest DEF Init, RequestInv, Caller, Response, Result, NewResponse, Request
(* A field of a response object.                                            *)
LEMMA Fields ==
  ASSUME NEW x \in Response, NEW t \in Request \union {NULL}, NEW y \in Result,
         NEW m \in {"none", "request", "response"}
  PROVE  /\ [x EXCEPT !.mode = m] \in Response /\ [x EXCEPT !.mode = m].freed = x.freed
         /\ [x EXCEPT !.result = y] \in Response /\ [x EXCEPT !.result = y].freed = x.freed
         /\ [x EXCEPT !.text = t] \in Response /\ [x EXCEPT !.text = t].freed = x.freed
         /\ [x EXCEPT !.freed = TRUE] \in Response
<1> HIDE DEF Request, Result
<1> QED BY DEF Response

(* A step that writes into a response object, and frees none.               *)
LEMMA WriteRequest ==
  ASSUME RequestInv, NEW r \in Request, NEW x \in Response, x.freed = resp[r].freed,
         resp' = [resp EXCEPT ![r] = x], UNCHANGED <<made, req, told>>,
         \A v \in Worker : Caller(v)' <=> Caller(v)
  PROVE  RequestInv'
<1>1. resp' \in [Request -> Response]
  BY DEF RequestInv
<1>2. \A q \in Request : resp'[q].freed = resp[q].freed
  BY DEF RequestInv
<1> QED BY <1>1, <1>2 DEF RequestInv, Request

(* A step that touches no response object.                                  *)
LEMMA KeepRequest ==
  ASSUME RequestInv, UNCHANGED <<made, req, told, resp>>,
         \A v \in Worker : Caller(v)' <=> Caller(v)
  PROVE  RequestInv'
BY DEF RequestInv

LEMMA SyncRequest ==
  ASSUME NEW w \in Worker, SocketInv, RequestInv, ami_sync(w)
  PROVE  RequestInv'
<1> USE NoRequest
<1>p. pc \in [Worker -> Label] /\ req \in [Worker -> Request \union {NULL}]
      /\ resp \in [Request -> Response] /\ made \in 0 .. MaxReq
      /\ \A v \in Worker : Caller(v) <=> req[v] # NULL
  BY DEF SocketInv, RequestInv
<1>1. Caller(w) => req[w] \in Request /\ resp[req[w]] \in Response
  BY <1>p
<1>2. CASE UNCHANGED <<made, req, resp, told, pc>>
  BY <1>2, KeepRequest DEF Caller
<1>3. CASE Start(w)
  <2>1. CASE ~UNCHANGED <<made, req, resp, told, pc>>
    <3>1. /\ pc[w] = "idle" /\ pc' = [pc EXCEPT ![w] = "manage"] /\ made < MaxReq
          /\ made' = made + 1 /\ req' = [req EXCEPT ![w] = made'] /\ UNCHANGED <<resp, told>>
      BY <1>3, <2>1 DEF Start, Begin, Goto
    <3> QED BY <1>p, <3>1 DEF RequestInv, Caller, Label, Request
  <2> QED BY <2>1, <1>2
<1>4. CASE Manage(w)
  BY <1>p, <1>2, <1>4, KeepRequest DEF Manage, Caller, Label, Goto
<1>5. CASE Sync(w)
  <2>1. CASE UNCHANGED resp
    BY <1>p, <1>2, <1>5, <2>1, KeepRequest DEF Sync, Caller, Label, Goto
  <2>2. CASE ~UNCHANGED resp
    <3>1. pc[w] = "sync" /\ pc' = [pc EXCEPT ![w] = "reply"] /\ UNCHANGED <<made, req, told>>
          /\ resp' = [resp EXCEPT ![req[w]].result = "unconnected"]
      BY <1>5, <2>2 DEF Sync, Goto
    <3>2. resp' = [resp EXCEPT ![req[w]] = [resp[req[w]] EXCEPT !.result = "unconnected"]]
      BY <3>1
    <3>3. \A v \in Worker : Caller(v)' <=> Caller(v)
      BY <1>p, <3>1 DEF Caller
    <3>4. "unconnected" \in Result /\ req[w] \in Request /\ resp[req[w]] \in Response
      BY <1>1, <3>1 DEF Caller, Result
    <3>5. [resp[req[w]] EXCEPT !.result = "unconnected"] \in Response
          /\ [resp[req[w]] EXCEPT !.result = "unconnected"].freed = resp[req[w]].freed
      BY <3>4, Fields
    <3> QED BY <3>1, <3>2, <3>3, <3>4, <3>5, WriteRequest
  <2> QED BY <2>1, <2>2
<1>6. CASE Buffer(w)
  BY <1>p, <1>2, <1>6, KeepRequest DEF Buffer, Caller, Label, Goto
<1>7. CASE Lock(w)
  BY <1>p, <1>2, <1>7, KeepRequest DEF Lock, Caller, Label, Goto
<1>8. CASE Send(w)
  <2>1. CASE UNCHANGED resp
    BY <1>p, <1>2, <1>8, <2>1, KeepRequest DEF Send, Caller, Label, Goto
  <2>2. CASE ~UNCHANGED resp
    <3>1. pc[w] = "send" /\ pc' = [pc EXCEPT ![w] = "wait"] /\ UNCHANGED <<made, req, told>>
          /\ resp' = [resp EXCEPT ![req[w]].mode = "request"]
      BY <1>8, <2>2 DEF Send, Goto
    <3>2. resp' = [resp EXCEPT ![req[w]] = [resp[req[w]] EXCEPT !.mode = "request"]]
      BY <3>1
    <3>3. \A v \in Worker : Caller(v)' <=> Caller(v)
      BY <1>p, <3>1 DEF Caller
    <3>4. req[w] \in Request /\ resp[req[w]] \in Response
      BY <1>1, <3>1 DEF Caller
    <3>5. [resp[req[w]] EXCEPT !.mode = "request"] \in Response
          /\ [resp[req[w]] EXCEPT !.mode = "request"].freed = resp[req[w]].freed
      BY <3>4, Fields DEF Result
    <3> QED BY <3>1, <3>2, <3>3, <3>4, <3>5, WriteRequest
  <2> QED BY <2>1, <2>2
<1>9. CASE Expire(w)
  BY <1>2, <1>9 DEF Expire
<1>10. CASE Return(w)
  <2>1. CASE UNCHANGED resp
    BY <1>p, <1>2, <1>10, <2>1, KeepRequest DEF Return, Caller, Label, Goto
  <2>2. CASE ~UNCHANGED resp
    <3>1. pc[w] = "wait" /\ pc' = [pc EXCEPT ![w] = "answered"] /\ UNCHANGED <<made, req, told>>
          /\ resp' = [resp EXCEPT ![req[w]].result = "timeout"]
      BY <1>10, <2>2 DEF Return, Goto
    <3>2. resp' = [resp EXCEPT ![req[w]] = [resp[req[w]] EXCEPT !.result = "timeout"]]
      BY <3>1
    <3>3. \A v \in Worker : Caller(v)' <=> Caller(v)
      BY <1>p, <3>1 DEF Caller
    <3>4. "timeout" \in Result /\ req[w] \in Request /\ resp[req[w]] \in Response
      BY <1>1, <3>1 DEF Caller, Result
    <3>5. [resp[req[w]] EXCEPT !.result = "timeout"] \in Response
          /\ [resp[req[w]] EXCEPT !.result = "timeout"].freed = resp[req[w]].freed
      BY <3>4, Fields
    <3> QED BY <3>1, <3>2, <3>3, <3>4, <3>5, WriteRequest
  <2> QED BY <2>1, <2>2
<1>r. ASSUME Report(w), Caller(w)
      PROVE  /\ resp' \in [Request -> Response]
             /\ \A q \in Request : q # req[w] => resp'[q] = resp[q] /\ told'[q] = told[q]
  <2>1. resp' = [resp EXCEPT ![req[w]] = [resp[req[w]] EXCEPT !.freed = TRUE]]
        /\ told' = [told EXCEPT ![req[w]] = Outcome(req[w])]
    BY <1>r DEF Report
  <2>2. [resp[req[w]] EXCEPT !.freed = TRUE] \in Response
    BY <1>1, <1>r, Fields DEF Result
  <2>3. \A q \in Request : q # req[w] => told'[q] = told[q]
    BY <2>1
  <2> QED BY <1>p, <2>1, <2>2, <2>3
<1>11. CASE Continue(w)
  <2>1. /\ pc[w] = "answered" /\ pc' = [pc EXCEPT ![w] = "sync"] /\ made < MaxReq
        /\ made' = made + 1 /\ req' = [req EXCEPT ![w] = made'] /\ Report(w)
    BY <1>11 DEF Continue, Begin, Goto
  <2>2. Caller(w)
    BY <2>1 DEF Caller
  <2>3. \A v \in Worker : Caller(v)' <=> Caller(v)
    BY <1>p, <2>1 DEF Caller
  <2>4. made' \in Request /\ made' > made /\ made' \in 0 .. MaxReq
    BY <1>p, <2>1 DEF Request
  <2>5. \A v \in Worker : req[v] # NULL => req[v] <= made /\ req[v] # made'
    BY <1>p, <2>1 DEF RequestInv, Request
  <2>6. \A v \in Worker : req'[v] = (IF v = w THEN made' ELSE req[v])
    BY <1>p, <2>1
  <2>7. /\ req' \in [Worker -> Request \union {NULL}]
        /\ \A v \in Worker : Caller(v)' <=> req'[v] # NULL
        /\ \A u, v \in Worker : req'[u] = req'[v] /\ req'[v] # NULL => u = v
    BY <1>p, <2>1, <2>2, <2>3, <2>4, <2>5, <2>6 DEF RequestInv
  <2>8. \A v \in Worker : req'[v] # NULL => req'[v] <= made' /\ req'[v] # req[w]
    BY <1>p, <1>1, <2>1, <2>2, <2>4, <2>5, <2>6 DEF RequestInv, Request
  <2>9. \A q \in Request : q > made' => told'[q] = NULL /\ ~resp'[q].freed
    BY <1>p, <1>1, <1>r, <2>1, <2>2, <2>5 DEF RequestInv, Request
  <2>10. \A v \in Worker : req'[v] # NULL => told'[req'[v]] = NULL /\ ~resp'[req'[v]].freed
    <3> SUFFICES ASSUME NEW v \in Worker, req'[v] # NULL
                 PROVE  told'[req'[v]] = NULL /\ ~resp'[req'[v]].freed
      OBVIOUS
    <3>1. req'[v] \in Request /\ req'[v] # req[w]
      BY <2>7, <2>8
    <3>2. told'[req'[v]] = told[req'[v]] /\ resp'[req'[v]] = resp[req'[v]]
      BY <1>r, <2>1, <2>2, <3>1
    <3>3. told[req'[v]] = NULL /\ ~resp[req'[v]].freed
      BY <2>4, <2>6 DEF RequestInv
    <3> QED BY <3>2, <3>3
  <2> QED BY <1>r, <2>1, <2>2, <2>4, <2>7, <2>8, <2>9, <2>10 DEF RequestInv
<1>12. CASE Finish(w)
  BY <1>p, <1>12, KeepRequest DEF Finish, Caller, Goto
<1>13. CASE Reply(w)
  <2>1. /\ pc[w] = "reply" /\ pc' = [pc EXCEPT ![w] = "idle"] /\ UNCHANGED made
        /\ req' = [req EXCEPT ![w] = NULL] /\ Report(w)
    BY <1>13 DEF Reply, Goto
  <2>2. Caller(w)
    BY <2>1 DEF Caller
  <2>3. \A v \in Worker : v # w => (Caller(v)' <=> Caller(v))
    BY <1>p, <2>1 DEF Caller
  <2>4. ~Caller(w)'
    BY <1>p, <2>1 DEF Caller
  <2>6. \A v \in Worker : req'[v] = (IF v = w THEN NULL ELSE req[v])
    BY <1>p, <2>1
  <2>7. /\ req' \in [Worker -> Request \union {NULL}]
        /\ \A v \in Worker : Caller(v)' <=> req'[v] # NULL
        /\ \A u, v \in Worker : req'[u] = req'[v] /\ req'[v] # NULL => u = v
    BY <1>p, <2>1, <2>2, <2>3, <2>4, <2>6 DEF RequestInv
  <2>8. \A v \in Worker : req'[v] # NULL => req'[v] <= made /\ req'[v] # req[w]
    BY <1>p, <1>1, <2>1, <2>2, <2>6 DEF RequestInv, Request
  <2>9. \A q \in Request : q > made => told'[q] = NULL /\ ~resp'[q].freed
    <3>1. req[w] <= made
      BY <1>p, <2>2 DEF RequestInv
    <3>2. \A q \in Request : q > made => q # req[w]
      BY <1>p, <1>1, <2>2, <3>1 DEF Request
    <3> QED BY <1>r, <2>1, <2>2, <3>2 DEF RequestInv
  <2>10. \A v \in Worker : req'[v] # NULL => told'[req'[v]] = NULL /\ ~resp'[req'[v]].freed
    <3> SUFFICES ASSUME NEW v \in Worker, req'[v] # NULL
                 PROVE  told'[req'[v]] = NULL /\ ~resp'[req'[v]].freed
      OBVIOUS
    <3>1. req'[v] \in Request /\ req'[v] # req[w]
      BY <2>7, <2>8
    <3>2. told'[req'[v]] = told[req'[v]] /\ resp'[req'[v]] = resp[req'[v]]
      BY <1>r, <2>1, <2>2, <3>1
    <3>3. told[req'[v]] = NULL /\ ~resp[req'[v]].freed
      BY <2>6 DEF RequestInv
    <3> QED BY <3>2, <3>3
  <2> QED BY <1>p, <1>r, <2>1, <2>2, <2>7, <2>8, <2>9, <2>10 DEF RequestInv
<1> QED BY <1>3, <1>4, <1>5, <1>6, <1>7, <1>8, <1>9, <1>10, <1>11, <1>12, <1>13 DEF ami_sync

LEMMA EventRequest ==
  ASSUME NEW w \in Worker, SocketInv, RequestInv, PRespInv, MessageInv, ami_event(w)
  PROVE  RequestInv'
<1> USE NoRequest DEF Goto
<1>p. pc \in [Worker -> Label] /\ resp \in [Request -> Response]
      /\ this \in [Worker -> Conn \union {NULL}]
  BY DEF SocketInv, RequestInv, Place
<1>1. UNCHANGED <<made, req, told>>
  BY DEF ami_event
<1>2. CASE UNCHANGED <<resp, pc>>
  BY <1>1, <1>2, KeepRequest DEF Caller
<1>3. CASE Read(w)
  BY <1>p, <1>1, <1>3, KeepRequest DEF Read, Caller, Label
<1>4. CASE Look(w)
  BY <1>p, <1>1, <1>2, <1>4, KeepRequest DEF Look, Caller, Label
<1>5. CASE EventCount(w)
  BY <1>p, <1>1, <1>2, <1>5, KeepRequest DEF EventCount, Caller, Label
<1>6. CASE Handle(w)
  <2>1. CASE UNCHANGED <<resp, pc>>
    BY <1>2, <2>1
  <2>2. CASE ~UNCHANGED <<resp, pc>>
    <3> DEFINE r == pResp[this[w]]
               y == IF Younger(msg[w].id, this[w]) THEN "past" ELSE verdict[msg[w].req]
               x1 == [resp[r] EXCEPT !.text = msg[w].req]
               x2 == [resp[r] EXCEPT !.text = msg[w].req, !.mode = "response", !.result = y]
    <3>1. r \in Request
      BY <1>p, <1>6, <2>2 DEF Handle, Gone, PRespInv
    <3>2. msg[w].req \in Request /\ verdict[msg[w].req] \in {"ok", "fail"}
      BY <1>6 DEF Handle, MessageInv, Judged, AnswerMessage
    <3>3. y \in Result
      BY <3>2 DEF Result
    <3>4. resp[r] \in Response
      BY <1>p, <3>1
    <3>5. x1 \in Response /\ x2 \in Response /\ x1.freed = resp[r].freed /\ x2.freed = resp[r].freed
      <4>1. msg[w].req \in Request \union {NULL} /\ "response" \in {"none", "request", "response"}
        BY <3>2
      <4> HIDE DEF y, r
      <4>2. /\ [resp[r] EXCEPT !.text = msg[w].req] \in Response
            /\ [resp[r] EXCEPT !.text = msg[w].req].freed = resp[r].freed
        BY <4>1, <3>3, <3>4, Fields
      <4>3. LET z == [resp[r] EXCEPT !.text = msg[w].req, !.mode = "response", !.result = y]
            IN  z \in Response /\ z.freed = resp[r].freed
        <5> DEFINE t == msg[w].req  x == resp[r]  m == "response"
        <5>1. t \in Request \union {NULL} /\ x \in Response /\ m \in {"none", "request", "response"}
          BY <4>1, <3>4
        <5> HIDE DEF t, x, m
        <5>2. /\ [x EXCEPT !.text = t, !.mode = m, !.result = y] \in Response
              /\ [x EXCEPT !.text = t, !.mode = m, !.result = y].freed = x.freed
          <6> HIDE DEF Request, Result
          <6> QED BY <5>1, <3>3 DEF Response
        <5> QED BY <5>2 DEF t, x, m
      <4> QED BY <4>2, <4>3
    <3>6. resp' = [resp EXCEPT ![r] = x1] \/ resp' = [resp EXCEPT ![r] = x2]
      BY <1>p, <3>1, <1>6, <2>2 DEF Handle, Response
    <3>7. pc[w] = "handle" /\ pc' \in {[pc EXCEPT ![w] = "event"], [pc EXCEPT ![w] = "done"]}
      BY <1>6, <2>2 DEF Handle
    <3>8. \A v \in Worker : Caller(v)' <=> Caller(v)
      BY <1>p, <3>7 DEF Caller
    <3> HIDE DEF r, x1, x2
    <3> QED BY <1>1, <3>1, <3>5, <3>6, <3>8, WriteRequest
  <2> QED BY <2>1, <2>2
<1>7. CASE Clear(w)
  BY <1>p, <1>1, <1>2, <1>7, KeepRequest DEF Clear, Caller, Label
<1>8. CASE Dispatch(w)
  BY <1>p, <1>1, <1>8, KeepRequest DEF Dispatch, Caller, Label
<1>9. CASE Rearm(w)
  BY <1>p, <1>1, <1>9, KeepRequest DEF Rearm, Caller, Label
<1> QED BY <1>3, <1>4, <1>5, <1>6, <1>7, <1>8, <1>9 DEF ami_event
----------------------------------------------------------------------------
(* PRespInv is an invariant                                                 *)

Early == {"manage", "sync", "buffer", "lock", "send"}

(* No step makes an old request fresh.                                      *)
LEMMA FreshStep ==
  ASSUME SocketInv, RequestInv, [Next]_vars, NEW r \in Request
  PROVE  Fresh(r)' => Fresh(r)
<1> USE NoRequest
<1>p. pc \in [Worker -> Label] /\ req \in [Worker -> Request \union {NULL}]
      /\ made \in 0 .. MaxReq
  BY DEF SocketInv, RequestInv
<1>0. Fresh(r) <=> r > made \/ \E v \in Worker : req[v] = r /\ pc[v] \in Early
  BY DEF Fresh, Early
<1>1. Fresh(r)' <=> r > made' \/ \E v \in Worker : req'[v] = r /\ pc'[v] \in Early
  BY DEF Fresh, Early
<1>2. CASE UNCHANGED <<pc, req, made>>
  BY <1>2, <1>0, <1>1
<1>3. CASE Asterisk \/ amiLogin \/ closesocket \/ UNCHANGED vars
  BY <1>2, <1>3 DEF Asterisk, amiLogin, closesocket, vars, threadVars
<1>b. ASSUME NEW w \in Worker, Begin(w), pc' = [pc EXCEPT ![w] = "manage"]
                                         \/ pc' = [pc EXCEPT ![w] = "sync"]
      PROVE  Fresh(r)' => Fresh(r)
  <2>1. made' = made + 1 /\ req' = [req EXCEPT ![w] = made']
    BY <1>b DEF Begin
  <2>2. \A v \in Worker : v # w => req'[v] = req[v] /\ pc'[v] = pc[v]
    BY <1>b, <2>1, <1>p
  <2>3. req'[w] = made + 1
    BY <2>1, <1>p
  <2> QED BY <1>0, <1>1, <1>p, <2>1, <2>2, <2>3 DEF Request
<1>k. ASSUME NEW w \in Worker, UNCHANGED <<req, made>>,
             \A v \in Worker : pc'[v] \in Early => pc[v] \in Early
      PROVE  Fresh(r)' => Fresh(r)
  BY <1>k, <1>0, <1>1
<1>4. ASSUME NEW w \in Worker, ami_sync(w) PROVE Fresh(r)' => Fresh(r)
  <2> USE DEF Goto, Early
  <2>1. CASE Start(w) BY <1>2, <1>b, <2>1 DEF Start
  <2>2. CASE Manage(w) BY <1>p, <1>k, <2>2 DEF Manage
  <2>3. CASE Sync(w) BY <1>p, <1>k, <2>3 DEF Sync
  <2>4. CASE Buffer(w) BY <1>p, <1>k, <2>4 DEF Buffer
  <2>5. CASE Lock(w) BY <1>p, <1>k, <2>5 DEF Lock
  <2>6. CASE Send(w) BY <1>p, <1>k, <2>6 DEF Send
  <2>7. CASE Expire(w) BY <1>2, <2>7 DEF Expire
  <2>8. CASE Return(w) BY <1>p, <1>k, <2>8 DEF Return
  <2>9. CASE Continue(w) BY <1>b, <2>9 DEF Continue
  <2>10. CASE Finish(w) BY <1>p, <1>k, <2>10 DEF Finish
  <2>11. CASE Reply(w)
    <3>1. req' = [req EXCEPT ![w] = NULL] /\ pc' = [pc EXCEPT ![w] = "idle"] /\ UNCHANGED made
      BY <2>11 DEF Reply
    <3> QED BY <1>0, <1>1, <1>p, <3>1
  <2> QED BY <1>4, <2>1, <2>2, <2>3, <2>4, <2>5, <2>6, <2>7, <2>8, <2>9, <2>10, <2>11 DEF ami_sync
<1>5. ASSUME NEW w \in Worker, ami_event(w) PROVE Fresh(r)' => Fresh(r)
  <2> USE DEF Goto, Early
  <2>1. UNCHANGED <<req, made>>
    BY <1>5 DEF ami_event
  <2>2. CASE Read(w) BY <1>p, <1>k, <2>1, <2>2 DEF Read
  <2>3. CASE Look(w) BY <1>p, <1>k, <2>1, <2>3 DEF Look
  <2>4. CASE EventCount(w) BY <1>p, <1>k, <2>1, <2>4 DEF EventCount
  <2>5. CASE Handle(w) BY <1>p, <1>k, <2>1, <2>5 DEF Handle
  <2>6. CASE Clear(w) BY <1>p, <1>k, <2>1, <2>6 DEF Clear
  <2>7. CASE Dispatch(w) BY <1>p, <1>k, <2>1, <2>7 DEF Dispatch
  <2>8. CASE Rearm(w) BY <1>p, <1>k, <2>1, <2>8 DEF Rearm
  <2> QED BY <1>5, <2>2, <2>3, <2>4, <2>5, <2>6, <2>7, <2>8 DEF ami_event
<1> QED BY <1>3, <1>4, <1>5 DEF Next

(* A step that leaves pResp and the sleepers alone.                         *)
LEMMA KeepPResp ==
  ASSUME SocketInv, RequestInv, PRespInv, [Next]_vars, UNCHANGED <<pResp, sleeping, late>>,
         \A v \in sleeping : this'[v] = this[v] /\ req'[v] = req[v],
         \A v \in Worker : pc'[v] \in {"count", "handle"} => pResp[this'[v]] # NULL
  PROVE  PRespInv'
<1>1. \A r \in Request : Fresh(r)' => Fresh(r)
  BY FreshStep
<1>2. \A c \in Conn : pResp[c] # NULL => pResp[c] \in Request
  BY DEF PRespInv
<1>3. (\A c \in Conn : pResp[c] # NULL => ~Fresh(pResp[c]))'
  <2> SUFFICES ASSUME NEW c \in Conn, pResp'[c] # NULL PROVE ~Fresh(pResp[c])'
    OBVIOUS
  <2> PICK r \in Request : r = pResp[c] /\ ~Fresh(r)
    BY <1>2 DEF PRespInv
  <2>1. ~Fresh(r)'
    BY <1>1
  <2>2. r = pResp'[c]
    OBVIOUS
  <2> QED BY <2>1, <2>2 DEF Fresh
<1> QED BY <1>3 DEF PRespInv
LEMMA InitPResp == Init => PRespInv
BY NoRequest DEF Init, PRespInv, Request

LEMMA SyncPResp ==
  ASSUME NEW w \in Worker, SocketInv, CallerInv, RequestInv, PRespInv, [Next]_vars, ami_sync(w)
  PROVE  PRespInv'
<1> USE NoRequest
<1>p. /\ pc \in [Worker -> Label] /\ req \in [Worker -> Request \union {NULL}]
      /\ this \in [Worker -> Conn \union {NULL}] /\ sleeping \subseteq Worker
      /\ pResp \in [Conn -> Request \union {NULL}] /\ late \subseteq Request
      /\ \A v \in sleeping : pc[v] = "wait" /\ this[v] \in Conn /\ mutexAMI[this[v]] = v
      /\ \A v \in Worker : pc[v] \in {"count", "handle"} => pResp[this[v]] # NULL
  BY DEF SocketInv, RequestInv, PRespInv, Place, CallerInv, Waiting, Owned
<1>1. \A r \in Request : Fresh(r)' => Fresh(r)
  BY FreshStep
<1>k. ASSUME UNCHANGED <<pResp, sleeping, late>>, w \notin sleeping,
             \A v \in Worker \ {w} : this'[v] = this[v] /\ req'[v] = req[v] /\ pc'[v] = pc[v],
             pc'[w] \notin {"count", "handle"}
      PROVE  PRespInv'
  BY <1>k, <1>p, KeepPResp
<1> USE DEF Goto
<1>2. CASE UNCHANGED <<pc, this, req, pResp, sleeping, late>>
  BY <1>2, <1>p, KeepPResp
<1>3. CASE Start(w) BY <1>p, <1>k, <1>3 DEF Start, Begin, manageVars
<1>4. CASE Manage(w) BY <1>p, <1>k, <1>4 DEF Manage, manageVars
<1>5. CASE Sync(w) BY <1>p, <1>k, <1>5 DEF Sync, manageVars
<1>6. CASE Buffer(w) BY <1>p, <1>k, <1>6 DEF Buffer, manageVars
<1>7. CASE Lock(w) BY <1>p, <1>k, <1>7 DEF Lock
<1>8. CASE Send(w)
  <2>1. CASE UNCHANGED <<pResp, sleeping, pc>>
    BY <1>2, <1>8, <2>1 DEF Send
  <2>2. CASE ~UNCHANGED <<pResp, sleeping, pc>>
    <3> PICK c \in Conn : c = this[w]
      BY <1>8, <1>p DEF Send, CallerInv, Owned
    <3> PICK r \in Request : r = req[w]
      BY <1>8 DEF Send, RequestInv, Caller
    <3>1. /\ pc[w] = "send" /\ pc' = [pc EXCEPT ![w] = "wait"] /\ UNCHANGED <<this, req, made, late>>
          /\ pResp' = [pResp EXCEPT ![c] = r] /\ sleeping' = sleeping \union {w}
      BY <1>8, <2>2 DEF Send
    <3>2. Fresh(r)
      BY <3>1 DEF Fresh
    <3>3. \A d \in Conn : pResp[d] # r
      BY <3>2 DEF PRespInv
    <3>4. \A v \in sleeping : this[v] # c
      BY <1>p, <3>1 DEF CallerInv, Owned
    <3>5. ~Fresh(r)'
      <4>1. \A v \in Worker : req[v] = r => v = w
        BY DEF RequestInv
      <4>2. r <= made /\ made \in Nat
        BY DEF RequestInv
      <4> QED BY <3>1, <4>1, <4>2, <1>p DEF Fresh, Request
    <3>6. \A d \in Conn : pResp'[d] = (IF d = c THEN r ELSE pResp[d])
      BY <3>1, <1>p
    <3>7. (\A d \in Conn : pResp[d] # NULL => ~Fresh(pResp[d]))'
      <4> SUFFICES ASSUME NEW d \in Conn, pResp'[d] # NULL PROVE ~Fresh(pResp[d])'
        OBVIOUS
      <4> PICK q \in Request : q = pResp'[d]
        BY <3>6, <1>p
      <4>1. q = r \/ ~Fresh(q)
        BY <3>6 DEF PRespInv
      <4>2. ~Fresh(q)'
        BY <4>1, <3>5, <1>1
      <4> QED BY <4>2 DEF Fresh
    <3>8. \A d, e \in Conn : pResp'[d] = pResp'[e] /\ pResp'[d] # NULL => d = e
      BY <3>3, <3>6 DEF PRespInv
    <3>9. \A d \in Conn : pResp'[d] # NULL /\ pResp'[d] \notin late' =>
             \E v \in sleeping' : this'[v] = d /\ req'[v] = pResp'[d]
      BY <3>1, <3>6 DEF PRespInv
    <3>10. \A v \in sleeping' : pResp'[this'[v]] \in {req'[v], NULL}
      <4>1. \A v \in sleeping : pResp'[this[v]] = pResp[this[v]]
        BY <3>4, <3>6, <1>p
      <4> QED BY <4>1, <3>1, <3>6 DEF PRespInv
    <3>11. \A v \in Worker : pc'[v] \in {"count", "handle"} => pResp'[this'[v]] # NULL
      <4>1. \A v \in Worker : pc[v] \in {"count", "handle"} => this[v] \in Conn
        BY DEF SocketInv, OneShot, Handler, Client
      <4> QED BY <4>1, <1>p, <3>1, <3>6
    <3>12. pResp' \in [Conn -> Request \union {NULL}] /\ late' \subseteq Request
      BY <1>p, <3>1
    <3> QED BY <3>7, <3>8, <3>9, <3>10, <3>11, <3>12 DEF PRespInv
  <2> QED BY <2>1, <2>2
<1>9. CASE Expire(w)
  <2>1. /\ UNCHANGED <<pResp, this, req, pc, made>> /\ w \in sleeping
        /\ sleeping' = sleeping \ {w} /\ late' = late \union {req[w]}
    BY <1>9 DEF Expire, manageVars
  <2>2. req[w] \in Request
    BY <1>p, <1>9 DEF Expire, RequestInv, Caller
  <2>3. pResp[this[w]] \in {req[w], NULL}
    BY <2>1 DEF PRespInv
  <2> QED BY <1>p, <2>1, <2>2, <2>3 DEF PRespInv, Fresh
<1>10. CASE Return(w) BY <1>p, <1>k, <1>10 DEF Return
<1>11. CASE Continue(w) BY <1>p, <1>k, <1>11 DEF Continue, Begin, manageVars
<1>12. CASE Finish(w) BY <1>p, <1>k, <1>12 DEF Finish, manageVars
<1>13. CASE Reply(w) BY <1>p, <1>k, <1>13 DEF Reply, manageVars
<1> QED BY <1>3, <1>4, <1>5, <1>6, <1>7, <1>8, <1>9, <1>10, <1>11, <1>12, <1>13 DEF ami_sync

LEMMA EventPResp ==
  ASSUME NEW w \in Worker, SocketInv, CallerInv, RequestInv, PRespInv, [Next]_vars, ami_event(w)
  PROVE  PRespInv'
<1> USE NoRequest
<1>p. /\ pc \in [Worker -> Label] /\ req \in [Worker -> Request \union {NULL}]
      /\ this \in [Worker -> Conn \union {NULL}] /\ sleeping \subseteq Worker
      /\ pResp \in [Conn -> Request \union {NULL}] /\ late \subseteq Request
      /\ \A v \in sleeping : pc[v] = "wait" /\ this[v] \in Conn
      /\ \A v \in Worker : pc[v] \in {"count", "handle"} => pResp[this[v]] # NULL
  BY DEF SocketInv, RequestInv, PRespInv, Place, CallerInv, Waiting, Owned
<1>1. \A r \in Request : Fresh(r)' => Fresh(r)
  BY FreshStep
<1>2. UNCHANGED <<req, made, late>>
  BY DEF ami_event
<1>k. ASSUME UNCHANGED <<pResp, sleeping>>, w \notin sleeping,
             \A v \in Worker \ {w} : this'[v] = this[v] /\ pc'[v] = pc[v],
             pc'[w] \in {"count", "handle"} => pResp[this'[w]] # NULL
      PROVE  PRespInv'
  BY <1>k, <1>2, <1>p, KeepPResp
(* pResp loses the entry of the handler's connection, with the sleepers     *)
<1>n. ASSUME Handler(w), pResp' = [pResp EXCEPT ![this[w]] = NULL], UNCHANGED this,
             sleeping' = sleeping \ Wake(this[w]) \/ sleeping' = sleeping,
             pc' = [pc EXCEPT ![w] = "done"] \/ pc' = [pc EXCEPT ![w] = "event"]
      PROVE  PRespInv'
  <2> PICK c \in Conn : c = this[w]
    BY <1>n DEF SocketInv, OneShot, Client
  <2>1. \A d \in Conn : pResp'[d] = (IF d = c THEN NULL ELSE pResp[d])
    BY <1>n, <1>p
  <2>2. (\A d \in Conn : pResp[d] # NULL => ~Fresh(pResp[d]))'
    <3> SUFFICES ASSUME NEW d \in Conn, pResp'[d] # NULL PROVE ~Fresh(pResp[d])'
      OBVIOUS
    <3> PICK q \in Request : q = pResp'[d]
      BY <2>1, <1>p
    <3>1. ~Fresh(q)
      BY <2>1 DEF PRespInv
    <3>2. ~Fresh(q)'
      BY <3>1, <1>1
    <3> QED BY <3>2 DEF Fresh
  <2>3. \A d \in Conn : pResp'[d] # NULL /\ pResp'[d] \notin late' =>
           \E v \in sleeping' : this'[v] = d /\ req'[v] = pResp'[d]
    BY <1>n, <1>2, <2>1 DEF PRespInv, Wake
  <2>4. \A v \in sleeping' : pResp'[this'[v]] \in {req'[v], NULL}
    BY <1>n, <1>p, <1>2, <2>1 DEF PRespInv
  <2>5. \A v \in Worker : pc'[v] \in {"count", "handle"} => pResp'[this'[v]] # NULL
    <3> SUFFICES ASSUME NEW v \in Worker, pc'[v] \in {"count", "handle"} PROVE pResp'[this[v]] # NULL
      BY <1>n
    <3>1. v # w /\ pc[v] \in {"count", "handle"}
      BY <1>n, <1>p
    <3>2. Handler(v)
      BY <3>1 DEF Handler
    <3>3. this[v] \in Conn /\ ami_socket = this[v]
      BY <3>2 DEF SocketInv, OneShot, Client
    <3>4. FALSE
      BY <1>n, <3>1, <3>2 DEF SocketInv, OneShot
    <3> QED BY <3>4
  <2> QED BY <1>p, <1>n, <1>2, <2>1, <2>2, <2>3, <2>4, <2>5 DEF PRespInv
<1> USE DEF Goto
<1>3. CASE Read(w) BY <1>p, <1>k, <1>3 DEF Read
<1>4. CASE Look(w)
  <2>1. pc[w] = "look" /\ UNCHANGED <<pResp, sleeping, this>>
    BY <1>4 DEF Look
  <2>2. \A v \in Worker : v # w => pc'[v] = pc[v]
    BY <1>4, <1>p DEF Look
  <2>3. pc'[w] \in {"count", "handle"} => pResp[this[w]] # NULL
    BY <1>4, <1>p DEF Look
  <2> QED BY <1>p, <1>k, <2>1, <2>2, <2>3
<1>5. CASE EventCount(w)
  BY <1>p, <1>k, <1>5 DEF EventCount
<1>6. CASE Handle(w)
  <2>1. CASE UNCHANGED <<pResp, sleeping>>
    BY <1>p, <1>k, <1>6, <2>1 DEF Handle
  <2>2. CASE ~UNCHANGED <<pResp, sleeping>>
    BY <1>n, <1>6, <2>2 DEF Handle, Handler
  <2> QED BY <2>1, <2>2
<1>7. CASE Clear(w)
  <2>1. CASE UNCHANGED pResp
    BY <1>p, <1>k, <1>7, <2>1 DEF Clear
  <2>2. CASE ~UNCHANGED pResp
    BY <1>n, <1>7, <2>2 DEF Clear, Handler
  <2> QED BY <2>1, <2>2
<1>8. CASE Dispatch(w) BY <1>p, <1>k, <1>8 DEF Dispatch
<1>9. CASE Rearm(w) BY <1>p, <1>k, <1>9 DEF Rearm
<1> QED BY <1>3, <1>4, <1>5, <1>6, <1>7, <1>8, <1>9 DEF ami_event
----------------------------------------------------------------------------
(* MessageInv is an invariant                                               *)

(* What is left of a queue was in it, and what is put into it is its last.  *)
LEMMA TailOf ==
  ASSUME NEW S, NEW s \in Seq(S), s # <<>>
  PROVE  /\ Head(s) = s[1] /\ 1 \in DOMAIN s /\ Head(s) \in S
         /\ Tail(s) \in Seq(S) /\ Len(Tail(s)) = Len(s) - 1 /\ Len(s) \in Nat \ {0}
         /\ \A i \in DOMAIN Tail(s) : i \in 1 .. Len(s) - 1 /\ i + 1 \in DOMAIN s /\ Tail(s)[i] = s[i + 1]
<1>1. Len(s) \in Nat \ {0} /\ DOMAIN s = 1 .. Len(s)
  BY EmptySeq, LenProperties
<1>2. Head(s) \in S /\ Tail(s) \in Seq(S) /\ Len(Tail(s)) = Len(s) - 1
  BY HeadTailProperties
<1>3. DOMAIN Tail(s) = 1 .. Len(s) - 1
  BY <1>1, <1>2, LenProperties
<1>4. \A i \in 1 .. Len(s) - 1 : Tail(s)[i] = s[i + 1]
  BY <1>1, HeadTailProperties
<1>5. Head(s) = s[1]
  BY HeadTailProperties
<1> QED BY <1>1, <1>2, <1>3, <1>4, <1>5

LEMMA AppendOf ==
  ASSUME NEW S, NEW s \in Seq(S), NEW x \in S
  PROVE  /\ Append(s, x) \in Seq(S) /\ Len(Append(s, x)) = Len(s) + 1 /\ Len(s) \in Nat
         /\ Append(s, x) # <<>>
         /\ DOMAIN s = 1 .. Len(s) /\ DOMAIN Append(s, x) = 1 .. Len(s) + 1
         /\ \A i \in DOMAIN s : Append(s, x)[i] = s[i]
         /\ Append(s, x)[Len(s) + 1] = x
<1>1. Len(s) \in Nat /\ DOMAIN s = 1 .. Len(s)
  BY LenProperties
<1>2. /\ Append(s, x) \in Seq(S) /\ Len(Append(s, x)) = Len(s) + 1
      /\ \A i \in 1 .. Len(s) : Append(s, x)[i] = s[i]
      /\ Append(s, x)[Len(s) + 1] = x
  BY AppendProperties
<1>3. DOMAIN Append(s, x) = 1 .. Len(s) + 1
  BY <1>2, LenProperties
<1>4. Append(s, x) # <<>>
  BY <1>1, <1>2
<1> QED BY <1>1, <1>2, <1>3, <1>4

LEMMA InitMessage == Init => MessageInv
BY NoRequest, EmptySeq DEF Init, MessageInv, Handler

(* A step that leaves messages alone.                                       *)
LEMMA KeepMessage ==
  ASSUME MessageInv, UNCHANGED <<sent, inbox, verdict, emitted, jobs, dropped, msg>>,
         actionid' \in [Conn -> Nat],
         \A v \in Worker : Handler(v)' <=> Handler(v),
         \A v \in Worker : pc'[v] \in {"count", "handle", "clear"} => Judged(verdict, msg[v])
  PROVE  MessageInv'
BY DEF MessageInv

(* What is a message stays one.                                             *)
LEMMA FitStays ==
  ASSUME NEW n \in Nat, NEW m \in Nat, n <= m, NEW u, NEW v, NEW x,
         \A r \in Request : u[r] # NULL => v[r] # NULL
  PROVE  /\ Judged(u, x) => Judged(v, x)
         /\ x \in EventMessage(n) => x \in EventMessage(m)
         /\ Fit(u, n, x) => Fit(v, m, x)
         /\ x \in InMessage(n) => x \in InMessage(m)
<1>1. Judged(u, x) => Judged(v, x)
  BY DEF Judged, AnswerMessage
<1>2. x \in EventMessage(n) => x \in EventMessage(m)
  BY DEF EventMessage
<1> QED BY <1>1, <1>2 DEF Fit, InMessage

(* A message joins the queue of one connection.                             *)
LEMMA ArriveMessage ==
  ASSUME MessageInv, NEW c \in Conn, NEW x, inbox' = [inbox EXCEPT ![c] = Append(@, x)],
         emitted' \in 0 .. MaxEvent, emitted <= emitted',
         verdict' \in [Request -> {"ok", "fail", NULL}],
         \A r \in Request : verdict[r] # NULL => verdict'[r] # NULL,
         Fit(verdict', emitted', x),
         sent' \in [Conn -> Seq(ActionMessage)],
         UNCHANGED <<pc, msg, actionid, jobs, dropped>>
  PROVE  MessageInv'
<1>1. emitted \in Nat /\ emitted' \in Nat
  BY NoRequest DEF MessageInv
<1>2. \A y : /\ Judged(verdict, y) => Judged(verdict', y)
             /\ Fit(verdict, emitted, y) => Fit(verdict', emitted', y)
             /\ y \in InMessage(emitted) => y \in InMessage(emitted')
  BY <1>1, FitStays
<1>3. x \in InMessage(emitted')
  BY DEF Fit, Judged, InMessage
<1>4. \A d \in Conn : inbox[d] \in Seq(InMessage(emitted'))
  <2> SUFFICES ASSUME NEW d \in Conn PROVE inbox[d] \in Seq(InMessage(emitted'))
    OBVIOUS
  <2>1. inbox[d] \in Seq(InMessage(emitted))
    BY DEF MessageInv
  <2>2. InMessage(emitted) \subseteq InMessage(emitted')
    BY <1>2
  <2> QED BY <2>1, <2>2, SeqMonotonic
<1>5. /\ Append(inbox[c], x) \in Seq(InMessage(emitted'))
      /\ DOMAIN Append(inbox[c], x) = 1 .. Len(inbox[c]) + 1 /\ Len(inbox[c]) \in Nat
      /\ DOMAIN inbox[c] = 1 .. Len(inbox[c])
      /\ \A i \in DOMAIN inbox[c] : Append(inbox[c], x)[i] = inbox[c][i]
      /\ Append(inbox[c], x)[Len(inbox[c]) + 1] = x
  BY <1>3, <1>4, AppendOf
<1>6. inbox' \in [Conn -> Seq(InMessage(emitted'))]
  BY <1>4, <1>5 DEF MessageInv
<1>7. \A d \in Conn : \A i \in DOMAIN inbox'[d] : Fit(verdict', emitted', inbox'[d][i])
  <2> SUFFICES ASSUME NEW d \in Conn, NEW i \in DOMAIN inbox'[d]
               PROVE  Fit(verdict', emitted', inbox'[d][i])
    OBVIOUS
  <2>1. CASE d # c
    BY <1>2, <2>1 DEF MessageInv
  <2>2. CASE d = c
    <3>1. inbox'[d] = Append(inbox[c], x)
      BY <2>2 DEF MessageInv
    <3>2. CASE i \in DOMAIN inbox[c]
      BY <1>2, <1>5, <3>1, <3>2 DEF MessageInv
    <3>3. CASE i \notin DOMAIN inbox[c]
      <4>1. i \in 1 .. Len(inbox[c]) + 1 /\ i \notin 1 .. Len(inbox[c])
        BY <1>5, <3>1, <3>3
      <4>2. Len(inbox[c]) \in Nat BY <1>5
      <4>3. i = Len(inbox[c]) + 1 BY <4>1, <4>2
      <4> QED BY <1>5, <3>1, <4>3
    <3> QED BY <3>2, <3>3
  <2> QED BY <2>1, <2>2
<1>8. \A v \in Worker : Handler(v)' <=> Handler(v)
  BY DEF Handler
<1>9. jobs' \in Seq(1 .. MaxEvent) /\ dropped' \subseteq Request /\ actionid' \in [Conn -> Nat]
  BY DEF MessageInv
<1>10. /\ \A v \in Worker : Handler(v) => Fit(verdict', emitted', msg[v])
       /\ \A v \in Worker : pc[v] \in {"count", "handle", "clear"} => Judged(verdict', msg[v])
       /\ \A v \in Worker : ~Handler(v) => msg[v] = NULL
       /\ msg' \in [Worker -> InMessage(emitted') \union {NULL}]
  BY <1>2 DEF MessageInv
<1> QED BY <1>6, <1>7, <1>8, <1>9, <1>10 DEF MessageInv

LEMMA AsteriskMessage ==
  ASSUME MessageInv, Asterisk
  PROVE  MessageInv'
<1> USE NoRequest
<1>1. UNCHANGED <<pc, msg, actionid, jobs, dropped>>
  BY DEF Asterisk, manageVars, threadVars, pastVars
<1>2. emitted \in 0 .. MaxEvent /\ verdict \in [Request -> {"ok", "fail", NULL}]
  BY DEF MessageInv
<1>3. ASSUME NEW c \in Conn, Answer(c) PROVE MessageInv'
  <2> DEFINE a == Head(sent[c])
             x == [a EXCEPT !.kind = "Response"]
  <2>1. sent[c] \in Seq(ActionMessage) /\ sent[c] # <<>>
    BY <1>3 DEF Answer, MessageInv
  <2>2. a \in ActionMessage /\ Tail(sent[c]) \in Seq(ActionMessage)
    BY <2>1, TailOf
  <2>3. x \in AnswerMessage /\ x.req = a.req /\ a.req \in Request
    BY <2>2 DEF ActionMessage, AnswerMessage
  <2>4. PICK v \in {"ok", "fail"} : verdict' = [verdict EXCEPT ![a.req] = v]
    BY <1>3 DEF Answer
  <2>5. inbox' = [inbox EXCEPT ![c] = Append(@, x)] /\ sent' = [sent EXCEPT ![c] = Tail(@)]
        /\ UNCHANGED emitted
    BY <1>3 DEF Answer
  <2> HIDE DEF a, x
  <2>6. verdict' \in [Request -> {"ok", "fail", NULL}] /\ verdict'[x.req] # NULL
        /\ \A r \in Request : verdict[r] # NULL => verdict'[r] # NULL
    BY <1>2, <2>3, <2>4
  <2>7. Fit(verdict', emitted', x)
    BY <2>3, <2>6 DEF Fit, Judged
  <2>8. sent' \in [Conn -> Seq(ActionMessage)]
    BY <2>2, <2>5 DEF MessageInv
  <2>9. emitted <= emitted' /\ emitted' \in 0 .. MaxEvent
    BY <1>2, <2>5
  <2> QED BY <1>1, <2>5, <2>6, <2>7, <2>8, <2>9, ArriveMessage
<1>4. ASSUME NEW c \in Conn, Emit(c) PROVE MessageInv'
  <2> DEFINE x == [kind |-> "Event", id |-> 0, req |-> emitted']
  <2>1. /\ inbox' = [inbox EXCEPT ![c] = Append(@, x)] /\ UNCHANGED <<sent, verdict>>
        /\ emitted < MaxEvent /\ emitted' = emitted + 1
    BY <1>4 DEF Emit
  <2>2. emitted' \in 0 .. MaxEvent /\ emitted <= emitted'
    BY <1>2, <2>1
  <2>3. x \in EventMessage(emitted')
    BY <1>2, <2>1 DEF EventMessage
  <2> HIDE DEF x
  <2>4. Fit(verdict', emitted', x)
    BY <2>3 DEF Fit
  <2>5. sent' \in [Conn -> Seq(ActionMessage)]
    BY <2>1 DEF MessageInv
  <2> QED BY <1>1, <1>2, <2>1, <2>2, <2>4, <2>5, ArriveMessage
<1>5. ASSUME NEW c \in Conn, HangUp(c) PROVE MessageInv'
  <2>1. \A v \in Worker : Handler(v)' <=> Handler(v)
    BY <1>1 DEF Handler
  <2>2. \A v \in Worker : pc'[v] \in {"count", "handle", "clear"} => Judged(verdict, msg[v])
    BY <1>1 DEF MessageInv
  <2>3. actionid' \in [Conn -> Nat]
    BY <1>1 DEF MessageInv
  <2> QED BY <1>1, <1>5, <2>1, <2>2, <2>3, KeepMessage DEF HangUp
<1> QED BY <1>3, <1>4, <1>5 DEF Asterisk

(* The login action has an ActionID of its own.                             *)
LEMMA MainMessage ==
  ASSUME SocketInv, MessageInv, amiLogin \/ closesocket \/ UNCHANGED vars
  PROVE  MessageInv'
<1>1. UNCHANGED <<pc, msg, sent, inbox, verdict, emitted, jobs, dropped>>
  BY DEF amiLogin, closesocket, vars, threadVars, netVars, pastVars
<1>2. actionid' \in [Conn -> Nat]
  <2>1. CASE LoginTalk
    BY <2>1 DEF LoginTalk, MessageInv, SocketInv, LoginOK
  <2>2. CASE UNCHANGED actionid
    BY <2>2 DEF MessageInv
  <2> QED BY <2>1, <2>2 DEF amiLogin, closesocket, vars, manageVars, LoginCheck, LoginNew,
          LoginConnect, LoginAdd, LoginDelete, LoginReset
<1>3. \A v \in Worker : Handler(v)' <=> Handler(v)
  BY <1>1 DEF Handler
<1>4. \A v \in Worker : pc'[v] \in {"count", "handle", "clear"} => Judged(verdict, msg[v])
  BY <1>1 DEF MessageInv
<1> QED BY <1>1, <1>2, <1>3, <1>4, KeepMessage
LEMMA SyncMessage ==
  ASSUME NEW w \in Worker, SocketInv, RequestInv, MessageInv, ami_sync(w)
  PROVE  MessageInv'
<1>p. pc \in [Worker -> Label] /\ ami_socket \in Conn \union {NULL} /\ actionid \in [Conn -> Nat]
  BY DEF SocketInv, Place, MessageInv
<1>1. UNCHANGED <<msg, inbox, verdict, emitted, dropped, jobs>>
  BY DEF ami_sync
<1>k. ASSUME UNCHANGED <<sent, actionid>>,
             pc' = pc \/ \E l \in {"idle", "manage", "sync", "buffer", "lock", "send", "wait", "answered",
                                   "reply"} : pc' = [pc EXCEPT ![w] = l],
             pc' = pc \/ ~Handler(w)
      PROVE  MessageInv'
  <2>1. \A v \in Worker : Handler(v)' <=> Handler(v)
    BY <1>k, <1>p DEF Handler
  <2>2. \A v \in Worker : pc'[v] \in {"count", "handle", "clear"} => Judged(verdict, msg[v])
    BY <1>k, <1>p DEF MessageInv
  <2>3. actionid' \in [Conn -> Nat]
    BY <1>k, <1>p
  <2> QED BY <1>1, <1>k, <2>1, <2>2, <2>3, KeepMessage
<1> USE DEF Goto, Handler
<1>3. CASE Start(w) BY <1>k, <1>3 DEF Start, manageVars
<1>4. CASE Manage(w) BY <1>k, <1>4 DEF Manage, manageVars
<1>5. CASE Sync(w) BY <1>k, <1>5 DEF Sync, manageVars
<1>6. CASE Buffer(w) BY <1>k, <1>6 DEF Buffer, manageVars
<1>7. CASE Lock(w) BY <1>k, <1>7 DEF Lock
<1>8. CASE Send(w)
  <2>1. CASE UNCHANGED <<sent, actionid, pc>>
    BY <1>k, <1>8, <2>1 DEF Send
  <2>2. CASE ~UNCHANGED <<sent, actionid, pc>>
    <3> DEFINE x == [kind |-> "Action", id |-> actionid'[this[w]], req |-> req[w]]
    <3>1. /\ pc[w] = "send" /\ pc' = [pc EXCEPT ![w] = "wait"] /\ ami_socket \in Conn
          /\ this[w] \in Conn /\ actionid' = [actionid EXCEPT ![this[w]] = @ + 1]
          /\ sent' = sent \/ sent' = [sent EXCEPT ![ami_socket] = Append(@, x)]
      BY <1>8, <1>p, <2>2 DEF Send, Gone, SocketInv, Place
    <3>2. req[w] \in Request
      BY <3>1 DEF RequestInv, Caller
    <3>3. actionid' \in [Conn -> Nat]
      BY <1>p, <3>1
    <3>4. x \in ActionMessage
      BY <3>1, <3>2, <3>3 DEF ActionMessage
    <3> HIDE DEF x
    <3>5. Append(sent[ami_socket], x) \in Seq(ActionMessage)
      <4>1. sent[ami_socket] \in Seq(ActionMessage)
        BY <3>1 DEF MessageInv
      <4> QED BY <3>4, <4>1, AppendOf
    <3>6. sent' \in [Conn -> Seq(ActionMessage)]
      BY <3>1, <3>5 DEF MessageInv
    <3>7. \A v \in Worker : Handler(v)' <=> Handler(v)
      BY <3>1, <1>p
    <3>8. \A v \in Worker : pc'[v] \in {"count", "handle", "clear"} => pc[v] \in {"count", "handle", "clear"}
      BY <3>1, <1>p
    <3> QED BY <1>1, <3>3, <3>6, <3>7, <3>8 DEF MessageInv
  <2> QED BY <2>1, <2>2
<1>9. CASE Expire(w) BY <1>k, <1>9 DEF Expire, manageVars
<1>10. CASE Return(w) BY <1>k, <1>10 DEF Return
<1>11. CASE Continue(w) BY <1>k, <1>11 DEF Continue, manageVars
<1>12. CASE Finish(w) BY <1>k, <1>12 DEF Finish, manageVars
<1>13. CASE Reply(w) BY <1>k, <1>13 DEF Reply, manageVars
<1> QED BY <1>3, <1>4, <1>5, <1>6, <1>7, <1>8, <1>9, <1>10, <1>11, <1>12, <1>13 DEF ami_sync

(* A message is an answer or an event.                                      *)
LEMMA KindOf ==
  ASSUME NEW v, NEW n, NEW x, Fit(v, n, x)
  PROVE  /\ x.kind = "Response" <=> x \in AnswerMessage
         /\ x.kind = "Event" <=> x \in EventMessage(n)
         /\ x.kind = "Response" => Judged(v, x)
BY DEF Fit, Judged, AnswerMessage, EventMessage

LEMMA HandlerMessage ==
  ASSUME NEW w \in Worker, SocketInv, MessageInv, ami_event(w)
  PROVE  MessageInv'
<1>p. /\ pc \in [Worker -> Label] /\ actionid \in [Conn -> Nat] /\ emitted \in 0 .. MaxEvent
      /\ Handler(w) => Fit(verdict, emitted, msg[w])
  BY DEF SocketInv, MessageInv
<1>1. UNCHANGED <<actionid, sent, verdict, emitted>>
  BY DEF ami_event
<1>k. ASSUME UNCHANGED <<inbox, jobs, dropped, msg>>, pc' = pc \/ Handler(w),
             pc' = pc \/ pc' = [pc EXCEPT ![w] = "event"] \/ pc' = [pc EXCEPT ![w] = "done"] \/
             \E l \in {"count", "handle", "clear"} :
                 pc' = [pc EXCEPT ![w] = l] /\ Judged(verdict, msg[w])
      PROVE  MessageInv'
  <2>1. \A v \in Worker : Handler(v)' <=> Handler(v)
    BY <1>k, <1>p DEF Handler
  <2>2. \A v \in Worker : pc'[v] \in {"count", "handle", "clear"} => Judged(verdict, msg[v])
    BY <1>k, <1>p DEF MessageInv
  <2>3. actionid' \in [Conn -> Nat]
    BY <1>1, <1>p
  <2> QED BY <1>1, <1>k, <2>1, <2>2, <2>3, KeepMessage
<1> USE DEF Goto, Handler
<1>2. CASE Read(w)
  <2> PICK c \in armed \ hup :
        /\ inbox[c] # <<>>
        /\ this' = [this EXCEPT ![w] = c]
        /\ msg' = [msg EXCEPT ![w] = Head(inbox[c])]
        /\ inbox' = [inbox EXCEPT ![c] = Tail(@)]
    BY <1>2 DEF Read
  <2>1. pc[w] = "idle" /\ pc' = [pc EXCEPT ![w] = "look"] /\ UNCHANGED <<jobs, dropped>> /\ c \in Conn
    BY <1>2 DEF Read, SocketInv
  <2>2. inbox[c] \in Seq(InMessage(emitted))
    BY <2>1 DEF MessageInv
  <2>3. /\ Head(inbox[c]) = inbox[c][1] /\ 1 \in DOMAIN inbox[c]
        /\ Tail(inbox[c]) \in Seq(InMessage(emitted))
        /\ \A i \in DOMAIN Tail(inbox[c]) : i + 1 \in DOMAIN inbox[c] /\ Tail(inbox[c])[i] = inbox[c][i + 1]
    BY <2>2, TailOf
  <2>4. inbox' \in [Conn -> Seq(InMessage(emitted))]
    BY <2>1, <2>3 DEF MessageInv
  <2>5. \A d \in Conn : \A i \in DOMAIN inbox'[d] : Fit(verdict, emitted, inbox'[d][i])
    <3> SUFFICES ASSUME NEW d \in Conn, NEW i \in DOMAIN inbox'[d]
                 PROVE  Fit(verdict, emitted, inbox'[d][i])
      OBVIOUS
    <3>1. CASE d # c
      BY <3>1 DEF MessageInv
    <3>2. CASE d = c
      <4>1. inbox'[d] = Tail(inbox[c])
        BY <3>2 DEF MessageInv
      <4> QED BY <2>1, <2>3, <4>1 DEF MessageInv
    <3> QED BY <3>1, <3>2
  <2>6. \A v \in Worker : msg'[v] = (IF v = w THEN inbox[c][1] ELSE msg[v])
    <3>1. DOMAIN msg = Worker
      BY DEF MessageInv
    <3> QED BY <2>3, <3>1
  <2>7. \A v \in Worker : Handler(v)' <=> v = w \/ Handler(v)
    BY <2>1, <1>p
  <2>8. Fit(verdict, emitted, inbox[c][1])
    BY <2>1, <2>3 DEF MessageInv
  <2>9. \A v \in Worker : pc'[v] \in {"count", "handle", "clear"} => Judged(verdict, msg'[v])
    BY <1>p, <2>1, <2>6 DEF MessageInv
  <2>10. msg' \in [Worker -> InMessage(emitted) \union {NULL}]
    <3>1. inbox[c][1] \in InMessage(emitted)
      BY <2>8 DEF Fit, Judged, InMessage
    <3> QED BY <2>3, <3>1 DEF MessageInv
  <2> QED BY <1>1, <2>1, <2>4, <2>5, <2>6, <2>7, <2>8, <2>9, <2>10 DEF MessageInv
<1>3. CASE Look(w)
  BY <1>p, <1>k, <1>3, KindOf DEF Look
<1>4. CASE EventCount(w)
  BY <1>p, <1>k, <1>4 DEF EventCount, MessageInv
<1>5. CASE Handle(w)
  BY <1>k, <1>5 DEF Handle
<1>6. CASE Clear(w)
  BY <1>k, <1>6 DEF Clear
<1>7. CASE Dispatch(w)
  <2>1. /\ pc[w] = "event" /\ pc' = [pc EXCEPT ![w] = "done"] /\ UNCHANGED <<msg, inbox>>
        /\ IF msg[w].kind = "Event" THEN jobs' = Append(jobs, msg[w].req) /\ UNCHANGED dropped
           ELSE dropped' = dropped \union {msg[w].req} /\ UNCHANGED jobs
    BY <1>7 DEF Dispatch
  <2>2. Fit(verdict, emitted, msg[w])
    BY <1>p, <2>1
  <2>3. CASE msg[w].kind = "Event"
    <3>1. msg[w].req \in 1 .. MaxEvent
      BY <1>p, <2>2, <2>3, KindOf, NoRequest DEF EventMessage
    <3>2. jobs' \in Seq(1 .. MaxEvent) /\ UNCHANGED dropped
      <4>1. jobs \in Seq(1 .. MaxEvent)
        BY DEF MessageInv
      <4>2. Append(jobs, msg[w].req) \in Seq(1 .. MaxEvent)
        BY <3>1, <4>1, AppendOf
      <4> QED BY <2>1, <2>3, <4>2
    <3> QED BY <1>1, <1>p, <2>1, <3>2 DEF MessageInv
  <2>4. CASE msg[w].kind # "Event"
    <3>1. msg[w].req \in Request
      BY <2>2, <2>4 DEF Fit, Judged, AnswerMessage, EventMessage
    <3> QED BY <1>1, <1>p, <2>1, <2>4, <3>1 DEF MessageInv
  <2> QED BY <2>3, <2>4
<1>8. CASE Rearm(w)
  <2>1. /\ pc[w] = "done" /\ pc' = [pc EXCEPT ![w] = "idle"] /\ UNCHANGED <<jobs, inbox, dropped>>
        /\ msg' = [msg EXCEPT ![w] = NULL]
    BY <1>8 DEF Rearm
  <2> QED BY <1>1, <1>p, <2>1 DEF MessageInv
<1> QED BY <1>2, <1>3, <1>4, <1>5, <1>6, <1>7, <1>8 DEF ami_event
----------------------------------------------------------------------------
(* Types and faults                                                         *)

AnswerInv == SocketInv /\ CallerInv /\ RequestInv /\ PRespInv /\ MessageInv

LEMMA InitAnswer == Init => AnswerInv
BY InitSocket, InitCaller, InitRequest, InitPResp, InitMessage DEF AnswerInv

(* Every step keeps the five parts together: the messages tell what is      *)
(* written into the response objects.                                       *)
LEMMA NextAnswer ==
  ASSUME AnswerInv, [Next]_vars
  PROVE  AnswerInv'
<1>1. SocketInv /\ CallerInv /\ RequestInv /\ PRespInv /\ MessageInv
  BY DEF AnswerInv
<1>2. SocketInv' /\ CallerInv'
  BY <1>1, SocketStep, NextCaller
<1>3. CASE Asterisk \/ amiLogin \/ closesocket \/ UNCHANGED vars
  <2>1. UNCHANGED <<made, req, told, resp, pc, this, pResp, sleeping, late>>
    BY <1>3 DEF Asterisk, amiLogin, closesocket, vars, threadVars, pastVars, manageVars
  <2>2. \A v \in Worker : Caller(v)' <=> Caller(v)
    BY <2>1 DEF Caller
  <2>3. \A v \in Worker : pc[v] \in {"count", "handle"} => pResp[this[v]] # NULL
    BY <1>1 DEF PRespInv
  <2>4. RequestInv'
    BY <1>1, <2>1, <2>2, KeepRequest
  <2>5. PRespInv'
    BY <1>1, <2>1, <2>3, KeepPResp
  <2>6. MessageInv'
    BY <1>1, <1>3, AsteriskMessage, MainMessage
  <2> QED BY <1>2, <2>4, <2>5, <2>6 DEF AnswerInv
<1>4. ASSUME NEW w \in Worker, ami_sync(w) PROVE AnswerInv'
  BY <1>1, <1>2, <1>4, SyncRequest, SyncPResp, SyncMessage DEF AnswerInv
<1>5. ASSUME NEW w \in Worker, ami_event(w) PROVE AnswerInv'
  BY <1>1, <1>2, <1>5, EventRequest, EventPResp, HandlerMessage DEF AnswerInv
<1> QED BY <1>3, <1>4, <1>5 DEF Next

(* What the invariant leaves open: counters, closed connections, faults.    *)
FaultInv ==
  /\ hup \subseteq Conn /\ resp_waitcount \in [Conn -> Int]
  /\ fault \in {"none", "response", "caller", "event"}
  /\ FaultHasCause

LEMMA InitFault == Init => FaultInv
BY DEF Init, FaultInv, FaultHasCause

(* A counter moves by one, or by what another thread's count left.          *)
LEMMA CountType ==
  ASSUME NEW c \in Conn, NEW w, NEW d \in Int, resp_waitcount \in [Conn -> Int], Count(c, w, d)
  PROVE  resp_waitcount' \in [Conn -> Int]
BY DEF Count

(* A caller that finds freed memory lost its connection.                    *)
LEMMA SyncFault ==
  ASSUME NEW w \in Worker, AnswerInv, FaultInv, ami_sync(w), fault = "none"
  PROVE  FaultInv'
<1> USE DEF Goto, Break
<1>p. /\ this \in [Worker -> Conn \union {NULL}] /\ ami_socket \in Conn \union {NULL}
      /\ Caller(w) => Lost # {} \/ (ami_socket \in Conn /\ object[ami_socket] = "client")
      /\ Caller(w) /\ pc[w] # "manage" => this[w] \in Conn
      /\ pc[w] \in {"lock", "send", "wait"} => buf[w] \in Conn
  BY DEF AnswerInv, SocketInv, Place, CallerPlaces, Client
<1>1. UNCHANGED <<object, hup>> /\ Lost' = Lost
  BY DEF ami_sync, socketVars, Lost
<1>2. \A c \in Conn : object[c] = "deleted" => Lost # {}
  BY DEF Lost
<1>3. Caller(w) /\ Gone(ami_socket) => Lost # {}
  BY <1>p, <1>2, NullApart DEF Gone
<1>4. fault' # fault => fault' = "caller" /\ Lost # {}
  <2>1. CASE Start(w) BY <1>p, <1>2, <2>1 DEF Start, Gone
  <2>2. CASE Manage(w) BY <1>p, <1>3, <2>2 DEF Manage, Caller
  <2>3. CASE Sync(w) BY <1>3, <2>3 DEF Sync, Caller
  <2>4. CASE Buffer(w) BY <1>3, <2>4 DEF Buffer, Caller
  <2>5. CASE Lock(w) BY <1>p, <1>2, NullApart, <2>5 DEF Lock, Caller, Gone
  <2>6. CASE Send(w)
    <3>1. pc[w] = "send" /\ (fault' # fault => fault' = "caller" /\ (Gone(this[w]) \/ Gone(buf[w]) \/ Gone(ami_socket)))
      BY <2>6 DEF Send
    <3> QED BY <1>p, <1>2, <1>3, NullApart, <3>1 DEF Caller, Gone
  <2>7. CASE Expire(w) BY <2>7 DEF Expire
  <2>8. CASE Return(w) BY <1>p, <1>2, NullApart, <2>8 DEF Return, Caller, Gone
  <2>9. CASE Continue(w) BY <2>9 DEF Continue
  <2>10. CASE Finish(w) BY <2>10 DEF Finish
  <2>11. CASE Reply(w) BY <2>11 DEF Reply
  <2> QED BY <2>1, <2>2, <2>3, <2>4, <2>5, <2>6, <2>7, <2>8, <2>9, <2>10, <2>11 DEF ami_sync
<1>5. resp_waitcount' \in [Conn -> Int]
  <2>0. resp_waitcount \in [Conn -> Int] /\ 1 \in Int /\ -1 \in Int
    BY DEF FaultInv
  <2>1. CASE UNCHANGED resp_waitcount BY <2>0, <2>1
  <2>2. CASE Lock(w) BY <1>p, <2>0, <2>1, <2>2, CountType DEF Lock, Caller
  <2>3. CASE Return(w) BY <1>p, <2>0, <2>1, <2>3, CountType DEF Return, Caller
  <2> QED BY <2>1, <2>2, <2>3 DEF ami_sync, Start, Manage, Sync, Buffer, Send, Expire, Continue,
          Finish, Reply, manageVars
<1> QED BY <1>1, <1>4, <1>5 DEF FaultInv, FaultHasCause

(* ami_event's connection is there, and the response object it writes into  *)
(* belongs to a sleeping caller unless some wait ended without a signal.    *)
LEMMA HandlerFault ==
  ASSUME NEW w \in Worker, AnswerInv, FaultInv, ami_event(w), fault = "none"
  PROVE  FaultInv'
<1> USE DEF Goto, Break
<1>p. Handler(w) => this[w] \in Conn /\ ~Gone(this[w])
  BY NullApart DEF AnswerInv, SocketInv, OneShot, Client, Gone
<1>1. UNCHANGED <<late, hup>>
  BY DEF ami_event
<1>2. fault' # fault => fault' = "response" /\ late # {}
  <2>1. CASE Read(w) BY <2>1 DEF Read
  <2>2. CASE Look(w) BY <1>p, <2>2 DEF Look, Handler
  <2>3. CASE EventCount(w) BY <1>p, <2>3 DEF EventCount, Handler
  <2>4. CASE Handle(w)
    <3> SUFFICES ASSUME fault' # fault PROVE fault' = "response" /\ late # {}
      OBVIOUS
    <3>1. pc[w] = "handle" /\ this[w] \in Conn /\ ~Gone(this[w])
      BY <1>p, <2>4 DEF Handle, Handler
    <3>2. fault' = "response" /\ resp[pResp[this[w]]].freed
      BY <2>4, <3>1 DEF Handle
    <3>3. pResp[this[w]] # NULL
      BY <3>1 DEF AnswerInv, PRespInv
    <3>4. ASSUME late = {} PROVE FALSE
      <4> PICK v \in sleeping : req[v] = pResp[this[w]]
        BY <3>1, <3>3, <3>4 DEF AnswerInv, PRespInv
      <4>1. v \in Worker /\ req[v] # NULL
        BY <3>3 DEF AnswerInv, CallerInv, Waiting
      <4> QED BY <3>2, <4>1 DEF AnswerInv, RequestInv
    <3> QED BY <3>2, <3>4
  <2>5. CASE Clear(w) BY <1>p, <2>5 DEF Clear, Handler
  <2>6. CASE Dispatch(w) BY <2>6 DEF Dispatch
  <2>7. CASE Rearm(w) BY <2>7 DEF Rearm
  <2> QED BY <2>1, <2>2, <2>3, <2>4, <2>5, <2>6, <2>7 DEF ami_event
<1>3. resp_waitcount' \in [Conn -> Int]
  <2>0. resp_waitcount \in [Conn -> Int] /\ 1 \in Int /\ -1 \in Int
    BY DEF FaultInv
  <2>1. CASE UNCHANGED resp_waitcount BY <2>0, <2>1
  <2>2. CASE EventCount(w) BY <1>p, <2>0, <2>1, <2>2, CountType DEF EventCount, Handler
  <2>3. CASE Handle(w) BY <1>p, <2>0, <2>1, <2>3, CountType DEF Handle, Handler
  <2> QED BY <2>1, <2>2, <2>3 DEF ami_event, Read, Look, Clear, Dispatch, Rearm
<1> QED BY <1>1, <1>2, <1>3 DEF FaultInv, FaultHasCause

LEMMA NextFault ==
  ASSUME AnswerInv, FaultInv, [Next]_vars
  PROVE  FaultInv'
<1>1. CASE UNCHANGED vars
  BY <1>1 DEF vars, netVars, manageVars, socketVars, pastVars, FaultInv, FaultHasCause, Lost
<1>2. CASE Asterisk \/ amiLogin \/ closesocket
  <2>1. UNCHANGED <<fault, resp_waitcount>>
    BY <1>2 DEF Asterisk, amiLogin, closesocket, manageVars
  <2>2. hup' \subseteq Conn
    BY <1>2 DEF Asterisk, Answer, Emit, HangUp, amiLogin, closesocket, netVars, FaultInv
  <2>3. CASE fault = "none"
    BY <2>1, <2>2, <2>3 DEF FaultInv, FaultHasCause
  <2>4. CASE fault # "none"
    BY <1>1, <2>4 DEF Next
  <2> QED BY <2>3, <2>4
<1>3. ASSUME NEW w \in Worker, ami_sync(w), fault = "none" PROVE FaultInv'
  BY <1>3, SyncFault
<1>4. ASSUME NEW w \in Worker, ami_event(w), fault = "none" PROVE FaultInv'
  BY <1>4, HandlerFault
<1> QED BY <1>1, <1>2, <1>3, <1>4 DEF Next

(* ami_event writes into a freed response object only after some wait ended *)
(* without a signal, by its time limit or spuriously (amiproc.cpp:136,      *)
(* 250-253), a caller meets freed memory only after a connection or a login *)
(* was lost, and ami_event, whose event is one-shot, never does: for any    *)
(* number of workers, connections and requests.                             *)
THEOREM FaultCaused == Spec => []FaultHasCause
<1>1. FaultInv => FaultHasCause
  BY DEF FaultInv
<1> QED BY <1>1, InitAnswer, NextAnswer, InitFault, NextFault, PTL DEF Spec

(* Every variable of the connection keeps its type, the queues of messages  *)
(* and the response objects (amiproc.h) included.                           *)
THEOREM AmiTypeCorrect == Spec => []TypeOK
<1>1. AnswerInv /\ FaultInv => TypeOK
  <2> SUFFICES ASSUME AnswerInv, FaultInv PROVE TypeOK
    OBVIOUS
  <2> USE DEF AnswerInv, FaultInv
  <2>1. /\ ami_socket \in Conn \union {NULL} /\ armed \subseteq Conn /\ hup \subseteq Conn
        /\ object \in [Conn -> {"none", "new", "user1", "client", "closing", "deleted"}]
        /\ this \in [Worker -> Conn \union {NULL}] /\ buf \in [Worker -> Conn \union {NULL}]
        /\ loginPc \in {"idle", "new", "connect", "talk", "add", "delete", "reset"}
    BY DEF SocketInv, Place, Condition
  <2>2. /\ pc \in [Worker -> {"idle", "manage", "sync", "buffer", "lock", "send", "wait", "answered",
                              "reply", "look", "count", "handle", "clear", "event", "done"}]
        /\ mutexAMI \in [Conn -> Worker \union {NULL}] /\ sleeping \subseteq Worker
    BY DEF CallerInv, PlaceOK, Waiting, Label
  <2>3. /\ resp \in [Request -> [mode : {"none", "request", "response"},
                                 result : {"ok", "fail", "past", "timeout", "unconnected"},
                                 text : Request \union {NULL}, freed : BOOLEAN]]
        /\ made \in 0 .. MaxReq /\ req \in [Worker -> Request \union {NULL}]
    BY DEF RequestInv, Response, Result
  <2>4. ActionMessage \subseteq Message /\ InMessage(emitted) \subseteq Message
    BY DEF ActionMessage, InMessage, AnswerMessage, EventMessage, Message, Request
  <2>5. msg \in [Worker -> Message \union {NULL}]
    BY <2>4 DEF MessageInv
  <2>6. sent \in [Conn -> Seq(Message)]
    <3>1. \A c \in Conn : sent[c] \in Seq(Message)
      <4> SUFFICES ASSUME NEW c \in Conn PROVE sent[c] \in Seq(Message)
        OBVIOUS
      <4>1. sent[c] \in Seq(ActionMessage)
        BY DEF MessageInv
      <4> QED BY <2>4, <4>1, SeqMonotonic
    <3> QED BY <3>1 DEF MessageInv
  <2>7. inbox \in [Conn -> Seq(Message)]
    <3>1. \A c \in Conn : inbox[c] \in Seq(Message)
      <4> SUFFICES ASSUME NEW c \in Conn PROVE inbox[c] \in Seq(Message)
        OBVIOUS
      <4>1. inbox[c] \in Seq(InMessage(emitted))
        BY DEF MessageInv
      <4> QED BY <2>4, <4>1, SeqMonotonic
    <3> QED BY <3>1 DEF MessageInv
  <2>8. /\ verdict \in [Request -> {"ok", "fail", NULL}] /\ actionid \in [Conn -> Nat]
        /\ emitted \in 0 .. MaxEvent /\ jobs \in Seq(1 .. MaxEvent) /\ dropped \subseteq Request
    BY DEF MessageInv
  <2>9. /\ pResp \in [Conn -> Request \union {NULL}] /\ late \subseteq Request
    BY DEF PRespInv
  <2>10. resp_waitcount \in [Conn -> Int] /\ fault \in {"none", "response", "caller", "event"}
    OBVIOUS
  <2> QED BY <2>1, <2>2, <2>3, <2>5, <2>6, <2>7, <2>8, <2>9, <2>10 DEF TypeOK
<1> QED BY <1>1, InitAnswer, NextAnswer, InitFault, NextFault, PTL DEF Spec
----------------------------------------------------------------------------
(* Events keep their order                                                  *)

LEMMA QueueTail ==
  ASSUME NEW S, NEW q \in Seq(S), q # <<>>
  PROVE  /\ Ordered(q) => Ordered(Tail(q))
         /\ Quiet(q) => Quiet(Tail(q))
         /\ \A n : After(q, n) => After(Tail(q), n)
         /\ Ordered(q) /\ Head(q).kind = "Event" => After(Tail(q), Head(q).req)
         /\ \A n : After(q, n) /\ Head(q).kind = "Event" => n < Head(q).req
<1>1. /\ Head(q) = q[1] /\ 1 \in DOMAIN q
      /\ \A i \in DOMAIN Tail(q) : i \in Nat /\ 1 < i + 1 /\ i + 1 \in DOMAIN q /\ Tail(q)[i] = q[i + 1]
  BY TailOf
<1>2. \A i, k \in DOMAIN Tail(q) : i < k => i + 1 < k + 1
  BY <1>1
<1>3. Ordered(q) => Ordered(Tail(q))
  BY <1>1, <1>2 DEF Ordered
<1>4. \A n : After(q, n) => After(Tail(q), n)
  BY <1>1 DEF After
<1>5. Ordered(q) /\ Head(q).kind = "Event" => After(Tail(q), Head(q).req)
  BY <1>1 DEF After, Ordered
<1>6. \A n : After(q, n) /\ Head(q).kind = "Event" => n < Head(q).req
  BY <1>1 DEF After
<1>7. Quiet(q) => Quiet(Tail(q))
  BY <1>1 DEF Quiet
<1> QED BY <1>3, <1>4, <1>5, <1>6, <1>7

LEMMA QueueAppend ==
  ASSUME NEW S, NEW q \in Seq(S), NEW x \in S
  PROVE  /\ Quiet(q) /\ x.kind # "Event" => Quiet(Append(q, x))
         /\ \A n : After(q, n) /\ (x.kind = "Event" => n < x.req) => After(Append(q, x), n)
         /\ Ordered(q) /\ (x.kind = "Event" => \A i \in DOMAIN q : q[i].kind = "Event" => q[i].req < x.req)
              => Ordered(Append(q, x))
<1>1. /\ DOMAIN q = 1 .. Len(q) /\ DOMAIN Append(q, x) = 1 .. Len(q) + 1 /\ Len(q) \in Nat
      /\ \A i \in DOMAIN q : Append(q, x)[i] = q[i]
      /\ Append(q, x)[Len(q) + 1] = x
  BY AppendOf
<1>2. \A i \in DOMAIN Append(q, x) : i \in DOMAIN q \/ i = Len(q) + 1
  BY <1>1
<1>3. \A i, k \in DOMAIN Append(q, x) : i < k => i \in DOMAIN q
  BY <1>1
<1>4. \A n : After(q, n) /\ (x.kind = "Event" => n < x.req) => After(Append(q, x), n)
  BY <1>1, <1>2 DEF After
<1>5. Ordered(q) /\ (x.kind = "Event" => \A i \in DOMAIN q : q[i].kind = "Event" => q[i].req < x.req)
        => Ordered(Append(q, x))
  BY <1>1, <1>2, <1>3 DEF Ordered
<1>6. Quiet(q) /\ x.kind # "Event" => Quiet(Append(q, x))
  BY <1>1, <1>2 DEF Quiet
<1> QED BY <1>4, <1>5, <1>6

LEMMA InitOrder == Init => OrderInv
BY EmptySeq DEF Init, OrderInv, Carries, Handler, Quiet

(* A step that leaves queues and jobs alone.                                *)
LEMMA KeepOrder ==
  ASSUME OrderInv, UNCHANGED <<jobs, inbox, emitted>>,
         \A v \in Worker : Carries(v)' => Carries(v) /\ msg'[v] = msg[v] /\ this'[v] = this[v],
         \A c \in Conn : object[c] \in {"client", "closing", "deleted"} =>
                           object'[c] \in {"client", "closing", "deleted"},
         \A c \in Conn : object'[c] = "client" /\ object[c] # "client" =>
                           object[c] \notin {"client", "closing", "deleted"}
  PROVE  OrderInv'
<1>1. \A q : Quiet(q) => Ordered(q) /\ \A n : After(q, n)
  BY DEF Quiet, Ordered, After
<1>2. \A c \in Conn : object'[c] = "client" => Ordered(inbox[c]) /\ \A i \in DOMAIN jobs : After(inbox[c], jobs[i])
  BY <1>1 DEF OrderInv
<1>3. \A v \in Worker : Carries(v)' => /\ \A i \in DOMAIN jobs : jobs[i] < msg'[v].req
                                       /\ After(inbox[this'[v]], msg'[v].req)
  BY DEF OrderInv
<1>4. \A c \in Conn : object'[c] \notin {"client", "closing", "deleted"} => Quiet(inbox[c])
  BY DEF OrderInv
<1> QED BY <1>2, <1>3, <1>4 DEF OrderInv

(* What is in a queue or with a handler was emitted.                        *)
LEMMA Numbered ==
  ASSUME AnswerInv
  PROVE  /\ \A c \in Conn : \A i \in DOMAIN inbox[c] :
              inbox[c][i].kind = "Event" => inbox[c][i].req \in 1 .. emitted
         /\ \A w \in Worker : Carries(w) => msg[w].req \in 1 .. emitted /\ this[w] \in Conn
         /\ \A i \in DOMAIN jobs : jobs[i] \in Nat
         /\ emitted \in Nat
<1>1. \A c \in Conn : \A i \in DOMAIN inbox[c] : Fit(verdict, emitted, inbox[c][i])
  BY DEF AnswerInv, MessageInv
<1>2. \A w \in Worker : Handler(w) => Fit(verdict, emitted, msg[w]) /\ this[w] \in Conn
  BY DEF AnswerInv, MessageInv, SocketInv, OneShot, Client
<1>3. \A x : Fit(verdict, emitted, x) /\ x.kind = "Event" => x.req \in 1 .. emitted
  BY DEF Fit, Judged, AnswerMessage, EventMessage
<1>4. emitted \in Nat /\ jobs \in Seq(1 .. MaxEvent)
  BY NoRequest DEF AnswerInv, MessageInv
<1>5. \A i \in DOMAIN jobs : jobs[i] \in Nat
  BY <1>4, LenProperties, NoRequest
<1> QED BY <1>1, <1>2, <1>3, <1>4, <1>5 DEF Carries

(* A message that arrives is an answer, or younger than all events.         *)
LEMMA ArriveOrder ==
  ASSUME AnswerInv, OrderInv, NEW c \in Conn, NEW S, NEW x \in S, inbox[c] \in Seq(S),
         inbox' = [inbox EXCEPT ![c] = Append(@, x)],
         UNCHANGED <<pc, msg, this, jobs, object>>,
         \/ x.kind # "Event" /\ UNCHANGED emitted
         \/ object[c] = "client" /\ emitted' = emitted + 1 /\ x.req = emitted + 1
  PROVE  OrderInv'
<1>n. /\ \A d \in Conn : \A i \in DOMAIN inbox[d] :
              inbox[d][i].kind = "Event" => inbox[d][i].req \in 1 .. emitted
      /\ \A w \in Worker : Carries(w) => msg[w].req \in 1 .. emitted /\ this[w] \in Conn
      /\ \A i \in DOMAIN jobs : jobs[i] \in Nat
      /\ emitted \in Nat /\ DOMAIN inbox = Conn
  BY Numbered DEF AnswerInv, MessageInv
<1>1. \A d \in Conn : inbox'[d] = (IF d = c THEN Append(inbox[c], x) ELSE inbox[d])
  BY <1>n
<1>2. \A i \in DOMAIN jobs : jobs[i] <= emitted' /\ (x.kind = "Event" => jobs[i] < x.req)
  BY <1>n DEF OrderInv
<1>3. \A w \in Worker : Carries(w) => (x.kind = "Event" => msg[w].req < x.req)
  BY <1>n
<1>4. /\ Quiet(inbox[c]) /\ x.kind # "Event" => Quiet(Append(inbox[c], x))
      /\ \A n : After(inbox[c], n) /\ (x.kind = "Event" => n < x.req) => After(Append(inbox[c], x), n)
      /\ Ordered(inbox[c]) /\ (x.kind = "Event" => \A i \in DOMAIN inbox[c] :
            inbox[c][i].kind = "Event" => inbox[c][i].req < x.req) => Ordered(Append(inbox[c], x))
  BY QueueAppend
<1>5. \A w \in Worker : Carries(w) => After(inbox'[this[w]], msg[w].req)
  BY <1>n, <1>1, <1>3, <1>4 DEF OrderInv
<1>6. \A d \in Conn : object[d] \notin {"client", "closing", "deleted"} => Quiet(inbox'[d])
  BY <1>1, <1>4 DEF OrderInv
<1>7. x.kind = "Event" => \A i \in DOMAIN inbox[c] : inbox[c][i].kind = "Event" => inbox[c][i].req < x.req
  BY <1>n
<1>8. \A d \in Conn : object[d] = "client" => /\ Ordered(inbox'[d])
                                              /\ \A i \in DOMAIN jobs : After(inbox'[d], jobs[i])
  BY <1>1, <1>2, <1>4, <1>7 DEF OrderInv
<1>9. \A w \in Worker : Carries(w)' <=> Carries(w)
  BY DEF Carries, Handler
<1> QED BY <1>2, <1>5, <1>6, <1>8, <1>9 DEF OrderInv

LEMMA OutsideOrder ==
  ASSUME AnswerInv, OrderInv, Asterisk \/ amiLogin \/ closesocket \/ UNCHANGED vars
  PROVE  OrderInv'
<1>1. UNCHANGED <<pc, msg, this, jobs>>
  BY DEF Asterisk, amiLogin, closesocket, vars, threadVars
<1>2. \A w \in Worker : Carries(w)' <=> Carries(w)
  BY <1>1 DEF Carries, Handler
<1>k. ASSUME UNCHANGED <<inbox, emitted, object>> PROVE OrderInv'
  BY <1>1, <1>2, <1>k, KeepOrder
<1>m. AnswerInv => /\ \A c \in Conn : inbox[c] \in Seq(InMessage(emitted)) /\ sent[c] \in Seq(ActionMessage)
                   /\ emitted \in Nat
  BY NoRequest DEF AnswerInv, MessageInv
<1>3. ASSUME NEW c \in Conn, Answer(c), Asterisk PROVE OrderInv'
  <2> DEFINE a == Head(sent[c])
             x == [a EXCEPT !.kind = "Response"]
  <2>1. a \in ActionMessage
    BY <1>3, <1>m, TailOf DEF Answer
  <2>2. x \in AnswerMessage
    BY <2>1 DEF ActionMessage, AnswerMessage
  <2>3. x \in InMessage(emitted) /\ x.kind # "Event"
    BY <2>2 DEF InMessage, AnswerMessage
  <2>4. inbox' = [inbox EXCEPT ![c] = Append(@, x)] /\ UNCHANGED <<emitted, object>>
    BY <1>3 DEF Answer, Asterisk, socketVars
  <2> HIDE DEF a, x
  <2> QED BY <1>1, <1>m, <2>3, <2>4, ArriveOrder
<1>4. ASSUME NEW c \in Conn, Emit(c), Asterisk PROVE OrderInv'
  <2> DEFINE x == [kind |-> "Event", id |-> 0, req |-> emitted']
  <2>1. /\ inbox' = [inbox EXCEPT ![c] = Append(@, x)] /\ object[c] = "client"
        /\ emitted' = emitted + 1 /\ UNCHANGED object
    BY <1>4 DEF Emit, Asterisk, socketVars
  <2>2. x.req = emitted + 1
    BY <2>1
  <2>3. x \in InMessage(emitted + 1)
    BY <1>m, <2>1 DEF InMessage, EventMessage
  <2>4. inbox[c] \in Seq(InMessage(emitted + 1))
    <3>1. InMessage(emitted) \subseteq InMessage(emitted + 1)
      BY <1>m DEF InMessage, EventMessage
    <3>2. inbox[c] \in Seq(InMessage(emitted))
      BY <1>m
    <3> QED BY <3>1, <3>2, SeqMonotonic
  <2> HIDE DEF x
  <2> QED BY <1>1, <2>1, <2>2, <2>3, <2>4, ArriveOrder
<1>5. ASSUME NEW c \in Conn, HangUp(c), Asterisk PROVE OrderInv'
  BY <1>5, <1>k DEF HangUp, Asterisk, socketVars
<1>6. CASE UNCHANGED vars
  BY <1>6, <1>k DEF vars, netVars, socketVars
<1>7. CASE amiLogin \/ closesocket
  <2>1. UNCHANGED <<inbox, emitted>>
    BY <1>7 DEF amiLogin, closesocket, netVars
  <2>2. /\ \A c \in Conn : object[c] \in {"client", "closing", "deleted"} =>
                           object'[c] \in {"client", "closing", "deleted"}
        /\ \A c \in Conn : object'[c] = "client" /\ object[c] # "client" =>
                           object[c] \notin {"client", "closing", "deleted"}
    <3> USE DEF AnswerInv, SocketInv, LoginOK, Condition
    <3>1. CASE LoginCheck BY <3>1 DEF LoginCheck, socketVars
    <3>2. CASE LoginNew BY <3>2 DEF LoginNew
    <3>3. CASE LoginConnect BY <3>3 DEF LoginConnect
    <3>4. CASE LoginTalk BY <3>4 DEF LoginTalk
    <3>5. CASE LoginAdd BY <3>5 DEF LoginAdd
    <3>6. CASE LoginDelete BY <3>6 DEF LoginDelete
    <3>7. CASE LoginReset BY <3>7 DEF LoginReset
    <3>8. CASE closesocket BY <3>8 DEF closesocket, dtmf2_disconnected, Delete
    <3> QED BY <1>7, <3>1, <3>2, <3>3, <3>4, <3>5, <3>6, <3>7, <3>8 DEF amiLogin
  <2> QED BY <1>1, <1>2, <2>1, <2>2, KeepOrder
<1> QED BY <1>3, <1>4, <1>5, <1>6, <1>7 DEF Asterisk
(* A caller's step touches neither queues nor handlers.                     *)
LEMMA SyncOrder ==
  ASSUME NEW w \in Worker, AnswerInv, OrderInv, ami_sync(w)
  PROVE  OrderInv'
<1>1. UNCHANGED <<inbox, emitted, jobs, object, msg>>
  BY DEF ami_sync, socketVars
<1>2. \A v \in Worker : Carries(v)' => Carries(v) /\ this'[v] = this[v]
  <2>1. pc \in [Worker -> Label] /\ this \in [Worker -> Place]
    BY DEF AnswerInv, SocketInv
  <2> USE <1>1, <2>1 DEF Carries, Handler, Goto
  <2>2. CASE Start(w) BY <2>2 DEF Start
  <2>3. CASE Manage(w) BY <2>3 DEF Manage
  <2>4. CASE Sync(w) BY <2>4 DEF Sync
  <2>5. CASE Buffer(w) BY <2>5 DEF Buffer
  <2>6. CASE Lock(w) BY <2>6 DEF Lock
  <2>7. CASE Send(w) BY <2>7 DEF Send
  <2>8. CASE Expire(w) BY <2>8 DEF Expire
  <2>9. CASE Return(w) BY <2>9 DEF Return
  <2>10. CASE Continue(w) BY <2>10 DEF Continue
  <2>11. CASE Finish(w) BY <2>11 DEF Finish
  <2>12. CASE Reply(w) BY <2>12 DEF Reply
  <2> QED BY <2>2, <2>3, <2>4, <2>5, <2>6, <2>7, <2>8, <2>9, <2>10, <2>11, <2>12 DEF ami_sync
<1> QED BY <1>1, <1>2, KeepOrder

(* Read takes the oldest message of the connection, and until it is re-armed *)
(* no other worker takes the next; Dispatch hands over what was read.        *)
LEMMA HandlerOrder ==
  ASSUME NEW w \in Worker, AnswerInv, OrderInv, ami_event(w)
  PROVE  OrderInv'
<1>p. /\ pc \in [Worker -> Label] /\ this \in [Worker -> Place]
      /\ \A u, v \in Worker : Handler(u) /\ Handler(v) => u = v
      /\ \A v \in Worker : Handler(v) => Client(this[v])
      /\ \A c \in armed : Client(c) /\ \A v \in Worker : Handler(v) => this[v] # c
      /\ \A c \in Conn : object[c] = "client" => c = ami_socket
      /\ inbox \in [Conn -> Seq(InMessage(emitted))] /\ DOMAIN msg = Worker
      /\ jobs \in Seq(1 .. MaxEvent)
  BY DEF AnswerInv, SocketInv, OneShot, MessageInv, Client
<1>1. UNCHANGED <<object, emitted>>
  BY DEF ami_event
<1>k. ASSUME UNCHANGED <<jobs, inbox, msg>>,
             \A v \in Worker : Carries(v)' => Carries(v) /\ this'[v] = this[v]
      PROVE  OrderInv'
  BY <1>1, <1>k, KeepOrder
<1> USE DEF Goto
<1>2. CASE Read(w)
  <2> PICK c \in armed \ hup :
        /\ inbox[c] # <<>>
        /\ armed' = armed \ {c}
        /\ this' = [this EXCEPT ![w] = c]
        /\ msg' = [msg EXCEPT ![w] = Head(inbox[c])]
        /\ inbox' = [inbox EXCEPT ![c] = Tail(@)]
    BY <1>2 DEF Read
  <2>1. pc[w] = "idle" /\ pc' = [pc EXCEPT ![w] = "look"] /\ UNCHANGED jobs
        /\ c \in Conn /\ object[c] = "client"
    BY <1>2, <1>p DEF Read, Client
  <2>2. \A v \in Worker : ~Handler(v)
    BY <1>p, <2>1 DEF Client
  <2>3. \A v \in Worker : Carries(v)' => v = w /\ msg'[v] = Head(inbox[c]) /\ this'[v] = c
                                         /\ Head(inbox[c]).kind = "Event"
    BY <1>p, <2>1, <2>2 DEF Carries, Handler
  <2>4. /\ Ordered(inbox[c]) => Ordered(Tail(inbox[c]))
        /\ \A n : After(inbox[c], n) => After(Tail(inbox[c]), n)
        /\ Ordered(inbox[c]) /\ Head(inbox[c]).kind = "Event" => After(Tail(inbox[c]), Head(inbox[c]).req)
        /\ \A n : After(inbox[c], n) /\ Head(inbox[c]).kind = "Event" => n < Head(inbox[c]).req
    <3>1. inbox[c] \in Seq(InMessage(emitted)) /\ inbox[c] # <<>>
      BY <1>p, <2>1
    <3> QED BY <3>1, QueueTail
  <2>5. \A d \in Conn : inbox'[d] = (IF d = c THEN Tail(inbox[c]) ELSE inbox[d])
    BY <1>p
  <2>6. Ordered(inbox[c]) /\ \A i \in DOMAIN jobs : After(inbox[c], jobs[i])
    BY <2>1 DEF OrderInv
  <2>7. \A v \in Worker : Carries(v)' => /\ \A i \in DOMAIN jobs : jobs[i] < msg'[v].req
                                         /\ After(inbox'[this'[v]], msg'[v].req)
    BY <2>1, <2>3, <2>4, <2>5, <2>6
  <2>8. \A d \in Conn : object[d] \notin {"client", "closing", "deleted"} => Quiet(inbox'[d])
    BY <2>1, <2>5 DEF OrderInv
  <2>9. \A d \in Conn : object[d] = "client" => /\ Ordered(inbox'[d])
                                                /\ \A i \in DOMAIN jobs : After(inbox'[d], jobs[i])
    BY <2>4, <2>5, <2>6 DEF OrderInv
  <2> QED BY <1>1, <2>1, <2>7, <2>8, <2>9 DEF OrderInv
<1>3. CASE Look(w) BY <1>p, <1>k, <1>3 DEF Look, Carries, Handler
<1>4. CASE EventCount(w) BY <1>p, <1>k, <1>4 DEF EventCount, Carries, Handler
<1>5. CASE Handle(w)
  <2>1. pc[w] = "handle" /\ (pc' = pc \/ pc' = [pc EXCEPT ![w] = "event"] \/ pc' = [pc EXCEPT ![w] = "done"])
        /\ UNCHANGED <<this, jobs, inbox, msg>>
    BY <1>5 DEF Handle
  <2> QED BY <1>p, <1>k, <2>1 DEF Carries, Handler
<1>6. CASE Clear(w) BY <1>p, <1>k, <1>6 DEF Clear, Carries, Handler
<1>7. CASE Dispatch(w)
  <2>1. pc[w] = "event" /\ pc' = [pc EXCEPT ![w] = "done"] /\ UNCHANGED <<this, inbox, msg>>
    BY <1>7 DEF Dispatch
  <2>2. Handler(w)
    BY <2>1 DEF Handler
  <2>3. \A v \in Worker : ~Carries(v)'
    BY <1>p, <2>1, <2>2 DEF Carries, Handler
  <2>4. CASE UNCHANGED jobs
    BY <1>k, <2>1, <2>3, <2>4
  <2>5. CASE ~UNCHANGED jobs
    <3> DEFINE n == msg[w].req
    <3>1. jobs' = Append(jobs, n) /\ Carries(w)
      BY <1>7, <2>1, <2>2, <2>5 DEF Dispatch, Carries
    <3>2. n \in 1 .. emitted /\ emitted \in Nat /\ n \in 1 .. MaxEvent /\ this[w] \in Conn
      BY <3>1, Numbered, NoRequest DEF AnswerInv, MessageInv
    <3>3. (\A i \in DOMAIN jobs : jobs[i] < n) /\ After(inbox[this[w]], n)
      BY <3>1 DEF OrderInv
    <3> HIDE DEF n
    <3>4. /\ DOMAIN jobs = 1 .. Len(jobs) /\ DOMAIN Append(jobs, n) = 1 .. Len(jobs) + 1 /\ Len(jobs) \in Nat
          /\ \A i \in DOMAIN jobs : Append(jobs, n)[i] = jobs[i]
          /\ Append(jobs, n)[Len(jobs) + 1] = n
      BY <1>p, <3>2, AppendOf
    <3>5. \A i \in DOMAIN jobs' : \/ i \in DOMAIN jobs /\ jobs'[i] = jobs[i]
                                  \/ i = Len(jobs) + 1 /\ jobs'[i] = n
      BY <3>1, <3>4
    <3>6. \A i, k \in DOMAIN jobs' : i < k => i \in DOMAIN jobs
      BY <3>1, <3>4
    <3>7. \A i \in DOMAIN jobs' : jobs'[i] <= emitted
      BY <3>2, <3>5 DEF OrderInv
    <3>8. \A i, k \in DOMAIN jobs' : i < k => jobs'[i] < jobs'[k]
      <4>1. \A i \in DOMAIN jobs : jobs'[i] = jobs[i]
        BY <3>1, <3>4
      <4> QED BY <3>3, <3>5, <3>6, <4>1 DEF OrderInv
    <3>9. \A c \in Conn : object[c] = "client" => c = this[w]
      BY <1>p, <2>2, <3>2 DEF Client
    <3>10. \A c \in Conn : object[c] = "client" => \A i \in DOMAIN jobs' : After(inbox[c], jobs'[i])
      BY <3>3, <3>5, <3>9 DEF OrderInv
    <3>11. /\ \A c \in Conn : object[c] \notin {"client", "closing", "deleted"} => Quiet(inbox[c])
           /\ \A c \in Conn : object[c] = "client" => Ordered(inbox[c])
      BY DEF OrderInv
    <3> QED BY <1>1, <2>1, <2>3, <3>7, <3>8, <3>10, <3>11 DEF OrderInv
  <2> QED BY <2>4, <2>5
<1>8. CASE Rearm(w)
  <2>1. /\ pc[w] = "done" /\ pc' = [pc EXCEPT ![w] = "idle"] /\ UNCHANGED <<jobs, inbox>>
        /\ msg' = [msg EXCEPT ![w] = NULL] /\ this' = [this EXCEPT ![w] = NULL]
    BY <1>8 DEF Rearm
  <2>2. \A v \in Worker : Carries(v)' => Carries(v) /\ msg'[v] = msg[v] /\ this'[v] = this[v]
    BY <1>p, <2>1 DEF Carries, Handler
  <2> QED BY <1>1, <2>1, <2>2, KeepOrder
<1> QED BY <1>2, <1>3, <1>4, <1>5, <1>6, <1>7, <1>8 DEF ami_event

LEMMA NextOrder ==
  ASSUME AnswerInv, OrderInv, [Next]_vars
  PROVE  OrderInv'
BY OutsideOrder, SyncOrder, HandlerOrder DEF Next

(* Registered events become jobs in the order in which Asterisk emitted     *)
(* them, none twice, although each is read and handed over by whichever     *)
(* worker is free (amiproc.cpp:243-282, tst.cpp EPOLLONESHOT), across any   *)
(* number of reconnections.                                                 *)
THEOREM EventOrder == Spec => []EventsInOrder
<1>1. OrderInv => EventsInOrder
  BY DEF OrderInv, EventsInOrder
<1> QED BY <1>1, InitAnswer, NextAnswer, InitOrder, NextOrder, PTL DEF Spec
----------------------------------------------------------------------------
(* Answers are delivered                                                    *)

LEMMA ComingTail ==
  ASSUME NEW S, NEW q \in Seq(S), q # <<>>, NEW D, Coming(q, D)
  PROVE  /\ Coming(Tail(q), D)
         /\ NoAnswer(q) => NoAnswer(Tail(q))
         /\ Head(q).kind = "Response" => NoAnswer(Tail(q)) /\ <<Head(q).id, Head(q).req>> \in D
<1>1. /\ Head(q) = q[1] /\ 1 \in DOMAIN q
      /\ \A i \in DOMAIN Tail(q) : i \in Nat /\ i + 1 # 1 /\ i + 1 \in DOMAIN q /\ Tail(q)[i] = q[i + 1]
  BY TailOf
<1>2. \A i, k \in DOMAIN Tail(q) : i + 1 = k + 1 => i = k
  BY <1>1
<1>3. Coming(Tail(q), D)
  BY <1>1, <1>2 DEF Coming
<1>4. NoAnswer(q) => NoAnswer(Tail(q))
  BY <1>1 DEF NoAnswer
<1>5. Head(q).kind = "Response" => NoAnswer(Tail(q)) /\ <<Head(q).id, Head(q).req>> \in D
  BY <1>1 DEF NoAnswer, Coming
<1> QED BY <1>3, <1>4, <1>5

LEMMA ComingAppend ==
  ASSUME NEW S, NEW q \in Seq(S), NEW x \in S, NEW D, Coming(q, D)
  PROVE  /\ x.kind # "Response" => Coming(Append(q, x), D)
         /\ x.kind # "Response" /\ NoAnswer(q) => NoAnswer(Append(q, x))
         /\ NoAnswer(q) /\ <<x.id, x.req>> \in D => Coming(Append(q, x), D)
<1>1. /\ DOMAIN q = 1 .. Len(q) /\ DOMAIN Append(q, x) = 1 .. Len(q) + 1 /\ Len(q) \in Nat
      /\ \A i \in DOMAIN q : Append(q, x)[i] = q[i]
      /\ Append(q, x)[Len(q) + 1] = x
  BY AppendOf
<1>2. \A i \in DOMAIN Append(q, x) : i \in DOMAIN q \/ i = Len(q) + 1
  BY <1>1
<1>3. x.kind # "Response" => Coming(Append(q, x), D)
  BY <1>1, <1>2 DEF Coming
<1>4. x.kind # "Response" /\ NoAnswer(q) => NoAnswer(Append(q, x))
  BY <1>1, <1>2 DEF NoAnswer
<1>5. NoAnswer(q) /\ <<x.id, x.req>> \in D => Coming(Append(q, x), D)
  BY <1>1, <1>2 DEF Coming, NoAnswer
<1> QED BY <1>3, <1>4, <1>5

LEMMA SendingOf ==
  ASSUME NEW S, NEW D
  PROVE  /\ Sending(<<>>, D)
         /\ \A q \in Seq(S) : q # <<>> /\ Sending(q, D) =>
              Tail(q) = <<>> /\ <<Head(q).id, Head(q).req>> \in D
         /\ \A x \in S : <<x.id, x.req>> \in D => Sending(Append(<<>>, x), D)
<1>1. Sending(<<>>, D)
  BY EmptySeq DEF Sending
<1>2. ASSUME NEW q \in Seq(S), q # <<>>, Sending(q, D)
      PROVE  Tail(q) = <<>> /\ <<Head(q).id, Head(q).req>> \in D
  <2>1. /\ Head(q) = q[1] /\ 1 \in DOMAIN q /\ Tail(q) \in Seq(S)
        /\ Len(Tail(q)) = Len(q) - 1 /\ Len(q) \in Nat \ {0}
    BY <1>2, TailOf
  <2>2. Len(Tail(q)) = 0
    BY <1>2, <2>1 DEF Sending
  <2>3. Tail(q) = <<>>
    BY <2>1, <2>2, EmptySeq
  <2> QED BY <1>2, <2>1, <2>3 DEF Sending
<1>3. ASSUME NEW x \in S, <<x.id, x.req>> \in D PROVE Sending(Append(<<>>, x), D)
  <2>1. <<>> \in Seq(S) /\ Len(<<>>) = 0
    BY EmptySeq
  <2>2. Len(Append(<<>>, x)) = 1 /\ DOMAIN Append(<<>>, x) = 1 .. 1 /\ Append(<<>>, x)[1] = x
    BY <2>1, AppendOf
  <2> QED BY <1>3, <2>2 DEF Sending
<1> QED BY <1>1, <1>2, <1>3

LEMMA InitDeliver == Init => DeliverInv
<1> SUFFICES ASSUME Init PROVE DeliverInv
  OBVIOUS
<1>1. \A D : Sending(<<>>, D)
  BY SendingOf
<1>2. \A D : Coming(<<>>, D)
  BY EmptySeq DEF Coming
<1> QED BY <1>1, <1>2 DEF Init, DeliverInv, Answering

(* Nobody sleeps on the connection: it owes nothing.                        *)
LEMMA NothingDue ==
  ASSUME AnswerInv, DeliverInv, NEW c \in Conn, \A v \in sleeping : this[v] # c
  PROVE  /\ Due(c) = {} /\ sent[c] = <<>> /\ NoAnswer(inbox[c])
         /\ \A v \in Worker : Answering(v) => this[v] # c
         /\ \A v \in Worker : pc[v] = "handle" => this[v] # c
<1>1. Due(c) = {}
  BY DEF Due
<1>2. \A v \in Worker : Answering(v) => this[v] # c
  BY <1>1 DEF DeliverInv
<1>3. \A v \in Worker : pc[v] = "handle" => this[v] # c
  <2>1. \A v \in Worker : pc[v] = "handle" => msg[v].kind = "Response"
    BY DEF AnswerInv, MessageInv, Judged, AnswerMessage
  <2> QED BY <1>2, <2>1 DEF Answering
<1>4. NoAnswer(inbox[c])
  BY <1>1 DEF DeliverInv, Coming, NoAnswer
<1>5. sent[c] = <<>>
  <2>1. sent[c] \in Seq(ActionMessage)
    BY DEF AnswerInv, MessageInv
  <2>2. Sending(sent[c], {})
    BY <1>1 DEF DeliverInv
  <2>3. DOMAIN sent[c] = {}
    BY <2>2 DEF Sending
  <2>4. Len(sent[c]) = 0
    <3>1. Len(sent[c]) \in Nat /\ DOMAIN sent[c] = 1 .. Len(sent[c])
      BY <2>1, LenProperties
    <3>2. 1 \in 1 .. Len(sent[c]) \/ Len(sent[c]) = 0
      BY <3>1
    <3> QED BY <2>3, <3>1, <3>2
  <2> QED BY <2>1, <2>4, EmptySeq
<1> QED BY <1>1, <1>2, <1>3, <1>4, <1>5

(* Without another count on its way the counter moves by one.               *)
LEMMA ExactCount ==
  ASSUME NEW c \in Conn, NEW w, NEW d \in Int, resp_waitcount \in [Conn -> Int], ~Counted(c, w),
         Count(c, w, d)
  PROVE  resp_waitcount' = [resp_waitcount EXCEPT ![c] = resp_waitcount[c] + d]
BY DEF Count

(* What is due depends on the sleepers alone.                               *)
LEMMA KeepDue ==
  ASSUME AnswerInv, UNCHANGED <<pResp, sleeping>>,
         \A c \in Conn : actionid'[c] = actionid[c] \/ \A v \in sleeping : this[v] # c,
         \A v \in sleeping : this'[v] = this[v] /\ req'[v] = req[v]
                             /\ resp'[req[v]].mode = resp[req[v]].mode
  PROVE  \A c \in Conn : Due(c)' = Due(c)
<1> SUFFICES ASSUME NEW c \in Conn PROVE Due(c)' = Due(c)
  OBVIOUS
<1>1. CASE \E v \in sleeping : this[v] = c /\ req[v] = pResp[c]
  BY <1>1 DEF Due
<1>2. CASE ~ \E v \in sleeping : this[v] = c /\ req[v] = pResp[c]
  BY <1>2 DEF Due
<1> QED BY <1>1, <1>2

(* A step that moves no message and no lock.                                *)
LEMMA KeepDeliver ==
  ASSUME AnswerInv, DeliverInv, UNCHANGED <<sent, inbox, mutexAMI, resp_waitcount, dropped>>,
         \A c \in Conn : Due(c)' = Due(c),
         \A v \in Worker : Answering(v)' => Answering(v) /\ msg'[v] = msg[v] /\ this'[v] = this[v],
         \A v \in Worker : pc'[v] # "clear" /\ (pc'[v] = "event" => msg'[v].kind = "Event"),
         \A v \in Worker : pc[v] \in {"send", "wait"} =>
                             pc'[v] \in {"send", "wait"} /\ this'[v] = this[v],
         \A v \in Worker : pc'[v] = "handle" <=> pc[v] = "handle",
         \A v \in Worker : pc[v] = "handle" => this'[v] = this[v]
  PROVE  DeliverInv'
<1>1. \A c \in Conn : mutexAMI[c] # NULL => mutexAMI[c] \in Worker
  BY DEF AnswerInv, CallerInv, PlaceOK
<1>2. \A c \in Conn : /\ Sending(sent'[c], Due(c)') /\ Coming(inbox'[c], Due(c)')
                      /\ sent'[c] # <<>> => NoAnswer(inbox'[c])
  BY DEF DeliverInv
<1>3. \A w \in Worker : \A c \in Conn : Answering(w)' /\ this'[w] = c =>
        /\ <<msg'[w].id, msg'[w].req>> \in Due(c)'
        /\ sent'[c] = <<>> /\ NoAnswer(inbox'[c])
  BY DEF DeliverInv
<1>4. \A c \in Conn : mutexAMI'[c] # NULL =>
        pc'[mutexAMI'[c]] \in {"send", "wait"} /\ this'[mutexAMI'[c]] = c
  BY <1>1 DEF DeliverInv
<1>5. \A c \in Conn : (\E w \in Worker : pc'[w] = "handle" /\ this'[w] = c)
                      <=> (\E w \in Worker : pc[w] = "handle" /\ this[w] = c)
  OBVIOUS
<1> QED BY <1>2, <1>3, <1>4, <1>5 DEF DeliverInv

LEMMA AsteriskDeliver ==
  ASSUME AnswerInv, DeliverInv, Asterisk
  PROVE  DeliverInv'
<1>1. UNCHANGED <<pc, msg, this, mutexAMI, resp_waitcount, dropped, pResp, actionid, resp, req, sleeping>>
  BY DEF Asterisk, manageVars, threadVars, pastVars
<1>2. /\ \A c \in Conn : Due(c)' = Due(c)
      /\ \A w \in Worker : Answering(w)' <=> Answering(w)
  BY <1>1 DEF Due, Answering
<1>m. /\ inbox \in [Conn -> Seq(InMessage(emitted))] /\ sent \in [Conn -> Seq(ActionMessage)]
      /\ emitted \in Nat
  BY NoRequest DEF AnswerInv, MessageInv
<1>k. ASSUME \A c \in Conn : /\ Sending(sent'[c], Due(c)) /\ Coming(inbox'[c], Due(c))
                             /\ sent'[c] # <<>> => NoAnswer(inbox'[c]),
             \A w \in Worker : \A c \in Conn : Answering(w) /\ this[w] = c =>
                sent'[c] = <<>> /\ NoAnswer(inbox'[c])
      PROVE  DeliverInv'
  BY <1>1, <1>2, <1>k DEF DeliverInv
<1>3. ASSUME NEW c \in Conn, Answer(c) PROVE DeliverInv'
  <2> DEFINE a == Head(sent[c])
             x == [a EXCEPT !.kind = "Response"]
  <2>1. sent[c] \in Seq(ActionMessage) /\ sent[c] # <<>> /\ Sending(sent[c], Due(c))
    BY <1>3, <1>m DEF Answer, DeliverInv
  <2>2. a \in ActionMessage
    BY <2>1, TailOf
  <2>3. x \in AnswerMessage /\ x.id = a.id /\ x.req = a.req
    BY <2>2 DEF ActionMessage, AnswerMessage
  <2>4. x \in InMessage(emitted)
    BY <2>3 DEF InMessage
  <2>5. Tail(sent[c]) = <<>> /\ <<a.id, a.req>> \in Due(c)
    BY <2>1, SendingOf
  <2>6. inbox' = [inbox EXCEPT ![c] = Append(@, x)] /\ sent' = [sent EXCEPT ![c] = Tail(@)]
    BY <1>3 DEF Answer
  <2> HIDE DEF a, x
  <2>7. Coming(Append(inbox[c], x), Due(c))
    <3>1. NoAnswer(inbox[c]) /\ Coming(inbox[c], Due(c)) /\ inbox[c] \in Seq(InMessage(emitted))
      BY <1>m, <2>1 DEF DeliverInv
    <3> QED BY <2>3, <2>4, <2>5, <3>1, ComingAppend
  <2>8. /\ \A d \in Conn : inbox'[d] = (IF d = c THEN Append(inbox[c], x) ELSE inbox[d])
        /\ \A d \in Conn : sent'[d] = (IF d = c THEN <<>> ELSE sent[d])
    BY <1>m, <2>5, <2>6
  <2>9. \A d \in Conn : /\ Sending(sent'[d], Due(d)) /\ Coming(inbox'[d], Due(d))
                        /\ sent'[d] # <<>> => NoAnswer(inbox'[d])
    BY <2>7, <2>8, SendingOf DEF DeliverInv
  <2>10. \A w \in Worker : \A d \in Conn : Answering(w) /\ this[w] = d =>
           sent'[d] = <<>> /\ NoAnswer(inbox'[d])
    BY <2>1, <2>8 DEF DeliverInv
  <2> QED BY <1>k, <2>9, <2>10
<1>4. ASSUME NEW c \in Conn, Emit(c) PROVE DeliverInv'
  <2> DEFINE x == [kind |-> "Event", id |-> 0, req |-> emitted']
  <2>1. inbox' = [inbox EXCEPT ![c] = Append(@, x)] /\ UNCHANGED sent /\ emitted' = emitted + 1
    BY <1>4 DEF Emit
  <2>2. x.kind # "Response"
    OBVIOUS
  <2>3. x \in InMessage(emitted + 1)
    BY <1>m, <2>1 DEF InMessage, EventMessage
  <2>4. inbox[c] \in Seq(InMessage(emitted + 1))
    <3>1. InMessage(emitted) \subseteq InMessage(emitted + 1)
      BY <1>m DEF InMessage, EventMessage
    <3>2. inbox[c] \in Seq(InMessage(emitted))
      BY <1>m
    <3> QED BY <3>1, <3>2, SeqMonotonic
  <2> HIDE DEF x
  <2>5. Coming(inbox[c], Due(c))
    BY DEF DeliverInv
  <2>6. /\ Coming(Append(inbox[c], x), Due(c))
        /\ NoAnswer(inbox[c]) => NoAnswer(Append(inbox[c], x))
    BY <2>2, <2>3, <2>4, <2>5, ComingAppend
  <2>7. \A d \in Conn : inbox'[d] = (IF d = c THEN Append(inbox[c], x) ELSE inbox[d])
    BY <1>m, <2>1
  <2>8. \A d \in Conn : /\ Sending(sent'[d], Due(d)) /\ Coming(inbox'[d], Due(d))
                        /\ sent'[d] # <<>> => NoAnswer(inbox'[d])
    BY <2>1, <2>6, <2>7 DEF DeliverInv
  <2>9. \A w \in Worker : \A d \in Conn : Answering(w) /\ this[w] = d =>
           sent'[d] = <<>> /\ NoAnswer(inbox'[d])
    <3>1. \A w \in Worker : \A d \in Conn : Answering(w) /\ this[w] = d =>
             sent[d] = <<>> /\ NoAnswer(inbox[d])
      BY DEF DeliverInv
    <3> QED BY <2>1, <2>6, <2>7, <3>1
  <2> QED BY <1>k, <2>8, <2>9
<1>5. ASSUME NEW c \in Conn, HangUp(c) PROVE DeliverInv'
  <2>1. UNCHANGED <<sent, inbox>>
    BY <1>5 DEF HangUp
  <2> QED BY <1>k, <2>1 DEF DeliverInv
<1> QED BY <1>3, <1>4, <1>5 DEF Asterisk

(* The login job may count an ActionID while the connection is not up.      *)
LEMMA MainDeliver ==
  ASSUME AnswerInv, DeliverInv, Lost = {}, amiLogin \/ closesocket \/ UNCHANGED vars
  PROVE  DeliverInv'
<1>1. UNCHANGED <<sent, inbox, mutexAMI, resp_waitcount, dropped, pc, msg, this, pResp, resp, req, sleeping>>
  BY DEF amiLogin, closesocket, vars, manageVars, threadVars, netVars, pastVars
<1>2. \A c \in Conn : actionid'[c] = actionid[c] \/ \A v \in sleeping : this[v] # c
  <2>1. CASE UNCHANGED actionid
    BY <2>1
  <2>2. CASE LoginTalk
    <3>1. \A c \in Conn : c # ami_socket => actionid'[c] = actionid[c]
      BY <2>2 DEF LoginTalk, AnswerInv, MessageInv
    <3>2. object[ami_socket] = "user1" /\ ami_socket \in Conn
      BY <2>2 DEF LoginTalk, AnswerInv, SocketInv, LoginOK
    <3>3. \A v \in sleeping : FALSE
      <4>1. \A v \in sleeping : v \in Worker /\ Caller(v)
        BY DEF AnswerInv, CallerInv, Waiting, Caller
      <4>2. \A v \in sleeping : Client(ami_socket)
        BY <4>1 DEF AnswerInv, SocketInv, CallerPlaces
      <4> QED BY <3>2, <4>2 DEF Client
    <3> QED BY <3>1, <3>3
  <2> QED BY <2>1, <2>2 DEF amiLogin, closesocket, vars, manageVars, LoginCheck, LoginNew,
          LoginConnect, LoginAdd, LoginDelete, LoginReset
<1>3. \A c \in Conn : Due(c)' = Due(c)
  BY <1>1, <1>2, KeepDue
<1>4. \A v \in Worker : (Answering(v)' <=> Answering(v))
                        /\ pc[v] # "clear" /\ (pc[v] = "event" => msg[v].kind = "Event")
  BY <1>1 DEF Answering, DeliverInv
<1> QED BY <1>1, <1>3, <1>4, KeepDeliver
LEMMA SyncDeliver ==
  ASSUME NEW w \in Worker, AnswerInv, DeliverInv, FaultInv, late' = {}, Lost = {}, ami_sync(w)
  PROVE  DeliverInv'
<1> DEFINE Outside == {"idle", "manage", "sync", "buffer", "lock", "answered", "reply"}
<1>p. /\ pc \in [Worker -> Label] /\ req \in [Worker -> Request \union {NULL}]
      /\ this \in [Worker -> Conn \union {NULL}] /\ actionid \in [Conn -> Nat]
      /\ pResp \in [Conn -> Request \union {NULL}] /\ mutexAMI \in [Conn -> Worker \union {NULL}]
      /\ resp_waitcount \in [Conn -> Int] /\ resp \in [Request -> Response]
      /\ sent \in [Conn -> Seq(ActionMessage)]
      /\ \A v \in Worker : Caller(v) <=> req[v] # NULL
      /\ \A u, v \in Worker : req[u] = req[v] /\ req[v] # NULL => u = v
  BY DEF AnswerInv, SocketInv, RequestInv, PRespInv, MessageInv, Place, CallerInv, PlaceOK, FaultInv
<1>s. \A v \in sleeping : /\ v \in Worker /\ pc[v] = "wait" /\ this[v] \in Conn /\ mutexAMI[this[v]] = v
                          /\ req[v] \in Request
  BY <1>p DEF AnswerInv, CallerInv, Waiting, Owned, Caller
<1>d. /\ \A v \in Worker : pc[v] # "clear" /\ (pc[v] = "event" => msg[v].kind = "Event")
      /\ \A v \in Worker : pc[v] = "send" => this[v] \in Conn /\ mutexAMI[this[v]] = v
      /\ NULL \notin Worker /\ NULL \notin Conn /\ NULL \notin Request
  BY NullApart, NoRequest DEF DeliverInv, AnswerInv, CallerInv, Owned
<1>1. UNCHANGED <<object, msg, inbox, verdict, dropped, ami_socket>>
  BY DEF ami_sync, socketVars
<1> USE DEF Goto
<1>u. ASSUME UNCHANGED <<sent, mutexAMI, resp_waitcount, pResp, actionid, sleeping, resp, pc, this, req>>
      PROVE  DeliverInv'
  <2>1. \A c \in Conn : Due(c)' = Due(c)
    BY <1>u DEF Due
  <2>2. \A v \in Worker : Answering(v)' <=> Answering(v)
    BY <1>u, <1>1 DEF Answering
  <2> QED BY <1>u, <1>1, <2>1, <2>2 DEF DeliverInv
<1>k. ASSUME UNCHANGED <<sent, mutexAMI, resp_waitcount, pResp, actionid, sleeping>>,
             pc[w] \in Outside, pc'[w] \in Outside,
             \A v \in Worker \ {w} : this'[v] = this[v] /\ req'[v] = req[v] /\ pc'[v] = pc[v],
             \A r \in Request : r # req[w] => resp'[r] = resp[r]
      PROVE  DeliverInv'
  <2>1. \A v \in sleeping : v # w /\ req[v] # req[w]
    BY <1>k, <1>p, <1>s, <1>d
  <2>2. \A c \in Conn : Due(c)' = Due(c)
    <3>1. \A v \in sleeping : this'[v] = this[v] /\ req'[v] = req[v] /\ resp'[req[v]].mode = resp[req[v]].mode
      BY <1>k, <1>s, <2>1
    <3> QED BY <1>k, <3>1, KeepDue
  <2>3. \A v \in Worker : Answering(v)' => Answering(v) /\ msg'[v] = msg[v] /\ this'[v] = this[v]
    BY <1>1, <1>k DEF Answering
  <2>4. \A v \in Worker : pc'[v] # "clear" /\ (pc'[v] = "event" => msg'[v].kind = "Event")
    BY <1>1, <1>k, <1>d
  <2>5. \A v \in Worker : pc[v] \in {"send", "wait"} => pc'[v] \in {"send", "wait"} /\ this'[v] = this[v]
    BY <1>k
  <2>6. /\ \A v \in Worker : pc'[v] = "handle" <=> pc[v] = "handle"
        /\ \A v \in Worker : pc[v] = "handle" => this'[v] = this[v]
    BY <1>k
  <2> HIDE DEF Outside
  <2> QED BY <1>1, <1>k, <2>2, <2>3, <2>4, <2>5, <2>6, KeepDeliver
<1>3. CASE Start(w)
  BY <1>p, <1>k, <1>3 DEF Start, Begin, manageVars
<1>4. CASE Manage(w)
  BY <1>p, <1>k, <1>4 DEF Manage, manageVars
<1>5. CASE Sync(w)
  BY <1>p, <1>k, <1>5 DEF Sync, manageVars
<1>6. CASE Buffer(w)
  BY <1>p, <1>k, <1>6 DEF Buffer, manageVars
<1>a. ASSUME NEW c \in Conn, c = this[w], \A v \in sleeping : this[v] # c,
             \A v \in Worker \ {w} : ~(pc[v] = "send" /\ this[v] = c)
      PROVE  /\ \A v \in Worker : pc[v] = "handle" => this[v] # c
             /\ ~Counted(c, w)
  BY <1>a, NothingDue DEF Counted
(* From here on the counter is exact                                        *)
<1>t. ASSUME NEW c \in Conn, c = this[w], \A v \in Worker : pc[v] = "handle" => this[v] # c,
             UNCHANGED <<sent, pResp, actionid, sleeping, this, req, resp>>,
             \/ /\ pc[w] = "lock" /\ mutexAMI[c] = NULL /\ pc' = [pc EXCEPT ![w] = "send"]
                /\ mutexAMI' = [mutexAMI EXCEPT ![c] = w]
                /\ resp_waitcount' = [resp_waitcount EXCEPT ![c] = resp_waitcount[c] + 1]
             \/ /\ pc[w] = "wait" /\ mutexAMI[c] = w /\ pc' = [pc EXCEPT ![w] = "answered"]
                /\ mutexAMI' = [mutexAMI EXCEPT ![c] = NULL]
                /\ resp_waitcount' = [resp_waitcount EXCEPT ![c] = resp_waitcount[c] + (-1)]
      PROVE  DeliverInv'
  <2>1. /\ \A d \in Conn : Due(d)' = Due(d)
        /\ \A v \in Worker : Answering(v)' <=> Answering(v)
    BY <1>t, <1>1, <1>p DEF Due, Answering
  <2>2. /\ \A v \in Worker : v # w => pc'[v] = pc[v]
        /\ pc'[w] \in {"send", "answered"} /\ pc[w] \in {"lock", "wait"}
        /\ \A d \in Conn : d # c => mutexAMI'[d] = mutexAMI[d] /\ resp_waitcount'[d] = resp_waitcount[d]
    BY <1>t, <1>p
  <2>3. \A d \in Conn : mutexAMI'[d] # NULL => pc'[mutexAMI'[d]] \in {"send", "wait"} /\ this[mutexAMI'[d]] = d
    <3> SUFFICES ASSUME NEW d \in Conn, mutexAMI'[d] # NULL
                 PROVE  pc'[mutexAMI'[d]] \in {"send", "wait"} /\ this[mutexAMI'[d]] = d
      OBVIOUS
    <3>1. CASE d = c
      BY <1>t, <1>p, <3>1
    <3>2. CASE d # c
      <4> PICK v \in Worker : v = mutexAMI[d]
        BY <1>p, <2>2, <3>2
      <4>1. pc[v] \in {"send", "wait"} /\ this[v] = d
        BY <1>d, <2>2, <3>2 DEF DeliverInv
      <4>2. v # w
        BY <1>t, <3>2, <4>1
      <4> QED BY <2>2, <3>2, <4>1, <4>2
    <3> QED BY <3>1, <3>2
  <2>4. \A d \in Conn : resp_waitcount'[d] = (IF mutexAMI'[d] = NULL THEN 0 ELSE 1)
                        + (IF \E v \in Worker : pc'[v] = "handle" /\ this[v] = d THEN 1 ELSE 0)
    <3> SUFFICES ASSUME NEW d \in Conn
                 PROVE  resp_waitcount'[d] = (IF mutexAMI'[d] = NULL THEN 0 ELSE 1)
                          + (IF \E v \in Worker : pc'[v] = "handle" /\ this[v] = d THEN 1 ELSE 0)
      OBVIOUS
    <3>1. (\E v \in Worker : pc'[v] = "handle" /\ this[v] = d)
          <=> (\E v \in Worker : pc[v] = "handle" /\ this[v] = d)
      BY <2>2
    <3>2. resp_waitcount[d] = (IF mutexAMI[d] = NULL THEN 0 ELSE 1)
                        + (IF \E v \in Worker : pc[v] = "handle" /\ this[v] = d THEN 1 ELSE 0)
      BY DEF DeliverInv
    <3>3. CASE d # c
      BY <2>2, <3>1, <3>2, <3>3
    <3>4. CASE d = c
      <4>1. ~ \E v \in Worker : pc[v] = "handle" /\ this[v] = c
        BY <1>t
      <4> QED BY <1>t, <1>p, <1>d, <3>1, <3>2, <3>4, <4>1
    <3> QED BY <3>3, <3>4
  <2>5. \A v \in Worker : pc'[v] # "clear" /\ (pc'[v] = "event" => msg[v].kind = "Event")
    BY <1>d, <2>2
  <2> QED BY <1>1, <1>t, <2>1, <2>3, <2>4, <2>5 DEF DeliverInv
<1>7. CASE Lock(w)
  <2>1. CASE Gone(this[w])
    BY <1>u, <1>7, <2>1 DEF Lock
  <2>2. CASE ~Gone(this[w])
    <3> PICK c \in Conn : c = this[w]
      BY <1>p, <2>2 DEF Gone
    <3>1. /\ pc[w] = "lock" /\ mutexAMI[c] = NULL /\ mutexAMI' = [mutexAMI EXCEPT ![c] = w]
          /\ Count(c, w, 1) /\ pc' = [pc EXCEPT ![w] = "send"]
          /\ UNCHANGED <<sent, pResp, actionid, sleeping, this, req, resp>>
      BY <1>7, <2>2 DEF Lock
    <3>2. (\A v \in Worker : pc[v] = "handle" => this[v] # c) /\ ~Counted(c, w)
      BY <1>a, <1>s, <1>d, <3>1
    <3>3. resp_waitcount' = [resp_waitcount EXCEPT ![c] = resp_waitcount[c] + 1]
      BY <1>p, <3>1, <3>2, ExactCount
    <3> QED BY <1>t, <3>1, <3>2, <3>3
  <2> QED BY <2>1, <2>2
<1>10. CASE Return(w)
  <2>1. CASE Gone(this[w])
    BY <1>u, <1>10, <2>1 DEF Return
  <2>2. CASE ~Gone(this[w])
    <3> PICK c \in Conn : c = this[w]
      BY <1>p, <2>2 DEF Gone
    <3>1. /\ pc[w] = "wait" /\ w \notin sleeping /\ mutexAMI' = [mutexAMI EXCEPT ![c] = NULL]
          /\ Count(c, w, -1) /\ pc' = [pc EXCEPT ![w] = "answered"]
          /\ UNCHANGED <<sent, pResp, actionid, sleeping, this, req, late>>
      BY <1>10, <2>2 DEF Return
    <3>2. UNCHANGED resp
      BY <1>10, <2>2, <3>1 DEF Return
    <3>3. mutexAMI[c] = w
      BY <3>1 DEF AnswerInv, CallerInv, Owned
    <3>4. (\A v \in Worker : pc[v] = "handle" => this[v] # c) /\ ~Counted(c, w)
      BY <1>a, <1>s, <1>d, <3>1, <3>3
    <3>5. resp_waitcount' = [resp_waitcount EXCEPT ![c] = resp_waitcount[c] + (-1)]
      <4>1. -1 \in Int
        OBVIOUS
      <4> QED BY <1>p, <3>1, <3>4, <4>1, ExactCount
    <3> QED BY <1>t, <3>1, <3>2, <3>3, <3>4, <3>5
  <2> QED BY <2>1, <2>2
<1>8. CASE Send(w)
  <2>1. CASE Gone(this[w]) \/ Gone(buf[w]) \/ Gone(ami_socket)
    BY <1>u, <1>8, <2>1 DEF Send
  <2>2. CASE ~(Gone(this[w]) \/ Gone(buf[w]) \/ Gone(ami_socket))
    <3> PICK c \in Conn : c = this[w]
      BY <1>p, <2>2 DEF Gone
    <3> PICK r \in Request : r = req[w]
      BY <1>8, <1>p DEF Send, Caller
    <3> DEFINE x == [kind |-> "Action", id |-> actionid[c] + 1, req |-> r]
    <3>1. /\ pc[w] = "send" /\ pc' = [pc EXCEPT ![w] = "wait"] /\ sleeping' = sleeping \union {w}
          /\ actionid' = [actionid EXCEPT ![c] = @ + 1] /\ pResp' = [pResp EXCEPT ![c] = r]
          /\ resp' = [resp EXCEPT ![r].mode = "request"]
          /\ UNCHANGED <<mutexAMI, resp_waitcount, this, req, late>>
      BY <1>8, <2>2 DEF Send
    <3>2. ami_socket = c
      <4>1. object[c] # "none"
        BY <3>1, <1>d DEF AnswerInv, SocketInv, CallerPlaces
      <4>2. object[c] \in {"new", "user1", "client"}
        BY <4>1 DEF Lost, AnswerInv, SocketInv, Condition
      <4> QED BY <4>2 DEF AnswerInv, SocketInv, OneShot
    <3>3. sent' = sent \/ sent' = [sent EXCEPT ![c] = Append(@, x)]
      <4>1. actionid'[c] = actionid[c] + 1
        BY <1>p, <3>1
      <4> QED BY <1>8, <2>2, <3>2, <4>1 DEF Send
    <3>4. \A v \in sleeping : this[v] # c /\ v # w /\ req[v] # r
      BY <1>s, <1>d, <1>p, <3>1
    <3>5. /\ Due(c) = {} /\ sent[c] = <<>> /\ NoAnswer(inbox[c])
          /\ \A v \in Worker : Answering(v) => this[v] # c
          /\ \A v \in Worker : pc[v] = "handle" => this[v] # c
      BY <3>4, NothingDue
    <3>6. Due(c)' = {<<actionid[c] + 1, r>>}
      <4>1. w \in sleeping' /\ this'[w] = c /\ req'[w] = r /\ pResp'[c] = r /\ r # NULL
            /\ actionid'[c] = actionid[c] + 1
        BY <1>p, <1>d, <3>1
      <4>2. resp'[r].mode = "request"
        BY <1>p, <3>1 DEF Response
      <4> QED BY <4>1, <4>2 DEF Due
    <3>7. \A d \in Conn : d # c => Due(d)' = Due(d)
      <4> SUFFICES ASSUME NEW d \in Conn, d # c PROVE Due(d)' = Due(d)
        OBVIOUS
      <4>1. pResp'[d] = pResp[d] /\ actionid'[d] = actionid[d]
        BY <1>p, <3>1
      <4>2. (\E v \in sleeping' : this'[v] = d /\ req'[v] = pResp[d])
            <=> (\E v \in sleeping : this[v] = d /\ req[v] = pResp[d])
        BY <3>1
      <4>3. CASE \E v \in sleeping : this[v] = d /\ req[v] = pResp[d]
        <5>1. pResp[d] # r /\ pResp[d] \in Request
          BY <1>s, <3>4, <4>3
        <5>2. resp'[pResp[d]] = resp[pResp[d]]
          BY <1>p, <3>1, <5>1
        <5> QED BY <4>1, <4>2, <5>2 DEF Due
      <4>4. CASE ~ \E v \in sleeping : this[v] = d /\ req[v] = pResp[d]
        BY <4>1, <4>2, <4>4 DEF Due
      <4> QED BY <4>3, <4>4
    <3>8. Sending(sent'[c], Due(c)')
      <4>1. x \in ActionMessage
        BY <1>p DEF ActionMessage
      <4>2. <<x.id, x.req>> \in Due(c)'
        BY <3>6
      <4> HIDE DEF x
      <4>3. Sending(<<>>, Due(c)') /\ Sending(Append(<<>>, x), Due(c)')
        BY <4>1, <4>2, SendingOf
      <4> QED BY <1>p, <3>3, <3>5, <4>3
    <3>9. Coming(inbox[c], Due(c)')
      BY <3>5 DEF Coming, NoAnswer
    <3>10. \A d \in Conn : d # c => sent'[d] = sent[d]
      BY <1>p, <3>3
    <3>11. \A d \in Conn : /\ Sending(sent'[d], Due(d)') /\ Coming(inbox[d], Due(d)')
                           /\ sent'[d] # <<>> => NoAnswer(inbox[d])
      BY <3>5, <3>7, <3>8, <3>9, <3>10 DEF DeliverInv
    <3>12. \A v \in Worker : v # w => pc'[v] = pc[v]
      BY <1>p, <3>1
    <3>13. pc'[w] = "wait"
      BY <1>p, <3>1
    <3>14. \A v \in Worker : Answering(v)' => Answering(v) /\ this[v] # c
      BY <1>1, <3>5, <3>12, <3>13 DEF Answering
    <3>15. \A v \in Worker : \A d \in Conn : Answering(v)' /\ this[v] = d =>
             <<msg[v].id, msg[v].req>> \in Due(d)' /\ sent'[d] = <<>> /\ NoAnswer(inbox[d])
      BY <3>7, <3>10, <3>14 DEF DeliverInv
    <3>16. \A v \in Worker : pc'[v] # "clear" /\ (pc'[v] = "event" => msg[v].kind = "Event")
      BY <1>d, <3>12, <3>13
    <3>17. \A d \in Conn : mutexAMI[d] # NULL => pc'[mutexAMI[d]] \in {"send", "wait"} /\ this[mutexAMI[d]] = d
      BY <1>p, <3>12, <3>13 DEF DeliverInv
    <3>18. \A d \in Conn : (\E v \in Worker : pc'[v] = "handle" /\ this[v] = d)
                           <=> (\E v \in Worker : pc[v] = "handle" /\ this[v] = d)
      BY <3>1, <3>12, <3>13
    <3> HIDE DEF x
    <3> QED BY <1>1, <3>1, <3>11, <3>15, <3>16, <3>17, <3>18 DEF DeliverInv
  <2> QED BY <2>1, <2>2
<1>9. CASE Expire(w)
  BY <1>9 DEF Expire
<1>11. CASE Continue(w)
  <2>1. resp' = [resp EXCEPT ![req[w]].freed = TRUE]
    BY <1>11 DEF Continue, Report
  <2> QED BY <1>p, <1>k, <1>11, <2>1 DEF Continue, Begin, manageVars
<1>12. CASE Finish(w)
  BY <1>p, <1>k, <1>12 DEF Finish, manageVars
<1>13. CASE Reply(w)
  <2>1. resp' = [resp EXCEPT ![req[w]].freed = TRUE]
    BY <1>13 DEF Reply, Report
  <2> QED BY <1>p, <1>k, <1>13, <2>1 DEF Reply, manageVars
<1> QED BY <1>3, <1>4, <1>5, <1>6, <1>7, <1>8, <1>9, <1>10, <1>11, <1>12, <1>13 DEF ami_sync
(* The handler of an answer finds its caller asleep, counted and waiting    *)
(* for this ActionID, so it can only count, copy and wake.                  *)
LEMMA HandlerDeliver ==
  ASSUME NEW w \in Worker, AnswerInv, DeliverInv, FaultInv, late = {}, Lost = {}, ami_event(w)
  PROVE  DeliverInv'
<1>p. /\ pc \in [Worker -> Label] /\ req \in [Worker -> Request \union {NULL}]
      /\ this \in [Worker -> Place] /\ inbox \in [Conn -> Seq(InMessage(emitted))]
      /\ pResp \in [Conn -> Request \union {NULL}] /\ mutexAMI \in [Conn -> Worker \union {NULL}]
      /\ resp_waitcount \in [Conn -> Int] /\ resp \in [Request -> Response] /\ DOMAIN msg = Worker
      /\ \A u, v \in Worker : Handler(u) /\ Handler(v) => u = v
      /\ \A v \in Worker : Handler(v) => Client(this[v])
      /\ \A c \in armed : Client(c) /\ \A v \in Worker : Handler(v) => this[v] # c
      /\ \A c \in Conn : object[c] = "client" => c = ami_socket
  BY DEF AnswerInv, SocketInv, RequestInv, PRespInv, MessageInv, CallerInv, PlaceOK, FaultInv,
         OneShot, Client
<1>s. \A v \in sleeping : /\ v \in Worker /\ pc[v] = "wait" /\ this[v] \in Conn /\ mutexAMI[this[v]] = v
                          /\ req[v] \in Request /\ ~resp[req[v]].freed
  <2>1. \A v \in sleeping : v \in Worker /\ pc[v] = "wait"
    BY DEF AnswerInv, CallerInv, Waiting
  <2>2. \A v \in sleeping : this[v] \in Conn /\ mutexAMI[this[v]] = v
    BY <2>1 DEF AnswerInv, CallerInv, Owned
  <2>3. \A v \in sleeping : req[v] # NULL
    BY <2>1 DEF AnswerInv, RequestInv, Caller
  <2>4. \A v \in sleeping : req[v] \in Request /\ ~resp[req[v]].freed
    BY <1>p, <2>1, <2>3 DEF AnswerInv, RequestInv
  <2> QED BY <2>1, <2>2, <2>4
<1>d. /\ \A v \in Worker : pc[v] # "clear" /\ (pc[v] = "event" => msg[v].kind = "Event")
      /\ \A v \in Worker : pc[v] = "send" => this[v] \in Conn /\ mutexAMI[this[v]] = v
      /\ NULL \notin Worker /\ NULL \notin Conn /\ NULL \notin Request
      /\ \A v \in Worker : Handler(v) => msg[v].kind \in {"Response", "Event"}
      /\ \A v \in Worker : pc[v] \in {"count", "handle"} => msg[v].kind = "Response"
  BY NullApart, NoRequest DEF DeliverInv, AnswerInv, CallerInv, Owned, MessageInv, Fit, Judged,
     AnswerMessage, EventMessage
<1>g. Handler(w) => this[w] \in Conn /\ ~Gone(this[w])
  BY <1>p, <1>d DEF Client, Gone
<1>1. UNCHANGED <<mutexAMI, actionid, req, sent>>
  BY DEF ami_event
<1>2. \A c \in Conn : mutexAMI[c] # NULL => mutexAMI[c] \in Worker /\ pc[mutexAMI[c]] \in {"send", "wait"}
  BY <1>p DEF DeliverInv
<1> USE DEF Goto
(* What the handler of an answer knows                                      *)
<1>a. ASSUME Answering(w)
      PROVE  /\ <<msg[w].id, msg[w].req>> \in Due(this[w])
             /\ sent[this[w]] = <<>> /\ NoAnswer(inbox[this[w]])
             /\ pResp[this[w]] \in Request /\ resp[pResp[this[w]]].mode = "request"
             /\ ~resp[pResp[this[w]]].freed /\ msg[w].id = actionid[this[w]]
             /\ mutexAMI[this[w]] # NULL /\ pc[mutexAMI[this[w]]] = "wait"
  <2> PICK c \in Conn : c = this[w]
    BY <1>a, <1>g DEF Answering, Handler
  <2>1. <<msg[w].id, msg[w].req>> \in Due(c) /\ sent[c] = <<>> /\ NoAnswer(inbox[c])
    BY <1>a DEF DeliverInv
  <2>2. /\ pResp[c] # NULL /\ resp[pResp[c]].mode = "request" /\ msg[w].id = actionid[c]
        /\ \E v \in sleeping : this[v] = c /\ req[v] = pResp[c]
    BY <2>1 DEF Due
  <2> QED BY <1>s, <1>d, <2>1, <2>2
<1>k. ASSUME UNCHANGED <<inbox, resp_waitcount, dropped, pResp, resp, sleeping>>,
             \A v \in Worker \ {w} : this'[v] = this[v] /\ msg'[v] = msg[v] /\ pc'[v] = pc[v],
             pc[w] \notin {"send", "wait", "handle"},
             pc'[w] \notin {"clear", "handle"}, pc'[w] = "event" => msg'[w].kind = "Event",
             Answering(w)' => Answering(w) /\ msg'[w] = msg[w] /\ this'[w] = this[w]
      PROVE  DeliverInv'
  <2>1. \A v \in sleeping : v # w
    BY <1>k, <1>s
  <2>2. \A c \in Conn : Due(c)' = Due(c)
    <3>1. \A v \in sleeping : this'[v] = this[v] /\ req'[v] = req[v] /\ resp'[req[v]].mode = resp[req[v]].mode
      BY <1>1, <1>k, <1>s, <2>1
    <3> QED BY <1>1, <1>k, <3>1, KeepDue
  <2>3. \A v \in Worker : Answering(v)' => Answering(v) /\ msg'[v] = msg[v] /\ this'[v] = this[v]
    BY <1>k DEF Answering
  <2>4. \A v \in Worker : pc'[v] # "clear" /\ (pc'[v] = "event" => msg'[v].kind = "Event")
    BY <1>k, <1>d
  <2>5. \A v \in Worker : pc[v] \in {"send", "wait"} => pc'[v] \in {"send", "wait"} /\ this'[v] = this[v]
    BY <1>k
  <2>6. /\ \A v \in Worker : pc'[v] = "handle" <=> pc[v] = "handle"
        /\ \A v \in Worker : pc[v] = "handle" => this'[v] = this[v]
    BY <1>k
  <2> QED BY <1>1, <1>k, <2>2, <2>3, <2>4, <2>5, <2>6, KeepDeliver
<1>3. CASE Read(w)
  <2> PICK c \in armed \ hup :
        /\ inbox[c] # <<>>
        /\ this' = [this EXCEPT ![w] = c]
        /\ msg' = [msg EXCEPT ![w] = Head(inbox[c])]
        /\ inbox' = [inbox EXCEPT ![c] = Tail(@)]
    BY <1>3 DEF Read
  <2>1. pc[w] = "idle" /\ pc' = [pc EXCEPT ![w] = "look"] /\ c \in Conn
        /\ UNCHANGED <<pResp, resp_waitcount, resp, sleeping, dropped>>
    BY <1>3, <1>p DEF Read, Client
  <2>2. \A v \in Worker : ~Handler(v)
    BY <1>p, <2>1 DEF Client
  <2>3. /\ Coming(Tail(inbox[c]), Due(c))
        /\ NoAnswer(inbox[c]) => NoAnswer(Tail(inbox[c]))
        /\ Head(inbox[c]).kind = "Response" =>
              NoAnswer(Tail(inbox[c])) /\ <<Head(inbox[c]).id, Head(inbox[c]).req>> \in Due(c)
    <3>1. inbox[c] \in Seq(InMessage(emitted)) /\ inbox[c] # <<>> /\ Coming(inbox[c], Due(c))
      BY <1>p, <2>1 DEF DeliverInv
    <3> QED BY <3>1, ComingTail
  <2>4. Head(inbox[c]).kind = "Response" => sent[c] = <<>>
    <3>1. inbox[c] \in Seq(InMessage(emitted)) /\ inbox[c] # <<>>
      BY <1>p, <2>1
    <3>2. Head(inbox[c]) = inbox[c][1] /\ 1 \in DOMAIN inbox[c]
      BY <3>1, TailOf
    <3> QED BY <2>1, <3>2 DEF DeliverInv, NoAnswer
  <2>5. \A d \in Conn : inbox'[d] = (IF d = c THEN Tail(inbox[c]) ELSE inbox[d])
    BY <1>p
  <2>6. \A d \in Conn : Due(d)' = Due(d)
    <3>1. \A v \in sleeping : this'[v] = this[v]
      BY <1>s, <2>1
    <3> QED BY <1>1, <2>1, <3>1, KeepDue
  <2>7. \A d \in Conn : /\ Sending(sent'[d], Due(d)') /\ Coming(inbox'[d], Due(d)')
                        /\ sent'[d] # <<>> => NoAnswer(inbox'[d])
    BY <1>1, <2>3, <2>5, <2>6 DEF DeliverInv
  <2>8. \A v \in Worker : Answering(v)' => v = w /\ msg'[v] = Head(inbox[c]) /\ this'[v] = c
                                           /\ Head(inbox[c]).kind = "Response"
    BY <1>p, <2>1, <2>2 DEF Answering, Handler
  <2>9. \A v \in Worker : \A d \in Conn : Answering(v)' /\ this'[v] = d =>
          <<msg'[v].id, msg'[v].req>> \in Due(d)' /\ sent'[d] = <<>> /\ NoAnswer(inbox'[d])
    BY <1>1, <2>3, <2>4, <2>5, <2>6, <2>8
  <2>10. \A v \in Worker : pc'[v] # "clear" /\ (pc'[v] = "event" => msg'[v].kind = "Event")
    BY <1>p, <1>d, <2>1
  <2>11. \A d \in Conn : mutexAMI[d] # NULL => pc'[mutexAMI[d]] \in {"send", "wait"} /\ this'[mutexAMI[d]] = d
    <3>1. \A d \in Conn : mutexAMI[d] # NULL => mutexAMI[d] # w /\ this[mutexAMI[d]] = d
      BY <1>2, <2>1 DEF DeliverInv
    <3> QED BY <1>2, <1>p, <2>1, <3>1
  <2>12. \A d \in Conn : (\E v \in Worker : pc'[v] = "handle" /\ this'[v] = d)
                         <=> (\E v \in Worker : pc[v] = "handle" /\ this[v] = d)
    <3>1. \A v \in Worker : pc[v] # "handle" /\ pc'[v] # "handle"
      BY <1>p, <2>1, <2>2 DEF Handler
    <3> QED BY <3>1
  <2> QED BY <1>1, <2>1, <2>7, <2>9, <2>10, <2>11, <2>12 DEF DeliverInv
<1>4. CASE Look(w)
  <2>1. pc[w] = "look" /\ Handler(w) /\ UNCHANGED <<pResp, resp_waitcount, resp, this, msg, inbox, sleeping, dropped>>
    BY <1>4 DEF Look, Handler
  <2>2. CASE msg[w].kind = "Event"
    <3>1. pc' = [pc EXCEPT ![w] = "event"]
      BY <1>4, <1>g, <2>1, <2>2 DEF Look
    <3> QED BY <1>p, <1>k, <2>1, <2>2, <3>1 DEF Answering
  <2>3. CASE msg[w].kind = "Response"
    <3>1. Answering(w)
      BY <2>1, <2>3 DEF Answering
    <3>2. resp_waitcount[this[w]] # 0
      <4> PICK c \in Conn : c = this[w]
        BY <1>g, <2>1
      <4>1. mutexAMI[c] # NULL
        BY <1>a, <3>1
      <4> QED BY <4>1 DEF DeliverInv
    <3>3. pc' = [pc EXCEPT ![w] = "count"]
      BY <1>4, <1>a, <1>d, <1>g, <2>1, <2>3, <3>1, <3>2 DEF Look
    <3> QED BY <1>p, <1>k, <2>1, <3>1, <3>3 DEF Answering
  <2> QED BY <1>d, <2>1, <2>2, <2>3
<1>5. CASE EventCount(w)
  <2>1. pc[w] = "count" /\ Handler(w) /\ Answering(w)
    BY <1>5, <1>d DEF EventCount, Handler, Answering
  <2> PICK c \in Conn : c = this[w]
    BY <1>g, <2>1
  <2>2. /\ pc' = [pc EXCEPT ![w] = "handle"] /\ Count(c, w, 1)
        /\ UNCHANGED <<pResp, resp, this, msg, inbox, sleeping, dropped>>
    BY <1>5, <1>g, <2>1 DEF EventCount
  <2>3. ~Counted(c, w)
    <3>1. mutexAMI[c] # NULL /\ pc[mutexAMI[c]] = "wait"
      BY <1>a, <2>1
    <3>2. \A v \in Worker \ {w} : ~(this[v] = c /\ pc[v] = "send")
      BY <1>d, <3>1
    <3>3. \A v \in Worker \ {w} : pc[v] # "handle"
      BY <1>p, <2>1 DEF Handler
    <3> QED BY <3>2, <3>3 DEF Counted
  <2>4. resp_waitcount' = [resp_waitcount EXCEPT ![c] = resp_waitcount[c] + 1]
    BY <1>p, <2>2, <2>3, ExactCount
  <2>5. \A d \in Conn : resp_waitcount'[d] = (IF mutexAMI[d] = NULL THEN 0 ELSE 1)
                        + (IF \E v \in Worker : pc'[v] = "handle" /\ this[v] = d THEN 1 ELSE 0)
    <3> SUFFICES ASSUME NEW d \in Conn
                 PROVE  resp_waitcount'[d] = (IF mutexAMI[d] = NULL THEN 0 ELSE 1)
                          + (IF \E v \in Worker : pc'[v] = "handle" /\ this[v] = d THEN 1 ELSE 0)
      OBVIOUS
    <3>1. \A v \in Worker : pc[v] # "handle"
      BY <1>p, <2>1 DEF Handler
    <3>2. resp_waitcount[d] = (IF mutexAMI[d] = NULL THEN 0 ELSE 1)
      BY <3>1 DEF DeliverInv
    <3>3. \A v \in Worker : pc'[v] = "handle" <=> v = w
      BY <1>p, <2>2, <3>1
    <3> QED BY <1>p, <2>4, <3>2, <3>3
  <2>6. \A d \in Conn : Due(d)' = Due(d)
    BY <1>1, <2>2, KeepDue
  <2>7. \A v \in Worker : Answering(v)' <=> Answering(v)
    BY <1>p, <2>1, <2>2 DEF Answering
  <2>8. \A v \in Worker : v # w => pc'[v] = pc[v]
    BY <1>p, <2>2
  <2>9. pc'[w] = "handle"
    BY <1>p, <2>2
  <2>10. \A d \in Conn : mutexAMI[d] # NULL => pc'[mutexAMI[d]] \in {"send", "wait"} /\ this[mutexAMI[d]] = d
    BY <1>2, <2>1, <2>8 DEF DeliverInv
  <2>11. \A v \in Worker : pc'[v] # "clear" /\ (pc'[v] = "event" => msg[v].kind = "Event")
    BY <1>d, <2>8, <2>9
  <2> QED BY <1>1, <2>2, <2>5, <2>6, <2>7, <2>10, <2>11 DEF DeliverInv
<1>6. CASE Handle(w)
  <2>1. pc[w] = "handle" /\ Handler(w) /\ Answering(w)
    BY <1>6, <1>d DEF Handle, Handler, Answering
  <2> PICK c \in Conn : c = this[w]
    BY <1>g, <2>1
  <2> PICK r \in Request : r = pResp[c]
    BY <1>a, <2>1
  <2>2. ~Gone(c) /\ ~resp[r].freed /\ ~Older(msg[w].id, c)
    <3>1. msg[w].id = actionid[c] /\ actionid[c] \in Nat
      BY <1>a, <2>1 DEF AnswerInv, MessageInv
    <3> QED BY <1>a, <1>g, <2>1, <3>1 DEF Older
  <2>3. /\ pc' = [pc EXCEPT ![w] = "done"] /\ Count(c, w, -1) /\ pResp' = [pResp EXCEPT ![c] = NULL]
        /\ sleeping' = sleeping \ Wake(c) /\ UNCHANGED <<this, msg, inbox, dropped>>
    BY <1>6, <2>2 DEF Handle
  <2>4. \A q \in Request : q # r => resp'[q] = resp[q]
    BY <1>6, <1>p, <2>2 DEF Handle
  <2>5. ~Counted(c, w)
    <3>1. mutexAMI[c] # NULL /\ pc[mutexAMI[c]] = "wait"
      BY <1>a, <2>1
    <3>2. \A v \in Worker \ {w} : ~(this[v] = c /\ pc[v] = "send")
      BY <1>d, <3>1
    <3>3. \A v \in Worker \ {w} : pc[v] # "handle"
      BY <1>p, <2>1 DEF Handler
    <3> QED BY <3>2, <3>3 DEF Counted
  <2>6. resp_waitcount' = [resp_waitcount EXCEPT ![c] = resp_waitcount[c] + (-1)]
    <3>1. -1 \in Int
      OBVIOUS
    <3> QED BY <1>p, <2>3, <2>5, <3>1, ExactCount
  <2>7. \A d \in Conn : resp_waitcount'[d] = (IF mutexAMI[d] = NULL THEN 0 ELSE 1)
                        + (IF \E v \in Worker : pc'[v] = "handle" /\ this[v] = d THEN 1 ELSE 0)
    <3> SUFFICES ASSUME NEW d \in Conn
                 PROVE  resp_waitcount'[d] = (IF mutexAMI[d] = NULL THEN 0 ELSE 1)
                          + (IF \E v \in Worker : pc'[v] = "handle" /\ this[v] = d THEN 1 ELSE 0)
      OBVIOUS
    <3>1. \A v \in Worker : pc[v] = "handle" <=> v = w
      BY <1>p, <2>1 DEF Handler
    <3>2. resp_waitcount[d] = (IF mutexAMI[d] = NULL THEN 0 ELSE 1) + (IF d = c THEN 1 ELSE 0)
      <4>1. (\E v \in Worker : pc[v] = "handle" /\ this[v] = d) <=> d = c
        BY <3>1
      <4> QED BY <4>1 DEF DeliverInv
    <3>3. \A v \in Worker : pc'[v] # "handle"
      BY <1>p, <2>3, <3>1
    <3> QED BY <1>p, <2>6, <3>2, <3>3
  <2>8. \A v \in Worker : v # w => pc'[v] = pc[v]
    BY <1>p, <2>3
  <2>9. pc'[w] = "done"
    BY <1>p, <2>3
  <2>10. sent[c] = <<>> /\ NoAnswer(inbox[c])
    BY <1>a, <2>1
  <2>11. \A d \in Conn : d # c => Due(d)' = Due(d)
    <3> SUFFICES ASSUME NEW d \in Conn, d # c PROVE Due(d)' = Due(d)
      OBVIOUS
    <3>1. pResp'[d] = pResp[d] /\ actionid'[d] = actionid[d]
      BY <1>1, <1>p, <2>3
    <3>2. (\E v \in sleeping' : this'[v] = d /\ req'[v] = pResp[d])
          <=> (\E v \in sleeping : this[v] = d /\ req[v] = pResp[d])
      BY <1>1, <2>3 DEF Wake
    <3>3. pResp[d] # NULL => pResp[d] \in Request /\ pResp[d] # r
      BY <1>p DEF AnswerInv, PRespInv
    <3>4. pResp[d] # NULL => resp'[pResp[d]] = resp[pResp[d]]
      BY <2>4, <3>3
    <3> QED BY <3>1, <3>2, <3>4 DEF Due
  <2>12. \A d \in Conn : /\ Sending(sent'[d], Due(d)') /\ Coming(inbox'[d], Due(d)')
                         /\ sent'[d] # <<>> => NoAnswer(inbox'[d])
    <3>1. Sending(sent[c], Due(c)') /\ Coming(inbox[c], Due(c)')
      BY <2>10, SendingOf DEF Coming, NoAnswer
    <3> QED BY <1>1, <2>3, <2>11, <3>1 DEF DeliverInv
  <2>13. \A v \in Worker : ~Answering(v)'
    BY <1>p, <2>1, <2>8, <2>9 DEF Answering, Handler
  <2>14. \A d \in Conn : mutexAMI[d] # NULL => pc'[mutexAMI[d]] \in {"send", "wait"} /\ this[mutexAMI[d]] = d
    BY <1>2, <2>1, <2>8 DEF DeliverInv
  <2>15. \A v \in Worker : pc'[v] # "clear" /\ (pc'[v] = "event" => msg[v].kind = "Event")
    BY <1>d, <2>8, <2>9
  <2> QED BY <1>1, <2>3, <2>7, <2>12, <2>13, <2>14, <2>15 DEF DeliverInv
<1>7. CASE Clear(w)
  BY <1>7, <1>d DEF Clear
<1>8. CASE Dispatch(w)
  <2>1. pc[w] = "event" /\ pc' = [pc EXCEPT ![w] = "done"] /\ msg[w].kind = "Event"
    BY <1>8, <1>d DEF Dispatch
  <2>2. UNCHANGED <<pResp, resp_waitcount, resp, this, msg, inbox, sleeping, dropped>>
    BY <1>8, <2>1 DEF Dispatch
  <2> QED BY <1>p, <1>k, <2>1, <2>2 DEF Answering
<1>9. CASE Rearm(w)
  <2>1. /\ pc[w] = "done" /\ pc' = [pc EXCEPT ![w] = "idle"]
        /\ this' = [this EXCEPT ![w] = NULL] /\ msg' = [msg EXCEPT ![w] = NULL]
        /\ UNCHANGED <<pResp, resp_waitcount, resp, inbox, sleeping, dropped>>
    BY <1>9 DEF Rearm
  <2>2. \A v \in Worker \ {w} : this'[v] = this[v] /\ msg'[v] = msg[v] /\ pc'[v] = pc[v]
    BY <1>p, <2>1
  <2>3. pc'[w] = "idle"
    BY <1>p, <2>1
  <2> QED BY <1>k, <2>1, <2>2, <2>3 DEF Answering
<1> QED BY <1>3, <1>4, <1>5, <1>6, <1>7, <1>8, <1>9 DEF ami_event

(* What is lost stays lost, and what was late stays late.                   *)
Undisturbed == late = {} /\ Lost = {}

LEMMA DisturbedStays ==
  ASSUME AnswerInv, [Next]_vars, Undisturbed'
  PROVE  Undisturbed
<1>1. late \subseteq late'
  <2>1. CASE UNCHANGED late BY <2>1
  <2>2. ASSUME NEW w \in Worker, Expire(w) PROVE late \subseteq late'
    BY <2>2 DEF Expire
  <2> QED BY <2>1, <2>2 DEF Next, Asterisk, amiLogin, closesocket, ami_sync, ami_event, vars, pastVars,
          Start, Manage, Sync, Buffer, Lock, Send, Return, Continue, Finish, Reply
<1>2. Lost \subseteq Lost'
  <2>1. CASE UNCHANGED object BY <2>1 DEF Lost
  <2>2. CASE amiLogin \/ closesocket
    <3> SUFFICES ASSUME NEW c \in Conn, object[c] \in {"closing", "deleted"}
                 PROVE  object'[c] \in {"closing", "deleted"}
      BY DEF Lost
    <3> USE DEF AnswerInv, SocketInv, LoginOK, Condition
    <3>1. CASE LoginCheck BY <3>1 DEF LoginCheck, socketVars
    <3>2. CASE LoginNew BY <3>2 DEF LoginNew
    <3>3. CASE LoginConnect BY <3>3 DEF LoginConnect
    <3>4. CASE LoginTalk BY <3>4 DEF LoginTalk
    <3>5. CASE LoginAdd BY <3>5 DEF LoginAdd
    <3>6. CASE LoginDelete BY <3>6 DEF LoginDelete
    <3>7. CASE LoginReset BY <3>7 DEF LoginReset
    <3>8. CASE closesocket BY <3>8 DEF closesocket, dtmf2_disconnected, Delete
    <3> QED BY <2>2, <3>1, <3>2, <3>3, <3>4, <3>5, <3>6, <3>7, <3>8 DEF amiLogin
  <2> QED BY <2>1, <2>2 DEF Next, Asterisk, ami_sync, ami_event, vars, socketVars
<1> QED BY <1>1, <1>2 DEF Undisturbed

LEMMA NextDeliver ==
  ASSUME AnswerInv, FaultInv, Undisturbed => DeliverInv, [Next]_vars
  PROVE  (Undisturbed => DeliverInv)'
<1> SUFFICES ASSUME Undisturbed' PROVE DeliverInv'
  OBVIOUS
<1>1. Undisturbed /\ DeliverInv
  BY DisturbedStays
<1>2. late' = {} /\ late = {} /\ Lost = {}
  BY <1>1 DEF Undisturbed
<1> QED BY <1>1, <1>2, AsteriskDeliver, MainDeliver, SyncDeliver, HandlerDeliver DEF Next

(* While no wait ended without a signal and no connection was lost, no      *)
(* answer goes past the caller that waits for it (amiproc.cpp:113-136,      *)
(* 249-298): resp_waitcount, read and changed without the mutex that        *)
(* guards pResp, is exact as long as callers queue at mutexAMI.             *)
THEOREM AnswersDelivered == Spec => []AnswerIsDelivered
<1>1. (Undisturbed => DeliverInv) => AnswerIsDelivered
  BY DEF DeliverInv, AnswerIsDelivered, Undisturbed
<1> QED BY <1>1, InitAnswer, NextAnswer, InitFault, NextFault, InitDeliver, NextDeliver, PTL DEF Spec
----------------------------------------------------------------------------
(* A request is sent once                                                   *)

LEMMA InitOnce == Init => OnceInv
BY EmptySeq DEF Init, OnceInv

LEMMA KeepOnce ==
  ASSUME AnswerInv, OnceInv, [Next]_vars, UNCHANGED <<sent, verdict>>
  PROVE  OnceInv'
<1>1. \A r \in Request : Fresh(r)' => Fresh(r)
  BY FreshStep DEF AnswerInv
<1> QED BY <1>1 DEF OnceInv

LEMMA AnswerOnce ==
  ASSUME AnswerInv, OnceInv, [Next]_vars, NEW c \in Conn, Answer(c)
  PROVE  OnceInv' /\ verdict[Head(sent[c]).req] = NULL
<1>1. \A r \in Request : Fresh(r)' => Fresh(r)
  BY FreshStep DEF AnswerInv
<1>2. /\ sent \in [Conn -> Seq(ActionMessage)] /\ sent[c] \in Seq(ActionMessage) /\ sent[c] # <<>>
      /\ verdict \in [Request -> {"ok", "fail", NULL}]
  BY DEF AnswerInv, MessageInv, Answer
<1>3. /\ Head(sent[c]) = sent[c][1] /\ 1 \in DOMAIN sent[c] /\ Head(sent[c]) \in ActionMessage
      /\ \A i \in DOMAIN Tail(sent[c]) : i \in Nat /\ i + 1 # 1 /\ i + 1 \in DOMAIN sent[c]
                                         /\ Tail(sent[c])[i] = sent[c][i + 1]
  BY <1>2, TailOf
<1> PICK q \in Request : q = sent[c][1].req
  BY <1>3 DEF ActionMessage
<1>4. verdict[q] = NULL /\ ~Fresh(q)
  BY <1>3 DEF OnceInv
<1>5. \A r \in Request : r # q => verdict'[r] = verdict[r]
  BY <1>2, <1>3 DEF Answer
<1>6. \A d \in Conn : sent'[d] = (IF d = c THEN Tail(sent[c]) ELSE sent[d])
  BY <1>2 DEF Answer
<1>7. \A d \in Conn : \A i \in DOMAIN sent'[d] : \E k \in DOMAIN sent[d] :
        /\ sent'[d][i] = sent[d][k] /\ sent[d][k].req # q
        /\ k = (IF d = c THEN i + 1 ELSE i)
  <2> SUFFICES ASSUME NEW d \in Conn, NEW i \in DOMAIN sent'[d]
               PROVE  \E k \in DOMAIN sent[d] : /\ sent'[d][i] = sent[d][k] /\ sent[d][k].req # q
                                                /\ k = (IF d = c THEN i + 1 ELSE i)
    OBVIOUS
  <2>1. CASE d = c
    <3>1. i \in DOMAIN Tail(sent[c]) /\ sent'[d][i] = Tail(sent[c])[i]
      BY <1>6, <2>1
    <3>2. i + 1 \in DOMAIN sent[c] /\ i + 1 # 1 /\ sent'[d][i] = sent[c][i + 1]
      BY <1>3, <3>1
    <3>3. sent[c][i + 1].req # q
      BY <1>3, <3>2 DEF OnceInv
    <3> QED BY <2>1, <3>2, <3>3
  <2>2. CASE d # c
    BY <1>3, <1>6, <2>2 DEF OnceInv
  <2> QED BY <2>1, <2>2
<1>8. \A d \in Conn : \A i \in DOMAIN sent'[d] : \A r \in Request :
        sent'[d][i].req = r => verdict'[r] = NULL /\ ~Fresh(r)'
  BY <1>1, <1>5, <1>7 DEF OnceInv
<1>9. \A d, e \in Conn : \A i \in DOMAIN sent'[d] : \A k \in DOMAIN sent'[e] :
        sent'[d][i].req = sent'[e][k].req => d = e /\ i = k
  <2> SUFFICES ASSUME NEW d \in Conn, NEW e \in Conn, NEW i \in DOMAIN sent'[d], NEW k \in DOMAIN sent'[e],
                      sent'[d][i].req = sent'[e][k].req
               PROVE  d = e /\ i = k
    OBVIOUS
  <2>1. PICK j \in DOMAIN sent[d] : sent'[d][i] = sent[d][j] /\ j = (IF d = c THEN i + 1 ELSE i)
    BY <1>7
  <2>2. PICK l \in DOMAIN sent[e] : sent'[e][k] = sent[e][l] /\ l = (IF e = c THEN k + 1 ELSE k)
    BY <1>7
  <2>3. d = e /\ j = l
    BY <2>1, <2>2 DEF OnceInv
  <2>4. CASE d = c
    <3>1. i \in DOMAIN Tail(sent[c]) /\ k \in DOMAIN Tail(sent[c])
      BY <1>6, <2>3, <2>4
    <3>2. i \in Nat /\ k \in Nat
      BY <1>3, <3>1
    <3> QED BY <2>1, <2>2, <2>3, <2>4, <3>2
  <2>5. CASE d # c
    BY <2>1, <2>2, <2>3, <2>5
  <2> QED BY <2>3, <2>4, <2>5
<1>10. \A r \in Request : Fresh(r)' => verdict'[r] = NULL
  BY <1>1, <1>4, <1>5 DEF OnceInv
<1> QED BY <1>3, <1>4, <1>8, <1>9, <1>10 DEF OnceInv

LEMMA SendOnce ==
  ASSUME AnswerInv, OnceInv, [Next]_vars, NEW w \in Worker, Send(w), UNCHANGED verdict
  PROVE  OnceInv'
<1>1. \A r \in Request : Fresh(r)' => Fresh(r)
  BY FreshStep DEF AnswerInv
<1>2. CASE UNCHANGED sent
  BY <1>2, KeepOnce
<1>3. CASE ~UNCHANGED sent
  <2> PICK r \in Request : r = req[w]
    BY DEF Send, AnswerInv, RequestInv, Caller
  <2> DEFINE x == [kind |-> "Action", id |-> actionid'[this[w]], req |-> r]
             a == ami_socket
  <2>1. /\ pc[w] = "send" /\ pc' = [pc EXCEPT ![w] = "wait"] /\ UNCHANGED <<req, made>>
        /\ sent' = [sent EXCEPT ![a] = Append(@, x)]
        /\ ~Gone(a) /\ ~Gone(this[w]) /\ actionid' = [actionid EXCEPT ![this[w]] = @ + 1]
    BY <1>3 DEF Send, Goto
  <2>2. a \in Conn /\ this[w] \in Conn
    BY <2>1 DEF Gone, AnswerInv, SocketInv, Place
  <2>3. x \in ActionMessage
    BY <2>1, <2>2 DEF ActionMessage, AnswerInv, MessageInv
  <2>4. Fresh(r) /\ ~Fresh(r)'
    <3>1. Fresh(r)
      BY <2>1 DEF Fresh
    <3>2. \A v \in Worker : req[v] = r => v = w
      BY NoRequest DEF AnswerInv, RequestInv
    <3>3. r <= made /\ made \in Nat /\ pc'[w] = "wait"
      BY NoRequest, <2>1 DEF AnswerInv, RequestInv, SocketInv
    <3> QED BY <3>1, <3>2, <3>3, <2>1 DEF Fresh, Request
  <2> HIDE DEF x, a
  <2>5. /\ DOMAIN sent[a] = 1 .. Len(sent[a]) /\ Len(sent[a]) \in Nat
        /\ DOMAIN Append(sent[a], x) = 1 .. Len(sent[a]) + 1
        /\ \A i \in DOMAIN sent[a] : Append(sent[a], x)[i] = sent[a][i]
        /\ Append(sent[a], x)[Len(sent[a]) + 1] = x
    <3>1. sent[a] \in Seq(ActionMessage)
      BY <2>2 DEF AnswerInv, MessageInv
    <3> QED BY <2>3, <3>1, AppendOf
  <2>6. \A d \in Conn : sent'[d] = (IF d = a THEN Append(sent[a], x) ELSE sent[d])
    BY <2>1 DEF AnswerInv, MessageInv
  <2>7. \A d \in Conn : \A i \in DOMAIN sent'[d] :
          \/ i \in DOMAIN sent[d] /\ sent'[d][i] = sent[d][i] /\ sent[d][i].req # r
          \/ d = a /\ i = Len(sent[a]) + 1 /\ sent'[d][i].req = r
    <3> SUFFICES ASSUME NEW d \in Conn, NEW i \in DOMAIN sent'[d]
                 PROVE  \/ i \in DOMAIN sent[d] /\ sent'[d][i] = sent[d][i] /\ sent[d][i].req # r
                        \/ d = a /\ i = Len(sent[a]) + 1 /\ sent'[d][i].req = r
      OBVIOUS
    <3>1. CASE i \in DOMAIN sent[d]
      BY <2>4, <2>5, <2>6, <3>1 DEF OnceInv
    <3>2. CASE i \notin DOMAIN sent[d]
      <4>1. d = a /\ i = Len(sent[a]) + 1
        <5>1. CASE d # a
          BY <2>6, <3>2, <5>1
        <5>2. CASE d = a
          <6>1. i \in 1 .. Len(sent[a]) + 1 /\ i \notin 1 .. Len(sent[a])
            BY <2>5, <2>6, <3>2, <5>2
          <6> QED BY <2>5, <5>2, <6>1
        <5> QED BY <5>1, <5>2
      <4>2. sent'[d][i] = x
        BY <2>5, <2>6, <4>1
      <4> QED BY <4>1, <4>2 DEF x
    <3> QED BY <3>1, <3>2
  <2>8. \A d \in Conn : \A i \in DOMAIN sent'[d] : \A q \in Request :
          sent'[d][i].req = q => verdict[q] = NULL /\ ~Fresh(q)'
    BY <1>1, <2>4, <2>7 DEF OnceInv
  <2>9. \A d, e \in Conn : \A i \in DOMAIN sent'[d] : \A k \in DOMAIN sent'[e] :
          sent'[d][i].req = sent'[e][k].req => d = e /\ i = k
    BY <2>7 DEF OnceInv
  <2>10. \A q \in Request : Fresh(q)' => verdict[q] = NULL
    BY <1>1 DEF OnceInv
  <2> QED BY <2>8, <2>9, <2>10 DEF OnceInv
<1> QED BY <1>2, <1>3

LEMMA NextOnce ==
  ASSUME AnswerInv, OnceInv, [Next]_vars
  PROVE  OnceInv'
<1>1. CASE UNCHANGED <<sent, verdict>>
  BY <1>1, KeepOnce
<1>2. ASSUME NEW c \in Conn, Answer(c) PROVE OnceInv'
  BY <1>2, AnswerOnce
<1>3. ASSUME NEW w \in Worker, Send(w), UNCHANGED verdict PROVE OnceInv'
  BY <1>3, SendOnce
<1>4. CASE Asterisk
  BY <1>1, <1>2, <1>4 DEF Asterisk, Emit, HangUp
<1>5. CASE amiLogin \/ closesocket \/ UNCHANGED vars
  BY <1>1, <1>5 DEF amiLogin, closesocket, vars, netVars
<1>6. ASSUME NEW w \in Worker, ami_sync(w) PROVE OnceInv'
  BY <1>1, <1>3, <1>6 DEF ami_sync, Start, Manage, Sync, Buffer, Lock, Expire, Return, Continue,
     Finish, Reply
<1>7. ASSUME NEW w \in Worker, ami_event(w) PROVE OnceInv'
  BY <1>1, <1>7 DEF ami_event
<1> QED BY <1>4, <1>5, <1>6, <1>7 DEF Next
----------------------------------------------------------------------------
(* The ActionID tells whose answer it is                                    *)

LEMMA InitMatch == Init => MatchInv
BY EmptySeq DEF Init, MatchInv, Answering

(* ActionIDs only grow, and pResp is only set with a new one.               *)
LEMMA MatchesStays ==
  ASSUME AnswerInv, NEW c \in Conn, NEW id \in Nat, NEW r, Matches(c, id, r),
         \/ actionid'[c] = actionid[c] /\ pResp'[c] \in {pResp[c], NULL}
         \/ actionid'[c] = actionid[c] + 1
  PROVE  Matches(c, id, r)'
<1>1. actionid[c] \in Nat
  BY DEF AnswerInv, MessageInv
<1> QED BY <1>1 DEF Matches

(* The numbers of messages.                                                 *)
LEMMA Numbers ==
  ASSUME AnswerInv
  PROVE  /\ \A c \in Conn : \A i \in DOMAIN sent[c] : sent[c][i].id \in Nat
         /\ \A c \in Conn : \A i \in DOMAIN inbox[c] : inbox[c][i].id \in Nat
         /\ \A w \in Worker : Answering(w) => msg[w].id \in Nat
<1>1. \A c \in Conn : \A i \in DOMAIN sent[c] : sent[c][i].id \in Nat
  <2> SUFFICES ASSUME NEW c \in Conn, NEW i \in DOMAIN sent[c] PROVE sent[c][i].id \in Nat
    OBVIOUS
  <2>1. sent[c] \in Seq(ActionMessage)
    BY DEF AnswerInv, MessageInv
  <2>2. sent[c][i] \in ActionMessage
    BY <2>1, LenProperties
  <2> QED BY <2>2 DEF ActionMessage
<1>2. \A x : Fit(verdict, emitted, x) => x.id \in Nat
  BY DEF Fit, Judged, AnswerMessage, EventMessage
<1>3. \A c \in Conn : \A i \in DOMAIN inbox[c] : Fit(verdict, emitted, inbox[c][i])
  BY DEF AnswerInv, MessageInv
<1>4. \A w \in Worker : Answering(w) => Fit(verdict, emitted, msg[w])
  BY DEF AnswerInv, MessageInv, Answering, Handler
<1> QED BY <1>1, <1>2, <1>3, <1>4

(* A step that moves messages: each of them fitted where it was, or fits    *)
(* now.                                                                     *)
LEMMA MoveMatch ==
  ASSUME AnswerInv, MatchInv,
         \A c \in Conn : \/ actionid'[c] = actionid[c] /\ pResp'[c] \in {pResp[c], NULL}
                         \/ actionid'[c] = actionid[c] + 1,
         \A c \in Conn : \A i \in DOMAIN sent'[c] : \E id \in Nat : \E r :
           /\ id = sent'[c][i].id /\ r = sent'[c][i].req
           /\ Matches(c, id, r) \/ Matches(c, id, r)',
         \A c \in Conn : \A i \in DOMAIN inbox'[c] : inbox'[c][i].kind = "Response" =>
           \E id \in Nat : \E r :
             /\ id = inbox'[c][i].id /\ r = inbox'[c][i].req
             /\ Matches(c, id, r) \/ Matches(c, id, r)',
         \A w \in Worker : \A c \in Conn : Answering(w)' /\ this'[w] = c =>
           \E id \in Nat : \E r :
             /\ id = msg'[w].id /\ r = msg'[w].req
             /\ Matches(c, id, r) \/ Matches(c, id, r)'
  PROVE  MatchInv'
<1>1. \A c \in Conn : \A id \in Nat : \A r :
        Matches(c, id, r) \/ Matches(c, id, r)' => Matches(c, id, r)'
  BY MatchesStays
<1>2. \A c \in Conn : \A i \in DOMAIN sent'[c] : \E id, r :
        id = sent'[c][i].id /\ r = sent'[c][i].req /\ Matches(c, id, r)'
  BY <1>1
<1>3. \A c \in Conn : \A i \in DOMAIN inbox'[c] : inbox'[c][i].kind = "Response" =>
        \E id, r : id = inbox'[c][i].id /\ r = inbox'[c][i].req /\ Matches(c, id, r)'
  <2> TAKE c \in Conn
  <2> TAKE i \in DOMAIN inbox'[c]
  <2> HAVE inbox'[c][i].kind = "Response"
  <2> PICK id \in Nat : \E r :
         /\ id = inbox'[c][i].id /\ r = inbox'[c][i].req
         /\ Matches(c, id, r) \/ Matches(c, id, r)'
    OBVIOUS
  <2> PICK r :
         /\ id = inbox'[c][i].id /\ r = inbox'[c][i].req
         /\ Matches(c, id, r) \/ Matches(c, id, r)'
    OBVIOUS
  <2>1. Matches(c, id, r)'
    BY <1>1
  <2> QED BY <2>1
<1>4. \A w \in Worker : \A c \in Conn : Answering(w)' /\ this'[w] = c =>
        \E id, r : id = msg'[w].id /\ r = msg'[w].req /\ Matches(c, id, r)'
  <2> TAKE w \in Worker
  <2> TAKE c \in Conn
  <2> HAVE Answering(w)' /\ this'[w] = c
  <2> PICK id \in Nat : \E r :
         /\ id = msg'[w].id /\ r = msg'[w].req
         /\ Matches(c, id, r) \/ Matches(c, id, r)'
    OBVIOUS
  <2> PICK r :
         /\ id = msg'[w].id /\ r = msg'[w].req
         /\ Matches(c, id, r) \/ Matches(c, id, r)'
    OBVIOUS
  <2>1. Matches(c, id, r)'
    BY <1>1
  <2> QED BY <2>1
<1> QED BY <1>2, <1>3, <1>4 DEF MatchInv, Matches

(* What the invariant says of the messages where they are.                  *)
LEMMA MatchNow ==
  ASSUME AnswerInv, MatchInv
  PROVE  /\ \A c \in Conn : \A i \in DOMAIN sent[c] : \E id \in Nat : \E r :
              id = sent[c][i].id /\ r = sent[c][i].req /\ Matches(c, id, r)
         /\ \A c \in Conn : \A i \in DOMAIN inbox[c] : inbox[c][i].kind = "Response" =>
              \E id \in Nat : \E r : id = inbox[c][i].id /\ r = inbox[c][i].req /\ Matches(c, id, r)
         /\ \A v \in Worker : \A c \in Conn : Answering(v) /\ this[v] = c =>
              \E id \in Nat : \E r : id = msg[v].id /\ r = msg[v].req /\ Matches(c, id, r)
BY Numbers DEF MatchInv

(* A step that moves no message.                                            *)
LEMMA KeepMatch ==
  ASSUME AnswerInv, MatchInv, UNCHANGED <<sent, inbox>>,
         \A c \in Conn : \/ actionid'[c] = actionid[c] /\ pResp'[c] \in {pResp[c], NULL}
                         \/ actionid'[c] = actionid[c] + 1,
         \A v \in Worker : Answering(v)' => Answering(v) /\ msg'[v] = msg[v] /\ this'[v] = this[v]
  PROVE  MatchInv'
BY MatchNow, MoveMatch

LEMMA AsteriskMatch ==
  ASSUME AnswerInv, MatchInv, Asterisk
  PROVE  MatchInv'
<1>1. /\ UNCHANGED <<actionid, pResp, pc, msg, this>>
      /\ sent \in [Conn -> Seq(ActionMessage)] /\ inbox \in [Conn -> Seq(InMessage(emitted))]
  BY DEF Asterisk, manageVars, threadVars, AnswerInv, MessageInv
<1>2. \A v \in Worker : Answering(v)' => Answering(v)
  BY <1>1 DEF Answering
<1>3. CASE UNCHANGED <<sent, inbox>>
  BY <1>1, <1>2, <1>3, KeepMatch
<1>4. ASSUME NEW c \in Conn, NEW x \in AnswerMessage \union EventMessage(emitted'),
             inbox' = [inbox EXCEPT ![c] = Append(@, x)], emitted' \in Nat, emitted \in 0 .. emitted'
      PROVE  \A d \in Conn : \A i \in DOMAIN inbox'[d] :
               \/ i \in DOMAIN inbox[d] /\ inbox'[d][i] = inbox[d][i]
               \/ d = c /\ inbox'[d][i] = x
  <2>1. inbox[c] \in Seq(InMessage(emitted'))
    <3>1. InMessage(emitted) \subseteq InMessage(emitted')
      BY <1>4 DEF InMessage, EventMessage
    <3> QED BY <1>1, <3>1, SeqMonotonic
  <2>2. /\ DOMAIN inbox[c] = 1 .. Len(inbox[c]) /\ Len(inbox[c]) \in Nat
        /\ DOMAIN Append(inbox[c], x) = 1 .. Len(inbox[c]) + 1
        /\ \A i \in DOMAIN inbox[c] : Append(inbox[c], x)[i] = inbox[c][i]
        /\ Append(inbox[c], x)[Len(inbox[c]) + 1] = x
    BY <1>4, <2>1, AppendOf DEF InMessage
  <2>3. \A i \in 1 .. Len(inbox[c]) + 1 : i \in 1 .. Len(inbox[c]) \/ i = Len(inbox[c]) + 1
    BY <2>2
  <2>4. \A d \in Conn : inbox'[d] = (IF d = c THEN Append(inbox[c], x) ELSE inbox[d])
    BY <1>1, <1>4
  <2> QED BY <2>2, <2>3, <2>4
<1>5. ASSUME NEW c \in Conn, Answer(c) PROVE MatchInv'
  <2> DEFINE a == Head(sent[c])
             x == [a EXCEPT !.kind = "Response"]
  <2>1. /\ sent[c] \in Seq(ActionMessage) /\ sent[c] # <<>> /\ emitted' = emitted /\ emitted \in Nat
        /\ inbox' = [inbox EXCEPT ![c] = Append(@, x)] /\ sent' = [sent EXCEPT ![c] = Tail(@)]
    BY <1>1, <1>5, NoRequest DEF Answer, AnswerInv, MessageInv
  <2>2. /\ a = sent[c][1] /\ 1 \in DOMAIN sent[c] /\ a \in ActionMessage
        /\ \A i \in DOMAIN Tail(sent[c]) : i + 1 \in DOMAIN sent[c] /\ Tail(sent[c])[i] = sent[c][i + 1]
    BY <2>1, TailOf
  <2>3. x \in AnswerMessage /\ x.id = a.id /\ x.req = a.req
    BY <2>2 DEF ActionMessage, AnswerMessage
  <2>4. \E id \in Nat : \E r : id = x.id /\ r = x.req /\ Matches(c, id, r)
    BY <2>2, <2>3, MatchNow
  <2> HIDE DEF x, a
  <2>5. \A d \in Conn : \A i \in DOMAIN inbox'[d] :
          \/ i \in DOMAIN inbox[d] /\ inbox'[d][i] = inbox[d][i]
          \/ d = c /\ inbox'[d][i] = x
    BY <1>4, <2>1, <2>3
  <2>6. \A d \in Conn : \A i \in DOMAIN inbox'[d] : inbox'[d][i].kind = "Response" =>
          \E id \in Nat : \E r : id = inbox'[d][i].id /\ r = inbox'[d][i].req /\ Matches(d, id, r)
    BY <2>4, <2>5, MatchNow
  <2>7. \A d \in Conn : \A i \in DOMAIN sent'[d] : \E k \in DOMAIN sent[d] : sent'[d][i] = sent[d][k]
    <3>1. \A d \in Conn : sent'[d] = (IF d = c THEN Tail(sent[c]) ELSE sent[d])
      BY <1>1, <2>1
    <3> QED BY <2>2, <3>1
  <2>8. \A d \in Conn : \A i \in DOMAIN sent'[d] : \E id \in Nat : \E r :
          id = sent'[d][i].id /\ r = sent'[d][i].req /\ Matches(d, id, r)
    BY <2>7, MatchNow
  <2> QED BY <1>1, <1>2, <2>6, <2>8, MatchNow, MoveMatch
<1>6. ASSUME NEW c \in Conn, Emit(c) PROVE MatchInv'
  <2> DEFINE x == [kind |-> "Event", id |-> 0, req |-> emitted']
  <2>1. /\ emitted \in Nat /\ emitted' = emitted + 1 /\ UNCHANGED sent
        /\ inbox' = [inbox EXCEPT ![c] = Append(@, x)]
    BY <1>6, NoRequest DEF Emit, AnswerInv, MessageInv
  <2>2. x \in EventMessage(emitted') /\ x.kind # "Response"
    BY <2>1 DEF EventMessage
  <2> HIDE DEF x
  <2>3. \A d \in Conn : \A i \in DOMAIN inbox'[d] :
          \/ i \in DOMAIN inbox[d] /\ inbox'[d][i] = inbox[d][i]
          \/ d = c /\ inbox'[d][i] = x
    BY <1>4, <2>1, <2>2
  <2>4. \A d \in Conn : \A i \in DOMAIN inbox'[d] : inbox'[d][i].kind = "Response" =>
          \E id \in Nat : \E r : id = inbox'[d][i].id /\ r = inbox'[d][i].req /\ Matches(d, id, r)
    BY <2>2, <2>3, MatchNow
  <2> QED BY <1>1, <1>2, <2>1, <2>4, MatchNow, MoveMatch
<1> QED BY <1>3, <1>5, <1>6 DEF Asterisk, HangUp

LEMMA MainMatch ==
  ASSUME AnswerInv, MatchInv, amiLogin \/ closesocket \/ UNCHANGED vars
  PROVE  MatchInv'
<1>1. UNCHANGED <<sent, inbox, pResp, pc, msg, this>>
  BY DEF amiLogin, closesocket, vars, netVars, threadVars, manageVars
<1>2. actionid \in [Conn -> Nat]
  BY DEF AnswerInv, MessageInv
<1>3. UNCHANGED actionid \/ actionid' = [actionid EXCEPT ![ami_socket] = @ + 1]
  BY DEF amiLogin, LoginCheck, LoginNew, LoginConnect, LoginTalk, LoginAdd, LoginDelete, LoginReset,
     closesocket, vars, manageVars
<1>4. \A c \in Conn : actionid'[c] = actionid[c] \/ actionid'[c] = actionid[c] + 1
  BY <1>2, <1>3
<1>5. \A v \in Worker : Answering(v)' => Answering(v)
  BY <1>1 DEF Answering
<1> QED BY <1>1, <1>4, <1>5, KeepMatch
(* A caller writes to the connection whose mutexAMI it has.                 *)
OwnSocket ==
  \A w \in Worker : pc[w] = "send" /\ ~Gone(this[w]) /\ ~Gone(ami_socket) => this[w] = ami_socket

(* It does if a connection that was closed is deleted before the next login. *)
LEMMA SameConnection ==
  ASSUME QuickClose, AnswerInv
  PROVE  OwnSocket
<1> SUFFICES ASSUME NEW w \in Worker, ~Gone(this[w]), ~Gone(ami_socket)
             PROVE  this[w] = ami_socket
  BY DEF OwnSocket
<1>1. this[w] \in Conn /\ ami_socket # NULL /\ object[this[w]] # "deleted"
  BY DEF Gone, AnswerInv, SocketInv, Place
<1>2. object[this[w]] # "closing" /\ object[this[w]] # "none"
  BY <1>1, NullApart DEF AnswerInv, SocketInv, CallerPlaces
<1>3. object[this[w]] \in {"new", "user1", "client"}
  BY <1>1, <1>2 DEF AnswerInv, SocketInv, Condition
<1> QED BY <1>1, <1>3 DEF AnswerInv, SocketInv, OneShot

LEMMA SyncMatch ==
  ASSUME OwnSocket, AnswerInv, MatchInv, NEW w \in Worker, ami_sync(w)
  PROVE  MatchInv'
<1>p. /\ pc \in [Worker -> Label] /\ this \in [Worker -> Place]
      /\ pResp \in [Conn -> Request \union {NULL}] /\ actionid \in [Conn -> Nat]
      /\ sent \in [Conn -> Seq(ActionMessage)]
  BY DEF AnswerInv, SocketInv, PRespInv, MessageInv
<1>1. UNCHANGED <<inbox, msg>>
  BY DEF ami_sync
<1>2. /\ \A v \in Worker : v # w => pc'[v] = pc[v] /\ this'[v] = this[v]
      /\ pc'[w] \notin {"look", "count", "handle"}
  <2> USE <1>p DEF Goto, Label
  <2>1. CASE Start(w) BY <2>1 DEF Start
  <2>2. CASE Manage(w) BY <2>2 DEF Manage
  <2>3. CASE Sync(w) BY <2>3 DEF Sync
  <2>4. CASE Buffer(w) BY <2>4 DEF Buffer
  <2>5. CASE Lock(w) BY <2>5 DEF Lock
  <2>6. CASE Send(w) BY <2>6 DEF Send
  <2>7. CASE Expire(w) BY <2>7 DEF Expire
  <2>8. CASE Return(w) BY <2>8 DEF Return
  <2>9. CASE Continue(w) BY <2>9 DEF Continue
  <2>10. CASE Finish(w) BY <2>10 DEF Finish
  <2>11. CASE Reply(w) BY <2>11 DEF Reply
  <2> QED BY <2>1, <2>2, <2>3, <2>4, <2>5, <2>6, <2>7, <2>8, <2>9, <2>10, <2>11 DEF ami_sync
<1>3. \A v \in Worker : Answering(v)' => Answering(v) /\ this'[v] = this[v]
  BY <1>1, <1>2 DEF Answering
<1>4. CASE UNCHANGED <<pResp, actionid, sent>>
  BY <1>1, <1>3, <1>4, KeepMatch
<1>5. CASE Send(w) /\ ~UNCHANGED <<pResp, actionid, sent>>
  <2>1. pc[w] = "send" /\ ~Gone(this[w]) /\ ~Gone(ami_socket)
    BY <1>5 DEF Send
  <2> PICK c \in Conn : c = this[w] /\ c = ami_socket
    BY <1>p, <2>1 DEF OwnSocket, Gone, Place
  <2> PICK r \in Request : r = req[w]
    BY <1>5 DEF Send, AnswerInv, RequestInv, Caller
  <2> DEFINE x == [kind |-> "Action", id |-> actionid[c] + 1, req |-> r]
  <2>2. /\ pResp' = [pResp EXCEPT ![c] = r] /\ actionid' = [actionid EXCEPT ![c] = @ + 1]
        /\ sent' = sent \/ sent' = [sent EXCEPT ![c] = Append(@, x)]
    BY <1>p, <1>5 DEF Send
  <2>3. x \in ActionMessage /\ actionid'[c] = actionid[c] + 1 /\ pResp'[c] = r
    BY <1>p, <2>2 DEF ActionMessage
  <2>4. \E id \in Nat : \E q : id = x.id /\ q = x.req /\ Matches(c, id, q)'
    BY <1>p, <2>3 DEF Matches
  <2> HIDE DEF x
  <2>5. \A d \in Conn : \/ actionid'[d] = actionid[d] /\ pResp'[d] \in {pResp[d], NULL}
                        \/ actionid'[d] = actionid[d] + 1
    BY <1>p, <2>2
  <2>6. \A d \in Conn : \A i \in DOMAIN sent'[d] :
          \/ i \in DOMAIN sent[d] /\ sent'[d][i] = sent[d][i]
          \/ d = c /\ sent'[d][i] = x
    <3>1. CASE sent' = sent
      BY <3>1
    <3>2. CASE sent' = [sent EXCEPT ![c] = Append(@, x)]
      <4>1. /\ DOMAIN sent[c] = 1 .. Len(sent[c]) /\ Len(sent[c]) \in Nat
            /\ DOMAIN Append(sent[c], x) = 1 .. Len(sent[c]) + 1
            /\ \A i \in DOMAIN sent[c] : Append(sent[c], x)[i] = sent[c][i]
            /\ Append(sent[c], x)[Len(sent[c]) + 1] = x
        BY <1>p, <2>3, AppendOf
      <4>2. \A i \in 1 .. Len(sent[c]) + 1 : i \in 1 .. Len(sent[c]) \/ i = Len(sent[c]) + 1
        BY <4>1
      <4>3. \A d \in Conn : sent'[d] = (IF d = c THEN Append(sent[c], x) ELSE sent[d])
        BY <1>p, <3>2
      <4> QED BY <4>1, <4>2, <4>3
    <3> QED BY <2>2, <3>1, <3>2
  <2>7. \A d \in Conn : \A i \in DOMAIN sent'[d] : \E id \in Nat : \E q :
          id = sent'[d][i].id /\ q = sent'[d][i].req /\ (Matches(d, id, q) \/ Matches(d, id, q)')
    BY <2>4, <2>6, MatchNow
  <2> QED BY <1>1, <1>3, <2>5, <2>7, MatchNow, MoveMatch
<1> QED BY <1>4, <1>5 DEF ami_sync, Start, Manage, Sync, Buffer, Lock, Expire, Return, Continue,
     Finish, Reply, manageVars

LEMMA HandlerMatch ==
  ASSUME AnswerInv, MatchInv, NEW w \in Worker, ami_event(w)
  PROVE  MatchInv'
<1>p. /\ pc \in [Worker -> Label] /\ this \in [Worker -> Place] /\ armed \subseteq Conn
      /\ pResp \in [Conn -> Request \union {NULL}] /\ msg \in [Worker -> InMessage(emitted) \union {NULL}]
      /\ inbox \in [Conn -> Seq(InMessage(emitted))]
  BY DEF AnswerInv, SocketInv, PRespInv, MessageInv
<1>1. UNCHANGED <<sent, actionid>>
  BY DEF ami_event
<1>2. CASE Read(w)
  <2> PICK c \in Conn : /\ inbox[c] # <<>> /\ this' = [this EXCEPT ![w] = c]
                        /\ msg' = [msg EXCEPT ![w] = Head(inbox[c])]
                        /\ inbox' = [inbox EXCEPT ![c] = Tail(@)]
    BY <1>2, <1>p DEF Read
  <2>1. UNCHANGED pResp /\ pc' = [pc EXCEPT ![w] = "look"]
    BY <1>2 DEF Read, Goto
  <2>2. /\ Head(inbox[c]) = inbox[c][1] /\ 1 \in DOMAIN inbox[c]
        /\ \A i \in DOMAIN Tail(inbox[c]) : i + 1 \in DOMAIN inbox[c] /\ Tail(inbox[c])[i] = inbox[c][i + 1]
    BY <1>p, TailOf
  <2>3. \A d \in Conn : inbox'[d] = (IF d = c THEN Tail(inbox[c]) ELSE inbox[d])
    BY <1>p
  <2>4. \A d \in Conn : \A i \in DOMAIN inbox'[d] : \E k \in DOMAIN inbox[d] : inbox'[d][i] = inbox[d][k]
    BY <2>2, <2>3
  <2>5. \A d \in Conn : \A i \in DOMAIN inbox'[d] : inbox'[d][i].kind = "Response" =>
          \E id \in Nat : \E r : id = inbox'[d][i].id /\ r = inbox'[d][i].req /\ Matches(d, id, r)
    BY <2>4, MatchNow
  <2>6. msg'[w] = inbox[c][1] /\ this'[w] = c
    BY <1>p, <2>2
  <2>7. \A v \in Worker : v # w => /\ Answering(v)' <=> Answering(v)
                                   /\ msg'[v] = msg[v] /\ this'[v] = this[v]
    BY <1>p, <2>1 DEF Answering
  <2>8. \A v \in Worker : \A d \in Conn : Answering(v)' /\ this'[v] = d =>
          \E id \in Nat : \E r : id = msg'[v].id /\ r = msg'[v].req /\ Matches(d, id, r)
    <3> TAKE v \in Worker
    <3> TAKE d \in Conn
    <3> HAVE Answering(v)' /\ this'[v] = d
    <3>1. CASE v = w
      BY <2>2, <2>6, <3>1, MatchNow DEF Answering
    <3>2. CASE v # w
      BY <2>7, <3>2, MatchNow
    <3> QED BY <3>1, <3>2
  <2> QED BY <1>1, <2>1, <2>5, <2>8, MatchNow, MoveMatch
<1>3. CASE ~Read(w)
  <2>1. UNCHANGED inbox
    BY <1>3 DEF ami_event, Look, EventCount, Handle, Clear, Dispatch, Rearm
  <2>2. UNCHANGED pResp \/ pResp' = [pResp EXCEPT ![this[w]] = NULL]
    BY <1>3 DEF ami_event, Look, EventCount, Handle, Clear, Dispatch, Rearm
  <2>3. \A c \in Conn : pResp'[c] \in {pResp[c], NULL}
    BY <1>p, <2>2
  <2>4. /\ \A v \in Worker : v # w => pc'[v] = pc[v] /\ msg'[v] = msg[v] /\ this'[v] = this[v]
        /\ pc'[w] \in {"look", "count", "handle"} =>
             pc[w] \in {"look", "count", "handle"} /\ msg'[w] = msg[w] /\ this'[w] = this[w]
    <3> USE <1>p DEF Goto, Label
    <3>1. CASE Look(w) BY <3>1 DEF Look
    <3>2. CASE EventCount(w) BY <3>2 DEF EventCount
    <3>3. CASE Handle(w) BY <3>3 DEF Handle
    <3>4. CASE Clear(w) BY <3>4 DEF Clear
    <3>5. CASE Dispatch(w) BY <3>5 DEF Dispatch
    <3>6. CASE Rearm(w) BY <3>6 DEF Rearm
    <3> QED BY <1>3, <3>1, <3>2, <3>3, <3>4, <3>5, <3>6 DEF ami_event
  <2>5. \A v \in Worker : Answering(v)' => Answering(v) /\ msg'[v] = msg[v] /\ this'[v] = this[v]
    BY <2>4 DEF Answering
  <2> QED BY <1>1, <2>1, <2>3, <2>5, KeepMatch
<1> QED BY <1>2, <1>3

LEMMA NextMatch ==
  ASSUME OwnSocket, AnswerInv, MatchInv, [Next]_vars
  PROVE  MatchInv'
BY AsteriskMatch, MainMatch, SyncMatch, HandlerMatch DEF Next

----------------------------------------------------------------------------
(* Callers are told the truth                                               *)

LEMMA InitOutcome == Init => OutcomeInv
BY NoRequest DEF Init, OutcomeInv, Request

(* What is settled stays so while the result and its text stay, and nobody  *)
(* puts the request into pResp.                                             *)
LEMMA SettledStays ==
  ASSUME NEW v \in Worker, NEW r \in Request, Settled(v, r), pc'[v] = pc[v],
         v \in sleeping => v \in sleeping', r \in late => r \in late',
         resp'[r].result = resp[r].result, resp'[r].text = resp[r].text \/ \E c \in Conn : pResp[c] = r,
         verdict[r] # NULL => verdict'[r] = verdict[r],
         \A c \in Conn : pResp'[c] = r => pResp[c] = r
  PROVE  Settled(v, r)'
BY DEF Settled, Own

(* A step that writes no result.                                            *)
LEMMA KeepOutcome ==
  ASSUME OutcomeInv, UNCHANGED resp, sleeping \subseteq sleeping', late \subseteq late',
         \A r \in Request : verdict[r] # NULL => verdict'[r] = verdict[r],
         \A c \in Conn : pResp'[c] \in {pResp[c], NULL},
         \A v \in Worker : \/ req'[v] = req[v] /\ pc'[v] = pc[v]
                           \/ pc'[v] \notin {"wait", "answered", "reply"}
  PROVE  OutcomeInv'
<1> SUFFICES ASSUME NEW v \in Worker, NEW r \in Request, req'[v] = r PROVE Settled(v, r)'
  BY DEF OutcomeInv
<1>1. CASE pc'[v] \notin {"wait", "answered", "reply"}
  BY <1>1 DEF Settled
<1>2. CASE req'[v] = req[v] /\ pc'[v] = pc[v]
  <2>1. Settled(v, r)
    BY <1>2 DEF OutcomeInv
  <2> QED BY <1>2, <2>1, SettledStays, NoRequest
<1> QED BY <1>1, <1>2

LEMMA OutsideOutcome ==
  ASSUME AnswerInv, OnceInv, OutcomeInv, [Next]_vars, Asterisk \/ amiLogin \/ closesocket \/ UNCHANGED vars
  PROVE  OutcomeInv'
<1>1. UNCHANGED <<resp, sleeping, late, pResp, pc, req>>
  BY DEF Asterisk, amiLogin, closesocket, vars, manageVars, threadVars, pastVars
<1>2. \A r \in Request : verdict[r] # NULL => verdict'[r] = verdict[r]
  <2>1. ASSUME NEW c \in Conn, Answer(c) PROVE <1>2!:
    <3>1. verdict[Head(sent[c]).req] = NULL
      BY <2>1, AnswerOnce
    <3>2. \E y \in {"ok", "fail"} : verdict' = [verdict EXCEPT ![Head(sent[c]).req] = y]
      BY <2>1 DEF Answer
    <3> QED BY <3>1, <3>2 DEF AnswerInv, MessageInv
  <2>2. CASE UNCHANGED verdict
    BY <2>2
  <2> QED BY <2>1, <2>2 DEF Asterisk, Emit, HangUp, amiLogin, closesocket, vars, netVars
<1> QED BY <1>1, <1>2, KeepOutcome

(* Return keeps it because a wait that ended without a signal timed out.    *)
LEMMA SyncOutcome ==
  ASSUME ~SpuriousWake, AnswerInv, OutcomeInv, NEW w \in Worker, ami_sync(w)
  PROVE  OutcomeInv'
<1> USE NoRequest
<1>p. /\ pc \in [Worker -> Label] /\ req \in [Worker -> Request \union {NULL}]
      /\ resp \in [Request -> Response] /\ pResp \in [Conn -> Request \union {NULL}]
      /\ UNCHANGED verdict
      /\ \A v \in Worker : v # w /\ req[v] # NULL => req[v] # req[w]
  BY DEF AnswerInv, SocketInv, RequestInv, PRespInv, ami_sync
<1>1. Caller(w) => req[w] \in Request
  BY <1>p DEF AnswerInv, RequestInv
(* The others keep what they have when the step writes only into the        *)
(* response object of w.                                                    *)
<1>o. ASSUME \A v \in Worker : v # w => /\ req'[v] = req[v] /\ pc'[v] = pc[v]
                                        /\ v \in sleeping => v \in sleeping',
             late \subseteq late',
             \A r \in Request : r # req[w] => /\ resp'[r].result = resp[r].result
                                              /\ resp'[r].text = resp[r].text,
             \A c \in Conn : pResp'[c] # pResp[c] => pResp'[c] = req[w],
             \A r \in Request : req'[w] = r => Settled(w, r)'
      PROVE  OutcomeInv'
  <2> SUFFICES ASSUME NEW v \in Worker, NEW r \in Request, req'[v] = r PROVE Settled(v, r)'
    BY DEF OutcomeInv
  <2>1. CASE v = w
    BY <1>o, <2>1
  <2>2. CASE v # w
    <3>1. req[v] = r /\ r # req[w] /\ Settled(v, r)
      BY <1>o, <1>p, <2>2 DEF OutcomeInv
    <3> QED BY <1>o, <1>p, <2>2, <3>1, SettledStays
  <2> QED BY <2>1, <2>2
<1> USE DEF Goto, Label
<1>2. CASE UNCHANGED <<resp, sleeping, late, pResp>>
           /\ \A v \in Worker : \/ req'[v] = req[v] /\ pc'[v] = pc[v]
                                \/ pc'[v] \notin {"wait", "answered", "reply"}
  BY <1>2, <1>p, KeepOutcome
<1>3. CASE Start(w) BY <1>p, <1>2, <1>3 DEF Start, Begin, manageVars
<1>4. CASE Manage(w) BY <1>p, <1>2, <1>4 DEF Manage, manageVars
<1>5. CASE Buffer(w) BY <1>p, <1>2, <1>5 DEF Buffer, manageVars
<1>6. CASE Lock(w) BY <1>p, <1>2, <1>6 DEF Lock
<1>7. CASE Sync(w)
  <2>1. UNCHANGED <<req, pResp, sleeping, late>> /\ \A v \in Worker : v # w => pc'[v] = pc[v]
    BY <1>p, <1>7 DEF Sync, manageVars
  <2> PICK r \in Request : r = req[w]
    BY <1>1, <1>7 DEF Sync, Caller
  <2>2. CASE resp' = resp /\ (pc' = pc \/ pc' = [pc EXCEPT ![w] = "buffer"])
    BY <1>p, <1>2, <2>1, <2>2
  <2>3. CASE resp' = [resp EXCEPT ![r] = [resp[r] EXCEPT !.result = "unconnected"]]
    <3>1. /\ \A q \in Request : q # r => resp'[q] = resp[q]
          /\ resp'[r] = [resp[r] EXCEPT !.result = "unconnected"]
      BY <1>p, <2>3
    <3>2. resp'[r].result = "unconnected"
      BY <1>p, <3>1 DEF Response
    <3>3. pc'[w] # "wait"
      BY <1>p, <1>7 DEF Sync
    <3>4. Settled(w, r)'
      BY <3>2, <3>3 DEF Settled
    <3> QED BY <1>p, <1>o, <2>1, <3>1, <3>4
  <2> QED BY <1>7, <2>2, <2>3 DEF Sync
<1>8. CASE Send(w)
  <2> PICK r \in Request : r = req[w]
    BY <1>1, <1>8 DEF Send, Caller
  <2>1. CASE UNCHANGED <<resp, sleeping, pResp, pc>>
    BY <1>2, <1>8, <2>1 DEF Send
  <2>2. CASE ~UNCHANGED <<resp, sleeping, pResp, pc>>
    <3>1. /\ UNCHANGED <<req, late>> /\ sleeping' = sleeping \union {w}
          /\ pc' = [pc EXCEPT ![w] = "wait"] /\ pResp' = [pResp EXCEPT ![this[w]] = r]
          /\ resp' = [resp EXCEPT ![r] = [resp[r] EXCEPT !.mode = "request"]]
      BY <1>8, <2>2 DEF Send
    <3>2. \A q \in Request : q # r => resp'[q] = resp[q]
      BY <1>p, <3>1
    <3>3. Settled(w, r)'
      BY <1>p, <3>1 DEF Settled
    <3> QED BY <1>p, <1>o, <3>1, <3>2, <3>3
  <2> QED BY <2>1, <2>2
<1>9. CASE Expire(w)
  <2> PICK r \in Request : r = req[w]
    BY <1>1, <1>9 DEF Expire, Caller
  <2>1. /\ UNCHANGED <<req, pc, pResp, resp>> /\ sleeping' = sleeping \ {w} /\ late' = late \union {r}
        /\ pc[w] = "wait"
    BY <1>9 DEF Expire, manageVars
  <2>2. Settled(w, r)'
    BY <2>1 DEF Settled
  <2> QED BY <1>o, <2>1, <2>2
<1>10. CASE Return(w)
  <2> PICK r \in Request : r = req[w]
    BY <1>1, <1>10 DEF Return, Caller
  <2>1. CASE UNCHANGED <<resp, pc>>
    BY <1>2, <1>10, <2>1 DEF Return
  <2>2. CASE ~UNCHANGED <<resp, pc>>
    <3>1. /\ UNCHANGED <<req, late, sleeping, pResp>> /\ w \notin sleeping
          /\ pc' = [pc EXCEPT ![w] = "answered"] /\ pc[w] = "wait"
          /\ resp' = IF r \in late THEN [resp EXCEPT ![r] = [resp[r] EXCEPT !.result = "timeout"]] ELSE resp
      BY <1>10, <2>2 DEF Return
    <3>2. CASE r \in late
      <4>1. /\ \A q \in Request : q # r => resp'[q] = resp[q]
            /\ resp'[r] = [resp[r] EXCEPT !.result = "timeout"]
        BY <1>p, <3>1, <3>2
      <4>2. resp'[r].result = "timeout"
        BY <1>p, <4>1 DEF Response
      <4>3. Settled(w, r)'
        BY <1>p, <3>1, <4>2 DEF Settled
      <4> QED BY <1>p, <1>o, <3>1, <4>1, <4>3
    <3>3. CASE r \notin late
      <4>1. Own(r) \/ resp[r].result = "past"
        BY <3>1, <3>3 DEF OutcomeInv, Settled
      <4>2. Settled(w, r)'
        BY <1>p, <3>1, <3>3, <4>1 DEF Settled, Own
      <4> QED BY <1>p, <1>o, <3>1, <3>3, <4>2
    <3> QED BY <3>2, <3>3
  <2> QED BY <2>1, <2>2
<1>11. CASE Continue(w)
  <2> PICK r \in Request : r = req[w]
    BY <1>1, <1>11 DEF Continue, Caller
  <2>1. /\ UNCHANGED <<late, sleeping, pResp>> /\ pc' = [pc EXCEPT ![w] = "sync"]
        /\ \A v \in Worker : v # w => req'[v] = req[v]
        /\ resp' = [resp EXCEPT ![r] = [resp[r] EXCEPT !.freed = TRUE]]
    BY <1>p, <1>11 DEF Continue, Begin, Report, manageVars
  <2>2. \A q \in Request : q # r => resp'[q] = resp[q]
    BY <1>p, <2>1
  <2>3. \A q \in Request : Settled(w, q)'
    BY <1>p, <2>1 DEF Settled
  <2> QED BY <1>p, <1>o, <2>1, <2>2, <2>3
<1>12. CASE Finish(w)
  <2> PICK r \in Request : r = req[w]
    BY <1>1, <1>12 DEF Finish, Caller
  <2>1. /\ UNCHANGED <<req, late, sleeping, pResp, resp>> /\ pc' = [pc EXCEPT ![w] = "reply"]
        /\ pc[w] = "answered"
    BY <1>12 DEF Finish, manageVars
  <2>2. Settled(w, r)
    BY DEF OutcomeInv
  <2>3. Settled(w, r)'
    BY <1>p, <2>1, <2>2 DEF Settled, Own
  <2> QED BY <1>p, <1>o, <2>1, <2>3
<1>13. CASE Reply(w)
  <2> PICK r \in Request : r = req[w]
    BY <1>1, <1>13 DEF Reply, Caller
  <2>1. /\ UNCHANGED <<late, sleeping, pResp>> /\ pc' = [pc EXCEPT ![w] = "idle"]
        /\ req' = [req EXCEPT ![w] = NULL]
        /\ resp' = [resp EXCEPT ![r] = [resp[r] EXCEPT !.freed = TRUE]]
    BY <1>p, <1>13 DEF Reply, Report, manageVars
  <2>2. \A q \in Request : q # r => resp'[q] = resp[q]
    BY <1>p, <2>1
  <2>3. \A q \in Request : Settled(w, q)'
    BY <1>p, <2>1 DEF Settled
  <2> QED BY <1>p, <1>o, <2>1, <2>2, <2>3
<1> QED BY <1>3, <1>4, <1>5, <1>6, <1>7, <1>8, <1>9, <1>10, <1>11, <1>12, <1>13 DEF ami_sync
(* An answer ends the wait of the request it belongs to: an older one       *)
(* changes the text of pResp's object alone, the one with the connection's  *)
(* ActionID is the answer to pResp's request.                               *)
LEMMA HandlerOutcome ==
  ASSUME AnswerInv, MatchInv, OutcomeInv, NEW w \in Worker, ami_event(w)
  PROVE  OutcomeInv'
<1> USE NoRequest
<1>p. /\ pc \in [Worker -> Label] /\ req \in [Worker -> Request \union {NULL}]
      /\ resp \in [Request -> Response] /\ pResp \in [Conn -> Request \union {NULL}]
      /\ this \in [Worker -> Place] /\ sleeping \subseteq Worker
      /\ UNCHANGED <<verdict, req, late>>
  BY DEF AnswerInv, SocketInv, RequestInv, PRespInv, CallerInv, PlaceOK, Waiting, ami_event
<1> USE DEF Goto, Label
<1>2. CASE /\ UNCHANGED <<resp, sleeping>>
           /\ \A c \in Conn : pResp'[c] \in {pResp[c], NULL}
           /\ \A v \in Worker : pc'[v] = pc[v] \/ pc'[v] \notin {"wait", "answered", "reply"}
  BY <1>2, <1>p, KeepOutcome
<1>3. CASE Read(w) BY <1>p, <1>2, <1>3 DEF Read
<1>4. CASE Look(w) BY <1>p, <1>2, <1>4 DEF Look
<1>5. CASE EventCount(w) BY <1>p, <1>2, <1>5 DEF EventCount
<1>6. CASE Clear(w) BY <1>p, <1>2, <1>6 DEF Clear
<1>7. CASE Dispatch(w) BY <1>p, <1>2, <1>7 DEF Dispatch
<1>8. CASE Rearm(w) BY <1>p, <1>2, <1>8 DEF Rearm
<1>9. CASE Handle(w)
  <2>1. CASE UNCHANGED <<resp, sleeping, pResp, pc>>
    BY <1>2, <2>1
  <2>2. CASE ~UNCHANGED <<resp, sleeping, pResp, pc>>
    <3>1. pc[w] = "handle" /\ Handler(w)
      BY <1>9 DEF Handle, Handler
    <3> PICK c \in Conn : c = this[w]
      BY <3>1 DEF AnswerInv, SocketInv, OneShot, Client
    <3> PICK r \in Request : r = pResp[c]
      BY <3>1, <1>p DEF AnswerInv, PRespInv
    <3>2. Judged(verdict, msg[w])
      BY <3>1 DEF AnswerInv, MessageInv
    <3> PICK q \in Request : q = msg[w].req
      BY <3>2 DEF Judged, AnswerMessage
    <3>3. verdict[q] # NULL /\ msg[w].kind = "Response" /\ msg[w].id \in Nat
      BY <3>2 DEF Judged, AnswerMessage
    <3>4. Matches(c, msg[w].id, q)
      BY <3>1, <3>3 DEF MatchInv, Answering
    <3>5. actionid[c] \in Nat
      BY DEF AnswerInv, MessageInv
    <3>6. \A v \in Worker : pc'[v] = pc[v] \/ pc'[v] \notin {"wait", "answered", "reply"}
      BY <1>p, <1>9 DEF Handle
    <3>o. ASSUME NEW v \in Worker, NEW p \in Request, req[v] = p, Settled(v, p), p # r,
                 v \in sleeping => v \in sleeping', \A d \in Conn : pResp'[d] \in {pResp[d], NULL},
                 \A x \in Request : x # r => resp'[x] = resp[x]
          PROVE  Settled(v, p)'
      <4>1. CASE pc'[v] = pc[v]
        BY <1>p, <3>o, <4>1, SettledStays
      <4>2. CASE pc'[v] \notin {"wait", "answered", "reply"}
        BY <4>2 DEF Settled
      <4> QED BY <3>6, <4>1, <4>2
    <3>7. CASE Older(msg[w].id, c)
      <4>1. /\ resp' = [resp EXCEPT ![r] = [resp[r] EXCEPT !.text = q]] /\ UNCHANGED <<pResp, sleeping>>
        BY <1>9, <2>2, <3>7 DEF Handle
      <4>2. /\ \A x \in Request : x # r => resp'[x] = resp[x]
            /\ resp'[r].result = resp[r].result
        <5>1. resp'[r] = [resp[r] EXCEPT !.text = q] /\ resp[r] \in Response
          BY <1>p, <4>1
        <5> QED BY <1>p, <4>1, <5>1 DEF Response
      <4>3. \A v \in Worker : req[v] = r => Settled(v, r)'
        <5> SUFFICES ASSUME NEW v \in Worker, req[v] = r PROVE Settled(v, r)'
          OBVIOUS
        <5>1. Settled(v, r)
          BY DEF OutcomeInv
        <5>2. CASE pc'[v] = pc[v]
          BY <1>p, <4>1, <4>2, <5>1, <5>2, SettledStays
        <5>3. CASE pc'[v] \notin {"wait", "answered", "reply"}
          BY <5>3 DEF Settled
        <5> QED BY <3>6, <5>2, <5>3
      <4>4. \A v \in Worker : \A p \in Request : req[v] = p /\ p # r => Settled(v, p)'
        BY <3>o, <4>1, <4>2 DEF OutcomeInv
      <4>5. \A v \in Worker : \A p \in Request : req[v] = p => Settled(v, p)'
        BY <4>3, <4>4
      <4> QED BY <1>p, <4>5 DEF OutcomeInv
    <3>8. CASE ~Older(msg[w].id, c)
      <4>1. msg[w].id = actionid[c] /\ q = r
        BY <3>3, <3>4, <3>5, <3>8 DEF Older, Matches
      <4>2. ~Younger(msg[w].id, c)
        BY <3>5, <4>1 DEF Younger
      <4>3. /\ resp' = [resp EXCEPT ![r] = [resp[r] EXCEPT !.text = r, !.mode = "response",
                                                            !.result = verdict[r]]]
            /\ pResp' = [pResp EXCEPT ![c] = NULL] /\ sleeping' = sleeping \ Wake(c)
        <5>1. resp[r] \in Response
          BY <1>p
        <5>2. ~Gone(c) /\ ~resp[r].freed
          BY <1>9, <2>2 DEF Handle
        <5>3. /\ resp' = [resp EXCEPT ![r].text = q, ![r].mode = "response", ![r].result = verdict[q]]
              /\ pResp' = [pResp EXCEPT ![c] = NULL] /\ sleeping' = sleeping \ Wake(c)
          BY <1>9, <3>8, <4>2, <5>2 DEF Handle
        <5> QED BY <1>p, <4>1, <5>1, <5>3 DEF Response
      <4>4. \A d \in Conn : pResp'[d] = (IF d = c THEN NULL ELSE pResp[d])
        BY <1>p, <4>3
      <4>5. \A d \in Conn : pResp'[d] # r
        BY <4>4 DEF AnswerInv, PRespInv
      <4>6. /\ \A x \in Request : x # r => resp'[x] = resp[x]
            /\ resp'[r].result = verdict[r] /\ resp'[r].text = r
        <5>1. resp'[r] = [resp[r] EXCEPT !.text = r, !.mode = "response", !.result = verdict[r]]
              /\ resp[r] \in Response
          BY <1>p, <4>3
        <5> QED BY <1>p, <4>3, <5>1 DEF Response
      <4>7. Own(r)'
        BY <1>p, <3>3, <4>1, <4>5, <4>6 DEF Own
      <4>8. \A v \in Worker : req[v] = r => Settled(v, r)'
        BY <4>7 DEF Settled
      <4>9. \A v \in Worker : \A p \in Request : req[v] = p /\ p # r => Settled(v, p)'
        <5> SUFFICES ASSUME NEW v \in Worker, NEW p \in Request, req[v] = p, p # r PROVE Settled(v, p)'
          OBVIOUS
        <5>1. v \in sleeping => v \in sleeping'
          BY <4>3 DEF Wake, AnswerInv, PRespInv
        <5>2. \A d \in Conn : pResp'[d] \in {pResp[d], NULL}
          BY <4>4
        <5>3. Settled(v, p)
          BY DEF OutcomeInv
        <5> QED BY <3>o, <4>6, <5>1, <5>2, <5>3
      <4>10. \A v \in Worker : \A p \in Request : req[v] = p => Settled(v, p)'
        BY <4>8, <4>9
      <4> QED BY <1>p, <4>10 DEF OutcomeInv
    <3> QED BY <3>7, <3>8
  <2> QED BY <2>1, <2>2
<1> QED BY <1>3, <1>4, <1>5, <1>6, <1>7, <1>8, <1>9 DEF ami_event

LEMMA NextOutcome ==
  ASSUME ~SpuriousWake, AnswerInv, OnceInv, MatchInv, OutcomeInv, [Next]_vars
  PROVE  OutcomeInv'
BY OutsideOutcome, SyncOutcome, HandlerOutcome DEF Next

----------------------------------------------------------------------------
(* ami_sync keeps the promise of ActionService                              *)

(* Asterisk's answer is the judgement of a request that had none.           *)
LEMMA JudgeStep ==
  ASSUME AnswerInv, OnceInv, [Next]_vars, NEW c \in Conn, Answer(c), UNCHANGED told
  PROVE  Actions!Next
<1>1. sent[c] \in Seq(ActionMessage) /\ sent[c] # <<>>
  BY DEF AnswerInv, MessageInv, Answer
<1>2. Head(sent[c]) \in ActionMessage
  BY <1>1, TailOf
<1> PICK r \in Request : r = Head(sent[c]).req
  BY <1>2 DEF ActionMessage
<1>3. verdict[r] = NULL
  BY AnswerOnce
<1>4. \E v \in {"ok", "fail"} : verdict' = [verdict EXCEPT ![r] = v]
  BY DEF Answer
<1>5. Actions!Judge(r)
  BY <1>3, <1>4 DEF Actions!Judge
<1> QED BY <1>5 DEF Actions!Next

(* What a caller reads out of its response object is what it may be told.   *)
LEMMA TellStep ==
  ASSUME AnswerInv, OutcomeInv, NEW w \in Worker, pc[w] \in {"answered", "reply"}, Report(w),
         UNCHANGED verdict
  PROVE  Actions!Next
<1> PICK r \in Request : r = req[w]
  BY DEF AnswerInv, RequestInv, Caller
<1>1. told[r] = NULL /\ resp[r] \in Response
  BY NoRequest DEF AnswerInv, RequestInv
<1>2. told' = [told EXCEPT ![r] = Outcome(r)]
  BY DEF Report
<1>3. CASE resp[r].result \in {"ok", "fail"}
  <2>1. Own(r)
    BY <1>3 DEF OutcomeInv, Settled
  <2>2. verdict[r] # NULL /\ Outcome(r) = [result |-> verdict[r], text |-> r]
    BY <1>3, <2>1 DEF Own, Outcome
  <2>3. Actions!Tell(r)
    BY <1>1, <1>2, <2>2 DEF Actions!Tell
  <2> QED BY <2>3 DEF Actions!Next
<1>4. CASE resp[r].result \notin {"ok", "fail"}
  <2>1. \E t \in Request \union {NULL} : told' = [told EXCEPT ![r] = [result |-> "error", text |-> t]]
    <3>1. Outcome(r) = [result |-> "error", text |-> resp[r].text]
      BY <1>4 DEF Outcome
    <3>2. resp[r].text \in Request \union {NULL}
      BY <1>1 DEF Response
    <3> QED BY <1>2, <3>1, <3>2
  <2>2. Actions!Tell(r)
    BY <1>1, <2>1 DEF Actions!Tell
  <2> QED BY <2>2 DEF Actions!Next
<1> QED BY <1>3, <1>4

LEMMA ServiceStep ==
  ASSUME AnswerInv, OnceInv, OutcomeInv, [Next]_vars
  PROVE  [Actions!Next]_(Actions!vars)
<1>1. CASE UNCHANGED <<verdict, told>>
  BY <1>1 DEF Actions!vars
<1>2. CASE Asterisk
  <2>1. UNCHANGED told
    BY <1>2 DEF Asterisk, pastVars
  <2> QED BY <1>1, <1>2, <2>1, JudgeStep DEF Asterisk, Emit, HangUp
<1>3. CASE amiLogin \/ closesocket \/ UNCHANGED vars
  BY <1>1, <1>3 DEF amiLogin, closesocket, vars, netVars, pastVars
<1>4. ASSUME NEW w \in Worker, ami_sync(w) PROVE [Actions!Next]_(Actions!vars)
  <2>1. UNCHANGED verdict
    BY <1>4 DEF ami_sync
  <2>2. CASE Continue(w) \/ Reply(w)
    BY <2>1, <2>2, TellStep DEF Continue, Reply
  <2>3. CASE UNCHANGED told
    BY <1>1, <2>1, <2>3
  <2> QED BY <1>4, <2>2, <2>3 DEF ami_sync, Start, Manage, Sync, Buffer, Lock, Send, Expire, Return,
        Finish
<1>5. ASSUME NEW w \in Worker, ami_event(w) PROVE [Actions!Next]_(Actions!vars)
  BY <1>1, <1>5 DEF ami_event
<1> QED BY <1>2, <1>3, <1>4, <1>5 DEF Next

(* As long as no caller writes its action to a connection whose mutexAMI it *)
(* does not have (amiproc.cpp:135 reads ami_socket again), what callers     *)
(* of ami_sync are told is what ActionService promises, whatever else       *)
(* closesocket and the next login do at the same time, if                   *)
(* pthread_cond_timedwait (136) does not report success without a signal.   *)
THEOREM ActionsKeptOnOwn ==
  ASSUME ~SpuriousWake
  PROVE  Spec /\ []OwnSocket => ImplementsActions
<1>1. Init => Actions!Init
  BY DEF Init, Actions!Init
<1>2. OwnSocket /\ AnswerInv /\ OnceInv /\ MatchInv /\ OutcomeInv /\ [Next]_vars
        => AnswerInv' /\ OnceInv' /\ MatchInv' /\ OutcomeInv'
  BY NextAnswer, NextOnce, NextMatch, NextOutcome
<1>3. AnswerInv /\ OnceInv /\ OutcomeInv /\ [Next]_vars => [Actions!Next]_(Actions!vars)
  BY ServiceStep
<1> QED BY <1>1, <1>2, <1>3, InitAnswer, InitOnce, InitMatch, InitOutcome,
          PTL DEF Spec, ImplementsActions, Actions!Spec

(* However late answers come and whichever connections are lost, a caller   *)
(* that is told ok or fail is told Asterisk's decision about its own action *)
(* with the text of its own answer, and each request is told one outcome    *)
(* (amiproc.cpp:96-163, 249-291), as long as closesocket has deleted a      *)
(* connection before the next login begins, and no wait ends spuriously.    *)
THEOREM ActionsKept ==
  ASSUME QuickClose, ~SpuriousWake
  PROVE  Spec => ImplementsActions
<1>1. AnswerInv /\ [Next]_vars => AnswerInv'
  BY NextAnswer
<1>2. AnswerInv => OwnSocket
  BY SameConnection
<1> QED BY <1>1, <1>2, InitAnswer, ActionsKeptOnOwn, PTL DEF Spec
==============================================================================
