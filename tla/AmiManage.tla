------------------------------ MODULE AmiManage ------------------------------
(***************************************************************************)
(* The connection of src/amidtmf2 to the Asterisk manager interface: the    *)
(* main loop keeps one login job going while there is no connection, HTTP   *)
(* handlers on the workers of the socket server send actions and sleep in   *)
(* ami_sync, ami_event runs on a worker of the same pool for each message   *)
(* that arrives, and tst_main deletes a connection that Asterisk closed.    *)
(*                                                                          *)
(* A connection is one TST_SOCKET with the AMI_MANAGE in its user_data.     *)
(* mutexResp is only held inside a step.  A step that follows NULL or       *)
(* deleted memory sets fault, and nothing is claimed from there on.         *)
(***************************************************************************)
EXTENDS Integers, Sequences

CONSTANTS
  Worker,    \* the workers of the socket server
  MaxConn,   \* bound: connections to Asterisk
  MaxReq,    \* bound: calls of ami_sync
  MaxEvent,  \* bound: registered events that Asterisk emits
  QuickClose, \* closesocket ends before a login that begins after dtmf2_disconnected
  SpuriousWake, \* pthread_cond_timedwait may return without a signal and report success
  NULL

Conn == 1 .. MaxConn
Request == 1 .. MaxReq

ASSUME AmiAssumption ==
  /\ {MaxConn, MaxReq, MaxEvent} \subseteq Nat /\ {QuickClose, SpuriousWake} \subseteq BOOLEAN
  /\ NULL \notin Conn \union Request \union Worker /\ NULL \notin {"ok", "fail"}

VARIABLES
  ami_socket,      \* the global: a connection, or NULL
  object,          \* each TST_SOCKET: "none", "new" with user_data NULL, its type, "deleted"
  armed, hup,      \* epoll reports the connection; Asterisk has closed it
  pResp,           \* AMI_MANAGE: the response object of the sleeping caller, or NULL
  mutexAMI, resp_waitcount, actionid,
  resp,            \* the AMI_RESPONSE of each request: mode, result, text, freed
  made,            \* ami_sync calls begun so far
  pc, this, buf, req,  \* each worker: its step, AMI_MANAGE, send buffer, request
  msg,             \* the message ami_event read, or NULL
  sleeping,        \* the workers in pthread_cond_timedwait on condResp
  loginPc,         \* the step of the login job
  sent, inbox,     \* actions Asterisk has not answered; messages not read yet
  verdict,         \* what Asterisk decided for each request, or NULL
  emitted, jobs,   \* events emitted so far; events handed to AsyncThreadPool
  told,            \* what each caller was told, or NULL
  late, dropped,   \* requests whose wait ended without a signal; whose answer went astray
  fault            \* "none", "response", "caller", "event"

manageVars == <<pResp, mutexAMI, resp_waitcount, actionid>>
socketVars == <<ami_socket, object, armed>>
threadVars == <<this, buf, req, msg>>
netVars    == <<hup, sent, inbox, verdict, emitted>>
pastVars   == <<told, late, dropped>>
vars == <<manageVars, socketVars, loginPc, threadVars, netVars, pastVars, resp, made, pc,
          sleeping, jobs, fault>>

NewResponse == [mode |-> "none", result |-> "ok", text |-> NULL, freed |-> FALSE]

Init ==
  /\ ami_socket = NULL /\ object = [c \in Conn |-> "none"] /\ armed = {} /\ hup = {}
  /\ pResp = [c \in Conn |-> NULL] /\ mutexAMI = [c \in Conn |-> NULL]
  /\ resp_waitcount = [c \in Conn |-> 0] /\ actionid = [c \in Conn |-> 0]
  /\ resp = [r \in Request |-> NewResponse] /\ made = 0
  /\ pc = [w \in Worker |-> "idle"] /\ this = [w \in Worker |-> NULL]
  /\ buf = [w \in Worker |-> NULL] /\ req = [w \in Worker |-> NULL]
  /\ msg = [w \in Worker |-> NULL] /\ sleeping = {}
  /\ loginPc = "idle"
  /\ sent = [c \in Conn |-> <<>>] /\ inbox = [c \in Conn |-> <<>>]
  /\ verdict = [r \in Request |-> NULL] /\ emitted = 0 /\ jobs = <<>>
  /\ told = [r \in Request |-> NULL] /\ late = {} /\ dropped = {} /\ fault = "none"

Goto(w, label) == pc' = [pc EXCEPT ![w] = label]
Break(who) == fault' = who

----------------------------------------------------------------------------
(* Asterisk answers the actions of a connection in order, or never, emits   *)
(* events, and may close the connection.                                    *)

Answer(c) ==
  /\ sent[c] # <<>> /\ c \notin hup
  /\ LET a == Head(sent[c])
     IN /\ \E v \in {"ok", "fail"} : verdict' = [verdict EXCEPT ![a.req] = v]
        /\ inbox' = [inbox EXCEPT ![c] = Append(@, [a EXCEPT !.kind = "Response"])]
  /\ sent' = [sent EXCEPT ![c] = Tail(@)]
  /\ UNCHANGED <<hup, emitted>>
Emit(c) ==
  /\ object[c] = "client" /\ c \notin hup /\ emitted < MaxEvent
  /\ emitted' = emitted + 1
  /\ inbox' = [inbox EXCEPT ![c] = Append(@, [kind |-> "Event", id |-> 0, req |-> emitted'])]
  /\ UNCHANGED <<hup, sent, verdict>>
HangUp(c) ==
  /\ object[c] \in {"user1", "client"} /\ c \notin hup
  /\ hup' = hup \union {c}
  /\ UNCHANGED <<sent, inbox, verdict, emitted>>

Asterisk ==
  /\ \E c \in Conn : Answer(c) \/ Emit(c) \/ HangUp(c)
  /\ UNCHANGED <<manageVars, socketVars, loginPc, threadVars, pastVars, resp, made, pc, sleeping,
                 jobs, fault>>

----------------------------------------------------------------------------
(* main's loop and amiLogin; one login job at a time                        *)

LoginCheck ==
  /\ loginPc = "idle" /\ ami_socket = NULL
  /\ QuickClose => \A c \in Conn : object[c] # "closing"
  /\ loginPc' = "new"
  /\ UNCHANGED <<socketVars, actionid>>

(* ami_socket = new TST_SOCKET, before the connection is tried              *)
LoginNew ==
  /\ loginPc = "new"
  /\ \E c \in Conn :
       /\ object[c] = "none" /\ \A d \in 1 .. c - 1 : object[d] # "none"
       /\ ami_socket' = c /\ object' = [object EXCEPT ![c] = "new"]
  /\ loginPc' = "connect"
  /\ UNCHANGED <<armed, actionid>>

LoginConnect ==
  /\ loginPc = "connect"
  /\ \/ object' = [object EXCEPT ![ami_socket] = "user1"] /\ loginPc' = "talk"
     \/ loginPc' = "delete" /\ UNCHANGED object
  /\ UNCHANGED <<ami_socket, armed, actionid>>

(* The greeting and the Login action, whose ActionID is the first.          *)
LoginTalk ==
  /\ loginPc = "talk"
  /\ actionid' = [actionid EXCEPT ![ami_socket] = @ + 1]
  /\ \/ /\ ami_socket \notin hup
        /\ object' = [object EXCEPT ![ami_socket] = "client"] /\ loginPc' = "add"
     \/ UNCHANGED object /\ loginPc' = "delete"
  /\ UNCHANGED <<ami_socket, armed>>

(* addsocket and EPOLL_CTL_ADD                                              *)
LoginAdd ==
  /\ loginPc = "add"
  /\ armed' = armed \union {ami_socket}
  /\ loginPc' = "idle"
  /\ UNCHANGED <<ami_socket, object, actionid>>

(* delete ami_socket, and then ami_socket = NULL                            *)
LoginDelete ==
  /\ loginPc = "delete"
  /\ object' = [object EXCEPT ![ami_socket] = "deleted"]
  /\ loginPc' = "reset"
  /\ UNCHANGED <<ami_socket, armed, actionid>>
LoginReset ==
  /\ loginPc = "reset"
  /\ ami_socket' = NULL
  /\ loginPc' = "idle"
  /\ UNCHANGED <<object, armed, actionid>>

amiLogin ==
  /\ \/ LoginCheck \/ LoginNew \/ LoginConnect \/ LoginTalk
     \/ LoginAdd \/ LoginDelete \/ LoginReset
  /\ UNCHANGED <<pResp, mutexAMI, resp_waitcount, threadVars, netVars, pastVars, resp, made, pc,
                 sleeping, jobs, fault>>

----------------------------------------------------------------------------
(* tst_main deletes a connection that was closed: closesocket takes it out  *)
(* of m_connect, dtmf2_disconnected resets the global, the object goes.     *)

dtmf2_disconnected_Any(c) ==   \* faulty: also while ami_event uses the connection
  /\ object[c] = "client" /\ c \in hup /\ loginPc = "idle"
  /\ armed' = armed \ {c}
  /\ ami_socket' = IF ami_socket = c THEN NULL ELSE ami_socket
  /\ object' = [object EXCEPT ![c] = "closing"]
dtmf2_disconnected(c) ==
  /\ c \in armed \intersect hup
  /\ armed' = armed \ {c}
  /\ ami_socket' = IF ami_socket = c THEN NULL ELSE ami_socket
  /\ object' = [object EXCEPT ![c] = "closing"]
Delete(c) ==
  /\ object[c] = "closing"
  /\ object' = [object EXCEPT ![c] = "deleted"]
  /\ UNCHANGED <<ami_socket, armed>>

closesocket ==
  /\ \E c \in Conn : dtmf2_disconnected(c) \/ Delete(c)
  /\ UNCHANGED <<manageVars, loginPc, threadVars, netVars, pastVars, resp, made, pc, sleeping, jobs,
                 fault>>

----------------------------------------------------------------------------
(* amiSendDtmf and amiBlindTransfer: the check, `manage` from the global    *)
(* once more, and one ami_sync after the other                              *)

Gone(c) == c = NULL \/ object[c] = "deleted"

Begin(w) ==
  /\ made < MaxReq
  /\ made' = made + 1 /\ req' = [req EXCEPT ![w] = made']
Start(w) ==
  /\ pc[w] = "idle" /\ ami_socket # NULL
  /\ IF Gone(ami_socket) THEN Break("caller") /\ UNCHANGED <<made, req, pc>>
     ELSE object[ami_socket] = "client" /\ Begin(w) /\ Goto(w, "manage") /\ UNCHANGED fault
  /\ UNCHANGED <<manageVars, this, buf, sent, resp, told, late, sleeping>>
Manage(w) ==
  /\ pc[w] = "manage"
  /\ IF Gone(ami_socket) \/ object[ami_socket] = "new"
     THEN Break("caller") /\ UNCHANGED <<this, pc>>
     ELSE this' = [this EXCEPT ![w] = ami_socket] /\ Goto(w, "sync") /\ UNCHANGED fault
  /\ UNCHANGED <<manageVars, made, req, buf, sent, resp, told, late, sleeping>>

----------------------------------------------------------------------------
(* ami_sync                                                                 *)

Sync_Silent(w) ==   \* faulty: no result without a connection
  /\ pc[w] = "sync"
  /\ IF ami_socket # NULL /\ Gone(ami_socket) THEN Break("caller") /\ UNCHANGED <<resp, pc>>
     ELSE /\ IF ami_socket # NULL /\ object[ami_socket] = "client"
             THEN Goto(w, "buffer") /\ UNCHANGED resp
             ELSE Goto(w, "reply") /\ resp' = [resp EXCEPT ![req[w]].result = NULL]
          /\ UNCHANGED fault
  /\ UNCHANGED <<manageVars, this, made, req, buf, sent, told, late, sleeping>>
Sync(w) ==
  /\ pc[w] = "sync"
  /\ IF ami_socket # NULL /\ Gone(ami_socket) THEN Break("caller") /\ UNCHANGED <<resp, pc>>
     ELSE /\ IF ami_socket # NULL /\ object[ami_socket] = "client"
             THEN Goto(w, "buffer") /\ UNCHANGED resp
             ELSE Goto(w, "reply") /\ resp' = [resp EXCEPT ![req[w]].result = "unconnected"]
          /\ UNCHANGED fault
  /\ UNCHANGED <<manageVars, this, made, req, buf, sent, told, late, sleeping>>

(* sdata = *ami_socket->send                                                *)
Buffer(w) ==
  /\ pc[w] = "buffer"
  /\ IF Gone(ami_socket) THEN Break("caller") /\ UNCHANGED <<buf, pc>>
     ELSE buf' = [buf EXCEPT ![w] = ami_socket] /\ Goto(w, "lock") /\ UNCHANGED fault
  /\ UNCHANGED <<manageVars, this, made, req, sent, resp, told, late, sleeping>>

(* resp_waitcount is counted before mutexResp is taken: what an increment   *)
(* or decrement leaves while another thread has counted but not locked.     *)
Counted(c, w) == \E v \in Worker \ {w} : this[v] = c /\ pc[v] \in {"send", "handle"}
Count(c, w, d) ==
  LET n == resp_waitcount[c]
  IN \E m \in {n + d} \union (IF Counted(c, w) THEN {n, n + d - 1} ELSE {}) :
       resp_waitcount' = [resp_waitcount EXCEPT ![c] = m]

Lock(w) ==
  /\ pc[w] = "lock"
  /\ IF Gone(this[w]) THEN Break("caller") /\ UNCHANGED <<mutexAMI, resp_waitcount, pc>>
     ELSE /\ mutexAMI[this[w]] = NULL
          /\ mutexAMI' = [mutexAMI EXCEPT ![this[w]] = w]
          /\ Count(this[w], w, 1)
          /\ Goto(w, "send") /\ UNCHANGED fault
  /\ UNCHANGED <<pResp, actionid, this, made, req, buf, sent, resp, told, late, sleeping>>

(* Under mutexResp: the next ActionID, pResp, write to the connection that  *)
(* is the global one by now, and pthread_cond_timedwait.                    *)
Send(w) ==
  /\ pc[w] = "send"
  /\ LET c == this[w]
     IN IF Gone(c) \/ Gone(buf[w]) \/ Gone(ami_socket)
        THEN Break("caller") /\ UNCHANGED <<pResp, actionid, sent, resp, sleeping, pc>>
        ELSE /\ actionid' = [actionid EXCEPT ![c] = @ + 1]
             /\ resp' = [resp EXCEPT ![req[w]].mode = "request"]
             /\ pResp' = [pResp EXCEPT ![c] = req[w]]
             /\ sent' = IF object[ami_socket] = "new" \/ ami_socket \in hup THEN sent
                        ELSE [sent EXCEPT ![ami_socket] =
                               Append(@, [kind |-> "Action", id |-> actionid'[c], req |-> req[w]])]
             /\ sleeping' = sleeping \union {w}
             /\ Goto(w, "wait") /\ UNCHANGED fault
  /\ UNCHANGED <<mutexAMI, resp_waitcount, this, made, req, buf, told, late>>

(* The wait ends without a signal: the 5 seconds are over, or the thread    *)
(* wakes up spuriously.                                                     *)
Expire(w) ==
  /\ pc[w] = "wait" /\ w \in sleeping
  /\ sleeping' = sleeping \ {w}
  /\ late' = late \union {req[w]}
  /\ UNCHANGED <<manageVars, this, made, req, buf, sent, resp, told, pc, fault>>

(* With mutexResp again: the result of a wait that timed out, whatever came *)
(* in the meantime.  Success leaves the result as it is, "ok" if no answer  *)
(* came: no loop asks whether pResp was reset.  Then both unlocks.          *)
Return(w) ==
  /\ pc[w] = "wait" /\ w \notin sleeping
  /\ LET c == this[w]
     IN IF Gone(c) THEN Break("caller") /\ UNCHANGED <<mutexAMI, resp_waitcount, resp, pc>>
        ELSE /\ \/ req[w] \in late /\ resp' = [resp EXCEPT ![req[w]].result = "timeout"]
                \/ (req[w] \notin late \/ SpuriousWake) /\ UNCHANGED resp
             /\ Count(c, w, -1)
             /\ mutexAMI' = [mutexAMI EXCEPT ![c] = NULL]
             /\ Goto(w, "answered") /\ UNCHANGED fault
  /\ UNCHANGED <<pResp, actionid, this, made, req, buf, sent, told, late, sleeping>>

(* The action function looks at the result: another digit, with the same    *)
(* `manage`, or the end.                                                    *)
Outcome(r) ==
  [result |-> IF resp[r].result \in {"ok", "fail"} THEN resp[r].result ELSE "error",
   text |-> resp[r].text]
Report(w) ==
  /\ told' = [told EXCEPT ![req[w]] = Outcome(req[w])]
  /\ resp' = [resp EXCEPT ![req[w]].freed = TRUE]
Continue(w) ==
  /\ pc[w] = "answered" /\ resp[req[w]].result = "ok"
  /\ Report(w) /\ Begin(w)
  /\ Goto(w, "sync")
  /\ UNCHANGED <<manageVars, this, buf, sent, late, sleeping, fault>>
Finish(w) ==
  /\ pc[w] = "answered"
  /\ Goto(w, "reply")
  /\ UNCHANGED <<manageVars, this, made, req, buf, sent, resp, told, late, sleeping, fault>>

(* The HTTP handler reads the result and frees it.                          *)
Reply(w) ==
  /\ pc[w] = "reply"
  /\ Report(w)
  /\ Goto(w, "idle")
  /\ this' = [this EXCEPT ![w] = NULL] /\ buf' = [buf EXCEPT ![w] = NULL]
  /\ req' = [req EXCEPT ![w] = NULL]
  /\ UNCHANGED <<manageVars, made, sent, late, sleeping, fault>>

ami_sync(w) ==
  /\ \/ Start(w) \/ Manage(w) \/ Sync(w) \/ Buffer(w) \/ Lock(w) \/ Send(w) \/ Expire(w)
     \/ Return(w) \/ Continue(w) \/ Finish(w) \/ Reply(w)
  /\ UNCHANGED <<socketVars, loginPc, msg, hup, inbox, verdict, emitted, dropped, jobs>>

----------------------------------------------------------------------------
(* ami_event: one message, on the worker that tst_main gave the event to    *)

Read_Level(w) ==   \* faulty: the event is not one-shot
  /\ pc[w] = "idle"
  /\ \E c \in armed \ hup :
       /\ inbox[c] # <<>>
       /\ this' = [this EXCEPT ![w] = c]
       /\ msg' = [msg EXCEPT ![w] = Head(inbox[c])]
       /\ inbox' = [inbox EXCEPT ![c] = Tail(@)]
  /\ Goto(w, "look")
  /\ UNCHANGED <<armed, pResp, resp_waitcount, resp, sleeping, jobs, dropped, fault>>
Read(w) ==
  /\ pc[w] = "idle"
  /\ \E c \in armed \ hup :
       /\ inbox[c] # <<>>
       /\ armed' = armed \ {c}
       /\ this' = [this EXCEPT ![w] = c]
       /\ msg' = [msg EXCEPT ![w] = Head(inbox[c])]
       /\ inbox' = [inbox EXCEPT ![c] = Tail(@)]
  /\ Goto(w, "look")
  /\ UNCHANGED <<pResp, resp_waitcount, resp, sleeping, jobs, dropped, fault>>

(* pResp, resp_waitcount and mode are read without the mutex; the mode of a *)
(* freed object is anything.                                                *)
Look(w) ==
  /\ pc[w] = "look"
  /\ LET c == this[w]  r == pResp[c]
     IN IF Gone(c) THEN Break("event") /\ UNCHANGED pc
        ELSE /\ \/ /\ msg[w].kind = "Response" /\ r # NULL /\ resp_waitcount[c] # 0
                   /\ resp[r].mode = "request" \/ resp[r].freed
                   /\ Goto(w, "count")
                \/ /\ msg[w].kind = "Response" /\ r # NULL
                   /\ resp_waitcount[c] = 0 \/ resp[r].mode # "request" \/ resp[r].freed
                   /\ Goto(w, "clear")
                \/ /\ msg[w].kind = "Event" \/ r = NULL
                   /\ Goto(w, "event")
             /\ UNCHANGED fault
  /\ UNCHANGED <<pResp, resp_waitcount, resp, armed, this, msg, inbox, sleeping, jobs, dropped>>
EventCount(w) ==
  /\ pc[w] = "count"
  /\ IF Gone(this[w]) THEN Break("event") /\ UNCHANGED <<resp_waitcount, pc>>
     ELSE Count(this[w], w, 1) /\ Goto(w, "handle") /\ UNCHANGED fault
  /\ UNCHANGED <<pResp, resp, armed, this, msg, inbox, sleeping, jobs, dropped>>

(* Under mutexResp the text is copied to the object that pResp points to by *)
(* now, and the ActionIDs are compared: an older one is passed over.        *)
Older_Equal(id, c) == id <= actionid[c]   \* faulty: off by one
Older_Never(id, c) == FALSE               \* faulty: every answer is taken
Older(id, c) == id < actionid[c]
Younger(id, c) == id > actionid[c]
Wake(c) == {v \in sleeping : this[v] = c}
Handle(w) ==
  /\ pc[w] = "handle"
  /\ LET c == this[w]
         r == pResp[c]
         id == msg[w].id
     IN IF Gone(c) THEN Break("event") /\ UNCHANGED <<pResp, resp_waitcount, resp, sleeping, pc>>
        ELSE IF resp[r].freed
        THEN Break("response") /\ UNCHANGED <<pResp, resp_waitcount, resp, sleeping, pc>>
        ELSE /\ Count(c, w, -1)
             /\ IF Older(id, c)
                THEN /\ resp' = [resp EXCEPT ![r].text = msg[w].req]
                     /\ Goto(w, "event") /\ UNCHANGED <<pResp, sleeping>>
                ELSE /\ resp' = [resp EXCEPT ![r].text = msg[w].req, ![r].mode = "response",
                                 ![r].result = IF Younger(id, c) THEN "past"
                                               ELSE verdict[msg[w].req]]
                     /\ pResp' = [pResp EXCEPT ![c] = NULL]
                     /\ sleeping' = sleeping \ Wake(c)
                     /\ Goto(w, "done")
             /\ UNCHANGED fault
  /\ UNCHANGED <<armed, this, msg, inbox, jobs, dropped>>

Clear(w) ==
  /\ pc[w] = "clear"
  /\ IF Gone(this[w]) THEN Break("event") /\ UNCHANGED <<pResp, pc>>
     ELSE pResp' = [pResp EXCEPT ![this[w]] = NULL] /\ Goto(w, "event") /\ UNCHANGED fault
  /\ UNCHANGED <<resp_waitcount, resp, armed, this, msg, inbox, sleeping, jobs, dropped>>

(* A registered event becomes a job; a response that got here is lost.      *)
Dispatch(w) ==
  /\ pc[w] = "event"
  /\ IF msg[w].kind = "Event" THEN jobs' = Append(jobs, msg[w].req) /\ UNCHANGED dropped
     ELSE dropped' = dropped \union {msg[w].req} /\ UNCHANGED jobs
  /\ Goto(w, "done")
  /\ UNCHANGED <<pResp, resp_waitcount, resp, armed, this, msg, inbox, sleeping, fault>>

(* The worker re-arms the descriptor.                                       *)
Rearm(w) ==
  /\ pc[w] = "done"
  /\ armed' = armed \union {this[w]}
  /\ this' = [this EXCEPT ![w] = NULL] /\ msg' = [msg EXCEPT ![w] = NULL]
  /\ Goto(w, "idle")
  /\ UNCHANGED <<pResp, resp_waitcount, resp, inbox, sleeping, jobs, dropped, fault>>

ami_event(w) ==
  /\ \/ Read(w) \/ Look(w) \/ EventCount(w) \/ Handle(w) \/ Clear(w) \/ Dispatch(w) \/ Rearm(w)
  /\ UNCHANGED <<ami_socket, object, loginPc, mutexAMI, actionid, made, buf, req, hup, sent,
                 verdict, emitted, told, late>>

----------------------------------------------------------------------------
Next == /\ fault = "none"
        /\ \/ Asterisk \/ amiLogin \/ closesocket
           \/ \E w \in Worker : ami_sync(w) \/ ami_event(w)

Spec == Init /\ [][Next]_vars
=============================================================================
