--------------------------- MODULE AmiManageProps ---------------------------
(* What callers, ami_event and tst_main promise each other.                 *)
EXTENDS AmiManage

Message == [kind : {"Action", "Response", "Event"}, id : Nat, req : Nat]

(* Every variable keeps its type.                                           *)
TypeOK ==
  /\ ami_socket \in Conn \union {NULL}
  /\ object \in [Conn -> {"none", "new", "user1", "client", "closing", "deleted"}]
  /\ armed \subseteq Conn /\ hup \subseteq Conn
  /\ pResp \in [Conn -> Request \union {NULL}] /\ mutexAMI \in [Conn -> Worker \union {NULL}]
  /\ resp_waitcount \in [Conn -> Int] /\ actionid \in [Conn -> Nat]
  /\ resp \in [Request -> [mode : {"none", "request", "response"},
                           result : {"ok", "fail", "past", "timeout", "unconnected"},
                           text : Request \union {NULL}, freed : BOOLEAN]]
  /\ made \in 0 .. MaxReq
  /\ pc \in [Worker -> {"idle", "manage", "sync", "buffer", "lock", "send", "wait", "answered",
                        "reply", "look", "count", "handle", "clear", "event", "done"}]
  /\ this \in [Worker -> Conn \union {NULL}] /\ buf \in [Worker -> Conn \union {NULL}]
  /\ req \in [Worker -> Request \union {NULL}] /\ msg \in [Worker -> Message \union {NULL}]
  /\ sleeping \subseteq Worker
  /\ loginPc \in {"idle", "new", "connect", "talk", "add", "delete", "reset"}
  /\ sent \in [Conn -> Seq(Message)] /\ inbox \in [Conn -> Seq(Message)]
  /\ verdict \in [Request -> {"ok", "fail", NULL}]
  /\ emitted \in 0 .. MaxEvent /\ jobs \in Seq(1 .. MaxEvent)
  /\ late \subseteq Request /\ dropped \subseteq Request
  /\ fault \in {"none", "response", "caller", "event"}

(* ami_sync "synchronises an action with its result" (amiproc.cpp:12): what *)
(* a caller is told as success or failure is Asterisk's decision about its  *)
(* own action, with its own text, whichever answers come late.  It needs    *)
(* waits that do not end spuriously (SpuriousWake = FALSE): ami_sync takes  *)
(* any return of pthread_cond_timedwait without an error for an answer, and *)
(* the result it then returns is "ok" (amiproc.cpp:136, amiproc.h:40).      *)
Actions == INSTANCE ActionService WITH Request <- Request, NULL <- NULL
ImplementsActions == Actions!Spec

Lost == {c \in Conn : object[c] \in {"closing", "deleted"}}

(* ami_event writes into a response object that was freed only after some   *)
(* wait ended without a signal, by its time limit or spuriously; a caller   *)
(* finds NULL or freed memory only after the connection, or an attempt to   *)
(* log in again, was lost; ami_event itself never does, since one-shot      *)
(* events keep tst_main from deleting.                                      *)
FaultHasCause ==
  /\ fault = "response" => late # {}
  /\ fault = "caller" => Lost # {}
  /\ fault # "event"

(* While no wait has ended without a signal and no connection was lost, no  *)
(* answer goes past the caller that waits for it (amiproc.cpp:133, 218,     *)
(* 230).                                                                    *)
AnswerIsDelivered == dropped # {} => late # {} \/ Lost # {}

(* Registered events become jobs in the order in which Asterisk emitted     *)
(* them, none twice, although every event runs on another worker.           *)
EventsInOrder == \A i, j \in DOMAIN jobs : i < j => jobs[i] < jobs[j]

(* Two callers never sleep on one AMI_MANAGE: "needed only to notice if, by *)
(* a programming error, there are two" (amiproc.h:48).                      *)
OneSleeper == \A v, w \in sleeping : this[v] = this[w] => v = w
=============================================================================
