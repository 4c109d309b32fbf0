---------------------------- MODULE TstPoolProps ----------------------------
(* What tst_main and tst_work promise each other about a connection.        *)
EXTENDS TstPool

Link == [sd : Sd \union {NULL}, conn : Conn \union {NULL}]

(* Every variable keeps its type; the states are those tst.h lists.         *)
TypeOK ==
  /\ m_main_run \in BOOLEAN /\ m_work_run \in BOOLEAN /\ m_endwaittime \in {0, 1}
  /\ m_connect \in [Sd -> Conn \union {NULL}] /\ deleted \subseteq Conn
  /\ interest \in [Sd \union {ListenSd} -> {"none", "off", "in", "inout"}]
  /\ open \subseteq Sd /\ input \subseteq Sd /\ hup \subseteq Sd
  /\ made \in 0 .. MaxConn /\ backlog \in 0 .. made
  /\ m_events \subseteq (Sd \union {ListenSd}) \X {"in", "out", "hup"}
  /\ event \in ((Sd \union {ListenSd}) \X {"in", "out", "hup"}) \union {NULL}
  /\ given \in Link /\ target \in Worker \union {NULL}
  /\ mainPc \in {"loop", "accept", "add", "connected", "relisten", "erase", "close", "delete",
                 "find", "scan", "mark", "give", "tell", "wait", "kill", "done"}
  /\ thread_stat \in [Worker -> TST_STAT] /\ tst_socket \in [Worker -> Link]
  /\ mutex \in [Worker -> Worker \union {"tst_main", NULL}] /\ waiting \subseteq Worker
  /\ workPc \in [Worker -> {"loop", "lock", "wait", "look", "else", "idle", "reset", "take", "job",
                            "erase", "close", "delete", "rearm", "settle", "clear", "last", "gone"}]
  /\ used \in [Worker -> Link] /\ next \in [Worker -> Result]
  /\ told \subseteq Worker /\ szThreadStatus \subseteq Worker /\ cancelled \subseteq Worker
  /\ destroyPc \in {"uncalled", "join", "returned"} /\ crashed \in BOOLEAN

(* The worker still needs its connection's descriptor, or its object.       *)
UsesSd(w) == \/ workPc[w] \in {"job", "erase", "close"}
             \/ workPc[w] = "rearm" /\ next[w] # tst_disconnect
UsesObject(w) == UsesSd(w) \/ workPc[w] = "delete"

PendingSd == {e[1] : e \in m_events} \union
             (IF event # NULL /\ mainPc \in {"loop", "find", "erase", "scan", "mark", "give"}
              THEN {event[1]} ELSE {})

(* "No event occurs for a socket that is being used" (tst.cpp:368): until   *)
(* the worker re-arms it the descriptor is disarmed, no fetched event names *)
(* it, and no other worker has it.                                          *)
QuietWhileUsed ==
  \A w \in Worker : (~crashed /\ UsesSd(w)) =>
    /\ interest[used[w].sd] \notin {"in", "inout"}
    /\ used[w].sd \notin PendingSd
    /\ \A v \in Worker \ {w} : UsesSd(v) => used[v].sd # used[w].sd

(* "A registered socket is not deleted while it is used" (tst.cpp:367):     *)
(* what a worker uses, tst_main hands over, or a worker has been handed and *)
(* has not taken, is not deleted, neither by tst_main nor by destroy.       *)
AliveWhileUsed ==
  /\ \A w \in Worker : UsesObject(w) => used[w].conn \notin deleted
  /\ mainPc \in {"scan", "mark", "give"} => given.conn \notin deleted
  /\ \A w \in Worker : (thread_stat[w] = tst_run /\ workPc[w] \in {"wait", "look", "take"})
                        => tst_socket[w].conn \notin deleted

(* A descriptor that is free for accept has no entry left in m_connect      *)
(* (tst.cpp:264-268 would close the new connection), an entry's object      *)
(* exists, and an event only names a descriptor with an entry (371).        *)
MapMatchesDescriptors ==
  /\ \A s \in Sd : m_connect[s] # NULL => s \in open /\ m_connect[s] \notin deleted
  /\ \A s \in PendingSd \ {ListenSd} : mainPc # "done" => m_connect[s] # NULL

(* Threads in accept and closesocket, with an object that is in no table.   *)
OffMain == mainPc \in {"add", "close", "delete"}
Off(w) == workPc[w] \in {"close", "delete"}

(* Every accepted connection is deleted once it has left m_connect and no   *)
(* thread is closing it (tst.cpp:264, 899-952).                             *)
NoLeak ==
  \A c \in 1 .. made - backlog :
    \/ c \in deleted
    \/ \E s \in Sd : m_connect[s] = c
    \/ OffMain /\ given.conn = c
    \/ \E w \in Worker : Off(w) /\ used[w].conn = c

(* The main thread writes a worker's socket and its state in one critical   *)
(* section, "without the lock it clashes" (tst.cpp:667): a worker that was  *)
(* told to run finds its socket.                                            *)
RunHasSocket == \A w \in Worker : workPc[w] = "job" => used[w] # None

(* "All idle threads are looked at, given a job and woken" (tst.cpp:387):   *)
(* while the server runs, a descriptor whose event was taken is still an    *)
(* event, with tst_main, or with a worker that has taken it or will.        *)
EventReachesWorker ==
  \A s \in Sd : (interest[s] = "off" /\ m_main_run /\ ~crashed) =>
    \/ s \in PendingSd \/ given.sd = s
    \/ \E w \in Worker : used[w].sd = s \/ (tst_socket[w].sd = s /\ thread_stat[w] = tst_run)

(* Once m_main_run is cleared, by a signal or by destroy, tst_main ends and  *)
(* a destroy that waits for it returns (tst.cpp:408-486, 814).              *)
StopsEventually ==
  ~m_main_run ~> (crashed \/ (mainPc = "done" /\ destroyPc # "join"))
=============================================================================
