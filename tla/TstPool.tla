------------------------------- MODULE TstPool -------------------------------
(***************************************************************************)
(* The socket server of src/tst as a listening server: tst_main fetches     *)
(* one-shot epoll events, accepts and closes connections and hands every    *)
(* other event to a suspended worker; a worker calls the user function,     *)
(* then re-arms or closes the connection.                                   *)
(*                                                                          *)
(* A connection is one TST_SOCKET object; its descriptor is free for the    *)
(* next accept once it was closed.  m_mutexConnect is only held inside a    *)
(* step.                                                                    *)
(***************************************************************************)
EXTENDS Naturals, FiniteSets

CONSTANTS
  Worker,          \* the entries of m_workers
  Sd,              \* the descriptors accept may return
  MaxConn,         \* bound: connections that clients make
  FuncResult,      \* what the user function may return
  ConnectedResult, \* what m_fconnected may return
  StaleSd,         \* what sd of a deleted TST_SOCKET may be read as
  AcceptCanFail,   \* TRUE: accept may fail
  EndWaitExpires,  \* FALSE: destroy's wait_time is longer than the time since boot
  NULL

ListenSd == 0      \* m_sockmain
Conn == 1 .. MaxConn

tst_suspend == 0
tst_run     == 1
tst_send    == 2
tst_disconnect == 4
tst_exit    == 9
tst_exited  == 10
TST_STAT == {tst_suspend, tst_run, tst_exit, tst_exited}
Result   == {tst_suspend, tst_send, tst_disconnect}

ASSUME ServerAssumption ==
  /\ Worker # {} /\ IsFiniteSet(Worker) /\ IsFiniteSet(Sd) /\ MaxConn \in Nat
  /\ ListenSd \notin Sd /\ "tst_main" \notin Worker
  /\ NULL \notin Conn \union {ListenSd} /\ NULL \notin Worker \union Sd \union {"tst_main"}
  /\ StaleSd \subseteq Sd \union {NULL}
  /\ FuncResult \subseteq Result /\ ConnectedResult \subseteq Result
  /\ {AcceptCanFail, EndWaitExpires} \subseteq BOOLEAN

VARIABLES
  m_main_run, m_work_run,
  m_endwaittime,   \* 0 until destroy sets it to its wait_time, here 1
  m_connect,       \* the connection registered for each descriptor, or NULL
  deleted,         \* the TST_SOCKET objects that were deleted
  interest,        \* epoll: "none" unregistered, "off" its event was taken, "in", "inout"
  open,            \* the open descriptors
  input, hup,      \* the descriptors with unread bytes; those whose client is gone
  backlog, made,   \* connections waiting for accept; connections made so far
  m_events,        \* the fetched events <<descriptor, kind>> not looked at yet
  event,           \* the one tst_main handles, or NULL
  given,           \* tst_main: the connection it accepts, closes or hands over
  target,          \* tst_main: the worker it found suspended, or NULL
  mainPc,
  thread_stat, tst_socket,
  mutex,           \* the thread inside a worker's mutex, or NULL
  waiting,         \* the workers asleep in pthread_cond_timedwait
  workPc,
  used, next,      \* tst_work: its variable socket, or NULL; the result of its last job
  told,            \* the workers tst_main has asked to exit, if they were suspended
  szThreadStatus,  \* the workers tst_main no longer waits for
  cancelled,       \* those it called pthread_cancel for
  destroyPc,
  crashed          \* a NULL pointer, or the end of m_connect, was followed

runVars     == <<m_main_run, m_work_run, m_endwaittime>>
connVars    == <<m_connect, deleted>>
trafficVars == <<input, hup, backlog, made>>
eventVars   == <<m_events, event>>
handVars    == <<given, target>>
shareVars   == <<thread_stat, tst_socket, mutex, waiting>>
workVars    == <<workPc, used, next>>
endVars     == <<told, szThreadStatus, cancelled>>
vars == <<runVars, connVars, interest, open, trafficVars, eventVars, handVars, mainPc, shareVars,
          workVars, endVars, destroyPc, crashed>>

None == [sd |-> NULL, conn |-> NULL]

(* The state create leaves, with the listening socket in epoll.             *)
Init ==
  /\ m_main_run = TRUE /\ m_work_run = TRUE /\ m_endwaittime = 0
  /\ m_connect = [s \in Sd |-> NULL] /\ deleted = {}
  /\ interest = [s \in Sd \union {ListenSd} |-> IF s = ListenSd THEN "in" ELSE "none"]
  /\ open = {} /\ input = {} /\ hup = {} /\ backlog = 0 /\ made = 0
  /\ m_events = {} /\ event = NULL /\ given = None /\ target = NULL /\ mainPc = "loop"
  /\ thread_stat = [w \in Worker |-> tst_suspend]
  /\ tst_socket = [w \in Worker |-> None]
  /\ mutex = [w \in Worker |-> NULL] /\ waiting = {}
  /\ workPc = [w \in Worker |-> "loop"]
  /\ used = [w \in Worker |-> None] /\ next = [w \in Worker |-> tst_suspend]
  /\ told = {} /\ szThreadStatus = {} /\ cancelled = {} /\ destroyPc = "uncalled" /\ crashed = FALSE

----------------------------------------------------------------------------
(* epoll, the kernel and the clients                                        *)

Kind(s) == IF s \in hup THEN "hup" ELSE IF s \in input THEN "in" ELSE "out"
Ready(s) ==
  IF s = ListenSd THEN interest[s] = "in" /\ backlog > 0
  ELSE interest[s] = "inout" \/ (interest[s] = "in" /\ s \in hup \union input)

(* EPOLL_CTL_MOD; it fails when the descriptor is not registered.           *)
Rearm(s, e) ==
  interest' = IF s # NULL /\ interest[s] # "none" THEN [interest EXCEPT ![s] = e] ELSE interest

Connect ==
  /\ made < MaxConn
  /\ made' = made + 1 /\ backlog' = backlog + 1
  /\ UNCHANGED <<input, hup>>
Send(s) ==
  /\ s \in open \ (input \union hup)
  /\ input' = input \union {s}
  /\ UNCHANGED <<hup, backlog, made>>
HangUp(s) ==
  /\ s \in open \ hup
  /\ hup' = hup \union {s}
  /\ UNCHANGED <<input, backlog, made>>

Client == /\ Connect \/ \E s \in Sd : Send(s) \/ HangUp(s)
          /\ UNCHANGED <<runVars, connVars, interest, open, eventVars, handVars, mainPc, shareVars,
                         workVars, endVars, destroyPc, crashed>>

----------------------------------------------------------------------------
(* closesocket: the entry leaves m_connect, the descriptor leaves epoll and *)
(* is closed, the object is deleted; no lock is held between the steps.     *)

Erase_Late(s) == UNCHANGED m_connect   \* faulty: the entry stays
Erase(s) == m_connect' = [m_connect EXCEPT ![s] = NULL]

Close(s) ==
  /\ interest' = [interest EXCEPT ![s] = "none"]
  /\ open' = open \ {s} /\ input' = input \ {s} /\ hup' = hup \ {s}
  /\ UNCHANGED <<backlog, made>>

Delete_Not(c) == UNCHANGED deleted   \* faulty: the object is forgotten
Delete(c) == deleted' = deleted \union ({c} \ {NULL})

----------------------------------------------------------------------------
(* tst_main: taking events                                                  *)

(* epoll_wait: up to m_thread_count events, each reported once.             *)
OneShot_Not(S) == UNCHANGED interest   \* faulty: without EPOLLONESHOT
OneShot(S) ==
  interest' = [s \in DOMAIN interest |-> IF s \in S THEN "off" ELSE interest[s]]

Fetch ==
  /\ mainPc = "loop" /\ m_main_run
  /\ m_events = {} /\ event = NULL
  /\ \E S \in SUBSET {s \in DOMAIN interest : Ready(s)} :
       /\ S # {} /\ Cardinality(S) <= Cardinality(Worker)
       /\ m_events' = {<<s, Kind(s)>> : s \in S}
       /\ OneShot(S)
  /\ UNCHANGED <<event, mainPc>>

(* The next event, or the same one again when no worker was free.           *)
Pick ==
  /\ mainPc = "loop" /\ m_main_run
  /\ \/ event # NULL /\ UNCHANGED eventVars
     \/ event = NULL /\ \E e \in m_events : event' = e /\ m_events' = m_events \ {e}
  /\ mainPc' = IF event'[1] = ListenSd THEN "accept"
               ELSE IF event'[2] = "hup" THEN "erase" ELSE "find"
  /\ UNCHANGED interest

MainTake == /\ Fetch \/ Pick
            /\ UNCHANGED <<runVars, connVars, open, trafficVars, handVars, shareVars, workVars,
                           endVars, destroyPc, crashed>>

----------------------------------------------------------------------------
(* tst_main: connections                                                    *)

Goto(label) == mainPc' = label
Handled == Goto("loop") /\ event' = NULL /\ given' = None

(* accept; an entry that m_connect still has for the descriptor would be    *)
(* closed, and the new descriptor with it.                                  *)
Accept ==
  /\ mainPc = "accept"
  /\ \E s \in Sd \ open :
       /\ given' = [sd |-> s, conn |-> made - backlog + 1]
       /\ IF m_connect[s] = NULL
          THEN open' = open \union {s} /\ UNCHANGED connVars
          ELSE Erase(s) /\ Delete(m_connect[s]) /\ UNCHANGED open
  /\ backlog' = backlog - 1
  /\ Goto("add")
  /\ UNCHANGED <<event, interest, input, hup, made>>

(* accept fails: the event is dropped and the listening socket not re-armed *)
AcceptFails ==
  /\ mainPc = "accept"
  /\ AcceptCanFail \/ Sd \ open = {}
  /\ Handled
  /\ UNCHANGED <<connVars, interest, open, trafficVars>>

AddSocket ==
  /\ mainPc = "add"
  /\ m_connect' = [m_connect EXCEPT ![given.sd] = given.conn]
  /\ Goto("connected")
  /\ UNCHANGED <<event, given, deleted, interest, open, trafficVars>>

(* m_fconnected decides: EPOLL_CTL_ADD, or closesocket.                     *)
Connected ==
  /\ mainPc = "connected"
  /\ \E r \in ConnectedResult :
       \/ /\ r # tst_disconnect
          /\ interest' = [interest EXCEPT ![given.sd] = IF r = tst_send THEN "inout" ELSE "in"]
          /\ UNCHANGED <<open, trafficVars, connVars>>
       \/ r = tst_disconnect /\ Erase(given.sd) /\ Close(given.sd) /\ Delete(given.conn)
  /\ Goto("relisten")
  /\ UNCHANGED <<event, given>>

Relisten ==
  /\ mainPc = "relisten"
  /\ Rearm(ListenSd, "in")
  /\ Handled
  /\ UNCHANGED <<connVars, open, trafficVars>>

(* A client that is gone: closesocket.                                      *)
MainErase ==
  /\ mainPc = "erase"
  /\ given' = [sd |-> event[1], conn |-> m_connect[event[1]]]
  /\ Erase(event[1])
  /\ Goto("close")
  /\ UNCHANGED <<event, deleted, interest, open, trafficVars>>
MainClose ==
  /\ mainPc = "close"
  /\ Close(given.sd)
  /\ Goto("delete")
  /\ UNCHANGED <<event, given, connVars>>
MainDelete ==
  /\ mainPc = "delete"
  /\ Delete(given.conn)
  /\ Handled
  /\ UNCHANGED <<m_connect, interest, open, trafficVars>>

MainConnection ==
  /\ \/ Accept \/ AcceptFails \/ AddSocket \/ Connected \/ Relisten
     \/ MainErase \/ MainClose \/ MainDelete
  /\ UNCHANGED <<runVars, m_events, target, shareVars, workVars, endVars, destroyPc, crashed>>

----------------------------------------------------------------------------
(* tst_main: handing an event to a worker                                   *)

(* it->second, which is undefined when the descriptor is not registered     *)
Find ==
  /\ mainPc = "find"
  /\ crashed' = (m_connect[event[1]] = NULL)
  /\ given' = [sd |-> event[1], conn |-> m_connect[event[1]]]
  /\ Goto("scan")
  /\ UNCHANGED <<event, target, shareVars>>

(* A worker that looks suspended, or, if there is none, the loop again; no  *)
(* mutex is held.  Which suspended worker is taken is not distinguished.    *)
Scan ==
  /\ mainPc = "scan"
  /\ \/ \E w \in Worker : thread_stat[w] < tst_run /\ target' = w /\ Goto("mark")
     \/ (\A w \in Worker : thread_stat[w] >= tst_run) /\ Goto("loop") /\ UNCHANGED target
  /\ UNCHANGED <<event, given, shareVars, crashed>>

(* Under the worker's mutex: its state, and then its socket and the signal. *)
Mark ==
  /\ mainPc = "mark"
  /\ mutex[target] = NULL
  /\ mutex' = [mutex EXCEPT ![target] = "tst_main"]
  /\ thread_stat' = [thread_stat EXCEPT ![target] = tst_run]
  /\ Goto("give")
  /\ UNCHANGED <<event, given, target, tst_socket, waiting, crashed>>
Give ==
  /\ mainPc = "give"
  /\ tst_socket' = [tst_socket EXCEPT ![target] = given]
  /\ waiting' = waiting \ {target}
  /\ mutex' = [mutex EXCEPT ![target] = NULL]
  /\ target' = NULL
  /\ Handled
  /\ UNCHANGED <<thread_stat, crashed>>

MainHand == /\ Find \/ Scan \/ Mark \/ Give
            /\ UNCHANGED <<runVars, connVars, interest, open, trafficVars, m_events, workVars,
                           endVars, destroyPc>>

----------------------------------------------------------------------------
(* tst_main: shutdown                                                       *)

MainStop_Silent ==   \* faulty: the workers are not told
  /\ mainPc = "loop" /\ ~m_main_run
  /\ Goto("tell")
  /\ UNCHANGED <<m_work_run, thread_stat, waiting, endVars>>
MainStop ==
  /\ mainPc = "loop" /\ ~m_main_run
  /\ m_work_run' = FALSE
  /\ Goto("tell")
  /\ UNCHANGED <<thread_stat, waiting, endVars>>

Tell_Any ==   \* faulty: a running worker is told as well, and counts as ended
  /\ mainPc = "tell"
  /\ \E w \in Worker \ told :
       /\ mutex[w] = NULL
       /\ thread_stat' = [thread_stat EXCEPT ![w] = tst_exit] /\ waiting' = waiting \ {w}
       /\ told' = told \union {w}
  /\ Goto(IF told' = Worker THEN "wait" ELSE "tell")
  /\ UNCHANGED <<m_work_run, szThreadStatus, cancelled>>

(* Under its mutex, each worker that is suspended is told to exit.          *)
Tell ==
  /\ mainPc = "tell"
  /\ \E w \in Worker \ told :
       /\ mutex[w] = NULL
       /\ IF thread_stat[w] < tst_run
          THEN thread_stat' = [thread_stat EXCEPT ![w] = tst_exit] /\ waiting' = waiting \ {w}
          ELSE UNCHANGED <<thread_stat, waiting>>
       /\ told' = told \union {w}
  /\ Goto(IF told' = Worker THEN "wait" ELSE "tell")
  /\ UNCHANGED <<m_work_run, szThreadStatus, cancelled>>

(* One turn of the wait: a worker in tst_exit or later, or one whose last   *)
(* job began m_endwaittime ago (a worker that never had one: at boot), is   *)
(* not waited for any more.  Without destroy the limit is 0.                *)
Reap ==
  /\ mainPc = "wait"
  /\ \E late \in SUBSET Worker :
       /\ IF m_endwaittime = 0 THEN late = Worker ELSE late # {} => EndWaitExpires
       /\ szThreadStatus' = szThreadStatus \union late
                            \union {w \in Worker : thread_stat[w] >= tst_exit}
  /\ Goto(IF szThreadStatus' = Worker THEN "kill" ELSE "wait")
  /\ UNCHANGED <<told, cancelled, m_work_run, thread_stat, waiting>>

(* pthread_cancel for the workers not seen in tst_exited, and               *)
(* free(m_workers)                                                          *)
Kill ==
  /\ mainPc = "kill"
  /\ cancelled' = {w \in Worker : thread_stat[w] # tst_exited}
  /\ Goto("done")
  /\ UNCHANGED <<told, szThreadStatus, m_work_run, thread_stat, waiting>>

MainEnd == /\ MainStop \/ Tell \/ Reap \/ Kill
           /\ UNCHANGED <<m_main_run, m_endwaittime, connVars, interest, open, trafficVars, eventVars,
                          handVars, tst_socket, mutex, workVars, destroyPc, crashed>>

----------------------------------------------------------------------------
(* tst_work                                                                 *)

Step(w, label) == workPc' = [workPc EXCEPT ![w] = label]
SetStat(w, s) == thread_stat' = [thread_stat EXCEPT ![w] = s]

WorkLoop(w) ==
  /\ workPc[w] = "loop"
  /\ Step(w, IF ~m_work_run THEN "last" ELSE IF thread_stat[w] < tst_exit THEN "lock" ELSE "look")
  /\ UNCHANGED <<shareVars, used, next>>

(* pthread_cond_timedwait under the worker's own mutex.                     *)
Sleep(w) ==
  /\ workPc[w] = "lock" /\ mutex[w] = NULL
  /\ waiting' = waiting \union {w}
  /\ Step(w, "wait")
  /\ UNCHANGED <<thread_stat, tst_socket, mutex, used, next>>

(* It returns, signalled or timed out, and the mutex is given back.         *)
Wake(w) ==
  /\ workPc[w] = "wait" /\ w \notin waiting /\ mutex[w] = NULL
  /\ Step(w, "look")
  /\ UNCHANGED <<shareVars, used, next>>

(* The state is tested for tst_run, then for tst_suspend, then for tst_exit, *)
(* without the mutex.                                                       *)
Look(w) ==
  /\ workPc[w] = "look"
  /\ Step(w, IF thread_stat[w] = tst_run THEN "take" ELSE "else")
  /\ UNCHANGED <<shareVars, used, next>>
Else(w) ==
  /\ workPc[w] = "else"
  /\ IF thread_stat[w] = tst_exit THEN SetStat(w, tst_exited) ELSE UNCHANGED thread_stat
  /\ Step(w, IF thread_stat[w] = tst_suspend THEN "idle"
             ELSE IF thread_stat[w] = tst_exit THEN "last" ELSE "reset")
  /\ UNCHANGED <<tst_socket, mutex, waiting, used, next>>

(* The idle turn marks the worker as running, and as suspended at its end.  *)
Idle(w) ==
  /\ workPc[w] = "idle"
  /\ SetStat(w, tst_run)
  /\ Step(w, "reset")
  /\ UNCHANGED <<tst_socket, mutex, waiting, used, next>>
Reset(w) ==
  /\ workPc[w] = "reset" /\ mutex[w] = NULL
  /\ SetStat(w, tst_suspend)
  /\ Step(w, "loop")
  /\ UNCHANGED <<tst_socket, mutex, waiting, used, next>>

WorkSleep(w) ==
  /\ WorkLoop(w) \/ Sleep(w) \/ Wake(w) \/ Look(w) \/ Else(w) \/ Idle(w) \/ Reset(w)
  /\ UNCHANGED <<connVars, interest, open, input, hup, crashed>>

(* socket = me->tst_socket, and its first use: socket->events.              *)
Take(w) ==
  /\ workPc[w] = "take"
  /\ used' = [used EXCEPT ![w] = tst_socket[w]]
  /\ crashed' = (tst_socket[w] = None)
  /\ Step(w, "job")
  /\ UNCHANGED <<shareVars, next, connVars, interest, open, input, hup>>

(* Reading or writing and the user function, which may read what arrived;   *)
(* then the worker's mutex.                                                 *)
Job(w) ==
  /\ workPc[w] = "job" /\ mutex[w] = NULL
  /\ mutex' = [mutex EXCEPT ![w] = w]
  /\ \E r \in FuncResult :
       /\ next' = [next EXCEPT ![w] = r]
       /\ Step(w, IF r = tst_disconnect THEN "erase" ELSE "rearm")
  /\ input' \in {input, input \ {used[w].sd}}
  /\ UNCHANGED <<thread_stat, tst_socket, waiting, used, connVars, interest, open, hup, crashed>>

(* closesocket by the worker                                                *)
WorkErase(w) ==
  /\ workPc[w] = "erase"
  /\ Erase(used[w].sd)
  /\ Step(w, "close")
  /\ UNCHANGED <<shareVars, used, next, deleted, interest, open, input, hup, crashed>>
WorkClose(w) ==
  /\ workPc[w] = "close"
  /\ Close(used[w].sd)
  /\ Step(w, "delete")
  /\ UNCHANGED <<shareVars, used, next, connVars, crashed>>
WorkDelete(w) ==
  /\ workPc[w] = "delete"
  /\ Delete(used[w].conn)
  /\ Step(w, "rearm")
  /\ UNCHANGED <<shareVars, used, next, m_connect, interest, open, input, hup, crashed>>

WorkRearm_Kept(w) ==   \* faulty: the user function's result becomes the state
  /\ workPc[w] = "rearm"
  /\ \E s \in IF next[w] = tst_disconnect THEN StaleSd ELSE {used[w].sd} :
       Rearm(s, IF next[w] = tst_send THEN "inout" ELSE "in")
  /\ Step(w, "settle")
  /\ UNCHANGED <<shareVars, used, next, connVars, open, input, hup, crashed>>

(* EPOLL_CTL_MOD with socket->sd, which after closesocket is read from a    *)
(* deleted object; both results end in tst_suspend.                         *)
WorkRearm(w) ==
  /\ workPc[w] = "rearm"
  /\ \E s \in IF next[w] = tst_disconnect THEN StaleSd ELSE {used[w].sd} :
       Rearm(s, IF next[w] = tst_send THEN "inout" ELSE "in")
  /\ next' = [next EXCEPT ![w] = tst_suspend]
  /\ Step(w, "settle")
  /\ UNCHANGED <<shareVars, used, connVars, open, input, hup, crashed>>

(* The new state, and then, still under the mutex, tst_socket = NULL.       *)
Settle(w) ==
  /\ workPc[w] = "settle"
  /\ SetStat(w, next[w])
  /\ Step(w, "clear")
  /\ UNCHANGED <<tst_socket, mutex, waiting, used, next, connVars, interest, open, input, hup, crashed>>
Clear(w) ==
  /\ workPc[w] = "clear"
  /\ tst_socket' = [tst_socket EXCEPT ![w] = None]
  /\ used' = [used EXCEPT ![w] = None]
  /\ mutex' = [mutex EXCEPT ![w] = NULL]
  /\ Step(w, "loop")
  /\ UNCHANGED <<thread_stat, waiting, next, connVars, interest, open, input, hup, crashed>>

WorkLast(w) ==
  /\ workPc[w] = "last"
  /\ SetStat(w, tst_exited)
  /\ Step(w, "gone")
  /\ UNCHANGED <<tst_socket, mutex, waiting, used, next, connVars, interest, open, input, hup, crashed>>

WorkFrame == UNCHANGED <<runVars, backlog, made, eventVars, handVars, mainPc, endVars, destroyPc>>

(* m_workers is freed when tst_main is done: what a worker does after that  *)
(* with the freed memory, until a cancellation reaches it, is not modelled. *)
Work(w) ==
  /\ mainPc # "done"
  /\ \/ WorkSleep(w) \/ Take(w) \/ Job(w) \/ WorkErase(w) \/ WorkClose(w) \/ WorkDelete(w)
     \/ WorkRearm(w) \/ Settle(w) \/ Clear(w) \/ WorkLast(w)
  /\ WorkFrame
Timeout(w) ==
  /\ w \in waiting /\ mainPc # "done"
  /\ waiting' = waiting \ {w}
  /\ UNCHANGED <<thread_stat, tst_socket, mutex, workVars, connVars, interest, open, input, hup, crashed>>
  /\ WorkFrame

----------------------------------------------------------------------------
(* destroy, and the interrupt handler of amidtmf2                           *)

Interrupt ==
  /\ m_main_run
  /\ m_main_run' = FALSE
  /\ UNCHANGED <<m_endwaittime, destroyPc, connVars, open, interest>>
Destroy ==
  /\ destroyPc = "uncalled"
  /\ destroyPc' = IF m_main_run THEN "join" ELSE "returned"
  /\ m_endwaittime' = IF m_main_run THEN 1 ELSE m_endwaittime
  /\ m_main_run' = FALSE
  /\ UNCHANGED <<connVars, open, interest>>
(* After pthread_join of tst_main: close and delete what m_connect holds.   *)
DestroyJoin ==
  /\ destroyPc = "join" /\ mainPc = "done"
  /\ LET left == {s \in Sd : m_connect[s] # NULL}
     IN /\ open' = open \ left
        /\ interest' = [s \in DOMAIN interest |-> IF s \in left THEN "none" ELSE interest[s]]
        /\ deleted' = deleted \union {m_connect[s] : s \in left}
  /\ m_connect' = [s \in Sd |-> NULL]
  /\ destroyPc' = "returned"
  /\ UNCHANGED <<m_main_run, m_endwaittime>>

Owner == /\ Interrupt \/ Destroy \/ DestroyJoin
         /\ UNCHANGED <<m_work_run, trafficVars, eventVars, handVars, mainPc, shareVars, workVars,
                        endVars, crashed>>

----------------------------------------------------------------------------
Main == MainTake \/ MainConnection \/ MainHand \/ MainEnd
Stopped == (crashed \/ mainPc = "done") /\ UNCHANGED vars

Next ==
  \/ /\ ~crashed
     /\ \/ Main \/ Client \/ Owner
        \/ \E w \in Worker : Work(w) \/ Timeout(w)
  \/ Stopped

(* Both kinds of thread go on, waits end and user functions return; strong, *)
(* because a thread that needs a mutex gets it in the end.                  *)
Fairness ==
  /\ SF_vars(~crashed /\ Main) /\ WF_vars(~crashed /\ Owner /\ destroyPc = "join")
  /\ \A w \in Worker : SF_vars(~crashed /\ (Work(w) \/ Timeout(w)))

Spec == Init /\ [][Next]_vars
FairSpec == Spec /\ Fairness
==============================================================================
