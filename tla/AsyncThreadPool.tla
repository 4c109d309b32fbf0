--------------------------- MODULE AsyncThreadPool ---------------------------
(***************************************************************************)
(* The thread pool of src/AsyncThreadPool: mainthread moves jobs from two   *)
(* queues into two one-job slots and signals hEvent, every workthread waits *)
(* on hEvent with a time limit and empties the slots, callers of            *)
(* atp_addQueue push into the queues without a lock, and one caller of      *)
(* atp_destroy drains or discards the queues and stops the threads.         *)
(*                                                                          *)
(* A step is the code between two points where another thread can tell the  *)
(* difference.  hMutex is a glibc normal mutex: unlocking it does not check *)
(* the owner.  Every queue operation is one step here; pushes that overlap  *)
(* inside std::queue are the subject of JobQueue.                           *)
(***************************************************************************)
EXTENDS Naturals, Sequences, FiniteSets

CONSTANTS
  Worker,          \* the entries of g_thread
  Producer,        \* the threads that call atp_addQueue
  RealtimeJob,     \* ATP_DATA blocks queued with priority atp_realtime
  NormalJob,       \* ATP_DATA blocks queued with priority atp_normal
  EndCode,         \* the endcode argument of atp_destroy
  UseExitFunc,     \* its use_exit_func argument
  EndWaitExpires,  \* FALSE: its endwaittime argument is longer than any wait
  LateProducers,   \* TRUE: atp_addQueue may be called once atp_destroy began
  WaitCanFail,     \* TRUE: pthread_cond_timedwait may fail with EINVAL
  FuncResult,      \* what the user functions may return
  NULL

Job == RealtimeJob \union NormalJob
Priority == {"realtime", "normal"}

stat_suspend == 0
stat_run     == 1
stat_exit    == 9
stat_exited  == 10
ATP_STAT == {stat_suspend, stat_run, stat_exit, stat_exited}

ASSUME PoolAssumption ==
  /\ Worker # {} /\ IsFiniteSet(Worker)
  /\ RealtimeJob \intersect NormalJob = {}
  /\ {"mainthread", "atp_destroy", NULL} \intersect Worker = {}
  /\ NULL \notin Job \union {"mainthread", "atp_destroy"}
  /\ EndCode \in {"force", "gracefully"}
  /\ {UseExitFunc, EndWaitExpires, LateProducers, WaitCanFail} \subseteq BOOLEAN
  /\ FuncResult # {} /\ FuncResult \subseteq ATP_STAT

VARIABLES
  g_queue,            \* g_queueRealtime and g_queueNormal
  g_next,             \* the slots g_nextRealtime and g_nextNormal
  g_mainThread_run,
  g_workThread_run,
  hMutex,             \* the thread that holds it, or NULL
  hEvent,             \* the workers asleep in pthread_cond_timedwait
  nThreadStat,
  atp_data,           \* the job a worker holds, atp_realtime_data or atp_normal_data
  overtime,           \* now - beginWorktime >= g_endwaittime, as mainthread computes it
  szThreadStatus,     \* the workers mainthread no longer waits for
  cancelled,          \* the workers it called pthread_cancel for
  tableFreed,         \* free(g_thread) was called
  mainPc, serving,    \* control of mainthread; the queue it is serving
  workPc,             \* control of each workthread
  destroyPc, clearing,\* control of atp_destroy; the queue it is clearing
  hand,               \* the job an atp_addQueue call has passed its check with
  todo,               \* the jobs no call was made for
  log,                \* history: pushes and starts of job functions, in order
  freed,              \* history: number of free() calls for each job
  late,               \* history: the user function runs for g_endwaittime or more
  crashed             \* front() or pop() was called on an empty queue

queueVars  == <<g_queue, g_next>>
runVars    == <<g_mainThread_run, g_workThread_run>>
lockVars   == <<hMutex, hEvent>>
threadVars == <<nThreadStat, atp_data, overtime, late>>
reapVars   == <<szThreadStatus, cancelled, tableFreed>>
addVars    == <<hand, todo>>
mainCtl    == <<mainPc, serving>>
destroyCtl == <<destroyPc, clearing>>
vars == <<queueVars, runVars, lockVars, threadVars, reapVars, addVars, mainCtl,
          destroyCtl, workPc, log, freed, crashed>>

(* The value of freed after free() of the jobs in S; counted up to two.     *)
Freed_Not(S) == freed   \* faulty: never freed
Freed(S) == [j \in Job |-> IF j \notin S THEN freed[j] ELSE IF freed[j] = 0 THEN 1 ELSE 2]

(* pthread_mutex_lock and pthread_mutex_unlock of hMutex                    *)
Lock_Busy(t) == hMutex' = t   \* faulty: whether it is free does not matter
Lock(t) == hMutex = NULL /\ hMutex' = t
Unlock  == hMutex' = NULL

(* pthread_cond_signal: one sleeping worker leaves the wait set, or nobody  *)
(* hears it; pthread_cond_broadcast: all do.                                *)
Signal ==
  \/ hEvent = {} /\ UNCHANGED hEvent
  \/ \E w \in hEvent : hEvent' = hEvent \ {w}
Broadcast == hEvent' = {}

(* queue.pop(), which on an empty queue is undefined.                       *)
Pop(p) ==
  IF g_queue[p] = <<>>
  THEN crashed' = TRUE /\ UNCHANGED g_queue
  ELSE g_queue' = [g_queue EXCEPT ![p] = Tail(@)] /\ UNCHANGED crashed

----------------------------------------------------------------------------
(* The state atp_create leaves: all threads run and nothing is queued.      *)
Init ==
  /\ g_queue = [p \in Priority |-> <<>>]
  /\ g_next = [p \in Priority |-> NULL]
  /\ g_mainThread_run = TRUE /\ g_workThread_run = TRUE
  /\ hMutex = NULL /\ hEvent = {}
  /\ nThreadStat = [w \in Worker |-> stat_suspend]
  /\ atp_data = [w \in Worker |-> NULL]
  /\ overtime = [w \in Worker |-> EndWaitExpires]  \* beginWorktime is 0
  /\ late = [w \in Worker |-> FALSE]
  /\ szThreadStatus = {} /\ cancelled = {} /\ tableFreed = FALSE
  /\ mainPc = "loop" /\ serving = "realtime"
  /\ workPc = [w \in Worker |-> "loop"]
  /\ destroyPc = "uncalled" /\ clearing = "realtime"
  /\ hand = [a \in Producer |-> NULL] /\ todo = Job
  /\ log = <<>> /\ freed = [j \in Job |-> 0] /\ crashed = FALSE

----------------------------------------------------------------------------
(* atp_addQueue                                                             *)

(* The test of g_mainThread_run passes; the push is a later step.           *)
AddQueueCheck(a, j) ==
  /\ hand[a] = NULL
  /\ j \in todo
  /\ destroyPc = "uncalled" \/ LateProducers
  /\ g_mainThread_run
  /\ hand' = [hand EXCEPT ![a] = j]
  /\ todo' = todo \ {j}
  /\ UNCHANGED <<g_queue, log>>

(* The test fails and the call returns -1; the job stays the caller's.      *)
AddQueueRefuse(j) ==
  /\ j \in todo
  /\ LateProducers
  /\ ~g_mainThread_run
  /\ todo' = todo \ {j}
  /\ UNCHANGED <<hand, g_queue, log>>

(* The push, after which the call returns 0.                                *)
AddQueuePush(a) ==
  /\ hand[a] # NULL
  /\ \E p \in Priority :
       /\ p = "normal" <=> hand[a] \in NormalJob
       /\ g_queue' = [g_queue EXCEPT ![p] = Append(@, hand[a])]
  /\ log' = Append(log, <<"add", hand[a]>>)
  /\ hand' = [hand EXCEPT ![a] = NULL]
  /\ UNCHANGED todo

AddFrame == UNCHANGED <<g_next, runVars, lockVars, threadVars, reapVars, mainCtl,
                        destroyCtl, workPc, freed, crashed>>

----------------------------------------------------------------------------
(* mainthread, serving loop                                                 *)

MainLoop ==
  /\ mainPc = "loop"
  /\ mainPc' = IF g_mainThread_run THEN "scan" ELSE "broadcast"
  /\ UNCHANGED <<serving, queueVars, lockVars, runVars, nThreadStat, reapVars, crashed>>

(* The unlocked look at the queues: no job, no lock and no signal.          *)
MainScan ==
  /\ mainPc = "scan"
  /\ mainPc' = IF \E p \in Priority : g_queue[p] # <<>> THEN "lock" ELSE "loop"
  /\ UNCHANGED <<serving, queueVars, lockVars, runVars, nThreadStat, reapVars, crashed>>

(* The queue to serve, if any: a normal job is moved only while no realtime *)
(* job is queued, and either only into an empty slot.                       *)
CanServe_NoPriority(p) == g_queue[p] # <<>> /\ g_next[p] = NULL   \* faulty
CanServe_Overwrite(p) ==   \* faulty: a full slot is overwritten
  g_queue[p] # <<>> /\ (p = "normal" => g_queue["realtime"] = <<>>)

CanServe(p) ==
  /\ g_queue[p] # <<>>
  /\ g_next[p] = NULL
  /\ p = "normal" => g_queue["realtime"] = <<>>

MainLock ==
  /\ mainPc = "lock"
  /\ Lock("mainthread")
  /\ \E p \in Priority : CanServe(p) /\ serving' = p
  /\ mainPc' = "front"
  /\ UNCHANGED <<hEvent, queueVars, runVars, nThreadStat, reapVars, crashed>>

(* Nothing can be moved: under the lock, signal again for a slot no worker  *)
(* has emptied.                                                             *)
MainResignal ==
  /\ mainPc = "lock"
  /\ hMutex = NULL
  /\ \A p \in Priority : ~CanServe(p)
  /\ IF \E p \in Priority : g_next[p] # NULL THEN Signal ELSE UNCHANGED hEvent
  /\ mainPc' = "loop"
  /\ UNCHANGED <<hMutex, serving, queueVars, runVars, nThreadStat, reapVars, crashed>>

(* slot = queue.front(), which on an empty queue is undefined               *)
MainFront ==
  /\ mainPc = "front"
  /\ IF g_queue[serving] = <<>>
     THEN crashed' = TRUE /\ UNCHANGED g_next
     ELSE g_next' = [g_next EXCEPT ![serving] = Head(g_queue[serving])] /\ UNCHANGED crashed
  /\ mainPc' = "pop"
  /\ UNCHANGED <<serving, g_queue, lockVars, runVars, nThreadStat, reapVars>>

MainPop ==
  /\ mainPc = "pop"
  /\ Pop(serving)
  /\ Signal
  /\ Unlock
  /\ mainPc' = "loop"
  /\ UNCHANGED <<serving, g_next, runVars, nThreadStat, reapVars>>

----------------------------------------------------------------------------
(* mainthread, shutdown                                                     *)

(* The broadcast that follows the loop, without the lock.                   *)
MainBroadcast ==
  /\ mainPc = "broadcast"
  /\ Broadcast
  /\ mainPc' = IF UseExitFunc THEN "exit" ELSE "stop"
  /\ UNCHANGED <<hMutex, serving, queueVars, runVars, nThreadStat, reapVars, crashed>>

MainExitLock ==
  /\ mainPc = "exit"
  /\ Lock("mainthread")
  /\ mainPc' = "exitscan"
  /\ UNCHANGED <<hEvent, serving, queueVars, runVars, nThreadStat, reapVars, crashed>>

(* One turn of the do loop: once both slots are empty suspended workers are *)
(* told to exit; all are woken; the loop ends when all were seen exited or  *)
(* the wait is over, and the workers' run flag is cleared.                  *)
SlotsEmpty == \A p \in Priority : g_next[p] = NULL
AllExited_Told == SlotsEmpty /\ \A w \in Worker : nThreadStat[w] >= stat_exit   \* faulty
AllExited == SlotsEmpty /\ \A w \in Worker : nThreadStat[w] >= stat_exited

MainExitScan ==
  /\ mainPc = "exitscan"
  /\ nThreadStat' = [w \in Worker |-> IF SlotsEmpty /\ nThreadStat[w] < stat_run
                                      THEN stat_exit ELSE nThreadStat[w]]
  /\ Broadcast
  /\ Unlock
  /\ \/ /\ AllExited \/ EndWaitExpires
        /\ g_workThread_run' = FALSE
        /\ mainPc' = "wait"
     \/ /\ ~AllExited
        /\ mainPc' = "exit"
        /\ UNCHANGED g_workThread_run
  /\ UNCHANGED <<serving, queueVars, g_mainThread_run, reapVars, crashed>>

(* Without exit functions: clear the run flag and broadcast, no lock held.  *)
MainStop_FlagKept ==   \* faulty: the workers are woken but not told
  /\ mainPc = "stop"
  /\ Broadcast
  /\ mainPc' = "wait"
  /\ UNCHANGED <<hMutex, serving, queueVars, runVars, nThreadStat, reapVars, crashed>>

MainStop ==
  /\ mainPc = "stop"
  /\ g_workThread_run' = FALSE
  /\ Broadcast
  /\ mainPc' = "wait"
  /\ UNCHANGED <<hMutex, serving, queueVars, g_mainThread_run, nThreadStat, reapVars,
                 crashed>>

(* One turn of the loop that waits for the workers: those seen in stat_exit *)
(* or later, or past g_endwaittime, are not waited for any more.            *)
Waitless_Running(w) == nThreadStat[w] >= stat_run \/ overtime[w]   \* faulty
Waitless(w) == nThreadStat[w] >= stat_exit \/ overtime[w]

MainCheckExit ==
  /\ mainPc = "wait"
  /\ szThreadStatus' = szThreadStatus \union {w \in Worker : Waitless(w)}
  /\ mainPc' = IF szThreadStatus' = Worker THEN "kill" ELSE "wait"
  /\ UNCHANGED <<cancelled, tableFreed, serving, queueVars, lockVars, runVars,
                 nThreadStat, crashed>>

(* pthread_cancel for every worker not seen in stat_exited                  *)
MainKill ==
  /\ mainPc = "kill"
  /\ cancelled' = {w \in Worker : nThreadStat[w] # stat_exited}
  /\ mainPc' = "free"
  /\ UNCHANGED <<szThreadStatus, tableFreed, serving, queueVars, lockVars, runVars,
                 nThreadStat, crashed>>

(* free(g_thread), and the thread ends                                      *)
MainFree ==
  /\ mainPc = "free"
  /\ tableFreed' = TRUE
  /\ mainPc' = "done"
  /\ UNCHANGED <<szThreadStatus, cancelled, serving, queueVars, lockVars, runVars,
                 nThreadStat, crashed>>

MainFrame == UNCHANGED <<addVars, atp_data, overtime, late, destroyCtl, workPc, log, freed>>

----------------------------------------------------------------------------
(* workthread                                                               *)

Goto(w, label) == workPc' = [workPc EXCEPT ![w] = label]
SetStat(w, s)  == nThreadStat' = [nThreadStat EXCEPT ![w] = s]

(* The loop test, then: wait under the lock, or, in stat_exit or later,     *)
(* go on without having locked anything.                                    *)
WorkerLoop(w) ==
  /\ workPc[w] = "loop"
  /\ Goto(w, IF ~g_workThread_run THEN "last"
             ELSE IF nThreadStat[w] < stat_exit THEN "lock" ELSE "awake")
  /\ UNCHANGED <<g_next, lockVars, threadVars, log, freed>>

(* Lock, compute the time limit and fall asleep, which unlocks.  Whether    *)
(* there is work is not looked at.                                          *)
WorkerWait(w) ==
  /\ workPc[w] = "lock"
  /\ hMutex = NULL
  /\ hEvent' = hEvent \union {w}
  /\ Goto(w, "wait")
  /\ UNCHANGED <<g_next, hMutex, threadVars, log, freed>>

(* The time limit is rejected: the worker unlocks, returns to the loop and  *)
(* becomes suspended, whatever its state was set to meanwhile.              *)
WorkerWaitFails(w) ==
  /\ WaitCanFail
  /\ workPc[w] = "lock"
  /\ hMutex = NULL
  /\ Goto(w, "failed")
  /\ UNCHANGED <<g_next, lockVars, threadVars, log, freed>>

WorkerSuspend(w) ==
  /\ workPc[w] = "failed"
  /\ SetStat(w, stat_suspend)
  /\ Goto(w, "loop")
  /\ UNCHANGED <<g_next, lockVars, atp_data, overtime, late, log, freed>>

(* The wait ends by its time limit (or spuriously).                         *)
WorkerTimeout_Never(w) == FALSE /\ UNCHANGED vars   \* faulty: no time limit
WorkerTimeout(w) ==
  /\ w \in hEvent
  /\ hEvent' = hEvent \ {w}
  /\ UNCHANGED <<g_next, hMutex, threadVars, workPc, log, freed>>

(* pthread_cond_timedwait returns with the lock; 0 and ETIMEDOUT are        *)
(* treated alike.                                                           *)
WorkerWake(w) ==
  /\ workPc[w] = "wait"
  /\ w \notin hEvent
  /\ Lock(w)
  /\ Goto(w, "awake")
  /\ UNCHANGED <<g_next, hEvent, threadVars, log, freed>>

(* beginWorktime is set to now.                                             *)
Begin_Unnoted(w) == late' = [late EXCEPT ![w] = FALSE] /\ UNCHANGED overtime   \* faulty
Begin(w) == late' = [late EXCEPT ![w] = FALSE] /\ overtime' = [overtime EXCEPT ![w] = FALSE]

(* Told to exit: unlock hMutex, held or not, and call atp_exit_func.        *)
WorkerExit(w) ==
  /\ workPc[w] = "awake"
  /\ nThreadStat[w] = stat_exit
  /\ Begin(w)
  /\ Unlock
  /\ Goto(w, "exitfunc")
  /\ UNCHANGED <<g_next, hEvent, nThreadStat, atp_data, log, freed>>

(* The job to take: the realtime slot is looked at first.                   *)
NextIs_Untested(p) == p = "normal" => g_next["realtime"] = NULL   \* faulty
NextIs(p) == g_next[p] # NULL /\ (p = "normal" => g_next["realtime"] = NULL)

EmptySlot_Kept(p) == UNCHANGED g_next   \* faulty: the slot keeps the job
EmptySlot(p) == g_next' = [g_next EXCEPT ![p] = NULL]

(* Take the job of slot p, unlock and call the job's function.              *)
WorkerTake(w, p) ==
  /\ workPc[w] = "awake"
  /\ nThreadStat[w] # stat_exit
  /\ NextIs(p)
  /\ atp_data' = [atp_data EXCEPT ![w] = g_next[p]]
  /\ EmptySlot(p)
  /\ SetStat(w, stat_run)
  /\ Begin(w)
  /\ Unlock
  /\ log' = Append(log, <<"start", g_next[p]>>)
  /\ Goto(w, "job")
  /\ UNCHANGED <<hEvent, freed>>

(* No job: unlock and call atp_idle_func; beginWorktime keeps the start of  *)
(* the last job.                                                            *)
WorkerIdle(w) ==
  /\ workPc[w] = "awake"
  /\ nThreadStat[w] # stat_exit
  /\ SlotsEmpty
  /\ SetStat(w, stat_run)
  /\ late' = [late EXCEPT ![w] = FALSE]
  /\ Unlock
  /\ Goto(w, "idle")
  /\ UNCHANGED <<g_next, hEvent, atp_data, overtime, log, freed>>

(* The job's function returns r: free the job, and r is the new state.      *)
WorkerFinish(w, r) ==
  /\ workPc[w] = "job"
  /\ freed' = Freed({atp_data[w]})
  /\ atp_data' = [atp_data EXCEPT ![w] = NULL]
  /\ SetStat(w, r)
  /\ Goto(w, "loop")
  /\ UNCHANGED <<g_next, lockVars, overtime, late, log>>

(* The idle or the exit function returns.                                   *)
WorkerIdleReturn(w, r) ==
  /\ workPc[w] = "idle"
  /\ SetStat(w, r)
  /\ Goto(w, "loop")
  /\ UNCHANGED <<g_next, lockVars, atp_data, overtime, late, log, freed>>

WorkerExitReturn(w) ==
  /\ workPc[w] = "exitfunc"
  /\ SetStat(w, stat_exited)
  /\ Goto(w, "last")
  /\ UNCHANGED <<g_next, lockVars, atp_data, overtime, late, log, freed>>

(* The last access to g_thread, after the loop.                             *)
WorkerLast(w) ==
  /\ workPc[w] = "last"
  /\ SetStat(w, stat_exited)
  /\ Goto(w, "gone")
  /\ UNCHANGED <<g_next, lockVars, atp_data, overtime, late, log, freed>>

(* The cancellation is acted upon: inside a user function, or in            *)
(* pthread_cond_timedwait, which first takes the lock back.                 *)
WorkerCancelled(w) ==
  /\ w \in cancelled
  /\ \/ workPc[w] \in {"job", "idle", "exitfunc"} /\ UNCHANGED lockVars
     \/ workPc[w] = "wait" /\ Lock(w) /\ hEvent' = hEvent \ {w}
  /\ Goto(w, "gone")
  /\ UNCHANGED <<g_next, threadVars, log, freed>>

(* g_endwaittime has passed since beginWorktime, and since the call began.  *)
Elapse(w) ==
  /\ EndWaitExpires
  /\ ~(overtime[w] /\ late[w])
  /\ overtime' = [overtime EXCEPT ![w] = TRUE]
  /\ late' = [late EXCEPT ![w] = TRUE]
  /\ UNCHANGED <<g_next, lockVars, nThreadStat, atp_data, workPc, log, freed>>

WorkFrame == UNCHANGED <<addVars, g_queue, runVars, reapVars, mainCtl, destroyCtl, crashed>>

----------------------------------------------------------------------------
(* atp_destroy                                                              *)

DestroyGoto(label, p) == destroyPc' = label /\ clearing' = p

(* Both slots are looked at, then both queues, then both queues are cleared *)
Following_SlotsOnly ==   \* faulty
  [drainslot |-> "clear", drainqueue |-> "clear", clear |-> "locking"]
Following ==
  [drainslot |-> "drainqueue", drainqueue |-> "clear", clear |-> "locking"]

Advance_One == DestroyGoto(Following[destroyPc], "realtime")   \* faulty
Advance ==
  IF clearing = "realtime" THEN DestroyGoto(destroyPc, "normal")
                           ELSE DestroyGoto(Following[destroyPc], "realtime")

Destroy ==
  /\ destroyPc = "uncalled"
  /\ LateProducers \/ \A a \in Producer : hand[a] = NULL
  /\ DestroyGoto(IF EndCode = "gracefully" THEN "drainslot" ELSE "clear", "realtime")
  /\ UNCHANGED <<queueVars, g_mainThread_run, hMutex, freed, crashed>>

(* gracefully: without a lock, look at both slots and then at both queues,  *)
(* from the start again whenever one holds a job.                           *)
DestroyDrain ==
  /\ destroyPc \in {"drainslot", "drainqueue"}
  /\ LET busy == IF destroyPc = "drainslot" THEN g_next[clearing] # NULL
                                            ELSE g_queue[clearing] # <<>>
     IN \/ busy /\ DestroyGoto("drainslot", "realtime")
        \/ ~busy /\ Advance
  /\ UNCHANGED <<queueVars, g_mainThread_run, hMutex, freed, crashed>>

(* while (size()) { free(front()); pop(); }, without a lock                 *)
DestroyClear ==
  /\ destroyPc = "clear"
  /\ \/ g_queue[clearing] # <<>> /\ DestroyGoto("clearfront", clearing)
     \/ g_queue[clearing] = <<>> /\ Advance
  /\ UNCHANGED <<queueVars, g_mainThread_run, hMutex, freed, crashed>>

DestroyClearFront ==
  /\ destroyPc = "clearfront"
  /\ IF g_queue[clearing] = <<>>
     THEN crashed' = TRUE /\ UNCHANGED freed
     ELSE freed' = Freed({Head(g_queue[clearing])}) /\ UNCHANGED crashed
  /\ DestroyGoto("clearpop", clearing)
  /\ UNCHANGED <<queueVars, g_mainThread_run, hMutex>>

DestroyClearPop ==
  /\ destroyPc = "clearpop"
  /\ Pop(clearing)
  /\ DestroyGoto("clear", clearing)
  /\ UNCHANGED <<g_next, g_mainThread_run, hMutex, freed>>

DestroyLock ==
  /\ destroyPc = "locking"
  /\ Lock("atp_destroy")
  /\ DestroyGoto("slots", clearing)
  /\ UNCHANGED <<queueVars, g_mainThread_run, freed, crashed>>

(* free what the slots still hold, and unlock                               *)
ClearSlots_Kept == UNCHANGED g_next   \* faulty: the slots keep what was freed
ClearSlots == g_next' = [p \in Priority |-> NULL]

DestroySlots ==
  /\ destroyPc = "slots"
  /\ freed' = Freed({g_next[p] : p \in Priority})
  /\ ClearSlots
  /\ Unlock
  /\ DestroyGoto("stop", clearing)
  /\ UNCHANGED <<g_queue, g_mainThread_run, crashed>>

DestroyStop ==
  /\ destroyPc = "stop"
  /\ g_mainThread_run' = FALSE
  /\ DestroyGoto("join", clearing)
  /\ UNCHANGED <<queueVars, hMutex, freed, crashed>>

(* pthread_join of mainthread, and the return                               *)
DestroyJoin ==
  /\ destroyPc = "join"
  /\ mainPc = "done"
  /\ DestroyGoto("returned", clearing)
  /\ UNCHANGED <<queueVars, g_mainThread_run, hMutex, freed, crashed>>

DestroyFrame == UNCHANGED <<addVars, hEvent, g_workThread_run, threadVars, reapVars,
                            mainCtl, workPc, log>>

----------------------------------------------------------------------------
(* The threads, each with what it never changes                             *)

Push(a) == AddQueuePush(a) /\ AddFrame

Mainthread ==
  /\ \/ MainLoop \/ MainScan \/ MainLock \/ MainResignal \/ MainFront \/ MainPop
     \/ MainBroadcast \/ MainExitLock \/ MainExitScan \/ MainStop
     \/ MainCheckExit \/ MainKill \/ MainFree
  /\ MainFrame

Workthread(w) ==
  /\ \/ WorkerLoop(w) \/ WorkerWait(w) \/ WorkerWaitFails(w) \/ WorkerSuspend(w)
     \/ WorkerWake(w) \/ WorkerExit(w) \/ WorkerIdle(w)
     \/ \E p \in Priority : WorkerTake(w, p)
     \/ \E r \in FuncResult : WorkerFinish(w, r) \/ WorkerIdleReturn(w, r)
     \/ WorkerExitReturn(w) \/ WorkerLast(w) \/ WorkerCancelled(w)
  /\ WorkFrame

Timeout(w) == WorkerTimeout(w) /\ WorkFrame

DestroyRest ==
  /\ \/ DestroyDrain \/ DestroyClear \/ DestroyClearFront \/ DestroyClearPop
     \/ DestroyLock \/ DestroySlots \/ DestroyStop \/ DestroyJoin
  /\ DestroyFrame

(* The program may stop once atp_destroy returned, and stops at a crash.    *)
Stopped == (destroyPc = "returned" \/ crashed) /\ UNCHANGED vars

Next ==
  \/ /\ ~crashed
     /\ \/ \E a \in Producer, j \in Job : AddQueueCheck(a, j) /\ AddFrame
        \/ \E a \in Producer : Push(a)
        \/ \E j \in Job : AddQueueRefuse(j) /\ AddFrame
        \/ Mainthread
        \/ \E w \in Worker : Workthread(w) \/ Timeout(w)
        \/ \E w \in Worker : Elapse(w) /\ WorkFrame
        \/ Destroy /\ DestroyFrame
        \/ DestroyRest
  \/ Stopped

(* Every thread the scheduler can run goes on, user functions return, and a *)
(* timed wait ends.  Strong fairness: a thread blocked in                   *)
(* pthread_mutex_lock gets hMutex in the end, since every holder keeps it   *)
(* for a few instructions and comes back only after a sleep or a wait.      *)
(* Nobody has to call atp_addQueue or atp_destroy.                          *)
Fairness ==
  /\ SF_vars(~crashed /\ Mainthread)
  /\ SF_vars(~crashed /\ DestroyRest)
  /\ \A a \in Producer : WF_vars(~crashed /\ Push(a))
  /\ \A w \in Worker : /\ SF_vars(~crashed /\ Workthread(w))
                       /\ WF_vars(~crashed /\ Timeout(w))

Spec == Init /\ [][Next]_vars
FairSpec == Spec /\ Fairness

==============================================================================
