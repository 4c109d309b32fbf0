------------------------ MODULE AsyncThreadPoolProofs ------------------------
(***************************************************************************)
(* Theorems of AsyncThreadPool for every number of workers, callers and     *)
(* jobs, about its threads: ranges, the lock discipline of hMutex, the end  *)
(* of g_thread, what atp_destroy leaves behind, whom mainthread cancels,    *)
(* and the order of exit functions.                                         *)
(***************************************************************************)
EXTENDS AsyncThreadPoolProps, SequenceTheorems, TLAPS

----------------------------------------------------------------------------
(* Helpers of the model and their ranges                                    *)

(* free() counts up to two for every job.                                   *)
LEMMA FreedRange ==
  ASSUME freed \in [Job -> 0 .. 2], NEW S
  PROVE  Freed(S) \in [Job -> 0 .. 2]
BY DEF Freed

(* Signal and Broadcast only take workers out of the wait set.              *)
LEMMA SignalRange ==
  ASSUME hEvent \subseteq Worker, Signal \/ Broadcast
  PROVE  hEvent' \subseteq Worker
BY DEF Signal, Broadcast

(* pop() leaves queues of jobs.                                             *)
LEMMA PopRange ==
  ASSUME g_queue \in [Priority -> Seq(Job)], crashed \in BOOLEAN,
         NEW p \in Priority, Pop(p)
  PROVE  g_queue' \in [Priority -> Seq(Job)] /\ crashed' \in BOOLEAN
<1>1. CASE g_queue[p] = <<>>
  BY <1>1 DEF Pop
<1>2. CASE g_queue[p] # <<>>
  <2>1. Tail(g_queue[p]) \in Seq(Job)
    BY <1>2
  <2> QED BY <1>2, <2>1 DEF Pop
<1> QED BY <1>1, <1>2

----------------------------------------------------------------------------
(* Type correctness                                                         *)

LEMMA InitType == Init => TypeOK
<1> SUFFICES ASSUME Init PROVE TypeOK
  OBVIOUS
<1>1. EndWaitExpires \in BOOLEAN
  BY PoolAssumption DEF PoolAssumption
<1>2. /\ g_queue \in [Priority -> Seq(Job)]
      /\ log \in Seq({"add", "start"} \X Job)
  BY DEF Init
<1>3. freed \in [Job -> 0 .. 2]
  BY DEF Init
<1> QED BY <1>1, <1>2, <1>3 DEF Init, TypeOK, Priority, ATP_STAT, stat_suspend

LEMMA AddType ==
  ASSUME TypeOK, AddFrame,
         \/ \E a \in Producer, j \in Job : AddQueueCheck(a, j)
         \/ \E a \in Producer : AddQueuePush(a)
         \/ \E j \in Job : AddQueueRefuse(j)
  PROVE  TypeOK'
<1> USE DEF TypeOK, AddFrame, runVars, lockVars, threadVars, reapVars, mainCtl, destroyCtl
<1>1. ASSUME NEW a \in Producer, NEW j \in Job, AddQueueCheck(a, j) PROVE TypeOK'
  BY <1>1 DEF AddQueueCheck
<1>2. ASSUME NEW a \in Producer, AddQueuePush(a) PROVE TypeOK'
  <2>1. hand[a] \in Job
    BY <1>2 DEF AddQueuePush
  <2>2. <<"add", hand[a]>> \in {"add", "start"} \X Job
    BY <2>1
  <2>3. log' \in Seq({"add", "start"} \X Job)
    BY <1>2, <2>2 DEF AddQueuePush
  <2>4. g_queue' \in [Priority -> Seq(Job)]
    BY <1>2, <2>1 DEF AddQueuePush
  <2> QED BY <1>2, <2>3, <2>4 DEF AddQueuePush
<1>3. ASSUME NEW j \in Job, AddQueueRefuse(j) PROVE TypeOK'
  BY <1>3 DEF AddQueueRefuse
<1> QED BY <1>1, <1>2, <1>3

LEMMA MainType ==
  ASSUME TypeOK, Mainthread
  PROVE  TypeOK'
<1> USE DEF TypeOK, MainFrame, queueVars, runVars, lockVars, reapVars, addVars, destroyCtl
<1>1. CASE MainLoop
  BY <1>1 DEF Mainthread, MainLoop
<1>2. CASE MainScan
  BY <1>2 DEF Mainthread, MainScan
<1>3. CASE MainLock
  BY <1>3 DEF Mainthread, MainLock, Lock
<1>4. CASE MainResignal
  <2>1. hEvent' \subseteq Worker
    BY <1>4, SignalRange DEF MainResignal
  <2> QED BY <1>4, <2>1 DEF Mainthread, MainResignal
<1>5. CASE MainFront
  <2>1. CASE g_queue[serving] = <<>>
    BY <1>5, <2>1 DEF Mainthread, MainFront
  <2>2. CASE g_queue[serving] # <<>>
    <3>1. Head(g_queue[serving]) \in Job
      BY <2>2
    <3> QED BY <1>5, <2>2, <3>1 DEF Mainthread, MainFront
  <2> QED BY <2>1, <2>2
<1>6. CASE MainPop
  <2>1. hEvent' \subseteq Worker
    BY <1>6, SignalRange DEF MainPop
  <2>2. g_queue' \in [Priority -> Seq(Job)] /\ crashed' \in BOOLEAN
    BY <1>6, PopRange DEF MainPop
  <2> QED BY <1>6, <2>1, <2>2 DEF Mainthread, MainPop, Unlock
<1>7. CASE MainBroadcast
  BY <1>7 DEF Mainthread, MainBroadcast, Broadcast
<1>8. CASE MainExitLock
  BY <1>8 DEF Mainthread, MainExitLock, Lock
<1>9. CASE MainExitScan
  <2>1. nThreadStat' \in [Worker -> ATP_STAT]
    BY <1>9 DEF MainExitScan, ATP_STAT
  <2> QED BY <1>9, <2>1 DEF Mainthread, MainExitScan, Broadcast, Unlock
<1>10. CASE MainStop
  BY <1>10 DEF Mainthread, MainStop, Broadcast
<1>11. CASE MainCheckExit
  BY <1>11 DEF Mainthread, MainCheckExit
<1>12. CASE MainKill
  BY <1>12 DEF Mainthread, MainKill
<1>13. CASE MainFree
  BY <1>13 DEF Mainthread, MainFree
<1> QED
  BY <1>1, <1>2, <1>3, <1>4, <1>5, <1>6, <1>7, <1>8, <1>9, <1>10, <1>11, <1>12, <1>13
     DEF Mainthread

LEMMA WorkType ==
  ASSUME TypeOK, NEW w \in Worker,
         Workthread(w) \/ Timeout(w) \/ (Elapse(w) /\ WorkFrame)
  PROVE  TypeOK'
<1> USE DEF TypeOK, WorkFrame, Goto, SetStat, queueVars, runVars, lockVars, threadVars,
            reapVars, addVars, mainCtl, destroyCtl, Begin, Lock, Unlock, EmptySlot
<1>1. CASE WorkFrame /\ WorkerLoop(w)
  BY <1>1 DEF WorkerLoop
<1>2. CASE WorkFrame /\ WorkerWait(w)
  BY <1>2 DEF WorkerWait
<1>3. CASE WorkFrame /\ (WorkerWaitFails(w) \/ WorkerSuspend(w))
  BY <1>3 DEF WorkerWaitFails, WorkerSuspend, ATP_STAT
<1>4. CASE WorkFrame /\ WorkerTimeout(w)
  BY <1>4 DEF WorkerTimeout
<1>5. CASE WorkFrame /\ WorkerWake(w)
  BY <1>5 DEF WorkerWake
<1>6. CASE WorkFrame /\ WorkerExit(w)
  BY <1>6 DEF WorkerExit
<1>7. CASE WorkFrame /\ WorkerIdle(w)
  BY <1>7 DEF WorkerIdle, ATP_STAT
<1>8. ASSUME NEW p \in Priority, WorkFrame, WorkerTake(w, p) PROVE TypeOK'
  <2>1. g_next[p] \in Job
    BY <1>8 DEF WorkerTake, NextIs
  <2>2. <<"start", g_next[p]>> \in {"add", "start"} \X Job
    BY <2>1
  <2>3. log' \in Seq({"add", "start"} \X Job)
    BY <1>8, <2>2 DEF WorkerTake
  <2> QED BY <1>8, <2>1, <2>3 DEF WorkerTake, ATP_STAT
<1>9. ASSUME NEW r \in FuncResult, WorkFrame, WorkerFinish(w, r) PROVE TypeOK'
  <2>1. freed' \in [Job -> 0 .. 2]
    BY <1>9, FreedRange DEF WorkerFinish
  <2>2. r \in ATP_STAT
    BY PoolAssumption DEF PoolAssumption
  <2>3. atp_data' \in [Worker -> Job \union {NULL}] /\ nThreadStat' \in [Worker -> ATP_STAT]
    BY <1>9, <2>2 DEF WorkerFinish
  <2>4. workPc' = [workPc EXCEPT ![w] = "loop"] /\ UNCHANGED <<g_next, lockVars, overtime, late, log>>
    BY <1>9 DEF WorkerFinish
  <2> QED BY <1>9, <2>1, <2>3, <2>4
<1>10. ASSUME NEW r \in FuncResult, WorkFrame, WorkerIdleReturn(w, r) PROVE TypeOK'
  <2>1. r \in ATP_STAT
    BY PoolAssumption DEF PoolAssumption
  <2> QED BY <1>10, <2>1 DEF WorkerIdleReturn
<1>11. CASE WorkFrame /\ WorkerExitReturn(w)
  BY <1>11 DEF WorkerExitReturn, ATP_STAT
<1>12. CASE WorkFrame /\ WorkerLast(w)
  BY <1>12 DEF WorkerLast, ATP_STAT
<1>13. CASE WorkFrame /\ WorkerCancelled(w)
  BY <1>13 DEF WorkerCancelled
<1>14. CASE WorkFrame /\ Elapse(w)
  BY <1>14 DEF Elapse
<1> QED
  BY <1>1, <1>2, <1>3, <1>4, <1>5, <1>6, <1>7, <1>8, <1>9, <1>10, <1>11, <1>12, <1>13, <1>14
     DEF Workthread, Timeout

LEMMA DestroyType ==
  ASSUME TypeOK, DestroyFrame, Destroy \/ DestroyRest
  PROVE  TypeOK'
<1> USE DEF TypeOK, DestroyFrame, DestroyGoto, queueVars, threadVars, reapVars, addVars, mainCtl
<1>1. CASE Destroy
  BY <1>1 DEF Destroy, Priority
<1>2. CASE DestroyDrain \/ DestroyClear
  <2>1. ASSUME Advance, destroyPc \in {"drainslot", "drainqueue", "clear"}
        PROVE  destroyPc' \in {"drainslot", "drainqueue", "clear", "locking"} /\ clearing' \in Priority
    BY <2>1 DEF Advance, Following, Priority
  <2> QED BY <1>2, <2>1 DEF DestroyDrain, DestroyClear, Priority
<1>3. CASE DestroyClearFront
  <2>1. freed' \in [Job -> 0 .. 2]
    BY <1>3, FreedRange DEF DestroyClearFront
  <2> QED BY <1>3, <2>1 DEF DestroyClearFront
<1>4. CASE DestroyClearPop
  BY <1>4, PopRange DEF DestroyClearPop
<1>5. CASE DestroyLock \/ DestroyStop \/ DestroyJoin
  BY <1>5 DEF DestroyLock, DestroyStop, DestroyJoin, Lock
<1>6. CASE DestroySlots
  <2>1. freed' \in [Job -> 0 .. 2]
    BY <1>6, FreedRange DEF DestroySlots
  <2> QED BY <1>6, <2>1 DEF DestroySlots, ClearSlots, Unlock
<1> QED
  BY <1>1, <1>2, <1>3, <1>4, <1>5, <1>6 DEF DestroyRest

LEMMA NextType == TypeOK /\ [Next]_vars => TypeOK'
<1> SUFFICES ASSUME TypeOK, [Next]_vars PROVE TypeOK'
  OBVIOUS
<1>1. CASE UNCHANGED vars
  BY <1>1 DEF TypeOK, vars, queueVars, runVars, lockVars, threadVars, reapVars, addVars,
              mainCtl, destroyCtl
<1>2. CASE Next
  <2>1. CASE \E a \in Producer, j \in Job : AddQueueCheck(a, j) /\ AddFrame
    BY <2>1, AddType
  <2>2. CASE \E a \in Producer : Push(a)
    BY <2>2, AddType DEF Push
  <2>3. CASE \E j \in Job : AddQueueRefuse(j) /\ AddFrame
    BY <2>3, AddType
  <2>4. CASE Mainthread
    BY <2>4, MainType
  <2>5. CASE \E w \in Worker : Workthread(w) \/ Timeout(w)
    BY <2>5, WorkType
  <2>6. CASE \E w \in Worker : Elapse(w) /\ WorkFrame
    BY <2>6, WorkType
  <2>7. CASE Destroy /\ DestroyFrame
    BY <2>7, DestroyType
  <2>8. CASE DestroyRest
    BY <2>8, DestroyType DEF DestroyRest
  <2>9. CASE Stopped
    BY <1>1, <2>9 DEF Stopped
  <2> QED BY <1>2, <2>1, <2>2, <2>3, <2>4, <2>5, <2>6, <2>7, <2>8, <2>9 DEF Next
<1> QED BY <1>1, <1>2

(* Every variable keeps its range: the queues, slots and workers hold jobs, *)
(* hMutex is held by a thread, and no job's function can put a worker in a  *)
(* state the pool does not know.                                            *)
THEOREM TypeCorrect == Spec => []TypeOK
<1>1. Init => TypeOK
  BY InitType
<1>2. TypeOK /\ [Next]_vars => TypeOK'
  BY NextType
<1> QED BY <1>1, <1>2, PTL DEF Spec

----------------------------------------------------------------------------
(* hMutex, when the user functions return stat_suspend or stat_run          *)

(* mainthread tells workers to exit, or has told them: only with exit       *)
(* functions, after its loop, and once the slots are empty, which they then *)
(* stay.  A late caller can leave them full when mainthread ends its loop.  *)
Telling ==
  /\ UseExitFunc
  /\ mainPc \in {"exit", "exitscan", "wait", "kill", "free", "done"}
  /\ SlotsEmpty

(* Until then nobody reaches stat_exit before it has left its loop, so no   *)
(* worker skips the wait that takes the lock.  LockHeld alone is not        *)
(* inductive: a worker in stat_exit would pass the loop test unlocked.      *)
NoExitState ==
  \A w \in Worker :
    /\ workPc[w] # "exitfunc"
    /\ workPc[w] # "gone" => nThreadStat[w] \in {stat_suspend, stat_run}

(* LockHeld, thread by thread.                                              *)
HeldByEach ==
  /\ \A w \in Worker : workPc[w] = "awake" => hMutex = w
  /\ mainPc \in {"front", "pop", "exitscan"} => hMutex = "mainthread"
  /\ destroyPc = "slots" => hMutex = "atp_destroy"

LockInv ==
  /\ TypeOK
  /\ mainPc \in {"exit", "exitscan"} => UseExitFunc
  /\ ~Telling => NoExitState /\ HeldByEach

LEMMA HeldByEachIsLockHeld == HeldByEach <=> LockHeld
BY DEF HeldByEach, LockHeld, InCriticalSection

LEMMA InitLock == Init => LockInv
BY InitType DEF Init, LockInv, NoExitState, HeldByEach, stat_suspend, stat_run

LEMMA AddLock ==
  ASSUME NoExitState, HeldByEach, AddFrame
  PROVE  NoExitState' /\ HeldByEach'
BY DEF NoExitState, HeldByEach, AddFrame, lockVars, threadVars, mainCtl, destroyCtl

(* mainthread takes a free lock, or gives back its own; before it tells     *)
(* workers to exit it leaves their states alone.                            *)
LEMMA MainLockStep ==
  ASSUME TypeOK, NoExitState, HeldByEach, mainPc \notin {"exit", "exitscan"} \/ ~SlotsEmpty,
         Mainthread
  PROVE  NoExitState' /\ HeldByEach'
<1> USE DEF NoExitState, HeldByEach, MainFrame, lockVars, destroyCtl, queueVars
<1>0. ~("mainthread" \in Worker) /\ NULL \notin Worker \union {"mainthread", "atp_destroy"}
  BY PoolAssumption DEF PoolAssumption
<1>1. CASE MainLoop \/ MainScan \/ MainStop \/ MainCheckExit \/ MainKill \/ MainFree
  BY <1>1 DEF Mainthread, MainLoop, MainScan, MainStop, MainCheckExit, MainKill, MainFree
<1>2. CASE MainLock
  BY <1>0, <1>2 DEF Mainthread, MainLock, Lock
<1>3. CASE MainResignal \/ MainFront
  BY <1>3 DEF Mainthread, MainResignal, MainFront
<1>4. CASE MainPop
  BY <1>0, <1>4 DEF Mainthread, MainPop, Unlock
<1>5. CASE MainBroadcast
  BY <1>5 DEF Mainthread, MainBroadcast
<1>6. CASE MainExitLock
  BY <1>0, <1>6 DEF Mainthread, MainExitLock, Lock
<1>7. CASE MainExitScan
  <2>1. ~SlotsEmpty
    BY <1>7 DEF MainExitScan
  <2>2. \A w \in Worker : nThreadStat'[w] = nThreadStat[w]
    BY <1>7, <2>1 DEF MainExitScan
  <2> QED BY <1>0, <1>7, <2>2 DEF Mainthread, MainExitScan, Unlock
<1> QED BY <1>1, <1>2, <1>3, <1>4, <1>5, <1>6, <1>7 DEF Mainthread

(* A worker enters "awake" with a free lock and leaves it with its unlock.  *)
LEMMA WorkLockStep ==
  ASSUME TypeOK, NoExitState, HeldByEach, FuncResult \subseteq {stat_suspend, stat_run},
         NEW w \in Worker, Workthread(w) \/ Timeout(w) \/ (Elapse(w) /\ WorkFrame)
  PROVE  NoExitState' /\ HeldByEach'
<1> USE DEF TypeOK, NoExitState, HeldByEach, WorkFrame, lockVars, threadVars, mainCtl,
            destroyCtl, Goto, SetStat
<1>0. ("mainthread" \notin Worker) /\ "atp_destroy" \notin Worker /\ NULL \notin Worker
      /\ NULL # "mainthread" /\ NULL # "atp_destroy"
  BY PoolAssumption DEF PoolAssumption
<1>1. CASE WorkFrame /\ WorkerLoop(w)
  BY <1>1 DEF WorkerLoop, stat_suspend, stat_run, stat_exit
<1>2. CASE WorkFrame /\ (WorkerWait(w) \/ WorkerWaitFails(w))
  BY <1>2 DEF WorkerWait, WorkerWaitFails
<1>3. CASE WorkFrame /\ WorkerSuspend(w)
  BY <1>3 DEF WorkerSuspend
<1>4. CASE WorkFrame /\ WorkerTimeout(w)
  BY <1>4 DEF WorkerTimeout
<1>5. CASE WorkFrame /\ WorkerWake(w)
  BY <1>0, <1>5 DEF WorkerWake, Lock
<1>6. CASE WorkFrame /\ WorkerExit(w)
  BY <1>6 DEF WorkerExit, stat_suspend, stat_run, stat_exit
<1>7. CASE WorkFrame /\ WorkerIdle(w)
  BY <1>0, <1>7 DEF WorkerIdle, Unlock
<1>8. ASSUME NEW p \in Priority, WorkFrame, WorkerTake(w, p) PROVE NoExitState' /\ HeldByEach'
  BY <1>0, <1>8 DEF WorkerTake, Unlock
<1>9. ASSUME NEW r \in FuncResult, WorkFrame, WorkerFinish(w, r) \/ WorkerIdleReturn(w, r)
      PROVE NoExitState' /\ HeldByEach'
  BY <1>9 DEF WorkerFinish, WorkerIdleReturn
<1>10. CASE WorkFrame /\ WorkerExitReturn(w)
  BY <1>10 DEF WorkerExitReturn
<1>11. CASE WorkFrame /\ WorkerLast(w)
  BY <1>11 DEF WorkerLast
<1>12. CASE WorkFrame /\ WorkerCancelled(w)
  BY <1>0, <1>12 DEF WorkerCancelled, Lock
<1>13. CASE WorkFrame /\ Elapse(w)
  BY <1>13 DEF Elapse
<1> QED
  BY <1>1, <1>2, <1>3, <1>4, <1>5, <1>6, <1>7, <1>8, <1>9, <1>10, <1>11, <1>12, <1>13
     DEF Workthread, Timeout

(* atp_destroy locks around its work on the slots.                          *)
LEMMA DestroyLockStep ==
  ASSUME TypeOK, NoExitState, HeldByEach, DestroyFrame, Destroy \/ DestroyRest
  PROVE  NoExitState' /\ HeldByEach'
<1> USE DEF NoExitState, HeldByEach, DestroyFrame, DestroyGoto, threadVars, mainCtl
<1>0. "atp_destroy" \notin Worker /\ NULL \notin Worker
      /\ NULL # "mainthread" /\ NULL # "atp_destroy"
  BY PoolAssumption DEF PoolAssumption
<1>1. CASE Destroy
  BY <1>1 DEF Destroy
<1>2. CASE DestroyDrain \/ DestroyClear
  <2>1. ASSUME Advance, destroyPc \in {"drainslot", "drainqueue", "clear"}
        PROVE  destroyPc' # "slots"
    BY <2>1 DEF Advance, Following
  <2> QED BY <1>2, <2>1 DEF DestroyDrain, DestroyClear
<1>3. CASE DestroyClearFront \/ DestroyClearPop
  BY <1>3 DEF DestroyClearFront, DestroyClearPop
<1>4. CASE DestroyLock
  BY <1>0, <1>4 DEF DestroyLock, Lock
<1>5. CASE DestroySlots
  BY <1>0, <1>5 DEF DestroySlots, Unlock
<1>6. CASE DestroyStop \/ DestroyJoin
  BY <1>6 DEF DestroyStop, DestroyJoin
<1> QED BY <1>1, <1>2, <1>3, <1>4, <1>5, <1>6 DEF DestroyRest

(* Workers only empty slots.                                                *)
LEMMA WorkSlots ==
  ASSUME TypeOK, NEW w \in Worker,
         Workthread(w) \/ Timeout(w) \/ (Elapse(w) /\ WorkFrame)
  PROVE  \A p \in Priority : g_next'[p] \in {g_next[p], NULL}
<1>1. ASSUME NEW q \in Priority, WorkerTake(w, q) PROVE g_next' = [g_next EXCEPT ![q] = NULL]
  BY <1>1 DEF WorkerTake, EmptySlot
<1>2. (\E q \in Priority : WorkerTake(w, q)) \/ UNCHANGED g_next
  BY DEF Workthread, Timeout, WorkerLoop, WorkerWait, WorkerWaitFails, WorkerSuspend, WorkerTimeout,
         WorkerWake, WorkerExit, WorkerIdle, WorkerFinish, WorkerIdleReturn, WorkerExitReturn,
         WorkerLast, WorkerCancelled, Elapse
<1> QED BY <1>1, <1>2 DEF TypeOK

(* What mainthread has told stays told, and without exit functions it tells *)
(* nothing.                                                                 *)
LEMMA TellingStep ==
  ASSUME TypeOK, mainPc \in {"exit", "exitscan"} => UseExitFunc, [Next]_vars
  PROVE  (mainPc \in {"exit", "exitscan"} => UseExitFunc)' /\ (Telling => Telling')
<1> USE DEF Telling, SlotsEmpty
<1>1. CASE Mainthread
  BY <1>1 DEF Mainthread, MainLoop, MainScan, MainLock, MainResignal, MainFront, MainPop,
              MainBroadcast, MainExitLock, MainExitScan, MainStop, MainCheckExit, MainKill, MainFree,
              queueVars
<1>2. CASE AddFrame \/ UNCHANGED vars
  BY <1>2 DEF AddFrame, vars, mainCtl, queueVars
<1>3. ASSUME NEW w \in Worker, Workthread(w) \/ Timeout(w) \/ (Elapse(w) /\ WorkFrame)
      PROVE  UNCHANGED mainPc /\ (Telling => Telling')
  <2>1. UNCHANGED mainPc
    BY <1>3 DEF Workthread, Timeout, WorkFrame, mainCtl
  <2>2. \A p \in Priority : g_next'[p] \in {g_next[p], NULL}
    BY <1>3, WorkSlots
  <2> QED BY <2>1, <2>2
<1>4. CASE DestroyFrame /\ (Destroy \/ DestroyRest)
  <2>1. UNCHANGED mainPc
    BY <1>4 DEF DestroyFrame, mainCtl
  <2>2. UNCHANGED g_next \/ \A p \in Priority : g_next'[p] = NULL
    BY <1>4 DEF Destroy, DestroyRest, DestroyDrain, DestroyClear, DestroyClearFront,
                DestroyClearPop, DestroyLock, DestroySlots, DestroyStop, DestroyJoin, ClearSlots,
                queueVars
  <2> QED BY <2>1, <2>2
<1> QED BY <1>1, <1>2, <1>3, <1>4 DEF Next, Push, DestroyRest, Stopped

LEMMA LockStep ==
  ASSUME FuncResult \subseteq {stat_suspend, stat_run}, LockInv, [Next]_vars
  PROVE  LockInv'
<1>1. TypeOK' /\ (mainPc \in {"exit", "exitscan"} => UseExitFunc)' /\ (Telling => Telling')
  BY NextType, TellingStep DEF LockInv
<1> SUFFICES ASSUME ~Telling PROVE NoExitState' /\ HeldByEach'
  BY <1>1 DEF LockInv
<1>2. TypeOK /\ NoExitState /\ HeldByEach /\ (mainPc \notin {"exit", "exitscan"} \/ ~SlotsEmpty)
  BY DEF LockInv, Telling
<1>3. CASE UNCHANGED vars
  BY <1>2, <1>3 DEF NoExitState, HeldByEach, vars, lockVars, threadVars, mainCtl, destroyCtl
<1>4. CASE Next
  <2>1. CASE AddFrame
    BY <1>2, <2>1, AddLock
  <2>2. CASE Mainthread
    BY <1>2, <2>2, MainLockStep
  <2>3. CASE \E w \in Worker : Workthread(w) \/ Timeout(w)
    BY <1>2, <2>3, WorkLockStep
  <2>4. CASE \E w \in Worker : Elapse(w) /\ WorkFrame
    BY <1>2, <2>4, WorkLockStep
  <2>5. CASE DestroyFrame /\ (Destroy \/ DestroyRest)
    BY <1>2, <2>5, DestroyLockStep
  <2>6. CASE Stopped
    BY <1>3, <2>6 DEF Stopped
  <2> QED BY <1>4, <2>1, <2>2, <2>3, <2>4, <2>5, <2>6 DEF Next, Push, DestroyRest
<1> QED BY <1>3, <1>4

(* Without exit functions, and for user functions that return stat_suspend  *)
(* or stat_run, every thread between lock and unlock of hMutex holds it:    *)
(* two of them are never there together, however threads are scheduled,     *)
(* time out, are cancelled or see their wait fail.                          *)
THEOREM LockSafe ==
  ASSUME ~UseExitFunc, FuncResult \subseteq {stat_suspend, stat_run}
  PROVE  Spec => []LockHeld
<1>1. Init => LockInv
  BY InitLock
<1>2. LockInv /\ [Next]_vars => LockInv'
  BY LockStep
<1>3. LockInv => LockHeld
  BY HeldByEachIsLockHeld DEF LockInv, Telling
<1> QED BY <1>1, <1>2, <1>3, PTL DEF Spec

(* With exit functions the same holds until mainthread tells workers to     *)
(* exit, which it does after its loop and past empty slots: no job is       *)
(* moved, taken or freed from a slot without the lock.                      *)
THEOREM LockUntilTold ==
  ASSUME FuncResult \subseteq {stat_suspend, stat_run}
  PROVE  Spec => [](LockHeld \/ Telling)
<1>1. LockInv /\ [Next]_vars => LockInv'
  BY LockStep
<1>2. LockInv => LockHeld \/ Telling
  BY HeldByEachIsLockHeld DEF LockInv
<1> QED BY InitLock, <1>1, <1>2, PTL DEF Spec

----------------------------------------------------------------------------
(* The end of g_thread, when endwaittime is longer than any wait            *)

(* mainthread stops waiting only for workers that are gone, and frees the   *)
(* table only when it waits for nobody.                                     *)
ReapInv ==
  /\ \A w \in Worker : ~overtime[w]
  /\ \A w \in szThreadStatus : workPc[w] = "gone"
  /\ mainPc \in {"kill", "free", "done"} => szThreadStatus = Worker
  /\ tableFreed => mainPc = "done"

LEMMA InitReap == ~EndWaitExpires /\ Init => ReapInv
BY DEF Init, ReapInv

LEMMA MainReap ==
  ASSUME LockInv, ReapInv, ~UseExitFunc, Mainthread
  PROVE  ReapInv'
<1> USE DEF LockInv, TypeOK, Telling, ReapInv, MainFrame, reapVars
<1>1. CASE MainCheckExit
  <2>1. \A w \in Worker : Waitless(w) => workPc[w] = "gone"
    <3> SUFFICES ASSUME NEW w \in Worker, Waitless(w) PROVE workPc[w] = "gone"
      OBVIOUS
    <3>1. nThreadStat[w] >= stat_exit
      BY Zenon DEF Waitless
    <3>2. nThreadStat[w] \notin {stat_suspend, stat_run}
      BY <3>1 DEF stat_suspend, stat_run, stat_exit
    <3> QED BY <3>2 DEF NoExitState
  <2> QED BY <1>1, <2>1 DEF Mainthread, MainCheckExit
<1>2. CASE MainLoop \/ MainScan \/ MainStop \/ MainFront \/ MainPop
  BY <1>2 DEF Mainthread, MainLoop, MainScan, MainStop, MainFront, MainPop
<1>3. CASE MainLock \/ MainResignal \/ MainBroadcast
  BY <1>3 DEF Mainthread, MainLock, MainResignal, MainBroadcast
<1>4. CASE MainExitLock \/ MainExitScan
  BY <1>4 DEF MainExitLock, MainExitScan
<1>5. CASE MainKill \/ MainFree
  BY <1>5 DEF Mainthread, MainKill, MainFree
<1> QED BY <1>1, <1>2, <1>3, <1>4, <1>5 DEF Mainthread

(* A worker that is gone takes no more steps.                               *)
LEMMA WorkReap ==
  ASSUME TypeOK, ReapInv, ~EndWaitExpires,
         NEW w \in Worker, Workthread(w) \/ Timeout(w) \/ (Elapse(w) /\ WorkFrame)
  PROVE  ReapInv'
<1> USE DEF TypeOK, ReapInv, WorkFrame, reapVars, mainCtl, threadVars, Goto
<1> DEFINE Stays == workPc' = workPc \/ (workPc[w] # "gone" /\ \E l : workPc' = [workPc EXCEPT ![w] = l])
<1>1. ASSUME WorkFrame, overtime' = overtime \/ overtime' = [overtime EXCEPT ![w] = FALSE], Stays
      PROVE  ReapInv'
  BY <1>1
<1>2. CASE WorkFrame /\ (WorkerLoop(w) \/ WorkerWait(w) \/ WorkerWaitFails(w) \/ WorkerSuspend(w))
  BY <1>1, <1>2 DEF WorkerLoop, WorkerWait, WorkerWaitFails, WorkerSuspend
<1>3. CASE WorkFrame /\ (WorkerTimeout(w) \/ WorkerWake(w) \/ WorkerExit(w) \/ WorkerIdle(w))
  BY <1>1, <1>3 DEF WorkerTimeout, WorkerWake, WorkerExit, WorkerIdle, Begin
<1>4. ASSUME NEW p \in Priority, WorkFrame, WorkerTake(w, p) PROVE ReapInv'
  BY <1>1, <1>4 DEF WorkerTake, Begin
<1>5. ASSUME NEW r \in FuncResult, WorkFrame, WorkerFinish(w, r) \/ WorkerIdleReturn(w, r)
      PROVE ReapInv'
  BY <1>1, <1>5 DEF WorkerFinish, WorkerIdleReturn
<1>6. CASE WorkFrame /\ (WorkerExitReturn(w) \/ WorkerLast(w))
  BY <1>1, <1>6 DEF WorkerExitReturn, WorkerLast
<1>7. CASE WorkFrame /\ WorkerCancelled(w)
  <2>1. workPc[w] # "gone" /\ workPc' = [workPc EXCEPT ![w] = "gone"] /\ overtime' = overtime
    BY <1>7 DEF WorkerCancelled
  <2> QED BY <1>1, <1>7, <2>1
<1>8. CASE WorkFrame /\ Elapse(w)
  BY <1>8 DEF Elapse
<1> QED
  BY <1>2, <1>3, <1>4, <1>5, <1>6, <1>7, <1>8 DEF Workthread, Timeout

LEMMA ReapStep ==
  ASSUME ~UseExitFunc, ~EndWaitExpires, LockInv, ReapInv, [Next]_vars
  PROVE  ReapInv'
<1> USE DEF ReapInv, AddFrame, DestroyFrame, threadVars, reapVars, mainCtl
<1>1. CASE UNCHANGED vars
  BY <1>1 DEF vars
<1>2. CASE Next
  <2>1. CASE AddFrame \/ DestroyFrame
    BY <2>1
  <2>2. CASE Mainthread
    BY <2>2, MainReap
  <2>3. CASE \E w \in Worker : Workthread(w) \/ Timeout(w)
    BY <2>3, WorkReap DEF LockInv
  <2>4. CASE \E w \in Worker : Elapse(w) /\ WorkFrame
    BY <2>4, WorkReap DEF LockInv
  <2>5. CASE Stopped
    BY <1>1, <2>5 DEF Stopped
  <2> QED BY <1>2, <2>1, <2>2, <2>3, <2>4, <2>5 DEF Next, Push, DestroyRest
<1> QED BY <1>1, <1>2

(* Without exit functions and with an endwaittime that does not run out,    *)
(* mainthread frees g_thread only after every worker's last access to it.   *)
THEOREM TableSafe ==
  ASSUME ~UseExitFunc, ~EndWaitExpires, FuncResult \subseteq {stat_suspend, stat_run}
  PROVE  Spec => []TableOutlivesWorkers
<1>1. Init => LockInv /\ ReapInv
  BY InitLock, InitReap
<1>2. (LockInv /\ ReapInv) /\ [Next]_vars => (LockInv /\ ReapInv)'
  BY LockStep, ReapStep
<1>3. LockInv /\ ReapInv => TableOutlivesWorkers
  BY DEF LockInv, TypeOK, ReapInv, TableOutlivesWorkers
<1> QED BY <1>1, <1>2, <1>3, PTL DEF Spec
----------------------------------------------------------------------------
(* What atp_destroy leaves, when atp_addQueue is not called during it       *)

(* A queue stays empty once atp_destroy has cleared it, and the slots once  *)
(* it has freed them: mainthread could only fill a slot from a queue.       *)
Cleared(p) ==
  \/ destroyPc \in {"locking", "slots", "stop", "join", "returned"}
  \/ destroyPc \in {"clear", "clearfront", "clearpop"} /\ clearing = "normal" /\ p = "realtime"

LeftInv ==
  /\ destroyPc # "uncalled" => \A a \in Producer : hand[a] = NULL
  /\ \A p \in Priority : Cleared(p) => g_queue[p] = <<>>
  /\ destroyPc \in {"stop", "join", "returned"} => SlotsEmpty
  /\ ~g_mainThread_run => destroyPc \in {"join", "returned"}
  /\ mainPc \in {"broadcast", "exit", "exitscan", "stop", "wait", "kill", "free", "done"} =>
       ~g_mainThread_run

LEMMA InitLeft == Init => LeftInv
BY DEF Init, LeftInv, Cleared, SlotsEmpty, Priority

(* Callers: none is left once atp_destroy was called.                       *)
LEMMA AddLeft ==
  ASSUME TypeOK, LeftInv, ~LateProducers, AddFrame,
         \/ \E a \in Producer, j \in Job : AddQueueCheck(a, j)
         \/ \E a \in Producer : AddQueuePush(a)
         \/ \E j \in Job : AddQueueRefuse(j)
  PROVE  LeftInv'
<1> USE DEF TypeOK, LeftInv, Cleared, SlotsEmpty, AddFrame, runVars, mainCtl, destroyCtl
<1>1. ASSUME NEW a \in Producer, NEW j \in Job, AddQueueCheck(a, j) PROVE LeftInv'
  BY <1>1 DEF AddQueueCheck
<1>2. ASSUME NEW a \in Producer, AddQueuePush(a) PROVE LeftInv'
  <2>1. destroyPc = "uncalled"
    BY <1>2 DEF AddQueuePush
  <2> QED BY <1>2, <2>1 DEF AddQueuePush
<1>3. ASSUME NEW j \in Job, AddQueueRefuse(j) PROVE LeftInv'
  BY <1>3 DEF AddQueueRefuse
<1> QED BY <1>1, <1>2, <1>3

(* mainthread only shortens the queues, and front() of an empty one crashes.*)
LEMMA MainLeft ==
  ASSUME TypeOK, LeftInv, Mainthread
  PROVE  LeftInv'
<1> USE DEF TypeOK, LeftInv, Cleared, SlotsEmpty, MainFrame, queueVars, runVars, addVars, destroyCtl
<1>1. CASE MainLoop \/ MainScan
  BY <1>1 DEF Mainthread, MainLoop, MainScan
<1>2. CASE MainLock \/ MainResignal
  BY <1>2 DEF Mainthread, MainLock, MainResignal
<1>3. CASE MainFront
  <2>1. CASE g_queue[serving] = <<>>
    BY <1>3, <2>1 DEF Mainthread, MainFront
  <2>2. CASE g_queue[serving] # <<>>
    <3>1. destroyPc \notin {"stop", "join", "returned"}
      BY <2>2
    <3> QED BY <1>3, <2>2, <3>1 DEF Mainthread, MainFront
  <2> QED BY <2>1, <2>2
<1>4. CASE MainPop
  <2>1. \A p \in Priority : g_queue[p] = <<>> => g_queue'[p] = <<>>
    BY <1>4 DEF MainPop, Pop
  <2> QED BY <1>4, <2>1 DEF Mainthread, MainPop
<1>5. CASE MainBroadcast \/ MainExitLock \/ MainExitScan \/ MainStop
  BY <1>5 DEF Mainthread, MainBroadcast, MainExitLock, MainExitScan, MainStop
<1>6. CASE MainCheckExit \/ MainKill \/ MainFree
  BY <1>6 DEF Mainthread, MainCheckExit, MainKill, MainFree
<1> QED BY <1>1, <1>2, <1>3, <1>4, <1>5, <1>6 DEF Mainthread

LEMMA WorkLeft ==
  ASSUME TypeOK, LeftInv, NEW w \in Worker,
         Workthread(w) \/ Timeout(w) \/ (Elapse(w) /\ WorkFrame)
  PROVE  LeftInv'
<1>1. WorkFrame
  BY DEF Workthread, Timeout
<1> QED BY <1>1, WorkSlots DEF LeftInv, Cleared, SlotsEmpty, WorkFrame, runVars, addVars, mainCtl,
                               destroyCtl

(* atp_destroy goes on only past a queue it has seen empty.                 *)
LEMMA DestroyLeft ==
  ASSUME TypeOK, LeftInv, ~LateProducers, ~crashed, DestroyFrame, Destroy \/ DestroyRest
  PROVE  LeftInv'
<1> USE DEF TypeOK, LeftInv, Cleared, SlotsEmpty, DestroyFrame, DestroyGoto, queueVars, addVars,
            mainCtl
<1>1. CASE Destroy
  BY <1>1 DEF Destroy
<1>2. CASE DestroyDrain
  <2>1. ASSUME Advance
        PROVE  /\ destroyPc' \in {"drainslot", "drainqueue", "clear"}
               /\ destroyPc' = "clear" => clearing' = "realtime"
    BY <1>2, <2>1 DEF DestroyDrain, Advance, Following
  <2> QED BY <1>2, <2>1 DEF DestroyDrain
<1>3. CASE DestroyClear
  <2>1. CASE g_queue[clearing] = <<>> /\ Advance
    <3>1. CASE clearing = "realtime"
      BY <1>3, <2>1, <3>1 DEF DestroyClear, Advance
    <3>2. CASE clearing = "normal"
      <4>1. \A p \in Priority : g_queue[p] = <<>>
        BY <1>3, <2>1, <3>2 DEF DestroyClear, Priority
      <4>2. destroyPc' = "locking"
        BY <1>3, <2>1, <3>2 DEF DestroyClear, Advance, Following
      <4> QED BY <1>3, <4>1, <4>2 DEF DestroyClear
    <3> QED BY <3>1, <3>2 DEF Priority
  <2>2. CASE DestroyGoto("clearfront", clearing)
    BY <1>3, <2>2 DEF DestroyClear
  <2> QED BY <1>3, <2>1, <2>2 DEF DestroyClear
<1>4. CASE DestroyClearFront
  BY <1>4 DEF DestroyClearFront
<1>5. CASE DestroyClearPop
  <2>1. \A p \in Priority : g_queue[p] = <<>> => g_queue'[p] = <<>>
    BY <1>5 DEF DestroyClearPop, Pop
  <2> QED BY <1>5, <2>1 DEF DestroyClearPop
<1>6. CASE DestroyLock
  BY <1>6 DEF DestroyLock
<1>7. CASE DestroySlots
  BY <1>7 DEF DestroySlots, ClearSlots
<1>8. CASE DestroyStop \/ DestroyJoin
  BY <1>8 DEF DestroyStop, DestroyJoin
<1> QED BY <1>1, <1>2, <1>3, <1>4, <1>5, <1>6, <1>7, <1>8 DEF DestroyRest

LEMMA LeftStep ==
  ASSUME ~LateProducers, TypeOK, LeftInv, [Next]_vars
  PROVE  LeftInv'
<1>1. CASE UNCHANGED vars
  BY <1>1 DEF LeftInv, Cleared, SlotsEmpty, vars, queueVars, runVars, addVars, mainCtl, destroyCtl
<1>2. CASE Next
  <2>1. CASE \E a \in Producer, j \in Job : AddQueueCheck(a, j) /\ AddFrame
    BY <2>1, AddLeft
  <2>2. CASE \E a \in Producer : Push(a)
    BY <2>2, AddLeft DEF Push
  <2>3. CASE \E j \in Job : AddQueueRefuse(j) /\ AddFrame
    BY <2>3, AddLeft
  <2>4. CASE Mainthread
    BY <2>4, MainLeft
  <2>5. CASE \E w \in Worker : Workthread(w) \/ Timeout(w)
    BY <2>5, WorkLeft
  <2>6. CASE \E w \in Worker : Elapse(w) /\ WorkFrame
    BY <2>6, WorkLeft
  <2>7. CASE ~crashed /\ Destroy /\ DestroyFrame
    BY <2>7, DestroyLeft
  <2>8. CASE ~crashed /\ DestroyRest
    BY <2>8, DestroyLeft DEF DestroyRest
  <2>9. CASE Stopped
    BY <1>1, <2>9 DEF Stopped
  <2> QED BY <1>2, <2>1, <2>2, <2>3, <2>4, <2>5, <2>6, <2>7, <2>8, <2>9 DEF Next
<1> QED BY <1>1, <1>2

(* When atp_destroy returns, by either end code and whatever the user       *)
(* functions return, queues and slots are empty for the next atp_create;    *)
(* only a caller that pushes during atp_destroy can leave something.        *)
THEOREM NothingLeft ==
  ASSUME ~LateProducers
  PROVE  Spec => []NothingLeftBehind
<1>1. Init => TypeOK /\ LeftInv
  BY InitType, InitLeft
<1>2. (TypeOK /\ LeftInv) /\ [Next]_vars => (TypeOK /\ LeftInv)'
  BY NextType, LeftStep
<1>3. LeftInv => NothingLeftBehind
  BY DEF LeftInv, Cleared, SlotsEmpty, NothingLeftBehind
<1> QED BY <1>1, <1>2, <1>3, PTL DEF Spec
----------------------------------------------------------------------------
(* Cancellation                                                             *)

(* A worker in a job's function is in stat_run, so mainthread gives up on it *)
(* only for its time, which is the time of this job: none is started any    *)
(* more once mainthread waits.                                              *)
LateInv ==
  /\ \A w \in Worker : workPc[w] = "job" => nThreadStat[w] = stat_run /\ overtime[w] = late[w]
  /\ \A w \in szThreadStatus : workPc[w] = "job" => late[w]
  /\ szThreadStatus # {} => mainPc \in {"wait", "kill", "free", "done"}
  /\ mainPc \in {"kill", "free", "done"} => szThreadStatus = Worker

LEMMA InitLate == Init => LateInv
BY DEF Init, LateInv

LEMMA MainLate ==
  ASSUME TypeOK, LateInv, Mainthread
  PROVE  LateInv'
<1> USE DEF TypeOK, LateInv, MainFrame, reapVars
<1>1. CASE MainCheckExit
  <2>1. ASSUME NEW w \in Worker, Waitless(w), workPc[w] = "job" PROVE late[w]
    <3>1. ~(nThreadStat[w] >= stat_exit)
      BY <2>1 DEF stat_run, stat_exit
    <3> QED BY <2>1, <3>1, Zenon DEF Waitless
  <2> QED BY <1>1, <2>1 DEF Mainthread, MainCheckExit
<1>2. CASE MainExitScan
  <2>1. \A w \in Worker : nThreadStat[w] = stat_run => nThreadStat'[w] = stat_run
    BY <1>2 DEF MainExitScan, stat_run
  <2> QED BY <1>2, <2>1 DEF Mainthread, MainExitScan
<1>3. CASE MainLoop \/ MainScan \/ MainLock \/ MainResignal
  BY <1>3 DEF Mainthread, MainLoop, MainScan, MainLock, MainResignal
<1>4. CASE MainFront \/ MainPop \/ MainBroadcast \/ MainExitLock \/ MainStop
  BY <1>4 DEF Mainthread, MainFront, MainPop, MainBroadcast, MainExitLock, MainStop
<1>5. CASE MainKill \/ MainFree
  BY <1>5 DEF Mainthread, MainKill, MainFree
<1> QED BY <1>1, <1>2, <1>3, <1>4, <1>5 DEF Mainthread

(* A worker enters "job" with both clocks reset and mainthread not waiting. *)
LEMMA WorkLate ==
  ASSUME TypeOK, LeftInv, LateInv, NEW w \in Worker,
         Workthread(w) \/ Timeout(w) \/ (Elapse(w) /\ WorkFrame)
  PROVE  LateInv'
<1> USE DEF TypeOK, LateInv, WorkFrame, reapVars, mainCtl, threadVars, Goto, SetStat
<1>1. CASE WorkFrame /\ (WorkerLoop(w) \/ WorkerWait(w) \/ WorkerWaitFails(w) \/ WorkerSuspend(w))
  BY <1>1 DEF WorkerLoop, WorkerWait, WorkerWaitFails, WorkerSuspend
<1>2. CASE WorkFrame /\ (WorkerTimeout(w) \/ WorkerWake(w) \/ WorkerExit(w) \/ WorkerIdle(w))
  BY <1>2 DEF WorkerTimeout, WorkerWake, WorkerExit, WorkerIdle, Begin
<1>3. ASSUME NEW p \in Priority, WorkFrame, WorkerTake(w, p) PROVE LateInv'
  <2>1. ~SlotsEmpty
    BY <1>3 DEF WorkerTake, NextIs, SlotsEmpty
  <2>2. szThreadStatus = {}
    BY <2>1 DEF LeftInv
  <2> QED BY <1>3, <2>2 DEF WorkerTake, Begin
<1>4. ASSUME NEW r \in FuncResult, WorkFrame, WorkerFinish(w, r) \/ WorkerIdleReturn(w, r)
      PROVE LateInv'
  BY <1>4 DEF WorkerFinish, WorkerIdleReturn
<1>5. CASE WorkFrame /\ (WorkerExitReturn(w) \/ WorkerLast(w))
  BY <1>5 DEF WorkerExitReturn, WorkerLast
<1>6. CASE WorkFrame /\ WorkerCancelled(w)
  BY <1>6 DEF WorkerCancelled
<1>7. CASE WorkFrame /\ Elapse(w)
  BY <1>7 DEF Elapse
<1> QED
  BY <1>1, <1>2, <1>3, <1>4, <1>5, <1>6, <1>7 DEF Workthread, Timeout

LEMMA LateStep ==
  ASSUME TypeOK, LeftInv, LateInv, [Next]_vars
  PROVE  LateInv'
<1> USE DEF LateInv, AddFrame, DestroyFrame, threadVars, reapVars, mainCtl
<1>1. CASE UNCHANGED vars
  BY <1>1 DEF vars
<1>2. CASE Next
  <2>1. CASE AddFrame \/ DestroyFrame
    BY <2>1
  <2>2. CASE Mainthread
    BY <2>2, MainLate
  <2>3. CASE \E w \in Worker : Workthread(w) \/ Timeout(w)
    BY <2>3, WorkLate
  <2>4. CASE \E w \in Worker : Elapse(w) /\ WorkFrame
    BY <2>4, WorkLate
  <2>5. CASE Stopped
    BY <1>1, <2>5 DEF Stopped
  <2> QED BY <1>2, <2>1, <2>2, <2>3, <2>4, <2>5 DEF Next, Push, DestroyRest
<1> QED BY <1>1, <1>2

(* The only step that cancels.                                              *)
LEMMA OnlyMainKills == [Next]_vars => UNCHANGED cancelled \/ MainKill
<1> SUFFICES ASSUME [Next]_vars PROVE UNCHANGED cancelled \/ MainKill
  OBVIOUS
<1>1. CASE Mainthread
  BY <1>1 DEF Mainthread, MainLoop, MainScan, MainLock, MainResignal, MainFront, MainPop,
              MainBroadcast, MainExitLock, MainExitScan, MainStop, MainCheckExit, MainFree, reapVars
<1>2. CASE AddFrame \/ WorkFrame \/ DestroyFrame \/ UNCHANGED vars
  BY <1>2 DEF AddFrame, WorkFrame, DestroyFrame, vars, reapVars
<1> QED BY <1>1, <1>2 DEF Next, Push, Workthread, Timeout, DestroyRest, Stopped

(* mainthread cancels a worker inside a job's function only when that call  *)
(* has lasted g_endwaittime (README.md:84), whatever user functions return  *)
(* and however waits end, unless atp_addQueue is called during atp_destroy. *)
THEOREM CancelledLate ==
  ASSUME ~LateProducers
  PROVE  Spec => JobCancelledLate
<1> DEFINE Inv == TypeOK /\ LeftInv /\ LateInv
<1>1. Init => Inv
  BY InitType, InitLeft, InitLate
<1>2. Inv /\ [Next]_vars => Inv'
  BY NextType, LeftStep, LateStep
<1>3. Inv /\ [Next]_vars => [\A w \in cancelled' \ cancelled : workPc[w] = "job" => late[w]]_vars
  <2> SUFFICES ASSUME Inv, [Next]_vars, NEW w \in cancelled' \ cancelled, workPc[w] = "job"
               PROVE  late[w]
    OBVIOUS
  <2>1. MainKill
    BY OnlyMainKills
  <2> QED BY <2>1 DEF MainKill, LateInv
<1> QED BY <1>1, <1>2, <1>3, PTL DEF Spec, JobCancelledLate

----------------------------------------------------------------------------
(* Exit functions                                                           *)

(* stat_exited is only set on the way out, and the run flag of the workers  *)
(* only cleared when all have it.                                           *)
ExitInv ==
  /\ \A w \in Worker : nThreadStat[w] = stat_exited => workPc[w] \in {"last", "gone"}
  /\ mainPc # "stop"
  /\ ~g_workThread_run => \A w \in Worker : workPc[w] \in {"last", "gone"}

LEMMA InitExit == Init => ExitInv
BY DEF Init, ExitInv, stat_suspend, stat_exited

LEMMA MainExit ==
  ASSUME TypeOK, ExitInv, UseExitFunc, ~EndWaitExpires, Mainthread
  PROVE  ExitInv'
<1> USE DEF TypeOK, ExitInv, MainFrame, runVars
<1>1. CASE MainExitScan
  <2>1. \A w \in Worker : nThreadStat'[w] = stat_exited => nThreadStat[w] = stat_exited
    BY <1>1 DEF MainExitScan, stat_exited, stat_exit
  <2>2. ASSUME AllExited PROVE \A w \in Worker : workPc[w] \in {"last", "gone"}
    <3> SUFFICES ASSUME NEW w \in Worker PROVE nThreadStat[w] = stat_exited
      OBVIOUS
    <3>1. nThreadStat[w] \in ATP_STAT
      OBVIOUS
    <3>2. nThreadStat[w] >= stat_exited
      BY <2>2 DEF AllExited
    <3> QED BY <3>1, <3>2 DEF ATP_STAT, stat_suspend, stat_run, stat_exit, stat_exited
  <2>3. g_workThread_run' = g_workThread_run \/ AllExited
    BY <1>1 DEF MainExitScan
  <2>4. mainPc' # "stop" /\ UNCHANGED workPc
    BY <1>1 DEF Mainthread, MainExitScan
  <2> QED BY <2>1, <2>2, <2>3, <2>4
<1>2. CASE MainLoop \/ MainScan \/ MainLock \/ MainResignal
  BY <1>2 DEF Mainthread, MainLoop, MainScan, MainLock, MainResignal
<1>3. CASE MainFront \/ MainPop \/ MainBroadcast \/ MainExitLock \/ MainStop
  BY <1>3 DEF Mainthread, MainFront, MainPop, MainBroadcast, MainExitLock, MainStop
<1>4. CASE MainCheckExit \/ MainKill \/ MainFree
  BY <1>4 DEF Mainthread, MainCheckExit, MainKill, MainFree
<1> QED BY <1>1, <1>2, <1>3, <1>4 DEF Mainthread

LEMMA WorkExit ==
  ASSUME TypeOK, ExitInv, stat_exited \notin FuncResult, NEW w \in Worker,
         Workthread(w) \/ Timeout(w) \/ (Elapse(w) /\ WorkFrame)
  PROVE  ExitInv'
<1> USE DEF TypeOK, ExitInv, WorkFrame, runVars, mainCtl, threadVars, Goto, SetStat
<1>1. CASE WorkFrame /\ (WorkerLoop(w) \/ WorkerWait(w) \/ WorkerWaitFails(w))
  BY <1>1 DEF WorkerLoop, WorkerWait, WorkerWaitFails
<1>2. CASE WorkFrame /\ WorkerSuspend(w)
  BY <1>2 DEF WorkerSuspend, stat_suspend, stat_exited
<1>3. CASE WorkFrame /\ (WorkerTimeout(w) \/ WorkerWake(w) \/ WorkerExit(w))
  BY <1>3 DEF WorkerTimeout, WorkerWake, WorkerExit
<1>4. CASE WorkFrame /\ WorkerIdle(w)
  BY <1>4 DEF WorkerIdle, stat_run, stat_exited
<1>5. ASSUME NEW p \in Priority, WorkFrame, WorkerTake(w, p) PROVE ExitInv'
  BY <1>5 DEF WorkerTake, stat_run, stat_exited
<1>6. ASSUME NEW r \in FuncResult, WorkFrame, WorkerFinish(w, r) \/ WorkerIdleReturn(w, r)
      PROVE ExitInv'
  BY <1>6 DEF WorkerFinish, WorkerIdleReturn
<1>7. CASE WorkFrame /\ (WorkerExitReturn(w) \/ WorkerLast(w))
  BY <1>7 DEF WorkerExitReturn, WorkerLast
<1>8. CASE WorkFrame /\ WorkerCancelled(w)
  BY <1>8 DEF WorkerCancelled
<1>9. CASE WorkFrame /\ Elapse(w)
  BY <1>9 DEF Elapse
<1> QED
  BY <1>1, <1>2, <1>3, <1>4, <1>5, <1>6, <1>7, <1>8, <1>9 DEF Workthread, Timeout

LEMMA ExitStep ==
  ASSUME UseExitFunc, ~EndWaitExpires, stat_exited \notin FuncResult, TypeOK, ExitInv, [Next]_vars
  PROVE  ExitInv'
<1> USE DEF ExitInv, AddFrame, DestroyFrame, threadVars, runVars, mainCtl
<1>1. CASE UNCHANGED vars
  BY <1>1 DEF vars
<1>2. CASE Next
  <2>1. CASE AddFrame \/ DestroyFrame
    BY <2>1
  <2>2. CASE Mainthread
    BY <2>2, MainExit
  <2>3. CASE \E w \in Worker : Workthread(w) \/ Timeout(w)
    BY <2>3, WorkExit
  <2>4. CASE \E w \in Worker : Elapse(w) /\ WorkFrame
    BY <2>4, WorkExit
  <2>5. CASE Stopped
    BY <1>1, <2>5 DEF Stopped
  <2> QED BY <1>2, <2>1, <2>2, <2>3, <2>4, <2>5 DEF Next, Push, DestroyRest
<1> QED BY <1>1, <1>2

(* With exit functions and an endwaittime that does not run out, mainthread *)
(* clears the workers' run flag only after every worker has returned from   *)
(* its exit function, if no user function returns stat_exited itself.       *)
THEOREM ExitFuncSafe ==
  ASSUME stat_exited \notin FuncResult
  PROVE  Spec => []ExitFuncFirst
<1>1. CASE UseExitFunc /\ ~EndWaitExpires
  <2>1. Init => TypeOK /\ ExitInv
    BY InitType, InitExit
  <2>2. (TypeOK /\ ExitInv) /\ [Next]_vars => (TypeOK /\ ExitInv)'
    BY <1>1, NextType, ExitStep
  <2>3. ExitInv => ExitFuncFirst
    BY DEF ExitInv, ExitFuncFirst
  <2> QED BY <2>1, <2>2, <2>3, PTL DEF Spec
<1>2. CASE ~(UseExitFunc /\ ~EndWaitExpires)
  <2>1. ExitFuncFirst
    BY <1>2 DEF ExitFuncFirst
  <2> QED BY <2>1, PTL
<1> QED BY <1>1, <1>2
==============================================================================
