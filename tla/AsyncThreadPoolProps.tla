------------------------ MODULE AsyncThreadPoolProps ------------------------
(***************************************************************************)
(* What AsyncThreadPool is expected to guarantee, and its refinement of     *)
(* JobPool.                                                                 *)
(***************************************************************************)
EXTENDS AsyncThreadPool

(* The ranges of the variables.                                             *)
TypeOK ==
  /\ g_queue \in [Priority -> Seq(Job)]
  /\ g_next \in [Priority -> Job \union {NULL}]
  /\ g_mainThread_run \in BOOLEAN /\ g_workThread_run \in BOOLEAN
  /\ hMutex \in Worker \union {"mainthread", "atp_destroy", NULL}
  /\ hEvent \subseteq Worker
  /\ nThreadStat \in [Worker -> ATP_STAT]
  /\ atp_data \in [Worker -> Job \union {NULL}]
  /\ overtime \in [Worker -> BOOLEAN] /\ late \in [Worker -> BOOLEAN]
  /\ szThreadStatus \subseteq Worker /\ cancelled \subseteq Worker
  /\ tableFreed \in BOOLEAN /\ crashed \in BOOLEAN
  /\ mainPc \in {"loop", "scan", "lock", "front", "pop", "broadcast", "exit",
                 "exitscan", "stop", "wait", "kill", "free", "done"}
  /\ workPc \in [Worker -> {"loop", "lock", "failed", "wait", "awake", "job", "idle",
                            "exitfunc", "last", "gone"}]
  /\ destroyPc \in {"uncalled", "drainslot", "drainqueue", "clear", "clearfront",
                    "clearpop", "locking", "slots", "stop", "join", "returned"}
  /\ serving \in Priority /\ clearing \in Priority
  /\ hand \in [Producer -> Job \union {NULL}]
  /\ todo \subseteq Job
  /\ log \in Seq({"add", "start"} \X Job)
  /\ freed \in [Job -> 0 .. 2]

(* Every thread in code that relies on hMutex holds it, so there is never   *)
(* more than one: mainthread between lock and unlock, a workthread between  *)
(* its wake-up and its unlock, atp_destroy while it frees the slots.        *)
InCriticalSection ==
  {w \in Worker : workPc[w] = "awake"}
  \union {t \in {"mainthread"} : mainPc \in {"front", "pop", "exitscan"}}
  \union {t \in {"atp_destroy"} : destroyPc = "slots"}

LockHeld == \A t \in InCriticalSection : hMutex = t

(* The places that will still use job j: callers, queue entries (but not    *)
(* the front entry that is being popped), slots and workers.                *)
Popping(p) == \/ mainPc = "pop" /\ serving = p
              \/ destroyPc = "clearpop" /\ clearing = p

Holders(j) ==
  {<<"caller", a>> : a \in {b \in Producer : hand[b] = j}}
  \union {<<"slot", p>> : p \in {q \in Priority : g_next[q] = j}}
  \union {<<"worker", w>> : w \in {v \in Worker : atp_data[v] = j}}
  \union UNION {{<<p, i>> : i \in {k \in DOMAIN g_queue[p] :
                                      g_queue[p][k] = j /\ ~(k = 1 /\ Popping(p))}}
                : p \in Priority}

(* A job is never reachable from two places at once: the unlocked queues,   *)
(* the slots and the workers hand it over, nobody takes it twice.           *)
OneHolder == \A j \in Job : Cardinality(Holders(j)) <= 1

(* Memory of a job: free() is called at most once, and never while a queue, *)
(* a slot or a worker still leads to the job.                               *)
FreedOnce ==
  \A j \in Job : freed[j] <= 1 /\ (freed[j] = 1 => Holders(j) = {})

(* No accepted job is dropped: until its memory is released, something      *)
(* leads to it that will start it or release it, or a worker had it when it *)
(* was cancelled.                                                           *)
Happened(event, j) == \E i \in DOMAIN log : log[i] = <<event, j>>
NoJobDropped ==
  \A j \in Job : Happened("add", j) => Holders(j) # {} \/ freed[j] > 0

(* The memory of a job has one owner until it is released, and that happens *)
(* once.                                                                    *)
HeldOrFreed == OneHolder /\ FreedOnce /\ NoJobDropped

(* Jobs of one priority start in the order in which their atp_addQueue      *)
(* calls pushed them, whatever threads take them, and each starts once.     *)
SamePriority(j, k) == \E S \in {RealtimeJob, NormalJob} : {j, k} \subseteq S

StartedInOrder ==
  \A m \in DOMAIN log : log[m][1] = "start" =>
    /\ \A k \in 1 .. m - 1 : log[k] # log[m]
    /\ \E i \in 1 .. m - 1 :
         /\ log[i] = <<"add", log[m][2]>>
         /\ \A h \in 1 .. i - 1 :
              log[h][1] = "add" /\ SamePriority(log[h][2], log[m][2]) =>
                \E k \in 1 .. m - 1 : log[k] = <<"start", log[h][2]>>

(* However the pool ends, also when atp_destroy pops jobs that mainthread    *)
(* was about to move: a job starts after its push, once for its one push,   *)
(* and after a push later than those of all jobs of its priority that have  *)
(* started.                                                                 *)
StartsInPushOrder ==
  \A m \in DOMAIN log : log[m][1] = "start" =>
    \E i \in 1 .. m - 1 :
      /\ log[i] = <<"add", log[m][2]>>
      /\ \A k \in 1 .. m - 1 :
           log[k][1] = "start" /\ SamePriority(log[k][2], log[m][2]) =>
             \E h \in 1 .. i - 1 : log[h] = <<"add", log[k][2]>>

(* While a realtime job waits in its queue or its slot, at most one normal  *)
(* job starts before it: the one already moved to its slot.                 *)
Queued(j) ==
  \E p \in Priority : g_next[p] = j \/ \E x \in DOMAIN g_queue[p] : g_queue[p][x] = j

Overtakers(i) ==
  {k \in i + 1 .. Len(log) :
     /\ log[k][1] = "start" /\ log[k][2] \in NormalJob
     /\ \A m \in i + 1 .. k : log[m] # <<"start", log[i][2]>>}

AtMostOneOvertakes ==
  \A i \in DOMAIN log :
    /\ log[i][1] = "add" /\ log[i][2] \in RealtimeJob
    /\ Queued(log[i][2]) \/ Happened("start", log[i][2])
    => Cardinality(Overtakers(i)) <= 1

(* README.md:28: gracefully, every accepted job has run when atp_destroy    *)
(* returns.                                                                 *)
Unstarted(S) == {j \in S : Happened("add", j) /\ ~Happened("start", j)}

GracefulRunsAll ==
  EndCode = "gracefully" /\ destroyPc = "returned" => Unstarted(Job) = {}

(* What the code does keep: at most the last job of each priority is lost,  *)
(* the one in the slot when the drain loop looked past it.                  *)
GracefulLosesSlotsOnly ==
  EndCode = "gracefully" /\ destroyPc = "returned" =>
    \A S \in {RealtimeJob, NormalJob} : Cardinality(Unstarted(S)) <= 1

(* atp_destroy leaves nothing for the next atp_create (AsyncThreadPool.cpp, *)
(* comment at line 483).                                                    *)
NothingLeftBehind ==
  destroyPc = "returned" => \A p \in Priority : g_queue[p] = <<>> /\ g_next[p] = NULL

(* g_thread is not used after it was freed.                                 *)
TableOutlivesWorkers == tableFreed => \A w \in Worker : workPc[w] = "gone"

(* With exit functions and no time limit: the workers' run flag is cleared  *)
(* only after each of them returned from its exit function.                 *)
ExitFuncFirst ==
  UseExitFunc /\ ~EndWaitExpires /\ ~g_workThread_run =>
    \A w \in Worker : workPc[w] \in {"last", "gone"}

(* A worker is cancelled inside a job's function only when that call has    *)
(* lasted g_endwaittime (README.md:84).                                     *)
JobCancelledLate ==
  [][\A w \in cancelled' \ cancelled : workPc[w] = "job" => late[w]]_vars

(* An accepted job is eventually started or discarded: a wake-up that       *)
(* nobody heard is made good by the time limit of the wait.                 *)
JobsHandled ==
  \A j \in Job : Happened("add", j) ~> (Happened("start", j) \/ freed[j] > 0)

(* atp_destroy returns.                                                     *)
DestroyReturns == (destroyPc # "uncalled") ~> (destroyPc = "returned")

(* The pool implements JobPool: a slot is the front of its line, a job whose *)
(* front entry is being popped is counted once, and only released memory    *)
(* has ended.                                                               *)
Line(p) ==
  (IF g_next[p] = NULL THEN <<>> ELSE <<g_next[p]>>)
  \o (IF Popping(p) /\ g_queue[p] # <<>> THEN Tail(g_queue[p]) ELSE g_queue[p])

Promise == INSTANCE JobPool
             WITH line    <- [p \in Priority |-> Line(p)],
                  running <- {atp_data[w] : w \in {v \in Worker : atp_data[v] # NULL}},
                  ended   <- {j \in Job : freed[j] > 0},
                  closing <- destroyPc # "uncalled"

KeepsPromise == Promise!Spec

=============================================================================
