---------------------------- MODULE JobPoolProofs ----------------------------
(***************************************************************************)
(* Theorems of AsyncThreadPool about its jobs, for any workers, callers and *)
(* jobs whose functions return stat_suspend or stat_run.  However the pool  *)
(* ends, jobs of one priority start in the order of their pushes, and a     *)
(* waiting realtime job is overtaken once.  Until atp_destroy is called,    *)
(* and to the end if it ends gracefully and no atp_addQueue is called       *)
(* during it, every job is in one place, is not dropped, starts in its turn *)
(* and ends once, and the pool implements JobPool.                          *)
(***************************************************************************)
EXTENDS AsyncThreadPoolProofs, FiniteSetTheorems

Regular == FuncResult \subseteq {stat_suspend, stat_run}
Graceful == Regular /\ EndCode = "gracefully" /\ ~LateProducers

(* A step before atp_destroy, or any step where its end is graceful         *)
Calm == Regular /\ (destroyPc' = "uncalled" \/ Graceful)

----------------------------------------------------------------------------
(* The queues between mainthread and a graceful atp_destroy                 *)

(* atp_destroy reaches its clearing loops only past empty queues, so        *)
(* mainthread alone pops, and what it serves stays at the front meanwhile.  *)
SeenEmpty(p) ==
  \/ destroyPc \in {"clear", "locking", "slots", "stop", "join", "returned"}
  \/ destroyPc = "drainqueue" /\ clearing = "normal" /\ p = "realtime"

DrainInv ==
  /\ ~crashed
  /\ destroyPc \notin {"clearfront", "clearpop"}
  /\ \A p \in Priority : SeenEmpty(p) => g_queue[p] = <<>>
  /\ mainPc \in {"front", "pop"} => g_queue[serving] # <<>>
  /\ mainPc = "front" => g_next[serving] = NULL
  /\ mainPc = "pop" => g_next[serving] = Head(g_queue[serving])

(* While jobs move, no worker was told to exit, and hMutex works.           *)
LEMMA ServingHeld ==
  ASSUME LockInv, ~SlotsEmpty
  PROVE  NoExitState /\ HeldByEach
BY DEF LockInv, Telling

LEMMA InitDrain == Init => DrainInv
BY DEF Init, DrainInv, SeenEmpty

LEMMA AddDrain ==
  ASSUME TypeOK, LeftInv, DrainInv, AddFrame,
         \/ \E a \in Producer, j \in Job : AddQueueCheck(a, j)
         \/ \E a \in Producer : AddQueuePush(a)
         \/ \E j \in Job : AddQueueRefuse(j)
  PROVE  DrainInv'
<1> USE DEF TypeOK, DrainInv, SeenEmpty, AddFrame, runVars, mainCtl, destroyCtl
<1>1. ASSUME NEW a \in Producer, NEW j \in Job, AddQueueCheck(a, j) PROVE DrainInv'
  BY <1>1 DEF AddQueueCheck
<1>2. ASSUME NEW a \in Producer, AddQueuePush(a) PROVE DrainInv'
  <2>1. destroyPc = "uncalled"
    BY <1>2 DEF AddQueuePush, LeftInv
  <2>2. PICK p \in Priority : g_queue' = [g_queue EXCEPT ![p] = Append(@, hand[a])]
    BY <1>2 DEF AddQueuePush
  <2>3. hand[a] \in Job
    BY <1>2 DEF AddQueuePush
  <2>4. \A q \in Seq(Job) : /\ Append(q, hand[a]) # <<>>
                            /\ q # <<>> => Head(Append(q, hand[a])) = Head(q)
    <3> SUFFICES ASSUME NEW q \in Seq(Job)
                 PROVE  Append(q, hand[a]) # <<>> /\ (q # <<>> => Head(Append(q, hand[a])) = Head(q))
      OBVIOUS
    <3>1. Append(q, hand[a]) # <<>>
      <4> HIDE DEF DrainInv, SeenEmpty, AddFrame, TypeOK
      <4> QED BY <2>3, AppendProperties
    <3>2. Head(Append(q, hand[a])) = IF q = <<>> THEN hand[a] ELSE Head(q)
      BY <2>3, HeadTailAppend
    <3> QED BY <3>1, <3>2
  <2>5. \A q \in Priority : /\ g_queue[q] # <<>> => g_queue'[q] # <<>>
                            /\ g_queue[q] # <<>> => Head(g_queue'[q]) = Head(g_queue[q])
    BY <2>2, <2>4
  <2> QED BY <1>2, <2>1, <2>5 DEF AddQueuePush
<1>3. ASSUME NEW j \in Job, AddQueueRefuse(j) PROVE DrainInv'
  BY <1>3 DEF AddQueueRefuse
<1> QED BY <1>1, <1>2, <1>3

LEMMA MainDrain ==
  ASSUME TypeOK, DrainInv, Mainthread
  PROVE  DrainInv'
<1> USE DEF TypeOK, DrainInv, SeenEmpty, MainFrame, queueVars, destroyCtl
<1>1. CASE MainLoop \/ MainScan
  BY <1>1 DEF Mainthread, MainLoop, MainScan
<1>2. CASE MainLock
  BY <1>2 DEF Mainthread, MainLock, CanServe
<1>3. CASE MainResignal \/ MainBroadcast \/ MainExitLock \/ MainExitScan \/ MainStop
  BY <1>3 DEF Mainthread, MainResignal, MainBroadcast, MainExitLock, MainExitScan, MainStop
<1>4. CASE MainFront
  BY <1>4 DEF Mainthread, MainFront
<1>5. CASE MainPop
  <2>1. g_queue[serving] # <<>> /\ g_queue' = [g_queue EXCEPT ![serving] = Tail(@)] /\ ~crashed'
    BY <1>5 DEF MainPop, Pop
  <2>2. \A p \in Priority : ~SeenEmpty(p) \/ p # serving
    BY <2>1
  <2> QED BY <1>5, <2>1, <2>2 DEF Mainthread, MainPop
<1>6. CASE MainCheckExit \/ MainKill \/ MainFree
  BY <1>6 DEF Mainthread, MainCheckExit, MainKill, MainFree
<1> QED BY <1>1, <1>2, <1>3, <1>4, <1>5, <1>6 DEF Mainthread

(* A worker takes a job only while mainthread is outside the lock.          *)
LEMMA WorkDrain ==
  ASSUME LockInv, LeftInv, DrainInv, NEW w \in Worker,
         Workthread(w) \/ Timeout(w) \/ (Elapse(w) /\ WorkFrame)
  PROVE  DrainInv'
<1> USE DEF DrainInv, SeenEmpty, WorkFrame, mainCtl, destroyCtl
<1>1. WorkFrame
  BY DEF Workthread, Timeout
<1>2. CASE UNCHANGED g_next
  BY <1>1, <1>2
<1>3. ASSUME NEW p \in Priority, WorkerTake(w, p) PROVE DrainInv'
  <2>1. ~SlotsEmpty
    BY <1>3 DEF WorkerTake, NextIs, SlotsEmpty
  <2>2. hMutex = w
    BY <1>3, <2>1, ServingHeld DEF HeldByEach, WorkerTake
  <2>3. mainPc \notin {"front", "pop"}
    BY <2>1, <2>2, ServingHeld, PoolAssumption DEF HeldByEach, PoolAssumption
  <2> QED BY <1>1, <2>3
<1>4. (\E p \in Priority : WorkerTake(w, p)) \/ UNCHANGED g_next
  BY DEF Workthread, Timeout, WorkerLoop, WorkerWait, WorkerWaitFails, WorkerSuspend, WorkerTimeout,
         WorkerWake, WorkerExit, WorkerIdle, WorkerFinish, WorkerIdleReturn, WorkerExitReturn,
         WorkerLast, WorkerCancelled, Elapse
<1> QED BY <1>2, <1>3, <1>4

LEMMA DestroyDrained ==
  ASSUME TypeOK, DrainInv, EndCode = "gracefully", DestroyFrame, Destroy \/ DestroyRest
  PROVE  DrainInv'
<1> USE DEF TypeOK, DrainInv, SeenEmpty, DestroyFrame, DestroyGoto, queueVars, mainCtl, Priority
<1>1. CASE Destroy
  BY <1>1 DEF Destroy
<1>2. CASE DestroyDrain
  <2>1. CASE DestroyGoto("drainslot", "realtime")
    BY <1>2, <2>1 DEF DestroyDrain
  <2>2. CASE destroyPc = "drainslot" /\ Advance
    BY <1>2, <2>2 DEF DestroyDrain, Advance, Following
  <2>3. CASE destroyPc = "drainqueue" /\ g_queue[clearing] = <<>> /\ Advance
    BY <1>2, <2>3 DEF DestroyDrain, Advance, Following
  <2> QED BY <1>2, <2>1, <2>2, <2>3 DEF DestroyDrain
<1>3. CASE DestroyClear
  <2>1. g_queue[clearing] = <<>> /\ Advance
    BY <1>3 DEF DestroyClear
  <2> QED BY <1>3, <2>1 DEF DestroyClear, Advance, Following
<1>4. CASE DestroyClearFront \/ DestroyClearPop
  BY <1>4 DEF DestroyClearFront, DestroyClearPop
<1>5. CASE DestroyLock \/ DestroyStop \/ DestroyJoin
  BY <1>5 DEF DestroyLock, DestroyStop, DestroyJoin
<1>6. CASE DestroySlots
  <2>1. mainPc \notin {"front", "pop"}
    BY <1>6 DEF DestroySlots
  <2> QED BY <1>6, <2>1 DEF DestroySlots
<1> QED BY <1>1, <1>2, <1>3, <1>4, <1>5, <1>6 DEF DestroyRest
----------------------------------------------------------------------------
(* The line of a priority: its slot, then its queue without the entry that  *)
(* mainthread has copied to the slot                                        *)

(* A job in front of a queue.                                               *)
LEMMA OneBefore ==
  ASSUME NEW S, NEW x \in S, NEW q \in Seq(S)
  PROVE  /\ <<x>> \o q \in Seq(S)
         /\ <<x>> \o q # <<>>
         /\ Head(<<x>> \o q) = x
         /\ Tail(<<x>> \o q) = q
         /\ \A y \in S : Append(<<x>> \o q, y) = <<x>> \o Append(q, y)
<1>1. <<x>> \in Seq(S) /\ Len(<<x>>) = 1 /\ <<x>>[1] = x
  OBVIOUS
<1>2. /\ <<x>> \o q \in Seq(S)
      /\ Len(<<x>> \o q) = 1 + Len(q)
      /\ \A i \in 1 .. 1 + Len(q) : (<<x>> \o q)[i] = IF i <= 1 THEN x ELSE q[i - 1]
  BY <1>1, ConcatProperties
<1>3. Len(q) \in Nat
  BY LenProperties
<1>4. <<x>> \o q # <<>>
  BY <1>2, <1>3
<1>5. (<<x>> \o q)[1] = x
  BY <1>2, <1>3
<1>6. Head(<<x>> \o q) = x
  BY <1>5
<1>7. Tail(<<x>> \o q) = q
  <2>1. /\ Tail(<<x>> \o q) \in Seq(S)
        /\ Len(Tail(<<x>> \o q)) = Len(<<x>> \o q) - 1
        /\ \A i \in 1 .. Len(Tail(<<x>> \o q)) : Tail(<<x>> \o q)[i] = (<<x>> \o q)[i + 1]
    BY <1>2, <1>4, HeadTailProperties
  <2>2. Len(Tail(<<x>> \o q)) = Len(q)
    BY <1>2, <1>3, <2>1
  <2>3. \A i \in 1 .. Len(q) : Tail(<<x>> \o q)[i] = q[i]
    BY <1>2, <1>3, <2>1, <2>2
  <2> QED BY <2>1, <2>2, <2>3, SeqEqual
<1>8. ASSUME NEW y \in S PROVE Append(<<x>> \o q, y) = <<x>> \o Append(q, y)
  <2>1. <<y>> \in Seq(S)
    OBVIOUS
  <2>2. (<<x>> \o q) \o <<y>> = <<x>> \o (q \o <<y>>)
    BY <1>1, <2>1, ConcatAssociative
  <2> QED BY <1>2, <2>2, AppendIsConcat
<1> QED BY <1>2, <1>4, <1>6, <1>7, <1>8

(* What is behind the slot.                                                 *)
Behind(p) == IF Popping(p) /\ g_queue[p] # <<>> THEN Tail(g_queue[p]) ELSE g_queue[p]

LEMMA LineIs ==
  ASSUME TypeOK, NEW p \in Priority
  PROVE  /\ Behind(p) \in Seq(Job)
         /\ Line(p) \in Seq(Job)
         /\ g_next[p] = NULL => Line(p) = Behind(p)
         /\ g_next[p] # NULL => Line(p) = <<g_next[p]>> \o Behind(p)
<1>1. Behind(p) \in Seq(Job)
  BY HeadTailProperties DEF TypeOK, Behind
<1>2. CASE g_next[p] = NULL
  BY <1>1, <1>2, ConcatEmptySeq DEF Line, Behind
<1>3. CASE g_next[p] # NULL
  <2>1. g_next[p] \in Job
    BY <1>3 DEF TypeOK
  <2>2. Line(p) = <<g_next[p]>> \o Behind(p)
    BY <1>3 DEF Line, Behind
  <2> QED BY <1>1, <1>3, <2>1, <2>2, OneBefore
<1> QED BY <1>1, <1>2, <1>3

(* A step that does not touch slots and queues, nor starts or ends a pop.   *)
LEMMA LineKept ==
  ASSUME NEW p \in Priority, g_next'[p] = g_next[p], Behind(p)' = Behind(p)
  PROVE  Line(p)' = Line(p)
BY DEF Line, Behind

(* A push appends to one line.                                              *)
LEMMA PushLine ==
  ASSUME TypeOK, DrainInv, NEW a \in Producer, NEW p \in Priority, AddFrame, hand[a] \in Job,
         g_queue' = [g_queue EXCEPT ![p] = Append(@, hand[a])]
  PROVE  /\ Line(p)' = Append(Line(p), hand[a])
         /\ \A q \in Priority \ {p} : Line(q)' = Line(q)
<1> USE DEF AddFrame, mainCtl, destroyCtl
<1>1. \A q \in Priority : Popping(q)' = Popping(q)
  BY DEF Popping
<1>2. Behind(p)' = Append(Behind(p), hand[a])
  <2>1. g_queue[p] \in Seq(Job) /\ g_queue'[p] = Append(g_queue[p], hand[a])
    BY DEF TypeOK
  <2>2. g_queue'[p] # <<>> /\ (g_queue[p] # <<>> => Tail(g_queue'[p]) = Append(Tail(g_queue[p]), hand[a]))
    BY <2>1, AppendProperties, HeadTailAppend
  <2>3. Popping(p) => g_queue[p] # <<>>
    BY DEF DrainInv, Popping
  <2> QED BY <1>1, <2>1, <2>2, <2>3 DEF Behind
<1>3. Line(p)' = Append(Line(p), hand[a])
  <2>1. CASE g_next[p] = NULL
    <3>1. Line(p) = Behind(p) /\ Behind(p) \in Seq(Job)
      BY <2>1, LineIs
    <3>2. Line(p)' = <<>> \o Behind(p)'
      BY <2>1 DEF Line, Behind
    <3>3. Append(Behind(p), hand[a]) \in Seq(Job)
      BY <3>1, AppendProperties
    <3>4. <<>> \o Append(Behind(p), hand[a]) = Append(Behind(p), hand[a])
      BY <3>3, ConcatEmptySeq
    <3> QED BY <1>2, <3>1, <3>2, <3>4
  <2>2. CASE g_next[p] # NULL
    <3>1. g_next[p] \in Job
      BY <2>2 DEF TypeOK
    <3>2. Line(p)' = <<g_next[p]>> \o Behind(p)'
      BY <2>2 DEF Line, Behind
    <3>3. Line(p) = <<g_next[p]>> \o Behind(p) /\ Behind(p) \in Seq(Job)
      BY <2>2, LineIs
    <3>4. Append(<<g_next[p]>> \o Behind(p), hand[a]) = <<g_next[p]>> \o Append(Behind(p), hand[a])
      BY <3>1, <3>3, OneBefore
    <3> QED BY <1>2, <3>2, <3>3, <3>4
  <2> QED BY <2>1, <2>2
<1>4. ASSUME NEW q \in Priority \ {p} PROVE Line(q)' = Line(q)
  BY <1>1, LineKept DEF Behind, TypeOK
<1> QED BY <1>3, <1>4

(* mainthread moves a job from its queue to its slot, which is no change of *)
(* the line: the copy and the pop are one hand-over.                        *)
LEMMA MainLine ==
  ASSUME TypeOK, DrainInv, Mainthread, NEW p \in Priority
  PROVE  Line(p)' = Line(p)
<1> USE DEF MainFrame, queueVars, destroyCtl
<1>1. ASSUME UNCHANGED <<g_queue, g_next>>, mainPc # "pop", mainPc' # "pop" PROVE Line(p)' = Line(p)
  BY <1>1, LineKept DEF Mainthread, Behind, Popping
<1>2. CASE MainLoop \/ MainScan \/ MainLock \/ MainResignal
  BY <1>1, <1>2 DEF Mainthread, MainLoop, MainScan, MainLock, MainResignal
<1>3. CASE MainBroadcast \/ MainExitLock \/ MainExitScan \/ MainStop
  BY <1>1, <1>3 DEF Mainthread, MainBroadcast, MainExitLock, MainExitScan, MainStop
<1>4. CASE MainCheckExit \/ MainKill \/ MainFree
  BY <1>1, <1>4 DEF Mainthread, MainCheckExit, MainKill, MainFree
<1>5. CASE MainFront
  <2>1. CASE p = serving
    <3>1. g_queue[p] \in Seq(Job) /\ g_queue[p] # <<>> /\ g_next[p] = NULL /\ g_next'[p] = Head(g_queue[p])
      BY <1>5, <2>1 DEF DrainInv, MainFront, TypeOK
    <3>2. ~Popping(p) /\ Popping(p)' /\ g_queue'[p] = g_queue[p]
      BY <1>5, <2>1 DEF Mainthread, MainFront, Popping, DrainInv
    <3>3. Line(p) = g_queue[p]
      BY <3>1, <3>2, LineIs DEF Behind
    <3>4. Head(g_queue[p]) \in Job /\ Tail(g_queue[p]) \in Seq(Job)
      BY <3>1, HeadTailProperties
    <3>5. Line(p)' = <<Head(g_queue[p])>> \o Tail(g_queue[p])
      <4>1. Head(g_queue[p]) # NULL
        BY <3>4, PoolAssumption DEF PoolAssumption
      <4> QED BY <3>1, <3>2, <4>1 DEF Line
    <3>6. g_queue[p] = <<Head(g_queue[p])>> \o Tail(g_queue[p])
      <4>1. Head(g_queue[p]) = g_queue[p][1]
        OBVIOUS
      <4>2. /\ <<Head(g_queue[p])>> \in Seq(Job) /\ Len(<<Head(g_queue[p])>>) = 1
            /\ <<Head(g_queue[p])>>[1] = Head(g_queue[p])
        BY <3>4
      <4>3. /\ Len(Tail(g_queue[p])) = Len(g_queue[p]) - 1
            /\ \A i \in 1 .. Len(Tail(g_queue[p])) : Tail(g_queue[p])[i] = g_queue[p][i + 1]
        BY <3>1, HeadTailProperties
      <4>4. Len(g_queue[p]) \in Nat \ {0}
        BY <3>1, EmptySeq
      <4>5. /\ <<Head(g_queue[p])>> \o Tail(g_queue[p]) \in Seq(Job)
            /\ Len(<<Head(g_queue[p])>> \o Tail(g_queue[p])) = Len(g_queue[p])
            /\ \A i \in 1 .. Len(g_queue[p]) :
                 (<<Head(g_queue[p])>> \o Tail(g_queue[p]))[i]
                   = IF i <= 1 THEN Head(g_queue[p]) ELSE Tail(g_queue[p])[i - 1]
        BY <3>4, <4>2, <4>3, <4>4, ConcatProperties
      <4>6. \A i \in 1 .. Len(g_queue[p]) :
              g_queue[p][i] = (<<Head(g_queue[p])>> \o Tail(g_queue[p]))[i]
        BY <4>1, <4>3, <4>4, <4>5
      <4> QED BY <3>1, <4>5, <4>6, SeqEqual
    <3> QED BY <3>3, <3>5, <3>6
  <2>2. CASE p # serving
    BY <1>5, <2>2, LineKept DEF Mainthread, MainFront, Behind, Popping, TypeOK
  <2> QED BY <2>1, <2>2
<1>6. CASE MainPop
  <2>1. g_queue[serving] # <<>> /\ g_queue' = [g_queue EXCEPT ![serving] = Tail(@)]
    BY <1>6 DEF MainPop, Pop, DrainInv
  <2>2. Behind(p)' = Behind(p)
    BY <1>6, <2>1 DEF Mainthread, MainPop, Behind, Popping, TypeOK, DrainInv
  <2> QED BY <1>6, <2>2, LineKept DEF MainPop
<1> QED BY <1>2, <1>3, <1>4, <1>5, <1>6 DEF Mainthread
(* What stands in the slot is the front of the line.                        *)
LEMMA SlotIsFront ==
  ASSUME TypeOK, NEW p \in Priority, g_next[p] # NULL
  PROVE  /\ g_next[p] \in Job
         /\ Line(p) # <<>> /\ Head(Line(p)) = g_next[p] /\ Tail(Line(p)) = Behind(p)
<1>1. g_next[p] \in Job
  BY DEF TypeOK
<1>2. Line(p) = <<g_next[p]>> \o Behind(p) /\ Behind(p) \in Seq(Job)
  BY LineIs
<1> QED BY <1>1, <1>2, OneBefore

(* A worker takes the front of a line.                                      *)
LEMMA TakeLine ==
  ASSUME TypeOK, NEW w \in Worker, NEW p \in Priority, WorkFrame, WorkerTake(w, p)
  PROVE  /\ g_next[p] \in Job
         /\ Line(p) # <<>> /\ Head(Line(p)) = g_next[p] /\ Line(p)' = Tail(Line(p))
         /\ \A q \in Priority \ {p} : Line(q)' = Line(q)
<1> USE DEF WorkFrame, mainCtl, destroyCtl
<1>1. g_next[p] # NULL /\ g_next' = [g_next EXCEPT ![p] = NULL]
  BY DEF WorkerTake, NextIs, EmptySlot
<1>2. \A q \in Priority : Behind(q)' = Behind(q)
  BY DEF Behind, Popping
<1>3. Line(p)' = Tail(Line(p))
  <2>1. g_next'[p] = NULL
    BY <1>1 DEF TypeOK
  <2>2. Line(p)' = <<>> \o Behind(p)
    BY <1>2, <2>1 DEF Line, Behind
  <2>3. Line(p)' = Behind(p)
    BY <2>2, LineIs, ConcatEmptySeq
  <2> QED BY <1>1, <2>3, SlotIsFront
<1>4. ASSUME NEW q \in Priority \ {p} PROVE Line(q)' = Line(q)
  BY <1>1, <1>2, LineKept DEF TypeOK
<1> QED BY <1>1, <1>3, <1>4, SlotIsFront

(* No other step of a worker and, before it frees the slots, of atp_destroy *)
(* changes a line.                                                          *)
LEMMA WorkLine ==
  ASSUME NEW p \in Priority, WorkFrame, UNCHANGED g_next
  PROVE  Line(p)' = Line(p)
BY LineKept DEF WorkFrame, mainCtl, destroyCtl, Behind, Popping

LEMMA DestroyLine ==
  ASSUME DrainInv, DrainInv', NEW p \in Priority, DestroyFrame,
         Destroy \/ (DestroyRest /\ ~DestroySlots)
  PROVE  Line(p)' = Line(p) /\ UNCHANGED freed
<1> USE DEF DestroyFrame, mainCtl, queueVars
<1>1. UNCHANGED <<g_queue, g_next, freed>>
  BY DEF DrainInv, Destroy, DestroyRest, DestroyDrain, DestroyClear, DestroyClearFront,
         DestroyClearPop, DestroyLock, DestroyStop, DestroyJoin
<1>2. Popping(p)' = Popping(p)
  BY DEF DrainInv, Popping
<1> QED BY <1>1, <1>2, LineKept DEF Behind

(* What atp_destroy frees are lines of one job, or none.                    *)
LEMMA SlotsLine ==
  ASSUME TypeOK, DrainInv, DestroyFrame, DestroySlots, NEW p \in Priority
  PROVE  /\ Line(p)' = <<>>
         /\ g_next[p] = NULL => Line(p) = <<>>
         /\ g_next[p] # NULL => Line(p) = <<g_next[p]>>
<1>1. g_queue[p] = <<>> /\ g_queue'[p] = <<>> /\ g_next'[p] = NULL
  BY DEF DrainInv, SeenEmpty, DestroySlots, ClearSlots
<1>2. Line(p)' = <<>> \o <<>> /\ Line(p) = (IF g_next[p] = NULL THEN <<>> ELSE <<g_next[p]>>) \o <<>>
  BY <1>1 DEF Line
<1>3. <<>> \in Seq(Job) /\ (g_next[p] # NULL => <<g_next[p]>> \in Seq(Job))
  BY DEF TypeOK
<1> QED BY <1>2, <1>3, ConcatEmptySeq

----------------------------------------------------------------------------
(* One place for each job                                                   *)

InLine(p, j) == \E i \in DOMAIN Line(p) : Line(p)[i] = j
Lined(j)   == \E p \in Priority : InLine(p, j)
Handed(j)  == \E a \in Producer : hand[a] = j
Running(j) == \E w \in Worker : atp_data[w] = j
JobsOf(p)  == IF p = "realtime" THEN RealtimeJob ELSE NormalJob

(* The way of a job is todo, a caller's hand, a line, a worker, the end; it *)
(* is never at two of these.  A worker keeps its job until the function has *)
(* returned, or for ever when it is cancelled.                              *)
Stages ==
  \A j \in Job :
    /\ j \in todo => ~Handed(j) /\ ~Lined(j) /\ ~Running(j) /\ freed[j] = 0
    /\ Handed(j)  => ~Lined(j) /\ ~Running(j) /\ freed[j] = 0
    /\ Lined(j)   => ~Running(j) /\ freed[j] = 0
    /\ Running(j) => freed[j] = 0
    /\ freed[j] <= 1

Sorted ==
  \A p \in Priority :
    /\ \A j \in Job : InLine(p, j) => j \in JobsOf(p)
    /\ \A i, k \in DOMAIN Line(p) : Line(p)[i] = Line(p)[k] => i = k

OneEach ==
  /\ \A a, b \in Producer : hand[a] = hand[b] /\ hand[a] # NULL => a = b
  /\ \A v, w \in Worker : atp_data[v] = atp_data[w] /\ atp_data[v] # NULL => v = w
  /\ \A w \in Worker : /\ atp_data[w] # NULL => workPc[w] \in {"job", "gone"}
                       /\ workPc[w] = "job" => atp_data[w] # NULL

PlaceInv == Stages /\ Sorted /\ OneEach
(* The elements of a sequence without repetitions that grows or shrinks.    *)
In(s, y)  == \E i \in DOMAIN s : s[i] = y
NoDup(s)  == \A i, k \in DOMAIN s : s[i] = s[k] => i = k

LEMMA AppendIn ==
  ASSUME NEW S, NEW s \in Seq(S), NEW x \in S
  PROVE  /\ \A y : In(Append(s, x), y) <=> In(s, y) \/ y = x
         /\ NoDup(s) /\ ~In(s, x) => NoDup(Append(s, x))
<1>1. /\ Append(s, x) \in Seq(S) /\ Len(s) \in Nat
      /\ DOMAIN s = 1 .. Len(s) /\ DOMAIN Append(s, x) = 1 .. Len(s) + 1
      /\ \A i \in 1 .. Len(s) : Append(s, x)[i] = s[i]
      /\ Append(s, x)[Len(s) + 1] = x
  BY AppendProperties, LenProperties
<1>2. ASSUME NEW y PROVE In(Append(s, x), y) <=> In(s, y) \/ y = x
  BY <1>1 DEF In
<1>3. ASSUME NoDup(s), ~In(s, x) PROVE NoDup(Append(s, x))
  BY <1>1, <1>3 DEF NoDup, In
<1> QED BY <1>2, <1>3

LEMMA TailIn ==
  ASSUME NEW S, NEW s \in Seq(S), s # <<>>
  PROVE  /\ In(s, Head(s))
         /\ \A y : In(Tail(s), y) => In(s, y)
         /\ \A y : In(s, y) /\ y # Head(s) => In(Tail(s), y)
         /\ NoDup(s) => NoDup(Tail(s)) /\ ~In(Tail(s), Head(s))
<1>1. /\ Tail(s) \in Seq(S) /\ Len(s) \in Nat \ {0} /\ Len(Tail(s)) = Len(s) - 1
      /\ DOMAIN s = 1 .. Len(s) /\ DOMAIN Tail(s) = 1 .. Len(s) - 1
      /\ \A i \in 1 .. Len(s) - 1 : Tail(s)[i] = s[i + 1]
  BY HeadTailProperties, LenProperties, EmptySeq
<1>2. Head(s) = s[1]
  OBVIOUS
<1>3. In(s, Head(s))
  BY <1>1, <1>2 DEF In
<1>4. ASSUME NEW y, In(Tail(s), y) PROVE In(s, y)
  <2>1. PICK i \in 1 .. Len(s) - 1 : Tail(s)[i] = y
    BY <1>1, <1>4 DEF In
  <2>2. i + 1 \in DOMAIN s /\ s[i + 1] = y
    BY <1>1, <2>1
  <2> QED BY <2>2 DEF In
<1>5. ASSUME NEW y, In(s, y), y # Head(s) PROVE In(Tail(s), y)
  <2>1. PICK i \in 1 .. Len(s) : s[i] = y
    BY <1>1, <1>5 DEF In
  <2>2. i # 1
    BY <1>2, <1>5, <2>1
  <2>3. i - 1 \in 1 .. Len(s) - 1 /\ Tail(s)[i - 1] = y
    BY <1>1, <2>1, <2>2
  <2> QED BY <1>1, <2>3 DEF In
<1>6. ASSUME NoDup(s) PROVE NoDup(Tail(s)) /\ ~In(Tail(s), Head(s))
  <2>1. \A i \in 1 .. Len(s) - 1 : i + 1 \in DOMAIN s /\ i + 1 # 1 /\ 1 \in DOMAIN s
    BY <1>1
  <2>2. ~In(Tail(s), Head(s))
    BY <1>1, <1>2, <1>6, <2>1 DEF In, NoDup
  <2>3. ASSUME NEW i \in 1 .. Len(s) - 1, NEW k \in 1 .. Len(s) - 1, Tail(s)[i] = Tail(s)[k]
        PROVE  i = k
    <3>1. s[i + 1] = s[k + 1]
      BY <1>1, <2>3
    <3>2. i + 1 = k + 1
      BY <1>6, <2>1, <3>1 DEF NoDup
    <3> QED BY <3>2
  <2> QED BY <1>1, <2>2, <2>3 DEF NoDup
<1> QED BY <1>3, <1>4, <1>5, <1>6

LEMMA InIsInLine ==
  \A p \in Priority : /\ \A j : InLine(p, j) <=> In(Line(p), j)
                      /\ NoDup(Line(p)) <=> \A i, k \in DOMAIN Line(p) : Line(p)[i] = Line(p)[k] => i = k
BY DEF InLine, In, NoDup

(* A job stands in the line of its priority only.                           *)
LEMMA OneLine ==
  ASSUME Sorted, NEW p \in Priority, NEW q \in Priority, NEW j \in Job, InLine(p, j), InLine(q, j)
  PROVE  p = q
BY PoolAssumption DEF Sorted, JobsOf, Priority, PoolAssumption

LEMMA InitPlace == Init => PlaceInv
<1> SUFFICES ASSUME Init PROVE PlaceInv
  OBVIOUS
<1>1. \A p \in Priority : Line(p) = <<>>
  <2>1. <<>> \o <<>> = <<>>
    BY ConcatEmptySeq, EmptySeq
  <2> QED BY <2>1 DEF Init, Line, Popping
<1>2. \A j \in Job : ~Lined(j) /\ ~Handed(j) /\ ~Running(j) /\ freed[j] = 0
  BY <1>1, PoolAssumption DEF Init, Lined, InLine, Handed, Running, PoolAssumption
<1> QED BY <1>1, <1>2 DEF Init, PlaceInv, Stages, Sorted, OneEach, InLine

(* A step that moves no job.                                                *)
LEMMA PlaceKept ==
  ASSUME PlaceInv, UNCHANGED <<todo, hand, atp_data, freed>>,
         \A p \in Priority : Line(p)' = Line(p),
         \A w \in Worker : \/ workPc'[w] = workPc[w]
                           \/ workPc[w] = "job" /\ workPc'[w] = "gone"
                           \/ workPc[w] \notin {"job", "gone"} /\ workPc'[w] # "job"
  PROVE  PlaceInv'
<1>1. \A p \in Priority : \A j : InLine(p, j)' <=> InLine(p, j)
  BY DEF InLine
<1>2. \A j : /\ Lined(j)' <=> Lined(j)
             /\ Handed(j)' <=> Handed(j)
             /\ Running(j)' <=> Running(j)
  BY <1>1 DEF Lined, Handed, Running
<1>3. Stages'
  BY <1>2 DEF PlaceInv, Stages
<1>4. Sorted'
  BY <1>1 DEF PlaceInv, Sorted
<1>5. OneEach'
  BY DEF PlaceInv, OneEach
<1> QED BY <1>3, <1>4, <1>5 DEF PlaceInv
(* A caller passes the check with a job nobody else has.                    *)
LEMMA CheckPlace ==
  ASSUME TypeOK, PlaceInv, AddFrame, NEW a \in Producer, NEW j \in Job, AddQueueCheck(a, j)
  PROVE  PlaceInv'
<1> USE DEF AddFrame, threadVars, mainCtl, destroyCtl
<1>1. /\ hand[a] = NULL /\ j \in todo /\ j # NULL
      /\ hand' = [hand EXCEPT ![a] = j] /\ todo' = todo \ {j} /\ UNCHANGED <<g_queue, log>>
  BY PoolAssumption DEF AddQueueCheck, PoolAssumption
<1>2. \A p \in Priority : Line(p)' = Line(p)
  BY <1>1, LineKept DEF Behind, Popping
<1>3. \A p \in Priority : \A k : InLine(p, k)' <=> InLine(p, k)
  BY <1>2 DEF InLine
<1>4. \A k : (Lined(k)' <=> Lined(k)) /\ (Running(k)' <=> Running(k))
  BY <1>3 DEF Lined, Running
<1>5. \A k \in Job : Handed(k)' <=> Handed(k) \/ k = j
  <2>1. \A b \in Producer : hand'[b] = IF b = a THEN j ELSE hand[b]
    BY <1>1 DEF TypeOK
  <2>2. NULL \notin Job
    BY PoolAssumption DEF PoolAssumption
  <2> QED BY <1>1, <2>1, <2>2 DEF Handed
<1>6. Stages'
  BY <1>1, <1>4, <1>5 DEF PlaceInv, Stages
<1>7. Sorted'
  BY <1>2, <1>3 DEF PlaceInv, Sorted
<1>8. OneEach'
  BY <1>1 DEF PlaceInv, OneEach, Stages, Handed, TypeOK
<1> QED BY <1>6, <1>7, <1>8 DEF PlaceInv

(* The push puts it at the end of the line of its priority.                 *)
LEMMA PushPlace ==
  ASSUME TypeOK, DrainInv, PlaceInv, AddFrame, NEW a \in Producer, AddQueuePush(a)
  PROVE  /\ PlaceInv'
         /\ \E p \in Priority : /\ hand[a] \in JobsOf(p) /\ Line(p)' = Append(Line(p), hand[a])
                                /\ \A q \in Priority \ {p} : Line(q)' = Line(q)
<1> USE DEF AddFrame, threadVars
<1>1. /\ hand[a] \in Job /\ hand[a] # NULL /\ hand' = [hand EXCEPT ![a] = NULL] /\ UNCHANGED todo
      /\ Handed(hand[a])
  BY DEF AddQueuePush, TypeOK, Handed
<1>2. PICK p \in Priority : /\ p = "normal" <=> hand[a] \in NormalJob
                            /\ g_queue' = [g_queue EXCEPT ![p] = Append(@, hand[a])]
  BY DEF AddQueuePush
<1>3. hand[a] \in JobsOf(p)
  BY <1>1, <1>2, PoolAssumption DEF JobsOf, Job, Priority, PoolAssumption
<1>4. /\ Line(p)' = Append(Line(p), hand[a])
      /\ \A q \in Priority \ {p} : Line(q)' = Line(q)
  BY <1>1, <1>2, PushLine
<1>5. Line(p) \in Seq(Job)
  BY LineIs
<1>6. ~Lined(hand[a]) /\ ~Running(hand[a]) /\ freed[hand[a]] = 0 /\ ~InLine(p, hand[a])
  BY <1>1 DEF PlaceInv, Stages, Lined
<1>7. \A k : InLine(p, k)' <=> InLine(p, k) \/ k = hand[a]
  BY <1>1, <1>4, <1>5, AppendIn DEF InLine, In
<1>8. \A q \in Priority \ {p} : \A k : InLine(q, k)' <=> InLine(q, k)
  BY <1>4 DEF InLine
<1>9. \A k : (Lined(k)' <=> Lined(k) \/ k = hand[a]) /\ (Running(k)' <=> Running(k))
  BY <1>7, <1>8 DEF Lined, Running
<1>10. \A k \in Job : Handed(k)' <=> Handed(k) /\ k # hand[a]
  <2>1. \A b \in Producer : hand'[b] = IF b = a THEN NULL ELSE hand[b]
    BY <1>1 DEF TypeOK
  <2>2. \A b \in Producer : hand[b] = hand[a] => b = a
    BY <1>1 DEF PlaceInv, OneEach
  <2>3. NULL \notin Job
    BY PoolAssumption DEF PoolAssumption
  <2> QED BY <2>1, <2>2, <2>3 DEF Handed
<1>11. Stages'
  BY <1>1, <1>6, <1>9, <1>10 DEF PlaceInv, Stages
<1>12. Sorted'
  <2>1. NoDup(Line(p)) /\ ~In(Line(p), hand[a])
    BY <1>6 DEF PlaceInv, Sorted, NoDup, In, InLine
  <2>2. NoDup(Append(Line(p), hand[a]))
    BY <1>1, <1>5, <2>1, AppendIn
  <2> QED BY <1>3, <1>4, <1>7, <1>8, <2>2 DEF PlaceInv, Sorted, NoDup
<1>13. OneEach'
  BY <1>1 DEF PlaceInv, OneEach, TypeOK
<1> QED BY <1>3, <1>4, <1>11, <1>12, <1>13 DEF PlaceInv

(* A worker that takes a job holds hMutex and has no other.                 *)
LEMMA TakePlace ==
  ASSUME TypeOK, PlaceInv, WorkFrame, NEW w \in Worker, NEW p \in Priority, WorkerTake(w, p)
  PROVE  PlaceInv'
<1> USE DEF WorkFrame, addVars
<1>1. /\ workPc[w] = "awake" /\ workPc' = [workPc EXCEPT ![w] = "job"]
      /\ atp_data' = [atp_data EXCEPT ![w] = g_next[p]] /\ UNCHANGED freed
  BY DEF WorkerTake, Goto
<1>2. /\ g_next[p] \in Job
      /\ Line(p) # <<>> /\ Head(Line(p)) = g_next[p] /\ Line(p)' = Tail(Line(p))
      /\ \A q \in Priority \ {p} : Line(q)' = Line(q)
  BY TakeLine
<1> PICK j \in Job : j = g_next[p]
  BY <1>2
<1>3. Line(p) \in Seq(Job) /\ NoDup(Line(p))
  BY LineIs DEF PlaceInv, Sorted, NoDup
<1>4. /\ InLine(p, j) /\ ~InLine(p, j)'
      /\ \A k : InLine(p, k)' => InLine(p, k)
      /\ \A k : InLine(p, k) /\ k # j => InLine(p, k)'
  <2>1. \A k : (InLine(p, k)' <=> In(Tail(Line(p)), k)) /\ (InLine(p, k) <=> In(Line(p), k))
    BY <1>2 DEF InLine, In
  <2>2. /\ In(Line(p), Head(Line(p))) /\ ~In(Tail(Line(p)), Head(Line(p)))
        /\ \A k : In(Tail(Line(p)), k) => In(Line(p), k)
        /\ \A k : In(Line(p), k) /\ k # Head(Line(p)) => In(Tail(Line(p)), k)
    BY <1>2, <1>3, TailIn
  <2>3. InLine(p, j) /\ ~InLine(p, j)'
    BY <1>2, <2>1, <2>2
  <2>4. ASSUME NEW k PROVE (InLine(p, k)' => InLine(p, k)) /\ (InLine(p, k) /\ k # j => InLine(p, k)')
    <3>1. (InLine(p, k)' <=> In(Tail(Line(p)), k)) /\ (InLine(p, k) <=> In(Line(p), k))
      BY <2>1
    <3> QED BY <1>2, <2>2, <3>1
  <2> QED BY <2>3, <2>4
<1>5. \A q \in Priority \ {p} : \A k : InLine(q, k)' <=> InLine(q, k)
  BY <1>2 DEF InLine
<1>6. \A q \in Priority \ {p} : ~InLine(q, j)
  BY <1>2, <1>4, OneLine DEF PlaceInv
<1>7. /\ Lined(j) /\ ~Lined(j)'
      /\ \A k : Lined(k)' => Lined(k)
  <2>1. ASSUME NEW q \in Priority PROVE ~InLine(q, j)'
    <3>1. CASE q = p
      BY <1>4, <3>1
    <3>2. CASE q # p
      <4>1. InLine(q, j)' <=> InLine(q, j)
        BY <1>5, <3>2
      <4> QED BY <1>6, <3>2, <4>1
    <3> QED BY <3>1, <3>2
  <2>2. \A k : \A q \in Priority : InLine(q, k)' => InLine(q, k)
    BY <1>4, <1>5
  <2> QED BY <1>4, <2>1, <2>2 DEF Lined
<1>8. atp_data[w] = NULL
  BY <1>1 DEF PlaceInv, OneEach
<1>9. NULL \notin Job
  BY PoolAssumption DEF PoolAssumption
<1>10. \A k \in Job : Running(k)' <=> Running(k) \/ k = j
  BY <1>1, <1>8, <1>9 DEF Running, TypeOK
<1>11. Stages'
  <2>1. \A k : Handed(k)' <=> Handed(k)
    BY DEF Handed
  <2>2. ~Handed(j) /\ j \notin todo /\ freed[j] = 0
    BY <1>2, <1>7 DEF PlaceInv, Stages
  <2>3. ASSUME NEW k \in Job
        PROVE  /\ (Lined(k)' => Lined(k)) /\ (Handed(k)' <=> Handed(k))
               /\ Running(k)' <=> Running(k) \/ k = j
               /\ k = j => ~Lined(k)' /\ ~Handed(k) /\ k \notin todo /\ freed[k] = 0
    BY <1>7, <1>10, <2>1, <2>2
  <2>4. ASSUME NEW k \in Job
        PROVE  /\ k \in todo => ~Handed(k) /\ ~Lined(k) /\ ~Running(k) /\ freed[k] = 0
               /\ Handed(k)  => ~Lined(k) /\ ~Running(k) /\ freed[k] = 0
               /\ Lined(k)   => ~Running(k) /\ freed[k] = 0
               /\ Running(k) => freed[k] = 0
               /\ freed[k] <= 1
    BY DEF PlaceInv, Stages
  <2>5. ASSUME NEW k \in Job
        PROVE  /\ k \in todo => ~Handed(k)' /\ ~Lined(k)' /\ ~Running(k)' /\ freed[k] = 0
               /\ Handed(k)'  => ~Lined(k)' /\ ~Running(k)' /\ freed[k] = 0
               /\ Lined(k)'   => ~Running(k)' /\ freed[k] = 0
               /\ Running(k)' => freed[k] = 0
               /\ freed[k] <= 1
    BY <2>3, <2>4
  <2> QED BY <1>1, <2>5 DEF Stages
<1>12. Sorted'
  <2>1. NoDup(Line(p)')
    BY <1>2, <1>3, TailIn
  <2> QED BY <1>2, <1>4, <1>5, <2>1 DEF PlaceInv, Sorted, NoDup
<1>13. OneEach'
  <2>1. \A v \in Worker : atp_data[v] # j
    BY <1>2, <1>7 DEF PlaceInv, Stages, Running
  <2> QED BY <1>1, <1>2, <1>9, <2>1 DEF PlaceInv, OneEach, TypeOK
<1> QED BY <1>11, <1>12, <1>13 DEF PlaceInv

(* The job's function returns, and the job is freed for the first time.     *)
LEMMA FinishPlace ==
  ASSUME TypeOK, PlaceInv, WorkFrame, NEW w \in Worker, NEW r \in FuncResult, WorkerFinish(w, r)
  PROVE  /\ PlaceInv'
         /\ atp_data[w] \in Job /\ freed[atp_data[w]] = 0
<1> USE DEF WorkFrame, addVars
<1>1. /\ workPc[w] = "job" /\ workPc' = [workPc EXCEPT ![w] = "loop"]
      /\ atp_data' = [atp_data EXCEPT ![w] = NULL] /\ freed' = Freed({atp_data[w]})
      /\ UNCHANGED g_next
  BY DEF WorkerFinish, Goto
<1>2. atp_data[w] \in Job /\ NULL \notin Job /\ Running(atp_data[w])
  BY <1>1, PoolAssumption DEF PlaceInv, OneEach, TypeOK, PoolAssumption, Running
<1>3. freed[atp_data[w]] = 0
  BY <1>2 DEF PlaceInv, Stages
<1>4. \A k \in Job : freed'[k] = IF k = atp_data[w] THEN 1 ELSE freed[k]
  BY <1>1, <1>2, <1>3 DEF Freed
<1>5. \A p \in Priority : Line(p)' = Line(p)
  BY <1>1, WorkLine
<1>6. \A p \in Priority : \A k : InLine(p, k)' <=> InLine(p, k)
  BY <1>5 DEF InLine
<1>7. \A k : (Lined(k)' <=> Lined(k)) /\ (Handed(k)' <=> Handed(k))
  BY <1>6 DEF Lined, Handed
<1>8. \A k \in Job : Running(k)' <=> Running(k) /\ k # atp_data[w]
  <2>1. \A v \in Worker : atp_data'[v] = IF v = w THEN NULL ELSE atp_data[v]
    BY <1>1 DEF TypeOK
  <2>2. \A v \in Worker : atp_data[v] = atp_data[w] => v = w
    BY <1>2 DEF PlaceInv, OneEach
  <2> QED BY <1>2, <2>1, <2>2 DEF Running
<1>9. Stages'
  BY <1>2, <1>4, <1>7, <1>8 DEF PlaceInv, Stages
<1>10. Sorted'
  BY <1>5, <1>6 DEF PlaceInv, Sorted
<1>11. OneEach'
  BY <1>1 DEF PlaceInv, OneEach, TypeOK
<1> QED BY <1>2, <1>3, <1>9, <1>10, <1>11 DEF PlaceInv
(* A graceful atp_destroy ends the jobs it still finds in the slots.        *)
LEMMA SlotsPlace ==
  ASSUME TypeOK, DrainInv, PlaceInv, DestroyFrame, DestroySlots
  PROVE  /\ PlaceInv'
         /\ \A k \in Job : /\ ~Lined(k)'
                           /\ freed'[k] = IF Lined(k) THEN 1 ELSE freed[k]
<1> USE DEF DestroyFrame, addVars, threadVars
<1>1. freed' = Freed({g_next[p] : p \in Priority})
  BY DEF DestroySlots
<1>2. \A p \in Priority : /\ Line(p)' = <<>>
                          /\ g_next[p] = NULL => Line(p) = <<>>
                          /\ g_next[p] # NULL => Line(p) = <<g_next[p]>>
  BY SlotsLine
<1>3. \A k \in Job : ~Lined(k)'
  BY <1>2 DEF Lined, InLine
<1>4. \A k \in Job : Lined(k) <=> \E p \in Priority : g_next[p] = k
  <2> SUFFICES ASSUME NEW k \in Job, NEW p \in Priority
               PROVE  InLine(p, k) <=> g_next[p] = k
    BY DEF Lined
  <2>1. k # NULL
    BY PoolAssumption DEF PoolAssumption
  <2>2. CASE g_next[p] = NULL
    BY <1>2, <2>1, <2>2 DEF InLine
  <2>3. CASE g_next[p] # NULL
    BY <1>2, <2>3 DEF InLine
  <2> QED BY <2>2, <2>3
<1>5. \A k \in Job : Lined(k) => freed[k] = 0
  BY DEF PlaceInv, Stages
<1>6. \A k \in Job : freed'[k] = IF Lined(k) THEN 1 ELSE freed[k]
  BY <1>1, <1>4, <1>5 DEF Freed
<1>7. \A k : (Handed(k)' <=> Handed(k)) /\ (Running(k)' <=> Running(k))
  BY DEF Handed, Running
<1>8. Stages'
  BY <1>3, <1>6, <1>7 DEF PlaceInv, Stages
<1>9. Sorted'
  BY <1>2 DEF Sorted, InLine
<1>10. OneEach'
  BY DEF PlaceInv, OneEach
<1> QED BY <1>3, <1>6, <1>8, <1>9, <1>10 DEF PlaceInv
----------------------------------------------------------------------------
(* Every step of the pool, as seen by its jobs                              *)

SlotsFreed == destroyPc \in {"stop", "join", "returned"}

(* A step that moves no job; atp_destroy may begin with it.                 *)
Still ==
  /\ UNCHANGED <<todo, hand, atp_data, freed, log>>
  /\ \A p \in Priority : Line(p)' = Line(p)
  /\ \A w \in Worker : \/ workPc'[w] = workPc[w]
                       \/ workPc[w] = "job" /\ workPc'[w] = "gone"
                       \/ workPc[w] \notin {"job", "gone"} /\ workPc'[w] # "job"
  /\ SlotsFreed' = SlotsFreed
  /\ destroyPc # "uncalled" => destroyPc' # "uncalled"

MoveInv == LockInv /\ LeftInv /\ DrainInv

(* What atp_destroy does is after its call ...                              *)
LEMMA DestroyCalled ==
  ASSUME Destroy \/ DestroyRest
  PROVE  destroyPc' # "uncalled"
BY DEF Destroy, DestroyRest, DestroyDrain, DestroyClear, DestroyClearFront, DestroyClearPop,
       DestroyLock, DestroySlots, DestroyStop, DestroyJoin, DestroyGoto, Advance, Following

(* ... and the other threads do not call it.                                *)
LEMMA OthersCall ==
  ASSUME [Next]_vars, ~(Destroy \/ DestroyRest)
  PROVE  UNCHANGED destroyPc
<1>1. CASE UNCHANGED vars
  BY <1>1 DEF vars, destroyCtl
<1>2. CASE AddFrame
  BY <1>2 DEF AddFrame, destroyCtl
<1>3. CASE Mainthread
  BY <1>3 DEF Mainthread, MainFrame, destroyCtl
<1>4. CASE WorkFrame
  BY <1>4 DEF WorkFrame, destroyCtl
<1> QED BY <1>1, <1>2, <1>3, <1>4 DEF Next, Push, Workthread, Timeout, Stopped

LEMMA CallOnce == [Next]_vars /\ destroyPc' = "uncalled" => destroyPc = "uncalled"
BY DestroyCalled, OthersCall

(* Nothing of LeftInv is at stake before atp_destroy.                       *)
LEMMA UncalledLeft ==
  ASSUME LeftInv, [Next]_vars, destroyPc' = "uncalled"
  PROVE  LeftInv'
<1>1. destroyPc = "uncalled" /\ ~(Destroy \/ DestroyRest)
  BY CallOnce, DestroyCalled
<1>2. g_mainThread_run /\ mainPc \notin {"broadcast", "exit", "exitscan", "stop", "wait", "kill",
                                        "free", "done"}
  BY <1>1 DEF LeftInv
<1>3. /\ UNCHANGED g_mainThread_run
      /\ UNCHANGED mainPc \/ Mainthread
  <2>1. CASE UNCHANGED vars
    BY <2>1 DEF vars, runVars, mainCtl
  <2>2. CASE AddFrame
    BY <2>2 DEF AddFrame, runVars, mainCtl
  <2>3. CASE Mainthread
    BY <2>3 DEF Mainthread, MainLoop, MainScan, MainLock, MainResignal, MainFront, MainPop,
         MainBroadcast, MainExitLock, MainExitScan, MainStop, MainCheckExit, MainKill, MainFree, runVars
  <2>4. CASE WorkFrame
    BY <2>4 DEF WorkFrame, runVars, mainCtl
  <2> QED BY <1>1, <2>1, <2>2, <2>3, <2>4 DEF Next, Push, Workthread, Timeout, Stopped
<1>4. mainPc' \notin {"broadcast", "exit", "exitscan", "stop", "wait", "kill", "free", "done"}
  BY <1>2, <1>3 DEF Mainthread, MainLoop, MainScan, MainLock, MainResignal, MainFront, MainPop,
       MainBroadcast, MainExitLock, MainExitScan, MainStop, MainCheckExit, MainKill, MainFree
<1> QED BY <1>2, <1>3, <1>4 DEF LeftInv, Cleared

(* Until atp_destroy has stopped mainthread no call of atp_addQueue fails.  *)
LEMMA NoRefusal ==
  ASSUME Calm, LeftInv, NEW j \in Job, AddQueueRefuse(j), AddFrame
  PROVE  FALSE
BY DEF Calm, Graceful, LeftInv, AddQueueRefuse, AddFrame, destroyCtl

LEMMA MoveStep ==
  ASSUME Calm, MoveInv, [Next]_vars
  PROVE  MoveInv'
<1> USE DEF MoveInv
<1>1. LockInv' /\ LeftInv'
  BY LockStep, LeftStep, UncalledLeft DEF Calm, Regular, Graceful, LockInv
<1>2. TypeOK
  BY DEF LockInv
<1>3. DrainInv'
  <2>1. CASE UNCHANGED vars
    BY <2>1 DEF DrainInv, SeenEmpty, vars, queueVars, mainCtl, destroyCtl
  <2>2. CASE Next
    <3>1. CASE \E a \in Producer, j \in Job : AddQueueCheck(a, j) /\ AddFrame
      BY <1>2, <3>1, AddDrain
    <3>2. CASE \E a \in Producer : Push(a)
      BY <1>2, <3>2, AddDrain DEF Push
    <3>3. CASE \E j \in Job : AddQueueRefuse(j) /\ AddFrame
      BY <1>2, <3>3, AddDrain
    <3>4. CASE Mainthread
      BY <1>2, <3>4, MainDrain
    <3>5. CASE \E w \in Worker : Workthread(w) \/ Timeout(w)
      BY <3>5, WorkDrain
    <3>6. CASE \E w \in Worker : Elapse(w) /\ WorkFrame
      BY <3>6, WorkDrain
    <3>7. CASE DestroyFrame /\ (Destroy \/ DestroyRest)
      BY <1>2, <3>7, DestroyDrained, DestroyCalled DEF Calm, Graceful
    <3>8. CASE Stopped
      BY <2>1, <3>8 DEF Stopped
    <3> QED BY <2>2, <3>1, <3>2, <3>3, <3>4, <3>5, <3>6, <3>7, <3>8 DEF Next, DestroyRest
  <2> QED BY <2>1, <2>2
<1> QED BY <1>1, <1>3

LEMMA InitMove == Init => MoveInv
BY InitLock, InitLeft, InitDrain DEF MoveInv

(* The pool does one of five things with jobs, or nothing.                  *)
LEMMA EveryMove ==
  ASSUME Calm, MoveInv, [Next]_vars
  PROVE  \/ \E a \in Producer, j \in Job : AddQueueCheck(a, j) /\ AddFrame
         \/ \E a \in Producer : Push(a)
         \/ \E w \in Worker, p \in Priority : WorkerTake(w, p) /\ WorkFrame
         \/ \E w \in Worker, r \in FuncResult : WorkerFinish(w, r) /\ WorkFrame
         \/ DestroySlots /\ DestroyFrame
         \/ Still
<1>1. TypeOK /\ DrainInv /\ DrainInv'
  BY MoveStep DEF MoveInv, LockInv
<1>2. CASE UNCHANGED vars
  <2>1. \A p \in Priority : Line(p)' = Line(p)
    BY <1>2 DEF Line, Popping, vars, queueVars, mainCtl, destroyCtl
  <2> QED BY <1>2, <2>1 DEF Still, SlotsFreed, vars, addVars, threadVars, destroyCtl
<1>3. CASE Next
  <2>1. CASE \E j \in Job : AddQueueRefuse(j) /\ AddFrame
    BY <2>1, NoRefusal DEF MoveInv
  <2>2. CASE Mainthread
    <3>1. \A p \in Priority : Line(p)' = Line(p)
      BY <1>1, <2>2, MainLine
    <3>2. UNCHANGED <<addVars, atp_data, destroyCtl, workPc, log, freed>>
      BY <2>2 DEF Mainthread, MainFrame
    <3> QED BY <3>1, <3>2 DEF Still, SlotsFreed, addVars, destroyCtl
  <2>3. ASSUME NEW w \in Worker, Workthread(w) \/ Timeout(w) \/ (Elapse(w) /\ WorkFrame)
        PROVE  \/ \E p \in Priority : WorkerTake(w, p) /\ WorkFrame
               \/ \E r \in FuncResult : WorkerFinish(w, r) /\ WorkFrame
               \/ Still
    <3>1. WorkFrame
      BY <2>3 DEF Workthread, Timeout
    <3>2. CASE \/ WorkerLoop(w) \/ WorkerWait(w) \/ WorkerWaitFails(w) \/ WorkerSuspend(w)
               \/ WorkerWake(w) \/ WorkerExit(w) \/ WorkerIdle(w) \/ WorkerTimeout(w)
               \/ \E r \in FuncResult : WorkerIdleReturn(w, r)
               \/ WorkerExitReturn(w) \/ WorkerLast(w) \/ WorkerCancelled(w) \/ Elapse(w)
      <4>1. UNCHANGED <<g_next, atp_data, log, freed>>
        BY <3>2 DEF WorkerLoop, WorkerWait, WorkerWaitFails, WorkerSuspend, WorkerWake, WorkerExit,
          WorkerIdle, WorkerTimeout, WorkerIdleReturn, WorkerExitReturn, WorkerLast,
          WorkerCancelled, Elapse, threadVars
      <4>2. \A v \in Worker : \/ workPc'[v] = workPc[v]
                              \/ workPc[v] = "job" /\ workPc'[v] = "gone"
                              \/ workPc[v] \notin {"job", "gone"} /\ workPc'[v] # "job"
        BY <1>1, <3>2 DEF TypeOK, Goto, WorkerLoop, WorkerWait, WorkerWaitFails, WorkerSuspend,
          WorkerWake, WorkerExit, WorkerIdle, WorkerTimeout, WorkerIdleReturn, WorkerExitReturn,
          WorkerLast, WorkerCancelled, Elapse
      <4>3. \A p \in Priority : Line(p)' = Line(p)
        BY <3>1, <4>1, WorkLine
      <4> QED BY <3>1, <4>1, <4>2, <4>3 DEF Still, SlotsFreed, WorkFrame, addVars, destroyCtl
    <3> QED BY <2>3, <3>1, <3>2 DEF Workthread, Timeout
  <2>4. CASE DestroyFrame /\ (Destroy \/ (DestroyRest /\ ~DestroySlots))
    <3>1. \A p \in Priority : Line(p)' = Line(p) /\ UNCHANGED freed
      BY <1>1, <2>4, DestroyLine
    <3>2. UNCHANGED <<addVars, atp_data, workPc, log>>
      BY <2>4 DEF DestroyFrame, threadVars
    <3>3. SlotsFreed' = SlotsFreed /\ destroyPc' # "uncalled"
      BY <1>1, <2>4 DEF DrainInv, SlotsFreed, Destroy, DestroyRest, DestroyDrain, DestroyClear,
           DestroyLock, DestroyStop, DestroyJoin, DestroyClearFront, DestroyClearPop,
           DestroyGoto, Advance, Following
    <3> QED BY <3>1, <3>2, <3>3 DEF Still, addVars, Priority
  <2>5. CASE Stopped
    <3>1. \A p \in Priority : Line(p)' = Line(p)
      BY <2>5 DEF Stopped, Line, Popping, vars, queueVars, mainCtl, destroyCtl
    <3> QED BY <2>5, <3>1 DEF Stopped, Still, SlotsFreed, vars, addVars, threadVars, destroyCtl
  <2> QED BY <1>3, <2>1, <2>2, <2>3, <2>4, <2>5 DEF Next, DestroyRest
<1> QED BY <1>2, <1>3

LEMMA PlaceStep ==
  ASSUME Calm, MoveInv, PlaceInv, [Next]_vars
  PROVE  PlaceInv'
<1>1. TypeOK /\ DrainInv
  BY DEF MoveInv, LockInv
<1> QED BY <1>1, EveryMove, CheckPlace, PushPlace, TakePlace, FinishPlace, SlotsPlace, PlaceKept
        DEF Push, Still

----------------------------------------------------------------------------
(* Holders                                                                  *)

(* Where an entry of a queue stands in the line.                            *)
Pos(p, i) == (IF g_next[p] = NULL THEN 0 ELSE 1) + (IF Popping(p) THEN i - 1 ELSE i)

LEMMA EntryInLine ==
  ASSUME TypeOK, NEW p \in Priority, NEW i \in DOMAIN g_queue[p], ~(i = 1 /\ Popping(p))
  PROVE  /\ Pos(p, i) \in DOMAIN Line(p)
         /\ Line(p)[Pos(p, i)] = g_queue[p][i]
         /\ g_next[p] # NULL => Pos(p, i) > 1
<1>1. /\ g_queue[p] \in Seq(Job) /\ Len(g_queue[p]) \in Nat /\ g_queue[p] # <<>>
      /\ i \in 1 .. Len(g_queue[p]) /\ i \in Nat
  BY LenProperties, EmptySeq DEF TypeOK
<1> DEFINE b == IF Popping(p) THEN i - 1 ELSE i
<1>2. b \in 1 .. Len(Behind(p)) /\ Behind(p)[b] = g_queue[p][i]
  <2>1. CASE Popping(p)
    <3>1. Behind(p) = Tail(g_queue[p]) /\ i # 1 /\ b = i - 1
      BY <1>1, <2>1 DEF Behind
    <3>2. /\ Len(Tail(g_queue[p])) = Len(g_queue[p]) - 1
          /\ \A k \in 1 .. Len(Tail(g_queue[p])) : Tail(g_queue[p])[k] = g_queue[p][k + 1]
      BY <1>1, HeadTailProperties
    <3>3. i - 1 \in 1 .. Len(g_queue[p]) - 1 /\ (i - 1) + 1 = i
      BY <1>1, <3>1
    <3> QED BY <3>1, <3>2, <3>3
  <2>2. CASE ~Popping(p)
    BY <1>1, <2>2 DEF Behind
  <2> QED BY <2>1, <2>2
<1>3. Behind(p) \in Seq(Job) /\ Len(Behind(p)) \in Nat
  BY LineIs, LenProperties
<1>4. CASE g_next[p] = NULL
  <2>1. Line(p) = Behind(p)
    BY <1>4, LineIs
  <2>2. Pos(p, i) = 0 + b /\ 0 + b = b
    BY <1>1, <1>4 DEF Pos
  <2> QED BY <1>2, <1>3, <1>4, <2>1, <2>2
<1>5. CASE g_next[p] # NULL
  <2>1. Line(p) = <<g_next[p]>> \o Behind(p) /\ Pos(p, i) = b + 1 /\ g_next[p] \in Job
    BY <1>1, <1>2, <1>5, LineIs DEF Pos, TypeOK
  <2>2. <<g_next[p]>> \in Seq(Job) /\ Len(<<g_next[p]>>) = 1
    BY <2>1
  <2>3. /\ Line(p) \in Seq(Job)
        /\ Len(Line(p)) = 1 + Len(Behind(p))
        /\ \A k \in 1 .. 1 + Len(Behind(p)) : Line(p)[k] = IF k <= 1 THEN g_next[p] ELSE Behind(p)[k - 1]
    BY <1>3, <2>1, <2>2, ConcatProperties
  <2>4. b + 1 \in 1 .. 1 + Len(Behind(p)) /\ b + 1 > 1 /\ (b + 1) - 1 = b
    BY <1>2, <1>3
  <2> QED BY <1>2, <2>1, <2>3, <2>4
<1> QED BY <1>4, <1>5

LEMMA SlotInLine ==
  ASSUME TypeOK, NEW p \in Priority, g_next[p] # NULL
  PROVE  1 \in DOMAIN Line(p) /\ Line(p)[1] = g_next[p]
<1>1. Line(p) # <<>> /\ Line(p) \in Seq(Job) /\ Head(Line(p)) = g_next[p]
  BY SlotIsFront, LineIs
<1> QED BY <1>1, EmptySeq, LenProperties

(* Two entries of one queue are at two positions of the line.               *)
LEMMA PosOne ==
  ASSUME TypeOK, NEW p \in Priority, NEW i \in DOMAIN g_queue[p], NEW k \in DOMAIN g_queue[p],
         Pos(p, i) = Pos(p, k)
  PROVE  i = k
<1>1. i \in Nat /\ k \in Nat
  BY LenProperties DEF TypeOK
<1> QED BY <1>1 DEF Pos

AtCaller(x, j) == \E a \in Producer : x = <<"caller", a>> /\ hand[a] = j
AtWorker(x, j) == \E w \in Worker : x = <<"worker", w>> /\ atp_data[w] = j
AtSlot(x, j)   == \E p \in Priority : x = <<"slot", p>> /\ g_next[p] = j
AtEntry(x, j)  == \E p \in Priority : \E i \in DOMAIN g_queue[p] :
                    x = <<p, i>> /\ g_queue[p][i] = j /\ ~(i = 1 /\ Popping(p))

LEMMA HolderIs ==
  ASSUME NEW j \in Job, NEW x \in Holders(j)
  PROVE  AtCaller(x, j) \/ AtWorker(x, j) \/ AtSlot(x, j) \/ AtEntry(x, j)
BY DEF Holders, AtCaller, AtWorker, AtSlot, AtEntry

LEMMA HolderPlace ==
  ASSUME TypeOK, NEW j \in Job, NEW x
  PROVE  /\ AtCaller(x, j) => Handed(j)
         /\ AtWorker(x, j) => Running(j)
         /\ AtSlot(x, j) => Lined(j)
         /\ AtEntry(x, j) => Lined(j)
<1>1. AtCaller(x, j) => Handed(j)
  BY DEF AtCaller, Handed
<1>2. AtWorker(x, j) => Running(j)
  BY DEF AtWorker, Running
<1>3. AtSlot(x, j) => Lined(j)
  BY SlotInLine, PoolAssumption DEF AtSlot, Lined, InLine, PoolAssumption
<1>4. AtEntry(x, j) => Lined(j)
  BY EntryInLine DEF AtEntry, Lined, InLine
<1> QED BY <1>1, <1>2, <1>3, <1>4

LEMMA HoldersEqual ==
  ASSUME TypeOK, PlaceInv, NEW j \in Job, NEW x \in Holders(j), NEW y \in Holders(j)
  PROVE  x = y
<1>1. /\ Handed(j) => ~Lined(j) /\ ~Running(j)
      /\ Lined(j) => ~Running(j)
  BY DEF PlaceInv, Stages
<1>2. j # NULL
  BY PoolAssumption DEF PoolAssumption
<1>3. CASE Handed(j)
  <2>1. AtCaller(x, j) /\ AtCaller(y, j)
    BY <1>1, <1>3, HolderIs, HolderPlace
  <2> QED BY <1>2, <2>1 DEF AtCaller, PlaceInv, OneEach
<1>4. CASE Running(j)
  <2>1. AtWorker(x, j) /\ AtWorker(y, j)
    BY <1>1, <1>4, HolderIs, HolderPlace
  <2> QED BY <1>2, <2>1 DEF AtWorker, PlaceInv, OneEach
<1>5. CASE Lined(j)
  <2>1. (AtSlot(x, j) \/ AtEntry(x, j)) /\ (AtSlot(y, j) \/ AtEntry(y, j))
    BY <1>1, <1>5, HolderIs, HolderPlace
  <2>2. PICK p \in Priority : InLine(p, j)
    BY <1>5 DEF Lined
  <2>3. ASSUME NEW z, AtSlot(z, j) PROVE z = <<"slot", p>> /\ g_next[p] = j
    <3>1. PICK q \in Priority : z = <<"slot", q>> /\ g_next[q] = j
      BY <2>3 DEF AtSlot
    <3>2. InLine(q, j)
      BY <1>2, <3>1, SlotInLine DEF InLine
    <3>3. q = p
      BY <2>2, <3>2, OneLine DEF PlaceInv
    <3> QED BY <3>1, <3>3
  <2>4. ASSUME NEW z, AtEntry(z, j)
        PROVE  \E i \in DOMAIN g_queue[p] : z = <<p, i>> /\ g_queue[p][i] = j /\ ~(i = 1 /\ Popping(p))
    <3>1. PICK q \in Priority : \E i \in DOMAIN g_queue[q] :
                 z = <<q, i>> /\ g_queue[q][i] = j /\ ~(i = 1 /\ Popping(q))
      BY <2>4 DEF AtEntry
    <3>2. InLine(q, j)
      BY <3>1, EntryInLine DEF InLine
    <3>3. q = p
      BY <2>2, <3>2, OneLine DEF PlaceInv
    <3> QED BY <3>1, <3>3
  <2>5. \A m, k \in DOMAIN Line(p) : Line(p)[m] = j /\ Line(p)[k] = j => m = k
    BY DEF PlaceInv, Sorted
  <2>6. ~(AtSlot(x, j) /\ AtEntry(y, j)) /\ ~(AtSlot(y, j) /\ AtEntry(x, j))
    <3> SUFFICES ASSUME NEW z, AtSlot(z, j), NEW u, AtEntry(u, j) PROVE FALSE
      OBVIOUS
    <3>1. g_next[p] = j /\ 1 \in DOMAIN Line(p) /\ Line(p)[1] = j
      BY <1>2, <2>3, SlotInLine
    <3>2. PICK i \in DOMAIN g_queue[p] : g_queue[p][i] = j /\ ~(i = 1 /\ Popping(p))
      BY <2>4
    <3>3. Pos(p, i) \in DOMAIN Line(p) /\ Line(p)[Pos(p, i)] = j /\ Pos(p, i) > 1
      BY <1>2, <3>1, <3>2, EntryInLine
    <3>4. Pos(p, i) = 1
      BY <2>5, <3>1, <3>3
    <3> QED BY <3>3, <3>4
  <2>7. CASE AtSlot(x, j) /\ AtSlot(y, j)
    BY <2>3, <2>7
  <2>8. CASE AtEntry(x, j) /\ AtEntry(y, j)
    <3>1. PICK i \in DOMAIN g_queue[p] : x = <<p, i>> /\ g_queue[p][i] = j /\ ~(i = 1 /\ Popping(p))
      BY <2>4, <2>8
    <3>2. PICK k \in DOMAIN g_queue[p] : y = <<p, k>> /\ g_queue[p][k] = j /\ ~(k = 1 /\ Popping(p))
      BY <2>4, <2>8
    <3>3. Pos(p, i) = Pos(p, k)
      BY <2>5, <3>1, <3>2, EntryInLine
    <3>4. i = k
      BY <3>3, PosOne
    <3> QED BY <3>1, <3>2, <3>4
  <2> QED BY <2>1, <2>6, <2>7, <2>8
<1> QED BY <1>3, <1>4, <1>5, HolderIs, HolderPlace

LEMMA AtMostOne ==
  ASSUME NEW S, \A x, y \in S : x = y
  PROVE  Cardinality(S) <= 1
<1>1. CASE S = {}
  BY <1>1, FS_EmptySet
<1>2. CASE S # {}
  <2>1. PICK x : S = {x}
    BY <1>2
  <2> QED BY <2>1, FS_Singleton
<1> QED BY <1>1, <1>2

PoolInv == MoveInv /\ PlaceInv

LEMMA HolderKept == PoolInv => OneHolder
BY HoldersEqual, AtMostOne DEF PoolInv, MoveInv, LockInv, OneHolder

LEMMA FreedKept == PoolInv => FreedOnce
<1> SUFFICES ASSUME PoolInv, NEW j \in Job
             PROVE  freed[j] <= 1 /\ (freed[j] = 1 => Holders(j) = {})
  BY DEF FreedOnce
<1>1. TypeOK /\ PlaceInv
  BY DEF PoolInv, MoveInv, LockInv
<1>2. freed[j] <= 1 /\ (freed[j] = 1 => ~Handed(j) /\ ~Lined(j) /\ ~Running(j))
  BY <1>1 DEF PlaceInv, Stages
<1>3. ASSUME freed[j] = 1, NEW x \in Holders(j) PROVE FALSE
  BY <1>1, <1>2, <1>3, HolderIs, HolderPlace
<1> QED BY <1>2, <1>3

----------------------------------------------------------------------------
(* The order of starts                                                      *)

(* In log l: job j, at position m of line s, was added after jobs of S that *)
(* were started or stand before it, only.                                   *)
StartedIn(l, j) == \E x \in DOMAIN l : l[x] = <<"start", j>>
AddedIn(l, j)   == \E x \in DOMAIN l : l[x] = <<"add", j>>
Turn(l, s, S, m) ==
  \E i \in DOMAIN l :
    /\ l[i] = <<"add", s[m]>>
    /\ \A h \in 1 .. i - 1 : \A k \in S :
         l[h] = <<"add", k>> => StartedIn(l, k) \/ \E n \in 1 .. m - 1 : s[n] = k

Entry == {"add", "start"} \X Job

LEMMA LogGrows ==
  ASSUME NEW l \in Seq(Entry), NEW e \in Entry
  PROVE  /\ Append(l, e) \in Seq(Entry) /\ Len(l) \in Nat
         /\ DOMAIN l = 1 .. Len(l) /\ DOMAIN Append(l, e) = 1 .. Len(l) + 1
         /\ \A i \in 1 .. Len(l) : Append(l, e)[i] = l[i]
         /\ Append(l, e)[Len(l) + 1] = e
         /\ \A j : StartedIn(Append(l, e), j) <=> StartedIn(l, j) \/ e = <<"start", j>>
         /\ \A j : AddedIn(Append(l, e), j) <=> AddedIn(l, j) \/ e = <<"add", j>>
<1>1. /\ Append(l, e) \in Seq(Entry) /\ Len(l) \in Nat
      /\ DOMAIN l = 1 .. Len(l) /\ DOMAIN Append(l, e) = 1 .. Len(l) + 1
      /\ \A i \in 1 .. Len(l) : Append(l, e)[i] = l[i]
      /\ Append(l, e)[Len(l) + 1] = e
  BY AppendProperties, LenProperties
<1>2. ASSUME NEW d PROVE (\E x \in DOMAIN Append(l, e) : Append(l, e)[x] = d)
                           <=> (\E x \in DOMAIN l : l[x] = d) \/ e = d
  BY <1>1
<1> QED BY <1>1, <1>2 DEF StartedIn, AddedIn

LEMMA TurnKept ==
  ASSUME NEW l \in Seq(Entry), NEW e \in Entry, NEW s, NEW S, NEW m, Turn(l, s, S, m)
  PROVE  Turn(Append(l, e), s, S, m)
<1>1. PICK i \in DOMAIN l :
        /\ l[i] = <<"add", s[m]>>
        /\ \A h \in 1 .. i - 1 : \A k \in S :
             l[h] = <<"add", k>> => StartedIn(l, k) \/ \E n \in 1 .. m - 1 : s[n] = k
  BY DEF Turn
<1>2. i \in DOMAIN Append(l, e) /\ Append(l, e)[i] = l[i]
  BY LogGrows
<1>3. ASSUME NEW h \in 1 .. i - 1, NEW k \in S, Append(l, e)[h] = <<"add", k>>
      PROVE  StartedIn(Append(l, e), k) \/ \E n \in 1 .. m - 1 : s[n] = k
  <2>1. l[h] = <<"add", k>>
    BY <1>3, LogGrows
  <2>2. StartedIn(l, k) \/ \E n \in 1 .. m - 1 : s[n] = k
    BY <1>1, <2>1
  <2> QED BY <2>2, LogGrows
<1> QED BY <1>1, <1>2, <1>3 DEF Turn

LEMMA TurnBefore ==
  ASSUME NEW l, NEW s \in Seq(Job), NEW j \in Job, NEW S, NEW m \in DOMAIN s, Turn(l, s, S, m)
  PROVE  Turn(l, Append(s, j), S, m)
<1>1. Len(s) \in Nat /\ DOMAIN s = 1 .. Len(s) /\ \A n \in 1 .. Len(s) : Append(s, j)[n] = s[n]
  BY AppendProperties, LenProperties
<1>2. Append(s, j)[m] = s[m] /\ \A n \in 1 .. m - 1 : Append(s, j)[n] = s[n]
  BY <1>1
<1>3. PICK i \in DOMAIN l :
        /\ l[i] = <<"add", s[m]>>
        /\ \A h \in 1 .. i - 1 : \A k \in S :
             l[h] = <<"add", k>> => StartedIn(l, k) \/ \E n \in 1 .. m - 1 : s[n] = k
  BY DEF Turn
<1>4. ASSUME NEW h \in 1 .. i - 1, NEW k \in S, l[h] = <<"add", k>>
      PROVE  StartedIn(l, k) \/ \E n \in 1 .. m - 1 : Append(s, j)[n] = k
  BY <1>2, <1>3, <1>4
<1> QED BY <1>2, <1>3, <1>4 DEF Turn

LEMMA TurnLast ==
  ASSUME NEW l \in Seq(Entry), NEW s \in Seq(Job), NEW j \in Job, NEW S,
         \A k \in S : AddedIn(l, k) => StartedIn(l, k) \/ In(s, k)
  PROVE  Turn(Append(l, <<"add", j>>), Append(s, j), S, Len(s) + 1)
<1> DEFINE e == <<"add", j>>
<1>1. e \in Entry
  BY DEF Entry
<1>2. /\ Len(s) \in Nat /\ DOMAIN s = 1 .. Len(s) /\ Append(s, j)[Len(s) + 1] = j
      /\ \A n \in 1 .. Len(s) : Append(s, j)[n] = s[n]
  BY AppendProperties, LenProperties
<1>3. Len(l) + 1 \in DOMAIN Append(l, e) /\ Append(l, e)[Len(l) + 1] = <<"add", Append(s, j)[Len(s) + 1]>>
  BY <1>1, <1>2, LogGrows
<1>4. ASSUME NEW h \in 1 .. (Len(l) + 1) - 1, NEW k \in S, Append(l, e)[h] = <<"add", k>>
      PROVE  StartedIn(Append(l, e), k) \/ \E n \in 1 .. (Len(s) + 1) - 1 : Append(s, j)[n] = k
  <2>1. h \in DOMAIN l /\ l[h] = <<"add", k>>
    BY <1>1, <1>4, LogGrows
  <2>2. StartedIn(l, k) \/ In(s, k)
    BY <2>1 DEF AddedIn
  <2>3. StartedIn(l, k) => StartedIn(Append(l, e), k)
    BY <1>1, LogGrows
  <2>4. In(s, k) => \E n \in 1 .. (Len(s) + 1) - 1 : Append(s, j)[n] = k
    BY <1>2 DEF In
  <2> QED BY <2>2, <2>3, <2>4
<1> QED BY <1>3, <1>4 DEF Turn

LEMMA TurnBehind ==
  ASSUME NEW l, NEW s \in Seq(Job), s # <<>>, NEW S, NEW m \in DOMAIN Tail(s),
         StartedIn(l, Head(s)), Turn(l, s, S, m + 1)
  PROVE  Turn(l, Tail(s), S, m)
<1>1. /\ Tail(s) \in Seq(Job) /\ Len(s) \in Nat \ {0} /\ Len(Tail(s)) = Len(s) - 1
      /\ DOMAIN Tail(s) = 1 .. Len(s) - 1 /\ Head(s) = s[1]
      /\ \A i \in 1 .. Len(s) - 1 : Tail(s)[i] = s[i + 1]
  BY HeadTailProperties, LenProperties, EmptySeq
<1>2. Tail(s)[m] = s[m + 1] /\ m \in Nat
  BY <1>1
<1>3. ASSUME NEW k, NEW n \in 1 .. (m + 1) - 1, s[n] = k
      PROVE  StartedIn(l, k) \/ \E o \in 1 .. m - 1 : Tail(s)[o] = k
  <2>1. CASE n = 1
    BY <1>1, <1>3, <2>1
  <2>2. CASE n # 1
    <3>1. n - 1 \in 1 .. m - 1 /\ n - 1 \in 1 .. Len(s) - 1 /\ (n - 1) + 1 = n
      BY <1>1, <2>2
    <3>2. Tail(s)[n - 1] = k
      BY <1>1, <1>3, <3>1
    <3> QED BY <3>1, <3>2
  <2> QED BY <2>1, <2>2
<1> QED BY <1>2, <1>3 DEF Turn

(* StartedInOrder at position m of log l.                                   *)
InOrder(l, m) ==
  /\ \A k \in 1 .. m - 1 : l[k] # l[m]
  /\ \E i \in 1 .. m - 1 :
       /\ l[i] = <<"add", l[m][2]>>
       /\ \A h \in 1 .. i - 1 :
            l[h][1] = "add" /\ SamePriority(l[h][2], l[m][2]) =>
              \E k \in 1 .. m - 1 : l[k] = <<"start", l[h][2]>>

OrderOf(l) == \A m \in DOMAIN l : l[m][1] = "start" => InOrder(l, m)

LEMMA OrderIs == (StartedInOrder <=> OrderOf(log)) /\ (StartedInOrder' <=> OrderOf(log'))
BY DEF StartedInOrder, OrderOf, InOrder, SamePriority

LEMMA OrderKept ==
  ASSUME NEW l \in Seq(Entry), NEW e \in Entry, NEW m \in DOMAIN l, InOrder(l, m)
  PROVE  InOrder(Append(l, e), m)
<1>1. Append(l, e)[m] = l[m] /\ \A k \in 1 .. m - 1 : Append(l, e)[k] = l[k]
  BY LogGrows
<1>2. PICK i \in 1 .. m - 1 :
        /\ l[i] = <<"add", l[m][2]>>
        /\ \A h \in 1 .. i - 1 :
             l[h][1] = "add" /\ SamePriority(l[h][2], l[m][2]) =>
               \E k \in 1 .. m - 1 : l[k] = <<"start", l[h][2]>>
  BY DEF InOrder
<1>3. \A k \in 1 .. m - 1 : l[k] # l[m]
  BY DEF InOrder
<1>4. ASSUME NEW h \in 1 .. i - 1,
             Append(l, e)[h][1] = "add", SamePriority(Append(l, e)[h][2], Append(l, e)[m][2])
      PROVE  \E k \in 1 .. m - 1 : Append(l, e)[k] = <<"start", Append(l, e)[h][2]>>
  <2>1. h \in 1 .. m - 1 /\ Append(l, e)[h] = l[h]
    BY <1>1, LogGrows
  <2>2. PICK k \in 1 .. m - 1 : l[k] = <<"start", l[h][2]>>
    BY <1>1, <1>2, <1>4, <2>1
  <2> QED BY <1>1, <2>1, <2>2
<1>5. Append(l, e)[i] = <<"add", Append(l, e)[m][2]>>
  BY <1>1, <1>2
<1>6. \A k \in 1 .. m - 1 : Append(l, e)[k] # Append(l, e)[m]
  BY <1>1, <1>3
<1> QED BY <1>4, <1>5, <1>6 DEF InOrder

(* The job at the front of its line may start.                              *)
LEMMA OrderNext ==
  ASSUME NEW l \in Seq(Entry), NEW s, NEW p \in Priority, NEW j \in JobsOf(p), j \in Job,
         s[1] = j, ~StartedIn(l, j), Turn(l, s, JobsOf(p), 1)
  PROVE  InOrder(Append(l, <<"start", j>>), Len(l) + 1)
<1> DEFINE e == <<"start", j>>
<1> DEFINE t == Append(l, e)
<1>1. e \in Entry
  BY DEF Entry
<1>2. /\ Len(l) \in Nat /\ DOMAIN l = 1 .. Len(l) /\ t[Len(l) + 1] = e
      /\ \A i \in 1 .. Len(l) : t[i] = l[i] /\ l[i] \in Entry
  BY <1>1, LogGrows
<1> HIDE DEF t
<1>3. PICK i \in DOMAIN l :
        /\ l[i] = <<"add", j>>
        /\ \A h \in 1 .. i - 1 : \A k \in JobsOf(p) :
             l[h] = <<"add", k>> => StartedIn(l, k) \/ \E n \in 1 .. 1 - 1 : s[n] = k
  BY DEF Turn
<1>4. \A k \in 1 .. (Len(l) + 1) - 1 : t[k] # t[Len(l) + 1]
  BY <1>2 DEF StartedIn
<1>5. ASSUME NEW h \in 1 .. i - 1, t[h][1] = "add", SamePriority(t[h][2], e[2])
      PROVE  \E k \in 1 .. (Len(l) + 1) - 1 : t[k] = <<"start", t[h][2]>>
  <2>1. h \in 1 .. Len(l) /\ t[h] = l[h] /\ l[h] \in Entry
    BY <1>2
  <2>2. PICK k \in Job : t[h] = <<"add", k>>
    BY <1>5, <2>1 DEF Entry
  <2>3. k \in JobsOf(p)
    BY <1>5, <2>2, PoolAssumption DEF SamePriority, JobsOf, PoolAssumption
  <2>4. StartedIn(l, k)
    <3>1. l[h] = <<"add", k>>
      BY <2>1, <2>2
    <3>2. 1 .. 1 - 1 = {}
      OBVIOUS
    <3> QED BY <1>3, <2>3, <3>1, <3>2
  <2>5. PICK x \in 1 .. Len(l) : l[x] = <<"start", k>>
    BY <1>2, <2>4 DEF StartedIn
  <2> QED BY <1>2, <2>2, <2>5
<1>6. i \in 1 .. (Len(l) + 1) - 1 /\ t[i] = <<"add", t[Len(l) + 1][2]>>
  BY <1>2, <1>3
<1>7. t[Len(l) + 1][2] = e[2]
  BY <1>2
<1>8. InOrder(t, Len(l) + 1)
  BY <1>4, <1>5, <1>6, <1>7 DEF InOrder
<1> QED BY <1>8 DEF t

----------------------------------------------------------------------------
(* The log, the lines and the end of a graceful atp_destroy                 *)

Waiting(j) == AddedIn(log, j) /\ ~StartedIn(log, j)

OrderInv ==
  /\ \A j \in Job : StartedIn(log, j) => j \notin todo /\ ~Handed(j) /\ ~Lined(j)
  /\ \A p \in Priority : \A m \in DOMAIN Line(p) : Turn(log, Line(p), JobsOf(p), m)
  /\ \A j \in Job : Waiting(j) => Lined(j) \/ SlotsFreed
  /\ SlotsFreed => \A p \in Priority : \A j, k \in JobsOf(p) : Waiting(j) /\ Waiting(k) => j = k
  /\ StartedInOrder

LEMMA InitOrder == Init => OrderInv
<1> SUFFICES ASSUME Init PROVE OrderInv
  OBVIOUS
<1>1. \A p \in Priority : Line(p) = <<>>
  <2>1. <<>> \o <<>> = <<>>
    BY ConcatEmptySeq, EmptySeq
  <2> QED BY <2>1 DEF Init, Line, Popping
<1> QED BY <1>1 DEF Init, OrderInv, StartedIn, AddedIn, Waiting, SlotsFreed, StartedInOrder

(* A step that starts and adds no job, and keeps the lines.                 *)
LEMMA OrderStill ==
  ASSUME OrderInv, UNCHANGED log, \A p \in Priority : Line(p)' = Line(p),
         SlotsFreed' = SlotsFreed,
         \A j \in Job : StartedIn(log, j) => (j \notin todo /\ ~Handed(j))'
  PROVE  OrderInv'
<1>1. \A p \in Priority : \A k : InLine(p, k)' <=> InLine(p, k)
  BY DEF InLine
<1>2. \A k : Lined(k)' <=> Lined(k)
  BY <1>1 DEF Lined
<1>3. StartedInOrder'
  BY OrderIs DEF OrderInv
<1>4. \A j : Waiting(j)' <=> Waiting(j)
  BY DEF Waiting, AddedIn, StartedIn
<1>5. \A j : StartedIn(log, j)' <=> StartedIn(log, j)
  BY DEF StartedIn
<1>6. \A p \in Priority : \A m \in DOMAIN Line(p)' : Turn(log, Line(p), JobsOf(p), m)'
  BY DEF OrderInv, Turn, StartedIn, JobsOf
<1> QED BY <1>2, <1>3, <1>4, <1>5, <1>6 DEF OrderInv

(* A job that is pushed follows every job of its priority that waits.       *)
LEMMA PushOrder ==
  ASSUME TypeOK, LeftInv, DrainInv, PlaceInv, OrderInv, AddFrame, NEW a \in Producer, AddQueuePush(a)
  PROVE  OrderInv'
<1> PICK j \in Job : j = hand[a]
  BY DEF AddQueuePush, TypeOK
<1>1. PICK p \in Priority : /\ j \in JobsOf(p) /\ Line(p)' = Append(Line(p), j)
                            /\ \A q \in Priority \ {p} : Line(q)' = Line(q)
  BY PushPlace
<1>2. /\ log \in Seq(Entry) /\ <<"add", j>> \in Entry /\ log' = Append(log, <<"add", j>>)
      /\ Line(p) \in Seq(Job) /\ Len(Line(p)) \in Nat /\ DOMAIN Line(p) = 1 .. Len(Line(p))
      /\ DOMAIN Line(p)' = 1 .. Len(Line(p)) + 1
  <2>1. log \in Seq(Entry) /\ <<"add", j>> \in Entry /\ log' = Append(log, <<"add", j>>)
    BY DEF AddQueuePush, TypeOK, Entry
  <2>2. Line(p) \in Seq(Job)
    BY LineIs
  <2>3. /\ Len(Line(p)) \in Nat /\ DOMAIN Line(p) = 1 .. Len(Line(p))
        /\ DOMAIN Append(Line(p), j) = 1 .. Len(Line(p)) + 1
    BY <2>2, AppendProperties, LenProperties
  <2> QED BY <1>1, <2>1, <2>2, <2>3
<1>3. destroyPc = "uncalled" /\ ~SlotsFreed /\ ~SlotsFreed'
  BY DEF AddQueuePush, LeftInv, SlotsFreed, AddFrame, destroyCtl
<1>4. /\ \A k : StartedIn(log, k)' <=> StartedIn(log, k)
      /\ \A k : AddedIn(log, k)' <=> AddedIn(log, k) \/ k = j
  <2>1. /\ \A k : StartedIn(log', k) <=> StartedIn(log, k) \/ <<"add", j>> = <<"start", k>>
        /\ \A k : AddedIn(log', k) <=> AddedIn(log, k) \/ <<"add", j>> = <<"add", k>>
    BY <1>2, LogGrows
  <2>2. \A k : StartedIn(log, k)' <=> StartedIn(log', k)
    BY DEF StartedIn
  <2>3. \A k : AddedIn(log, k)' <=> AddedIn(log', k)
    BY DEF AddedIn
  <2> QED BY <2>1, <2>2, <2>3
<1>5. \A k : InLine(p, k)' <=> InLine(p, k) \/ k = j
  <2>1. Line(p) \in Seq(Job) /\ j \in Job /\ Line(p)' = Append(Line(p), j)
    BY <1>1, LineIs
  <2>2. \A k : In(Append(Line(p), j), k) <=> In(Line(p), k) \/ k = j
    BY <2>1, AppendIn
  <2> QED BY <2>1, <2>2 DEF InLine, In
<1>6. \A q \in Priority \ {p} : \A k : InLine(q, k)' <=> InLine(q, k)
  BY <1>1 DEF InLine
<1>7. \A k : Lined(k)' <=> Lined(k) \/ k = j
  BY <1>5, <1>6 DEF Lined
<1>8. Handed(j) /\ \A k \in Job : Handed(k)' => Handed(k)
  <2>1. \A b \in Producer : hand'[b] = IF b = a THEN NULL ELSE hand[b]
    BY DEF AddQueuePush, TypeOK
  <2> QED BY <2>1, PoolAssumption DEF Handed, PoolAssumption
<1>9. \A k \in Job : StartedIn(log, k) => k # j /\ k \notin todo' /\ ~Handed(k)'
  BY <1>8 DEF OrderInv, AddQueuePush
<1>10. ASSUME NEW q \in Priority, NEW m \in DOMAIN Line(q)'
       PROVE  Turn(log', Line(q)', JobsOf(q), m)
  <2>1. CASE q # p
    BY <1>1, <1>2, <1>10, <2>1, TurnKept DEF OrderInv
  <2>2. CASE q = p /\ m \in DOMAIN Line(p)
    <3>1. Turn(log, Line(p), JobsOf(p), m)
      BY <2>2 DEF OrderInv
    <3>2. Turn(log, Append(Line(p), j), JobsOf(p), m)
      BY <1>2, <2>2, <3>1, TurnBefore
    <3> QED BY <1>1, <1>2, <2>2, <3>2, TurnKept
  <2>3. CASE q = p /\ m = Len(Line(p)) + 1
    <3>1. ASSUME NEW k \in JobsOf(p), AddedIn(log, k) PROVE StartedIn(log, k) \/ In(Line(p), k)
      <4>1. k \in Job
        BY DEF JobsOf, Job
      <4>2. StartedIn(log, k) \/ Lined(k)
        BY <1>3, <3>1, <4>1 DEF OrderInv, Waiting
      <4>3. ASSUME NEW r \in Priority, InLine(r, k) PROVE In(Line(p), k)
        <5>1. k \in JobsOf(r)
          BY <4>1, <4>3 DEF PlaceInv, Sorted
        <5>2. r = p
          BY <3>1, <5>1, PoolAssumption DEF JobsOf, Priority, PoolAssumption
        <5> QED BY <4>3, <5>2 DEF InLine, In
      <4> QED BY <4>2, <4>3 DEF Lined
    <3> QED BY <1>1, <1>2, <2>3, <3>1, TurnLast
  <2> QED BY <1>2, <1>10, <2>1, <2>2, <2>3
<1>11. StartedInOrder'
  <2>1. ASSUME NEW m \in DOMAIN log', log'[m][1] = "start" PROVE InOrder(log', m)
    <3>1. m \in DOMAIN log /\ log'[m] = log[m]
      BY <1>2, <2>1, LogGrows
    <3>2. InOrder(log, m)
      BY <2>1, <3>1, OrderIs DEF OrderInv, OrderOf
    <3> QED BY <1>2, <3>1, <3>2, OrderKept
  <2> QED BY <2>1, OrderIs DEF OrderOf
<1>12. \A q \in Priority : \A m \in DOMAIN Line(q)' : Turn(log, Line(q), JobsOf(q), m)'
  BY <1>10 DEF Turn, JobsOf, StartedIn
<1>13. \A k \in Job : Waiting(k)' => Lined(k)'
  <2>1. \A k \in Job : Waiting(k) => Lined(k)
    BY <1>3 DEF OrderInv
  <2> QED BY <1>4, <1>7, <2>1 DEF Waiting
<1>14. \A k \in Job : StartedIn(log, k)' => (k \notin todo /\ ~Handed(k) /\ ~Lined(k))'
  BY <1>4, <1>7, <1>9 DEF OrderInv
<1> QED BY <1>3, <1>11, <1>12, <1>13, <1>14 DEF OrderInv

(* A worker starts the job whose turn it is.                                *)
LEMMA TakeOrder ==
  ASSUME TypeOK, PlaceInv, OrderInv, WorkFrame,
         NEW w \in Worker, NEW p \in Priority, WorkerTake(w, p)
  PROVE  OrderInv'
<1>1. /\ g_next[p] \in Job
      /\ Line(p) # <<>> /\ Head(Line(p)) = g_next[p] /\ Line(p)' = Tail(Line(p))
      /\ \A q \in Priority \ {p} : Line(q)' = Line(q)
  BY TakeLine
<1> PICK j \in Job : j = g_next[p]
  BY <1>1
<1>2. /\ log \in Seq(Entry) /\ <<"start", j>> \in Entry /\ log' = Append(log, <<"start", j>>)
      /\ UNCHANGED <<todo, hand>> /\ SlotsFreed' = SlotsFreed
  BY DEF WorkerTake, TypeOK, Entry, WorkFrame, addVars, SlotsFreed, destroyCtl
<1>3. Line(p) \in Seq(Job)
  BY LineIs
<1>4. /\ Len(Line(p)) \in Nat \ {0} /\ DOMAIN Line(p) = 1 .. Len(Line(p))
      /\ DOMAIN Line(p)' = 1 .. Len(Line(p)) - 1 /\ Line(p)[1] = j
  <2>1. /\ Len(Line(p)) \in Nat \ {0} /\ DOMAIN Line(p) = 1 .. Len(Line(p)) /\ Head(Line(p)) = Line(p)[1]
    BY <1>1, <1>3, EmptySeq, LenProperties
  <2>2. DOMAIN Tail(Line(p)) = 1 .. Len(Line(p)) - 1
    BY <1>1, <1>3, HeadTailProperties, LenProperties
  <2> QED BY <1>1, <2>1, <2>2
<1>5. InLine(p, j) /\ j \in JobsOf(p) /\ ~StartedIn(log, j)
  BY <1>4 DEF InLine, Lined, PlaceInv, Sorted, OrderInv
<1>6. /\ \A k : StartedIn(log, k)' <=> StartedIn(log, k) \/ k = j
      /\ \A k : AddedIn(log, k)' <=> AddedIn(log, k)
  <2>1. /\ \A k : StartedIn(log', k) <=> StartedIn(log, k) \/ <<"start", j>> = <<"start", k>>
        /\ \A k : AddedIn(log', k) <=> AddedIn(log, k) \/ <<"start", j>> = <<"add", k>>
    BY <1>2, LogGrows
  <2>2. \A k : StartedIn(log, k)' <=> StartedIn(log', k)
    BY DEF StartedIn
  <2>3. \A k : AddedIn(log, k)' <=> AddedIn(log', k)
    BY DEF AddedIn
  <2> QED BY <2>1, <2>2, <2>3
<1>7. NoDup(Line(p))
  BY DEF PlaceInv, Sorted, NoDup
<1>8. /\ ~InLine(p, j)'
      /\ \A k : InLine(p, k)' => InLine(p, k)
      /\ \A k : InLine(p, k) /\ k # j => InLine(p, k)'
  <2>1. \A k : (InLine(p, k)' <=> In(Tail(Line(p)), k)) /\ (InLine(p, k) <=> In(Line(p), k))
    BY <1>1 DEF InLine, In
  <2> QED BY <1>1, <1>3, <1>7, <2>1, TailIn
<1>9. \A q \in Priority \ {p} : \A k : InLine(q, k)' <=> InLine(q, k)
  BY <1>1 DEF InLine
<1>10. /\ ~Lined(j)'
       /\ \A k : Lined(k)' => Lined(k)
       /\ \A k : Lined(k) /\ k # j => Lined(k)'
  <2>1. \A q \in Priority \ {p} : ~InLine(q, j)
    BY <1>5, OneLine DEF PlaceInv
  <2>2. \A q \in Priority : ~InLine(q, j)'
    BY <1>8, <1>9, <2>1
  <2> QED BY <1>8, <1>9, <2>2 DEF Lined
<1>11. ASSUME NEW q \in Priority, NEW m \in DOMAIN Line(q)'
       PROVE  Turn(log', Line(q)', JobsOf(q), m)
  <2>1. CASE q # p
    BY <1>1, <1>2, <1>11, <2>1, TurnKept DEF OrderInv
  <2>2. CASE q = p
    <3>1. m \in DOMAIN Tail(Line(p)) /\ m + 1 \in DOMAIN Line(p)
      BY <1>1, <1>4, <1>11, <2>2
    <3>2. Turn(log, Line(p), JobsOf(p), m + 1)
      BY <3>1 DEF OrderInv
    <3>3. Turn(log', Line(p), JobsOf(p), m + 1)
      BY <1>2, <3>2, TurnKept
    <3>4. StartedIn(log', Head(Line(p)))
      BY <1>1, <1>2, LogGrows
    <3>5. Turn(log', Tail(Line(p)), JobsOf(p), m)
      BY <1>1, <1>3, <3>1, <3>3, <3>4, TurnBehind
    <3> QED BY <1>1, <2>2, <3>5
  <2> QED BY <2>1, <2>2
<1>12. StartedInOrder'
  <2>1. ASSUME NEW m \in DOMAIN log', log'[m][1] = "start" PROVE InOrder(log', m)
    <3>1. CASE m \in DOMAIN log
      <4>1. log'[m] = log[m]
        BY <1>2, <3>1, LogGrows
      <4>2. InOrder(log, m)
        BY <2>1, <3>1, <4>1, OrderIs DEF OrderInv, OrderOf
      <4> QED BY <1>2, <3>1, <4>2, OrderKept
    <3>2. CASE m \notin DOMAIN log
      <4>1. m = Len(log) + 1
        BY <1>2, <2>1, <3>2, LogGrows
      <4>2. Turn(log, Line(p), JobsOf(p), 1)
        BY <1>4 DEF OrderInv
      <4> QED BY <1>2, <1>4, <1>5, <4>1, <4>2, OrderNext
    <3> QED BY <3>1, <3>2
  <2> QED BY <2>1, OrderIs DEF OrderOf
<1>13. \A q \in Priority : \A m \in DOMAIN Line(q)' : Turn(log, Line(q), JobsOf(q), m)'
  BY <1>11 DEF Turn, JobsOf, StartedIn
<1>14. \A k : Waiting(k)' <=> Waiting(k) /\ k # j
  BY <1>6 DEF Waiting
<1>15. \A k \in Job : StartedIn(log, k)' => (k \notin todo /\ ~Handed(k) /\ ~Lined(k))'
  <2>1. j \notin todo /\ ~Handed(j)
    BY <1>5 DEF PlaceInv, Stages, Lined
  <2>2. \A k : Handed(k)' <=> Handed(k)
    BY <1>2 DEF Handed
  <2> QED BY <1>2, <1>6, <1>10, <2>1, <2>2 DEF OrderInv
<1>16. \A k \in Job : Waiting(k)' => Lined(k)' \/ SlotsFreed'
  BY <1>2, <1>10, <1>14 DEF OrderInv
<1>17. SlotsFreed' => \A q \in Priority : \A i, k \in JobsOf(q) : Waiting(i)' /\ Waiting(k)' => i = k
  BY <1>2, <1>14 DEF OrderInv
<1> QED BY <1>12, <1>13, <1>15, <1>16, <1>17 DEF OrderInv, JobsOf

(* What atp_destroy ends unstarted is one job of a priority at most.        *)
LEMMA SlotsOrder ==
  ASSUME TypeOK, DrainInv, PlaceInv, OrderInv, DestroyFrame, DestroySlots
  PROVE  OrderInv'
<1>1. \A p \in Priority : /\ Line(p)' = <<>>
                          /\ g_next[p] = NULL => Line(p) = <<>>
                          /\ g_next[p] # NULL => Line(p) = <<g_next[p]>>
  BY SlotsLine
<1>2. ~SlotsFreed /\ SlotsFreed' /\ UNCHANGED <<log, todo, hand>>
  BY DEF DestroySlots, DestroyGoto, DestroyFrame, addVars, SlotsFreed
<1>3. \A k \in Job : ~Lined(k)'
  BY SlotsPlace
<1>4. \A k : /\ Waiting(k)' <=> Waiting(k)
             /\ StartedIn(log, k)' <=> StartedIn(log, k)
             /\ Handed(k)' <=> Handed(k)
  BY <1>2 DEF Waiting, StartedIn, AddedIn, Handed
<1>5. ASSUME NEW p \in Priority, NEW j \in JobsOf(p), Waiting(j) PROVE j = g_next[p]
  <2>1. j \in Job
    BY DEF JobsOf, Job
  <2>2. PICK q \in Priority : InLine(q, j)
    BY <1>2, <1>5, <2>1 DEF OrderInv, Lined
  <2>3. j \in JobsOf(q)
    BY <2>1, <2>2 DEF PlaceInv, Sorted
  <2>4. q = p
    BY <2>3, PoolAssumption DEF JobsOf, Priority, PoolAssumption
  <2>5. InLine(p, j)
    BY <2>2, <2>4
  <2> QED BY <1>1, <2>5 DEF InLine
<1>6. StartedInOrder'
  BY <1>2, OrderIs DEF OrderInv
<1>7. \A p \in Priority : \A j, k \in JobsOf(p) : Waiting(j)' /\ Waiting(k)' => j = k
  BY <1>4, <1>5
<1>8. \A q \in Priority : \A m \in DOMAIN Line(q)' : Turn(log, Line(q), JobsOf(q), m)'
  BY <1>1
<1> QED BY <1>2, <1>3, <1>4, <1>6, <1>7, <1>8 DEF OrderInv, JobsOf

LEMMA OrderStep ==
  ASSUME Calm, MoveInv, PlaceInv, OrderInv, [Next]_vars
  PROVE  OrderInv'
<1>1. TypeOK /\ LeftInv /\ DrainInv
  BY DEF MoveInv, LockInv
<1>2. CASE Still
  <2>1. \A k : Handed(k)' <=> Handed(k)
    BY <1>2 DEF Still, Handed
  <2> QED BY <1>2, <2>1, OrderStill DEF Still, OrderInv
<1>3. ASSUME NEW a \in Producer, NEW j \in Job, AddQueueCheck(a, j), AddFrame PROVE OrderInv'
  <2>1. /\ j \in todo /\ hand' = [hand EXCEPT ![a] = j] /\ todo' = todo \ {j}
        /\ UNCHANGED <<g_queue, log, g_next, mainPc, serving, destroyPc, clearing>>
    BY <1>3 DEF AddQueueCheck, AddFrame, mainCtl, destroyCtl
  <2>2. \A p \in Priority : Line(p)' = Line(p)
    BY <2>1, LineKept DEF Behind, Popping
  <2>3. \A k \in Job : Handed(k)' => Handed(k) \/ k = j
    <3>1. \A b \in Producer : hand'[b] = IF b = a THEN j ELSE hand[b]
      BY <1>1, <2>1 DEF TypeOK
    <3> QED BY <3>1 DEF Handed
  <2>4. \A k \in Job : StartedIn(log, k) => k # j /\ k \notin todo' /\ ~Handed(k)'
    BY <2>1, <2>3 DEF OrderInv
  <2> QED BY <2>1, <2>2, <2>4, OrderStill DEF SlotsFreed
<1>4. ASSUME NEW w \in Worker, NEW r \in FuncResult, WorkerFinish(w, r), WorkFrame PROVE OrderInv'
  <2>1. UNCHANGED <<log, todo, hand, g_next>> /\ SlotsFreed' = SlotsFreed
    BY <1>4 DEF WorkerFinish, WorkFrame, addVars, SlotsFreed, destroyCtl
  <2>2. \A p \in Priority : Line(p)' = Line(p)
    BY <1>4, <2>1, WorkLine
  <2>3. \A k : Handed(k)' <=> Handed(k)
    BY <2>1 DEF Handed
  <2> QED BY <2>1, <2>2, <2>3, OrderStill DEF OrderInv
<1> QED BY <1>1, <1>2, <1>3, <1>4, EveryMove, PushOrder, TakeOrder, SlotsOrder DEF Push

OrderlyInv == PoolInv /\ OrderInv

LEMMA InitOrderly == Init => OrderlyInv
BY InitMove, InitPlace, InitOrder DEF OrderlyInv, PoolInv

LEMMA OrderlyStep ==
  ASSUME Calm, OrderlyInv, [Next]_vars
  PROVE  OrderlyInv'
BY MoveStep, PlaceStep, OrderStep DEF OrderlyInv, PoolInv

(* Jobs of one priority start in the order of their pushes, each once,      *)
(* although the start is logged by whatever worker found the slot filled    *)
(* and mainthread refills it between two of them.                           *)
THEOREM StartsInTurn ==
  ASSUME Graceful
  PROVE  Spec => []StartedInOrder
<1>1. OrderlyInv /\ [Next]_vars => OrderlyInv'
  BY OrderlyStep DEF Calm, Graceful
<1>2. OrderlyInv => StartedInOrder
  BY DEF OrderlyInv, OrderInv
<1> QED BY InitOrderly, <1>1, <1>2, PTL DEF Spec

(* A graceful atp_destroy that has returned threw away one job of each      *)
(* priority at most: the one mainthread moved to the slot when the drain    *)
(* loop had already looked there.                                           *)
THEOREM LosesSlotsOnly ==
  ASSUME Graceful
  PROVE  Spec => []GracefulLosesSlotsOnly
<1>1. OrderlyInv /\ [Next]_vars => OrderlyInv'
  BY OrderlyStep DEF Calm, Graceful
<1>2. OrderlyInv => GracefulLosesSlotsOnly
  <2> SUFFICES ASSUME OrderlyInv, destroyPc = "returned", NEW S \in {RealtimeJob, NormalJob}
               PROVE  Cardinality(Unstarted(S)) <= 1
    BY DEF GracefulLosesSlotsOnly
  <2>1. PICK p \in Priority : S = JobsOf(p)
    BY DEF Priority, JobsOf
  <2>2. \A j \in Unstarted(S) : j \in S /\ Waiting(j)
    BY DEF Unstarted, Happened, Waiting, AddedIn, StartedIn
  <2>3. \A j, k \in Unstarted(S) : j = k
    BY <2>1, <2>2 DEF OrderlyInv, OrderInv, SlotsFreed
  <2> QED BY <2>3, AtMostOne
<1> QED BY InitOrderly, <1>1, <1>2, PTL DEF Spec

----------------------------------------------------------------------------
(* No job is dropped                                                        *)

Accounted == \A j \in Job : AddedIn(log, j) => Lined(j) \/ Running(j) \/ freed[j] > 0

(* A step that pushes nothing and keeps each job where it is, or frees it.  *)
LEMMA AccountStill ==
  ASSUME Accounted, \A j \in Job : AddedIn(log', j) => AddedIn(log, j),
         \A j \in Job : /\ Lined(j) => Lined(j)' \/ Running(j)' \/ freed'[j] > 0
                        /\ Running(j) => Running(j)' \/ freed'[j] > 0
                        /\ freed[j] > 0 => freed'[j] > 0
  PROVE  Accounted'
<1>1. \A j : AddedIn(log, j)' <=> AddedIn(log', j)
  BY DEF AddedIn
<1> QED BY <1>1 DEF Accounted

LEMMA SameLines ==
  ASSUME NEW p \in Priority, Line(p)' = Line(p)
  PROVE  \A j : InLine(p, j)' <=> InLine(p, j)
BY DEF InLine

LEMMA PushAccount ==
  ASSUME TypeOK, DrainInv, PlaceInv, Accounted, AddFrame, NEW a \in Producer, AddQueuePush(a)
  PROVE  Accounted'
<1>1. /\ hand[a] \in Job /\ UNCHANGED <<freed, atp_data>>
      /\ log \in Seq(Entry) /\ log' = Append(log, <<"add", hand[a]>>) /\ <<"add", hand[a]>> \in Entry
  BY DEF AddQueuePush, TypeOK, AddFrame, threadVars, Entry
<1>2. PICK p \in Priority : /\ Line(p)' = Append(Line(p), hand[a])
                            /\ \A q \in Priority \ {p} : Line(q)' = Line(q)
  BY PushPlace
<1>3. \A j : InLine(p, j)' <=> InLine(p, j) \/ j = hand[a]
  <2>1. Line(p) \in Seq(Job) /\ hand[a] \in Job
    BY <1>1, LineIs
  <2>2. \A j : In(Append(Line(p), hand[a]), j) <=> In(Line(p), j) \/ j = hand[a]
    BY <2>1, AppendIn
  <2>3. \A j : (InLine(p, j)' <=> In(Append(Line(p), hand[a]), j)) /\ (InLine(p, j) <=> In(Line(p), j))
    BY <1>2 DEF InLine, In
  <2> QED BY <2>2, <2>3
<1>4. \A q \in Priority \ {p} : \A j : InLine(q, j)' <=> InLine(q, j)
  BY <1>2, SameLines
<1>5. \A j : (Lined(j)' <=> Lined(j) \/ j = hand[a]) /\ (Running(j)' <=> Running(j))
  BY <1>1, <1>3, <1>4 DEF Lined, Running
<1>6. \A j : AddedIn(log', j) <=> AddedIn(log, j) \/ j = hand[a]
  <2>1. \A j : <<"add", hand[a]>> = <<"add", j>> <=> j = hand[a]
    OBVIOUS
  <2> QED BY <1>1, <2>1, LogGrows
<1>7. \A j : AddedIn(log, j)' <=> AddedIn(log', j)
  BY DEF AddedIn
<1> QED BY <1>1, <1>5, <1>6, <1>7 DEF Accounted

LEMMA TakeAccount ==
  ASSUME TypeOK, PlaceInv, Accounted, WorkFrame,
         NEW w \in Worker, NEW p \in Priority, WorkerTake(w, p)
  PROVE  Accounted'
<1>1. /\ g_next[p] \in Job
      /\ Line(p) # <<>> /\ Head(Line(p)) = g_next[p] /\ Line(p)' = Tail(Line(p))
      /\ \A q \in Priority \ {p} : Line(q)' = Line(q)
  BY TakeLine
<1> PICK k \in Job : k = g_next[p]
  BY <1>1
<1>2. /\ atp_data' = [atp_data EXCEPT ![w] = k] /\ UNCHANGED freed /\ workPc[w] = "awake"
      /\ log \in Seq(Entry) /\ log' = Append(log, <<"start", k>>) /\ <<"start", k>> \in Entry
  BY DEF WorkerTake, TypeOK, Entry
<1>3. atp_data[w] = NULL /\ NULL \notin Job
  BY <1>2, PoolAssumption DEF PlaceInv, OneEach, PoolAssumption
<1>4. \A j \in Job : Running(j)' <=> Running(j) \/ j = k
  BY <1>2, <1>3 DEF Running, TypeOK
<1>5. \A j : InLine(p, j) => InLine(p, j)' \/ j = k
  <2>1. Line(p) \in Seq(Job)
    BY LineIs
  <2>2. \A j : In(Line(p), j) /\ j # Head(Line(p)) => In(Tail(Line(p)), j)
    BY <1>1, <2>1, TailIn
  <2> QED BY <1>1, <2>2 DEF InLine, In
<1>6. \A q \in Priority \ {p} : \A j : InLine(q, j)' <=> InLine(q, j)
  BY <1>1, SameLines
<1>7. \A j : Lined(j) => Lined(j)' \/ j = k
  BY <1>5, <1>6 DEF Lined
<1>8. \A j : AddedIn(log', j) => AddedIn(log, j)
  <2>1. \A j : <<"start", k>> # <<"add", j>>
    OBVIOUS
  <2> QED BY <1>2, <2>1, LogGrows
<1> QED BY <1>2, <1>4, <1>7, <1>8, AccountStill

LEMMA AccountStep ==
  ASSUME Calm, MoveInv, PlaceInv, Accounted, [Next]_vars
  PROVE  Accounted'
<1>1. TypeOK /\ DrainInv
  BY DEF MoveInv, LockInv
<1>2. ASSUME UNCHANGED <<log, atp_data, freed>>, \A p \in Priority : Line(p)' = Line(p)
      PROVE  Accounted'
  <2>1. \A j : (Lined(j)' <=> Lined(j)) /\ (Running(j)' <=> Running(j))
    BY <1>2, SameLines DEF Lined, Running
  <2> QED BY <1>2, <2>1, AccountStill
<1>3. ASSUME NEW a \in Producer, NEW j \in Job, AddQueueCheck(a, j), AddFrame PROVE Accounted'
  <2>1. UNCHANGED <<log, atp_data, freed, g_queue, g_next, mainPc, serving, destroyPc, clearing>>
    BY <1>3 DEF AddQueueCheck, AddFrame, mainCtl, destroyCtl, threadVars
  <2>2. \A p \in Priority : Line(p)' = Line(p)
    BY <2>1, LineKept DEF Behind, Popping
  <2> QED BY <1>2, <2>1, <2>2
<1>4. ASSUME NEW w \in Worker, NEW r \in FuncResult, WorkerFinish(w, r), WorkFrame PROVE Accounted'
  <2>1. /\ UNCHANGED <<log, g_next>>
        /\ atp_data' = [atp_data EXCEPT ![w] = NULL] /\ freed' = Freed({atp_data[w]})
    BY <1>4 DEF WorkerFinish, WorkFrame
  <2>2. \A p \in Priority : Line(p)' = Line(p)
    BY <1>1, <1>4, <2>1, WorkLine
  <2>3. \A j : Lined(j)' <=> Lined(j)
    BY <2>2, SameLines DEF Lined
  <2>4. \A j \in Job : /\ freed[j] > 0 => freed'[j] > 0
                       /\ Running(j) => Running(j)' \/ freed'[j] > 0
    BY <1>1, <2>1 DEF Freed, Running, TypeOK
  <2> QED BY <2>1, <2>3, <2>4, AccountStill
<1>5. ASSUME DestroySlots, DestroyFrame PROVE Accounted'
  <2>1. \A j \in Job : freed'[j] = IF Lined(j) THEN 1 ELSE freed[j]
    BY <1>1, <1>5, SlotsPlace
  <2>2. UNCHANGED <<log, atp_data>>
    BY <1>5 DEF DestroyFrame, threadVars
  <2>3. \A j : Running(j)' <=> Running(j)
    BY <2>2 DEF Running
  <2> QED BY <2>1, <2>2, <2>3, AccountStill
<1>6. CASE Still
  BY <1>2, <1>6 DEF Still
<1> QED BY <1>1, <1>3, <1>4, <1>5, <1>6, EveryMove, PushAccount, TakeAccount DEF Push

(* A job in a line is in the slot or in the queue behind the entry that is  *)
(* being popped, which has a copy in the slot.                              *)
LEMMA LinedHeld ==
  ASSUME TypeOK, NEW j \in Job
  PROVE  /\ Lined(j) => Holders(j) # {}
         /\ Running(j) => Holders(j) # {}
<1>1. ASSUME NEW p \in Priority, InLine(p, j) PROVE Holders(j) # {}
  <2>1. CASE g_next[p] = j
    BY <2>1 DEF Holders
  <2>2. ASSUME NEW i \in DOMAIN Behind(p), Behind(p)[i] = j PROVE Holders(j) # {}
    <3> DEFINE b == IF Popping(p) THEN i + 1 ELSE i
    <3>1. b \in DOMAIN g_queue[p] /\ g_queue[p][b] = j /\ ~(b = 1 /\ Popping(p))
      <4>1. /\ g_queue[p] \in Seq(Job) /\ Len(g_queue[p]) \in Nat
            /\ DOMAIN g_queue[p] = 1 .. Len(g_queue[p])
        BY LenProperties DEF TypeOK
      <4>2. CASE Popping(p) /\ g_queue[p] # <<>>
        <5>1. /\ Behind(p) = Tail(g_queue[p]) /\ b = i + 1
              /\ DOMAIN Tail(g_queue[p]) = 1 .. Len(g_queue[p]) - 1
              /\ \A x \in 1 .. Len(g_queue[p]) - 1 : Tail(g_queue[p])[x] = g_queue[p][x + 1]
          BY <4>1, <4>2, HeadTailProperties, LenProperties DEF Behind
        <5>2. i \in 1 .. Len(g_queue[p]) - 1
          BY <5>1
        <5> QED BY <2>2, <4>1, <5>1, <5>2
      <4>3. CASE ~Popping(p)
        BY <2>2, <4>3 DEF Behind
      <4>4. CASE g_queue[p] = <<>>
        BY <2>2, <4>4 DEF Behind
      <4> QED BY <4>2, <4>3, <4>4
    <3>2. <<p, b>> \in Holders(j)
      BY <3>1 DEF Holders
    <3> QED BY <3>2
  <2>3. CASE g_next[p] # j
    <3>1. PICK m \in DOMAIN Line(p) : Line(p)[m] = j
      BY <1>1 DEF InLine
    <3>2. \E i \in DOMAIN Behind(p) : Behind(p)[i] = j
      <4>1. CASE g_next[p] = NULL
        BY <3>1, <4>1, LineIs
      <4>2. CASE g_next[p] # NULL
        <5>1. /\ Behind(p) \in Seq(Job) /\ g_next[p] \in Job /\ Line(p) = <<g_next[p]>> \o Behind(p)
          BY <4>2, LineIs DEF TypeOK
        <5>2. <<g_next[p]>> \in Seq(Job) /\ Len(<<g_next[p]>>) = 1 /\ <<g_next[p]>>[1] = g_next[p]
          BY <5>1
        <5>3. /\ Len(Behind(p)) \in Nat /\ DOMAIN Behind(p) = 1 .. Len(Behind(p))
              /\ DOMAIN Line(p) = 1 .. Len(Line(p)) /\ Len(Line(p)) = 1 + Len(Behind(p))
              /\ \A k \in 1 .. 1 + Len(Behind(p)) :
                   Line(p)[k] = IF k <= 1 THEN g_next[p] ELSE Behind(p)[k - 1]
          BY <5>1, <5>2, ConcatProperties, LenProperties
        <5>4. m \in 1 .. 1 + Len(Behind(p)) /\ m # 1
          BY <2>3, <3>1, <5>3
        <5>5. m - 1 \in DOMAIN Behind(p) /\ Behind(p)[m - 1] = j
          BY <3>1, <5>3, <5>4
        <5> QED BY <5>5
      <4> QED BY <4>1, <4>2
    <3> QED BY <2>2, <3>2
  <2> QED BY <2>1, <2>3
<1>2. ASSUME NEW w \in Worker, atp_data[w] = j PROVE Holders(j) # {}
  BY <1>2 DEF Holders
<1> QED BY <1>1, <1>2 DEF Lined, Running

LEMMA InitAccount == Init => Accounted
BY DEF Init, Accounted, AddedIn

LEMMA AccountKept == MoveInv /\ Accounted => NoJobDropped
BY LinedHeld DEF MoveInv, LockInv, Accounted, NoJobDropped, Happened, AddedIn

LEMMA HeldOrFreedKept == PoolInv /\ Accounted => HeldOrFreed
BY HolderKept, FreedKept, AccountKept DEF HeldOrFreed, PoolInv

(* While a graceful atp_destroy is the only one that may come, and the user *)
(* functions return stat_suspend or stat_run, an accepted job is reachable  *)
(* from exactly one place until its memory is released, and that happens    *)
(* once: caller, queue, slot and worker hand it over, although queues and   *)
(* slots are also read without the lock.                                    *)
THEOREM HeldUntilFreed ==
  ASSUME Graceful
  PROVE  Spec => []HeldOrFreed
<1>1. Init => PoolInv /\ Accounted
  BY InitMove, InitPlace, InitAccount DEF PoolInv
<1>2. (PoolInv /\ Accounted) /\ [Next]_vars => (PoolInv /\ Accounted)'
  BY MoveStep, PlaceStep, AccountStep DEF PoolInv, Calm, Graceful
<1> QED BY <1>1, <1>2, HeldOrFreedKept, PTL DEF Spec

----------------------------------------------------------------------------
(* The refinement of JobPool                                                *)

LineMap    == [p \in Priority |-> Line(p)]
RunningMap == {atp_data[w] : w \in {v \in Worker : atp_data[v] # NULL}}
EndedMap   == {j \in Job : freed[j] > 0}

LEMMA KnownIs ==
  ASSUME TypeOK, NEW j \in Job
  PROVE  /\ j \in RunningMap <=> Running(j)
         /\ Promise!Known(j) <=> Running(j) \/ freed[j] > 0 \/ Lined(j)
<1>1. j \in RunningMap <=> Running(j)
  BY PoolAssumption DEF RunningMap, Running, PoolAssumption
<1>2. Promise!Known(j) <=> \/ j \in RunningMap \cup EndedMap
                           \/ \E p \in Priority : \E i \in DOMAIN LineMap[p] : LineMap[p][i] = j
  BY DEF Promise!Known, Promise!Lines, Priority, RunningMap, EndedMap, LineMap
<1>3. \A p \in Priority : LineMap[p] = Line(p)
  BY DEF LineMap
<1> QED BY <1>1, <1>2, <1>3 DEF EndedMap, Lined, InLine

LEMMA InitPromise == Init => Promise!Init
<1> SUFFICES ASSUME Init PROVE Promise!Init
  OBVIOUS
<1>1. \A p \in Priority : Line(p) = <<>>
  <2>1. <<>> \o <<>> = <<>>
    BY ConcatEmptySeq, EmptySeq
  <2> QED BY <2>1 DEF Init, Line, Popping
<1>2. LineMap = [p \in Priority |-> <<>>]
  BY <1>1 DEF LineMap
<1>3. RunningMap = {} /\ EndedMap = {} /\ destroyPc = "uncalled"
  BY DEF Init, RunningMap, EndedMap
<1> QED BY <1>2, <1>3 DEF Promise!Init, Promise!Lines, Priority, LineMap, RunningMap, EndedMap

(* The steps of the pool that are steps of JobPool.                         *)
LEMMA PushSubmits ==
  ASSUME TypeOK, DrainInv, PlaceInv, NEW a \in Producer, Push(a)
  PROVE  Promise!Next
<1>1. AddQueuePush(a) /\ AddFrame
  BY DEF Push
<1> PICK j \in Job : j = hand[a]
  BY <1>1 DEF AddQueuePush, TypeOK
<1>2. PICK p \in Priority : /\ j \in JobsOf(p) /\ Line(p)' = Append(Line(p), j)
                            /\ \A q \in Priority \ {p} : Line(q)' = Line(q)
  BY <1>1, PushPlace
<1>3. LineMap' = [LineMap EXCEPT ![p] = Append(@, j)]
  BY <1>2 DEF LineMap
<1>4. UNCHANGED <<RunningMap, EndedMap, destroyPc>>
  BY <1>1 DEF AddFrame, threadVars, destroyCtl, RunningMap, EndedMap
<1>5. ~Promise!Known(j)
  <2>1. Handed(j)
    BY DEF Handed
  <2> QED BY <2>1, KnownIs DEF PlaceInv, Stages
<1>6. Promise!Submit(p, j)
  BY <1>3, <1>4, <1>5 DEF Promise!Submit, LineMap, RunningMap, EndedMap
<1> QED BY <1>2, <1>6 DEF Promise!Next, Promise!Lines, Promise!JobsOf, JobsOf, Priority

LEMMA TakeStarts ==
  ASSUME TypeOK, PlaceInv, NEW w \in Worker, NEW p \in Priority, WorkerTake(w, p), WorkFrame
  PROVE  Promise!Next
<1>1. /\ g_next[p] \in Job
      /\ Line(p) # <<>> /\ Head(Line(p)) = g_next[p] /\ Line(p)' = Tail(Line(p))
      /\ \A q \in Priority \ {p} : Line(q)' = Line(q)
  BY TakeLine
<1>2. LineMap[p] = Line(p) /\ LineMap' = [LineMap EXCEPT ![p] = Tail(@)]
  BY <1>1 DEF LineMap
<1>3. RunningMap' = RunningMap \cup {Head(LineMap[p])}
  <2>1. \A v \in Worker : atp_data'[v] = IF v = w THEN g_next[p] ELSE atp_data[v]
    BY DEF WorkerTake, TypeOK
  <2>2. atp_data[w] = NULL
    BY DEF WorkerTake, PlaceInv, OneEach
  <2>3. g_next[p] # NULL
    BY <1>1, PoolAssumption DEF PoolAssumption
  <2> QED BY <1>1, <1>2, <2>1, <2>2, <2>3 DEF RunningMap
<1>4. UNCHANGED <<EndedMap, destroyPc>>
  BY DEF WorkerTake, WorkFrame, destroyCtl, EndedMap
<1>5. Promise!Start(p)
  BY <1>1, <1>2, <1>3, <1>4 DEF Promise!Start, LineMap, RunningMap, EndedMap
<1> QED BY <1>5 DEF Promise!Next, Promise!Lines, Priority

LEMMA FinishEnds ==
  ASSUME TypeOK, PlaceInv, NEW w \in Worker, NEW r \in FuncResult, WorkerFinish(w, r), WorkFrame
  PROVE  Promise!Next
<1>1. atp_data[w] \in Job /\ freed[atp_data[w]] = 0 /\ atp_data[w] # NULL
  BY FinishPlace, PoolAssumption DEF PoolAssumption
<1> PICK j \in Job : j = atp_data[w]
  BY <1>1
<1>2. \A p \in Priority : Line(p)' = Line(p)
  BY WorkLine DEF WorkerFinish
<1>3. LineMap' = LineMap
  BY <1>2 DEF LineMap
<1>4. \A k \in Job : freed'[k] = IF k = j THEN 1 ELSE freed[k]
  BY <1>1 DEF Freed, WorkerFinish
<1>5. EndedMap' = EndedMap \cup {j}
  BY <1>4 DEF EndedMap
<1>6. j \in RunningMap /\ RunningMap' = RunningMap \ {j}
  <2>1. \A v \in Worker : atp_data'[v] = IF v = w THEN NULL ELSE atp_data[v]
    BY DEF WorkerFinish, TypeOK
  <2>2. \A v \in Worker : atp_data[v] = j => v = w
    BY <1>1 DEF PlaceInv, OneEach
  <2> QED BY <1>1, <2>1, <2>2 DEF RunningMap
<1>7. UNCHANGED destroyPc
  BY DEF WorkFrame, destroyCtl
<1>8. Promise!End(j)
  BY <1>3, <1>5, <1>6, <1>7 DEF Promise!End, LineMap, RunningMap, EndedMap
<1> QED BY <1>6, <1>8 DEF Promise!Next, RunningMap

LEMMA SlotsDiscard ==
  ASSUME TypeOK, DrainInv, PlaceInv, DestroyFrame, DestroySlots
  PROVE  Promise!Next
<1> DEFINE k == Len(Line("realtime"))
           m == Len(Line("normal"))
           n == [p \in Promise!Lines |-> IF p = "realtime" THEN k ELSE m]
<1>1. \A p \in Priority : Line(p) \in Seq(Job) /\ Len(Line(p)) \in Nat
  BY LineIs, LenProperties
<1>2. \A p \in Priority : LineMap[p] = Line(p) /\ n[p] = Len(Line(p))
  BY DEF LineMap, Promise!Lines, Priority
<1>3. k \in Nat /\ m \in Nat /\ k \in 0 .. k + m /\ m \in 0 .. k + m
  BY <1>1 DEF Priority
<1>4. \A p \in Priority : Line(p)' = <<>>
  BY SlotsLine
<1>5. \A p \in Priority : SubSeq(Line(p), Len(Line(p)) + 1, Len(Line(p))) = <<>>
  BY <1>1, SubSeqEmpty
<1>6. LineMap' = [p \in Promise!Lines |-> SubSeq(LineMap[p], n[p] + 1, Len(LineMap[p]))]
  BY <1>2, <1>4, <1>5 DEF LineMap, Promise!Lines, Priority
<1>7. EndedMap' = EndedMap \cup UNION {{LineMap[p][i] : i \in 1 .. n[p]} : p \in Promise!Lines}
  <2>1. \A j \in Job : freed'[j] = IF Lined(j) THEN 1 ELSE freed[j]
    BY SlotsPlace
  <2>2. \A j \in Job : freed[j] > 0 => ~Lined(j)
    BY DEF PlaceInv, Stages
  <2>3. EndedMap' = EndedMap \cup {j \in Job : Lined(j)}
    BY <2>1, <2>2 DEF EndedMap
  <2>4. \A p \in Priority : \A i \in 1 .. n[p] : LineMap[p][i] \in Job /\ InLine(p, LineMap[p][i])
    <3> SUFFICES ASSUME NEW p \in Priority, NEW i \in 1 .. n[p]
                 PROVE  LineMap[p][i] \in Job /\ InLine(p, LineMap[p][i])
      OBVIOUS
    <3>1. i \in DOMAIN Line(p) /\ LineMap[p][i] = Line(p)[i] /\ Line(p)[i] \in Job
      <4> HIDE DEF n
      <4> QED BY <1>1, <1>2, LenProperties
    <3> QED BY <3>1 DEF InLine
  <2>5. ASSUME NEW j \in Job, NEW p \in Priority, InLine(p, j)
        PROVE  \E i \in 1 .. n[p] : LineMap[p][i] = j
    <3>1. PICK i \in DOMAIN Line(p) : Line(p)[i] = j
      BY <2>5 DEF InLine
    <3>2. i \in 1 .. n[p] /\ LineMap[p][i] = j
      <4> HIDE DEF n
      <4> QED BY <1>1, <1>2, <3>1, LenProperties
    <3> QED BY <3>2
  <2>6. {j \in Job : Lined(j)} = UNION {{LineMap[p][i] : i \in 1 .. n[p]} : p \in Promise!Lines}
    <3>1. Promise!Lines = Priority
      BY DEF Promise!Lines, Priority
    <3> HIDE DEF n
    <3> QED BY <2>4, <2>5, <3>1 DEF Lined
  <2> QED BY <2>3, <2>6
<1>8. destroyPc # "uncalled" /\ destroyPc' # "uncalled" /\ UNCHANGED RunningMap
  BY DEF DestroySlots, DestroyGoto, DestroyFrame, threadVars, RunningMap
<1>9. Promise!Discard
  <2>1. \A p \in Promise!Lines : n[p] <= Len(LineMap[p])
    BY <1>1, <1>2 DEF Promise!Lines, Priority
  <2>2. LineMap["realtime"] = Line("realtime") /\ LineMap["normal"] = Line("normal")
    BY <1>2 DEF Priority
  <2>3. \E a, b \in 0 .. Len(LineMap["realtime"]) + Len(LineMap["normal"]) :
          LET c == [p \in Promise!Lines |-> IF p = "realtime" THEN a ELSE b]
          IN  /\ \A p \in Promise!Lines : c[p] <= Len(LineMap[p])
              /\ LineMap' = [p \in Promise!Lines |-> SubSeq(LineMap[p], c[p] + 1, Len(LineMap[p]))]
              /\ EndedMap' = EndedMap \cup UNION {{LineMap[p][i] : i \in 1 .. c[p]} : p \in Promise!Lines}
    <3> /\ k \in 0 .. Len(LineMap["realtime"]) + Len(LineMap["normal"])
        /\ m \in 0 .. Len(LineMap["realtime"]) + Len(LineMap["normal"])
      BY <1>3, <2>2
    <3> WITNESS k \in 0 .. Len(LineMap["realtime"]) + Len(LineMap["normal"]),
                m \in 0 .. Len(LineMap["realtime"]) + Len(LineMap["normal"])
    <3> QED BY <1>6, <1>7, <2>1
  <2> QED BY <1>8, <2>3 DEF Promise!Discard, Promise!Thrown, LineMap, RunningMap, EndedMap
<1> QED BY <1>9 DEF Promise!Next

(* A step of the pool is a step of JobPool, or one that its callers do not  *)
(* notice.                                                                  *)
LEMMA PromiseStep ==
  ASSUME Calm, OrderlyInv, [Next]_vars
  PROVE  [Promise!Next]_(Promise!vars)
<1>1. TypeOK /\ DrainInv /\ PlaceInv /\ MoveInv
  BY DEF OrderlyInv, PoolInv, MoveInv, LockInv
<1>2. CASE Still
  <2>1. LineMap' = LineMap
    BY <1>2 DEF Still, LineMap
  <2>2. RunningMap' = RunningMap /\ EndedMap' = EndedMap
    BY <1>2 DEF Still, RunningMap, EndedMap
  <2>3. CASE destroyPc = "uncalled" /\ destroyPc' # "uncalled"
    <3>1. Promise!Close
      BY <2>1, <2>2, <2>3 DEF Promise!Close, LineMap, RunningMap, EndedMap
    <3> QED BY <3>1 DEF Promise!Next
  <2>4. CASE (destroyPc # "uncalled") = (destroyPc' # "uncalled")
    BY <2>1, <2>2, <2>4 DEF Promise!vars, LineMap, RunningMap, EndedMap
  <2> QED BY <1>2, <2>3, <2>4 DEF Still
<1>3. ASSUME NEW a \in Producer, NEW j \in Job, AddQueueCheck(a, j), AddFrame
      PROVE  UNCHANGED Promise!vars
  <2>1. UNCHANGED <<g_queue, g_next, mainPc, serving, destroyPc, clearing, atp_data, freed>>
    BY <1>3 DEF AddQueueCheck, AddFrame, mainCtl, destroyCtl, threadVars
  <2>2. \A p \in Priority : Line(p)' = Line(p)
    BY <2>1, LineKept DEF Behind, Popping
  <2>3. LineMap' = LineMap /\ RunningMap' = RunningMap /\ EndedMap' = EndedMap
    BY <2>1, <2>2 DEF LineMap, RunningMap, EndedMap
  <2> QED BY <2>1, <2>3 DEF Promise!vars, LineMap, RunningMap, EndedMap
<1> QED BY <1>1, <1>2, <1>3, EveryMove, PushSubmits, TakeStarts, FinishEnds, SlotsDiscard

(* The pool implements JobPool: threads, lock, slots and wake-ups are not   *)
(* noticed by its callers, to whom a job waits in the line of its priority, *)
(* is started from the front, ends once, and is thrown away only after      *)
(* atp_destroy was called.                                                  *)
THEOREM PromiseKept ==
  ASSUME Graceful
  PROVE  Spec => KeepsPromise
<1>1. OrderlyInv /\ [Next]_vars => OrderlyInv'
  BY OrderlyStep DEF Calm, Graceful
<1>2. OrderlyInv /\ [Next]_vars => [Promise!Next]_(Promise!vars)
  BY PromiseStep DEF Calm, Graceful
<1> QED BY InitOrderly, InitPromise, <1>1, <1>2, PTL DEF Spec, KeepsPromise, Promise!Spec

----------------------------------------------------------------------------
(* The order of pushes                                                      *)

(* In log l: every job was pushed once; j was pushed before k.              *)
PushedOnce(l) == \A h, i \in DOMAIN l : l[h] = l[i] /\ l[h][1] = "add" => h = i
Earlier(l, j, k) ==
  \E i \in DOMAIN l : l[i] = <<"add", k>> /\ \E h \in 1 .. i - 1 : l[h] = <<"add", j>>

(* Pushes do not change places, a new one is the last, and each has one     *)
(* place.                                                                   *)
LEMMA EarlierKept ==
  ASSUME NEW l \in Seq(Entry), NEW e \in Entry
  PROVE  /\ \A j, k : Earlier(l, j, k) => Earlier(Append(l, e), j, k)
         /\ \A j, k : AddedIn(l, j) /\ e = <<"add", k>> => Earlier(Append(l, e), j, k)
<1> DEFINE t == Append(l, e)
<1>1. /\ Len(l) \in Nat /\ DOMAIN l = 1 .. Len(l) /\ DOMAIN t = 1 .. Len(l) + 1
      /\ \A i \in 1 .. Len(l) : t[i] = l[i]
      /\ t[Len(l) + 1] = e
  BY LogGrows
<1> HIDE DEF t
<1>2. ASSUME NEW j, NEW k, Earlier(l, j, k) PROVE Earlier(t, j, k)
  <2>1a. PICK i \in 1 .. Len(l) : l[i] = <<"add", k>> /\ \E h \in 1 .. i - 1 : l[h] = <<"add", j>>
    BY <1>1, <1>2 DEF Earlier
  <2>1. PICK h \in 1 .. i - 1 : l[h] = <<"add", j>>
    BY <2>1a
  <2>2. i \in DOMAIN t /\ t[i] = l[i] /\ t[h] = l[h]
    BY <1>1, <2>1
  <2> QED BY <2>1a, <2>1, <2>2 DEF Earlier
<1>3. ASSUME NEW j, NEW k, AddedIn(l, j), e = <<"add", k>> PROVE Earlier(t, j, k)
  <2>1. PICK h \in 1 .. Len(l) : l[h] = <<"add", j>>
    BY <1>1, <1>3 DEF AddedIn
  <2>2. h \in 1 .. (Len(l) + 1) - 1 /\ t[h] = l[h] /\ Len(l) + 1 \in DOMAIN t
    BY <1>1, <2>1
  <2> QED BY <1>1, <1>3, <2>1, <2>2 DEF Earlier
<1> QED BY <1>2, <1>3 DEF t

LEMMA EarlierOrders ==
  ASSUME NEW l \in Seq(Entry), PushedOnce(l), NEW j, NEW k, Earlier(l, j, k)
  PROVE  j # k /\ ~Earlier(l, k, j)
<1>1a. PICK i \in DOMAIN l : l[i] = <<"add", k>> /\ \E h \in 1 .. i - 1 : l[h] = <<"add", j>>
  BY DEF Earlier
<1>1. PICK h \in 1 .. i - 1 : l[h] = <<"add", j>>
  BY <1>1a
<1>2. Len(l) \in Nat /\ DOMAIN l = 1 .. Len(l) /\ h \in DOMAIN l
  BY <1>1a, <1>1, LenProperties
<1>3. /\ \A x \in DOMAIN l : l[x] = <<"add", k>> => x = i
      /\ \A x \in DOMAIN l : l[x] = <<"add", j>> => x = h
  <2>1. l[i] = <<"add", k>> /\ l[h] = <<"add", j>> /\ l[i][1] = "add" /\ l[h][1] = "add"
    BY <1>1a, <1>1
  <2>2. ASSUME NEW x \in DOMAIN l, l[x] = <<"add", k>> PROVE x = i
    <3>1. l[x] = l[i] /\ l[x][1] = "add"
      BY <2>1, <2>2
    <3> QED BY <3>1 DEF PushedOnce
  <2>3. ASSUME NEW x \in DOMAIN l, l[x] = <<"add", j>> PROVE x = h
    <3>1. l[x] = l[h] /\ l[x][1] = "add"
      BY <2>1, <2>3
    <3> QED BY <1>2, <3>1 DEF PushedOnce
  <2> QED BY <2>2, <2>3
<1>4. j # k
  BY <1>1a, <1>1, <1>2, <1>3
<1>5. ASSUME Earlier(l, k, j) PROVE FALSE
  <2>1a. PICK x \in DOMAIN l : l[x] = <<"add", j>> /\ \E y \in 1 .. x - 1 : l[y] = <<"add", k>>
    BY <1>5 DEF Earlier
  <2>1. PICK y \in 1 .. x - 1 : l[y] = <<"add", k>>
    BY <2>1a
  <2>2. x = h /\ y = i
    BY <1>2, <1>3, <2>1a, <2>1
  <2> QED BY <1>1a, <1>1, <1>2, <2>1, <2>2
<1> QED BY <1>4, <1>5

LEMMA OnceKept ==
  ASSUME NEW l \in Seq(Entry), NEW e \in Entry, PushedOnce(l),
         e[1] = "add" => \A x \in DOMAIN l : l[x] # e
  PROVE  PushedOnce(Append(l, e))
<1>1. /\ Len(l) \in Nat /\ DOMAIN l = 1 .. Len(l) /\ DOMAIN Append(l, e) = 1 .. Len(l) + 1
      /\ \A i \in 1 .. Len(l) : Append(l, e)[i] = l[i]
      /\ Append(l, e)[Len(l) + 1] = e
  BY LogGrows
<1> QED BY <1>1 DEF PushedOnce

----------------------------------------------------------------------------
(* The queue q, the slot n and the started jobs of one priority, whose jobs *)
(* are S: in log l, started jobs were pushed before the job in the slot,    *)
(* and this before the queue, except that it also is a queue entry while    *)
(* mainthread is between the copy and the pop.                              *)
Ranks(l, q, n, popping, S) ==
  /\ \A x \in DOMAIN q : q[x] \in S /\ AddedIn(l, q[x])
  /\ \A x, y \in DOMAIN q : x < y => Earlier(l, q[x], q[y])
  /\ n # NULL => n \in S /\ AddedIn(l, n)
  /\ n # NULL => \A x \in DOMAIN q : Earlier(l, n, q[x]) \/ (popping /\ q[x] = n)
  /\ \A j \in S : StartedIn(l, j) =>
       /\ AddedIn(l, j)
       /\ n # NULL => Earlier(l, j, n)
       /\ \A x \in DOMAIN q : Earlier(l, j, q[x])

LEMMA RanksSlotEmptied ==
  ASSUME NEW l, NEW q, NEW n, NEW popping, NEW S, Ranks(l, q, n, popping, S), NEW b
  PROVE  Ranks(l, q, NULL, b, S)
BY DEF Ranks

LEMMA RanksFront ==
  ASSUME NEW l, NEW q \in Seq(Job), NEW n, NEW popping, NEW S, Ranks(l, q, n, popping, S),
         q # <<>>
  PROVE  Ranks(l, q, Head(q), TRUE, S)
<1>1. Len(q) \in Nat \ {0} /\ DOMAIN q = 1 .. Len(q) /\ Head(q) = q[1]
  BY EmptySeq, LenProperties
<1>2. \A x \in DOMAIN q : x = 1 \/ 1 < x
  BY <1>1
<1>3. 1 \in DOMAIN q
  BY <1>1
<1> QED BY <1>1, <1>2, <1>3 DEF Ranks

(* The entry that is popped is the one in the slot, or another thread has   *)
(* popped that one.                                                         *)
LEMMA RanksPop ==
  ASSUME NEW l \in Seq(Entry), PushedOnce(l), NEW q \in Seq(Job), NEW n, NEW popping, NEW S,
         Ranks(l, q, n, popping, S), q # <<>>, NEW b
  PROVE  Ranks(l, Tail(q), n, b, S)
<1>1. /\ Len(q) \in Nat \ {0} /\ DOMAIN q = 1 .. Len(q)
      /\ DOMAIN Tail(q) = 1 .. Len(q) - 1
      /\ \A x \in 1 .. Len(q) - 1 : Tail(q)[x] = q[x + 1]
  BY EmptySeq, LenProperties, HeadTailProperties
<1>2. \A x \in DOMAIN Tail(q) : x + 1 \in DOMAIN q /\ Tail(q)[x] = q[x + 1] /\ 1 < x + 1
  BY <1>1
<1>3. ASSUME NEW x \in DOMAIN Tail(q), n # NULL PROVE Earlier(l, n, Tail(q)[x])
  <2>1. 1 \in DOMAIN q /\ Earlier(l, q[1], q[x + 1])
    BY <1>1, <1>2 DEF Ranks
  <2>2. q[x + 1] # n
    <3> SUFFICES ASSUME q[x + 1] = n PROVE FALSE
      OBVIOUS
    <3>1. Earlier(l, q[1], n)
      BY <2>1
    <3>2. q[1] # n /\ ~Earlier(l, n, q[1])
      BY <3>1, EarlierOrders
    <3> QED BY <1>3, <2>1, <3>2 DEF Ranks
  <2> QED BY <1>2, <1>3, <2>2 DEF Ranks
<1>4. \A x, y \in DOMAIN Tail(q) : x < y => Earlier(l, Tail(q)[x], Tail(q)[y])
  <2>1. \A x, y \in DOMAIN Tail(q) : x < y => x + 1 < y + 1
    BY <1>1
  <2> QED BY <1>2, <2>1 DEF Ranks
<1> QED BY <1>2, <1>3, <1>4 DEF Ranks

LEMMA RanksLog ==
  ASSUME NEW l \in Seq(Entry), NEW e \in Entry, NEW q, NEW n, NEW popping, NEW S,
         Ranks(l, q, n, popping, S), e[1] = "add" \/ e[2] \notin S
  PROVE  Ranks(Append(l, e), q, n, popping, S)
<1>1. /\ \A j : AddedIn(l, j) => AddedIn(Append(l, e), j)
      /\ \A j \in S : StartedIn(Append(l, e), j) => StartedIn(l, j)
  <2>1. \A j \in S : e # <<"start", j>>
    OBVIOUS
  <2> QED BY <2>1, LogGrows
<1>2. \A j, k : Earlier(l, j, k) => Earlier(Append(l, e), j, k)
  BY EarlierKept
<1> QED BY <1>1, <1>2 DEF Ranks

LEMMA RanksPush ==
  ASSUME NEW l \in Seq(Entry), NEW q \in Seq(Job), NEW n, NEW popping, NEW S,
         Ranks(l, q, n, popping, S), NEW j \in S, j \in Job
  PROVE  Ranks(Append(l, <<"add", j>>), Append(q, j), n, popping, S)
<1> DEFINE e == <<"add", j>>
           t == Append(l, e)
           r == Append(q, j)
<1>1. e \in Entry /\ e[1] = "add"
  BY DEF Entry
<1>2. Ranks(t, q, n, popping, S)
  BY <1>1, RanksLog
<1>3. \A k : AddedIn(l, k) => Earlier(t, k, j)
  BY <1>1, EarlierKept
<1>4. AddedIn(t, j) /\ \A k \in S : StartedIn(t, k) => StartedIn(l, k)
  <2>1. \A k : e # <<"start", k>>
    OBVIOUS
  <2> QED BY <1>1, <2>1, LogGrows
<1>5. /\ Len(q) \in Nat /\ DOMAIN q = 1 .. Len(q) /\ DOMAIN r = 1 .. Len(q) + 1
      /\ \A x \in 1 .. Len(q) : r[x] = q[x]
      /\ r[Len(q) + 1] = j
  BY AppendProperties, LenProperties
<1> HIDE DEF e, t, r
<1>6. \A x \in DOMAIN r : \/ x \in DOMAIN q /\ r[x] = q[x]
                          \/ x = Len(q) + 1 /\ r[x] = j
  BY <1>5
<1>7. \A x \in DOMAIN r : r[x] \in S /\ AddedIn(t, r[x])
  BY <1>2, <1>4, <1>6 DEF Ranks
<1>8. ASSUME NEW x \in DOMAIN r, NEW y \in DOMAIN r, x < y PROVE Earlier(t, r[x], r[y])
  <2>1. x \in DOMAIN q /\ r[x] = q[x]
    BY <1>5, <1>8
  <2>2. CASE y \in DOMAIN q
    <3>1. r[y] = q[y]
      BY <1>5, <2>2
    <3> QED BY <1>2, <1>8, <2>1, <2>2, <3>1 DEF Ranks
  <2>3. CASE y = Len(q) + 1
    <3>1. AddedIn(l, q[x]) /\ r[y] = j
      BY <1>5, <2>1, <2>3 DEF Ranks
    <3> QED BY <1>3, <2>1, <3>1
  <2> QED BY <1>6, <2>2, <2>3
<1>9. ASSUME n # NULL, NEW x \in DOMAIN r PROVE Earlier(t, n, r[x]) \/ (popping /\ r[x] = n)
  <2>1. AddedIn(l, n)
    BY <1>9 DEF Ranks
  <2> QED BY <1>2, <1>3, <1>6, <1>9, <2>1 DEF Ranks
<1>10. ASSUME NEW k \in S, StartedIn(t, k), NEW x \in DOMAIN r PROVE Earlier(t, k, r[x])
  <2>1. AddedIn(l, k)
    BY <1>4, <1>10 DEF Ranks
  <2> QED BY <1>2, <1>3, <1>6, <1>10, <2>1 DEF Ranks
<1>11. Ranks(t, r, n, popping, S)
  BY <1>2, <1>7, <1>8, <1>9, <1>10 DEF Ranks
<1> QED BY <1>11 DEF e, t, r

LEMMA RanksStart ==
  ASSUME NEW l \in Seq(Entry), NEW q, NEW n \in Job, n # NULL, NEW S,
         Ranks(l, q, n, FALSE, S), NEW b
  PROVE  Ranks(Append(l, <<"start", n>>), q, NULL, b, S)
<1> DEFINE e == <<"start", n>>
           t == Append(l, e)
<1>1. e \in Entry
  BY DEF Entry
<1>2. /\ \A j : AddedIn(l, j) => AddedIn(t, j)
      /\ \A j : StartedIn(t, j) => StartedIn(l, j) \/ j = n
  <2>1. \A j : e = <<"start", j>> => j = n
    OBVIOUS
  <2> QED BY <1>1, <2>1, LogGrows
<1>3. \A j, k : Earlier(l, j, k) => Earlier(t, j, k)
  BY <1>1, EarlierKept
<1> HIDE DEF e, t
<1>4. Ranks(t, q, NULL, b, S)
  BY <1>2, <1>3 DEF Ranks
<1> QED BY <1>4 DEF e, t

----------------------------------------------------------------------------
(* StartsInPushOrder at position m of log l.                                *)
InPushOrder(l, m) ==
  \E i \in 1 .. m - 1 :
    /\ l[i] = <<"add", l[m][2]>>
    /\ \A k \in 1 .. m - 1 :
         l[k][1] = "start" /\ SamePriority(l[k][2], l[m][2]) =>
           \E h \in 1 .. i - 1 : l[h] = <<"add", l[k][2]>>

PushOrderOf(l) == \A m \in DOMAIN l : l[m][1] = "start" => InPushOrder(l, m)

LEMMA PushOrderIs ==
  (StartsInPushOrder <=> PushOrderOf(log)) /\ (StartsInPushOrder' <=> PushOrderOf(log'))
BY DEF StartsInPushOrder, PushOrderOf, InPushOrder, SamePriority

LEMMA PushOrderKept ==
  ASSUME NEW l \in Seq(Entry), NEW e \in Entry, PushOrderOf(l),
         e[1] = "start" => InPushOrder(Append(l, e), Len(l) + 1)
  PROVE  PushOrderOf(Append(l, e))
<1> DEFINE t == Append(l, e)
<1>1. /\ Len(l) \in Nat /\ DOMAIN l = 1 .. Len(l) /\ DOMAIN t = 1 .. Len(l) + 1
      /\ \A i \in 1 .. Len(l) : t[i] = l[i]
      /\ t[Len(l) + 1] = e
  BY LogGrows
<1>2. e[1] = "start" => InPushOrder(t, Len(l) + 1)
  OBVIOUS
<1> HIDE DEF t
<1>3. ASSUME NEW m \in 1 .. Len(l), t[m][1] = "start" PROVE InPushOrder(t, m)
  <2>1. t[m] = l[m] /\ \A k \in 1 .. m - 1 : t[k] = l[k]
    BY <1>1
  <2>2. PICK i \in 1 .. m - 1 :
          /\ l[i] = <<"add", l[m][2]>>
          /\ \A k \in 1 .. m - 1 :
               l[k][1] = "start" /\ SamePriority(l[k][2], l[m][2]) =>
                 \E h \in 1 .. i - 1 : l[h] = <<"add", l[k][2]>>
    <3>1. InPushOrder(l, m)
      BY <1>1, <1>3, <2>1 DEF PushOrderOf
    <3> QED BY <3>1 DEF InPushOrder
  <2>3. \A h \in 1 .. i - 1 : h \in 1 .. m - 1
    BY <1>1
  <2>4. t[i] = <<"add", t[m][2]>>
    BY <2>1, <2>2
  <2>5. ASSUME NEW k \in 1 .. m - 1, t[k][1] = "start", SamePriority(t[k][2], t[m][2])
        PROVE  \E h \in 1 .. i - 1 : t[h] = <<"add", t[k][2]>>
    <3>1. t[k] = l[k]
      BY <2>1
    <3>2. PICK h \in 1 .. i - 1 : l[h] = <<"add", l[k][2]>>
      BY <2>1, <2>2, <2>5, <3>1
    <3> QED BY <2>1, <2>3, <3>1, <3>2
  <2> QED BY <2>4, <2>5 DEF InPushOrder
<1>4. PushOrderOf(t)
  BY <1>1, <1>2, <1>3 DEF PushOrderOf
<1> QED BY <1>4 DEF t

(* The job in the slot may start.                                           *)
LEMMA PushOrderNext ==
  ASSUME NEW l \in Seq(Entry), NEW p \in Priority, NEW j \in JobsOf(p), j \in Job,
         PushedOnce(l), AddedIn(l, j),
         \A k \in JobsOf(p) : StartedIn(l, k) => Earlier(l, k, j)
  PROVE  InPushOrder(Append(l, <<"start", j>>), Len(l) + 1)
<1> DEFINE e == <<"start", j>>
           t == Append(l, e)
<1>1. e \in Entry
  BY DEF Entry
<1>2. /\ Len(l) \in Nat /\ DOMAIN l = 1 .. Len(l) /\ t[Len(l) + 1] = e
      /\ \A i \in 1 .. Len(l) : t[i] = l[i] /\ l[i] \in Entry
  BY <1>1, LogGrows
<1> HIDE DEF t
<1>3. PICK i \in 1 .. Len(l) : l[i] = <<"add", j>>
  BY <1>2 DEF AddedIn
<1>4. \A x \in DOMAIN l : l[x] = <<"add", j>> => x = i
  BY <1>2, <1>3 DEF PushedOnce
<1>5. ASSUME NEW k \in 1 .. (Len(l) + 1) - 1, t[k][1] = "start", SamePriority(t[k][2], e[2])
      PROVE  \E h \in 1 .. i - 1 : t[h] = <<"add", t[k][2]>>
  <2>1. k \in 1 .. Len(l) /\ t[k] = l[k] /\ l[k] \in Entry
    BY <1>2
  <2>2. PICK x \in Job : t[k] = <<"start", x>>
    BY <1>5, <2>1 DEF Entry
  <2>3. x \in JobsOf(p)
    BY <1>5, <2>2, PoolAssumption DEF SamePriority, JobsOf, PoolAssumption
  <2>4. Earlier(l, x, j)
    BY <1>2, <2>1, <2>2, <2>3 DEF StartedIn
  <2>5a. PICK y \in DOMAIN l : l[y] = <<"add", j>> /\ \E h \in 1 .. y - 1 : l[h] = <<"add", x>>
    BY <2>4 DEF Earlier
  <2>5. PICK h \in 1 .. y - 1 : l[h] = <<"add", x>>
    BY <2>5a
  <2>6. y = i /\ h \in 1 .. i - 1 /\ t[h] = l[h]
    BY <1>2, <1>4, <2>5a, <2>5
  <2> QED BY <2>2, <2>5, <2>6
<1>6. i \in 1 .. (Len(l) + 1) - 1 /\ t[i] = <<"add", t[Len(l) + 1][2]>>
  BY <1>2, <1>3
<1>7. t[Len(l) + 1][2] = e[2]
  BY <1>2
<1>8. InPushOrder(t, Len(l) + 1)
  BY <1>5, <1>6, <1>7 DEF InPushOrder
<1> QED BY <1>8 DEF t
----------------------------------------------------------------------------
(* mainthread has copied the front of queue p and not popped it.            *)
Popped(p) == mainPc = "pop" /\ serving = p

RankInv ==
  /\ PushedOnce(log)
  /\ \A j \in Job : AddedIn(log, j) => j \notin todo /\ ~Handed(j)
  /\ \A a, b \in Producer : hand[a] # NULL => hand[a] \notin todo /\ (hand[a] = hand[b] => a = b)
  /\ \A p \in Priority : Ranks(log, g_queue[p], g_next[p], Popped(p), JobsOf(p))
  /\ StartsInPushOrder

LEMMA InitRank == Init => RankInv
<1> SUFFICES ASSUME Init PROVE RankInv
  OBVIOUS
<1>1. log = <<>> /\ DOMAIN log = {}
  BY DEF Init
<1>2. \A p \in Priority : g_queue[p] = <<>> /\ DOMAIN g_queue[p] = {} /\ g_next[p] = NULL
  BY DEF Init
<1>3. \A p \in Priority : Ranks(log, g_queue[p], g_next[p], Popped(p), JobsOf(p))
  BY <1>1, <1>2 DEF Ranks, StartedIn
<1>4. PushedOnce(log) /\ StartsInPushOrder /\ \A j \in Job : ~AddedIn(log, j)
  BY <1>1 DEF PushedOnce, StartsInPushOrder, AddedIn
<1> QED BY <1>3, <1>4 DEF Init, RankInv

(* A step that pushes and starts nothing.                                   *)
LEMMA RankStill ==
  ASSUME RankInv, UNCHANGED <<log, hand, todo>>,
         \A p \in Priority : Ranks(log, g_queue'[p], g_next'[p], Popped(p)', JobsOf(p))
  PROVE  RankInv'
<1>1. PushedOnce(log)' /\ \A j : AddedIn(log, j)' <=> AddedIn(log, j)
  BY DEF RankInv, PushedOnce, AddedIn
<1>2. StartsInPushOrder'
  BY PushOrderIs DEF RankInv
<1>3. \A p \in Priority : Ranks(log, g_queue[p], g_next[p], Popped(p), JobsOf(p))'
  <2>1. log' = log
    OBVIOUS
  <2>2. \A p \in Priority : Ranks(log', g_queue'[p], g_next'[p], Popped(p)', JobsOf(p))
    BY <2>1
  <2> QED BY <2>2 DEF JobsOf, Ranks, Earlier, AddedIn, StartedIn
<1>4. \A j : Handed(j)' <=> Handed(j)
  BY DEF Handed
<1> QED BY <1>1, <1>2, <1>3, <1>4 DEF RankInv

LEMMA RankKept ==
  ASSUME RankInv, UNCHANGED <<log, hand, todo, g_queue, g_next>>, \A p \in Priority : Popped(p)' <=> Popped(p)
  PROVE  RankInv'
<1>1. \A p \in Priority : Ranks(log, g_queue'[p], g_next'[p], Popped(p)', JobsOf(p))
  BY DEF RankInv, Ranks
<1> QED BY <1>1, RankStill

LEMMA CallRank ==
  ASSUME TypeOK, RankInv, AddFrame,
         \/ \E a \in Producer, j \in Job : AddQueueCheck(a, j)
         \/ \E j \in Job : AddQueueRefuse(j)
  PROVE  RankInv'
<1>1. UNCHANGED <<log, g_queue, g_next, mainPc, serving>>
  BY DEF AddQueueCheck, AddQueueRefuse, AddFrame, mainCtl
<1>2. PushedOnce(log)' /\ \A j : AddedIn(log, j)' <=> AddedIn(log, j)
  BY <1>1 DEF RankInv, PushedOnce, AddedIn
<1>3. StartsInPushOrder'
  BY <1>1, PushOrderIs DEF RankInv
<1>4. \A p \in Priority : Ranks(log, g_queue[p], g_next[p], Popped(p), JobsOf(p))'
  <2>1. \A p \in Priority : Popped(p)' <=> Popped(p)
    BY <1>1 DEF Popped
  <2>2. \A p \in Priority : Ranks(log, g_queue[p], g_next[p], Popped(p)', JobsOf(p))
    BY <2>1 DEF RankInv, Ranks
  <2>3. \A p \in Priority : Ranks(log', g_queue'[p], g_next'[p], Popped(p)', JobsOf(p))
    BY <1>1, <2>2
  <2> QED BY <2>3 DEF JobsOf, Ranks, Earlier, AddedIn, StartedIn
<1>5. NULL \notin Job
  BY PoolAssumption DEF PoolAssumption
<1>6. ASSUME NEW a \in Producer, NEW j \in Job, AddQueueCheck(a, j)
      PROVE  /\ \A k \in Job : AddedIn(log, k) => k \notin todo' /\ ~Handed(k)'
             /\ \A b, c \in Producer : hand'[b] # NULL => hand'[b] \notin todo' /\ (hand'[b] = hand'[c] => b = c)
  <2>1. /\ j \in todo /\ todo' = todo \ {j}
        /\ \A b \in Producer : hand'[b] = IF b = a THEN j ELSE hand[b]
    BY <1>6 DEF AddQueueCheck, TypeOK
  <2>2. ~AddedIn(log, j) /\ \A b \in Producer : hand[b] # j
    BY <2>1, <1>5 DEF RankInv
  <2> QED BY <1>5, <2>1, <2>2 DEF RankInv, Handed
<1>7. ASSUME NEW j \in Job, AddQueueRefuse(j)
      PROVE  /\ \A k \in Job : AddedIn(log, k) => k \notin todo' /\ ~Handed(k)'
             /\ \A b, c \in Producer : hand'[b] # NULL => hand'[b] \notin todo' /\ (hand'[b] = hand'[c] => b = c)
  BY <1>7 DEF AddQueueRefuse, RankInv, Handed
<1> QED BY <1>2, <1>3, <1>4, <1>6, <1>7 DEF RankInv

LEMMA PushRank ==
  ASSUME TypeOK, RankInv, AddFrame, NEW a \in Producer, AddQueuePush(a)
  PROVE  RankInv'
<1> PICK j \in Job : j = hand[a]
  BY DEF AddQueuePush, TypeOK
<1> DEFINE e == <<"add", j>>
<1>1. log \in Seq(Entry) /\ e \in Entry /\ log' = Append(log, e) /\ UNCHANGED <<todo, g_next, mainPc, serving>>
  BY DEF AddQueuePush, TypeOK, Entry, AddFrame, mainCtl
<1>2. PICK p \in Priority : j \in JobsOf(p) /\ g_queue' = [g_queue EXCEPT ![p] = Append(@, j)]
  <2>1. PICK p \in Priority : /\ p = "normal" <=> j \in NormalJob
                              /\ g_queue' = [g_queue EXCEPT ![p] = Append(@, j)]
    BY DEF AddQueuePush
  <2>2. j \in JobsOf(p)
    BY <2>1 DEF JobsOf, Job, Priority
  <2> QED BY <2>1, <2>2
<1>3. \A b \in Producer : hand'[b] = IF b = a THEN NULL ELSE hand[b]
  BY DEF AddQueuePush, TypeOK
<1>4. j # NULL /\ Handed(j) /\ j \notin todo /\ ~AddedIn(log, j)
  BY PoolAssumption DEF RankInv, Handed, PoolAssumption
<1>5. PushedOnce(log')
  BY <1>1, <1>4, OnceKept DEF RankInv, AddedIn
<1>6. \A k : AddedIn(log', k) => AddedIn(log, k) \/ k = j
  <2>1. \A k : e = <<"add", k>> => k = j
    OBVIOUS
  <2> QED BY <1>1, <2>1, LogGrows
<1>7. \A k \in Job : AddedIn(log', k) => k \notin todo' /\ ~Handed(k)'
  <2>1. \A k : Handed(k)' => Handed(k) \/ k = NULL
    BY <1>3 DEF Handed
  <2>2. ~Handed(j)'
    BY <1>3, <1>4 DEF RankInv, Handed
  <2> QED BY <1>1, <1>4, <1>6, <2>1, <2>2, PoolAssumption DEF RankInv, PoolAssumption
<1>8. \A b, c \in Producer : hand'[b] # NULL => hand'[b] \notin todo' /\ (hand'[b] = hand'[c] => b = c)
  BY <1>1, <1>3 DEF RankInv
<1>9. ASSUME NEW q \in Priority PROVE Ranks(log', g_queue'[q], g_next'[q], Popped(q)', JobsOf(q))
  <2>1. Ranks(log, g_queue[q], g_next[q], Popped(q), JobsOf(q)) /\ (Popped(q)' <=> Popped(q))
    BY <1>1 DEF RankInv, Popped
  <2>2. g_queue[q] \in Seq(Job) /\ g_next'[q] = g_next[q]
    BY <1>1 DEF TypeOK
  <2>3. CASE q = p
    <3>1. g_queue'[q] = Append(g_queue[q], j)
      BY <1>2, <2>3 DEF TypeOK
    <3>2. Ranks(log', g_queue'[q], g_next[q], Popped(q), JobsOf(q))
      BY <1>1, <1>2, <2>1, <2>2, <2>3, <3>1, RanksPush
    <3> QED BY <2>1, <2>2, <3>2 DEF Ranks
  <2>4. CASE q # p
    <3>1. g_queue'[q] = g_queue[q]
      BY <1>2, <2>4 DEF TypeOK
    <3>2. Ranks(log', g_queue'[q], g_next[q], Popped(q), JobsOf(q))
      BY <1>1, <2>1, <3>1, RanksLog
    <3> QED BY <2>1, <2>2, <3>2 DEF Ranks
  <2> QED BY <2>3, <2>4
<1>10. StartsInPushOrder'
  <2>1. PushOrderOf(log)
    BY PushOrderIs DEF RankInv
  <2>2. PushOrderOf(log')
    BY <1>1, <2>1, PushOrderKept
  <2> QED BY <2>2, PushOrderIs
<1>11. PushedOnce(log)' /\ \A k : AddedIn(log, k)' <=> AddedIn(log', k)
  BY <1>5 DEF PushedOnce, AddedIn
<1>12. \A q \in Priority : Ranks(log, g_queue[q], g_next[q], Popped(q), JobsOf(q))'
  BY <1>9 DEF JobsOf, Ranks, Earlier, AddedIn, StartedIn
<1> QED BY <1>7, <1>8, <1>10, <1>11, <1>12 DEF RankInv

LEMMA MainRank ==
  ASSUME TypeOK, RankInv, Mainthread
  PROVE  RankInv'
<1>1. UNCHANGED <<log, hand, todo>>
  BY DEF Mainthread, MainFrame, addVars
<1>2. \A p \in Priority : Ranks(log, g_queue[p], g_next[p], Popped(p), JobsOf(p)) /\ g_queue[p] \in Seq(Job)
  BY DEF RankInv, TypeOK
<1>3. ASSUME UNCHANGED <<g_queue, g_next>>, mainPc # "pop", mainPc' # "pop" PROVE RankInv'
  BY <1>1, <1>3, RankKept DEF Popped
<1>4. CASE MainLoop \/ MainScan \/ MainLock \/ MainResignal
  BY <1>3, <1>4 DEF MainLoop, MainScan, MainLock, MainResignal, queueVars
<1>5. CASE MainBroadcast \/ MainExitLock \/ MainExitScan \/ MainStop
  BY <1>3, <1>5 DEF MainBroadcast, MainExitLock, MainExitScan, MainStop, queueVars
<1>6. CASE MainCheckExit \/ MainKill \/ MainFree
  BY <1>3, <1>6 DEF MainCheckExit, MainKill, MainFree, queueVars
<1>7. CASE MainFront
  <2>1. mainPc = "front" /\ mainPc' = "pop" /\ UNCHANGED <<serving, g_queue>>
    BY <1>7 DEF MainFront
  <2>2. ASSUME NEW p \in Priority PROVE Ranks(log, g_queue'[p], g_next'[p], Popped(p)', JobsOf(p))
    <3>1. CASE p = serving /\ g_queue[p] # <<>>
      <4>1. g_next'[p] = Head(g_queue[p]) /\ Popped(p)'
        BY <1>7, <2>1, <3>1 DEF MainFront, TypeOK, Popped
      <4>2. Ranks(log, g_queue[p], Head(g_queue[p]), TRUE, JobsOf(p))
        BY <1>2, <3>1, RanksFront
      <4> QED BY <2>1, <4>1, <4>2 DEF Ranks
    <3>2. CASE ~(p = serving /\ g_queue[p] # <<>>)
      <4>1. g_next'[p] = g_next[p] /\ (p = serving => DOMAIN g_queue[p] = {})
        BY <1>7, <3>2 DEF MainFront, TypeOK
      <4>2. ~Popped(p)
        BY <2>1 DEF Popped
      <4> QED BY <1>2, <2>1, <4>1, <4>2 DEF Ranks
    <3> QED BY <3>1, <3>2
  <2> QED BY <1>1, <2>2, RankStill
<1>8. CASE MainPop
  <2>1. mainPc' = "loop" /\ UNCHANGED <<serving, g_next>>
    BY <1>8 DEF MainPop
  <2>2. ASSUME NEW p \in Priority PROVE Ranks(log, g_queue'[p], g_next'[p], Popped(p)', JobsOf(p))
    <3>1. CASE p = serving /\ g_queue[p] # <<>>
      <4>1. g_queue'[p] = Tail(g_queue[p])
        BY <1>8, <3>1 DEF MainPop, Pop, TypeOK
      <4>2. Ranks(log, Tail(g_queue[p]), g_next[p], Popped(p)', JobsOf(p))
        BY <1>2, <3>1, RanksPop DEF RankInv, TypeOK, Entry
      <4> QED BY <2>1, <4>1, <4>2
    <3>2. CASE ~(p = serving /\ g_queue[p] # <<>>)
      <4>1. g_queue'[p] = g_queue[p] /\ (p = serving => DOMAIN g_queue[p] = {})
        BY <1>8, <3>2 DEF MainPop, Pop, TypeOK
      <4>2. p # serving => ~Popped(p)
        BY DEF Popped
      <4> QED BY <1>2, <2>1, <4>1, <4>2 DEF Ranks
    <3> QED BY <3>1, <3>2
  <2> QED BY <1>1, <2>2, RankStill
<1> QED BY <1>4, <1>5, <1>6, <1>7, <1>8 DEF Mainthread

(* A worker takes the job in the slot when mainthread is not between the    *)
(* copy and the pop: both hold hMutex.                                      *)
LEMMA TakeRank ==
  ASSUME LockInv, RankInv, WorkFrame, NEW w \in Worker, NEW p \in Priority, WorkerTake(w, p)
  PROVE  RankInv'
<1>0. TypeOK /\ mainPc # "pop"
  <2>1. ~SlotsEmpty
    BY DEF WorkerTake, NextIs, SlotsEmpty
  <2>2. hMutex = w
    BY <2>1, ServingHeld DEF HeldByEach, WorkerTake
  <2>3. mainPc # "pop"
    BY <2>1, <2>2, ServingHeld, PoolAssumption DEF HeldByEach, PoolAssumption
  <2> QED BY <2>3 DEF LockInv
<1> PICK j \in Job : j = g_next[p]
  BY <1>0 DEF WorkerTake, NextIs, TypeOK
<1> DEFINE e == <<"start", j>>
<1>1. /\ log \in Seq(Entry) /\ e \in Entry /\ log' = Append(log, e)
      /\ UNCHANGED <<todo, hand, g_queue, mainPc, serving>>
      /\ g_next' = [g_next EXCEPT ![p] = NULL]
  BY <1>0 DEF WorkerTake, TypeOK, Entry, WorkFrame, mainCtl, addVars, EmptySlot
<1>2. j # NULL /\ Ranks(log, g_queue[p], j, FALSE, JobsOf(p))
  <2>1. j # NULL
    BY PoolAssumption DEF PoolAssumption
  <2>2. Ranks(log, g_queue[p], j, Popped(p), JobsOf(p)) /\ ~Popped(p)
    BY <1>0 DEF RankInv, Popped
  <2> QED BY <2>1, <2>2 DEF Ranks
<1>3. j \in JobsOf(p) /\ AddedIn(log, j) /\ \A k \in JobsOf(p) : StartedIn(log, k) => Earlier(log, k, j)
  BY <1>2 DEF Ranks
<1>4. PushedOnce(log')
  BY <1>1, OnceKept DEF RankInv
<1>5. \A k : AddedIn(log', k) <=> AddedIn(log, k)
  <2>1. \A k : e # <<"add", k>>
    OBVIOUS
  <2> QED BY <1>1, <2>1, LogGrows
<1>6. ASSUME NEW q \in Priority PROVE Ranks(log', g_queue'[q], g_next'[q], Popped(q)', JobsOf(q))
  <2>1. CASE q = p
    <3>1. g_next'[q] = NULL /\ g_queue'[q] = g_queue[p]
      BY <1>0, <1>1, <2>1 DEF TypeOK
    <3>2. Ranks(log', g_queue[p], NULL, Popped(q)', JobsOf(p))
      BY <1>1, <1>2, RanksStart
    <3> QED BY <2>1, <3>1, <3>2
  <2>2. CASE q # p
    <3>1. g_next'[q] = g_next[q] /\ g_queue'[q] = g_queue[q] /\ ~Popped(q) /\ ~Popped(q)'
      BY <1>0, <1>1, <2>2 DEF TypeOK, Popped
    <3>2. e[2] \notin JobsOf(q)
      BY <1>3, <2>2, PoolAssumption DEF JobsOf, Priority, PoolAssumption
    <3>3. Ranks(log', g_queue[q], g_next[q], Popped(q), JobsOf(q))
      BY <1>1, <3>2, RanksLog DEF RankInv
    <3> QED BY <3>1, <3>3 DEF Ranks
  <2> QED BY <2>1, <2>2
<1>7. StartsInPushOrder'
  <2>1. PushOrderOf(log)
    BY PushOrderIs DEF RankInv
  <2>2. InPushOrder(log', Len(log) + 1)
    BY <1>1, <1>3, PushOrderNext DEF RankInv
  <2>3. PushOrderOf(log')
    BY <1>1, <2>1, <2>2, PushOrderKept
  <2> QED BY <2>3, PushOrderIs
<1>8. PushedOnce(log)' /\ \A k : AddedIn(log, k)' <=> AddedIn(log, k)
  BY <1>4, <1>5 DEF PushedOnce, AddedIn
<1>9. \A q \in Priority : Ranks(log, g_queue[q], g_next[q], Popped(q), JobsOf(q))'
  BY <1>6 DEF JobsOf, Ranks, Earlier, AddedIn, StartedIn
<1>10. \A k : Handed(k)' <=> Handed(k)
  BY <1>1 DEF Handed
<1> QED BY <1>1, <1>7, <1>8, <1>9, <1>10 DEF RankInv

LEMMA WorkRank ==
  ASSUME LockInv, RankInv, NEW w \in Worker,
         Workthread(w) \/ Timeout(w) \/ (Elapse(w) /\ WorkFrame)
  PROVE  RankInv'
<1>1. WorkFrame
  BY DEF Workthread, Timeout
<1>2. CASE UNCHANGED <<g_next, log>>
  BY <1>1, <1>2, RankKept DEF WorkFrame, addVars, mainCtl, Popped
<1>3. (\E p \in Priority : WorkerTake(w, p)) \/ UNCHANGED <<g_next, log>>
  BY DEF Workthread, Timeout, WorkerLoop, WorkerWait, WorkerWaitFails, WorkerSuspend, WorkerTimeout,
         WorkerWake, WorkerExit, WorkerIdle, WorkerFinish, WorkerIdleReturn, WorkerExitReturn,
         WorkerLast, WorkerCancelled, Elapse
<1> QED BY <1>1, <1>2, <1>3, TakeRank

LEMMA DestroyRank ==
  ASSUME TypeOK, RankInv, DestroyFrame, Destroy \/ DestroyRest
  PROVE  RankInv'
<1>1. UNCHANGED <<log, hand, todo, mainPc, serving>>
  BY DEF DestroyFrame, addVars, mainCtl
<1>2. \A p \in Priority : Ranks(log, g_queue[p], g_next[p], Popped(p), JobsOf(p)) /\ g_queue[p] \in Seq(Job)
  BY DEF RankInv, TypeOK
<1>3. CASE Destroy \/ (DestroyRest /\ ~DestroyClearPop /\ ~DestroySlots)
  <2>1. UNCHANGED <<g_queue, g_next>>
    BY <1>3 DEF queueVars, Destroy, DestroyRest, DestroyDrain, DestroyClear, DestroyClearFront,
                DestroyLock, DestroyStop, DestroyJoin
  <2> QED BY <1>1, <2>1, RankKept DEF Popped
<1>4. CASE DestroyClearPop
  <2>1. ASSUME NEW p \in Priority PROVE Ranks(log, g_queue'[p], g_next'[p], Popped(p)', JobsOf(p))
    <3>1. g_next'[p] = g_next[p] /\ (Popped(p)' <=> Popped(p))
      BY <1>1, <1>4 DEF DestroyClearPop, Popped
    <3>2. CASE g_queue'[p] = g_queue[p]
      BY <1>2, <3>1, <3>2 DEF Ranks
    <3>3. CASE g_queue[p] # <<>> /\ g_queue'[p] = Tail(g_queue[p])
      <4>1. Ranks(log, Tail(g_queue[p]), g_next[p], Popped(p)', JobsOf(p))
        BY <1>2, <3>3, RanksPop DEF RankInv, TypeOK, Entry
      <4> QED BY <3>1, <3>3, <4>1
    <3>4. g_queue'[p] = g_queue[p] \/ (g_queue[p] # <<>> /\ g_queue'[p] = Tail(g_queue[p]))
      BY <1>4 DEF DestroyClearPop, Pop, TypeOK
    <3> QED BY <3>2, <3>3, <3>4
  <2> QED BY <1>1, <2>1, RankStill
<1>5. CASE DestroySlots
  <2>1. \A p \in Priority : g_next'[p] = NULL /\ g_queue'[p] = g_queue[p]
    BY <1>5 DEF DestroySlots, ClearSlots
  <2>2. \A p \in Priority : Ranks(log, g_queue[p], NULL, Popped(p)', JobsOf(p))
    BY <1>2, RanksSlotEmptied
  <2> QED BY <1>1, <2>1, <2>2, RankStill
<1> QED BY <1>3, <1>4, <1>5

LEMMA RankStep ==
  ASSUME LockInv, RankInv, [Next]_vars
  PROVE  RankInv'
<1>1. TypeOK
  BY DEF LockInv
<1>2. CASE UNCHANGED vars
  BY <1>2, RankKept DEF vars, queueVars, addVars, mainCtl, Popped
<1>3. CASE Next
  <2>1. CASE \E a \in Producer, j \in Job : AddQueueCheck(a, j) /\ AddFrame
    BY <1>1, <2>1, CallRank
  <2>2. CASE \E a \in Producer : Push(a)
    BY <1>1, <2>2, PushRank DEF Push
  <2>3. CASE \E j \in Job : AddQueueRefuse(j) /\ AddFrame
    BY <1>1, <2>3, CallRank
  <2>4. CASE Mainthread
    BY <1>1, <2>4, MainRank
  <2>5. CASE \E w \in Worker : Workthread(w) \/ Timeout(w)
    BY <2>5, WorkRank
  <2>6. CASE \E w \in Worker : Elapse(w) /\ WorkFrame
    BY <2>6, WorkRank
  <2>7. CASE DestroyFrame /\ (Destroy \/ DestroyRest)
    BY <1>1, <2>7, DestroyRank
  <2>8. CASE Stopped
    BY <1>2, <2>8 DEF Stopped
  <2> QED BY <1>3, <2>1, <2>2, <2>3, <2>4, <2>5, <2>6, <2>7, <2>8 DEF Next, DestroyRest
<1> QED BY <1>2, <1>3
----------------------------------------------------------------------------
(* Normal jobs that start before a waiting realtime job                     *)

(* Overtakers, in log l.                                                    *)
Over(l, i) ==
  {k \in i + 1 .. Len(l) :
     /\ l[k][1] = "start" /\ l[k][2] \in NormalJob
     /\ \A m \in i + 1 .. k : l[m] # <<"start", l[i][2]>>}

LEMMA OverGrows ==
  ASSUME NEW l \in Seq(Entry), NEW e \in Entry
  PROVE  /\ Over(Append(l, e), Len(l) + 1) = {}
         /\ \A i \in 1 .. Len(l) :
              /\ \A k \in Over(Append(l, e), i) : k \in Over(l, i) \/ k = Len(l) + 1
              /\ e[1] = "add" \/ e[2] \notin NormalJob => Over(Append(l, e), i) = Over(l, i)
              /\ (\E m \in i + 1 .. Len(l) : l[m] = <<"start", l[i][2]>>)
                   => Over(Append(l, e), i) = Over(l, i)
<1>1. /\ Len(l) \in Nat /\ DOMAIN l = 1 .. Len(l) /\ Append(l, e) \in Seq(Entry)
      /\ Len(Append(l, e)) = Len(l) + 1
      /\ \A i \in 1 .. Len(l) : Append(l, e)[i] = l[i]
      /\ Append(l, e)[Len(l) + 1] = e
  BY AppendProperties, LenProperties
<1> DEFINE t == Append(l, e)
<1> HIDE DEF t
<1>2. /\ Len(l) \in Nat /\ Len(t) = Len(l) + 1 /\ t[Len(l) + 1] = e
      /\ \A i \in 1 .. Len(l) : t[i] = l[i]
  BY <1>1 DEF t
<1>3. Over(t, Len(l) + 1) = {}
  BY <1>2 DEF Over
<1>4. ASSUME NEW i \in 1 .. Len(l), NEW k \in 1 .. Len(l)
      PROVE  k \in Over(t, i) <=> k \in Over(l, i)
  <2>1. k \in i + 1 .. Len(t) <=> k \in i + 1 .. Len(l)
    BY <1>2
  <2>2. t[k] = l[k] /\ t[i] = l[i] /\ \A m \in i + 1 .. k : t[m] = l[m]
    BY <1>2
  <2> QED BY <2>1, <2>2 DEF Over
<1>5. ASSUME NEW i \in 1 .. Len(l)
      PROVE  /\ \A k \in Over(t, i) : k \in 1 .. Len(l) \/ k = Len(l) + 1
             /\ \A k \in Over(l, i) : k \in 1 .. Len(l)
  BY <1>2 DEF Over
<1>6. ASSUME NEW i \in 1 .. Len(l), Len(l) + 1 \in Over(t, i)
      PROVE  /\ e[1] = "start" /\ e[2] \in NormalJob
             /\ \A m \in i + 1 .. Len(l) : l[m] # <<"start", l[i][2]>>
  <2>1. /\ t[Len(l) + 1][1] = "start" /\ t[Len(l) + 1][2] \in NormalJob
        /\ \A m \in i + 1 .. Len(l) + 1 : t[m] # <<"start", t[i][2]>>
    BY <1>6 DEF Over
  <2> QED BY <1>2, <2>1
<1>7. ASSUME NEW i \in 1 .. Len(l)
      PROVE  /\ \A k \in Over(t, i) : k \in Over(l, i) \/ k = Len(l) + 1
             /\ Len(l) + 1 \notin Over(t, i) => Over(t, i) = Over(l, i)
  BY <1>4, <1>5
<1> QED BY <1>3, <1>6, <1>7 DEF t

(* The slot of normal jobs is empty and mainthread is not about to fill it. *)
NormalHeldBack == g_next["normal"] = NULL /\ ~(mainPc = "front" /\ serving = "normal")

(* A realtime job in the queue keeps the normal slot empty once a normal    *)
(* job went past; in the slot, it keeps workers from the normal slot; and   *)
(* what was popped without being moved waits no more.                       *)
PassInv ==
  /\ mainPc = "front" => g_next[serving] = NULL
  /\ \A i \in DOMAIN log : \A r \in RealtimeJob :
       log[i] = <<"add", r>> /\ (Queued(r) \/ StartedIn(log, r)) =>
         /\ \A x, y \in Over(log, i) : x = y
         /\ ~StartedIn(log, r) /\ g_next["realtime"] # r /\ Over(log, i) # {} => NormalHeldBack

LEMMA InitPass == Init => PassInv
BY DEF Init, PassInv

LEMMA PassStill ==
  ASSUME PassInv, UNCHANGED log, mainPc' = "front" => g_next'[serving'] = NULL,
         \A r \in RealtimeJob : Queued(r)' /\ ~StartedIn(log, r) =>
           /\ Queued(r)
           /\ \/ g_next'["realtime"] = r
              \/ NormalHeldBack'
              \/ g_next["realtime"] # r /\ (NormalHeldBack => NormalHeldBack')
  PROVE  PassInv'
<1>1. ASSUME NEW i \in DOMAIN log, NEW r \in RealtimeJob, log[i] = <<"add", r>>,
             Queued(r)' \/ StartedIn(log, r)
      PROVE  /\ \A x, y \in Over(log, i) : x = y
             /\ ~StartedIn(log, r) /\ g_next'["realtime"] # r /\ Over(log, i) # {} => NormalHeldBack'
  BY <1>1 DEF PassInv
<1>2. /\ \A i : Over(log, i)' = Over(log, i)
      /\ \A r : StartedIn(log, r)' <=> StartedIn(log, r)
  BY DEF Over, StartedIn
<1> QED BY <1>1, <1>2 DEF PassInv

LEMMA PushPass ==
  ASSUME TypeOK, RankInv, PassInv, AddFrame, NEW a \in Producer, AddQueuePush(a)
  PROVE  PassInv'
<1> PICK j \in Job : j = hand[a]
  BY DEF AddQueuePush, TypeOK
<1>1. log \in Seq(Entry) /\ <<"add", j>> \in Entry /\ log' = Append(log, <<"add", j>>)
  BY DEF AddQueuePush, TypeOK, Entry
<1>2. UNCHANGED <<g_next, mainPc, serving>>
  BY DEF AddFrame, mainCtl
<1>3. ~AddedIn(log, j)
  BY DEF Handed, RankInv
<1>4. /\ Len(log) \in Nat /\ DOMAIN log = 1 .. Len(log) /\ DOMAIN log' = 1 .. Len(log) + 1
      /\ \A i \in DOMAIN log : log'[i] = log[i]
      /\ log'[Len(log) + 1] = <<"add", j>>
      /\ \A r : StartedIn(log', r) <=> StartedIn(log, r)
  BY <1>1, LogGrows
<1>5. /\ Over(log', Len(log) + 1) = {}
      /\ \A i \in DOMAIN log : Over(log', i) = Over(log, i)
  BY <1>1, <1>4, OverGrows
<1>6. \A r : Queued(r)' => Queued(r) \/ r = j
  <2>1. PICK p \in Priority : g_queue' = [g_queue EXCEPT ![p] = Append(@, j)]
    BY DEF AddQueuePush
  <2>2. g_queue[p] \in Seq(Job) /\ g_queue'[p] = Append(g_queue[p], j)
    BY <2>1 DEF TypeOK
  <2>3. \A r : In(g_queue'[p], r) => In(g_queue[p], r) \/ r = j
    BY <2>2, AppendIn
  <2>4. \A q \in Priority \ {p} : g_queue'[q] = g_queue[q]
    BY <2>1 DEF TypeOK
  <2> QED BY <1>2, <2>3, <2>4 DEF Queued, In
<1>7. ASSUME NEW i \in DOMAIN log', NEW r \in RealtimeJob, log'[i] = <<"add", r>>,
             Queued(r)' \/ StartedIn(log, r)
      PROVE  /\ \A x, y \in Over(log', i) : x = y
             /\ ~StartedIn(log', r) /\ g_next["realtime"] # r /\ Over(log', i) # {} => NormalHeldBack
  <2>1. CASE i \in DOMAIN log
    <3>1. log[i] = <<"add", r>> /\ r # j
      BY <1>3, <1>4, <1>7, <2>1 DEF AddedIn
    <3> QED BY <1>4, <1>5, <1>6, <1>7, <2>1, <3>1 DEF PassInv
  <2>2. CASE i = Len(log) + 1
    BY <1>5, <2>2
  <2> QED BY <1>4, <2>1, <2>2
<1>8. NormalHeldBack' <=> NormalHeldBack
  BY <1>2 DEF NormalHeldBack
<1>9. /\ \A i : Over(log, i)' = Over(log', i)
      /\ \A r : StartedIn(log, r)' <=> StartedIn(log', r)
  BY DEF Over, StartedIn
<1> QED BY <1>2, <1>4, <1>7, <1>8, <1>9 DEF PassInv

LEMMA TakePass ==
  ASSUME TypeOK, RankInv, PassInv, WorkFrame,
         NEW w \in Worker, NEW p \in Priority, WorkerTake(w, p)
  PROVE  PassInv'
<1>0. g_next[p] \in JobsOf(p)
  BY DEF WorkerTake, NextIs, RankInv, Ranks
<1> PICK j \in JobsOf(p) : j = g_next[p]
  BY <1>0
<1>0a. j \in Job /\ j # NULL
  BY PoolAssumption DEF JobsOf, Job, PoolAssumption
<1>1. log \in Seq(Entry) /\ <<"start", j>> \in Entry /\ log' = Append(log, <<"start", j>>)
  BY <1>0a DEF WorkerTake, TypeOK, Entry
<1>2. /\ UNCHANGED <<mainPc, serving, g_queue>> /\ g_next' = [g_next EXCEPT ![p] = NULL]
      /\ p = "normal" => g_next["realtime"] = NULL
  BY DEF WorkerTake, WorkFrame, mainCtl, EmptySlot, NextIs
<1>3. \A q \in Priority : g_next'[q] = IF q = p THEN NULL ELSE g_next[q]
  BY <1>2 DEF TypeOK
<1>4. /\ Len(log) \in Nat /\ DOMAIN log = 1 .. Len(log) /\ DOMAIN log' = 1 .. Len(log) + 1
      /\ \A i \in DOMAIN log : log'[i] = log[i]
      /\ log'[Len(log) + 1] = <<"start", j>>
      /\ \A r : StartedIn(log', r) <=> StartedIn(log, r) \/ r = j
  <2>1. \A r : <<"start", j>> = <<"start", r>> <=> r = j
    OBVIOUS
  <2> QED BY <1>1, <2>1, LogGrows
<1>5. \A i \in DOMAIN log :
        /\ \A k \in Over(log', i) : k \in Over(log, i) \/ k = Len(log) + 1
        /\ j \notin NormalJob => Over(log', i) = Over(log, i)
        /\ (\E m \in i + 1 .. Len(log) : log[m] = <<"start", log[i][2]>>)
             => Over(log', i) = Over(log, i)
  BY <1>1, <1>4, OverGrows
<1>6. \A r \in Job : Queued(r)' => Queued(r)
  <2>1. \A r \in Job : r # NULL
    BY PoolAssumption DEF PoolAssumption
  <2> QED BY <1>2, <1>3, <2>1 DEF Queued
<1>7. ASSUME NEW i \in DOMAIN log', NEW r \in RealtimeJob, log'[i] = <<"add", r>>,
             Queued(r)' \/ StartedIn(log', r)
      PROVE  /\ \A x, y \in Over(log', i) : x = y
             /\ ~StartedIn(log', r) /\ g_next'["realtime"] # r /\ Over(log', i) # {} => NormalHeldBack'
  <2>1. i \in DOMAIN log /\ log[i] = <<"add", r>> /\ log[i][2] = r /\ r # NULL /\ r \in Job
    BY <1>4, <1>7, PoolAssumption DEF PoolAssumption, Job
  <2>2. Queued(r) \/ StartedIn(log, r)
    <3>1. r = j => Queued(r)
      BY DEF Queued
    <3> QED BY <1>4, <1>6, <1>7, <2>1, <3>1
  <2>3. /\ \A x, y \in Over(log, i) : x = y
        /\ ~StartedIn(log, r) /\ g_next["realtime"] # r /\ Over(log, i) # {} => NormalHeldBack
    BY <2>1, <2>2 DEF PassInv
  <2>4. CASE StartedIn(log, r)
    <3>1. PICK m \in DOMAIN log : log[m] = <<"start", r>>
      BY <2>4 DEF StartedIn
    <3>2. PICK h \in 1 .. m - 1 : log[h] = <<"add", r>>
      <4>1. PushOrderOf(log)
        BY PushOrderIs DEF RankInv
      <4>2. log[m][1] = "start" /\ log[m][2] = r
        BY <3>1
      <4>3. InPushOrder(log, m)
        BY <4>1, <4>2 DEF PushOrderOf
      <4> QED BY <4>2, <4>3 DEF InPushOrder
    <3>3. h = i
      <4>1. h \in DOMAIN log /\ log[h] = log[i] /\ log[h][1] = "add"
        BY <1>4, <2>1, <3>2
      <4> QED BY <2>1, <4>1 DEF RankInv, PushedOnce
    <3>4. Over(log', i) = Over(log, i)
      BY <1>4, <1>5, <2>1, <3>1, <3>3
    <3> QED BY <1>4, <2>3, <2>4, <3>4
  <2>5. CASE ~StartedIn(log, r) /\ p = "realtime"
    <3>1. j \notin NormalJob
      BY <2>5, PoolAssumption DEF JobsOf, PoolAssumption
    <3>2. Over(log', i) = Over(log, i)
      BY <1>5, <2>1, <3>1
    <3>3. r = j \/ (g_next["realtime"] # r /\ (NormalHeldBack => NormalHeldBack'))
      BY <1>2, <1>3, <2>5 DEF NormalHeldBack, Priority
    <3> QED BY <1>4, <2>3, <2>5, <3>2, <3>3
  <2>6. CASE ~StartedIn(log, r) /\ p = "normal"
    <3>1. g_next["normal"] # NULL /\ g_next["realtime"] # r
      BY <1>0a, <1>2, <2>1, <2>6
    <3>2. Over(log, i) = {}
      BY <2>3, <2>6, <3>1 DEF NormalHeldBack
    <3>3. \A x \in Over(log', i) : x = Len(log) + 1
      BY <1>5, <2>1, <3>2
    <3>4. NormalHeldBack'
      BY <1>2, <1>3, <2>6, <3>1 DEF NormalHeldBack, PassInv, Priority
    <3> QED BY <3>3, <3>4
  <2> QED BY <2>4, <2>5, <2>6 DEF Priority
<1>8. mainPc' = "front" => g_next'[serving'] = NULL
  BY <1>2, <1>3 DEF PassInv, TypeOK
<1>9. /\ \A i : Over(log, i)' = Over(log', i)
      /\ \A r : StartedIn(log, r)' <=> StartedIn(log', r)
  BY DEF Over, StartedIn
<1> QED BY <1>7, <1>8, <1>9 DEF PassInv

(* mainthread looks at the queue of realtime jobs before it serves normal   *)
(* ones.                                                                    *)
LEMMA MainPass ==
  ASSUME TypeOK, RankInv, PassInv, Mainthread
  PROVE  PassInv'
<1>1. UNCHANGED log
  BY DEF Mainthread, MainFrame
<1>2. ASSUME UNCHANGED <<g_queue, g_next>>, mainPc' # "front" PROVE PassInv'
  <2>1. (NormalHeldBack => NormalHeldBack') /\ \A r : Queued(r)' <=> Queued(r)
    BY <1>2 DEF NormalHeldBack, Queued
  <2> QED BY <1>1, <1>2, <2>1, PassStill
<1>3. CASE MainLoop \/ MainScan \/ MainResignal
  BY <1>2, <1>3 DEF MainLoop, MainScan, MainResignal, queueVars
<1>4. CASE MainBroadcast \/ MainExitLock \/ MainExitScan \/ MainStop
  BY <1>2, <1>4 DEF MainBroadcast, MainExitLock, MainExitScan, MainStop, queueVars
<1>5. CASE MainCheckExit \/ MainKill \/ MainFree
  BY <1>2, <1>5 DEF MainCheckExit, MainKill, MainFree, queueVars
<1>6. CASE MainPop
  <2>1. UNCHANGED g_next /\ mainPc' = "loop"
    BY <1>6 DEF MainPop
  <2>2. \A p \in Priority : \A r : In(g_queue'[p], r) => In(g_queue[p], r)
    <3> SUFFICES ASSUME NEW p \in Priority, NEW r, In(g_queue'[p], r) PROVE In(g_queue[p], r)
      OBVIOUS
    <3>1. g_queue'[p] = g_queue[p] \/ (g_queue[p] # <<>> /\ g_queue'[p] = Tail(g_queue[p]))
      BY <1>6 DEF MainPop, Pop, TypeOK
    <3>2. g_queue[p] \in Seq(Job)
      BY DEF TypeOK
    <3> QED BY <3>1, <3>2, TailIn
  <2>3. \A r : Queued(r)' => Queued(r)
    BY <2>1, <2>2 DEF Queued, In
  <2>4. NormalHeldBack => NormalHeldBack'
    BY <2>1 DEF NormalHeldBack
  <2> QED BY <1>1, <2>1, <2>3, <2>4, PassStill
<1>7. CASE MainLock
  <2>1. /\ UNCHANGED <<g_queue, g_next>> /\ CanServe(serving') /\ serving' \in Priority
        /\ g_next'[serving'] = NULL
    BY <1>7 DEF MainLock, queueVars, CanServe
  <2>2. \A r : Queued(r)' <=> Queued(r)
    BY <2>1 DEF Queued
  <2>3. CASE serving' = "realtime"
    <3>1. NormalHeldBack => NormalHeldBack'
      BY <2>1, <2>3 DEF NormalHeldBack
    <3> QED BY <1>1, <2>1, <2>2, <3>1, PassStill
  <2>4. CASE serving' = "normal"
    <3>1. DOMAIN g_queue["realtime"] = {}
      BY <2>1, <2>4 DEF CanServe
    <3>2. ASSUME NEW r \in RealtimeJob, Queued(r) PROVE g_next["realtime"] = r
      <4>1. /\ r \notin JobsOf("normal") /\ r # NULL
        BY PoolAssumption DEF JobsOf, PoolAssumption, Job
      <4>2. /\ \A x \in DOMAIN g_queue["normal"] : g_queue["normal"][x] \in JobsOf("normal")
            /\ g_next["normal"] # NULL => g_next["normal"] \in JobsOf("normal")
        BY DEF RankInv, Ranks, Priority
      <4> QED BY <3>1, <3>2, <4>1, <4>2 DEF Queued, Priority
    <3> QED BY <1>1, <2>1, <2>2, <3>2, PassStill
  <2> QED BY <2>1, <2>3, <2>4 DEF Priority
<1>8. CASE MainFront
  <2>1. mainPc = "front" /\ mainPc' = "pop" /\ UNCHANGED <<serving, g_queue>> /\ g_next[serving] = NULL
    BY <1>8 DEF MainFront, PassInv
  <2>2. CASE UNCHANGED g_next
    BY <1>2, <2>1, <2>2
  <2>3. CASE /\ g_queue[serving] # <<>>
             /\ g_next' = [g_next EXCEPT ![serving] = Head(g_queue[serving])]
    <3>1. \A q \in Priority : g_next'[q] = IF q = serving THEN Head(g_queue[q]) ELSE g_next[q]
      BY <2>3 DEF TypeOK
    <3>2. In(g_queue[serving], Head(g_queue[serving]))
      BY <2>3, TailIn DEF TypeOK
    <3>3. \A r : Queued(r)' => Queued(r)
      BY <2>1, <3>1, <3>2 DEF Queued, In, TypeOK
    <3>4. \A r \in RealtimeJob : r # NULL
      BY PoolAssumption DEF PoolAssumption, Job
    <3>5. NormalHeldBack => NormalHeldBack' /\ serving = "realtime"
      BY <2>1, <3>1 DEF NormalHeldBack, TypeOK, Priority
    <3>6. \A r \in RealtimeJob : g_next'["realtime"] # r => g_next["realtime"] # r
      BY <2>1, <3>1, <3>4 DEF Priority
    <3> QED BY <1>1, <2>1, <3>3, <3>5, <3>6, PassStill
  <2> QED BY <1>8, <2>2, <2>3 DEF MainFront
<1> QED BY <1>3, <1>4, <1>5, <1>6, <1>7, <1>8 DEF Mainthread

(* While atp_destroy frees the slots it holds hMutex, if they hold anything.*)
LEMMA DestroyPass ==
  ASSUME LockInv, PassInv, DestroyFrame, Destroy \/ DestroyRest
  PROVE  PassInv'
<1>1. UNCHANGED <<log, mainPc, serving>> /\ TypeOK
  BY DEF DestroyFrame, mainCtl, LockInv
<1>2. CASE ~DestroySlots
  <2>1. UNCHANGED g_next
    BY <1>2 DEF queueVars, Destroy, DestroyRest, DestroyDrain, DestroyClear, DestroyClearFront,
                DestroyClearPop, DestroyLock, DestroyStop, DestroyJoin
  <2>2. \A p \in Priority : g_queue'[p] = g_queue[p] \/ (g_queue[p] # <<>> /\ g_queue'[p] = Tail(g_queue[p]))
    BY <1>1, <1>2 DEF queueVars, Destroy, DestroyRest, DestroyDrain, DestroyClear, DestroyClearFront,
                DestroyClearPop, DestroyLock, DestroyStop, DestroyJoin, Pop, TypeOK
  <2>3. \A p \in Priority : \A r : In(g_queue'[p], r) => In(g_queue[p], r)
    BY <1>1, <2>2, TailIn DEF TypeOK
  <2>4. \A r : Queued(r)' => Queued(r)
    BY <2>1, <2>3 DEF Queued, In
  <2>5. NormalHeldBack => NormalHeldBack'
    BY <1>1, <2>1 DEF NormalHeldBack
  <2> QED BY <1>1, <2>1, <2>4, <2>5, PassStill DEF PassInv
<1>3. CASE DestroySlots
  <2>1. UNCHANGED g_queue /\ \A p \in Priority : g_next'[p] = NULL
    BY <1>3 DEF DestroySlots, ClearSlots
  <2>2. \A r \in RealtimeJob : r # NULL
    BY PoolAssumption DEF PoolAssumption, Job
  <2>3. \A r \in RealtimeJob : Queued(r)' => Queued(r)
    BY <2>1, <2>2 DEF Queued
  <2>4. CASE SlotsEmpty
    <3>1. (NormalHeldBack => NormalHeldBack') /\ \A r \in RealtimeJob : g_next["realtime"] # r
      BY <1>1, <2>1, <2>2, <2>4 DEF NormalHeldBack, SlotsEmpty, Priority
    <3> QED BY <1>1, <2>1, <2>3, <3>1, PassStill DEF TypeOK
  <2>5. CASE ~SlotsEmpty
    <3>1. mainPc # "front"
      BY <1>3, <2>5, ServingHeld, PoolAssumption DEF HeldByEach, DestroySlots
    <3>2. NormalHeldBack'
      BY <1>1, <2>1, <3>1 DEF NormalHeldBack, Priority
    <3> QED BY <1>1, <2>1, <2>3, <3>2, PassStill DEF TypeOK
  <2> QED BY <2>4, <2>5
<1> QED BY <1>2, <1>3

LEMMA PassStep ==
  ASSUME LockInv, RankInv, PassInv, [Next]_vars
  PROVE  PassInv'
<1>1. TypeOK
  BY DEF LockInv
<1>2. ASSUME UNCHANGED <<log, g_next, g_queue, mainPc, serving>> PROVE PassInv'
  <2>1. (NormalHeldBack' <=> NormalHeldBack) /\ \A r : Queued(r)' <=> Queued(r)
    BY <1>2 DEF NormalHeldBack, Queued
  <2> QED BY <1>2, <2>1, PassStill DEF PassInv
<1>3. CASE UNCHANGED vars
  BY <1>2, <1>3 DEF vars, queueVars, mainCtl
<1>4. CASE Next
  <2>1. CASE \E a \in Producer, j \in Job : AddQueueCheck(a, j) /\ AddFrame
    BY <1>2, <2>1 DEF AddQueueCheck, AddFrame, mainCtl
  <2>2. CASE \E a \in Producer : Push(a)
    BY <1>1, <2>2, PushPass DEF Push
  <2>3. CASE \E j \in Job : AddQueueRefuse(j) /\ AddFrame
    BY <1>2, <2>3 DEF AddQueueRefuse, AddFrame, mainCtl
  <2>4. CASE Mainthread
    BY <1>1, <2>4, MainPass
  <2>5. ASSUME NEW w \in Worker, Workthread(w) \/ Timeout(w) \/ (Elapse(w) /\ WorkFrame)
        PROVE  PassInv'
    <3>1. WorkFrame
      BY <2>5 DEF Workthread, Timeout
    <3>2. (\E p \in Priority : WorkerTake(w, p)) \/ UNCHANGED <<g_next, log>>
      BY <2>5 DEF Workthread, Timeout, WorkerLoop, WorkerWait, WorkerWaitFails, WorkerSuspend,
         WorkerTimeout, WorkerWake, WorkerExit, WorkerIdle, WorkerFinish, WorkerIdleReturn,
         WorkerExitReturn, WorkerLast, WorkerCancelled, Elapse
    <3> QED BY <1>1, <1>2, <3>1, <3>2, TakePass DEF WorkFrame, mainCtl
  <2>6. CASE DestroyFrame /\ (Destroy \/ DestroyRest)
    BY <2>6, DestroyPass
  <2>7. CASE Stopped
    BY <1>3, <2>7 DEF Stopped
  <2> QED BY <1>4, <2>1, <2>2, <2>3, <2>4, <2>5, <2>6, <2>7 DEF Next, DestroyRest
<1> QED BY <1>3, <1>4

LEMMA PassKept == TypeOK /\ PassInv => AtMostOneOvertakes
<1> SUFFICES ASSUME TypeOK, PassInv, NEW i \in DOMAIN log, log[i][1] = "add",
                    log[i][2] \in RealtimeJob,
                    Queued(log[i][2]) \/ Happened("start", log[i][2])
             PROVE  Cardinality(Overtakers(i)) <= 1
  BY DEF AtMostOneOvertakes
<1>1. log[i] = <<"add", log[i][2]>>
  BY DEF TypeOK
<1>2. \A x, y \in Over(log, i) : x = y
  BY <1>1 DEF PassInv, Happened, StartedIn
<1>3. Overtakers(i) = Over(log, i)
  BY DEF Overtakers, Over
<1> QED BY <1>2, <1>3, AtMostOne

(* Whatever the end code, the exit functions and late callers: jobs of one  *)
(* priority start in the order of their pushes, once for each push.  What   *)
(* atp_destroy pops under mainthread's hands is left out, never reordered.  *)
THEOREM StartsAsPushed ==
  ASSUME Regular
  PROVE  Spec => []StartsInPushOrder
<1>1. Init => LockInv /\ RankInv
  BY InitLock, InitRank
<1>2. (LockInv /\ RankInv) /\ [Next]_vars => (LockInv /\ RankInv)'
  BY LockStep, RankStep DEF Regular
<1>3. RankInv => StartsInPushOrder
  BY DEF RankInv
<1> QED BY <1>1, <1>2, <1>3, PTL DEF Spec

(* While a realtime job waits in the queue or the slot, at most one normal  *)
(* job starts before it: mainthread may have looked at an empty realtime    *)
(* queue just before the push, and a worker may find the normal slot        *)
(* filled, but never both.  This holds to the end of a forced atp_destroy.  *)
THEOREM OvertakenOnce ==
  ASSUME Regular
  PROVE  Spec => []AtMostOneOvertakes
<1> DEFINE Inv == LockInv /\ RankInv /\ PassInv
<1>1. Init => Inv
  BY InitLock, InitRank, InitPass
<1>2. Inv /\ [Next]_vars => Inv'
  BY LockStep, RankStep, PassStep DEF Regular
<1>3. Inv => AtMostOneOvertakes
  BY PassKept DEF LockInv
<1> QED BY <1>1, <1>2, <1>3, PTL DEF Spec

----------------------------------------------------------------------------
(* Until atp_destroy                                                        *)

(* Nothing above depends on how the pool will end, or on who calls          *)
(* atp_addQueue then, before atp_destroy is called.                         *)
EarlyInv == destroyPc = "uncalled" => OrderlyInv /\ Accounted

LEMMA EarlyStep ==
  ASSUME Regular, EarlyInv, [Next]_vars
  PROVE  EarlyInv'
<1> SUFFICES ASSUME destroyPc' = "uncalled" PROVE OrderlyInv' /\ Accounted'
  BY DEF EarlyInv
<1>1. Calm /\ OrderlyInv /\ Accounted
  BY CallOnce DEF EarlyInv, Calm
<1> QED BY <1>1, OrderlyStep, AccountStep DEF OrderlyInv, PoolInv

LEMMA InitEarly == Init => EarlyInv
BY InitOrderly, InitAccount DEF EarlyInv

(* As long as atp_destroy was not called, the pool never pops an empty      *)
(* queue, a job is in one place and freed once, after its last use, none is *)
(* dropped, and a job starts only when those of its priority pushed before  *)
(* it have started: however the pool ends later, with or without exit       *)
(* functions, and whatever callers do then.                                 *)
THEOREM SafeBeforeDestroy ==
  ASSUME Regular
  PROVE  Spec => [](destroyPc = "uncalled" => ~crashed /\ HeldOrFreed /\ StartedInOrder)
<1>1. EarlyInv /\ [Next]_vars => EarlyInv'
  BY EarlyStep
<1>2. EarlyInv => (destroyPc = "uncalled" => ~crashed /\ HeldOrFreed /\ StartedInOrder)
  <2>1. OrderlyInv => ~crashed /\ PoolInv /\ StartedInOrder
    BY DEF OrderlyInv, OrderInv, PoolInv, MoveInv, DrainInv
  <2> QED BY <2>1, HeldOrFreedKept DEF EarlyInv
<1> QED BY InitEarly, <1>1, <1>2, PTL DEF Spec

(* The steps before atp_destroy are steps of JobPool, or not noticed.       *)
THEOREM PromiseBeforeDestroy ==
  ASSUME Regular
  PROVE  Spec => [][destroyPc' = "uncalled" => [Promise!Next]_(Promise!vars)]_vars
<1>1. EarlyInv /\ [Next]_vars => EarlyInv'
  BY EarlyStep
<1>2. EarlyInv /\ [Next]_vars => (destroyPc' = "uncalled" => [Promise!Next]_(Promise!vars))
  <2> SUFFICES ASSUME EarlyInv, [Next]_vars, destroyPc' = "uncalled"
               PROVE  [Promise!Next]_(Promise!vars)
    OBVIOUS
  <2>1. Calm /\ OrderlyInv
    BY CallOnce DEF EarlyInv, Calm
  <2> QED BY <2>1, PromiseStep
<1> QED BY InitEarly, <1>1, <1>2, PTL DEF Spec

=============================================================================
