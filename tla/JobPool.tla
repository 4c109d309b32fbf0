------------------------------- MODULE JobPool -------------------------------
(***************************************************************************)
(* What the thread pool promises its callers, without threads: a job that   *)
(* was accepted waits in the line of its priority, is started from the      *)
(* front of that line by one worker, and ends once.  Jobs are thrown away   *)
(* only after the pool was told to close.                                   *)
(***************************************************************************)
EXTENDS Naturals, Sequences

CONSTANTS RealtimeJob, NormalJob

VARIABLES
  line,     \* the accepted jobs no worker has started, by priority
  running,  \* the jobs whose function was called
  ended,    \* the jobs whose memory was released, run or thrown away
  closing   \* the pool was told to close

vars == <<line, running, ended, closing>>

JobsOf(p) == IF p = "realtime" THEN RealtimeJob ELSE NormalJob
Lines == {"realtime", "normal"}

Known(j) == \/ j \in running \union ended
            \/ \E p \in Lines : \E i \in DOMAIN line[p] : line[p][i] = j

Init ==
  /\ line = [p \in Lines |-> <<>>]
  /\ running = {}
  /\ ended = {}
  /\ closing = FALSE

Submit(p, j) ==
  /\ ~Known(j)
  /\ line' = [line EXCEPT ![p] = Append(@, j)]
  /\ UNCHANGED <<running, ended, closing>>

Start(p) ==
  /\ line[p] # <<>>
  /\ running' = running \union {Head(line[p])}
  /\ line' = [line EXCEPT ![p] = Tail(@)]
  /\ UNCHANGED <<ended, closing>>

End(j) ==
  /\ j \in running
  /\ running' = running \ {j}
  /\ ended' = ended \union {j}
  /\ UNCHANGED <<line, closing>>

Close ==
  /\ ~closing
  /\ closing' = TRUE
  /\ UNCHANGED <<line, running, ended>>

(* Some jobs at the front of the lines are thrown away: n[p] of line p.     *)
Thrown(n) == UNION {{line[p][i] : i \in 1 .. n[p]} : p \in Lines}

Discard ==
  /\ closing
  /\ \E k, m \in 0 .. Len(line["realtime"]) + Len(line["normal"]) :
       LET n == [p \in Lines |-> IF p = "realtime" THEN k ELSE m]
       IN /\ \A p \in Lines : n[p] <= Len(line[p])
          /\ line' = [p \in Lines |-> SubSeq(line[p], n[p] + 1, Len(line[p]))]
          /\ ended' = ended \union Thrown(n)
  /\ UNCHANGED <<running, closing>>

Next ==
  \/ \E p \in Lines : \E j \in JobsOf(p) : Submit(p, j)
  \/ \E p \in Lines : Start(p)
  \/ \E j \in running : End(j)
  \/ Close
  \/ Discard

Spec == Init /\ [][Next]_vars
==============================================================================
