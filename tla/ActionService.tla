---------------------------- MODULE ActionService ----------------------------
(***************************************************************************)
(* What ami_sync promises the functions that call it, without connections,  *)
(* threads or time: a request ends at most once, and one that is told to    *)
(* have succeeded or failed was judged so by Asterisk and comes with the    *)
(* text of its own answer.  Any request may end with an error instead.      *)
(***************************************************************************)
EXTENDS Naturals

CONSTANTS Request, NULL

VARIABLES
  verdict,  \* what Asterisk decided for each request, or NULL
  told      \* what each caller was told, a result and whose answer it read, or NULL

vars == <<verdict, told>>

Init ==
  /\ verdict = [r \in Request |-> NULL]
  /\ told = [r \in Request |-> NULL]

Judge(r) ==
  /\ verdict[r] = NULL
  /\ \E v \in {"ok", "fail"} : verdict' = [verdict EXCEPT ![r] = v]
  /\ UNCHANGED told

Tell(r) ==
  /\ told[r] = NULL
  /\ \/ verdict[r] # NULL /\ told' = [told EXCEPT ![r] = [result |-> verdict[r], text |-> r]]
     \/ \E t \in Request \union {NULL} :
          told' = [told EXCEPT ![r] = [result |-> "error", text |-> t]]
  /\ UNCHANGED verdict

Next == \E r \in Request : Judge(r) \/ Tell(r)

Spec == Init /\ [][Next]_vars
==============================================================================
