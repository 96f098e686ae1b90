---------------------------- MODULE AdapterRun ----------------------------
(***************************************************************************)
(* What run_adapter promises the pipeline that calls it, with no tasks, no *)
(* semaphore and no event loop: the records of a page arrive together, a   *)
(* page contributes at most once, at most Limit pages contribute, and the  *)
(* result of a run that has returned or was cancelled never changes again. *)
(***************************************************************************)
EXTENDS Naturals, Sequences, FiniteSets

CONSTANTS Urls, Limit, MaxParsed

VARIABLES outcome, collected, result

vars == <<outcome, collected, result>>

Init == outcome = "running" /\ collected = {} /\ result = <<>>

\* The n records of page u join the result, all or none of them.  A run that
\* raised has no result, and its leftover tasks may still collect.
Collect(u, n) ==
  /\ outcome \in {"running", "raised"}
  /\ u \notin collected
  /\ Cardinality(collected) < Limit
  /\ collected' = collected \cup {u}
  /\ result' = result \o [k \in 1 .. n |-> u]
  /\ UNCHANGED outcome

End ==
  /\ outcome = "running"
  /\ outcome' \in {"returned", "cancelled", "raised"}
  /\ UNCHANGED <<collected, result>>

Next == (\E u \in Urls, n \in 0 .. MaxParsed : Collect(u, n)) \/ End

Spec == Init /\ [][Next]_vars /\ WF_vars(End)
=============================================================================
