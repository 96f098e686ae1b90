--------------------------- MODULE MCWorkerPool ---------------------------
(***************************************************************************)
(* WorkerPool on a listing longer than the item limit, with duplicates     *)
(* below and at the limit: three tasks compete for two slots.              *)
(***************************************************************************)
EXTENDS WorkerPool

\* The pool only compares URLs for equality, so one listing of each pattern of
\* repetitions is enough: a new URL is the least not listed before.  (A symmetry set
\* would do the same, but not under liveness.)
InOrder ==
  \A i \in DOMAIN found : \A u \in 1 .. found[i] - 1 : \E j \in 1 .. i - 1 : found[j] = u
=============================================================================
