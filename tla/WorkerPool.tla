---------------------------- MODULE WorkerPool ----------------------------
(***************************************************************************)
(* run_adapter: one adapter's discover() -> fetch() -> parse(), run as one *)
(* asyncio task per discovered URL under a semaphore.                      *)
(*                                                                         *)
(* The run_adapter coroutine ("main") and its tasks interleave at awaits.  *)
(* What the adapter does -- which URLs it lists, whether a fetch succeeds, *)
(* is blocked, fails or raises something outside the PipelineError         *)
(* hierarchy -- is nondeterministic.  A URL stands for its normalized form *)
(* and a parsed record for the number of the task that produced it.        *)
(***************************************************************************)
EXTENDS Naturals, Sequences, FiniteSets

CONSTANTS Urls,            \* normalized URLs the adapter may list
          MaxDiscovered,   \* bound: discover() yields at most this many items
          MaxConcurrency,  \* max_concurrency
          MaxItems,        \* max_items; None is any value above MaxDiscovered
          MaxParsed        \* bound: parse() returns at most this many records

\* settings.max_concurrency has no validator: Semaphore(0) would never admit a
\* task, so the positive bound is an assumption about the deployment.
ASSUME ConcurrencyAssumption == MaxConcurrency \in Nat \ {0}
ASSUME BoundsAssumption ==
  /\ MaxDiscovered \in Nat
  /\ MaxItems \in Nat \ {0}      \* every caller passes max(1, ...) or None
  /\ MaxParsed \in Nat

Item == 1 .. MaxDiscovered       \* the i-th discovered item, and its task

Running == {"fetching", "parsing"}         \* inside `async with semaphore`
Live    == {"queued"} \cup Running
Final   == {"parsed", "blocked", "unfetched", "unparsed", "crashed", "cancelled"}
Ended   == {"returned", "cancelled", "raised"}

VARIABLES
  pc,         \* where main is
  found,      \* the items discover() has yielded, in order
  seen,       \* seen_urls
  task,       \* task[i]: what became of the task of item i ("none": no task)
  tasks,      \* the set `tasks`; a done callback discards from it
  gathered,   \* the tasks handed to asyncio.gather
  cancelReq,  \* tasks whose cancel() was called
  free,       \* the semaphore's value
  records,    \* records: the task each parsed record came from
  stats       \* RunStats

vars == <<pc, found, seen, task, tasks, gathered, cancelReq, free, records, stats>>

InState(S) == {i \in Item : task[i] \in S}
Created    == {i \in Item : task[i] # "none"}

RunStats == [discovered : Nat, fetched : Nat, fetch_failed : Nat,
             parsed_records : Nat, skipped_duplicate : Nat, blocked : Nat]

ZeroStats == [discovered |-> 0, fetched |-> 0, fetch_failed |-> 0,
              parsed_records |-> 0, skipped_duplicate |-> 0, blocked |-> 0]

Init ==
  /\ pc = "discovering"
  /\ found = <<>>
  /\ seen = {}
  /\ task = [i \in Item |-> "none"]
  /\ tasks = {}
  /\ gathered = {}
  /\ cancelReq = {}
  /\ free = MaxConcurrency
  /\ records = <<>>
  /\ stats = ZeroStats

-----------------------------------------------------------------------------
\* Faulty variants of the definitions below, each a plausible slip in the code.

GatherFirstCompleted == \E i \in gathered : task[i] \in Final
DrainNotAwaited == TRUE
FreedOnlyOnSuccess(i) == IF task[i] = "parsing" THEN free + 1 ELSE free
FreedThoughQueued(i) == free + 1

-----------------------------------------------------------------------------
\* Main: the discovery loop.

SeenAfter(u) == seen \cup {u}
LimitReached(n) == n >= MaxItems

\* `if tasks: await asyncio.gather(*tasks)`, else fall through to the return.
LeaveLoop(live) ==
  /\ gathered' = live
  /\ pc' = IF live = {} THEN "returned" ELSE "gathering"

\* The item is a duplicate: `continue` also skips the max_items test.
DiscoverDuplicate(u) ==
  /\ pc = "discovering"
  /\ Len(found) < MaxDiscovered
  /\ u \in seen
  /\ found' = Append(found, u)
  /\ stats' = [stats EXCEPT !.discovered = @ + 1, !.skipped_duplicate = @ + 1]
  /\ UNCHANGED <<pc, seen, task, tasks, gathered, cancelReq, free, records>>

\* The item is new: create its task, and leave the loop at max_items.
DiscoverNew(u) ==
  LET n == stats.discovered + 1 IN
  /\ pc = "discovering"
  /\ Len(found) < MaxDiscovered
  /\ u \notin seen
  /\ found' = Append(found, u)
  /\ seen' = SeenAfter(u)
  /\ stats' = [stats EXCEPT !.discovered = n]
  /\ task' = [task EXCEPT ![n] = "queued"]
  /\ tasks' = tasks \cup {n}
  /\ IF LimitReached(n) THEN LeaveLoop(tasks \cup {n}) ELSE UNCHANGED <<pc, gathered>>
  /\ UNCHANGED <<cancelReq, free, records>>

DiscoveryEnds ==
  /\ pc = "discovering"
  /\ LeaveLoop(tasks)
  /\ UNCHANGED <<found, seen, task, tasks, cancelReq, free, records, stats>>

\* discover() or normalize_url raises: only CancelledError is handled, so the
\* exception leaves run_adapter and the tasks already created run on.
DiscoveryRaises ==
  /\ pc = "discovering"
  /\ pc' = "raised"
  /\ UNCHANGED <<found, seen, task, tasks, gathered, cancelReq, free, records, stats>>

-----------------------------------------------------------------------------
\* Main: gather, cancellation, the end of the run.

GatherDone == \A i \in gathered : task[i] \in Final
DrainDone  == \A i \in tasks : task[i] \in Final

GatherReturns ==
  /\ pc = "gathering"
  /\ GatherDone
  /\ \A i \in gathered : task[i] # "crashed"
  /\ pc' = "returned"
  /\ UNCHANGED <<found, seen, task, tasks, gathered, cancelReq, free, records, stats>>

\* gather without return_exceptions re-raises the first failure at once.
GatherRaises ==
  /\ pc = "gathering"
  /\ \E i \in gathered : task[i] = "crashed"
  /\ pc' = "raised"
  /\ UNCHANGED <<found, seen, task, tasks, gathered, cancelReq, free, records, stats>>

\* The run is cancelled while main awaits discover() or gather(): every task
\* still in `tasks` is cancelled, and main awaits them all.
CancelRun ==
  /\ pc \in {"discovering", "gathering"}
  /\ pc' = "draining"
  /\ cancelReq' = {i \in tasks : task[i] \in Live}
  /\ UNCHANGED <<found, seen, task, tasks, gathered, free, records, stats>>

\* The cancellation arrives after a task crashed and before gather resumed main:
\* the tasks are cancelled, but main sees the crash and does not await them.
CancelLosesToFailure ==
  /\ pc = "gathering"
  /\ \E i \in gathered : task[i] = "crashed"
  /\ pc' = "raised"
  /\ cancelReq' = {i \in tasks : task[i] \in Live}
  /\ UNCHANGED <<found, seen, task, tasks, gathered, free, records, stats>>

DrainEnds ==
  /\ pc = "draining"
  /\ DrainDone
  /\ pc' = "cancelled"
  /\ UNCHANGED <<found, seen, task, tasks, gathered, cancelReq, free, records, stats>>

-----------------------------------------------------------------------------
\* handle_one, as task i.  A cancelled task runs nothing but its unwinding.

\* Leaving `async with semaphore` gives the slot back; a queued task has none.
FreeAfter(i) == IF task[i] \in Running THEN free + 1 ELSE free

Moves(i, from) == task[i] = from /\ i \notin cancelReq

TaskEnds(i, how) ==
  /\ task' = [task EXCEPT ![i] = how]
  /\ free' = FreeAfter(i)
  /\ UNCHANGED <<pc, found, seen, tasks, gathered, cancelReq>>

\* asyncio.Semaphore admits waiters in the order they arrived.
Acquire(i) ==
  /\ Moves(i, "queued")
  /\ free > 0
  /\ \A j \in Item : j < i => task[j] # "queued"
  /\ task' = [task EXCEPT ![i] = "fetching"]
  /\ free' = free - 1
  /\ UNCHANGED <<pc, found, seen, tasks, gathered, cancelReq, records, stats>>

FetchOk(i) ==
  /\ Moves(i, "fetching")
  /\ task' = [task EXCEPT ![i] = "parsing"]
  /\ stats' = [stats EXCEPT !.fetched = @ + 1]
  /\ UNCHANGED <<pc, found, seen, tasks, gathered, cancelReq, free, records>>

FetchBlocked(i) ==
  /\ Moves(i, "fetching")
  /\ TaskEnds(i, "blocked")
  /\ stats' = [stats EXCEPT !.blocked = @ + 1]
  /\ UNCHANGED records

FetchFails(i) ==
  /\ Moves(i, "fetching")
  /\ TaskEnds(i, "unfetched")
  /\ stats' = [stats EXCEPT !.fetch_failed = @ + 1]
  /\ UNCHANGED records

\* A parse failure counts in fetch_failed too, on top of fetched.
ParseFails(i) ==
  /\ Moves(i, "parsing")
  /\ TaskEnds(i, "unparsed")
  /\ stats' = [stats EXCEPT !.fetch_failed = @ + 1]
  /\ UNCHANGED records

ParseOk(i, n) ==
  /\ Moves(i, "parsing")
  /\ TaskEnds(i, "parsed")
  /\ records' = records \o [k \in 1 .. n |-> i]
  /\ stats' = [stats EXCEPT !.parsed_records = @ + n]

\* fetch() or parse() raises something that is not a PipelineError.
Crash(i) ==
  /\ task[i] \in Running /\ i \notin cancelReq
  /\ TaskEnds(i, "crashed")
  /\ UNCHANGED <<records, stats>>

TaskCancelled(i) ==
  /\ i \in cancelReq
  /\ task[i] \in Live
  /\ TaskEnds(i, "cancelled")
  /\ UNCHANGED <<records, stats>>

\* The done callback, which the event loop runs some time after the task ends.
Discard(i) ==
  /\ i \in tasks
  /\ task[i] \in Final
  /\ tasks' = tasks \ {i}
  /\ UNCHANGED <<pc, found, seen, task, gathered, cancelReq, free, records, stats>>

-----------------------------------------------------------------------------
TaskStep(i) ==
  \/ Acquire(i) \/ FetchOk(i) \/ FetchBlocked(i) \/ FetchFails(i)
  \/ ParseFails(i) \/ (\E n \in 0 .. MaxParsed : ParseOk(i, n))
  \/ Crash(i) \/ TaskCancelled(i) \/ Discard(i)

MainStep ==
  \/ \E u \in Urls : DiscoverDuplicate(u) \/ DiscoverNew(u)
  \/ DiscoveryEnds \/ DiscoveryRaises
  \/ GatherReturns \/ GatherRaises \/ DrainEnds

Next == MainStep \/ CancelRun \/ CancelLosesToFailure \/ \E i \in Item : TaskStep(i)

\* discover() is a finite listing, a fetch ends because the HTTP client bounds
\* its timeouts and retries, and the event loop runs every ready callback: main
\* and each task keep moving.  Nobody has to cancel.
Fairness == WF_vars(MainStep) /\ \A i \in Item : WF_vars(TaskStep(i))

Spec == Init /\ [][Next]_vars
FairSpec == Spec /\ Fairness

-----------------------------------------------------------------------------
TypeOK ==
  /\ pc \in {"discovering", "gathering", "draining"} \cup Ended
  /\ found \in Seq(Urls)
  /\ Len(found) <= MaxDiscovered
  /\ seen \in SUBSET Urls
  /\ task \in [Item -> {"none"} \cup Live \cup Final]
  /\ tasks \in SUBSET Item
  /\ gathered \in SUBSET Item
  /\ cancelReq \in SUBSET Item
  /\ free \in 0 .. MaxConcurrency
  /\ records \in Seq(Item)
  /\ stats \in RunStats

\* The semaphore never leaks or mints a slot, however a task leaves its
\* `async with`: the slots in use and the free ones always add up, so at most
\* max_concurrency fetches are ever in flight.
SlotsConserved == free + Cardinality(InState(Running)) = MaxConcurrency

\* In-run dedup: no two tasks of a run are for the same normalized URL.
FetchOncePerUrl ==
  \A i, j \in Item : /\ task[i] # "none"
                     /\ task[j] # "none"
                     /\ found[i] = found[j]
                     => i = j

\* A run never creates more than max_items tasks, although the test of the limit
\* is skipped for duplicates and `discovered` may pass it.
TasksWithinCap == Cardinality(Created) <= MaxItems

\* Graceful shutdown: once run_adapter has returned its result, or a
\* cancellation has run its course, no task of the run is still alive.
NoOutstandingTask == pc \in {"returned", "cancelled"} => InState(Live) = {}

\* What a returned run reports adds up: every item discovered was a duplicate,
\* blocked, counted as failed, parsed, or crashed before main reached gather.
EveryItemAccounted ==
  pc = "returned" =>
    /\ stats.discovered = stats.skipped_duplicate + stats.blocked + stats.fetch_failed
                          + Cardinality(InState({"parsed", "crashed"}))
    /\ stats.parsed_records = Len(records)
    /\ \A i \in InState({"crashed"}) : i \notin gathered

\* Every run ends, and every task it started comes to rest, the ones an
\* exception left behind included.
EventuallySettled == <>[](pc \in Ended /\ InState(Live) = {})

\* What run_adapter promises its caller.
Promise == INSTANCE AdapterRun WITH
  Limit     <- MaxItems,
  outcome   <- IF pc \in Ended THEN pc ELSE "running",
  collected <- {found[i] : i \in InState({"parsed"})},
  result    <- [k \in DOMAIN records |-> found[records[k]]]

ImplementsPromise == Promise!Spec
=============================================================================
