------------------------ MODULE WorkerPool_proofs ------------------------
(***************************************************************************)
(* Safety of the worker pool for every listing, concurrency and item cap.  *)
(* First the semaphore's accounting with the types, then in-run dedup, the *)
(* item cap, the clean ending of a run and its accounting, each from its   *)
(* own strengthening of the invariant it states; then the promise of       *)
(* AdapterRun, and that the pool is never stuck and never runs on for ever.*)
(***************************************************************************)
EXTENDS WorkerPool, FiniteSetTheorems, SequenceTheorems, TLAPS

\* The event loop numbers items as it counts them: stats.discovered is the
\* number of the last item, so a new task's index is its item's.
Counted ==
  /\ stats.discovered = Len(found)
  /\ \A i \in Item : task[i] # "none" => i <= Len(found)

TypeInv == TypeOK /\ SlotsConserved /\ Counted

-----------------------------------------------------------------------------
\* A set of items in some task state is finite.
LEMMA ItemSetsFinite ==
  ASSUME NEW S \in SUBSET Item
  PROVE  IsFiniteSet(S) /\ Cardinality(S) \in Nat
<1>1. IsFiniteSet(Item)
  BY FS_Interval, BoundsAssumption DEF Item
<1> QED
  BY <1>1, FS_Subset, FS_CardinalityType

\* Moving one task between states changes the number of tasks in a set of states by at
\* most one, in the direction of the move.
LEMMA MembersChange ==
  ASSUME TypeOK, NEW i \in Item, NEW s, task' = [task EXCEPT ![i] = s], NEW S
  PROVE  LET held == Cardinality(InState(S))
             now  == Cardinality(InState(S)')
         IN /\ task[i] \in S /\ s \notin S => now = held - 1
            /\ task[i] \notin S /\ s \in S => now = held + 1
            /\ (task[i] \in S <=> s \in S) => now = held
<1> DEFINE R == InState(S)
           Q == InState(S)'
<1>1. R \in SUBSET Item /\ Q \in SUBSET Item
  BY DEF InState
<1>2. IsFiniteSet(R) /\ Cardinality(R) \in Nat /\ IsFiniteSet(Q) /\ Cardinality(Q) \in Nat
  BY <1>1, ItemSetsFinite
<1>3. \A j \in Item : j # i => (j \in R <=> j \in Q)
  BY DEF InState, TypeOK
<1>4. (i \in R <=> task[i] \in S) /\ (i \in Q <=> s \in S)
  BY DEF InState, TypeOK
<1>5. CASE task[i] \in S /\ s \notin S
  <2>1. Q = R \ {i}
    BY <1>1, <1>3, <1>4, <1>5
  <2> QED
    BY <1>2, <1>4, <1>5, <2>1, FS_RemoveElement
<1>6. CASE task[i] \notin S /\ s \in S
  <2>1. Q = R \cup {i}
    BY <1>1, <1>3, <1>4, <1>6
  <2> QED
    BY <1>2, <1>4, <1>6, <2>1, FS_AddElement
<1>7. CASE task[i] \in S <=> s \in S
  <2>1. Q = R
    BY <1>1, <1>3, <1>4, <1>7
  <2> QED
    BY <1>7, <2>1
<1> QED
  BY <1>5, <1>6, <1>7

\* So it does with the holders of a slot.
LEMMA HoldersChange ==
  ASSUME TypeOK, NEW i \in Item, NEW s, task' = [task EXCEPT ![i] = s]
  PROVE  LET held == Cardinality(InState(Running))
             now  == Cardinality(InState(Running)')
         IN /\ task[i] \in Running /\ s \notin Running => now = held - 1
            /\ task[i] \notin Running /\ s \in Running => now = held + 1
            /\ (task[i] \in Running <=> s \in Running) => now = held
BY MembersChange

\* What an ending task does, whichever way it ends: it gives its slot back.
LEMMA TaskEndsKeepsSlots ==
  ASSUME TypeOK, SlotsConserved, NEW i \in Item, NEW how \in Final,
         task[i] \in Live, TaskEnds(i, how)
  PROVE  /\ task' \in [Item -> {"none"} \cup Live \cup Final]
         /\ free' \in 0 .. MaxConcurrency
         /\ SlotsConserved'
<1> DEFINE held == Cardinality(InState(Running))
           now  == Cardinality(InState(Running)')
<1>1. task' = [task EXCEPT ![i] = how] /\ how \notin Running
  BY DEF TaskEnds, Final, Running
<1>2. /\ task[i] \in Running => now = held - 1
      /\ task[i] \notin Running => now = held
  BY <1>1, HoldersChange
<1>3. held \in Nat /\ now \in Nat
  BY ItemSetsFinite DEF InState
<1>4. free + held = MaxConcurrency /\ free \in Nat
  BY DEF SlotsConserved, TypeOK
<1>5. free' = IF task[i] \in Running THEN free + 1 ELSE free
  BY DEF TaskEnds, FreeAfter
<1>6. free' \in Nat /\ free' + now = MaxConcurrency
  BY <1>2, <1>3, <1>4, <1>5
<1>7. SlotsConserved' /\ free' \in 0 .. MaxConcurrency
  BY <1>3, <1>6, ConcurrencyAssumption DEF SlotsConserved
<1> QED
  BY <1>1, <1>7 DEF TypeOK

\* A step that moves no task and takes no slot conserves the slots.
LEMMA SameTasksSameSlots ==
  ASSUME SlotsConserved, UNCHANGED <<task, free>>
  PROVE  SlotsConserved'
BY DEF SlotsConserved, InState

\* Adding to a counter leaves the counters counters and `discovered` alone.
LEMMA StatsType ==
  ASSUME stats \in RunStats, NEW n \in Nat
  PROVE  LET now == stats.discovered IN
         /\ LET s == [stats EXCEPT !.fetched = stats.fetched + 1]
            IN s \in RunStats /\ s.discovered = now
         /\ LET s == [stats EXCEPT !.fetch_failed = stats.fetch_failed + 1]
            IN s \in RunStats /\ s.discovered = now
         /\ LET s == [stats EXCEPT !.parsed_records = stats.parsed_records + n]
            IN s \in RunStats /\ s.discovered = now
         /\ LET s == [stats EXCEPT !.blocked = stats.blocked + 1]
            IN s \in RunStats /\ s.discovered = now
BY DEF RunStats

-----------------------------------------------------------------------------
LEMMA TypeInvInit == Init => TypeInv
<1> SUFFICES ASSUME Init PROVE TypeInv
  OBVIOUS
<1>1. TypeOK
  BY ConcurrencyAssumption, BoundsAssumption DEF Init, TypeOK, RunStats, ZeroStats
<1>2. InState(Running) = {}
  BY DEF Init, InState, Running
<1>3. SlotsConserved
  BY <1>2, FS_EmptySet, ConcurrencyAssumption DEF SlotsConserved, Init
<1>4. Counted
  BY DEF Init, Counted, ZeroStats
<1> QED
  BY <1>1, <1>3, <1>4 DEF TypeInv

\* Appending to the items found leaves them within the bound and keeps Counted.
LEMMA OneMoreFound ==
  ASSUME TypeOK, Counted, NEW u \in Urls, Len(found) < MaxDiscovered,
         found' = Append(found, u), stats'.discovered = stats.discovered + 1,
         \A i \in Item : task'[i] # "none" => task[i] # "none" \/ i = stats.discovered + 1
  PROVE  found' \in Seq(Urls) /\ Len(found') <= MaxDiscovered /\ Counted'
<1>1. found' \in Seq(Urls) /\ Len(found') = Len(found) + 1
  BY DEF TypeOK
<1>2. Len(found) \in Nat
  BY DEF TypeOK
<1> QED
  BY <1>1, <1>2, BoundsAssumption DEF Counted, Item

\* One step per action.  The actions of main leave the semaphore alone, except
\* that a new task is queued; each task action takes or returns its own slot.
LEMMA TypeInvStep == TypeInv /\ [Next]_vars => TypeInv'
<1> SUFFICES ASSUME TypeOK, SlotsConserved, Counted, [Next]_vars PROVE TypeInv'
  BY DEF TypeInv
<1> USE DEF TypeInv
<1>1. ASSUME NEW u \in Urls, DiscoverDuplicate(u) PROVE TypeInv'
  <2>1. stats' \in RunStats /\ stats'.discovered = stats.discovered + 1
    <3> DEFINE s == [stats EXCEPT !.discovered = stats.discovered + 1]
    <3>1. /\ s \in RunStats /\ s.discovered = stats.discovered + 1
          /\ stats.skipped_duplicate \in Nat
      <4>1. stats \in RunStats
        BY DEF TypeOK
      <4> QED
        BY <4>1 DEF RunStats
    <3>2. stats' = [s EXCEPT !.skipped_duplicate = stats.skipped_duplicate + 1]
      BY <1>1 DEF DiscoverDuplicate
    <3> HIDE DEF s
    <3> QED
      BY <3>1, <3>2 DEF RunStats
  <2>2. found' \in Seq(Urls) /\ Len(found') <= MaxDiscovered /\ Counted'
    BY <1>1, <2>1, OneMoreFound DEF DiscoverDuplicate
  <2>3. TypeOK'
    BY <1>1, <2>1, <2>2 DEF DiscoverDuplicate, TypeOK
  <2> QED
    BY <1>1, <2>2, <2>3, SameTasksSameSlots DEF DiscoverDuplicate
<1>2. ASSUME NEW u \in Urls, DiscoverNew(u) PROVE TypeInv'
  <2> DEFINE n == stats.discovered + 1
  <2>0. Len(found) \in Nat /\ stats.discovered = Len(found)
    BY DEF TypeOK, Counted
  <2>1. n \in Item /\ n \in Nat /\ n > Len(found)
    BY <1>2, <2>0, BoundsAssumption DEF DiscoverNew, Item
  <2>2. /\ found' = Append(found, u) /\ Len(found) < MaxDiscovered
        /\ seen' = seen \cup {u}
        /\ stats' = [stats EXCEPT !.discovered = n]
        /\ task' = [task EXCEPT ![n] = "queued"]
        /\ tasks' = tasks \cup {n}
        /\ UNCHANGED <<cancelReq, free, records>>
    BY <1>2 DEF DiscoverNew, SeenAfter
  <2>3. pc' \in {pc, "returned", "gathering"} /\ gathered' \in {gathered, tasks'}
    BY <1>2 DEF DiscoverNew, LeaveLoop
  <2>4. stats' \in RunStats /\ stats'.discovered = n
    <3>1. stats \in RunStats /\ stats.discovered \in Nat
      BY DEF TypeOK, RunStats
    <3> QED
      BY <2>1, <2>2, <3>1 DEF RunStats
  <2>5. found' \in Seq(Urls) /\ Len(found') <= MaxDiscovered /\ Counted'
    BY <2>1, <2>2, <2>4, OneMoreFound DEF TypeOK
  <2>6. TypeOK'
    BY <2>1, <2>2, <2>3, <2>4, <2>5 DEF TypeOK, Live, Ended
  <2>7. task[n] = "none"
    BY <2>0, <2>1 DEF Counted
  <2>8. SlotsConserved'
    <3>0. task[n] \notin Running /\ "queued" \notin Running
      BY <2>7 DEF Running
    <3>1. n \in Item /\ task' = [task EXCEPT ![n] = "queued"]
      BY <2>1, <2>2
    <3> HIDE DEF n
    <3>2. Cardinality(InState(Running)') = Cardinality(InState(Running))
      BY <3>0, <3>1, HoldersChange
    <3> QED
      BY <2>2, <3>2 DEF SlotsConserved
  <2> QED
    BY <2>5, <2>6, <2>8
<1>3. ASSUME \/ DiscoveryEnds \/ DiscoveryRaises \/ GatherReturns \/ GatherRaises
             \/ CancelRun \/ CancelLosesToFailure \/ DrainEnds
      PROVE  TypeInv'
  <2>1. /\ pc' \in {"gathering", "draining"} \cup Ended
        /\ gathered' \in {gathered, tasks}
        /\ cancelReq' \in SUBSET Item
        /\ UNCHANGED <<found, seen, task, tasks, free, records, stats>>
    BY <1>3 DEF DiscoveryEnds, DiscoveryRaises, GatherReturns, GatherRaises, CancelRun,
                CancelLosesToFailure, DrainEnds, LeaveLoop, Ended, TypeOK
  <2>2. TypeOK' /\ Counted'
    BY <2>1 DEF TypeOK, Counted
  <2> QED
    BY <2>1, <2>2, SameTasksSameSlots
<1>4. ASSUME NEW i \in Item, Acquire(i) PROVE TypeInv'
  <2>1. /\ task[i] = "queued" /\ free > 0
        /\ task' = [task EXCEPT ![i] = "fetching"] /\ free' = free - 1
        /\ UNCHANGED <<pc, found, seen, tasks, gathered, cancelReq, records, stats>>
    BY <1>4 DEF Acquire, Moves
  <2>2. TypeOK'
    BY <2>1, ConcurrencyAssumption DEF TypeOK, Live, Running
  <2>3. Cardinality(InState(Running)') = Cardinality(InState(Running)) + 1
    BY <2>1, HoldersChange DEF Running
  <2>4. Cardinality(InState(Running)) \in Nat
    BY ItemSetsFinite DEF InState
  <2>5. SlotsConserved'
    BY <2>1, <2>3, <2>4, ConcurrencyAssumption DEF SlotsConserved, TypeOK
  <2>6. Counted'
    BY <2>1 DEF Counted, TypeOK
  <2> QED
    BY <2>2, <2>5, <2>6
<1>5. ASSUME NEW i \in Item, FetchOk(i) PROVE TypeInv'
  <2>1. /\ task[i] = "fetching"
        /\ task' = [task EXCEPT ![i] = "parsing"]
        /\ stats' = [stats EXCEPT !.fetched = stats.fetched + 1]
        /\ UNCHANGED <<pc, found, seen, tasks, gathered, cancelReq, free, records>>
    BY <1>5 DEF FetchOk, Moves
  <2>2. stats' \in RunStats /\ stats'.discovered = stats.discovered
    BY <2>1, StatsType DEF TypeOK
  <2>3. TypeOK'
    BY <2>1, <2>2 DEF TypeOK, Live, Running
  <2>4. SlotsConserved'
    BY <2>1, HoldersChange DEF SlotsConserved, Running
  <2>5. Counted'
    BY <2>1, <2>2 DEF Counted, TypeOK
  <2> QED
    BY <2>3, <2>4, <2>5
<1>6. ASSUME NEW i \in Item, NEW how \in Final, task[i] \in Live, TaskEnds(i, how),
             records' \in Seq(Item), stats' \in RunStats,
             stats'.discovered = stats.discovered
      PROVE  TypeInv'
  <2>1. /\ task' \in [Item -> {"none"} \cup Live \cup Final]
        /\ free' \in 0 .. MaxConcurrency
        /\ SlotsConserved'
    BY <1>6, TaskEndsKeepsSlots
  <2>2. TypeOK'
    BY <1>6, <2>1 DEF TaskEnds, TypeOK
  <2>3. Counted'
    BY <1>6 DEF TaskEnds, Counted, TypeOK, Live, Running
  <2> QED
    BY <2>1, <2>2, <2>3
<1>7. ASSUME NEW i \in Item,
             FetchBlocked(i) \/ FetchFails(i) \/ ParseFails(i) \/ Crash(i) \/ TaskCancelled(i)
      PROVE  TypeInv'
  <2>1. task[i] \in Live
    BY <1>7 DEF FetchBlocked, FetchFails, ParseFails, Crash, TaskCancelled, Moves, Live, Running
  <2>2. PICK how \in Final : TaskEnds(i, how)
    BY <1>7 DEF FetchBlocked, FetchFails, ParseFails, Crash, TaskCancelled, Final
  <2>3. /\ records' = records
        /\ \/ stats' = stats
           \/ stats' = [stats EXCEPT !.blocked = stats.blocked + 1]
           \/ stats' = [stats EXCEPT !.fetch_failed = stats.fetch_failed + 1]
    BY <1>7 DEF FetchBlocked, FetchFails, ParseFails, Crash, TaskCancelled
  <2>4. stats' \in RunStats /\ stats'.discovered = stats.discovered
    BY <2>3, StatsType DEF TypeOK
  <2>5. records' \in Seq(Item)
    BY <2>3 DEF TypeOK
  <2> QED
    BY <1>6, <2>1, <2>2, <2>4, <2>5
<1>8. ASSUME NEW i \in Item, NEW n \in 0 .. MaxParsed, ParseOk(i, n) PROVE TypeInv'
  <2>1. /\ task[i] \in Live /\ TaskEnds(i, "parsed")
        /\ records' = records \o [k \in 1 .. n |-> i]
        /\ stats' = [stats EXCEPT !.parsed_records = stats.parsed_records + n]
    BY <1>8 DEF ParseOk, Moves, Live, Running
  <2>0. n \in Nat
    BY BoundsAssumption
  <2>2. [k \in 1 .. n |-> i] \in Seq(Item)
    BY <2>0
  <2>3. records' \in Seq(Item)
    BY <2>1, <2>2, ConcatProperties DEF TypeOK
  <2>4. stats' \in RunStats /\ stats'.discovered = stats.discovered
    BY <2>0, <2>1, StatsType DEF TypeOK
  <2> QED
    BY <1>6, <2>1, <2>3, <2>4 DEF Final
<1>9. ASSUME NEW i \in Item, Discard(i) PROVE TypeInv'
  <2>1. TypeOK' /\ Counted'
    BY <1>9 DEF Discard, TypeOK, Counted
  <2> QED
    BY <1>9, <2>1, SameTasksSameSlots DEF Discard
<1>10. CASE UNCHANGED vars
  <2>1. TypeOK' /\ Counted'
    BY <1>10 DEF vars, TypeOK, Counted
  <2> QED
    BY <1>10, <2>1, SameTasksSameSlots DEF vars
<1> QED
  BY <1>1, <1>2, <1>3, <1>4, <1>5, <1>7, <1>8, <1>9, <1>10
     DEF Next, MainStep, TaskStep

\* Type correctness with the semaphore's accounting.
LEMMA TypeInvAlways == Spec => []TypeInv
BY TypeInvInit, TypeInvStep, PTL DEF Spec

\* Every variable of the pool keeps its type, the semaphore's value included,
\* whatever the listing, the concurrency and the item cap (workers.py:40-106).
THEOREM TypeCorrect == Spec => []TypeOK
BY TypeInvAlways, PTL DEF TypeInv

\* No slot of the semaphore is ever leaked or minted: at most max_concurrency
\* tasks are inside `async with semaphore` (workers.py:44-48).
THEOREM SlotsAreConserved == Spec => []SlotsConserved
BY TypeInvAlways, PTL DEF TypeInv

-----------------------------------------------------------------------------
\* Only the discovery of a new URL brings a task to life; every other step
\* leaves the created tasks, seen_urls and the items already found as they are.
LEMMA OnlyDiscoveryCreates ==
  ASSUME TypeInv, [Next]_vars, \A u \in Urls : ~DiscoverNew(u)
  PROVE  /\ \A i \in Item : task'[i] = "none" <=> task[i] = "none"
         /\ \A i \in Item : task'[i] \in Live => task[i] \in Live
         /\ seen' = seen
         /\ found' = found \/ \E u \in Urls : found' = Append(found, u)
         /\ pc' = "discovering" => pc = "discovering"
<1> USE DEF TypeInv, TypeOK
<1>1. ASSUME NEW u \in Urls, DiscoverDuplicate(u)
      PROVE  task' = task /\ seen' = seen /\ found' = Append(found, u) /\ pc' = pc
  BY <1>1 DEF DiscoverDuplicate
<1>2. ASSUME \/ DiscoveryEnds \/ DiscoveryRaises \/ GatherReturns \/ GatherRaises
             \/ CancelRun \/ CancelLosesToFailure \/ DrainEnds
      PROVE  task' = task /\ seen' = seen /\ found' = found /\ pc' # "discovering"
  BY <1>2 DEF DiscoveryEnds, DiscoveryRaises, GatherReturns, GatherRaises, CancelRun,
              CancelLosesToFailure, DrainEnds, LeaveLoop
<1>3. ASSUME NEW i \in Item, TaskStep(i)
      PROVE  /\ seen' = seen /\ found' = found /\ pc' = pc
             /\ \/ task' = task
                \/ \E s \in Live \cup Final :
                      task[i] \in Live /\ task' = [task EXCEPT ![i] = s]
  <2>1. CASE Acquire(i) \/ FetchOk(i)
    BY <2>1 DEF Acquire, FetchOk, Moves, Live, Running
  <2>2. CASE FetchBlocked(i) \/ FetchFails(i) \/ ParseFails(i) \/ Crash(i) \/ TaskCancelled(i)
    BY <2>2 DEF FetchBlocked, FetchFails, ParseFails, Crash, TaskCancelled, TaskEnds, Moves,
                Live, Running, Final
  <2>3. CASE \E n \in 0 .. MaxParsed : ParseOk(i, n)
    BY <2>3 DEF ParseOk, TaskEnds, Moves, Live, Running, Final
  <2>4. CASE Discard(i)
    BY <2>4 DEF Discard
  <2> QED
    BY <1>3, <2>1, <2>2, <2>3, <2>4 DEF TaskStep
<1>4. "none" \notin Live /\ "none" \notin Final
  BY DEF Live, Running, Final
<1>5. CASE UNCHANGED vars
  BY <1>5 DEF vars
<1>6. ASSUME NEW i \in Item, TaskStep(i)
      PROVE  /\ \A j \in Item : task'[j] = "none" <=> task[j] = "none"
             /\ \A j \in Item : task'[j] \in Live => task[j] \in Live
  BY <1>3, <1>4, <1>6
<1> QED
  BY <1>1, <1>2, <1>3, <1>5, <1>6 DEF Next, MainStep

-----------------------------------------------------------------------------
\* In-run dedup, with what makes it inductive: the URL of every task is in
\* seen_urls, so a URL that is not there has no task yet.
DedupInv ==
  /\ FetchOncePerUrl
  /\ \A i \in Item : task[i] # "none" => found[i] \in seen

\* Appending an item leaves the earlier ones where they were.
LEMMA AppendKeeps ==
  ASSUME TypeOK, NEW u \in Urls, NEW i \in Nat \ {0}, i <= Len(found)
  PROVE  Append(found, u)[i] = found[i]
BY DEF TypeOK

LEMMA DedupStep == TypeInv /\ DedupInv /\ [Next]_vars => DedupInv'
<1> SUFFICES ASSUME TypeInv, DedupInv, [Next]_vars PROVE DedupInv'
  OBVIOUS
<1>1. \A i \in Item : task[i] # "none" => i \in Nat \ {0} /\ i <= Len(found)
  BY BoundsAssumption DEF TypeInv, Counted, Item
<1>2. ASSUME NEW u \in Urls, DiscoverNew(u) PROVE DedupInv'
  <2> DEFINE n == stats.discovered + 1
  <2>1. /\ found' = Append(found, u) /\ u \notin seen /\ seen' = seen \cup {u}
        /\ task' = [task EXCEPT ![n] = "queued"]
    BY <1>2 DEF DiscoverNew, SeenAfter
  <2>2. found' [n] = u
    BY <2>1 DEF TypeInv, TypeOK, Counted
  <2>3. \A i \in Item : task'[i] # "none" =>
           \/ i = n
           \/ task[i] # "none" /\ found'[i] = found[i] /\ found[i] \in seen
    BY <1>1, <2>1, AppendKeeps DEF TypeInv, TypeOK, DedupInv
  <2> HIDE DEF n
  <2>4. \A i \in Item : task'[i] # "none" => found'[i] \in seen'
    BY <2>1, <2>2, <2>3
  <2>5. ASSUME NEW i \in Item, NEW j \in Item, task'[i] # "none", task'[j] # "none",
               found'[i] = found'[j]
        PROVE  i = j
    <3>1. CASE i = n \/ j = n
      BY <2>1, <2>2, <2>3, <2>5, <3>1
    <3>2. CASE i # n /\ j # n
      BY <2>3, <2>5, <3>2 DEF FetchOncePerUrl, DedupInv
    <3> QED
      BY <3>1, <3>2
  <2> QED
    BY <2>4, <2>5 DEF DedupInv, FetchOncePerUrl
<1>3. ASSUME \A u \in Urls : ~DiscoverNew(u) PROVE DedupInv'
  <2>1. /\ \A i \in Item : task'[i] = "none" <=> task[i] = "none"
        /\ seen' = seen
        /\ found' = found \/ \E u \in Urls : found' = Append(found, u)
    BY <1>3, OnlyDiscoveryCreates
  <2>2. \A i \in Item : task'[i] # "none" => task[i] # "none" /\ found'[i] = found[i]
    BY <1>1, <2>1, AppendKeeps DEF TypeInv
  <2> QED
    BY <2>1, <2>2 DEF DedupInv, FetchOncePerUrl
<1> QED
  BY <1>2, <1>3

LEMMA DedupInvAlways == Spec => []DedupInv
<1>1. Init => DedupInv
  BY DEF Init, DedupInv, FetchOncePerUrl
<1> QED
  BY <1>1, TypeInvAlways, DedupStep, PTL DEF Spec

\* In-run dedup: a run never starts two tasks for one normalized URL, whatever
\* the listing repeats (workers.py:86-94).
THEOREM FetchesOncePerUrl == Spec => []FetchOncePerUrl
<1>1. DedupInv => FetchOncePerUrl
  BY DEF DedupInv
<1> QED
  BY <1>1, DedupInvAlways, PTL

-----------------------------------------------------------------------------
\* The item cap.  `discovered` may pass max_items on duplicates, but while the
\* loop runs there is room for one more task, because every task but the last
\* was created by an iteration that found discovered < max_items.
CapInv ==
  /\ TasksWithinCap
  /\ Cardinality(Created) <= Len(found)
  /\ pc = "discovering" => Cardinality(Created) < MaxItems

LEMMA CapStep == TypeInv /\ CapInv /\ [Next]_vars => CapInv'
<1> SUFFICES ASSUME TypeInv, CapInv, [Next]_vars PROVE CapInv'
  OBVIOUS
<1>1. /\ IsFiniteSet(Created) /\ Cardinality(Created) \in Nat
      /\ Len(found) \in Nat /\ MaxItems \in Nat
  BY ItemSetsFinite, BoundsAssumption DEF Created, TypeInv, TypeOK
<1>2. ASSUME NEW u \in Urls, DiscoverNew(u) PROVE CapInv'
  <2> DEFINE n == stats.discovered + 1
  <2>1. /\ pc = "discovering" /\ Len(found) < MaxDiscovered
        /\ found' = Append(found, u)
        /\ task' = [task EXCEPT ![n] = "queued"]
        /\ pc' = "discovering" => n < MaxItems
    <3>1. n \in Nat
      BY <1>1 DEF TypeInv, Counted
    <3>2. IF LimitReached(n) THEN LeaveLoop(tasks \cup {n}) ELSE UNCHANGED <<pc, gathered>>
      BY <1>2 DEF DiscoverNew
    <3>3. /\ pc = "discovering" /\ Len(found) < MaxDiscovered
          /\ found' = Append(found, u) /\ task' = [task EXCEPT ![n] = "queued"]
      BY <1>2 DEF DiscoverNew
    <3> QED
      BY <1>1, <3>1, <3>2, <3>3 DEF LimitReached, LeaveLoop
  <2>2. n \in Item /\ n = Len(found) + 1 /\ Len(found') = Len(found) + 1
    BY <1>1, <2>1, BoundsAssumption DEF Item, TypeInv, TypeOK, Counted
  <2> HIDE DEF n
  <2>3. task[n] = "none"
    BY <1>1, <2>2 DEF TypeInv, Counted
  <2>4. Created' = Created \cup {n} /\ n \notin Created
    BY <2>1, <2>2, <2>3 DEF Created, TypeInv, TypeOK
  <2>5. Cardinality(Created') = Cardinality(Created) + 1
    BY <1>1, <2>4, FS_AddElement
  <2>6. Cardinality(Created) < MaxItems /\ Cardinality(Created) <= Len(found)
    BY <2>1 DEF CapInv
  <2> QED
    BY <1>1, <2>1, <2>2, <2>5, <2>6 DEF CapInv, TasksWithinCap
<1>3. ASSUME \A u \in Urls : ~DiscoverNew(u) PROVE CapInv'
  <2>1. Created' = Created
    BY <1>3, OnlyDiscoveryCreates DEF Created
  <2>2. Len(found') \in Nat /\ Len(found) <= Len(found')
    BY <1>1, <1>3, OnlyDiscoveryCreates DEF TypeInv, TypeOK
  <2>3. pc' = "discovering" => pc = "discovering"
    BY <1>3, OnlyDiscoveryCreates
  <2> QED
    BY <1>1, <2>1, <2>2, <2>3 DEF CapInv, TasksWithinCap
<1> QED
  BY <1>2, <1>3

LEMMA CapInvAlways == Spec => []CapInv
<1>1. Init => CapInv
  <2> SUFFICES ASSUME Init PROVE CapInv
    OBVIOUS
  <2>1. Created = {} /\ Len(found) = 0
    BY DEF Init, Created
  <2> QED
    BY <2>1, FS_EmptySet, BoundsAssumption DEF CapInv, TasksWithinCap
<1> QED
  BY <1>1, TypeInvAlways, CapStep, PTL DEF Spec

\* A run creates at most max_items tasks, although the loop skips the test of
\* the limit on a duplicate (workers.py:87-97).
THEOREM TasksStayWithinCap == Spec => []TasksWithinCap
<1>1. CapInv => TasksWithinCap
  BY DEF CapInv
<1> QED
  BY <1>1, CapInvAlways, PTL

-----------------------------------------------------------------------------
\* A clean ending.  What main awaits is all that is alive: gather's arguments
\* while it gathers, the set `tasks` -- which loses only finished tasks -- while
\* it drains.
ShutdownInv ==
  /\ NoOutstandingTask
  /\ InState(Live) \subseteq tasks
  /\ pc = "gathering" => InState(Live) \subseteq gathered

LEMMA ShutdownStep == TypeInv /\ ShutdownInv /\ [Next]_vars => ShutdownInv'
<1> SUFFICES ASSUME TypeInv, ShutdownInv, [Next]_vars PROVE ShutdownInv'
  OBVIOUS
<1>1. Live \cap Final = {}
  BY DEF Live, Running, Final
<1>2. ASSUME NEW u \in Urls, DiscoverNew(u) PROVE ShutdownInv'
  <2> DEFINE n == stats.discovered + 1
  <2>1. /\ pc = "discovering" /\ tasks' = tasks \cup {n}
        /\ task' = [task EXCEPT ![n] = "queued"]
        /\ pc' = "discovering" \/ (pc' = "gathering" /\ gathered' = tasks')
    BY <1>2 DEF DiscoverNew, LeaveLoop
  <2> HIDE DEF n
  <2>2. InState(Live)' \subseteq tasks'
    BY <2>1 DEF ShutdownInv, InState, TypeInv, TypeOK
  <2> QED
    BY <2>1, <2>2 DEF ShutdownInv, NoOutstandingTask
<1>3. ASSUME \A u \in Urls : ~DiscoverNew(u) PROVE ShutdownInv'
  <2>1. InState(Live)' \subseteq InState(Live)
    BY <1>3, OnlyDiscoveryCreates DEF InState
  <2>2. CASE \/ DiscoveryEnds \/ DiscoveryRaises \/ GatherReturns \/ GatherRaises
             \/ CancelRun \/ CancelLosesToFailure \/ DrainEnds
    <3>1. tasks' = tasks /\ task' = task
      BY <2>2 DEF DiscoveryEnds, DiscoveryRaises, GatherReturns, GatherRaises, CancelRun,
                  CancelLosesToFailure, DrainEnds
    <3>2. CASE DiscoveryEnds
      BY <2>1, <3>1, <3>2 DEF DiscoveryEnds, LeaveLoop, ShutdownInv, NoOutstandingTask
    <3>3. CASE GatherReturns
      <4>1. InState(Live) = {}
        BY <1>1, <3>3 DEF GatherReturns, GatherDone, ShutdownInv, InState
      <4> QED
        BY <2>1, <3>1, <3>3, <4>1 DEF GatherReturns, ShutdownInv, NoOutstandingTask
    <3>4. CASE DrainEnds
      <4>1. InState(Live) = {}
        BY <1>1, <3>4 DEF DrainEnds, DrainDone, ShutdownInv, InState
      <4> QED
        BY <2>1, <3>1, <3>4, <4>1 DEF DrainEnds, ShutdownInv, NoOutstandingTask
    <3>5. CASE DiscoveryRaises \/ GatherRaises \/ CancelRun \/ CancelLosesToFailure
      BY <2>1, <3>1, <3>5 DEF DiscoveryRaises, GatherRaises, CancelRun, CancelLosesToFailure,
                              ShutdownInv, NoOutstandingTask
    <3> QED
      BY <2>2, <3>2, <3>3, <3>4, <3>5
  <2>3. CASE \/ \E u \in Urls : DiscoverDuplicate(u)
             \/ UNCHANGED vars
    BY <2>1, <2>3 DEF DiscoverDuplicate, vars, ShutdownInv, NoOutstandingTask
  <2>4. ASSUME NEW i \in Item, TaskStep(i) PROVE ShutdownInv'
    <3>1. /\ pc' = pc /\ gathered' = gathered
          /\ tasks' = tasks \/ (tasks' = tasks \ {i} /\ task[i] \in Final /\ task' = task)
      <4>1. CASE Discard(i)
        BY <4>1 DEF Discard
      <4>2. CASE Acquire(i) \/ FetchOk(i)
        BY <4>2 DEF Acquire, FetchOk
      <4>3. CASE \E how \in Final : TaskEnds(i, how)
        BY <4>3 DEF TaskEnds
      <4>4. \/ Discard(i) \/ Acquire(i) \/ FetchOk(i)
            \/ \E how \in Final : TaskEnds(i, how)
        BY <2>4 DEF TaskStep, FetchBlocked, FetchFails, ParseFails, ParseOk, Crash,
                    TaskCancelled, Final
      <4> QED
        BY <4>1, <4>2, <4>3, <4>4
    <3>2. InState(Live)' \subseteq tasks'
      BY <1>1, <2>1, <3>1 DEF ShutdownInv, InState
    <3> QED
      BY <2>1, <3>1, <3>2 DEF ShutdownInv, NoOutstandingTask
  <2> QED
    BY <1>3, <2>2, <2>3, <2>4 DEF Next, MainStep
<1> QED
  BY <1>2, <1>3

LEMMA ShutdownInvAlways == Spec => []ShutdownInv
<1>1. Init => ShutdownInv
  BY DEF Init, ShutdownInv, NoOutstandingTask, InState, Live, Running
<1> QED
  BY <1>1, TypeInvAlways, ShutdownStep, PTL DEF Spec

\* Graceful shutdown: when run_adapter has returned, or a cancellation has run
\* its course, none of the tasks it created is alive (workers.py:99-106).
THEOREM ShutsDownCleanly == Spec => []NoOutstandingTask
<1>1. ShutdownInv => NoOutstandingTask
  BY DEF ShutdownInv
<1> QED
  BY <1>1, ShutdownInvAlways, PTL

-----------------------------------------------------------------------------
\* What the counters of RunStats count: the tasks that ended each way, and the records
\* that were collected.  Only a cancellation of the run cancels a task, and gather
\* returns only if nothing it was given had crashed.
Started == Live \cup Final
Blocked == {"blocked"}
Failed  == {"unfetched", "unparsed"}

Tally ==
  /\ stats.discovered = stats.skipped_duplicate + Cardinality(InState(Started))
  /\ stats.blocked = Cardinality(InState(Blocked))
  /\ stats.fetch_failed = Cardinality(InState(Failed))
  /\ stats.parsed_records = Len(records)

NobodyCancelled ==
  pc \in {"discovering", "gathering", "returned"} => cancelReq = {} /\ InState({"cancelled"}) = {}

CrashedLeftOut == pc = "returned" => gathered \cap InState({"crashed"}) = {}

TallyInv == Tally /\ NobodyCancelled /\ CrashedLeftOut

\* The steps that move a task, and those that do not.
LEMMA TaskMoves ==
  ASSUME TypeOK, NEW i \in Item, TaskStep(i), ~Discard(i)
  PROVE  /\ task[i] \in Live
         /\ pc' = pc /\ gathered' = gathered /\ cancelReq' = cancelReq
         /\ \E s \in Live \cup Final :
               /\ task' = [task EXCEPT ![i] = s]
               /\ s = "cancelled" => cancelReq # {}
<1>1. CASE Acquire(i) \/ FetchOk(i)
  BY <1>1 DEF Acquire, FetchOk, Moves, Live, Running
<1>2. CASE FetchBlocked(i) \/ FetchFails(i) \/ ParseFails(i) \/ Crash(i) \/ TaskCancelled(i)
  BY <1>2 DEF FetchBlocked, FetchFails, ParseFails, Crash, TaskCancelled, TaskEnds, Moves,
              Live, Running, Final
<1>3. CASE \E n \in 0 .. MaxParsed : ParseOk(i, n)
  BY <1>3 DEF ParseOk, TaskEnds, Moves, Live, Running, Final
<1> QED
  BY <1>1, <1>2, <1>3 DEF TaskStep

\* A task that ends moves the counter of its ending, and no other.
LEMMA TallyOfTask ==
  ASSUME TypeInv, Tally, NEW i \in Item, TaskStep(i), ~Discard(i)
  PROVE  Tally'
<1>1. /\ stats \in RunStats /\ records \in Seq(Item) /\ TypeOK
      /\ stats.blocked \in Nat /\ stats.fetch_failed \in Nat /\ stats.parsed_records \in Nat
  BY DEF TypeInv, TypeOK, RunStats
<1>2. task[i] \in Live /\ task[i] \notin Blocked /\ task[i] \notin Failed /\ task[i] \in Started
  BY <1>1, TaskMoves DEF Live, Running, Blocked, Failed, Started
<1>3. ASSUME NEW s \in Started, task' = [task EXCEPT ![i] = s]
      PROVE  /\ Cardinality(InState(Started)') = Cardinality(InState(Started))
             /\ s \in Blocked => Cardinality(InState(Blocked)') = Cardinality(InState(Blocked)) + 1
             /\ s \notin Blocked => Cardinality(InState(Blocked)') = Cardinality(InState(Blocked))
             /\ s \in Failed => Cardinality(InState(Failed)') = Cardinality(InState(Failed)) + 1
             /\ s \notin Failed => Cardinality(InState(Failed)') = Cardinality(InState(Failed))
  BY <1>1, <1>2, <1>3, MembersChange
<1> DEFINE Same(f) == f.discovered = stats.discovered /\ f.skipped_duplicate = stats.skipped_duplicate
<1>4. CASE Acquire(i) \/ FetchOk(i)
  <2>1. PICK s \in Live : task' = [task EXCEPT ![i] = s]
    BY <1>4 DEF Acquire, FetchOk, Live, Running
  <2>2. s \in Started /\ s \notin Blocked /\ s \notin Failed
    BY <2>1 DEF Live, Running, Started, Blocked, Failed
  <2>3. records' = records /\ (stats' = stats \/ stats' = [stats EXCEPT !.fetched = stats.fetched + 1])
    BY <1>4 DEF Acquire, FetchOk
  <2>4. /\ Same(stats') /\ stats'.blocked = stats.blocked
        /\ stats'.fetch_failed = stats.fetch_failed /\ stats'.parsed_records = stats.parsed_records
    BY <1>1, <2>3 DEF RunStats
  <2> QED
    BY <1>3, <2>1, <2>2, <2>3, <2>4 DEF Tally
<1>5. CASE FetchBlocked(i)
  <2>1. /\ task' = [task EXCEPT ![i] = "blocked"] /\ records' = records
        /\ stats' = [stats EXCEPT !.blocked = stats.blocked + 1]
    BY <1>5 DEF FetchBlocked, TaskEnds
  <2>2. /\ Same(stats') /\ stats'.blocked = stats.blocked + 1
        /\ stats'.fetch_failed = stats.fetch_failed /\ stats'.parsed_records = stats.parsed_records
    BY <1>1, <2>1 DEF RunStats
  <2>3. "blocked" \in Started /\ "blocked" \in Blocked /\ "blocked" \notin Failed
    BY DEF Final, Started, Blocked, Failed
  <2> QED
    BY <1>3, <2>1, <2>2, <2>3 DEF Tally
<1>6. CASE FetchFails(i) \/ ParseFails(i)
  <2>1. PICK how \in Failed : task' = [task EXCEPT ![i] = how]
    BY <1>6 DEF FetchFails, ParseFails, TaskEnds, Failed
  <2>2. records' = records /\ stats' = [stats EXCEPT !.fetch_failed = stats.fetch_failed + 1]
    BY <1>6 DEF FetchFails, ParseFails
  <2>3. /\ Same(stats') /\ stats'.blocked = stats.blocked
        /\ stats'.fetch_failed = stats.fetch_failed + 1 /\ stats'.parsed_records = stats.parsed_records
    BY <1>1, <2>2 DEF RunStats
  <2>4. how \in Started /\ how \notin Blocked
    BY DEF Final, Started, Blocked, Failed
  <2> QED
    BY <1>3, <2>1, <2>2, <2>3, <2>4 DEF Tally
<1>7. CASE Crash(i) \/ TaskCancelled(i)
  <2>1. PICK how \in {"crashed", "cancelled"} : task' = [task EXCEPT ![i] = how]
    BY <1>7 DEF Crash, TaskCancelled, TaskEnds
  <2>2. records' = records /\ stats' = stats
    BY <1>7 DEF Crash, TaskCancelled
  <2>3. how \in Started /\ how \notin Blocked /\ how \notin Failed
    BY DEF Final, Started, Blocked, Failed
  <2> QED
    BY <1>3, <2>1, <2>2, <2>3 DEF Tally
<1>8. ASSUME NEW n \in 0 .. MaxParsed, ParseOk(i, n) PROVE Tally'
  <2>1. /\ task' = [task EXCEPT ![i] = "parsed"] /\ records' = records \o [k \in 1 .. n |-> i]
        /\ stats' = [stats EXCEPT !.parsed_records = stats.parsed_records + n]
    BY <1>8 DEF ParseOk, TaskEnds
  <2>2. n \in Nat
    BY BoundsAssumption
  <2>3. [k \in 1 .. n |-> i] \in Seq(Item) /\ Len([k \in 1 .. n |-> i]) = n
    BY <2>2
  <2>4. Len(records') = Len(records) + n
    BY <1>1, <2>1, <2>3, ConcatProperties
  <2>5. /\ Same(stats') /\ stats'.blocked = stats.blocked
        /\ stats'.fetch_failed = stats.fetch_failed
        /\ stats'.parsed_records = stats.parsed_records + n
    BY <1>1, <2>1, <2>2 DEF RunStats
  <2>6. "parsed" \in Started /\ "parsed" \notin Blocked /\ "parsed" \notin Failed
    BY DEF Final, Started, Blocked, Failed
  <2> QED
    BY <1>3, <2>1, <2>4, <2>5, <2>6 DEF Tally
<1> QED
  BY <1>4, <1>5, <1>6, <1>7, <1>8 DEF TaskStep

LEMMA TallyStep == TypeInv /\ ShutdownInv /\ TallyInv /\ [Next]_vars => TallyInv'
<1> SUFFICES ASSUME TypeInv, ShutdownInv, TallyInv, [Next]_vars PROVE TallyInv'
  OBVIOUS
<1>1. /\ TypeOK /\ Tally /\ NobodyCancelled /\ CrashedLeftOut
      /\ stats \in RunStats /\ stats.discovered \in Nat /\ stats.skipped_duplicate \in Nat
  BY DEF TallyInv, TypeInv, TypeOK, RunStats
<1>2. ASSUME UNCHANGED <<task, records>>, stats' = stats PROVE Tally'
  BY <1>1, <1>2 DEF Tally, InState
<1>3. ASSUME NEW u \in Urls, DiscoverDuplicate(u) PROVE TallyInv'
  <2>1. /\ UNCHANGED <<pc, task, gathered, cancelReq, records>>
        /\ stats' = [stats EXCEPT !.discovered = stats.discovered + 1,
                                  !.skipped_duplicate = stats.skipped_duplicate + 1]
    BY <1>3 DEF DiscoverDuplicate
  <2>2. /\ stats'.discovered = stats.discovered + 1
        /\ stats'.skipped_duplicate = stats.skipped_duplicate + 1
        /\ stats'.blocked = stats.blocked /\ stats'.fetch_failed = stats.fetch_failed
        /\ stats'.parsed_records = stats.parsed_records
    BY <1>1, <2>1 DEF RunStats
  <2>3. Cardinality(InState(Started)) \in Nat
    BY ItemSetsFinite DEF InState
  <2>4. Tally'
    BY <1>1, <2>1, <2>2, <2>3 DEF Tally, InState
  <2> QED
    BY <1>1, <2>1, <2>4 DEF TallyInv, NobodyCancelled, CrashedLeftOut, InState
<1>4. ASSUME NEW u \in Urls, DiscoverNew(u) PROVE TallyInv'
  <2> DEFINE n == stats.discovered + 1
  <2>1. /\ pc = "discovering" /\ Len(found) < MaxDiscovered
        /\ task' = [task EXCEPT ![n] = "queued"]
        /\ stats' = [stats EXCEPT !.discovered = n]
        /\ UNCHANGED <<cancelReq, records>>
    BY <1>4 DEF DiscoverNew
  <2>2. pc' # "returned"
    <3>1. LimitReached(n) => pc' = "gathering"
      BY <1>4 DEF DiscoverNew, LeaveLoop
    <3>2. ~LimitReached(n) => pc' = pc
      BY <1>4 DEF DiscoverNew
    <3> QED
      BY <2>1, <3>1, <3>2
  <2>3. n \in Item /\ task[n] = "none" /\ n \in Nat
    BY <1>1, <2>1, BoundsAssumption DEF Item, TypeInv, TypeOK, Counted
  <2>4. /\ stats'.discovered = n /\ stats'.skipped_duplicate = stats.skipped_duplicate
        /\ stats'.blocked = stats.blocked /\ stats'.fetch_failed = stats.fetch_failed
        /\ stats'.parsed_records = stats.parsed_records
    BY <1>1, <2>1 DEF RunStats
  <2>5. "none" \notin Started /\ "queued" \in Started
    BY DEF Live, Running, Final, Started
  <2>6. Cardinality(InState(Started)) \in Nat
    BY ItemSetsFinite DEF InState
  <2>7. Cardinality(InState(Started)') = Cardinality(InState(Started)) + 1
    <3> HIDE DEF n
    <3> QED
      BY <1>1, <2>1, <2>3, <2>5, MembersChange
  <2>8. /\ InState(Blocked)' = InState(Blocked) /\ InState(Failed)' = InState(Failed)
        /\ InState({"cancelled"})' = InState({"cancelled"})
    BY <1>1, <2>1, <2>3 DEF InState, TypeOK, Blocked, Failed
  <2>9. Tally'
    BY <1>1, <2>1, <2>4, <2>6, <2>7, <2>8 DEF Tally
  <2> QED
    BY <1>1, <2>1, <2>2, <2>8, <2>9 DEF TallyInv, NobodyCancelled, CrashedLeftOut
<1>5. ASSUME \/ DiscoveryEnds \/ DiscoveryRaises \/ GatherReturns \/ GatherRaises
             \/ CancelRun \/ CancelLosesToFailure \/ DrainEnds
      PROVE  TallyInv'
  <2>1. UNCHANGED <<task, records, stats>>
    BY <1>5 DEF DiscoveryEnds, DiscoveryRaises, GatherReturns, GatherRaises, CancelRun,
                CancelLosesToFailure, DrainEnds
  <2>2. NobodyCancelled' /\ CrashedLeftOut'
    <3>1. CASE DiscoveryEnds
      BY <1>1, <3>1 DEF DiscoveryEnds, LeaveLoop, NobodyCancelled, CrashedLeftOut, InState
    <3>2. CASE GatherReturns
      BY <1>1, <3>2 DEF GatherReturns, NobodyCancelled, CrashedLeftOut, InState
    <3>3. CASE DiscoveryRaises \/ GatherRaises \/ CancelRun \/ CancelLosesToFailure \/ DrainEnds
      BY <3>3 DEF DiscoveryRaises, GatherRaises, CancelRun, CancelLosesToFailure, DrainEnds,
                  NobodyCancelled, CrashedLeftOut
    <3> QED
      BY <1>5, <3>1, <3>2, <3>3
  <2> QED
    BY <1>2, <2>1, <2>2 DEF TallyInv
<1>6. ASSUME NEW i \in Item, TaskStep(i), ~Discard(i) PROVE TallyInv'
  <2>1. Tally'
    BY <1>1, <1>6, TallyOfTask
  <2>2. /\ task[i] \in Live /\ pc' = pc /\ gathered' = gathered /\ cancelReq' = cancelReq
        /\ \E s \in Live \cup Final :
              /\ task' = [task EXCEPT ![i] = s]
              /\ s = "cancelled" => cancelReq # {}
    BY <1>1, <1>6, TaskMoves
  <2>3. pc # "returned"
    BY <2>2 DEF ShutdownInv, NoOutstandingTask, InState
  <2>4. NobodyCancelled'
    BY <1>1, <2>2 DEF NobodyCancelled, InState, TypeOK
  <2> QED
    BY <2>1, <2>2, <2>3, <2>4 DEF TallyInv, CrashedLeftOut
<1>7. ASSUME NEW i \in Item, Discard(i) PROVE TallyInv'
  BY <1>1, <1>2, <1>7 DEF Discard, TallyInv, NobodyCancelled, CrashedLeftOut, InState
<1>8. CASE UNCHANGED vars
  BY <1>1, <1>2, <1>8 DEF vars, TallyInv, NobodyCancelled, CrashedLeftOut, InState
<1> QED
  BY <1>3, <1>4, <1>5, <1>6, <1>7, <1>8 DEF Next, MainStep

\* When no task is alive or cancelled, the created ones divide into those blocked, those
\* counted as failed, and the rest.
LEMMA TallyAtTheEnd == TypeInv /\ ShutdownInv /\ TallyInv => EveryItemAccounted
<1> SUFFICES ASSUME TypeInv, ShutdownInv, TallyInv, pc = "returned"
             PROVE  /\ stats.discovered = stats.skipped_duplicate + stats.blocked + stats.fetch_failed
                                          + Cardinality(InState({"parsed", "crashed"}))
                    /\ stats.parsed_records = Len(records)
                    /\ \A i \in InState({"crashed"}) : i \notin gathered
  BY DEF EveryItemAccounted
<1> DEFINE B == InState(Blocked)
           F == InState(Failed)
           P == InState({"parsed", "crashed"})
<1>1. InState(Live) = {} /\ InState({"cancelled"}) = {}
  BY DEF ShutdownInv, NoOutstandingTask, TallyInv, NobodyCancelled
<1>2. InState(Started) = (B \cup F) \cup P
  BY <1>1 DEF InState, Final, Started, Blocked, Failed
<1>3. B \cap F = {} /\ (B \cup F) \cap P = {}
  BY DEF InState, Blocked, Failed
<1>4. /\ IsFiniteSet(B) /\ IsFiniteSet(F) /\ IsFiniteSet(P) /\ IsFiniteSet(B \cup F)
      /\ Cardinality(B) \in Nat /\ Cardinality(F) \in Nat /\ Cardinality(P) \in Nat
      /\ Cardinality(B \cup F) \in Nat
  <2>1. B \in SUBSET Item /\ F \in SUBSET Item /\ P \in SUBSET Item /\ B \cup F \in SUBSET Item
    BY DEF InState
  <2> QED
    BY <2>1, ItemSetsFinite
<1> HIDE DEF B, F, P
<1>5. Cardinality(B \cup F) = Cardinality(B) + Cardinality(F)
  <2>1. Cardinality(B \cup F) = Cardinality(B) + Cardinality(F) - Cardinality(B \cap F)
    BY <1>4, FS_Union, Zenon
  <2> QED
    BY <1>3, <1>4, <2>1, FS_EmptySet
<1>6. Cardinality((B \cup F) \cup P) = Cardinality(B) + Cardinality(F) + Cardinality(P)
  <2>1. Cardinality((B \cup F) \cup P) = Cardinality(B \cup F) + Cardinality(P) - Cardinality((B \cup F) \cap P)
    BY <1>4, FS_Union, Zenon
  <2> QED
    BY <1>3, <1>4, <1>5, <2>1, FS_EmptySet
<1>7. stats.skipped_duplicate \in Nat
  BY DEF TypeInv, TypeOK, RunStats
<1>8. /\ stats.discovered = stats.skipped_duplicate + Cardinality((B \cup F) \cup P)
      /\ stats.blocked = Cardinality(B) /\ stats.fetch_failed = Cardinality(F)
      /\ stats.parsed_records = Len(records)
  BY <1>2 DEF B, F, P, TallyInv, Tally
<1>9. \A i \in InState({"crashed"}) : i \notin gathered
  BY DEF TallyInv, CrashedLeftOut
<1>10. stats.discovered = stats.skipped_duplicate + stats.blocked + stats.fetch_failed + Cardinality(P)
  BY <1>4, <1>6, <1>7, <1>8
<1> QED
  BY <1>8, <1>9, <1>10 DEF P

\* What a returned run reports adds up: each discovered item is a duplicate, blocked,
\* failed, parsed or crashed before gather could see it (workers.py:50-79, RunStats).
THEOREM AccountsForEveryItem == Spec => []EveryItemAccounted
<1>1. Init => TallyInv
  <2> SUFFICES ASSUME Init PROVE TallyInv
    OBVIOUS
  <2>1. /\ InState(Started) = {} /\ InState(Blocked) = {}
        /\ InState(Failed) = {} /\ InState({"cancelled"}) = {}
        /\ InState({"crashed"}) = {}
    BY DEF Init, InState, Live, Running, Final, Started, Blocked, Failed
  <2>2. pc = "discovering" /\ cancelReq = {} /\ Len(records) = 0 /\ stats = ZeroStats
    BY DEF Init
  <2> QED
    BY <2>1, <2>2, FS_EmptySet DEF ZeroStats, TallyInv, Tally, NobodyCancelled, CrashedLeftOut
<1> QED
  BY <1>1, TypeInvAlways, ShutdownInvAlways, TallyStep, TallyAtTheEnd, PTL DEF Spec

-----------------------------------------------------------------------------
\* That run_adapter keeps its promise.  The state its caller can see, and what makes
\* every step of a task a step or a stutter of AdapterRun: a record comes from a parsed
\* task, whose item was found and keeps its place in `found`.
Outcome   == IF pc \in Ended THEN pc ELSE "running"
Collected == {found[i] : i \in InState({"parsed"})}
Result    == [k \in DOMAIN records |-> found[records[k]]]

RecordsInv == \A k \in DOMAIN records : task[records[k]] = "parsed"

\* Only a parse that succeeds adds to what was collected.
LEMMA OnlyParseCollects ==
  ASSUME TypeInv, RecordsInv, [Next]_vars,
         \A i \in Item, n \in 0 .. MaxParsed : ~ParseOk(i, n)
  PROVE  /\ InState({"parsed"})' = InState({"parsed"}) /\ records' = records
         /\ Collected' = Collected /\ Result' = Result
         /\ Outcome' = Outcome \/ (Outcome = "running" /\ Outcome' \in Ended)
<1>1. /\ TypeOK /\ records \in Seq(Item)
      /\ \A i \in Item : task[i] # "none" => i \in Nat \ {0} /\ i <= Len(found)
  BY BoundsAssumption DEF TypeInv, TypeOK, Counted, Item
<1>2. /\ InState({"parsed"})' = InState({"parsed"}) /\ records' = records
      /\ \A i \in Item : task[i] # "none" => found'[i] = found[i]
      /\ Outcome' = Outcome \/ (Outcome = "running" /\ Outcome' \in Ended)
  <2>1. ASSUME NEW u \in Urls, DiscoverDuplicate(u) PROVE <1>2!:
    BY <1>1, <2>1, AppendKeeps DEF DiscoverDuplicate, InState, Outcome
  <2>2. ASSUME NEW u \in Urls, DiscoverNew(u) PROVE <1>2!:
    <3> DEFINE n == stats.discovered + 1
    <3>1. /\ pc = "discovering" /\ Len(found) < MaxDiscovered /\ found' = Append(found, u)
          /\ task' = [task EXCEPT ![n] = "queued"] /\ records' = records
          /\ pc' \in {pc, "gathering", "returned"}
      BY <2>2 DEF DiscoverNew, LeaveLoop
    <3>2. n \in Item /\ task[n] = "none"
      BY <1>1, <3>1, BoundsAssumption DEF Item, TypeInv, TypeOK, Counted
    <3> HIDE DEF n
    <3>3. InState({"parsed"})' = InState({"parsed"})
      BY <1>1, <3>1, <3>2 DEF InState, TypeOK
    <3>4. Outcome' = Outcome \/ (Outcome = "running" /\ Outcome' \in Ended)
      BY <3>1 DEF Outcome, Ended
    <3> QED
      BY <1>1, <3>1, <3>3, <3>4, AppendKeeps
  <2>3. CASE \/ DiscoveryEnds \/ DiscoveryRaises \/ GatherReturns \/ GatherRaises
             \/ CancelRun \/ CancelLosesToFailure \/ DrainEnds
    BY <2>3 DEF DiscoveryEnds, DiscoveryRaises, GatherReturns, GatherRaises, CancelRun,
                CancelLosesToFailure, DrainEnds, LeaveLoop, InState, Outcome, Ended
  <2>4. ASSUME NEW i \in Item, TaskStep(i) PROVE <1>2!:
    <3>1. CASE \/ Acquire(i) \/ FetchOk(i) \/ FetchBlocked(i) \/ FetchFails(i)
               \/ ParseFails(i) \/ Crash(i) \/ TaskCancelled(i)
      <4>1. /\ pc' = pc /\ found' = found /\ records' = records
            /\ \E s \in (Live \cup Final) \ {"parsed"} :
                  task[i] \in Live /\ task' = [task EXCEPT ![i] = s]
        BY <3>1 DEF Acquire, FetchOk, FetchBlocked, FetchFails, ParseFails, Crash, TaskCancelled,
                    TaskEnds, Moves, Live, Running, Final
      <4>2. "parsed" \notin Live
        BY DEF Live, Running
      <4>3. InState({"parsed"})' = InState({"parsed"})
        BY <1>1, <4>1, <4>2 DEF InState, TypeOK
      <4> QED
        BY <4>1, <4>3 DEF Outcome
    <3>2. CASE Discard(i)
      BY <3>2 DEF Discard, InState, Outcome
    <3> QED
      BY <2>4, <3>1, <3>2 DEF TaskStep
  <2>5. CASE UNCHANGED vars
    BY <2>5 DEF vars, InState, Outcome
  <2> QED
    BY <2>1, <2>2, <2>3, <2>4, <2>5 DEF Next, MainStep
<1>3. \A i \in InState({"parsed"}) : found'[i] = found[i]
  BY <1>2 DEF InState
<1>4. Collected' = Collected
  BY <1>2, <1>3 DEF Collected
<1>5. \A k \in DOMAIN records : found'[records[k]] = found[records[k]]
  BY <1>1, <1>2 DEF RecordsInv
<1>6. Result' = Result
  BY <1>2, <1>5 DEF Result
<1> QED
  BY <1>2, <1>4, <1>6

\* While a task is parsing, the pages collected are fewer than the tasks created.
LEMMA RoomForOneMore ==
  ASSUME TypeInv, CapInv, NEW i \in Item, task[i] = "parsing"
  PROVE  Cardinality(Collected) < MaxItems
<1> DEFINE P == InState({"parsed"})
           f == [j \in P |-> found[j]]
<1>1. P \in SUBSET Item /\ Created \in SUBSET Item
  BY DEF InState, Created
<1>2. /\ IsFiniteSet(P) /\ Cardinality(P) \in Nat
      /\ IsFiniteSet(Created) /\ Cardinality(Created) \in Nat
      /\ Cardinality(Created) <= MaxItems /\ MaxItems \in Nat
  BY <1>1, ItemSetsFinite, BoundsAssumption DEF CapInv, TasksWithinCap
<1>3. P \in SUBSET (Created \ {i})
  BY DEF InState, Created
<1>4. /\ IsFiniteSet(Created \ {i})
      /\ Cardinality(Created \ {i}) = Cardinality(Created) - 1
  <2>1. i \in Created
    BY DEF Created
  <2> QED
    BY <1>2, <2>1, FS_RemoveElement
<1>5. Cardinality(P) <= Cardinality(Created \ {i})
  BY <1>3, <1>4, FS_Subset
<1>6. f \in Surjection(P, Collected)
  BY DEF Surjection, Collected
<1>7. IsFiniteSet(Collected) /\ Cardinality(Collected) <= Cardinality(P)
  <2> HIDE DEF f, P
  <2> QED
    BY <1>2, <1>6, FS_Surjection
<1>8. Cardinality(Collected) \in Nat
  BY <1>7, FS_CardinalityType
<1> HIDE DEF P
<1> QED
  BY <1>2, <1>4, <1>5, <1>7, <1>8

\* The concatenation of two sequences, element by element.
LEMMA Joined ==
  ASSUME NEW S, NEW a \in Seq(S), NEW b \in Seq(S)
  PROVE  /\ Len(a) \in Nat /\ Len(b) \in Nat
         /\ a \o b \in Seq(S) /\ Len(a \o b) = Len(a) + Len(b)
         /\ \A k \in 1 .. Len(a) : (a \o b)[k] = a[k]
         /\ \A k \in 1 .. Len(a) + Len(b) :
              k > Len(a) => k - Len(a) \in 1 .. Len(b) /\ (a \o b)[k] = b[k - Len(a)]
OBVIOUS

\* A parse that succeeds is one page collected, with all its records.
LEMMA ParseCollects ==
  ASSUME TypeInv, RecordsInv, DedupInv, CapInv, ShutdownInv,
         NEW i \in Item, NEW n \in 0 .. MaxParsed, ParseOk(i, n)
  PROVE  /\ RecordsInv'
         /\ Outcome \in {"running", "raised"} /\ Outcome' = Outcome
         /\ found[i] \in Urls /\ found[i] \notin Collected
         /\ Cardinality(Collected) < MaxItems
         /\ Collected' = Collected \cup {found[i]}
         /\ Result' = Result \o [k \in 1 .. n |-> found[i]]
<1> DEFINE page == [k \in 1 .. n |-> i]
<1>1. /\ task[i] = "parsing" /\ task' = [task EXCEPT ![i] = "parsed"]
      /\ records' = records \o page /\ pc' = pc /\ found' = found
  BY DEF ParseOk, Moves, TaskEnds
<1>2. /\ TypeOK /\ records \in Seq(Item) /\ n \in Nat
      /\ i \in Nat \ {0} /\ i <= Len(found) /\ found \in Seq(Urls)
  BY <1>1, BoundsAssumption DEF TypeInv, TypeOK, Counted, Item
<1>3. page \in Seq(Item) /\ Len(page) = n /\ \A k \in 1 .. n : page[k] = i
  BY <1>2
<1>4. Outcome \in {"running", "raised"} /\ Outcome' = Outcome
  <2>1. pc \notin {"returned", "cancelled"}
    BY <1>1 DEF ShutdownInv, NoOutstandingTask, InState, Live, Running
  <2> QED
    BY <1>1, <2>1 DEF Outcome, Ended
<1>5. InState({"parsed"})' = InState({"parsed"}) \cup {i}
  BY <1>1, <1>2 DEF InState, TypeOK
<1>6. found[i] \in Urls /\ found[i] \notin Collected
  <2>1. \A j \in InState({"parsed"}) : found[j] # found[i]
    BY <1>1 DEF DedupInv, FetchOncePerUrl, InState
  <2> QED
    BY <1>2, <2>1 DEF Collected
<1>7. Collected' = Collected \cup {found[i]}
  BY <1>1, <1>5 DEF Collected
<1> HIDE DEF page
<1>8. /\ Len(records') = Len(records) + n /\ Len(records) \in Nat
      /\ records' \in Seq(Item)
      /\ \A k \in 1 .. Len(records) : records'[k] = records[k]
      /\ \A k \in 1 .. Len(records) + n : k > Len(records) => records'[k] = i
  <2>1. /\ Len(records) \in Nat
        /\ records \o page \in Seq(Item) /\ Len(records \o page) = Len(records) + Len(page)
        /\ \A k \in 1 .. Len(records) : (records \o page)[k] = records[k]
        /\ \A k \in 1 .. Len(records) + Len(page) :
             k > Len(records) => /\ k - Len(records) \in 1 .. Len(page)
                                 /\ (records \o page)[k] = page[k - Len(records)]
    <3>1. records \in Seq(Item) /\ page \in Seq(Item)
      BY <1>2, <1>3
    <3> QED
      BY <3>1, Joined
  <2> QED
    BY <1>1, <1>3, <2>1
<1>9. /\ DOMAIN records = 1 .. Len(records) /\ DOMAIN records' = 1 .. Len(records) + n
  BY <1>2, <1>8
<1>10. RecordsInv'
  BY <1>1, <1>2, <1>8, <1>9 DEF RecordsInv, TypeOK
<1>11. Result' = Result \o [k \in 1 .. n |-> found[i]]
  <2> DEFINE more == [k \in 1 .. n |-> found[i]]
             old  == [k \in 1 .. Len(records) |-> found[records[k]]]
             both == [k \in 1 .. Len(records) + n |-> found[records'[k]]]
  <2>1. \A k \in 1 .. Len(records) : found[records[k]] \in Urls
    <3>1. \A k \in 1 .. Len(records) : records[k] \in Item /\ task[records[k]] # "none"
      BY <1>2, <1>9 DEF RecordsInv
    <3>2. \A j \in Item : task[j] # "none" => found[j] \in Urls
      BY <1>2, BoundsAssumption DEF TypeInv, Counted, Item
    <3> QED
      BY <3>1, <3>2
  <2>2. /\ old \in Seq(Urls) /\ Len(old) = Len(records)
        /\ more \in Seq(Urls) /\ Len(more) = n
    BY <1>2, <1>6, <1>8, <2>1
  <2>3. /\ old \o more \in Seq(Urls) /\ Len(old \o more) = Len(records) + n
        /\ \A k \in 1 .. Len(records) : (old \o more)[k] = old[k]
        /\ \A k \in 1 .. Len(records) + n :
             k > Len(records) => (old \o more)[k] = more[k - Len(records)]
    <3> HIDE DEF old, more
    <3>1. /\ old \o more \in Seq(Urls) /\ Len(old \o more) = Len(old) + Len(more)
          /\ \A k \in 1 .. Len(old) : (old \o more)[k] = old[k]
          /\ \A k \in 1 .. Len(old) + Len(more) :
               k > Len(old) => /\ k - Len(old) \in 1 .. Len(more)
                               /\ (old \o more)[k] = more[k - Len(old)]
      BY <2>2, Joined
    <3> QED
      BY <2>2, <3>1
  <2>4. \A k \in 1 .. Len(records) + n : (old \o more)[k] = both[k]
    <3> SUFFICES ASSUME NEW k \in 1 .. Len(records) + n PROVE (old \o more)[k] = both[k]
      OBVIOUS
    <3>1. CASE k <= Len(records)
      <4>1. k \in 1 .. Len(records)
        BY <1>8, <3>1
      <4>2. old[k] = found[records[k]] /\ both[k] = found[records'[k]]
        BY <4>1
      <4> HIDE DEF old, more, both
      <4> QED
        BY <1>8, <2>3, <3>1, <4>1, <4>2
    <3>2. CASE ~(k <= Len(records))
      <4>1. k - Len(records) \in 1 .. n /\ k > Len(records)
        BY <1>2, <1>8, <3>2
      <4>2. more[k - Len(records)] = found[i] /\ both[k] = found[records'[k]]
        BY <4>1
      <4> HIDE DEF old, more, both
      <4> QED
        BY <1>8, <2>3, <3>2, <4>1, <4>2
    <3> QED
      BY <3>1, <3>2
  <2>5. /\ Result = old /\ Result' = both
    BY <1>1, <1>9 DEF Result
  <2>6. both \in Seq(Urls) /\ Len(both) = Len(records) + n
    <3>1. \A k \in 1 .. Len(records) + n : found[records'[k]] \in Urls
      BY <1>2, <1>6, <1>8, <2>1
    <3> QED
      BY <1>2, <1>8, <3>1
  <2>7. both = old \o more
    <3> HIDE DEF old, more, both
    <3> QED
      BY <2>3, <2>4, <2>6, SeqEqual
  <2> QED
    BY <2>5, <2>7
<1> QED
  BY <1>1, <1>4, <1>6, <1>7, <1>10, <1>11, RoomForOneMore

LEMMA RecordsInvAlways == Spec => []RecordsInv
<1>1. Init => RecordsInv
  BY DEF Init, RecordsInv
<1>2. TypeInv /\ DedupInv /\ CapInv /\ ShutdownInv /\ RecordsInv /\ [Next]_vars => RecordsInv'
  <2> SUFFICES ASSUME TypeInv, DedupInv, CapInv, ShutdownInv, RecordsInv, [Next]_vars
               PROVE  RecordsInv'
    OBVIOUS
  <2>1. ASSUME NEW i \in Item, NEW n \in 0 .. MaxParsed, ParseOk(i, n) PROVE RecordsInv'
    BY <2>1, ParseCollects
  <2>2. ASSUME \A i \in Item, n \in 0 .. MaxParsed : ~ParseOk(i, n) PROVE RecordsInv'
    <3>1. InState({"parsed"})' = InState({"parsed"}) /\ records' = records
      BY <2>2, OnlyParseCollects
    <3>2. records \in Seq(Item)
      BY DEF TypeInv, TypeOK
    <3> QED
      BY <3>1, <3>2 DEF RecordsInv, InState
  <2> QED
    BY <2>1, <2>2
<1> QED
  BY <1>1, <1>2, TypeInvAlways, DedupInvAlways, CapInvAlways, ShutdownInvAlways, PTL DEF Spec

\* run_adapter implements what AdapterRun promises, but for the fairness of the promise,
\* which is left to the run: the initial state is the promised one, and each step collects
\* one new page with all its records, ends the run, or changes nothing its caller sees.
THEOREM KeepsItsPromise == Spec => Promise!Init /\ [][Promise!Next]_(Promise!vars)
<1>1. Init => Promise!Init
  <2> SUFFICES ASSUME Init PROVE Promise!Init
    OBVIOUS
  <2>1. /\ InState({"parsed"}) = {} /\ DOMAIN records = {} /\ pc = "discovering"
    BY DEF Init, InState
  <2>2. [k \in DOMAIN records |-> found[records[k]]] = <<>>
    BY <2>1
  <2> QED
    BY <2>1, <2>2 DEF Promise!Init, Ended
<1>2. TypeInv /\ DedupInv /\ CapInv /\ ShutdownInv /\ RecordsInv /\ [Next]_vars
        => [Promise!Next]_(Promise!vars)
  <2> SUFFICES ASSUME TypeInv, DedupInv, CapInv, ShutdownInv, RecordsInv, [Next]_vars
               PROVE  [Promise!Next]_(Promise!vars)
    OBVIOUS
  <2>1. ASSUME NEW i \in Item, NEW n \in 0 .. MaxParsed, ParseOk(i, n)
        PROVE  Promise!Collect(found[i], n) /\ found[i] \in Urls
    <3>1. Promise!Cardinality(Collected) = Cardinality(Collected)
      BY DEF Promise!Cardinality, Cardinality
    <3> QED
      BY <2>1, <3>1, ParseCollects DEF Promise!Collect, Outcome, Collected, Result
  <2>2. ASSUME \A i \in Item, n \in 0 .. MaxParsed : ~ParseOk(i, n)
        PROVE  Promise!End \/ UNCHANGED Promise!vars
    <3>1. /\ Collected' = Collected /\ Result' = Result
          /\ Outcome' = Outcome \/ (Outcome = "running" /\ Outcome' \in Ended)
      BY <2>2, OnlyParseCollects
    <3> QED
      BY <3>1 DEF Promise!End, Promise!vars, Outcome, Collected, Result, Ended
  <2> QED
    BY <2>1, <2>2 DEF Promise!Next
<1> QED
  BY <1>1, <1>2, TypeInvAlways, DedupInvAlways, CapInvAlways, ShutdownInvAlways,
     RecordsInvAlways, PTL DEF Spec

-----------------------------------------------------------------------------
\* Nobody waits for ever.  What main awaits are tasks, and when it drains them each has
\* been cancelled.
AwaitedInv ==
  /\ gathered \subseteq Created
  /\ tasks \subseteq Created
  /\ pc = "draining" => InState(Live) \subseteq cancelReq

LEMMA AwaitedStep == TypeInv /\ ShutdownInv /\ AwaitedInv /\ [Next]_vars => AwaitedInv'
<1> SUFFICES ASSUME TypeInv, ShutdownInv, AwaitedInv, [Next]_vars PROVE AwaitedInv'
  OBVIOUS
<1>1. ASSUME NEW u \in Urls, DiscoverNew(u) PROVE AwaitedInv'
  <2> DEFINE n == stats.discovered + 1
  <2>1. /\ tasks' = tasks \cup {n} /\ task' = [task EXCEPT ![n] = "queued"]
        /\ gathered' = gathered \/ gathered' = tasks'
        /\ pc' # "draining"
    BY <1>1 DEF DiscoverNew, LeaveLoop
  <2>2. n \in Item
    BY <1>1, BoundsAssumption DEF DiscoverNew, TypeInv, TypeOK, Counted, Item
  <2> HIDE DEF n
  <2>3. Created' = Created \cup {n}
    BY <2>1, <2>2 DEF Created, TypeInv, TypeOK
  <2> QED
    BY <2>1, <2>3 DEF AwaitedInv
<1>2. ASSUME \A u \in Urls : ~DiscoverNew(u) PROVE AwaitedInv'
  <2>1. Created' = Created /\ InState(Live)' \subseteq InState(Live)
    BY <1>2, OnlyDiscoveryCreates DEF Created, InState
  <2>2. CASE DiscoveryEnds
    BY <2>1, <2>2 DEF DiscoveryEnds, LeaveLoop, AwaitedInv
  <2>3. CASE CancelRun
    <3>1. InState(Live) \subseteq tasks
      BY DEF ShutdownInv
    <3> QED
      BY <2>1, <2>3, <3>1 DEF CancelRun, AwaitedInv, InState
  <2>4. CASE \/ DiscoveryRaises \/ GatherReturns \/ GatherRaises
             \/ CancelLosesToFailure \/ DrainEnds
    BY <2>1, <2>4 DEF DiscoveryRaises, GatherReturns, GatherRaises, CancelLosesToFailure,
                      DrainEnds, AwaitedInv
  <2>5. CASE (\E u \in Urls : DiscoverDuplicate(u)) \/ UNCHANGED vars
    BY <2>1, <2>5 DEF DiscoverDuplicate, vars, AwaitedInv
  <2>6. ASSUME NEW i \in Item, TaskStep(i) PROVE AwaitedInv'
    <3>1. CASE Discard(i)
      BY <2>1, <3>1 DEF Discard, AwaitedInv
    <3>2. CASE ~Discard(i)
      <4>1. pc' = pc /\ gathered' = gathered /\ cancelReq' = cancelReq
        BY <2>6, <3>2, TaskMoves DEF TypeInv
      <4>2. tasks' = tasks
        BY <2>6, <3>2 DEF TaskStep, Acquire, FetchOk, FetchBlocked, FetchFails, ParseFails,
                          ParseOk, Crash, TaskCancelled, TaskEnds
      <4> QED
        BY <2>1, <4>1, <4>2 DEF AwaitedInv
    <3> QED
      BY <3>1, <3>2
  <2> QED
    BY <1>2, <2>2, <2>3, <2>4, <2>5, <2>6 DEF Next, MainStep
<1> QED
  BY <1>1, <1>2

LEMMA AwaitedInvAlways == Spec => []AwaitedInv
<1>1. Init => AwaitedInv
  BY DEF Init, AwaitedInv
<1> QED
  BY <1>1, TypeInvAlways, ShutdownInvAlways, AwaitedStep, PTL DEF Spec

\* Somebody can move.  While a task is alive, one runs, or one that waits has been cancelled,
\* or the first that waits finds a free slot; and while main awaits something that is not
\* done, it awaits a task that is alive -- one that has been cancelled, when it drains.
SomebodyMoves ==
  /\ InState(Live) # {} =>
       \/ InState(Running) # {}
       \/ InState({"queued"}) \cap cancelReq # {}
       \/ free > 0 /\ \E i \in Item : /\ Moves(i, "queued")
                                      /\ \A j \in Item : j < i => task[j] # "queued"
  /\ pc = "gathering" => GatherDone \/ gathered \cap InState(Live) # {}
  /\ pc = "draining"  => DrainDone \/ tasks \cap InState(Live) \cap cancelReq # {}

\* A set of items has a first one.
LEMMA FirstItem ==
  ASSUME NEW S \in SUBSET Item, S # {}
  PROVE  \E i \in S : \A j \in S : i <= j
<1> DEFINE R == OpToRel(<, Nat)
<1>1. IsWellFoundedOn(R, Nat)
  BY NatLessThanWellFounded
<1>2. \A a, b \in Nat : <<a, b>> \in R <=> a < b
  BY DEF OpToRel
<1> HIDE DEF R
<1>3. S \in SUBSET Nat
  BY BoundsAssumption DEF Item
<1>4. PICK i \in S : \A j \in S : <<j, i>> \notin R
  BY <1>1, <1>3, WFMin
<1>5. \A j \in S : ~(j < i) /\ i \in Nat /\ j \in Nat
  BY <1>2, <1>3, <1>4
<1> QED
  BY <1>4, <1>5

LEMMA SomebodyCanMove == TypeInv /\ ShutdownInv /\ AwaitedInv => SomebodyMoves
<1> SUFFICES ASSUME TypeInv, ShutdownInv, AwaitedInv PROVE SomebodyMoves
  OBVIOUS
<1>1. ASSUME InState(Live) # {}, InState(Running) = {}, InState({"queued"}) \cap cancelReq = {}
      PROVE  free > 0 /\ \E i \in Item : /\ Moves(i, "queued")
                                         /\ \A j \in Item : j < i => task[j] # "queued"
  <2>1. free > 0
    <3>1. Cardinality(InState(Running)) = 0
      BY <1>1, FS_EmptySet
    <3> QED
      BY <3>1, ConcurrencyAssumption DEF TypeInv, TypeOK, SlotsConserved
  <2>2. InState({"queued"}) # {} /\ InState({"queued"}) \in SUBSET Item
    BY <1>1 DEF InState, Live
  <2>3. PICK i \in InState({"queued"}) : \A j \in InState({"queued"}) : i <= j
    BY <2>2, FirstItem
  <2>4. i \in Item /\ Moves(i, "queued")
    BY <1>1, <2>3 DEF InState, Moves
  <2>5. \A j \in Item : j < i => task[j] # "queued"
    <3> SUFFICES ASSUME NEW j \in Item, j < i, task[j] = "queued" PROVE FALSE
      OBVIOUS
    <3>1. i <= j /\ i \in Nat /\ j \in Nat
      BY <2>3, <2>4, BoundsAssumption DEF InState, Item
    <3> QED
      BY <3>1
  <2> QED
    BY <2>1, <2>4, <2>5
<1>2. \A i \in Created : task[i] \in Live \cup Final
  BY DEF TypeInv, TypeOK, Created
<1>3. pc = "gathering" => GatherDone \/ gathered \cap InState(Live) # {}
  BY <1>2 DEF AwaitedInv, GatherDone, InState, Created
<1>4. pc = "draining" => DrainDone \/ tasks \cap InState(Live) \cap cancelReq # {}
  BY <1>2 DEF AwaitedInv, DrainDone, InState, Created
<1> QED
  BY <1>1, <1>3, <1>4 DEF SomebodyMoves

\* The pool is never stuck: neither its tasks wait for a slot that nobody holds, nor main
\* for a task that cannot move or, when it drains, was never cancelled (workers.py:44-106).
THEOREM NobodyIsForgotten == Spec => []SomebodyMoves
BY SomebodyCanMove, TypeInvAlways, ShutdownInvAlways, AwaitedInvAlways, PTL

-----------------------------------------------------------------------------
\* What main and each task still have to do.
MainLeft ==
  (MaxDiscovered - Len(found)) +
  (CASE pc = "discovering" -> 3 [] pc = "gathering" -> 2 [] pc = "draining" -> 1 [] OTHER -> 0)

TaskLeft ==
  [i \in Item |->
     CASE task[i] = "none" -> 5 [] task[i] = "queued" -> 4 [] task[i] = "fetching" -> 3
       [] task[i] = "parsing" -> 2 [] OTHER -> IF i \in tasks THEN 1 ELSE 0]

Measured == MainLeft \in Nat /\ TaskLeft \in [Item -> Nat]

TasksStay == \A i \in Item : TaskLeft'[i] <= TaskLeft[i]

Nearer ==
  /\ MainLeft' <= MainLeft /\ TasksStay
  /\ MainLeft' < MainLeft \/ \E i \in Item : TaskLeft'[i] < TaskLeft[i]

LEMMA MeasuredAlways == TypeInv => Measured
<1> SUFFICES ASSUME TypeInv PROVE Measured
  OBVIOUS
<1>1. MaxDiscovered - Len(found) \in Nat
  BY BoundsAssumption DEF TypeInv, TypeOK
<1> QED
  BY <1>1 DEF Measured, MainLeft, TaskLeft

\* A step that changes neither the tasks nor the set of them.
LEMMA SameTasks ==
  ASSUME TypeInv, UNCHANGED <<task, tasks>>
  PROVE  TasksStay
<1>1. TaskLeft' = TaskLeft /\ \A i \in Item : TaskLeft[i] \in Nat
  BY DEF TaskLeft
<1> QED
  BY <1>1 DEF TasksStay

\* A step of one task.
LEMMA OneTaskLess ==
  ASSUME TypeInv, NEW i \in Item,
         \A j \in Item : j # i => task'[j] = task[j] /\ (j \in tasks' <=> j \in tasks),
         TaskLeft'[i] < TaskLeft[i], UNCHANGED <<pc, found>>
  PROVE  Nearer
<1>1. \A j \in Item : j # i => TaskLeft'[j] = TaskLeft[j]
  BY DEF TaskLeft
<1>2. \A j \in Item : TaskLeft[j] \in Nat /\ TaskLeft'[j] \in Nat
  BY DEF TaskLeft
<1>3. TasksStay
  BY <1>1, <1>2 DEF TasksStay
<1>4. MainLeft' = MainLeft /\ MainLeft \in Nat
  <2>1. MainLeft \in Nat
    BY MeasuredAlways DEF Measured
  <2> QED
    BY <2>1 DEF MainLeft
<1> QED
  BY <1>3, <1>4 DEF Nearer

LEMMA NearerStep == TypeInv /\ [Next]_vars => Nearer \/ UNCHANGED vars
<1> SUFFICES ASSUME TypeInv, Next PROVE Nearer
  OBVIOUS
<1>1. MainLeft \in Nat /\ Len(found) \in Nat /\ MaxDiscovered \in Nat /\ Len(found) <= MaxDiscovered
  BY MeasuredAlways, BoundsAssumption DEF Measured, TypeInv, TypeOK
<1>2. \A u : Len(Append(found, u)) = Len(found) + 1
  BY DEF TypeInv, TypeOK
<1>3. ASSUME NEW u \in Urls, DiscoverNew(u) PROVE Nearer
  <2> DEFINE n == stats.discovered + 1
  <2>1. /\ pc = "discovering" /\ Len(found') = Len(found) + 1 /\ Len(found) < MaxDiscovered
        /\ pc' \in {"discovering", "gathering", "returned"}
        /\ tasks' = tasks \cup {n} /\ task' = [task EXCEPT ![n] = "queued"]
    BY <1>2, <1>3 DEF DiscoverNew, LeaveLoop
  <2>2. MainLeft' < MainLeft
    BY <1>1, <2>1 DEF MainLeft
  <2>3. n \in Item /\ task[n] = "none"
    <3>1. n = Len(found) + 1
      BY DEF TypeInv, Counted
    <3>2. n \in Item /\ ~(n <= Len(found))
      BY <1>1, <2>1, <3>1 DEF Item
    <3> QED
      BY <3>2 DEF TypeInv, Counted
  <2> HIDE DEF n
  <2>4. TaskLeft'[n] = 4 /\ TaskLeft[n] = 5
    BY <2>1, <2>3 DEF TaskLeft, TypeInv, TypeOK
  <2>5. \A i \in Item : i # n => TaskLeft'[i] = TaskLeft[i]
    BY <2>1, <2>3 DEF TaskLeft, TypeInv, TypeOK
  <2>6. \A i \in Item : TaskLeft[i] \in Nat
    BY MeasuredAlways DEF Measured
  <2>7. TasksStay
    BY <2>4, <2>5, <2>6 DEF TasksStay
  <2>8. MainLeft' \in Int
    BY <1>1, <2>1 DEF MainLeft
  <2> QED
    BY <1>1, <2>2, <2>7, <2>8 DEF Nearer
<1>4. ASSUME NEW u \in Urls, DiscoverDuplicate(u) PROVE Nearer
  <2>1. /\ Len(found') = Len(found) + 1 /\ Len(found) < MaxDiscovered
        /\ UNCHANGED <<pc, task, tasks>>
    BY <1>2, <1>4 DEF DiscoverDuplicate
  <2>2. MainLeft' < MainLeft /\ MainLeft' \in Int
    BY <1>1, <2>1 DEF MainLeft
  <2> QED
    BY <1>1, <2>1, <2>2, SameTasks DEF Nearer
<1>5. CASE \/ DiscoveryEnds \/ DiscoveryRaises \/ GatherReturns \/ GatherRaises
           \/ CancelRun \/ CancelLosesToFailure \/ DrainEnds
  <2>1. /\ UNCHANGED <<found, task, tasks>>
        /\ \/ pc = "discovering" /\ pc' \in {"gathering", "draining"} \cup Ended
           \/ pc = "gathering" /\ pc' \in {"draining"} \cup Ended
           \/ pc = "draining" /\ pc' \in Ended
    BY <1>5 DEF DiscoveryEnds, LeaveLoop, DiscoveryRaises, GatherReturns, GatherRaises,
                CancelRun, CancelLosesToFailure, DrainEnds, Ended
  <2>2. MainLeft' < MainLeft /\ MainLeft' \in Int
    BY <1>1, <2>1 DEF MainLeft, Ended
  <2> QED
    BY <1>1, <2>1, <2>2, SameTasks DEF Nearer
<1>6. ASSUME NEW i \in Item, TaskStep(i) PROVE Nearer
  <2>1. CASE Discard(i)
    BY <2>1, OneTaskLess DEF Discard, TaskLeft, Final
  <2>2. CASE Acquire(i) \/ FetchOk(i)
    BY <2>2, OneTaskLess DEF Acquire, FetchOk, Moves, TaskLeft, TypeInv, TypeOK
  <2>3. CASE \/ FetchBlocked(i) \/ FetchFails(i) \/ ParseFails(i)
             \/ (\E n \in 0 .. MaxParsed : ParseOk(i, n)) \/ Crash(i) \/ TaskCancelled(i)
    <3>1. /\ task[i] \in Live
          /\ \E how \in Final : TaskEnds(i, how)
      BY <2>3 DEF FetchBlocked, FetchFails, ParseFails, ParseOk, Crash, TaskCancelled, Moves,
                  Live, Running, Final
    <3>2. PICK how \in Final : TaskEnds(i, how)
      BY <3>1
    <3>3. task' = [task EXCEPT ![i] = how] /\ UNCHANGED <<pc, found, tasks>>
      BY <3>2 DEF TaskEnds
    <3>4. TaskLeft'[i] \in {0, 1} /\ TaskLeft[i] \in {4, 3, 2}
      BY <3>1, <3>3 DEF TaskLeft, TypeInv, TypeOK, Live, Running, Final
    <3> QED
      BY <3>3, <3>4, OneTaskLess DEF TypeInv, TypeOK
  <2> QED
    BY <1>6, <2>1, <2>2, <2>3 DEF TaskStep
<1> QED
  BY <1>3, <1>4, <1>5, <1>6 DEF Next, MainStep

\* A run takes finitely many steps: each brings main or one of its tasks nearer to its end,
\* and takes none of the others back, whatever is listed, fails or is cancelled.
THEOREM EveryStepIsNearer == Spec => []Measured /\ [][Nearer]_vars
<1>1. TypeInv /\ [Next]_vars => [Nearer]_vars
  BY NearerStep
<1> QED
  BY <1>1, MeasuredAlways, TypeInvAlways, PTL DEF Spec
=============================================================================
