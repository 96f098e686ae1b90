------------------------- MODULE RecordLoop_proofs -------------------------
(***************************************************************************)
(* What the record loops guarantee for any number of runs and any lists:   *)
(* every record is counted once, none is lost, every row names the         *)
(* document it was read from, and no run reports more than it stored.      *)
(***************************************************************************)
EXTENDS RecordLoop, FiniteSetTheorems, TLAPS

Busy == PC \ {"next", "done", "aborted", "crashed"}

\* A run in the middle of a record is at one of its list; while it stores the
\* document there is one, and when it records an error it has a category.
PlaceOf(r) ==
  /\ pc[r] \in Busy => at[r] <= Len(batch[r])
  /\ pc[r] = "done" => at[r] = Len(batch[r]) + 1
  /\ pc[r] \in {"finding", "inserting", "fetching"} => Hash[Current(r)] # None
  /\ pc[r] = "recording" => category[r] \in Categories
  /\ pc[r] = "enriching" => Names(r) /\ ~limited[r]

InPlace == \A r \in Runs : PlaceOf(r)

TypeInv == TypeOK /\ InPlace

-----------------------------------------------------------------------------
\* The five loops have the fields the steps use.
LEMMA LoopsType ==
  /\ DOMAIN Loops = {"research", "news", "startups", "products", "jobs"}
  /\ \A t \in DOMAIN Loops :
       /\ Loops[t].before \in {"enriching", "upserting", "resolving"}
       /\ Loops[t].rawFailure = "null" => t \in {"startups", "products"}
BY DEF Loops, ResearchLoop, NewsLoop, StartupsLoop, ProductsLoop, JobsLoop

\* Counting one outcome adds one to its counter of that run.
LEMMA CountType ==
  ASSUME tally \in [Runs -> [Outcomes -> Nat]], NEW r \in Runs, NEW o \in Outcomes, Count(r, o)
  PROVE  /\ tally' \in [Runs -> [Outcomes -> Nat]]
         /\ tally'[r] = [tally[r] EXCEPT ![o] = @ + 1]
         /\ \A s \in Runs : s # r => tally'[s] = tally[s]
<1> DEFINE t == [tally[r] EXCEPT ![o] = @ + 1]
<1>1. t \in [Outcomes -> Nat]
  OBVIOUS
<1>2. tally' = [tally EXCEPT ![r] = t]
  BY DEF Count
<1> HIDE DEF t
<1>3. tally' \in [Runs -> [Outcomes -> Nat]] /\ tally'[r] = t /\ \A s \in Runs : s # r => tally'[s] = tally[s]
  BY <1>1, <1>2
<1> QED
  BY <1>3 DEF t

\* A list of records holds a record at each of its positions.
LEMMA CurrentType ==
  ASSUME TypeOK, NEW r \in Runs, at[r] <= Len(batch[r])
  PROVE  /\ Current(r) \in Records
         /\ Len(batch[r]) \in Nat
         /\ Hash[Current(r)] \in Hashes
<1>1. batch[r] \in Seq(Records)
  BY DataAssumption DEF TypeOK
<1> QED
  BY <1>1 DEF TypeOK, Current, Hashes

LEMMA NextStepType ==
  ASSUME TypeOK, NEW r \in Runs
  PROVE  /\ AfterRaw(r) \in {"resolving", "enriching", "upserting"}
         /\ AfterRaw(r) = "enriching" => Names(r) /\ ~limited[r]
BY LoopsType DEF AfterRaw, Loop, TypeOK, Names

LEMMA InitType == Init => TypeInv
<1> SUFFICES ASSUME Init PROVE TypeInv
  OBVIOUS
<1>1. None \in Hashes /\ 0 \in 0 .. MaxFaults /\ "next" \in PC
  BY DataAssumption DEF Hashes, PC
<1>2. \A r \in Runs : Len(batch[r]) \in Nat
  BY DataAssumption DEF Init
<1>3. [o \in Outcomes |-> 0] \in [Outcomes -> Nat]
  OBVIOUS
<1>4. tally \in [Runs -> [Outcomes -> Nat]]
  BY <1>3 DEF Init
<1>5. at \in [Runs -> Nat] /\ \A r \in Runs : at[r] \in 1 .. Len(batch[r]) + 1
  BY <1>2 DEF Init
<1>6. /\ pc \in [Runs -> PC] /\ session \in [Runs -> {"clean", "broken"}]
      /\ rawid \in [Runs -> Hashes] /\ category \in [Runs -> Categories \cup {None}]
  BY <1>1 DEF Init
<1>7. HubOK
  BY DEF Init, HubOK, Verdicts
<1>8. TypeOK
  BY <1>1, <1>4, <1>5, <1>6, <1>7 DEF Init, TypeOK
<1> QED
  BY <1>8 DEF Init, TypeInv, InPlace, PlaceOf, Busy

-----------------------------------------------------------------------------
\* What a step of one run leaves alone in the others.
LEMMA OthersUnchanged ==
  ASSUME TypeOK, NEW r \in Runs, Step(r), NEW s \in Runs, s # r
  PROVE  /\ at'[s] = at[s] /\ pc'[s] = pc[s] /\ session'[s] = session[s] /\ rawid'[s] = rawid[s]
         /\ category'[s] = category[s] /\ tally'[s] = tally[s]
         /\ table' = table /\ batch' = batch /\ limited'[s] = limited[s]
         /\ known'[s] = known[s] /\ verdict'[s] = verdict[s] /\ asks'[s] = asks[s]
<1> USE DEF TypeOK, HubOK, Remember, hub, Goto, Continue, Reject, Count, job, HaveRaw, StatementFails
<1>1. table' = table /\ batch' = batch
  BY DEF Step, Skip, Invalid, Accept, Finish, FindRaw, InsertRaw, FetchRaw, RawFails, Resolve, EnrichCached, Enrich, EnrichLimited, EnrichFails, Ask,
         Upsert, UpsertFails, RecordError, RecordErrorFails, Crash
<1>2. CASE Skip(r) \/ Invalid(r) \/ Accept(r) \/ Finish(r)
  BY <1>1, <1>2 DEF Skip, Invalid, Accept, Finish
<1>3. CASE FindRaw(r) \/ InsertRaw(r) \/ FetchRaw(r)
  BY <1>1, <1>3 DEF FindRaw, InsertRaw, FetchRaw
<1>4. CASE RawFails(r)
  BY <1>1, <1>4 DEF RawFails
<1>5. CASE Resolve(r) \/ EnrichCached(r) \/ Enrich(r) \/ EnrichLimited(r) \/ EnrichFails(r)
  BY <1>1, <1>5 DEF Resolve, EnrichCached, Enrich, EnrichLimited, EnrichFails, Ask
<1>6. CASE Upsert(r)
  BY <1>1, <1>6 DEF Upsert
<1>7. CASE UpsertFails(r)
  BY <1>1, <1>7 DEF UpsertFails
<1>8. CASE RecordError(r) \/ RecordErrorFails(r) \/ Crash(r)
  BY <1>1, <1>8 DEF RecordError, RecordErrorFails, Crash
<1> QED
  BY <1>2, <1>3, <1>4, <1>5, <1>6, <1>7, <1>8 DEF Step
-----------------------------------------------------------------------------
\* The list of a run and its place in it, after each step.
LEMMA PlaceStep == ASSUME TypeInv, NEW r \in Runs, Step(r) PROVE InPlace'
<1> SUFFICES ASSUME NEW s \in Runs PROVE PlaceOf(s)'
  BY DEF InPlace
<1>1. TypeOK /\ PlaceOf(s)
  BY DEF TypeInv, InPlace
<1>2. CASE s # r
  BY <1>1, <1>2, OthersUnchanged DEF PlaceOf, Current, Names, Loop
<1>3. CASE s = r
  <2>1. /\ at \in [Runs -> Nat] /\ at[r] \in 1 .. Len(batch[r]) + 1 /\ Len(batch[r]) \in Nat
        /\ pc \in [Runs -> PC] /\ category \in [Runs -> Categories \cup {None}]
    <3>1. batch[r] \in Seq(Records)
      BY <1>1, DataAssumption DEF TypeOK
    <3> QED
      BY <1>1, <3>1 DEF TypeOK
  <2>2. table' = table /\ batch' = batch
    BY DEF Step, Skip, Invalid, Accept, Finish, FindRaw, InsertRaw, FetchRaw, RawFails, Resolve, EnrichCached, Enrich, EnrichLimited, EnrichFails, Ask,
           Upsert, UpsertFails, RecordError, RecordErrorFails, Crash, job
  <2>3. /\ AfterRaw(r) \in {"resolving", "enriching", "upserting"}
        /\ AfterRaw(r) = "enriching" => Names(r) /\ ~limited[r]
    BY <1>1, NextStepType
  <2>4. PlaceOf(r)
    BY <1>1, <1>3
  <2> USE <2>1, <2>2, <2>4 DEF PlaceOf, Current, Busy, PC, Names, Loop, hub
  <2>5. CASE Skip(r) \/ Upsert(r) \/ RecordError(r)
    BY <2>5, <1>3 DEF Skip, Upsert, RecordError, Continue, Goto, Count
  <2>6. CASE Invalid(r)
    BY <2>6, <1>3 DEF Invalid, Reject, Goto, Categories
  <2>7. CASE Accept(r)
    BY <2>7, <1>3, <2>3 DEF Accept, FirstStep, Goto
  <2>8. CASE Finish(r)
    BY <2>8, <1>3 DEF Finish, Goto
  <2>9. CASE FindRaw(r) \/ InsertRaw(r) \/ FetchRaw(r)
    BY <2>9, <1>3, <2>3 DEF FindRaw, InsertRaw, FetchRaw, HaveRaw, Goto
  <2>10. CASE RawFails(r)
    BY <2>10, <1>3, <2>3 DEF RawFails, Reject, Goto, Categories
  <2>11. CASE Resolve(r) \/ EnrichCached(r) \/ Enrich(r) \/ EnrichLimited(r) \/ EnrichFails(r)
    BY <2>11, <1>3 DEF Resolve, EnrichCached, Enrich, EnrichLimited, EnrichFails, Ask, Goto
  <2>12. CASE UpsertFails(r)
    BY <2>12, <1>3 DEF UpsertFails, Reject, Goto, Categories
  <2>13. CASE RecordErrorFails(r) \/ Crash(r)
    BY <2>13, <1>3 DEF RecordErrorFails, Crash, Goto
  <2> QED
    BY <2>5, <2>6, <2>7, <2>8, <2>9, <2>10, <2>11, <2>12, <2>13, <1>3 DEF Step
<1> QED
  BY <1>2, <1>3
\* A statement that fails leaves a session that is clean or broken, and the faults in
\* their bound.
LEMMA FailType ==
  ASSUME TypeOK, NEW r \in Runs, StatementFails(r)
  PROVE  /\ session' \in [Runs -> {"clean", "broken"}]
         /\ faults' \in 0 .. MaxFaults
BY DataAssumption DEF TypeOK, StatementFails, Fault

LEMMA FaultType ==
  ASSUME TypeOK, Fault PROVE faults' \in 0 .. MaxFaults
BY DataAssumption DEF TypeOK, Fault

\* The row an upsert adds.
LEMMA NewType ==
  ASSUME TypeOK, NEW r \in Runs, at[r] <= Len(batch[r])
  PROVE  New(r) \subseteq [table : DOMAIN Loops, rec : Records, raw : Hashes, run : Runs, hub : Verdicts]
BY CurrentType DEF TypeOK, HubOK, New, Row

\* What a run knows of GitHub keeps its types.
LEMMA HubStep == ASSUME TypeInv, NEW r \in Runs, Step(r) PROVE HubOK'
<1>1. HubOK /\ PlaceOf(r)
  BY DEF TypeInv, InPlace, TypeOK
<1>2. CASE Enrich(r) \/ EnrichCached(r) \/ EnrichLimited(r) \/ EnrichFails(r)
  <2>1. Repo[Current(r)] \in Repos
    <3>1. Current(r) \in Records /\ Repo[Current(r)] # None
      BY <1>1, <1>2, CurrentType DEF Enrich, EnrichCached, EnrichLimited, EnrichFails, Ask, PlaceOf, Busy, PC, Names, TypeInv
    <3> QED
      BY <3>1 DEF Repos
  <2>2. \A n \in Nat : n + 1 \in Nat
    OBVIOUS
  <2>3. CASE EnrichCached(r)
    <3>1. known[r][Repo[Current(r)]] \in Verdicts
      BY <1>1, <2>1, <2>3 DEF HubOK, EnrichCached
    <3> QED
      BY <1>1, <2>3, <3>1 DEF HubOK, EnrichCached
  <2>4. \A answer \in DOMAIN Settled : Settled[answer] \in Verdicts
    BY DEF Settled, Verdicts
  <2>5. Ask(r) => asks' \in [Runs -> [Repos -> Nat]]
    BY <1>1, <2>1 DEF Ask, HubOK
  <2>6. CASE Enrich(r)
    <3>1. PICK answer \in DOMAIN Settled :
            known' = Remember(r, answer) /\ verdict' = [verdict EXCEPT ![r] = Settled[answer]]
      BY <2>6 DEF Enrich
    <3> QED
      BY <1>1, <2>1, <2>4, <2>5, <2>6, <3>1 DEF HubOK, Enrich, Remember
  <2>7. CASE EnrichLimited(r) \/ EnrichFails(r)
    BY <1>1, <2>5, <2>7 DEF HubOK, EnrichLimited, EnrichFails
  <2> QED
    BY <1>2, <2>3, <2>6, <2>7
<1>3. CASE Accept(r)
  BY <1>1, <1>3 DEF Accept, HubOK, Verdicts
<1>4. CASE ~(Accept(r) \/ Enrich(r) \/ EnrichCached(r) \/ EnrichLimited(r) \/ EnrichFails(r))
  BY <1>1, <1>4 DEF HubOK, hub, Step, Skip, Invalid, Finish, FindRaw, InsertRaw, FetchRaw, RawFails, Resolve,
                    Upsert, UpsertFails, RecordError, RecordErrorFails, Crash
<1> QED
  BY <1>2, <1>3, <1>4

LEMMA TypeStep == ASSUME TypeInv, NEW r \in Runs, Step(r) PROVE TypeOK'
<1>1. TypeOK /\ PlaceOf(r)
  BY DEF TypeInv, InPlace
<1>2. table' = table /\ batch' = batch
  BY DEF Step, Skip, Invalid, Accept, Finish, FindRaw, InsertRaw, FetchRaw, RawFails, Resolve, EnrichCached, Enrich, EnrichLimited, EnrichFails, Ask,
         Upsert, UpsertFails, RecordError, RecordErrorFails, Crash, job
<1>3. AfterRaw(r) \in {"resolving", "enriching", "upserting"}
  BY <1>1, NextStepType
<1>4. pc[r] \in Busy \/ (pc[r] = "next" /\ at[r] <= Len(batch[r])) =>
        /\ at[r] <= Len(batch[r])
        /\ Current(r) \in Records /\ Len(batch[r]) \in Nat /\ Hash[Current(r)] \in Hashes
        /\ at[r] + 1 \in 1 .. Len(batch[r]) + 1
  <2>1. SUFFICES ASSUME pc[r] \in Busy \/ (pc[r] = "next" /\ at[r] <= Len(batch[r]))
                 PROVE  /\ at[r] <= Len(batch[r])
                        /\ Current(r) \in Records /\ Len(batch[r]) \in Nat /\ Hash[Current(r)] \in Hashes
                        /\ at[r] + 1 \in 1 .. Len(batch[r]) + 1
    OBVIOUS
  <2>2. at[r] <= Len(batch[r])
    BY <2>1, <1>1 DEF PlaceOf
  <2>3. Current(r) \in Records /\ Len(batch[r]) \in Nat /\ Hash[Current(r)] \in Hashes
    BY <2>2, <1>1, CurrentType
  <2>4. at[r] \in 1 .. Len(batch[r]) + 1
    BY <1>1 DEF TypeOK
  <2> QED
    BY <2>2, <2>3, <2>4
<1>5. \A o \in Outcomes : Count(r, o) => tally' \in [Runs -> [Outcomes -> Nat]]
  BY <1>1, CountType DEF TypeOK
<1>6. {"valid", "duplicate", "rejected", "skipped"} = Outcomes
  BY DEF Outcomes
<1>7. None \in Hashes
  BY DEF Hashes
<1>h. HubOK'
  BY HubStep
<1>8. CASE Skip(r)
  <2>1. tally' \in [Runs -> [Outcomes -> Nat]]
    BY <1>8, <1>5, <1>6 DEF Skip
  <2>2. at' \in [Runs -> Nat] /\ \A s \in Runs : at'[s] \in 1 .. Len(batch[s]) + 1
    BY <1>8, <1>1, <1>4 DEF Skip, Continue, TypeOK
  <2> QED
    BY <1>h, <2>1, <2>2, <1>8, <1>1, <1>2 DEF Skip, Continue, Goto, TypeOK, PC, db
<1>9. CASE Invalid(r)
  BY <1>h, <1>9, <1>1, <1>2, <1>4, <1>5, <1>6 DEF Invalid, Reject, Goto, TypeOK, PC, Categories, db
<1>10. CASE Accept(r)
  BY <1>h, <1>10, <1>1, <1>2, <1>3, <1>7 DEF Accept, FirstStep, Goto, TypeOK, PC, db
<1>11. CASE Finish(r)
  BY <1>h, <1>11, <1>1, <1>2 DEF Finish, Goto, TypeOK, PC, db
<1>12. CASE FindRaw(r) \/ FetchRaw(r)
  BY <1>h, <1>12, <1>1, <1>2, <1>3, <1>4 DEF FindRaw, FetchRaw, HaveRaw, Goto, TypeOK, PC, Busy, db
<1>13. CASE InsertRaw(r)
  BY <1>h, <1>13, <1>1, <1>2, <1>4 DEF InsertRaw, Goto, TypeOK, PC, Busy, PlaceOf
<1>14. CASE RawFails(r)
  <2>1. pc' \in [Runs -> PC] /\ category' \in [Runs -> Categories \cup {None}]
    BY <1>14, <1>1, <1>3 DEF RawFails, Reject, Goto, TypeOK, PC, Categories
  <2>2. tally' \in [Runs -> [Outcomes -> Nat]]
    BY <1>14, <1>1, <1>5, <1>6 DEF RawFails, Reject, TypeOK
  <2> QED
    BY <1>h, <2>1, <2>2, <1>14, <1>1, <1>2, FailType DEF RawFails, TypeOK, db
<1>15. CASE Resolve(r) \/ EnrichCached(r) \/ Enrich(r) \/ EnrichLimited(r) \/ EnrichFails(r)
  BY <1>h, <1>15, <1>1, <1>2, FailType, FaultType DEF Resolve, EnrichCached, Enrich, EnrichLimited, EnrichFails, Ask, Goto, TypeOK, PC, db
<1>16. CASE Upsert(r)
  <2>1. tally' \in [Runs -> [Outcomes -> Nat]]
    BY <1>16, <1>5, <1>6 DEF Upsert, UpsertOutcome
  <2>2. rows' \subseteq [table : DOMAIN Loops, rec : Records, raw : Hashes, run : Runs, hub : Verdicts]
    BY <1>16, <1>1, <1>4, NewType DEF Upsert, TypeOK, Busy, PC
  <2> QED
    BY <1>h, <2>1, <2>2, <1>16, <1>1, <1>2, <1>4 DEF Upsert, Continue, Goto, TypeOK, PC, Busy
<1>17. CASE UpsertFails(r)
  <2>1. tally' \in [Runs -> [Outcomes -> Nat]] /\ pc' \in [Runs -> PC]
        /\ category' \in [Runs -> Categories \cup {None}]
    BY <1>17, <1>1, <1>5, <1>6 DEF UpsertFails, Reject, Goto, TypeOK, PC, Categories
  <2>2. rows' \subseteq [table : DOMAIN Loops, rec : Records, raw : Hashes, run : Runs, hub : Verdicts]
    BY <1>17, <1>1, <1>4, NewType DEF UpsertFails, TypeOK, Busy, PC
  <2>3. session' \in [Runs -> {"clean", "broken"}] /\ faults' \in 0 .. MaxFaults
    BY <1>17, <1>1, FailType, FaultType, DataAssumption DEF UpsertFails, TypeOK
  <2> QED
    BY <1>h, <2>1, <2>2, <2>3, <1>17, <1>1, <1>2 DEF UpsertFails, TypeOK
<1>18. CASE RecordError(r)
  <2>1. errors' \subseteq [run : Runs, rec : Records, category : Categories]
    BY <1>18, <1>1, <1>4 DEF RecordError, TypeOK, PlaceOf, Busy, PC
  <2> QED
    BY <1>h, <2>1, <1>18, <1>1, <1>2, <1>4 DEF RecordError, Continue, Goto, TypeOK, PC, Busy
<1>19. CASE RecordErrorFails(r) \/ Crash(r)
  BY <1>h, <1>19, <1>1, <1>2, FailType, FaultType DEF RecordErrorFails, Crash, Goto, TypeOK, PC, db
<1> QED
  BY <1>8, <1>9, <1>10, <1>11, <1>12, <1>13, <1>14, <1>15, <1>16, <1>17, <1>18, <1>19 DEF Step

LEMMA TypeStutters == TypeInv /\ UNCHANGED vars => TypeInv'
BY DEF TypeInv, TypeOK, HubOK, InPlace, PlaceOf, Current, Names, Loop, vars, db, job, hub

\* The state keeps its types: the counters are naturals, every run is at a record of its
\* list, the raw documents, the rows and the errors hold what the loops put there.
THEOREM TypeCorrect == Spec => []TypeOK
<1>1. TypeInv /\ [Next]_vars => TypeInv'
  BY PlaceStep, TypeStep, TypeStutters DEF Next, TypeInv
<1>2. TypeInv => TypeOK
  BY DEF TypeInv
<1> QED
  BY InitType, <1>1, <1>2, PTL DEF Spec
-----------------------------------------------------------------------------
\* While a run goes on it has counted the records it has passed, and the current one
\* too when it is about to record its error.
CountOf(r) ==
  pc[r] \notin {"aborted", "crashed"} =>
    Counted(r) + 1 = at[r] + (IF pc[r] = "recording" THEN 1 ELSE 0)

CountInv == \A r \in Runs : CountOf(r)

LEMMA CountAdds ==
  ASSUME TypeOK, NEW r \in Runs, NEW o \in Outcomes, Count(r, o)
  PROVE  Counted(r)' = Counted(r) + 1
<1>1. tally[r] \in [Outcomes -> Nat]
  BY DEF TypeOK
<1>2. tally'[r] = [tally[r] EXCEPT ![o] = @ + 1]
  BY CountType DEF TypeOK
<1> QED
  BY <1>1, <1>2 DEF Counted, Outcomes

LEMMA CountStep ==
  ASSUME TypeInv, CountInv, NEW r \in Runs, Step(r)
  PROVE  CountInv'
<1> SUFFICES ASSUME NEW s \in Runs PROVE CountOf(s)'
  BY DEF CountInv
<1>1. TypeOK /\ CountOf(s)
  BY DEF TypeInv, CountInv
<1>2. CASE s # r
  BY <1>1, <1>2, OthersUnchanged DEF CountOf, Counted
<1>3. CASE s = r
  <2>1. Counted(r) \in Nat /\ at \in [Runs -> Nat] /\ pc \in [Runs -> PC]
    <3>1. tally[r] \in [Outcomes -> Nat]
      BY <1>1 DEF TypeOK
    <3>2. \A o \in {"valid", "duplicate", "rejected", "skipped"} : tally[r][o] \in Nat
      BY <3>1 DEF Outcomes
    <3>3. Counted(r) \in Nat
      BY <3>2 DEF Counted
    <3> QED
      BY <1>1, <3>3 DEF TypeOK
  <2>2. \A o \in {"valid", "duplicate", "rejected", "skipped"} : Count(r, o) => Counted(r)' = Counted(r) + 1
    BY <1>1, CountAdds DEF Outcomes
  <2>3. tally' = tally => Counted(r)' = Counted(r)
    BY DEF Counted
  <2>4. AfterRaw(r) \in {"resolving", "enriching", "upserting"}
    BY <1>1, NextStepType
  <2>5. CountOf(r)
    BY <1>1, <1>3
  <2> USE <2>1, <2>5 DEF CountOf, Goto
  <2>6. CASE Skip(r)
    BY <2>6, <2>2, <1>3 DEF Skip, Continue
  <2>7. CASE Invalid(r)
    BY <2>7, <2>2, <1>3 DEF Invalid, Reject
  <2>8. CASE Accept(r)
    BY <2>8, <2>3, <2>4, <1>3 DEF Accept, FirstStep
  <2>9. CASE Finish(r)
    BY <2>9, <2>3, <1>3 DEF Finish
  <2>10. CASE FindRaw(r) \/ InsertRaw(r) \/ FetchRaw(r)
    BY <2>10, <2>3, <2>4, <1>3 DEF FindRaw, InsertRaw, FetchRaw, HaveRaw
  <2>11. CASE RawFails(r)
    BY <2>11, <2>2, <2>3, <2>4, <1>3 DEF RawFails, Reject
  <2>12. CASE Resolve(r) \/ EnrichCached(r) \/ Enrich(r) \/ EnrichLimited(r) \/ EnrichFails(r)
    BY <2>12, <2>3, <1>3 DEF Resolve, EnrichCached, Enrich, EnrichLimited, EnrichFails, Ask
  <2>13. CASE Upsert(r)
    BY <2>13, <2>2, <1>3 DEF Upsert, UpsertOutcome, Continue
  <2>14. CASE UpsertFails(r)
    BY <2>14, <2>2, <1>3 DEF UpsertFails, Reject
  <2>15. CASE RecordError(r)
    BY <2>15, <2>3, <1>3 DEF RecordError, Continue
  <2>16. CASE RecordErrorFails(r) \/ Crash(r)
    BY <2>16, <1>3 DEF RecordErrorFails, Crash
  <2> QED
    BY <2>6, <2>7, <2>8, <2>9, <2>10, <2>11, <2>12, <2>13, <2>14, <2>15, <2>16, <1>3 DEF Step
<1> QED
  BY <1>2, <1>3

LEMMA InitCount == Init => CountInv
BY DEF Init, CountInv, CountOf, Counted, Outcomes

\* No silent loss of a record in the result: whatever fails, a finished run has counted
\* every record of its list exactly once.
THEOREM CountsEveryRecord == Spec => []EveryRecordCounted
<1>1. Init => TypeInv /\ CountInv
  BY InitType, InitCount
<1>2. TypeInv /\ CountInv /\ [Next]_vars => (TypeInv /\ CountInv)'
  <2>1. ASSUME TypeInv, CountInv, NEW r \in Runs, Step(r) PROVE (TypeInv /\ CountInv)'
    BY <2>1, PlaceStep, TypeStep, CountStep DEF TypeInv
  <2>2. ASSUME TypeInv, CountInv, UNCHANGED vars PROVE (TypeInv /\ CountInv)'
    BY <2>2, TypeStutters DEF CountInv, CountOf, Counted, vars
  <2> QED
    BY <2>1, <2>2 DEF Next
<1>3. TypeInv /\ CountInv => EveryRecordCounted
  <2> SUFFICES ASSUME TypeInv, CountInv, NEW r \in Runs, pc[r] = "done"
               PROVE  Counted(r) = Len(batch[r])
    BY DEF EveryRecordCounted
  <2>1. tally[r] \in [Outcomes -> Nat] /\ batch[r] \in Seq(Records)
    BY DataAssumption DEF TypeInv, TypeOK
  <2>2. Counted(r) \in Nat /\ Len(batch[r]) \in Nat
    BY <2>1 DEF Counted, Outcomes
  <2> QED
    BY <2>2 DEF TypeInv, InPlace, PlaceOf, CountInv, CountOf
<1> QED
  BY <1>1, <1>2, <1>3, PTL DEF Spec
-----------------------------------------------------------------------------
\* Rows, errors and documents are only ever added, and a run's vertical and list stay.
LEMMA OnlyAdds ==
  ASSUME NEW r \in Runs, Step(r)
  PROVE  /\ raw \subseteq raw' /\ rows \subseteq rows' /\ errors \subseteq errors'
         /\ table' = table /\ batch' = batch
BY DEF Step, Skip, Invalid, Accept, Finish, FindRaw, InsertRaw, FetchRaw, RawFails, Resolve, EnrichCached, Enrich, EnrichLimited, EnrichFails, Ask,
       Upsert, UpsertFails, RecordError, RecordErrorFails, Crash, db, job

\* What has been kept stays kept.
LEMMA KeptStays ==
  ASSUME NEW r \in Runs, Step(r), NEW s \in Runs, NEW rec \in Records, Kept(s, rec)
  PROVE  Kept(s, rec)'
BY OnlyAdds DEF Kept, Conflicts, Loop

\* A run moves by one record, or not at all.
LEMMA MovesByOne ==
  ASSUME TypeInv, NEW r \in Runs, Step(r)
  PROVE  at' = at \/ (at' = [at EXCEPT ![r] = @ + 1] /\ at[r] <= Len(batch[r]))
<1>1. PlaceOf(r)
  BY DEF TypeInv, InPlace
<1> QED
  BY <1>1 DEF Step, Skip, Invalid, Accept, Finish, FindRaw, InsertRaw, FetchRaw, RawFails, Resolve,
              EnrichCached, Enrich, EnrichLimited, EnrichFails, Ask, Upsert, UpsertFails, RecordError, RecordErrorFails, Crash, Continue, PlaceOf, Busy, PC

\* It moves on from a record only when it is kept.
LEMMA PassesKept ==
  ASSUME TypeInv, NEW r \in Runs, Step(r), NEW rec \in Records, rec = Current(r), at' # at
  PROVE  Kept(r, rec)'
<1>1. TypeOK /\ PlaceOf(r)
  BY DEF TypeInv, InPlace
<1>2. table' = table /\ batch' = batch
  BY OnlyAdds
<1>3. CASE Skip(r)
  BY <1>3, <1>2 DEF Skip, Gated, Kept, Loop, Continue
<1>4. CASE Upsert(r)
  <2>2. CASE Conflicts(table[r], rec) = {}
    <3>1. Row(r, rec, rawid[r]) \in rows'
      BY <1>4, <2>2 DEF Upsert, New
    <3>2. Row(r, rec, rawid[r]).table = table[r] /\ Row(r, rec, rawid[r]).rec = rec
      BY DEF Row
    <3>3. Keys[rec] \cap Keys[rec] # {}
      BY DataAssumption
    <3> QED
      BY <3>1, <3>2, <3>3, <1>2 DEF Kept, Conflicts
  <2>3. CASE Conflicts(table[r], rec) # {}
    BY <2>3, <1>2, OnlyAdds DEF Kept, Conflicts
  <2> QED
    BY <2>2, <2>3
<1>5. CASE RecordError(r)
  <2> DEFINE err == [run |-> r, rec |-> rec, category |-> category[r]]
  <2>1. err \in errors' /\ err.run = r /\ err.rec = rec
    BY <1>5 DEF RecordError
  <2> HIDE DEF err
  <2> QED
    BY <2>1 DEF Kept
<1> QED
  BY <1>3, <1>4, <1>5
  DEF Step, Invalid, Accept, Finish, FindRaw, InsertRaw, FetchRaw, RawFails, Resolve, EnrichCached, Enrich, EnrichLimited, EnrichFails, Ask,
      UpsertFails, RecordErrorFails, Crash

\* Nothing is lost without a trace: a record a run has passed is in a table, or in the
\* processing errors, or was skipped by a gate; crashes and failed statements included.
THEOREM LosesNothing == Spec => []NothingLost
<1>1. Init => TypeInv /\ NothingLost
  <2>1. Init => NothingLost
    BY DEF Init, NothingLost
  <2> QED
    BY <2>1, InitType
<1>2. TypeInv /\ NothingLost /\ [Next]_vars => (TypeInv /\ NothingLost)'
  <2>1. ASSUME TypeInv, NothingLost, NEW r \in Runs, Step(r) PROVE NothingLost'
    <3> SUFFICES ASSUME NEW s \in Runs, NEW i \in 1 .. at'[s] - 1 PROVE Kept(s, batch[s][i])'
      BY DEF NothingLost
    <3>1. table' = table /\ batch' = batch
      BY <2>1, OnlyAdds
    <3>2. /\ at \in [Runs -> Nat] /\ batch[s] \in Seq(Records)
          /\ at[s] \in 1 .. Len(batch[s]) + 1
      BY <2>1, DataAssumption DEF TypeInv, TypeOK
    <3>3. CASE i \in 1 .. at[s] - 1
      <4>1. PICK rec \in Records : rec = batch[s][i]
        BY <3>2, <3>3
      <4>2. Kept(s, rec)
        BY <4>1, <3>3, <2>1 DEF NothingLost
      <4>3. Kept(s, rec)'
        BY <4>2, <2>1, KeptStays
      <4> QED
        BY <4>1, <4>3, <3>1 DEF Kept, Conflicts
    <3>4. CASE i \notin 1 .. at[s] - 1
      <4>1. at' # at
        BY <3>4
      <4>2. s = r /\ i = at[s] /\ at[s] <= Len(batch[s])
        BY <4>1, <3>2, <3>4, <2>1, MovesByOne
      <4>3. PICK rec \in Records : rec = Current(r)
        BY <4>2, <2>1, CurrentType DEF TypeInv
      <4>4. Kept(r, rec)'
        BY <4>1, <4>3, <2>1, PassesKept
      <4> QED
        BY <4>2, <4>3, <4>4, <3>1 DEF Current, Kept, Conflicts
    <3> QED
      BY <3>3, <3>4
  <2>2. ASSUME TypeInv, NothingLost, UNCHANGED vars PROVE NothingLost'
    BY <2>2 DEF NothingLost, Kept, Conflicts, Loop, vars, db, job, hub
  <2> QED
    BY <2>1, <2>2, PlaceStep, TypeStep, TypeStutters DEF Next, TypeInv
<1> QED
  BY <1>1, <1>2, PTL DEF Spec
-----------------------------------------------------------------------------
\* What a run may put into a row: the document of its record, which is stored, or, for
\* a startup or a product after a failure, none.
Sourced(t, rec, id) ==
  \/ id = Hash[rec] /\ id \in raw \cup {None}
  \/ id = None /\ faults > 0 /\ t \in {"startups", "products"}

\* The provenance of the current record at each place of the loop body.  A session is
\* broken there only after a fault: when a refused record breaks it the run is recording.
SourceOf(r) ==
  /\ pc[r] \in {"resolving", "enriching", "upserting"} => Sourced(table[r], Current(r), rawid[r])
  /\ pc[r] \in {"finding", "inserting", "fetching"} => rawid[r] = None
  /\ pc[r] = "fetching" => Hash[Current(r)] \in raw
  /\ ~CanExecute(r) => faults > 0 \/ pc[r] \in {"recording", "aborted", "crashed"}

SourceInv == Provenance /\ \A r \in Runs : SourceOf(r)

LEMMA FaultsStay ==
  ASSUME TypeOK, NEW r \in Runs, Step(r) PROVE faults > 0 => faults' > 0
<1>1. faults \in Nat
  BY DataAssumption DEF TypeOK
<1>2. faults' = faults \/ faults' = faults + 1
  BY DEF Step, Skip, Invalid, Accept, Finish, FindRaw, InsertRaw, FetchRaw, RawFails, Resolve, EnrichCached, Enrich, EnrichLimited, EnrichFails, Ask,
         Upsert, UpsertFails, RecordError, RecordErrorFails, Crash, StatementFails, Fault
<1> QED
  BY <1>1, <1>2

LEMMA FailCause ==
  ASSUME TypeOK, NEW r \in Runs, SourceOf(r), StatementFails(r),
         pc[r] \notin {"recording", "aborted", "crashed"}
  PROVE  faults' > 0
<1>1. faults \in Nat
  BY DataAssumption DEF TypeOK
<1> QED
  BY <1>1 DEF StatementFails, SourceOf, Fault

LEMMA SourceStep ==
  ASSUME TypeInv, SourceInv, NEW r \in Runs, Step(r), NEW s \in Runs
  PROVE  SourceOf(s)'
<1>1. /\ TypeOK /\ PlaceOf(s) /\ SourceOf(s)
      /\ faults > 0 => faults' > 0
      /\ raw \subseteq raw' /\ table' = table /\ batch' = batch
  BY FaultsStay, OnlyAdds DEF TypeInv, InPlace, SourceInv
<1>2. CASE s # r
  BY <1>1, <1>2, OthersUnchanged DEF SourceOf, Sourced, Current, CanExecute
<1>3. CASE s = r
  <2>1. /\ pc \in [Runs -> PC] /\ rawid \in [Runs -> Hashes] /\ session \in [Runs -> {"clean", "broken"}]
        /\ table[r] \in DOMAIN Loops /\ faults \in Nat
    BY <1>1, DataAssumption DEF TypeOK
  <2>2. AfterRaw(r) \in {"resolving", "enriching", "upserting"}
    BY <1>1, NextStepType
  <2>3. Loops[table[r]].rawFailure = "null" => table[r] \in {"startups", "products"}
    BY <2>1, LoopsType
  <2>4. SourceOf(r) /\ PlaceOf(r)
    BY <1>1, <1>3
  <2> USE <2>1, <1>1, <2>4
  <2>5. CASE Skip(r) \/ Finish(r)
    BY <2>5, <1>3 DEF Skip, Finish, Continue, Goto, SourceOf, CanExecute
  <2>6. CASE Invalid(r)
    BY <2>6, <1>3 DEF Invalid, Reject, Goto, SourceOf, CanExecute
  <2>7. CASE Accept(r)
    <3>1. rawid'[r] = None /\ at' = at /\ session' = session /\ faults' = faults
      BY <2>7 DEF Accept
    <3>2. \/ pc'[r] = "finding"
          \/ pc'[r] \in {"resolving", "enriching", "upserting"} /\ Hash[Current(r)] = None
      BY <2>7, <2>2 DEF Accept, FirstStep, Goto
    <3> QED
      BY <2>7, <3>1, <3>2, <1>3 DEF Accept, SourceOf, Sourced, Current, CanExecute
  <2>8. CASE FindRaw(r) \/ FetchRaw(r)
    BY <2>8, <2>2, <1>3 DEF FindRaw, FetchRaw, HaveRaw, Goto, SourceOf, Sourced, Current, CanExecute, db
  <2>9. CASE InsertRaw(r)
    BY <2>9, <1>3 DEF InsertRaw, Goto, SourceOf, Current, CanExecute
  <2>10. CASE RawFails(r)
    <3>1. faults' > 0
      BY <2>10, FailCause DEF RawFails
    <3>2. \/ pc'[r] \in {"aborted", "recording"}
          \/ pc'[r] \in {"resolving", "enriching", "upserting"} /\ table[r] \in {"startups", "products"}
      BY <2>10, <2>2, <2>3 DEF RawFails, Reject, Goto, Loop
    <3>3. rawid'[r] = None
      BY <2>10 DEF RawFails, SourceOf
    <3> QED
      BY <3>1, <3>2, <3>3, <1>3 DEF SourceOf, Sourced
  <2>11. CASE Resolve(r)
    <3>1. session'[r] = "clean" \/ faults' > 0 \/ session' = session
      BY <2>11, FailCause DEF Resolve
    <3>2. ~CanExecute(r)' => faults' > 0
      BY <2>11, <3>1 DEF Resolve, SourceOf, CanExecute
    <3> QED
      BY <2>11, <3>2, <1>3 DEF Resolve, Goto, SourceOf, Sourced, Current
  <2>12. CASE EnrichCached(r) \/ Enrich(r) \/ EnrichLimited(r) \/ EnrichFails(r)
    BY <2>12, <1>3 DEF EnrichCached, Enrich, EnrichLimited, EnrichFails, Ask, Goto, SourceOf, Sourced, Current, CanExecute
  <2>13. CASE Upsert(r)
    BY <2>13, <1>3 DEF Upsert, Continue, Goto, SourceOf, CanExecute
  <2>14. CASE UpsertFails(r)
    BY <2>14, <1>3 DEF UpsertFails, Reject, Goto, SourceOf
  <2>15. CASE RecordError(r)
    BY <2>15, <1>3 DEF RecordError, Continue, Goto, SourceOf, CanExecute
  <2>16. CASE RecordErrorFails(r) \/ Crash(r)
    BY <2>16, <1>3 DEF RecordErrorFails, Crash, Goto, SourceOf
  <2> QED
    BY <2>5, <2>6, <2>7, <2>8, <2>9, <2>10, <2>11, <2>12, <2>13, <2>14, <2>15, <2>16, <1>3 DEF Step
<1> QED
  BY <1>2, <1>3

LEMMA RowsStep ==
  ASSUME TypeInv, SourceInv, NEW r \in Runs, Step(r)
  PROVE  Provenance'
<1>1. raw \subseteq raw' /\ rows \subseteq rows' /\ (faults > 0 => faults' > 0)
  BY FaultsStay, OnlyAdds DEF TypeInv
<1>2. \A row \in rows : Sourced(row.table, row.rec, row.raw)
  BY DEF SourceInv, Provenance, Sourced
<1>3. \A row \in rows' \ rows : Sourced(row.table, row.rec, row.raw)
  <2>1. SUFFICES ASSUME NEW row \in rows' \ rows PROVE Sourced(row.table, row.rec, row.raw)
    OBVIOUS
  <2>2. pc[r] = "upserting" /\ row = Row(r, Current(r), rawid[r])
    BY DEF Step, Skip, Invalid, Accept, Finish, FindRaw, InsertRaw, FetchRaw, RawFails, Resolve, EnrichCached, Enrich, EnrichLimited, EnrichFails, Ask,
           Upsert, UpsertFails, RecordError, RecordErrorFails, Crash, db, New
  <2> QED
    BY <2>2 DEF Row, SourceInv, SourceOf
<1> QED
  BY <1>1, <1>2, <1>3 DEF Sourced, Provenance

\* Every row can be traced: it names the stored document its record was read from, and
\* never another's; only a startup or a product can lose it, to a failure.
THEOREM RowsAreTraceable == Spec => []Provenance
<1>1. Init => TypeInv /\ SourceInv
  <2>1. Init => SourceInv
    BY DEF Init, SourceInv, SourceOf, Provenance, CanExecute
  <2> QED
    BY <2>1, InitType
<1>2. TypeInv /\ SourceInv /\ [Next]_vars => (TypeInv /\ SourceInv)'
  <2>1. ASSUME TypeInv, SourceInv, NEW r \in Runs, Step(r) PROVE SourceInv'
    BY <2>1, SourceStep, RowsStep DEF SourceInv
  <2>2. ASSUME TypeInv, SourceInv, UNCHANGED vars PROVE SourceInv'
    BY <2>2 DEF SourceInv, SourceOf, Sourced, Provenance, Current, CanExecute, vars, db, job, hub
  <2> QED
    BY <2>1, <2>2, PlaceStep, TypeStep, TypeStutters DEF Next, TypeInv
<1>3. SourceInv => Provenance
  BY DEF SourceInv
<1> QED
  BY <1>1, <1>2, <1>3, PTL DEF Spec
-----------------------------------------------------------------------------
\* The rows a run has put into the tables.
Own(r) == {row \in rows : row.run = r}

Exact(r) == tally[r]["valid"] <= Cardinality(Own(r)) /\ (faults = 0 => tally[r]["valid"] = Cardinality(Own(r)))

OwnInv == IsFiniteSet(rows) /\ \A r \in Runs : Exact(r)

\* The row an upsert adds is a new one, the run's own; it adds one, or none when a row of
\* the vertical has one of its keys.
LEMMA OwnGrows ==
  ASSUME TypeInv, IsFiniteSet(rows), NEW r \in Runs, pc[r] = "upserting", rows' = rows \cup New(r)
  PROVE  /\ IsFiniteSet(rows')
         /\ New(r) = {} => rows' = rows
         /\ New(r) # {} => Cardinality(Own(r)') = Cardinality(Own(r)) + 1
         /\ Cardinality(Own(r)) \in Nat
         /\ \A s \in Runs : s # r => Own(s)' = Own(s)
<1> DEFINE row == Row(r, Current(r), rawid[r])
<1>1. row.table = table[r] /\ row.rec = Current(r) /\ row.run = r
  BY DEF Row
<1>2. Current(r) \in Records
  BY CurrentType DEF TypeInv, InPlace, PlaceOf, Busy, PC
<1>3. New(r) # {} => New(r) = {row} /\ Conflicts(table[r], Current(r)) = {}
  BY DEF New
<1>4. New(r) # {} => row \notin rows
  BY <1>1, <1>2, <1>3, DataAssumption DEF Conflicts
<1> HIDE DEF row
<1>5. IsFiniteSet(Own(r)) /\ Cardinality(Own(r)) \in Nat
  BY FS_Subset, FS_CardinalityType DEF Own
<1>6. IsFiniteSet(rows')
  BY <1>3, FS_AddElement
<1>7. ASSUME New(r) # {} PROVE Cardinality(Own(r)') = Cardinality(Own(r)) + 1
  <2>1. Own(r)' = Own(r) \cup {row} /\ row \notin Own(r)
    BY <1>1, <1>3, <1>4, <1>7 DEF Own
  <2> QED
    BY <2>1, <1>5, FS_AddElement
<1>8. \A s \in Runs : s # r => Own(s)' = Own(s)
  BY <1>1, <1>3 DEF Own
<1> QED
  BY <1>5, <1>6, <1>7, <1>8

LEMMA OwnStep ==
  ASSUME TypeInv, OwnInv, NEW r \in Runs, Step(r)
  PROVE  OwnInv'
<1>1. /\ TypeOK /\ faults \in Nat
      /\ \A s \in Runs : tally[s] \in [Outcomes -> Nat] /\ tally[s]["valid"] \in Nat /\ Exact(s)
      /\ faults > 0 => faults' > 0
      /\ \A s \in Runs : s # r => tally'[s] = tally[s]
      /\ IsFiniteSet(rows)
  <2>1. TypeOK /\ IsFiniteSet(rows) /\ (faults > 0 => faults' > 0)
    BY FaultsStay DEF TypeInv, OwnInv
  <2>2. faults \in Nat /\ \A s \in Runs : tally[s] \in [Outcomes -> Nat]
    BY <2>1, DataAssumption DEF TypeOK
  <2>3. \A s \in Runs : tally[s]["valid"] \in Nat /\ Exact(s)
    BY <2>2 DEF OwnInv, Outcomes
  <2>4. \A s \in Runs : s # r => tally'[s] = tally[s]
    BY <2>1, OthersUnchanged
  <2> QED
    BY <2>1, <2>2, <2>3, <2>4
<1>2. faults' = 0 => faults = 0
  BY <1>1
<1>3. CASE Upsert(r)
  <2>1. /\ pc[r] = "upserting" /\ rows' = rows \cup New(r) /\ faults' = faults
        /\ Count(r, UpsertOutcome(r))
    BY <1>3 DEF Upsert
  <2>2. tally'[r]["valid"] = tally[r]["valid"] + (IF New(r) = {} THEN 0 ELSE 1)
    <3>1. tally'[r] = [tally[r] EXCEPT ![UpsertOutcome(r)] = @ + 1]
      BY <2>1, <1>1, CountType DEF TypeOK, UpsertOutcome, Outcomes
    <3> QED
      BY <3>1, <1>1 DEF UpsertOutcome, Outcomes
  <2>3. /\ IsFiniteSet(rows')
        /\ New(r) = {} => rows' = rows
        /\ New(r) # {} => Cardinality(Own(r)') = Cardinality(Own(r)) + 1
        /\ Cardinality(Own(r)) \in Nat
        /\ \A s \in Runs : s # r => Own(s)' = Own(s)
    BY <2>1, <1>1, OwnGrows
  <2>4. Exact(r)'
    <3>1. CASE New(r) = {}
      BY <3>1, <2>1, <2>2, <2>3, <1>1 DEF Exact, Own
    <3>2. CASE New(r) # {}
      BY <3>2, <2>1, <2>2, <2>3, <1>1 DEF Exact
    <3> QED
      BY <3>1, <3>2
  <2>5. \A s \in Runs : s # r => Exact(s)'
    BY <2>1, <2>3, <1>1 DEF Exact
  <2> QED
    BY <2>3, <2>4, <2>5 DEF OwnInv
<1>4. CASE UpsertFails(r)
  <2>1. tally'[r]["valid"] = tally[r]["valid"]
    <3>1. tally'[r] = [tally[r] EXCEPT !["rejected"] = @ + 1]
      BY <1>4, <1>1, CountType DEF UpsertFails, Reject, TypeOK, Outcomes
    <3> QED
      BY <3>1, <1>1 DEF Outcomes
  <2>2. CASE rows' = rows
    BY <2>1, <2>2, <1>1, <1>2 DEF Exact, Own, OwnInv
  <2>3. CASE rows' = rows \cup New(r) /\ faults' = faults + 1
    <3>1. /\ IsFiniteSet(rows')
          /\ New(r) = {} => rows' = rows
          /\ New(r) # {} => Cardinality(Own(r)') = Cardinality(Own(r)) + 1
          /\ Cardinality(Own(r)) \in Nat
          /\ \A s \in Runs : s # r => Own(s)' = Own(s)
      BY <2>3, <1>4, <1>1, OwnGrows DEF UpsertFails
    <3>2. faults' # 0
      BY <2>3, <1>1
    <3>3. Exact(r)'
      <4>1. CASE New(r) = {}
        BY <4>1, <3>1, <3>2, <2>1, <1>1 DEF Exact, Own
      <4>2. CASE New(r) # {}
        BY <4>2, <3>1, <3>2, <2>1, <1>1 DEF Exact
      <4> QED
        BY <4>1, <4>2
    <3>4. \A s \in Runs : s # r => Exact(s)'
      BY <3>1, <3>2, <1>1 DEF Exact
    <3> QED
      BY <3>1, <3>3, <3>4 DEF OwnInv
  <2> QED
    BY <2>2, <2>3, <1>4 DEF UpsertFails, Fault
<1>5. CASE ~Upsert(r) /\ ~UpsertFails(r)
  <2>1. rows' = rows
    BY <1>5 DEF Step, Skip, Invalid, Accept, Finish, FindRaw, InsertRaw, FetchRaw, RawFails, Resolve,
                EnrichCached, Enrich, EnrichLimited, EnrichFails, Ask, RecordError, RecordErrorFails, Crash, db
  <2>2. tally' = tally \/ Count(r, "skipped") \/ Count(r, "rejected")
    BY <1>5 DEF Step, Skip, Invalid, Accept, Finish, FindRaw, InsertRaw, FetchRaw, RawFails, Resolve,
                EnrichCached, Enrich, EnrichLimited, EnrichFails, Ask, RecordError, RecordErrorFails, Crash, Reject
  <2>3. tally'[r]["valid"] = tally[r]["valid"]
    <3>1. CASE tally' = tally
      BY <3>1
    <3>2. ASSUME NEW o \in {"skipped", "rejected"}, Count(r, o) PROVE tally'[r]["valid"] = tally[r]["valid"]
      <4>1. tally'[r] = [tally[r] EXCEPT ![o] = @ + 1]
        BY <3>2, <1>1, CountType DEF TypeOK, Outcomes
      <4> QED
        BY <4>1, <1>1 DEF Outcomes
    <3> QED
      BY <2>2, <3>1, <3>2
  <2> QED
    BY <2>1, <2>3, <1>1, <1>2 DEF Exact, Own, OwnInv
<1> QED
  BY <1>3, <1>4, <1>5

\* No fake success: a run never reports more new records than it put rows into the
\* tables, and exactly as many when nothing failed, whatever overlaps with it.
THEOREM NeverReportsTooMuch == Spec => []NeverOverstated
<1>1. Init => TypeInv /\ OwnInv
  <2>1. ASSUME Init PROVE OwnInv
    <3>1. rows = {} /\ \A r \in Runs : Own(r) = {} /\ tally[r]["valid"] = 0
      BY <2>1 DEF Init, Own, Outcomes
    <3> QED
      BY <3>1, FS_EmptySet DEF OwnInv, Exact
  <2> QED
    BY <2>1, InitType
<1>2. TypeInv /\ OwnInv /\ [Next]_vars => (TypeInv /\ OwnInv)'
  <2>1. ASSUME TypeInv, OwnInv, UNCHANGED vars PROVE OwnInv'
    BY <2>1 DEF OwnInv, Exact, Own, vars, db
  <2> QED
    BY <2>1, OwnStep, PlaceStep, TypeStep, TypeStutters DEF Next, TypeInv
<1>3. OwnInv => NeverOverstated
  BY DEF OwnInv, Exact, Own, NeverOverstated
<1> QED
  BY <1>1, <1>2, <1>3, PTL DEF Spec
-----------------------------------------------------------------------------
\* A repository that was asked about is in the cache, or the run asks no more.  What
\* a run is about to store of a repository is what its cache says, or the bare link
\* after a rate limit; before that step the payload is as the adapter left it.
AskedOf(r) ==
  \A repo \in Repos :
    /\ asks[r][repo] <= 1
    /\ asks[r][repo] = 1 => known[r][repo] # "unasked" \/ limited[r] \/ pc[r] = "aborted"

Told(t, rec, v, r) ==
  IF t = "research" /\ Repo[rec] # None
  THEN v = known[r][Repo[rec]] \/ (v = "unverified" /\ limited[r])
  ELSE v = "none"

VerdictOf(r) ==
  /\ pc[r] \in {"finding", "inserting", "fetching", "resolving", "enriching"} =>
       verdict[r] = IF Names(r) THEN "unverified" ELSE "none"
  /\ pc[r] = "resolving" => ~Names(r)
  /\ pc[r] = "upserting" => Told(table[r], Current(r), verdict[r], r)

HubInv ==
  /\ \A r \in Runs : AskedOf(r) /\ VerdictOf(r)
  /\ \A row \in rows : Told(row.table, row.rec, row.hub, row.run)

\* Only the research loop looks at repositories.
LEMMA NamesIsResearch ==
  ASSUME TypeOK, NEW r \in Runs
  PROVE  /\ Names(r) <=> table[r] = "research" /\ Repo[Current(r)] # None
         /\ Loop(r).before = "enriching" <=> table[r] = "research"
BY DEF TypeOK, Names, Loop, Loops, ResearchLoop, NewsLoop, StartupsLoop, ProductsLoop, JobsLoop

\* What is in the cache stays there, and enrichment that is off stays off.
LEMMA CacheGrows ==
  ASSUME TypeInv, NEW r \in Runs, Step(r), NEW s \in Runs
  PROVE  /\ limited[s] => limited'[s]
         /\ \A repo \in Repos : known[s][repo] # "unasked" => known'[s][repo] = known[s][repo]
<1>1. HubOK
  BY DEF TypeInv, TypeOK
<1>2. CASE Enrich(r) \/ EnrichLimited(r)
  <2>1. /\ known' = known \/ \E e : known' = Remember(r, e)
        /\ limited' = limited \/ limited' = [limited EXCEPT ![r] = TRUE]
        /\ known[r][Repo[Current(r)]] = "unasked"
    BY <1>2 DEF Enrich, EnrichLimited, Ask
  <2>2. limited[s] => limited'[s]
    BY <1>1, <2>1 DEF HubOK
  <2>3. ASSUME NEW repo \in Repos, known[s][repo] # "unasked"
        PROVE  known'[s][repo] = known[s][repo]
    BY <1>1, <2>1, <2>3 DEF HubOK, Remember
  <2> QED BY <2>2, <2>3
<1>3. CASE ~(Enrich(r) \/ EnrichLimited(r))
  BY <1>3 DEF Step, Skip, Invalid, Accept, Finish, FindRaw, InsertRaw, FetchRaw, RawFails, Resolve, EnrichCached,
              EnrichFails, Upsert, UpsertFails, RecordError, RecordErrorFails, Crash, hub
<1> QED
  BY <1>2, <1>3

LEMMA ToldStays ==
  ASSUME TypeInv, NEW r \in Runs, Step(r), NEW s \in Runs, NEW t, NEW rec \in Records, NEW v \in Verdicts,
         Told(t, rec, v, s)
  PROVE  Told(t, rec, v, s)'
<1>1. Repo[rec] # None => Repo[rec] \in Repos
  BY DEF Repos
<1>2. v # "unasked"
  BY DEF Verdicts
<1> QED
  BY <1>1, <1>2, CacheGrows DEF Told

\* The repository a run is about to look up.
LEMMA Lookup ==
  ASSUME TypeInv, NEW r \in Runs, pc[r] = "enriching"
  PROVE  /\ Current(r) \in Records /\ Repo[Current(r)] # None /\ Repo[Current(r)] \in Repos
         /\ table[r] = "research" /\ ~limited[r]
<1>1. TypeOK /\ PlaceOf(r)
  BY DEF TypeInv, InPlace
<1>2. Current(r) \in Records
  BY <1>1, CurrentType DEF PlaceOf, Busy, PC
<1> QED
  BY <1>1, <1>2, NamesIsResearch DEF PlaceOf, Repos

LEMMA AskedStep ==
  ASSUME TypeInv, HubInv, NEW r \in Runs, Step(r), NEW s \in Runs
  PROVE  AskedOf(s)'
<1>1. HubOK /\ AskedOf(s) /\ pc \in [Runs -> PC]
  BY DEF TypeInv, TypeOK, HubInv
<1>2. CASE s # r
  BY <1>1, <1>2, OthersUnchanged DEF AskedOf, TypeInv
<1>3. CASE s = r /\ Ask(r)
  <2>1. /\ Repo[Current(r)] \in Repos /\ ~limited[r] /\ pc[r] = "enriching"
        /\ known[r][Repo[Current(r)]] = "unasked"
    BY <1>3, Lookup DEF Ask
  <2>2. asks[r][Repo[Current(r)]] = 0
    <3>1. asks[r][Repo[Current(r)]] \in Nat
      BY <1>1, <2>1 DEF HubOK
    <3>2. asks[r][Repo[Current(r)]] <= 1 /\ asks[r][Repo[Current(r)]] # 1
      BY <1>1, <1>3, <2>1 DEF AskedOf
    <3> QED
      BY <3>1, <3>2
  <2>3. asks'[r][Repo[Current(r)]] = 1 /\ \A repo \in Repos : repo # Repo[Current(r)] => asks'[r][repo] = asks[r][repo]
    BY <1>1, <1>3, <2>1, <2>2 DEF Ask, HubOK
  <2>4. known'[r][Repo[Current(r)]] # "unasked" \/ limited'[r] \/ pc'[r] = "aborted"
    <3>1. CASE Enrich(r)
      <4>1. PICK answer \in DOMAIN Settled : known' = Remember(r, answer)
        BY <3>1 DEF Enrich
      <4>2. Settled[answer] # "unasked"
        BY DEF Settled
      <4> QED
        BY <1>1, <2>1, <4>1, <4>2 DEF Remember, HubOK
    <3>2. CASE EnrichLimited(r)
      BY <1>1, <3>2 DEF EnrichLimited, HubOK
    <3>3. CASE EnrichFails(r)
      BY <1>1, <3>3 DEF EnrichFails, Goto
    <3>4. Enrich(r) \/ EnrichLimited(r) \/ EnrichFails(r)
      BY <1>1, <1>3, <2>1, <2>2, <2>3 DEF Step, Skip, Invalid, Accept, Finish, FindRaw, InsertRaw, FetchRaw,
         RawFails, Resolve, EnrichCached, Upsert, UpsertFails, RecordError, RecordErrorFails, Crash, hub
    <3> QED
      BY <3>1, <3>2, <3>3, <3>4
  <2>5. \A repo \in Repos : known[r][repo] # "unasked" => known'[r][repo] # "unasked"
    BY CacheGrows
  <2> QED
    BY <1>1, <1>3, <2>1, <2>3, <2>4, <2>5 DEF AskedOf
<1>4. CASE s = r /\ ~Ask(r)
  <2>1. asks' = asks /\ pc[r] # "aborted"
    BY <1>4 DEF Step, Skip, Invalid, Accept, Finish, FindRaw, InsertRaw, FetchRaw, RawFails, Resolve, EnrichCached,
       Enrich, EnrichLimited, EnrichFails, Upsert, UpsertFails, RecordError, RecordErrorFails, Crash, hub
  <2> QED
    BY <1>1, <1>4, <2>1, CacheGrows DEF AskedOf
<1> QED
  BY <1>2, <1>3, <1>4

LEMMA VerdictStep ==
  ASSUME TypeInv, HubInv, NEW r \in Runs, Step(r), NEW s \in Runs
  PROVE  VerdictOf(s)'
<1>1. TypeOK /\ HubOK /\ VerdictOf(s) /\ PlaceOf(r) /\ pc \in [Runs -> PC]
  BY DEF TypeInv, TypeOK, HubInv, InPlace
<1>2. CASE s # r
  BY <1>1, <1>2, OthersUnchanged DEF VerdictOf, Told, Names, Loop, Current
<1>3. CASE s = r
  <2>1. table' = table /\ batch' = batch
    BY DEF Step, Skip, Invalid, Accept, Finish, FindRaw, InsertRaw, FetchRaw, RawFails, Resolve, EnrichCached,
       Enrich, EnrichLimited, EnrichFails, Ask, Upsert, UpsertFails, RecordError, RecordErrorFails, Crash, job
  <2>2. /\ Names(r) <=> table[r] = "research" /\ Repo[Current(r)] # None
        /\ Loop(r).before = "enriching" <=> table[r] = "research"
    BY <1>1, NamesIsResearch
  <2>3. AfterRaw(r) \in {"resolving", "enriching", "upserting"}
    BY <1>1, NextStepType
  <2>4. AfterRaw(r) = "resolving" => ~Names(r)
    BY <2>2 DEF AfterRaw, Names
  <2>5. AfterRaw(r) = "upserting" => ~Names(r) \/ limited[r]
    BY <2>2 DEF AfterRaw, Names
  <2>6. CASE at' = at /\ verdict' = verdict /\ limited' = limited /\ known' = known
             /\ (pc'[r] = AfterRaw(r) \/ pc'[r] \in {"inserting", "fetching", "recording", "aborted", "crashed", "done"})
             /\ pc[r] \in {"finding", "inserting", "fetching"}
    BY <1>1, <1>3, <2>1, <2>2, <2>3, <2>4, <2>5, <2>6 DEF VerdictOf, Told, Names, Loop, Current
  <2>7. CASE pc'[r] \in {"next", "recording", "done", "aborted", "crashed"}
    BY <1>3, <2>7 DEF VerdictOf
  <2>8. CASE FindRaw(r) \/ InsertRaw(r) \/ FetchRaw(r) \/ RawFails(r)
    <3>1. /\ at' = at /\ verdict' = verdict /\ limited' = limited /\ known' = known
          /\ pc[r] \in {"finding", "inserting", "fetching"}
      BY <2>8 DEF FindRaw, InsertRaw, FetchRaw, RawFails, hub
    <3>2. pc'[r] = AfterRaw(r) \/ pc'[r] \in {"inserting", "fetching", "recording", "aborted", "crashed", "done"}
      BY <1>1, <2>8 DEF FindRaw, InsertRaw, FetchRaw, RawFails, HaveRaw, Goto, Reject
    <3> QED
      BY <2>6, <3>1, <3>2
  <2>9. CASE Accept(r)
    <3>1. /\ at' = at /\ limited' = limited /\ known' = known /\ pc'[r] \in {"finding", AfterRaw(r)}
          /\ verdict'[r] = IF Names(r) THEN "unverified" ELSE "none"
      BY <1>1, <2>9 DEF Accept, FirstStep, Goto, HubOK
    <3> QED
      BY <1>3, <2>1, <2>2, <2>3, <2>4, <2>5, <3>1 DEF VerdictOf, Told, Names, Loop, Current
  <2>10. CASE Resolve(r)
    BY <1>1, <1>3, <2>1, <2>2, <2>10 DEF Resolve, Goto, hub, VerdictOf, Told, Names, Loop, Current
  <2>11. CASE EnrichCached(r) \/ Enrich(r) \/ EnrichLimited(r)
    <3>1. /\ Repo[Current(r)] # None /\ Repo[Current(r)] \in Repos /\ table[r] = "research"
          /\ pc[r] = "enriching" /\ at' = at /\ pc'[r] = "upserting"
      BY <1>1, <2>11, Lookup DEF EnrichCached, Enrich, EnrichLimited, Ask, Goto
    <3>2. verdict'[r] = known'[r][Repo[Current(r)]] \/ (verdict'[r] = "unverified" /\ limited'[r])
      <4>1. CASE EnrichCached(r)
        BY <1>1, <3>1, <4>1 DEF EnrichCached, HubOK
      <4>2. CASE Enrich(r)
        <5>1. PICK answer \in DOMAIN Settled :
                known' = Remember(r, answer) /\ verdict' = [verdict EXCEPT ![r] = Settled[answer]]
          BY <4>2 DEF Enrich
        <5> QED
          BY <1>1, <3>1, <5>1 DEF Remember, HubOK
      <4>3. CASE EnrichLimited(r)
        BY <1>1, <1>3, <3>1, <4>3 DEF EnrichLimited, HubOK, VerdictOf, PlaceOf
      <4> QED
        BY <2>11, <4>1, <4>2, <4>3
    <3> QED
      BY <1>3, <2>1, <3>1, <3>2 DEF VerdictOf, Told, Current
  <2>12. CASE Skip(r) \/ Invalid(r) \/ Finish(r) \/ EnrichFails(r) \/ Upsert(r) \/ UpsertFails(r)
              \/ RecordError(r) \/ RecordErrorFails(r) \/ Crash(r)
    BY <1>1, <2>7, <2>12 DEF Skip, Invalid, Finish, EnrichFails, Upsert, UpsertFails, RecordError, RecordErrorFails,
       Crash, Continue, Reject, Goto
  <2> QED
    BY <2>8, <2>9, <2>10, <2>11, <2>12 DEF Step
<1> QED
  BY <1>2, <1>3

LEMMA ToldStep ==
  ASSUME TypeInv, HubInv, NEW r \in Runs, Step(r), NEW row \in rows'
  PROVE  Told(row.table, row.rec, row.hub, row.run)'
<1>1. TypeOK /\ VerdictOf(r) /\ PlaceOf(r)
  BY DEF TypeInv, HubInv, InPlace
<1>2. CASE row \in rows
  <2>1. row.rec \in Records /\ row.run \in Runs /\ row.hub \in Verdicts
    BY <1>1, <1>2 DEF TypeOK
  <2> QED
    BY <1>2, <2>1, ToldStays DEF HubInv
<1>3. CASE row \notin rows
  <2>1. pc[r] = "upserting" /\ row = Row(r, Current(r), rawid[r])
    BY <1>3 DEF Step, Skip, Invalid, Accept, Finish, FindRaw, InsertRaw, FetchRaw, RawFails, Resolve, EnrichCached,
       Enrich, EnrichLimited, EnrichFails, Ask, Upsert, UpsertFails, RecordError, RecordErrorFails, Crash, db, New
  <2>2. /\ row.table = table[r] /\ row.rec = Current(r) /\ row.hub = verdict[r] /\ row.run = r
        /\ Current(r) \in Records /\ verdict[r] \in Verdicts
    BY <1>1, <2>1, CurrentType DEF Row, TypeOK, HubOK, PlaceOf, Busy, PC
  <2> QED
    BY <1>1, <2>1, <2>2, ToldStays DEF VerdictOf
<1> QED
  BY <1>2, <1>3

\* GitHub is asked once for each repository of a run, and all its papers tell the same.
THEOREM OneVerdict == Spec => []OneVerdictPerRepo
<1>1. Init => HubInv
  BY DEF Init, HubInv, AskedOf, VerdictOf
<1>2. TypeInv /\ HubInv /\ [Next]_vars => HubInv'
  <2>1. ASSUME TypeInv, HubInv, UNCHANGED vars PROVE HubInv'
    BY <2>1 DEF vars, db, job, hub, HubInv, AskedOf, VerdictOf, Told, Names, Loop, Current
  <2>2. ASSUME TypeInv, HubInv, NEW r \in Runs, Step(r) PROVE HubInv'
    BY <2>2, AskedStep, VerdictStep, ToldStep DEF HubInv
  <2> QED
    BY <2>1, <2>2 DEF Next
<1>3. TypeInv /\ [Next]_vars => TypeInv'
  BY PlaceStep, TypeStep, TypeStutters DEF Next, TypeInv
<1>4. HubInv => OneVerdictPerRepo
  BY DEF HubInv, AskedOf, Told, OneVerdictPerRepo
<1> QED
  BY InitType, <1>1, <1>2, <1>3, <1>4, PTL DEF Spec
-----------------------------------------------------------------------------
\* What the gates promise of a single record.

\* The schemas leave nothing for the tables to find: what a schema of schemas.py accepts
\* satisfies the NOT NULL, CHECK and enum constraints of its table in models.py, so only
\* a value that is too long, too large or contains a NUL can be refused.
THEOREM AcceptedFits ==
  ASSUME NEW d \in Datum, NEW t, Accepts(t, d), ~Unfit(d)
  PROVE  Fits(t, d)
<1>1. \A f \in TextFields : d.text[f] \notin {"long", "nul"}
  BY DEF Unfit
<1>2. /\ \A f \in TextFields : Text(d.text[f]) /\ Varchar(d.text[f])
      /\ \A x : Filled(x) => NotNull(x)
      /\ d.link = "http" => NotNull(d.link)
  BY <1>1 DEF Text, Varchar, Filled, NotNull
<1>3. Counts(d.count) => Natural(d.count)
  BY DEF Unfit, Counts, Natural
<1>4. CASE t = "research" /\ ResearchAccepts(d)
  BY <1>2, <1>3, <1>4 DEF ResearchAccepts, ResearchFits, Fits, TextFields
<1>5. CASE t = "news" /\ NewsAccepts(d)
  BY <1>2, <1>5 DEF NewsAccepts, NewsFits, Fits, TextFields
<1>6. CASE t = "jobs" /\ JobAccepts(d)
  BY <1>2, <1>6 DEF JobAccepts, JobFits, Fits, TextFields, NotNull
<1>7. CASE t = "startups" /\ StartupAccepts(d)
  BY <1>2, <1>3, <1>7 DEF StartupAccepts, StartupFits, Fits, TextFields
<1>8. CASE t = "products" /\ ProductAccepts(d)
  BY <1>2, <1>8 DEF ProductAccepts, ProductFits, Fits, TextFields
<1> QED
  BY <1>4, <1>5, <1>6, <1>7, <1>8 DEF Accepts

\* A good article has a complete publication date of the last day, a good job one in its
\* window.
LEMMA GoodIsFresh ==
  ASSUME NEW d \in Datum, NEW t, KindOf(t, d) = "good"
  PROVE  /\ Accepts(t, d)
         /\ t = "news" => \E f \in {"feed", "jsonld", "meta"} :
                            Timestamp(d.date[f]) /\ d.date[f].at \in -Day .. 0
         /\ t = "jobs" => d.date["posted"].form # "none" /\ d.date["posted"].at \in -Window .. Skew
<1>1. Accepts(t, d) /\ Fresh(t, d)
  BY DEF KindOf
<1>2. \A f \in DateFields : d.date[f].at \in Int
  BY DEF Datum, Dates
<1>3. \A x \in Int, window \in Nat, skew \in Nat : IsFresh(x, window, skew) => x \in -window .. skew
  BY DEF IsFresh
<1>4. CASE t = "news"
  <2>1. NewsAccepts(d)
    BY <1>1, <1>4 DEF Accepts
  <2>2. PublicationField(d) \in {"feed", "jsonld", "meta"} /\ Timestamp(d.date[PublicationField(d)])
    BY <2>1 DEF NewsAccepts, PublicationField
  <2>3. IsFresh(d.date[PublicationField(d)].at, Day, 0)
    BY <1>1, <1>4 DEF Fresh
  <2>4. d.date[PublicationField(d)].at \in Int
    BY <1>2, <2>2 DEF DateFields
  <2>5. d.date[PublicationField(d)].at \in -Day .. 0
    BY <1>3, <2>3, <2>4, ClockAssumption
  <2> QED
    BY <1>1, <1>4, <2>2, <2>5
<1>5. CASE t = "jobs"
  <2>1. JobAccepts(d)
    BY <1>1, <1>5 DEF Accepts
  <2>2. d.date["posted"].at \in Int
    BY <1>2 DEF DateFields
  <2>3. IsFresh(d.date["posted"].at, Window, Skew)
    BY <1>1, <1>5 DEF Fresh
  <2>4. d.date["posted"].at \in -Window .. Skew
    BY <1>3, <2>2, <2>3, ClockAssumption
  <2> QED
    BY <1>1, <1>5, <2>1, <2>4 DEF JobAccepts
<1> QED
  BY <1>1, <1>4, <1>5

-----------------------------------------------------------------------------
\* A run works on a record, other than to report it, only when the gates let it through;
\* so did the run that stored a row.  What a run reports as refused by the database
\* without a fault has a value the database has no room for.
PassedOf(r) ==
  pc[r] \in Busy \ {"recording"} => Kind(table[r], Current(r)) = "good"

RefusedOf(r) ==
  pc[r] = "recording" /\ category[r] = "PersistenceError" => faults > 0 \/ Unfit(Data[Current(r)])

GateInv ==
  /\ \A r \in Runs : PassedOf(r) /\ RefusedOf(r)
  /\ \A row \in rows : row.rec \in Records /\ Kind(row.table, row.rec) = "good"
  /\ OnlySizeIsRefused

LEMMA KindType ==
  ASSUME NEW t, NEW rec \in Records
  PROVE  Kind(t, rec) \in {"good", "invalid", "stale", "empty"}
BY DEF Kind, KindOf

LEMMA PassedStep ==
  ASSUME TypeInv, GateInv, NEW r \in Runs, Step(r), NEW s \in Runs
  PROVE  PassedOf(s)'
<1>1. TypeOK /\ PassedOf(s) /\ pc \in [Runs -> PC]
  BY DEF TypeInv, TypeOK, GateInv
<1>2. CASE s # r
  BY <1>1, <1>2, OthersUnchanged DEF PassedOf, Current
<1>3. CASE s = r
  <2>1. table' = table /\ batch' = batch
    BY <1>1, OthersUnchanged DEF Step, Skip, Invalid, Accept, Finish, FindRaw, InsertRaw, FetchRaw, RawFails, Resolve,
       EnrichCached, Enrich, EnrichLimited, EnrichFails, Ask, Upsert, UpsertFails, RecordError, RecordErrorFails,
       Crash, job
  <2>2. CASE Accept(r)
    <3>1. Current(r) \in Records
      BY <1>1, <2>2, CurrentType DEF Accept
    <3>2. Kind(table[r], Current(r)) = "good"
      BY <2>2, <3>1, KindType DEF Accept, Gated
    <3> QED
      BY <1>3, <2>1, <2>2, <3>2 DEF Accept, PassedOf, Current
  <2>3. CASE pc'[r] \in {"next", "recording", "done", "aborted", "crashed"}
    BY <1>3, <2>3 DEF PassedOf, Busy
  <2>4. CASE at' = at /\ pc[r] \in Busy \ {"recording"}
    BY <1>1, <1>3, <2>1, <2>4 DEF PassedOf, Current
  <2>5. CASE Skip(r) \/ Invalid(r) \/ Finish(r) \/ Upsert(r) \/ UpsertFails(r) \/ RecordError(r)
             \/ RecordErrorFails(r) \/ Crash(r) \/ EnrichFails(r)
    BY <1>1, <2>3, <2>5 DEF Skip, Invalid, Finish, Upsert, UpsertFails, RecordError, RecordErrorFails, Crash,
       EnrichFails, Continue, Reject, Goto
  <2>6. CASE FindRaw(r) \/ InsertRaw(r) \/ FetchRaw(r) \/ RawFails(r) \/ Resolve(r) \/ EnrichCached(r)
             \/ Enrich(r) \/ EnrichLimited(r)
    BY <2>4, <2>6 DEF FindRaw, InsertRaw, FetchRaw, RawFails, Resolve, EnrichCached, Enrich, EnrichLimited, Ask, Busy, PC
  <2> QED
    BY <2>2, <2>5, <2>6 DEF Step
<1> QED
  BY <1>2, <1>3

LEMMA RefusedStep ==
  ASSUME TypeInv, SourceInv, GateInv, NEW r \in Runs, Step(r), NEW s \in Runs
  PROVE  RefusedOf(s)'
<1>1. TypeOK /\ RefusedOf(s) /\ PassedOf(r) /\ SourceOf(r) /\ PlaceOf(r) /\ pc \in [Runs -> PC] /\ faults \in Nat
  <2>1. TypeOK /\ RefusedOf(s) /\ PassedOf(r) /\ SourceOf(r) /\ PlaceOf(r)
    BY DEF TypeInv, GateInv, SourceInv, InPlace
  <2> QED BY <2>1, DataAssumption DEF TypeOK
<1>2. faults > 0 => faults' > 0
  BY <1>1, FaultsStay
<1>3. CASE s # r
  BY <1>1, <1>2, <1>3, OthersUnchanged DEF RefusedOf, Current
<1>4. CASE s = r
  <2>1. CASE UpsertFails(r)
    <3>1. at' = at /\ batch' = batch /\ Current(r) \in Records /\ Data[Current(r)] \in Datum
      BY <1>1, <2>1, CurrentType, DataAssumption DEF UpsertFails, job, PlaceOf, Busy, PC
    <3>2. CASE ~Storable(r) /\ UNCHANGED faults
      <4>1. Accepts(table[r], Data[Current(r)])
        BY <1>1, <2>1, <3>1, GoodIsFresh DEF UpsertFails, PassedOf, Busy, PC, Kind
      <4>2. Unfit(Data[Current(r)])
        BY <3>1, <3>2, <4>1, AcceptedFits DEF Storable
      <4> QED
        BY <1>4, <3>1, <4>2 DEF RefusedOf, Current
    <3>3. CASE faults' > 0
      BY <1>4, <3>3 DEF RefusedOf
    <3>4. (~Storable(r) /\ UNCHANGED faults) \/ faults' > 0
      BY <1>1, <1>2, <2>1 DEF UpsertFails, StatementFails, SourceOf, Fault
    <3> QED
      BY <3>2, <3>3, <3>4
  <2>2. CASE ~UpsertFails(r)
    <3>1. pc'[r] # "recording" \/ category'[r] # "PersistenceError"
      <4>1. CASE Invalid(r) \/ RawFails(r)
        BY <1>1, <4>1, NextStepType DEF Invalid, RawFails, Reject, Goto, TypeOK
      <4>2. CASE ~(Invalid(r) \/ RawFails(r))
        BY <1>1, <2>2, <4>2, NextStepType DEF Step, Skip, Accept, FirstStep, Finish, FindRaw, InsertRaw, FetchRaw, HaveRaw, Resolve,
           EnrichCached, Enrich, EnrichLimited, EnrichFails, Ask, Upsert, RecordError, RecordErrorFails, Crash,
           Continue, Goto
      <4> QED
        BY <4>1, <4>2
    <3> QED
      BY <1>4, <3>1 DEF RefusedOf
  <2> QED
    BY <2>1, <2>2
<1> QED
  BY <1>3, <1>4

LEMMA GateStep ==
  ASSUME TypeInv, SourceInv, GateInv, NEW r \in Runs, Step(r)
  PROVE  GateInv'
<1>1. /\ TypeOK /\ PassedOf(r) /\ RefusedOf(r) /\ PlaceOf(r)
      /\ faults > 0 => faults' > 0
  BY FaultsStay DEF TypeInv, GateInv, InPlace
<1>2. \A row \in rows' : row.rec \in Records /\ Kind(row.table, row.rec) = "good"
  <2>1. SUFFICES ASSUME NEW row \in rows', row \notin rows
                 PROVE  row.rec \in Records /\ Kind(row.table, row.rec) = "good"
    BY DEF GateInv
  <2>2. pc[r] = "upserting" /\ row = Row(r, Current(r), rawid[r])
    BY <2>1 DEF Step, Skip, Invalid, Accept, Finish, FindRaw, InsertRaw, FetchRaw, RawFails, Resolve, EnrichCached,
       Enrich, EnrichLimited, EnrichFails, Ask, Upsert, UpsertFails, RecordError, RecordErrorFails, Crash, db, New
  <2> QED
    BY <1>1, <2>2, CurrentType DEF Row, PassedOf, PlaceOf, Busy, PC
<1>3. OnlySizeIsRefused'
  <2>1. SUFFICES ASSUME NEW err \in errors', err \notin errors, err.category = "PersistenceError"
                 PROVE  faults' > 0 \/ Unfit(Data[err.rec])
    BY <1>1 DEF GateInv, OnlySizeIsRefused
  <2>2. pc[r] = "recording" /\ err = [run |-> r, rec |-> Current(r), category |-> category[r]]
    BY <2>1 DEF Step, Skip, Invalid, Accept, Finish, FindRaw, InsertRaw, FetchRaw, RawFails, Resolve, EnrichCached,
       Enrich, EnrichLimited, EnrichFails, Ask, Upsert, UpsertFails, RecordError, RecordErrorFails, Crash, db
  <2> QED
    BY <1>1, <2>1, <2>2 DEF RefusedOf
<1> QED
  BY <1>2, <1>3, PassedStep, RefusedStep DEF GateInv

LEMMA GateCorrect == Spec => [](TypeInv /\ SourceInv /\ GateInv)
<1>1. Init => TypeInv /\ SourceInv /\ GateInv
  BY InitType DEF Init, SourceInv, SourceOf, Provenance, CanExecute, GateInv, PassedOf, RefusedOf, OnlySizeIsRefused, Busy
<1>2. TypeInv /\ SourceInv /\ GateInv /\ [Next]_vars => (TypeInv /\ SourceInv /\ GateInv)'
  <2>1. ASSUME TypeInv, SourceInv, GateInv, NEW r \in Runs, Step(r) PROVE (SourceInv /\ GateInv)'
    BY <2>1, SourceStep, RowsStep, GateStep DEF SourceInv
  <2>2. ASSUME TypeInv, SourceInv, GateInv, UNCHANGED vars PROVE (SourceInv /\ GateInv)'
    BY <2>2 DEF SourceInv, SourceOf, Sourced, Provenance, Current, CanExecute, GateInv, PassedOf, RefusedOf,
       OnlySizeIsRefused, vars, db, job, hub
  <2> QED
    BY <2>1, <2>2, PlaceStep, TypeStep, TypeStutters DEF Next, TypeInv
<1> QED
  BY <1>1, <1>2, PTL DEF Spec

\* A stored article was published within the last day, whatever its later dates say, and
\* a stored job within its window.
THEOREM RepostsStayOut == Spec => []RepostsStayStale
<1>1. GateInv => RepostsStayStale
  <2>1. SUFFICES ASSUME GateInv, NEW row \in rows
                 PROVE  LET dates == Data[row.rec].date
                        IN  /\ row.table = "news" =>
                                 \E f \in {"feed", "jsonld", "meta"} :
                                   Timestamp(dates[f]) /\ dates[f].at \in -Day .. 0
                            /\ row.table = "jobs" =>
                                 dates["posted"].form # "none" /\ dates["posted"].at \in -Window .. Skew
    BY DEF RepostsStayStale
  <2>2. row.rec \in Records /\ KindOf(row.table, Data[row.rec]) = "good"
    BY <2>1 DEF GateInv, Kind
  <2>3. Data[row.rec] \in Datum
    BY <2>2, DataAssumption
  <2> QED
    BY <2>2, <2>3, GoodIsFresh
<1> QED
  BY <1>1, GateCorrect, PTL

\* Without faults the database refuses only what it has no room for.
THEOREM OnlySize == Spec => []OnlySizeIsRefused
<1>1. GateInv => OnlySizeIsRefused
  BY DEF GateInv
<1> QED
  BY <1>1, GateCorrect, PTL
=============================================================================
