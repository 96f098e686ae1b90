--------------------- MODULE EntityResolution_proofs ---------------------
(***************************************************************************)
(* Safety of entity resolution for any number of overlapping runs, any     *)
(* names and any similarity score: what a run's index, the aliases and the *)
(* mapping log may say, given that other runs commit between any two of    *)
(* its steps.                                                              *)
(***************************************************************************)
EXTENDS EntityResolution, TLAPS

\* What a decision that is about to be written promises.  A link is pending with
\* the key it matched, which is another name than its own since its own is not in
\* the index; a creation is pending for its own name.
Linkable(n, e) ==
  /\ e \in canonical
  /\ \E c \in Names \ {n} : Score[n][c] >= Threshold /\ (c = e \/ alias[c] = e)

Pending ==
  \A r \in Runs :
    /\ result[r].run = r
    /\ pc[r] = "aliasing" =>
         /\ result[r].method = "fuzzy"
         /\ index[r][Arg(r)] = NoEntity
         /\ Linkable(Arg(r), result[r].entity)
    /\ pc[r] = "creating" => result[r].method = "created" /\ result[r].entity = Arg(r)

\* A run's snapshot is empty until it loads its index, and rows are never deleted.
SnapshotIsCommitted == \A r \in Runs : snapshot[r] \subseteq canonical

Inv == TypeOK /\ Pending /\ SnapshotIsCommitted /\ IndexIsCommitted /\ LinksAboveThreshold

-----------------------------------------------------------------------------
\* A decision is built from a run, a name, an entity and a method.
LEMMA DecideType ==
  ASSUME NEW r \in Runs, NEW n \in Names, NEW e \in NameOrNone, NEW m \in Methods
  PROVE  /\ Decide(r, n, e, m) \in Decision
         /\ Decide(r, n, e, m).run = r
         /\ Decide(r, n, e, m).name = n
         /\ Decide(r, n, e, m).entity = e
         /\ Decide(r, n, e, m).method = m
BY DEF Decide, Decision

LEMMA NoDecisionType ==
  ASSUME NEW r \in Runs
  PROVE  NoDecision(r) \in Decision /\ NoDecision(r).run = r
<1>1. (CHOOSE n \in Names : TRUE) \in Names
  BY NamesAssumption
<1>2. NoEntity \in NameOrNone /\ "unresolved" \in Methods
  BY DEF NameOrNone, Methods
<1> QED
  BY <1>1, <1>2, DecideType DEF NoDecision

LEMMA InitInv == Init => Inv
<1> SUFFICES ASSUME Init PROVE Inv
  OBVIOUS
<1>1. TypeOK
  <2>1. EmptyIndex \in [Names -> NameOrNone]
    BY DEF EmptyIndex, NameOrNone
  <2>2. result \in [Runs -> Decision]
    BY NoDecisionType DEF Init
  <2>3. index \in [Runs -> [Names -> NameOrNone]] /\ alias \in [Names -> NameOrNone]
    BY <2>1 DEF Init
  <2>4. pc \in [Runs -> {"new", "loading", "ready", "classifying", "aliasing", "creating",
                         "logging"}]
    BY DEF Init
  <2>5. resolves \in 0 .. MaxResolves /\ crashes \in 0 .. MaxCrashes /\ failures \in 0 .. MaxFailures
    BY BoundsAssumption DEF Init
  <2>6. /\ canonical \in SUBSET Names /\ log \in SUBSET Decision
        /\ snapshot \in [Runs -> SUBSET Names] /\ overlapped \in BOOLEAN
    BY DEF Init
  <2> QED
    BY <2>2, <2>3, <2>4, <2>5, <2>6 DEF TypeOK
<1>2. Pending
  BY NoDecisionType DEF Init, Pending
<1>3. SnapshotIsCommitted /\ IndexIsCommitted /\ LinksAboveThreshold
  BY DEF Init, SnapshotIsCommitted, IndexIsCommitted, LinksAboveThreshold, EmptyIndex
<1> QED
  BY <1>1, <1>2, <1>3 DEF Inv

-----------------------------------------------------------------------------
LEMMA TypeStep == TypeOK /\ Pending /\ [Next]_vars => TypeOK'
<1> SUFFICES ASSUME TypeOK, Pending, [Next]_vars PROVE TypeOK'
  OBVIOUS
<1> USE DEF TypeOK, db, hist
<1>1. ASSUME NEW r \in Runs, LoadCanonical(r) PROVE TypeOK'
  BY <1>1 DEF LoadCanonical, NameOrNone
<1>2. ASSUME NEW r \in Runs, LoadAliases(r) PROVE TypeOK'
  BY <1>2 DEF LoadAliases, WithAliases, NameOrNone
<1>3. ASSUME NEW r \in Runs, NEW n \in Names, Resolve(r, n) PROVE TypeOK'
  <2>1. ASSUME NEW where \in {"classifying", "aliasing", "creating", "logging"},
               NEW e \in NameOrNone, NEW m \in Methods, Goto(r, where, n, e, m)
        PROVE  TypeOK'
    <3>1. Decide(r, n, e, m) \in Decision
      BY DecideType
    <3>2. resolves' \in 0 .. MaxResolves
      BY <1>3, BoundsAssumption DEF Resolve
    <3> QED
      BY <1>3, <2>1, <3>1, <3>2 DEF Resolve, Goto
  <2>2. NoEntity \in NameOrNone /\ n \in NameOrNone
    BY DEF NameOrNone
  <2>3. {"unresolved", "alias", "fuzzy", "created"} \subseteq Methods
    BY DEF Methods
  <2>4. \A c \in Matching(r, n) : index[r][c] \in NameOrNone
    BY DEF Matching, BestMatches, Known
  <2>5. index[r][n] \in NameOrNone
    OBVIOUS
  <2> HIDE DEF TypeOK
  <2> QED
    BY <1>3, <2>1, <2>2, <2>3, <2>4, <2>5 DEF Resolve
<1>4. ASSUME NEW r \in Runs, ClassifyHit(r) PROVE TypeOK'
  <2>1. PICK m \in Methods : result' = [result EXCEPT ![r].method = m]
    BY <1>4 DEF ClassifyHit, Methods
  <2>2. [result[r] EXCEPT !.method = m] \in Decision
    BY DEF Decision
  <2>3. result' \in [Runs -> Decision]
    BY <2>1, <2>2
  <2> QED
    BY <1>4, <2>3 DEF ClassifyHit, Logging
<1>5. ASSUME NEW r \in Runs, RegisterAlias(r) PROVE TypeOK'
  <2>1. Arg(r) \in Names /\ result[r].entity \in NameOrNone
    BY DEF Decision, Arg
  <2>2. pc' \in [Runs -> {"new", "loading", "ready", "classifying", "aliasing", "creating",
                          "logging"}]
    BY <1>5 DEF RegisterAlias, Logging
  <2>3. CASE alias[Arg(r)] = NoEntity
    <3>1. alias' \in [Names -> NameOrNone]
      BY <1>5, <2>1, <2>3 DEF RegisterAlias
    <3>2. [index[r] EXCEPT ![Arg(r)] = result[r].entity] \in [Names -> NameOrNone]
      BY <2>1
    <3>3. index' = [index EXCEPT ![r] = [index[r] EXCEPT ![Arg(r)] = result[r].entity]]
      BY <1>5, <2>3 DEF RegisterAlias
    <3>4. index' \in [Runs -> [Names -> NameOrNone]]
      BY <3>2, <3>3
    <3> QED
      BY <1>5, <2>2, <3>1, <3>4 DEF RegisterAlias
  <2>4. CASE alias[Arg(r)] # NoEntity
    <3>1. alias' = alias /\ index' \in [Runs -> [Names -> NameOrNone]]
      BY <1>5, <2>4 DEF RegisterAlias, IndexAfterConflict
    <3> QED
      BY <1>5, <2>2, <3>1 DEF RegisterAlias
  <2> QED
    BY <2>3, <2>4
<1>6. ASSUME NEW r \in Runs, CreateEntity(r) PROVE TypeOK'
  <2>1. Arg(r) \in Names /\ Arg(r) \in NameOrNone
    BY DEF Decision, Arg, NameOrNone
  <2> QED
    BY <1>6, <2>1 DEF CreateEntity, Logging
<1>7. ASSUME NEW r \in Runs, Log(r) PROVE TypeOK'
  BY <1>7, NoDecisionType DEF Log, Logged, Return
<1>8. ASSUME NEW r \in Runs, CommitFails(r) PROVE TypeOK'
  <2>1. failures' \in 0 .. MaxFailures
    BY <1>8, BoundsAssumption DEF CommitFails
  <2>2. result' \in [Runs -> Decision]
    BY <1>8, NoDecisionType DEF CommitFails, Return
  <2>3. pc' = [pc EXCEPT ![r] = "logging"] \/ pc' = [pc EXCEPT ![r] = "ready"]
    BY <1>8 DEF CommitFails, Logging, Return
  <2> QED
    BY <1>8, <2>1, <2>2, <2>3 DEF CommitFails
<1>9. ASSUME NEW r \in Runs, EndRun(r) PROVE TypeOK'
  BY <1>9, NoDecisionType DEF EndRun, Forget, EmptyIndex, NameOrNone
<1>10. ASSUME NEW r \in Runs, Crash(r) PROVE TypeOK'
  <2>1. crashes' \in 0 .. MaxCrashes
    BY <1>10, BoundsAssumption DEF Crash
  <2> QED
    BY <1>10, <2>1, NoDecisionType DEF Crash, Forget, EmptyIndex, NameOrNone
<1>11. CASE UNCHANGED vars
  BY <1>11 DEF vars
<1> HIDE DEF TypeOK
<1> QED
  BY <1>1, <1>2, <1>3, <1>4, <1>5, <1>6, <1>7, <1>8, <1>9, <1>10, <1>11 DEF Next, Step
-----------------------------------------------------------------------------
\* Rows and aliases are only ever added, so what was committed stays committed.
LEMMA CommittedStays ==
  ASSUME TypeOK, Pending, [Next]_vars
  PROVE  /\ canonical \subseteq canonical'
         /\ \A n \in Names : alias[n] # NoEntity => alias'[n] = alias[n]
<1> USE DEF TypeOK, db
<1>1. ASSUME NEW r \in Runs, RegisterAlias(r)
      PROVE  /\ canonical \subseteq canonical'
             /\ \A n \in Names : alias[n] # NoEntity => alias'[n] = alias[n]
  <2>1. Arg(r) \in Names
    BY DEF Decision, Arg
  <2> QED
    BY <1>1, <2>1 DEF RegisterAlias
<1>2. ASSUME NEW r \in Runs, Step(r), ~RegisterAlias(r)
      PROVE  canonical \subseteq canonical' /\ alias' = alias
  BY <1>2 DEF Step, LoadCanonical, LoadAliases, Resolve, ClassifyHit, CreateEntity, Log,
              CommitFails, EndRun, Crash, Forget
<1> QED
  BY <1>1, <1>2 DEF Next, vars

LEMMA LinkableStays ==
  ASSUME TypeOK, Pending, [Next]_vars, NEW n \in Names, NEW e \in NameOrNone, Linkable(n, e)
  PROVE  /\ e \in canonical'
         /\ \E c \in Names \ {n} : Score[n][c] >= Threshold /\ (c = e \/ alias'[c] = e)
<1>1. e \in Names /\ e # NoEntity
  BY NamesAssumption DEF Linkable, TypeOK
<1> QED
  BY <1>1, CommittedStays DEF Linkable

LEMMA SnapshotStep == Inv /\ [Next]_vars => SnapshotIsCommitted'
<1> SUFFICES ASSUME Inv, [Next]_vars, NEW s \in Runs PROVE (snapshot[s] \subseteq canonical)'
  BY DEF SnapshotIsCommitted
<1>1. canonical \subseteq canonical' /\ snapshot[s] \subseteq canonical
  BY CommittedStays DEF Inv, SnapshotIsCommitted
<1>2. snapshot'[s] = snapshot[s] \/ snapshot'[s] = {} \/ snapshot'[s] = canonical
  BY DEF Inv, TypeOK, Next, Step, LoadCanonical, LoadAliases, Resolve, ClassifyHit, RegisterAlias,
         CreateEntity, Log, CommitFails, EndRun, Crash, Forget, vars, hist
<1> QED
  BY <1>1, <1>2

\* A resolver's own steps keep its promises; the other runs' steps leave its
\* control state, decision and index alone.
LEMMA PendingStep == Inv /\ [Next]_vars => Pending'
<1> DEFINE Promise(s) ==
      /\ result[s].run = s
      /\ pc[s] = "aliasing" => /\ result[s].method = "fuzzy"
                               /\ index[s][Arg(s)] = NoEntity
                               /\ Linkable(Arg(s), result[s].entity)
      /\ pc[s] = "creating" => result[s].method = "created" /\ result[s].entity = Arg(s)
<1> SUFFICES ASSUME Inv, [Next]_vars, NEW s \in Runs PROVE Promise(s)'
  BY DEF Pending
<1>1. TypeOK /\ Pending /\ Promise(s) /\ IndexIsCommitted
  BY DEF Inv, Pending
<1>2. result[s] \in Decision /\ Arg(s) \in Names /\ result[s].entity \in NameOrNone
  BY <1>1 DEF TypeOK, Arg, Decision
<1>3. CASE pc'[s] = pc[s] /\ result'[s] = result[s] /\ index'[s] = index[s]
  <2>1. Arg(s)' = Arg(s)
    BY <1>3 DEF Arg
  <2>2. ASSUME pc[s] = "aliasing" PROVE Linkable(Arg(s), result[s].entity)'
    <3> DEFINE n == Arg(s)
               e == result[s].entity
    <3>1. /\ e \in canonical'
          /\ \E c \in Names \ {n} : Score[n][c] >= Threshold /\ (c = e \/ alias'[c] = e)
      BY <1>1, <1>2, <2>2, LinkableStays
    <3> QED
      BY <1>3, <2>1, <3>1 DEF Linkable
  <2> QED
    BY <1>1, <1>3, <2>1, <2>2
<1>4. ASSUME NEW r \in Runs, Step(r), r # s
      PROVE  pc'[s] = pc[s] /\ result'[s] = result[s] /\ index'[s] = index[s]
  BY <1>1, <1>4 DEF TypeOK, Step, LoadCanonical, LoadAliases, Resolve, Goto, ClassifyHit,
       RegisterAlias, CreateEntity, Log, CommitFails, EndRun, Crash, Forget, Return, Logging
<1>5. ASSUME result'[s].run = s, pc'[s] \notin {"aliasing", "creating"} PROVE Promise(s)'
  BY <1>5
<1>6. CASE LoadCanonical(s)
  BY <1>1, <1>5, <1>6 DEF LoadCanonical, TypeOK
<1>7. CASE LoadAliases(s)
  BY <1>1, <1>5, <1>7 DEF LoadAliases, TypeOK
<1>8. ASSUME NEW n \in Names, Resolve(s, n) PROVE Promise(s)'
  <2>0. /\ \A e \in NameOrNone, m \in Methods :
             /\ Decide(s, n, e, m).run = s /\ Decide(s, n, e, m).name = n
             /\ Decide(s, n, e, m).entity = e /\ Decide(s, n, e, m).method = m
        /\ NoEntity \in NameOrNone /\ n \in NameOrNone
        /\ \A c \in Names : index[s][c] \in NameOrNone
        /\ {"unresolved", "alias", "fuzzy", "created"} \subseteq Methods
    BY <1>1, DecideType DEF TypeOK, NameOrNone, Methods
  <2>1. CASE Goto(s, "logging", n, NoEntity, "unresolved")
    BY <1>1, <1>5, <2>0, <2>1 DEF Goto, TypeOK
  <2>2. CASE Goto(s, "classifying", n, index[s][n], "alias")
    BY <1>1, <1>5, <2>0, <2>2 DEF Goto, TypeOK
  <2>3. ASSUME NEW c \in Matching(s, n), index[s][n] = NoEntity,
               Goto(s, "aliasing", n, index[s][c], "fuzzy")
        PROVE  Promise(s)'
    <3>1. c \in Names /\ index[s][c] # NoEntity /\ Score[n][c] >= Threshold /\ c # n
      BY <2>3 DEF Matching, BestMatches, Known
    <3>2. index[s][c] \in canonical /\ (index[s][c] = c \/ alias[c] = index[s][c])
      BY <1>1, <3>1 DEF IndexIsCommitted
    <3>3. Linkable(n, index[s][c])
      BY <3>1, <3>2 DEF Linkable
    <3>4. canonical' = canonical /\ alias' = alias /\ index' = index
      BY <1>8 DEF Resolve, db
    <3>5. result'[s] = Decide(s, n, index[s][c], "fuzzy") /\ pc'[s] = "aliasing"
      BY <1>1, <2>3 DEF Goto, TypeOK
    <3>6. result'[s].run = s /\ Arg(s)' = n /\ result'[s].entity = index[s][c]
                             /\ result'[s].method = "fuzzy"
      BY <2>0, <3>1, <3>5 DEF Arg
    <3>7. Linkable(Arg(s), result[s].entity)'
      BY <3>3, <3>4, <3>6 DEF Linkable
    <3> QED
      BY <2>3, <3>4, <3>5, <3>6, <3>7
  <2>4. CASE Goto(s, "creating", n, n, "created")
    <3>1. result'[s] = Decide(s, n, n, "created") /\ pc'[s] = "creating"
      BY <1>1, <2>4 DEF Goto, TypeOK
    <3> QED
      BY <2>0, <3>1 DEF Arg
  <2> QED
    BY <1>8, <2>1, <2>2, <2>3, <2>4 DEF Resolve
<1>9. CASE ClassifyHit(s)
  BY <1>1, <1>2, <1>5, <1>9 DEF ClassifyHit, Logging, TypeOK, Decision
<1>10. CASE RegisterAlias(s)
  BY <1>1, <1>5, <1>10 DEF RegisterAlias, Logging, TypeOK
<1>11. CASE CreateEntity(s)
  BY <1>1, <1>5, <1>11 DEF CreateEntity, Logging, TypeOK
<1>12. CASE Log(s)
  BY <1>1, <1>5, <1>12, NoDecisionType DEF Log, Return, TypeOK
<1>13. CASE CommitFails(s)
  BY <1>1, <1>5, <1>13, NoDecisionType DEF CommitFails, Return, Logging, TypeOK
<1>14. CASE EndRun(s)
  BY <1>1, <1>5, <1>14, NoDecisionType DEF EndRun, Forget, TypeOK
<1>15. CASE Crash(s)
  BY <1>1, <1>5, <1>15, NoDecisionType DEF Crash, Forget, TypeOK
<1>16. CASE UNCHANGED vars
  BY <1>3, <1>16 DEF vars
<1> HIDE DEF Promise
<1> QED
  BY <1>3, <1>4, <1>6, <1>7, <1>8, <1>9, <1>10, <1>11, <1>12, <1>13, <1>14, <1>15, <1>16
  DEF Next, Step
LEMMA IndexStep == Inv /\ [Next]_vars => IndexIsCommitted'
<1> DEFINE Committed(s, n) == index[s][n] # NoEntity =>
             index[s][n] \in canonical /\ (index[s][n] = n \/ alias[n] = index[s][n])
<1> SUFFICES ASSUME Inv, [Next]_vars, NEW s \in Runs, NEW n \in Names PROVE Committed(s, n)'
  BY DEF IndexIsCommitted
<1>1. TypeOK /\ Pending /\ SnapshotIsCommitted /\ Committed(s, n)
  BY DEF Inv, IndexIsCommitted
<1>2. /\ canonical \subseteq canonical'
      /\ alias[n] # NoEntity => alias'[n] = alias[n]
  BY <1>1, CommittedStays
<1>3. CASE index'[s][n] = index[s][n]
  BY <1>1, <1>2, <1>3
<1>4. CASE index'[s][n] = NoEntity
  BY <1>4
<1>5. ASSUME NEW r \in Runs, LoadCanonical(r) PROVE Committed(s, n)'
  BY <1>1, <1>2, <1>3, <1>5 DEF LoadCanonical, TypeOK
<1>6. ASSUME NEW r \in Runs, LoadAliases(r) PROVE Committed(s, n)'
  <2>1. snapshot[s] \subseteq canonical
    BY <1>1 DEF SnapshotIsCommitted
  <2>2. alias' = alias
    BY <1>6 DEF LoadAliases, db
  <2>3. index'[s][n] \in {index[s][n]} \cup (IF alias[n] \in snapshot[s] THEN {alias[n]} ELSE {})
    BY <1>1, <1>6 DEF LoadAliases, WithAliases, TypeOK
  <2> QED
    BY <1>2, <1>3, <2>1, <2>2, <2>3
<1>7. ASSUME NEW r \in Runs, RegisterAlias(r) PROVE Committed(s, n)'
  <2>1. Linkable(Arg(r), result[r].entity) /\ Arg(r) \in Names
    BY <1>1, <1>7 DEF Pending, RegisterAlias, TypeOK, Decision, Arg
  <2>2. CASE r = s /\ n = Arg(r) /\ alias[Arg(r)] = NoEntity
    BY <1>1, <1>2, <1>7, <2>1, <2>2 DEF RegisterAlias, TypeOK, Linkable
  <2>3. CASE ~(r = s /\ n = Arg(r) /\ alias[Arg(r)] = NoEntity)
    BY <1>1, <1>3, <1>7, <2>1, <2>3 DEF RegisterAlias, IndexAfterConflict, TypeOK
  <2> QED
    BY <2>2, <2>3
<1>8. ASSUME NEW r \in Runs, CreateEntity(r) PROVE Committed(s, n)'
  <2>1. Arg(r) \in Names
    BY <1>1 DEF TypeOK, Decision, Arg
  <2>2. CASE r = s /\ n = Arg(r)
    BY <1>1, <1>8, <2>1, <2>2 DEF CreateEntity, TypeOK
  <2>3. CASE ~(r = s /\ n = Arg(r))
    BY <1>1, <1>3, <1>8, <2>1, <2>3 DEF CreateEntity, TypeOK
  <2> QED
    BY <2>2, <2>3
<1>9. ASSUME NEW r \in Runs, EndRun(r) \/ Crash(r) PROVE Committed(s, n)'
  BY <1>1, <1>3, <1>4, <1>9 DEF EndRun, Crash, Forget, EmptyIndex, TypeOK
<1>10. ASSUME NEW r \in Runs,
              \/ \E m \in Names : Resolve(r, m)
              \/ ClassifyHit(r) \/ Log(r) \/ CommitFails(r)
       PROVE  Committed(s, n)'
  BY <1>3, <1>10 DEF Resolve, ClassifyHit, Log, CommitFails
<1>11. CASE UNCHANGED vars
  BY <1>3, <1>11 DEF vars
<1> HIDE DEF Committed
<1> QED
  BY <1>5, <1>6, <1>7, <1>8, <1>9, <1>10, <1>11 DEF Next, Step

LEMMA LinksStep == Inv /\ [Next]_vars => LinksAboveThreshold'
<1> SUFFICES ASSUME Inv, [Next]_vars, NEW n \in Names, alias'[n] # NoEntity
             PROVE  Linkable(n, alias[n])'
  BY DEF LinksAboveThreshold, Linkable
<1>1. TypeOK /\ Pending
  BY DEF Inv
<1>2. CASE alias[n] # NoEntity
  <2>1. Linkable(n, alias[n]) /\ alias[n] \in NameOrNone
    BY <1>1, <1>2 DEF Inv, TypeOK, LinksAboveThreshold, Linkable
  <2>2. alias'[n] = alias[n]
    BY <1>1, <1>2, CommittedStays
  <2>3. /\ alias[n] \in canonical'
        /\ \E c \in Names \ {n} : Score[n][c] >= Threshold /\ (c = alias[n] \/ alias'[c] = alias[n])
    BY <1>1, <2>1, LinkableStays
  <2> QED
    BY <2>2, <2>3 DEF Linkable
<1>3. CASE alias[n] = NoEntity
  <2>1. PICK r \in Runs : RegisterAlias(r)
    <3>1. alias' # alias
      BY <1>3
    <3> QED
      BY <3>1 DEF Next, Step, LoadCanonical, LoadAliases, Resolve, ClassifyHit, CreateEntity, Log,
                  CommitFails, EndRun, Crash, Forget, vars, db
  <2>2. Arg(r) \in Names /\ result[r].entity \in NameOrNone
    BY <1>1 DEF TypeOK, Decision, Arg
  <2>3. alias[Arg(r)] = NoEntity /\ n = Arg(r) /\ alias'[n] = result[r].entity
    BY <1>1, <1>3, <2>1, <2>2 DEF RegisterAlias, TypeOK
  <2>4. Linkable(n, result[r].entity)
    BY <1>1, <2>1, <2>3 DEF Pending, RegisterAlias
  <2>5. /\ result[r].entity \in canonical'
        /\ \E c \in Names \ {n} : /\ Score[n][c] >= Threshold
                                  /\ c = result[r].entity \/ alias'[c] = result[r].entity
    BY <1>1, <2>2, <2>4, LinkableStays
  <2> QED
    BY <2>3, <2>5 DEF Linkable
<1> QED
  BY <1>2, <1>3

-----------------------------------------------------------------------------
\* The strengthening is inductive.
THEOREM Invariant == Spec => []Inv
<1>1. Inv /\ [Next]_vars => Inv'
  BY TypeStep, PendingStep, SnapshotStep, IndexStep, LinksStep DEF Inv
<1> QED
  BY InitInv, <1>1, PTL DEF Spec

\* Every variable keeps its type.
THEOREM TypeCorrect == Spec => []TypeOK
<1>1. Inv => TypeOK
  BY DEF Inv
<1> QED
  BY Invariant, <1>1, PTL

\* Whatever the other runs commit, an index entry stands for a committed row or a
\* committed alias of its name: _create_entity and _register_alias update the
\* index only after the commit, and not at all on a lost alias race.
THEOREM IndexFollowsDatabase == Spec => []IndexIsCommitted
<1>1. Inv => IndexIsCommitted
  BY DEF Inv
<1> QED
  BY Invariant, <1>1, PTL

\* A fuzzy link below the threshold never reaches the database, whatever scores
\* the scorer gives and however the index grew.
THEOREM NoLinkBelowThreshold == Spec => []LinksAboveThreshold
<1>1. Inv => LinksAboveThreshold
  BY DEF Inv
<1> QED
  BY Invariant, <1>1, PTL

-----------------------------------------------------------------------------
LEMMA CanonicalRowStep == Inv /\ CanonicalRowWins /\ [Next]_vars => CanonicalRowWins'
<1> SUFFICES ASSUME Inv, CanonicalRowWins, [Next]_vars, NEW s \in Runs, NEW n \in snapshot'[s]
             PROVE  index'[s][n] = n
  BY DEF CanonicalRowWins
<1>1. TypeOK /\ Pending /\ \A m \in snapshot[s] : index[s][m] = m
  BY DEF Inv, CanonicalRowWins
<1>2. snapshot[s] \subseteq Names /\ NoEntity \notin snapshot[s]
  BY <1>1, NamesAssumption DEF TypeOK
<1>3. ASSUME NEW r \in Runs, LoadCanonical(r) PROVE index'[s][n] = n
  BY <1>1, <1>3 DEF LoadCanonical, TypeOK
<1>4. ASSUME NEW r \in Runs, LoadAliases(r) PROVE index'[s][n] = n
  BY <1>1, <1>2, <1>4 DEF LoadAliases, WithAliases, TypeOK, hist
<1>5. ASSUME NEW r \in Runs, RegisterAlias(r) PROVE index'[s][n] = n
  <2>1. Arg(r) \in Names /\ index[r][Arg(r)] = NoEntity /\ n \in snapshot[s]
    BY <1>1, <1>5 DEF RegisterAlias, Pending, TypeOK, Decision, Arg, hist
  <2>2. r = s => n # Arg(r)
    BY <1>1, <1>2, <2>1
  <2> QED
    BY <1>1, <1>2, <1>5, <2>1, <2>2 DEF RegisterAlias, IndexAfterConflict, TypeOK
<1>6. ASSUME NEW r \in Runs, CreateEntity(r) PROVE index'[s][n] = n
  <2>1. Arg(r) \in Names /\ n \in snapshot[s]
    BY <1>1, <1>6 DEF CreateEntity, TypeOK, Decision, Arg, hist
  <2> QED
    BY <1>1, <1>2, <1>6, <2>1 DEF CreateEntity, TypeOK
<1>7. ASSUME NEW r \in Runs, EndRun(r) \/ Crash(r) PROVE index'[s][n] = n
  BY <1>1, <1>7 DEF EndRun, Crash, Forget, TypeOK
<1>8. ASSUME NEW r \in Runs,
             \/ \E m \in Names : Resolve(r, m)
             \/ ClassifyHit(r) \/ Log(r) \/ CommitFails(r)
      PROVE  index'[s][n] = n
  BY <1>1, <1>8 DEF Resolve, ClassifyHit, Log, CommitFails, hist
<1>9. CASE UNCHANGED vars
  BY <1>1, <1>9 DEF vars, hist
<1> QED
  BY <1>3, <1>4, <1>5, <1>6, <1>7, <1>8, <1>9 DEF Next, Step

\* For the whole run a name resolves to the row that was canonical when the run
\* loaded its index: setdefault and the alias race never displace it.
THEOREM LoadedRowsWin == Spec => []CanonicalRowWins
<1>1. Init => CanonicalRowWins
  BY DEF Init, CanonicalRowWins
<1> QED
  BY Invariant, CanonicalRowStep, <1>1, PTL DEF Spec
-----------------------------------------------------------------------------
\* Every change is logged: the run that commits a change goes straight to
\* logging the decision behind it, and only a crash keeps it from arriving.
LEMMA CrashesGrow == TypeOK /\ [Next]_vars /\ crashes' = 0 => crashes = 0
BY DEF TypeOK, Next, Step, LoadCanonical, LoadAliases, Resolve, ClassifyHit, RegisterAlias,
       CreateEntity, Log, CommitFails, EndRun, Crash, Forget, vars

LEMMA TracedStays ==
  ASSUME Inv, [Next]_vars, crashes' = 0, NEW d, Traced(d)
  PROVE  d \in log' \/ \E r \in Runs : pc'[r] = "logging" /\ result'[r] = d
<1>1. TypeOK
  BY DEF Inv
<1>2. CASE d \in log
  BY <1>2 DEF Next, Step, LoadCanonical, LoadAliases, Resolve, ClassifyHit, RegisterAlias,
       CreateEntity, Log, CommitFails, EndRun, Crash, Forget, vars, db
<1>3. ASSUME NEW s \in Runs, pc[s] = "logging", result[s] = d
      PROVE  d \in log' \/ (pc'[s] = "logging" /\ result'[s] = d)
  <2>1. ASSUME NEW r \in Runs, Step(r), r # s PROVE pc'[s] = pc[s] /\ result'[s] = result[s]
    BY <1>1, <2>1 DEF TypeOK, Step, LoadCanonical, LoadAliases, Resolve, Goto, ClassifyHit,
         RegisterAlias, CreateEntity, Log, CommitFails, EndRun, Crash, Forget, Return, Logging
  <2>2. ASSUME Step(s) PROVE d \in log'
    <3>1. ~Crash(s)
      BY <1>1 DEF Crash, TypeOK
    <3>2. Log(s)
      BY <1>3, <2>2, <3>1 DEF Step, LoadCanonical, LoadAliases, Resolve, ClassifyHit,
           RegisterAlias, CreateEntity, CommitFails, EndRun
    <3> QED
      BY <1>3, <3>2 DEF Log, Logged
  <2>3. CASE UNCHANGED vars
    BY <1>3, <2>3 DEF vars
  <2>4. ASSUME NEW r \in Runs, Step(r) PROVE d \in log' \/ (pc'[s] = "logging" /\ result'[s] = d)
    BY <1>3, <2>1, <2>2, <2>4
  <2> QED
    BY <2>3, <2>4 DEF Next
<1> QED
  BY <1>2, <1>3 DEF Traced

\* The decision a run is about to commit is the one its new row is traced to.
LEMMA ChangeIsTraced ==
  ASSUME Inv, NEW r \in Runs, pc[r] \in {"aliasing", "creating"}, Logging(r), result' = result
  PROVE  \E s \in Runs : pc'[s] = "logging" /\
           result'[s] = Decide(r, Arg(r), result[r].entity, result[r].method)
<1>1. result[r] \in Decision /\ result[r].run = r
  BY DEF Inv, TypeOK, Pending
<1>2. result[r] = Decide(r, Arg(r), result[r].entity, result[r].method)
  BY <1>1 DEF Decision, Decide, Arg
<1>3. pc'[r] = "logging"
  BY DEF Inv, TypeOK, Logging
<1> QED
  BY <1>2, <1>3

LEMMA LoggedStep == Inv /\ EveryChangeIsLogged /\ [Next]_vars => EveryChangeIsLogged'
<1> DEFINE Later(d) == d \in log' \/ \E s \in Runs : pc'[s] = "logging" /\ result'[s] = d
<1> SUFFICES ASSUME Inv, EveryChangeIsLogged, [Next]_vars, crashes' = 0
             PROVE  EveryChangeIsLogged'
  BY DEF EveryChangeIsLogged
<1> SUFFICES ASSUME NEW n \in Names
             PROVE  /\ n \in canonical' => \E r \in Runs : Later(Decide(r, n, n, "created"))
                    /\ alias'[n] # NoEntity =>
                         \E r \in Runs : Later(Decide(r, n, alias'[n], "fuzzy"))
  <2>1. TypeOK'
    BY TypeStep DEF Inv
  <2>2. canonical' \subseteq Names
    BY <2>1 DEF TypeOK
  <2> QED
    BY <2>2 DEF EveryChangeIsLogged, Traced, Decide
<1>1. TypeOK /\ Pending /\ crashes = 0
  BY CrashesGrow DEF Inv
<1>2. ASSUME NEW d, Traced(d) PROVE Later(d)
  BY <1>2, TracedStays
<1>3. ASSUME n \in canonical PROVE \E r \in Runs : Later(Decide(r, n, n, "created"))
  <2>1. PICK r \in Runs : Traced(Decide(r, n, n, "created"))
    BY <1>1, <1>3 DEF EveryChangeIsLogged
  <2> HIDE DEF Later
  <2> QED
    BY <1>2, <2>1
<1>4. ASSUME alias[n] # NoEntity PROVE \E r \in Runs : Later(Decide(r, n, alias[n], "fuzzy"))
  <2>1. PICK r \in Runs : Traced(Decide(r, n, alias[n], "fuzzy"))
    BY <1>1, <1>4 DEF EveryChangeIsLogged
  <2> HIDE DEF Later
  <2> QED
    BY <1>2, <2>1
<1>5. ASSUME NEW r \in Runs, CreateEntity(r), n = Arg(r)
      PROVE  Later(Decide(r, n, n, "created"))
  <2>1. result[r].method = "created" /\ result[r].entity = n
    BY <1>1, <1>5 DEF CreateEntity, Pending
  <2> QED
    BY <1>5, <2>1, ChangeIsTraced DEF CreateEntity
<1>6. ASSUME NEW r \in Runs, RegisterAlias(r), n = Arg(r), alias[n] = NoEntity
      PROVE  alias'[n] = result[r].entity /\ Later(Decide(r, n, result[r].entity, "fuzzy"))
  <2>1. result[r].method = "fuzzy"
    BY <1>1, <1>6 DEF RegisterAlias, Pending
  <2>2. alias'[n] = result[r].entity
    BY <1>1, <1>6 DEF RegisterAlias, TypeOK
  <2> QED
    BY <1>6, <2>1, <2>2, ChangeIsTraced DEF RegisterAlias
<1>7. \/ UNCHANGED db
      \/ canonical' = canonical /\ alias' = alias
      \/ \E r \in Runs : CreateEntity(r)
      \/ \E r \in Runs : RegisterAlias(r)
  BY DEF Next, Step, LoadCanonical, LoadAliases, Resolve, ClassifyHit, Log,
         CommitFails, EndRun, Crash, Forget, vars, db
<1> HIDE DEF Later
<1>8. CASE canonical' = canonical /\ alias' = alias
  BY <1>3, <1>4, <1>8
<1>9. ASSUME NEW r \in Runs, CreateEntity(r)
      PROVE  /\ n \in canonical' => \E s \in Runs : Later(Decide(s, n, n, "created"))
             /\ alias'[n] # NoEntity => \E s \in Runs : Later(Decide(s, n, alias'[n], "fuzzy"))
  BY <1>3, <1>4, <1>5, <1>9 DEF CreateEntity
<1>10. ASSUME NEW r \in Runs, RegisterAlias(r)
       PROVE  /\ n \in canonical' => \E s \in Runs : Later(Decide(s, n, n, "created"))
              /\ alias'[n] # NoEntity => \E s \in Runs : Later(Decide(s, n, alias'[n], "fuzzy"))
  <2>1. canonical' = canonical
    BY <1>10 DEF RegisterAlias
  <2>2. alias'[n] = alias[n] \/ (n = Arg(r) /\ alias[n] = NoEntity)
    BY <1>1, <1>10 DEF RegisterAlias, TypeOK
  <2>3. n \in canonical' => \E s \in Runs : Later(Decide(s, n, n, "created"))
    BY <1>3, <2>1
  <2>4. CASE alias'[n] = alias[n]
    BY <1>4, <2>3, <2>4
  <2>5. CASE n = Arg(r) /\ alias[n] = NoEntity
    <3>1. alias'[n] = result[r].entity /\ Later(Decide(r, n, result[r].entity, "fuzzy"))
      BY <1>6, <1>10, <2>5
    <3>2. Later(Decide(r, n, alias'[n], "fuzzy"))
      BY <3>1
    <3> QED
      BY <2>3, <3>2
  <2> QED
    BY <2>2, <2>4, <2>5
<1> QED
  BY <1>7, <1>8, <1>9, <1>10 DEF db

\* Outside a crash the mapping log explains every row and every alias in the
\* database, whichever run wrote it and whichever commits failed in between.
THEOREM ChangesAreLogged == Spec => []EveryChangeIsLogged
<1>1. Init => EveryChangeIsLogged
  BY DEF Init, EveryChangeIsLogged, EmptyIndex
<1> QED
  BY Invariant, LoggedStep, <1>1, PTL DEF Spec
-----------------------------------------------------------------------------
\* Convergence of runs that take turns.  While no two runs hold an index at once,
\* the index of the run at work is complete, so that no name is ever both a row
\* and an alias, and every decision is the one the database fixes for its name.
Fixed(d) ==
  d.entity # NoEntity =>
    (d.entity = d.name /\ d.name \in canonical) \/ alias[d.name] = d.entity

Complete(r) == \A n \in Names : index[r][n] = NoEntity => n \notin canonical /\ alias[n] = NoEntity

TakesTurns ==
  /\ \A r, s \in Runs : r # s => pc[r] = "new" \/ pc[s] = "new"
  /\ \A n \in canonical : alias[n] = NoEntity
  /\ \A r \in Runs :
       /\ pc[r] = "loading" => /\ snapshot[r] = canonical
                               /\ \A n \in Names : index[r][n] = NoEntity => n \notin canonical
       /\ pc[r] \notin {"new", "loading"} => Complete(r)
       /\ pc[r] \in {"aliasing", "creating"} => index[r][Arg(r)] = NoEntity
       /\ pc[r] \in {"classifying", "logging"} => Fixed(result[r])
  /\ \A d \in log : Fixed(d)

AloneInv == ~overlapped /\ failures = 0 => TakesTurns

LEMMA InitAlone == Init => AloneInv
BY DEF Init, AloneInv, TakesTurns

\* What is fixed stays fixed: the database only grows.
LEMMA FixedStays ==
  ASSUME TypeOK, Pending, [Next]_vars, NEW d \in Decision, Fixed(d)
  PROVE  d.entity # NoEntity =>
           (d.entity = d.name /\ d.name \in canonical') \/ alias'[d.name] = d.entity
<1>1. d.name \in Names
  BY DEF Decision
<1> QED
  BY <1>1, CommittedStays DEF Fixed

LEMMA AloneStep == Inv /\ AloneInv /\ [Next]_vars => AloneInv'
<1> DEFINE InTurn(r) ==
       /\ pc[r] = "loading" => /\ snapshot[r] = canonical
                               /\ \A n \in Names : index[r][n] = NoEntity => n \notin canonical
       /\ pc[r] \notin {"new", "loading"} => Complete(r)
       /\ pc[r] \in {"aliasing", "creating"} => index[r][Arg(r)] = NoEntity
       /\ pc[r] \in {"classifying", "logging"} => Fixed(result[r])
<1> SUFFICES ASSUME Inv, AloneInv, [Next]_vars, ~overlapped', failures' = 0
             PROVE  TakesTurns'
  BY DEF AloneInv
<1>1. TypeOK /\ Pending /\ IndexIsCommitted /\ LinksAboveThreshold
  BY DEF Inv
<1>2. ~overlapped /\ failures = 0
  BY <1>1 DEF TypeOK, Next, Step, LoadCanonical, LoadAliases, Resolve, ClassifyHit, RegisterAlias,
              CreateEntity, Log, CommitFails, EndRun, Crash, Forget, vars, hist
<1>3. TakesTurns /\ \A r \in Runs : InTurn(r)
  BY <1>2 DEF AloneInv, TakesTurns
<1>4. CASE UNCHANGED vars
  BY <1>3, <1>4 DEF TakesTurns, Complete, Fixed, Arg, vars, db, hist
<1>5. ASSUME NEW r \in Runs, Step(r) PROVE TakesTurns'
  <2>1. \A s \in Runs \ {r} : pc[s] = "new" /\ pc'[s] = "new"
    <3>1. \A s \in Runs \ {r} : pc[s] = "new"
      <4>1. CASE LoadCanonical(r)
        BY <1>5, <4>1 DEF LoadCanonical
      <4>2. CASE ~LoadCanonical(r)
        <5>1. pc[r] # "new"
          BY <1>5, <4>2 DEF Step, LoadAliases, Resolve, ClassifyHit, RegisterAlias, CreateEntity,
                           Log, CommitFails, EndRun, Crash
        <5> QED
          BY <1>3, <5>1 DEF TakesTurns
      <4> QED
        BY <4>1, <4>2
    <3>2. \A s \in Runs \ {r} : pc'[s] = pc[s]
      BY <1>1, <1>5 DEF TypeOK, Step, LoadCanonical, LoadAliases, Resolve, Goto, ClassifyHit,
         RegisterAlias, CreateEntity, Log, CommitFails, EndRun, Crash, Forget, Return, Logging
    <3> QED
      BY <3>1, <3>2
  <2>2. ASSUME \A n \in canonical' : alias'[n] = NoEntity, InTurn(r)', \A d \in log' : Fixed(d)'
        PROVE  TakesTurns'
    BY <2>1, <2>2 DEF TakesTurns
  <2>3. ASSUME \A d \in log' : d \in log \/ Fixed(d)' PROVE \A d \in log' : Fixed(d)'
    <3>1. ASSUME NEW d \in log PROVE Fixed(d)'
      <4>1. d \in Decision /\ Fixed(d)
        BY <1>1, <1>3 DEF TypeOK, TakesTurns
      <4> QED
        BY <1>1, <4>1, FixedStays DEF Fixed
    <3> QED
      BY <2>3, <3>1
  <2>4. result[r] \in Decision /\ Arg(r) \in Names /\ result[r].name = Arg(r)
    BY <1>1 DEF TypeOK, Decision, Arg
  <2>5. ASSUME \A n \in canonical' : alias'[n] = NoEntity, pc'[r] \in {"new", "ready"},
               pc'[r] = "ready" => Complete(r)', \A d \in log' : d \in log \/ Fixed(d)'
        PROVE  TakesTurns'
    BY <2>2, <2>3, <2>5
  <2>6. \A n \in canonical : alias[n] = NoEntity
    BY <1>3 DEF TakesTurns
  <2>7. CASE LoadCanonical(r)
    <3>1. pc'[r] = "loading" /\ snapshot'[r] = canonical /\ canonical' = canonical
      BY <1>1, <2>7 DEF LoadCanonical, TypeOK, db
    <3>2. \A n \in Names : index'[r][n] = NoEntity => n \notin canonical
      BY <1>1, <2>7, NamesAssumption DEF LoadCanonical, TypeOK
    <3>3. InTurn(r)'
      BY <3>1, <3>2
    <3> QED
      BY <2>2, <2>3, <2>6, <2>7, <3>3 DEF LoadCanonical, db
  <2>8. CASE LoadAliases(r)
    <3>1. ASSUME NEW n \in Names, index'[r][n] = NoEntity
          PROVE  n \notin canonical /\ alias[n] = NoEntity
      <4>1. index[r][n] = NoEntity /\ ~(alias[n] \in snapshot[r])
        BY <1>1, <2>8, <3>1, NamesAssumption DEF LoadAliases, WithAliases, TypeOK
      <4>2. snapshot[r] = canonical /\ n \notin canonical
        BY <1>3, <2>8, <4>1 DEF LoadAliases
      <4> QED
        BY <1>1, <4>1, <4>2 DEF LinksAboveThreshold
    <3>2. pc'[r] = "ready" /\ Complete(r)'
      BY <1>1, <2>8, <3>1 DEF LoadAliases, TypeOK, Complete, db
    <3> QED
      BY <2>5, <2>6, <2>8, <3>2 DEF LoadAliases, db
  <2>9. ASSUME NEW n \in Names, Resolve(r, n) PROVE TakesTurns'
    <3>1. Complete(r)
      BY <1>3, <2>9 DEF Resolve
    <3>2. Complete(r)' /\ canonical' = canonical /\ alias' = alias /\ log' = log /\ index' = index
      BY <2>9, <3>1 DEF Resolve, Complete, db
    <3>3. /\ \A e \in NameOrNone, m \in Methods :
               /\ Decide(r, n, e, m).run = r /\ Decide(r, n, e, m).name = n
               /\ Decide(r, n, e, m).entity = e /\ Decide(r, n, e, m).method = m
          /\ NoEntity \in NameOrNone /\ n \in NameOrNone
          /\ \A c \in Names : index[r][c] \in NameOrNone
          /\ {"unresolved", "alias", "fuzzy", "created"} \subseteq Methods
      BY <1>1, DecideType DEF TypeOK, NameOrNone, Methods
    <3>4. CASE Goto(r, "logging", n, NoEntity, "unresolved")
      <4>1. result'[r].entity = NoEntity /\ pc'[r] = "logging"
        BY <1>1, <3>3, <3>4 DEF Goto, TypeOK
      <4>2. InTurn(r)'
        BY <3>2, <4>1 DEF Fixed
      <4> QED
        BY <2>2, <2>3, <2>6, <3>2, <4>2
    <3>5. CASE Goto(r, "classifying", n, index[r][n], "alias")
      <4>1. result'[r].entity = index[r][n] /\ result'[r].name = n /\ pc'[r] = "classifying"
        BY <1>1, <3>3, <3>5 DEF Goto, TypeOK
      <4>2. index[r][n] # NoEntity =>
              index[r][n] \in canonical /\ (index[r][n] = n \/ alias[n] = index[r][n])
        BY <1>1 DEF IndexIsCommitted
      <4>3. InTurn(r)'
        BY <3>2, <4>1, <4>2 DEF Fixed
      <4> QED
        BY <2>2, <2>3, <2>6, <3>2, <4>3
    <3>6. ASSUME NEW where \in {"aliasing", "creating"}, NEW e \in NameOrNone, NEW m \in Methods,
                 Goto(r, where, n, e, m), index[r][n] = NoEntity
          PROVE  TakesTurns'
      <4>1. result'[r] = Decide(r, n, e, m) /\ pc'[r] = where
        BY <1>1, <3>6 DEF Goto, TypeOK
      <4>2. Arg(r)' = n
        BY <3>3, <4>1 DEF Arg
      <4>3. InTurn(r)'
        BY <3>2, <3>6, <4>1, <4>2
      <4> QED
        BY <2>2, <2>3, <2>6, <3>2, <4>3
    <3>7. Matching(r, n) \subseteq Names
      BY DEF Matching, BestMatches, Known
    <3> QED
      BY <2>9, <3>3, <3>4, <3>5, <3>6, <3>7 DEF Resolve
  <2>10. CASE ClassifyHit(r)
    <3>1. result'[r].entity = result[r].entity /\ result'[r].name = result[r].name
      BY <1>1, <2>4, <2>10 DEF ClassifyHit, TypeOK, Decision
    <3>2. pc'[r] = "logging" /\ Complete(r) /\ Fixed(result[r])
      BY <1>1, <1>3, <2>10 DEF ClassifyHit, Logging, TypeOK
    <3>3. canonical' = canonical /\ alias' = alias /\ log' = log /\ index' = index
      BY <2>10 DEF ClassifyHit, db
    <3>4. InTurn(r)'
      BY <3>1, <3>2, <3>3 DEF Complete, Fixed
    <3> QED
      BY <2>2, <2>3, <2>6, <3>3, <3>4
  <2>11. CASE RegisterAlias(r)
    <3>1. Complete(r) /\ index[r][Arg(r)] = NoEntity
      BY <1>3, <2>11 DEF RegisterAlias
    <3>2. Arg(r) \notin canonical /\ alias[Arg(r)] = NoEntity
      BY <2>4, <3>1 DEF Complete
    <3>3. /\ alias' = [alias EXCEPT ![Arg(r)] = result[r].entity]
          /\ canonical' = canonical /\ log' = log /\ result' = result
      BY <2>11, <3>2 DEF RegisterAlias
    <3>4. index'[r] = [index[r] EXCEPT ![Arg(r)] = result[r].entity]
      BY <1>1, <2>11, <3>2 DEF RegisterAlias, TypeOK
    <3>5. result[r].entity \in canonical /\ result[r].entity # NoEntity
      BY <1>1, <2>11, NamesAssumption DEF RegisterAlias, Pending, Linkable, TypeOK
    <3>6. Complete(r)'
      BY <1>1, <2>4, <3>1, <3>3, <3>4, <3>5 DEF Complete, TypeOK
    <3>7. Fixed(result[r])'
      BY <1>1, <2>4, <3>3 DEF Fixed, TypeOK
    <3>8. pc'[r] = "logging"
      BY <1>1, <2>11 DEF RegisterAlias, Logging, TypeOK
    <3>9. \A n \in canonical' : alias'[n] = NoEntity
      BY <1>1, <2>4, <2>6, <3>2, <3>3 DEF TypeOK
    <3>10. InTurn(r)'
      BY <3>6, <3>7, <3>8
    <3> QED
      BY <2>2, <2>3, <3>3, <3>9, <3>10
  <2>12. CASE CreateEntity(r)
    <3>1. Complete(r) /\ index[r][Arg(r)] = NoEntity
      BY <1>3, <2>12 DEF CreateEntity
    <3>2. alias[Arg(r)] = NoEntity
      BY <2>4, <3>1 DEF Complete
    <3>3. canonical' = canonical \cup {Arg(r)} /\ alias' = alias /\ log' = log /\ result' = result
      BY <2>12 DEF CreateEntity
    <3>4. index'[r] = [index[r] EXCEPT ![Arg(r)] = Arg(r)]
      BY <1>1, <2>12 DEF CreateEntity, TypeOK
    <3>5. Complete(r)'
      BY <1>1, <2>4, <3>1, <3>3, <3>4, NamesAssumption DEF Complete, TypeOK
    <3>6. result[r].entity = Arg(r)
      BY <1>1, <2>12 DEF CreateEntity, Pending
    <3>7. Fixed(result[r])'
      BY <2>4, <3>3, <3>6 DEF Fixed
    <3>8. pc'[r] = "logging"
      BY <1>1, <2>12 DEF CreateEntity, Logging, TypeOK
    <3>9. InTurn(r)'
      BY <3>5, <3>7, <3>8
    <3> QED
      BY <2>2, <2>3, <2>6, <3>2, <3>3, <3>9
  <2>13. CASE Log(r)
    <3>1. Complete(r) /\ Fixed(result[r])
      BY <1>3, <2>13 DEF Log
    <3>2. canonical' = canonical /\ alias' = alias /\ index' = index /\ log' = log \cup {result[r]}
      BY <2>13 DEF Log, Logged
    <3>3. pc'[r] = "ready" /\ Complete(r)'
      BY <1>1, <2>13, <3>1, <3>2 DEF Log, Return, TypeOK, Complete
    <3>4. \A d \in log' : d \in log \/ Fixed(d)'
      BY <3>1, <3>2 DEF Fixed
    <3> QED
      BY <2>5, <2>6, <3>2, <3>3, <3>4
  <2>14. ~CommitFails(r)
    BY <1>1, <1>2 DEF CommitFails, TypeOK
  <2>15. CASE EndRun(r) \/ Crash(r)
    BY <1>1, <2>5, <2>6, <2>15 DEF EndRun, Crash, Forget, TypeOK, db
  <2> HIDE DEF InTurn
  <2> QED
    BY <1>5, <2>7, <2>8, <2>9, <2>10, <2>11, <2>12, <2>13, <2>14, <2>15 DEF Step
<1> QED
  BY <1>4, <1>5 DEF Next

LEMMA AloneConverges == Inv /\ AloneInv => ConvergesAlone
<1> SUFFICES ASSUME Inv, TakesTurns, NEW d \in log, NEW e \in log, d.name = e.name,
                    d.entity # NoEntity, e.entity # NoEntity
             PROVE  d.entity = e.entity
  BY DEF AloneInv, ConvergesAlone, SameEntity
<1>1. Fixed(d) /\ Fixed(e)
  BY DEF TakesTurns
<1> QED
  BY <1>1 DEF TakesTurns, Fixed

\* Runs that do not overlap agree on every name forever, however often they crash
\* and however the fuzzy ties fall: the one guarantee the missing constraint
\* between rows and aliases leaves.
THEOREM SequentialRunsConverge == Spec => []ConvergesAlone
BY Invariant, InitAlone, AloneStep, AloneConverges, PTL DEF Spec
=============================================================================
