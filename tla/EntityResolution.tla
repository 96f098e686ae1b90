-------------------------- MODULE EntityResolution --------------------------
(***************************************************************************)
(* EntityResolver: several pipeline runs, each with its own resolver and   *)
(* its own in-memory index, resolving company names against one database.  *)
(*                                                                         *)
(* Every await is a separate step, so another run can commit between a     *)
(* run's lookup and its insert.  A name stands for its normalized form,    *)
(* and a canonical entity for its row, identified by its normalized name   *)
(* (unique in canonical_entities; rows are never updated or deleted).      *)
(***************************************************************************)
EXTENDS Naturals

CONSTANTS Runs,         \* concurrent pipeline runs, one resolver each
          Names,        \* normalized names
          Unusable,     \* names too short to resolve on
          Score,        \* Score[n][m]: token_sort_ratio of two names
          Threshold,    \* fuzzy_threshold
          NoEntity,     \* None
          MaxResolves,  \* bound: calls of resolve(), all runs together
          MaxCrashes,   \* bound: crashes
          MaxFailures   \* bound: failed commits

ASSUME NamesAssumption ==
  /\ Names # {} /\ Unusable \subseteq Names
  /\ NoEntity \notin Names
  /\ Score \in [Names -> [Names -> Nat]]
  /\ Threshold \in Nat

ASSUME BoundsAssumption == MaxResolves \in Nat /\ MaxCrashes \in Nat /\ MaxFailures \in Nat

VARIABLES
  canonical,   \* canonical_entities, by normalized_name
  alias,       \* entity_aliases: normalized_alias -> canonical_entity_id
  log,         \* entity_mapping_log (with the run that wrote each entry)
  pc,          \* where each run's resolver is
  index,       \* _index of each run
  result,      \* the decision each run is about to log, with the name it resolves
  snapshot,    \* history: the canonical rows each run loaded
  overlapped,  \* history: two runs have held an index at the same time
  resolves, crashes, failures

db   == <<canonical, alias, log>>
hist == <<snapshot, overlapped>>
vars == <<db, pc, index, result, hist, resolves, crashes, failures>>

NameOrNone == Names \cup {NoEntity}
Methods == {"normalized_exact", "alias", "fuzzy", "created", "unresolved"}
Decision == [run : Runs, name : Names, entity : NameOrNone, method : Methods]

EmptyIndex == [n \in Names |-> NoEntity]
\* A faulty variant: two arguments change places.
DecideSwapped(r, n, e, m) == [run |-> r, name |-> n, entity |-> m, method |-> e]

Decide(r, n, e, m) == [run |-> r, name |-> n, entity |-> e, method |-> m]
NoDecision(r) == Decide(r, CHOOSE n \in Names : TRUE, NoEntity, "unresolved")
Arg(r) == result[r].name

Init ==
  /\ canonical = {}
  /\ alias = EmptyIndex
  /\ log = {}
  /\ pc = [r \in Runs |-> "new"]
  /\ index = [r \in Runs |-> EmptyIndex]
  /\ result = [r \in Runs |-> NoDecision(r)]
  /\ snapshot = [r \in Runs |-> {}]
  /\ overlapped = FALSE
  /\ resolves = 0
  /\ crashes = 0
  /\ failures = 0

-----------------------------------------------------------------------------
\* load_index: two selects, canonical rows and then alias rows.

LoadCanonical(r) ==
  /\ pc[r] = "new"
  /\ index' = [index EXCEPT ![r] = [n \in Names |-> IF n \in canonical THEN n ELSE NoEntity]]
  /\ snapshot' = [snapshot EXCEPT ![r] = canonical]
  /\ overlapped' = (overlapped \/ \E s \in Runs \ {r} : pc[s] # "new")
  /\ pc' = [pc EXCEPT ![r] = "loading"]
  /\ UNCHANGED <<db, result, resolves, crashes, failures>>

\* Faulty variants: an alias replaces a row's key; the aliases are not loaded.
AliasOverridesRow(r) == [n \in Names |-> IF alias[n] # NoEntity THEN alias[n] ELSE index[r][n]]
AliasesNotLoaded(r) == index[r]

\* setdefault: an alias never hides a canonical row, and an alias of an entity
\* that the first select did not see is left out.
WithAliases(r) ==
  [n \in Names |-> IF index[r][n] = NoEntity /\ alias[n] \in snapshot[r]
                   THEN alias[n] ELSE index[r][n]]

LoadAliases(r) ==
  /\ pc[r] = "loading"
  /\ index' = [index EXCEPT ![r] = WithAliases(r)]
  /\ pc' = [pc EXCEPT ![r] = "ready"]
  /\ UNCHANGED <<db, result, hist, resolves, crashes, failures>>

-----------------------------------------------------------------------------
\* resolve, up to its first await: the ladder unusable, known key, fuzzy match
\* against the index, new entity.

Known(r) == {c \in Names : index[r][c] # NoEntity}

\* _best_fuzzy_match: a key with the highest score (ties go to the key that
\* happens to come first in the dict).
BestMatches(r, n) == {c \in Known(r) : \A d \in Known(r) : Score[n][c] >= Score[n][d]}

Matching(r, n) == {c \in BestMatches(r, n) : Score[n][c] >= Threshold}

Goto(r, where, n, e, m) ==
  /\ result' = [result EXCEPT ![r] = Decide(r, n, e, m)]
  /\ pc' = [pc EXCEPT ![r] = where]

Resolve(r, n) ==
  /\ pc[r] = "ready"
  /\ resolves < MaxResolves
  /\ resolves' = resolves + 1
  /\ \/ n \in Unusable /\ Goto(r, "logging", n, NoEntity, "unresolved")
     \/ /\ n \notin Unusable /\ index[r][n] # NoEntity
        /\ Goto(r, "classifying", n, index[r][n], "alias")
     \/ /\ n \notin Unusable /\ index[r][n] = NoEntity
        /\ \E c \in Matching(r, n) : Goto(r, "aliasing", n, index[r][c], "fuzzy")
     \/ /\ n \notin Unusable /\ index[r][n] = NoEntity /\ Matching(r, n) = {}
        /\ Goto(r, "creating", n, n, "created")
  /\ UNCHANGED <<db, index, hist, crashes, failures>>

-----------------------------------------------------------------------------
\* The database steps of resolve.

Logging(r) == pc' = [pc EXCEPT ![r] = "logging"]

\* _classify_hit asks only whether the name is canonical, not whether the hit
\* is that entity.
ClassifyHit(r) ==
  /\ pc[r] = "classifying"
  /\ result' = [result EXCEPT ![r].method = IF Arg(r) \in canonical THEN "normalized_exact"
                                                                    ELSE "alias"]
  /\ Logging(r)
  /\ UNCHANGED <<db, index, hist, resolves, crashes, failures>>

\* A faulty variant: a lost race for an alias still enters the index.
IndexDespiteConflict(r) == [index[r] EXCEPT ![Arg(r)] = result[r].entity]

\* _register_alias: the unique constraint is on aliases alone, so the name may
\* have become canonical meanwhile.  On a conflict the index stays as it was.
IndexAfterConflict(r) == index[r]

RegisterAlias(r) ==
  /\ pc[r] = "aliasing"
  /\ IF alias[Arg(r)] = NoEntity
       THEN /\ alias' = [alias EXCEPT ![Arg(r)] = result[r].entity]
            /\ index' = [index EXCEPT ![r][Arg(r)] = result[r].entity]
       ELSE /\ index' = [index EXCEPT ![r] = IndexAfterConflict(r)]
            /\ UNCHANGED alias
  /\ Logging(r)
  /\ UNCHANGED <<canonical, log, result, hist, resolves, crashes, failures>>

\* _create_entity: insert the row, or adopt the one another run inserted first.
\* Either way the decision says "created".
CreateEntity(r) ==
  /\ pc[r] = "creating"
  /\ canonical' = canonical \cup {Arg(r)}
  /\ index' = [index EXCEPT ![r][Arg(r)] = Arg(r)]
  /\ Logging(r)
  /\ UNCHANGED <<alias, log, result, hist, resolves, crashes, failures>>

\* A faulty variant: links are not logged.
LoggedUnlessFuzzy(r) == IF result[r].method = "fuzzy" THEN {} ELSE {result[r]}

\* _log, in a transaction of its own; then resolve returns.
Logged(r) == {result[r]}

Return(r) ==
  /\ pc' = [pc EXCEPT ![r] = "ready"]
  /\ result' = [result EXCEPT ![r] = NoDecision(r)]

Log(r) ==
  /\ pc[r] = "logging"
  /\ log' = log \cup Logged(r)
  /\ Return(r)
  /\ UNCHANGED <<canonical, alias, index, hist, resolves, crashes, failures>>

-----------------------------------------------------------------------------
\* Failures, and the end of a run.

\* A commit fails for another reason than the unique constraint, and the code
\* rolls back: the alias is given up; the missing row makes scalar_one raise,
\* and the pipeline goes on without a decision.
CommitFails(r) ==
  /\ failures < MaxFailures
  /\ failures' = failures + 1
  /\ \/ pc[r] = "aliasing" /\ Logging(r) /\ UNCHANGED result
     \/ pc[r] = "creating" /\ Arg(r) \notin canonical /\ Return(r)
  /\ UNCHANGED <<db, index, hist, resolves, crashes>>

Forget(r) ==
  /\ pc' = [pc EXCEPT ![r] = "new"]
  /\ index' = [index EXCEPT ![r] = EmptyIndex]
  /\ result' = [result EXCEPT ![r] = NoDecision(r)]
  /\ snapshot' = [snapshot EXCEPT ![r] = {}]
  /\ UNCHANGED <<db, overlapped, resolves, failures>>

\* The run ends; the next one starts with a new resolver.
EndRun(r) ==
  /\ pc[r] = "ready"
  /\ Forget(r)
  /\ UNCHANGED crashes

\* The process dies, or an exception outside the two handlers ends the run.
Crash(r) ==
  /\ pc[r] \notin {"new", "ready"}
  /\ crashes < MaxCrashes
  /\ crashes' = crashes + 1
  /\ Forget(r)

-----------------------------------------------------------------------------
Step(r) ==
  \/ LoadCanonical(r) \/ LoadAliases(r)
  \/ \E n \in Names : Resolve(r, n)
  \/ ClassifyHit(r) \/ RegisterAlias(r) \/ CreateEntity(r) \/ Log(r)
  \/ CommitFails(r) \/ EndRun(r) \/ Crash(r)

Next == \E r \in Runs : Step(r)

Spec == Init /\ [][Next]_vars

-----------------------------------------------------------------------------
TypeOK ==
  /\ canonical \in SUBSET Names
  /\ alias \in [Names -> NameOrNone]
  /\ log \in SUBSET Decision
  /\ pc \in [Runs -> {"new", "loading", "ready", "classifying", "aliasing", "creating",
                      "logging"}]
  /\ index \in [Runs -> [Names -> NameOrNone]]
  /\ result \in [Runs -> Decision]
  /\ snapshot \in [Runs -> SUBSET Names]
  /\ overlapped \in BOOLEAN
  /\ resolves \in 0 .. MaxResolves
  /\ crashes \in 0 .. MaxCrashes
  /\ failures \in 0 .. MaxFailures

\* An index entry never runs ahead of the database: what a run believes of a
\* name is a committed row of that name or the committed alias of that name.
IndexIsCommitted ==
  \A r \in Runs, n \in Names :
    index[r][n] # NoEntity =>
      /\ index[r][n] \in canonical
      /\ index[r][n] = n \/ alias[n] = index[r][n]

\* No link below the threshold: a committed alias matched, at or above it, the
\* entity's own name or another alias of that entity.
LinksAboveThreshold ==
  \A n \in Names :
    alias[n] # NoEntity =>
      /\ alias[n] \in canonical
      /\ \E c \in Names \ {n} : /\ Score[n][c] >= Threshold
                                /\ c = alias[n] \/ alias[c] = alias[n]

\* A name that was canonical when a run loaded its index resolves to that entity
\* for the whole run, also when another run has made it an alias of another one.
CanonicalRowWins ==
  \A r \in Runs : \A n \in snapshot[r] : index[r][n] = n

\* Without a crash, every entity and every alias in the database has its decision
\* in the mapping log, or about to be written to it, failed commits included.
Traced(d) == d \in log \/ \E r \in Runs : pc[r] = "logging" /\ result[r] = d

EveryChangeIsLogged ==
  crashes = 0 =>
    /\ \A n \in canonical : \E r \in Runs : Traced(Decide(r, n, n, "created"))
    /\ \A n \in Names : alias[n] # NoEntity =>
         \E r \in Runs : Traced(Decide(r, n, alias[n], "fuzzy"))

\* Two decisions on the same name agree on the entity.
SameEntity ==
  \A d, e \in log :
    d.name = e.name /\ d.entity # NoEntity /\ e.entity # NoEntity => d.entity = e.entity

\* Runs that never overlap resolve a name to one entity for good, through crashes,
\* restarts and reloads of the index, as long as no alias commit fails.
ConvergesAlone == ~overlapped /\ failures = 0 => SameEntity

\* resolver.py:23-24: "two concurrent workers resolving the same name converge on
\* one row".  It does not hold: see the README.
ConcurrentRunsConverge == crashes = 0 /\ failures = 0 => SameEntity
=============================================================================
