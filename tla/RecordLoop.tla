----------------------------- MODULE RecordLoop -----------------------------
(***************************************************************************)
(* The record loops of the five pipelines: how what the adapters collected *)
(* becomes rows, through validation, the freshness gate, the raw document, *)
(* entity resolution or GitHub enrichment, and the upsert.                 *)
(*                                                                         *)
(* Any number of runs share one database; each keeps one session for all   *)
(* its statements.  Every await is a step, and a commit is atomic.  The    *)
(* collected list is given: the allocation loops come before this one.     *)
(***************************************************************************)
EXTENDS Admission, Sequences, FiniteSets

CONSTANTS Runs,          \* pipeline invocations: concurrent, or again after a crash
          Records,       \* parsed records
          Data,          \* Data[rec]: its fields, as the gates and the tables see them
          Hash,          \* Hash[rec]: content_hash of its fetch_result, or None
          Keys,          \* Keys[rec]: its unique values (two for a product)
          Repo,          \* Repo[rec]: the GitHub repository a paper names, or None
          Batches,       \* lists of collected records
          AfterFailure,  \* sessions a failed statement can leave: {"broken"} on PostgreSQL
          None,
          MaxFaults      \* bound: crashes, lost connections and the unusual answers of GitHub

ASSUME DataAssumption ==
  /\ Data \in [Records -> Datum]
  /\ \A rec \in Records : Keys[rec] # {}
  /\ Batches \subseteq Seq(Records)
  /\ AfterFailure \subseteq {"clean", "broken"}
  /\ MaxFaults \in Nat

-----------------------------------------------------------------------------
\* What the loops do differently: what the failure of a raw document means, and the
\* step before the upsert.

ResearchLoop == [rawFailure |-> "abort", before |-> "enriching"]
NewsLoop     == [rawFailure |-> "abort", before |-> "upserting"]
StartupsLoop == [rawFailure |-> "null", before |-> "resolving"]
ProductsLoop == [rawFailure |-> "null", before |-> "resolving"]
JobsLoop     == [rawFailure |-> "reject", before |-> "resolving"]

Loops == [research |-> ResearchLoop, news |-> NewsLoop, startups |-> StartupsLoop,
          products |-> ProductsLoop, jobs |-> JobsLoop]

VARIABLES
  raw,       \* raw_documents, by content_hash
  rows,      \* the tables of structured records
  errors,    \* processing_errors
  table,     \* each run's vertical
  batch,     \* each run's all_records
  at,        \* the record each run is at
  pc,        \* where in the loop body
  session,   \* whether the run's session can execute statements
  rawid,     \* raw_document_id of the current record
  category,  \* error_category being recorded
  known,     \* GitHubEnrichmentClient._cache
  limited,   \* github_enrichment_skipped_rate_limited
  verdict,   \* github_url and github_stars of the payload
  tally,     \* the result's counters
  asks,      \* history: the requests sent to GitHub for each repository
  faults

db   == <<raw, rows, errors>>
job  == <<table, batch>>
hub  == <<known, limited, verdict, asks>>
vars == <<db, job, at, pc, session, rawid, category, tally, hub, faults>>

\* "rejected" stands for rejected and invalid_records, "skipped" for stale_records,
\* future_dated_records and extraction_failed.
Outcomes == {"valid", "duplicate", "rejected", "skipped"}
Row(r, rec, id) ==
  [table |-> table[r], rec |-> rec, raw |-> id, run |-> r, hub |-> verdict[r]]

\* What a paper's row says of its repository: no link; the link and the stars GitHub
\* reported; the link and the 0 the code fills in; the link with null stars.
Verdicts == {"none", "counted", "zero", "unverified"}
Repos == {Repo[rec] : rec \in Records} \ {None}

Loop(r) == Loops[table[r]]
Current(r) == batch[r][at[r]]
Kind(t, rec) == KindOf(t, Data[rec])

PC == {"next", "finding", "inserting", "fetching", "resolving", "enriching", "upserting",
       "recording", "done", "aborted", "crashed"}
Categories == {"ValidationError", "RawDocumentPersistenceError", "PersistenceError"}
Hashes == {Hash[rec] : rec \in Records} \cup {None}

Init ==
  /\ raw = {} /\ rows = {} /\ errors = {}
  /\ table \in [Runs -> DOMAIN Loops]
  /\ batch \in [Runs -> Batches]
  /\ at = [r \in Runs |-> 1]
  /\ pc = [r \in Runs |-> "next"]
  /\ session = [r \in Runs |-> "clean"]
  /\ rawid = [r \in Runs |-> None]
  /\ category = [r \in Runs |-> None]
  /\ tally = [r \in Runs |-> [o \in Outcomes |-> 0]]
  /\ known = [r \in Runs |-> [repo \in Repos |-> "unasked"]]
  /\ limited = [r \in Runs |-> FALSE]
  /\ verdict = [r \in Runs |-> "none"]
  /\ asks = [r \in Runs |-> [repo \in Repos |-> 0]]
  /\ faults = 0

-----------------------------------------------------------------------------
Goto(r, where) == pc' = [pc EXCEPT ![r] = where]
Fault == faults < MaxFaults /\ faults' = faults + 1
Count(r, o) == tally' = [tally EXCEPT ![r][o] = @ + 1]

\* The statement runs, or it fails: because an earlier failure left the session
\* unusable until a rollback no repository makes, or for a fault of its own.
CanExecute(r) == session[r] = "clean"
StatementFails(r) ==
  /\ \/ ~CanExecute(r) /\ UNCHANGED faults
     \/ Fault
  /\ \E s \in AfterFailure : session' = [session EXCEPT ![r] = IF CanExecute(r) THEN s ELSE @]

Continue(r) ==
  /\ at' = [at EXCEPT ![r] = @ + 1]
  /\ Goto(r, "next")

\* A faulty variant: the rejection is not counted.
RejectUncounted(r, why) ==
  /\ category' = [category EXCEPT ![r] = why]
  /\ Goto(r, "recording")
  /\ UNCHANGED tally

\* The exception handlers that count a rejection and write a processing error.
Reject(r, why) ==
  /\ Count(r, "rejected")
  /\ category' = [category EXCEPT ![r] = why]
  /\ Goto(r, "recording")

\* Only the adapter's own link is looked up, and none once GitHub has rate-limited the run.
Names(r) == Loop(r).before = "enriching" /\ Repo[Current(r)] # None

\* The step after the raw document.
AfterRaw(r) ==
  IF Loop(r).before = "enriching" /\ ~(Names(r) /\ ~limited[r])
  THEN "upserting" ELSE Loop(r).before

-----------------------------------------------------------------------------
\* The loop body, up to its first await: the gates.

Gated(r) == Kind(table[r], Current(r)) \in {"empty", "stale"}

Skip(r) ==
  /\ pc[r] = "next" /\ at[r] <= Len(batch[r])
  /\ Gated(r)
  /\ Count(r, "skipped")
  /\ Continue(r)
  /\ UNCHANGED <<db, job, session, rawid, category, faults, hub>>

\* A faulty variant: no processing error for an invalid record.
InvalidUnrecorded(r) ==
  /\ pc[r] = "next" /\ at[r] <= Len(batch[r])
  /\ Kind(table[r], Current(r)) = "invalid"
  /\ Count(r, "rejected")
  /\ Continue(r)
  /\ UNCHANGED <<db, job, session, rawid, category, faults, hub>>

Invalid(r) ==
  /\ pc[r] = "next" /\ at[r] <= Len(batch[r])
  /\ Kind(table[r], Current(r)) = "invalid"
  /\ Reject(r, "ValidationError")
  /\ UNCHANGED <<db, job, at, session, rawid, faults, hub>>

\* A faulty variant: a record without a fetch_result stores a document all the same.
AlwaysFind(r) == "finding"

FirstStep(r) == IF Hash[Current(r)] # None THEN "finding" ELSE AfterRaw(r)

\* A faulty variant: raw_document_id keeps the previous record's value.
AcceptKeepsRawid(r) ==
  /\ pc[r] = "next" /\ at[r] <= Len(batch[r])
  /\ ~Gated(r) /\ Kind(table[r], Current(r)) # "invalid"
  /\ category' = [category EXCEPT ![r] = None]
  /\ Goto(r, FirstStep(r))
  /\ verdict' = [verdict EXCEPT ![r] = IF Names(r) THEN "unverified" ELSE "none"]
  /\ UNCHANGED <<db, job, at, session, rawid, tally, faults, known, limited, asks>>

Accept(r) ==
  /\ pc[r] = "next" /\ at[r] <= Len(batch[r])
  /\ ~Gated(r) /\ Kind(table[r], Current(r)) # "invalid"
  /\ rawid' = [rawid EXCEPT ![r] = None]
  /\ category' = [category EXCEPT ![r] = None]
  /\ Goto(r, FirstStep(r))
  /\ verdict' = [verdict EXCEPT ![r] = IF Names(r) THEN "unverified" ELSE "none"]
  /\ UNCHANGED <<db, job, at, session, tally, faults, known, limited, asks>>

Finish(r) ==
  /\ pc[r] = "next" /\ at[r] > Len(batch[r])
  /\ Goto(r, "done")
  /\ UNCHANGED <<db, job, at, session, rawid, category, tally, faults, hub>>

-----------------------------------------------------------------------------
\* RawDocumentRepository.get_or_create: look for the content, insert it unless
\* another run was faster, and return whichever row is there.

HaveRaw(r) ==
  /\ rawid' = [rawid EXCEPT ![r] = Hash[Current(r)]]
  /\ Goto(r, AfterRaw(r))

FindRaw(r) ==
  /\ pc[r] = "finding" /\ CanExecute(r)
  /\ IF Hash[Current(r)] \in raw THEN HaveRaw(r) ELSE Goto(r, "inserting") /\ UNCHANGED rawid
  /\ UNCHANGED <<db, job, at, session, category, tally, faults, hub>>

InsertRaw(r) ==
  /\ pc[r] = "inserting" /\ CanExecute(r)
  /\ raw' = raw \cup {Hash[Current(r)]}
  /\ Goto(r, "fetching")
  /\ UNCHANGED <<rows, errors, job, at, session, rawid, category, tally, faults, hub>>

FetchRaw(r) ==
  /\ pc[r] = "fetching" /\ CanExecute(r)
  /\ HaveRaw(r)
  /\ UNCHANGED <<db, job, at, session, category, tally, faults, hub>>

\* Research and news let the exception end the run; startups and products go on
\* without provenance; jobs gives the record up.
RawFails(r) ==
  /\ pc[r] \in {"finding", "inserting", "fetching"}
  /\ StatementFails(r)
  /\ \/ Loop(r).rawFailure = "abort" /\ Goto(r, "aborted") /\ UNCHANGED <<category, tally>>
     \/ /\ Loop(r).rawFailure = "null"
        /\ Goto(r, AfterRaw(r))
        /\ UNCHANGED <<category, tally>>
     \/ Loop(r).rawFailure = "reject" /\ Reject(r, "RawDocumentPersistenceError")
  /\ UNCHANGED <<db, job, at, rawid, hub>>

-----------------------------------------------------------------------------
\* Resolution only adds a link to the row.  One that fails
\* leaves the link null, and rolls the session back when it was inserting.

Resolve(r) ==
  /\ pc[r] = "resolving"
  /\ \/ CanExecute(r) /\ UNCHANGED <<session, faults>>
     \/ StatementFails(r)
     \/ ~CanExecute(r) /\ session' = [session EXCEPT ![r] = "clean"] /\ UNCHANGED faults
  /\ Goto(r, "upserting")
  /\ UNCHANGED <<db, job, at, rawid, category, tally, hub>>

-----------------------------------------------------------------------------
\* GitHubEnrichmentClient.get_repo_metadata, and what the research loop makes of it.
\* The cache is the run's own, so no other run can come between a look-up and its answer.

Settled == [found |-> "counted", missing |-> "none", blocked |-> "none",
            unreachable |-> "none", odd |-> "zero"]
Usual   == {"found", "missing", "blocked", "unreachable"}

\* A faulty variant: the verdict that there is no repository is not kept.
RememberFound(r, answer) ==
  IF Settled[answer] = "none" THEN known
  ELSE [known EXCEPT ![r][Repo[Current(r)]] = Settled[answer]]

Remember(r, answer) == [known EXCEPT ![r][Repo[Current(r)]] = Settled[answer]]

EnrichCached(r) ==
  /\ pc[r] = "enriching" /\ known[r][Repo[Current(r)]] # "unasked"
  /\ verdict' = [verdict EXCEPT ![r] = known[r][Repo[Current(r)]]]
  /\ Goto(r, "upserting")
  /\ UNCHANGED <<db, job, at, session, rawid, category, tally, known, limited, asks, faults>>

Ask(r) ==
  /\ pc[r] = "enriching" /\ known[r][Repo[Current(r)]] = "unasked"
  /\ asks' = [asks EXCEPT ![r][Repo[Current(r)]] = @ + 1]
  /\ UNCHANGED <<db, job, at, session, rawid, category, tally>>

\* A repository that is missing, blocked or out of reach counts as none.  "odd" is an
\* answer in JSON that is no repository, such as a 451: its missing count is read as 0.
Enrich(r) ==
  /\ Ask(r)
  /\ \E answer \in DOMAIN Settled :
       /\ IF answer \in Usual THEN UNCHANGED faults ELSE Fault
       /\ known' = Remember(r, answer)
       /\ verdict' = [verdict EXCEPT ![r] = Settled[answer]]
  /\ Goto(r, "upserting")
  /\ UNCHANGED limited

EnrichLimited(r) ==
  /\ Ask(r)
  /\ Fault
  /\ limited' = [limited EXCEPT ![r] = TRUE]
  /\ Goto(r, "upserting")
  /\ UNCHANGED <<known, verdict>>

\* Only a rate limit is caught: an answer that is not JSON, or too large, ends the run.
EnrichFails(r) ==
  /\ Ask(r)
  /\ Fault
  /\ Goto(r, "aborted")
  /\ UNCHANGED <<known, limited, verdict>>

-----------------------------------------------------------------------------
\* The repositories' upsert: INSERT ... ON CONFLICT DO NOTHING, on every unique
\* value of the record, and the count its rowcount decides.

Conflicts(t, rec) == {row \in rows : row.table = t /\ Keys[row.rec] \cap Keys[rec] # {}}
New(r) == IF Conflicts(table[r], Current(r)) = {} THEN {Row(r, Current(r), rawid[r])} ELSE {}

Storable(r) == Fits(table[r], Data[Current(r)])

\* A faulty variant: the rowcount is ignored.
AttemptOutcome(r) == "valid"

UpsertOutcome(r) == IF New(r) = {} THEN "duplicate" ELSE "valid"

Upsert(r) ==
  /\ pc[r] = "upserting" /\ CanExecute(r)
  /\ Storable(r)
  /\ rows' = rows \cup New(r)
  /\ Count(r, UpsertOutcome(r))
  /\ Continue(r)
  /\ UNCHANGED <<raw, errors, job, session, rawid, category, faults, hub>>

\* The statement fails, or the commit succeeds and its answer is lost.
UpsertFails(r) ==
  /\ pc[r] = "upserting"
  /\ \/ StatementFails(r) /\ UNCHANGED rows
     \/ /\ CanExecute(r) /\ ~Storable(r)
        /\ \E s \in AfterFailure : session' = [session EXCEPT ![r] = s]
        /\ UNCHANGED <<rows, faults>>
     \/ /\ CanExecute(r) /\ Storable(r)
        /\ Fault
        /\ \E s \in AfterFailure : session' = [session EXCEPT ![r] = s]
        /\ rows' = rows \cup New(r)
  /\ Reject(r, "PersistenceError")
  /\ UNCHANGED <<raw, errors, job, at, rawid, hub>>

\* ProcessingErrorRepository.record, in no handler of its own.
RecordError(r) ==
  /\ pc[r] = "recording"
  /\ CanExecute(r)
  /\ errors' = errors \cup {[run |-> r, rec |-> Current(r), category |-> category[r]]}
  /\ Continue(r)
  /\ UNCHANGED <<raw, rows, job, session, rawid, category, tally, faults, hub>>

RecordErrorFails(r) ==
  /\ pc[r] = "recording"
  /\ StatementFails(r)
  /\ Goto(r, "aborted")
  /\ UNCHANGED <<db, job, at, rawid, category, tally, hub>>

Crash(r) ==
  /\ pc[r] \notin {"done", "aborted", "crashed"}
  /\ Fault
  /\ Goto(r, "crashed")
  /\ UNCHANGED <<db, job, at, session, rawid, category, tally, hub>>

-----------------------------------------------------------------------------
Step(r) ==
  \/ Skip(r) \/ Invalid(r) \/ Accept(r) \/ Finish(r)
  \/ FindRaw(r) \/ InsertRaw(r) \/ FetchRaw(r) \/ RawFails(r)
  \/ Resolve(r) \/ EnrichCached(r) \/ Enrich(r) \/ EnrichLimited(r) \/ EnrichFails(r)
  \/ Upsert(r) \/ UpsertFails(r) \/ RecordError(r) \/ RecordErrorFails(r)
  \/ Crash(r)

Next == \E r \in Runs : Step(r)

Spec == Init /\ [][Next]_vars

-----------------------------------------------------------------------------
HubOK ==
  /\ known \in [Runs -> [Repos -> Verdicts \cup {"unasked"}]]
  /\ limited \in [Runs -> BOOLEAN]
  /\ verdict \in [Runs -> Verdicts]
  /\ asks \in [Runs -> [Repos -> Nat]]

TypeOK ==
  /\ raw \subseteq Hashes \ {None}
  /\ rows \subseteq [table : DOMAIN Loops, rec : Records, raw : Hashes, run : Runs,
                     hub : Verdicts]
  /\ errors \subseteq [run : Runs, rec : Records, category : Categories]
  /\ table \in [Runs -> DOMAIN Loops]
  /\ batch \in [Runs -> Batches]
  /\ at \in [Runs -> Nat] /\ \A r \in Runs : at[r] \in 1 .. Len(batch[r]) + 1
  /\ pc \in [Runs -> PC]
  /\ session \in [Runs -> {"clean", "broken"}]
  /\ rawid \in [Runs -> Hashes]
  /\ category \in [Runs -> Categories \cup {None}]
  /\ tally \in [Runs -> [Outcomes -> Nat]]
  /\ HubOK
  /\ faults \in 0 .. MaxFaults

\* Every record of a finished run is counted once, as valid, duplicate, rejected or
\* skipped, whichever of its statements failed.
Counted(r) ==
  tally[r]["valid"] + tally[r]["duplicate"] + tally[r]["rejected"] + tally[r]["skipped"]

EveryRecordCounted == \A r \in Runs : pc[r] = "done" => Counted(r) = Len(batch[r])

\* No record a run has passed is lost: a row of its vertical has one of its keys,
\* or the reason why not is in processing_errors, or the freshness gate skipped it.
Kept(r, rec) ==
  \/ Conflicts(table[r], rec) # {}
  \/ \E err \in errors : err.run = r /\ err.rec = rec
  \/ Kind(table[r], rec) \in {"empty", "stale"}

NothingLost == \A r \in Runs : \A i \in 1 .. at[r] - 1 : Kept(r, batch[r][i])

\* Provenance: a row names the stored document its record was read from, and no
\* other; a row without one has no fetch, or is a startup or a product whose
\* document could not be stored.
Provenance ==
  \A row \in rows :
    \/ row.raw = Hash[row.rec] /\ row.raw \in raw \cup {None}
    \/ row.raw = None /\ faults > 0 /\ row.table \in {"startups", "products"}

\* No fake success: valid_records never exceeds the rows the run put there, also
\* when runs overlap, crash and repeat each other; it is exact without faults.
NeverOverstated ==
  \A r \in Runs :
    LET own == Cardinality({row \in rows : row.run = r})
    IN  tally[r]["valid"] <= own /\ (faults = 0 => tally[r]["valid"] = own)

\* GitHub is asked once for each repository of a run, however many papers name it, and
\* they all say what it answered; only after a rate limit a paper keeps a link that
\* nobody has looked up, with no stars.  A row without a repository has no link.
OneVerdictPerRepo ==
  /\ \A r \in Runs : \A repo \in Repos : asks[r][repo] <= 1
  /\ \A row \in rows :
       IF row.table = "research" /\ Repo[row.rec] # None
       THEN \/ row.hub = known[row.run][Repo[row.rec]]
            \/ row.hub = "unverified" /\ limited[row.run]
       ELSE row.hub = "none"

\* "A fresh repost/update cannot make an old article fresh" (news_dates.py): every stored
\* article has a date of the last day that is labelled as its publication, whatever the
\* dates of its changes and submissions are; a stored job is as recent.
RepostsStayStale ==
  \A row \in rows :
    LET dates == Data[row.rec].date
    IN  /\ row.table = "news" =>
             \E f \in {"feed", "jsonld", "meta"} : Timestamp(dates[f]) /\ dates[f].at \in -Day .. 0
        /\ row.table = "jobs" =>
             dates["posted"].form # "none" /\ dates["posted"].at \in -Window .. Skew

\* The schemas leave nothing for the constraints of the tables to find: without faults
\* only a value too long, too large or with a NUL is refused after validation.
OnlySizeIsRefused ==
  \A err \in errors :
    err.category = "PersistenceError" => faults > 0 \/ Unfit(Data[err.rec])

\* research.py:213 (products.py:298, startups.py:212 and news.py:317 say the same): "record and continue,
\* don't crash the run".  It does not hold on PostgreSQL: see the README.
FailedUpsertContinues == \A r \in Runs : pc[r] = "aborted" => category[r] # "PersistenceError"
=============================================================================
