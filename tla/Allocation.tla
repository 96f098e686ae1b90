----------------------------- MODULE Allocation -----------------------------
(***************************************************************************)
(* How the research, startups and products pipelines fill their target:    *)
(* each pass asks every source for a share of what is still missing, the   *)
(* source's adapter turns the share into pages of its listing, and what    *)
(* the pages return is added without what is already there.                *)
(*                                                                         *)
(* A record is its URL.  Of run_adapter this module uses the promise of    *)
(* AdapterRun: the records of a page arrive together, in any order of the  *)
(* pages, and a page may fail.                                             *)
(***************************************************************************)
EXTENDS Naturals, Sequences, FiniteSets

CONSTANTS Verticals,   \* the pipelines of the run, of "research", "startups", "products"
          Urls,        \* records
          Malformed,   \* an entry parse() skips
          Key,         \* Key[url]: dedup_key, the same for two listings of one product
          Catalogues,  \* listings the sources may have: a sequence of entries for each
          Parts,       \* [start, len] of the batches of Y Combinator's directory, largest first
          Fresh,       \* Fresh[s]: a record that may appear at the top of its listing
          Targets,     \* targets of a run
          PageSize,    \* page_size
          MaxHits,     \* MAX_HITS_PER_QUERY of Y Combinator
          MaxPaged,    \* MAX_BASIC_PAGING_RESULTS of OpenAlex
          MaxPages,    \* MAX_PAGES of OpenRouter
          MaxMoves,    \* bound: listings that change during the run
          MaxLost      \* bound: pages that fail, and runs that raise

Sources == {"arxiv", "openalex", "yc", "hf_spaces", "openrouter", "hf_models"}

ASSUME BoundsAssumption ==
  /\ Verticals \subseteq {"research", "startups", "products"}
  /\ Malformed \notin Urls
  /\ Catalogues \subseteq [Sources -> Seq(Urls \cup {Malformed})]
  /\ Fresh \in [Sources -> Urls]
  /\ Parts \subseteq [start : Nat, len : Nat \ {0}]
  /\ \A p, q \in Parts : p = q \/ p.start + p.len <= q.start \/ q.start + q.len <= p.start
  /\ Targets \subseteq Nat \ {0}
  /\ {PageSize, MaxHits, MaxPaged, MaxPages} \subseteq Nat \ {0}
  /\ MaxMoves \in Nat /\ MaxLost \in Nat

-----------------------------------------------------------------------------
\* ADAPTER_CLASSES, in order, and the number of passes over them.

Order == [research |-> <<"arxiv", "openalex">>,
          startups |-> <<"yc">>,
          products |-> <<"hf_spaces", "openrouter", "hf_models">>]

MaxPasses == [research |-> 2, startups |-> 1, products |-> 4]

VARIABLES
  vertical, target,
  listing,  \* listing[s]: what source s lists now
  place,    \* "choosing" the next source, "reading" its pages, "done", "raised"
  pass, turn,
  asked,    \* requested, requested_depth: how deep each source has been asked to go
  dry,      \* exhausted
  added,    \* added_this_pass
  whole,    \* the counts of the batches failed: the directory is read as one listing
  pages,    \* pages of the current adapter run still to come
  batch,    \* its records so far, numbered as it asked for them and by the page that came
  runs,     \* adapter runs so far
  kept,     \* all_records: a record, the source and the run it is from, its number there
  moves, lost

config == <<vertical, target>>
vars == <<config, listing, place, pass, turn, asked, dry, added, whole, pages, batch, runs, kept, moves, lost>>

Least(a, b) == IF a <= b THEN a ELSE b
CeilDiv(a, b) == (a + b - 1) \div b

Source == Order[vertical][turn]
Remaining == IF Cardinality(kept) >= target THEN 0 ELSE target - Cardinality(kept)

Init ==
  /\ vertical \in Verticals
  /\ target \in Targets
  /\ listing \in Catalogues
  /\ place = "choosing"
  /\ pass = 1 /\ turn = 1
  /\ asked = [s \in Sources |-> 0]
  /\ dry = {}
  /\ added = 0
  /\ whole = FALSE
  /\ pages = {} /\ batch = {} /\ runs = 0
  /\ kept = {}
  /\ moves = 0 /\ lost = 0

-----------------------------------------------------------------------------
\* discover(): the pages of a listing for depth records, as windows of the listing, with
\* the number of records asked for before and the most that parse() keeps of each.

\* A faulty variant: no trimming of the last page.
PageUntrimmed(from, upto, emitted, limit) ==
  [from |-> from, upto |-> upto, emitted |-> emitted, limit |-> upto - from]

Page(from, upto, emitted, limit) ==
  [from |-> from, upto |-> upto, emitted |-> emitted, limit |-> limit]

PageNumbers(n) == IF n = 0 THEN {} ELSE 0 .. CeilDiv(n, PageSize) - 1
OnPage(k, n) == Least(PageSize, n - k * PageSize)

\* arXiv takes any window.
ExactPages(n) ==
  {Page(k * PageSize, k * PageSize + OnPage(k, n), k * PageSize, PageSize) : k \in PageNumbers(n)}

\* OpenAlex numbers pages of per_page records, and the last request's is smaller.
ShrinkingPages(n) ==
  {Page(k * OnPage(k, n), (k + 1) * OnPage(k, n), k * PageSize, PageSize) : k \in PageNumbers(n)}

\* OpenRouter and Hugging Face keep the page size and trim the last page.
TrimmedPages(n) ==
  {Page(k * PageSize, (k + 1) * PageSize, k * PageSize, OnPage(k, n)) : k \in PageNumbers(n)}

\* Y Combinator does so in every batch, the largest first, until enough are asked for.  A
\* query returns no more than MaxHits, and a page that would end beyond them is not asked for.
Batches ==
  {[p EXCEPT !.len = Least(@, Len(listing["yc"]) - p.start)] :
     p \in {q \in Parts : q.start < Len(listing["yc"])}}
Places(p) == p.start + 1 .. p.start + Least(p.len, MaxHits)
Returned == UNION {Places(p) : p \in Batches}

\* A faulty variant: what a query does not return is counted as asked for.
EmittedOfCounts(p) == p.start

Emitted(p) == Cardinality({i \in Returned : i <= p.start})

PartPages(p, take) ==
  {Page(p.start + k * PageSize, p.start + Least((k + 1) * PageSize, p.len),
        Emitted(p) + k * PageSize, OnPage(k, take)) :
     k \in {j \in PageNumbers(take) : (j + 1) * PageSize <= MaxHits}}
PartitionedPages(n) ==
  UNION {PartPages(p, Least(Cardinality(Places(p)), n - Emitted(p))) :
           p \in {q \in Batches : Emitted(q) < n}}

\* Without the counts of the batches it is one query.
UnpartitionedPages(n) == TrimmedPages(Least(n, MaxHits))

Pages(s, n) ==
  CASE s = "arxiv"      -> ExactPages(n)
    [] s = "openalex"   -> ShrinkingPages(Least(n, MaxPaged))
    [] s = "yc"         -> PartitionedPages(n)
    [] s = "openrouter" -> TrimmedPages(Least(n, MaxPages * PageSize))
    [] OTHER            -> TrimmedPages(n)

\* parse(): the well-formed entries of a page, up to its limit, and but for papers no record twice.
Papers == {"arxiv", "openalex"}
WellFormed(s, page) ==
  {i \in page.from + 1 .. Least(page.upto, Len(listing[s])) : listing[s][i] # Malformed}
Distinct(s, page) ==
  {i \in WellFormed(s, page) :
     s \in Papers \/ \A j \in WellFormed(s, page) : j < i => listing[s][j] # listing[s][i]}
Nth(s, page, i) == Cardinality({j \in Distinct(s, page) : j < i})
Parse(s, page) == {i \in Distinct(s, page) : Nth(s, page, i) < page.limit}

-----------------------------------------------------------------------------
\* The pass over the sources.

\* Faulty variants: a pass asks for the share alone, not on top of the last depth;
\* a source that returned all it was asked for counts as exhausted.
DepthForgets == CeilDiv(Remaining, Len(Order[vertical]) - turn + 1)
ExhaustedAtDepth(produced) == produced <= asked[Source]

\* An equal part of what is missing for each source still to be asked; research's
\* second pass asks for all of it.
Share ==
  IF vertical = "research" /\ pass = 2 THEN Remaining
  ELSE CeilDiv(Remaining, Len(Order[vertical]) - turn + 1)

Depth == asked[Source] + Share

Asking == place = "choosing" /\ turn <= Len(Order[vertical]) /\ Remaining > 0

AskFor(found) ==
  /\ Asking
  /\ Source \notin dry
  /\ asked' = [asked EXCEPT ![Source] = Depth]
  /\ pages' = found
  /\ batch' = {}
  /\ runs' = runs + 1
  /\ place' = "reading"
  /\ UNCHANGED <<config, listing, pass, turn, dry, added, kept, moves, lost>>

Ask ==
  /\ AskFor(Pages(Source, Depth))
  /\ Source = "yc" => Batches # {}
  /\ UNCHANGED whole

\* The facet query fails, its answer is of no use, or there are no batches.
AskUnpartitioned ==
  /\ AskFor(UnpartitionedPages(Depth))
  /\ Source = "yc"
  /\ whole' = TRUE

SkipExhausted ==
  /\ Asking
  /\ Source \in dry
  /\ turn' = turn + 1
  /\ UNCHANGED <<config, listing, place, pass, asked, dry, added, whole, pages, batch, runs, kept, moves, lost>>

\* The target is met or every source has had its turn.  Products gives up after a
\* pass that added nothing.
EndPass ==
  /\ place = "choosing"
  /\ turn > Len(Order[vertical]) \/ Remaining = 0
  /\ IF pass < MaxPasses[vertical] /\ Remaining > 0 /\ (vertical = "products" => added > 0)
     THEN pass' = pass + 1 /\ turn' = 1 /\ added' = 0 /\ UNCHANGED place
     ELSE place' = "done" /\ UNCHANGED <<pass, turn, added>>
  /\ UNCHANGED <<config, listing, asked, dry, whole, pages, batch, runs, kept, moves, lost>>

-----------------------------------------------------------------------------
\* One adapter run.

\* Hugging Face pages are linked: one is read before the next, and a lost one ends
\* the listing.
Linked == Source \in {"hf_spaces", "hf_models"}
Readable(page) == Linked => \A q \in pages : page.from <= q.from

Came == Cardinality({e.page : e \in batch})
Records(s, page) ==
  {[url |-> listing[s][i], at |-> page.emitted + Nth(s, page, i), page |-> Came] : i \in Parse(s, page)}

ReadPage(page) ==
  /\ place = "reading"
  /\ page \in pages /\ Readable(page)
  /\ batch' = batch \cup Records(Source, page)
  /\ pages' = pages \ {page}
  /\ UNCHANGED <<config, listing, place, pass, turn, asked, dry, added, whole, runs, kept, moves, lost>>

LosePage(page) ==
  /\ place = "reading"
  /\ page \in pages /\ Readable(page)
  /\ lost < MaxLost /\ lost' = lost + 1
  /\ pages' = IF Linked THEN {} ELSE pages \ {page}
  /\ UNCHANGED <<config, listing, place, pass, turn, asked, dry, added, whole, batch, runs, kept, moves>>

\* An exception run_adapter does not handle leaves the pipeline.
RunRaises ==
  /\ place = "reading"
  /\ lost < MaxLost /\ lost' = lost + 1
  /\ place' = "raised"
  /\ UNCHANGED <<config, listing, pass, turn, asked, dry, added, whole, pages, batch, runs, kept, moves>>

KeptUrls == {k.url : k \in kept}
KeptKeys == {Key[k.url] : k \in kept}

Before(d, e) == d.page < e.page \/ (d.page = e.page /\ d.at < e.at)

\* A faulty variant: the keys already there are not looked at.
NewByUrlOnly == {e \in batch : e.url \notin KeptUrls /\ \A d \in batch : Before(d, e) => d.url # e.url}

\* The records of the batch that are added.  Research and startups look for the URL
\* among the records of earlier runs; products for the URL and the key among those
\* and the ones before it, which a record with the same URL has too.
New ==
  {e \in batch :
     /\ e.url \notin KeptUrls
     /\ vertical = "products" =>
          /\ Key[e.url] \notin KeptKeys
          /\ \A d \in batch : Before(d, e) => Key[d.url] # Key[e.url]}

Exhausted(produced) == produced < asked[Source]

Merge ==
  /\ place = "reading"
  /\ pages = {}
  /\ kept' = kept \cup {[url |-> e.url, source |-> Source, run |-> runs, at |-> e.at] : e \in New}
  /\ added' = added + Cardinality(New)
  /\ dry' = IF Exhausted(Cardinality(batch)) THEN dry \cup {Source} ELSE dry
  /\ turn' = turn + 1
  /\ place' = "choosing"
  /\ UNCHANGED <<config, listing, pass, asked, whole, pages, batch, runs, moves, lost>>

-----------------------------------------------------------------------------
\* The listings are live: the newest record comes first.

Publish(s) ==
  /\ place \in {"choosing", "reading"}
  /\ s # "yc" /\ \E i \in DOMAIN Order[vertical] : Order[vertical][i] = s
  /\ moves < MaxMoves /\ moves' = moves + 1
  /\ \A i \in DOMAIN listing[s] : listing[s][i] # Fresh[s]
  /\ listing' = [listing EXCEPT ![s] = <<Fresh[s]>> \o @]
  /\ UNCHANGED <<config, place, pass, turn, asked, dry, added, whole, pages, batch, runs, kept, lost>>

Next ==
  \/ Ask \/ AskUnpartitioned \/ SkipExhausted \/ EndPass
  \/ \E page \in pages : ReadPage(page) \/ LosePage(page)
  \/ RunRaises \/ Merge
  \/ \E s \in Sources : Publish(s)

Spec == Init /\ [][Next]_vars

-----------------------------------------------------------------------------
\* products.py:212: "the target is a ceiling, not a quota", in startups too, while no
\* listing changes under the run, whatever pages are lost.
TargetIsCeiling ==
  vertical \in {"startups", "products"} /\ moves = 0 => Cardinality(kept) <= target

\* A product is collected once, by URL and by dedup_key, within and across sources, and
\* also when a listing changes and a page repeats a record.  Research and startups
\* never collect a record again in a later run of an adapter.
NeverAgain ==
  \A a, b \in kept : a # b =>
    IF vertical = "products" THEN a.url # b.url /\ Key[a.url] # Key[b.url]
    ELSE a.url = b.url => a.run = b.run

\* A source is written off only when it has no more to give: all that it lets one ask for
\* is less than what it was asked for, if no page was lost and no entry was skipped: none is
\* malformed or, but for papers, so near to its copy that one page may hold both.
\* PageSize divides MaxHits, as the sizes of the code do.
NoneSkipped(s) ==
  \A i \in DOMAIN listing[s] :
    /\ listing[s][i] # Malformed
    /\ s \in Papers \/ \A j \in DOMAIN listing[s] : j < i /\ i < j + PageSize => listing[s][j] # listing[s][i]

Clean == moves = 0 /\ lost = 0 /\ \A s \in Sources : NoneSkipped(s)

Supply(s) ==
  CASE s = "openalex"   -> Least(Len(listing[s]), MaxPaged)
    [] s = "openrouter" -> Least(Len(listing[s]), MaxPages * PageSize)
    [] s = "yc"         -> IF whole THEN Least(Len(listing[s]), MaxHits) ELSE Cardinality(Returned)
    [] OTHER            -> Len(listing[s])

ExhaustedHasNoMore ==
  Clean /\ MaxHits % PageSize = 0 => \A s \in dry : Supply(s) < asked[s]

\* Whoever is asked again is asked to go deeper, and only while it has more.
AsksDeeper ==
  [][\A s \in Sources : asked'[s] # asked[s] => asked'[s] > asked[s] /\ s \notin dry]_vars

\* Startups falls short of its target only when it has collected all that a query of each
\* batch returns or, when the batches could not be counted, that one query of the
\* directory does: ycombinator_startups.py:179, "what lets this exceed Algolia's 1,000-hit
\* per-query cap".
Listed(s) == {listing[s][i] : i \in DOMAIN listing[s]}
Short == place = "done" /\ Cardinality(kept) < target /\ Clean
OneQuery == Places([start |-> 0, len |-> Len(listing["yc"])])

StartupsShortOnlyWhenDry ==
  vertical = "startups" /\ Short /\ MaxHits % PageSize = 0 =>
    \A i \in IF whole THEN OneQuery ELSE Returned : listing["yc"][i] \in KeptUrls

\* research.py:91: "keep only records not already collected".  It does not hold, see the
\* README: the copies of a record within one run are all kept, and openalex.py:91 makes them.
CollectedOnce == Clean => \A a, b \in kept : a.url = b.url => a = b

\* products.py:129-131: "each adapter is asked for a fair share of what is still
\* outstanding, so one source running dry does not silently shrink the run -- the next
\* source picks up the slack".  It does not hold: see the README.
ProductsShortOnlyWhenDry ==
  vertical = "products" /\ Short =>
    \A i \in DOMAIN Order[vertical] : Listed(Order[vertical][i]) \subseteq KeptUrls
=============================================================================
