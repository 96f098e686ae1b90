------------------------------ MODULE Invocation ------------------------------
(***************************************************************************)
(* One call of `python -m src.main`: the verticals in turn, each within    *)
(* its engine_scope, session and HTTP client; the sources of a vertical in *)
(* turn; and the way out, with its exit status, whatever is raised where.  *)
(*                                                                         *)
(* run_adapter is used by its promise (AdapterRun): it returns with all of *)
(* its tasks done, or raises and may leave tasks behind, which run on      *)
(* until asyncio.run cancels them.  A record loop (RecordLoop) is one step *)
(* here.                                                                   *)
(***************************************************************************)
EXTENDS Naturals, Sequences

CONSTANTS Sources,        \* Sources[v]: ADAPTER_CLASSES of the pipeline, by name
          Indexed,        \* the sources whose discover() may raise a PipelineError
          PoolHasThread,  \* a pool keeps a non-daemon thread, as that of aiosqlite does
          MaxRuns,        \* bound: adapter runs of a pipeline that allocates in passes
          MaxInterrupts   \* bound: Ctrl-C

Verticals == {"research", "startups", "products", "news", "jobs"}

SourcesOf(v) == {Sources[v][i] : i \in DOMAIN Sources[v]}
Names == UNION {SourcesOf(v) : v \in Verticals}

ASSUME SourcesAssumption ==
  /\ DOMAIN Sources = Verticals
  /\ \A v \in Verticals : Sources[v] \in Seq(SourcesOf(v))
  /\ PoolHasThread \in BOOLEAN
  /\ MaxRuns \in Nat /\ MaxInterrupts \in Nat

\* The command line.
Arguments == [vertical : Verticals \cup {"all", "none"}, dry_run : BOOLEAN, export : BOOLEAN]

\* A faulty variant: the verticals by name.
VerticalsByName == <<"jobs", "news", "products", "research", "startups">>

\* list(Vertical): the order of the enumeration.
VerticalOrder == <<"research", "startups", "products", "news", "jobs">>

VARIABLES
  args,
  pc,
  todo,       \* verticals: those still to run, the current one first
  raised,     \* the exception on its way out: "none", "pipeline", "other" or "interrupt"
  engine,     \* _engine and _session_factory: the vertical they are of, or "none"
  pools,      \* the connection pools that are not disposed of
  open,       \* what is open of "session" and "client"
  turn, runs, \* the adapter being run, and how many were run in this vertical
  collected,  \* by_source: the sources whose records it has
  reported,   \* the sources it has an error row for
  loose,      \* the tasks that outlived their run_adapter, by source
  status,     \* "running", "success" (0) or "failure"
  done,       \* history: verticals that ended without an exception
  silent,     \* history: sources of those that were neither collected nor reported
  origin,     \* history: what raised: "none", "source" or "other"
  cut,        \* history: pools whose disposal, or whose session's, was interrupted
  interrupts

scope == <<engine, pools, open>>
crawl == <<turn, runs, collected, reported>>
hist == <<done, silent, origin, cut>>
vars == <<args, pc, todo, raised, scope, crawl, loose, status, hist, interrupts>>

Vertical == Head(todo)
Source == Sources[Vertical][turn]

\* News and jobs ask each source once, in order; the others allocate in passes.
InTurn == Vertical \in {"news", "jobs"}

Init ==
  /\ args \in Arguments
  /\ pc = "starting" /\ todo = <<>>
  /\ raised = "none" /\ origin = "none" /\ status = "running"
  /\ engine = "none" /\ pools = {} /\ open = {}
  /\ turn = 1 /\ runs = 0
  /\ collected = {} /\ reported = {} /\ loose = {}
  /\ done = {} /\ silent = {} /\ cut = {}
  /\ interrupts = 0

-----------------------------------------------------------------------------
\* Exceptions.

\* Faulty variants: no engine_scope; jobs handles a PipelineError only.
UnwindUnscoped ==
  [creating |-> "stopping", indexing |-> "closing_client", reading |-> "closing_client",
   reporting |-> "closing_client", storing |-> "closing_client",
   closing_client |-> "closing_session", closing_session |-> "stopping",
   disposing |-> "stopping", opening |-> "stopping"]
CaughtIfTyped(e) == InTurn /\ e = "pipeline"

\* What _run returns, and the exit status.
StatusOfReturn == IF args.vertical = "none" /\ ~args.export THEN "failure" ELSE "success"
Status == IF raised # "none" THEN "failure" ELSE StatusOfReturn

\* Where an exception raised at a place takes the run: out of its `with` blocks.
Unwind ==
  [opening |-> "stopping", creating |-> "disposing",
   indexing |-> "closing_client", reading |-> "closing_client",
   reporting |-> "closing_client", storing |-> "closing_client",
   closing_client |-> "closing_session", closing_session |-> "disposing",
   disposing |-> "stopping"]

\* The handler around run_adapter: jobs has one for Exception, news for PipelineError.
Caught(e) == Vertical = "jobs" \/ (Vertical = "news" /\ e = "pipeline")

Raise(e, from) ==
  /\ raised' = e /\ origin' = from
  /\ pc' = Unwind[pc]
  /\ UNCHANGED <<done, silent, cut>>

-----------------------------------------------------------------------------
\* _run and engine_scope.

Begin ==
  /\ pc = "starting"
  /\ \/ /\ args.export \/ args.vertical = "none"
        /\ pc' = "stopping" /\ UNCHANGED todo
     \/ /\ ~args.export /\ args.vertical # "none"
        /\ todo' = IF args.vertical = "all" THEN VerticalOrder ELSE <<args.vertical>>
        /\ pc' = "choosing"
  /\ UNCHANGED <<args, raised, scope, crawl, loose, status, hist, interrupts>>

EndLoop ==
  /\ pc = "choosing" /\ todo = <<>>
  /\ pc' = "stopping"
  /\ UNCHANGED <<args, todo, raised, scope, crawl, loose, status, hist, interrupts>>

SkipDry ==
  /\ pc = "choosing" /\ todo # <<>> /\ args.dry_run
  /\ todo' = Tail(todo)
  /\ UNCHANGED <<args, pc, raised, scope, crawl, loose, status, hist, interrupts>>

Enter ==
  /\ pc = "choosing" /\ todo # <<>> /\ ~args.dry_run
  /\ pc' = "opening"
  /\ UNCHANGED <<args, todo, raised, scope, crawl, loose, status, hist, interrupts>>

\* init_engine.
Open ==
  /\ pc = "opening"
  /\ engine' = Vertical /\ pools' = pools \cup {Vertical}
  /\ pc' = "creating"
  /\ UNCHANGED <<args, todo, raised, open, crawl, loose, status, hist, interrupts>>

\* create_all, and what follows it up to the first adapter without an await.
CreateTables ==
  /\ pc = "creating"
  /\ open' = {"session", "client"}
  /\ turn' = 1 /\ runs' = 0
  /\ collected' = {} /\ reported' = {}
  /\ pc' = "asking"
  /\ UNCHANGED <<args, todo, raised, engine, pools, loose, status, hist, interrupts>>

\* A URL no engine can be made of, a database that cannot be reached, and a record loop
\* or an error row that a handler cannot save.
Fails ==
  /\ pc \in {"opening", "creating", "storing", "reporting"}
  /\ Raise("other", "other")
  /\ UNCHANGED <<args, todo, scope, crawl, loose, status, interrupts>>

-----------------------------------------------------------------------------
\* The sources.

AskNext ==
  /\ pc = "asking" /\ InTurn
  /\ turn <= Len(Sources[Vertical])
  /\ pc' = IF Source \in Indexed THEN "indexing" ELSE "reading"
  /\ UNCHANGED <<args, todo, raised, scope, crawl, loose, status, hist, interrupts>>

AskInPass ==
  /\ pc = "asking" /\ ~InTurn
  /\ runs < MaxRuns /\ runs' = runs + 1
  /\ turn' \in DOMAIN Sources[Vertical]
  /\ pc' = "reading"
  /\ UNCHANGED <<args, todo, raised, scope, collected, reported, loose, status, hist, interrupts>>

EndSources ==
  /\ pc = "asking"
  /\ InTurn => turn > Len(Sources[Vertical])
  /\ pc' = "storing"
  /\ UNCHANGED <<args, todo, raised, scope, crawl, loose, status, hist, interrupts>>

\* The request of discover().  The feeds of news raise a ParsingError for an answer they
\* cannot read; the sitemaps and searches of jobs then list nothing, and say so in the
\* log only.
IndexRead ==
  /\ pc = "indexing"
  /\ pc' = "reading"
  /\ UNCHANGED <<args, todo, raised, scope, crawl, loose, status, hist, interrupts>>

\* run_adapter returns.
AdapterReturns ==
  /\ pc = "reading"
  /\ collected' = collected \cup {Source}
  /\ turn' = turn + 1
  /\ pc' = "asking"
  /\ UNCHANGED <<args, todo, raised, scope, runs, reported, loose, status, hist, interrupts>>

\* It raises: out of discover() before there are tasks, or out of gather, with tasks
\* still running or not.
AdapterRaises(e) ==
  /\ \/ pc = "indexing" /\ UNCHANGED loose
     \/ pc = "reading" /\ e = "other" /\ loose' \in {loose, loose \cup {Source}}
  /\ \/ ~Caught(e) /\ Raise(e, "source")
     \/ Caught(e) /\ pc' = "reporting" /\ UNCHANGED <<raised, hist>>
  /\ UNCHANGED <<args, todo, scope, crawl, status, interrupts>>

Report ==
  /\ pc = "reporting"
  /\ reported' = reported \cup {Source}
  /\ turn' = turn + 1
  /\ pc' = "asking"
  /\ UNCHANGED <<args, todo, raised, scope, runs, collected, loose, status, hist, interrupts>>

\* The record loop ends.
Store ==
  /\ pc = "storing"
  /\ pc' = "closing_client"
  /\ UNCHANGED <<args, todo, raised, scope, crawl, loose, status, hist, interrupts>>

\* A task left behind ends, by its own exception if its client is closed.
LooseEnds ==
  /\ \E s \in loose : loose' = loose \ {s}
  /\ UNCHANGED <<args, pc, todo, raised, scope, crawl, status, hist, interrupts>>

-----------------------------------------------------------------------------
\* The way out.

CloseClient ==
  /\ pc = "closing_client"
  /\ open' = open \ {"client"}
  /\ pc' = "closing_session"
  /\ UNCHANGED <<args, todo, raised, engine, pools, crawl, loose, status, hist, interrupts>>

CloseSession ==
  /\ pc = "closing_session"
  /\ open' = open \ {"session"}
  /\ pc' = "disposing"
  /\ UNCHANGED <<args, todo, raised, engine, pools, crawl, loose, status, hist, interrupts>>

\* dispose_engine.  A session still being closed keeps its connection from being disposed.
Dispose ==
  /\ pc = "disposing"
  /\ pools' \in {pools \ {engine}} \cup (IF engine \in cut THEN {pools} ELSE {})
  /\ engine' = "none"
  /\ IF raised = "none"
     THEN /\ done' = done \cup {Vertical}
          /\ silent' = IF InTurn THEN silent \cup (SourcesOf(Vertical) \ (collected \cup reported))
                       ELSE silent
          /\ todo' = Tail(todo)
          /\ pc' = "choosing"
     ELSE pc' = Unwind[pc] /\ UNCHANGED <<done, silent, todo>>
  /\ UNCHANGED <<args, raised, open, crawl, loose, status, origin, cut, interrupts>>

\* asyncio.run cancels the tasks that are left and awaits them.
Stop ==
  /\ pc = "stopping"
  /\ loose' = {}
  /\ status' = Status
  /\ pc' = "exiting"
  /\ UNCHANGED <<args, todo, raised, scope, crawl, hist, interrupts>>

\* The interpreter joins the threads that are no daemons.
Exit ==
  /\ pc = "exiting"
  /\ PoolHasThread => pools = {}
  /\ pc' = "ended"
  /\ UNCHANGED <<args, todo, raised, scope, crawl, loose, status, hist, interrupts>>

-----------------------------------------------------------------------------
\* Ctrl-C: CancelledError at the await of the main task.  run_adapter cancels its tasks and
\* awaits them; a session goes on closing in a task of its own; the client is closed to
\* its callers at once; of a pool only some connections may be closed.
Interrupt ==
  /\ pc \in DOMAIN Unwind \ {"opening"}
  /\ interrupts < MaxInterrupts /\ interrupts' = interrupts + 1
  /\ raised' = "interrupt" /\ pc' = Unwind[pc]
  /\ open' = CASE pc = "closing_client"  -> open \ {"client"}
               [] pc = "closing_session" -> open \ {"session"}
               [] OTHER                  -> open
  /\ IF pc \in {"closing_session", "disposing"} THEN cut' = cut \cup {engine} ELSE UNCHANGED cut
  /\ IF pc = "disposing"
     THEN engine' = "none" /\ pools' \in {pools, pools \ {engine}}
     ELSE UNCHANGED <<engine, pools>>
  /\ UNCHANGED <<args, todo, crawl, loose, status, done, silent, origin>>

Forward ==
  \/ Begin \/ EndLoop \/ SkipDry \/ Enter \/ Open \/ CreateTables \/ Fails
  \/ AskNext \/ AskInPass \/ EndSources \/ IndexRead \/ AdapterReturns
  \/ \E e \in {"pipeline", "other"} : AdapterRaises(e)
  \/ Report \/ Store \/ CloseClient \/ CloseSession \/ Dispose \/ Stop \/ Exit

Next == Forward \/ LooseEnds \/ Interrupt

Spec == Init /\ [][Next]_vars

\* Every await of the main task ends: a request by HttpClient's EveryCallEnds, an adapter
\* run by WorkerPool's EventuallySettled, a statement by the database's time limits.
FairSpec == Spec /\ WF_vars(Forward)
-----------------------------------------------------------------------------
Places == {"starting", "choosing", "asking", "stopping", "exiting", "ended"} \cup DOMAIN Unwind

TypeOK ==
  /\ args \in Arguments
  /\ pc \in Places
  /\ todo \in Seq(Verticals)
  /\ raised \in {"none", "pipeline", "other", "interrupt"}
  /\ engine \in Verticals \cup {"none"} /\ pools \subseteq Verticals
  /\ open \subseteq {"session", "client"}
  /\ turn \in Nat /\ runs \in Nat
  /\ collected \subseteq Names /\ reported \subseteq Names /\ loose \subseteq Names
  /\ status \in {"running", "success", "failure"}
  /\ done \subseteq Verticals /\ silent \subseteq Names
  /\ origin \in {"none", "source", "other"} /\ cut \subseteq Verticals
  /\ interrupts \in 0 .. MaxInterrupts

\* test_cli_lifecycle.py: however a call ends, its tasks have been cancelled, the client and
\* the session closed, the globals reset and every pool disposed of, but for one whose
\* disposal was itself interrupted.
NothingLeftOpen ==
  pc \in {"exiting", "ended"} =>
    open = {} /\ loose = {} /\ engine = "none" /\ pools \subseteq cut

\* No part of a vertical is alive while another runs: neither a pool nor a task that an
\* adapter run left behind.  Only the pipeline of jobs goes on after such a failure, and
\* jobs comes last.
Working == {"asking"} \cup (DOMAIN Unwind \ {"opening"})

VerticalsDoNotOverlap ==
  pc \in Working =>
    pools = {Vertical} /\ engine = Vertical /\ loose \subseteq SourcesOf(Vertical)

\* Exit status 0 says that every vertical asked for has run to its end, and that each of the
\* sources of news and jobs was collected or has an error row.
Asked == IF args.vertical = "all" THEN Verticals ELSE {args.vertical}

ExitZeroMeansAllDone ==
  status = "success" /\ ~args.export /\ ~args.dry_run => Asked \subseteq done /\ silent = {}

\* news.py:149: "A broken feed/API must not abort the other News sources"; nor may a source
\* of jobs, whatever it raises: it ends no vertical, and the records are stored only when
\* every source has been asked.  For an exception that is no PipelineError news breaks its
\* word, see the README.
FailedSourceIsNotFatal ==
  /\ origin = "source" => Vertical # "jobs" /\ raised # "pipeline"
  /\ pc = "storing" /\ InTurn => SourcesOf(Vertical) \subseteq collected \cup reported

\* main.py:42-43: "so no pool thread survives into interpreter shutdown": every call ends,
\* unless the disposal of a pool is interrupted.
EveryInvocationEnds == <>(pc = "ended" \/ cut # {})
=============================================================================
