--------------------------- MODULE Invocation_proofs ---------------------------
(***************************************************************************)
(* What Invocation promises, for every set of sources, every bound and a   *)
(* pool with a thread of its own or without.                               *)
(*                                                                         *)
(* The argument.  An exception on its way out only moves towards the exit  *)
(* (RaisedInv), so a vertical that starts finds no exception and, the cut  *)
(* pools all being of an exception, no pool (ScopeInv).  A task that was   *)
(* left behind while no exception is on its way out was left by jobs, and  *)
(* jobs is the last of what is still to run (TodoInv, LooseInv).           *)
(***************************************************************************)
EXTENDS Invocation, SequenceTheorems, TLAPS

Leaving == {"closing_client", "closing_session", "disposing"}
AtSource == {"indexing", "reading", "reporting"}

TodoInv ==
  /\ \A i \in DOMAIN todo : todo[i] = "jobs" => i = Len(todo)
  /\ pc \in Working \cup {"opening"} => todo # <<>>

RaisedInv ==
  /\ raised # "none" => pc \in Leaving \cup {"stopping", "exiting", "ended"}
  /\ raised = "none" => cut = {} /\ origin = "none"

ScopeInv ==
  /\ pc \in Working => engine = Vertical /\ pools = {Vertical}
  /\ pc \notin Working => engine = "none" /\ pools \subseteq cut
  /\ pc \notin {"asking", "storing", "closing_client"} \cup AtSource => open \subseteq {"session"}
  /\ pc \notin {"asking", "storing", "closing_client", "closing_session"} \cup AtSource => open = {}

LooseInv ==
  /\ pc \in Working => loose \subseteq SourcesOf(Vertical)
  /\ pc \in Working /\ raised = "none" /\ loose # {} => Vertical = "jobs"
  /\ pc \in {"choosing", "opening"} /\ loose # {} => todo = <<>>
  /\ pc \in {"starting", "exiting", "ended"} => loose = {}

TurnInv ==
  /\ pc = "indexing" => InTurn
  /\ pc \in AtSource => turn \in DOMAIN Sources[Vertical]
  /\ pc \in AtSource \cup {"asking"} /\ InTurn =>
       \A i \in DOMAIN Sources[Vertical] :
         i < turn => Sources[Vertical][i] \in collected \cup reported
  /\ raised = "none" /\ pc \in Leaving \cup {"storing"} /\ InTurn =>
       SourcesOf(Vertical) \subseteq collected \cup reported
  /\ silent = {} /\ turn # 0

\* The verticals still to run.
Rest == {todo[i] : i \in DOMAIN todo}

DoneInv ==
  /\ ~args.export /\ ~args.dry_run /\ args.vertical # "none" /\ pc # "starting" =>
       Asked \subseteq done \cup Rest
  /\ pc = "stopping" /\ raised = "none" /\ ~args.export /\ args.vertical # "none" => todo = <<>>
  /\ pc \notin {"exiting", "ended"} => status = "running"

\* What an exception that a source raised, and nobody handled, is.
OutOfSource == origin = "source" => Vertical # "jobs" /\ raised # "pipeline"

IInv ==
  /\ TypeOK /\ TodoInv /\ RaisedInv /\ ScopeInv /\ LooseInv /\ TurnInv /\ DoneInv
  /\ ExitZeroMeansAllDone /\ OutOfSource

-----------------------------------------------------------------------------
\* Where an exception leads from each place.
LEMMA UnwindFacts ==
  /\ DOMAIN Unwind = {"opening", "creating", "indexing", "reading", "reporting", "storing",
                      "closing_client", "closing_session", "disposing"}
  /\ \A p \in DOMAIN Unwind :
       /\ p \in {"opening", "disposing"} => Unwind[p] = "stopping"
       /\ p \in {"creating", "closing_session"} => Unwind[p] = "disposing"
       /\ p = "closing_client" => Unwind[p] = "closing_session"
       /\ p \in {"indexing", "reading", "reporting", "storing"} => Unwind[p] = "closing_client"
BY DEF Unwind

\* The places within an engine_scope, spelled out.
LEMMA WorkingFacts ==
  Working = {"asking", "creating", "storing"} \cup AtSource \cup Leaving
BY UnwindFacts DEF Working, AtSource, Leaving

\* The first of a list and the others.
LEMMA HeadAndTail ==
  ASSUME NEW t \in Seq(Verticals), t # <<>>
  PROVE  /\ Head(t) \in Verticals /\ Tail(t) \in Seq(Verticals)
         /\ \A i \in DOMAIN t : t[i] = Head(t) \/ \E j \in DOMAIN Tail(t) : t[i] = Tail(t)[j]
         /\ (\A i \in DOMAIN t : t[i] = "jobs" => i = Len(t)) =>
              /\ \A i \in DOMAIN Tail(t) : Tail(t)[i] = "jobs" => i = Len(Tail(t))
              /\ Head(t) = "jobs" => Tail(t) = <<>>
<1>1. /\ Head(t) = t[1] /\ Len(t) \in Nat \ {0} /\ DOMAIN t = 1 .. Len(t)
      /\ Tail(t) \in Seq(Verticals) /\ Len(Tail(t)) = Len(t) - 1
      /\ DOMAIN Tail(t) = 1 .. Len(t) - 1
      /\ \A i \in 1 .. Len(t) - 1 : Tail(t)[i] = t[i + 1]
  OBVIOUS
<1>2. ASSUME NEW i \in DOMAIN t, i # 1
      PROVE  i - 1 \in DOMAIN Tail(t) /\ t[i] = Tail(t)[i - 1]
  BY <1>1, <1>2
<1>3. \A i \in DOMAIN t : t[i] = Head(t) \/ \E j \in DOMAIN Tail(t) : t[i] = Tail(t)[j]
  BY <1>1, <1>2
<1>4. Head(t) \in Verticals
  BY <1>1
<1>5. ASSUME \A i \in DOMAIN t : t[i] = "jobs" => i = Len(t)
      PROVE  /\ \A i \in DOMAIN Tail(t) : Tail(t)[i] = "jobs" => i = Len(Tail(t))
             /\ Head(t) = "jobs" => Tail(t) = <<>>
  <2>1. ASSUME NEW i \in DOMAIN Tail(t), Tail(t)[i] = "jobs"
        PROVE  i = Len(Tail(t))
    BY <1>1, <1>5, <2>1
  <2>2. ASSUME Head(t) = "jobs" PROVE Tail(t) = <<>>
    <3>1. Len(Tail(t)) = 0
      BY <1>1, <1>5, <2>2
    <3> QED BY <1>1, <3>1, EmptySeq
  <2> QED BY <2>1, <2>2
<1> QED BY <1>1, <1>3, <1>4, <1>5

\* The sources of a pipeline are at the places of its list.
LEMMA SourceFacts ==
  ASSUME NEW v \in Verticals
  PROVE  /\ DOMAIN Sources[v] = 1 .. Len(Sources[v]) /\ Len(Sources[v]) \in Nat
         /\ \A i \in DOMAIN Sources[v] : Sources[v][i] \in SourcesOf(v)
         /\ \A s \in SourcesOf(v) : \E i \in DOMAIN Sources[v] : s = Sources[v][i]
         /\ SourcesOf(v) \subseteq Names
<1>1. Sources[v] \in Seq(SourcesOf(v))
  BY SourcesAssumption
<1>2. DOMAIN Sources[v] = 1 .. Len(Sources[v]) /\ Len(Sources[v]) \in Nat
  BY <1>1
<1>3. SourcesOf(v) \subseteq Names
  BY DEF Names
<1> QED BY <1>2, <1>3 DEF SourcesOf

\* The pipeline that runs is one of the five.
LEMMA VerticalFacts ==
  ASSUME TypeOK, TodoInv, pc \in Working \cup {"opening"}
  PROVE  Vertical \in Verticals /\ Vertical # "none"
<1>1. todo \in Seq(Verticals) /\ todo # <<>>
  BY DEF TypeOK, TodoInv
<1> QED BY <1>1, HeadAndTail DEF Vertical, Verticals

\* The initial states.
LEMMA InitInvariant == Init => IInv
<1> SUFFICES ASSUME Init PROVE IInv
  OBVIOUS
<1>1. TypeOK
  BY SourcesAssumption DEF Init, TypeOK, Places
<1>2. pc = "starting" /\ pc \notin Working
  BY WorkingFacts DEF Init, AtSource, Leaving
<1>3. TodoInv /\ RaisedInv /\ ScopeInv
  BY <1>2 DEF Init, TodoInv, RaisedInv, ScopeInv, AtSource, Leaving
<1>4. LooseInv /\ TurnInv /\ DoneInv
  BY <1>2 DEF Init, LooseInv, TurnInv, DoneInv, AtSource, Leaving
<1>5. ExitZeroMeansAllDone /\ OutOfSource
  BY DEF Init, ExitZeroMeansAllDone, OutOfSource
<1> QED BY <1>1, <1>3, <1>4, <1>5 DEF IInv

\* Types.
LEMMA TypeStep ==
  ASSUME IInv, [Next]_vars
  PROVE  TypeOK'
<1>0. TypeOK /\ TodoInv /\ TurnInv
  BY DEF IInv
<1> USE <1>0 DEF scope, crawl, hist
<1>a. /\ VerticalOrder \in Seq(Verticals)
      /\ \A v \in Verticals : <<v>> \in Seq(Verticals)
  BY DEF VerticalOrder, Verticals
<1>b. Working \cup {"opening"} \subseteq Places /\ \A p \in DOMAIN Unwind : Unwind[p] \in Places
  BY UnwindFacts, WorkingFacts DEF Places, AtSource, Leaving
<1>c. pc \in AtSource => Source \in Names
  BY VerticalFacts, SourceFacts, WorkingFacts DEF TurnInv, Source
<1>1. CASE Begin
  <2>1. todo' \in Seq(Verticals)
    BY <1>1, <1>a DEF Begin, TypeOK, Arguments
  <2>2. pc' \in Places
    BY <1>1 DEF Begin, Places
  <2> QED BY <1>1, <2>1, <2>2 DEF Begin, TypeOK
<1>2. CASE SkipDry
  BY <1>2, HeadAndTail DEF SkipDry, TypeOK, Places
<1>3. CASE EndLoop \/ Enter \/ AskNext \/ EndSources \/ IndexRead \/ Store
  <2>1. /\ UNCHANGED <<args, todo, raised, engine, pools, open, turn, runs, collected, reported>>
        /\ UNCHANGED <<loose, status, done, silent, origin, cut, interrupts>>
    BY <1>3 DEF EndLoop, Enter, AskNext, EndSources, IndexRead, Store
  <2>2. pc' \in {"stopping", "opening", "indexing", "reading", "storing", "closing_client"}
    BY <1>3 DEF EndLoop, Enter, AskNext, EndSources, IndexRead, Store
  <2>3. pc' \in Places
    BY <2>2, UnwindFacts DEF Places
  <2> QED
    BY <2>1, <2>3 DEF TypeOK
<1>4. CASE Open
  <2>1. Vertical \in Verticals
    BY <1>4, VerticalFacts DEF Open
  <2> QED BY <1>4, <2>1, UnwindFacts DEF Open, TypeOK, Places
<1>15. CASE CreateTables
  BY <1>15 DEF CreateTables, TypeOK, Places
<1>5. CASE Fails
  BY <1>5, <1>b, UnwindFacts DEF Fails, Raise, TypeOK
<1>6. CASE AskInPass
  <2>1. turn' \in Nat
    BY <1>6, VerticalFacts, SourceFacts, WorkingFacts DEF AskInPass
  <2> QED BY <1>6, <2>1, UnwindFacts DEF AskInPass, TypeOK, Places
<1>7. CASE AdapterReturns \/ Report
  <2>1. Source \in Names /\ pc' = "asking" /\ "asking" \in Places
    BY <1>7, <1>c DEF AdapterReturns, Report, AtSource, Places
  <2>2. turn' \in Nat /\ collected' \subseteq Names /\ reported' \subseteq Names
    BY <1>7, <2>1 DEF AdapterReturns, Report, TypeOK
  <2> QED BY <1>7, <2>1, <2>2 DEF AdapterReturns, Report, TypeOK
<1>8. ASSUME NEW e \in {"pipeline", "other"}, AdapterRaises(e)
      PROVE  TypeOK'
  <2>1. pc \in {"indexing", "reading"} /\ Unwind[pc] \in Places /\ loose' \subseteq Names
    BY <1>8, <1>b, <1>c, UnwindFacts DEF AdapterRaises, AtSource, TypeOK
  <2> QED BY <1>8, <2>1, UnwindFacts DEF AdapterRaises, Raise, TypeOK, Places
<1>9. CASE LooseEnds
  BY <1>9 DEF LooseEnds, TypeOK
<1>10. CASE CloseClient \/ CloseSession
  BY <1>10, UnwindFacts DEF CloseClient, CloseSession, TypeOK, Places
<1>11. CASE Dispose
  <2>1. pc = "disposing" /\ pc \in Working /\ todo # <<>> /\ Vertical \in Verticals
    BY <1>11, VerticalFacts, WorkingFacts DEF Dispose, Leaving, TodoInv
  <2>2. silent' \subseteq Names /\ done' \subseteq Verticals
    BY <1>11, <2>1, SourceFacts DEF Dispose, TypeOK
  <2>3. todo' \in Seq(Verticals)
    BY <1>11, <2>1, HeadAndTail DEF Dispose, TypeOK
  <2>4. pc' \in Places
    BY <1>11, <1>b, <2>1, UnwindFacts DEF Dispose, TypeOK, Places
  <2> QED BY <1>11, <2>2, <2>3, <2>4 DEF Dispose, TypeOK
<1>12. CASE Stop \/ Exit
  BY <1>12 DEF Stop, Exit, Status, StatusOfReturn, TypeOK, Places
<1>13. CASE Interrupt
  <2>1. pc \in Working /\ Unwind[pc] \in Places /\ pc # "opening"
    BY <1>13, <1>b, UnwindFacts DEF Interrupt, Working
  <2>2. interrupts' \in 0 .. MaxInterrupts
    BY <1>13, SourcesAssumption DEF Interrupt, TypeOK
  <2>3. cut' \subseteq Verticals
    <3>1. CASE pc \in {"closing_session", "disposing"}
      BY <1>13, <2>1, <3>1, VerticalFacts DEF Interrupt, TypeOK, IInv, ScopeInv
    <3>2. CASE pc \notin {"closing_session", "disposing"}
      BY <1>13, <3>2 DEF Interrupt, TypeOK
    <3> QED BY <3>1, <3>2
  <2>4. open' \subseteq {"session", "client"}
    BY <1>13 DEF Interrupt, TypeOK
  <2>5. engine' \in Verticals \cup {"none"} /\ pools' \subseteq Verticals
    BY <1>13 DEF Interrupt, TypeOK
  <2> QED BY <1>13, <2>1, <2>2, <2>3, <2>4, <2>5 DEF Interrupt, TypeOK
<1>14. CASE UNCHANGED vars
  BY <1>14 DEF vars, TypeOK
<1> QED
  BY <1>1, <1>2, <1>3, <1>4, <1>5, <1>6, <1>7, <1>8, <1>9, <1>10, <1>11, <1>12, <1>13, <1>14,
     <1>15 DEF Next, Forward

\* Jobs stays last, and what runs is in the list.
LEMMA TodoStep ==
  ASSUME IInv, [Next]_vars
  PROVE  TodoInv'
<1>0. TypeOK /\ TodoInv
  BY DEF IInv
<1> USE <1>0 DEF scope, crawl, hist
<1>a. ASSUME UNCHANGED todo, pc' \in Working \cup {"opening"} => todo # <<>>
      PROVE  TodoInv'
  BY <1>a DEF TodoInv
<1>b. Working = {"asking", "creating", "storing"} \cup AtSource \cup Leaving
  BY WorkingFacts
<1>1. CASE Begin
  <2>1. CASE UNCHANGED todo
    BY <1>1, <1>b, <2>1 DEF Begin, TodoInv, AtSource, Leaving
  <2>2. CASE todo' = VerticalOrder
    <3>1. \A i \in DOMAIN VerticalOrder : VerticalOrder[i] = "jobs" => i = Len(VerticalOrder)
      BY DEF VerticalOrder
    <3> QED BY <1>1, <1>b, <2>2, <3>1 DEF Begin, TodoInv, AtSource, Leaving
  <2>3. CASE todo' = <<args.vertical>>
    BY <1>1, <1>b, <2>3 DEF Begin, TodoInv, AtSource, Leaving
  <2> QED BY <1>1, <2>1, <2>2, <2>3 DEF Begin
<1>2. CASE SkipDry
  BY <1>2, <1>b, HeadAndTail DEF SkipDry, TodoInv, TypeOK, AtSource, Leaving
<1>3. CASE Dispose
  <2>1. CASE raised = "none"
    BY <1>3, <1>b, <2>1, HeadAndTail DEF Dispose, TodoInv, TypeOK, AtSource, Leaving
  <2>2. CASE raised # "none"
    BY <1>3, <1>a, <1>b, <2>2, UnwindFacts DEF Dispose, AtSource, Leaving
  <2> QED BY <2>1, <2>2
<1>4. CASE EndLoop \/ Enter \/ Open \/ CreateTables \/ Stop \/ Exit
  BY <1>4, <1>a, <1>b DEF EndLoop, Enter, Open, CreateTables, Stop, Exit, TodoInv, AtSource, Leaving
<1>5. CASE AskNext \/ AskInPass \/ EndSources \/ IndexRead \/ AdapterReturns \/ Report \/ Store
  BY <1>5, <1>a, <1>b DEF AskNext, AskInPass, EndSources, IndexRead, AdapterReturns, Report, Store,
     TodoInv, AtSource
<1>6. CASE CloseClient \/ CloseSession \/ LooseEnds
  BY <1>6, <1>a, <1>b DEF CloseClient, CloseSession, LooseEnds, TodoInv, Leaving
<1>7. CASE Fails \/ (\E e \in {"pipeline", "other"} : AdapterRaises(e)) \/ Interrupt
  <2>1. todo # <<>> /\ UNCHANGED todo
    BY <1>7, <1>b, UnwindFacts DEF Fails, AdapterRaises, Interrupt, TodoInv, AtSource, Leaving
  <2> QED BY <1>a, <2>1
<1>8. CASE UNCHANGED vars
  BY <1>8 DEF vars, TodoInv, Working
<1> QED
  BY <1>1, <1>2, <1>3, <1>4, <1>5, <1>6, <1>7, <1>8 DEF Next, Forward

\* An exception only moves towards the exit.
LEMMA RaisedStep ==
  ASSUME IInv, [Next]_vars
  PROVE  RaisedInv'
<1>0. RaisedInv
  BY DEF IInv
<1> USE <1>0 DEF scope, crawl, hist, RaisedInv, Leaving
<1>1. CASE Begin \/ SkipDry \/ EndLoop \/ Enter \/ Open \/ CreateTables \/ LooseEnds
  BY <1>1 DEF Begin, SkipDry, EndLoop, Enter, Open, CreateTables, LooseEnds
<1>2. CASE AskNext \/ AskInPass \/ EndSources \/ IndexRead \/ AdapterReturns \/ Report \/ Store
  BY <1>2 DEF AskNext, AskInPass, EndSources, IndexRead, AdapterReturns, Report, Store
<1>3. CASE CloseClient \/ CloseSession \/ Stop \/ Exit
  BY <1>3 DEF CloseClient, CloseSession, Stop, Exit
<1>4. CASE Dispose
  BY <1>4, UnwindFacts DEF Dispose
<1>5. CASE Fails
  BY <1>5, UnwindFacts DEF Fails, Raise
<1>6. ASSUME NEW e \in {"pipeline", "other"}, AdapterRaises(e)
      PROVE  RaisedInv'
  BY <1>6, UnwindFacts DEF AdapterRaises, Raise
<1>7. CASE Interrupt
  BY <1>7, UnwindFacts DEF Interrupt
<1>8. CASE UNCHANGED vars
  BY <1>8 DEF vars
<1> QED
  BY <1>1, <1>2, <1>3, <1>4, <1>5, <1>6, <1>7, <1>8 DEF Next, Forward

\* The engine, its pool, the session and the client are of the vertical that runs.
LEMMA ScopeStep ==
  ASSUME IInv, [Next]_vars
  PROVE  ScopeInv'
<1>0. TypeOK /\ TodoInv /\ RaisedInv /\ ScopeInv
  BY DEF IInv
<1>b. Working = {"asking", "creating", "storing"} \cup AtSource \cup Leaving
  BY WorkingFacts
<1> USE <1>0 DEF scope, crawl, hist, ScopeInv, AtSource, Leaving, Vertical
<1>1. CASE Begin \/ SkipDry \/ EndLoop \/ Enter \/ Stop \/ Exit
  BY <1>1, <1>b DEF Begin, SkipDry, EndLoop, Enter, Stop, Exit
<1>11. CASE LooseEnds
  BY <1>11, <1>b DEF LooseEnds
<1>2. CASE AskNext \/ AskInPass \/ EndSources \/ IndexRead \/ AdapterReturns \/ Report \/ Store
  BY <1>2, <1>b DEF AskNext, AskInPass, EndSources, IndexRead, AdapterReturns, Report, Store
<1>3. CASE Open
  BY <1>3, <1>b DEF Open, RaisedInv
<1>4. CASE CreateTables
  BY <1>4, <1>b DEF CreateTables
<1>5. CASE CloseClient \/ CloseSession
  BY <1>5, <1>b DEF CloseClient, CloseSession, TypeOK
<1>6. CASE Dispose
  <2>1. pc' \notin Working /\ pc' \in {"choosing", "stopping"}
    BY <1>6, <1>b, UnwindFacts DEF Dispose
  <2>2. pc = "disposing" /\ pc \in Working /\ pools = {engine}
    BY <1>6, <1>b DEF Dispose
  <2>3. pools' \subseteq cut
    <3>1. CASE engine \in cut
      BY <1>6, <2>2, <3>1 DEF Dispose
    <3>2. CASE engine \notin cut
      BY <1>6, <2>2, <3>2 DEF Dispose
    <3> QED BY <3>1, <3>2
  <2>4. engine' = "none" /\ open' = {} /\ cut' = cut
    BY <1>6, <2>2 DEF Dispose
  <2> QED BY <2>1, <2>3, <2>4
<1>7. CASE Fails
  BY <1>7, <1>b, UnwindFacts DEF Fails, Raise
<1>8. ASSUME NEW e \in {"pipeline", "other"}, AdapterRaises(e)
      PROVE  ScopeInv'
  BY <1>8, <1>b, UnwindFacts DEF AdapterRaises, Raise
<1>9. CASE Interrupt
  <2>1. CASE pc = "disposing"
    <3>1. pc' = "stopping" /\ engine' = "none" /\ cut' = cut \cup {engine} /\ open' = {}
      BY <1>9, <2>1, UnwindFacts DEF Interrupt
    <3>2. pools' \subseteq cut'
      BY <1>9, <1>b, <2>1, <3>1 DEF Interrupt
    <3> QED BY <1>b, <3>1, <3>2
  <2>2. CASE pc = "closing_session"
    BY <1>9, <1>b, <2>2, UnwindFacts DEF Interrupt
  <2>3. CASE pc = "closing_client"
    BY <1>9, <1>b, <2>3, UnwindFacts DEF Interrupt, TypeOK
  <2>4. CASE pc \notin {"disposing", "closing_session", "closing_client"}
    BY <1>9, <1>b, <2>4, UnwindFacts DEF Interrupt
  <2> QED BY <2>1, <2>2, <2>3, <2>4
<1>10. CASE UNCHANGED vars
  BY <1>10, <1>b DEF vars
<1> QED
  BY <1>1, <1>2, <1>3, <1>4, <1>5, <1>6, <1>7, <1>8, <1>9, <1>10, <1>11 DEF Next, Forward

\* What is left of an adapter run outlives no other than the last vertical.
LEMMA LooseStep ==
  ASSUME IInv, [Next]_vars
  PROVE  LooseInv'
<1>0. TypeOK /\ TodoInv /\ RaisedInv /\ LooseInv /\ TurnInv
  BY DEF IInv
<1>b. Working = {"asking", "creating", "storing"} \cup AtSource \cup Leaving
  BY WorkingFacts
<1> USE <1>0 DEF scope, crawl, hist, LooseInv, AtSource, Leaving
<1>1. CASE Begin \/ SkipDry \/ EndLoop \/ Enter
  <2>1. pc' \notin Working /\ pc' \in {"stopping", "choosing", "opening"} /\ loose' = loose
    BY <1>1, <1>b DEF Begin, SkipDry, EndLoop, Enter
  <2>2. pc' \in {"choosing", "opening"} /\ loose' # {} => todo' = <<>>
    BY <1>1 DEF Begin, SkipDry, EndLoop, Enter
  <2> QED BY <2>1, <2>2
<1>2. CASE Open
  <2>1. loose = {} /\ loose' = {} /\ pc' = "creating"
    BY <1>2, <1>b DEF Open, TodoInv
  <2> QED BY <2>1
<1>3. CASE CreateTables \/ AskNext \/ AskInPass \/ EndSources \/ IndexRead
  BY <1>3, <1>b DEF CreateTables, AskNext, AskInPass, EndSources, IndexRead, Vertical
<1>4. CASE AdapterReturns \/ Report \/ Store \/ CloseClient \/ CloseSession
  BY <1>4, <1>b DEF AdapterReturns, Report, Store, CloseClient, CloseSession, Vertical
<1>5. CASE LooseEnds
  BY <1>5, <1>b DEF LooseEnds, Vertical
<1>6. CASE Fails
  <2>1. /\ raised' # "none" /\ loose' = loose /\ todo' = todo
        /\ pc' \in Working \/ pc' = "stopping"
        /\ pc' \in Working => pc \in Working
    BY <1>6, <1>b, UnwindFacts DEF Fails, Raise
  <2> QED BY <1>b, <2>1 DEF Vertical
<1>7. ASSUME NEW e \in {"pipeline", "other"}, AdapterRaises(e)
      PROVE  LooseInv'
  <2>1. /\ pc \in {"indexing", "reading"} /\ pc \in Working /\ raised = "none"
        /\ Vertical' = Vertical /\ Vertical \in Verticals
    BY <1>7, <1>b, VerticalFacts DEF AdapterRaises, RaisedInv, Vertical
  <2>2. loose' \subseteq SourcesOf(Vertical)
    BY <1>7, <2>1, SourceFacts DEF AdapterRaises, TurnInv, Source
  <2>3. CASE Caught(e)
    <3>1. pc' = "reporting" /\ raised' = "none"
      BY <1>7, <2>1, <2>3 DEF AdapterRaises
    <3>2. loose' # {} => Vertical = "jobs"
      BY <1>7, <2>1, <2>3 DEF AdapterRaises, Caught, InTurn
    <3> QED BY <1>b, <2>1, <2>2, <3>1, <3>2
  <2>4. CASE ~Caught(e)
    <3>1. pc' = "closing_client" /\ raised' # "none"
      BY <1>7, <2>1, <2>4, UnwindFacts DEF AdapterRaises, Raise
    <3> QED BY <1>b, <2>1, <2>2, <3>1
  <2> QED BY <2>3, <2>4
<1>8. CASE Dispose
  <2>1. pc \in Working /\ loose' = loose
    BY <1>8, <1>b DEF Dispose
  <2>2. CASE raised = "none"
    <3>1. loose # {} => Tail(todo) = <<>>
      BY <2>1, <2>2, HeadAndTail DEF TodoInv, TypeOK, Vertical
    <3> QED BY <1>8, <1>b, <2>1, <2>2, <3>1 DEF Dispose
  <2>3. CASE raised # "none"
    <3>1. pc' = "stopping"
      BY <1>8, <2>3, UnwindFacts DEF Dispose
    <3> QED BY <1>b, <3>1
  <2> QED BY <2>2, <2>3
<1>9. CASE Interrupt
  <2>1. /\ raised' # "none" /\ loose' = loose /\ todo' = todo /\ pc \in Working
        /\ pc' \in Working \/ pc' = "stopping"
    BY <1>9, <1>b, UnwindFacts DEF Interrupt
  <2> QED BY <1>b, <2>1 DEF Vertical
<1>10. CASE Stop \/ Exit
  BY <1>10, <1>b DEF Stop, Exit
<1>11. CASE UNCHANGED vars
  BY <1>11 DEF vars, Vertical
<1> QED
  BY <1>1, <1>2, <1>3, <1>4, <1>5, <1>6, <1>7, <1>8, <1>9, <1>10, <1>11 DEF Next, Forward

\* The sources before the turn were collected or reported.
LEMMA TurnStep ==
  ASSUME IInv, [Next]_vars
  PROVE  TurnInv'
<1>0. TypeOK /\ TodoInv /\ RaisedInv /\ TurnInv
  BY DEF IInv
<1>b. Working = {"asking", "creating", "storing"} \cup AtSource \cup Leaving
  BY WorkingFacts
<1>v. pc \in Working => Vertical \in Verticals
  BY VerticalFacts, <1>0
<1> USE <1>0 DEF scope, crawl, hist, TurnInv, AtSource, Leaving
<1>1. CASE Begin \/ SkipDry \/ EndLoop \/ Enter \/ Open \/ Stop \/ Exit
  BY <1>1 DEF Begin, SkipDry, EndLoop, Enter, Open, Stop, Exit
<1>2. CASE CreateTables
  <2>1. Vertical \in Verticals /\ Vertical' = Vertical
    BY <1>2, <1>b, <1>v DEF CreateTables, Vertical
  <2>2. \A i \in DOMAIN Sources[Vertical] : ~(i < 1)
    BY <2>1, SourceFacts
  <2> QED BY <1>2, <2>1, <2>2 DEF CreateTables
<1>3. CASE AskNext
  <2>1. Vertical \in Verticals /\ Vertical' = Vertical /\ InTurn /\ InTurn'
    BY <1>3, <1>b, <1>v DEF AskNext, Vertical, InTurn
  <2>2. turn \in DOMAIN Sources[Vertical]
    <3>1. turn \in Nat /\ turn # 0
      BY <1>3 DEF AskNext, TypeOK
    <3> QED BY <1>3, <2>1, <3>1, SourceFacts DEF AskNext
  <2> QED BY <1>3, <2>1, <2>2 DEF AskNext
<1>4. CASE AskInPass
  <2>1. Vertical' = Vertical /\ ~InTurn' /\ turn' \in DOMAIN Sources[Vertical] /\ turn' # 0
    BY <1>4, <1>b, <1>v, SourceFacts DEF AskInPass, Vertical, InTurn
  <2> QED BY <1>4, <2>1 DEF AskInPass
<1>5. CASE EndSources
  <2>1. Vertical \in Verticals /\ Vertical' = Vertical
    BY <1>5, <1>b, <1>v DEF EndSources, Vertical
  <2>2. InTurn => SourcesOf(Vertical) \subseteq collected \cup reported
    <3> SUFFICES ASSUME InTurn, NEW s \in SourcesOf(Vertical)
                 PROVE  s \in collected \cup reported
      OBVIOUS
    <3>1. PICK i \in DOMAIN Sources[Vertical] : s = Sources[Vertical][i]
      BY <2>1, SourceFacts
    <3>2. i < turn
      BY <1>5, <2>1, SourceFacts DEF EndSources, TypeOK
    <3> QED BY <1>5, <3>1, <3>2 DEF EndSources
  <2> QED BY <1>5, <2>1, <2>2 DEF EndSources, InTurn
<1>6. CASE IndexRead
  BY <1>6, <1>b DEF IndexRead, Vertical, InTurn
<1>7. CASE AdapterReturns \/ Report
  <2>1. Vertical \in Verticals /\ Vertical' = Vertical /\ (InTurn' <=> InTurn) /\ pc' = "asking"
    BY <1>7, <1>b, <1>v DEF AdapterReturns, Report, Vertical, InTurn
  <2>2. ASSUME InTurn, NEW i \in DOMAIN Sources[Vertical], i < turn'
        PROVE  Sources[Vertical][i] \in collected' \cup reported'
    <3>1. i \in Nat /\ turn \in Nat /\ turn' = turn + 1
      BY <1>7, <2>1, <2>2, SourceFacts DEF AdapterReturns, Report, TypeOK
    <3>2. CASE i = turn
      BY <1>7, <3>2 DEF AdapterReturns, Report, Source
    <3>3. CASE i # turn
      BY <1>7, <2>2, <3>1, <3>3 DEF AdapterReturns, Report
    <3> QED BY <3>2, <3>3
  <2>3. silent' = {} /\ turn' # 0
    BY <1>7 DEF AdapterReturns, Report, TypeOK
  <2> QED BY <2>1, <2>2, <2>3
<1>8. CASE Store \/ CloseClient \/ CloseSession \/ LooseEnds
  BY <1>8, <1>b DEF Store, CloseClient, CloseSession, LooseEnds, Vertical, InTurn, Source
<1>9. CASE Fails
  BY <1>9, <1>b, UnwindFacts DEF Fails, Raise
<1>10. ASSUME NEW e \in {"pipeline", "other"}, AdapterRaises(e)
       PROVE  TurnInv'
  <2>1. CASE Caught(e)
    BY <1>10, <2>1 DEF AdapterRaises, Vertical, InTurn
  <2>2. CASE ~Caught(e)
    BY <1>10, <2>2, UnwindFacts DEF AdapterRaises, Raise
  <2> QED BY <2>1, <2>2
<1>11. CASE Dispose
  <2>1. CASE raised = "none"
    BY <1>11, <2>1 DEF Dispose
  <2>2. CASE raised # "none"
    BY <1>11, <2>2, UnwindFacts DEF Dispose
  <2> QED BY <2>1, <2>2
<1>12. CASE Interrupt
  <2>1. raised' # "none" /\ silent' = {} /\ turn' # 0 /\ pc' \notin AtSource \cup {"asking"}
    BY <1>12, UnwindFacts DEF Interrupt
  <2> QED BY <2>1
<1>13. CASE UNCHANGED vars
  BY <1>13 DEF vars, Vertical, InTurn
<1> QED
  BY <1>1, <1>2, <1>3, <1>4, <1>5, <1>6, <1>7, <1>8, <1>9, <1>10, <1>11, <1>12, <1>13
     DEF Next, Forward

\* A vertical leaves the list only when it is done, and a status is given only at the end.
LEMMA DoneStep ==
  ASSUME IInv, [Next]_vars
  PROVE  DoneInv' /\ ExitZeroMeansAllDone'
<1>0. TypeOK /\ TodoInv /\ RaisedInv /\ TurnInv /\ DoneInv /\ ExitZeroMeansAllDone
  BY DEF IInv
<1>b. Working = {"asking", "creating", "storing"} \cup AtSource \cup Leaving
  BY WorkingFacts
<1> USE <1>0 DEF scope, crawl, hist, DoneInv, Asked, Rest, AtSource, Leaving
<1>1. CASE Begin
  <2>1. DoneInv'
    <3> SUFFICES ASSUME ~args.export, args.vertical # "none"
                 PROVE  pc' = "choosing" /\ status' = "running" /\ Asked' \subseteq Rest'
      BY <1>1 DEF Begin
    <3>1. pc' = "choosing" /\ status' = "running" /\ args' = args
      BY <1>1 DEF Begin
    <3>2. Verticals \subseteq {VerticalOrder[i] : i \in DOMAIN VerticalOrder}
      <4>1. /\ DOMAIN VerticalOrder = 1 .. 5
            /\ VerticalOrder[1] = "research" /\ VerticalOrder[2] = "startups"
            /\ VerticalOrder[3] = "products" /\ VerticalOrder[4] = "news"
            /\ VerticalOrder[5] = "jobs"
        BY DEF VerticalOrder
      <4> QED BY <4>1 DEF Verticals
    <3>3. CASE args.vertical = "all"
      BY <1>1, <3>1, <3>2, <3>3 DEF Begin
    <3>4. CASE args.vertical # "all"
      BY <1>1, <3>1, <3>4 DEF Begin
    <3> QED BY <3>1, <3>3, <3>4
  <2> QED BY <1>1, <2>1 DEF Begin, ExitZeroMeansAllDone
<1>2. CASE EndLoop
  BY <1>2 DEF EndLoop, ExitZeroMeansAllDone
<1>3. CASE SkipDry
  BY <1>3 DEF SkipDry, ExitZeroMeansAllDone
<1>4. CASE Enter \/ Open \/ CreateTables
  BY <1>4 DEF Enter, Open, CreateTables, ExitZeroMeansAllDone
<1>5. CASE Fails
  BY <1>5, UnwindFacts DEF Fails, Raise, ExitZeroMeansAllDone
<1>6. CASE AskNext \/ AskInPass \/ EndSources \/ IndexRead \/ AdapterReturns \/ Report \/ Store
  BY <1>6 DEF AskNext, AskInPass, EndSources, IndexRead, AdapterReturns, Report, Store,
     ExitZeroMeansAllDone
<1>7. ASSUME NEW e \in {"pipeline", "other"}, AdapterRaises(e)
      PROVE  DoneInv' /\ ExitZeroMeansAllDone'
  BY <1>7, UnwindFacts DEF AdapterRaises, Raise, ExitZeroMeansAllDone
<1>8. CASE LooseEnds \/ CloseClient \/ CloseSession \/ Exit
  BY <1>8 DEF LooseEnds, CloseClient, CloseSession, Exit, ExitZeroMeansAllDone
<1>9. CASE Dispose
  <2>1. CASE raised = "none"
    <3>0. todo \in Seq(Verticals) /\ todo # <<>> /\ todo' = Tail(todo)
      BY <1>9, <1>b, <2>1 DEF Dispose, TodoInv, TypeOK
    <3>1. Rest \subseteq {Vertical} \cup Rest'
      <4> SUFFICES ASSUME NEW i \in DOMAIN todo PROVE todo[i] \in {Vertical} \cup Rest'
        OBVIOUS
      <4>1. todo[i] = Head(todo) \/ \E j \in DOMAIN Tail(todo) : todo[i] = Tail(todo)[j]
        BY <3>0, HeadAndTail
      <4> QED BY <3>0, <4>1 DEF Vertical
    <3>2. Rest \subseteq done' \cup Rest' /\ done \subseteq done'
      BY <1>9, <2>1, <3>1 DEF Dispose
    <3>3. pc = "disposing" /\ pc' = "choosing" /\ args' = args /\ status' = "running"
      BY <1>9, <2>1 DEF Dispose
    <3>4. Asked' = Asked
      BY <3>3
    <3>5. pc # "starting" /\ ~args.export /\ ~args.dry_run /\ args.vertical # "none" =>
            Asked \subseteq done' \cup Rest'
      BY <3>2
    <3>6. DoneInv'
      BY <3>3, <3>4, <3>5
    <3> QED BY <3>3, <3>6 DEF ExitZeroMeansAllDone
  <2>2. CASE raised # "none"
    BY <1>9, <2>2, UnwindFacts DEF Dispose, ExitZeroMeansAllDone
  <2> QED BY <2>1, <2>2
<1>10. CASE Stop
  <2>1. DoneInv'
    BY <1>10 DEF Stop
  <2>2. ASSUME Status = "success", ~args.export, ~args.dry_run
        PROVE  Asked \subseteq done /\ silent = {}
    <3>1. raised = "none" /\ args.vertical # "none" /\ todo = <<>>
      BY <1>10, <2>2 DEF Stop, Status, StatusOfReturn
    <3>2. Rest = {}
      BY <3>1
    <3> QED BY <1>10, <2>2, <3>1, <3>2 DEF Stop, TurnInv
  <2> QED BY <1>10, <2>1, <2>2 DEF Stop, ExitZeroMeansAllDone
<1>11. CASE Interrupt
  BY <1>11, UnwindFacts DEF Interrupt, ExitZeroMeansAllDone
<1>12. CASE UNCHANGED vars
  BY <1>12 DEF vars, ExitZeroMeansAllDone
<1> QED
  BY <1>1, <1>2, <1>3, <1>4, <1>5, <1>6, <1>7, <1>8, <1>9, <1>10, <1>11, <1>12 DEF Next, Forward

\* Only an exception that no handler names takes a source's failure out of its pipeline.
LEMMA SourceStep ==
  ASSUME IInv, [Next]_vars
  PROVE  OutOfSource'
<1>0. TypeOK /\ TodoInv /\ RaisedInv /\ TurnInv /\ OutOfSource
  BY DEF IInv
<1> USE <1>0 DEF scope, crawl, hist, OutOfSource, Vertical
<1>1. CASE Begin \/ SkipDry \/ Dispose
  BY <1>1 DEF Begin, SkipDry, Dispose, RaisedInv, Leaving
<1>2. CASE EndLoop \/ Enter \/ Open \/ CreateTables \/ AskNext \/ AskInPass \/ EndSources
  BY <1>2 DEF EndLoop, Enter, Open, CreateTables, AskNext, AskInPass, EndSources
<1>3. CASE IndexRead \/ AdapterReturns \/ Report \/ Store \/ LooseEnds \/ CloseClient
  BY <1>3 DEF IndexRead, AdapterReturns, Report, Store, LooseEnds, CloseClient
<1>4. CASE CloseSession \/ Stop \/ Exit \/ Interrupt
  BY <1>4 DEF CloseSession, Stop, Exit, Interrupt
<1>5. CASE Fails
  BY <1>5 DEF Fails, Raise
<1>6. ASSUME NEW e \in {"pipeline", "other"}, AdapterRaises(e)
      PROVE  OutOfSource'
  <2>1. CASE Caught(e)
    BY <1>6, <2>1 DEF AdapterRaises
  <2>2. CASE ~Caught(e)
    BY <1>6, <2>2 DEF AdapterRaises, Raise, Caught, TurnInv, InTurn, AtSource
  <2> QED BY <2>1, <2>2
<1>7. CASE UNCHANGED vars
  BY <1>7 DEF vars
<1> QED
  BY <1>1, <1>2, <1>3, <1>4, <1>5, <1>6, <1>7 DEF Next, Forward

-----------------------------------------------------------------------------
\* The inductive invariant holds in every reachable state.
THEOREM Invariant == Spec => []IInv
<1>1. Init => IInv
  BY InitInvariant
<1>2. IInv /\ [Next]_vars => IInv'
  BY TypeStep, TodoStep, RaisedStep, ScopeStep, LooseStep, TurnStep, DoneStep, SourceStep
     DEF IInv
<1> QED BY <1>1, <1>2, PTL DEF Spec

\* A call keeps its types, for every set of sources and every bound.
THEOREM TypeCorrect == Spec => []TypeOK
<1>1. IInv => TypeOK
  BY DEF IInv
<1> QED BY <1>1, Invariant, PTL

\* However a call ends, it has closed and disposed of what it opened, but for a pool whose
\* disposal was interrupted.
THEOREM LeavesNothingOpen == Spec => []NothingLeftOpen
<1>1. IInv => NothingLeftOpen
  BY WorkingFacts DEF IInv, NothingLeftOpen, ScopeInv, LooseInv, AtSource, Leaving
<1> QED BY <1>1, Invariant, PTL

\* No pool of one vertical, and none of the tasks it left behind, is there while another
\* runs, whatever was raised.
THEOREM VerticalsAreApart == Spec => []VerticalsDoNotOverlap
<1>1. IInv => VerticalsDoNotOverlap
  BY DEF IInv, VerticalsDoNotOverlap, ScopeInv, LooseInv
<1> QED BY <1>1, Invariant, PTL

\* Exit status 0 is never given to a call that left out a vertical or was silent about a
\* source of news or jobs.
THEOREM ExitZeroIsTrue == Spec => []ExitZeroMeansAllDone
<1>1. IInv => ExitZeroMeansAllDone
  BY DEF IInv
<1> QED BY <1>1, Invariant, PTL

\* A source that fails with an error of the pipeline ends no vertical, and one of jobs
\* ends none whatever it raises; news and jobs store their records only when every source
\* has been collected or reported.
THEOREM FailedSourceEndsNothing == Spec => []FailedSourceIsNotFatal
<1>1. IInv => FailedSourceIsNotFatal
  BY DEF IInv, OutOfSource, FailedSourceIsNotFatal, TurnInv, RaisedInv, Leaving
<1> QED BY <1>1, Invariant, PTL
-----------------------------------------------------------------------------
(* Every step of the main task comes nearer to the end of the call: a      *)
(* vertical that is left is not entered again, within a vertical the run   *)
(* only moves on, and its sources are finitely many.                       *)

Looping == {"asking"} \cup AtSource

InterruptsLeft == MaxInterrupts - interrupts

VerticalsLeft == IF pc = "starting" THEN Len(VerticalOrder) + 1 ELSE Len(todo)

StageOf ==
  [starting |-> 11, choosing |-> 10, opening |-> 9, creating |-> 8,
   asking |-> 7, indexing |-> 7, reading |-> 7, reporting |-> 7, storing |-> 6,
   closing_client |-> 5, closing_session |-> 4, disposing |-> 3,
   stopping |-> 2, exiting |-> 1, ended |-> 0]

Stage == StageOf[pc]

SourcesLeft ==
  IF pc \notin Looping THEN 0
  ELSE IF InTurn THEN Len(Sources[Vertical]) + 1 - turn
  ELSE MaxRuns - runs

Rank ==
  CASE pc = "asking"   -> IF InTurn THEN 3 ELSE 0
    [] pc = "indexing" -> 2
    [] pc = "reading"  -> 1
    [] OTHER           -> 0

\* The five in their order: the first that changes gets less.
Nearer ==
  \/ InterruptsLeft' < InterruptsLeft
  \/ /\ InterruptsLeft' = InterruptsLeft
     /\ \/ VerticalsLeft' < VerticalsLeft
        \/ /\ VerticalsLeft' = VerticalsLeft
           /\ \/ Stage' < Stage
              \/ /\ Stage' = Stage
                 /\ \/ SourcesLeft' < SourcesLeft
                    \/ SourcesLeft' = SourcesLeft /\ Rank' < Rank

Measures == <<InterruptsLeft, VerticalsLeft, Stage, SourcesLeft, Rank>>

Measured ==
  /\ InterruptsLeft \in Nat /\ VerticalsLeft \in Nat /\ Stage \in Nat /\ SourcesLeft \in Nat
  /\ Rank \in Nat

\* No source is passed that is not there, no pass is made too many, and only a source of
\* news or jobs is reported.
BoundInv ==
  /\ runs <= MaxRuns
  /\ pc = "reporting" => InTurn
  /\ pc = "starting" => todo = <<>>
  /\ pc = "asking" /\ InTurn => turn <= Len(Sources[Vertical]) + 1

\* The stages of a call, in their order.
LEMMA StageFacts ==
  /\ \A p \in Places : StageOf[p] \in Nat
  /\ StageOf["choosing"] > StageOf["opening"] /\ StageOf["opening"] > StageOf["creating"]
  /\ StageOf["creating"] > StageOf["asking"] /\ StageOf["asking"] > StageOf["storing"]
  /\ StageOf["storing"] > StageOf["closing_client"]
  /\ StageOf["closing_client"] > StageOf["closing_session"]
  /\ StageOf["closing_session"] > StageOf["disposing"]
  /\ StageOf["disposing"] > StageOf["stopping"] /\ StageOf["choosing"] > StageOf["stopping"]
  /\ StageOf["stopping"] > StageOf["exiting"] /\ StageOf["exiting"] > StageOf["ended"]
  /\ \A p \in Looping : StageOf[p] = StageOf["asking"]
  /\ \A p \in DOMAIN Unwind : StageOf[Unwind[p]] < StageOf[p]
<1>1. Places = {"starting", "choosing", "asking", "stopping", "exiting", "ended", "opening",
                "creating", "indexing", "reading", "reporting", "storing", "closing_client",
                "closing_session", "disposing"}
  BY UnwindFacts DEF Places
<1>2. \A p \in DOMAIN Unwind : StageOf[Unwind[p]] < StageOf[p]
  BY UnwindFacts DEF StageOf
<1> QED
  BY <1>1, <1>2 DEF StageOf, Looping, AtSource

\* The measures are natural numbers.
LEMMA MeasuresAreNumbers ==
  ASSUME IInv, BoundInv
  PROVE  Measured
<1>1. TypeOK /\ TodoInv /\ TurnInv
  BY DEF IInv
<1>2. InterruptsLeft \in Nat
  BY <1>1, SourcesAssumption DEF TypeOK, InterruptsLeft
<1>3. VerticalsLeft \in Nat
  BY <1>1 DEF TypeOK, VerticalsLeft, VerticalOrder
<1>4. Stage \in Nat
  BY <1>1, StageFacts DEF TypeOK, Stage
<1>5. Rank \in Nat
  BY DEF Rank
<1>6. SourcesLeft \in Nat
  <2>1. CASE pc \notin Looping
    BY <2>1 DEF SourcesLeft
  <2>2. CASE pc \in Looping /\ ~ InTurn
    BY <1>1, <2>2, SourcesAssumption DEF SourcesLeft, BoundInv, TypeOK
  <2>3. CASE pc \in Looping /\ InTurn
    <3>1. Vertical \in Verticals
      BY <1>1, <2>3, VerticalFacts, WorkingFacts DEF Looping
    <3>2. DOMAIN Sources[Vertical] = 1 .. Len(Sources[Vertical]) /\ Len(Sources[Vertical]) \in Nat
      BY <3>1, SourceFacts
    <3>3. turn \in Nat /\ turn <= Len(Sources[Vertical]) + 1
      BY <1>1, <2>3, <3>2 DEF TypeOK, TurnInv, BoundInv, Looping, AtSource
    <3> QED
      BY <2>3, <3>2, <3>3 DEF SourcesLeft
  <2> QED
    BY <2>1, <2>2, <2>3
<1> QED
  BY <1>2, <1>3, <1>4, <1>5, <1>6 DEF Measured

\* The bounds hold after every step.
LEMMA BoundStep ==
  ASSUME IInv, BoundInv, [Next]_vars
  PROVE  BoundInv'
<1>0. TypeOK /\ TodoInv /\ TurnInv
  BY DEF IInv
<1>a. MaxRuns \in Nat /\ runs \in Nat /\ turn \in Nat
  BY <1>0, SourcesAssumption DEF TypeOK
<1> USE DEF scope, crawl, hist, BoundInv
<1>b. ASSUME runs' <= MaxRuns, pc' \notin {"asking", "reporting", "starting"}
      PROVE  BoundInv'
  BY <1>b
<1>1. CASE Begin \/ EndLoop \/ SkipDry \/ Enter \/ Open \/ EndSources \/ IndexRead
  <2>1. runs' = runs /\ pc' \notin {"asking", "reporting", "starting"}
    BY <1>1 DEF Begin, EndLoop, SkipDry, Enter, Open, EndSources, IndexRead
  <2> QED
    BY <1>b, <2>1
<1>2. CASE AskNext \/ Store \/ CloseClient \/ CloseSession \/ Stop \/ Exit
  <2>1. runs' = runs /\ pc' \notin {"asking", "reporting", "starting"}
    BY <1>2 DEF AskNext, Store, CloseClient, CloseSession, Stop, Exit
  <2> QED
    BY <1>b, <2>1
<1>3. CASE Fails \/ Interrupt \/ Dispose
  <2>1. runs' = runs
    BY <1>3 DEF Fails, Interrupt, Dispose
  <2>2. pc' \notin {"asking", "reporting", "starting"}
    BY <1>3, UnwindFacts DEF Fails, Interrupt, Dispose, Raise
  <2> QED
    BY <1>b, <2>1, <2>2
<1>9. ASSUME NEW e \in {"pipeline", "other"}, AdapterRaises(e)
      PROVE  BoundInv'
  <2>1. runs' = runs /\ todo' = todo /\ pc \in {"indexing", "reading"}
    BY <1>9 DEF AdapterRaises
  <2>2. CASE Caught(e)
    <3>1. InTurn'
      BY <2>1, <2>2 DEF Caught, InTurn, Vertical
    <3>2. pc' = "reporting"
      BY <1>9, <2>2 DEF AdapterRaises
    <3> QED
      BY <2>1, <3>1, <3>2
  <2>3. CASE ~ Caught(e)
    <3>1. pc' \notin {"asking", "reporting", "starting"}
      BY <1>9, <2>1, <2>3, UnwindFacts DEF AdapterRaises, Raise
    <3> QED
      BY <1>b, <2>1, <3>1
  <2> QED
    BY <2>2, <2>3
<1>4. CASE AskInPass
  BY <1>a, <1>4 DEF AskInPass
<1>5. CASE CreateTables
  <2>1. runs' = 0 /\ turn' = 1 /\ todo' = todo /\ pc = "creating"
    BY <1>5 DEF CreateTables
  <2>2. Vertical \in Verticals
    BY <1>0, <2>1, VerticalFacts, WorkingFacts
  <2>3. Len(Sources[Vertical]) \in Nat
    BY <2>2, SourceFacts
  <2>4. Vertical' = Vertical /\ pc' = "asking"
    BY <1>5, <2>1 DEF CreateTables, Vertical
  <2> QED
    BY <1>a, <2>1, <2>3, <2>4
<1>6. CASE AdapterReturns \/ Report
  <2>1. runs' = runs /\ turn' = turn + 1 /\ todo' = todo /\ pc \in AtSource /\ pc' = "asking"
    BY <1>6 DEF AdapterReturns, Report, AtSource
  <2>2. Vertical \in Verticals /\ Vertical' = Vertical
    BY <1>0, <2>1, VerticalFacts, WorkingFacts DEF Vertical
  <2>3. turn \in 1 .. Len(Sources[Vertical])
    BY <1>0, <2>1, <2>2, SourceFacts DEF TurnInv
  <2>4. turn' <= Len(Sources[Vertical']) + 1
    BY <2>1, <2>2, <2>3
  <2> QED
    BY <2>1, <2>4
<1>7. CASE LooseEnds
  BY <1>7 DEF LooseEnds, InTurn, Vertical
<1>8. CASE UNCHANGED vars
  BY <1>8 DEF vars, InTurn, Vertical
<1> QED
  BY <1>1, <1>2, <1>3, <1>4, <1>5, <1>6, <1>7, <1>8, <1>9 DEF Next, Forward

\* Every step of the main task is nearer; a task left behind changes nothing of it.
LEMMA NearerStep ==
  ASSUME IInv, BoundInv, Next
  PROVE  Nearer \/ (LooseEnds /\ UNCHANGED Measures)
<1>0. TypeOK /\ TodoInv /\ TurnInv /\ Measured
  BY MeasuresAreNumbers DEF IInv
<1> USE DEF scope, crawl, hist
<1>a. ASSUME UNCHANGED <<interrupts, todo>>, pc # "starting", pc' # "starting", StageOf[pc'] < StageOf[pc]
      PROVE  Nearer
  BY <1>a DEF Nearer, InterruptsLeft, VerticalsLeft, Stage
<1>b. ASSUME UNCHANGED <<interrupts, todo>>, pc \in Looping, pc' \in Looping,
             \/ SourcesLeft' < SourcesLeft
             \/ SourcesLeft' = SourcesLeft /\ Rank' < Rank
      PROVE  Nearer
  <2>1. InterruptsLeft' = InterruptsLeft
    BY <1>b DEF InterruptsLeft
  <2>2. VerticalsLeft' = VerticalsLeft
    BY <1>b DEF VerticalsLeft, Looping, AtSource
  <2>3. Stage' = Stage
    BY <1>b, StageFacts DEF Stage
  <2> QED
    BY <1>b, <2>1, <2>2, <2>3 DEF Nearer
<1>c. ASSUME UNCHANGED interrupts, VerticalsLeft' < VerticalsLeft
      PROVE  Nearer
  BY <1>c DEF Nearer, InterruptsLeft
<1>1. CASE Begin
  <2>1. Len(VerticalOrder) = 5 /\ Len(<<args.vertical>>) = 1 /\ VerticalsLeft = 6
    BY <1>1 DEF VerticalOrder, VerticalsLeft, Begin
  <2>2. CASE todo' = todo
    <3>1. todo = <<>> /\ pc' # "starting"
      BY <1>1 DEF Begin, BoundInv
    <3>2. VerticalsLeft' = 0
      BY <2>2, <3>1 DEF VerticalsLeft
    <3> QED
      BY <1>1, <1>c, <2>1, <3>2 DEF Begin
  <2>3. CASE todo' # todo
    <3>1. Len(todo') \in {1, 5} /\ pc' # "starting"
      BY <1>1, <2>1, <2>3 DEF Begin
    <3>2. VerticalsLeft' \in {1, 5}
      BY <3>1 DEF VerticalsLeft
    <3> DEFINE later == VerticalsLeft'
    <3>3. later \in {1, 5}
      BY <3>2
    <3> HIDE DEF later
    <3>4. later < 6
      BY <3>3
    <3>5. UNCHANGED interrupts
      BY <1>1 DEF Begin
    <3> QED
      BY <1>c, <2>1, <3>4, <3>5 DEF later
  <2> QED
    BY <2>2, <2>3
<1>2. CASE SkipDry \/ (Dispose /\ raised = "none")
  <2>1. pc \in {"choosing", "disposing"} /\ pc' = "choosing" /\ todo' = Tail(todo) /\ todo # <<>>
    BY <1>0, <1>2, WorkingFacts DEF SkipDry, Dispose, TodoInv, Leaving
  <2>2. Len(Tail(todo)) < Len(todo)
    BY <1>0, <2>1 DEF TypeOK
  <2>3. VerticalsLeft' < VerticalsLeft
    BY <2>1, <2>2 DEF VerticalsLeft
  <2> QED
    BY <1>2, <1>c, <2>3 DEF SkipDry, Dispose
<1>3. CASE EndLoop \/ Enter \/ Open \/ CreateTables
  BY <1>3, <1>a, StageFacts DEF EndLoop, Enter, Open, CreateTables
<1>4. CASE EndSources \/ Store \/ CloseClient \/ CloseSession \/ Stop \/ Exit
  BY <1>4, <1>a, StageFacts DEF EndSources, Store, CloseClient, CloseSession, Stop, Exit
<1>5. ASSUME UNCHANGED <<interrupts, todo>>, pc \in DOMAIN Unwind, pc' = Unwind[pc]
      PROVE  Nearer
  <2>1. pc # "starting" /\ pc' # "starting"
    BY <1>5, UnwindFacts
  <2> QED
    BY <1>5, <1>a, <2>1, StageFacts
<1>6. CASE Fails \/ (Dispose /\ raised # "none")
  BY <1>5, <1>6, UnwindFacts DEF Fails, Raise, Dispose
<1>7. CASE Interrupt
  <2>1. interrupts' = interrupts + 1 /\ interrupts \in Nat /\ MaxInterrupts \in Nat
    BY <1>0, <1>7, SourcesAssumption DEF Interrupt, TypeOK
  <2> QED
    BY <2>1 DEF Nearer, InterruptsLeft
<1>8. ASSUME pc \in Looping
      PROVE  /\ Vertical \in Verticals /\ Len(Sources[Vertical]) \in Nat
             /\ turn \in Nat /\ runs \in Nat /\ MaxRuns \in Nat
  <2>1. Vertical \in Verticals
    BY <1>0, <1>8, VerticalFacts, WorkingFacts DEF Looping
  <2> QED
    BY <1>0, <2>1, SourceFacts, SourcesAssumption DEF TypeOK
<1>9. CASE AskNext \/ IndexRead
  <2>1. /\ UNCHANGED <<interrupts, todo, turn, runs>> /\ pc \in Looping /\ pc' \in Looping
        /\ \/ pc = "asking" /\ InTurn /\ pc' \in {"indexing", "reading"}
           \/ pc = "indexing" /\ pc' = "reading"
    BY <1>9 DEF AskNext, IndexRead, Looping, AtSource
  <2>2. InTurn' = InTurn /\ Vertical' = Vertical
    BY <2>1 DEF InTurn, Vertical
  <2>3. SourcesLeft' = SourcesLeft
    BY <2>1, <2>2 DEF SourcesLeft
  <2>4. Rank' < Rank
    BY <2>1 DEF Rank
  <2> QED
    BY <1>b, <2>1, <2>3, <2>4
<1>10. CASE AskInPass
  <2>1. /\ UNCHANGED <<interrupts, todo>> /\ pc = "asking" /\ pc' = "reading"
        /\ ~ InTurn /\ runs' = runs + 1
    BY <1>10 DEF AskInPass
  <2>2. ~ InTurn' /\ pc \in Looping /\ pc' \in Looping
    BY <2>1 DEF InTurn, Vertical, Looping, AtSource
  <2>3. SourcesLeft = MaxRuns - runs /\ SourcesLeft' = MaxRuns - (runs + 1)
    BY <2>1, <2>2 DEF SourcesLeft
  <2>4. SourcesLeft' < SourcesLeft
    BY <1>8, <2>2, <2>3
  <2> QED
    BY <1>b, <2>1, <2>2, <2>4
<1>11. CASE AdapterReturns \/ Report
  <2>1. /\ UNCHANGED <<interrupts, todo, runs>> /\ pc' = "asking" /\ turn' = turn + 1
        /\ pc = "reading" \/ (pc = "reporting" /\ InTurn)
    BY <1>0, <1>11 DEF AdapterReturns, Report, BoundInv
  <2>2. InTurn' = InTurn /\ Vertical' = Vertical /\ pc \in Looping /\ pc' \in Looping
    BY <2>1 DEF InTurn, Vertical, Looping, AtSource
  <2>3. CASE InTurn
    <3>1. SourcesLeft' < SourcesLeft
      BY <1>8, <2>1, <2>2, <2>3 DEF SourcesLeft
    <3> QED
      BY <1>b, <2>1, <2>2, <3>1
  <2>4. CASE ~ InTurn
    <3>1. SourcesLeft' = SourcesLeft
      BY <2>1, <2>2, <2>4 DEF SourcesLeft
    <3>2. Rank' < Rank
      BY <2>1, <2>2, <2>4 DEF Rank
    <3> QED
      BY <1>b, <2>1, <2>2, <3>1, <3>2
  <2> QED
    BY <2>3, <2>4
<1>12. ASSUME NEW e \in {"pipeline", "other"}, AdapterRaises(e)
       PROVE  Nearer
  <2>1. /\ UNCHANGED <<interrupts, todo, runs, turn>> /\ pc \in {"indexing", "reading"}
        /\ pc' = "reporting" \/ pc' = Unwind[pc]
    BY <1>12 DEF AdapterRaises, Raise
  <2>2. CASE pc' = Unwind[pc]
    BY <1>5, <2>1, <2>2, UnwindFacts
  <2>3. CASE pc' = "reporting"
    <3>1. SourcesLeft' = SourcesLeft
      BY <2>1, <2>3 DEF SourcesLeft, InTurn, Vertical, Looping, AtSource
    <3>2. Rank' < Rank
      BY <2>1, <2>3 DEF Rank
    <3> QED
      BY <1>b, <2>1, <2>3, <3>1, <3>2 DEF Looping, AtSource
  <2> QED
    BY <2>1, <2>2, <2>3
<1>13. CASE LooseEnds
  BY <1>13 DEF LooseEnds, Measures, InterruptsLeft, VerticalsLeft, Stage, SourcesLeft, Rank,
               InTurn, Vertical
<1> QED
  BY <1>1, <1>2, <1>3, <1>4, <1>6, <1>7, <1>9, <1>10, <1>11, <1>12, <1>13 DEF Next, Forward

\* The main task takes finitely many steps, whatever fails and however often it is
\* interrupted: each makes five natural numbers less, in the order of the first that changes.
THEOREM EveryStepIsNearer ==
  Spec => []Measured /\ [][Nearer \/ (LooseEnds /\ UNCHANGED Measures)]_vars
<1>1. Init => BoundInv
  BY SourcesAssumption DEF Init, BoundInv
<1>2. IInv /\ BoundInv /\ [Next]_vars => BoundInv'
  BY BoundStep
<1>3. IInv /\ BoundInv => Measured
  BY MeasuresAreNumbers
<1>4. IInv /\ BoundInv /\ [Next]_vars => [Nearer \/ (LooseEnds /\ UNCHANGED Measures)]_vars
  BY NearerStep
<1> QED
  BY <1>1, <1>2, <1>3, <1>4, Invariant, PTL DEF Spec
=============================================================================
