----------------------- MODULE LLMOrchestrator_proofs -----------------------
(***************************************************************************)
(* What LLMOrchestrator promises of the attempts at a piece, for every     *)
(* order of providers, every set of adapters and credentials, every bound  *)
(* on attempts, and whatever the chunker makes of a payload.               *)
(*                                                                         *)
(* The argument.  The attempts at one provider are an interval of all      *)
(* attempts at the piece: MaxAttempts long for a provider that was passed  *)
(* over, at the end of the list for the one being asked, and empty for     *)
(* those to come (Position).  What a row says and what the fallback        *)
(* promises follow by counting in the intervals.                           *)
(***************************************************************************)
EXTENDS LLMOrchestrator, Chunker_proofs

Asking == {"choosing", "calling", "recording", "sleeping"}

\* How many attempts at the current provider have been answered.
Made == IF pc = "calling" THEN attempt - 1 ELSE attempt

\* Where a provider's attempts are: the n that follow the first s.
Interval(p, s, n) == \A k \in DOMAIN tried : tried[k].provider = p <=> s < k /\ k <= s + n

Position ==
  pc \in Asking =>
    /\ Made \in 0 .. Len(tried)
    /\ \A i \in DOMAIN Order :
         /\ i < turn /\ Order[i] \in Configured =>
              \E s \in Nat : s + MaxAttempts <= Len(tried) - Made /\ Interval(Order[i], s, MaxAttempts)
         /\ i = turn => Interval(Order[i], Len(tried) - Made, Made)
         /\ i > turn => \A k \in DOMAIN tried : tried[k].provider # Order[i]

Place ==
  /\ pc = "choosing" => attempt = 0
  /\ pc \in {"calling", "recording", "sleeping"} =>
       turn <= Len(Order) /\ Provider \in Configured /\ attempt > 0
  /\ pc = "sleeping" => attempt < MaxAttempts
  /\ pc = "recording" => Len(tried) = Len(requests) + 1 /\ tried[Len(tried)].answer = answer
  /\ pc \in {"choosing", "calling", "sleeping"} =>
       \A k \in DOMAIN tried : tried[k].answer = Retryable

\* FallbackInOrder as this code keeps it: an authentication error ends the call, so that a
\* provider that was passed over has spent its attempts.
SpentInOrder ==
  \A k \in DOMAIN tried :
    /\ k < Len(tried) => tried[k].answer = Retryable
    /\ \A i, j \in DOMAIN Order :
         i < j /\ Order[i] \in Configured /\ tried[k].provider = Order[j] =>
           /\ Attempts(Order[i]) # {} /\ \A m \in Attempts(Order[i]) : m < k
           /\ Cardinality(Attempts(Order[i])) = MaxAttempts

IInv ==
  /\ TypeOK /\ Place /\ Position
  /\ EveryAttemptRecorded /\ SpentInOrder

-----------------------------------------------------------------------------
\* What an answer of a provider can be.
LEMMA GenerateFacts ==
  ASSUME NEW hasKey, NEW reply \in Replies
  PROVE  ClassOf[Generate(hasKey, reply)] \in Answers
<1>1. Generate(hasKey, reply) \in DOMAIN ClassOf
  <2>1. reply.wire \in Wire /\ reply.content \in DOMAIN ContentError
        /\ reply.wrapper \in DOMAIN WrapperError \cup {"content"}
    BY DEF Replies
  <2>2. \A x \in DOMAIN WrapperError : WrapperError[x] \in DOMAIN ClassOf
    BY DEF WrapperError, ClassOf
  <2>3. \A x \in DOMAIN ContentError : ContentError[x] \in DOMAIN ClassOf
    BY DEF ContentError, ClassOf
  <2>4. \A x \in Wire \ {"answered"} : x \in DOMAIN ClassOf
    BY DEF Wire, ClassOf
  <2>5. "AuthenticationError" \in DOMAIN ClassOf
    BY DEF ClassOf
  <2> QED BY <2>1, <2>2, <2>3, <2>4, <2>5 DEF Generate
<1> QED BY <1>1 DEF Answers

\* The providers in order.
LEMMA OrderFacts ==
  /\ Len(Order) \in Nat /\ DOMAIN Order = 1 .. Len(Order)
  /\ \A i, j \in DOMAIN Order : Order[i] = Order[j] => i = j
  /\ MaxAttempts \in Nat \ {0}
BY OrchestratorAssumption

\* A list and one more.
LEMMA AppendFacts ==
  ASSUME NEW S, NEW q \in Seq(S), NEW e \in S
  PROVE  /\ Append(q, e) \in Seq(S) /\ q \o <<e>> = Append(q, e)
         /\ Len(Append(q, e)) = Len(q) + 1 /\ Len(q) \in Nat
         /\ DOMAIN q = 1 .. Len(q) /\ DOMAIN Append(q, e) = 1 .. Len(q) + 1
         /\ \A k \in 1 .. Len(q) : Append(q, e)[k] = q[k]
         /\ Append(q, e)[Len(q) + 1] = e
OBVIOUS

\* An interval has as many attempts as it is long.
LEMMA CountInterval ==
  ASSUME TypeOK, NEW p, NEW s \in Nat, NEW n \in Nat, Interval(p, s, n), s + n <= Len(tried)
  PROVE  Attempts(p) = s + 1 .. s + n /\ Cardinality(Attempts(p)) = n
<1>1. DOMAIN tried = 1 .. Len(tried) /\ Len(tried) \in Nat
  BY DEF TypeOK
<1>2. Attempts(p) = s + 1 .. s + n
  BY <1>1 DEF Attempts, Interval
<1>3. Cardinality(s + 1 .. s + n) = n
  BY FS_Interval
<1> QED BY <1>2, <1>3

\* How many of the last n attempts are before the last one.
LEMMA CountEarlier ==
  ASSUME TypeOK, NEW p, NEW n \in 1 .. Len(tried), Interval(p, Len(tried) - n, n)
  PROVE  Cardinality(Earlier(p, Len(tried))) = n - 1
<1>1. DOMAIN tried = 1 .. Len(tried) /\ Len(tried) \in Nat
  BY DEF TypeOK
<1>2. Earlier(p, Len(tried)) = Len(tried) - n + 1 .. Len(tried) - 1
  BY <1>1 DEF Earlier, Attempts, Interval
<1>3. Cardinality(Len(tried) - n + 1 .. Len(tried) - 1) = n - 1
  BY <1>1, FS_Interval
<1> QED BY <1>2, <1>3

\* The row of an attempt.
LEMMA RowFacts ==
  ASSUME TypeOK, Place, pc = "recording"
  PROVE  /\ requests \o Row \in Seq(RowType)
         /\ Len(requests \o Row) = Len(requests) + 1
         /\ \A k \in 1 .. Len(requests) : (requests \o Row)[k] = requests[k]
         /\ (requests \o Row)[Len(requests) + 1] =
              [provider |-> Provider, status |-> StatusOf(answer), retry_count |-> attempt - 1]
<1> DEFINE row == [provider |-> Provider, status |-> StatusOf(answer), retry_count |-> attempt - 1]
<1>1. row \in RowType
  BY OrderFacts DEF TypeOK, Place, RowType, StatusOf
<1>2. Row = <<row>> /\ requests \in Seq(RowType)
  BY DEF Row, TypeOK
<1> HIDE DEF row
<1>3. /\ requests \o <<row>> = Append(requests, row) /\ Append(requests, row) \in Seq(RowType)
      /\ Len(Append(requests, row)) = Len(requests) + 1
      /\ \A k \in 1 .. Len(requests) : Append(requests, row)[k] = requests[k]
      /\ Append(requests, row)[Len(requests) + 1] = row
  BY <1>1, <1>2, AppendFacts
<1> QED BY <1>2, <1>3 DEF row

\* Types.
LEMMA TypeStep ==
  ASSUME IInv, [Next]_vars
  PROVE  TypeOK'
<1>0. TypeOK /\ Place
  BY DEF IInv
<1> USE <1>0, OrderFacts DEF Ends, hist
<1>1. CASE Begin
  BY <1>1 DEF Begin, Proceed, TypeOK
<1>2. CASE Offer
  BY <1>2 DEF Offer, TypeOK
<1>3. CASE SkipUnconfigured \/ AllExhausted
  BY <1>3 DEF SkipUnconfigured, AllExhausted, TypeOK
<1>4. CASE Call
  BY <1>4 DEF Call, TypeOK, Place
<1>5. ASSUME NEW reply \in Replies, Respond(reply)
      PROVE  TypeOK'
  <2>1. answer' \in Answers
    BY <1>5, GenerateFacts DEF Respond
  <2>2. tried' \in Seq([provider : Configured, answer : Answers])
    <3>1. [provider |-> Provider, answer |-> answer'] \in [provider : Configured, answer : Answers]
      BY <1>5, <2>1 DEF Respond, Place
    <3> QED BY <1>5, <3>1, AppendFacts DEF Respond, TypeOK
  <2> QED BY <1>5, <2>1, <2>2 DEF Respond, TypeOK
<1>6. CASE Record
  <2>1. requests' \in Seq(RowType)
    BY <1>6, RowFacts DEF Record
  <2>2. pc' \in {"piece", "returned", "choosing", "sleeping"} \cup Ends
    BY <1>6 DEF Record, Accept, Retry, FallBack, Rechunk, Raise, Proceed
  <2>3. turn' \in 1 .. Len(Order) + 1 /\ attempt' \in 0 .. MaxAttempts
    BY <1>6 DEF Record, Accept, Retry, FallBack, Rechunk, Raise, Proceed, TypeOK, Place
  <2>4. tried' = tried /\ answer' = answer
    BY <1>6 DEF Record, Accept, Retry, FallBack, Rechunk, Raise, Proceed
  <2> QED BY <2>1, <2>2, <2>3, <2>4 DEF TypeOK
<1>7. CASE RecordFails
  BY <1>7, RowFacts DEF RecordFails, TypeOK
<1>8. CASE Cancel
  BY <1>8, RowFacts DEF Cancel, TypeOK
<1>9. CASE UNCHANGED vars
  BY <1>9 DEF vars, TypeOK
<1> QED
  BY <1>1, <1>2, <1>3, <1>4, <1>5, <1>6, <1>7, <1>8, <1>9 DEF Next, Forward, Answered

\* Where a call is says what was answered so far.
LEMMA PlaceStep ==
  ASSUME IInv, [Next]_vars
  PROVE  Place'
<1>0. TypeOK /\ Place
  BY DEF IInv
<1> USE <1>0, OrderFacts DEF Place, Provider, hist
<1>1. CASE Begin
  BY <1>1 DEF Begin, Proceed
<1>2. CASE Offer
  BY <1>2 DEF Offer
<1>3. CASE SkipUnconfigured \/ AllExhausted
  BY <1>3 DEF SkipUnconfigured, AllExhausted
<1>4. CASE Call
  BY <1>4 DEF Call, TypeOK
<1>5. ASSUME NEW reply \in Replies, Respond(reply)
      PROVE  Place'
  <2>1. /\ Len(tried') = Len(tried) + 1 /\ tried'[Len(tried) + 1].answer = answer'
        /\ Len(tried) \in Nat
    <3>1. [provider |-> Provider, answer |-> answer'] \in [provider : Configured, answer : Answers]
      BY <1>5, GenerateFacts DEF Respond
    <3> QED BY <1>5, <3>1, AppendFacts DEF Respond, TypeOK
  <2>2. Len(tried') = Len(requests') + 1
    BY <1>5, <2>1 DEF Respond, IInv, EveryAttemptRecorded
  <2> QED BY <1>5, <2>1, <2>2 DEF Respond
<1>6. CASE Record
  <2>1. /\ Len(tried) \in Nat \ {0} /\ DOMAIN tried = 1 .. Len(tried)
        /\ tried[Len(tried)].answer = answer
    BY <1>6 DEF Record, TypeOK
  <2>2. CASE Accept \/ Rechunk \/ Raise
    <3>1. pc' \notin Asking
      BY <2>2 DEF Accept, Rechunk, Raise, Proceed, Asking
    <3> QED BY <3>1 DEF Asking
  <2>3. ASSUME answer = Retryable
        PROVE  \A k \in DOMAIN tried : tried[k].answer = Retryable
    BY <2>1, <2>3, <1>6 DEF Record, IInv, SpentInOrder
  <2>4. CASE Retry
    BY <1>6, <2>3, <2>4 DEF Record, Retry, Retries
  <2>5. CASE FallBack
    BY <1>6, <2>3, <2>5 DEF Record, FallBack, FallsBack
  <2> QED BY <1>6, <2>2, <2>4, <2>5 DEF Record
<1>7. CASE RecordFails \/ Cancel
  BY <1>7 DEF RecordFails, Cancel
<1>8. CASE UNCHANGED vars
  BY <1>8 DEF vars
<1> QED
  BY <1>1, <1>2, <1>3, <1>4, <1>5, <1>6, <1>7, <1>8 DEF Next, Forward, Answered

\* The attempts stay in their intervals.
LEMMA PositionStep ==
  ASSUME IInv, [Next]_vars
  PROVE  Position'
<1>0. TypeOK /\ Place /\ Position
  BY DEF IInv
<1>a. turn \in Nat \ {0} /\ attempt \in Nat /\ Len(tried) \in Nat /\ DOMAIN tried = 1 .. Len(tried)
  BY <1>0, OrderFacts DEF TypeOK
<1> USE OrderFacts DEF hist
<1>1. CASE Begin \/ AllExhausted \/ RecordFails \/ Cancel
  BY <1>1 DEF Begin, Proceed, AllExhausted, RecordFails, Cancel, Position, Asking
<1>2. CASE Offer
  <2>1. tried' = <<>> /\ turn' = 1 /\ Made' = 0 /\ Len(tried') = 0 /\ DOMAIN tried' = {}
    BY <1>2 DEF Offer, Made
  <2> QED BY <2>1 DEF Position, Interval
<1>3. CASE SkipUnconfigured
  <2>1. /\ pc = "choosing" /\ pc' = "choosing" /\ tried' = tried /\ turn' = turn + 1
        /\ attempt = 0 /\ attempt' = 0 /\ Order[turn] \notin Configured
    BY <1>3, <1>0 DEF SkipUnconfigured, Place, Provider
  <2>2. Made = 0 /\ Made' = 0
    BY <2>1 DEF Made
  <2>3. ASSUME NEW i \in DOMAIN Order, i < turn', Order[i] \in Configured
        PROVE  \E s \in Nat : s + MaxAttempts <= Len(tried) /\ Interval(Order[i], s, MaxAttempts)
    <3>1. i < turn
      BY <1>a, <2>1, <2>3
    <3> QED BY <1>0, <2>1, <2>2, <2>3, <3>1, <1>a DEF Position, Asking
  <2>4. ASSUME NEW i \in DOMAIN Order, i > turn
        PROVE  \A k \in DOMAIN tried : tried[k].provider # Order[i]
    BY <1>0, <2>1, <2>4 DEF Position, Asking
  <2> QED BY <1>a, <2>1, <2>2, <2>3, <2>4 DEF Position, Interval
<1>4. CASE Call \/ (Record /\ Retry)
  <2>1. /\ pc \in Asking /\ turn' = turn /\ tried' = tried /\ Made' = Made
    <3>1. CASE Call
      <4>1. /\ pc \in {"choosing", "sleeping"} /\ pc' = "calling" /\ attempt' = attempt + 1
            /\ turn' = turn /\ tried' = tried
        BY <3>1 DEF Call
      <4> QED BY <1>a, <4>1 DEF Made, Asking
    <3>2. CASE Record /\ Retry
      BY <1>a, <3>2 DEF Record, Retry, Made, Asking
    <3> QED BY <1>4, <3>1, <3>2
  <2> QED BY <1>0, <2>1 DEF Position, Interval
<1>5. ASSUME NEW reply \in Replies, Respond(reply)
      PROVE  Position'
  <2>1. /\ Len(tried') = Len(tried) + 1 /\ DOMAIN tried' = 1 .. Len(tried) + 1
        /\ tried'[Len(tried) + 1].provider = Provider
        /\ \A k \in 1 .. Len(tried) : tried'[k] = tried[k]
    <3>1. [provider |-> Provider, answer |-> answer'] \in [provider : Configured, answer : Answers]
      BY <1>5, <1>0, GenerateFacts DEF Respond, Place
    <3> QED BY <1>0, <1>5, <3>1, AppendFacts DEF Respond, TypeOK
  <2>2. /\ pc = "calling" /\ pc' = "recording" /\ turn' = turn /\ turn \in DOMAIN Order
        /\ Made = attempt - 1 /\ Made' = attempt /\ Provider = Order[turn] /\ attempt > 0
    BY <1>5, <1>0, <1>a DEF Respond, Made, Place, Provider
  <2>3. Made' \in 0 .. Len(tried') /\ Len(tried') - Made' = Len(tried) - Made
    <3>1. Made \in 0 .. Len(tried)
      BY <1>0, <2>2 DEF Position, Asking
    <3>2. Len(tried') = Len(tried) + 1 /\ Made' = Made + 1
      BY <1>a, <2>1, <2>2
    <3> QED BY <1>a, <3>1, <3>2
  <2>4. ASSUME NEW i \in DOMAIN Order, i < turn, Order[i] \in Configured
        PROVE  \E s \in Nat : s + MaxAttempts <= Len(tried') - Made' /\ Interval(Order[i], s, MaxAttempts)'
    <3>1. PICK s \in Nat : s + MaxAttempts <= Len(tried) - Made /\ Interval(Order[i], s, MaxAttempts)
      BY <1>0, <2>2, <2>4 DEF Position, Asking
    <3>2. Order[i] # Provider
      BY <2>2, <2>4
    <3>3. s + MaxAttempts < Len(tried) + 1
      BY <1>0, <1>a, <2>2, <3>1 DEF Position, Asking
    <3>4. Interval(Order[i], s, MaxAttempts)'
      BY <1>a, <2>1, <3>1, <3>2, <3>3 DEF Interval
    <3> QED BY <2>3, <3>1, <3>4
  <2>5. Interval(Order[turn], Len(tried) - Made, Made)'
    <3>1. Interval(Order[turn], Len(tried) - Made, Made)
      BY <1>0, <2>2 DEF Position, Asking
    <3> DEFINE s == Len(tried) - Made
    <3>2. s \in Int /\ s + Made = Len(tried) /\ s + Made' = Len(tried) + 1
      BY <1>0, <1>a, <2>2 DEF TypeOK
    <3>3. ASSUME NEW k \in DOMAIN tried'
          PROVE  tried'[k].provider = Order[turn] <=> s < k /\ k <= s + Made'
      <4> HIDE DEF s
      <4>1. CASE k = Len(tried) + 1
        BY <1>a, <2>1, <2>2, <3>2, <4>1 DEF Position, Asking
      <4>2. CASE k \in 1 .. Len(tried)
        BY <1>a, <2>1, <3>1, <3>2, <4>2 DEF Interval, s
      <4> QED BY <1>a, <2>1, <4>1, <4>2
    <3> QED BY <2>2, <2>3, <3>3 DEF Interval
  <2>6. ASSUME NEW i \in DOMAIN Order, i > turn
        PROVE  \A k \in DOMAIN tried' : tried'[k].provider # Order[i]
    <3>1. \A k \in DOMAIN tried : tried[k].provider # Order[i]
      BY <1>0, <2>2, <2>6 DEF Position, Asking
    <3>2. Order[i] # Provider
      BY <1>a, <2>2, <2>6
    <3> QED BY <1>a, <2>1, <3>1, <3>2
  <2> QED BY <2>2, <2>3, <2>4, <2>5, <2>6 DEF Position
<1>6. CASE Record /\ FallBack
  <2>1. /\ pc = "recording" /\ turn' = turn + 1 /\ attempt' = 0 /\ pc' = "choosing" /\ tried' = tried
        /\ turn \in DOMAIN Order /\ attempt = MaxAttempts /\ Made = MaxAttempts /\ Made' = 0
    BY <1>6, <1>0, <1>a DEF Record, FallBack, FallsBack, Retries, Made, Place, TypeOK
  <2>2. Made \in 0 .. Len(tried) /\ Len(tried) - Made \in Nat
    BY <1>0, <1>a, <2>1 DEF Position, Asking
  <2>3. ASSUME NEW i \in DOMAIN Order, i < turn', Order[i] \in Configured
        PROVE  \E s \in Nat : s + MaxAttempts <= Len(tried) /\ Interval(Order[i], s, MaxAttempts)
    <3>1. CASE i = turn
      BY <1>0, <1>a, <2>1, <2>2, <3>1 DEF Position, Asking
    <3>2. CASE i < turn
      BY <1>0, <1>a, <2>1, <2>2, <2>3, <3>2 DEF Position, Asking
    <3> QED BY <1>a, <2>1, <2>3, <3>1, <3>2
  <2>4. ASSUME NEW i \in DOMAIN Order, i > turn
        PROVE  \A k \in DOMAIN tried : tried[k].provider # Order[i]
    BY <1>0, <2>1, <2>4 DEF Position, Asking
  <2> QED BY <1>a, <2>1, <2>3, <2>4 DEF Position, Interval
<1>7. CASE Record /\ (Accept \/ Rechunk \/ Raise)
  BY <1>7 DEF Record, Accept, Rechunk, Raise, Proceed, Position, Asking
<1>8. CASE UNCHANGED vars
  BY <1>0, <1>8 DEF vars, Position, Made, Interval
<1> QED
  BY <1>1, <1>2, <1>3, <1>4, <1>5, <1>6, <1>7, <1>8 DEF Next, Forward, Answered, Record

\* A new row is of the last attempt, and the rows before it are still right.
LEMMA NewRow ==
  ASSUME IInv, pc = "recording"
  PROVE  LET rows == requests \o Row
         IN  /\ Len(rows) = Len(requests) + 1 /\ Len(rows) = Len(tried)
             /\ \A k \in DOMAIN rows : k <= Len(tried) /\ Recorded(rows[k], k)
<1>0. TypeOK /\ Place /\ Position /\ EveryAttemptRecorded
  BY DEF IInv
<1> DEFINE rows == requests \o Row
<1>1. /\ rows \in Seq(RowType) /\ Len(rows) = Len(requests) + 1 /\ Len(requests) \in Nat
      /\ \A k \in 1 .. Len(requests) : rows[k] = requests[k]
      /\ rows[Len(requests) + 1] =
           [provider |-> Provider, status |-> StatusOf(answer), retry_count |-> attempt - 1]
  BY <1>0, RowFacts DEF TypeOK
<1> HIDE DEF rows
<1>2. Len(tried) = Len(requests) + 1 /\ Len(requests) \in Nat
      /\ DOMAIN tried = 1 .. Len(tried)
  BY <1>0 DEF TypeOK, Place
<1>3. ASSUME NEW k \in 1 .. Len(requests) PROVE k <= Len(tried) /\ Recorded(rows[k], k)
  <2>1. k \in DOMAIN requests /\ rows[k] = requests[k]
    BY <1>0, <1>1 DEF TypeOK
  <2> QED
    BY <1>0, <2>1 DEF EveryAttemptRecorded
<1>4. Recorded(rows[Len(tried)], Len(tried))
  <2>1. /\ turn \in DOMAIN Order /\ Provider = Order[turn] /\ attempt \in Nat \ {0}
        /\ Made = attempt /\ attempt \in 1 .. Len(tried)
        /\ Interval(Provider, Len(tried) - attempt, attempt)
    BY <1>0, OrderFacts DEF TypeOK, Place, Position, Asking, Made, Provider
  <2>2. tried[Len(tried)].provider = Provider
    BY <1>2, <2>1 DEF Interval
  <2>3. Cardinality(Earlier(Provider, Len(tried))) = attempt - 1
    BY <1>0, <2>1, CountEarlier
  <2>4. tried[Len(tried)].answer = answer
    BY <1>0 DEF Place
  <2>5. (StatusOf(answer) = "success") <=> (answer = "ok")
    BY DEF StatusOf
  <2>6. /\ rows[Len(tried)].provider = Provider /\ rows[Len(tried)].status = StatusOf(answer)
        /\ rows[Len(tried)].retry_count = attempt - 1
    BY <1>1, <1>2
  <2> QED BY <2>2, <2>3, <2>4, <2>5, <2>6 DEF Recorded
<1>5. DOMAIN rows = 1 .. Len(requests) + 1
  BY <1>1
<1>6. ASSUME NEW k \in DOMAIN rows PROVE k <= Len(tried) /\ Recorded(rows[k], k)
  <2>1. k \in 1 .. Len(requests) \/ k = Len(tried)
    BY <1>2, <1>5
  <2> QED BY <1>2, <1>3, <1>4, <2>1
<1> QED BY <1>1, <1>2, <1>6 DEF rows

\* What a row says depends on the attempts only.
LEMMA RecordedStays ==
  ASSUME UNCHANGED tried
  PROVE  \A row, k : Recorded(row, k)' <=> Recorded(row, k)
<1>1. \A p : Attempts(p)' = Attempts(p)
  BY DEF Attempts
<1>2. \A p, k : Earlier(p, k)' = Earlier(p, k)
  BY <1>1 DEF Earlier
<1> QED BY <1>2 DEF Recorded

\* Rows are added by recording only, and an attempt at the end of the list changes none.
LEMMA RecordedStep ==
  ASSUME IInv, [Next]_vars
  PROVE  EveryAttemptRecorded'
<1>0. TypeOK /\ Place /\ EveryAttemptRecorded
  BY DEF IInv
<1> USE DEF hist
<1>1. CASE Begin \/ SkipUnconfigured \/ AllExhausted \/ Call \/ UNCHANGED vars
  <2>1. /\ tried' = tried /\ requests' = requests
        /\ pc' = pc \/ (pc \notin {"recording", "not_recorded", "cancelled"}
                        /\ pc' \notin {"recording", "not_recorded", "cancelled"})
    BY <1>1 DEF Begin, Proceed, SkipUnconfigured, AllExhausted, Call, vars
  <2> QED BY <1>0, <2>1, RecordedStays DEF EveryAttemptRecorded
<1>2. CASE Offer
  BY <1>2 DEF Offer, EveryAttemptRecorded
<1>3. ASSUME NEW reply \in Replies, Respond(reply)
      PROVE  EveryAttemptRecorded'
  <2>1. /\ Len(tried') = Len(tried) + 1 /\ DOMAIN tried' = 1 .. Len(tried) + 1
        /\ DOMAIN tried = 1 .. Len(tried) /\ Len(tried) \in Nat
        /\ \A k \in 1 .. Len(tried) : tried'[k] = tried[k]
    <3>1. [provider |-> Provider, answer |-> answer'] \in [provider : Configured, answer : Answers]
      BY <1>3, <1>0, GenerateFacts DEF Respond, Place
    <3> QED BY <1>0, <1>3, <3>1, AppendFacts DEF Respond, TypeOK
  <2>2. requests' = requests /\ Len(requests) = Len(tried) /\ pc' = "recording"
        /\ DOMAIN requests = 1 .. Len(requests)
    BY <1>0, <1>3 DEF Respond, EveryAttemptRecorded, TypeOK
  <2>3. ASSUME NEW k \in DOMAIN requests
        PROVE  k <= Len(tried') /\ Recorded(requests[k], k)'
    <3>1. Recorded(requests[k], k) /\ k \in 1 .. Len(tried)
      BY <1>0, <2>2 DEF EveryAttemptRecorded
    <3>2. \A p : Earlier(p, k)' = Earlier(p, k)
      BY <2>1, <3>1 DEF Earlier, Attempts
    <3> QED BY <2>1, <2>2, <3>1, <3>2 DEF Recorded
  <2> QED BY <2>1, <2>2, <2>3 DEF EveryAttemptRecorded
<1>4. CASE Record
  <2>1. pc = "recording" /\ requests' = requests \o Row /\ tried' = tried
    BY <1>4 DEF Record, Accept, Retry, FallBack, Rechunk, Raise, Proceed
  <2>2. \A k \in DOMAIN requests' : k <= Len(tried') /\ Recorded(requests'[k], k)
    BY <2>1, NewRow
  <2>3. Len(tried') = Len(requests')
    BY <2>1, NewRow
  <2>4. Len(requests') \in Nat
    BY <1>0, <2>1, NewRow DEF TypeOK
  <2> QED BY <2>1, <2>2, <2>3, <2>4, RecordedStays DEF EveryAttemptRecorded
<1>5. CASE RecordFails \/ Cancel
  <2>1. /\ tried' = tried /\ pc' \in {"not_recorded", "cancelled"}
        /\ requests' = requests \/ (pc = "recording" /\ requests' = requests \o Row)
    BY <1>5 DEF RecordFails, Cancel
  <2>2. CASE requests' = requests
    BY <1>0, <2>1, <2>2, RecordedStays DEF EveryAttemptRecorded
  <2>3. CASE pc = "recording" /\ requests' = requests \o Row
    <3>1. Len(tried') <= Len(requests') + 1
      BY <1>0, <2>1, <2>3, NewRow DEF TypeOK
    <3>2. \A k \in DOMAIN requests' : k <= Len(tried') /\ Recorded(requests'[k], k)
      BY <2>1, <2>3, NewRow
    <3> QED BY <2>1, <3>1, <3>2, RecordedStays DEF EveryAttemptRecorded
  <2> QED BY <2>1, <2>2, <2>3
<1> QED
  BY <1>1, <1>2, <1>3, <1>4, <1>5 DEF Next, Forward, Answered

\* What is asked next comes after all that were passed over.
LEMMA FallbackStep ==
  ASSUME IInv, [Next]_vars
  PROVE  SpentInOrder'
<1>0. TypeOK /\ Place /\ Position /\ SpentInOrder
  BY DEF IInv
<1> USE DEF hist
<1>1. ASSUME UNCHANGED tried
      PROVE  SpentInOrder'
  <2>1. \A p : Attempts(p)' = Attempts(p)
    BY <1>1 DEF Attempts
  <2> QED BY <1>0, <1>1, <2>1 DEF SpentInOrder
<1>2. CASE Offer
  BY <1>2 DEF Offer, SpentInOrder
<1>3. ASSUME NEW reply \in Replies, Respond(reply)
      PROVE  SpentInOrder'
  <2>1. /\ Len(tried') = Len(tried) + 1 /\ DOMAIN tried' = 1 .. Len(tried) + 1
        /\ DOMAIN tried = 1 .. Len(tried) /\ Len(tried) \in Nat
        /\ \A k \in 1 .. Len(tried) : tried'[k] = tried[k]
        /\ tried'[Len(tried) + 1].provider = Provider
    <3>1. [provider |-> Provider, answer |-> answer'] \in [provider : Configured, answer : Answers]
      BY <1>0, <1>3, GenerateFacts DEF Respond, Place
    <3> QED BY <1>0, <1>3, <3>1, AppendFacts DEF Respond, TypeOK
  <2>2. /\ pc = "calling" /\ turn \in DOMAIN Order /\ Provider = Order[turn] /\ turn \in Nat
        /\ DOMAIN Order \subseteq Nat
    BY <1>0, <1>3, OrderFacts DEF Respond, Place, Provider, TypeOK
  <2>3. \A p : p # Provider => Attempts(p)' = Attempts(p)
    BY <2>1 DEF Attempts
  <2>4. ASSUME NEW k \in DOMAIN tried', k < Len(tried') PROVE tried'[k].answer = Retryable
    BY <1>0, <2>1, <2>2, <2>4 DEF Place
  <2>5. ASSUME NEW k \in DOMAIN tried', NEW i \in DOMAIN Order, NEW j \in DOMAIN Order,
               i < j, Order[i] \in Configured, tried'[k].provider = Order[j]
        PROVE  /\ Attempts(Order[i])' # {} /\ \A m \in Attempts(Order[i])' : m < k
               /\ Cardinality(Attempts(Order[i])') = MaxAttempts
    <3>1. CASE k = Len(tried) + 1
      <4>1. j = turn /\ Order[i] # Provider
        BY <2>1, <2>2, <2>5, <3>1, OrderFacts
      <4>2. PICK s \in Nat : s + MaxAttempts <= Len(tried) - Made /\ Interval(Order[i], s, MaxAttempts)
        BY <1>0, <2>2, <2>5, <4>1 DEF Position, Asking
      <4>3. s + MaxAttempts <= Len(tried) /\ MaxAttempts \in Nat \ {0}
        <5>1. Made \in 0 .. Len(tried)
          BY <1>0, <2>2 DEF Position, Asking
        <5> QED BY <2>1, <4>2, <5>1, OrderFacts
      <4>4. Attempts(Order[i]) = s + 1 .. s + MaxAttempts /\ Cardinality(Attempts(Order[i])) = MaxAttempts
        BY <1>0, <4>2, <4>3, CountInterval
      <4>5. Attempts(Order[i])' = Attempts(Order[i])
        BY <2>3, <4>1
      <4>6. s + 1 \in s + 1 .. s + MaxAttempts /\ \A m \in s + 1 .. s + MaxAttempts : m < k
        BY <2>1, <3>1, <4>3
      <4> QED BY <4>4, <4>5, <4>6
    <3>2. CASE k \in 1 .. Len(tried)
      <4>1. tried[k].provider = Order[j]
        BY <2>1, <2>5, <3>2
      <4>2. j <= turn
        BY <1>0, <2>1, <2>2, <3>2, <4>1 DEF Position, Asking
      <4>3. Order[i] # Provider
        BY <2>2, <2>5, <4>2, OrderFacts
      <4>4. Attempts(Order[i])' = Attempts(Order[i])
        BY <2>3, <4>3
      <4> QED BY <1>0, <2>1, <2>5, <3>2, <4>1, <4>4 DEF SpentInOrder
    <3> QED BY <2>1, <3>1, <3>2
  <2> QED BY <2>4, <2>5 DEF SpentInOrder
<1>4. CASE Begin \/ SkipUnconfigured \/ AllExhausted \/ Call \/ UNCHANGED vars
  BY <1>1, <1>4 DEF Begin, Proceed, SkipUnconfigured, AllExhausted, Call, vars
<1>5. CASE Record \/ RecordFails \/ Cancel
  BY <1>1, <1>5 DEF Record, Accept, Retry, FallBack, Rechunk, Raise, Proceed, RecordFails, Cancel
<1> QED
  BY <1>2, <1>3, <1>4, <1>5 DEF Next, Forward, Answered

-----------------------------------------------------------------------------
\* The inductive invariant holds in every reachable state.
THEOREM Invariant == Spec => []IInv
<1>1. Init => IInv
  <2> SUFFICES ASSUME Init PROVE IInv
    OBVIOUS
  <2>1. TypeOK
    <3>1. "ok" \in DOMAIN ClassOf /\ ClassOf["ok"] = "ok"
      BY DEF ClassOf
    <3>2. "ok" \in Answers
      BY <3>1 DEF Answers
    <3> QED BY <3>2, OrderFacts DEF Init, TypeOK
  <2>2. Place /\ Position
    BY DEF Init, Place, Position, Asking
  <2>3. EveryAttemptRecorded /\ SpentInOrder
    BY DEF Init, EveryAttemptRecorded, SpentInOrder
  <2> QED BY <2>1, <2>2, <2>3 DEF IInv
<1>2. IInv /\ [Next]_vars => IInv'
  BY TypeStep, PlaceStep, PositionStep, RecordedStep, FallbackStep DEF IInv
<1> QED BY <1>1, <1>2, PTL DEF Spec

\* A call keeps its types, for any providers and bounds.
THEOREM TypeCorrect == Spec => []TypeOK
<1>1. IInv => TypeOK
  BY DEF IInv
<1> QED BY <1>1, Invariant, PTL

\* Every attempt at a piece has one row, with its status and the number of attempts before
\* it, except the one whose recording is under way, was cut short or failed.
THEOREM AttemptsAreOnRecord == Spec => []EveryAttemptRecorded
<1>1. IInv => EveryAttemptRecorded
  BY DEF IInv
<1> QED BY <1>1, Invariant, PTL

\* A provider is asked only after all before it have spent their attempts on errors worth
\* a retry, or have refused the credentials, and nobody after any other answer.
THEOREM FallsBackInOrder == Spec => []FallbackInOrder
<1>1. IInv => FallbackInOrder
  BY DEF IInv, SpentInOrder, FallbackInOrder, PassedOver
<1> QED BY <1>1, Invariant, PTL
-----------------------------------------------------------------------------
(* The pieces.                                                             *)

\* Where the call waits with a piece in its hands.
Active == {"piece"} \cup Asking

Done == Len(Concat(results))

\* Every piece to do is a text of at least a character.
Carried ==
  /\ payload \in Text /\ results \in Seq(Text)
  /\ work \in Seq(Text) /\ \A k \in DOMAIN work : work[k] # <<>>
  /\ pc = "starting" => work = <<>> /\ results = <<>> /\ refused = {}
  /\ pc \in Active => work # <<>>

\* What was too large lay before the piece in hand, or began where it begins and was longer;
\* or it is the piece in hand.
Narrowed ==
  /\ refused \subseteq [from : Nat, len : Nat]
  /\ pc \in Active => \A r \in refused :
       /\ r.from <= Done
       /\ r.from = Done => Len(Piece) <= r.len
       /\ r.from = Done /\ ~ (pc = "recording" /\ answer = "too_large") => Len(Piece) < r.len

CutInv == Carried /\ Narrowed /\ NothingDropped

\* Texts joined in one order or the other.
LEMMA Grouped ==
  ASSUME NEW a \in Text, NEW b \in Text, NEW c \in Text
  PROVE  (a \o b) \o c = a \o (b \o c)
<1>1. \A s, t, u \in Text : (s \o t) \o u = s \o (t \o u)
  BY TextFacts
<1> QED
  BY <1>1, Zenon

\* A text cut up: its pieces have characters, and are none only if it has none.
LEMMA PiecesFacts ==
  ASSUME NEW text \in Text, NEW budget \in Nat \ {0}
  PROVE  LET pieces == ChunkText(text, budget)
         IN  /\ pieces \in Seq(Text) /\ Concat(pieces) = text
             /\ \A k \in DOMAIN pieces : pieces[k] # <<>> /\ Len(pieces[k]) <= budget
             /\ text # <<>> => pieces # <<>>
<1> DEFINE pieces == ChunkText(text, budget)
<1>1. AreChunks(text, budget, pieces, text)
  BY ChunkTextIsRight
<1> HIDE DEF pieces
<1>2. /\ pieces \in Seq(Text) /\ Concat(pieces) = text
      /\ \A k \in DOMAIN pieces : Len(pieces[k]) \in 1 .. budget
  BY <1>1 DEF AreChunks
<1>3. ASSUME NEW k \in DOMAIN pieces
      PROVE  pieces[k] # <<>> /\ Len(pieces[k]) <= budget
  <2>1. pieces[k] \in Text /\ Len(pieces[k]) \in 1 .. budget
    BY <1>2
  <2> QED
    BY <2>1, TextFacts
<1>4. text # <<>> => pieces # <<>>
  BY <1>2, ConcatFacts
<1> QED
  BY <1>2, <1>3, <1>4 DEF pieces

\* What is to do without its first piece, and with others in its place.
LEMMA InsteadFacts ==
  ASSUME NEW todo \in Seq(Text), todo # <<>>, \A k \in DOMAIN todo : todo[k] # <<>>,
         NEW pieces \in Seq(Text), \A k \in DOMAIN pieces : pieces[k] # <<>>
  PROVE  LET rest == pieces \o Tail(todo)
         IN  /\ rest \in Seq(Text) /\ \A k \in DOMAIN rest : rest[k] # <<>>
             /\ Concat(rest) = Concat(pieces) \o Concat(Tail(todo))
             /\ pieces # <<>> => rest # <<>> /\ Head(rest) = pieces[1]
<1> DEFINE tail == Tail(todo)
           rest == pieces \o tail
<1>1. tail \in Seq(Text) /\ \A k \in DOMAIN tail : tail[k] # <<>>
  OBVIOUS
<1> HIDE DEF tail
<1>2. rest \in Seq(Text) /\ Concat(rest) = Concat(pieces) \o Concat(tail)
  BY <1>1, JoinedAfter
<1>3. \A k \in DOMAIN rest : rest[k] # <<>>
  BY <1>1
<1>4. pieces # <<>> => rest # <<>> /\ Head(rest) = pieces[1]
  BY <1>1
<1> QED
  BY <1>2, <1>3, <1>4 DEF tail

\* The piece in hand, and all that is to do.
LEMMA InHand ==
  ASSUME Carried, pc \in Active
  PROVE  /\ Piece \in Text /\ Piece # <<>> /\ Len(Piece) \in Nat \ {0}
         /\ Tail(work) \in Seq(Text) /\ \A k \in DOMAIN Tail(work) : Tail(work)[k] # <<>>
         /\ Concat(work) = Piece \o Concat(Tail(work))
         /\ Concat(results) \in Text /\ Concat(Tail(work)) \in Text /\ Done \in Nat
<1>1. work \in Seq(Text) /\ work # <<>> /\ \A k \in DOMAIN work : work[k] # <<>>
  BY DEF Carried
<1>2. Piece \in Text /\ Tail(work) \in Seq(Text) /\ Concat(work) = Piece \o Concat(Tail(work))
  BY <1>1, ConcatHead DEF Piece
<1>3. Piece # <<>> /\ \A k \in DOMAIN Tail(work) : Tail(work)[k] # <<>>
  BY <1>1 DEF Piece
<1>4. Len(Piece) \in Nat \ {0}
  BY <1>2, <1>3, TextFacts
<1>5. Concat(results) \in Text /\ Concat(Tail(work)) \in Text
  BY <1>2, ConcatFacts DEF Carried
<1>6. Done \in Nat
  BY <1>5, TextFacts DEF Done
<1> QED
  BY <1>2, <1>3, <1>4, <1>5, <1>6

\* The pieces stay as they are while the providers are gone through.
LEMMA CutStays ==
  ASSUME CutInv, UNCHANGED <<payload, work, results, refused>>,
         pc # "starting", pc' \notin {"starting", "returned"},
         pc' \in Active => pc \in Active /\ ~ (pc = "recording" /\ answer = "too_large")
  PROVE  CutInv'
<1>1. Done' = Done
  BY DEF Done
<1>2. Carried'
  BY DEF CutInv, Carried
<1>3. Narrowed'
  BY <1>1 DEF CutInv, Narrowed, Piece
<1>4. NothingDropped'
  BY DEF CutInv, NothingDropped
<1> QED
  BY <1>2, <1>3, <1>4 DEF CutInv

\* The payload is cut for the first time.
LEMMA BeginCuts ==
  ASSUME CutInv, Begin
  PROVE  CutInv'
<1> DEFINE pieces == ChunkText(payload, Budget)
<1>1. payload \in Text /\ results = <<>> /\ refused = {} /\ Budget \in Nat \ {0}
  BY OrchestratorAssumption DEF CutInv, Carried, Begin
<1>2. /\ pieces \in Seq(Text) /\ Concat(pieces) = payload
      /\ \A k \in DOMAIN pieces : pieces[k] # <<>>
  BY <1>1, PiecesFacts
<1> HIDE DEF pieces
<1>3. /\ work' = pieces /\ pc' = IF pieces = <<>> THEN "returned" ELSE "piece"
      /\ payload' = payload /\ results' = results /\ refused' = refused
  BY DEF Begin, Proceed, input, pieces
<1>4. Carried'
  BY <1>1, <1>2, <1>3 DEF Carried, Active, Asking
<1>5. Narrowed'
  BY <1>1, <1>3 DEF Narrowed
<1>6. Concat(results') = <<>> /\ Concat(work') = payload /\ <<>> \o payload = payload
  BY <1>1, <1>2, <1>3, ConcatFacts, TextFacts
<1>7. pc' = "returned" => payload = <<>>
  BY <1>2, <1>3, ConcatFacts
<1>8. NothingDropped'
  BY <1>3, <1>6, <1>7 DEF NothingDropped
<1> QED
  BY <1>4, <1>5, <1>8 DEF CutInv

\* The answer that a piece is too large is remembered, of the piece in hand.
LEMMA RespondCuts ==
  ASSUME CutInv, NEW reply \in Replies, Respond(reply)
  PROVE  CutInv'
<1>1. /\ pc = "calling" /\ pc' = "recording" /\ payload' = payload /\ work' = work /\ results' = results
      /\ refused' = IF answer' = "too_large"
                    THEN refused \cup {[from |-> Done, len |-> Len(Piece)]}
                    ELSE refused
  BY DEF Respond, Done, input
<1>2. pc \in Active /\ Carried /\ Narrowed /\ NothingDropped
  BY <1>1 DEF CutInv, Active, Asking
<1>3. Done \in Nat /\ Len(Piece) \in Nat
  BY <1>2, InHand
<1>4. Done' = Done /\ Piece' = Piece
  BY <1>1 DEF Done, Piece
<1>5. Carried'
  BY <1>1, <1>2 DEF Carried
<1>6. refused' \subseteq [from : Nat, len : Nat]
  BY <1>1, <1>2, <1>3 DEF Narrowed
<1>7. ASSUME NEW r \in refused'
      PROVE  /\ r.from <= Done
             /\ r.from = Done => Len(Piece) <= r.len
             /\ r.from = Done /\ answer' # "too_large" => Len(Piece) < r.len
  <2>1. CASE r \in refused
    BY <1>1, <1>2, <2>1 DEF Narrowed
  <2>2. CASE r \notin refused
    <3>1. r = [from |-> Done, len |-> Len(Piece)] /\ answer' = "too_large"
      BY <1>1, <2>2
    <3> QED
      BY <1>3, <3>1
  <2> QED
    BY <2>1, <2>2
<1>8. Narrowed'
  BY <1>1, <1>4, <1>6, <1>7 DEF Narrowed
<1>9. NothingDropped'
  BY <1>1, <1>2 DEF NothingDropped
<1> QED
  BY <1>5, <1>8, <1>9 DEF CutInv

\* A piece is answered: what was too large lies before the next one.
LEMMA AcceptCuts ==
  ASSUME CutInv, pc = "recording", Accept, UNCHANGED <<payload, refused>>
  PROVE  CutInv'
<1> DEFINE tail == Tail(work)
<1>1. Carried /\ Narrowed /\ NothingDropped /\ pc \in Active
  BY DEF CutInv, Active, Asking
<1>2. /\ results' = Append(results, Piece) /\ work' = tail
      /\ pc' = IF tail = <<>> THEN "returned" ELSE "piece"
  BY DEF Accept, Proceed
<1>3. /\ Piece \in Text /\ Len(Piece) \in Nat \ {0} /\ Done \in Nat
      /\ tail \in Seq(Text) /\ \A k \in DOMAIN tail : tail[k] # <<>>
      /\ Concat(work) = Piece \o Concat(tail) /\ Concat(results) \in Text /\ Concat(tail) \in Text
  BY <1>1, InHand
<1>4. results \in Seq(Text) /\ payload \in Text /\ Concat(results) \o Concat(work) = payload
  BY <1>1 DEF Carried, NothingDropped, Active, Asking
<1> HIDE DEF tail
<1>5. results' \in Seq(Text) /\ Concat(results') = Concat(results) \o Piece
  BY <1>2, <1>3, <1>4, ConcatAppend
<1>6. Concat(results') \o Concat(tail) = payload
  <2>1. (Concat(results) \o Piece) \o Concat(tail) = Concat(results) \o (Piece \o Concat(tail))
    BY <1>3, Grouped
  <2> QED
    BY <1>3, <1>4, <1>5, <2>1
<1>7. Done' = Done + Len(Piece)
  BY <1>3, <1>5, TextFacts DEF Done
<1>8. Carried'
  BY <1>2, <1>3, <1>4, <1>5 DEF Carried, Active, Asking
<1>9. ASSUME NEW r \in refused
      PROVE  r.from < Done'
  <2>1. r.from \in Nat /\ r.from <= Done
    BY <1>1 DEF Narrowed
  <2> QED
    BY <1>3, <1>7, <2>1
<1>10. Done' \in Nat
  BY <1>3, <1>7
<1>11. Narrowed'
  BY <1>1, <1>9, <1>10 DEF Narrowed
<1>12. pc' = "returned" => Concat(results') = payload
  <2>1. ASSUME tail = <<>> PROVE Concat(results') = payload
    BY <1>5, <1>6, <2>1, ConcatFacts, TextFacts
  <2> QED
    BY <1>2, <2>1
<1>13. NothingDropped'
  BY <1>2, <1>6, <1>12 DEF NothingDropped
<1> QED
  BY <1>8, <1>11, <1>13 DEF CutInv

\* A piece is cut again: the first of its pieces begins where it began, and is shorter.
LEMMA RechunkCuts ==
  ASSUME CutInv, pc = "recording", Rechunk, UNCHANGED <<payload, refused>>
  PROVE  CutInv'
<1> DEFINE half == Len(Piece) \div 2
           pieces == ChunkText(Piece, half)
           rest == pieces \o Tail(work)
<1>1. Carried /\ Narrowed /\ NothingDropped /\ pc \in Active
  BY DEF CutInv, Active, Asking
<1>2. /\ Len(Piece) > 1 /\ results' = results /\ work' = rest
      /\ pc' = IF rest = <<>> THEN "returned" ELSE "piece"
  BY DEF Rechunk, Proceed, Instead, Pieces
<1>3. /\ Piece \in Text /\ Piece # <<>> /\ Len(Piece) \in Nat \ {0} /\ Done \in Nat
      /\ Concat(work) = Piece \o Concat(Tail(work))
  BY <1>1, InHand
<1>4. half \in Nat \ {0} /\ half < Len(Piece)
  BY <1>2, <1>3
<1> HIDE DEF half
<1>5. /\ pieces \in Seq(Text) /\ Concat(pieces) = Piece /\ pieces # <<>>
      /\ \A k \in DOMAIN pieces : pieces[k] # <<>> /\ Len(pieces[k]) <= half
  BY <1>3, <1>4, PiecesFacts
<1> HIDE DEF pieces
<1>6. work \in Seq(Text) /\ work # <<>> /\ \A k \in DOMAIN work : work[k] # <<>>
  BY <1>1 DEF Carried
<1>7. /\ rest \in Seq(Text) /\ \A k \in DOMAIN rest : rest[k] # <<>>
      /\ Concat(rest) = Concat(pieces) \o Concat(Tail(work))
      /\ rest # <<>> /\ Head(rest) = pieces[1]
  BY <1>5, <1>6, InsteadFacts
<1> HIDE DEF rest
<1>8. pc' = "piece" /\ Done' = Done /\ Piece' = pieces[1] /\ Concat(work') = Concat(work)
  BY <1>2, <1>3, <1>5, <1>7 DEF Done, Piece
<1>9. pieces[1] \in Text /\ Len(pieces[1]) \in Nat /\ Len(pieces[1]) < Len(Piece)
  <2>1. 1 \in DOMAIN pieces
    BY <1>5
  <2>2. pieces[1] \in Text /\ Len(pieces[1]) <= half
    BY <1>5, <2>1
  <2>3. Len(pieces[1]) \in Nat
    BY <2>2, TextFacts
  <2> QED
    BY <1>3, <1>4, <2>2, <2>3
<1>10. Carried'
  BY <1>1, <1>2, <1>7, <1>8 DEF Carried
<1>11. ASSUME NEW r \in refused
       PROVE  r.from <= Done /\ (r.from = Done => Len(pieces[1]) < r.len)
  <2>1. r.len \in Nat /\ r.from <= Done /\ (r.from = Done => Len(Piece) <= r.len)
    BY <1>1 DEF Narrowed
  <2> QED
    BY <1>3, <1>9, <2>1
<1>12. Narrowed'
  <2>1. ASSUME NEW r \in refused, r.from = Done PROVE Len(pieces[1]) <= r.len
    <3>1. r.len \in Nat
      BY <1>1 DEF Narrowed
    <3> QED
      BY <1>9, <1>11, <2>1, <3>1
  <2> QED
    BY <1>1, <1>8, <1>11, <2>1 DEF Narrowed
<1>13. NothingDropped'
  BY <1>1, <1>2, <1>8 DEF NothingDropped
<1> QED
  BY <1>10, <1>12, <1>13 DEF CutInv

\* Every step leaves the pieces as they are to be.
LEMMA CutStep ==
  ASSUME CutInv, [Next]_vars
  PROVE  CutInv'
<1> USE DEF hist, input
<1>1. CASE Begin
  BY <1>1, BeginCuts
<1>2. CASE Offer \/ SkipUnconfigured \/ AllExhausted \/ Call
  <2>1. /\ UNCHANGED <<payload, work, results, refused>>
        /\ pc \in {"piece", "choosing", "sleeping"} /\ pc' \in {"choosing", "unavailable", "calling"}
    BY <1>2 DEF Offer, SkipUnconfigured, AllExhausted, Call
  <2> QED
    BY <2>1, CutStays DEF Active, Asking
<1>3. ASSUME NEW reply \in Replies, Respond(reply)
      PROVE  CutInv'
  BY <1>3, RespondCuts
<1>4. CASE Record
  <2>1. pc = "recording" /\ UNCHANGED <<payload, refused>>
    BY <1>4 DEF Record
  <2>2. CASE Accept
    BY <2>1, <2>2, AcceptCuts
  <2>3. CASE Rechunk
    BY <2>1, <2>3, RechunkCuts
  <2>4. CASE Retry \/ FallBack
    <3>1. /\ UNCHANGED <<work, results>> /\ pc' \in {"sleeping", "choosing"} /\ answer # "too_large"
      BY <2>4 DEF Retry, Retries, FallBack, FallsBack, Retryable
    <3> QED
      BY <2>1, <3>1, CutStays DEF Active, Asking
  <2>5. CASE Raise
    <3>1. /\ UNCHANGED <<work, results>> /\ pc' \in {"too_large", "unauthenticated", "escaped"}
      BY <2>5 DEF Raise
    <3> QED
      BY <2>1, <3>1, CutStays DEF Active, Asking
  <2> QED
    BY <1>4, <2>2, <2>3, <2>4, <2>5 DEF Record
<1>5. CASE RecordFails \/ Cancel
  <2>1. /\ UNCHANGED <<payload, work, results, refused>>
        /\ pc \in {"calling", "recording", "sleeping"} /\ pc' \in {"not_recorded", "cancelled"}
    BY <1>5 DEF RecordFails, Cancel
  <2> QED
    BY <2>1, CutStays DEF Active, Asking
<1>6. CASE UNCHANGED vars
  <2>1. UNCHANGED <<payload, pc, work, answer, results, refused>>
    BY <1>6 DEF vars
  <2> QED
    BY <2>1 DEF CutInv, Carried, Narrowed, NothingDropped, Active, Asking, Done, Piece
<1> QED
  BY <1>1, <1>2, <1>3, <1>4, <1>5, <1>6 DEF Next, Forward, Answered

-----------------------------------------------------------------------------
\* The pieces are right in every reachable state.
THEOREM CutInvariant == Spec => []CutInv
<1>1. Init => CutInv
  <2> SUFFICES ASSUME Init PROVE CutInv
    OBVIOUS
  <2>1. /\ payload \in Text /\ work = <<>> /\ results = <<>> /\ refused = {} /\ pc = "starting"
    BY OrchestratorAssumption DEF Init
  <2> QED
    BY <2>1 DEF CutInv, Carried, Narrowed, NothingDropped, Active, Asking
<1>2. CutInv /\ [Next]_vars => CutInv'
  BY CutStep
<1> QED
  BY <1>1, <1>2, PTL DEF Spec

\* What has been answered and what is still to do is the payload, in order, whatever is cut
\* and cut again; and a call that returns has answered all of it.
THEOREM PayloadIsKept == Spec => []NothingDropped
<1>1. CutInv => NothingDropped
  BY DEF CutInv
<1> QED
  BY <1>1, CutInvariant, PTL

\* chunk_text is right for the payload of the call under every budget.
THEOREM PayloadIsCutRight == Spec => []ChunkerIsRight
<1>1. CutInv => ChunkerIsRight
  <2> SUFFICES ASSUME CutInv, NEW b \in 1 .. Len(payload) + 1
               PROVE  ChunksAreRight(payload, b)
    BY DEF ChunkerIsRight
  <2>1. payload \in Text /\ b \in Nat \ {0}
    BY TextFacts DEF CutInv, Carried
  <2> QED
    BY <2>1, ChunkerCorrect
<1> QED
  BY <1>1, CutInvariant, PTL

\* What was too large for one provider is not sent again to any.
THEOREM NoResend == Spec => TooLargeNotResent
<1>1. CutInv /\ [Next]_vars =>
        [pc = "calling" /\ pc' = "recording" =>
           [from |-> Len(Concat(results)), len |-> Len(Piece)] \notin refused]_vars
  <2> SUFFICES ASSUME CutInv, pc = "calling",
                      [from |-> Len(Concat(results)), len |-> Len(Piece)] \in refused
               PROVE  FALSE
    OBVIOUS
  <2>1. pc \in Active /\ Carried /\ Narrowed
    BY DEF CutInv, Active, Asking
  <2>2. Len(Piece) \in Nat
    BY <2>1, InHand
  <2>3. Len(Piece) < Len(Piece)
    BY <2>1 DEF Narrowed, Done
  <2> QED
    BY <2>2, <2>3
<1> QED
  BY <1>1, CutInvariant, PTL DEF Spec, TooLargeNotResent
-----------------------------------------------------------------------------
(* Every step of a call comes nearer to its end.  Answering a piece leaves *)
(* fewer characters; cutting it leaves more pieces, of the same characters.*)

Weight ==
  IF pc = "starting" THEN 2 * Len(payload) + 1 ELSE 2 * Len(Concat(work)) - Len(work)

Stage ==
  IF pc \in Ends THEN 0
  ELSE IF pc \in Asking THEN Len(Order) + 2 - turn
  ELSE Len(Order) + 2

AttemptsLeft == MaxAttempts - attempt

Rank == CASE pc = "calling" -> 2 [] pc = "recording" -> 1 [] OTHER -> 0

\* The four in their order: the first that changes gets less.
Nearer ==
  \/ Weight' < Weight
  \/ Weight' = Weight /\ Stage' < Stage
  \/ Weight' = Weight /\ Stage' = Stage /\ AttemptsLeft' < AttemptsLeft
  \/ Weight' = Weight /\ Stage' = Stage /\ AttemptsLeft' = AttemptsLeft /\ Rank' < Rank

Measured == Weight \in Nat /\ Stage \in Nat /\ AttemptsLeft \in Nat /\ Rank \in Nat

\* The measures are natural numbers.
LEMMA Measures ==
  ASSUME TypeOK, CutInv
  PROVE  /\ Measured /\ Len(work) \in Nat /\ Len(Concat(work)) \in Nat
         /\ turn \in Nat /\ turn >= 1 /\ attempt \in Nat
<1>1. /\ payload \in Text /\ work \in Seq(Text) /\ \A k \in 1 .. Len(work) : work[k] # <<>>
  BY DEF CutInv, Carried
<1>2. Concat(work) \in Text
  BY <1>1, ConcatFacts
<1>3. Len(payload) \in Nat /\ Len(Concat(work)) \in Nat /\ Len(work) \in Nat
  BY <1>1, <1>2, TextFacts
<1>4. Len(work) <= Len(Concat(work))
  BY <1>1, EndsGrow
<1>5. Weight \in Nat
  BY <1>3, <1>4 DEF Weight
<1>6. turn \in 1 .. Len(Order) + 1 /\ attempt \in 0 .. MaxAttempts /\ Len(Order) \in Nat /\ MaxAttempts \in Nat
  BY OrderFacts DEF TypeOK
<1>7. Stage \in Nat /\ AttemptsLeft \in Nat /\ Rank \in Nat
  BY <1>6 DEF Stage, AttemptsLeft, Rank
<1> QED
  BY <1>3, <1>5, <1>6, <1>7 DEF Measured

\* A payload cut up weighs less than before.
LEMMA BeginNearer ==
  ASSUME CutInv, Begin
  PROVE  Weight' < Weight
<1> DEFINE pieces == ChunkText(payload, Budget)
<1>1. payload \in Text /\ Budget \in Nat \ {0}
  BY OrchestratorAssumption DEF CutInv, Carried
<1>2. pieces \in Seq(Text) /\ Concat(pieces) = payload
  BY <1>1, PiecesFacts
<1> HIDE DEF pieces
<1>3. work' = pieces /\ pc = "starting" /\ pc' # "starting"
  BY DEF Begin, Proceed, pieces
<1>4. Len(payload) \in Nat /\ Len(pieces) \in Nat
  BY <1>1, <1>2, TextFacts
<1>5. Weight = 2 * Len(payload) + 1 /\ Weight' = 2 * Len(payload) - Len(pieces)
  BY <1>2, <1>3 DEF Weight
<1> QED
  BY <1>4, <1>5

\* A piece answered was at least a character.
LEMMA AcceptNearer ==
  ASSUME CutInv, pc = "recording", Accept
  PROVE  Weight' < Weight
<1> DEFINE tail == Tail(work)
<1>1. Carried /\ pc \in Active
  BY DEF CutInv, Active, Asking
<1>2. work' = tail /\ pc' # "starting"
  BY DEF Accept, Proceed
<1>3. work \in Seq(Text) /\ work # <<>>
  BY <1>1 DEF Carried
<1>4. Len(tail) = Len(work) - 1 /\ Len(work) \in Nat
  BY <1>3
<1>5. /\ Piece \in Text /\ Len(Piece) \in Nat \ {0}
      /\ Concat(work) = Piece \o Concat(tail) /\ Concat(tail) \in Text
  BY <1>1, InHand
<1> HIDE DEF tail
<1>6. Len(Concat(work)) = Len(Piece) + Len(Concat(tail)) /\ Len(Concat(tail)) \in Nat
  BY <1>5, TextFacts
<1>7. Weight = 2 * Len(Concat(work)) - Len(work) /\ Weight' = 2 * Len(Concat(tail)) - Len(tail)
  BY <1>2 DEF Weight
<1> QED
  BY <1>4, <1>5, <1>6, <1>7

\* A piece cut again is at least two.
LEMMA RechunkNearer ==
  ASSUME CutInv, pc = "recording", Rechunk
  PROVE  Weight' < Weight
<1> DEFINE half == Len(Piece) \div 2
           pieces == ChunkText(Piece, half)
           tail == Tail(work)
           rest == pieces \o tail
<1>1. Carried /\ pc \in Active
  BY DEF CutInv, Active, Asking
<1>2. work' = rest /\ pc' # "starting" /\ Len(Piece) > 1
  BY DEF Rechunk, Proceed, Instead, Pieces
<1>3. work \in Seq(Text) /\ work # <<>> /\ \A k \in DOMAIN work : work[k] # <<>>
  BY <1>1 DEF Carried
<1>4. Len(tail) = Len(work) - 1 /\ Len(work) \in Nat
  BY <1>3
<1>5. Piece \in Text /\ Len(Piece) \in Nat /\ tail \in Seq(Text) /\ Concat(work) = Piece \o Concat(tail)
  BY <1>1, InHand
<1>6. half \in Nat \ {0} /\ half < Len(Piece)
  BY <1>2, <1>5
<1> HIDE DEF half
<1>7. /\ pieces \in Seq(Text) /\ Concat(pieces) = Piece
      /\ \A k \in DOMAIN pieces : Len(pieces[k]) <= half
  BY <1>5, <1>6, PiecesFacts
<1> HIDE DEF pieces, tail
<1>8. Len(pieces) >= 2 /\ Len(pieces) \in Nat
  <2>1. Len(pieces) \in Nat
    BY <1>7
  <2>2. Len(pieces) # 0
    <3> SUFFICES ASSUME Len(pieces) = 0 PROVE FALSE
      OBVIOUS
    <3>1. pieces = <<>>
      BY <1>7
    <3>2. Piece = <<>>
      BY <1>7, <3>1, ConcatFacts
    <3> QED
      BY <1>2, <3>2
  <2>3. Len(pieces) # 1
    <3> SUFFICES ASSUME Len(pieces) = 1 PROVE FALSE
      OBVIOUS
    <3>1. pieces = <<pieces[1]>> /\ pieces[1] \in Text /\ Len(pieces[1]) <= half
      BY <1>7
    <3>2. Concat(<<pieces[1]>>) = pieces[1]
      BY <3>1, ConcatFacts
    <3>3. Piece = pieces[1]
      BY <1>7, <3>1, <3>2
    <3> QED
      BY <1>5, <1>6, <3>1, <3>3
  <2> DEFINE n == Len(pieces)
  <2>4. n \in Nat /\ n # 0 /\ n # 1
    BY <2>1, <2>2, <2>3
  <2> HIDE DEF n
  <2>5. n >= 2
    BY <2>4
  <2> QED
    BY <2>1, <2>5 DEF n
<1>9. /\ rest \in Seq(Text) /\ Len(rest) = Len(pieces) + Len(tail)
      /\ Concat(rest) = Concat(pieces) \o Concat(tail)
  BY <1>5, <1>7, JoinedAfter
<1> HIDE DEF rest
<1>10. Concat(rest) = Concat(work)
  BY <1>5, <1>7, <1>9
<1>11. Concat(rest) \in Text
  BY <1>9, ConcatFacts
<1>12. Len(Concat(rest)) \in Nat
  BY <1>11, TextFacts
<1>13. Weight = 2 * Len(Concat(rest)) - Len(work) /\ Weight' = 2 * Len(Concat(rest)) - Len(rest)
  BY <1>2, <1>10 DEF Weight
<1> QED
  BY <1>4, <1>8, <1>9, <1>12, <1>13

\* Every step is nearer.
LEMMA NearerStep ==
  ASSUME IInv, CutInv, Next
  PROVE  Nearer
<1>0. /\ TypeOK /\ Place /\ Measured /\ turn \in Nat /\ turn >= 1 /\ attempt \in Nat
      /\ turn \in 1 .. Len(Order) + 1 /\ Len(Order) \in Nat /\ MaxAttempts \in Nat
  BY Measures, OrderFacts DEF IInv, TypeOK
<1>a. ASSUME UNCHANGED work, pc # "starting", pc' # "starting"
      PROVE  Weight' = Weight
  BY <1>a DEF Weight
<1> USE DEF hist, input
<1>1. CASE Begin
  BY <1>1, BeginNearer DEF Nearer
<1>2. CASE Offer
  <2>1. Weight' = Weight /\ pc = "piece" /\ pc' = "choosing" /\ turn' = 1
    BY <1>2, <1>a DEF Offer
  <2>2. Stage = Len(Order) + 2 /\ Stage' = Len(Order) + 1
    BY <1>0, <2>1 DEF Stage, Ends, Asking
  <2> QED
    BY <1>0, <2>1, <2>2 DEF Nearer
<1>3. ASSUME NEW next \in {"unavailable", "not_recorded", "cancelled", "too_large",
                           "unauthenticated", "escaped"},
             pc \in Asking, pc' = next, UNCHANGED work
      PROVE  Nearer
  <2>1. Weight' = Weight
    BY <1>3, <1>a DEF Asking
  <2>2. Stage' = 0 /\ Stage = Len(Order) + 2 - turn
    BY <1>3 DEF Stage, Ends, Asking
  <2> QED
    BY <1>0, <2>1, <2>2 DEF Nearer
<1>4. CASE AllExhausted
  BY <1>3, <1>4 DEF AllExhausted, Asking
<1>5. ASSUME pc \in Asking, pc' = "choosing", turn' = turn + 1, UNCHANGED work
      PROVE  Nearer
  <2>1. Weight' = Weight
    BY <1>5, <1>a DEF Asking
  <2>2. Stage = Len(Order) + 2 - turn /\ Stage' = Len(Order) + 2 - (turn + 1)
    BY <1>5 DEF Stage, Ends, Asking
  <2> QED
    BY <1>0, <2>1, <2>2 DEF Nearer
<1>6. CASE SkipUnconfigured
  BY <1>5, <1>6 DEF SkipUnconfigured, Asking
<1>7. ASSUME pc \in Asking, pc' \in Asking, turn' = turn, UNCHANGED work,
             \/ attempt' = attempt + 1
             \/ attempt' = attempt /\ Rank' < Rank
      PROVE  Nearer
  <2>1. Weight' = Weight
    BY <1>7, <1>a DEF Asking
  <2>2. Stage' = Stage
    BY <1>7 DEF Stage, Ends, Asking
  <2> QED
    BY <1>0, <1>7, <2>1, <2>2 DEF Nearer, AttemptsLeft
<1>8. CASE Call
  BY <1>7, <1>8 DEF Call, Asking
<1>9. ASSUME NEW reply \in Replies, Respond(reply)
      PROVE  Nearer
  BY <1>7, <1>9 DEF Respond, Asking, Rank
<1>10. CASE Record
  <2>1. pc = "recording"
    BY <1>10 DEF Record
  <2>2. CASE Accept
    BY <2>1, <2>2, AcceptNearer DEF Nearer
  <2>3. CASE Rechunk
    BY <2>1, <2>3, RechunkNearer DEF Nearer
  <2>4. CASE Retry
    BY <1>7, <2>1, <2>4 DEF Retry, Asking, Rank
  <2>5. CASE FallBack
    BY <1>5, <2>1, <2>5 DEF FallBack, Asking
  <2>6. CASE Raise
    BY <1>3, <2>1, <2>6 DEF Raise, Asking
  <2> QED
    BY <1>10, <2>2, <2>3, <2>4, <2>5, <2>6 DEF Record
<1>11. CASE RecordFails \/ Cancel
  BY <1>3, <1>11 DEF RecordFails, Cancel, Asking
<1> QED
  BY <1>1, <1>2, <1>4, <1>6, <1>8, <1>9, <1>10, <1>11 DEF Next, Forward, Answered

\* A call takes finitely many steps: each makes four natural numbers less, in the order of
\* the first that changes, whatever is answered, cut and retried.
THEOREM EveryStepIsNearer == Spec => [](Measured) /\ [][Nearer]_vars
<1>1. IInv /\ CutInv => Measured
  BY Measures DEF IInv
<1>2. IInv /\ CutInv /\ [Next]_vars => [Nearer]_vars
  BY NearerStep
<1> QED
  BY <1>1, <1>2, Invariant, CutInvariant, PTL DEF Spec
=============================================================================
