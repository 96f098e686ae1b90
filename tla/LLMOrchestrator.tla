--------------------------- MODULE LLMOrchestrator ---------------------------
(***************************************************************************)
(* LLMOrchestrator.generate: the payload in pieces, every piece offered to *)
(* the providers in order, each with its retries, and cut again when it is *)
(* too large for one.                                                      *)
(*                                                                         *)
(* The recursion of _generate_chunk is a list of the pieces still to do.   *)
(* Each attempt is two awaits: the provider's, and that of the LLMRequest  *)
(* row.  A call has no state in common with another.                       *)
(***************************************************************************)
EXTENDS Chunker, LLMProviders

CONSTANTS Order,       \* llm_provider_order
          Configured,  \* the providers there is an adapter for
          Keys,        \* the sets of providers that may have an API key and a model
          Payloads,
          Budget,      \* max(1, llm_token_budget * 4), in characters
          MaxAttempts  \* max(1, llm_max_retries + 1)

ASSUME OrchestratorAssumption ==
  /\ Order \in Seq({Order[i] : i \in DOMAIN Order})
  /\ \A i, j \in DOMAIN Order : Order[i] = Order[j] => i = j
  /\ Payloads \subseteq Text
  /\ Budget \in Nat \ {0} /\ MaxAttempts \in Nat \ {0}

-----------------------------------------------------------------------------
\* What the orchestrator makes of the end of a provider's generate.  Retried, then passed
\* on to the next provider: a rate limit, a network error, a timeout, an answer that cannot
\* be parsed or fails the schema.  Final: 413, missing credentials, any other exception.
\* (A PipelineError of another type would be passed on at once; no provider raises one.)

Retryable == "retryable"
ClassOf ==
  [ok |-> "ok",
   RateLimitError |-> Retryable, NetworkError |-> Retryable, TimeoutErrorPipeline |-> Retryable,
   ParsingError |-> Retryable, ValidationError |-> Retryable,
   PayloadTooLargeError |-> "too_large", AuthenticationError |-> "unauthenticated",
   TypeError |-> "escaped", ValueError |-> "escaped"]

Answers == {ClassOf[e] : e \in DOMAIN ClassOf}

VARIABLES
  payload,
  keyed,     \* the providers with a key and a model in the settings
  pc,        \* "starting", at a "piece", "choosing" a provider, "calling", "recording",
             \* "sleeping", or an end
  work,      \* the pieces to do; the first is being generated
  turn,      \* provider_index + 1
  attempt,   \* attempt_number
  answer,    \* of the attempt being recorded
  results,   \* the pieces answered, in the order of their results
  requests,  \* the LLMRequest rows of the piece (those of earlier pieces are never read)
  tried,     \* history: the attempts at the piece
  refused    \* history: where the pieces lay that were too large

input == <<payload, keyed>>
hist == <<tried, refused>>
vars == <<input, pc, work, turn, attempt, answer, results, requests, hist>>

Ends == {"returned", "too_large", "unauthenticated", "escaped", "unavailable",
         "not_recorded", "cancelled"}

Piece == Head(work)
Provider == Order[turn]

Init ==
  /\ payload \in Payloads /\ keyed \in Keys
  /\ pc = "starting"
  /\ work = <<>> /\ results = <<>>
  /\ turn = 1 /\ attempt = 0
  /\ answer = "ok"
  /\ requests = <<>>
  /\ tried = <<>> /\ refused = {}

\* These pieces are to do now.
Proceed(pieces) ==
  /\ work' = pieces
  /\ pc' = IF pieces = <<>> THEN "returned" ELSE "piece"
  /\ UNCHANGED <<turn, attempt, tried>>

-----------------------------------------------------------------------------
Begin ==
  /\ pc = "starting"
  /\ Proceed(ChunkText(payload, Budget))
  /\ UNCHANGED <<input, answer, results, requests, refused>>

\* _generate_with_fallback: the first piece, from the first provider on.
Offer ==
  /\ pc = "piece"
  /\ turn' = 1 /\ attempt' = 0
  /\ requests' = <<>> /\ tried' = <<>>
  /\ pc' = "choosing"
  /\ UNCHANGED <<input, work, answer, results, refused>>

\* The loop over llm_provider_order.
SkipUnconfigured ==
  /\ pc = "choosing" /\ turn <= Len(Order) /\ Provider \notin Configured
  /\ turn' = turn + 1
  /\ UNCHANGED <<input, pc, work, attempt, answer, results, requests, hist>>

AllExhausted ==
  /\ pc = "choosing" /\ turn > Len(Order)
  /\ pc' = "unavailable"
  /\ UNCHANGED <<input, work, turn, attempt, answer, results, requests, hist>>

StatusOf(a) == IF a = "ok" THEN "success" ELSE "error"

\* call_provider: the first attempt at a provider, or one more after the backoff.
Call ==
  /\ \/ pc = "choosing" /\ turn <= Len(Order) /\ Provider \in Configured
     \/ pc = "sleeping"
  /\ attempt' = attempt + 1
  /\ pc' = "calling"
  /\ UNCHANGED <<input, work, turn, answer, results, requests, hist>>

Respond(reply) ==
  /\ pc = "calling"
  /\ answer' = ClassOf[Generate(Provider \in keyed, reply)]
  /\ pc' = "recording"
  /\ tried' = Append(tried, [provider |-> Provider, answer |-> answer'])
  /\ refused' = IF answer' = "too_large"
                THEN refused \cup {[from |-> Len(Concat(results)), len |-> Len(Piece)]}
                ELSE refused
  /\ UNCHANGED <<input, work, turn, attempt, results, requests>>

-----------------------------------------------------------------------------
\* What call_provider, retry_async and the loops make of an answer.

\* Faulty variants: a 413 goes to the next provider; a piece is cut by the budget it already fits; the pieces
\* of a cut are done last; a row is written only for what failed.
FallsBackTooLarge == {Retryable, "too_large"}
PiecesByBudget == ChunkText(Piece, Budget)
RestFirst(pieces) == Tail(work) \o pieces
RowIfFailed ==
  IF answer = "ok" THEN <<>>
  ELSE <<[provider |-> Provider, status |-> "error", retry_count |-> attempt - 1]>>

Retries == answer = Retryable /\ attempt < MaxAttempts

FallsBack == {Retryable}

\* _generate_chunk: cut to half the length.
Pieces == ChunkText(Piece, Len(Piece) \div 2)

Instead(pieces) == pieces \o Tail(work)

\* The attempt's LLMRequest.
Row == <<[provider |-> Provider, status |-> StatusOf(answer), retry_count |-> attempt - 1]>>

Accept ==
  /\ answer = "ok"
  /\ results' = Append(results, Piece)
  /\ Proceed(Tail(work))

Retry ==
  /\ Retries
  /\ pc' = "sleeping"
  /\ UNCHANGED <<work, turn, attempt, results, tried>>

FallBack ==
  /\ answer \in FallsBack /\ ~Retries
  /\ turn' = turn + 1 /\ attempt' = 0
  /\ pc' = "choosing"
  /\ UNCHANGED <<work, results, tried>>

Rechunk ==
  /\ answer = "too_large"
  /\ Len(Piece) > 1
  /\ Proceed(Instead(Pieces))
  /\ UNCHANGED results

\* A 413 for a single character, missing credentials, an untyped exception.
Raise ==
  /\ \/ answer = "too_large" /\ Len(Piece) = 1
     \/ answer \in {"unauthenticated", "escaped"}
  /\ pc' = answer
  /\ UNCHANGED <<work, turn, attempt, results, tried>>

\* _record_attempt succeeds, and generate goes on.
Record ==
  /\ pc = "recording"
  /\ requests' = requests \o Row
  /\ Accept \/ Retry \/ FallBack \/ Rechunk \/ Raise
  /\ UNCHANGED <<input, answer, refused>>

\* It raises in the place of the provider's answer or error, with or without the row.
RecordFails ==
  /\ pc = "recording"
  /\ requests' \in {requests, requests \o Row}
  /\ pc' = "not_recorded"
  /\ UNCHANGED <<input, work, turn, attempt, answer, results, hist>>

\* CancelledError is no Exception: no handler records the attempt.
Cancel ==
  /\ pc \in {"calling", "recording", "sleeping"}
  /\ requests' \in IF pc = "recording" THEN {requests, requests \o Row} ELSE {requests}
  /\ pc' = "cancelled"
  /\ UNCHANGED <<input, work, turn, attempt, answer, results, hist>>

-----------------------------------------------------------------------------
Answered == \E reply \in Replies : Respond(reply)

Forward == Begin \/ Offer \/ SkipUnconfigured \/ AllExhausted \/ Call \/ Answered \/ Record

Next == Forward \/ RecordFails \/ Cancel

\* A provider answers within the client's timeout, and a backoff ends.
Spec == Init /\ [][Next]_vars
FairSpec == Spec /\ WF_vars(Forward)

-----------------------------------------------------------------------------
RowType == [provider : Configured, status : {"success", "error"}, retry_count : 0 .. MaxAttempts - 1]

\* Of the pieces NothingDropped says what they are.
TypeOK ==
  /\ pc \in {"starting", "piece", "choosing", "calling", "recording", "sleeping"} \cup Ends
  /\ turn \in 1 .. Len(Order) + 1
  /\ attempt \in 0 .. MaxAttempts
  /\ answer \in Answers
  /\ requests \in Seq(RowType)
  /\ tried \in Seq([provider : Configured, answer : Answers])

\* requirements.md:13 (LLM): "Text MUST NOT be silently discarded or duplicated": what has been
\* answered and what is still to do is the payload, in order, however pieces are cut and
\* cut again; a call that returns has answered all of it.
NothingDropped ==
  /\ pc # "starting" => Concat(results) \o Concat(work) = payload
  /\ pc = "returned" => Concat(results) = payload

\* requirements.md:45: every attempt has its LLMRequest, with its status and the number of
\* attempts before it, but for one that is being recorded, was cancelled or could not be
\* recorded; and no attempt has two.
Attempts(p) == {k \in DOMAIN tried : tried[k].provider = p}
Earlier(p, k) == {m \in Attempts(p) : m < k}

Recorded(row, k) ==
  /\ row.provider = tried[k].provider
  /\ row.status = "success" <=> tried[k].answer = "ok"
  /\ row.retry_count = Cardinality(Earlier(row.provider, k))

EveryAttemptRecorded ==
  /\ \A k \in DOMAIN requests : k <= Len(tried) /\ Recorded(requests[k], k)
  /\ Len(tried) <= Len(requests) + 1
  /\ pc \notin {"recording", "not_recorded", "cancelled"} => Len(tried) = Len(requests)

\* The retry and fallback matrix, requirements.md:29-40, but for its rows on authentication:
\* a provider is asked only after every one before it has spent all of its attempts at the
\* piece (line 42: it is retried "up to llm_max_retries"), or has refused the credentials;
\* nobody is asked after a success, a 413 or an untyped exception.
PassedOver(p) ==
  \/ Cardinality(Attempts(p)) = MaxAttempts
  \/ \E m \in Attempts(p) : tried[m].answer = "unauthenticated"

FallbackInOrder ==
  \A k \in DOMAIN tried :
    /\ k < Len(tried) => tried[k].answer \in {Retryable, "unauthenticated"}
    /\ \A i, j \in DOMAIN Order :
         i < j /\ Order[i] \in Configured /\ tried[k].provider = Order[j] =>
           /\ Attempts(Order[i]) # {} /\ \A m \in Attempts(Order[i]) : m < k
           /\ PassedOver(Order[i])

\* Its rows on authentication, requirements.md:35-36: after "401 Unauthorized" and
\* "Non-rate-limit 403" the fallback is "Immediate", so no call ends with such an error
\* while a provider has not been asked.  It does not hold, see the README: the code raises
\* the error again.
AuthenticationFallsBack ==
  pc = "unauthenticated" =>
    \A i \in DOMAIN Order : Order[i] \in Configured => Attempts(Order[i]) # {}

\* requirements.md:14: a 413 must "immediately propagate (no retries for the identical
\* payload)": what was too large for one provider is not sent again to any.
TooLargeNotResent ==
  [][pc = "calling" /\ pc' = "recording" =>
       [from |-> Len(Concat(results)), len |-> Len(Piece)] \notin refused]_vars

\* chunk_text for the payload under every budget.
ChunkerIsRight == \A b \in 1 .. Len(payload) + 1 : ChunksAreRight(payload, b)

\* Every call ends, whatever is cut and retried.
EveryGenerateEnds == <>(pc \in Ends)
=============================================================================
