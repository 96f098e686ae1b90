----------------------------- MODULE HttpClient -----------------------------
(***************************************************************************)
(* AsyncHttpClient: the calls of get and post that share one client, each  *)
(* a retry_async loop around a request made under the client's semaphore.  *)
(*                                                                         *)
(* A call holds a slot only while its request is on the wire, not while it *)
(* waits before a retry.  Time passes in ticks; what the server answers is *)
(* nondeterministic.  A post without retry=True is a call of one attempt.  *)
(***************************************************************************)
EXTENDS Naturals, Sequences, FiniteSets

CONSTANTS Calls,
          Attempts,        \* Attempts[c]: max_attempts
          MaxConcurrency,  \* the semaphore's slots
          BaseDelay,       \* retry_base_delay_seconds, in ticks
          MaxDelay,        \* retry_max_delay_seconds, in ticks
          Hints,           \* delays a server may ask for (Retry-After, X-RateLimit-Reset)
          None

\* Neither settings.max_concurrency nor settings.max_retries has a validator: no slot
\* would admit nobody, and no attempt would end in an AssertionError.
ASSUME ConcurrencyAssumption == MaxConcurrency \in Nat \ {0}
ASSUME CallsAssumption ==
  /\ IsFiniteSet(Calls)
  /\ Attempts \in [Calls -> Nat \ {0}]
  /\ BaseDelay \in Nat /\ MaxDelay \in Nat
  /\ Hints \subseteq Nat
  /\ None \notin Nat

-----------------------------------------------------------------------------
\* What can become of a request.  Retried: a timeout, a transport error or a 5xx, a 429
\* (or a 403 with no quota left).  Final: any other status; 401 and 403; 413; a rate
\* limit whose hint float() cannot read; any other exception of httpx.

Retryable == {"timeout", "network", "limited"}
Answers   == Retryable \cup {"ok", "refused", "too_large", "unreadable", "escaped"}

VARIABLES
  pc,      \* "idle", "waiting" for a slot, "sending", "sleeping", "ended", "cancelled"
  queue,   \* the semaphore's waiters
  free,    \* its value
  attempt, \* the loop variable of retry_async
  delay,   \* what is left of its sleep
  answer,  \* the last answer, or None
  sent,    \* history: requests sent
  hold     \* history: for how long the server has asked not to be called

hist == <<sent, hold>>
vars == <<pc, queue, free, attempt, delay, answer, hist>>

InFlight == {c \in Calls : pc[c] = "sending"}

Init ==
  /\ pc = [c \in Calls |-> "idle"]
  /\ queue = <<>>
  /\ free = MaxConcurrency
  /\ attempt = [c \in Calls |-> 1]
  /\ delay = [c \in Calls |-> 0]
  /\ answer = [c \in Calls |-> None]
  /\ sent = [c \in Calls |-> 0]
  /\ hold = [c \in Calls |-> 0]

-----------------------------------------------------------------------------
\* Faulty variants: a hint is capped like a delay of our own; timeouts are not retried;
\* one attempt too many; a request without an answer keeps its slot.
BackoffCapped(n, hint) == IF hint = None THEN {0} ELSE {IF hint < MaxDelay THEN hint ELSE MaxDelay}
RetriesAnswered(c, a) == a \in Retryable \ {"timeout"} /\ attempt[c] < Attempts[c]
RetriesOnceMore(c, a) == a \in Retryable /\ attempt[c] <= Attempts[c]
SlotKeptOnError(a) == IF a \in {"timeout", "network"} THEN free ELSE free + 1

\* Full jitter under an exponential ceiling, unless the server said how long.
Backoff(n, hint) ==
  IF hint = None THEN {d \in 0 .. MaxDelay : d <= BaseDelay * 2 ^ (n - 1)} ELSE {hint}

Retries(c, a) == a \in Retryable /\ attempt[c] < Attempts[c]

\* Leaving `async with` returns the slot before the status is looked at.
FreeAfter(a) == free + 1

-----------------------------------------------------------------------------
\* asyncio.Semaphore admits its waiters in the order they arrived.

Join(c) ==
  /\ queue' = Append(queue, c)
  /\ pc' = [pc EXCEPT ![c] = "waiting"]

Start(c) ==
  /\ pc[c] = "idle"
  /\ Join(c)
  /\ UNCHANGED <<free, attempt, delay, answer, hist>>

Send(c) ==
  /\ queue # <<>> /\ Head(queue) = c
  /\ free > 0
  /\ queue' = Tail(queue)
  /\ free' = free - 1
  /\ pc' = [pc EXCEPT ![c] = "sending"]
  /\ sent' = [sent EXCEPT ![c] = @ + 1]
  /\ UNCHANGED <<attempt, delay, answer, hold>>

\* The request ends: the call ends with its answer, or sleeps before the next attempt.
\* Only a rate limit comes with a hint.
Answer(c, a, hint) ==
  /\ pc[c] = "sending"
  /\ hint # None => a = "limited"
  /\ free' = FreeAfter(a)
  /\ answer' = [answer EXCEPT ![c] = a]
  /\ IF Retries(c, a)
     THEN /\ \E d \in Backoff(attempt[c], hint) : delay' = [delay EXCEPT ![c] = d]
          /\ hold' = [hold EXCEPT ![c] = IF hint = None THEN 0 ELSE hint]
          /\ pc' = [pc EXCEPT ![c] = "sleeping"]
     ELSE pc' = [pc EXCEPT ![c] = "ended"] /\ UNCHANGED <<delay, hold>>
  /\ UNCHANGED <<queue, attempt, sent>>

Wake(c) ==
  /\ pc[c] = "sleeping"
  /\ delay[c] = 0
  /\ attempt' = [attempt EXCEPT ![c] = @ + 1]
  /\ Join(c)
  /\ UNCHANGED <<free, delay, answer, hist>>

Leave(c) ==
  \E i \in DOMAIN queue :
    queue[i] = c /\ queue' = SubSeq(queue, 1, i - 1) \o SubSeq(queue, i + 1, Len(queue))

\* The task of the call is cancelled at the await it is in.
Cancel(c) ==
  /\ pc[c] \in {"waiting", "sending", "sleeping"}
  /\ pc' = [pc EXCEPT ![c] = "cancelled"]
  /\ IF pc[c] = "waiting" THEN Leave(c) ELSE UNCHANGED queue
  /\ free' = IF pc[c] = "sending" THEN free + 1 ELSE free
  /\ delay' = [delay EXCEPT ![c] = 0]
  /\ hold' = [hold EXCEPT ![c] = 0]
  /\ UNCHANGED <<attempt, answer, sent>>

Sooner(f) == [c \in Calls |-> IF f[c] = 0 THEN 0 ELSE f[c] - 1]

Tick ==
  /\ \E c \in Calls : delay[c] > 0 \/ hold[c] > 0
  /\ delay' = Sooner(delay)
  /\ hold' = Sooner(hold)
  /\ UNCHANGED <<pc, queue, free, attempt, answer, sent>>

-----------------------------------------------------------------------------
Respond(c) == \E a \in Answers, hint \in Hints \cup {None} : Answer(c, a, hint)

Step(c) == Start(c) \/ Send(c) \/ Respond(c) \/ Wake(c) \/ Cancel(c)

Next == (\E c \in Calls : Step(c)) \/ Tick

\* httpx.Timeout bounds every phase of a request, the loop runs what is ready, and time
\* passes.  Nobody has to start a call or to cancel one.
Fairness == WF_vars(Tick) /\ \A c \in Calls : WF_vars(Send(c) \/ Respond(c) \/ Wake(c))

Spec == Init /\ [][Next]_vars
FairSpec == Spec /\ Fairness

-----------------------------------------------------------------------------
TypeOK ==
  /\ pc \in [Calls -> {"idle", "waiting", "sending", "sleeping", "ended", "cancelled"}]
  /\ queue \in Seq(Calls)
  /\ free \in 0 .. MaxConcurrency
  /\ attempt \in [Calls -> Nat] /\ \A c \in Calls : attempt[c] \in 1 .. Attempts[c]
  /\ delay \in [Calls -> Nat]
  /\ answer \in [Calls -> Answers \cup {None}]
  /\ sent \in [Calls -> Nat]
  /\ hold \in [Calls -> Nat]

\* Bounded concurrency: however a request ends, its slot comes back once, and a call that
\* waits before a retry has none.
SlotsConserved == free + Cardinality(InFlight) = MaxConcurrency

\* Every attempt of the bound is made, and no more: a call never sends more requests than
\* max_attempts, and one that reports a retryable error has sent all of them.
AttemptsSpent ==
  \A c \in Calls :
    /\ sent[c] <= Attempts[c]
    /\ pc[c] = "ended" /\ answer[c] \in Retryable => sent[c] = Attempts[c]

\* retry.py:29: "Respect an explicit Retry-After even if it's larger than our cap": no
\* request of the call is sent before the server's delay is over, nor after an answer
\* that is not to be retried (401, 403, 413).
SendsOnlyWhenAllowed ==
  [][\A c \in Calls : sent'[c] # sent[c] =>
       hold[c] = 0 /\ answer[c] \in Retryable \cup {None}]_vars

\* No call hangs: whatever the others are doing, waiting or sleeping, it ends.
EveryCallEnds == \A c \in Calls : pc[c] = "waiting" ~> pc[c] \in {"ended", "cancelled"}
=============================================================================
