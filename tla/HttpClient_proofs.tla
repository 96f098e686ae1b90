------------------------- MODULE HttpClient_proofs -------------------------
(***************************************************************************)
(* Safety of the HTTP client for any number of calls, attempts and slots,  *)
(* and any delays: the semaphore, the number of attempts, and the delay a  *)
(* server asks for.                                                        *)
(***************************************************************************)
EXTENDS HttpClient, FiniteSetTheorems, SequenceTheorems, TLAPS

\* The waiters are the calls that wait for a slot, each once: a call can be sent only
\* from the head of the queue, and leaves the queue for good.
QueueIsWaiters ==
  /\ \A i \in 1 .. Len(queue) : pc[queue[i]] = "waiting"
  /\ \A i, j \in 1 .. Len(queue) : queue[i] = queue[j] => i = j

\* Where a call is in its loop says how many requests it has sent and what may follow: it
\* sleeps or waits only after an answer worth a retry, never sleeps after its last attempt,
\* gives up on such an answer only then, and sleeps at least as long as it was asked to.
LoopPosition ==
  \A c \in Calls :
    /\ pc[c] \in {"idle", "waiting"} => sent[c] = attempt[c] - 1
    /\ pc[c] \in {"sending", "sleeping", "ended"} => sent[c] = attempt[c]
    /\ sent[c] <= attempt[c]
    /\ pc[c] \in {"idle", "waiting"} => answer[c] \in Retryable \cup {None}
    /\ pc[c] = "sleeping" => answer[c] \in Retryable /\ attempt[c] < Attempts[c]
    /\ pc[c] = "ended" /\ answer[c] \in Retryable => attempt[c] = Attempts[c]
    /\ hold[c] <= delay[c]
    /\ pc[c] # "sleeping" => delay[c] = 0

\* And every call that waits is in the queue: none is passed over when another leaves.
InQueue(c) == \E i \in 1 .. Len(queue) : queue[i] = c
Queued == \A c \in Calls : pc[c] = "waiting" => InQueue(c)

Inv == TypeOK /\ SlotsConserved /\ QueueIsWaiters /\ LoopPosition

-----------------------------------------------------------------------------
LEMMA CallSetsFinite ==
  ASSUME NEW S \in SUBSET Calls
  PROVE  IsFiniteSet(S) /\ Cardinality(S) \in Nat
BY CallsAssumption, FS_Subset, FS_CardinalityType

\* A call that starts or ends a request changes the number in flight by one, and no
\* other does.
LEMMA InFlightChange ==
  ASSUME TypeOK, NEW c \in Calls, NEW s, pc' = [pc EXCEPT ![c] = s]
  PROVE  LET held == Cardinality(InFlight)
             now  == Cardinality(InFlight')
         IN /\ pc[c] = "sending" /\ s # "sending" => now = held - 1
            /\ pc[c] # "sending" /\ s = "sending" => now = held + 1
            /\ (pc[c] = "sending" <=> s = "sending") => now = held
<1>1. InFlight \in SUBSET Calls /\ InFlight' \in SUBSET Calls
  BY DEF InFlight
<1>2. /\ IsFiniteSet(InFlight) /\ Cardinality(InFlight) \in Nat
      /\ IsFiniteSet(InFlight') /\ Cardinality(InFlight') \in Nat
  BY <1>1, CallSetsFinite
<1>3. CASE pc[c] = "sending" /\ s # "sending"
  <2>1. InFlight' = InFlight \ {c} /\ c \in InFlight
    BY <1>3 DEF InFlight, TypeOK
  <2> QED
    BY <1>2, <1>3, <2>1, FS_RemoveElement
<1>4. CASE pc[c] # "sending" /\ s = "sending"
  <2>1. InFlight' = InFlight \cup {c} /\ c \notin InFlight
    BY <1>4 DEF InFlight, TypeOK
  <2> QED
    BY <1>2, <1>4, <2>1, FS_AddElement
<1>5. CASE pc[c] = "sending" <=> s = "sending"
  <2>1. InFlight' = InFlight
    BY <1>5 DEF InFlight, TypeOK
  <2> QED
    BY <1>5, <2>1
<1> QED
  BY <1>3, <1>4, <1>5

-----------------------------------------------------------------------------
\* The queue, when a call joins it, is sent from it, or leaves it.

LEMMA JoinKeepsQueue ==
  ASSUME TypeOK, QueueIsWaiters, NEW c \in Calls, pc[c] # "waiting", Join(c)
  PROVE  queue' \in Seq(Calls) /\ QueueIsWaiters'
<1>1. /\ queue' \in Seq(Calls) /\ Len(queue') = Len(queue) + 1
      /\ \A i \in 1 .. Len(queue) : queue'[i] = queue[i]
      /\ queue'[Len(queue) + 1] = c
  BY AppendProperties DEF Join, TypeOK
<1>2. \A i \in 1 .. Len(queue) : queue[i] \in Calls /\ queue[i] # c
  BY ElementOfSeq DEF QueueIsWaiters, TypeOK
<1>3. Len(queue) \in Nat
  BY LenProperties DEF TypeOK
<1>4. \A i \in 1 .. Len(queue') : pc'[queue'[i]] = "waiting"
  <2> TAKE i \in 1 .. Len(queue')
  <2>1. CASE i \in 1 .. Len(queue)
    BY <1>1, <1>2, <2>1 DEF Join, TypeOK, QueueIsWaiters
  <2>2. CASE i = Len(queue) + 1
    BY <1>1, <2>2 DEF Join, TypeOK
  <2> QED
    BY <1>1, <1>3, <2>1, <2>2
<1>5. \A i, j \in 1 .. Len(queue') : queue'[i] = queue'[j] => i = j
  BY <1>1, <1>2, <1>3 DEF QueueIsWaiters
<1> QED
  BY <1>1, <1>4, <1>5 DEF QueueIsWaiters

LEMMA SendKeepsQueue ==
  ASSUME TypeOK, QueueIsWaiters, NEW c \in Calls, Send(c)
  PROVE  pc[c] = "waiting" /\ queue' \in Seq(Calls) /\ QueueIsWaiters'
<1>1. /\ queue # <<>> /\ Head(queue) = c /\ queue' = Tail(queue)
      /\ pc' = [pc EXCEPT ![c] = "sending"]
  BY DEF Send
<1>2. /\ queue' \in Seq(Calls) /\ Len(queue') = Len(queue) - 1
      /\ \A i \in 1 .. Len(queue') : queue'[i] = queue[i + 1]
      /\ Len(queue) \in Nat \ {0} /\ queue[1] = c
  BY <1>1, HeadTailProperties, LenProperties, EmptySeq DEF TypeOK
<1>3. pc[c] = "waiting"
  BY <1>2 DEF QueueIsWaiters
<1>4. \A i \in 1 .. Len(queue') : queue'[i] \in Calls /\ queue'[i] # c /\ pc[queue'[i]] = "waiting"
  <2> TAKE i \in 1 .. Len(queue')
  <2>1. i + 1 \in 1 .. Len(queue) /\ 1 \in 1 .. Len(queue) /\ i + 1 # 1
    BY <1>2
  <2>2. queue[i + 1] \in Calls
    BY <2>1, ElementOfSeq DEF TypeOK
  <2> QED
    BY <1>2, <2>1, <2>2 DEF QueueIsWaiters
<1>5. \A i \in 1 .. Len(queue') : pc'[queue'[i]] = "waiting"
  BY <1>1, <1>4 DEF TypeOK
<1>6. \A i, j \in 1 .. Len(queue') : queue'[i] = queue'[j] => i = j
  BY <1>2 DEF QueueIsWaiters
<1> QED
  BY <1>2, <1>3, <1>5, <1>6 DEF QueueIsWaiters

LEMMA LeaveKeepsQueue ==
  ASSUME TypeOK, QueueIsWaiters, NEW c \in Calls, Leave(c), NEW s, pc' = [pc EXCEPT ![c] = s]
  PROVE  /\ queue' \in Seq(Calls) /\ QueueIsWaiters'
         /\ \A d \in Calls \ {c} : InQueue(d) => InQueue(d)'
<1>1. PICK k \in 1 .. Len(queue) :
        queue[k] = c /\ queue' = SubSeq(queue, 1, k - 1) \o SubSeq(queue, k + 1, Len(queue))
  BY LenProperties DEF Leave, TypeOK
<1>2. Len(queue) \in Nat /\ queue \in Seq(Calls)
  BY LenProperties DEF TypeOK
<1>3. /\ queue' \in Seq(Calls) /\ Len(queue') = Len(queue) - 1
      /\ \A i \in 1 .. Len(queue) - 1 : queue'[i] = IF i < k THEN queue[i] ELSE queue[i + 1]
  <2> DEFINE a == SubSeq(queue, 1, k - 1)
             b == SubSeq(queue, k + 1, Len(queue))
  <2>1. a \in Seq(Calls) /\ Len(a) = k - 1 /\ \A i \in 1 .. k - 1 : a[i] = queue[i]
    BY <1>1, <1>2, SubSeqProperties
  <2>2. /\ b \in Seq(Calls) /\ Len(b) = Len(queue) - k
        /\ \A i \in 1 .. Len(queue) - k : b[i] = queue[k + i]
    BY <1>1, <1>2, SubSeqProperties
  <2>3. queue' = a \o b
    BY <1>1
  <2> HIDE DEF a, b
  <2>4. /\ a \o b \in Seq(Calls) /\ Len(a \o b) = Len(a) + Len(b)
        /\ \A i \in 1 .. Len(a) + Len(b) :
             (a \o b)[i] = IF i <= Len(a) THEN a[i] ELSE b[i - Len(a)]
    BY <2>1, <2>2, ConcatProperties, Zenon
  <2>5. Len(a) + Len(b) = Len(queue) - 1 /\ k \in Nat
    BY <1>2, <2>1, <2>2
  <2> DEFINE q == a \o b
  <2>6. queue' = q
    BY <2>3
  <2>7. /\ q \in Seq(Calls) /\ Len(q) = Len(queue) - 1
        /\ \A i \in 1 .. Len(queue) - 1 : q[i] = IF i <= k - 1 THEN a[i] ELSE b[i - (k - 1)]
    BY <2>1, <2>4, <2>5, Zenon
  <2> HIDE DEF q
  <2>8. ASSUME NEW i \in 1 .. Len(queue) - 1
        PROVE  q[i] = IF i < k THEN queue[i] ELSE queue[i + 1]
    <3>1. CASE i < k
      BY <1>2, <2>1, <2>5, <2>7, <3>1
    <3>2. CASE ~(i < k)
      <4>1. /\ i - (k - 1) \in 1 .. Len(queue) - k /\ k + (i - (k - 1)) = i + 1
            /\ ~(i <= k - 1)
        BY <1>2, <2>5, <3>2
      <4> QED
        BY <2>2, <2>7, <3>2, <4>1
    <3> QED
      BY <3>1, <3>2
  <2> QED
    BY <2>6, <2>7, <2>8
<1> DEFINE from(i) == IF i < k THEN i ELSE i + 1
<1>4. ASSUME NEW i \in 1 .. Len(queue')
      PROVE  from(i) \in 1 .. Len(queue) /\ from(i) # k /\ queue'[i] = queue[from(i)]
  <2>1. k \in Nat /\ i \in Nat /\ i \in 1 .. Len(queue) - 1
    <3>1. Len(queue') = Len(queue) - 1
      BY <1>3
    <3> QED
      BY <1>2, <3>1
  <2>2. from(i) \in 1 .. Len(queue) /\ from(i) # k
    <3>1. CASE i < k
      BY <1>2, <2>1, <3>1
    <3>2. CASE ~(i < k)
      BY <1>2, <2>1, <3>2
    <3> QED
      BY <3>1, <3>2
  <2>3. queue'[i] = queue[from(i)]
    BY <1>3, <2>1
  <2> QED
    BY <2>2, <2>3
<1>5. ASSUME NEW i \in 1 .. Len(queue')
      PROVE  queue'[i] \in Calls /\ queue'[i] # c /\ pc[queue'[i]] = "waiting"
  <2>1. from(i) \in 1 .. Len(queue) /\ from(i) # k /\ queue'[i] = queue[from(i)]
    BY <1>4
  <2> HIDE DEF from
  <2>2. queue[from(i)] \in Calls
    BY <1>2, <2>1, ElementOfSeq
  <2> QED
    BY <1>1, <2>1, <2>2 DEF QueueIsWaiters
<1>6. \A i \in 1 .. Len(queue') : pc'[queue'[i]] = "waiting"
  BY <1>5 DEF TypeOK
<1>7. ASSUME NEW i \in 1 .. Len(queue'), NEW j \in 1 .. Len(queue'), queue'[i] = queue'[j]
      PROVE  i = j
  <2>1. from(i) = from(j)
    <3>1. /\ from(i) \in 1 .. Len(queue) /\ queue'[i] = queue[from(i)]
          /\ from(j) \in 1 .. Len(queue) /\ queue'[j] = queue[from(j)]
      BY <1>4
    <3> HIDE DEF from
    <3> QED
      BY <1>7, <3>1 DEF QueueIsWaiters
  <2> QED
    BY <1>1, <1>2, <1>3, <2>1
<1>8. ASSUME NEW d \in Calls \ {c}, InQueue(d)
      PROVE  InQueue(d)'
  <2>1. PICK i \in 1 .. Len(queue) : queue[i] = d
    BY <1>8 DEF InQueue
  <2>2. i # k /\ i \in Nat /\ k \in Nat
    BY <1>1, <1>2, <2>1
  <2>3. CASE i < k
    <3>1. i \in 1 .. Len(queue) - 1
      BY <1>2, <2>2, <2>3
    <3>2. queue'[i] = d /\ i \in 1 .. Len(queue')
      BY <1>3, <2>1, <2>3, <3>1
    <3> QED
      BY <3>2 DEF InQueue
  <2>4. CASE i > k
    <3>1. i - 1 \in 1 .. Len(queue) - 1 /\ ~ (i - 1 < k) /\ i - 1 + 1 = i
      BY <1>2, <2>2, <2>4
    <3>2. queue'[i - 1] = d /\ i - 1 \in 1 .. Len(queue')
      BY <1>3, <2>1, <3>1
    <3> QED
      BY <3>2 DEF InQueue
  <2> QED
    BY <2>2, <2>3, <2>4
<1> QED
  BY <1>3, <1>6, <1>7, <1>8 DEF QueueIsWaiters

-----------------------------------------------------------------------------
\* The initial state.
LEMMA InitInv == Init => Inv
<1> SUFFICES ASSUME Init PROVE Inv
  OBVIOUS
<1>1. TypeOK
  BY ConcurrencyAssumption, CallsAssumption DEF Init, TypeOK
<1>2. SlotsConserved
  <2>1. InFlight = {}
    BY DEF Init, InFlight
  <2> QED
    BY <2>1, FS_EmptySet, ConcurrencyAssumption DEF Init, SlotsConserved
<1>3. QueueIsWaiters
  BY DEF Init, QueueIsWaiters
<1>4. LoopPosition
  BY CallsAssumption DEF Init, LoopPosition
<1> QED
  BY <1>1, <1>2, <1>3, <1>4 DEF Inv

\* A call joins the queue, for its first attempt or for another.
LEMMA StartKeepsInv ==
  ASSUME Inv, NEW c \in Calls, Start(c)
  PROVE  Inv'
<1>1. /\ pc[c] = "idle" /\ Join(c) /\ pc' = [pc EXCEPT ![c] = "waiting"]
      /\ UNCHANGED <<free, attempt, delay, answer, sent, hold>>
  BY DEF Start, Join, hist
<1>2. queue' \in Seq(Calls) /\ QueueIsWaiters'
  BY <1>1, JoinKeepsQueue DEF Inv
<1>3. TypeOK'
  BY <1>1, <1>2 DEF Inv, TypeOK
<1>4. SlotsConserved'
  <2>1. pc[c] # "sending" /\ pc' = [pc EXCEPT ![c] = "waiting"]
    BY <1>1
  <2>2. Cardinality(InFlight') = Cardinality(InFlight)
    <3>1. InFlight' = InFlight
      BY <2>1 DEF InFlight, Inv, TypeOK
    <3> QED
      BY <3>1
  <2> QED
    BY <1>1, <2>2 DEF Inv, SlotsConserved
<1>5. LoopPosition'
  BY <1>1 DEF Inv, LoopPosition, TypeOK
<1> QED
  BY <1>2, <1>3, <1>4, <1>5 DEF Inv

LEMMA WakeKeepsInv ==
  ASSUME Inv, NEW c \in Calls, Wake(c)
  PROVE  Inv'
<1>1. /\ pc[c] = "sleeping" /\ delay[c] = 0 /\ Join(c) /\ pc' = [pc EXCEPT ![c] = "waiting"]
      /\ attempt' = [attempt EXCEPT ![c] = attempt[c] + 1]
      /\ UNCHANGED <<free, delay, answer, sent, hold>>
  BY DEF Wake, Join, hist
<1>2. queue' \in Seq(Calls) /\ QueueIsWaiters'
  BY <1>1, JoinKeepsQueue DEF Inv
<1>3. attempt[c] < Attempts[c] /\ attempt[c] \in Nat /\ Attempts[c] \in Nat
  BY <1>1, CallsAssumption DEF Inv, LoopPosition, TypeOK
<1>4. TypeOK'
  BY <1>1, <1>2, <1>3 DEF Inv, TypeOK
<1>5. SlotsConserved'
  <2>1. pc[c] # "sending" /\ pc' = [pc EXCEPT ![c] = "waiting"]
    BY <1>1
  <2>2. Cardinality(InFlight') = Cardinality(InFlight)
    <3>1. InFlight' = InFlight
      BY <2>1 DEF InFlight, Inv, TypeOK
    <3> QED
      BY <3>1
  <2> QED
    BY <1>1, <2>2 DEF Inv, SlotsConserved
<1>6. LoopPosition'
  BY <1>1, <1>3 DEF Inv, LoopPosition, TypeOK
<1> QED
  BY <1>2, <1>4, <1>5, <1>6 DEF Inv

\* A request goes out: it takes a slot.
LEMMA SendKeepsInv ==
  ASSUME Inv, NEW c \in Calls, Send(c)
  PROVE  Inv'
<1>1. /\ free > 0 /\ free' = free - 1
      /\ pc' = [pc EXCEPT ![c] = "sending"]
      /\ sent' = [sent EXCEPT ![c] = sent[c] + 1]
      /\ UNCHANGED <<attempt, delay, answer, hold>>
  BY DEF Send
<1>2. pc[c] = "waiting" /\ queue' \in Seq(Calls) /\ QueueIsWaiters'
  BY SendKeepsQueue DEF Inv
<1>3. TypeOK'
  BY <1>1, <1>2, ConcurrencyAssumption DEF Inv, TypeOK
<1>4. SlotsConserved'
  <2>1. Cardinality(InFlight') = Cardinality(InFlight) + 1
    BY <1>1, <1>2, InFlightChange DEF Inv
  <2>2. Cardinality(InFlight) \in Nat
    BY CallSetsFinite DEF InFlight
  <2> QED
    BY <1>1, <2>1, <2>2, ConcurrencyAssumption DEF Inv, SlotsConserved, TypeOK
<1>5. LoopPosition'
  BY <1>1, <1>2 DEF Inv, LoopPosition, TypeOK
<1> QED
  BY <1>2, <1>3, <1>4, <1>5 DEF Inv

\* The slot of a request that ends, in whatever way, is free again.
LEMMA SlotReturned ==
  ASSUME Inv, NEW c \in Calls, NEW s, s # "sending",
         pc[c] = "sending", pc' = [pc EXCEPT ![c] = s], free' = free + 1
  PROVE  SlotsConserved' /\ free' \in 0 .. MaxConcurrency
<1>1. Cardinality(InFlight') = Cardinality(InFlight) - 1
  BY InFlightChange DEF Inv
<1>2. Cardinality(InFlight) \in Nat /\ Cardinality(InFlight') \in Nat
  <2>1. InFlight \in SUBSET Calls /\ InFlight' \in SUBSET Calls
    BY DEF InFlight
  <2> QED
    BY <2>1, CallSetsFinite
<1> QED
  BY <1>1, <1>2, ConcurrencyAssumption DEF Inv, SlotsConserved, TypeOK

\* A call that is not in the queue leaves it alone.
LEMMA QueueUntouched ==
  ASSUME TypeOK, QueueIsWaiters, NEW c \in Calls, NEW s, pc[c] # "waiting",
         pc' = [pc EXCEPT ![c] = s], queue' = queue
  PROVE  QueueIsWaiters'
<1>1. \A i \in 1 .. Len(queue) : queue[i] \in Calls
  BY ElementOfSeq DEF TypeOK
<1> QED
  BY <1>1 DEF TypeOK, QueueIsWaiters

LEMMA BackoffIsDelay ==
  ASSUME NEW n, NEW hint \in Hints \cup {None}, NEW d \in Backoff(n, hint)
  PROVE  d \in Nat /\ (hint # None => d = hint /\ hint \in Nat)
BY CallsAssumption DEF Backoff

\* A request ends.
LEMMA AnswerKeepsInv ==
  ASSUME Inv, NEW c \in Calls, NEW a \in Answers, NEW hint \in Hints \cup {None},
         Answer(c, a, hint)
  PROVE  Inv'
<1>1. /\ pc[c] = "sending" /\ free' = free + 1
      /\ answer' = [answer EXCEPT ![c] = a]
      /\ UNCHANGED <<queue, attempt, sent>>
  BY DEF Answer, FreeAfter
<1>2. delay[c] = 0 /\ hold[c] = 0 /\ sent[c] = attempt[c] /\ attempt[c] \in 1 .. Attempts[c]
  BY <1>1 DEF Inv, LoopPosition, TypeOK
<1>3. CASE Retries(c, a)
  <2>1. PICK d \in Backoff(attempt[c], hint) : delay' = [delay EXCEPT ![c] = d]
    BY <1>3 DEF Answer
  <2>2. /\ pc' = [pc EXCEPT ![c] = "sleeping"]
        /\ hold' = [hold EXCEPT ![c] = IF hint = None THEN 0 ELSE hint]
    BY <1>3 DEF Answer
  <2>3. PICK h \in Nat : h <= d /\ d \in Nat /\ hold' = [hold EXCEPT ![c] = h]
    <3>1. d \in Nat /\ (hint # None => d = hint /\ hint \in Nat)
      BY BackoffIsDelay
    <3>2. (IF hint = None THEN 0 ELSE hint) \in Nat /\ (IF hint = None THEN 0 ELSE hint) <= d
      BY <3>1
    <3> QED
      BY <2>2, <3>1, <3>2
  <2>4. SlotsConserved' /\ free' \in 0 .. MaxConcurrency
    BY <1>1, <2>2, SlotReturned
  <2>5. TypeOK'
    BY <1>1, <2>1, <2>2, <2>3, <2>4 DEF Inv, TypeOK
  <2>6. QueueIsWaiters'
    BY <1>1, <2>2, QueueUntouched DEF Inv
  <2>7. LoopPosition'
    BY <1>1, <1>2, <1>3, <2>1, <2>2, <2>3 DEF Inv, LoopPosition, TypeOK, Retries
  <2> QED
    BY <2>4, <2>5, <2>6, <2>7 DEF Inv
<1>4. CASE ~Retries(c, a)
  <2>1. pc' = [pc EXCEPT ![c] = "ended"] /\ UNCHANGED <<delay, hold>>
    BY <1>4 DEF Answer
  <2>2. SlotsConserved' /\ free' \in 0 .. MaxConcurrency
    BY <1>1, <2>1, SlotReturned
  <2>3. TypeOK'
    BY <1>1, <2>1, <2>2 DEF Inv, TypeOK
  <2>4. QueueIsWaiters'
    BY <1>1, <2>1, QueueUntouched DEF Inv
  <2>5. a \in Retryable => attempt[c] = Attempts[c]
    BY <1>2, <1>4, CallsAssumption DEF Retries
  <2>6. LoopPosition'
    BY <1>1, <1>2, <2>1, <2>5 DEF Inv, LoopPosition, TypeOK
  <2> QED
    BY <2>2, <2>3, <2>4, <2>6 DEF Inv
<1> QED
  BY <1>3, <1>4

\* A call is cancelled at one of its three awaits.
LEMMA CancelKeepsInv ==
  ASSUME Inv, NEW c \in Calls, Cancel(c)
  PROVE  Inv'
<1>1. /\ pc[c] \in {"waiting", "sending", "sleeping"}
      /\ pc' = [pc EXCEPT ![c] = "cancelled"]
      /\ delay' = [delay EXCEPT ![c] = 0] /\ hold' = [hold EXCEPT ![c] = 0]
      /\ UNCHANGED <<attempt, answer, sent>>
  BY DEF Cancel
<1>2. queue' \in Seq(Calls) /\ QueueIsWaiters'
  <2>1. CASE pc[c] = "waiting"
    BY <1>1, <2>1, LeaveKeepsQueue DEF Cancel, Inv
  <2>2. CASE pc[c] # "waiting"
    BY <1>1, <2>2, QueueUntouched DEF Cancel, Inv, TypeOK
  <2> QED
    BY <2>1, <2>2
<1>3. SlotsConserved' /\ free' \in 0 .. MaxConcurrency
  <2>1. CASE pc[c] = "sending"
    BY <1>1, <2>1, SlotReturned DEF Cancel
  <2>2. CASE pc[c] # "sending"
    BY <1>1, <2>2, InFlightChange DEF Cancel, Inv, SlotsConserved, TypeOK
  <2> QED
    BY <2>1, <2>2
<1>4. TypeOK'
  BY <1>1, <1>2, <1>3 DEF Inv, TypeOK
<1>5. LoopPosition'
  BY <1>1 DEF Inv, LoopPosition, TypeOK
<1> QED
  BY <1>2, <1>3, <1>4, <1>5 DEF Inv

\* Time passes for everybody at once.
LEMMA TickKeepsInv ==
  ASSUME Inv, Tick
  PROVE  Inv'
<1>1. /\ delay' = Sooner(delay) /\ hold' = Sooner(hold)
      /\ UNCHANGED <<pc, queue, free, attempt, answer, sent>>
  BY DEF Tick
<1>2. /\ delay' \in [Calls -> Nat] /\ hold' \in [Calls -> Nat]
      /\ \A c \in Calls : /\ hold[c] <= delay[c] => hold'[c] <= delay'[c]
                          /\ delay[c] = 0 => delay'[c] = 0
  BY <1>1 DEF Inv, TypeOK, Sooner
<1>3. TypeOK'
  BY <1>1, <1>2 DEF Inv, TypeOK
<1>4. SlotsConserved' /\ QueueIsWaiters'
  BY <1>1 DEF Inv, SlotsConserved, QueueIsWaiters, InFlight
<1>5. LoopPosition'
  BY <1>1, <1>2 DEF Inv, LoopPosition
<1> QED
  BY <1>3, <1>4, <1>5 DEF Inv

\* The inductive invariant: one step per action.
THEOREM Invariant == Spec => []Inv
<1>1. Init => Inv
  BY InitInv
<1>2. Inv /\ [Next]_vars => Inv'
  <2> SUFFICES ASSUME Inv, [Next]_vars PROVE Inv'
    OBVIOUS
  <2>1. ASSUME NEW c \in Calls, Start(c) PROVE Inv'
    BY <2>1, StartKeepsInv
  <2>2. ASSUME NEW c \in Calls, Send(c) PROVE Inv'
    BY <2>2, SendKeepsInv
  <2>3. ASSUME NEW c \in Calls, Respond(c) PROVE Inv'
    BY <2>3, AnswerKeepsInv DEF Respond
  <2>4. ASSUME NEW c \in Calls, Wake(c) PROVE Inv'
    BY <2>4, WakeKeepsInv
  <2>5. ASSUME NEW c \in Calls, Cancel(c) PROVE Inv'
    BY <2>5, CancelKeepsInv
  <2>6. CASE Tick
    BY <2>6, TickKeepsInv
  <2>7. CASE UNCHANGED vars
    BY <2>7 DEF vars, hist, Inv, TypeOK, SlotsConserved, InFlight, QueueIsWaiters, LoopPosition
  <2> QED
    BY <2>1, <2>2, <2>3, <2>4, <2>5, <2>6, <2>7 DEF Next, Step
<1> QED
  BY <1>1, <1>2, PTL DEF Spec

\* TypeOK: in particular the semaphore never holds more than its slots, and the loop
\* variable of retry_async never passes its bound.
THEOREM TypeCorrect == Spec => []TypeOK
<1>1. Inv => TypeOK
  BY DEF Inv
<1> QED
  BY <1>1, Invariant, PTL

\* SlotsConserved: every request has one slot, and every other slot is free, whatever
\* fails or is cancelled at any await of http.py:73-75.
THEOREM SlotsAreConserved == Spec => []SlotsConserved
<1>1. Inv => SlotsConserved
  BY DEF Inv
<1> QED
  BY <1>1, Invariant, PTL

\* AttemptsSpent: no call sends more requests than max_attempts, and one that ends with a
\* retryable error has sent that many (retry.py:52-75).
THEOREM SpendsItsAttempts == Spec => []AttemptsSpent
<1>1. Inv => AttemptsSpent
  BY CallsAssumption DEF Inv, LoopPosition, TypeOK, AttemptsSpent
<1> QED
  BY <1>1, Invariant, PTL

\* SendsOnlyWhenAllowed: no request is sent while the server's delay runs, nor after an
\* answer that is not to be retried (retry.py:28-31, 57-60).
THEOREM WaitsAsAsked == Spec => SendsOnlyWhenAllowed
<1>1. ASSUME Inv, [Next]_vars
      PROVE  [\A c \in Calls : sent'[c] # sent[c] =>
                hold[c] = 0 /\ answer[c] \in Retryable \cup {None}]_vars
  <2> SUFFICES ASSUME NEW c \in Calls, sent'[c] # sent[c]
               PROVE  hold[c] = 0 /\ answer[c] \in Retryable \cup {None}
    OBVIOUS
  <2>1. PICK e \in Calls : Send(e)
    BY <1>1 DEF Next, Step, Start, Respond, Answer, Wake, Cancel, Tick, vars, hist
  <2>2. e = c
    BY <1>1, <2>1 DEF Send, Inv, TypeOK
  <2>3. pc[c] = "waiting"
    BY <1>1, <2>1, <2>2, SendKeepsQueue DEF Inv
  <2> QED
    BY <1>1, <2>3 DEF Inv, LoopPosition, TypeOK
<1> QED
  BY <1>1, Invariant, PTL DEF Spec, SendsOnlyWhenAllowed

-----------------------------------------------------------------------------
(* What EveryCallEnds rests on besides fairness: a waiting call keeps its  *)
(* place, somebody can always move, and a call moves finitely often.       *)

LEMMA JoinKeepsPlaces ==
  ASSUME TypeOK, Queued, NEW c \in Calls, Join(c)
  PROVE  Queued'
<1>1. /\ Len(queue') = Len(queue) + 1 /\ Len(queue) \in Nat
      /\ \A i \in 1 .. Len(queue) : queue'[i] = queue[i]
      /\ queue'[Len(queue) + 1] = c
      /\ pc' = [pc EXCEPT ![c] = "waiting"]
  BY AppendProperties, LenProperties DEF Join, TypeOK
<1>2. ASSUME NEW d \in Calls, pc'[d] = "waiting"
      PROVE  InQueue(d)'
  <2>1. CASE d = c
    <3>1. Len(queue) + 1 \in 1 .. Len(queue')
      BY <1>1
    <3> QED
      BY <1>1, <2>1, <3>1 DEF InQueue
  <2>2. CASE d # c
    <3>1. PICK i \in 1 .. Len(queue) : queue[i] = d
      BY <1>1, <1>2, <2>2 DEF TypeOK, Queued, InQueue
    <3>2. i \in 1 .. Len(queue') /\ queue'[i] = d
      BY <1>1, <3>1
    <3> QED
      BY <3>2 DEF InQueue
  <2> QED
    BY <2>1, <2>2
<1> QED
  BY <1>2 DEF Queued

LEMMA SendKeepsPlaces ==
  ASSUME TypeOK, Queued, NEW c \in Calls, Send(c)
  PROVE  Queued'
<1>1. queue # <<>> /\ Head(queue) = c /\ queue' = Tail(queue) /\ pc' = [pc EXCEPT ![c] = "sending"]
  BY DEF Send
<1>2. /\ Len(queue') = Len(queue) - 1 /\ \A i \in 1 .. Len(queue') : queue'[i] = queue[i + 1]
      /\ Len(queue) \in Nat \ {0} /\ queue[1] = c
  BY <1>1, HeadTailProperties, LenProperties, EmptySeq DEF TypeOK
<1>3. ASSUME NEW d \in Calls, pc'[d] = "waiting"
      PROVE  InQueue(d)'
  <2>1. d # c /\ pc[d] = "waiting"
    BY <1>1, <1>3 DEF TypeOK
  <2>2. PICK i \in 1 .. Len(queue) : queue[i] = d
    BY <2>1 DEF Queued, InQueue
  <2>3. i # 1
    BY <1>2, <2>1, <2>2
  <2>4. i - 1 \in 1 .. Len(queue') /\ i - 1 + 1 = i
    BY <1>2, <2>3
  <2>5. queue'[i - 1] = d
    BY <1>2, <2>2, <2>4
  <2> QED
    BY <2>4, <2>5 DEF InQueue
<1> QED
  BY <1>3 DEF Queued

\* No other step makes a call wait or moves one in the queue.
LEMMA PlacesStep ==
  ASSUME Inv, Queued, [Next]_vars
  PROVE  Queued'
<1>1. TypeOK /\ QueueIsWaiters
  BY DEF Inv
<1>2. ASSUME queue' = queue, \A d \in Calls : pc'[d] = "waiting" => pc[d] = "waiting"
      PROVE  Queued'
  BY <1>2 DEF Queued, InQueue
<1>3. ASSUME NEW c \in Calls, Start(c) \/ Wake(c)
      PROVE  Queued'
  BY <1>1, <1>3, JoinKeepsPlaces DEF Start, Wake
<1>4. ASSUME NEW c \in Calls, Send(c)
      PROVE  Queued'
  BY <1>1, <1>4, SendKeepsPlaces
<1>5. ASSUME NEW c \in Calls, Respond(c)
      PROVE  Queued'
  BY <1>1, <1>2, <1>5 DEF Respond, Answer, TypeOK
<1>6. ASSUME NEW c \in Calls, Cancel(c)
      PROVE  Queued'
  <2>1. pc' = [pc EXCEPT ![c] = "cancelled"]
    BY <1>6 DEF Cancel
  <2>2. \A d \in Calls : pc'[d] = "waiting" => d # c /\ pc[d] = "waiting"
    BY <1>1, <2>1 DEF TypeOK
  <2>3. CASE pc[c] = "waiting"
    <3>1. Leave(c)
      BY <1>6, <2>3 DEF Cancel
    <3>2. \A d \in Calls \ {c} : InQueue(d) => InQueue(d)'
      BY <1>1, <2>1, <3>1, LeaveKeepsQueue
    <3> QED
      BY <2>2, <3>2 DEF Queued
  <2>4. CASE pc[c] # "waiting"
    BY <1>2, <1>6, <2>2, <2>4 DEF Cancel
  <2> QED
    BY <2>3, <2>4
<1>7. CASE Tick \/ UNCHANGED vars
  BY <1>2, <1>7 DEF Tick, vars
<1> QED
  BY <1>3, <1>4, <1>5, <1>6, <1>7 DEF Next, Step

\* Somebody can move: while a call waits, the first of the queue has a slot, or a request is
\* on the wire; a call that sleeps wakes, or time can pass.
SomebodyMoves ==
  (\E c \in Calls : pc[c] = "waiting") =>
    \/ InFlight # {}
    \/ queue # <<>> /\ free > 0 /\ Head(queue) \in Calls /\ pc[Head(queue)] = "waiting"

\* A waiting call is in the queue until it is sent or cancelled, and the semaphore never
\* keeps all of its waiters waiting with nobody on the wire.
THEOREM NobodyIsForgotten == Spec => [](Queued /\ SomebodyMoves)
<1>1. Init => Queued
  BY DEF Init, Queued
<1>2. Inv /\ Queued /\ [Next]_vars => Queued'
  BY PlacesStep
<1>3. Inv /\ Queued => SomebodyMoves
  <2> SUFFICES ASSUME Inv, Queued, NEW c \in Calls, pc[c] = "waiting", InFlight = {}
               PROVE  queue # <<>> /\ free > 0 /\ Head(queue) \in Calls /\ pc[Head(queue)] = "waiting"
    BY DEF SomebodyMoves
  <2>1. queue # <<>>
    BY DEF Queued, InQueue
  <2>2. Cardinality(InFlight) = 0
    BY FS_EmptySet
  <2>3. free > 0
    BY <2>2, ConcurrencyAssumption DEF Inv, SlotsConserved, TypeOK
  <2>4. Head(queue) = queue[1] /\ 1 \in 1 .. Len(queue) /\ queue[1] \in Calls
    BY <2>1 DEF Inv, TypeOK
  <2> QED
    BY <2>1, <2>3, <2>4 DEF Inv, QueueIsWaiters
<1> QED
  BY <1>1, <1>2, <1>3, Invariant, PTL DEF Spec

\* The attempts a call has left, and how far it is within one.
AttemptsLeft == [c \in Calls |-> Attempts[c] - attempt[c]]

Rank ==
  [c \in Calls |->
     CASE pc[c] = "idle" -> 4 [] pc[c] = "waiting" -> 3 [] pc[c] = "sending" -> 2
       [] pc[c] = "sleeping" -> 1 [] OTHER -> 0]

Measured == AttemptsLeft \in [Calls -> Nat] /\ Rank \in [Calls -> Nat]

Nearer(c) ==
  \/ AttemptsLeft'[c] < AttemptsLeft[c]
  \/ AttemptsLeft'[c] = AttemptsLeft[c] /\ Rank'[c] < Rank[c]

Stays(c) == AttemptsLeft'[c] = AttemptsLeft[c] /\ Rank'[c] = Rank[c] /\ pc'[c] = pc[c]

\* A step of one call leaves the others where they are.
LEMMA NearerStep ==
  ASSUME Inv, Next
  PROVE  \A d \in Calls : Nearer(d) \/ Stays(d)
<1>0. /\ pc \in [Calls -> {"idle", "waiting", "sending", "sleeping", "ended", "cancelled"}]
      /\ attempt \in [Calls -> Nat] /\ Attempts \in [Calls -> Nat]
  BY CallsAssumption DEF Inv, TypeOK
<1> TAKE d \in Calls
<1>1. ASSUME pc'[d] = pc[d], attempt'[d] = attempt[d]
      PROVE  Stays(d)
  BY <1>1 DEF Stays, AttemptsLeft, Rank
<1>2. ASSUME attempt'[d] = attempt[d], Rank'[d] < Rank[d]
      PROVE  Nearer(d)
  BY <1>2 DEF Nearer, AttemptsLeft
<1>3. ASSUME NEW c \in Calls, Step(c)
      PROVE  Nearer(d) \/ Stays(d)
  <2>1. CASE d # c
    <3>1. pc'[d] = pc[d] /\ attempt'[d] = attempt[d]
      BY <1>0, <1>3, <2>1 DEF Step, Start, Send, Respond, Answer, Wake, Cancel, Join, hist
    <3> QED
      BY <1>1, <3>1
  <2>2. CASE d = c /\ Wake(c)
    <3>1. attempt'[d] = attempt[d] + 1
      BY <1>0, <2>2 DEF Wake
    <3>2. AttemptsLeft'[d] < AttemptsLeft[d]
      BY <1>0, <3>1 DEF AttemptsLeft
    <3> QED
      BY <3>2 DEF Nearer
  <2>3. CASE d = c /\ (Start(c) \/ Send(c) \/ Respond(c) \/ Cancel(c))
    <3>1. attempt'[d] = attempt[d]
      BY <2>3 DEF Start, Send, Respond, Answer, Cancel
    <3>2. \/ pc[d] = "idle" /\ pc'[d] = "waiting"
          \/ pc[d] = "waiting" /\ pc'[d] = "sending"
          \/ pc[d] = "sending" /\ pc'[d] \in {"sleeping", "ended"}
          \/ pc[d] \in {"waiting", "sending", "sleeping"} /\ pc'[d] = "cancelled"
      <4>1. CASE Start(c)
        BY <1>0, <2>3, <4>1 DEF Start, Join
      <4>2. CASE Send(c)
        <5>1. pc[c] = "waiting"
          BY <4>2, SendKeepsQueue DEF Inv
        <5> QED
          BY <1>0, <2>3, <4>2, <5>1 DEF Send
      <4>3. CASE Respond(c)
        BY <1>0, <2>3, <4>3 DEF Respond, Answer
      <4>4. CASE Cancel(c)
        BY <1>0, <2>3, <4>4 DEF Cancel
      <4> QED
        BY <2>3, <4>1, <4>2, <4>3, <4>4
    <3>3. Rank'[d] < Rank[d]
      BY <3>2 DEF Rank
    <3> QED
      BY <1>2, <3>1, <3>3
  <2> QED
    BY <1>3, <2>1, <2>2, <2>3 DEF Step
<1>4. CASE Tick
  BY <1>1, <1>4 DEF Tick
<1> QED
  BY <1>3, <1>4 DEF Next

\* A call takes finitely many steps, whatever the others do: each makes two natural numbers
\* of its own less, in the order of the first that changes, and no step of another makes
\* them more.
THEOREM EveryStepIsNearer ==
  Spec => []Measured /\ [][\A d \in Calls : Nearer(d) \/ Stays(d)]_vars
<1>1. Inv => Measured
  <2> SUFFICES ASSUME Inv PROVE Measured
    OBVIOUS
  <2>1. \A c \in Calls : attempt[c] \in Nat /\ Attempts[c] \in Nat /\ attempt[c] <= Attempts[c]
    BY CallsAssumption DEF Inv, TypeOK
  <2>2. \A c \in Calls : Attempts[c] - attempt[c] \in Nat
    BY <2>1
  <2> QED
    BY <2>2 DEF Measured, AttemptsLeft, Rank
<1>2. Inv /\ [Next]_vars => [\A d \in Calls : Nearer(d) \/ Stays(d)]_vars
  BY NearerStep
<1> QED
  BY <1>1, <1>2, Invariant, PTL DEF Spec
=============================================================================
