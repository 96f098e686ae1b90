------------------------- MODULE Allocation_proofs -------------------------
(***************************************************************************)
(* The allocation passes for any listings, targets, batches, page sizes    *)
(* and caps: what is asked, what is collected, and when a source is        *)
(* written off.                                                            *)
(***************************************************************************)
EXTENDS Allocation, FiniteSetTheorems, FunctionTheorems, TLAPS

-----------------------------------------------------------------------------
(* Counting.                                                               *)

\* A set of naturals has a least element.
LEMMA LeastElement ==
  ASSUME NEW S \in SUBSET Nat, S # {}
  PROVE  \E x \in S : \A y \in S : x <= y
<1> DEFINE R == OpToRel(<, Nat)
<1>1. IsWellFoundedOn(R, Nat)
  BY NatLessThanWellFounded
<1>2. \A a, b \in Nat : <<a, b>> \in R <=> a < b
  BY DEF OpToRel
<1> HIDE DEF R
<1>3. PICK x \in S : \A y \in S : <<y, x>> \notin R
  BY <1>1, WFMin
<1>4. \A y \in S : ~ (y < x)
  BY <1>2, <1>3
<1> QED
  BY <1>4

\* A map that tells the elements of S apart bounds their number, and when there are as
\* many as values it hits them all.
LEMMA Numbered ==
  ASSUME NEW S, NEW n \in Nat, NEW f \in [S -> 0 .. n - 1],
         \A d, e \in S : f[d] = f[e] => d = e
  PROVE  /\ IsFiniteSet(S) /\ Cardinality(S) \in Nat
         /\ Cardinality(S) <= n
         /\ Cardinality(S) >= n => \A m \in 0 .. n - 1 : \E e \in S : f[e] = m
<1>1. f \in Injection(S, 0 .. n - 1)
  BY Fun_IsInj
<1>2. IsFiniteSet(0 .. n - 1) /\ Cardinality(0 .. n - 1) = n
  BY FS_Interval
<1>3. /\ IsFiniteSet(S)
      /\ Cardinality(S) <= n
      /\ Cardinality(S) = n <=> f \in Surjection(S, 0 .. n - 1)
  BY <1>1, <1>2, FS_Injection
<1>4. Cardinality(S) \in Nat
  BY <1>3, FS_CardinalityType
<1>5. ASSUME f \in Surjection(S, 0 .. n - 1), NEW m \in 0 .. n - 1
      PROVE  \E e \in S : f[e] = m
  BY <1>5 DEF Surjection
<1> QED
  BY <1>3, <1>4, <1>5

\* As a fact about one number: it is that of some element.
Numbers(f, S, n) ==
  n \in Nat /\ f \in [S -> 0 .. n - 1] /\ \A d, e \in S : f[d] = f[e] => d = e
Hits(f, S, m) == \E e \in S : f[e] = m

LEMMA NumberedHits ==
  ASSUME NEW S, NEW n, NEW f, Numbers(f, S, n), n = Cardinality(S), NEW m \in 0 .. n - 1
  PROVE  Hits(f, S, m)
<1> USE DEF Numbers, Hits
<1>1. Cardinality(S) >= n
  OBVIOUS
<1>2. Cardinality(S) >= n => \A k \in 0 .. n - 1 : \E e \in S : f[e] = k
  BY Numbered
<1> QED
  BY <1>1, <1>2

\* The other way round: a set in which every number below n is found has n elements.
LEMMA NumberedOnto ==
  ASSUME NEW S, IsFiniteSet(S), NEW n \in Nat, NEW f,
         \A m \in 0 .. n - 1 : \E e \in S : f[e] = m
  PROVE  Cardinality(S) \in Nat /\ Cardinality(S) >= n
<1> DEFINE g == [m \in 0 .. n - 1 |-> CHOOSE e \in S : f[e] = m]
<1>1. \A m \in 0 .. n - 1 : g[m] \in S /\ f[g[m]] = m
  OBVIOUS
<1>2. g \in [0 .. n - 1 -> S]
  BY <1>1
<1>3. \A a, b \in 0 .. n - 1 : g[a] = g[b] => a = b
  <2> TAKE a, b \in 0 .. n - 1
  <2> HAVE g[a] = g[b]
  <2> QED
    BY <1>1
<1> HIDE DEF g
<1>4. g \in Injection(0 .. n - 1, S)
  BY <1>2, <1>3, Fun_IsInj
<1>5. Cardinality(0 .. n - 1) = n
  BY FS_Interval
<1> QED
  BY <1>4, <1>5, FS_Injection, FS_CardinalityType

\* The values of a function on a finite set are no more than the elements.
LEMMA Image ==
  ASSUME NEW S, IsFiniteSet(S), NEW T, NEW f, T = {f[x] : x \in S}
  PROVE  IsFiniteSet(T) /\ Cardinality(T) \in Nat /\ Cardinality(T) <= Cardinality(S)
<1> DEFINE g == [x \in S |-> f[x]]
<1>1. g \in Surjection(S, T)
  BY DEF Surjection
<1> HIDE DEF g
<1>2. IsFiniteSet(T) /\ Cardinality(T) <= Cardinality(S)
  BY <1>1, FS_Surjection
<1> QED
  BY <1>2, FS_CardinalityType

Rank(S, i) == Cardinality({j \in S : j < i})

\* Ranks grow with the element, and stay below the number of elements.
LEMMA RankGrows ==
  ASSUME NEW S \in SUBSET Nat, IsFiniteSet(S), NEW i \in S
  PROVE  /\ Rank(S, i) \in Nat /\ Cardinality(S) \in Nat
         /\ Rank(S, i) < Cardinality(S)
         /\ \A j \in S : j < i => Rank(S, j) \in Nat /\ Rank(S, j) < Rank(S, i)
<1>1. \A T \in SUBSET S : IsFiniteSet(T) /\ Cardinality(T) \in Nat
  BY FS_Subset, FS_CardinalityType
<1>2. ASSUME NEW T \in SUBSET S, NEW U \in SUBSET S, T \subseteq U, NEW x \in U, x \notin T
      PROVE  Cardinality(T) < Cardinality(U)
  <2>1. IsFiniteSet(U) /\ Cardinality(U) \in Nat /\ Cardinality(T) \in Nat
    BY <1>1
  <2>2. Cardinality(T) <= Cardinality(U) /\ (Cardinality(U) = Cardinality(T) => U = T)
    BY <1>2, <2>1, FS_Subset
  <2> QED
    BY <1>2, <2>1, <2>2
<1>3. Rank(S, i) < Cardinality(S)
  BY <1>2 DEF Rank
<1>4. ASSUME NEW j \in S, j < i
      PROVE  Rank(S, j) \in Nat /\ Rank(S, j) < Rank(S, i)
  <2> DEFINE T == {k \in S : k < j}
             U == {k \in S : k < i}
  <2>1. ~ (j < j) /\ \A k \in S : k < j => k < i
    BY <1>4
  <2>2. T \in SUBSET S /\ U \in SUBSET S /\ T \subseteq U /\ j \in U /\ j \notin T
    BY <1>4, <2>1
  <2> QED
    BY <1>1, <1>2, <2>2 DEF Rank
<1> QED
  BY <1>1, <1>3, <1>4 DEF Rank

\* So every rank belongs to one element.
LEMMA RankIsOneToOne ==
  ASSUME NEW S \in SUBSET Nat, IsFiniteSet(S)
  PROVE  /\ \A i, j \in S : Rank(S, i) = Rank(S, j) => i = j
         /\ \A m \in Nat : m < Cardinality(S) => \E i \in S : Rank(S, i) = m
<1>1. \A i, j \in S : Rank(S, i) = Rank(S, j) => i = j
  <2> TAKE i, j \in S
  <2>1. i < j => Rank(S, i) < Rank(S, j) /\ Rank(S, i) \in Nat
    BY RankGrows
  <2>2. j < i => Rank(S, j) < Rank(S, i) /\ Rank(S, j) \in Nat
    BY RankGrows
  <2>3. Rank(S, i) \in Nat /\ Rank(S, j) \in Nat
    BY RankGrows
  <2> QED
    BY <2>1, <2>2, <2>3
<1>2. ASSUME NEW m \in Nat, m < Cardinality(S)
      PROVE  \E i \in S : Rank(S, i) = m
  <2> DEFINE f == [i \in S |-> Rank(S, i)]
         n == Cardinality(S)
  <2>1. n \in Nat
    BY FS_CardinalityType
  <2>2. \A i \in S : Rank(S, i) \in 0 .. n - 1
    BY <2>1, RankGrows
  <2>3. f \in [S -> 0 .. n - 1]
    BY <2>2
  <2>4. \A i, j \in S : f[i] = f[j] => i = j
    BY <1>1
  <2>5. n = Cardinality(S) /\ m \in 0 .. n - 1
    BY <1>2, <2>1
  <2> HIDE DEF f, n
  <2>6. Numbers(f, S, n)
    BY <2>1, <2>3, <2>4 DEF Numbers
  <2>7. Hits(f, S, m)
    BY <2>5, <2>6, NumberedHits
  <2>8. PICK i \in S : f[i] = m
    BY <2>7 DEF Hits
  <2> QED
    BY <2>8 DEF f
<1> QED
  BY <1>1, <1>2

-----------------------------------------------------------------------------
(* Pages.                                                                  *)

LEMMA Sizes == /\ PageSize \in Nat \ {0} /\ MaxHits \in Nat \ {0}
               /\ MaxPaged \in Nat \ {0} /\ MaxPages \in Nat \ {0}
               /\ MaxPages * PageSize \in Nat
<1>1. PageSize \in Nat \ {0} /\ MaxHits \in Nat \ {0} /\ MaxPaged \in Nat \ {0} /\ MaxPages \in Nat \ {0}
  BY BoundsAssumption
<1>2. \A a, b \in Nat : a * b \in Nat
  OBVIOUS
<1> QED
  BY <1>1, <1>2

LEMMA Multiples ==
  ASSUME NEW j \in Nat, NEW k \in Nat, NEW s \in Nat
  PROVE  /\ k * s \in Nat /\ (k + 1) * s = k * s + s
         /\ j <= k => j * s <= k * s
         /\ j < k => j * s + s <= k * s
<1>1. k * s \in Nat /\ (k + 1) * s = k * s + s
  OBVIOUS
<1>2. j <= k => j * s <= k * s
  OBVIOUS
<1>3. (j + 1) * s = j * s + s
  OBVIOUS
<1>4. j + 1 <= k => (j + 1) * s <= k * s
  OBVIOUS
<1> QED
  BY <1>1, <1>2, <1>3, <1>4

\* Every number is on one page.
LEMMA PageOf ==
  ASSUME NEW m \in Nat
  PROVE  \E k \in Nat : k * PageSize <= m /\ m < k * PageSize + PageSize
<1>1. PageSize \in Nat \ {0}
  BY Sizes
<1> DEFINE k == m \div PageSize
<1>2. k \in Nat
  BY <1>1
<1>3. m = PageSize * k + (m % PageSize) /\ m % PageSize \in 0 .. PageSize - 1
  BY <1>1
<1>4. k * PageSize = PageSize * k /\ k * PageSize \in Nat
  BY <1>1, <1>2
<1>5. PICK r \in 0 .. PageSize - 1 : m = PageSize * k + r
  BY <1>3
<1>6. k * PageSize <= m /\ m < k * PageSize + PageSize
  <2> HIDE DEF k
  <2> QED
    BY <1>1, <1>4, <1>5
<1> QED
  BY <1>2, <1>6

\* The pages of n records are the ones that begin below n.
LEMMA PageNumbersBelow ==
  ASSUME NEW n \in Nat
  PROVE  \A k : k \in PageNumbers(n) <=> k \in Nat /\ k * PageSize < n
<1>1. PageSize \in Nat \ {0}
  BY Sizes
<1> DEFINE q == CeilDiv(n, PageSize)
<1>2. q \in Nat /\ q * PageSize >= n /\ (q = 0 \/ (q - 1) * PageSize < n)
  <2> DEFINE a == n + PageSize - 1
  <2>1. a \in Nat /\ a \div PageSize \in Nat
    BY <1>1
  <2>2. a = PageSize * (a \div PageSize) + (a % PageSize) /\ a % PageSize \in 0 .. PageSize - 1
    BY <1>1, <2>1
  <2> HIDE DEF a
  <2>3. q = a \div PageSize
    BY DEF CeilDiv, a
  <2>4. q * PageSize = PageSize * (a \div PageSize) /\ (q - 1) * PageSize = q * PageSize - PageSize
    BY <1>1, <2>1, <2>3
  <2>5. a = n + PageSize - 1
    BY DEF a
  <2> QED
    BY <1>1, <2>1, <2>2, <2>3, <2>4, <2>5
<1> HIDE DEF q
<1>3. ASSUME NEW k \in Nat
      PROVE  k < q <=> k * PageSize < n
  <2>1. k < q => k * PageSize <= (q - 1) * PageSize /\ q # 0 /\ k * PageSize \in Nat /\ (q - 1) * PageSize \in Nat
    BY <1>1, <1>2, Multiples
  <2>2. q <= k => q * PageSize <= k * PageSize /\ k * PageSize \in Nat /\ q * PageSize \in Nat
    BY <1>1, <1>2, Multiples
  <2>3. (q - 1) * PageSize \in Int
    BY <1>1, <1>2
  <2> QED
    BY <1>2, <2>1, <2>2, <2>3
<1>4. n = 0 => \A k \in Nat : ~ (k * PageSize < n)
  BY <1>1, Multiples
<1>5. \A k : k \in 0 .. q - 1 <=> k \in Nat /\ k < q
  BY <1>2
<1> QED
  BY <1>3, <1>4, <1>5 DEF PageNumbers, q

\* The last of them is as long as is left.
LEMMA OnPageFits ==
  ASSUME NEW n \in Nat, NEW k \in PageNumbers(n)
  PROVE  /\ k \in Nat /\ k * PageSize \in Nat
         /\ OnPage(k, n) \in 1 .. PageSize
         /\ k * PageSize + OnPage(k, n) <= n
         /\ \A m \in Nat : k * PageSize <= m /\ m < n /\ m < k * PageSize + PageSize
              => m < k * PageSize + OnPage(k, n)
         /\ (k + 1) * PageSize < n => OnPage(k, n) = PageSize
<1>1. PageSize \in Nat \ {0}
  BY Sizes
<1>2. k \in Nat /\ k * PageSize < n
  BY PageNumbersBelow
<1>3. k * PageSize \in Nat /\ (k + 1) * PageSize = k * PageSize + PageSize
  BY <1>1, <1>2, Multiples
<1> QED
  BY <1>1, <1>2, <1>3 DEF OnPage, Least

\* A page as discover() yields it.
PageType == [from : Nat, upto : Nat, emitted : Nat, limit : Nat]

\* The numbers of the records a page is asked for.
Slots(page) == page.emitted .. page.emitted + page.limit - 1

LEMMA IntervalSize ==
  ASSUME NEW a \in Nat, NEW n \in Nat
  PROVE  IsFiniteSet(a + 1 .. a + n) /\ Cardinality(a + 1 .. a + n) = n
<1>1. a + 1 \in Int /\ a + n \in Int
  OBVIOUS
<1>2. /\ IsFiniteSet(a + 1 .. a + n)
      /\ Cardinality(a + 1 .. a + n) = IF a + 1 > a + n THEN 0 ELSE (a + n) - (a + 1) + 1
  BY <1>1, FS_Interval, Zenon
<1> QED
  BY <1>2

LEMMA PageFields ==
  \A p : \A from, upto, emitted, limit \in Nat :
    p = Page(from, upto, emitted, limit) =>
      /\ p \in PageType
      /\ p.from = from /\ p.upto = upto /\ p.emitted = emitted /\ p.limit = limit
BY DEF Page, PageType

\* Pages that begin at different multiples of the page size do not overlap.
LEMMA AlignedPagesAreApart ==
  ASSUME NEW p \in PageType, NEW q \in PageType, NEW j \in Nat, NEW k \in Nat, j # k,
         p.emitted = j * PageSize, p.limit <= PageSize,
         q.emitted = k * PageSize, q.limit <= PageSize
  PROVE  Slots(p) \cap Slots(q) = {}
<1>1. PageSize \in Nat
  BY Sizes
<1>2. p.emitted \in Nat /\ p.limit \in Nat /\ q.emitted \in Nat /\ q.limit \in Nat
  BY DEF PageType
<1>3. j < k => p.emitted + PageSize <= q.emitted
  BY <1>1, Multiples
<1>4. k < j => q.emitted + PageSize <= p.emitted
  BY <1>1, Multiples
<1>5. j < k \/ k < j
  OBVIOUS
<1> QED
  BY <1>1, <1>2, <1>3, <1>4, <1>5 DEF Slots

LEMMA ExactPage ==
  ASSUME NEW n \in Nat, NEW p \in ExactPages(n)
  PROVE  /\ p \in PageType
         /\ \E k \in PageNumbers(n) :
              /\ p.from = k * PageSize /\ p.emitted = k * PageSize /\ p.limit = PageSize
              /\ p.upto = k * PageSize + OnPage(k, n)
<1>1. PICK k \in PageNumbers(n) : p = Page(k * PageSize, k * PageSize + OnPage(k, n), k * PageSize, PageSize)
  BY DEF ExactPages
<1>2. k * PageSize \in Nat /\ OnPage(k, n) \in Nat /\ PageSize \in Nat
  BY OnPageFits, Sizes
<1>3. k * PageSize + OnPage(k, n) \in Nat
  BY <1>2
<1>4. /\ p \in PageType
      /\ p.from = k * PageSize /\ p.emitted = k * PageSize /\ p.limit = PageSize
      /\ p.upto = k * PageSize + OnPage(k, n)
  <2> DEFINE a == k * PageSize
             b == k * PageSize + OnPage(k, n)
             c == k * PageSize
             d == PageSize
  <2>1. p = Page(a, b, c, d) /\ a \in Nat /\ b \in Nat /\ c \in Nat /\ d \in Nat
    BY <1>1, <1>2, <1>3
  <2> HIDE DEF a, b, c, d
  <2>2. p \in PageType /\ p.from = a /\ p.upto = b /\ p.emitted = c /\ p.limit = d
    BY <2>1, PageFields
  <2> QED
    BY <2>2 DEF a, b, c, d
<1> QED
  BY <1>4

LEMMA ShrinkingPage ==
  ASSUME NEW n \in Nat, NEW p \in ShrinkingPages(n)
  PROVE  /\ p \in PageType
         /\ \E k \in PageNumbers(n) :
              /\ p.from = k * OnPage(k, n) /\ p.emitted = k * PageSize /\ p.limit = PageSize
              /\ p.upto = k * OnPage(k, n) + OnPage(k, n)
<1>1. PICK k \in PageNumbers(n) : p = Page(k * OnPage(k, n), (k + 1) * OnPage(k, n), k * PageSize, PageSize)
  BY DEF ShrinkingPages
<1>2. k \in Nat /\ k * PageSize \in Nat /\ OnPage(k, n) \in Nat /\ PageSize \in Nat
  BY OnPageFits, Sizes
<1>3. k * OnPage(k, n) \in Nat /\ (k + 1) * OnPage(k, n) = k * OnPage(k, n) + OnPage(k, n)
  BY <1>2, Multiples
<1>4. (k + 1) * OnPage(k, n) \in Nat
  BY <1>2, <1>3
<1>5. /\ p \in PageType
      /\ p.from = k * OnPage(k, n) /\ p.emitted = k * PageSize /\ p.limit = PageSize
      /\ p.upto = (k + 1) * OnPage(k, n)
  <2> DEFINE a == k * OnPage(k, n)
             b == (k + 1) * OnPage(k, n)
             c == k * PageSize
             d == PageSize
  <2>1. p = Page(a, b, c, d) /\ a \in Nat /\ b \in Nat /\ c \in Nat /\ d \in Nat
    BY <1>1, <1>2, <1>3, <1>4
  <2> HIDE DEF a, b, c, d
  <2>2. p \in PageType /\ p.from = a /\ p.upto = b /\ p.emitted = c /\ p.limit = d
    BY <2>1, PageFields
  <2> QED
    BY <2>2 DEF a, b, c, d
<1> QED
  BY <1>3, <1>5

LEMMA TrimmedPage ==
  ASSUME NEW n \in Nat, NEW p \in TrimmedPages(n)
  PROVE  /\ p \in PageType
         /\ \E k \in PageNumbers(n) :
              /\ p.from = k * PageSize /\ p.emitted = k * PageSize /\ p.limit = OnPage(k, n)
              /\ p.upto = k * PageSize + PageSize
<1>1. PICK k \in PageNumbers(n) : p = Page(k * PageSize, (k + 1) * PageSize, k * PageSize, OnPage(k, n))
  BY DEF TrimmedPages
<1>2. k \in Nat /\ k * PageSize \in Nat /\ OnPage(k, n) \in Nat /\ PageSize \in Nat
  BY OnPageFits, Sizes
<1>3. (k + 1) * PageSize = k * PageSize + PageSize /\ (k + 1) * PageSize \in Nat
  BY <1>2, Multiples
<1>4. /\ p \in PageType
      /\ p.from = k * PageSize /\ p.emitted = k * PageSize /\ p.limit = OnPage(k, n)
      /\ p.upto = (k + 1) * PageSize
  <2> DEFINE a == k * PageSize
             b == (k + 1) * PageSize
             c == k * PageSize
             d == OnPage(k, n)
  <2>1. p = Page(a, b, c, d) /\ a \in Nat /\ b \in Nat /\ c \in Nat /\ d \in Nat
    BY <1>1, <1>2, <1>3
  <2> HIDE DEF a, b, c, d
  <2>2. p \in PageType /\ p.from = a /\ p.upto = b /\ p.emitted = c /\ p.limit = d
    BY <2>1, PageFields
  <2> QED
    BY <2>2 DEF a, b, c, d
<1> QED
  BY <1>3, <1>4

-----------------------------------------------------------------------------
(* The batches of Y Combinator.                                            *)

ListingType == listing \in [Sources -> Seq(Urls \cup {Malformed})]

LEMMA BatchesAre ==
  ASSUME ListingType
  PROVE  /\ Len(listing["yc"]) \in Nat
         /\ \A p \in Batches :
              /\ p.start \in Nat /\ p.len \in Nat \ {0} /\ p.start + p.len <= Len(listing["yc"])
              /\ Places(p) \in SUBSET Nat /\ Places(p) \in SUBSET (1 .. Len(listing["yc"]))
              /\ \A i : i \in Places(p) <=>
                   i \in Nat /\ p.start < i /\ i <= p.start + p.len /\ i <= p.start + MaxHits
         /\ \A p, q \in Batches : p = q \/ p.start + p.len <= q.start \/ q.start + q.len <= p.start
<1>1. Len(listing["yc"]) \in Nat
  BY DEF ListingType, Sources
<1>2. ASSUME NEW p \in Batches
      PROVE  \E q \in Parts : /\ q.start < Len(listing["yc"]) /\ q \in [start : Nat, len : Nat \ {0}]
                              /\ p = [q EXCEPT !.len = Least(q.len, Len(listing["yc"]) - q.start)]
                              /\ p.start = q.start /\ p.len = Least(q.len, Len(listing["yc"]) - q.start)
                              /\ p.start \in Nat /\ p.len \in Nat \ {0} /\ p.len <= q.len
                              /\ p.start + p.len <= Len(listing["yc"])
  <2>1. PICK q \in Parts : /\ q.start < Len(listing["yc"])
                           /\ p = [q EXCEPT !.len = Least(q.len, Len(listing["yc"]) - q.start)]
    BY DEF Batches
  <2>2. q \in [start : Nat, len : Nat \ {0}]
    BY BoundsAssumption
  <2>3. p.start = q.start /\ p.len = Least(q.len, Len(listing["yc"]) - q.start)
    BY <2>1, <2>2
  <2> DEFINE len == Len(listing["yc"])
             left == Least(q.len, len - q.start)
  <2>4. q.start \in Nat /\ q.len \in Nat \ {0} /\ len \in Nat /\ q.start < len
    BY <1>1, <2>1, <2>2
  <2>5. left \in Nat \ {0} /\ left <= q.len /\ q.start + left <= len
    <3> HIDE DEF len
    <3> QED
      BY <2>4 DEF Least
  <2> HIDE DEF len, left
  <2> QED
    BY <2>1, <2>2, <2>3, <2>4, <2>5 DEF len, left
<1>3. ASSUME NEW p \in Batches
      PROVE  /\ p.start \in Nat /\ p.len \in Nat \ {0} /\ p.start + p.len <= Len(listing["yc"])
             /\ Places(p) \in SUBSET Nat /\ Places(p) \in SUBSET (1 .. Len(listing["yc"]))
             /\ \A i : i \in Places(p) <=>
                  i \in Nat /\ p.start < i /\ i <= p.start + p.len /\ i <= p.start + MaxHits
  <2> DEFINE a == p.start
             n == p.len
             len == Len(listing["yc"])
  <2>1. a \in Nat /\ n \in Nat \ {0} /\ len \in Nat /\ a + n <= len
    BY <1>1, <1>2
  <2>2. Places(p) = a + 1 .. a + Least(n, MaxHits)
    BY DEF Places
  <2> HIDE DEF a, n, len
  <2>3. \A i : i \in Places(p) <=> i \in Nat /\ a < i /\ i <= a + n /\ i <= a + MaxHits
    BY <2>1, <2>2, Sizes DEF Least
  <2>4. \A i \in Places(p) : i \in Nat /\ i \in 1 .. len
    BY <2>1, <2>3
  <2> QED
    BY <2>1, <2>3, <2>4 DEF a, n, len
<1>4. ASSUME NEW p \in Batches, NEW q \in Batches
      PROVE  p = q \/ p.start + p.len <= q.start \/ q.start + q.len <= p.start
  <2>1. PICK a \in Parts : /\ p = [a EXCEPT !.len = Least(a.len, Len(listing["yc"]) - a.start)]
                           /\ p.start = a.start /\ p.len <= a.len /\ a \in [start : Nat, len : Nat \ {0}]
    BY <1>2
  <2>2. PICK b \in Parts : /\ q = [b EXCEPT !.len = Least(b.len, Len(listing["yc"]) - b.start)]
                           /\ q.start = b.start /\ q.len <= b.len /\ b \in [start : Nat, len : Nat \ {0}]
    BY <1>2
  <2>3. a = b \/ a.start + a.len <= b.start \/ b.start + b.len <= a.start
    BY BoundsAssumption
  <2>4. CASE a = b
    BY <2>1, <2>2, <2>4
  <2>5. ASSUME NEW x \in Batches, NEW y \in Batches, NEW c \in Nat, NEW d \in Nat,
               x.start + c <= y.start, x.len <= d, d <= c
        PROVE  x.start + x.len <= y.start
    BY <1>3, <2>5
  <2>6. CASE a.start + a.len <= b.start
    BY <2>1, <2>2, <2>5, <2>6
  <2>7. CASE b.start + b.len <= a.start
    BY <2>1, <2>2, <2>5, <2>7
  <2> QED
    BY <2>3, <2>4, <2>6, <2>7
<1> QED
  BY <1>1, <1>3, <1>4

\* The records that the queries return, and how many come before a place of a batch.
LEMMA Ranks ==
  ASSUME ListingType
  PROVE  /\ Returned \in SUBSET Nat /\ IsFiniteSet(Returned) /\ Cardinality(Returned) \in Nat
         /\ \A p \in Batches :
              /\ Emitted(p) \in Nat
              /\ Cardinality(Places(p)) = Least(p.len, MaxHits)
              /\ \A i \in Places(p) : Rank(Returned, i) = Emitted(p) + (i - p.start - 1)
              /\ Emitted(p) + Cardinality(Places(p)) <= Cardinality(Returned)
         /\ \A p, q \in Batches :
              p.start < q.start => Emitted(p) + Cardinality(Places(p)) <= Emitted(q)
<1>1. Returned \in SUBSET (1 .. Len(listing["yc"])) /\ Len(listing["yc"]) \in Nat
  BY BatchesAre DEF Returned
<1>2. IsFiniteSet(1 .. Len(listing["yc"]))
  BY <1>1, FS_Interval
<1>3. /\ IsFiniteSet(Returned) /\ Cardinality(Returned) \in Nat /\ Returned \in SUBSET Nat
      /\ \A S \in SUBSET Returned : /\ IsFiniteSet(S) /\ Cardinality(S) \in Nat
                                    /\ Cardinality(S) <= Cardinality(Returned)
  <2>1. IsFiniteSet(Returned) /\ Cardinality(Returned) \in Nat
    BY <1>1, <1>2, FS_Subset, FS_CardinalityType
  <2>2. ASSUME NEW S \in SUBSET Returned
        PROVE  IsFiniteSet(S) /\ Cardinality(S) \in Nat /\ Cardinality(S) <= Cardinality(Returned)
    BY <2>1, FS_Subset, FS_CardinalityType
  <2> QED
    BY <1>1, <2>1, <2>2
<1> DEFINE Till(i) == {j \in Returned : j <= i}
<1>4. ASSUME NEW p \in Batches, NEW n \in Nat, n <= p.len, n <= MaxHits
      PROVE  /\ Cardinality(Till(p.start) \cup (p.start + 1 .. p.start + n)) = Emitted(p) + n
             /\ p.start + 1 .. p.start + n \in SUBSET Places(p)
             /\ {j \in Returned : j < p.start + n + 1} = Till(p.start) \cup (p.start + 1 .. p.start + n)
  <2>1. p.start \in Nat /\ Places(p) \in SUBSET Returned
    BY BatchesAre DEF Returned
  <2>2. p.start + 1 .. p.start + n \in SUBSET Places(p)
    <3> SUFFICES ASSUME NEW i \in p.start + 1 .. p.start + n
                 PROVE  i \in Places(p)
      OBVIOUS
    <3>1. p.len \in Nat /\ MaxHits \in Nat
      BY BatchesAre, Sizes
    <3>2. i \in Nat /\ p.start < i /\ i <= p.start + p.len /\ i <= p.start + MaxHits
      BY <1>4, <2>1, <3>1
    <3> QED
      BY <3>2, BatchesAre
  <2>3. IsFiniteSet(p.start + 1 .. p.start + n) /\ Cardinality(p.start + 1 .. p.start + n) = n
    BY <2>1, IntervalSize
  <2>4. Till(p.start) \cap (p.start + 1 .. p.start + n) = {}
    BY <2>1
  <2>5. Cardinality(Till(p.start)) = Emitted(p) /\ Till(p.start) \in SUBSET Returned
    BY DEF Emitted
  <2>6. Cardinality(Till(p.start) \cup (p.start + 1 .. p.start + n)) = Emitted(p) + n
    <3> HIDE DEF Till
    <3>1. Cardinality({}) = 0
      BY FS_EmptySet
    <3>2. IsFiniteSet(Till(p.start)) /\ Emitted(p) \in Nat
      BY <1>3, <2>5
    <3>3. Cardinality(Till(p.start) \cup (p.start + 1 .. p.start + n)) =
            Cardinality(Till(p.start)) + Cardinality(p.start + 1 .. p.start + n)
              - Cardinality(Till(p.start) \cap (p.start + 1 .. p.start + n))
      BY <2>3, <3>2, FS_Union
    <3>4. Cardinality(Till(p.start) \cap (p.start + 1 .. p.start + n)) = 0
      BY <2>4, <3>1
    <3> QED
      BY <2>3, <2>5, <3>2, <3>3, <3>4
  <2>7. {j \in Returned : j < p.start + n + 1} = Till(p.start) \cup (p.start + 1 .. p.start + n)
    <3>1. \A j \in Returned : j < p.start + n + 1 <=> j <= p.start \/ j \in p.start + 1 .. p.start + n
      BY <1>3, <2>1
    <3> QED
      BY <2>1, <2>2, <3>1
  <2> QED
    BY <2>2, <2>6, <2>7
<1>5. ASSUME NEW p \in Batches
      PROVE  /\ Emitted(p) \in Nat
             /\ Cardinality(Places(p)) = Least(p.len, MaxHits)
             /\ \A i \in Places(p) : Rank(Returned, i) = Emitted(p) + (i - p.start - 1)
             /\ Emitted(p) + Cardinality(Places(p)) <= Cardinality(Returned)
  <2>1. p.start \in Nat /\ p.len \in Nat /\ MaxHits \in Nat
    BY BatchesAre, Sizes
  <2>2. Least(p.len, MaxHits) \in Nat /\ Least(p.len, MaxHits) <= p.len /\ Least(p.len, MaxHits) <= MaxHits
    BY <2>1 DEF Least
  <2>3. Cardinality(Places(p)) = Least(p.len, MaxHits)
    BY <2>1, <2>2, IntervalSize DEF Places
  <2>4. Emitted(p) \in Nat
    BY <1>3 DEF Emitted
  <2>5. ASSUME NEW i \in Places(p)
        PROVE  Rank(Returned, i) = Emitted(p) + (i - p.start - 1)
    <3> DEFINE n == i - p.start - 1
    <3>1. n \in Nat /\ n <= p.len /\ n <= MaxHits /\ p.start + n + 1 = i
      <4> DEFINE a == p.start
                 m == p.len
      <4>1. /\ a \in Nat /\ m \in Nat /\ MaxHits \in Nat /\ i \in Nat /\ n = i - a - 1
            /\ a < i /\ i <= a + m /\ i <= a + MaxHits
        BY <2>1, <2>5, BatchesAre
      <4> HIDE DEF n, a, m
      <4>2. n \in Nat /\ n <= m /\ n <= MaxHits /\ a + n + 1 = i
        BY <4>1
      <4> QED
        BY <4>2 DEF a, m
    <3> HIDE DEF n
    <3>2. Rank(Returned, i) = Emitted(p) + n
      BY <1>4, <3>1 DEF Rank
    <3> QED
      BY <3>2 DEF n
  <2>6. Emitted(p) + Cardinality(Places(p)) <= Cardinality(Returned)
    <3> DEFINE n == Least(p.len, MaxHits)
               S == Till(p.start) \cup (p.start + 1 .. p.start + n)
    <3>1. S \in SUBSET Returned
      BY <1>4, <2>2, BatchesAre DEF Returned
    <3>2. Cardinality(S) = Emitted(p) + n
      BY <1>4, <2>2
    <3> QED
      BY <1>3, <2>3, <3>1, <3>2
  <2> QED
    BY <2>3, <2>4, <2>5, <2>6
<1>6. ASSUME NEW p \in Batches, NEW q \in Batches, p.start < q.start
      PROVE  Emitted(p) + Cardinality(Places(p)) <= Emitted(q)
  <2> DEFINE n == Least(p.len, MaxHits)
             S == Till(p.start) \cup (p.start + 1 .. p.start + n)
  <2>1. /\ p.start \in Nat /\ p.len \in Nat \ {0} /\ q.start \in Nat /\ q.len \in Nat \ {0} /\ MaxHits \in Nat
        /\ p.start + p.len <= q.start \/ q.start + q.len <= p.start
    BY <1>6, BatchesAre, Sizes
  <2>2. p.start + p.len <= q.start
    BY <1>6, <2>1
  <2>3. n \in Nat /\ n <= p.len /\ n <= MaxHits
    BY <2>1 DEF Least
  <2>4. Cardinality(S) = Emitted(p) + n /\ p.start + 1 .. p.start + n \in SUBSET Returned
    BY <1>4, <2>3 DEF Returned
  <2>5. S \in SUBSET Till(q.start) /\ Till(q.start) \in SUBSET Returned
    <3>1. \A j \in Returned : j <= p.start => j <= q.start
      BY <1>3, <1>6, <2>1
    <3>2. \A j \in p.start + 1 .. p.start + n : j <= q.start
      BY <2>1, <2>2, <2>3
    <3> QED
      BY <2>4, <3>1, <3>2
  <2>6. Cardinality(Till(q.start)) = Emitted(q) /\ IsFiniteSet(Till(q.start))
    BY <1>3, <2>5 DEF Emitted
  <2>7. Cardinality(S) <= Cardinality(Till(q.start))
    <3> HIDE DEF Till, S
    <3> QED
      BY <2>5, <2>6, FS_Subset
  <2> QED
    BY <1>5, <2>4, <2>6, <2>7
<1> QED
  BY <1>3, <1>5, <1>6

LEMMA PartPage ==
  ASSUME ListingType, NEW p \in Batches, NEW take \in Nat, NEW q \in PartPages(p, take)
  PROVE  /\ q \in PageType
         /\ \E k \in PageNumbers(take) :
              /\ (k + 1) * PageSize <= MaxHits
              /\ q.from = p.start + k * PageSize /\ q.emitted = Emitted(p) + k * PageSize
              /\ q.limit = OnPage(k, take)
              /\ q.upto = p.start + Least(k * PageSize + PageSize, p.len)
<1>1. PICK k \in PageNumbers(take) :
        /\ (k + 1) * PageSize <= MaxHits
        /\ q = Page(p.start + k * PageSize, p.start + Least((k + 1) * PageSize, p.len),
                    Emitted(p) + k * PageSize, OnPage(k, take))
  BY DEF PartPages
<1>2. k \in Nat /\ k * PageSize \in Nat /\ OnPage(k, take) \in Nat /\ PageSize \in Nat
  BY OnPageFits, Sizes
<1>3. (k + 1) * PageSize = k * PageSize + PageSize
  BY <1>2, Multiples
<1>4. p.start \in Nat /\ p.len \in Nat /\ Emitted(p) \in Nat
  BY BatchesAre, Ranks
<1>5. Least(k * PageSize + PageSize, p.len) \in Nat
  BY <1>2, <1>4 DEF Least
<1> DEFINE a == p.start + k * PageSize
           b == p.start + Least(k * PageSize + PageSize, p.len)
           c == Emitted(p) + k * PageSize
           d == OnPage(k, take)
<1>6. a \in Nat /\ b \in Nat /\ c \in Nat /\ d \in Nat
  BY <1>2, <1>4, <1>5
<1>7. q = Page(a, b, c, d)
  BY <1>1, <1>3
<1> HIDE DEF a, b, c, d
<1>8. q \in PageType /\ q.from = a /\ q.upto = b /\ q.emitted = c /\ q.limit = d
  BY <1>6, <1>7, PageFields
<1> QED
  BY <1>1, <1>8 DEF a, b, c, d

\* What a page of a batch is asked for: numbers of its share of the batch, one of which
\* tells the batch and the page.
LEMMA PartSlots ==
  ASSUME ListingType, NEW n \in Nat, NEW q \in PartitionedPages(n)
  PROVE  /\ q \in PageType
         /\ \E p \in Batches :
              /\ q \in PartPages(p, Least(Cardinality(Places(p)), n - Emitted(p)))
              /\ Least(Cardinality(Places(p)), n - Emitted(p)) \in Nat
              /\ Emitted(p) <= q.emitted
              /\ q.emitted + q.limit <= n
              /\ q.emitted + q.limit <= Emitted(p) + Cardinality(Places(p))
<1>1. PICK p \in Batches : /\ Emitted(p) < n
                           /\ q \in PartPages(p, Least(Cardinality(Places(p)), n - Emitted(p)))
  BY DEF PartitionedPages
<1> DEFINE take == Least(Cardinality(Places(p)), n - Emitted(p))
<1>2. Emitted(p) \in Nat /\ Cardinality(Places(p)) \in Nat
  <2>1. p.len \in Nat /\ MaxHits \in Nat
    BY BatchesAre, Sizes
  <2> QED
    BY <2>1, Ranks DEF Least
<1>3. take \in Nat /\ take <= n - Emitted(p) /\ take <= Cardinality(Places(p))
  BY <1>1, <1>2 DEF Least
<1>4. q \in PartPages(p, take)
  BY <1>1
<1> HIDE DEF take
<1>5. PICK k \in PageNumbers(take) : q.emitted = Emitted(p) + k * PageSize /\ q.limit = OnPage(k, take)
  BY <1>3, <1>4, PartPage
<1>6. k * PageSize \in Nat /\ OnPage(k, take) \in Nat /\ k * PageSize + OnPage(k, take) <= take
  BY <1>3, OnPageFits
<1>7. q \in PageType
  BY <1>3, <1>4, PartPage
<1>8. /\ Emitted(p) <= q.emitted
      /\ q.emitted + q.limit <= n
      /\ q.emitted + q.limit <= Emitted(p) + Cardinality(Places(p))
  BY <1>2, <1>3, <1>5, <1>6
<1> QED
  BY <1>3, <1>4, <1>7, <1>8 DEF take

Apart(S) == \A p, q \in S : p # q => Slots(p) \cap Slots(q) = {}

LEMMA SamePage ==
  ASSUME NEW p \in PageType, NEW q \in PageType,
         p.from = q.from, p.upto = q.upto, p.emitted = q.emitted, p.limit = q.limit
  PROVE  p = q
BY DEF PageType

\* The pages of n records from arXiv, OpenAlex, OpenRouter and Hugging Face.
LEMMA AlignedPages ==
  ASSUME NEW n \in Nat, NEW S \in {ExactPages(n), ShrinkingPages(n), TrimmedPages(n)}
  PROVE  S \subseteq PageType /\ Apart(S)
<1>1. \A p \in S : /\ p \in PageType
                   /\ \E k \in Nat : p.emitted = k * PageSize /\ p.limit <= PageSize
  <2> SUFFICES ASSUME NEW p \in S
               PROVE  /\ p \in PageType
                      /\ \E k \in Nat : p.emitted = k * PageSize /\ p.limit <= PageSize
    OBVIOUS
  <2>0. PageSize \in Nat /\ PageSize <= PageSize /\ \A k \in PageNumbers(n) : k \in Nat /\ OnPage(k, n) <= PageSize
    BY Sizes, OnPageFits
  <2>1. CASE p \in ExactPages(n)
    BY <2>0, <2>1, ExactPage
  <2>2. CASE p \in ShrinkingPages(n)
    BY <2>0, <2>2, ShrinkingPage
  <2>3. CASE p \in TrimmedPages(n)
    BY <2>0, <2>3, TrimmedPage
  <2> QED
    BY <2>1, <2>2, <2>3
<1>2. \A p, q \in S : p.emitted = q.emitted => p = q
  <2> SUFFICES ASSUME NEW p \in S, NEW q \in S, p.emitted = q.emitted
               PROVE  p = q
    OBVIOUS
  <2>0. ASSUME NEW j \in PageNumbers(n), NEW k \in PageNumbers(n), j * PageSize = k * PageSize
        PROVE  j = k
    <3>1. j \in Nat /\ k \in Nat /\ PageSize \in Nat \ {0}
      BY OnPageFits, Sizes
    <3>2. j < k => j * PageSize + PageSize <= k * PageSize
      BY <3>1, Multiples
    <3>3. k < j => k * PageSize + PageSize <= j * PageSize
      BY <3>1, Multiples
    <3>4. j * PageSize \in Nat
      BY <3>1, Multiples
    <3> QED
      BY <2>0, <3>1, <3>2, <3>3, <3>4
  <2>1. CASE S = ExactPages(n)
    <3>1. PICK j \in PageNumbers(n) :
            /\ p.from = j * PageSize /\ p.emitted = j * PageSize /\ p.limit = PageSize
            /\ p.upto = j * PageSize + OnPage(j, n)
      BY <2>1, ExactPage
    <3>2. PICK k \in PageNumbers(n) :
            /\ q.from = k * PageSize /\ q.emitted = k * PageSize /\ q.limit = PageSize
            /\ q.upto = k * PageSize + OnPage(k, n)
      BY <2>1, ExactPage
    <3>3. j = k
      BY <2>0, <3>1, <3>2
    <3> QED
      BY <1>1, <3>1, <3>2, <3>3, SamePage
  <2>2. CASE S = ShrinkingPages(n)
    <3>1. PICK j \in PageNumbers(n) :
            /\ p.from = j * OnPage(j, n) /\ p.emitted = j * PageSize /\ p.limit = PageSize
            /\ p.upto = j * OnPage(j, n) + OnPage(j, n)
      BY <2>2, ShrinkingPage
    <3>2. PICK k \in PageNumbers(n) :
            /\ q.from = k * OnPage(k, n) /\ q.emitted = k * PageSize /\ q.limit = PageSize
            /\ q.upto = k * OnPage(k, n) + OnPage(k, n)
      BY <2>2, ShrinkingPage
    <3>3. j = k
      BY <2>0, <3>1, <3>2
    <3> QED
      BY <1>1, <3>1, <3>2, <3>3, SamePage
  <2>3. CASE S = TrimmedPages(n)
    <3>1. PICK j \in PageNumbers(n) :
            /\ p.from = j * PageSize /\ p.emitted = j * PageSize /\ p.limit = OnPage(j, n)
            /\ p.upto = j * PageSize + PageSize
      BY <2>3, TrimmedPage
    <3>2. PICK k \in PageNumbers(n) :
            /\ q.from = k * PageSize /\ q.emitted = k * PageSize /\ q.limit = OnPage(k, n)
            /\ q.upto = k * PageSize + PageSize
      BY <2>3, TrimmedPage
    <3>3. j = k
      BY <2>0, <3>1, <3>2
    <3> QED
      BY <1>1, <3>1, <3>2, <3>3, SamePage
  <2> QED
    BY <2>1, <2>2, <2>3
<1>3. ASSUME NEW p \in S, NEW q \in S, p # q
      PROVE  Slots(p) \cap Slots(q) = {}
  <2>1. PICK j \in Nat : p.emitted = j * PageSize /\ p.limit <= PageSize
    BY <1>1
  <2>2. PICK k \in Nat : q.emitted = k * PageSize /\ q.limit <= PageSize
    BY <1>1
  <2>3. j # k
    BY <1>2, <1>3, <2>1, <2>2
  <2> QED
    BY <1>1, <2>1, <2>2, <2>3, AlignedPagesAreApart
<1> QED
  BY <1>1, <1>3 DEF Apart

\* The pages of the batches of Y Combinator.
LEMMA PartitionedApart ==
  ASSUME ListingType, NEW n \in Nat
  PROVE  PartitionedPages(n) \subseteq PageType /\ Apart(PartitionedPages(n))
<1>1. \A q \in PartitionedPages(n) : q \in PageType
  BY PartSlots
<1>2. ASSUME NEW q \in PartitionedPages(n), NEW r \in PartitionedPages(n), q # r
      PROVE  Slots(q) \cap Slots(r) = {}
  <2> DEFINE Take(p) == Least(Cardinality(Places(p)), n - Emitted(p))
  <2>1. PICK a \in Batches : /\ q \in PartPages(a, Take(a)) /\ Take(a) \in Nat
                             /\ Emitted(a) <= q.emitted
                             /\ q.emitted + q.limit <= Emitted(a) + Cardinality(Places(a))
    BY PartSlots
  <2>2. PICK b \in Batches : /\ r \in PartPages(b, Take(b)) /\ Take(b) \in Nat
                             /\ Emitted(b) <= r.emitted
                             /\ r.emitted + r.limit <= Emitted(b) + Cardinality(Places(b))
    BY PartSlots
  <2> HIDE DEF Take
  <2>3. /\ q.emitted \in Nat /\ q.limit \in Nat /\ r.emitted \in Nat /\ r.limit \in Nat
        /\ Emitted(a) \in Nat /\ Emitted(b) \in Nat
    BY <1>1, Ranks DEF PageType
  <2>4. Cardinality(Places(a)) \in Nat /\ Cardinality(Places(b)) \in Nat
    <3>1. \A p \in Batches : p.len \in Nat /\ MaxHits \in Nat
      BY BatchesAre, Sizes
    <3> QED
      BY <3>1, Ranks DEF Least
  <2>5. CASE a = b
    <3>1. PICK j \in PageNumbers(Take(a)) :
            /\ q.from = a.start + j * PageSize /\ q.emitted = Emitted(a) + j * PageSize
            /\ q.limit = OnPage(j, Take(a))
            /\ q.upto = a.start + Least(j * PageSize + PageSize, a.len)
      BY <2>1, PartPage
    <3>2. PICK k \in PageNumbers(Take(a)) :
            /\ r.from = a.start + k * PageSize /\ r.emitted = Emitted(a) + k * PageSize
            /\ r.limit = OnPage(k, Take(a))
            /\ r.upto = a.start + Least(k * PageSize + PageSize, a.len)
      BY <2>1, <2>2, <2>5, PartPage
    <3>3. j # k
      BY <1>1, <1>2, <3>1, <3>2, SamePage
    <3>4. /\ j \in Nat /\ k \in Nat /\ PageSize \in Nat /\ j * PageSize \in Nat /\ k * PageSize \in Nat
          /\ q.limit <= PageSize /\ r.limit <= PageSize
      BY <2>1, <3>1, <3>2, OnPageFits, Sizes
    <3>5. /\ j < k => j * PageSize + PageSize <= k * PageSize
          /\ k < j => k * PageSize + PageSize <= j * PageSize
      BY <3>4, Multiples
    <3>6. q.emitted + q.limit <= r.emitted \/ r.emitted + r.limit <= q.emitted
      BY <2>3, <3>1, <3>2, <3>3, <3>4, <3>5
    <3> QED
      BY <2>3, <3>6 DEF Slots
  <2>6. CASE a # b
    <3>1. a.start < b.start \/ b.start < a.start
      <4>1. /\ a.start \in Nat /\ b.start \in Nat /\ a.len \in Nat \ {0} /\ b.len \in Nat \ {0}
            /\ a.start + a.len <= b.start \/ b.start + b.len <= a.start
        BY <2>6, BatchesAre
      <4> QED
        BY <4>1
    <3>2. \/ Emitted(a) + Cardinality(Places(a)) <= Emitted(b)
          \/ Emitted(b) + Cardinality(Places(b)) <= Emitted(a)
      BY <3>1, Ranks
    <3>3. q.emitted + q.limit <= r.emitted \/ r.emitted + r.limit <= q.emitted
      BY <2>1, <2>2, <2>3, <2>4, <3>2
    <3> QED
      BY <2>3, <3>3 DEF Slots
  <2> QED
    BY <2>5, <2>6
<1> QED
  BY <1>1, <1>2 DEF Apart

LEMMA LeastType ==
  ASSUME NEW a \in Nat, NEW b \in Nat
  PROVE  Least(a, b) \in Nat /\ Least(a, b) <= a /\ Least(a, b) <= b /\ (Least(a, b) = a \/ Least(a, b) = b)
BY DEF Least

\* Which pages there are for each source, and that the ones of the startups and products
\* sources never go beyond the number of records asked for.
LEMMA PagesOf ==
  ASSUME NEW s \in Sources, NEW n \in Nat
  PROVE  \/ s = "yc" /\ Pages(s, n) = PartitionedPages(n)
         \/ s = "arxiv" /\ Pages(s, n) = ExactPages(n)
         \/ s = "openalex" /\ Pages(s, n) = ShrinkingPages(Least(n, MaxPaged)) /\ Least(n, MaxPaged) \in Nat
         \/ s = "openrouter" /\ Pages(s, n) = TrimmedPages(Least(n, MaxPages * PageSize))
         \/ s \in {"hf_spaces", "hf_models"} /\ Pages(s, n) = TrimmedPages(n)
<1>1. Least(n, MaxPaged) \in Nat
  BY Sizes, LeastType
<1> QED
  BY <1>1 DEF Sources, Pages

LEMMA PagesType ==
  ASSUME ListingType, NEW s \in Sources, NEW n \in Nat
  PROVE  /\ Pages(s, n) \subseteq PageType /\ Apart(Pages(s, n))
         /\ UnpartitionedPages(n) \subseteq PageType /\ Apart(UnpartitionedPages(n))
<1>1. ASSUME NEW m \in Nat
      PROVE  /\ ExactPages(m) \subseteq PageType /\ Apart(ExactPages(m))
             /\ ShrinkingPages(m) \subseteq PageType /\ Apart(ShrinkingPages(m))
             /\ TrimmedPages(m) \subseteq PageType /\ Apart(TrimmedPages(m))
  BY AlignedPages
<1>2. Least(n, MaxHits) \in Nat /\ Least(n, MaxPages * PageSize) \in Nat
  BY Sizes, LeastType
<1>3. UnpartitionedPages(n) \subseteq PageType /\ Apart(UnpartitionedPages(n))
  BY <1>1, <1>2 DEF UnpartitionedPages
<1>4. Pages(s, n) \subseteq PageType /\ Apart(Pages(s, n))
  BY <1>1, <1>2, PagesOf, PartitionedApart
<1> QED
  BY <1>3, <1>4

LEMMA TrimmedWithin ==
  ASSUME NEW m \in Nat, NEW n \in Nat, m <= n, NEW p \in TrimmedPages(m)
  PROVE  p.emitted \in Nat /\ p.limit \in Nat /\ p.emitted + p.limit <= n
<1>1. PICK k \in PageNumbers(m) : p.emitted = k * PageSize /\ p.limit = OnPage(k, m)
  BY TrimmedPage
<1>2. k * PageSize \in Nat /\ OnPage(k, m) \in Nat /\ k * PageSize + OnPage(k, m) <= m
  BY OnPageFits, Sizes
<1> QED
  BY <1>1, <1>2

LEMMA PagesWithin ==
  ASSUME ListingType, NEW s \in Sources, s \notin {"arxiv", "openalex"}, NEW n \in Nat
  PROVE  /\ \A p \in Pages(s, n) : p.emitted + p.limit <= n
         /\ \A p \in UnpartitionedPages(n) : p.emitted + p.limit <= n
<1>1. /\ Least(n, MaxHits) \in Nat /\ Least(n, MaxHits) <= n
      /\ Least(n, MaxPages * PageSize) \in Nat /\ Least(n, MaxPages * PageSize) <= n
      /\ n <= n
  <2>1. \A m \in Nat : Least(n, m) \in Nat /\ Least(n, m) <= n
    BY LeastType
  <2> QED
    BY <2>1, Sizes
<1>2. \A p \in UnpartitionedPages(n) : p.emitted + p.limit <= n
  BY <1>1, TrimmedWithin DEF UnpartitionedPages
<1>3. s = "yc" => \A p \in Pages(s, n) : p.emitted + p.limit <= n
  BY PagesOf, PartSlots
<1>4. s # "yc" => \A p \in Pages(s, n) : p.emitted + p.limit <= n
  BY <1>1, PagesOf, TrimmedWithin
<1> QED
  BY <1>2, <1>3, <1>4

-----------------------------------------------------------------------------
(* What the variables hold.                                                *)

TypeInv ==
  /\ vertical \in Verticals
  /\ target \in Nat \ {0}
  /\ ListingType
  /\ place \in {"choosing", "reading", "done", "raised"}
  /\ pass \in Nat
  /\ turn \in 1 .. Len(Order[vertical]) + 1
  /\ place \in {"reading", "raised"} => turn <= Len(Order[vertical])
  /\ asked \in [Sources -> Nat]
  /\ dry \in SUBSET Sources
  /\ added \in Nat
  /\ whole \in BOOLEAN
  /\ pages \in SUBSET PageType
  /\ batch \in SUBSET [url : Urls, at : Nat, page : Nat] /\ IsFiniteSet(batch)
  /\ runs \in Nat
  /\ kept \in SUBSET [url : Urls, source : Sources, run : Nat, at : Nat] /\ IsFiniteSet(kept)
  /\ moves \in Nat /\ lost \in Nat

LEMMA OrderFacts ==
  ASSUME vertical \in Verticals
  PROVE  /\ Len(Order[vertical]) \in 1 .. 3
         /\ \A i \in 1 .. Len(Order[vertical]) :
              /\ Order[vertical][i] \in Sources
              /\ Order[vertical][i] = "yc" <=> vertical = "startups"
              /\ Order[vertical][i] \in {"arxiv", "openalex"} <=> vertical = "research"
         /\ MaxPasses[vertical] \in Nat
         /\ vertical = "startups" => Len(Order[vertical]) = 1 /\ MaxPasses[vertical] = 1
<1>1. vertical \in {"research", "startups", "products"}
  BY BoundsAssumption
<1>2. CASE vertical = "research"
  <2>1. Order[vertical] = <<"arxiv", "openalex">> /\ MaxPasses[vertical] = 2
    BY <1>2 DEF Order, MaxPasses
  <2> QED
    BY <1>2, <2>1 DEF Sources
<1>3. CASE vertical = "startups"
  <2>1. Order[vertical] = <<"yc">> /\ MaxPasses[vertical] = 1
    BY <1>3 DEF Order, MaxPasses
  <2> QED
    BY <1>3, <2>1 DEF Sources
<1>4. CASE vertical = "products"
  <2>1. Order[vertical] = <<"hf_spaces", "openrouter", "hf_models">> /\ MaxPasses[vertical] = 4
    BY <1>4 DEF Order, MaxPasses
  <2>2. Len(Order[vertical]) = 3
    BY <2>1
  <2>3. \A i \in 1 .. 3 : i = 1 \/ i = 2 \/ i = 3
    OBVIOUS
  <2> QED
    BY <1>4, <2>1, <2>2, <2>3 DEF Sources
<1> QED
  BY <1>1, <1>2, <1>3, <1>4

\* What parse() keeps: records of the page, numbered within what it was asked for.
LEMMA ParseFacts ==
  ASSUME ListingType, NEW s \in Sources, NEW page \in PageType
  PROVE  /\ Distinct(s, page) \in SUBSET Nat /\ IsFiniteSet(Distinct(s, page))
         /\ Parse(s, page) \in SUBSET Distinct(s, page) /\ IsFiniteSet(Parse(s, page))
         /\ \A i \in Parse(s, page) :
              /\ i \in Nat /\ i \in 1 .. Len(listing[s]) /\ listing[s][i] \in Urls
              /\ Nth(s, page, i) \in Nat /\ Nth(s, page, i) < page.limit
              /\ page.emitted + Nth(s, page, i) \in Slots(page)
         /\ \A i, j \in Distinct(s, page) : Nth(s, page, i) = Nth(s, page, j) => i = j
<1>1. listing[s] \in Seq(Urls \cup {Malformed}) /\ Len(listing[s]) \in Nat
  BY DEF ListingType
<1>2. page.from \in Nat /\ page.upto \in Nat /\ page.emitted \in Nat /\ page.limit \in Nat
  BY DEF PageType
<1>3. Least(page.upto, Len(listing[s])) \in Nat /\ Least(page.upto, Len(listing[s])) <= Len(listing[s])
  BY <1>1, <1>2, LeastType
<1>4. Distinct(s, page) \in SUBSET (1 .. Len(listing[s])) /\ Distinct(s, page) \in SUBSET Nat
  BY <1>1, <1>2, <1>3 DEF Distinct, WellFormed
<1>5. IsFiniteSet(Distinct(s, page))
  <2>1. IsFiniteSet(1 .. Len(listing[s]))
    BY <1>1, FS_Interval
  <2> QED
    BY <1>4, <2>1, FS_Subset
<1>6. Parse(s, page) \in SUBSET Distinct(s, page) /\ IsFiniteSet(Parse(s, page))
  BY <1>5, FS_Subset DEF Parse
<1>7. \A i : Nth(s, page, i) = Rank(Distinct(s, page), i)
  BY DEF Nth, Rank
<1>8. \A i \in Distinct(s, page) : Nth(s, page, i) \in Nat
  BY <1>4, <1>5, <1>7, RankGrows
<1>9. \A i, j \in Distinct(s, page) : Nth(s, page, i) = Nth(s, page, j) => i = j
  BY <1>4, <1>5, <1>7, RankIsOneToOne
<1>10. \A i \in Distinct(s, page) : listing[s][i] \in Urls
  <2>1. \A i \in 1 .. Len(listing[s]) : listing[s][i] \in Urls \cup {Malformed}
    BY <1>1
  <2> QED
    BY <1>4, <2>1 DEF Distinct, WellFormed
<1>11. ASSUME NEW i \in Parse(s, page)
       PROVE  Nth(s, page, i) < page.limit /\ page.emitted + Nth(s, page, i) \in Slots(page)
  <2>1. Nth(s, page, i) \in Nat /\ Nth(s, page, i) < page.limit
    BY <1>8, <1>11 DEF Parse
  <2> QED
    BY <1>2, <2>1 DEF Slots
<1> QED
  BY <1>4, <1>5, <1>6, <1>8, <1>9, <1>10, <1>11

\* The records of a page: as many numbers of its own.
LEMMA RecordsFacts ==
  ASSUME ListingType, IsFiniteSet(batch), batch \subseteq [url : Urls, at : Nat, page : Nat],
         NEW s \in Sources, NEW page \in PageType
  PROVE  /\ Records(s, page) \subseteq [url : Urls, at : Nat, page : Nat]
         /\ IsFiniteSet(Records(s, page))
         /\ \A e \in Records(s, page) : e.at \in Slots(page)
         /\ \A d, e \in Records(s, page) : d.at = e.at => d = e
         /\ \A e \in Records(s, page) : \E i \in Parse(s, page) :
              e.url = listing[s][i] /\ e.at = page.emitted + Nth(s, page, i)
         /\ \A i \in Parse(s, page) : \E e \in Records(s, page) :
              e.url = listing[s][i] /\ e.at = page.emitted + Nth(s, page, i)
<1>1. Came \in Nat
  <2> DEFINE f == [e \in batch |-> e.page]
             T == {e.page : e \in batch}
  <2>1. T = {f[e] : e \in batch}
    OBVIOUS
  <2> HIDE DEF f, T
  <2>2. Cardinality(T) \in Nat
    BY <2>1, Image
  <2> QED
    BY <2>2 DEF Came, T
<1>2. page.emitted \in Nat /\ page.limit \in Nat
  BY DEF PageType
<1>3. ASSUME NEW e \in Records(s, page)
      PROVE  \E i \in Parse(s, page) :
               /\ e = [url |-> listing[s][i], at |-> page.emitted + Nth(s, page, i), page |-> Came]
               /\ e.url = listing[s][i] /\ e.at = page.emitted + Nth(s, page, i)
  BY DEF Records
<1>4. Records(s, page) \subseteq [url : Urls, at : Nat, page : Nat]
  BY <1>1, <1>2, <1>3, ParseFacts
<1>5. \A e \in Records(s, page) : e.at \in Slots(page)
  BY <1>3, ParseFacts
<1>6. ASSUME NEW d \in Records(s, page), NEW e \in Records(s, page), d.at = e.at
      PROVE  d = e
  <2>1. PICK i \in Parse(s, page) :
          /\ d = [url |-> listing[s][i], at |-> page.emitted + Nth(s, page, i), page |-> Came]
          /\ d.at = page.emitted + Nth(s, page, i)
    BY <1>3
  <2>2. PICK j \in Parse(s, page) :
          /\ e = [url |-> listing[s][j], at |-> page.emitted + Nth(s, page, j), page |-> Came]
          /\ e.at = page.emitted + Nth(s, page, j)
    BY <1>3
  <2>3. Nth(s, page, i) \in Nat /\ Nth(s, page, j) \in Nat
    BY ParseFacts
  <2>4. Nth(s, page, i) = Nth(s, page, j)
    BY <1>2, <1>6, <2>1, <2>2, <2>3
  <2>5. i = j
    BY <2>4, ParseFacts
  <2> QED
    BY <2>1, <2>2, <2>5
<1>7. IsFiniteSet(Records(s, page))
  <2> DEFINE n == page.emitted + page.limit
             f == [e \in Records(s, page) |-> e.at]
  <2>1. n \in Nat /\ \A m \in Slots(page) : m \in 0 .. n - 1
    BY <1>2 DEF Slots
  <2>2. f \in [Records(s, page) -> 0 .. n - 1]
    BY <1>5, <2>1
  <2>3. \A d, e \in Records(s, page) : f[d] = f[e] => d = e
    BY <1>6
  <2> HIDE DEF n, f
  <2> QED
    BY <2>1, <2>2, <2>3, Numbered
<1>8. \A i \in Parse(s, page) : \E e \in Records(s, page) :
        e.url = listing[s][i] /\ e.at = page.emitted + Nth(s, page, i)
  <2> SUFFICES ASSUME NEW i \in Parse(s, page)
               PROVE  \E e \in Records(s, page) :
                        e.url = listing[s][i] /\ e.at = page.emitted + Nth(s, page, i)
    OBVIOUS
  <2> DEFINE e == [url |-> listing[s][i], at |-> page.emitted + Nth(s, page, i), page |-> Came]
  <2>1. e \in Records(s, page)
    BY DEF Records
  <2> QED
    BY <2>1
<1> QED
  BY <1>3, <1>4, <1>5, <1>6, <1>7, <1>8

\* What a source is asked for: at least one record more, and no more than is missing.
LEMMA ShareFacts ==
  ASSUME TypeInv, Asking
  PROVE  /\ Cardinality(kept) \in Nat /\ Cardinality(kept) < target
         /\ Remaining = target - Cardinality(kept) /\ Remaining \in Nat \ {0}
         /\ Source \in Sources
         /\ Share \in Nat \ {0} /\ Share <= Remaining
         /\ Depth \in Nat /\ Depth = asked[Source] + Share
         /\ vertical = "startups" => Share = Remaining
<1>1. Cardinality(kept) \in Nat /\ target \in Nat
  BY FS_CardinalityType DEF TypeInv
<1>2. Cardinality(kept) < target /\ Remaining = target - Cardinality(kept) /\ Remaining \in Nat \ {0}
  BY <1>1 DEF Asking, Remaining
<1>3. /\ turn \in 1 .. Len(Order[vertical]) /\ Len(Order[vertical]) \in 1 .. 3
      /\ vertical = "startups" => Len(Order[vertical]) = 1
  BY OrderFacts DEF TypeInv, Asking
<1>4. Source \in Sources
  BY <1>3, OrderFacts DEF TypeInv, Source
<1> DEFINE len == Len(Order[vertical])
           b == len - turn + 1
<1>5. b \in 1 .. 3 /\ (vertical = "startups" => b = 1)
  <2>1. len \in 1 .. 3 /\ turn \in 1 .. len /\ (vertical = "startups" => len = 1)
    BY <1>3
  <2> HIDE DEF len
  <2>2. b \in 1 .. 3
    BY <2>1
  <2>3. len = 1 => b = 1
    BY <2>1
  <2> QED
    BY <2>1, <2>2, <2>3
<1>6. \A r \in Nat \ {0}, c \in 1 .. 3 : CeilDiv(r, c) \in Nat \ {0} /\ CeilDiv(r, c) <= r /\ CeilDiv(r, 1) = r
  BY DEF CeilDiv
<1>7. Share = Remaining \/ Share = CeilDiv(Remaining, b)
  BY DEF Share
<1>8. vertical = "startups" => Share = CeilDiv(Remaining, b)
  BY DEF Share
<1> HIDE DEF b, len
<1>9. Share \in Nat \ {0} /\ Share <= Remaining /\ (vertical = "startups" => Share = Remaining)
  BY <1>2, <1>5, <1>6, <1>7, <1>8
<1>10. asked[Source] \in Nat
  BY <1>4 DEF TypeInv
<1> QED
  BY <1>1, <1>2, <1>4, <1>9, <1>10 DEF Depth

Added == {[url |-> e.url, source |-> Source, run |-> runs, at |-> e.at] : e \in New}

\* What Merge adds: a record for each element of New.
LEMMA AddedFacts ==
  ASSUME TypeInv, place = "reading"
  PROVE  /\ Source \in Sources
         /\ New \subseteq batch /\ IsFiniteSet(New) /\ Cardinality(New) \in Nat
         /\ IsFiniteSet(Added) /\ Cardinality(Added) \in Nat /\ Cardinality(Added) <= Cardinality(New)
         /\ Added \subseteq [url : Urls, source : Sources, run : Nat, at : Nat]
         /\ Merge => kept' = kept \cup Added
         /\ IsFiniteSet(kept \cup Added) /\ Cardinality(kept) \in Nat
         /\ Cardinality(kept \cup Added) \in Nat
         /\ Cardinality(kept \cup Added) <= Cardinality(kept) + Cardinality(New)
<1>1. New \subseteq batch /\ IsFiniteSet(batch)
  BY DEF New, TypeInv
<1>2. IsFiniteSet(New) /\ Cardinality(New) \in Nat
  BY <1>1, FS_Subset, FS_CardinalityType
<1>3. Source \in Sources
  BY OrderFacts DEF TypeInv, Source
<1>4. IsFiniteSet(Added) /\ Cardinality(Added) \in Nat /\ Cardinality(Added) <= Cardinality(New)
  <2> DEFINE f == [e \in New |-> [url |-> e.url, source |-> Source, run |-> runs, at |-> e.at]]
  <2>1. Added = {f[e] : e \in New}
    BY DEF Added
  <2> HIDE DEF f
  <2> QED
    BY <1>2, <2>1, Image
<1>5. \A e \in New : e.url \in Urls /\ e.at \in Nat
  BY <1>1 DEF TypeInv
<1>6. Added \subseteq [url : Urls, source : Sources, run : Nat, at : Nat]
  BY <1>3, <1>5 DEF Added, TypeInv
<1>7. Merge => kept' = kept \cup Added
  BY DEF Merge, Added
<1>8. IsFiniteSet(kept) /\ Cardinality(kept) \in Nat
  BY FS_CardinalityType DEF TypeInv
<1>9. IsFiniteSet(kept \cap Added) /\ Cardinality(kept \cap Added) \in Nat
  BY <1>8, FS_Intersection, FS_CardinalityType
<1>10. /\ IsFiniteSet(kept \cup Added)
       /\ Cardinality(kept \cup Added) = Cardinality(kept) + Cardinality(Added) - Cardinality(kept \cap Added)
  BY <1>4, <1>8, FS_Union
<1>11. Cardinality(kept \cup Added) \in Nat
  BY <1>10, FS_CardinalityType
<1> QED
  BY <1>1, <1>2, <1>3, <1>4, <1>6, <1>7, <1>8, <1>9, <1>10, <1>11

LEMMA InitType == Init => TypeInv
<1> SUFFICES ASSUME Init PROVE TypeInv
  OBVIOUS
<1>1. ListingType /\ target \in Nat \ {0} /\ vertical \in Verticals
  BY BoundsAssumption DEF Init, ListingType
<1>2. IsFiniteSet({})
  BY FS_EmptySet
<1>3. 1 \in 1 .. Len(Order[vertical]) + 1
  BY <1>1, OrderFacts
<1>4. IsFiniteSet(batch) /\ IsFiniteSet(kept)
  BY <1>2 DEF Init
<1>5. asked \in [Sources -> Nat]
  BY DEF Init
<1> QED
  BY <1>1, <1>3, <1>4, <1>5 DEF Init, TypeInv

LEMMA AskForStep ==
  ASSUME TypeInv, NEW found, found \subseteq PageType, AskFor(found), whole' \in BOOLEAN
  PROVE  TypeInv'
<1>1. Source \in Sources /\ Depth \in Nat
  BY ShareFacts DEF AskFor
<1>2. IsFiniteSet({})
  BY FS_EmptySet
<1>3. asked' \in [Sources -> Nat]
  BY <1>1 DEF AskFor, TypeInv
<1>4. turn <= Len(Order[vertical])
  BY DEF AskFor, Asking
<1> QED
  BY <1>2, <1>3, <1>4 DEF AskFor, TypeInv, ListingType, config

LEMMA AskFound ==
  ASSUME TypeInv, Ask \/ AskUnpartitioned
  PROVE  \E found \in {Pages(Source, Depth), UnpartitionedPages(Depth)} :
           /\ AskFor(found) /\ found \subseteq PageType /\ Apart(found)
           /\ Source \in Sources /\ Depth \in Nat /\ whole' \in BOOLEAN
<1>1. Source \in Sources /\ Depth \in Nat
  BY ShareFacts DEF AskFor, Ask, AskUnpartitioned
<1>2. ListingType /\ whole \in BOOLEAN
  BY DEF TypeInv
<1> QED
  BY <1>1, <1>2, PagesType DEF Ask, AskUnpartitioned

LEMMA StepType ==
  ASSUME TypeInv, [Next]_vars
  PROVE  TypeInv'
<1>0. Len(Order[vertical]) \in 1 .. 3 /\ MaxPasses[vertical] \in Nat
  BY OrderFacts DEF TypeInv
<1>1. CASE Ask \/ AskUnpartitioned
  BY <1>1, AskFound, AskForStep
<1>2. CASE SkipExhausted
  <2>1. turn < Len(Order[vertical]) + 1 /\ place = "choosing"
    BY <1>0, <1>2 DEF SkipExhausted, Asking, TypeInv
  <2>2. turn' \in 1 .. Len(Order[vertical]) + 1
    BY <1>0, <1>2, <2>1 DEF SkipExhausted, TypeInv
  <2>3. ListingType'
    BY <1>2 DEF SkipExhausted, TypeInv, ListingType
  <2> HIDE DEF ListingType
  <2> QED
    BY <1>2, <2>1, <2>2, <2>3 DEF SkipExhausted, TypeInv, config
<1>3. CASE EndPass
  BY <1>0, <1>3 DEF EndPass, TypeInv, ListingType, config
<1>4. ASSUME NEW page \in pages, ReadPage(page)
      PROVE  TypeInv'
  <2>1. Source \in Sources
    BY <1>4, OrderFacts DEF ReadPage, TypeInv, Source
  <2>2. /\ Records(Source, page) \subseteq [url : Urls, at : Nat, page : Nat]
        /\ IsFiniteSet(Records(Source, page))
    BY <2>1, RecordsFacts DEF TypeInv
  <2>3. batch' \in SUBSET [url : Urls, at : Nat, page : Nat]
    BY <1>4, <2>2 DEF ReadPage, TypeInv
  <2>4. IsFiniteSet(batch')
    BY <1>4, <2>2, FS_Union DEF ReadPage, TypeInv
  <2> QED
    BY <1>4, <2>3, <2>4 DEF ReadPage, TypeInv, ListingType, config
<1>5. ASSUME NEW page \in pages, LosePage(page)
      PROVE  TypeInv'
  BY <1>5 DEF LosePage, TypeInv, ListingType, config
<1>6. CASE RunRaises
  BY <1>6 DEF RunRaises, TypeInv, ListingType, config
<1>7. CASE Merge
  <2>0. place = "reading"
    BY <1>7 DEF Merge
  <2>1. /\ kept' \in SUBSET [url : Urls, source : Sources, run : Nat, at : Nat] /\ IsFiniteSet(kept')
        /\ added' \in Nat /\ dry' \in SUBSET Sources
    <3>1. /\ Source \in Sources /\ kept' = kept \cup Added /\ Cardinality(New) \in Nat
          /\ Added \subseteq [url : Urls, source : Sources, run : Nat, at : Nat]
          /\ IsFiniteSet(kept \cup Added)
      BY <1>7, <2>0, AddedFacts
    <3>2. added' \in Nat /\ dry' \in SUBSET Sources
      BY <1>7, <3>1 DEF Merge, TypeInv
    <3> QED
      BY <3>1, <3>2 DEF TypeInv
  <2>2. turn' \in 1 .. Len(Order[vertical]) + 1
    BY <1>0, <1>7 DEF Merge, TypeInv
  <2> QED
    BY <1>7, <2>1, <2>2 DEF Merge, TypeInv, ListingType, config
<1>8. ASSUME NEW s \in Sources, Publish(s)
      PROVE  TypeInv'
  <2>1. <<Fresh[s]>> \o listing[s] \in Seq(Urls \cup {Malformed})
    <3>1. Fresh[s] \in Urls
      BY BoundsAssumption
    <3>2. listing[s] \in Seq(Urls \cup {Malformed})
      BY DEF TypeInv, ListingType
    <3> QED
      BY <3>1, <3>2
  <2>2. ListingType'
    BY <1>8, <2>1 DEF Publish, TypeInv, ListingType
  <2>3. /\ UNCHANGED <<config, place, pass, turn, asked, dry, added, whole, pages, batch, runs, kept, lost>>
        /\ moves' = moves + 1
    BY <1>8 DEF Publish
  <2>4. moves' \in Nat
    BY <2>3 DEF TypeInv
  <2> HIDE DEF ListingType
  <2> QED
    BY <2>2, <2>3, <2>4 DEF TypeInv, config
<1>9. CASE UNCHANGED vars
  BY <1>9 DEF vars, TypeInv, ListingType, config
<1> QED
  BY <1>1, <1>2, <1>3, <1>4, <1>5, <1>6, <1>7, <1>8, <1>9 DEF Next

LEMMA TypeAlways == Spec => []TypeInv
BY InitType, StepType, PTL DEF Spec

\* The theorem of AsksDeeper: for every listing, target and page size, a step that asks a
\* source again asks it for more than before, and never a source that was written off.
THEOREM DeeperEachTime == Spec => AsksDeeper
<1>1. ASSUME TypeInv, [Next]_vars
      PROVE  [\A s \in Sources : asked'[s] # asked[s] => asked'[s] > asked[s] /\ s \notin dry]_vars
  <2>1. CASE Ask \/ AskUnpartitioned
    <3>1. PICK found : AskFor(found)
      BY <2>1 DEF Ask, AskUnpartitioned
    <3>2. /\ Source \in Sources /\ Source \notin dry
          /\ asked' = [asked EXCEPT ![Source] = Depth] /\ asked \in [Sources -> Nat]
          /\ Depth = asked[Source] + Share /\ Share \in Nat \ {0}
      BY <1>1, <3>1, ShareFacts DEF AskFor, TypeInv
    <3>3. Depth > asked[Source]
      BY <3>2
    <3> QED
      BY <3>2, <3>3
  <2>2. CASE UNCHANGED asked
    BY <2>2
  <2>3. ~ (Ask \/ AskUnpartitioned) => UNCHANGED asked
    BY <1>1 DEF Next, vars, SkipExhausted, EndPass, ReadPage, LosePage, RunRaises, Merge, Publish
  <2> QED
    BY <2>1, <2>2, <2>3
<1> QED
  BY <1>1, TypeAlways, PTL DEF Spec, AsksDeeper

-----------------------------------------------------------------------------
(* Nothing is collected twice.                                             *)

\* The records of an adapter run are numbered: no number comes twice, whatever the
\* listing does, since no two pages were asked for one.
Numbering ==
  /\ Apart(pages)
  /\ \A e \in batch : \A p \in pages : e.at \notin Slots(p)
  /\ \A d, e \in batch : d.at = e.at => d = e

LEMMA NumberingStep ==
  ASSUME TypeInv, Numbering, [Next]_vars
  PROVE  Numbering'
<1>1. CASE Ask \/ AskUnpartitioned
  <2>1. PICK found : AskFor(found) /\ Apart(found)
    BY <1>1, AskFound
  <2>2. pages' = found /\ batch' = {}
    BY <2>1 DEF AskFor
  <2> QED
    BY <2>1, <2>2 DEF Numbering, Apart, Slots
<1>2. ASSUME NEW page \in pages, ReadPage(page)
      PROVE  Numbering'
  <2>1. /\ batch' = batch \cup Records(Source, page) /\ pages' = pages \ {page}
        /\ Source \in Sources
    BY <1>2, OrderFacts DEF ReadPage, TypeInv, Source
  <2>2. /\ \A e \in Records(Source, page) : e.at \in Slots(page)
        /\ \A d, e \in Records(Source, page) : d.at = e.at => d = e
    BY <2>1, RecordsFacts DEF TypeInv
  <2>3. Apart(pages')
    BY <2>1 DEF Numbering, Apart
  <2>4. \A e \in batch' : \A p \in pages' : e.at \notin Slots(p)
    BY <2>1, <2>2 DEF Numbering, Apart
  <2>5. \A d, e \in batch' : d.at = e.at => d = e
    BY <2>1, <2>2 DEF Numbering
  <2> QED
    BY <2>3, <2>4, <2>5 DEF Numbering, Apart, Slots
<1>3. ASSUME NEW page \in pages, LosePage(page)
      PROVE  Numbering'
  <2>1. batch' = batch /\ pages' \subseteq pages
    BY <1>3 DEF LosePage
  <2> QED
    BY <2>1 DEF Numbering, Apart, Slots
<1>4. CASE UNCHANGED <<pages, batch>>
  BY <1>4 DEF Numbering, Apart, Slots
<1>5. \/ Ask \/ AskUnpartitioned
      \/ \E page \in pages : ReadPage(page) \/ LosePage(page)
      \/ UNCHANGED <<pages, batch>>
  BY DEF Next, vars, SkipExhausted, EndPass, RunRaises, Merge, Publish
<1> QED
  BY <1>1, <1>2, <1>3, <1>4, <1>5

LEMMA NumberingAlways == Spec => []Numbering
<1>1. Init => Numbering
  BY DEF Init, Numbering, Apart
<1> QED
  BY <1>1, TypeAlways, NumberingStep, PTL DEF Spec

\* The elements of a batch come one after the other.
LEMMA BeforeIsTotal ==
  ASSUME TypeInv, Numbering, NEW d \in batch, NEW e \in batch, d # e
  PROVE  Before(d, e) \/ Before(e, d)
<1>1. d.page \in Nat /\ e.page \in Nat /\ d.at \in Nat /\ e.at \in Nat
  BY DEF TypeInv
<1>2. d.at # e.at
  BY DEF Numbering
<1> QED
  BY <1>1, <1>2 DEF Before

\* Products: no URL and no key twice; research and startups: no URL again in a later run.
LEMMA NeverAgainStep ==
  ASSUME TypeInv, Numbering, NeverAgain, [Next]_vars
  PROVE  NeverAgain'
<1>1. CASE Merge
  <2>0. place = "reading" /\ vertical' = vertical
    BY <1>1 DEF Merge, config
  <2>1. kept' = kept \cup Added
    BY <1>1, <2>0, AddedFacts
  <2>2. ASSUME NEW a \in Added
        PROVE  \E e \in New : a.url = e.url /\ a.run = runs /\ a = [url |-> e.url, source |-> Source, run |-> runs, at |-> e.at]
    BY DEF Added
  <2>3. ASSUME NEW a \in kept, NEW b \in Added
        PROVE  a.url # b.url /\ (vertical = "products" => Key[a.url] # Key[b.url])
    <3>1. PICK e \in New : b.url = e.url
      BY <2>2
    <3> QED
      BY <3>1 DEF New, KeptUrls, KeptKeys
  <2>4. ASSUME NEW a \in Added, NEW b \in Added, a # b, vertical = "products"
        PROVE  Key[a.url] # Key[b.url]
    <3>1. PICK d \in New : a = [url |-> d.url, source |-> Source, run |-> runs, at |-> d.at] /\ a.url = d.url
      BY <2>2
    <3>2. PICK e \in New : b = [url |-> e.url, source |-> Source, run |-> runs, at |-> e.at] /\ b.url = e.url
      BY <2>2
    <3>3. d # e /\ d \in batch /\ e \in batch
      BY <2>4, <3>1, <3>2 DEF New
    <3>4. Before(d, e) \/ Before(e, d)
      BY <3>3, BeforeIsTotal
    <3> QED
      BY <2>4, <3>1, <3>2, <3>3, <3>4 DEF New
  <2>5. ASSUME NEW a \in kept', NEW b \in kept', a # b
        PROVE  IF vertical = "products" THEN a.url # b.url /\ Key[a.url] # Key[b.url]
               ELSE a.url = b.url => a.run = b.run
    <3>1. CASE a \in kept /\ b \in kept
      BY <2>5, <3>1 DEF NeverAgain
    <3>2. CASE a \in kept /\ b \in Added
      BY <2>3, <3>2
    <3>3. CASE a \in Added /\ b \in kept
      BY <2>3, <3>3
    <3>4. CASE a \in Added /\ b \in Added
      <4>1. a.run = runs /\ b.run = runs
        BY <2>2, <3>4
      <4>2. vertical = "products" => Key[a.url] # Key[b.url] /\ a.url # b.url
        BY <2>4, <2>5, <3>4
      <4> QED
        BY <4>1, <4>2
    <3> QED
      BY <2>1, <2>5, <3>1, <3>2, <3>3, <3>4
  <2> QED
    BY <2>0, <2>5 DEF NeverAgain
<1>2. CASE UNCHANGED <<vertical, kept>>
  BY <1>2 DEF NeverAgain
<1>3. Merge \/ UNCHANGED <<vertical, kept>>
  BY DEF Next, vars, config, Ask, AskUnpartitioned, AskFor, SkipExhausted, EndPass, ReadPage, LosePage,
         RunRaises, Publish
<1> QED
  BY <1>1, <1>2, <1>3

\* The theorem of NeverAgain: whatever the pages repeat and the listings do, the passes
\* collect no product twice, by URL or by key, and no paper or company again in a later
\* run of an adapter.
THEOREM CollectsNothingAgain == Spec => []NeverAgain
<1>1. Init => NeverAgain
  BY DEF Init, NeverAgain
<1> QED
  BY <1>1, TypeAlways, NumberingAlways, NeverAgainStep, PTL DEF Spec

-----------------------------------------------------------------------------
(* The target.                                                             *)

\* The sources of startups and products return no more than they are asked for.
Within ==
  vertical # "research" /\ place = "reading" =>
    /\ \A p \in pages : p.emitted + p.limit <= asked[Source]
    /\ \A e \in batch : e.at < asked[Source]

LEMMA WithinStep ==
  ASSUME TypeInv, Within, [Next]_vars
  PROVE  Within'
<1>1. CASE Ask \/ AskUnpartitioned
  <2>1. PICK found \in {Pages(Source, Depth), UnpartitionedPages(Depth)} :
          AskFor(found) /\ Source \in Sources /\ Depth \in Nat
    BY <1>1, AskFound
  <2>2. vertical # "research" => Source \notin {"arxiv", "openalex"}
    BY <2>1, OrderFacts DEF AskFor, Asking, TypeInv, Source
  <2>3. vertical # "research" => \A p \in found : p.emitted + p.limit <= Depth
    BY <2>1, <2>2, PagesWithin DEF TypeInv
  <2>4. /\ pages' = found /\ batch' = {} /\ vertical' = vertical /\ turn' = turn
        /\ asked' = [asked EXCEPT ![Source] = Depth] /\ asked \in [Sources -> Nat]
    BY <2>1 DEF AskFor, config, TypeInv
  <2>5. Source' = Source /\ asked'[Source] = Depth
    BY <2>1, <2>4 DEF Source
  <2> QED
    BY <2>3, <2>4, <2>5 DEF Within
<1>2. ASSUME NEW page \in pages, ReadPage(page)
      PROVE  Within'
  <2>1. /\ batch' = batch \cup Records(Source, page) /\ pages' = pages \ {page}
        /\ UNCHANGED <<vertical, turn, asked, place>> /\ place = "reading"
        /\ Source \in Sources /\ page \in PageType
    BY <1>2, OrderFacts DEF ReadPage, TypeInv, Source, config
  <2>2. Source' = Source /\ asked[Source] \in Nat
    BY <2>1 DEF Source, TypeInv
  <2>3. \A e \in Records(Source, page) : e.at \in page.emitted .. page.emitted + page.limit - 1
    BY <2>1, RecordsFacts DEF TypeInv, Slots
  <2>4. page.emitted \in Nat /\ page.limit \in Nat
    BY <2>1 DEF PageType
  <2>5. page.emitted + page.limit <= asked[Source] => \A e \in Records(Source, page) : e.at < asked[Source]
    BY <2>2, <2>3, <2>4
  <2> QED
    BY <2>1, <2>2, <2>5 DEF Within
<1>3. ASSUME NEW page \in pages, LosePage(page)
      PROVE  Within'
  BY <1>3 DEF LosePage, Within, Source, config
<1>4. CASE \E s \in Sources : Publish(s)
  BY <1>4 DEF Publish, Within, Source, config
<1>5. CASE SkipExhausted \/ EndPass \/ RunRaises \/ Merge
  BY <1>5 DEF SkipExhausted, EndPass, RunRaises, Merge, Asking, Within
<1>6. CASE UNCHANGED vars
  BY <1>6 DEF vars, config, Within, Source
<1> QED
  BY <1>1, <1>2, <1>3, <1>4, <1>5, <1>6 DEF Next

LEMMA WithinAlways == Spec => []Within
<1>1. Init => Within
  BY DEF Init, Within
<1> QED
  BY <1>1, TypeAlways, WithinStep, PTL DEF Spec

\* So a batch has no more records than the source was asked for, and when it has as many
\* every number came.
LEMMA BatchFits ==
  ASSUME TypeInv, Numbering, Within, place = "reading", vertical # "research"
  PROVE  /\ Source \in Sources /\ asked[Source] \in Nat
         /\ Cardinality(batch) \in Nat /\ Cardinality(batch) <= asked[Source]
         /\ Cardinality(batch) >= asked[Source] => \A m \in 0 .. asked[Source] - 1 : \E e \in batch : e.at = m
<1>1. Source \in Sources /\ asked[Source] \in Nat
  BY OrderFacts DEF TypeInv, Source
<1> DEFINE n == asked[Source]
           f == [e \in batch |-> e.at]
<1>2. \A e \in batch : e.at \in 0 .. n - 1
  BY <1>1 DEF Within, TypeInv
<1>3. f \in [batch -> 0 .. n - 1] /\ \A d, e \in batch : f[d] = f[e] => d = e
  BY <1>2 DEF Numbering
<1>4. \A e \in batch : f[e] = e.at
  OBVIOUS
<1> HIDE DEF f
<1>5. /\ Cardinality(batch) \in Nat /\ Cardinality(batch) <= n
      /\ Cardinality(batch) >= n => \A m \in 0 .. n - 1 : \E e \in batch : f[e] = m
  BY <1>1, <1>3, Numbered
<1> QED
  BY <1>1, <1>4, <1>5

\* Startups asks its one source once, for the whole target.
StartupsInv ==
  vertical = "startups" =>
    /\ pass = 1
    /\ turn = 1 => /\ kept = {} /\ dry = {} /\ place # "done"
                   /\ place = "choosing" => asked["yc"] = 0 /\ ~ whole
                   /\ place = "reading" => asked["yc"] = target
    /\ turn # 1 => place \in {"choosing", "done"}
    /\ Cardinality(kept) <= target

LEMMA StartupsStep ==
  ASSUME TypeInv, Numbering, Within, StartupsInv, [Next]_vars, vertical = "startups"
  PROVE  StartupsInv'
<1>0. /\ Len(Order[vertical]) = 1 /\ MaxPasses[vertical] = 1 /\ turn \in 1 .. 2
      /\ Order[vertical][1] = "yc" /\ "yc" \in Sources /\ target \in Nat \ {0}
  <2>1. Len(Order[vertical]) = 1 /\ MaxPasses[vertical] = 1 /\ Order[vertical] = <<"yc">>
    BY DEF Order, MaxPasses
  <2> QED
    BY <2>1 DEF TypeInv, Sources
<1>1. CASE Ask \/ AskUnpartitioned
  <2>1. PICK found : AskFor(found)
    BY <1>1 DEF Ask, AskUnpartitioned
  <2>2. turn = 1 /\ Source = "yc" /\ Asking /\ place = "choosing"
    BY <1>0, <2>1 DEF AskFor, Asking, Source
  <2>3. /\ Depth = asked["yc"] + Share /\ Share = Remaining /\ Remaining = target - Cardinality(kept)
    BY <2>2, ShareFacts
  <2>4. Cardinality(kept) = 0 /\ asked["yc"] = 0
    BY <2>2, FS_EmptySet DEF StartupsInv
  <2>5. Depth = target
    BY <1>0, <2>3, <2>4
  <2>6. asked'["yc"] = target
    BY <1>0, <2>1, <2>2, <2>5 DEF AskFor, TypeInv
  <2> QED
    BY <2>1, <2>2, <2>6 DEF AskFor, StartupsInv, config
<1>2. CASE Merge
  <2>1. place = "reading" /\ turn = 1 /\ Source = "yc" /\ kept = {} /\ asked["yc"] = target
    BY <1>0, <1>2 DEF Merge, StartupsInv, Source
  <2>2. kept' = kept \cup Added /\ New \subseteq batch
        /\ Cardinality(kept \cup Added) \in Nat /\ Cardinality(New) \in Nat
        /\ Cardinality(kept \cup Added) <= Cardinality(kept) + Cardinality(New)
    BY <1>2, <2>1, AddedFacts
  <2>3. Cardinality(batch) \in Nat /\ Cardinality(batch) <= target
    BY <2>1, BatchFits
  <2>4. Cardinality(New) <= Cardinality(batch)
    BY <2>2, FS_Subset DEF TypeInv
  <2>5. Cardinality(kept) = 0
    BY <2>1, FS_EmptySet
  <2>6. Cardinality(kept') <= target
    BY <1>0, <2>2, <2>3, <2>4, <2>5
  <2> QED
    BY <1>0, <1>2, <2>1, <2>6 DEF Merge, StartupsInv, config
<1>3. CASE EndPass
  <2>1. turn # 1
    <3>1. Cardinality({}) = 0
      BY FS_EmptySet
    <3> QED
      BY <1>0, <1>3, <3>1 DEF EndPass, Remaining, StartupsInv
  <2> QED
    BY <1>0, <1>3, <2>1 DEF EndPass, StartupsInv, config
<1>4. CASE SkipExhausted
  BY <1>0, <1>4 DEF SkipExhausted, Asking, StartupsInv, Source
<1>5. ASSUME NEW page \in pages, ReadPage(page) \/ LosePage(page)
      PROVE  StartupsInv'
  BY <1>5 DEF ReadPage, LosePage, StartupsInv, config
<1>6. CASE RunRaises
  BY <1>6 DEF RunRaises, StartupsInv, config
<1>7. ASSUME NEW s \in Sources, Publish(s)
      PROVE  StartupsInv'
  BY <1>7 DEF Publish, StartupsInv, config
<1>8. CASE UNCHANGED vars
  BY <1>8 DEF vars, StartupsInv, config
<1> QED
  BY <1>1, <1>2, <1>3, <1>4, <1>5, <1>6, <1>7, <1>8 DEF Next

\* What a products source lists at a number: the page it is on, and its rank among the
\* well-formed entries there, each record once.  A list of entries, not the source, is the
\* parameter.
Entries(list, k) == {i \in k * PageSize + 1 .. Least(k * PageSize + PageSize, Len(list)) : list[i] # Malformed}
Window(list, k) == {i \in Entries(list, k) : \A j \in Entries(list, k) : j < i => list[j] # list[i]}

Holds(list, m, url) ==
  \E k \in Nat : \E i \in Window(list, k) : m = k * PageSize + Rank(Window(list, k), i) /\ url = list[i]

\* All that is listed below n has its key among keys.
Shown(list, keys, n) == \A m \in Nat : \A url : m < n /\ Holds(list, m, url) => Key[url] \in keys

LEMMA WindowFacts ==
  ASSUME NEW list, Len(list) \in Nat, NEW k \in Nat
  PROVE  /\ k * PageSize \in Nat
         /\ Window(list, k) \in SUBSET Nat /\ IsFiniteSet(Window(list, k))
         /\ \A i \in Window(list, k) : Rank(Window(list, k), i) \in Nat /\ Rank(Window(list, k), i) < PageSize
<1>1. PageSize \in Nat /\ k * PageSize \in Nat
  BY Sizes
<1> DEFINE a == k * PageSize
<1>2. a \in Nat
  BY <1>1
<1>3. Window(list, k) \in SUBSET (a + 1 .. a + PageSize)
  <2>1. Least(a + PageSize, Len(list)) \in Nat /\ Least(a + PageSize, Len(list)) <= a + PageSize
    BY <1>1, LeastType
  <2> QED
    BY <1>1, <2>1 DEF Window, Entries
<1> HIDE DEF a
<1>4. IsFiniteSet(a + 1 .. a + PageSize) /\ Cardinality(a + 1 .. a + PageSize) = PageSize
  BY <1>1, <1>2, IntervalSize
<1>5. IsFiniteSet(Window(list, k)) /\ Cardinality(Window(list, k)) <= PageSize
  <2> DEFINE W == Window(list, k)
             B == a + 1 .. a + PageSize
  <2>1. W \in SUBSET B /\ IsFiniteSet(B) /\ Cardinality(B) = PageSize
    BY <1>3, <1>4
  <2> HIDE DEF W, B
  <2>2. IsFiniteSet(W) /\ Cardinality(W) <= Cardinality(B)
    BY <2>1, FS_Subset
  <2> QED
    BY <2>1, <2>2 DEF W
<1>6. Window(list, k) \in SUBSET Nat
  BY <1>2, <1>3
<1>7. Cardinality(Window(list, k)) \in Nat
  BY <1>5, FS_CardinalityType
<1>8. ASSUME NEW i \in Window(list, k)
      PROVE  Rank(Window(list, k), i) \in Nat /\ Rank(Window(list, k), i) < PageSize
  <2>1. /\ Rank(Window(list, k), i) \in Nat
        /\ Rank(Window(list, k), i) < Cardinality(Window(list, k))
    BY <1>5, <1>6, RankGrows
  <2> QED
    BY <1>1, <1>5, <1>7, <2>1
<1> QED
  BY <1>1, <1>5, <1>6, <1>8

\* One record at each number.
LEMMA HoldsOne ==
  ASSUME NEW list, Len(list) \in Nat, NEW m \in Nat, NEW u, NEW v, Holds(list, m, u), Holds(list, m, v)
  PROVE  u = v
<1>1. PICK j \in Nat : \E i \in Window(list, j) : m = j * PageSize + Rank(Window(list, j), i) /\ u = list[i]
  BY DEF Holds
<1>2. PICK a \in Window(list, j) : m = j * PageSize + Rank(Window(list, j), a) /\ u = list[a]
  BY <1>1
<1>3. PICK k \in Nat : \E i \in Window(list, k) : m = k * PageSize + Rank(Window(list, k), i) /\ v = list[i]
  BY DEF Holds
<1>4. PICK b \in Window(list, k) : m = k * PageSize + Rank(Window(list, k), b) /\ v = list[b]
  BY <1>3
<1>5. /\ j * PageSize \in Nat /\ Rank(Window(list, j), a) \in Nat /\ Rank(Window(list, j), a) < PageSize
      /\ k * PageSize \in Nat /\ Rank(Window(list, k), b) \in Nat /\ Rank(Window(list, k), b) < PageSize
  BY WindowFacts
<1>6. PageSize \in Nat
  BY Sizes
<1>7. /\ j < k => j * PageSize + PageSize <= k * PageSize
      /\ k < j => k * PageSize + PageSize <= j * PageSize
  BY <1>6, Multiples
<1>8. j = k
  <2> DEFINE x == j * PageSize
             y == k * PageSize
             q == Rank(Window(list, j), a)
             r == Rank(Window(list, k), b)
  <2>1. x \in Nat /\ y \in Nat /\ q \in Nat /\ q < PageSize /\ r \in Nat /\ r < PageSize /\ x + q = y + r
    BY <1>2, <1>4, <1>5
  <2>2. (j < k => x + PageSize <= y) /\ (k < j => y + PageSize <= x)
    BY <1>7
  <2> HIDE DEF x, y, q, r
  <2> QED
    BY <1>6, <2>1, <2>2
<1>9. Rank(Window(list, k), a) = Rank(Window(list, k), b)
  BY <1>2, <1>4, <1>5, <1>8
<1>10. a = b
  <2>1. Window(list, k) \in SUBSET Nat /\ IsFiniteSet(Window(list, k))
    BY WindowFacts
  <2> QED
    BY <1>8, <1>9, <2>1, RankIsOneToOne
<1> QED
  BY <1>2, <1>4, <1>10

\* A page of a products source, as discover() numbers it.
Regular(p) ==
  \E k \in Nat : p.from = k * PageSize /\ p.upto = k * PageSize + PageSize /\ p.emitted = k * PageSize

LEMMA RegularRecords ==
  ASSUME ListingType, IsFiniteSet(batch), batch \subseteq [url : Urls, at : Nat, page : Nat],
         NEW s \in Sources \ Papers, NEW page \in PageType, Regular(page), NEW e \in Records(s, page)
  PROVE  Holds(listing[s], e.at, e.url)
<1>1. PICK k \in Nat : page.from = k * PageSize /\ page.upto = k * PageSize + PageSize /\ page.emitted = k * PageSize
  BY DEF Regular
<1>2. PICK i \in Parse(s, page) : e.url = listing[s][i] /\ e.at = page.emitted + Nth(s, page, i)
  BY RecordsFacts
<1>3. Distinct(s, page) = Window(listing[s], k)
  <2>1. WellFormed(s, page) = Entries(listing[s], k)
    BY <1>1 DEF WellFormed, Entries
  <2> QED
    BY <2>1 DEF Distinct, Window
<1>4. Nth(s, page, i) = Rank(Window(listing[s], k), i) /\ i \in Window(listing[s], k)
  BY <1>2, <1>3 DEF Nth, Rank, Parse
<1> QED
  BY <1>1, <1>2, <1>4 DEF Holds

LEMMA RegularPages ==
  ASSUME NEW s \in Sources, s \notin {"arxiv", "openalex", "yc"}, NEW n \in Nat
  PROVE  \A p \in Pages(s, n) : Regular(p)
<1>1. Least(n, MaxPages * PageSize) \in Nat
  BY Sizes, LeastType
<1>2. \E m \in Nat : Pages(s, n) = TrimmedPages(m)
  BY <1>1, PagesOf
<1>3. PICK m \in Nat : Pages(s, n) = TrimmedPages(m)
  BY <1>2
<1>4. \A k \in PageNumbers(m) : k \in Nat
  BY OnPageFits
<1> QED
  BY <1>3, <1>4, TrimmedPage DEF Regular

\* Of the elements with one key that is not there yet, the first is added.
LEMMA FirstOfKey ==
  ASSUME TypeInv, vertical = "products", NEW e \in batch, Key[e.url] \notin KeptKeys
  PROVE  \E d \in New : Key[d.url] = Key[e.url]
<1> DEFINE S == {d \in batch : Key[d.url] = Key[e.url]}
           P == {d.page : d \in S}
<1>1. \A d \in batch : d.page \in Nat /\ d.at \in Nat
  BY DEF TypeInv
<1>2. P \in SUBSET Nat /\ e.page \in P
  BY <1>1
<1>3. PICK p \in P : \A q \in P : p <= q
  <2> HIDE DEF P
  <2> QED
    BY <1>2, LeastElement
<1> DEFINE A == {d.at : d \in {c \in S : c.page = p}}
<1>4. A \in SUBSET Nat /\ A # {}
  BY <1>1, <1>3
<1>5. PICK a \in A : \A b \in A : a <= b
  <2> HIDE DEF A
  <2> QED
    BY <1>4, LeastElement
<1>6. PICK d \in batch : Key[d.url] = Key[e.url] /\ d.page = p /\ d.at = a
  BY <1>5
<1>7. ASSUME NEW c \in batch, Before(c, d)
      PROVE  Key[c.url] # Key[d.url]
  <2> SUFFICES ASSUME Key[c.url] = Key[d.url]
               PROVE  FALSE
    OBVIOUS
  <2>1. c \in S /\ c.page \in P
    BY <1>6
  <2>2. p <= c.page
    BY <1>3, <2>1
  <2>3. c.page = p => a <= c.at
    BY <1>5, <2>1
  <2> QED
    BY <1>1, <1>6, <1>7, <2>2, <2>3 DEF Before
<1>8. d.url \notin KeptUrls
  BY <1>6 DEF KeptUrls, KeptKeys
<1> QED
  BY <1>6, <1>7, <1>8 DEF New

\* Products, while no listing changes: all a source not written off was asked for so far
\* is there under its key, so that an adapter run can only add what lies deeper.
ProductsInv ==
  vertical = "products" /\ moves = 0 =>
    /\ Cardinality(kept) <= target
    /\ place \in {"choosing", "reading"} =>
         \A s \in Sources \ dry :
           (place = "reading" => s # Source) => Shown(listing[s], KeptKeys, asked[s])
    /\ place = "reading" =>
         /\ \A p \in pages : Regular(p)
         /\ \A e \in batch : Holds(listing[Source], e.at, e.url)
         /\ \E d \in Nat : /\ Shown(listing[Source], KeptKeys, d)
                           /\ Cardinality(kept) + asked[Source] <= target + d

\* What one adapter run adds fits what is missing.
LEMMA ProductsMerge ==
  ASSUME TypeInv, Numbering, Within, ProductsInv, vertical = "products", moves = 0, Merge
  PROVE  /\ Cardinality(kept') <= target
         /\ \A e \in batch : Key[e.url] \in KeptKeys'
         /\ Source \notin dry' => Shown(listing[Source], KeptKeys', asked[Source])
<1>1. place = "reading"
  BY DEF Merge
<1>2. /\ kept' = kept \cup Added /\ New \subseteq batch
      /\ Cardinality(kept) \in Nat /\ Cardinality(New) \in Nat
      /\ Cardinality(kept \cup Added) \in Nat
      /\ Cardinality(kept \cup Added) <= Cardinality(kept) + Cardinality(New)
  BY <1>1, AddedFacts
<1>3. /\ Source \in Sources /\ asked[Source] \in Nat /\ Cardinality(batch) \in Nat
      /\ Cardinality(batch) >= asked[Source] => \A m \in 0 .. asked[Source] - 1 : \E e \in batch : e.at = m
  BY <1>1, BatchFits
<1>4. PICK d \in Nat : /\ Shown(listing[Source], KeptKeys, d)
                       /\ Cardinality(kept) + asked[Source] <= target + d
  BY <1>1 DEF ProductsInv
<1>5. \A e \in batch : Holds(listing[Source], e.at, e.url) /\ e.at \in Nat /\ e.at < asked[Source]
  BY <1>1 DEF ProductsInv, Within, TypeInv
<1>6. \A e \in New : d <= e.at
  <2> SUFFICES ASSUME NEW e \in New, e.at < d
               PROVE  FALSE
    BY <1>2, <1>5
  <2>1. Key[e.url] \in KeptKeys
    BY <1>2, <1>4, <1>5 DEF Shown
  <2> QED
    BY <2>1 DEF New
<1>7. New # {} => Cardinality(New) <= asked[Source] - d /\ d < asked[Source]
  <2> SUFFICES ASSUME New # {}
               PROVE  Cardinality(New) <= asked[Source] - d /\ d < asked[Source]
    OBVIOUS
  <2> DEFINE n == asked[Source] - d
             f == [e \in New |-> e.at - d]
  <2>1. \A e \in New : e.at \in Nat /\ d <= e.at /\ e.at < asked[Source]
    BY <1>2, <1>5, <1>6
  <2>2. n \in Nat /\ d < asked[Source]
    BY <1>3, <2>1
  <2>3. \A e \in New : e.at - d \in 0 .. n - 1
    BY <1>3, <2>1
  <2>4. f \in [New -> 0 .. n - 1]
    BY <2>3
  <2>5. \A a, b \in New : f[a] = f[b] => a = b
    BY <1>2, <2>1 DEF Numbering
  <2> HIDE DEF f, n
  <2>6. Cardinality(New) <= n
    BY <2>2, <2>4, <2>5, Numbered
  <2> QED
    BY <2>2, <2>6 DEF n
<1>8. New = {} => Cardinality(New) = 0
  BY FS_EmptySet
<1>9. Cardinality(kept') <= target
  <2>1. target \in Nat /\ Cardinality(kept) <= target
    BY DEF TypeInv, ProductsInv
  <2> QED
    BY <1>2, <1>3, <1>4, <1>7, <1>8, <2>1
<1>10. KeptKeys \subseteq KeptKeys' /\ \A e \in New : Key[e.url] \in KeptKeys'
  <2>1. KeptKeys \subseteq KeptKeys'
    BY <1>2 DEF KeptKeys
  <2>2. ASSUME NEW e \in New
        PROVE  Key[e.url] \in KeptKeys'
    <3>1. [url |-> e.url, source |-> Source, run |-> runs, at |-> e.at] \in kept'
      BY <1>2 DEF Added
    <3> QED
      BY <3>1 DEF KeptKeys
  <2> QED
    BY <2>1, <2>2
<1>11. ASSUME NEW e \in batch
       PROVE  Key[e.url] \in KeptKeys'
  <2>1. CASE Key[e.url] \in KeptKeys
    BY <1>10, <2>1
  <2>2. CASE Key[e.url] \notin KeptKeys
    BY <1>10, <2>2, FirstOfKey
  <2> QED
    BY <2>1, <2>2
<1>12. ASSUME Source \notin dry'
       PROVE  Shown(listing[Source], KeptKeys', asked[Source])
  <2>1. Cardinality(batch) >= asked[Source]
    BY <1>3, <1>12 DEF Merge, Exhausted
  <2>2. Len(listing[Source]) \in Nat
    BY <1>3 DEF TypeInv, ListingType
  <2>3. ASSUME NEW m \in Nat, NEW url, m < asked[Source], Holds(listing[Source], m, url)
        PROVE  Key[url] \in KeptKeys'
    <3>1. m \in 0 .. asked[Source] - 1
      BY <1>3, <2>3
    <3>2. PICK e \in batch : e.at = m
      BY <1>3, <2>1, <3>1
    <3>3. e.url = url
      BY <1>5, <2>2, <2>3, <3>2, HoldsOne
    <3> QED
      BY <1>11, <3>3
  <2> QED
    BY <2>3 DEF Shown
<1> QED
  BY <1>9, <1>11, <1>12

\* More keys show no less.
LEMMA ShownGrows ==
  ASSUME NEW list, NEW n, NEW keys, NEW more, keys \subseteq more, Shown(list, keys, n)
  PROVE  Shown(list, more, n)
BY DEF Shown

LEMMA ProductsStep ==
  ASSUME TypeInv, Numbering, Within, ProductsInv, [Next]_vars, vertical = "products", moves' = 0
  PROVE  ProductsInv'
<1>0. moves = 0 /\ target' = target /\ vertical' = vertical
  <2>1. target' = target /\ vertical' = vertical
    BY DEF Next, vars, config, Ask, AskUnpartitioned, AskFor, SkipExhausted, EndPass, ReadPage, LosePage,
           RunRaises, Merge, Publish
  <2>2. moves' = moves \/ moves' = moves + 1
    BY DEF Next, vars, Ask, AskUnpartitioned, AskFor, SkipExhausted, EndPass, ReadPage, LosePage,
           RunRaises, Merge, Publish
  <2>3. moves \in Nat
    BY DEF TypeInv
  <2> QED
    BY <2>1, <2>2, <2>3
<1>1. CASE Ask \/ AskUnpartitioned
  <2>1. Asking /\ place = "choosing" /\ Source \notin dry
    BY <1>1 DEF Ask, AskUnpartitioned, AskFor, Asking
  <2>2. /\ Source \in Sources /\ Source \notin {"arxiv", "openalex", "yc"}
    BY <2>1, OrderFacts DEF Asking, TypeInv, Source
  <2>3. /\ AskFor(Pages(Source, Depth)) /\ Depth \in Nat /\ Depth = asked[Source] + Share
        /\ Share \in Nat /\ Share <= target - Cardinality(kept) /\ Cardinality(kept) \in Nat
    BY <1>1, <2>1, <2>2, ShareFacts DEF Ask, AskUnpartitioned
  <2>4. /\ pages' = Pages(Source, Depth) /\ batch' = {} /\ turn' = turn /\ dry' = dry /\ kept' = kept
        /\ listing' = listing /\ asked' = [asked EXCEPT ![Source] = Depth] /\ asked \in [Sources -> Nat]
        /\ place' = "reading"
    BY <2>3 DEF AskFor, TypeInv
  <2>5. Source' = Source /\ KeptKeys' = KeptKeys
    BY <1>0, <2>4 DEF Source, KeptKeys
  <2>6. \A p \in pages' : Regular(p)
    BY <2>2, <2>3, <2>4, RegularPages
  <2>7. asked'[Source] = Depth /\ \A s \in Sources : s # Source => asked'[s] = asked[s]
    BY <2>2, <2>4
  <2>8. Shown(listing[Source], KeptKeys, asked[Source]) /\ asked[Source] \in Nat
    BY <1>0, <2>1, <2>2, <2>4 DEF ProductsInv
  <2>9. Cardinality(kept) + Depth <= target + asked[Source]
    BY <2>3, <2>8 DEF TypeInv
  <2>10. \A s \in Sources \ dry : s # Source => Shown(listing[s], KeptKeys, asked[s])
    BY <1>0, <2>1 DEF ProductsInv
  <2> QED
    BY <1>0, <2>4, <2>5, <2>6, <2>7, <2>8, <2>9, <2>10 DEF ProductsInv, Regular
<1>2. CASE Merge
  <2>1. /\ Cardinality(kept') <= target
        /\ Source \notin dry' => Shown(listing[Source], KeptKeys', asked[Source])
    BY <1>0, <1>2, ProductsMerge
  <2>2. /\ place = "reading" /\ place' = "choosing" /\ asked' = asked /\ listing' = listing /\ dry \subseteq dry'
    BY <1>2 DEF Merge
  <2>3. KeptKeys \subseteq KeptKeys'
    BY <1>2 DEF Merge, KeptKeys
  <2>4. ASSUME NEW s \in Sources \ dry'
        PROVE  Shown(listing[s], KeptKeys', asked[s])
    <3>1. s # Source => Shown(listing[s], KeptKeys, asked[s])
      BY <1>0, <2>2, <2>4 DEF ProductsInv
    <3> QED
      BY <2>1, <2>3, <2>4, <3>1, ShownGrows
  <2> QED
    BY <1>0, <2>1, <2>2, <2>4 DEF ProductsInv
<1>3. ASSUME NEW page \in pages, ReadPage(page)
      PROVE  ProductsInv'
  <2>1. /\ batch' = batch \cup Records(Source, page) /\ pages' = pages \ {page}
        /\ UNCHANGED <<turn, asked, place, listing, dry, kept>> /\ place = "reading"
        /\ Source \in Sources /\ page \in PageType
    BY <1>3, OrderFacts DEF ReadPage, TypeInv, Source
  <2>2. Source' = Source /\ KeptKeys' = KeptKeys
    BY <1>0, <2>1 DEF Source, KeptKeys
  <2>3. Regular(page)
    BY <1>0, <2>1 DEF ProductsInv
  <2>a. Source \notin Papers
    <3>1. vertical \in Verticals /\ turn \in 1 .. Len(Order[vertical])
      BY <1>3 DEF ReadPage, TypeInv
    <3>2. Source \in {"arxiv", "openalex"} <=> vertical = "research"
      BY <3>1, OrderFacts DEF Source
    <3> QED
      BY <3>2 DEF Papers
  <2>4. \A e \in Records(Source, page) : Holds(listing[Source], e.at, e.url)
    BY <2>1, <2>3, <2>a, RegularRecords DEF TypeInv
  <2> QED
    BY <1>0, <2>1, <2>2, <2>4 DEF ProductsInv, Regular
<1>4. ASSUME NEW page \in pages, LosePage(page)
      PROVE  ProductsInv'
  <2>1. /\ batch' = batch /\ pages' \subseteq pages
        /\ UNCHANGED <<turn, asked, place, listing, dry, kept>>
    BY <1>4 DEF LosePage
  <2>2. Source' = Source /\ KeptKeys' = KeptKeys
    BY <1>0, <2>1 DEF Source, KeptKeys
  <2> QED
    BY <1>0, <2>1, <2>2 DEF ProductsInv, Regular
<1>5. CASE SkipExhausted
  BY <1>0, <1>5 DEF SkipExhausted, Asking, ProductsInv, KeptKeys
<1>6. CASE EndPass
  BY <1>0, <1>6 DEF EndPass, ProductsInv, KeptKeys
<1>7. CASE RunRaises
  BY <1>0, <1>7 DEF RunRaises, ProductsInv, KeptKeys
<1>8. CASE UNCHANGED vars
  BY <1>0, <1>8 DEF vars, config, ProductsInv, KeptKeys, Source, Regular
<1>9. ~ \E s \in Sources : Publish(s)
  BY <1>0 DEF Publish
<1> QED
  BY <1>1, <1>2, <1>3, <1>4, <1>5, <1>6, <1>7, <1>8, <1>9 DEF Next

LEMMA CeilingAlways == Spec => [](StartupsInv /\ ProductsInv)
<1>1. Init => StartupsInv /\ ProductsInv
  <2> SUFFICES ASSUME Init
               PROVE  StartupsInv /\ ProductsInv
    OBVIOUS
  <2>1. Cardinality(kept) = 0 /\ kept = {} /\ target \in Nat
    BY BoundsAssumption, FS_EmptySet DEF Init
  <2>2. StartupsInv
    BY <2>1 DEF Init, StartupsInv, Sources
  <2>3. \A list : Shown(list, KeptKeys, 0)
    BY DEF Shown
  <2>4. ProductsInv
    BY <2>1, <2>3 DEF Init, ProductsInv
  <2> QED
    BY <2>2, <2>4
<1>2. TypeInv /\ Numbering /\ Within /\ StartupsInv /\ ProductsInv /\ [Next]_vars => (StartupsInv /\ ProductsInv)'
  <2> SUFFICES ASSUME TypeInv, Numbering, Within, StartupsInv, ProductsInv, [Next]_vars
               PROVE  StartupsInv' /\ ProductsInv'
    OBVIOUS
  <2>1. vertical' = vertical
    BY DEF Next, vars, config, Ask, AskUnpartitioned, AskFor, SkipExhausted, EndPass, ReadPage, LosePage,
           RunRaises, Merge, Publish
  <2>2. StartupsInv'
    BY <2>1, StartupsStep DEF StartupsInv
  <2>3. ProductsInv'
    BY <2>1, ProductsStep DEF ProductsInv
  <2> QED
    BY <2>2, <2>3
<1> QED
  BY <1>1, <1>2, TypeAlways, NumberingAlways, WithinAlways, PTL DEF Spec

\* The theorem of TargetIsCeiling: for all listings, batches and sizes, and whatever pages
\* are lost, startups and products never keep more records than the target.
THEOREM NeverAboveTarget == Spec => []TargetIsCeiling
<1>1. StartupsInv /\ ProductsInv => TargetIsCeiling
  BY DEF StartupsInv, ProductsInv, TargetIsCeiling
<1> QED
  BY <1>1, CeilingAlways, PTL

-----------------------------------------------------------------------------
(* When a source is written off.                                           *)

\* Where a page of a listing of which nothing is skipped numbers an entry.
LEMMA PageReaches ==
  ASSUME ListingType, NEW s \in Sources, NoneSkipped(s), NEW p \in PageType, NEW i \in Nat,
         p.upto <= p.from + PageSize,
         p.from < i, i <= p.upto, i <= Len(listing[s]), i - p.from - 1 < p.limit
  PROVE  i \in Parse(s, p) /\ p.emitted + Nth(s, p, i) = p.emitted + (i - p.from - 1)
<1> DEFINE n == i - p.from - 1
<1>1. Len(listing[s]) \in Nat /\ DOMAIN listing[s] = 1 .. Len(listing[s])
  BY DEF ListingType
<1>2. p.from \in Nat /\ p.upto \in Nat /\ p.limit \in Nat /\ n \in Nat /\ i = p.from + n + 1
  BY DEF PageType
<1>3. \A j : j \in Distinct(s, p) <=> j \in Nat /\ p.from < j /\ j <= p.upto /\ j <= Len(listing[s])
  <2>1. \A j \in p.from + 1 .. Least(p.upto, Len(listing[s])) : j \in DOMAIN listing[s]
    BY <1>1, <1>2 DEF Least
  <2>a. WellFormed(s, p) = p.from + 1 .. Least(p.upto, Len(listing[s]))
    BY <2>1 DEF WellFormed, NoneSkipped
  <2>b. ASSUME NEW x \in WellFormed(s, p), NEW y \in WellFormed(s, p), x < y, s \notin Papers
        PROVE  listing[s][x] # listing[s][y]
    <3>1. x \in DOMAIN listing[s] /\ y \in DOMAIN listing[s]
      BY <2>1, <2>a, <2>b
    <3> DEFINE a == p.from
               b == p.upto
               len == Len(listing[s])
    <3>a. /\ a \in Nat /\ b \in Nat /\ len \in Nat /\ PageSize \in Nat /\ b <= a + PageSize
          /\ x \in a + 1 .. Least(b, len) /\ y \in a + 1 .. Least(b, len)
      BY <1>1, <1>2, <2>a, Sizes
    <3> HIDE DEF a, b, len
    <3>2. y < x + PageSize
      BY <3>a DEF Least
    <3> QED
      BY <2>b, <3>1, <3>2 DEF NoneSkipped
  <2>2. Distinct(s, p) = p.from + 1 .. Least(p.upto, Len(listing[s]))
    BY <2>a, <2>b DEF Distinct
  <2> DEFINE a == p.from
             b == p.upto
             len == Len(listing[s])
  <2>3. a \in Nat /\ b \in Nat /\ len \in Nat /\ Distinct(s, p) = a + 1 .. Least(b, len)
    BY <1>1, <1>2, <2>2
  <2> HIDE DEF a, b, len
  <2>4. \A j : j \in Distinct(s, p) <=> j \in Nat /\ a < j /\ j <= b /\ j <= len
    BY <2>3 DEF Least
  <2> QED
    BY <2>4 DEF a, b, len
<1>4. {j \in Distinct(s, p) : j < i} = p.from + 1 .. p.from + n
  <2> DEFINE a == p.from
             b == p.upto
             len == Len(listing[s])
             W == Distinct(s, p)
  <2>1. /\ a \in Nat /\ b \in Nat /\ len \in Nat /\ n \in Nat /\ i = a + n + 1 /\ i <= b /\ i <= len
        /\ \A j : j \in W <=> j \in Nat /\ a < j /\ j <= b /\ j <= len
    BY <1>1, <1>2, <1>3
  <2> HIDE DEF n, a, b, len, W
  <2>2. \A j : j \in {c \in W : c < i} <=> j \in a + 1 .. a + n
    <3>1. \A j : j \in a + 1 .. a + n <=> j \in Nat /\ a < j /\ j < i
      BY <2>1
    <3>2. \A j \in Nat : j < i => j <= b /\ j <= len
      BY <2>1
    <3> QED
      BY <2>1, <3>1, <3>2
  <2>3. {c \in W : c < i} = a + 1 .. a + n
    BY <2>2
  <2> QED
    BY <2>3 DEF a, W
<1>5. Nth(s, p, i) = n
  <2> HIDE DEF n
  <2>1. Cardinality(p.from + 1 .. p.from + n) = n
    BY <1>2, IntervalSize
  <2> QED
    BY <1>4, <2>1 DEF Nth
<1> QED
  BY <1>3, <1>5 DEF Parse

\* Entry i of the listing is to come under the number m.
Reaches(s, found, m, i) ==
  /\ i \in 1 .. Len(listing[s])
  /\ \E p \in found : i \in Parse(s, p) /\ p.emitted + Nth(s, p, i) = m

LEMMA ExactReaches ==
  ASSUME ListingType, NEW s \in Sources, NoneSkipped(s), NEW n \in Nat, NEW m \in Nat, m < n,
         m < Len(listing[s])
  PROVE  Reaches(s, ExactPages(n), m, m + 1)
<1>1. PageSize \in Nat \ {0} /\ Len(listing[s]) \in Nat
  BY Sizes DEF ListingType
<1>2. PICK k \in Nat : k * PageSize <= m /\ m < k * PageSize + PageSize
  BY PageOf
<1> DEFINE a == k * PageSize
           c == OnPage(k, n)
           b == a + c
           p == Page(a, b, a, PageSize)
<1>3. a \in Nat /\ k \in PageNumbers(n)
  <2>1. a \in Nat
    BY <1>1
  <2>2. a < n
    BY <1>2, <2>1
  <2> QED
    BY <2>1, <2>2, PageNumbersBelow
<1>4. c \in Nat /\ m < a + c /\ c <= PageSize
  BY <1>2, <1>3, OnPageFits
<1>5. p \in ExactPages(n)
  BY <1>3 DEF ExactPages
<1> HIDE DEF a, c
<1>6. b \in Nat /\ b <= a + PageSize /\ a <= m /\ m < a + PageSize
  BY <1>1, <1>2, <1>3, <1>4 DEF a
<1> HIDE DEF p
<1>7. p \in PageType /\ p.from = a /\ p.upto = b /\ p.emitted = a /\ p.limit = PageSize
  BY <1>1, <1>3, <1>6, PageFields DEF p
<1>8. /\ m + 1 \in Nat /\ p.from < m + 1 /\ m + 1 <= p.upto /\ m + 1 <= Len(listing[s])
      /\ (m + 1) - p.from - 1 < p.limit /\ p.emitted + ((m + 1) - p.from - 1) = m
      /\ p.upto <= p.from + PageSize
  BY <1>1, <1>3, <1>4, <1>6, <1>7
<1>9. m + 1 \in Parse(s, p) /\ p.emitted + Nth(s, p, m + 1) = m
  BY <1>7, <1>8, PageReaches
<1> QED
  BY <1>1, <1>5, <1>9 DEF Reaches

LEMMA TrimmedReaches ==
  ASSUME ListingType, NEW s \in Sources, NoneSkipped(s), NEW n \in Nat, NEW m \in Nat, m < n,
         m < Len(listing[s])
  PROVE  Reaches(s, TrimmedPages(n), m, m + 1)
<1>1. PageSize \in Nat \ {0} /\ Len(listing[s]) \in Nat
  BY Sizes DEF ListingType
<1>2. PICK k \in Nat : k * PageSize <= m /\ m < k * PageSize + PageSize
  BY PageOf
<1> DEFINE a == k * PageSize
           c == OnPage(k, n)
           b == (k + 1) * PageSize
           p == Page(a, b, a, c)
<1>3. a \in Nat /\ k \in PageNumbers(n) /\ b = a + PageSize
  <2>1. a \in Nat /\ b = a + PageSize
    BY <1>1, Multiples
  <2>2. a < n
    BY <1>2, <2>1
  <2> QED
    BY <2>1, <2>2, PageNumbersBelow
<1>4. c \in Nat /\ m < a + c
  BY <1>2, <1>3, OnPageFits
<1>5. p \in TrimmedPages(n)
  BY <1>3 DEF TrimmedPages
<1> HIDE DEF a, b, c
<1>6. b \in Nat /\ b <= a + PageSize /\ a <= m /\ m < a + PageSize
  BY <1>1, <1>2, <1>3, <1>4 DEF a
<1> HIDE DEF p
<1>7. p \in PageType /\ p.from = a /\ p.upto = b /\ p.emitted = a /\ p.limit = c
  BY <1>3, <1>4, <1>6, PageFields DEF p
<1>8. /\ m + 1 \in Nat /\ p.from < m + 1 /\ m + 1 <= p.upto /\ m + 1 <= Len(listing[s])
      /\ (m + 1) - p.from - 1 < p.limit /\ p.emitted + ((m + 1) - p.from - 1) = m
      /\ p.upto <= p.from + PageSize
  BY <1>1, <1>3, <1>4, <1>6, <1>7
<1>9. m + 1 \in Parse(s, p) /\ p.emitted + Nth(s, p, m + 1) = m
  BY <1>7, <1>8, PageReaches
<1> QED
  BY <1>1, <1>5, <1>9 DEF Reaches

\* OpenAlex's last page repeats entries instead of reaching the ones it is numbered for.
LEMMA ShrinkingReaches ==
  ASSUME ListingType, NEW s \in Sources, NoneSkipped(s), NEW n \in Nat, NEW m \in Nat, m < n,
         m < Len(listing[s])
  PROVE  \E i : Reaches(s, ShrinkingPages(n), m, i)
<1>1. PageSize \in Nat \ {0} /\ Len(listing[s]) \in Nat
  BY Sizes DEF ListingType
<1>2. PICK k \in Nat : k * PageSize <= m /\ m < k * PageSize + PageSize
  BY PageOf
<1> DEFINE e == k * PageSize
           c == OnPage(k, n)
           a == k * c
           b == (k + 1) * c
           p == Page(a, b, e, PageSize)
           i == a + (m - e) + 1
<1>3. e \in Nat /\ k \in PageNumbers(n)
  <2>1. e \in Nat
    BY <1>1
  <2>2. e < n
    BY <1>2, <2>1
  <2> QED
    BY <2>1, <2>2, PageNumbersBelow
<1>4. c \in Nat /\ c <= PageSize /\ m < e + c
  BY <1>1, <1>2, <1>3, OnPageFits
<1>5. p \in ShrinkingPages(n)
  BY <1>3 DEF ShrinkingPages
<1> HIDE DEF c
<1>6. a \in Nat /\ b = a + c
  BY <1>4, Multiples
<1>7. a <= e
  <2>1. \A x, y \in Nat : x <= y => x * k <= y * k
    BY Multiples
  <2>2. c * k <= PageSize * k /\ c * k = a /\ PageSize * k = e
    BY <1>1, <1>4, <2>1
  <2> QED
    BY <2>2
<1> HIDE DEF a, b, e
<1>8. b \in Nat /\ e <= m /\ m < e + PageSize
  BY <1>2, <1>4, <1>6 DEF e
<1> HIDE DEF p
<1>9. p \in PageType /\ p.from = a /\ p.upto = b /\ p.emitted = e /\ p.limit = PageSize
  BY <1>1, <1>3, <1>6, <1>8, PageFields DEF p
<1>10. /\ i \in Nat /\ p.from < i /\ i <= p.upto /\ i <= Len(listing[s]) /\ 1 <= i
       /\ i - p.from - 1 < p.limit /\ p.emitted + (i - p.from - 1) = m
       /\ p.upto <= p.from + PageSize
  BY <1>1, <1>3, <1>4, <1>6, <1>7, <1>8, <1>9
<1> HIDE DEF i
<1>11. i \in Parse(s, p) /\ p.emitted + Nth(s, p, i) = m
  BY <1>9, <1>10, PageReaches
<1>12. i \in 1 .. Len(listing[s])
  BY <1>1, <1>10
<1> QED
  BY <1>5, <1>11, <1>12 DEF Reaches

\* The queries of the batches reach all that they return, when whole pages make up what a
\* query returns.
LEMMA PartitionedReaches ==
  ASSUME ListingType, NoneSkipped("yc"), MaxHits % PageSize = 0, NEW n \in Nat,
         NEW i \in Returned, Rank(Returned, i) < n
  PROVE  Reaches("yc", PartitionedPages(n), Rank(Returned, i), i)
<1>1. PageSize \in Nat \ {0} /\ MaxHits \in Nat \ {0} /\ "yc" \in Sources /\ Len(listing["yc"]) \in Nat
  BY Sizes, BatchesAre DEF Sources
<1>2. PICK q \in Batches : i \in Places(q)
  BY DEF Returned
<1> DEFINE r == i - q.start - 1
<1>3. /\ q.start \in Nat /\ q.len \in Nat /\ Emitted(q) \in Nat /\ i \in Nat /\ i \in 1 .. Len(listing["yc"])
      /\ r \in Nat /\ r < q.len /\ r < MaxHits /\ i = q.start + r + 1
  <2>1. /\ q.start \in Nat /\ q.len \in Nat /\ Emitted(q) \in Nat /\ i \in 1 .. Len(listing["yc"])
        /\ i \in Nat /\ q.start < i /\ i <= q.start + q.len /\ i <= q.start + MaxHits
    BY <1>2, BatchesAre, Ranks
  <2> DEFINE a == q.start
             m == q.len
  <2>2. /\ a \in Nat /\ m \in Nat /\ i \in Nat /\ a < i /\ i <= a + m /\ i <= a + MaxHits
        /\ r = i - a - 1
    BY <2>1
  <2> HIDE DEF r, a, m
  <2>3. r \in Nat /\ r < m /\ r < MaxHits /\ i = a + r + 1
    BY <1>1, <2>2
  <2> QED
    BY <2>1, <2>3 DEF a, m
<1>4. Rank(Returned, i) = Emitted(q) + r /\ Cardinality(Places(q)) = Least(q.len, MaxHits)
  BY <1>2, Ranks
<1> HIDE DEF r
<1> DEFINE take == Least(Cardinality(Places(q)), n - Emitted(q))
<1>5. Emitted(q) < n /\ take \in Nat /\ r < take
  <2> DEFINE e == Emitted(q)
             c == Cardinality(Places(q))
  <2>1. /\ e \in Nat /\ r \in Nat /\ r < q.len /\ r < MaxHits /\ c = Least(q.len, MaxHits)
        /\ q.len \in Nat /\ e + r < n
    BY <1>3, <1>4
  <2>2. c \in Nat /\ r < c
    <3> HIDE DEF c
    <3>1. q.len \in Nat /\ MaxHits \in Nat /\ r < q.len /\ r < MaxHits /\ c = Least(q.len, MaxHits)
      BY <1>1, <2>1
    <3> QED
      BY <3>1, LeastType
  <2> HIDE DEF e, c
  <2>3. e < n /\ Least(c, n - e) \in Nat /\ r < Least(c, n - e)
    BY <2>1, <2>2 DEF Least
  <2> QED
    BY <2>3 DEF e, c
<1> HIDE DEF take
<1>6. PICK k \in Nat : k * PageSize <= r /\ r < k * PageSize + PageSize
  BY <1>3, PageOf
<1> DEFINE a == k * PageSize
<1>7. /\ a \in Nat /\ a <= r /\ r < a + PageSize /\ (k + 1) * PageSize = a + PageSize
      /\ k \in PageNumbers(take)
  <2>1. a \in Nat /\ (k + 1) * PageSize = a + PageSize
    BY <1>1, Multiples
  <2>2. a < take
    BY <1>3, <1>5, <1>6, <2>1
  <2> QED
    BY <1>5, <1>6, <2>1, <2>2, PageNumbersBelow
<1>8. a + PageSize <= MaxHits
  <2> DEFINE h == MaxHits \div PageSize
  <2>1. h \in Nat /\ MaxHits = PageSize * h + (MaxHits % PageSize)
    BY <1>1
  <2>2. h * PageSize = MaxHits
    <3>1. PageSize * h = h * PageSize /\ h * PageSize \in Nat
      BY <1>1, <2>1
    <3> HIDE DEF h
    <3> QED
      BY <2>1, <3>1
  <2> HIDE DEF h
  <2>3. h <= k => h * PageSize <= a
    BY <1>1, <2>1, Multiples
  <2>4. k < h
    <3>1. h <= k => MaxHits <= a
      BY <2>2, <2>3
    <3>2. a \in Nat /\ a <= r /\ r \in Nat /\ r < MaxHits
      BY <1>3, <1>7
    <3> HIDE DEF a
    <3> QED
      BY <1>1, <2>1, <3>1, <3>2
  <2> QED
    BY <1>1, <2>1, <2>2, <2>4, Multiples
<1> DEFINE from == q.start + a
           upto == q.start + Least(a + PageSize, q.len)
           number == Emitted(q) + a
           limit == OnPage(k, take)
           p == Page(from, upto, number, limit)
<1>9. p \in PartitionedPages(n)
  <2>1. p \in PartPages(q, take)
    BY <1>7, <1>8 DEF PartPages
  <2> QED
    BY <1>5, <2>1 DEF PartitionedPages, take
<1>10. limit \in Nat /\ r < a + limit
  BY <1>3, <1>5, <1>7, OnPageFits
<1>a. /\ a \in Nat /\ a <= r /\ r \in Nat /\ q.start \in Nat /\ Emitted(q) \in Nat
      /\ i = q.start + r + 1
  BY <1>3, <1>7
<1> HIDE DEF limit, a
<1>11. from \in Nat /\ upto \in Nat /\ number \in Nat /\ i <= upto /\ upto <= from + PageSize
  <2> DEFINE w == Least(a + PageSize, q.len)
  <2>1. w \in Nat /\ r + 1 <= w /\ w <= a + PageSize
    BY <1>1, <1>3, <1>7 DEF Least
  <2> HIDE DEF w
  <2>2. upto = q.start + w
    BY DEF w
  <2>3. from \in Nat /\ number \in Nat /\ from = q.start + a
    BY <1>a
  <2>4. q.start \in Nat /\ i = q.start + r + 1 /\ r \in Nat
    BY <1>a
  <2> DEFINE start == q.start
  <2> HIDE DEF start, from, upto, number
  <2>5. /\ start \in Nat /\ a \in Nat /\ PageSize \in Nat /\ r \in Nat
        /\ upto = start + w /\ from = start + a /\ i = start + r + 1
    BY <1>1, <1>a, <2>2, <2>3, <2>4 DEF start
  <2>6. upto \in Nat /\ i <= upto /\ upto <= from + PageSize
    BY <2>1, <2>5
  <2> QED
    BY <2>3, <2>6
<1>12. from < i /\ i - from - 1 = r - a /\ number + (r - a) = Emitted(q) + r
  BY <1>a
<1> HIDE DEF from, upto, number
<1> HIDE DEF p
<1>13. p \in PageType /\ p.from = from /\ p.upto = upto /\ p.emitted = number /\ p.limit = limit
  BY <1>10, <1>11, PageFields DEF p
<1>14. i \in Nat /\ p.from < i /\ i <= p.upto /\ i <= Len(listing["yc"]) /\ i - p.from - 1 < p.limit
       /\ p.upto <= p.from + PageSize
  BY <1>1, <1>3, <1>7, <1>10, <1>11, <1>12, <1>13
<1>15. i \in Parse("yc", p) /\ p.emitted + Nth("yc", p, i) = p.emitted + (i - p.from - 1)
  BY <1>1, <1>13, <1>14, PageReaches
<1>16. p.emitted + Nth("yc", p, i) = Rank(Returned, i)
  BY <1>4, <1>12, <1>13, <1>15
<1> QED
  BY <1>3, <1>9, <1>15, <1>16 DEF Reaches

LEMMA OneQueryFacts ==
  ASSUME ListingType
  PROVE  /\ OneQuery \in SUBSET Nat /\ IsFiniteSet(OneQuery) /\ OneQuery \subseteq 1 .. Len(listing["yc"])
         /\ Cardinality(OneQuery) = Least(Len(listing["yc"]), MaxHits)
         /\ Least(Len(listing["yc"]), MaxHits) \in Nat
         /\ \A i \in OneQuery : Rank(OneQuery, i) = i - 1 /\ i - 1 \in Nat /\ i - 1 < Cardinality(OneQuery)
<1> DEFINE n == Least(Len(listing["yc"]), MaxHits)
<1>1. Len(listing["yc"]) \in Nat /\ MaxHits \in Nat
  BY BatchesAre, Sizes
<1>2. n \in Nat /\ n <= Len(listing["yc"])
  BY <1>1, LeastType
<1>3. OneQuery = 1 .. n
  <2>1. OneQuery = 0 + 1 .. 0 + n
    BY DEF OneQuery, Places
  <2> HIDE DEF n
  <2>2. 0 + n = n
    BY <1>2
  <2> QED
    BY <2>1, <2>2
<1> HIDE DEF n
<1>4. IsFiniteSet(1 .. n) /\ Cardinality(1 .. n) = n
  BY <1>2, FS_Interval
<1>5. ASSUME NEW i \in 1 .. n
      PROVE  Rank(1 .. n, i) = i - 1
  <2>1. {j \in 1 .. n : j < i} = 1 .. i - 1
    BY <1>2
  <2>2. Cardinality(1 .. i - 1) = i - 1
    BY <1>2, FS_Interval
  <2> QED
    BY <2>1, <2>2 DEF Rank
<1>6. /\ 1 .. n \in SUBSET Nat /\ 1 .. n \subseteq 1 .. Len(listing["yc"])
      /\ \A i \in 1 .. n : i - 1 \in Nat /\ i - 1 < n
  BY <1>1, <1>2
<1> QED
  BY <1>2, <1>3, <1>4, <1>5, <1>6 DEF n

\* What the queries of the directory offer: one query of it, or the queries of the batches.
Offered == IF whole THEN OneQuery ELSE Returned

LEMMA OfferedFacts ==
  ASSUME ListingType, whole \in BOOLEAN
  PROVE  /\ Offered \in SUBSET Nat /\ IsFiniteSet(Offered)
         /\ Supply("yc") = Cardinality(Offered) /\ Supply("yc") \in Nat
         /\ Offered \subseteq 1 .. Len(listing["yc"])
<1>1. CASE whole
  <2>1. Offered = OneQuery /\ Supply("yc") = Least(Len(listing["yc"]), MaxHits)
    BY <1>1 DEF Offered, Supply
  <2> QED
    BY <2>1, OneQueryFacts
<1>2. CASE ~ whole
  <2>1. Offered = Returned /\ Supply("yc") = Cardinality(Returned)
    BY <1>2 DEF Offered, Supply
  <2>2. Returned \in SUBSET (1 .. Len(listing["yc"]))
    BY BatchesAre DEF Returned
  <2> QED
    BY <2>1, <2>2, Ranks
<1> QED
  BY <1>1, <1>2

LEMMA SupplyType ==
  ASSUME ListingType, whole \in BOOLEAN, NEW s \in Sources
  PROVE  Supply(s) \in Nat
<1>1. Len(listing[s]) \in Nat
  BY DEF ListingType
<1>2. s = "yc" => Supply(s) \in Nat
  BY OfferedFacts
<1>3. s # "yc" => Supply(s) \in {Least(Len(listing[s]), MaxPaged), Least(Len(listing[s]), MaxPages * PageSize), Len(listing[s])}
  BY DEF Supply, Sources
<1> QED
  BY <1>1, <1>2, <1>3, Sizes, LeastType

\* The pages of n records bring a record for each number below n that the source can supply.
LEMMA PagesReach ==
  ASSUME ListingType, whole \in BOOLEAN, MaxHits % PageSize = 0, NEW s \in Sources, NoneSkipped(s),
         NEW n \in Nat, NEW m \in Nat, m < n, m < Supply(s), s = "yc" => ~ whole
  PROVE  \E i : Reaches(s, Pages(s, n), m, i)
<1>1. Len(listing[s]) \in Nat
  BY DEF ListingType
<1>2. CASE s = "yc"
  <2>1. PICK i \in Returned : Rank(Returned, i) = m
    BY <1>2, Ranks, RankIsOneToOne DEF Supply
  <2>2. Reaches("yc", PartitionedPages(n), m, i)
    BY <1>2, <2>1, PartitionedReaches
  <2> QED
    BY <1>2, <2>2 DEF Pages
<1>3. CASE s = "arxiv"
  BY <1>3, ExactReaches DEF Supply, Pages
<1>4. CASE s = "openalex"
  <2>1. m < Len(listing[s]) /\ m < Least(n, MaxPaged) /\ Least(n, MaxPaged) \in Nat
    BY <1>1, <1>4, Sizes DEF Supply, Least
  <2> QED
    BY <1>4, <2>1, ShrinkingReaches DEF Pages
<1>5. CASE s = "openrouter"
  <2>1. m < Len(listing[s]) /\ m < Least(n, MaxPages * PageSize) /\ Least(n, MaxPages * PageSize) \in Nat
    BY <1>1, <1>5, Sizes DEF Supply, Least
  <2> QED
    BY <1>5, <2>1, TrimmedReaches DEF Pages
<1>6. CASE s \in {"hf_spaces", "hf_models"}
  BY <1>6, TrimmedReaches DEF Supply, Pages
<1> QED
  BY <1>2, <1>3, <1>4, <1>5, <1>6 DEF Sources

\* The record with number m and this URL is in the batch or on a page still to come.
Coming(m, url) ==
  \/ \E e \in batch : e.at = m /\ e.url = url
  \/ \E i : Reaches(Source, pages, m, i) /\ listing[Source][i] = url

Undisturbed == Clean /\ MaxHits % PageSize = 0

\* As long as nothing is lost, skipped or published, an adapter run brings all that the
\* source can supply, up to what it was asked for; startups, a record for each entry that
\* its queries offer.
Covered ==
  Undisturbed =>
    /\ \A s \in dry : Supply(s) < asked[s]
    /\ place = "reading" => \A m \in Nat : m < asked[Source] /\ m < Supply(Source) => \E url : Coming(m, url)
    /\ vertical = "startups" =>
         /\ place = "reading" =>
              \A i \in Offered : Rank(Offered, i) < asked["yc"] => Coming(Rank(Offered, i), listing["yc"][i])
         /\ turn # 1 /\ Cardinality(kept) < target => \A i \in Offered : listing["yc"][i] \in KeptUrls

\* A step that leaves things undisturbed found them so.
LEMMA StaysUndisturbed ==
  ASSUME TypeInv, [Next]_vars, Undisturbed'
  PROVE  Undisturbed /\ listing' = listing /\ vertical' = vertical /\ target' = target /\ lost' = lost
<1>1. \/ UNCHANGED <<listing, moves, lost>>
      \/ moves' = moves + 1
      \/ lost' = lost + 1
  BY DEF Next, vars, Ask, AskUnpartitioned, AskFor, SkipExhausted, EndPass, ReadPage, LosePage,
         RunRaises, Merge, Publish
<1>2. moves \in Nat /\ lost \in Nat /\ moves' = 0 /\ lost' = 0
  BY DEF TypeInv, Undisturbed, Clean
<1>3. UNCHANGED <<listing, moves, lost>>
  BY <1>1, <1>2
<1>4. Clean
  BY <1>3 DEF Undisturbed, Clean, NoneSkipped
<1>5. vertical' = vertical /\ target' = target
  BY DEF Next, vars, config, Ask, AskUnpartitioned, AskFor, SkipExhausted, EndPass, ReadPage, LosePage,
         RunRaises, Merge, Publish
<1> QED
  BY <1>3, <1>4, <1>5 DEF Undisturbed

\* While a listing stays, so does what parse() keeps of a page.
LEMMA SameParse ==
  ASSUME listing' = listing, NEW s, NEW p
  PROVE  Parse(s, p)' = Parse(s, p) /\ \A i : Nth(s, p, i)' = Nth(s, p, i)
<1>1. Distinct(s, p)' = Distinct(s, p)
  BY DEF Distinct, WellFormed
<1> QED
  BY <1>1 DEF Parse, Nth

\* While a listing stays, so does what is offered and what a page reaches.
LEMMA SameListing ==
  ASSUME listing' = listing
  PROVE  /\ Returned' = Returned /\ OneQuery' = OneQuery
         /\ whole' = whole => Offered' = Offered /\ \A s : Supply(s)' = Supply(s)
         /\ \A s, found, m, i : Reaches(s, found, m, i)' <=> Reaches(s, found, m, i)
<1>1. Returned' = Returned /\ OneQuery' = OneQuery
  BY DEF Returned, Batches, Places, OneQuery
<1>2. whole' = whole => Offered' = Offered /\ \A s : Supply(s)' = Supply(s)
  BY <1>1 DEF Offered, Supply
<1>3. \A s, found, m, i : Reaches(s, found, m, i)' <=> Reaches(s, found, m, i)
  BY DEF Reaches, Parse, Nth, Distinct, WellFormed
<1> QED
  BY <1>1, <1>2, <1>3

\* What the pages still to come reach is coming.
LEMMA ReachedComes ==
  ASSUME listing' = listing, vertical' = vertical, turn' = turn,
         NEW m, NEW i, NEW url, Reaches(Source, pages', m, i), url = listing[Source][i]
  PROVE  Coming(m, url)'
BY SameParse DEF Reaches, Coming, Source

\* Asking: the pages bring what is asked for.
LEMMA CoveredAsk ==
  ASSUME TypeInv, StartupsInv, Covered, Undisturbed, listing' = listing, vertical' = vertical,
         target' = target, Ask \/ AskUnpartitioned
  PROVE  Covered'
<1>1. /\ Asking /\ Source \notin dry /\ Source \in Sources /\ Depth \in Nat
      /\ asked' = [asked EXCEPT ![Source] = Depth] /\ asked \in [Sources -> Nat] /\ ListingType
      /\ whole \in BOOLEAN
      /\ turn' = turn /\ dry' = dry /\ place' = "reading" /\ place = "choosing"
  BY ShareFacts DEF Ask, AskUnpartitioned, AskFor, Asking, TypeInv
<1>2. Source' = Source /\ asked'[Source] = Depth /\ \A s \in Sources : s # Source => asked'[s] = asked[s]
  BY <1>1 DEF Source
<1>3. vertical = "startups" <=> Source = "yc"
  BY <1>1, OrderFacts DEF Asking, TypeInv, Source
<1>4. vertical = "startups" => turn = 1 /\ ~ whole /\ dry = {} /\ turn \in 1 .. 2
  BY <1>1, OrderFacts DEF StartupsInv, TypeInv, Asking
<1>5. NoneSkipped(Source) /\ MaxHits % PageSize = 0
  BY <1>1 DEF Undisturbed, Clean
<1>6. CASE Ask
  <2>1. whole' = whole /\ pages' = Pages(Source, Depth)
    BY <1>6 DEF Ask, AskFor
  <2>2. Offered' = Offered /\ \A s : Supply(s)' = Supply(s)
    BY <2>1, SameListing
  <2>3. ASSUME NEW m \in Nat, m < Depth, m < Supply(Source)
        PROVE  \E i : Reaches(Source, pages', m, i)
    BY <1>1, <1>3, <1>4, <1>5, <2>1, <2>3, PagesReach
  <2>4. ASSUME vertical = "startups", NEW i \in Offered, Rank(Offered, i) < Depth
        PROVE  Reaches("yc", pages', Rank(Offered, i), i)
    <3>1. Offered = Returned /\ pages' = PartitionedPages(Depth)
      BY <1>3, <1>4, <2>1, <2>4 DEF Offered, Pages
    <3> QED
      BY <1>1, <1>3, <1>5, <2>4, <3>1, PartitionedReaches
  <2>5. \A s \in dry : Supply(s) < asked'[s]
    BY <1>1, <1>2 DEF Covered, TypeInv
  <2>6. \A m, i, url : Reaches(Source, pages', m, i) /\ url = listing[Source][i] => Coming(m, url)'
    BY <1>1, ReachedComes
  <2> QED
    BY <1>1, <1>2, <1>3, <1>4, <2>2, <2>3, <2>4, <2>5, <2>6 DEF Covered
<1>7. CASE AskUnpartitioned
  <2>1. whole' = TRUE /\ pages' = UnpartitionedPages(Depth) /\ Source = "yc" /\ vertical = "startups"
    BY <1>3, <1>7 DEF AskUnpartitioned, AskFor
  <2>2. Offered' = OneQuery /\ Supply("yc")' = Least(Len(listing["yc"]), MaxHits)
    BY <2>1, SameListing DEF Offered, Supply
  <2>3. ASSUME NEW m \in Nat, m < Depth, m < Least(Len(listing["yc"]), MaxHits)
        PROVE  Reaches("yc", pages', m, m + 1)
    <3>1. Len(listing["yc"]) \in Nat /\ MaxHits \in Nat
      BY <1>1, BatchesAre, Sizes
    <3>2. m < Len(listing["yc"]) /\ m < Least(Depth, MaxHits) /\ Least(Depth, MaxHits) \in Nat
      BY <1>1, <2>3, <3>1 DEF Least
    <3> QED
      BY <1>1, <1>5, <2>1, <3>2, TrimmedReaches DEF UnpartitionedPages
  <2>4. ASSUME NEW i \in OneQuery, Rank(OneQuery, i) < Depth
        PROVE  Reaches("yc", pages', Rank(OneQuery, i), i)
    <3>1. /\ Rank(OneQuery, i) = i - 1 /\ i - 1 \in Nat /\ i - 1 < Least(Len(listing["yc"]), MaxHits)
          /\ i \in Nat
      BY <1>1, <2>4, OneQueryFacts
    <3>2. Reaches("yc", pages', i - 1, (i - 1) + 1) /\ (i - 1) + 1 = i
      BY <2>3, <2>4, <3>1
    <3> QED
      BY <3>1, <3>2
  <2>5. \A m, i, url : Reaches(Source, pages', m, i) /\ url = listing[Source][i] => Coming(m, url)'
    BY <1>1, ReachedComes
  <2> QED
    BY <1>1, <1>2, <1>4, <2>1, <2>2, <2>3, <2>4, <2>5 DEF Covered
<1> QED
  BY <1>6, <1>7

\* Reading a page loses nothing of what was to come.
LEMMA CoveredRead ==
  ASSUME TypeInv, Covered, Undisturbed, NEW page \in pages, ReadPage(page)
  PROVE  Covered'
<1>1. /\ batch' = batch \cup Records(Source, page) /\ pages' = pages \ {page}
      /\ UNCHANGED <<listing, vertical, target, turn, asked, dry, whole, kept, place>> /\ place = "reading"
      /\ Source \in Sources /\ page \in PageType
  BY OrderFacts DEF ReadPage, TypeInv, Source, config
<1>2. Source' = Source /\ KeptUrls' = KeptUrls
  BY <1>1 DEF Source, KeptUrls
<1>3. ASSUME NEW m, NEW url, Coming(m, url)
      PROVE  Coming(m, url)'
  <2>1. CASE \E e \in batch : e.at = m /\ e.url = url
    BY <1>1, <2>1 DEF Coming
  <2>2. ASSUME NEW i, Reaches(Source, pages, m, i), listing[Source][i] = url
        PROVE  Coming(m, url)'
    <3>1. PICK p \in pages : i \in Parse(Source, p) /\ p.emitted + Nth(Source, p, i) = m
      BY <2>2 DEF Reaches
    <3>2. CASE p = page
      <4>1. \E e \in Records(Source, page) : e.url = url /\ e.at = m
        BY <1>1, <2>2, <3>1, <3>2, RecordsFacts DEF TypeInv
      <4> QED
        BY <1>1, <4>1 DEF Coming
    <3>3. CASE p # page
      <4>1. Reaches(Source, pages', m, i)
        BY <1>1, <2>2, <3>1, <3>3 DEF Reaches
      <4> QED
        BY <1>1, <2>2, <4>1, ReachedComes
    <3> QED
      BY <3>2, <3>3
  <2> QED
    BY <1>3, <2>1, <2>2 DEF Coming
<1>4. Offered' = Offered /\ \A s : Supply(s)' = Supply(s)
  BY <1>1, SameListing
<1>5. \A s \in dry : Supply(s) < asked[s]
  BY DEF Covered
<1>6. \A m \in Nat : m < asked[Source] /\ m < Supply(Source) => \E url : Coming(m, url)'
  BY <1>1, <1>3 DEF Covered
<1>7. vertical = "startups" =>
        /\ \A i \in Offered : Rank(Offered, i) < asked["yc"] => Coming(Rank(Offered, i), listing["yc"][i])
        /\ turn # 1 /\ Cardinality(kept) < target => \A i \in Offered : listing["yc"][i] \in KeptUrls
  BY <1>1 DEF Covered
<1>8. vertical = "startups" =>
        \A i \in Offered : \A m, url :
          m = Rank(Offered, i) /\ url = listing["yc"][i] /\ m < asked["yc"] => Coming(m, url)'
  BY <1>3, <1>7
<1> QED
  BY <1>1, <1>2, <1>4, <1>5, <1>6, <1>7, <1>8 DEF Covered

\* A source that brought less than it was asked for had no more; and startups, when it has
\* fewer records than its target, has all that its queries offer.
LEMMA CoveredMerge ==
  ASSUME TypeInv, Numbering, StartupsInv, Covered, Undisturbed, Merge
  PROVE  Covered'
<1>1. /\ place = "reading" /\ place' = "choosing" /\ pages = {} /\ turn' = turn + 1
      /\ UNCHANGED <<listing, vertical, target, asked, whole>>
      /\ dry' = IF Exhausted(Cardinality(batch)) THEN dry \cup {Source} ELSE dry
  BY DEF Merge, config
<1>2. Offered' = Offered /\ \A s : Supply(s)' = Supply(s)
  BY <1>1, SameListing
<1>3. Source \in Sources /\ asked[Source] \in Nat /\ Supply(Source) \in Nat /\ IsFiniteSet(batch)
  BY <1>1, AddedFacts, SupplyType DEF TypeInv
<1>4. \A m, url : Coming(m, url) => \E e \in batch : e.at = m /\ e.url = url
  BY <1>1 DEF Coming, Reaches
<1> DEFINE n == Least(asked[Source], Supply(Source))
<1>5. n \in Nat /\ \A m \in 0 .. n - 1 : m \in Nat /\ m < asked[Source] /\ m < Supply(Source)
  BY <1>3 DEF Least
<1>6. Cardinality(batch) \in Nat /\ Cardinality(batch) >= n
  <2> DEFINE f == [e \in batch |-> e.at]
  <2>1. ASSUME NEW m \in 0 .. n - 1
        PROVE  \E e \in batch : f[e] = m
    <3>1. \E url : Coming(m, url)
      BY <1>1, <1>5 DEF Covered
    <3> QED
      BY <1>4, <3>1
  <2> HIDE DEF n, f
  <2> QED
    BY <1>3, <1>5, <2>1, NumberedOnto
<1>7. Cardinality(batch) < asked[Source] => Supply(Source) < asked[Source]
  BY <1>3, <1>6 DEF Least
<1>8. \A s \in dry' : Supply(s) < asked[s]
  BY <1>1, <1>7 DEF Covered, Exhausted
<1>9. ASSUME vertical = "startups", Cardinality(kept') < target
      PROVE  \A i \in Offered : listing["yc"][i] \in KeptUrls'
  <2>1. turn = 1 /\ kept = {} /\ asked["yc"] = target /\ Source = "yc"
    <3>1. Order[vertical][1] = "yc"
      BY <1>9 DEF Order
    <3> QED
      BY <1>1, <1>9, <3>1 DEF StartupsInv, Source
  <2>2. New = batch /\ kept' = Added
    BY <1>1, <1>9, <2>1, AddedFacts DEF New, KeptUrls
  <2> DEFINE f == [e \in batch |-> [url |-> e.url, source |-> Source, run |-> runs, at |-> e.at]]
  <2>3. \A e \in batch : f[e] \in Added /\ f[e].at = e.at /\ f[e].url = e.url
    BY <2>2 DEF Added
  <2>4. f \in Injection(batch, Added)
    <3>1. f \in [batch -> Added]
      BY <2>3
    <3>2. \A d, e \in batch : f[d] = f[e] => d = e
      <4> TAKE d, e \in batch
      <4> HAVE f[d] = f[e]
      <4>1. d.at = e.at
        BY <2>3
      <4> QED
        BY <4>1 DEF Numbering
    <3> HIDE DEF f
    <3> QED
      BY <3>1, <3>2, Fun_IsInj
  <2>5. IsFiniteSet(Added) /\ Cardinality(Added) \in Nat
    BY <1>1, AddedFacts
  <2>6. Cardinality(batch) <= Cardinality(kept')
    <3> HIDE DEF f
    <3> QED
      BY <2>2, <2>4, <2>5, FS_Injection
  <2>7. Supply("yc") < asked["yc"]
    BY <1>3, <1>6, <1>7, <1>9, <2>1, <2>2, <2>5, <2>6
  <2>8. ASSUME NEW i \in Offered
        PROVE  listing["yc"][i] \in KeptUrls'
    <3>1. /\ Rank(Offered, i) < Cardinality(Offered) /\ Rank(Offered, i) \in Nat
          /\ Supply("yc") = Cardinality(Offered)
      BY <2>8, OfferedFacts, RankGrows DEF TypeInv
    <3>2. Rank(Offered, i) < asked["yc"]
      BY <1>3, <2>1, <2>7, <3>1
    <3>3. Coming(Rank(Offered, i), listing["yc"][i])
      BY <1>1, <1>9, <2>8, <3>2 DEF Covered
    <3>4. PICK e \in batch : e.url = listing["yc"][i]
      BY <1>4, <3>3
    <3>5. f[e] \in kept' /\ f[e].url = listing["yc"][i]
      BY <2>2, <2>3, <3>4
    <3> QED
      BY <3>5 DEF KeptUrls
  <2> QED
    BY <2>8
<1> QED
  BY <1>1, <1>2, <1>8, <1>9 DEF Covered

LEMMA CoveredStep ==
  ASSUME TypeInv, Numbering, StartupsInv, Covered, [Next]_vars
  PROVE  Covered'
<1> SUFFICES ASSUME Undisturbed'
             PROVE  Covered'
  BY DEF Covered
<1>0. Undisturbed /\ listing' = listing /\ vertical' = vertical /\ target' = target /\ lost' = lost
  BY StaysUndisturbed
<1>1. CASE Ask \/ AskUnpartitioned
  BY <1>0, <1>1, CoveredAsk
<1>2. ASSUME NEW page \in pages, ReadPage(page)
      PROVE  Covered'
  BY <1>0, <1>2, CoveredRead
<1>3. CASE Merge
  BY <1>0, <1>3, CoveredMerge
<1>4. CASE SkipExhausted \/ EndPass \/ RunRaises
  <2>1. /\ whole' = whole /\ kept' = kept /\ asked' = asked /\ dry' = dry /\ place' # "reading"
        /\ vertical = "startups" /\ turn' # 1 => turn # 1
    <3>1. vertical = "startups" => dry = {} \/ turn # 1
      BY DEF StartupsInv
    <3> QED
      BY <1>4, <3>1 DEF SkipExhausted, EndPass, RunRaises, Asking
  <2>2. Offered' = Offered /\ (\A s : Supply(s)' = Supply(s)) /\ KeptUrls' = KeptUrls
    BY <1>0, <2>1, SameListing DEF KeptUrls
  <2> QED
    BY <1>0, <2>1, <2>2 DEF Covered
<1>5. CASE UNCHANGED vars
  <2>1. UNCHANGED <<vertical, target, listing, place, turn, asked, dry, whole, pages, batch, kept>>
    BY <1>5 DEF vars, config
  <2>2. Offered' = Offered /\ (\A s : Supply(s)' = Supply(s)) /\ KeptUrls' = KeptUrls /\ Source' = Source
    BY <2>1, SameListing DEF KeptUrls, Source
  <2>4. ASSUME NEW m, NEW url, Coming(m, url)
        PROVE  Coming(m, url)'
    BY <2>1, <2>4, SameParse DEF Coming, Reaches, Source
  <2>5. \A s \in dry : Supply(s) < asked[s]
    BY <1>0 DEF Covered
  <2>6. place = "reading" => \A m \in Nat : m < asked[Source] /\ m < Supply(Source) => \E url : Coming(m, url)'
    BY <1>0, <2>4 DEF Covered
  <2>7. vertical = "startups" =>
          /\ place = "reading" =>
               \A i \in Offered : \A m, url :
                 m = Rank(Offered, i) /\ url = listing["yc"][i] /\ m < asked["yc"] => Coming(m, url)'
          /\ turn # 1 /\ Cardinality(kept) < target => \A i \in Offered : listing["yc"][i] \in KeptUrls
    BY <1>0, <2>4 DEF Covered
  <2> QED
    BY <2>1, <2>2, <2>5, <2>6, <2>7 DEF Covered
<1>6. ~ \E page \in pages : LosePage(page)
  <2>1. lost \in Nat
    BY DEF TypeInv
  <2> QED
    BY <1>0, <2>1 DEF LosePage
<1>7. ~ \E s \in Sources : Publish(s)
  <2>1. moves' = 0 /\ moves = 0
    BY <1>0 DEF Undisturbed, Clean
  <2> QED
    BY <2>1 DEF Publish
<1> QED
  BY <1>1, <1>2, <1>3, <1>4, <1>5, <1>6, <1>7 DEF Next

LEMMA CoveredAlways == Spec => []Covered
<1>1. Init => Covered
  BY DEF Init, Covered
<1> QED
  BY <1>1, TypeAlways, NumberingAlways, CeilingAlways, CoveredStep, PTL DEF Spec

\* The theorem of ExhaustedHasNoMore: for all listings, page sizes and caps, if no page is
\* lost, no entry skipped and nothing published meanwhile, a source is written off only
\* after it was asked for more than it can supply.
THEOREM WrittenOffIsDry == Spec => []ExhaustedHasNoMore
<1>1. Covered => ExhaustedHasNoMore
  BY DEF Covered, Undisturbed, ExhaustedHasNoMore
<1> QED
  BY <1>1, CoveredAlways, PTL

\* The theorem of StartupsShortOnlyWhenDry: for every directory, batches and cap, an
\* undisturbed run that ends below its target has collected all that its queries offer.
THEOREM StartupsTakesAll == Spec => []StartupsShortOnlyWhenDry
<1>1. StartupsInv /\ Covered => StartupsShortOnlyWhenDry
  BY DEF StartupsInv, Covered, Undisturbed, StartupsShortOnlyWhenDry, Short, Offered
<1> QED
  BY <1>1, CeilingAlways, CoveredAlways, PTL

=============================================================================
