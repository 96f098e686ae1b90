--------------------------- MODULE Chunker_proofs ---------------------------
(***************************************************************************)
(* chunk_text keeps its promises for every text and every budget.          *)
(*                                                                         *)
(* The loops are recursive functions.  That such a function exists, and    *)
(* what it is at each point, follows by an induction over a set of         *)
(* numbers (Recursion); what a loop leaves follows by one more.            *)
(***************************************************************************)
EXTENDS Chunker, SequenceTheorems, FiniteSetTheorems, TLAPS

-----------------------------------------------------------------------------
(* Induction.                                                              *)

\* A set of naturals has a least element.
LEMMA Least ==
  ASSUME NEW S \in SUBSET Nat, S # {}
  PROVE  \E x \in S : \A y \in S : x <= y
<1> DEFINE R == OpToRel(<, Nat)
<1>1. IsWellFoundedOn(R, Nat)
  BY NatLessThanWellFounded
<1>2. \A a, b \in Nat : <<a, b>> \in R <=> a < b
  BY DEF OpToRel
<1> HIDE DEF R
<1>3. PICK x \in S : \A y \in S : <<y, x>> \notin R
  BY <1>1, WFMin
<1>4. \A y \in S : ~ (y < x)
  BY <1>2, <1>3
<1> QED
  BY <1>4

\* A set that has 0 and, with the number before it, every number up to N.
LEMMA Induction ==
  ASSUME NEW N \in Nat, NEW S, 0 \in S, \A n \in 1 .. N : n - 1 \in S => n \in S
  PROVE  \A n \in 0 .. N : n \in S
<1> SUFFICES ASSUME {n \in 0 .. N : n \notin S} # {}
             PROVE  FALSE
  OBVIOUS
<1>1. {n \in 0 .. N : n \notin S} \in SUBSET Nat
  OBVIOUS
<1>2. PICK x \in {n \in 0 .. N : n \notin S} : \A y \in {n \in 0 .. N : n \notin S} : x <= y
  BY <1>1, Least
<1>3. x \in 1 .. N /\ x - 1 \in 0 .. N /\ ~ (x <= x - 1)
  BY <1>2
<1>4. x - 1 \in S
  BY <1>2, <1>3
<1> QED
  BY <1>2, <1>3, <1>4

\* A loop: f has its first value, and the next one by a step for each number up to N.
Computes(f, T, N, base, step) ==
  /\ f \in [0 .. N -> T] /\ f[0] = base
  /\ \A n \in 1 .. N : f[n] = step[n][f[n - 1]]

LEMMA Recursion ==
  ASSUME NEW T, NEW N \in Nat, NEW base \in T, NEW step \in [1 .. N -> [T -> T]]
  PROVE  \E f : Computes(f, T, N, base, step)
<1> DEFINE S == {n \in 0 .. N : \E f : Computes(f, T, n, base, step)}
<1>1. 0 \in S
  <2> DEFINE f == [n \in 0 .. 0 |-> base]
  <2>1. Computes(f, T, 0, base, step)
    BY DEF Computes
  <2> QED
    BY <2>1
<1>2. ASSUME NEW n \in 1 .. N, n - 1 \in S
      PROVE  n \in S
  <2>1. PICK f : Computes(f, T, n - 1, base, step)
    BY <1>2
  <2> DEFINE g == [m \in 0 .. n |-> IF m = n THEN step[n][f[n - 1]] ELSE f[m]]
  <2>2. f \in [0 .. n - 1 -> T] /\ f[0] = base /\ \A m \in 1 .. n - 1 : f[m] = step[m][f[m - 1]]
    BY <2>1 DEF Computes
  <2>3. step[n] \in [T -> T] /\ f[n - 1] \in T
    BY <2>2
  <2>4. step[n][f[n - 1]] \in T
    BY <2>3
  <2>5. \A m \in 0 .. n : m # n => m \in 0 .. n - 1
    OBVIOUS
  <2>6. \A m \in 0 .. n : g[m] \in T
    BY <2>2, <2>4, <2>5
  <2>7. g \in [0 .. n -> T] /\ g[0] = base
    BY <2>2, <2>6
  <2>8. ASSUME NEW m \in 1 .. n
        PROVE  g[m] = step[m][g[m - 1]]
    <3>1. g[m - 1] = f[m - 1]
      OBVIOUS
    <3>2. m = n => g[m] = step[n][f[n - 1]]
      OBVIOUS
    <3>3. m # n => g[m] = f[m] /\ m \in 1 .. n - 1
      OBVIOUS
    <3> QED
      BY <2>2, <3>1, <3>2, <3>3
  <2> HIDE DEF g
  <2>9. Computes(g, T, n, base, step)
    BY <2>7, <2>8 DEF Computes
  <2> QED
    BY <2>9
<1> HIDE DEF S
<1>3. \A n \in 0 .. N : n \in S
  BY <1>1, <1>2, Induction
<1>4. N \in S
  BY <1>3
<1> QED
  BY <1>4 DEF S

-----------------------------------------------------------------------------
(* Texts joined.                                                           *)

LEMMA TextFacts ==
  /\ <<>> \in Text
  /\ \A s, t \in Text : s \o t \in Text /\ Len(s \o t) = Len(s) + Len(t)
  /\ \A s \in Text : /\ Len(s) \in Nat /\ DOMAIN s = 1 .. Len(s)
                     /\ s \o <<>> = s /\ <<>> \o s = s
                     /\ s # <<>> <=> Len(s) > 0
  /\ \A s, t, u \in Text : (s \o t) \o u = s \o (t \o u)
<1>1. <<>> \in Text /\ \A s, t \in Text : s \o t \in Text /\ Len(s \o t) = Len(s) + Len(t)
  BY DEF Text
<1>2. ASSUME NEW s \in Text
      PROVE  /\ Len(s) \in Nat /\ DOMAIN s = 1 .. Len(s)
             /\ s \o <<>> = s /\ <<>> \o s = s
             /\ s # <<>> <=> Len(s) > 0
  BY ConcatEmptySeq, EmptySeq DEF Text
<1>3. ASSUME NEW s \in Text, NEW t \in Text, NEW u \in Text
      PROVE  (s \o t) \o u = s \o (t \o u)
  BY ConcatAssociative DEF Text
<1> QED
  BY <1>1, <1>2, <1>3

\* The first n texts joined, for every n.
LEMMA JoinedFacts ==
  ASSUME NEW texts \in Seq(Text)
  PROVE  /\ Joined(texts) \in [0 .. Len(texts) -> Text]
         /\ Joined(texts)[0] = <<>>
         /\ \A n \in 1 .. Len(texts) : Joined(texts)[n] = Joined(texts)[n - 1] \o texts[n]
<1> DEFINE N == Len(texts)
           step == [n \in 1 .. N |-> [s \in Text |-> s \o texts[n]]]
           body(f) == [n \in 0 .. N |-> IF n = 0 THEN <<>> ELSE f[n - 1] \o texts[n]]
<1>1. N \in Nat /\ <<>> \in Text /\ \A n \in 1 .. N : texts[n] \in Text
  BY TextFacts
<1>2. step \in [1 .. N -> [Text -> Text]]
  BY <1>1, TextFacts
<1>3. \A n \in 1 .. N : \A s \in Text : step[n][s] = s \o texts[n]
  OBVIOUS
<1> HIDE DEF step
<1>5. PICK f : Computes(f, Text, N, <<>>, step)
  <2> HIDE DEF N
  <2> QED
    BY <1>1, <1>2, Recursion
<1>6. f \in [0 .. N -> Text] /\ f[0] = <<>>
  BY <1>5 DEF Computes
<1>7. ASSUME NEW n \in 1 .. N
      PROVE  f[n] = f[n - 1] \o texts[n]
  <2>1. n - 1 \in 0 .. N
    BY <1>1
  <2>2. f[n - 1] \in Text
    BY <1>6, <2>1
  <2>3. f[n] = step[n][f[n - 1]]
    BY <1>5 DEF Computes
  <2> QED
    BY <1>3, <2>2, <2>3
<1>8. f = body(f)
  <2>1. \A n \in 0 .. N : n # 0 => n \in 1 .. N
    BY <1>1
  <2>2. \A n \in 0 .. N : f[n] = body(f)[n]
    BY <1>6, <1>7, <2>1
  <2> QED
    BY <1>6, <2>2
<1>9. Joined(texts) = CHOOSE g : g = body(g)
  BY DEF Joined
<1> HIDE DEF body
<1>10. Joined(texts) = body(Joined(texts))
  BY <1>8, <1>9
<1> DEFINE g == Joined(texts)
<1>11. g = body(g)
  BY <1>10
<1> HIDE DEF g
<1>12. /\ DOMAIN g = 0 .. N /\ g[0] = <<>> /\ g = [n \in 0 .. N |-> g[n]]
       /\ \A n \in 1 .. N : g[n] = g[n - 1] \o texts[n]
  BY <1>1, <1>11 DEF body
<1> DEFINE S == {n \in 0 .. N : g[n] \in Text}
<1>13. 0 \in S
  BY <1>1, <1>12
<1>14. ASSUME NEW n \in 1 .. N, n - 1 \in S PROVE n \in S
  <2>1. g[n - 1] \in Text
    BY <1>14
  <2>2. texts[n] \in Text /\ g[n] = g[n - 1] \o texts[n]
    BY <1>1, <1>12
  <2>3. g[n] \in Text
    BY <2>1, <2>2, TextFacts
  <2> QED
    BY <1>1, <2>3
<1> HIDE DEF S
<1>15. \A n \in 0 .. N : n \in S
  BY <1>1, <1>13, <1>14, Induction
<1>16. g \in [0 .. N -> Text]
  BY <1>12, <1>15 DEF S
<1> QED
  BY <1>12, <1>16 DEF g

\* Texts that start alike are joined alike.
LEMMA JoinedAlike ==
  ASSUME NEW s \in Seq(Text), NEW t \in Seq(Text), NEW N \in Nat, N <= Len(s), N <= Len(t),
         \A i \in 1 .. N : s[i] = t[i]
  PROVE  \A n \in 0 .. N : Joined(s)[n] = Joined(t)[n]
<1> DEFINE S == {n \in 0 .. N : Joined(s)[n] = Joined(t)[n]}
<1>1. 0 \in S
  <2>1. Joined(s)[0] = <<>> /\ Joined(t)[0] = <<>>
    BY JoinedFacts
  <2> QED
    BY <2>1
<1>2. ASSUME NEW n \in 1 .. N, n - 1 \in S PROVE n \in S
  <2>1. Joined(s)[n - 1] = Joined(t)[n - 1] /\ s[n] = t[n]
    BY <1>2
  <2>2. n \in 1 .. Len(s) /\ n \in 1 .. Len(t)
    OBVIOUS
  <2>3. Joined(s)[n] = Joined(s)[n - 1] \o s[n]
    BY <2>2, JoinedFacts
  <2>4. Joined(t)[n] = Joined(t)[n - 1] \o t[n]
    BY <2>2, JoinedFacts
  <2>5. Joined(s)[n] = Joined(t)[n]
    BY <2>1, <2>3, <2>4
  <2> QED
    BY <2>5
<1> HIDE DEF S
<1>3. \A n \in 0 .. N : n \in S
  BY <1>1, <1>2, Induction
<1> QED
  BY <1>3 DEF S

\* No text, one text more, and texts after texts.
LEMMA ConcatFacts ==
  /\ Concat(<<>>) = <<>>
  /\ \A s \in Seq(Text) : Concat(s) \in Text
  /\ \A x \in Text : Concat(<<x>>) = x
<1>1. \A s \in Seq(Text) : Concat(s) \in Text
  <2> TAKE s \in Seq(Text)
  <2>1. Len(s) \in 0 .. Len(s)
    OBVIOUS
  <2> QED
    BY <2>1, JoinedFacts DEF Concat
<1>2. Concat(<<>>) = <<>>
  <2>1. <<>> \in Seq(Text) /\ Len(<<>>) = 0
    OBVIOUS
  <2> QED
    BY <2>1, JoinedFacts DEF Concat
<1>3. ASSUME NEW x \in Text PROVE Concat(<<x>>) = x
  <2> DEFINE t == <<x>>
  <2>1. t \in Seq(Text) /\ Len(t) = 1 /\ t[1] = x
    OBVIOUS
  <2> HIDE DEF t
  <2>2. Joined(t)[0] = <<>>
    BY <2>1, JoinedFacts
  <2>3. Joined(t)[1] = Joined(t)[0] \o t[1]
    <3>1. 1 \in 1 .. Len(t) /\ 1 - 1 = 0
      BY <2>1
    <3> QED
      BY <2>1, <3>1, JoinedFacts
  <2>4. Concat(t) = x
    BY <2>1, <2>2, <2>3, TextFacts DEF Concat
  <2> QED
    BY <2>4 DEF t
<1> QED
  BY <1>1, <1>2, <1>3

LEMMA JoinedAfter ==
  ASSUME NEW s \in Seq(Text), NEW t \in Seq(Text)
  PROVE  /\ s \o t \in Seq(Text) /\ Len(s \o t) = Len(s) + Len(t)
         /\ \A n \in 0 .. Len(s) : Joined(s \o t)[n] = Joined(s)[n]
         /\ \A n \in 0 .. Len(t) : Joined(s \o t)[Len(s) + n] = Concat(s) \o Joined(t)[n]
         /\ Concat(s \o t) = Concat(s) \o Concat(t)
<1> DEFINE u == s \o t
           a == Len(s)
           b == Len(t)
<1>1. /\ u \in Seq(Text) /\ Len(u) = a + b /\ a \in Nat /\ b \in Nat
      /\ \A i \in 1 .. a : u[i] = s[i]
      /\ \A i \in 1 .. b : u[a + i] = t[i]
  OBVIOUS
<1>2. \A n \in 0 .. a : Joined(u)[n] = Joined(s)[n]
  <2>1. a <= Len(u) /\ a <= Len(s)
    BY <1>1
  <2> HIDE DEF u, a, b
  <2> QED
    BY <1>1, <2>1, JoinedAlike
<1> HIDE DEF u
<1> DEFINE S == {n \in 0 .. b : Joined(u)[a + n] = Concat(s) \o Joined(t)[n]}
<1>3. 0 \in S
  <2>1. Joined(t)[0] = <<>>
    BY JoinedFacts
  <2>2. a + 0 = a /\ 0 \in 0 .. b /\ a \in 0 .. a
    BY <1>1
  <2>3. Joined(u)[a] = Concat(s)
    BY <1>2, <2>2 DEF Concat
  <2>4. Concat(s) \in Text
    BY ConcatFacts
  <2>5. Joined(u)[a + 0] = Concat(s) \o Joined(t)[0]
    BY <2>1, <2>2, <2>3, <2>4, TextFacts
  <2> QED
    BY <2>2, <2>5
<1>4. ASSUME NEW n \in 1 .. b, n - 1 \in S PROVE n \in S
  <2>1. a + n \in 1 .. Len(u) /\ a + n - 1 = a + (n - 1) /\ n - 1 \in 0 .. b /\ n \in 0 .. b
    BY <1>1
  <2>2. Joined(u)[a + n] = Joined(u)[a + (n - 1)] \o u[a + n]
    <3>1. \A m \in 1 .. Len(u) : Joined(u)[m] = Joined(u)[m - 1] \o u[m]
      BY <1>1, JoinedFacts
    <3> DEFINE m == a + n
    <3>2. m \in 1 .. Len(u) /\ m - 1 = a + (n - 1)
      BY <2>1
    <3> HIDE DEF m
    <3>3. Joined(u)[m] = Joined(u)[a + (n - 1)] \o u[m]
      BY <3>1, <3>2
    <3> QED
      BY <3>3 DEF m
  <2>3. Joined(u)[a + (n - 1)] = Concat(s) \o Joined(t)[n - 1]
    BY <1>4
  <2>4. Joined(t)[n] = Joined(t)[n - 1] \o t[n]
    BY JoinedFacts
  <2>a. u[a + n] = t[n] /\ t[n] \in Text
    BY <1>1
  <2>b. Concat(s) \in Text
    BY ConcatFacts
  <2>5. Joined(t)[n - 1] \in Text /\ Concat(s) \in Text
    BY <2>1, <2>b, JoinedFacts
  <2>6. (Concat(s) \o Joined(t)[n - 1]) \o t[n] = Concat(s) \o (Joined(t)[n - 1] \o t[n])
    BY <2>a, <2>5, TextFacts
  <2>7. Joined(u)[a + n] = Concat(s) \o Joined(t)[n]
    BY <2>2, <2>3, <2>4, <2>6, <2>a
  <2> QED
    BY <2>1, <2>7
<1> HIDE DEF S
<1>5. \A n \in 0 .. b : n \in S
  BY <1>1, <1>3, <1>4, Induction
<1>6. \A n \in 0 .. b : Joined(u)[a + n] = Concat(s) \o Joined(t)[n]
  BY <1>5 DEF S
<1>7. Concat(u) = Concat(s) \o Concat(t)
  <2>1. b \in 0 .. b
    BY <1>1
  <2>2. Joined(u)[a + b] = Concat(s) \o Joined(t)[b]
    BY <1>6, <2>1
  <2>3. Concat(t) = Joined(t)[b] /\ Concat(u) = Joined(u)[Len(u)]
    BY DEF Concat
  <2> HIDE DEF a, b
  <2> QED
    BY <1>1, <2>2, <2>3
<1> QED
  BY <1>1, <1>2, <1>6, <1>7 DEF u

\* One text more.
LEMMA ConcatAppend ==
  ASSUME NEW s \in Seq(Text), NEW x \in Text
  PROVE  /\ Append(s, x) \in Seq(Text) /\ Len(Append(s, x)) = Len(s) + 1
         /\ \A n \in 0 .. Len(s) : Joined(Append(s, x))[n] = Joined(s)[n]
         /\ Joined(Append(s, x))[Len(s) + 1] = Concat(s) \o x
         /\ Concat(Append(s, x)) = Concat(s) \o x
<1> DEFINE t == <<x>>
<1>1. t \in Seq(Text) /\ Len(t) = 1 /\ Append(s, x) = s \o t /\ Concat(t) = x
  BY ConcatFacts, AppendIsConcat
<1> HIDE DEF t
<1>2. /\ s \o t \in Seq(Text) /\ Len(s \o t) = Len(s) + 1
      /\ \A n \in 0 .. Len(s) : Joined(s \o t)[n] = Joined(s)[n]
      /\ Concat(s \o t) = Concat(s) \o x
  <2>1. /\ s \o t \in Seq(Text) /\ Len(s \o t) = Len(s) + Len(t)
        /\ \A n \in 0 .. Len(s) : Joined(s \o t)[n] = Joined(s)[n]
        /\ Concat(s \o t) = Concat(s) \o Concat(t)
    BY <1>1, JoinedAfter
  <2> QED
    BY <1>1, <2>1
<1>3. Concat(s \o t) = Joined(s \o t)[Len(s) + 1]
  BY <1>2 DEF Concat
<1> QED
  BY <1>1, <1>2, <1>3

\* The first text, and the others.
LEMMA ConcatHead ==
  ASSUME NEW s \in Seq(Text), s # <<>>
  PROVE  /\ Head(s) \in Text /\ Tail(s) \in Seq(Text)
         /\ Concat(s) = Head(s) \o Concat(Tail(s))
<1> DEFINE h == <<Head(s)>>
           t == Tail(s)
<1>1. Head(s) \in Text /\ t \in Seq(Text) /\ h \in Seq(Text) /\ s = h \o t
  OBVIOUS
<1>2. Concat(h) = Head(s)
  BY <1>1, ConcatFacts
<1> HIDE DEF h, t
<1>3. Concat(h \o t) = Concat(h) \o Concat(t)
  BY <1>1, JoinedAfter
<1> QED
  BY <1>1, <1>2, <1>3 DEF t

\* Where texts end.
LEMMA EndsOf ==
  ASSUME NEW s \in Seq(Text)
  PROVE  /\ EndOf(s, 0) = 0
         /\ \A k \in 0 .. Len(s) : EndOf(s, k) \in Nat
         /\ \A k \in 1 .. Len(s) : EndOf(s, k) = EndOf(s, k - 1) + Len(s[k])
         /\ EndOf(s, Len(s)) = Len(Concat(s))
<1>1. \A k \in 0 .. Len(s) : Joined(s)[k] \in Text
  BY JoinedFacts
<1>2. \A k \in 0 .. Len(s) : EndOf(s, k) \in Nat
  BY <1>1, TextFacts DEF EndOf
<1>3. EndOf(s, 0) = 0
  <2>1. Joined(s)[0] = <<>>
    BY JoinedFacts
  <2> QED
    BY <2>1 DEF EndOf
<1>4. ASSUME NEW k \in 1 .. Len(s)
      PROVE  EndOf(s, k) = EndOf(s, k - 1) + Len(s[k])
  <2>1. Joined(s)[k] = Joined(s)[k - 1] \o s[k]
    BY JoinedFacts
  <2>2. k - 1 \in 0 .. Len(s) /\ s[k] \in Text
    OBVIOUS
  <2>3. Joined(s)[k - 1] \in Text
    BY <1>1, <2>2
  <2> QED
    BY <2>1, <2>2, <2>3, TextFacts DEF EndOf
<1> QED
  BY <1>2, <1>3, <1>4 DEF EndOf, Concat

\* Non-empty texts end one after the other, and are no more than they have characters.
LEMMA EndsGrow ==
  ASSUME NEW s \in Seq(Text), \A k \in 1 .. Len(s) : s[k] # <<>>
  PROVE  /\ \A k \in 1 .. Len(s) - 1 : 0 < EndOf(s, k) /\ EndOf(s, k) < Len(Concat(s))
         /\ Len(s) <= Len(Concat(s))
<1> DEFINE N == Len(s)
           e == [n \in 0 .. N |-> EndOf(s, n)]
<1>1. N \in Nat /\ e[0] = 0 /\ e[N] = Len(Concat(s)) /\ \A n \in 0 .. N : e[n] \in Nat
  BY EndsOf
<1>2. ASSUME NEW n \in 1 .. N
      PROVE  e[n - 1] + 1 <= e[n]
  <2>1. s[n] \in Text /\ n - 1 \in 0 .. N /\ n \in 0 .. N
    BY <1>1
  <2>2. Len(s[n]) \in Nat /\ Len(s[n]) > 0
    BY <1>2, <2>1, TextFacts
  <2>3. EndOf(s, n) = EndOf(s, n - 1) + Len(s[n]) /\ EndOf(s, n - 1) \in Nat
    BY <2>1, EndsOf
  <2>4. EndOf(s, n - 1) + 1 <= EndOf(s, n)
    BY <2>2, <2>3
  <2> QED
    BY <2>1, <2>4
<1> HIDE DEF e
<1> DEFINE S == {n \in 0 .. N : \A k \in 0 .. n : e[k] + (n - k) <= e[n]}
<1>3. 0 \in S
  BY <1>1
<1>4. ASSUME NEW n \in 1 .. N, n - 1 \in S PROVE n \in S
  <2>1. ASSUME NEW k \in 0 .. n
        PROVE  e[k] + (n - k) <= e[n]
    <3>1. CASE k = n
      BY <1>1, <3>1
    <3>2. CASE k \in 0 .. n - 1
      <4>1. e[k] + (n - 1 - k) <= e[n - 1]
        BY <1>4, <3>2
      <4>2. e[k] \in Nat /\ e[n - 1] \in Nat /\ e[n] \in Nat /\ e[n - 1] + 1 <= e[n]
        BY <1>1, <1>2, <3>2
      <4> QED
        BY <4>1, <4>2
    <3> QED
      BY <3>1, <3>2
  <2> QED
    BY <2>1
<1> HIDE DEF S
<1>5. \A n \in 0 .. N : n \in S
  BY <1>1, <1>3, <1>4, Induction
<1>6. ASSUME NEW k \in 1 .. N - 1
      PROVE  0 < e[k] /\ e[k] < e[N]
  <2>1. k \in S /\ N \in S
    BY <1>1, <1>5
  <2>2. k \in 0 .. N /\ N \in 0 .. N /\ 0 \in 0 .. k
    BY <1>1
  <2>3. e[0] + (k - 0) <= e[k]
    BY <2>1, <2>2 DEF S
  <2>4. e[k] + (N - k) <= e[N]
    BY <2>1, <2>2 DEF S
  <2>5. e[k] \in Nat /\ e[N] \in Nat
    BY <1>1, <2>2
  <2> QED
    BY <1>1, <2>3, <2>4, <2>5
<1>7. N <= e[N]
  <2>1. N \in S /\ 0 \in 0 .. N
    BY <1>1, <1>5
  <2>2. e[0] + (N - 0) <= e[N]
    BY <2>1 DEF S
  <2> QED
    BY <1>1, <2>2
<1>8. \A k \in 1 .. N - 1 : e[k] = EndOf(s, k)
  BY DEF e
<1> QED
  BY <1>1, <1>6, <1>7, <1>8

-----------------------------------------------------------------------------
(* _split_by_chars.                                                        *)

\* How many pieces of a size there are.
LEMMA Parts ==
  ASSUME NEW len \in Nat, NEW size \in Nat \ {0}
  PROVE  LET n == (len + size - 1) \div size
         IN  n \in Nat /\ len <= n * size /\ (n = 0 \/ (n - 1) * size < len)
<1> DEFINE a == len + size - 1
           n == a \div size
<1>1. a \in Nat /\ n \in Nat
  OBVIOUS
<1>2. a = size * n + (a % size) /\ a % size \in 0 .. size - 1
  BY <1>1
<1>3. a = len + size - 1
  OBVIOUS
<1> HIDE DEF a
<1>4. n * size = size * n /\ (n - 1) * size = n * size - size /\ n * size \in Nat
  BY <1>1
<1> HIDE DEF n
<1>5. len <= n * size /\ (n = 0 \/ (n - 1) * size < len)
  BY <1>1, <1>2, <1>3, <1>4
<1> QED
  BY <1>1, <1>5 DEF n, a

\* The end of a piece: after the one before it, by no more than its size.
LEMMA PieceEnds ==
  ASSUME NEW len \in Nat, NEW size \in Nat \ {0}, NEW k \in Nat \ {0}, (k - 1) * size < len
  PROVE  /\ (k - 1) * size \in Nat /\ k * size \in Nat
         /\ Shorter((k - 1) * size, len) = (k - 1) * size
         /\ Shorter(k * size, len) \in Nat /\ Shorter(k * size, len) <= len
         /\ Shorter(k * size, len) - (k - 1) * size \in 1 .. size
<1>1. (k - 1) * size \in Nat /\ k * size = (k - 1) * size + size
  OBVIOUS
<1> DEFINE a == (k - 1) * size
           b == k * size
<1>2. a \in Nat /\ b = a + size /\ a < len
  BY <1>1
<1> HIDE DEF a, b
<1>3. b \in Nat /\ Shorter(a, len) = a /\ Shorter(b, len) \in Nat /\ Shorter(b, len) <= len
      /\ Shorter(b, len) - a \in 1 .. size
  BY <1>2 DEF Shorter
<1> QED
  BY <1>2, <1>3 DEF a, b

\* The pieces are the line, none of them empty or too long.
LEMMA ByCharsIsRight ==
  ASSUME NEW line \in Text, NEW size \in Nat \ {0}
  PROVE  /\ ByChars(line, size) \in Seq(Text)
         /\ \A k \in 1 .. Len(ByChars(line, size)) : Len(ByChars(line, size)[k]) \in 1 .. size
         /\ Concat(ByChars(line, size)) = line
<1> DEFINE L == Len(line)
           N == (L + size - 1) \div size
           end(k) == Shorter(k * size, L)
           P == ByChars(line, size)
<1>1. L \in Nat /\ line \in Seq(Characters)
  BY TextFacts DEF Text
<1>2. N \in Nat /\ L <= N * size /\ (N = 0 \/ (N - 1) * size < L)
  BY <1>1, Parts
<1>3. P = [k \in 1 .. N |-> SubSeq(line, (k - 1) * size + 1, end(k))]
  BY DEF ByChars
<1> HIDE DEF N, P
<1>4. ASSUME NEW k \in 1 .. N
      PROVE  (k - 1) * size < L
  <2> DEFINE a == (k - 1) * size
             b == (N - 1) * size
  <2>1. a <= b /\ a \in Nat /\ b \in Nat
    BY <1>2
  <2>2. b < L
    BY <1>2
  <2> HIDE DEF a, b
  <2>3. a < L
    BY <1>1, <2>1, <2>2
  <2> QED
    BY <2>3 DEF a
<1> HIDE DEF L
<1>5. ASSUME NEW k \in 1 .. N
      PROVE  /\ end(k - 1) \in Nat /\ end(k) \in Nat /\ end(k - 1) = (k - 1) * size
             /\ end(k) <= L /\ end(k) - end(k - 1) \in 1 .. size
  <2>1. k \in Nat \ {0} /\ (k - 1) * size < L
    BY <1>2, <1>4
  <2>2. /\ (k - 1) * size \in Nat /\ Shorter((k - 1) * size, L) = (k - 1) * size
        /\ Shorter(k * size, L) \in Nat /\ Shorter(k * size, L) <= L
        /\ Shorter(k * size, L) - (k - 1) * size \in 1 .. size
    BY <1>1, <2>1, PieceEnds
  <2> QED
    BY <2>2
<1> HIDE DEF end
<1>6. ASSUME NEW k \in 1 .. N
      PROVE  P[k] = SubSeq(line, end(k - 1) + 1, end(k)) /\ P[k] \in Text /\ Len(P[k]) \in 1 .. size
  <2> DEFINE a == end(k - 1)
             b == end(k)
  <2>1. P[k] = SubSeq(line, a + 1, b)
    BY <1>3, <1>5
  <2>2. a \in Nat /\ b \in Nat /\ b <= L /\ b - a \in 1 .. size
    BY <1>5
  <2> HIDE DEF a, b
  <2>3. SubSeq(line, a + 1, b) \in Seq(Characters) /\ Len(SubSeq(line, a + 1, b)) = b - a
    BY <1>1, <2>2 DEF L
  <2> QED
    BY <2>1, <2>2, <2>3 DEF a, b, Text
<1>7. P \in Seq(Text) /\ Len(P) = N
  BY <1>2, <1>3, <1>6
<1> DEFINE S == {n \in 0 .. N : Joined(P)[n] = SubSeq(line, 1, end(n))}
<1>8. 0 \in S
  <2>1. end(0) = 0
    BY <1>1 DEF end, Shorter
  <2>2. SubSeq(line, 1, 0) = <<>>
    BY SubSeqEmpty
  <2>3. Joined(P)[0] = <<>>
    BY <1>7, JoinedFacts
  <2>4. Joined(P)[0] = SubSeq(line, 1, end(0))
    BY <2>1, <2>2, <2>3
  <2> QED
    BY <1>2, <2>4
<1>9. ASSUME NEW n \in 1 .. N, n - 1 \in S PROVE n \in S
  <2> DEFINE a == end(n - 1)
             b == end(n)
  <2>1. Joined(P)[n] = Joined(P)[n - 1] \o P[n]
    BY <1>7, JoinedFacts
  <2>2. Joined(P)[n - 1] = SubSeq(line, 1, a)
    BY <1>9
  <2>3. a \in Nat /\ b \in Nat /\ a <= b /\ b <= L /\ P[n] = SubSeq(line, a + 1, b)
    BY <1>5, <1>6
  <2> HIDE DEF a, b
  <2>4. SubSeq(line, 1, a) \o SubSeq(line, a + 1, b) = SubSeq(line, 1, b)
    <3>1. a \in 1 - 1 .. Len(line) /\ b \in a .. Len(line) /\ 1 \in 1 .. Len(line) + 1
      BY <1>1, <2>3 DEF L
    <3> QED
      BY <1>1, <3>1, ConcatAdjacentSubSeq
  <2>5. Joined(P)[n] = SubSeq(line, 1, b)
    BY <2>1, <2>2, <2>3, <2>4
  <2> QED
    BY <1>2, <2>5 DEF b
<1> HIDE DEF S
<1>10. \A n \in 0 .. N : n \in S
  BY <1>2, <1>8, <1>9, Induction
<1>11. end(N) = L
  BY <1>1, <1>2 DEF end, Shorter
<1>12. Joined(P)[N] = SubSeq(line, 1, L)
  BY <1>2, <1>10, <1>11 DEF S
<1>13. SubSeq(line, 1, L) = line
  BY <1>1, SubSeqFull DEF L
<1>14. Concat(P) = line
  BY <1>7, <1>12, <1>13 DEF Concat
<1> QED
  BY <1>6, <1>7, <1>14 DEF P

-----------------------------------------------------------------------------
(* _split_keeping_newlines.                                                *)

Break(text, i) == i \in {0, Len(text)} \/ (i \in 1 .. Len(text) /\ text[i] = Newline)

\* A line: what is between two breaks, with none within it.
IsLine(text, b, e) ==
  /\ b \in Nat /\ e \in Nat /\ b < e /\ e <= Len(text)
  /\ Break(text, b) /\ Break(text, e)
  /\ \A i \in b + 1 .. e - 1 : text[i] # Newline

AreLines(text, parts, b) ==
  /\ parts \in Seq(Text)
  /\ b \in 0 .. Len(text) /\ Concat(parts) = SubSeq(text, 1, b)
  /\ \A k \in 1 .. Len(parts) : IsLine(text, EndOf(parts, k - 1), EndOf(parts, k))

\* What is cut out of a text.
LEMMA CutFacts ==
  ASSUME NEW text \in Text, NEW b \in Nat, NEW e \in Nat, b <= e, e <= Len(text)
  PROVE  /\ SubSeq(text, b + 1, e) \in Text /\ Len(SubSeq(text, b + 1, e)) = e - b
         /\ SubSeq(text, 1, b) \in Text /\ Len(SubSeq(text, 1, b)) = b
         /\ SubSeq(text, 1, b) \o SubSeq(text, b + 1, e) = SubSeq(text, 1, e)
<1>1. Len(text) \in Nat /\ text \in Seq(Characters)
  BY TextFacts DEF Text
<1>2. \A i \in 1 .. Len(text) : text[i] \in Characters
  BY <1>1
<1>3. SubSeq(text, b + 1, e) \in Seq(Characters) /\ Len(SubSeq(text, b + 1, e)) = e - b
  BY <1>1, <1>2
<1>4. SubSeq(text, 1, b) \in Seq(Characters) /\ Len(SubSeq(text, 1, b)) = b
  BY <1>1, <1>2
<1>5. b \in 1 - 1 .. Len(text) /\ e \in b .. Len(text) /\ 1 \in 1 .. Len(text) + 1
  BY <1>1
<1>6. SubSeq(text, 1, b) \o SubSeq(text, b + 1, e) = SubSeq(text, 1, e)
  BY <1>1, <1>5, ConcatAdjacentSubSeq
<1> QED
  BY <1>3, <1>4, <1>6 DEF Text

\* One line more.
LEMMA MoreLines ==
  ASSUME NEW text \in Text, NEW parts, NEW b, NEW e, AreLines(text, parts, b), IsLine(text, b, e)
  PROVE  AreLines(text, Append(parts, SubSeq(text, b + 1, e)), e)
<1> DEFINE x == SubSeq(text, b + 1, e)
           more == Append(parts, x)
<1>1. /\ parts \in Seq(Text) /\ b \in Nat /\ e \in Nat /\ b <= e /\ e <= Len(text)
      /\ Concat(parts) = SubSeq(text, 1, b) /\ Len(parts) \in Nat /\ Len(text) \in Nat
  BY TextFacts DEF AreLines, IsLine
<1>2. x \in Text /\ Len(SubSeq(text, 1, b)) = b /\ SubSeq(text, 1, b) \o x = SubSeq(text, 1, e)
      /\ Len(SubSeq(text, 1, e)) = e
  BY <1>1, CutFacts
<1> HIDE DEF x
<1>3. /\ more \in Seq(Text) /\ Len(more) = Len(parts) + 1
      /\ \A n \in 0 .. Len(parts) : Joined(more)[n] = Joined(parts)[n]
      /\ Concat(more) = Concat(parts) \o x
      /\ Joined(more)[Len(parts) + 1] = Concat(parts) \o x
  BY <1>1, <1>2, ConcatAppend
<1> HIDE DEF more
<1>4. Concat(more) = SubSeq(text, 1, e)
  BY <1>1, <1>2, <1>3
<1>5. \A n \in 0 .. Len(parts) : EndOf(more, n) = EndOf(parts, n)
  BY <1>3 DEF EndOf
<1>6. EndOf(more, Len(parts)) = b /\ EndOf(more, Len(parts) + 1) = e
  <2>1. Len(parts) \in 0 .. Len(parts)
    BY <1>1
  <2>2. EndOf(more, Len(parts)) = EndOf(parts, Len(parts))
    BY <1>5, <2>1
  <2>3. EndOf(parts, Len(parts)) = Len(Concat(parts))
    BY DEF EndOf, Concat
  <2>4. EndOf(more, Len(parts) + 1) = Len(Concat(parts) \o x)
    BY <1>3 DEF EndOf
  <2> QED
    BY <1>1, <1>2, <2>2, <2>3, <2>4
<1>7. ASSUME NEW k \in 1 .. Len(more)
      PROVE  IsLine(text, EndOf(more, k - 1), EndOf(more, k))
  <2>1. CASE k = Len(parts) + 1
    <3>1. k - 1 = Len(parts)
      BY <1>1, <2>1
    <3> QED
      BY <1>6, <2>1, <3>1
  <2>2. CASE k \in 1 .. Len(parts)
    <3>1. k - 1 \in 0 .. Len(parts) /\ k \in 0 .. Len(parts)
      BY <1>1, <2>2
    <3>2. EndOf(more, k - 1) = EndOf(parts, k - 1) /\ EndOf(more, k) = EndOf(parts, k)
      BY <1>5, <3>1
    <3> QED
      BY <2>2, <3>2 DEF AreLines
  <2> QED
    BY <1>1, <1>3, <2>1, <2>2
<1> QED
  BY <1>1, <1>3, <1>4, <1>7 DEF AreLines, x, more

\* The scan, character by character.
LEMMA ScannedFacts ==
  ASSUME NEW text \in Text
  PROVE  /\ Scanned(text)[0] = [parts |-> <<>>, start |-> 1]
         /\ \A i \in 1 .. Len(text) : Scanned(text)[i] = CutAfter(text, i, Scanned(text)[i - 1])
<1> DEFINE N == Len(text)
           T == [parts : Seq(Text), start : Nat \ {0}]
           base == [parts |-> <<>>, start |-> 1]
           step == [i \in 1 .. N |-> [acc \in T |-> CutAfter(text, i, acc)]]
           body(f) == [i \in 0 .. N |-> IF i = 0 THEN base ELSE CutAfter(text, i, f[i - 1])]
<1>1. N \in Nat /\ base \in T
  BY TextFacts
<1>2. ASSUME NEW i \in 1 .. N, NEW acc \in T
      PROVE  CutAfter(text, i, acc) \in T
  <2>1. SubSeq(text, acc.start, i) \in Text
    <3>1. \A j \in 1 .. N : text[j] \in Characters
      BY DEF Text
    <3>2. \A j \in acc.start .. i : text[j] \in Characters
      BY <1>1, <3>1
    <3> QED
      BY <3>2, SubSeqProperties DEF Text
  <2>2. Append(acc.parts, SubSeq(text, acc.start, i)) \in Seq(Text)
    BY <2>1
  <2> QED
    BY <1>1, <2>2 DEF CutAfter
<1>3. step \in [1 .. N -> [T -> T]]
  BY <1>2
<1>4. \A i \in 1 .. N : \A acc \in T : step[i][acc] = CutAfter(text, i, acc)
  OBVIOUS
<1> HIDE DEF step, T, base
<1>5. PICK f : Computes(f, T, N, base, step)
  <2> HIDE DEF N
  <2> QED
    BY <1>1, <1>3, Recursion
<1>6. f \in [0 .. N -> T] /\ f[0] = base
  BY <1>5 DEF Computes
<1>7. ASSUME NEW i \in 1 .. N
      PROVE  f[i] = CutAfter(text, i, f[i - 1])
  <2>1. i - 1 \in 0 .. N
    BY <1>1
  <2>2. f[i - 1] \in T
    BY <1>6, <2>1
  <2>3. f[i] = step[i][f[i - 1]]
    BY <1>5 DEF Computes
  <2> QED
    BY <1>4, <2>2, <2>3
<1>8. f = body(f)
  <2>1. \A i \in 0 .. N : i # 0 => i \in 1 .. N
    BY <1>1
  <2>2. \A i \in 0 .. N : f[i] = body(f)[i]
    BY <1>6, <1>7, <2>1
  <2> QED
    BY <1>6, <2>2
<1>9. Scanned(text) = CHOOSE g : g = body(g)
  BY DEF Scanned, base
<1> HIDE DEF body
<1>10. Scanned(text) = body(Scanned(text))
  BY <1>8, <1>9
<1> DEFINE g == Scanned(text)
<1>11. g = body(g)
  BY <1>10
<1> HIDE DEF g
<1>12. g[0] = base /\ \A i \in 1 .. N : g[i] = CutAfter(text, i, g[i - 1])
  BY <1>1, <1>11 DEF body
<1> QED
  BY <1>12 DEF g, base

\* What the scan knows after i characters.
ScannedTo(text, acc, i) ==
  /\ acc.start \in 1 .. i + 1
  /\ AreLines(text, acc.parts, acc.start - 1)
  /\ Break(text, acc.start - 1)
  /\ \A j \in acc.start .. i : text[j] # Newline

LEMMA ScanGoesOn ==
  ASSUME NEW text \in Text, NEW acc, NEW i \in 1 .. Len(text), ScannedTo(text, acc, i - 1)
  PROVE  ScannedTo(text, CutAfter(text, i, acc), i)
<1> DEFINE b == acc.start - 1
<1>1. Len(text) \in Nat /\ acc.start \in 1 .. i /\ acc.start = b + 1 /\ b \in Nat /\ b < i
  BY TextFacts DEF ScannedTo
<1>2. CASE text[i] = Newline
  <2> DEFINE x == SubSeq(text, b + 1, i)
             after == [parts |-> Append(acc.parts, x), start |-> i + 1]
  <2>1. CutAfter(text, i, acc) = after
    BY <1>1, <1>2 DEF CutAfter
  <2>2. Break(text, b) /\ Break(text, i)
    BY <1>2 DEF ScannedTo, Break
  <2>3. \A j \in b + 1 .. i - 1 : text[j] # Newline
    BY <1>1 DEF ScannedTo
  <2>4. IsLine(text, b, i)
    BY <1>1, <2>2, <2>3 DEF IsLine
  <2>5. AreLines(text, acc.parts, b)
    BY DEF ScannedTo
  <2> HIDE DEF b
  <2>6. AreLines(text, Append(acc.parts, x), i)
    BY <2>4, <2>5, MoreLines
  <2> HIDE DEF x
  <2>7. after.start = i + 1 /\ after.parts = Append(acc.parts, x) /\ i + 1 - 1 = i
    OBVIOUS
  <2> HIDE DEF after
  <2>8. after.start \in 1 .. i + 1 /\ \A j \in after.start .. i : text[j] # Newline
    BY <2>7
  <2>9. ScannedTo(text, after, i)
    BY <2>2, <2>6, <2>7, <2>8 DEF ScannedTo
  <2> QED
    BY <2>1, <2>9
<1>3. CASE text[i] # Newline
  <2>1. CutAfter(text, i, acc) = acc
    BY <1>3 DEF CutAfter
  <2>2. \A j \in acc.start .. i : text[j] # Newline
    <3> TAKE j \in acc.start .. i
    <3>1. j = i \/ j \in acc.start .. i - 1
      BY <1>1
    <3> QED
      BY <1>3, <3>1 DEF ScannedTo
  <2>3. acc.start \in 1 .. i + 1
    BY <1>1
  <2> QED
    BY <2>1, <2>2, <2>3 DEF ScannedTo
<1> QED
  BY <1>2, <1>3

\* _split_keeping_newlines is right for every text.
LEMMA LinesAreRight ==
  ASSUME NEW text \in Text
  PROVE  AreLines(text, Lines(text), Len(text))
<1> DEFINE N == Len(text)
           g == Scanned(text)
           S == {i \in 0 .. N : ScannedTo(text, g[i], i)}
<1>1. N \in Nat
  BY TextFacts
<1>2. g[0] = [parts |-> <<>>, start |-> 1] /\ \A i \in 1 .. N : g[i] = CutAfter(text, i, g[i - 1])
  BY ScannedFacts
<1> HIDE DEF g
<1>3. 0 \in S
  <2> DEFINE acc == [parts |-> <<>>, start |-> 1]
  <2>1. /\ acc.start = 1 /\ acc.parts = <<>> /\ acc.start - 1 = 0
        /\ <<>> \in Seq(Text) /\ Len(<<>>) = 0
    OBVIOUS
  <2> HIDE DEF acc
  <2>2. SubSeq(text, 1, 0) = <<>>
    BY SubSeqEmpty
  <2>3. AreLines(text, <<>>, 0)
    <3>1. 0 \in 0 .. N /\ <<>> \in Seq(Text)
      BY <1>1
    <3>a. Concat(<<>>) = <<>>
      BY ConcatFacts
    <3>b. Concat(<<>>) = SubSeq(text, 1, 0)
      BY <2>2, <3>a
    <3>2. \A k \in 1 .. Len(<<>>) : FALSE
      OBVIOUS
    <3> QED
      BY <3>1, <3>2, <3>b DEF AreLines
  <2>4. Break(text, 0)
    BY DEF Break
  <2>5. ScannedTo(text, acc, 0)
    BY <2>1, <2>3, <2>4 DEF ScannedTo
  <2>6. ScannedTo(text, g[0], 0)
    BY <1>2, <2>5 DEF acc
  <2> QED
    BY <1>1, <2>6
<1>4. ASSUME NEW i \in 1 .. N, i - 1 \in S PROVE i \in S
  <2>1. ScannedTo(text, g[i - 1], i - 1)
    BY <1>4
  <2>2. ScannedTo(text, CutAfter(text, i, g[i - 1]), i)
    BY <2>1, ScanGoesOn
  <2>3. ScannedTo(text, g[i], i)
    BY <1>2, <2>2
  <2> QED
    BY <1>1, <2>3
<1> HIDE DEF S
<1>5. \A i \in 0 .. N : i \in S
  BY <1>1, <1>3, <1>4, Induction
<1> DEFINE acc == g[N]
           b == acc.start - 1
<1>6. ScannedTo(text, acc, N)
  BY <1>1, <1>5 DEF S
<1>7. Lines(text) = IF acc.start <= N THEN Append(acc.parts, SubSeq(text, acc.start, N)) ELSE acc.parts
  BY DEF Lines, g
<1> HIDE DEF acc
<1>8. acc.start = b + 1 /\ b \in Nat /\ b <= N /\ AreLines(text, acc.parts, b)
  BY <1>1, <1>6 DEF ScannedTo
<1>9. CASE acc.start <= N
  <2>1. IsLine(text, b, N)
    <3>1. Break(text, b) /\ Break(text, N) /\ b < N
      BY <1>6, <1>8, <1>1, <1>9 DEF ScannedTo, Break
    <3>2. \A j \in b + 1 .. N - 1 : text[j] # Newline
      BY <1>1, <1>6, <1>8 DEF ScannedTo
    <3> QED
      BY <1>1, <1>8, <3>1, <3>2 DEF IsLine
  <2>2. Lines(text) = Append(acc.parts, SubSeq(text, b + 1, N))
    BY <1>7, <1>8, <1>9
  <2> HIDE DEF b
  <2>3. AreLines(text, Append(acc.parts, SubSeq(text, b + 1, N)), N)
    BY <1>8, <2>1, MoreLines
  <2> QED
    BY <2>2, <2>3
<1>10. CASE ~ (acc.start <= N)
  <2>1. b = N /\ Lines(text) = acc.parts
    BY <1>1, <1>7, <1>8, <1>10
  <2> QED
    BY <1>8, <2>1
<1> QED
  BY <1>9, <1>10

-----------------------------------------------------------------------------
(* The loop over the lines.                                                *)

Accumulators == [chunks : Seq(Text), current : Text]

LEMMA FlushType ==
  ASSUME NEW acc \in Accumulators
  PROVE  Flush(acc) \in Seq(Text)
<1>1. acc.chunks \in Seq(Text) /\ acc.current \in Text
  BY DEF Accumulators
<1> QED
  BY <1>1 DEF Flush

LEMMA TakeLineType ==
  ASSUME NEW acc \in Accumulators, NEW line \in Text, NEW budget \in Nat \ {0}
  PROVE  TakeLine(acc, line, budget) \in Accumulators
<1>1. acc.chunks \in Seq(Text) /\ acc.current \in Text /\ Flush(acc) \in Seq(Text)
  BY FlushType DEF Accumulators
<1>2. Flush(acc) \o ByChars(line, budget) \in Seq(Text)
  BY <1>1, ByCharsIsRight, JoinedAfter
<1>3. acc.current \o line \in Text /\ <<>> \in Text
  BY <1>1, TextFacts
<1> QED
  BY <1>1, <1>2, <1>3 DEF TakeLine, Accumulators

LEMMA TakenFacts ==
  ASSUME NEW lines \in Seq(Text), NEW budget \in Nat \ {0}
  PROVE  /\ Taken(lines, budget)[0] = [chunks |-> <<>>, current |-> <<>>]
         /\ \A n \in 1 .. Len(lines) :
              Taken(lines, budget)[n] = TakeLine(Taken(lines, budget)[n - 1], lines[n], budget)
<1> DEFINE N == Len(lines)
           base == [chunks |-> <<>>, current |-> <<>>]
           step == [n \in 1 .. N |-> [acc \in Accumulators |-> TakeLine(acc, lines[n], budget)]]
           body(f) == [n \in 0 .. N |-> IF n = 0 THEN base ELSE TakeLine(f[n - 1], lines[n], budget)]
<1>1. N \in Nat /\ \A n \in 1 .. N : lines[n] \in Text
  OBVIOUS
<1>2. base \in Accumulators
  <2>1. <<>> \in Seq(Text) /\ <<>> \in Text
    BY TextFacts
  <2> QED
    BY <2>1 DEF Accumulators
<1>3. step \in [1 .. N -> [Accumulators -> Accumulators]]
  BY <1>1, TakeLineType
<1>4. \A n \in 1 .. N : \A acc \in Accumulators : step[n][acc] = TakeLine(acc, lines[n], budget)
  OBVIOUS
<1> HIDE DEF step, base
<1>5. PICK f : Computes(f, Accumulators, N, base, step)
  <2> HIDE DEF N
  <2> QED
    BY <1>1, <1>2, <1>3, Recursion
<1>6. f \in [0 .. N -> Accumulators] /\ f[0] = base
  BY <1>5 DEF Computes
<1>7. ASSUME NEW n \in 1 .. N
      PROVE  f[n] = TakeLine(f[n - 1], lines[n], budget)
  <2>1. n - 1 \in 0 .. N
    BY <1>1
  <2>2. f[n - 1] \in Accumulators
    BY <1>6, <2>1
  <2>3. f[n] = step[n][f[n - 1]]
    BY <1>5 DEF Computes
  <2> QED
    BY <1>4, <2>2, <2>3
<1>8. f = body(f)
  <2>1. \A n \in 0 .. N : n # 0 => n \in 1 .. N
    BY <1>1
  <2>2. \A n \in 0 .. N : f[n] = body(f)[n]
    BY <1>6, <1>7, <2>1
  <2> QED
    BY <1>6, <2>2
<1>9. Taken(lines, budget) = CHOOSE g : g = body(g)
  BY DEF Taken, base
<1> HIDE DEF body
<1>10. Taken(lines, budget) = body(Taken(lines, budget))
  BY <1>8, <1>9
<1> DEFINE g == Taken(lines, budget)
<1>11. g = body(g)
  BY <1>10
<1> HIDE DEF g
<1>12. g[0] = base /\ \A n \in 1 .. N : g[n] = TakeLine(g[n - 1], lines[n], budget)
  BY <1>1, <1>11 DEF body
<1> QED
  BY <1>12 DEF g, base

\* A chunk may end at a break, or within a line that is too long.
MayEnd(text, budget, p) ==
  Break(text, p) \/ \E b, e \in Nat : IsLine(text, b, e) /\ b < p /\ p < e /\ e - b > budget

\* Chunks that are right, for the part of the text they make up.
AreChunks(text, budget, chunks, part) ==
  /\ chunks \in Seq(Text) /\ Concat(chunks) = part
  /\ \A k \in 1 .. Len(chunks) : Len(chunks[k]) \in 1 .. budget
  /\ \A k \in 1 .. Len(chunks) : MayEnd(text, budget, EndOf(chunks, k))

Gathered(text, budget, acc, part) ==
  /\ acc \in Accumulators /\ Len(acc.current) <= budget
  /\ AreChunks(text, budget, acc.chunks, Concat(acc.chunks))
  /\ Concat(acc.chunks) \o acc.current = part

\* Chunks after chunks.
LEMMA MoreChunks ==
  ASSUME NEW text, NEW budget, NEW s, NEW part \in Text, NEW t \in Seq(Text),
         AreChunks(text, budget, s, part),
         \A j \in 1 .. Len(t) : Len(t[j]) \in 1 .. budget,
         \A j \in 1 .. Len(t) : MayEnd(text, budget, Len(part) + EndOf(t, j))
  PROVE  AreChunks(text, budget, s \o t, part \o Concat(t))
<1> DEFINE u == s \o t
           a == Len(s)
<1>1. s \in Seq(Text) /\ a \in Nat /\ Len(t) \in Nat /\ Concat(s) = part
  BY DEF AreChunks
<1>2. /\ u \in Seq(Text) /\ Len(u) = a + Len(t)
      /\ \A n \in 0 .. a : Joined(u)[n] = Joined(s)[n]
      /\ \A n \in 0 .. Len(t) : Joined(u)[a + n] = Concat(s) \o Joined(t)[n]
      /\ Concat(u) = Concat(s) \o Concat(t)
  BY <1>1, JoinedAfter
<1>3. (\A k \in 1 .. a : u[k] = s[k]) /\ (\A j \in 1 .. Len(t) : u[a + j] = t[j])
  BY <1>1
<1> HIDE DEF u, a
<1>4. ASSUME NEW k \in 1 .. Len(u)
      PROVE  Len(u[k]) \in 1 .. budget /\ MayEnd(text, budget, EndOf(u, k))
  <2>1. CASE k \in 1 .. a
    <3>1. u[k] = s[k] /\ Joined(u)[k] = Joined(s)[k]
      BY <1>1, <1>2, <1>3, <2>1
    <3>2. EndOf(u, k) = EndOf(s, k)
      BY <3>1 DEF EndOf
    <3> QED
      BY <2>1, <3>1, <3>2 DEF AreChunks, a
  <2>2. CASE k \in a + 1 .. a + Len(t)
    <3> DEFINE j == k - a
    <3>1. j \in 1 .. Len(t) /\ j \in 0 .. Len(t) /\ k = a + j
      BY <1>1, <2>2
    <3> HIDE DEF j
    <3>2. u[k] = t[j] /\ Joined(u)[k] = part \o Joined(t)[j]
      BY <1>1, <1>2, <1>3, <3>1
    <3>3. Joined(t)[j] \in Text
      BY <3>1, JoinedFacts
    <3>4. EndOf(u, k) = Len(part) + EndOf(t, j)
      BY <3>2, <3>3, TextFacts DEF EndOf
    <3> QED
      BY <3>1, <3>2, <3>4
  <2> QED
    BY <1>1, <1>2, <2>1, <2>2
<1> QED
  BY <1>1, <1>2, <1>4 DEF AreChunks, u

LEMMA OneMoreChunk ==
  ASSUME NEW text, NEW budget, NEW s, NEW part \in Text, NEW x \in Text,
         AreChunks(text, budget, s, part),
         Len(x) \in 1 .. budget, MayEnd(text, budget, Len(part) + Len(x))
  PROVE  AreChunks(text, budget, Append(s, x), part \o x)
<1> DEFINE t == <<x>>
<1>1. t \in Seq(Text) /\ Len(t) = 1 /\ t[1] = x
  OBVIOUS
<1>2. Concat(t) = x
  BY ConcatFacts
<1>3. s \in Seq(Text)
  BY DEF AreChunks
<1>4. Append(s, x) = s \o t
  BY <1>3, AppendIsConcat
<1> HIDE DEF t
<1>5. EndOf(t, 1) = Len(x)
  BY <1>1, <1>2, EndsOf
<1>6. AreChunks(text, budget, s \o t, part \o Concat(t))
  <2>1. \A j \in 1 .. Len(t) : j = 1
    BY <1>1
  <2>2. \A j \in 1 .. Len(t) : Len(t[j]) \in 1 .. budget
    BY <1>1, <2>1
  <2>3. \A j \in 1 .. Len(t) : MayEnd(text, budget, Len(part) + EndOf(t, j))
    BY <1>5, <2>1
  <2> QED
    BY <1>1, <2>2, <2>3, MoreChunks
<1> QED
  BY <1>2, <1>4, <1>6

\* What is flushed at a break.
LEMMA FlushIsRight ==
  ASSUME NEW text, NEW budget \in Nat \ {0}, NEW acc, NEW part \in Text,
         Gathered(text, budget, acc, part), Break(text, Len(part))
  PROVE  AreChunks(text, budget, Flush(acc), part)
<1> DEFINE w == Concat(acc.chunks)
           x == acc.current
<1>1. acc.chunks \in Seq(Text) /\ x \in Text /\ Len(x) <= budget /\ w \o x = part
      /\ AreChunks(text, budget, acc.chunks, w)
  BY DEF Gathered, Accumulators
<1>2. w \in Text
  BY <1>1, ConcatFacts
<1> HIDE DEF w, x
<1>3. CASE x = <<>>
  <2>1. Flush(acc) = acc.chunks
    BY <1>3 DEF Flush, x
  <2>2. w = part
    BY <1>1, <1>2, <1>3, TextFacts
  <2> QED
    BY <1>1, <2>1, <2>2
<1>4. CASE x # <<>>
  <2>1. Flush(acc) = Append(acc.chunks, x)
    BY <1>4 DEF Flush, x
  <2>2. Len(x) \in 1 .. budget
    BY <1>1, <1>4, TextFacts
  <2>3. Len(w) + Len(x) = Len(part)
    BY <1>1, <1>2, TextFacts
  <2>4. MayEnd(text, budget, Len(w) + Len(x))
    BY <2>3 DEF MayEnd
  <2>5. AreChunks(text, budget, Append(acc.chunks, x), w \o x)
    BY <1>1, <1>2, <2>2, <2>4, OneMoreChunk
  <2> QED
    BY <1>1, <2>1, <2>5
<1> QED
  BY <1>3, <1>4

\* A line too long, cut up.
LEMMA CutUp ==
  ASSUME NEW text, NEW budget \in Nat \ {0}, NEW s, NEW part \in Text, NEW line \in Text,
         AreChunks(text, budget, s, part), Len(line) > budget,
         IsLine(text, Len(part), Len(part) + Len(line))
  PROVE  AreChunks(text, budget, s \o ByChars(line, budget), part \o line)
<1> DEFINE t == ByChars(line, budget)
           a == Len(part)
           L == Len(line)
<1>1. t \in Seq(Text) /\ Concat(t) = line /\ \A j \in 1 .. Len(t) : Len(t[j]) \in 1 .. budget
  BY ByCharsIsRight
<1>2. a \in Nat /\ L \in Nat /\ Len(t) \in Nat /\ L > budget
  BY <1>1, TextFacts
<1> HIDE DEF t
<1>3. \A j \in 1 .. Len(t) : t[j] # <<>>
  <2> TAKE j \in 1 .. Len(t)
  <2>1. t[j] \in Text /\ Len(t[j]) > 0
    BY <1>1
  <2> QED
    BY <2>1, TextFacts
<1>4. \A j \in 1 .. Len(t) - 1 : 0 < EndOf(t, j) /\ EndOf(t, j) < L
  BY <1>1, <1>3, EndsGrow
<1>5. EndOf(t, Len(t)) = L /\ \A j \in 0 .. Len(t) : EndOf(t, j) \in Nat
  BY <1>1, EndsOf
<1> HIDE DEF a, L
<1>6. IsLine(text, a, a + L)
  BY DEF a, L
<1>7. ASSUME NEW j \in 1 .. Len(t)
      PROVE  MayEnd(text, budget, a + EndOf(t, j))
  <2>1. CASE j = Len(t)
    BY <1>5, <1>6, <2>1 DEF MayEnd, IsLine
  <2>2. CASE j \in 1 .. Len(t) - 1
    <3> DEFINE p == EndOf(t, j)
    <3>1. p \in Nat /\ 0 < p /\ p < L
      BY <1>4, <1>5, <2>2
    <3> HIDE DEF p
    <3> DEFINE e == a + L
    <3>2. a \in Nat /\ e \in Nat /\ a < a + p /\ a + p < e /\ e - a > budget /\ IsLine(text, a, e)
      BY <1>2, <1>6, <3>1
    <3> HIDE DEF e
    <3>3. MayEnd(text, budget, a + p)
      BY <3>2 DEF MayEnd
    <3> QED
      BY <3>3 DEF p
  <2> QED
    BY <1>2, <2>1, <2>2
<1>8. AreChunks(text, budget, s \o t, part \o Concat(t))
  BY <1>1, <1>7, MoreChunks DEF a
<1> QED
  BY <1>1, <1>8 DEF t

\* A line joins what is gathered.
LEMMA Longer ==
  ASSUME NEW chunks \in Seq(Text), NEW current \in Text, NEW line \in Text
  PROVE  Concat(chunks) \o (current \o line) = (Concat(chunks) \o current) \o line
<1>1. Concat(chunks) \in Text
  BY ConcatFacts
<1>2. \A s, t, u \in Text : (s \o t) \o u = s \o (t \o u)
  BY TextFacts
<1> QED
  BY <1>1, <1>2, Zenon

\* What makes an accumulator one that has gathered a part.
LEMMA GatheredIf ==
  ASSUME NEW text, NEW budget, NEW part, NEW chunks, NEW current, NEW acc \in Accumulators,
         acc.chunks = chunks, acc.current = current,
         AreChunks(text, budget, chunks, Concat(chunks)),
         Concat(chunks) \o current = part, Len(current) <= budget
  PROVE  Gathered(text, budget, acc, part)
BY DEF Gathered

\* One line more.
LEMMA TakeLineIsRight ==
  ASSUME NEW text, NEW budget \in Nat \ {0}, NEW acc, NEW part \in Text, NEW line \in Text,
         Gathered(text, budget, acc, part),
         IsLine(text, Len(part), Len(part) + Len(line))
  PROVE  Gathered(text, budget, TakeLine(acc, line, budget), part \o line)
<1>1. Break(text, Len(part))
  BY DEF IsLine
<1>2. acc \in Accumulators /\ acc.chunks \in Seq(Text) /\ acc.current \in Text /\ Len(acc.current) <= budget
      /\ AreChunks(text, budget, acc.chunks, Concat(acc.chunks)) /\ Concat(acc.chunks) \o acc.current = part
  BY DEF Gathered, Accumulators
<1>3. AreChunks(text, budget, Flush(acc), part) /\ Flush(acc) \in Seq(Text) /\ Concat(Flush(acc)) = part
  BY <1>1, FlushIsRight DEF AreChunks
<1>4. TakeLine(acc, line, budget) \in Accumulators
  BY <1>2, TakeLineType
<1>5. CASE Len(line) > budget
  <2> DEFINE chunks == Flush(acc) \o ByChars(line, budget)
  <2>1. TakeLine(acc, line, budget) = [chunks |-> chunks, current |-> <<>>]
    BY <1>5 DEF TakeLine
  <2>2. AreChunks(text, budget, chunks, part \o line)
    BY <1>3, <1>5, CutUp
  <2> HIDE DEF chunks
  <2>3. Concat(chunks) = part \o line /\ AreChunks(text, budget, chunks, Concat(chunks))
    BY <2>2 DEF AreChunks
  <2>4. part \o line \in Text /\ Len(<<>>) = 0
    BY TextFacts
  <2>5. Concat(chunks) \o <<>> = part \o line
    BY <2>3, <2>4, TextFacts
  <2> QED
    <3> DEFINE after == TakeLine(acc, line, budget)
    <3>1. after \in Accumulators /\ after.chunks = chunks /\ after.current = <<>>
      BY <1>4, <2>1
    <3>2. Len(<<>>) <= budget
      BY <2>4
    <3> HIDE DEF after
    <3>3. Gathered(text, budget, after, part \o line)
      BY <2>3, <2>5, <3>1, <3>2, GatheredIf
    <3> QED
      BY <3>3 DEF after
<1>6. CASE ~ (Len(line) > budget) /\ Len(acc.current) + Len(line) > budget
  <2>1. TakeLine(acc, line, budget) = [chunks |-> Flush(acc), current |-> line]
    BY <1>6 DEF TakeLine
  <2>2. Len(line) <= budget
    BY <1>6, TextFacts
  <2> QED
    <3> DEFINE after == TakeLine(acc, line, budget)
               chunks == Flush(acc)
    <3>1. after \in Accumulators /\ after.chunks = chunks /\ after.current = line
      BY <1>4, <2>1
    <3>2. AreChunks(text, budget, chunks, Concat(chunks)) /\ Concat(chunks) \o line = part \o line
      BY <1>3
    <3> HIDE DEF after, chunks
    <3>3. Gathered(text, budget, after, part \o line)
      BY <2>2, <3>1, <3>2, GatheredIf
    <3> QED
      BY <3>3 DEF after
<1>7. CASE ~ (Len(line) > budget) /\ ~ (Len(acc.current) + Len(line) > budget)
  <2> DEFINE x == acc.current \o line
  <2>1. /\ TakeLine(acc, line, budget).chunks = acc.chunks
        /\ TakeLine(acc, line, budget).current = x
    BY <1>2, <1>7 DEF TakeLine, Accumulators
  <2>2. Len(x) <= budget
    BY <1>2, <1>7, TextFacts
  <2>3. Concat(acc.chunks) \o x = part \o line
    <3>2. Concat(acc.chunks) \o (acc.current \o line) = (Concat(acc.chunks) \o acc.current) \o line
      BY <1>2, Longer
    <3> QED
      BY <1>2, <3>2
  <2> HIDE DEF x
  <2> QED
    BY <1>2, <1>4, <2>1, <2>2, <2>3 DEF Gathered
<1> QED
  BY <1>5, <1>6, <1>7

\* No text.
LEMMA NoChunks ==
  ASSUME NEW text, NEW budget
  PROVE  AreChunks(text, budget, <<>>, <<>>)
<1>1. <<>> \in Seq(Text) /\ \A k \in 1 .. Len(<<>>) : FALSE
  OBVIOUS
<1>2. Concat(<<>>) = <<>>
  BY ConcatFacts
<1> QED
  BY <1>1, <1>2 DEF AreChunks

\* The loop, for every text and budget.
LEMMA TakenIsRight ==
  ASSUME NEW text \in Text, NEW budget \in Nat \ {0}
  PROVE  \A n \in 0 .. Len(Lines(text)) :
           Gathered(text, budget, Taken(Lines(text), budget)[n], Joined(Lines(text))[n])
<1> DEFINE lines == Lines(text)
           N == Len(lines)
           g == Taken(lines, budget)
           S == {n \in 0 .. N : Gathered(text, budget, g[n], Joined(lines)[n])}
<1>1. /\ lines \in Seq(Text)
      /\ \A k \in 1 .. N : IsLine(text, EndOf(lines, k - 1), EndOf(lines, k))
  BY LinesAreRight DEF AreLines
<1> HIDE DEF lines
<1>2. N \in Nat /\ \A n \in 1 .. N : lines[n] \in Text
  BY <1>1
<1>3. /\ g[0] = [chunks |-> <<>>, current |-> <<>>]
      /\ \A n \in 1 .. N : g[n] = TakeLine(g[n - 1], lines[n], budget)
  BY <1>1, TakenFacts
<1> HIDE DEF g
<1>4. 0 \in S
  <2>1. g[0] \in Accumulators /\ g[0].chunks = <<>> /\ g[0].current = <<>>
    <3>1. <<>> \in Seq(Text) /\ <<>> \in Text
      BY TextFacts
    <3> QED
      BY <1>3, <3>1 DEF Accumulators
  <2>2. Concat(<<>>) = <<>> /\ <<>> \o <<>> = <<>> /\ Len(<<>>) <= budget
    BY ConcatFacts, TextFacts
  <2>3. AreChunks(text, budget, <<>>, Concat(<<>>))
    BY <2>2, NoChunks
  <2>4. Gathered(text, budget, g[0], <<>>)
    BY <2>1, <2>2, <2>3, GatheredIf
  <2>5. Joined(lines)[0] = <<>>
    BY <1>1, JoinedFacts
  <2>6. Gathered(text, budget, g[0], Joined(lines)[0])
    BY <2>4, <2>5
  <2> QED
    BY <1>2, <2>6
<1>5. ASSUME NEW n \in 1 .. N, n - 1 \in S PROVE n \in S
  <2> DEFINE part == Joined(lines)[n - 1]
             line == lines[n]
  <2>1. n - 1 \in 0 .. N /\ n \in 0 .. N /\ line \in Text
    BY <1>2
  <2>2. part \in Text
    BY <1>1, <2>1, JoinedFacts
  <2>3. Gathered(text, budget, g[n - 1], part)
    BY <1>5
  <2>4. Joined(lines)[n] = part \o line
    BY <1>1, JoinedFacts
  <2>5. EndOf(lines, n - 1) = Len(part) /\ EndOf(lines, n) = EndOf(lines, n - 1) + Len(line)
    BY <1>1, EndsOf DEF EndOf
  <2>6. IsLine(text, Len(part), Len(part) + Len(line))
    BY <1>1, <2>5
  <2>7. g[n] = TakeLine(g[n - 1], line, budget)
    BY <1>3
  <2> HIDE DEF part, line
  <2>8. Gathered(text, budget, TakeLine(g[n - 1], line, budget), part \o line)
    BY <2>1, <2>2, <2>3, <2>6, TakeLineIsRight
  <2>9. Gathered(text, budget, g[n], Joined(lines)[n])
    BY <2>4, <2>7, <2>8
  <2> QED
    BY <2>1, <2>9
<1> HIDE DEF S
<1>6. \A n \in 0 .. N : n \in S
  BY <1>2, <1>4, <1>5, Induction
<1>7. \A n \in 0 .. N : Gathered(text, budget, g[n], Joined(lines)[n])
  BY <1>6 DEF S
<1> QED
  BY <1>7 DEF g, lines

LEMMA ChunkTextIsRight ==
  ASSUME NEW text \in Text, NEW budget \in Nat \ {0}
  PROVE  AreChunks(text, budget, ChunkText(text, budget), text)
<1>1. CASE text = <<>>
  <2>1. ChunkText(text, budget) = <<>>
    BY <1>1 DEF ChunkText
  <2>2. AreChunks(text, budget, <<>>, <<>>)
    BY NoChunks
  <2> QED
    BY <1>1, <2>1, <2>2
<1>2. CASE text # <<>> /\ Len(text) <= budget
  <2>1. ChunkText(text, budget) = <<text>> /\ Append(<<>>, text) = <<text>>
    BY <1>2 DEF ChunkText
  <2>2. Len(text) \in 1 .. budget /\ <<>> \in Text /\ <<>> \o text = text /\ Len(<<>>) = 0
    BY <1>2, TextFacts
  <2>3. MayEnd(text, budget, Len(<<>>) + Len(text))
    BY <2>2 DEF MayEnd, Break
  <2>4. AreChunks(text, budget, <<>>, <<>>)
    BY NoChunks
  <2>5. AreChunks(text, budget, Append(<<>>, text), <<>> \o text)
    BY <2>2, <2>3, <2>4, OneMoreChunk
  <2> QED
    BY <2>1, <2>2, <2>5
<1>3. CASE text # <<>> /\ ~ (Len(text) <= budget)
  <2> DEFINE lines == Lines(text)
             N == Len(lines)
             acc == Taken(lines, budget)[N]
  <2>1. ChunkText(text, budget) = Flush(acc)
    BY <1>3 DEF ChunkText
  <2>2. lines \in Seq(Text) /\ Concat(lines) = SubSeq(text, 1, Len(text))
    BY LinesAreRight DEF AreLines
  <2>3. SubSeq(text, 1, Len(text)) = text
    BY SubSeqFull DEF Text
  <2>4. N \in 0 .. N
    BY <2>2
  <2>5. Gathered(text, budget, acc, Joined(lines)[N])
    BY <2>4, TakenIsRight
  <2>6. Joined(lines)[N] = text
    BY <2>2, <2>3 DEF Concat
  <2>7. Break(text, Len(text))
    BY DEF Break
  <2> HIDE DEF acc
  <2>8. AreChunks(text, budget, Flush(acc), text)
    BY <2>5, <2>6, <2>7, FlushIsRight
  <2> QED
    BY <2>1, <2>8
<1> QED
  BY <1>1, <1>2, <1>3

-----------------------------------------------------------------------------
\* The least and the greatest of some integers.
LEMMA MinMax ==
  ASSUME NEW S, \A y \in S : y \in Int, NEW x \in S
  PROVE  /\ (\A y \in S : x <= y) => Min(S) = x
         /\ (\A y \in S : x >= y) => Max(S) = x
<1>1. ASSUME \A y \in S : x <= y
      PROVE  Min(S) = x
  <2>1. \A z \in S : (\A y \in S : z <= y) => z = x
    BY <1>1
  <2>2. Min(S) = CHOOSE z \in S : \A y \in S : z <= y
    BY DEF Min
  <2> QED
    BY <1>1, <2>1, <2>2
<1>2. ASSUME \A y \in S : x >= y
      PROVE  Max(S) = x
  <2>1. \A z \in S : (\A y \in S : z >= y) => z = x
    BY <1>2
  <2>2. Max(S) = CHOOSE z \in S : \A y \in S : z >= y
    BY DEF Max
  <2> QED
    BY <1>2, <2>1, <2>2
<1> QED
  BY <1>1, <1>2

\* The line around a place within it.
LEMMA LineFound ==
  ASSUME NEW text \in Text, NEW b, NEW e, IsLine(text, b, e), NEW p \in Nat, b < p, p < e
  PROVE  LineAround(text, p) = e - b
<1> DEFINE N == Len(text)
           breaks == {0, N} \cup {i \in DOMAIN text : text[i] = Newline}
           later == {i \in breaks : i > p}
           earlier == {i \in breaks : i < p}
<1>1. N \in Nat /\ DOMAIN text = 1 .. N /\ b \in Nat /\ e \in Nat /\ e <= N
  BY TextFacts DEF IsLine
<1>2. ASSUME NEW i \in breaks
      PROVE  i \in 0 .. N /\ (i \in {0, N} \/ text[i] = Newline)
  <2>1. i \in {0, N} \/ (i \in DOMAIN text /\ text[i] = Newline)
    OBVIOUS
  <2> HIDE DEF N
  <2> QED
    BY <1>1, <2>1
<1>3. b \in breaks /\ e \in breaks
  BY <1>1 DEF IsLine, Break
<1>4. LineAround(text, p) = Min(later) - Max(earlier)
  BY DEF LineAround
<1> HIDE DEF breaks, N
<1>5. \A i \in breaks : i \in Nat /\ (i <= b \/ e <= i)
  <2> TAKE i \in breaks
  <2>1. i \in 0 .. N
    BY <1>2
  <2>2. ~ (b < i /\ i < e)
    <3> SUFFICES ASSUME b < i, i < e PROVE FALSE
      OBVIOUS
    <3>1. i # 0 /\ i # N /\ i \in b + 1 .. e - 1
      BY <1>1, <2>1
    <3>2. text[i] = Newline
      BY <1>2, <3>1
    <3> QED
      BY <3>1, <3>2 DEF IsLine
  <2> QED
    BY <1>1, <2>1, <2>2
<1>6. e \in later /\ b \in earlier
  BY <1>3
<1>7. \A y \in later : y \in Int /\ e <= y
  BY <1>1, <1>5
<1>8. \A y \in earlier : y \in Int /\ b >= y
  BY <1>1, <1>5
<1> HIDE DEF later, earlier
<1>9. Min(later) = e
  BY <1>6, <1>7, MinMax
<1>10. Max(earlier) = b
  BY <1>6, <1>8, MinMax
<1> QED
  BY <1>4, <1>9, <1>10

\* chunk_text keeps what it promises, for every text and every budget: the pieces are the
\* text, in order; none is empty or over the budget; and one ends within a line only if the
\* line is longer than the budget.
THEOREM ChunkerCorrect ==
  \A text \in Text : \A budget \in Nat \ {0} : ChunksAreRight(text, budget)
<1> TAKE text \in Text
<1> TAKE budget \in Nat \ {0}
<1> DEFINE chunks == ChunkText(text, budget)
<1>1. AreChunks(text, budget, chunks, text)
  BY ChunkTextIsRight
<1> HIDE DEF chunks
<1>2. /\ chunks \in Seq(Text) /\ Concat(chunks) = text /\ DOMAIN chunks = 1 .. Len(chunks)
      /\ \A k \in 1 .. Len(chunks) : Len(chunks[k]) \in 1 .. budget
  BY <1>1 DEF AreChunks
<1>3. ASSUME NEW k \in 1 .. Len(chunks)
      PROVE  chunks[k] # <<>>
  <2>1. chunks[k] \in Text /\ Len(chunks[k]) > 0
    BY <1>2
  <2> QED
    BY <2>1, TextFacts
<1>4. ASSUME NEW k \in 1 .. Len(chunks) - 1
      PROVE  \/ text[EndOf(chunks, k)] = Newline
             \/ LineAround(text, EndOf(chunks, k)) > budget
  <2> DEFINE p == EndOf(chunks, k)
  <2>1. k \in 1 .. Len(chunks) /\ k \in 0 .. Len(chunks)
    BY <1>2
  <2>2. 0 < p /\ p < Len(text)
    BY <1>2, <1>3, EndsGrow
  <2>3. p \in Nat
    BY <1>2, <2>1, EndsOf
  <2>4. MayEnd(text, budget, p)
    BY <1>1, <2>1 DEF AreChunks
  <2> HIDE DEF p
  <2>5. ASSUME Break(text, p) PROVE text[p] = Newline
    BY <2>2, <2>3, <2>5, TextFacts DEF Break
  <2>6. ASSUME NEW b \in Nat, NEW e \in Nat, IsLine(text, b, e), b < p, p < e, e - b > budget
        PROVE  LineAround(text, p) > budget
    BY <2>3, <2>6, LineFound
  <2>7. text[p] = Newline \/ LineAround(text, p) > budget
    BY <2>4, <2>5, <2>6 DEF MayEnd
  <2> QED
    BY <2>7 DEF p
<1>5. \A k \in DOMAIN chunks : Len(chunks[k]) \in 1 .. budget
  BY <1>2
<1> QED
  BY <1>2, <1>4, <1>5 DEF ChunksAreRight, chunks
=============================================================================
