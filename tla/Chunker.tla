------------------------------- MODULE Chunker -------------------------------
(***************************************************************************)
(* chunk_text: a text cut into pieces of at most a budget, at the ends of  *)
(* its lines where that is possible.  A text is a sequence of characters,  *)
(* of which only the newline is told from the others.                      *)
(***************************************************************************)
EXTENDS Naturals, Sequences, FiniteSetsExt

CONSTANTS Characters, Newline

Text == Seq(Characters)

\* "".join: the first n texts, for every n.
Joined(texts) ==
  LET joined[n \in 0 .. Len(texts)] == IF n = 0 THEN <<>> ELSE joined[n - 1] \o texts[n]
  IN  joined

Concat(texts) == Joined(texts)[Len(texts)]

Shorter(a, b) == IF a <= b THEN a ELSE b

\* _split_keeping_newlines: every line with its newline, if it has one.
CutAfter(text, i, acc) ==
  IF text[i] = Newline
  THEN [parts |-> Append(acc.parts, SubSeq(text, acc.start, i)), start |-> i + 1]
  ELSE acc

Scanned(text) ==
  LET scanned[i \in 0 .. Len(text)] ==
        IF i = 0 THEN [parts |-> <<>>, start |-> 1] ELSE CutAfter(text, i, scanned[i - 1])
  IN  scanned

Lines(text) ==
  LET acc == Scanned(text)[Len(text)]
  IN  IF acc.start <= Len(text)
      THEN Append(acc.parts, SubSeq(text, acc.start, Len(text)))
      ELSE acc.parts

\* _split_by_chars.
ByChars(line, size) ==
  [k \in 1 .. (Len(line) + size - 1) \div size |->
     SubSeq(line, (k - 1) * size + 1, Shorter(k * size, Len(line)))]

\* The pieces so far, and the one that may still grow.
Flush(acc) == IF acc.current = <<>> THEN acc.chunks ELSE Append(acc.chunks, acc.current)

\* A faulty variant: a line too long drops what was gathered before it.
TakeLineDropping(acc, line, budget) ==
  IF Len(line) > budget THEN [chunks |-> acc.chunks \o ByChars(line, budget), current |-> <<>>]
  ELSE IF Len(acc.current) + Len(line) > budget THEN [chunks |-> Flush(acc), current |-> line]
  ELSE [acc EXCEPT !.current = @ \o line]

\* The next line is cut up if it is too long, starts a piece, or joins the current one.
TakeLine(acc, line, budget) ==
  IF Len(line) > budget THEN [chunks |-> Flush(acc) \o ByChars(line, budget), current |-> <<>>]
  ELSE IF Len(acc.current) + Len(line) > budget THEN [chunks |-> Flush(acc), current |-> line]
  ELSE [acc EXCEPT !.current = @ \o line]

\* What the loop over the lines holds after n of them.
Taken(lines, budget) ==
  LET taken[n \in 0 .. Len(lines)] ==
        IF n = 0 THEN [chunks |-> <<>>, current |-> <<>>]
        ELSE TakeLine(taken[n - 1], lines[n], budget)
  IN  taken

ChunkText(text, budget) ==
  IF text = <<>> THEN <<>>
  ELSE IF Len(text) <= budget THEN <<text>>
  ELSE Flush(Taken(Lines(text), budget)[Len(Lines(text))])

-----------------------------------------------------------------------------
\* What chunk_text promises (chunker.py:5-13, 50-57): the pieces are the text, in order;
\* none is empty or over the budget; and one ends within a line only if the line is too
\* long.
EndOf(chunks, k) == Len(Joined(chunks)[k])

LineAround(text, p) ==
  LET breaks == {0, Len(text)} \cup {i \in DOMAIN text : text[i] = Newline}
  IN  Min({i \in breaks : i > p}) - Max({i \in breaks : i < p})

ChunksAreRight(text, budget) ==
  LET chunks == ChunkText(text, budget)
  IN  /\ Concat(chunks) = text
      /\ \A k \in DOMAIN chunks : Len(chunks[k]) \in 1 .. budget
      /\ \A k \in 1 .. Len(chunks) - 1 :
           LET p == EndOf(chunks, k) IN text[p] = Newline \/ LineAround(text, p) > budget
=============================================================================
