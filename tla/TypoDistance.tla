---------------------------- MODULE TypoDistance ----------------------------
(***************************************************************************)
(* _edit_distance (index.py): the bounded edit distance between a word of  *)
(* a query and a word of a document, computed row by row and given up as   *)
(* soon as a row has nothing within the bound.                             *)
(***************************************************************************)
EXTENDS Integers, Sequences, FiniteSets, FiniteSetsExt

CONSTANTS Letters, WordLength, MaxTypos

Words == UNION {[1 .. n -> Letters] : n \in 0 .. WordLength}
NoDistance == -1
Unfinished == -2

VARIABLES left, right, bound, previous, row, distance
typoVars == <<left, right, bound, previous, row, distance>>

Gap(a, b) == IF Len(a) > Len(b) THEN Len(a) - Len(b) ELSE Len(b) - Len(a)

TypoInit ==
  /\ left \in Words /\ right \in Words /\ bound \in 1 .. MaxTypos
  /\ previous = [column \in 0 .. Len(right) |-> column]
  /\ row = 0
  /\ distance = IF Gap(left, right) > bound THEN NoDistance ELSE Unfinished

Different(a, b) == IF a = b THEN 0 ELSE 1

\* mutant of Row: the letter to replace is compared one place further
RowShifted(n) ==
  LET value[column \in 0 .. Len(right)] ==
        IF column = 0 THEN n
        ELSE Min({value[column - 1] + 1, previous[column] + 1,
                  previous[column - 1] + Different(left[n], right[1])})
  IN  value

\* The next row from the one before: insert, delete, or replace.
Row(n) ==
  LET value[column \in 0 .. Len(right)] ==
        IF column = 0 THEN n
        ELSE Min({value[column - 1] + 1, previous[column] + 1,
                  previous[column - 1] + Different(left[n], right[column])})
  IN  value

NextRow ==
  /\ distance = Unfinished /\ row < Len(left)
  /\ previous' = Row(row + 1)
  /\ row' = row + 1
  /\ distance' = IF Min({previous'[column] : column \in 0 .. Len(right)}) > bound
                 THEN NoDistance ELSE Unfinished
  /\ UNCHANGED <<left, right, bound>>

LastRow ==
  /\ distance = Unfinished /\ row = Len(left)
  /\ distance' = IF previous[Len(right)] <= bound THEN previous[Len(right)] ELSE NoDistance
  /\ UNCHANGED <<left, right, bound, previous, row>>

TypoNext == NextRow \/ LastRow

-----------------------------------------------------------------------------
\* The letters of the words that an alignment pairs, in order; a pair of different
\* letters is one edit, and so is every letter that is not paired.
Alignments ==
  {pairs \in SUBSET ((1 .. Len(left)) \X (1 .. Len(right))) :
     \A p, q \in pairs : p = q \/ (p[1] < q[1] /\ p[2] < q[2]) \/ (p[1] > q[1] /\ p[2] > q[2])}
Edits(pairs) ==
  Len(left) + Len(right) - 2 * Cardinality(pairs)
  + Cardinality({p \in pairs : left[p[1]] # right[p[2]]})
FewestEdits == Min({Edits(pairs) : pairs \in Alignments})

\* The answer is the fewest edits that turn one word into the other, and "none"
\* exactly if these are more than the bound, wherever the computation stopped.
DistanceIsFewestEdits ==
  distance # Unfinished =>
    distance = IF FewestEdits <= bound THEN FewestEdits ELSE NoDistance
=============================================================================
