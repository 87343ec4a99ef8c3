---------------------------- MODULE RecordSteps -----------------------------
(***************************************************************************)
(* Which records a grid's quick search leaves and where its record view    *)
(* steps to: recordNavigation.ts and gridQuickSearch.ts.                   *)
(***************************************************************************)
EXTENDS Integers, Sequences, FiniteSets

Nowhere == 0

HasText(text, needle) ==
    \E i \in 0..(Len(text) - Len(needle)) : SubSeq(text, i + 1, i + Len(needle)) = needle

\* texts: what the searched columns of a record show
MatchesQuery(texts, needle) == needle = <<>> \/ \E t \in texts : HasText(t, needle)

\* The n-th smallest of a set of numbers, and the members of a sequence at some positions.
Nth(S, n) == CHOOSE i \in S : Cardinality({j \in S : j <= i}) = n
Picked(seq, positions) == [n \in 1..Cardinality(positions) |-> seq[Nth(positions, n)]]

\* matching: the records whose texts match
VisibleRecords(records, matching) == Picked(records, {i \in DOMAIN records : records[i] \in matching})

\* The position of the record to show, or Nowhere; current is Nowhere when none is shown.
StepIndex(current, delta, count) ==
    LET moved == current + delta
        target == IF moved < 1 THEN 1 ELSE IF moved > count THEN count ELSE moved
    IN  IF count = 0 \/ target = current THEN Nowhere ELSE target
=============================================================================
