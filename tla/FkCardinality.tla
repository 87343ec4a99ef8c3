--------------------------- MODULE FkCardinality ----------------------------
(***************************************************************************)
(* What the indexes and constraints of a table say about a list of its     *)
(* columns (frontend/src/data/fkCardinality.ts): shared by the diagrams,   *)
(* which mark foreign keys, and by the index advisor.                      *)
(*                                                                         *)
(* A structure is [constraints, indexes].  A constraint is [type, columns];*)
(* an index [terms, unique], a term being a column or "(expression)".  Its *)
(* definition also says of what rows it is and how it is built (partial,   *)
(* method), which nothing here looks at.                                   *)
(***************************************************************************)
EXTENDS Sequences, SequencesExt

\* The columns of CREATE INDEX's text; <<>> when one term is not a bare column,
\* which makes the whole index unreadable: it counts for nothing.
ParseIndexColumns(index) ==
    IF "(expression)" \in ToSet(index.terms) THEN <<>> ELSE index.terms

IsKey(constraint) == constraint.type \in {"primaryKey", "unique"}

\* Mutant of IsColumnPrefixIndexed: an index on the first column is enough.
IsFirstColumnIndexed(columns, s) ==
    \/ \E c \in s.constraints : IsKey(c) /\ IsPrefix(columns, c.columns)
    \/ \E x \in s.indexes : IsPrefix(SubSeq(columns, 1, 1), ParseIndexColumns(x))

\* Some index, or the index of a key, starts with these columns in this order.
IsColumnPrefixIndexed(columns, s) ==
    \/ \E c \in s.constraints : IsKey(c) /\ IsPrefix(columns, c.columns)
    \/ \E x \in s.indexes : IsPrefix(columns, ParseIndexColumns(x))

\* The same columns, in whatever order.
ColumnSetEquals(candidate, columns) ==
    Len(candidate) = Len(columns) /\ ToSet(columns) \subseteq ToSet(candidate)

\* Exactly these columns are a key: a row has at most one referencing row.
IsFkUnique(columns, s) ==
    \/ \E c \in s.constraints : IsKey(c) /\ ColumnSetEquals(c.columns, columns)
    \/ \E x \in s.indexes : x.unique /\ ColumnSetEquals(ParseIndexColumns(x), columns)

\* None of the columns may be NULL.
IsFkMandatory(columns, notNull) == ToSet(columns) \subseteq notNull

CardinalityStartMarker(unique, mandatory) ==
    IF unique THEN IF mandatory THEN "one" ELSE "zeroOrOne"
    ELSE IF mandatory THEN "oneOrMany" ELSE "zeroOrMany"
=============================================================================
