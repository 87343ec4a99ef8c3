--------------------------- MODULE QueryStatements ---------------------------
(***************************************************************************)
(* What the query panel reads out of a statement's text, and out of what   *)
(* came back: does it look read-only (frontend/src/data/explain.ts), where *)
(* is the error the server reports (backend operations/common.py,          *)
(* frontend/src/data/sqlErrorPosition.ts), under which names do the        *)
(* columns of a result travel (backend operations/run_query.py).           *)
(*                                                                         *)
(* A text is a sequence of words (upper case: the reader folds them), of   *)
(* blanks "\n" and of the marks below.  An item stands for one character,  *)
(* for two UTF-16 units if it is "wide"; the ends of words are left out.   *)
(***************************************************************************)
EXTENDS Integers, Sequences, FiniteSets, SequencesExt

Marks == {"(", ")", "'", "--", "/*", "*/", "\n", "wide"}

ReadKeywords == {"SELECT", "TABLE", "VALUES", "SHOW"}
BodyKeywords == {"SELECT", "VALUES", "TABLE", "INSERT", "UPDATE", "DELETE", "MERGE"}

\* ---------------------------------------------------- the read-only guard
\* A block comment ends at the first end mark; one without an end stays.
StripBlocks(text) ==
    LET step(s, x) ==
            IF s.held = <<>> THEN IF x = "/*" THEN [s EXCEPT !.held = <<x>>]
                                  ELSE [s EXCEPT !.out = Append(@, x)]
            ELSE IF x = "*/" THEN [s EXCEPT !.held = <<>>]
            ELSE [s EXCEPT !.held = Append(@, x)]
        end == FoldLeft(step, [out |-> <<>>, held |-> <<>>], text)
    IN  end.out \o end.held

StripLines(text) ==
    LET step(s, x) == IF x = "\n" THEN [out |-> Append(s.out, x), inside |-> FALSE]
                      ELSE IF s.inside \/ x = "--" THEN [s EXCEPT !.inside = TRUE]
                      ELSE [s EXCEPT !.out = Append(@, x)]
    IN  FoldLeft(step, [out |-> <<>>, inside |-> FALSE], text).out

\* Quotes are not honoured: what a literal holds counts like the rest.
StripComments(text) == StripLines(StripBlocks(text))

\* The words, each with the depth of parentheses it stands at.
TopLevelTokens(text) ==
    LET step(s, x) == CASE x = "("       -> [s EXCEPT !.depth = @ + 1]
                        [] x = ")"       -> [s EXCEPT !.depth = IF @ > 0 THEN @ - 1 ELSE 0]
                        [] x \in Marks \ {"(", ")"} -> s
                        [] OTHER         -> [s EXCEPT !.words = Append(@, [word |-> x, depth |-> s.depth])]
    IN  FoldLeft(step, [words |-> <<>>, depth |-> 0], text).words

FirstBodyKeyword(tokens) ==
    LET bodies == SelectSeq(Tail(tokens), LAMBDA t : t.depth = 0 /\ t.word \in BodyKeywords)
    IN  IF bodies = <<>> THEN "none" ELSE bodies[1].word

\* Mutant of IsReadOnlyStatement: the first body keyword at any depth.
IsReadOnlyStatement_AnyDepth(text) ==
    LET tokens == TopLevelTokens(StripComments(text))
        bodies == SelectSeq(tokens, LAMBDA t : t.word \in BodyKeywords)
    IN  bodies # <<>> /\ bodies[1].word \in ReadKeywords

IsReadOnlyStatement(text) ==
    LET tokens == TopLevelTokens(StripComments(text))
    IN  /\ tokens # <<>>
        /\ \/ tokens[1].word \in ReadKeywords
           \/ tokens[1].word = "WITH" /\ FirstBodyKeyword(tokens) \in ReadKeywords

\* ---------------------------------------------------- where the error is
OptionLength == [ANALYZE |-> 7, VERBOSE |-> 7, FORMAT |-> 11]

ExplainOptions(call) ==
    (IF call.analyze THEN <<"ANALYZE">> ELSE <<>>)
    \o (IF call.verbose THEN <<"VERBOSE">> ELSE <<>>) \o <<"FORMAT">>

\* "EXPLAIN (", the options, two characters between them, ") ".
PrefixLength(call) ==
    IF call.op = "run" THEN 0
    ELSE LET options == ExplainOptions(call)
         IN  9 + FoldLeft(LAMBDA n, o : n + OptionLength[o] + 2, 0, options)

NoPosition == 0

\* raw counts the characters of what Postgres was sent, from 1.
ClientSqlPosition(raw, prefixLength) ==
    IF raw = NoPosition \/ raw - prefixLength < 1 THEN NoPosition ELSE raw - prefixLength

Units(text) == Len(text) + Len(SelectSeq(text, LAMBDA x : x = "wide"))

LeadingBlanks(text) ==
    LET solid == {i \in DOMAIN text : text[i] # "\n"}
    IN  IF solid = {} THEN Len(text) ELSE (CHOOSE i \in solid : \A j \in solid : i <= j) - 1

Trim(text) == SubSeq(text, LeadingBlanks(text) + 1, Len(text))

\* The unit where the character is; blanks are one unit each, so sentStart is
\* the same in both counts.  A position past the end is the end.
LocateSqlError(text, sentStart, position) ==
    LET characters == sentStart + position - 1
    IN  Units(SubSeq(text, 1, IF characters < Len(text) THEN characters ELSE Len(text)))

\* ---------------------------------------------------- columns of a result
\* A name is <<base>>, or <<base, n>> for base_n; <<>> is no name (?column?).
UniqueName(used, base) ==
    IF base \notin used THEN base
    ELSE Append(base, CHOOSE n \in 2..(Cardinality(used) + 2) :
                          /\ Append(base, n) \notin used
                          /\ \A m \in 2..(n - 1) : Append(base, m) \in used)

QueryColumns(names) ==
    FoldLeft(LAMBDA done, raw : Append(done, UniqueName(ToSet(done), IF raw = <<>> THEN <<"column">> ELSE raw)),
             <<>>, names)

\* A row, by position, against the names it travels under.
RowToWire(columns, record) ==
    [c \in ToSet(columns) |-> record[CHOOSE i \in DOMAIN columns : columns[i] = c]]
=============================================================================
