--------------------------- MODULE StatementCalls ---------------------------
(***************************************************************************)
(* One call of the query panel at a time, from the editor to the answer:   *)
(* run, Explain, Explain Analyze (dock/QueryPanel.ts), the plan fetched    *)
(* again for the diagram or for a file (dock/exportExplainResult.ts), and  *)
(* the two commands of the server (backend operations/run_query.py,        *)
(* operations/explain_query.py) with the transaction they work in.  Calls  *)
(* that overtake each other are the matter of QueryPanel.                  *)
(*                                                                         *)
(* A statement is [text, columns, records, writes, draws, fails, at]: its  *)
(* text without leading blanks, the columns and rows it returns, what it   *)
(* writes, whether it draws from a sequence (which no rollback undoes),    *)
(* when it fails and at which character of its text Postgres says so.      *)
(***************************************************************************)
EXTENDS QueryStatements

CONSTANTS
    Statements,         \* what may be written in the editor
    MaxBlanks,          \* bound: leading blank lines
    Drafts,             \* bound: what the text may be changed to, once
    MaxRowsPerRequest   \* the cap on the rows of a result

ASSUME CapAssumption == MaxRowsPerRequest \in Nat \ {0}

VARIABLES
    editor,     \* [blanks, statement]: the editor's text
    edited,     \* was it changed
    call,       \* the call under way
    work,       \* what the open transaction has written
    kept,       \* what the call has committed
    drawn,      \* has the call drawn from a sequence
    answer,     \* what the last call came back with
    shown       \* the plan on screen: [statement, analyze]

statement_vars == <<editor, edited, call, work, kept, drawn, answer, shown>>

NoCall == [op |-> "none"]
NoAnswer == [kind |-> "none"]
NoPlanShown == [statement |-> <<>>, analyze |-> FALSE]

TextOf(e) == [i \in 1..e.blanks |-> "\n"] \o e.statement.text

InitStatements ==
    /\ editor \in [blanks : 0..MaxBlanks, statement : Statements]
    /\ edited = FALSE /\ call = NoCall /\ work = {} /\ kept = {} /\ drawn = FALSE
    /\ answer = NoAnswer /\ shown = NoPlanShown

\* ------------------------------------------------------------- the panel
\* text is the editor's; the SQL of the call is the statement.
Send(op, statement, analyze, format, text) ==
    /\ call' = [op |-> op, statement |-> statement, analyze |-> analyze, format |-> format,
                verbose |-> (op = "diagram"), text |-> text, stage |-> "sent"]
    /\ answer' = NoAnswer /\ kept' = {} /\ drawn' = FALSE
    /\ UNCHANGED <<editor, edited, work, shown>>

Editing == Trim(TextOf(editor)) # <<>>

Run == call = NoCall /\ Editing /\ Send("run", editor.statement, FALSE, "none", TextOf(editor))

RunExplain(analyze) ==
    /\ call = NoCall /\ Editing
    /\ analyze => IsReadOnlyStatement(Trim(TextOf(editor)))
    /\ Send("explain", editor.statement, analyze, "text", TextOf(editor))

\* The statement shown, whatever the editor holds by now; no second guard.
ShowDiagram ==
    /\ call = NoCall /\ shown # NoPlanShown
    /\ Send("diagram", shown.statement, shown.analyze, "json", <<>>)

ExportPlanAsJson ==
    /\ call = NoCall /\ shown # NoPlanShown
    /\ Send("export", shown.statement, shown.analyze, "json", <<>>)

Edit ==
    /\ ~edited /\ edited' = TRUE
    /\ editor' \in Drafts \ {editor}
    /\ UNCHANGED <<call, work, kept, drawn, answer, shown>>

\* ------------------------------------------------------------ the server
\* Plain EXPLAIN plans only.
Executes(c) == c.op = "run" \/ c.analyze

Fails(c) == c.statement.fails = "parsed" \/ (c.statement.fails = "executed" /\ Executes(c))

\* What fails in execution may have drawn from its sequence by then.
ServerExecutes ==
    /\ call # NoCall /\ call.stage = "sent"
    /\ call' = [call EXCEPT !.stage = IF Fails(call) THEN "failed" ELSE "executed"]
    /\ work' = IF Fails(call) \/ ~Executes(call) THEN {} ELSE call.statement.writes
    /\ drawn' \in IF ~Executes(call) \/ call.statement.fails = "parsed" THEN {FALSE}
                  ELSE IF Fails(call) THEN {FALSE, call.statement.draws} ELSE {call.statement.draws}
    /\ UNCHANGED <<editor, edited, kept, answer, shown>>

\* Mutant of Commits: ANALYZE without the sentinel.
Commits_Explained(c) == c.stage = "executed"

\* A run's transaction commits; ANALYZE's is left by raising _ExplainDone.
Commits(c) == c.op = "run" /\ c.stage = "executed"

\* The cursor reads one row more than the cap.
Fetched(s) == SubSeq(s.records, 1, IF Len(s.records) > MaxRowsPerRequest THEN MaxRowsPerRequest + 1
                                   ELSE Len(s.records))

ResultOf(s) ==
    IF s.columns = <<>> THEN [kind |-> "status"]
    ELSE LET columns == QueryColumns(s.columns)
             most    == IF Len(Fetched(s)) > MaxRowsPerRequest THEN MaxRowsPerRequest ELSE Len(Fetched(s))
         IN  [kind |-> "rows", columns |-> columns, truncated |-> Len(Fetched(s)) > MaxRowsPerRequest,
              rows |-> [i \in 1..most |-> RowToWire(columns, Fetched(s)[i])]]

ReportedPosition(c) ==
    LET raw == IF c.statement.at = NoPosition THEN NoPosition ELSE PrefixLength(c) + c.statement.at
    IN  ClientSqlPosition(raw, PrefixLength(c))

\* A location is revealed only while the editor holds the text that was sent;
\* the diagram and the export only report.
FailureOf(c) ==
    [kind |-> "error",
     revealed |-> IF /\ c.op \in {"run", "explain"} /\ c.text = TextOf(editor)
                     /\ ReportedPosition(c) # NoPosition
                  THEN <<LocateSqlError(c.text, LeadingBlanks(c.text), ReportedPosition(c))>>
                  ELSE <<>>]

AnswerOf(c) ==
    IF c.stage = "failed" THEN FailureOf(c)
    ELSE IF c.op = "run" THEN ResultOf(c.statement)
    ELSE [kind |-> c.op, analyze |-> c.analyze]

\* The transaction ends, the result is shaped, and the panel takes it.
CallEnds ==
    /\ call # NoCall /\ call.stage \in {"executed", "failed"}
    /\ kept' = IF Commits(call) THEN work ELSE kept
    /\ work' = {}
    /\ answer' = AnswerOf(call)
    /\ shown' = IF answer'.kind = "explain" THEN [statement |-> call.statement, analyze |-> call.analyze]
                ELSE shown
    /\ call' = NoCall
    /\ UNCHANGED <<editor, edited, drawn>>

StatementsNext ==
    \/ Run \/ \E analyze \in BOOLEAN : RunExplain(analyze)
    \/ ShowDiagram \/ ExportPlanAsJson
    \/ Edit \/ ServerExecutes

\* ------------------------------------------------------------- properties
\* How Postgres reads a text: quotes hold anything, block comments nest.  odd:
\* a literal or a comment holds a mark.
InCode(s, x) ==
    CASE x = "'"  -> [s EXCEPT !.mode = "literal"]
      [] x = "--" -> [s EXCEPT !.mode = "line"]
      [] x = "/*" -> [s EXCEPT !.mode = "block"]
      [] x = "("  -> [s EXCEPT !.depth = @ + 1]
      [] x = ")"  -> [s EXCEPT !.depth = @ - 1]
      [] x \notin Marks -> [s EXCEPT !.words = IF s.depth = 0 THEN Append(@, x) ELSE @]
      [] x \in {"\n", "wide", "*/"} -> s

InBlock(s, x) ==
    IF x = "/*" THEN [s EXCEPT !.nested = @ + 1, !.odd = TRUE]
    ELSE IF x # "*/" THEN s
    ELSE IF s.nested > 0 THEN [s EXCEPT !.nested = @ - 1] ELSE [s EXCEPT !.mode = "code"]

Lexed(text) ==
    LET until(s, end, marks, x) == IF x = end THEN [s EXCEPT !.mode = "code"]
                                   ELSE [s EXCEPT !.odd = @ \/ x \in marks]
        step(s, x) == CASE s.mode = "code"    -> InCode(s, x)
                        [] s.mode = "block"   -> InBlock(s, x)
                        [] s.mode = "line"    -> until(s, "\n", {"/*", "*/"}, x)
                        [] s.mode = "literal" -> until(s, "'", {"(", ")", "--", "/*", "*/"}, x)
    IN  FoldLeft(step, [mode |-> "code", depth |-> 0, nested |-> 0, odd |-> FALSE, words |-> <<>>], text)

\* The statement itself writes, not a function or a CTE it calls; and no
\* literal or comment holds a mark the guard would take for its own.
PlainlyWrites(s) ==
    LET lexed == Lexed(s.text)
        main  == SelectSeq(lexed.words, LAMBDA w : w \in BodyKeywords)
    IN  ~lexed.odd /\ main # <<>> /\ main[1] \in {"INSERT", "UPDATE", "DELETE", "MERGE"}

\* The result as it was, up to the cap, and said to be cut when it was.
TellsResult(a, s) ==
    /\ Cardinality(ToSet(a.columns)) = Len(s.columns)
    /\ a.truncated <=> Len(s.records) > Len(a.rows)
    /\ a.truncated => Len(a.rows) = MaxRowsPerRequest
    /\ \A i \in DOMAIN a.rows, k \in DOMAIN s.columns : a.rows[i][a.columns[k]] = s.records[i][k]

(***************************************************************************)
(* What a call is answered with tells all that it did (run_query.py,       *)
(* explain_query.py, QueryPanel.ts).  A result or a status: all of the     *)
(* statement was written, once; the rows are the first ones, whole, and    *)
(* said to be cut when they were.  A plan, of whichever kind, or an error: *)
(* nothing was written; and a statement that plainly writes was not even   *)
(* executed for a plan.  A place revealed for an error is the one Postgres *)
(* meant, in the text the editor now holds.                                *)
(***************************************************************************)
AnswersTellAll ==
    [][answer = NoAnswer /\ answer' # NoAnswer =>
          LET s == call.statement  runs == answer'.kind \in {"rows", "status"}
          IN  /\ kept' = IF runs THEN s.writes ELSE {}
              /\ answer'.kind = "rows" => TellsResult(answer', s)
              /\ call.op # "run" /\ drawn' => ~PlainlyWrites(s)
              /\ answer'.kind = "error" /\ answer'.revealed # <<>> =>
                     LET before == SubSeq(TextOf(editor), 1, editor.blanks + s.at - 1)
                     IN  answer'.revealed[1] = Units(before) /\ editor.statement = s]_statement_vars
=============================================================================
