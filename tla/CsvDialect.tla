----------------------------- MODULE CsvDialect -----------------------------
(***************************************************************************)
(* The CSV the application writes (serialize.ts) and reads back            *)
(* (parseImport.ts).  A text is a sequence of characters, and a column's   *)
(* name is one character of it; a cell is a text or SQL's NULL, which is   *)
(* written as a bare empty field while the empty text is written quoted.   *)
(***************************************************************************)
EXTENDS Naturals, Sequences, SequencesExt

\* No text: no character is called so.
NULL == <<"NULL">>

Comma == ","
Quote == "q"
CR == "r"
LF == "n"

-----------------------------------------------------------------------------
(* Writing.                                                                *)

HasSpecial(cell) == \E i \in DOMAIN cell : cell[i] \in {Comma, Quote, CR, LF}

DoubledQuotes(cell) ==
    FlattenSeq([i \in DOMAIN cell |-> IF cell[i] = Quote THEN <<Quote, Quote>> ELSE <<cell[i]>>])

\* Mutant: only what needs quotes gets them.
EscapeField_EmptyBare(cell) ==
    IF cell = NULL THEN <<>>
    ELSE IF HasSpecial(cell) THEN <<Quote>> \o DoubledQuotes(cell) \o <<Quote>>
    ELSE cell

EscapeField(cell) ==
    IF cell = NULL THEN <<>>
    ELSE IF cell = <<>> \/ HasSpecial(cell) THEN <<Quote>> \o DoubledQuotes(cell) \o <<Quote>>
    ELSE cell

\* csvRecord, with the line's end
CsvRecord(cells) ==
    FlattenSeq([i \in DOMAIN cells |-> (IF i = 1 THEN <<>> ELSE <<Comma>>) \o EscapeField(cells[i])]) \o <<CR, LF>>

CellsOf(columns, row) ==
    [i \in DOMAIN columns |-> IF columns[i] \in DOMAIN row THEN row[columns[i]] ELSE NULL]

\* rows: functions from the columns to cells, a cell left out is NULL
ToCSV(columns, rows) ==
    CsvRecord([i \in DOMAIN columns |-> <<columns[i]>>])
        \o FlattenSeq([r \in DOMAIN rows |-> CsvRecord(CellsOf(columns, rows[r]))])

-----------------------------------------------------------------------------
(* Reading: the state of the tokenizer between two characters.             *)

NothingRead ==
    [records |-> <<>>, record |-> <<>>, field |-> <<>>, quoted |-> FALSE, inQuotes |-> FALSE, skip |-> FALSE]

EndField(s) ==
    [s EXCEPT !.record = Append(@, [text |-> s.field, quoted |-> s.quoted]), !.field = <<>>, !.quoted = FALSE]

EndRecord(s) ==
    LET ended == EndField(s)
    IN  [ended EXCEPT !.records = Append(@, ended.record), !.record = <<>>]

Following(text, i) == IF i < Len(text) THEN text[i + 1] ELSE "end"

Take(text, s, i) == [s EXCEPT !.field = Append(@, text[i])]

\* One turn of the loop; skip stands for the extra i++ after a doubled quote and after CR LF.
ReadChar(text, s, i) ==
    IF s.skip THEN [s EXCEPT !.skip = FALSE]
    ELSE IF s.inQuotes THEN
        IF text[i] # Quote THEN Take(text, s, i)
        ELSE IF Following(text, i) = Quote THEN [Take(text, s, i) EXCEPT !.skip = TRUE]
        ELSE [s EXCEPT !.inQuotes = FALSE]
    ELSE IF text[i] = Quote /\ s.field = <<>> THEN [s EXCEPT !.quoted = TRUE, !.inQuotes = TRUE]
    ELSE IF text[i] = Comma THEN EndField(s)
    ELSE IF text[i] = CR /\ Following(text, i) = LF THEN [EndRecord(s) EXCEPT !.skip = TRUE]
    ELSE IF text[i] = LF THEN EndRecord(s)
    ELSE Take(text, s, i)

ReadAll(text) ==
    LET read[i \in 0..Len(text)] == IF i = 0 THEN NothingRead ELSE ReadChar(text, read[i - 1], i)
    IN  read[Len(text)]

\* A last record need not end with a line break.
TokenizeCsv(text) ==
    LET read == ReadAll(text)
    IN  IF read.field # <<>> \/ read.record # <<>> \/ read.quoted THEN EndRecord(read).records ELSE read.records

FieldValue(field) == IF ~field.quoted /\ field.text = <<>> THEN NULL ELSE field.text

Unreadable == [ok |-> FALSE, rows |-> <<>>]

\* The column a header's field names.
ColumnNamed(name) == CHOOSE c \in {name[i] : i \in DOMAIN name} : TRUE

RowOf(header, record) ==
    [c \in {ColumnNamed(header[i].text) : i \in DOMAIN header} |->
        FieldValue(record[CHOOSE i \in DOMAIN header : ColumnNamed(header[i].text) = c])]

\* A record that is longer or shorter than the header makes the file unreadable.
ParseCsv(text) ==
    LET records == TokenizeCsv(text)
    IN  IF records = <<>> THEN [ok |-> TRUE, rows |-> <<>>]
        ELSE IF \E i \in DOMAIN records : Len(records[i]) # Len(records[1]) THEN Unreadable
        ELSE [ok |-> TRUE, rows |-> [i \in 1..(Len(records) - 1) |-> RowOf(records[1], records[i + 1])]]
=============================================================================
