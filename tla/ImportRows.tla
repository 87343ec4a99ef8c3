----------------------------- MODULE ImportRows -----------------------------
(***************************************************************************)
(* Importing a file into the table of a data tab: the modal dialog         *)
(* (ImportRowsDialog.ts), the parser (parseImport.ts), the server's        *)
(* preview and its one transaction (import_rows.py), over TableRows.       *)
(* Files may be picked while the preview of another is under way and while *)
(* rows are being imported; the dialog may be left at any time.            *)
(***************************************************************************)
EXTENDS TableRows

CONSTANTS
    MaxRows,            \* MAX_ROWS_PER_REQUEST
    KeyText             \* KeyText[k]: the digits of a key

\* A sequence of functions from columns to cells.
AreRows(rows) ==
    /\ rows \in Seq({rows[i] : i \in DOMAIN rows})
    /\ \A i \in DOMAIN rows : \A c \in DOMAIN rows[i] : rows[i][c] \in Cells

\* files: those not exported here; picks, failures: bounds on the files a user picks and on the requests that are lost
ASSUME ImportAssumption ==
    /\ MaxRows \in Nat
    /\ KeyText \in [1..MaxKey -> Texts]
    /\ \A w \in Worlds : w.picks \in Nat /\ w.failures \in Nat
    /\ \A w \in Worlds : \A file \in w.files :
          /\ file.ext = ".csv" => file.text \in Texts
          /\ file.ext = ".json" => AreRows(file.doc.items)

VARIABLES
    open,               \* whether the dialog is
    exported,           \* the files written from this table, and the rows they hold
    reading,            \* the files picked and being read
    previews,           \* the rows of the files whose preview is under way
    parsedRows, previewedRows,
    banner,             \* whether the dialog shows an error
    importing,          \* the rows being imported, and (observed) what was previewed then
    picks, failures

importVars == <<open, exported, reading, previews, parsedRows, previewedRows, banner, importing, picks, failures>>
vars == <<rowVars, importVars>>

NoImport == [rows |-> <<>>, shown |-> <<>>]

-----------------------------------------------------------------------------
(* Files: a csv is a text, a json document is read by the browser.         *)

Csv(text) == [ext |-> ".csv", text |-> text]

\* The rows of an export: all columns.
ExportedRows(t) ==
    LET keys == KeysInOrder(t)
    IN  [i \in DOMAIN keys |-> [c \in DataColumns \cup {"id"} |-> IF c = "id" THEN KeyText[keys[i]] ELSE t[keys[i]][c]]]

\* parseJson: an array of objects
ParseJson(doc) ==
    IF doc.array /\ doc.objects THEN [ok |-> TRUE, rows |-> doc.items] ELSE Unreadable

ParseImportFile(file) ==
    CASE file.ext = ".csv" -> ParseCsv(file.text)
      [] file.ext = ".json" -> ParseJson(file.doc)
      [] OTHER -> Unreadable

-----------------------------------------------------------------------------
(* The server.                                                             *)

TooManyOrUnknown(rows) ==
    Len(rows) > MaxRows \/ \E i \in DOMAIN rows : ~ (DOMAIN rows[i] \subseteq DataColumns \cup {"id"})

\* _coerce_row: what names a generated column is dropped
CoerceRow(row) == [c \in DOMAIN row \cap DataColumns |-> row[c]]

\* _validate_row: the required column must be there and not NULL
ValidateRow(row) ==
    LET values == CoerceRow(row)
    IN  IF "name" \notin DOMAIN values \/ values["name"] = NULL THEN [ok |-> FALSE, values |-> <<>>]
        ELSE [ok |-> TRUE, values |-> values]

PreviewImportRows(rows) == [i \in DOMAIN rows |-> ValidateRow(rows[i])]

\* Row by row, until one is refused.
InsertNext(before, row) ==
    IF before.ok THEN Insert(before.table, before.serial, CoerceRow(row)) ELSE before

InsertAll(rows) ==
    LET upto[i \in 0..Len(rows)] == IF i = 0 THEN Done(table, serial) ELSE InsertNext(upto[i - 1], rows[i])
    IN  upto[Len(rows)]

\* Mutant: each row is inserted in a transaction of its own.
ImportRowsCommand_EachRow(rows) == InsertAll(rows)

\* All rows in one transaction: a refused one takes the others back, except for the keys used up.
ImportRowsCommand(rows) ==
    LET all == InsertAll(rows) IN IF all.ok THEN all ELSE Refused(table, all.serial)

-----------------------------------------------------------------------------
(* The dialog.                                                             *)

Fails == failures < world.failures /\ failures' = failures + 1

ResetPreview == parsedRows' = <<>> /\ previewedRows' = <<>>

\* The toolbar's Export: the server writes the table as it is.
Export ==
    /\ Idle /\ ~open
    /\ "export" \in world.offers
    /\ exported = {}
    /\ exported' = {[file |-> Csv(ToCSV(Columns, ExportedRows(table))), rows |-> ExportedRows(table)]}
    /\ UNCHANGED <<rowVars, open, reading, previews, parsedRows, previewedRows, banner, importing, picks, failures>>

\* Not while rows of an earlier dialog are being imported.
OpenDialog ==
    /\ Idle /\ ~open /\ importing = NoImport /\ picks < world.picks
    /\ "insert" \in world.privileges
    /\ open' = TRUE
    /\ banner' = FALSE
    /\ reading' = {} /\ previews' = {}
    /\ ResetPreview
    /\ UNCHANGED <<rowVars, exported, importing, picks, failures>>

\* handleFile, until it awaits the file's text
HandleFile(file) ==
    /\ open /\ picks < world.picks
    /\ picks' = picks + 1
    /\ banner' = FALSE
    /\ reading' = reading \cup {file}
    /\ UNCHANGED <<rowVars, open, exported, previews, parsedRows, previewedRows, importing, failures>>

\* Mutant: the rows are kept before their preview is back.
ReadFile_KeepsAtOnce(file) ==
    LET parsed == ParseImportFile(file)
    IN  /\ file \in reading
        /\ reading' = reading \ {file}
        /\ IF parsed.ok
           THEN /\ previews' = previews \cup {parsed.rows}
                /\ parsedRows' = parsed.rows
                /\ UNCHANGED <<banner, previewedRows>>
           ELSE banner' = TRUE /\ ResetPreview /\ UNCHANGED previews
        /\ UNCHANGED <<rowVars, open, exported, importing, picks, failures>>

\* handleFile, until it awaits the preview; files are read in any order
ReadFile(file) ==
    LET parsed == ParseImportFile(file)
    IN  /\ file \in reading
        /\ reading' = reading \ {file}
        /\ IF parsed.ok
           THEN previews' = previews \cup {parsed.rows} /\ UNCHANGED <<banner, parsedRows, previewedRows>>
           ELSE banner' = TRUE /\ ResetPreview /\ UNCHANGED previews
        /\ UNCHANGED <<rowVars, open, exported, importing, picks, failures>>

\* handleFile, after the preview; previews land in any order
PreviewLands(rows) ==
    /\ rows \in previews
    /\ previews' = previews \ {rows}
    /\ \/ /\ ~TooManyOrUnknown(rows)
          /\ parsedRows' = rows
          /\ previewedRows' = PreviewImportRows(rows)
          /\ UNCHANGED <<banner, failures>>
       \/ /\ TooManyOrUnknown(rows)
          /\ banner' = TRUE /\ ResetPreview
          /\ UNCHANGED failures
       \/ /\ Fails
          /\ banner' = TRUE /\ ResetPreview
    /\ UNCHANGED <<rowVars, open, exported, reading, importing, picks>>

CanImport == previewedRows # <<>> /\ \A i \in DOMAIN previewedRows : previewedRows[i].ok

\* The button takes one click at a time.
TryImport ==
    /\ open /\ importing = NoImport
    /\ IF CanImport
       THEN /\ importing' = [rows |-> parsedRows, shown |-> previewedRows]
            /\ UNCHANGED banner
       ELSE /\ ~banner
            /\ banner' = TRUE
            /\ UNCHANGED importing
    /\ UNCHANGED <<rowVars, open, exported, reading, previews, parsedRows, previewedRows, picks, failures>>

\* The rows are in, or none is.  Then the dialog closes and the tab, even if the dialog was left,
\* discards what is pending and loads.  Not while a Save is out.
ImportAnswered ==
    LET result == ImportRowsCommand(importing.rows)
    IN  /\ importing # NoImport
        /\ serial + Len(importing.rows) <= MaxKey
        /\ sending = {}
        /\ importing' = NoImport
        /\ table' = result.table
        /\ serial' = result.serial
        /\ IF result.ok
           THEN /\ Discard
                /\ open' = FALSE
                /\ UNCHANGED banner
           ELSE /\ UNCHANGED <<store, loads, selected, view, condemned, typed, open>>
                /\ banner' = open
        /\ UNCHANGED <<world, focus, asked, sending, moves, writes, exported, reading, previews, parsedRows, previewedRows,
                       picks, failures>>

\* The request is lost before it reaches the server.
ImportLost ==
    /\ importing # NoImport
    /\ Fails
    /\ importing' = NoImport
    /\ banner' = open
    /\ UNCHANGED <<rowVars, open, exported, reading, previews, parsedRows, previewedRows, picks>>

CloseDialog ==
    /\ open
    /\ open' = FALSE
    /\ UNCHANGED <<rowVars, exported, reading, previews, parsedRows, previewedRows, banner, importing, picks, failures>>

-----------------------------------------------------------------------------
Init ==
    /\ RowsInit
    /\ open = FALSE /\ exported = {} /\ reading = {} /\ previews = {} /\ parsedRows = <<>> /\ previewedRows = <<>>
    /\ banner = FALSE /\ importing = NoImport /\ picks = 0 /\ failures = 0

GridStep == ~open /\ UserStep /\ UNCHANGED importVars
ServerStep == RowsStep /\ UNCHANGED importVars
PickFile == \E file \in world.files \cup {e.file : e \in exported} : HandleFile(file)
ReadingStep == \E file \in reading : ReadFile(file)
PreviewStep == \E rows \in previews : PreviewLands(rows)

Next ==
    \/ GridStep
    \/ ServerStep
    \/ Export
    \/ OpenDialog
    \/ PickFile
    \/ ReadingStep
    \/ PreviewStep
    \/ TryImport
    \/ ImportAnswered
    \/ ImportLost
    \/ CloseDialog

Fairness == WF_vars(ReadingStep) /\ WF_vars(PreviewStep)

Spec == Init /\ [][Next]_vars /\ Fairness

-----------------------------------------------------------------------------
Ours == writes' = writes

\* What the application writes was meant. A row it deletes was confirmed for deletion, and not
\* given up by a Refresh or an import since (TableWorkPanel: reject() precedes load()); a cell it
\* rewrites was typed into since its row was loaded, whatever other sessions wrote there meanwhile
\* (SqlAdminWriter's dirty mode).
WritesWhatIsMeant ==
    [][Ours => /\ DOMAIN table \ DOMAIN table' \subseteq condemned
               /\ \A k \in DOMAIN table \cap DOMAIN table' : \A c \in DataColumns :
                      table'[k][c] # table[k][c] => <<k, c>> \in typed]_vars

\* An import adds either nothing or exactly the rows that were previewed when Import was pressed,
\* each with the values the preview showed.
ImportsWhatIsShown ==
    [][importing # NoImport /\ importing' = NoImport =>
          \/ table' = table
          \/ LET shown == importing.shown
                 Values(i) == [c \in DataColumns |-> IF c \in DOMAIN shown[i].values THEN shown[i].values[c] ELSE NULL]
             IN  /\ \A i \in DOMAIN shown : shown[i].ok
                 /\ DOMAIN table' \ DOMAIN table = {serial + i : i \in DOMAIN shown}
                 /\ \A i \in DOMAIN shown : table'[serial + i] = Values(i)
                 /\ \A k \in DOMAIN table : table'[k] = table[k]]_vars

\* The parser reads an exported file as the rows that were exported: a NULL as NULL, an empty text
\* as one, whatever separators and quotes the cells hold.
ExportReadsBack ==
    \A e \in exported : ParseImportFile(e.file) = [ok |-> TRUE, rows |-> e.rows]

=============================================================================
