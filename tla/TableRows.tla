----------------------------- MODULE TableRows ------------------------------
(***************************************************************************)
(* The data tab of one table: the grid's records and what is pending in    *)
(* them (TableWorkPanel.ts over an AjaxStore), the record view and the     *)
(* quick search (recordViewControls.ts), what Save sends                   *)
(* (SqlAdminWriter.ts) and what the server makes of it, while other        *)
(* sessions write to the table too.                                        *)
(*                                                                         *)
(* The table has a generated key, a name that is NOT NULL, has no default  *)
(* and is unique, and a note that may be NULL.  The store is the           *)
(* library's: load() replaces the records and leaves what is to be removed *)
(* queued, reject() forgets everything pending, sync() sends one request   *)
(* per pending record.  While the requests of a Save are out the user      *)
(* leaves the grid alone.                                                  *)
(***************************************************************************)
EXTENDS CsvDialect, RecordSteps

CONSTANTS
    Worlds,             \* tables, with what happens to them
    MaxKey,
    Chars               \* the characters of texts

Texts == Seq(Chars)
Cells == Texts \cup {NULL}
NoKey == 0              \* also: the record is not saved yet
Columns == <<"id", "name", "note">>
DataColumns == {"name", "note"}

\* table: the rows at first, by key; privileges; route: the key to focus, or NoKey; rotated: the
\* route's view; offers: what the user may do; names, notes, needles: what they type and search for;
\* moves, writes: bounds on what they and other sessions do
ASSUME RowsAssumption ==
    /\ MaxKey \in Nat \ {0}
    /\ {Comma, Quote, CR, LF} \cup {Columns[i] : i \in DOMAIN Columns} \subseteq Chars
    /\ \A w \in Worlds :
          /\ DOMAIN w.table \subseteq 1..MaxKey
          /\ w.table \in [DOMAIN w.table -> [DataColumns -> Cells]]
          /\ w.names \subseteq Cells /\ w.notes \subseteq Cells
          /\ w.privileges \subseteq {"insert", "update", "delete"}
          /\ w.rotated \in BOOLEAN
          /\ w.moves \in Nat /\ w.writes \in Nat

VARIABLES
    world,
    table,              \* the rows, by key
    serial,             \* the last key given out
    records,            \* of the store: loaded as base, showing now
    removed,            \* the keys of the records that are to be deleted
    loads,              \* how many load() are under way
    focus,              \* the key the first load selects
    selected,           \* the selected records, by key
    asked,              \* the records a "Delete rows" dialog is about
    view,               \* [rotated, query, prev, next]: the record view and its buttons
    sending,            \* the requests of a Save
    condemned,          \* (observed) the keys confirmed for deletion since the last Refresh
    typed,              \* (observed) the cells typed into since their record was loaded, or being saved
    moves, writes

store == <<records, removed>>
grid == <<selected, asked, view, focus>>
rowVars == <<world, table, serial, records, removed, loads, focus, selected, asked, view, sending,
             condemned, typed, moves, writes>>

-----------------------------------------------------------------------------
(* The server.  A row maps the data columns to cells.                      *)

Done(t, s) == [ok |-> TRUE, table |-> t, serial |-> s]
Refused(t, s) == [ok |-> FALSE, table |-> t, serial |-> s]

\* NOT NULL and UNIQUE
Accepts(t, key, row) ==
    row["name"] # NULL /\ \A k \in DOMAIN t \ {key} : t[k]["name"] # row["name"]

\* InsertRowCommand: a column left out is NULL; a refused row has used up its key.
Insert(t, s, data) ==
    LET row == [c \in DataColumns |-> IF c \in DOMAIN data THEN data[c] ELSE NULL]
    IN  IF Accepts(t, s + 1, row) THEN Done([k \in DOMAIN t \cup {s + 1} |-> IF k = s + 1 THEN row ELSE t[k]], s + 1)
        ELSE Refused(t, s + 1)

\* UpdateRowCommand: only the columns that were sent
Update(t, s, key, data) ==
    IF key \notin DOMAIN t THEN Refused(t, s)
    ELSE LET row == [c \in DataColumns |-> IF c \in DOMAIN data THEN data[c] ELSE t[key][c]]
         IN  IF Accepts(t, key, row) THEN Done([t EXCEPT ![key] = row], s) ELSE Refused(t, s)

\* DeleteRowCommand
Delete(t, s, key) ==
    IF key \in DOMAIN t THEN Done([k \in DOMAIN t \ {key} |-> t[k]], s) ELSE Refused(t, s)

KeysInOrder(t) == [n \in 1..Cardinality(DOMAIN t) |-> Nth(DOMAIN t, n)]

\* Another session changes a cell, or deletes a row.
OtherSession ==
    /\ writes < world.writes
    /\ writes' = writes + 1
    /\ \E k \in DOMAIN table :
          \/ \E c \in DataColumns : \E text \in (IF c = "name" THEN world.names ELSE world.notes) :
                /\ table[k][c] # text
                /\ Update(table, serial, k, [d \in {c} |-> text]).ok
                /\ table' = Update(table, serial, k, [d \in {c} |-> text]).table
          \/ table' = Delete(table, serial, k).table
    /\ UNCHANGED <<world, serial, store, loads, grid, sending, condemned, typed, moves>>

-----------------------------------------------------------------------------
(* The grid.                                                               *)

Loaded(t) == [i \in DOMAIN KeysInOrder(t) |->
                 LET k == KeysInOrder(t)[i] IN [key |-> k, base |-> t[k], now |-> t[k]]]

KeysOf(recs) == {recs[i].key : i \in DOMAIN recs}
Dirty(r) == r.key # NoKey /\ r.now # r.base
HasPendingChanges == removed # {} \/ \E i \in DOMAIN records : records[i].key = NoKey \/ Dirty(records[i])

\* The shown texts quick search looks through; NULL shows as nothing.
TextsOf(r) == {IF r.now[c] = NULL THEN <<>> ELSE r.now[c] : c \in DataColumns}
Matching(recs, query) == VisibleRecords(recs, {r \in ToSet(recs) : MatchesQuery(TextsOf(r), query)})

\* getSelectedRecord
Displayed(recs, sel) ==
    LET among == Picked(recs, {i \in DOMAIN recs : recs[i].key \in sel})
    IN  IF among = <<>> THEN <<>> ELSE <<among[1].key>>

\* The displayed record is taken from all records, and found among those that match.
StepTarget(recs, sel, query, delta) ==
    LET matching == Matching(recs, query)
        shown == Displayed(recs, sel)
        at == {i \in DOMAIN matching : <<matching[i].key>> = shown}
    IN  StepIndex(IF at = {} THEN Nowhere ELSE CHOOSE i \in at : TRUE, delta, Len(matching))

SyncStepEnabled(v, recs, sel) ==
    [v EXCEPT !.prev = v.rotated /\ StepTarget(recs, sel, v.query, -1) # Nowhere,
              !.next = v.rotated /\ StepTarget(recs, sel, v.query, 1) # Nowhere]

\* 'datachange' and 'selection' reach the steppers
Shows(recs, sel) ==
    /\ records' = recs
    /\ selected' = sel \cap KeysOf(recs)
    /\ view' = SyncStepEnabled(view, recs, sel \cap KeysOf(recs))

Idle == asked = {} /\ sending = {}

UserMoves == Idle /\ moves < world.moves /\ moves' = moves + 1

\* load() is answered.  The first one selects the record a route asked for.
LoadLands ==
    /\ loads > 0
    /\ loads' = loads - 1
    /\ typed' = {cell \in typed : \E req \in sending : req.key = cell[1]}
    /\ focus' = NoKey
    /\ Shows(Loaded(table), IF focus # NoKey /\ focus \in DOMAIN table THEN {focus} ELSE selected)
    /\ UNCHANGED <<world, table, serial, removed, asked, sending, condemned, moves, writes>>

RowsInit ==
    /\ world \in Worlds
    /\ table = world.table
    /\ serial \in DOMAIN table \cup {0}
    /\ \A k \in DOMAIN table : k <= serial
    /\ records = <<>> /\ removed = {} /\ sending = {}
    /\ loads = 1
    /\ focus = world.route
    /\ selected = {} /\ asked = {}
    /\ view = [rotated |-> world.rotated, query |-> <<>>, prev |-> FALSE, next |-> FALSE]
    /\ condemned = {} /\ typed = {}
    /\ moves = 0 /\ writes = 0

Select(sel) ==
    /\ UserMoves
    /\ sel # selected
    /\ Shows(records, sel)
    /\ UNCHANGED <<world, table, serial, removed, loads, focus, asked, sending, condemned, typed, writes>>

\* Only the grid can fill in a new row.  One at a time is unsaved.
AddRow ==
    /\ UserMoves
    /\ "insert" \in world.privileges /\ ~view.rotated
    /\ NoKey \notin KeysOf(records)
    /\ LET empty == [c \in DataColumns |-> NULL]
       IN  Shows(Append(records, [key |-> NoKey, base |-> empty, now |-> empty]), selected)
    /\ UNCHANGED <<world, table, serial, removed, loads, focus, asked, sending, condemned, typed, writes>>

\* buildColumnSpec: no cell of the generated key, and none without UPDATE
EditCell(i, c, text) ==
    /\ UserMoves
    /\ "update" \in world.privileges
    /\ records[i].now[c] # text
    /\ Shows([records EXCEPT ![i].now[c] = text], selected)
    /\ typed' = typed \cup {<<records[i].key, c>>}
    /\ UNCHANGED <<world, table, serial, removed, loads, focus, asked, sending, condemned, writes>>

SetRotated ==
    /\ UserMoves
    /\ view' = SyncStepEnabled([view EXCEPT !.rotated = ~@], records, selected)
    /\ UNCHANGED <<world, table, serial, store, loads, focus, selected, asked, sending, condemned, typed, writes>>

ApplyQuickSearch(needle) ==
    /\ UserMoves
    /\ needle # view.query
    /\ view' = SyncStepEnabled([view EXCEPT !.query = needle], records, selected)
    /\ UNCHANGED <<world, table, serial, store, loads, focus, selected, asked, sending, condemned, typed, writes>>

StepRecord(delta) ==
    /\ UserMoves
    /\ IF delta = 1 THEN view.next ELSE view.prev
    /\ LET target == StepTarget(records, selected, view.query, delta)
       IN  target # Nowhere /\ Shows(records, {Matching(records, view.query)[target].key})
    /\ UNCHANGED <<world, table, serial, removed, loads, focus, asked, sending, condemned, typed, writes>>

\* Delete is enabled for a selection that is still in the store.
AskDelete ==
    /\ UserMoves
    /\ "delete" \in world.privileges
    /\ selected \cap KeysOf(records) # {}
    /\ asked' = selected
    /\ UNCHANGED <<world, table, serial, store, loads, focus, selected, view, sending, condemned, typed, writes>>

\* The records that were selected when the dialog opened; an unsaved one just goes.
ConfirmDelete ==
    /\ asked # {}
    /\ asked' = {}
    /\ removed' = removed \cup (asked \ {NoKey})
    /\ condemned' = condemned \cup (asked \ {NoKey})
    /\ Shows(Picked(records, {i \in DOMAIN records : records[i].key \notin asked}), selected)
    /\ UNCHANGED <<world, table, serial, loads, focus, sending, typed, moves, writes>>

CancelDelete ==
    /\ asked # {}
    /\ asked' = {}
    /\ UNCHANGED <<world, table, serial, store, loads, focus, selected, view, sending, condemned, typed, moves, writes>>

\* Mutant: the records are loaded again, and what is to be removed stays queued.
Discard_LoadOnly ==
    /\ loads < 2 /\ loads' = loads + 1
    /\ UNCHANGED removed
    /\ condemned' = {} /\ typed' = {}
    /\ Shows(records, selected)

\* store.reject(), then store.load(): the toolbar's Refresh, Alt+R, and after an import.
\* What comes back of the removed records shows once the answer lands.
Discard ==
    /\ loads < 2 /\ loads' = loads + 1
    /\ removed' = {}
    /\ condemned' = {} /\ typed' = {}
    /\ LET saved == Picked(records, {i \in DOMAIN records : records[i].key # NoKey})
       IN  Shows([i \in DOMAIN saved |-> [saved[i] EXCEPT !.now = saved[i].base]], selected)

Refresh ==
    /\ UserMoves
    /\ Discard
    /\ UNCHANGED <<world, table, serial, focus, asked, sending, writes>>

-----------------------------------------------------------------------------
(* Save.                                                                   *)

\* missingRequiredFields: NULL or empty, in the new and the edited records
MissingRequiredFields ==
    \E i \in DOMAIN records : (records[i].key = NoKey \/ Dirty(records[i])) /\ records[i].now["name"] \in {NULL, <<>>}

\* Mutant: an update writes the whole record.
DataFor_Whole(r) == r.now

\* SqlAdminWriter.dataFor: an update writes what was changed, and no generated column
DataFor(r) == IF r.key = NoKey THEN r.now ELSE [c \in {d \in DataColumns : r.now[d] # r.base[d]} |-> r.now[c]]

Post(r) == [verb |-> "POST", key |-> NoKey, data |-> DataFor(r)]
Put(r) == [verb |-> "PUT", key |-> r.key, data |-> DataFor(r)]
DeleteRequest(k) == [verb |-> "DELETE", key |-> k, data |-> <<>>]

Save ==
    /\ UserMoves
    /\ world.privileges # {} /\ HasPendingChanges
    /\ ~MissingRequiredFields
    /\ sending' = {Post(records[i]) : i \in {j \in DOMAIN records : records[j].key = NoKey}}
                      \cup {Put(records[i]) : i \in {j \in DOMAIN records : Dirty(records[j])}}
                      \cup {DeleteRequest(k) : k \in removed}
    /\ UNCHANGED <<world, table, serial, store, loads, grid, condemned, typed, writes>>

\* One request is served and answered; the others do not depend on it.  What was refused stays
\* pending.
WriteAnswered(req) ==
    LET result == CASE req.verb = "POST" -> Insert(table, serial, req.data)
                    [] req.verb = "PUT" -> Update(table, serial, req.key, req.data)
                    [] req.verb = "DELETE" -> Delete(table, serial, req.key)
        key == IF req.verb = "POST" THEN serial + 1 ELSE req.key
        Settled(r) == IF r.key = req.key /\ req.verb # "DELETE"
                      THEN [key |-> key, base |-> result.table[key], now |-> result.table[key]] ELSE r
    IN  /\ req \in sending
        /\ serial < MaxKey \/ req.verb # "POST"
        /\ sending' = sending \ {req}
        /\ table' = result.table
        /\ serial' = result.serial
        /\ IF result.ok
           THEN /\ Shows([i \in DOMAIN records |-> Settled(records[i])], selected)
                /\ removed' = IF req.verb = "DELETE" THEN removed \ {req.key} ELSE removed
                /\ typed' = {cell \in typed : cell[1] # req.key}
           ELSE UNCHANGED <<store, selected, view, typed>>
        /\ UNCHANGED <<world, loads, focus, asked, condemned, moves, writes>>

UserStep ==
    \/ "select" \in world.offers /\ \E sel \in SUBSET KeysOf(records) : Select(sel)
    \/ "add" \in world.offers /\ AddRow
    \/ "edit" \in world.offers /\ \E i \in DOMAIN records, c \in DataColumns :
          \E text \in (IF c = "name" THEN world.names ELSE world.notes) : EditCell(i, c, text)
    \/ "view" \in world.offers /\ (SetRotated \/ \E delta \in {-1, 1} : StepRecord(delta))
    \/ \E needle \in world.needles : ApplyQuickSearch(needle)
    \/ "delete" \in world.offers /\ AskDelete
    \/ "refresh" \in world.offers /\ Refresh
    \/ Save

RowsStep ==
    \/ OtherSession
    \/ LoadLands
    \/ ConfirmDelete
    \/ CancelDelete
    \/ \E req \in sending : WriteAnswered(req)
=============================================================================
