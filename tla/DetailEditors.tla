---------------------------- MODULE DetailEditors ----------------------------
(***************************************************************************)
(* The tabs that edit one database object in place: the Columns section of *)
(* a table's structure tab, the attribute grid of a composite type, the    *)
(* label grid of an enum and the form of a sequence (frontend/src/dock/    *)
(* StructurePanel.ts, TypeInfoPanel.ts, SequenceInfoPanel.ts).  The tab    *)
(* keeps the detail it last loaded and the edits on top of it.  A preview  *)
(* dialog is modal only once it shows: while its SQL is being generated    *)
(* the tab can still be edited, refreshed and saved again.  Refreshes are  *)
(* reads that may overtake one another, and other database sessions change *)
(* the same object meanwhile.                                              *)
(*                                                                         *)
(* One behaviour is the life of one tab, whose kind never changes.  Edit   *)
(* stands for all the edits made between two seeds of the grid.            *)
(***************************************************************************)
EXTENDS MemberScripts

CONSTANTS
    Gone,           \* the object: dropped by another session, or replaced by another category
    Kinds,          \* which of the four editors to explore
    MaxReads,       \* refreshes in flight at a time
    MaxReloads,     \* refreshes asked for in all, those after a save included
    MaxOthers,      \* changes made by other database sessions
    MaxEdits,       \* times the seeded grid is edited
    MaxSaves        \* previews opened

E == INSTANCE EnumScripts
S == INSTANCE SequenceScripts

ASSUME BoundsAreNaturals == {MaxReads, MaxReloads, MaxOthers, MaxEdits, MaxSaves} \subseteq Nat

VARIABLES
    kind,       \* the editor's kind
    db,         \* the object in the database
    original,   \* the detail most recently loaded, which Save diffs against
    grid,       \* the rows or fields as edited
    dialogs,    \* the preview dialogs: being generated, then shown modally
    reads,      \* refreshes in flight: <<>> once asked, <<detail>> once answered
    reloads, others, edits, saves

vars == <<kind, db, original, grid, dialogs, reads, reloads, others, edits, saves>>

EnumName == "t"

-----------------------------------------------------------------------------
(* The details the tab starts from.                                        *)

Column(i, name, default) == [id |-> i, name |-> name, type |-> "T", nullable |-> TRUE, default |-> default]
Start(k) ==
    CASE k = "columns"    -> {<<Column(1, "a", "d"), Column(2, "b", None)>>}
      [] k = "attributes" -> {<<Column(1, "a", None), Column(2, "b", None)>>}
      [] k = "labels"     ->
            {[ok |-> TRUE, types |-> [t \in {EnumName} |-> <<"a", "b">>], fns |-> {},
              deps |-> <<[type |-> EnumName, array |-> array, rows |-> {"b"},
                          default |-> IF array THEN "a" ELSE E!NoDefault]>>] : array \in BOOLEAN}
      [] k = "sequence"   ->
            {[increment |-> "1", start |-> "1", minValue |-> "1", maxValue |-> "9", cache |-> "1",
              dataType |-> "bigint", cycle |-> cycle, lastValue |-> last, owner |-> "o"]
                : cycle \in BOOLEAN, last \in {S!Unset, "5"}}

Detail(k, object) ==
    IF object = Gone THEN Gone ELSE IF k = "labels" THEN object.types[EnumName] ELSE object

ToColumnRows(columns) ==
    [i \in DOMAIN columns |->
        [orig |-> columns[i].name, name |-> columns[i].name, type |-> columns[i].type,
         nullable |-> columns[i].nullable, default |-> columns[i].default]]
BodyRows(labels) == [i \in DOMAIN labels |-> [orig |-> labels[i], label |-> labels[i]]]

GridOf(k, detail) ==
    CASE k = "labels"   -> BodyRows(detail)
      [] k = "sequence" -> S!SeedFields(detail)
      [] OTHER          -> ToColumnRows(detail)

-----------------------------------------------------------------------------
(* Editing.  Names, types and values come from small sets; every row may   *)
(* be renamed or changed in one respect, or deleted, and one row added; a  *)
(* blank name stands for the edits the diff refuses.                       *)

Names == {"a", "b", "c"}
Default(d) == IF d = None THEN "d" ELSE None
RowEdits(r) ==
    IF kind = "labels" THEN {[r EXCEPT !.label = n] : n \in Names}
    ELSE {[r EXCEPT !.name = n] : n \in Names}
         \cup (IF r.name = "a" THEN {[r EXCEPT !.type = "U"], [r EXCEPT !.name = "c", !.type = "U"]} ELSE {})
         \cup (IF kind = "columns" /\ r.name = "a"
               THEN {[r EXCEPT !.nullable = ~@], [r EXCEPT !.default = Default(@)]} ELSE {})

NewRow(name, type) == [orig |-> None, name |-> name, type |-> type, nullable |-> TRUE, default |-> None]
AddedRow ==
    IF kind = "labels" THEN {<<[orig |-> None, label |-> n]>> : n \in {"a", "c"}}
    ELSE {<<NewRow(n, "U")>> : n \in {"a", "c"}}

FieldEdits(form) ==
    LET numeric == S!NumericFields \cup {"lastValue"}
    IN  {[form EXCEPT ![f] = v] : f \in numeric, v \in {S!Blank, S!Typo, "7"}}
        \cup {[form EXCEPT !.increment = "7", !.lastValue = "7", !.owner = "p"]}
        \cup {[form EXCEPT !.cycle = ~@], [form EXCEPT !.dataType = "integer", !.owner = "p"]}

Deleted == [orig |-> "deleted"]
Grids ==
    IF kind = "sequence" THEN FieldEdits(grid)
    ELSE LET blank == {IF kind = "labels" THEN [grid EXCEPT ![i].label = None] ELSE [grid EXCEPT ![i].name = None]
                          : i \in DOMAIN grid \cap {1}}
             rows == {g \in [DOMAIN grid -> UNION {RowEdits(grid[i]) \cup {Deleted} : i \in DOMAIN grid}] :
                        \A i \in DOMAIN grid : g[i] \in RowEdits(grid[i]) \cup {Deleted}}
             left(g) == SelectSeq([i \in 1..Len(grid) |-> g[i]], LAMBDA r : r # Deleted)
         IN  blank \cup {left(g) \o added : g \in rows, added \in {<<>>} \cup AddedRow}

Free == \A i \in DOMAIN dialogs : dialogs[i].state = "generating"     \* no modal dialog shows

Edit ==
    /\ Free /\ edits < MaxEdits /\ grid = GridOf(kind, original)
    /\ edits' = edits + 1
    /\ grid' \in Grids \ {grid}
    /\ UNCHANGED <<kind, db, original, dialogs, reads, reloads, others, saves>>

-----------------------------------------------------------------------------
(* Save: diff the edits against the loaded detail, then open the preview.  *)

SaveColumns == [fails |-> ~RowsAreComplete(grid), specs |-> DiffColumnSpecs(original, grid)]
SaveComposite == [fails |-> ~RowsAreComplete(grid), specs |-> DiffCompositeAttributeSpecs(original, grid)]
SaveEnum ==
    LET plan == E!DiffEnumLabels(original, grid)
    IN  [fails |-> plan.kind = "error", specs |-> IF plan.kind = "none" THEN <<>> ELSE <<plan>>]
HandleSaveSequence ==
    [fails |-> S!SequenceDiffFails(original, grid), specs |-> S!DiffSequenceSpecs(original, grid)]

Diff ==
    CASE kind = "columns"    -> SaveColumns
      [] kind = "attributes" -> SaveComposite
      [] kind = "labels"     -> SaveEnum
      [] kind = "sequence"   -> HandleSaveSequence

Save ==
    /\ Free /\ saves < MaxSaves /\ grid # GridOf(kind, original)
    /\ ~Diff.fails /\ Diff.specs # <<>>
    /\ saves' = saves + 1
    /\ dialogs' = Append(dialogs, [state |-> "generating", specs |-> Diff.specs, base |-> original, grid |-> grid])
    /\ UNCHANGED <<kind, db, original, grid, reads, reloads, others, edits>>

(* Generating the preview, one call per spec.  Only the recreate of an     *)
(* enum reads the database: the columns that depend on the type, as they   *)
(* are now, and the type itself must still be there.                       *)
PreviewSpecs(d, deps) ==
    CASE kind = "columns"    -> [i \in DOMAIN d.specs |-> PreviewAlterTable(d.specs[i])]
      [] kind = "attributes" -> [i \in DOMAIN d.specs |-> PreviewAlterComposite(d.specs[i])]
      [] kind = "labels"     -> E!EnumScript(EnumName, d.base, d.specs[1], deps).stmts
      [] kind = "sequence"   ->
            [i \in DOMAIN d.specs |-> IF "newOwner" \in DOMAIN d.specs[i] THEN S!PreviewSequenceOwner(d.specs[i])
                                      ELSE S!PreviewAlterSequence(d.specs[i])]

PreviewFails(d) ==
    /\ kind = "labels"
    /\ \/ d.specs[1].kind = "recreate" /\ db = Gone
       \/ ~E!EnumScript(EnumName, d.base, d.specs[1], <<>>).ok

Preview(i) ==
    LET d    == dialogs[i]
        deps == IF kind = "labels" /\ db # Gone THEN db.deps ELSE <<>>
    IN  /\ d.state = "generating"
        /\ dialogs' = [dialogs EXCEPT ![i] =
               IF PreviewFails(d) THEN [state |-> "failed"]
               ELSE [state |-> "ready", script |-> PreviewSpecs(d, deps), deps |-> deps,
                     base |-> d.base, grid |-> d.grid]]
        /\ UNCHANGED <<kind, db, original, grid, reads, reloads, others, edits, saves>>

(* What the script makes of the object, in one transaction.  A refusal     *)
(* shows in the dialog, which stays open for another try.                  *)
Run(script, object) ==
    LET Result(ok, end) == [ok |-> ok, object |-> IF ok THEN end ELSE object]
    IN  CASE object = Gone -> Result(FALSE, object)
          [] kind = "labels" ->
                LET end == E!RunEnumScript(script, object) IN Result(end.ok, end)
          [] kind = "sequence" ->
                Result(TRUE, FoldLeft(LAMBDA q, s : S!RunSequenceStatement(s, q), object, script))
          [] OTHER ->
                LET end == RunMemberScript(script, object) IN Result(end.ok, end.members)

Execute(i) ==
    LET run == Run(dialogs[i].script, db)
    IN  /\ dialogs[i].state \in {"ready", "refused"}
        /\ db' = run.object
        /\ dialogs' = [dialogs EXCEPT ![i].state = IF run.ok THEN "ran" ELSE "refused"]
        /\ UNCHANGED <<kind, original, grid, reads, reloads, others, edits, saves>>

(* A success closes the dialog and reads the detail again; the edits stay  *)
(* on screen, and can be saved again, until that read lands.               *)
HandleSuccess(i) ==
    /\ dialogs[i].state = "ran"
    /\ dialogs' = RemoveAt(dialogs, i)
    /\ reads' = Append(reads, <<>>)
    /\ reloads' = reloads + 1
    /\ UNCHANGED <<kind, db, original, grid, others, edits, saves>>

Cancel(i) ==
    /\ dialogs[i].state \in {"ready", "refused", "failed"}
    /\ dialogs' = RemoveAt(dialogs, i)
    /\ UNCHANGED <<kind, db, original, grid, reads, reloads, others, edits, saves>>

-----------------------------------------------------------------------------
(* Refreshing: the toolbar's Refresh, or Alt+R, which is not blocked by a  *)
(* read already in flight.  A read may land while the dialog is open.      *)

Refresh ==
    /\ Free /\ Len(reads) < MaxReads /\ reloads < MaxReloads
    /\ reads' = Append(reads, <<>>)
    /\ reloads' = reloads + 1
    /\ UNCHANGED <<kind, db, original, grid, dialogs, others, edits, saves>>

AnswerRead(i) ==
    /\ reads[i] = <<>>
    /\ reads' = [reads EXCEPT ![i] = <<Detail(kind, db)>>]
    /\ UNCHANGED <<kind, db, original, grid, dialogs, reloads, others, edits, saves>>

Reload(i) ==
    /\ reads[i] # <<>>
    /\ reads' = RemoveAt(reads, i)
    /\ IF reads[i][1] = Gone
       THEN UNCHANGED <<original, grid>>
       ELSE original' = reads[i][1] /\ grid' = GridOf(kind, reads[i][1])
    /\ UNCHANGED <<kind, db, dialogs, reloads, others, edits, saves>>

-----------------------------------------------------------------------------
(* Another database session changes the object.                            *)

OtherStatements ==
    {RenameColumn("a", "c"), DropColumn("b"), AlterColumnType("a", "V")}

EnumChanges ==
    {E!RunEnumScript(<<s>>, db) : s \in {E!RenameValue(EnumName, "a", "c"), E!AddValue(EnumName, "c", <<"after", "a">>)}}
    \cup {[db EXCEPT !.deps[1].rows = @ \cup {"a"}], [db EXCEPT !.deps[1].default = "b"]}

Changed ==
    CASE kind = "labels"   -> {d \in EnumChanges : d.ok}
      [] kind = "sequence" -> {[db EXCEPT !.lastValue = "6"], [db EXCEPT !.increment = "2"]}
      [] OTHER -> {RunMemberScript(<<s>>, db).members : s \in {x \in OtherStatements : RunMemberScript(<<x>>, db).ok}}

OtherSession ==
    /\ others < MaxOthers /\ db # Gone
    /\ others' = others + 1
    /\ db' \in Changed \cup (IF kind \in {"labels", "sequence"} THEN {Gone} ELSE {})
    /\ UNCHANGED <<kind, original, grid, dialogs, reads, reloads, edits, saves>>

-----------------------------------------------------------------------------
Init ==
    /\ kind \in Kinds
    /\ db \in Start(kind)
    /\ original = Detail(kind, db)
    /\ grid = GridOf(kind, original)
    /\ dialogs = <<>>
    /\ reads = <<>>
    /\ reloads = 0 /\ others = 0 /\ edits = 0 /\ saves = 0

Next ==
    \/ Edit \/ Save \/ Refresh \/ OtherSession
    \/ \E i \in DOMAIN dialogs : Preview(i) \/ Execute(i) \/ HandleSuccess(i) \/ Cancel(i)
    \/ \E i \in DOMAIN reads : AnswerRead(i) \/ Reload(i)

Spec == Init /\ [][Next]_vars

-----------------------------------------------------------------------------
(* Properties.  They look at the step in which a script has run: d is the  *)
(* dialog it came from.                                                    *)

Ran(i) == Execute(i) /\ dialogs'[i].state = "ran"
Failed(i) == Execute(i) /\ dialogs'[i].state = "refused"

(* Nobody else changed what the dialog was computed from. *)
Fresh(d) == Detail(kind, db) = d.base /\ (kind = "labels" => db.deps = d.deps)

(* What an edited label grid makes of a stored label: the text it is now   *)
(* shown as, or nothing when it was deleted and not added again.           *)
Reads(rows, label) ==
    LET now == {r.label : r \in {x \in ToSet(rows) : x.orig = label}}
        added == {r.label : r \in {x \in ToSet(rows) : x.orig = None}}
    IN  IF now # {} THEN now ELSE {label} \cap added

Shown(d) ==
    CASE kind = "labels" ->
            /\ db'.types = [t \in {EnumName} |-> E!FinalLabels(d.grid)] /\ db'.fns = {}
            /\ \A i \in DOMAIN db.deps :
                  /\ db'.deps[i].type = EnumName
                  /\ db'.deps[i].rows = UNION {Reads(d.grid, l) : l \in db.deps[i].rows}
                  /\ IF db.deps[i].default = E!NoDefault THEN db'.deps[i].default = E!NoDefault
                     ELSE Reads(d.grid, db.deps[i].default) = {db'.deps[i].default}
      [] kind = "sequence" ->
            db' = [d.grid EXCEPT !.lastValue = IF @ \in {S!Blank, S!Unset} THEN db.lastValue ELSE @]
      [] OTHER ->
            db' = LET rows == KeptRows(d.grid) \o AddedRows(d.grid)
                      Id(r) == IF r.orig = None THEN NoData ELSE d.base[IndexOf(d.base, r.orig)].id
                  IN  [i \in DOMAIN rows |->
                          [id |-> Id(rows[i]), name |-> rows[i].name, type |-> rows[i].type,
                           nullable |-> rows[i].nullable, default |-> rows[i].default]]

(* A script that ran on what the tab had loaded made the object exactly    *)
(* what the grid showed when Save was pressed, the stored data with it:    *)
(* every kept column keeps its data under its new name, every stored enum  *)
(* value and default reads as the text its label was edited to, even when  *)
(* a rename takes the text of a label deleted in the same edit, and no     *)
(* helper type or function is left behind.                                 *)
SavedAsEdited == [][\A i \in DOMAIN dialogs : Ran(i) /\ Fresh(dialogs[i]) => Shown(dialogs[i])]_vars

(* Why the database may refuse a script computed from what it holds: two   *)
(* members of one name, or a rename onto a name that a later rename of the *)
(* same grid frees; two labels of one text, a deleted label still stored   *)
(* or defaulted to, or a rename chain through a deleted label.             *)
MayFail(d) ==
    LET rows == KeptRows(d.grid) \o AddedRows(d.grid)
        removed == E!RemovedLabels(d.base, d.grid)
        moved(r) == r.label # r.orig
        held(dep) == dep.rows \cup ({dep.default} \ {E!NoDefault})
        chained == \E r, q \in ToSet(E!Kept(d.grid)) :
                      moved(r) /\ moved(q) /\ r.label = q.orig /\ q.label \in removed
    IN  CASE kind = "labels" ->
                \/ ~IsInjective(E!FinalLabels(d.grid)) \/ chained
                \/ \E i \in DOMAIN db.deps : \E l \in held(db.deps[i]) : l \in removed /\ Reads(d.grid, l) = {}
          [] kind = "sequence" -> FALSE
          [] OTHER ->
                \/ \E i, j \in DOMAIN rows : i # j /\ rows[i].name = rows[j].name
                \/ \E i, j \in DOMAIN rows : i < j /\ rows[j].orig # None /\ rows[i].name = rows[j].orig

(* A script computed from what the database still holds runs to its end,   *)
(* whatever was edited: its statements never trip over one another, but    *)
(* for the collisions MayFail lists.                                       *)
SaveGoesThrough == [][\A i \in DOMAIN dialogs : Failed(i) /\ Fresh(dialogs[i]) => MayFail(dialogs[i])]_vars

(* A script that rebuilds the type: it makes the labels of the grid and the *)
(* defaults read when it was previewed, whatever they are by now.          *)
Rebuilds(d) == E!RemovedLabels(d.base, d.grid) # {}

(* What a Save may alter of the object as it now is. *)
Spares(d) ==
    LET row(m) == {r \in ToSet(d.grid) : r.orig = m.name}
        base(m) == Named(d.base, m.name)
        same(m, n, f) == \A r \in row(m) : \A b \in base(m) : r[f] = b[f] => n[f] = m[f]
        become(l) == IF l \in ToSet(d.base) THEN Reads(d.grid, l) ELSE {l}
    IN  CASE kind = "labels" ->
                /\ \A i \in DOMAIN db.deps : \A l \in db.deps[i].rows : become(l) \subseteq db'.deps[i].rows
                /\ \/ Rebuilds(d)
                   \/ ToSet(db.types[EnumName]) \ ToSet(d.base) \subseteq ToSet(db'.types[EnumName])
                /\ \/ Rebuilds(d) /\ db.deps # d.deps
                   \/ \A i \in DOMAIN db.deps :
                          LET l == db.deps[i].default
                          IN  {db'.deps[i].default} = IF l = E!NoDefault THEN {l} ELSE become(l)
          [] kind = "sequence" ->
                \A f \in DOMAIN db :
                    \/ d.grid[f] # d.base[f] /\ (f = "lastValue" => d.grid[f] \notin {S!Blank, S!Unset})
                    \/ db'[f] = db[f]
          [] OTHER ->
                \A m \in ToSet(db) : (base(m) = {} \/ row(m) # {}) =>
                    \E n \in ToSet(db') : n.id = m.id /\ \A f \in {"name", "type", "nullable", "default"} :
                        IF base(m) = {} THEN n[f] = m[f] ELSE same(m, n, f)

(* A Save alters only what the user changed, however stale the detail it   *)
(* was compared with: columns, parameters and values that another session  *)
(* changed and the user left alone stay as that session left them (a       *)
(* sequence is not wound back), no stored enum value changes meaning, and  *)
(* added labels and new defaults stay.  Exempted: a Save that deletes a    *)
(* label rebuilds the type from the labels the tab had loaded and the      *)
(* defaults its preview read (ddlSpecs.ts diffEnumLabels, ddl.py           *)
(* recreate_enum_type).  A label another session added since, which no row *)
(* holds, is lost, and a default it set after the preview is set back.     *)
OthersWorkStays == [][\A i \in DOMAIN dialogs : Ran(i) => Spares(dialogs[i])]_vars

=============================================================================
