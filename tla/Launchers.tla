----------------------------- MODULE Launchers -----------------------------
(***************************************************************************)
(* The DDL launchers of the navigator's menus, of the structure tab and of *)
(* the definition tabs (frontend/src/controller/ddlLaunchers.ts,           *)
(* objectPanels.ts): for each, the statements its preview makes and what   *)
(* its success tells the navigator (frontend/src/navigator/                *)
(* navigatorRefresh.ts) and the dock.  A launch is                         *)
(*   stmts    the statements previewed, run as one command                 *)
(*   change   what refreshNavigatorAfter is told; kind "none" when nothing *)
(*   closes   the panel ids whose tabs success removes                     *)
(*   draft    TRUE for a form in a tab of its own (openDdlPanel)           *)
(*   direct   TRUE when it runs without a dialog (a definition's Save)     *)
(*   edited   TRUE when the user wrote the SQL (a routine's definition)    *)
(* A ref is [kind, schema, name, sig].                                     *)
(***************************************************************************)
EXTENDS DdlObjects

CONSTANT NewName        \* the name forms give to a new or renamed object

(* Panel ids.  Every object's id is its schema and name, the kind left to  *)
(* the suffix; only a routine's definition tab tells overloads apart.      *)
PanelId(ref) == <<ref.schema, ref.name>>
FunctionDefinitionPanelId(ref) == <<ref.schema, ref.name, ref.sig>>

(* Mutant: overloads share one definition tab. *)
OverloadsShareATab(ref) ==
    IF ref.kind = "schema" THEN {<<ref.schema>>}
    ELSE {PanelId(ref)} \cup {<<ref.schema, ref.name, sig>> : sig \in {Blank, "int"}}

PanelIdsFor(ref) ==
    IF ref.kind = "schema" THEN {<<ref.schema>>} ELSE {PanelId(ref), FunctionDefinitionPanelId(ref)}
TabOf(ref) ==
    CASE ref.kind = "schema"   -> <<ref.schema>>
      [] ref.kind = "function" -> FunctionDefinitionPanelId(ref)
      [] OTHER                 -> PanelId(ref)

-----------------------------------------------------------------------------
Change(action, kind, schema, cascade) == [action |-> action, kind |-> kind, schema |-> schema, cascade |-> cascade]
NoChange == Change("none", "none", Blank, FALSE)
Launch(stmt, change, closes) ==
    [stmts |-> <<stmt>>, change |-> change, closes |-> closes, draft |-> FALSE, direct |-> FALSE, edited |-> FALSE]
Draft(stmt, kind, target) ==
    [Launch(stmt, Change("create", kind, target, FALSE), {}) EXCEPT !.draft = TRUE]

(* Creating: a draft tab on a schema.  The rows filled in are the ones the *)
(* statement's effect depends on; a blank name is refused by the backend.  *)
Columns == {<<[name |-> "c", primaryKey |-> pk], [name |-> Blank, primaryKey |-> FALSE]>> : pk \in BOOLEAN}
CreateTableLaunch(s) ==
    {Draft(PreviewCreateTable(BuildCreateTableSpec(s, NewName, rows)), "table", s) : rows \in Columns}
CreateViewLaunch(s) == {Draft(CreateViewPreview(ViewSpec(s, NewName)), "view", s)}
CreateMaterializedViewLaunch(s) ==
    {Draft(CreateMaterializedViewPreview(MatviewSpec(s, NewName, TRUE)), "materializedView", s)}
CreateSchemaLaunch ==
    {Draft(SchemaCreatePreview(BuildCreateSchemaSpec(name)), "schema", Blank) : name \in {NewName, Blank}}
CreateSequenceLaunch(s) == {Draft(SequenceCreatePreview(BuildCreateSequenceSpec(s, NewName, Blank)), "sequence", s)}
CreateFunctionLaunch(s) ==
    {Draft(CreateFunctionPreview(BuildCreateFunctionSpec(s, NewName, <<[type |-> type]>>, FALSE)), "function", s)
        : type \in {Blank, "int"}}
CreateTypeLaunch(s) ==
    {Draft(CreateEnumTypePreview(BuildCreateEnumTypeSpec(s, NewName, <<"l", Blank>>)), "type", s),
     Draft(CreateCompositeTypePreview(BuildCreateCompositeTypeSpec(s, NewName, <<[name |-> "n", type |-> "T"]>>)),
           "type", s)}

(* Renaming and dropping: a dialog on one object. *)
RenameTableLaunch(ref) ==
    {Launch(PreviewRenameTable(BuildRenameTableSpec(ref.schema, ref.name, NewName)),
            Change("rename", "table", ref.schema, FALSE), PanelIdsFor(ref))}
RenameSchemaLaunch(s) ==
    {Launch(SchemaRenamePreview(BuildRenameSchemaSpec(s, NewName)), Change("rename", "schema", s, FALSE), {})}
RefreshMaterializedViewLaunch(ref) ==
    {Launch(RefreshMaterializedViewPreview([schema |-> ref.schema, name |-> ref.name]), NoChange, {})}

DropLaunch(ref, Preview(_), closes) ==
    {Launch(Preview(BuildDropSpec(ref.schema, ref.name, cascade)),
            Change("drop", ref.kind, ref.schema, cascade), closes) : cascade \in BOOLEAN}
DropTableLaunch(ref) == DropLaunch(ref, PreviewDropTable, PanelIdsFor(ref))
DropRelationLaunch(ref) ==
    IF ref.kind = "materializedView" THEN DropLaunch(ref, DropMaterializedViewPreview, PanelIdsFor(ref))
    ELSE DropLaunch(ref, DropViewPreview, PanelIdsFor(ref))
DropSequenceLaunch(ref) == DropLaunch(ref, SequenceDropPreview, {})
DropTypeLaunch(ref) == DropLaunch(ref, DropTypePreview, {})
DropSchemaLaunch(s) ==
    {Launch(SchemaDropPreview(BuildDropSchemaSpec(s, cascade)), Change("drop", "schema", s, cascade),
            PanelIdsFor([kind |-> "schema", schema |-> s])) : cascade \in BOOLEAN}
DropFunctionLaunch(ref) ==
    {Launch(DropFunctionPreview(BuildDropFunctionSpec(ref.schema, ref.name, ref.sig, cascade)),
            Change("drop", "function", ref.schema, cascade), PanelIdsFor(ref)) : cascade \in BOOLEAN}

(* The structure tab's toolbars: constraints and indexes of a table.  The  *)
(* change a dropped constraint reports has no cascade.                     *)
ConstraintFields(ref) ==
    {[action |-> "addPrimaryKey", columns |-> columns] : columns \in {<<>>, <<"c">>}}
    \cup {[action |-> "addUnique", columns |-> <<"c">>], [action |-> "addCheck", expression |-> "e", constraintName |-> "k"],
          [action |-> "addForeignKey", columns |-> <<"c">>, refSchema |-> ref.schema, refTable |-> ref.name,
           refColumns |-> <<"c">>, constraintName |-> "k"]}
AddConstraintLaunch(ref) ==
    {Launch(PreviewConstraint(BuildConstraintSpec(ref.schema, ref.name, f.action, f)),
            Change("alter", "table", ref.schema, FALSE), {}) : f \in ConstraintFields(ref)}
DropConstraintLaunch(ref, constraint) ==
    {Launch(PreviewConstraint(BuildConstraintSpec(ref.schema, ref.name, "drop",
                                                  [constraintName |-> constraint, cascade |-> cascade])),
            Change("alter", "table", ref.schema, FALSE), {}) : cascade \in BOOLEAN}
IndexLaunch(ref, checked, suggested) ==
    LET columns == PreserveSuggestedColumnOrder(OrderColumnsBySelection(<<"c", "d">>, checked), suggested)
    IN  Launch(PreviewIndex(BuildIndexSpec(ref.schema, "create", [table |-> ref.name, columns |-> columns, name |-> Blank])),
               Change("create", "index", ref.schema, FALSE), {})
CreateIndexLaunch(ref) == {IndexLaunch(ref, checked, <<>>) : checked \in {{}, {"c", "d"}}}
\* The index advisor's button: its columns come checked.
CreateSuggestedIndex(ref) == {IndexLaunch(ref, {"c", "d"}, <<"d", "c">>)}
DropIndexLaunch(ref, index) ==
    {Launch(PreviewIndex(BuildIndexSpec(ref.schema, "drop", [indexName |-> index, cascade |-> cascade])),
            Change("drop", "index", ref.schema, cascade), {}) : cascade \in BOOLEAN}

(* Saving a definition: a view is replaced, a materialized view dropped    *)
(* and created anew; a routine's text is whatever the user made of it.     *)
SaveDefinitionLaunch(ref) ==
    LET change == Change("alter", ref.kind, ref.schema, FALSE)
        view   == CreateViewPreview([ViewSpec(ref.schema, ref.name) EXCEPT !.orReplace = TRUE])
        direct == [Launch(view, change, {}) EXCEPT !.direct = TRUE]
    IN  IF ref.kind = "view" THEN {direct}
        ELSE {[direct EXCEPT !.stmts = ReplaceMaterializedView(MatviewSpec(ref.schema, ref.name, TRUE))]}
SaveFunctionLaunch(ref) ==
    {[Launch(CreateRoutine(BuildCreateFunctionSpec(ref.schema, ref.name, <<[type |-> type]>>, TRUE)),
             Change("alter", "function", ref.schema, FALSE), {}) EXCEPT !.direct = TRUE, !.edited = TRUE] : type \in {Blank, "int"}}

(* Which launchers a menu or a tab offers. *)
SchemaMenuItems(s) ==
    CreateTableLaunch(s) \cup CreateViewLaunch(s) \cup CreateMaterializedViewLaunch(s) \cup CreateSequenceLaunch(s)
    \cup CreateFunctionLaunch(s) \cup CreateTypeLaunch(s) \cup RenameSchemaLaunch(s) \cup DropSchemaLaunch(s)
ObjectMenuItems(ref) ==
    CASE ref.kind = "table"    -> RenameTableLaunch(ref) \cup DropTableLaunch(ref)
      [] ref.kind = "view"     -> DropRelationLaunch(ref)
      [] ref.kind = "materializedView" -> DropRelationLaunch(ref) \cup RefreshMaterializedViewLaunch(ref)
      [] ref.kind = "sequence" -> DropSequenceLaunch(ref)
      [] ref.kind = "function" -> DropFunctionLaunch(ref)
      [] ref.kind = "type"     -> DropTypeLaunch(ref)
      [] OTHER                 -> {}
DefinitionTabItems(ref) ==
    CASE ref.kind \in {"view", "materializedView"} -> SaveDefinitionLaunch(ref)
      [] ref.kind = "function" -> SaveFunctionLaunch(ref)
      [] OTHER -> {}
ConstraintsTools(ref, constraints) == AddConstraintLaunch(ref) \cup UNION {DropConstraintLaunch(ref, c) : c \in constraints}
IndexesTools(ref, indexes) == CreateIndexLaunch(ref) \cup UNION {DropIndexLaunch(ref, i) : i \in indexes}
StructureTabItems(ref, constraints, indexes) == ConstraintsTools(ref, constraints) \cup IndexesTools(ref, indexes)

-----------------------------------------------------------------------------
(* What a successful change makes the navigator read again.                *)
All == "all loaded"
Scope(list, schemas) == [list |-> list, schemas |-> schemas]

(* Mutant: a cascading drop is taken to stay inside its schema. *)
ScopeIgnoresCascade(change, sqlEdited) ==
    IF sqlEdited THEN Scope(TRUE, {All}) ELSE Scope(change.kind = "schema", {change.schema} \ {Blank})

NavigatorScopeFor(change, sqlEdited) ==
    LET cascading == change.action = "drop" /\ change.cascade
    IN  CASE sqlEdited               -> Scope(TRUE, {All})
          [] change.kind = "schema"  -> Scope(TRUE, IF cascading THEN {All} ELSE {})
          [] change.schema = Blank   -> Scope(TRUE, {All})
          [] cascading               -> Scope(FALSE, {All})
          [] OTHER                   -> Scope(FALSE, {change.schema})
=============================================================================
