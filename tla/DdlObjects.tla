----------------------------- MODULE DdlObjects -----------------------------
(***************************************************************************)
(* Creating, renaming and dropping database objects: the specs the forms   *)
(* build (frontend/src/dock/*Form*.ts, ddlSpecs.ts), the statement each    *)
(* backend preview turns one into (backend/app/operations/ddl_*.py,        *)
(* backend/app/sql/ddl.py), and what PostgreSQL does with it.              *)
(*                                                                         *)
(* A spec is a record whose optional fields are left out, never empty.  A  *)
(* statement is a record too, or Invalid when the backend refuses the spec *)
(* (HTTP 400).  The catalog keeps every object with what it goes with (a   *)
(* key or an index with its table) and what it uses (a view its tables);   *)
(* columns and constraints are objects the navigator does not list.        *)
(***************************************************************************)
EXTENDS Integers, Sequences, FiniteSets, TLC

Blank == ""
Invalid == [op |-> "invalid"]
Optional(given, field) == IF given THEN field ELSE <<>>
Flag(spec, name) == IF name \in DOMAIN spec THEN spec[name] ELSE FALSE
Text(spec, name) == IF name \in DOMAIN spec THEN spec[name] ELSE Blank
RequireField(spec, names, stmt) == IF \E n \in names : Text(spec, n) = Blank THEN Invalid ELSE stmt
NonBlank(rows) == SelectSeq(rows, LAMBDA r : r.name # Blank)

-----------------------------------------------------------------------------
(* The specs, as the forms and the launchers build them.                   *)

BuildCreateTableSpec(schema, name, rows) == [schema |-> schema, name |-> name, columns |-> NonBlank(rows)]
BuildRenameTableSpec(schema, name, newName) ==
    [schema |-> schema, name |-> name, action |-> "renameTable", newName |-> newName]

BuildConstraintSpec(schema, name, action, f) ==
    [schema |-> schema, name |-> name, action |-> action]
    @@ Optional(Text(f, "constraintName") # Blank \/ action = "drop", [constraintName |-> Text(f, "constraintName")])
    @@ (CASE action \in {"addPrimaryKey", "addUnique"} -> [columns |-> f.columns]
          [] action = "addCheck"      -> [expression |-> f.expression]
          [] action = "addForeignKey" ->
                [columns |-> f.columns, refSchema |-> f.refSchema, refTable |-> f.refTable, refColumns |-> f.refColumns]
          [] action = "drop"          -> Optional(f.cascade, [cascade |-> TRUE]))

BuildIndexSpec(schema, action, f) ==
    [schema |-> schema, action |-> action]
    @@ (IF action = "create"
        THEN [table |-> f.table, columns |-> f.columns] @@ Optional(f.name # Blank, [name |-> f.name])
        ELSE [indexName |-> f.indexName] @@ Optional(f.cascade, [cascade |-> TRUE]))

(* The Create-index form keeps the advisor's column order only while its   *)
(* columns are the ones ticked; otherwise the table's own order.           *)
OrderColumnsBySelection(all, selected) == SelectSeq(all, LAMBDA c : c \in selected)
PreserveSuggestedColumnOrder(selected, suggested) ==
    IF Len(suggested) = Len(selected) /\ \A i \in DOMAIN suggested : \E j \in DOMAIN selected : selected[j] = suggested[i]
    THEN suggested ELSE selected

BuildDropSpec(schema, name, cascade) == [schema |-> schema, name |-> name] @@ Optional(cascade, [cascade |-> TRUE])
BuildCreateSchemaSpec(name) == [name |-> name]
BuildDropSchemaSpec(name, cascade) == [name |-> name] @@ Optional(cascade, [cascade |-> TRUE])
BuildRenameSchemaSpec(name, newName) == [name |-> name, newName |-> newName]
BuildCreateSequenceSpec(schema, name, ownedBy) ==
    [schema |-> schema, name |-> name] @@ Optional(ownedBy # Blank, [ownedBy |-> ownedBy])
BuildCreateFunctionSpec(schema, name, rows, replace) ==
    [schema |-> schema, name |-> name, args |-> SelectSeq(rows, LAMBDA r : r.type # Blank), replace |-> replace]
BuildDropFunctionSpec(schema, name, signature, cascade) ==
    [signature |-> signature] @@ BuildDropSpec(schema, name, cascade)
BuildCreateEnumTypeSpec(schema, name, labels) ==
    [schema |-> schema, name |-> name, labels |-> SelectSeq(labels, LAMBDA l : l # Blank)]
BuildCreateCompositeTypeSpec(schema, name, attributes) ==
    [schema |-> schema, name |-> name,
     attributes |-> SelectSeq(attributes, LAMBDA a : a.name # Blank /\ a.type # Blank)]
ViewSpec(schema, name) == [schema |-> schema, name |-> name, select |-> "skeleton", orReplace |-> FALSE]
MatviewSpec(schema, name, withData) ==
    [schema |-> schema, name |-> name, select |-> "skeleton", withData |-> withData]

-----------------------------------------------------------------------------
(* The statements.  Every builder that names a schema or an object refuses *)
(* a blank one; lists that SQL needs non-empty are refused when empty.     *)

DropStatement(kind, spec, name) ==
    [op |-> "drop", kind |-> kind, schema |-> Text(spec, "schema"), name |-> name,
     of |-> Text(spec, "signature"), cascade |-> Flag(spec, "cascade")]
CreateStatement(kind, spec, name, key, uses) ==
    [op |-> "create", kind |-> kind, schema |-> spec.schema, name |-> name, sig |-> Blank, on |-> Blank,
     key |-> key, uses |-> uses, replace |-> FALSE]

CreateTable(spec) ==
    LET keyed == \E i \in DOMAIN spec.columns : spec.columns[i].primaryKey
    IN  IF spec.columns = <<>> THEN Invalid ELSE CreateStatement("table", spec, spec.name, keyed, {})
DropTable(spec) == DropStatement("table", spec, spec.name)
RenameTable(spec) ==
    [op |-> "rename", kind |-> "table", schema |-> spec.schema, name |-> spec.name, newName |-> spec.newName]

AddPart(kind, spec, name, key, uses) ==
    [CreateStatement(kind, spec, name, key, uses) EXCEPT !.on = spec.name]
AddKey(spec, keyword) ==
    IF spec.columns = <<>> THEN Invalid
    ELSE AddPart("index", spec, IF Text(spec, "constraintName") # Blank THEN spec.constraintName
                                ELSE spec.name \o keyword, TRUE, {})
AddPrimaryKey(spec) == AddKey(spec, "_pkey")
AddUnique(spec) == AddKey(spec, "_key")
AddCheck(spec) ==
    IF spec.expression = Blank THEN Invalid
    ELSE AddPart("constraint", spec, Text(spec, "constraintName"), FALSE, {})
AddForeignKey(spec) ==
    IF spec.columns = <<>> \/ Len(spec.columns) # Len(spec.refColumns) THEN Invalid
    ELSE AddPart("constraint", spec, Text(spec, "constraintName"), FALSE, {<<spec.refSchema, spec.refTable>>})
DropConstraint(spec) == [DropStatement("constraint", spec, spec.constraintName) EXCEPT !.of = spec.name]

CreateIndex(spec) ==
    IF spec.columns = <<>> THEN Invalid
    ELSE [CreateStatement("index", spec, IF Text(spec, "name") # Blank THEN spec.name ELSE spec.table \o "_idx",
                          FALSE, {}) EXCEPT !.on = spec.table]
DropIndex(spec) == DropStatement("index", spec, spec.indexName)

CreateView(spec) == [CreateStatement("view", spec, spec.name, FALSE, {}) EXCEPT !.replace = spec.orReplace]
DropView(spec) == DropStatement("view", spec, spec.name)
CreateMaterializedView(spec) == CreateStatement("materializedView", spec, spec.name, FALSE, {})
DropMaterializedView(spec) == DropStatement("materializedView", spec, spec.name)
RefreshMaterializedView(spec) ==
    [op |-> "refresh", kind |-> "materializedView", schema |-> spec.schema, name |-> spec.name]
ReplaceMaterializedView(spec) == <<DropMaterializedView(spec), CreateMaterializedView(spec)>>

SchemaCreate(spec) == [op |-> "create", kind |-> "schema", name |-> spec.name]
SchemaDrop(spec) == [DropStatement("schema", spec, spec.name) EXCEPT !.schema = spec.name]
SchemaRename(spec) ==
    [op |-> "rename", kind |-> "schema", schema |-> spec.name, name |-> spec.name, newName |-> spec.newName]
SequenceCreate(spec) == [CreateStatement("sequence", spec, spec.name, FALSE, {}) EXCEPT !.on = Text(spec, "ownedBy")]
SequenceDrop(spec) == DropStatement("sequence", spec, spec.name)
CreateRoutine(spec) ==
    [CreateStatement("function", spec, spec.name, FALSE, {})
        EXCEPT !.sig = IF spec.args = <<>> THEN Blank ELSE spec.args[1].type, !.replace = spec.replace]
DropRoutine(spec) == DropStatement("function", spec, spec.name)
CreateEnumType(spec) == CreateStatement("type", spec, spec.name, FALSE, {})
CreateCompositeType(spec) == CreateStatement("type", spec, spec.name, FALSE, {})
DropType(spec) == DropStatement("type", spec, spec.name)

(* The previews, one class each: the fields they insist on, then the       *)
(* builder.                                                                *)
PreviewCreateTable(spec) == RequireField(spec, {"schema", "name"}, CreateTable(spec))
PreviewDropTable(spec) == RequireField(spec, {"schema", "name"}, DropTable(spec))
PreviewRenameTable(spec) == RequireField(spec, {"schema", "name", "newName"}, RenameTable(spec))
PreviewConstraint(spec) ==
    LET stmt == CASE spec.action = "addPrimaryKey" -> AddPrimaryKey(spec)
                  [] spec.action = "addUnique"     -> AddUnique(spec)
                  [] spec.action = "addCheck"      -> AddCheck(spec)
                  [] spec.action = "addForeignKey" ->
                        RequireField(spec, {"refSchema", "refTable"}, AddForeignKey(spec))
                  [] spec.action = "drop"          ->
                        RequireField(spec, {"constraintName"}, DropConstraint(spec))
    IN  RequireField(spec, {"schema", "name"}, stmt)
PreviewIndex(spec) ==
    IF spec.action = "create" THEN RequireField(spec, {"schema", "table"}, CreateIndex(spec))
    ELSE RequireField(spec, {"schema", "indexName"}, DropIndex(spec))
CreateViewPreview(spec) == RequireField(spec, {"schema", "name", "select"}, CreateView(spec))
DropViewPreview(spec) == RequireField(spec, {"schema", "name"}, DropView(spec))
CreateMaterializedViewPreview(spec) ==
    RequireField(spec, {"schema", "name", "select"}, CreateMaterializedView(spec))
DropMaterializedViewPreview(spec) == RequireField(spec, {"schema", "name"}, DropMaterializedView(spec))
RefreshMaterializedViewPreview(spec) == RequireField(spec, {"schema", "name"}, RefreshMaterializedView(spec))
SchemaCreatePreview(spec) == RequireField(spec, {"name"}, SchemaCreate(spec))
SchemaDropPreview(spec) == RequireField(spec, {"name"}, SchemaDrop(spec))
SchemaRenamePreview(spec) == RequireField(spec, {"name", "newName"}, SchemaRename(spec))
SequenceCreatePreview(spec) == RequireField(spec, {"schema", "name"}, SequenceCreate(spec))
SequenceDropPreview(spec) == RequireField(spec, {"schema", "name"}, SequenceDrop(spec))
CreateFunctionPreview(spec) == RequireField(spec, {"schema", "name"}, CreateRoutine(spec))
DropFunctionPreview(spec) == RequireField(spec, {"schema", "name"}, DropRoutine(spec))
CreateEnumTypePreview(spec) == RequireField(spec, {"schema", "name"}, CreateEnumType(spec))
CreateCompositeTypePreview(spec) == RequireField(spec, {"schema", "name"}, CreateCompositeType(spec))
DropTypePreview(spec) == RequireField(spec, {"schema", "name"}, DropType(spec))

-----------------------------------------------------------------------------
(* What PostgreSQL does with a statement (external).  A catalog is its     *)
(* schemas and its objects [oid, kind, schema, name, sig, on, key, uses];  *)
(* `on` is the oid of the table an object goes with (0 when none).         *)

Relations == {"table", "view", "materializedView", "sequence", "index"}
SameNamespace(k, l) == k = l \/ {k, l} \subseteq Relations
Holders(c, kind, schema, name, sig) ==
    {o \in c.objects : SameNamespace(o.kind, kind) /\ o.schema = schema /\ o.name = name /\ o.sig = sig}
TableOid(c, schema, name) ==
    IF name = Blank THEN 0 ELSE (CHOOSE o \in Holders(c, "table", schema, name, Blank) : TRUE).oid

DropTargets(c, s) ==
    CASE s.kind = "schema"     -> {o \in c.objects : o.schema = s.name}
      [] s.kind = "constraint" -> {o \in c.objects : /\ o.kind = "constraint" \/ o.key
                                                    /\ o.schema = s.schema /\ o.name = s.name
                                                    /\ o.on = TableOid(c, s.schema, s.of)}
      [] OTHER -> {o \in c.objects : /\ o.kind = s.kind /\ o.schema = s.schema
                                     /\ o.name = s.name /\ o.sig = s.of}

(* All that goes with a set of objects, and all that needs one of them. *)
Reached(c, from, Next(_)) ==
    LET reached[n \in 0..Cardinality(c.objects)] ==
            IF n = 0 THEN from
            ELSE reached[n - 1] \cup {o \in c.objects : Next(o) \cap {p.oid : p \in reached[n - 1]} # {}}
    IN  reached[Cardinality(c.objects)]
GoWith(c, from) == Reached(c, from, LAMBDA o : {o.on})
Needing(c, from) == Reached(c, from, LAMBDA o : {o.on} \cup o.uses)

Replaces(c, s) == s.replace /\ \E o \in Holders(c, s.kind, s.schema, s.name, s.sig) : o.kind = s.kind
StatementRuns(c, s) ==
    CASE s.op = "invalid" -> FALSE
      [] s.op = "drop" ->
            /\ IF s.kind = "schema" THEN s.name \in c.schemas ELSE DropTargets(c, s) # {}
            /\ s.cascade \/ (IF s.kind = "schema" THEN DropTargets(c, s) = {}
                             ELSE Needing(c, DropTargets(c, s)) = GoWith(c, DropTargets(c, s)))
            /\ s.kind = "index" => \A o \in DropTargets(c, s) : ~o.key
      [] s.op = "create" /\ s.kind = "schema" -> s.name \notin c.schemas
      [] s.op = "create" ->
            /\ s.schema \in c.schemas
            /\ s.kind # "constraint" =>
                    Holders(c, s.kind, s.schema, s.name, s.sig) = {} \/ Replaces(c, s)
            /\ s.on # Blank => \E o \in Holders(c, "table", s.schema, s.on, Blank) : o.kind = "table"
            /\ \A u \in s.uses : \E o \in Holders(c, "table", u[1], u[2], Blank) : o.kind = "table"
      [] s.op = "rename" /\ s.kind = "schema" -> s.name \in c.schemas /\ s.newName \notin c.schemas
      [] s.op = "rename" -> /\ Holders(c, s.kind, s.schema, s.name, Blank) # {}
                            /\ Holders(c, s.kind, s.schema, s.newName, Blank) = {}
      [] s.op = "refresh" -> Holders(c, s.kind, s.schema, s.name, Blank) # {}

FreshOid(c, not) == CHOOSE i \in 1..Cardinality(c.objects) + 2 : i \notin {o.oid : o \in c.objects} \cup not
Created(c, s) ==
    LET oid == FreshOid(c, {})
        made == [oid |-> oid, kind |-> s.kind, schema |-> s.schema, name |-> s.name, sig |-> s.sig,
                 on |-> TableOid(c, s.schema, s.on), key |-> s.key /\ s.kind = "index",
                 uses |-> {TableOid(c, u[1], u[2]) : u \in s.uses}]
        key  == [made EXCEPT !.oid = FreshOid(c, {oid}), !.kind = "index", !.name = s.name \o "_pkey",
                             !.on = oid, !.key = TRUE]
    IN  {made} \cup IF s.kind = "table" /\ s.key THEN {key} ELSE {}

RunStatement(c, s) ==
    CASE s.op = "drop" ->
            LET gone == IF s.cascade THEN Needing(c, DropTargets(c, s)) ELSE GoWith(c, DropTargets(c, s))
            IN  [schemas |-> c.schemas \ (IF s.kind = "schema" THEN {s.name} ELSE {}),
                 objects |-> c.objects \ gone]
      [] s.op = "create" /\ s.kind = "schema" -> [c EXCEPT !.schemas = @ \cup {s.name}]
      [] s.op = "create" -> IF Replaces(c, s) THEN c ELSE [c EXCEPT !.objects = @ \cup Created(c, s)]
      [] s.op = "rename" /\ s.kind = "schema" ->
            [schemas |-> (c.schemas \ {s.name}) \cup {s.newName},
             objects |-> {IF o.schema = s.name THEN [o EXCEPT !.schema = s.newName] ELSE o : o \in c.objects}]
      [] s.op = "rename" ->
            LET renamed == Holders(c, s.kind, s.schema, s.name, Blank)
            IN  [c EXCEPT !.objects = {IF o \in renamed THEN [o EXCEPT !.name = s.newName] ELSE o : o \in @}]
      [] s.op = "refresh" -> c

(* One command is one transaction: it runs as a whole or not at all. *)
RunsWhole(c, stmts) ==
    LET after[n \in 0..Len(stmts)] ==
            IF n = 0 THEN {c} ELSE {RunStatement(d, stmts[n]) : d \in {d \in after[n - 1] : StatementRuns(d, stmts[n])}}
    IN  after[Len(stmts)]
=============================================================================
