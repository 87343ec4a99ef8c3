---------------------------- MODULE MemberScripts ----------------------------
(***************************************************************************)
(* Editing the columns of a table, or the attributes of a composite type,  *)
(* in a grid: the statements a Save makes of the edited rows               *)
(* (frontend/src/dock/ddlSpecs.ts), the clauses the backend emits for them *)
(* (backend/app/sql/ddl.py) and what PostgreSQL does with each.            *)
(*                                                                         *)
(* A member is a column or an attribute: [id, name, type, nullable,        *)
(* default].  `id` stands for the data stored under it (NoData when it is  *)
(* new), which the grid never sees; an attribute is nullable and has no    *)
(* default.  A grid row is the same with `orig`, the name it was loaded    *)
(* under ("" for a row added since), in place of `id`.                     *)
(***************************************************************************)
EXTENDS Integers, Sequences, FiniteSets, SequencesExt

None == ""
NoData == 0
Named(members, name) == {m \in ToSet(members) : m.name = name}
IndexOf(members, name) == CHOOSE i \in DOMAIN members : members[i].name = name

-----------------------------------------------------------------------------
(* The statements, one clause each, and the previews that dispatch on a    *)
(* spec's action.                                                          *)

AddColumn(def) == [op |-> "add", def |-> def]
DropColumn(column) == [op |-> "drop", name |-> column]
RenameColumn(column, newName) == [op |-> "rename", name |-> column, newName |-> newName]
AlterColumnType(column, newType) == [op |-> "changeType", name |-> column, newType |-> newType]
SetNotNull(column) == [op |-> "setNotNull", name |-> column]
DropNotNull(column) == [op |-> "dropNotNull", name |-> column]
SetDefault(column, default) == [op |-> "setDefault", name |-> column, default |-> default]
DropDefault(column) == [op |-> "dropDefault", name |-> column]

PreviewAlterTable(spec) ==
    CASE spec.action = "addColumn"    -> AddColumn(spec.columnDef)
      [] spec.action = "dropColumn"   -> DropColumn(spec.column)
      [] spec.action = "renameColumn" -> RenameColumn(spec.column, spec.newName)
      [] spec.action = "changeType"   -> AlterColumnType(spec.column, spec.newType)
      [] spec.action = "setNotNull"   -> SetNotNull(spec.column)
      [] spec.action = "dropNotNull"  -> DropNotNull(spec.column)
      [] spec.action = "setDefault"   -> SetDefault(spec.column, spec.default)
      [] spec.action = "dropDefault"  -> DropDefault(spec.column)

AddAttribute(def) == [op |-> "add", def |-> def]
DropAttribute(attribute) == [op |-> "drop", name |-> attribute]
AlterAttributeType(attribute, newType) == [op |-> "changeType", name |-> attribute, newType |-> newType]
RenameAttribute(attribute, newName) == [op |-> "rename", name |-> attribute, newName |-> newName]

PreviewAlterComposite(spec) ==
    CASE spec.action = "addAttribute"        -> AddAttribute(spec.attributeDef)
      [] spec.action = "dropAttribute"       -> DropAttribute(spec.attribute)
      [] spec.action = "changeAttributeType" -> AlterAttributeType(spec.attribute, spec.newType)
      [] spec.action = "renameAttribute"     -> RenameAttribute(spec.attribute, spec.newName)

-----------------------------------------------------------------------------
(* The diff of the edited rows against the loaded members: drops, then the *)
(* changes of every kept row under its old name, then renames, then adds.  *)

KeptRows(edited) == SelectSeq(edited, LAMBDA r : r.orig # "")
AddedRows(edited) == SelectSeq(edited, LAMBDA r : r.orig = "" /\ r.name # "")
OnlyIf(p, s) == IF p THEN <<s>> ELSE <<>>
Each(rows, Specs(_)) == FlattenSeq([i \in DOMAIN rows |-> Specs(rows[i])])
Dropped(original, edited) ==
    SelectSeq(original, LAMBDA m : \A r \in ToSet(edited) : r.orig # m.name)

BuildAlterTableSpec(action, fields) == [action |-> action] @@ fields
OnColumn(action, column) == BuildAlterTableSpec(action, [column |-> column])
BuildAlterCompositeTypeSpec(action, fields) == [action |-> action] @@ fields

RowsAreComplete(edited) ==
    /\ \A r \in ToSet(KeptRows(edited)) : r.name # "" /\ r.type # ""
    /\ \A r \in ToSet(AddedRows(edited)) : r.type # ""

ChangeType(column, type) == BuildAlterTableSpec("changeType", [column |-> column, newType |-> type])

(* Mutant: the changes name the column the rename will make. *)
ColumnChangesUnderNewName(base, r) == OnlyIf(r.type # base.type, ChangeType(r.name, r.type))

ColumnChanges(base, r) ==
    OnlyIf(r.type # base.type, ChangeType(base.name, r.type))
    \o OnlyIf(r.nullable # base.nullable, OnColumn(IF r.nullable THEN "dropNotNull" ELSE "setNotNull", base.name))
    \o OnlyIf(r.default # base.default,
              IF r.default = None THEN OnColumn("dropDefault", base.name)
              ELSE BuildAlterTableSpec("setDefault", [column |-> base.name, default |-> r.default]))

DiffColumnSpecs(original, edited) ==
    LET known     == SelectSeq(KeptRows(edited), LAMBDA r : Named(original, r.orig) # {})
        Drop(m)   == <<OnColumn("dropColumn", m.name)>>
        Change(r) == ColumnChanges(original[IndexOf(original, r.orig)], r)
        Rename(r) == OnlyIf(r.name # r.orig,
                            BuildAlterTableSpec("renameColumn", [column |-> r.orig, newName |-> r.name]))
        Add(r)    == <<BuildAlterTableSpec("addColumn", [columnDef |-> r])>>
    IN  Each(Dropped(original, edited), Drop) \o Each(known, Change) \o Each(known, Rename)
        \o Each(AddedRows(edited), Add)

DiffCompositeAttributeSpecs(original, edited) ==
    LET known     == SelectSeq(KeptRows(edited), LAMBDA r : Named(original, r.orig) # {})
        Base(r)   == original[IndexOf(original, r.orig)]
        Spec(action, fields) == BuildAlterCompositeTypeSpec(action, fields)
        Drop(m)   == <<Spec("dropAttribute", [attribute |-> m.name])>>
        Change(r) == OnlyIf(r.type # Base(r).type,
                            Spec("changeAttributeType", [attribute |-> r.orig, newType |-> r.type]))
        Rename(r) == OnlyIf(r.name # r.orig, Spec("renameAttribute", [attribute |-> r.orig, newName |-> r.name]))
        Add(r)    == <<Spec("addAttribute", [attributeDef |-> r])>>
    IN  Each(Dropped(original, edited), Drop) \o Each(known, Change) \o Each(known, Rename)
        \o Each(AddedRows(edited), Add)

-----------------------------------------------------------------------------
(* What PostgreSQL does with them (external): a statement names a member   *)
(* that exists, and a name is given to one member only.                    *)

MemberStatementRuns(s, members) ==
    CASE s.op = "add"    -> Named(members, s.def.name) = {}
      [] s.op = "rename" -> Named(members, s.name) # {} /\ Named(members, s.newName) = {}
      [] OTHER           -> Named(members, s.name) # {}

RunMemberStatement(s, members) ==
    LET i == IndexOf(members, s.name)
    IN  CASE s.op = "add" ->
                Append(members, [id |-> NoData, name |-> s.def.name, type |-> s.def.type,
                                 nullable |-> s.def.nullable, default |-> s.def.default])
          [] s.op = "drop"        -> RemoveAt(members, i)
          [] s.op = "rename"      -> [members EXCEPT ![i].name = s.newName]
          [] s.op = "changeType"  -> [members EXCEPT ![i].type = s.newType]
          [] s.op = "setNotNull"  -> [members EXCEPT ![i].nullable = FALSE]
          [] s.op = "dropNotNull" -> [members EXCEPT ![i].nullable = TRUE]
          [] s.op = "setDefault"  -> [members EXCEPT ![i].default = s.default]
          [] s.op = "dropDefault" -> [members EXCEPT ![i].default = None]

RunMemberScript(script, members) ==
    FoldLeft(LAMBDA d, s : IF d.ok /\ MemberStatementRuns(s, d.members)
                           THEN [d EXCEPT !.members = RunMemberStatement(s, @)]
                           ELSE [d EXCEPT !.ok = FALSE],
             [ok |-> TRUE, members |-> members], script)
=============================================================================
