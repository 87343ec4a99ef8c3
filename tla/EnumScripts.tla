----------------------------- MODULE EnumScripts -----------------------------
(***************************************************************************)
(* Editing the labels of an enum type: the plan a Save makes of the edited *)
(* grid (frontend/src/dock/ddlSpecs.ts), the statements the backend        *)
(* previews for it (backend/app/sql/ddl.py), and what PostgreSQL does with *)
(* them.  PostgreSQL has no DROP VALUE, so deleting a label renames the    *)
(* type aside, creates it anew, moves every dependent column over and      *)
(* drops the old type, in one transaction.                                 *)
(*                                                                         *)
(* An enum catalog is a record: `types` maps a type's name to its labels,  *)
(* `deps` lists the table columns of an enum type (their type, whether     *)
(* they are arrays, the labels their rows hold and their default), `fns`   *)
(* holds the types some helper function still mentions, and `ok` is FALSE  *)
(* once a statement has failed.  A stored value is written as the label it *)
(* reads as, so that RENAME VALUE renames it too, as PostgreSQL's label    *)
(* identifiers do.                                                         *)
(***************************************************************************)
EXTENDS Integers, Sequences, FiniteSets, SequencesExt

NoDefault == "-"
OldName(name) == name \o "__old"
TempLabel(n) == "__rename_tmp_" \o ToString(n) \o "__"
RemovedSentinel(label) == "__removed_label_" \o label \o "__"

-----------------------------------------------------------------------------
(* The plan: what the edited rows mean against the loaded labels.  A row   *)
(* is [orig, label]: orig is "" for a row added since, label "" is blank.  *)

Kept(edited) == SelectSeq(edited, LAMBDA r : r.orig # "")
Added(edited) == SelectSeq(edited, LAMBDA r : r.orig = "" /\ r.label # "")
LabelsOf(rows) == [i \in DOMAIN rows |-> rows[i].label]
FinalLabels(edited) == LabelsOf(SelectSeq(edited, LAMBDA r : r.orig # "" \/ r.label # ""))
RemovedLabels(original, edited) == ToSet(original) \ {r.orig : r \in ToSet(edited)}

KeptRenames(edited) ==
    LET moved == SelectSeq(Kept(edited), LAMBDA r : r.label # r.orig)
    IN  [i \in DOMAIN moved |-> [value |-> moved[i].orig, newValue |-> moved[i].label]]

DiffEnumLabels(original, edited) ==
    LET removed == RemovedLabels(original, edited)
        renames == KeptRenames(edited)
        adds    == LabelsOf(Added(edited))
        Plan(kind) == [kind |-> kind, labels |-> FinalLabels(edited), adds |-> adds, renames |-> renames,
                       live |-> SelectSeq(renames, LAMBDA r : r.newValue \notin removed),
                       colliding |-> SelectSeq(renames, LAMBDA r : r.newValue \in removed)]
    IN  CASE \E r \in ToSet(Kept(edited)) : r.label = "" -> Plan("error")
          [] FinalLabels(edited) = <<>> -> Plan("error")
          [] removed # {} -> Plan("recreate")
          [] renames = <<>> /\ adds = <<>> -> Plan("none")
          [] OTHER -> Plan("alter")

(* Order the renames so that each runs while its target is free, breaking a *)
(* rotation with a temporary label; no order at all is an error.            *)
RECURSIVE OrderFrom(_, _, _, _)
OrderFrom(pending, occupied, temps, most) ==
    LET free == {i \in DOMAIN pending : pending[i].newValue \notin occupied}
        Then(rename, rest, used) ==
            LET tail == OrderFrom(rest, (occupied \ {rename.value}) \cup {rename.newValue}, used, most)
            IN  [tail EXCEPT !.stmts = <<rename>> \o @]
        temp == TempLabel(temps)
    IN  CASE pending = <<>> -> [ok |-> TRUE, stmts |-> <<>>]
          [] free # {} -> LET i == Min(free) IN Then(pending[i], RemoveAt(pending, i), temps)
          [] temps >= most -> [ok |-> FALSE, stmts |-> <<>>]
          [] OTHER -> Then([pending[1] EXCEPT !.newValue = temp],
                           <<[pending[1] EXCEPT !.value = temp]>> \o Tail(pending), temps + 1)

OrderRenamesForExecution(renames, currentLabels) ==
    OrderFrom(renames, ToSet(currentLabels), 0, Len(renames))

-----------------------------------------------------------------------------
(* The statements, as the preview operations build them.                   *)

RenameValue(name, value, newValue) ==
    [op |-> "renameValue", name |-> name, value |-> value, newValue |-> newValue]
AddValue(name, value, position) ==
    [op |-> "addValue", name |-> name, value |-> value, position |-> position]
PreviewRenameEnumValue(name, spec) == RenameValue(name, spec.value, spec.newValue)
PreviewAddEnumValue(name, spec) == AddValue(name, spec.label, spec.position)
CreateEnumType(name, labels) == [op |-> "createEnum", name |-> name, labels |-> labels]
DropType(name) == [op |-> "dropType", name |-> name]

RenameMap(renames, colliding, label) ==
    LET from(s, l) == {s[i].newValue : i \in {j \in DOMAIN s : s[j].value = l}}
    IN  IF from(renames, label) # {} THEN CHOOSE new \in from(renames, label) : TRUE
        ELSE IF \E r \in ToSet(colliding) : r.newValue = label THEN RemovedSentinel(label)
        ELSE label

RewriteDefaultExpr(default, renames, colliding) ==
    IF default = NoDefault THEN NoDefault ELSE RenameMap(renames, colliding, default)

(* The USING expression: the text the old label reads as, or the CASE that *)
(* tells a colliding rename's label from the removed one.                  *)
(* Mutant: no sentinel for the label that was removed. *)
CollisionAwareCaseNoSentinel(label, colliding) ==
    IF \E r \in ToSet(colliding) : r.value = label
    THEN (CHOOSE r \in ToSet(colliding) : r.value = label).newValue ELSE label

CollisionAwareCase(label, colliding) ==
    IF \E r \in ToSet(colliding) : r.value = label
    THEN (CHOOSE r \in ToSet(colliding) : r.value = label).newValue
    ELSE IF \E r \in ToSet(colliding) : r.newValue = label THEN RemovedSentinel(label) ELSE label

MigrateDependentColumn(name, i, dep, renames, colliding) ==
    LET default  == RewriteDefaultExpr(dep.default, renames, colliding)
        helper   == dep.array /\ colliding # <<>>
        If(p, s) == IF p THEN <<s>> ELSE <<>>
    IN  If(helper, [op |-> "createHelper", name |-> OldName(name)])
        \o If(default # NoDefault, [op |-> "dropDefault", dep |-> i])
        \o <<[op |-> "retype", dep |-> i, name |-> name, colliding |-> colliding]>>
        \o If(helper, [op |-> "dropHelper", name |-> OldName(name)])
        \o If(default # NoDefault, [op |-> "setDefault", dep |-> i, default |-> default])

RecreateEnumType(name, labels, deps, renames, colliding) ==
    <<[op |-> "renameType", name |-> name, newName |-> OldName(name)], CreateEnumType(name, labels)>>
    \o FlattenSeq([i \in DOMAIN deps |->
           IF deps[i].type = name THEN MigrateDependentColumn(name, i, deps[i], renames, colliding) ELSE <<>>])
    \o <<DropType(OldName(name))>>

(* The whole script of a Save: renames first, then the adds or the         *)
(* recreate, which reads the dependents when it is previewed.              *)
EnumScript(name, original, plan, deps) ==
    LET order == OrderRenamesForExecution(IF plan.kind = "recreate" THEN plan.live ELSE plan.renames, original)
        renames == [i \in DOMAIN order.stmts |-> PreviewRenameEnumValue(name, order.stmts[i])]
        rest == IF plan.kind = "recreate"
                THEN RecreateEnumType(name, plan.labels, deps, plan.renames, plan.colliding)
                ELSE [i \in DOMAIN plan.adds |-> PreviewAddEnumValue(name, [label |-> plan.adds[i], position |-> <<>>])]
    IN  [ok |-> order.ok, stmts |-> renames \o rest]

-----------------------------------------------------------------------------
(* What PostgreSQL does with them (external).                              *)

Has(db, name) == name \in DOMAIN db.types
Without(f, x) == [y \in DOMAIN f \ {x} |-> f[y]]
RenameKey(f, x, y) == [z \in (DOMAIN f \ {x}) \cup {y} |-> IF z = y THEN f[x] ELSE f[z]]

Placed(labels, value, position) ==
    IF position = <<>> THEN Append(labels, value)
    ELSE LET i == CHOOSE j \in DOMAIN labels : labels[j] = position[2]
         IN  InsertAt(labels, IF position[1] = "before" THEN i ELSE i + 1, value)

EnumStatementRuns(s, db) ==
    CASE s.op = "renameValue" ->
            /\ Has(db, s.name) /\ s.value \in ToSet(db.types[s.name])
            /\ s.newValue \notin ToSet(db.types[s.name])
      [] s.op = "addValue" ->
            /\ Has(db, s.name) /\ s.value \notin ToSet(db.types[s.name])
            /\ s.position # <<>> => s.position[2] \in ToSet(db.types[s.name])
      [] s.op = "createEnum" -> ~Has(db, s.name) /\ IsInjective(s.labels)
      [] s.op = "dropType" ->
            Has(db, s.name) /\ s.name \notin db.fns /\ \A i \in DOMAIN db.deps : db.deps[i].type # s.name
      [] s.op = "renameType" -> Has(db, s.name) /\ ~Has(db, s.newName)
      [] s.op = "createHelper" -> Has(db, s.name)
      [] s.op = "dropHelper" -> s.name \in db.fns
      [] s.op = "dropDefault" -> TRUE
      [] s.op = "retype" ->
            /\ db.deps[s.dep].default = NoDefault
            /\ \A l \in db.deps[s.dep].rows : CollisionAwareCase(l, s.colliding) \in ToSet(db.types[s.name])
      [] s.op = "setDefault" -> s.default \in ToSet(db.types[db.deps[s.dep].type])

RunEnumStatement(s, db) ==
    CASE s.op = "renameValue" ->
            LET New(l) == IF l = s.value THEN s.newValue ELSE l
            IN  [db EXCEPT !.types[s.name] = [i \in DOMAIN @ |-> New(@[i])],
                           !.deps = [i \in DOMAIN @ |-> IF @[i].type # s.name THEN @[i] ELSE
                                [@[i] EXCEPT !.rows = {New(l) : l \in @}, !.default = New(@)]]]
      [] s.op = "addValue" -> [db EXCEPT !.types[s.name] = Placed(@, s.value, s.position)]
      [] s.op = "createEnum" -> [db EXCEPT !.types = (s.name :> s.labels) @@ @]
      [] s.op = "dropType" -> [db EXCEPT !.types = Without(@, s.name)]
      [] s.op = "renameType" ->
            [db EXCEPT !.types = RenameKey(@, s.name, s.newName),
                       !.deps = [i \in DOMAIN @ |-> IF @[i].type # s.name THEN @[i] ELSE
                                                    [@[i] EXCEPT !.type = s.newName]]]
      [] s.op = "createHelper" -> [db EXCEPT !.fns = @ \cup {s.name}]
      [] s.op = "dropHelper" -> [db EXCEPT !.fns = @ \ {s.name}]
      [] s.op = "dropDefault" -> [db EXCEPT !.deps[s.dep].default = NoDefault]
      [] s.op = "retype" ->
            [db EXCEPT !.deps[s.dep] =
                [@ EXCEPT !.type = s.name, !.rows = {CollisionAwareCase(l, s.colliding) : l \in @}]]
      [] s.op = "setDefault" -> [db EXCEPT !.deps[s.dep].default = s.default]

RunEnumScript(script, db) ==
    FoldLeft(LAMBDA d, s : IF ~d.ok THEN d
                           ELSE IF EnumStatementRuns(s, d) THEN RunEnumStatement(s, d)
                           ELSE [d EXCEPT !.ok = FALSE],
             db, script)
=============================================================================
