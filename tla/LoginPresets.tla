----------------------------- MODULE LoginPresets -----------------------------
(***************************************************************************)
(* The login dialog (LoginDialog.ts, LoginForm.ts) and the store of the    *)
(* connections the user saved (presetStore.ts), which other windows of the *)
(* application write as well.                                              *)
(*                                                                         *)
(* The store's calls are chains of resolved promises: the user of this     *)
(* window cannot act between two steps of one, another window can.  A      *)
(* connection (host, port, database, user) is one value, a preset's name a *)
(* number, so that names have an order.                                    *)
(***************************************************************************)
EXTENDS Naturals, Sequences, FiniteSets

CONSTANTS
    Names,        \* names of user presets
    Conns,        \* connections typed, or saved by other windows
    MaxOthers     \* bound: writes by other windows

ASSUME NamesAssumption == Names \subseteq Nat

VARIABLES
    phase,        \* "boot", "login", "calling", "refused", "app" or "dead"
    config,       \* [servers: preset entries of the backend, users: allowed]
    presets,      \* the stored blob: [intact, rows: name -> [conn, isDefault]]
    dialog,       \* [entries, picked, form, button, seed]
    task,         \* the store operation under way
    others        \* how often another window has written the presets

login_vars == <<phase, config, presets, dialog, task, others>>

BlankForm == [conn |-> "localhost", password |-> "empty"]
NoSeed == [conn |-> "no seed", password |-> "empty"]
NoRow == [conn |-> "none", isDefault |-> FALSE]
NoDialog ==
    [entries |-> <<>>, picked |-> 0, form |-> BlankForm, button |-> "disabled",
     seed |-> NoSeed]
NoTask ==
    [op |-> "none", name |-> 0, row |-> NoRow, read |-> FALSE, todo |-> <<>>,
     retried |-> FALSE, seen |-> 0]

-----------------------------------------------------------------------------
(* The store.                                                              *)

OnlyOne(rows) ==
    \A n, m \in DOMAIN rows : rows[n].isDefault /\ rows[m].isDefault => n = m

\* What an earlier page stored, if no other window wrote in between.
StoredPresets(blob) ==
    /\ DOMAIN blob = {"intact", "rows"}
    /\ ~blob.intact => blob.rows = <<>>
    /\ IsFiniteSet(DOMAIN blob.rows) /\ DOMAIN blob.rows \subseteq Nat
    /\ \A n \in DOMAIN blob.rows :
          DOMAIN blob.rows[n] = DOMAIN NoRow /\ blob.rows[n].isDefault \in BOOLEAN
    /\ OnlyOne(blob.rows)

\* The entries of the backend are not the user's.
ServerEntries(entries) ==
    /\ entries \in Seq({entries[i] : i \in DOMAIN entries})
    /\ \A i \in DOMAIN entries : entries[i].origin # "user"

\* _readSafe: a blob that does not parse reads as no presets.
readSafe == IF presets.intact THEN presets.rows ELSE <<>>

Sorted(names) ==
    [i \in 1..Cardinality(names) |->
        CHOOSE n \in names : Cardinality({m \in names : m <= n}) = i]

\* list
UserEntries ==
    LET names == Sorted(DOMAIN readSafe)
    IN  [i \in DOMAIN names |->
            [name |-> names[i], conn |-> readSafe[names[i]].conn,
             isDefault |-> readSafe[names[i]].isDefault, origin |-> "user"]]

loadEntries ==
    config.servers \o (IF config.users THEN UserEntries ELSE <<>>)

Put(n, row) == [kind |-> "put", name |-> n, row |-> row]
Drop(n) == [kind |-> "drop", name |-> n, row |-> NoRow]

ReFlagged_OnlyTheNew(rows, name) ==
    IF name \in DOMAIN rows
    THEN <<Put(name, [rows[name] EXCEPT !.isDefault = TRUE])>> ELSE <<>>

\* setDefault: the rows whose flag is not what it should be (name 0: clear).
ReFlagged(rows, name) ==
    LET flag(n) == n = name
        stale == {n \in DOMAIN rows : rows[n].isDefault # flag(n)}
    IN  IF name # 0 /\ name \notin DOMAIN rows
        THEN <<>>
        ELSE [i \in DOMAIN Sorted(stale) |->
                 LET n == Sorted(stale)[i]
                 IN  Put(n, [rows[n] EXCEPT !.isDefault = flag(n)])]

\* The writes an operation makes, from the rows it reads first.
Writes(t, rows) ==
    CASE t.op = "save" -> <<Put(t.name, t.row)>>
      [] t.op = "remove" -> IF t.name \in DOMAIN rows THEN <<Drop(t.name)>> ELSE <<>>
      [] t.op = "default" -> ReFlagged(rows, IF t.row.isDefault THEN t.name ELSE 0)

\* The proxy parses the blob again and changes one row of it.
Changed(rows, write) ==
    [n \in (DOMAIN rows \ {write.name})
           \cup (IF write.kind = "put" THEN {write.name} ELSE {}) |->
        IF n = write.name THEN write.row ELSE rows[n]]

-----------------------------------------------------------------------------
(* The dialog.                                                             *)

EntryAt(es, k) ==
    IF k \in DOMAIN es THEN es[k]
    ELSE [name |-> 0, conn |-> "none", isDefault |-> FALSE, origin |-> "none"]

findDefaultKey(es) ==
    LET flagged == {i \in DOMAIN es : es[i].isDefault}
    IN  IF flagged = {} THEN 0 ELSE CHOOSE i \in flagged : \A j \in flagged : i <= j

\* The password is always left untouched.
applyPreset(form, entry) == [form EXCEPT !.conn = entry.conn]

\* updateDefaultButton, which a server without user presets does not show.
ButtonFor(es, k) ==
    CASE ~config.users \/ EntryAt(es, k).origin # "user" -> "disabled"
      [] EntryAt(es, k).isDefault -> "unset"
      [] OTHER -> "set"

\* The default is selected on a first opening only.
DefaultKey(es, seed) == IF seed = NoSeed THEN findDefaultKey(es) ELSE 0

Created(seed) ==
    LET es == loadEntries
        k == DefaultKey(es, seed)
        form == IF seed = NoSeed THEN BlankForm ELSE seed
    IN  [entries |-> es, picked |-> k, button |-> ButtonFor(es, k), seed |-> seed,
         form |-> IF k = 0 THEN form ELSE applyPreset(form, es[k])]

\* selectUserPreset
KeyOf(es, name) ==
    LET keys == {i \in DOMAIN es : es[i].origin = "user" /\ es[i].name = name}
    IN  IF keys = {} THEN 0 ELSE CHOOSE i \in keys : TRUE

AtRest == phase = "login" /\ task = NoTask

Begin(op, name, row) ==
    /\ AtRest
    /\ config.users
    /\ task' = [NoTask EXCEPT !.op = op, !.name = name, !.row = row, !.seen = others]
    /\ UNCHANGED <<phase, config, presets, dialog, others>>

\* onPresetSelected
Pick(k) ==
    /\ AtRest
    /\ k \in 0..Len(dialog.entries)
    /\ k # dialog.picked
    /\ dialog' = [dialog EXCEPT
          !.picked = k,
          !.form = IF k = 0 THEN @ ELSE applyPreset(@, dialog.entries[k]),
          !.button = ButtonFor(dialog.entries, k)]
    /\ UNCHANGED <<phase, config, presets, task, others>>

Type(form) ==
    /\ AtRest
    /\ form # dialog.form
    /\ dialog' = [dialog EXCEPT !.form = form]
    /\ UNCHANGED <<phase, config, presets, task, others>>

\* savePreset: only a preset saved under its own name stays the default.
WasDefault(name) ==
    \E i \in DOMAIN dialog.entries :
        LET e == dialog.entries[i]
        IN  e.origin = "user" /\ e.name = name /\ e.isDefault

SavePreset(name) ==
    Begin("save", name,
          [conn |-> dialog.form.conn, isDefault |-> WasDefault(name)])

DeleteSelected ==
    LET e == EntryAt(dialog.entries, dialog.picked)
    IN  e.origin = "user" /\ Begin("remove", e.name, NoRow)

ToggleDefault ==
    LET e == EntryAt(dialog.entries, dialog.picked)
    IN  /\ e.origin = "user"
        /\ Begin("default", e.name, [NoRow EXCEPT !.isDefault = ~e.isDefault])

TaskReads ==
    /\ phase = "login"
    /\ task # NoTask
    /\ ~task.read
    /\ task' = [task EXCEPT !.read = TRUE, !.todo = Writes(task, readSafe)]
    /\ UNCHANGED <<phase, config, presets, dialog, others>>

\* What an update does to a row that is gone is the library's: it adds the
\* row again or does nothing.
TaskWrites ==
    /\ phase = "login"
    /\ task.todo # <<>>
    /\ presets.intact
    /\ LET write == Head(task.todo)
           lost == task.op = "default" /\ write.name \notin DOMAIN presets.rows
       IN  \/ presets' = [presets EXCEPT !.rows = Changed(@, write)]
           \/ lost /\ UNCHANGED presets
    /\ task' = [task EXCEPT !.todo = Tail(@)]
    /\ UNCHANGED <<phase, config, dialog, others>>

\* Mutant: whatever a write throws, a full storage too, is taken for a blob
\* that does not parse.
TaskRepairs_AnyFailure ==
    /\ phase = "login"
    /\ task.todo # <<>>
    /\ ~task.retried
    /\ presets' = [intact |-> TRUE, rows |-> <<>>]
    /\ task' = [task EXCEPT !.read = FALSE, !.todo = <<>>, !.retried = TRUE]
    /\ UNCHANGED <<phase, config, dialog, others>>

\* _withRepair: a write on a blob that does not parse throws; it is discarded
\* and the operation starts again.
TaskRepairs ==
    /\ phase = "login"
    /\ task.todo # <<>>
    /\ ~presets.intact
    /\ ~task.retried
    /\ presets' = [intact |-> TRUE, rows |-> <<>>]
    /\ task' = [task EXCEPT !.read = FALSE, !.todo = <<>>, !.retried = TRUE]
    /\ UNCHANGED <<phase, config, dialog, others>>

\* refreshPresets, and the selection of the row saved or flagged.  Whether
\* the picker's new items keep the old key is the library's.
TaskEnds ==
    /\ phase = "login"
    /\ task.read
    /\ task.todo = <<>>
    /\ LET es == loadEntries
           found == IF task.op = "remove" THEN 0 ELSE KeyOf(es, task.name)
       IN  \E kept \in {0, dialog.picked} :
               dialog' = [dialog EXCEPT
                  !.entries = es,
                  !.picked = IF found # 0 THEN found ELSE kept,
                  !.button = IF found # 0 THEN ButtonFor(es, found) ELSE @]
    /\ task' = NoTask
    /\ UNCHANGED <<phase, config, presets, others>>

\* Another window of the application saves or removes a preset.
OtherWindow ==
    /\ phase = "login"
    /\ others < MaxOthers
    /\ presets.intact
    /\ \E n \in Names, conn \in Conns, isDefault \in BOOLEAN :
           \E write \in {Drop(n), Put(n, [conn |-> conn, isDefault |-> isDefault])} :
               presets' = [presets EXCEPT !.rows = Changed(@, write)]
    /\ others' = others + 1
    /\ UNCHANGED <<phase, config, dialog, task>>

-----------------------------------------------------------------------------
(* showLoginDialog                                                         *)

OpenLogin ==
    /\ dialog' = Created(NoSeed)
    /\ phase' = "login"
    /\ UNCHANGED <<config, presets, task, others>>

SignIn ==
    /\ AtRest
    /\ phase' = "calling"
    /\ UNCHANGED <<config, presets, dialog, task, others>>

LoginFails ==
    /\ phase = "calling"
    /\ phase' = "refused"
    /\ dialog' = [dialog EXCEPT !.seed = dialog.form]
    /\ UNCHANGED <<config, presets, task, others>>

\* The error is acknowledged and the dialog built anew.
Reopen ==
    /\ phase = "refused"
    /\ phase' = "login"
    /\ dialog' = Created(dialog.seed)
    /\ UNCHANGED <<config, presets, task, others>>

\* The dialog is gone; the shell is built by the composing module.
LoginSucceeds ==
    /\ phase = "calling"
    /\ phase' = "app"
    /\ dialog' = NoDialog
    /\ UNCHANGED <<config, presets, task, others>>

LoginNext ==
    \/ \E k \in 0..Cardinality(Names) + 1 : Pick(k)
    \/ \E conn \in Conns, password \in {"empty", "typed"} :
           Type([conn |-> conn, password |-> password])
    \/ \E name \in Names : SavePreset(name)
    \/ DeleteSelected \/ ToggleDefault
    \/ TaskReads \/ TaskWrites \/ TaskRepairs \/ TaskEnds
    \/ OtherWindow
    \/ SignIn \/ LoginFails \/ Reopen

-----------------------------------------------------------------------------
(* Properties.                                                             *)

\* Without another window at most one preset is the default once an operation
\* has ended (presetStore.setDefault, LoginDialog.savePreset).
OneDefault ==
    task = NoTask /\ others = 0 => OnlyOne(presets.rows)

\* No operation of this window loses a preset the user did not delete, even
\* when another window writes in its middle; none changes a connection but
\* the one saved, unless another window wrote in its middle; and OneDefault
\* holds after each (presetStore.save, remove, setDefault, _withRepair).
Keeps(n) ==
    IF n \in DOMAIN presets'.rows
    THEN \/ presets'.rows[n].conn = presets.rows[n].conn
         \/ task.op = "save" /\ task.name = n
         \/ task.seen # others
    ELSE task.op = "remove" /\ task.name = n

PresetsKept ==
    [][/\ OneDefault'
       /\ others' = others /\ phase \notin {"app", "dead"} =>
              \A n \in DOMAIN presets.rows : Keeps(n)]_login_vars

=============================================================================
