----------------------------- MODULE Navigator -----------------------------
(***************************************************************************)
(* The navigator tree and the DDL that keeps it in step with the database  *)
(* (frontend/src/navigator/NavigatorTree.ts, navigatorRefresh.ts,          *)
(* shell/explorerTree.ts, data/treeExpansion.ts, data/loadSignal.ts).      *)
(*                                                                         *)
(* The tree lists the schemas and, under a schema once it is loaded, its   *)
(* objects by category.  It is filled by full refreshes (the Refresh tool, *)
(* which replaces every node and then re-expands the saved paths), by lazy *)
(* loads when a schema is expanded, and by targeted refreshes after a DDL, *)
(* which merge fresh listings into the nodes that are there.  Every read   *)
(* is answered at one moment and lands at a later one.                     *)
(*                                                                         *)
(* A node object's own state is kept in its record: `open` for a group,    *)
(* `sel` for a leaf.  A node replaced by a fresh one loses it.             *)
(***************************************************************************)
EXTENDS Launchers

CONSTANT Worlds     \* where to start and how far to go: see Init

VARIABLES
    catalog,    \* the database
    tree,       \* listed schema -> [open, loaded, kids]; kids: category -> [open, leaves]
    expanding,  \* schemas being loaded by an expansion -> the read
    refreshes,  \* the full refreshes under way, by slot
    restoring,  \* TreeExpansionPersistence._restoring
    saved,      \* the stored expansion: a set of paths, or NeverSaved
    scopes,     \* the targeted refreshes under way, by slot
    dialog,     \* the DDL under way, or NoDialog
    tabs,       \* the panel ids of the open object tabs
    left,       \* what the world still allows
    overtaken,  \* ghost: schemas (Root: the list) shown out of date for a reason the code accepts
    wanted      \* ghost: the paths the user has open, and every refresh that landed can know of

nodes == <<tree, expanding, restoring, saved, wanted>>
vars == <<nodes, catalog, refreshes, scopes, dialog, tabs, left, overtaken>>

NoDialog == [stage |-> "none"]
Idle == [stage |-> "idle"]
NeverSaved == {<<"never">>}
Root == Blank

-----------------------------------------------------------------------------
(* Reading.  One listing of a schema is several requests: the indexes and  *)
(* the rest are answered apart from one another.                           *)

Listed == Relations \cup {"function", "type"}
Parts == {"objects", "indexes"}
ListingPart(c, s, part) ==
    {[kind |-> o.kind, name |-> o.name, sig |-> o.sig,
      label |-> IF o.kind = "index" THEN (CHOOSE t \in c.objects : t.oid = o.on).name ELSE Blank]
        : o \in {o \in c.objects : o.schema = s /\ o.kind \in Listed /\ (o.kind = "index") = (part = "indexes")}}
Listing(c, s) == UNION {ListingPart(c, s, part) : part \in Parts}

Unanswered == [part \in Parts |-> <<>>]
Answered(read) == \A part \in Parts : read[part] # <<>>
Answer(read, s, part) == [read EXCEPT ![part] = <<ListingPart(catalog, s, part)>>]
Result(read) == UNION {read[part][1] : part \in Parts}

-----------------------------------------------------------------------------
(* Nodes.                                                                  *)

SchemaNode == [open |-> FALSE, loaded |-> FALSE, kids |-> <<>>]
Leaf(o) == o @@ [sel |-> FALSE]
CategoryNodes(listing) ==
    [k \in {o.kind : o \in listing} |-> [open |-> FALSE, leaves |-> {Leaf(o) : o \in {o \in listing : o.kind = k}}]]
Loaded(node, listing) == [node EXCEPT !.loaded = TRUE, !.kids = CategoryNodes(listing)]
ShownIn(node) == UNION {{[kind |-> l.kind, name |-> l.name, sig |-> l.sig, label |-> l.label]
                            : l \in node.kids[k].leaves} : k \in DOMAIN node.kids}

NavigatorNodeIdentity(leaf) == <<leaf.kind, leaf.name, leaf.sig>>

ReconcileNodes(existing, fresh) ==
    LET Twin(f) == {e \in existing : NavigatorNodeIdentity(e) = NavigatorNodeIdentity(f)}
    IN  {IF Twin(f) = {} THEN f ELSE [f EXCEPT !.sel = (CHOOSE e \in Twin(f) : TRUE).sel] : f \in fresh}
MergeSchemaChildren(node, listing) ==
    LET fresh == CategoryNodes(listing)
        kept(k) == [node.kids[k] EXCEPT !.leaves = ReconcileNodes(@, fresh[k].leaves)]
    IN  [node EXCEPT !.kids = [k \in DOMAIN fresh |-> IF k \in DOMAIN node.kids THEN kept(k) ELSE fresh[k]]]
ReconcileRoots(names) == [s \in names |-> IF s \in DOMAIN tree THEN tree[s] ELSE SchemaNode]

LoadedSchemaNames(t) == {s \in DOMAIN t : t[s].loaded}
CollectExpandedPaths(t) ==
    LET opened == {s \in DOMAIN t : t[s].open}
    IN  {<<s>> : s \in opened}
        \cup UNION {{<<s, k>> : k \in {k \in DOMAIN t[s].kids : t[s].kids[k].open}} : s \in opened}
Exists(t, path) == path[1] \in DOMAIN t /\ (Len(path) = 2 /\ t[path[1]].loaded => path[2] \in DOMAIN t[path[1]].kids)

Opened(t, path) ==
    IF Len(path) = 1 THEN [t EXCEPT ![path[1]].open = TRUE]
    ELSE [t EXCEPT ![path[1]].open = TRUE, ![path[1]].kids[path[2]].open = TRUE]
Without(f, drop) == [x \in DOMAIN f \ drop |-> f[x]]

(* The tree's "expand" and "collapse" listener, and refreshScope's last    *)
(* call.                                                                   *)
Save(t) == saved' = IF restoring THEN saved ELSE CollectExpandedPaths(t)

-----------------------------------------------------------------------------
Init ==
    \E w \in Worlds :
        /\ catalog = w.catalog
        /\ tree = <<>>
        /\ expanding = <<>>
        /\ refreshes = [i \in 1..2 |-> IF i = 1 THEN [stage |-> "asked"] ELSE Idle]
        /\ restoring = FALSE
        /\ saved = w.saved
        /\ scopes = [i \in 1..2 |-> Idle]
        /\ dialog = NoDialog
        /\ tabs = {TabOf(o) : o \in {o \in w.catalog.objects : o.kind \in Listed}}
        /\ left = [offers |-> w.offers, edits |-> w.edits, ddl |-> w.ddl, refreshes |-> w.refreshes,
                   touches |-> w.touches, failures |-> w.failures]
        /\ overtaken = {}
        /\ wanted = IF w.saved = NeverSaved THEN {} ELSE w.saved

Armed == \E i \in DOMAIN refreshes : refreshes[i] # Idle
Modal == dialog.stage \in {"shown", "committed"} /\ ~dialog.launch.direct
Spend(budget) == left[budget] > 0 /\ left' = [left EXCEPT ![budget] = @ - 1]

(* A continuation that has its turn runs before any other event.           *)
Resumes(i) == refreshes[i].stage = "restoring" /\ refreshes[i].at = <<>>
Continues(j) == scopes[j].stage = "waiting" /\ ~Armed
NothingToContinue == ~(\E i \in DOMAIN refreshes : Resumes(i)) /\ ~(\E j \in DOMAIN scopes : Continues(j))

-----------------------------------------------------------------------------
(* Expanding a schema: its own load, shared by all who ask for it.         *)

Load(s) == expanding @@ (s :> [parts |-> Unanswered, late |-> FALSE])

(* A restore awaits the load of the first node of the path it is at; when  *)
(* it has its turn it is at none.  Once the load has come it goes on with  *)
(* the path; when it failed, with the next one, this one to be retried.  A *)
(* node that was dropped meanwhile is loaded all the same: then the path   *)
(* is done with, or to be retried, and the tree none the wiser.            *)
Restoring(paths) == [stage |-> "restoring", todo |-> paths, at |-> <<>>, retry |-> {}, dropped |-> FALSE]
Awaits(r, s) == r.stage = "restoring" /\ r.at # <<>> /\ ~r.dropped /\ r.at[1] = s
PathDone(r) == [r EXCEPT !.at = <<>>, !.dropped = FALSE, !.todo = @ \ {r.at}]
PathFailed(r) == [PathDone(r) EXCEPT !.retry = @ \cup {r.at}]
Resumed(s) == [i \in DOMAIN refreshes |-> IF Awaits(refreshes[i], s) THEN [refreshes[i] EXCEPT !.at = <<>>] ELSE refreshes[i]]
Refused(s) == [i \in DOMAIN refreshes |-> IF Awaits(refreshes[i], s) THEN PathFailed(refreshes[i]) ELSE refreshes[i]]
Dropped(gone) ==
    [i \in DOMAIN refreshes |-> IF \E s \in gone : Awaits(refreshes[i], s) THEN [refreshes[i] EXCEPT !.dropped = TRUE]
                               ELSE refreshes[i]]

AbandonedLoadEnds(i) ==
    /\ refreshes[i].stage = "restoring" /\ refreshes[i].dropped
    /\ \E outcome \in {PathDone(refreshes[i]), PathFailed(refreshes[i])} : refreshes' = [refreshes EXCEPT ![i] = outcome]
    /\ UNCHANGED <<nodes, catalog, scopes, dialog, tabs, left, overtaken>>

AnswerExpansion(s, part) ==
    /\ s \in DOMAIN expanding /\ expanding[s].parts[part] = <<>>
    /\ expanding' = [expanding EXCEPT ![s].parts = Answer(@, s, part)]
    /\ UNCHANGED <<catalog, tree, refreshes, restoring, saved, scopes, dialog, tabs, left, overtaken, wanted>>

LandExpansion(s) ==
    /\ s \in DOMAIN expanding /\ Answered(expanding[s].parts)
    /\ tree' = [tree EXCEPT ![s] = [Loaded(@, Result(expanding[s].parts)) EXCEPT !.open = TRUE]]
    /\ overtaken' = IF expanding[s].late THEN overtaken \cup {s} ELSE overtaken
    /\ expanding' = Without(expanding, {s})
    /\ refreshes' = Resumed(s)
    /\ Save(tree')
    /\ wanted' = wanted \cup {<<s>>}
    /\ UNCHANGED <<catalog, restoring, scopes, dialog, tabs, left>>

FailExpansion(s) ==
    /\ s \in DOMAIN expanding
    /\ Spend("failures")
    /\ expanding' = Without(expanding, {s})
    /\ refreshes' = Refused(s)
    /\ wanted' = {p \in wanted : p[1] # s}
    /\ UNCHANGED <<catalog, tree, restoring, saved, scopes, dialog, tabs, overtaken>>

-----------------------------------------------------------------------------
(* The full refresh: arm, read the schemas, replace the nodes, restore the *)
(* saved expansion one path after the other, settle.                       *)

ClickRefresh(i) ==
    /\ ~Modal /\ refreshes[i] = Idle
    /\ Spend("refreshes")
    /\ refreshes' = [refreshes EXCEPT ![i] = [stage |-> "asked"]]
    /\ UNCHANGED <<nodes, catalog, scopes, dialog, tabs, overtaken>>

AnswerRefresh(i) ==
    /\ refreshes[i].stage = "asked"
    /\ refreshes' = [refreshes EXCEPT ![i] = [stage |-> "answered", names |-> catalog.schemas]]
    /\ UNCHANGED <<nodes, catalog, scopes, dialog, tabs, left, overtaken>>

(* Mutant: the path a rejected read takes skips the settling. *)
FailRefreshUnsettled(i) ==
    /\ refreshes[i].stage = "asked"
    /\ Spend("failures")
    /\ refreshes' = [refreshes EXCEPT ![i] = [stage |-> "failed"]]
    /\ IF DOMAIN tree = {} THEN overtaken' = overtaken \cup {Root} /\ wanted' = {} ELSE UNCHANGED <<overtaken, wanted>>
    /\ UNCHANGED <<catalog, tree, expanding, restoring, saved, scopes, dialog, tabs>>

FailRefresh(i) ==
    /\ refreshes[i].stage = "asked"
    /\ Spend("failures")
    /\ refreshes' = [refreshes EXCEPT ![i] = Idle]
    /\ IF DOMAIN tree = {} THEN overtaken' = overtaken \cup {Root} /\ wanted' = {} ELSE UNCHANGED <<overtaken, wanted>>
    /\ UNCHANGED <<catalog, tree, expanding, restoring, saved, scopes, dialog, tabs>>

(* What is open may be missing from what is stored while a restore is      *)
(* under way: nothing is stored of what the user opens meanwhile, and the  *)
(* first of two restores to end stores what the other has opened so far.   *)
RestoreUnderWay == \E i \in DOMAIN refreshes : refreshes[i].stage = "restoring"

LandRefresh(i) ==
    /\ refreshes[i].stage = "answered"
    /\ tree' = [s \in refreshes[i].names |-> SchemaNode]
    /\ overtaken' = {}
    /\ wanted' = {p \in wanted : /\ p[1] \in refreshes[i].names /\ (Len(p) = 2 => <<p[1]>> \in wanted)
                                 /\ RestoreUnderWay => p \in saved}
    /\ IF saved = NeverSaved
       THEN \* the default expansion of a lone schema, which is not awaited
            /\ expanding' = IF \E s \in refreshes[i].names : refreshes[i].names = {s}
                            THEN [s \in refreshes[i].names |-> [parts |-> Unanswered, late |-> FALSE]] ELSE <<>>
            /\ refreshes' = [Dropped(DOMAIN expanding) EXCEPT ![i] = Idle]
            /\ UNCHANGED restoring
       ELSE /\ expanding' = <<>>
            /\ refreshes' = [Dropped(DOMAIN expanding) EXCEPT ![i] = Restoring(saved)]
            /\ restoring' = TRUE
    /\ UNCHANGED <<catalog, saved, scopes, dialog, tabs, left>>

(* Mutant: the first segment of a path that is still to be loaded counts   *)
(* as missing.                                                             *)
FirstLoaded(path) == path[1] \in DOMAIN tree /\ tree[path[1]].loaded
RestoreNextLoadedOnly(i) ==
    /\ Resumes(i) /\ refreshes[i].todo # {}
    /\ LET path == CHOOSE p \in refreshes[i].todo : \A q \in refreshes[i].todo : Len(p) <= Len(q)
       IN  /\ tree' = IF FirstLoaded(path) /\ Exists(tree, path) THEN Opened(tree, path) ELSE tree
           /\ refreshes' = [refreshes EXCEPT ![i].todo = @ \ {path}]
           /\ UNCHANGED expanding
    /\ UNCHANGED <<catalog, restoring, saved, scopes, dialog, tabs, left, overtaken, wanted>>

(* _expandPath.  Paths are walked one after the other, roots first; the    *)
(* order among the others decides nothing.                                 *)
RestoreNext(i) ==
    /\ Resumes(i) /\ refreshes[i].todo # {}
    /\ LET path == CHOOSE p \in refreshes[i].todo : \A q \in refreshes[i].todo : Len(p) <= Len(q)
           s    == path[1]
           awaits == s \in DOMAIN tree /\ ~tree[s].loaded
       IN  /\ refreshes' = [refreshes EXCEPT ![i] = IF awaits THEN [@ EXCEPT !.at = path]
                                                    ELSE [@ EXCEPT !.todo = @ \ {path}]]
           /\ expanding' = IF awaits /\ s \notin DOMAIN expanding THEN Load(s) ELSE expanding
           /\ tree' = CASE awaits \/ s \notin DOMAIN tree -> tree
                        [] Exists(tree, path) -> Opened(tree, path)
                        [] OTHER -> Opened(tree, <<s>>)
           /\ IF tree' = tree THEN UNCHANGED saved ELSE Save(tree')
    /\ UNCHANGED <<catalog, restoring, scopes, dialog, tabs, left, overtaken, wanted>>

(* The closing write of a restore, and the settling of its refresh. *)
EndRestore(i) ==
    /\ Resumes(i) /\ refreshes[i].todo = {}
    /\ restoring' = FALSE
    /\ saved' = CollectExpandedPaths(tree) \cup refreshes[i].retry
    /\ wanted' = wanted \cup CollectExpandedPaths(tree)
    /\ refreshes' = [refreshes EXCEPT ![i] = Idle]
    /\ UNCHANGED <<catalog, tree, expanding, scopes, dialog, tabs, left, overtaken>>

-----------------------------------------------------------------------------
(* The user, while no dialog is in the way.                                *)

ToggleSchema(s) ==
    /\ ~Modal /\ s \in DOMAIN tree /\ s \notin DOMAIN expanding
    /\ Spend("touches")
    /\ IF tree[s].loaded
       THEN /\ tree' = [tree EXCEPT ![s].open = ~@]
            /\ Save(tree')
            /\ wanted' = IF tree[s].open THEN wanted \ {<<s>>} ELSE wanted \cup {<<s>>}
            /\ UNCHANGED expanding
       ELSE /\ expanding' = Load(s)
            /\ UNCHANGED <<tree, saved, wanted>>
    /\ UNCHANGED <<catalog, refreshes, restoring, scopes, dialog, tabs, overtaken>>

ToggleCategory(s, k) ==
    /\ ~Modal /\ s \in DOMAIN tree /\ tree[s].open /\ k \in DOMAIN tree[s].kids
    /\ Spend("touches")
    /\ tree' = [tree EXCEPT ![s].kids[k].open = ~@]
    /\ Save(tree')
    /\ wanted' = IF tree[s].kids[k].open THEN wanted \ {<<s, k>>} ELSE wanted \cup {<<s, k>>}
    /\ UNCHANGED <<catalog, expanding, refreshes, restoring, scopes, dialog, tabs, overtaken>>

Select(s, k, leaf) ==
    /\ ~Modal /\ s \in DOMAIN tree /\ <<s, k>> \in CollectExpandedPaths(tree) /\ leaf \in tree[s].kids[k].leaves
    /\ \A r \in DOMAIN tree : \A l \in DOMAIN tree[r].kids : \A x \in tree[r].kids[l].leaves : ~x.sel
    /\ Spend("touches")
    /\ tree' = [tree EXCEPT ![s].kids[k].leaves = (@ \ {leaf}) \cup {[leaf EXCEPT !.sel = TRUE]}]
    /\ UNCHANGED <<catalog, expanding, refreshes, restoring, saved, wanted, scopes, dialog, tabs, overtaken>>

-----------------------------------------------------------------------------
(* The targeted refresh.  Of several reads of one thing only the newest    *)
(* is applied: starting one leaves the earlier ones no longer `newest`.    *)

Finished(scope) == IF scope.stage = "reading" /\ scope.reads = <<>> THEN Idle ELSE scope

SchemaReads(j, names) ==
    LET read == {s \in names : s \in DOMAIN tree /\ tree[s].loaded}
    IN  [k \in DOMAIN scopes |->
            IF k = j THEN Finished([stage |-> "reading",
                                    reads |-> [s \in read |-> [parts |-> Unanswered, newest |-> TRUE]]])
            ELSE IF scopes[k].stage = "reading"
            THEN [scopes[k] EXCEPT !.reads = [s \in DOMAIN @ |-> [@[s] EXCEPT !.newest = @ /\ s \notin read]]]
            ELSE scopes[k]]
ReadSchemas(j, wantedSchemas) ==
    LET names == IF wantedSchemas = {All} THEN LoadedSchemaNames(tree') ELSE wantedSchemas
        read  == {s \in names : s \in DOMAIN tree' /\ tree'[s].loaded}
    IN  /\ scopes' = SchemaReads(j, read)
        /\ IF read = {} THEN Save(tree') ELSE UNCHANGED saved

RefreshScope(j) ==
    /\ Continues(j)
    /\ UNCHANGED tree
    /\ IF scopes[j].list
       THEN /\ scopes' = [k \in DOMAIN scopes |->
                    CASE k = j -> [stage |-> "listing", schemas |-> scopes[j].schemas, names |-> <<>>, newest |-> TRUE]
                      [] scopes[k].stage = "listing" -> [scopes[k] EXCEPT !.newest = FALSE]
                      [] OTHER -> scopes[k]]
            /\ UNCHANGED saved
       ELSE ReadSchemas(j, scopes[j].schemas)
    /\ UNCHANGED <<catalog, expanding, refreshes, restoring, dialog, tabs, left, overtaken, wanted>>

AnswerSchemaList(j) ==
    /\ scopes[j].stage = "listing" /\ scopes[j].names = <<>>
    /\ scopes' = [scopes EXCEPT ![j].names = <<catalog.schemas>>]
    /\ UNCHANGED <<nodes, catalog, refreshes, dialog, tabs, left, overtaken>>

(* reconcileSchemaList's end, and the reads of the schemas it is followed  *)
(* by.  A schema that is gone takes its node along, and the load of it.    *)
ReconcileSchemaList(j) ==
    /\ scopes[j].stage = "listing" /\ scopes[j].names # <<>>
    /\ LET names == scopes[j].names[1]
           gone  == IF scopes[j].newest THEN DOMAIN tree \ names ELSE {}
       IN  /\ tree' = IF scopes[j].newest THEN ReconcileRoots(names) ELSE tree
           /\ overtaken' = IF scopes[j].newest /\ names = catalog.schemas THEN overtaken \ ({Root} \cup gone)
                           ELSE overtaken \ gone
           /\ expanding' = Without(expanding, gone)
           /\ refreshes' = Dropped(gone)
           /\ wanted' = {p \in wanted : p[1] \notin gone}
    /\ ReadSchemas(j, scopes[j].schemas)
    /\ UNCHANGED <<catalog, restoring, dialog, tabs, left>>

FailSchemaList(j) ==
    /\ scopes[j].stage = "listing"
    /\ Spend("failures")
    /\ overtaken' = IF scopes[j].newest THEN overtaken \cup {Root} ELSE overtaken
    /\ UNCHANGED tree
    /\ ReadSchemas(j, scopes[j].schemas)
    /\ UNCHANGED <<catalog, expanding, refreshes, restoring, dialog, tabs, wanted>>

AnswerSchema(j, s, part) ==
    /\ scopes[j].stage = "reading" /\ s \in DOMAIN scopes[j].reads /\ scopes[j].reads[s].parts[part] = <<>>
    /\ scopes' = [scopes EXCEPT ![j].reads[s].parts = Answer(@, s, part)]
    /\ UNCHANGED <<nodes, catalog, refreshes, dialog, tabs, left, overtaken>>

ReadDone(j, s) ==
    /\ scopes' = [scopes EXCEPT ![j] = Finished([@ EXCEPT !.reads = Without(@, {s})])]
    /\ IF DOMAIN scopes[j].reads = {s} THEN Save(tree') ELSE UNCHANGED saved

ReconcileSchema(j, s) ==
    /\ scopes[j].stage = "reading" /\ s \in DOMAIN scopes[j].reads /\ Answered(scopes[j].reads[s].parts)
    /\ LET listing == Result(scopes[j].reads[s].parts)
           applies == scopes[j].reads[s].newest /\ s \in DOMAIN tree /\ tree[s].loaded
       IN  /\ tree' = IF applies THEN [tree EXCEPT ![s] = MergeSchemaChildren(@, listing)] ELSE tree
           /\ overtaken' = IF applies /\ listing = Listing(catalog, s) THEN overtaken \ {s} ELSE overtaken
    /\ wanted' = {p \in wanted : p[1] = s => Exists(tree', p)}
    /\ ReadDone(j, s)
    /\ UNCHANGED <<catalog, expanding, refreshes, restoring, dialog, tabs, left>>

FailSchema(j, s) ==
    /\ scopes[j].stage = "reading" /\ s \in DOMAIN scopes[j].reads
    /\ Spend("failures")
    /\ overtaken' = IF scopes[j].reads[s].newest THEN overtaken \cup {s} ELSE overtaken
    /\ UNCHANGED tree
    /\ ReadDone(j, s)
    /\ UNCHANGED <<catalog, expanding, refreshes, restoring, wanted, dialog, tabs>>

-----------------------------------------------------------------------------
(* One DDL: launched from a menu or a tab, previewed, executed.  The dialog *)
(* is modal once the SQL is there; a draft's form can be changed before.   *)

Ref(s, leaf) == [kind |-> leaf.kind, schema |-> s, name |-> leaf.name, sig |-> leaf.sig]
ConstraintsOf(ref) ==
    {o.name : o \in {o \in catalog.objects : /\ o.kind = "constraint" \/ o.key
                                             /\ \E t \in Holders(catalog, "table", ref.schema, ref.name, Blank) : o.on = t.oid}}
IndexesOf(s) == {l.name : l \in {l \in ShownIn(tree[s]) : l.kind = "index"}}
ItemsOn(ref) ==
    ObjectMenuItems(ref) \cup DefinitionTabItems(ref)
    \cup IF ref.kind = "table"
         THEN StructureTabItems(ref, ConstraintsOf(ref), IndexesOf(ref.schema)) \cup CreateSuggestedIndex(ref)
         ELSE {}
Offered ==
    {l \in CreateSchemaLaunch \cup
            UNION {SchemaMenuItems(s) \cup UNION {ItemsOn(Ref(s, leaf)) : leaf \in ShownIn(tree[s])} : s \in DOMAIN tree} :
        <<l.change.action, l.change.kind>> \in left.offers}

LaunchDialog ==
    /\ dialog = NoDialog
    /\ Spend("ddl")
    /\ \E l \in Offered : dialog' = [stage |-> "generating", launch |-> l, target |-> l.change.schema]
    /\ UNCHANGED <<nodes, catalog, refreshes, scopes, tabs, overtaken>>

(* A view's form reads its schema again on success. *)
ChangeFormSchema(s) ==
    /\ dialog.stage = "generating" /\ dialog.launch.draft
    /\ dialog.launch.change.kind \in {"view", "materializedView"}
    /\ s \in DOMAIN tree \ {dialog.target}
    /\ Spend("touches")
    /\ dialog' = [dialog EXCEPT !.target = s]
    /\ UNCHANGED <<nodes, catalog, refreshes, scopes, tabs, overtaken>>

PreviewArrives ==
    /\ dialog.stage = "generating"
    /\ dialog' = IF \E i \in DOMAIN dialog.launch.stmts : dialog.launch.stmts[i] = Invalid THEN NoDialog
                 ELSE [dialog EXCEPT !.stage = "shown"]
    /\ UNCHANGED <<nodes, catalog, refreshes, scopes, tabs, left, overtaken>>

Cancel ==
    /\ dialog.stage = "shown" /\ ~dialog.launch.direct
    /\ dialog' = NoDialog
    /\ UNCHANGED <<nodes, catalog, refreshes, scopes, tabs, left, overtaken>>

(* A definition whose Save the database refuses leaves its tab as it was.  *)
SaveRefused ==
    /\ dialog.stage = "shown" /\ dialog.launch.direct /\ RunsWhole(catalog, dialog.launch.stmts) = {}
    /\ dialog' = NoDialog
    /\ UNCHANGED <<nodes, catalog, refreshes, scopes, tabs, left, overtaken>>

(* The statements as previewed, or the user's own in their place.  A       *)
(* constraint dropped with CASCADE as previewed takes a view of another    *)
(* schema along, which the launcher does not tell the navigator.           *)
Untold(after, stmts) ==
    IF stmts = dialog.launch.stmts /\ \E i \in DOMAIN stmts : /\ stmts[i].op = "drop" /\ stmts[i].kind = "constraint"
                                                            /\ stmts[i].cascade
    THEN {s \in catalog.schemas \ {dialog.target} : Listing(after, s) # Listing(catalog, s)}
    ELSE {}
Execute(stmts) ==
    /\ dialog.stage = "shown"
    /\ \/ stmts = dialog.launch.stmts
       \/ left.edits /\ ~dialog.launch.direct /\ stmts \in {l.stmts : l \in Offered}
    /\ \E after \in RunsWhole(catalog, stmts) :
          /\ catalog' = after
          /\ overtaken' = overtaken \cup Untold(after, stmts)
          /\ expanding' = [s \in DOMAIN expanding |->
                [expanding[s] EXCEPT !.late = @ \/ \E part \in Parts : /\ expanding[s].parts[part] # <<>>
                                                                   /\ ListingPart(after, s, part) # expanding[s].parts[part][1]]]
    /\ dialog' = [dialog EXCEPT !.stage = "committed", !.launch.edited = @ \/ stmts # dialog.launch.stmts]
    /\ UNCHANGED <<tree, refreshes, restoring, saved, wanted, scopes, tabs, left>>

(* onSuccess: close what is gone, tell the navigator. *)
Succeed(j) ==
    /\ dialog.stage = "committed" /\ scopes[j] = Idle /\ \A k \in 1..(j - 1) : scopes[k] # Idle
    /\ LET change == [dialog.launch.change EXCEPT !.schema = dialog.target]
           scope  == NavigatorScopeFor(change, dialog.launch.edited)
       IN  /\ scopes' = IF change.action = "none" THEN scopes
                        ELSE [scopes EXCEPT ![j] = [stage |-> "waiting", list |-> scope.list, schemas |-> scope.schemas]]
           /\ overtaken' = IF dialog.target = dialog.launch.change.schema \/ dialog.launch.edited THEN overtaken
                           ELSE overtaken \cup {dialog.launch.change.schema}
    /\ tabs' = tabs \ dialog.launch.closes
    /\ dialog' = NoDialog
    /\ UNCHANGED <<nodes, catalog, refreshes, left>>

-----------------------------------------------------------------------------
FullRefresh(i) == ClickRefresh(i) \/ AnswerRefresh(i) \/ FailRefresh(i) \/ LandRefresh(i) \/ AbandonedLoadEnds(i)
Expansion(s) == (\E part \in Parts : AnswerExpansion(s, part)) \/ LandExpansion(s) \/ FailExpansion(s)
TargetedRefresh(j) ==
    \/ AnswerSchemaList(j) \/ ReconcileSchemaList(j) \/ FailSchemaList(j)
    \/ scopes[j].stage = "reading" /\ \E s \in DOMAIN scopes[j].reads :
            (\E part \in Parts : AnswerSchema(j, s, part)) \/ ReconcileSchema(j, s) \/ FailSchema(j, s)
User ==
    \E s \in DOMAIN tree :
        \/ ToggleSchema(s) \/ ChangeFormSchema(s)
        \/ \E k \in DOMAIN tree[s].kids : ToggleCategory(s, k) \/ \E leaf \in tree[s].kids[k].leaves : Select(s, k, leaf)
Ddl ==
    \/ LaunchDialog \/ PreviewArrives \/ Cancel \/ SaveRefused
    \/ dialog.stage = "shown" /\ \E stmts \in {dialog.launch.stmts} \cup {l.stmts : l \in Offered} : Execute(stmts)
    \/ \E j \in DOMAIN scopes : Succeed(j)

Continuation ==
    \/ \E i \in DOMAIN refreshes : RestoreNext(i) \/ EndRestore(i)
    \/ \E j \in DOMAIN scopes : RefreshScope(j)
Event ==
    /\ NothingToContinue
    /\ \/ \E i \in DOMAIN refreshes : FullRefresh(i)
       \/ \E s \in DOMAIN expanding : Expansion(s)
       \/ \E j \in DOMAIN scopes : TargetedRefresh(j)
       \/ User
       \/ Ddl
Next == Continuation \/ Event

(* Every request the page makes is answered, or rejected, in the end, and  *)
(* its continuation runs; the user and the DDL's dialog promise nothing.   *)
Answers ==
    NothingToContinue /\ \/ \E i \in DOMAIN refreshes : AnswerRefresh(i) \/ LandRefresh(i) \/ AbandonedLoadEnds(i)
                         \/ \E s \in DOMAIN expanding : (\E part \in Parts : AnswerExpansion(s, part)) \/ LandExpansion(s)
                         \/ \E j \in DOMAIN scopes : TargetedRefresh(j)
Spec == Init /\ [][Next]_vars /\ WF_vars(Continuation) /\ WF_vars(Answers)

-----------------------------------------------------------------------------
AtRest == ~Armed /\ expanding = <<>> /\ dialog.stage # "committed" /\ \A j \in DOMAIN scopes : scopes[j] = Idle

(* With nothing under way the navigator lists the schemas of the database  *)
(* and, under each schema that was loaded, exactly its objects, whatever   *)
(* order the reads, the merges and the DDL came in (navigatorScopeFor,     *)
(* refreshScope, reconcileSchema): unless a read failed, a load in flight  *)
(* was overtaken by the DDL, a form was turned to another schema, or a     *)
(* constraint was dropped with CASCADE.  That last launch names its own    *)
(* schema and no cascade (ddlLaunchers.ts:474-478), so that a view it took *)
(* along elsewhere stays listed until the schema is read again, although   *)
(* navigatorScopeFor is to re-read every schema a cascading drop can reach *)
(* (navigatorRefresh.ts:63).                                               *)
NavigatorCurrent ==
    AtRest /\ Root \notin overtaken =>
        /\ DOMAIN tree = catalog.schemas
        /\ \A s \in DOMAIN tree : tree[s].loaded /\ s \notin overtaken => ShownIn(tree[s]) = Listing(catalog, s)

(* The nodes the user opened are open once everything has settled, whether *)
(* or not refreshes that overlap replaced them meanwhile, unless the node  *)
(* is gone or its load failed (TreeExpansionPersistence).  A refresh that  *)
(* lands while a restore is under way knows what is stored, no more, and   *)
(* only that counts then (LandRefresh): what the user opened during the    *)
(* restore is not stored (treeExpansion.ts:78-84), and of two overlapping  *)
(* restores the first to end clears the flag and stores the set the other  *)
(* is still building (:116), although the closing write is for a tree that *)
(* "has settled" (:119).  So a third refresh may lose open nodes.          *)
ExpansionKept ==
    AtRest => \A path \in wanted : Exists(tree, path) /\ <<path[1]>> \in wanted => path \in CollectExpandedPaths(tree)

(* The success of a DDL closes no tab of an object that is still there,    *)
(* unless the user ran other SQL than the preview's, or the object is a    *)
(* namesake in the other namespace: the ids closed are those of every kind *)
(* of tab under the object's schema and name (panelIdsFor,                 *)
(* controllerText.ts:137-155), so that dropping a function closes the tabs *)
(* of a table of its name, and dropping a table the definition tab of a    *)
(* function of its name that takes no argument.                            *)
Namesake(o, kind) == (o.kind = "function") # (kind = "function")
TabsOutlive ==
    [][\A p \in tabs \ tabs' :
        \/ dialog.launch.edited
        \/ \A o \in {o \in catalog.objects : TabOf(o) = p} : Namesake(o, dialog.launch.change.kind)]_vars

(* A targeted refresh that waits for the running loads goes on: whatever   *)
(* becomes of a load, it settles (LoadSignal, ExplorerTreeBase.refresh).   *)
WaitersProceed == \A j \in 1..2 : scopes[j].stage = "waiting" ~> scopes[j].stage # "waiting"
=============================================================================
