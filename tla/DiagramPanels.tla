--------------------------- MODULE DiagramPanels ----------------------------
(***************************************************************************)
(* The diagram tabs with a column of controls: a root, a direction, a      *)
(* depth, "hide with prune", and a legend of check boxes that hide nodes   *)
(* (frontend/src/dock/diagramShell.ts, diagramShellState.ts,               *)
(* filteredDiagramShell.ts and the panels built on them).  The five kinds  *)
(* of panel are one class hierarchy, so one module: kind says which class. *)
(*                                                                         *)
(*   "schema"    the foreign keys of a schema; the root may be chosen      *)
(*   "relation"  the keys around one relation, as cards; the root is fixed *)
(*   "graph"     dependencies or inheritance; the root may be chosen       *)
(*   "rooted"    dependencies or inheritance around one relation           *)
(*   "database"  an overview of the schemas, or all their tables           *)
(*                                                                         *)
(* External: the DiagramView, which lays a graph out in a worker and shows *)
(* it when the layout has come, the latest graph it was given only.  It    *)
(* opens fitted to its graph, and cannot focus a node it does not show.    *)
(***************************************************************************)
EXTENDS RelationGraphs

CONSTANTS
    Catalog,     \* tables, keys and structures, as the server sent them
    HomeSchema,  \* the schema the panel was opened on
    Dependencies,\* pairs of relations, for the graphs of kind "graph" and "rooted"
    FixedRoots,  \* the relations a rooted panel may be opened on
    Kinds,       \* the kinds of panel considered
    RouteDepths, \* the depths an address may carry
    TriedDepths, \* bound: the depths chosen in the panel
    Haste,       \* bound: the viewport moves that wait for one layout
    NoRoot

\* Tables and keys as PostgreSQL keeps them: a key belongs to a table and has
\* columns.  A panel is opened on a relation of its schema; one that is no
\* table, a view say, is referenced by no key.
ASSUME DiagramAssumption ==
    /\ Kinds \subseteq {"schema", "relation", "graph", "rooted", "database"}
    /\ TriedDepths \subseteq DepthChoices
    /\ IsFiniteSet(Catalog.tables) /\ IsFiniteSet(Dependencies)
    /\ \A k \in DOMAIN Catalog.keys :
          LET key == Catalog.keys[k]
          IN  /\ key.table \in Catalog.tables
              /\ key.columns # <<>> /\ key.columns \in Seq(STRING)
              /\ key.refTable = <<key.refTable[1], key.refTable[2]>>
              /\ key.refTable \in FixedRoots => key.refTable \in Catalog.tables
    /\ \A t \in Catalog.tables : \A c \in Catalog.structures[t].constraints :
          c.type \in {"primaryKey", "unique", "check"}
    /\ \A r \in FixedRoots : r[1] = HomeSchema

VARIABLES
    kind,       \* which panel
    root, direction, depth, prune,   \* the controls of every panel
    mode,       \* "overview" or "tables", of the database panel
    coverage,   \* "highlight keys without a covering index", of the relation panel
    hidden,     \* hidden nodes; hidden schemas in the database panel
    base,       \* the rooted graph the hiding works on
    legend,     \* the rows of the legend: [row -> checked]
    incoming,   \* the graph last handed to the view
    screen,     \* what is on screen: "nothing", "overview" or "tables"
    laying,     \* a layout is under way; when none is, incoming is on screen
    settles,    \* the viewport moves waiting for it
    viewport    \* what the viewport was last moved to

controls == <<root, direction, depth, prune, mode, coverage>>
view == <<screen, viewport>>
vars == <<kind, controls, hidden, base, legend, incoming, laying, settles, view>>

Directions == {"downstream", "upstream", "both"}
Fixed == kind \in {"relation", "rooted"}
Fit == [kind |-> "fit", node |-> NoRoot]

\* The whole graph a panel of each kind is built on.
Full ==
    [k \in Kinds |->
        CASE k \in {"schema", "relation"} ->
                AnnotateFkCardinality(Catalog, BuildSchemaDiagram(Catalog, HomeSchema, k = "relation"))
          [] k = "database" -> BuildDatabaseDiagram(Catalog)
          [] OTHER          -> BuildRelationGraph(Dependencies)]

Overview == BuildSchemaOverviewDiagram(Catalog)

\* ---------------------------------------------------------- what is derived
RootingDisplayed(m) == kind # "database" \/ m = "tables"
OnTables == RootingDisplayed(mode)

Settle(m, r) == IF RootingDisplayed(m) /\ r # NoRoot
                THEN [kind |-> "focus", node |-> r] ELSE Fit

\* fixedRootBase, or rootedBase when the root may be absent.
DerivedBase(k, r, d, h) ==
    LET full == Full[k]
    IN  IF r = NoRoot \/ (k \notin {"relation", "rooted"} /\ r \notin full.nodes) THEN Unbadged(full)
        ELSE WithDepthBadges(RootedDiagram(full, r, d, DepthFromChoice(h, full)), full.edges, d)

HiddenNodes(b, hid) == IF kind = "database" THEN {n \in b.nodes : n[1] \in hid} ELSE hid

\* Unrooted, only the database panel has anything to hide.
Filtered(b, r, d, p, hid) ==
    IF r # NoRoot THEN ApplyHide(b, r, HiddenNodes(b, hid), p, d)
    ELSE IF kind = "database" THEN Subgraph(b, b.nodes \ HiddenNodes(b, hid))
    ELSE b

\* With coverage on, the edges with a key no index serves are tinted.
Drawn(graph, badges, tint) ==
    [nodes  |-> graph.nodes, edges |-> graph.edges,
     badges |-> {b \in badges : b[1] \in graph.nodes},
     tinted |-> IF tint THEN {e \in graph.edges : e.uncovered # {}} ELSE {}]

FilteredGraph(b, r, d, p, hid, tint) == Drawn(Filtered(b, r, d, p, hid), b.badges, tint)

\* The rows of a panel rooted at r: all of the base but an unrooted view's.
LegendFor(b, r) == IF r = NoRoot THEN <<>> ELSE [n \in b.nodes |-> TRUE]
SchemaLegend(hid) == [s \in Catalog.schemas |-> s \notin hid]

\* The view is given a graph: a layout starts, superseding one under way.
SetData(graph) == incoming' = graph /\ laying' = TRUE

ApplyFilter(b, r, d, p, hid, tint) == SetData(FilteredGraph(b, r, d, p, hid, tint))

\* Mutant: the hidden nodes stay hidden, while the legend shows all as checked.
RebuildKeepingHidden(r, d, h) ==
    /\ base' = DerivedBase(kind, r, d, h)
    /\ hidden' = hidden
    /\ legend' = IF kind = "database" THEN legend ELSE LegendFor(base', r)
    /\ ApplyFilter(base', r, d, prune, hidden', coverage)

\* Re-rooted: the base anew.  A filtered shell shows every node of it again and
\* rebuilds its legend; the database panel keeps its hidden schemas.
RebuildBase(r, d, h) ==
    /\ base' = DerivedBase(kind, r, d, h)
    /\ hidden' = IF kind = "database" THEN hidden ELSE {}
    /\ legend' = IF kind = "database" THEN legend ELSE LegendFor(base', r)
    /\ ApplyFilter(base', r, d, prune, hidden', coverage)

SettleViewport(m, r) ==
    settles' = settles \cup {Settle(m, r)} /\ Cardinality(settles') <= Haste

\* -------------------------------------------------------------------- actions
InitialRoots(k) == IF k \in {"relation", "rooted"} THEN FixedRoots ELSE {NoRoot}

Init ==
    /\ kind \in Kinds
    /\ root \in InitialRoots(kind) /\ direction = "both" /\ prune = FALSE /\ coverage = FALSE
    /\ depth \in IF Fixed THEN {DepthChoice(raw) : raw \in RouteDepths} ELSE {"1"}
    /\ mode = IF kind = "database" THEN "overview" ELSE "tables"
    /\ hidden = {}
    /\ base = DerivedBase(kind, root, direction, depth)
    /\ legend = IF kind = "database" THEN <<>> ELSE LegendFor(base, root)
    /\ incoming = IF kind = "database" THEN Overview ELSE Drawn(base, base.badges, FALSE)
    /\ screen = "nothing"
    /\ laying = TRUE /\ settles = IF root = NoRoot THEN {} ELSE {Settle(mode, root)}
    /\ viewport = Fit

\* The direction, depth and prune controls are only there while a root is chosen.
RootedBlockVisible == RootingDisplayed(mode) /\ root # NoRoot

ChangeDirection(d) ==
    /\ RootedBlockVisible /\ d # direction
    /\ direction' = d
    /\ RebuildBase(root, d, depth) /\ SettleViewport(mode, root)
    /\ UNCHANGED <<kind, root, depth, prune, mode, coverage, view>>

ChangeDepth(h) ==
    /\ RootedBlockVisible /\ h # depth
    /\ depth' = h
    /\ RebuildBase(root, direction, h) /\ SettleViewport(mode, root)
    /\ UNCHANGED <<kind, root, direction, prune, mode, coverage, view>>

ChangePrune ==
    /\ RootedBlockVisible
    /\ prune' = ~prune
    /\ ApplyFilter(base, root, direction, prune', hidden, coverage)
    /\ SettleViewport(mode, root)
    /\ UNCHANGED <<kind, root, direction, depth, mode, coverage, hidden, base, legend, view>>

\* From the root selector; NoRoot is its "(none)".
ChooseRoot(r) ==
    /\ ~Fixed /\ RootingDisplayed(mode) /\ r # root
    /\ root' = r
    /\ RebuildBase(r, direction, depth) /\ SettleViewport(mode, r)
    /\ UNCHANGED <<kind, direction, depth, prune, mode, coverage, view>>

\* A check box of the legend.  The root's own is disabled; the viewport stays.
ToggleRow(n) ==
    /\ RootingDisplayed(mode) /\ n \in DOMAIN legend
    /\ kind # "database" => n # root
    /\ legend' = [legend EXCEPT ![n] = ~legend[n]]
    /\ hidden' = IF legend'[n] THEN hidden \ {n} ELSE hidden \cup {n}
    /\ ApplyFilter(base, root, direction, prune, hidden', coverage)
    /\ UNCHANGED <<kind, controls, base, settles, view>>

ToggleCoverage ==
    /\ kind = "relation"
    /\ coverage' = ~coverage
    /\ ApplyFilter(base, root, direction, prune, hidden, coverage')
    /\ UNCHANGED <<kind, root, direction, depth, prune, mode, hidden, base, legend, settles, view>>

\* The database panel between its two modes; the controls keep their values.
ChangeMode ==
    /\ kind = "database"
    /\ mode' = IF mode = "overview" THEN "tables" ELSE "overview"
    /\ IF mode' = "overview" THEN SetData(Overview) /\ UNCHANGED <<base, legend>>
       ELSE /\ base' = DerivedBase(kind, root, direction, depth)
            /\ legend' = SchemaLegend(hidden)
            /\ ApplyFilter(base', root, direction, prune, hidden, coverage)
    /\ SettleViewport(mode', root)
    /\ UNCHANGED <<kind, root, direction, depth, prune, coverage, hidden, view>>

\* Double click on a node of the overview: the tables of its schema, all others
\* hidden.  The mode is asked, not what is on screen: a table that is still
\* there while the overview is laid out names no schema, and hides them all.
FocusSchema(node) ==
    /\ kind = "database" /\ mode = "overview"
    /\ node \in CASE screen = "overview" -> Overview.nodes
                 [] screen = "tables"   -> Catalog.tables
                 [] OTHER               -> {}
    /\ mode' = "tables" /\ root' = NoRoot
    /\ hidden' = {s \in Catalog.schemas : node # <<s>>}
    /\ legend' = SchemaLegend(hidden')
    /\ base' = DerivedBase(kind, NoRoot, direction, depth)
    /\ ApplyFilter(base', NoRoot, direction, prune, hidden', coverage)
    /\ SettleViewport("tables", NoRoot)
    /\ UNCHANGED <<kind, direction, depth, prune, coverage, view>>

\* The layout of the latest graph has come: it is on screen, and of the moves
\* waiting the one the controls still ask for is made.
LayoutDone ==
    /\ laying
    /\ laying' = FALSE /\ settles' = {} /\ screen' = IF OnTables THEN "tables" ELSE "overview"
    /\ LET target == Settle(mode, root)
       IN  viewport' = IF target \in settles /\ (target # Fit => root \in incoming.nodes)
                       THEN target ELSE viewport
    /\ UNCHANGED <<kind, controls, hidden, base, legend, incoming>>

Next ==
    \/ \E d \in Directions : ChangeDirection(d)
    \/ \E h \in TriedDepths : ChangeDepth(h)
    \/ ChangePrune
    \/ \E r \in Full[kind].nodes \cup {NoRoot} : ChooseRoot(r)
    \/ \E n \in DOMAIN legend : ToggleRow(n)
    \/ ToggleCoverage
    \/ ChangeMode
    \/ \E node \in Overview.nodes \cup Catalog.tables : FocusSchema(node)
    \/ LayoutDone

Spec == Init /\ [][Next]_vars /\ WF_vars(LayoutDone)

\* ----------------------------------------------------------------- properties
Rooted == OnTables /\ root # NoRoot
Idle == ~laying

\* The database panel's legend lists schemas, and the root may lie in one that
\* is unchecked.
RootHidden == kind = "database" /\ root # NoRoot /\ root[1] \in hidden

\* The nodes a path of at most choice edges leads to from the root, and not
\* through a node of without: said with paths, and for "All" as the least set
\* that holds the root and is closed.
Within(graph, without, choice) ==
    LET open == graph.nodes \ without
        step(u, v) == \E e \in graph.edges : Follows(e, u, v, direction)
        path(v, n) == \E p \in [1..(n - 1) -> open] :
                         \A i \in 1..n : step(IF i = 1 THEN root ELSE p[i - 1],
                                              IF i = n THEN v ELSE p[i])
        closed(S)  == \A u \in S, v \in open : step(u, v) => v \in S
    IN  {root} \cup
        IF choice = "All"
        THEN {v \in open : \A S \in SUBSET (open \cup {root}) : root \in S /\ closed(S) => v \in S}
        ELSE {v \in open : \E n \in 1..DepthFromChoice(choice, graph) : path(v, n)}

\* What the controls and check boxes ask to see.
AskedNodes ==
    LET full == Full[kind]
        near == Subgraph(full, Within(full, {}, depth))
        off  == HiddenNodes(full, hidden)
    IN  IF root = NoRoot THEN full.nodes \ (IF kind = "database" THEN off ELSE {})
        ELSE IF prune THEN Within(near, off, "All")
        ELSE (near.nodes \cup {root}) \ off

\* The legend lists what the rooted graph holds (the schemas, in the database
\* panel), a row is unchecked just when it is hidden, and the root is not.
LegendTells ==
    /\ DOMAIN legend = (IF kind = "database" THEN Catalog.schemas
                        ELSE IF Rooted THEN base.nodes ELSE {})
    /\ hidden = {n \in DOMAIN legend : ~legend[n]}
    /\ kind # "database" => root \notin hidden

(***************************************************************************)
(* The legend tells the truth; and when the view is at rest it shows the   *)
(* graph its controls describe, by whatever sequence of them it came       *)
(* there, and all the edges between the nodes it shows.  The root, which   *)
(* applyHide says is "never hidden" (relationDiagram.ts:114), is among     *)
(* them; exempt is a root of the database panel whose schema the user      *)
(* unchecks (RootHidden): it goes with its schema, and with prune on it is *)
(* all that stays.                                                         *)
(***************************************************************************)
ShowsWhatIsAsked ==
    /\ OnTables => LegendTells
    /\ Idle => IF OnTables
               THEN /\ incoming.nodes = IF RootHidden /\ prune THEN {root} ELSE AskedNodes
                    /\ incoming.edges = Subgraph(Full[kind], incoming.nodes).edges
                    /\ Rooted => root \in incoming.nodes \/ RootHidden
               ELSE incoming = Overview

(***************************************************************************)
(* No badge is no more to see: a rooted graph carries no badge just when   *)
(* no greater depth would show another node.                               *)
(***************************************************************************)
BadgesTellMore ==
    Idle /\ Rooted =>
        (base.badges = {} <=> base.nodes = Within(Full[kind], {}, "All"))

\* The keys of the tables on screen whose target is on screen too.
KeysShown == {k \in DOMAIN Catalog.keys : /\ Catalog.keys[k].table \in incoming.nodes
                                           /\ Catalog.keys[k].refTable \in incoming.nodes}

\* No index of its table starts with the key's columns.
Unindexed(k) ==
    LET s == Catalog.structures[k.table]
    IN  /\ \A c \in s.constraints : c.type = "check" \/ ~IsPrefix(k.columns, c.columns)
        /\ \A x \in s.indexes : "(expression)" \in ToSet(x.terms) \/ ~IsPrefix(k.columns, x.terms)

\* A key to another schema, drawn to the table of that name in its own.
DrawnToNamesake(k, table) ==
    /\ kind \in {"schema", "relation"} /\ Catalog.keys[k].refTable[1] # HomeSchema
    /\ table = <<HomeSchema, Catalog.keys[k].refTable[2]>>

(***************************************************************************)
(* The edges on screen are the foreign keys between the tables on screen,  *)
(* each on exactly one edge, from its own table to the one it references;  *)
(* an edge is tinted just when one of its keys has no index that starts    *)
(* with its columns.  Exempt is the target of a key to another schema: the *)
(* doc of buildSchemaDiagram (buildSchemaDiagram.ts:90) says such keys are *)
(* dropped, but the code (:140) keeps one whose target has a namesake in   *)
(* the diagram's schema, and draws it to that (DrawnToNamesake).  An index *)
(* that is partial or no B-tree counts as any other (fkCardinality.ts:200).*)
(***************************************************************************)
EdgesAreKeys ==
    Idle /\ OnTables /\ kind \in {"schema", "relation", "database"} =>
        /\ \A k \in KeysShown \cup UNION {e.keys : e \in incoming.edges} :
              Cardinality({e \in incoming.edges : k \in e.keys}) = 1
        /\ \A e \in incoming.edges :
              e.keys # {} /\ \A k \in e.keys :
                 /\ Catalog.keys[k].table = e.source
                 /\ Catalog.keys[k].refTable = e.target \/ DrawnToNamesake(k, e.target)
        /\ incoming.tinted = {e \in incoming.edges :
                                coverage /\ \E k \in e.keys : Unindexed(Catalog.keys[k])}
=============================================================================
