--------------------------- MODULE RelationGraphs ---------------------------
(***************************************************************************)
(* The graphs the diagrams draw, and the pure operations on them:          *)
(* frontend/src/data/buildSchemaDiagram.ts, buildDatabaseDiagram.ts,       *)
(* schemaOverviewDiagram.ts, buildRelationGraph.ts, fkCardinality.ts and   *)
(* relationDiagram.ts.                                                     *)
(*                                                                         *)
(* A graph is [nodes, edges].  A node is <<schema, table>>, of the         *)
(* overview <<schema>>; an edge is [source, target, keys], with the names  *)
(* of the foreign keys it stands for and, once annotated, of those without *)
(* a covering index, and the marker at its start.  A catalog has keys      *)
(* [name -> [table, columns, refTable, action]].                           *)
(***************************************************************************)
EXTENDS Integers, FiniteSets, FkCardinality

\* -------------------------------------------------------------- construction
FkEdge(source, target, fk) == [source |-> source, target |-> target, keys |-> {fk}]

\* Mutant: the first key between two tables stands for them all.
CollapseFirstOnly(edges) ==
    {CHOOSE e \in edges : e.source = p[1] /\ e.target = p[2] :
        p \in {<<e.source, e.target>> : e \in edges}}

\* The keys between the same two tables folded onto one edge.
CollapseParallelFkEdges(edges) ==
    {[source |-> e.source, target |-> e.target,
      keys   |-> UNION {f.keys : f \in {g \in edges : g.source = e.source /\ g.target = e.target}}] :
        e \in edges}

TablesOf(catalog, schema) == {t \in catalog.tables : t[1] = schema}

\* One schema: a key is drawn when the schema has a table of its target's name.
\* With cards every key keeps an edge, anchored to its columns.
BuildSchemaDiagram(catalog, schema, cards) ==
    LET tables == TablesOf(catalog, schema)
        target(k) == <<schema, catalog.keys[k].refTable[2]>>
        edges  == {FkEdge(catalog.keys[k].table, target(k), k) :
                      k \in {n \in DOMAIN catalog.keys : /\ catalog.keys[n].table \in tables
                                                         /\ target(n) \in tables}}
    IN  [nodes |-> tables, edges |-> IF cards THEN edges ELSE CollapseParallelFkEdges(edges)]

\* The whole database: ids are qualified, so keys cross schemas.
BuildDatabaseDiagram(catalog) ==
    [nodes |-> catalog.tables,
     edges |-> CollapseParallelFkEdges(
                  {FkEdge(catalog.keys[k].table, catalog.keys[k].refTable, k) :
                      k \in {n \in DOMAIN catalog.keys : catalog.keys[n].refTable \in catalog.tables}})]

\* One node per schema, one edge per pair of schemas with its number of keys.
BuildSchemaOverviewDiagram(catalog) ==
    LET schemas(k) == <<catalog.keys[k].table[1], catalog.keys[k].refTable[1]>>
        crossing   == {k \in DOMAIN catalog.keys : schemas(k)[1] # schemas(k)[2]}
    IN  [nodes |-> {<<s>> : s \in catalog.schemas},
         edges |-> {[source |-> <<p[1]>>, target |-> <<p[2]>>,
                     count  |-> Cardinality({k \in crossing : schemas(k) = p})] :
                       p \in {schemas(k) : k \in crossing}}]

\* Dependencies or inheritance: nodes come from the pairs, each pair once.
BuildRelationGraph(pairs) ==
    [nodes |-> {p[1] : p \in pairs} \cup {p[2] : p \in pairs},
     edges |-> {[source |-> p[1], target |-> p[2], keys |-> {}] : p \in pairs}]

\* A folded edge claims unique or mandatory only when every key agrees, and
\* shows the referential action only when they share one.
AnnotateFkEdge(catalog, e) ==
    LET s          == catalog.structures[e.source]
        columns(k) == catalog.keys[k].columns
        actions    == {catalog.keys[k].action : k \in e.keys}
    IN  [source    |-> e.source, target |-> e.target, keys |-> e.keys,
         uncovered |-> {k \in e.keys : ~IsColumnPrefixIndexed(columns(k), s)},
         marker    |-> CardinalityStartMarker(
                          \A k \in e.keys : IsFkUnique(columns(k), s),
                          \A k \in e.keys : IsFkMandatory(columns(k), s.notNull)),
         label     |-> IF Cardinality(actions) = 1 THEN CHOOSE a \in actions : TRUE ELSE ""]

AnnotateFkCardinality(catalog, graph) ==
    [nodes |-> graph.nodes, edges |-> {AnnotateFkEdge(catalog, e) : e \in graph.edges}]

\* ----------------------------------------------------------------- traversal
Follows(e, u, v, direction) ==
    \/ direction \in {"downstream", "both"} /\ e.source = u /\ e.target = v
    \/ direction \in {"upstream", "both"} /\ e.target = u /\ e.source = v

Neighbours(edges, u, direction) ==
    {v \in {e.source : e \in edges} \cup {e.target : e \in edges} :
        \E e \in edges : Follows(e, u, v, direction)}

\* Mutant: excluded nodes are left out of the result, but walked through.
ReachableThroughExcluded(edges, root, direction, depth, excluded) ==
    LET visited[d \in 0..depth] ==
            IF d = 0 THEN {root}
            ELSE visited[d - 1] \cup UNION {Neighbours(edges, u, direction) : u \in visited[d - 1]}
    IN  IF root \in excluded THEN {} ELSE visited[depth] \ excluded

\* Breadth first from the root, at most depth hops, never onto an excluded node.
ReachableNodeIds(edges, root, direction, depth, excluded) ==
    LET visited[d \in 0..depth] ==
            IF d = 0 THEN {root}
            ELSE visited[d - 1] \cup
                 ((UNION {Neighbours(edges, u, direction) : u \in visited[d - 1]}) \ excluded)
    IN  IF root \in excluded THEN {} ELSE visited[depth]

Subgraph(graph, keep) ==
    [nodes |-> graph.nodes \cap keep,
     edges |-> {e \in graph.edges : e.source \in keep /\ e.target \in keep}]

\* The neighbourhood of the root, which is added when the graph has it not.
RootedDiagram(full, root, direction, depth) ==
    LET keep  == ReachableNodeIds(full.edges, root, direction, depth, {}) \cup {root}
        graph == Subgraph(full, keep)
    IN  [nodes |-> graph.nodes \cup {root}, edges |-> graph.edges]

\* Plain hide drops the hidden nodes; prune also drops what that cut off.
ApplyHide(base, root, hidden, prune, direction) ==
    Subgraph(base, IF prune
                   THEN ReachableNodeIds(base.edges, root, direction,
                                         Cardinality(base.nodes), hidden) \cup {root}
                   ELSE base.nodes \ hidden)

\* Mutant: only the keys of the node itself are counted.
CountsOutgoingOnly(edges, shown, direction) ==
    LET out(n) == {e.target : e \in {x \in edges : x.source = n}} \ shown
    IN  [n \in shown |-> [outgoing |-> Cardinality(out(n)), incoming |-> 0]]

\* How many neighbours of each shown node, each way, are not shown.
HiddenNeighbourCounts(edges, shown, direction) ==
    LET out(n) == IF direction = "upstream" THEN {}
                  ELSE {e.target : e \in {x \in edges : x.source = n}} \ shown
        in(n)  == IF direction = "downstream" THEN {}
                  ELSE {e.source : e \in {x \in edges : x.target = n}} \ shown
    IN  [n \in shown |-> [outgoing |-> Cardinality(out(n)), incoming |-> Cardinality(in(n))]]

\* The nodes that carry a badge, with what it counts.
WithDepthBadges(base, edges, direction) ==
    LET counts == HiddenNeighbourCounts(edges, base.nodes, direction)
    IN  [nodes |-> base.nodes, edges |-> base.edges,
         badges |-> {<<n, counts[n]>> : n \in {m \in base.nodes :
                        counts[m].outgoing + counts[m].incoming > 0}}]

Unbadged(graph) == [nodes |-> graph.nodes, edges |-> graph.edges, badges |-> {}]

\* ------------------------------------------------------------- depth choices
DepthChoices == {"1", "2", "3", "All"}

\* A depth off the address bar: any case of "all"; what is not a choice is 1.
DepthChoice(raw) == IF raw = "all" THEN "All" ELSE IF raw \in DepthChoices THEN raw ELSE "1"

\* "All" is unbounded: no path is longer than the number of nodes.
DepthFromChoice(choice, graph) ==
    CASE choice = "1" -> 1 [] choice = "2" -> 2 [] choice = "3" -> 3
      [] choice = "All" -> Cardinality(graph.nodes)
=============================================================================
