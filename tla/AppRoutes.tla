----------------------------- MODULE AppRoutes ------------------------------
(***************************************************************************)
(* The addresses of the application: routeTargets.ts (the address a tab    *)
(* reopens at), appRouter.ts (what a visited address opens and reveals)    *)
(* and the panel ids of controllerText.ts.  The three must agree: a tab    *)
(* is found again by its address.                                          *)
(*                                                                         *)
(* A panel is a view of an object, a role or the notes.  A path is the     *)
(* sequence of its segments and a query string is its one value, so names  *)
(* are taken to hold no slash.                                             *)
(***************************************************************************)
EXTENDS Naturals, Sequences

None == ""          \* no view, no query value, no reveal

Object(kind, schema, name) ==
    [kind |-> kind, schema |-> schema, name |-> name, signature |-> None]
Panel(ref, view, query) == [ref |-> ref, view |-> view, query |-> query]

RelationSegment ==
    [table |-> "table", view |-> "view", materializedView |-> "matview"]
RelationKinds == DOMAIN RelationSegment
KindOf(segment) == CHOOSE kind \in RelationKinds : RelationSegment[kind] = segment
Segments == {RelationSegment[kind] : kind \in RelationKinds}
ObjectKinds == {"sequence", "index", "type", "function"}
RoleBuckets == {"user", "group", "predefined"}
RoleViews == {None, "grants-diagram", "membership"}

RelationViewKinds ==
    [structure    |-> RelationKinds,
     definition   |-> RelationKinds \ {"table"},
     diagram      |-> RelationKinds,
     dependencies |-> RelationKinds,
     inheritance  |-> {"table"}]
SchemaViews == {"diagram", "dependencies", "inheritance"}

relationView(kind, view) ==
    view \in DOMAIN RelationViewKinds /\ kind \in RelationViewKinds[view]

\* The panels there is an opener for.
Openable(p) ==
    \/ p.ref.kind \in {"database", "notes"} \cup ObjectKinds
    \/ p.ref.kind = "role" /\ p.view \in RoleViews
    \/ p.ref.kind = "schema" /\ p.view \in SchemaViews
    \/ p.ref.kind \in RelationKinds /\ (p.view = None \/ relationView(p.ref.kind, p.view))

-----------------------------------------------------------------------------
(* From a panel to its address and its id.                                 *)

Root == [path |-> <<>>, query |-> None]

\* The view's segment, when the object has such a view.
Trailing(view, valid) == IF valid THEN <<view>> ELSE <<>>

objectPath(ref, view) ==
    LET schema == <<"schema", ref.schema>>
    IN  CASE ref.kind = "schema" -> schema \o Trailing(view, view \in SchemaViews)
          [] ref.kind \in RelationKinds ->
                 schema \o <<RelationSegment[ref.kind], ref.name>>
                        \o Trailing(view, relationView(ref.kind, view))
          [] ref.kind \in ObjectKinds -> schema \o <<ref.kind, ref.name>>

rolePath_AnyBucket(role, view) ==
    <<"role", "users", role>> \o Trailing(view, view # None)

rolePath(role, view) == <<"role", "user", role>> \o Trailing(view, view # None)

queryHistoryPath(stamp) ==
    [path |-> <<"query", "history", stamp>>, query |-> None]

\* The route its opener records for a tab: only a depth, a record or a
\* signature goes into the query string.
RouteOf(p) ==
    CASE p.ref.kind = "database" -> [path |-> <<"database", "diagram">>, query |-> None]
      [] p.ref.kind = "notes" -> [path |-> <<"notes">>, query |-> None]
      [] p.ref.kind = "role" -> [path |-> rolePath(p.ref.name, p.view), query |-> p.query]
      [] p.ref.kind = "function" ->
             [path |-> objectPath(p.ref, None), query |-> p.ref.signature]
      [] OTHER -> [path |-> objectPath(p.ref, p.view), query |-> p.query]

\* The connection and the database every object's id starts with are one.
PanelId(p) ==
    LET object == <<"objects", p.ref.schema, p.ref.name>>
    IN  CASE p.ref.kind = "database" -> <<"db-diagram">>
          [] p.ref.kind = "notes" -> <<"notes">>
          [] p.ref.kind = "role" ->
                 IF p.view = None THEN <<"grants", p.ref.name>>
                 ELSE <<"roles", p.ref.name, p.view>>
          [] p.ref.kind = "schema" -> <<"objects", p.ref.schema, "::", p.view>>
          [] p.ref.kind = "function" ->
                 <<"objects", p.ref.schema, p.ref.name, p.ref.signature, "::function">>
          [] p.ref.kind \in ObjectKinds \ {"function"} -> object \o <<p.ref.kind>>
          [] OTHER -> object \o Trailing(p.view, p.view # None)

-----------------------------------------------------------------------------
(* From an address to what the router does: bring a side of the sidebar    *)
(* forward, open a panel, or replay a run of the history.                  *)

Handler(side, opens, replays) == [side |-> side, opens |-> opens, replays |-> replays]
NoPanel == Panel(Object("none", None, None), None, None)
Ignored == Handler(None, NoPanel, 0)
Reveals(side) == Handler(side, NoPanel, 0)
RevealsAndOpens(side, p) == Handler(side, p, 0)

\* reportUnknownLink: nothing but an error message.
Unknown == Ignored

SchemaRoute(path) ==
    IF path[3] \in SchemaViews
    THEN RevealsAndOpens("database", Panel(Object("schema", path[2], None), path[3], None))
    ELSE Unknown

RelationRoute(path, query) ==
    LET kind == KindOf(path[3])
        ref == Object(kind, path[2], path[4])
    IN  CASE Len(path) = 4 -> RevealsAndOpens("database", Panel(ref, None, query))
          [] Len(path) = 5 /\ relationView(kind, path[5]) ->
                 RevealsAndOpens("database", Panel(ref, path[5], query))
          [] OTHER -> Unknown

\* The three object routes and that of a function, told by its signature.
ObjectRoute(path, query) ==
    LET ref == Object(path[3], path[2], path[4])
        f == [ref EXCEPT !.signature = query]
    IN  RevealsAndOpens("database",
            Panel(IF path[3] = "function" THEN f ELSE ref, None, None))

RoleRoute(path, query) ==
    LET role == Object("role", None, path[3])
    IN  CASE Len(path) = 3 -> RevealsAndOpens("roles", Panel(role, None, None))
          [] Len(path) = 4 /\ path[4] = "grants-diagram" ->
                 RevealsAndOpens("roles", Panel(role, path[4], None))
          [] Len(path) = 4 /\ path[4] = "membership" ->
                 RevealsAndOpens("roles", Panel(role, path[4], query))
          [] OTHER -> Unknown

Dispatch(url) ==
    LET path == url.path
        n == Len(path)
        at(first) == n > 0 /\ path[1] = first
    IN  CASE n = 0 -> Ignored
          [] at("notes") /\ n = 1 ->
                 RevealsAndOpens(None, Panel(Object("notes", None, None), None, None))
          [] at("query") /\ n = 3 -> Handler(None, NoPanel, path[3])
          [] at("database") /\ n = 2 /\ path[2] = "diagram" ->
                 RevealsAndOpens("database",
                     Panel(Object("database", None, None), "diagram", None))
          [] at("schema") /\ n = 2 -> Reveals("database")
          [] at("schema") /\ n = 3 -> SchemaRoute(path)
          [] at("schema") /\ n \in {4, 5} /\ path[3] \in Segments ->
                 RelationRoute(path, url.query)
          [] at("schema") /\ n = 4 /\ path[3] \in ObjectKinds ->
                 ObjectRoute(path, url.query)
          [] at("role") /\ n = 2 /\ path[2] \in RoleBuckets -> Reveals("roles")
          [] at("role") /\ n \in {3, 4} /\ path[2] \in RoleBuckets ->
                 RoleRoute(path, url.query)
          [] OTHER -> Unknown

=============================================================================
