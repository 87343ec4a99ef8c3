------------------------------ MODULE MCAppShell ------------------------------
(***************************************************************************)
(* Small instances of AppShell: a world for the login dialog and one for   *)
(* each area of the page, with what its user opens there.                  *)
(***************************************************************************)
EXTENDS AppShell

Table == Object("table", "s", "t")
MCPanels ==
    [login   |-> {},
     sidebar |-> {Panel(Table, None, None)},
     leave   |-> {},
     roles   |-> {Panel(Table, None, None)} \cup
                 {Panel(Object("role", None, role), view, None) :
                     role \in Roles, view \in {None, "grants-diagram"}},
     work    |-> {Panel(Table, None, "record 7"),
                  Panel(Table, "inheritance", "depth 2"),
                  Panel(Object("materializedView", "s", "m"), None, None),
                  Panel(Object("materializedView", "s", "m"), "definition", None),
                  Panel([Object("function", "s", "f") EXCEPT !.signature = "int"], None, None),
                  Panel(Object("sequence", "s", "q"), None, None),
                  Panel(Object("schema", "s", None), "diagram", None),
                  Panel(Object("database", None, None), "diagram", None),
                  Panel(Object("role", None, "r1"), "membership", "depth 2"),
                  Panel(Object("notes", None, None), None, None)}]

Row(conn, isDefault) == [conn |-> conn, isDefault |-> isDefault]
Blob(rows) == [intact |-> TRUE, rows |-> rows]
NoBlob == Blob(<<>>)
TwoPresets == Blob(<<Row("c1", FALSE), Row("c2", TRUE)>>)
CorruptBlob == [intact |-> FALSE, rows |-> <<>>]
Server(isDefault) ==
    [servers |-> <<[name |-> 9, conn |-> "c2", isDefault |-> isDefault,
                    origin |-> "server"]>>, users |-> TRUE]
NoServers == [servers |-> <<>>, users |-> TRUE]
OnlyServers == [Server(TRUE) EXCEPT !.users = FALSE]

At(path) == [path |-> path, query |-> None]
World(where, n) ==
    [area |-> where, moves |-> n, address |-> Root, session |-> TRUE,
     history |-> {}, layout |-> EmptyLayout, presets |-> NoBlob, config |-> NoServers]

Dialogs == {<<Server(TRUE), TwoPresets>>, <<NoServers, CorruptBlob>>, <<OnlyServers, NoBlob>>}
LoginWorlds ==
    {[World("login", 0) EXCEPT !.session = FALSE, !.config = d[1], !.presets = d[2],
         !.address = At(<<"role", "user", "r1">>)] : d \in Dialogs}

\* A visit to an address: a run kept or forgotten, a bucket, a wrong link.
Visits ==
    {[World("leave", 1) EXCEPT !.address = At(path), !.history = {1}] :
        path \in {<<"query", "history", 1>>, <<"query", "history", 2>>,
                  <<"schema", "s">>, <<"role", "group">>, <<"schema", "s", "grants">>,
                  <<"role", "predefined", "r1", "diagram">>, <<"nowhere">>}}

MCWorlds ==
    LoginWorlds \cup Visits
    \cup {World("work", 3), World("roles", 4), World("leave", 5)}
    \cup {[World("sidebar", 4) EXCEPT !.layout = EmptyLayout],
          [World("sidebar", 3) EXCEPT
              !.layout["database"] = [sizes |-> 5, open |-> <<TRUE>>]]}

=============================================================================
