----------------------------- MODULE MCNavigator -----------------------------
(***************************************************************************)
(* Small databases for the navigator, each with the changes that are       *)
(* interesting in it and just enough of the user, the failures and the     *)
(* refreshes for them to meet.                                             *)
(***************************************************************************)
EXTENDS Navigator

Object(oid, kind, schema, name, sig, on, key, uses) ==
    [oid |-> oid, kind |-> kind, schema |-> schema, name |-> name, sig |-> sig, on |-> on, key |-> key, uses |-> uses]
World(schemas, objects, saves, offers, edits, ddl, refreshing, touches, failures) ==
    [catalog |-> [schemas |-> schemas, objects |-> objects], saved |-> saves, offers |-> offers, edits |-> edits,
     ddl |-> ddl, refreshes |-> refreshing, touches |-> touches, failures |-> failures]

T == Object(1, "table", "a", "t", "", 0, FALSE, {})
I == Object(2, "index", "a", "i", "", 1, FALSE, {})
V == Object(3, "view", "b", "v", "", 0, FALSE, {1})
K == Object(4, "index", "a", "t_key", "", 1, TRUE, {})
F0 == Object(1, "function", "a", "f", "", 0, FALSE, {})
FInt == Object(2, "function", "a", "f", "int", 0, FALSE, {})
S == Object(3, "sequence", "a", "q", "", 0, FALSE, {})
M == Object(4, "materializedView", "a", "m", "", 0, FALSE, {})
Y == Object(5, "type", "a", "y", "", 0, FALSE, {})
MI == Object(6, "index", "a", "mi", "", 4, FALSE, {})

(* Two changes in a row, among tables, indexes and a view elsewhere. *)
Relational == World({"a", "b"}, {T, I, V}, {<<"a">>, <<"a", "table">>, <<"a", "index">>, <<"b">>},
                    {<<"rename", "table">>, <<"drop", "table">>, <<"drop", "index">>}, FALSE, 2, 0, 1, 0)
(* Refreshes over a saved expansion, with a read that fails. *)
Refreshed == World({"a", "b"}, {T, V}, {<<"a">>, <<"a", "table">>, <<"b">>}, {<<"drop", "view">>}, FALSE, 1, 1, 2, 1)
(* Schemas come and go. *)
Schemas == World({"a", "b"}, {T}, {<<"a">>}, {<<"create", "schema">>, <<"rename", "schema">>, <<"drop", "schema">>},
                 FALSE, 2, 0, 1, 1)
(* The kinds without rows; a database of one schema, opened by itself. *)
Routines == World({"a"}, {F0, FInt, S, Y, M}, NeverSaved,
                  {<<"drop", "function">>, <<"alter", "function">>, <<"create", "function">>, <<"drop", "sequence">>,
                   <<"create", "sequence">>, <<"drop", "type">>, <<"create", "type">>, <<"none", "none">>}, FALSE, 1, 0, 1, 0)
Rebuilt == World({"a"}, {M, MI, [V EXCEPT !.schema = "a", !.uses = {4}]}, NeverSaved,
                 {<<"alter", "materializedView">>, <<"drop", "materializedView">>,
                  <<"create", "materializedView">>}, TRUE, 1, 0, 1, 0)
(* Constraints and keys, and the definitions of views. *)
Constrained == World({"a", "b"}, {T, K, V}, {<<"a">>, <<"a", "index">>, <<"b">>},
                     {<<"alter", "table">>, <<"create", "index">>, <<"create", "table">>, <<"alter", "view">>}, FALSE, 1, 0, 1, 0)
Drafted == World({"a", "b"}, {T}, {<<"a">>, <<"b">>}, {<<"create", "view">>}, TRUE, 1, 1, 1, 0)

(* A view in another schema that needs a key: dropped along with it, and   *)
(* the navigator not told.                                                 *)
Keyed == World({"a", "b"}, {T, K, [V EXCEPT !.uses = {1, 4}]}, {<<"a">>, <<"b">>}, {<<"alter", "table">>}, FALSE, 1, 0, 0, 0)

(* Three refreshes, which may each land while the one before restores. *)
RefreshedThrice == World({"a", "b"}, {T, V}, {<<"a">>, <<"b">>}, {}, FALSE, 0, 2, 0, 0)
(* A function with the name of a table, and one with a name of its own. *)
Namesakes == World({"a"}, {T, [F0 EXCEPT !.oid = 2, !.name = "t"], [FInt EXCEPT !.oid = 3]}, {<<"a">>},
                   {<<"drop", "function">>, <<"drop", "table">>}, FALSE, 1, 0, 0, 0)

MCWorlds == {Relational, Refreshed, Schemas, Routines, Rebuilt, Constrained, Drafted, Keyed, RefreshedThrice, Namesakes}
=============================================================================
