---------------------------- MODULE MCImportRows ----------------------------
(***************************************************************************)
(* Small tables with the cells a CSV must quote, and the files one may     *)
(* pick by mistake.                                                        *)
(***************************************************************************)
EXTENDS ImportRows

Text == <<"a">>
Awkward == <<"q", ",", "a", "n">>

Row(name, note) == [c \in DataColumns |-> IF c = "name" THEN name ELSE note]

Json(items) == [ext |-> ".json", doc |-> [array |-> TRUE, objects |-> TRUE, items |-> items]]
Foreign == [ext |-> ".txt"]
Ragged == Csv(<<"name", ",", "note", "n", "b", "n">>)
Unknown == Csv(<<"other", "n", "b", "n">>)
Objectless == [ext |-> ".json", doc |-> [array |-> TRUE, objects |-> FALSE, items |-> <<>>]]
Nameless == Json(<<[note |-> <<"b">>]>>)
Fresh == Json(<<[name |-> <<"b">>]>>)
Overfull == Json(<<[name |-> <<"b">>], [name |-> <<"c">>], [name |-> <<"d">>]>>)
Clashing == Json(<<[name |-> <<"b">>], [name |-> <<"q", ",", "a", "n">>, note |-> NULL]>>)

World(rows, may, route, rotated, does, namesTyped, notesTyped, searches, acts, others, files, times, lost) ==
    [table |-> rows, privileges |-> may, route |-> route, rotated |-> rotated, offers |-> does, names |-> namesTyped,
     notes |-> notesTyped, needles |-> searches, moves |-> acts, writes |-> others, files |-> files, picks |-> times,
     failures |-> lost]

MCChars == {"a", "b", "c", "d", ",", "q", "r", "n", "id", "name", "note", "other", "1", "2", "3", "4", "5"}
MCKeyText == [k \in 1..MaxKey |-> <<ToString(k)>>]

All == {"insert", "update", "delete"}
Two == <<Row(Text, NULL), Row(Awkward, <<>>)>>
One == <<Row(Awkward, <<"r">>)>>

(* Edits, additions and deletions against another session's. *)
Written == World(Two, All, NoKey, FALSE, {"add", "edit", "refresh"}, {Text, <<"b">>}, {<<",">>}, {}, 4, 1, {}, 0, 0)
Removed == World(Two, All, NoKey, FALSE, {"select", "delete", "edit", "refresh"}, {<<"b">>}, {}, {}, 5, 1, {}, 0, 0)
Cleared == World(One, All, NoKey, FALSE, {"add", "edit"}, {<<>>, <<"b">>}, {NULL}, {}, 4, 1, {}, 0, 0)
(* The record view under a quick search, and routes that ask for it. *)
Viewed == World(<<Row(Text, NULL), Row(<<"b">>, NULL), Row(Awkward, <<>>)>>, All, 2, TRUE,
                {"select", "view", "delete", "edit"}, {<<"c">>}, {}, {<<>>, Text}, 4, 0, {}, 0, 0)
Absent == World(One, {}, 3, FALSE, {"select", "view", "refresh"}, {}, {}, {<<>>, Text}, 4, 1, {}, 0, 0)
(* Imports, of files that were exported and of others. *)
Imported == World(Two, All, NoKey, FALSE, {"export", "edit"}, {<<"b">>}, {}, {}, 1, 1, {Ragged, Fresh, Overfull}, 2, 1)
Appended == World(One, {"insert"}, NoKey, FALSE, {"export", "add", "refresh"}, {}, {}, {}, 1, 0,
                  {Foreign, Objectless, Nameless, Unknown, Clashing}, 2, 1)

MCWorlds == {Written, Removed, Cleared, Viewed, Absent, Imported, Appended}
=============================================================================
