-------------------------- MODULE MCDiagramPanels ---------------------------
(***************************************************************************)
(* Two schemas: three tables of s, with two keys between the same pair and *)
(* a key of a table to itself; one table of u, in a cycle across schemas,  *)
(* and another that has a namesake in s.                                   *)
(***************************************************************************)
EXTENDS DiagramPanels

a == <<"s", "a">>
b == <<"s", "b">>
c == <<"s", "c">>
x == <<"u", "x">>
n == <<"u", "c">>
v == <<"s", "v">>     \* a view: it has no keys

Key(t, cols, r, act) == [table |-> t, columns |-> cols, refTable |-> r, action |-> act]

Plain == [constraints |-> {}, indexes |-> {}, notNull |-> {}]

MCCatalog ==
    [schemas |-> {"s", "u"},
     tables  |-> {a, b, c, x, n},
     keys    |-> [a1 |-> Key(a, <<"k">>, b, ""),
                  a2 |-> Key(a, <<"m", "n">>, b, "ON DELETE CASCADE"),
                  b1 |-> Key(b, <<"k">>, c, ""), b2 |-> Key(b, <<"x">>, x, ""),
                  b3 |-> Key(b, <<"x">>, n, "ON DELETE CASCADE"),
                  c1 |-> Key(c, <<"k">>, c, ""), x1 |-> Key(x, <<"a">>, a, "")],
     structures |->
        [t \in {a, b, c, x, n} |->
            CASE t = a -> [constraints |-> {[type |-> "primaryKey", columns |-> <<"k">>]},
                           indexes     |-> {[terms |-> <<"n", "m">>, unique |-> TRUE]},
                           notNull     |-> {"k", "m"}]
              [] t = b -> [constraints |-> {},
                           indexes     |-> {[terms |-> <<"k", "x">>, unique |-> FALSE]},
                           notNull     |-> {}]
              [] OTHER -> Plain]]

\* The view reads a and b, x reads the view and b.
MCDependencies == {<<v, a>>, <<v, b>>, <<x, v>>, <<x, b>>}
MCFixedRoots == {a, v}
MCKinds == {"schema", "relation", "graph", "rooted", "database"}
MCRouteDepths == {"2", "all", "7"}
MCTriedDepths == {"1", "2", "All"}
=============================================================================
