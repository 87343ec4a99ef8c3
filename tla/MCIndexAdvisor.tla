--------------------------- MODULE MCIndexAdvisor ---------------------------
(***************************************************************************)
(* The statements of the small instance, and the plans of its one query:   *)
(* orders (alias o) scanned with each of a set of filters, sorted, and     *)
(* joined to items (alias i); and one plan over six tables, more than the  *)
(* strip shows.  The other statements have one plan, or none to parse.     *)
(***************************************************************************)
EXTENDS ExplainDiagram

orders == <<"public", "orders">>
items  == <<"public", "items">>
Lesser == {<<"public", n>> : n \in {"t1", "t2", "t3", "t4"}}

MCRelations == {orders, items} \cup Lesser
MCRelationOrder == <<items, orders, <<"public", "t1">>, <<"public", "t2">>,
                     <<"public", "t3">>, <<"public", "t4">>>>
MCColumnsOf == [r \in MCRelations |->
                   IF r = orders THEN {"status", "total", "ts", "id", "Note"}
                   ELSE IF r = items THEN {"order_id", "sku"} ELSE {"c"}]

Col(a, c) == <<"col", a, c>>
Value == <<"lit", "plain">>
Cmp(op, l, r) == <<"cmp", op, l, r>>

status == Cmp("=", <<"cast", Col("o", "status"), "one">>, Value)
total  == Cmp(">", Col("o", "total"), Value)
ts     == Cmp("<=", <<"lit", "open">>, Col("o", "ts"))
stamp  == Cmp("<", <<"cast", Col("o", "ts"), "several">>, Value)
other  == Cmp("<>", Col("o", "id"), Value)
like   == Cmp("~~", Col("o", "status"), <<"lit", "close">>)
lower  == Cmp("=", <<"call", Col("o", "status")>>, Value)
outer  == Cmp("=", Col("o", "id"), Col("i", "order_id"))
\* What is not read, and what is misread.
note   == <<"quoted", "o", "Note">>
noted  == Cmp("=", note, Value)
cast   == Cmp("=", <<"cast", note, "one">>, Col("o", "id"))
today  == Cmp("<", Col("o", "ts"), <<"special", "CURRENT_DATE">>)
within == Cmp("<@", Col("o", "total"), Value)
left   == Cmp("<<", Col("o", "ts"), Value)
holds  == Cmp("@>", Value, Col("o", "id"))

MCFilters == {status, lower, <<"not", status>>, outer, stamp,
              <<"and", <<total, status>>>>, <<"or", <<total, status>>>>,
              <<"and", <<<<"or", <<status, lower>>>>, total>>>>,
              <<"and", <<ts, status>>>>, <<"and", <<like, other, total>>>>,
              <<"or", <<<<"and", <<total, status>>>>, total>>>>,
              <<"and", <<total, Cmp(">=", Col("o", "ts"), Value), status, outer>>>>,
              noted, <<"and", <<cast, total>>>>, <<"and", <<today, status>>>>,
              <<"and", <<within, status>>>>, left, <<"or", <<today, total>>>>, <<"not", holds>>, holds}

\* Orders as the planner sees it, and as ANALYZE measured it.
Estimated == {[TotalCost |-> 1000], [TotalCost |-> 999]}
Weights   == {[TotalCost |-> 50, ActualRows |-> k, RowsRemovedByFilter |-> m, ActualLoops |-> l] :
                 k \in {100, 600}, m \in {100, 600}, l \in {1, 3}}

Scan(a, r, w) == [NodeType |-> "Seq Scan", Schema |-> r[1], RelationName |-> r[2], Alias |-> a] @@ w
OrdersScan(f, w) == Scan("o", orders, w) @@ [Filter |-> f]

\* <<0>> over <<0, 0>>, and so on down.
Chain(nodes) == [id \in {[i \in 1..n |-> 0] : n \in 1..Len(nodes)} |-> nodes[Len(id)]]

Filtered == {Chain(<<OrdersScan(f, w)>>) : f \in MCFilters, w \in Estimated \cup Weights}

SortKeys == {<<<<Col("o", "ts"), <<"DESC">>>>>>,
             <<<<Col("o", "status"), <<>>>>, <<Col("o", "ts"), <<"DESC", "NULLS FIRST">>>>>>,
             <<<<Col("o", "ts"), <<>>>>, <<<<"call", Col("o", "status")>>, <<>>>>>>}
SortNode(k, w) == [NodeType |-> "Sort", SortKey |-> k] @@ w
LimitNode == [NodeType |-> "Limit"]
Big   == [TotalCost |-> 2000]
Small == [TotalCost |-> 10]

Sorted == {Chain(<<SortNode(k, w), OrdersScan(f, v)>>) :
              k \in SortKeys, w \in {Big, Small}, v \in {Big, Small},
              f \in {status, <<"and", <<total, status>>>>}}
          \cup {Chain(<<LimitNode, SortNode(k, Small), OrdersScan(status, v)>>) :
                   k \in SortKeys, v \in {Big, Small}}

JoinConditions == {outer, <<"and", <<outer, Cmp(">", Col("i", "sku"), Col("o", "total"))>>>>,
                   <<"or", <<outer, total>>>>}
Join(type, field, c) == [NodeType |-> type, TotalCost |-> 5000] @@ (field :> c)
JoinOf(top, o, i) ==
    (<<0>> :> top) @@ (<<0, 0>> :> (o @@ [ParentRelationship |-> "Outer"]))
                   @@ (<<0, 1>> :> (i @@ [ParentRelationship |-> "Inner"]))

Joins == {JoinOf(Join(t[1], t[2], c), OrdersScan(f, v), Scan("i", items, w)) :
             t \in {<<"Hash Join", "HashCond">>, <<"Nested Loop", "JoinFilter">>},
             c \in JoinConditions, f \in {total, outer}, v \in {Big, Small}, w \in {Big, Small}}
         \cup {JoinOf(SortNode(k, Big), OrdersScan(status, Small), Scan("i", items, Big)) :
                  k \in {<<<<Col("o", "ts"), <<>>>>, <<Col("i", "sku"), <<>>>>>>,
                         <<<<Col("i", "sku"), <<>>>>, <<Col("i", "order_id"), <<"DESC">>>>>>}}

\* Six tables under an Append, two of them equally costly.
Six == LET cost == [n \in MCRelations |-> IF n \in {orders, items} THEN 3000 ELSE 4000]
           column == [n \in MCRelations |-> CHOOSE c \in MCColumnsOf[n] : TRUE]
       IN  (<<0>> :> [NodeType |-> "Append"]) @@
           [id \in {<<0, k>> : k \in 0..5} |->
               LET r == MCRelationOrder[id[2] + 1]
               IN  Scan("", r, [TotalCost |-> cost[r]])
                   @@ [Filter |-> Cmp("=", Col("", column[r]), Value)]]

MCPlans == Filtered \cup Sorted \cup Joins \cup {Six}

Index(terms) == [terms |-> terms, partial |-> FALSE, method |-> "btree"]
Bare == [constraints |-> {}, indexes |-> {}]
Keyed == [constraints |-> {[type |-> "primaryKey", columns |-> <<"status", "total">>],
                           [type |-> "check", columns |-> <<"ts">>]},
          indexes |-> {Index(<<"order_id">>), Index(<<"ts", "(expression)">>)}]
Indexed == [constraints |-> {}, indexes |-> {Index(<<"status", "ts", "total">>), Index(<<"(expression)">>)}]
\* A partial index, and one that is no B-tree.
Special == [constraints |-> {}, indexes |-> {[Index(<<"status", "total">>) EXCEPT !.partial = TRUE],
                                             [Index(<<"ts">>) EXCEPT !.method = "hash"]}]
MCStructures == {[r \in MCRelations |-> IF r = orders THEN a ELSE IF r = items THEN b ELSE Bare] :
                    a \in {Bare, Keyed, Indexed, Special}, b \in {Bare, Keyed}}

-----------------------------------------------------------------------------
Statement(text, columns, records, writes, draws) ==
    [text |-> text, columns |-> columns, records |-> records, writes |-> writes, draws |-> draws,
     fails |-> "never", at |-> NoPosition]
Reading(text, columns, records) == Statement(text, columns, records, {}, FALSE)
Writing(text) == Statement(text, <<>>, <<>>, {"w"}, TRUE)
Failing(s, when, at) == [s EXCEPT !.fails = when, !.at = at]

key == <<"id">>
Numbered(n) == [i \in 1..n |-> <<i>>]

Query == Reading(<<"SELECT">>, <<key, key, <<"id", 2>>, <<>>, <<>>>>, <<<<1, 2, 3, 4, 5>>>>)

MCStatements == {
    Query, Reading(<<>>, <<>>, <<>>),
    Reading(<<"--", "DELETE", "\n", "TABLE">>, <<key>>, Numbered(2)),
    Reading(<<"/*", "(", "*/", "VALUES">>, <<key>>, Numbered(3)),
    Reading(<<"WITH", "(", "SELECT", ")", "SELECT">>, <<key>>, <<>>),
    Writing(<<"DELETE">>),
    Statement(<<"INSERT", "(", "SELECT", ")">>, <<key, <<>>>>, <<<<1, 2>>>>, {"w"}, TRUE),
    Writing(<<"WITH", "(", "SELECT", ")", "INSERT">>),
    Statement(<<"WITH", "(", "DELETE", ")", "SELECT">>, <<key>>, Numbered(4), {"w"}, TRUE),
    Writing(<<"WITH", "(", "SELECT", "'", ")", "'", "SELECT", ")", "UPDATE">>),
    Writing(<<"/*", "/*", "*/", "SELECT", "*/", "UPDATE">>),
    Writing(<<"/*", "SELECT", "*/", "DELETE">>),
    Writing(<<"CREATE", "TABLE", "AS", "SELECT">>), Reading(<<"NOTIFY">>, <<>>, <<>>),
    Failing(Reading(<<"SELECT", "'", "wide", "'", "FORM">>, <<key>>, <<>>), "parsed", 5),
    Failing(Reading(<<"SELECT", "/">>, <<key>>, <<>>), "executed", NoPosition),
    Failing(Writing(<<"UPDATE">>), "executed", NoPosition)}

OnePlan == Chain(<<SortNode(<<<<Col("o", "ts"), <<"DESC">>>>>>, Small), OrdersScan(status, Small)>>)
MCPlansOf == [t \in {s.text : s \in MCStatements} |->
                 IF t = Query.text THEN MCPlans
                 ELSE IF t = <<"NOTIFY">> THEN {<<>>} ELSE {OnePlan}]

MCDrafts == {[blanks |-> 1, statement |-> Query],
             [blanks |-> 0, statement |-> Writing(<<"DELETE">>)]}
=============================================================================
