---------------------------- MODULE IndexAdvisor ----------------------------
(***************************************************************************)
(* The heuristic index advisor (frontend/src/data/suggestIndexes.ts) and   *)
(* the Explain diagram tab that shows its suggestions beside the plan      *)
(* (dock/ExplainDiagramPanel.ts, dock/IndexSuggestionsView.ts).            *)
(*                                                                         *)
(* A plan arrives as JSON: a function from node paths (<<0>> is the first  *)
(* root, <<0, 1>> its second child) to sparse records, the fields Postgres *)
(* sent.  The advisor collects one candidate per relation, asks the server *)
(* for the structure of each relation, all at once, and when every request *)
(* has landed or failed, keeps and ranks what no existing index serves.    *)
(*                                                                         *)
(* Predicates are the trees of PlanPredicates, read through their text.    *)
(* External: Postgres, which writes the plan and answers the requests.     *)
(***************************************************************************)
EXTENDS PlanPredicates, FkCardinality, TLC

CONSTANTS
    Relations,      \* the tables, as <<schema, name>>
    ColumnsOf,      \* [Relations -> sets of column names]
    Plans,          \* the JSON plans Postgres may send
    Structures,     \* what the server may hold: [Relations -> structure]
    RelationOrder   \* the relations in the order of their names

VARIABLES
    plan,        \* the plan, parsed
    structure,   \* each relation's constraints and indexes on the server
    phase,       \* "idle" -> "explained" -> "loading" -> "shown"
    candidates,  \* the candidates collected, one per relation
    loads,       \* the requests: relation -> "pending", "ok" or "failed"
    suggestions, \* the suggestions shown, ranked
    dialog       \* what the create-index dialog was opened with

advisor_vars == <<plan, structure, phase, candidates, loads, suggestions, dialog>>

Absent == -1
NoText == ""
NoCondition == <<>>

MinScannedRows   == 1000
MinEstimatedCost == 1000
MaxIndexColumns  == 3
MaxSuggestions   == 5
JoinNodeTypes    == {"Hash Join", "Merge Join", "Nested Loop"}

\* ------------------------------------------------------------- the plan read
Field(raw, name, absent) == IF name \in DOMAIN raw THEN raw[name] ELSE absent

ParseNode(raw) ==
    [nodeType           |-> Field(raw, "NodeType", NoText),
     schema             |-> Field(raw, "Schema", NoText),
     relationName       |-> Field(raw, "RelationName", NoText),
     alias              |-> Field(raw, "Alias", NoText),
     parentRelationship |-> Field(raw, "ParentRelationship", NoText),
     totalCost          |-> Field(raw, "TotalCost", Absent),
     actualRows         |-> Field(raw, "ActualRows", Absent),
     actualLoops        |-> Field(raw, "ActualLoops", Absent),
     rowsRemoved        |-> Field(raw, "RowsRemovedByFilter", Absent),
     filter             |-> Field(raw, "Filter", NoCondition),
     hashCond           |-> Field(raw, "HashCond", NoCondition),
     mergeCond          |-> Field(raw, "MergeCond", NoCondition),
     joinFilter         |-> Field(raw, "JoinFilter", NoCondition),
     sortKey            |-> Field(raw, "SortKey", NoCondition)]

ParseExplainPlan(raw) == [id \in DOMAIN raw |-> ParseNode(raw[id])]

NoNode == ParseNode(<<>>)

\* A plan as Postgres sends it: its nodes are at paths of child numbers.
ConditionFields == {"Filter", "HashCond", "MergeCond", "JoinFilter"}

IsPlanJson(raw) ==
    /\ IsFiniteSet(DOMAIN raw) /\ DOMAIN raw \subseteq Seq(Nat)
    /\ \A id \in DOMAIN raw : \A field \in DOMAIN raw[id] \cap ConditionFields :
          raw[id][field] \in Predicates

\* Depth first, a parent before its children: the order of the text plan.
Before(a, b) ==
    \/ IsStrictPrefix(a, b)
    \/ \E i \in DOMAIN a \cap DOMAIN b :
          SubSeq(a, 1, i - 1) = SubSeq(b, 1, i - 1) /\ a[i] < b[i]

PlanOrder(p) == InOrder(DOMAIN p, Before)

ParentOf(p, id) == IF Len(id) > 1 THEN p[Front(id)] ELSE NoNode

Or0(n) == IF n = Absent THEN 0 ELSE n
Or1(n) == IF n = Absent THEN 1 ELSE n
AliasOf(node) == IF node.alias # NoText THEN node.alias ELSE node.relationName

\* ------------------------------------------------------------------- gates
NodeWeight(p, id) ==
    LET node == p[id]  parent == ParentOf(p, id)
    IN  IF node.actualRows # Absent
        THEN [value |-> (node.actualRows + Or0(node.rowsRemoved)) * Or1(node.actualLoops),
              measured |-> TRUE]
        ELSE IF node.parentRelationship = "Inner" /\ parent.nodeType = "Nested Loop"
        THEN [value |-> Or0(parent.totalCost), measured |-> FALSE]
        ELSE [value |-> Or0(node.totalCost), measured |-> FALSE]

PassesSizeGate(w) == w.value >= (IF w.measured THEN MinScannedRows ELSE MinEstimatedCost)

\* At least half of what was read must be discarded; measured plans only.
PassesDiscardRatio(node, w) ==
    w.measured => LET removed == Or0(node.rowsRemoved)
                      total   == removed + Or0(node.actualRows)
                  IN  total > 0 /\ 2 * removed >= total

ContributionCost(node, w) == IF w.measured THEN Or0(node.totalCost) ELSE w.value

\* ------------------------------------------------------------ contributions
\* The Seq Scans below a node by alias; of two the later in plan order stays.
ScanOf(p, top, alias) ==
    LET scans == SelectSeq(PlanOrder(p), LAMBDA id :
                     /\ IsStrictPrefix(top, id)
                     /\ p[id].nodeType = "Seq Scan" /\ p[id].relationName # NoText
                     /\ AliasOf(p[id]) = alias)
    IN  IF scans = <<>> \/ alias = NoText THEN <<>> ELSE Last(scans)

\* The one scan every reference is to; <<>> when there is none.
ResolveSingleRelation(p, top, refs) ==
    LET scans == {ScanOf(p, top, refs[i].alias) : i \in DOMAIN refs}
    IN  IF Cardinality(scans) = 1 THEN CHOOSE s \in scans : TRUE ELSE <<>>

Contribution(p, scan, id, why, w, evidence) ==
    [relation |-> <<p[scan].schema, p[scan].relationName>>, nodeId |-> id, why |-> why,
     weight |-> w, cost |-> ContributionCost(p[id], w), evidence |-> evidence]

Evidence(ref, role) == [column |-> ref.column, role |-> role]

SeqScanFilterContribution(p, id) ==
    LET node == p[id]
        refs == SelectSeq(ParseConditionColumns(Deparse(node.filter)),
                          LAMBDA r : r.alias \in {NoText, AliasOf(node)})
        w    == NodeWeight(p, id)
    IN  IF /\ node.nodeType = "Seq Scan"
           /\ node.filter # NoCondition /\ node.relationName # NoText /\ node.schema # NoText
           /\ refs # <<>> /\ PassesSizeGate(w) /\ PassesDiscardRatio(node, w)
        THEN <<Contribution(p, id, id, "filter", w,
                            [i \in DOMAIN refs |-> Evidence(refs[i], refs[i].role)])>>
        ELSE <<>>

\* Under a Limit the sort is worth an index whatever its size.
SortKeyContribution(p, id) ==
    LET node   == p[id]
        refs   == ParseSortKeyColumns([i \in DOMAIN node.sortKey |-> DeparseSortTerm(node.sortKey[i])])
        scan   == ResolveSingleRelation(p, id, refs)
        w      == NodeWeight(p, id)
        isTopN == ParentOf(p, id).nodeType = "Limit"
    IN  IF /\ node.nodeType = "Sort" /\ refs # <<>> /\ scan # <<>>
           /\ p[scan].schema # NoText
           /\ isTopN \/ PassesSizeGate(w)
        THEN <<Contribution(p, scan, id, IF isTopN THEN "top-N sort" ELSE "sort", w,
                            [i \in DOMAIN refs |-> Evidence(refs[i], "sort")])>>
        ELSE <<>>

JoinCondition(node) ==
    IF node.hashCond # NoCondition THEN node.hashCond
    ELSE IF node.mergeCond # NoCondition THEN node.mergeCond ELSE node.joinFilter

\* One contribution for each side whose scan is itself large enough.
JoinConditionContributions(p, id) ==
    LET node == p[id]
        refs == ParseConditionColumns(Deparse(JoinCondition(node)))
        side(r) == LET scan == ScanOf(p, id, r.alias)
                   IN  IF scan # <<>> /\ p[scan].schema # NoText
                          /\ PassesSizeGate(NodeWeight(p, scan))
                       THEN <<Contribution(p, scan, scan, node.nodeType, NodeWeight(p, scan),
                                           <<Evidence(r, r.role)>>)>>
                       ELSE <<>>
    IN  IF node.nodeType \in JoinNodeTypes /\ JoinCondition(node) # NoCondition
        THEN FlattenSeq([i \in DOMAIN refs |-> side(refs[i])])
        ELSE <<>>

Contributions(p) ==
    LET ids == PlanOrder(p)
    IN  FlattenSeq([i \in DOMAIN ids |-> SeqScanFilterContribution(p, ids[i])
                                         \o SortKeyContribution(p, ids[i])
                                         \o JoinConditionContributions(p, ids[i])])

\* --------------------------------------------------------------- candidates
Strength == [equality |-> 0, sort |-> 1, range |-> 2]

\* The first of each value of f over a sequence, in order.
FirstBy(s, f(_)) ==
    LET firsts == SelectSeq([i \in DOMAIN s |-> i],
                            LAMBDA i : \A j \in 1..(i - 1) : f(s[j]) # f(s[i]))
    IN  [k \in DOMAIN firsts |-> s[firsts[k]]]

\* Mutant of OrderColumns: the columns as first seen.
OrderAsSeen(evidence) ==
    LET columns == FirstBy([i \in DOMAIN evidence |-> evidence[i].column], LAMBDA c : c)
    IN  SubSeq(columns, 1, IF Len(columns) < MaxIndexColumns THEN Len(columns) ELSE MaxIndexColumns)

\* Equality columns, then sort keys, then ranges; each in its strongest role,
\* in the order first seen.
OrderColumns(evidence) ==
    LET columns    == FirstBy([i \in DOMAIN evidence |-> evidence[i].column], LAMBDA c : c)
        as(c, r)   == \E i \in DOMAIN evidence : evidence[i].column = c /\ evidence[i].role = r
        strongest(c, r) == as(c, r) /\ \A q \in DOMAIN Strength :
                                          Strength[q] < Strength[r] => ~as(c, q)
        inRole(r)  == SelectSeq(columns, LAMBDA c : strongest(c, r))
        ordered    == inRole("equality") \o inRole("sort") \o inRole("range")
    IN  SubSeq(ordered, 1, IF Len(ordered) < MaxIndexColumns THEN Len(ordered) ELSE MaxIndexColumns)

Largest(S) == CHOOSE n \in S : \A m \in S : m <= n

CandidateFor(r, contributions) ==
    LET own      == SelectSeq(contributions, LAMBDA c : c.relation = r)
        entries  == FirstBy(own, LAMBDA c : c.nodeId)
        measured == {i \in DOMAIN entries : entries[i].weight.measured}
    IN  [relation    |-> r,
         columns     |-> OrderColumns(FlattenSeq([i \in DOMAIN own |-> own[i].evidence])),
         reasons     |-> [i \in DOMAIN entries |-> entries[i].why],
         nodeIds     |-> [i \in DOMAIN entries |-> entries[i].nodeId],
         rowsScanned |-> IF measured = {} THEN Absent
                         ELSE Largest({entries[i].weight.value : i \in measured}),
         cost        |-> Largest({entries[i].cost : i \in DOMAIN entries})]

\* Functions of the plans parsed, so that TLC computes each value once.
ParsedPlans == {ParseExplainPlan(p) : p \in Plans}

ContributionsOf == [p \in ParsedPlans |-> Contributions(p)]

CollectIndexCandidates ==
    [p \in ParsedPlans |->
        {CandidateFor(r, ContributionsOf[p]) : r \in {c.relation : c \in ToSet(ContributionsOf[p])}}]

\* ----------------------------------------------------- coverage and ranking
\* Dropped too: the candidates of a relation whose structure did not come.
RejectCoveredCandidates(all) ==
    {c \in all : loads[c.relation] = "ok"
                        /\ ~IsColumnPrefixIndexed(c.columns, structure[c.relation])}

PositionOf(r) == CHOOSE i \in DOMAIN RelationOrder : RelationOrder[i] = r
Worth(c) == IF c.rowsScanned # Absent THEN c.rowsScanned ELSE c.cost

RanksBefore(a, b) ==
    IF Worth(a) # Worth(b) THEN Worth(a) > Worth(b)
    ELSE IF Len(a.nodeIds) # Len(b.nodeIds) THEN Len(a.nodeIds) > Len(b.nodeIds)
    ELSE PositionOf(a.relation) < PositionOf(b.relation)

RankCandidates(kept) ==
    LET ranked == InOrder(kept, RanksBefore)
    IN  SubSeq(ranked, 1, IF Len(ranked) < MaxSuggestions THEN Len(ranked) ELSE MaxSuggestions)

\* ------------------------------------------------------------------ actions
InitAdvisor ==
    /\ plan = <<>>
    /\ structure \in Structures
    /\ phase = "idle" /\ candidates = {} /\ loads = <<>> /\ suggestions = <<>> /\ dialog = <<>>

\* The candidates are collected, and one request goes out for each relation.
RequestStructures ==
    /\ phase = "explained"
    /\ phase' = "loading"
    /\ candidates' = CollectIndexCandidates[plan]
    /\ loads' = [r \in {c.relation : c \in candidates'} |-> "pending"]
    /\ UNCHANGED <<plan, structure, suggestions, dialog>>

\* A request lands, or fails; the others go on.
StructureSettles(r, outcome) ==
    /\ phase = "loading" /\ loads[r] = "pending"
    /\ loads' = [loads EXCEPT ![r] = outcome]
    /\ UNCHANGED <<plan, structure, phase, candidates, suggestions, dialog>>

AllSettled == \A r \in DOMAIN loads : loads[r] # "pending"

\* The diagram tab opens, with the strip when there is a suggestion.
ShowDiagramTab ==
    /\ phase = "loading" /\ AllSettled
    /\ phase' = "shown"
    /\ suggestions' = RankCandidates(RejectCoveredCandidates(candidates))
    /\ UNCHANGED <<plan, structure, candidates, loads, dialog>>

\* The row selected in the strip opens the dialog on its relation and columns.
CreateIndex(i) ==
    /\ phase = "shown"
    /\ dialog' = <<suggestions[i].relation, suggestions[i].columns>>
    /\ UNCHANGED <<plan, structure, phase, candidates, loads, suggestions>>

\* The plan tree of an EXPLAIN lands; one without a root opens nothing.
PlanLands(p) ==
    /\ phase = "idle"
    /\ plan' = p
    /\ phase' = IF p = <<>> THEN "idle" ELSE "explained"
    /\ UNCHANGED <<structure, candidates, loads, suggestions, dialog>>

AdvisorNext ==
    \/ RequestStructures
    \/ \E r \in DOMAIN loads, outcome \in {"ok", "failed"} : StructureSettles(r, outcome)
    \/ ShowDiagramTab
    \/ \E i \in DOMAIN suggestions : CreateIndex(i)

\* --------------------------------------------------------------- properties
Conditions ==
    (UNION {{n.filter, JoinCondition(n)} : n \in {plan[id] : id \in DOMAIN plan}}) \ {NoCondition}

(***************************************************************************)
(* Every predicate of the plan is read true: no column it does not         *)
(* compare, and all those it does (planPredicates.ts, "drops, never        *)
(* mis-reads"); but for the operators and special values that the scanner  *)
(* does misread, and what it gives up on (ReadsTrue).                      *)
(***************************************************************************)
PredicatesReadTrue == phase = "explained" => \A c \in Conditions : ReadsTrue(c)

\* The roles the candidate of r gave to a column.
RolesOf(r, column) ==
    LET own == {c \in ToSet(ContributionsOf[plan]) : c.relation = r}
    IN  UNION {{e.role : e \in {x \in ToSet(c.evidence) : x.column = column}} : c \in own}

(***************************************************************************)
(* What the strip suggests can be created and used: the columns are the    *)
(* relation's own, none twice, and none follows a column that is only ever *)
(* compared by range, after which a B-tree no longer narrows the search.   *)
(* Exempt is a special value taken for a column (planPredicates.ts:177):   *)
(* it has no alias, so the filter's scan takes it for one of its relation  *)
(* (suggestIndexes.ts:292), and the index suggested cannot be created.     *)
(***************************************************************************)
ColumnsUsable ==
    \A i \in DOMAIN suggestions :
        LET s == suggestions[i]
        IN  /\ ToSet(s.columns) \subseteq ColumnsOf[s.relation] \cup SpecialValues
            /\ IsInjective(s.columns) /\ Len(s.columns) \in 1..MaxIndexColumns
            /\ \A j, k \in DOMAIN s.columns :
                  j < k /\ RolesOf(s.relation, s.columns[j]) = {"range"}
                     => RolesOf(s.relation, s.columns[k]) = {"range"}

\* A B-tree orders the rows by its terms, one after the other.  It serves a
\* lookup on columns when the rows that agree on the first of them, however many,
\* lie together in that order.
LiesBefore(terms, r, s) ==
    \E i \in DOMAIN terms : r[terms[i]] < s[terms[i]] /\ \A j \in 1..(i - 1) : r[terms[j]] = s[terms[j]]

Together(terms, columns) ==
    LET rows == [ToSet(terms) \cup ToSet(columns) -> 0..1]
        agree(r, s, n) == \A i \in 1..n : r[columns[i]] = s[columns[i]]
    IN  \A n \in DOMAIN columns : \A r, t \in rows :
            agree(r, t, n) => \A s \in rows :
                ~LiesBefore(terms, s, r) /\ ~LiesBefore(terms, t, s) => agree(r, s, n)

Suggestible == {c.columns : c \in UNION {CollectIndexCandidates[p] : p \in ParsedPlans}}
TermLists ==
    UNION {UNION {{k.columns : k \in {k \in st[r].constraints : IsKey(k)}} \cup {x.terms : x \in st[r].indexes}
                    : r \in Relations} : st \in Structures}
\* A function, so that TLC computes each value once.
Serves == [terms \in TermLists, columns \in Suggestible |-> Together(terms, columns)]

ServingIndexes(columns, s) == {x \in s.indexes : Serves[x.terms, columns]}
KeyServes(columns, s) == \E c \in s.constraints : IsKey(c) /\ Serves[c.columns, columns]

\* Whether the index can be searched for every row of the table.
Whole(x) == x.method = "btree" /\ ~x.partial
Legible(x) == "(expression)" \notin ToSet(x.terms)

(***************************************************************************)
(* The strip shows what is missing and could be checked: nothing that a    *)
(* key or an index serves already, nothing of a relation whose structure   *)
(* did not come; and a request that failed costs only its own relation's   *)
(* suggestion.  One is left out only for an index that serves it, or for   *)
(* five that rank above it.  Exempt are two readings of an index by        *)
(* fkCardinality.ts: one with an expression among its terms counts for     *)
(* nothing (:62-66), so that what it serves may be suggested again; and    *)
(* one that is partial or no B-tree counts as if it were neither           *)
(* (:200-213, where its doc speaks of "that index's underlying B-tree"),   *)
(* so that what it does not serve may be left out.                         *)
(***************************************************************************)
SuggestsWhatIsMissing ==
    phase = "shown" =>
        LET shown   == ToSet(suggestions)
            checked == {c \in candidates : loads[c.relation] = "ok"}
            serving(c) == ServingIndexes(c.columns, structure[c.relation])
        IN  /\ shown \subseteq checked /\ Cardinality(shown) = Len(suggestions)
            /\ \A c \in shown : /\ ~KeyServes(c.columns, structure[c.relation])
                                /\ \A x \in serving(c) : Whole(x) => ~Legible(x)
            /\ \A c \in checked \ shown :
                  \/ KeyServes(c.columns, structure[c.relation])
                  \/ \E x \in serving(c) : Whole(x) \/ Legible(x)
                  \/ Len(suggestions) = 5 /\ \A s \in shown : Worth(s) >= Worth(c)

(***************************************************************************)
(* What the strip shows can be created, would be used, is missing, and is  *)
(* all that is, but for what ColumnsUsable and SuggestsWhatIsMissing       *)
(* exempt: special values, and indexes whose kind the code does not read.  *)
(***************************************************************************)
SuggestionsUseful == ColumnsUsable /\ SuggestsWhatIsMissing
=============================================================================
