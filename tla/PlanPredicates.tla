--------------------------- MODULE PlanPredicates ---------------------------
(***************************************************************************)
(* How the index advisor reads the columns out of the predicates of an     *)
(* EXPLAIN plan (frontend/src/data/planPredicates.ts).                     *)
(*                                                                         *)
(* A condition is a small syntax tree, what Postgres holds.  Deparse is    *)
(* Postgres turning it into the text of the plan (external): a sequence of *)
(* tokens here.  ParseConditionColumns is the application's scanner over   *)
(* that text.  Sargable says, on the tree, which columns a B-tree index    *)
(* could serve; the scanner must never report another one.                 *)
(*                                                                         *)
(* A column is  <<"col", alias, name>>  or  <<"quoted", alias, name>>  (a  *)
(* name that Postgres quotes, such as one with a capital; none here holds  *)
(* a character the scanner turns on).  A term is a column,                 *)
(* <<"cast", column, width>>  (its type one word or several),              *)
(* <<"lit", shape>>  (a literal, whose text may hold a parenthesis),       *)
(* <<"call", column>>  (an expression)  or  <<"special", name>>            *)
(* (CURRENT_DATE and its like).                                            *)
(* An atom is  <<"cmp", operator, term, term>>  or  <<"not", cmp>>.        *)
(* A junct is an atom,  <<"or", atoms>>  or  <<"and", atoms>>;  a          *)
(* condition is a junct,  <<"and", juncts>>  or  <<"or", juncts>>.         *)
(***************************************************************************)
EXTENDS Integers, Sequences, FiniteSets, SequencesExt

\* ---------------------------------------------------------------- tokens
Open   == <<"(">>
Close  == <<")">>
Word(w)   == <<"word", w>>
Char(c)   == <<"op", c>>
Ident(alias, name) == <<"ident", alias, name>>
Quoted(alias, name) == <<"quoted", alias, name>>
Cast(width)  == <<"::", width>>
Literal(shape) == <<"'", shape>>

\* The comparison operators the scanner gives a role; `<>` it knows and drops.
Equality == {"="}
Range_   == {"<", "<=", ">", ">="}
Comparisons == Equality \cup Range_ \cup {"<>"}

RoleOf(op) == IF op \in Equality THEN "equality"
              ELSE IF op \in Range_ THEN "range" ELSE "none"

\* ------------------------------------------------ what Postgres may hold
Columns == {"col", "quoted"} \X STRING \X STRING

SpecialValues == {"CURRENT_DATE", "CURRENT_TIME", "CURRENT_TIMESTAMP", "LOCALTIME", "LOCALTIMESTAMP",
                  "CURRENT_USER", "SESSION_USER", "CURRENT_ROLE", "CURRENT_CATALOG", "CURRENT_SCHEMA"}

TermTrees ==
    Columns \cup ({"cast"} \X Columns \X {"one", "several"})
            \cup ({"lit"} \X {"plain", "open", "close"}) \cup ({"call"} \X Columns)
            \cup ({"special"} \X SpecialValues)

\* Operators written with a character of a comparison, and one that is not.
Lookalikes == {"<@", "@>", "<<"}

ComparisonTrees == {"cmp"} \X (Comparisons \cup Lookalikes \cup {"~~"}) \X TermTrees \X TermTrees

Atoms == ComparisonTrees \cup ({"not"} \X ComparisonTrees)

\* Connected by AND or by OR, two or more.
Connected(S) == {"and", "or"} \X {members \in Seq(S) : Len(members) >= 2}

Juncts == Atoms \cup Connected(Atoms)

Predicates == Atoms \cup Connected(Juncts)

\* ------------------------------------------ Postgres writes a predicate
ColumnToken(column) ==
    IF column[1] = "quoted" THEN Quoted(column[2], column[3]) ELSE Ident(column[2], column[3])

DeparseTerm(t) ==
    CASE t[1] \in {"col", "quoted"} -> <<ColumnToken(t)>>
      [] t[1] = "cast"    -> <<Open, ColumnToken(t[2]), Close, Cast(t[3])>>
      [] t[1] = "lit"     -> <<Literal(t[2]), Cast("one")>>
      [] t[1] = "call"    -> <<Word("lower"), Open, ColumnToken(t[2]), Close>>
      [] t[1] = "special" -> <<Ident("", t[2])>>

\* An operator of another kind is written with characters the scanner knows too.
DeparseOperator(op) ==
    CASE op \in Comparisons -> <<Char(op)>>
      [] op = "<@"          -> <<Char("<"), Word("@")>>
      [] op = "@>"          -> <<Word("@"), Char(">")>>
      [] op = "<<"          -> <<Char("<"), Char("<")>>
      [] op = "~~"          -> <<Word("~~")>>

DeparseCmp(c) ==
    <<Open>> \o DeparseTerm(c[3]) \o DeparseOperator(c[2]) \o DeparseTerm(c[4]) \o <<Close>>

DeparseAtom(a) ==
    IF a[1] = "not" THEN <<Open, Word("NOT")>> \o DeparseCmp(a[2]) \o <<Close>>
    ELSE DeparseCmp(a)

\* The texts of a conjunction or disjunction, one pair of parentheses around all.
Joined(word, texts) ==
    <<Open>> \o FlattenSeq([i \in 1..Len(texts) |->
                    IF i = 1 THEN texts[i] ELSE <<Word(word)>> \o texts[i]])
             \o <<Close>>

Connective(tag) == IF tag = "and" THEN "AND" ELSE "OR"

DeparseJunct(j) ==
    IF j[1] \in {"and", "or"}
    THEN Joined(Connective(j[1]), [i \in 1..Len(j[2]) |-> DeparseAtom(j[2][i])])
    ELSE DeparseAtom(j)

Deparse(c) ==
    IF c[1] \in {"and", "or"}
    THEN Joined(Connective(c[1]), [i \in 1..Len(c[2]) |-> DeparseJunct(c[2][i])])
    ELSE DeparseJunct(c)

\* --------------------------------------------- the application reads it
Count(text, i, tokens) == Cardinality({k \in 1..i : text[k] \in tokens})

DepthAt(text, i) == Count(text, i, {Open}) - Count(text, i, {Close})

\* stripOuterParens counts the parentheses inside a literal as well.
RawDepthAt(text, i) == Count(text, i, {Open, Literal("open")})
                       - Count(text, i, {Close, Literal("close")})

\* The places forEachTopLevelChar visits.
TopLevel(text) == {i \in DOMAIN text : DepthAt(text, i) = 0 /\ text[i] \notin {Open, Close}}

\* The members of a finite set, sorted by a strict total order.
InOrder(S, before(_, _)) ==
    [i \in 1..Cardinality(S) |-> CHOOSE x \in S : Cardinality({y \in S : before(y, x)}) = i - 1]

\* One layer off, when the first parenthesis closes at the very end.
StripOuterParens(text) ==
    IF /\ Len(text) >= 2 /\ text[1] = Open /\ text[Len(text)] = Close
       /\ RawDepthAt(text, Len(text)) = 0
       /\ \A i \in 1..(Len(text) - 1) : RawDepthAt(text, i) # 0
    THEN SubSeq(text, 2, Len(text) - 1)
    ELSE text

\* The column a side names: <<ref>>, or <<>> for an expression.  Parentheses and
\* casts come off in either order, as far as they go, so what is left is a bare
\* column when there was nothing else: (, (, column, ), ::type, ).  A quoted name
\* is none; a special value is written as a bare one.
ParseColumnTerm(text) ==
    LET at == {i \in DOMAIN text : text[i][1] = "ident"}
        p  == CHOOSE i \in at : TRUE
    IN  IF /\ Cardinality(at) = 1
           /\ \A i \in 1..(p - 1) : text[i] = Open
           /\ \A i \in (p + 1)..Len(text) : text[i] \in {Close, Cast("one")}
           /\ DepthAt(text, Len(text)) = 0
        THEN <<[alias |-> text[p][2], column |-> text[p][3]]>>
        ELSE <<>>

\* Reported with the role of the comparison.
RefsOf(text, role) ==
    LET refs == ParseColumnTerm(text)
    IN  [i \in 1..Len(refs) |-> [alias |-> refs[i].alias, column |-> refs[i].column, role |-> role]]

ParseConjunct(raw) ==
    LET term == StripOuterParens(raw)
        ops  == {i \in TopLevel(term) : term[i][1] = "op"}
        op   == CHOOSE i \in ops : \A j \in ops : i <= j
        role == RoleOf(term[op][2])
    IN  IF ops = {} \/ role = "none" THEN <<>>
        ELSE RefsOf(SubSeq(term, 1, op - 1), role) \o RefsOf(SubSeq(term, op + 1, Len(term)), role)

\* The parts of a text between some of its places.
CutAt(text, places) ==
    LET cuts == <<0>> \o InOrder(places, <) \o <<Len(text) + 1>>
    IN  [k \in 1..(Len(cuts) - 1) |-> SubSeq(text, cuts[k] + 1, cuts[k + 1] - 1)]

\* Mutant of SplitConjuncts: an OR separates conjuncts as an AND does.
SplitAtOr(condition) ==
    LET text == StripOuterParens(condition)
    IN  CutAt(text, {i \in TopLevel(text) : text[i] \in {Word("AND"), Word("OR")}})

\* The conjuncts of a condition; <<>> when a top-level OR poisons it all.
SplitConjuncts(condition) ==
    LET text == StripOuterParens(condition)
        top  == TopLevel(text)
    IN  IF \E i \in top : text[i] = Word("OR") THEN <<>>
        ELSE CutAt(text, {i \in top : text[i] = Word("AND")})

ParseConditionColumns(condition) ==
    LET conjuncts == SplitConjuncts(condition)
    IN  FlattenSeq([k \in 1..Len(conjuncts) |-> ParseConjunct(conjuncts[k])])

\* A sort key term is a term and its ordering (ASC, DESC, NULLS ...): words after it.
DeparseSortTerm(k) == DeparseTerm(k[1]) \o [i \in 1..Len(k[2]) |-> Word(k[2][i])]

SortModifiers == {Word("DESC"), Word("ASC"), Word("NULLS FIRST"), Word("NULLS LAST")}

\* Its ordering stripped, then a bare column; one term that is not drops the key.
ParseSortKeyColumns(keys) ==
    LET bare(text) == SelectSeq(text, LAMBDA t : t \notin SortModifiers)
        refs == [i \in 1..Len(keys) |-> ParseColumnTerm(bare(keys[i]))]
    IN  IF \E i \in DOMAIN refs : refs[i] = <<>> THEN <<>> ELSE FlattenSeq(refs)

\* --------------------------------------------------- what is right to read
\* The columns of the tree an index could serve, in order.
ColumnOf(t, role) ==
    CASE t[1] \in {"col", "quoted"} -> <<[alias |-> t[2], column |-> t[3], role |-> role]>>
      [] t[1] = "cast" -> <<[alias |-> t[2][2], column |-> t[2][3], role |-> role]>>
      [] OTHER         -> <<>>

SargableAtom(a) ==
    IF a[1] = "cmp" /\ a[2] \in Equality \cup Range_
    THEN ColumnOf(a[3], RoleOf(a[2])) \o ColumnOf(a[4], RoleOf(a[2]))
    ELSE <<>>

SargableJunct(j) == IF j[1] \in {"and", "or"} THEN <<>> ELSE SargableAtom(j)

Sargable(c) ==
    CASE c[1] = "and" -> FlattenSeq([i \in 1..Len(c[2]) |-> SargableJunct(c[2][i])])
      [] c[1] = "or"  -> <<>>
      [] OTHER        -> SargableAtom(c)

\* What the scanner may miss: a parenthesis in a literal, a type of several
\* words, a quoted name.
Obscure(t) == \/ t[1] = "lit" /\ t[2] \in {"open", "close"}
              \/ t[1] = "cast" /\ (t[3] = "several" \/ t[2][1] = "quoted")
              \/ t[1] = "quoted"

Compared(a) == IF a[1] = "not" THEN a[2] ELSE a

Terms(a) == {Compared(a)[3], Compared(a)[4]}

TermsIn(j) == IF j[1] \in {"and", "or"} THEN UNION {Terms(j[2][i]) : i \in DOMAIN j[2]}
              ELSE Terms(j)

TermsOf(c) == IF c[1] \in {"and", "or"} THEN UNION {TermsIn(c[2][i]) : i \in DOMAIN c[2]}
              ELSE TermsIn(c)

AtomsIn(j) == IF j[1] \in {"and", "or"} THEN {j[2][i] : i \in DOMAIN j[2]} ELSE {j}

AtomsOf(c) == IF c[1] \in {"and", "or"} THEN UNION {AtomsIn(c[2][i]) : i \in DOMAIN c[2]} ELSE {c}

\* What the scanner reads wrongly: an operator that begins or ends as a
\* comparison does, and a special value, which looks like a column.
MisreadAtom(a) == Compared(a)[2] \in Lookalikes \/ \E t \in Terms(a) : t[1] = "special"

Misread(c) == \E a \in AtomsOf(c) : MisreadAtom(a)

(***************************************************************************)
(* The scanner never reports a column the tree does not compare, nor with  *)
(* another role; and it reports them all, in order, unless a literal, a    *)
(* type or a quoted name of the condition is one it gives up on.  Exempt   *)
(* are conditions that hold one of Lookalikes or SpecialValues: of these   *)
(* findTopLevelOperator (planPredicates.ts:262) takes the < of <@ and <<   *)
(* and the > of @> as a range, and parseColumnTerm (:177) the name         *)
(* CURRENT_DATE as a column, although the header (:12-20) says that any    *)
(* other operator or side is dropped, "never mis-read".                    *)
(***************************************************************************)
ReadsTrue(c) ==
    LET read == ParseConditionColumns(Deparse(c))
        true == Sargable(c)
    IN  ~Misread(c) =>
            /\ \A i \in DOMAIN read : \E j \in DOMAIN true : read[i] = true[j]
            /\ (\A t \in TermsOf(c) : ~Obscure(t)) => read = true
=============================================================================
