-------------------------- MODULE ImportRowsProofs --------------------------
EXTENDS ImportRows, FiniteSetTheorems, SequenceTheorems, TLAPS

LEMMA SmallestIndex ==
  ASSUME NEW S, S \subseteq Nat, S # {}
  PROVE  \E n \in S : \A m \in S : n <= m
<1>1. IsWellFoundedOn(OpToRel(<, Nat), Nat)
  BY NatLessThanWellFounded
<1>2. PICK n \in S : \A m \in S : ~ (<<m, n>> \in OpToRel(<, Nat))
  BY <1>1, WFMin
<1>3. \A m \in S : ~ (m < n)
  BY <1>2 DEF OpToRel
<1> QED
  BY <1>3

\* Induction over an interval, for a set of good numbers.
LEMMA Climb ==
  ASSUME NEW n \in Nat, NEW Good, 0 \in Good,
         \A i \in 0 .. n - 1 : i \in Good => i + 1 \in Good
  PROVE  \A i \in 0 .. n : i \in Good
<1> DEFINE Bad == {i \in 0 .. n : i \notin Good}
<1>1. SUFFICES ASSUME Bad # {} PROVE FALSE
  OBVIOUS
<1>2. PICK i \in Bad : \A j \in Bad : i <= j
  <2>1. Bad \subseteq Nat
    OBVIOUS
  <2> HIDE DEF Bad
  <2> QED
    BY <1>1, <2>1, SmallestIndex
<1>3. i \in 0 .. n /\ i \notin Good /\ i # 0
  BY <1>2
<1>4. i - 1 \in 0 .. n - 1 /\ i - 1 \in 0 .. n /\ ~ (i <= i - 1)
  BY <1>3
<1>5. i - 1 \in Good
  BY <1>2, <1>4
<1>6. (i - 1) + 1 \in Good
  BY <1>4, <1>5
<1>7. (i - 1) + 1 = i
  BY <1>3
<1> QED
  BY <1>3, <1>6, <1>7

\* Recursion over an interval is well founded.
Follows(n, a, G, f) == f[0] = a /\ \A i \in 1 .. n : f[i] = G[i][f[i - 1]]

LEMMA RecursionExists ==
  ASSUME NEW S, NEW n \in Nat, NEW a \in S, NEW G \in [1 .. n -> [S -> S]]
  PROVE  \E f \in [0 .. n -> S] : Follows(n, a, G, f)
<1> DEFINE Upto(k, f) == f[0] = a /\ \A i \in 1 .. k : f[i] = G[i][f[i - 1]]
           Good == {k \in 0 .. n : \E f \in [0 .. k -> S] : Upto(k, f)}
<1>1. 0 \in Good
  <2> DEFINE f == [i \in 0 .. 0 |-> a]
  <2>1. f \in [0 .. 0 -> S] /\ Upto(0, f)
    OBVIOUS
  <2> HIDE DEF f
  <2>2. 0 \in 0 .. n
    OBVIOUS
  <2> QED
    BY <2>1, <2>2
<1>2. ASSUME NEW k \in 0 .. n - 1, k \in Good
      PROVE  k + 1 \in Good
  <2>1. PICK g \in [0 .. k -> S] : Upto(k, g)
    BY <1>2
  <2> DEFINE f == [i \in 0 .. k + 1 |-> IF i = k + 1 THEN G[k + 1][g[k]] ELSE g[i]]
  <2>2. k + 1 \in 1 .. n /\ k \in 0 .. k /\ g[k] \in S
    OBVIOUS
  <2>3. G[k + 1][g[k]] \in S
    BY <2>2
  <2>4. f \in [0 .. k + 1 -> S]
    BY <2>3
  <2>5. \A i \in 0 .. k : f[i] = g[i]
    OBVIOUS
  <2>6. f[k + 1] = G[k + 1][f[k]]
    <3>1. f[k + 1] = G[k + 1][g[k]]
      OBVIOUS
    <3>2. f[k] = g[k]
      BY <2>2, <2>5
    <3> HIDE DEF f
    <3> QED
      BY <3>1, <3>2
  <2>7. \A i \in 1 .. k : f[i] = G[i][f[i - 1]]
    <3>1. TAKE i \in 1 .. k
    <3>2. i \in 0 .. k /\ i - 1 \in 0 .. k
      OBVIOUS
    <3>3. f[i] = g[i] /\ f[i - 1] = g[i - 1]
      BY <2>5, <3>2
    <3> QED
      BY <2>1, <3>3
  <2>8. f[0] = a
    BY <2>1, <2>5
  <2> HIDE DEF f
  <2>9. \A i \in 1 .. k + 1 : f[i] = G[i][f[i - 1]]
    <3>1. TAKE i \in 1 .. k + 1
    <3>2. i \in 1 .. k \/ i = k + 1
      OBVIOUS
    <3>3. (k + 1) - 1 = k
      OBVIOUS
    <3> QED
      BY <2>6, <2>7, <3>2, <3>3
  <2>10. Upto(k + 1, f)
    BY <2>8, <2>9
  <2> QED
    BY <2>2, <2>4, <2>10
<1> HIDE DEF Good
<1>3. \A i \in 0 .. n : i \in Good
  BY <1>1, <1>2, Climb
<1>4. n \in Good
  BY <1>3
<1> QED
  BY <1>4 DEF Good, Follows

LEMMA ShortSeqs ==
  ASSUME NEW S, NEW x \in S, NEW y \in S
  PROVE  /\ <<x>> \in Seq(S) /\ Len(<<x>>) = 1 /\ <<x>>[1] = x
         /\ <<x, y>> \in Seq(S) /\ Len(<<x, y>>) = 2 /\ <<x, y>>[1] = x /\ <<x, y>>[2] = y
  OBVIOUS

LEMMA SeqFromTo ==
  ASSUME NEW X, NEW n \in Nat, NEW s, s = [i \in 1 .. n |-> s[i]], \A i \in 1 .. n : s[i] \in X
  PROVE  s \in Seq(X) /\ Len(s) = n
<1> DEFINE e(i) == s[i]
<1>1. \A i \in 1 .. n : e(i) \in X
  OBVIOUS
<1>2. s = [i \in 1 .. n |-> e(i)]
  OBVIOUS
<1> HIDE DEF e
<1>3. s \in Seq(X)
  BY <1>1, <1>2, IsASeq
<1>4. DOMAIN s = 1 .. n
  BY <1>2
<1> QED
  BY <1>3, <1>4, LenProperties

-----------------------------------------------------------------------------
(* Flattening.                                                             *)

FlattenStep(ss, f, i) == IF i = 1 THEN ss[i] ELSE f[i - 1] \o ss[i]

FlattenFn(ss, f) == f = [i \in 1 .. Len(ss) |-> FlattenStep(ss, f, i)]

\* h[i] is what the first i sequences are, one after another.
RunsUp(ss, h) == h[0] = <<>> /\ \A i \in 1 .. Len(ss) : h[i] = h[i - 1] \o ss[i]

LEMMA Flattened ==
  ASSUME NEW X, NEW ss \in Seq(Seq(X))
  PROVE  \E h \in [0 .. Len(ss) -> Seq(X)] : RunsUp(ss, h) /\ FlattenSeq(ss) = h[Len(ss)]
<1> DEFINE S == Seq(X)
           n == Len(ss)
           G == [i \in 1 .. n |-> [x \in S |-> x \o ss[i]]]
<1>1. n \in Nat /\ \A i \in 1 .. n : ss[i] \in S
  BY LenProperties, ElementOfSeq
<1>2. <<>> \in S
  OBVIOUS
<1>3. G \in [1 .. n -> [S -> S]]
  BY <1>1, ConcatProperties
<1>4. PICK h \in [0 .. n -> S] : h[0] = <<>> /\ \A i \in 1 .. n : h[i] = G[i][h[i - 1]]
  <2> DEFINE none == <<>>
  <2>1. n \in Nat /\ none \in S
    BY <1>1, <1>2
  <2> HIDE DEF S, n, G, none
  <2>3. n \in Nat
    BY <2>1
  <2>4. none \in S
    BY <2>1
  <2>5. G \in [1 .. n -> [S -> S]]
    BY <1>3
  <2>2. \E f \in [0 .. n -> S] : Follows(n, none, G, f)
    BY <2>3, <2>4, <2>5, RecursionExists
  <2> QED
    BY <2>2 DEF none, Follows
<1>5. \A i \in 1 .. n : h[i] = h[i - 1] \o ss[i] /\ i - 1 \in 0 .. n
  <2>1. TAKE i \in 1 .. n
  <2>2. i - 1 \in 0 .. n
    BY <1>1
  <2>3. h[i - 1] \in S
    BY <2>2
  <2>4. G[i][h[i - 1]] = h[i - 1] \o ss[i]
    BY <2>3
  <2> QED
    BY <1>4, <2>2, <2>4
<1>6. CASE n = 0
  <2>1. ss = <<>>
    BY <1>1, <1>6
  <2> QED
    BY <1>4, <1>5, <1>6, <2>1 DEF FlattenSeq, RunsUp
<1>7. CASE n # 0
  <2> DEFINE e == [i \in 1 .. n |-> h[i]]
             f == CHOOSE g : FlattenFn(ss, g)
  <2>0. 1 \in 1 .. n /\ h[1] = <<>> \o ss[1] /\ ss[1] \in S
    <3>1. 1 \in 1 .. n /\ 1 - 1 = 0
      BY <1>1, <1>7
    <3> HIDE DEF S
    <3> QED
      BY <1>1, <1>4, <1>5, <3>1
  <2>1. \A i \in 1 .. n : e[i] = FlattenStep(ss, e, i)
    <3>1. TAKE i \in 1 .. n
    <3>2. CASE i = 1
      <4>1. h[1] = <<>> \o ss[1] /\ ss[1] \in S
        BY <2>0
      <4>2. h[1] = ss[1]
        BY <4>1
      <4> QED
        BY <3>2, <4>2 DEF FlattenStep
    <3>3. CASE i # 1
      <4>1. i - 1 \in 1 .. n
        BY <1>1, <3>3
      <4>2. e[i] = h[i] /\ e[i - 1] = h[i - 1]
        BY <4>1
      <4> QED
        BY <1>5, <3>3, <4>2 DEF FlattenStep
    <3> QED
      BY <3>2, <3>3
  <2>2. FlattenFn(ss, e)
    BY <2>1 DEF FlattenFn
  <2>3. FlattenFn(ss, f)
    <3> HIDE DEF e
    <3> QED
      BY <2>2
  <2>4. FlattenSeq(ss) = f[n]
    BY <1>7 DEF FlattenSeq, FlattenFn, FlattenStep
  <2> HIDE DEF f, e
  <2>5. \A i \in 1 .. n : f[i] = FlattenStep(ss, f, i)
    BY <2>3 DEF FlattenFn
  <2> DEFINE Good == {i \in 0 .. n : i = 0 \/ f[i] = h[i]}
  <2>6. 0 \in Good
    BY <1>1
  <2>7. ASSUME NEW i \in 0 .. n - 1, i \in Good
        PROVE  i + 1 \in Good
    <3>1. i + 1 \in 1 .. n /\ (i + 1) - 1 = i
      BY <1>1
    <3>2. CASE i = 0
      <4>1. f[1] = ss[1]
        BY <2>0, <2>5 DEF FlattenStep
      <4>2. h[1] = ss[1]
        BY <2>0
      <4>3. i + 1 = 1 /\ i + 1 \in 0 .. n
        BY <3>1, <3>2
      <4> QED
        BY <4>1, <4>2, <4>3
    <3>3. CASE i # 0
      <4>1. f[i] = h[i] /\ i + 1 # 1
        BY <2>7, <3>3
      <4>2. f[i + 1] = f[i] \o ss[i + 1]
        BY <2>5, <3>1, <4>1 DEF FlattenStep
      <4>3. h[i + 1] = h[i] \o ss[i + 1]
        BY <1>5, <3>1
      <4>4. i + 1 \in 0 .. n /\ f[i + 1] = h[i + 1]
        BY <3>1, <4>1, <4>2, <4>3
      <4> QED
        BY <4>4
    <3> QED
      BY <3>2, <3>3
  <2> HIDE DEF Good
  <2>8. n \in Good
    <3>1. \A i \in 0 .. n : i \in Good
      <4> HIDE DEF n
      <4> QED
        BY <1>1, <2>6, <2>7, Climb
    <3> QED
      BY <1>1, <3>1
  <2>9. f[n] = h[n]
    BY <1>7, <2>8 DEF Good
  <2>10. RunsUp(ss, h)
    BY <1>4, <1>5 DEF RunsUp
  <2> QED
    BY <1>4, <2>4, <2>9, <2>10
<1> QED
  BY <1>6, <1>7

LEMMA FlattenTyped ==
  ASSUME NEW X, NEW ss \in Seq(Seq(X))
  PROVE  FlattenSeq(ss) \in Seq(X)
<1>1. PICK h \in [0 .. Len(ss) -> Seq(X)] : RunsUp(ss, h) /\ FlattenSeq(ss) = h[Len(ss)]
  BY Flattened
<1>2. Len(ss) \in 0 .. Len(ss)
  BY LenProperties
<1> QED
  BY <1>1, <1>2

\* w stands in text, after its first p characters.
Holds(text, p, w) ==
    p + Len(w) <= Len(text) /\ \A m \in 1 .. Len(w) : text[p + m] = w[m]

LEMMA HoldsConcat ==
  ASSUME NEW X, NEW a \in Seq(X), NEW b \in Seq(X)
  PROVE  /\ a \o b \in Seq(X) /\ Len(a \o b) = Len(a) + Len(b)
         /\ Holds(a \o b, 0, a) /\ Holds(a \o b, Len(a), b)
<1>1. Len(a) \in Nat /\ Len(b) \in Nat
  BY LenProperties
<1> QED
  BY <1>1, ConcatProperties DEF Holds

LEMMA HoldsWithin ==
  ASSUME NEW X, NEW text \in Seq(X), NEW w \in Seq(X), NEW v \in Seq(X), NEW p \in Nat, NEW q \in Nat,
         Holds(text, p, w), Holds(w, q, v)
  PROVE  Holds(text, p + q, v)
<1>1. Len(text) \in Nat /\ Len(w) \in Nat /\ Len(v) \in Nat
  BY LenProperties
<1>2. ASSUME NEW m \in 1 .. Len(v)
      PROVE  text[p + q + m] = v[m]
  <2>1. q + m \in 1 .. Len(w) /\ w[q + m] = v[m]
    BY <1>1 DEF Holds
  <2>2. text[p + (q + m)] = w[q + m]
    BY <2>1 DEF Holds
  <2>3. p + q + m = p + (q + m)
    BY <1>1
  <2> QED
    BY <2>1, <2>2, <2>3
<1>3. p + q + Len(v) <= Len(text)
  BY <1>1 DEF Holds
<1> QED
  BY <1>2, <1>3 DEF Holds

LEMMA FlattenHolds ==
  ASSUME NEW X, NEW ss \in Seq(Seq(X)), NEW h \in [0 .. Len(ss) -> Seq(X)], RunsUp(ss, h)
  PROVE  \A k \in 1 .. Len(ss) : Holds(h[Len(ss)], Len(h[k - 1]), ss[k])
<1> DEFINE n == Len(ss)
           Good == {j \in 0 .. n : \A k \in 1 .. j : Holds(h[j], Len(h[k - 1]), ss[k])}
<1>1. n \in Nat /\ \A i \in 1 .. n : ss[i] \in Seq(X)
  BY LenProperties, ElementOfSeq
<1>2. 0 \in Good
  BY <1>1
<1>3. ASSUME NEW j \in 0 .. n - 1, j \in Good
      PROVE  j + 1 \in Good
  <2>1. j + 1 \in 1 .. n /\ (j + 1) - 1 = j /\ j \in 0 .. n /\ j + 1 \in 0 .. n
    BY <1>1
  <2>2. h[j + 1] = h[j] \o ss[j + 1] /\ h[j] \in Seq(X) /\ ss[j + 1] \in Seq(X)
    BY <1>1, <2>1 DEF RunsUp
  <2>3. Holds(h[j + 1], 0, h[j]) /\ Holds(h[j + 1], Len(h[j]), ss[j + 1]) /\ h[j + 1] \in Seq(X)
    BY <2>2, HoldsConcat
  <2>4. ASSUME NEW k \in 1 .. j + 1
        PROVE  Holds(h[j + 1], Len(h[k - 1]), ss[k])
    <3>1. CASE k = j + 1
      BY <2>1, <2>3, <3>1
    <3>2. CASE k # j + 1
      <4>1. k \in 1 .. j /\ k \in 1 .. n /\ k - 1 \in 0 .. n
        BY <2>1, <3>2
      <4>2. Holds(h[j], Len(h[k - 1]), ss[k])
        BY <1>3, <4>1
      <4>3. ss[k] \in Seq(X) /\ Len(h[k - 1]) \in Nat
        BY <1>1, <4>1, LenProperties
      <4>4. Holds(h[j + 1], 0 + Len(h[k - 1]), ss[k])
        BY <2>2, <2>3, <4>2, <4>3, HoldsWithin
      <4> QED
        BY <4>3, <4>4
    <3> QED
      BY <3>1, <3>2
  <2> QED
    BY <2>1, <2>4
<1> HIDE DEF Good
<1>4. \A j \in 0 .. n : j \in Good
  <2>1. n \in Nat
    BY <1>1
  <2> HIDE DEF n
  <2> QED
    BY <2>1, <1>2, <1>3, Climb
<1>5. n \in Good
  BY <1>1, <1>4
<1> QED
  BY <1>5 DEF Good

-----------------------------------------------------------------------------
(* Reading.                                                                *)

Fields == [text : Texts, quoted : BOOLEAN]

\* A state of the tokenizer.
Reader(recs, record, field, quoted, inQuotes, skip) ==
    [records |-> recs, record |-> record, field |-> field, quoted |-> quoted, inQuotes |-> inQuotes, skip |-> skip]

Readers == [records : Seq(Seq(Fields)), record : Seq(Fields), field : Texts,
            quoted : BOOLEAN, inQuotes : BOOLEAN, skip : BOOLEAN]

LEMMA ReaderParts ==
  ASSUME NEW s \in Readers
  PROVE  /\ s.records \in Seq(Seq(Fields)) /\ s.record \in Seq(Fields) /\ s.field \in Texts
         /\ s.quoted \in BOOLEAN /\ s.inQuotes \in BOOLEAN /\ s.skip \in BOOLEAN
  BY DEF Readers

LEMMA ReaderTyped ==
  ASSUME NEW recs \in Seq(Seq(Fields)), NEW record \in Seq(Fields), NEW field \in Texts,
         NEW quoted \in BOOLEAN, NEW inQuotes \in BOOLEAN, NEW skip \in BOOLEAN
  PROVE  Reader(recs, record, field, quoted, inQuotes, skip) \in Readers
  BY DEF Reader, Readers

LEMMA ReaderEta ==
  ASSUME NEW s \in Readers
  PROVE  s = Reader(s.records, s.record, s.field, s.quoted, s.inQuotes, s.skip)
  BY DEF Reader, Readers

\* The four ways a character changes a state, and the end of a field.
LEMMA EndFieldIs ==
  ASSUME NEW s \in Readers
  PROVE  /\ EndField(s) \in Readers
         /\ EndField(s) = Reader(s.records, Append(s.record, [text |-> s.field, quoted |-> s.quoted]), <<>>, FALSE,
                                 s.inQuotes, s.skip)
<1> DEFINE e == EndField(s)
           r == Append(s.record, [text |-> s.field, quoted |-> s.quoted])
           none == <<>>
<1>1. r \in Seq(Fields)
  <2>1. [text |-> s.field, quoted |-> s.quoted] \in Fields
    BY ReaderParts DEF Fields
  <2> QED
    BY <2>1, ReaderParts, AppendProperties
<1>2. none \in Texts
  BY DEF Texts
<1>3. e = [s EXCEPT !.record = r, !.field = none, !.quoted = FALSE]
  BY DEF EndField
<1> HIDE DEF e, r, none
<1>4. e \in Readers
  BY <1>1, <1>2, <1>3 DEF Readers
<1>5. /\ e.records = s.records /\ e.record = r /\ e.field = none
      /\ e.quoted = FALSE /\ e.inQuotes = s.inQuotes /\ e.skip = s.skip
  BY <1>3 DEF Readers
<1>6. e = Reader(s.records, r, none, FALSE, s.inQuotes, s.skip)
  BY <1>4, <1>5, ReaderEta
<1> QED
  BY <1>4, <1>6 DEF e, r, none

LEMMA EndRecordIs ==
  ASSUME NEW s \in Readers
  PROVE  /\ EndRecord(s) \in Readers
         /\ EndRecord(s) = Reader(Append(s.records, Append(s.record, [text |-> s.field, quoted |-> s.quoted])),
                                  <<>>, <<>>, FALSE, s.inQuotes, s.skip)
<1> DEFINE e == EndField(s)
           d == EndRecord(s)
           r == Append(s.record, [text |-> s.field, quoted |-> s.quoted])
           none == <<>>
<1>1. e \in Readers /\ e = Reader(s.records, r, none, FALSE, s.inQuotes, s.skip)
  BY EndFieldIs
<1>2. d = [e EXCEPT !.records = Append(e.records, e.record), !.record = none]
  BY DEF EndRecord
<1>3. none \in Seq(Fields)
  OBVIOUS
<1> HIDE DEF e, d, r, none
<1>4. /\ e.records = s.records /\ e.record = r /\ e.field = none
      /\ e.quoted = FALSE /\ e.inQuotes = s.inQuotes /\ e.skip = s.skip
  BY <1>1 DEF Reader
<1>5. Append(e.records, e.record) \in Seq(Seq(Fields))
  BY <1>1, ReaderParts, AppendProperties
<1>6. d \in Readers
  BY <1>1, <1>2, <1>3, <1>5 DEF Readers
<1>7. /\ d.records = Append(e.records, e.record) /\ d.record = none /\ d.field = e.field
      /\ d.quoted = e.quoted /\ d.inQuotes = e.inQuotes /\ d.skip = e.skip
  BY <1>1, <1>2 DEF Readers
<1>8. d = Reader(Append(s.records, r), none, none, FALSE, s.inQuotes, s.skip)
  BY <1>4, <1>6, <1>7, ReaderEta
<1> QED
  BY <1>6, <1>8 DEF d, r, none

LEMMA TakeIs ==
  ASSUME NEW text \in Texts, NEW s \in Readers, NEW i \in 1 .. Len(text)
  PROVE  /\ Take(text, s, i) \in Readers
         /\ Take(text, s, i) = Reader(s.records, s.record, Append(s.field, text[i]), s.quoted, s.inQuotes, s.skip)
<1> DEFINE f == Append(s.field, text[i])
           d == Take(text, s, i)
<1>1. f \in Texts
  BY ReaderParts, ElementOfSeq, AppendProperties DEF Texts
<1>2. d = [s EXCEPT !.field = f]
  BY DEF Take
<1> HIDE DEF f, d
<1>3. d \in Readers
  BY <1>1, <1>2 DEF Readers
<1>4. /\ d.records = s.records /\ d.record = s.record /\ d.field = f
      /\ d.quoted = s.quoted /\ d.inQuotes = s.inQuotes /\ d.skip = s.skip
  BY <1>2 DEF Readers
<1>5. d = Reader(s.records, s.record, f, s.quoted, s.inQuotes, s.skip)
  BY <1>3, <1>4, ReaderEta
<1> QED
  BY <1>3, <1>5 DEF f, d

LEMMA SkipIs ==
  ASSUME NEW s \in Readers, NEW b \in BOOLEAN
  PROVE  /\ [s EXCEPT !.skip = b] \in Readers
         /\ [s EXCEPT !.skip = b] = Reader(s.records, s.record, s.field, s.quoted, s.inQuotes, b)
<1> DEFINE d == [s EXCEPT !.skip = b]
<1>1. d \in Readers
  BY DEF Readers
<1>2. /\ d.records = s.records /\ d.record = s.record /\ d.field = s.field
      /\ d.quoted = s.quoted /\ d.inQuotes = s.inQuotes /\ d.skip = b
  BY DEF Readers
<1> HIDE DEF d
<1>3. d = Reader(s.records, s.record, s.field, s.quoted, s.inQuotes, b)
  BY <1>1, <1>2, ReaderEta
<1> QED
  BY <1>1, <1>3 DEF d

LEMMA QuotesAre ==
  ASSUME NEW s \in Readers
  PROVE  /\ [s EXCEPT !.quoted = TRUE, !.inQuotes = TRUE] \in Readers
         /\ [s EXCEPT !.quoted = TRUE, !.inQuotes = TRUE]
                = Reader(s.records, s.record, s.field, TRUE, TRUE, s.skip)
         /\ [s EXCEPT !.inQuotes = FALSE] \in Readers
         /\ [s EXCEPT !.inQuotes = FALSE] = Reader(s.records, s.record, s.field, s.quoted, FALSE, s.skip)
<1> DEFINE d == [s EXCEPT !.quoted = TRUE, !.inQuotes = TRUE]
           e == [s EXCEPT !.inQuotes = FALSE]
<1>1. d \in Readers /\ e \in Readers
  BY DEF Readers
<1>2. /\ d.records = s.records /\ d.record = s.record /\ d.field = s.field
      /\ d.quoted = TRUE /\ d.inQuotes = TRUE /\ d.skip = s.skip
  BY DEF Readers
<1>3. /\ e.records = s.records /\ e.record = s.record /\ e.field = s.field
      /\ e.quoted = s.quoted /\ e.inQuotes = FALSE /\ e.skip = s.skip
  BY DEF Readers
<1> HIDE DEF d, e
<1>4. d = Reader(s.records, s.record, s.field, TRUE, TRUE, s.skip)
  BY <1>1, <1>2, ReaderEta
<1>5. e = Reader(s.records, s.record, s.field, s.quoted, FALSE, s.skip)
  BY <1>1, <1>3, ReaderEta
<1> QED
  BY <1>1, <1>4, <1>5 DEF d, e

LEMMA ReadCharTyped ==
  ASSUME NEW text \in Texts, NEW s \in Readers, NEW i \in 1 .. Len(text)
  PROVE  ReadChar(text, s, i) \in Readers
<1>1. Take(text, s, i) \in Readers /\ EndField(s) \in Readers /\ EndRecord(s) \in Readers
  BY TakeIs, EndFieldIs, EndRecordIs
<1>2. \A r \in Readers : [r EXCEPT !.skip = TRUE] \in Readers /\ [r EXCEPT !.skip = FALSE] \in Readers
  BY SkipIs
<1>3. [s EXCEPT !.inQuotes = FALSE] \in Readers /\ [s EXCEPT !.quoted = TRUE, !.inQuotes = TRUE] \in Readers
  BY QuotesAre
<1> QED
  BY <1>1, <1>2, <1>3 DEF ReadChar

\* read[i]: the tokenizer's state after i characters.
ReadStep(text, read, i) == IF i = 0 THEN NothingRead ELSE ReadChar(text, read[i - 1], i)
ReadFn(text, read) == read = [i \in 0 .. Len(text) |-> ReadStep(text, read, i)]
IsRead(text, read) ==
    /\ read[0] = NothingRead
    /\ \A i \in 1 .. Len(text) : read[i] = ReadChar(text, read[i - 1], i)

LEMMA ReadAllIs ==
  ASSUME NEW text \in Texts
  PROVE  \E read \in [0 .. Len(text) -> Readers] : IsRead(text, read) /\ ReadAll(text) = read[Len(text)]
<1> DEFINE n == Len(text)
           G == [i \in 1 .. n |-> [s \in Readers |-> ReadChar(text, s, i)]]
           none == NothingRead
           r == CHOOSE f : ReadFn(text, f)
<1>1. n \in Nat
  BY LenProperties DEF Texts
<1>2. none \in Readers
  <2>1. <<>> \in Seq(Seq(Fields)) /\ <<>> \in Seq(Fields) /\ <<>> \in Texts
    BY DEF Texts
  <2> QED
    BY <2>1 DEF NothingRead, Readers
<1>3. G \in [1 .. n -> [Readers -> Readers]]
  BY ReadCharTyped
<1>4. \A i \in 1 .. n : \A s \in Readers : G[i][s] = ReadChar(text, s, i)
  OBVIOUS
<1>5. PICK h \in [0 .. n -> Readers] : Follows(n, none, G, h)
  <2> HIDE DEF n, G, none
  <2> QED
    BY <1>1, <1>2, <1>3, RecursionExists
<1> HIDE DEF G
<1>6. ReadFn(text, h)
  <2>1. ASSUME NEW i \in 0 .. n
        PROVE  h[i] = ReadStep(text, h, i)
    <3>1. CASE i = 0
      BY <1>5, <3>1 DEF Follows, ReadStep
    <3>2. CASE i # 0
      <4>1. i \in 1 .. n /\ i - 1 \in 0 .. n
        BY <1>1, <3>2
      <4>2. h[i] = G[i][h[i - 1]] /\ h[i - 1] \in Readers
        BY <1>5, <4>1 DEF Follows
      <4> QED
        BY <1>4, <3>2, <4>1, <4>2 DEF ReadStep
    <3> QED
      BY <3>1, <3>2
  <2> QED
    BY <2>1 DEF ReadFn
<1>7. ReadFn(text, r)
  BY <1>6
<1>8. ReadAll(text) = r[n]
  BY DEF ReadAll, ReadFn, ReadStep
<1> HIDE DEF r
<1>9. \A i \in 0 .. n : r[i] = ReadStep(text, r, i)
  BY <1>7 DEF ReadFn
<1>10. IsRead(text, r)
  <2>1. r[0] = NothingRead
    BY <1>1, <1>9 DEF ReadStep
  <2>2. ASSUME NEW i \in 1 .. n PROVE r[i] = ReadChar(text, r[i - 1], i)
    <3>1. i \in 0 .. n /\ i # 0
      BY <1>1
    <3> QED
      BY <1>9, <3>1 DEF ReadStep
  <2> QED
    BY <2>1, <2>2 DEF IsRead
<1> DEFINE Good == {i \in 0 .. n : r[i] \in Readers}
<1>11. 0 \in Good
  BY <1>1, <1>2, <1>10 DEF IsRead
<1>12. ASSUME NEW i \in 0 .. n - 1, i \in Good
       PROVE  i + 1 \in Good
  <2>1. i + 1 \in 1 .. n /\ (i + 1) - 1 = i /\ i + 1 \in 0 .. n
    BY <1>1
  <2>2. r[i + 1] = ReadChar(text, r[i], i + 1)
    BY <1>10, <2>1 DEF IsRead
  <2> QED
    BY <1>12, <2>1, <2>2, ReadCharTyped
<1> HIDE DEF Good
<1>13. \A i \in 0 .. n : i \in Good
  <2> HIDE DEF n
  <2> QED
    BY <1>1, <1>11, <1>12, Climb
<1>14. r \in [0 .. n -> Readers]
  <2>1. r = [i \in 0 .. n |-> ReadStep(text, r, i)]
    BY <1>7 DEF ReadFn
  <2> DEFINE e(i) == ReadStep(text, r, i)
  <2>2. \A i \in 0 .. n : e(i) \in Readers
    BY <1>9, <1>13 DEF Good
  <2>3. r = [i \in 0 .. n |-> e(i)]
    BY <2>1
  <2> HIDE DEF e, n
  <2> QED
    BY <2>2, <2>3
<1> QED
  BY <1>8, <1>10, <1>14

-----------------------------------------------------------------------------
(* What the tokenizer makes of the next characters of a text.  read is     *)
(* what it has read so far, by the number of characters.                   *)

IsReading(text, read) == text \in Texts /\ read \in [0 .. Len(text) -> Readers] /\ IsRead(text, read)

Between(recs, record, field, quoted) == Reader(recs, record, field, quoted, FALSE, FALSE)
Bare(recs, record, field) == Reader(recs, record, field, FALSE, FALSE, FALSE)
Inside(recs, record, field) == Reader(recs, record, field, TRUE, TRUE, FALSE)
Closed(recs, record, field) == Reader(recs, record, field, TRUE, FALSE, FALSE)

Ended(record, field, quoted) == Append(record, [text |-> field, quoted |-> quoted])

LEMMA ReadingFacts ==
  ASSUME NEW text, NEW read, IsReading(text, read), NEW p \in 0 .. Len(text)
  PROVE  /\ Len(text) \in Nat /\ read[p] \in Readers
         /\ p < Len(text) => /\ p + 1 \in 1 .. Len(text) /\ p + 1 \in 0 .. Len(text)
                             /\ read[p + 1] = ReadChar(text, read[p], p + 1)
<1>1. Len(text) \in Nat
  BY LenProperties DEF IsReading, Texts
<1>2. read[p] \in Readers
  BY DEF IsReading
<1>3. ASSUME p < Len(text)
      PROVE  /\ p + 1 \in 1 .. Len(text) /\ p + 1 \in 0 .. Len(text)
             /\ read[p + 1] = ReadChar(text, read[p], p + 1)
  <2>1. p + 1 \in 1 .. Len(text) /\ p + 1 \in 0 .. Len(text) /\ (p + 1) - 1 = p
    BY <1>1, <1>3
  <2> QED
    BY <2>1 DEF IsReading, IsRead
<1> QED
  BY <1>1, <1>2, <1>3

LEMMA PlainChar ==
  ASSUME NEW text, NEW read, IsReading(text, read), NEW p \in 0 .. Len(text), p < Len(text),
         NEW a, NEW b, NEW c, read[p] = Bare(a, b, c),
         text[p + 1] \notin {Comma, Quote, CR, LF}
  PROVE  read[p + 1] = Bare(a, b, Append(c, text[p + 1]))
<1> DEFINE s == read[p]
<1>1. s \in Readers /\ p + 1 \in 1 .. Len(text) /\ read[p + 1] = ReadChar(text, s, p + 1)
  BY ReadingFacts
<1>2. s.records = a /\ s.record = b /\ s.field = c /\ s.quoted = FALSE /\ s.inQuotes = FALSE /\ s.skip = FALSE
  BY DEF Bare, Reader
<1>3. text \in Texts
  BY DEF IsReading
<1> HIDE DEF s
<1>4. ReadChar(text, s, p + 1) = Take(text, s, p + 1)
  BY <1>2 DEF ReadChar
<1>5. Take(text, s, p + 1) = Reader(s.records, s.record, Append(s.field, text[p + 1]), s.quoted, s.inQuotes, s.skip)
  BY <1>1, <1>3, TakeIs
<1> QED
  BY <1>1, <1>2, <1>4, <1>5 DEF Bare

LEMMA OpeningQuote ==
  ASSUME NEW text, NEW read, IsReading(text, read), NEW p \in 0 .. Len(text), p < Len(text),
         NEW a, NEW b, read[p] = Bare(a, b, <<>>), text[p + 1] = Quote
  PROVE  read[p + 1] = Inside(a, b, <<>>)
<1> DEFINE s == read[p]
<1>1. s \in Readers /\ read[p + 1] = ReadChar(text, s, p + 1)
  BY ReadingFacts
<1>2. /\ s.records = a /\ s.record = b /\ s.field = <<>> /\ s.quoted = FALSE
      /\ s.inQuotes = FALSE /\ s.skip = FALSE
  BY DEF Bare, Reader
<1> HIDE DEF s
<1>3. ReadChar(text, s, p + 1) = [s EXCEPT !.quoted = TRUE, !.inQuotes = TRUE]
  BY <1>2 DEF ReadChar
<1>4. [s EXCEPT !.quoted = TRUE, !.inQuotes = TRUE] = Reader(s.records, s.record, s.field, TRUE, TRUE, s.skip)
  BY <1>1, QuotesAre
<1> QED
  BY <1>1, <1>2, <1>3, <1>4 DEF Inside

LEMMA QuotedChar ==
  ASSUME NEW text, NEW read, IsReading(text, read), NEW p \in 0 .. Len(text), p < Len(text),
         NEW a, NEW b, NEW c, read[p] = Inside(a, b, c), text[p + 1] # Quote
  PROVE  read[p + 1] = Inside(a, b, Append(c, text[p + 1]))
<1> DEFINE s == read[p]
<1>1. s \in Readers /\ p + 1 \in 1 .. Len(text) /\ read[p + 1] = ReadChar(text, s, p + 1)
  BY ReadingFacts
<1>2. s.records = a /\ s.record = b /\ s.field = c /\ s.quoted = TRUE /\ s.inQuotes = TRUE /\ s.skip = FALSE
  BY DEF Inside, Reader
<1>3. text \in Texts
  BY DEF IsReading
<1> HIDE DEF s
<1>4. ReadChar(text, s, p + 1) = Take(text, s, p + 1)
  BY <1>2 DEF ReadChar
<1>5. Take(text, s, p + 1) = Reader(s.records, s.record, Append(s.field, text[p + 1]), s.quoted, s.inQuotes, s.skip)
  BY <1>1, <1>3, TakeIs
<1> QED
  BY <1>1, <1>2, <1>4, <1>5 DEF Inside

LEMMA DoubledQuote ==
  ASSUME NEW text, NEW read, IsReading(text, read), NEW p \in 0 .. Len(text), p + 1 < Len(text),
         NEW a, NEW b, NEW c, read[p] = Inside(a, b, c), text[p + 1] = Quote, text[p + 2] = Quote
  PROVE  read[p + 2] = Inside(a, b, Append(c, Quote))
<1> DEFINE s == read[p]
           t == Take(text, s, p + 1)
           u == read[p + 1]
<1>1. Len(text) \in Nat /\ s \in Readers
  BY ReadingFacts
<1>2. p < Len(text) /\ p + 1 \in 0 .. Len(text) /\ p + 1 + 1 = p + 2 /\ p + 1 \in 1 .. Len(text)
  BY <1>1
<1>3. u = ReadChar(text, s, p + 1)
  BY <1>2, ReadingFacts
<1>4. u \in Readers /\ read[p + 2] = ReadChar(text, u, p + 2)
  <2>1. u \in Readers /\ read[p + 1 + 1] = ReadChar(text, u, p + 1 + 1)
    BY <1>2, ReadingFacts
  <2> QED
    BY <1>2, <2>1
<1>5. s.records = a /\ s.record = b /\ s.field = c /\ s.quoted = TRUE /\ s.inQuotes = TRUE /\ s.skip = FALSE
  BY DEF Inside, Reader
<1>6. Following(text, p + 1) = Quote
  BY <1>2 DEF Following
<1>7. text \in Texts
  BY DEF IsReading
<1>8. t \in Readers /\ t = Reader(a, b, Append(c, Quote), TRUE, TRUE, FALSE)
  BY <1>1, <1>2, <1>5, <1>7, TakeIs
<1> HIDE DEF s, u
<1>9. u = [t EXCEPT !.skip = TRUE]
  BY <1>3, <1>5, <1>6 DEF ReadChar
<1> HIDE DEF t
<1>10. /\ t.records = a /\ t.record = b /\ t.field = Append(c, Quote) /\ t.quoted = TRUE
       /\ t.inQuotes = TRUE /\ t.skip = FALSE
  BY <1>8 DEF Reader
<1>11. u = Reader(a, b, Append(c, Quote), TRUE, TRUE, TRUE)
  BY <1>8, <1>9, <1>10, SkipIs
<1>12. /\ u.records = a /\ u.record = b /\ u.field = Append(c, Quote) /\ u.quoted = TRUE
       /\ u.inQuotes = TRUE /\ u.skip = TRUE
  BY <1>11 DEF Reader
<1>13. read[p + 2] = [u EXCEPT !.skip = FALSE]
  BY <1>4, <1>12 DEF ReadChar
<1>14. [u EXCEPT !.skip = FALSE] = Reader(u.records, u.record, u.field, u.quoted, u.inQuotes, FALSE)
  BY <1>4, SkipIs
<1> QED
  BY <1>12, <1>13, <1>14 DEF Inside

LEMMA ClosingQuote ==
  ASSUME NEW text, NEW read, IsReading(text, read), NEW p \in 0 .. Len(text), p + 1 < Len(text),
         NEW a, NEW b, NEW c, read[p] = Inside(a, b, c), text[p + 1] = Quote, text[p + 2] # Quote
  PROVE  read[p + 1] = Closed(a, b, c)
<1> DEFINE s == read[p]
<1>1. Len(text) \in Nat /\ s \in Readers
  BY ReadingFacts
<1>2. p < Len(text) /\ p + 1 + 1 = p + 2
  BY <1>1
<1>3. read[p + 1] = ReadChar(text, s, p + 1)
  BY <1>2, ReadingFacts
<1>4. s.records = a /\ s.record = b /\ s.field = c /\ s.quoted = TRUE /\ s.inQuotes = TRUE /\ s.skip = FALSE
  BY DEF Inside, Reader
<1>5. Following(text, p + 1) # Quote
  BY <1>2 DEF Following
<1> HIDE DEF s
<1>6. read[p + 1] = [s EXCEPT !.inQuotes = FALSE]
  BY <1>3, <1>4, <1>5 DEF ReadChar
<1>7. [s EXCEPT !.inQuotes = FALSE] = Reader(s.records, s.record, s.field, s.quoted, FALSE, s.skip)
  BY <1>1, QuotesAre
<1> QED
  BY <1>4, <1>6, <1>7 DEF Closed

LEMMA FieldEnd ==
  ASSUME NEW text, NEW read, IsReading(text, read), NEW p \in 0 .. Len(text), p < Len(text),
         NEW a, NEW b, NEW c, NEW q, read[p] = Between(a, b, c, q), text[p + 1] = Comma
  PROVE  read[p + 1] = Bare(a, Ended(b, c, q), <<>>)
<1> DEFINE s == read[p]
<1>1. s \in Readers /\ read[p + 1] = ReadChar(text, s, p + 1)
  BY ReadingFacts
<1>2. s.records = a /\ s.record = b /\ s.field = c /\ s.quoted = q /\ s.inQuotes = FALSE /\ s.skip = FALSE
  BY DEF Between, Reader
<1> HIDE DEF s
<1>3. ReadChar(text, s, p + 1) = EndField(s)
  BY <1>2 DEF ReadChar, Comma, Quote
<1>4. EndField(s) = Reader(s.records, Append(s.record, [text |-> s.field, quoted |-> s.quoted]), <<>>, FALSE,
                           s.inQuotes, s.skip)
  BY <1>1, EndFieldIs
<1> QED
  BY <1>1, <1>2, <1>3, <1>4 DEF Bare, Ended

LEMMA LineEnd ==
  ASSUME NEW text, NEW read, IsReading(text, read), NEW p \in 0 .. Len(text), p + 1 < Len(text),
         NEW a, NEW b, NEW c, NEW q, read[p] = Between(a, b, c, q), text[p + 1] = CR, text[p + 2] = LF
  PROVE  read[p + 2] = Bare(Append(a, Ended(b, c, q)), <<>>, <<>>)
<1> DEFINE s == read[p]
           t == EndRecord(s)
           u == read[p + 1]
<1>1. Len(text) \in Nat /\ s \in Readers
  BY ReadingFacts
<1>2. p < Len(text) /\ p + 1 \in 0 .. Len(text) /\ p + 1 + 1 = p + 2
  BY <1>1
<1>3. u = ReadChar(text, s, p + 1)
  BY <1>2, ReadingFacts
<1>4. u \in Readers /\ read[p + 2] = ReadChar(text, u, p + 2)
  <2>1. u \in Readers /\ read[p + 1 + 1] = ReadChar(text, u, p + 1 + 1)
    BY <1>2, ReadingFacts
  <2> QED
    BY <1>2, <2>1
<1>5. s.records = a /\ s.record = b /\ s.field = c /\ s.quoted = q /\ s.inQuotes = FALSE /\ s.skip = FALSE
  BY DEF Between, Reader
<1>6. Following(text, p + 1) = LF
  BY <1>2 DEF Following
<1>7. t \in Readers /\ t = Reader(Append(a, Ended(b, c, q)), <<>>, <<>>, FALSE, FALSE, FALSE)
  BY <1>1, <1>5, EndRecordIs DEF Ended
<1> HIDE DEF s, u
<1>8. u = [t EXCEPT !.skip = TRUE]
  BY <1>3, <1>5, <1>6 DEF ReadChar, Comma, Quote, CR, LF
<1> HIDE DEF t
<1> DEFINE d == Append(a, Ended(b, c, q))
<1> HIDE DEF d
<1>9. /\ t.records = d /\ t.record = <<>> /\ t.field = <<>> /\ t.quoted = FALSE
      /\ t.inQuotes = FALSE /\ t.skip = FALSE
  BY <1>7 DEF Reader, d
<1>10. u = Reader(d, <<>>, <<>>, FALSE, FALSE, TRUE)
  BY <1>7, <1>8, <1>9, SkipIs
<1>11. /\ u.records = d /\ u.record = <<>> /\ u.field = <<>> /\ u.quoted = FALSE
       /\ u.inQuotes = FALSE /\ u.skip = TRUE
  BY <1>10 DEF Reader
<1>12. read[p + 2] = [u EXCEPT !.skip = FALSE]
  BY <1>4, <1>11 DEF ReadChar
<1>13. [u EXCEPT !.skip = FALSE] = Reader(u.records, u.record, u.field, u.quoted, u.inQuotes, FALSE)
  BY <1>4, SkipIs
<1> QED
  BY <1>11, <1>12, <1>13 DEF Bare, d

-----------------------------------------------------------------------------
(* A field, a record, a file.                                              *)

First(cell, j) == SubSeq(cell, 1, j)

LEMMA FirstGrows ==
  ASSUME NEW X, NEW cell \in Seq(X)
  PROVE  /\ First(cell, 0) = <<>> /\ First(cell, Len(cell)) = cell
         /\ \A j \in 0 .. Len(cell) - 1 : First(cell, j + 1) = Append(First(cell, j), cell[j + 1])
<1>1. Len(cell) \in Nat
  BY LenProperties
<1>2. First(cell, 0) = <<>> /\ First(cell, Len(cell)) = cell
  BY <1>1, SubSeqEmpty, SubSeqFull DEF First
<1>3. ASSUME NEW j \in 0 .. Len(cell) - 1
      PROVE  First(cell, j + 1) = Append(First(cell, j), cell[j + 1])
  <2>1. 1 \in 1 .. Len(cell) /\ j + 1 \in 1 .. Len(cell) /\ (j + 1) - 1 = j /\ j \in Int /\ 1 \in Int
    BY <1>1
  <2>2. SubSeq(cell, 1, j + 1) = SubSeq(cell, 1, (j + 1) - 1) \o <<cell[j + 1]>>
    BY <2>1, SubSeqRecursiveSecond
  <2>3. \A i \in 1 .. j : cell[i] \in X
    BY <1>1, ElementOfSeq
  <2>4. SubSeq(cell, 1, j) \in Seq(X)
    BY <2>1, <2>3, SubSeqProperties
  <2>5. cell[j + 1] \in X
    BY <2>1, ElementOfSeq
  <2>6. Append(SubSeq(cell, 1, j), cell[j + 1]) = SubSeq(cell, 1, j) \o <<cell[j + 1]>>
    BY <2>4, <2>5, AppendIsConcat
  <2> QED
    BY <2>1, <2>2, <2>6 DEF First
<1> QED
  BY <1>2, <1>3

\* A field that needs no quotes.
LEMMA BareRead ==
  ASSUME NEW text, NEW read, IsReading(text, read), NEW p \in 0 .. Len(text), NEW cell \in Texts,
         Holds(text, p, cell), ~ HasSpecial(cell),
         NEW a, NEW b, read[p] = Bare(a, b, <<>>)
  PROVE  read[p + Len(cell)] = Bare(a, b, cell)
<1> DEFINE n == Len(cell)
           Good == {j \in 0 .. n : read[p + j] = Bare(a, b, First(cell, j))}
<1>1. n \in Nat /\ Len(text) \in Nat
  BY LenProperties, ReadingFacts DEF Texts
<1>2. /\ First(cell, 0) = <<>> /\ First(cell, n) = cell
      /\ \A j \in 0 .. n - 1 : First(cell, j + 1) = Append(First(cell, j), cell[j + 1])
  BY FirstGrows DEF Texts
<1>3. 0 \in Good
  <2>1. 0 \in 0 .. n /\ p + 0 = p
    BY <1>1
  <2> QED
    BY <1>2, <2>1
<1>4. ASSUME NEW j \in 0 .. n - 1, j \in Good
      PROVE  j + 1 \in Good
  <2>1. /\ p + j \in 0 .. Len(text) /\ p + j < Len(text) /\ p + j + 1 = p + (j + 1)
        /\ j + 1 \in 1 .. n /\ j + 1 \in 0 .. n
    BY <1>1 DEF Holds
  <2>2. text[p + j + 1] = cell[j + 1]
    BY <2>1 DEF Holds
  <2>3. text[p + j + 1] \notin {Comma, Quote, CR, LF}
    <3>1. j + 1 \in DOMAIN cell
      BY <2>1, LenProperties DEF Texts
    <3> QED
      BY <2>2, <3>1 DEF HasSpecial
  <2>4. read[p + j] = Bare(a, b, First(cell, j))
    BY <1>4
  <2>5. read[p + j + 1] = Bare(a, b, Append(First(cell, j), text[p + j + 1]))
    <3> DEFINE q == p + j
               c == First(cell, j)
    <3>1. q \in 0 .. Len(text) /\ q < Len(text) /\ text[q + 1] \notin {Comma, Quote, CR, LF}
      BY <2>1, <2>3
    <3>2. read[q] = Bare(a, b, c)
      BY <2>4
    <3> HIDE DEF q, c
    <3>3. read[q + 1] = Bare(a, b, Append(c, text[q + 1]))
      BY <3>1, <3>2, PlainChar
    <3> QED
      BY <3>3 DEF q, c
  <2> QED
    BY <1>2, <2>1, <2>2, <2>5
<1> HIDE DEF Good
<1>5. \A j \in 0 .. n : j \in Good
  <2> HIDE DEF n
  <2> QED
    BY <1>1, <1>3, <1>4, Climb
<1>6. n \in Good
  BY <1>1, <1>5
<1>7. read[p + n] = Bare(a, b, First(cell, n))
  BY <1>6 DEF Good
<1> QED
  BY <1>2, <1>7

\* What stands for a cell's characters inside quotes.
QuotedChars(cell) == [i \in DOMAIN cell |-> IF cell[i] = Quote THEN <<Quote, Quote>> ELSE <<cell[i]>>]

LEMMA QuotedCharsAre ==
  ASSUME NEW cell \in Texts
  PROVE  /\ QuotedChars(cell) \in Seq(Seq(Chars)) /\ Len(QuotedChars(cell)) = Len(cell)
         /\ DoubledQuotes(cell) = FlattenSeq(QuotedChars(cell))
         /\ \A i \in 1 .. Len(cell) :
               QuotedChars(cell)[i] = IF cell[i] = Quote THEN <<Quote, Quote>> ELSE <<cell[i]>>
<1> DEFINE n == Len(cell)
           ss == QuotedChars(cell)
<1>1. n \in Nat /\ DOMAIN cell = 1 .. n /\ \A i \in 1 .. n : cell[i] \in Chars
  BY LenProperties, ElementOfSeq DEF Texts
<1>2. \A i \in 1 .. n : ss[i] = IF cell[i] = Quote THEN <<Quote, Quote>> ELSE <<cell[i]>>
  BY <1>1 DEF QuotedChars
<1>3. \A i \in 1 .. n : ss[i] \in Seq(Chars)
  <2>1. TAKE i \in 1 .. n
  <2>2. Quote \in Chars /\ cell[i] \in Chars
    BY <1>1, RowsAssumption
  <2>3. <<Quote, Quote>> \in Seq(Chars) /\ <<cell[i]>> \in Seq(Chars)
    BY <2>2, ShortSeqs
  <2> QED
    BY <1>2, <2>3
<1>4. ss \in Seq(Seq(Chars)) /\ Len(ss) = n
  <2>1. ss = [i \in 1 .. n |-> ss[i]]
    BY <1>1 DEF QuotedChars
  <2> HIDE DEF ss
  <2> QED
    BY <1>1, <1>3, <2>1, SeqFromTo
<1> QED
  BY <1>2, <1>4 DEF DoubledQuotes, QuotedChars

LEMMA DoubledTyped ==
  ASSUME NEW cell \in Texts
  PROVE  DoubledQuotes(cell) \in Texts
<1>1. QuotedChars(cell) \in Seq(Seq(Chars)) /\ DoubledQuotes(cell) = FlattenSeq(QuotedChars(cell))
  BY QuotedCharsAre
<1> QED
  BY <1>1, FlattenTyped DEF Texts

LEMMA InsideRead ==
  ASSUME NEW text, NEW read, IsReading(text, read), NEW p \in 0 .. Len(text), NEW cell \in Texts,
         Holds(text, p, DoubledQuotes(cell)),
         NEW a, NEW b, read[p] = Inside(a, b, <<>>)
  PROVE  /\ DoubledQuotes(cell) \in Texts
         /\ read[p + Len(DoubledQuotes(cell))] = Inside(a, b, cell)
<1> DEFINE n == Len(cell)
           ss == QuotedChars(cell)
           body == DoubledQuotes(cell)
<1>1. n \in Nat /\ Len(text) \in Nat /\ DOMAIN cell = 1 .. n /\ \A i \in 1 .. n : cell[i] \in Chars
  BY LenProperties, ElementOfSeq, ReadingFacts DEF Texts
<1>2. \A i \in 1 .. n : ss[i] = IF cell[i] = Quote THEN <<Quote, Quote>> ELSE <<cell[i]>>
  BY QuotedCharsAre
<1>4. ss \in Seq(Seq(Chars)) /\ Len(ss) = n
  BY QuotedCharsAre
<1>3. \A i \in 1 .. n : ss[i] \in Seq(Chars)
  BY <1>4, ElementOfSeq
<1>5. PICK h \in [0 .. Len(ss) -> Seq(Chars)] : RunsUp(ss, h) /\ FlattenSeq(ss) = h[Len(ss)]
  BY <1>4, Flattened
<1>6. body = h[n]
  BY <1>4, <1>5 DEF DoubledQuotes, QuotedChars
<1>7. \A k \in 1 .. n : Holds(body, Len(h[k - 1]), ss[k])
  BY <1>4, <1>5, <1>6, FlattenHolds
<1> HIDE DEF ss, body
<1>8. \A j \in 0 .. n : h[j] \in Seq(Chars) /\ Len(h[j]) \in Nat
  BY <1>4, <1>5, LenProperties
<1>9. \A j \in 0 .. n - 1 : Len(h[j + 1]) = Len(h[j]) + Len(ss[j + 1])
  <2>1. TAKE j \in 0 .. n - 1
  <2>2. j + 1 \in 1 .. n /\ (j + 1) - 1 = j /\ j \in 0 .. n
    BY <1>1
  <2>3. h[j + 1] = h[j] \o ss[j + 1]
    BY <1>4, <1>5, <2>2 DEF RunsUp
  <2> QED
    BY <1>3, <1>8, <2>2, <2>3, ConcatProperties
<1>10. /\ First(cell, 0) = <<>> /\ First(cell, n) = cell
       /\ \A j \in 0 .. n - 1 : First(cell, j + 1) = Append(First(cell, j), cell[j + 1])
  BY FirstGrows DEF Texts
<1> DEFINE Good == {j \in 0 .. n : read[p + Len(h[j])] = Inside(a, b, First(cell, j))}
<1>11. 0 \in Good
  <2>1. h[0] = <<>> /\ Len(h[0]) = 0 /\ 0 \in 0 .. n /\ p + 0 = p
    BY <1>1, <1>5 DEF RunsUp
  <2> QED
    BY <1>10, <2>1
<1>12. ASSUME NEW j \in 0 .. n - 1, j \in Good
       PROVE  j + 1 \in Good
  <2> DEFINE q == p + Len(h[j])
  <2>1. j + 1 \in 1 .. n /\ (j + 1) - 1 = j /\ j \in 0 .. n /\ j + 1 \in 0 .. n
    BY <1>1
  <2>2. q \in Nat /\ Len(h[j]) \in Nat /\ body \in Seq(Chars) /\ ss[j + 1] \in Seq(Chars) /\ text \in Seq(Chars)
    BY <1>3, <1>6, <1>8, <2>1, <1>1 DEF IsReading, Texts
  <2>3. Holds(text, q, ss[j + 1])
    <3>1. Holds(text, p, body) /\ Holds(body, Len(h[j]), ss[j + 1]) /\ p \in Nat
      BY <1>1, <1>7, <2>1 DEF body
    <3> QED
      BY <2>2, <3>1, HoldsWithin
  <2>4. read[q] = Inside(a, b, First(cell, j))
    BY <1>12
  <2>5. p + Len(h[j + 1]) = q + Len(ss[j + 1])
    <3> DEFINE l == Len(h[j])
               m == Len(ss[j + 1])
    <3>1. Len(h[j + 1]) = l + m
      BY <1>9
    <3>2. l \in Nat /\ m \in Nat /\ p \in Nat
      BY <1>1, <2>2, LenProperties
    <3> HIDE DEF l, m
    <3>3. p + Len(h[j + 1]) = (p + l) + m
      BY <3>1, <3>2
    <3> QED
      BY <3>3 DEF l, m, q
  <2> HIDE DEF q
  <2>6. CASE cell[j + 1] = Quote
    <3>1. ss[j + 1] = <<Quote, Quote>>
      BY <1>2, <2>1, <2>6
    <3>2. Len(ss[j + 1]) = 2 /\ ss[j + 1][1] = Quote /\ ss[j + 1][2] = Quote
      BY <3>1
    <3>3. q + 1 < Len(text) /\ q \in 0 .. Len(text) /\ text[q + 1] = Quote /\ text[q + 2] = Quote
      <4> DEFINE w == ss[j + 1]
      <4>1. q + Len(w) <= Len(text) /\ \A m \in 1 .. Len(w) : text[q + m] = w[m]
        BY <2>3 DEF Holds
      <4>2. Len(w) = 2 /\ w[1] = Quote /\ w[2] = Quote
        BY <3>2
      <4> HIDE DEF w
      <4> QED
        BY <1>1, <2>2, <4>1, <4>2
    <3>4. read[q + 2] = Inside(a, b, Append(First(cell, j), Quote))
      BY <2>4, <3>3, DoubledQuote
    <3> QED
      BY <1>10, <2>1, <2>5, <2>6, <3>2, <3>4
  <2>7. CASE cell[j + 1] # Quote
    <3>1. ss[j + 1] = <<cell[j + 1]>>
      BY <1>2, <2>1, <2>7
    <3>2. Len(ss[j + 1]) = 1 /\ ss[j + 1][1] = cell[j + 1]
      BY <3>1
    <3>3. q < Len(text) /\ q \in 0 .. Len(text) /\ text[q + 1] = cell[j + 1]
      BY <1>1, <2>2, <2>3, <3>2 DEF Holds
    <3>4. read[q + 1] = Inside(a, b, Append(First(cell, j), text[q + 1]))
      BY <2>4, <2>7, <3>3, QuotedChar
    <3> QED
      BY <1>10, <2>1, <2>5, <3>2, <3>3, <3>4
  <2> QED
    BY <2>6, <2>7
<1> HIDE DEF Good
<1>13. \A j \in 0 .. n : j \in Good
  <2> HIDE DEF n
  <2> QED
    BY <1>1, <1>11, <1>12, Climb
<1>14. read[p + Len(h[n])] = Inside(a, b, cell)
  BY <1>1, <1>10, <1>13 DEF Good
<1>15. body \in Texts
  BY <1>1, <1>6, <1>8 DEF Texts
<1> QED
  BY <1>6, <1>14, <1>15 DEF body

\* What the tokenizer makes of a cell.
FieldOf(cell) ==
    [text |-> IF cell = NULL THEN <<>> ELSE cell,
     quoted |-> cell # NULL /\ (cell = <<>> \/ HasSpecial(cell))]

\* The cell stands read, and nothing ended it yet.
After(recs, record, cell) == Between(recs, record, FieldOf(cell).text, FieldOf(cell).quoted)

LEMMA FieldOfIs ==
  ASSUME NEW cell \in Cells
  PROVE  /\ FieldOf(cell) \in Fields /\ FieldValue(FieldOf(cell)) = cell
         /\ cell # NULL => FieldOf(cell).text = cell
<1>1. <<>> \in Texts
  BY DEF Texts
<1>2. HasSpecial(cell) \in BOOLEAN
  BY DEF HasSpecial
<1>3. FieldOf(cell) \in Fields
  BY <1>1, <1>2 DEF FieldOf, Fields, Cells
<1>4. FieldValue(FieldOf(cell)) = cell
  BY DEF FieldOf, FieldValue
<1> QED
  BY <1>3, <1>4 DEF FieldOf

\* Text in quotes.
LEMMA QuotedIs ==
  ASSUME NEW X, NEW body \in Seq(X), NEW q \in X
  PROVE  LET w == <<q>> \o body \o <<q>>
         IN  /\ w \in Seq(X) /\ Len(w) = Len(body) + 2
             /\ w[1] = q /\ w[Len(body) + 2] = q /\ Holds(w, 1, body)
<1> DEFINE l == <<q>>
           u == l \o body
           w == u \o l
<1>1. l \in Seq(X) /\ Len(l) = 1 /\ l[1] = q
  BY ShortSeqs
<1>2. Len(body) \in Nat
  BY LenProperties
<1> HIDE DEF l
<1>3. u \in Seq(X) /\ Len(u) = 1 + Len(body) /\ Holds(u, 0, l) /\ Holds(u, 1, body)
  <2>1. u \in Seq(X) /\ Len(u) = Len(l) + Len(body) /\ Holds(u, 0, l) /\ Holds(u, Len(l), body)
    BY <1>1, HoldsConcat
  <2> HIDE DEF u
  <2> QED
    BY <1>1, <2>1
<1> HIDE DEF u
<1>4. w \in Seq(X) /\ Len(w) = Len(u) + 1 /\ Holds(w, 0, u) /\ Holds(w, Len(u), l)
  <2>1. w \in Seq(X) /\ Len(w) = Len(u) + Len(l) /\ Holds(w, 0, u) /\ Holds(w, Len(u), l)
    BY <1>1, <1>3, HoldsConcat
  <2> HIDE DEF w
  <2> QED
    BY <1>1, <2>1
<1> HIDE DEF w
<1>5. Len(w) = Len(body) + 2
  BY <1>2, <1>3, <1>4
<1>6. Holds(w, 0 + 1, body)
  BY <1>3, <1>4, HoldsWithin
<1>7. w[1] = q
  <2>1. u[0 + 1] = l[1]
    BY <1>1, <1>3 DEF Holds
  <2>2. 1 \in 1 .. Len(u)
    BY <1>2, <1>3
  <2>3. w[0 + 1] = u[1]
    BY <1>4, <2>2 DEF Holds
  <2> QED
    BY <1>1, <2>1, <2>3
<1>8. w[Len(body) + 2] = q
  <2>1. w[Len(u) + 1] = l[1]
    BY <1>1, <1>4 DEF Holds
  <2>2. Len(u) + 1 = Len(body) + 2
    BY <1>2, <1>3
  <2> QED
    BY <1>1, <2>1, <2>2
<1> QED
  BY <1>4, <1>5, <1>6, <1>7, <1>8 DEF w, u, l

\* A field's text stands there, and another field or the line's end follows.
Stands(text, p, w) ==
    Holds(text, p, w) /\ p + Len(w) < Len(text) /\ text[p + Len(w) + 1] \in {Comma, CR}

LEMMA FieldRead ==
  ASSUME NEW text, NEW read, IsReading(text, read), NEW p \in 0 .. Len(text), NEW cell \in Cells,
         NEW w, w = EscapeField(cell), Stands(text, p, w),
         NEW a, NEW b, read[p] = Bare(a, b, <<>>)
  PROVE  read[p + Len(w)] = After(a, b, cell)
<1>0. Holds(text, p, w) /\ p + Len(w) < Len(text) /\ text[p + Len(w) + 1] \in {Comma, CR}
  BY DEF Stands
<1>1. p \in Nat /\ Len(text) \in Nat
  BY ReadingFacts
<1>2. CASE cell = NULL
  <2>1. w = <<>> /\ Len(w) = 0 /\ p + 0 = p
    BY <1>1, <1>2 DEF EscapeField
  <2>2. FieldOf(cell).text = <<>> /\ FieldOf(cell).quoted = FALSE
    BY <1>2 DEF FieldOf
  <2> QED
    BY <2>1, <2>2 DEF Bare, Between, After
<1>3. CASE cell # NULL /\ (cell = <<>> \/ HasSpecial(cell))
  <2> DEFINE body == DoubledQuotes(cell)
             n == Len(body)
             m == p + 1
  <2>1. cell \in Texts /\ Quote \in Chars
    BY <1>3, RowsAssumption DEF Cells
  <2>2. w = <<Quote>> \o body \o <<Quote>>
    BY <1>3 DEF EscapeField
  <2>3. body \in Seq(Chars)
    BY <2>1, DoubledTyped DEF Texts
  <2>4. n \in Nat
    BY <2>3, LenProperties
  <2>5. w \in Seq(Chars) /\ Len(w) = n + 2 /\ w[1] = Quote /\ w[n + 2] = Quote /\ Holds(w, 1, body)
    <3> HIDE DEF body
    <3> QED
      BY <2>1, <2>2, <2>3, QuotedIs
  <2> HIDE DEF n
  <2>6. p < Len(text) /\ m \in 0 .. Len(text) /\ m + n \in 0 .. Len(text) /\ (m + n) + 1 < Len(text)
        /\ (m + n) + 1 = p + (n + 2) /\ (m + n) + 2 = p + Len(w) + 1 /\ (m + n) + 1 = p + Len(w)
        /\ 1 \in 1 .. Len(w) /\ n + 2 \in 1 .. Len(w)
    BY <1>0, <1>1, <2>4, <2>5
  <2>7. text[p + 1] = Quote /\ text[(m + n) + 1] = Quote
    BY <1>0, <2>5, <2>6 DEF Holds
  <2>8. text[(m + n) + 2] # Quote
    BY <1>0, <2>6 DEF Comma, CR, Quote
  <2>9. Holds(text, p + 1, body)
    BY <1>0, <1>1, <2>3, <2>5, HoldsWithin DEF IsReading, Texts
  <2>10. read[m] = Inside(a, b, <<>>)
    BY <2>6, <2>7, OpeningQuote
  <2>11. read[m + n] = Inside(a, b, cell)
    <3>1. Holds(text, m, DoubledQuotes(cell))
      BY <2>9
    <3> HIDE DEF m
    <3> QED
      BY <2>1, <2>6, <2>10, <3>1, InsideRead DEF n
  <2>12. read[(m + n) + 1] = Closed(a, b, cell)
    <3> DEFINE q == m + n
    <3>1. q \in 0 .. Len(text) /\ q + 1 < Len(text) /\ text[q + 1] = Quote /\ text[q + 2] # Quote
          /\ read[q] = Inside(a, b, cell)
      BY <2>6, <2>7, <2>8, <2>11
    <3> HIDE DEF q
    <3>2. read[q + 1] = Closed(a, b, cell)
      BY <3>1, ClosingQuote
    <3> QED
      BY <3>2 DEF q
  <2>13. FieldOf(cell).text = cell /\ FieldOf(cell).quoted = TRUE
    BY <1>3 DEF FieldOf
  <2> QED
    BY <2>6, <2>12, <2>13 DEF Closed, Between, After
<1>4. CASE cell # NULL /\ cell # <<>> /\ ~ HasSpecial(cell)
  <2>1. w = cell /\ cell \in Texts
    BY <1>4 DEF EscapeField, Cells
  <2>2. read[p + Len(w)] = Bare(a, b, cell)
    BY <1>0, <1>4, <2>1, BareRead
  <2>3. FieldOf(cell).text = cell /\ FieldOf(cell).quoted = FALSE
    BY <1>4 DEF FieldOf
  <2> QED
    BY <2>2, <2>3 DEF Bare, Between, After
<1> QED
  BY <1>2, <1>3, <1>4

LEMMA EscapeTyped ==
  ASSUME NEW cell \in Cells
  PROVE  EscapeField(cell) \in Texts
<1>1. cell # NULL => cell \in Seq(Chars)
  BY DEF Cells, Texts
<1>2. <<>> \in Seq(Chars) /\ Quote \in Chars
  BY RowsAssumption
<1>3. ASSUME cell # NULL
      PROVE  <<Quote>> \o DoubledQuotes(cell) \o <<Quote>> \in Seq(Chars)
  <2>1. DoubledQuotes(cell) \in Seq(Chars)
    BY <1>3, DoubledTyped DEF Cells, Texts
  <2> QED
    BY <1>2, <2>1, QuotedIs
<1> QED
  BY <1>1, <1>2, <1>3 DEF EscapeField, Texts

\* A field of a record, with the comma before it.
Run(j, cell) == (IF j = 1 THEN <<>> ELSE <<Comma>>) \o EscapeField(cell)
Runs(cells) == [j \in DOMAIN cells |-> Run(j, cells[j])]
Gap(j) == IF j = 1 THEN 0 ELSE 1

LEMMA RunIs ==
  ASSUME NEW j \in Nat, NEW cell \in Cells
  PROVE  /\ Run(j, cell) \in Seq(Chars) /\ Len(Run(j, cell)) = Gap(j) + Len(EscapeField(cell))
         /\ Holds(Run(j, cell), Gap(j), EscapeField(cell))
         /\ j # 1 => Run(j, cell)[1] = Comma
<1> DEFINE w == EscapeField(cell)
           l == <<Comma>>
           none == <<>>
<1>1. w \in Seq(Chars) /\ Comma \in Chars /\ Len(w) \in Nat
  BY EscapeTyped, RowsAssumption, LenProperties DEF Texts
<1>2. l \in Seq(Chars) /\ Len(l) = 1 /\ l[1] = Comma /\ none \in Seq(Chars) /\ Len(none) = 0
  BY <1>1, ShortSeqs
<1> HIDE DEF w, l, none
<1>3. /\ l \o w \in Seq(Chars) /\ Len(l \o w) = 1 + Len(w) /\ Holds(l \o w, 0, l) /\ Holds(l \o w, 1, w)
      /\ none \o w \in Seq(Chars) /\ Len(none \o w) = 0 + Len(w) /\ Holds(none \o w, 0, w)
  <2>1. /\ l \o w \in Seq(Chars) /\ Len(l \o w) = Len(l) + Len(w) /\ Holds(l \o w, 0, l)
        /\ Holds(l \o w, Len(l), w)
    BY <1>1, <1>2, HoldsConcat
  <2>2. /\ none \o w \in Seq(Chars) /\ Len(none \o w) = Len(none) + Len(w)
        /\ Holds(none \o w, Len(none), w)
    BY <1>1, <1>2, HoldsConcat
  <2> QED
    BY <1>2, <2>1, <2>2
<1>4. (l \o w)[1] = Comma
  <2>1. (l \o w)[0 + 1] = l[1]
    BY <1>2, <1>3 DEF Holds
  <2> QED
    BY <1>2, <2>1
<1>5. Run(j, cell) = IF j = 1 THEN none \o w ELSE l \o w
  BY DEF Run, w, l, none
<1>6. CASE j = 1
  <2>1. Run(j, cell) = none \o w /\ Gap(j) = 0
    BY <1>5, <1>6 DEF Gap
  <2> QED
    BY <1>3, <1>6, <2>1 DEF w
<1>7. CASE j # 1
  <2>1. Run(j, cell) = l \o w /\ Gap(j) = 1
    BY <1>5, <1>7 DEF Gap
  <2> QED
    BY <1>3, <1>4, <1>7, <2>1 DEF w
<1> QED
  BY <1>6, <1>7

LEMMA RunsAre ==
  ASSUME NEW cells \in Seq(Cells)
  PROVE  /\ Len(cells) \in Nat /\ Runs(cells) \in Seq(Seq(Chars)) /\ Len(Runs(cells)) = Len(cells)
         /\ CsvRecord(cells) = FlattenSeq(Runs(cells)) \o <<CR, LF>>
         /\ \A j \in 1 .. Len(cells) : cells[j] \in Cells /\ Runs(cells)[j] = Run(j, cells[j])
<1> DEFINE n == Len(cells)
           ss == Runs(cells)
<1>1. n \in Nat /\ DOMAIN cells = 1 .. n /\ \A j \in 1 .. n : cells[j] \in Cells
  BY LenProperties, ElementOfSeq
<1>2. \A j \in 1 .. n : ss[j] = Run(j, cells[j])
  BY <1>1 DEF Runs
<1>3. \A j \in 1 .. n : ss[j] \in Seq(Chars)
  <2>1. TAKE j \in 1 .. n
  <2>2. j \in Nat /\ cells[j] \in Cells
    BY <1>1
  <2> QED
    BY <1>2, <2>2, RunIs
<1>4. ss \in Seq(Seq(Chars)) /\ Len(ss) = n
  <2>1. ss = [j \in 1 .. n |-> ss[j]]
    BY <1>1 DEF Runs
  <2> HIDE DEF ss, n
  <2> QED
    BY <1>1, <1>3, <2>1, SeqFromTo
<1> QED
  BY <1>1, <1>2, <1>4 DEF CsvRecord, Runs, Run

LEMMA RecordTyped ==
  ASSUME NEW cells \in Seq(Cells)
  PROVE  CsvRecord(cells) \in Texts
<1>1. FlattenSeq(Runs(cells)) \in Seq(Chars)
  BY RunsAre, FlattenTyped
<1>2. <<CR, LF>> \in Seq(Chars)
  BY RowsAssumption, ShortSeqs
<1> QED
  BY <1>1, <1>2, RunsAre, ConcatProperties DEF Texts

\* Where the fields of a record stand that begins after p characters: field j ends after end[j].
Begin(p, end, j) == IF j = 1 THEN p ELSE end[j - 1] + 1
Laid(text, p, cells, end) ==
    /\ \A j \in 1 .. Len(cells) :
          /\ Holds(text, Begin(p, end, j), EscapeField(cells[j]))
          /\ end[j] = Begin(p, end, j) + Len(EscapeField(cells[j]))
          /\ end[j] < Len(text)
          /\ text[end[j] + 1] = IF j = Len(cells) THEN CR ELSE Comma
    /\ end[Len(cells)] + 1 < Len(text)
    /\ text[end[Len(cells)] + 2] = LF
    /\ end[Len(cells)] + 2 = p + Len(CsvRecord(cells))

LEMMA RecordLaid ==
  ASSUME NEW text \in Texts, NEW p \in Nat, NEW cells \in Seq(Cells), cells # <<>>,
         Holds(text, p, CsvRecord(cells))
  PROVE  \E end \in [1 .. Len(cells) -> Nat] : Laid(text, p, cells, end)
<1> DEFINE n == Len(cells)
           ss == Runs(cells)
           body == FlattenSeq(ss)
           tail == <<CR, LF>>
           w == CsvRecord(cells)
<1>1. /\ n \in Nat \ {0} /\ ss \in Seq(Seq(Chars)) /\ Len(ss) = n /\ w = body \o tail
      /\ \A j \in 1 .. n : cells[j] \in Cells /\ ss[j] = Run(j, cells[j])
  BY RunsAre, EmptySeq
<1>2. PICK h \in [0 .. Len(ss) -> Seq(Chars)] : RunsUp(ss, h) /\ body = h[Len(ss)]
  BY <1>1, Flattened
<1>3. \A k \in 1 .. n : Holds(body, Len(h[k - 1]), ss[k])
  BY <1>1, <1>2, FlattenHolds
<1>4. tail \in Seq(Chars) /\ Len(tail) = 2 /\ tail[1] = CR /\ tail[2] = LF
  BY RowsAssumption, ShortSeqs
<1>5. body = h[n] /\ body \in Seq(Chars) /\ text \in Seq(Chars) /\ Len(text) \in Nat
  BY <1>1, <1>2, LenProperties DEF Texts
<1> HIDE DEF body, tail, w, ss
<1>6. w \in Seq(Chars) /\ Len(w) = Len(body) + Len(tail) /\ Holds(w, 0, body) /\ Holds(w, Len(body), tail)
  BY <1>1, <1>4, <1>5, HoldsConcat
<1>7. Len(body) \in Nat /\ Holds(text, p, w)
  BY <1>5, LenProperties DEF w
<1>8. Holds(text, p + 0, body) /\ Holds(text, p + Len(body), tail)
  BY <1>4, <1>5, <1>6, <1>7, HoldsWithin
<1>9. /\ p + Len(body) + 2 <= Len(text) /\ text[p + Len(body) + 1] = CR /\ text[p + Len(body) + 2] = LF
      /\ p + Len(body) + 2 = p + Len(w)
  BY <1>4, <1>5, <1>6, <1>7, <1>8 DEF Holds
<1>10. \A j \in 0 .. n : h[j] \in Seq(Chars) /\ Len(h[j]) \in Nat
  BY <1>1, <1>2, LenProperties
<1> DEFINE end == [j \in 1 .. n |-> p + Len(h[j])]
<1>11. end \in [1 .. n -> Nat] /\ \A j \in 1 .. n : end[j] = p + Len(h[j])
  BY <1>1, <1>10
<1>12. Len(h[0]) = 0
  BY <1>1, <1>2 DEF RunsUp
<1> HIDE DEF end
<1>13. ASSUME NEW j \in 1 .. n
       PROVE  /\ Begin(p, end, j) = p + Len(h[j - 1]) + Gap(j)
              /\ end[j] = p + Len(h[j - 1]) + Gap(j) + Len(EscapeField(cells[j]))
              /\ Holds(text, p + Len(h[j - 1]) + Gap(j), EscapeField(cells[j]))
              /\ j # 1 => text[p + Len(h[j - 1]) + 1] = Comma
              /\ end[j] <= p + Len(body)
  <2> DEFINE l == Len(h[j - 1])
             v == ss[j]
             e == EscapeField(cells[j])
  <2>1. j \in Nat /\ j - 1 \in 0 .. n /\ l \in Nat /\ (j # 1 => j - 1 \in 1 .. n)
    BY <1>1, <1>10
  <2>2. v \in Seq(Chars) /\ Len(v) = Gap(j) + Len(e) /\ Holds(v, Gap(j), e) /\ (j # 1 => v[1] = Comma)
    <3> DEFINE c == cells[j]
    <3>1. c \in Cells /\ v = Run(j, c)
      BY <1>1
    <3> HIDE DEF c, v
    <3>2. v \in Seq(Chars) /\ Len(v) = Gap(j) + Len(EscapeField(c)) /\ Holds(v, Gap(j), EscapeField(c))
          /\ (j # 1 => v[1] = Comma)
      BY <2>1, <3>1, RunIs
    <3> QED
      BY <3>2 DEF c
  <2>3. e \in Seq(Chars) /\ Len(e) \in Nat /\ Gap(j) \in Nat
    BY <1>1, EscapeTyped, LenProperties DEF Texts, Gap
  <2>4. Len(h[j]) = l + Len(v)
    <3> DEFINE u == h[j - 1]
    <3>1. h[j] = u \o v /\ u \in Seq(Chars)
      BY <1>1, <1>2, <1>10, <2>1 DEF RunsUp
    <3> HIDE DEF u, v
    <3>2. Len(u \o v) = Len(u) + Len(v)
      BY <2>2, <3>1, ConcatProperties
    <3> QED
      BY <3>1, <3>2 DEF u
  <2>5. Holds(text, p + l, v) /\ l + Len(v) <= Len(body)
    <3>1. Holds(text, p, body) /\ Holds(body, l, v)
      BY <1>3, <1>7, <1>8
    <3> HIDE DEF l, v
    <3>2. Holds(text, p + l, v)
      BY <1>5, <2>1, <2>2, <3>1, HoldsWithin
    <3>3. l + Len(v) <= Len(body)
      BY <3>1 DEF Holds
    <3> QED
      BY <3>2, <3>3
  <2>6. Begin(p, end, j) = p + l + Gap(j)
    <3>1. CASE j = 1
      BY <1>12, <2>1, <3>1 DEF Begin, Gap
    <3>2. CASE j # 1
      BY <1>11, <2>1, <3>2 DEF Begin, Gap
    <3> QED
      BY <3>1, <3>2
  <2> HIDE DEF l, v, e
  <2>7. end[j] = p + l + Gap(j) + Len(e) /\ end[j] <= p + Len(body)
    <3>1. end[j] = p + (l + (Gap(j) + Len(e))) /\ l + (Gap(j) + Len(e)) <= Len(body)
      BY <1>11, <2>2, <2>4, <2>5
    <3> QED
      BY <1>7, <2>1, <2>3, <3>1
  <2>8. Holds(text, p + l + Gap(j), e)
    BY <1>5, <2>1, <2>2, <2>3, <2>5, HoldsWithin
  <2>9. j # 1 => text[p + l + 1] = Comma
    <3>1. SUFFICES ASSUME j # 1 PROVE text[p + l + 1] = Comma
      OBVIOUS
    <3>2. 1 \in 1 .. Len(v) /\ v[1] = Comma
      BY <2>2, <2>3, <3>1 DEF Gap
    <3> QED
      BY <2>5, <3>2 DEF Holds
  <2> QED
    BY <2>6, <2>7, <2>8, <2>9 DEF l, e
<1>14. end[n] = p + Len(body)
  BY <1>1, <1>5, <1>11
<1>15. ASSUME NEW j \in 1 .. n
       PROVE  text[end[j] + 1] = IF j = n THEN CR ELSE Comma
  <2>1. CASE j = n
    BY <1>9, <1>14, <2>1
  <2>2. CASE j # n
    <3>1. j + 1 \in 1 .. n /\ (j + 1) - 1 = j /\ j + 1 # 1
      BY <1>1, <2>2
    <3>2. text[p + Len(h[j]) + 1] = Comma
      BY <1>13, <3>1
    <3> QED
      BY <1>11, <2>2, <3>2
  <2> QED
    BY <2>1, <2>2
<1>16. \A j \in 1 .. n : end[j] < Len(text)
  <2>1. TAKE j \in 1 .. n
  <2>2. end[j] <= p + Len(body) /\ end[j] \in Nat
    BY <1>11, <1>13
  <2> QED
    BY <1>5, <1>7, <1>9, <2>2
<1>17. n \in 1 .. n /\ end[n] + 1 < Len(text) /\ text[end[n] + 2] = LF /\ end[n] + 2 = p + Len(w)
  BY <1>1, <1>5, <1>7, <1>9, <1>14
<1>18. \A j \in 1 .. n : /\ Holds(text, Begin(p, end, j), EscapeField(cells[j]))
                         /\ end[j] = Begin(p, end, j) + Len(EscapeField(cells[j]))
  BY <1>13
<1> QED
  BY <1>11, <1>15, <1>16, <1>17, <1>18 DEF Laid, w

FieldsOf(cells) == [j \in 1 .. Len(cells) |-> FieldOf(cells[j])]

LEMMA FieldsAre ==
  ASSUME NEW cells \in Seq(Cells)
  PROVE  /\ FieldsOf(cells) \in Seq(Fields) /\ Len(FieldsOf(cells)) = Len(cells)
         /\ \A j \in 1 .. Len(cells) : FieldsOf(cells)[j] = FieldOf(cells[j])
         /\ \A j \in 1 .. Len(cells) :
               Ended(First(FieldsOf(cells), j - 1), FieldOf(cells[j]).text, FieldOf(cells[j]).quoted)
                   = First(FieldsOf(cells), j)
<1> DEFINE n == Len(cells)
           s == FieldsOf(cells)
<1>1. n \in Nat /\ \A j \in 1 .. n : cells[j] \in Cells
  BY LenProperties, ElementOfSeq
<1>2. \A j \in 1 .. n : s[j] = FieldOf(cells[j]) /\ s[j] \in Fields
  BY <1>1, FieldOfIs DEF FieldsOf
<1>3. s \in Seq(Fields) /\ Len(s) = n
  <2>1. s = [j \in 1 .. n |-> s[j]]
    BY DEF FieldsOf
  <2> HIDE DEF s, n
  <2> QED
    BY <1>1, <1>2, <2>1, SeqFromTo
<1>4. ASSUME NEW j \in 1 .. n
      PROVE  Ended(First(s, j - 1), FieldOf(cells[j]).text, FieldOf(cells[j]).quoted) = First(s, j)
  <2>1. j - 1 \in 0 .. Len(s) - 1 /\ (j - 1) + 1 = j
    BY <1>1, <1>3
  <2>2. First(s, j) = Append(First(s, j - 1), s[j])
    <3> HIDE DEF s
    <3>1. First(s, (j - 1) + 1) = Append(First(s, j - 1), s[(j - 1) + 1])
      BY <1>3, <2>1, FirstGrows
    <3> QED
      BY <2>1, <3>1
  <2>3. s[j] = [text |-> FieldOf(cells[j]).text, quoted |-> FieldOf(cells[j]).quoted]
    BY <1>2 DEF Fields
  <2> QED
    BY <2>2, <2>3 DEF Ended
<1> QED
  BY <1>2, <1>3, <1>4

\* A record, with the line's end.
LEMMA RecordRead ==
  ASSUME NEW text, NEW read, IsReading(text, read), NEW p \in 0 .. Len(text), NEW cells \in Seq(Cells),
         cells # <<>>, Holds(text, p, CsvRecord(cells)),
         NEW a, read[p] = Bare(a, <<>>, <<>>)
  PROVE  /\ p + Len(CsvRecord(cells)) \in 0 .. Len(text)
         /\ read[p + Len(CsvRecord(cells))] = Bare(Append(a, FieldsOf(cells)), <<>>, <<>>)
<1> DEFINE n == Len(cells)
           fields == FieldsOf(cells)
<1>1. p \in Nat /\ Len(text) \in Nat /\ text \in Texts
  BY ReadingFacts DEF IsReading
<1>2. PICK end \in [1 .. n -> Nat] : Laid(text, p, cells, end)
  BY <1>1, RecordLaid
<1>3. n \in Nat \ {0} /\ \A j \in 1 .. n : cells[j] \in Cells
  BY LenProperties, ElementOfSeq, EmptySeq
<1>4. /\ fields \in Seq(Fields) /\ Len(fields) = n
      /\ \A j \in 1 .. n : Ended(First(fields, j - 1), FieldOf(cells[j]).text, FieldOf(cells[j]).quoted)
                              = First(fields, j)
      /\ First(fields, 0) = <<>> /\ First(fields, n) = fields
  <2>1. /\ fields \in Seq(Fields) /\ Len(fields) = n
        /\ \A j \in 1 .. n : Ended(First(fields, j - 1), FieldOf(cells[j]).text, FieldOf(cells[j]).quoted)
                              = First(fields, j)
    BY FieldsAre
  <2> HIDE DEF fields, n
  <2> QED
    BY <2>1, FirstGrows
<1>5. \A j \in 1 .. n : end[j] \in 0 .. Len(text) /\ end[j] < Len(text) /\ end[j] \in Nat
  <2>1. TAKE j \in 1 .. n
  <2>2. end[j] \in Nat /\ end[j] < Len(text)
    BY <1>2 DEF Laid
  <2> QED
    BY <1>1, <2>2
<1> HIDE DEF fields
<1> DEFINE At(j) == read[end[j]] = After(a, First(fields, j - 1), cells[j])
           Good == {j \in 0 .. n : j = 0 \/ At(j)}
<1>6. 0 \in Good
  BY <1>3
<1>7. ASSUME NEW j \in 0 .. n - 1, j \in Good
      PROVE  j + 1 \in Good
  <2> DEFINE k == j + 1
             q == Begin(p, end, k)
             w == EscapeField(cells[k])
             c == cells[k]
             b == First(fields, k - 1)
             m == end[k]
  <2>1. k \in 1 .. n /\ k \in 0 .. n /\ k - 1 = j /\ (j # 0 => j \in 1 .. n) /\ (k = 1 <=> j = 0)
    BY <1>3
  <2>2. read[q] = Bare(a, b, <<>>) /\ q \in Nat
    <3>1. CASE j = 0
      BY <1>1, <1>4, <2>1, <3>1 DEF Begin
    <3>2. CASE j # 0
      <4>1. At(j) /\ j \in 1 .. n /\ j # n
        BY <1>3, <1>7, <2>1, <3>2
      <4>2. text[end[j] + 1] = Comma
        BY <1>2, <4>1 DEF Laid
      <4> DEFINE e == end[j]
                 x == FieldOf(cells[j]).text
                 y == FieldOf(cells[j]).quoted
                 z == First(fields, j - 1)
      <4>3. e \in 0 .. Len(text) /\ e < Len(text) /\ e \in Nat /\ text[e + 1] = Comma /\ read[e] = Between(a, z, x, y)
        BY <1>5, <4>1, <4>2 DEF After
      <4>4. Ended(z, x, y) = First(fields, j)
        BY <1>4, <4>1
      <4> HIDE DEF e, x, y, z
      <4>5. read[e + 1] = Bare(a, Ended(z, x, y), <<>>)
        BY <4>3, FieldEnd
      <4>6. q = e + 1 /\ b = First(fields, j)
        BY <2>1, <3>2 DEF Begin, e
      <4> HIDE DEF q, b
      <4> QED
        BY <4>3, <4>4, <4>5, <4>6
    <3> QED
      BY <3>1, <3>2
  <2>3. /\ Holds(text, q, w) /\ m = q + Len(w) /\ m < Len(text) /\ text[m + 1] \in {CR, Comma}
        /\ c \in Cells /\ w = EscapeField(c)
    BY <1>2, <1>3, <2>1 DEF Laid
  <2>4. Len(w) \in Nat
    BY <2>3, EscapeTyped, LenProperties DEF Texts
  <2> HIDE DEF q, w, c, b, m
  <2>5. q \in 0 .. Len(text)
    BY <1>1, <2>2, <2>3, <2>4
  <2>6. Stands(text, q, w)
    BY <2>3 DEF Stands
  <2>7. read[q + Len(w)] = After(a, b, c)
    BY <2>2, <2>3, <2>5, <2>6, FieldRead
  <2>8. read[m] = After(a, b, c)
    BY <2>3, <2>7
  <2> QED
    BY <2>1, <2>8 DEF m, b, c
<1> HIDE DEF Good
<1>8. \A j \in 0 .. n : j \in Good
  <2>1. n \in Nat
    BY <1>3
  <2> HIDE DEF n
  <2> QED
    BY <2>1, <1>6, <1>7, Climb
<1>9. At(n) /\ n \in 1 .. n
  BY <1>3, <1>8 DEF Good
<1> DEFINE e == end[n]
           x == FieldOf(cells[n]).text
           y == FieldOf(cells[n]).quoted
           z == First(fields, n - 1)
<1>10. /\ e \in 0 .. Len(text) /\ e + 1 < Len(text) /\ text[e + 1] = CR /\ text[e + 2] = LF
       /\ e + 2 = p + Len(CsvRecord(cells)) /\ read[e] = Between(a, z, x, y) /\ e \in Nat
  BY <1>2, <1>5, <1>9 DEF Laid, After
<1>11. Ended(z, x, y) = fields
  BY <1>4, <1>9
<1> HIDE DEF e, x, y, z
<1>12. read[e + 2] = Bare(Append(a, Ended(z, x, y)), <<>>, <<>>)
  BY <1>10, LineEnd
<1>13. e + 2 \in 0 .. Len(text)
  BY <1>1, <1>10
<1> QED
  BY <1>10, <1>11, <1>12, <1>13 DEF fields

\* A file: the header's record, and one for each line.
RecordsOf(lines) == [r \in DOMAIN lines |-> CsvRecord(lines[r])]
FileOf(header, lines) == CsvRecord(header) \o FlattenSeq(RecordsOf(lines))
AllFields(header, lines) ==
    [i \in 1 .. Len(lines) + 1 |-> IF i = 1 THEN FieldsOf(header) ELSE FieldsOf(lines[i - 1])]
Lines == {cells \in Seq(Cells) : cells # <<>>}

LEMMA RecordsAre ==
  ASSUME NEW lines \in Seq(Lines)
  PROVE  /\ Len(lines) \in Nat /\ RecordsOf(lines) \in Seq(Seq(Chars)) /\ Len(RecordsOf(lines)) = Len(lines)
         /\ \A r \in 1 .. Len(lines) : lines[r] \in Lines /\ RecordsOf(lines)[r] = CsvRecord(lines[r])
<1> DEFINE n == Len(lines)
           ss == RecordsOf(lines)
<1>1. n \in Nat /\ DOMAIN lines = 1 .. n /\ \A r \in 1 .. n : lines[r] \in Lines
  BY LenProperties, ElementOfSeq
<1>2. \A r \in 1 .. n : ss[r] = CsvRecord(lines[r])
  BY <1>1 DEF RecordsOf
<1>3. \A r \in 1 .. n : ss[r] \in Seq(Chars)
  BY <1>1, <1>2, RecordTyped DEF Lines, Texts
<1>4. ss \in Seq(Seq(Chars)) /\ Len(ss) = n
  <2>1. ss = [r \in 1 .. n |-> ss[r]]
    BY <1>1 DEF RecordsOf
  <2> HIDE DEF ss, n
  <2> QED
    BY <1>1, <1>3, <2>1, SeqFromTo
<1> QED
  BY <1>1, <1>2, <1>4

LEMMA FileTyped ==
  ASSUME NEW header \in Lines, NEW lines \in Seq(Lines)
  PROVE  FileOf(header, lines) \in Texts
<1>1. CsvRecord(header) \in Seq(Chars)
  BY RecordTyped DEF Lines, Texts
<1>2. FlattenSeq(RecordsOf(lines)) \in Seq(Chars)
  BY RecordsAre, FlattenTyped
<1> QED
  BY <1>1, <1>2, ConcatProperties DEF FileOf, Texts

LEMMA AllFieldsAre ==
  ASSUME NEW header \in Lines, NEW lines \in Seq(Lines)
  PROVE  /\ AllFields(header, lines) \in Seq(Seq(Fields)) /\ Len(AllFields(header, lines)) = Len(lines) + 1
         /\ AllFields(header, lines)[1] = FieldsOf(header)
         /\ \A r \in 1 .. Len(lines) : AllFields(header, lines)[r + 1] = FieldsOf(lines[r])
<1> DEFINE n == Len(lines)
           s == AllFields(header, lines)
<1>1. n \in Nat /\ \A r \in 1 .. n : lines[r] \in Lines
  BY LenProperties, ElementOfSeq
<1>2. \A r \in 1 .. n : s[r + 1] = FieldsOf(lines[r])
  <2>1. TAKE r \in 1 .. n
  <2>2. r + 1 \in 1 .. n + 1 /\ r + 1 # 1 /\ (r + 1) - 1 = r
    BY <1>1
  <2> QED
    BY <2>2 DEF AllFields
<1>3. s[1] = FieldsOf(header)
  BY <1>1 DEF AllFields
<1>4. \A i \in 1 .. n + 1 : s[i] \in Seq(Fields)
  <2>1. TAKE i \in 1 .. n + 1
  <2>2. CASE i = 1
    BY <1>3, <2>2, FieldsAre DEF Lines
  <2>3. CASE i # 1
    <3>1. i - 1 \in 1 .. n /\ (i - 1) + 1 = i
      BY <1>1, <2>3
    <3>2. s[(i - 1) + 1] = FieldsOf(lines[i - 1]) /\ lines[i - 1] \in Seq(Cells)
      BY <1>1, <1>2, <3>1 DEF Lines
    <3> QED
      BY <3>1, <3>2, FieldsAre
  <2> QED
    BY <2>2, <2>3
<1>5. s \in Seq(Seq(Fields)) /\ Len(s) = n + 1
  <2> DEFINE m == n + 1
  <2>1. s = [i \in 1 .. m |-> s[i]]
    BY DEF AllFields
  <2>2. m \in Nat
    BY <1>1
  <2> HIDE DEF s, m
  <2> QED
    BY <1>4, <2>1, <2>2, SeqFromTo DEF m
<1> QED
  BY <1>2, <1>3, <1>5

LEMMA FileRead ==
  ASSUME NEW header \in Lines, NEW lines \in Seq(Lines),
         NEW read, IsReading(FileOf(header, lines), read)
  PROVE  read[Len(FileOf(header, lines))] = Bare(AllFields(header, lines), <<>>, <<>>)
<1> DEFINE text == FileOf(header, lines)
           top == CsvRecord(header)
           ss == RecordsOf(lines)
           body == FlattenSeq(ss)
           n == Len(lines)
           all == AllFields(header, lines)
<1>1. /\ n \in Nat /\ ss \in Seq(Seq(Chars)) /\ Len(ss) = n
      /\ \A r \in 1 .. n : lines[r] \in Lines /\ ss[r] = CsvRecord(lines[r])
  BY RecordsAre
<1>2. PICK h \in [0 .. Len(ss) -> Seq(Chars)] : RunsUp(ss, h) /\ body = h[Len(ss)]
  BY <1>1, Flattened
<1>3. \A k \in 1 .. n : Holds(body, Len(h[k - 1]), ss[k])
  BY <1>1, <1>2, FlattenHolds
<1>4. top \in Seq(Chars) /\ body \in Seq(Chars) /\ text = top \o body /\ body = h[n]
  BY <1>1, <1>2, RecordTyped, FlattenTyped DEF FileOf, Lines, Texts
<1>5. /\ all \in Seq(Seq(Fields)) /\ Len(all) = n + 1 /\ all[1] = FieldsOf(header)
      /\ \A r \in 1 .. n : all[r + 1] = FieldsOf(lines[r])
  BY AllFieldsAre
<1>6. header \in Seq(Cells) /\ header # <<>> /\ IsReading(text, read)
  BY DEF Lines
<1> HIDE DEF text, top, ss, body, all
<1>7. /\ Len(text) = Len(top) + Len(body) /\ Holds(text, 0, top) /\ Holds(text, Len(top), body)
      /\ text \in Seq(Chars)
  BY <1>4, HoldsConcat
<1>8. Len(top) \in Nat /\ Len(body) \in Nat /\ Len(text) \in Nat /\ 0 \in 0 .. Len(text)
  BY <1>4, <1>7, LenProperties
<1>9. /\ First(all, 0) = <<>> /\ First(all, n + 1) = all
      /\ \A j \in 0 .. n : First(all, j + 1) = Append(First(all, j), all[j + 1])
  <2>1. /\ First(all, 0) = <<>> /\ First(all, Len(all)) = all
        /\ \A j \in 0 .. Len(all) - 1 : First(all, j + 1) = Append(First(all, j), all[j + 1])
    BY <1>5, FirstGrows
  <2>2. Len(all) - 1 = n
    BY <1>1, <1>5
  <2> QED
    BY <1>5, <2>1, <2>2
<1>10. read[0] = Bare(<<>>, <<>>, <<>>)
  BY <1>6 DEF IsReading, IsRead, NothingRead, Bare, Reader
<1>11. 0 + Len(top) \in 0 .. Len(text) /\ read[0 + Len(top)] = Bare(First(all, 1), <<>>, <<>>)
  <2> DEFINE none == <<>>
  <2>1. read[0] = Bare(none, <<>>, <<>>) /\ Holds(text, 0, CsvRecord(header))
    BY <1>7, <1>10 DEF top
  <2> HIDE DEF none
  <2>2. /\ 0 + Len(CsvRecord(header)) \in 0 .. Len(text)
        /\ read[0 + Len(CsvRecord(header))] = Bare(Append(none, FieldsOf(header)), <<>>, <<>>)
    BY <1>6, <1>8, <2>1, RecordRead
  <2>3. First(all, 1) = Append(First(all, 0), all[1])
    <3>1. 0 \in 0 .. n /\ 0 + 1 = 1
      BY <1>1
    <3>2. First(all, 0 + 1) = Append(First(all, 0), all[0 + 1])
      BY <1>9, <3>1
    <3> QED
      BY <3>1, <3>2
  <2>4. First(all, 1) = Append(none, FieldsOf(header))
    BY <1>5, <1>9, <2>3 DEF none
  <2> QED
    BY <2>2, <2>4 DEF top
<1>12. \A j \in 0 .. n : h[j] \in Seq(Chars) /\ Len(h[j]) \in Nat
  BY <1>1, <1>2, LenProperties
<1> DEFINE Good == {j \in 0 .. n : read[Len(top) + Len(h[j])] = Bare(First(all, j + 1), <<>>, <<>>)
                                   /\ Len(top) + Len(h[j]) \in 0 .. Len(text)}
<1>13. 0 \in Good
  <2>1. Len(h[0]) = 0 /\ 0 + Len(top) = Len(top) /\ Len(top) + 0 = Len(top) /\ 0 + 1 = 1 /\ 0 \in 0 .. n
    BY <1>1, <1>2, <1>8 DEF RunsUp
  <2> QED
    BY <1>11, <2>1
<1>14. ASSUME NEW j \in 0 .. n - 1, j \in Good
       PROVE  j + 1 \in Good
  <2> DEFINE k == j + 1
             q == Len(top) + Len(h[j])
             w == ss[k]
             cells == lines[k]
             a == First(all, k)
  <2>1. k \in 1 .. n /\ k \in 0 .. n /\ k - 1 = j /\ j \in 0 .. n
    BY <1>1
  <2>2. q \in 0 .. Len(text) /\ read[q] = Bare(a, <<>>, <<>>)
    BY <1>14
  <2>3. cells \in Seq(Cells) /\ cells # <<>> /\ w = CsvRecord(cells) /\ w \in Seq(Chars) /\ Len(w) \in Nat
    BY <1>1, <2>1, ElementOfSeq, LenProperties DEF Lines
  <2>4. Holds(text, q, w)
    <3> DEFINE l == Len(h[j])
    <3>1. Holds(text, Len(top), body) /\ Holds(body, l, w) /\ l \in Nat
      BY <1>3, <1>7, <1>12, <2>1
    <3> HIDE DEF l, w
    <3>2. Holds(text, Len(top) + l, w)
      BY <1>4, <1>7, <1>8, <2>3, <3>1, HoldsWithin
    <3> QED
      BY <3>2 DEF l
  <2>5. Len(h[k]) = Len(h[j]) + Len(w)
    <3> DEFINE u == h[j]
    <3>1. h[k] = u \o w /\ u \in Seq(Chars)
      BY <1>1, <1>2, <1>12, <2>1 DEF RunsUp
    <3> HIDE DEF u, w
    <3>2. Len(u \o w) = Len(u) + Len(w)
      BY <2>3, <3>1, ConcatProperties
    <3> QED
      BY <3>1, <3>2 DEF u
  <2>6. Append(a, FieldsOf(cells)) = First(all, k + 1)
    BY <1>5, <1>9, <2>1
  <2>7. Len(top) + Len(h[k]) = q + Len(w)
    <3> DEFINE l == Len(h[j])
               m == Len(w)
               t == Len(top)
    <3>1. l \in Nat /\ m \in Nat /\ t \in Nat /\ Len(h[k]) = l + m
      BY <1>8, <1>12, <2>1, <2>3, <2>5
    <3> HIDE DEF l, m, t
    <3>2. t + Len(h[k]) = (t + l) + m
      BY <3>1
    <3> QED
      BY <3>2 DEF l, m, t
  <2> HIDE DEF q, w, cells, a
  <2>8. q + Len(w) \in 0 .. Len(text) /\ read[q + Len(w)] = Bare(Append(a, FieldsOf(cells)), <<>>, <<>>)
    <3>1. /\ IsReading(text, read) /\ q \in 0 .. Len(text) /\ cells \in Seq(Cells) /\ cells # <<>>
          /\ Holds(text, q, CsvRecord(cells)) /\ read[q] = Bare(a, <<>>, <<>>)
      BY <1>6, <2>2, <2>3, <2>4
    <3>2. /\ q + Len(CsvRecord(cells)) \in 0 .. Len(text)
          /\ read[q + Len(CsvRecord(cells))] = Bare(Append(a, FieldsOf(cells)), <<>>, <<>>)
      BY <3>1, RecordRead
    <3> QED
      BY <2>3, <3>2
  <2> QED
    BY <2>1, <2>6, <2>7, <2>8
<1> HIDE DEF Good
<1>15. \A j \in 0 .. n : j \in Good
  <2> HIDE DEF n
  <2> QED
    BY <1>1, <1>13, <1>14, Climb
<1>16. n \in Good
  BY <1>1, <1>15
<1> QED
  BY <1>4, <1>7, <1>9, <1>16 DEF Good, text, all

LEMMA Tokenized ==
  ASSUME NEW header \in Lines, NEW lines \in Seq(Lines)
  PROVE  TokenizeCsv(FileOf(header, lines)) = AllFields(header, lines)
<1> DEFINE text == FileOf(header, lines)
           last == ReadAll(text)
           all == AllFields(header, lines)
<1>1. text \in Texts
  BY FileTyped
<1>2. PICK read \in [0 .. Len(text) -> Readers] : IsRead(text, read) /\ last = read[Len(text)]
  <2> HIDE DEF text
  <2> QED
    BY <1>1, ReadAllIs
<1>3. IsReading(text, read)
  BY <1>1, <1>2 DEF IsReading
<1>4. last = Bare(all, <<>>, <<>>)
  BY <1>2, <1>3, FileRead
<1> HIDE DEF last, text, all
<1>5. last.field = <<>> /\ last.record = <<>> /\ last.quoted = FALSE /\ last.records = all
  BY <1>4 DEF Bare, Reader
<1>6. TokenizeCsv(text) = last.records
  BY <1>5 DEF TokenizeCsv, last
<1> QED
  BY <1>5, <1>6 DEF text, all

-----------------------------------------------------------------------------
(* A file with rows.                                                       *)

\* The columns can be told apart, and none is called NULL.
Naming(columns) ==
    /\ columns \in Seq(Chars) /\ columns # <<>>
    /\ \A i \in 1 .. Len(columns) : <<columns[i]>> # NULL
    /\ \A i \in 1 .. Len(columns), j \in 1 .. Len(columns) : columns[i] = columns[j] => i = j

ColumnsOf(columns) == {columns[i] : i \in 1 .. Len(columns)}
HeaderOf(columns) == [i \in DOMAIN columns |-> <<columns[i]>>]

LEMMA HeaderIs ==
  ASSUME NEW columns, Naming(columns)
  PROVE  /\ HeaderOf(columns) \in Lines /\ Len(HeaderOf(columns)) = Len(columns)
         /\ Len(columns) \in Nat \ {0}
         /\ \A i \in 1 .. Len(columns) : HeaderOf(columns)[i] = <<columns[i]>>
<1> DEFINE n == Len(columns)
           s == HeaderOf(columns)
<1>1. n \in Nat \ {0} /\ DOMAIN columns = 1 .. n /\ \A i \in 1 .. n : columns[i] \in Chars
  BY LenProperties, ElementOfSeq, EmptySeq DEF Naming
<1>2. \A i \in 1 .. n : s[i] = <<columns[i]>>
  BY <1>1 DEF HeaderOf
<1>3. \A i \in 1 .. n : s[i] \in Cells
  <2>1. TAKE i \in 1 .. n
  <2>2. columns[i] \in Chars /\ s[i] = <<columns[i]>>
    BY <1>1, <1>2
  <2>3. <<columns[i]>> \in Seq(Chars)
    BY <2>2, ShortSeqs
  <2> QED
    BY <2>2, <2>3 DEF Cells, Texts
<1>4. s \in Seq(Cells) /\ Len(s) = n
  <2>1. s = [i \in 1 .. n |-> s[i]]
    BY <1>1 DEF HeaderOf
  <2>2. n \in Nat
    BY <1>1
  <2> HIDE DEF s, n
  <2> QED
    BY <1>3, <2>1, <2>2, SeqFromTo
<1>5. s # <<>>
  <2> HIDE DEF s
  <2> QED
    BY <1>1, <1>4
<1> QED
  BY <1>1, <1>2, <1>4, <1>5 DEF Lines

LEMMA CellsAre ==
  ASSUME NEW columns, Naming(columns), NEW row \in [ColumnsOf(columns) -> Cells]
  PROVE  /\ CellsOf(columns, row) \in Lines /\ Len(CellsOf(columns, row)) = Len(columns)
         /\ \A i \in 1 .. Len(columns) : CellsOf(columns, row)[i] = row[columns[i]]
<1> DEFINE n == Len(columns)
           s == CellsOf(columns, row)
<1>1. n \in Nat \ {0} /\ DOMAIN columns = 1 .. n
  BY LenProperties, EmptySeq DEF Naming
<1>2. \A i \in 1 .. n : s[i] = row[columns[i]] /\ s[i] \in Cells
  BY <1>1 DEF CellsOf, ColumnsOf
<1>3. s \in Seq(Cells) /\ Len(s) = n
  <2>1. s = [i \in 1 .. n |-> s[i]]
    BY <1>1 DEF CellsOf
  <2>2. n \in Nat
    BY <1>1
  <2> HIDE DEF s, n
  <2> QED
    BY <1>2, <2>1, <2>2, SeqFromTo
<1>4. s # <<>>
  <2> HIDE DEF s
  <2> QED
    BY <1>1, <1>3
<1> QED
  BY <1>2, <1>3, <1>4 DEF Lines

\* What is read back of a header and of a row.
LEMMA ColumnNamedIs ==
  ASSUME NEW x
  PROVE  ColumnNamed(<<x>>) = x
<1> DEFINE s == <<x>>
<1>1. {s[i] : i \in DOMAIN s} = {x}
  OBVIOUS
<1> HIDE DEF s
<1>2. ColumnNamed(s) = CHOOSE c \in {x} : TRUE
  BY <1>1 DEF ColumnNamed
<1> QED
  BY <1>2 DEF s

LEMMA RowIs ==
  ASSUME NEW columns, Naming(columns), NEW row \in [ColumnsOf(columns) -> Cells]
  PROVE  RowOf(FieldsOf(HeaderOf(columns)), FieldsOf(CellsOf(columns, row))) = row
<1> DEFINE n == Len(columns)
           top == FieldsOf(HeaderOf(columns))
           line == FieldsOf(CellsOf(columns, row))
           Position(c) == CHOOSE i \in DOMAIN top : ColumnNamed(top[i].text) = c
           Got(c) == FieldValue(line[Position(c)])
<1>1. /\ HeaderOf(columns) \in Seq(Cells) /\ Len(HeaderOf(columns)) = n
      /\ n \in Nat \ {0} /\ \A i \in 1 .. n : HeaderOf(columns)[i] = <<columns[i]>>
      /\ CellsOf(columns, row) \in Seq(Cells) /\ Len(CellsOf(columns, row)) = n
      /\ \A i \in 1 .. n : CellsOf(columns, row)[i] = row[columns[i]]
  BY HeaderIs, CellsAre DEF Lines
<1>2. /\ top \in Seq(Fields) /\ Len(top) = n
      /\ \A i \in 1 .. n : top[i] = FieldOf(<<columns[i]>>)
      /\ \A i \in 1 .. n : line[i] = FieldOf(row[columns[i]])
  <2> DEFINE header == HeaderOf(columns)
             cells == CellsOf(columns, row)
  <2>1. /\ header \in Seq(Cells) /\ Len(header) = n /\ cells \in Seq(Cells) /\ Len(cells) = n
        /\ \A i \in 1 .. n : header[i] = <<columns[i]>> /\ cells[i] = row[columns[i]]
    BY <1>1
  <2> HIDE DEF header, cells
  <2>2. /\ FieldsOf(header) \in Seq(Fields) /\ Len(FieldsOf(header)) = n
        /\ \A i \in 1 .. n : FieldsOf(header)[i] = FieldOf(header[i])
    BY <2>1, FieldsAre
  <2>3. \A i \in 1 .. n : FieldsOf(cells)[i] = FieldOf(cells[i])
    BY <2>1, FieldsAre
  <2> QED
    BY <2>1, <2>2, <2>3 DEF header, cells
<1>3. \A i \in 1 .. n : columns[i] \in Chars /\ row[columns[i]] \in Cells
  BY ElementOfSeq DEF Naming, ColumnsOf
<1> HIDE DEF top, line
<1>4. DOMAIN top = 1 .. n
  BY <1>2, LenProperties
<1>5. \A i \in 1 .. n : ColumnNamed(top[i].text) = columns[i]
  <2>1. TAKE i \in 1 .. n
  <2> DEFINE cell == <<columns[i]>>
  <2>2. cell \in Cells /\ cell # NULL
    BY <1>3, ShortSeqs DEF Cells, Texts, Naming
  <2>3. top[i] = FieldOf(cell)
    BY <1>2
  <2>4. ColumnNamed(cell) = columns[i]
    BY ColumnNamedIs
  <2> HIDE DEF cell
  <2>5. FieldOf(cell).text = cell
    BY <2>2, FieldOfIs
  <2> QED
    BY <2>3, <2>4, <2>5
<1>6. \A i \in 1 .. n : FieldValue(line[i]) = row[columns[i]]
  BY <1>2, <1>3, FieldOfIs
<1>7. \A i \in 1 .. n : Position(columns[i]) = i
  <2>1. TAKE i \in 1 .. n
  <2> DEFINE c == columns[i]
             P == Position(c)
  <2>2. \E j \in DOMAIN top : ColumnNamed(top[j].text) = c
    BY <1>4, <1>5
  <2>3. P \in DOMAIN top /\ ColumnNamed(top[P].text) = c
    BY <2>2
  <2> HIDE DEF P
  <2>4. P \in 1 .. n /\ columns[P] = columns[i]
    BY <1>4, <1>5, <2>3
  <2>5. P = i
    BY <2>4 DEF Naming
  <2> QED
    BY <2>5 DEF P
<1>8. {ColumnNamed(top[i].text) : i \in DOMAIN top} = ColumnsOf(columns)
  <2>1. {ColumnNamed(top[i].text) : i \in 1 .. n} = {columns[i] : i \in 1 .. n}
    BY <1>5
  <2> QED
    BY <1>4, <2>1 DEF ColumnsOf
<1>9. RowOf(top, line) = [c \in ColumnsOf(columns) |-> Got(c)]
  BY <1>8 DEF RowOf
<1>10. \A c \in ColumnsOf(columns) : Got(c) = row[c]
  <2>1. TAKE c \in ColumnsOf(columns)
  <2>2. PICK i \in 1 .. n : c = columns[i]
    BY DEF ColumnsOf
  <2>3. Position(c) = i
    BY <1>7, <2>2
  <2> HIDE DEF Position
  <2> QED
    BY <1>6, <2>2, <2>3
<1> HIDE DEF Got
<1>11. [c \in ColumnsOf(columns) |-> Got(c)] = row
  BY <1>10
<1> QED
  BY <1>9, <1>11 DEF top, line

\* The parser reads back what was written.
LEMMA ReadBack ==
  ASSUME NEW columns, Naming(columns), NEW rows \in Seq([ColumnsOf(columns) -> Cells])
  PROVE  /\ ToCSV(columns, rows) \in Texts
         /\ ParseCsv(ToCSV(columns, rows)) = [ok |-> TRUE, rows |-> rows]
<1> DEFINE n == Len(rows)
           header == HeaderOf(columns)
           lines == [r \in DOMAIN rows |-> CellsOf(columns, rows[r])]
           text == ToCSV(columns, rows)
           all == AllFields(header, lines)
           m == Len(columns)
<1>1. n \in Nat /\ DOMAIN rows = 1 .. n /\ \A r \in 1 .. n : rows[r] \in [ColumnsOf(columns) -> Cells]
  BY LenProperties, ElementOfSeq
<1>2. \A r \in 1 .. n : lines[r] = CellsOf(columns, rows[r]) /\ lines[r] \in Lines /\ Len(lines[r]) = m
  BY <1>1, CellsAre
<1>3. lines \in Seq(Lines) /\ Len(lines) = n
  <2>1. lines = [r \in 1 .. n |-> lines[r]]
    BY <1>1
  <2> HIDE DEF lines, n
  <2> QED
    BY <1>1, <1>2, <2>1, SeqFromTo
<1>4. header \in Lines /\ Len(header) = m
  BY HeaderIs
<1>5. text = FileOf(header, lines)
  <2>1. DOMAIN lines = DOMAIN rows /\ \A r \in DOMAIN rows : lines[r] = CellsOf(columns, rows[r])
    OBVIOUS
  <2> HIDE DEF lines
  <2>2. [r \in DOMAIN lines |-> CsvRecord(lines[r])] = [r \in DOMAIN rows |-> CsvRecord(CellsOf(columns, rows[r]))]
    BY <2>1
  <2> QED
    BY <2>2 DEF ToCSV, FileOf, RecordsOf, HeaderOf
<1> HIDE DEF lines, header, text
<1>6. /\ all \in Seq(Seq(Fields)) /\ Len(all) = n + 1 /\ all[1] = FieldsOf(header)
      /\ \A r \in 1 .. n : all[r + 1] = FieldsOf(lines[r])
  BY <1>3, <1>4, AllFieldsAre
<1>7. TokenizeCsv(text) = all
  BY <1>3, <1>4, <1>5, Tokenized
<1>8. text \in Texts
  BY <1>3, <1>4, <1>5, FileTyped
<1> HIDE DEF all
<1>9. all # <<>> /\ DOMAIN all = 1 .. n + 1
  BY <1>1, <1>6, LenProperties
<1>10. \A i \in DOMAIN all : Len(all[i]) = m
  <2>1. TAKE i \in DOMAIN all
  <2>2. CASE i = 1
    BY <1>4, <1>6, <2>2, FieldsAre DEF Lines
  <2>3. CASE i # 1
    <3>1. i - 1 \in 1 .. n /\ (i - 1) + 1 = i
      BY <1>1, <1>9, <2>3
    <3>2. all[i] = FieldsOf(lines[i - 1]) /\ lines[i - 1] \in Seq(Cells) /\ Len(lines[i - 1]) = m
      BY <1>2, <1>6, <3>1 DEF Lines
    <3> QED
      BY <3>2, FieldsAre
  <2> QED
    BY <2>2, <2>3
<1>11. 1 \in DOMAIN all
  BY <1>1, <1>9
<1>12. ~ \E i \in DOMAIN all : Len(all[i]) # Len(all[1])
  BY <1>10, <1>11
<1> DEFINE back == [i \in 1 .. (Len(all) - 1) |-> RowOf(all[1], all[i + 1])]
<1>13. ParseCsv(text) = [ok |-> TRUE, rows |-> back]
  BY <1>7, <1>9, <1>12 DEF ParseCsv
<1>14. back = rows
  <2>1. Len(all) - 1 = n
    BY <1>1, <1>6
  <2>2. \A i \in 1 .. n : RowOf(all[1], all[i + 1]) = rows[i]
    <3>1. TAKE i \in 1 .. n
    <3>2. all[i + 1] = FieldsOf(CellsOf(columns, rows[i])) /\ rows[i] \in [ColumnsOf(columns) -> Cells]
      BY <1>1, <1>2, <1>6
    <3> QED
      BY <1>6, <3>2, RowIs DEF header
  <2>3. rows = [i \in 1 .. n |-> rows[i]]
    BY <1>1
  <2> QED
    BY <2>1, <2>2, <2>3
<1> QED
  BY <1>8, <1>13, <1>14 DEF text

LEMMA ColumnsNamed ==
  /\ Naming(Columns) /\ ColumnsOf(Columns) = DataColumns \cup {"id"}
<1> DEFINE s == Columns
<1>1. s = <<"id", "name", "note">>
  BY DEF Columns
<1>2. DOMAIN s = 1 .. 3
  BY <1>1
<1>3. \A i \in 1 .. 3 : s[i] \in Chars
  BY <1>2, RowsAssumption
<1>4. Len(s) = 3 /\ s[1] = "id" /\ s[2] = "name" /\ s[3] = "note" /\ s # <<>>
  BY <1>1
<1>5. s = [i \in 1 .. 3 |-> s[i]]
  BY <1>1
<1> HIDE DEF s
<1>6. s \in Seq(Chars)
  BY <1>3, <1>5, SeqFromTo
<1>7. \A i \in 1 .. 3 : i = 1 \/ i = 2 \/ i = 3
  OBVIOUS
<1>8. \A i \in 1 .. 3, j \in 1 .. 3 : s[i] = s[j] => i = j
  BY <1>4, <1>7
<1>9. \A i \in 1 .. 3 : <<s[i]>> # NULL
  BY <1>4, <1>7 DEF NULL
<1>10. {s[i] : i \in 1 .. 3} = {"name", "note", "id"}
  <2>1. 1 \in 1 .. 3 /\ 2 \in 1 .. 3 /\ 3 \in 1 .. 3
    OBVIOUS
  <2> QED
    BY <1>4, <1>7, <2>1
<1> QED
  BY <1>4, <1>6, <1>8, <1>9, <1>10 DEF Naming, ColumnsOf, s, DataColumns

-----------------------------------------------------------------------------
(* Numbers in order.                                                       *)

UpTo(S, i) == {j \in S : j <= i}

LEMMA NthIs ==
  ASSUME NEW S, S \subseteq Nat, IsFiniteSet(S)
  PROVE  /\ Cardinality(S) \in Nat
         /\ \A n \in 1 .. Cardinality(S) : Nth(S, n) \in S
         /\ \A n \in 1 .. Cardinality(S), m \in 1 .. Cardinality(S) : Nth(S, n) = Nth(S, m) => n = m
<1> DEFINE z == Cardinality(S)
           T == 1 .. z
           f == [i \in S |-> Cardinality(UpTo(S, i))]
<1>1. z \in Nat
  BY FS_CardinalityType
<1>2. \A i \in S : UpTo(S, i) \in SUBSET S
  BY DEF UpTo
<1>3. \A i \in S : IsFiniteSet(UpTo(S, i)) /\ Cardinality(UpTo(S, i)) <= z
  BY <1>2, FS_Subset
<1>4. \A i \in S : Cardinality(UpTo(S, i)) \in Nat
  BY <1>3, FS_CardinalityType
<1>5. \A i \in S : Cardinality(UpTo(S, i)) # 0
  <2>1. TAKE i \in S
  <2>2. i <= i /\ i \in UpTo(S, i)
    BY DEF UpTo
  <2> QED
    BY <1>3, <2>2, FS_EmptySet
<1>6. f \in [S -> T]
  BY <1>1, <1>3, <1>4, <1>5
<1>7. ASSUME NEW i \in S, NEW k \in S, i < k
      PROVE  f[i] # f[k]
  <2>1. UpTo(S, i) \in SUBSET UpTo(S, k) /\ k \in UpTo(S, k) /\ k \notin UpTo(S, i)
    <3>1. \A j \in S : j \in Nat
      OBVIOUS
    <3>2. \A j \in S : j <= i => j <= k
      BY <1>7, <3>1
    <3>3. k <= k /\ ~ (k <= i)
      BY <1>7, <3>1
    <3> QED
      BY <3>2, <3>3 DEF UpTo
  <2>2. Cardinality(UpTo(S, k)) # Cardinality(UpTo(S, i))
    BY <1>3, <2>1, FS_Subset
  <2> QED
    BY <2>2
<1>8. \A i \in S, k \in S : f[i] = f[k] => i = k
  <2>1. TAKE i \in S, k \in S
  <2>2. i = k \/ i < k \/ k < i
    OBVIOUS
  <2> HIDE DEF f
  <2> QED
    BY <1>7, <2>2
<1>9. IsFiniteSet(T) /\ Cardinality(T) = z
  BY <1>1, FS_Interval
<1> HIDE DEF f, T
<1>10. f \in Injection(S, T)
  BY <1>6, <1>8 DEF Injection, IsInjective
<1>11. f \in Surjection(S, T)
  BY <1>9, <1>10, FS_Injection DEF z
<1>12. \A n \in T : \E i \in S : f[i] = n
  BY <1>11 DEF Surjection
<1>13. ASSUME NEW n \in T
       PROVE  Nth(S, n) \in S /\ f[Nth(S, n)] = n
  <2>1. PICK i \in S : f[i] = n
    BY <1>12
  <2>2. \E k \in S : Cardinality(UpTo(S, k)) = n
    BY <2>1 DEF f
  <2>3. Nth(S, n) = CHOOSE k \in S : Cardinality(UpTo(S, k)) = n
    BY DEF Nth, UpTo
  <2>4. Nth(S, n) \in S /\ Cardinality(UpTo(S, Nth(S, n))) = n
    BY <2>2, <2>3
  <2> QED
    BY <2>4 DEF f
<1> QED
  BY <1>1, <1>13 DEF T

LEMMA SmallSets ==
  ASSUME NEW n \in Nat, NEW S, S \subseteq 1 .. n
  PROVE  S \subseteq Nat /\ IsFiniteSet(S)
<1>1. IsFiniteSet(1 .. n) /\ S \in SUBSET (1 .. n)
  BY FS_Interval
<1>2. IsFiniteSet(S)
  BY <1>1, FS_Subset
<1>3. S \subseteq Nat
  OBVIOUS
<1> QED
  BY <1>2, <1>3

\* The members of a sequence at some positions.
LEMMA PickedIs ==
  ASSUME NEW X, NEW s \in Seq(X), NEW S, S \subseteq DOMAIN s
  PROVE  /\ Picked(s, S) \in Seq(X)
         /\ \A n \in DOMAIN Picked(s, S) : Nth(S, n) \in S /\ Picked(s, S)[n] = s[Nth(S, n)]
         /\ \A n \in DOMAIN Picked(s, S), m \in DOMAIN Picked(s, S) : Nth(S, n) = Nth(S, m) => n = m
<1> DEFINE p == Picked(s, S)
           z == Cardinality(S)
<1>1. S \subseteq 1 .. Len(s) /\ Len(s) \in Nat /\ \A k \in S : s[k] \in X
  BY LenProperties, ElementOfSeq
<1>2. S \subseteq Nat /\ IsFiniteSet(S)
  BY <1>1, SmallSets
<1>3. /\ z \in Nat /\ \A n \in 1 .. z : Nth(S, n) \in S
      /\ \A n \in 1 .. z, m \in 1 .. z : Nth(S, n) = Nth(S, m) => n = m
  BY <1>2, NthIs
<1>4. DOMAIN p = 1 .. z /\ p = [n \in 1 .. z |-> p[n]] /\ \A n \in 1 .. z : p[n] = s[Nth(S, n)]
  BY DEF Picked
<1>5. p \in Seq(X)
  <2> HIDE DEF p, z
  <2> QED
    BY <1>1, <1>3, <1>4, SeqFromTo
<1> QED
  BY <1>3, <1>4, <1>5

-----------------------------------------------------------------------------
(* The inductive invariant.                                                *)

Rows == [DataColumns -> Cells]
Wide == [DataColumns \cup {"id"} -> Cells]
RecordsTo(s) == [key : 0 .. s, base : Rows, now : Rows]

\* A table that has given out the keys up to s.
IsTable(t, s) == DOMAIN t \subseteq 1 .. s /\ t \in [DOMAIN t -> Rows]

\* A cell of a loaded record shows what was loaded, unless it was typed into or the row is gone.
Meant(r, t, ty) ==
    r.key # NoKey => \A c \in DataColumns : r.now[c] # r.base[c] => <<r.key, c>> \in ty \/ r.key \notin DOMAIN t

Distinct(recs) == \A i \in DOMAIN recs, k \in DOMAIN recs : recs[i].key = recs[k].key => i = k

RecordsKept(recs, t, s, ty) ==
    recs \in Seq(RecordsTo(s)) /\ Distinct(recs) /\ \A i \in DOMAIN recs : Meant(recs[i], t, ty)

\* A request of a Save: what it writes was typed in or its row is gone, what it deletes was confirmed.
Posts(req) == req.verb = "POST" /\ req.key = NoKey /\ req.data \in Rows
Puts(req, t, s, ty) ==
    /\ req.verb = "PUT" /\ req.key \in 1 .. s
    /\ DOMAIN req.data \subseteq DataColumns
    /\ \A c \in DOMAIN req.data : req.data[c] \in Cells /\ (<<req.key, c>> \in ty \/ req.key \notin DOMAIN t)
Deletes(req, cond) == req.verb = "DELETE" /\ req.key \in cond

RequestsKept(reqs, t, s, ty, cond) ==
    /\ \A req \in reqs : Posts(req) \/ Puts(req, t, s, ty) \/ Deletes(req, cond)
    /\ \A req \in reqs, other \in reqs : req.verb = "PUT" /\ other.verb = "PUT" /\ req.key = other.key => req = other

RowsInv ==
    /\ world \in Worlds /\ writes \in Nat
    /\ serial \in 0 .. MaxKey /\ IsTable(table, serial)
    /\ removed \subseteq condemned
    /\ RecordsKept(records, table, serial, typed)
    /\ RequestsKept(sending, table, serial, typed, condemned)

\* An export holds the table as it was; an import, rows whose preview is shown.
Exports(e) == e.rows \in Seq(Wide) /\ e = [file |-> Csv(ToCSV(Columns, e.rows)), rows |-> e.rows]
Previewed(rows, shown) == AreRows(rows) /\ shown = PreviewImportRows(rows)

DialogInv ==
    /\ \A e \in exported : Exports(e)
    /\ \A file \in reading : AreRows(ParseImportFile(file).rows)
    /\ \A rows \in previews : AreRows(rows)
    /\ Previewed(parsedRows, previewedRows)
    /\ Previewed(importing.rows, importing.shown) /\ \A i \in DOMAIN importing.shown : importing.shown[i].ok

ImportInv == RowsInv /\ DialogInv

-----------------------------------------------------------------------------
(* The server.                                                             *)

RowWith(data) == [c \in DataColumns |-> IF c \in DOMAIN data THEN data[c] ELSE NULL]
CellsIn(data) == \A c \in DOMAIN data : data[c] \in Cells

Inserted(t, s, data, r) ==
    /\ r.serial = s + 1 /\ IsTable(r.table, s + 1)
    /\ r.ok \in BOOLEAN
    /\ r.ok => /\ DOMAIN r.table = DOMAIN t \cup {s + 1}
               /\ r.table[s + 1] = RowWith(data)
               /\ \A k \in DOMAIN t : r.table[k] = t[k]
    /\ ~ r.ok => r.table = t

LEMMA InsertIs ==
  ASSUME NEW t, NEW s \in Nat, IsTable(t, s), NEW data, CellsIn(data)
  PROVE  Inserted(t, s, data, Insert(t, s, data))
<1> DEFINE row == RowWith(data)
           D == DOMAIN t \cup {s + 1}
           new == [k \in D |-> IF k = s + 1 THEN row ELSE t[k]]
           r == Insert(t, s, data)
           takes == Accepts(t, s + 1, row)
<1>1. row \in Rows
  BY DEF RowWith, CellsIn, Rows, Cells
<1>2. DOMAIN t \subseteq 1 .. s /\ \A k \in DOMAIN t : t[k] \in Rows
  BY DEF IsTable
<1>3. DOMAIN t \subseteq 1 .. s + 1 /\ D \subseteq 1 .. s + 1 /\ s + 1 \notin DOMAIN t
  BY <1>2
<1>4. takes \in BOOLEAN
  BY DEF Accepts
<1>5. r = IF takes THEN Done(new, s + 1) ELSE Refused(t, s + 1)
  BY DEF Insert, RowWith
<1> HIDE DEF row, takes, r
<1>6. new \in [D -> Rows]
  BY <1>1, <1>2
<1>7. /\ DOMAIN new = D /\ new[s + 1] = row
      /\ \A k \in DOMAIN t : new[k] = t[k]
  BY <1>3
<1> HIDE DEF new
<1>8. IsTable(new, s + 1)
  BY <1>3, <1>6, <1>7 DEF IsTable
<1>9. IsTable(t, s + 1)
  BY <1>3 DEF IsTable
<1>10. CASE takes
  <2>1. r.ok = TRUE /\ r.table = new /\ r.serial = s + 1
    BY <1>5, <1>10 DEF Done
  <2> QED
    BY <1>7, <1>8, <2>1 DEF Inserted, row, r
<1>11. CASE ~ takes
  <2>1. r.ok = FALSE /\ r.table = t /\ r.serial = s + 1
    BY <1>5, <1>11 DEF Refused
  <2> QED
    BY <1>9, <2>1 DEF Inserted, r
<1> QED
  BY <1>10, <1>11

Updated(t, s, key, data, r) ==
    /\ r.serial = s /\ IsTable(r.table, s) /\ DOMAIN r.table = DOMAIN t
    /\ r.ok \in BOOLEAN
    /\ r.ok => key \in DOMAIN t
    /\ ~ r.ok => r.table = t
    /\ \A k \in DOMAIN t : \A c \in DataColumns : r.table[k][c] # t[k][c] => k = key /\ c \in DOMAIN data

LEMMA UpdateIs ==
  ASSUME NEW t, NEW s \in Nat, IsTable(t, s), NEW key, NEW data, CellsIn(data)
  PROVE  Updated(t, s, key, data, Update(t, s, key, data))
<1> DEFINE r == Update(t, s, key, data)
<1>1. \A k \in DOMAIN t : t[k] \in Rows
  BY DEF IsTable
<1>2. CASE key \notin DOMAIN t
  <2>1. r = Refused(t, s)
    BY <1>2 DEF Update
  <2>2. r.ok = FALSE /\ r.table = t /\ r.serial = s
    BY <2>1 DEF Refused
  <2> HIDE DEF r
  <2> QED
    BY <2>2 DEF Updated, r
<1>3. CASE key \in DOMAIN t
  <2> DEFINE row == [c \in DataColumns |-> IF c \in DOMAIN data THEN data[c] ELSE t[key][c]]
             new == [t EXCEPT ![key] = row]
             takes == Accepts(t, key, row)
  <2>1. row \in Rows
    BY <1>1, <1>3 DEF CellsIn, Rows
  <2>2. r = IF takes THEN Done(new, s) ELSE Refused(t, s)
    BY <1>3 DEF Update
  <2>3. takes \in BOOLEAN
    BY DEF Accepts
  <2>4. \A c \in DataColumns : c \notin DOMAIN data => row[c] = t[key][c]
    OBVIOUS
  <2> HIDE DEF row, takes, r
  <2>5. /\ DOMAIN new = DOMAIN t /\ new[key] = row
        /\ \A k \in DOMAIN t : k # key => new[k] = t[k]
    BY <1>3
  <2>6. \A k \in DOMAIN t : new[k] \in Rows
    BY <1>1, <2>1, <2>5
  <2>7. new \in [DOMAIN t -> Rows]
    BY <2>1 DEF IsTable
  <2> HIDE DEF new
  <2>8. IsTable(new, s)
    BY <2>5, <2>7 DEF IsTable
  <2>9. \A k \in DOMAIN t : \A c \in DataColumns : new[k][c] # t[k][c] => k = key /\ c \in DOMAIN data
    BY <2>4, <2>5
  <2>10. CASE takes
    <3>1. r.ok = TRUE /\ r.table = new /\ r.serial = s
      BY <2>2, <2>10 DEF Done
    <3> QED
      BY <1>3, <2>5, <2>8, <2>9, <3>1 DEF Updated, r
  <2>11. CASE ~ takes
    <3>1. r.ok = FALSE /\ r.table = t /\ r.serial = s
      BY <2>2, <2>11 DEF Refused
    <3> QED
      BY <3>1 DEF Updated, r
  <2> QED
    BY <2>10, <2>11
<1> QED
  BY <1>2, <1>3

Deleted(t, s, key, r) ==
    /\ r.serial = s /\ IsTable(r.table, s)
    /\ r.ok \in BOOLEAN
    /\ r.ok => DOMAIN r.table = DOMAIN t \ {key}
    /\ ~ r.ok => r.table = t
    /\ DOMAIN r.table \subseteq DOMAIN t
    /\ \A k \in DOMAIN r.table : r.table[k] = t[k]

LEMMA DeleteIs ==
  ASSUME NEW t, NEW s \in Nat, IsTable(t, s), NEW key
  PROVE  Deleted(t, s, key, Delete(t, s, key))
<1> DEFINE r == Delete(t, s, key)
           D == DOMAIN t \ {key}
           new == [k \in D |-> t[k]]
<1>1. CASE key \in DOMAIN t
  <2>1. r = Done(new, s)
    BY <1>1 DEF Delete
  <2>2. DOMAIN new = D /\ new \in [D -> Rows] /\ \A k \in D : new[k] = t[k]
    BY DEF IsTable
  <2> HIDE DEF new, r
  <2>3. r.ok = TRUE /\ r.table = new /\ r.serial = s
    BY <2>1 DEF Done
  <2>4. IsTable(new, s)
    BY <2>2 DEF IsTable
  <2> QED
    BY <2>2, <2>3, <2>4 DEF Deleted, r
<1>2. CASE key \notin DOMAIN t
  <2>1. r = Refused(t, s)
    BY <1>2 DEF Delete
  <2> HIDE DEF r
  <2>2. r.ok = FALSE /\ r.table = t /\ r.serial = s
    BY <2>1 DEF Refused
  <2> QED
    BY <2>2 DEF Deleted, r
<1> QED
  BY <1>1, <1>2

\* Row by row.
Tables == UNION {[D -> Rows] : D \in SUBSET Nat}
Results == [ok : BOOLEAN, table : Tables, serial : Nat]

LEMMA TablesAre ==
  /\ \A t, s : IsTable(t, s) => t \in Tables
  /\ \A t \in Tables : DOMAIN t \subseteq Nat /\ t \in [DOMAIN t -> Rows]
<1>1. ASSUME NEW t, NEW s, IsTable(t, s)
      PROVE  t \in Tables
  <2>1. DOMAIN t \in SUBSET Nat /\ t \in [DOMAIN t -> Rows]
    BY <1>1 DEF IsTable
  <2> QED
    BY <2>1 DEF Tables
<1>2. ASSUME NEW t \in Tables
      PROVE  DOMAIN t \subseteq Nat /\ t \in [DOMAIN t -> Rows]
  <2>1. PICK D \in SUBSET Nat : t \in [D -> Rows]
    BY DEF Tables
  <2> QED
    BY <2>1
<1> QED
  BY <1>1, <1>2

LEMMA RowsAre ==
  ASSUME NEW rows, AreRows(rows)
  PROVE  /\ Len(rows) \in Nat /\ DOMAIN rows = 1 .. Len(rows)
         /\ \A i \in 1 .. Len(rows) : CellsIn(rows[i]) /\ CellsIn(CoerceRow(rows[i]))
<1>1. Len(rows) \in Nat /\ DOMAIN rows = 1 .. Len(rows)
  BY LenProperties DEF AreRows
<1>2. \A i \in 1 .. Len(rows) : CellsIn(rows[i])
  BY <1>1 DEF AreRows, CellsIn
<1>3. \A i \in 1 .. Len(rows) : CellsIn(CoerceRow(rows[i]))
  BY <1>2 DEF CellsIn, CoerceRow
<1> QED
  BY <1>1, <1>2, <1>3

LEMMA InsertNextTyped ==
  ASSUME NEW before \in Results, NEW row, CellsIn(CoerceRow(row))
  PROVE  InsertNext(before, row) \in Results
<1> DEFINE t == before.table
           s == before.serial
           data == CoerceRow(row)
           new == RowWith(data)
           D == DOMAIN t \cup {s + 1}
           more == [k \in D |-> IF k = s + 1 THEN new ELSE t[k]]
           takes == Accepts(t, s + 1, new)
           r == InsertNext(before, row)
<1>1. t \in Tables /\ s \in Nat /\ s + 1 \in Nat /\ before.ok \in BOOLEAN
  BY DEF Results
<1>2. DOMAIN t \subseteq Nat /\ t \in [DOMAIN t -> Rows]
  BY <1>1, TablesAre
<1>3. new \in Rows
  BY DEF RowWith, CellsIn, Rows, Cells
<1>4. r = IF before.ok THEN (IF takes THEN Done(more, s + 1) ELSE Refused(t, s + 1)) ELSE before
  BY DEF InsertNext, Insert, RowWith
<1> HIDE DEF new, takes, r
<1>5. more \in [D -> Rows] /\ D \in SUBSET Nat
  BY <1>1, <1>2, <1>3
<1> HIDE DEF more, D
<1>6. more \in Tables
  BY <1>5 DEF Tables
<1>7. Done(more, s + 1) \in Results /\ Refused(t, s + 1) \in Results
  BY <1>1, <1>6 DEF Done, Refused, Results
<1>8. r \in Results
  BY <1>4, <1>7
<1> QED
  BY <1>8 DEF r

\* What the first n rows come to.
AllIn(t, s, rows, n, r) ==
    /\ r.ok \in BOOLEAN
    /\ r.serial \in s .. s + n /\ IsTable(r.table, r.serial)
    /\ r.ok => /\ r.serial = s + n
               /\ DOMAIN r.table = DOMAIN t \cup {s + i : i \in 1 .. n}
               /\ \A k \in DOMAIN t : r.table[k] = t[k]
               /\ \A i \in 1 .. n : r.table[s + i] = RowWith(CoerceRow(rows[i]))

LEMMA OneMore ==
  ASSUME NEW t, NEW s \in Nat, IsTable(t, s), NEW rows, NEW n \in Nat, NEW before, NEW r,
         AllIn(t, s, rows, n, before), before.ok,
         Inserted(before.table, before.serial, CoerceRow(rows[n + 1]), r)
  PROVE  AllIn(t, s, rows, n + 1, r)
<1> DEFINE b == before.table
           u == r.table
           z == s + (n + 1)
<1>1. before.serial = s + n /\ z = before.serial + 1 /\ z \in s .. s + (n + 1)
  BY DEF AllIn
<1>2. r.ok \in BOOLEAN /\ r.serial = z /\ IsTable(u, z)
  BY <1>1 DEF Inserted
<1>3. DOMAIN t \subseteq 1 .. s
  BY DEF IsTable
<1>4. ASSUME r.ok
      PROVE  /\ DOMAIN u = DOMAIN t \cup {s + i : i \in 1 .. n + 1}
             /\ \A k \in DOMAIN t : u[k] = t[k]
             /\ \A i \in 1 .. n + 1 : u[s + i] = RowWith(CoerceRow(rows[i]))
  <2>1. /\ DOMAIN b = DOMAIN t \cup {s + i : i \in 1 .. n}
        /\ \A k \in DOMAIN t : b[k] = t[k]
        /\ \A i \in 1 .. n : b[s + i] = RowWith(CoerceRow(rows[i]))
    BY DEF AllIn
  <2>2. /\ DOMAIN u = DOMAIN b \cup {z}
        /\ u[z] = RowWith(CoerceRow(rows[n + 1]))
        /\ \A k \in DOMAIN b : u[k] = b[k]
    BY <1>1, <1>4 DEF Inserted
  <2>3. {s + i : i \in 1 .. n + 1} = {s + i : i \in 1 .. n} \cup {z}
    <3>1. \A i \in 1 .. n + 1 : i \in 1 .. n \/ i = n + 1
      OBVIOUS
    <3>2. n + 1 \in 1 .. n + 1 /\ \A i \in 1 .. n : i \in 1 .. n + 1
      OBVIOUS
    <3> QED
      BY <3>1, <3>2
  <2>4. ASSUME NEW i \in 1 .. n + 1
        PROVE  u[s + i] = RowWith(CoerceRow(rows[i]))
    <3>1. CASE i = n + 1
      BY <2>2, <3>1
    <3>2. CASE i # n + 1
      <4>1. i \in 1 .. n
        BY <3>2
      <4>2. s + i \in DOMAIN b
        BY <2>1, <4>1
      <4> QED
        BY <2>1, <2>2, <4>1, <4>2
    <3> QED
      BY <3>1, <3>2
  <2> HIDE DEF b, u, z
  <2> QED
    BY <2>1, <2>2, <2>3, <2>4
<1> QED
  BY <1>1, <1>2, <1>4 DEF AllIn

InsertStep(rows, f, i) == IF i = 0 THEN Done(table, serial) ELSE InsertNext(f[i - 1], rows[i])
InsertFn(rows, f) == f = [i \in 0 .. Len(rows) |-> InsertStep(rows, f, i)]

LEMMA InsertAllIs ==
  ASSUME NEW rows, AreRows(rows), serial \in Nat, IsTable(table, serial)
  PROVE  AllIn(table, serial, rows, Len(rows), InsertAll(rows))
<1> DEFINE n == Len(rows)
           G == [i \in 1 .. n |-> [b \in Results |-> InsertNext(b, rows[i])]]
           none == Done(table, serial)
           f == CHOOSE g : InsertFn(rows, g)
<1>1. n \in Nat /\ \A i \in 1 .. n : CellsIn(CoerceRow(rows[i]))
  BY RowsAre
<1>2. none \in Results /\ none.ok = TRUE /\ none.table = table /\ none.serial = serial
  <2>1. table \in Tables
    BY TablesAre
  <2> QED
    BY <2>1 DEF Done, Results
<1>3. G \in [1 .. n -> [Results -> Results]]
  BY <1>1, InsertNextTyped
<1>4. \A i \in 1 .. n : \A b \in Results : G[i][b] = InsertNext(b, rows[i])
  OBVIOUS
<1>5. PICK h \in [0 .. n -> Results] : Follows(n, none, G, h)
  <2> HIDE DEF n, G, none
  <2> QED
    BY <1>1, <1>2, <1>3, RecursionExists
<1> HIDE DEF G
<1>6. InsertFn(rows, h)
  <2>1. ASSUME NEW i \in 0 .. n
        PROVE  h[i] = InsertStep(rows, h, i)
    <3>1. CASE i = 0
      BY <1>5, <3>1 DEF Follows, InsertStep
    <3>2. CASE i # 0
      <4>1. i \in 1 .. n /\ i - 1 \in 0 .. n
        BY <1>1, <3>2
      <4>2. h[i] = G[i][h[i - 1]] /\ h[i - 1] \in Results
        BY <1>5, <4>1 DEF Follows
      <4> QED
        BY <1>4, <3>2, <4>1, <4>2 DEF InsertStep
    <3> QED
      BY <3>1, <3>2
  <2> QED
    BY <2>1 DEF InsertFn
<1>7. InsertFn(rows, f)
  BY <1>6
<1>8. InsertAll(rows) = f[n]
  BY DEF InsertAll, InsertFn, InsertStep
<1> HIDE DEF f
<1>9. \A i \in 0 .. n : f[i] = InsertStep(rows, f, i)
  BY <1>7 DEF InsertFn
<1> DEFINE Good == {i \in 0 .. n : AllIn(table, serial, rows, i, f[i])}
<1>10. 0 \in Good
  <2>1. 0 \in 0 .. n /\ f[0] = none
    BY <1>1, <1>9 DEF InsertStep
  <2>2. AllIn(table, serial, rows, 0, none)
    <3> HIDE DEF none
    <3>1. {serial + i : i \in 1 .. 0} = {} /\ serial \in serial .. serial + 0 /\ serial = serial + 0
      OBVIOUS
    <3> QED
      BY <1>2, <3>1 DEF AllIn
  <2> QED
    BY <2>1, <2>2
<1>11. ASSUME NEW i \in 0 .. n - 1, i \in Good
       PROVE  i + 1 \in Good
  <2> DEFINE b == f[i]
             r == f[i + 1]
             data == CoerceRow(rows[i + 1])
  <2>1. i \in Nat /\ i + 1 \in 1 .. n /\ (i + 1) - 1 = i /\ i + 1 \in 0 .. n /\ i + 1 # 0
    BY <1>1
  <2>2. AllIn(table, serial, rows, i, b)
    BY <1>11
  <2>3. r = InsertNext(b, rows[i + 1]) /\ CellsIn(data)
    BY <1>1, <1>9, <2>1 DEF InsertStep
  <2> HIDE DEF b, r, data
  <2>4. CASE b.ok
    <3>1. r = Insert(b.table, b.serial, data)
      BY <2>3, <2>4 DEF InsertNext, data
    <3>2. b.serial \in Nat /\ IsTable(b.table, b.serial)
      BY <2>2, <2>1 DEF AllIn
    <3>3. Inserted(b.table, b.serial, data, r)
      BY <2>3, <3>1, <3>2, InsertIs
    <3>4. AllIn(table, serial, rows, i + 1, r)
      BY <2>1, <2>2, <2>4, <3>3, OneMore DEF data
    <3> QED
      BY <2>1, <3>4 DEF r
  <2>5. CASE ~ b.ok
    <3>1. r = b
      BY <2>3, <2>5 DEF InsertNext
    <3>2. AllIn(table, serial, rows, i + 1, r)
      BY <2>1, <2>2, <2>5, <3>1 DEF AllIn
    <3> QED
      BY <2>1, <3>2 DEF r
  <2> QED
    BY <2>4, <2>5
<1> HIDE DEF Good
<1>12. \A i \in 0 .. n : i \in Good
  <2> HIDE DEF n
  <2> QED
    BY <1>1, <1>10, <1>11, Climb
<1>13. n \in Good
  BY <1>1, <1>12
<1> QED
  BY <1>8, <1>13 DEF Good

-----------------------------------------------------------------------------
(* The grid's records.                                                     *)

LEMMA KeysAre ==
  ASSUME NEW t, NEW s \in Nat, IsTable(t, s)
  PROVE  \E z \in Nat :
            /\ DOMAIN KeysInOrder(t) = 1 .. z
            /\ \A n \in 1 .. z : KeysInOrder(t)[n] \in DOMAIN t
            /\ \A n \in 1 .. z, m \in 1 .. z : KeysInOrder(t)[n] = KeysInOrder(t)[m] => n = m
<1> DEFINE S == DOMAIN t
           z == Cardinality(S)
           keys == KeysInOrder(t)
<1>1. S \subseteq Nat /\ IsFiniteSet(S)
  BY SmallSets DEF IsTable
<1>2. /\ z \in Nat /\ \A n \in 1 .. z : Nth(S, n) \in S
      /\ \A n \in 1 .. z, m \in 1 .. z : Nth(S, n) = Nth(S, m) => n = m
  <2> HIDE DEF S
  <2> QED
    BY <1>1, NthIs
<1>3. DOMAIN keys = 1 .. z /\ \A n \in 1 .. z : keys[n] = Nth(S, n)
  BY DEF KeysInOrder
<1> HIDE DEF keys, z, S
<1> QED
  BY <1>2, <1>3 DEF keys, S

LEMMA RecordIs ==
  ASSUME NEW s \in Nat, NEW key \in 0 .. s, NEW base \in Rows, NEW now \in Rows
  PROVE  [key |-> key, base |-> base, now |-> now] \in RecordsTo(s)
  BY DEF RecordsTo

LEMMA RecordsAt ==
  ASSUME NEW recs, NEW t, NEW s \in Nat, NEW ty, RecordsKept(recs, t, s, ty)
  PROVE  /\ Len(recs) \in Nat /\ DOMAIN recs = 1 .. Len(recs)
         /\ \A i \in DOMAIN recs :
               /\ recs[i] \in RecordsTo(s) /\ Meant(recs[i], t, ty)
               /\ recs[i].key \in 0 .. s /\ recs[i].base \in Rows /\ recs[i].now \in Rows
<1>1. Len(recs) \in Nat /\ DOMAIN recs = 1 .. Len(recs) /\ \A i \in DOMAIN recs : recs[i] \in RecordsTo(s)
  BY LenProperties, ElementOfSeq DEF RecordsKept
<1> QED
  BY <1>1 DEF RecordsKept, RecordsTo

\* The answer to load().
LEMMA LoadedKept ==
  ASSUME NEW t, NEW s \in Nat, IsTable(t, s), NEW ty
  PROVE  RecordsKept(Loaded(t), t, s, ty)
<1> DEFINE keys == KeysInOrder(t)
           recs == Loaded(t)
<1>1. PICK z \in Nat : /\ DOMAIN keys = 1 .. z
                       /\ \A n \in 1 .. z : keys[n] \in DOMAIN t
                       /\ \A n \in 1 .. z, m \in 1 .. z : keys[n] = keys[m] => n = m
  BY KeysAre
<1>2. DOMAIN t \subseteq 1 .. s /\ \A k \in DOMAIN t : t[k] \in Rows
  BY DEF IsTable
<1>3. recs = [i \in 1 .. z |-> [key |-> keys[i], base |-> t[keys[i]], now |-> t[keys[i]]]]
  BY <1>1 DEF Loaded
<1> HIDE DEF keys, recs
<1>4. \A i \in 1 .. z : recs[i].key = keys[i] /\ recs[i].now = recs[i].base /\ recs[i] \in RecordsTo(s)
  <2>1. TAKE i \in 1 .. z
  <2> DEFINE k == keys[i]
             row == t[k]
  <2>2. k \in 0 .. s /\ row \in Rows
    BY <1>1, <1>2
  <2>3. recs[i] = [key |-> k, base |-> row, now |-> row]
    BY <1>3
  <2> HIDE DEF k, row
  <2>4. recs[i] \in RecordsTo(s)
    BY <2>2, <2>3, RecordIs
  <2> QED
    BY <2>3, <2>4 DEF k
<1>5. DOMAIN recs = 1 .. z /\ recs = [i \in 1 .. z |-> recs[i]]
  BY <1>3
<1>6. recs \in Seq(RecordsTo(s))
  BY <1>4, <1>5, SeqFromTo
<1>7. Distinct(recs)
  BY <1>1, <1>4, <1>5 DEF Distinct
<1>8. \A i \in DOMAIN recs : Meant(recs[i], t, ty)
  BY <1>4, <1>5 DEF Meant
<1> QED
  BY <1>6, <1>7, <1>8 DEF RecordsKept, recs

LEMMA AddedKept ==
  ASSUME NEW recs, NEW t, NEW s \in Nat, NEW ty, RecordsKept(recs, t, s, ty),
         NoKey \notin KeysOf(recs), NEW row \in Rows
  PROVE  RecordsKept(Append(recs, [key |-> NoKey, base |-> row, now |-> row]), t, s, ty)
<1> DEFINE r == [key |-> NoKey, base |-> row, now |-> row]
           more == Append(recs, r)
           n == Len(recs)
<1>1. n \in Nat /\ DOMAIN recs = 1 .. n /\ recs \in Seq(RecordsTo(s))
      /\ (\A i \in DOMAIN recs : Meant(recs[i], t, ty)) /\ Distinct(recs)
  BY RecordsAt DEF RecordsKept
<1>2. r \in RecordsTo(s)
  BY RecordIs DEF NoKey
<1>3. r.key = NoKey
  OBVIOUS
<1> HIDE DEF r
<1>4. more \in Seq(RecordsTo(s)) /\ Len(more) = n + 1 /\ more[n + 1] = r /\ \A i \in 1 .. n : more[i] = recs[i]
  BY <1>1, <1>2, AppendProperties
<1> HIDE DEF more
<1>5. DOMAIN more = 1 .. n + 1
  BY <1>4, LenProperties
<1>6. \A i \in DOMAIN more : i \in DOMAIN recs \/ i = n + 1
  BY <1>1, <1>5
<1>7. \A i \in DOMAIN recs : recs[i].key # NoKey
  BY DEF KeysOf
<1>8. Distinct(more)
  <2>1. SUFFICES ASSUME NEW i \in DOMAIN more, NEW k \in DOMAIN more, more[i].key = more[k].key
                 PROVE  i = k
    BY DEF Distinct
  <2> QED
    BY <1>1, <1>3, <1>4, <1>6, <1>7, <2>1 DEF Distinct
<1>9. \A i \in DOMAIN more : Meant(more[i], t, ty)
  <2>1. Meant(r, t, ty)
    BY <1>3 DEF Meant
  <2> QED
    BY <1>1, <1>4, <1>6, <2>1
<1> QED
  BY <1>4, <1>8, <1>9 DEF RecordsKept, more, r

LEMMA PickedKept ==
  ASSUME NEW recs, NEW t, NEW s \in Nat, NEW ty, RecordsKept(recs, t, s, ty), NEW S, S \subseteq DOMAIN recs
  PROVE  RecordsKept(Picked(recs, S), t, s, ty)
<1> DEFINE p == Picked(recs, S)
<1>1. recs \in Seq(RecordsTo(s)) /\ Distinct(recs) /\ \A i \in DOMAIN recs : Meant(recs[i], t, ty)
  BY DEF RecordsKept
<1>2. /\ p \in Seq(RecordsTo(s))
      /\ \A n \in DOMAIN p : Nth(S, n) \in S /\ p[n] = recs[Nth(S, n)]
      /\ \A n \in DOMAIN p, m \in DOMAIN p : Nth(S, n) = Nth(S, m) => n = m
  BY <1>1, PickedIs
<1> HIDE DEF p
<1>3. Distinct(p)
  BY <1>1, <1>2 DEF Distinct
<1>4. \A i \in DOMAIN p : Meant(p[i], t, ty)
  BY <1>1, <1>2
<1> QED
  BY <1>2, <1>3, <1>4 DEF RecordsKept, p

\* Records in the place of others.
LEMMA ReplacedKept ==
  ASSUME NEW recs, NEW n \in Nat, DOMAIN recs = 1 .. n, NEW new, DOMAIN new = 1 .. n, new = [i \in 1 .. n |-> new[i]],
         NEW t, NEW s \in Nat, NEW ty,
         \A i \in 1 .. n : new[i] \in RecordsTo(s) /\ Meant(new[i], t, ty),
         \A i \in 1 .. n, k \in 1 .. n : new[i].key = new[k].key => i = k
  PROVE  RecordsKept(new, t, s, ty)
<1>1. new \in Seq(RecordsTo(s))
  BY SeqFromTo
<1> QED
  BY <1>1 DEF RecordsKept, Distinct

\* What happened to the rows with other keys than K leaves what was typed into them.
Carries(K, t, s, ty, t2, s2, ty2) ==
    /\ s <= s2
    /\ \A k \in DOMAIN t2 \ K : k \in 1 .. s =>
          k \in DOMAIN t /\ \A c \in DataColumns : <<k, c>> \in ty => <<k, c>> \in ty2

LEMMA MeantLater ==
  ASSUME NEW K, NEW t, NEW s \in Nat, NEW ty, NEW t2, NEW s2 \in Nat, NEW ty2, Carries(K, t, s, ty, t2, s2, ty2),
         NEW r \in RecordsTo(s), Meant(r, t, ty), r.key \notin K
  PROVE  r \in RecordsTo(s2) /\ Meant(r, t2, ty2)
<1>1. r.key \in 0 .. s /\ r.base \in Rows /\ r.now \in Rows
  BY DEF RecordsTo
<1>2. s <= s2
  BY DEF Carries
<1>3. r \in RecordsTo(s2)
  <2>1. r.key \in 0 .. s2
    BY <1>1, <1>2
  <2> QED
    BY <2>1 DEF RecordsTo
<1>4. Meant(r, t2, ty2)
  <2>1. SUFFICES ASSUME r.key # NoKey, r.key \in DOMAIN t2, NEW c \in DataColumns, r.now[c] # r.base[c]
                 PROVE  <<r.key, c>> \in ty2
    BY DEF Meant
  <2>2. r.key \in 1 .. s
    BY <1>1, <2>1 DEF NoKey
  <2>3. r.key \in DOMAIN t /\ (<<r.key, c>> \in ty => <<r.key, c>> \in ty2)
    BY <2>1, <2>2 DEF Carries
  <2> QED
    BY <2>1, <2>3 DEF Meant
<1> QED
  BY <1>3, <1>4

LEMMA RecordsLater ==
  ASSUME NEW t, NEW s \in Nat, NEW ty, NEW t2, NEW s2 \in Nat, NEW ty2, Carries({}, t, s, ty, t2, s2, ty2),
         NEW recs, RecordsKept(recs, t, s, ty)
  PROVE  RecordsKept(recs, t2, s2, ty2)
<1>1. /\ recs \in Seq(RecordsTo(s)) /\ Distinct(recs) /\ Len(recs) \in Nat /\ DOMAIN recs = 1 .. Len(recs)
      /\ \A i \in DOMAIN recs : recs[i] \in RecordsTo(s) /\ Meant(recs[i], t, ty)
  BY RecordsAt DEF RecordsKept
<1>2. \A i \in 1 .. Len(recs) : recs[i] \in RecordsTo(s2) /\ Meant(recs[i], t2, ty2)
  BY <1>1, MeantLater
<1>3. recs = [i \in 1 .. Len(recs) |-> recs[i]]
  BY <1>1
<1> QED
  BY <1>1, <1>2, <1>3, ReplacedKept DEF Distinct

LEMMA PutsLater ==
  ASSUME NEW K, NEW t, NEW s \in Nat, NEW ty, NEW t2, NEW s2 \in Nat, NEW ty2, Carries(K, t, s, ty, t2, s2, ty2),
         NEW req, Puts(req, t, s, ty), req.key \notin K
  PROVE  Puts(req, t2, s2, ty2)
<1>1. s <= s2 /\ req.key \in 1 .. s /\ req.key \in 1 .. s2
  BY DEF Carries, Puts
<1>2. ASSUME NEW c \in DOMAIN req.data
      PROVE  <<req.key, c>> \in ty2 \/ req.key \notin DOMAIN t2
  <2>1. c \in DataColumns /\ (<<req.key, c>> \in ty \/ req.key \notin DOMAIN t)
    BY DEF Puts
  <2> QED
    BY <1>1, <2>1 DEF Carries
<1> QED
  BY <1>1, <1>2 DEF Puts

LEMMA RequestsLater ==
  ASSUME NEW K, NEW t, NEW s \in Nat, NEW ty, NEW t2, NEW s2 \in Nat, NEW ty2, Carries(K, t, s, ty, t2, s2, ty2),
         NEW cond, NEW cond2, cond \subseteq cond2,
         NEW reqs, RequestsKept(reqs, t, s, ty, cond),
         NEW some, some \subseteq reqs, \A req \in some : req.verb = "PUT" => req.key \notin K
  PROVE  RequestsKept(some, t2, s2, ty2, cond2)
<1>1. ASSUME NEW req \in some
      PROVE  Posts(req) \/ Puts(req, t2, s2, ty2) \/ Deletes(req, cond2)
  <2>1. Posts(req) \/ Puts(req, t, s, ty) \/ Deletes(req, cond)
    BY DEF RequestsKept
  <2>2. CASE Puts(req, t, s, ty)
    <3>1. req.key \notin K
      BY <2>2 DEF Puts
    <3> QED
      BY <2>2, <3>1, PutsLater
  <2>3. CASE Deletes(req, cond)
    BY <2>3 DEF Deletes
  <2> QED
    BY <2>1, <2>2, <2>3
<1>2. \A req \in some, other \in some : req.verb = "PUT" /\ other.verb = "PUT" /\ req.key = other.key => req = other
  BY DEF RequestsKept
<1> QED
  BY <1>1, <1>2 DEF RequestsKept

LEMMA EditedKept ==
  ASSUME NEW recs, NEW t, NEW s \in Nat, NEW ty, RecordsKept(recs, t, s, ty),
         NEW i \in DOMAIN recs, NEW c \in DataColumns, NEW text \in Cells
  PROVE  RecordsKept([recs EXCEPT ![i].now[c] = text], t, s, ty \cup {<<recs[i].key, c>>})
<1> DEFINE ty2 == ty \cup {<<recs[i].key, c>>}
           now == [recs[i].now EXCEPT ![c] = text]
           r == [recs[i] EXCEPT !.now = now]
           new == [recs EXCEPT ![i] = r]
           n == Len(recs)
<1>1. /\ n \in Nat /\ DOMAIN recs = 1 .. n /\ Distinct(recs)
      /\ \A k \in DOMAIN recs : recs[k] \in RecordsTo(s) /\ Meant(recs[k], t, ty)
      /\ recs[i].now \in Rows /\ recs[i].base \in Rows /\ recs[i] \in RecordsTo(s)
  BY RecordsAt DEF RecordsKept
<1>2. [recs EXCEPT ![i].now[c] = text] = new
  BY <1>1 DEF RecordsTo
<1>3. now \in Rows /\ now[c] = text /\ \A d \in DataColumns : d # c => now[d] = recs[i].now[d]
  BY <1>1 DEF Rows
<1> HIDE DEF now
<1>4. r \in RecordsTo(s) /\ r.key = recs[i].key /\ r.base = recs[i].base /\ r.now = now
  BY <1>1, <1>3 DEF RecordsTo
<1>5. Meant(r, t, ty2)
  BY <1>1, <1>3, <1>4 DEF Meant
<1> HIDE DEF r
<1>6. DOMAIN new = 1 .. n /\ new[i] = r /\ \A k \in 1 .. n : k # i => new[k] = recs[k]
  BY <1>1
<1>7. new = [k \in 1 .. n |-> new[k]]
  BY <1>1
<1> HIDE DEF new
<1>8. \A k \in 1 .. n : new[k] \in RecordsTo(s) /\ Meant(new[k], t, ty2) /\ new[k].key = recs[k].key
  <2>1. TAKE k \in 1 .. n
  <2>2. Meant(recs[k], t, ty2)
    BY <1>1 DEF Meant
  <2> QED
    BY <1>1, <1>4, <1>5, <1>6, <2>2
<1> HIDE DEF ty2
<1>9. \A k \in 1 .. n, m \in 1 .. n : new[k].key = new[m].key => k = m
  BY <1>1, <1>8 DEF Distinct
<1>10. RecordsKept(new, t, s, ty2)
  BY <1>1, <1>6, <1>7, <1>8, <1>9, ReplacedKept
<1> QED
  BY <1>2, <1>10 DEF ty2

\* Everything as it was loaded.
LEMMA RejectedKept ==
  ASSUME NEW recs, NEW t, NEW s \in Nat, NEW ty, RecordsKept(recs, t, s, ty), NEW t2, NEW s2 \in Nat, s <= s2, NEW ty2
  PROVE  RecordsKept([i \in DOMAIN recs |-> [recs[i] EXCEPT !.now = recs[i].base]], t2, s2, ty2)
<1> DEFINE new == [i \in DOMAIN recs |-> [recs[i] EXCEPT !.now = recs[i].base]]
           n == Len(recs)
<1>1. /\ n \in Nat /\ DOMAIN recs = 1 .. n /\ Distinct(recs)
      /\ \A i \in DOMAIN recs : recs[i] \in RecordsTo(s) /\ recs[i].base \in Rows /\ recs[i].key \in 0 .. s
  BY RecordsAt DEF RecordsKept
<1>2. DOMAIN new = 1 .. n /\ new = [i \in 1 .. n |-> new[i]]
      /\ \A i \in 1 .. n : new[i] = [recs[i] EXCEPT !.now = recs[i].base]
  BY <1>1
<1> HIDE DEF new
<1>3. \A i \in 1 .. n : /\ new[i] \in RecordsTo(s2) /\ new[i].key = recs[i].key
                        /\ new[i].now = new[i].base
  <2>1. TAKE i \in 1 .. n
  <2>2. recs[i] \in RecordsTo(s) /\ recs[i].base \in Rows /\ recs[i].key \in 0 .. s2
    BY <1>1
  <2> QED
    BY <1>2, <2>2 DEF RecordsTo
<1>4. \A i \in 1 .. n : Meant(new[i], t2, ty2)
  BY <1>3 DEF Meant
<1>5. \A i \in 1 .. n, k \in 1 .. n : new[i].key = new[k].key => i = k
  BY <1>1, <1>3 DEF Distinct
<1>6. RecordsKept(new, t2, s2, ty2)
  BY <1>1, <1>2, <1>3, <1>4, <1>5, ReplacedKept
<1> QED
  BY <1>6 DEF new

\* An answered request settles the records of its key.
SettledOf(recs, key, to, row) ==
    [i \in DOMAIN recs |-> IF recs[i].key = key THEN [key |-> to, base |-> row, now |-> row] ELSE recs[i]]

LEMMA SettledKept ==
  ASSUME NEW K, NEW t, NEW s \in Nat, NEW ty, NEW t2, NEW s2 \in Nat, NEW ty2, Carries(K, t, s, ty, t2, s2, ty2),
         NEW recs, RecordsKept(recs, t, s, ty),
         NEW key, K \subseteq {key}, NEW to \in 1 .. s2, to = key \/ s < to, NEW row \in Rows
  PROVE  RecordsKept(SettledOf(recs, key, to, row), t2, s2, ty2)
<1> DEFINE r == [key |-> to, base |-> row, now |-> row]
           new == [i \in DOMAIN recs |-> IF recs[i].key = key THEN r ELSE recs[i]]
           n == Len(recs)
<1>1. /\ n \in Nat /\ DOMAIN recs = 1 .. n /\ Distinct(recs)
      /\ \A i \in DOMAIN recs : recs[i] \in RecordsTo(s) /\ Meant(recs[i], t, ty) /\ recs[i].key \in 0 .. s
  BY RecordsAt DEF RecordsKept
<1>2. r \in RecordsTo(s2) /\ r.key = to /\ Meant(r, t2, ty2)
  <2>1. to \in 0 .. s2
    OBVIOUS
  <2> QED
    BY <2>1, RecordIs DEF Meant
<1> HIDE DEF r
<1>3. DOMAIN new = 1 .. n /\ new = [i \in 1 .. n |-> new[i]]
      /\ \A i \in 1 .. n : new[i] = IF recs[i].key = key THEN r ELSE recs[i]
  BY <1>1
<1> HIDE DEF new
<1>4. ASSUME NEW i \in 1 .. n
      PROVE  new[i] \in RecordsTo(s2) /\ Meant(new[i], t2, ty2)
  <2>1. CASE recs[i].key = key
    BY <1>2, <1>3, <2>1
  <2>2. CASE recs[i].key # key
    <3>1. recs[i] \in RecordsTo(s) /\ Meant(recs[i], t, ty) /\ recs[i].key \notin K
      BY <1>1, <2>2
    <3>2. recs[i] \in RecordsTo(s2) /\ Meant(recs[i], t2, ty2)
      BY <3>1, MeantLater
    <3> QED
      BY <1>3, <2>2, <3>2
  <2> QED
    BY <2>1, <2>2
<1>5. ASSUME NEW i \in 1 .. n, NEW k \in 1 .. n, new[i].key = new[k].key
      PROVE  i = k
  <2>1. recs[i].key \in 0 .. s /\ recs[k].key \in 0 .. s
    BY <1>1
  <2>2. recs[i].key # key => new[i].key = recs[i].key
    BY <1>3
  <2>3. recs[k].key # key => new[k].key = recs[k].key
    BY <1>3
  <2>4. (recs[i].key = key => new[i].key = to) /\ (recs[k].key = key => new[k].key = to)
    BY <1>2, <1>3
  <2>5. recs[i].key = recs[k].key
    BY <1>5, <2>1, <2>2, <2>3, <2>4
  <2> QED
    BY <1>1, <2>5 DEF Distinct
<1>6. RecordsKept(new, t2, s2, ty2)
  BY <1>1, <1>3, <1>4, <1>5, ReplacedKept
<1> QED
  BY <1>6 DEF new, r, SettledOf

-----------------------------------------------------------------------------
(* The steps of the grid and of the server.                                *)

\* What a change of the table may take away and rewrite.
MeantChange(t, t2, ty, cond) ==
    /\ DOMAIN t \ DOMAIN t2 \subseteq cond
    /\ \A k \in DOMAIN t \cap DOMAIN t2 : \A c \in DataColumns : t2[k][c] # t[k][c] => <<k, c>> \in ty

LEMMA NoChange ==
  ASSUME NEW t, NEW ty, NEW cond
  PROVE  MeantChange(t, t, ty, cond)
  BY DEF MeantChange

LEMMA RowsInvFacts ==
  ASSUME RowsInv
  PROVE  /\ world \in Worlds /\ writes \in Nat /\ MaxKey \in Nat
         /\ serial \in Nat /\ serial \in 0 .. MaxKey /\ IsTable(table, serial)
         /\ removed \subseteq condemned
         /\ RecordsKept(records, table, serial, typed)
         /\ RequestsKept(sending, table, serial, typed, condemned)
  BY RowsAssumption DEF RowsInv

\* A refused request.
LEMMA RefusedKept ==
  ASSUME RowsInv, NEW req \in sending, sending' = sending \ {req}, table' = table, serial' \in serial .. MaxKey,
         UNCHANGED <<world, writes, removed, condemned, typed, records>>
  PROVE  RowsInv' /\ MeantChange(table, table', typed, condemned)
<1>1. /\ serial \in Nat /\ IsTable(table, serial) /\ RecordsKept(records, table, serial, typed)
      /\ RequestsKept(sending, table, serial, typed, condemned) /\ MaxKey \in Nat
  BY RowsInvFacts
<1> DEFINE s2 == serial'
<1>2. s2 \in Nat /\ s2 \in 0 .. MaxKey /\ serial <= s2
  BY <1>1
<1> HIDE DEF s2
<1>3. Carries({}, table, serial, typed, table, s2, typed)
  BY <1>2 DEF Carries
<1>4. RecordsKept(records, table, s2, typed)
  BY <1>1, <1>2, <1>3, RecordsLater
<1>5. RequestsKept(sending \ {req}, table, s2, typed, condemned)
  BY <1>1, <1>2, <1>3, RequestsLater
<1>6. IsTable(table, s2)
  BY <1>1, <1>2 DEF IsTable
<1>7. RowsInv'
  BY <1>2, <1>4, <1>5, <1>6 DEF RowsInv, s2
<1> QED
  BY <1>7, NoChange

Without(ty, key) == {cell \in ty : cell[1] # key}

LEMMA WithoutIs ==
  ASSUME NEW ty, NEW key, NEW k, k # key, NEW c, <<k, c>> \in ty
  PROVE  <<k, c>> \in Without(ty, key)
  BY DEF Without

LEMMA PostKept ==
  ASSUME RowsInv, NEW req \in sending, Posts(req), serial < MaxKey,
         sending' = sending \ {req}, NEW r, Inserted(table, serial, req.data, r), r.ok,
         table' = r.table, serial' = r.serial,
         records' = SettledOf(records, req.key, serial + 1, r.table[serial + 1]),
         typed' = Without(typed, req.key), UNCHANGED <<world, writes, removed, condemned>>
  PROVE  RowsInv' /\ MeantChange(table, table', typed, condemned)
<1>1. /\ serial \in Nat /\ IsTable(table, serial) /\ RecordsKept(records, table, serial, typed)
      /\ RequestsKept(sending, table, serial, typed, condemned) /\ MaxKey \in Nat
  BY RowsInvFacts
<1> DEFINE t2 == r.table
           s2 == serial + 1
           row == t2[s2]
           ty2 == Without(typed, req.key)
<1>2. /\ IsTable(t2, s2) /\ DOMAIN t2 = DOMAIN table \cup {s2} /\ \A k \in DOMAIN table : t2[k] = table[k]
  BY DEF Inserted
<1>3. req.key = NoKey
  BY DEF Posts
<1> HIDE DEF t2
<1>4. s2 \in Nat /\ s2 \in 0 .. MaxKey /\ serial < s2 /\ s2 \in 1 .. s2 /\ row \in Rows
  <2>1. s2 \in DOMAIN t2
    BY <1>2
  <2> QED
    BY <1>1, <1>2, <2>1 DEF IsTable
<1> HIDE DEF row
<1>5. Carries({}, table, serial, typed, t2, s2, ty2)
  <2>1. ASSUME NEW k \in DOMAIN t2 \ {}, k \in 1 .. serial
        PROVE  k \in DOMAIN table /\ \A c \in DataColumns : <<k, c>> \in typed => <<k, c>> \in ty2
    <3>1. k # NoKey /\ k # s2
      BY <1>4, <2>1, <1>1 DEF NoKey
    <3> QED
      BY <1>2, <1>3, <2>1, <3>1, WithoutIs
  <2> QED
    BY <1>1, <1>4, <2>1 DEF Carries
<1> HIDE DEF s2, ty2
<1>6. RecordsKept(SettledOf(records, req.key, s2, row), t2, s2, ty2)
  <2>1. {} \subseteq {req.key}
    OBVIOUS
  <2> QED
    BY <1>1, <1>4, <1>5, <2>1, SettledKept
<1>7. RecordsKept(records', t2, s2, ty2) /\ table' = t2 /\ serial' = s2
  BY <1>6 DEF row, s2, t2, Inserted
<1>8. RequestsKept(sending \ {req}, t2, s2, ty2, condemned)
  BY <1>1, <1>4, <1>5, RequestsLater
<1>9. RowsInv'
  BY <1>2, <1>4, <1>7, <1>8 DEF RowsInv, ty2
<1>10. MeantChange(table, t2, typed, condemned)
  BY <1>2 DEF MeantChange
<1> QED
  BY <1>7, <1>9, <1>10

LEMMA PutKept ==
  ASSUME RowsInv, NEW req \in sending, Puts(req, table, serial, typed),
         sending' = sending \ {req}, NEW r, Updated(table, serial, req.key, req.data, r), r.ok,
         table' = r.table, serial' = r.serial,
         records' = SettledOf(records, req.key, req.key, r.table[req.key]),
         typed' = Without(typed, req.key), UNCHANGED <<world, writes, removed, condemned>>
  PROVE  RowsInv' /\ MeantChange(table, table', typed, condemned)
<1>1. /\ serial \in Nat /\ IsTable(table, serial) /\ RecordsKept(records, table, serial, typed)
      /\ RequestsKept(sending, table, serial, typed, condemned) /\ MaxKey \in Nat
  BY RowsInvFacts
<1> DEFINE t2 == r.table
           row == t2[req.key]
           ty2 == Without(typed, req.key)
           K == {req.key}
<1>2. /\ IsTable(t2, serial) /\ DOMAIN t2 = DOMAIN table /\ req.key \in DOMAIN table
      /\ \A k \in DOMAIN table : \A c \in DataColumns : t2[k][c] # table[k][c] => k = req.key /\ c \in DOMAIN req.data
      /\ r.serial = serial
  BY DEF Updated
<1>3. req.key \in 1 .. serial /\ \A c \in DOMAIN req.data : <<req.key, c>> \in typed
  BY <1>2 DEF Puts
<1> HIDE DEF t2
<1>4. row \in Rows
  BY <1>2 DEF IsTable
<1> HIDE DEF row
<1>5. Carries(K, table, serial, typed, t2, serial, ty2)
  <2>1. ASSUME NEW k \in DOMAIN t2 \ K, k \in 1 .. serial
        PROVE  k \in DOMAIN table /\ \A c \in DataColumns : <<k, c>> \in typed => <<k, c>> \in ty2
    BY <1>2, <2>1, WithoutIs
  <2> QED
    BY <1>1, <2>1 DEF Carries
<1> HIDE DEF ty2
<1>6. RecordsKept(SettledOf(records, req.key, req.key, row), t2, serial, ty2)
  BY <1>1, <1>3, <1>4, <1>5, SettledKept
<1>7. RecordsKept(records', t2, serial, ty2) /\ table' = t2 /\ serial' = serial
  BY <1>2, <1>6 DEF row, t2
<1>8. RequestsKept(sending \ {req}, t2, serial, ty2, condemned)
  <2>1. \A other \in sending \ {req} : other.verb = "PUT" => other.key \notin K
    BY <1>1 DEF RequestsKept, Puts
  <2>2. condemned \subseteq condemned /\ sending \ {req} \subseteq sending
    OBVIOUS
  <2> HIDE DEF K
  <2> QED
    BY <1>1, <1>5, <2>1, <2>2, RequestsLater
<1>9. RowsInv'
  BY <1>1, <1>2, <1>7, <1>8 DEF RowsInv, ty2
<1>10. MeantChange(table, t2, typed, condemned)
  BY <1>2, <1>3 DEF MeantChange
<1> QED
  BY <1>7, <1>9, <1>10

LEMMA DeleteKept ==
  ASSUME RowsInv, NEW req \in sending, Deletes(req, condemned),
         sending' = sending \ {req}, NEW r, Deleted(table, serial, req.key, r), r.ok,
         table' = r.table, serial' = r.serial, records' = records, removed' = removed \ {req.key},
         typed' = Without(typed, req.key), UNCHANGED <<world, writes, condemned>>
  PROVE  RowsInv' /\ MeantChange(table, table', typed, condemned)
<1>1. /\ serial \in Nat /\ IsTable(table, serial) /\ RecordsKept(records, table, serial, typed)
      /\ RequestsKept(sending, table, serial, typed, condemned) /\ MaxKey \in Nat
  BY RowsInvFacts
<1> DEFINE t2 == r.table
           ty2 == Without(typed, req.key)
<1>2. /\ IsTable(t2, serial) /\ DOMAIN t2 = DOMAIN table \ {req.key} /\ \A k \in DOMAIN t2 : t2[k] = table[k]
      /\ r.serial = serial
  BY DEF Deleted
<1>3. req.key \in condemned
  BY DEF Deletes
<1> HIDE DEF t2
<1>4. Carries({}, table, serial, typed, t2, serial, ty2)
  <2>1. ASSUME NEW k \in DOMAIN t2 \ {}, k \in 1 .. serial
        PROVE  k \in DOMAIN table /\ \A c \in DataColumns : <<k, c>> \in typed => <<k, c>> \in ty2
    BY <1>2, <2>1, WithoutIs
  <2> QED
    BY <1>1, <2>1 DEF Carries
<1> HIDE DEF ty2
<1>5. RecordsKept(records', t2, serial, ty2) /\ table' = t2 /\ serial' = serial
  BY <1>1, <1>2, <1>4, RecordsLater DEF t2
<1>6. RequestsKept(sending \ {req}, t2, serial, ty2, condemned)
  BY <1>1, <1>4, RequestsLater
<1>7. RowsInv'
  BY <1>1, <1>2, <1>5, <1>6 DEF RowsInv, ty2
<1>8. MeantChange(table, t2, typed, condemned)
  BY <1>2, <1>3 DEF MeantChange
<1> QED
  BY <1>5, <1>7, <1>8

\* WriteAnswered.
LEMMA WriteKept ==
  ASSUME RowsInv, NEW req \in sending, WriteAnswered(req)
  PROVE  RowsInv' /\ MeantChange(table, table', typed, condemned)
<1> DEFINE r == CASE req.verb = "POST" -> Insert(table, serial, req.data)
                  [] req.verb = "PUT" -> Update(table, serial, req.key, req.data)
                  [] req.verb = "DELETE" -> Delete(table, serial, req.key)
           to == IF req.verb = "POST" THEN serial + 1 ELSE req.key
           Settled(rec) == IF rec.key = req.key /\ req.verb # "DELETE"
                           THEN [key |-> to, base |-> r.table[to], now |-> r.table[to]] ELSE rec
<1>1. /\ serial \in Nat /\ serial \in 0 .. MaxKey /\ IsTable(table, serial) /\ MaxKey \in Nat
      /\ Posts(req) \/ Puts(req, table, serial, typed) \/ Deletes(req, condemned)
  BY RowsInvFacts DEF RequestsKept
<1>2. /\ sending' = sending \ {req} /\ table' = r.table /\ serial' = r.serial
      /\ serial < MaxKey \/ req.verb # "POST"
      /\ UNCHANGED <<world, writes, condemned>>
      /\ r.ok => /\ records' = [i \in DOMAIN records |-> Settled(records[i])]
                 /\ removed' = IF req.verb = "DELETE" THEN removed \ {req.key} ELSE removed
                 /\ typed' = Without(typed, req.key)
      /\ ~ r.ok => UNCHANGED <<records, removed, typed>>
  BY DEF WriteAnswered, Shows, store, Without
<1>3. CASE Posts(req)
  <2>1. req.verb = "POST" /\ CellsIn(req.data)
    BY <1>3 DEF Posts, CellsIn, Rows
  <2>2. r = Insert(table, serial, req.data) /\ to = serial + 1
    BY <2>1
  <2>3. Inserted(table, serial, req.data, r)
    BY <1>1, <2>1, <2>2, InsertIs
  <2>4. CASE r.ok
    <3>1. records' = SettledOf(records, req.key, serial + 1, r.table[serial + 1])
      BY <1>2, <2>1, <2>2, <2>4 DEF SettledOf
    <3>2. removed' = removed /\ typed' = Without(typed, req.key) /\ serial < MaxKey
      BY <1>2, <2>1, <2>4
    <3> HIDE DEF r
    <3> QED
      BY <1>2, <1>3, <2>3, <2>4, <3>1, <3>2, PostKept
  <2>5. CASE ~ r.ok
    <3>1. table' = table /\ serial' = serial + 1
      BY <1>2, <2>3, <2>5 DEF Inserted
    <3> HIDE DEF r
    <3>2. serial' \in serial .. MaxKey
      BY <1>1, <1>2, <2>1, <3>1
    <3> QED
      BY <1>2, <2>5, <3>1, <3>2, RefusedKept
  <2> QED
    BY <2>3, <2>4, <2>5 DEF Inserted
<1>4. CASE Puts(req, table, serial, typed)
  <2>1. req.verb = "PUT" /\ CellsIn(req.data)
    BY <1>4 DEF Puts, CellsIn
  <2>2. r = Update(table, serial, req.key, req.data) /\ to = req.key
    BY <2>1
  <2>3. Updated(table, serial, req.key, req.data, r)
    BY <1>1, <2>1, <2>2, UpdateIs
  <2>4. CASE r.ok
    <3>1. records' = SettledOf(records, req.key, req.key, r.table[req.key])
      BY <1>2, <2>1, <2>2, <2>4 DEF SettledOf
    <3>2. removed' = removed /\ typed' = Without(typed, req.key)
      BY <1>2, <2>1, <2>4
    <3> HIDE DEF r
    <3> QED
      BY <1>2, <1>4, <2>3, <2>4, <3>1, <3>2, PutKept
  <2>5. CASE ~ r.ok
    <3>1. table' = table /\ serial' = serial
      BY <1>2, <2>3, <2>5 DEF Updated
    <3> HIDE DEF r
    <3>2. serial' \in serial .. MaxKey
      BY <1>1, <3>1
    <3> QED
      BY <1>2, <2>5, <3>1, <3>2, RefusedKept
  <2> QED
    BY <2>3, <2>4, <2>5 DEF Updated
<1>5. CASE Deletes(req, condemned)
  <2>1. req.verb = "DELETE"
    BY <1>5 DEF Deletes
  <2>2. r = Delete(table, serial, req.key)
    BY <2>1
  <2>3. Deleted(table, serial, req.key, r)
    BY <1>1, <2>2, DeleteIs
  <2>4. CASE r.ok
    <3>1. records' = [i \in DOMAIN records |-> records[i]]
      BY <1>2, <2>1, <2>4
    <3>2. records = [i \in DOMAIN records |-> records[i]]
      <4>1. records \in Seq(RecordsTo(serial))
        BY RowsInvFacts DEF RecordsKept
      <4> QED
        BY <4>1
    <3>3. removed' = removed \ {req.key} /\ typed' = Without(typed, req.key)
      BY <1>2, <2>1, <2>4
    <3> HIDE DEF r
    <3> QED
      BY <1>2, <1>5, <2>3, <2>4, <3>1, <3>2, <3>3, DeleteKept
  <2>5. CASE ~ r.ok
    <3>1. table' = table /\ serial' = serial
      BY <1>2, <2>3, <2>5 DEF Deleted
    <3> HIDE DEF r
    <3>2. serial' \in serial .. MaxKey
      BY <1>1, <3>1
    <3> QED
      BY <1>2, <2>5, <3>1, <3>2, RefusedKept
  <2> QED
    BY <2>3, <2>4, <2>5 DEF Deleted
<1> QED
  BY <1>1, <1>3, <1>4, <1>5

LEMMA SameRows ==
  ASSUME RowsInv, UNCHANGED <<world, table, serial, records, removed, sending, condemned, typed>>, writes' \in Nat
  PROVE  RowsInv' /\ MeantChange(table, table', typed, condemned)
<1>1. RowsInv'
  BY DEF RowsInv
<1> QED
  BY <1>1, NoChange

LEMMA OtherKept ==
  ASSUME RowsInv, OtherSession
  PROVE  RowsInv' /\ writes' # writes
<1>1. /\ serial \in Nat /\ IsTable(table, serial) /\ RecordsKept(records, table, serial, typed)
      /\ RequestsKept(sending, table, serial, typed, condemned) /\ writes \in Nat /\ world \in Worlds
  BY RowsInvFacts
<1> DEFINE t2 == table'
<1>2. IsTable(t2, serial) /\ DOMAIN t2 \subseteq DOMAIN table
  <2>1. PICK k \in DOMAIN table :
           \/ \E c \in DataColumns : \E text \in (IF c = "name" THEN world.names ELSE world.notes) :
                 t2 = Update(table, serial, k, [d \in {c} |-> text]).table
           \/ t2 = Delete(table, serial, k).table
    BY DEF OtherSession
  <2>2. CASE t2 = Delete(table, serial, k).table
    <3> DEFINE r == Delete(table, serial, k)
    <3>1. Deleted(table, serial, k, r)
      BY <1>1, DeleteIs
    <3> HIDE DEF r
    <3> QED
      BY <2>2, <3>1 DEF Deleted, r
  <2>3. CASE \E c \in DataColumns : \E text \in (IF c = "name" THEN world.names ELSE world.notes) :
                t2 = Update(table, serial, k, [d \in {c} |-> text]).table
    <3>0. PICK c \in DataColumns : \E text \in (IF c = "name" THEN world.names ELSE world.notes) :
             t2 = Update(table, serial, k, [d \in {c} |-> text]).table
      BY <2>3
    <3>1. PICK text \in (IF c = "name" THEN world.names ELSE world.notes) :
             t2 = Update(table, serial, k, [d \in {c} |-> text]).table
      BY <3>0
    <3> DEFINE data == [d \in {c} |-> text]
               r == Update(table, serial, k, data)
    <3>2. text \in Cells
      BY <1>1, RowsAssumption
    <3>3. CellsIn(data)
      BY <3>2 DEF CellsIn
    <3>4. t2 = r.table
      BY <3>1
    <3> HIDE DEF data
    <3>5. Updated(table, serial, k, data, r)
      BY <1>1, <3>3, UpdateIs
    <3> HIDE DEF r
    <3> QED
      BY <3>4, <3>5 DEF Updated
  <2> QED
    BY <2>1, <2>2, <2>3
<1>3. /\ UNCHANGED <<world, serial, records, removed, sending, condemned, typed>>
      /\ writes' = writes + 1
  BY DEF OtherSession, store
<1> HIDE DEF t2
<1>4. Carries({}, table, serial, typed, t2, serial, typed)
  BY <1>1, <1>2 DEF Carries
<1>5. RecordsKept(records, t2, serial, typed)
  BY <1>1, <1>4, RecordsLater
<1>6. RequestsKept(sending, t2, serial, typed, condemned)
  BY <1>1, <1>4, RequestsLater
<1>7. RowsInv'
  BY <1>1, <1>2, <1>3, <1>5, <1>6 DEF RowsInv, t2
<1> QED
  BY <1>1, <1>3, <1>7

LEMMA LoadKept ==
  ASSUME RowsInv, LoadLands
  PROVE  RowsInv' /\ MeantChange(table, table', typed, condemned)
<1>1. /\ serial \in Nat /\ IsTable(table, serial) /\ writes \in Nat
      /\ RequestsKept(sending, table, serial, typed, condemned)
  BY RowsInvFacts
<1> DEFINE ty2 == {cell \in typed : \E req \in sending : req.key = cell[1]}
           K == {k \in 1 .. serial : ~ \E req \in sending : req.key = k}
<1>2. /\ typed' = ty2 /\ records' = Loaded(table)
      /\ UNCHANGED <<world, table, serial, removed, sending, condemned, writes>>
  BY DEF LoadLands, Shows
<1>3. Carries(K, table, serial, typed, table, serial, ty2)
  <2>1. ASSUME NEW k \in DOMAIN table \ K, k \in 1 .. serial, NEW c \in DataColumns, <<k, c>> \in typed
        PROVE  <<k, c>> \in ty2
    BY <2>1
  <2> HIDE DEF K, ty2
  <2> QED
    BY <1>1, <2>1 DEF Carries
<1>4. \A req \in sending : req.verb = "PUT" => req.key \notin K
  OBVIOUS
<1> HIDE DEF ty2, K
<1>5. RecordsKept(Loaded(table), table, serial, ty2)
  BY <1>1, LoadedKept
<1>6. RequestsKept(sending, table, serial, ty2, condemned)
  <2>1. condemned \subseteq condemned /\ sending \subseteq sending
    OBVIOUS
  <2> QED
    BY <1>1, <1>3, <1>4, <2>1, RequestsLater
<1>7. RowsInv'
  BY <1>1, <1>2, <1>5, <1>6 DEF RowsInv
<1> QED
  BY <1>2, <1>7, NoChange

LEMMA AddKept ==
  ASSUME RowsInv, AddRow
  PROVE  RowsInv' /\ MeantChange(table, table', typed, condemned)
<1> DEFINE empty == [c \in DataColumns |-> NULL]
           r == [key |-> NoKey, base |-> empty, now |-> empty]
<1>1. serial \in Nat /\ RecordsKept(records, table, serial, typed)
  BY RowsInvFacts
<1>2. /\ NoKey \notin KeysOf(records) /\ records' = Append(records, r)
      /\ UNCHANGED <<world, table, serial, removed, sending, condemned, typed, writes>>
  BY DEF AddRow, Shows
<1>3. empty \in Rows
  BY DEF Rows, Cells
<1> HIDE DEF empty
<1>4. RecordsKept(Append(records, r), table, serial, typed)
  BY <1>1, <1>2, <1>3, AddedKept
<1>5. RowsInv'
  BY <1>2, <1>4 DEF RowsInv
<1> QED
  BY <1>2, <1>5, NoChange

LEMMA EditKept ==
  ASSUME RowsInv, NEW i \in DOMAIN records, NEW c \in DataColumns,
         NEW text \in (IF c = "name" THEN world.names ELSE world.notes), EditCell(i, c, text)
  PROVE  RowsInv' /\ MeantChange(table, table', typed, condemned)
<1> DEFINE ty2 == typed \cup {<<records[i].key, c>>}
<1>1. /\ serial \in Nat /\ IsTable(table, serial) /\ RecordsKept(records, table, serial, typed)
      /\ RequestsKept(sending, table, serial, typed, condemned) /\ world \in Worlds
  BY RowsInvFacts
<1>2. /\ records' = [records EXCEPT ![i].now[c] = text] /\ typed' = ty2
      /\ UNCHANGED <<world, table, serial, removed, sending, condemned, writes>>
  BY DEF EditCell, Shows
<1>3. text \in Cells
  BY <1>1, RowsAssumption
<1>4. RecordsKept(records', table, serial, ty2)
  BY <1>1, <1>2, <1>3, EditedKept
<1>5. Carries({}, table, serial, typed, table, serial, ty2)
  BY <1>1 DEF Carries
<1> HIDE DEF ty2
<1>6. RequestsKept(sending, table, serial, ty2, condemned)
  BY <1>1, <1>5, RequestsLater
<1>7. RowsInv'
  BY <1>2, <1>4, <1>6 DEF RowsInv
<1> QED
  BY <1>2, <1>7, NoChange

LEMMA ConfirmKept ==
  ASSUME RowsInv, ConfirmDelete
  PROVE  RowsInv' /\ MeantChange(table, table', typed, condemned)
<1> DEFINE S == {i \in DOMAIN records : records[i].key \notin asked}
           cond2 == condemned \cup (asked \ {NoKey})
<1>1. /\ serial \in Nat /\ IsTable(table, serial) /\ RecordsKept(records, table, serial, typed)
      /\ RequestsKept(sending, table, serial, typed, condemned) /\ removed \subseteq condemned
  BY RowsInvFacts
<1>2. /\ records' = Picked(records, S) /\ condemned' = cond2 /\ removed' = removed \cup (asked \ {NoKey})
      /\ UNCHANGED <<world, table, serial, sending, typed, writes>>
  BY DEF ConfirmDelete, Shows
<1>3. S \subseteq DOMAIN records /\ condemned \subseteq cond2
  OBVIOUS
<1>4. removed' \subseteq cond2
  BY <1>1, <1>2
<1> HIDE DEF S, cond2
<1>5. RecordsKept(Picked(records, S), table, serial, typed)
  BY <1>1, <1>3, PickedKept
<1>6. Carries({}, table, serial, typed, table, serial, typed)
  BY <1>1 DEF Carries
<1>7. RequestsKept(sending, table, serial, typed, cond2)
  BY <1>1, <1>3, <1>6, RequestsLater
<1>8. RowsInv'
  BY <1>2, <1>4, <1>5, <1>7 DEF RowsInv
<1> QED
  BY <1>2, <1>8, NoChange

LEMMA DiscardKept ==
  ASSUME RowsInv, Discard, sending = {}, sending' = {}, world' = world, writes' = writes,
         serial' \in serial .. MaxKey, IsTable(table', serial')
  PROVE  RowsInv'
<1> DEFINE S == {i \in DOMAIN records : records[i].key # NoKey}
           saved == Picked(records, S)
           t2 == table'
           s2 == serial'
           ty2 == typed'
<1>1. /\ serial \in Nat /\ MaxKey \in Nat /\ RecordsKept(records, table, serial, typed)
  BY RowsInvFacts
<1>2. /\ records' = [i \in DOMAIN saved |-> [saved[i] EXCEPT !.now = saved[i].base]]
      /\ removed' = {} /\ condemned' = {}
  BY DEF Discard, Shows
<1>3. S \subseteq DOMAIN records
  OBVIOUS
<1>4. s2 \in Nat /\ serial <= s2 /\ s2 \in 0 .. MaxKey
  BY <1>1
<1> HIDE DEF S, t2, s2, ty2
<1>5. RecordsKept(saved, table, serial, typed)
  BY <1>1, <1>3, PickedKept
<1> HIDE DEF saved
<1>6. RecordsKept([i \in DOMAIN saved |-> [saved[i] EXCEPT !.now = saved[i].base]], t2, s2, ty2)
  BY <1>1, <1>4, <1>5, RejectedKept
<1>7. RequestsKept({}, t2, s2, ty2, {})
  BY DEF RequestsKept
<1> QED
  BY <1>2, <1>4, <1>6, <1>7, RowsInvFacts DEF RowsInv, t2, s2, ty2

LEMMA SaveKept ==
  ASSUME RowsInv, Save
  PROVE  RowsInv' /\ MeantChange(table, table', typed, condemned)
<1>1. /\ serial \in Nat /\ IsTable(table, serial) /\ RecordsKept(records, table, serial, typed)
      /\ removed \subseteq condemned
  BY RowsInvFacts
<1> DEFINE posts == {Post(records[i]) : i \in {j \in DOMAIN records : records[j].key = NoKey}}
           puts == {Put(records[i]) : i \in {j \in DOMAIN records : Dirty(records[j])}}
           deletes == {DeleteRequest(k) : k \in removed}
           reqs == posts \cup puts \cup deletes
<1>2. sending' = reqs /\ UNCHANGED <<world, table, serial, records, removed, condemned, typed, writes>>
  BY DEF Save, store
<1>3. Distinct(records)
        /\ \A i \in DOMAIN records : /\ Meant(records[i], table, typed) /\ records[i].key \in 0 .. serial
                                     /\ records[i].now \in Rows
  BY <1>1, RecordsAt DEF RecordsKept
<1>4. \A req \in posts : Posts(req)
  <2>1. ASSUME NEW i \in DOMAIN records, records[i].key = NoKey
        PROVE  Posts(Post(records[i]))
    <3>1. DataFor(records[i]) = records[i].now
      BY <2>1 DEF DataFor
    <3>2. /\ Post(records[i]).verb = "POST" /\ Post(records[i]).key = NoKey
          /\ Post(records[i]).data = records[i].now
      BY <3>1 DEF Post
    <3> QED
      BY <1>3, <3>2 DEF Posts
  <2> QED
    BY <2>1
<1>5. ASSUME NEW i \in DOMAIN records, Dirty(records[i])
      PROVE  Puts(Put(records[i]), table, serial, typed) /\ Put(records[i]).key = records[i].key
  <2> DEFINE r == records[i]
             req == Put(r)
             data == DataFor(r)
  <2>1. r.key # NoKey /\ r.key \in 1 .. serial /\ Meant(r, table, typed) /\ r.now \in Rows
    BY <1>3, <1>5 DEF Dirty, NoKey
  <2>2. req.verb = "PUT" /\ req.key = r.key /\ req.data = data
    BY DEF Put
  <2>3. data = [c \in {d \in DataColumns : r.now[d] # r.base[d]} |-> r.now[c]]
    BY <2>1 DEF DataFor
  <2>4. DOMAIN data = {d \in DataColumns : r.now[d] # r.base[d]} /\ \A c \in DOMAIN data : data[c] = r.now[c]
    BY <2>3
  <2> HIDE DEF r, req, data
  <2>5. \A c \in DOMAIN data : data[c] \in Cells /\ (<<r.key, c>> \in typed \/ r.key \notin DOMAIN table)
    BY <2>1, <2>4 DEF Meant, Rows
  <2>6. DOMAIN data \subseteq DataColumns
    BY <2>4
  <2> QED
    BY <2>1, <2>2, <2>5, <2>6 DEF Puts, r, req
<1>6. \A req \in deletes : Deletes(req, condemned)
  BY <1>1 DEF DeleteRequest, Deletes
<1>7. \A req \in reqs : req.verb = "PUT" => req \in puts
  BY DEF Post, DeleteRequest
<1>8. \A req \in reqs : Posts(req) \/ Puts(req, table, serial, typed) \/ Deletes(req, condemned)
  BY <1>4, <1>5, <1>6
<1>9. ASSUME NEW req \in reqs, NEW other \in reqs, req.verb = "PUT", other.verb = "PUT", req.key = other.key
      PROVE  req = other
  <2>1. PICK i \in {j \in DOMAIN records : Dirty(records[j])} : req = Put(records[i])
    BY <1>7, <1>9
  <2>2. PICK k \in {j \in DOMAIN records : Dirty(records[j])} : other = Put(records[k])
    BY <1>7, <1>9
  <2>3. records[i].key = records[k].key
    BY <1>5, <1>9, <2>1, <2>2
  <2>4. i = k
    BY <1>3, <2>3 DEF Distinct
  <2> QED
    BY <2>1, <2>2, <2>4
<1> HIDE DEF reqs
<1>10. RequestsKept(reqs, table, serial, typed, condemned)
  BY <1>8, <1>9 DEF RequestsKept
<1>11. RowsInv'
  BY <1>2, <1>10 DEF RowsInv
<1> QED
  BY <1>2, <1>11, NoChange

LEMMA RefreshKept ==
  ASSUME RowsInv, Refresh
  PROVE  RowsInv' /\ MeantChange(table, table', typed, condemned)
<1>1. sending = {} /\ Discard /\ UNCHANGED <<world, table, serial, sending, writes>>
  BY DEF Refresh, UserMoves, Idle
<1>2. serial' \in serial .. MaxKey /\ IsTable(table', serial')
  BY <1>1, RowsInvFacts
<1>3. RowsInv'
  BY <1>1, <1>2, DiscardKept
<1> QED
  BY <1>1, <1>3, NoChange

LEMMA LookKept ==
  ASSUME RowsInv,
         \/ \E sel \in SUBSET KeysOf(records) : Select(sel)
         \/ SetRotated
         \/ \E delta \in {-1, 1} : StepRecord(delta)
         \/ \E needle \in world.needles : ApplyQuickSearch(needle)
         \/ AskDelete
         \/ CancelDelete
  PROVE  RowsInv' /\ MeantChange(table, table', typed, condemned)
<1>1. writes \in Nat
  BY RowsInvFacts
<1>2. UNCHANGED <<world, table, serial, records, removed, sending, condemned, typed, writes>>
  BY DEF Select, SetRotated, StepRecord, ApplyQuickSearch, AskDelete, CancelDelete, Shows, store
<1> QED
  BY <1>1, <1>2, SameRows

\* What the user does in the grid, and what is answered there.
LEMMA UserKept ==
  ASSUME RowsInv, UserStep
  PROVE  RowsInv' /\ MeantChange(table, table', typed, condemned)
<1>1. CASE AddRow
  BY <1>1, AddKept
<1>2. CASE \E i \in DOMAIN records, c \in DataColumns :
             \E text \in (IF c = "name" THEN world.names ELSE world.notes) : EditCell(i, c, text)
  BY <1>2, EditKept
<1>3. CASE Refresh
  BY <1>3, RefreshKept
<1>4. CASE Save
  BY <1>4, SaveKept
<1> QED
  BY <1>1, <1>2, <1>3, <1>4, LookKept DEF UserStep

LEMMA ServerKept ==
  ASSUME RowsInv, RowsStep
  PROVE  RowsInv' /\ (writes' = writes => MeantChange(table, table', typed, condemned))
<1>1. CASE OtherSession
  BY <1>1, OtherKept
<1>2. CASE LoadLands
  BY <1>2, LoadKept
<1>3. CASE ConfirmDelete
  BY <1>3, ConfirmKept
<1>4. CASE CancelDelete
  BY <1>4, LookKept
<1>5. CASE \E req \in sending : WriteAnswered(req)
  BY <1>5, WriteKept
<1> QED
  BY <1>1, <1>2, <1>3, <1>4, <1>5 DEF RowsStep

-----------------------------------------------------------------------------
(* Files.                                                                  *)

LEMMA FieldTyped ==
  ASSUME NEW f \in Fields
  PROVE  FieldValue(f) \in Cells
  BY DEF Fields, FieldValue, Cells

LEMMA TokensTyped ==
  ASSUME NEW text \in Texts
  PROVE  TokenizeCsv(text) \in Seq(Seq(Fields))
<1> DEFINE last == ReadAll(text)
<1>1. last \in Readers
  <2>1. PICK read \in [0 .. Len(text) -> Readers] : IsRead(text, read) /\ ReadAll(text) = read[Len(text)]
    BY ReadAllIs
  <2>2. Len(text) \in 0 .. Len(text)
    BY LenProperties DEF Texts
  <2> QED
    BY <2>1, <2>2
<1>2. TokenizeCsv(text) = EndRecord(last).records \/ TokenizeCsv(text) = last.records
  BY DEF TokenizeCsv
<1> HIDE DEF last
<1>3. EndRecord(last) \in Readers
  BY <1>1, EndRecordIs
<1> QED
  BY <1>1, <1>2, <1>3, ReaderParts

\* A row has a cell for each name of the header.
LEMMA RowTyped ==
  ASSUME NEW header \in Seq(Fields), NEW line \in Seq(Fields), Len(line) = Len(header)
  PROVE  CellsIn(RowOf(header, line))
<1> DEFINE row == RowOf(header, line)
           Position(c) == CHOOSE i \in DOMAIN header : ColumnNamed(header[i].text) = c
<1>1. DOMAIN header = DOMAIN line /\ \A i \in DOMAIN line : line[i] \in Fields
  BY LenProperties, ElementOfSeq
<1>2. row = [c \in {ColumnNamed(header[i].text) : i \in DOMAIN header} |-> FieldValue(line[Position(c)])]
  BY DEF RowOf
<1>3. ASSUME NEW c \in DOMAIN row
      PROVE  row[c] \in Cells
  <2>1. c \in {ColumnNamed(header[i].text) : i \in DOMAIN header} /\ row[c] = FieldValue(line[Position(c)])
    BY <1>2, <1>3
  <2>2. \E i \in DOMAIN header : ColumnNamed(header[i].text) = c
    BY <2>1
  <2>3. Position(c) \in DOMAIN header
    BY <2>2
  <2> HIDE DEF Position
  <2> QED
    BY <1>1, <2>1, <2>3, FieldTyped
<1> QED
  BY <1>3 DEF CellsIn

LEMMA RowsFrom ==
  ASSUME NEW rows, NEW n \in Nat, rows = [i \in 1 .. n |-> rows[i]], \A i \in 1 .. n : CellsIn(rows[i])
  PROVE  AreRows(rows)
<1> DEFINE S == {rows[i] : i \in DOMAIN rows}
<1>1. DOMAIN rows = 1 .. n /\ \A i \in 1 .. n : rows[i] \in S
  OBVIOUS
<1>2. rows \in Seq(S)
  <2> HIDE DEF S
  <2> QED
    BY <1>1, SeqFromTo
<1> QED
  BY <1>1, <1>2 DEF AreRows, CellsIn

LEMMA NoRows == AreRows(<<>>)
<1> DEFINE none == <<>>
<1>1. none = [i \in 1 .. 0 |-> none[i]] /\ \A i \in 1 .. 0 : CellsIn(none[i])
  OBVIOUS
<1> HIDE DEF none
<1>2. AreRows(none)
  BY <1>1, RowsFrom
<1> QED
  BY <1>2 DEF none

LEMMA ParsedTyped ==
  ASSUME NEW text \in Texts
  PROVE  AreRows(ParseCsv(text).rows)
<1> DEFINE all == TokenizeCsv(text)
           n == Len(all) - 1
           rows == [i \in 1 .. n |-> RowOf(all[1], all[i + 1])]
           parsed == ParseCsv(text)
<1>1. all \in Seq(Seq(Fields))
  BY TokensTyped
<1>2. CASE all = <<>>
  <2>1. parsed.rows = <<>>
    BY <1>2 DEF ParseCsv
  <2> QED
    BY <2>1, NoRows
<1>3. CASE all # <<>> /\ \E i \in DOMAIN all : Len(all[i]) # Len(all[1])
  <2>1. parsed.rows = <<>>
    BY <1>3 DEF ParseCsv, Unreadable
  <2> QED
    BY <2>1, NoRows
<1>4. CASE all # <<>> /\ \A i \in DOMAIN all : Len(all[i]) = Len(all[1])
  <2>1. parsed.rows = rows
    BY <1>4 DEF ParseCsv
  <2> HIDE DEF all
  <2>2. n \in Nat /\ DOMAIN all = 1 .. n + 1
    BY <1>1, <1>4, LenProperties, EmptySeq
  <2>3. ASSUME NEW i \in 1 .. n
        PROVE  CellsIn(RowOf(all[1], all[i + 1]))
    <3>1. 1 \in DOMAIN all /\ i + 1 \in DOMAIN all
      BY <2>2
    <3>2. all[1] \in Seq(Fields) /\ all[i + 1] \in Seq(Fields) /\ Len(all[i + 1]) = Len(all[1])
      BY <1>1, <1>4, <3>1, ElementOfSeq, LenProperties
    <3> QED
      BY <3>2, RowTyped
  <2>4. rows = [i \in 1 .. n |-> rows[i]] /\ \A i \in 1 .. n : CellsIn(rows[i])
    BY <2>3
  <2>5. AreRows(rows)
    <3> HIDE DEF rows, n
    <3> QED
      BY <2>2, <2>4, RowsFrom
  <2> QED
    BY <2>1, <2>5
<1> QED
  BY <1>2, <1>3, <1>4

LEMMA ExportedTyped ==
  ASSUME RowsInv
  PROVE  ExportedRows(table) \in Seq(Wide)
<1> DEFINE keys == KeysInOrder(table)
           rows == ExportedRows(table)
           cells(i) == [c \in DataColumns \cup {"id"} |-> IF c = "id" THEN KeyText[keys[i]] ELSE table[keys[i]][c]]
<1>1. serial \in Nat /\ IsTable(table, serial) /\ MaxKey \in Nat /\ serial \in 0 .. MaxKey
  BY RowsInvFacts
<1>2. PICK z \in Nat : DOMAIN keys = 1 .. z /\ \A n \in 1 .. z : keys[n] \in DOMAIN table
  BY <1>1, KeysAre
<1>3. DOMAIN table \subseteq 1 .. MaxKey /\ \A k \in DOMAIN table : table[k] \in Rows
  BY <1>1 DEF IsTable
<1>4. rows = [i \in 1 .. z |-> cells(i)]
  BY <1>2 DEF ExportedRows
<1> HIDE DEF keys, rows
<1>5. ASSUME NEW i \in 1 .. z
      PROVE  cells(i) \in Wide
  <2>1. keys[i] \in DOMAIN table /\ table[keys[i]] \in Rows /\ KeyText[keys[i]] \in Texts
    BY <1>2, <1>3, ImportAssumption
  <2> QED
    BY <2>1 DEF Wide, Rows, Cells
<1> HIDE DEF cells
<1>6. rows = [i \in 1 .. z |-> rows[i]] /\ \A i \in 1 .. z : rows[i] \in Wide
  BY <1>4, <1>5
<1>7. rows \in Seq(Wide)
  BY <1>2, <1>6, SeqFromTo
<1> QED
  BY <1>7 DEF rows

\* A file that was exported is read as the rows it was written from.
LEMMA ExportRead ==
  ASSUME NEW e, Exports(e)
  PROVE  /\ e.file.ext = ".csv" /\ e.file.text \in Texts
         /\ ParseImportFile(e.file) = [ok |-> TRUE, rows |-> e.rows]
<1> DEFINE rows == e.rows
           text == ToCSV(Columns, rows)
<1>1. rows \in Seq(Wide) /\ e.file = Csv(text)
  BY DEF Exports
<1>2. Wide = [ColumnsOf(Columns) -> Cells] /\ Naming(Columns)
  BY ColumnsNamed DEF Wide
<1>3. text \in Texts /\ ParseCsv(text) = [ok |-> TRUE, rows |-> rows]
  <2> HIDE DEF rows
  <2> QED
    BY <1>1, <1>2, ReadBack
<1> HIDE DEF text, rows
<1>4. e.file.ext = ".csv" /\ e.file.text = text
  BY <1>1 DEF Csv
<1> QED
  BY <1>3, <1>4 DEF ParseImportFile, rows

LEMMA ParsedAreRows ==
  ASSUME RowsInv, \A e \in exported : Exports(e), NEW file \in world.files \cup {e.file : e \in exported}
  PROVE  AreRows(ParseImportFile(file).rows)
<1>1. /\ file.ext = ".csv" => file.text \in Texts
      /\ file.ext = ".json" => AreRows(file.doc.items)
  <2>1. CASE file \in world.files
    BY <2>1, RowsInvFacts, ImportAssumption
  <2>2. CASE file \in {e.file : e \in exported}
    <3>1. PICK e \in exported : file = e.file
      BY <2>2
    <3> QED
      BY <3>1, ExportRead
  <2> QED
    BY <2>1, <2>2
<1>2. CASE file.ext = ".csv"
  <2>1. ParseImportFile(file) = ParseCsv(file.text)
    BY <1>2 DEF ParseImportFile
  <2> QED
    BY <1>1, <1>2, <2>1, ParsedTyped
<1>3. CASE file.ext = ".json"
  <2>1. ParseImportFile(file) = ParseJson(file.doc)
    BY <1>3 DEF ParseImportFile
  <2>2. ParseJson(file.doc).rows = file.doc.items \/ ParseJson(file.doc).rows = <<>>
    BY DEF ParseJson, Unreadable
  <2> QED
    BY <1>1, <1>3, <2>1, <2>2, NoRows
<1>4. CASE file.ext # ".csv" /\ file.ext # ".json"
  <2>1. ParseImportFile(file).rows = <<>>
    BY <1>4 DEF ParseImportFile, Unreadable
  <2> QED
    BY <2>1, NoRows
<1> QED
  BY <1>2, <1>3, <1>4

-----------------------------------------------------------------------------
(* The dialog.                                                             *)

LEMMA NothingPreviewed ==
  /\ Previewed(<<>>, <<>>)
  /\ NoImport.rows = <<>> /\ NoImport.shown = <<>> /\ \A i \in DOMAIN NoImport.shown : NoImport.shown[i].ok
<1>1. PreviewImportRows(<<>>) = <<>>
  BY DEF PreviewImportRows
<1>2. NoImport.rows = <<>> /\ NoImport.shown = <<>>
  BY DEF NoImport
<1>3. DOMAIN NoImport.shown = {}
  BY <1>2
<1> QED
  BY <1>1, <1>2, <1>3, NoRows DEF Previewed

LEMMA GridKept ==
  ASSUME ImportInv, GridStep \/ ServerStep
  PROVE  ImportInv' /\ (writes' = writes => MeantChange(table, table', typed, condemned))
<1>1. UNCHANGED importVars /\ (UserStep \/ RowsStep)
  BY DEF GridStep, ServerStep
<1>2. RowsInv' /\ (writes' = writes => MeantChange(table, table', typed, condemned))
  BY <1>1, UserKept, ServerKept DEF ImportInv
<1>3. UNCHANGED <<exported, reading, previews, parsedRows, previewedRows, importing>>
  BY <1>1 DEF importVars
<1>4. DialogInv'
  BY <1>3 DEF ImportInv, DialogInv
<1> QED
  BY <1>2, <1>4 DEF ImportInv

\* A step of the dialog leaves the grid as it is.
LEMMA GridAlone ==
  ASSUME ImportInv, UNCHANGED rowVars, DialogInv'
  PROVE  ImportInv' /\ MeantChange(table, table', typed, condemned)
<1>1. writes \in Nat /\ RowsInv
  BY RowsInvFacts DEF ImportInv
<1>2. UNCHANGED <<world, table, serial, records, removed, sending, condemned, typed>> /\ writes' = writes
  BY DEF rowVars
<1> QED
  BY <1>1, <1>2, SameRows DEF ImportInv

LEMMA ExportKept ==
  ASSUME ImportInv, Export
  PROVE  ImportInv' /\ MeantChange(table, table', typed, condemned)
<1> DEFINE rows == ExportedRows(table)
           e == [file |-> Csv(ToCSV(Columns, rows)), rows |-> rows]
<1>1. /\ exported' = {e}
      /\ UNCHANGED rowVars /\ UNCHANGED <<reading, previews, parsedRows, previewedRows, importing>>
  BY DEF Export
<1>2. rows \in Seq(Wide)
  BY ExportedTyped DEF ImportInv
<1> HIDE DEF rows
<1>3. Exports(e)
  BY <1>2 DEF Exports
<1> HIDE DEF e
<1>4. DialogInv'
  BY <1>1, <1>3 DEF ImportInv, DialogInv
<1> QED
  BY <1>1, <1>4, GridAlone

LEMMA OpenKept ==
  ASSUME ImportInv, OpenDialog
  PROVE  ImportInv' /\ MeantChange(table, table', typed, condemned)
<1>1. /\ UNCHANGED rowVars /\ UNCHANGED <<exported, importing>>
      /\ reading' = {} /\ previews' = {} /\ parsedRows' = <<>> /\ previewedRows' = <<>>
  BY DEF OpenDialog, ResetPreview
<1>2. DialogInv'
  BY <1>1, NothingPreviewed DEF ImportInv, DialogInv
<1> QED
  BY <1>1, <1>2, GridAlone

LEMMA PickKept ==
  ASSUME ImportInv, NEW file \in world.files \cup {e.file : e \in exported}, HandleFile(file)
  PROVE  ImportInv' /\ MeantChange(table, table', typed, condemned)
<1>1. /\ UNCHANGED rowVars /\ UNCHANGED <<exported, previews, parsedRows, previewedRows, importing>>
      /\ reading' = reading \cup {file}
  BY DEF HandleFile
<1>2. AreRows(ParseImportFile(file).rows)
  BY ParsedAreRows DEF ImportInv, DialogInv
<1>3. DialogInv'
  BY <1>1, <1>2 DEF ImportInv, DialogInv
<1> QED
  BY <1>1, <1>3, GridAlone

LEMMA ReadKept ==
  ASSUME ImportInv, NEW file \in reading, ReadFile(file)
  PROVE  ImportInv' /\ MeantChange(table, table', typed, condemned)
<1> DEFINE rows == ParseImportFile(file).rows
<1>1. /\ UNCHANGED rowVars /\ UNCHANGED <<exported, importing>>
      /\ reading' = reading \ {file}
      /\ \/ previews' = previews \cup {rows} /\ UNCHANGED <<parsedRows, previewedRows>>
         \/ UNCHANGED previews /\ parsedRows' = <<>> /\ previewedRows' = <<>>
  BY DEF ReadFile, ResetPreview
<1>2. AreRows(rows)
  BY DEF ImportInv, DialogInv
<1> HIDE DEF rows
<1>3. DialogInv'
  BY <1>1, <1>2, NothingPreviewed DEF ImportInv, DialogInv
<1> QED
  BY <1>1, <1>3, GridAlone

LEMMA LandKept ==
  ASSUME ImportInv, NEW rows \in previews, PreviewLands(rows)
  PROVE  ImportInv' /\ MeantChange(table, table', typed, condemned)
<1>1. /\ UNCHANGED rowVars /\ UNCHANGED <<exported, reading, importing>>
      /\ previews' = previews \ {rows}
      /\ \/ parsedRows' = rows /\ previewedRows' = PreviewImportRows(rows)
         \/ parsedRows' = <<>> /\ previewedRows' = <<>>
  BY DEF PreviewLands, ResetPreview
<1>2. AreRows(rows)
  BY DEF ImportInv, DialogInv
<1>3. Previewed(parsedRows', previewedRows')
  BY <1>1, <1>2, NothingPreviewed DEF Previewed
<1>4. DialogInv'
  BY <1>1, <1>3 DEF ImportInv, DialogInv
<1> QED
  BY <1>1, <1>4, GridAlone

LEMMA TryKept ==
  ASSUME ImportInv, TryImport
  PROVE  ImportInv' /\ MeantChange(table, table', typed, condemned)
<1>1. /\ UNCHANGED rowVars /\ UNCHANGED <<exported, reading, previews, parsedRows, previewedRows>>
      /\ \/ CanImport /\ importing' = [rows |-> parsedRows, shown |-> previewedRows]
         \/ UNCHANGED importing
  BY DEF TryImport
<1>2. CASE UNCHANGED importing
  <2>1. DialogInv'
    BY <1>1, <1>2 DEF ImportInv, DialogInv
  <2> QED
    BY <1>1, <2>1, GridAlone
<1>3. CASE CanImport /\ importing' = [rows |-> parsedRows, shown |-> previewedRows]
  <2>1. importing'.rows = parsedRows /\ importing'.shown = previewedRows
    BY <1>3
  <2>2. DialogInv'
    BY <1>1, <1>3, <2>1 DEF ImportInv, DialogInv, CanImport
  <2> QED
    BY <1>1, <2>2, GridAlone
<1> QED
  BY <1>1, <1>2, <1>3

LEMMA LeftKept ==
  ASSUME ImportInv, ImportLost \/ CloseDialog
  PROVE  ImportInv' /\ MeantChange(table, table', typed, condemned)
<1>1. /\ UNCHANGED rowVars /\ UNCHANGED <<exported, reading, previews, parsedRows, previewedRows>>
      /\ importing' = NoImport \/ UNCHANGED importing
  BY DEF ImportLost, CloseDialog
<1>2. DialogInv'
  BY <1>1, NothingPreviewed DEF ImportInv, DialogInv
<1> QED
  BY <1>1, <1>2, GridAlone

\* What an import of the rows shown may do to a table that has given out the keys up to s.
Brings(t, t2, s, shown) ==
    \/ t2 = t
    \/ /\ \A i \in DOMAIN shown : shown[i].ok
       /\ DOMAIN t2 \ DOMAIN t = {s + i : i \in DOMAIN shown}
       /\ \A i \in DOMAIN shown : t2[s + i] = RowWith(shown[i].values)
       /\ \A k \in DOMAIN t : t2[k] = t[k]

LEMMA ShownIs ==
  ASSUME NEW rows, NEW shown, Previewed(rows, shown), \A i \in DOMAIN shown : shown[i].ok
  PROVE  /\ DOMAIN shown = 1 .. Len(rows)
         /\ \A i \in DOMAIN shown : shown[i].values = CoerceRow(rows[i])
<1>1. shown = [i \in DOMAIN rows |-> ValidateRow(rows[i])] /\ DOMAIN rows = 1 .. Len(rows)
  BY RowsAre DEF Previewed, PreviewImportRows
<1>2. ASSUME NEW i \in DOMAIN shown
      PROVE  shown[i].values = CoerceRow(rows[i])
  <2>1. shown[i] = ValidateRow(rows[i]) /\ shown[i].ok
    BY <1>1
  <2> QED
    BY <2>1 DEF ValidateRow
<1> QED
  BY <1>1, <1>2

\* One transaction: all rows with the values shown, or none.
LEMMA AllOrNone ==
  ASSUME NEW t, NEW s \in Nat, IsTable(t, s), NEW rows, NEW shown, Previewed(rows, shown),
         \A i \in DOMAIN shown : shown[i].ok,
         NEW all, AllIn(t, s, rows, Len(rows), all), all.ok
  PROVE  Brings(t, all.table, s, shown) /\ DOMAIN t \subseteq DOMAIN all.table /\ \A k \in DOMAIN t : all.table[k] = t[k]
<1> DEFINE n == Len(rows)
<1>1. n \in Nat
  BY RowsAre DEF Previewed
<1>2. DOMAIN shown = 1 .. n /\ \A i \in DOMAIN shown : shown[i].values = CoerceRow(rows[i])
  BY ShownIs
<1>3. /\ DOMAIN all.table = DOMAIN t \cup {s + i : i \in 1 .. n}
      /\ \A k \in DOMAIN t : all.table[k] = t[k]
      /\ \A i \in 1 .. n : all.table[s + i] = RowWith(CoerceRow(rows[i]))
  BY DEF AllIn
<1> HIDE DEF n
<1>4. \A i \in 1 .. n : s + i \notin DOMAIN t
  BY <1>1 DEF IsTable
<1>5. DOMAIN all.table \ DOMAIN t = {s + i : i \in DOMAIN shown}
  BY <1>2, <1>3, <1>4
<1>6. \A i \in DOMAIN shown : all.table[s + i] = RowWith(shown[i].values)
  BY <1>2, <1>3
<1> QED
  BY <1>3, <1>5, <1>6 DEF Brings

LEMMA AnsweredKept ==
  ASSUME ImportInv, ImportAnswered
  PROVE  /\ ImportInv' /\ MeantChange(table, table', typed, condemned)
         /\ Brings(table, table', serial, importing.shown)
<1> DEFINE rows == importing.rows
           shown == importing.shown
           all == InsertAll(rows)
           result == ImportRowsCommand(rows)
<1>1. /\ RowsInv /\ serial \in Nat /\ MaxKey \in Nat /\ IsTable(table, serial) /\ writes \in Nat /\ world \in Worlds
      /\ removed \subseteq condemned
      /\ RecordsKept(records, table, serial, typed) /\ RequestsKept(sending, table, serial, typed, condemned)
  BY RowsInvFacts DEF ImportInv
<1>2. Previewed(rows, shown) /\ AreRows(rows) /\ \A i \in DOMAIN shown : shown[i].ok
  BY DEF ImportInv, DialogInv, Previewed
<1>3. AllIn(table, serial, rows, Len(rows), all) /\ Len(rows) \in Nat
  BY <1>1, <1>2, InsertAllIs, RowsAre
<1>4. /\ serial + Len(rows) <= MaxKey /\ sending = {} /\ sending' = {}
      /\ table' = result.table /\ serial' = result.serial
      /\ UNCHANGED <<world, writes, exported, reading, previews, parsedRows, previewedRows>>
      /\ importing' = NoImport
      /\ IF result.ok THEN Discard ELSE UNCHANGED <<removed, condemned, typed, records>>
  BY DEF ImportAnswered, store
<1>5. result = IF all.ok THEN all ELSE Refused(table, all.serial)
  BY DEF ImportRowsCommand
<1> HIDE DEF rows, shown, all, result
<1>6. all.serial \in serial .. MaxKey /\ IsTable(all.table, all.serial) /\ all.ok \in BOOLEAN
  BY <1>1, <1>3, <1>4 DEF AllIn
<1>7. DialogInv'
  BY <1>4, NothingPreviewed DEF ImportInv, DialogInv
<1>8. CASE all.ok
  <2>1. table' = all.table /\ serial' = all.serial /\ Discard
    BY <1>4, <1>5, <1>8
  <2>2. RowsInv'
    BY <1>1, <1>4, <1>6, <2>1, DiscardKept
  <2>3. Brings(table, table', serial, shown) /\ MeantChange(table, table', typed, condemned)
    BY <1>1, <1>2, <1>3, <1>8, <2>1, AllOrNone DEF MeantChange
  <2> QED
    BY <1>7, <2>2, <2>3 DEF ImportInv, shown
<1>9. CASE ~ all.ok
  <2> DEFINE s2 == serial'
  <2>1. /\ table' = table /\ s2 = all.serial /\ UNCHANGED <<removed, condemned, typed, records>>
    BY <1>4, <1>5, <1>9 DEF Refused
  <2>2. s2 \in Nat /\ s2 \in 0 .. MaxKey /\ serial <= s2
    BY <1>1, <1>6, <2>1
  <2> HIDE DEF s2
  <2>3. Carries({}, table, serial, typed, table, s2, typed)
    BY <2>2 DEF Carries
  <2>4. RecordsKept(records, table, s2, typed)
    BY <1>1, <2>2, <2>3, RecordsLater
  <2>5. RequestsKept({}, table, s2, typed, condemned)
    BY DEF RequestsKept
  <2>6. IsTable(table, s2)
    BY <1>1, <2>2 DEF IsTable
  <2>7. RowsInv'
    BY <1>1, <1>4, <2>1, <2>2, <2>4, <2>5, <2>6 DEF RowsInv, s2
  <2>8. Brings(table, table', serial, shown)
    BY <2>1 DEF Brings
  <2> QED
    BY <1>7, <2>1, <2>7, <2>8, NoChange DEF ImportInv, shown
<1> QED
  BY <1>6, <1>8, <1>9

-----------------------------------------------------------------------------
(* The theorems.                                                           *)

LEMMA InitKept ==
  ASSUME Init
  PROVE  ImportInv
<1>1. /\ world \in Worlds /\ table = world.table /\ serial \in DOMAIN table \cup {0}
      /\ \A k \in DOMAIN table : k <= serial
      /\ records = <<>> /\ removed = {} /\ sending = {} /\ writes = 0
  BY DEF Init, RowsInit
<1>2. DOMAIN table \subseteq 1 .. MaxKey /\ table \in [DOMAIN table -> [DataColumns -> Cells]]
  BY <1>1, RowsAssumption
<1>3. serial \in 0 .. MaxKey /\ serial \in Nat
  BY <1>1, <1>2, RowsAssumption
<1>4. DOMAIN table \subseteq 1 .. serial
  BY <1>1, <1>2, <1>3
<1>5. IsTable(table, serial)
  BY <1>2, <1>4 DEF IsTable, Rows
<1>6. RecordsKept(<<>>, table, serial, typed)
  BY DEF RecordsKept, Distinct
<1>7. RequestsKept({}, table, serial, typed, condemned)
  BY DEF RequestsKept
<1>8. RowsInv
  BY <1>1, <1>3, <1>5, <1>6, <1>7 DEF RowsInv
<1>9. exported = {} /\ reading = {} /\ previews = {} /\ parsedRows = <<>> /\ previewedRows = <<>> /\ importing = NoImport
  BY DEF Init
<1>10. DialogInv
  BY <1>9, NothingPreviewed DEF DialogInv
<1> QED
  BY <1>8, <1>10 DEF ImportInv

LEMMA StepKept ==
  ASSUME ImportInv, Next
  PROVE  ImportInv' /\ (writes' = writes => MeantChange(table, table', typed, condemned))
<1>1. CASE GridStep \/ ServerStep
  BY <1>1, GridKept
<1>2. CASE Export
  BY <1>2, ExportKept
<1>3. CASE OpenDialog
  BY <1>3, OpenKept
<1>4. CASE PickFile
  BY <1>4, PickKept DEF PickFile
<1>5. CASE ReadingStep
  BY <1>5, ReadKept DEF ReadingStep
<1>6. CASE PreviewStep
  BY <1>6, LandKept DEF PreviewStep
<1>7. CASE TryImport
  BY <1>7, TryKept
<1>8. CASE ImportAnswered
  BY <1>8, AnsweredKept
<1>9. CASE ImportLost \/ CloseDialog
  BY <1>9, LeftKept
<1> QED
  BY <1>1, <1>2, <1>3, <1>4, <1>5, <1>6, <1>7, <1>8, <1>9 DEF Next

LEMMA StutterKept ==
  ASSUME ImportInv, UNCHANGED vars
  PROVE  ImportInv' /\ MeantChange(table, table', typed, condemned)
<1>1. UNCHANGED rowVars /\ UNCHANGED <<exported, reading, previews, parsedRows, previewedRows, importing>>
  BY DEF vars, importVars
<1>2. DialogInv'
  BY <1>1 DEF ImportInv, DialogInv
<1> QED
  BY <1>1, <1>2, GridAlone

\* The inductive invariant: the store's records are records of the table's keys, no two of one key, and
\* show what was loaded except where something was typed (TableWorkPanel.ts over the AjaxStore); the requests of a Save
\* write what was typed and delete what was confirmed (SqlAdminWriter.ts); what the import
\* dialog holds is what the parser made of a file, with its preview (ImportRowsDialog.ts).
THEOREM ImportInvariant == Spec => []ImportInv
<1>1. Init => ImportInv
  BY InitKept
<1>2. ImportInv /\ [Next]_vars => ImportInv'
  BY StepKept, StutterKept
<1> QED
  BY <1>1, <1>2, PTL DEF Spec

\* Whatever the table holds, the parser (parseImport.ts) reads a file that was exported (serialize.ts) as
\* the rows it was written from.
THEOREM ExportsReadBack == Spec => []ExportReadsBack
<1>1. ImportInv => ExportReadsBack
  BY ExportRead DEF ImportInv, DialogInv, ExportReadsBack
<1> QED
  BY <1>1, ImportInvariant, PTL

\* The application deletes only rows that were confirmed for deletion, and rewrites only cells that
\* were typed into since their row was loaded, whatever other sessions write (TableWorkPanel.ts, SqlAdminWriter.ts).
THEOREM OnlyMeantIsWritten == Spec => WritesWhatIsMeant
<1>1. ImportInv /\ [Next]_vars /\ Ours => MeantChange(table, table', typed, condemned)
  BY StepKept, StutterKept DEF Ours
<1>2. ImportInv /\ [Next]_vars =>
        [Ours => /\ DOMAIN table \ DOMAIN table' \subseteq condemned
                 /\ \A k \in DOMAIN table \cap DOMAIN table' : \A c \in DataColumns :
                        table'[k][c] # table[k][c] => <<k, c>> \in typed]_vars
  BY <1>1 DEF MeantChange
<1> QED
  BY <1>2, ImportInvariant, PTL DEF Spec, WritesWhatIsMeant

LEMMA ImportStep ==
  ASSUME ImportInv, Next, importing # NoImport, importing' = NoImport
  PROVE  Brings(table, table', serial, importing.shown)
<1>1. CASE ImportAnswered
  BY <1>1, AnsweredKept
<1>2. CASE ImportLost
  BY <1>2 DEF ImportLost, rowVars, Brings
<1>3. CASE GridStep \/ ServerStep \/ Export \/ OpenDialog \/ PickFile \/ ReadingStep \/ PreviewStep \/ TryImport \/ CloseDialog
  BY <1>3 DEF GridStep, ServerStep, importVars, Export, OpenDialog, PickFile, HandleFile, ReadingStep, ReadFile, PreviewStep,
              PreviewLands, TryImport, CloseDialog
<1> QED
  BY <1>1, <1>2, <1>3 DEF Next

\* An import (import_rows.py) adds no row, or exactly the rows that were previewed when Import was pressed.
THEOREM ImportsOnlyWhatIsShown == Spec => ImportsWhatIsShown
<1>1. ImportInv /\ Next /\ importing # NoImport /\ importing' = NoImport =>
        Brings(table, table', serial, importing.shown)
  BY ImportStep
<1>2. ImportInv /\ [Next]_vars /\ importing # NoImport /\ importing' = NoImport =>
        Brings(table, table', serial, importing.shown)
  BY <1>1 DEF vars, importVars
<1>3. ImportInv /\ [Next]_vars =>
        [importing # NoImport /\ importing' = NoImport =>
            \/ table' = table
            \/ LET shown == importing.shown
                   Values(i) == [c \in DataColumns |-> IF c \in DOMAIN shown[i].values THEN shown[i].values[c] ELSE NULL]
               IN  /\ \A i \in DOMAIN shown : shown[i].ok
                   /\ DOMAIN table' \ DOMAIN table = {serial + i : i \in DOMAIN shown}
                   /\ \A i \in DOMAIN shown : table'[serial + i] = Values(i)
                   /\ \A k \in DOMAIN table : table'[k] = table[k]]_vars
  BY <1>2 DEF Brings, RowWith
<1> QED
  BY <1>3, ImportInvariant, PTL DEF Spec, ImportsWhatIsShown
=============================================================================
