-------------------------- MODULE QueryPanelProofs ----------------------------
(***************************************************************************)
(* Proofs about QueryPanel: the strip of tabs holds the built tab of every *)
(* slot and the spinner of every first run that has not settled, each      *)
(* once; a stale answer changes nothing its user would miss; and Export    *)
(* follows the tab on screen.                                              *)
(***************************************************************************)
EXTENDS QueryPanel, SequenceTheorems, FiniteSetTheorems, TLAPS

-----------------------------------------------------------------------------
(* Tabs.                                                                   *)

LEMMA TabFields ==
  ASSUME NEW kind, NEW seq
  PROVE  /\ Built(kind, seq).kind = kind /\ Built(kind, seq).seq = seq
         /\ Built(kind, seq).built
         /\ Spinner(seq).kind = "Data" /\ Spinner(seq).seq = seq
         /\ ~ Spinner(seq).built
         /\ NoTab.seq = Nothing /\ ~ NoTab.built
  BY DEF Built, Spinner, NoTab

LEMMA TabTypes ==
  ASSUME NEW kind \in Kinds, NEW seq \in Seqs
  PROVE  /\ Built(kind, seq) \in Tab
         /\ Spinner(seq) \in Tab
  BY DEF Built, Spinner, Tab, Kinds

LEMMA TabKinds ==
  ASSUME NEW t \in Tab
  PROVE  t.kind \in Kinds /\ t.seq \in Seqs /\ t.built \in BOOLEAN /\ t.seq # Nothing
  BY MovesAssumption DEF Tab, Seqs, Nothing

\* A tab is what its fields say.
LEMMA TabIs ==
  ASSUME NEW t \in Tab
  PROVE  /\ t.built => t = Built(t.kind, t.seq)
         /\ ~ t.built /\ t.kind = "Data" => t = Spinner(t.seq)
<1>1. t = [kind |-> t.kind, seq |-> t.seq, built |-> t.built] /\ t.built \in BOOLEAN
  BY DEF Tab
<1>2. CASE t.built = TRUE
  BY <1>1, <1>2 DEF Built
<1>3. CASE t.built = FALSE
  BY <1>1, <1>3 DEF Spinner
<1> QED
  BY <1>1, <1>2, <1>3

-----------------------------------------------------------------------------
(* The strip.                                                              *)

Items(strip) == {strip[i] : i \in DOMAIN strip}

\* The strip in which one tab has become another.
Becoming(s, t, u) == [i \in DOMAIN s |-> IF s[i] = t THEN u ELSE s[i]]

Distinct(strip) == \A i, j \in DOMAIN strip : strip[i] = strip[j] => i = j

LEMMA WithoutNone ==
  ASSUME NEW s, NEW t, t \notin Items(s)
  PROVE  Without(s, t) = s
  BY DEF Items, Without

LEMMA WithoutOne ==
  ASSUME NEW S, NEW s \in Seq(S), NEW t, Distinct(s), t \in Items(s)
  PROVE  /\ Without(s, t) \in Seq(S)
         /\ Len(Without(s, t)) = Len(s) - 1
         /\ Distinct(Without(s, t))
         /\ Items(Without(s, t)) = Items(s) \ {t}
<1>1. PICK at \in DOMAIN s : at = IndexOf(s, t) /\ s[at] = t
  BY DEF Items, IndexOf
<1>2. DOMAIN s = 1 .. Len(s) /\ Len(s) \in Nat
  BY LenProperties
<1> DEFINE w == [i \in 1 .. Len(s) - 1 |-> s[IF i < at THEN i ELSE i + 1]]
<1>3. Without(s, t) = w
  BY <1>1 DEF Items, Without
<1>4. /\ Len(s) - 1 \in Nat
      /\ \A i \in 1 .. Len(s) - 1 : w[i] = s[IF i < at THEN i ELSE i + 1] /\ w[i] \in S
  <2>1. \A i \in 1 .. Len(s) - 1 : (IF i < at THEN i ELSE i + 1) \in 1 .. Len(s)
    BY <1>1, <1>2
  <2>2. \A i \in 1 .. Len(s) : s[i] \in S
    BY ElementOfSeq
  <2> QED
    BY <1>1, <1>2, <2>1, <2>2
<1>5. w \in Seq(S) /\ Len(w) = Len(s) - 1 /\ DOMAIN w = 1 .. Len(s) - 1
  <2>1. w \in [1 .. Len(s) - 1 -> S]
    BY <1>4
  <2>2. w \in Seq(S)
    BY <1>4, <2>1, SeqDef
  <2> QED
    BY <1>4, <2>1, <2>2, LenProperties
<1> HIDE DEF w
<1>6. Distinct(w)
  <2> SUFFICES ASSUME NEW i \in 1 .. Len(s) - 1, NEW j \in 1 .. Len(s) - 1, w[i] = w[j]
               PROVE  i = j
    BY <1>5 DEF Distinct
  <2>1. PICK k, l : /\ k = (IF i < at THEN i ELSE i + 1)
                    /\ l = (IF j < at THEN j ELSE j + 1)
    OBVIOUS
  <2>2. k \in DOMAIN s /\ l \in DOMAIN s
    BY <1>1, <1>2, <2>1
  <2>3. s[k] = s[l]
    BY <1>4, <2>1
  <2>4. k = l
    BY <2>2, <2>3 DEF Distinct
  <2> QED
    BY <1>1, <1>2, <2>1, <2>4
<1>7. ASSUME NEW x \in Items(w) PROVE x \in Items(s) /\ x # t
  <2>1. PICK i \in 1 .. Len(s) - 1 : x = s[IF i < at THEN i ELSE i + 1]
    BY <1>4, <1>5, <1>7 DEF Items
  <2>2. (IF i < at THEN i ELSE i + 1) \in DOMAIN s /\ (IF i < at THEN i ELSE i + 1) # at
    BY <1>1, <1>2, <2>1
  <2> QED
    BY <1>1, <2>1, <2>2 DEF Items, Distinct
<1>8. ASSUME NEW x \in Items(s), x # t PROVE x \in Items(w)
  <2>1. PICK i \in DOMAIN s : x = s[i] /\ i # at
    BY <1>1, <1>8 DEF Items
  <2>2. CASE i < at
    BY <1>1, <1>2, <1>4, <1>5, <2>1, <2>2 DEF Items
  <2>3. CASE i > at
    <3>1. i - 1 \in 1 .. Len(s) - 1 /\ w[i - 1] = s[i]
      BY <1>1, <1>2, <1>4, <2>1, <2>3
    <3> QED
      BY <1>5, <2>1, <3>1 DEF Items
  <2> QED
    BY <1>1, <1>2, <2>1, <2>2, <2>3
<1> QED
  BY <1>3, <1>5, <1>6, <1>7, <1>8

LEMMA AppendOne ==
  ASSUME NEW S, NEW s \in Seq(S), NEW t \in S, Distinct(s), t \notin Items(s)
  PROVE  /\ Append(s, t) \in Seq(S)
         /\ Len(Append(s, t)) = Len(s) + 1
         /\ Append(s, t)[Len(s) + 1] = t
         /\ Distinct(Append(s, t))
         /\ Items(Append(s, t)) = Items(s) \cup {t}
<1> DEFINE a == Append(s, t)
<1>1. /\ a \in Seq(S) /\ Len(a) = Len(s) + 1
      /\ \A i \in 1 .. Len(s) : a[i] = s[i]
      /\ a[Len(s) + 1] = t
  BY AppendProperties
<1> HIDE DEF a
<1>2. /\ DOMAIN s = 1 .. Len(s) /\ Len(s) \in Nat
      /\ DOMAIN a = 1 .. Len(s) + 1
  BY <1>1, LenProperties
<1>3. Distinct(a)
  BY <1>1, <1>2 DEF Distinct, Items
<1>4. Items(a) = Items(s) \cup {t}
  <2>1. \A i \in DOMAIN a : i \in DOMAIN s \/ i = Len(s) + 1
    BY <1>2
  <2>2. \A i \in DOMAIN s : i \in DOMAIN a
    BY <1>2
  <2>3. Len(s) + 1 \in DOMAIN a
    BY <1>2
  <2> QED
    BY <1>1, <1>2, <2>1, <2>2, <2>3 DEF Items
<1> QED
  BY <1>1, <1>3, <1>4 DEF a

\* One tab becomes another in its place.
LEMMA Becomes ==
  ASSUME NEW S, NEW s \in Seq(S), NEW t, NEW u \in S, Distinct(s), t \in Items(s), u \notin Items(s)
  PROVE  LET r == Becoming(s, t, u)
         IN  /\ r \in Seq(S) /\ Len(r) = Len(s)
             /\ Distinct(r)
             /\ Items(r) = (Items(s) \ {t}) \cup {u}
<1> DEFINE r == Becoming(s, t, u)
<1>1. DOMAIN s = 1 .. Len(s) /\ Len(s) \in Nat /\ \A i \in DOMAIN s : s[i] \in S
  BY LenProperties, ElementOfSeq
<1>2. r \in Seq(S) /\ Len(r) = Len(s) /\ DOMAIN r = DOMAIN s
  <2>1. r \in [1 .. Len(s) -> S]
    BY <1>1 DEF Becoming
  <2>2. r \in Seq(S)
    BY <1>1, <2>1, SeqDef
  <2> QED
    BY <1>1, <2>1, <2>2, LenProperties
<1>3. \A i \in DOMAIN s : r[i] = IF s[i] = t THEN u ELSE s[i]
  BY DEF Becoming
<1> HIDE DEF r
<1>4. Distinct(r)
  BY <1>2, <1>3 DEF Distinct, Items
<1>5. Items(r) = (Items(s) \ {t}) \cup {u}
  BY <1>2, <1>3 DEF Items
<1> QED
  BY <1>2, <1>4, <1>5 DEF r

-----------------------------------------------------------------------------
(* What a pane holds: a built tab for every slot that is taken, and a      *)
(* spinner for every first run under way.                                  *)

Taken(slot) == {k \in Kinds : slot[k] # Nothing}

Known(t, slot, spinners) ==
    IF t.built THEN slot[t.kind] = t.seq ELSE t.kind = "Data" /\ t.seq \in spinners

Arranged(strip, slot, spinners) ==
    /\ IsFiniteSet(spinners)
    /\ Distinct(strip)
    /\ \A t \in Tab : t \in Items(strip) <=> Known(t, slot, spinners)
    /\ Len(strip) = Cardinality(Taken(slot)) + Cardinality(spinners)

\* A built tab on screen is in the strip.
Held(active, strip) == active.built => active \in Items(strip)

LEMMA StripItems ==
  ASSUME NEW strip \in Seq(Tab)
  PROVE  Items(strip) \subseteq Tab
  BY LenProperties, ElementOfSeq DEF Items

LEMMA TakenFinite ==
  ASSUME NEW slot
  PROVE  IsFiniteSet(Taken(slot)) /\ Cardinality(Taken(slot)) \in Nat
<1>1. Kinds = (({"Data"} \cup {"Chart"}) \cup {"Explain"}) \cup {"Diagram"}
  BY DEF Kinds
<1>2. IsFiniteSet(Kinds)
  BY <1>1, FS_Singleton, FS_Union
<1> QED
  BY <1>2, FS_Subset, FS_CardinalityType DEF Taken

LEMMA SlotCleared ==
  ASSUME NEW slot \in [Kinds -> Slot], NEW kind \in Kinds, slot[kind] # Nothing
  PROVE  LET less == [slot EXCEPT ![kind] = Nothing]
         IN  /\ less \in [Kinds -> Slot] /\ less[kind] = Nothing
             /\ \A k \in Kinds : k # kind => less[k] = slot[k]
             /\ Cardinality(Taken(less)) = Cardinality(Taken(slot)) - 1
<1> DEFINE less == [slot EXCEPT ![kind] = Nothing]
<1>1. /\ less \in [Kinds -> Slot] /\ less[kind] = Nothing
      /\ \A k \in Kinds : k # kind => less[k] = slot[k]
  BY DEF Slot
<1> HIDE DEF less
<1>2. Taken(less) = Taken(slot) \ {kind} /\ kind \in Taken(slot)
  BY <1>1 DEF Taken
<1>3. Cardinality(Taken(less)) = Cardinality(Taken(slot)) - 1
  BY <1>2, TakenFinite, FS_RemoveElement
<1> QED
  BY <1>1, <1>3 DEF less

LEMMA SlotFilled ==
  ASSUME NEW slot \in [Kinds -> Slot], NEW kind \in Kinds, slot[kind] = Nothing, NEW seq \in Seqs
  PROVE  LET more == [slot EXCEPT ![kind] = seq]
         IN  /\ more \in [Kinds -> Slot] /\ more[kind] = seq
             /\ \A k \in Kinds : k # kind => more[k] = slot[k]
             /\ Cardinality(Taken(more)) = Cardinality(Taken(slot)) + 1
<1> DEFINE more == [slot EXCEPT ![kind] = seq]
<1>1. /\ more \in [Kinds -> Slot] /\ more[kind] = seq
      /\ \A k \in Kinds : k # kind => more[k] = slot[k]
  BY DEF Slot
<1>2. seq # Nothing
  BY MovesAssumption DEF Seqs, Nothing
<1> HIDE DEF more
<1>3. Taken(more) = Taken(slot) \cup {kind} /\ kind \notin Taken(slot)
  BY <1>1, <1>2 DEF Taken
<1>4. Cardinality(Taken(more)) = Cardinality(Taken(slot)) + 1
  BY <1>3, TakenFinite, FS_AddElement
<1> QED
  BY <1>1, <1>4 DEF more

\* A tab goes and the slot or the call behind it.
LEMMA ArrangedWithout ==
  ASSUME NEW strip \in Seq(Tab), NEW t \in Items(strip),
         NEW slot, NEW spinners, Arranged(strip, slot, spinners),
         NEW slot2, NEW spinners2, IsFiniteSet(spinners2),
         \A u \in Tab : Known(u, slot2, spinners2) <=> Known(u, slot, spinners) /\ u # t,
         Cardinality(Taken(slot2)) + Cardinality(spinners2) = Len(strip) - 1
  PROVE  /\ Without(strip, t) \in Seq(Tab)
         /\ Arranged(Without(strip, t), slot2, spinners2)
<1>1. /\ Without(strip, t) \in Seq(Tab)
      /\ Len(Without(strip, t)) = Len(strip) - 1
      /\ Distinct(Without(strip, t))
      /\ Items(Without(strip, t)) = Items(strip) \ {t}
  BY WithoutOne DEF Arranged
<1>2. Len(Without(strip, t)) = Cardinality(Taken(slot2)) + Cardinality(spinners2)
  BY <1>1
<1>3. \A u \in Tab : u \in Items(Without(strip, t)) <=> Known(u, slot2, spinners2)
  BY <1>1 DEF Arranged
<1> QED
  BY <1>1, <1>2, <1>3 DEF Arranged

\* A tab comes with its slot or its call.
LEMMA ArrangedAppend ==
  ASSUME NEW strip \in Seq(Tab), NEW t \in Tab, t \notin Items(strip),
         NEW slot, NEW spinners, Arranged(strip, slot, spinners),
         NEW slot2, NEW spinners2, IsFiniteSet(spinners2),
         \A u \in Tab : Known(u, slot2, spinners2) <=> Known(u, slot, spinners) \/ u = t,
         Cardinality(Taken(slot2)) + Cardinality(spinners2) = Len(strip) + 1
  PROVE  /\ Append(strip, t) \in Seq(Tab)
         /\ Arranged(Append(strip, t), slot2, spinners2)
<1>1. /\ Append(strip, t) \in Seq(Tab)
      /\ Len(Append(strip, t)) = Len(strip) + 1
      /\ Distinct(Append(strip, t))
      /\ Items(Append(strip, t)) = Items(strip) \cup {t}
  BY AppendOne DEF Arranged
<1> QED
  BY <1>1 DEF Arranged

\* A tab becomes another: the spinner its built tab.
LEMMA ArrangedBecomes ==
  ASSUME NEW strip \in Seq(Tab), NEW t \in Items(strip), NEW v \in Tab, v \notin Items(strip),
         NEW slot, NEW spinners, Arranged(strip, slot, spinners),
         NEW slot2, NEW spinners2, IsFiniteSet(spinners2),
         \A u \in Tab : Known(u, slot2, spinners2) <=> (Known(u, slot, spinners) /\ u # t) \/ u = v,
         Cardinality(Taken(slot2)) + Cardinality(spinners2) = Len(strip)
  PROVE  LET r == Becoming(strip, t, v)
         IN  r \in Seq(Tab) /\ Arranged(r, slot2, spinners2) /\ Items(r) = (Items(strip) \ {t}) \cup {v}
<1> DEFINE r == Becoming(strip, t, v)
<1>1. /\ r \in Seq(Tab) /\ Len(r) = Len(strip) /\ Distinct(r)
      /\ Items(r) = (Items(strip) \ {t}) \cup {v}
  BY Becomes DEF Arranged
<1> HIDE DEF r
<1>2. \A u \in Tab : u \in Items(r) <=> Known(u, slot2, spinners2)
  BY <1>1 DEF Arranged
<1>3. Arranged(r, slot2, spinners2)
  BY <1>1, <1>2 DEF Arranged
<1> QED
  BY <1>1, <1>3 DEF r

\* The built tab of a slot is the one whose number the slot has.
LEMMA SlotsTab ==
  ASSUME NEW u \in Tab, NEW kind \in Kinds, NEW seq
  PROVE  u = Built(kind, seq) <=> u.built /\ u.kind = kind /\ u.seq = seq
  BY TabFields, TabIs

LEMMA Spinners ==
  ASSUME NEW u \in Tab, NEW seq
  PROVE  u = Spinner(seq) <=> ~ u.built /\ u.kind = "Data" /\ u.seq = seq
  BY TabFields, TabIs

\* A slot is cleared and its tab goes.
LEMMA ClearsSlot ==
  ASSUME NEW strip \in Seq(Tab), NEW slot \in [Kinds -> Slot], NEW spinners,
         Arranged(strip, slot, spinners), NEW kind \in Kinds
  PROVE  LET t == Built(kind, slot[kind])
         IN  /\ Without(strip, t) \in Seq(Tab)
             /\ Arranged(Without(strip, t), [slot EXCEPT ![kind] = Nothing], spinners)
             /\ Items(Without(strip, t)) = Items(strip) \ {t}
             /\ slot[kind] # Nothing => t \in Items(strip)
<1> DEFINE t == Built(kind, slot[kind])
           less == [slot EXCEPT ![kind] = Nothing]
<1>1. CASE slot[kind] = Nothing
  <2>1. t \notin Items(strip)
    BY <1>1, StripItems, TabKinds, TabFields
  <2>2. Without(strip, t) = strip
    BY <2>1, WithoutNone
  <2>3. less = slot
    BY <1>1
  <2> QED
    BY <1>1, <2>1, <2>2, <2>3
<1>2. CASE slot[kind] # Nothing
  <2>1. slot[kind] \in Seqs
    BY <1>2 DEF Slot
  <2>2. t \in Tab /\ t.kind = kind /\ t.seq = slot[kind] /\ t.built
    BY <2>1, TabTypes, TabFields
  <2>3. t \in Items(strip)
    BY <2>2 DEF Arranged, Known
  <2>4. /\ less \in [Kinds -> Slot] /\ less[kind] = Nothing
        /\ \A k \in Kinds : k # kind => less[k] = slot[k]
        /\ Cardinality(Taken(less)) = Cardinality(Taken(slot)) - 1
    BY <1>2, SlotCleared
  <2>5. \A u \in Tab : u = t <=> u.built /\ u.kind = kind /\ u.seq = slot[kind]
    BY SlotsTab
  <2> HIDE DEF t, less
  <2>6. \A u \in Tab : Known(u, less, spinners) <=> Known(u, slot, spinners) /\ u # t
    BY <2>4, <2>5, TabKinds DEF Known
  <2>7. IsFiniteSet(spinners) /\ Cardinality(spinners) \in Nat
    BY FS_CardinalityType DEF Arranged
  <2>8. Cardinality(Taken(less)) + Cardinality(spinners) = Len(strip) - 1
    <3>1. Len(strip) = Cardinality(Taken(slot)) + Cardinality(spinners)
      BY DEF Arranged
    <3> QED
      BY <2>4, <2>7, <3>1, TakenFinite
  <2>9. Without(strip, t) \in Seq(Tab) /\ Arranged(Without(strip, t), less, spinners)
    BY <2>3, <2>6, <2>7, <2>8, ArrangedWithout
  <2>10. Items(Without(strip, t)) = Items(strip) \ {t}
    BY <2>3, WithoutOne DEF Arranged
  <2> QED
    BY <2>3, <2>9, <2>10 DEF t, less
<1> QED
  BY <1>1, <1>2

\* An empty slot is filled and its tab comes.
LEMMA FillsSlot ==
  ASSUME NEW strip \in Seq(Tab), NEW slot \in [Kinds -> Slot], NEW spinners,
         Arranged(strip, slot, spinners), NEW kind \in Kinds, slot[kind] = Nothing, NEW seq \in Seqs
  PROVE  LET t == Built(kind, seq)
         IN  /\ Append(strip, t) \in Seq(Tab)
             /\ Arranged(Append(strip, t), [slot EXCEPT ![kind] = seq], spinners)
             /\ Items(Append(strip, t)) = Items(strip) \cup {t}
<1> DEFINE t == Built(kind, seq)
           more == [slot EXCEPT ![kind] = seq]
<1>1. t \in Tab /\ t.kind = kind /\ t.seq = seq /\ t.built /\ t.seq # Nothing
  BY TabTypes, TabFields, TabKinds
<1>2. t \notin Items(strip)
  BY <1>1 DEF Arranged, Known
<1>3. /\ more \in [Kinds -> Slot] /\ more[kind] = seq
      /\ \A k \in Kinds : k # kind => more[k] = slot[k]
      /\ Cardinality(Taken(more)) = Cardinality(Taken(slot)) + 1
  BY SlotFilled
<1>4. \A u \in Tab : u = t <=> u.built /\ u.kind = kind /\ u.seq = seq
  BY SlotsTab
<1> HIDE DEF t, more
<1>5. \A u \in Tab : Known(u, more, spinners) <=> Known(u, slot, spinners) \/ u = t
  BY <1>3, <1>4, TabKinds DEF Known
<1>6. IsFiniteSet(spinners) /\ Cardinality(spinners) \in Nat
  BY FS_CardinalityType DEF Arranged
<1>7. Cardinality(Taken(more)) + Cardinality(spinners) = Len(strip) + 1
  <2>1. Len(strip) = Cardinality(Taken(slot)) + Cardinality(spinners)
    BY DEF Arranged
  <2> QED
    BY <1>3, <1>6, <2>1, TakenFinite
<1>8. Append(strip, t) \in Seq(Tab) /\ Arranged(Append(strip, t), more, spinners)
  BY <1>1, <1>2, <1>5, <1>6, <1>7, ArrangedAppend
<1>9. Items(Append(strip, t)) = Items(strip) \cup {t}
  BY <1>1, <1>2, AppendOne DEF Arranged
<1> QED
  BY <1>8, <1>9 DEF t, more

LEMMA SpinnerComes ==
  ASSUME NEW strip \in Seq(Tab), NEW slot, NEW spinners, Arranged(strip, slot, spinners),
         NEW seq \in Seqs, seq \notin spinners
  PROVE  /\ Append(strip, Spinner(seq)) \in Seq(Tab)
         /\ Arranged(Append(strip, Spinner(seq)), slot, spinners \cup {seq})
<1> DEFINE t == Spinner(seq)
<1>1. t \in Tab /\ t.kind = "Data" /\ t.seq = seq /\ ~ t.built
  BY TabTypes, TabFields, "Data" \in Kinds DEF Kinds
<1>2. t \notin Items(strip)
  BY <1>1 DEF Arranged, Known
<1>3. \A u \in Tab : u = t <=> ~ u.built /\ u.kind = "Data" /\ u.seq = seq
  BY Spinners
<1> HIDE DEF t
<1>4. \A u \in Tab : Known(u, slot, spinners \cup {seq}) <=> Known(u, slot, spinners) \/ u = t
  BY <1>3, TabKinds DEF Known
<1>5. /\ IsFiniteSet(spinners \cup {seq}) /\ Cardinality(spinners) \in Nat
      /\ Cardinality(spinners \cup {seq}) = Cardinality(spinners) + 1
  BY FS_CardinalityType, FS_AddElement DEF Arranged
<1>6. Cardinality(Taken(slot)) + Cardinality(spinners \cup {seq}) = Len(strip) + 1
  <2>1. Len(strip) = Cardinality(Taken(slot)) + Cardinality(spinners)
    BY DEF Arranged
  <2> QED
    BY <1>5, <2>1, TakenFinite
<1>7. Append(strip, t) \in Seq(Tab) /\ Arranged(Append(strip, t), slot, spinners \cup {seq})
  BY <1>1, <1>2, <1>4, <1>5, <1>6, ArrangedAppend
<1> QED
  BY <1>7 DEF t

LEMMA SpinnerThere ==
  ASSUME NEW strip, NEW slot, NEW spinners, Arranged(strip, slot, spinners),
         NEW seq \in Seqs, seq \in spinners
  PROVE  Spinner(seq) \in Items(strip)
<1>1. Spinner(seq) \in Tab /\ Spinner(seq).kind = "Data" /\ Spinner(seq).seq = seq
      /\ ~ Spinner(seq).built
  BY TabTypes, TabFields, "Data" \in Kinds DEF Kinds
<1> QED
  BY <1>1 DEF Arranged, Known

LEMMA SpinnerGoes ==
  ASSUME NEW strip \in Seq(Tab), NEW slot, NEW spinners, Arranged(strip, slot, spinners),
         NEW seq \in Seqs, seq \in spinners
  PROVE  /\ Without(strip, Spinner(seq)) \in Seq(Tab)
         /\ Arranged(Without(strip, Spinner(seq)), slot, spinners \ {seq})
<1> DEFINE t == Spinner(seq)
<1>1. t \in Items(strip)
  BY SpinnerThere
<1>2. \A u \in Tab : u = t <=> ~ u.built /\ u.kind = "Data" /\ u.seq = seq
  BY Spinners
<1> HIDE DEF t
<1>3. \A u \in Tab : Known(u, slot, spinners \ {seq}) <=> Known(u, slot, spinners) /\ u # t
  BY <1>2, TabKinds DEF Known
<1>4. /\ IsFiniteSet(spinners \ {seq}) /\ Cardinality(spinners) \in Nat
      /\ Cardinality(spinners \ {seq}) = Cardinality(spinners) - 1
  BY FS_CardinalityType, FS_RemoveElement DEF Arranged
<1>5. Cardinality(Taken(slot)) + Cardinality(spinners \ {seq}) = Len(strip) - 1
  <2>1. Len(strip) = Cardinality(Taken(slot)) + Cardinality(spinners)
    BY DEF Arranged
  <2> QED
    BY <1>4, <2>1, TakenFinite
<1>6. Without(strip, t) \in Seq(Tab) /\ Arranged(Without(strip, t), slot, spinners \ {seq})
  BY <1>1, <1>3, <1>4, <1>5, ArrangedWithout
<1> QED
  BY <1>6 DEF t

LEMMA SpinnerIsBuilt ==
  ASSUME NEW strip \in Seq(Tab), NEW slot \in [Kinds -> Slot], NEW spinners,
         Arranged(strip, slot, spinners),
         NEW seq \in Seqs, seq \in spinners, slot["Data"] = Nothing
  PROVE  LET t == Spinner(seq)
             v == Built("Data", seq)
             r == Becoming(strip, t, v)
         IN  /\ r \in Seq(Tab)
             /\ Arranged(r, [slot EXCEPT !["Data"] = seq], spinners \ {seq})
             /\ Items(r) = (Items(strip) \ {t}) \cup {v}
<1> DEFINE t == Spinner(seq)
           v == Built("Data", seq)
           r == Becoming(strip, t, v)
           more == [slot EXCEPT !["Data"] = seq]
<1>1. t \in Items(strip)
  BY SpinnerThere
<1>2. "Data" \in Kinds
  BY DEF Kinds
<1>3. v \in Tab /\ v.kind = "Data" /\ v.seq = seq /\ v.built /\ v.seq # Nothing
  BY <1>2, TabTypes, TabFields, TabKinds
<1>4. v \notin Items(strip)
  BY <1>3 DEF Arranged, Known
<1>5. /\ more \in [Kinds -> Slot] /\ more["Data"] = seq
      /\ \A k \in Kinds : k # "Data" => more[k] = slot[k]
      /\ Cardinality(Taken(more)) = Cardinality(Taken(slot)) + 1
  BY <1>2, SlotFilled
<1>6. \A u \in Tab : u = t <=> ~ u.built /\ u.kind = "Data" /\ u.seq = seq
  BY Spinners
<1>7. \A u \in Tab : u = v <=> u.built /\ u.kind = "Data" /\ u.seq = seq
  BY <1>2, SlotsTab
<1> HIDE DEF t, v, more
<1>8. \A u \in Tab : Known(u, more, spinners \ {seq})
                        <=> (Known(u, slot, spinners) /\ u # t) \/ u = v
  BY <1>5, <1>6, <1>7, TabKinds DEF Known
<1>9. /\ IsFiniteSet(spinners \ {seq}) /\ Cardinality(spinners) \in Nat
      /\ Cardinality(spinners \ {seq}) = Cardinality(spinners) - 1
  BY FS_CardinalityType, FS_RemoveElement DEF Arranged
<1>10. Cardinality(Taken(more)) + Cardinality(spinners \ {seq}) = Len(strip)
  <2>1. Len(strip) = Cardinality(Taken(slot)) + Cardinality(spinners)
    BY DEF Arranged
  <2> QED
    BY <1>5, <1>9, <2>1, TakenFinite
<1>11. r \in Seq(Tab) /\ Arranged(r, more, spinners \ {seq}) /\ Items(r) = (Items(strip) \ {t}) \cup {v}
  <2>1. PICK rest : rest = spinners \ {seq}
    OBVIOUS
  <2>2. IsFiniteSet(rest) /\ v \in Tab
    BY <1>3, <1>9, <2>1
  <2>3. \A u \in Tab : Known(u, more, rest) <=> (Known(u, slot, spinners) /\ u # t) \/ u = v
    BY <1>8, <2>1
  <2>4. Cardinality(Taken(more)) + Cardinality(rest) = Len(strip)
    BY <1>10, <2>1
  <2>5. r \in Seq(Tab) /\ Arranged(r, more, rest) /\ Items(r) = (Items(strip) \ {t}) \cup {v}
    BY <1>1, <1>4, <2>2, <2>3, <2>4, ArrangedBecomes
  <2> QED
    BY <2>1, <2>5
<1> QED
  BY <1>11 DEF t, v, more

-----------------------------------------------------------------------------
(* The operations of the tab panel.                                        *)

Orderly(p, spinners) ==
    Arranged(p.strip, p.slot, spinners) /\ Held(p.active, p.strip)

LEMMA PaneFields ==
  ASSUME NEW p \in Pane
  PROVE  /\ p.strip \in Seq(Tab) /\ p.active \in Tab \cup {NoTab}
         /\ p.shown \in BOOLEAN /\ p.slot \in [Kinds -> Slot]
  BY DEF Pane

LEMMA ShowFields ==
  ASSUME NEW p \in Pane
  PROVE  /\ Show(p) \in Pane
         /\ Show(p).strip = p.strip /\ Show(p).active = p.active /\ Show(p).slot = p.slot
  BY DEF Pane, Show

LEMMA SelectFields ==
  ASSUME NEW p \in Pane, NEW t \in Tab \cup {NoTab}
  PROVE  /\ Select(p, t) \in Pane
         /\ Select(p, t).strip = p.strip /\ Select(p, t).active = t
         /\ Select(p, t).slot = p.slot
  BY DEF Pane, Select

LEMMA DropFields ==
  ASSUME NEW p \in Pane, NEW t \in Items(p.strip), Distinct(p.strip)
  PROVE  /\ Drop(p, t) \in Pane
         /\ Drop(p, t).strip = Without(p.strip, t)
         /\ Drop(p, t).slot = p.slot
         /\ p.active # t => Drop(p, t).active = p.active
         /\ Held(p.active, p.strip) => Held(Drop(p, t).active, Drop(p, t).strip)
<1> DEFINE rest == Without(p.strip, t)
           at == IndexOf(p.strip, t)
           neighbour == IF rest = <<>> THEN NoTab ELSE rest[IF at > 1 THEN at - 1 ELSE 1]
           d == Drop(p, t)
<1>1. /\ p.strip \in Seq(Tab) /\ p.active \in Tab \cup {NoTab}
      /\ p.shown \in BOOLEAN /\ p.slot \in [Kinds -> Slot]
  BY PaneFields
<1>2. /\ rest \in Seq(Tab) /\ Len(rest) = Len(p.strip) - 1
      /\ Items(rest) = Items(p.strip) \ {t}
  BY <1>1, WithoutOne
<1>3. at \in 1 .. Len(p.strip) /\ Len(p.strip) \in Nat
  <2>1. DOMAIN p.strip = 1 .. Len(p.strip) /\ Len(p.strip) \in Nat
    BY <1>1, LenProperties
  <2>2. \E i \in DOMAIN p.strip : p.strip[i] = t
    BY DEF Items
  <2> QED
    BY <2>1, <2>2 DEF IndexOf
<1>4. neighbour \in Items(rest) \cup {NoTab}
  <2>1. CASE rest = <<>>
    BY <2>1
  <2>2. CASE rest # <<>>
    <3> HIDE DEF rest, at
    <3>1. Len(rest) \in Nat \ {0} /\ DOMAIN rest = 1 .. Len(rest)
      BY <1>2, <2>2, EmptySeq, LenProperties
    <3>2. (IF at > 1 THEN at - 1 ELSE 1) \in DOMAIN rest
      <4>1. Len(p.strip) - 1 >= 1 /\ DOMAIN rest = 1 .. Len(p.strip) - 1
        <5>1. Len(rest) = Len(p.strip) - 1
          BY <1>2
        <5>2. Len(rest) >= 1
          BY <3>1
        <5>3. DOMAIN rest = 1 .. Len(rest)
          BY <3>1
        <5> QED
          BY <5>1, <5>2, <5>3
      <4>2. (IF at > 1 THEN at - 1 ELSE 1) \in 1 .. Len(p.strip) - 1
        BY <1>3, <4>1
      <4> QED
        BY <4>1, <4>2
    <3> QED
      BY <2>2, <3>2 DEF Items
  <2> QED
    BY <2>1, <2>2
<1>5. d = [p EXCEPT !.strip = rest,
                    !.active = IF @ = t THEN neighbour ELSE @,
                    !.shown = @ /\ rest # <<>>]
  BY DEF Drop
<1> HIDE DEF rest, at, neighbour, d
<1>6. PICK shown \in BOOLEAN : d = [p EXCEPT !.strip = rest,
                                            !.active = IF @ = t THEN neighbour ELSE @,
                                            !.shown = shown]
  BY <1>1, <1>5
<1>7. neighbour \in Tab \cup {NoTab}
  BY <1>2, <1>4, StripItems
<1>8. /\ d \in Pane /\ d.strip = rest /\ d.slot = p.slot
      /\ d.active = IF p.active = t THEN neighbour ELSE p.active
  BY <1>1, <1>2, <1>6, <1>7 DEF Pane
<1>9. Held(p.active, p.strip) => Held(d.active, d.strip)
  <2>1. CASE p.active = t
    BY <1>4, <1>8, <2>1, TabFields DEF Held
  <2>2. CASE p.active # t
    BY <1>2, <1>8, <2>2 DEF Held
  <2> QED
    BY <2>1, <2>2
<1> QED
  BY <1>8, <1>9 DEF d, rest

LEMMA RemoveTabFields ==
  ASSUME NEW p \in Pane, NEW kind \in Kinds, NEW spinners, Orderly(p, spinners)
  PROVE  LET r == RemoveTab(p, kind)
         IN  /\ r \in Pane
             /\ Orderly(r, spinners)
             /\ r.slot = [p.slot EXCEPT ![kind] = Nothing]
             /\ p.active # Built(kind, p.slot[kind]) => r.active = p.active
<1> DEFINE t == Built(kind, p.slot[kind])
           d == Drop(p, t)
           r == [d EXCEPT !.slot[kind] = Nothing]
           less == [p.slot EXCEPT ![kind] = Nothing]
<1>1. p.strip \in Seq(Tab) /\ p.slot \in [Kinds -> Slot]
  BY PaneFields
<1>2. CASE p.slot[kind] = Nothing
  <2>1. less = p.slot
    BY <1>1, <1>2
  <2> QED
    BY <1>2, <2>1 DEF RemoveTab
<1>3. CASE p.slot[kind] # Nothing
  <2>1. RemoveTab(p, kind) = r
    BY <1>3 DEF RemoveTab
  <2>2. t \in Items(p.strip) /\ Arranged(Without(p.strip, t), less, spinners)
    BY <1>1, <1>3, ClearsSlot DEF Orderly
  <2> HIDE DEF t
  <2>3. /\ d \in Pane /\ d.strip = Without(p.strip, t) /\ d.slot = p.slot
        /\ p.active # t => d.active = p.active
        /\ Held(d.active, d.strip)
    BY <2>2, DropFields DEF Orderly, Arranged
  <2> HIDE DEF d
  <2>4. less \in [Kinds -> Slot]
    BY <1>1, <1>3, SlotCleared
  <2>5. r \in Pane /\ r.strip = d.strip /\ r.active = d.active /\ r.slot = less
    <3>1. [d.slot EXCEPT ![kind] = Nothing] = less
      BY <2>3
    <3>2. r = [d EXCEPT !.slot = less]
      BY <2>3, <3>1 DEF Pane
    <3> HIDE DEF r, less
    <3> QED
      BY <2>3, <2>4, <3>2 DEF Pane
  <2> HIDE DEF r, less
  <2> QED
    BY <2>1, <2>2, <2>3, <2>5 DEF Orderly, t, less
<1> QED
  BY <1>2, <1>3

LEMMA SwapTabFields ==
  ASSUME NEW p \in Pane, NEW kind \in Kinds, NEW seq \in Seqs, NEW spinners,
         Arranged(p.strip, p.slot, spinners)
  PROVE  LET s == SwapTab(p, kind, seq)
         IN  /\ s \in Pane
             /\ Arranged(s.strip, s.slot, spinners)
             /\ s.slot = [p.slot EXCEPT ![kind] = seq]
             /\ s.active = p.active
             /\ Items(s.strip) = (Items(p.strip) \ {Built(kind, p.slot[kind])})
                                    \cup {Built(kind, seq)}
<1> DEFINE t == Built(kind, p.slot[kind])
           v == Built(kind, seq)
           strip == Append(Without(p.strip, t), v)
           less == [p.slot EXCEPT ![kind] = Nothing]
           more == [p.slot EXCEPT ![kind] = seq]
           s == SwapTab(p, kind, seq)
<1>1. p.strip \in Seq(Tab) /\ p.slot \in [Kinds -> Slot]
  BY PaneFields
<1>2. /\ Without(p.strip, t) \in Seq(Tab)
      /\ Arranged(Without(p.strip, t), less, spinners)
      /\ Items(Without(p.strip, t)) = Items(p.strip) \ {t}
  BY <1>1, ClearsSlot
<1>3. less \in [Kinds -> Slot] /\ less[kind] = Nothing
  BY <1>1 DEF Slot
<1>4. [less EXCEPT ![kind] = seq] = more
  BY <1>1
<1>5. more \in [Kinds -> Slot]
  BY <1>1 DEF Slot
<1> HIDE DEF less, t
<1>6. /\ strip \in Seq(Tab) /\ Arranged(strip, more, spinners)
      /\ Items(strip) = (Items(p.strip) \ {t}) \cup {v}
  <2> HIDE DEF more
  <2> QED
    BY <1>2, <1>3, <1>4, FillsSlot
<1>7. s = [p EXCEPT !.strip = strip, !.slot[kind] = seq]
  BY DEF SwapTab, t
<1> HIDE DEF strip, s, v
<1>8. s = [p EXCEPT !.strip = strip, !.slot = more]
  BY <1>7 DEF Pane
<1> HIDE DEF more
<1>9. s \in Pane /\ s.strip = strip /\ s.slot = more /\ s.active = p.active
  BY <1>5, <1>6, <1>8 DEF Pane
<1> QED
  BY <1>6, <1>9 DEF s, more, t, v

LEMMA OpenTabFields ==
  ASSUME NEW p \in Pane, NEW kind \in Kinds, NEW seq \in Seqs, NEW spinners,
         Orderly(p, spinners)
  PROVE  LET o == OpenTab(p, kind, seq)
         IN  /\ o \in Pane
             /\ Orderly(o, spinners)
             /\ o.slot = [p.slot EXCEPT ![kind] = seq]
             /\ o.active = Built(kind, seq)
<1> DEFINE h == Show(p)
           s == SwapTab(h, kind, seq)
           v == Built(kind, seq)
<1>1. h \in Pane /\ h.strip = p.strip /\ h.slot = p.slot
  BY ShowFields
<1> HIDE DEF h
<1>2. /\ s \in Pane /\ Arranged(s.strip, s.slot, spinners)
      /\ s.slot = [p.slot EXCEPT ![kind] = seq]
      /\ v \in Items(s.strip)
  <2>1. Arranged(h.strip, h.slot, spinners)
    BY <1>1 DEF Orderly
  <2> QED
    BY <1>1, <2>1, SwapTabFields
<1> HIDE DEF s
<1>3. v \in Tab
  BY TabTypes
<1> HIDE DEF v
<1>4. OpenTab(p, kind, seq) = Select(s, v)
  BY DEF OpenTab, s, h, v
<1>5. /\ Select(s, v) \in Pane /\ Select(s, v).strip = s.strip
      /\ Select(s, v).slot = s.slot /\ Select(s, v).active = v
  BY <1>2, <1>3, SelectFields
<1>6. Held(v, s.strip)
  BY <1>2 DEF Held
<1> QED
  BY <1>2, <1>4, <1>5, <1>6 DEF Orderly, v

-----------------------------------------------------------------------------
(* Calls: each has its own number, and no number is newer than runSeq.     *)

Pending == {c.seq : c \in {d \in calls : d.kind = "first run"}} \cup {a.seq : a \in arrived}

Numbered ==
    /\ runSeq <= moves
    /\ \A c \in calls : c.seq <= runSeq
    /\ \A a \in arrived : a.seq <= runSeq
    /\ \A c, d \in calls : c.seq = d.seq => c = d
    /\ \A a, b \in arrived : a.seq = b.seq => a = b
    /\ \A c \in calls, a \in arrived : c.seq # a.seq

CallsInv ==
    /\ runSeq \in 0 .. Moves /\ moves \in 0 .. Moves
    /\ calls \subseteq Call
    /\ arrived \subseteq [seq : Seqs, outcome : Outcomes]
    /\ Numbered

LEMMA CallFields ==
  ASSUME CallsInv
  PROVE  /\ \A c \in calls : c.seq \in Seqs /\ c.seq \in Nat
         /\ \A a \in arrived : a.seq \in Seqs /\ a.seq \in Nat /\ a.outcome \in Outcomes
         /\ runSeq \in Nat /\ moves \in Nat
<1>1. /\ runSeq \in 0 .. Moves /\ moves \in 0 .. Moves
      /\ calls \subseteq Call
      /\ arrived \subseteq [seq : Seqs, outcome : Outcomes]
  BY DEF CallsInv
<1>2. Seqs \subseteq Nat
  BY MovesAssumption DEF Seqs
<1>3. \A c \in calls : c.seq \in Seqs
  BY <1>1 DEF Call
<1>4. \A a \in arrived : a.seq \in Seqs /\ a.outcome \in Outcomes
  BY <1>1
<1>5. runSeq \in Nat /\ moves \in Nat
  BY <1>1, MovesAssumption
<1> QED
  BY <1>2, <1>3, <1>4, <1>5

LEMMA PendingFacts ==
  ASSUME CallsInv
  PROVE  /\ Pending \subseteq Seqs
         /\ \A n \in Pending : n <= runSeq
         /\ \A c \in calls : c.seq \in Pending <=> c.kind = "first run"
         /\ \A a \in arrived : a.seq \in Pending
  BY CallFields DEF CallsInv, Numbered, Pending

LEMMA Counts ==
  ASSUME NEW m \in 0 .. Moves, NEW r \in Nat, r <= m, m < Moves
  PROVE  r + 1 \in Seqs /\ r + 1 \in 0 .. Moves /\ m + 1 \in 0 .. Moves /\ r + 1 <= m + 1
  BY MovesAssumption DEF Seqs

LEMMA Later ==
  ASSUME NEW n \in Nat, NEW r \in Nat, n <= r
  PROVE  n <= r + 1 /\ n # r + 1
  OBVIOUS

\* A new call is the newest.
LEMMA StartsCall ==
  ASSUME CallsInv, Moved, runSeq' = runSeq + 1, arrived' = arrived,
         NEW new, calls' = calls \cup {new},
         new.seq = runSeq + 1, runSeq + 1 \in Seqs => new \in Call
  PROVE  /\ CallsInv'
         /\ runSeq' \in Seqs
         /\ Pending' = IF new.kind = "first run" THEN Pending \cup {runSeq'} ELSE Pending
         /\ runSeq' \notin Pending
         /\ \A c \in calls' : c.seq = runSeq' => c = new
<1>1. /\ runSeq \in Nat /\ moves \in 0 .. Moves /\ runSeq <= moves
      /\ moves < Moves /\ moves' = moves + 1
  BY CallFields DEF CallsInv, Numbered, Moved
<1>2. /\ runSeq + 1 \in Seqs /\ runSeq + 1 \in 0 .. Moves
      /\ moves + 1 \in 0 .. Moves /\ runSeq + 1 <= moves + 1
  BY <1>1, Counts
<1>3. PICK r, m : r = runSeq + 1 /\ m = moves + 1
  OBVIOUS
<1>4. /\ r \in Seqs /\ r \in 0 .. Moves /\ m \in 0 .. Moves /\ r <= m /\ r <= r
      /\ runSeq' = r /\ moves' = m /\ new.seq = r /\ new \in Call
  <2>1. r <= r
    BY <1>1, <1>3
  <2> QED
    BY <1>1, <1>2, <1>3, <2>1
<1>5. \A c \in calls : c.seq <= r /\ c.seq # r
  <2> SUFFICES ASSUME NEW c \in calls PROVE c.seq <= r /\ c.seq # r
    OBVIOUS
  <2>1. c.seq \in Nat /\ c.seq <= runSeq
    BY CallFields DEF CallsInv, Numbered
  <2> QED
    BY <1>1, <1>3, <2>1, Later
<1>6. \A a \in arrived : a.seq <= r /\ a.seq # r
  <2> SUFFICES ASSUME NEW a \in arrived PROVE a.seq <= r /\ a.seq # r
    OBVIOUS
  <2>1. a.seq \in Nat /\ a.seq <= runSeq
    BY CallFields DEF CallsInv, Numbered
  <2> QED
    BY <1>1, <1>3, <2>1, Later
<1>7. Numbered'
  <2>1. \A c \in calls' : c.seq <= runSeq'
    BY <1>4, <1>5
  <2>2. \A a \in arrived' : a.seq <= runSeq'
    BY <1>4, <1>6
  <2>3. \A c, d \in calls' : c.seq = d.seq => c = d
    BY <1>4, <1>5 DEF CallsInv, Numbered
  <2>4. \A c \in calls', a \in arrived' : c.seq # a.seq
    BY <1>4, <1>6 DEF CallsInv, Numbered
  <2>5. \A a, b \in arrived' : a.seq = b.seq => a = b
    BY DEF CallsInv, Numbered
  <2> QED
    BY <1>4, <2>1, <2>2, <2>3, <2>4, <2>5 DEF Numbered
<1>8. CallsInv'
  BY <1>4, <1>7 DEF CallsInv
<1>9. Pending' = IF new.kind = "first run" THEN Pending \cup {runSeq'} ELSE Pending
  BY <1>4 DEF Pending
<1>10. runSeq' \notin Pending
  BY <1>4, <1>5, <1>6 DEF Pending
<1>11. \A c \in calls' : c.seq = runSeq' => c = new
  BY <1>4, <1>5
<1> QED
  BY <1>4, <1>8, <1>9, <1>10, <1>11

\* A call ends.
LEMMA EndsCall ==
  ASSUME CallsInv, NEW c \in calls, calls' = calls \ {c},
         UNCHANGED <<arrived, runSeq, moves>>
  PROVE  /\ CallsInv'
         /\ Pending' = IF c.kind = "first run" THEN Pending \ {c.seq} ELSE Pending
         /\ c.seq = runSeq => \A d \in calls' : d.seq # runSeq'
<1>1. CallsInv'
  BY DEF CallsInv, Numbered
<1>2. \A d \in calls : d # c => d.seq # c.seq
  BY DEF CallsInv, Numbered
<1>3. \A a \in arrived : a.seq # c.seq
  BY DEF CallsInv, Numbered
<1>4. Pending' = IF c.kind = "first run" THEN Pending \ {c.seq} ELSE Pending
  <2>1. CASE c.kind = "first run"
    <3>1. ASSUME NEW n \in Pending, n # c.seq PROVE n \in Pending'
      BY <3>1 DEF Pending
    <3>2. Pending' \subseteq Pending
      BY DEF Pending
    <3>3. c.seq \notin Pending'
      BY <1>2, <1>3 DEF Pending
    <3> QED
      BY <2>1, <3>1, <3>2, <3>3
  <2>2. CASE c.kind # "first run"
    <3>1. ASSUME NEW n \in Pending PROVE n \in Pending'
      BY <2>2, <3>1 DEF Pending
    <3>2. Pending' \subseteq Pending
      BY DEF Pending
    <3> QED
      BY <2>2, <3>1, <3>2
  <2> QED
    BY <2>1, <2>2
<1> QED
  BY <1>1, <1>2, <1>4

\* An answer comes before the frame of its spinner.
LEMMA EarlyCall ==
  ASSUME CallsInv, NEW c \in calls, c.kind = "first run", NEW outcome \in Outcomes,
         calls' = calls \ {c}, arrived' = arrived \cup {[seq |-> c.seq, outcome |-> outcome]},
         UNCHANGED <<runSeq, moves>>
  PROVE  CallsInv' /\ Pending' = Pending
<1> DEFINE new == [seq |-> c.seq, outcome |-> outcome]
<1>1. new \in [seq : Seqs, outcome : Outcomes] /\ new.seq = c.seq
  BY CallFields
<1>2. arrived' = arrived \cup {new}
  OBVIOUS
<1> HIDE DEF new
<1>3. \A d \in calls : d # c => d.seq # c.seq
  BY DEF CallsInv, Numbered
<1>4. \A a \in arrived : a.seq # c.seq
  BY DEF CallsInv, Numbered
<1>5. Numbered'
  <2>1. \A d \in calls', a \in arrived' : d.seq # a.seq
    BY <1>1, <1>2, <1>3 DEF CallsInv, Numbered
  <2>2. \A a, b \in arrived' : a.seq = b.seq => a = b
    BY <1>1, <1>2, <1>4 DEF CallsInv, Numbered
  <2>3. \A a \in arrived' : a.seq <= runSeq'
    BY <1>1, <1>2 DEF CallsInv, Numbered
  <2> QED
    BY <2>1, <2>2, <2>3 DEF CallsInv, Numbered
<1>6. CallsInv'
  BY <1>1, <1>2, <1>5 DEF CallsInv
<1>7. Pending' = Pending
  BY <1>1, <1>2 DEF Pending
<1> QED
  BY <1>6, <1>7

\* The factory of a spinner takes an answer that arrived.
LEMMA TakesArrived ==
  ASSUME CallsInv, NEW a \in arrived, arrived' = arrived \ {a},
         UNCHANGED <<calls, runSeq, moves>>
  PROVE  /\ CallsInv'
         /\ Pending' = Pending \ {a.seq}
         /\ \A c \in calls : c.seq # a.seq
<1>1. CallsInv'
  BY DEF CallsInv, Numbered
<1>2. \A b \in arrived : b # a => b.seq # a.seq
  BY DEF CallsInv, Numbered
<1>3. \A c \in calls : c.seq # a.seq
  BY DEF CallsInv, Numbered
<1>4. Pending' = Pending \ {a.seq}
  BY <1>2, <1>3 DEF Pending
<1> QED
  BY <1>1, <1>3, <1>4

\* The diagram call goes on as a call for advice.
LEMMA AsksAdvice ==
  ASSUME CallsInv, NEW c \in calls, AskAdvice(c)
  PROVE  /\ CallsInv' /\ Pending' = Pending
         /\ \A d \in calls' : d.kind = "re-run" => d \in calls
<1> DEFINE new == [c EXCEPT !.kind = "advice"]
<1>1. /\ c.kind = "diagram" /\ calls' = (calls \ {c}) \cup {new}
      /\ arrived' = arrived /\ runSeq' = runSeq /\ moves' = moves
  BY DEF AskAdvice
<1>2. new \in Call /\ new.seq = c.seq /\ new.kind = "advice"
  BY DEF CallsInv, Call
<1> HIDE DEF new
<1>3. Numbered'
  <2>1. \A d \in calls' : d.seq <= runSeq'
    BY <1>1, <1>2 DEF CallsInv, Numbered
  <2>2. \A d, e \in calls' : d.seq = e.seq => d = e
    BY <1>1, <1>2 DEF CallsInv, Numbered
  <2>3. \A d \in calls', a \in arrived' : d.seq # a.seq
    BY <1>1, <1>2 DEF CallsInv, Numbered
  <2> QED
    BY <1>1, <2>1, <2>2, <2>3 DEF CallsInv, Numbered
<1>4. CallsInv'
  BY <1>1, <1>2, <1>3 DEF CallsInv
<1>5. Pending' = Pending
  BY <1>1, <1>2 DEF Pending
<1> QED
  BY <1>1, <1>2, <1>4, <1>5

\* A step of the user that makes no call, or a panel cleared.
LEMMA MovesOn ==
  ASSUME CallsInv, Moved, UNCHANGED <<calls, arrived>>, runSeq' \in {runSeq, runSeq + 1}
  PROVE  /\ CallsInv' /\ Pending' = Pending
         /\ runSeq' = runSeq + 1 =>
               runSeq' \notin Pending' /\ \A c \in calls' : c.seq # runSeq'
<1>1. /\ runSeq \in Nat /\ moves \in Nat /\ runSeq <= moves
      /\ moves \in 0 .. Moves /\ moves < Moves /\ moves' = moves + 1
  BY CallFields DEF CallsInv, Numbered, Moved
<1>2. runSeq' \in 0 .. Moves /\ moves' \in 0 .. Moves /\ runSeq' <= moves' /\ runSeq <= runSeq'
  BY <1>1, MovesAssumption
<1>3. \A c \in calls : c.seq \in Nat /\ c.seq <= runSeq
  BY CallFields DEF CallsInv, Numbered
<1>4. \A a \in arrived : a.seq \in Nat /\ a.seq <= runSeq
  BY CallFields DEF CallsInv, Numbered
<1>5. Numbered'
  <2>1. \A c \in calls' : c.seq <= runSeq'
    BY <1>1, <1>2, <1>3
  <2>2. \A a \in arrived' : a.seq <= runSeq'
    BY <1>1, <1>2, <1>4
  <2> QED
    BY <1>2, <2>1, <2>2 DEF CallsInv, Numbered
<1>6. CallsInv'
  BY <1>2, <1>5 DEF CallsInv
<1>7. Pending' = Pending
  BY DEF Pending
<1>8. ASSUME runSeq' = runSeq + 1
      PROVE  runSeq' \notin Pending' /\ \A c \in calls' : c.seq # runSeq'
  <2>1. \A c \in calls : c.seq # runSeq'
    BY <1>1, <1>3, <1>8
  <2>2. \A a \in arrived : a.seq # runSeq'
    BY <1>1, <1>4, <1>8
  <2> QED
    BY <1>7, <2>1, <2>2 DEF Pending
<1> QED
  BY <1>6, <1>7, <1>8

-----------------------------------------------------------------------------
(* What Export offers.                                                     *)

Follows(p, e) ==
    p.active.built => e = ExportOf(p) \/ (e.kind = "rows" /\ p.slot["Data"] = Nothing)

LEMMA ExportTyped ==
  ASSUME NEW p \in Pane
  PROVE  ExportOf(p) \in Export
<1> DEFINE t == p.active
<1>1. CASE ~ t.built \/ p.slot[t.kind] # t.seq \/ t.kind = "Diagram"
  BY <1>1 DEF ExportOf, Export
<1>2. CASE ~ (~ t.built \/ p.slot[t.kind] # t.seq \/ t.kind = "Diagram")
  <2>1. t \in Tab
    BY <1>2, PaneFields, TabFields
  <2>2. ExportOf(p) = [kind |-> IF t.kind = "Explain" THEN "plan" ELSE "rows", seq |-> t.seq]
    BY <1>2 DEF ExportOf
  <2> QED
    BY <2>1, <2>2, TabKinds DEF Export
<1> QED
  BY <1>1, <1>2

\* Export depends on the active tab and on its own slot.
LEMMA ExportSame ==
  ASSUME NEW p, NEW q, q.active = p.active,
         p.active.built => q.slot[p.active.kind] = p.slot[p.active.kind]
  PROVE  ExportOf(q) = ExportOf(p)
  BY DEF ExportOf

\* A built tab on screen is the tab of its slot.
LEMMA OnScreen ==
  ASSUME NEW p \in Pane, NEW spinners, Orderly(p, spinners), p.active.built
  PROVE  /\ p.active \in Tab /\ p.active.kind \in Kinds
         /\ p.slot[p.active.kind] = p.active.seq /\ p.active.seq # Nothing
         /\ p.active = Built(p.active.kind, p.slot[p.active.kind])
<1>1. p.active \in Tab
  BY PaneFields, TabFields
<1>2. p.active \in Items(p.strip)
  BY DEF Orderly, Held
<1>3. Known(p.active, p.slot, spinners)
  BY <1>1, <1>2 DEF Orderly, Arranged
<1> QED
  BY <1>1, <1>3, TabKinds, TabIs DEF Known

\* While no other tab comes to the screen, Export may stay as it is.
LEMMA StaysFollowed ==
  ASSUME NEW p \in Pane, NEW q \in Pane, NEW e, p.active.built => e = ExportOf(p),
         q.active = p.active,
         p.active.built => q.slot[p.active.kind] = p.slot[p.active.kind]
  PROVE  q.active.built => e = ExportOf(q)
  BY ExportSame

-----------------------------------------------------------------------------
(* The spinners and the strip at the end of a call.                        *)

LEMMA BuildsFields ==
  ASSUME pane \in Pane, NEW spinners, Orderly(pane, spinners),
         NEW seq \in Seqs, seq \in spinners, pane.slot["Data"] = Nothing,
         SpinnerBuilds(seq)
  PROVE  /\ pane' \in Pane /\ Orderly(pane', spinners \ {seq})
         /\ pane'.slot = [pane.slot EXCEPT !["Data"] = seq]
         /\ pane.active = Spinner(seq) => export' = ExportOf(pane')
         /\ pane.active # Spinner(seq) => export' = export /\ pane'.active = pane.active
<1> DEFINE t == Spinner(seq)
           v == Built("Data", seq)
           strip == Becoming(pane.strip, t, v)
           active == IF pane.active = t THEN v ELSE pane.active
           more == [pane.slot EXCEPT !["Data"] = seq]
<1>1. /\ pane.strip \in Seq(Tab) /\ pane.active \in Tab \cup {NoTab}
      /\ pane.shown \in BOOLEAN /\ pane.slot \in [Kinds -> Slot]
  BY PaneFields
<1>2. "Data" \in Kinds
  BY DEF Kinds
<1>3. pane' = [pane EXCEPT !.strip = strip, !.active = active, !.slot["Data"] = seq]
  BY DEF SpinnerBuilds, Becoming
<1>4. v \in Tab
  BY <1>2, TabTypes
<1>5. /\ strip \in Seq(Tab) /\ Arranged(strip, more, spinners \ {seq})
      /\ Items(strip) = (Items(pane.strip) \ {t}) \cup {v}
  BY <1>1, SpinnerIsBuilt DEF Orderly
<1>6. more \in [Kinds -> Slot]
  BY <1>1 DEF Slot
<1>7. active \in Tab \cup {NoTab} /\ Held(active, strip)
  <2>1. CASE pane.active = t
    BY <1>4, <1>5, <2>1 DEF Held
  <2>2. CASE pane.active # t
    BY <1>1, <1>5, <2>2 DEF Orderly, Held
  <2> QED
    BY <2>1, <2>2
<1>8. export' = IF pane.active = t THEN ExportOf(pane') ELSE export
  BY DEF SpinnerBuilds
<1>9. pane.active # t => active = pane.active
  OBVIOUS
<1> HIDE DEF t, v, strip, active
<1>10. pane' = [pane EXCEPT !.strip = strip, !.active = active, !.slot = more]
  BY <1>3 DEF Pane
<1> HIDE DEF more
<1>11. /\ pane' \in Pane /\ pane'.strip = strip /\ pane'.active = active
       /\ pane'.slot = more
  BY <1>5, <1>6, <1>7, <1>10 DEF Pane
<1> QED
  BY <1>5, <1>7, <1>8, <1>9, <1>11 DEF Orderly, t, more

LEMMA ClosesFields ==
  ASSUME pane \in Pane, NEW spinners, Orderly(pane, spinners),
         NEW seq \in Seqs, seq \in spinners, SpinnerCloses(seq)
  PROVE  /\ pane' \in Pane /\ Orderly(pane', spinners \ {seq})
         /\ pane'.slot = pane.slot
         /\ export' = ExportOf(pane')
         /\ pane.active.built => pane'.active = pane.active
<1> DEFINE t == Spinner(seq)
<1>1. pane.strip \in Seq(Tab) /\ Arranged(pane.strip, pane.slot, spinners)
  BY PaneFields DEF Orderly
<1>2. t \in Items(pane.strip) /\ ~ t.built
  BY <1>1, SpinnerThere, TabFields
<1>3. Arranged(Without(pane.strip, t), pane.slot, spinners \ {seq})
  BY <1>1, SpinnerGoes
<1>4. pane' = Drop(pane, t) /\ export' = ExportOf(pane')
  BY DEF SpinnerCloses
<1> HIDE DEF t
<1>5. /\ pane' \in Pane /\ pane'.strip = Without(pane.strip, t) /\ pane'.slot = pane.slot
      /\ pane.active # t => pane'.active = pane.active
      /\ Held(pane'.active, pane'.strip)
  BY <1>1, <1>2, <1>4, DropFields DEF Orderly, Arranged
<1> QED
  BY <1>2, <1>3, <1>4, <1>5 DEF Orderly

-----------------------------------------------------------------------------
(* The invariant.                                                          *)

\* The newest call, while it is a first run, finds its Data slot empty and
\* Export on the tab on screen; while it is a re-run, it finds the Data tab.
Newest ==
    /\ runSeq \in Pending =>
          pane.slot["Data"] = Nothing /\ (pane.active.built => export = ExportOf(pane))
    /\ \A c \in calls : c.kind = "re-run" /\ c.seq = runSeq => pane.slot["Data"] # Nothing

PanelInv ==
    /\ CallsInv
    /\ pane \in Pane
    /\ Orderly(pane, Pending)
    /\ export \in Export
    /\ Follows(pane, export)
    /\ pendingDataTabs = Cardinality(Pending)
    /\ Newest

\* What the pane keeps when no spinner comes or goes.
LEMMA PaneKept ==
  ASSUME PanelInv, UNCHANGED <<pane, export, pendingDataTabs>>, CallsInv', Pending' = Pending,
         runSeq' \in Pending' => runSeq' = runSeq,
         \A c \in calls' : c.kind = "re-run" /\ c.seq = runSeq' => c \in calls /\ runSeq' = runSeq
  PROVE  PanelInv'
<1>1. Orderly(pane', Pending') /\ Follows(pane', export')
  BY DEF PanelInv
<1>2. ExportOf(pane)' = ExportOf(pane)
  BY DEF ExportOf
<1>3. Newest'
  BY <1>2 DEF PanelInv, Newest
<1> QED
  BY <1>1, <1>3 DEF PanelInv

LEMMA InitPanel ==
  ASSUME Init
  PROVE  PanelInv
<1>1. runSeq = 0 /\ moves = 0 /\ calls = {} /\ arrived = {} /\ export = NoExport
  BY DEF Init
<1>2. CallsInv
  BY <1>1, MovesAssumption DEF CallsInv, Numbered
<1>3. Pending = {}
  BY <1>1 DEF Pending
<1>4. /\ pane.strip = <<>> /\ pane.active = NoTab /\ pane.shown = FALSE
      /\ pane.slot = [k \in Kinds |-> Nothing]
  BY DEF Init
<1>5. pane \in Pane
  <2>1. [k \in Kinds |-> Nothing] \in [Kinds -> Slot]
    BY DEF Slot
  <2>2. <<>> \in Seq(Tab) /\ NoTab \in Tab \cup {NoTab}
    OBVIOUS
  <2>3. PICK none : none = [k \in Kinds |-> Nothing]
    OBVIOUS
  <2>4. pane = [strip |-> <<>>, active |-> NoTab, shown |-> FALSE, slot |-> none]
    BY <2>3 DEF Init
  <2> QED
    BY <2>1, <2>2, <2>3, <2>4 DEF Pane
<1>6. Orderly(pane, Pending)
  <2>1. Taken(pane.slot) = {}
    BY <1>4 DEF Taken
  <2>2. Items(pane.strip) = {} /\ Distinct(pane.strip) /\ Len(pane.strip) = 0
    BY <1>4 DEF Items, Distinct
  <2>3. IsFiniteSet({}) /\ Cardinality({}) = 0
    BY FS_EmptySet
  <2>4. \A t \in Tab : ~ Known(t, pane.slot, Pending)
    BY <1>3, <1>4, TabKinds DEF Known
  <2>5. Held(pane.active, pane.strip)
    BY <1>4, TabFields DEF Held
  <2>6. Len(pane.strip) = Cardinality(Taken(pane.slot)) + Cardinality(Pending)
    BY <1>3, <2>1, <2>2, <2>3
  <2>7. Arranged(pane.strip, pane.slot, Pending)
    BY <1>3, <2>2, <2>3, <2>4, <2>6 DEF Arranged
  <2> QED
    BY <2>5, <2>7 DEF Orderly
<1>7. Follows(pane, export) /\ Newest /\ export \in Export
  <2>1. ~ pane.active.built
    BY <1>4, TabFields
  <2> QED
    BY <1>1, <1>3, <2>1 DEF Follows, Newest, Export
<1>8. pendingDataTabs = Cardinality(Pending)
  BY <1>3, FS_EmptySet DEF Init
<1> QED
  BY <1>2, <1>5, <1>6, <1>7, <1>8 DEF PanelInv

-----------------------------------------------------------------------------
(* What the user does.                                                     *)

\* What a new call does to the calls.
LEMMA NewCall ==
  ASSUME PanelInv, NEW kind, kind \in {"first run", "re-run", "explain", "diagram"},
         StartCall(kind)
  PROVE  /\ CallsInv' /\ runSeq' \in Seqs /\ runSeq' = runSeq + 1
         /\ Pending' = IF kind = "first run" THEN Pending \cup {runSeq'} ELSE Pending
         /\ runSeq' \notin Pending
         /\ \A c \in calls' : c.seq = runSeq' => c.kind = kind
<1>1. PICK new : new = [seq |-> runSeq + 1, kind |-> kind]
  OBVIOUS
<1>2. /\ Moved /\ runSeq' = runSeq + 1 /\ arrived' = arrived
      /\ calls' = calls \cup {new} /\ new.seq = runSeq + 1 /\ new.kind = kind
  BY <1>1 DEF StartCall
<1>3. runSeq + 1 \in Seqs => new \in Call
  BY <1>1 DEF Call
<1>4. CallsInv
  BY DEF PanelInv
<1> QED
  BY <1>2, <1>3, <1>4, StartsCall

LEMMA FirstRunStep ==
  ASSUME PanelInv, FirstRun
  PROVE  PanelInv'
<1> DEFINE strip == Append(pane.strip, Spinner(runSeq + 1))
           last == Len(strip) - 1
           index == IF InsertIndex < last THEN InsertIndex ELSE last
<1>1. /\ CallsInv' /\ runSeq' \in Seqs /\ runSeq' = runSeq + 1
      /\ Pending' = Pending \cup {runSeq'} /\ runSeq' \notin Pending
      /\ \A c \in calls' : c.seq = runSeq' => c.kind = "first run"
  BY NewCall DEF FirstRun
<1>2. pane \in Pane /\ Orderly(pane, Pending) /\ pendingDataTabs = Cardinality(Pending)
  BY DEF PanelInv
<1>3. PICK t : t = Spinner(runSeq')
  OBVIOUS
<1>4. t \in Tab /\ ~ t.built
  BY <1>1, <1>3, TabTypes, TabFields, "Data" \in Kinds DEF Kinds
<1>5. pane.strip \in Seq(Tab) /\ pane.slot \in [Kinds -> Slot] /\ pane.shown \in BOOLEAN
  BY <1>2, PaneFields
<1>6. strip = Append(pane.strip, t)
  BY <1>1, <1>3
<1>7. strip \in Seq(Tab) /\ Arranged(strip, pane.slot, Pending \cup {runSeq'})
  BY <1>1, <1>2, <1>3, <1>5, <1>6, SpinnerComes DEF Orderly
<1>8. Len(strip) = Len(pane.strip) + 1 /\ strip[Len(pane.strip) + 1] = t
  BY <1>4, <1>5, <1>6, AppendProperties
<1>9. strip[index + 1] = t
  <2>1. Len(pane.strip) = Cardinality(Taken(pane.slot)) + Cardinality(Pending)
    BY <1>2 DEF Orderly, Arranged
  <2>2. InsertIndex = Len(pane.strip)
    BY <1>2, <2>1 DEF InsertIndex, LiveTabCount, Taken
  <2>3. Len(pane.strip) \in Nat
    BY <1>5, LenProperties
  <2> HIDE DEF strip
  <2>4. index = Len(pane.strip)
    BY <1>8, <2>2, <2>3
  <2> QED
    BY <1>8, <2>4
<1>10. pane' = [Show(pane) EXCEPT !.strip = strip, !.active = strip[index + 1]]
  BY DEF FirstRun
<1>11. export' = export /\ pendingDataTabs' = pendingDataTabs + 1 /\ pane.slot["Data"] = Nothing
  BY DEF FirstRun
<1> HIDE DEF strip, index
<1>12. pane' = [Show(pane) EXCEPT !.strip = strip, !.active = t]
  BY <1>9, <1>10
<1>13. /\ pane' \in Pane /\ pane'.strip = strip /\ pane'.active = t
       /\ pane'.slot = pane.slot
  <2>1. PICK shown : shown = Show(pane)
    OBVIOUS
  <2>2. shown \in Pane /\ shown.slot = pane.slot
    BY <1>2, <2>1, ShowFields
  <2>3. pane' = [shown EXCEPT !.strip = strip, !.active = t]
    BY <1>12, <2>1
  <2> QED
    BY <1>4, <1>7, <2>2, <2>3 DEF Pane
<1>14. Orderly(pane', Pending')
  BY <1>1, <1>4, <1>7, <1>13 DEF Orderly, Held
<1>15. Cardinality(Pending') = Cardinality(Pending) + 1
  BY <1>1, <1>2, FS_AddElement DEF Orderly, Arranged
<1>16. Follows(pane', export') /\ Newest'
  BY <1>1, <1>4, <1>11, <1>13 DEF Follows, Newest
<1>17. export' \in Export
  BY <1>11 DEF PanelInv
<1> QED
  BY <1>1, <1>2, <1>11, <1>13, <1>14, <1>15, <1>16, <1>17 DEF PanelInv

LEMMA RerunStep ==
  ASSUME PanelInv, Rerun
  PROVE  PanelInv'
<1>1. /\ CallsInv' /\ Pending' = Pending /\ runSeq' \notin Pending
  BY NewCall DEF Rerun
<1>2. pane \in Pane /\ Orderly(pane, Pending) /\ pendingDataTabs = Cardinality(Pending)
  BY DEF PanelInv
<1>3. PICK t : t = Built("Data", pane.slot["Data"])
  OBVIOUS
<1>4. pane.slot["Data"] # Nothing /\ pane' = Select(Show(pane), t)
  BY <1>3 DEF Rerun
<1>5. export' = ExportOf(pane') /\ pendingDataTabs' = pendingDataTabs
  BY DEF Rerun
<1>6. "Data" \in Kinds
  BY DEF Kinds
<1>7. t \in Items(pane.strip) /\ pane.strip \in Seq(Tab)
  BY <1>2, <1>3, <1>4, <1>6, ClearsSlot, PaneFields DEF Orderly
<1>8. t \in Tab \cup {NoTab}
  BY <1>7, StripItems
<1>9. /\ pane' \in Pane /\ pane'.strip = pane.strip /\ pane'.active = t
      /\ pane'.slot = pane.slot
  BY <1>2, <1>4, <1>8, ShowFields, SelectFields
<1>10. Orderly(pane', Pending')
  BY <1>1, <1>2, <1>7, <1>9 DEF Orderly, Held
<1>11. Follows(pane', export') /\ export' \in Export /\ Newest'
  BY <1>1, <1>4, <1>5, <1>9, ExportTyped DEF Follows, Newest
<1> QED
  BY <1>1, <1>2, <1>5, <1>9, <1>10, <1>11 DEF PanelInv

LEMMA RunExplainStep ==
  ASSUME PanelInv, RunExplain
  PROVE  PanelInv'
<1>1. /\ CallsInv' /\ Pending' = Pending /\ runSeq' \notin Pending
      /\ \A c \in calls' : c.seq = runSeq' => c.kind = "explain"
  BY NewCall DEF RunExplain
<1> QED
  BY <1>1, PaneKept DEF RunExplain

LEMMA ShowDiagramStep ==
  ASSUME PanelInv, ShowDiagram
  PROVE  PanelInv'
<1>1. /\ CallsInv' /\ Pending' = Pending /\ runSeq' \notin Pending
      /\ \A c \in calls' : c.seq = runSeq' => c.kind = "diagram"
  BY NewCall DEF ShowDiagram
<1> QED
  BY <1>1, PaneKept DEF ShowDiagram

\* A step of the user that makes no call.
LEMMA NoCall ==
  ASSUME PanelInv, Moved, UNCHANGED <<calls, arrived>>, runSeq' \in {runSeq, runSeq + 1}
  PROVE  /\ CallsInv' /\ Pending' = Pending
         /\ runSeq' = runSeq + 1 =>
               runSeq' \notin Pending' /\ \A c \in calls' : c.seq # runSeq'
  BY MovesOn DEF PanelInv

LEMMA ShowChartStep ==
  ASSUME PanelInv, ShowChart
  PROVE  PanelInv'
<1>1. CallsInv' /\ Pending' = Pending /\ runSeq' = runSeq /\ calls' = calls
  BY NoCall DEF ShowChart
<1>2. pane \in Pane /\ Orderly(pane, Pending) /\ pendingDataTabs = Cardinality(Pending)
  BY DEF PanelInv
<1>3. PICK seq : seq = pane.slot["Data"]
  OBVIOUS
<1>4. /\ seq # Nothing /\ pane' = OpenTab(pane, "Chart", seq)
      /\ export' = [kind |-> "rows", seq |-> seq] /\ pendingDataTabs' = pendingDataTabs
  BY <1>3 DEF ShowChart
<1>5. "Data" \in Kinds /\ "Chart" \in Kinds /\ "Chart" # "Data"
  BY DEF Kinds
<1>6. seq \in Seqs /\ pane.slot \in [Kinds -> Slot]
  BY <1>2, <1>3, <1>4, <1>5, PaneFields DEF Slot
<1>7. /\ pane' \in Pane /\ Orderly(pane', Pending)
      /\ pane'.slot = [pane.slot EXCEPT !["Chart"] = seq]
      /\ pane'.active = Built("Chart", seq)
  BY <1>2, <1>4, <1>5, <1>6, OpenTabFields
<1>8. pane'.slot["Chart"] = seq /\ pane'.slot["Data"] = seq
  BY <1>3, <1>5, <1>6, <1>7
<1>9. export' = ExportOf(pane')
  BY <1>4, <1>7, <1>8, TabFields DEF ExportOf
<1>10. Follows(pane', export') /\ export' \in Export
  BY <1>7, <1>9, ExportTyped DEF Follows
<1>11. Newest'
  BY <1>1, <1>3, <1>4, <1>8 DEF PanelInv, Newest
<1> QED
  BY <1>1, <1>2, <1>4, <1>7, <1>10, <1>11 DEF PanelInv

LEMMA SelectTabStep ==
  ASSUME PanelInv, NEW t \in Tab, SelectTab(t)
  PROVE  PanelInv'
<1>1. CallsInv' /\ Pending' = Pending /\ runSeq' = runSeq /\ calls' = calls
  BY NoCall DEF SelectTab
<1>2. pane \in Pane /\ Orderly(pane, Pending) /\ pendingDataTabs = Cardinality(Pending)
      /\ export \in Export
  BY DEF PanelInv
<1>3. /\ t \in Items(pane.strip) /\ pane' = Select(pane, t)
      /\ export' = (IF t.built THEN ExportOf(pane') ELSE export)
      /\ pendingDataTabs' = pendingDataTabs
  BY DEF SelectTab, InStrip, Items
<1>4. /\ pane' \in Pane /\ pane'.strip = pane.strip /\ pane'.active = t
      /\ pane'.slot = pane.slot
  BY <1>2, <1>3, SelectFields
<1>5. Orderly(pane', Pending')
  BY <1>1, <1>2, <1>3, <1>4 DEF Orderly, Held
<1>6. export' \in Export
  BY <1>2, <1>3, <1>4, ExportTyped
<1>7. t.built => export' = ExportOf(pane')
  BY <1>3
<1>8. Follows(pane', export')
  BY <1>4, <1>7 DEF Follows
<1>9. Newest'
  BY <1>1, <1>4, <1>7 DEF PanelInv, Newest
<1> QED
  BY <1>1, <1>2, <1>3, <1>4, <1>5, <1>6, <1>8, <1>9 DEF PanelInv

LEMMA CloseTabStep ==
  ASSUME PanelInv, NEW kind \in Kinds, CloseTab(kind)
  PROVE  PanelInv'
<1>1. CallsInv' /\ Pending' = Pending /\ runSeq' = runSeq /\ calls' = calls
  BY NoCall DEF CloseTab
<1>2. pane \in Pane /\ Orderly(pane, Pending) /\ pendingDataTabs = Cardinality(Pending)
  BY DEF PanelInv
<1>3. /\ kind # "Data" /\ pane' = RemoveTab(pane, kind) /\ export' = ExportOf(pane')
      /\ pendingDataTabs' = pendingDataTabs
  BY DEF CloseTab
<1>4. /\ pane' \in Pane /\ Orderly(pane', Pending)
      /\ pane'.slot = [pane.slot EXCEPT ![kind] = Nothing]
  BY <1>2, <1>3, RemoveTabFields
<1>5. pane'.slot["Data"] = pane.slot["Data"]
  <2>1. pane.slot \in [Kinds -> Slot] /\ "Data" \in Kinds
    BY <1>2, PaneFields DEF Kinds
  <2> QED
    BY <1>3, <1>4, <2>1
<1>6. Follows(pane', export') /\ export' \in Export
  BY <1>3, <1>4, ExportTyped DEF Follows
<1>7. Newest'
  BY <1>1, <1>3, <1>5 DEF PanelInv, Newest
<1> QED
  BY <1>1, <1>2, <1>3, <1>4, <1>6, <1>7 DEF PanelInv

LEMMA AllRemovedFields ==
  ASSUME NEW p \in Pane, NEW spinners, Orderly(p, spinners)
  PROVE  LET r == AllRemoved(p)
         IN  /\ r \in Pane /\ Orderly(r, spinners)
             /\ \A k \in Kinds : r.slot[k] = Nothing
<1>1. "Data" \in Kinds /\ "Chart" \in Kinds /\ "Diagram" \in Kinds /\ "Explain" \in Kinds
  BY DEF Kinds
<1>2. PICK a : a = RemoveTab(p, "Data")
  OBVIOUS
<1>3. a \in Pane /\ Orderly(a, spinners) /\ a.slot = [p.slot EXCEPT !["Data"] = Nothing]
  BY <1>1, <1>2, RemoveTabFields
<1>4. PICK b : b = RemoveTab(a, "Chart")
  OBVIOUS
<1>5. b \in Pane /\ Orderly(b, spinners) /\ b.slot = [a.slot EXCEPT !["Chart"] = Nothing]
  BY <1>1, <1>3, <1>4, RemoveTabFields
<1>6. PICK c : c = RemoveTab(b, "Diagram")
  OBVIOUS
<1>7. c \in Pane /\ Orderly(c, spinners) /\ c.slot = [b.slot EXCEPT !["Diagram"] = Nothing]
  BY <1>1, <1>5, <1>6, RemoveTabFields
<1>8. PICK d : d = RemoveTab(c, "Explain")
  OBVIOUS
<1>9. d \in Pane /\ Orderly(d, spinners) /\ d.slot = [c.slot EXCEPT !["Explain"] = Nothing]
  BY <1>1, <1>7, <1>8, RemoveTabFields
<1>10. AllRemoved(p) = d
  BY <1>2, <1>4, <1>6, <1>8 DEF AllRemoved
<1>11. \A k \in Kinds : d.slot[k] = Nothing
  <2>1. /\ p.slot \in [Kinds -> Slot] /\ a.slot \in [Kinds -> Slot]
        /\ b.slot \in [Kinds -> Slot] /\ c.slot \in [Kinds -> Slot]
    BY <1>3, <1>5, <1>7, PaneFields
  <2>2. a.slot["Data"] = Nothing
    BY <1>1, <1>3, <2>1
  <2>3. b.slot["Data"] = Nothing /\ b.slot["Chart"] = Nothing
    BY <1>1, <1>5, <2>1, <2>2
  <2>4. c.slot["Data"] = Nothing /\ c.slot["Chart"] = Nothing /\ c.slot["Diagram"] = Nothing
    BY <1>1, <1>7, <2>1, <2>3
  <2> QED
    BY <1>9, <2>1, <2>4 DEF Kinds
<1> QED
  BY <1>9, <1>10, <1>11

LEMMA ClearPanelStep ==
  ASSUME PanelInv, ClearPanel
  PROVE  PanelInv'
<1>1. /\ CallsInv' /\ Pending' = Pending
      /\ runSeq' \notin Pending' /\ \A c \in calls' : c.seq # runSeq'
  BY NoCall DEF ClearPanel
<1>2. pane \in Pane /\ Orderly(pane, Pending) /\ pendingDataTabs = Cardinality(Pending)
  BY DEF PanelInv
<1>3. PICK r : r = AllRemoved(pane)
  OBVIOUS
<1>4. /\ pane' = [r EXCEPT !.shown = FALSE] /\ export' = NoExport
      /\ pendingDataTabs' = pendingDataTabs
  BY <1>3 DEF ClearPanel
<1>5. r \in Pane /\ Orderly(r, Pending) /\ \A k \in Kinds : r.slot[k] = Nothing
  BY <1>2, <1>3, AllRemovedFields
<1>6. /\ pane' \in Pane /\ pane'.strip = r.strip /\ pane'.active = r.active
      /\ pane'.slot = r.slot
  BY <1>4, <1>5 DEF Pane
<1>7. Orderly(pane', Pending)
  BY <1>5, <1>6 DEF Orderly
<1>8. ~ pane'.active.built
  <2>1. ~ r.active.built
    BY <1>5, OnScreen
  <2> QED
    BY <1>6, <2>1
<1>9. Follows(pane', export') /\ export' \in Export
  BY <1>4, <1>8 DEF Follows, Export
<1>10. Newest'
  BY <1>1 DEF Newest
<1> QED
  BY <1>1, <1>2, <1>4, <1>6, <1>7, <1>9, <1>10 DEF PanelInv

-----------------------------------------------------------------------------
(* Answers.                                                                *)

\* A spinner settles, whether its answer had to wait for it or not.
LEMMA SettlesStep ==
  ASSUME PanelInv, NEW seq \in Seqs, seq \in Pending, NEW outcome, SpinnerSettles(seq, outcome),
         runSeq' = runSeq, CallsInv', Pending' = Pending \ {seq},
         calls' \subseteq calls, \A c \in calls' : c.seq # seq
  PROVE  /\ PanelInv'
         /\ seq # runSeq =>
               /\ pane'.slot = pane.slot /\ export' = ExportOf(pane')
               /\ pane.active.built => pane'.active = pane.active
<1>1. /\ pane \in Pane /\ Orderly(pane, Pending) /\ export \in Export
      /\ pendingDataTabs = Cardinality(Pending) /\ Newest
  BY DEF PanelInv
<1>2. pendingDataTabs' = Cardinality(Pending')
  <2>1. Cardinality(Pending \ {seq}) = Cardinality(Pending) - 1
    BY <1>1, FS_RemoveElement DEF Orderly, Arranged
  <2>2. pendingDataTabs' = pendingDataTabs - 1
    BY DEF SpinnerSettles
  <2> QED
    BY <1>1, <2>1, <2>2
<1>3. CASE seq = runSeq /\ outcome = "rows"
  <2>1. /\ pane.slot["Data"] = Nothing
        /\ pane.active.built => export = ExportOf(pane)
    BY <1>1, <1>3 DEF Newest
  <2>2. SpinnerBuilds(seq)
    BY <1>3 DEF SpinnerSettles
  <2>3. /\ pane' \in Pane /\ Orderly(pane', Pending')
        /\ pane'.slot = [pane.slot EXCEPT !["Data"] = seq]
        /\ pane.active = Spinner(seq) => export' = ExportOf(pane')
        /\ pane.active # Spinner(seq) => export' = export /\ pane'.active = pane.active
    BY <1>1, <2>1, <2>2, BuildsFields
  <2>4. pane'.active.built => export' = ExportOf(pane')
    <3>1. CASE pane.active = Spinner(seq)
      BY <2>3, <3>1
    <3>2. CASE pane.active # Spinner(seq)
      <4>1. ASSUME pane.active.built
            PROVE  pane'.slot[pane.active.kind] = pane.slot[pane.active.kind]
        <5>1. /\ pane.active.kind \in Kinds
              /\ pane.slot[pane.active.kind] # Nothing
          BY <1>1, <4>1, OnScreen
        <5>2. pane.active.kind # "Data" /\ pane.slot \in [Kinds -> Slot]
          BY <1>1, <2>1, <5>1, PaneFields
        <5> QED
          BY <2>3, <5>1, <5>2
      <4>2. pane'.active = pane.active /\ export' = export
        BY <2>3, <3>2
      <4> QED
        BY <1>1, <2>1, <2>3, <4>1, <4>2, StaysFollowed
    <3> QED
      BY <3>1, <3>2
  <2>5. export' \in Export
    BY <1>1, <2>3, ExportTyped
  <2>6. Follows(pane', export')
    BY <2>4 DEF Follows
  <2>7. Newest'
    BY <1>3 DEF Newest
  <2> QED
    BY <1>2, <1>3, <2>3, <2>5, <2>6, <2>7 DEF PanelInv
<1>4. CASE ~ (seq = runSeq /\ outcome = "rows")
  <2>1. SpinnerCloses(seq)
    BY <1>4 DEF SpinnerSettles
  <2>2. /\ pane' \in Pane /\ Orderly(pane', Pending')
        /\ pane'.slot = pane.slot
        /\ export' = ExportOf(pane')
        /\ pane.active.built => pane'.active = pane.active
    BY <1>1, <2>1, ClosesFields
  <2>3. export' \in Export /\ Follows(pane', export')
    BY <2>2, ExportTyped DEF Follows
  <2>4. Newest'
    BY <1>1, <2>2 DEF Newest
  <2> QED
    BY <1>2, <2>2, <2>3, <2>4 DEF PanelInv
<1> QED
  BY <1>3, <1>4

\* What the end of a call does to the calls.
LEMMA EndOfCall ==
  ASSUME PanelInv, NEW c \in calls, CallEnds(c), arrived' = arrived
  PROVE  /\ CallsInv' /\ runSeq' = runSeq /\ calls' = calls \ {c}
         /\ Pending' = IF c.kind = "first run" THEN Pending \ {c.seq} ELSE Pending
         /\ \A d \in calls' : d.seq # c.seq
<1>1. calls' = calls \ {c} /\ runSeq' = runSeq /\ moves' = moves
  BY DEF CallEnds
<1>2. CallsInv
  BY DEF PanelInv
<1>3. \A d \in calls' : d.seq # c.seq
  BY <1>1, <1>2 DEF CallsInv, Numbered
<1> QED
  BY <1>1, <1>2, <1>3, EndsCall

LEMMA FirstRunLandsStep ==
  ASSUME PanelInv, NEW c \in calls, FirstRunLands(c)
  PROVE  /\ PanelInv'
         /\ c.seq # runSeq =>
               /\ pane'.slot = pane.slot /\ export' = ExportOf(pane')
               /\ pane.active.built => pane'.active = pane.active
<1>1. c.kind = "first run" /\ CallEnds(c) /\ arrived' = arrived
  BY DEF FirstRunLands
<1>2. PICK outcome \in Outcomes : SpinnerSettles(c.seq, outcome)
  BY DEF FirstRunLands
<1>3. c.seq \in Seqs /\ c.seq \in Pending
  BY <1>1, CallFields, PendingFacts DEF PanelInv
<1>4. /\ CallsInv' /\ runSeq' = runSeq /\ calls' \subseteq calls
      /\ Pending' = Pending \ {c.seq} /\ \A d \in calls' : d.seq # c.seq
  BY <1>1, EndOfCall
<1> QED
  BY <1>2, <1>3, <1>4, SettlesStep

LEMMA FirstRunLandsEarlyStep ==
  ASSUME PanelInv, NEW c \in calls, FirstRunLandsEarly(c)
  PROVE  PanelInv'
<1>1. /\ c.kind = "first run" /\ CallEnds(c)
      /\ UNCHANGED <<pane, export, pendingDataTabs>>
  BY DEF FirstRunLandsEarly
<1>2. PICK outcome \in Outcomes : arrived' = arrived \cup {[seq |-> c.seq, outcome |-> outcome]}
  BY DEF FirstRunLandsEarly
<1>3. calls' = calls \ {c} /\ runSeq' = runSeq /\ moves' = moves
  BY <1>1 DEF CallEnds
<1>4. CallsInv' /\ Pending' = Pending
  BY <1>1, <1>2, <1>3, EarlyCall DEF PanelInv
<1> QED
  BY <1>1, <1>3, <1>4, PaneKept

LEMMA FactoryStartsStep ==
  ASSUME PanelInv, NEW a \in arrived, FactoryStarts(a)
  PROVE  /\ PanelInv'
         /\ a.seq # runSeq =>
               /\ pane'.slot = pane.slot /\ export' = ExportOf(pane')
               /\ pane.active.built => pane'.active = pane.active
<1>1. /\ SpinnerSettles(a.seq, a.outcome) /\ arrived' = arrived \ {a}
      /\ calls' = calls /\ runSeq' = runSeq /\ moves' = moves
  BY DEF FactoryStarts
<1>2. a.seq \in Seqs /\ a.seq \in Pending
  BY CallFields, PendingFacts DEF PanelInv
<1>3. CallsInv' /\ Pending' = Pending \ {a.seq} /\ \A c \in calls : c.seq # a.seq
  BY <1>1, TakesArrived DEF PanelInv
<1> QED
  BY <1>1, <1>2, <1>3, SettlesStep

\* The newest call ends: the invariant asks nothing of the calls left.
LEMMA NewestEnds ==
  ASSUME PanelInv, NEW c \in calls, c.seq = runSeq, c.kind # "first run",
         CallEnds(c), arrived' = arrived
  PROVE  /\ CallsInv' /\ Pending' = Pending /\ runSeq' \notin Pending' /\ runSeq' = runSeq
         /\ Newest'
<1>1. /\ CallsInv' /\ runSeq' = runSeq /\ Pending' = Pending
      /\ \A d \in calls' : d.seq # runSeq'
  BY EndOfCall
<1>2. runSeq' \notin Pending'
  BY <1>1, PendingFacts DEF PanelInv
<1> QED
  BY <1>1, <1>2 DEF Newest

LEMMA RerunLandsStep ==
  ASSUME PanelInv, NEW c \in calls, RerunLands(c)
  PROVE  PanelInv'
<1>1. c.kind = "re-run" /\ c.seq = runSeq /\ CallEnds(c) /\ arrived' = arrived
  BY DEF RerunLands
<1>2. PICK outcome \in Outcomes : TabRefreshes(outcome)
  BY DEF RerunLands
<1>3. CallsInv' /\ Pending' = Pending /\ Newest'
  BY <1>1, NewestEnds
<1>4. /\ pane \in Pane /\ Orderly(pane, Pending) /\ export \in Export
      /\ Follows(pane, export) /\ pendingDataTabs = Cardinality(Pending)
  BY DEF PanelInv
<1>5. pane.slot["Data"] # Nothing /\ runSeq \in Seqs /\ "Data" \in Kinds
  BY <1>1, CallFields DEF PanelInv, Newest, Kinds
<1>6. pane.active.built => export = ExportOf(pane)
  BY <1>4, <1>5 DEF Follows
<1>7. PICK old : old = Built("Data", pane.slot["Data"])
  OBVIOUS
<1>8. ASSUME pane.active.built, pane.active # old PROVE pane.active.kind # "Data"
  BY <1>4, <1>7, <1>8, OnScreen
<1>9. pane.slot \in [Kinds -> Slot]
  BY <1>4, PaneFields
<1>10. pendingDataTabs' = pendingDataTabs
  BY <1>2 DEF TabRefreshes
<1>11. SUFFICES pane' \in Pane /\ Orderly(pane', Pending) /\ export' \in Export
                /\ Follows(pane', export')
  BY <1>3, <1>4, <1>10, <1>11 DEF PanelInv
<1>12. CASE outcome = "rows"
  <2>1. PICK swapped : swapped = SwapTab(pane, "Data", runSeq)
    OBVIOUS
  <2>2. PICK new : new = Built("Data", runSeq)
    OBVIOUS
  <2>3. /\ pane' = IF pane.active = old THEN Select(swapped, new) ELSE swapped
        /\ export' = IF pane.active = old THEN ExportOf(pane') ELSE export
    BY <1>2, <1>7, <1>12, <2>1, <2>2 DEF TabRefreshes
  <2>4. /\ swapped \in Pane /\ Arranged(swapped.strip, swapped.slot, Pending)
        /\ swapped.slot = [pane.slot EXCEPT !["Data"] = runSeq]
        /\ swapped.active = pane.active
        /\ Items(swapped.strip) = (Items(pane.strip) \ {old}) \cup {new}
    BY <1>4, <1>5, <1>7, <2>1, <2>2, SwapTabFields DEF Orderly
  <2>5. new \in Tab
    BY <1>5, <2>2, TabTypes
  <2>6. CASE pane.active = old
    <3>1. pane' = Select(swapped, new) /\ export' = ExportOf(pane')
      BY <2>3, <2>6
    <3>2. /\ pane' \in Pane /\ pane'.strip = swapped.strip /\ pane'.active = new
          /\ pane'.slot = swapped.slot
      BY <2>4, <2>5, <3>1, SelectFields
    <3>3. Orderly(pane', Pending)
      BY <2>4, <3>2 DEF Orderly, Held
    <3> QED
      BY <3>1, <3>2, <3>3, ExportTyped DEF Follows
  <2>7. CASE pane.active # old
    <3>1. pane' = swapped /\ export' = export
      BY <2>3, <2>7
    <3>2. Orderly(swapped, Pending)
      BY <1>4, <2>4, <2>7 DEF Orderly, Held
    <3>3. pane.active.built => swapped.slot[pane.active.kind] = pane.slot[pane.active.kind]
      <4> SUFFICES ASSUME pane.active.built
                   PROVE  swapped.slot[pane.active.kind] = pane.slot[pane.active.kind]
        OBVIOUS
      <4>1. pane.active.kind \in Kinds /\ pane.active.kind # "Data"
        BY <1>4, <1>8, <2>7, OnScreen
      <4> QED
        BY <1>9, <2>4, <4>1
    <3>4. swapped.active.built => export = ExportOf(swapped)
      BY <1>4, <1>6, <2>4, <3>3, StaysFollowed
    <3> QED
      BY <1>4, <2>4, <3>1, <3>2, <3>4 DEF Follows
  <2> QED
    BY <2>6, <2>7
<1>13. CASE outcome = "status"
  <2>1. pane' = RemoveTab(pane, "Data") /\ export' = export
    BY <1>2, <1>13 DEF TabRefreshes
  <2>2. /\ pane' \in Pane /\ Orderly(pane', Pending)
        /\ pane'.slot = [pane.slot EXCEPT !["Data"] = Nothing]
        /\ pane.active # old => pane'.active = pane.active
    BY <1>4, <1>5, <1>7, <2>1, RemoveTabFields
  <2>3. pane'.slot["Data"] = Nothing
    BY <1>5, <1>9, <2>2
  <2>4. CASE pane.active = old
    <3>1. export = [kind |-> "rows", seq |-> pane.slot["Data"]]
      BY <1>6, <1>7, <2>4, TabFields DEF ExportOf
    <3> QED
      BY <1>4, <2>1, <2>2, <2>3, <3>1 DEF Follows
  <2>5. CASE pane.active # old
    <3>1. pane.active.built => pane'.slot[pane.active.kind] = pane.slot[pane.active.kind]
      <4> SUFFICES ASSUME pane.active.built
                   PROVE  pane'.slot[pane.active.kind] = pane.slot[pane.active.kind]
        OBVIOUS
      <4>1. pane.active.kind \in Kinds /\ pane.active.kind # "Data"
        BY <1>4, <1>8, <2>5, OnScreen
      <4> QED
        BY <1>9, <2>2, <4>1
    <3>2. pane'.active.built => export = ExportOf(pane')
      BY <1>4, <1>6, <2>2, <2>5, <3>1, StaysFollowed
    <3> QED
      BY <1>4, <2>1, <2>2, <3>2 DEF Follows
  <2> QED
    BY <2>4, <2>5
<1>14. CASE outcome = "error"
  <2>1. pane' = pane /\ export' = export
    BY <1>2, <1>14 DEF TabRefreshes
  <2> QED
    BY <1>4, <2>1
<1> QED
  BY <1>12, <1>13, <1>14 DEF Outcomes

LEMMA PlanLandsStep ==
  ASSUME PanelInv, NEW c \in calls, c.kind # "first run", NEW kind \in Kinds, PlanLands(c, kind)
  PROVE  PanelInv'
<1>1. /\ c.seq = runSeq /\ CallEnds(c) /\ arrived' = arrived
      /\ pendingDataTabs' = pendingDataTabs
  BY DEF PlanLands
<1>2. CallsInv' /\ Pending' = Pending /\ Newest'
  BY <1>1, NewestEnds
<1>3. /\ pane \in Pane /\ Orderly(pane, Pending) /\ export \in Export
      /\ Follows(pane, export) /\ pendingDataTabs = Cardinality(Pending)
  BY DEF PanelInv
<1>4. c.seq \in Seqs
  BY CallFields DEF PanelInv
<1>5. CASE pane' = OpenTab(pane, kind, c.seq) /\ export' = ExportOf(pane')
  <2>1. pane' \in Pane /\ Orderly(pane', Pending)
    BY <1>3, <1>4, <1>5, OpenTabFields
  <2>2. export' \in Export /\ Follows(pane', export')
    BY <1>5, <2>1, ExportTyped DEF Follows
  <2> QED
    BY <1>1, <1>2, <1>3, <2>1, <2>2 DEF PanelInv
<1>6. CASE UNCHANGED <<pane, export>>
  BY <1>1, <1>2, <1>3, <1>6 DEF PanelInv
<1> QED
  BY <1>5, <1>6 DEF PlanLands

LEMMA AskAdviceStep ==
  ASSUME PanelInv, NEW c \in calls, AskAdvice(c)
  PROVE  PanelInv'
<1>1. /\ CallsInv' /\ Pending' = Pending
      /\ \A d \in calls' : d.kind = "re-run" => d \in calls
  BY AsksAdvice DEF PanelInv
<1>2. runSeq' = runSeq /\ UNCHANGED <<pane, export, pendingDataTabs>>
  BY DEF AskAdvice
<1> QED
  BY <1>1, <1>2, PaneKept

LEMMA StaleLandsStep ==
  ASSUME PanelInv, NEW c \in calls, StaleLands(c)
  PROVE  PanelInv'
<1>1. /\ c.kind # "first run" /\ CallEnds(c) /\ arrived' = arrived
      /\ UNCHANGED <<pane, export, pendingDataTabs>>
  BY DEF StaleLands
<1>2. /\ CallsInv' /\ Pending' = Pending /\ runSeq' = runSeq /\ calls' = calls \ {c}
  BY <1>1, EndOfCall
<1> QED
  BY <1>1, <1>2, PaneKept

-----------------------------------------------------------------------------
(* The buttons.                                                            *)

Buttons == [run : BOOLEAN, chart : BOOLEAN, diagram : BOOLEAN]

LEMMA BusySet ==
  ASSUME NEW busy, NEW p, SetBusy(busy, p)
  PROVE  buttons' \in Buttons
<1>1. PICK run \in BOOLEAN : run = ~ busy
  OBVIOUS
<1>2. PICK chart \in BOOLEAN : chart = (~ busy /\ p.slot["Data"] # Nothing)
  OBVIOUS
<1>3. PICK diagram \in BOOLEAN : diagram = (~ busy /\ p.slot["Explain"] # Nothing)
  OBVIOUS
<1>4. buttons' = [run |-> run, chart |-> chart, diagram |-> diagram]
  BY <1>1, <1>2, <1>3 DEF SetBusy
<1> QED
  BY <1>4 DEF Buttons

LEMMA ButtonsTyped ==
  ASSUME buttons \in Buttons, [Next]_vars
  PROVE  buttons' \in Buttons
<1>1. ASSUME NEW kind, StartCall(kind) PROVE buttons' \in Buttons
  BY <1>1, BusySet DEF StartCall
<1>2. ASSUME NEW c, CallEnds(c) PROVE buttons' \in Buttons
  BY <1>2, BusySet DEF CallEnds
<1>3. CASE FirstRun \/ Rerun \/ RunExplain \/ ShowDiagram
  BY <1>1, <1>3 DEF FirstRun, Rerun, RunExplain, ShowDiagram
<1>4. CASE ShowChart
  BY <1>4 DEF ShowChart
<1>5. CASE ClearPanel
  BY <1>5, BusySet DEF ClearPanel
<1>6. ASSUME NEW t \in Tab, SelectTab(t) PROVE buttons' \in Buttons
  BY <1>6 DEF SelectTab
<1>7. ASSUME NEW kind \in Kinds, CloseTab(kind) PROVE buttons' \in Buttons
  <2>1. buttons' = IF kind = "Explain" THEN [buttons EXCEPT !.diagram = FALSE] ELSE buttons
    BY <1>7 DEF CloseTab
  <2> QED
    BY <2>1 DEF Buttons
<1>8. ASSUME NEW c \in calls, Land(c) PROVE buttons' \in Buttons
  <2>1. CASE FirstRunLands(c) \/ FirstRunLandsEarly(c) \/ RerunLands(c) \/ StaleLands(c)
    BY <1>2, <2>1 DEF FirstRunLands, FirstRunLandsEarly, RerunLands, StaleLands
  <2>2. CASE ExplainLands(c) \/ DiagramLands(c)
    BY <1>2, <2>2 DEF ExplainLands, DiagramLands, PlanLands
  <2>3. CASE AskAdvice(c)
    BY <2>3 DEF AskAdvice
  <2> QED
    BY <1>8, <2>1, <2>2, <2>3 DEF Land
<1>9. ASSUME NEW a \in arrived, FactoryStarts(a) PROVE buttons' \in Buttons
  <2>1. PICK chart \in BOOLEAN : chart = (pane'.slot["Data"] # Nothing)
    OBVIOUS
  <2>2. buttons' = IF a.seq = runSeq THEN [buttons EXCEPT !.chart = chart] ELSE buttons
    BY <1>9, <2>1 DEF FactoryStarts
  <2> QED
    BY <2>2 DEF Buttons
<1>10. CASE UNCHANGED vars
  BY <1>10 DEF vars
<1> QED
  BY <1>3, <1>4, <1>5, <1>6, <1>7, <1>8, <1>9, <1>10 DEF Next, User, Browser

-----------------------------------------------------------------------------
(* The theorems.                                                           *)

LEMMA PanelStep ==
  ASSUME PanelInv, [Next]_vars
  PROVE  PanelInv'
<1>1. CASE User
  BY <1>1, FirstRunStep, RerunStep, RunExplainStep, ShowDiagramStep, ShowChartStep,
     ClearPanelStep, SelectTabStep, CloseTabStep DEF User
<1>2. ASSUME NEW c \in calls, Land(c) PROVE PanelInv'
  <2>1. CASE ExplainLands(c)
    BY <2>1, PlanLandsStep, "Explain" \in Kinds DEF ExplainLands, Kinds
  <2>2. CASE DiagramLands(c)
    BY <2>2, PlanLandsStep, "Diagram" \in Kinds DEF DiagramLands, Kinds
  <2> QED
    BY <1>2, <2>1, <2>2, FirstRunLandsStep, FirstRunLandsEarlyStep, RerunLandsStep,
       AskAdviceStep, StaleLandsStep DEF Land
<1>3. ASSUME NEW a \in arrived, FactoryStarts(a) PROVE PanelInv'
  BY <1>3, FactoryStartsStep
<1>4. CASE UNCHANGED vars
  <2>1. /\ UNCHANGED <<pane, export, pendingDataTabs>> /\ runSeq' = runSeq
        /\ calls' = calls /\ arrived' = arrived /\ moves' = moves
    BY <1>4 DEF vars
  <2>2. CallsInv' /\ Pending' = Pending
    BY <2>1 DEF PanelInv, CallsInv, Numbered, Pending
  <2> QED
    BY <2>1, <2>2, PaneKept
<1> QED
  BY <1>1, <1>2, <1>3, <1>4 DEF Next, Browser

\* The panes, calls and buttons of every behaviour are as the invariant says.
THEOREM InvariantHolds == Spec => [](PanelInv /\ buttons \in Buttons)
<1>1. Init => PanelInv /\ buttons \in Buttons
  <2>1. Init => buttons \in Buttons
    BY DEF Init, Buttons
  <2> QED
    BY <2>1, InitPanel
<1>2. PanelInv /\ buttons \in Buttons /\ [Next]_vars => PanelInv' /\ (buttons \in Buttons)'
  BY PanelStep, ButtonsTyped DEF Buttons
<1> QED
  BY <1>1, <1>2, PTL DEF Spec

\* Whatever the calls do, the variables keep their types: no slot and no tab
\* ever names a call that was not made, and the spinners never run negative.
THEOREM TypesKept == Spec => []TypeOK
<1>1. PanelInv /\ buttons \in Buttons => TypeOK
  <2> SUFFICES ASSUME PanelInv, buttons \in Buttons PROVE TypeOK
    OBVIOUS
  <2>1. Cardinality(Pending) \in Nat
    BY FS_CardinalityType DEF PanelInv, Orderly, Arranged
  <2>2. pendingDataTabs \in Nat
    BY <2>1 DEF PanelInv
  <2> QED
    BY <2>2 DEF PanelInv, CallsInv, TypeOK, Buttons
<1> QED
  BY <1>1, InvariantHolds, PTL

\* However runs, explains and diagrams overtake one another and whatever tab
\* the user is on: Export offers what the built tab on screen shows, or the
\* rows of a Data tab that a status has just taken away.
THEOREM ExportFollows == Spec => []ExportFollowsTab
<1>1. PanelInv => ExportFollowsTab
  BY DEF PanelInv, Follows, ExportFollowsTab
<1> QED
  BY <1>1, InvariantHolds, PTL

\* An answer that a newer call or a cleared panel has overtaken changes no
\* slot, no button and no built tab on screen, and Export only by the tab its
\* spinner leaves the screen to.
THEOREM StaleIgnored == Spec => StaleAnswersIgnored
<1> DEFINE stale == \/ \E c \in calls \ calls' : c.seq # runSeq
                    \/ \E a \in arrived \ arrived' : a.seq # runSeq
           harmless == /\ pane'.slot = pane.slot /\ buttons' = buttons
                       /\ export' # export => export' = ExportOf(pane')
                       /\ pane.active.built => pane'.active = pane.active
<1>1. ASSUME PanelInv, Next, stale PROVE harmless
  <2>1. CASE User
    <3>1. calls \subseteq calls' /\ arrived' = arrived
      BY <2>1 DEF User, FirstRun, Rerun, RunExplain, ShowDiagram, ShowChart, SelectTab,
                  CloseTab, ClearPanel, StartCall
    <3> QED
      BY <1>1, <3>1
  <2>2. ASSUME NEW c \in calls, Land(c) PROVE harmless
    <3>1. CASE CallEnds(c)
      <4>1. calls \ calls' = {c} /\ (c.seq # runSeq => buttons' = buttons)
        BY <3>1 DEF CallEnds
      <4>2. CASE FirstRunLands(c)
        <5>1. arrived' = arrived
          BY <4>2 DEF FirstRunLands
        <5>2. c.seq # runSeq
          BY <1>1, <4>1, <5>1
        <5> QED
          BY <1>1, <4>1, <4>2, <5>2, FirstRunLandsStep
      <4>3. CASE FirstRunLandsEarly(c) \/ StaleLands(c)
        <5>1. arrived \subseteq arrived' /\ UNCHANGED <<pane, export>>
          BY <4>3 DEF FirstRunLandsEarly, StaleLands
        <5>2. c.seq # runSeq
          BY <1>1, <4>1, <5>1
        <5> QED
          BY <4>1, <5>1, <5>2
      <4>4. CASE RerunLands(c) \/ ExplainLands(c) \/ DiagramLands(c)
        <5>1. arrived' = arrived /\ c.seq = runSeq
          BY <4>4 DEF RerunLands, ExplainLands, DiagramLands, PlanLands
        <5> QED
          BY <1>1, <4>1, <5>1
      <4>5. CASE AskAdvice(c)
        <5>1. arrived' = arrived /\ c.seq = runSeq
          BY <4>5 DEF AskAdvice
        <5> QED
          BY <1>1, <4>1, <5>1
      <4> QED
        BY <2>2, <4>2, <4>3, <4>4, <4>5 DEF Land
    <3>2. CASE ~ CallEnds(c)
      <4>1. AskAdvice(c)
        BY <2>2, <3>2 DEF Land, FirstRunLands, FirstRunLandsEarly, StaleLands, RerunLands,
                          ExplainLands, DiagramLands, PlanLands
      <4>2. arrived' = arrived /\ c.seq = runSeq /\ calls \ calls' \subseteq {c}
        BY <4>1 DEF AskAdvice
      <4> QED
        BY <1>1, <4>2
    <3> QED
      BY <3>1, <3>2
  <2>3. ASSUME NEW a \in arrived, FactoryStarts(a) PROVE harmless
    <3>1. /\ calls' = calls /\ arrived \ arrived' = {a}
          /\ a.seq # runSeq => buttons' = buttons
      BY <2>3 DEF FactoryStarts
    <3>2. a.seq # runSeq
      BY <1>1, <3>1
    <3> QED
      BY <1>1, <2>3, <3>1, <3>2, FactoryStartsStep
  <2> QED
    BY <1>1, <2>1, <2>2, <2>3 DEF Next, Browser
<1>2. ASSUME UNCHANGED vars PROVE ~ stale
  BY <1>2 DEF vars
<1>3. PanelInv /\ [Next]_vars => [stale => harmless]_vars
  BY <1>1, <1>2
<1> QED
  BY <1>3, InvariantHolds, PTL DEF Spec, StaleAnswersIgnored

=============================================================================
