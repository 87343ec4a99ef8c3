------------------------ MODULE DiagramPanelsProofs -------------------------
(***************************************************************************)
(* Theorems about DiagramPanels, for any catalog, dependencies and depths: *)
(* what is on screen is the graph the controls describe, no badge is no    *)
(* more to see, and the edges are the keys; and about ExplainDiagram, for  *)
(* any plan: its three views point to one node, and its conditions are     *)
(* read as they are meant.                                                 *)
(*                                                                         *)
(* The traversal is a recursive function of the number of hops; what it    *)
(* computes is proved with a set of the hops for which it does.            *)
(***************************************************************************)
EXTENDS DiagramPanels, ExplainDiagram, FiniteSetTheorems, SequenceTheorems, TLAPS

-----------------------------------------------------------------------------
(* Traversal.                                                              *)

Step(edges, dir, u, w) == \E e \in edges : Follows(e, u, w, dir)

\* What d hops reach, from what d - 1 hops reach.
Hop(edges, from, dir, without, f, d) ==
    IF d = 0 THEN {from}
    ELSE f[d - 1] \cup ((UNION {Neighbours(edges, u, dir) : u \in f[d - 1]}) \ without)

Hops(edges, from, dir, without, D, f) ==
    f = [d \in 0 .. D |-> Hop(edges, from, dir, without, f, d)]

\* The same, without the recursion.
Walk(edges, from, dir, without, D, f) ==
    /\ f[0] = {from}
    /\ \A d \in 1 .. D : \A w :
          w \in f[d] <=> w \in f[d - 1] \/ (w \notin without /\ \E u \in f[d - 1] : Step(edges, dir, u, w))

LEMMA SmallestIndex ==
  ASSUME NEW S, S \subseteq Nat, S # {}
  PROVE  \E n \in S : \A m \in S : n <= m
<1>1. IsWellFoundedOn(OpToRel(<, Nat), Nat)
  BY NatLessThanWellFounded
<1>2. PICK n \in S : \A m \in S : ~ (<<m, n>> \in OpToRel(<, Nat))
  BY <1>1, WFMin
<1>3. \A m \in S : ~ (m < n)
  BY <1>2 DEF OpToRel
<1> QED
  BY <1>3

\* Induction up to D, over a set of numbers.
LEMMA UpTo ==
  ASSUME NEW D \in Nat, NEW G, 0 \in G, \A d \in 1 .. D : d - 1 \in G => d \in G
  PROVE  \A d \in 0 .. D : d \in G
<1> DEFINE Bad == (0 .. D) \ G
<1>1. SUFFICES ASSUME Bad # {} PROVE FALSE
  OBVIOUS
<1>2. PICK n \in Bad : \A m \in Bad : n <= m
  <2>1. Bad \subseteq Nat
    OBVIOUS
  <2> HIDE DEF Bad
  <2> QED
    BY <1>1, <2>1, SmallestIndex
<1>3. n \in 1 .. D /\ n \notin G
  BY <1>2
<1>4. n - 1 \notin Bad
  BY <1>2, <1>3
<1>5. n - 1 \in G
  BY <1>3, <1>4
<1> QED
  BY <1>3, <1>5

\* The recursion is well founded.
LEMMA HopsExist ==
  ASSUME NEW edges, NEW from, NEW dir, NEW without, NEW D \in Nat
  PROVE  \E f : Hops(edges, from, dir, without, D, f)
<1> DEFINE G == {d \in 0 .. D : \E f : Hops(edges, from, dir, without, d, f)}
<1>1. 0 \in G
  <2> DEFINE f == [d \in 0 .. 0 |-> {from}]
  <2>1. f = [d \in 0 .. 0 |-> Hop(edges, from, dir, without, f, d)]
    BY DEF Hop
  <2> QED
    BY <2>1 DEF Hops
<1>2. ASSUME NEW n \in 1 .. D, n - 1 \in G
      PROVE  n \in G
  <2>1. PICK g : g = [d \in 0 .. n - 1 |-> Hop(edges, from, dir, without, g, d)]
    BY <1>2 DEF Hops
  <2> DEFINE f == [d \in 0 .. n |-> IF d = n THEN Hop(edges, from, dir, without, g, n) ELSE g[d]]
  <2>2. \A d \in 0 .. n - 1 : f[d] = g[d]
    OBVIOUS
  <2>3. ASSUME NEW d \in 0 .. n
        PROVE  f[d] = Hop(edges, from, dir, without, f, d)
    <3>1. CASE d = n
      <4>1. f[n - 1] = g[n - 1] /\ n # 0
        BY <2>2
      <4>2. f[n] = Hop(edges, from, dir, without, g, n)
        OBVIOUS
      <4> HIDE DEF f
      <4> QED
        BY <3>1, <4>1, <4>2 DEF Hop
    <3>2. CASE d # n
      <4>1. d \in 0 .. n - 1 /\ (d # 0 => d - 1 \in 0 .. n - 1)
        BY <3>2
      <4>2. f[d] = g[d] /\ (d # 0 => f[d - 1] = g[d - 1])
        BY <2>2, <4>1
      <4>3. g[d] = Hop(edges, from, dir, without, g, d)
        BY <2>1, <4>1
      <4> HIDE DEF f
      <4> QED
        BY <4>2, <4>3 DEF Hop
    <3> QED
      BY <3>1, <3>2
  <2>4. f = [d \in 0 .. n |-> Hop(edges, from, dir, without, f, d)]
    BY <2>3
  <2> HIDE DEF f
  <2>5. Hops(edges, from, dir, without, n, f)
    BY <2>4 DEF Hops
  <2> QED
    BY <2>5
<1> HIDE DEF G
<1>3. \A d \in 0 .. D : d \in G
  BY <1>1, <1>2, UpTo
<1> QED
  BY <1>3 DEF G

\* An edge that is followed ends where it leads.
LEMMA NeighboursAreSteps ==
  ASSUME NEW edges, NEW dir, NEW u, NEW w
  PROVE  w \in Neighbours(edges, u, dir) <=> Step(edges, dir, u, w)
  BY DEF Neighbours, Step, Follows

LEMMA HopsWalk ==
  ASSUME NEW edges, NEW from, NEW dir, NEW without, NEW D \in Nat, NEW f,
         Hops(edges, from, dir, without, D, f)
  PROVE  Walk(edges, from, dir, without, D, f)
<1>1. ASSUME NEW d \in 0 .. D
      PROVE  f[d] = Hop(edges, from, dir, without, f, d)
  BY DEF Hops
<1>2. f[0] = {from}
  <2>1. 0 \in 0 .. D
    OBVIOUS
  <2>2. f[0] = Hop(edges, from, dir, without, f, 0)
    BY <1>1, <2>1
  <2> QED
    BY <2>2 DEF Hop
<1>3. ASSUME NEW d \in 1 .. D, NEW w
      PROVE  w \in f[d] <=> w \in f[d - 1] \/ (w \notin without /\ \E u \in f[d - 1] : Step(edges, dir, u, w))
  <2>1. f[d] = f[d - 1] \cup ((UNION {Neighbours(edges, u, dir) : u \in f[d - 1]}) \ without)
    <3>1. d \in 0 .. D /\ d # 0
      OBVIOUS
    <3> QED
      BY <1>1, <3>1 DEF Hop
  <2>2. w \in UNION {Neighbours(edges, u, dir) : u \in f[d - 1]}
           <=> \E u \in f[d - 1] : w \in Neighbours(edges, u, dir)
    OBVIOUS
  <2>3. \A u : w \in Neighbours(edges, u, dir) <=> Step(edges, dir, u, w)
    BY NeighboursAreSteps
  <2> QED
    BY <2>1, <2>2, <2>3
<1> QED
  BY <1>2, <1>3 DEF Walk

\* ReachableNodeIds walks, unless its root is excluded.
LEMMA ReachWalks ==
  ASSUME NEW edges, NEW from, NEW dir, NEW without, NEW D \in Nat, from \notin without
  PROVE  \E f : /\ Walk(edges, from, dir, without, D, f)
                /\ ReachableNodeIds(edges, from, dir, D, without) = f[D]
<1> DEFINE f == CHOOSE g : Hops(edges, from, dir, without, D, g)
<1>1. Hops(edges, from, dir, without, D, f)
  BY HopsExist
<1>2. ReachableNodeIds(edges, from, dir, D, without) = f[D]
  BY DEF ReachableNodeIds, Hops, Hop
<1> HIDE DEF f
<1>3. Walk(edges, from, dir, without, D, f)
  BY <1>1, HopsWalk
<1> QED
  BY <1>2, <1>3

\* A path of n edges over open nodes.
Path(edges, from, dir, open, w, n) ==
    \E p \in [1 .. (n - 1) -> open] :
        \A i \in 1 .. n : Step(edges, dir, IF i = 1 THEN from ELSE p[i - 1], IF i = n THEN w ELSE p[i])

LEMMA OneEdgePath ==
  ASSUME NEW edges, NEW from, NEW dir, NEW open, NEW w
  PROVE  Path(edges, from, dir, open, w, 1) <=> Step(edges, dir, from, w)
<1>1. ASSUME NEW p, NEW i \in 1 .. 1
      PROVE  (IF i = 1 THEN from ELSE p[i - 1]) = from /\ (IF i = 1 THEN w ELSE p[i]) = w
  OBVIOUS
<1>2. 1 \in 1 .. 1
  OBVIOUS
<1>3. \E p : p \in [1 .. (1 - 1) -> open]
  <2>1. [x \in 1 .. (1 - 1) |-> from] \in [1 .. (1 - 1) -> open]
    OBVIOUS
  <2> QED
    BY <2>1
<1>4. ASSUME NEW p
      PROVE  (\A i \in 1 .. 1 : Step(edges, dir, IF i = 1 THEN from ELSE p[i - 1], IF i = 1 THEN w ELSE p[i]))
                <=> Step(edges, dir, from, w)
  BY <1>1, <1>2
<1> QED
  BY <1>3, <1>4 DEF Path

LEMMA LongerPath ==
  ASSUME NEW edges, NEW from, NEW dir, NEW open, NEW u \in open, NEW w, NEW n \in Nat \ {0},
         Path(edges, from, dir, open, u, n), Step(edges, dir, u, w)
  PROVE  Path(edges, from, dir, open, w, n + 1)
<1>1. PICK p \in [1 .. (n - 1) -> open] :
         \A i \in 1 .. n : Step(edges, dir, IF i = 1 THEN from ELSE p[i - 1], IF i = n THEN u ELSE p[i])
  BY DEF Path
<1> DEFINE q == [i \in 1 .. n |-> IF i = n THEN u ELSE p[i]]
<1>2. q \in [1 .. n -> open]
  <2>1. ASSUME NEW i \in 1 .. n PROVE (IF i = n THEN u ELSE p[i]) \in open
    <3>1. i # n => i \in 1 .. (n - 1)
      OBVIOUS
    <3> QED
      BY <3>1
  <2> QED
    BY <2>1
<1>3. ASSUME NEW i \in 1 .. (n + 1)
      PROVE  Step(edges, dir, IF i = 1 THEN from ELSE q[i - 1], IF i = n + 1 THEN w ELSE q[i])
  <2>1. CASE i = n + 1
    <3>1. i # 1 /\ i - 1 \in 1 .. n /\ i - 1 = n
      BY <2>1
    <3>2. q[i - 1] = u
      BY <3>1
    <3> HIDE DEF q
    <3> QED
      BY <2>1, <3>1, <3>2
  <2>2. CASE i # n + 1
    <3>1. i \in 1 .. n /\ (i # 1 => i - 1 \in 1 .. n /\ i - 1 # n)
      BY <2>2
    <3>2. i # 1 => q[i - 1] = p[i - 1]
      BY <3>1
    <3>3. q[i] = IF i = n THEN u ELSE p[i]
      BY <3>1
    <3>4. Step(edges, dir, IF i = 1 THEN from ELSE p[i - 1], IF i = n THEN u ELSE p[i])
      BY <1>1, <3>1
    <3> HIDE DEF q
    <3> QED
      BY <2>2, <3>2, <3>3, <3>4
  <2> QED
    BY <2>1, <2>2
<1> HIDE DEF q
<1>4. (n + 1) - 1 = n
  OBVIOUS
<1> QED
  BY <1>2, <1>3, <1>4 DEF Path

LEMMA ShorterPath ==
  ASSUME NEW edges, NEW from, NEW dir, NEW open, NEW w, NEW n \in Nat, n > 1,
         Path(edges, from, dir, open, w, n)
  PROVE  \E u \in open : Path(edges, from, dir, open, u, n - 1) /\ Step(edges, dir, u, w)
<1>1. PICK p \in [1 .. (n - 1) -> open] :
         \A i \in 1 .. n : Step(edges, dir, IF i = 1 THEN from ELSE p[i - 1], IF i = n THEN w ELSE p[i])
  BY DEF Path
<1>2. n \in 1 .. n /\ n # 1 /\ n - 1 \in 1 .. (n - 1)
  OBVIOUS
<1>3. p[n - 1] \in open /\ Step(edges, dir, p[n - 1], w)
  BY <1>1, <1>2
<1> DEFINE q == [i \in 1 .. ((n - 1) - 1) |-> p[i]]
<1>4. q \in [1 .. ((n - 1) - 1) -> open]
  <2>1. \A i \in 1 .. ((n - 1) - 1) : i \in 1 .. (n - 1)
    OBVIOUS
  <2> QED
    BY <2>1
<1>5. ASSUME NEW i \in 1 .. (n - 1)
      PROVE  Step(edges, dir, IF i = 1 THEN from ELSE q[i - 1], IF i = n - 1 THEN p[n - 1] ELSE q[i])
  <2>1. i \in 1 .. n /\ i # n
    OBVIOUS
  <2>2. Step(edges, dir, IF i = 1 THEN from ELSE p[i - 1], p[i])
    BY <1>1, <2>1
  <2>3. i # 1 => q[i - 1] = p[i - 1]
    <3>1. i # 1 => i - 1 \in 1 .. ((n - 1) - 1)
      OBVIOUS
    <3> QED
      BY <3>1
  <2>4. i # n - 1 => q[i] = p[i]
    <3>1. i # n - 1 => i \in 1 .. ((n - 1) - 1)
      OBVIOUS
    <3> QED
      BY <3>1
  <2> HIDE DEF q
  <2> QED
    BY <2>2, <2>3, <2>4
<1> HIDE DEF q
<1>6. Path(edges, from, dir, open, p[n - 1], n - 1)
  BY <1>4, <1>5 DEF Path
<1> QED
  BY <1>3, <1>6

\* A walk of D hops over a graph finds what a path of 1 .. D edges leads to.
LEMMA WalkFollowsPaths ==
  ASSUME NEW edges, NEW from, NEW dir, NEW open, NEW D \in Nat, NEW f,
         Walk(edges, from, dir, {}, D, f),
         \A e \in edges : e.source \in open /\ e.target \in open
  PROVE  \A w : w \in f[D] <=> w = from \/ (w \in open /\ \E n \in 1 .. D : Path(edges, from, dir, open, w, n))
<1> DEFINE Found(w, d) == w = from \/ (w \in open /\ \E n \in 1 .. d : Path(edges, from, dir, open, w, n))
           G == {d \in 0 .. D : \A w : w \in f[d] <=> Found(w, d)}
<1>1. 0 \in G
  <2>1. f[0] = {from} /\ 1 .. 0 = {} /\ 0 \in 0 .. D
    BY DEF Walk
  <2> QED
    BY <2>1
<1>2. ASSUME NEW d \in 1 .. D, d - 1 \in G
      PROVE  d \in G
  <2>1. \A w : w \in f[d] <=> w \in f[d - 1] \/ \E u \in f[d - 1] : Step(edges, dir, u, w)
    BY DEF Walk
  <2>2. \A w : w \in f[d - 1] <=> Found(w, d - 1)
    BY <1>2
  <2>3. \A u, w : Step(edges, dir, u, w) => w \in open
    BY DEF Step, Follows
  <2>4. d - 1 \in Nat /\ (\A n \in 1 .. (d - 1) : n \in 1 .. d /\ n + 1 \in 1 .. d /\ n \in Nat \ {0}) /\ 1 \in 1 .. d
    OBVIOUS
  <2>5. ASSUME NEW w, w \in f[d] PROVE Found(w, d)
    <3>1. CASE w \in f[d - 1]
      BY <2>2, <2>4, <3>1
    <3>2. CASE w \notin f[d - 1]
      <4>1. PICK u \in f[d - 1] : Step(edges, dir, u, w)
        BY <2>1, <2>5, <3>2
      <4>2. w \in open
        BY <2>3, <4>1
      <4>3. CASE u = from
        <5>1. Path(edges, from, dir, open, w, 1)
          BY <4>1, <4>3, OneEdgePath
        <5> QED
          BY <2>4, <4>2, <5>1
      <4>4. CASE u # from
        <5>1. PICK n \in 1 .. (d - 1) : u \in open /\ Path(edges, from, dir, open, u, n)
          BY <2>2, <4>1, <4>4
        <5>2. Path(edges, from, dir, open, w, n + 1)
          BY <2>4, <4>1, <5>1, LongerPath
        <5> QED
          BY <2>4, <4>2, <5>2
      <4> QED
        BY <4>3, <4>4
    <3> QED
      BY <3>1, <3>2
  <2>6. ASSUME NEW w, Found(w, d) PROVE w \in f[d]
    <3>1. CASE w = from
      BY <2>1, <2>2, <3>1
    <3>2. CASE w # from
      <4>1. PICK n \in 1 .. d : w \in open /\ Path(edges, from, dir, open, w, n)
        BY <2>6, <3>2
      <4>2. CASE n = 1
        <5>1. Step(edges, dir, from, w)
          BY <4>1, <4>2, OneEdgePath
        <5> QED
          BY <2>1, <2>2, <5>1
      <4>3. CASE n # 1
        <5>1. n \in Nat /\ n > 1 /\ n - 1 \in 1 .. (d - 1)
          BY <4>3
        <5>2. PICK u \in open : Path(edges, from, dir, open, u, n - 1) /\ Step(edges, dir, u, w)
          BY <4>1, <5>1, ShorterPath
        <5> QED
          BY <2>1, <2>2, <5>1, <5>2
      <4> QED
        BY <4>2, <4>3
    <3> QED
      BY <3>1, <3>2
  <2>7. d \in 0 .. D
    OBVIOUS
  <2> QED
    BY <2>5, <2>6, <2>7
<1> HIDE DEF G
<1>3. \A d \in 0 .. D : d \in G
  BY <1>1, <1>2, UpTo
<1> QED
  BY <1>3 DEF G

\* No step leads out of S onto an open node.
Closed(edges, dir, S, open) == \A u \in S, w \in open : Step(edges, dir, u, w) => w \in S

Least(edges, from, dir, open) ==
    {from} \cup {w \in open : \A S \in SUBSET (open \cup {from}) :
                               from \in S /\ Closed(edges, dir, S, open) => w \in S}

\* Every edge end is open, the root or excluded, and nothing open is excluded.
Fenced(edges, from, without, open) ==
    /\ \A e \in edges : {e.source, e.target} \subseteq open \cup {from} \cup without
    /\ open \cap without = {}

LEMMA RootIsWalked ==
  ASSUME NEW edges, NEW from, NEW dir, NEW without, NEW D \in Nat, NEW f,
         Walk(edges, from, dir, without, D, f)
  PROVE  \A d \in 0 .. D : from \in f[d]
<1> DEFINE G == {d \in 0 .. D : from \in f[d]}
<1>1. 0 \in G
  BY DEF Walk
<1>2. ASSUME NEW d \in 1 .. D, d - 1 \in G
      PROVE  d \in G
  BY <1>2 DEF Walk
<1> HIDE DEF G
<1>3. \A d \in 0 .. D : d \in G
  BY <1>1, <1>2, UpTo
<1> QED
  BY <1>3 DEF G

LEMMA WalkStays ==
  ASSUME NEW edges, NEW from, NEW dir, NEW without, NEW open, NEW D \in Nat, NEW f,
         Walk(edges, from, dir, without, D, f), Fenced(edges, from, without, open)
  PROVE  \A d \in 0 .. D : f[d] \subseteq open \cup {from}
<1> DEFINE G == {d \in 0 .. D : f[d] \subseteq open \cup {from}}
<1>1. 0 \in G
  BY DEF Walk
<1>2. ASSUME NEW d \in 1 .. D, d - 1 \in G
      PROVE  d \in G
  <2>1. \A w : w \in f[d] <=> w \in f[d - 1] \/ (w \notin without /\ \E u \in f[d - 1] : Step(edges, dir, u, w))
    BY DEF Walk
  <2>2. \A u, w : Step(edges, dir, u, w) => w \in open \cup {from} \cup without
    BY DEF Step, Follows, Fenced
  <2>3. f[d - 1] \subseteq open \cup {from} /\ d \in 0 .. D
    BY <1>2
  <2>4. f[d] \subseteq open \cup {from}
    BY <2>1, <2>2, <2>3
  <2> QED
    BY <2>3, <2>4
<1> HIDE DEF G
<1>3. \A d \in 0 .. D : d \in G
  BY <1>1, <1>2, UpTo
<1> QED
  BY <1>3 DEF G

LEMMA WalkIsInClosed ==
  ASSUME NEW edges, NEW from, NEW dir, NEW without, NEW open, NEW D \in Nat, NEW f,
         Walk(edges, from, dir, without, D, f), Fenced(edges, from, without, open),
         NEW S, from \in S, Closed(edges, dir, S, open)
  PROVE  f[D] \subseteq S
<1> DEFINE G == {d \in 0 .. D : f[d] \subseteq S}
<1>1. 0 \in G
  BY DEF Walk
<1>2. ASSUME NEW d \in 1 .. D, d - 1 \in G
      PROVE  d \in G
  <2>1. \A w : w \in f[d] <=> w \in f[d - 1] \/ (w \notin without /\ \E u \in f[d - 1] : Step(edges, dir, u, w))
    BY DEF Walk
  <2>2. \A u, w : Step(edges, dir, u, w) /\ w \notin without => w \in open \cup {from}
    BY DEF Step, Follows, Fenced
  <2>3. f[d - 1] \subseteq S /\ d \in 0 .. D
    BY <1>2
  <2>4. ASSUME NEW w, w \in f[d] PROVE w \in S
    BY <2>1, <2>2, <2>3, <2>4 DEF Closed
  <2> QED
    BY <2>3, <2>4
<1> HIDE DEF G
<1>3. \A d \in 0 .. D : d \in G
  BY <1>1, <1>2, UpTo
<1> QED
  BY <1>3 DEF G

\* Until the walk is closed every hop finds another node.
LEMMA WalkGrows ==
  ASSUME NEW edges, NEW from, NEW dir, NEW without, NEW open, NEW D \in Nat, NEW f,
         Walk(edges, from, dir, without, D, f), Fenced(edges, from, without, open), IsFiniteSet(open)
  PROVE  Closed(edges, dir, f[D], open) \/ Cardinality(f[D]) >= D + 1
<1> DEFINE G == {d \in 0 .. D : Closed(edges, dir, f[d], open) \/ Cardinality(f[d]) >= d + 1}
<1>1. 0 \in G
  <2>1. f[0] = {from} /\ Cardinality({from}) = 1 /\ 0 \in 0 .. D
    BY FS_Singleton DEF Walk
  <2>2. Cardinality(f[0]) >= 0 + 1
    BY <2>1
  <2> QED
    BY <2>1, <2>2
<1>2. ASSUME NEW d \in 1 .. D, d - 1 \in G
      PROVE  d \in G
  <2>1. \A w : w \in f[d] <=> w \in f[d - 1] \/ (w \notin without /\ \E u \in f[d - 1] : Step(edges, dir, u, w))
    BY DEF Walk
  <2>2. d \in 0 .. D /\ d - 1 \in 0 .. D /\ d \in Nat
    OBVIOUS
  <2>3. f[d] \subseteq open \cup {from} /\ IsFiniteSet(open \cup {from})
    BY <2>2, WalkStays, FS_AddElement
  <2>4. f[d - 1] \subseteq f[d] /\ IsFiniteSet(f[d])
    BY <2>1, <2>3, FS_Subset
  <2>5. CASE f[d] = f[d - 1]
    <3>1. \A w \in open : w \notin without
      BY DEF Fenced
    <3>2. Closed(edges, dir, f[d], open)
      BY <2>1, <2>5, <3>1 DEF Closed
    <3> QED
      BY <2>2, <3>2
  <2>6. CASE f[d] # f[d - 1]
    <3>1. IsFiniteSet(f[d - 1]) /\ Cardinality(f[d - 1]) <= Cardinality(f[d])
          /\ Cardinality(f[d - 1]) # Cardinality(f[d])
      BY <2>4, <2>6, FS_Subset
    <3>2. Cardinality(f[d - 1]) \in Nat /\ Cardinality(f[d]) \in Nat
      BY <2>4, <3>1, FS_CardinalityType
    <3>3. \E w \in f[d] : w \notin f[d - 1]
      BY <2>4, <2>6
    <3>4. ~ Closed(edges, dir, f[d - 1], open)
      <4>1. PICK w \in f[d] : w \notin f[d - 1]
        BY <3>3
      <4>2. PICK u \in f[d - 1] : Step(edges, dir, u, w) /\ w \notin without
        BY <2>1, <4>1
      <4>3. w # from
        BY <2>2, <4>1, RootIsWalked
      <4>4. w \in open
        BY <2>3, <4>1, <4>3
      <4> QED
        BY <4>1, <4>2, <4>4 DEF Closed
    <3>5. Cardinality(f[d - 1]) >= (d - 1) + 1
      BY <1>2, <3>4
    <3>6. Cardinality(f[d]) >= d + 1
      BY <2>2, <3>1, <3>2, <3>5
    <3> QED
      BY <2>2, <3>6
  <2> QED
    BY <2>5, <2>6
<1> HIDE DEF G
<1>3. \A d \in 0 .. D : d \in G
  BY <1>1, <1>2, UpTo
<1>4. D \in G
  BY <1>3
<1> QED
  BY <1>4 DEF G

\* As many hops as there are open nodes close the walk.
LEMMA WalkCloses ==
  ASSUME NEW edges, NEW from, NEW dir, NEW without, NEW open, NEW D \in Nat, NEW f,
         Walk(edges, from, dir, without, D, f), Fenced(edges, from, without, open),
         IsFiniteSet(open), Cardinality(open) <= D
  PROVE  Closed(edges, dir, f[D], open)
<1>1. D \in 0 .. D
  OBVIOUS
<1>2. f[D] \subseteq open \cup {from}
  BY <1>1, WalkStays
<1>3. SUFFICES ASSUME Cardinality(f[D]) >= D + 1 PROVE Closed(edges, dir, f[D], open)
  BY WalkGrows
<1>4. IsFiniteSet(open \cup {from}) /\ Cardinality(open \cup {from}) <= Cardinality(open) + 1
      /\ Cardinality(open) \in Nat /\ Cardinality(open \cup {from}) \in Nat
  BY FS_AddElement, FS_CardinalityType
<1>5. IsFiniteSet(f[D]) /\ Cardinality(f[D]) <= Cardinality(open \cup {from})
      /\ (Cardinality(open \cup {from}) = Cardinality(f[D]) => open \cup {from} = f[D])
  BY <1>2, <1>4, FS_Subset
<1>6. Cardinality(f[D]) \in Nat
  BY <1>5, FS_CardinalityType
<1>7. Cardinality(open \cup {from}) = Cardinality(f[D])
  BY <1>3, <1>4, <1>5, <1>6
<1> QED
  BY <1>5, <1>7 DEF Closed

LEMMA ClosedWalkIsLeast ==
  ASSUME NEW edges, NEW from, NEW dir, NEW without, NEW open, NEW D \in Nat, NEW f,
         Walk(edges, from, dir, without, D, f), Fenced(edges, from, without, open)
  PROVE  Closed(edges, dir, f[D], open) <=> f[D] = Least(edges, from, dir, open)
<1>1. f[D] \in SUBSET (open \cup {from})
  <2>1. D \in 0 .. D
    OBVIOUS
  <2> QED
    BY <2>1, WalkStays
<1>2. f[D] \subseteq Least(edges, from, dir, open)
  <2>1. ASSUME NEW S, from \in S, Closed(edges, dir, S, open) PROVE f[D] \subseteq S
    BY <2>1, WalkIsInClosed
  <2> QED
    BY <1>1, <2>1 DEF Least
<1>3. ASSUME Closed(edges, dir, f[D], open)
      PROVE  Least(edges, from, dir, open) \subseteq f[D]
  <2>1. from \in f[D]
    <3>1. D \in 0 .. D
      OBVIOUS
    <3> QED
      BY <3>1, RootIsWalked
  <2> QED
    BY <1>1, <1>3, <2>1 DEF Least
<1>4. ASSUME f[D] = Least(edges, from, dir, open)
      PROVE  Closed(edges, dir, f[D], open)
  <2>1. SUFFICES ASSUME NEW u \in f[D], NEW w \in open, Step(edges, dir, u, w)
                 PROVE  w \in f[D]
    BY DEF Closed
  <2>2. ASSUME NEW S \in SUBSET (open \cup {from}), from \in S, Closed(edges, dir, S, open)
        PROVE  w \in S
    <3>1. u \in S
      BY <1>4, <2>2 DEF Least
    <3> QED
      BY <2>1, <2>2, <3>1 DEF Closed
  <2>3. w \in Least(edges, from, dir, open)
    BY <2>2 DEF Least
  <2> QED
    BY <1>4, <2>3
<1> QED
  BY <1>2, <1>3, <1>4

\* ReachableNodeIds with nothing excluded: the paths of up to D edges.
LEMMA ReachIsPaths ==
  ASSUME NEW edges, NEW from, NEW dir, NEW nodes, NEW D \in Nat,
         \A e \in edges : e.source \in nodes /\ e.target \in nodes
  PROVE  \A w : w \in ReachableNodeIds(edges, from, dir, D, {})
                  <=> w = from \/ (w \in nodes /\ \E n \in 1 .. D : Path(edges, from, dir, nodes, w, n))
<1>1. PICK f : Walk(edges, from, dir, {}, D, f) /\ ReachableNodeIds(edges, from, dir, D, {}) = f[D]
  BY ReachWalks
<1>2. \A w : w \in f[D] <=> w = from \/ (w \in nodes /\ \E n \in 1 .. D : Path(edges, from, dir, nodes, w, n))
  BY <1>1, WalkFollowsPaths
<1> QED
  BY <1>1, <1>2

\* With hops enough: the least closed set.
LEMMA ReachIsLeast ==
  ASSUME NEW edges, NEW from, NEW dir, NEW without, NEW open, NEW D \in Nat,
         from \notin without, Fenced(edges, from, without, open),
         IsFiniteSet(open), Cardinality(open) <= D
  PROVE  ReachableNodeIds(edges, from, dir, D, without) = Least(edges, from, dir, open)
<1>1. PICK f : Walk(edges, from, dir, without, D, f) /\ ReachableNodeIds(edges, from, dir, D, without) = f[D]
  BY ReachWalks
<1>2. Closed(edges, dir, f[D], open)
  BY <1>1, WalkCloses
<1> QED
  BY <1>1, <1>2, ClosedWalkIsLeast

\* With any number of hops it is the least closed set as soon as it is closed.
LEMMA ReachIsLeastIfClosed ==
  ASSUME NEW edges, NEW from, NEW dir, NEW nodes, NEW D \in Nat,
         \A e \in edges : e.source \in nodes /\ e.target \in nodes
  PROVE  LET reach == ReachableNodeIds(edges, from, dir, D, {})
         IN  Closed(edges, dir, reach, nodes) <=> reach = Least(edges, from, dir, nodes)
<1>1. PICK f : Walk(edges, from, dir, {}, D, f) /\ ReachableNodeIds(edges, from, dir, D, {}) = f[D]
  BY ReachWalks
<1>2. Fenced(edges, from, {}, nodes)
  BY DEF Fenced
<1> QED
  BY <1>1, <1>2, ClosedWalkIsLeast

LEMMA LeastIsWithin ==
  ASSUME NEW edges, NEW from, NEW dir, NEW open
  PROVE  Least(edges, from, dir, open) \subseteq open \cup {from}
  BY DEF Least

-----------------------------------------------------------------------------
(* The graphs a panel is built on.                                         *)

\* A finite graph whose edges join its nodes.
GraphOK(graph) ==
    /\ IsFiniteSet(graph.nodes)
    /\ \A e \in graph.edges : e.source \in graph.nodes /\ e.target \in graph.nodes

LEMMA CollapsedEnds ==
  ASSUME NEW edges, NEW e \in CollapseParallelFkEdges(edges)
  PROVE  \E f \in edges : e.source = f.source /\ e.target = f.target
  BY DEF CollapseParallelFkEdges

LEMMA AnnotatedEnds ==
  ASSUME NEW graph, NEW e \in AnnotateFkCardinality(Catalog, graph).edges
  PROVE  \E f \in graph.edges : e.source = f.source /\ e.target = f.target
<1>1. PICK f \in graph.edges : e = AnnotateFkEdge(Catalog, f)
  BY DEF AnnotateFkCardinality
<1> QED
  BY <1>1 DEF AnnotateFkEdge

LEMMA SchemaGraphOK ==
  ASSUME NEW cards \in BOOLEAN
  PROVE  GraphOK(AnnotateFkCardinality(Catalog, BuildSchemaDiagram(Catalog, HomeSchema, cards)))
<1> DEFINE graph == BuildSchemaDiagram(Catalog, HomeSchema, cards)
           tables == TablesOf(Catalog, HomeSchema)
           target(k) == <<HomeSchema, Catalog.keys[k].refTable[2]>>
           edges == {FkEdge(Catalog.keys[k].table, target(k), k) :
                       k \in {n \in DOMAIN Catalog.keys : /\ Catalog.keys[n].table \in tables
                                                          /\ target(n) \in tables}}
<1>1. graph.nodes = tables /\ graph.edges = IF cards THEN edges ELSE CollapseParallelFkEdges(edges)
  BY DEF BuildSchemaDiagram
<1>2. ASSUME NEW e \in edges PROVE e.source \in tables /\ e.target \in tables
  <2>1. PICK k \in DOMAIN Catalog.keys : /\ e = FkEdge(Catalog.keys[k].table, target(k), k)
                                         /\ Catalog.keys[k].table \in tables /\ target(k) \in tables
    OBVIOUS
  <2> QED
    BY <2>1 DEF FkEdge
<1> HIDE DEF edges, graph
<1>3. IsFiniteSet(tables)
  BY DiagramAssumption, FS_Subset DEF TablesOf
<1>4. \A e \in graph.edges : e.source \in tables /\ e.target \in tables
  BY <1>1, <1>2, CollapsedEnds
<1>5. AnnotateFkCardinality(Catalog, graph).nodes = graph.nodes
  BY DEF AnnotateFkCardinality
<1>6. \A e \in AnnotateFkCardinality(Catalog, graph).edges : e.source \in tables /\ e.target \in tables
  BY <1>4, AnnotatedEnds
<1>7. GraphOK(AnnotateFkCardinality(Catalog, graph))
  BY <1>1, <1>3, <1>5, <1>6 DEF GraphOK
<1> QED
  BY <1>7 DEF graph

LEMMA DatabaseGraphOK == GraphOK(BuildDatabaseDiagram(Catalog))
<1> DEFINE edges == {FkEdge(Catalog.keys[k].table, Catalog.keys[k].refTable, k) :
                       k \in {n \in DOMAIN Catalog.keys : Catalog.keys[n].refTable \in Catalog.tables}}
<1>1. /\ BuildDatabaseDiagram(Catalog).nodes = Catalog.tables
      /\ BuildDatabaseDiagram(Catalog).edges = CollapseParallelFkEdges(edges)
  BY DEF BuildDatabaseDiagram
<1>2. \A e \in edges : e.source \in Catalog.tables /\ e.target \in Catalog.tables
  BY DiagramAssumption DEF FkEdge
<1> HIDE DEF edges
<1> QED
  BY <1>1, <1>2, CollapsedEnds, DiagramAssumption DEF GraphOK

LEMMA ImageIsFinite ==
  ASSUME NEW S, IsFiniteSet(S), NEW i
  PROVE  IsFiniteSet({p[i] : p \in S})
<1> DEFINE T == {p[i] : p \in S}
           f == [p \in S |-> p[i]]
<1>1. f \in Surjection(S, T)
  BY DEF Surjection
<1> HIDE DEF f, T
<1>2. IsFiniteSet(T)
  BY <1>1, FS_Surjection
<1> QED
  BY <1>2 DEF T

LEMMA RelationGraphOK == GraphOK(BuildRelationGraph(Dependencies))
<1>1. IsFiniteSet({p[1] : p \in Dependencies}) /\ IsFiniteSet({p[2] : p \in Dependencies})
  <2>1. IsFiniteSet(Dependencies)
    BY DiagramAssumption
  <2>2. IsFiniteSet({p[1] : p \in Dependencies})
    BY <2>1, ImageIsFinite
  <2>3. IsFiniteSet({p[2] : p \in Dependencies})
    BY <2>1, ImageIsFinite
  <2> QED
    BY <2>2, <2>3, Zenon
<1>2. IsFiniteSet({p[1] : p \in Dependencies} \cup {p[2] : p \in Dependencies})
  BY <1>1, FS_Union
<1> QED
  BY <1>2 DEF BuildRelationGraph, GraphOK

LEMMA FullOK ==
  ASSUME NEW k \in Kinds
  PROVE  GraphOK(Full[k])
<1>1. k \in {"schema", "relation"} => Full[k] = AnnotateFkCardinality(Catalog, BuildSchemaDiagram(Catalog, HomeSchema, k = "relation"))
  BY DEF Full
<1>2. k = "database" => Full[k] = BuildDatabaseDiagram(Catalog)
  BY DEF Full
<1>3. k \in {"graph", "rooted"} => Full[k] = BuildRelationGraph(Dependencies)
  BY DEF Full
<1>4. k \in {"schema", "relation", "graph", "rooted", "database"}
  BY DiagramAssumption
<1>5. (k = "relation") \in BOOLEAN
  OBVIOUS
<1> QED
  BY <1>1, <1>2, <1>3, <1>4, <1>5, SchemaGraphOK, DatabaseGraphOK, RelationGraphOK

-----------------------------------------------------------------------------
(* The inductive invariant: the controls are what the panel offers, and    *)
(* base, legend and the graph the view was given last are what they make.  *)

ControlsOK ==
    /\ kind \in Kinds
    /\ IF Fixed THEN root \in FixedRoots ELSE root \in Full[kind].nodes \cup {NoRoot}
    /\ direction \in Directions /\ depth \in DepthChoices
    /\ mode \in {"overview", "tables"} /\ (kind # "database" => mode = "tables")
    /\ coverage \in BOOLEAN /\ (coverage => kind = "relation")

HiddenSchemas == kind = "database" => hidden \subseteq Catalog.schemas

BaseIsDerived == base = DerivedBase(kind, root, direction, depth)

GivenIsFiltered ==
    incoming = IF OnTables THEN FilteredGraph(base, root, direction, prune, hidden, coverage) ELSE Overview

PanelInv == ControlsOK /\ HiddenSchemas /\ BaseIsDerived /\ (OnTables => LegendTells) /\ GivenIsFiltered

-----------------------------------------------------------------------------
(* What is shown, by the invariant.                                        *)

\* The nodes around the root.
Near == ReachableNodeIds(Full[kind].edges, root, direction, DepthFromChoice(depth, Full[kind]), {})

LEMMA DepthIsNatural ==
  ASSUME NEW k \in Kinds, NEW choice \in DepthChoices
  PROVE  DepthFromChoice(choice, Full[k]) \in Nat
<1>1. Cardinality(Full[k].nodes) \in Nat
  BY FullOK, FS_CardinalityType DEF GraphOK
<1> QED
  BY <1>1 DEF DepthFromChoice, DepthChoices

\* What paths of up to D edges lead to.
Around(edges, from, dir, open, D) ==
    {from} \cup {w \in open : \E n \in 1 .. D : Path(edges, from, dir, open, w, n)}

\* Within, said with the operators above.
LEMMA WithinHops ==
  ASSUME NEW graph, NEW without, NEW choice, choice # "All"
  PROVE  Within(graph, without, choice)
            = Around(graph.edges, root, direction, graph.nodes \ without, DepthFromChoice(choice, graph))
  BY DEF Within, Around, Path, Step

LEMMA WithinAll ==
  ASSUME NEW graph, NEW without
  PROVE  Within(graph, without, "All") = Least(graph.edges, root, direction, graph.nodes \ without)
  BY DEF Within, Least, Closed, Step

LEMMA NearFacts ==
  ASSUME ControlsOK
  PROVE  /\ root \in Near /\ Near \subseteq Full[kind].nodes \cup {root}
         /\ Near = Within(Full[kind], {}, depth)
<1> DEFINE full == Full[kind]
           D == DepthFromChoice(depth, full)
<1>1. D \in Nat /\ GraphOK(full) /\ depth \in DepthChoices
  BY DepthIsNatural, FullOK DEF ControlsOK
<1>2. full.nodes \ {} = full.nodes
  OBVIOUS
<1> HIDE DEF full
<1>3. \A w : w \in ReachableNodeIds(full.edges, root, direction, D, {})
                <=> w = root \/ (w \in full.nodes /\ \E n \in 1 .. D : Path(full.edges, root, direction, full.nodes, w, n))
  BY <1>1, ReachIsPaths DEF GraphOK
<1>4. CASE depth = "All"
  <2>1. D = Cardinality(full.nodes)
    BY <1>4 DEF DepthFromChoice
  <2>2. Fenced(full.edges, root, {}, full.nodes) /\ Cardinality(full.nodes) <= D /\ IsFiniteSet(full.nodes)
    BY <1>1, <2>1 DEF GraphOK, Fenced
  <2>3. ReachableNodeIds(full.edges, root, direction, D, {}) = Least(full.edges, root, direction, full.nodes)
    BY <1>1, <2>2, ReachIsLeast
  <2>4. Within(full, {}, depth) = Least(full.edges, root, direction, full.nodes)
    BY <1>2, <1>4, WithinAll
  <2> QED
    BY <1>3, <2>3, <2>4 DEF Near, full
<1>5. CASE depth # "All"
  <2>1. Within(full, {}, depth) = Around(full.edges, root, direction, full.nodes, D)
    BY <1>2, <1>5, WithinHops
  <2> QED
    BY <1>3, <2>1 DEF Near, full, Around
<1> QED
  BY <1>4, <1>5

LEMMA RootedBase ==
  ASSUME ControlsOK, BaseIsDerived, root # NoRoot
  PROVE  /\ base.nodes = Near
         /\ base.edges = {e \in Full[kind].edges : e.source \in Near /\ e.target \in Near}
         /\ base.badges = WithDepthBadges(base, Full[kind].edges, direction).badges
<1> DEFINE full == Full[kind]
           D == DepthFromChoice(depth, full)
           rooted == RootedDiagram(full, root, direction, D)
<1>1. base = WithDepthBadges(rooted, full.edges, direction)
  BY DEF ControlsOK, Fixed, BaseIsDerived, DerivedBase
<1>2. Near \cup {root} = Near /\ Near \subseteq full.nodes \cup {root}
  BY NearFacts
<1>3. /\ rooted.nodes = (full.nodes \cap (Near \cup {root})) \cup {root}
      /\ rooted.edges = {e \in full.edges : e.source \in Near \cup {root} /\ e.target \in Near \cup {root}}
  BY DEF RootedDiagram, Subgraph, Near
<1>4. rooted.nodes = Near
  BY <1>2, <1>3
<1>5. base.nodes = rooted.nodes /\ base.edges = rooted.edges
  BY <1>1 DEF WithDepthBadges
<1>6. base.badges = WithDepthBadges(base, full.edges, direction).badges
  BY <1>1, <1>5 DEF WithDepthBadges
<1> QED
  BY <1>2, <1>3, <1>4, <1>5, <1>6

LEMMA UnrootedBase ==
  ASSUME BaseIsDerived, root = NoRoot
  PROVE  base.nodes = Full[kind].nodes /\ base.edges = Full[kind].edges /\ base.badges = {}
  BY DEF BaseIsDerived, DerivedBase, Unbadged

\* The edges of the base are all there are between its nodes.
LEMMA BaseIsInduced ==
  ASSUME ControlsOK, BaseIsDerived
  PROVE  base.edges = {e \in Full[kind].edges : e.source \in base.nodes /\ e.target \in base.nodes}
<1>1. CASE root = NoRoot
  <2>1. GraphOK(Full[kind])
    BY FullOK DEF ControlsOK
  <2> QED
    BY <1>1, <2>1, UnrootedBase DEF GraphOK
<1>2. CASE root # NoRoot
  BY <1>2, RootedBase
<1> QED
  BY <1>1, <1>2

\* What is hidden of the base.
Off == HiddenNodes(base, hidden)

LEMMA ShownNodes ==
  ASSUME ControlsOK, OnTables, GivenIsFiltered
  PROVE  incoming.nodes =
            IF root = NoRoot THEN IF kind = "database" THEN base.nodes \ Off ELSE base.nodes
            ELSE IF prune
                 THEN base.nodes \cap (ReachableNodeIds(base.edges, root, direction, Cardinality(base.nodes), Off) \cup {root})
                 ELSE base.nodes \ Off
<1>1. incoming.nodes = Filtered(base, root, direction, prune, hidden).nodes
  BY DEF GivenIsFiltered, FilteredGraph, Drawn
<1> QED
  BY <1>1 DEF Filtered, ApplyHide, Subgraph, Off

\* The edges shown are all there are between the nodes shown.
LEMMA ShownIsInduced ==
  ASSUME ControlsOK, BaseIsDerived, OnTables, GivenIsFiltered
  PROVE  /\ incoming.nodes \subseteq base.nodes
         /\ incoming.edges = {e \in Full[kind].edges : e.source \in incoming.nodes /\ e.target \in incoming.nodes}
         /\ incoming.tinted = IF coverage THEN {e \in incoming.edges : e.uncovered # {}} ELSE {}
<1> DEFINE filtered == Filtered(base, root, direction, prune, hidden)
<1>1. /\ incoming.nodes = filtered.nodes /\ incoming.edges = filtered.edges
      /\ incoming.tinted = IF coverage THEN {e \in filtered.edges : e.uncovered # {}} ELSE {}
  BY DEF GivenIsFiltered, FilteredGraph, Drawn
<1>2. base.edges = {e \in Full[kind].edges : e.source \in base.nodes /\ e.target \in base.nodes}
  BY BaseIsInduced
<1>3. \E keep : filtered.nodes = base.nodes \cap keep
                /\ filtered.edges = {e \in base.edges : e.source \in keep /\ e.target \in keep}
  <2>1. CASE root # NoRoot
    <3> DEFINE keep == IF prune
                       THEN ReachableNodeIds(base.edges, root, direction, Cardinality(base.nodes), Off) \cup {root}
                       ELSE base.nodes \ Off
    <3>1. filtered = Subgraph(base, keep)
      BY <2>1 DEF Filtered, ApplyHide, Off
    <3> HIDE DEF keep, filtered
    <3> QED
      BY <3>1 DEF Subgraph
  <2>2. CASE root = NoRoot /\ kind = "database"
    <3>1. filtered = Subgraph(base, base.nodes \ Off)
      BY <2>2 DEF Filtered, Off
    <3> HIDE DEF filtered
    <3> QED
      BY <3>1 DEF Subgraph
  <2>3. CASE root = NoRoot /\ kind # "database"
    <3>1. filtered = base
      BY <2>3 DEF Filtered
    <3> HIDE DEF filtered
    <3>2. filtered.nodes = base.nodes \cap base.nodes
      BY <3>1
    <3>3. filtered.edges = {e \in base.edges : e.source \in base.nodes /\ e.target \in base.nodes}
      BY <1>2, <3>1
    <3> QED
      BY <3>2, <3>3
  <2> QED
    BY <2>1, <2>2, <2>3
<1> HIDE DEF filtered
<1>4. PICK keep : filtered.nodes = base.nodes \cap keep
                  /\ filtered.edges = {e \in base.edges : e.source \in keep /\ e.target \in keep}
  BY <1>3
<1>5. filtered.edges = {e \in Full[kind].edges : e.source \in filtered.nodes /\ e.target \in filtered.nodes}
  BY <1>2, <1>4
<1> QED
  BY <1>1, <1>4, <1>5

\* Pruned: what is left in reach of the root when the hidden nodes are gone.
LEMMA PrunedIsAsked ==
  ASSUME ControlsOK, BaseIsDerived, root # NoRoot, root \notin Off
  PROVE  Near \cap (ReachableNodeIds(base.edges, root, direction, Cardinality(base.nodes), Off) \cup {root})
            = Within(Subgraph(Full[kind], Within(Full[kind], {}, depth)), HiddenNodes(Full[kind], hidden), "All")
<1> DEFINE full == Full[kind]
           near == Subgraph(full, Near)
           off  == HiddenNodes(full, hidden)
           open == near.nodes \ off
           reach == ReachableNodeIds(base.edges, root, direction, Cardinality(base.nodes), Off)
<1>1. /\ root \in Near /\ Near \subseteq full.nodes \cup {root}
      /\ Near = Within(full, {}, depth) /\ base.nodes = Near /\ GraphOK(full)
  BY NearFacts, RootedBase, FullOK DEF ControlsOK
<1>2. near.nodes = full.nodes \cap Near /\ near.edges = base.edges
  BY RootedBase DEF Subgraph
<1>3. near.nodes \cap off = near.nodes \cap Off /\ near.nodes \cap Off \subseteq off
  BY <1>1, <1>2 DEF HiddenNodes, Off
<1>4. open \cap Off = {} /\ near.nodes \subseteq open \cup Off
  BY <1>3
<1>5. \A e \in base.edges : e.source \in near.nodes /\ e.target \in near.nodes
  BY <1>1, <1>2, RootedBase DEF GraphOK
<1>6. Fenced(base.edges, root, Off, open)
  BY <1>4, <1>5 DEF Fenced
<1>7. IsFiniteSet(base.nodes) /\ open \subseteq base.nodes
  <2>1. IsFiniteSet(full.nodes \cup {root})
    BY <1>1, FS_AddElement DEF GraphOK
  <2> QED
    BY <1>1, <1>2, <2>1, FS_Subset
<1>8. IsFiniteSet(open) /\ Cardinality(open) <= Cardinality(base.nodes) /\ Cardinality(base.nodes) \in Nat
  BY <1>7, FS_Subset, FS_CardinalityType
<1>9. reach = Least(base.edges, root, direction, open)
  BY <1>6, <1>8, ReachIsLeast
<1>10. Within(near, off, "All") = Least(base.edges, root, direction, open)
  BY <1>2, WithinAll
<1>11. Least(base.edges, root, direction, open) \subseteq open \cup {root} /\ root \in Least(base.edges, root, direction, open)
  BY LeastIsWithin DEF Least
<1> HIDE DEF full, near, off, open, reach
<1>12. Near \cap (reach \cup {root}) = Within(near, off, "All")
  BY <1>1, <1>7, <1>9, <1>10, <1>11
<1>13. near = Subgraph(full, Within(full, {}, depth))
  BY <1>1 DEF near
<1> QED
  BY <1>12, <1>13 DEF full, off, reach

LEMMA ShownIsAsked ==
  ASSUME PanelInv, OnTables, ~ RootHidden
  PROVE  incoming.nodes = AskedNodes /\ (Rooted => root \in incoming.nodes)
<1> USE DEF PanelInv
<1>1. CASE root = NoRoot
  <2>1. incoming.nodes = IF kind = "database" THEN base.nodes \ Off ELSE base.nodes
    BY <1>1, ShownNodes
  <2>2. base.nodes = Full[kind].nodes
    BY <1>1, UnrootedBase
  <2>3. kind = "database" => Off = HiddenNodes(Full[kind], hidden)
    BY <2>2 DEF Off, HiddenNodes
  <2> QED
    BY <1>1, <2>1, <2>2, <2>3 DEF AskedNodes, Rooted
<1>2. CASE root # NoRoot
  <2>1. root \notin Off
    BY <1>2 DEF Off, HiddenNodes, RootHidden, LegendTells
  <2>2. /\ base.nodes = Near /\ root \in Near /\ Near \subseteq Full[kind].nodes \cup {root}
        /\ Near = Within(Full[kind], {}, depth)
    BY <1>2, RootedBase, NearFacts
  <2>3. CASE prune
    <3>1. incoming.nodes = Near \cap (ReachableNodeIds(base.edges, root, direction, Cardinality(base.nodes), Off) \cup {root})
      BY <1>2, <2>2, <2>3, ShownNodes
    <3>2. incoming.nodes = AskedNodes
      BY <1>2, <2>1, <2>3, <3>1, PrunedIsAsked DEF AskedNodes
    <3> QED
      BY <2>2, <3>1, <3>2
  <2>4. CASE ~ prune
    <3>1. incoming.nodes = Near \ Off
      BY <1>2, <2>2, <2>4, ShownNodes
    <3>2. AskedNodes = ((Full[kind].nodes \cap Near) \cup {root}) \ HiddenNodes(Full[kind], hidden)
      BY <1>2, <2>2, <2>4 DEF AskedNodes, Subgraph
    <3>3. Near = (Full[kind].nodes \cap Near) \cup {root}
      BY <2>2
    <3>4. kind = "database" => root \in Full[kind].nodes
      BY <1>2 DEF ControlsOK, Fixed
    <3>5. Near \ Off = Near \ HiddenNodes(Full[kind], hidden)
      BY <2>2, <3>4 DEF Off, HiddenNodes
    <3> QED
      BY <2>1, <2>2, <3>1, <3>2, <3>3, <3>5
  <2> QED
    BY <2>3, <2>4
<1> QED
  BY <1>1, <1>2

\* What is shown when the legend hides the root's schema.
LEMMA ShownWithoutRoot ==
  ASSUME PanelInv, OnTables, RootHidden
  PROVE  incoming.nodes = IF prune THEN {root} ELSE AskedNodes
<1> USE DEF PanelInv
<1>1. kind = "database" /\ root # NoRoot /\ root[1] \in hidden
  BY DEF RootHidden
<1>2. /\ base.nodes = Near /\ root \in Near /\ Near \subseteq Full[kind].nodes \cup {root}
      /\ Near = Within(Full[kind], {}, depth)
  BY <1>1, RootedBase, NearFacts
<1>3. root \in Off
  BY <1>1, <1>2 DEF Off, HiddenNodes
<1>4. CASE prune
  <2>1. incoming.nodes = Near \cap (ReachableNodeIds(base.edges, root, direction, Cardinality(base.nodes), Off) \cup {root})
    BY <1>1, <1>2, <1>4, ShownNodes
  <2>2. ReachableNodeIds(base.edges, root, direction, Cardinality(base.nodes), Off) = {}
    BY <1>3 DEF ReachableNodeIds
  <2> QED
    BY <1>2, <1>4, <2>1, <2>2
<1>5. CASE ~ prune
  <2>1. incoming.nodes = Near \ Off
    BY <1>1, <1>2, <1>5, ShownNodes
  <2>2. AskedNodes = ((Full[kind].nodes \cap Near) \cup {root}) \ HiddenNodes(Full[kind], hidden)
    BY <1>1, <1>2, <1>5 DEF AskedNodes, Subgraph
  <2>3. Near = (Full[kind].nodes \cap Near) \cup {root}
    BY <1>2
  <2>4. root \in Full[kind].nodes
    BY <1>1 DEF ControlsOK, Fixed
  <2>5. Near \ Off = Near \ HiddenNodes(Full[kind], hidden)
    BY <1>1, <1>2, <2>4 DEF Off, HiddenNodes
  <2> QED
    BY <1>5, <2>1, <2>2, <2>3, <2>5
<1> QED
  BY <1>4, <1>5

\* What is shown, from the invariant.
LEMMA InvShows ==
  ASSUME PanelInv
  PROVE  ShowsWhatIsAsked
<1>1. ASSUME OnTables
      PROVE  incoming.edges = Subgraph(Full[kind], incoming.nodes).edges
  <2>1. incoming.edges = {e \in Full[kind].edges : e.source \in incoming.nodes /\ e.target \in incoming.nodes}
    BY <1>1, ShownIsInduced DEF PanelInv
  <2> QED
    BY <2>1 DEF Subgraph
<1>2. CASE OnTables
  <2>1. CASE ~ RootHidden
    <3>1. incoming.nodes = AskedNodes /\ (Rooted => root \in incoming.nodes)
      BY <1>2, <2>1, ShownIsAsked
    <3> QED
      BY <1>1, <1>2, <2>1, <3>1 DEF ShowsWhatIsAsked, PanelInv
  <2>2. CASE RootHidden
    <3>1. incoming.nodes = IF prune THEN {root} ELSE AskedNodes
      BY <1>2, <2>2, ShownWithoutRoot
    <3> QED
      BY <1>1, <1>2, <2>2, <3>1 DEF ShowsWhatIsAsked, PanelInv
  <2> QED
    BY <2>1, <2>2
<1>3. CASE ~ OnTables
  BY <1>3 DEF ShowsWhatIsAsked, PanelInv, GivenIsFiltered
<1> QED
  BY <1>2, <1>3

-----------------------------------------------------------------------------
(* Badges.                                                                 *)

LEMMA CountIsPositive ==
  ASSUME NEW S, IsFiniteSet(S)
  PROVE  Cardinality(S) \in Nat /\ (Cardinality(S) > 0 <=> S # {})
<1>1. Cardinality(S) \in Nat /\ (Cardinality(S) = 0 <=> S = {})
  BY FS_CardinalityType, FS_EmptySet
<1> QED
  BY <1>1

\* A node is counted just when a step leads from it to one not shown.
LEMMA CountsTell ==
  ASSUME NEW graph, GraphOK(graph), NEW visible, NEW n \in visible, NEW dir \in Directions
  PROVE  LET count == HiddenNeighbourCounts(graph.edges, visible, dir)[n]
         IN  count.outgoing + count.incoming > 0
                <=> \E w \in graph.nodes : w \notin visible /\ Step(graph.edges, dir, n, w)
<1> DEFINE out == IF dir = "upstream" THEN {} ELSE {e.target : e \in {x \in graph.edges : x.source = n}} \ visible
           in  == IF dir = "downstream" THEN {} ELSE {e.source : e \in {x \in graph.edges : x.target = n}} \ visible
           count == HiddenNeighbourCounts(graph.edges, visible, dir)[n]
<1>1. count = [outgoing |-> Cardinality(out), incoming |-> Cardinality(in)]
  BY DEF HiddenNeighbourCounts
<1>2. \A w : w \in out <=> dir # "upstream" /\ w \notin visible /\ \E e \in graph.edges : e.source = n /\ e.target = w
  OBVIOUS
<1>3. \A w : w \in in <=> dir # "downstream" /\ w \notin visible /\ \E e \in graph.edges : e.target = n /\ e.source = w
  OBVIOUS
<1> HIDE DEF out, in
<1>4. out \subseteq graph.nodes /\ in \subseteq graph.nodes /\ IsFiniteSet(graph.nodes)
  BY <1>2, <1>3 DEF GraphOK
<1>5. IsFiniteSet(out) /\ IsFiniteSet(in)
  BY <1>4, FS_Subset
<1>6. /\ Cardinality(out) \in Nat /\ (Cardinality(out) > 0 <=> out # {})
      /\ Cardinality(in) \in Nat /\ (Cardinality(in) > 0 <=> in # {})
  BY <1>5, CountIsPositive
<1>7. count.outgoing + count.incoming > 0 <=> out # {} \/ in # {}
  <2>1. count.outgoing = Cardinality(out) /\ count.incoming = Cardinality(in)
    BY <1>1
  <2> HIDE DEF count
  <2> QED
    BY <1>6, <2>1
<1>8. \A w : w \in out \/ w \in in <=> w \notin visible /\ Step(graph.edges, dir, n, w)
  BY <1>2, <1>3 DEF Step, Follows, Directions
<1> HIDE DEF count
<1>9. out # {} \/ in # {} <=> \E w \in graph.nodes : w \notin visible /\ Step(graph.edges, dir, n, w)
  BY <1>4, <1>8
<1> QED
  BY <1>7, <1>9 DEF count

LEMMA InvBadges ==
  ASSUME PanelInv
  PROVE  BadgesTellMore
<1> USE DEF PanelInv
<1>1. SUFFICES ASSUME Rooted
               PROVE  base.badges = {} <=> base.nodes = Within(Full[kind], {}, "All")
  BY DEF BadgesTellMore
<1> DEFINE full == Full[kind]
           D == DepthFromChoice(depth, full)
           counts == HiddenNeighbourCounts(full.edges, base.nodes, direction)
           Counted(n) == counts[n].outgoing + counts[n].incoming > 0
<1>2. base.nodes = Near /\ base.badges = WithDepthBadges(base, full.edges, direction).badges
  BY <1>1, RootedBase DEF Rooted
<1>3. GraphOK(full) /\ D \in Nat /\ direction \in Directions
  BY FullOK, DepthIsNatural DEF ControlsOK
<1>4. base.badges = {} <=> \A n \in base.nodes : ~ Counted(n)
  <2>1. base.badges = {<<n, counts[n]>> : n \in {m \in base.nodes : Counted(m)}}
    BY <1>2 DEF WithDepthBadges
  <2> HIDE DEF counts
  <2> QED
    BY <2>1
<1> HIDE DEF full
<1>5. \A n \in base.nodes : Counted(n) <=> \E w \in full.nodes : w \notin base.nodes /\ Step(full.edges, direction, n, w)
  BY <1>3, CountsTell
<1> HIDE DEF Counted
<1>6. base.badges = {} <=> Closed(full.edges, direction, Near, full.nodes)
  BY <1>2, <1>4, <1>5 DEF Closed
<1>7. Closed(full.edges, direction, Near, full.nodes) <=> Near = Least(full.edges, root, direction, full.nodes)
  <2>1. Near = ReachableNodeIds(full.edges, root, direction, D, {})
    BY DEF Near, full
  <2> HIDE DEF D
  <2> QED
    BY <1>3, <2>1, ReachIsLeastIfClosed DEF GraphOK
<1>8. Within(full, {}, "All") = Least(full.edges, root, direction, full.nodes)
  <2>1. full.nodes \ {} = full.nodes
    OBVIOUS
  <2> QED
    BY <2>1, WithinAll
<1> QED
  BY <1>2, <1>6, <1>7, <1>8 DEF full

-----------------------------------------------------------------------------
(* The steps.                                                              *)

\* Depths off the address bar.
LEMMA DepthsOffAddresses == \A raw : DepthChoice(raw) \in DepthChoices
  BY DEF DepthChoice, DepthChoices

LEMMA InitPanel ==
  ASSUME Init
  PROVE  PanelInv
<1> USE DEF Init
<1>1. ControlsOK
  BY DepthsOffAddresses DEF ControlsOK, Fixed, InitialRoots, Directions, DepthChoices
<1>2. HiddenSchemas /\ BaseIsDerived
  BY DEF HiddenSchemas, BaseIsDerived
<1>3. ASSUME kind = "database"
      PROVE  GivenIsFiltered /\ ~ OnTables
  BY <1>3 DEF GivenIsFiltered, OnTables, RootingDisplayed
<1>4. ASSUME kind # "database"
      PROVE  LegendTells /\ GivenIsFiltered
  <2>1. mode = "tables" /\ OnTables /\ hidden = {} /\ legend = LegendFor(base, root)
    BY <1>4 DEF OnTables, RootingDisplayed
  <2>2. LegendTells
    BY <1>4, <2>1 DEF LegendTells, LegendFor, Rooted
  <2>3. base.edges = {e \in base.edges : e.source \in base.nodes /\ e.target \in base.nodes}
    BY <1>1, <1>2, BaseIsInduced
  <2>4. Filtered(base, root, direction, prune, hidden).nodes = base.nodes
        /\ Filtered(base, root, direction, prune, hidden).edges = base.edges
    BY <1>4, <2>1, <2>3 DEF Filtered, ApplyHide, Subgraph, HiddenNodes
  <2>5. FilteredGraph(base, root, direction, prune, hidden, coverage) = Drawn(base, base.badges, FALSE)
    BY <2>4 DEF FilteredGraph, Drawn
  <2> QED
    BY <1>4, <2>1, <2>2, <2>5 DEF GivenIsFiltered
<1> QED
  BY <1>1, <1>2, <1>3, <1>4 DEF PanelInv

\* The filter depends on the kind of panel, which stays.
LEMMA FilterStays ==
  ASSUME kind' = kind
  PROVE  FilteredGraph(base, root, direction, prune, hidden, coverage)'
            = FilteredGraph(base', root', direction', prune', hidden', coverage')
  BY DEF FilteredGraph, Filtered, HiddenNodes

\* Re-rooted, on the tables.
LEMMA Rebuilt ==
  ASSUME PanelInv, OnTables, ControlsOK', RebuildBase(root', direction', depth'),
         UNCHANGED <<kind, prune, mode, coverage>>
  PROVE  PanelInv'
<1> USE DEF PanelInv
<1>1. OnTables' /\ kind' = kind
  BY DEF OnTables, RootingDisplayed
<1>2. HiddenSchemas' /\ BaseIsDerived'
  BY DEF RebuildBase, HiddenSchemas, BaseIsDerived
<1>3. LegendTells'
  <2>1. CASE kind = "database"
    <3>1. hidden' = hidden /\ legend' = legend
      BY <2>1 DEF RebuildBase
    <3> QED
      BY <1>1, <2>1, <3>1 DEF LegendTells
  <2>2. CASE kind # "database"
    <3>1. hidden' = {} /\ legend' = LegendFor(base', root')
      BY <2>2 DEF RebuildBase
    <3> QED
      BY <1>1, <2>2, <3>1 DEF LegendTells, LegendFor, Rooted
  <2> QED
    BY <2>1, <2>2
<1>4. GivenIsFiltered'
  BY <1>1, FilterStays DEF GivenIsFiltered, RebuildBase, ApplyFilter, SetData
<1> QED
  BY <1>1, <1>2, <1>3, <1>4

\* A root of one kind of panel stays one.
LEMMA ControlsStay ==
  ASSUME ControlsOK, kind' = kind,
         root' = root \/ (~ Fixed /\ root' \in Full[kind].nodes \cup {NoRoot}),
         direction' = direction \/ direction' \in Directions,
         depth' = depth \/ depth' \in DepthChoices,
         mode' = mode \/ (kind = "database" /\ mode' \in {"overview", "tables"}),
         coverage' = coverage \/ (kind = "relation" /\ coverage' \in BOOLEAN)
  PROVE  ControlsOK'
<1>1. IF Fixed' THEN root' \in FixedRoots ELSE root' \in Full[kind'].nodes \cup {NoRoot}
  BY DEF ControlsOK, Fixed
<1>2. coverage' \in BOOLEAN /\ (coverage' => kind' = "relation")
  BY DEF ControlsOK
<1>3. /\ kind' \in Kinds /\ direction' \in Directions /\ depth' \in DepthChoices
      /\ mode' \in {"overview", "tables"} /\ (kind' # "database" => mode' = "tables")
  BY DEF ControlsOK
<1> QED
  BY <1>1, <1>2, <1>3 DEF ControlsOK

LEMMA StepChangeDirection ==
  ASSUME PanelInv, NEW d \in Directions, ChangeDirection(d)
  PROVE  PanelInv'
<1>1. OnTables /\ UNCHANGED <<kind, root, depth, prune, mode, coverage>> /\ direction' = d
  BY DEF ChangeDirection, RootedBlockVisible, OnTables
<1>2. RebuildBase(root', direction', depth')
  BY <1>1 DEF ChangeDirection
<1>3. ControlsOK'
  BY <1>1, ControlsStay DEF PanelInv
<1> QED
  BY <1>1, <1>2, <1>3, Rebuilt

LEMMA StepChangeDepth ==
  ASSUME PanelInv, NEW h \in TriedDepths, ChangeDepth(h)
  PROVE  PanelInv'
<1>1. OnTables /\ UNCHANGED <<kind, root, direction, prune, mode, coverage>> /\ depth' = h
  BY DEF ChangeDepth, RootedBlockVisible, OnTables
<1>2. RebuildBase(root', direction', depth')
  BY <1>1 DEF ChangeDepth
<1>3. ControlsOK'
  <2>1. h \in DepthChoices
    BY DiagramAssumption
  <2> QED
    BY <1>1, <2>1, ControlsStay DEF PanelInv
<1> QED
  BY <1>1, <1>2, <1>3, Rebuilt

LEMMA StepChooseRoot ==
  ASSUME PanelInv, NEW r \in Full[kind].nodes \cup {NoRoot}, ChooseRoot(r)
  PROVE  PanelInv'
<1>1. OnTables /\ UNCHANGED <<kind, direction, depth, prune, mode, coverage>> /\ root' = r /\ ~ Fixed
  BY DEF ChooseRoot, OnTables
<1>2. RebuildBase(root', direction', depth')
  BY <1>1 DEF ChooseRoot
<1>3. ControlsOK'
  BY <1>1, ControlsStay DEF PanelInv
<1> QED
  BY <1>1, <1>2, <1>3, Rebuilt

\* Filtered anew over the same base and legend.
LEMMA Refiltered ==
  ASSUME PanelInv, OnTables, ControlsOK',
         ApplyFilter(base, root, direction, prune', hidden, coverage'),
         UNCHANGED <<kind, root, direction, depth, mode, hidden, base, legend>>
  PROVE  PanelInv'
<1> USE DEF PanelInv
<1>1. OnTables'
  BY DEF OnTables, RootingDisplayed
<1>2. HiddenSchemas' /\ BaseIsDerived'
  BY DEF HiddenSchemas, BaseIsDerived
<1>3. LegendTells'
  BY DEF LegendTells, Rooted, OnTables, RootingDisplayed
<1>4. GivenIsFiltered'
  BY <1>1, FilterStays DEF GivenIsFiltered, ApplyFilter, SetData
<1> QED
  BY <1>1, <1>2, <1>3, <1>4

LEMMA StepChangePrune ==
  ASSUME PanelInv, ChangePrune
  PROVE  PanelInv'
<1>1. OnTables
  BY DEF ChangePrune, RootedBlockVisible, OnTables
<1>2. ControlsOK'
  BY ControlsStay DEF PanelInv, ChangePrune
<1>3. ApplyFilter(base, root, direction, prune', hidden, coverage')
  BY DEF ChangePrune
<1> QED
  BY <1>1, <1>2, <1>3, Refiltered DEF ChangePrune

LEMMA StepToggleCoverage ==
  ASSUME PanelInv, ToggleCoverage
  PROVE  PanelInv'
<1>1. OnTables
  BY DEF ToggleCoverage, OnTables, RootingDisplayed
<1>2. ControlsOK'
  <2>1. coverage' \in BOOLEAN
    BY DEF ToggleCoverage
  <2> QED
    BY <2>1, ControlsStay DEF PanelInv, ToggleCoverage
<1>3. ApplyFilter(base, root, direction, prune', hidden, coverage')
  BY DEF ToggleCoverage
<1> QED
  BY <1>1, <1>2, <1>3, Refiltered DEF ToggleCoverage

LEMMA StepToggleRow ==
  ASSUME PanelInv, NEW n \in DOMAIN legend, ToggleRow(n)
  PROVE  PanelInv'
<1> USE DEF PanelInv
<1>1. OnTables /\ OnTables' /\ UNCHANGED <<kind, root, direction, depth, prune, mode, coverage, base>>
  BY DEF ToggleRow, OnTables, RootingDisplayed, controls
<1>2. ControlsOK'
  BY <1>1, ControlsStay
<1>3. BaseIsDerived'
  BY <1>1 DEF BaseIsDerived
<1>4. /\ legend' = [legend EXCEPT ![n] = ~ legend[n]]
      /\ hidden' = IF legend'[n] THEN hidden \ {n} ELSE hidden \cup {n}
      /\ (kind # "database" => n # root)
  BY DEF ToggleRow
<1>5. HiddenSchemas'
  BY <1>1, <1>4 DEF HiddenSchemas, LegendTells
<1>6. LegendTells'
  <2>1. DOMAIN legend' = DOMAIN legend
    BY <1>4
  <2>2. \A m \in DOMAIN legend : legend'[m] = IF m = n THEN ~ legend[n] ELSE legend[m]
    BY <1>4
  <2>3. \A m : m \in hidden' <=> m \in DOMAIN legend' /\ ~ legend'[m]
    <3>1. \A m : m \in hidden <=> m \in DOMAIN legend /\ ~ legend[m]
      BY <1>1 DEF LegendTells
    <3> QED
      BY <1>4, <2>1, <2>2, <3>1
  <2>4. hidden' = {m \in DOMAIN legend' : ~ legend'[m]}
    BY <2>3
  <2>5. kind' # "database" => root' \notin hidden'
    BY <1>1, <1>4 DEF LegendTells
  <2> QED
    BY <1>1, <2>1, <2>4, <2>5 DEF LegendTells, Rooted
<1>7. GivenIsFiltered'
  BY <1>1, FilterStays DEF GivenIsFiltered, ToggleRow, ApplyFilter, SetData
<1> QED
  BY <1>2, <1>3, <1>5, <1>6, <1>7

\* The legend of the schemas, over the hidden ones.
LEMMA SchemaLegendTells ==
  ASSUME kind' = "database", hidden' \subseteq Catalog.schemas, legend' = SchemaLegend(hidden')
  PROVE  LegendTells'
  BY DEF LegendTells, SchemaLegend

LEMMA StepChangeMode ==
  ASSUME PanelInv, ChangeMode
  PROVE  PanelInv'
<1> USE DEF PanelInv
<1>1. /\ kind = "database" /\ UNCHANGED <<kind, root, direction, depth, prune, coverage, hidden>>
      /\ mode' = IF mode = "overview" THEN "tables" ELSE "overview"
  BY DEF ChangeMode
<1>2. ControlsOK'
  BY <1>1, ControlsStay
<1>3. HiddenSchemas'
  BY <1>1 DEF HiddenSchemas
<1>4. CASE mode' = "overview"
  <2>1. ~ OnTables' /\ incoming' = Overview /\ UNCHANGED <<base, legend>>
    BY <1>1, <1>4 DEF ChangeMode, SetData, OnTables, RootingDisplayed
  <2>2. BaseIsDerived'
    BY <1>1, <2>1 DEF BaseIsDerived
  <2>3. GivenIsFiltered'
    BY <2>1 DEF GivenIsFiltered
  <2> QED
    BY <1>2, <1>3, <2>1, <2>2, <2>3
<1>5. CASE mode' # "overview"
  <2>1. /\ base' = DerivedBase(kind, root, direction, depth) /\ legend' = SchemaLegend(hidden)
        /\ ApplyFilter(base', root, direction, prune, hidden, coverage)
    BY <1>5 DEF ChangeMode
  <2>2. mode' = "tables" /\ OnTables'
    BY <1>1, <1>5 DEF OnTables, RootingDisplayed
  <2>3. BaseIsDerived'
    BY <1>1, <2>1 DEF BaseIsDerived
  <2>4. LegendTells'
    BY <1>1, <2>1, SchemaLegendTells DEF HiddenSchemas
  <2>5. GivenIsFiltered'
    BY <1>1, <2>1, <2>2, FilterStays DEF GivenIsFiltered, ApplyFilter, SetData
  <2> QED
    BY <1>2, <1>3, <2>3, <2>4, <2>5
<1> QED
  BY <1>4, <1>5

LEMMA StepFocusSchema ==
  ASSUME PanelInv, NEW node, FocusSchema(node)
  PROVE  PanelInv'
<1> USE DEF PanelInv
<1>1. /\ kind = "database" /\ UNCHANGED <<kind, direction, depth, prune, coverage>>
      /\ mode' = "tables" /\ root' = NoRoot
      /\ hidden' = {s \in Catalog.schemas : node # <<s>>} /\ legend' = SchemaLegend(hidden')
      /\ base' = DerivedBase(kind, NoRoot, direction, depth)
      /\ ApplyFilter(base', NoRoot, direction, prune, hidden', coverage)
  BY DEF FocusSchema
<1>2. ControlsOK'
  BY <1>1, ControlsStay DEF Fixed
<1>3. HiddenSchemas' /\ BaseIsDerived'
  BY <1>1 DEF HiddenSchemas, BaseIsDerived
<1>4. LegendTells'
  BY <1>1, SchemaLegendTells
<1>5. GivenIsFiltered'
  <2>1. OnTables'
    BY <1>1 DEF OnTables, RootingDisplayed
  <2> QED
    BY <1>1, <2>1, FilterStays DEF GivenIsFiltered, ApplyFilter, SetData
<1> QED
  BY <1>2, <1>3, <1>4, <1>5

LEMMA StepIdle ==
  ASSUME PanelInv, UNCHANGED <<kind, controls, hidden, base, legend, incoming>>
  PROVE  PanelInv'
<1> USE DEF PanelInv
<1>1. UNCHANGED <<kind, root, direction, depth, prune, mode, coverage, hidden, base, legend, incoming>>
  BY DEF controls
<1>2. OnTables' = OnTables
  BY <1>1 DEF OnTables, RootingDisplayed
<1>3. ControlsOK' /\ HiddenSchemas' /\ BaseIsDerived'
  BY <1>1, ControlsStay DEF HiddenSchemas, BaseIsDerived
<1>4. OnTables' => LegendTells'
  BY <1>1, <1>2 DEF LegendTells, Rooted
<1>5. GivenIsFiltered'
  BY <1>1, <1>2, FilterStays DEF GivenIsFiltered
<1> QED
  BY <1>3, <1>4, <1>5

LEMMA NextKeeps ==
  ASSUME PanelInv, [Next]_vars
  PROVE  PanelInv'
<1>1. ASSUME NEW d \in Directions, ChangeDirection(d) PROVE PanelInv'
  BY <1>1, StepChangeDirection
<1>2. ASSUME NEW h \in TriedDepths, ChangeDepth(h) PROVE PanelInv'
  BY <1>2, StepChangeDepth
<1>3. CASE ChangePrune
  BY <1>3, StepChangePrune
<1>4. ASSUME NEW r \in Full[kind].nodes \cup {NoRoot}, ChooseRoot(r) PROVE PanelInv'
  BY <1>4, StepChooseRoot
<1>5. ASSUME NEW n \in DOMAIN legend, ToggleRow(n) PROVE PanelInv'
  BY <1>5, StepToggleRow
<1>6. CASE ToggleCoverage
  BY <1>6, StepToggleCoverage
<1>7. CASE ChangeMode
  BY <1>7, StepChangeMode
<1>8. ASSUME NEW node, FocusSchema(node) PROVE PanelInv'
  BY <1>8, StepFocusSchema
<1>9. CASE LayoutDone
  BY <1>9, StepIdle DEF LayoutDone
<1>10. CASE UNCHANGED vars
  BY <1>10, StepIdle DEF vars
<1> QED
  BY <1>1, <1>2, <1>3, <1>4, <1>5, <1>6, <1>7, <1>8, <1>9, <1>10 DEF Next

-----------------------------------------------------------------------------
(* Edges and keys.                                                         *)

\* Where each key is drawn to: in a database diagram to the table it references,
\* in a schema's to the table of that name in the schema.
RefTables  == [k \in DOMAIN Catalog.keys |-> Catalog.keys[k].refTable]
HomeTables == [k \in DOMAIN Catalog.keys |-> <<HomeSchema, Catalog.keys[k].refTable[2]>>]

Joins(e, k, T) == Catalog.keys[k].table = e.source /\ T[k] = e.target

\* The edges stand for the keys between the nodes, each for some, no two for one.
OfKeys(nodes, edges, T) ==
    /\ \A e \in edges : e.keys # {} /\ \A k \in e.keys : k \in DOMAIN Catalog.keys /\ Joins(e, k, T)
    /\ \A e, f \in edges : e.keys \cap f.keys # {} => e = f
    /\ \A k \in DOMAIN Catalog.keys :
          Catalog.keys[k].table \in nodes /\ T[k] \in nodes => \E e \in edges : k \in e.keys

KeyEdge(k, T) == FkEdge(Catalog.keys[k].table, T[k], k)

\* One edge per key.
EdgePerKey(nodes, edges, T) ==
    /\ \A e \in edges : \E k \in DOMAIN Catalog.keys : e = KeyEdge(k, T)
    /\ \A k \in DOMAIN Catalog.keys :
          Catalog.keys[k].table \in nodes /\ T[k] \in nodes => KeyEdge(k, T) \in edges

LEMMA KeyEdgeFacts ==
  ASSUME NEW T, NEW k
  PROVE  KeyEdge(k, T).keys = {k} /\ Joins(KeyEdge(k, T), k, T)
  BY DEF KeyEdge, FkEdge, Joins

LEMMA EdgePerKeyIsOfKeys ==
  ASSUME NEW T, NEW nodes, NEW edges, EdgePerKey(nodes, edges, T)
  PROVE  OfKeys(nodes, edges, T)
<1>1. \A e \in edges : \E k \in DOMAIN Catalog.keys : e = KeyEdge(k, T) /\ e.keys = {k} /\ Joins(e, k, T)
  BY KeyEdgeFacts DEF EdgePerKey
<1>2. \A e \in edges : e.keys # {} /\ \A k \in e.keys : k \in DOMAIN Catalog.keys /\ Joins(e, k, T)
  BY <1>1
<1>3. ASSUME NEW e \in edges, NEW f \in edges, e.keys \cap f.keys # {}
      PROVE  e = f
  <2>1. PICK k : e = KeyEdge(k, T) /\ e.keys = {k}
    BY <1>1
  <2>2. PICK l : f = KeyEdge(l, T) /\ f.keys = {l}
    BY <1>1
  <2>3. k = l
    BY <1>3, <2>1, <2>2
  <2> QED
    BY <2>1, <2>2, <2>3
<1>4. \A k : k \in KeyEdge(k, T).keys
  BY KeyEdgeFacts
<1> QED
  BY <1>2, <1>3, <1>4 DEF OfKeys, EdgePerKey

\* What the edges from s to t are folded onto.
Folded(edges, s, t) ==
    [source |-> s, target |-> t,
     keys   |-> UNION {f.keys : f \in {g \in edges : g.source = s /\ g.target = t}}]

LEMMA CollapsedIsOfKeys ==
  ASSUME NEW T, NEW nodes, NEW edges, EdgePerKey(nodes, edges, T)
  PROVE  OfKeys(nodes, CollapseParallelFkEdges(edges), T)
<1> DEFINE collapsed == CollapseParallelFkEdges(edges)
<1>1. collapsed = {Folded(edges, e.source, e.target) : e \in edges}
  BY DEF CollapseParallelFkEdges, Folded
<1>2. \A e \in edges : \E k \in DOMAIN Catalog.keys : e = KeyEdge(k, T) /\ e.keys = {k} /\ Joins(e, k, T)
  BY KeyEdgeFacts DEF EdgePerKey
<1>3. ASSUME NEW s, NEW t
      PROVE  /\ Folded(edges, s, t).source = s /\ Folded(edges, s, t).target = t
             /\ \A k : k \in Folded(edges, s, t).keys
                         <=> \E g \in edges : g.source = s /\ g.target = t /\ k \in g.keys
  BY DEF Folded
<1> HIDE DEF collapsed
<1>4. ASSUME NEW e \in collapsed
      PROVE  /\ e = Folded(edges, e.source, e.target) /\ e.keys # {}
             /\ \A k \in e.keys : k \in DOMAIN Catalog.keys /\ Joins(e, k, T)
  <2>1. PICK f \in edges : e = Folded(edges, f.source, f.target)
    BY <1>1
  <2>2. e.source = f.source /\ e.target = f.target
    BY <1>3, <2>1
  <2>3. \A k : k \in e.keys <=> \E g \in edges : g.source = e.source /\ g.target = e.target /\ k \in g.keys
    BY <1>3, <2>1, <2>2
  <2>4. \E k : k \in f.keys
    BY <1>2
  <2>5. e.keys # {}
    BY <2>2, <2>3, <2>4
  <2>6. ASSUME NEW k \in e.keys
        PROVE  k \in DOMAIN Catalog.keys /\ Joins(e, k, T)
    <3>1. PICK g \in edges : g.source = e.source /\ g.target = e.target /\ k \in g.keys
      BY <2>3
    <3>2. k \in DOMAIN Catalog.keys /\ Joins(g, k, T)
      BY <1>2, <3>1
    <3> QED
      BY <3>1, <3>2 DEF Joins
  <2> QED
    BY <2>1, <2>2, <2>5, <2>6
<1>5. ASSUME NEW e \in collapsed, NEW f \in collapsed, e.keys \cap f.keys # {}
      PROVE  e = f
  <2>1. PICK k : k \in e.keys /\ k \in f.keys
    BY <1>5
  <2>2. e.source = f.source /\ e.target = f.target
    BY <1>4, <2>1 DEF Joins
  <2> QED
    BY <1>4, <2>2
<1>6. ASSUME NEW k \in DOMAIN Catalog.keys, Catalog.keys[k].table \in nodes, T[k] \in nodes
      PROVE  \E e \in collapsed : k \in e.keys
  <2>1. KeyEdge(k, T) \in edges /\ k \in KeyEdge(k, T).keys
    BY <1>6, KeyEdgeFacts DEF EdgePerKey
  <2> DEFINE e == Folded(edges, KeyEdge(k, T).source, KeyEdge(k, T).target)
  <2>2. e \in collapsed
    BY <1>1, <2>1
  <2>3. k \in e.keys
    BY <1>3, <2>1
  <2> QED
    BY <2>2, <2>3
<1>7. OfKeys(nodes, collapsed, T)
  BY <1>4, <1>5, <1>6 DEF OfKeys
<1> QED
  BY <1>7 DEF collapsed

LEMMA AnnotatedEdge ==
  ASSUME NEW e
  PROVE  LET a == AnnotateFkEdge(Catalog, e)
         IN  /\ a.source = e.source /\ a.target = e.target /\ a.keys = e.keys
             /\ a.uncovered = {k \in e.keys : ~ IsColumnPrefixIndexed(Catalog.keys[k].columns, Catalog.structures[e.source])}
  BY DEF AnnotateFkEdge

\* Cardinalities change no edge's keys and ends.
LEMMA AnnotatedIsOfKeys ==
  ASSUME NEW T, NEW nodes, NEW edges, OfKeys(nodes, edges, T)
  PROVE  OfKeys(nodes, {AnnotateFkEdge(Catalog, e) : e \in edges}, T)
<1> DEFINE noted == {AnnotateFkEdge(Catalog, e) : e \in edges}
<1>1. ASSUME NEW a \in noted
      PROVE  \E e \in edges : a = AnnotateFkEdge(Catalog, e) /\ a.source = e.source /\ a.target = e.target /\ a.keys = e.keys
  BY AnnotatedEdge
<1>2. ASSUME NEW e \in edges
      PROVE  AnnotateFkEdge(Catalog, e) \in noted /\ AnnotateFkEdge(Catalog, e).keys = e.keys
  BY AnnotatedEdge
<1> HIDE DEF noted
<1>3. \A a \in noted : a.keys # {} /\ \A k \in a.keys : k \in DOMAIN Catalog.keys /\ Joins(a, k, T)
  BY <1>1 DEF OfKeys, Joins
<1>4. \A a, c \in noted : a.keys \cap c.keys # {} => a = c
  <2>1. SUFFICES ASSUME NEW a \in noted, NEW c \in noted, a.keys \cap c.keys # {} PROVE a = c
    OBVIOUS
  <2>2. PICK e \in edges : a = AnnotateFkEdge(Catalog, e) /\ a.keys = e.keys
    BY <1>1
  <2>3. PICK f \in edges : c = AnnotateFkEdge(Catalog, f) /\ c.keys = f.keys
    BY <1>1
  <2>4. e = f
    BY <2>1, <2>2, <2>3 DEF OfKeys
  <2> QED
    BY <2>2, <2>3, <2>4
<1>5. ASSUME NEW k \in DOMAIN Catalog.keys, Catalog.keys[k].table \in nodes, T[k] \in nodes
      PROVE  \E a \in noted : k \in a.keys
  BY <1>2, <1>5 DEF OfKeys
<1>6. OfKeys(nodes, noted, T)
  BY <1>3, <1>4, <1>5 DEF OfKeys
<1> QED
  BY <1>6 DEF noted

LEMMA KeyFacts ==
  ASSUME NEW k \in DOMAIN Catalog.keys
  PROVE  LET key == Catalog.keys[k]
         IN  /\ key.table \in Catalog.tables /\ key.refTable = <<key.refTable[1], key.refTable[2]>>
             /\ key.refTable \in FixedRoots => key.refTable \in Catalog.tables
  BY DiagramAssumption

LEMMA SchemaIsOfKeys ==
  ASSUME NEW cards \in BOOLEAN
  PROVE  LET graph == AnnotateFkCardinality(Catalog, BuildSchemaDiagram(Catalog, HomeSchema, cards))
         IN  graph.nodes = TablesOf(Catalog, HomeSchema) /\ OfKeys(graph.nodes, graph.edges, HomeTables)
<1> DEFINE plain == BuildSchemaDiagram(Catalog, HomeSchema, cards)
           tables == TablesOf(Catalog, HomeSchema)
           target(k) == <<HomeSchema, Catalog.keys[k].refTable[2]>>
           inside == {n \in DOMAIN Catalog.keys : Catalog.keys[n].table \in tables /\ target(n) \in tables}
           edges == {FkEdge(Catalog.keys[k].table, target(k), k) : k \in inside}
<1>1. plain.nodes = tables /\ plain.edges = IF cards THEN edges ELSE CollapseParallelFkEdges(edges)
  BY DEF BuildSchemaDiagram
<1>2. \A k \in DOMAIN Catalog.keys : target(k) = HomeTables[k]
  BY DEF HomeTables
<1>3. \A k \in DOMAIN Catalog.keys : k \in inside <=> Catalog.keys[k].table \in tables /\ HomeTables[k] \in tables
  BY <1>2
<1>4. \A e \in edges : \E k \in inside : e = KeyEdge(k, HomeTables)
  BY <1>2 DEF KeyEdge
<1>5. \A k \in inside : KeyEdge(k, HomeTables) \in edges
  BY <1>2 DEF KeyEdge
<1>6. inside \subseteq DOMAIN Catalog.keys
  OBVIOUS
<1> HIDE DEF inside, edges, plain
<1>7. EdgePerKey(tables, edges, HomeTables)
  BY <1>3, <1>4, <1>5, <1>6 DEF EdgePerKey
<1>8. OfKeys(tables, plain.edges, HomeTables)
  BY <1>1, <1>7, EdgePerKeyIsOfKeys, CollapsedIsOfKeys
<1>9. OfKeys(tables, {AnnotateFkEdge(Catalog, e) : e \in plain.edges}, HomeTables)
  BY <1>8, AnnotatedIsOfKeys
<1> QED
  BY <1>1, <1>9 DEF plain, AnnotateFkCardinality

LEMMA DatabaseIsOfKeys ==
  LET graph == BuildDatabaseDiagram(Catalog)
  IN  graph.nodes = Catalog.tables /\ OfKeys(graph.nodes, graph.edges, RefTables)
<1> DEFINE inside == {n \in DOMAIN Catalog.keys : Catalog.keys[n].refTable \in Catalog.tables}
           edges == {FkEdge(Catalog.keys[k].table, Catalog.keys[k].refTable, k) : k \in inside}
<1>1. /\ BuildDatabaseDiagram(Catalog).nodes = Catalog.tables
      /\ BuildDatabaseDiagram(Catalog).edges = CollapseParallelFkEdges(edges)
  BY DEF BuildDatabaseDiagram
<1>2. \A k \in DOMAIN Catalog.keys : RefTables[k] = Catalog.keys[k].refTable
  BY DEF RefTables
<1>3. (\A e \in edges : \E k \in inside : e = KeyEdge(k, RefTables)) /\ \A k \in inside : KeyEdge(k, RefTables) \in edges
  BY <1>2 DEF KeyEdge
<1>4. EdgePerKey(Catalog.tables, edges, RefTables)
  BY <1>2, <1>3 DEF EdgePerKey
<1> QED
  BY <1>1, <1>4, CollapsedIsOfKeys

\* A key without a covering index, said in two ways.
LEMMA UnindexedMeans ==
  ASSUME NEW k \in DOMAIN Catalog.keys
  PROVE  Unindexed(Catalog.keys[k])
            <=> ~ IsColumnPrefixIndexed(Catalog.keys[k].columns, Catalog.structures[Catalog.keys[k].table])
<1> DEFINE columns == Catalog.keys[k].columns
           s == Catalog.structures[Catalog.keys[k].table]
<1>1. \A c \in s.constraints : IsKey(c) <=> c.type # "check"
  BY KeyFacts, DiagramAssumption DEF IsKey
<1>2. ~ IsPrefix(columns, <<>>)
  <2>1. columns \in Seq(STRING) /\ columns # <<>>
    BY DiagramAssumption
  <2> HIDE DEF columns
  <2>2. ~ (Len(columns) <= Len(<<>>))
    BY <2>1
  <2> QED
    BY <2>2 DEF IsPrefix
<1>3. \A x \in s.indexes : IsPrefix(columns, ParseIndexColumns(x))
                              <=> ~ ("(expression)" \in ToSet(x.terms)) /\ IsPrefix(columns, x.terms)
  BY <1>2 DEF ParseIndexColumns
<1> HIDE DEF columns, s
<1>4. Unindexed(Catalog.keys[k]) <=> /\ \A c \in s.constraints : c.type = "check" \/ ~ IsPrefix(columns, c.columns)
                                     /\ \A x \in s.indexes : "(expression)" \in ToSet(x.terms) \/ ~ IsPrefix(columns, x.terms)
  BY DEF Unindexed, columns, s
<1>5. IsColumnPrefixIndexed(columns, s) <=> \/ \E c \in s.constraints : IsKey(c) /\ IsPrefix(columns, c.columns)
                                            \/ \E x \in s.indexes : IsPrefix(columns, ParseIndexColumns(x))
  BY DEF IsColumnPrefixIndexed
<1>6. Unindexed(Catalog.keys[k]) <=> ~ IsColumnPrefixIndexed(columns, s)
  BY <1>1, <1>3, <1>4, <1>5
<1> QED
  BY <1>6 DEF columns, s

KeyKinds == {"schema", "relation", "database"}

Targets(k) == IF k = "database" THEN RefTables ELSE HomeTables

\* A key whose target is a table of the diagram is drawn to it; one drawn
\* elsewhere references another schema.
LEMMA TargetFacts ==
  ASSUME NEW which \in KeyKinds, NEW k \in DOMAIN Catalog.keys
  PROVE  LET ref == Catalog.keys[k].refTable
         IN  /\ which = "database" \/ ref[1] = HomeSchema => Targets(which)[k] = ref
             /\ which # "database" => Targets(which)[k] = <<HomeSchema, ref[2]>>
<1>1. which # "database" => Targets(which)[k] = <<HomeSchema, Catalog.keys[k].refTable[2]>>
  BY DEF Targets, HomeTables
<1>2. which = "database" => Targets(which)[k] = Catalog.keys[k].refTable
  BY DEF Targets, RefTables
<1>3. Catalog.keys[k].refTable = <<Catalog.keys[k].refTable[1], Catalog.keys[k].refTable[2]>>
  BY KeyFacts
<1> QED
  BY <1>1, <1>2, <1>3

LEMMA FullIsOfKeys ==
  ASSUME NEW k \in Kinds, k \in KeyKinds
  PROVE  /\ OfKeys(Full[k].nodes, Full[k].edges, Targets(k))
         /\ Full[k].nodes = IF k = "database" THEN Catalog.tables ELSE TablesOf(Catalog, HomeSchema)
<1>1. CASE k = "database"
  <2>1. Full[k] = BuildDatabaseDiagram(Catalog)
    BY <1>1 DEF Full
  <2> QED
    BY <1>1, <2>1, DatabaseIsOfKeys DEF Targets
<1>2. CASE k # "database"
  <2>1. Full[k] = AnnotateFkCardinality(Catalog, BuildSchemaDiagram(Catalog, HomeSchema, k = "relation"))
    BY <1>2 DEF Full, KeyKinds
  <2>2. (k = "relation") \in BOOLEAN
    OBVIOUS
  <2> QED
    BY <1>2, <2>1, <2>2, SchemaIsOfKeys DEF Targets
<1> QED
  BY <1>1, <1>2

\* Of the keys on screen only those between nodes of the graph, and no key of
\* or to a root that is not one of them.
LEMMA ShownKeysAreInFull ==
  ASSUME PanelInv, OnTables, kind \in KeyKinds, NEW k \in KeysShown
  PROVE  /\ Catalog.keys[k].table \in Full[kind].nodes
         /\ Targets(kind)[k] = Catalog.keys[k].refTable /\ Targets(kind)[k] \in Full[kind].nodes
<1> USE DEF PanelInv
<1> DEFINE full == Full[kind]
<1>1. k \in DOMAIN Catalog.keys /\ Catalog.keys[k].table \in incoming.nodes /\ Catalog.keys[k].refTable \in incoming.nodes
  BY DEF KeysShown
<1>2. incoming.nodes \subseteq full.nodes \cup (IF Fixed THEN FixedRoots ELSE {})
  <2>1. incoming.nodes \subseteq base.nodes
    BY ShownIsInduced
  <2>2. root = NoRoot => base.nodes = full.nodes
    BY UnrootedBase
  <2>3. root # NoRoot => base.nodes \subseteq full.nodes \cup {root}
    BY RootedBase, NearFacts
  <2> QED
    BY <2>1, <2>2, <2>3 DEF ControlsOK
<1>3. full.nodes = IF kind = "database" THEN Catalog.tables ELSE TablesOf(Catalog, HomeSchema)
  BY FullIsOfKeys DEF ControlsOK
<1>4. kind = "database" => ~ Fixed
  BY DEF Fixed
<1>5. Catalog.tables \cap FixedRoots \subseteq TablesOf(Catalog, HomeSchema)
  BY DiagramAssumption DEF TablesOf
<1>6. Catalog.keys[k].table \in Catalog.tables /\ (Catalog.keys[k].refTable \in FixedRoots => Catalog.keys[k].refTable \in Catalog.tables)
  BY <1>1, KeyFacts
<1> HIDE DEF full
<1>7. Catalog.keys[k].table \in full.nodes /\ Catalog.keys[k].refTable \in full.nodes
  BY <1>1, <1>2, <1>3, <1>4, <1>5, <1>6
<1>8. kind = "database" \/ Catalog.keys[k].refTable[1] = HomeSchema
  BY <1>3, <1>7 DEF TablesOf
<1>9. Targets(kind)[k] = Catalog.keys[k].refTable
  BY <1>1, <1>8, TargetFacts
<1> QED
  BY <1>7, <1>9 DEF full

LEMMA InvEdges ==
  ASSUME PanelInv
  PROVE  EdgesAreKeys
<1> USE DEF PanelInv
<1>1. SUFFICES ASSUME OnTables, kind \in KeyKinds
      PROVE  /\ \A k \in KeysShown \cup UNION {e.keys : e \in incoming.edges} :
                   Cardinality({e \in incoming.edges : k \in e.keys}) = 1
             /\ \A e \in incoming.edges : e.keys # {} /\ \A k \in e.keys :
                   /\ Catalog.keys[k].table = e.source
                   /\ Catalog.keys[k].refTable = e.target \/ DrawnToNamesake(k, e.target)
             /\ incoming.tinted = {e \in incoming.edges : coverage /\ \E k \in e.keys : Unindexed(Catalog.keys[k])}
  BY DEF EdgesAreKeys, KeyKinds
<1> DEFINE full == Full[kind]
<1>2. /\ incoming.edges = {e \in full.edges : e.source \in incoming.nodes /\ e.target \in incoming.nodes}
      /\ incoming.tinted = IF coverage THEN {e \in incoming.edges : e.uncovered # {}} ELSE {}
  BY <1>1, ShownIsInduced
<1>3. OfKeys(full.nodes, full.edges, Targets(kind))
  BY <1>1, FullIsOfKeys DEF ControlsOK
<1>4. ASSUME NEW e \in incoming.edges, NEW k \in e.keys
      PROVE  Cardinality({f \in incoming.edges : k \in f.keys}) = 1
  <2>1. \A f \in incoming.edges : k \in f.keys => f = e
    BY <1>2, <1>3 DEF OfKeys
  <2>2. {f \in incoming.edges : k \in f.keys} = {e}
    BY <2>1
  <2> QED
    BY <2>2, FS_Singleton
<1>5. \A e \in incoming.edges : e.keys # {} /\ \A k \in e.keys : k \in DOMAIN Catalog.keys /\ Joins(e, k, Targets(kind))
  BY <1>2, <1>3 DEF OfKeys
<1>6. ASSUME NEW k \in KeysShown
      PROVE  \E e \in incoming.edges : k \in e.keys
  <2>1. /\ k \in DOMAIN Catalog.keys /\ Catalog.keys[k].table \in incoming.nodes
        /\ Catalog.keys[k].refTable \in incoming.nodes
    BY DEF KeysShown
  <2>2. /\ Catalog.keys[k].table \in full.nodes /\ Targets(kind)[k] \in full.nodes
        /\ Targets(kind)[k] = Catalog.keys[k].refTable
    BY <1>1, ShownKeysAreInFull
  <2> HIDE DEF full
  <2>3. PICK e \in full.edges : k \in e.keys
    BY <1>3, <2>1, <2>2 DEF OfKeys
  <2>4. e.source \in incoming.nodes /\ e.target \in incoming.nodes
    BY <1>3, <2>1, <2>2, <2>3 DEF OfKeys, Joins
  <2> QED
    BY <1>2, <2>3, <2>4
<1>7. ASSUME NEW e \in incoming.edges, NEW k \in e.keys
      PROVE  /\ Catalog.keys[k].table = e.source
             /\ Catalog.keys[k].refTable = e.target \/ DrawnToNamesake(k, e.target)
  <2>1. k \in DOMAIN Catalog.keys /\ Catalog.keys[k].table = e.source /\ Targets(kind)[k] = e.target
    BY <1>5 DEF Joins
  <2>2. CASE kind = "database" \/ Catalog.keys[k].refTable[1] = HomeSchema
    BY <1>1, <2>1, <2>2, TargetFacts
  <2>3. CASE kind # "database" /\ Catalog.keys[k].refTable[1] # HomeSchema
    <3>1. e.target = <<HomeSchema, Catalog.keys[k].refTable[2]>>
      BY <1>1, <2>1, <2>3, TargetFacts
    <3>2. kind \in {"schema", "relation"}
      BY <1>1, <2>3 DEF KeyKinds
    <3> QED
      BY <2>1, <2>3, <3>1, <3>2 DEF DrawnToNamesake
  <2> QED
    BY <2>2, <2>3
<1>8. incoming.tinted = {e \in incoming.edges : coverage /\ \E k \in e.keys : Unindexed(Catalog.keys[k])}
  <2>1. CASE ~ coverage
    BY <1>2, <2>1
  <2>2. CASE coverage
    <3>1. full = AnnotateFkCardinality(Catalog, BuildSchemaDiagram(Catalog, HomeSchema, TRUE))
      BY <2>2 DEF ControlsOK, Full
    <3>2. ASSUME NEW e \in incoming.edges
          PROVE  e.uncovered # {} <=> \E k \in e.keys : Unindexed(Catalog.keys[k])
      <4>1. PICK f : e = AnnotateFkEdge(Catalog, f)
        <5>1. e \in full.edges
          BY <1>2
        <5>2. full.edges = {AnnotateFkEdge(Catalog, f) : f \in BuildSchemaDiagram(Catalog, HomeSchema, TRUE).edges}
          BY <3>1 DEF AnnotateFkCardinality
        <5> HIDE DEF full
        <5> QED
          BY <5>1, <5>2
      <4>2. e.uncovered = {k \in e.keys : ~ IsColumnPrefixIndexed(Catalog.keys[k].columns, Catalog.structures[e.source])}
        BY <4>1, AnnotatedEdge
      <4>3. ASSUME NEW k \in e.keys
            PROVE  k \in e.uncovered <=> Unindexed(Catalog.keys[k])
        <5>1. k \in DOMAIN Catalog.keys /\ Catalog.keys[k].table = e.source
          BY <1>5 DEF Joins
        <5> QED
          BY <4>2, <5>1, UnindexedMeans
      <4>4. e.uncovered \subseteq e.keys
        BY <4>2
      <4> QED
        BY <4>3, <4>4
    <3> QED
      BY <1>2, <2>2, <3>2
  <2> QED
    BY <2>1, <2>2
<1>9. ASSUME NEW k \in KeysShown \cup UNION {e.keys : e \in incoming.edges}
      PROVE  Cardinality({e \in incoming.edges : k \in e.keys}) = 1
  <2>1. \E e \in incoming.edges : k \in e.keys
    BY <1>6, <1>9
  <2> QED
    BY <1>4, <2>1
<1> QED
  BY <1>5, <1>7, <1>8, <1>9

-----------------------------------------------------------------------------
(* The theorems.                                                           *)

\* The controls, the base, the legend and the graph the view was given agree,
\* whatever the user chooses and however late the layouts come.
THEOREM PanelHolds == Spec => []PanelInv
<1>1. Init => PanelInv
  BY InitPanel
<1>2. PanelInv /\ [Next]_vars => PanelInv'
  BY NextKeeps
<1> QED
  BY <1>1, <1>2, PTL DEF Spec

\* The legend tells the truth, and a panel at rest shows the graph its controls
\* describe, defined by paths and closed sets rather than by the traversal, the
\* root among them unless the database panel hides its schema.
THEOREM AskedIsShown == Spec => []ShowsWhatIsAsked
<1>1. PanelInv => ShowsWhatIsAsked
  BY InvShows
<1> QED
  BY <1>1, PanelHolds, PTL

\* A rooted graph carries no badge just when no greater depth shows more.
THEOREM NoBadgeNoMore == Spec => []BadgesTellMore
<1>1. PanelInv => BadgesTellMore
  BY InvBadges
<1> QED
  BY <1>1, PanelHolds, PTL

\* The edges on screen are the keys between the tables on screen, each once,
\* tinted just when no index serves one; a key to another schema may be drawn
\* to a namesake of its target in the diagram's own.
THEOREM EdgesStandForKeys == Spec => []EdgesAreKeys
<1>1. PanelInv => EdgesAreKeys
  BY InvEdges
<1> QED
  BY <1>1, PanelHolds, PTL

-----------------------------------------------------------------------------
(* Sorting a finite set by a strict total order.                           *)

\* B, a set of pairs, is a strict total order on S.
StrictOrder(B, S) ==
    /\ \A x \in S : <<x, x>> \notin B
    /\ \A x, y, z \in S : <<x, y>> \in B /\ <<y, z>> \in B => <<x, z>> \in B
    /\ \A x, y \in S : x = y \/ <<x, y>> \in B \/ <<y, x>> \in B

Lower(B, S, x) == {y \in S : <<y, x>> \in B}

Ranked(B, S) ==
    [i \in 1 .. Cardinality(S) |-> CHOOSE x \in S : Cardinality(Lower(B, S, x)) = i - 1]

\* Each member has a place of its own, and each place a member.
LEMMA RankedIs ==
  ASSUME NEW S, IsFiniteSet(S), NEW B, StrictOrder(B, S)
  PROVE  /\ Cardinality(S) \in Nat
         /\ \A i \in 1 .. Cardinality(S) :
               Ranked(B, S)[i] \in S /\ Cardinality(Lower(B, S, Ranked(B, S)[i])) = i - 1
         /\ \A x \in S : \E i \in 1 .. Cardinality(S) : Ranked(B, S)[i] = x
         /\ \A i, j \in 1 .. Cardinality(S) :
               i < j => <<Ranked(B, S)[i], Ranked(B, S)[j]>> \in B
<1> DEFINE n == Cardinality(S)
           Rank(x) == Cardinality(Lower(B, S, x))
<1>1. n \in Nat
  BY FS_CardinalityType
<1>2. ASSUME NEW x \in S
      PROVE  IsFiniteSet(Lower(B, S, x)) /\ Rank(x) \in 0 .. n - 1
  <2>1. Lower(B, S, x) \subseteq S \ {x}
    BY DEF Lower, StrictOrder
  <2>2. IsFiniteSet(S \ {x}) /\ Cardinality(S \ {x}) = n - 1
    BY FS_RemoveElement
  <2>3. IsFiniteSet(Lower(B, S, x)) /\ Rank(x) <= n - 1
    BY <2>1, <2>2, FS_Subset
  <2>4. Rank(x) \in Nat
    BY <2>3, FS_CardinalityType
  <2> QED
    BY <1>1, <2>3, <2>4
<1>3. ASSUME NEW x \in S, NEW y \in S, <<x, y>> \in B
      PROVE  Rank(x) < Rank(y)
  <2>1. Lower(B, S, x) \subseteq Lower(B, S, y) /\ x \in Lower(B, S, y) /\ x \notin Lower(B, S, x)
    BY <1>3 DEF Lower, StrictOrder
  <2>2. IsFiniteSet(Lower(B, S, y)) /\ Rank(x) \in Nat /\ Rank(y) \in Nat
    BY <1>1, <1>2
  <2>3. Rank(x) <= Rank(y) /\ (Rank(x) = Rank(y) => Lower(B, S, x) = Lower(B, S, y))
    BY <2>1, <2>2, FS_Subset
  <2> QED
    BY <2>1, <2>2, <2>3
<1> DEFINE f == [x \in S |-> Rank(x)]
<1>4. f \in Injection(S, 0 .. n - 1)
  <2>1. f \in [S -> 0 .. n - 1]
    BY <1>2
  <2>2. \A x, y \in S : f[x] = f[y] => x = y
    <3> TAKE x \in S, y \in S
    <3>1. Rank(x) \in Nat /\ Rank(y) \in Nat
      BY <1>1, <1>2
    <3>2. x = y \/ <<x, y>> \in B \/ <<y, x>> \in B
      BY DEF StrictOrder
    <3>3. Rank(x) = Rank(y) => x = y
      BY <1>3, <3>1, <3>2
    <3> QED
      BY <3>3
  <2> HIDE DEF f
  <2> QED
    BY <2>1, <2>2 DEF Injection, IsInjective
<1>5. IsFiniteSet(0 .. n - 1) /\ Cardinality(0 .. n - 1) = n
  BY <1>1, FS_Interval, SMTT(60)
<1>6. f \in Surjection(S, 0 .. n - 1)
  <2> HIDE DEF f, n
  <2>1. Cardinality(S) = Cardinality(0 .. n - 1)
    BY <1>5 DEF n
  <2> QED
    BY <1>4, <1>5, <2>1, FS_Injection
<1>7. \A i \in 1 .. n : \E x \in S : Rank(x) = i - 1
  <2> TAKE i \in 1 .. n
  <2>1. i - 1 \in 0 .. n - 1
    BY <1>1
  <2>2. PICK x \in S : f[x] = i - 1
    <3> HIDE DEF f
    <3> QED
      BY <1>6, <2>1 DEF Surjection
  <2> QED
    BY <2>2
<1>8. \A i \in 1 .. n : Ranked(B, S)[i] \in S /\ Rank(Ranked(B, S)[i]) = i - 1
  BY <1>7 DEF Ranked
<1>9. ASSUME NEW x \in S
      PROVE  \E i \in 1 .. n : Ranked(B, S)[i] = x
  <2>1. Rank(x) \in 0 .. n - 1
    BY <1>2
  <2> DEFINE i == Rank(x) + 1
             y == Ranked(B, S)[i]
  <2>2. i \in 1 .. n /\ i - 1 = Rank(x)
    BY <1>1, <2>1
  <2>3. y \in S /\ Rank(y) = Rank(x)
    <3> HIDE DEF i
    <3> QED
      BY <1>8, <2>2
  <2>4. x = y \/ <<x, y>> \in B \/ <<y, x>> \in B
    BY <2>3 DEF StrictOrder
  <2>5. Rank(x) \in Nat
    BY <1>1, <2>1
  <2> HIDE DEF y, i
  <2>6. x = y
    BY <1>3, <2>3, <2>4, <2>5
  <2> QED
    BY <2>2, <2>6 DEF y
<1>10. ASSUME NEW i \in 1 .. n, NEW j \in 1 .. n, i < j
       PROVE  <<Ranked(B, S)[i], Ranked(B, S)[j]>> \in B
  <2> DEFINE x == Ranked(B, S)[i]
             y == Ranked(B, S)[j]
  <2>1. x \in S /\ y \in S /\ Rank(x) = i - 1 /\ Rank(y) = j - 1
    BY <1>8
  <2>2. x = y \/ <<x, y>> \in B \/ <<y, x>> \in B
    BY <2>1 DEF StrictOrder
  <2> HIDE DEF x, y, n
  <2>3. i - 1 < j - 1 /\ i - 1 \in Int /\ j - 1 \in Int
    BY <1>1, <1>10
  <2>4. x # y
    BY <2>1, <2>3
  <2>5. ~ (<<y, x>> \in B)
    BY <1>3, <2>1, <2>3
  <2> QED
    BY <2>2, <2>4, <2>5 DEF x, y
<1> QED
  BY <1>1, <1>8, <1>9, <1>10

\* Two paths agree before their i-th place, where the first ends or is less.
LessAt(a, b, i) ==
    /\ i \in Nat \ {0} /\ i - 1 <= Len(a) /\ i <= Len(b)
    /\ \A j \in 1 .. i - 1 : a[j] = b[j]
    /\ i <= Len(a) => a[i] < b[i]

Agree(a, b, n) == \A j \in 1 .. n : a[j] = b[j]

LEMMA PrefixIs ==
  ASSUME NEW X, NEW a \in Seq(X), NEW b \in Seq(X), NEW n \in Nat, n <= Len(a), n <= Len(b)
  PROVE  /\ SubSeq(a, 1, n) = SubSeq(b, 1, n) => Agree(a, b, n)
         /\ Agree(a, b, n) => SubSeq(a, 1, n) = SubSeq(b, 1, n)
<1>1. Len(a) \in Nat /\ Len(b) \in Nat
  BY LenProperties
<1>2. /\ SubSeq(a, 1, n) \in Seq(X) /\ SubSeq(b, 1, n) \in Seq(X)
      /\ Len(SubSeq(a, 1, n)) = n /\ Len(SubSeq(b, 1, n)) = n
      /\ \A j \in 1 .. n : SubSeq(a, 1, n)[j] = a[j] /\ SubSeq(b, 1, n)[j] = b[j]
  <2>1. \A j \in 1 .. n : a[j] \in X /\ b[j] \in X
    BY <1>1, ElementOfSeq
  <2>2. /\ SubSeq(a, 1, n) \in Seq(X) /\ Len(SubSeq(a, 1, n)) = IF 1 <= n THEN n - 1 + 1 ELSE 0
        /\ \A j \in 1 .. n - 1 + 1 : SubSeq(a, 1, n)[j] = a[1 + j - 1]
    BY <2>1, SubSeqProperties
  <2>3. /\ SubSeq(b, 1, n) \in Seq(X) /\ Len(SubSeq(b, 1, n)) = IF 1 <= n THEN n - 1 + 1 ELSE 0
        /\ \A j \in 1 .. n - 1 + 1 : SubSeq(b, 1, n)[j] = b[1 + j - 1]
    BY <2>1, SubSeqProperties
  <2>4. n - 1 + 1 = n /\ \A j \in 1 .. n : 1 + j - 1 = j
    OBVIOUS
  <2> QED
    BY <2>2, <2>3, <2>4
<1>3. ASSUME Agree(a, b, n)
      PROVE  SubSeq(a, 1, n) = SubSeq(b, 1, n)
  BY <1>2, <1>3, SeqEqual DEF Agree
<1> QED
  BY <1>2, <1>3 DEF Agree

LEMMA BeforeIs ==
  ASSUME NEW a \in Seq(Nat), NEW b \in Seq(Nat)
  PROVE  Before(a, b) <=> \E i \in Nat : LessAt(a, b, i)
<1>1. /\ Len(a) \in Nat /\ Len(b) \in Nat
      /\ DOMAIN a = 1 .. Len(a) /\ DOMAIN b = 1 .. Len(b)
      /\ \A j \in 1 .. Len(a) : a[j] \in Nat
      /\ \A j \in 1 .. Len(b) : b[j] \in Nat
  BY LenProperties, ElementOfSeq
<1>2. IsStrictPrefix(a, b) <=> Len(a) < Len(b) /\ \A j \in 1 .. Len(a) : a[j] = b[j]
  <2>2. ASSUME IsStrictPrefix(a, b)
        PROVE  Len(a) < Len(b) /\ \A j \in 1 .. Len(a) : a[j] = b[j]
    <3>1. Len(a) <= Len(b) /\ SubSeq(a, 1, Len(a)) = SubSeq(b, 1, Len(a)) /\ a # b
      BY <2>2 DEF IsStrictPrefix, IsPrefix
    <3>2. \A j \in 1 .. Len(a) : a[j] = b[j]
      <4>1. PICK n \in Nat : n = Len(a)
        BY <1>1
      <4>2. n <= Len(a) /\ n <= Len(b) /\ SubSeq(a, 1, n) = SubSeq(b, 1, n)
        BY <1>1, <3>1, <4>1
      <4>3. Agree(a, b, n)
        BY <4>2, PrefixIs
      <4> QED
        BY <4>1, <4>3, ZenonT(60) DEF Agree
    <3>3. Len(a) # Len(b)
      <4>1. ASSUME Len(a) = Len(b)
            PROVE  a = b
        <5>1. \A j \in 1 .. Len(a) : a[j] = b[j]
          BY <3>2
        <5> QED
          BY <4>1, <5>1, SeqEqual
      <4> QED
        BY <3>1, <4>1
    <3>4. Len(a) < Len(b)
      <4>1. Len(a) <= Len(b)
        BY <3>1, Zenon
      <4>2. PICK m \in Nat, n \in Nat : m = Len(a) /\ n = Len(b)
        BY <1>1, Zenon
      <4>3. m <= n /\ m # n
        BY <3>3, <4>1, <4>2
      <4>4. m < n
        BY <4>3
      <4> QED
        BY <4>2, <4>4
    <3> QED
      BY <3>2, <3>4
  <2>3. ASSUME Len(a) < Len(b), \A j \in 1 .. Len(a) : a[j] = b[j]
        PROVE  IsStrictPrefix(a, b)
    <3>1. Len(a) <= Len(b) /\ a # b
      BY <1>1, <2>3
    <3>2. SubSeq(a, 1, Len(a)) = SubSeq(b, 1, Len(a))
      <4>1. PICK n \in Nat : n = Len(a)
        BY <1>1
      <4>2. n <= Len(a) /\ n <= Len(b) /\ Agree(a, b, n)
        BY <1>1, <2>3, <4>1 DEF Agree
      <4>3. SubSeq(a, 1, n) = SubSeq(b, 1, n)
        BY <4>2, PrefixIs
      <4> QED
        BY <4>1, <4>3
    <3> QED
      BY <3>1, <3>2 DEF IsStrictPrefix, IsPrefix
  <2> QED
    BY <2>2, <2>3
<1>3. \A i \in DOMAIN a \cap DOMAIN b :
          SubSeq(a, 1, i - 1) = SubSeq(b, 1, i - 1) <=> \A j \in 1 .. i - 1 : a[j] = b[j]
  <2> TAKE i \in DOMAIN a \cap DOMAIN b
  <2>1. i - 1 \in Nat /\ i - 1 <= Len(a) /\ i - 1 <= Len(b)
    BY <1>1
  <2> QED
    BY <2>1, PrefixIs, ZenonT(60) DEF Agree
<1>4. ASSUME Before(a, b)
      PROVE  \E i \in Nat : LessAt(a, b, i)
  <2>1. CASE IsStrictPrefix(a, b)
    <3>1. LessAt(a, b, Len(a) + 1) /\ Len(a) + 1 \in Nat
      BY <1>1, <1>2, <2>1 DEF LessAt
    <3> QED
      BY <3>1
  <2>2. CASE ~ IsStrictPrefix(a, b)
    <3>1. PICK i \in DOMAIN a \cap DOMAIN b :
              SubSeq(a, 1, i - 1) = SubSeq(b, 1, i - 1) /\ a[i] < b[i]
      BY <1>4, <2>2 DEF Before
    <3>2. LessAt(a, b, i) /\ i \in Nat
      BY <1>1, <1>3, <3>1, SMTT(60) DEF LessAt
    <3> QED
      BY <3>2
  <2> QED
    BY <2>1, <2>2
<1>5. ASSUME NEW i \in Nat, LessAt(a, b, i)
      PROVE  Before(a, b)
  <2>1. CASE i <= Len(a)
    <3>1. i \in DOMAIN a \cap DOMAIN b
      BY <1>1, <1>5, <2>1 DEF LessAt
    <3> QED
      BY <1>3, <1>5, <2>1, <3>1 DEF LessAt, Before
  <2>2. CASE ~ (i <= Len(a))
    <3>1. i - 1 = Len(a)
      BY <1>1, <1>5, <2>2 DEF LessAt
    <3> QED
      BY <1>1, <1>2, <1>5, <3>1 DEF LessAt, Before
  <2> QED
    BY <2>1, <2>2
<1> QED
  BY <1>4, <1>5

LEMMA LessOrder ==
  ASSUME NEW a \in Seq(Nat), NEW b \in Seq(Nat), NEW c \in Seq(Nat), NEW i \in Nat, NEW k \in Nat
  PROVE  /\ ~ LessAt(a, a, i)
         /\ LessAt(a, b, i) /\ LessAt(b, c, k) => \E m \in Nat : LessAt(a, c, m)
<1>1. /\ Len(a) \in Nat /\ Len(b) \in Nat /\ Len(c) \in Nat
      /\ \A j \in 1 .. Len(a) : a[j] \in Nat
      /\ \A j \in 1 .. Len(b) : b[j] \in Nat
      /\ \A j \in 1 .. Len(c) : c[j] \in Nat
  BY LenProperties, ElementOfSeq
<1>2. ~ LessAt(a, a, i)
  BY <1>1 DEF LessAt
<1>3. ASSUME LessAt(a, b, i), LessAt(b, c, k)
      PROVE  \E m \in Nat : LessAt(a, c, m)
  <2>1. CASE i <= k
    <3>1. i - 1 <= Len(a) /\ i <= Len(b) /\ i <= Len(c)
      BY <1>1, <1>3, <2>1 DEF LessAt
    <3>2. \A j \in 1 .. i - 1 : a[j] = c[j]
      BY <1>1, <1>3, <2>1, <3>1 DEF LessAt
    <3>3. ASSUME i <= Len(a) PROVE a[i] < c[i]
      <4>1. a[i] < b[i] /\ a[i] \in Nat /\ b[i] \in Nat /\ c[i] \in Nat
        BY <1>1, <1>3, <3>1, <3>3 DEF LessAt
      <4>2. b[i] <= c[i]
        <5>1. CASE i = k
          BY <1>1, <1>3, <3>1, <4>1, <5>1 DEF LessAt
        <5>2. CASE i # k
          <6>1. i \in 1 .. k - 1
            BY <1>1, <1>3, <2>1, <5>2 DEF LessAt
          <6>2. b[i] = c[i]
            BY <1>3, <6>1 DEF LessAt
          <6> QED
            BY <4>1, <6>2
        <5> QED
          BY <5>1, <5>2
      <4> QED
        BY <4>1, <4>2
    <3>4. LessAt(a, c, i)
      BY <1>3, <3>1, <3>2, <3>3 DEF LessAt
    <3> QED
      BY <3>4
  <2>2. CASE ~ (i <= k)
    <3>1. k \in 1 .. i - 1 /\ k <= Len(a) /\ k <= Len(b) /\ k <= Len(c)
      BY <1>1, <1>3, <2>2, SMTT(60) DEF LessAt
    <3>2. \A j \in 1 .. k - 1 : a[j] = c[j]
      BY <1>1, <1>3, <2>2, <3>1 DEF LessAt
    <3>3. a[k] = b[k] /\ b[k] < c[k]
      BY <1>1, <1>3, <3>1 DEF LessAt
    <3>4. LessAt(a, c, k)
      BY <1>1, <1>3, <3>1, <3>2, <3>3 DEF LessAt
    <3> QED
      BY <3>4
  <2> QED
    BY <2>1, <2>2
<1> QED
  BY <1>2, <1>3

LEMMA LessTotal ==
  ASSUME NEW a \in Seq(Nat), NEW b \in Seq(Nat), a # b
  PROVE  \E i \in Nat : LessAt(a, b, i) \/ LessAt(b, a, i)
<1>1. /\ Len(a) \in Nat /\ Len(b) \in Nat
      /\ \A j \in 1 .. Len(a) : a[j] \in Nat
      /\ \A j \in 1 .. Len(b) : b[j] \in Nat
  BY LenProperties, ElementOfSeq
<1> DEFINE Apart == {i \in Nat \ {0} : ~ (i <= Len(a) /\ i <= Len(b) /\ a[i] = b[i])
                                        /\ (i <= Len(a) \/ i <= Len(b))}
<1>2. Apart # {}
  <2>1. CASE Len(a) = Len(b)
    <3>1. PICK i \in 1 .. Len(a) : a[i] # b[i]
      BY <2>1, SeqEqual
    <3>2. i \in Nat \ {0} /\ i <= Len(a)
      BY <1>1
    <3> QED
      BY <3>1, <3>2
  <2>2. CASE Len(a) < Len(b)
    <3>1. Len(a) + 1 \in Apart
      BY <1>1, <2>2
    <3> QED
      BY <3>1
  <2>3. CASE Len(b) < Len(a)
    <3>1. Len(b) + 1 \in Apart
      BY <1>1, <2>3
    <3> QED
      BY <3>1
  <2> QED
    BY <1>1, <2>1, <2>2, <2>3
<1>3. PICK i \in Apart : \A j \in Apart : i <= j
  <2>1. Apart \subseteq Nat
    OBVIOUS
  <2> HIDE DEF Apart
  <2> QED
    BY <1>2, <2>1, SmallestIndex
<1>4. i \in Nat \ {0} /\ (i <= Len(a) \/ i <= Len(b))
  BY <1>3
<1>5. \A j \in 1 .. i - 1 : j <= Len(a) /\ j <= Len(b) /\ a[j] = b[j]
  <2> TAKE j \in 1 .. i - 1
  <2>1. j \in Nat \ {0} /\ j \notin Apart
    BY <1>3, <1>4
  <2>2. j <= Len(a) \/ j <= Len(b)
    BY <1>1, <1>4
  <2> QED
    BY <2>1, <2>2
<1>6. i - 1 <= Len(a) /\ i - 1 <= Len(b)
  <2>1. CASE i = 1
    BY <1>1, <2>1
  <2>2. CASE i # 1
    <3>1. i - 1 \in 1 .. i - 1
      BY <1>4, <2>2
    <3> QED
      BY <1>5, <3>1
  <2> QED
    BY <2>1, <2>2
<1>7. i <= Len(a) /\ i <= Len(b) => a[i] < b[i] \/ b[i] < a[i]
  BY <1>1, <1>3, <1>4
<1> HIDE DEF Apart
<1>8. LessAt(a, b, i) \/ LessAt(b, a, i)
  BY <1>1, <1>4, <1>5, <1>6, <1>7 DEF LessAt
<1> QED
  BY <1>4, <1>8

Befores(S) == {p \in S \X S : Before(p[1], p[2])}

LEMMA BeforeOrder ==
  ASSUME NEW S, S \subseteq Seq(Nat)
  PROVE  StrictOrder(Befores(S), S)
<1>1. \A x, y \in S : <<x, y>> \in Befores(S) <=> \E i \in Nat : LessAt(x, y, i)
  BY BeforeIs DEF Befores
<1>2. ASSUME NEW x \in S
      PROVE  <<x, x>> \notin Befores(S)
  BY <1>1, LessOrder
<1>3. ASSUME NEW x \in S, NEW y \in S, NEW z \in S,
             <<x, y>> \in Befores(S), <<y, z>> \in Befores(S)
      PROVE  <<x, z>> \in Befores(S)
  <2>1. PICK i \in Nat : LessAt(x, y, i)
    BY <1>1, <1>3
  <2>2. PICK k \in Nat : LessAt(y, z, k)
    BY <1>1, <1>3
  <2>3. \E m \in Nat : LessAt(x, z, m)
    BY <2>1, <2>2, LessOrder
  <2> QED
    BY <1>1, <2>3
<1>4. ASSUME NEW x \in S, NEW y \in S, x # y
      PROVE  <<x, y>> \in Befores(S) \/ <<y, x>> \in Befores(S)
  <2>1. PICK i \in Nat : LessAt(x, y, i) \/ LessAt(y, x, i)
    BY <1>4, LessTotal
  <2> QED
    BY <1>1, <2>1
<1> QED
  BY <1>2, <1>3, <1>4 DEF StrictOrder

\* The nodes of a plan, each once.
LEMMA PlanOrderIs ==
  ASSUME NEW p, IsFiniteSet(DOMAIN p), DOMAIN p \subseteq Seq(Nat)
  PROVE  /\ PlanOrder(p) = Ranked(Befores(DOMAIN p), DOMAIN p)
         /\ ToSet(PlanOrder(p)) = DOMAIN p
<1> DEFINE S == DOMAIN p
           B == Befores(S)
<1>1. ASSUME NEW x \in S
      PROVE  {y \in S : Before(y, x)} = Lower(B, S, x)
  BY DEF Lower, Befores
<1>2. PlanOrder(p) = Ranked(B, S)
  <2> DEFINE e(i) == CHOOSE x \in S : Cardinality({y \in S : Before(y, x)}) = i - 1
             f(i) == CHOOSE x \in S : Cardinality(Lower(B, S, x)) = i - 1
  <2>1. \A i \in 1 .. Cardinality(S) : e(i) = f(i)
    BY <1>1
  <2>2. PlanOrder(p) = [i \in 1 .. Cardinality(S) |-> e(i)]
    BY DEF PlanOrder, InOrder
  <2>3. Ranked(B, S) = [i \in 1 .. Cardinality(S) |-> f(i)]
    BY DEF Ranked
  <2> HIDE DEF e, f
  <2> QED
    BY <2>1, <2>2, <2>3
<1>3. StrictOrder(B, S)
  BY BeforeOrder
<1> HIDE DEF S, B
<1>4. /\ \A i \in 1 .. Cardinality(S) : Ranked(B, S)[i] \in S
      /\ \A x \in S : \E i \in 1 .. Cardinality(S) : Ranked(B, S)[i] = x
  BY <1>3, RankedIs DEF S
<1>5. DOMAIN Ranked(B, S) = 1 .. Cardinality(S)
  BY DEF Ranked
<1>6. ToSet(Ranked(B, S)) = S
  BY <1>4, <1>5 DEF ToSet
<1> QED
  BY <1>2, <1>6 DEF S, B

-----------------------------------------------------------------------------
(* Depth.                                                                  *)

Depth(t, i, ups, downs) == Count(t, i, ups) - Count(t, i, downs)

Rise(x, ups, downs) == (IF x \in ups THEN 1 ELSE 0) - (IF x \in downs THEN 1 ELSE 0)

LEMMA CountSteps ==
  ASSUME NEW t, NEW K, NEW i \in Nat \ {0}
  PROVE  /\ Count(t, 0, K) = 0
         /\ Count(t, i - 1, K) \in Nat
         /\ Count(t, i, K) = Count(t, i - 1, K) + (IF t[i] \in K THEN 1 ELSE 0)
<1>1. Count(t, 0, K) = 0
  <2>1. {k \in 1 .. 0 : t[k] \in K} = {}
    OBVIOUS
  <2> QED
    BY <2>1, FS_EmptySet DEF Count
<1> DEFINE before == {k \in 1 .. i - 1 : t[k] \in K}
           upto == {k \in 1 .. i : t[k] \in K}
<1>2. IsFiniteSet(before)
  <2>1. IsFiniteSet(1 .. i - 1)
    BY FS_Interval
  <2> QED
    BY <2>1, FS_Subset
<1>3. Count(t, i - 1, K) = Cardinality(before) /\ Count(t, i, K) = Cardinality(upto)
  BY DEF Count
<1>4. Cardinality(before) \in Nat
  BY <1>2, FS_CardinalityType
<1>5. CASE t[i] \in K
  <2>1. upto = before \cup {i} /\ i \notin before
    BY <1>5
  <2> HIDE DEF upto, before
  <2>2. Cardinality(upto) = Cardinality(before) + 1
    BY <1>2, <2>1, FS_AddElement
  <2> QED
    BY <1>1, <1>3, <1>4, <1>5, <2>2
<1>6. CASE t[i] \notin K
  <2>1. upto = before
    BY <1>6
  <2> HIDE DEF upto, before
  <2> QED
    BY <1>1, <1>3, <1>4, <1>6, <2>1
<1> QED
  BY <1>5, <1>6

LEMMA CountIsNatural ==
  ASSUME NEW t, NEW K, NEW i \in Nat
  PROVE  Count(t, i, K) \in Nat
<1>1. i + 1 \in Nat \ {0} /\ i + 1 - 1 = i
  OBVIOUS
<1> QED
  BY <1>1, CountSteps

LEMMA DepthSteps ==
  ASSUME NEW t, NEW ups, NEW downs, NEW i \in Nat \ {0}
  PROVE  /\ Depth(t, 0, ups, downs) = 0
         /\ Depth(t, i - 1, ups, downs) \in Int
         /\ Depth(t, i, ups, downs) = Depth(t, i - 1, ups, downs) + Rise(t[i], ups, downs)
<1>1. /\ Count(t, 0, ups) = 0 /\ Count(t, i - 1, ups) \in Nat
      /\ Count(t, i, ups) = Count(t, i - 1, ups) + (IF t[i] \in ups THEN 1 ELSE 0)
  BY CountSteps
<1>2. /\ Count(t, 0, downs) = 0 /\ Count(t, i - 1, downs) \in Nat
      /\ Count(t, i, downs) = Count(t, i - 1, downs) + (IF t[i] \in downs THEN 1 ELSE 0)
  BY CountSteps
<1> QED
  BY <1>1, <1>2 DEF Depth, Rise

LEMMA DepthIsInteger ==
  ASSUME NEW t, NEW ups, NEW downs, NEW i \in Nat
  PROVE  Depth(t, i, ups, downs) \in Int
BY CountIsNatural DEF Depth

LEMMA RiseIsInteger ==
  ASSUME NEW x, NEW ups, NEW downs
  PROVE  Rise(x, ups, downs) \in Int
BY DEF Rise

LEMMA DepthStarts ==
  ASSUME NEW t, NEW ups, NEW downs
  PROVE  Depth(t, 0, ups, downs) = 0
<1>1. 1 \in Nat \ {0}
  OBVIOUS
<1> QED
  BY <1>1, DepthSteps

Fits(w, s, t, m, n) ==
    (\A i \in 1 .. m : w[i] = s[i]) /\ \A j \in 1 .. n : w[m + j] = t[j]

LEMMA DepthFits ==
  ASSUME NEW w, NEW s, NEW t, NEW m \in Nat, NEW n \in Nat, NEW ups, NEW downs, Fits(w, s, t, m, n)
  PROVE  /\ \A i \in 0 .. m : Depth(w, i, ups, downs) = Depth(s, i, ups, downs)
         /\ \A j \in 0 .. n :
               Depth(w, m + j, ups, downs) = Depth(s, m, ups, downs) + Depth(t, j, ups, downs)
<1> DEFINE A == {i \in Nat : Depth(w, i, ups, downs) = Depth(s, i, ups, downs)}
           B == {j \in Nat : Depth(w, m + j, ups, downs)
                                 = Depth(s, m, ups, downs) + Depth(t, j, ups, downs)}
<1>1. \A i \in 0 .. m : i \in A
  <2>1. 0 \in A
    BY DepthStarts
  <2>2. ASSUME NEW i \in 1 .. m, i - 1 \in A
        PROVE  i \in A
    <3>1. i \in Nat \ {0}
      OBVIOUS
    <3>2. Depth(w, i, ups, downs)
             = Depth(w, i - 1, ups, downs) + Rise(w[i], ups, downs)
      BY <3>1, DepthSteps
    <3>3. Depth(s, i, ups, downs) = Depth(s, i - 1, ups, downs) + Rise(s[i], ups, downs)
      BY <3>1, DepthSteps
    <3>4. Rise(w[i], ups, downs) = Rise(s[i], ups, downs)
      BY DEF Fits
    <3>5. Depth(w, i - 1, ups, downs) = Depth(s, i - 1, ups, downs)
      BY <2>2
    <3>6. Depth(w, i, ups, downs) = Depth(s, i, ups, downs)
      BY <3>2, <3>3, <3>4, <3>5
    <3> QED
      BY <3>1, <3>6
  <2> HIDE DEF A
  <2> QED
    BY <2>1, <2>2, UpTo
<1>2. \A j \in 0 .. n : j \in B
  <2>1. 0 \in B
    <3>1. Depth(t, 0, ups, downs) = 0
      BY DepthStarts
    <3>2. Depth(s, m, ups, downs) \in Int /\ m + 0 = m
      BY DepthIsInteger
    <3>3. Depth(w, m, ups, downs) = Depth(s, m, ups, downs)
      BY <1>1
    <3> QED
      BY <3>1, <3>2, <3>3
  <2>2. ASSUME NEW j \in 1 .. n, j - 1 \in B
        PROVE  j \in B
    <3>1. j \in Nat \ {0} /\ m + j \in Nat \ {0} /\ m + j - 1 = m + (j - 1) /\ j - 1 \in Nat
      OBVIOUS
    <3>2. Depth(w, m + j, ups, downs)
             = Depth(w, m + j - 1, ups, downs) + Rise(w[m + j], ups, downs)
      <4>1. PICK k \in Nat \ {0} : k = m + j
        BY <3>1
      <4>2. Depth(w, k, ups, downs) = Depth(w, k - 1, ups, downs) + Rise(w[k], ups, downs)
        BY DepthSteps
      <4> QED
        BY <4>1, <4>2
    <3>3. Depth(t, j, ups, downs) = Depth(t, j - 1, ups, downs) + Rise(t[j], ups, downs)
      BY <3>1, DepthSteps
    <3>4. Rise(w[m + j], ups, downs) = Rise(t[j], ups, downs)
      BY DEF Fits
    <3>5. /\ Depth(s, m, ups, downs) \in Int /\ Depth(t, j - 1, ups, downs) \in Int
          /\ Rise(t[j], ups, downs) \in Int
      BY <3>1, DepthIsInteger, RiseIsInteger
    <3>6. Depth(w, m + j - 1, ups, downs)
             = Depth(s, m, ups, downs) + Depth(t, j - 1, ups, downs)
      BY <2>2, <3>1
    <3>7. Depth(w, m + j, ups, downs) = Depth(s, m, ups, downs) + Depth(t, j, ups, downs)
      BY <3>1, <3>2, <3>3, <3>4, <3>5, <3>6
    <3> QED
      BY <3>1, <3>7
  <2> HIDE DEF B
  <2> QED
    BY <2>1, <2>2, UpTo
<1> QED
  BY <1>1, <1>2


\* w is s, of m tokens, and then t, of n.
Continues(w, s, t) ==
    /\ Len(s) \in Nat /\ Len(t) \in Nat /\ Len(w) = Len(s) + Len(t)
    /\ \A i \in 1 .. Len(s) : w[i] = s[i]
    /\ \A j \in 1 .. Len(t) : w[Len(s) + j] = t[j]

LEMMA JoinContinues ==
  ASSUME NEW X, NEW s \in Seq(X), NEW t \in Seq(X)
  PROVE  s \o t \in Seq(X) /\ Continues(s \o t, s, t)
BY ConcatProperties, LenProperties DEF Continues

LEMMA DepthJoins ==
  ASSUME NEW w, NEW s, NEW t, Continues(w, s, t), NEW ups, NEW downs
  PROVE  /\ \A i \in 0 .. Len(s) : Depth(w, i, ups, downs) = Depth(s, i, ups, downs)
         /\ \A j \in 0 .. Len(t) :
               Depth(w, Len(s) + j, ups, downs) = Depth(s, Len(s), ups, downs) + Depth(t, j, ups, downs)
<1>1. PICK m \in Nat : m = Len(s)
  BY DEF Continues
<1>2. PICK n \in Nat : n = Len(t)
  BY DEF Continues
<1>3. Fits(w, s, t, m, n)
  BY <1>1, <1>2 DEF Continues, Fits
<1>4. /\ \A i \in 0 .. m : Depth(w, i, ups, downs) = Depth(s, i, ups, downs)
      /\ \A j \in 0 .. n :
            Depth(w, m + j, ups, downs) = Depth(s, m, ups, downs) + Depth(t, j, ups, downs)
  BY <1>3, DepthFits
<1>5. \A i \in 0 .. Len(s) : Depth(w, i, ups, downs) = Depth(s, i, ups, downs)
  <2>1. 0 .. Len(s) = 0 .. m
    BY <1>1
  <2> QED
    BY <1>4, <2>1
<1>6. ASSUME NEW j \in 0 .. Len(t)
      PROVE  Depth(w, Len(s) + j, ups, downs) = Depth(s, Len(s), ups, downs) + Depth(t, j, ups, downs)
  <2>1. j \in 0 .. n /\ Len(s) + j = m + j
    BY <1>1, <1>2
  <2>2. Depth(w, m + j, ups, downs) = Depth(s, m, ups, downs) + Depth(t, j, ups, downs)
    BY <1>4, <2>1
  <2>3. Depth(s, Len(s), ups, downs) = Depth(s, m, ups, downs)
    BY <1>1
  <2>4. Depth(w, Len(s) + j, ups, downs) = Depth(w, m + j, ups, downs)
    BY <2>1
  <2> QED
    BY <2>2, <2>3, <2>4
<1> QED
  BY <1>5, <1>6

-----------------------------------------------------------------------------
(* Balanced texts.                                                         *)

Balanced(t) ==
    /\ Len(t) \in Nat
    /\ DepthAt(t, Len(t)) = 0
    /\ \A i \in 0 .. Len(t) : DepthAt(t, i) \in Nat

LEMMA DepthAtIs ==
  ASSUME NEW t, NEW i
  PROVE  /\ DepthAt(t, i) = Depth(t, i, {Open}, {Close})
         /\ RawDepthAt(t, i) = Depth(t, i, {Open, Literal("open")}, {Close, Literal("close")})
BY DEF DepthAt, RawDepthAt, Depth

LEMMA DepthAtJoins ==
  ASSUME NEW w, NEW s, NEW t, Continues(w, s, t)
  PROVE  /\ \A i \in 0 .. Len(s) : DepthAt(w, i) = DepthAt(s, i)
         /\ \A j \in 0 .. Len(t) : DepthAt(w, Len(s) + j) = DepthAt(s, Len(s)) + DepthAt(t, j)
BY DepthJoins, DepthAtIs

LEMMA RawAtJoins ==
  ASSUME NEW w, NEW s, NEW t, Continues(w, s, t)
  PROVE  \A i \in 0 .. Len(s) : RawDepthAt(w, i) = RawDepthAt(s, i)
BY DepthJoins, DepthAtIs

LEMMA BalancedJoins ==
  ASSUME NEW w, NEW s, NEW t, Continues(w, s, t), Balanced(s), Balanced(t)
  PROVE  /\ Balanced(w)
         /\ \A j \in 0 .. Len(t) : DepthAt(w, Len(s) + j) = DepthAt(t, j)
<1>1. PICK m \in Nat : m = Len(s)
  BY DEF Continues
<1>2. PICK n \in Nat : n = Len(t)
  BY DEF Continues
<1>3. /\ \A i \in 0 .. m : DepthAt(w, i) = DepthAt(s, i)
      /\ \A j \in 0 .. n : DepthAt(w, m + j) = DepthAt(s, m) + DepthAt(t, j)
  BY <1>1, <1>2, DepthAtJoins
<1>4. DepthAt(s, m) = 0 /\ \A i \in 0 .. m : DepthAt(s, i) \in Nat
  BY <1>1 DEF Balanced
<1>5. DepthAt(t, n) = 0 /\ \A j \in 0 .. n : DepthAt(t, j) \in Nat
  BY <1>2 DEF Balanced
<1>6. \A j \in 0 .. n : DepthAt(w, m + j) = DepthAt(t, j)
  BY <1>3, <1>4, <1>5
<1>7. \A i \in 0 .. m + n : DepthAt(w, i) \in Nat
  <2> TAKE i \in 0 .. m + n
  <2>1. CASE i <= m
    BY <1>3, <1>4, <2>1
  <2>2. CASE ~ (i <= m)
    <3>1. PICK j \in 0 .. n : i = m + j
      <4>1. i - m \in 0 .. n /\ i = m + (i - m)
        BY <2>2
      <4> QED
        BY <4>1
    <3> QED
      BY <1>5, <1>6, <3>1
  <2> QED
    BY <2>1, <2>2
<1>8. DepthAt(w, m + n) = 0
  BY <1>5, <1>6
<1>9. Len(w) = m + n
  BY <1>1, <1>2 DEF Continues
<1> QED
  BY <1>1, <1>2, <1>6, <1>7, <1>8, <1>9 DEF Balanced

\* The top level of one text after a balanced other.
LEMMA TopJoins ==
  ASSUME NEW w, NEW s, NEW t, Continues(w, s, t), Balanced(s), Balanced(t),
         DOMAIN w = 1 .. Len(w), DOMAIN s = 1 .. Len(s), DOMAIN t = 1 .. Len(t)
  PROVE  TopLevel(w) = TopLevel(s) \cup {Len(s) + j : j \in TopLevel(t)}
<1>1. PICK m \in Nat : m = Len(s)
  BY ZenonT(60) DEF Continues
<1>2. PICK n \in Nat : n = Len(t)
  BY ZenonT(60) DEF Continues
<1>3. /\ \A i \in 0 .. m : DepthAt(w, i) = DepthAt(s, i)
      /\ \A j \in 0 .. n : DepthAt(w, m + j) = DepthAt(t, j)
  BY <1>1, <1>2, DepthAtJoins, BalancedJoins
<1>4. /\ DOMAIN w = 1 .. m + n /\ DOMAIN s = 1 .. m /\ DOMAIN t = 1 .. n
      /\ \A i \in 1 .. m : w[i] = s[i]
      /\ \A j \in 1 .. n : w[m + j] = t[j]
  BY <1>1, <1>2 DEF Continues
<1>5. ASSUME NEW i \in 1 .. m
      PROVE  i \in TopLevel(w) <=> i \in TopLevel(s)
  BY <1>3, <1>4, <1>5 DEF TopLevel
<1>6. ASSUME NEW j \in 1 .. n
      PROVE  m + j \in TopLevel(w) <=> j \in TopLevel(t)
  BY <1>3, <1>4, <1>6 DEF TopLevel
<1>7. TopLevel(w) \subseteq 1 .. m + n /\ TopLevel(s) \subseteq 1 .. m /\ TopLevel(t) \subseteq 1 .. n
  BY <1>4 DEF TopLevel
<1>8. ASSUME NEW i \in TopLevel(w)
      PROVE  i \in TopLevel(s) \/ \E j \in TopLevel(t) : i = m + j
  <2>1. CASE i <= m
    BY <1>5, <1>7, <2>1
  <2>2. CASE ~ (i <= m)
    <3>1. i - m \in 1 .. n /\ i = m + (i - m)
      BY <1>7, <2>2
    <3>2. i - m \in TopLevel(t)
      BY <1>6, <3>1
    <3> QED
      BY <3>1, <3>2
  <2> QED
    BY <2>1, <2>2
<1>9. \A i \in TopLevel(s) : i \in TopLevel(w)
  BY <1>5, <1>7
<1>10. \A j \in TopLevel(t) : m + j \in TopLevel(w)
  BY <1>6, <1>7
<1> HIDE DEF TopLevel
<1>11. TopLevel(w) = TopLevel(s) \cup {m + j : j \in TopLevel(t)}
  BY <1>8, <1>9, <1>10
<1> QED
  BY <1>1, <1>11

-----------------------------------------------------------------------------
(* Texts in parentheses.                                                   *)

Words == {"AND", "OR", "NOT", "lower", "~~"}

Token ==
    {Open, Close} \cup {Word(x) : x \in Words} \cup {Char(x) : x \in Comparisons}
    \cup {Cast(x) : x \in {"one", "several"}} \cup {Literal(x) : x \in {"plain", "open", "close"}}
    \cup {Ident(x, y) : x \in STRING, y \in STRING}
    \cup {Quoted(x, y) : x \in STRING, y \in STRING}

Connectives == {Word("AND"), Word("OR")}

LEMMA ParensAreTokens == Open \in Token /\ Close \in Token /\ Open # Close
<1>1. Open[1] = "(" /\ Close[1] = ")"
  BY DEF Open, Close
<1>2. Open # Close
  BY <1>1
<1> QED
  BY <1>2 DEF Token

LEMMA NoneIsAParen ==
  ASSUME NEW x, NEW y
  PROVE  {Word(x), Char(x), Cast(x), Literal(x), Ident(x, y), Quoted(x, y)} \cap {Open, Close} = {}
<1>1. Open[1] = "(" /\ Close[1] = ")"
  BY DEF Open, Close
<1>2. /\ Word(x)[1] = "word" /\ Char(x)[1] = "op" /\ Cast(x)[1] = "::"
      /\ Literal(x)[1] = "'" /\ Ident(x, y)[1] = "ident" /\ Quoted(x, y)[1] = "quoted"
  BY DEF Word, Char, Cast, Literal, Ident, Quoted
<1> QED
  BY <1>1, <1>2

LEMMA TheyAreTokens ==
  /\ \A x \in Words : Word(x) \in Token
  /\ \A x \in Comparisons : Char(x) \in Token
  /\ \A x \in {"one", "several"} : Cast(x) \in Token
  /\ \A x \in {"plain", "open", "close"} : Literal(x) \in Token
  /\ \A x \in STRING, y \in STRING : Ident(x, y) \in Token /\ Quoted(x, y) \in Token
<1>1. \A x \in Words : Word(x) \in Token
  BY DEF Token
<1>2. \A x \in Comparisons : Char(x) \in Token
  BY DEF Token
<1>3. \A x \in {"one", "several"} : Cast(x) \in Token
  BY DEF Token
<1>4. \A x \in {"plain", "open", "close"} : Literal(x) \in Token
  BY DEF Token
<1>5. \A x \in STRING, y \in STRING : Ident(x, y) \in Token /\ Quoted(x, y) \in Token
  BY DEF Token
<1> QED
  BY <1>1, <1>2, <1>3, <1>4, <1>5

\* w is u in parentheses.
Wraps(w, u) ==
    /\ Len(u) \in Nat /\ Len(w) = Len(u) + 2
    /\ w[1] = Open /\ w[Len(u) + 2] = Close
    /\ \A i \in 1 .. Len(u) : w[1 + i] = u[i]

InParens(u) == <<Open>> \o u \o <<Close>>

LEMMA InParensWraps ==
  ASSUME NEW u \in Seq(Token)
  PROVE  InParens(u) \in Seq(Token) /\ Wraps(InParens(u), u)
<1>1. <<Open>> \in Seq(Token) /\ <<Close>> \in Seq(Token)
  BY ParensAreTokens
<1>2. Len(<<Open>>) = 1 /\ Len(<<Close>>) = 1 /\ <<Open>>[1] = Open /\ <<Close>>[1] = Close
  OBVIOUS
<1>3. PICK n \in Nat : n = Len(u)
  BY LenProperties
<1>4. PICK a : a = <<Open>> \o u
  OBVIOUS
<1>5. a \in Seq(Token) /\ Continues(a, <<Open>>, u)
  BY <1>1, <1>4, JoinContinues
<1>6. PICK w : w = a \o <<Close>>
  OBVIOUS
<1>7. w \in Seq(Token) /\ Continues(w, a, <<Close>>)
  BY <1>1, <1>5, <1>6, JoinContinues
<1>8. Len(a) = 1 + n /\ a[1] = Open /\ \A j \in 1 .. n : a[1 + j] = u[j]
  BY <1>2, <1>3, <1>5 DEF Continues
<1>9. Len(w) = n + 2 /\ w[n + 2] = Close /\ \A i \in 1 .. 1 + n : w[i] = a[i]
  BY <1>2, <1>7, <1>8 DEF Continues
<1>10. w[1] = Open /\ \A i \in 1 .. n : w[1 + i] = u[i]
  BY <1>8, <1>9
<1>11. Wraps(w, u)
  BY <1>3, <1>9, <1>10 DEF Wraps
<1>12. InParens(u) = w
  BY <1>4, <1>6 DEF InParens
<1> QED
  BY <1>7, <1>11, <1>12

LEMMA WrapsInside ==
  ASSUME NEW w \in Seq(Token), NEW u \in Seq(Token), Wraps(w, u)
  PROVE  SubSeq(w, 2, Len(w) - 1) = u
<1>1. PICK n \in Nat : n = Len(u)
  BY LenProperties
<1>2. Len(w) = n + 2 /\ \A i \in 1 .. n : w[1 + i] = u[i]
  BY <1>1 DEF Wraps
<1>3. \A i \in 2 .. n + 1 : w[i] \in Token
  BY <1>2, ElementOfSeq
<1>4. PICK v : v = SubSeq(w, 2, n + 1)
  OBVIOUS
<1>5. v \in Seq(Token) /\ Len(v) = n /\ \A i \in 1 .. n : v[i] = w[1 + i]
  <2>1. /\ SubSeq(w, 2, n + 1) \in Seq(Token)
        /\ Len(SubSeq(w, 2, n + 1)) = IF 2 <= n + 1 THEN n + 1 - 2 + 1 ELSE 0
        /\ \A i \in 1 .. n + 1 - 2 + 1 : SubSeq(w, 2, n + 1)[i] = w[2 + i - 1]
    BY <1>3, SubSeqProperties
  <2>2. n + 1 - 2 + 1 = n /\ \A i \in 1 .. n : 2 + i - 1 = 1 + i
    OBVIOUS
  <2> QED
    BY <1>4, <2>1, <2>2
<1>6. v = u
  BY <1>1, <1>2, <1>5, SeqEqual
<1> QED
  BY <1>2, <1>4, <1>6

LEMMA WrapsDepth ==
  ASSUME NEW w, NEW u, Wraps(w, u), NEW ups, NEW downs,
         Open \in ups, Open \notin downs, Close \in downs, Close \notin ups
  PROVE  /\ \A i \in 0 .. Len(u) : Depth(w, 1 + i, ups, downs) = 1 + Depth(u, i, ups, downs)
         /\ Depth(w, Len(u) + 2, ups, downs) = Depth(u, Len(u), ups, downs)
<1>1. PICK n \in Nat : n = Len(u)
  BY DEF Wraps
<1>2. PICK a : a = <<Open>>
  OBVIOUS
<1>3. Fits(w, a, u, 1, n)
  BY <1>1, <1>2 DEF Wraps, Fits
<1>4. \A i \in 0 .. n : Depth(w, 1 + i, ups, downs) = Depth(a, 1, ups, downs) + Depth(u, i, ups, downs)
  BY <1>3, DepthFits
<1>5. Depth(a, 1, ups, downs) = 1
  <2>1. PICK k \in Nat \ {0} : k = 1
    OBVIOUS
  <2>2. /\ Depth(a, 0, ups, downs) = 0
        /\ Depth(a, k, ups, downs) = Depth(a, k - 1, ups, downs) + Rise(a[k], ups, downs)
    BY DepthSteps
  <2>3. Rise(a[1], ups, downs) = 1
    BY <1>2 DEF Rise
  <2> QED
    BY <2>1, <2>2, <2>3
<1>6. \A i \in 0 .. n : Depth(w, 1 + i, ups, downs) = 1 + Depth(u, i, ups, downs)
  BY <1>4, <1>5
<1>7. Depth(w, n + 2, ups, downs) = Depth(u, n, ups, downs)
  <2>1. PICK k \in Nat \ {0} : k = n + 2 /\ k - 1 = 1 + n
    OBVIOUS
  <2>2. Depth(w, k, ups, downs) = Depth(w, k - 1, ups, downs) + Rise(w[k], ups, downs)
    BY DepthSteps
  <2>3. Rise(w[k], ups, downs) = 0 - 1
    BY <1>1, <2>1 DEF Wraps, Rise
  <2>4. Depth(u, n, ups, downs) \in Int
    BY DepthIsInteger
  <2>5. Depth(w, 1 + n, ups, downs) = 1 + Depth(u, n, ups, downs)
    BY <1>6
  <2> QED
    BY <2>1, <2>2, <2>3, <2>4, <2>5
<1> QED
  BY <1>1, <1>6, <1>7

LEMMA WrapsBalanced ==
  ASSUME NEW w, NEW u, Wraps(w, u), Balanced(u)
  PROVE  /\ Balanced(w)
         /\ \A i \in 0 .. Len(u) : DepthAt(w, 1 + i) = 1 + DepthAt(u, i)
<1>1. PICK n \in Nat : n = Len(u)
  BY DEF Wraps
<1>2. /\ \A i \in 0 .. n : DepthAt(w, 1 + i) = 1 + DepthAt(u, i)
      /\ DepthAt(w, n + 2) = DepthAt(u, n)
  BY <1>1, WrapsDepth, DepthAtIs, ParensAreTokens
<1>3. DepthAt(u, n) = 0 /\ \A i \in 0 .. n : DepthAt(u, i) \in Nat
  BY <1>1 DEF Balanced
<1>4. DepthAt(w, 0) = 0
  BY DepthStarts, DepthAtIs
<1>5. \A i \in 0 .. n + 2 : DepthAt(w, i) \in Nat
  <2> TAKE i \in 0 .. n + 2
  <2>1. CASE i = 0
    BY <1>4, <2>1
  <2>2. CASE i = n + 2
    BY <1>2, <1>3, <2>2
  <2>3. CASE i # 0 /\ i # n + 2
    <3>1. i - 1 \in 0 .. n /\ i = 1 + (i - 1)
      BY <2>3
    <3>2. DepthAt(w, 1 + (i - 1)) = 1 + DepthAt(u, i - 1) /\ DepthAt(u, i - 1) \in Nat
      BY <1>2, <1>3, <3>1
    <3> QED
      BY <3>1, <3>2
  <2> QED
    BY <2>1, <2>2, <2>3
<1>6. Len(w) = n + 2
  BY <1>1 DEF Wraps
<1>7. Balanced(w)
  BY <1>2, <1>3, <1>5, <1>6 DEF Balanced
<1> QED
  BY <1>1, <1>2, <1>7

\* Nothing in parentheses is at the top level.
LEMMA WrapsTop ==
  ASSUME NEW w \in Seq(Token), NEW u, Wraps(w, u), Balanced(u)
  PROVE  TopLevel(w) = {}
<1>1. PICK n \in Nat : n = Len(u)
  BY DEF Wraps
<1>2. DOMAIN w = 1 .. n + 2 /\ w[1] = Open /\ w[n + 2] = Close
  BY <1>1, LenProperties DEF Wraps
<1>3. \A i \in 0 .. n : DepthAt(w, 1 + i) = 1 + DepthAt(u, i) /\ DepthAt(u, i) \in Nat
  BY <1>1, WrapsBalanced DEF Balanced
<1>4. ASSUME NEW i \in 1 .. n + 2, i # 1, i # n + 2
      PROVE  DepthAt(w, i) # 0
  <2>1. i - 1 \in 0 .. n /\ i = 1 + (i - 1)
    BY <1>4
  <2>2. DepthAt(w, 1 + (i - 1)) = 1 + DepthAt(u, i - 1) /\ DepthAt(u, i - 1) \in Nat
    BY <1>3, <2>1
  <2> QED
    BY <2>1, <2>2
<1> QED
  BY <1>2, <1>4 DEF TopLevel

\* No literal of it holds a parenthesis.
Clear(t) == \A i \in 1 .. Len(t) : t[i] \notin {Literal("open"), Literal("close")}

LEMMA ClearIsRaw ==
  ASSUME NEW t, Clear(t), Len(t) \in Nat
  PROVE  \A i \in 0 .. Len(t) : RawDepthAt(t, i) = DepthAt(t, i)
<1> TAKE i \in 0 .. Len(t)
<1>1. \A k \in 1 .. i : t[k] \notin {Literal("open"), Literal("close")}
  BY DEF Clear
<1>2. {k \in 1 .. i : t[k] \in {Open, Literal("open")}} = {k \in 1 .. i : t[k] \in {Open}}
  BY <1>1
<1>3. {k \in 1 .. i : t[k] \in {Close, Literal("close")}} = {k \in 1 .. i : t[k] \in {Close}}
  BY <1>1
<1> QED
  BY <1>2, <1>3 DEF RawDepthAt, DepthAt, Count

LEMMA WrapsStripped ==
  ASSUME NEW w \in Seq(Token), NEW u \in Seq(Token), Wraps(w, u), Balanced(u)
  PROVE  /\ StripOuterParens(w) = u \/ StripOuterParens(w) = w
         /\ Clear(u) => StripOuterParens(w) = u
<1>1. SubSeq(w, 2, Len(w) - 1) = u
  BY WrapsInside
<1>2. StripOuterParens(w) = u \/ StripOuterParens(w) = w
  BY <1>1 DEF StripOuterParens
<1>3. ASSUME Clear(u)
      PROVE  StripOuterParens(w) = u
  <2>1. PICK n \in Nat : n = Len(u)
    BY LenProperties
  <2>2. Len(w) = n + 2 /\ w[1] = Open /\ w[n + 2] = Close /\ \A i \in 1 .. n : w[1 + i] = u[i]
    BY <2>1 DEF Wraps
  <2>3. Clear(w)
    <3>1. Open \notin {Literal("open"), Literal("close")} /\ Close \notin {Literal("open"), Literal("close")}
      BY NoneIsAParen
    <3>2. ASSUME NEW i \in 1 .. n + 2
          PROVE  w[i] \notin {Literal("open"), Literal("close")}
      <4>1. CASE i = 1 \/ i = n + 2
        BY <2>2, <3>1, <4>1
      <4>2. CASE i # 1 /\ i # n + 2
        <5>1. i - 1 \in 1 .. n /\ i = 1 + (i - 1)
          BY <4>2
        <5>2. w[1 + (i - 1)] = u[i - 1]
          BY <2>2, <5>1
        <5>3. u[i - 1] \notin {Literal("open"), Literal("close")}
          BY <1>3, <2>1, <5>1 DEF Clear
        <5> QED
          BY <5>1, <5>2, <5>3
      <4> QED
        BY <4>1, <4>2
    <3> QED
      BY <2>2, <3>2 DEF Clear
  <2>4. \A i \in 0 .. n + 2 : RawDepthAt(w, i) = DepthAt(w, i)
    BY <2>2, <2>3, ClearIsRaw
  <2>5. \A i \in 0 .. n : DepthAt(w, 1 + i) = 1 + DepthAt(u, i) /\ DepthAt(u, i) \in Nat
    BY <2>1, WrapsBalanced DEF Balanced
  <2>6. DepthAt(w, n + 2) = 0
    BY <2>2, WrapsBalanced DEF Balanced
  <2>7. \A i \in 1 .. n + 1 : RawDepthAt(w, i) # 0
    <3> TAKE i \in 1 .. n + 1
    <3>1. i - 1 \in 0 .. n /\ i = 1 + (i - 1) /\ i \in 0 .. n + 2
      OBVIOUS
    <3>2. DepthAt(w, 1 + (i - 1)) = 1 + DepthAt(u, i - 1) /\ DepthAt(u, i - 1) \in Nat
      BY <2>5, <3>1
    <3> QED
      BY <2>4, <3>1, <3>2
  <2>8. n + 2 - 1 = n + 1 /\ n + 2 >= 2 /\ n + 2 \in 0 .. n + 2
    OBVIOUS
  <2> QED
    BY <1>1, <2>2, <2>4, <2>6, <2>7, <2>8 DEF StripOuterParens
<1> QED
  BY <1>2, <1>3

-----------------------------------------------------------------------------
(* Flattening.                                                             *)

LEMMA Climb ==
  ASSUME NEW n \in Nat, NEW Good, 0 \in Good,
         \A i \in 0 .. n - 1 : i \in Good => i + 1 \in Good
  PROVE  \A i \in 0 .. n : i \in Good
<1>1. ASSUME NEW d \in 1 .. n, d - 1 \in Good
      PROVE  d \in Good
  <2>1. d - 1 \in 0 .. n - 1 /\ (d - 1) + 1 = d
    OBVIOUS
  <2>2. (d - 1) + 1 \in Good
    BY <1>1, <2>1
  <2> QED
    BY <2>1, <2>2
<1> QED
  BY <1>1, UpTo

\* Recursion over an interval is well founded.
Recurs(n, a, G, f) == f[0] = a /\ \A i \in 1 .. n : f[i] = G[i][f[i - 1]]

LEMMA RecursionExists ==
  ASSUME NEW S, NEW n \in Nat, NEW a \in S, NEW G \in [1 .. n -> [S -> S]]
  PROVE  \E f \in [0 .. n -> S] : Recurs(n, a, G, f)
<1> DEFINE Upto(k, f) == f[0] = a /\ \A i \in 1 .. k : f[i] = G[i][f[i - 1]]
           Good == {k \in 0 .. n : \E f \in [0 .. k -> S] : Upto(k, f)}
<1>1. 0 \in Good
  <2> DEFINE f == [i \in 0 .. 0 |-> a]
  <2>1. f \in [0 .. 0 -> S] /\ Upto(0, f)
    OBVIOUS
  <2> HIDE DEF f
  <2>2. 0 \in 0 .. n
    OBVIOUS
  <2> QED
    BY <2>1, <2>2
<1>2. ASSUME NEW k \in 0 .. n - 1, k \in Good
      PROVE  k + 1 \in Good
  <2>1. PICK g \in [0 .. k -> S] : Upto(k, g)
    BY <1>2
  <2> DEFINE f == [i \in 0 .. k + 1 |-> IF i = k + 1 THEN G[k + 1][g[k]] ELSE g[i]]
  <2>2. k + 1 \in 1 .. n /\ k \in 0 .. k /\ g[k] \in S
    OBVIOUS
  <2>3. G[k + 1][g[k]] \in S
    BY <2>2
  <2>4. f \in [0 .. k + 1 -> S]
    BY <2>3
  <2>5. \A i \in 0 .. k : f[i] = g[i]
    OBVIOUS
  <2>6. f[k + 1] = G[k + 1][f[k]]
    <3>1. f[k + 1] = G[k + 1][g[k]]
      OBVIOUS
    <3>2. f[k] = g[k]
      BY <2>2, <2>5
    <3> HIDE DEF f
    <3> QED
      BY <3>1, <3>2
  <2>7. \A i \in 1 .. k : f[i] = G[i][f[i - 1]]
    <3>1. TAKE i \in 1 .. k
    <3>2. i \in 0 .. k /\ i - 1 \in 0 .. k
      OBVIOUS
    <3>3. f[i] = g[i] /\ f[i - 1] = g[i - 1]
      BY <2>5, <3>2
    <3> QED
      BY <2>1, <3>3
  <2>8. f[0] = a
    BY <2>1, <2>5
  <2> HIDE DEF f
  <2>9. \A i \in 1 .. k + 1 : f[i] = G[i][f[i - 1]]
    <3>1. TAKE i \in 1 .. k + 1
    <3>2. i \in 1 .. k \/ i = k + 1
      OBVIOUS
    <3>3. (k + 1) - 1 = k
      OBVIOUS
    <3> QED
      BY <2>6, <2>7, <3>2, <3>3
  <2>10. Upto(k + 1, f)
    BY <2>8, <2>9
  <2> QED
    BY <2>2, <2>4, <2>10
<1> HIDE DEF Good
<1>3. \A i \in 0 .. n : i \in Good
  BY <1>1, <1>2, Climb
<1>4. n \in Good
  BY <1>3
<1> QED
  BY <1>4 DEF Good, Recurs

LEMMA SeqFromTo ==
  ASSUME NEW X, NEW n \in Nat, NEW s, s = [i \in 1 .. n |-> s[i]], \A i \in 1 .. n : s[i] \in X
  PROVE  s \in Seq(X) /\ Len(s) = n
<1> DEFINE e(i) == s[i]
<1>1. \A i \in 1 .. n : e(i) \in X
  OBVIOUS
<1>2. s = [i \in 1 .. n |-> e(i)]
  OBVIOUS
<1> HIDE DEF e
<1>3. s \in Seq(X)
  BY <1>1, <1>2, IsASeq
<1>4. DOMAIN s = 1 .. n
  BY <1>2
<1> QED
  BY <1>3, <1>4, LenProperties

FlattenStep(ss, f, i) == IF i = 1 THEN ss[i] ELSE f[i - 1] \o ss[i]

FlattenFn(ss, f) == f = [i \in 1 .. Len(ss) |-> FlattenStep(ss, f, i)]

\* h[i] is what the first i sequences are, one after another.
RunsUp(ss, h) == h[0] = <<>> /\ \A i \in 1 .. Len(ss) : h[i] = h[i - 1] \o ss[i]

LEMMA Flattened ==
  ASSUME NEW X, NEW ss \in Seq(Seq(X))
  PROVE  \E h \in [0 .. Len(ss) -> Seq(X)] : RunsUp(ss, h) /\ FlattenSeq(ss) = h[Len(ss)]
<1> DEFINE S == Seq(X)
           n == Len(ss)
           G == [i \in 1 .. n |-> [x \in S |-> x \o ss[i]]]
<1>1. n \in Nat /\ \A i \in 1 .. n : ss[i] \in S
  BY LenProperties, ElementOfSeq
<1>2. <<>> \in S
  OBVIOUS
<1>3. G \in [1 .. n -> [S -> S]]
  BY <1>1, ConcatProperties
<1>4. PICK h \in [0 .. n -> S] : h[0] = <<>> /\ \A i \in 1 .. n : h[i] = G[i][h[i - 1]]
  <2> DEFINE none == <<>>
  <2>1. n \in Nat /\ none \in S
    BY <1>1, <1>2
  <2> HIDE DEF S, n, G, none
  <2>3. n \in Nat
    BY <2>1
  <2>4. none \in S
    BY <2>1
  <2>5. G \in [1 .. n -> [S -> S]]
    BY <1>3
  <2>2. \E f \in [0 .. n -> S] : Recurs(n, none, G, f)
    BY <2>3, <2>4, <2>5, RecursionExists
  <2> QED
    BY <2>2 DEF none, Recurs
<1>5. \A i \in 1 .. n : h[i] = h[i - 1] \o ss[i] /\ i - 1 \in 0 .. n
  <2>1. TAKE i \in 1 .. n
  <2>2. i - 1 \in 0 .. n
    BY <1>1
  <2>3. h[i - 1] \in S
    BY <2>2
  <2>4. G[i][h[i - 1]] = h[i - 1] \o ss[i]
    BY <2>3
  <2> QED
    BY <1>4, <2>2, <2>4
<1>6. CASE n = 0
  <2>1. ss = <<>>
    BY <1>1, <1>6
  <2> QED
    BY <1>4, <1>5, <1>6, <2>1 DEF FlattenSeq, RunsUp
<1>7. CASE n # 0
  <2> DEFINE e == [i \in 1 .. n |-> h[i]]
             f == CHOOSE g : FlattenFn(ss, g)
  <2>0. 1 \in 1 .. n /\ h[1] = <<>> \o ss[1] /\ ss[1] \in S
    <3>1. 1 \in 1 .. n /\ 1 - 1 = 0
      BY <1>1, <1>7
    <3> HIDE DEF S
    <3> QED
      BY <1>1, <1>4, <1>5, <3>1, ZenonT(60)
  <2>1. \A i \in 1 .. n : e[i] = FlattenStep(ss, e, i)
    <3>1. TAKE i \in 1 .. n
    <3>2. CASE i = 1
      <4>1. h[1] = <<>> \o ss[1] /\ ss[1] \in S
        BY <2>0
      <4>2. h[1] = ss[1]
        BY <4>1
      <4> QED
        BY <3>2, <4>2 DEF FlattenStep
    <3>3. CASE i # 1
      <4>1. i - 1 \in 1 .. n
        BY <1>1, <3>3
      <4>2. e[i] = h[i] /\ e[i - 1] = h[i - 1]
        BY <4>1
      <4> QED
        BY <1>5, <3>3, <4>2 DEF FlattenStep
    <3> QED
      BY <3>2, <3>3
  <2>2. FlattenFn(ss, e)
    BY <2>1 DEF FlattenFn
  <2>3. FlattenFn(ss, f)
    <3> HIDE DEF e
    <3> QED
      BY <2>2
  <2>4. FlattenSeq(ss) = f[n]
    BY <1>7 DEF FlattenSeq, FlattenFn, FlattenStep
  <2> HIDE DEF f, e
  <2>5. \A i \in 1 .. n : f[i] = FlattenStep(ss, f, i)
    BY <2>3 DEF FlattenFn
  <2> DEFINE Good == {i \in 0 .. n : i = 0 \/ f[i] = h[i]}
  <2>6. 0 \in Good
    BY <1>1
  <2>7. ASSUME NEW i \in 0 .. n - 1, i \in Good
        PROVE  i + 1 \in Good
    <3>1. i + 1 \in 1 .. n /\ (i + 1) - 1 = i
      BY <1>1
    <3>2. CASE i = 0
      <4>1. f[1] = ss[1]
        BY <2>0, <2>5 DEF FlattenStep
      <4>2. h[1] = ss[1]
        BY <2>0
      <4>3. i + 1 = 1 /\ i + 1 \in 0 .. n
        BY <3>1, <3>2
      <4> QED
        BY <4>1, <4>2, <4>3
    <3>3. CASE i # 0
      <4>1. f[i] = h[i] /\ i + 1 # 1
        BY <2>7, <3>3
      <4>2. f[i + 1] = f[i] \o ss[i + 1]
        BY <2>5, <3>1, <4>1 DEF FlattenStep
      <4>3. h[i + 1] = h[i] \o ss[i + 1]
        BY <1>5, <3>1
      <4>4. i + 1 \in 0 .. n /\ f[i + 1] = h[i + 1]
        BY <3>1, <4>1, <4>2, <4>3
      <4> QED
        BY <4>4
    <3> QED
      BY <3>2, <3>3
  <2> HIDE DEF Good
  <2>8. n \in Good
    <3>1. \A i \in 0 .. n : i \in Good
      <4> HIDE DEF n
      <4> QED
        BY <1>1, <2>6, <2>7, Climb
    <3> QED
      BY <1>1, <3>1
  <2>9. f[n] = h[n]
    BY <1>7, <2>8 DEF Good
  <2>10. RunsUp(ss, h)
    BY <1>4, <1>5 DEF RunsUp
  <2> QED
    BY <1>4, <2>4, <2>9, <2>10
<1> QED
  BY <1>6, <1>7

LEMMA FlattenTyped ==
  ASSUME NEW X, NEW ss \in Seq(Seq(X))
  PROVE  FlattenSeq(ss) \in Seq(X)
<1>1. PICK h \in [0 .. Len(ss) -> Seq(X)] : RunsUp(ss, h) /\ FlattenSeq(ss) = h[Len(ss)]
  BY Flattened
<1>2. Len(ss) \in 0 .. Len(ss)
  BY LenProperties
<1> QED
  BY <1>1, <1>2

Has(s, x) == \E i \in 1 .. Len(s) : s[i] = x

LEMMA HasJoin ==
  ASSUME NEW X, NEW s \in Seq(X), NEW t \in Seq(X), NEW x
  PROVE  Has(s \o t, x) <=> Has(s, x) \/ Has(t, x)
<1>1. PICK m \in Nat, n \in Nat : m = Len(s) /\ n = Len(t)
  BY LenProperties
<1>2. PICK w : w = s \o t
  OBVIOUS
<1>3. /\ Len(w) = m + n /\ \A i \in 1 .. m : w[i] = s[i]
      /\ \A j \in 1 .. n : w[m + j] = t[j]
  BY <1>1, <1>2, JoinContinues DEF Continues
<1>4. ASSUME NEW i \in 1 .. m + n, w[i] = x
      PROVE  Has(s, x) \/ Has(t, x)
  <2>1. CASE i <= m
    BY <1>1, <1>3, <1>4, <2>1 DEF Has
  <2>2. CASE ~ (i <= m)
    <3>1. i - m \in 1 .. n /\ i = m + (i - m)
      BY <2>2
    <3>2. t[i - m] = x
      BY <1>3, <1>4, <3>1
    <3> QED
      BY <1>1, <3>1, <3>2 DEF Has
  <2> QED
    BY <2>1, <2>2
<1>5. ASSUME NEW i \in 1 .. m, s[i] = x
      PROVE  Has(w, x)
  <2>1. i \in 1 .. Len(w) /\ w[i] = x
    BY <1>3, <1>5
  <2> QED
    BY <2>1 DEF Has
<1>6. ASSUME NEW j \in 1 .. n, t[j] = x
      PROVE  Has(w, x)
  <2>1. m + j \in 1 .. Len(w) /\ w[m + j] = x
    BY <1>3, <1>6
  <2> QED
    BY <2>1 DEF Has
<1> QED
  BY <1>1, <1>2, <1>3, <1>4, <1>5, <1>6 DEF Has

\* What flattened sequences hold.
LEMMA FlattenHas ==
  ASSUME NEW X, NEW ss \in Seq(Seq(X)), NEW x
  PROVE  Has(FlattenSeq(ss), x) <=> \E k \in 1 .. Len(ss) : Has(ss[k], x)
<1>1. PICK h \in [0 .. Len(ss) -> Seq(X)] : RunsUp(ss, h) /\ FlattenSeq(ss) = h[Len(ss)]
  BY Flattened
<1>2. PICK n \in Nat : n = Len(ss)
  BY LenProperties
<1>3. \A i \in 1 .. n : ss[i] \in Seq(X)
  BY <1>2, ElementOfSeq
<1> DEFINE Good == {k \in Nat : Has(h[k], x) <=> \E m \in 1 .. k : Has(ss[m], x)}
<1>4. 0 \in Good
  <2>1. h[0] = <<>>
    BY <1>1 DEF RunsUp
  <2>2. ~ Has(h[0], x)
    BY <2>1 DEF Has
  <2> QED
    BY <2>2
<1>5. ASSUME NEW k \in 1 .. n, k - 1 \in Good
      PROVE  k \in Good
  <2>1. h[k - 1] \in Seq(X) /\ ss[k] \in Seq(X)
    <3>1. k - 1 \in 0 .. n
      OBVIOUS
    <3>2. h \in [0 .. n -> Seq(X)]
      BY <1>2
    <3> QED
      BY <1>3, <3>1, <3>2
  <2>2. h[k] = h[k - 1] \o ss[k]
    BY <1>1, <1>2 DEF RunsUp
  <2>3. Has(h[k], x) <=> Has(h[k - 1], x) \/ Has(ss[k], x)
    BY <2>1, <2>2, HasJoin
  <2>4. Has(h[k - 1], x) <=> \E m \in 1 .. k - 1 : Has(ss[m], x)
    BY <1>5
  <2>5. \A m \in Nat : m \in 1 .. k <=> m \in 1 .. k - 1 \/ m = k
    OBVIOUS
  <2>6. Has(h[k], x) <=> \E m \in 1 .. k : Has(ss[m], x)
    BY <2>3, <2>4, <2>5
  <2> QED
    BY <2>6
<1>6. n \in Good
  <2> HIDE DEF Good
  <2>1. \A k \in 0 .. n : k \in Good
    BY <1>4, <1>5, UpTo
  <2> QED
    BY <2>1
<1> QED
  BY <1>1, <1>2, <1>6

LEMMA FlattenOne ==
  ASSUME NEW X, NEW s \in Seq(X)
  PROVE  FlattenSeq(<<s>>) = s
<1>1. PICK ss : ss = <<s>>
  OBVIOUS
<1>2. ss \in Seq(Seq(X)) /\ Len(ss) = 1 /\ ss[1] = s
  BY <1>1
<1>3. PICK h \in [0 .. Len(ss) -> Seq(X)] : RunsUp(ss, h) /\ FlattenSeq(ss) = h[Len(ss)]
  BY <1>2, Flattened
<1>4. h[0] = <<>> /\ \A i \in 1 .. 1 : h[i] = h[i - 1] \o ss[i]
  BY <1>2, <1>3 DEF RunsUp
<1>5. h[1] = h[0] \o ss[1]
  <2>1. 1 \in 1 .. 1 /\ 1 - 1 = 0
    OBVIOUS
  <2> QED
    BY <1>4, <2>1
<1>6. <<>> \o s = s
  OBVIOUS
<1> QED
  BY <1>1, <1>2, <1>3, <1>4, <1>5, <1>6

-----------------------------------------------------------------------------
(* Cutting a text.                                                         *)

Ascending(c) == \A i \in 1 .. Len(c), j \in 1 .. Len(c) : i < j => c[i] < c[j]

Places(c) == {c[k] : k \in 1 .. Len(c)}

LEMMA PlacesBelow ==
  ASSUME NEW c \in Seq(Nat), Ascending(c), NEW k \in 0 .. Len(c)
  PROVE  /\ IsFiniteSet({c[j] : j \in 1 .. k})
         /\ Cardinality({c[j] : j \in 1 .. k}) = k
<1>1. PICK m \in Nat : m = Len(c)
  BY LenProperties
<1>2. \A j \in 1 .. m : c[j] \in Nat
  BY <1>1, ElementOfSeq
<1> DEFINE Below(n) == {c[j] : j \in 1 .. n}
           Good == {n \in Nat : IsFiniteSet(Below(n)) /\ Cardinality(Below(n)) = n}
<1>3. 0 \in Good
  <2>1. Below(0) = {}
    OBVIOUS
  <2> QED
    BY <2>1, FS_EmptySet
<1>4. ASSUME NEW n \in 1 .. m, n - 1 \in Good
      PROVE  n \in Good
  <2>1. Below(n) = Below(n - 1) \cup {c[n]}
    <3>1. \A j \in Nat : j \in 1 .. n <=> j \in 1 .. n - 1 \/ j = n
      OBVIOUS
    <3>2. \A x : x \in Below(n) <=> x \in Below(n - 1) \/ x = c[n]
      BY <3>1
    <3> HIDE DEF Below
    <3> QED
      BY <3>2
  <2>2. c[n] \notin Below(n - 1)
    <3>1. ASSUME NEW j \in 1 .. n - 1
          PROVE  c[j] # c[n]
      <4>1. j \in 1 .. m /\ j < n
        OBVIOUS
      <4>2. c[j] < c[n] /\ c[j] \in Nat /\ c[n] \in Nat
        BY <1>1, <1>2, <4>1 DEF Ascending
      <4> QED
        BY <4>2
    <3> QED
      BY <3>1
  <2>3. IsFiniteSet(Below(n - 1)) /\ Cardinality(Below(n - 1)) = n - 1
    BY <1>4
  <2> HIDE DEF Below
  <2>4. IsFiniteSet(Below(n)) /\ Cardinality(Below(n)) = (n - 1) + 1
    <3>1. PICK b, x : b = Below(n - 1) /\ x = c[n]
      OBVIOUS
    <3>2. IsFiniteSet(b) /\ x \notin b
      BY <2>2, <2>3, <3>1
    <3>3. IsFiniteSet(b \cup {x}) /\ Cardinality(b \cup {x}) = Cardinality(b) + 1
      BY <3>2, FS_AddElement
    <3>4. Below(n) = b \cup {x} /\ Cardinality(b) = n - 1
      BY <2>1, <2>3, <3>1
    <3> QED
      BY <3>3, <3>4
  <2>5. (n - 1) + 1 = n /\ n \in Nat
    OBVIOUS
  <2> QED
    BY <2>4, <2>5
<1>5. k \in Good
  <2> HIDE DEF Good
  <2>1. \A n \in 0 .. m : n \in Good
    BY <1>3, <1>4, UpTo
  <2> QED
    BY <1>1, <2>1
<1> QED
  BY <1>5

\* Sorting places that are known in their order.
LEMMA PlacesInOrder ==
  ASSUME NEW c \in Seq(Nat), Ascending(c)
  PROVE  InOrder(Places(c), <) = c
<1>1. PICK m \in Nat : m = Len(c)
  BY LenProperties
<1>2. \A j \in 1 .. m : c[j] \in Nat
  BY <1>1, ElementOfSeq
<1>3. Cardinality(Places(c)) = m
  <2>1. m \in 0 .. Len(c)
    BY <1>1
  <2> QED
    BY <1>1, <2>1, PlacesBelow DEF Places
<1>4. ASSUME NEW k \in 1 .. m
      PROVE  Cardinality({y \in Places(c) : y < c[k]}) = k - 1
  <2>1. {y \in Places(c) : y < c[k]} = {c[j] : j \in 1 .. k - 1}
    <3>1. ASSUME NEW j \in 1 .. m
          PROVE  c[j] < c[k] => j \in 1 .. k - 1
      <4>1. CASE j = k
        BY <1>2, <4>1
      <4>2. CASE k < j
        <5>1. c[k] < c[j] /\ c[k] \in Nat /\ c[j] \in Nat
          BY <1>1, <1>2, <4>2 DEF Ascending
        <5> QED
          BY <5>1
      <4>3. CASE j < k
        BY <4>3
      <4> QED
        BY <4>1, <4>2, <4>3
    <3>2. \A j \in 1 .. k - 1 : j \in 1 .. m /\ c[j] < c[k]
      BY <1>1 DEF Ascending
    <3>3. \A y : y \in Places(c) <=> \E j \in 1 .. m : y = c[j]
      BY <1>1 DEF Places
    <3>4. \A y : y \in Places(c) /\ y < c[k] => \E j \in 1 .. k - 1 : y = c[j]
      BY <3>1, <3>3
    <3>5. \A j \in 1 .. k - 1 : c[j] \in Places(c) /\ c[j] < c[k]
      BY <3>2, <3>3
    <3> QED
      BY <3>4, <3>5
  <2>2. k - 1 \in 0 .. Len(c)
    BY <1>1
  <2> QED
    BY <2>1, <2>2, PlacesBelow
<1> DEFINE e(i) == CHOOSE x \in Places(c) : Cardinality({y \in Places(c) : y < x}) = i - 1
<1>5. ASSUME NEW i \in 1 .. m
      PROVE  e(i) = c[i]
  <2>1. c[i] \in Places(c)
    BY <1>1 DEF Places
  <2>2. Cardinality({y \in Places(c) : y < c[i]}) = i - 1
    BY <1>4
  <2>3. e(i) \in Places(c) /\ Cardinality({y \in Places(c) : y < e(i)}) = i - 1
    BY <2>1, <2>2
  <2> HIDE DEF e
  <2>4. PICK k \in 1 .. m : e(i) = c[k]
    BY <1>1, <2>3 DEF Places
  <2>5. k - 1 = i - 1
    BY <1>4, <2>3, <2>4
  <2>6. k = i
    BY <2>5
  <2> QED
    BY <2>4, <2>6
<1>6. InOrder(Places(c), <) = [i \in 1 .. m |-> e(i)]
  BY <1>3 DEF InOrder
<1>7. c = [i \in 1 .. m |-> c[i]]
  BY <1>1
<1> HIDE DEF e
<1>8. [i \in 1 .. m |-> e(i)] = [i \in 1 .. m |-> c[i]]
  BY <1>5
<1> QED
  BY <1>6, <1>7, <1>8

\* Where the k-th part of a text begins and ends.
PartFrom(c, k) == IF k = 1 THEN 0 ELSE c[k - 1]
PartTo(text, c, k) == IF k = Len(c) + 1 THEN Len(text) + 1 ELSE c[k]

Part(text, c, k) == SubSeq(text, PartFrom(c, k) + 1, PartTo(text, c, k) - 1)

LEMMA CutParts ==
  ASSUME NEW text \in Seq(Token), NEW c \in Seq(Nat), Ascending(c)
  PROVE  CutAt(text, Places(c)) = [k \in 1 .. Len(c) + 1 |-> Part(text, c, k)]
<1>1. PICK m \in Nat : m = Len(c)
  BY LenProperties
<1>2. PICK n \in Nat : n = Len(text)
  BY LenProperties
<1>3. InOrder(Places(c), <) = c
  BY PlacesInOrder
<1>4. PICK a : a = <<0>> \o c
  OBVIOUS
<1>5. a \in Seq(Nat) /\ Continues(a, <<0>>, c) /\ Len(<<0>>) = 1 /\ <<0>>[1] = 0
  <2>1. <<0>> \in Seq(Nat)
    OBVIOUS
  <2> QED
    BY <1>4, <2>1, JoinContinues
<1>6. PICK z : z = <<n + 1>>
  OBVIOUS
<1>7. z \in Seq(Nat) /\ Len(z) = 1 /\ z[1] = n + 1
  BY <1>6
<1>8. PICK cuts : cuts = a \o z
  OBVIOUS
<1>9. cuts \in Seq(Nat) /\ Continues(cuts, a, z)
  BY <1>5, <1>7, <1>8, JoinContinues
<1>10. Len(a) = 1 + m /\ a[1] = 0 /\ \A j \in 1 .. m : a[1 + j] = c[j]
  BY <1>1, <1>5 DEF Continues
<1>11. Len(cuts) = m + 2 /\ cuts[m + 2] = n + 1 /\ \A i \in 1 .. m + 1 : cuts[i] = a[i]
  BY <1>7, <1>9, <1>10 DEF Continues
<1> DEFINE e(k) == SubSeq(text, cuts[k] + 1, cuts[k + 1] - 1)
           f(k) == Part(text, c, k)
<1>12. CutAt(text, Places(c)) = [k \in 1 .. Len(cuts) - 1 |-> e(k)]
  BY <1>2, <1>3, <1>4, <1>6, <1>8 DEF CutAt
<1>13. Len(cuts) - 1 = m + 1
  BY <1>11
<1>14. ASSUME NEW k \in 1 .. m + 1
       PROVE  e(k) = f(k)
  <2>1. cuts[k] = PartFrom(c, k)
    <3>1. CASE k = 1
      BY <1>10, <1>11, <3>1 DEF PartFrom
    <3>2. CASE k # 1
      <4>1. k - 1 \in 1 .. m /\ 1 + (k - 1) = k
        BY <3>2
      <4> QED
        BY <1>10, <1>11, <3>2, <4>1 DEF PartFrom
    <3> QED
      BY <3>1, <3>2
  <2>2. cuts[k + 1] = PartTo(text, c, k)
    <3>1. CASE k = m + 1
      <4>1. k + 1 = m + 2
        BY <3>1
      <4> QED
        BY <1>1, <1>2, <1>11, <3>1, <4>1 DEF PartTo
    <3>2. CASE k # m + 1
      <4>1. k \in 1 .. m /\ k + 1 \in 1 .. m + 1 /\ 1 + k = k + 1
        BY <3>2
      <4> QED
        BY <1>1, <1>10, <1>11, <3>2, <4>1 DEF PartTo
    <3> QED
      BY <3>1, <3>2
  <2> QED
    BY <2>1, <2>2 DEF Part
<1> HIDE DEF e, f
<1>15. [k \in 1 .. m + 1 |-> e(k)] = [k \in 1 .. m + 1 |-> f(k)]
  BY <1>14
<1> QED
  BY <1>1, <1>12, <1>13, <1>15 DEF f

LEMMA UncutIs ==
  ASSUME NEW text \in Seq(Token)
  PROVE  CutAt(text, {}) = <<text>>
<1>1. PICK c : c = <<>>
  OBVIOUS
<1>2. c \in Seq(Nat) /\ Len(c) = 0 /\ Ascending(c) /\ Places(c) = {}
  BY <1>1 DEF Ascending, Places
<1> DEFINE f(k) == Part(text, c, k)
<1>3. CutAt(text, {}) = [k \in 1 .. 1 |-> f(k)]
  <2>1. CutAt(text, Places(c)) = [k \in 1 .. Len(c) + 1 |-> f(k)]
    BY <1>2, CutParts
  <2>2. Len(c) + 1 = 1
    BY <1>2
  <2> HIDE DEF f
  <2> QED
    BY <1>2, <2>1, <2>2
<1>4. f(1) = text
  <2>1. PICK n \in Nat : n = Len(text)
    BY LenProperties
  <2>2. f(1) = SubSeq(text, 1, n)
    BY <1>2, <2>1 DEF Part, PartFrom, PartTo
  <2>3. SubSeq(text, 1, n) = text
    BY <2>1
  <2> QED
    BY <2>2, <2>3
<1>5. [k \in 1 .. 1 |-> f(k)] = [k \in 1 .. 1 |-> text]
  BY <1>4
<1>6. [k \in 1 .. 1 |-> text] = <<text>>
  OBVIOUS
<1> QED
  BY <1>3, <1>5, <1>6

-----------------------------------------------------------------------------
(* Texts joined by a word.                                                 *)

\* A text with nothing at its top level.
Enclosed(t) == t \in Seq(Token) /\ Balanced(t) /\ TopLevel(t) = {}

\* The m-th of the texts stands in b, where e says that it ends.
IsMember(b, ts, m, e) ==
    /\ e[m - 1] + 1 \in Nat /\ Len(ts[m]) \in Nat /\ e[m] = e[m - 1] + 1 + Len(ts[m])
    /\ \A j \in 1 .. Len(ts[m]) : b[e[m - 1] + 1 + j] = ts[m][j]

\* b is the first k texts with a word between them.
IsBody(b, ts, k, word, e) ==
    /\ b \in Seq(Token) /\ Balanced(b) /\ Len(b) = e[k]
    /\ TopLevel(b) = {e[m] + 1 : m \in 1 .. k - 1}
    /\ \A m \in 1 .. k - 1 : b[e[m] + 1] = Word(word)
    /\ \A m \in 1 .. k : IsMember(b, ts, m, e) /\ e[m] <= e[k]

LEMMA TokenAlone ==
  ASSUME NEW q \in Seq(Token), Len(q) = 1, q[1] # Open, q[1] # Close
  PROVE  Balanced(q) /\ TopLevel(q) = {1}
<1>1. DepthAt(q, 0) = 0
  BY DepthStarts, DepthAtIs
<1>2. DepthAt(q, 1) = 0
  <2>1. PICK k \in Nat \ {0} : k = 1
    OBVIOUS
  <2>2. Depth(q, k, {Open}, {Close}) = Depth(q, k - 1, {Open}, {Close}) + Rise(q[k], {Open}, {Close})
    BY DepthSteps
  <2>3. Rise(q[1], {Open}, {Close}) = 0
    BY DEF Rise
  <2>4. k - 1 = 0 /\ Depth(q, 0, {Open}, {Close}) = 0
    BY <2>1, DepthStarts
  <2>5. Depth(q, 1, {Open}, {Close}) = 0
    BY <2>1, <2>2, <2>3, <2>4
  <2> QED
    BY <2>5, DepthAtIs
<1>3. Balanced(q)
  <2>1. \A i \in 0 .. 1 : DepthAt(q, i) \in Nat
    <3> TAKE i \in 0 .. 1
    <3>1. i = 0 \/ i = 1
      OBVIOUS
    <3> QED
      BY <1>1, <1>2, <3>1
  <2> QED
    BY <1>2, <2>1 DEF Balanced
<1>4. TopLevel(q) = {1}
  <2>1. DOMAIN q = {1}
    BY LenProperties
  <2> QED
    BY <1>2, <2>1 DEF TopLevel
<1> QED
  BY <1>3, <1>4

LEMMA TextTopJoins ==
  ASSUME NEW w \in Seq(Token), NEW s \in Seq(Token), NEW t \in Seq(Token),
         Continues(w, s, t), Balanced(s), Balanced(t)
  PROVE  TopLevel(w) = TopLevel(s) \cup {Len(s) + j : j \in TopLevel(t)}
<1>1. DOMAIN w = 1 .. Len(w) /\ DOMAIN s = 1 .. Len(s) /\ DOMAIN t = 1 .. Len(t)
  BY LenProperties
<1> QED
  BY <1>1, TopJoins

LEMMA BodyStarts ==
  ASSUME NEW ts, NEW word, NEW e, Enclosed(ts[1]), e[0] = 0 - 1, e[1] = Len(ts[1])
  PROVE  IsBody(ts[1], ts, 1, word, e)
<1>0. PICK b : b = ts[1] /\ b \in Seq(Token) /\ Balanced(b) /\ TopLevel(b) = {}
  BY DEF Enclosed
<1>1. PICK n \in Nat : n = Len(b)
  BY <1>0, LenProperties
<1>2. IsMember(b, ts, 1, e)
  <2>1. e[1 - 1] + 1 = 0 /\ \A j \in 1 .. n : e[1 - 1] + 1 + j = j
    OBVIOUS
  <2>2. Len(ts[1]) = n
    BY <1>0, <1>1
  <2> QED
    BY <1>0, <1>1, <2>1, <2>2 DEF IsMember
<1>3. {e[m] + 1 : m \in 1 .. 0} = {} /\ 1 - 1 = 0
  OBVIOUS
<1>4. (\A m \in 1 .. 1 : m = 1) /\ e[1] = n /\ n <= n
  BY <1>0, <1>1
<1> QED
  BY <1>0, <1>1, <1>2, <1>3, <1>4 DEF IsBody

LEMMA BodyGrows ==
  ASSUME NEW ts, NEW k \in Nat \ {0}, NEW word, NEW e, NEW b, IsBody(b, ts, k, word, e),
         NEW t, t = ts[k + 1], Enclosed(t),
         NEW q \in Seq(Token), Len(q) = 1, q[1] = Word(word),
         NEW p \in Seq(Token), Continues(p, q, t),
         NEW d \in Seq(Token), Continues(d, b, p), e[k + 1] = Len(d)
  PROVE  IsBody(d, ts, k + 1, word, e)
<1>3. Balanced(q) /\ TopLevel(q) = {1}
  BY NoneIsAParen, TokenAlone
<1>5. t \in Seq(Token) /\ Balanced(t) /\ TopLevel(t) = {}
  BY DEF Enclosed
<1>6. b \in Seq(Token) /\ Balanced(b) /\ Len(b) = e[k]
  BY DEF IsBody
<1>9. PICK n \in Nat, l \in Nat : n = Len(b) /\ l = Len(t)
  BY <1>5, <1>6, LenProperties
<1>10. Len(p) = 1 + l /\ p[1] = Word(word) /\ \A j \in 1 .. l : p[1 + j] = t[j]
  BY <1>9 DEF Continues
<1>11. /\ Len(d) = n + (1 + l) /\ \A i \in 1 .. n : d[i] = b[i]
       /\ \A i \in 1 .. 1 + l : d[n + i] = p[i]
  BY <1>9, <1>10 DEF Continues
<1>12. Balanced(p)
  BY <1>3, <1>5, BalancedJoins
<1>13. Balanced(d)
  BY <1>6, <1>12, BalancedJoins
<1>14. TopLevel(p) = {1}
  <2>1. TopLevel(p) = TopLevel(q) \cup {Len(q) + j : j \in TopLevel(t)}
    BY <1>3, <1>5, TextTopJoins
  <2> QED
    BY <1>3, <1>5, <2>1
<1>15. TopLevel(d) = TopLevel(b) \cup {n + 1}
  <2>1. TopLevel(d) = TopLevel(b) \cup {Len(b) + j : j \in TopLevel(p)}
    BY <1>6, <1>12, TextTopJoins
  <2> QED
    BY <1>9, <1>14, <2>1
<1>16. e[k] = n /\ e[k + 1] = n + 1 + l
  <2>1. e[k] = n
    BY <1>6, <1>9
  <2>2. PICK z : z = e[k + 1]
    OBVIOUS
  <2>3. z = Len(d)
    BY <2>2
  <2>4. n + (1 + l) = n + 1 + l
    OBVIOUS
  <2>5. z = n + 1 + l
    BY <1>11, <2>3, <2>4
  <2> QED
    BY <2>1, <2>2, <2>5
<1>17. TopLevel(d) = {e[m] + 1 : m \in 1 .. k}
  <2>1. TopLevel(b) = {e[m] + 1 : m \in 1 .. k - 1}
    BY DEF IsBody
  <2>2. \A m \in Nat : m \in 1 .. k <=> m \in 1 .. k - 1 \/ m = k
    OBVIOUS
  <2>3. \A x : x \in {e[m] + 1 : m \in 1 .. k} <=> x \in {e[m] + 1 : m \in 1 .. k - 1} \/ x = n + 1
    BY <1>16, <2>2
  <2>4. \A x : x \in TopLevel(d) <=> x \in {e[m] + 1 : m \in 1 .. k - 1} \/ x = n + 1
    BY <1>15, <2>1
  <2> QED
    BY <2>3, <2>4
<1>18. ASSUME NEW m \in 1 .. k
       PROVE  IsMember(d, ts, m, e)
  <2>1. e[m - 1] + 1 \in Nat /\ e[m] = e[m - 1] + 1 + Len(ts[m])
    BY DEF IsBody, IsMember
  <2>2. \A j \in 1 .. Len(ts[m]) : b[e[m - 1] + 1 + j] = ts[m][j]
    BY DEF IsBody, IsMember
  <2>3. e[m] <= n
    BY <1>6, <1>9 DEF IsBody
  <2>4. PICK f \in Nat, y \in Nat : f = e[m - 1] + 1 /\ y = Len(ts[m])
    BY DEF IsBody, IsMember
  <2>5. \A j \in 1 .. y : b[f + j] = ts[m][j]
    BY <2>2, <2>4
  <2>6. f + y <= n
    BY <2>1, <2>3, <2>4
  <2>7. ASSUME NEW j \in 1 .. y
        PROVE  d[f + j] = ts[m][j]
    <3>1. f + j \in 1 .. n
      BY <2>6
    <3>2. d[f + j] = b[f + j]
      BY <1>11, <3>1
    <3> QED
      BY <2>5, <3>2
  <2> QED
    BY <2>1, <2>4, <2>7 DEF IsMember
<1>19. IsMember(d, ts, k + 1, e)
  <2>1. (k + 1) - 1 = k /\ Len(ts[k + 1]) = l
    BY <1>9
  <2>2. ASSUME NEW j \in 1 .. l
        PROVE  d[e[k] + 1 + j] = t[j]
    <3>1. 1 + j \in 1 .. 1 + l /\ n + (1 + j) = n + 1 + j
      OBVIOUS
    <3>2. d[n + (1 + j)] = p[1 + j]
      BY <1>11, <3>1
    <3> QED
      BY <1>10, <1>16, <3>1, <3>2
  <2>3. e[k] + 1 \in Nat /\ e[k + 1] = e[k] + 1 + l
    BY <1>16
  <2> QED
    BY <2>1, <2>2, <2>3 DEF IsMember
<1>20. ASSUME NEW m \in 1 .. k
       PROVE  d[e[m] + 1] = Word(word)
  <2>1. CASE m = k
    <3>1. 1 \in 1 .. 1 + l /\ d[n + 1] = p[1]
      BY <1>11
    <3> QED
      BY <1>10, <1>16, <2>1, <3>1
  <2>2. CASE m # k
    <3>1. m \in 1 .. k - 1 /\ b[e[m] + 1] = Word(word)
      BY <2>2 DEF IsBody
    <3>2. e[m] + 1 \in TopLevel(b)
      BY <3>1 DEF IsBody
    <3>3. e[m] + 1 \in 1 .. n
      BY <1>6, <1>9, <3>2, LenProperties DEF TopLevel
    <3> QED
      BY <1>11, <3>1, <3>3
  <2> QED
    BY <2>1, <2>2
<1>21. \A m \in 1 .. k + 1 : IsMember(d, ts, m, e) /\ e[m] <= e[k + 1]
  <2>1. \A m \in 1 .. k + 1 : m \in 1 .. k \/ m = k + 1
    OBVIOUS
  <2>2. ASSUME NEW m \in 1 .. k
        PROVE  e[m] <= e[k + 1]
    <3>1. e[m] <= n
      BY <1>6, <1>9 DEF IsBody
    <3>2. IsMember(b, ts, m, e)
      BY DEF IsBody
    <3>3. e[m] \in Int
      BY <3>2 DEF IsMember
    <3> QED
      BY <1>16, <3>1, <3>3
  <2>3. e[k + 1] <= e[k + 1]
    BY <1>16
  <2> QED
    BY <1>18, <1>19, <2>1, <2>2, <2>3
<1>22. (k + 1) - 1 = k
  OBVIOUS
<1> QED
  BY <1>13, <1>17, <1>20, <1>21, <1>22 DEF IsBody

\* b is what stands between the parentheses of the texts joined by a word.
IsJoined(b, ts, word) ==
    /\ b \in Seq(Token) /\ Joined(word, ts) = InParens(b)
    /\ \E e : e[0] = 0 - 1 /\ IsBody(b, ts, Len(ts), word, e)
    /\ \A x : Has(b, x) => x = Word(word) \/ \E k \in 1 .. Len(ts) : Has(ts[k], x)

LEMMA JoinedText ==
  ASSUME NEW ts \in Seq(Seq(Token)), NEW word \in {"AND", "OR"}, Len(ts) >= 1,
         \A k \in 1 .. Len(ts) : Enclosed(ts[k])
  PROVE  \E b : IsJoined(b, ts, word)
<1>1. PICK n \in Nat \ {0} : n = Len(ts)
  BY LenProperties
<1>2. \A k \in 1 .. n : ts[k] \in Seq(Token) /\ Enclosed(ts[k])
  BY <1>1, ElementOfSeq
<1>3. PICK q : q = <<Word(word)>>
  OBVIOUS
<1>4. q \in Seq(Token) /\ Len(q) = 1 /\ q[1] = Word(word)
  <2>1. Word(word) \in Token
    BY TheyAreTokens DEF Words
  <2> QED
    BY <1>3, <2>1
<1> DEFINE part(i) == IF i = 1 THEN ts[i] ELSE q \o ts[i]
           ss == [i \in 1 .. n |-> part(i)]
<1>5. \A i \in 1 .. n : part(i) \in Seq(Token)
  BY <1>2, <1>4, ConcatProperties
<1>6. ss \in Seq(Seq(Token)) /\ Len(ss) = n /\ \A i \in 1 .. n : ss[i] = part(i)
  <2> HIDE DEF part
  <2>1. ss \in Seq(Seq(Token))
    BY <1>5, IsASeq
  <2>2. DOMAIN ss = 1 .. n
    OBVIOUS
  <2> QED
    BY <2>1, <2>2, LenProperties
<1>7. Joined(word, ts) = <<Open>> \o FlattenSeq(ss) \o <<Close>>
  BY <1>1, <1>3 DEF Joined
<1> HIDE DEF ss
<1>8. PICK h \in [0 .. Len(ss) -> Seq(Token)] : RunsUp(ss, h) /\ FlattenSeq(ss) = h[Len(ss)]
  BY <1>6, Flattened
<1>9. /\ h[0] = <<>> /\ \A i \in 1 .. n : h[i] = h[i - 1] \o part(i)
      /\ \A i \in 0 .. n : h[i] \in Seq(Token)
  <2>1. h[0] = <<>> /\ \A i \in 1 .. n : h[i] = h[i - 1] \o ss[i]
    BY <1>6, <1>8 DEF RunsUp
  <2>2. \A i \in 0 .. n : h[i] \in Seq(Token)
    BY <1>6, <1>8
  <2> HIDE DEF part
  <2> QED
    BY <1>6, <2>1, <2>2
<1> DEFINE e == [k \in 0 .. n |-> IF k = 0 THEN 0 - 1 ELSE Len(h[k])]
<1>10. e[0] = 0 - 1 /\ \A k \in 1 .. n : e[k] = Len(h[k])
  OBVIOUS
<1> HIDE DEF e
<1>11. h[1] = ts[1]
  <2>1. 1 \in 1 .. n /\ 1 - 1 = 0
    OBVIOUS
  <2>2. h[1] = h[0] \o ts[1]
    BY <1>9, <2>1
  <2>3. ts[1] \in Seq(Token) /\ h[0] = <<>>
    BY <1>2, <1>9, <2>1
  <2> QED
    BY <2>2, <2>3
<1> DEFINE Good == {k \in Nat : k = 0 \/ IsBody(h[k], ts, k, word, e)}
<1>12. ASSUME NEW k \in 1 .. n, k - 1 \in Good
       PROVE  k \in Good
  <2>1. CASE k = 1
    <3>1. 1 \in 1 .. n
      OBVIOUS
    <3>2. Enclosed(ts[1]) /\ e[0] = 0 - 1 /\ e[1] = Len(ts[1])
      BY <1>2, <1>10, <1>11, <3>1
    <3>3. IsBody(ts[1], ts, 1, word, e)
      BY <3>2, BodyStarts
    <3> QED
      BY <1>11, <2>1, <3>3
  <2>2. CASE k # 1
    <3>1. PICK j \in Nat \ {0} : k = j + 1 /\ j = k - 1
      <4>1. k - 1 \in Nat \ {0} /\ k = (k - 1) + 1
        BY <2>2
      <4> QED
        BY <4>1
    <3>2. j \in 1 .. n /\ j \in 0 .. n /\ j + 1 \in 0 .. n /\ j + 1 \in 1 .. n
      BY <3>1
    <3>3. IsBody(h[j], ts, j, word, e)
      BY <1>12, <3>1
    <3>4. PICK b \in Seq(Token) : b = h[j]
      BY <1>9, <3>2
    <3>5. PICK t \in Seq(Token) : t = ts[j + 1] /\ Enclosed(t)
      BY <1>2, <3>2
    <3>6. PICK p : p = q \o t
      OBVIOUS
    <3>7. p \in Seq(Token) /\ Continues(p, q, t)
      BY <1>4, <3>6, JoinContinues
    <3>8. PICK d : d = b \o p
      OBVIOUS
    <3>9. d \in Seq(Token) /\ Continues(d, b, p)
      BY <3>7, <3>8, JoinContinues
    <3>10. h[j + 1] = d
      <4>1. h[k] = h[k - 1] \o (q \o ts[k])
        BY <1>9, <2>2
      <4> QED
        BY <3>1, <3>4, <3>5, <3>6, <3>8, <4>1
    <3>11. e[j + 1] = Len(d)
      BY <1>10, <3>2, <3>10
    <3>12. IsBody(b, ts, j, word, e)
      BY <3>3, <3>4
    <3>13. IsBody(d, ts, j + 1, word, e)
      BY <1>4, <3>5, <3>7, <3>9, <3>11, <3>12, BodyGrows
    <3> QED
      BY <3>1, <3>10, <3>13
  <2> QED
    BY <2>1, <2>2
<1>13. n \in Good
  <2>1. 0 \in Good
    OBVIOUS
  <2> HIDE DEF Good
  <2>2. \A k \in 0 .. n : k \in Good
    BY <1>12, <2>1, UpTo
  <2> QED
    BY <2>2
<1>14. IsBody(h[n], ts, Len(ts), word, e)
  BY <1>1, <1>13
<1>15. h[n] \in Seq(Token) /\ FlattenSeq(ss) = h[n]
  BY <1>6, <1>8, <1>9
<1>16. ASSUME NEW x, Has(h[n], x)
       PROVE  x = Word(word) \/ \E k \in 1 .. n : Has(ts[k], x)
  <2>1. PICK k \in 1 .. n : Has(ss[k], x)
    BY <1>6, <1>15, <1>16, FlattenHas
  <2>2. ts[k] \in Seq(Token) /\ (ss[k] = ts[k] \/ ss[k] = q \o ts[k])
    BY <1>2, <1>6
  <2>3. CASE ss[k] = ts[k]
    BY <2>1, <2>3
  <2>4. CASE ss[k] = q \o ts[k]
    <3>1. Has(q \o ts[k], x)
      BY <2>1, <2>4
    <3>2. Has(q, x) \/ Has(ts[k], x)
      BY <1>4, <2>2, <3>1, HasJoin
    <3>3. Has(q, x) => x = Word(word)
      BY <1>4 DEF Has
    <3> QED
      BY <3>2, <3>3
  <2> QED
    BY <2>2, <2>3, <2>4
<1>17. Joined(word, ts) = InParens(h[n])
  BY <1>7, <1>15 DEF InParens
<1> QED
  BY <1>1, <1>10, <1>14, <1>15, <1>16, <1>17 DEF IsJoined

-----------------------------------------------------------------------------
(* The texts of terms.                                                     *)

\* Balanced, and with no operator and no connective.
Plain(T) ==
    /\ T \in Seq(Token) /\ Balanced(T) /\ Len(T) >= 1
    /\ \A i \in 1 .. Len(T) : T[i][1] # "op" /\ T[i] \notin Connectives

Ref == [alias : STRING, column : STRING, role : {"equality", "range", "none"}]

LEMMA Tags ==
  ASSUME NEW x, NEW y
  PROVE  /\ Open[1] = "(" /\ Close[1] = ")" /\ Word(x)[1] = "word" /\ Char(x)[1] = "op"
         /\ Cast(x)[1] = "::" /\ Literal(x)[1] = "'" /\ Ident(x, y)[1] = "ident"
         /\ Quoted(x, y)[1] = "quoted"
         /\ Word(x)[2] = x /\ Char(x)[2] = x /\ Cast(x)[2] = x /\ Literal(x)[2] = x
         /\ Ident(x, y)[2] = x /\ Ident(x, y)[3] = y
         /\ Quoted(x, y)[2] = x /\ Quoted(x, y)[3] = y
BY DEF Open, Close, Word, Char, Cast, Literal, Ident, Quoted

LEMMA NotAConnective ==
  ASSUME NEW x, x[1] # "word"
  PROVE  x \notin Connectives
BY Tags DEF Connectives

LEMMA OneToken ==
  ASSUME NEW x \in Token
  PROVE  <<x>> \in Seq(Token) /\ Len(<<x>>) = 1 /\ <<x>>[1] = x
OBVIOUS

\* What surrounds the p-th token is only parentheses and one-word types.
Bare(text, p) ==
    /\ \A i \in 1 .. (p - 1) : text[i] = Open
    /\ \A i \in (p + 1) .. Len(text) : text[i] \in {Close, Cast("one")}
    /\ DepthAt(text, Len(text)) = 0

LEMMA OneIdent ==
  ASSUME NEW text, NEW p, {i \in DOMAIN text : text[i][1] = "ident"} = {p}
  PROVE  ParseColumnTerm(text) = IF Bare(text, p)
                                 THEN <<[alias |-> text[p][2], column |-> text[p][3]]>> ELSE <<>>
<1> DEFINE at == {i \in DOMAIN text : text[i][1] = "ident"}
           q  == CHOOSE i \in at : TRUE
<1>1. at = {p}
  OBVIOUS
<1>2. Cardinality(at) = 1
  BY <1>1, FS_Singleton
<1> HIDE DEF at
<1>3. q = p
  BY <1>1
<1> HIDE DEF q
<1> QED
  BY <1>2, <1>3 DEF ParseColumnTerm, Bare, at, q

LEMMA NoIdent ==
  ASSUME NEW text, \A i \in DOMAIN text : text[i][1] # "ident"
  PROVE  ParseColumnTerm(text) = <<>>
<1>1. {i \in DOMAIN text : text[i][1] = "ident"} = {}
  OBVIOUS
<1>2. Cardinality({}) # 1
  BY FS_EmptySet
<1> QED
  BY <1>1, <1>2 DEF ParseColumnTerm

\* The token of a column.
IsColumnToken(x) == x \in Token /\ x[1] \in {"ident", "quoted"}

LEMMA ColumnTokenIs ==
  ASSUME NEW k \in Columns
  PROVE  /\ k[1] \in {"col", "quoted"} /\ k[2] \in STRING /\ k[3] \in STRING
         /\ IsColumnToken(ColumnToken(k))
         /\ ColumnToken(k)[1] = IF k[1] = "quoted" THEN "quoted" ELSE "ident"
         /\ ColumnToken(k)[2] = k[2] /\ ColumnToken(k)[3] = k[3]
<1>1. k[1] \in {"col", "quoted"} /\ k[2] \in STRING /\ k[3] \in STRING
  BY DEF Columns
<1>2. CASE k[1] = "quoted"
  <2>1. PICK x : x = Quoted(k[2], k[3])
    OBVIOUS
  <2>2. ColumnToken(k) = x
    BY <1>2, <2>1 DEF ColumnToken
  <2>3. x \in Token
    BY <1>1, <2>1, TheyAreTokens
  <2>4. x[1] = "quoted" /\ x[2] = k[2] /\ x[3] = k[3]
    BY <2>1, Tags
  <2> QED
    BY <1>1, <1>2, <2>2, <2>3, <2>4 DEF IsColumnToken
<1>3. CASE k[1] # "quoted"
  <2>1. PICK x : x = Ident(k[2], k[3])
    OBVIOUS
  <2>2. ColumnToken(k) = x
    BY <1>3, <2>1 DEF ColumnToken
  <2>3. x \in Token
    BY <1>1, <2>1, TheyAreTokens
  <2>4. x[1] = "ident" /\ x[2] = k[2] /\ x[3] = k[3]
    BY <2>1, Tags
  <2> QED
    BY <1>1, <1>3, <2>2, <2>3, <2>4 DEF IsColumnToken
<1> QED
  BY <1>2, <1>3

\* What is read of a column where nothing hides it: its name, unless it is quoted.
Named(x) == IF x[1] = "ident" THEN <<[alias |-> x[2], column |-> x[3]]>> ELSE <<>>

LEMMA ColumnText ==
  ASSUME NEW x, IsColumnToken(x), NEW T, T = <<x>>
  PROVE  /\ Plain(T) /\ Clear(T) /\ T[1] # Open
         /\ ParseColumnTerm(T) = Named(x)
<1>1. x \in Token /\ x[1] \in {"ident", "quoted"}
  BY DEF IsColumnToken
<1>2. T \in Seq(Token) /\ Len(T) = 1 /\ T[1] = x /\ DOMAIN T = {1}
  <2>1. <<x>> \in Seq(Token) /\ Len(<<x>>) = 1 /\ <<x>>[1] = x
    BY <1>1, OneToken
  <2>2. T \in Seq(Token) /\ Len(T) = 1 /\ T[1] = x
    BY <2>1, Zenon
  <2> QED
    BY <2>2, LenProperties
<1>4. x # Open /\ x # Close /\ x \notin {Literal("open"), Literal("close")}
  BY <1>1, Tags
<1>5. Balanced(T)
  BY <1>1, <1>2, <1>4, TokenAlone
<1>6. Plain(T) /\ Clear(T)
  <2>1. x \notin Connectives
    BY <1>1, NotAConnective
  <2>2. \A i \in 1 .. 1 : T[i] = x
    BY <1>2
  <2> QED
    BY <1>1, <1>2, <1>4, <1>5, <2>1, <2>2 DEF Plain, Clear
<1>7. CASE x[1] = "ident"
  <2>1. {i \in DOMAIN T : T[i][1] = "ident"} = {1}
    BY <1>2, <1>7
  <2>2. Bare(T, 1)
    BY <1>2, <1>5 DEF Bare, Balanced
  <2>3. ParseColumnTerm(T) = <<[alias |-> x[2], column |-> x[3]]>>
    BY <1>2, <2>1, <2>2, OneIdent
  <2> QED
    BY <1>2, <1>4, <1>6, <1>7, <2>3 DEF Named
<1>8. CASE x[1] # "ident"
  <2>1. \A i \in DOMAIN T : T[i][1] # "ident"
    BY <1>2, <1>8
  <2>2. ParseColumnTerm(T) = <<>>
    BY <2>1, NoIdent
  <2> QED
    BY <1>2, <1>4, <1>6, <1>8, <2>2 DEF Named
<1> QED
  BY <1>7, <1>8

LEMMA LiteralText ==
  ASSUME NEW shape \in {"plain", "open", "close"}, NEW T, T = <<Literal(shape), Cast("one")>>
  PROVE  /\ Plain(T) /\ T[1] # Open /\ (shape = "plain" => Clear(T))
         /\ ParseColumnTerm(T) = <<>>
<1>1. PICK x \in Token, y \in Token : x = Literal(shape) /\ y = Cast("one")
  BY TheyAreTokens
<1>2. T \in Seq(Token) /\ Len(T) = 2 /\ T[1] = x /\ T[2] = y
  BY <1>1
<1>3. x[1] = "'" /\ y[1] = "::" /\ x[2] = shape
  BY <1>1, Tags
<1>4. x # Open /\ x # Close /\ y # Open /\ y # Close
  BY <1>3, Tags
<1>5. PICK p, q : p = <<x>> /\ q = <<y>>
  OBVIOUS
<1>6. p \in Seq(Token) /\ Len(p) = 1 /\ p[1] = x /\ q \in Seq(Token) /\ Len(q) = 1 /\ q[1] = y
  BY <1>5
<1>7. Balanced(p) /\ Balanced(q)
  BY <1>4, <1>6, TokenAlone
<1>8. Continues(T, p, q)
  <2>1. \A i \in 1 .. 1 : i = 1
    OBVIOUS
  <2> QED
    BY <1>2, <1>6, <2>1 DEF Continues
<1>9. Balanced(T)
  BY <1>7, <1>8, BalancedJoins
<1>10. \A i \in 1 .. 2 : T[i] = x \/ T[i] = y
  <2>1. \A i \in 1 .. 2 : i = 1 \/ i = 2
    OBVIOUS
  <2> QED
    BY <1>2, <2>1
<1>11. Plain(T)
  <2>1. x \notin Connectives /\ y \notin Connectives
    BY <1>3, NotAConnective
  <2> QED
    BY <1>2, <1>3, <1>9, <1>10, <2>1 DEF Plain
<1>12. ASSUME shape = "plain"
       PROVE  Clear(T)
  <2>1. x \notin {Literal("open"), Literal("close")} /\ y \notin {Literal("open"), Literal("close")}
    BY <1>3, <1>12, Tags
  <2> QED
    BY <1>2, <1>10, <2>1 DEF Clear
<1>13. ParseColumnTerm(T) = <<>>
  <2>1. \A i \in DOMAIN T : T[i][1] # "ident"
    BY <1>2, <1>3, <1>10, LenProperties
  <2> QED
    BY <2>1, NoIdent
<1> QED
  BY <1>2, <1>4, <1>11, <1>12, <1>13

\* A column in parentheses: what a cast and a call have in common.
LEMMA InnerText ==
  ASSUME NEW x \in Token, x # Open, x # Close, NEW w, w = <<Open, x, Close>>
  PROVE  w \in Seq(Token) /\ Balanced(w) /\ Len(w) = 3
<1>1. PICK p : p = <<x>>
  OBVIOUS
<1>2. p \in Seq(Token) /\ Len(p) = 1 /\ p[1] = x
  BY <1>1
<1>3. w \in Seq(Token) /\ Len(w) = 3 /\ w[1] = Open /\ w[2] = x /\ w[3] = Close
  BY ParensAreTokens
<1>4. Wraps(w, p)
  <2>1. \A i \in 1 .. 1 : 1 + i = 2 /\ i = 1
    OBVIOUS
  <2> QED
    BY <1>2, <1>3, <2>1 DEF Wraps
<1> QED
  BY <1>2, <1>3, <1>4, TokenAlone, WrapsBalanced

LEMMA CastText ==
  ASSUME NEW x, IsColumnToken(x), NEW width \in {"one", "several"},
         NEW T, T = <<Open, x, Close, Cast(width)>>
  PROVE  /\ Plain(T) /\ Clear(T) /\ Len(T) = 4 /\ DepthAt(T, 3) = 0
         /\ ParseColumnTerm(T) = IF width = "one" THEN Named(x) ELSE <<>>
<1>0. x \in Token /\ x[1] \in {"ident", "quoted"}
  BY DEF IsColumnToken
<1>1. PICK y \in Token : y = Cast(width)
  BY TheyAreTokens
<1>2. /\ T \in Seq(Token) /\ Len(T) = 4 /\ T[1] = Open /\ T[2] = x /\ T[3] = Close /\ T[4] = y
  BY <1>0, <1>1, ParensAreTokens
<1>3. x[1] \in {"ident", "quoted"} /\ y[1] = "::" /\ y[2] = width
  BY <1>0, <1>1, Tags
<1>4. x # Open /\ x # Close /\ y # Open /\ y # Close
  BY <1>3, Tags
<1>5. PICK w, q : w = <<Open, x, Close>> /\ q = <<y>>
  OBVIOUS
<1>6. w \in Seq(Token) /\ Balanced(w) /\ Len(w) = 3
  BY <1>0, <1>4, <1>5, InnerText
<1>7. q \in Seq(Token) /\ Len(q) = 1 /\ q[1] = y
  BY <1>5
<1>8. Balanced(q)
  BY <1>4, <1>7, TokenAlone
<1>9. Continues(T, w, q)
  <2>1. w[1] = Open /\ w[2] = x /\ w[3] = Close
    BY <1>5
  <2>2. (\A i \in 1 .. 3 : i = 1 \/ i = 2 \/ i = 3) /\ \A i \in 1 .. 1 : i = 1
    OBVIOUS
  <2>3. \A i \in 1 .. 3 : T[i] = w[i]
    BY <1>2, <2>1, <2>2
  <2>4. \A j \in 1 .. 1 : T[3 + j] = q[j]
    BY <1>2, <1>7, <2>2
  <2> QED
    BY <1>2, <1>6, <1>7, <2>3, <2>4 DEF Continues
<1>10. Balanced(T)
  BY <1>6, <1>8, <1>9, BalancedJoins
<1>11. DepthAt(T, 3) = 0
  <2>1. DepthAt(w, 3) = 0 /\ 3 \in 0 .. 3
    BY <1>6 DEF Balanced
  <2>2. \A i \in 0 .. Len(w) : DepthAt(T, i) = DepthAt(w, i)
    BY <1>9, DepthAtJoins
  <2>3. 3 \in 0 .. Len(w)
    BY <1>6
  <2> QED
    BY <2>1, <2>2, <2>3
<1>12. \A i \in 1 .. 4 : T[i] = Open \/ T[i] = Close \/ T[i] = x \/ T[i] = y
  <2>1. \A i \in 1 .. 4 : i = 1 \/ i = 2 \/ i = 3 \/ i = 4
    OBVIOUS
  <2> QED
    BY <1>2, <2>1
<1>13. Open[1] = "(" /\ Close[1] = ")"
  BY Tags
<1>14. Plain(T)
  <2>1. x \notin Connectives /\ y \notin Connectives /\ Open \notin Connectives /\ Close \notin Connectives
    BY <1>3, <1>13, NotAConnective
  <2> QED
    BY <1>2, <1>3, <1>10, <1>12, <1>13, <2>1 DEF Plain
<1>15. Clear(T)
  <2>1. {x, y, Open, Close} \cap {Literal("open"), Literal("close")} = {}
    BY <1>3, <1>13, Tags
  <2> QED
    BY <1>2, <1>12, <2>1 DEF Clear
<1>16. DOMAIN T = {1, 2, 3, 4}
  BY <1>2, LenProperties
<1>17. CASE x[1] = "ident"
  <2>1. {i \in DOMAIN T : T[i][1] = "ident"} = {2}
    BY <1>2, <1>3, <1>13, <1>16, <1>17
  <2>2. Bare(T, 2) <=> width = "one"
    <3>1. \A i \in 1 .. (2 - 1) : T[i] = Open
      BY <1>2
    <3>2. DepthAt(T, Len(T)) = 0
      BY <1>10 DEF Balanced
    <3>3. (\A i \in 3 .. 4 : T[i] \in {Close, Cast("one")}) <=> T[4] \in {Close, Cast("one")}
      <4>1. \A i : i \in 3 .. 4 <=> i = 3 \/ i = 4
        OBVIOUS
      <4> QED
        BY <1>2, <4>1
    <3>4. y \in {Close, Cast("one")} <=> width = "one"
      BY <1>1, <1>3, <1>4, Tags
    <3>5. (2 + 1) .. Len(T) = 3 .. 4
      BY <1>2
    <3> QED
      BY <1>2, <3>1, <3>2, <3>3, <3>4, <3>5 DEF Bare
  <2>3. ParseColumnTerm(T) = IF width = "one" THEN <<[alias |-> x[2], column |-> x[3]]>> ELSE <<>>
    BY <1>2, <2>1, <2>2, OneIdent
  <2> QED
    BY <1>2, <1>11, <1>14, <1>15, <1>17, <2>3 DEF Named
<1>18. CASE x[1] # "ident"
  <2>1. \A i \in DOMAIN T : T[i][1] # "ident"
    BY <1>2, <1>3, <1>13, <1>16, <1>18
  <2>2. ParseColumnTerm(T) = <<>>
    BY <2>1, NoIdent
  <2> QED
    BY <1>2, <1>11, <1>14, <1>15, <1>18, <2>2 DEF Named
<1> QED
  BY <1>17, <1>18

LEMMA CallText ==
  ASSUME NEW x, IsColumnToken(x), NEW T, T = <<Word("lower"), Open, x, Close>>
  PROVE  Plain(T) /\ Clear(T) /\ T[1] # Open /\ ParseColumnTerm(T) = <<>>
<1>0. x \in Token /\ x[1] \in {"ident", "quoted"}
  BY DEF IsColumnToken
<1>1. PICK y \in Token : y = Word("lower")
  BY TheyAreTokens DEF Words
<1>2. /\ T \in Seq(Token) /\ Len(T) = 4 /\ T[1] = y /\ T[2] = Open /\ T[3] = x /\ T[4] = Close
  BY <1>0, <1>1, ParensAreTokens
<1>3. x[1] \in {"ident", "quoted"} /\ y[1] = "word" /\ y[2] = "lower"
  BY <1>0, <1>1, Tags
<1>4. x # Open /\ x # Close /\ y # Open /\ y # Close
  BY <1>3, Tags
<1>5. PICK w, q : w = <<Open, x, Close>> /\ q = <<y>>
  OBVIOUS
<1>6. w \in Seq(Token) /\ Balanced(w) /\ Len(w) = 3
  BY <1>0, <1>4, <1>5, InnerText
<1>7. q \in Seq(Token) /\ Len(q) = 1 /\ q[1] = y
  BY <1>5
<1>8. Balanced(q)
  BY <1>4, <1>7, TokenAlone
<1>9. Continues(T, q, w)
  <2>1. w[1] = Open /\ w[2] = x /\ w[3] = Close
    BY <1>5
  <2>2. (\A i \in 1 .. 3 : i = 1 \/ i = 2 \/ i = 3) /\ \A i \in 1 .. 1 : i = 1
    OBVIOUS
  <2>3. \A i \in 1 .. 3 : T[1 + i] = w[i]
    BY <1>2, <2>1, <2>2
  <2>4. \A j \in 1 .. 1 : T[j] = q[j]
    BY <1>2, <1>7, <2>2
  <2> QED
    BY <1>2, <1>6, <1>7, <2>3, <2>4 DEF Continues
<1>10. Balanced(T)
  BY <1>6, <1>8, <1>9, BalancedJoins
<1>12. \A i \in 1 .. 4 : T[i] = Open \/ T[i] = Close \/ T[i] = x \/ T[i] = y
  <2>1. \A i \in 1 .. 4 : i = 1 \/ i = 2 \/ i = 3 \/ i = 4
    OBVIOUS
  <2> QED
    BY <1>2, <2>1
<1>13. Open[1] = "(" /\ Close[1] = ")"
  BY Tags
<1>14. Plain(T)
  <2>1. x \notin Connectives /\ Open \notin Connectives /\ Close \notin Connectives
    BY <1>3, <1>13, NotAConnective
  <2>2. y \notin Connectives
    BY <1>3, Tags DEF Connectives
  <2> QED
    BY <1>2, <1>3, <1>10, <1>12, <1>13, <2>1, <2>2 DEF Plain
<1>15. Clear(T)
  <2>1. {x, y, Open, Close} \cap {Literal("open"), Literal("close")} = {}
    BY <1>3, <1>13, Tags
  <2> QED
    BY <1>2, <1>12, <2>1 DEF Clear
<1>16. DOMAIN T = {1, 2, 3, 4}
  BY <1>2, LenProperties
<1>17. CASE x[1] = "ident"
  <2>1. {i \in DOMAIN T : T[i][1] = "ident"} = {3}
    BY <1>2, <1>3, <1>13, <1>16, <1>17
  <2>2. 1 \in 1 .. (3 - 1) /\ T[1] # Open
    BY <1>2, <1>4
  <2>3. ~ Bare(T, 3)
    BY <2>2 DEF Bare
  <2>4. ParseColumnTerm(T) = <<>>
    BY <2>1, <2>3, OneIdent
  <2> QED
    BY <1>2, <1>4, <1>14, <1>15, <2>4
<1>18. CASE x[1] # "ident"
  <2>1. \A i \in DOMAIN T : T[i][1] # "ident"
    BY <1>2, <1>3, <1>13, <1>16, <1>18
  <2>2. ParseColumnTerm(T) = <<>>
    BY <2>1, NoIdent
  <2> QED
    BY <1>2, <1>4, <1>14, <1>15, <2>2
<1> QED
  BY <1>17, <1>18

\* What is read of a text, beside what is true of its tree.
ReadsAs(read, true, obscure) ==
    /\ read \in Seq(Ref) /\ true \in Seq(Ref)
    /\ \A x : Has(read, x) => Has(true, x)
    /\ ~ obscure => read = true

LEMMA RoleIs ==
  ASSUME NEW op
  PROVE  RoleOf(op) \in {"equality", "range", "none"}
BY DEF RoleOf

LEMMA RefsAre ==
  ASSUME NEW T, NEW role \in {"equality", "range", "none"}
  PROVE  /\ ParseColumnTerm(T) = <<>> => RefsOf(T, role) = <<>>
         /\ \A a \in STRING, c \in STRING :
               ParseColumnTerm(T) = <<[alias |-> a, column |-> c]>>
                   => RefsOf(T, role) = <<[alias |-> a, column |-> c, role |-> role]>>
<1>1. ASSUME ParseColumnTerm(T) = <<>>
      PROVE  RefsOf(T, role) = <<>>
  BY <1>1 DEF RefsOf
<1>2. ASSUME NEW a \in STRING, NEW c \in STRING, ParseColumnTerm(T) = <<[alias |-> a, column |-> c]>>
      PROVE  RefsOf(T, role) = <<[alias |-> a, column |-> c, role |-> role]>>
  BY <1>2 DEF RefsOf
<1> QED
  BY <1>1, <1>2

LEMMA ReadsAll ==
  ASSUME NEW true \in Seq(Ref), NEW obscure
  PROVE  ReadsAs(true, true, obscure)
BY DEF ReadsAs

\* What the scanner does not misread: no special value, and no operator that
\* begins or ends as a comparison does.
ReadTerms ==
    Columns \cup ({"cast"} \X Columns \X {"one", "several"})
            \cup ({"lit"} \X {"plain", "open", "close"}) \cup ({"call"} \X Columns)

ReadComparisons == {"cmp"} \X (Comparisons \cup {"~~"}) \X ReadTerms \X ReadTerms

ReadAtoms == ReadComparisons \cup ({"not"} \X ReadComparisons)

ReadJuncts == ReadAtoms \cup Connected(ReadAtoms)

ReadPredicates == ReadAtoms \cup Connected(ReadJuncts)

LEMMA ComparisonIsRead ==
  ASSUME NEW c \in ComparisonTrees, c[2] \notin Lookalikes,
         c[3][1] # "special", c[4][1] # "special"
  PROVE  c \in ReadComparisons
<1>1. PICK op \in Comparisons \cup Lookalikes \cup {"~~"}, x \in TermTrees, y \in TermTrees :
         c = <<"cmp", op, x, y>>
  BY DEF ComparisonTrees
<1>2. ASSUME NEW t \in TermTrees, t[1] # "special"
      PROVE  t \in ReadTerms
  BY <1>2 DEF TermTrees, ReadTerms
<1>3. op \in Comparisons \cup {"~~"} /\ x[1] # "special" /\ y[1] # "special"
  BY <1>1
<1>4. x \in ReadTerms /\ y \in ReadTerms
  BY <1>2, <1>3
<1> QED
  BY <1>1, <1>3, <1>4 DEF ReadComparisons

LEMMA AtomIsRead ==
  ASSUME NEW a \in Atoms, ~ MisreadAtom(a)
  PROVE  a \in ReadAtoms
<1>1. PICK c : c = Compared(a)
  OBVIOUS
<1>2. c[2] \notin Lookalikes /\ c[3][1] # "special" /\ c[4][1] # "special"
  BY <1>1 DEF MisreadAtom, Terms
<1>3. CASE a \in ComparisonTrees
  <2>1. a[1] = "cmp"
    BY <1>3 DEF ComparisonTrees
  <2>2. c = a
    BY <1>1, <2>1 DEF Compared
  <2> QED
    BY <1>2, <1>3, <2>2, ComparisonIsRead DEF ReadAtoms
<1>4. CASE a \in {"not"} \X ComparisonTrees
  <2>1. PICK d \in ComparisonTrees : a = <<"not", d>>
    BY <1>4
  <2>2. c = d
    BY <1>1, <2>1 DEF Compared
  <2>3. d \in ReadComparisons
    BY <1>2, <2>2, ComparisonIsRead
  <2> QED
    BY <2>1, <2>3 DEF ReadAtoms
<1> QED
  BY <1>3, <1>4 DEF Atoms

\* Of a connection whose members are all of S.
LEMMA ConnectedIs ==
  ASSUME NEW S, NEW R, NEW c \in Connected(S), \A i \in DOMAIN c[2] : c[2][i] \in S => c[2][i] \in R
  PROVE  c \in Connected(R) /\ c[1] \in {"and", "or"}
<1>1. PICK tag \in {"and", "or"}, ms \in Seq(S) : c = <<tag, ms>> /\ Len(ms) >= 2
  BY DEF Connected
<1>2. c[1] = tag /\ c[2] = ms
  BY <1>1
<1>3. PICK n \in Nat : n = Len(ms) /\ DOMAIN ms = 1 .. n
  BY <1>1, LenProperties
<1>4. \A i \in 1 .. n : ms[i] \in S
  BY <1>3, ElementOfSeq
<1>5. \A i \in 1 .. n : ms[i] \in R
  BY <1>2, <1>3, <1>4
<1>6. ms = [i \in 1 .. n |-> ms[i]]
  BY <1>3, LenProperties
<1>7. ms \in Seq(R)
  BY <1>3, <1>5, <1>6, SeqFromTo
<1> QED
  BY <1>1, <1>2, <1>7 DEF Connected

LEMMA AtomTags ==
  ASSUME NEW a \in Atoms
  PROVE  a[1] \in {"cmp", "not"}
BY DEF Atoms, ComparisonTrees

LEMMA JunctIsRead ==
  ASSUME NEW j \in Juncts, \A a \in AtomsIn(j) : ~ MisreadAtom(a)
  PROVE  j \in ReadJuncts
<1>1. CASE j \in Atoms
  <2>1. AtomsIn(j) = {j}
    BY <1>1, AtomTags DEF AtomsIn
  <2> QED
    BY <1>1, <2>1, AtomIsRead DEF ReadJuncts
<1>2. CASE j \in Connected(Atoms)
  <2>1. j[1] \in {"and", "or"}
    BY <1>2 DEF Connected
  <2>2. \A i \in DOMAIN j[2] : ~ MisreadAtom(j[2][i])
    BY <2>1 DEF AtomsIn
  <2>3. \A i \in DOMAIN j[2] : j[2][i] \in Atoms => j[2][i] \in ReadAtoms
    BY <2>2, AtomIsRead
  <2> QED
    BY <1>2, <2>3, ConnectedIs DEF ReadJuncts
<1> QED
  BY <1>1, <1>2 DEF Juncts

LEMMA PredicateIsRead ==
  ASSUME NEW c \in Predicates, ~ Misread(c)
  PROVE  c \in ReadPredicates
<1>1. CASE c \in Atoms
  <2>1. AtomsOf(c) = {c}
    BY <1>1, AtomTags DEF AtomsOf
  <2> QED
    BY <1>1, <2>1, AtomIsRead DEF Misread, ReadPredicates
<1>2. CASE c \in Connected(Juncts)
  <2>1. c[1] \in {"and", "or"}
    BY <1>2 DEF Connected
  <2>2. ASSUME NEW i \in DOMAIN c[2]
        PROVE  \A a \in AtomsIn(c[2][i]) : ~ MisreadAtom(a)
    BY <2>1 DEF Misread, AtomsOf
  <2>3. \A i \in DOMAIN c[2] : c[2][i] \in Juncts => c[2][i] \in ReadJuncts
    BY <2>2, JunctIsRead
  <2> QED
    BY <1>2, <2>3, ConnectedIs DEF ReadPredicates
<1> QED
  BY <1>1, <1>2 DEF Predicates

\* What is known of the text of a term.
TermReads(t, T) ==
    /\ Plain(T) /\ (~ Obscure(t) => Clear(T))
    /\ T[1] = Open => Clear(T) /\ Len(T) = 4 /\ DepthAt(T, 3) = 0
    /\ \A role \in {"equality", "range", "none"} :
          ReadsAs(RefsOf(T, role), ColumnOf(t, role), Obscure(t))

LEMMA TermText ==
  ASSUME NEW t \in ReadTerms
  PROVE  TermReads(t, DeparseTerm(t))
<1>1. PICK T : T = DeparseTerm(t)
  OBVIOUS
<1>2. CASE t \in Columns
  <2>1. /\ t[1] \in {"col", "quoted"} /\ t[2] \in STRING /\ t[3] \in STRING
        /\ IsColumnToken(ColumnToken(t))
        /\ ColumnToken(t)[1] = IF t[1] = "quoted" THEN "quoted" ELSE "ident"
        /\ ColumnToken(t)[2] = t[2] /\ ColumnToken(t)[3] = t[3]
    BY <1>2, ColumnTokenIs
  <2>2. T = <<ColumnToken(t)>>
    <3>1. DeparseTerm(t) = <<ColumnToken(t)>>
      <4>1. CASE t[1] = "col"
        BY <4>1 DEF DeparseTerm
      <4>2. CASE t[1] = "quoted"
        BY <4>2 DEF DeparseTerm
      <4> QED
        BY <2>1, <4>1, <4>2
    <3> QED
      BY <1>1, <3>1
  <2>3. PICK x : x = ColumnToken(t)
    OBVIOUS
  <2>4. /\ Plain(T) /\ Clear(T) /\ T[1] # Open
        /\ ParseColumnTerm(T) = Named(x)
    BY <2>1, <2>2, <2>3, ColumnText
  <2>5. ASSUME NEW role \in {"equality", "range", "none"}
        PROVE  ReadsAs(RefsOf(T, role), ColumnOf(t, role), Obscure(t))
    <3>1. ColumnOf(t, role) = <<[alias |-> t[2], column |-> t[3], role |-> role]>>
      BY <2>1 DEF ColumnOf
    <3>2. ColumnOf(t, role) \in Seq(Ref)
      BY <2>1, <3>1 DEF Ref
    <3>3. CASE t[1] = "quoted"
      <4>1. ParseColumnTerm(T) = <<>>
        BY <2>1, <2>3, <2>4, <3>3 DEF Named
      <4>2. Obscure(t)
        BY <3>3 DEF Obscure
      <4>3. RefsOf(T, role) = <<>>
        BY <4>1, RefsAre
      <4> QED
        BY <3>2, <4>2, <4>3 DEF ReadsAs, Has
    <3>4. CASE t[1] # "quoted"
      <4>1. ParseColumnTerm(T) = <<[alias |-> t[2], column |-> t[3]]>>
        BY <2>1, <2>3, <2>4, <3>4 DEF Named
      <4>2. RefsOf(T, role) = ColumnOf(t, role)
        BY <2>1, <3>1, <4>1, RefsAre
      <4> QED
        BY <3>2, <4>2, ReadsAll
    <3> QED
      BY <3>3, <3>4
  <2> QED
    BY <1>1, <2>4, <2>5 DEF TermReads
<1>3. CASE t \in {"cast"} \X Columns \X {"one", "several"}
  <2>1. PICK k \in Columns, width \in {"one", "several"} :
            t[1] = "cast" /\ t[2] = k /\ t[3] = width
    BY <1>3
  <2>2. /\ k[2] \in STRING /\ k[3] \in STRING
        /\ IsColumnToken(ColumnToken(k))
        /\ ColumnToken(k)[1] = IF k[1] = "quoted" THEN "quoted" ELSE "ident"
        /\ ColumnToken(k)[2] = k[2] /\ ColumnToken(k)[3] = k[3]
    BY ColumnTokenIs
  <2>3. PICK x : x = ColumnToken(k)
    OBVIOUS
  <2>4. T = <<Open, x, Close, Cast(width)>>
    BY <1>1, <2>1, <2>3 DEF DeparseTerm
  <2>5. /\ Plain(T) /\ Clear(T) /\ Len(T) = 4 /\ DepthAt(T, 3) = 0
        /\ ParseColumnTerm(T) = IF width = "one" THEN Named(x) ELSE <<>>
    BY <2>2, <2>3, <2>4, CastText
  <2>6. ASSUME NEW role \in {"equality", "range", "none"}
        PROVE  ReadsAs(RefsOf(T, role), ColumnOf(t, role), Obscure(t))
    <3>1. ColumnOf(t, role) = <<[alias |-> k[2], column |-> k[3], role |-> role]>>
      BY <2>1 DEF ColumnOf
    <3>2. ColumnOf(t, role) \in Seq(Ref)
      BY <2>2, <3>1 DEF Ref
    <3>3. CASE width = "one" /\ k[1] # "quoted"
      <4>1. ParseColumnTerm(T) = <<[alias |-> k[2], column |-> k[3]]>>
        BY <2>2, <2>3, <2>5, <3>3 DEF Named
      <4>2. RefsOf(T, role) = ColumnOf(t, role)
        BY <2>2, <3>1, <4>1, RefsAre
      <4> QED
        BY <3>2, <4>2, ReadsAll
    <3>4. CASE ~ (width = "one" /\ k[1] # "quoted")
      <4>1. ParseColumnTerm(T) = <<>>
        BY <2>2, <2>3, <2>5, <3>4 DEF Named
      <4>2. Obscure(t)
        BY <2>1, <3>4 DEF Obscure
      <4>3. RefsOf(T, role) = <<>>
        BY <4>1, RefsAre
      <4> QED
        BY <3>2, <4>2, <4>3 DEF ReadsAs, Has
    <3> QED
      BY <3>3, <3>4
  <2> QED
    BY <1>1, <2>5, <2>6 DEF TermReads
<1>4. CASE t \in {"lit"} \X {"plain", "open", "close"}
  <2>1. PICK shape \in {"plain", "open", "close"} : t[1] = "lit" /\ t[2] = shape
    BY <1>4
  <2>2. T = <<Literal(shape), Cast("one")>>
    BY <1>1, <2>1 DEF DeparseTerm
  <2>3. /\ Plain(T) /\ T[1] # Open /\ (shape = "plain" => Clear(T))
        /\ ParseColumnTerm(T) = <<>>
    BY <2>2, LiteralText
  <2>4. ~ Obscure(t) => shape = "plain"
    BY <2>1 DEF Obscure
  <2>5. ASSUME NEW role \in {"equality", "range", "none"}
        PROVE  ReadsAs(RefsOf(T, role), ColumnOf(t, role), Obscure(t))
    <3>1. ColumnOf(t, role) = <<>>
      BY <2>1 DEF ColumnOf
    <3>2. RefsOf(T, role) = <<>>
      BY <2>3, RefsAre
    <3> QED
      BY <3>1, <3>2 DEF ReadsAs, Has
  <2> QED
    BY <1>1, <2>3, <2>4, <2>5 DEF TermReads
<1>5. CASE t \in {"call"} \X Columns
  <2>1. PICK k \in Columns : t[1] = "call" /\ t[2] = k
    BY <1>5
  <2>2. T = <<Word("lower"), Open, ColumnToken(k), Close>>
    BY <1>1, <2>1 DEF DeparseTerm
  <2>3. Plain(T) /\ Clear(T) /\ T[1] # Open /\ ParseColumnTerm(T) = <<>>
    BY <2>2, ColumnTokenIs, CallText
  <2>4. ASSUME NEW role \in {"equality", "range", "none"}
        PROVE  ReadsAs(RefsOf(T, role), ColumnOf(t, role), Obscure(t))
    <3>1. ColumnOf(t, role) = <<>>
      BY <2>1 DEF ColumnOf
    <3>2. RefsOf(T, role) = <<>>
      BY <2>3, RefsAre
    <3> QED
      BY <3>1, <3>2 DEF ReadsAs, Has
  <2> QED
    BY <1>1, <2>3, <2>4 DEF TermReads
<1> QED
  BY <1>2, <1>3, <1>4, <1>5 DEF ReadTerms

-----------------------------------------------------------------------------
(* The texts of comparisons.                                               *)

LEMMA SliceIs ==
  ASSUME NEW w \in Seq(Token), NEW u \in Seq(Token), NEW f \in Nat, f + Len(u) <= Len(w),
         \A j \in 1 .. Len(u) : w[f + j] = u[j]
  PROVE  SubSeq(w, f + 1, f + Len(u)) = u
<1>1. PICK n \in Nat : n = Len(u)
  BY LenProperties
<1>2. PICK l \in Nat : l = Len(w)
  BY LenProperties
<1>3. f + n <= l /\ \A j \in 1 .. n : w[f + j] = u[j]
  BY <1>1, <1>2
<1>4. \A i \in f + 1 .. f + n : w[i] \in Token
  BY <1>2, <1>3, ElementOfSeq
<1>5. PICK v : v = SubSeq(w, f + 1, f + n)
  OBVIOUS
<1>6. v \in Seq(Token) /\ Len(v) = n /\ \A j \in 1 .. n : v[j] = w[f + j]
  <2>1. PICK p \in Int, q \in Int : p = f + 1 /\ q = f + n
    OBVIOUS
  <2>2. /\ SubSeq(w, p, q) \in Seq(Token)
        /\ Len(SubSeq(w, p, q)) = IF p <= q THEN q - p + 1 ELSE 0
        /\ \A j \in 1 .. q - p + 1 : SubSeq(w, p, q)[j] = w[p + j - 1]
    BY <1>4, <2>1, SubSeqProperties
  <2>3. q - p + 1 = n /\ (IF p <= q THEN q - p + 1 ELSE 0) = n
    BY <2>1
  <2>4. \A j \in 1 .. n : p + j - 1 = f + j
    BY <2>1
  <2> QED
    BY <1>5, <2>1, <2>2, <2>3, <2>4
<1>7. v = u
  BY <1>1, <1>3, <1>6, SeqEqual
<1> QED
  BY <1>1, <1>5, <1>7

\* What ParseConjunct reads of a term whose outer parentheses are off.
ReadTerm(term) ==
    LET ops  == {i \in TopLevel(term) : term[i][1] = "op"}
        op   == CHOOSE i \in ops : \A j \in ops : i <= j
        role == RoleOf(term[op][2])
    IN  IF ops = {} \/ role = "none" THEN <<>>
        ELSE RefsOf(SubSeq(term, 1, op - 1), role) \o RefsOf(SubSeq(term, op + 1, Len(term)), role)

LEMMA ParseIsRead ==
  ASSUME NEW raw
  PROVE  ParseConjunct(raw) = ReadTerm(StripOuterParens(raw))
BY DEF ParseConjunct, ReadTerm

Operators(term) == {i \in TopLevel(term) : term[i][1] = "op"}

LEMMA NoOperator ==
  ASSUME NEW term, Operators(term) = {}
  PROVE  ReadTerm(term) = <<>>
BY DEF ReadTerm, Operators

ReadAt(term, op) ==
    IF RoleOf(term[op][2]) = "none" THEN <<>>
    ELSE RefsOf(SubSeq(term, 1, op - 1), RoleOf(term[op][2]))
            \o RefsOf(SubSeq(term, op + 1, Len(term)), RoleOf(term[op][2]))

LeastOf(ops) == CHOOSE i \in ops : \A j \in ops : i <= j

LEMMA ReadsAtTheLeast ==
  ASSUME NEW term, Operators(term) # {}
  PROVE  ReadTerm(term) = ReadAt(term, LeastOf(Operators(term)))
BY DEF ReadTerm, Operators, ReadAt, LeastOf

LEMMA OneOperator ==
  ASSUME NEW term, NEW p \in Nat, Operators(term) = {p}
  PROVE  ReadTerm(term) = ReadAt(term, p)
<1>1. LeastOf({p}) = p
  BY DEF LeastOf
<1> QED
  BY <1>1, ReadsAtTheLeast

LEMMA OperatorText ==
  ASSUME NEW op \in Comparisons \cup {"~~"}
  PROVE  \E o \in Token :
            /\ DeparseOperator(op) = <<o>>
            /\ o \notin {Open, Close, Literal("open"), Literal("close")} \cup Connectives
            /\ (o[1] = "op") <=> (op \in Comparisons)
            /\ op \in Comparisons => o[2] = op
<1>1. CASE op \in Comparisons
  <2>1. DeparseOperator(op) = <<Char(op)>>
    <3>1. op \notin {"<@", "@>", "<<", "~~"}
      BY <1>1 DEF Comparisons, Equality, Range_
    <3> QED
      BY <1>1, <3>1 DEF DeparseOperator
  <2>2. Char(op) \in Token /\ Char(op)[1] = "op" /\ Char(op)[2] = op
    BY <1>1, TheyAreTokens, Tags
  <2>3. PICK o \in Token : o = Char(op)
    BY <2>2
  <2>4. o[1] = "op" /\ o[2] = op
    BY <2>2, <2>3
  <2>5. o \notin Connectives
    BY <2>4, NotAConnective
  <2>6. o \notin {Open, Close, Literal("open"), Literal("close")}
    BY <2>4, Tags
  <2> QED
    BY <1>1, <2>1, <2>3, <2>4, <2>5, <2>6
<1>2. CASE op = "~~"
  <2>0. "~~" \notin Comparisons
    BY DEF Comparisons, Equality, Range_
  <2>1. DeparseOperator(op) = <<Word("~~")>>
    BY <1>2, <2>0 DEF DeparseOperator
  <2>2. PICK o \in Token : o = Word("~~")
    BY TheyAreTokens DEF Words
  <2>3. o[1] = "word" /\ o[2] = "~~"
    BY <2>2, Tags
  <2>4. o \notin Connectives
    BY <2>3, Tags DEF Connectives
  <2>5. o \notin {Open, Close, Literal("open"), Literal("close")}
    BY <2>3, Tags
  <2> QED
    BY <1>2, <2>0, <2>1, <2>2, <2>3, <2>4, <2>5
<1> QED
  BY <1>1, <1>2

LEMMA JoinReads ==
  ASSUME NEW r1, NEW t1, NEW o1 \in BOOLEAN, ReadsAs(r1, t1, o1),
         NEW r2, NEW t2, NEW o2 \in BOOLEAN, ReadsAs(r2, t2, o2)
  PROVE  ReadsAs(r1 \o r2, t1 \o t2, o1 \/ o2)
<1>1. /\ r1 \in Seq(Ref) /\ t1 \in Seq(Ref) /\ (~ o1 => r1 = t1)
      /\ r2 \in Seq(Ref) /\ t2 \in Seq(Ref) /\ (~ o2 => r2 = t2)
      /\ \A x : Has(r1, x) => Has(t1, x)
      /\ \A x : Has(r2, x) => Has(t2, x)
  BY DEF ReadsAs
<1>2. r1 \o r2 \in Seq(Ref) /\ t1 \o t2 \in Seq(Ref)
  BY <1>1, ConcatProperties
<1>3. ASSUME NEW x, Has(r1 \o r2, x)
      PROVE  Has(t1 \o t2, x)
  <2>1. Has(r1, x) \/ Has(r2, x)
    BY <1>1, <1>3, HasJoin
  <2>2. Has(t1, x) \/ Has(t2, x)
    BY <1>1, <2>1
  <2> QED
    BY <1>1, <2>2, HasJoin
<1>4. ASSUME ~ (o1 \/ o2)
      PROVE  r1 \o r2 = t1 \o t2
  BY <1>1, <1>4
<1> QED
  BY <1>2, <1>3, <1>4 DEF ReadsAs

\* m is the text of a comparison without its parentheses; true, what to read of it.
IsInside(m, true, obscure) ==
    /\ m \in Seq(Token) /\ Balanced(m) /\ StripOuterParens(m) = m
    /\ \A i \in 1 .. Len(m) : m[i] \notin Connectives
    /\ ~ obscure => Clear(m)
    /\ ReadsAs(ReadTerm(m), true, obscure)

LEMMA TextsAssociate ==
  ASSUME NEW s \in Seq(Token), NEW t \in Seq(Token), NEW u \in Seq(Token)
  PROVE  (s \o t) \o u = s \o (t \o u)
BY ConcatAssociative

LEMMA ComparisonText ==
  ASSUME NEW c \in ReadComparisons
  PROVE  \E m : /\ DeparseCmp(c) = InParens(m)
                /\ IsInside(m, SargableAtom(c), Obscure(c[3]) \/ Obscure(c[4]))
<1>1. PICK op \in Comparisons \cup {"~~"}, x \in ReadTerms, y \in ReadTerms :
         c[1] = "cmp" /\ c[2] = op /\ c[3] = x /\ c[4] = y
  BY DEF ReadComparisons
<1>2. PICK L, R : L = DeparseTerm(x) /\ R = DeparseTerm(y)
  OBVIOUS
<1>3. TermReads(x, L) /\ TermReads(y, R)
  BY <1>2, TermText
<1>4. /\ L \in Seq(Token) /\ Balanced(L) /\ Len(L) >= 1
      /\ R \in Seq(Token) /\ Balanced(R) /\ Len(R) >= 1
  BY <1>3 DEF TermReads, Plain
<1>5. PICK o \in Token :
         /\ DeparseOperator(op) = <<o>>
         /\ o \notin {Open, Close, Literal("open"), Literal("close")} \cup Connectives
         /\ (o[1] = "op") <=> (op \in Comparisons)
         /\ op \in Comparisons => o[2] = op
  BY OperatorText
<1>6. PICK O : O = <<o>>
  OBVIOUS
<1>7. O \in Seq(Token) /\ Len(O) = 1 /\ O[1] = o
  BY <1>6, OneToken
<1>8. Balanced(O)
  BY <1>5, <1>7, TokenAlone
<1>9. PICK l \in Nat \ {0}, r \in Nat \ {0} : l = Len(L) /\ r = Len(R)
  BY <1>4, LenProperties
<1>10. PICK a : a = L \o O
  OBVIOUS
<1>11. a \in Seq(Token) /\ Continues(a, L, O)
  BY <1>4, <1>7, <1>10, JoinContinues
<1>12. PICK m : m = a \o R
  OBVIOUS
<1>13. m \in Seq(Token) /\ Continues(m, a, R)
  BY <1>4, <1>11, <1>12, JoinContinues
<1>14. Balanced(a) /\ Balanced(m)
  <2>1. Balanced(a)
    BY <1>4, <1>8, <1>11, BalancedJoins
  <2> QED
    BY <1>4, <1>13, <2>1, BalancedJoins
<1>15. Len(a) = l + 1 /\ a[l + 1] = o /\ \A i \in 1 .. l : a[i] = L[i]
  BY <1>7, <1>9, <1>11 DEF Continues
<1>16. /\ Len(m) = l + 1 + r /\ m[l + 1] = o
       /\ \A i \in 1 .. l : m[i] = L[i]
       /\ \A j \in 1 .. r : m[l + 1 + j] = R[j]
  <2>1. /\ Len(m) = l + 1 + r /\ \A i \in 1 .. l + 1 : m[i] = a[i]
        /\ \A j \in 1 .. r : m[l + 1 + j] = R[j]
    BY <1>9, <1>13, <1>15 DEF Continues
  <2>2. l + 1 \in 1 .. l + 1 /\ \A i \in 1 .. l : i \in 1 .. l + 1
    OBVIOUS
  <2> QED
    BY <1>15, <2>1, <2>2
<1>17. ASSUME NEW i \in 1 .. l + 1 + r
       PROVE  \/ i = l + 1
              \/ \E j \in 1 .. l : i = j /\ m[i] = L[j]
              \/ \E j \in 1 .. r : i = l + 1 + j /\ m[i] = R[j]
  <2>1. CASE i <= l
    BY <1>16, <2>1
  <2>2. CASE i > l + 1
    <3>1. i - (l + 1) \in 1 .. r /\ i = l + 1 + (i - (l + 1))
      BY <2>2
    <3> QED
      BY <1>16, <3>1
  <2>3. CASE i = l + 1
    BY <2>3
  <2> QED
    BY <2>1, <2>2, <2>3
<1>18. DeparseCmp(c) = InParens(m)
  <2>1. DeparseCmp(c) = <<Open>> \o L \o O \o R \o <<Close>>
    BY <1>1, <1>2, <1>5, <1>6 DEF DeparseCmp
  <2>2. PICK s \in Seq(Token) : s = <<Open>>
    <3>1. <<Open>> \in Seq(Token)
      BY ParensAreTokens
    <3> QED
      BY <3>1, Zenon
  <2>3. ((s \o L) \o O) \o R = s \o m
    <3>1. L \in Seq(Token) /\ O \in Seq(Token) /\ R \in Seq(Token)
      BY <1>4, <1>7
    <3>2. PICK t \in Seq(Token), u \in Seq(Token), v \in Seq(Token) : t = L /\ u = O /\ v = R
      BY <3>1, Zenon
    <3>3. (s \o t) \o u = s \o (t \o u)
      BY TextsAssociate, ZenonT(60)
    <3>4. PICK w \in Seq(Token) : w = a
      BY <1>11
    <3>5. (s \o w) \o v = s \o (w \o v)
      BY TextsAssociate, ZenonT(60)
    <3>6. t \o u = w
      BY <1>10, <3>2, <3>4, Zenon
    <3>7. w \o v = m
      BY <1>12, <3>2, <3>4, Zenon
    <3>8. ((s \o t) \o u) \o v = s \o m
      BY <3>3, <3>5, <3>6, <3>7, Zenon
    <3> QED
      BY <3>2, <3>8, Zenon
  <2>4. ((<<Open>> \o L) \o O) \o R = <<Open>> \o m
    BY <2>2, <2>3, Zenon
  <2> QED
    BY <2>1, <2>4, Zenon DEF InParens
<1>19. \A i \in 1 .. l + 1 + r : m[i] \notin Connectives
  <2>1. /\ \A j \in 1 .. l : L[j] \notin Connectives
        /\ \A j \in 1 .. r : R[j] \notin Connectives
    BY <1>3, <1>9 DEF TermReads, Plain
  <2> QED
    BY <1>5, <1>16, <1>17, <2>1
<1>20. ASSUME ~ (Obscure(x) \/ Obscure(y))
       PROVE  Clear(m)
  <2>1. Clear(L) /\ Clear(R)
    BY <1>3, <1>20 DEF TermReads
  <2>2. /\ \A j \in 1 .. l : L[j] \notin {Literal("open"), Literal("close")}
        /\ \A j \in 1 .. r : R[j] \notin {Literal("open"), Literal("close")}
    BY <1>9, <2>1 DEF Clear
  <2> QED
    BY <1>5, <1>16, <1>17, <2>2 DEF Clear
<1>21. StripOuterParens(m) = m
  <2>1. CASE m[1] # Open
    BY <2>1 DEF StripOuterParens
  <2>2. CASE m[1] = Open
    <3>1. 1 \in 1 .. l /\ L[1] = Open
      BY <1>16, <2>2
    <3>2. Clear(L) /\ Len(L) = 4 /\ DepthAt(L, 3) = 0
      BY <1>3, <3>1 DEF TermReads
    <3>3. l = 4 /\ 3 \in 0 .. Len(L) /\ 3 \in 0 .. Len(a) /\ 3 \in 1 .. Len(m) - 1
      BY <1>9, <1>15, <1>16, <3>2
    <3>4. RawDepthAt(L, 3) = 0
      BY <1>9, <3>2, <3>3, ClearIsRaw
    <3>5. RawDepthAt(a, 3) = RawDepthAt(L, 3)
      BY <1>11, <3>3, RawAtJoins
    <3>6. RawDepthAt(m, 3) = RawDepthAt(a, 3)
      BY <1>13, <3>3, RawAtJoins
    <3> QED
      BY <3>3, <3>4, <3>5, <3>6 DEF StripOuterParens
  <2> QED
    BY <2>1, <2>2
<1>22. Operators(m) = IF op \in Comparisons THEN {l + 1} ELSE {}
  <2>1. DOMAIN m = 1 .. l + 1 + r
    BY <1>13, <1>16, LenProperties
  <2>2. /\ \A j \in 1 .. l : L[j][1] # "op"
        /\ \A j \in 1 .. r : R[j][1] # "op"
    BY <1>3, <1>9 DEF TermReads, Plain
  <2>3. \A i \in Operators(m) : i = l + 1 /\ op \in Comparisons
    <3>1. TAKE i \in Operators(m)
    <3>2. i \in 1 .. l + 1 + r /\ m[i][1] = "op"
      BY <2>1 DEF Operators, TopLevel
    <3>3. i = l + 1
      BY <1>17, <2>2, <3>2
    <3> QED
      BY <1>5, <1>16, <3>2, <3>3
  <2>4. ASSUME op \in Comparisons
        PROVE  l + 1 \in Operators(m)
    <3>1. DepthAt(a, l + 1) = 0
      BY <1>14, <1>15 DEF Balanced
    <3>2. DepthAt(m, l + 1) = DepthAt(a, l + 1)
      <4>1. l + 1 \in 0 .. Len(a)
        BY <1>15
      <4> QED
        BY <1>13, <4>1, DepthAtJoins
    <3>3. l + 1 \in DOMAIN m
      BY <2>1
    <3> QED
      BY <1>5, <1>16, <2>4, <3>1, <3>2, <3>3 DEF Operators, TopLevel
  <2> QED
    BY <2>3, <2>4
<1>23. ReadsAs(ReadTerm(m), SargableAtom(c), Obscure(x) \/ Obscure(y))
  <2>1. CASE op \notin Comparisons
    <3>1. ReadTerm(m) = <<>>
      BY <1>22, <2>1, NoOperator
    <3>2. SargableAtom(c) = <<>>
      BY <1>1, <2>1 DEF SargableAtom, Comparisons
    <3> QED
      BY <3>1, <3>2 DEF ReadsAs, Has
  <2>2. CASE op \in Comparisons
    <3>1. PICK role \in {"equality", "range", "none"} : role = RoleOf(op)
      BY RoleIs
    <3>2. ReadTerm(m) = ReadAt(m, l + 1) /\ m[l + 1][2] = op
      <4>0. l + 1 \in Nat
        BY <1>9
      <4>1. Operators(m) = {l + 1}
        BY <1>22, <2>2, Zenon
      <4> QED
        BY <1>5, <1>16, <2>2, <4>0, <4>1, OneOperator
    <3>3. SubSeq(m, 1, l) = L /\ SubSeq(m, l + 2, Len(m)) = R
      <4>1. SubSeq(m, 0 + 1, 0 + Len(L)) = L
        <5>1. 0 + Len(L) <= Len(m) /\ \A j \in 1 .. Len(L) : m[0 + j] = L[j]
          BY <1>9, <1>16
        <5> QED
          BY <1>4, <1>13, <5>1, SliceIs
      <4>2. SubSeq(m, (l + 1) + 1, (l + 1) + Len(R)) = R
        <5>1. (l + 1) + Len(R) <= Len(m) /\ \A j \in 1 .. Len(R) : m[(l + 1) + j] = R[j]
          BY <1>9, <1>16
        <5>2. l + 1 \in Nat
          OBVIOUS
        <5> QED
          BY <1>4, <1>13, <5>1, <5>2, SliceIs
      <4>3. /\ 0 + 1 = 1 /\ 0 + Len(L) = l /\ (l + 1) + 1 = l + 2
            /\ (l + 1) + Len(R) = Len(m)
        BY <1>9, <1>16
      <4> QED
        BY <4>1, <4>2, <4>3, Zenon
    <3>4. CASE role = "none"
      <4>1. ReadTerm(m) = <<>>
        BY <3>1, <3>2, <3>4 DEF ReadAt
      <4>2. op \notin Equality \cup Range_
        BY <3>1, <3>4 DEF RoleOf
      <4>3. SargableAtom(c) = <<>>
        BY <1>1, <4>2 DEF SargableAtom
      <4> QED
        BY <4>1, <4>3 DEF ReadsAs, Has
    <3>5. CASE role # "none"
      <4>1. ReadTerm(m) = RefsOf(L, role) \o RefsOf(R, role)
        <5>1. (l + 1) - 1 = l /\ (l + 1) + 1 = l + 2
          OBVIOUS
        <5> QED
          BY <3>1, <3>2, <3>3, <3>5, <5>1 DEF ReadAt
      <4>2. op \in Equality \cup Range_
        BY <3>1, <3>5 DEF RoleOf
      <4>3. SargableAtom(c) = ColumnOf(x, role) \o ColumnOf(y, role)
        BY <1>1, <3>1, <4>2 DEF SargableAtom
      <4>4. /\ ReadsAs(RefsOf(L, role), ColumnOf(x, role), Obscure(x))
            /\ ReadsAs(RefsOf(R, role), ColumnOf(y, role), Obscure(y))
        BY <1>3 DEF TermReads
      <4>5. Obscure(x) \in BOOLEAN /\ Obscure(y) \in BOOLEAN
        BY DEF Obscure
      <4> QED
        BY <4>1, <4>3, <4>4, <4>5, JoinReads
    <3> QED
      BY <3>4, <3>5
  <2> QED
    BY <2>1, <2>2
<1>24. IsInside(m, SargableAtom(c), Obscure(c[3]) \/ Obscure(c[4]))
  BY <1>1, <1>13, <1>14, <1>16, <1>19, <1>20, <1>21, <1>23 DEF IsInside
<1> QED
  BY <1>18, <1>24

LEMMA WrappedText ==
  ASSUME NEW u \in Seq(Token), Balanced(u)
  PROVE  /\ Enclosed(InParens(u)) /\ (Clear(u) => Clear(InParens(u)))
         /\ ReadTerm(InParens(u)) = <<>>
         /\ \/ StripOuterParens(InParens(u)) = u
            \/ StripOuterParens(InParens(u)) = InParens(u) /\ ~ Clear(u)
<1>1. PICK w \in Seq(Token) : w = InParens(u) /\ Wraps(w, u)
  BY InParensWraps
<1>2. Enclosed(w)
  BY <1>1, WrapsBalanced, WrapsTop DEF Enclosed
<1>3. ReadTerm(w) = <<>>
  <2>1. Operators(w) = {}
    BY <1>2 DEF Operators, Enclosed
  <2> QED
    BY <2>1, NoOperator
<1>4. StripOuterParens(w) = u \/ (StripOuterParens(w) = w /\ ~ Clear(u))
  BY <1>1, WrapsStripped
<1>5. ASSUME Clear(u)
      PROVE  Clear(w)
  <2>1. PICK n \in Nat : n = Len(u)
    BY LenProperties
  <2>2. Len(w) = n + 2 /\ w[1] = Open /\ w[n + 2] = Close /\ \A i \in 1 .. n : w[1 + i] = u[i]
    BY <1>1, <2>1 DEF Wraps
  <2>3. {Open, Close} \cap {Literal("open"), Literal("close")} = {}
    BY NoneIsAParen
  <2>4. ASSUME NEW i \in 1 .. n + 2
        PROVE  w[i] \notin {Literal("open"), Literal("close")}
    <3>1. CASE i = 1 \/ i = n + 2
      BY <2>2, <2>3, <3>1
    <3>2. CASE i # 1 /\ i # n + 2
      <4>1. i - 1 \in 1 .. n /\ i = 1 + (i - 1)
        BY <3>2
      <4>2. w[1 + (i - 1)] = u[i - 1]
        BY <2>2, <4>1
      <4>3. u[i - 1] \notin {Literal("open"), Literal("close")}
        BY <1>5, <2>1, <4>1 DEF Clear
      <4> QED
        BY <4>1, <4>2, <4>3
    <3> QED
      BY <3>1, <3>2
  <2> QED
    BY <2>2, <2>4 DEF Clear
<1> QED
  BY <1>1, <1>2, <1>3, <1>4, <1>5

-----------------------------------------------------------------------------
(* The texts of atoms and of juncts.                                       *)

ObscureIn(terms) == \E t \in terms : Obscure(t)

LEMMA NegationText ==
  ASSUME NEW c \in ReadComparisons
  PROVE  \E m : /\ <<Open, Word("NOT")>> \o DeparseCmp(c) \o <<Close>> = InParens(m)
                /\ IsInside(m, <<>>, Obscure(c[3]) \/ Obscure(c[4]))
<1>1. PICK v : /\ DeparseCmp(c) = InParens(v)
               /\ IsInside(v, SargableAtom(c), Obscure(c[3]) \/ Obscure(c[4]))
  BY ComparisonText
<1>2. /\ v \in Seq(Token) /\ Balanced(v) /\ \A i \in 1 .. Len(v) : v[i] \notin Connectives
      /\ ~ (Obscure(c[3]) \/ Obscure(c[4])) => Clear(v)
  BY <1>1 DEF IsInside
<1>3. PICK w \in Seq(Token) : w = InParens(v) /\ Wraps(w, v)
  BY <1>2, InParensWraps
<1>4. Balanced(w) /\ TopLevel(w) = {} /\ (Clear(v) => Clear(w))
  BY <1>2, <1>3, WrappedText DEF Enclosed
<1>5. PICK x \in Token : x = Word("NOT")
  BY TheyAreTokens DEF Words
<1>6. x[1] = "word" /\ x[2] = "NOT"
  BY <1>5, Tags
<1>7. x \notin {Open, Close, Literal("open"), Literal("close")} \cup Connectives
  <2>1. x \notin {Open, Close, Literal("open"), Literal("close")}
    <3>1. /\ Open[1] = "(" /\ Close[1] = ")"
          /\ Literal("open")[1] = "'" /\ Literal("close")[1] = "'"
      BY Tags
    <3> QED
      BY <1>6, <3>1
  <2>2. x \notin Connectives
    BY <1>6, Tags DEF Connectives
  <2> QED
    BY <2>1, <2>2
<1>8. PICK q \in Seq(Token) : q = <<x>> /\ Len(q) = 1 /\ q[1] = x
  BY OneToken
<1>9. Balanced(q) /\ TopLevel(q) = {1}
  BY <1>7, <1>8, TokenAlone
<1>10. PICK m : m = q \o w
  OBVIOUS
<1>11. m \in Seq(Token) /\ Continues(m, q, w)
  BY <1>10, JoinContinues
<1>12. PICK n \in Nat, k \in Nat : n = Len(w) /\ k = Len(v)
  BY <1>2, LenProperties
<1>13. Len(m) = 1 + n /\ m[1] = x /\ \A j \in 1 .. n : m[1 + j] = w[j]
  BY <1>8, <1>11, <1>12 DEF Continues
<1>14. Balanced(m)
  BY <1>4, <1>9, <1>11, BalancedJoins
<1>15. TopLevel(m) = {1}
  <2>1. TopLevel(m) = TopLevel(q) \cup {Len(q) + j : j \in TopLevel(w)}
    BY <1>4, <1>9, <1>11, TextTopJoins
  <2> QED
    BY <1>4, <1>9, <2>1
<1>16. ReadTerm(m) = <<>>
  <2>1. Operators(m) = {}
    BY <1>6, <1>13, <1>15 DEF Operators
  <2> QED
    BY <2>1, NoOperator
<1>17. StripOuterParens(m) = m
  BY <1>7, <1>13 DEF StripOuterParens
<1>18. \A j \in 1 .. n : w[j] \notin Connectives
  <2>1. n = k + 2 /\ w[1] = Open /\ w[k + 2] = Close /\ \A i \in 1 .. k : w[1 + i] = v[i]
    BY <1>3, <1>12 DEF Wraps
  <2>2. Open \notin Connectives /\ Close \notin Connectives
    BY Tags, NotAConnective
  <2> TAKE j \in 1 .. n
  <2>3. CASE j = 1 \/ j = k + 2
    BY <2>1, <2>2, <2>3
  <2>4. CASE j # 1 /\ j # k + 2
    <3>1. j - 1 \in 1 .. k /\ j = 1 + (j - 1)
      BY <2>1, <2>4
    <3>2. w[1 + (j - 1)] = v[j - 1]
      BY <2>1, <3>1
    <3> QED
      BY <1>2, <1>12, <3>1, <3>2
  <2> QED
    BY <2>3, <2>4
<1>19. ASSUME NEW i \in 1 .. 1 + n
       PROVE  m[i] = x \/ \E j \in 1 .. n : m[i] = w[j]
  <2>1. CASE i = 1
    BY <1>13, <2>1
  <2>2. CASE i # 1
    <3>1. i - 1 \in 1 .. n /\ i = 1 + (i - 1)
      BY <2>2
    <3> QED
      BY <1>13, <3>1
  <2> QED
    BY <2>1, <2>2
<1>20. \A i \in 1 .. Len(m) : m[i] \notin Connectives
  BY <1>7, <1>13, <1>18, <1>19
<1>21. ASSUME Clear(v)
       PROVE  Clear(m)
  <2>1. \A j \in 1 .. n : w[j] \notin {Literal("open"), Literal("close")}
    BY <1>4, <1>12, <1>21 DEF Clear
  <2> QED
    BY <1>7, <1>13, <1>19, <2>1 DEF Clear
<1>22. IsInside(m, <<>>, Obscure(c[3]) \/ Obscure(c[4]))
  <2>1. ReadsAs(ReadTerm(m), <<>>, Obscure(c[3]) \/ Obscure(c[4]))
    BY <1>16 DEF ReadsAs, Has
  <2> QED
    BY <1>2, <1>11, <1>14, <1>17, <1>20, <1>21, <2>1 DEF IsInside
<1>23. <<Open, Word("NOT")>> \o DeparseCmp(c) \o <<Close>> = InParens(m)
  <2>1. PICK s \in Seq(Token) : s = <<Open>>
    <3>1. <<Open>> \in Seq(Token)
      BY ParensAreTokens
    <3> QED
      BY <3>1, Zenon
  <2>2. (s \o q) \o w = s \o (q \o w)
    BY ConcatAssociative
  <2>3. <<Open, Word("NOT")>> = s \o q
    BY <1>5, <1>8, <2>1
  <2>4. DeparseCmp(c) = w
    BY <1>1, <1>3
  <2>5. <<Open, Word("NOT")>> \o DeparseCmp(c) = <<Open>> \o m
    BY <1>10, <2>1, <2>2, <2>3, <2>4, Zenon
  <2> QED
    BY <2>5, Zenon DEF InParens
<1> QED
  BY <1>22, <1>23

LEMMA AtomText ==
  ASSUME NEW a \in ReadAtoms
  PROVE  \E m : /\ DeparseAtom(a) = InParens(m)
                /\ IsInside(m, SargableAtom(a), ObscureIn(Terms(a)))
<1>1. CASE a \in ReadComparisons
  <2>1. a[1] = "cmp"
    BY <1>1 DEF ReadComparisons
  <2>2. DeparseAtom(a) = DeparseCmp(a) /\ Terms(a) = {a[3], a[4]}
    BY <2>1 DEF DeparseAtom, Terms, Compared
  <2>3. ObscureIn(Terms(a)) <=> Obscure(a[3]) \/ Obscure(a[4])
    BY <2>2 DEF ObscureIn
  <2>4. PICK m : /\ DeparseCmp(a) = InParens(m)
                 /\ IsInside(m, SargableAtom(a), Obscure(a[3]) \/ Obscure(a[4]))
    BY <1>1, ComparisonText
  <2>5. IsInside(m, SargableAtom(a), ObscureIn(Terms(a)))
    BY <2>3, <2>4 DEF IsInside, ReadsAs
  <2> QED
    BY <2>2, <2>4, <2>5
<1>2. CASE a \in {"not"} \X ReadComparisons
  <2>1. PICK c \in ReadComparisons : a[1] = "not" /\ a[2] = c
    BY <1>2
  <2>2. /\ DeparseAtom(a) = <<Open, Word("NOT")>> \o DeparseCmp(c) \o <<Close>>
        /\ Terms(a) = {c[3], c[4]} /\ SargableAtom(a) = <<>>
    BY <2>1 DEF DeparseAtom, Terms, Compared, SargableAtom
  <2>3. ObscureIn(Terms(a)) <=> Obscure(c[3]) \/ Obscure(c[4])
    BY <2>2 DEF ObscureIn
  <2>4. PICK m : /\ <<Open, Word("NOT")>> \o DeparseCmp(c) \o <<Close>> = InParens(m)
                 /\ IsInside(m, <<>>, Obscure(c[3]) \/ Obscure(c[4]))
    BY NegationText
  <2>5. IsInside(m, SargableAtom(a), ObscureIn(Terms(a)))
    BY <2>2, <2>3, <2>4 DEF IsInside, ReadsAs
  <2> QED
    BY <2>2, <2>4, <2>5
<1> QED
  BY <1>1, <1>2 DEF ReadAtoms

LEMMA InsideRead ==
  ASSUME NEW m, NEW true, NEW obscure, IsInside(m, true, obscure)
  PROVE  /\ Enclosed(InParens(m)) /\ (~ obscure => Clear(InParens(m)))
         /\ ReadsAs(ParseConjunct(InParens(m)), true, obscure)
<1>1. /\ m \in Seq(Token) /\ Balanced(m) /\ (~ obscure => Clear(m))
      /\ ReadsAs(ReadTerm(m), true, obscure)
  BY DEF IsInside
<1>2. PICK w : w = InParens(m)
  OBVIOUS
<1>3. /\ Enclosed(w) /\ (Clear(m) => Clear(w)) /\ ReadTerm(w) = <<>>
      /\ StripOuterParens(w) = m \/ (StripOuterParens(w) = w /\ ~ Clear(m))
  BY <1>1, <1>2, WrappedText
<1>4. ParseConjunct(w) = ReadTerm(StripOuterParens(w))
  BY ParseIsRead
<1>5. ReadsAs(ParseConjunct(w), true, obscure)
  <2>1. CASE StripOuterParens(w) = m
    BY <1>1, <1>4, <2>1
  <2>2. CASE StripOuterParens(w) = w /\ ~ Clear(m)
    <3>1. ParseConjunct(w) = <<>> /\ obscure
      BY <1>1, <1>3, <1>4, <2>2
    <3>2. true \in Seq(Ref)
      BY <1>1 DEF ReadsAs
    <3> QED
      BY <3>1, <3>2 DEF ReadsAs, Has
  <2> QED
    BY <1>3, <2>1, <2>2
<1> QED
  BY <1>1, <1>2, <1>3, <1>5

\* Joined texts read as one conjunct: nothing.
LEMMA JoinedRead ==
  ASSUME NEW ts, NEW word \in {"AND", "OR"}, NEW b, IsJoined(b, ts, word), Len(ts) \in Nat \ {0}
  PROVE  /\ b \in Seq(Token) /\ Balanced(b)
         /\ ReadTerm(b) = <<>> /\ ParseConjunct(InParens(b)) = <<>>
         /\ (\A k \in 1 .. Len(ts) : Clear(ts[k])) => Clear(b)
<1>1. PICK n \in Nat \ {0} : n = Len(ts)
  OBVIOUS
<1>2. PICK e : e[0] = 0 - 1 /\ IsBody(b, ts, n, word, e)
  BY <1>1 DEF IsJoined
<1>3. /\ b \in Seq(Token) /\ Balanced(b)
      /\ TopLevel(b) = {e[m] + 1 : m \in 1 .. n - 1}
      /\ \A m \in 1 .. n - 1 : b[e[m] + 1] = Word(word)
  BY <1>2 DEF IsBody
<1>4. ReadTerm(b) = <<>>
  <2>1. Word(word)[1] = "word"
    BY Tags
  <2>2. \A i \in TopLevel(b) : b[i][1] = "word"
    BY <1>3, <2>1
  <2>3. Operators(b) = {}
    BY <2>2 DEF Operators
  <2> QED
    BY <2>3, NoOperator
<1>5. ParseConjunct(InParens(b)) = <<>>
  <2>1. PICK w : w = InParens(b)
    OBVIOUS
  <2>2. ReadTerm(w) = <<>> /\ (StripOuterParens(w) = b \/ StripOuterParens(w) = w)
    BY <1>3, <2>1, WrappedText
  <2>3. ParseConjunct(w) = ReadTerm(StripOuterParens(w))
    BY ParseIsRead
  <2> QED
    BY <1>4, <2>1, <2>2, <2>3
<1>6. ASSUME \A k \in 1 .. n : Clear(ts[k])
      PROVE  Clear(b)
  <2>1. ASSUME NEW x \in {Literal("open"), Literal("close")}, Has(b, x)
        PROVE  FALSE
    <3>1. x = Word(word) \/ \E k \in 1 .. n : Has(ts[k], x)
      BY <1>1, <2>1 DEF IsJoined
    <3>2. x # Word(word)
      <4>1. Literal("open")[1] = "'" /\ Literal("close")[1] = "'" /\ Word(word)[1] = "word"
        BY Tags
      <4> QED
        BY <4>1
    <3>3. \A k \in 1 .. n : ~ Has(ts[k], x)
      BY <1>6 DEF Clear, Has
    <3> QED
      BY <3>1, <3>2, <3>3
  <2> QED
    BY <2>1 DEF Clear, Has
<1> QED
  BY <1>1, <1>3, <1>4, <1>5, <1>6

LEMMA TextsJoined ==
  ASSUME NEW n \in Nat \ {0}, NEW ts, ts = [i \in 1 .. n |-> ts[i]],
         \A i \in 1 .. n : Enclosed(ts[i]), NEW word \in {"AND", "OR"}
  PROVE  ts \in Seq(Seq(Token)) /\ Len(ts) = n /\ \E b : IsJoined(b, ts, word)
<1>1. n \in Nat /\ \A i \in 1 .. n : ts[i] \in Seq(Token)
  BY DEF Enclosed
<1>2. ts \in Seq(Seq(Token)) /\ Len(ts) = n
  BY <1>1, SeqFromTo
<1>3. Len(ts) >= 1 /\ \A k \in 1 .. Len(ts) : Enclosed(ts[k])
  BY <1>2
<1> QED
  BY <1>2, <1>3, JoinedText

\* What is known of the text of a junct.
JunctReads(j, J) ==
    /\ J \in Seq(Token) /\ Enclosed(J) /\ (~ ObscureIn(TermsIn(j)) => Clear(J))
    /\ ReadsAs(ParseConjunct(J), SargableJunct(j), ObscureIn(TermsIn(j)))

LEMMA ReadTags ==
  ASSUME NEW a \in ReadAtoms
  PROVE  a[1] \in {"cmp", "not"}
BY DEF ReadAtoms, ReadComparisons

LEMMA JunctText ==
  ASSUME NEW j \in ReadJuncts
  PROVE  JunctReads(j, DeparseJunct(j))
<1>1. CASE j \in ReadAtoms
  <2>1. j[1] \notin {"and", "or"}
    BY <1>1, ReadTags
  <2>2. DeparseJunct(j) = DeparseAtom(j) /\ TermsIn(j) = Terms(j) /\ SargableJunct(j) = SargableAtom(j)
    BY <2>1 DEF DeparseJunct, TermsIn, SargableJunct
  <2>3. PICK m : /\ DeparseAtom(j) = InParens(m)
                 /\ IsInside(m, SargableAtom(j), ObscureIn(Terms(j)))
    BY <1>1, AtomText
  <2> QED
    BY <2>2, <2>3, InsideRead DEF JunctReads, Enclosed
<1>2. CASE j \in Connected(ReadAtoms)
  <2>1. PICK as \in Seq(ReadAtoms) : j[1] \in {"and", "or"} /\ j[2] = as /\ Len(as) >= 2
    BY <1>2 DEF Connected
  <2>2. PICK n \in Nat \ {0} : n = Len(as)
    <3>1. PICK k \in Nat : k = Len(as)
      <4>1. Len(as) \in Nat
        BY LenProperties
      <4> QED
        BY <4>1, Zenon
    <3>2. k \in Nat \ {0}
      <4>1. k >= 2
        BY <2>1, <3>1, Zenon
      <4> QED
        BY <4>1
    <3> QED
      BY <3>1, <3>2, Zenon
  <2>3. PICK word \in {"AND", "OR"} : word = Connective(j[1])
    BY DEF Connective
  <2> DEFINE ts == [i \in 1 .. n |-> DeparseAtom(as[i])]
  <2>4. DeparseJunct(j) = Joined(word, ts)
    BY <2>1, <2>2, <2>3 DEF DeparseJunct
  <2>5. \A i \in 1 .. n : as[i] \in ReadAtoms
    BY <2>2, ElementOfSeq
  <2>6. ASSUME NEW i \in 1 .. n
        PROVE  Enclosed(ts[i]) /\ (~ ObscureIn(Terms(as[i])) => Clear(ts[i]))
    <3>1. PICK a \in ReadAtoms : a = as[i]
      BY <2>5
    <3>2. PICK m : /\ DeparseAtom(a) = InParens(m)
                   /\ IsInside(m, SargableAtom(a), ObscureIn(Terms(a)))
      BY AtomText
    <3>3. Enclosed(InParens(m)) /\ (~ ObscureIn(Terms(a)) => Clear(InParens(m)))
      BY <3>2, InsideRead
    <3>4. ts[i] = InParens(m)
      BY <3>1, <3>2
    <3> HIDE DEF ts
    <3> QED
      BY <3>1, <3>3, <3>4
  <2>0. ts = [i \in 1 .. n |-> ts[i]]
    OBVIOUS
  <2> HIDE DEF ts
  <2>7. ts \in Seq(Seq(Token)) /\ Len(ts) = n /\ \E b : IsJoined(b, ts, word)
    BY <2>0, <2>6, TextsJoined
  <2>8. PICK b : IsJoined(b, ts, word)
    BY <2>7
  <2>9. /\ b \in Seq(Token) /\ Balanced(b) /\ ParseConjunct(InParens(b)) = <<>>
        /\ (\A k \in 1 .. n : Clear(ts[k])) => Clear(b)
    BY <2>7, <2>8, JoinedRead
  <2>10. PICK J : J = DeparseJunct(j) /\ J = InParens(b)
    BY <2>4, <2>8 DEF IsJoined
  <2>11. J \in Seq(Token) /\ Enclosed(J) /\ (Clear(b) => Clear(J))
    BY <2>9, <2>10, WrappedText DEF Enclosed
  <2>12. ASSUME ~ ObscureIn(TermsIn(j))
         PROVE  Clear(J)
    <3>1. \A i \in 1 .. n : Terms(as[i]) \subseteq TermsIn(j)
      <4>1. DOMAIN as = 1 .. n
        BY <2>2, LenProperties
      <4> QED
        BY <2>1, <4>1 DEF TermsIn
    <3>2. \A i \in 1 .. n : ~ ObscureIn(Terms(as[i]))
      BY <2>12, <3>1 DEF ObscureIn
    <3> QED
      BY <2>6, <2>7, <2>9, <2>11, <3>2
  <2>13. ReadsAs(ParseConjunct(J), SargableJunct(j), ObscureIn(TermsIn(j)))
    <3>1. SargableJunct(j) = <<>> /\ ParseConjunct(J) = <<>>
      BY <2>1, <2>9, <2>10 DEF SargableJunct
    <3> QED
      BY <3>1 DEF ReadsAs, Has
  <2> QED
    BY <2>10, <2>11, <2>12, <2>13 DEF JunctReads
<1> QED
  BY <1>1, <1>2 DEF ReadJuncts

-----------------------------------------------------------------------------
(* The texts of conditions.                                                *)

LEMMA OneConjunct ==
  ASSUME NEW condition, NEW text \in Seq(Token), StripOuterParens(condition) = text,
         \A i \in TopLevel(text) : text[i] \notin Connectives,
         ParseConjunct(text) \in Seq(Ref)
  PROVE  ParseConditionColumns(condition) = ParseConjunct(text)
<1>1. /\ ~ \E i \in TopLevel(text) : text[i] = Word("OR")
      /\ {i \in TopLevel(text) : text[i] = Word("AND")} = {}
  BY DEF Connectives
<1>2. SplitConjuncts(condition) = <<text>>
  <2>1. CutAt(text, {}) = <<text>>
    BY UncutIs
  <2> QED
    BY <1>1, <2>1 DEF SplitConjuncts
<1> DEFINE f(k) == ParseConjunct(<<text>>[k])
<1>3. ParseConditionColumns(condition) = FlattenSeq([k \in 1 .. 1 |-> f(k)])
  <2>1. Len(<<text>>) = 1
    OBVIOUS
  <2> QED
    BY <1>2, <2>1 DEF ParseConditionColumns
<1>4. f(1) = ParseConjunct(text)
  OBVIOUS
<1> HIDE DEF f
<1>5. [k \in 1 .. 1 |-> f(k)] = <<f(1)>>
  OBVIOUS
<1> QED
  BY <1>3, <1>4, <1>5, FlattenOne

LEMMA AtomCondition ==
  ASSUME NEW a \in ReadAtoms
  PROVE  ReadsAs(ParseConditionColumns(DeparseAtom(a)), SargableAtom(a), ObscureIn(Terms(a)))
<1>1. PICK m : /\ DeparseAtom(a) = InParens(m)
               /\ IsInside(m, SargableAtom(a), ObscureIn(Terms(a)))
  BY AtomText
<1>2. PICK w : w = InParens(m) /\ w = DeparseAtom(a)
  BY <1>1
<1>3. /\ m \in Seq(Token) /\ Balanced(m) /\ StripOuterParens(m) = m
      /\ \A i \in 1 .. Len(m) : m[i] \notin Connectives
      /\ ~ ObscureIn(Terms(a)) => Clear(m)
      /\ ReadsAs(ReadTerm(m), SargableAtom(a), ObscureIn(Terms(a)))
  BY <1>1 DEF IsInside
<1>4. /\ w \in Seq(Token) /\ TopLevel(w) = {} /\ ReadTerm(w) = <<>>
      /\ StripOuterParens(w) = m \/ (StripOuterParens(w) = w /\ ~ Clear(m))
  BY <1>2, <1>3, WrappedText, ZenonT(60) DEF Enclosed
<1>5. CASE StripOuterParens(w) = m
  <2>1. ParseConjunct(m) = ReadTerm(m)
    BY <1>3, ParseIsRead
  <2>2. ReadTerm(m) \in Seq(Ref)
    BY <1>3 DEF ReadsAs
  <2>3. \A i \in TopLevel(m) : m[i] \notin Connectives
    BY <1>3, LenProperties DEF TopLevel
  <2>4. ParseConditionColumns(w) = ParseConjunct(m)
    BY <1>3, <1>5, <2>1, <2>2, <2>3, OneConjunct
  <2> QED
    BY <1>2, <1>3, <2>1, <2>4
<1>6. CASE StripOuterParens(w) = w /\ ~ Clear(m)
  <2>1. ParseConjunct(w) = <<>> /\ <<>> \in Seq(Ref)
    BY <1>4, <1>6, ParseIsRead
  <2>2. ParseConditionColumns(w) = ParseConjunct(w)
    BY <1>4, <1>6, <2>1, OneConjunct
  <2>3. ObscureIn(Terms(a)) /\ SargableAtom(a) \in Seq(Ref)
    BY <1>3, <1>6 DEF ReadsAs
  <2>4. ParseConditionColumns(w) = <<>>
    BY <2>1, <2>2
  <2> QED
    BY <1>2, <2>3, <2>4 DEF ReadsAs, Has
<1> QED
  BY <1>4, <1>5, <1>6

\* The ends of joined texts ascend, and their cuts give the texts back.
LEMMA EndsAscend ==
  ASSUME NEW ts, NEW n \in Nat \ {0}, NEW word, NEW e, NEW b, IsBody(b, ts, n, word, e),
         e[0] = 0 - 1, NEW i \in 1 .. n, NEW j \in 1 .. n, i < j
  PROVE  e[i] < e[j]
<1>1. \A m \in 1 .. n : e[m - 1] \in Int /\ e[m] \in Int /\ e[m - 1] < e[m]
  <2> TAKE m \in 1 .. n
  <2>1. IsMember(b, ts, m, e) /\ e[m] <= e[n]
    BY DEF IsBody
  <2>2. e[m - 1] + 1 \in Nat /\ Len(ts[m]) \in Nat /\ e[m] = e[m - 1] + 1 + Len(ts[m])
    BY <2>1 DEF IsMember
  <2>3. e[m - 1] \in Int
    <3>1. (m - 1 = 0) \/ m - 1 \in 1 .. n
      OBVIOUS
    <3>2. CASE m - 1 \in 1 .. n
      <4>1. PICK k \in 1 .. n : k = m - 1
        BY <3>2
      <4>2. IsMember(b, ts, k, e)
        BY DEF IsBody
      <4>3. e[k] \in Int
        BY <4>2 DEF IsMember
      <4> QED
        BY <4>1, <4>3
    <3>3. CASE m - 1 = 0
      BY <2>2, <3>3
    <3> QED
      BY <3>1, <3>2, <3>3
  <2> QED
    BY <2>2, <2>3
<1> DEFINE Good == {k \in Nat : k <= i \/ e[i] < e[k]}
<1>2. 0 \in Good
  OBVIOUS
<1>3. ASSUME NEW k \in 1 .. n, k - 1 \in Good
      PROVE  k \in Good
  <2>1. e[k - 1] \in Int /\ e[k] \in Int /\ e[k - 1] < e[k] /\ e[i] \in Int
    BY <1>1
  <2>2. k <= i \/ k - 1 = i \/ (k - 1 > i /\ e[i] < e[k - 1])
    BY <1>3
  <2> QED
    BY <2>1, <2>2
<1>4. j \in Good
  <2> HIDE DEF Good
  <2>1. \A k \in 0 .. n : k \in Good
    BY <1>2, <1>3, UpTo
  <2> QED
    BY <2>1
<1> QED
  BY <1>4

LEMMA BodyIsCut ==
  ASSUME NEW n \in Nat \ {0}, NEW ts, ts \in Seq(Seq(Token)), Len(ts) = n,
         NEW word, NEW e, NEW b, IsBody(b, ts, n, word, e), e[0] = 0 - 1
  PROVE  CutAt(b, TopLevel(b)) = ts
<1>1. /\ b \in Seq(Token) /\ Len(b) = e[n]
      /\ TopLevel(b) = {e[m] + 1 : m \in 1 .. n - 1}
  BY DEF IsBody
<1>2. ASSUME NEW m \in 1 .. n
      PROVE  /\ e[m - 1] + 1 \in Nat /\ e[m - 1] \in Int /\ Len(ts[m]) \in Nat
             /\ e[m] = e[m - 1] + 1 + Len(ts[m]) /\ e[m] <= e[n] /\ e[m] \in Nat
             /\ \A j \in 1 .. Len(ts[m]) : b[e[m - 1] + 1 + j] = ts[m][j]
  <2>1. \A k \in 1 .. n : IsMember(b, ts, k, e) /\ e[k] <= e[n]
    BY DEF IsBody
  <2>2. /\ e[m - 1] + 1 \in Nat /\ Len(ts[m]) \in Nat /\ e[m] = e[m - 1] + 1 + Len(ts[m])
        /\ \A j \in 1 .. Len(ts[m]) : b[e[m - 1] + 1 + j] = ts[m][j]
    BY <2>1 DEF IsMember
  <2>3. e[m - 1] \in Int
    <3>1. m - 1 = 0 \/ m - 1 \in 1 .. n
      OBVIOUS
    <3>2. CASE m - 1 \in 1 .. n
      <4>1. PICK k \in 1 .. n : k = m - 1
        BY <3>2
      <4>2. IsMember(b, ts, k, e)
        BY <2>1
      <4>3. e[k] \in Int
        BY <4>2 DEF IsMember
      <4> QED
        BY <4>1, <4>3
    <3>3. CASE m - 1 = 0
      BY <3>3
    <3> QED
      BY <3>1, <3>2, <3>3
  <2>4. PICK f \in Nat, l \in Nat : f = e[m - 1] + 1 /\ l = Len(ts[m]) /\ e[m] = f + l
    BY <2>2
  <2>5. e[m] \in Nat
    BY <2>4
  <2> QED
    BY <2>1, <2>2, <2>3, <2>5
<1> DEFINE c == [m \in 1 .. n - 1 |-> e[m] + 1]
<1>3. c \in Seq(Nat) /\ Len(c) = n - 1 /\ \A m \in 1 .. n - 1 : c[m] = e[m] + 1
  <2>0. n - 1 \in Nat /\ \A m \in 1 .. n - 1 : m \in 1 .. n
    OBVIOUS
  <2>1. \A m \in 1 .. n - 1 : e[m] + 1 \in Nat /\ c[m] = e[m] + 1
    BY <1>2, <2>0, SMTT(60)
  <2>2. c = [m \in 1 .. n - 1 |-> c[m]] /\ \A m \in 1 .. n - 1 : c[m] \in Nat
    BY <2>1
  <2> HIDE DEF c
  <2>3. c \in Seq(Nat) /\ Len(c) = n - 1
    <3>1. PICK h \in Nat : h = n - 1
      BY <2>0
    <3>2. c = [m \in 1 .. h |-> c[m]] /\ \A m \in 1 .. h : c[m] \in Nat
      BY <2>2, <3>1, Zenon
    <3>3. c \in Seq(Nat) /\ Len(c) = h
      BY <3>2, SeqFromTo
    <3> QED
      BY <3>1, <3>3
  <2> QED
    BY <2>1, <2>3
<1> HIDE DEF c
<1>4. Places(c) = TopLevel(b)
  <2>1. \A x : x \in Places(c) <=> \E m \in 1 .. n - 1 : x = c[m]
    BY <1>3 DEF Places
  <2>2. \A x : x \in TopLevel(b) <=> \E m \in 1 .. n - 1 : x = e[m] + 1
    BY <1>1
  <2>3. \A m \in 1 .. n - 1 : c[m] = e[m] + 1
    BY <1>3
  <2>4. \A x : (\E m \in 1 .. n - 1 : x = c[m]) <=> (\E m \in 1 .. n - 1 : x = e[m] + 1)
    BY <2>3, Zenon
  <2>5. ASSUME NEW x PROVE x \in Places(c) <=> x \in TopLevel(b)
    <3>1. x \in Places(c) <=> \E m \in 1 .. n - 1 : x = c[m]
      BY <2>1, Zenon
    <3>2. x \in TopLevel(b) <=> \E m \in 1 .. n - 1 : x = e[m] + 1
      BY <2>2, Zenon
    <3>3. (\E m \in 1 .. n - 1 : x = c[m]) <=> (\E m \in 1 .. n - 1 : x = e[m] + 1)
      BY <2>4, Zenon
    <3> QED
      BY <3>1, <3>2, <3>3, Zenon
  <2> QED
    BY <2>5, Zenon
<1>5. Ascending(c)
  <2>1. ASSUME NEW i \in 1 .. n - 1, NEW j \in 1 .. n - 1, i < j
        PROVE  c[i] < c[j]
    <3>1. i \in 1 .. n /\ j \in 1 .. n
      OBVIOUS
    <3>2. e[i] < e[j]
      BY <2>1, <3>1, EndsAscend
    <3>3. e[i] \in Nat /\ e[j] \in Nat
      BY <1>2, <3>1
    <3>4. c[i] = e[i] + 1 /\ c[j] = e[j] + 1
      BY <1>3, Zenon
    <3>5. e[i] + 1 < e[j] + 1
      BY <3>2, <3>3
    <3> QED
      BY <3>4, <3>5, Zenon
  <2> QED
    BY <1>3, <2>1 DEF Ascending
<1> DEFINE f(k) == Part(b, c, k)
           g(k) == ts[k]
<1>6. CutAt(b, Places(c)) = [k \in 1 .. n |-> f(k)]
  <2>1. CutAt(b, Places(c)) = [k \in 1 .. Len(c) + 1 |-> f(k)]
    BY <1>1, <1>3, <1>5, CutParts
  <2>2. Len(c) + 1 = n
    BY <1>3
  <2> HIDE DEF f
  <2> QED
    BY <2>1, <2>2
<1>7. ASSUME NEW k \in 1 .. n
      PROVE  f(k) = g(k)
  <2>1. PICK from \in Nat : from = e[k - 1] + 1
    BY <1>2
  <2>2. PICK t \in Seq(Token) : t = ts[k]
    BY ElementOfSeq
  <2>3. PICK l \in Nat : l = Len(t)
    BY LenProperties
  <2>4. PICK last \in Nat : last = e[k]
    BY <1>2
  <2>5. last = from + l /\ last <= Len(b) /\ \A j \in 1 .. l : b[from + j] = t[j]
    BY <1>1, <1>2, <2>1, <2>2, <2>3, <2>4
  <2>6. SubSeq(b, from + 1, from + l) = t
    BY <1>1, <2>3, <2>5, SliceIs
  <2>7. PartFrom(c, k) = from
    <3>1. CASE k = 1
      BY <2>1, <3>1 DEF PartFrom
    <3>2. CASE k # 1
      <4>1. k - 1 \in 1 .. n - 1
        BY <3>2
      <4>2. c[k - 1] = e[k - 1] + 1
        BY <1>3, <4>1
      <4> QED
        BY <2>1, <3>2, <4>2 DEF PartFrom
    <3> QED
      BY <3>1, <3>2
  <2>8. PartTo(b, c, k) = last + 1
    <3>1. CASE k = n
      <4>1. k = Len(c) + 1
        BY <1>3, <3>1
      <4> QED
        BY <1>1, <2>4, <3>1, <4>1 DEF PartTo
    <3>2. CASE k # n
      <4>1. k \in 1 .. n - 1 /\ k # Len(c) + 1
        BY <1>3, <3>2
      <4>2. c[k] = e[k] + 1
        BY <1>3, <4>1
      <4> QED
        BY <2>4, <4>1, <4>2 DEF PartTo
    <3> QED
      BY <3>1, <3>2
  <2>9. f(k) = SubSeq(b, from + 1, (last + 1) - 1)
    BY <2>7, <2>8 DEF Part
  <2>10. (last + 1) - 1 = from + l
    BY <2>5
  <2> QED
    BY <2>2, <2>6, <2>9, <2>10
<1>8. ts = [k \in 1 .. n |-> g(k)]
  BY LenProperties
<1> HIDE DEF f, g
<1>9. [k \in 1 .. n |-> f(k)] = [k \in 1 .. n |-> g(k)]
  BY <1>7
<1> QED
  BY <1>4, <1>6, <1>8, <1>9

IsList(s, n) == s = [k \in 1 .. n |-> s[k]]

LEMMA FlattenReads ==
  ASSUME NEW n \in Nat, NEW rs, NEW us, NEW obscure \in BOOLEAN, IsList(rs, n), IsList(us, n),
         \A k \in 1 .. n : ReadsAs(rs[k], us[k], obscure)
  PROVE  ReadsAs(FlattenSeq(rs), FlattenSeq(us), obscure)
<1>1. ASSUME NEW k \in 1 .. n
      PROVE  /\ rs[k] \in Seq(Ref) /\ us[k] \in Seq(Ref)
             /\ \A x : Has(rs[k], x) => Has(us[k], x)
             /\ ~ obscure => rs[k] = us[k]
  BY DEF ReadsAs
<1>2. rs \in Seq(Seq(Ref)) /\ Len(rs) = n
  <2>1. \A k \in 1 .. n : rs[k] \in Seq(Ref)
    BY <1>1
  <2> QED
    BY <2>1, SeqFromTo DEF IsList
<1>3. us \in Seq(Seq(Ref)) /\ Len(us) = n
  <2>1. \A k \in 1 .. n : us[k] \in Seq(Ref)
    BY <1>1
  <2> QED
    BY <2>1, SeqFromTo DEF IsList
<1>4. FlattenSeq(rs) \in Seq(Ref) /\ FlattenSeq(us) \in Seq(Ref)
  BY <1>2, <1>3, FlattenTyped
<1>5. ASSUME NEW x, Has(FlattenSeq(rs), x)
      PROVE  Has(FlattenSeq(us), x)
  <2>1. PICK k \in 1 .. n : Has(rs[k], x)
    BY <1>2, <1>5, FlattenHas
  <2>2. k \in 1 .. Len(us) /\ Has(us[k], x)
    BY <1>1, <1>3, <2>1
  <2> QED
    BY <1>3, <2>2, FlattenHas
<1>6. ASSUME ~ obscure
      PROVE  FlattenSeq(rs) = FlattenSeq(us)
  <2>1. \A k \in 1 .. n : rs[k] = us[k]
    BY <1>1, <1>6
  <2>2. rs = us
    BY <1>2, <1>3, <2>1, SeqEqual
  <2> QED
    BY <2>2
<1> QED
  BY <1>4, <1>5, <1>6 DEF ReadsAs

LEMMA AndIsSplit ==
  ASSUME NEW condition, NEW text, StripOuterParens(condition) = text,
         \A i \in TopLevel(text) : text[i] = Word("AND")
  PROVE  SplitConjuncts(condition) = CutAt(text, TopLevel(text))
<1>1. Word("AND") # Word("OR")
  BY Tags
<1>2. {i \in TopLevel(text) : text[i] = Word("AND")} = TopLevel(text)
  OBVIOUS
<1> QED
  BY <1>1, <1>2 DEF SplitConjuncts

LEMMA OrIsNotSplit ==
  ASSUME NEW condition, NEW text, StripOuterParens(condition) = text,
         \E i \in TopLevel(text) : text[i] = Word("OR")
  PROVE  ParseConditionColumns(condition) = <<>>
<1>1. SplitConjuncts(condition) = <<>>
  BY DEF SplitConjuncts
<1> DEFINE f(k) == ParseConjunct(<<>>[k])
<1>2. ParseConditionColumns(condition) = FlattenSeq([k \in 1 .. 0 |-> f(k)])
  <2>1. Len(<<>>) = 0
    OBVIOUS
  <2> QED
    BY <1>1, <2>1 DEF ParseConditionColumns
<1> HIDE DEF f
<1>3. [k \in 1 .. 0 |-> f(k)] = <<>>
  OBVIOUS
<1>4. <<>> \in Seq(Seq(Ref)) /\ Len(<<>>) = 0
  OBVIOUS
<1>5. PICK ss : ss = <<>>
  OBVIOUS
<1>6. ss \in Seq(Seq(Ref)) /\ Len(ss) = 0
  BY <1>5
<1>7. PICK h \in [0 .. Len(ss) -> Seq(Ref)] : RunsUp(ss, h) /\ FlattenSeq(ss) = h[Len(ss)]
  BY <1>6, Flattened
<1>8. FlattenSeq(ss) = <<>>
  BY <1>6, <1>7 DEF RunsUp
<1> QED
  BY <1>2, <1>3, <1>5, <1>8

LEMMA ConnectedCondition ==
  ASSUME NEW c \in Connected(ReadJuncts)
  PROVE  ReadsAs(ParseConditionColumns(Deparse(c)), Sargable(c), ObscureIn(TermsOf(c)))
<1>1. PICK js \in Seq(ReadJuncts) : c[1] \in {"and", "or"} /\ c[2] = js /\ Len(js) >= 2
  BY DEF Connected
<1>2. PICK n \in Nat \ {0} : n = Len(js) /\ n >= 2
  <2>1. PICK k \in Nat : k = Len(js)
    <3>1. Len(js) \in Nat
      BY LenProperties
    <3> QED
      BY <3>1, Zenon
  <2>2. k >= 2
    BY <1>1, <2>1, Zenon
  <2>3. k \in Nat \ {0}
    BY <2>2
  <2> QED
    BY <2>1, <2>2, <2>3, Zenon
<1>3. PICK word \in {"AND", "OR"} : word = Connective(c[1])
  BY DEF Connective
<1>4. \A i \in 1 .. n : js[i] \in ReadJuncts
  BY <1>2, ElementOfSeq
<1> DEFINE ts == [i \in 1 .. n |-> DeparseJunct(js[i])]
           us == [i \in 1 .. n |-> SargableJunct(js[i])]
           rs == [i \in 1 .. n |-> ParseConjunct(ts[i])]
<1>5. Deparse(c) = Joined(word, ts)
  BY <1>1, <1>2, <1>3 DEF Deparse
<1>6. /\ IsList(ts, n) /\ IsList(us, n) /\ IsList(rs, n)
      /\ \A i \in 1 .. n : us[i] = SargableJunct(js[i]) /\ rs[i] = ParseConjunct(ts[i])
  BY DEF IsList
<1>7. ASSUME NEW i \in 1 .. n
      PROVE  JunctReads(js[i], ts[i])
  <2>1. ts[i] = DeparseJunct(js[i])
    OBVIOUS
  <2> HIDE DEF ts
  <2> QED
    BY <1>4, <2>1, JunctText
<1>8. Sargable(c) = IF c[1] = "and" THEN FlattenSeq(us) ELSE <<>>
  BY <1>1, <1>2 DEF Sargable
<1> HIDE DEF ts, us
<1>9. ts \in Seq(Seq(Token)) /\ Len(ts) = n /\ \E b : IsJoined(b, ts, word)
  <2>1. \A i \in 1 .. n : Enclosed(ts[i])
    BY <1>7 DEF JunctReads
  <2> QED
    BY <1>6, <2>1, TextsJoined DEF IsList
<1>10. PICK b : IsJoined(b, ts, word)
  BY <1>9
<1>11. /\ b \in Seq(Token) /\ Balanced(b) /\ ParseConjunct(InParens(b)) = <<>>
       /\ (\A k \in 1 .. n : Clear(ts[k])) => Clear(b)
  BY <1>9, <1>10, JoinedRead
<1>12. PICK J : J = Deparse(c) /\ J = InParens(b)
  BY <1>5, <1>10 DEF IsJoined
<1>13. /\ J \in Seq(Token) /\ TopLevel(J) = {}
       /\ StripOuterParens(J) = b \/ (StripOuterParens(J) = J /\ ~ Clear(b))
  BY <1>11, <1>12, WrappedText DEF Enclosed
<1>14. PICK e : e[0] = 0 - 1 /\ IsBody(b, ts, n, word, e)
  BY <1>9, <1>10 DEF IsJoined
<1>15. /\ TopLevel(b) = {e[m] + 1 : m \in 1 .. n - 1}
       /\ \A i \in TopLevel(b) : b[i] = Word(word)
  BY <1>14 DEF IsBody
<1>16. PICK obscure \in BOOLEAN : obscure = ObscureIn(TermsOf(c))
  BY DEF ObscureIn
<1>17. ASSUME NEW i \in 1 .. n
       PROVE  /\ ObscureIn(TermsIn(js[i])) => obscure
              /\ ReadsAs(rs[i], us[i], obscure)
              /\ ~ obscure => Clear(ts[i])
  <2>1. TermsIn(js[i]) \subseteq TermsOf(c)
    <3>1. DOMAIN js = 1 .. n
      BY <1>2, LenProperties
    <3> QED
      BY <1>1, <3>1 DEF TermsOf
  <2>2. ObscureIn(TermsIn(js[i])) => obscure
    BY <1>16, <2>1 DEF ObscureIn
  <2>3. /\ ReadsAs(rs[i], us[i], ObscureIn(TermsIn(js[i])))
        /\ ~ ObscureIn(TermsIn(js[i])) => Clear(ts[i])
    BY <1>6, <1>7 DEF JunctReads
  <2> QED
    BY <2>2, <2>3 DEF ReadsAs
<1>18. ReadsAs(FlattenSeq(rs), FlattenSeq(us), obscure)
  <2>1. n \in Nat /\ \A k \in 1 .. n : ReadsAs(rs[k], us[k], obscure)
    BY <1>17
  <2> HIDE DEF rs
  <2> QED
    BY <1>6, <2>1, FlattenReads
<1>19. Sargable(c) \in Seq(Ref)
  <2>1. FlattenSeq(us) \in Seq(Ref)
    BY <1>18 DEF ReadsAs
  <2> QED
    BY <1>8, <2>1
<1>20. ReadsAs(ParseConditionColumns(J), Sargable(c), obscure)
  <2>1. CASE StripOuterParens(J) = J /\ ~ Clear(b)
    <3>1. obscure
      BY <1>11, <1>17, <2>1
    <3>2. ParseConjunct(J) = <<>> /\ <<>> \in Seq(Ref)
      BY <1>11, <1>12
    <3>3. ParseConditionColumns(J) = ParseConjunct(J)
      BY <1>13, <2>1, <3>2, OneConjunct
    <3>4. ParseConditionColumns(J) = <<>>
      BY <3>2, <3>3
    <3> QED
      BY <1>19, <3>1, <3>4 DEF ReadsAs, Has
  <2>2. CASE StripOuterParens(J) = b /\ word = "OR"
    <3>1. c[1] = "or"
      BY <1>1, <1>3, <2>2 DEF Connective
    <3>2. Sargable(c) = <<>>
      BY <1>8, <3>1
    <3>3. e[1] + 1 \in TopLevel(b)
      <4>1. 1 \in 1 .. n - 1
        BY <1>2
      <4> QED
        BY <1>15, <4>1
    <3>4. \E i \in TopLevel(b) : b[i] = Word("OR")
      BY <1>15, <2>2, <3>3
    <3>5. ParseConditionColumns(J) = <<>>
      BY <2>2, <3>4, OrIsNotSplit
    <3> QED
      BY <3>2, <3>5 DEF ReadsAs, Has
  <2>3. CASE StripOuterParens(J) = b /\ word = "AND"
    <3>1. c[1] = "and"
      BY <1>1, <1>3, <2>3 DEF Connective
    <3>2. SplitConjuncts(J) = CutAt(b, TopLevel(b))
      BY <1>15, <2>3, AndIsSplit
    <3>3. CutAt(b, TopLevel(b)) = ts
      BY <1>9, <1>14, BodyIsCut
    <3>4. ParseConditionColumns(J) = FlattenSeq(rs)
      BY <1>9, <3>2, <3>3 DEF ParseConditionColumns
    <3> HIDE DEF rs
    <3> QED
      BY <1>8, <1>18, <3>1, <3>4
  <2> QED
    BY <1>13, <2>1, <2>2, <2>3
<1> QED
  BY <1>12, <1>16, <1>20

\* The scanner reads every predicate truly that it does not misread.
LEMMA PredicateReadsTrue ==
  ASSUME NEW c \in Predicates
  PROVE  ReadsTrue(c)
<1> SUFFICES ASSUME c \in ReadPredicates
             PROVE  LET read == ParseConditionColumns(Deparse(c))
                        true == Sargable(c)
                    IN  /\ \A i \in DOMAIN read : \E j \in DOMAIN true : read[i] = true[j]
                        /\ (\A t \in TermsOf(c) : ~Obscure(t)) => read = true
  BY PredicateIsRead DEF ReadsTrue
<1>1. PICK read, true : read = ParseConditionColumns(Deparse(c)) /\ true = Sargable(c)
  OBVIOUS
<1>2. ReadsAs(read, true, ObscureIn(TermsOf(c)))
  <2>1. CASE c \in ReadAtoms
    <3>1. c[1] \notin {"and", "or"}
      BY <2>1, ReadTags
    <3>2. /\ Deparse(c) = DeparseAtom(c) /\ TermsOf(c) = Terms(c)
          /\ Sargable(c) = SargableAtom(c)
      BY <3>1 DEF Deparse, DeparseJunct, TermsOf, TermsIn, Sargable
    <3> QED
      BY <1>1, <2>1, <3>2, AtomCondition
  <2>2. CASE c \in Connected(ReadJuncts)
    BY <1>1, <2>2, ConnectedCondition
  <2> QED
    BY <2>1, <2>2 DEF ReadPredicates
<1>3. read \in Seq(Ref) /\ true \in Seq(Ref)
  BY <1>2 DEF ReadsAs
<1>4. ASSUME NEW i \in DOMAIN read
      PROVE  \E j \in DOMAIN true : read[i] = true[j]
  <2>1. DOMAIN read = 1 .. Len(read) /\ DOMAIN true = 1 .. Len(true)
    BY <1>3, LenProperties
  <2>2. Has(read, read[i])
    BY <1>4, <2>1 DEF Has
  <2>3. Has(true, read[i])
    BY <1>2, <2>2 DEF ReadsAs
  <2> QED
    BY <2>1, <2>3 DEF Has
<1>5. ASSUME \A t \in TermsOf(c) : ~ Obscure(t)
      PROVE  read = true
  BY <1>2, <1>5 DEF ReadsAs, ObscureIn
<1> QED
  BY <1>1, <1>4, <1>5

-----------------------------------------------------------------------------
(* The plan and its selections.                                            *)

\* A plan as ParseExplainPlan makes it of one that Postgres sent.
IsPlan(p) ==
    /\ IsFiniteSet(DOMAIN p) /\ DOMAIN p \subseteq Seq(Nat)
    /\ \A id \in DOMAIN p : {p[id].filter, p[id].hashCond, p[id].mergeCond, p[id].joinFilter}
                                \subseteq Predicates \cup {NoCondition}

\* The plan shown is one that Postgres sent, or none.
PlanFormed == IsPlan(plan)

ViewsFormed == DOMAIN views = {"tree", "diagram", "steps"} /\ views = [v \in DOMAIN views |-> views[v]]

\* What is asked of the server is a statement that was in the editor.
Asked(request) ==
    /\ {"statement", "analyze"} \subseteq DOMAIN request
    /\ request = [field \in DOMAIN request |-> request[field]]
    /\ request.statement \in Statements /\ request.analyze \in BOOLEAN

CallsAsked ==
    /\ editor.statement \in Statements
    /\ shown = NoPlanShown \/ Asked(shown)
    /\ call = NoCall \/ Asked(call)

ExplainInv == PlanFormed /\ ViewsFormed /\ CallsAsked

LEMMA PlansAreFormed ==
  ASSUME NEW s \in Statements, NEW analyze \in BOOLEAN, NEW p \in PlansFor[s.text][analyze]
  PROVE  IsPlan(p)
<1>1. s.text \in DOMAIN PlansOf
  BY PlansAssumption
<1>2. PICK raw \in PlansOf[s.text] : p = ParseExplainPlan(raw)
  BY <1>1 DEF PlansFor
<1>3. DOMAIN p = DOMAIN raw
  BY <1>2 DEF ParseExplainPlan
<1>4. IsPlanJson(raw)
  BY <1>2, PlansAssumption
<1>5. ASSUME NEW id \in DOMAIN p
      PROVE  {p[id].filter, p[id].hashCond, p[id].mergeCond, p[id].joinFilter}
                 \subseteq Predicates \cup {NoCondition}
  <2>1. p[id] = ParseNode(raw[id])
    BY <1>2, <1>3 DEF ParseExplainPlan
  <2>2. /\ p[id].filter = Field(raw[id], "Filter", NoCondition)
        /\ p[id].hashCond = Field(raw[id], "HashCond", NoCondition)
        /\ p[id].mergeCond = Field(raw[id], "MergeCond", NoCondition)
        /\ p[id].joinFilter = Field(raw[id], "JoinFilter", NoCondition)
    BY <2>1 DEF ParseNode
  <2>3. \A field \in ConditionFields :
           Field(raw[id], field, NoCondition) \in Predicates \cup {NoCondition}
    BY <1>3, <1>4 DEF IsPlanJson, Field
  <2> QED
    BY <2>2, <2>3 DEF ConditionFields
<1> QED
  BY <1>3, <1>4, <1>5 DEF IsPlanJson, IsPlan

LEMMA SentIsAsked ==
  ASSUME NEW op, NEW s \in Statements, NEW analyze \in BOOLEAN, NEW format, NEW text,
         CallsAsked, Send(op, s, analyze, format, text)
  PROVE  CallsAsked'
<1>1. Asked(call)'
  BY DEF Send, Asked
<1>2. editor' = editor /\ shown' = shown
  BY DEF Send
<1> QED
  BY <1>1, <1>2 DEF CallsAsked, Asked

LEMMA StatementsStayAsked ==
  ASSUME CallsAsked, StatementsNext
  PROVE  CallsAsked'
<1>1. CASE Run
  BY <1>1, SentIsAsked DEF Run, CallsAsked
<1>2. ASSUME NEW analyze \in BOOLEAN, RunExplain(analyze)
      PROVE  CallsAsked'
  BY <1>2, SentIsAsked DEF RunExplain, CallsAsked
<1>3. CASE ShowDiagram
  BY <1>3, SentIsAsked DEF ShowDiagram, CallsAsked, Asked
<1>4. CASE ExportPlanAsJson
  BY <1>4, SentIsAsked DEF ExportPlanAsJson, CallsAsked, Asked
<1>5. CASE Edit
  BY <1>5, DraftsAssumption DEF Edit, CallsAsked, Asked
<1>6. CASE ServerExecutes
  <2>1. call # NoCall /\ Asked(call)
    BY <1>6 DEF ServerExecutes, CallsAsked
  <2>2. PICK stage : call' = [call EXCEPT !.stage = stage]
    BY <1>6 DEF ServerExecutes
  <2>3. Asked(call)'
    BY <2>1, <2>2 DEF Asked
  <2> QED
    BY <1>6, <2>3 DEF ServerExecutes, CallsAsked, Asked
<1> QED
  BY <1>1, <1>2, <1>3, <1>4, <1>5, <1>6 DEF StatementsNext

LEMMA EndedIsAsked ==
  ASSUME CallsAsked, CallEnds
  PROVE  /\ CallsAsked'
         /\ call.statement \in Statements /\ call.analyze \in BOOLEAN
<1>1. call # NoCall /\ Asked(call)
  BY DEF CallEnds, CallsAsked
<1>2. shown' = shown \/ Asked(shown')
  <2>1. shown' = shown \/ shown' = [statement |-> call.statement, analyze |-> call.analyze]
    BY DEF CallEnds
  <2> QED
    BY <1>1, <2>1 DEF Asked
<1>3. CallsAsked'
  BY <1>2 DEF CallEnds, CallsAsked, Asked
<1> QED
  BY <1>1, <1>3 DEF Asked

\* After a click the three views point to one node.
Agreeing(v) ==
    v.diagram # NoId => v.steps = v.diagram /\ (Visible(v.diagram) => v.tree = v.diagram)

LEMMA ClickLeads ==
  ASSUME PlanFormed, ViewsFormed, NEW id \in DOMAIN plan,
         ClickTree(id) \/ ClickDiagram(id) \/ ClickStep(id)
  PROVE  ViewsFormed' /\ Agreeing(views')
<1>1. /\ id \in DiagramOf(plan).nodes /\ id \in TreeNodeById(plan)
      /\ id \in ToSet(PlanStepsRows(plan))
  BY PlanOrderIs DEF PlanFormed, IsPlan, DiagramOf, TreeNodeById, PlanStepsRows
<1>2. CASE ClickTree(id)
  BY <1>1, <1>2 DEF ClickTree, SelectInDiagram, SelectInSteps, ViewsFormed, Agreeing
<1>3. CASE ClickDiagram(id)
  BY <1>1, <1>3 DEF ClickDiagram, SelectInTree, SelectInSteps, ViewsFormed, Agreeing
<1>4. CASE ClickStep(id)
  BY <1>1, <1>4 DEF ClickStep, SelectInTree, SelectInDiagram, ViewsFormed, Agreeing
<1> QED
  BY <1>2, <1>3, <1>4

LEMMA ViewsLead ==
  ASSUME ExplainInv, ViewsNext
  PROVE  ExplainInv' /\ (views' # views => Agreeing(views'))
<1>1. PlanFormed' /\ CallsAsked'
  BY DEF ViewsNext, ExplainInv, PlanFormed, CallsAsked, Asked, advisor_vars, statement_vars
<1>2. ASSUME NEW id \in DOMAIN plan, ClickTree(id) \/ ClickDiagram(id) \/ ClickStep(id)
      PROVE  ViewsFormed' /\ Agreeing(views')
  BY <1>2, ClickLeads DEF ExplainInv
<1>3. ASSUME ClearDiagram
      PROVE  ViewsFormed' /\ Agreeing(views')
  BY <1>3 DEF ClearDiagram, ExplainInv, ViewsFormed, Agreeing
<1>4. ASSUME NEW id, Fold(id)
      PROVE  ViewsFormed' /\ views' = views
  BY <1>4 DEF Fold, ExplainInv, ViewsFormed
<1> QED
  BY <1>1, <1>2, <1>3, <1>4 DEF ViewsNext, ExplainInv

LEMMA ExplainStarts == InitExplain => ExplainInv
<1> SUFFICES ASSUME InitExplain PROVE ExplainInv
  OBVIOUS
<1>1. PlanFormed
  <2>1. plan = <<>> /\ DOMAIN <<>> = {}
    BY DEF InitExplain, InitAdvisor
  <2> QED
    BY <2>1, FS_EmptySet DEF PlanFormed, IsPlan
<1>2. ViewsFormed
  BY DEF InitExplain, Unselected, ViewsFormed
<1>3. CallsAsked
  BY DEF InitExplain, InitStatements, CallsAsked
<1> QED
  BY <1>1, <1>2, <1>3 DEF ExplainInv

LEMMA LandingKeeps ==
  ASSUME ExplainInv, CallLands
  PROVE  ExplainInv' /\ views' = views
<1>1. CallsAsked' /\ call.statement \in Statements /\ call.analyze \in BOOLEAN
  BY EndedIsAsked DEF CallLands, ExplainInv
<1>2. ViewsFormed' /\ views' = views
  BY DEF CallLands, view_vars, ExplainInv, ViewsFormed
<1>3. plan' = plan \/ \E p \in PlansFor[call.statement.text][call.analyze] : plan' = p
  BY DEF CallLands, PlanLands, advisor_vars
<1>4. PlanFormed'
  BY <1>1, <1>3, PlansAreFormed DEF ExplainInv, PlanFormed
<1> QED
  BY <1>1, <1>2, <1>4 DEF ExplainInv

LEMMA ExplainKeeps ==
  ASSUME ExplainInv, [ExplainNext]_explain_vars
  PROVE  ExplainInv' /\ (views' # views => Agreeing(views'))
<1>1. ASSUME StatementsNext, UNCHANGED <<advisor_vars, view_vars>>
      PROVE  ExplainInv' /\ views' = views
  BY <1>1, StatementsStayAsked DEF ExplainInv, PlanFormed, ViewsFormed, advisor_vars, view_vars
<1>2. CASE CallLands
  BY <1>2, LandingKeeps
<1>3. ASSUME AdvisorNext, UNCHANGED <<statement_vars, view_vars>>
      PROVE  ExplainInv' /\ views' = views
  <2>1. plan' = plan
    BY <1>3 DEF AdvisorNext, RequestStructures, StructureSettles, ShowDiagramTab, CreateIndex
  <2> QED
    BY <1>3, <2>1 DEF ExplainInv, PlanFormed, ViewsFormed, CallsAsked, Asked, statement_vars, view_vars
<1>4. CASE ViewsNext
  BY <1>4, ViewsLead
<1>5. ASSUME UNCHANGED explain_vars
      PROVE  ExplainInv' /\ views' = views
  BY <1>5 DEF explain_vars, advisor_vars, statement_vars, view_vars,
              ExplainInv, PlanFormed, ViewsFormed, CallsAsked, Asked
<1> QED
  BY <1>1, <1>2, <1>3, <1>4, <1>5 DEF ExplainNext

(***************************************************************************)
(* For any plan, whatever is clicked in the tree, the diagram or the steps,*)
(* and whatever rows are folded: the three views then point to one node    *)
(* (ExplainDiagramPanel.ts).  The steps table finds it because its rows    *)
(* are all the nodes of the plan, each in the place its path gives it.     *)
(***************************************************************************)
THEOREM SelectionsLead == ExplainSpec => SelectionAgrees
<1>1. ASSUME ExplainInv, [ExplainNext]_explain_vars
      PROVE  [views' # views /\ views'.diagram # NoId =>
                /\ views'.steps = views'.diagram
                /\ Visible(views'.diagram) => views'.tree = views'.diagram]_explain_vars
  BY <1>1, ExplainKeeps DEF Agreeing
<1>2. ExplainInv /\ [ExplainNext]_explain_vars => ExplainInv'
  BY ExplainKeeps
<1> QED
  BY <1>1, <1>2, ExplainStarts, PTL DEF ExplainSpec, SelectionAgrees

(***************************************************************************)
(* For any plan, of any conditions: of one that holds no operator written  *)
(* like a comparison and no special value (Misread), planPredicates.ts     *)
(* reads no column that it does not compare, nor with another role, and    *)
(* all those it does compare, in order, unless a literal of it holds a     *)
(* parenthesis, a type has several words or a name is quoted.  The others  *)
(* the code reads wrongly, and nothing is claimed of them.                 *)
(***************************************************************************)
THEOREM ConditionsReadTrue == ExplainSpec => []PredicatesReadTrue
<1>1. ExplainInv => PredicatesReadTrue
  <2> SUFFICES ASSUME ExplainInv, NEW c \in Conditions PROVE ReadsTrue(c)
    BY DEF PredicatesReadTrue
  <2>1. PICK id \in DOMAIN plan : c \in {plan[id].filter, JoinCondition(plan[id])} /\ c # NoCondition
    BY DEF Conditions
  <2>2. c \in {plan[id].filter, plan[id].hashCond, plan[id].mergeCond, plan[id].joinFilter}
    BY <2>1 DEF JoinCondition
  <2>3. c \in Predicates
    BY <2>1, <2>2 DEF ExplainInv, PlanFormed, IsPlan
  <2> QED
    BY <2>3, PredicateReadsTrue
<1>2. ExplainInv /\ [ExplainNext]_explain_vars => ExplainInv'
  BY ExplainKeeps
<1> QED
  BY <1>1, <1>2, ExplainStarts, PTL DEF ExplainSpec

=============================================================================
