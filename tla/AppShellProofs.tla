--------------------------- MODULE AppShellProofs ---------------------------
(***************************************************************************)
(* Theorems about AppShell, for any worlds, panels, roles and widths: the  *)
(* sidebar remembers, the inspector of roles is current, the address leads *)
(* back to the focused tab, and unsaved work is not unloaded unasked.      *)
(***************************************************************************)
EXTENDS AppShell, SequenceTheorems, FiniteSetTheorems, TLAPS

-----------------------------------------------------------------------------
(* The sidebar.                                                            *)

Flags == [1 .. 2 -> BOOLEAN]

\* The flags of this accordion, and no others, are its size.
LEMMA FlagsAreTwo ==
  /\ \A f \in Flags : f \in Seq(BOOLEAN) /\ readOpen(f) = f
  /\ \A f \in Seq(BOOLEAN) : readOpen(f) \in Flags
<1>1. Len(DefaultOpen) = 2 /\ DefaultOpen \in Seq(BOOLEAN) /\ DefaultOpen \in Flags
  <2>1. TRUE \in BOOLEAN
    OBVIOUS
  <2>2. ASSUME NEW b, b \in BOOLEAN
        PROVE  Len(<<b, b>>) = 2 /\ <<b, b>> \in Seq(BOOLEAN) /\ <<b, b>> \in [1 .. 2 -> BOOLEAN]
    BY <2>2
  <2> QED
    BY <2>1, <2>2, Zenon DEF Flags, DefaultOpen
<1>2. ASSUME NEW f \in Flags
      PROVE  f \in Seq(BOOLEAN) /\ Len(f) = 2
  <2>1. f \in [1 .. 2 -> BOOLEAN] /\ 2 \in Nat
    BY DEF Flags
  <2>2. f \in Seq(BOOLEAN)
    BY <2>1, SeqDef
  <2>3. DOMAIN f = 1 .. 2
    BY <2>1
  <2>4. Len(f) = 2
    BY <2>1, <2>2, <2>3, LenProperties
  <2> QED
    BY <2>2, <2>4
<1>3. ASSUME NEW f \in Seq(BOOLEAN), Len(f) = 2
      PROVE  f \in Flags
  BY <1>3 DEF Flags
<1> QED
  BY <1>1, <1>2, <1>3 DEF readOpen

BarAt(view, lit, collapsed) ==
    [active |-> view, page |-> view, lit |-> lit, collapsed |-> collapsed]

Pins(b, collapsed) == [b EXCEPT !.lit = NoView, !.collapsed = collapsed]

LEMMA PinsBar ==
  ASSUME NEW b, NEW view, NEW lit, NEW c, NEW collapsed, b = BarAt(view, lit, c)
  PROVE  Pins(b, collapsed) = BarAt(view, NoView, collapsed)
<1> DEFINE dark == [b EXCEPT !.lit = NoView]
<1>1. dark = BarAt(view, NoView, c)
  BY DEF BarAt
<1>2. Pins(b, collapsed) = [dark EXCEPT !.collapsed = collapsed]
  BY DEF Pins
<1> HIDE DEF dark
<1>3. [dark EXCEPT !.collapsed = collapsed] = BarAt(view, NoView, collapsed)
  BY <1>1 DEF BarAt
<1> QED
  BY <1>2, <1>3

\* How the parts of the sidebar fit together.
Width == IF bar.collapsed THEN pane.last ELSE pane.width

SidebarTypes ==
    /\ StoredLayout(layout)
    /\ bar = BarAt(bar.active, IF bar.collapsed THEN NoView ELSE bar.active,
                   bar.collapsed)
    /\ bar.collapsed \in BOOLEAN
    /\ pane \in [width : Nat, last : Nat, open : Flags, sections : Nat]
    /\ meant \in [width : Nat, kept : BOOLEAN]

\* The width to go back to is the user's, shown or not, and wider than the
\* rail; what is stored is what this page shows.
SidebarConsistent ==
    /\ SidebarTypes
    /\ meant.width # 0 => meant.width > Rail /\ Width = meant.width
    /\ meant.kept =>
           /\ meant.width # 0 => OpeningWidth = meant.width
           /\ readOpen(layout["database"].open) = pane.open
           /\ layout["database"].sizes = pane.sections

LEMMA SidebarConsistentSuffices == SidebarConsistent => SidebarRemembers
<1> SUFFICES ASSUME SidebarConsistent PROVE SidebarRemembers
  OBVIOUS
<1>1. /\ bar.page = bar.active
      /\ bar.lit = IF bar.collapsed THEN NoView ELSE bar.active
  BY DEF SidebarConsistent, SidebarTypes, BarAt
<1> QED
  BY <1>1 DEF SidebarConsistent, SidebarRemembers, Width

LEMMA FreshSidebar ==
  ASSUME StoredLayout(layout)
  PROVE  /\ FreshPane \in [width : Nat, last : Nat, open : Flags, sections : Nat]
         /\ OpeningWidth \in Nat /\ OpeningWidth > Rail
<1>1. layout \in [Sites -> [sizes : Nat, open : Seq(BOOLEAN)]]
  BY DEF StoredLayout, Layouts
<1>2. /\ layout["shell"].sizes \in Nat /\ layout["database"].sizes \in Nat
      /\ layout["database"].open \in Seq(BOOLEAN)
  BY <1>1 DEF Sites
<1>3. OpeningWidth \in Nat /\ OpeningWidth > Rail
  BY <1>2, SidebarAssumption DEF OpeningWidth, StoredLayout, Absent
<1>4. readOpen(layout["database"].open) \in Flags
  BY <1>2, FlagsAreTwo
<1>5. FreshPane \in [width : Nat, last : Nat, open : Flags, sections : Nat]
  BY <1>2, <1>3, <1>4, SidebarAssumption DEF FreshPane
<1> QED
  BY <1>3, <1>5

\* A new page, over what the last one stored.
LEMMA SidebarFresh ==
  ASSUME SidebarTypes, bar' = FreshBar, pane' = FreshPane, layout' = layout,
         meant' = [width |-> OpeningWidth, kept |-> TRUE]
  PROVE  SidebarConsistent'
<1>1. StoredLayout(layout)
  BY DEF SidebarTypes
<1>2. /\ FreshPane \in [width : Nat, last : Nat, open : Flags, sections : Nat]
      /\ OpeningWidth \in Nat /\ OpeningWidth > Rail
  BY <1>1, FreshSidebar
<1>3. StoredLayout(layout)' /\ OpeningWidth' = OpeningWidth
  BY <1>1 DEF StoredLayout, OpeningWidth
<1>4. bar'.collapsed = FALSE /\ FALSE \in BOOLEAN /\ TRUE \in BOOLEAN
  BY DEF FreshBar
<1>5. meant' \in [width : Nat, kept : BOOLEAN]
  BY <1>2, <1>4, Zenon
<1>6. SidebarTypes'
  BY <1>2, <1>3, <1>4, <1>5 DEF SidebarTypes, FreshBar, BarAt
<1>7. Width' = OpeningWidth
  BY <1>4 DEF Width, FreshPane
<1>8. /\ readOpen(layout["database"].open)' = pane'.open
      /\ layout'["database"].sizes = pane'.sections
  BY DEF FreshPane, readOpen
<1> QED
  BY <1>2, <1>3, <1>6, <1>7, <1>8 DEF SidebarConsistent

\* The bar expands over a view: the width is the one to go back to.
LEMMA ShowsView ==
  ASSUME SidebarConsistent, NEW view, showView(view), UNCHANGED <<layout, meant>>
  PROVE  SidebarConsistent'
<1>1. bar' = BarAt(view, view, FALSE) /\ bar'.active = view /\ bar'.collapsed = FALSE
  BY DEF showView, BarAt
<1>2. pane' = IF bar.collapsed THEN [pane EXCEPT !.width = pane.last] ELSE pane
  BY DEF showView, Unpinned
<1>3. pane' \in [width : Nat, last : Nat, open : Flags, sections : Nat]
      /\ pane'.open = pane.open /\ pane'.sections = pane.sections
      /\ pane'.width = Width
  BY <1>2 DEF SidebarConsistent, SidebarTypes, Width
<1>4. Width' = Width
  BY <1>1, <1>3 DEF Width
<1>5. SidebarTypes'
  <2>1. bar'.collapsed = FALSE /\ FALSE \in BOOLEAN
    BY <1>1
  <2>2. StoredLayout(layout)' /\ meant' \in [width : Nat, kept : BOOLEAN]
    BY DEF SidebarConsistent, SidebarTypes, StoredLayout
  <2> QED
    BY <1>1, <1>3, <2>1, <2>2 DEF SidebarTypes
<1> QED
  BY <1>3, <1>4, <1>5 DEF SidebarConsistent, OpeningWidth

\* It collapses to the rail, and keeps a width wider than that.
LEMMA Collapses ==
  ASSUME SidebarConsistent, collapse, UNCHANGED <<layout, meant>>
  PROVE  SidebarConsistent'
<1>1. PICK yes : yes = TRUE /\ bar' = BarAt(bar.active, NoView, yes)
  <2>1. PICK l, c : bar = BarAt(bar.active, l, c)
    BY DEF SidebarConsistent, SidebarTypes
  <2>2. PICK yes : yes = TRUE /\ bar' = Pins(bar, yes)
    BY DEF collapse, Pins
  <2>3. Pins(bar, yes) = BarAt(bar.active, NoView, yes)
    BY <2>1, PinsBar
  <2>4. bar' = BarAt(bar.active, NoView, yes)
    BY <2>2, <2>3
  <2> QED
    BY <2>2, <2>3
<1>2. pane' = IF bar.collapsed THEN pane
              ELSE [pane EXCEPT !.last = IF pane.width > Rail THEN pane.width ELSE pane.last,
                                !.width = Rail]
  BY DEF collapse, Pinned
<1>3. pane' \in [width : Nat, last : Nat, open : Flags, sections : Nat]
      /\ pane'.open = pane.open /\ pane'.sections = pane.sections
      /\ pane'.last = IF ~ bar.collapsed /\ pane.width > Rail THEN pane.width ELSE pane.last
  BY <1>2, SidebarAssumption DEF SidebarConsistent, SidebarTypes
<1>4. meant.width # 0 => Width' = meant.width
  BY <1>1, <1>3 DEF Width, SidebarConsistent, BarAt
<1>5. SidebarTypes'
  <2>1. /\ bar'.collapsed = TRUE /\ TRUE \in BOOLEAN
        /\ bar'.active = bar.active
    BY <1>1 DEF BarAt
  <2>2. StoredLayout(layout)' /\ meant' \in [width : Nat, kept : BOOLEAN]
    BY DEF SidebarConsistent, SidebarTypes, StoredLayout
  <2> QED
    BY <1>1, <1>3, <2>1, <2>2 DEF SidebarTypes
<1> QED
  BY <1>3, <1>4, <1>5 DEF SidebarConsistent, OpeningWidth

LEMMA LayoutFacts ==
  ASSUME StoredLayout(layout)
  PROVE  /\ layout \in [Sites -> [sizes : Nat, open : Seq(BOOLEAN)]]
         /\ DOMAIN layout = Sites
         /\ "shell" \in Sites /\ "database" \in Sites
         /\ layout["shell"] \in [sizes : Nat, open : Seq(BOOLEAN)]
         /\ layout["database"] \in [sizes : Nat, open : Seq(BOOLEAN)]
  BY DEF StoredLayout, Layouts, Sites

\* The gutter: a width of the rail is none to remember.
LEMMA Drags ==
  ASSUME SidebarConsistent, NEW width \in Widths, Drag(width)
  PROVE  SidebarConsistent'
<1> DEFINE w == IF bar.collapsed THEN Rail ELSE width
<1>1. w \in Nat /\ Rail \in Nat /\ (bar.collapsed => w = Rail)
  BY SidebarAssumption
<1>2. /\ bar' = bar /\ pane' = [pane EXCEPT !.width = w]
      /\ layout' = IF w > Rail THEN [layout EXCEPT !["shell"].sizes = w] ELSE layout
      /\ meant' = IF bar.collapsed THEN meant
                  ELSE IF w > Rail THEN [meant EXCEPT !.width = w]
                  ELSE [meant EXCEPT !.width = 0]
  <2>1. bar' = bar /\ pane' = [pane EXCEPT !.width = w]
    BY DEF Drag
  <2>2. layout' = IF w > Rail THEN [layout EXCEPT !["shell"]["sizes"] = w] ELSE layout
    BY DEF Drag, Stored
  <2>3. bar.collapsed => ~ (w > Rail)
    BY <1>1
  <2>4. meant' = IF bar.collapsed THEN meant
                 ELSE IF w > Rail THEN [meant EXCEPT !.width = w]
                 ELSE [meant EXCEPT !.width = 0]
    BY <2>3 DEF Drag
  <2> QED
    BY <2>1, <2>2, <2>4
<1> HIDE DEF w
<1>3. /\ pane \in [width : Nat, last : Nat, open : Flags, sections : Nat]
      /\ meant \in [width : Nat, kept : BOOLEAN]
      /\ StoredLayout(layout)
  BY DEF SidebarConsistent, SidebarTypes
<1>4. /\ layout \in [Sites -> [sizes : Nat, open : Seq(BOOLEAN)]]
      /\ "shell" \in Sites /\ "database" \in Sites
      /\ layout["shell"] \in [sizes : Nat, open : Seq(BOOLEAN)]
  BY <1>3, LayoutFacts
<1>5. /\ pane' \in [width : Nat, last : Nat, open : Flags, sections : Nat]
      /\ pane'.open = pane.open /\ pane'.sections = pane.sections
      /\ pane'.last = pane.last /\ pane'.width = w
  BY <1>1, <1>2, <1>3
<1>6. meant' \in [width : Nat, kept : BOOLEAN] /\ meant'.kept = meant.kept
  BY <1>1, <1>2, <1>3
<1>7. /\ layout' \in [Sites -> [sizes : Nat, open : Seq(BOOLEAN)]]
      /\ layout'["database"] = layout["database"]
      /\ layout'["shell"].sizes = IF w > Rail THEN w ELSE layout["shell"].sizes
  <2>1. CASE w > Rail
    <3>1. [layout["shell"] EXCEPT !.sizes = w] \in [sizes : Nat, open : Seq(BOOLEAN)]
          /\ [layout["shell"] EXCEPT !.sizes = w].sizes = w
      BY <1>1, <1>4
    <3>2. layout' = [layout EXCEPT !["shell"] = [layout["shell"] EXCEPT !.sizes = w]]
      BY <1>2, <2>1
    <3>3. "database" # "shell"
      OBVIOUS
    <3> QED
      BY <1>4, <2>1, <3>1, <3>2, <3>3
  <2>2. CASE ~ (w > Rail)
    BY <1>2, <1>4, <2>2
  <2> QED
    BY <2>1, <2>2
<1>8. StoredLayout(layout)'
  BY <1>1, <1>3, <1>7 DEF StoredLayout, Layouts, Absent
<1>9. SidebarTypes'
  BY <1>2, <1>5, <1>6, <1>8 DEF SidebarTypes, SidebarConsistent
<1>10. meant'.width # 0 => meant'.width > Rail /\ Width' = meant'.width
  <2>1. CASE bar.collapsed
    <3>1. Width' = pane.last /\ Width = pane.last /\ meant' = meant
      BY <1>2, <1>5, <2>1 DEF Width
    <3> QED
      BY <3>1 DEF SidebarConsistent
  <2>2. CASE ~ bar.collapsed
    <3>1. Width' = w /\ meant'.width = IF w > Rail THEN w ELSE 0
      BY <1>2, <1>3, <1>5, <2>2 DEF Width
    <3> QED
      BY <1>1, <3>1
  <2> QED
    BY <2>1, <2>2
<1>11. meant'.kept /\ meant'.width # 0 => OpeningWidth' = meant'.width
  <2>1. CASE w > Rail
    <3>1. ~ bar.collapsed
      BY <1>1, <2>1
    <3>2. meant'.width = w /\ layout'["shell"].sizes = w /\ w # 0
      BY <1>1, <1>2, <1>3, <1>7, <2>1, <3>1
    <3> QED
      BY <3>2 DEF OpeningWidth, Absent
  <2>2. CASE ~ (w > Rail)
    <3>1. layout' = layout /\ (meant' = meant \/ meant'.width = 0)
      BY <1>2, <1>3, <2>2
    <3> QED
      BY <3>1 DEF SidebarConsistent, OpeningWidth
  <2> QED
    BY <2>1, <2>2
<1> QED
  BY <1>5, <1>6, <1>7, <1>9, <1>10, <1>11 DEF SidebarConsistent

\* A section opens or closes: the flags are stored whole.
LEMMA TogglesSection ==
  ASSUME SidebarConsistent, NEW i \in DOMAIN DefaultOpen, ToggleSection(i)
  PROVE  SidebarConsistent'
<1> DEFINE stored == readOpen(layout["database"].open)
           flags == [stored EXCEPT ![i] = ~ pane.open[i]]
<1>1. i \in 1 .. 2
  <2>1. DOMAIN DefaultOpen = 1 .. 2
    BY DEF DefaultOpen
  <2> QED
    BY <2>1
<1>2. /\ bar' = bar /\ meant' = meant
      /\ pane' = [pane EXCEPT !.open[i] = ~ pane.open[i]]
      /\ layout' = [layout EXCEPT !["database"]["open"] = flags]
  BY DEF ToggleSection, Stored
<1>3. /\ pane \in [width : Nat, last : Nat, open : Flags, sections : Nat]
      /\ meant \in [width : Nat, kept : BOOLEAN]
      /\ StoredLayout(layout)
  BY DEF SidebarConsistent, SidebarTypes
<1>4. /\ layout \in [Sites -> [sizes : Nat, open : Seq(BOOLEAN)]]
      /\ "shell" \in Sites /\ "database" \in Sites
      /\ layout["database"] \in [sizes : Nat, open : Seq(BOOLEAN)]
  BY <1>3, LayoutFacts
<1>5. stored \in Flags
  BY <1>4, FlagsAreTwo
<1> DEFINE other == ~ pane.open[i]
<1>6. other \in BOOLEAN
  OBVIOUS
<1>7. flags = [stored EXCEPT ![i] = other]
      /\ pane'.open = [pane.open EXCEPT ![i] = other]
  BY <1>2, <1>3
<1> HIDE DEF stored, other
<1>8. flags \in Flags /\ pane'.open \in Flags
  BY <1>1, <1>3, <1>5, <1>6, <1>7 DEF Flags
<1>9. flags \in Seq(BOOLEAN) /\ readOpen(flags) = flags
  BY <1>8, FlagsAreTwo
<1> HIDE DEF flags
<1>10. /\ pane' \in [width : Nat, last : Nat, open : Flags, sections : Nat]
       /\ pane'.width = pane.width /\ pane'.last = pane.last
       /\ pane'.sections = pane.sections
  <2>1. PICK opens : opens = pane'.open /\ pane' = [pane EXCEPT !.open = opens]
    BY <1>2, <1>7
  <2> QED
    BY <1>3, <1>8, <2>1
<1>11. /\ layout' \in [Sites -> [sizes : Nat, open : Seq(BOOLEAN)]]
       /\ layout'["shell"] = layout["shell"]
       /\ layout'["database"].sizes = layout["database"].sizes
       /\ layout'["database"].open = flags
  <2>1. /\ [layout["database"] EXCEPT !.open = flags] \in [sizes : Nat, open : Seq(BOOLEAN)]
        /\ [layout["database"] EXCEPT !.open = flags].open = flags
        /\ [layout["database"] EXCEPT !.open = flags].sizes = layout["database"].sizes
    BY <1>4, <1>9
  <2>2. layout' = [layout EXCEPT !["database"] = [layout["database"] EXCEPT !.open = flags]]
    BY <1>2
  <2>3. "database" # "shell"
    OBVIOUS
  <2> QED
    BY <1>4, <2>1, <2>2, <2>3
<1>12. SidebarTypes'
  <2>1. StoredLayout(layout)'
    BY <1>3, <1>11 DEF StoredLayout, Layouts
  <2> QED
    BY <1>2, <1>3, <1>10, <2>1 DEF SidebarTypes, SidebarConsistent
<1>13. Width' = Width /\ OpeningWidth' = OpeningWidth
  BY <1>2, <1>10, <1>11 DEF Width, OpeningWidth
<1>14. meant.kept => stored = pane.open
  BY DEF SidebarConsistent, stored
<1>15. meant'.kept => readOpen(layout'["database"].open) = pane'.open
  BY <1>2, <1>7, <1>9, <1>11, <1>14
<1> QED
  BY <1>2, <1>10, <1>11, <1>12, <1>13, <1>15 DEF SidebarConsistent, readOpen

LEMMA ResizesSections ==
  ASSUME SidebarConsistent, NEW size \in Widths, ResizeSections(size)
  PROVE  SidebarConsistent'
<1>1. /\ bar' = bar /\ meant' = meant
      /\ pane' = [pane EXCEPT !.sections = size]
      /\ layout' = [layout EXCEPT !["database"]["sizes"] = size]
      /\ size \in Nat
  BY SidebarAssumption DEF ResizeSections, Stored
<1>2. /\ pane \in [width : Nat, last : Nat, open : Flags, sections : Nat]
      /\ meant \in [width : Nat, kept : BOOLEAN]
      /\ StoredLayout(layout)
  BY DEF SidebarConsistent, SidebarTypes
<1>3. /\ layout \in [Sites -> [sizes : Nat, open : Seq(BOOLEAN)]]
      /\ "shell" \in Sites /\ "database" \in Sites
      /\ layout["database"] \in [sizes : Nat, open : Seq(BOOLEAN)]
  BY <1>2, LayoutFacts
<1>4. /\ pane' \in [width : Nat, last : Nat, open : Flags, sections : Nat]
      /\ pane'.width = pane.width /\ pane'.last = pane.last
      /\ pane'.open = pane.open /\ pane'.sections = size
  BY <1>1, <1>2
<1>5. /\ layout' \in [Sites -> [sizes : Nat, open : Seq(BOOLEAN)]]
      /\ layout'["shell"] = layout["shell"]
      /\ layout'["database"].sizes = size
      /\ layout'["database"].open = layout["database"].open
  <2>1. /\ [layout["database"] EXCEPT !.sizes = size] \in [sizes : Nat, open : Seq(BOOLEAN)]
        /\ [layout["database"] EXCEPT !.sizes = size].sizes = size
        /\ [layout["database"] EXCEPT !.sizes = size].open = layout["database"].open
    BY <1>1, <1>3
  <2>2. layout' = [layout EXCEPT !["database"] = [layout["database"] EXCEPT !.sizes = size]]
    BY <1>1
  <2>3. "database" # "shell"
    OBVIOUS
  <2> QED
    BY <1>3, <2>1, <2>2, <2>3
<1>6. SidebarTypes'
  <2>1. StoredLayout(layout)'
    BY <1>2, <1>5 DEF StoredLayout, Layouts
  <2> QED
    BY <1>1, <1>2, <1>4, <2>1 DEF SidebarTypes, SidebarConsistent
<1>7. Width' = Width /\ OpeningWidth' = OpeningWidth
  BY <1>1, <1>4, <1>5 DEF Width, OpeningWidth
<1> QED
  BY <1>1, <1>4, <1>5, <1>6, <1>7 DEF SidebarConsistent, readOpen

Moves(b, view, lit) == [b EXCEPT !.active = view, !.page = view, !.lit = lit]

LEMMA MovesBar ==
  ASSUME NEW b, NEW v, NEW l, NEW c, NEW view, NEW lit, b = BarAt(v, l, c)
  PROVE  Moves(b, view, lit) = BarAt(view, lit, c)
<1> DEFINE there == [b EXCEPT !.active = view]
           shown == [there EXCEPT !.page = view]
<1>1. there = [active |-> view, page |-> v, lit |-> l, collapsed |-> c]
  BY DEF BarAt
<1>2. Moves(b, view, lit) = [shown EXCEPT !.lit = lit]
  BY DEF Moves
<1> HIDE DEF there
<1>3. shown = [active |-> view, page |-> view, lit |-> l, collapsed |-> c]
  BY <1>1
<1> HIDE DEF shown
<1>4. [shown EXCEPT !.lit = lit] = BarAt(view, lit, c)
  BY <1>3 DEF BarAt
<1> QED
  BY <1>2, <1>4

\* A reveal brings a view forward and leaves a collapsed bar collapsed.
LEMMA RevealsView ==
  ASSUME SidebarConsistent, NEW view, bar' = revealView(bar, view),
         UNCHANGED <<pane, layout, meant>>
  PROVE  SidebarConsistent'
<1>1. bar = BarAt(bar.active, IF bar.collapsed THEN NoView ELSE bar.active, bar.collapsed)
  BY DEF SidebarConsistent, SidebarTypes
<1>2. /\ bar'.active = view /\ bar'.collapsed = bar.collapsed
      /\ bar' = BarAt(view, IF bar.collapsed THEN NoView ELSE view, bar.collapsed)
  <2>1. PICK l, c : bar = BarAt(bar.active, l, c) /\ c = bar.collapsed
    BY <1>1
  <2>2. PICK m : /\ m = IF bar.collapsed THEN NoView ELSE view
                 /\ bar' = Moves(bar, view, m)
    <3>1. bar.lit = IF bar.collapsed THEN NoView ELSE bar.active
      BY <1>1 DEF BarAt
    <3>2. PICK m : m = IF bar.collapsed THEN bar.lit ELSE view
      OBVIOUS
    <3>3. bar' = Moves(bar, view, m)
      BY <3>2 DEF revealView, Moves
    <3> QED
      BY <3>1, <3>2, <3>3
  <2>3. Moves(bar, view, m) = BarAt(view, m, c)
    BY <2>1, MovesBar
  <2>4. bar' = BarAt(view, m, c)
    BY <2>2, <2>3
  <2>5. bar'.active = view /\ bar'.collapsed = c
    BY <2>4 DEF BarAt
  <2> QED
    BY <2>1, <2>2, <2>4, <2>5
<1> QED
  BY <1>2 DEF SidebarConsistent, SidebarTypes, StoredLayout, Width, OpeningWidth, readOpen

\* The user has cleared what the browser stored.
LEMMA ForgetsLayout ==
  ASSUME SidebarConsistent, layout' = EmptyLayout,
         meant' = [meant EXCEPT !.kept = FALSE], UNCHANGED <<bar, pane>>
  PROVE  SidebarConsistent'
<1>1. meant'.width = meant.width /\ meant'.kept = FALSE
      /\ meant' \in [width : Nat, kept : BOOLEAN]
  <2>1. PICK no : no = FALSE /\ no \in BOOLEAN
    OBVIOUS
  <2>2. meant' = [meant EXCEPT !.kept = no] /\ meant \in [width : Nat, kept : BOOLEAN]
    BY <2>1 DEF SidebarConsistent, SidebarTypes
  <2> QED
    BY <2>1, <2>2
<1>2. StoredLayout(layout)'
  <2>1. <<>> \in Seq(BOOLEAN)
    OBVIOUS
  <2>2. EmptyBlob \in [sizes : Nat, open : Seq(BOOLEAN)] /\ EmptyBlob.sizes = Absent
    BY <2>1 DEF EmptyBlob, Absent
  <2>3. EmptyLayout \in Layouts /\ EmptyLayout["shell"] = EmptyBlob
    BY <2>2 DEF EmptyLayout, Layouts, Sites
  <2> QED
    BY <2>2, <2>3 DEF StoredLayout
<1>3. Width' = Width
  BY DEF Width
<1> QED
  BY <1>1, <1>2, <1>3 DEF SidebarConsistent, SidebarTypes

\* Before the shell is there, so is no bar but a new one.
SidebarInv == SidebarConsistent /\ (phase # "app" => bar = FreshBar)

LEMMA InitSidebar == Init => SidebarInv
<1> SUFFICES ASSUME Init PROVE SidebarInv
  OBVIOUS
<1>1. /\ StoredLayout(layout) /\ bar = FreshBar /\ pane = FreshPane
      /\ meant = [width |-> OpeningWidth, kept |-> TRUE]
  BY WorldsAssumption DEF Init
<1>2. /\ FreshPane \in [width : Nat, last : Nat, open : Flags, sections : Nat]
      /\ OpeningWidth \in Nat /\ OpeningWidth > Rail
  BY <1>1, FreshSidebar
<1>3. bar.collapsed = FALSE /\ FALSE \in BOOLEAN /\ TRUE \in BOOLEAN
  BY <1>1 DEF FreshBar
<1>4. meant \in [width : Nat, kept : BOOLEAN]
  BY <1>1, <1>2, <1>3, Zenon
<1>5. SidebarTypes
  BY <1>1, <1>2, <1>3, <1>4 DEF SidebarTypes, FreshBar, BarAt
<1>6. Width = OpeningWidth
  BY <1>1, <1>3 DEF Width, FreshPane
<1> QED
  BY <1>1, <1>2, <1>5, <1>6 DEF SidebarInv, SidebarConsistent, FreshPane

LEMMA SidebarStays ==
  ASSUME SidebarConsistent, UNCHANGED sidebar_vars
  PROVE  SidebarConsistent'
  BY DEF sidebar_vars, SidebarConsistent, SidebarTypes, StoredLayout, Width, OpeningWidth, readOpen

LEMMA UsesSidebar ==
  ASSUME SidebarConsistent, UseSidebar
  PROVE  SidebarConsistent'
<1>1. ASSUME NEW view \in Views, RailClick(view)
      PROVE  SidebarConsistent'
  BY <1>1, Collapses, ShowsView DEF RailClick
<1>2. ASSUME NEW view \in Views, selectView(view)
      PROVE  SidebarConsistent'
  BY <1>2, ShowsView DEF selectView
<1>3. CASE toggleCollapsed
  BY <1>3, Collapses, ShowsView DEF toggleCollapsed
<1>4. ASSUME NEW width \in Widths, Drag(width)
      PROVE  SidebarConsistent'
  BY <1>4, Drags
<1>5. ASSUME NEW i \in DOMAIN DefaultOpen, ToggleSection(i)
      PROVE  SidebarConsistent'
  BY <1>5, TogglesSection
<1>6. ASSUME NEW width \in Widths, ResizeSections(width)
      PROVE  SidebarConsistent'
  BY <1>6, ResizesSections
<1> QED
  BY <1>1, <1>2, <1>3, <1>4, <1>5, <1>6 DEF UseSidebar

\* The page is built over a new bar, which the address may turn to a view.
LEMMA StartsSidebar ==
  ASSUME SidebarInv, phase # "app", phase' = "app", Starts
  PROVE  SidebarInv'
<1>1. SidebarConsistent /\ bar = FreshBar /\ UNCHANGED <<pane, layout, meant>>
  BY DEF SidebarInv, Starts
<1>2. PICK view : bar' = FreshBar \/ bar' = revealView(FreshBar, view)
  BY DEF Starts
<1>3. SidebarConsistent'
  BY <1>1, <1>2, SidebarStays, RevealsView DEF sidebar_vars
<1> QED
  BY <1>3 DEF SidebarInv

LEMMA UnloadsSidebar ==
  ASSUME SidebarInv, Unloads
  PROVE  SidebarInv'
<1>1. /\ bar' = FreshBar /\ pane' = FreshPane /\ layout' = layout
      /\ meant' = [width |-> OpeningWidth, kept |-> TRUE]
  BY DEF Unloads, FreshPage
<1>2. SidebarConsistent'
  BY <1>1, SidebarFresh DEF SidebarInv, SidebarConsistent
<1> QED
  BY <1>1, <1>2 DEF SidebarInv

LEMMA NextSidebar == SidebarInv /\ [Next]_vars => SidebarInv'
<1> SUFFICES ASSUME SidebarInv, [Next]_vars PROVE SidebarInv'
  OBVIOUS
<1> USE DEF SidebarInv
<1>1. ASSUME UNCHANGED sidebar_vars, phase' = phase \/ phase # "app"
      PROVE  SidebarInv'
  <2>1. SidebarConsistent'
    BY <1>1, SidebarStays
  <2> QED
    BY <1>1, <2>1 DEF sidebar_vars
<1>2. ASSUME NEW p \in Panels[area], Open(p) \/ Follow(p) \/ FollowGrant(p)
      PROVE  SidebarInv'
  <2>1. CASE Open(p)
    BY <1>1, <2>1 DEF Open, OnlyTabs, login_vars
  <2>2. CASE Follow(p) \/ FollowGrant(p)
    <3>1. bar' = revealView(bar, "database") /\ UNCHANGED <<pane, layout, meant>>
      BY <2>2 DEF Follow, FollowGrant
    <3>2. phase = "app" /\ phase' = phase
      BY <2>2 DEF Follow, FollowGrant, Acts, InApp, login_vars
    <3> QED
      BY <3>1, <3>2, RevealsView
  <2> QED
    BY <1>2, <2>1, <2>2
<1>3. CASE \/ \E role \in Roles : Preview(role)
           \/ \E id \in DOMAIN tabs : Run(id) \/ FocusTab(id) \/ CloseTab(id) \/ Edit(id)
           \/ NewQuery \/ RunEnds \/ SearchEnds \/ CallLands
  <2>1. UNCHANGED sidebar_vars /\ phase' = phase
    BY <1>3 DEF Preview, Run, FocusTab, CloseTab, Edit, NewQuery, RunEnds, SearchEnds, CallLands,
                OnlyTabs, login_vars
  <2> QED
    BY <1>1, <2>1
<1>4. CASE UseSidebar
  <2>1. phase = "app" /\ phase' = phase
    BY <1>4 DEF UseSidebar, Acts, InApp, OnlySidebar, login_vars
  <2> QED
    BY <1>4, <2>1, UsesSidebar
<1>5. CASE ClearData
  <2>1. phase = "app" /\ phase' = phase
    BY <1>5 DEF ClearData, Acts, InApp, login_vars
  <2> QED
    BY <1>5, <2>1, ForgetsLayout DEF ClearData
<1>6. CASE BootRecovers \/ SignedIn
  <2>1. phase # "app" /\ phase' = "app" /\ Starts
    BY <1>6 DEF BootRecovers, SignedIn, LoginSucceeds
  <2> QED
    BY <2>1, StartsSidebar
<1>7. CASE Login
  <2>1. LoginNext => phase # "app"
    BY DEF LoginNext, Pick, Type, SavePreset, DeleteSelected, ToggleDefault, Begin, AtRest,
           TaskReads, TaskWrites, TaskRepairs, TaskEnds, OtherWindow, SignIn, LoginFails, Reopen
  <2>2. UNCHANGED sidebar_vars /\ phase # "app"
    BY <1>7, <2>1 DEF Login, SignIn, AtRest, LoginFails, Reopen
  <2> QED
    BY <1>1, <2>2
<1>8. CASE ClearPresets \/ BootAsks \/ BootFails \/ Stay \/ AskSignOut \/ AnswerSignOut \/ LogoutRejects
  <2>1. UNCHANGED sidebar_vars /\ (phase' = phase \/ phase # "app")
    BY <1>8 DEF ClearPresets, BootAsks, BootFails, Stay, AskSignOut, AnswerSignOut, Confirms,
                LogoutRejects, login_vars
  <2> QED
    BY <1>1, <2>1
<1>9. CASE Reload
  <2>1. CASE Unloads
    BY <2>1, UnloadsSidebar
  <2>2. CASE ~ Unloads
    <3>1. UNCHANGED sidebar_vars /\ phase' = phase
      BY <1>9, <2>2 DEF Reload, login_vars
    <3> QED
      BY <1>1, <3>1
  <2> QED
    BY <2>1, <2>2
<1>10. CASE Leave \/ LogoutSettles
  BY <1>10, UnloadsSidebar DEF Leave, LogoutSettles
<1>11. CASE UNCHANGED vars
  BY <1>1, <1>11 DEF vars, login_vars
<1> QED
  BY <1>2, <1>3, <1>4, <1>5, <1>6, <1>7, <1>8, <1>9, <1>10, <1>11 DEF Next

\* The sidebar keeps the user's width, lights the view that shows and stores
\* what this page shows, through collapses, drags, reveals and reloads in any
\* order (the sizer of buildWorkArea, ActivityBar, LayoutStore._write).
THEOREM SidebarAlwaysRemembers == Spec => []SidebarRemembers
<1>1. SidebarInv => SidebarRemembers
  BY SidebarConsistentSuffices DEF SidebarInv
<1> QED
  BY InitSidebar, NextSidebar, <1>1, PTL DEF Spec

-----------------------------------------------------------------------------
(* Leaving the page.                                                       *)

\* The guard is never lifted on a page that stays (confirmSignOut).
Guarded == suppressed = FALSE

LEMMA NextGuarded == Guarded /\ [Next]_vars => Guarded'
<1> SUFFICES ASSUME Guarded, [Next]_vars PROVE Guarded'
  OBVIOUS
<1>1. suppressed' = suppressed \/ suppressed' = FALSE
  BY DEF Next, vars, leave_vars, Open, Follow, FollowGrant, Preview, Run, FocusTab, CloseTab, Edit,
         NewQuery, RunEnds, SearchEnds, CallLands, OnlyTabs, UseSidebar, OnlySidebar, ClearData,
         ClearPresets, BootRecovers, BootAsks, BootFails, SignedIn, Login, Starts, Reload, Leave, Stay,
         Unloads, FreshPage, AskSignOut, AnswerSignOut, Confirms, LogoutSettles, LogoutRejects
<1> QED
  BY <1>1 DEF Guarded

\* Unsaved work goes with the page only after the browser's prompt or a
\* sign-out its user confirmed, whose logout() has settled.
THEOREM NothingUnloadedUnasked == Spec => UnloadAsked
<1>1. Init => Guarded
  BY DEF Init, Guarded
<1>2. ASSUME Guarded, [Next]_vars, phase = "app", phase' = "boot", dirty # {}
      PROVE  leaving = "asked" \/ (signOut = "calling" /\ ~ session')
  <2>1. phase' # phase
    BY <1>2
  <2>2. CASE Reload
    <3>1. ~ Unloads => phase' = phase
      BY <2>2 DEF Reload, login_vars
    <3>2. suppressed \/ dirty = {}
      BY <1>2, <2>1, <2>2, <3>1 DEF Reload, login_vars
    <3> QED
      BY <1>2, <3>2 DEF Guarded
  <2>3. CASE Leave
    BY <2>3 DEF Leave
  <2>4. CASE LogoutSettles
    BY <2>4 DEF LogoutSettles
  <2>5. CASE ~ Reload /\ ~ Leave /\ ~ LogoutSettles
    <3>1. ~ BootRecovers /\ ~ BootAsks /\ ~ BootFails /\ ~ SignedIn
      BY <1>2 DEF BootRecovers, BootAsks, BootFails, SignedIn, LoginSucceeds
    <3>2. ~ Login
      BY <1>2 DEF Login, LoginNext, Pick, Type, SavePreset, DeleteSelected, ToggleDefault, Begin,
                  AtRest, TaskReads, TaskWrites, TaskRepairs, TaskEnds, OtherWindow, SignIn,
                  LoginFails, Reopen
    <3>3. phase' = phase
      BY <1>2, <2>5, <3>1, <3>2
         DEF Next, vars, login_vars, Open, Follow, FollowGrant, Preview, Run, FocusTab, CloseTab,
             Edit, NewQuery, RunEnds, SearchEnds, CallLands, OnlyTabs, UseSidebar, OnlySidebar,
             ClearData, ClearPresets, Stay, AskSignOut, AnswerSignOut, Confirms, LogoutRejects
    <3> QED
      BY <2>1, <3>3
  <2> QED
    BY <2>2, <2>3, <2>4, <2>5
<1>3. Guarded /\ [Next]_vars
        => [phase = "app" /\ phase' = "boot" /\ dirty # {} =>
              leaving = "asked" \/ (signOut = "calling" /\ ~ session')]_vars
  BY <1>2
<1> QED
  BY <1>1, NextGuarded, <1>3, PTL DEF Spec, UnloadAsked

-----------------------------------------------------------------------------
(* The inspector of roles.                                                 *)

Asking(a) == \E role, sure : a = [role |-> role, sure |-> sure]

LEMMA AskingFor ==
  ASSUME NEW a, NEW role, NEW sure, a = [role |-> role, sure |-> sure]
  PROVE  Asking(a) /\ a.role = role /\ a.sure = sure
  BY DEF Asking

LEMMA AskingAgain ==
  ASSUME NEW a, Asking(a), NEW b, NEW sure, b = [a EXCEPT !.sure = sure]
  PROVE  Asking(b) /\ b.role = a.role /\ b.sure = sure
<1>1. PICK r, s : a = [role |-> r, sure |-> s]
  BY DEF Asking
<1>2. b = [role |-> r, sure |-> sure]
  BY <1>1
<1> QED
  BY <1>1, <1>2, AskingFor

\* A role that is sure to show will be shown by its grants tab, or is shown, or
\* will be, by the latest preview, no other role's being under way.
RolesInv ==
    /\ roleSeq \in Nat
    /\ \A call \in calls : call.kind = "preview" => call.seq \in Nat /\ call.seq <= roleSeq
    /\ Asking(asked)
    /\ asked.sure =>
           \/ \E call \in calls : call.role = asked.role /\ call.kind = "grants"
           \/ /\ \A call \in calls : LatestPreview(call) => call.role = asked.role
              /\ inspector = asked.role \/ \E call \in calls : LatestPreview(call)

LEMMA RolesInvSuffices == RolesInv => RolesInspectorLatest
  BY DEF RolesInv, RolesInspectorLatest, Answers

\* A preview is later than every other.
LEMMA PreviewsRole ==
  ASSUME RolesInv, NEW role, Previews(role)
  PROVE  RolesInv'
<1>1. PICK new : /\ new = Call("preview", role, roleSeq + 1, NoTab, 0)
                 /\ roleSeq' = roleSeq + 1 /\ calls' = calls \cup {new}
  BY DEF Previews
<1>2. new.kind = "preview" /\ new.role = role /\ new.seq = roleSeq + 1
  BY <1>1 DEF Call
<1>3. roleSeq \in Nat /\ roleSeq' \in Nat
  BY <1>1 DEF RolesInv
<1>4. \A call \in calls' : call.kind = "preview" => call.seq \in Nat /\ call.seq <= roleSeq'
  BY <1>1, <1>2, <1>3 DEF RolesInv
<1>5. PICK yes : yes = TRUE /\ asked' = [role |-> role, sure |-> yes]
  BY DEF Previews
<1>6. Asking(asked') /\ asked'.role = role
  BY <1>5, AskingFor
<1>7. \A call \in calls' : LatestPreview(call)' => call = new
  BY <1>1, <1>3 DEF RolesInv, LatestPreview
<1>8. new \in calls' /\ LatestPreview(new)'
  BY <1>1, <1>2 DEF LatestPreview
<1> QED
  BY <1>2, <1>3, <1>4, <1>6, <1>7, <1>8 DEF RolesInv

\* The asking survives, sure or not, what changes neither the inspector nor the
\* sequence number and adds no preview.
LEMMA AskingStays ==
  ASSUME RolesInv, UNCHANGED <<roleSeq, inspector, asked>>,
         \A call \in calls' : call \in calls \/ call.kind # "preview",
         \A call \in calls : Answers(call) => call \in calls'
  PROVE  RolesInv'
<1>1. \A call : (LatestPreview(call)' <=> LatestPreview(call)) /\ (Answers(call)' <=> Answers(call))
  BY DEF Answers, LatestPreview
<1>2. \A call \in calls' : LatestPreview(call) => call \in calls
  BY DEF LatestPreview
<1>3. asked.sure /\ (\E call \in calls : call.role = asked.role /\ call.kind = "grants")
        => \E call \in calls' : call.role = asked.role /\ call.kind = "grants"
  BY DEF Answers
<1>4. (\A call \in calls : LatestPreview(call) => call.role = asked.role)
        => \A call \in calls : LatestPreview(call) => call \in calls'
  BY DEF Answers
<1> QED
  BY <1>1, <1>2, <1>3, <1>4 DEF RolesInv

\* A grants tab is what is asked for from now on; a graph's sequence number makes
\* no preview the latest; any other build leaves the asking as it was.
LEMMA BuildsRole ==
  ASSUME RolesInv, NEW p, Builds(p)
  PROVE  RolesInv'
<1> DEFINE id == PanelId(p)
           role == p.ref.name
<1>1. roleSeq \in Nat
  BY DEF RolesInv
<1>2. CASE UNCHANGED role_vars
  BY <1>2, AskingStays DEF role_vars
<1>3. ASSUME NEW kind \in {"membership", "object"}, NEW r,
             calls' = calls \cup {Call(kind, r, 0, id, opened + 1)},
             UNCHANGED <<roleSeq, inspector, asked>>
      PROVE  RolesInv'
  <2> DEFINE new == Call(kind, r, 0, id, opened + 1)
  <2>1. new.kind # "preview" /\ calls' = calls \cup {new}
    BY <1>3 DEF Call
  <2> HIDE DEF new
  <2> QED
    BY <1>3, <2>1, AskingStays
<1>4. CASE /\ roleSeq' = roleSeq + 1 /\ inspector' = inspector
           /\ calls' = calls \cup {Call("graph", role, roleSeq + 1, id, opened + 1)}
           /\ asked' = [asked EXCEPT !.sure = @ /\ \A call \in calls : ~ LatestPreview(call)]
  <2> DEFINE new == Call("graph", role, roleSeq + 1, id, opened + 1)
  <2>1. new.kind = "graph" /\ calls' = calls \cup {new}
    BY <1>4 DEF Call
  <2> HIDE DEF new
  <2>2. \A call \in calls' : call.kind = "preview" => call.seq \in Nat /\ call.seq <= roleSeq'
    BY <1>1, <1>4, <2>1 DEF RolesInv
  <2>3. \A call \in calls' : ~ LatestPreview(call)'
    BY <1>1, <1>4, <2>1 DEF RolesInv, LatestPreview
  <2>4. PICK sure : /\ sure <=> asked.sure /\ \A call \in calls : ~ LatestPreview(call)
                    /\ asked' = [asked EXCEPT !.sure = sure]
    BY <1>4
  <2>5. Asking(asked') /\ asked'.role = asked.role /\ asked'.sure = sure
    BY <2>4, AskingAgain DEF RolesInv
  <2>6. asked'.sure => \/ inspector' = asked'.role
                       \/ \E call \in calls' : call.role = asked'.role /\ call.kind = "grants"
    BY <1>4, <2>1, <2>4, <2>5 DEF RolesInv
  <2>7. roleSeq' \in Nat
    BY <1>1, <1>4
  <2> QED
    BY <2>2, <2>3, <2>5, <2>6, <2>7 DEF RolesInv
<1>5. CASE /\ calls' = calls \cup {Call("grants", role, 0, id, opened + 1)}
           /\ asked' = [role |-> role, sure |-> TRUE]
           /\ UNCHANGED <<roleSeq, inspector>>
  <2>1. PICK new : new.kind = "grants" /\ new.role = role /\ calls' = calls \cup {new}
    BY <1>5 DEF Call
  <2>2. PICK sure : sure = TRUE /\ asked' = [role |-> role, sure |-> sure]
    BY <1>5
  <2>3. Asking(asked') /\ asked'.role = role
    BY <2>2, AskingFor
  <2>4. \A call \in calls' : call.kind = "preview" => call.seq \in Nat /\ call.seq <= roleSeq'
    BY <1>5, <2>1 DEF RolesInv
  <2>5. new \in calls' /\ new.role = asked'.role /\ new.kind = "grants"
    BY <2>1, <2>3
  <2>6. roleSeq' \in Nat
    BY <1>1, <1>5
  <2> QED
    BY <2>3, <2>4, <2>5, <2>6 DEF RolesInv
<1> QED
  BY <1>2, <1>3, <1>4, <1>5 DEF Builds

\* An answer: the inspector's only from the latest preview or a grants tab.
LEMMA LandsRole ==
  ASSUME RolesInv, CallLands
  PROVE  RolesInv'
<1>1. PICK call \in calls :
        /\ calls' = calls \ {call}
        /\ PreviewLands(call) \/ GrantsLand(call) \/ GraphLands(call) \/ OtherLands(call)
             \/ CallFails(call)
  BY DEF CallLands
<1>2. roleSeq' = roleSeq
  BY DEF CallLands
<1>3. \A c : LatestPreview(c)' <=> LatestPreview(c)
  BY <1>2 DEF LatestPreview
<1>4. /\ roleSeq' \in Nat
      /\ \A c \in calls' : c.kind = "preview" => c.seq \in Nat /\ c.seq <= roleSeq'
  BY <1>1, <1>2 DEF RolesInv
<1>5. CASE PreviewLands(call)
  <2>1. /\ call.kind = "preview" /\ asked' = asked
        /\ inspector' = IF IsLatest(call) THEN call.role ELSE inspector
    BY <1>5 DEF PreviewLands
  <2>2. CASE IsLatest(call)
    <3>1. LatestPreview(call) /\ inspector' = call.role
      BY <2>1, <2>2 DEF LatestPreview, IsLatest
    <3> QED
      BY <1>1, <1>3, <1>4, <2>1, <3>1 DEF RolesInv
  <2>3. CASE ~ IsLatest(call)
    <3>1. ~ Answers(call) /\ inspector' = inspector
      BY <2>1, <2>3 DEF Answers, LatestPreview, IsLatest
    <3> QED
      BY <1>1, <1>2, <2>1, <3>1, AskingStays
  <2> QED
    BY <2>2, <2>3
<1>6. CASE GrantsLand(call)
  <2>1. PICK sure : /\ sure <=> IF call.role = asked.role
                                 THEN \A c \in calls : LatestPreview(c) => c.role = call.role
                                 ELSE asked.sure /\ \E c \in calls : Answers(c)
                    /\ asked' = [asked EXCEPT !.sure = sure]
    BY <1>6 DEF GrantsLand
  <2>2. Asking(asked') /\ asked'.role = asked.role /\ asked'.sure = sure
    BY <2>1, AskingAgain DEF RolesInv
  <2>3. inspector' = call.role
    BY <1>6 DEF GrantsLand
  <2>4. CASE call.role = asked.role
    <3>1. asked'.sure => \A c \in calls' : LatestPreview(c)' => c.role = asked'.role
      BY <1>1, <1>3, <2>1, <2>2, <2>4
    <3> QED
      BY <1>4, <2>2, <2>3, <2>4, <3>1 DEF RolesInv
  <2>5. CASE call.role # asked.role
    <3>1. asked'.sure => asked.sure /\ \E c \in calls : Answers(c)
      BY <2>1, <2>2, <2>5
    <3>2. call.kind = "grants"
      BY <1>6 DEF GrantsLand
    <3>3. \A c \in calls : Answers(c) \/ LatestPreview(c) => c \in calls'
      BY <1>1, <2>5, <3>2 DEF Answers, LatestPreview
    <3>4. asked'.sure /\ (\E c \in calls : c.role = asked.role /\ c.kind = "grants")
            => \E c \in calls' : c.role = asked'.role /\ c.kind = "grants"
      BY <2>2, <3>3 DEF Answers
    <3>5. asked'.sure /\ ~ (\E c \in calls : c.role = asked.role /\ c.kind = "grants")
            => /\ \A c \in calls' : LatestPreview(c)' => c.role = asked'.role
               /\ \E c \in calls' : LatestPreview(c)'
      <4>1. SUFFICES ASSUME asked'.sure, ~ (\E c \in calls : c.role = asked.role /\ c.kind = "grants")
                     PROVE  /\ \A c \in calls' : LatestPreview(c)' => c.role = asked'.role
                            /\ \E c \in calls' : LatestPreview(c)'
        OBVIOUS
      <4>2. \A c \in calls : LatestPreview(c) => c.role = asked.role
        BY <3>1, <4>1 DEF RolesInv
      <4>3. PICK c \in calls : LatestPreview(c)
        BY <3>1, <4>1 DEF Answers
      <4>4. c \in calls' /\ LatestPreview(c)'
        BY <1>3, <3>3, <4>3
      <4>5. \A d \in calls' : LatestPreview(d)' => d.role = asked'.role
        BY <1>1, <1>3, <2>2, <4>2
      <4> QED
        BY <4>4, <4>5
    <3> QED
      BY <1>4, <2>2, <3>4, <3>5 DEF RolesInv
  <2> QED
    BY <2>4, <2>5
<1>7. CASE GraphLands(call) \/ OtherLands(call)
  <2>1. ~ Answers(call) /\ inspector' = inspector /\ asked' = asked
    BY <1>7 DEF GraphLands, OtherLands, Answers, LatestPreview
  <2> QED
    BY <1>1, <1>2, <2>1, AskingStays
<1>8. CASE CallFails(call)
  <2>1. PICK sure : /\ sure <=> asked.sure /\ ~ Answers(call)
                    /\ asked' = [asked EXCEPT !.sure = sure]
    BY <1>8 DEF CallFails
  <2>2. Asking(asked') /\ asked'.role = asked.role /\ asked'.sure = sure /\ inspector' = inspector
    BY <1>8, <2>1, AskingAgain DEF RolesInv, CallFails
  <2>3. asked'.sure => asked.sure /\ \A c \in calls : Answers(c) => c \in calls'
    BY <1>1, <2>1, <2>2
  <2>4. asked'.sure /\ (\E c \in calls : c.role = asked.role /\ c.kind = "grants")
          => \E c \in calls' : c.role = asked'.role /\ c.kind = "grants"
    BY <2>2, <2>3 DEF Answers
  <2>5. asked'.sure /\ (\A c \in calls : LatestPreview(c) => c.role = asked.role)
          => \A c \in calls : LatestPreview(c) => c \in calls'
    BY <2>3 DEF Answers
  <2> QED
    BY <1>1, <1>3, <1>4, <2>2, <2>3, <2>4, <2>5 DEF RolesInv
<1> QED
  BY <1>1, <1>5, <1>6, <1>7, <1>8

LEMMA FreshRoles ==
  ASSUME calls' = {}, roleSeq' = 0, asked' = NobodyAsked
  PROVE  RolesInv'
<1>1. PICK no : no = FALSE /\ asked' = [role |-> None, sure |-> no]
  BY DEF NobodyAsked
<1>2. Asking(asked') /\ asked'.sure = no
  BY <1>1, AskingFor
<1>3. ~ asked'.sure
  BY <1>1, <1>2
<1> QED
  BY <1>2, <1>3 DEF RolesInv

LEMMA ShowsRole ==
  ASSUME RolesInv, NEW p, Shows(p)
  PROVE  RolesInv'
<1>1. UNCHANGED role_vars => RolesInv'
  BY AskingStays DEF role_vars
<1> QED
  BY <1>1, PreviewsRole, BuildsRole DEF Shows

LEMMA NextRoles == RolesInv /\ [Next]_vars => RolesInv'
<1> SUFFICES ASSUME RolesInv, [Next]_vars PROVE RolesInv'
  OBVIOUS
<1>1. UNCHANGED role_vars => RolesInv'
  BY AskingStays DEF role_vars
<1>2. Unloads => RolesInv'
  BY FreshRoles DEF Unloads, FreshPage
<1>3. Starts => RolesInv'
  BY <1>1, ShowsRole DEF Starts
<1>4. ASSUME NEW p \in Panels[area], Open(p) \/ Follow(p) \/ FollowGrant(p)
      PROVE  RolesInv'
  BY <1>1, <1>4, ShowsRole DEF Open, Follow, FollowGrant
<1>5. ASSUME NEW role \in Roles, Preview(role)
      PROVE  RolesInv'
  BY <1>5, PreviewsRole DEF Preview
<1>6. CASE CallLands
  BY <1>6, LandsRole
<1>7. CASE SearchEnds
  <2>1. UNCHANGED role_vars \/ \E p \in searches : Shows(p)
    BY <1>7 DEF SearchEnds
  <2> QED
    BY <1>1, <2>1, ShowsRole
<1>8. CASE BootRecovers \/ SignedIn
  BY <1>3, <1>8 DEF BootRecovers, SignedIn
<1>9. CASE Reload \/ Leave \/ LogoutSettles
  BY <1>1, <1>2, <1>9 DEF Reload, Leave, LogoutSettles, page_vars
<1>10. CASE \/ \E id \in DOMAIN tabs : Run(id) \/ FocusTab(id) \/ CloseTab(id) \/ Edit(id)
            \/ NewQuery \/ RunEnds \/ UseSidebar \/ ClearData \/ ClearPresets \/ BootAsks
            \/ BootFails \/ Login \/ Stay \/ AskSignOut \/ AnswerSignOut \/ LogoutRejects
  <2>1. UNCHANGED role_vars
    BY <1>10 DEF Run, FocusTab, CloseTab, Edit, NewQuery, RunEnds, UseSidebar, OnlySidebar, ClearData,
                 ClearPresets, BootAsks, BootFails, Login, Stay, AskSignOut, AnswerSignOut, Confirms,
                 LogoutRejects, page_vars
  <2> QED
    BY <1>1, <2>1
<1>11. CASE UNCHANGED vars
  BY <1>1, <1>11 DEF vars, page_vars
<1> QED
  BY <1>4, <1>5, <1>6, <1>7, <1>8, <1>9, <1>10, <1>11 DEF Next

LEMMA InitRoles == Init => RolesInv
<1> SUFFICES ASSUME Init PROVE RolesInv
  OBVIOUS
<1>1. calls = {} /\ roleSeq = 0 /\ asked = NobodyAsked
  BY DEF Init
<1>2. PICK no : no = FALSE /\ asked = [role |-> None, sure |-> no]
  BY <1>1 DEF NobodyAsked
<1>3. Asking(asked) /\ asked.sure = no
  BY <1>2, AskingFor
<1>4. ~ asked.sure
  BY <1>2, <1>3
<1> QED
  BY <1>1, <1>3, <1>4 DEF RolesInv

\* However the answers to previews, grants tabs and graphs are ordered, the
\* inspector ends up with the role asked for last, but in the four cases that
\* RolesInspectorLatest names, where a fetch that fetchRoleDetail does not guard
\* overtakes or a graph cancels.
THEOREM InspectorIsLatest == Spec => []RolesInspectorLatest
  BY InitRoles, NextRoles, RolesInvSuffices, PTL DEF Spec

-----------------------------------------------------------------------------
(* Addresses: short paths, put together from their parts.                  *)

LEMMA Joins21 ==
  ASSUME NEW a, NEW b, NEW c
  PROVE  <<a, b>> \o <<c>> = <<a, b, c>>
<1> DEFINE S == {a, b, c}
           s == <<a, b>>
           t == <<c>>
           r == <<a, b, c>>
<1>1. /\ s \in Seq(S) /\ Len(s) = 2 /\ t \in Seq(S) /\ Len(t) = 1
      /\ r \in Seq(S) /\ Len(r) = 3
  OBVIOUS
<1>2. /\ s[1] = a /\ s[2] = b
      /\ t[1] = c
      /\ r[1] = a /\ r[2] = b /\ r[3] = c
  OBVIOUS
<1> HIDE DEF S, s, t, r
<1>3. /\ s \o t \in Seq(S) /\ Len(s \o t) = 3
      /\ \A i \in 1 .. 3 : (s \o t)[i] = IF i <= 2 THEN s[i] ELSE t[i - 2]
  <2>1. /\ s \o t \in Seq(S) /\ Len(s \o t) = Len(s) + Len(t)
        /\ \A i \in 1 .. Len(s) + Len(t) :
              (s \o t)[i] = IF i <= Len(s) THEN s[i] ELSE t[i - Len(s)]
    BY <1>1, ConcatProperties, Zenon
  <2> QED
    BY <1>1, <2>1
<1>4. \A i \in 1 .. 3 : (s \o t)[i] = r[i]
  BY <1>2, <1>3
<1>5. s \o t = r
  BY <1>1, <1>3, <1>4, SeqEqual
<1> QED
  BY <1>5 DEF s, t, r

LEMMA Joins22 ==
  ASSUME NEW a, NEW b, NEW c, NEW d
  PROVE  <<a, b>> \o <<c, d>> = <<a, b, c, d>>
<1> DEFINE S == {a, b, c, d}
           s == <<a, b>>
           t == <<c, d>>
           r == <<a, b, c, d>>
<1>1. /\ s \in Seq(S) /\ Len(s) = 2 /\ t \in Seq(S) /\ Len(t) = 2
      /\ r \in Seq(S) /\ Len(r) = 4
  OBVIOUS
<1>2. /\ s[1] = a /\ s[2] = b
      /\ t[1] = c /\ t[2] = d
      /\ r[1] = a /\ r[2] = b /\ r[3] = c /\ r[4] = d
  OBVIOUS
<1> HIDE DEF S, s, t, r
<1>3. /\ s \o t \in Seq(S) /\ Len(s \o t) = 4
      /\ \A i \in 1 .. 4 : (s \o t)[i] = IF i <= 2 THEN s[i] ELSE t[i - 2]
  <2>1. /\ s \o t \in Seq(S) /\ Len(s \o t) = Len(s) + Len(t)
        /\ \A i \in 1 .. Len(s) + Len(t) :
              (s \o t)[i] = IF i <= Len(s) THEN s[i] ELSE t[i - Len(s)]
    BY <1>1, ConcatProperties, Zenon
  <2> QED
    BY <1>1, <2>1
<1>4. \A i \in 1 .. 4 : (s \o t)[i] = r[i]
  BY <1>2, <1>3
<1>5. s \o t = r
  BY <1>1, <1>3, <1>4, SeqEqual
<1> QED
  BY <1>5 DEF s, t, r

LEMMA Joins31 ==
  ASSUME NEW a, NEW b, NEW c, NEW d
  PROVE  <<a, b, c>> \o <<d>> = <<a, b, c, d>>
<1> DEFINE S == {a, b, c, d}
           s == <<a, b, c>>
           t == <<d>>
           r == <<a, b, c, d>>
<1>1. /\ s \in Seq(S) /\ Len(s) = 3 /\ t \in Seq(S) /\ Len(t) = 1
      /\ r \in Seq(S) /\ Len(r) = 4
  OBVIOUS
<1>2. /\ s[1] = a /\ s[2] = b /\ s[3] = c
      /\ t[1] = d
      /\ r[1] = a /\ r[2] = b /\ r[3] = c /\ r[4] = d
  OBVIOUS
<1> HIDE DEF S, s, t, r
<1>3. /\ s \o t \in Seq(S) /\ Len(s \o t) = 4
      /\ \A i \in 1 .. 4 : (s \o t)[i] = IF i <= 3 THEN s[i] ELSE t[i - 3]
  <2>1. /\ s \o t \in Seq(S) /\ Len(s \o t) = Len(s) + Len(t)
        /\ \A i \in 1 .. Len(s) + Len(t) :
              (s \o t)[i] = IF i <= Len(s) THEN s[i] ELSE t[i - Len(s)]
    BY <1>1, ConcatProperties, Zenon
  <2> QED
    BY <1>1, <2>1
<1>4. \A i \in 1 .. 4 : (s \o t)[i] = r[i]
  BY <1>2, <1>3
<1>5. s \o t = r
  BY <1>1, <1>3, <1>4, SeqEqual
<1> QED
  BY <1>5 DEF s, t, r

LEMMA Joins41 ==
  ASSUME NEW a, NEW b, NEW c, NEW d, NEW e
  PROVE  <<a, b, c, d>> \o <<e>> = <<a, b, c, d, e>>
<1> DEFINE S == {a, b, c, d, e}
           s == <<a, b, c, d>>
           t == <<e>>
           r == <<a, b, c, d, e>>
<1>1. /\ s \in Seq(S) /\ Len(s) = 4 /\ t \in Seq(S) /\ Len(t) = 1
      /\ r \in Seq(S) /\ Len(r) = 5
  OBVIOUS
<1>2. /\ s[1] = a /\ s[2] = b /\ s[3] = c /\ s[4] = d
      /\ t[1] = e
      /\ r[1] = a /\ r[2] = b /\ r[3] = c /\ r[4] = d /\ r[5] = e
  OBVIOUS
<1> HIDE DEF S, s, t, r
<1>3. /\ s \o t \in Seq(S) /\ Len(s \o t) = 5
      /\ \A i \in 1 .. 5 : (s \o t)[i] = IF i <= 4 THEN s[i] ELSE t[i - 4]
  <2>1. /\ s \o t \in Seq(S) /\ Len(s \o t) = Len(s) + Len(t)
        /\ \A i \in 1 .. Len(s) + Len(t) :
              (s \o t)[i] = IF i <= Len(s) THEN s[i] ELSE t[i - Len(s)]
    BY <1>1, ConcatProperties, Zenon
  <2> QED
    BY <1>1, <2>1
<1>4. \A i \in 1 .. 5 : (s \o t)[i] = r[i]
  BY <1>2, <1>3
<1>5. s \o t = r
  BY <1>1, <1>3, <1>4, SeqEqual
<1> QED
  BY <1>5 DEF s, t, r

LEMMA JoinsNothing ==
  ASSUME NEW a, NEW b, NEW c, NEW d
  PROVE  /\ <<a, b, c>> \o <<>> = <<a, b, c>>
         /\ <<a, b, c, d>> \o <<>> = <<a, b, c, d>>
  OBVIOUS

\* The id of a panel, by its kind.
LEMMA Ids ==
  ASSUME NEW p
  PROVE  /\ p.ref.kind = "database" => PanelId(p) = <<"db-diagram">>
         /\ p.ref.kind = "notes" => PanelId(p) = <<"notes">>
         /\ p.ref.kind = "role" =>
               PanelId(p) = IF p.view = None THEN <<"grants", p.ref.name>>
                            ELSE <<"roles", p.ref.name, p.view>>
         /\ p.ref.kind = "schema" => PanelId(p) = <<"objects", p.ref.schema, "::", p.view>>
         /\ p.ref.kind = "function" =>
               PanelId(p) = <<"objects", p.ref.schema, p.ref.name, p.ref.signature, "::function">>
         /\ p.ref.kind \in ObjectKinds \ {"function"} =>
               PanelId(p) = <<"objects", p.ref.schema, p.ref.name, p.ref.kind>>
         /\ p.ref.kind \in RelationKinds =>
               PanelId(p) = IF p.view = None THEN <<"objects", p.ref.schema, p.ref.name>>
                            ELSE <<"objects", p.ref.schema, p.ref.name, p.view>>
<1>1. p.ref.kind = "database" => PanelId(p) = <<"db-diagram">>
  BY DEF PanelId, ObjectKinds
<1>2. p.ref.kind = "notes" => PanelId(p) = <<"notes">>
  BY DEF PanelId, ObjectKinds
<1>3. p.ref.kind = "role" =>
         PanelId(p) = IF p.view = None THEN <<"grants", p.ref.name>>
                      ELSE <<"roles", p.ref.name, p.view>>
  BY DEF PanelId, ObjectKinds
<1>4. p.ref.kind = "schema" => PanelId(p) = <<"objects", p.ref.schema, "::", p.view>>
  BY DEF PanelId, ObjectKinds
<1>5. p.ref.kind = "function" =>
         PanelId(p) = <<"objects", p.ref.schema, p.ref.name, p.ref.signature, "::function">>
  BY DEF PanelId, ObjectKinds
<1>6. p.ref.kind \in ObjectKinds \ {"function"} =>
         PanelId(p) = <<"objects", p.ref.schema, p.ref.name, p.ref.kind>>
  BY Joins31 DEF PanelId, ObjectKinds
<1>7. p.ref.kind \in RelationKinds =>
         PanelId(p) = IF p.view = None THEN <<"objects", p.ref.schema, p.ref.name>>
                      ELSE <<"objects", p.ref.schema, p.ref.name, p.view>>
  <2>1. p.ref.kind \in RelationKinds =>
           PanelId(p) = <<"objects", p.ref.schema, p.ref.name>> \o Trailing(p.view, p.view # None)
    BY DEF PanelId, ObjectKinds, RelationKinds, RelationSegment
  <2>2. CASE p.view = None
    <3>1. Trailing(p.view, p.view # None) = <<>>
      BY <2>2 DEF Trailing
    <3> QED
      BY <2>1, <2>2, <3>1, JoinsNothing
  <2>3. CASE p.view # None
    <3>1. Trailing(p.view, p.view # None) = <<p.view>>
      BY <2>3 DEF Trailing
    <3> QED
      BY <2>1, <2>3, <3>1, Joins31
  <2> QED
    BY <2>2, <2>3
<1> QED
  BY <1>1, <1>2, <1>3, <1>4, <1>5, <1>6, <1>7

\* No panel's id is that of a query tab, or of none.
LEMMA NotAQuery ==
  ASSUME NEW p, Openable(p)
  PROVE  ~ IsQuery(PanelId(p)) /\ PanelId(p) # NoTab
<1>1. p.ref.kind \in ObjectKinds => p.ref.kind = "function" \/ p.ref.kind \in ObjectKinds \ {"function"}
  OBVIOUS
<1>2. PanelId(p)[1] # "query" /\ PanelId(p) # <<>>
  <2>1. CASE p.ref.kind \in {"database", "notes", "role", "schema", "function"}
    BY <2>1, Ids
  <2>2. CASE p.ref.kind \in ObjectKinds \ {"function"}
    BY <2>2, Ids
  <2>3. CASE p.ref.kind \in RelationKinds
    BY <2>3, Ids
  <2> QED
    BY <1>1, <2>1, <2>2, <2>3 DEF Openable
<1> QED
  BY <1>2 DEF IsQuery, NoTab

LEMMA OpenedPanel ==
  ASSUME NEW kind, NEW schema, NEW name, NEW view, NEW query
  PROVE  LET p == Panel(Object(kind, schema, name), view, query)
         IN  /\ p.ref.kind = kind /\ p.ref.schema = schema /\ p.ref.name = name
             /\ p.view = view
             /\ kind # "none" => p # NoPanel
<1> DEFINE p == Panel(Object(kind, schema, name), view, query)
<1>1. /\ p.ref.kind = kind /\ p.ref.schema = schema /\ p.ref.name = name
      /\ p.view = view
  BY DEF Panel, Object
<1>2. NoPanel.ref.kind = "none"
  BY DEF Panel, Object, NoPanel
<1> QED
  BY <1>1, <1>2

LEMMA KindOfSegment ==
  ASSUME NEW kind \in RelationKinds
  PROVE  /\ KindOf(RelationSegment[kind]) = kind
         /\ RelationSegment[kind] \in Segments
<1>1. RelationKinds = {"table", "view", "materializedView"}
  BY DEF RelationKinds, RelationSegment
<1>2. \A k \in RelationKinds : RelationSegment[k] = RelationSegment[kind] => k = kind
  BY <1>1 DEF RelationSegment
<1> QED
  BY <1>2 DEF KindOf, Segments

\* What the router opens at an address is the panel with this id.
Leads(url, id) ==
    Dispatch(url).opens # NoPanel /\ PanelId(Dispatch(url).opens) = id

LEMMA RelationLeads ==
  ASSUME NEW p, p.ref.kind \in RelationKinds, p.view = None \/ relationView(p.ref.kind, p.view)
  PROVE  Leads(RouteOf(p), PanelId(p))
<1> DEFINE kind == p.ref.kind
           head == <<"schema", p.ref.schema, RelationSegment[kind], p.ref.name>>
<1>1. RouteOf(p) = [path |-> objectPath(p.ref, p.view), query |-> p.query]
  BY DEF RouteOf, RelationKinds, RelationSegment
<1>2. ~ relationView(kind, None)
  BY DEF relationView, RelationViewKinds, None
<1>3. objectPath(p.ref, p.view)
        = IF p.view = None THEN head
          ELSE <<"schema", p.ref.schema, RelationSegment[kind], p.ref.name, p.view>>
  <2>1. <<"schema", p.ref.schema>> \o <<RelationSegment[kind], p.ref.name>> = head
    BY Joins22
  <2>2. objectPath(p.ref, p.view) = head \o Trailing(p.view, relationView(kind, p.view))
    BY <2>1 DEF objectPath, RelationKinds, RelationSegment, ObjectKinds
  <2> QED
    <3>1. CASE p.view = None
      <4>1. Trailing(p.view, relationView(kind, p.view)) = <<>>
        BY <1>2, <3>1 DEF Trailing
      <4> QED
        BY <2>2, <3>1, <4>1, JoinsNothing
    <3>2. CASE p.view # None
      <4>1. Trailing(p.view, relationView(kind, p.view)) = <<p.view>>
        BY <3>2 DEF Trailing
      <4> QED
        BY <2>2, <3>2, <4>1, Joins41
    <3> QED
      BY <3>1, <3>2
<1>4. RelationSegment[kind] \in Segments /\ KindOf(RelationSegment[kind]) = kind
  BY KindOfSegment
<1>5. CASE p.view = None
  <2> DEFINE url == [path |-> head, query |-> p.query]
  <2>1. RouteOf(p) = url
    BY <1>1, <1>3, <1>5
  <2>2. Dispatch(url) = RelationRoute(head, p.query)
    BY <1>4 DEF Dispatch, ObjectKinds, Segments, RelationKinds, RelationSegment
  <2>3. RelationRoute(head, p.query).opens
          = Panel(Object(kind, p.ref.schema, p.ref.name), None, p.query)
    BY <1>4 DEF RelationRoute, RevealsAndOpens, Handler
  <2>4. Dispatch(RouteOf(p)).opens = Panel(Object(kind, p.ref.schema, p.ref.name), None, p.query)
    BY <2>1, <2>2, <2>3
  <2>5. kind # "none"
    BY DEF RelationKinds, RelationSegment
  <2>6. Dispatch(RouteOf(p)).opens # NoPanel
    BY <2>4, <2>5, OpenedPanel
  <2>7. PanelId(Dispatch(RouteOf(p)).opens) = PanelId(p)
    BY <1>5, <2>4, OpenedPanel, Ids
  <2> QED
    BY <2>6, <2>7 DEF Leads
<1>6. CASE p.view # None
  <2> DEFINE path == <<"schema", p.ref.schema, RelationSegment[kind], p.ref.name, p.view>>
             url == [path |-> path, query |-> p.query]
  <2>1. RouteOf(p) = url
    BY <1>1, <1>3, <1>6
  <2>2. Dispatch(url) = RelationRoute(path, p.query)
    BY <1>4 DEF Dispatch
  <2>3. RelationRoute(path, p.query).opens
          = Panel(Object(kind, p.ref.schema, p.ref.name), p.view, p.query)
    BY <1>4, <1>6 DEF RelationRoute, RevealsAndOpens, Handler
  <2>4. Dispatch(RouteOf(p)).opens = Panel(Object(kind, p.ref.schema, p.ref.name), p.view, p.query)
    BY <2>1, <2>2, <2>3
  <2>5. kind # "none"
    BY DEF RelationKinds, RelationSegment
  <2>6. Dispatch(RouteOf(p)).opens # NoPanel
    BY <2>4, <2>5, OpenedPanel
  <2>7. PanelId(Dispatch(RouteOf(p)).opens) = PanelId(p)
    BY <1>6, <2>4, OpenedPanel, Ids
  <2> QED
    BY <2>6, <2>7 DEF Leads
<1> QED
  BY <1>5, <1>6

LEMMA SchemaLeads ==
  ASSUME NEW p, p.ref.kind = "schema", p.view \in SchemaViews
  PROVE  Leads(RouteOf(p), PanelId(p))
<1> DEFINE url == [path |-> <<"schema", p.ref.schema, p.view>>, query |-> p.query]
<1>1. RouteOf(p) = [path |-> objectPath(p.ref, p.view), query |-> p.query]
  BY DEF RouteOf
<1>2. objectPath(p.ref, p.view) = <<"schema", p.ref.schema, p.view>>
  BY Joins21 DEF objectPath, Trailing, RelationKinds, RelationSegment, ObjectKinds
<1>3. RouteOf(p) = url
  BY <1>1, <1>2
<1>4. Dispatch(url) = SchemaRoute(url.path)
  BY DEF Dispatch
<1>5. SchemaRoute(url.path).opens = Panel(Object("schema", p.ref.schema, None), p.view, None)
  BY DEF SchemaRoute, RevealsAndOpens, Handler
<1>6. Dispatch(RouteOf(p)).opens = Panel(Object("schema", p.ref.schema, None), p.view, None)
  BY <1>3, <1>4, <1>5
<1>7. Dispatch(RouteOf(p)).opens # NoPanel
  BY <1>6, OpenedPanel
<1>8. PanelId(Dispatch(RouteOf(p)).opens) = PanelId(p)
  BY <1>6, OpenedPanel, Ids
<1> QED
  BY <1>7, <1>8 DEF Leads

LEMMA ObjectLeads ==
  ASSUME NEW p, p.ref.kind \in ObjectKinds
  PROVE  Leads(RouteOf(p), PanelId(p))
<1> DEFINE kind == p.ref.kind
           path == <<"schema", p.ref.schema, kind, p.ref.name>>
<1>1. \A view : objectPath(p.ref, view) = path
  BY Joins22 DEF objectPath, RelationKinds, RelationSegment, ObjectKinds
<1>2. PICK query : /\ RouteOf(p) = [path |-> path, query |-> query]
                   /\ kind = "function" => query = p.ref.signature
  BY <1>1 DEF RouteOf, ObjectKinds
<1>3. Dispatch(RouteOf(p)) = ObjectRoute(path, query)
  BY <1>2 DEF Dispatch, ObjectKinds, Segments, RelationKinds, RelationSegment
<1>4. CASE kind = "function"
  <2> DEFINE ref == [Object("function", p.ref.schema, p.ref.name) EXCEPT !.signature = query]
  <2>1. ObjectRoute(path, query).opens = Panel(ref, None, None)
    BY <1>4 DEF ObjectRoute, RevealsAndOpens, Handler
  <2>2. /\ ref.kind = "function" /\ ref.schema = p.ref.schema
        /\ ref.name = p.ref.name /\ ref.signature = query
    BY DEF Object
  <2> HIDE DEF ref
  <2>3. Panel(ref, None, None).ref = ref /\ NoPanel.ref.kind = "none"
    BY DEF Panel, NoPanel, Object
  <2>4. Dispatch(RouteOf(p)).opens = Panel(ref, None, None)
    BY <1>3, <2>1
  <2>5. Dispatch(RouteOf(p)).opens # NoPanel
    BY <2>2, <2>3, <2>4
  <2>6. PanelId(Dispatch(RouteOf(p)).opens) = PanelId(p)
    BY <1>2, <1>4, <2>2, <2>3, <2>4, Ids
  <2> QED
    BY <2>5, <2>6 DEF Leads
<1>5. CASE kind # "function"
  <2>1. ObjectRoute(path, query).opens = Panel(Object(kind, p.ref.schema, p.ref.name), None, None)
    BY <1>5 DEF ObjectRoute, RevealsAndOpens, Handler
  <2>2. Dispatch(RouteOf(p)).opens = Panel(Object(kind, p.ref.schema, p.ref.name), None, None)
    BY <1>3, <2>1
  <2>3. kind # "none"
    BY DEF ObjectKinds
  <2>4. Dispatch(RouteOf(p)).opens # NoPanel
    BY <2>2, <2>3, OpenedPanel
  <2>5. PanelId(Dispatch(RouteOf(p)).opens) = PanelId(p)
    BY <1>5, <2>2, OpenedPanel, Ids
  <2> QED
    BY <2>4, <2>5 DEF Leads
<1> QED
  BY <1>4, <1>5

LEMMA RoleLeads ==
  ASSUME NEW p, p.ref.kind = "role", p.view \in RoleViews
  PROVE  Leads(RouteOf(p), PanelId(p))
<1> DEFINE path == IF p.view = None THEN <<"role", "user", p.ref.name>>
                   ELSE <<"role", "user", p.ref.name, p.view>>
<1>1. rolePath(p.ref.name, p.view) = path
  <2>1. CASE p.view = None
    <3>1. Trailing(p.view, p.view # None) = <<>>
      BY <2>1 DEF Trailing
    <3> QED
      BY <2>1, <3>1, JoinsNothing DEF rolePath
  <2>2. CASE p.view # None
    <3>1. Trailing(p.view, p.view # None) = <<p.view>>
      BY <2>2 DEF Trailing
    <3> QED
      <4>1. <<"role", "user", p.ref.name>> \o <<p.view>> = <<"role", "user", p.ref.name, p.view>>
        BY Joins31
      <4> QED
        BY <2>2, <3>1, <4>1 DEF rolePath
  <2> QED
    BY <2>1, <2>2
<1>2. RouteOf(p) = [path |-> path, query |-> p.query]
  BY <1>1 DEF RouteOf
<1>3. Dispatch(RouteOf(p)) = RoleRoute(path, p.query)
  BY <1>2 DEF Dispatch, RoleBuckets
<1>4. PICK query : RoleRoute(path, p.query).opens
                     = Panel(Object("role", None, p.ref.name), p.view, query)
  <2>1. CASE p.view = None
    BY <2>1 DEF RoleRoute, RevealsAndOpens, Handler
  <2>2. CASE p.view # None
    BY <2>2 DEF RoleRoute, RevealsAndOpens, Handler, RoleViews
  <2> QED
    BY <2>1, <2>2
<1> HIDE DEF path
<1>5. Dispatch(RouteOf(p)).opens = Panel(Object("role", None, p.ref.name), p.view, query)
  BY <1>3, <1>4
<1>6. Dispatch(RouteOf(p)).opens # NoPanel
  BY <1>5, OpenedPanel
<1>7. PanelId(Dispatch(RouteOf(p)).opens) = PanelId(p)
  BY <1>5, OpenedPanel, Ids
<1> QED
  BY <1>6, <1>7 DEF Leads

\* The route an opener records for a tab leads back to it: openers, ids,
\* addresses and router agree on every panel there is an opener for.
LEMMA RouteLeadsBack ==
  ASSUME NEW p, Openable(p)
  PROVE  Leads(RouteOf(p), PanelId(p))
<1>1. CASE p.ref.kind = "database"
  <2>1. RouteOf(p) = [path |-> <<"database", "diagram">>, query |-> None]
    BY <1>1 DEF RouteOf
  <2>2. Dispatch(RouteOf(p)).opens = Panel(Object("database", None, None), "diagram", None)
    BY <2>1 DEF Dispatch, RevealsAndOpens, Handler
  <2> QED
    BY <1>1, <2>2, OpenedPanel, Ids DEF Leads
<1>2. CASE p.ref.kind = "notes"
  <2>1. RouteOf(p) = [path |-> <<"notes">>, query |-> None]
    BY <1>2 DEF RouteOf
  <2>2. Dispatch(RouteOf(p)).opens = Panel(Object("notes", None, None), None, None)
    BY <2>1 DEF Dispatch, RevealsAndOpens, Handler
  <2> QED
    BY <1>2, <2>2, OpenedPanel, Ids DEF Leads
<1> QED
  BY <1>1, <1>2, RoleLeads, SchemaLeads, ObjectLeads, RelationLeads DEF Openable

\* The router opens nothing else.
LEMMA DispatchOpens ==
  ASSUME NEW url
  PROVE  Dispatch(url).opens = NoPanel \/ Openable(Dispatch(url).opens)
<1> DEFINE path == url.path
           n == Len(path)
           at(first) == n > 0 /\ path[1] = first
           Relation == at("schema") /\ n \in {4, 5} /\ path[3] \in Segments
           OtherObject == at("schema") /\ n = 4 /\ path[3] \in ObjectKinds /\ path[3] \notin Segments
           Role == at("role") /\ n \in {3, 4} /\ path[2] \in RoleBuckets
<1>1. \/ Dispatch(url).opens = NoPanel
      \/ Dispatch(url) = RevealsAndOpens(None, Panel(Object("notes", None, None), None, None))
      \/ Dispatch(url) = RevealsAndOpens("database",
                             Panel(Object("database", None, None), "diagram", None))
      \/ Dispatch(url) = SchemaRoute(path)
      \/ Relation /\ Dispatch(url) = RelationRoute(path, url.query)
      \/ OtherObject /\ Dispatch(url) = ObjectRoute(path, url.query)
      \/ Role /\ Dispatch(url) = RoleRoute(path, url.query)
  <2>1. Segments \cap ObjectKinds = {}
    BY DEF Segments, ObjectKinds, RelationKinds, RelationSegment
  <2> DEFINE Nothing == \/ n = 0
                        \/ at("query") /\ n = 3
                        \/ at("schema") /\ n = 2
                        \/ at("role") /\ n = 2 /\ path[2] \in RoleBuckets
             Notes == at("notes") /\ n = 1
             Database == at("database") /\ n = 2 /\ path[2] = "diagram"
             Schema == at("schema") /\ n = 3
  <2>2. CASE n = 0
    BY <2>2 DEF Dispatch, Ignored, Handler
  <2>3. CASE Notes
    BY <2>3 DEF Dispatch
  <2>4. CASE at("query") /\ n = 3
    BY <2>4 DEF Dispatch, Handler
  <2>5. CASE Database
    BY <2>5 DEF Dispatch
  <2>6. CASE at("schema") /\ n = 2
    BY <2>6 DEF Dispatch, Reveals, Handler
  <2>7. CASE Schema
    BY <2>7 DEF Dispatch
  <2>8. CASE Relation
    BY <2>1, <2>8 DEF Dispatch
  <2>9. CASE OtherObject
    BY <2>9 DEF Dispatch
  <2>10. CASE at("role") /\ n = 2 /\ path[2] \in RoleBuckets
    BY <2>10 DEF Dispatch, Reveals, Handler
  <2>11. CASE Role
    BY <2>11 DEF Dispatch
  <2>12. CASE ~ Nothing /\ ~ Notes /\ ~ Database /\ ~ Schema /\ ~ Relation
              /\ ~ (at("schema") /\ n = 4 /\ path[3] \in ObjectKinds) /\ ~ Role
    <3>1. Dispatch(url) = Unknown
      BY <2>12 DEF Dispatch
    <3> QED
      BY <3>1 DEF Unknown, Ignored, Handler
  <2> QED
    BY <2>1, <2>2, <2>3, <2>4, <2>5, <2>6, <2>7, <2>8, <2>9, <2>10, <2>11, <2>12
<1>2. CASE Dispatch(url).opens = NoPanel
  BY <1>2
<1>3. CASE Dispatch(url) = RevealsAndOpens(None, Panel(Object("notes", None, None), None, None))
  BY <1>3, OpenedPanel DEF RevealsAndOpens, Handler, Openable
<1>4. CASE Dispatch(url) = RevealsAndOpens("database",
                               Panel(Object("database", None, None), "diagram", None))
  BY <1>4, OpenedPanel DEF RevealsAndOpens, Handler, Openable
<1>5. CASE Dispatch(url) = SchemaRoute(path)
  BY <1>5, OpenedPanel
     DEF SchemaRoute, Unknown, Ignored, RevealsAndOpens, Handler, Openable
<1>6. CASE Relation /\ Dispatch(url) = RelationRoute(path, url.query)
  <2>1. KindOf(path[3]) \in RelationKinds
    BY <1>6 DEF KindOf, Segments
  <2>2. \/ Dispatch(url) = Unknown
        \/ \E view : /\ view = None \/ relationView(KindOf(path[3]), view)
                     /\ Dispatch(url).opens
                          = Panel(Object(KindOf(path[3]), path[2], path[4]), view, url.query)
    BY <1>6 DEF RelationRoute, RevealsAndOpens, Handler
  <2> QED
    BY <2>1, <2>2, OpenedPanel DEF Unknown, Ignored, Handler, Openable
<1>7. CASE OtherObject /\ Dispatch(url) = ObjectRoute(path, url.query)
  <2>1. Dispatch(url).opens.ref.kind = path[3]
    BY <1>7 DEF ObjectRoute, RevealsAndOpens, Handler, Panel, Object
  <2> QED
    BY <1>7, <2>1 DEF Openable
<1>8. CASE Role /\ Dispatch(url) = RoleRoute(path, url.query)
  <2>1. \/ Dispatch(url) = Unknown
        \/ \E view, query :
              /\ view \in RoleViews
              /\ Dispatch(url).opens = Panel(Object("role", None, path[3]), view, query)
    BY <1>8 DEF RoleRoute, RevealsAndOpens, Handler, RoleViews
  <2> QED
    BY <2>1, OpenedPanel DEF Unknown, Ignored, Handler, Openable
<1> QED
  BY <1>1, <1>2, <1>3, <1>4, <1>5, <1>6, <1>7, <1>8

-----------------------------------------------------------------------------
(* The address bar.                                                        *)

\* A tab that is not a query has a route, and that route leads back to it.
Routed ==
    /\ \A id \in DOMAIN tabs : id # NoTab /\ (IsQuery(id) \/ id \in DOMAIN routes)
    /\ \A id \in DOMAIN routes :
           id \in DOMAIN tabs /\ ~ IsQuery(id) /\ Leads(routes[id], id)

\* The address is the focused tab's, as resolveAddressBarRoute would say now:
\* what it said of the runs and the history still holds.
Shown ==
    active # NoTab =>
        /\ active \in DOMAIN tabs
        /\ IF active \in DOMAIN routes THEN address = routes[active]
           ELSE active \in DOMAIN runs /\ runs[active] \in history =>
                    address = queryHistoryPath(runs[active])

\* No tab's run has the stamp of a run to come.
Stamped ==
    /\ clock \in Nat
    /\ \A id \in DOMAIN runs : runs[id] \in 0 .. clock

DockInv == Routed /\ Shown /\ Stamped

AddressInv ==
    /\ DockInv
    /\ \A p \in searches : Openable(p)
    /\ area \in DOMAIN Panels

LEMMA AddressInvSuffices ==
  AddressInv => ReloadComesBack
<1> SUFFICES ASSUME AddressInv, active # NoTab
             PROVE  LET handler == Dispatch(address)
                    IN  IF IsQuery(active)
                        THEN active \in DOMAIN runs /\ runs[active] \in history =>
                                handler.replays = runs[active]
                        ELSE handler.opens # NoPanel /\ PanelId(handler.opens) = active
  BY DEF ReloadComesBack
<1>1. Routed /\ Shown
  BY DEF AddressInv, DockInv
<1>2. ASSUME NEW stamp
      PROVE  Dispatch(queryHistoryPath(stamp)).replays = stamp
  BY DEF Dispatch, queryHistoryPath, Handler
<1>3. CASE IsQuery(active)
  <2>1. active \notin DOMAIN routes
    BY <1>1, <1>3 DEF Routed
  <2>2. active \in DOMAIN runs /\ runs[active] \in history =>
            address = queryHistoryPath(runs[active])
    BY <1>1, <2>1 DEF Shown
  <2> QED
    BY <1>2, <1>3, <2>2
<1>4. CASE ~ IsQuery(active)
  <2>1. active \in DOMAIN routes /\ address = routes[active]
    BY <1>1, <1>4 DEF Routed, Shown
  <2>2. Leads(address, active)
    BY <1>1, <2>1 DEF Routed
  <2> QED
    BY <1>4, <2>2 DEF Leads
<1> QED
  BY <1>3, <1>4

\* What resolveAddressBarRoute answers for a tab.
LEMMA Resolved ==
  ASSUME NEW id, id # NoTab, NEW rs, NEW ran, NEW kept
  PROVE  LET shows == resolveAddressBarRoute(id, rs, ran, kept)
         IN  IF id \in DOMAIN rs THEN shows = rs[id]
             ELSE id \in DOMAIN ran /\ ran[id] \in kept => shows = queryHistoryPath(ran[id])
  BY DEF resolveAddressBarRoute

LEMMA QueryTabs ==
  ASSUME NEW n
  PROVE  IsQuery(QueryTab(n)) /\ QueryTab(n) # NoTab
  BY DEF IsQuery, QueryTab, NoTab

LEMMA WithFacts ==
  ASSUME NEW f, NEW id, NEW value
  PROVE  /\ DOMAIN With(f, id, value) = DOMAIN f \cup {id}
         /\ With(f, id, value)[id] = value
         /\ \A x \in DOMAIN f : x # id => With(f, id, value)[x] = f[x]
  BY DEF With

LEMMA WithoutFacts ==
  ASSUME NEW f, NEW id
  PROVE  /\ DOMAIN Without(f, id) = DOMAIN f \ {id}
         /\ \A x \in DOMAIN f \ {id} : Without(f, id)[x] = f[x]
  BY DEF Without

\* A tab that takes the focus is there, and shows its own address.
LEMMA FocusesShown ==
  ASSUME NEW id, id # NoTab, id \in DOMAIN tabs', Focuses(id, routes'),
         runs' = runs, history' = history
  PROVE  Shown'
<1>1. active' = id /\ address' = resolveAddressBarRoute(id, routes', runs', history')
  BY DEF Focuses
<1> QED
  BY <1>1, Resolved DEF Shown

\* A panel comes with its route.
LEMMA RoutedWith ==
  ASSUME Routed, NEW p, Openable(p), NEW tab,
         tabs' = With(tabs, PanelId(p), tab),
         routes' = With(routes, PanelId(p), RouteOf(p))
  PROVE  Routed' /\ PanelId(p) # NoTab /\ PanelId(p) \in DOMAIN tabs'
<1> DEFINE id == PanelId(p)
           route == RouteOf(p)
<1>1. ~ IsQuery(id) /\ id # NoTab /\ Leads(route, id)
  BY NotAQuery, RouteLeadsBack
<1> HIDE DEF id, route
<1>2. /\ DOMAIN tabs' = DOMAIN tabs \cup {id}
      /\ DOMAIN routes' = DOMAIN routes \cup {id}
      /\ routes'[id] = route
      /\ \A x \in DOMAIN routes : x # id => routes'[x] = routes[x]
  <2>1. tabs' = With(tabs, id, tab) /\ routes' = With(routes, id, route)
    BY DEF id, route
  <2>2. DOMAIN tabs' = DOMAIN tabs \cup {id}
    BY <2>1 DEF With
  <2>3. /\ DOMAIN routes' = DOMAIN routes \cup {id}
        /\ routes'[id] = route
        /\ \A x \in DOMAIN routes : x # id => routes'[x] = routes[x]
    BY <2>1 DEF With
  <2> QED
    BY <2>2, <2>3
<1>3. Routed'
  BY <1>1, <1>2 DEF Routed
<1> QED
  BY <1>1, <1>2, <1>3 DEF id

\* A query tab comes without.
LEMMA OpensQueryDock ==
  ASSUME DockInv, NEW replay, OpensQuery(replay), clock' = clock
  PROVE  DockInv'
<1>1. PICK id, tab : /\ IsQuery(id) /\ id # NoTab
                     /\ tabs' = With(tabs, id, tab)
                     /\ Focuses(id, routes)
  BY QueryTabs DEF OpensQuery
<1>2. routes' = routes /\ runs' = runs /\ history' = history
  BY DEF OpensQuery
<1>3. DOMAIN tabs' = DOMAIN tabs \cup {id}
  BY <1>1, WithFacts
<1>4. Routed'
  BY <1>1, <1>2, <1>3 DEF DockInv, Routed
<1>5. Shown'
  BY <1>1, <1>2, <1>3, FocusesShown
<1>6. Stamped'
  BY <1>2 DEF DockInv, Stamped
<1> QED
  BY <1>4, <1>5, <1>6 DEF DockInv

LEMMA OpensDock ==
  ASSUME DockInv, NEW p, Openable(p), Opens(p), clock' = clock
  PROVE  DockInv'
<1>1. CASE OpensQuery(TRUE)
  BY <1>1, OpensQueryDock
<1>2. CASE /\ PanelId(p) \in DOMAIN tabs
           /\ Focuses(PanelId(p), routes)
           /\ UNCHANGED <<tabs, routes, runs, opened, work_vars>>
  <2>1. tabs' = tabs /\ routes' = routes /\ runs' = runs /\ history' = history
    BY <1>2 DEF work_vars
  <2>2. Routed' /\ Stamped'
    BY <2>1 DEF DockInv, Routed, Stamped
  <2>3. PanelId(p) # NoTab
    BY NotAQuery
  <2>4. Shown'
    BY <1>2, <2>1, <2>3, FocusesShown
  <2> QED
    BY <2>2, <2>4 DEF DockInv
<1>3. CASE (OpensNotes(p) \/ OpensAsync(p)) /\ UNCHANGED work_vars
  <2>1. PICK tab : tabs' = With(tabs, PanelId(p), tab)
    BY <1>3 DEF OpensNotes, OpensAsync
  <2>2. /\ routes' = With(routes, PanelId(p), RouteOf(p))
        /\ Focuses(PanelId(p), routes')
        /\ runs' = runs /\ history' = history
    BY <1>3 DEF OpensNotes, OpensAsync, work_vars
  <2>3. Routed' /\ PanelId(p) # NoTab /\ PanelId(p) \in DOMAIN tabs'
    BY <2>1, <2>2, RoutedWith DEF DockInv
  <2>4. Shown'
    BY <2>2, <2>3, FocusesShown
  <2>5. Stamped'
    BY <2>2 DEF DockInv, Stamped
  <2> QED
    BY <2>3, <2>4, <2>5 DEF DockInv
<1> QED
  BY <1>1, <1>2, <1>3 DEF Opens

LEMMA ClosesDock ==
  ASSUME DockInv, NEW id \in DOMAIN tabs, Closes(id), clock' = clock
  PROVE  DockInv'
<1>1. /\ DOMAIN tabs' = DOMAIN tabs \ {id}
      /\ DOMAIN routes' = DOMAIN routes \ {id}
      /\ DOMAIN runs' = DOMAIN runs \ {id}
      /\ \A x \in DOMAIN routes' : routes'[x] = routes[x]
      /\ \A x \in DOMAIN runs' : runs'[x] = runs[x]
      /\ history' = history
  BY WithoutFacts DEF Closes
<1>2. Routed'
  BY <1>1 DEF DockInv, Routed
<1>3. Stamped'
  BY <1>1 DEF DockInv, Stamped
<1>4. CASE active # id
  <2>1. active' = active /\ address' = address
    BY <1>4 DEF Closes
  <2> QED
    BY <1>1, <1>2, <1>3, <1>4, <2>1 DEF DockInv, Shown
<1>5. CASE active = id
  <2>1. PICK next \in (DOMAIN tabs \ {id}) \cup {NoTab} :
            /\ active' = next
            /\ address' = IF next = active THEN address
                          ELSE resolveAddressBarRoute(next, routes', runs', history')
    BY <1>5 DEF Closes
  <2>2. CASE next = NoTab
    BY <1>2, <1>3, <2>1, <2>2 DEF DockInv, Shown
  <2>3. CASE next # NoTab
    <3>1. next # active /\ next \in DOMAIN tabs'
      BY <1>1, <1>5, <2>1, <2>3
    <3>2. address' = resolveAddressBarRoute(next, routes', runs', history')
      BY <2>1, <3>1
    <3>3. Shown'
      BY <2>1, <2>3, <3>1, <3>2, Resolved DEF Shown
    <3> QED
      BY <1>2, <1>3, <3>3 DEF DockInv
  <2> QED
    BY <2>2, <2>3
<1> QED
  BY <1>4, <1>5

\* recordQueryRun stamps a run later than every other.
LEMMA RunEndsDock ==
  ASSUME DockInv, RunEnds
  PROVE  DockInv'
<1>1. PICK id : /\ clock' = clock + 1
                /\ history' = history \cup {clock'}
                /\ runs' = With(runs, id, clock')
                /\ address' = IF id = active
                              THEN resolveAddressBarRoute(id, routes, runs', history')
                              ELSE address
  BY DEF RunEnds
<1>2. tabs' = tabs /\ active' = active /\ routes' = routes
  BY DEF RunEnds
<1>3. /\ DOMAIN runs' = DOMAIN runs \cup {id}
      /\ runs'[id] = clock'
      /\ \A x \in DOMAIN runs : x # id => runs'[x] = runs[x]
  BY <1>1 DEF With
<1>4. Routed'
  BY <1>2 DEF DockInv, Routed
<1>5. Stamped'
  BY <1>1, <1>3 DEF DockInv, Stamped
<1>6. CASE active = NoTab
  BY <1>2, <1>4, <1>5, <1>6 DEF DockInv, Shown
<1>7. CASE active # NoTab /\ id = active
  <2>1. address' = resolveAddressBarRoute(active', routes', runs', history')
    BY <1>1, <1>2, <1>7
  <2>2. active' \in DOMAIN tabs'
    BY <1>2, <1>7 DEF DockInv, Shown
  <2>3. Shown'
    BY <1>2, <1>7, <2>1, <2>2, Resolved DEF Shown
  <2> QED
    BY <1>4, <1>5, <2>3 DEF DockInv
<1>8. CASE active # NoTab /\ id # active
  <2>1. address' = address
    BY <1>1, <1>8
  <2>2. ASSUME active \in DOMAIN runs
        PROVE  /\ runs'[active] = runs[active]
               /\ runs[active] \in history' => runs[active] \in history
    BY <1>1, <1>3, <1>8, <2>2 DEF DockInv, Stamped
  <2>3. active \in DOMAIN runs' => active \in DOMAIN runs
    BY <1>3, <1>8
  <2>4. Shown'
    BY <1>2, <1>8, <2>1, <2>2, <2>3 DEF DockInv, Shown
  <2> QED
    BY <1>4, <1>5, <2>4 DEF DockInv
<1> QED
  BY <1>6, <1>7, <1>8

LEMMA FreshDock ==
  ASSUME FreshPage, clock' = clock, clock \in Nat
  PROVE  DockInv' /\ searches' = {}
<1>1. /\ tabs' = NoPanels /\ active' = NoTab /\ routes' = NoPanels /\ runs' = NoPanels
      /\ searches' = {}
  BY DEF FreshPage
<1>2. DOMAIN NoPanels = {}
  BY DEF NoPanels
<1> QED
  BY <1>1, <1>2 DEF DockInv, Routed, Shown, Stamped

\* A step that only changes what tabs hold, or how they are ordered.
LEMMA SameDock ==
  ASSUME DockInv, DOMAIN tabs' = DOMAIN tabs, UNCHANGED <<active, routes, runs, address>>,
         history' \subseteq history, clock' = clock
  PROVE  DockInv'
<1>1. active' = active /\ routes' = routes /\ runs' = runs /\ address' = address
  OBVIOUS
<1> QED
  BY <1>1 DEF DockInv, Routed, Shown, Stamped

LEMMA LandsDock ==
  ASSUME DockInv, CallLands
  PROVE  DockInv'
<1>1. clock' = clock
  BY DEF CallLands
<1>2. ASSUME NEW call, TabFills(call)
      PROVE  DockInv'
  <2>1. DOMAIN tabs' = DOMAIN tabs
    BY <1>2 DEF TabFills, Settled
  <2>2. UNCHANGED <<active, routes, runs, address, history>>
    BY <1>2 DEF TabFills, work_vars
  <2> QED
    BY <1>1, <2>1, <2>2, SameDock
<1>3. ASSUME UNCHANGED <<dock_vars, opened, work_vars>>
      PROVE  DockInv'
  BY <1>1, <1>3, SameDock DEF dock_vars, work_vars
<1>4. ASSUME NEW call, TabCloses(call)
      PROVE  DockInv'
  <2>1. CASE IsThere(call)
    BY <1>1, <1>4, <2>1, ClosesDock DEF TabCloses, IsThere
  <2>2. CASE ~ IsThere(call)
    BY <1>3, <1>4, <2>2 DEF TabCloses
  <2> QED
    BY <2>1, <2>2
<1>5. PICK call : PreviewLands(call) \/ GrantsLand(call) \/ GraphLands(call) \/ OtherLands(call)
                  \/ CallFails(call)
  BY DEF CallLands
<1>6. TabFills(call) \/ TabCloses(call) \/ UNCHANGED <<dock_vars, opened, work_vars>>
  BY <1>5 DEF PreviewLands, GrantsLand, GraphLands, OtherLands, CallFails
<1> QED
  BY <1>2, <1>3, <1>4, <1>6

LEMMA StartsDock ==
  ASSUME DockInv, Starts
  PROVE  DockInv'
<1>1. clock' = clock
  BY DEF Starts
<1>2. Dispatch(address).opens = NoPanel \/ Openable(Dispatch(address).opens)
  BY DispatchOpens
<1>3. CASE Dispatch(address).opens # NoPanel
  <2>1. Opens(Dispatch(address).opens)
    BY <1>3 DEF Starts, Shows
  <2> QED
    BY <1>1, <1>2, <1>3, <2>1, OpensDock
<1>4. CASE Dispatch(address).opens = NoPanel
  <2>1. OpensQuery(TRUE) \/ UNCHANGED <<dock_vars, opened, work_vars>>
    BY <1>4 DEF Starts
  <2>2. CASE OpensQuery(TRUE)
    BY <1>1, <2>2, OpensQueryDock
  <2>3. CASE UNCHANGED <<dock_vars, opened, work_vars>>
    BY <1>1, <2>3, SameDock DEF dock_vars, work_vars
  <2> QED
    BY <2>1, <2>2, <2>3
<1> QED
  BY <1>3, <1>4

LEMMA NextAddress ==
  AddressInv /\ [Next]_vars => AddressInv'
<1> SUFFICES ASSUME AddressInv, [Next]_vars PROVE AddressInv'
  OBVIOUS
<1>1. /\ DockInv
      /\ \A p \in searches : Openable(p)
      /\ area \in DOMAIN Panels
      /\ \A p \in Panels[area] : Openable(p)
      /\ clock \in Nat
  BY PanelsAssumption DEF AddressInv, DockInv, Stamped
<1>2. ASSUME area' = area, DockInv', searches' \subseteq searches
      PROVE  AddressInv'
  BY <1>1, <1>2 DEF AddressInv
<1>3. ASSUME UNCHANGED <<dock_vars, history, clock>>
      PROVE  DockInv'
  BY <1>1, <1>3, SameDock DEF dock_vars
<1>4. ASSUME NEW p \in Panels[area], Open(p) \/ Follow(p)
      PROVE  AddressInv'
  <2>1. Opens(p) /\ clock' = clock /\ searches' = searches /\ area' = area
    BY <1>4 DEF Open, Follow, Shows, Acts, OnlyTabs
  <2>2. DockInv'
    BY <1>1, <2>1, OpensDock
  <2> QED
    BY <1>2, <2>1, <2>2
<1>5. ASSUME NEW p \in Panels[area], FollowGrant(p)
      PROVE  AddressInv'
  <2>1. searches' = searches \cup {p} /\ area' = area /\ UNCHANGED <<dock_vars, history, clock>>
    BY <1>5 DEF FollowGrant, Acts, work_vars
  <2> QED
    BY <1>1, <1>3, <2>1 DEF AddressInv
<1>6. CASE SearchEnds
  <2>1. PICK p \in searches :
            /\ searches' = searches \ {p}
            /\ Opens(p) \/ UNCHANGED <<dock_vars, opened, work_vars, role_vars>>
    BY <1>6 DEF SearchEnds, Shows
  <2>2. area' = area /\ clock' = clock
    BY <1>6 DEF SearchEnds
  <2>3. CASE Opens(p)
    BY <1>1, <1>2, <2>1, <2>2, <2>3, OpensDock
  <2>4. CASE UNCHANGED <<dock_vars, opened, work_vars, role_vars>>
    BY <1>2, <1>3, <2>1, <2>2, <2>4 DEF work_vars
  <2> QED
    BY <2>1, <2>3, <2>4
<1>7. CASE CallLands
  BY <1>1, <1>2, <1>7, LandsDock DEF CallLands
<1>8. CASE RunEnds
  BY <1>1, <1>2, <1>8, RunEndsDock DEF RunEnds
<1>9. CASE NewQuery
  <2>1. OpensQuery(FALSE) /\ clock' = clock /\ searches' = searches /\ area' = area
    BY <1>9 DEF NewQuery, Acts, OnlyTabs
  <2> QED
    BY <1>1, <1>2, <2>1, OpensQueryDock
<1>10. ASSUME NEW id \in DOMAIN tabs, FocusTab(id)
       PROVE  AddressInv'
  <2>1. Focuses(id, routes) /\ clock' = clock /\ searches' = searches /\ area' = area
    BY <1>10 DEF FocusTab, Acts, OnlyTabs
  <2>2. tabs' = tabs /\ routes' = routes /\ runs' = runs /\ history' = history
    BY <1>10 DEF FocusTab, work_vars
  <2>3. id # NoTab /\ Routed' /\ Stamped'
    BY <1>1, <2>1, <2>2 DEF DockInv, Routed, Stamped
  <2>4. Shown'
    BY <2>1, <2>2, <2>3, FocusesShown
  <2> QED
    BY <1>2, <2>1, <2>3, <2>4 DEF DockInv
<1>11. ASSUME NEW id \in DOMAIN tabs, CloseTab(id)
       PROVE  AddressInv'
  <2>1. Closes(id) /\ clock' = clock /\ searches' = searches /\ area' = area
    BY <1>11 DEF CloseTab, Acts, OnlyTabs
  <2> QED
    BY <1>1, <1>2, <2>1, ClosesDock
<1>12. CASE ClearData
  <2>1. history' = {} /\ UNCHANGED <<dock_vars, clock, searches, area>>
    BY <1>12 DEF ClearData, Acts
  <2>2. DockInv'
    BY <1>1, <2>1, SameDock DEF dock_vars
  <2> QED
    BY <1>2, <2>1, <2>2
<1>13. CASE BootRecovers \/ SignedIn
  <2>1. Starts
    BY <1>13 DEF BootRecovers, SignedIn
  <2>2. DockInv'
    BY <1>1, <2>1, StartsDock
  <2> QED
    BY <1>2, <2>1, <2>2 DEF Starts
<1>14. CASE Reload \/ Leave \/ LogoutSettles
  <2>1. CASE Unloads
    <3>1. FreshPage /\ clock' = clock /\ area' = area
      BY <2>1 DEF Unloads
    <3>2. DockInv' /\ searches' = {}
      BY <1>1, <3>1, FreshDock
    <3> QED
      BY <1>2, <3>1, <3>2
  <2>2. CASE ~ Unloads
    <3>1. UNCHANGED <<page_vars, area>>
      BY <1>14, <2>2 DEF Reload, Leave, LogoutSettles, Acts
    <3> QED
      BY <1>2, <1>3, <3>1 DEF page_vars, work_vars
  <2> QED
    BY <2>1, <2>2
<1>15. CASE \/ \E role \in Roles : Preview(role)
            \/ \E id \in DOMAIN tabs : Run(id) \/ Edit(id)
  <2>1. UNCHANGED <<dock_vars, history, clock, searches, area>>
    BY <1>15 DEF Preview, Run, Edit, Acts, OnlyTabs, work_vars
  <2> QED
    BY <1>2, <1>3, <2>1
<1>16. CASE UseSidebar \/ ClearPresets \/ BootAsks \/ BootFails \/ Login \/ Stay \/ AskSignOut
            \/ AnswerSignOut \/ LogoutRejects
  <2>1. UNCHANGED <<page_vars, area>>
    BY <1>16 DEF UseSidebar, OnlySidebar, ClearPresets, BootAsks, BootFails, Login, Stay, AskSignOut,
                 AnswerSignOut, Confirms, LogoutRejects, Acts
  <2> QED
    BY <1>2, <1>3, <2>1 DEF page_vars, work_vars
<1>17. CASE UNCHANGED vars
  BY <1>2, <1>3, <1>17 DEF vars, page_vars, work_vars
<1> QED
  BY <1>4, <1>5, <1>6, <1>7, <1>8, <1>9, <1>10, <1>11, <1>12, <1>13, <1>14, <1>15, <1>16, <1>17
     DEF Next

LEMMA InitAddress == Init => AddressInv
<1> SUFFICES ASSUME NEW w \in Worlds,
                    /\ tabs = NoPanels /\ active = NoTab /\ routes = NoPanels /\ runs = NoPanels
                    /\ searches = {} /\ clock = Cardinality(w.history) /\ area = w.area
             PROVE  AddressInv
  BY DEF Init
<1>1. clock \in Nat /\ area \in DOMAIN Panels
  BY WorldsAssumption, FS_CardinalityType
<1>2. DOMAIN NoPanels = {}
  BY DEF NoPanels
<1> QED
  BY <1>1, <1>2 DEF AddressInv, DockInv, Routed, Shown, Stamped

\* Wherever its user stands, a reload comes back to the focused tab, or to the
\* latest kept run of the focused query (resolveAddressBarRoute, the routes
\* openAsyncPanel records and buildAppRouter agree, whatever was opened, run,
\* closed or cleared in between).
THEOREM ReloadReturns == Spec => []ReloadComesBack
  BY InitAddress, NextAddress, AddressInvSuffices, PTL DEF Spec

-----------------------------------------------------------------------------
(* The presets of the login dialog.                                        *)

IsRow(row) == DOMAIN row = {"conn", "isDefault"} /\ row.isDefault \in BOOLEAN

GoodRows(rows) ==
    /\ DOMAIN rows \subseteq Nat
    /\ IsFiniteSet(DOMAIN rows)
    /\ \A n \in DOMAIN rows : IsRow(rows[n])

\* The blob, the entries of the backend and the fields of the dialog.
StoreGood ==
    /\ DOMAIN presets = {"intact", "rows"}
    /\ ~ presets.intact => presets.rows = <<>>
    /\ GoodRows(presets.rows)
    /\ ServerEntries(config.servers)
    /\ DOMAIN dialog = {"entries", "picked", "form", "button", "seed"}
    /\ others \in Nat

\* The row that is to be the only flagged one.
Target(t) == IF t.row.isDefault THEN t.name ELSE 0

\* A write of setDefault leaves the connection as it was read.
Reflags(w, t, rows, now) ==
    /\ w.kind = "put"
    /\ w.name \in Nat
    /\ IsRow(w.row)
    /\ w.row.isDefault => w.name = Target(t)
    /\ t.seen = now => w.name \in DOMAIN rows /\ w.row.conn = rows[w.name].conn

\* A write the operation may still have to make.
Fits(w, t, rows, now) ==
    \/ t.op = "save" /\ w = Put(t.name, t.row)
    \/ t.op = "remove" /\ w = Drop(t.name)
    \/ t.op = "default" /\ Reflags(w, t, rows, now)

TaskGood ==
    /\ DOMAIN task = {"op", "name", "row", "read", "todo", "retried", "seen"}
    /\ task.op \in {"save", "remove", "default"}
    /\ task.op = "save" => task.name \in Nat
    /\ IsRow(task.row)
    /\ phase = "login"
    /\ task.seen \in Nat /\ task.seen <= others
    /\ \E S : task.todo \in Seq(S)
    /\ ~ task.read => task.todo = <<>>
    /\ \A i \in DOMAIN task.todo : Fits(task.todo[i], task, presets.rows, others)

\* The entries of the dialog flag no row that is not flagged.
EntriesTrue ==
    \A i \in DOMAIN dialog.entries :
        LET e == dialog.entries[i]
        IN  e.origin = "user" /\ e.isDefault =>
                e.name \in DOMAIN presets.rows /\ presets.rows[e.name].isDefault

FlaggedOnly(rows, name) == \A n \in DOMAIN rows : rows[n].isDefault => n = name

\* setDefault has still to clear every row flagged but one.
Clearing ==
    \A n \in DOMAIN presets.rows :
        presets.rows[n].isDefault =>
            n = Target(task) \/ \E i \in DOMAIN task.todo : task.todo[i].name = n

TaskFlags ==
    CASE task.op = "save" -> /\ OnlyOne(presets.rows)
                             /\ task.row.isDefault => FlaggedOnly(presets.rows, task.name)
      [] task.op = "remove" -> OnlyOne(presets.rows)
      [] task.op = "default" -> \/ task.todo = <<>> /\ OnlyOne(presets.rows)
                                \/ task.read /\ Clearing

PresetsInv ==
    /\ StoreGood
    /\ task # NoTask => TaskGood
    /\ task # NoTask /\ others = 0 => TaskFlags
    /\ task = NoTask /\ others = 0 => OnlyOne(presets.rows)
    /\ task = NoTask /\ others = 0 /\ phase = "login" => EntriesTrue

\* Names in order: the position of a name is how many are not above it.
Below(S, x) == {m \in S : m <= x}

LEMMA SortedIs ==
  ASSUME NEW S, S \subseteq Nat, IsFiniteSet(S)
  PROVE  /\ Sorted(S) \in Seq(S)
         /\ \A i \in DOMAIN Sorted(S) : Sorted(S)[i] \in S
         /\ \A x \in S : \E i \in DOMAIN Sorted(S) : Sorted(S)[i] = x
<1> DEFINE z == Cardinality(S)
           T == 1 .. z
           f == [x \in S |-> Cardinality(Below(S, x))]
<1>1. z \in Nat
  BY FS_CardinalityType
<1>2. \A x \in S : Below(S, x) \in SUBSET S
  BY DEF Below
<1>3. \A x \in S : IsFiniteSet(Below(S, x)) /\ Cardinality(Below(S, x)) <= z
  BY <1>2, FS_Subset
<1>4. \A x \in S : Cardinality(Below(S, x)) \in Nat
  BY <1>3, FS_CardinalityType
<1>5. \A x \in S : Cardinality(Below(S, x)) # 0
  <2>1. TAKE x \in S
  <2>2. x <= x /\ x \in Below(S, x)
    BY DEF Below
  <2> QED
    BY <1>3, <2>2, FS_EmptySet
<1>6. f \in [S -> T]
  BY <1>1, <1>3, <1>4, <1>5
<1>7. ASSUME NEW x \in S, NEW y \in S, x < y
      PROVE  f[x] # f[y]
  <2>1. \A m \in S : m \in Nat /\ (m <= x => m <= y)
    <3>1. \A m \in S : m \in Nat
      OBVIOUS
    <3> QED
      BY <1>7, <3>1
  <2>2. Below(S, x) \in SUBSET Below(S, y) /\ y \in Below(S, y) /\ y \notin Below(S, x)
    <3>1. y <= y /\ ~ (y <= x)
      BY <1>7, <2>1
    <3> QED
      BY <2>1, <3>1 DEF Below
  <2>3. Cardinality(Below(S, y)) # Cardinality(Below(S, x))
    BY <1>3, <2>2, FS_Subset
  <2> QED
    BY <2>3
<1>8. \A x \in S, y \in S : f[x] = f[y] => x = y
  <2>1. TAKE x \in S, y \in S
  <2>2. x = y \/ x < y \/ y < x
    OBVIOUS
  <2> HIDE DEF f
  <2> QED
    BY <1>7, <2>2
<1>9. IsFiniteSet(T) /\ Cardinality(T) = z
  BY <1>1, FS_Interval
<1> HIDE DEF f, T
<1>10. f \in Injection(S, T)
  BY <1>6, <1>8 DEF Injection, IsInjective
<1>11. f \in Surjection(S, T)
  BY <1>9, <1>10, FS_Injection DEF z
<1>12. \A i \in T : \E x \in S : f[x] = i
  BY <1>11 DEF Surjection
<1>13. DOMAIN Sorted(S) = T /\ \A i \in T : Sorted(S)[i] = CHOOSE x \in S : f[x] = i
  <2>1. \A i \in T : (CHOOSE x \in S : f[x] = i) = CHOOSE x \in S : Cardinality(Below(S, x)) = i
    BY DEF f
  <2>2. DOMAIN Sorted(S) = T
    BY DEF Sorted, T
  <2>3. \A i \in T : Sorted(S)[i] = CHOOSE x \in S : Cardinality(Below(S, x)) = i
    BY DEF Sorted, T, Below
  <2> QED
    BY <2>1, <2>2, <2>3
<1>14. \A i \in T : Sorted(S)[i] \in S /\ f[Sorted(S)[i]] = i
  BY <1>12, <1>13
<1>15. \A x \in S : f[x] \in T /\ Sorted(S)[f[x]] = x
  BY <1>6, <1>8, <1>14
<1>16. Sorted(S) = [i \in T |-> Sorted(S)[i]]
  BY DEF Sorted, T
<1>17. Sorted(S) \in Seq(S)
  BY <1>1, <1>14, <1>16 DEF T
<1> QED
  BY <1>13, <1>14, <1>15, <1>17

LEMMA ChangedIs ==
  ASSUME NEW rows, GoodRows(rows), NEW w, w.kind = "put" => w.name \in Nat /\ IsRow(w.row)
  PROVE  /\ GoodRows(Changed(rows, w))
         /\ w.kind = "put" => w.name \in DOMAIN Changed(rows, w) /\ Changed(rows, w)[w.name] = w.row
         /\ w.kind # "put" => w.name \notin DOMAIN Changed(rows, w)
         /\ \A n \in DOMAIN rows :
               n # w.name => n \in DOMAIN Changed(rows, w) /\ Changed(rows, w)[n] = rows[n]
         /\ \A n \in DOMAIN Changed(rows, w) :
               n # w.name => n \in DOMAIN rows /\ Changed(rows, w)[n] = rows[n]
<1> DEFINE D == (DOMAIN rows \ {w.name}) \cup (IF w.kind = "put" THEN {w.name} ELSE {})
           c == Changed(rows, w)
<1>1. DOMAIN c = D /\ \A n \in D : c[n] = IF n = w.name THEN w.row ELSE rows[n]
  BY DEF Changed
<1>2. D \subseteq Nat
  BY DEF GoodRows
<1>3. IsFiniteSet(D)
  <2>1. IsFiniteSet(DOMAIN rows \ {w.name})
    BY FS_Difference DEF GoodRows
  <2>2. IsFiniteSet(IF w.kind = "put" THEN {w.name} ELSE {})
    BY FS_Singleton, FS_EmptySet
  <2> QED
    BY <2>1, <2>2, FS_Union
<1> HIDE DEF c
<1>4. \A n \in D : IsRow(c[n])
  BY <1>1 DEF GoodRows
<1>5. GoodRows(c)
  BY <1>1, <1>2, <1>3, <1>4 DEF GoodRows
<1> QED
  BY <1>1, <1>5 DEF c

LEMMA NoRows == GoodRows(<<>>) /\ OnlyOne(<<>>) /\ DOMAIN <<>> = {}
<1>1. DOMAIN <<>> = {}
  OBVIOUS
<1> QED
  BY <1>1, FS_EmptySet DEF GoodRows, OnlyOne

LEMMA ReadsSafe ==
  ASSUME StoreGood
  PROVE  readSafe = presets.rows /\ GoodRows(presets.rows)
BY DEF StoreGood, readSafe

LEMMA JoinedEntries ==
  ASSUME NEW S, NEW s \in Seq(S), NEW t \in Seq(S)
  PROVE  \A i \in DOMAIN (s \o t) :
            \/ \E j \in DOMAIN s : (s \o t)[i] = s[j]
            \/ \E j \in DOMAIN t : (s \o t)[i] = t[j]
<1>1. /\ DOMAIN (s \o t) = 1 .. Len(s) + Len(t)
      /\ \A i \in 1 .. Len(s) + Len(t) :
            (s \o t)[i] = IF i <= Len(s) THEN s[i] ELSE t[i - Len(s)]
  OBVIOUS
<1>2. TAKE i \in DOMAIN (s \o t)
<1>3. CASE i <= Len(s)
  BY <1>1, <1>3
<1>4. CASE ~ (i <= Len(s))
  <2>1. i - Len(s) \in DOMAIN t
    BY <1>1, <1>4
  <2> QED
    BY <1>1, <1>4, <2>1
<1> QED
  BY <1>3, <1>4

\* The dialog shows what is stored.
LEMMA EntriesLoaded ==
  ASSUME StoreGood
  PROVE  \A i \in DOMAIN loadEntries :
            loadEntries[i].origin = "user" /\ loadEntries[i].isDefault =>
               /\ loadEntries[i].name \in DOMAIN presets.rows
               /\ presets.rows[loadEntries[i].name].isDefault
<1> DEFINE rows == presets.rows
           names == Sorted(DOMAIN rows)
           users == UserEntries
           servers == config.servers
           S == {servers[i] : i \in DOMAIN servers} \cup {users[i] : i \in DOMAIN users}
<1>1. readSafe = rows /\ names \in Seq(DOMAIN rows)
  BY ReadsSafe, SortedIs DEF GoodRows
<1>2. DOMAIN users = DOMAIN names /\ \A i \in DOMAIN users :
          users[i] = [name |-> names[i], conn |-> rows[names[i]].conn,
                      isDefault |-> rows[names[i]].isDefault, origin |-> "user"]
  BY <1>1 DEF UserEntries
<1>3. users = [i \in 1 .. Len(names) |-> users[i]] /\ Len(names) \in Nat /\ DOMAIN users = 1 .. Len(names)
  BY <1>1, <1>2 DEF UserEntries
<1>4. servers \in Seq(S) /\ \A i \in DOMAIN servers : servers[i].origin # "user"
  BY DEF StoreGood, ServerEntries
<1>5. \A i \in DOMAIN users : names[i] \in DOMAIN rows
  BY <1>1, <1>2
<1> HIDE DEF rows, names, users, servers
<1>6. users \in Seq(S)
  BY <1>3
<1>7. <<>> \in Seq(S)
  OBVIOUS
<1> HIDE DEF S
<1>8. loadEntries = servers \o users \/ loadEntries = servers \o <<>>
  BY DEF loadEntries, users, servers
<1>9. \A i \in DOMAIN loadEntries :
          \/ \E j \in DOMAIN servers : loadEntries[i] = servers[j]
          \/ \E j \in DOMAIN users : loadEntries[i] = users[j]
  <2>1. \A i \in DOMAIN (servers \o users) :
            \/ \E j \in DOMAIN servers : (servers \o users)[i] = servers[j]
            \/ \E j \in DOMAIN users : (servers \o users)[i] = users[j]
    BY <1>4, <1>6, JoinedEntries
  <2>2. \A i \in DOMAIN (servers \o <<>>) : \E j \in DOMAIN servers : (servers \o <<>>)[i] = servers[j]
    BY <1>4
  <2> QED
    BY <1>8, <2>1, <2>2
<1>10. \A j \in DOMAIN users : /\ users[j].isDefault = rows[names[j]].isDefault
                               /\ users[j].name = names[j]
  BY <1>2
<1> QED
  BY <1>4, <1>5, <1>9, <1>10 DEF rows

LEMMA TailIs ==
  ASSUME NEW S, NEW s \in Seq(S), s # <<>>
  PROVE  /\ Tail(s) \in Seq(S)
         /\ \E i \in DOMAIN s : Head(s) = s[i]
         /\ \A i \in DOMAIN Tail(s) : \E j \in DOMAIN s : Tail(s)[i] = s[j]
         /\ \A j \in DOMAIN s : s[j] = Head(s) \/ \E i \in DOMAIN Tail(s) : Tail(s)[i] = s[j]
<1>1. /\ Tail(s) \in Seq(S) /\ Head(s) = s[1] /\ 1 \in DOMAIN s
      /\ DOMAIN s = 1 .. Len(s) /\ DOMAIN Tail(s) = 1 .. Len(s) - 1 /\ Len(s) \in Nat
      /\ \A i \in 1 .. Len(s) - 1 : Tail(s)[i] = s[i + 1]
  OBVIOUS
<1>2. \A i \in DOMAIN Tail(s) : i + 1 \in DOMAIN s /\ Tail(s)[i] = s[i + 1]
  BY <1>1
<1>3. \A j \in DOMAIN s : j = 1 \/ (j - 1 \in DOMAIN Tail(s) /\ j = (j - 1) + 1)
  BY <1>1
<1>4. \A j \in DOMAIN s : j = 1 \/ (j - 1 \in DOMAIN Tail(s) /\ s[j] = Tail(s)[j - 1])
  BY <1>1, <1>3
<1> QED
  BY <1>1, <1>2, <1>4

\* The writes of setDefault, from the rows it has read.
Reflag(rows, n, name) == Put(n, [rows[n] EXCEPT !.isDefault = (n = name)])

LEMMA ReFlaggedIs ==
  ASSUME NEW rows, GoodRows(rows), NEW name
  PROVE  /\ \E S : ReFlagged(rows, name) \in Seq(S)
         /\ \A i \in DOMAIN ReFlagged(rows, name) : \E n \in DOMAIN rows :
               ReFlagged(rows, name)[i] = Reflag(rows, n, name)
         /\ \/ ReFlagged(rows, name) = <<>>
            \/ \A n \in DOMAIN rows :
                  rows[n].isDefault =>
                     n = name \/ \E i \in DOMAIN ReFlagged(rows, name) : ReFlagged(rows, name)[i].name = n
<1>1. CASE name # 0 /\ name \notin DOMAIN rows
  <2>1. ReFlagged(rows, name) = <<>>
    BY <1>1 DEF ReFlagged
  <2>2. <<>> \in Seq({}) /\ DOMAIN <<>> = {}
    OBVIOUS
  <2> QED
    BY <2>1, <2>2
<1>2. CASE ~ (name # 0 /\ name \notin DOMAIN rows)
  <2> DEFINE stale == {n \in DOMAIN rows : rows[n].isDefault # (n = name)}
             write(n) == Reflag(rows, n, name)
             todo == [i \in DOMAIN Sorted(stale) |-> write(Sorted(stale)[i])]
             W == {write(n) : n \in DOMAIN rows}
  <2>1. ReFlagged(rows, name) = todo
    BY <1>2 DEF ReFlagged, Reflag
  <2>2. stale \subseteq Nat /\ IsFiniteSet(stale) /\ stale \in SUBSET DOMAIN rows
    <3>1. stale \in SUBSET DOMAIN rows
      OBVIOUS
    <3> QED
      BY <3>1, FS_Subset DEF GoodRows
  <2>3. /\ Sorted(stale) \in Seq(stale)
        /\ \A i \in DOMAIN Sorted(stale) : Sorted(stale)[i] \in stale
        /\ \A n \in stale : \E i \in DOMAIN Sorted(stale) : Sorted(stale)[i] = n
    BY <2>2, SortedIs
  <2>4. \A n \in DOMAIN rows : rows[n].isDefault => n = name \/ n \in stale
    OBVIOUS
  <2>5. \A n \in DOMAIN rows : write(n).name = n
    BY DEF Reflag, Put
  <2> HIDE DEF stale, write
  <2>6. \A i \in DOMAIN Sorted(stale) : Sorted(stale)[i] \in DOMAIN rows
    BY <2>2, <2>3
  <2>7. todo \in Seq(W)
    BY <2>3, <2>6
  <2>8. \A i \in DOMAIN todo : \E n \in DOMAIN rows : todo[i] = write(n)
    BY <2>6
  <2>9. \A n \in DOMAIN rows :
            rows[n].isDefault => n = name \/ \E i \in DOMAIN todo : todo[i].name = n
    BY <2>2, <2>3, <2>4, <2>5
  <2> HIDE DEF todo, W
  <2> QED
    BY <2>1, <2>7, <2>8, <2>9 DEF write
<1> QED
  BY <1>1, <1>2

LEMMA AtMostOneWrite ==
  ASSUME NEW w, NEW todo, todo = <<w>> \/ todo = <<>>
  PROVE  todo \in Seq({w}) /\ \A i \in DOMAIN todo : todo[i] = w
<1>1. <<w>> \in Seq({w}) /\ \A i \in DOMAIN <<w>> : <<w>>[i] = w
  OBVIOUS
<1>2. <<>> \in Seq({w}) /\ DOMAIN <<>> = {}
  OBVIOUS
<1> QED
  BY <1>1, <1>2

LEMMA NoTaskIs ==
  /\ DOMAIN NoTask = {"op", "name", "row", "read", "todo", "retried", "seen"}
  /\ NoTask.op = "none" /\ NoTask.todo = <<>> /\ ~ NoTask.read
  /\ <<>> \in Seq({}) /\ DOMAIN <<>> = {}
BY DEF NoTask

LEMMA SameStore ==
  ASSUME StoreGood, UNCHANGED <<config, presets, others>>,
         DOMAIN dialog' = {"entries", "picked", "form", "button", "seed"}
  PROVE  StoreGood'
BY DEF StoreGood

\* An operation of this window begins.
LEMMA Begins ==
  ASSUME PresetsInv, NEW op \in {"save", "remove", "default"}, NEW name, NEW row, IsRow(row),
         op = "save" => name \in Nat,
         others = 0 /\ op = "save" /\ row.isDefault => FlaggedOnly(presets.rows, name),
         Begin(op, name, row)
  PROVE  PresetsInv'
<1>1. /\ phase' = "login" /\ task = NoTask /\ StoreGood
      /\ UNCHANGED <<config, presets, dialog, others>>
      /\ others = 0 => OnlyOne(presets.rows)
  BY DEF Begin, AtRest, PresetsInv
<1>2. task' = [NoTask EXCEPT !.op = op, !.name = name, !.row = row, !.seen = others]
  BY DEF Begin
<1>3. /\ DOMAIN task' = {"op", "name", "row", "read", "todo", "retried", "seen"}
      /\ task'.op = op /\ task'.name = name /\ task'.row = row /\ task'.seen = others
      /\ task'.todo = <<>> /\ ~ task'.read
  BY <1>2, NoTaskIs
<1>4. task' # NoTask
  BY <1>3, NoTaskIs
<1>5. StoreGood'
  BY <1>1, SameStore DEF StoreGood
<1>6. others' \in Nat /\ others' = others
  BY <1>1 DEF StoreGood
<1>7. TaskGood'
  BY <1>1, <1>3, <1>6, NoTaskIs DEF TaskGood
<1>8. (others = 0 => TaskFlags)'
  BY <1>1, <1>3 DEF TaskFlags
<1> QED
  BY <1>4, <1>5, <1>7, <1>8 DEF PresetsInv

LEMMA InTask ==
  ASSUME PresetsInv, task # NoTask
  PROVE  StoreGood /\ TaskGood /\ (others = 0 => TaskFlags)
BY DEF PresetsInv

LEMMA ReadsTask ==
  ASSUME PresetsInv, TaskReads
  PROVE  PresetsInv'
<1>1. /\ phase' = "login" /\ ~ task.read /\ UNCHANGED <<config, presets, dialog, others>>
      /\ task' = [task EXCEPT !.read = TRUE, !.todo = Writes(task, presets.rows)]
      /\ StoreGood /\ TaskGood /\ (others = 0 => TaskFlags) /\ GoodRows(presets.rows)
  BY InTask, ReadsSafe DEF TaskReads
<1>2. /\ DOMAIN task' = DOMAIN task /\ task'.op = task.op /\ task'.name = task.name
      /\ task'.row = task.row /\ task'.seen = task.seen /\ task'.read
      /\ task'.todo = Writes(task, presets.rows)
  BY <1>1 DEF TaskGood
<1>3. task'.op # "none" /\ task' # NoTask
  BY <1>1, <1>2, NoTaskIs DEF TaskGood
<1>4. StoreGood'
  BY <1>1, SameStore DEF StoreGood
<1> DEFINE todo == Writes(task, presets.rows)
<1>5. /\ \E S : todo \in Seq(S)
      /\ \A i \in DOMAIN todo : Fits(todo[i], task, presets.rows, others)
      /\ task.op = "default" /\ others = 0 =>
            \/ todo = <<>> /\ OnlyOne(presets.rows)
            \/ \A n \in DOMAIN presets.rows :
                  presets.rows[n].isDefault =>
                     n = Target(task) \/ \E i \in DOMAIN todo : todo[i].name = n
  <2>1. CASE task.op = "save"
    <3>1. todo = <<Put(task.name, task.row)>>
      BY <2>1 DEF Writes
    <3>2. todo \in Seq({Put(task.name, task.row)}) /\ \A i \in DOMAIN todo : todo[i] = Put(task.name, task.row)
      BY <3>1
    <3> QED
      BY <2>1, <3>2 DEF Fits
  <2>2. CASE task.op = "remove"
    <3>1. todo = <<Drop(task.name)>> \/ todo = <<>>
      BY <2>2 DEF Writes
    <3> HIDE DEF todo
    <3>2. todo \in Seq({Drop(task.name)}) /\ \A i \in DOMAIN todo : todo[i] = Drop(task.name)
      BY <3>1, AtMostOneWrite
    <3> QED
      BY <2>2, <3>2 DEF Fits
  <2>3. CASE task.op = "default"
    <3>1. todo = ReFlagged(presets.rows, Target(task))
      BY <2>3 DEF Writes, Target
    <3> HIDE DEF todo
    <3>2. ASSUME NEW n \in DOMAIN presets.rows,
                 NEW w, w = Reflag(presets.rows, n, Target(task))
          PROVE  Reflags(w, task, presets.rows, others)
      <4>1. n \in Nat /\ IsRow(presets.rows[n])
        BY <1>1 DEF GoodRows
      <4>2. PICK b \in BOOLEAN : b = (n = Target(task))
        OBVIOUS
      <4>3. w.kind = "put" /\ w.name = n /\ w.row = [presets.rows[n] EXCEPT !.isDefault = b]
        BY <3>2, <4>2 DEF Reflag, Put
      <4>4. DOMAIN w.row = {"conn", "isDefault"} /\ w.row.isDefault = b /\ w.row.conn = presets.rows[n].conn
        BY <4>1, <4>3 DEF IsRow
      <4> QED
        BY <4>1, <4>2, <4>3, <4>4 DEF Reflags, IsRow
    <3>4. /\ \E S : todo \in Seq(S)
          /\ \A i \in DOMAIN todo : \E n \in DOMAIN presets.rows :
                todo[i] = Reflag(presets.rows, n, Target(task))
          /\ \/ todo = <<>>
             \/ \A n \in DOMAIN presets.rows :
                  presets.rows[n].isDefault =>
                     n = Target(task) \/ \E i \in DOMAIN todo : todo[i].name = n
      <4>1. GoodRows(presets.rows)
        BY <1>1
      <4>2. PICK flags, name : flags = ReFlagged(presets.rows, name) /\ name = Target(task)
        OBVIOUS
      <4>3. /\ \E S : flags \in Seq(S)
            /\ \A i \in DOMAIN flags : \E n \in DOMAIN presets.rows :
                  flags[i] = Reflag(presets.rows, n, name)
            /\ \/ flags = <<>>
               \/ \A n \in DOMAIN presets.rows :
                     presets.rows[n].isDefault =>
                        n = name \/ \E i \in DOMAIN flags : flags[i].name = n
        <5>1. flags = ReFlagged(presets.rows, name)
          BY <4>2
        <5> QED
          BY ONLY <4>1, <5>1, ReFlaggedIs
      <4>4. todo = flags /\ name = Target(task)
        BY <3>1, <4>2
      <4> QED
        BY <4>3, <4>4
    <3>3. \A i \in DOMAIN todo : Reflags(todo[i], task, presets.rows, others)
      BY <3>2, <3>4
    <3>5. others = 0 => OnlyOne(presets.rows)
      BY <1>1, <2>3 DEF TaskFlags
    <3> QED
      BY <2>3, <3>3, <3>5, <3>4 DEF Fits
  <2> QED
    BY <1>1, <2>1, <2>2, <2>3 DEF TaskGood
<1> HIDE DEF todo
<1>6. task'.todo = todo
  BY <1>2 DEF todo
<1>7. Target(task') = Target(task) /\ \A w : Fits(w, task, presets.rows, others) => Fits(w, task', presets'.rows, others')
  BY <1>1, <1>2 DEF Target, Fits, Reflags
<1>8. TaskGood'
  BY <1>1, <1>2, <1>5, <1>6, <1>7 DEF TaskGood
<1>9. (others = 0 => TaskFlags)'
  <2> SUFFICES ASSUME others' = 0 PROVE TaskFlags'
    OBVIOUS
  <2>1. others = 0 /\ presets' = presets /\ task.op \in {"save", "remove", "default"}
    BY <1>1 DEF TaskGood
  <2>2. CASE task.op = "save"
    BY <1>1, <1>2, <2>1, <2>2 DEF TaskFlags
  <2>3. CASE task.op = "remove"
    BY <1>1, <1>2, <2>1, <2>3 DEF TaskFlags
  <2>4. CASE task.op = "default"
    <3>1. (task'.todo = <<>> /\ OnlyOne(presets'.rows)) \/ Clearing'
      BY <1>5, <1>6, <1>7, <2>1, <2>4 DEF Clearing
    <3> QED
      BY <1>2, <2>4, <3>1 DEF TaskFlags
  <2> QED
    BY <2>1, <2>2, <2>3, <2>4
<1> QED
  BY <1>3, <1>4, <1>8, <1>9 DEF PresetsInv

\* What one write of an operation does to the rows.
LEMMA Written ==
  ASSUME PresetsInv, task.todo # <<>>
  PROVE  /\ task # NoTask /\ StoreGood /\ TaskGood /\ (others = 0 => TaskFlags)
         /\ task.read /\ GoodRows(presets.rows)
         /\ \E i \in DOMAIN task.todo : Head(task.todo) = task.todo[i]
         /\ Fits(Head(task.todo), task, presets.rows, others)
         /\ GoodRows(Changed(presets.rows, Head(task.todo)))
         /\ task.op # "default" => Head(task.todo).name = task.name
         /\ task.op = "default" => Reflags(Head(task.todo), task, presets.rows, others)
         /\ task.op = "save" => Head(task.todo) = Put(task.name, task.row)
         /\ task.op = "remove" => Head(task.todo) = Drop(task.name)
<1>1. task # NoTask
  BY NoTaskIs
<1>2. StoreGood /\ TaskGood /\ (others = 0 => TaskFlags)
  BY <1>1, InTask
<1>3. task.read /\ GoodRows(presets.rows) /\ \E S : task.todo \in Seq(S)
  BY <1>2 DEF TaskGood, StoreGood
<1>4. \E i \in DOMAIN task.todo : Head(task.todo) = task.todo[i]
  BY <1>3, TailIs
<1> DEFINE w == Head(task.todo)
<1>5. Fits(w, task, presets.rows, others)
  BY <1>2, <1>4 DEF TaskGood
<1> HIDE DEF w
<1>6. task.op \in {"save", "remove", "default"} /\ (task.op = "save" => task.name \in Nat) /\ IsRow(task.row)
  BY <1>2 DEF TaskGood
<1>7. /\ task.op = "default" => Reflags(w, task, presets.rows, others)
      /\ task.op = "save" => w = Put(task.name, task.row)
      /\ task.op = "remove" => w = Drop(task.name)
  BY <1>5, <1>6 DEF Fits
<1>8. /\ task.op # "default" => w.name = task.name
      /\ w.kind = "put" => w.name \in Nat /\ IsRow(w.row)
  BY <1>6, <1>7 DEF Put, Drop, Reflags
<1>9. GoodRows(Changed(presets.rows, w))
  BY <1>3, <1>8, ChangedIs
<1> QED
  BY <1>1, <1>2, <1>3, <1>4, <1>5, <1>7, <1>8, <1>9 DEF w

LEMMA WrittenFlags ==
  ASSUME PresetsInv, task.todo # <<>>, others = 0, NEW rows,
         rows = Changed(presets.rows, Head(task.todo)), task.op # "default"
  PROVE  /\ OnlyOne(rows)
         /\ task.op = "save" /\ task.row.isDefault => FlaggedOnly(rows, task.name)
<1> DEFINE w == Head(task.todo)
           old == presets.rows
<1>1. /\ TaskGood /\ TaskFlags /\ GoodRows(old) /\ w.name = task.name
      /\ task.op = "save" => w = Put(task.name, task.row)
      /\ task.op = "remove" => w = Drop(task.name)
  BY Written
<1>2. /\ task.op \in {"save", "remove"} /\ (task.op = "save" => task.name \in Nat) /\ IsRow(task.row)
  BY <1>1 DEF TaskGood
<1>3. /\ task.op = "save" => w.kind = "put" /\ w.row = task.row
      /\ task.op = "remove" => w.kind # "put"
  BY <1>1 DEF Put, Drop
<1>4. w.kind = "put" => w.name \in Nat /\ IsRow(w.row)
  BY <1>1, <1>2, <1>3
<1>5. OnlyOne(old) /\ (task.op = "save" /\ task.row.isDefault => FlaggedOnly(old, task.name))
  BY <1>1, <1>2 DEF TaskFlags
<1> HIDE DEF w, old
<1>6. /\ w.kind = "put" => w.name \in DOMAIN rows /\ rows[w.name] = w.row
      /\ w.kind # "put" => w.name \notin DOMAIN rows
      /\ \A n \in DOMAIN rows : n # w.name => n \in DOMAIN old /\ rows[n] = old[n]
  BY <1>1, <1>4, ChangedIs DEF w, old
<1>7. \A n \in DOMAIN rows : rows[n].isDefault =>
          \/ n \in DOMAIN old /\ n # task.name /\ old[n].isDefault
          \/ task.op = "save" /\ n = task.name /\ task.row.isDefault
  BY <1>1, <1>2, <1>3, <1>6
<1>8. CASE task.op = "save" /\ task.row.isDefault
  <2>1. FlaggedOnly(rows, task.name)
    BY <1>5, <1>7, <1>8 DEF FlaggedOnly
  <2> QED
    BY <2>1 DEF FlaggedOnly, OnlyOne
<1>9. CASE ~ (task.op = "save" /\ task.row.isDefault)
  BY <1>5, <1>7, <1>9 DEF OnlyOne
<1> QED
  BY <1>8, <1>9

LEMMA WrittenClears ==
  ASSUME PresetsInv, task.todo # <<>>, others = 0, NEW rows,
         \/ rows = Changed(presets.rows, Head(task.todo))
         \/ rows = presets.rows /\ Head(task.todo).name \notin DOMAIN rows,
         task.op = "default"
  PROVE  \A n \in DOMAIN rows :
            rows[n].isDefault =>
               n = Target(task) \/ \E i \in DOMAIN Tail(task.todo) : Tail(task.todo)[i].name = n
<1> DEFINE w == Head(task.todo)
           old == presets.rows
<1>1. TaskGood /\ TaskFlags /\ GoodRows(old) /\ Reflags(w, task, old, others)
  BY Written
<1>2. Clearing
  BY <1>1 DEF TaskFlags
<1>3. \E S : task.todo \in Seq(S)
  BY <1>1 DEF TaskGood
<1>4. \A j \in DOMAIN task.todo :
          task.todo[j] = w \/ \E i \in DOMAIN Tail(task.todo) : Tail(task.todo)[i] = task.todo[j]
  BY <1>3, TailIs
<1>5. /\ w.kind = "put" /\ w.name \in Nat /\ IsRow(w.row)
      /\ w.row.isDefault => w.name = Target(task)
  BY <1>1 DEF Reflags
<1> HIDE DEF w, old
<1>6. \A n \in DOMAIN rows :
          \/ n = w.name /\ (rows[n].isDefault => n = Target(task))
          \/ n # w.name /\ n \in DOMAIN old /\ rows[n] = old[n]
  <2>1. CASE rows = old /\ w.name \notin DOMAIN rows
    BY <2>1
  <2>2. CASE rows = Changed(old, w)
    BY <1>1, <1>5, <2>2, ChangedIs
  <2> QED
    BY <2>1, <2>2 DEF w, old
<1>7. \A n \in DOMAIN old : old[n].isDefault =>
          n = Target(task) \/ \E j \in DOMAIN task.todo : task.todo[j].name = n
  BY <1>2 DEF Clearing, old
<1>8. SUFFICES ASSUME NEW n \in DOMAIN rows, rows[n].isDefault, n # Target(task)
               PROVE  \E i \in DOMAIN Tail(task.todo) : Tail(task.todo)[i].name = n
  OBVIOUS
<1>9. n # w.name /\ \E j \in DOMAIN task.todo : task.todo[j].name = n
  BY <1>6, <1>7, <1>8
<1> QED
  BY <1>4, <1>9

LEMMA WritesTask ==
  ASSUME PresetsInv, TaskWrites
  PROVE  PresetsInv'
<1> DEFINE w == Head(task.todo)
<1>1. /\ phase' = "login" /\ task.todo # <<>> /\ UNCHANGED <<config, dialog, others>>
      /\ task' = [task EXCEPT !.todo = Tail(@)] /\ presets.intact
      /\ \/ presets' = [presets EXCEPT !.rows = Changed(@, w)]
         \/ task.op = "default" /\ w.name \notin DOMAIN presets.rows /\ presets' = presets
  BY DEF TaskWrites
<1>2. /\ task # NoTask /\ StoreGood /\ TaskGood /\ (others = 0 => TaskFlags)
      /\ task.read /\ GoodRows(presets.rows) /\ GoodRows(Changed(presets.rows, w))
      /\ task.op = "default" => Reflags(w, task, presets.rows, others)
  BY <1>1, Written
<1>3. /\ DOMAIN presets' = {"intact", "rows"} /\ presets'.intact
      /\ \/ presets'.rows = Changed(presets.rows, w)
         \/ task.op = "default" /\ w.name \notin DOMAIN presets.rows /\ presets'.rows = presets.rows
  BY <1>1, <1>2 DEF StoreGood
<1>4. StoreGood'
  BY <1>1, <1>2, <1>3 DEF StoreGood
<1>5. /\ DOMAIN task' = DOMAIN task /\ task'.op = task.op /\ task'.name = task.name
      /\ task'.row = task.row /\ task'.seen = task.seen /\ task'.read = task.read
      /\ task'.todo = Tail(task.todo)
  BY <1>1, <1>2 DEF TaskGood
<1>6. task' # NoTask /\ Target(task') = Target(task)
  BY <1>2, <1>5, NoTaskIs DEF TaskGood, Target
<1>7. /\ \E S : Tail(task.todo) \in Seq(S)
      /\ \A i \in DOMAIN Tail(task.todo) : \E j \in DOMAIN task.todo : Tail(task.todo)[i] = task.todo[j]
  <2>1. PICK S : task.todo \in Seq(S)
    BY <1>2 DEF TaskGood
  <2> QED
    BY <1>1, <2>1, TailIs
<1>8. ASSUME NEW i \in DOMAIN Tail(task.todo)
      PROVE  Fits(Tail(task.todo)[i], task', presets'.rows, others')
  <2>1. PICK j \in DOMAIN task.todo : Tail(task.todo)[i] = task.todo[j]
    BY <1>7
  <2> DEFINE v == task.todo[j]
  <2>2. Fits(v, task, presets.rows, others) /\ task.op \in {"save", "remove", "default"}
    BY <1>2 DEF TaskGood
  <2> SUFFICES Fits(v, task', presets'.rows, others')
    BY <2>1
  <2> HIDE DEF v, w
  <2>3. CASE task.op # "default"
    <3>1. Put(task'.name, task'.row) = Put(task.name, task.row) /\ Drop(task'.name) = Drop(task.name)
      BY <1>5
    <3>2. \/ task.op = "save" /\ v = Put(task.name, task.row)
          \/ task.op = "remove" /\ v = Drop(task.name)
      BY <2>2, <2>3 DEF Fits
    <3> QED
      BY <1>5, <3>1, <3>2 DEF Fits
  <2>4. CASE task.op = "default"
    <3>1. Reflags(v, task, presets.rows, others) /\ Reflags(w, task, presets.rows, others)
      BY <1>2, <2>2, <2>4 DEF Fits
    <3>2. ASSUME task.seen = others
          PROVE  v.name \in DOMAIN presets'.rows /\ v.row.conn = presets'.rows[v.name].conn
      <4>1. /\ v.name \in DOMAIN presets.rows /\ v.row.conn = presets.rows[v.name].conn
            /\ w.name \in DOMAIN presets.rows /\ w.row.conn = presets.rows[w.name].conn
            /\ w.kind = "put" /\ w.name \in Nat /\ IsRow(w.row)
        BY <3>1, <3>2 DEF Reflags
      <4>2. presets'.rows = Changed(presets.rows, w)
        BY <1>3, <4>1
      <4>3. /\ w.name \in DOMAIN presets'.rows /\ presets'.rows[w.name] = w.row
            /\ v.name # w.name => v.name \in DOMAIN presets'.rows
                                  /\ presets'.rows[v.name] = presets.rows[v.name]
        BY <1>2, <4>1, <4>2, ChangedIs
      <4>4. CASE v.name = w.name
        <5>1. v.name \in DOMAIN presets'.rows /\ presets'.rows[v.name] = w.row
          BY <4>3, <4>4
        <5>2. v.row.conn = w.row.conn
          BY <4>1, <4>4
        <5> QED
          BY <5>1, <5>2
      <4>5. CASE v.name # w.name
        BY <4>1, <4>3, <4>5
      <4> QED
        BY <4>4, <4>5
    <3>3. Reflags(v, task', presets'.rows, others')
      BY <1>1, <1>5, <1>6, <3>1, <3>2 DEF Reflags
    <3> QED
      BY <1>5, <2>4, <3>3 DEF Fits
  <2> QED
    BY <2>3, <2>4
<1>9. TaskGood'
  BY <1>1, <1>2, <1>5, <1>7, <1>8 DEF TaskGood
<1>10. (others = 0 => TaskFlags)'
  <2> SUFFICES ASSUME others' = 0 PROVE TaskFlags'
    OBVIOUS
  <2>1. others = 0 /\ task.op \in {"save", "remove", "default"}
    BY <1>1, <1>2 DEF TaskGood
  <2>2. CASE task.op # "default"
    <3>1. PICK rows : rows = presets'.rows
      OBVIOUS
    <3>2. rows = Changed(presets.rows, Head(task.todo))
      BY <1>3, <2>2, <3>1
    <3>3. /\ OnlyOne(rows)
          /\ task.op = "save" /\ task.row.isDefault => FlaggedOnly(rows, task.name)
      BY <1>1, <2>1, <2>2, <3>2, WrittenFlags
    <3> QED
      BY <1>5, <2>1, <2>2, <3>1, <3>3 DEF TaskFlags
  <2>3. CASE task.op = "default"
    <3>1. PICK rows : rows = presets'.rows
      OBVIOUS
    <3>2. \/ rows = Changed(presets.rows, Head(task.todo))
          \/ rows = presets.rows /\ Head(task.todo).name \notin DOMAIN rows
      BY <1>3, <3>1
    <3>3. \A n \in DOMAIN rows :
            rows[n].isDefault =>
               n = Target(task) \/ \E i \in DOMAIN Tail(task.todo) : Tail(task.todo)[i].name = n
      BY <1>1, <2>1, <2>3, <3>2, WrittenClears
    <3>4. Clearing'
      BY <1>5, <1>6, <3>1, <3>3 DEF Clearing
    <3> QED
      BY <1>2, <1>5, <2>3, <3>4 DEF TaskFlags
  <2> QED
    BY <2>2, <2>3
<1> QED
  BY <1>4, <1>6, <1>9, <1>10 DEF PresetsInv

LEMMA RepairsTask ==
  ASSUME PresetsInv, TaskRepairs
  PROVE  PresetsInv'
<1>1. /\ phase' = "login" /\ task.todo # <<>> /\ UNCHANGED <<config, dialog, others>>
      /\ presets' = [intact |-> TRUE, rows |-> <<>>]
      /\ task' = [task EXCEPT !.read = FALSE, !.todo = <<>>, !.retried = TRUE]
  BY DEF TaskRepairs
<1>2. StoreGood /\ TaskGood
  BY <1>1, Written
<1>3. DOMAIN presets' = {"intact", "rows"} /\ presets'.intact /\ presets'.rows = <<>>
  BY <1>1
<1>4. StoreGood'
  BY <1>1, <1>2, <1>3, NoRows DEF StoreGood
<1>5. /\ DOMAIN task' = DOMAIN task /\ task'.op = task.op /\ task'.name = task.name
      /\ task'.row = task.row /\ task'.seen = task.seen /\ ~ task'.read /\ task'.todo = <<>>
  BY <1>1, <1>2 DEF TaskGood
<1>6. task' # NoTask
  BY <1>2, <1>5, NoTaskIs DEF TaskGood
<1>7. TaskGood'
  BY <1>1, <1>2, <1>5, NoTaskIs DEF TaskGood
<1>8. OnlyOne(presets'.rows) /\ \A name : FlaggedOnly(presets'.rows, name)
  BY <1>3, NoRows DEF FlaggedOnly
<1>9. TaskFlags'
  BY <1>2, <1>5, <1>8 DEF TaskFlags, TaskGood
<1> QED
  BY <1>4, <1>6, <1>7, <1>9 DEF PresetsInv

\* An operation has ended: the dialog shows what is stored again.
LEMMA EndsTask ==
  ASSUME PresetsInv, TaskEnds
  PROVE  PresetsInv'
<1>1. /\ phase' = "login" /\ task.read /\ task.todo = <<>> /\ task' = NoTask
      /\ UNCHANGED <<config, presets, others>>
  BY DEF TaskEnds
<1>2. PICK picked, button :
          dialog' = [dialog EXCEPT !.entries = loadEntries, !.picked = picked, !.button = button]
  BY DEF TaskEnds
<1>3. task # NoTask
  BY <1>1, NoTaskIs
<1>4. StoreGood /\ TaskGood /\ (others = 0 => TaskFlags)
  BY <1>3, InTask
<1>5. DOMAIN dialog' = DOMAIN dialog /\ dialog'.entries = loadEntries
  BY <1>2, <1>4 DEF StoreGood
<1>6. StoreGood'
  BY <1>1, <1>4, <1>5, SameStore DEF StoreGood
<1>7. EntriesTrue'
  BY <1>1, <1>4, <1>5, EntriesLoaded DEF EntriesTrue
<1>8. others = 0 => OnlyOne(presets.rows)
  <2>1. DOMAIN task.todo = {} /\ task.op \in {"save", "remove", "default"}
    BY <1>1, <1>4, NoTaskIs DEF TaskGood
  <2>2. Clearing => OnlyOne(presets.rows)
    BY <2>1 DEF Clearing, OnlyOne
  <2> QED
    BY <1>4, <2>1, <2>2 DEF TaskFlags
<1> QED
  BY <1>1, <1>6, <1>7, <1>8 DEF PresetsInv

LEMMA OtherWrites ==
  ASSUME PresetsInv, OtherWindow
  PROVE  PresetsInv'
<1>1. PICK n \in Names, conn \in Conns, isDefault \in BOOLEAN :
          \E w \in {Drop(n), Put(n, [conn |-> conn, isDefault |-> isDefault])} :
               presets' = [presets EXCEPT !.rows = Changed(@, w)]
  BY DEF OtherWindow
<1>2. PICK w \in {Drop(n), Put(n, [conn |-> conn, isDefault |-> isDefault])} :
               presets' = [presets EXCEPT !.rows = Changed(@, w)]
  BY <1>1
<1>3. /\ phase' = "login" /\ phase = "login" /\ presets.intact /\ others' = others + 1
      /\ UNCHANGED <<config, dialog, task>> /\ StoreGood /\ (task # NoTask => TaskGood)
  BY DEF OtherWindow, PresetsInv
<1>4. w.kind = "put" => w.name \in Nat /\ IsRow(w.row)
  <2>1. n \in Nat
    BY NamesAssumption
  <2>2. PICK row : row = [conn |-> conn, isDefault |-> isDefault]
    OBVIOUS
  <2>3. IsRow(row)
    BY <2>2 DEF IsRow
  <2>4. w = Drop(n) \/ w = Put(n, row)
    BY <2>2
  <2> QED
    BY <2>1, <2>3, <2>4 DEF Put, Drop
<1>5. GoodRows(Changed(presets.rows, w))
  BY <1>3, <1>4, ChangedIs DEF StoreGood
<1>6. DOMAIN presets' = {"intact", "rows"} /\ presets'.intact /\ presets'.rows = Changed(presets.rows, w)
  BY <1>2, <1>3 DEF StoreGood
<1>7. others \in Nat /\ others' \in Nat /\ others' # 0 /\ \A k \in Nat : k <= others => k <= others' /\ k # others'
  BY <1>3 DEF StoreGood
<1>8. StoreGood'
  BY <1>3, <1>5, <1>6, <1>7 DEF StoreGood
<1>9. ASSUME TaskGood
      PROVE  TaskGood'
  <2>1. task.seen \in Nat /\ task.seen <= others' /\ task.seen # others'
    BY <1>7, <1>9 DEF TaskGood
  <2>2. \A v : Fits(v, task, presets.rows, others) => Fits(v, task, presets'.rows, others')
    BY <2>1 DEF Fits, Reflags
  <2> QED
    BY <1>3, <1>9, <2>1, <2>2 DEF TaskGood
<1> QED
  BY <1>3, <1>7, <1>8, <1>9 DEF PresetsInv

\* The store, at rest, is as it was; the dialog flags what it flagged.
LEMMA DialogMoves ==
  ASSUME PresetsInv, task = NoTask, UNCHANGED <<config, presets, task, others>>,
         DOMAIN dialog' = {"entries", "picked", "form", "button", "seed"},
         phase' = "login" => dialog'.entries = loadEntries
                             \/ (phase = "login" /\ dialog'.entries = dialog.entries)
  PROVE  PresetsInv'
<1>1. StoreGood /\ (others = 0 => OnlyOne(presets.rows)) /\ (others = 0 /\ phase = "login" => EntriesTrue)
  BY DEF PresetsInv
<1>2. StoreGood'
  BY <1>1, SameStore
<1>3. ASSUME others' = 0, phase' = "login"
      PROVE  EntriesTrue'
  <2>1. CASE dialog'.entries = loadEntries
    BY <1>1, <2>1, EntriesLoaded DEF EntriesTrue
  <2>2. CASE phase = "login" /\ dialog'.entries = dialog.entries
    BY <1>1, <1>3, <2>2 DEF EntriesTrue
  <2> QED
    BY <1>3, <2>1, <2>2
<1> QED
  BY <1>1, <1>2, <1>3 DEF PresetsInv

\* Outside the dialog no operation is under way.
LEMMA RestsElsewhere ==
  ASSUME PresetsInv, phase # "login"
  PROVE  task = NoTask
BY DEF PresetsInv, TaskGood

LEMMA PageMoves ==
  ASSUME PresetsInv, UNCHANGED <<config, presets, dialog, task, others>>, phase # "login",
         phase' # "login"
  PROVE  PresetsInv'
BY RestsElsewhere, SameStore DEF PresetsInv, StoreGood

LEMMA CreatedDialog ==
  ASSUME NEW seed
  PROVE  /\ Created(seed).entries = loadEntries
         /\ DOMAIN Created(seed) = {"entries", "picked", "form", "button", "seed"}
BY DEF Created

LEMMA LoginInv ==
  ASSUME PresetsInv, LoginNext
  PROVE  PresetsInv'
<1>1. DOMAIN dialog = {"entries", "picked", "form", "button", "seed"}
  BY DEF PresetsInv, StoreGood
<1>2. ASSUME NEW k, Pick(k)
      PROVE  PresetsInv'
  <2>1. PICK form, button :
            dialog' = [dialog EXCEPT !.picked = k, !.form = form, !.button = button]
    BY <1>2 DEF Pick
  <2>2. task = NoTask /\ phase = "login" /\ UNCHANGED <<config, presets, task, others>>
    BY <1>2 DEF Pick, AtRest
  <2>3. DOMAIN dialog' = DOMAIN dialog /\ dialog'.entries = dialog.entries
    BY <1>1, <2>1
  <2> QED
    BY <1>1, <2>2, <2>3, DialogMoves
<1>3. ASSUME NEW form, Type(form)
      PROVE  PresetsInv'
  <2>1. task = NoTask /\ phase = "login" /\ UNCHANGED <<config, presets, task, others>>
    BY <1>3 DEF Type, AtRest
  <2>2. DOMAIN dialog' = DOMAIN dialog /\ dialog'.entries = dialog.entries
    BY <1>1, <1>3 DEF Type
  <2> QED
    BY <1>1, <2>1, <2>2, DialogMoves
<1>4. ASSUME NEW name \in Names, SavePreset(name)
      PROVE  PresetsInv'
  <2>1. PICK b \in BOOLEAN : b = WasDefault(name)
    BY DEF WasDefault
  <2>2. PICK row : row = [conn |-> dialog.form.conn, isDefault |-> b] /\ Begin("save", name, row)
    BY <1>4, <2>1 DEF SavePreset
  <2>3. IsRow(row) /\ row.isDefault = b /\ name \in Nat
    BY <2>2, NamesAssumption DEF IsRow
  <2>4. ASSUME others = 0, row.isDefault
        PROVE  FlaggedOnly(presets.rows, name)
    <3>1. OnlyOne(presets.rows) /\ EntriesTrue
      BY <2>2, <2>4 DEF Begin, AtRest, PresetsInv
    <3>2. WasDefault(name)
      BY <2>1, <2>3, <2>4
    <3>3. name \in DOMAIN presets.rows /\ presets.rows[name].isDefault
      BY <3>1, <3>2 DEF WasDefault, EntriesTrue
    <3> QED
      BY <3>1, <3>3 DEF OnlyOne, FlaggedOnly
  <2> QED
    BY <2>2, <2>3, <2>4, Begins
<1>5. IsRow(NoRow) /\ \A b \in BOOLEAN : IsRow([NoRow EXCEPT !.isDefault = b])
  BY DEF IsRow, NoRow
<1>6. CASE DeleteSelected
  <2>1. PICK name : Begin("remove", name, NoRow)
    BY <1>6 DEF DeleteSelected
  <2> QED
    BY <1>5, <2>1, Begins
<1>7. CASE ToggleDefault
  <2>1. PICK e : Begin("default", e.name, [NoRow EXCEPT !.isDefault = ~ e.isDefault])
    BY <1>7 DEF ToggleDefault
  <2>2. PICK b \in BOOLEAN : b = ~ e.isDefault
    OBVIOUS
  <2>3. Begin("default", e.name, [NoRow EXCEPT !.isDefault = b])
    BY <2>1, <2>2
  <2> QED
    BY <1>5, <2>3, Begins
<1>8. CASE SignIn \/ LoginFails
  <2>1. task = NoTask /\ UNCHANGED <<config, presets, task, others>> /\ phase' # "login"
    BY <1>8, RestsElsewhere DEF SignIn, LoginFails, AtRest
  <2>2. DOMAIN dialog' = DOMAIN dialog
    BY <1>1, <1>8 DEF SignIn, LoginFails
  <2> QED
    BY <1>1, <2>1, <2>2, DialogMoves
<1>9. CASE Reopen
  <2>1. task = NoTask /\ UNCHANGED <<config, presets, task, others>> /\ dialog' = Created(dialog.seed)
    BY <1>9, RestsElsewhere DEF Reopen
  <2> QED
    BY <2>1, CreatedDialog, DialogMoves
<1> QED
  BY <1>2, <1>3, <1>4, <1>6, <1>7, <1>8, <1>9, ReadsTask, WritesTask, RepairsTask, EndsTask,
     OtherWrites
     DEF LoginNext

\* The browser asks only where the application is.
AsksInApp == leaving = "asked" => phase = "app"

LEMMA NextAsks == AsksInApp /\ [Next]_vars => AsksInApp'
<1> SUFFICES ASSUME AsksInApp, [Next]_vars PROVE AsksInApp'
  OBVIOUS
<1>1. UNCHANGED <<phase, leaving>> => AsksInApp'
  BY DEF AsksInApp
<1>2. CASE Login
  <2>1. phase # "app" /\ leaving' = leaving
    BY <1>2
       DEF Login, LoginNext, leave_vars, Pick, Type, SavePreset, DeleteSelected, ToggleDefault, Begin,
           AtRest, TaskReads, TaskWrites, TaskRepairs, TaskEnds, OtherWindow, SignIn, LoginFails, Reopen
  <2> QED
    BY <2>1 DEF AsksInApp
<1>3. CASE BootRecovers \/ BootAsks \/ BootFails \/ SignedIn
  <2>1. phase # "app" /\ leaving' = leaving
    BY <1>3
       DEF BootRecovers, BootAsks, BootFails, SignedIn, LoginSucceeds, Starts, leave_vars
  <2> QED
    BY <2>1 DEF AsksInApp
<1>4. CASE Reload \/ Leave \/ LogoutSettles \/ Stay
  <2>1. leaving' = "no" \/ (phase = "app" /\ phase' = phase)
    BY <1>4 DEF Reload, Leave, LogoutSettles, Stay, Unloads, FreshPage, Acts, InApp, login_vars
  <2> QED
    BY <2>1 DEF AsksInApp
<1>5. CASE ~ (Login \/ BootRecovers \/ BootAsks \/ BootFails \/ SignedIn \/ Reload \/ Leave
              \/ LogoutSettles \/ Stay)
  <2>1. UNCHANGED <<phase, leaving>>
    BY <1>5
       DEF Next, vars, login_vars, leave_vars, Open, Follow, FollowGrant, Preview, Run, FocusTab,
           CloseTab, Edit, NewQuery, RunEnds, SearchEnds, CallLands, OnlyTabs, UseSidebar,
           OnlySidebar, ClearData, ClearPresets, AskSignOut, AnswerSignOut, Confirms, LogoutRejects
  <2> QED
    BY <1>1, <2>1
<1> QED
  BY <1>2, <1>3, <1>4, <1>5

LEMMA NextPresets == PresetsInv /\ AsksInApp /\ [Next]_vars => PresetsInv'
<1> SUFFICES ASSUME PresetsInv, AsksInApp, [Next]_vars PROVE PresetsInv'
  OBVIOUS
<1>1. ASSUME UNCHANGED login_vars
      PROVE  PresetsInv'
  <2>1. UNCHANGED <<phase, config, presets, dialog, task, others>>
    BY <1>1 DEF login_vars
  <2>2. /\ StoreGood' = StoreGood /\ TaskGood' = TaskGood /\ TaskFlags' = TaskFlags
        /\ EntriesTrue' = EntriesTrue
    BY <2>1 DEF StoreGood, TaskGood, TaskFlags, Clearing, EntriesTrue
  <2> QED
    BY <2>1, <2>2 DEF PresetsInv
<1>2. CASE Login
  BY <1>2, LoginInv DEF Login, LoginNext
<1>3. CASE BootAsks
  <2>1. task = NoTask /\ UNCHANGED <<config, presets, task, others>> /\ dialog' = Created(NoSeed)
    BY <1>3, RestsElsewhere DEF BootAsks, OpenLogin
  <2> QED
    BY <2>1, CreatedDialog, DialogMoves
<1>4. CASE BootRecovers \/ BootFails
  BY <1>4, PageMoves DEF BootRecovers, BootFails
<1>5. CASE SignedIn
  <2>1. task = NoTask /\ UNCHANGED <<config, presets, task, others>> /\ dialog' = NoDialog /\ phase' = "app"
    BY <1>5, RestsElsewhere DEF SignedIn, LoginSucceeds
  <2>2. DOMAIN dialog' = {"entries", "picked", "form", "button", "seed"}
    BY <2>1 DEF NoDialog
  <2> QED
    BY <2>1, <2>2, DialogMoves
<1>6. CASE Reload \/ Leave \/ LogoutSettles
  <2>1. CASE Unloads
    <3>1. UNCHANGED <<config, presets, dialog, task, others>> /\ phase' = "boot"
      BY <2>1 DEF Unloads
    <3>2. phase = "app"
      BY <1>6 DEF Reload, Leave, LogoutSettles, Acts, InApp, AsksInApp
    <3> QED
      BY <3>1, <3>2, PageMoves
  <2>2. CASE ~ Unloads
    BY <1>1, <1>6, <2>2 DEF Reload, Leave, LogoutSettles
  <2> QED
    BY <2>1, <2>2
<1>7. CASE ClearPresets
  <2>1. /\ phase = "app" /\ phase' = "app" /\ presets' = [intact |-> TRUE, rows |-> <<>>]
        /\ UNCHANGED <<config, dialog, task, others>>
    BY <1>7 DEF ClearPresets, Acts, InApp
  <2>2. task = NoTask /\ StoreGood
    BY <2>1, RestsElsewhere DEF PresetsInv
  <2>3. DOMAIN presets' = {"intact", "rows"} /\ presets'.intact /\ presets'.rows = <<>>
    BY <2>1
  <2>4. StoreGood' /\ OnlyOne(presets'.rows)
    BY <2>1, <2>2, <2>3, NoRows DEF StoreGood
  <2> QED
    BY <2>1, <2>2, <2>4 DEF PresetsInv
<1>8. CASE ~ (Login \/ BootAsks \/ BootRecovers \/ BootFails \/ SignedIn \/ Reload \/ Leave
              \/ LogoutSettles \/ ClearPresets)
  <2>1. UNCHANGED login_vars
    BY <1>8
       DEF Next, vars, Open, Follow, FollowGrant, Preview, Run, FocusTab, CloseTab, Edit, NewQuery,
           RunEnds, SearchEnds, CallLands, OnlyTabs, UseSidebar, OnlySidebar, ClearData, Stay,
           AskSignOut, AnswerSignOut, Confirms, LogoutRejects
  <2> QED
    BY <1>1, <2>1
<1> QED
  BY <1>2, <1>3, <1>4, <1>5, <1>6, <1>7, <1>8

LEMMA InitPresets == Init => PresetsInv /\ AsksInApp
<1> SUFFICES ASSUME NEW w \in Worlds,
                    /\ phase = "boot" /\ config = w.config /\ presets = w.presets
                    /\ dialog = NoDialog /\ task = NoTask /\ others = 0 /\ leaving = "no"
             PROVE  PresetsInv /\ AsksInApp
  BY DEF Init
<1>1. StoredPresets(presets) /\ ServerEntries(config.servers)
  BY WorldsAssumption
<1>2. GoodRows(presets.rows) /\ OnlyOne(presets.rows)
  BY <1>1 DEF StoredPresets, GoodRows, IsRow, NoRow
<1>3. DOMAIN dialog = {"entries", "picked", "form", "button", "seed"}
  BY DEF NoDialog
<1>4. StoreGood
  BY <1>1, <1>2, <1>3 DEF StoredPresets, StoreGood
<1> QED
  BY <1>2, <1>4 DEF PresetsInv, AsksInApp

\* A write of an operation changes no connection but the one saved, unless
\* another window wrote in its middle, and drops no row but the deleted one.
LEMMA WritesKeep ==
  ASSUME PresetsInv, TaskWrites, NEW n \in DOMAIN presets.rows
  PROVE  Keeps(n)
<1> DEFINE w == Head(task.todo)
           old == presets.rows
<1>1. /\ task.todo # <<>>
      /\ \/ presets' = [presets EXCEPT !.rows = Changed(@, w)]
         \/ presets' = presets
  BY DEF TaskWrites
<1>2. /\ StoreGood /\ TaskGood /\ GoodRows(old)
      /\ task.op # "default" => w.name = task.name
      /\ task.op = "default" => Reflags(w, task, old, others)
      /\ task.op = "save" => w = Put(task.name, task.row)
      /\ task.op = "remove" => w = Drop(task.name)
  BY <1>1, Written
<1>3. /\ task.op \in {"save", "remove", "default"} /\ (task.op = "save" => task.name \in Nat)
      /\ IsRow(task.row)
  BY <1>2 DEF TaskGood
<1>4. w.kind = "put" => w.name \in Nat /\ IsRow(w.row)
  BY <1>2, <1>3 DEF Put, Drop, Reflags
<1>5. presets'.rows = Changed(old, w) \/ presets'.rows = old
  BY <1>1, <1>2 DEF StoreGood
<1>6. CASE presets'.rows = old
  BY <1>6 DEF Keeps
<1>7. CASE presets'.rows = Changed(old, w) /\ n # w.name
  <2>1. n \in DOMAIN presets'.rows /\ presets'.rows[n] = old[n]
    BY <1>2, <1>4, <1>7, ChangedIs
  <2> QED
    BY <2>1 DEF Keeps
<1>8. CASE presets'.rows = Changed(old, w) /\ n = w.name
  <2>1. /\ w.kind = "put" => n \in DOMAIN presets'.rows /\ presets'.rows[n] = w.row
        /\ w.kind # "put" => n \notin DOMAIN presets'.rows
    BY <1>2, <1>4, <1>8, ChangedIs
  <2>2. CASE task.op = "save"
    <3>1. w.kind = "put" /\ task.name = n
      BY <1>2, <1>8, <2>2 DEF Put
    <3> QED
      BY <2>1, <2>2, <3>1 DEF Keeps
  <2>3. CASE task.op = "remove"
    <3>1. w.kind # "put" /\ task.name = n
      BY <1>2, <1>8, <2>3 DEF Drop
    <3> QED
      BY <2>1, <2>3, <3>1 DEF Keeps
  <2>4. CASE task.op = "default"
    <3>1. w.kind = "put" /\ (task.seen = others => w.row.conn = old[n].conn)
      BY <1>2, <1>8, <2>4 DEF Reflags
    <3> QED
      BY <2>1, <3>1 DEF Keeps
  <2> QED
    BY <1>3, <2>2, <2>3, <2>4
<1> QED
  BY <1>5, <1>6, <1>7, <1>8

LEMMA StepKeeps ==
  ASSUME PresetsInv, [Next]_vars, others' = others, phase \notin {"app", "dead"},
         NEW n \in DOMAIN presets.rows
  PROVE  Keeps(n)
<1>1. presets' = presets => Keeps(n)
  BY DEF Keeps
<1>2. CASE Login
  <2>1. CASE TaskWrites
    BY <2>1, WritesKeep
  <2>2. CASE TaskRepairs
    <3>1. ~ presets.intact /\ StoreGood
      BY <2>2 DEF TaskRepairs, PresetsInv
    <3>2. presets.rows = <<>>
      BY <3>1 DEF StoreGood
    <3> QED
      BY <3>2, NoRows
  <2>3. CASE OtherWindow
    <3>1. others \in Nat /\ others' = others + 1
      BY <2>3 DEF OtherWindow, PresetsInv, StoreGood
    <3> QED
      BY <3>1
  <2>4. CASE ~ TaskWrites /\ ~ TaskRepairs /\ ~ OtherWindow
    <3>1. presets' = presets
      BY <1>2, <2>4
         DEF Login, LoginNext, Pick, Type, SavePreset, DeleteSelected, ToggleDefault, Begin,
             TaskReads, TaskEnds, SignIn, LoginFails, Reopen
    <3> QED
      BY <1>1, <3>1
  <2> QED
    BY <2>1, <2>2, <2>3, <2>4
<1>3. CASE ~ Login
  <2>1. ~ ClearPresets
    BY DEF ClearPresets, Acts, InApp
  <2>2. presets' = presets
    BY <1>3, <2>1
       DEF Next, vars, login_vars, Open, Follow, FollowGrant, Preview, Run, FocusTab, CloseTab, Edit,
           NewQuery, RunEnds, SearchEnds, CallLands, OnlyTabs, UseSidebar, OnlySidebar, ClearData,
           BootRecovers, BootAsks, OpenLogin, BootFails, SignedIn, LoginSucceeds, Reload, Leave,
           Unloads, Stay, AskSignOut, AnswerSignOut, Confirms, LogoutSettles, LogoutRejects
  <2> QED
    BY <1>1, <2>2
<1> QED
  BY <1>2, <1>3

\* Whatever the user saves, deletes, flags or repairs, and whatever another
\* window writes in between: no operation loses a preset that was not deleted
\* or changes a connection that was not saved, and without another window at
\* most one preset is the default (presetStore.save, remove, setDefault,
\* _withRepair; LoginDialog.savePreset).
THEOREM PresetsAreKept == Spec => PresetsKept
<1>1. Init => PresetsInv /\ AsksInApp
  BY InitPresets
<1>2. PresetsInv /\ AsksInApp /\ [Next]_vars => (PresetsInv /\ AsksInApp)'
  BY NextPresets, NextAsks
<1>3. PresetsInv' => OneDefault'
  BY DEF PresetsInv, OneDefault
<1>4. PresetsInv /\ PresetsInv' /\ [Next]_vars =>
          [/\ OneDefault'
           /\ others' = others /\ phase \notin {"app", "dead"} =>
                 \A n \in DOMAIN presets.rows : Keeps(n)]_login_vars
  BY <1>3, StepKeeps
<1> QED
  BY <1>1, <1>2, <1>4, PTL DEF Spec, PresetsKept

=============================================================================
