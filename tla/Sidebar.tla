------------------------------- MODULE Sidebar --------------------------------
(***************************************************************************)
(* The activity bar (ActivityBar.ts), the pane it sits in (buildWorkArea   *)
(* of SqlAdminShell.ts) and the layout the browser remembers of both       *)
(* (layoutStore.ts), for one of its accordions.                            *)
(*                                                                         *)
(* A width is a number, Rail the narrowest.  The Split, which gives a      *)
(* pinned pane the rail's width, is the library's.                         *)
(***************************************************************************)
EXTENDS Naturals, Sequences

CONSTANTS
    Views,          \* views of the bar, First the one it opens with
    First,
    Rail,           \* SIDEBAR_RAIL_WIDTH
    DefaultWidth,   \* SIDEBAR_DEFAULT_WIDTH
    Widths          \* the widths the gutter is dragged to

\* The default is a width the bar can be read at.
ASSUME SidebarAssumption ==
    /\ Rail \in Nat
    /\ DefaultWidth \in Nat /\ DefaultWidth > Rail
    /\ Widths \subseteq Nat

VARIABLES
    bar,            \* [active, page, lit, collapsed]
    pane,           \* [width, last, open: the accordion's sections, sections]
    layout,         \* the stored blob of each site: [sizes, open]
    meant           \* [width: the user's last, 0 when down to the rail; kept: is
                    \* what this page stored still there]

sidebar_vars == <<bar, pane, layout, meant>>

NoView == "none"
Absent == 0                 \* no stored sizes
Sites == {"shell", "database"}
EmptyBlob == [sizes |-> Absent, open |-> <<>>]
Layouts == [Sites -> [sizes : Nat, open : Seq(BOOLEAN)]]
EmptyLayout == [site \in Sites |-> EmptyBlob]
DefaultOpen == <<TRUE, TRUE>>

\* readOpen: flags of another length are not this accordion's.
readOpen(flags) == IF Len(flags) = Len(DefaultOpen) THEN flags ELSE DefaultOpen

Stored_Replaces(site, field, value) ==
    [layout EXCEPT ![site] = [EmptyBlob EXCEPT ![field] = value]]

\* _write merges the field into what is stored of the site.
Stored(site, field, value) == [layout EXCEPT ![site][field] = value]

OpeningWidth ==
    IF layout["shell"].sizes = Absent THEN DefaultWidth ELSE layout["shell"].sizes

\* A new bar: its first view, expanded; the width of the last page.
FreshBar == [active |-> First, page |-> First, lit |-> First, collapsed |-> FALSE]
FreshPane ==
    [width |-> OpeningWidth, last |-> DefaultWidth,
     open |-> readOpen(layout["database"].open),
     sections |-> layout["database"].sizes]

-----------------------------------------------------------------------------
(* The sizer of the shell: collapse remembers a width worth going back to. *)

Pinned(p) ==
    [p EXCEPT !.last = IF p.width > Rail THEN p.width ELSE @, !.width = Rail]

Unpinned(p) == [p EXCEPT !.width = p.last]

\* showView: only a transition touches the width.
showView(view) ==
    /\ bar' = [active |-> view, page |-> view, lit |-> view, collapsed |-> FALSE]
    /\ pane' = IF bar.collapsed THEN Unpinned(pane) ELSE pane

collapse ==
    /\ bar' = [bar EXCEPT !.lit = NoView, !.collapsed = TRUE]
    /\ pane' = IF bar.collapsed THEN pane ELSE Pinned(pane)

\* A reveal: a collapsed bar stays collapsed.
revealView(b, view) ==
    [b EXCEPT !.active = view, !.page = view, !.lit = IF b.collapsed THEN @ ELSE view]

-----------------------------------------------------------------------------
(* What the user does.                                                     *)

\* A rail button: the lit one is clicked off.
RailClick(view) ==
    /\ IF bar.lit = view THEN collapse ELSE showView(view)
    /\ UNCHANGED <<layout, meant>>

toggleCollapsed ==
    /\ IF bar.collapsed THEN showView(bar.active) ELSE collapse
    /\ UNCHANGED <<layout, meant>>

\* A menu item or an accelerator.
selectView(view) ==
    /\ showView(view)
    /\ UNCHANGED <<layout, meant>>

\* The gutter: a pinned pane stays at the rail, and the rail is not stored.
Drag(width) ==
    LET w == IF bar.collapsed THEN Rail ELSE width
    IN  /\ pane' = [pane EXCEPT !.width = w]
        /\ layout' = IF w > Rail THEN Stored("shell", "sizes", w) ELSE layout
        /\ meant' = CASE bar.collapsed -> meant
                       [] w > Rail -> [meant EXCEPT !.width = w]
                       [] OTHER -> [meant EXCEPT !.width = 0]
        /\ UNCHANGED bar

ToggleSection(i) ==
    LET flags == [readOpen(layout["database"].open) EXCEPT ![i] = ~pane.open[i]]
    IN  /\ pane' = [pane EXCEPT !.open[i] = ~@]
        /\ layout' = Stored("database", "open", flags)
        /\ UNCHANGED <<bar, meant>>

ResizeSections(size) ==
    /\ pane' = [pane EXCEPT !.sections = size]
    /\ layout' = Stored("database", "sizes", size)
    /\ UNCHANGED <<bar, meant>>

=============================================================================
