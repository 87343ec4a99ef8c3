------------------------------- MODULE AppShell -------------------------------
(***************************************************************************)
(* The application around its tabs: boot and sign-in (SqlAdminApp.ts), the *)
(* shell (SqlAdminShell.ts), the tabs of the Dock with the address bar     *)
(* that follows them (SqlAdminController.ts), the tabs of roles and        *)
(* diagrams (roleActions.ts, diagramPanels.ts), the inspector of roles,    *)
(* the clearing of what the browser stores (localStorageWindow.ts) and     *)
(* leaving the page.                                                       *)
(*                                                                         *)
(* A tab is its id.  Its content is being built ("loading") or there       *)
(* ("open"); what a built tab does is the matter of other modules.  Trees  *)
(* are not modelled: a reveal is the view it brings forward.               *)
(***************************************************************************)
EXTENDS LoginPresets, Sidebar, AppRoutes

CONSTANTS
    Worlds,         \* what the page starts from, and what its user does
    Panels,         \* the panels opened in each area
    Roles

\* What an earlier page stored: a width beyond the rail, if any.
StoredLayout(l) ==
    l \in Layouts /\ (l["shell"].sizes = Absent \/ l["shell"].sizes > Rail)

ASSUME WorldsAssumption ==
    \A w \in Worlds :
        /\ StoredLayout(w.layout)
        /\ IsFiniteSet(w.history)
        /\ StoredPresets(w.presets) /\ ServerEntries(w.config.servers)
        /\ w.area \in DOMAIN Panels

ASSUME PanelsAssumption ==
    \A place \in DOMAIN Panels : \A p \in Panels[place] : Openable(p)

VARIABLES
    address,        \* what the address bar shows
    session,        \* does the server know the session
    tabs,           \* id -> [panel, n: its opening, step]
    active,         \* _activePanelId
    routes,         \* _panelRoutes
    runs,           \* _queryPanelRuns
    history,        \* stamps of the stored runs
    running,        \* query tabs whose statement runs
    dirty,          \* tabs with unsaved work
    calls,          \* fetches of role details under way
    roleSeq,        \* _roleSeq
    inspector,      \* the role the inspector shows
    asked,          \* observes the role asked for last, and whether it is sure to show
    leaving,        \* does the browser ask, for beforeunload: "no" or "asked"
    signOut,        \* "no", "confirming" or "calling"
    suppressed,     \* unloadGuardSuppressed
    area,           \* bound: the part of the page its user works in
    moves,          \* bound: what the user may still do
    opened,         \* how many tabs were opened
    clock,          \* the stamp of the last run recorded
    searches        \* tables looked for in the navigator, to be opened

dock_vars == <<tabs, active, routes, runs, address>>
role_vars == <<calls, roleSeq, inspector, asked>>
leave_vars == <<leaving, signOut, suppressed>>
work_vars == <<history, running, dirty>>
page_vars == <<dock_vars, role_vars, work_vars, opened, clock, searches>>
vars == <<login_vars, sidebar_vars, page_vars, leave_vars, session, area, moves>>

NoTab == <<>>
QueryTab(n) == <<"query", n>>
IsQuery(id) == id # NoTab /\ id[1] = "query"
NoPanels == <<>>        \* the empty function, of tabs, routes or runs

Without(f, id) == [x \in DOMAIN f \ {id} |-> f[x]]
With(f, id, value) == [x \in DOMAIN f \cup {id} |-> IF x = id THEN value ELSE f[x]]

\* The prompt of the browser stops the page, the one of the shell its user.
InApp == phase = "app" /\ leaving = "no"

\* The user acts, in one of these areas.
Acts(areas) ==
    /\ InApp
    /\ signOut # "confirming"
    /\ moves > 0
    /\ area \in areas
    /\ moves' = moves - 1
    /\ UNCHANGED area

-----------------------------------------------------------------------------
(* The Dock and the address bar.                                           *)

resolveAddressBarRoute(id, rs, ran, kept) ==
    IF id = NoTab THEN Root
    ELSE IF id \in DOMAIN rs THEN rs[id]
    ELSE IF id \in DOMAIN ran /\ ran[id] \in kept THEN queryHistoryPath(ran[id])
    ELSE Root

\* The dock's "focus": the id and the address follow.
Focuses(id, rs) ==
    /\ active' = id
    /\ address' = resolveAddressBarRoute(id, rs, runs, history)

Loading(p) == [panel |-> p, n |-> opened + 1, step |-> "loading"]

\* openAsyncPanel: the route is recorded before the tab takes the focus.
OpensAsync(p) ==
    LET id == PanelId(p)
    IN  /\ tabs' = With(tabs, id, Loading(p))
        /\ routes' = With(routes, id, RouteOf(p))
        /\ Focuses(id, routes')
        /\ opened' = opened + 1
        /\ UNCHANGED runs

\* openQuery: a new tab each time, without a route; a replay runs at once.
OpensQuery(replay) ==
    LET id == QueryTab(opened + 1)
    IN  /\ tabs' = With(tabs, id, [panel |-> NoPanel, n |-> opened + 1, step |-> "open"])
        /\ Focuses(id, routes)
        /\ opened' = opened + 1
        /\ running' = IF replay THEN running \cup {id} ELSE running
        /\ UNCHANGED <<routes, runs, history, dirty>>

IsBrowse(p) == p.ref.kind \in {"view", "materializedView"} /\ p.view = None

\* openDocumentation is not lazy: its route is set, its tab is there.
OpensNotes(p) ==
    LET id == PanelId(p)
    IN  /\ tabs' = With(tabs, id, [panel |-> p, n |-> opened + 1, step |-> "open"])
        /\ routes' = With(routes, id, RouteOf(p))
        /\ Focuses(id, routes')
        /\ opened' = opened + 1
        /\ UNCHANGED runs

\* What an opener does to the tabs: focusPanel first.
Opens(p) ==
    CASE IsBrowse(p) -> OpensQuery(TRUE)
      [] ~IsBrowse(p) /\ PanelId(p) \in DOMAIN tabs ->
             Focuses(PanelId(p), routes) /\ UNCHANGED <<tabs, routes, runs, opened, work_vars>>
      [] p.ref.kind = "notes" /\ PanelId(p) \notin DOMAIN tabs ->
             OpensNotes(p) /\ UNCHANGED work_vars
      [] OTHER -> OpensAsync(p) /\ UNCHANGED work_vars

\* The dock's "close", and the focus it gives to another tab if one is left;
\* which one is the library's choice.
Closes(id) ==
    LET left == DOMAIN tabs \ {id}
    IN  /\ tabs' = Without(tabs, id)
        /\ routes' = Without(routes, id)
        /\ runs' = Without(runs, id)
        /\ dirty' = dirty \ {id}
        /\ \E next \in IF active # id THEN {active} ELSE IF left = {} THEN {NoTab} ELSE left :
               /\ active' = next
               /\ address' = IF next = active THEN address
                             ELSE resolveAddressBarRoute(next, routes', runs', history)
        /\ UNCHANGED <<opened, history, running>>

-----------------------------------------------------------------------------
(* Roles: the inspector and the fetches that fill it or a tab.             *)

Call(kind, role, seq, id, n) ==
    [kind |-> kind, role |-> role, seq |-> seq, id |-> id, n |-> n]

\* What is under way of the role asked for last: of the previews only the
\* latest is shown.
LatestPreview(call) == call.kind = "preview" /\ call.seq = roleSeq
Answers(call) == call.role = asked.role /\ (call.kind = "grants" \/ LatestPreview(call))

\* showRoleProperties: a guarded fetch.
Previews(role) ==
    /\ roleSeq' = roleSeq + 1
    /\ calls' = calls \cup {Call("preview", role, roleSeq + 1, NoTab, 0)}
    /\ asked' = [role |-> role, sure |-> TRUE]
    /\ UNCHANGED inspector

\* The fetch behind a new tab: that of a grants graph takes the sequence
\* number of a preview without being one, that of a grants tab none.
Builds(p) ==
    LET role == p.ref.name
        id == PanelId(p)
    IN  CASE p.ref.kind = "role" /\ p.view = "grants-diagram" ->
                 /\ roleSeq' = roleSeq + 1
                 /\ calls' = calls \cup {Call("graph", role, roleSeq + 1, id, opened + 1)}
                 /\ asked' = [asked EXCEPT !.sure = @ /\ \A call \in calls : ~LatestPreview(call)]
                 /\ UNCHANGED inspector
          [] p.ref.kind = "role" /\ p.view = None ->
                 /\ calls' = calls \cup {Call("grants", role, 0, id, opened + 1)}
                 /\ asked' = [role |-> role, sure |-> TRUE]
                 /\ UNCHANGED <<roleSeq, inspector>>
          [] p.ref.kind = "role" /\ p.view = "membership" ->
                 /\ calls' = calls \cup {Call("membership", role, 0, id, opened + 1)}
                 /\ UNCHANGED <<roleSeq, inspector, asked>>
          [] p.ref.kind # "role" /\ ~IsBrowse(p) /\ p.ref.kind # "notes" ->
                 /\ calls' = calls \cup {Call("object", None, 0, id, opened + 1)}
                 /\ UNCHANGED <<roleSeq, inspector, asked>>
          [] OTHER -> UNCHANGED role_vars

\* showRole on an open grants tab previews the role again.
Shows(p) ==
    /\ Opens(p)
    /\ IF ~IsBrowse(p) /\ PanelId(p) \in DOMAIN tabs
       THEN IF p.ref.kind = "role" /\ p.view = None
            THEN Previews(p.ref.name) ELSE UNCHANGED role_vars
       ELSE Builds(p)

IsLatest_Unguarded(call) == TRUE

IsLatest(call) == call.seq = roleSeq

IsThere(call) == call.id \in DOMAIN tabs /\ tabs[call.id].n = call.n

Settled(call) == [tabs EXCEPT ![call.id].step = "open"]

\* The tab of a build that landed, if it is still that tab.
TabFills(call) ==
    /\ tabs' = IF IsThere(call) THEN Settled(call) ELSE tabs
    /\ UNCHANGED <<active, routes, runs, address, opened, work_vars>>

TabCloses(call) ==
    IF IsThere(call)
    THEN Closes(call.id)
    ELSE UNCHANGED <<dock_vars, opened, work_vars>>

PreviewLands(call) ==
    /\ call.kind = "preview"
    /\ inspector' = IF IsLatest(call) THEN call.role ELSE inspector
    /\ UNCHANGED <<dock_vars, opened, work_vars, asked>>

\* The tab's fetch is unguarded and fills the inspector too.
GrantsLand(call) ==
    /\ call.kind = "grants"
    /\ inspector' = call.role
    /\ asked' = [asked EXCEPT !.sure =
                     IF call.role = asked.role
                     THEN \A c \in calls : LatestPreview(c) => c.role = call.role
                     ELSE @ /\ \E c \in calls : Answers(c)]
    /\ TabFills(call)

\* A graph overtaken by another guarded fetch closes its tab.
GraphLands(call) ==
    /\ call.kind = "graph"
    /\ IF IsLatest(call) THEN TabFills(call) ELSE TabCloses(call)
    /\ UNCHANGED <<inspector, asked>>

OtherLands(call) ==
    /\ call.kind \in {"membership", "object"}
    /\ TabFills(call)
    /\ UNCHANGED <<inspector, asked>>

\* A rejected build closes its tab, a rejected preview only reports.
CallFails(call) ==
    /\ IF call.kind = "preview"
       THEN UNCHANGED <<dock_vars, opened, work_vars>> ELSE TabCloses(call)
    /\ asked' = [asked EXCEPT !.sure = @ /\ ~Answers(call)]
    /\ UNCHANGED inspector

CallLands ==
    /\ InApp
    /\ \E call \in calls :
           /\ calls' = calls \ {call}
           /\ \/ PreviewLands(call)
              \/ GrantsLand(call)
              \/ GraphLands(call)
              \/ OtherLands(call)
              \/ CallFails(call)
    /\ UNCHANGED <<login_vars, sidebar_vars, leave_vars, session, area, moves, roleSeq,
                   clock, searches>>

-----------------------------------------------------------------------------
(* What the user does to the tabs.                                         *)

\* An action on the tabs leaves the rest of the application alone.
OnlyTabs ==
    UNCHANGED <<login_vars, sidebar_vars, leave_vars, session, clock, searches>>

\* From a tree, a menu or the start page: nothing is revealed.
Open(p) ==
    /\ Acts({"work", "roles"})
    /\ Shows(p)
    /\ OnlyTabs

Preview(role) ==
    /\ Acts({"roles"})
    /\ Previews(role)
    /\ UNCHANGED <<dock_vars, opened, work_vars>>
    /\ OnlyTabs

NewQuery ==
    /\ Acts({"work", "leave"})
    /\ OpensQuery(FALSE)
    /\ UNCHANGED role_vars
    /\ OnlyTabs

Run(id) ==
    /\ Acts({"work"})
    /\ IsQuery(id)
    /\ id \notin running
    /\ running' = running \cup {id}
    /\ UNCHANGED <<dock_vars, opened, history, dirty, role_vars>>
    /\ OnlyTabs

FocusTab(id) ==
    /\ Acts({"work"})
    /\ id # active
    /\ Focuses(id, routes)
    /\ UNCHANGED <<tabs, routes, runs, opened, work_vars, role_vars>>
    /\ OnlyTabs

\* A dirty tab closes once its user has agreed.
CloseTab(id) ==
    /\ Acts({"work", "roles"})
    /\ Closes(id)
    /\ UNCHANGED role_vars
    /\ OnlyTabs

\* The content of a tab becomes dirty, or clean again.
Edit(id) ==
    /\ Acts({"work", "leave"})
    /\ tabs[id].step = "open"
    /\ dirty' = IF id \in dirty THEN dirty \ {id} ELSE dirty \cup {id}
    /\ UNCHANGED <<dock_vars, opened, history, running, role_vars>>
    /\ OnlyTabs

\* A link in a tab or a diagram: openReferencedTable reveals first.
Follow(p) ==
    /\ Acts({"work", "sidebar"})
    /\ p.ref.kind = "table"
    /\ Shows(p)
    /\ bar' = revealView(bar, "database")
    /\ UNCHANGED <<pane, layout, meant, login_vars, leave_vars, session, clock, searches>>

\* A table in a grants graph: it is opened when the navigator has found it.
FollowGrant(p) ==
    /\ Acts({"roles"})
    /\ p.ref.kind = "table"
    /\ \E id \in DOMAIN tabs : tabs[id].panel.view = "grants-diagram"
    /\ searches' = searches \cup {p}
    /\ bar' = revealView(bar, "database")
    /\ UNCHANGED <<pane, layout, meant, login_vars, leave_vars, session, clock,
                   dock_vars, opened, work_vars, role_vars>>

SearchEnds ==
    /\ InApp
    /\ \E p \in searches :
           /\ searches' = searches \ {p}
           /\ \/ Shows(p)
              \/ UNCHANGED <<dock_vars, opened, work_vars, role_vars>>
    /\ UNCHANGED <<login_vars, sidebar_vars, leave_vars, session, area, moves, clock>>

\* recordQueryRun: the address follows the run of the focused tab.
RunEnds ==
    /\ InApp
    /\ \E id \in running :
           /\ running' = running \ {id}
           /\ clock' = clock + 1
           /\ history' = history \cup {clock'}
           /\ runs' = With(runs, id, clock')
           /\ address' = IF id = active
                         THEN resolveAddressBarRoute(id, routes, runs', history')
                         ELSE address
    /\ UNCHANGED <<tabs, active, routes, opened, dirty, role_vars, login_vars,
                   sidebar_vars, leave_vars, session, area, moves, searches>>

-----------------------------------------------------------------------------
(* The sidebar and what the browser stores.                                *)

OnlySidebar == UNCHANGED <<login_vars, page_vars, leave_vars, session>>

UseSidebar ==
    /\ Acts({"sidebar"})
    /\ \/ \E view \in Views : RailClick(view) \/ selectView(view)
       \/ toggleCollapsed
       \/ \E width \in Widths : Drag(width)
       \/ \E i \in DOMAIN DefaultOpen : ToggleSection(i)
       \/ \E width \in Widths : ResizeSections(width)
    /\ OnlySidebar

\* isDisposableAppKey: everything the application stores but the presets.
ClearData ==
    /\ Acts({"work", "sidebar"})
    /\ history' = {}
    /\ layout' = EmptyLayout
    /\ meant' = [meant EXCEPT !.kept = FALSE]
    /\ UNCHANGED <<bar, pane, dock_vars, running, dirty, opened, clock,
                   searches, role_vars, login_vars, leave_vars, session>>

ClearPresets ==
    /\ Acts({"leave"})
    /\ presets' = [intact |-> TRUE, rows |-> <<>>]
    /\ UNCHANGED <<phase, config, dialog, task, others, sidebar_vars, page_vars,
                   leave_vars, session>>

-----------------------------------------------------------------------------
(* Boot, sign-in and the ways out.                                         *)

NobodyAsked == [role |-> None, sure |-> FALSE]

FreshPage ==
    /\ tabs' = NoPanels /\ active' = NoTab /\ routes' = NoPanels /\ runs' = NoPanels
    /\ running' = {} /\ dirty' = {} /\ searches' = {} /\ opened' = 0
    /\ calls' = {} /\ roleSeq' = 0 /\ inspector' = None /\ asked' = NobodyAsked
    /\ bar' = FreshBar /\ pane' = FreshPane /\ meant' = [width |-> OpeningWidth, kept |-> TRUE]
    /\ leaving' = "no" /\ signOut' = "no" /\ suppressed' = FALSE

\* The page goes; the address, and what the browser stores, stay.
Unloads ==
    /\ phase' = "boot"
    /\ FreshPage
    /\ UNCHANGED <<config, presets, dialog, task, others, layout, address, history,
                   clock, area>>

\* The shell is mounted and router.start() dispatches the address.
Starts ==
    LET handler == Dispatch(address)
    IN  /\ bar' = IF handler.side = None THEN FreshBar
                  ELSE revealView(FreshBar, handler.side)
        /\ CASE handler.opens # NoPanel -> Shows(handler.opens)
             [] handler.opens = NoPanel /\ handler.replays \in history ->
                    OpensQuery(TRUE) /\ UNCHANGED role_vars
             [] OTHER -> UNCHANGED <<dock_vars, opened, work_vars, role_vars>>
        /\ UNCHANGED <<pane, meant, layout, clock, searches, leave_vars, area, moves>>

\* whoami recovers the session, finds none, or throws.
BootRecovers ==
    /\ phase = "boot"
    /\ session
    /\ phase' = "app"
    /\ Starts
    /\ UNCHANGED <<config, presets, dialog, task, others, session>>

BootAsks ==
    /\ phase = "boot"
    /\ ~session
    /\ OpenLogin
    /\ UNCHANGED <<sidebar_vars, page_vars, leave_vars, session, area, moves>>

BootFails ==
    /\ phase = "boot"
    /\ phase' = "dead"
    /\ UNCHANGED <<config, presets, dialog, task, others, sidebar_vars, page_vars,
                   leave_vars, session, area, moves>>

SignedIn ==
    /\ LoginSucceeds
    /\ session' = TRUE
    /\ Starts

\* Elsewhere than in the area of the dialog its user only signs in.
Login ==
    /\ IF area = "login" THEN LoginNext ELSE SignIn \/ LoginFails \/ Reopen
    /\ UNCHANGED <<sidebar_vars, page_vars, leave_vars, session, area, moves>>

\* A reload, or another address: beforeunload asks over unsaved work.
Reload ==
    /\ Acts({"work", "sidebar", "leave"})
    /\ UNCHANGED session
    /\ IF suppressed \/ dirty = {}
       THEN Unloads
       ELSE /\ leaving' = "asked"
            /\ UNCHANGED <<signOut, suppressed, login_vars, sidebar_vars, page_vars>>

Leave ==
    /\ leaving = "asked"
    /\ Unloads
    /\ UNCHANGED <<session, moves>>

Stay ==
    /\ leaving = "asked"
    /\ leaving' = "no"
    /\ UNCHANGED <<signOut, suppressed, login_vars, sidebar_vars, page_vars, session,
                   area, moves>>

AskSignOut ==
    /\ Acts({"leave"})
    /\ signOut = "no"
    /\ signOut' = "confirming"
    /\ UNCHANGED <<leaving, suppressed, login_vars, sidebar_vars, page_vars, session>>

\* confirmSignOut: the guard is lifted only once logout() has settled.
Confirms(lifts) ==
    /\ InApp
    /\ signOut = "confirming"
    /\ \/ signOut' = "calling" /\ suppressed' = lifts
       \/ signOut' = "no" /\ UNCHANGED suppressed
    /\ UNCHANGED <<leaving, login_vars, sidebar_vars, page_vars, session, area, moves>>

AnswerSignOut_LiftsAtOnce == Confirms(TRUE)

AnswerSignOut == Confirms(suppressed)

LogoutSettles ==
    /\ InApp
    /\ signOut = "calling"
    /\ session' = FALSE
    /\ Unloads
    /\ UNCHANGED moves

\* Whether the request reached the server is not known.
LogoutRejects ==
    /\ InApp
    /\ signOut = "calling"
    /\ signOut' = "no"
    /\ session' \in {session, FALSE}
    /\ UNCHANGED <<leaving, suppressed, login_vars, sidebar_vars, page_vars, area, moves>>

Init ==
    \E w \in Worlds :
        /\ phase = "boot" /\ config = w.config /\ presets = w.presets
        /\ dialog = NoDialog /\ task = NoTask /\ others = 0
        /\ layout = w.layout /\ bar = FreshBar /\ pane = FreshPane /\ meant = [width |-> OpeningWidth, kept |-> TRUE]
        /\ address = w.address /\ session = w.session /\ history = w.history
        /\ tabs = NoPanels /\ active = NoTab /\ routes = NoPanels /\ runs = NoPanels
        /\ running = {} /\ dirty = {} /\ searches = {} /\ opened = 0 /\ clock = Cardinality(w.history)
        /\ calls = {} /\ roleSeq = 0 /\ inspector = None /\ asked = NobodyAsked
        /\ leaving = "no" /\ signOut = "no" /\ suppressed = FALSE
        /\ area = w.area /\ moves = w.moves

Next ==
    \/ \E p \in Panels[area] : Open(p) \/ Follow(p) \/ FollowGrant(p)
    \/ \E role \in Roles : Preview(role)
    \/ \E id \in DOMAIN tabs : Run(id) \/ FocusTab(id) \/ CloseTab(id) \/ Edit(id)
    \/ NewQuery \/ RunEnds \/ SearchEnds \/ CallLands
    \/ UseSidebar \/ ClearData \/ ClearPresets
    \/ BootRecovers \/ BootAsks \/ BootFails \/ SignedIn \/ Login
    \/ Reload \/ Leave \/ Stay
    \/ AskSignOut \/ AnswerSignOut \/ LogoutSettles \/ LogoutRejects

Spec == Init /\ [][Next]_vars

-----------------------------------------------------------------------------
(* Properties.                                                             *)

\* The address bar names the focused tab: a reload there opens that tab again
\* or replays the query's latest run, if its entry is still kept
\* (resolveAddressBarRoute against the routes of buildAppRouter).
ReloadComesBack ==
    phase = "app" /\ active # NoTab =>
        LET handler == Dispatch(address)
        IN  IF IsQuery(active)
            THEN active \in DOMAIN runs /\ runs[active] \in history =>
                    handler.replays = runs[active]
            ELSE handler.opens # NoPanel /\ PanelId(handler.opens) = active

\* When nothing is being fetched for it the inspector shows the role last asked
\* for, in a preview or by opening a grants tab, whatever else was fetched
\* ("rapid role clicks never render a stale role", roleActions.ts:206).  Exempt
\* (~asked.sure) is what fetchRoleDetail does not guard: when the fetch failed;
\* when a grants graph was opened while the preview was under way, and cancelled
\* it; when the answer of an earlier grants tab came after the role's own; and
\* when the answer of the role's grants tab came before that of an earlier preview.
RolesInspectorLatest ==
    asked.sure /\ (\A call \in calls : ~Answers(call)) => inspector = asked.role

\* The page never goes with unsaved work unless its user was asked, by the
\* browser or before signing out (installUnloadGuard, confirmSignOut).
UnloadAsked ==
    [][phase = "app" /\ phase' = "boot" /\ dirty # {} =>
          leaving = "asked" \/ (signOut = "calling" /\ ~session')]_vars

\* The expanded sidebar has the width its user gave it last, on this page or
\* an earlier one; the rail lights the view that shows; and the next page will
\* open with the width, the sections and their sizes of this one, unless they
\* were cleared (the sizer of buildWorkArea, LayoutStore._write).  Exempt
\* (meant.width = 0) is a drag to exactly the rail's width: the code keeps wider
\* ones only, and reopens at an older width.
SidebarRemembers ==
    /\ ~bar.collapsed /\ meant.width # 0 => pane.width = meant.width
    /\ bar.page = bar.active
    /\ bar.lit = IF bar.collapsed THEN NoView ELSE bar.active
    /\ meant.kept =>
           /\ meant.width # 0 => OpeningWidth = meant.width
           /\ readOpen(layout["database"].open) = pane.open
           /\ layout["database"].sizes = pane.sections

=============================================================================
