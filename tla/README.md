# SQLAdmin in TLA+

Models, checks and proofs for SQLAdmin, the PostgreSQL administration tool of
this repository: a FastAPI backend (`src/backend/app`) that opens one asyncpg
pool per login session and turns requests into SQL, and a TypeScript single
page application (`src/frontend/src`) that edits objects, rows and queries
over it. The modules are translated from the code; docs and comments are used
only to state what the code is meant to do.

`PROJECT.json` lists the components, the runs, the source lines behind every
definition, the hazards and the theorems. A module is checked with
`tlc -config X.cfg M`, a proof module with `tlapm M.tla`.

Contents: 1 inventory, 2 modules, 3 runs, 4 proofs, 5 where the code differs
from what it says, 6 what is not modelled, 7 the plan.

## 1. Inventory

### Backend (Python, asyncio, one process)

| Component | State | Operations | What is hard | What makes it correct |
|---|---|---|---|---|
| Login sessions (`connections.py`, `auth.py`, `main.py`) | `_sessions`: token to pool and `last_seen`; the cookie of each browser | login, logout, session guard, acquire/release by every endpoint, idle sweep, shutdown | awaits in the middle of close and dial; logins in parallel; a close that raises; lost responses; shutdown in the middle of a sweep | a pool has one owner and is closed once; a revoked token never works again; connections come back; nothing unreachable lives for ever |
| Login rate limit (`rate_limit.py`, `auth.login`) | `_failures`: client to time stamps | check, record, clear | the check is before the dial, the record after it | bounded overshoot; refusals end |
| Row operations, import (`operations/*_row*.py`) | none; rows of the database | list, insert, update, delete, import with preview | savepoints, one row of a batch failing, other clients | all or nothing; what the preview shows is what the import does |
| DDL generation (`sql/ddl.py`, `operations/ddl*.py`) | none | statements for every object kind | order of multi-statement scripts (enum rebuild, replace of a matview) | the script, applied, yields the object as edited and loses nothing |
| Query run, explain | the transaction of the call | cursor with a cap, rolled back EXPLAIN ANALYZE | the cap's boundary, error positions past a prefix, a write explained | the answer tells all the call did; an explained statement leaves nothing |
| Export; catalog reads | the borrowed connection | streams, SELECTs | a client that leaves | connection released (in the sessions model) |
| Compiler, wire codecs | none | quoting, placeholders, value round trip | boundary values | decode of encode is the identity where promised |

### Frontend (TypeScript, one browser event loop)

| Component | State | Operations | What is hard | What makes it correct |
|---|---|---|---|---|
| SQL preview (`dock/sqlPreviewSync.ts`, `SqlPreviewDialog.ts`) | editor text, generated text, request counter, timer, held change | form change, typing, Regenerate, Execute, close | answers in any order, edits during a request, settle loop, debounce | Execute runs what the form says or what the user wrote |
| Query panel (`dock/QueryPanel.ts`) | four result slots, strip, export, run counter, busy | run, explain, diagram, chart, clear, tab switches | overlapping runs, spinner tabs, library events that do not come | tabs, buttons and export agree; stale answers change nothing |
| Object tabs (`SqlAdminController.ts`, `controller/*`) | registry of open panels, in-flight column fetches, active tab | open, focus, refresh, save, close | builds landing after close, coalesced fetches, refreshes out of order | nobody waits for what is not coming; the inspector shows the latest selection, or what loaded last |
| Query workspace, saved queries | link of a tab to a saved query, history, dialogs | save, save as, remove, open, recall, close | several tabs on one name, two windows on one storage, one gesture closing many tabs | no query is overwritten and no text lost unasked |
| Editors of structures, types, sequences, definitions | edited rows against loaded ones | edit, save, reload, refresh | others' changes, order of the statements of one save | the object becomes what was edited; what the user left alone stays |
| Table data and import | records and what is pending in them, the import dialog | edit, add, delete, save, refresh, import, export | rows changed by others, removals that outlive a reload, previews landing while another file is picked | only what was meant is written |
| Navigator, explorers | lazily loaded tree, expansion, running loads | expand, full and targeted refresh, restore | loads overlapping refreshes, DDL between a read and its landing | the tree shows the database; what the user opened stays open |
| DDL forms and launchers | the dialog or draft tab | every menu item that runs DDL | what a success must refresh and close | only tabs of what is gone are closed |
| Diagrams | root, depth, direction, hidden nodes, layout | filter, expand, focus | asynchronous layout, cycles, self-references | the shown graph is the one the controls describe |
| Plan analysis, index advisor | candidates, structure requests | parse a plan, suggest, create an index | predicates read back out of text, requests that fail | suggestions are usable and missing |
| Shell, login form, routing, browser stores | tabs, address, presets, layout, role inspector, sign-out | boot, sign in, open, follow links, reload, sign out | deep links before login, late role fetches, another window writing | the address leads back; presets survive; no unsaved work goes unasked |

The parts meet in few places: the frontend calls the backend through
`data/api.ts`, one request per operation, with the session cookie; every
endpoint goes through the session guard and the pool of its session; tabs,
dialogs and trees share the controller's registry and react to each other
through its callbacks.

## 2. The modules

| Module | Models | Extends or uses | Run |
|---|---|---|---|
| `SessionAccess` | what a session promises, without registry or pools (abstract) | - | `sessions`, as a refinement |
| `Sessions`, `MCSessions` | registry, pools, login, logout, guard, sweep, shutdown | `SessionAccess` | `sessions` |
| `LoginRateLimit` | `rate_limit.py` and its use in login | - | `rate_limit` |
| `BackendProofs` | theorems about both | `Sessions`, `LoginRateLimit` | `tlapm` |
| `SqlPreviewSync`, `MCSqlPreviewSync` | the preview dialog | - | `sql_preview` |
| `SqlPreviewProofs` | theorems about `SqlPreviewSync` | `SqlPreviewSync` | `tlapm` |
| `QueryPanel` | the result pane of a query tab | - | `query_panel` |
| `QueryPanelProofs` | theorems about it | `QueryPanel` | `tlapm` |
| `QueryWorkspace`, `MCQueryWorkspace` | query tabs, saved queries, history, Queries view, close guard | - | `workspace` |
| `QueryWorkspaceProofs` | theorems about it | `QueryWorkspace` | `tlapm` |
| `ObjectTabs` | the tabs of objects, the panel registry, Properties | - | `object_tabs` |
| `ObjectTabsProofs` | theorems about it | `ObjectTabs` | `tlapm` |
| `EnumScripts`, `MemberScripts`, `SequenceScripts` | the plan a Save makes of edited labels, columns or attributes, sequence fields; the statements; what PostgreSQL does with them | - | `detail_editors` |
| `DetailEditors` | the tabs that edit an object in place | the three above | `detail_editors` |
| `DdlObjects` | specs, statements and effect of create, rename, drop, alter | - | `navigator` |
| `Launchers` | every DDL menu item and definition Save: what it sends, refreshes and closes | `DdlObjects` | `navigator` |
| `Navigator`, `MCNavigator` | the navigator tree, refreshes, saved expansion, DDL in flight | `Launchers` | `navigator` |
| `PlanPredicates` | columns read out of a plan's predicates | - | `index_advisor` |
| `FkCardinality` | what indexes say about a list of columns | - | `index_advisor`, `diagrams` |
| `IndexAdvisor` | candidates, structure requests, ranking, the suggestions of the diagram tab | `PlanPredicates`, `FkCardinality` | `index_advisor` |
| `QueryStatements` | what is read out of a statement's text and a result's names | - | `index_advisor` |
| `StatementCalls` | one run, EXPLAIN, diagram or plan export, on both sides, with its transaction | `QueryStatements` | `index_advisor` |
| `ExplainDiagram`, `MCIndexAdvisor` | from the call to the diagram and its three views | `IndexAdvisor`, `StatementCalls` | `index_advisor` |
| `RelationGraphs` | building, rooting, cutting and hiding of graphs | `FkCardinality` | `diagrams` |
| `DiagramPanels`, `MCDiagramPanels` | the five kinds of diagram tab | `RelationGraphs` | `diagrams` |
| `DiagramPanelsProofs` | theorems about the graphs and the tabs, and about the views and the conditions of a plan | `DiagramPanels`, `ExplainDiagram` | `tlapm` |
| `CsvDialect` | the CSV that is written and read back | - | `table_rows` |
| `RecordSteps` | quick search and record view stepping | - | `table_rows` |
| `TableRows` | a data tab over a table other sessions change | `CsvDialect`, `RecordSteps` | `table_rows` |
| `ImportRows`, `MCImportRows` | the import dialog over that tab | `TableRows` | `table_rows` |
| `ImportRowsProofs` | theorems about the tab, the import and the CSV dialect | `ImportRows` | `tlapm` |
| `LoginPresets` | login dialog and presets | - | `app_shell` |
| `Sidebar` | activity bar, pane, remembered layout | - | `app_shell` |
| `AppRoutes` | panels to addresses and back | - | `app_shell` |
| `AppShell`, `MCAppShell` | boot, tabs, address bar, roles, sign-out, unload guard | the three above | `app_shell` |
| `AppShellProofs` | theorems about the page, its sidebar, addresses and presets | `AppShell` | `tlapm` |

Some operators stand beside the one they are a variant of, named `X_Y` or
introduced by "Mutant:": `X` with a plausible bug. No specification uses them;
each shows that a property notices it.

What is called external below is code outside the repository (the UI library,
asyncpg, PostgreSQL), modelled only as far as the code relies on it.

### Sessions

One action is what a coroutine does between two awaits: asyncio switches
nowhere else. `registered`, `pool`, `age` are the dictionary, the asyncpg pool
and `last_seen` of a session; `pc` and `target` say where each request is;
`closing` is the pool whose close a task awaits; `expired` is the sweep's list,
computed before its first await and used after it. The browser's cookie jar is
part of the model, since the code's promises are about what a browser can still
do: responses are delivered in any order or lost (`Deliver`, `ResponseLost`).
External: asyncpg's pool (after `close()` it refuses acquires and waits for the
holders; an error or a cancellation terminates it), uvicorn (requests are
drained before the lifespan ends) and starlette's streaming response. What an
endpoint does with its connection is one step that ends or fails. Tokens never
repeat (`secrets.token_urlsafe`).

### LoginRateLimit

A time stamp is its age, which saturates at the window, so time needs no bound.
An attempt is cut at the two awaits of `login` that matter to the limit: the
dial and the close of the replaced session.

### SqlPreviewSync

One action is one event of the browser. A request remembers the form state it
was asked for; the landing of its answer is one action with everything the
continuation does, the release of a held form change included. The user may
edit the text back to the generated one; `undone` observes that this happened
since the form was last read, for two properties that exempt it (section 5).

### QueryPanel

`pane` is the tab panel: the strip, the active tab, the four slots and whether
the pane is shown. A result is the number of the call that brought it. A first
run puts a spinner into the strip; its factory starts one frame later, so the
answer may come before it (`FirstRunLandsEarly`, `FactoryStarts`). The tab
library is external: closing an active tab selects its left neighbour silently,
an unbuilt tab announces its activation only once built, the last tab's close
emits "empty". The shortcuts do not look at the busy flag, so a call may start
at any time.

### QueryWorkspace

`tab` holds a query tab's text, the text it is clean at, the saved query it is
linked to by name and its history cursor. `saved` and `history` are the
localStorage both windows share; `view` is the Queries view as last rebuilt by
its own window, which hears nothing of the other's writes. Dialogs are modal in
their window. `Close` takes a set of tabs, closed one by one or as one floating
window, and asks the one question of the guard. Texts are trimmed; the
formatter is left out.

### ObjectTabs

`tab`, `shown` and `active` are the Dock, `registry` is `_openPanels`, `asked`
and `answer` the column requests that several callers share, `waiting` and
`properties` the Properties inspector, `saves` and `saving` the Save of a
definition tab and of the Columns grid. Every opening of an id has a number, so
that a build or a refresh that outlives its tab can be told from one of the tab
now at its id; the code goes by the id alone. A request is two steps, the
server's read and the arrival of the answer, because an ALTER may come between
them. The Dock is external: a tab opens focused, closing the active one focuses
any other, and a build whose tab is gone is disposed.

### DetailEditors and the scripts

`db` is the object in the database, `original` the detail last loaded, `grid`
the edits. A preview dialog is modal only once its SQL has been generated, so
`dialogs` may hold two. The scripts are the statements the frontend plans and
the backend emits, folded over a small catalog: a column
or an attribute carries an `id` for the data stored under it, an enum catalog
carries the stored values, defaults and dependants, so that the properties can
speak of data kept and not only of names. A script is one transaction: a
statement that fails leaves the catalog as it was.

### Launchers, DdlObjects, Navigator

A launch is a record: the statements previewed, what success tells the
navigator (`change`), the tabs it closes, and whether it is a draft tab, a
dialog or a Save. `Navigator` runs one or two launches over a small database
while the tree refreshes. `tree` is the listed schemas with their loaded
children; `expanding`, `refreshes` and `scopes` are the reads in flight, each
answered at one moment and landing at another; a targeted refresh waits for the
loads before it reads (`loadSignal.ts`). `saved`
is the stored expansion. A full refresh that has replaced the nodes is a restore:
the saved paths still to do, the path whose load it awaits, the ones to retry.
A further refresh may replace the nodes under it; the load it awaits is then of a
node that is gone, and ends done or failed without touching the tree. Every node
a restore opens saves the expansion, unless some restore is under way. Two observing variables
record what the code accepts or the user did: `overtaken` (a schema that shows an older state for a reason
the property's comment names) and `wanted` (what the user has open, less what a
refresh that lands during a restore cannot know of).

### PlanPredicates, IndexAdvisor, StatementCalls, ExplainDiagram

A predicate is the syntax tree PostgreSQL holds; `Deparse` writes it as the
token sequence of EXPLAIN's text, `ParseConditionColumns` is the application's
scanner over that text, and `Sargable` says on the tree what a B-tree could
serve. `IndexAdvisor` walks the plan, asks for the structures of the relations
in parallel and ranks what is left.

`StatementCalls` is the way there: `editor` is the text, `call` the one call
under way, `work` what its open transaction has written, `kept` what was
committed, and `drawn` whether it advanced a sequence, which no rollback undoes.
A text is a sequence of words and of the marks the code's reading of it turns on
(parentheses, quotes, comments, line ends, characters of two UTF-16 units). Calls
that overtake each other are left to `QueryPanel`.

`ExplainDiagram` composes the two and adds `views`, the selection of the tree,
the diagram and the steps table, and `folded`, the rows the user closed. The
views are the library's. The handlers are synchronous, so the code's flag
`syncing` is the fact that a handler is one action.

### RelationGraphs, DiagramPanels

The panels are one class hierarchy and one module; `kind` says which class. The
controls are variables, `base` the rooted graph the hiding works on, `legend`
its check boxes, `incoming` the graph last handed to the view, `laying` and
`settles` the layout under way and the viewport moves waiting for it. The
DiagramView is external. The screen is abstracted to "nothing", "overview" or
"tables", which is what the panels ask it.

### TableRows, ImportRows

`TableRows` is a data tab over a table with a generated key, a unique NOT NULL
name and a nullable note; the store is the library's (`load()` replaces the
records and keeps queued removals, `reject()` forgets everything pending,
`sync()` sends one request per pending record). A cell is NULL or a sequence of
characters of `Chars`, a column's name is one of them, and a header names no
column twice; `KeyText` gives the digits of a key. Assumed of the user: the grid
is left alone while a Save's requests are out, at most one added row is
unsaved, the import button takes one click at a time, and the dialog is not
opened again while an earlier import is in flight. `ImportRows` adds the
dialog: a pick, the reading of the file, its preview (the server checks the rows
and leaves the database alone), the import in one transaction. Files are read
and previews land in any order.

### AppShell, LoginPresets, Sidebar, AppRoutes

`AppShell` is the page: the tabs with their ids, the address bar, the two
role fetches that share a sequence number or none, sign-out and the unload
guard. `LoginPresets` cuts the store's calls at their awaits, where another
window may write. `AppRoutes` holds the four tables that must agree: openers,
panel ids, address bar and router. A world starts the page in one `area` and
bounds what its user does there.

## 3. Runs

| Run | Bounds | Shows |
|---|---|---|
| `sessions` | 2 tokens, 2 parallel requests of 1 browser, pool of 1, timeout of 1 tick, a download's client may vanish | `NoPoolLeaked`, `HeldByRunningTask`, the refinement `ImplementsAccess`; `OrphansEvicted`, `RequestsEnd` |
| `rate_limit` | 2 clients, 3 attempts, limit 2, window 2 | `OvershootBounded`, `RefusalEnds` |
| `sql_preview` | 3 form states (two with equal SQL), 4 moves, among them typing the generated text back | `PreviewCurrent`, `ExecutedMatchesForm`, `HandEditKept` |
| `query_panel` | 5 user actions | `ExportFollowsTab`, `StaleAnswersIgnored`, `ComesToRest` |
| `object_tabs` | 1 table with 2 tabs, 1 definition, 1 info tab, 4 moves of the user or another session | `WaitersShareARequest`, `OnlyLatestShown`, `TabsSettle` |
| `detail_editors` | columns, attributes, labels, sequence; 1 editing spell, 2 Saves, 2 refreshes, 2 reloads, 1 change by another session | `SavedAsEdited`, `SaveGoesThrough`, `OthersWorkStays` |
| `navigator` | 10 databases of at most 2 schemas and 5 objects, 1 or 2 launches, 1 or 2 full refreshes beside the opening one, which may overlap it, 2 touches of the tree, 1 failing read | `NavigatorCurrent`, `ExpansionKept`, `TabsOutlive`, `WaitersProceed` |
| `workspace` | 2 tabs in 1 or 2 windows, 2 names, 2 texts, a history of 2, 3 moves | `OverwritesAsked`, `UnsavedAsked` |
| `index_advisor` | 17 statements, 1 leading blank line, 1 change of the text, results cut at 2 rows; 20 filters in estimated and measured plans, sorts, joins, 6 tables at once; tables bare, keyed, indexed, with a partial and a hash index; the views used where every structure came and before a suggestion is taken up | `PredicatesReadTrue`, `SuggestionsUseful`, `AnswersTellAll`, `SelectionAgrees` |
| `diagrams` | 2 schemas, 5 tables and a view, a namesake across schemas, parallel keys, a self-reference, a cycle; 5 kinds; 3 depths; 2 controls while a layout is under way | `ShowsWhatIsAsked`, `BadgesTellMore`, `EdgesAreKeys` |
| `table_rows` | 7 tables of at most 3 rows, 4 or 5 moves, 1 write of another session, 2 picks, imports of at most 2 rows | `ExportReadsBack`, `WritesWhatIsMeant`, `ImportsWhatIsShown` |
| `app_shell` | 14 starts: 3 login dialogs, 7 visited addresses, 4 areas with 3 to 5 moves, a stored layout that fits or not; 1 write of another window | `PresetsKept`, `ReloadComesBack`, `RolesInspectorLatest`, `SidebarRemembers`, `UnloadAsked` |

Each property is stated in words where it is defined.

Why the bounds are enough. Two requests are what it takes to interleave a login
with a logout, a query or another login, the sweep and the shutdown being tasks
of their own; two tokens give a session and its successor, and a pool of one
connection makes a second request wait (the safety part is proved for any
number). Three attempts over a limit of two reach every overshoot shape:
checked before, at and after the limit. Four moves in the preview allow edit,
regenerate, edit and Execute in any order; two forms with equal SQL are there
because the code compares texts. Five actions in the query panel allow a run, a
second one over it, an explain, a chart or diagram, and a Clear or a close.
Four moves of object tabs open a tab, close it, open it again while the first
build is still on its way, and leave one for a selection, a save or somebody
else's ALTER. Two Saves and two refreshes of an editor are what it takes for a
Save to be generated against a detail that a first one, or a late refresh, has
overtaken; the grids hold two or three members, enough for a swap, a chain of
renames and a label that takes a deleted one's text. The navigator's worlds
each hold the objects one family of launches touches, with a dependant or a
namesake that the launch must not touch. Two tabs are enough for two on one saved
name, one in each window. The filters of the advisor nest AND, OR and NOT to
the depth at which the scanner changes behaviour, with casts of one and two
words, literals that hold parentheses, quoted names, special values and operators
that look like comparisons. Its statements hold every form the
guard tells apart, with comments and literals that hold marks, both ways to fail,
and results below, at and above a cap of two. The diagram's five tables hold every
special shape once. Two rows, an added one and another session's write meet in
every order in the row worlds; three rows are there where the record view steps
over a filtered one. In the shell each area needs its own three to five moves;
the areas do not share state but through the tabs and the stores.

Fairness. `Sessions`: a coroutine whose await is over is resumed (asyncio's
loop), waiting acquires are served in turn (asyncpg's queue, hence strong
fairness of `Acquired`), the sweep's timer fires, time passes; nobody is
obliged to send a request or to log out. `LoginRateLimit`: time passes.
`SqlPreviewSync`, `QueryPanel`, `ObjectTabs`, `Navigator`, `ImportRows`: a request
or the reading of a file settles (the browser resolves or rejects both), continuations, timers and frames come. `DiagramPanels`: a layout comes. The user
is obliged to nothing, so liveness is about what follows once the user stops. The other modules state
no fairness and no liveness.

Deadlock is checked in `sessions` and `rate_limit`, where time always passes.
The frontend models stop when the user has used up the moves and all answers
are in; their configurations say so.

## 4. Proofs

Eight modules hold theorems, all for every value of the constants under the
named assumptions of the modules they extend.

| Module | Theorems | Assumed of the constants |
|---|---|---|
| `BackendProofs` (sessions) | `TypeOK`; `NoPoolLeaked`; `HeldByRunningTask`; a login revokes the session it replaces (`LoginAlwaysRevokes`); a shutdown that met no error leaves no pool (`ShutdownLeavesNoPool`); `Sessions` implements `SessionAccess` | actors and owners are distinct, limits are natural numbers |
| `BackendProofs` (rate limit) | its `TypeOK`, `OvershootBounded` | limit and window are positive, the attempts at once are finite |
| `SqlPreviewProofs` | `TypeOK`, `PreviewCurrent`, `ExecutedMatchesForm`, `HandEditKept`; a closing dialog is inert (`ClosedDoesNothing`) | texts, moves |
| `QueryPanelProofs` | `TypeOK`, `ExportFollowsTab`, `StaleAnswersIgnored` | any number of moves |
| `QueryWorkspaceProofs` | the invariant, `OverwritesAsked`, `UnsavedAsked` | names and tabs are numbers, the stored state is well formed |
| `ObjectTabsProofs` | `TypeOK`, `WaitersShareARequest`, `OnlyLatestShown` | any objects and moves |
| `AppShellProofs` | `SidebarRemembers`, `RolesInspectorLatest`, `ReloadComesBack`, `UnloadAsked`, `PresetsKept` | a world's stored layout is one the store can hold, its panels can be opened; its presets are rows with at most one default, an unreadable store has none; the entries the backend offers are not the user's |
| `DiagramPanelsProofs` | the invariant, `ShowsWhatIsAsked`, `BadgesTellMore`, `EdgesAreKeys` | tables and dependencies are finite, a key has columns and belongs to a table |
| `DiagramPanelsProofs` (plans) | `SelectionAgrees`, `PredicatesReadTrue` | a plan has finitely many nodes, at paths of child numbers, and its conditions are of `Predicates`: any columns, quoted or not, casts, literals, calls, special values, the comparisons, `<@`, `@>`, `<<` and `LIKE`, connected by AND and OR two deep; a changed text is one of the statements |
| `ImportRowsProofs` | the invariant, `ExportReadsBack`, `WritesWhatIsMeant`, `ImportsWhatIsShown` | texts are over `Chars`, which holds the four special characters and the columns' names; tables and files hold texts and NULL |

The argument is the same in all: an inductive invariant, one lemma per action
that the action keeps it, one lemma that puts the actions together, and short
theorems from it. Hardly any of the invariants the runs check is inductive alone.

* Sessions. `NoPoolLeaked` needs that a dialing login is alone with its pool
  (`DialingAlone`), that a task awaits a close only of a pool that is closing
  (`AwaitingClose`), that holders are users of the session (`HeldByUser`), that
  tokens in cookies and requests have been made (`KnownTokens`), and that after
  the shutdown began nothing starts (`Quiet`).
* Login rate limit. `OvershootBounded` is inductive with the types: the check
  lets an attempt in only below the limit, and a failure recorded takes the place
  of an attempt that was in flight. The window is a recursive function of the stamps; what it computes
  is proved from the smallest index for which it would not, which needs no
  induction theorem.
* Preview. `PreviewCurrent` needs that request numbers are unique (`IdsUnique`),
  that the newest request was asked for the form as it is unless a change is
  held or the timer is set or the user has undone an edit (`NewestCurrent`), and that the
  generated text is some form's (`GeneratedText`).
* Query panel. `PanelInv` says how the strip is made: the built tab of every slot
  that is taken and the spinner of every first run that has not settled, each
  once and nothing else, the active tab among them (`Orderly`); that the spinner count is the
  number of those runs; that Export follows (`Follows`); and that the newest
  first run finds its slot empty and the newest re-run finds its tab (`Newest`),
  without which a late answer could swap a tab that is not there.
* Query workspace. Both properties rest on dialogs being modal: while a window
  asks about a name or a close, the tab in question is open in that window and
  still shows the text the question was about (`Questions`). `CleanIsKept`: what
  the editor calls clean is what is stored.
* Object tabs. Whoever fetches columns waits for a request that is in flight
  (`BuildsAsked`, `CallsAsked`); the one Properties call that is not stale is
  about the object turned to last or the one loaded last (`CurrentIsLatest`);
  no id was opened more often than the user did something (`OpenedByMoves`), which bounds the numbers of the openings.
* Shell. Three independent invariants, and the presets' below. The sidebar's relates the pane's width,
  the width last kept and what is stored, per state of the rail. The roles' says
  that a role sure to show shows, or that its grants tab or the latest preview,
  which will show it, is under way. The address's (`Routed`, `Shown`, `Stamped`) says that every route leads
  the router back to its own panel, that the address bar shows the focused
  tab's, and that no run bears a stamp still to come; it rests on lemmas about
  the four tables of `AppRoutes`: the address of a panel, dispatched, opens a
  panel with the same id.
* Presets. Each operation of the store reads, then writes row by row.
  `PresetsInv` says what it still has to write: a save or a removal the one row
  it is about, a change of the default only rows that were there when it read,
  with the connection they had (`Reflags`), unless another window wrote since.
  Until the default is changed, every row that is flagged is the new default or
  still to be cleared (`Clearing`); and what the dialog lists as the default is
  what is stored as it (`TaskFlags` and the entries of the dialog).
* Diagrams. The graph traversal is proved against paths: `HopsExist` that the
  recursive function is well founded, `WalkFollowsPaths` that it finds what a
  path of that many hops leads to, `WalkGrows` and `WalkCloses` that on a finite
  graph it stops, and with no limit of depth stops at the least set that holds
  the root and every neighbour of its members (`ReachIsLeast`). `ShownIsInduced` and
  `ShownIsAsked` carry that through cutting, hiding and the legend. `PanelInv`
  is what the controls keep: the base is the graph they describe, the view was
  handed that base without what is hidden, and the legend's boxes agree.
  `CollapsedIsOfKeys` shows that folding parallel keys into one edge loses none.
* The views of a plan. What the diagram holds is always a plan that was fetched
  for a statement of the editor (`ExplainInv`), a finite tree. The steps table
  finds any node a click leads it to because its rows are all the nodes: the
  order of the text plan is a strict total order of paths (`BeforeOrder`), and
  ranking a finite set by such an order lists each member once (`RankedIs`).
* The conditions of a plan. `ConditionsReadTrue` rests on the invariant above and
  on `PredicateReadsTrue`, about one condition and the text PostgreSQL writes of
  it. The proof climbs the tree: what is known of the text of a term
  (`TermText`), of a comparison in its parentheses (`ComparisonText`), and of
  atoms and juncts that AND or OR connect: every part is balanced, shows no connective
  at its top level, and reads as it should. That depths add up where texts are
  joined (`DepthAtJoins`, `TopJoins`) says where the cuts fall, and that the cuts
  give back the parts (`CutParts`). The scanner counts parentheses in two ways, of which
  one looks into literals; `ClearIsRaw` says when they agree, and the rest of
  the cases loses columns and never adds one.
* Rows and import. `RowsInv`: no two records of one key; a record differs from
  what was loaded only in cells that were typed into (`Meant`); a request under
  way adds a row, rewrites such cells or deletes what was confirmed
  (`RequestsKept`). `Carries` says what a change of the table must leave alone for
  that to last. `DialogInv`: an export is the CSV of rows that were in the table,
  and what is being imported is what was previewed. `AllOrNone` and `InsertAllIs`
  carry an import row by row.
* The CSV dialect. `ReadBack`: whatever the cells hold, the parser reads what
  `toCSV` wrote. The tokenizer, the batch insert and `FlattenSeq` are recursive
  functions; that they exist is proved (`RecursionExists`), and what they compute
  is proved by climbing (`Climb`, from the smallest index that fails): over the
  characters of a field (`BareRead`, `InsideRead`), the fields of a record
  (`RecordRead`), the records of a file (`FileRead`).

What the proof attempts said about the models. `EdgesAreKeys` was not true of
every catalog: a key may be drawn to a namesake of its target, which the formula
now exempts (`DrawnToNamesake`, section 5). Guards of a CASE in
`AppRoutes` overlapped, where the code's order of tests decides; they are
disjoint now. Which conditions a plan may hold was left to the run's list; the
proof needed it said, and `Predicates` says it; the misread operators and special
values of section 5 are in it, and the formula exempts the conditions that hold one
(`Misread`). The id of an object's tab could equal that of a role's in the
model, which had left out the prefix that tells them apart in the code; it is
there now. The tables of `TableRows` were assumed to map keys to rows
without being assumed functions. In `Navigator`, where nothing is proved, looking for an
invariant showed that restores overlap; the module has them now.

Only model-checked:
* liveness (`OrphansEvicted`, `RequestsEnd`, `RefusalEnds`, `ComesToRest`,
  `TabsSettle`, `WaitersProceed`), since fairness and ENABLED are out of the
  prover's reach;
* what recursive definitions compute over trees, and folds, since induction over
  data is out of reach (over the indexes of a sequence it can be done by hand, as
  above): `SuggestionsUseful`, and the scripts behind
  `DetailEditors`, which declare a RECURSIVE operator;
* `Navigator`: what a tree in the middle of merges, loads and overlapping restores
  satisfies was not worked out into an inductive invariant;
* `AnswersTellAll`, which needs statements to be SQL: of texts of any words, such
  as `(SELECT) INSERT`, which the guard takes for read-only, it is false, and the
  model has no grammar of SQL.

## 5. Where the code differs from what it says, or may surprise

None of these is exempted silently: a property that has to allow for one says
so in its comment. Items marked (library) depend on the UI library.

Backend
* The sweep evicts a session that was used after the pass listed it
  (`connections.py:208`).
* A connection is not released when the client is gone before the export's
  first byte (`endpoints/export.py:73`); `HeldByRunningTask` allows it.
* Retry-After looks at the oldest failure even when overlapping attempts left
  more failures than the limit (`rate_limit.py:72`), so it can be too early.

SQL preview and query panel
* After an undo of a hand edit, the preview shows and Execute runs the SQL of an
  older form (`sqlPreviewSync.ts:142`, against `settle`'s "the SQL that runs
  matches the form's latest state", `:163`): `PreviewCurrent` and
  `ExecutedMatchesForm` exempt it in the formula (`undone`).
* Export keeps offering rows of a Data tab that a status result removed
  (`QueryPanel.ts:1134`); `ExportFollowsTab` allows it.
* A superseded run, maybe a write, has executed and is neither reported nor
  recorded in the history (`QueryPanel.ts:914`).

Object tabs and editors
* A tab that finishes loading shows its object in Properties, also from the
  background and after the user has clicked another (`objectPanels.ts:131`,
  `:229`, against `SqlAdminController.ts:564`, "rapid clicks never render the
  wrong object"): `OnlyLatestShown` exempts it in the formula (`loaded`).
* A tab closed while it loads is registered all the same
  (`objectPanels.ts:114`, against `SqlAdminController.ts:655`, "undefined when
  the tab is not open"); an older build may overwrite a newer entry.
* Refreshes land out of order, also against the reload after a Save
  (`objectPanels.ts:173`); a column fetch is shared with one read before an
  ALTER (`SqlAdminController.ts:543`).
* The preview is not modal while its SQL is generated (`SqlPreviewDialog.ts:294`),
  so Save can run twice. Renames in grid order refuse a swap of two names. A
  reload after Save, or a refresh, discards what was typed meanwhile.
* A Save that deletes an enum label rebuilds the type from the labels the tab had
  loaded and the defaults its preview read, so a label another session has added
  since, which no row holds, is lost and a default it has set is set back:
  `OthersWorkStays` exempts both in the formula (`Rebuilds`).
* Changing a function's argument list creates an overload, and the reload after
  it may fail (documented).

Query workspace
* Two tabs linked to one saved query overwrite each other without a question.
* Another window's writes and "Clear data" leave the Queries view stale
  (`QueriesView.ts`, "so the view is always current"); an open row menu looks
  its row up by index when an item is chosen (`QueriesView.ts:321`), so a run
  that lands meanwhile makes Execute run another query.
* Text typed over a recalled entry is lost at the next recall; equal
  `Date.now()` stamps collide in the history; a run that lands after its tab
  closed is recorded as that tab's.
* A format in flight during a Save marks unsaved formatting clean.

Navigator and launchers
* `dropConstraint` (`ddlLaunchers.ts:478`) reports an ALTER of one table and
  never its CASCADE: a view of another schema that went with a key stays listed
  (`navigatorRefresh.ts:63` says a cascading drop can reach any schema).
  `MCNavigator!Keyed` is that database; `NavigatorCurrent` exempts the schemas
  such a launch does not tell of (`Untold`).
* Restores of overlapping refreshes share one flag (`treeExpansion.ts:116`). The
  first to end clears it and writes the tree while a later one is still at work,
  although the comment at `:119` says "now that the tree has settled"; a third
  refresh then restores from what is left (`MCNavigator!RefreshedThrice`). Nor
  is anything stored of what the user opens during a restore. `ExpansionKept` asks
  of a refresh that lands during a restore only for what is stored by then
  (`RestoreUnderWay`).
* Dropping a function closes the tabs of a table or view with its name, and
  dropping a table those of a function with its name: the ids to close are made
  for every kind (`panelIdsFor` in `controllerText.ts:149`, called from
  `ddlLaunchers.ts:399`). `MCNavigator!Namesakes`; `TabsOutlive` exempts them
  (`Namesake`).
* An expansion in flight when a DDL commits lands stale (accepted in
  `plans/implemented/navigator-targeted-refresh.md`).
* `refreshMaterializedView` refreshes nothing in the tree even when the user
  edited its SQL. `closeTabsFor` goes by schema and name without the kind. A
  draft's schema is read when it succeeds. Saving the expansion drops paths a
  failed restore would have retried. Dropping a sequence or a type and renaming
  a schema close no tabs. Editing a materialized view's definition loses its
  indexes.

Plans and diagrams
* The header of `planPredicates.ts` says that other operators are dropped, but
  `findTopLevelOperator` takes the `<` of `<@` and `<<` and the `>` of `@>` as a
  range comparison (`planPredicates.ts:262`), and `parseColumnTerm` (`:177`)
  `CURRENT_DATE` and its like as columns: `PredicatesReadTrue` exempts conditions
  that hold one (`Misread`). In the filter of a scan such a value becomes a column
  of the suggested index (`suggestIndexes.ts:292`); `SuggestionsUseful` exempts it
  (`SpecialValues`). Quoted names are given up on, as documented.
* `isReadOnlyStatement` honours neither literals nor nested comments, so a `)` in
  a literal lets a writing statement pass to ANALYZE. Its doc says best effort
  (`explain.ts:92`), and the server rolls back; `AnswersTellAll` asks only that a
  statement which plainly writes is not executed for a plan.
* `ExplainDiagramPanel.ts:297` says `expandAll` guarantees that selecting a tree
  row "never no-ops". A row the user has folded since hides its nodes, and the
  tree keeps an older selection than the other two views; `SelectionAgrees`
  allows it.
* `fkCardinality.ts` (`:200`) counts partial, expression and non-B-tree indexes as
  covering as far as their column terms go: `SuggestionsUseful` lets what such an
  index does not serve be left out, `EdgesAreKeys` counts them as any index.
* The database panel can hide its root's schema, and the root with it, which
  `applyHide` says is "never hidden" (`relationDiagram.ts:114`):
  `ShowsWhatIsAsked` exempts it (`RootHidden`). `buildSchemaDiagram` keeps a key to
  another schema when this one has a table of the same name, and draws it to that
  one (`buildSchemaDiagram.ts:140`, against its doc at `:90`): `EdgesAreKeys` exempts
  the target of such a key (`DrawnToNamesake`). A double click on a table that is
  still on screen while the overview is laid out hides every schema.

Rows and import
* Two previews in flight land out of order (`ImportRowsDialog.ts:127`); what is
  imported is still what is shown.
* A user who may INSERT but not UPDATE can add a row whose required cells are
  read-only. A deletion confirmed while a reload is under way shows the row
  again and still has it queued. Leaving the dialog does not cancel the import,
  whose end discards edits made since.

Shell
* `roleActions.ts:206` says the guard of `fetchRoleDetail` keeps rapid role
  clicks from rendering a stale role, but the fetch of `openRoleGrants` is not
  guarded. Opening a grants graph cancels a role preview under way, and clicking
  another role closes a loading grants tab (`roleActions.ts:145`, `:222`).
  `RolesInspectorLatest` exempts the orders in which either happens (`asked.sure`).
* `presetStore.ts:83` speaks of going past a corrupt blob by discarding it;
  `setDefault` and `remove` never discard it. Deleting a preset leaves the
  default button's label stale. With two windows a save may leave two defaults,
  and `setDefault` may bring back a row the other window removed.
* A sidebar dragged to exactly the rail's width and then collapsed reopens at an
  older width; `SidebarRemembers` exempts it (`meant.width = 0`). The address bar keeps a
  deep link until the first focus, and may name a history entry that is gone. Reloading on a history address runs the
  statement again, writes too (documented). Names with a slash do not survive
  the round trip through an address (library).

## 6. Not modelled

Whole components: the export's encoders, the catalog reads, the statement compiler and the wire
codecs, configuration, errors, static files, the API client (the models see it
as calls that answer late, fail or answer in another order), widgets. They are
single statements or conversions without state; the compiler and the codecs are
in the plan.

Within modelled components (`PROJECT.json` says it for each): the reveal of a
node from a tab (`revealCoordinator.ts`, where an older and slower reveal
selects last), the navigator's filter and quick open, grants and roles as DDL,
triggers, the read-only grids, the values of a result on the wire, card
contents and geometry, paging, sorting and header filters of rows, keys that
are not generated, wire types other than text, the notes, the start page, the
text editor, titles and status texts, panes' geometry.

## 7. The plan

1. A theorem about `AnswersTellAll`. `EnumScripts` declares a recursive operator, so
   it and `DetailEditors` stay with TLC.
2. `RowWrites`: an abstract all-or-nothing import that `ImportRows` implements.
3. The reveal coordinator over `Navigator`, with the order in which two reveals
   select.
4. Compiler placeholders and wire codecs as operators against their inverse.
