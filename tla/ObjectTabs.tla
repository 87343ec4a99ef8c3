----------------------------- MODULE ObjectTabs -----------------------------
(***************************************************************************)
(* The tabs of database objects: SqlAdminController.ts (panel registry,    *)
(* shared column fetch, Properties, tab focus and close) and               *)
(* objectPanels.ts (the openers, the refreshes of a tab, what follows a    *)
(* Save).  Tables and views have a data and a structure tab; views,        *)
(* functions, types, sequences and indexes have a tab with their           *)
(* definition or details.                                                  *)
(*                                                                         *)
(* A tab opens as a spinner and is built behind it, so what a build does   *)
(* may happen after its tab closed, or after its id was opened again; the  *)
(* openings of an id are numbered to tell the builds apart.  A table's     *)
(* columns, or an object's details, are a version number that an ALTER     *)
(* raises.  Rows, privileges, indexes and constraints are left out.  The   *)
(* Save of a type's or a sequence's info tab is in DetailEditors.          *)
(***************************************************************************)
EXTENDS Naturals, FiniteSets

CONSTANTS
    Tables,         \* the objects with columns, views among them
    Definitions,    \* views and functions: they have a definition tab
    Infos,          \* sequences, indexes and types: they have an info tab
    NoObject,
    Moves           \* bound on what the user, and other sessions, do

Objects == Tables \cup Definitions \cup Infos
ASSUME ObjectAssumption == NoObject \notin Objects
ASSUME MovesAssumption == Moves \in Nat

VARIABLES
    version,        \* the server: version[o] of the columns or details of o
    opens,          \* how often each id was opened
    tab,            \* the Dock: "closed", "loading" or "open"
    shown,          \* the version an open tab was built with or reseeded with
    active,         \* the focused tab, _activePanelId
    registry,       \* _openPanels
    asked,          \* the keys of _columnsInFlight
    answer,         \* what the server read for such a request, 0 if not yet
    waiting,        \* showProperties calls that await columns
    latest,         \* the object the user turned to last: a click in the
                    \* navigator, or a tab that came to the front
    loaded,         \* the object of the last tab that has finished loading
                    \* since then, and so called showProperties unasked
    properties,     \* what the Properties inspector shows
    builds,         \* tab contents being fetched
    loads,          \* first row loads under way
    refreshes,      \* refreshes of all but data tabs under way
    saves,          \* Saves of definition tabs whose SQL executes
    saving,         \* the Alter-columns dialog, modal: table and what is done
    moves

dock == <<tab, shown, active>>
inspector == <<waiting, latest, loaded, properties>>
vars == <<version, opens, dock, registry, asked, answer, inspector, builds,
          loads, refreshes, saves, saving, moves>>

Data(t) == <<t, "data">>            \* panelId
Structure(t) == <<t, "structure">>  \* structurePanelId
Definition(o) == <<o, "definition">>
Info(o) == <<o, "info">>            \* sequenceInfoPanelId and the like
Tabs == (Tables \X {"data", "structure"}) \cup (Definitions \X {"definition"})
            \cup (Infos \X {"info"})
HasData(i) == i[2] = "data"
HasColumns(i) == i[2] \in {"data", "structure"}  \* the columns of an entry
NoTab == <<NoObject, "data">>
ObjectOf(i) == i[1]

Unread == 0
Versions == Nat
Opening == 1 .. Moves
NoEntry == [n |-> 0, columns |-> Unread]

Build == [id : Tabs, n : Opening, step : {"fetching", "answered", "failed"},
          columns : Versions]
Registry == [Tabs -> {NoEntry} \cup [n : Opening, columns : Versions]]
Calls == [table : Tables, current : BOOLEAN]
Loads == [id : Tabs, n : Opening]
Refreshes == [id : Tabs, n : Opening, columns : Versions, saved : BOOLEAN]
NotSaving == [table |-> NoObject, executed |-> FALSE]
Savings == {NotSaving} \cup [table : Tables, executed : BOOLEAN]

TypeOK ==
    /\ version \in [Objects -> Versions \ {Unread}]
    /\ opens \in [Tabs -> 0 .. Moves]
    /\ tab \in [Tabs -> {"closed", "loading", "open"}]
    /\ shown \in [Tabs -> Versions]
    /\ active \in Tabs \cup {NoTab}
    /\ registry \in Registry
    /\ asked \in SUBSET Tables
    /\ answer \in [Tables -> Versions]
    /\ waiting \in SUBSET Calls
    /\ latest \in Objects \cup {NoObject}
    /\ loaded \in Objects \cup {NoObject}
    /\ properties \in [object : Objects \cup {NoObject}, columns : Versions]
    /\ builds \in SUBSET Build
    /\ loads \in SUBSET Loads
    /\ refreshes \in SUBSET Refreshes
    /\ saves \in SUBSET Loads
    /\ saving \in Savings
    /\ moves \in 0 .. Moves

Init ==
    /\ version = [o \in Objects |-> 1]
    /\ opens = [i \in Tabs |-> 0]
    /\ tab = [i \in Tabs |-> "closed"]
    /\ shown = [i \in Tabs |-> Unread]
    /\ active = NoTab
    /\ registry = [i \in Tabs |-> NoEntry]
    /\ asked = {}
    /\ answer = [t \in Tables |-> Unread]
    /\ waiting = {}
    /\ latest = NoObject
    /\ loaded = NoObject
    /\ properties = [object |-> NoObject, columns |-> Unread]
    /\ builds = {}
    /\ loads = {}
    /\ refreshes = {}
    /\ saves = {}
    /\ saving = NotSaving
    /\ moves = 0

-----------------------------------------------------------------------------
(* Steps the actions are made of.                                          *)

\* The user does something: not while the modal dialog is up.
Acts ==
    /\ moves < Moves
    /\ moves' = moves + 1
    /\ saving = NotSaving

\* Is this the build, load or refresh of the tab that is at its id now?
Current(x) == tab[x.id] # "closed" /\ x.n = opens[x.id]

CachedColumns(entries, t) ==
    LET data == entries[Data(t)]
    IN  IF data # NoEntry THEN data.columns ELSE entries[Structure(t)].columns

\* showProperties, when the registry holds entries and requests for the
\* columns of the tables in keys are in flight; by the user, or by a tab that has
\* finished loading. Its counter makes every earlier call stale.
ShowProperties(object, entries, keys, byLoad) ==
    LET stale == {[w EXCEPT !.current = FALSE] : w \in waiting}
        cached == IF object \in Tables THEN CachedColumns(entries, object) ELSE Unread
    IN  /\ latest' = IF byLoad THEN latest ELSE object
        /\ loaded' = IF byLoad THEN object ELSE NoObject
        /\ \/ /\ object \notin Tables \/ cached # Unread
              /\ properties' = [object |-> object, columns |-> cached]
              /\ waiting' = stale
              /\ asked' = keys
           \/ /\ object \in Tables
              /\ cached = Unread
              /\ waiting' = stale \cup {[table |-> object, current |-> TRUE]}
              /\ asked' = keys \cup {object}
              /\ UNCHANGED properties

HasEntry(entries, i) == i \in Tabs /\ entries[i] # NoEntry

\* syncToPanel: nothing for an id without a registry entry.
SyncToPanel(i, entries, keys, byLoad) ==
    \/ /\ HasEntry(entries, i)
       /\ ShowProperties(ObjectOf(i), entries, keys, byLoad)
    \/ /\ ~HasEntry(entries, i)
       /\ asked' = keys
       /\ UNCHANGED inspector

\* The Dock drops tab i: the "close" handler forgets its entry and, if it was
\* the active one, "focus" brings another to the front.
CloseTab(i) ==
    LET others == {j \in Tabs \ {i} : tab[j] # "closed"}
    IN  /\ tab' = [tab EXCEPT ![i] = "closed"]
        /\ shown' = [shown EXCEPT ![i] = Unread]
        /\ registry' = [registry EXCEPT ![i] = NoEntry]
        /\ \/ /\ active = i
              /\ active' \in IF others = {} THEN {NoTab} ELSE others
              /\ SyncToPanel(active', registry', asked, FALSE)
           \/ /\ active # i
              /\ UNCHANGED <<active, asked, inspector>>

-----------------------------------------------------------------------------
(* The user.                                                               *)

\* An opener for a tab that is there: focusPanel; also a click on a tab.
FocusTab(i) ==
    /\ Acts
    /\ tab[i] # "closed"
    /\ active # i
    /\ active' = i
    /\ SyncToPanel(i, registry, asked, FALSE)
    /\ UNCHANGED <<version, opens, tab, shown, registry, answer, builds, loads,
                   refreshes, saves, saving>>

\* An opener: a spinner tab, focused, and behind it the fetches. A data tab
\* shares a column request in flight.
OpenTab(i) ==
    LET t == ObjectOf(i)
    IN  /\ Acts
        /\ tab[i] = "closed"
        /\ tab' = [tab EXCEPT ![i] = "loading"]
        /\ opens' = [opens EXCEPT ![i] = @ + 1]
        /\ builds' = builds \cup {[id |-> i, n |-> opens'[i], step |-> "fetching",
                                   columns |-> Unread]}
        /\ active' = i
        /\ SyncToPanel(i, registry, IF HasData(i) THEN asked \cup {t} ELSE asked, FALSE)
        /\ UNCHANGED <<version, shown, registry, answer, loads, refreshes, saves, saving>>

OpenTable(t) == OpenTab(Data(t))
OpenStructure(t) == OpenTab(Structure(t))
OpenDefinition(o) == OpenTab(Definition(o))  \* openFunctionDefinition too
OpenInfo(o) == OpenTab(Info(o))     \* openSequence, openIndex, openType

\* The user closes a tab, confirming the loss of unsaved edits if asked.
UserCloses(i) ==
    /\ Acts
    /\ tab[i] # "closed"
    /\ CloseTab(i)
    /\ UNCHANGED <<version, opens, answer, builds, loads, refreshes, saves, saving>>

\* A click in the navigator.
Select(object) ==
    /\ Acts
    /\ ShowProperties(object, registry, asked, FALSE)
    /\ UNCHANGED <<version, opens, dock, registry, answer, builds, loads,
                   refreshes, saves, saving>>

\* Fetch what tab i shows, for a refresh or after its Save.
Ask(i, n, saved) ==
    refreshes' = refreshes \cup
                 {[id |-> i, n |-> n, columns |-> Unread, saved |-> saved]}

\* The refresh closure the entry holds: refreshActive, or refreshStructure once
\* an index or a constraint was created or dropped.
RefreshTab(i) ==
    /\ Acts
    /\ ~HasData(i)
    /\ registry[i] # NoEntry
    /\ Ask(i, registry[i].n, FALSE)
    /\ UNCHANGED <<version, opens, dock, registry, asked, answer, inspector,
                   builds, loads, saves, saving>>

\* The tab's own Refresh tool, of the Columns section or of a definition or info tab.
RefreshTool ==
    /\ Acts
    /\ active # NoTab
    /\ ~HasData(active)
    /\ tab[active] = "open"
    /\ Ask(active, opens[active], FALSE)
    /\ UNCHANGED <<version, opens, dock, registry, asked, answer, inspector,
                   builds, loads, saves, saving>>

\* Save in a definition tab; its button is disabled until the last Save, and
\* the reload that follows, have ended.
SaveDefinition(o) ==
    LET mine == [id |-> Definition(o), n |-> opens[Definition(o)]]
    IN  /\ Acts
        /\ active = mine.id
        /\ tab[active] = "open"
        /\ mine \notin saves
        /\ ~\E f \in refreshes : f.saved /\ f.id = mine.id /\ f.n = mine.n
        /\ saves' = saves \cup {mine}
        /\ UNCHANGED <<version, opens, dock, registry, asked, answer, inspector,
                       builds, loads, refreshes, saving>>

\* Save in the Columns section of a table, not of a view: the user confirms the
\* ALTERs of the dialog.
SaveColumns(t) ==
    /\ Acts
    /\ t \notin Definitions
    /\ active = Structure(t)
    /\ tab[active] = "open"
    /\ saving' = [table |-> t, executed |-> FALSE]
    /\ UNCHANGED <<version, opens, dock, registry, asked, answer, inspector,
                   builds, loads, refreshes, saves>>

-----------------------------------------------------------------------------
(* The server and its answers.                                             *)

\* Somebody else alters the object.
AlteredElsewhere(t) ==
    /\ moves < Moves
    /\ moves' = moves + 1
    /\ version' = [version EXCEPT ![t] = @ + 1]
    /\ UNCHANGED <<opens, dock, registry, asked, answer, inspector, builds,
                   loads, refreshes, saves, saving>>

\* The server reads the catalogue for the shared request ...
ColumnsRead(t) ==
    /\ t \in asked
    /\ answer[t] = Unread
    /\ answer' = [answer EXCEPT ![t] = version[t]]
    /\ UNCHANGED <<version, opens, dock, registry, asked, inspector, builds,
                   loads, refreshes, saves, saving, moves>>

SharedBy(t) == {b \in builds : b.id = Data(t) /\ b.step = "fetching"}

\* Mutant: the builds that shared the request are forgotten.
Settle_ForgetsBuilds(t, step, columns) ==
    /\ asked' = asked \ {t}
    /\ answer' = [answer EXCEPT ![t] = Unread]
    /\ waiting' = {w \in waiting : w.table # t}
    /\ UNCHANGED builds

Settle(t, step, columns) ==
    /\ asked' = asked \ {t}
    /\ answer' = [answer EXCEPT ![t] = Unread]
    /\ builds' = (builds \ SharedBy(t)) \cup
                 {[b EXCEPT !.step = step, !.columns = columns] : b \in SharedBy(t)}
    /\ waiting' = {w \in waiting : w.table # t}

\* Mutant: showProperties does not look at its counter.
ColumnsShown_Stale(t) ==
    properties' = IF \E w \in waiting : w.table = t
                  THEN [object |-> t, columns |-> answer[t]] ELSE properties

ColumnsShown(t) ==
    properties' = IF [table |-> t, current |-> TRUE] \in waiting
                  THEN [object |-> t, columns |-> answer[t]] ELSE properties

\* ... and the answer reaches everybody who waits for it.
ColumnsArrive(t) ==
    /\ answer[t] # Unread
    /\ Settle(t, "answered", answer[t])
    /\ ColumnsShown(t)
    /\ UNCHANGED <<version, opens, dock, registry, latest, loaded, loads,
                   refreshes, saves, saving, moves>>

\* The request fails: an error message for the latest selection, and the
\* builds that shared it reject.
ColumnsFail(t) ==
    /\ t \in asked
    /\ Settle(t, "failed", Unread)
    /\ UNCHANGED <<version, opens, dock, registry, latest, loaded, properties,
                   loads, refreshes, saves, saving, moves>>

\* The server reads the catalogue for the request of a structure, definition or info tab.
BuildRead(b) ==
    /\ ~HasData(b.id)
    /\ b.step = "fetching"
    /\ builds' = (builds \ {b}) \cup
          {[b EXCEPT !.step = "answered", !.columns = version[ObjectOf(b.id)]]}
    /\ UNCHANGED <<version, opens, dock, registry, asked, answer, inspector,
                   loads, refreshes, saves, saving, moves>>

Lands(b) ==
    IF Current(b)
    THEN /\ tab' = [tab EXCEPT ![b.id] = "open"]
         /\ shown' = [shown EXCEPT ![b.id] = b.columns]
    ELSE UNCHANGED <<tab, shown>>  \* the Dock disposes the arrival

\* registerPanel, by id; a definition or info tab has no columns there.
Register(b) ==
    registry' = [registry EXCEPT ![b.id] =
                    [n |-> b.n, columns |-> IF HasColumns(b.id) THEN b.columns ELSE Unread]]

\* Every fetch of the build is back: it registers the panel under its id, a
\* data tab starts loading rows, and the Dock takes the panel if its tab is
\* still there.
BuildEnds(b) ==
    /\ b.step = "answered"
    /\ builds' = builds \ {b}
    /\ Register(b)
    /\ Lands(b)
    /\ \/ /\ HasData(b.id)
          /\ loads' = loads \cup {[id |-> b.id, n |-> b.n]}
          /\ UNCHANGED <<asked, inspector>>
       \/ /\ ~HasData(b.id)
          /\ SyncToPanel(b.id, registry', asked, TRUE)
          /\ UNCHANGED loads
    /\ UNCHANGED <<version, opens, active, answer, refreshes, saves, saving, moves>>

\* Mutant: the spinner stays.
BuildFails_KeepsSpinner(b) ==
    /\ builds' = builds \ {b}
    /\ UNCHANGED <<version, opens, dock, registry, asked, answer, inspector,
                   loads, refreshes, saves, saving, moves>>

\* One of the fetches failed: the Dock closes the spinner tab.
BuildFails(b) ==
    /\ builds' = builds \ {b}
    /\ \/ /\ Current(b)
          /\ CloseTab(b.id)
       \/ /\ ~Current(b)
          /\ UNCHANGED <<dock, registry, asked, inspector>>
    /\ UNCHANGED <<version, opens, answer, loads, refreshes, saves, saving, moves>>

\* The first page of rows is there: syncToPanel, whatever tab is active.
RowsLoaded(l) ==
    /\ loads' = loads \ {l}
    /\ SyncToPanel(l.id, registry, asked, TRUE)
    /\ UNCHANGED <<version, opens, dock, registry, answer, builds, refreshes,
                   saves, saving, moves>>

RowsFail(l) ==
    /\ loads' = loads \ {l}
    /\ UNCHANGED <<version, opens, dock, registry, asked, answer, inspector,
                   builds, refreshes, saves, saving, moves>>

RefreshRead(f) ==
    /\ f.columns = Unread
    /\ refreshes' = (refreshes \ {f}) \cup
                    {[f EXCEPT !.columns = version[ObjectOf(f.id)]]}
    /\ UNCHANGED <<version, opens, dock, registry, asked, answer, inspector,
                   builds, loads, saves, saving, moves>>

Cache(f) ==
    \/ /\ HasColumns(f.id)
       /\ registry[f.id] # NoEntry
       /\ registry' = [registry EXCEPT ![f.id].columns = f.columns]
    \/ /\ HasColumns(f.id) => registry[f.id] = NoEntry \/ ~Current(f)
       /\ UNCHANGED registry

\* The refresh reseeds its own panel, and a structure tab's the columns cached
\* in the entry at its id. A panel that is gone may throw before the cache is
\* written.
RefreshEnds(f) ==
    /\ f.columns # Unread
    /\ refreshes' = refreshes \ {f}
    /\ shown' = IF Current(f) THEN [shown EXCEPT ![f.id] = f.columns] ELSE shown
    /\ Cache(f)
    /\ UNCHANGED <<version, opens, tab, active, asked, answer, inspector,
                   builds, loads, saves, saving, moves>>

RefreshFails(f) ==
    /\ refreshes' = refreshes \ {f}
    /\ UNCHANGED <<version, opens, dock, registry, asked, answer, inspector,
                   builds, loads, saves, saving, moves>>

-----------------------------------------------------------------------------
(* Saving.                                                                 *)

\* onSave of a definition tab: the SQL runs, then the tab is reloaded.
DefinitionSaved(d) ==
    /\ version' = [version EXCEPT ![ObjectOf(d.id)] = @ + 1]
    /\ saves' = saves \ {d}
    /\ Ask(d.id, d.n, TRUE)
    /\ UNCHANGED <<opens, dock, registry, asked, answer, inspector, builds, loads,
                   saving, moves>>

DefinitionSaveFails(d) ==
    /\ saves' = saves \ {d}
    /\ UNCHANGED <<version, opens, dock, registry, asked, answer, inspector,
                   builds, loads, refreshes, saving, moves>>

SaveExecutes ==
    /\ saving # NotSaving
    /\ ~saving.executed
    /\ version' = [version EXCEPT ![saving.table] = @ + 1]
    /\ saving' = [saving EXCEPT !.executed = TRUE]
    /\ UNCHANGED <<opens, dock, registry, asked, answer, inspector, builds,
                   loads, refreshes, moves, saves>>

\* onColumnsSaved: the data tab closes and the structure tab refreshes.
SaveEnds ==
    LET data == Data(saving.table)
        structure == Structure(saving.table)
    IN  /\ saving # NotSaving
        /\ saving.executed
        /\ saving' = NotSaving
        /\ \/ /\ tab[data] # "closed"
              /\ CloseTab(data)
           \/ /\ tab[data] = "closed"
              /\ UNCHANGED <<dock, registry, asked, inspector>>
        /\ Ask(structure, opens[structure], FALSE)
        /\ UNCHANGED <<version, opens, answer, builds, loads, moves, saves>>

\* The statements failed, or their answer was lost; the user gives up.
SaveFails ==
    /\ saving # NotSaving
    /\ saving' = NotSaving
    /\ UNCHANGED <<version, opens, dock, registry, asked, answer, inspector,
                   builds, loads, refreshes, moves, saves>>

-----------------------------------------------------------------------------

UserActs ==
    \/ \E i \in Tabs : FocusTab(i) \/ UserCloses(i) \/ RefreshTab(i)
    \/ \E t \in Tables : OpenTable(t) \/ OpenStructure(t) \/ SaveColumns(t)
    \/ \E o \in Definitions : OpenDefinition(o) \/ SaveDefinition(o)
    \/ \E o \in Infos : OpenInfo(o)
    \/ \E object \in Objects : Select(object)
    \/ RefreshTool

BuildProceeds(b) == BuildRead(b) \/ BuildEnds(b) \/ BuildFails(b)
LoadProceeds(l) == RowsLoaded(l) \/ RowsFail(l)
RefreshProceeds(f) == RefreshRead(f) \/ RefreshEnds(f) \/ RefreshFails(f)
RequestProceeds(t) == ColumnsRead(t) \/ ColumnsArrive(t) \/ ColumnsFail(t)
SaveProceeds == SaveExecutes \/ SaveEnds \/ SaveFails

Next ==
    \/ UserActs
    \/ \E o \in Objects : AlteredElsewhere(o)
    \/ \E t \in Tables : RequestProceeds(t)
    \/ \E b \in builds : BuildProceeds(b)
    \/ \E l \in loads : LoadProceeds(l)
    \/ \E f \in refreshes : RefreshProceeds(f)
    \/ \E d \in saves : DefinitionSaved(d) \/ DefinitionSaveFails(d)
    \/ SaveProceeds

\* Every request is answered or fails; the user owes nothing.
Fairness ==
    /\ \A t \in Tables : WF_vars(RequestProceeds(t))
    /\ WF_vars(\E b \in builds : BuildProceeds(b))

Spec == Init /\ [][Next]_vars /\ Fairness

-----------------------------------------------------------------------------
(* Properties.                                                             *)

\* Nobody waits for columns that are not on their way: as long as a data tab
\* or Properties depends on the shared request its key is there, so no later
\* fetch starts a second one (fetchColumns).
WaitersShareARequest ==
    \A t \in Tables :
        SharedBy(t) # {} \/ (\E w \in waiting : w.table = t) => t \in asked

\* Properties turns only to the object the user turned to last, or to that of
\* the last tab that has finished loading since; no other answer, however late,
\* brings its object back ("rapid clicks never render the wrong object",
\* SqlAdminController.ts:564-566).  The tab is an exemption from that line: when
\* its load ends it calls showProperties, in front or in the background
\* (objectPanels.ts:131, :229), and takes the inspector from what the user has
\* clicked meanwhile.
OnlyLatestShown ==
    [][properties' # properties => properties'.object \in {latest', loaded'}]_vars

\* No spinner spins for ever: every tab gets its panel or closes.
TabsSettle == \A i \in Tabs : tab[i] = "loading" ~> tab[i] # "loading"

=============================================================================
