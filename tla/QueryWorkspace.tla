--------------------------- MODULE QueryWorkspace ---------------------------
(***************************************************************************)
(* Query tabs and what they leave behind: queryWorkspace.ts,               *)
(* querySaveFlow.ts, queryStore.ts, historyCursor.ts, the Queries view of  *)
(* the sidebar, and the guard against closing unsaved tabs.                *)
(*                                                                         *)
(* The saved queries and the run history are in the localStorage that all  *)
(* windows of a browser share; nothing tells a window that another wrote.  *)
(* One browser event with the microtasks it queues is one step; dialogs    *)
(* are modal in their window and answered later, and a run lands later.    *)
(* Texts are trimmed, formatting a text is left out, and so is what a run  *)
(* shows (QueryPanel).                                                     *)
(***************************************************************************)
EXTENDS Naturals, Sequences, FiniteSets, SequencesExt

CONSTANTS
    Windows,
    Tabs,               \* ids, used in their order, never twice
    Homes,              \* possible assignments of the tabs to windows
    Names,              \* of saved queries, in the order they are listed in
    Texts,
    Blank,              \* the empty text; also: nothing is saved at a name
    Stored, Histories,  \* what earlier sessions may have left
    MaxHistory,
    Moves               \* bound on what users do

ASSUME WorkspaceAssumption ==
    /\ 1 \in Tabs /\ Tabs \subseteq Nat \ {0} /\ Names \subseteq Nat \ {0}
    /\ Blank \notin Texts
    /\ Homes \subseteq [Tabs -> Windows]
    /\ Stored \subseteq [Names -> Texts \cup {Blank}] /\ Histories \subseteq Seq(Texts)
    /\ MaxHistory \in Nat \ {0} /\ Moves \in Nat

VARIABLES
    home,               \* the window of each tab
    saved,              \* SavedQueryStore: the text at each name
    history,            \* QueryHistoryStore: what ran, newest first
    writer,             \* the window that wrote last, if it was one of the app's stores
    tab,
    running,            \* the latest run of each tab, until the server answers; one
                        \* that another call superseded leaves nothing behind
    view,               \* the rows of the Queries view, as last rebuilt
    menu,               \* the context menu of a row
    dialog,             \* the modal dialog of a window
    moves

vars == <<home, saved, history, writer, tab, running, view, menu, dialog, moves>>
stores == <<saved, history, writer, view>>

NoName == 0
NoTab == 0
NoWindow == "none"

-----------------------------------------------------------------------------
(* The stores.                                                             *)

\* QueryHistoryStore.record
Record(entries, sql) ==
    LET list == <<sql>> \o RemoveFirst(entries, sql)
    IN  SubSeq(list, 1, IF Len(list) < MaxHistory THEN Len(list) ELSE MaxHistory)

Row(name, sql) == [name |-> name, sql |-> sql]

NamesInOrder == SetToSortSeq(Names, <)

SavedRows(queries) ==
    LET listed == SelectSeq(NamesInOrder, LAMBDA n : queries[n] # Blank)
    IN  [i \in DOMAIN listed |-> Row(listed[i], queries[listed[i]])]

RecentRows(entries) == [i \in DOMAIN entries |-> Row(NoName, entries[i])]

Lists(queries, entries) == [saved |-> SavedRows(queries), recent |-> RecentRows(entries)]

\* A window writes and tells its own listeners (notifyWorkspaceChanged).
Writes(w, queries, entries) ==
    /\ saved' = queries
    /\ history' = entries
    /\ writer' = w
    /\ view' = [view EXCEPT ![w] = Lists(queries, entries)]

-----------------------------------------------------------------------------
(* HistoryCursor: entry 0 is the draft.                                    *)

NoCursor == [browsing |-> FALSE, snapshot |-> <<>>, draft |-> Blank, index |-> 0]

Begin(entries, draft) ==
    [browsing |-> TRUE, draft |-> draft, index |-> 0,
     snapshot |-> IF entries # <<>> /\ Head(entries) = draft THEN Tail(entries) ELSE entries]

Older(c) == [c EXCEPT !.index = IF @ < Len(c.snapshot) THEN @ + 1 ELSE @]
Newer(c) == [c EXCEPT !.index = IF @ > 0 THEN @ - 1 ELSE @]
ValueAt(c) == IF c.index = 0 THEN c.draft ELSE c.snapshot[c.index]

-----------------------------------------------------------------------------
(* Tabs.  kept is the text a tab opened with or stored last: a closing tab *)
(* that shows another text takes work with it.                             *)

Unopened == [state |-> "unopened", text |-> Blank, clean |-> Blank, kept |-> Blank,
             link |-> NoName, cursor |-> NoCursor]

Opened(text, link) ==
    [Unopened EXCEPT !.state = "open", !.text = text, !.clean = text, !.kept = text, !.link = link]

IsOpen(t) == tab[t].state = "open"
Dirty(t) == IsOpen(t) /\ tab[t].text # tab[t].clean
Fresh(w) == {t \in Tabs : home[t] = w /\ tab[t].state = "unopened"}
NextTab(w) == CHOOSE t \in Fresh(w) : \A u \in Fresh(w) : t <= u

\* openQuery; an executed text runs as soon as its tab is laid out.
Open(w, text, link, run) ==
    LET t == NextTab(w)
    IN  /\ Fresh(w) # {}
        /\ tab' = [tab EXCEPT ![t] = Opened(text, link)]
        /\ running' = IF run THEN [running EXCEPT ![t] = text] ELSE running

\* Open or Execute on a row of the Queries view. A saved query is looked up by
\* its name, a recent one is in the row.
OpenRow(w, section, row, run) ==
    LET text == IF section = "saved" THEN saved[row.name] ELSE row.sql
    IN  IF text = Blank THEN UNCHANGED <<tab, running>> ELSE Open(w, text, row.name, run)

-----------------------------------------------------------------------------
(* Dialogs.                                                                *)

NoDialog == [kind |-> "none", tab |-> NoTab, sql |-> Blank, name |-> NoName, tabs |-> {}]
AskName(t, sql, default) == [NoDialog EXCEPT !.kind = "name", !.tab = t, !.sql = sql, !.name = default]
AskReplace(t, sql, name) == [AskName(t, sql, name) EXCEPT !.kind = "replace"]
AskRemove(name) == [NoDialog EXCEPT !.kind = "remove", !.name = name]
AskClose(tabs) == [NoDialog EXCEPT !.kind = "close", !.tabs = tabs]

NoMenu == [section |-> "none", index |-> 0, sql |-> Blank]

\* The user does something, in one of the windows that are open.
Moving(w) ==
    /\ \E t \in Tabs : home[t] = w
    /\ moves < Moves
    /\ moves' = moves + 1

\* Nothing modal is up, no menu is open.
Acts(w) ==
    /\ Moving(w)
    /\ dialog[w] = NoDialog
    /\ menu[w] = NoMenu
    /\ UNCHANGED <<home, menu>>

Asks(w, question) == dialog' = [dialog EXCEPT ![w] = question]

\* The user answers the dialog of a window.
Answers(w, kind) ==
    /\ dialog[w].kind = kind
    /\ UNCHANGED <<home, menu, moves>>

\* The saved query the flow's tab is linked to.
LinkedName(d) == IF d.tab = NoTab THEN NoName ELSE tab[d.tab].link

\* Mutant: a name that was declined once is not asked about again.
ReplacesOther_Once(d, name) == name # d.name /\ saved[name] # Blank

\* saveQueryAs: is this another query than the tab's own?
ReplacesOther(d, name) == name # LinkedName(d) /\ saved[name] # Blank

\* applySaved, and markClean in the panel.
Relinked(t, name, sql) ==
    IF t = NoTab THEN tab
    ELSE [tab EXCEPT ![t].link = name, ![t].clean = tab[t].text, ![t].kept = sql]

\* The query is stored, the tab follows, the dialog is gone.
Stores(w, t, sql, name) ==
    /\ Writes(w, [saved EXCEPT ![name] = sql], history)
    /\ tab' = Relinked(t, name, sql)

\* Mutant: persist marks the editor clean whatever the saver reports.
Abandoned_Clean(t) == IF t = NoTab THEN tab ELSE [tab EXCEPT ![t].clean = tab[t].text]

\* A flow that ends without a name leaves the tab as it is.
Abandoned(t) == tab

-----------------------------------------------------------------------------
\* One tab is open, on a saved query.
Init ==
    /\ home \in Homes
    /\ saved \in Stored
    /\ history \in Histories
    /\ writer = NoWindow
    /\ \E n \in Names :
           /\ saved[n] # Blank
           /\ tab = [t \in Tabs |-> IF t = 1 THEN Opened(saved[n], n) ELSE Unopened]
    /\ running = [t \in Tabs |-> Blank]
    /\ view = [w \in Windows |-> Lists(saved, history)]
    /\ menu = [w \in Windows |-> NoMenu]
    /\ dialog = [w \in Windows |-> NoDialog]
    /\ moves = 0

(* In a query tab.                                                         *)

\* New Query, Open as query, Execute of a routine.
OpenQuery(w, text, run) ==
    /\ Acts(w)
    /\ run => text # Blank
    /\ Open(w, text, NoName, run)
    /\ UNCHANGED <<stores, dialog>>

Edit(t, text) ==
    /\ Acts(home[t])
    /\ IsOpen(t) /\ text # tab[t].text
    /\ tab' = [tab EXCEPT ![t].text = text]
    /\ UNCHANGED <<stores, running, dialog>>

Run(t) ==
    /\ Acts(home[t])
    /\ IsOpen(t) /\ tab[t].text # Blank
    /\ tab' = [tab EXCEPT ![t].cursor = NoCursor]
    /\ running' = [running EXCEPT ![t] = tab[t].text]
    /\ UNCHANGED <<stores, dialog>>

\* Explain and its diagram count as a run that leaves no history.
Explain(t) ==
    /\ Acts(home[t])
    /\ IsOpen(t) /\ tab[t].text # Blank
    /\ tab' = [tab EXCEPT ![t].cursor = NoCursor]
    /\ running' = [running EXCEPT ![t] = Blank]
    /\ UNCHANGED <<stores, dialog>>

\* The answer of a run, good or bad, also of a tab that has closed meanwhile.
RunLands(t) ==
    /\ running[t] # Blank
    /\ running' = [running EXCEPT ![t] = Blank]
    /\ Writes(home[t], saved, Record(history, running[t]))
    /\ UNCHANGED <<home, tab, menu, dialog, moves>>

\* clear(): the browse, if there is one, goes on.
Clear(t) ==
    /\ Acts(home[t])
    /\ IsOpen(t)
    /\ tab' = [tab EXCEPT ![t].text = Blank]
    /\ running' = [running EXCEPT ![t] = Blank]
    /\ UNCHANGED <<stores, dialog>>

\* recallHistory
Recall(t, older) ==
    LET begun == IF tab[t].cursor.browsing THEN tab[t].cursor ELSE Begin(history, tab[t].text)
        moved == IF older THEN Older(begun) ELSE Newer(begun)
    IN  /\ Acts(home[t])
        /\ IsOpen(t)
        /\ tab' = [tab EXCEPT ![t].cursor = moved, ![t].text = ValueAt(moved)]
        /\ UNCHANGED <<stores, running, dialog>>

-----------------------------------------------------------------------------
(* Saving and removing.                                                    *)

\* Save: to the tab's query while that exists, else as Save as does.
Save(t) ==
    LET w == home[t]
        name == tab[t].link
    IN  /\ Acts(w)
        /\ IsOpen(t) /\ tab[t].text # Blank
        /\ IF name # NoName /\ saved[name] # Blank
           THEN Stores(w, t, tab[t].text, name) /\ UNCHANGED dialog
           ELSE Asks(w, AskName(t, tab[t].text, name)) /\ UNCHANGED <<stores, tab>>
        /\ UNCHANGED running

SaveAs(t) ==
    /\ Acts(home[t])
    /\ IsOpen(t) /\ tab[t].text # Blank
    /\ Asks(home[t], AskName(t, tab[t].text, tab[t].link))
    /\ UNCHANGED <<stores, tab, running>>

\* "Save under a name" on a recent query.
SaveRecent(w, i) ==
    /\ Acts(w)
    /\ i \in DOMAIN view[w].recent
    /\ Asks(w, AskName(NoTab, view[w].recent[i].sql, NoName))
    /\ UNCHANGED <<stores, tab, running>>

GiveName(w, name) ==
    LET d == dialog[w]
    IN  /\ Answers(w, "name")
        /\ IF ReplacesOther(d, name)
           THEN Asks(w, AskReplace(d.tab, d.sql, name)) /\ UNCHANGED <<stores, tab>>
           ELSE Asks(w, NoDialog) /\ Stores(w, d.tab, d.sql, name)
        /\ UNCHANGED running

\* Cancelled, dismissed or left blank.
GiveNoName(w) ==
    /\ Answers(w, "name")
    /\ Asks(w, NoDialog)
    /\ tab' = Abandoned(dialog[w].tab)
    /\ UNCHANGED <<stores, running>>

\* A declined replacement asks for a name again.
ConfirmReplace(w, yes) ==
    LET d == dialog[w]
    IN  /\ Answers(w, "replace")
        /\ IF yes THEN Asks(w, NoDialog) /\ Stores(w, d.tab, d.sql, d.name)
           ELSE Asks(w, AskName(d.tab, d.sql, d.name)) /\ UNCHANGED <<stores, tab>>
        /\ UNCHANGED running

RemoveSaved(w, i) ==
    /\ Acts(w)
    /\ i \in DOMAIN view[w].saved
    /\ Asks(w, AskRemove(view[w].saved[i].name))
    /\ UNCHANGED <<stores, tab, running>>

ConfirmRemove(w, yes) ==
    /\ Answers(w, "remove")
    /\ Asks(w, NoDialog)
    /\ IF yes THEN Writes(w, [saved EXCEPT ![dialog[w].name] = Blank], history) ELSE UNCHANGED stores
    /\ UNCHANGED <<tab, running>>

-----------------------------------------------------------------------------
(* The Queries view.                                                       *)

Sections == {"saved", "recent"}

\* Double click, Enter, Ctrl+Enter, the Open tool.
UseRow(w, section, i, run) ==
    /\ Acts(w)
    /\ i \in DOMAIN view[w][section]
    /\ OpenRow(w, section, view[w][section][i], run)
    /\ UNCHANGED <<stores, dialog>>

\* A right click; sql is what the row showed.
ShowMenu(w, section, i) ==
    /\ Moving(w)
    /\ dialog[w] = NoDialog /\ menu[w] = NoMenu
    /\ i \in DOMAIN view[w][section]
    /\ menu' = [menu EXCEPT ![w] = [section |-> section, index |-> i, sql |-> view[w][section][i].sql]]
    /\ UNCHANGED <<home, stores, tab, running, dialog>>

\* The menu's items look the row up by its index when they are chosen.
ChooseInMenu(w, run) ==
    LET m == menu[w]
    IN  /\ m # NoMenu
        /\ menu' = [menu EXCEPT ![w] = NoMenu]
        /\ IF m.index \in DOMAIN view[w][m.section]
           THEN OpenRow(w, m.section, view[w][m.section][m.index], run)
           ELSE UNCHANGED <<tab, running>>
        /\ UNCHANGED <<home, stores, dialog, moves>>

DismissMenu(w) ==
    /\ menu[w] # NoMenu
    /\ menu' = [menu EXCEPT ![w] = NoMenu]
    /\ UNCHANGED <<home, stores, tab, running, dialog, moves>>

\* Refresh, Alt+R; a table that opens has the same effect (rememberTable).
Refresh(w) ==
    /\ Acts(w)
    /\ view' = [view EXCEPT ![w] = Lists(saved, history)]
    /\ UNCHANGED <<saved, history, writer, tab, running, dialog>>

\* "Clear SQLAdmin data" of the storage window: no listener is told.
ClearData(w) ==
    /\ Acts(w)
    /\ saved' = [n \in Names |-> Blank]
    /\ history' = <<>>
    /\ writer' = NoWindow
    /\ UNCHANGED <<view, tab, running, dialog>>

-----------------------------------------------------------------------------
(* Closing tabs: one gesture over some tabs, as separate closes (a cross,  *)
(* the rows of a tab menu) or as the close of the window they float in.    *)

\* CloseRequestBatcher: what a gesture is kept from closing.
Vetoed(ids, together) ==
    LET dirty == {t \in ids : Dirty(t)}
    IN  IF together /\ dirty # {} THEN ids ELSE dirty

Without(ids) == [t \in Tabs |-> IF t \in ids THEN [Unopened EXCEPT !.state = "closed"] ELSE tab[t]]

Close(w, ids, together) ==
    LET vetoed == Vetoed(ids, together)
    IN  /\ Acts(w)
        /\ ids # {} /\ \A t \in ids : IsOpen(t) /\ home[t] = w
        /\ tab' = Without(ids \ vetoed)
        /\ IF vetoed = {} THEN UNCHANGED dialog ELSE Asks(w, AskClose(vetoed))
        /\ UNCHANGED <<stores, running>>

ConfirmClose(w, yes) ==
    /\ Answers(w, "close")
    /\ Asks(w, NoDialog)
    /\ tab' = IF yes THEN Without(dialog[w].tabs) ELSE tab
    /\ UNCHANGED <<stores, running>>

HasUnsavedWork(w) == \E t \in Tabs : home[t] = w /\ Dirty(t)

\* The page is loaded again: its tabs, its dialog and its runs are gone, what
\* is stored is not. Over unsaved work the browser asks first; leaving anyway
\* is left out.
Reload(w) ==
    /\ Moving(w)
    /\ ~HasUnsavedWork(w)
    /\ tab' = Without({t \in Tabs : home[t] = w /\ IsOpen(t)})
    /\ running' = [t \in Tabs |-> IF home[t] = w THEN Blank ELSE running[t]]
    /\ view' = [view EXCEPT ![w] = Lists(saved, history)]
    /\ menu' = [menu EXCEPT ![w] = NoMenu]
    /\ dialog' = [dialog EXCEPT ![w] = NoDialog]
    /\ UNCHANGED <<home, saved, history, writer>>

-----------------------------------------------------------------------------
TabStep(t) ==
    \/ \E text \in Texts : Edit(t, text)
    \/ Run(t) \/ Explain(t) \/ Clear(t) \/ Save(t) \/ SaveAs(t)
    \/ \E older \in BOOLEAN : Recall(t, older)

ViewStep(w) ==
    \/ \E section \in Sections : \E i \in DOMAIN view[w][section] :
           \/ \E run \in BOOLEAN : UseRow(w, section, i, run)
           \/ ShowMenu(w, section, i)
    \/ \E run \in BOOLEAN : ChooseInMenu(w, run)
    \/ DismissMenu(w) \/ Refresh(w) \/ ClearData(w)

DialogStep(w) ==
    \/ \E name \in Names : GiveName(w, name)
    \/ GiveNoName(w)
    \/ \E yes \in BOOLEAN : ConfirmReplace(w, yes) \/ ConfirmRemove(w, yes) \/ ConfirmClose(w, yes)

Next ==
    \/ \E t \in Tabs : TabStep(t)
    \/ \E w \in Windows :
           \/ \E text \in Texts \cup {Blank}, run \in BOOLEAN : OpenQuery(w, text, run)
           \/ \E i \in DOMAIN view[w].recent : SaveRecent(w, i)
           \/ \E i \in DOMAIN view[w].saved : RemoveSaved(w, i)
           \/ ViewStep(w) \/ DialogStep(w)
           \/ \E ids \in SUBSET Tabs, together \in BOOLEAN : Close(w, ids, together)
           \/ Reload(w)
    \/ \E t \in Tabs : RunLands(t)

Spec == Init /\ [][Next]_vars

-----------------------------------------------------------------------------
(* Properties.                                                             *)

\* A stored query is replaced or removed only on a yes to a question about its
\* very name, by the Save of a tab that is linked to it, or by clearing all
\* data: whatever names were declined on the way (querySaveFlow.ts).
OverwritesAsked ==
    [][\A n \in Names : saved[n] # Blank /\ saved'[n] # saved[n] =>
        \/ \E w \in Windows : /\ dialog[w].kind \in {"replace", "remove"}
                              /\ dialog[w].name = n
                              /\ dialog'[w] = NoDialog
        \/ \E t \in Tabs : IsOpen(t) /\ tab[t].link = n /\ saved'[n] = tab[t].text
        \/ writer' = NoWindow /\ history' = <<>>]_vars

\* A tab takes a text that is neither stored nor what it opened with down with
\* it only on a yes to a question that counted it (the close guard of
\* SqlAdminController.ts, persist in QueryPanel.ts).
UnsavedAsked ==
    [][\A t \in Tabs : IsOpen(t) /\ tab'[t].state = "closed" /\ tab[t].text # tab[t].kept =>
        dialog[home[t]].kind = "close" /\ t \in dialog[home[t]].tabs]_vars

=============================================================================
