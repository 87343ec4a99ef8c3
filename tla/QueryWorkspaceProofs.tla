------------------------ MODULE QueryWorkspaceProofs ------------------------
(***************************************************************************)
(* Theorems about QueryWorkspace, for any number of windows and tabs, any  *)
(* names and texts, and whatever an earlier session stored: no stored      *)
(* query is overwritten unasked and no tab takes unsaved text with it.     *)
(*                                                                         *)
(* Both rest on the modality of the dialogs: while a window asks, its tabs *)
(* keep the text the question is about.                                    *)
(***************************************************************************)
EXTENDS QueryWorkspace, WellFoundedInduction, TLAPS

-----------------------------------------------------------------------------
(* The inductive invariant.                                                *)

TabFields == {"state", "text", "clean", "kept", "link", "cursor"}

\* What the proofs need of the types: what each variable is a function of.
Shapes ==
    /\ home \in [Tabs -> Windows]
    /\ DOMAIN saved = Names
    /\ DOMAIN tab = Tabs
    /\ \A t \in Tabs : DOMAIN tab[t] = TabFields
    /\ DOMAIN dialog = Windows

\* A question about a name is about an open tab of its window, and about the
\* text that tab still shows, or about no tab at all.
NamedTab(w, d) ==
    d.kind \in {"name", "replace"} =>
        \/ d.tab = NoTab
        \/ /\ d.tab \in Tabs
           /\ home[d.tab] = w
           /\ IsOpen(d.tab)
           /\ d.sql = tab[d.tab].text

\* A question about closing is about tabs of its window.
CountedTabs(w, d) ==
    d.kind = "close" => \A t \in d.tabs : t \in Tabs /\ home[t] = w

Questions == \A w \in Windows : NamedTab(w, dialog[w]) /\ CountedTabs(w, dialog[w])

\* What the editor calls clean is what is stored.
CleanIsKept == \A t \in Tabs : IsOpen(t) => tab[t].clean = tab[t].kept

Consistent == Shapes /\ Questions /\ CleanIsKept

-----------------------------------------------------------------------------
(* Lemmas about the operators.                                             *)

\* Ids are used in their order: there is a first one among those left.
LEMMA SmallestId ==
  ASSUME NEW S, S \subseteq Nat, S # {}
  PROVE  \E n \in S : \A m \in S : n <= m
<1>1. IsWellFoundedOn(OpToRel(<, Nat), Nat)
  BY NatLessThanWellFounded
<1>2. PICK n \in S : \A m \in S : ~ (<<m, n>> \in OpToRel(<, Nat))
  BY <1>1, WFMin
<1>3. \A m \in S : ~ (m < n)
  BY <1>2 DEF OpToRel
<1> QED
  BY <1>3

LEMMA FirstFresh ==
  ASSUME NEW w, Fresh(w) # {}
  PROVE  NextTab(w) \in Fresh(w)
<1>1. Fresh(w) \subseteq Nat
  BY WorkspaceAssumption DEF Fresh
<1>2. \E t \in Fresh(w) : \A u \in Fresh(w) : t <= u
  BY <1>1, SmallestId
<1> QED
  BY <1>2 DEF NextTab

\* A tab that opens is one that never was: the open tabs stay as they are.
LEMMA OpenEffect ==
  ASSUME Consistent, NEW w, NEW text, NEW link, NEW run, Open(w, text, link, run)
  PROVE  /\ DOMAIN tab' = Tabs
         /\ \A t \in Tabs : DOMAIN tab'[t] = TabFields
         /\ \A t \in Tabs : IsOpen(t) => tab'[t] = tab[t]
         /\ CleanIsKept'
<1> DEFINE new == NextTab(w)
<1>1. new \in Fresh(w)
  BY FirstFresh DEF Open
<1>2. new \in Tabs /\ ~IsOpen(new)
  BY <1>1 DEF Fresh, IsOpen
<1>3. tab' = [tab EXCEPT ![new] = Opened(text, link)]
  BY DEF Open
<1>4. Opened(text, link).clean = Opened(text, link).kept
      /\ DOMAIN Opened(text, link) = TabFields
  BY DEF Opened, Unopened, TabFields
<1>5. \A t \in Tabs : tab'[t] = IF t = new THEN Opened(text, link) ELSE tab[t]
  BY <1>3 DEF Consistent, Shapes
<1>6. DOMAIN tab' = Tabs
  BY <1>3 DEF Consistent, Shapes
<1> HIDE DEF new
<1>7. CleanIsKept'
  BY <1>4, <1>5 DEF Consistent, CleanIsKept, IsOpen
<1> QED
  BY <1>2, <1>4, <1>5, <1>6, <1>7 DEF Consistent, Shapes

LEMMA OpenOfOwn ==
  ASSUME Consistent, NEW w, NEW text, NEW link, NEW run, Open(w, text, link, run)
  PROVE  \A t \in Tabs : home[t] # w => tab'[t] = tab[t]
<1>1. NextTab(w) \in Fresh(w)
  BY FirstFresh DEF Open
<1> QED
  BY <1>1 DEF Open, Fresh, Consistent, Shapes

LEMMA OpenRowEffect ==
  ASSUME Consistent, NEW w, NEW section, NEW row, NEW run, OpenRow(w, section, row, run)
  PROVE  /\ DOMAIN tab' = Tabs
         /\ \A t \in Tabs : DOMAIN tab'[t] = TabFields
         /\ \A t \in Tabs : IsOpen(t) => tab'[t] = tab[t]
         /\ CleanIsKept'
<1> DEFINE text == IF section = "saved" THEN saved[row.name] ELSE row.sql
<1>1. CASE UNCHANGED <<tab, running>>
  BY <1>1 DEF Consistent, Shapes, CleanIsKept, IsOpen
<1>2. CASE Open(w, text, row.name, run)
  BY <1>2, OpenEffect
<1> QED
  BY <1>1, <1>2 DEF OpenRow

\* Closing leaves the other tabs as they are.
LEMMA WithoutEffect ==
  ASSUME Consistent, NEW ids, tab' = Without(ids)
  PROVE  /\ DOMAIN tab' = Tabs
         /\ \A t \in Tabs : DOMAIN tab'[t] = TabFields
         /\ \A t \in Tabs \ ids : tab'[t] = tab[t]
         /\ CleanIsKept'
<1>1. \A t \in Tabs :
          tab'[t] = IF t \in ids THEN [Unopened EXCEPT !.state = "closed"] ELSE tab[t]
  BY DEF Without
<1>2. DOMAIN [Unopened EXCEPT !.state = "closed"] = TabFields
      /\ [Unopened EXCEPT !.state = "closed"].state # "open"
  BY DEF Unopened, TabFields
<1>3. CleanIsKept'
  BY <1>1, <1>2 DEF Consistent, CleanIsKept, IsOpen
<1>4. DOMAIN tab' = Tabs
  BY DEF Without
<1> QED
  BY <1>1, <1>2, <1>3, <1>4 DEF Consistent, Shapes

\* Storing a text touches no other name and no tab's text, and leaves the tab
\* clean if the text is the one it shows.
LEMMA StoresEffect ==
  ASSUME Consistent, NEW w, NEW t \in Tabs \cup {NoTab}, NEW sql, NEW name,
         Stores(w, t, sql, name),
         t # NoTab => sql = tab[t].text
  PROVE  /\ DOMAIN saved' = Names
         /\ \A n \in Names : saved'[n] = IF n = name THEN sql ELSE saved[n]
         /\ DOMAIN tab' = Tabs
         /\ \A u \in Tabs : DOMAIN tab'[u] = TabFields
         /\ \A u \in Tabs : tab'[u].state = tab[u].state /\ tab'[u].text = tab[u].text
         /\ CleanIsKept'
<1>1. saved' = [saved EXCEPT ![name] = sql]
  BY DEF Stores, Writes
<1>2. DOMAIN saved' = Names
      /\ \A n \in Names : saved'[n] = IF n = name THEN sql ELSE saved[n]
  BY <1>1 DEF Consistent, Shapes
<1>3. CASE t = NoTab
  <2>1. tab' = tab
    BY <1>3 DEF Stores, Relinked
  <2> QED
    BY <1>2, <2>1 DEF Consistent, Shapes, CleanIsKept, IsOpen
<1>4. CASE t # NoTab
  <2>1. tab' = [tab EXCEPT ![t].link = name, ![t].clean = tab[t].text, ![t].kept = sql]
    BY <1>4 DEF Stores, Relinked
  <2>2. t \in Tabs
    BY <1>4
  <2>3. DOMAIN tab' = Tabs /\ \A u \in Tabs : u # t => tab'[u] = tab[u]
    BY <2>1, <2>2 DEF Consistent, Shapes
  <2>4. /\ DOMAIN tab'[t] = TabFields
        /\ tab'[t].state = tab[t].state /\ tab'[t].text = tab[t].text
        /\ tab'[t].clean = tab[t].text /\ tab'[t].kept = sql
    BY <2>1, <2>2 DEF Consistent, Shapes, TabFields
  <2>5. CleanIsKept'
    BY <1>4, <2>3, <2>4 DEF Consistent, CleanIsKept, IsOpen
  <2> QED
    BY <1>2, <2>2, <2>3, <2>4, <2>5 DEF Consistent, Shapes
<1> QED
  BY <1>3, <1>4

\* One window asks something else, or nothing any more, and the open tabs of
\* the others keep their texts: every question stays in order.
LEMMA QuestionsKept ==
  ASSUME Consistent, NEW w \in Windows, NEW d,
         home' = home,
         dialog' = [dialog EXCEPT ![w] = d],
         NamedTab(w, d)', CountedTabs(w, d)',
         \A t \in Tabs : home[t] # w /\ IsOpen(t) =>
             tab'[t].state = "open" /\ tab'[t].text = tab[t].text
  PROVE  Questions' /\ DOMAIN dialog' = Windows
<1>1. DOMAIN dialog' = Windows
      /\ \A v \in Windows : dialog'[v] = IF v = w THEN d ELSE dialog[v]
  BY DEF Consistent, Shapes
<1>2. ASSUME NEW v \in Windows, v # w
      PROVE  NamedTab(v, dialog[v])' /\ CountedTabs(v, dialog[v])'
  <2>1. dialog'[v] = dialog[v] /\ NamedTab(v, dialog[v]) /\ CountedTabs(v, dialog[v])
    BY <1>1, <1>2 DEF Consistent, Questions
  <2> QED
    BY <1>2, <2>1 DEF NamedTab, CountedTabs, IsOpen
<1>3. NamedTab(w, dialog[w])' /\ CountedTabs(w, dialog[w])'
  BY <1>1
<1> QED
  BY <1>1, <1>2, <1>3 DEF Questions

-----------------------------------------------------------------------------
(* Every step keeps the invariant.                                         *)

\* A step of a window that asks nothing and keeps its open tabs' texts.
LEMMA NothingAsked ==
  ASSUME Consistent, NEW w \in Windows, home' = home, dialog' = dialog, saved' = saved,
         DOMAIN tab' = Tabs, \A t \in Tabs : DOMAIN tab'[t] = TabFields, CleanIsKept',
         dialog[w] = NoDialog \/ \A t \in Tabs : home[t] = w /\ IsOpen(t) => tab'[t] = tab[t],
         \A t \in Tabs : home[t] # w => tab'[t] = tab[t]
  PROVE  Consistent'
<1>1. ASSUME NEW v \in Windows
      PROVE  NamedTab(v, dialog[v])' /\ CountedTabs(v, dialog[v])'
  <2>1. NamedTab(v, dialog[v]) /\ CountedTabs(v, dialog[v])
    BY DEF Consistent, Questions
  <2>2. CASE v = w /\ dialog[w] = NoDialog
    BY <2>2 DEF NamedTab, CountedTabs, NoDialog
  <2>3. CASE \A t \in Tabs : home[t] = v /\ IsOpen(t) => tab'[t] = tab[t]
    BY <2>1, <2>3 DEF NamedTab, CountedTabs, IsOpen
  <2> QED
    BY <2>2, <2>3
<1>2. Questions'
  BY <1>1 DEF Questions
<1> QED
  BY <1>2 DEF Consistent, Shapes

\* The steps of a tab's editor that change the tab alone: the text, the cursor.
LEMMA EditorKeeps ==
  ASSUME Consistent, NEW t \in Tabs, Acts(home[t]),
         \/ \E text : tab' = [tab EXCEPT ![t].text = text]
         \/ \E cursor : tab' = [tab EXCEPT ![t].cursor = cursor]
         \/ \E cursor, text : tab' = [tab EXCEPT ![t].cursor = cursor, ![t].text = text],
         dialog' = dialog, saved' = saved
  PROVE  Consistent'
<1>1. home' = home /\ home[t] \in Windows /\ dialog[home[t]] = NoDialog
  BY DEF Acts, Consistent, Shapes
<1>2. DOMAIN tab' = Tabs /\ \A u \in Tabs : u # t => tab'[u] = tab[u]
  BY DEF Consistent, Shapes
<1>3. /\ DOMAIN tab'[t] = TabFields
      /\ tab'[t].state = tab[t].state
      /\ tab'[t].clean = tab[t].clean /\ tab'[t].kept = tab[t].kept
  <2>1. t \in DOMAIN tab /\ DOMAIN tab[t] = TabFields
    BY DEF Consistent, Shapes
  <2>2. CASE \E text : tab' = [tab EXCEPT ![t].text = text]
    BY <2>1, <2>2 DEF TabFields
  <2>3. CASE \E cursor : tab' = [tab EXCEPT ![t].cursor = cursor]
    BY <2>1, <2>3 DEF TabFields
  <2>4. CASE \E cursor, text : tab' = [tab EXCEPT ![t].cursor = cursor, ![t].text = text]
    <3>1. PICK cursor, text : tab' = [tab EXCEPT ![t].cursor = cursor, ![t].text = text]
      BY <2>4
    <3>2. tab'[t] = [tab[t] EXCEPT !.cursor = cursor, !.text = text]
      BY <2>1, <3>1
    <3> QED
      BY <2>1, <3>2 DEF TabFields
  <2> QED
    BY <2>2, <2>3, <2>4
<1>4. CleanIsKept'
  BY <1>2, <1>3 DEF Consistent, CleanIsKept, IsOpen
<1>5. \A u \in Tabs : DOMAIN tab'[u] = TabFields
  BY <1>2, <1>3 DEF Consistent, Shapes
<1>6. \A u \in Tabs : home[u] # home[t] => tab'[u] = tab[u]
  BY <1>2
<1> QED
  BY <1>1, <1>2, <1>4, <1>5, <1>6, NothingAsked

LEMMA OpenQueryKeeps ==
  ASSUME Consistent, NEW w \in Windows, NEW text, NEW run, OpenQuery(w, text, run)
  PROVE  Consistent'
<1>1. home' = home /\ dialog' = dialog /\ saved' = saved /\ dialog[w] = NoDialog
  BY DEF OpenQuery, Acts, stores
<1>2. Open(w, text, NoName, run)
  BY DEF OpenQuery
<1>3. \A t \in Tabs : home[t] # w => tab'[t] = tab[t]
  BY <1>2, OpenOfOwn
<1> QED
  BY <1>1, <1>2, <1>3, OpenEffect, NothingAsked

LEMMA UseRowKeeps ==
  ASSUME Consistent, NEW w \in Windows, NEW section, NEW row, NEW run,
         OpenRow(w, section, row, run), home' = home, dialog' = dialog, saved' = saved
  PROVE  Consistent'
<1>1. \A t \in Tabs : home[t] # w => tab'[t] = tab[t]
  <2>1. CASE UNCHANGED <<tab, running>>
    BY <2>1
  <2>2. CASE Open(w, IF section = "saved" THEN saved[row.name] ELSE row.sql, row.name, run)
    BY <2>2, OpenOfOwn
  <2> QED
    BY <2>1, <2>2 DEF OpenRow
<1> QED
  BY <1>1, OpenRowEffect, NothingAsked

LEMMA ChooseInMenuKeeps ==
  ASSUME Consistent, NEW w \in Windows, NEW run, ChooseInMenu(w, run)
  PROVE  Consistent'
<1>1. home' = home /\ dialog' = dialog /\ saved' = saved
  BY DEF ChooseInMenu, stores
<1>2. CASE UNCHANGED <<tab, running>>
  BY <1>1, <1>2 DEF Consistent, Shapes, Questions, NamedTab, CountedTabs, CleanIsKept, IsOpen
<1>3. CASE OpenRow(w, menu[w].section, view[w][menu[w].section][menu[w].index], run)
  BY <1>1, <1>3, UseRowKeeps
<1> QED
  BY <1>2, <1>3 DEF ChooseInMenu

\* A step that changes neither a tab nor a dialog.
LEMMA TabsUntouchedKeeps ==
  ASSUME Consistent, home' = home, tab' = tab, dialog' = dialog, DOMAIN saved' = Names
  PROVE  Consistent'
BY DEF Consistent, Shapes, Questions, NamedTab, CountedTabs, CleanIsKept, IsOpen

\* A question is put to a window, or taken back, and no tab changes.
LEMMA AskedKeeps ==
  ASSUME Consistent, NEW w \in Windows, NEW d, NamedTab(w, d), CountedTabs(w, d),
         home' = home, tab' = tab, Asks(w, d), DOMAIN saved' = Names
  PROVE  Consistent'
<1>1. NamedTab(w, d)' /\ CountedTabs(w, d)'
  BY DEF NamedTab, CountedTabs, IsOpen
<1>2. dialog' = [dialog EXCEPT ![w] = d]
  BY DEF Asks
<1>3. Questions' /\ DOMAIN dialog' = Windows
  BY <1>1, <1>2, QuestionsKept DEF IsOpen
<1> QED
  BY <1>3 DEF Consistent, Shapes, CleanIsKept, IsOpen

\* A text is stored: the window asks nothing any more.
LEMMA StoredKeeps ==
  ASSUME Consistent, NEW w \in Windows, NEW t \in Tabs \cup {NoTab}, NEW sql, NEW name,
         Stores(w, t, sql, name), home' = home,
         t # NoTab => sql = tab[t].text,
         Asks(w, NoDialog) \/ dialog' = dialog
  PROVE  Consistent'
<1>1. /\ DOMAIN saved' = Names /\ DOMAIN tab' = Tabs
      /\ \A u \in Tabs : DOMAIN tab'[u] = TabFields
      /\ \A u \in Tabs : tab'[u].state = tab[u].state /\ tab'[u].text = tab[u].text
      /\ CleanIsKept'
  BY StoresEffect
<1>2. Questions' /\ DOMAIN dialog' = Windows
  <2>1. CASE Asks(w, NoDialog)
    <3>1. NamedTab(w, NoDialog)' /\ CountedTabs(w, NoDialog)'
      BY DEF NamedTab, CountedTabs, NoDialog
    <3>2. dialog' = [dialog EXCEPT ![w] = NoDialog]
      BY <2>1 DEF Asks
    <3> QED
      BY <1>1, <3>1, <3>2, QuestionsKept DEF IsOpen
  <2>2. CASE dialog' = dialog
    BY <1>1, <2>2 DEF Consistent, Shapes, Questions, NamedTab, CountedTabs, IsOpen
  <2> QED
    BY <2>1, <2>2
<1> QED
  BY <1>1, <1>2 DEF Consistent, Shapes

LEMMA SaveKeeps ==
  ASSUME Consistent, NEW t \in Tabs, Save(t)
  PROVE  Consistent'
<1> DEFINE w == home[t]
           name == tab[t].link
<1>1. w \in Windows /\ home' = home /\ t # NoTab
  BY WorkspaceAssumption DEF Save, Acts, Consistent, Shapes, NoTab
<1>2. CASE Stores(w, t, tab[t].text, name) /\ UNCHANGED dialog
  BY <1>1, <1>2, StoredKeeps
<1>3. CASE Asks(w, AskName(t, tab[t].text, name)) /\ UNCHANGED <<stores, tab>>
  <2>1. NamedTab(w, AskName(t, tab[t].text, name)) /\ CountedTabs(w, AskName(t, tab[t].text, name))
    BY DEF Save, NamedTab, CountedTabs, AskName, NoDialog
  <2> QED
    BY <1>1, <1>3, <2>1, AskedKeeps DEF stores, Consistent, Shapes
<1> QED
  BY <1>2, <1>3 DEF Save

LEMMA SaveAsKeeps ==
  ASSUME Consistent, NEW t \in Tabs, SaveAs(t)
  PROVE  Consistent'
<1> DEFINE question == AskName(t, tab[t].text, tab[t].link)
<1>1. home[t] \in Windows /\ home' = home /\ tab' = tab /\ saved' = saved
  BY DEF SaveAs, Acts, Consistent, Shapes, stores
<1>2. NamedTab(home[t], question) /\ CountedTabs(home[t], question)
  BY DEF SaveAs, NamedTab, CountedTabs, AskName, NoDialog
<1>3. Asks(home[t], question)
  BY DEF SaveAs
<1> QED
  BY <1>1, <1>2, <1>3, AskedKeeps DEF Consistent, Shapes

LEMMA SaveRecentKeeps ==
  ASSUME Consistent, NEW w \in Windows, NEW i, SaveRecent(w, i)
  PROVE  Consistent'
<1> DEFINE question == AskName(NoTab, view[w].recent[i].sql, NoName)
<1>1. home' = home /\ tab' = tab /\ saved' = saved /\ Asks(w, question)
  BY DEF SaveRecent, Acts, stores
<1>2. NamedTab(w, question) /\ CountedTabs(w, question)
  BY DEF NamedTab, CountedTabs, AskName, NoDialog
<1> QED
  BY <1>1, <1>2, AskedKeeps DEF Consistent, Shapes

\* What a window asks for a name about, it still asks about: the tab of a
\* dialog is a tab or none, and the text is the one it shows.
LEMMA AskedTab ==
  ASSUME Consistent, NEW w \in Windows, dialog[w].kind \in {"name", "replace"}
  PROVE  /\ NamedTab(w, dialog[w])
         /\ dialog[w].tab \in Tabs \cup {NoTab}
         /\ dialog[w].tab # NoTab =>
                IsOpen(dialog[w].tab) /\ dialog[w].sql = tab[dialog[w].tab].text
BY DEF Consistent, Questions, NamedTab

LEMMA GiveNameKeeps ==
  ASSUME Consistent, NEW w \in Windows, NEW name, GiveName(w, name)
  PROVE  Consistent'
<1> DEFINE d == dialog[w]
           question == AskReplace(d.tab, d.sql, name)
<1>1. home' = home /\ d.kind = "name"
  BY DEF GiveName, Answers
<1>2. CASE Asks(w, question) /\ UNCHANGED <<stores, tab>>
  <2>1. NamedTab(w, question) /\ CountedTabs(w, question)
    BY <1>1, AskedTab DEF NamedTab, CountedTabs, AskReplace, AskName, NoDialog
  <2>2. tab' = tab /\ saved' = saved
    BY <1>2 DEF stores
  <2> QED
    BY <1>1, <1>2, <2>1, <2>2, AskedKeeps DEF Consistent, Shapes
<1>3. CASE Asks(w, NoDialog) /\ Stores(w, d.tab, d.sql, name)
  BY <1>1, <1>3, AskedTab, StoredKeeps
<1> QED
  BY <1>2, <1>3 DEF GiveName

LEMMA GiveNoNameKeeps ==
  ASSUME Consistent, NEW w \in Windows, GiveNoName(w)
  PROVE  Consistent'
<1>1. home' = home /\ tab' = tab /\ saved' = saved /\ Asks(w, NoDialog)
  BY DEF GiveNoName, Answers, Abandoned, stores
<1>2. NamedTab(w, NoDialog) /\ CountedTabs(w, NoDialog)
  BY DEF NamedTab, CountedTabs, NoDialog
<1> QED
  BY <1>1, <1>2, AskedKeeps DEF Consistent, Shapes

LEMMA ConfirmReplaceKeeps ==
  ASSUME Consistent, NEW w \in Windows, NEW yes, ConfirmReplace(w, yes)
  PROVE  Consistent'
<1> DEFINE d == dialog[w]
           question == AskName(d.tab, d.sql, d.name)
<1>1. home' = home /\ d.kind = "replace"
  BY DEF ConfirmReplace, Answers
<1>2. CASE Asks(w, question) /\ UNCHANGED <<stores, tab>>
  <2>1. NamedTab(w, question) /\ CountedTabs(w, question)
    BY <1>1, AskedTab DEF NamedTab, CountedTabs, AskName, NoDialog
  <2>2. tab' = tab /\ saved' = saved
    BY <1>2 DEF stores
  <2> QED
    BY <1>1, <1>2, <2>1, <2>2, AskedKeeps DEF Consistent, Shapes
<1>3. CASE Asks(w, NoDialog) /\ Stores(w, d.tab, d.sql, d.name)
  BY <1>1, <1>3, AskedTab, StoredKeeps
<1> QED
  BY <1>2, <1>3 DEF ConfirmReplace

LEMMA RemoveKeeps ==
  ASSUME Consistent, NEW w \in Windows,
         (\E i : RemoveSaved(w, i)) \/ (\E yes : ConfirmRemove(w, yes))
  PROVE  Consistent'
<1>1. CASE \E i : RemoveSaved(w, i)
  <2>1. PICK i : RemoveSaved(w, i)
    BY <1>1
  <2> DEFINE question == AskRemove(view[w].saved[i].name)
  <2>2. home' = home /\ tab' = tab /\ saved' = saved /\ Asks(w, question)
    BY <2>1 DEF RemoveSaved, Acts, stores
  <2>3. NamedTab(w, question) /\ CountedTabs(w, question)
    BY DEF NamedTab, CountedTabs, AskRemove, NoDialog
  <2> QED
    BY <2>2, <2>3, AskedKeeps DEF Consistent, Shapes
<1>2. CASE \E yes : ConfirmRemove(w, yes)
  <2>1. home' = home /\ tab' = tab /\ Asks(w, NoDialog)
    BY <1>2 DEF ConfirmRemove, Answers
  <2>2. DOMAIN saved' = Names
    BY <1>2 DEF ConfirmRemove, Writes, stores, Consistent, Shapes
  <2>3. NamedTab(w, NoDialog) /\ CountedTabs(w, NoDialog)
    BY DEF NamedTab, CountedTabs, NoDialog
  <2> QED
    BY <2>1, <2>2, <2>3, AskedKeeps
<1> QED
  BY <1>1, <1>2

\* Tabs of one window close, and it asks about tabs of its own or nothing.
LEMMA WithoutKeeps ==
  ASSUME Consistent, NEW w \in Windows, NEW ids, NEW d,
         \A t \in ids : t \in Tabs => home[t] = w,
         tab' = Without(ids), home' = home, saved' = saved, Asks(w, d),
         d.kind \notin {"name", "replace"}, CountedTabs(w, d)
  PROVE  Consistent'
<1>1. /\ DOMAIN tab' = Tabs /\ \A t \in Tabs : DOMAIN tab'[t] = TabFields
      /\ \A t \in Tabs \ ids : tab'[t] = tab[t]
      /\ CleanIsKept'
  BY WithoutEffect
<1>2. dialog' = [dialog EXCEPT ![w] = d] /\ NamedTab(w, d)' /\ CountedTabs(w, d)'
  BY DEF Asks, NamedTab, CountedTabs
<1>3. Questions' /\ DOMAIN dialog' = Windows
  BY <1>1, <1>2, QuestionsKept DEF IsOpen
<1> QED
  BY <1>1, <1>3 DEF Consistent, Shapes

LEMMA CloseKeeps ==
  ASSUME Consistent, NEW w \in Windows, NEW ids \in SUBSET Tabs, NEW together,
         Close(w, ids, together)
  PROVE  Consistent'
<1> DEFINE vetoed == Vetoed(ids, together)
<1>1. /\ home' = home /\ saved' = saved /\ tab' = Without(ids \ vetoed)
      /\ dialog[w] = NoDialog
      /\ \A t \in ids : home[t] = w
  BY DEF Close, Acts, stores
<1>2. vetoed \subseteq ids
  BY DEF Vetoed
<1>3. CASE UNCHANGED dialog
  <2>1. /\ DOMAIN tab' = Tabs /\ \A t \in Tabs : DOMAIN tab'[t] = TabFields
        /\ \A t \in Tabs \ ids : tab'[t] = tab[t]
        /\ CleanIsKept'
    BY <1>1, WithoutEffect
  <2> QED
    BY <1>1, <1>3, <2>1, NothingAsked
<1>4. CASE Asks(w, AskClose(vetoed))
  <2>1. AskClose(vetoed).kind = "close" /\ AskClose(vetoed).tabs = vetoed
    BY DEF AskClose, NoDialog
  <2>2. CountedTabs(w, AskClose(vetoed))
    BY <1>1, <1>2, <2>1 DEF CountedTabs
  <2> QED
    BY <1>1, <1>4, <2>1, <2>2, WithoutKeeps
<1> QED
  BY <1>3, <1>4 DEF Close

LEMMA ConfirmCloseKeeps ==
  ASSUME Consistent, NEW w \in Windows, NEW yes, ConfirmClose(w, yes)
  PROVE  Consistent'
<1>1. home' = home /\ saved' = saved /\ Asks(w, NoDialog) /\ dialog[w].kind = "close"
  BY DEF ConfirmClose, Answers, stores
<1>2. NamedTab(w, NoDialog) /\ CountedTabs(w, NoDialog)
      /\ NoDialog.kind \notin {"name", "replace"}
  BY DEF NamedTab, CountedTabs, NoDialog
<1>3. CASE tab' = tab
  BY <1>1, <1>2, <1>3, AskedKeeps DEF Consistent, Shapes
<1>4. CASE tab' = Without(dialog[w].tabs)
  <2>1. \A t \in dialog[w].tabs : home[t] = w
    BY <1>1 DEF Consistent, Questions, CountedTabs
  <2> QED
    BY <1>1, <1>2, <1>4, <2>1, WithoutKeeps
<1> QED
  BY <1>3, <1>4 DEF ConfirmClose

LEMMA ReloadKeeps ==
  ASSUME Consistent, NEW w \in Windows, Reload(w)
  PROVE  Consistent'
<1>1. /\ home' = home /\ saved' = saved /\ Asks(w, NoDialog)
      /\ tab' = Without({t \in Tabs : home[t] = w /\ IsOpen(t)})
  BY DEF Reload, Asks
<1>2. CountedTabs(w, NoDialog) /\ NoDialog.kind \notin {"name", "replace"}
  BY DEF CountedTabs, NoDialog
<1> QED
  BY <1>1, <1>2, WithoutKeeps

-----------------------------------------------------------------------------
(* The invariant holds.                                                    *)

LEMMA InitConsistent == Init => Consistent
<1> SUFFICES ASSUME Init PROVE Consistent
  OBVIOUS
<1>1. home \in [Tabs -> Windows] /\ DOMAIN saved = Names
  BY WorkspaceAssumption DEF Init
<1>2. PICK n \in Names : tab = [t \in Tabs |-> IF t = 1 THEN Opened(saved[n], n) ELSE Unopened]
  BY DEF Init
<1>3. DOMAIN tab = Tabs /\ \A t \in Tabs : DOMAIN tab[t] = TabFields
  BY <1>2 DEF Opened, Unopened, TabFields
<1>4. CleanIsKept
  BY <1>2 DEF CleanIsKept, Opened, Unopened
<1>5. DOMAIN dialog = Windows /\ \A w \in Windows : dialog[w].kind = "none"
  BY DEF Init, NoDialog
<1>6. Questions
  BY <1>5 DEF Questions, NamedTab, CountedTabs
<1> QED
  BY <1>1, <1>3, <1>4, <1>5, <1>6 DEF Consistent, Shapes

LEMMA TabStepKeeps ==
  ASSUME Consistent, NEW t \in Tabs, TabStep(t)
  PROVE  Consistent'
<1>1. CASE \E text \in Texts : Edit(t, text)
  BY <1>1, EditorKeeps DEF Edit, stores
<1>2. CASE Run(t) \/ Explain(t)
  BY <1>2, EditorKeeps DEF Run, Explain, stores
<1>3. CASE Clear(t)
  BY <1>3, EditorKeeps DEF Clear, stores
<1>4. CASE Save(t) \/ SaveAs(t)
  BY <1>4, SaveKeeps, SaveAsKeeps
<1>5. CASE \E older \in BOOLEAN : Recall(t, older)
  BY <1>5, EditorKeeps DEF Recall, stores
<1> QED
  BY <1>1, <1>2, <1>3, <1>4, <1>5 DEF TabStep

LEMMA ViewStepKeeps ==
  ASSUME Consistent, NEW w \in Windows, ViewStep(w)
  PROVE  Consistent'
<1>1. CASE \E section \in Sections : \E i \in DOMAIN view[w][section] :
               \E run \in BOOLEAN : UseRow(w, section, i, run)
  <2>1. PICK section, i, run : section \in Sections /\ UseRow(w, section, i, run)
    BY <1>1
  <2>2. OpenRow(w, section, view[w][section][i], run) /\ UNCHANGED <<home, stores, dialog>>
    BY <2>1 DEF UseRow, Acts
  <2> QED
    BY <2>2, UseRowKeeps DEF stores
<1>2. CASE \E section \in Sections : \E i \in DOMAIN view[w][section] : ShowMenu(w, section, i)
  BY <1>2, TabsUntouchedKeeps DEF ShowMenu, stores, Consistent, Shapes
<1>3. CASE \E run \in BOOLEAN : ChooseInMenu(w, run)
  BY <1>3, ChooseInMenuKeeps
<1>4. CASE DismissMenu(w) \/ Refresh(w) \/ ClearData(w)
  BY <1>4, TabsUntouchedKeeps DEF DismissMenu, Refresh, ClearData, Acts, stores, Consistent, Shapes
<1> QED
  BY <1>1, <1>2, <1>3, <1>4 DEF ViewStep

LEMMA DialogStepKeeps ==
  ASSUME Consistent, NEW w \in Windows, DialogStep(w)
  PROVE  Consistent'
BY GiveNameKeeps, GiveNoNameKeeps, ConfirmReplaceKeeps, RemoveKeeps, ConfirmCloseKeeps
   DEF DialogStep

LEMMA RunLandsKeeps ==
  ASSUME Consistent, NEW t \in Tabs, RunLands(t)
  PROVE  Consistent'
BY TabsUntouchedKeeps DEF RunLands, Writes, Consistent, Shapes

LEMMA NextKeeps ==
  ASSUME Consistent, [Next]_vars
  PROVE  Consistent'
<1>1. CASE \E t \in Tabs : TabStep(t) \/ RunLands(t)
  BY <1>1, TabStepKeeps, RunLandsKeeps
<1>2. ASSUME NEW w \in Windows,
             \/ \E text \in Texts \cup {Blank}, run \in BOOLEAN : OpenQuery(w, text, run)
             \/ \E i \in DOMAIN view[w].recent : SaveRecent(w, i)
             \/ \E i \in DOMAIN view[w].saved : RemoveSaved(w, i)
             \/ ViewStep(w) \/ DialogStep(w)
             \/ \E ids \in SUBSET Tabs, together \in BOOLEAN : Close(w, ids, together)
             \/ Reload(w)
      PROVE  Consistent'
  BY <1>2, OpenQueryKeeps, SaveRecentKeeps, RemoveKeeps, ViewStepKeeps, DialogStepKeeps,
     CloseKeeps, ReloadKeeps
<1>3. CASE UNCHANGED vars
  BY <1>3, TabsUntouchedKeeps DEF vars, Consistent, Shapes
<1> QED
  BY <1>1, <1>2, <1>3 DEF Next

\* While a window asks for a name or for a replacement, the open tab it asks
\* about keeps the text of the question; a clean tab is a stored one.
THEOREM InvariantHolds == Spec => []Consistent
<1>1. Consistent /\ [Next]_vars => Consistent'
  BY NextKeeps
<1> QED
  BY <1>1, InitConsistent, PTL DEF Spec

-----------------------------------------------------------------------------
(* No stored query is overwritten unasked.                                 *)

\* What makes a stored query at n differ: a yes to a question about n, the Save
\* of a tab linked to n, or the clearing of all data.
Asked(n) ==
    \/ \E w \in Windows : /\ dialog[w].kind \in {"replace", "remove"}
                          /\ dialog[w].name = n
                          /\ dialog'[w] = NoDialog
    \/ \E t \in Tabs : IsOpen(t) /\ tab[t].link = n /\ saved'[n] = tab[t].text
    \/ writer' = NoWindow /\ history' = <<>>

\* The flow of Save: it stores under the tab's own name alone.
LEMMA SaveAsked ==
  ASSUME Consistent, NEW t \in Tabs, Save(t), NEW n \in Names, saved'[n] # saved[n]
  PROVE  Asked(n)
<1>1. Stores(home[t], t, tab[t].text, tab[t].link) /\ IsOpen(t)
  BY DEF Save, stores
<1>2. t \in Tabs \cup {NoTab} /\ (t # NoTab => tab[t].text = tab[t].text)
  OBVIOUS
<1>3. \A m \in Names : saved'[m] = IF m = tab[t].link THEN tab[t].text ELSE saved[m]
  BY <1>1, <1>2, StoresEffect
<1> QED
  BY <1>1, <1>3 DEF Asked

\* A name that is given overwrites nothing, or the query of the very tab.
LEMMA GiveNameAsked ==
  ASSUME Consistent, NEW w \in Windows, NEW name \in Names, GiveName(w, name),
         NEW n \in Names, saved[n] # Blank, saved'[n] # saved[n]
  PROVE  Asked(n)
<1> DEFINE d == dialog[w]
<1>1. ~ReplacesOther(d, name) /\ Stores(w, d.tab, d.sql, name) /\ d.kind = "name"
  BY DEF GiveName, Answers, stores
<1>2. /\ d.tab \in Tabs \cup {NoTab}
      /\ d.tab # NoTab => IsOpen(d.tab) /\ d.sql = tab[d.tab].text
  BY <1>1, AskedTab
<1>3. n = name /\ saved'[n] = d.sql
  BY <1>1, <1>2, StoresEffect
<1>4. name = LinkedName(d)
  BY <1>1, <1>3 DEF ReplacesOther
<1>5. d.tab # NoTab /\ tab[d.tab].link = n
  BY <1>3, <1>4, WorkspaceAssumption DEF LinkedName, NoName
<1> QED
  BY <1>2, <1>3, <1>5 DEF Asked

LEMMA ConfirmReplaceAsked ==
  ASSUME Consistent, NEW w \in Windows, NEW yes, ConfirmReplace(w, yes),
         NEW n \in Names, saved'[n] # saved[n]
  PROVE  Asked(n)
<1> DEFINE d == dialog[w]
<1>1. Asks(w, NoDialog) /\ Stores(w, d.tab, d.sql, d.name) /\ d.kind = "replace"
  BY DEF ConfirmReplace, Answers, stores
<1>2. n = d.name
  <2>1. /\ d.tab \in Tabs \cup {NoTab}
        /\ d.tab # NoTab => d.sql = tab[d.tab].text
    BY <1>1, AskedTab
  <2>2. Stores(w, d.tab, d.sql, d.name)
    BY <1>1
  <2>3. saved'[n] = IF n = d.name THEN d.sql ELSE saved[n]
    BY <2>1, <2>2, StoresEffect
  <2> QED
    BY <2>3
<1>3. dialog'[w] = NoDialog
  BY <1>1 DEF Asks, Consistent, Shapes
<1> QED
  BY <1>1, <1>2, <1>3 DEF Asked

LEMMA ConfirmRemoveAsked ==
  ASSUME Consistent, NEW w \in Windows, NEW yes, ConfirmRemove(w, yes),
         NEW n \in Names, saved'[n] # saved[n]
  PROVE  Asked(n)
<1>1. /\ Asks(w, NoDialog) /\ dialog[w].kind = "remove"
      /\ saved' = [saved EXCEPT ![dialog[w].name] = Blank]
  BY DEF ConfirmRemove, Answers, Writes, stores
<1>2. n = dialog[w].name
  BY <1>1 DEF Consistent, Shapes
<1>3. dialog'[w] = NoDialog
  BY <1>1 DEF Asks, Consistent, Shapes
<1> QED
  BY <1>1, <1>2, <1>3 DEF Asked

\* Every step that makes a stored query differ was asked for.
LEMMA StepAsked ==
  ASSUME Consistent, [Next]_vars, NEW n \in Names, saved[n] # Blank, saved'[n] # saved[n]
  PROVE  Asked(n)
<1>1. ASSUME NEW t \in Tabs, TabStep(t) PROVE Asked(n)
  <2>1. Save(t)
    BY <1>1 DEF TabStep, Edit, Run, Explain, Clear, SaveAs, Recall, stores
  <2> QED
    BY <2>1, SaveAsked
<1>2. ASSUME NEW t \in Tabs, RunLands(t) PROVE Asked(n)
  BY <1>2 DEF RunLands, Writes
<1>3. ASSUME NEW w \in Windows, ViewStep(w) PROVE Asked(n)
  <2>1. ClearData(w)
    BY <1>3 DEF ViewStep, UseRow, ShowMenu, ChooseInMenu, DismissMenu, Refresh, stores
  <2> QED
    BY <2>1 DEF ClearData, Asked
<1>4. ASSUME NEW w \in Windows, DialogStep(w) PROVE Asked(n)
  <2>1. \/ \E name \in Names : GiveName(w, name)
        \/ \E yes \in BOOLEAN : ConfirmReplace(w, yes) \/ ConfirmRemove(w, yes)
    BY <1>4 DEF DialogStep, GiveNoName, ConfirmClose, stores
  <2> QED
    BY <2>1, GiveNameAsked, ConfirmReplaceAsked, ConfirmRemoveAsked
<1>5. ASSUME NEW w \in Windows,
             \/ \E text \in Texts \cup {Blank}, run \in BOOLEAN : OpenQuery(w, text, run)
             \/ \E i \in DOMAIN view[w].recent : SaveRecent(w, i)
             \/ \E i \in DOMAIN view[w].saved : RemoveSaved(w, i)
             \/ \E ids \in SUBSET Tabs, together \in BOOLEAN : Close(w, ids, together)
             \/ Reload(w)
      PROVE  Asked(n)
  BY <1>5 DEF OpenQuery, SaveRecent, RemoveSaved, Close, Reload, stores
<1>6. CASE UNCHANGED vars
  BY <1>6 DEF vars
<1> QED
  BY <1>1, <1>2, <1>3, <1>4, <1>5, <1>6 DEF Next

\* A stored query is replaced or removed only on a yes about its very name, by
\* the Save of a tab linked to it, or with all data.
THEOREM NoUnaskedOverwrite == Spec => OverwritesAsked
<1>1. Consistent /\ [Next]_vars =>
          [\A n \in Names : saved[n] # Blank /\ saved'[n] # saved[n] =>
              \/ \E w \in Windows : /\ dialog[w].kind \in {"replace", "remove"}
                                    /\ dialog[w].name = n
                                    /\ dialog'[w] = NoDialog
              \/ \E t \in Tabs : IsOpen(t) /\ tab[t].link = n /\ saved'[n] = tab[t].text
              \/ writer' = NoWindow /\ history' = <<>>]_vars
  BY StepAsked DEF Asked
<1> QED
  BY <1>1, InvariantHolds, PTL DEF Spec, OverwritesAsked

-----------------------------------------------------------------------------
(* No tab takes unsaved text with it unasked.                              *)

LEMMA CloseLosesNothing ==
  ASSUME Consistent, NEW w \in Windows, NEW ids \in SUBSET Tabs, NEW together,
         Close(w, ids, together) \/ Reload(w),
         NEW t \in Tabs, IsOpen(t), tab'[t].state = "closed"
  PROVE  tab[t].text = tab[t].kept
<1>1. CASE Close(w, ids, together)
  <2>1. tab' = Without(ids \ Vetoed(ids, together))
    BY <1>1 DEF Close
  <2>2. t \in ids \ Vetoed(ids, together)
    BY <2>1, WithoutEffect DEF IsOpen
  <2>3. ~Dirty(t)
    BY <2>2 DEF Vetoed
  <2> QED
    BY <2>3 DEF Dirty, Consistent, CleanIsKept
<1>2. CASE Reload(w)
  <2> DEFINE ids2 == {u \in Tabs : home[u] = w /\ IsOpen(u)}
  <2>1. tab' = Without(ids2) /\ ~HasUnsavedWork(w)
    BY <1>2 DEF Reload
  <2>2. t \in ids2
    BY <2>1, WithoutEffect DEF IsOpen
  <2>3. ~Dirty(t)
    BY <2>1, <2>2 DEF HasUnsavedWork
  <2> QED
    BY <2>3 DEF Dirty, Consistent, CleanIsKept
<1> QED
  BY <1>1, <1>2

\* A tab that no question counted closes with a text that is stored, or not at
\* all.
LEMMA StepLosesNothing ==
  ASSUME Consistent, [Next]_vars,
         NEW t \in Tabs, IsOpen(t), tab'[t].state = "closed", tab[t].text # tab[t].kept
  PROVE  dialog[home[t]].kind = "close" /\ t \in dialog[home[t]].tabs
<1>1. ASSUME NEW u \in Tabs, TabStep(u) PROVE FALSE
  <2>1. CASE Save(u)
    BY <2>1, StoresEffect DEF Save, IsOpen
  <2>2. CASE SaveAs(u)
    BY <2>2 DEF SaveAs, IsOpen
  <2>3. tab[t].state = "open" /\ DOMAIN tab = Tabs /\ \A v \in Tabs : DOMAIN tab[v] = TabFields
    BY DEF Consistent, Shapes, IsOpen
  <2>4. CASE (\E text \in Texts : Edit(u, text)) \/ Run(u) \/ Explain(u) \/ Clear(u)
    BY <2>3, <2>4 DEF Edit, Run, Explain, Clear, TabFields
  <2>5. CASE \E older \in BOOLEAN : Recall(u, older)
    BY <2>3, <2>5 DEF Recall, TabFields
  <2> QED
    BY <1>1, <2>1, <2>2, <2>4, <2>5 DEF TabStep
<1>2. ASSUME NEW u \in Tabs, RunLands(u) PROVE FALSE
  BY <1>2 DEF RunLands, IsOpen
<1>3. ASSUME NEW w \in Windows, ViewStep(w) PROVE FALSE
  <2>1. ASSUME NEW section, NEW row, NEW run, OpenRow(w, section, row, run) PROVE FALSE
    BY <2>1, OpenRowEffect DEF IsOpen
  <2>2. tab' # tab
    BY DEF IsOpen
  <2>3. \/ \E section, i, run : UseRow(w, section, i, run)
        \/ \E run : ChooseInMenu(w, run)
    BY <1>3, <2>2 DEF ViewStep, ShowMenu, DismissMenu, Refresh, ClearData
  <2> QED
    BY <2>1, <2>2, <2>3 DEF UseRow, ChooseInMenu
<1>4. ASSUME NEW w \in Windows, DialogStep(w)
      PROVE  dialog[home[t]].kind = "close" /\ t \in dialog[home[t]].tabs
  <2>1. tab' # tab
    BY DEF IsOpen
  <2>2. CASE \E name \in Names : GiveName(w, name)
    <3>1. PICK name \in Names : GiveName(w, name)
      BY <2>2
    <3>2. Stores(w, dialog[w].tab, dialog[w].sql, name) /\ dialog[w].kind = "name"
      BY <2>1, <3>1 DEF GiveName, Answers
    <3> QED
      BY <3>2, AskedTab, StoresEffect DEF IsOpen
  <2>3. CASE \E yes \in BOOLEAN : ConfirmReplace(w, yes)
    <3>1. Stores(w, dialog[w].tab, dialog[w].sql, dialog[w].name) /\ dialog[w].kind = "replace"
      BY <2>1, <2>3 DEF ConfirmReplace, Answers
    <3> QED
      BY <3>1, AskedTab, StoresEffect DEF IsOpen
  <2>4. CASE \E yes \in BOOLEAN : ConfirmClose(w, yes)
    <3>1. tab' = Without(dialog[w].tabs) /\ dialog[w].kind = "close"
      BY <2>1, <2>4 DEF ConfirmClose, Answers
    <3>2. t \in dialog[w].tabs
      BY <3>1, WithoutEffect DEF IsOpen
    <3>3. home[t] = w
      BY <3>1, <3>2 DEF Consistent, Questions, CountedTabs
    <3> QED
      BY <3>1, <3>2, <3>3
  <2> QED
    BY <1>4, <2>1, <2>2, <2>3, <2>4 DEF DialogStep, GiveNoName, Abandoned, ConfirmRemove
<1>5. ASSUME NEW w \in Windows,
             \/ \E ids \in SUBSET Tabs, together \in BOOLEAN : Close(w, ids, together)
             \/ Reload(w)
      PROVE  FALSE
  BY <1>5, CloseLosesNothing
<1>6. ASSUME NEW w \in Windows,
             \/ \E i \in DOMAIN view[w].recent : SaveRecent(w, i)
             \/ \E i \in DOMAIN view[w].saved : RemoveSaved(w, i)
      PROVE  FALSE
  BY <1>6 DEF SaveRecent, RemoveSaved, IsOpen
<1>7. ASSUME NEW w \in Windows, NEW text, NEW run, OpenQuery(w, text, run)
      PROVE  FALSE
  BY <1>7, OpenEffect DEF OpenQuery, IsOpen
<1>8. CASE UNCHANGED vars
  BY <1>8 DEF vars, IsOpen
<1> QED
  BY <1>1, <1>2, <1>3, <1>4, <1>5, <1>6, <1>7, <1>8 DEF Next

\* A tab takes a text that is neither stored nor what it opened with down with
\* it only on a yes to a question that counted it.
THEOREM NoUnsavedLost == Spec => UnsavedAsked
<1>1. Consistent /\ [Next]_vars =>
          [\A t \in Tabs : IsOpen(t) /\ tab'[t].state = "closed" /\ tab[t].text # tab[t].kept =>
              dialog[home[t]].kind = "close" /\ t \in dialog[home[t]].tabs]_vars
  BY StepLosesNothing
<1> QED
  BY <1>1, InvariantHolds, PTL DEF Spec, UnsavedAsked

=============================================================================
