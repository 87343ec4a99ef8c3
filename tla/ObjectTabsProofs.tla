-------------------------- MODULE ObjectTabsProofs --------------------------
(***************************************************************************)
(* Theorems about ObjectTabs, for any tables, definitions and details and  *)
(* any number of moves: whoever waits for a table's columns shares the one *)
(* request for them, and Properties turns only to the user's latest object *)
(* or to that of the tab that has finished loading since.                  *)
(***************************************************************************)
EXTENDS ObjectTabs, TLAPS

-----------------------------------------------------------------------------
(* The inductive invariant.                                                *)

\* A data tab that still fetches, and a Properties call that awaits columns,
\* wait for a request that is in flight.
BuildsAsked ==
    \A b \in builds : HasData(b.id) /\ b.step = "fetching" => ObjectOf(b.id) \in asked
CallsAsked == \A w \in waiting : w.table \in asked

\* The one Properties call that is not stale is the user's latest, or that of the
\* tab that has finished loading since.
CurrentIsLatest == \A w \in waiting : w.current => w.table \in {latest, loaded}

\* An id that has a tab, or a table whose columns are being saved, was opened,
\* and no id more often than the user did something.
OpenedByMoves ==
    /\ \A i \in Tabs : opens[i] <= moves
    /\ \A i \in Tabs : tab[i] # "closed" => opens[i] >= 1
    /\ saving # NotSaving => opens[Structure(saving.table)] >= 1

Consistent == TypeOK /\ BuildsAsked /\ CallsAsked /\ CurrentIsLatest /\ OpenedByMoves

\* What a step may do to the inspector: it turns to one of these two alone.
TurnsToLatest == properties' # properties => properties'.object \in {latest', loaded'}

\* The part of the invariant a step of the inspector is about.
InspectorOK ==
    /\ asked \in SUBSET Tables
    /\ waiting \in SUBSET Calls
    /\ latest \in Objects \cup {NoObject}
    /\ loaded \in Objects \cup {NoObject}
    /\ properties \in [object : Objects \cup {NoObject}, columns : Versions]
    /\ CallsAsked
    /\ CurrentIsLatest

-----------------------------------------------------------------------------
(* Lemmas about the steps the actions are made of.                         *)

LEMMA TabFacts ==
  /\ \A i \in Tabs : ObjectOf(i) \in Objects
  /\ \A i \in Tabs : HasColumns(i) => ObjectOf(i) \in Tables
  /\ \A i \in Tabs : HasData(i) => HasColumns(i) /\ i = Data(ObjectOf(i))
  /\ \A t \in Tables : /\ Data(t) \in Tabs /\ Structure(t) \in Tabs
                       /\ ObjectOf(Data(t)) = t /\ HasData(Data(t))
                       /\ ~HasData(Structure(t))
  /\ NoTab \notin Tabs
BY ObjectAssumption
   DEF Tabs, ObjectOf, Objects, HasColumns, HasData, Data, Structure, NoTab

LEMMA ShowPropertiesEffect ==
  ASSUME InspectorOK, NEW object \in Objects, NEW entries \in Registry,
         NEW keys \in SUBSET Tables, asked \subseteq keys, NEW byLoad \in BOOLEAN,
         ShowProperties(object, entries, keys, byLoad)
  PROVE  keys \subseteq asked' /\ InspectorOK' /\ TurnsToLatest
<1> DEFINE stale == {[w EXCEPT !.current = FALSE] : w \in waiting}
           cached == IF object \in Tables THEN CachedColumns(entries, object) ELSE Unread
<1>1. /\ stale \in SUBSET Calls
      /\ \A w \in stale : w.current = FALSE /\ w.table \in asked
  BY DEF InspectorOK, Calls, CallsAsked
<1>2. cached \in Versions
  BY TabFacts DEF CachedColumns, Registry, Unread, Versions, NoEntry
<1>3. /\ object \in {latest', loaded'}
      /\ latest' \in Objects \cup {NoObject} /\ loaded' \in Objects \cup {NoObject}
  BY DEF ShowProperties, InspectorOK
<1> HIDE DEF stale, cached
<1>4. CASE /\ properties' = [object |-> object, columns |-> cached]
           /\ waiting' = stale
           /\ asked' = keys
  <2>1. CallsAsked' /\ CurrentIsLatest'
    BY <1>1, <1>4 DEF CallsAsked, CurrentIsLatest
  <2>2. properties' \in [object : Objects \cup {NoObject}, columns : Versions]
    BY <1>2, <1>4
  <2>3. TurnsToLatest
    BY <1>3, <1>4 DEF TurnsToLatest
  <2> QED
    BY <1>1, <1>3, <1>4, <2>1, <2>2, <2>3 DEF InspectorOK
<1>5. CASE /\ object \in Tables
           /\ waiting' = stale \cup {[table |-> object, current |-> TRUE]}
           /\ asked' = keys \cup {object}
           /\ UNCHANGED properties
  <2>1. CallsAsked' /\ CurrentIsLatest'
    BY <1>1, <1>3, <1>5 DEF CallsAsked, CurrentIsLatest
  <2>2. waiting' \in SUBSET Calls
    <3>1. [table |-> object, current |-> TRUE] \in Calls
      BY <1>5, Zenon DEF Calls
    <3> QED
      BY <1>1, <1>5, <3>1
  <2> QED
    BY <1>3, <1>5, <2>1, <2>2 DEF InspectorOK, TurnsToLatest
<1> QED
  BY <1>4, <1>5 DEF ShowProperties, stale, cached

LEMMA InspectorStays ==
  ASSUME InspectorOK, NEW keys \in SUBSET Tables, asked \subseteq keys,
         asked' = keys, UNCHANGED inspector
  PROVE  keys \subseteq asked' /\ InspectorOK' /\ TurnsToLatest
BY DEF InspectorOK, CallsAsked, CurrentIsLatest, TurnsToLatest, inspector

LEMMA SyncToPanelEffect ==
  ASSUME InspectorOK, NEW i \in Tabs \cup {NoTab}, NEW entries \in Registry,
         NEW keys \in SUBSET Tables, asked \subseteq keys, NEW byLoad \in BOOLEAN,
         SyncToPanel(i, entries, keys, byLoad)
  PROVE  keys \subseteq asked' /\ InspectorOK' /\ TurnsToLatest
<1>1. CASE HasEntry(entries, i) /\ ShowProperties(ObjectOf(i), entries, keys, byLoad)
  <2>1. ObjectOf(i) \in Objects
    BY <1>1, TabFacts DEF HasEntry
  <2> QED
    BY <1>1, <2>1, ShowPropertiesEffect
<1>2. CASE asked' = keys /\ UNCHANGED inspector
  BY <1>2, InspectorStays
<1> QED
  BY <1>1, <1>2 DEF SyncToPanel

LEMMA CloseTabEffect ==
  ASSUME Consistent, NEW i \in Tabs, CloseTab(i)
  PROVE  /\ tab' \in [Tabs -> {"closed", "loading", "open"}]
         /\ shown' \in [Tabs -> Versions]
         /\ active' \in Tabs \cup {NoTab}
         /\ registry' \in Registry
         /\ asked \subseteq asked' /\ InspectorOK' /\ TurnsToLatest
         /\ \A j \in Tabs : tab'[j] # "closed" => tab[j] # "closed"
<1>1. InspectorOK /\ asked \in SUBSET Tables
  BY DEF Consistent, TypeOK, InspectorOK
<1>2. /\ tab' \in [Tabs -> {"closed", "loading", "open"}]
      /\ shown' \in [Tabs -> Versions]
      /\ active' \in Tabs \cup {NoTab}
      /\ registry' \in Registry
      /\ \A j \in Tabs : tab'[j] # "closed" => tab[j] # "closed"
  <2>1. tab' = [tab EXCEPT ![i] = "closed"] /\ tab \in [Tabs -> {"closed", "loading", "open"}]
    BY DEF CloseTab, Consistent, TypeOK
  <2>2. shown' \in [Tabs -> Versions]
    BY DEF CloseTab, Consistent, TypeOK, Unread, Versions
  <2>3. registry' \in Registry
    BY DEF CloseTab, Consistent, TypeOK, Registry
  <2>4. active' \in Tabs \cup {NoTab}
    BY DEF CloseTab, Consistent, TypeOK
  <2> QED
    BY <2>1, <2>2, <2>3, <2>4
<1>3. CASE SyncToPanel(active', registry', asked, FALSE)
  BY <1>1, <1>2, <1>3, SyncToPanelEffect
<1>4. CASE UNCHANGED <<asked, inspector>>
  <2>1. asked' = asked /\ asked \in SUBSET Tables /\ asked \subseteq asked
        /\ UNCHANGED inspector
    BY <1>1, <1>4
  <2> QED
    BY <1>1, <1>2, <2>1, InspectorStays
<1> QED
  BY <1>2, <1>3, <1>4 DEF CloseTab

-----------------------------------------------------------------------------
(* Every step keeps the invariant.                                         *)

LEMMA InspectorConsistent == Consistent => InspectorOK /\ asked \subseteq asked
BY DEF Consistent, TypeOK, InspectorOK

LEMMA InspectorUntouched ==
  ASSUME Consistent, UNCHANGED <<asked, inspector>>
  PROVE  asked \subseteq asked' /\ InspectorOK' /\ TurnsToLatest
<1>1. InspectorOK /\ asked \in SUBSET Tables /\ asked' = asked /\ UNCHANGED inspector
  BY InspectorConsistent DEF InspectorOK
<1> QED
  BY <1>1, InspectorStays

\* The user looks at something else.
LEMMA FocusKeeps ==
  ASSUME Consistent,
         (\E i \in Tabs : FocusTab(i)) \/ (\E object \in Objects : Select(object))
  PROVE  Consistent' /\ TurnsToLatest
<1>1. registry \in Registry /\ InspectorOK /\ asked \in SUBSET Tables /\ asked \subseteq asked
  BY InspectorConsistent DEF Consistent, TypeOK, Registry
<1>2. asked \subseteq asked' /\ InspectorOK' /\ TurnsToLatest
  <2>1. CASE \E i \in Tabs : FocusTab(i)
    <3>1. PICK i \in Tabs : FocusTab(i)
      BY <2>1
    <3>2. SyncToPanel(i, registry, asked, FALSE)
      BY <3>1 DEF FocusTab
    <3> QED
      BY <1>1, <3>2, SyncToPanelEffect
  <2>2. CASE \E object \in Objects : Select(object)
    BY <1>1, <2>2, ShowPropertiesEffect DEF Select
  <2> QED
    BY <2>1, <2>2
<1>3. active' \in Tabs \cup {NoTab} /\ moves' = moves + 1 /\ moves' \in 0 .. Moves
  <2>1. Acts
    BY DEF FocusTab, Select
  <2>2. active' \in Tabs \cup {NoTab}
    <3>1. CASE \E i \in Tabs : FocusTab(i)
      BY <3>1 DEF FocusTab
    <3>2. CASE \E object \in Objects : Select(object)
      BY <3>2 DEF Select, dock, Consistent, TypeOK
    <3> QED
      BY <3>1, <3>2
  <2> QED
    BY <2>1, <2>2, MovesAssumption DEF Acts, Consistent, TypeOK
<1>4. UNCHANGED <<version, opens, tab, shown, registry, answer, builds, loads,
                  refreshes, saves, saving>>
  BY DEF FocusTab, Select, dock
<1>5. TypeOK'
  BY <1>2, <1>3, <1>4 DEF Consistent, TypeOK, InspectorOK
<1>6. BuildsAsked' /\ OpenedByMoves'
  BY <1>2, <1>3, <1>4 DEF Consistent, TypeOK, BuildsAsked, OpenedByMoves
<1> QED
  BY <1>2, <1>5, <1>6 DEF Consistent, InspectorOK

LEMMA OpenTabKeeps ==
  ASSUME Consistent, NEW i \in Tabs, OpenTab(i)
  PROVE  Consistent' /\ TurnsToLatest
<1> DEFINE keys == IF HasData(i) THEN asked \cup {ObjectOf(i)} ELSE asked
           new == [id |-> i, n |-> opens'[i], step |-> "fetching", columns |-> Unread]
<1>1. keys \in SUBSET Tables /\ asked \subseteq keys
  BY TabFacts DEF Consistent, TypeOK
<1>2. keys \subseteq asked' /\ InspectorOK' /\ TurnsToLatest
  <2>1. InspectorOK /\ registry \in Registry
    BY InspectorConsistent DEF Consistent, TypeOK, Registry
  <2>2. SyncToPanel(i, registry, keys, FALSE)
    BY DEF OpenTab
  <2> HIDE DEF keys
  <2> QED
    BY <1>1, <2>1, <2>2, SyncToPanelEffect
<1>3. moves' = moves + 1 /\ moves \in Nat /\ moves' \in 0 .. Moves
  BY MovesAssumption DEF OpenTab, Acts, Consistent, TypeOK
<1>4. /\ opens' = [opens EXCEPT ![i] = @ + 1] /\ opens \in [Tabs -> 0 .. Moves]
      /\ \A j \in Tabs : opens[j] <= moves
  BY DEF OpenTab, Consistent, TypeOK, OpenedByMoves
<1>5. /\ opens' \in [Tabs -> 0 .. Moves] /\ opens'[i] \in Opening
      /\ \A j \in Tabs : opens'[j] <= moves' /\ opens'[j] >= opens[j]
      /\ opens'[i] >= 1
  BY <1>3, <1>4, MovesAssumption DEF Opening
<1>6. builds' = builds \cup {new} /\ new \in Build
  BY <1>5 DEF OpenTab, Build, Unread, Versions
<1>7. BuildsAsked'
  BY <1>1, <1>2, <1>6 DEF Consistent, BuildsAsked
<1>8. OpenedByMoves'
  <2>1. \A j \in Tabs : tab'[j] # "closed" => j = i \/ tab[j] # "closed"
    BY DEF OpenTab, Consistent, TypeOK
  <2>2. \A j \in Tabs : tab'[j] # "closed" => opens'[j] >= 1
    BY <1>4, <1>5, <2>1 DEF Consistent, OpenedByMoves
  <2>3. saving' = NotSaving
    BY DEF OpenTab, Acts
  <2> QED
    BY <1>5, <2>2, <2>3 DEF OpenedByMoves
<1> HIDE DEF keys, new
<1>9. TypeOK'
  BY <1>2, <1>3, <1>5, <1>6 DEF OpenTab, Consistent, TypeOK, InspectorOK
<1> QED
  BY <1>2, <1>7, <1>8, <1>9 DEF Consistent, InspectorOK

LEMMA UserClosesKeeps ==
  ASSUME Consistent, NEW i \in Tabs, UserCloses(i)
  PROVE  Consistent' /\ TurnsToLatest
<1>1. CloseTab(i)
  BY DEF UserCloses
<1>2. moves' = moves + 1 /\ moves \in Nat /\ moves' \in 0 .. Moves
  BY MovesAssumption DEF UserCloses, Acts, Consistent, TypeOK
<1>3. TypeOK'
  BY <1>1, <1>2, CloseTabEffect
     DEF UserCloses, Consistent, TypeOK, InspectorOK
<1>4. BuildsAsked'
  BY <1>1, CloseTabEffect DEF UserCloses, Consistent, BuildsAsked
<1>5. OpenedByMoves'
  BY <1>1, <1>2, CloseTabEffect DEF UserCloses, Consistent, TypeOK, OpenedByMoves
<1> QED
  BY <1>1, <1>3, <1>4, <1>5, CloseTabEffect DEF Consistent, InspectorOK

\* A fetch for a refresh, or a Save, starts.
LEMMA UserAsksKeeps ==
  ASSUME Consistent,
         \/ \E i \in Tabs : RefreshTab(i)
         \/ RefreshTool
         \/ \E o \in Definitions : SaveDefinition(o)
         \/ \E t \in Tables : SaveColumns(t)
  PROVE  Consistent' /\ TurnsToLatest
<1>1. /\ moves' = moves + 1 /\ moves \in Nat /\ moves' \in 0 .. Moves
      /\ UNCHANGED <<version, opens, dock, registry, asked, answer, inspector, builds, loads>>
  <2>1. Acts /\ UNCHANGED <<version, opens, dock, registry, asked, answer, inspector, builds, loads>>
    BY DEF RefreshTab, RefreshTool, SaveDefinition, SaveColumns
  <2> QED
    BY <2>1, MovesAssumption DEF Acts, Consistent, TypeOK
<1>2. InspectorOK' /\ TurnsToLatest
  BY <1>1, InspectorUntouched
<1>3. \A i \in Tabs : tab[i] # "closed" => opens[i] \in Opening
  BY DEF Consistent, OpenedByMoves, TypeOK, Opening
<1>4. refreshes' \in SUBSET Refreshes
  <2>1. ASSUME NEW i \in Tabs, NEW n \in Opening, Ask(i, n, FALSE)
        PROVE  refreshes' \in SUBSET Refreshes
    <3>1. [id |-> i, n |-> n, columns |-> Unread, saved |-> FALSE] \in Refreshes
      <4>1. Unread \in Versions /\ FALSE \in BOOLEAN
        BY DEF Unread, Versions
      <4> QED
        BY <4>1, Zenon DEF Refreshes
    <3> QED
      BY <2>1, <3>1 DEF Ask, Consistent, TypeOK
  <2>2. CASE \E i \in Tabs : RefreshTab(i)
    BY <2>1, <2>2 DEF RefreshTab, Consistent, TypeOK, Registry
  <2>3. CASE RefreshTool
    BY <1>3, <2>1, <2>3 DEF RefreshTool, Consistent, TypeOK
  <2>4. CASE \E o \in Definitions : SaveDefinition(o)
    BY <2>4 DEF SaveDefinition, Consistent, TypeOK
  <2>5. CASE \E t \in Tables : SaveColumns(t)
    BY <2>5 DEF SaveColumns, Consistent, TypeOK
  <2> QED
    BY <2>2, <2>3, <2>4, <2>5
<1>5. saves' \in SUBSET Loads
  <2>1. CASE \E o \in Definitions : SaveDefinition(o)
    <3>1. PICK o \in Definitions : SaveDefinition(o)
      BY <2>1
    <3> DEFINE mine == [id |-> Definition(o), n |-> opens[Definition(o)]]
    <3>2. Definition(o) \in Tabs /\ tab[Definition(o)] # "closed"
      BY <3>1 DEF SaveDefinition, Tabs, Definition
    <3>3. mine \in Loads
      BY <1>3, <3>2 DEF Loads
    <3> QED
      BY <3>1, <3>3 DEF SaveDefinition, Consistent, TypeOK
  <2> QED
    BY <2>1 DEF RefreshTab, RefreshTool, SaveColumns, Consistent, TypeOK
<1>6. /\ saving' \in Savings
      /\ saving' # NotSaving => opens'[Structure(saving'.table)] >= 1
  <2>1. CASE \E t \in Tables : SaveColumns(t)
    <3>1. PICK t \in Tables : SaveColumns(t)
      BY <2>1
    <3>2. saving' = [table |-> t, executed |-> FALSE] /\ saving'.table = t
      BY <3>1 DEF SaveColumns
    <3>3. saving' \in [table : Tables, executed : BOOLEAN]
      BY <3>2, Zenon
    <3>4. opens[Structure(t)] >= 1
      BY <3>1, TabFacts DEF SaveColumns, Consistent, OpenedByMoves
    <3> QED
      BY <1>1, <3>2, <3>3, <3>4 DEF Savings
  <2>2. CASE saving' = saving
    BY <1>1, <2>2 DEF Consistent, TypeOK, OpenedByMoves
  <2> QED
    BY <2>1, <2>2 DEF RefreshTab, RefreshTool, SaveDefinition
<1>7. TypeOK'
  <2>1. UNCHANGED <<version, opens, tab, shown, active, registry, answer, builds, loads>>
    BY <1>1 DEF dock
  <2> QED
    BY <1>1, <1>2, <1>4, <1>5, <1>6, <2>1 DEF Consistent, TypeOK, InspectorOK
<1>8. BuildsAsked' /\ OpenedByMoves'
  <2>1. \A i \in Tabs : opens[i] \in Nat
    BY MovesAssumption DEF Consistent, TypeOK
  <2> QED
    BY <1>1, <1>6, <2>1 DEF Consistent, BuildsAsked, OpenedByMoves, dock
<1> QED
  BY <1>2, <1>7, <1>8 DEF Consistent, InspectorOK

\* The server changes or reads: no tab, no request, no build ends by it.
LEMMA ServerKeeps ==
  ASSUME Consistent,
         \/ \E o \in Objects : AlteredElsewhere(o)
         \/ \E t \in Tables : ColumnsRead(t)
         \/ \E f \in refreshes : RefreshRead(f)
         \/ \E f \in refreshes : RefreshFails(f)
         \/ \E d \in saves : DefinitionSaveFails(d)
         \/ \E l \in loads : RowsFail(l)
         \/ SaveExecutes \/ SaveFails
  PROVE  Consistent' /\ TurnsToLatest
<1>1. UNCHANGED <<opens, dock, registry, asked, inspector, builds>>
  BY DEF AlteredElsewhere, ColumnsRead, RefreshRead, RefreshFails, DefinitionSaveFails,
         RowsFail, SaveExecutes, SaveFails
<1>2. InspectorOK' /\ TurnsToLatest
  BY <1>1, InspectorUntouched
<1>3. moves' \in 0 .. Moves /\ moves' >= moves /\ moves \in Nat
  BY MovesAssumption DEF AlteredElsewhere, ColumnsRead, RefreshRead, RefreshFails,
     DefinitionSaveFails, RowsFail, SaveExecutes, SaveFails, Consistent, TypeOK
<1>4. /\ saving' \in Savings
      /\ saving' # NotSaving => saving # NotSaving /\ saving'.table = saving.table
  <2>1. CASE SaveExecutes
    <3>1. saving \in [table : Tables, executed : BOOLEAN]
          /\ saving' = [saving EXCEPT !.executed = TRUE]
      BY <2>1 DEF SaveExecutes, Consistent, TypeOK, Savings
    <3>2. saving' = [table |-> saving.table, executed |-> TRUE] /\ saving.table \in Tables
      BY <3>1
    <3>3. saving' \in [table : Tables, executed : BOOLEAN]
      BY <3>2, Zenon
    <3> QED
      BY <2>1, <3>2, <3>3 DEF SaveExecutes, Savings
  <2>2. CASE saving' \in {saving, NotSaving}
    BY <2>2 DEF Consistent, TypeOK, Savings
  <2> QED
    BY <2>1, <2>2 DEF AlteredElsewhere, ColumnsRead, RefreshRead, RefreshFails,
       DefinitionSaveFails, RowsFail, SaveFails
<1>5. version' \in [Objects -> Versions \ {Unread}]
  <2>1. \A o \in Objects : version[o] + 1 \in Versions \ {Unread}
    BY DEF Consistent, TypeOK, Versions, Unread
  <2>2. CASE SaveExecutes
    <3>1. saving.table \in Objects
      BY <2>2 DEF SaveExecutes, Consistent, TypeOK, Savings, Objects
    <3> QED
      BY <2>1, <2>2, <3>1 DEF SaveExecutes, Consistent, TypeOK
  <2> QED
    BY <2>1, <2>2 DEF AlteredElsewhere, ColumnsRead, RefreshRead, RefreshFails,
       DefinitionSaveFails, RowsFail, SaveFails, Consistent, TypeOK
<1>6. answer' \in [Tables -> Versions]
  BY DEF AlteredElsewhere, ColumnsRead, RefreshRead, RefreshFails, DefinitionSaveFails,
     RowsFail, SaveExecutes, SaveFails, Consistent, TypeOK, Objects
<1>7. refreshes' \in SUBSET Refreshes
  <2>1. CASE \E f \in refreshes : RefreshRead(f)
    <3>1. PICK f \in refreshes : RefreshRead(f)
      BY <2>1
    <3>2. f \in Refreshes /\ version[ObjectOf(f.id)] \in Versions
      BY TabFacts DEF Consistent, TypeOK, Refreshes
    <3>3. [f EXCEPT !.columns = version[ObjectOf(f.id)]] \in Refreshes
      BY <3>2 DEF Refreshes
    <3> QED
      BY <3>1, <3>3 DEF RefreshRead, Consistent, TypeOK, Refreshes
  <2> QED
    BY <2>1 DEF AlteredElsewhere, ColumnsRead, RefreshFails, DefinitionSaveFails,
       RowsFail, SaveExecutes, SaveFails, Consistent, TypeOK, Refreshes
<1>8. loads' \subseteq loads /\ saves' \subseteq saves
  BY DEF AlteredElsewhere, ColumnsRead, RefreshRead, RefreshFails, DefinitionSaveFails,
         RowsFail, SaveExecutes, SaveFails
<1>9. TypeOK'
  BY <1>1, <1>2, <1>3, <1>4, <1>5, <1>6, <1>7, <1>8
     DEF Consistent, TypeOK, dock, InspectorOK
<1>10. BuildsAsked'
  BY <1>1 DEF Consistent, BuildsAsked
<1>11. OpenedByMoves'
  BY <1>1, <1>3, <1>4 DEF Consistent, TypeOK, OpenedByMoves, dock
<1> QED
  BY <1>2, <1>9, <1>10, <1>11 DEF Consistent, InspectorOK

\* A step of the shared request: its waiters are served, or lose it, together.
LEMMA SettleEffect ==
  ASSUME Consistent, NEW t \in Tables, NEW step \in {"answered", "failed"},
         NEW columns \in Versions, Settle(t, step, columns)
  PROVE  /\ asked' \in SUBSET Tables
         /\ answer' \in [Tables -> Versions]
         /\ builds' \in SUBSET Build
         /\ waiting' \in SUBSET Calls
         /\ BuildsAsked' /\ CallsAsked'
         /\ UNCHANGED <<latest, loaded>> => CurrentIsLatest'
<1> DEFINE served == {[b EXCEPT !.step = step, !.columns = columns] : b \in SharedBy(t)}
<1>1. /\ asked' = asked \ {t} /\ waiting' = {w \in waiting : w.table # t}
      /\ builds' = (builds \ SharedBy(t)) \cup served
      /\ answer' = [answer EXCEPT ![t] = Unread]
  BY DEF Settle
<1>2. served \in SUBSET Build /\ \A b \in served : b.step # "fetching"
  <2>1. ASSUME NEW b \in SharedBy(t)
        PROVE  /\ [b EXCEPT !.step = step, !.columns = columns] \in Build
               /\ [b EXCEPT !.step = step, !.columns = columns].step = step
    <3>1. b \in Build
      BY DEF SharedBy, Consistent, TypeOK
    <3> QED
      BY <3>1 DEF Build
  <2> QED
    BY <2>1
<1> HIDE DEF served
<1>3. \A b \in builds \ SharedBy(t) : HasData(b.id) /\ b.step = "fetching" => ObjectOf(b.id) # t
  <2>1. ASSUME NEW b \in builds \ SharedBy(t), HasData(b.id), b.step = "fetching"
        PROVE  ObjectOf(b.id) # t
    <3>1. b.id # Data(t)
      BY <2>1 DEF SharedBy
    <3>2. b.id \in Tabs
      BY DEF Consistent, TypeOK, Build
    <3> QED
      BY <2>1, <3>1, <3>2, TabFacts
  <2> QED
    BY <2>1
<1>4. BuildsAsked'
  BY <1>1, <1>2, <1>3 DEF Consistent, BuildsAsked
<1>5. CallsAsked' /\ (UNCHANGED <<latest, loaded>> => CurrentIsLatest')
  BY <1>1 DEF Consistent, CallsAsked, CurrentIsLatest
<1>6. answer' \in [Tables -> Versions]
  BY <1>1 DEF Consistent, TypeOK, Unread, Versions
<1> QED
  BY <1>1, <1>2, <1>4, <1>5, <1>6 DEF Consistent, TypeOK

LEMMA ColumnsArriveKeeps ==
  ASSUME Consistent, NEW t \in Tables, ColumnsArrive(t)
  PROVE  Consistent' /\ TurnsToLatest
<1>1. /\ answer[t] \in Versions /\ Settle(t, "answered", answer[t])
      /\ UNCHANGED <<latest, loaded>>
  BY DEF ColumnsArrive, Consistent, TypeOK
<1>2. /\ properties' \in [object : Objects \cup {NoObject}, columns : Versions]
      /\ TurnsToLatest
  <2>1. CASE [table |-> t, current |-> TRUE] \in waiting
    <3>1. t \in {latest, loaded}
      BY <2>1 DEF Consistent, CurrentIsLatest
    <3>2. properties' = [object |-> t, columns |-> answer[t]]
      BY <2>1 DEF ColumnsArrive, ColumnsShown
    <3> QED
      BY <1>1, <3>1, <3>2 DEF TurnsToLatest, Objects
  <2>2. CASE [table |-> t, current |-> TRUE] \notin waiting
    BY <2>2 DEF ColumnsArrive, ColumnsShown, TurnsToLatest, Consistent, TypeOK
  <2> QED
    BY <2>1, <2>2
<1>3. UNCHANGED <<version, opens, tab, shown, active, registry, latest, loaded, loads, refreshes,
                  saves, saving, moves>>
  BY DEF ColumnsArrive, dock
<1>4. TypeOK'
  BY <1>1, <1>2, <1>3, SettleEffect DEF Consistent, TypeOK
<1>5. OpenedByMoves'
  BY <1>3 DEF Consistent, OpenedByMoves
<1> QED
  BY <1>1, <1>2, <1>4, <1>5, SettleEffect DEF Consistent

LEMMA ColumnsFailKeeps ==
  ASSUME Consistent, NEW t \in Tables, ColumnsFail(t)
  PROVE  Consistent' /\ TurnsToLatest
<1>1. /\ Unread \in Versions /\ Settle(t, "failed", Unread)
      /\ UNCHANGED <<latest, loaded>>
  BY DEF ColumnsFail, Unread, Versions
<1>2. UNCHANGED <<version, opens, tab, shown, active, registry, latest, loaded, properties,
                  loads, refreshes, saves, saving, moves>>
  BY DEF ColumnsFail, dock
<1>3. TypeOK'
  BY <1>1, <1>2, SettleEffect DEF Consistent, TypeOK
<1>4. OpenedByMoves' /\ TurnsToLatest
  BY <1>2 DEF Consistent, OpenedByMoves, TurnsToLatest
<1> QED
  BY <1>1, <1>3, <1>4, SettleEffect DEF Consistent

LEMMA BuildReadKeeps ==
  ASSUME Consistent, NEW b \in builds, BuildRead(b)
  PROVE  Consistent' /\ TurnsToLatest
<1> DEFINE read == [b EXCEPT !.step = "answered", !.columns = version[ObjectOf(b.id)]]
<1>1. /\ builds' = (builds \ {b}) \cup {read}
      /\ UNCHANGED <<version, opens, tab, shown, active, registry, asked, answer, inspector,
                     loads, refreshes, saves, saving, moves>>
  BY DEF BuildRead, dock
<1>2. read \in Build /\ read.step = "answered"
  <2>1. b \in Build
    BY DEF Consistent, TypeOK
  <2>2. version[ObjectOf(b.id)] \in Versions
    BY <2>1, TabFacts DEF Build, Consistent, TypeOK
  <2> QED
    BY <2>1, <2>2 DEF Build
<1> HIDE DEF read
<1>3. InspectorOK' /\ TurnsToLatest
  BY <1>1, InspectorUntouched
<1>4. TypeOK'
  BY <1>1, <1>2, <1>3 DEF Consistent, TypeOK, InspectorOK
<1>5. BuildsAsked' /\ OpenedByMoves'
  BY <1>1, <1>2 DEF Consistent, BuildsAsked, OpenedByMoves
<1> QED
  BY <1>3, <1>4, <1>5 DEF Consistent, InspectorOK

LEMMA BuildEndsKeeps ==
  ASSUME Consistent, NEW b \in builds, BuildEnds(b)
  PROVE  Consistent' /\ TurnsToLatest
<1>1. b \in Build /\ b.id \in Tabs /\ b.n \in Opening /\ b.columns \in Versions
  BY DEF Consistent, TypeOK, Build
<1>2. registry' \in Registry
  <2> DEFINE entry == [n |-> b.n, columns |-> IF HasColumns(b.id) THEN b.columns ELSE Unread]
  <2>1. entry \in [n : Opening, columns : Versions]
    BY <1>1 DEF Unread, Versions
  <2>2. registry' = [registry EXCEPT ![b.id] = entry]
    BY DEF BuildEnds, Register
  <2> HIDE DEF entry
  <2> QED
    BY <2>1, <2>2 DEF Consistent, TypeOK, Registry
<1>3. /\ tab' \in [Tabs -> {"closed", "loading", "open"}]
      /\ shown' \in [Tabs -> Versions]
      /\ \A i \in Tabs : tab'[i] # "closed" => tab[i] # "closed"
  BY <1>1 DEF BuildEnds, Lands, Current, Consistent, TypeOK
<1>4. asked \subseteq asked' /\ InspectorOK' /\ TurnsToLatest
  <2>1. CASE SyncToPanel(b.id, registry', asked, TRUE)
    <3>1. InspectorOK /\ asked \in SUBSET Tables /\ asked \subseteq asked
      BY InspectorConsistent DEF InspectorOK
    <3> QED
      BY <1>1, <1>2, <2>1, <3>1, SyncToPanelEffect
  <2>2. CASE UNCHANGED <<asked, inspector>>
    BY <2>2, InspectorUntouched
  <2> QED
    BY <2>1, <2>2 DEF BuildEnds
<1>5. loads' \in SUBSET Loads
  <2>1. [id |-> b.id, n |-> b.n] \in Loads
    BY <1>1 DEF Loads
  <2> QED
    BY <2>1 DEF BuildEnds, Consistent, TypeOK
<1>6. /\ builds' = builds \ {b}
      /\ UNCHANGED <<version, opens, active, answer, refreshes, saves, saving, moves>>
  BY DEF BuildEnds
<1>7. TypeOK'
  BY <1>2, <1>3, <1>4, <1>5, <1>6 DEF Consistent, TypeOK, InspectorOK
<1>8. BuildsAsked'
  BY <1>4, <1>6 DEF Consistent, BuildsAsked
<1>9. OpenedByMoves'
  BY <1>3, <1>6 DEF Consistent, OpenedByMoves
<1> QED
  BY <1>4, <1>7, <1>8, <1>9 DEF Consistent, InspectorOK

LEMMA BuildFailsKeeps ==
  ASSUME Consistent, NEW b \in builds, BuildFails(b)
  PROVE  Consistent' /\ TurnsToLatest
<1>1. /\ builds' = builds \ {b} /\ b.id \in Tabs
      /\ UNCHANGED <<version, opens, answer, loads, refreshes, saves, saving, moves>>
  BY DEF BuildFails, Consistent, TypeOK, Build
<1>2. CASE CloseTab(b.id)
  <2>1. TypeOK'
    BY <1>1, <1>2, CloseTabEffect DEF Consistent, TypeOK, InspectorOK
  <2>2. BuildsAsked'
    BY <1>1, <1>2, CloseTabEffect DEF Consistent, BuildsAsked
  <2>3. OpenedByMoves'
    BY <1>1, <1>2, CloseTabEffect DEF Consistent, OpenedByMoves
  <2> QED
    BY <1>1, <1>2, <2>1, <2>2, <2>3, CloseTabEffect DEF Consistent, InspectorOK
<1>3. CASE UNCHANGED <<dock, registry, asked, inspector>>
  <2>1. InspectorOK' /\ TurnsToLatest
    BY <1>3, InspectorUntouched
  <2>2. UNCHANGED <<tab, shown, active, registry, asked>>
    BY <1>3 DEF dock
  <2>3. TypeOK'
    BY <1>1, <2>1, <2>2 DEF Consistent, TypeOK, InspectorOK
  <2>4. BuildsAsked' /\ OpenedByMoves'
    BY <1>1, <2>2 DEF Consistent, BuildsAsked, OpenedByMoves
  <2> QED
    BY <2>1, <2>3, <2>4 DEF Consistent, InspectorOK
<1> QED
  BY <1>2, <1>3 DEF BuildFails

LEMMA RowsLoadedKeeps ==
  ASSUME Consistent, NEW l \in loads, RowsLoaded(l)
  PROVE  Consistent' /\ TurnsToLatest
<1>1. /\ loads' = loads \ {l} /\ SyncToPanel(l.id, registry, asked, TRUE)
      /\ UNCHANGED <<version, opens, tab, shown, active, registry, answer, builds, refreshes,
                     saves, saving, moves>>
  BY DEF RowsLoaded, dock
<1>2. asked \subseteq asked' /\ InspectorOK' /\ TurnsToLatest
  <2>1. /\ InspectorOK /\ asked \in SUBSET Tables /\ asked \subseteq asked
        /\ l.id \in Tabs /\ registry \in Registry
    BY InspectorConsistent DEF InspectorOK, Consistent, TypeOK, Loads
  <2> QED
    BY <1>1, <2>1, SyncToPanelEffect
<1>3. TypeOK'
  BY <1>1, <1>2 DEF Consistent, TypeOK, InspectorOK
<1>4. BuildsAsked' /\ OpenedByMoves'
  BY <1>1, <1>2 DEF Consistent, BuildsAsked, OpenedByMoves
<1> QED
  BY <1>2, <1>3, <1>4 DEF Consistent, InspectorOK

LEMMA RefreshEndsKeeps ==
  ASSUME Consistent, NEW f \in refreshes, RefreshEnds(f)
  PROVE  Consistent' /\ TurnsToLatest
<1>1. f.id \in Tabs /\ f.columns \in Versions
  BY DEF Consistent, TypeOK, Refreshes
<1>2. /\ refreshes' = refreshes \ {f}
      /\ UNCHANGED <<version, opens, tab, active, asked, answer, inspector, builds, loads,
                     saves, saving, moves>>
  BY DEF RefreshEnds
<1>3. shown' \in [Tabs -> Versions]
  BY <1>1 DEF RefreshEnds, Consistent, TypeOK
<1>4. registry' \in Registry
  <2>1. CASE registry[f.id] # NoEntry /\ registry' = [registry EXCEPT ![f.id].columns = f.columns]
    <3>1. registry[f.id] \in [n : Opening, columns : Versions]
      BY <1>1, <2>1 DEF Consistent, TypeOK, Registry
    <3>2. [registry[f.id] EXCEPT !.columns = f.columns] \in [n : Opening, columns : Versions]
      BY <1>1, <3>1
    <3>3. registry' = [registry EXCEPT ![f.id] = [registry[f.id] EXCEPT !.columns = f.columns]]
      BY <2>1
    <3> QED
      BY <3>2, <3>3 DEF Consistent, TypeOK, Registry
  <2> QED
    BY <2>1 DEF RefreshEnds, Cache, Consistent, TypeOK
<1>5. InspectorOK' /\ TurnsToLatest
  BY <1>2, InspectorUntouched
<1>6. TypeOK'
  BY <1>2, <1>3, <1>4, <1>5 DEF Consistent, TypeOK, InspectorOK
<1>7. BuildsAsked' /\ OpenedByMoves'
  BY <1>2 DEF Consistent, BuildsAsked, OpenedByMoves
<1> QED
  BY <1>5, <1>6, <1>7 DEF Consistent, InspectorOK

LEMMA DefinitionSavedKeeps ==
  ASSUME Consistent, NEW d \in saves, DefinitionSaved(d)
  PROVE  Consistent' /\ TurnsToLatest
<1>1. d \in Loads /\ d.id \in Tabs /\ d.n \in Opening
  BY DEF Consistent, TypeOK, Loads
<1> DEFINE new == [id |-> d.id, n |-> d.n, columns |-> Unread, saved |-> TRUE]
<1>2. new \in Refreshes
  <2>1. Unread \in Versions /\ TRUE \in BOOLEAN
    BY DEF Unread, Versions
  <2> QED
    BY <1>1, <2>1, Zenon DEF Refreshes
<1>3. /\ saves' = saves \ {d} /\ refreshes' = refreshes \cup {new}
      /\ UNCHANGED <<opens, tab, shown, active, registry, asked, answer, inspector, builds,
                     loads, saving, moves>>
  BY DEF DefinitionSaved, Ask, dock
<1> HIDE DEF new
<1>4. version' \in [Objects -> Versions \ {Unread}]
  BY <1>1, TabFacts DEF DefinitionSaved, Consistent, TypeOK, Versions, Unread
<1>5. InspectorOK' /\ TurnsToLatest
  BY <1>3, InspectorUntouched
<1>6. TypeOK'
  BY <1>2, <1>3, <1>4, <1>5 DEF Consistent, TypeOK, InspectorOK
<1>7. BuildsAsked' /\ OpenedByMoves'
  BY <1>3 DEF Consistent, BuildsAsked, OpenedByMoves
<1> QED
  BY <1>5, <1>6, <1>7 DEF Consistent, InspectorOK

LEMMA SaveEndsKeeps ==
  ASSUME Consistent, SaveEnds
  PROVE  Consistent' /\ TurnsToLatest
<1> DEFINE data == Data(saving.table)
           structure == Structure(saving.table)
           new == [id |-> structure, n |-> opens[structure], columns |-> Unread, saved |-> FALSE]
<1>1. saving # NotSaving /\ saving.table \in Tables /\ data \in Tabs /\ structure \in Tabs
  BY TabFacts DEF SaveEnds, Consistent, TypeOK, Savings
<1>2. opens[structure] \in Opening
  BY <1>1 DEF Consistent, TypeOK, OpenedByMoves, Opening
<1>3. new \in Refreshes
  <2>1. Unread \in Versions /\ FALSE \in BOOLEAN
    BY DEF Unread, Versions
  <2> QED
    BY <1>1, <1>2, <2>1, Zenon DEF Refreshes
<1>4. /\ saving' = NotSaving /\ refreshes' = refreshes \cup {new}
      /\ UNCHANGED <<version, opens, answer, builds, loads, moves, saves>>
  BY DEF SaveEnds, Ask
<1>5. refreshes' \in SUBSET Refreshes /\ saving' \in Savings
  BY <1>3, <1>4 DEF Consistent, TypeOK, Savings
<1> HIDE DEF new
<1>6. CASE CloseTab(data)
  <2>1. TypeOK'
    BY <1>1, <1>4, <1>5, <1>6, CloseTabEffect DEF Consistent, TypeOK, InspectorOK
  <2>2. BuildsAsked'
    BY <1>1, <1>4, <1>6, CloseTabEffect DEF Consistent, BuildsAsked
  <2>3. OpenedByMoves'
    BY <1>1, <1>4, <1>6, CloseTabEffect DEF Consistent, OpenedByMoves
  <2> QED
    BY <1>1, <1>6, <2>1, <2>2, <2>3, CloseTabEffect DEF Consistent, InspectorOK
<1>7. CASE UNCHANGED <<dock, registry, asked, inspector>>
  <2>1. InspectorOK' /\ TurnsToLatest
    BY <1>7, InspectorUntouched
  <2>2. UNCHANGED <<tab, shown, active, registry, asked>>
    BY <1>7 DEF dock
  <2>3. TypeOK'
    BY <1>4, <1>5, <2>1, <2>2 DEF Consistent, TypeOK, InspectorOK
  <2>4. BuildsAsked' /\ OpenedByMoves'
    BY <1>4, <2>2 DEF Consistent, BuildsAsked, OpenedByMoves
  <2> QED
    BY <2>1, <2>3, <2>4 DEF Consistent, InspectorOK
<1> QED
  BY <1>6, <1>7 DEF SaveEnds

-----------------------------------------------------------------------------
(* The theorems.                                                           *)

LEMMA InitConsistent == Init => Consistent
<1> SUFFICES ASSUME Init PROVE Consistent
  OBVIOUS
<1>1. TypeOK
  BY MovesAssumption DEF Init, TypeOK, Versions, Unread, Registry, Savings
<1>2. BuildsAsked /\ CallsAsked /\ CurrentIsLatest
  BY DEF Init, BuildsAsked, CallsAsked, CurrentIsLatest
<1>3. OpenedByMoves
  BY DEF Init, OpenedByMoves
<1> QED
  BY <1>1, <1>2, <1>3 DEF Consistent

LEMMA NextKeeps ==
  ASSUME Consistent, [Next]_vars
  PROVE  Consistent' /\ TurnsToLatest
<1>1. CASE UserActs
  <2>1. \A t \in Tables : Data(t) \in Tabs /\ Structure(t) \in Tabs
    BY TabFacts
  <2>2. /\ \A o \in Definitions : Definition(o) \in Tabs
        /\ \A o \in Infos : Info(o) \in Tabs
    BY DEF Definition, Info, Tabs
  <2> QED
    BY <1>1, <2>1, <2>2, FocusKeeps, UserClosesKeeps, UserAsksKeeps, OpenTabKeeps
       DEF UserActs, OpenTable, OpenStructure, OpenDefinition, OpenInfo
<1>2. CASE \E o \in Objects : AlteredElsewhere(o)
  BY <1>2, ServerKeeps
<1>3. CASE \E t \in Tables : RequestProceeds(t)
  BY <1>3, ServerKeeps, ColumnsArriveKeeps, ColumnsFailKeeps DEF RequestProceeds
<1>4. CASE \E b \in builds : BuildProceeds(b)
  BY <1>4, BuildReadKeeps, BuildEndsKeeps, BuildFailsKeeps DEF BuildProceeds
<1>5. CASE \E l \in loads : LoadProceeds(l)
  BY <1>5, ServerKeeps, RowsLoadedKeeps DEF LoadProceeds
<1>6. CASE \E f \in refreshes : RefreshProceeds(f)
  BY <1>6, ServerKeeps, RefreshEndsKeeps DEF RefreshProceeds
<1>7. CASE \E d \in saves : DefinitionSaved(d) \/ DefinitionSaveFails(d)
  BY <1>7, ServerKeeps, DefinitionSavedKeeps
<1>8. CASE SaveProceeds
  BY <1>8, ServerKeeps, SaveEndsKeeps DEF SaveProceeds
<1>9. CASE UNCHANGED vars
  <2>1. UNCHANGED <<version, opens, tab, shown, active, registry, asked, answer, inspector,
                    builds, loads, refreshes, saves, saving, moves>>
    BY <1>9 DEF vars, dock
  <2>2. InspectorOK' /\ TurnsToLatest
    BY <2>1, InspectorUntouched
  <2>3. TypeOK'
    BY <2>1, <2>2 DEF Consistent, TypeOK, InspectorOK
  <2>4. BuildsAsked' /\ OpenedByMoves'
    BY <2>1 DEF Consistent, BuildsAsked, OpenedByMoves
  <2> QED
    BY <2>2, <2>3, <2>4 DEF Consistent, InspectorOK
<1> QED
  BY <1>1, <1>2, <1>3, <1>4, <1>5, <1>6, <1>7, <1>8, <1>9 DEF Next

\* The types, and that every wait and every current call has its request: the
\* column fetches share one entry of _columnsInFlight, and of the Properties
\* calls only the newest is current.
THEOREM InvariantHolds == Spec => []Consistent
<1>1. Consistent /\ [Next]_vars => Consistent'
  BY NextKeeps
<1> QED
  BY <1>1, InitConsistent, PTL DEF Spec

\* Every variable keeps its type.
THEOREM TypesKept == Spec => []TypeOK
<1>1. Consistent => TypeOK
  BY DEF Consistent
<1> QED
  BY <1>1, InvariantHolds, PTL

\* A data tab that fetches and a Properties call that waits depend on a request
\* that is in flight (fetchColumns).
THEOREM NobodyWaitsInVain == Spec => []WaitersShareARequest
<1>1. Consistent => WaitersShareARequest
  <2> SUFFICES ASSUME Consistent, NEW t \in Tables,
                      SharedBy(t) # {} \/ (\E w \in waiting : w.table = t)
               PROVE  t \in asked
    BY DEF WaitersShareARequest
  <2>1. CASE SharedBy(t) # {}
    <3>1. PICK b \in builds : b.id = Data(t) /\ b.step = "fetching"
      BY <2>1 DEF SharedBy
    <3> QED
      BY <3>1, TabFacts DEF Consistent, BuildsAsked
  <2>2. CASE \E w \in waiting : w.table = t
    BY <2>2 DEF Consistent, CallsAsked
  <2> QED
    BY <2>1, <2>2
<1> QED
  BY <1>1, InvariantHolds, PTL

\* Properties turns only to the object the user turned to last, or to that of the
\* last tab that has finished loading since, whatever answers late.
THEOREM LatestIsShown == Spec => OnlyLatestShown
<1>1. Consistent /\ [Next]_vars => [properties' # properties => properties'.object \in {latest', loaded'}]_vars
  BY NextKeeps DEF TurnsToLatest
<1> QED
  BY <1>1, InvariantHolds, PTL DEF Spec, OnlyLatestShown

=============================================================================
