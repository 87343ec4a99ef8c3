----------------------------- MODULE QueryPanel -----------------------------
(***************************************************************************)
(* The result pane of a query tab: QueryPanel.ts.  Run, Explain and the    *)
(* plan diagram share one counter and land in any order; Run's Data tab is *)
(* a spinner in the strip until its answer comes (a lazy tab), the other   *)
(* tabs are added already built.                                           *)
(*                                                                         *)
(* A result is the number of the call that brought it.  One browser event  *)
(* with the microtasks it queues is one step.  The toolbar disables Run    *)
(* and Explain during a call, their shortcuts do not: both may happen at   *)
(* any time.  Every result with rows can be charted.                       *)
(***************************************************************************)
EXTENDS Naturals, Sequences, FiniteSets

CONSTANT Moves          \* bound on the user's actions

ASSUME MovesAssumption == Moves \in Nat

VARIABLES
    pane,               \* the result TabPanel: strip, active tab, slots, shown
    pendingDataTabs,
    export,             \* activeExport
    runSeq,
    buttons,            \* run (and explain), chart, diagram: enabled or not
    calls,              \* requests in flight
    arrived,            \* answers a spinner's factory has yet to look at
    moves

vars == <<pane, pendingDataTabs, export, runSeq, buttons, calls, arrived, moves>>

Kinds == {"Data", "Chart", "Explain", "Diagram"}
Seqs == 1..Moves
Nothing == 0            \* an empty slot
Slot == Seqs \cup {Nothing}

Built(kind, seq) == [kind |-> kind, seq |-> seq, built |-> TRUE]
Spinner(seq) == [kind |-> "Data", seq |-> seq, built |-> FALSE]
Tab == [kind : Kinds, seq : Seqs, built : BOOLEAN]
NoTab == [kind |-> "Data", seq |-> Nothing, built |-> FALSE]
Pane == [strip : Seq(Tab), active : Tab \cup {NoTab}, shown : BOOLEAN, slot : [Kinds -> Slot]]

NoExport == [kind |-> "none", seq |-> Nothing]
Export == {NoExport} \cup [kind : {"rows", "plan"}, seq : Seqs]

Call == [seq : Seqs, kind : {"first run", "re-run", "explain", "diagram", "advice"}]
Outcomes == {"rows", "status", "error"}

InStrip(p) == {p.strip[i] : i \in DOMAIN p.strip}

-----------------------------------------------------------------------------
(* The tab panel.                                                          *)

IndexOf(s, t) == CHOOSE i \in DOMAIN s : s[i] = t

\* The strip without a tab, which is there once or not at all.
Without(s, t) ==
    IF \E i \in DOMAIN s : s[i] = t
    THEN [i \in 1 .. Len(s) - 1 |-> s[IF i < IndexOf(s, t) THEN i ELSE i + 1]]
    ELSE s

Show(p) == [p EXCEPT !.shown = TRUE]

Select(p, t) == [p EXCEPT !.active = t]

\* Tab.closeTab: the left neighbour of a closed active tab is selected, and the
\* pane goes with its last tab.
Drop(p, t) ==
    LET at == IndexOf(p.strip, t)
        rest == Without(p.strip, t)
        neighbour == IF rest = <<>> THEN NoTab ELSE rest[IF at > 1 THEN at - 1 ELSE 1]
    IN  [p EXCEPT !.strip = rest,
                  !.active = IF @ = t THEN neighbour ELSE @,
                  !.shown = @ /\ rest # <<>>]

RemoveTab(p, kind) ==
    IF p.slot[kind] = Nothing THEN p
    ELSE [Drop(p, Built(kind, p.slot[kind])) EXCEPT !.slot[kind] = Nothing]

\* The new tab goes to the end and the old one of its kind away, under a guard
\* that keeps the pane.
SwapTab(p, kind, seq) ==
    [p EXCEPT !.strip = Append(Without(@, Built(kind, p.slot[kind])), Built(kind, seq)),
              !.slot[kind] = seq]

OpenTab(p, kind, seq) == Select(SwapTab(Show(p), kind, seq), Built(kind, seq))

LiveTabCount(p) == Cardinality({k \in Kinds : p.slot[k] # Nothing})

\* syncExportToActiveTab: what the active tab exports, from its own slot.
ExportOf(p) ==
    LET t == p.active
    IN  IF ~t.built \/ p.slot[t.kind] # t.seq \/ t.kind = "Diagram" THEN NoExport
        ELSE [kind |-> IF t.kind = "Explain" THEN "plan" ELSE "rows", seq |-> t.seq]

SetBusy(busy, p) ==
    buttons' = [run |-> ~busy,
                chart |-> ~busy /\ p.slot["Data"] # Nothing,
                diagram |-> ~busy /\ p.slot["Explain"] # Nothing]

-----------------------------------------------------------------------------
Init ==
    /\ pane = [strip |-> <<>>, active |-> NoTab, shown |-> FALSE,
               slot |-> [k \in Kinds |-> Nothing]]
    /\ pendingDataTabs = 0
    /\ export = NoExport
    /\ runSeq = 0
    /\ buttons = [run |-> TRUE, chart |-> FALSE, diagram |-> FALSE]
    /\ calls = {} /\ arrived = {}
    /\ moves = 0

Moved == moves < Moves /\ moves' = moves + 1

\* Every call starts like this: it is the newest, and the buttons go off.
StartCall(kind) ==
    /\ Moved
    /\ runSeq' = runSeq + 1
    /\ calls' = calls \cup {[seq |-> runSeq + 1, kind |-> kind]}
    /\ SetBusy(TRUE, pane)
    /\ UNCHANGED arrived

\* Run without a Data tab: a spinner is appended and selected by its index.
InsertIndex == LiveTabCount(pane) + pendingDataTabs

FirstRun ==
    /\ pane.slot["Data"] = Nothing
    /\ StartCall("first run")
    /\ LET strip == Append(pane.strip, Spinner(runSeq + 1))
           last == Len(strip) - 1
           index == IF InsertIndex < last THEN InsertIndex ELSE last
       IN  pane' = [Show(pane) EXCEPT !.strip = strip, !.active = strip[index + 1]]
    /\ pendingDataTabs' = pendingDataTabs + 1
    /\ UNCHANGED export

\* Run over a Data tab: it is selected and keeps its rows until the answer.
Rerun ==
    /\ pane.slot["Data"] # Nothing
    /\ StartCall("re-run")
    /\ pane' = Select(Show(pane), Built("Data", pane.slot["Data"]))
    /\ export' = ExportOf(pane')
    /\ UNCHANGED pendingDataTabs

RunExplain == StartCall("explain") /\ UNCHANGED <<pane, pendingDataTabs, export>>

ShowDiagram ==
    /\ buttons.diagram /\ pane.slot["Explain"] # Nothing
    /\ StartCall("diagram") /\ UNCHANGED <<pane, pendingDataTabs, export>>

ShowChart ==
    /\ buttons.chart /\ pane.slot["Data"] # Nothing
    /\ Moved
    /\ pane' = OpenTab(pane, "Chart", pane.slot["Data"])
    /\ export' = [kind |-> "rows", seq |-> pane.slot["Data"]]
    /\ UNCHANGED <<pendingDataTabs, runSeq, buttons, calls, arrived>>

\* Selecting a spinner announces nothing until it is built.
SelectTab(t) ==
    /\ pane.shown /\ t \in InStrip(pane) /\ t # pane.active
    /\ Moved
    /\ pane' = Select(pane, t)
    /\ export' = IF t.built THEN ExportOf(pane') ELSE export
    /\ UNCHANGED <<pendingDataTabs, runSeq, buttons, calls, arrived>>

CloseTab(kind) ==
    /\ kind # "Data" /\ pane.shown /\ pane.slot[kind] # Nothing
    /\ Moved
    /\ pane' = RemoveTab(pane, kind)
    /\ export' = ExportOf(pane')
    /\ buttons' = IF kind = "Explain" THEN [buttons EXCEPT !.diagram = FALSE] ELSE buttons
    /\ UNCHANGED <<pendingDataTabs, runSeq, calls, arrived>>

AllRemoved(p) ==
    RemoveTab(RemoveTab(RemoveTab(RemoveTab(p, "Data"), "Chart"), "Diagram"), "Explain")

\* Mutant: the buttons of the call it makes stale stay off.
ClearPanel_KeepsBusy ==
    /\ Moved
    /\ runSeq' = runSeq + 1
    /\ pane' = [AllRemoved(pane) EXCEPT !.shown = FALSE]
    /\ export' = NoExport
    /\ UNCHANGED <<pendingDataTabs, buttons, calls, arrived>>

\* A spinner in the strip survives: no slot knows it.  Its call is stale now.
ClearPanel ==
    /\ Moved
    /\ runSeq' = runSeq + 1
    /\ pane' = [AllRemoved(pane) EXCEPT !.shown = FALSE]
    /\ export' = NoExport
    /\ SetBusy(FALSE, pane')
    /\ UNCHANGED <<pendingDataTabs, calls, arrived>>

-----------------------------------------------------------------------------
(* Answers.                                                                *)

SpinnerBuilds(seq) ==
    LET become(t) == IF t = Spinner(seq) THEN Built("Data", seq) ELSE t
    IN  /\ pane' = [pane EXCEPT !.strip = [i \in DOMAIN @ |-> become(@[i])],
                                !.active = become(@),
                                !.slot["Data"] = seq]
        /\ export' = IF pane.active = Spinner(seq) THEN ExportOf(pane') ELSE export

SpinnerCloses(seq) ==
    /\ pane' = Drop(pane, Spinner(seq))
    /\ export' = ExportOf(pane')

\* Mutant: whatever the newest call is.
SpinnerSettles_Blindly(seq, outcome) ==
    /\ pendingDataTabs' = pendingDataTabs - 1
    /\ IF outcome = "rows" THEN SpinnerBuilds(seq) ELSE SpinnerCloses(seq)

\* The factory of a spinner goes on with its answer: rows of the newest call
\* build the tab, anything else throws and the library closes the spinner.
SpinnerSettles(seq, outcome) ==
    /\ pendingDataTabs' = pendingDataTabs - 1
    /\ IF seq = runSeq /\ outcome = "rows"
       THEN SpinnerBuilds(seq) ELSE SpinnerCloses(seq)

\* Mutant: Export stays pinned to the rows of the old tab.
TabRefreshes_KeepsExport(outcome) ==
    LET swapped == SwapTab(pane, "Data", runSeq)
    IN  /\ pane' = CASE outcome = "rows" -> Select(swapped, Built("Data", runSeq))
                     [] outcome = "status" -> RemoveTab(pane, "Data")
                     [] outcome = "error" -> pane
        /\ UNCHANGED <<export, pendingDataTabs>>

\* The swap or removal of an existing Data tab.  A status removes the tab and
\* leaves the export alone.
TabRefreshes(outcome) ==
    LET old == Built("Data", pane.slot["Data"])
        swapped == SwapTab(pane, "Data", runSeq)
    IN  /\ pane' = CASE outcome = "rows" ->
                            IF pane.active = old
                            THEN Select(swapped, Built("Data", runSeq)) ELSE swapped
                     [] outcome = "status" -> RemoveTab(pane, "Data")
                     [] outcome = "error" -> pane
        /\ export' = IF outcome = "rows" /\ pane.active = old THEN ExportOf(pane') ELSE export
        /\ UNCHANGED pendingDataTabs

\* run()'s own continuation: the newest call gives the buttons back.
CallEnds(c) ==
    /\ calls' = calls \ {c}
    /\ IF c.seq = runSeq THEN SetBusy(FALSE, pane') ELSE UNCHANGED buttons
    /\ UNCHANGED <<runSeq, moves>>

FirstRunLands(c) ==
    /\ c.kind = "first run"
    /\ \E outcome \in Outcomes : SpinnerSettles(c.seq, outcome)
    /\ CallEnds(c)
    /\ UNCHANGED arrived

\* The answer comes before the frame that starts the spinner's factory.
FirstRunLandsEarly(c) ==
    /\ c.kind = "first run"
    /\ \E outcome \in Outcomes : arrived' = arrived \cup {[seq |-> c.seq, outcome |-> outcome]}
    /\ UNCHANGED <<pane, export, pendingDataTabs>>
    /\ CallEnds(c)

FactoryStarts(a) ==
    /\ SpinnerSettles(a.seq, a.outcome)
    /\ arrived' = arrived \ {a}
    /\ buttons' = IF a.seq = runSeq
                  THEN [buttons EXCEPT !.chart = pane'.slot["Data"] # Nothing] ELSE buttons
    /\ UNCHANGED <<runSeq, calls, moves>>

RerunLands(c) ==
    /\ c.kind = "re-run" /\ c.seq = runSeq
    /\ \E outcome \in Outcomes : TabRefreshes(outcome)
    /\ CallEnds(c)
    /\ UNCHANGED arrived

\* Explain's plan, or the diagram of one; a rejection and an empty plan leave
\* the pane as it is.
PlanLands(c, kind) ==
    /\ c.seq = runSeq
    /\ \/ /\ pane' = OpenTab(pane, kind, c.seq)
          /\ export' = ExportOf(pane')
       \/ UNCHANGED <<pane, export>>
    /\ CallEnds(c)
    /\ UNCHANGED <<pendingDataTabs, arrived>>

ExplainLands(c) == c.kind = "explain" /\ PlanLands(c, "Explain")
DiagramLands(c) == c.kind \in {"diagram", "advice"} /\ PlanLands(c, "Diagram")

\* The plan tree is there; the index advisor asks for table structures first.
AskAdvice(c) ==
    /\ c.kind = "diagram" /\ c.seq = runSeq
    /\ calls' = (calls \ {c}) \cup {[c EXCEPT !.kind = "advice"]}
    /\ UNCHANGED <<pane, pendingDataTabs, export, runSeq, buttons, arrived, moves>>

StaleLands(c) ==
    /\ c.kind # "first run" /\ c.seq # runSeq
    /\ CallEnds(c)
    /\ UNCHANGED <<pane, pendingDataTabs, export, arrived>>

Land(c) ==
    \/ FirstRunLands(c) \/ FirstRunLandsEarly(c)
    \/ RerunLands(c) \/ ExplainLands(c) \/ DiagramLands(c) \/ AskAdvice(c)
    \/ StaleLands(c)

-----------------------------------------------------------------------------
User ==
    \/ FirstRun \/ Rerun \/ RunExplain \/ ShowDiagram \/ ShowChart \/ ClearPanel
    \/ \E t \in Tab : SelectTab(t)
    \/ \E kind \in Kinds : CloseTab(kind)

Browser ==
    \/ \E c \in calls : Land(c)
    \/ \E a \in arrived : FactoryStarts(a)

Next == User \/ Browser

\* Every fetch settles and every frame comes.
Fairness == WF_vars(Browser)

Spec == Init /\ [][Next]_vars /\ Fairness

-----------------------------------------------------------------------------
(* Properties.                                                             *)

\* The types of the variables.
TypeOK ==
    /\ pane \in Pane
    /\ pendingDataTabs \in Nat
    /\ export \in Export
    /\ runSeq \in 0..Moves /\ moves \in 0..Moves
    /\ buttons \in [run : BOOLEAN, chart : BOOLEAN, diagram : BOOLEAN]
    /\ calls \subseteq Call
    /\ arrived \subseteq [seq : Seqs, outcome : Outcomes]

\* Export is what the tab on screen shows; only the rows of a Data tab that a
\* status has removed may be offered in its place (see the README).
ExportFollowsTab ==
    pane.active.built =>
        \/ export = ExportOf(pane)
        \/ export.kind = "rows" /\ pane.slot["Data"] = Nothing

\* The answer of a superseded or cleared call changes no result, no button and
\* nothing Export offers but by a change of the active tab.
StaleAnswersIgnored ==
    [][LET stale == \/ \E c \in calls \ calls' : c.seq # runSeq
                    \/ \E a \in arrived \ arrived' : a.seq # runSeq
       IN  stale => /\ pane'.slot = pane.slot /\ buttons' = buttons
                    /\ export' # export => export' = ExportOf(pane')
                    /\ pane.active.built => pane'.active = pane.active]_vars

\* Once the user stops, the buttons come back, no spinner is left, and the pane
\* is there if and only if it has a tab.
ComesToRest ==
    <>[](buttons.run /\ pendingDataTabs = 0 /\ (pane.shown <=> pane.strip # <<>>))

=============================================================================
