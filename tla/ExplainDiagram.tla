--------------------------- MODULE ExplainDiagram ---------------------------
(***************************************************************************)
(* The Explain diagram, from the statement to the tab: the calls that      *)
(* fetch the plan (StatementCalls), the advisor's suggestions              *)
(* (IndexAdvisor), and the three views of the plan that follow each        *)
(* other's selection (dock/ExplainDiagramPanel.ts): its tree, its diagram  *)
(* (data/buildExplainDiagram.ts) and its flat steps                        *)
(* (data/buildPlanSteps.ts).  One diagram is opened; one that replaces an  *)
(* older is the matter of QueryPanel.                                      *)
(*                                                                         *)
(* External: the library's views.  A click selects a row and tells; the    *)
(* tree's and the diagram's selectNode do not tell, the table's            *)
(* selectRecord does, which the flag `syncing` of the code drops;          *)
(* selectNode does nothing on a tree row that a folded one hides; folding  *)
(* leaves the selection; a click beside the cards clears the diagram's.    *)
(***************************************************************************)
EXTENDS IndexAdvisor, StatementCalls

CONSTANT PlansOf        \* text -> the plans Postgres may make for it

ASSUME PlansAssumption ==
    \A s \in Statements : s.text \in DOMAIN PlansOf /\ \A raw \in PlansOf[s.text] : IsPlanJson(raw)

ASSUME DraftsAssumption == \A draft \in Drafts : draft.statement \in Statements

VARIABLES
    views,      \* the node selected in each view: [tree, diagram, steps]
    folded      \* the tree rows folded

view_vars == <<views, folded>>
explain_vars == <<advisor_vars, statement_vars, view_vars>>

NoId == <<>>
Unselected == [tree |-> NoId, diagram |-> NoId, steps |-> NoId]

\* ------------------------------------------------------- the plan, thrice
DiagramOf(p) == [nodes |-> DOMAIN p, edges |-> {<<Front(id), id>> : id \in {x \in DOMAIN p : Len(x) > 1}}]

PlanStepsRows(p) == PlanOrder(p)

TreeNodeById(p) == DOMAIN p

Parents(p) == {edge[1] : edge \in DiagramOf(p).edges}

Visible(id) == \A i \in 1..(Len(id) - 1) : SubSeq(id, 1, i) \notin folded

\* ------------------------------------------------------------- selections
SelectInDiagram(v, id) == IF id \in DiagramOf(plan).nodes THEN [v EXCEPT !.diagram = id] ELSE v

SelectInTree(v, id) == IF id \in TreeNodeById(plan) /\ Visible(id) THEN [v EXCEPT !.tree = id] ELSE v

\* Found by its hidden id, whatever the order of the rows.
SelectInSteps(v, id) == IF id \in ToSet(PlanStepsRows(plan)) THEN [v EXCEPT !.steps = id] ELSE v

\* Mutant of ClickTree: it leads the diagram only.
ClickTree_DiagramOnly(id) ==
    /\ Visible(id)
    /\ views' = SelectInDiagram([views EXCEPT !.tree = id], id)

ClickTree(id) ==
    /\ Visible(id)
    /\ views' = SelectInSteps(SelectInDiagram([views EXCEPT !.tree = id], id), id)

ClickDiagram(id) == views' = SelectInSteps(SelectInTree([views EXCEPT !.diagram = id], id), id)

\* An empty selection leads nothing.
ClearDiagram == views.diagram # NoId /\ views' = [views EXCEPT !.diagram = NoId]

ClickStep(id) == views' = SelectInTree(SelectInDiagram([views EXCEPT !.steps = id], id), id)

Fold(id) ==
    /\ folded' = IF id \in folded THEN folded \ {id} ELSE folded \cup {id}
    /\ UNCHANGED views

\* Bounds: the views are used where every structure came, and before the strip.
ViewsNext ==
    /\ phase = "shown" /\ dialog = <<>> /\ \A r \in DOMAIN loads : loads[r] = "ok"
    /\ UNCHANGED <<advisor_vars, statement_vars>>
    /\ \/ UNCHANGED folded /\ \/ \E id \in DOMAIN plan : ClickTree(id) \/ ClickDiagram(id) \/ ClickStep(id)
                              \/ ClearDiagram
       \/ \E id \in Parents(plan) : Fold(id)

\* ------------------------------------------------------------- composition
Measured(p) == \E id \in DOMAIN p : p[id].actualRows # Absent

\* The plans to come, by text and by ANALYZE, parsed.
PlansFor ==
    [t \in DOMAIN PlansOf |->
        [analyze \in BOOLEAN |-> {p \in {ParseExplainPlan(raw) : raw \in PlansOf[t]} :
                                    p = <<>> \/ (Measured(p) <=> analyze)}]]

InitExplain ==
    /\ InitStatements /\ InitAdvisor
    /\ views = Unselected /\ folded = {}

\* A tree fetched for the diagram goes on to the advisor.
CallLands ==
    /\ CallEnds
    /\ UNCHANGED view_vars
    /\ IF answer'.kind = "diagram"
       THEN \E p \in PlansFor[call.statement.text][call.analyze] : PlanLands(p)
       ELSE UNCHANGED advisor_vars

\* Bound: once a tree came the statement rests.
ExplainNext ==
    \/ phase = "idle" /\ StatementsNext /\ UNCHANGED <<advisor_vars, view_vars>>
    \/ CallLands
    \/ views = Unselected /\ AdvisorNext /\ UNCHANGED <<statement_vars, view_vars>>
    \/ ViewsNext

ExplainSpec == InitExplain /\ [][ExplainNext]_explain_vars

\* -------------------------------------------------------------- properties
(***************************************************************************)
(* The three views point to one node: after a click in any of them, or a   *)
(* row found for it, the diagram and the steps agree, and the tree with    *)
(* them unless a folded row hides the node (ExplainDiagramPanel.ts, the    *)
(* three-way cross-selection).                                             *)
(***************************************************************************)
SelectionAgrees ==
    [][views' # views /\ views'.diagram # NoId =>
          /\ views'.steps = views'.diagram
          /\ Visible(views'.diagram) => views'.tree = views'.diagram]_explain_vars
=============================================================================
