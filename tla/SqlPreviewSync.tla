--------------------------- MODULE SqlPreviewSync ---------------------------
(***************************************************************************)
(* The DDL preview dialog: dock/sqlPreviewSync.ts, which keeps the SQL     *)
(* editor in step with the form above it, and the Execute guard and the    *)
(* life of the dialog in dock/SqlPreviewDialog.ts.                         *)
(*                                                                         *)
(* One action is one run of the browser's event loop: an event of the user *)
(* or of the timer, or the landing of a generation request with everything *)
(* its continuation does.  A text is a model value; texts that differ in   *)
(* line breaks only are one text (sameSql).                                *)
(***************************************************************************)
EXTENDS Naturals

CONSTANTS
    Forms,       \* states the form can be in
    Texts,       \* editor texts
    Sql,         \* Sql[f]: what generateSql answers for form state f
    Empty,       \* the empty text
    Typed,       \* texts a user writes by hand
    Moves        \* bound: form edits and clicks in a session

ASSUME TextAssumption ==
    /\ Sql \in [Forms -> Texts]
    /\ Empty \in Texts
    /\ Typed \subseteq Texts \ ({Empty} \union {Sql[f] : f \in Forms})
ASSUME MovesAssumption == Moves \in Nat

VARIABLES
    form,             \* the form's state
    editor,           \* the editor's text
    generated,        \* _generatedSql
    lastFailed,       \* _lastFailed
    seq,              \* _requestSeq; also which promise _inFlight is
    pending,          \* the requests whose answer has not come
    regenerating,     \* _regenerateSeq, 0 for null
    held,             \* _heldFormChange
    editorAtRequest,  \* _editorAtRequest
    timer,            \* is the debounce timer set?
    disposed,         \* _disposed
    exec,             \* tryExecute: idle, settling, running, done
    awaited,          \* the request settle awaits, 0 for null
    moves,            \* form edits and clicks left
    undone            \* observed: since the form was last read, the user has
                      \* edited the text back to the generated one

vars == <<form, editor, generated, lastFailed, seq, pending, regenerating,
          held, editorAtRequest, timer, disposed, exec, awaited, moves,
          undone>>

Triggers == {"open", "formChange", "button"}
Request == [id : Nat, trigger : Triggers, form : Forms]

TypeOK ==
    /\ form \in Forms
    /\ editor \in Texts
    /\ generated \in Texts
    /\ lastFailed \in BOOLEAN
    /\ seq \in Nat
    /\ pending \in SUBSET Request
    /\ \A r \in pending : r.id \in 1 .. seq
    /\ regenerating \in 0 .. seq
    /\ held \in BOOLEAN
    /\ editorAtRequest \in Texts
    /\ timer \in BOOLEAN
    /\ disposed \in BOOLEAN
    /\ exec \in {"idle", "settling", "running", "done"}
    /\ awaited \in 0 .. seq
    /\ moves \in 0 .. Moves
    /\ undone \in BOOLEAN

\* runSqlPreviewDialog builds an empty editor and calls regenerate("open").
Init ==
    /\ form \in Forms
    /\ editor = Empty
    /\ generated = Empty
    /\ lastFailed = FALSE
    /\ seq = 1
    /\ pending = {[id |-> 1, trigger |-> "open", form |-> form]}
    /\ regenerating = 1
    /\ held = FALSE
    /\ editorAtRequest = Empty
    /\ timer = FALSE
    /\ disposed = FALSE
    /\ exec = "idle"
    /\ awaited = 0
    /\ moves = Moves
    /\ undone = FALSE

-----------------------------------------------------------------------------

\* followsForm
Follows == editor = generated

InFlight(id) == \E r \in pending : r.id = id

\* The dialog is shown when the first generation has landed; until then, and
\* once it closes, the user can do nothing in it.
Interactive == ~disposed /\ \A r \in pending : r.trigger # "open"

Spend == moves > 0 /\ moves' = moves - 1

\* startRequest, by a caller that leaves `others` in flight.
StartRequest(trigger, others) ==
    /\ seq' = seq + 1
    /\ held' = FALSE
    /\ undone' = FALSE
    /\ regenerating' = IF trigger = "formChange" THEN 0 ELSE seq + 1
    /\ editorAtRequest' = editor'
    /\ pending' = others \union {[id |-> seq + 1, trigger |-> trigger, form |-> form]}

NoRequest ==
    UNCHANGED <<seq, pending, regenerating, held, editorAtRequest, undone>>

-----------------------------------------------------------------------------
(* The user.                                                               *)

\* A field of the form changes: formChanged.
ChangeForm(f) ==
    /\ Interactive
    /\ Spend
    /\ f # form
    /\ form' = f
    /\ held' = (held \/ regenerating # 0)
    /\ timer' = (timer \/ Follows)
    /\ UNCHANGED <<editor, generated, lastFailed, seq, pending, regenerating,
                   editorAtRequest, disposed, exec, awaited, undone>>

\* The user types in the editor, or edits it back to the generated text.
Type(text) ==
    /\ Interactive
    /\ text \in Typed \union {generated}
    /\ editor' = text
    /\ undone' = (undone \/ (~Follows /\ text = generated))
    /\ UNCHANGED <<form, generated, lastFailed, seq, pending, regenerating,
                   held, editorAtRequest, timer, disposed, exec, awaited, moves>>

\* "Regenerate SQL", enabled only while the editor does not follow.
ClickRegenerate ==
    /\ Interactive
    /\ ~Follows
    /\ Spend
    /\ timer' = FALSE
    /\ UNCHANGED <<form, editor, generated, lastFailed, disposed, exec, awaited>>
    /\ StartRequest("button", pending)

\* Cancel, Escape, backdrop or title bar: hide, hence dispose.
Close ==
    /\ Interactive
    /\ disposed' = TRUE
    /\ timer' = FALSE
    /\ UNCHANGED <<form, editor, generated, lastFailed, exec, awaited, moves>>
    /\ NoRequest

-----------------------------------------------------------------------------
(* The timer and the requests.                                             *)

FireTimer ==
    /\ timer
    /\ timer' = FALSE
    /\ UNCHANGED <<form, editor, generated, lastFailed, disposed, exec,
                   awaited, moves>>
    /\ \/ Follows /\ StartRequest("formChange", pending)
       \/ ~Follows /\ NoRequest

IsApplicable_Overwrites(r) == ~disposed /\ r.id = seq

IsApplicable(r) ==
    /\ ~disposed
    /\ r.id = seq
    /\ r.trigger = "formChange" => Follows

EditedSinceClick(r) == r.trigger = "button" /\ editor # editorAtRequest

ReleaseHeld_Forgets(r) ==
    /\ pending' = pending \ {r}
    /\ regenerating' = IF regenerating = r.id THEN 0 ELSE regenerating
    /\ held' = (held /\ regenerating # r.id)
    /\ UNCHANGED <<seq, editorAtRequest, timer, undone>>

\* releaseHeldFormChange, after the result has been applied or dropped.
ReleaseHeld(r) ==
    LET others == pending \ {r}
        again  == ~disposed /\ held /\ editor' = generated'
    IN  \/ /\ regenerating # r.id
           /\ pending' = others
           /\ UNCHANGED <<seq, regenerating, held, editorAtRequest, timer,
                          undone>>
        \/ /\ regenerating = r.id /\ ~again
           /\ pending' = others
           /\ regenerating' = 0
           /\ held' = FALSE
           /\ UNCHANGED <<seq, editorAtRequest, timer, undone>>
        \/ /\ regenerating = r.id /\ again
           /\ timer' = FALSE
           /\ StartRequest("formChange", others)

\* The generation succeeded: applySuccess.
LandSuccess(r) ==
    /\ r \in pending
    /\ \/ /\ IsApplicable(r) /\ ~EditedSinceClick(r)
          /\ generated' = Sql[r.form]
          /\ editor' = Sql[r.form]
          /\ lastFailed' = FALSE
       \/ /\ ~IsApplicable(r) \/ EditedSinceClick(r)
          /\ UNCHANGED <<generated, editor, lastFailed>>
    /\ UNCHANGED <<form, disposed, exec, awaited, moves>>
    /\ ReleaseHeld(r)

\* It failed: applyFailure clears a following editor and keeps a hand edit.
LandFailure(r) ==
    /\ r \in pending
    /\ \/ /\ IsApplicable(r)
          /\ \/ Follows /\ generated' = Empty /\ editor' = Empty
             \/ ~Follows /\ UNCHANGED <<generated, editor>>
          /\ lastFailed' = TRUE
       \/ /\ ~IsApplicable(r)
          /\ UNCHANGED <<generated, editor, lastFailed>>
    /\ UNCHANGED <<form, disposed, exec, awaited, moves>>
    /\ ReleaseHeld(r)

-----------------------------------------------------------------------------
(* Execute.                                                                *)

\* One turn of settle's loop: flushTimer, then await what is in flight.
FlushAndAwait ==
    /\ exec' = "settling"
    /\ timer' = FALSE
    /\ UNCHANGED <<form, editor, generated, lastFailed, disposed>>
    /\ \/ timer /\ StartRequest("formChange", pending)
       \/ ~timer /\ NoRequest
    /\ awaited' = seq'

ClickExecute ==
    /\ Interactive
    /\ exec = "idle"
    /\ Spend
    /\ FlushAndAwait

Settled == exec = "settling" /\ ~InFlight(awaited)

\* The dialog closed while settle waited.
SettleClosed ==
    /\ Settled
    /\ disposed
    /\ exec' = "done"
    /\ UNCHANGED <<form, editor, generated, lastFailed, timer, disposed,
                   awaited, moves>>
    /\ NoRequest

SettleAgain ==
    /\ Settled
    /\ ~disposed
    /\ timer \/ seq # awaited
    /\ FlushAndAwait
    /\ UNCHANGED moves

SettleDone_FirstAnswer ==
    /\ Settled
    /\ ~disposed
    /\ exec' = IF lastFailed /\ Follows THEN "idle" ELSE "running"
    /\ UNCHANGED <<form, editor, generated, lastFailed, timer, disposed,
                   awaited, moves>>
    /\ NoRequest

\* settle is through: it vetoes a failed preview that follows the form, else
\* tryExecute runs the editor's text.
SettleDone ==
    /\ Settled
    /\ ~disposed
    /\ ~timer
    /\ seq = awaited
    /\ exec' = IF lastFailed /\ Follows THEN "idle" ELSE "running"
    /\ UNCHANGED <<form, editor, generated, lastFailed, timer, disposed,
                   awaited, moves>>
    /\ NoRequest

\* The statement ran and the dialog closes, or it failed and the dialog stays.
ExecuteEnds ==
    /\ exec = "running"
    /\ \/ /\ exec' = "done"
          /\ disposed' = TRUE
          /\ timer' = FALSE
       \/ /\ exec' = "idle"
          /\ UNCHANGED <<disposed, timer>>
    /\ UNCHANGED <<form, editor, generated, lastFailed, awaited, moves>>
    /\ NoRequest

-----------------------------------------------------------------------------

Land == \E r \in pending : LandSuccess(r) \/ LandFailure(r)

Settle == SettleClosed \/ SettleAgain \/ SettleDone

Next ==
    \/ \E f \in Forms : ChangeForm(f)
    \/ \E text \in Texts : Type(text)
    \/ ClickRegenerate
    \/ Close
    \/ FireTimer
    \/ Land
    \/ ClickExecute
    \/ Settle
    \/ ExecuteEnds

\* Timers fire, requests are answered in any order, continuations run; the
\* user owes nothing.
Fairness == WF_vars(FireTimer) /\ WF_vars(Land) /\ WF_vars(Settle)

Spec == Init /\ [][Next]_vars /\ Fairness

-----------------------------------------------------------------------------
(* Properties.                                                             *)

\* When nothing is under way, a preview that follows the form and did not fail
\* shows the SQL of the form as it is now, whatever order the answers came in.
\* Exempted: a text the user edited back to the generated one.  formChanged
\* drops what the form did while the text was the user's (sqlPreviewSync.ts
\* 142-146), and nothing reads the form again when the text follows once more.
PreviewCurrent ==
    Follows /\ ~undone /\ ~disposed /\ ~lastFailed /\ ~timer /\ ~InFlight(seq)
        => editor = Sql[form]

\* What Execute runs is the form's latest state or the user's own text
\* (settle: "so the SQL that runs matches the form's latest state"; onSuccess
\* takes sqlEdited = FALSE to mean the form describes what ran).  Exempted,
\* against that line of settle: a text edited back to the generated one, which
\* Execute takes for the form's although the form has moved on.
ExecutedMatchesForm ==
    [][exec # "running" /\ exec' = "running" /\ Follows /\ ~undone
           => editor = Sql[form]]_vars

\* A text typed by hand is replaced only by the answer to a Regenerate that
\* was clicked on that very text.
HandEditKept ==
    [][~Follows /\ editor' # editor /\ pending' # pending =>
          \E r \in pending \ pending' :
              r.id = seq /\ r.trigger = "button" /\ editorAtRequest = editor]_vars

\* Once the dialog is closing nothing writes the editor, starts a generation
\* or an execution, or leaves a timer behind.
ClosedIsInert ==
    [][disposed => /\ editor' = editor
                   /\ seq' = seq
                   /\ ~timer'
                   /\ exec' = "running" => exec = "running"]_vars

=============================================================================
