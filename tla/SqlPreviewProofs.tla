-------------------------- MODULE SqlPreviewProofs --------------------------
(***************************************************************************)
(* Theorems about SqlPreviewSync, for any forms, texts and number of moves *)
(* of a user who may also edit the text back to the generated one: until   *)
(* then the preview catches up with the form and Execute runs what the     *)
(* form says; a hand edit survives and a closed dialog does nothing.       *)
(***************************************************************************)
EXTENDS SqlPreviewSync, TLAPS

-----------------------------------------------------------------------------
(* The inductive invariant.                                                *)

\* A request is answered once.
IdsUnique == \A r1, r2 \in pending : r1.id = r2.id => r1 = r2

\* A Regenerate under way is the newest request, and only then is a form
\* change held for it.
RegenerateNewest ==
    /\ regenerating # 0 =>
           /\ regenerating = seq
           /\ \E r \in pending : r.id = seq /\ r.trigger # "formChange"
    /\ held => regenerating # 0

\* The newest request asks for the form as it is, or something will ask again:
\* the held change, the timer, or nobody, because the user took the text over
\* (and may have undone it since).
NewestCurrent ==
    \A r \in pending : r.id = seq =>
        /\ r.trigger # "formChange" => regenerating = seq /\ (r.form = form \/ held)
        /\ r.trigger = "formChange" => r.form = form \/ timer \/ ~Follows \/ disposed \/ undone
        /\ r.trigger = "button" => ~Follows \/ undone
        /\ r.trigger = "open" => Follows

\* What the editor follows was generated, so a hand edit does not follow.
GeneratedText == generated \in {Empty} \union {Sql[f] : f \in Forms}

Current ==
    Follows /\ ~disposed /\ ~lastFailed /\ ~InFlight(seq)
        => timer \/ undone \/ editor = Sql[form]

NoTimerClosed == disposed => ~timer

Consistent ==
    /\ TypeOK
    /\ IdsUnique
    /\ RegenerateNewest
    /\ NewestCurrent
    /\ GeneratedText
    /\ Current
    /\ NoTimerClosed


LEMMA StartRequestKeeps ==
  ASSUME TypeOK, IdsUnique,
         NEW trigger \in Triggers, NEW others \in SUBSET pending,
         form' = form, editor' \in Texts,
         StartRequest(trigger, others)
  PROVE  /\ seq' = seq + 1 /\ seq' \in Nat
         /\ pending' \in SUBSET Request
         /\ \A r \in pending' : r.id \in 1 .. seq'
         /\ regenerating' \in 0 .. seq'
         /\ held' = FALSE
         /\ editorAtRequest' \in Texts
         /\ undone' = FALSE
         /\ IdsUnique'
         /\ \A r \in pending' : r.id = seq' => r.trigger = trigger /\ r.form = form'
         /\ InFlight(seq)'
         /\ \E r \in pending' : r.id = seq' /\ r.trigger = trigger
<1> DEFINE new == [id |-> seq + 1, trigger |-> trigger, form |-> form]
<1>1. seq \in Nat /\ seq' = seq + 1 /\ seq' \in Nat /\ held' = FALSE /\ undone' = FALSE
  BY DEF TypeOK, StartRequest
<1>2. new \in Request
  BY DEF TypeOK, Request
<1>3. pending' = others \union {new}
  BY DEF StartRequest
<1>4. \A r \in others : r \in Request /\ r.id \in 1 .. seq
  BY DEF TypeOK
<1>5. pending' \in SUBSET Request /\ \A r \in pending' : r.id \in 1 .. seq'
  <2>1. pending' \in SUBSET Request
    BY <1>2, <1>3, <1>4
  <2>2. \A r \in pending' : r.id \in 1 .. seq'
    BY <1>1, <1>3, <1>4
  <2> QED BY <2>1, <2>2
<1>6. regenerating' \in 0 .. seq' /\ editorAtRequest' \in Texts
  BY <1>1 DEF TypeOK, StartRequest
<1>7. IdsUnique'
  BY <1>1, <1>3, <1>4 DEF IdsUnique
<1>8. \A r \in pending' : r.id = seq' => r.trigger = trigger /\ r.form = form'
  BY <1>1, <1>3, <1>4
<1>9. new \in pending' /\ new.id = seq' /\ new.trigger = trigger
  BY <1>1, <1>3
<1> QED
  BY <1>1, <1>5, <1>6, <1>7, <1>8, <1>9 DEF InFlight

\* Asking for the form as it is now leaves nothing for anyone else to ask.
LEMMA FormChangeAsked ==
  ASSUME Consistent, NEW others \in SUBSET pending,
         form' = form, editor' \in Texts,
         StartRequest("formChange", others)
  PROVE  /\ seq' = seq + 1 /\ seq' \in Nat
         /\ pending' \in SUBSET Request
         /\ \A r \in pending' : r.id \in 1 .. seq'
         /\ regenerating' \in 0 .. seq'
         /\ held' \in BOOLEAN
         /\ editorAtRequest' \in Texts
         /\ undone' \in BOOLEAN
         /\ IdsUnique'
         /\ RegenerateNewest'
         /\ NewestCurrent'
         /\ Current'
<1>1. TypeOK /\ IdsUnique /\ "formChange" \in Triggers
  BY DEF Consistent, Triggers
<1>2. regenerating' = 0
  BY DEF StartRequest
<1>3. RegenerateNewest'
  BY <1>1, <1>2, StartRequestKeeps DEF RegenerateNewest
<1>4. NewestCurrent'
  BY <1>1, StartRequestKeeps DEF NewestCurrent
<1>5. Current'
  BY <1>1, StartRequestKeeps DEF Current
<1> QED
  BY <1>1, <1>3, <1>4, <1>5, StartRequestKeeps

LEMMA FlushAndAwaitKeeps ==
  ASSUME Consistent, FlushAndAwait, moves' \in 0 .. Moves
  PROVE  Consistent'
<1> USE DEF FlushAndAwait
<1>1. CASE timer
  <2>1. StartRequest("formChange", pending) /\ pending \in SUBSET pending
        /\ form' = form /\ editor' \in Texts
    BY <1>1 DEF Consistent, TypeOK
  <2>2. TypeOK'
    <3>1. seq' \in Nat /\ awaited' \in 0 .. seq'
      BY <2>1, FormChangeAsked
    <3> QED
      BY <2>1, <3>1, FormChangeAsked DEF Consistent, TypeOK
  <2>3. IdsUnique' /\ RegenerateNewest' /\ NewestCurrent' /\ Current'
    BY <2>1, FormChangeAsked
  <2>4. GeneratedText' /\ NoTimerClosed'
    BY DEF Consistent, GeneratedText, NoTimerClosed
  <2> QED
    BY <2>2, <2>3, <2>4 DEF Consistent
<1>2. CASE ~timer
  <2> USE <1>2 DEF Consistent, NoRequest
  <2>1. TypeOK'
    <3>1. seq \in Nat /\ awaited' \in 0 .. seq'
      BY DEF TypeOK
    <3> QED
      BY <3>1 DEF TypeOK
  <2>2. IdsUnique' /\ RegenerateNewest' /\ NewestCurrent'
    BY DEF IdsUnique, RegenerateNewest, NewestCurrent, Follows
  <2>3. GeneratedText' /\ Current' /\ NoTimerClosed'
    BY DEF GeneratedText, Current, NoTimerClosed, Follows, InFlight
  <2> QED
    BY <2>1, <2>2, <2>3
<1> QED
  BY <1>1, <1>2

LEMMA ReleaseHeldKeeps ==
  ASSUME Consistent, NEW r \in pending, ReleaseHeld(r),
         form' = form, editor' \in Texts, disposed' = disposed
  PROVE  /\ seq' \in Nat /\ seq <= seq'
         /\ pending' \in SUBSET Request
         /\ \A q \in pending' : q.id \in 1 .. seq'
         /\ regenerating' \in 0 .. seq'
         /\ held' \in BOOLEAN
         /\ editorAtRequest' \in Texts
         /\ timer' \in BOOLEAN
         /\ undone' \in BOOLEAN
         /\ IdsUnique'
         /\ RegenerateNewest'
         /\ NoTimerClosed'
<1> DEFINE others == pending \ {r}
<1>1. CASE regenerating # r.id
  <2>1. pending' = others
        /\ UNCHANGED <<seq, regenerating, held, editorAtRequest, timer, undone>>
    BY <1>1 DEF ReleaseHeld
  <2>2. RegenerateNewest'
    BY <1>1, <2>1 DEF Consistent, RegenerateNewest
  <2>3. IdsUnique' /\ NoTimerClosed'
    BY <2>1 DEF Consistent, IdsUnique, NoTimerClosed
  <2> QED
    BY <2>1, <2>2, <2>3 DEF Consistent, TypeOK
<1>2. CASE /\ pending' = others /\ regenerating' = 0 /\ held' = FALSE
           /\ UNCHANGED <<seq, editorAtRequest, timer, undone>>
  <2>1. IdsUnique' /\ RegenerateNewest' /\ NoTimerClosed'
    BY <1>2 DEF Consistent, IdsUnique, RegenerateNewest, NoTimerClosed
  <2>2. seq' \in Nat /\ seq <= seq' /\ regenerating' \in 0 .. seq'
    BY <1>2 DEF Consistent, TypeOK
  <2>3. pending' \in SUBSET Request /\ \A q \in pending' : q.id \in 1 .. seq'
    BY <1>2 DEF Consistent, TypeOK
  <2> QED
    BY <1>2, <2>1, <2>2, <2>3 DEF Consistent, TypeOK
<1>3. CASE timer' = FALSE /\ StartRequest("formChange", others)
  <2>1. others \in SUBSET pending
    OBVIOUS
  <2>2. seq' = seq + 1 /\ seq \in Nat
    BY <1>3, <2>1, FormChangeAsked DEF Consistent, TypeOK
  <2>3. NoTimerClosed' /\ timer' \in BOOLEAN
    BY <1>3 DEF NoTimerClosed
  <2> QED
    BY <1>3, <2>1, <2>2, <2>3, FormChangeAsked
<1> QED
  BY <1>1, <1>2, <1>3 DEF ReleaseHeld

-----------------------------------------------------------------------------
(* Every action preserves it.                                              *)

LEMMA InitConsistent == Init => Consistent
<1> SUFFICES ASSUME Init PROVE Consistent
  OBVIOUS
<1> USE TextAssumption, MovesAssumption DEF Init
<1>1. TypeOK
  <2>1. [id |-> 1, trigger |-> "open", form |-> form] \in Request
    BY DEF Request, Triggers
  <2>2. pending \in SUBSET Request /\ \A r \in pending : r.id \in 1 .. seq
    BY <2>1
  <2>3. seq \in Nat /\ regenerating \in 0 .. seq /\ awaited \in 0 .. seq
        /\ moves \in 0 .. Moves
    OBVIOUS
  <2> QED
    BY <2>2, <2>3 DEF TypeOK
<1>2. IdsUnique /\ RegenerateNewest /\ NewestCurrent
  BY DEF IdsUnique, RegenerateNewest, NewestCurrent, Follows
<1>3. GeneratedText /\ Current /\ NoTimerClosed
  BY DEF GeneratedText, Current, NoTimerClosed, InFlight
<1> QED
  BY <1>1, <1>2, <1>3 DEF Consistent

LEMMA ChangeFormKeeps ==
  ASSUME Consistent, NEW f \in Forms, ChangeForm(f)
  PROVE  Consistent'
<1> USE DEF ChangeForm, Consistent
<1>1. TypeOK'
  BY MovesAssumption DEF TypeOK, Spend
<1>2. IdsUnique' /\ RegenerateNewest' /\ NoTimerClosed'
  BY DEF IdsUnique, RegenerateNewest, NoTimerClosed, Interactive
<1>3. NewestCurrent'
  <2> SUFFICES ASSUME NEW r \in pending, r.id = seq
               PROVE  /\ r.trigger # "formChange" =>
                             regenerating = seq /\ (r.form = f \/ held')
                      /\ r.trigger = "formChange" =>
                             r.form = f \/ timer' \/ ~Follows \/ disposed
                      /\ r.trigger = "button" => ~Follows \/ undone
                      /\ r.trigger = "open" => Follows
    BY DEF NewestCurrent, Follows
  <2>1. /\ r.trigger # "formChange" => regenerating = seq
        /\ r.trigger = "button" => ~Follows \/ undone
        /\ r.trigger = "open" => Follows
    BY DEF NewestCurrent
  <2>2. regenerating = seq => held'
    <3>1. seq # 0
      BY DEF TypeOK
    <3> QED
      BY <3>1
  <2>3. Follows => timer'
    OBVIOUS
  <2> QED
    BY <2>1, <2>2, <2>3
<1>4. GeneratedText' /\ Current'
  BY DEF GeneratedText, Current, Follows, InFlight
<1> QED
  BY <1>1, <1>2, <1>3, <1>4

LEMMA TypeKeeps ==
  ASSUME Consistent, NEW text \in Texts, Type(text)
  PROVE  Consistent'
<1> USE DEF Type, Consistent
<1>1. TypeOK' /\ IdsUnique' /\ RegenerateNewest'
  BY DEF TypeOK, IdsUnique, RegenerateNewest
<1>2. GeneratedText' /\ NoTimerClosed'
  BY DEF GeneratedText, NoTimerClosed, Interactive
<1>3. Follows' => Follows \/ undone'
  BY DEF Follows
<1>4. NewestCurrent' /\ Current'
  BY <1>3 DEF NewestCurrent, Current, Follows, Interactive, InFlight
<1> QED
  BY <1>1, <1>2, <1>4

LEMMA ClickRegenerateKeeps ==
  ASSUME Consistent, ClickRegenerate
  PROVE  Consistent'
<1> USE DEF ClickRegenerate
<1>1. /\ TypeOK /\ IdsUnique /\ "button" \in Triggers
      /\ pending \in SUBSET pending /\ form' = form /\ editor' \in Texts
      /\ StartRequest("button", pending)
  BY DEF Consistent, Triggers, TypeOK
<1>2. TypeOK'
  <2>1. seq' = seq + 1
    BY <1>1, StartRequestKeeps
  <2>2. awaited' \in 0 .. seq'
    BY <1>1, <2>1 DEF TypeOK
  <2>3. moves' \in 0 .. Moves
    BY <1>1, MovesAssumption DEF TypeOK, Spend
  <2> QED
    BY <1>1, <2>2, <2>3, StartRequestKeeps DEF TypeOK
<1>3. regenerating' = seq'
  BY DEF StartRequest
<1>4. RegenerateNewest'
  BY <1>1, <1>3, StartRequestKeeps DEF RegenerateNewest
<1>5. ~Follows'
  BY DEF Follows
<1>6. NewestCurrent'
  BY <1>1, <1>3, <1>5, StartRequestKeeps DEF NewestCurrent
<1>7. GeneratedText' /\ Current' /\ NoTimerClosed'
  BY <1>5 DEF Consistent, GeneratedText, Current, NoTimerClosed
<1> QED
  BY <1>1, <1>2, <1>4, <1>6, <1>7, StartRequestKeeps DEF Consistent

LEMMA CloseKeeps ==
  ASSUME Consistent, Close
  PROVE  Consistent'
<1> USE DEF Close, NoRequest, Consistent
<1>1. TypeOK' /\ IdsUnique' /\ RegenerateNewest'
  BY DEF TypeOK, IdsUnique, RegenerateNewest
<1>2. NewestCurrent' /\ GeneratedText' /\ Current' /\ NoTimerClosed'
  BY DEF NewestCurrent, GeneratedText, Current, NoTimerClosed, Follows
<1> QED
  BY <1>1, <1>2

LEMMA FireTimerKeeps ==
  ASSUME Consistent, FireTimer
  PROVE  Consistent'
<1> USE DEF FireTimer
<1>1. CASE StartRequest("formChange", pending)
  <2>1. pending \in SUBSET pending /\ form' = form /\ editor' \in Texts
    BY DEF Consistent, TypeOK
  <2>2. TypeOK'
    <3>1. awaited' \in 0 .. seq'
      BY <1>1, <2>1, FormChangeAsked DEF Consistent, TypeOK
    <3> QED
      BY <1>1, <2>1, <3>1, FormChangeAsked DEF Consistent, TypeOK
  <2>3. GeneratedText' /\ NoTimerClosed'
    BY DEF Consistent, GeneratedText, NoTimerClosed
  <2> QED
    BY <1>1, <2>1, <2>2, <2>3, FormChangeAsked DEF Consistent
<1>2. CASE ~Follows /\ NoRequest
  <2> USE <1>2 DEF NoRequest, Consistent
  <2>1. TypeOK' /\ IdsUnique' /\ RegenerateNewest'
    BY DEF TypeOK, IdsUnique, RegenerateNewest
  <2>2. NewestCurrent' /\ GeneratedText' /\ Current' /\ NoTimerClosed'
    BY DEF NewestCurrent, GeneratedText, Current, NoTimerClosed, Follows
  <2> QED
    BY <2>1, <2>2
<1> QED
  BY <1>1, <1>2

LEMMA ClickExecuteKeeps ==
  ASSUME Consistent, ClickExecute
  PROVE  Consistent'
<1>1. moves' \in 0 .. Moves
  BY MovesAssumption DEF ClickExecute, Spend, Consistent, TypeOK
<1> QED
  BY <1>1, FlushAndAwaitKeeps DEF ClickExecute

LEMMA SettleKeeps ==
  ASSUME Consistent, Settle
  PROVE  Consistent'
<1>1. CASE SettleAgain
  <2>1. moves' \in 0 .. Moves
    BY <1>1 DEF SettleAgain, Consistent, TypeOK
  <2> QED
    BY <1>1, <2>1, FlushAndAwaitKeeps DEF SettleAgain
<1>2. CASE SettleClosed \/ SettleDone
  <2> USE <1>2 DEF SettleClosed, SettleDone, NoRequest, Consistent
  <2>1. TypeOK' /\ IdsUnique' /\ RegenerateNewest'
    BY DEF TypeOK, IdsUnique, RegenerateNewest
  <2>2. NewestCurrent' /\ GeneratedText' /\ Current' /\ NoTimerClosed'
    BY DEF NewestCurrent, GeneratedText, Current, NoTimerClosed, Follows,
           InFlight
  <2> QED
    BY <2>1, <2>2
<1> QED
  BY <1>1, <1>2 DEF Settle

LEMMA ExecuteEndsKeeps ==
  ASSUME Consistent, ExecuteEnds
  PROVE  Consistent'
<1> USE DEF ExecuteEnds, NoRequest, Consistent
<1>1. TypeOK' /\ IdsUnique' /\ RegenerateNewest'
  BY DEF TypeOK, IdsUnique, RegenerateNewest
<1>2. NewestCurrent' /\ GeneratedText' /\ Current' /\ NoTimerClosed'
  BY DEF NewestCurrent, GeneratedText, Current, NoTimerClosed, Follows,
         InFlight
<1> QED
  BY <1>1, <1>2

\* An answer that lands: it is dropped, or it failed, or it is in the editor.
LEMMA LandKeeps ==
  ASSUME Consistent, NEW r \in pending, ReleaseHeld(r),
         UNCHANGED <<form, disposed, exec, awaited, moves>>,
         editor' \in Texts, generated' \in Texts, lastFailed' \in BOOLEAN,
         GeneratedText',
         \/ /\ UNCHANGED <<editor, generated, lastFailed>>
            /\ ~IsApplicable(r) \/ ~Follows \/ undone
         \/ IsApplicable(r) /\ lastFailed'
         \/ IsApplicable(r) /\ editor' = Sql[r.form]
  PROVE  Consistent'
<1>1. /\ r.id \in 1 .. seq /\ seq \in Nat /\ r \in Request
      /\ \A q \in pending : q.id = r.id => q = r
      /\ r.trigger \in {"open", "formChange", "button"}
  BY DEF Consistent, TypeOK, IdsUnique, Request, Triggers
<1>2. TypeOK'
  <2>1. awaited' \in 0 .. seq'
    BY ReleaseHeldKeeps DEF Consistent, TypeOK
  <2> QED
    BY <2>1, ReleaseHeldKeeps DEF Consistent, TypeOK
<1>3. IdsUnique' /\ RegenerateNewest' /\ NoTimerClosed'
  BY ReleaseHeldKeeps
<1>4. r.id # seq => UNCHANGED <<editor, generated, lastFailed>>
  BY DEF IsApplicable
<1>5. NewestCurrent' /\ Current'
  <2>1. CASE regenerating # r.id
    <3> USE <2>1
    <3>1. pending' = pending \ {r} /\ UNCHANGED <<seq, regenerating, held, timer, undone>>
      BY DEF ReleaseHeld
    <3>2. NewestCurrent'
      BY <1>1, <1>4, <3>1 DEF Consistent, NewestCurrent, Follows
    <3>3. CASE r.id = seq
      <4>1. r.trigger = "formChange"
        BY <1>1, <3>3 DEF Consistent, NewestCurrent
      <4>2. Follows' /\ ~disposed /\ ~lastFailed' => undone \/ (Follows /\ editor' = Sql[r.form])
        BY <3>3, <4>1 DEF IsApplicable, Follows
      <4>3. r.form = form \/ timer \/ ~Follows \/ disposed \/ undone
        BY <3>3, <4>1 DEF Consistent, NewestCurrent
      <4> QED
        BY <3>1, <3>2, <4>2, <4>3 DEF Current
    <3>4. CASE r.id # seq
      <4>1. InFlight(seq)' = InFlight(seq)
        BY <1>1, <3>1, <3>4 DEF InFlight
      <4> QED
        BY <1>4, <3>1, <3>2, <3>4, <4>1 DEF Consistent, Current, Follows
    <3> QED
      BY <3>3, <3>4
  <2>2. CASE /\ regenerating = r.id
             /\ ~(~disposed /\ held /\ editor' = generated')
             /\ pending' = pending \ {r}
             /\ UNCHANGED <<seq, timer, undone>>
    <3> USE <2>2
    <3>1. r.id = seq /\ r.trigger # "formChange"
      BY <1>1 DEF Consistent, RegenerateNewest
    <3>2. NewestCurrent'
      BY <1>1, <3>1 DEF NewestCurrent
    <3>3. Follows' /\ ~disposed /\ ~lastFailed' => editor' = Sql[r.form] \/ undone'
      BY <3>1 DEF IsApplicable, Follows
    <3>4. Follows' /\ ~disposed => r.form = form
      BY <3>1 DEF Consistent, NewestCurrent, Follows
    <3> QED
      BY <3>2, <3>3, <3>4 DEF Current
  <2>3. CASE StartRequest("formChange", pending \ {r})
    BY <2>3, FormChangeAsked
  <2> QED
    BY <2>1, <2>2, <2>3 DEF ReleaseHeld
<1> QED
  BY <1>2, <1>3, <1>5 DEF Consistent

LEMMA LandSuccessKeeps ==
  ASSUME Consistent, NEW r \in pending, LandSuccess(r)
  PROVE  Consistent'
<1> USE DEF LandSuccess
<1>1. Sql[r.form] \in Texts /\ r.form \in Forms
  BY TextAssumption DEF Consistent, TypeOK, Request
<1>2. editor' \in Texts /\ generated' \in Texts /\ lastFailed' \in BOOLEAN
  BY <1>1 DEF Consistent, TypeOK
<1>3. GeneratedText'
  BY <1>1 DEF Consistent, GeneratedText
<1>4. \/ /\ UNCHANGED <<editor, generated, lastFailed>>
         /\ ~IsApplicable(r) \/ ~Follows \/ undone
      \/ IsApplicable(r) /\ lastFailed'
      \/ IsApplicable(r) /\ editor' = Sql[r.form]
  BY DEF IsApplicable, EditedSinceClick, Consistent, NewestCurrent
<1> QED
  BY <1>2, <1>3, <1>4, LandKeeps

LEMMA LandFailureKeeps ==
  ASSUME Consistent, NEW r \in pending, LandFailure(r)
  PROVE  Consistent'
<1> USE DEF LandFailure
<1>1. editor' \in Texts /\ generated' \in Texts /\ lastFailed' \in BOOLEAN
  BY TextAssumption DEF Consistent, TypeOK
<1>2. GeneratedText'
  BY DEF Consistent, GeneratedText
<1>3. \/ /\ UNCHANGED <<editor, generated, lastFailed>>
         /\ ~IsApplicable(r) \/ ~Follows \/ undone
      \/ IsApplicable(r) /\ lastFailed'
      \/ IsApplicable(r) /\ editor' = Sql[r.form]
  OBVIOUS
<1> QED
  BY <1>1, <1>2, <1>3, LandKeeps

LEMMA StepConsistent ==
  ASSUME Consistent, [Next]_vars
  PROVE  Consistent'
<1>1. CASE \E f \in Forms : ChangeForm(f)
  BY <1>1, ChangeFormKeeps
<1>2. CASE \E text \in Texts : Type(text)
  BY <1>2, TypeKeeps
<1>3. CASE ClickRegenerate \/ Close \/ FireTimer
  BY <1>3, ClickRegenerateKeeps, CloseKeeps, FireTimerKeeps
<1>4. CASE Land
  BY <1>4, LandSuccessKeeps, LandFailureKeeps DEF Land
<1>5. CASE ClickExecute \/ Settle \/ ExecuteEnds
  BY <1>5, ClickExecuteKeeps, SettleKeeps, ExecuteEndsKeeps
<1>6. CASE UNCHANGED vars
  <2> USE <1>6 DEF vars, Consistent
  <2>1. TypeOK' /\ IdsUnique' /\ RegenerateNewest'
    BY DEF TypeOK, IdsUnique, RegenerateNewest
  <2>2. NewestCurrent' /\ GeneratedText' /\ Current' /\ NoTimerClosed'
    BY DEF NewestCurrent, GeneratedText, Current, NoTimerClosed, Follows,
           InFlight
  <2> QED
    BY <2>1, <2>2
<1> QED
  BY <1>1, <1>2, <1>3, <1>4, <1>5, <1>6 DEF Next

-----------------------------------------------------------------------------
(* The theorems.                                                           *)

THEOREM AlwaysConsistent ==
  Spec => []Consistent
<1>1. Init => Consistent
  BY InitConsistent
<1>2. Consistent /\ [Next]_vars => Consistent'
  BY StepConsistent
<1> QED
  BY <1>1, <1>2, PTL DEF Spec

\* Every variable of the dialog keeps its type, and no request is older than
\* the dialog or newer than its counter.
THEOREM TypeCorrect ==
  Spec => []TypeOK
<1>1. Consistent => TypeOK
  BY DEF Consistent
<1> QED
  BY <1>1, AlwaysConsistent, PTL

\* However late and in whatever order answers land, a preview at rest that
\* follows the form shows the SQL of the form as it is, but where the user has
\* edited the text back to the generated one since the form was last read.
THEOREM PreviewCatchesUp ==
  Spec => []PreviewCurrent
<1>1. Consistent => PreviewCurrent
  BY DEF Consistent, Current, PreviewCurrent
<1> QED
  BY <1>1, AlwaysConsistent, PTL

\* Execute runs the SQL of the form's latest state, the user's own text, or a
\* text that the user edited back to the generated one.
THEOREM ExecuteRunsTheForm ==
  Spec => ExecutedMatchesForm
<1> DEFINE Step == exec # "running" /\ exec' = "running" /\ Follows /\ ~undone
                       => editor = Sql[form]
<1>1. ASSUME Consistent, [Next]_vars
      PROVE  [Step]_vars
  <2> SUFFICES ASSUME exec # "running", exec' = "running", Follows, ~undone
               PROVE  editor = Sql[form]
    OBVIOUS
  <2>1. SettleDone
    BY <1>1 DEF Next, vars, ChangeForm, Type, ClickRegenerate, Close, FireTimer,
           Land, LandSuccess, LandFailure, ClickExecute, FlushAndAwait, Settle,
           SettleClosed, SettleAgain, ExecuteEnds
  <2>2. ~lastFailed /\ ~timer /\ ~disposed /\ ~InFlight(seq)
    BY <2>1 DEF SettleDone, Settled
  <2> QED
    BY <1>1, <2>2 DEF Consistent, Current
<1> QED
  BY <1>1, AlwaysConsistent, PTL DEF Spec, ExecutedMatchesForm

\* No answer but the one to a Regenerate clicked on it replaces a text typed
\* by hand.
THEOREM HandEditsSurvive ==
  Spec => HandEditKept
<1> DEFINE Step == ~Follows /\ editor' # editor /\ pending' # pending =>
                       \E r \in pending \ pending' :
                          r.id = seq /\ r.trigger = "button" /\ editorAtRequest = editor
<1>1. ASSUME Consistent, [Next]_vars
      PROVE  [Step]_vars
  <2> SUFFICES ASSUME ~Follows, editor' # editor, pending' # pending
               PROVE  \E r \in pending \ pending' : 
                          r.id = seq /\ r.trigger = "button" /\ editorAtRequest = editor
    OBVIOUS
  <2>1. PICK r \in pending : LandSuccess(r) \/ LandFailure(r)
    BY <1>1 DEF Next, vars, ChangeForm, Type, ClickRegenerate, Close, FireTimer,
           Land, ClickExecute, FlushAndAwait, Settle, SettleClosed, SettleAgain,
           SettleDone, ExecuteEnds
  <2>2. IsApplicable(r) /\ ~EditedSinceClick(r)
    BY <2>1 DEF LandSuccess, LandFailure
  <2>3. r.id = seq /\ r.trigger = "button"
    BY <1>1, <2>2 DEF IsApplicable, Consistent, TypeOK, NewestCurrent, Request,
                      Triggers
  <2>4. r \notin pending'
    <3>1. CASE pending' = pending \ {r}
      BY <3>1
    <3>2. CASE StartRequest("formChange", pending \ {r})
      BY <1>1, <2>3, <3>2 DEF StartRequest, Consistent, TypeOK
    <3> QED
      BY <2>1, <3>1, <3>2 DEF LandSuccess, LandFailure, ReleaseHeld
  <2> QED
    BY <2>2, <2>3, <2>4 DEF EditedSinceClick
<1> QED
  BY <1>1, AlwaysConsistent, PTL DEF Spec, HandEditKept

\* A dialog that closes does nothing any more.
THEOREM ClosedDoesNothing ==
  Spec => ClosedIsInert
<1> DEFINE Step == disposed => /\ editor' = editor
                               /\ seq' = seq
                               /\ ~timer'
                               /\ exec' = "running" => exec = "running"
<1>1. ASSUME Consistent, [Next]_vars
      PROVE  [Step]_vars
  <2> SUFFICES ASSUME disposed
               PROVE  Step \/ UNCHANGED vars
    OBVIOUS
  <2>1. ~timer
    BY <1>1 DEF Consistent, NoTimerClosed
  <2>2. CASE Land
    BY <2>1, <2>2 DEF Land, LandSuccess, LandFailure, IsApplicable, ReleaseHeld
  <2>3. CASE SettleClosed \/ ExecuteEnds
    BY <2>1, <2>3 DEF SettleClosed, ExecuteEnds, NoRequest
  <2> QED
    BY <1>1, <2>1, <2>2, <2>3 DEF Next, ChangeForm, Type, ClickRegenerate, Close,
           FireTimer, ClickExecute, Settle, SettleAgain, SettleDone, Interactive
<1> QED
  BY <1>1, AlwaysConsistent, PTL DEF Spec, ClosedIsInert

=============================================================================
