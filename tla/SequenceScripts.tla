--------------------------- MODULE SequenceScripts ---------------------------
(***************************************************************************)
(* Editing a sequence in its info tab: the ALTER SEQUENCE and OWNER TO     *)
(* specs a Save makes of the fields that changed (frontend/src/dock/       *)
(* ddlSpecs.ts), the statements the backend emits (backend/app/sql/ddl.py) *)
(* and what PostgreSQL does with them.  A sequence is a record of its      *)
(* parameters, its last value (Unset before the first nextval) and its     *)
(* owner; a field's text is a value, Blank, or Typo, which is no integer.  *)
(***************************************************************************)
EXTENDS Integers, Sequences, FiniteSets, TLC

Blank == ""
Unset == "-"
Typo == "?"
NumericFields == {"increment", "start", "minValue", "maxValue", "cache"}
AlterFields == NumericFields \cup {"dataType", "cycle"}

-----------------------------------------------------------------------------
(* The statements.                                                         *)

SequenceAlter(clauses) == [op |-> "alterSequence", clauses |-> clauses]
SequenceSetOwner(owner) == [op |-> "sequenceOwner", owner |-> owner]

PreviewAlterSequence(spec) == SequenceAlter(spec.alter)
PreviewSequenceOwner(spec) == SequenceSetOwner(spec.newOwner)

-----------------------------------------------------------------------------
(* The diff of the edited fields against the loaded detail.                *)

IntString(text) == text \notin {Blank, Typo, Unset}
ChangedFields(original, edited) == {f \in AlterFields : edited[f] # original[f]}

(* Mutant: the current value is sent along with every change. *)
RestartsAlways(original, edited) == edited.lastValue \notin {Blank, Unset}

Restarts(original, edited) == edited.lastValue \notin {original.lastValue, Blank, Unset}

SequenceDiffFails(original, edited) ==
    \/ \E f \in ChangedFields(original, edited) \cap NumericFields : ~IntString(edited[f])
    \/ Restarts(original, edited) /\ ~IntString(edited.lastValue)

BuildAlterSequenceSpec(fields) == [alter |-> fields]
BuildSequenceOwnerSpec(owner) == [newOwner |-> owner]

DiffSequenceSpecs(original, edited) ==
    LET given == ChangedFields(original, edited) \cup (IF Restarts(original, edited) THEN {"restart"} ELSE {})
        Value(f) == IF f = "restart" THEN edited.lastValue ELSE edited[f]
    IN  (IF given # {} THEN <<BuildAlterSequenceSpec([f \in given |-> Value(f)])>> ELSE <<>>)
        \o (IF edited.owner # original.owner THEN <<BuildSequenceOwnerSpec(edited.owner)>> ELSE <<>>)

(* The fields as the form shows a freshly loaded detail. *)
SeedFields(detail) == [detail EXCEPT !.lastValue = IF @ = Unset THEN Blank ELSE @]

-----------------------------------------------------------------------------
(* What PostgreSQL does with them (external): the named clauses change,    *)
(* RESTART WITH sets the next value, and every other parameter stays.      *)

RunSequenceStatement(s, seq) ==
    IF s.op = "sequenceOwner" THEN [seq EXCEPT !.owner = s.owner]
    ELSE [f \in DOMAIN seq |->
             IF f = "lastValue" THEN (IF "restart" \in DOMAIN s.clauses THEN s.clauses["restart"] ELSE seq[f])
             ELSE IF f \in DOMAIN s.clauses THEN s.clauses[f] ELSE seq[f]]
=============================================================================
