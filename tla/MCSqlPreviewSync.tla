-------------------------- MODULE MCSqlPreviewSync --------------------------
(* Values for model-checking SqlPreviewSync: two of three form states       *)
(* generate the same SQL.                                                   *)
EXTENDS SqlPreviewSync

CONSTANTS f1, f2, f3, q1, q2, hand, hand2

MCSql == [f \in Forms |-> IF f = f1 THEN q1 ELSE q2]

=============================================================================
