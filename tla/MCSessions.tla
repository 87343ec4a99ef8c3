----------------------------- MODULE MCSessions -----------------------------
(* Values for model-checking Sessions: every slot serves one browser, whose *)
(* tabs send in parallel with the cookie they share.                        *)
EXTENDS Sessions, TLC

CONSTANTS b1

MCOwner == [t \in Tasks |-> b1]

=============================================================================
