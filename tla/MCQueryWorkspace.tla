-------------------------- MODULE MCQueryWorkspace --------------------------
(* Two tabs of one window, or of two windows that share the storage. *)
EXTENDS QueryWorkspace

MCHomes == {[t \in Tabs |-> "w1"], [t \in Tabs |-> IF t = 1 THEN "w1" ELSE "w2"]}
MCStored == {[n \in Names |-> IF n = 1 THEN "x" ELSE "y"]}
MCHistories == {<<>>, <<"x", "y">>}
=============================================================================
