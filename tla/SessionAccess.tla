--------------------------- MODULE SessionAccess ---------------------------
(***************************************************************************)
(* What the backend promises about a login session, apart from how the     *)
(* registry, the pools and the sweep do it: a session token is live from   *)
(* one instant to another, only a live session gives a request a database  *)
(* connection, and a token that stopped being live (logout, re-login,      *)
(* idle eviction, shutdown, or a login that failed) is spent for good.     *)
(***************************************************************************)
CONSTANTS
    Sids,   \* session tokens
    Tasks   \* requests being handled

VARIABLES
    live,     \* tokens that open the API
    spent,    \* tokens that will never open it again
    serving   \* serving[s]: the requests working on a connection of s

vars == <<live, spent, serving>>

Init ==
    /\ live = {}
    /\ spent = {}
    /\ serving = [s \in Sids |-> {}]

\* A login makes a fresh token live and revokes at most one other.
Open(s, replaced) ==
    /\ s \notin live \union spent
    /\ replaced \subseteq live
    /\ live' = (live \ replaced) \union {s}
    /\ spent' = spent \union replaced
    /\ UNCHANGED serving

\* A failed login spends the token it would have used.
Abandon(s) ==
    /\ s \notin live
    /\ spent' = spent \union {s}
    /\ UNCHANGED <<live, serving>>

Revoke(s) ==
    /\ s \in live
    /\ live' = live \ {s}
    /\ spent' = spent \union {s}
    /\ UNCHANGED serving

Serve(t, s) ==
    /\ s \in live
    /\ serving' = [serving EXCEPT ![s] = @ \union {t}]
    /\ UNCHANGED <<live, spent>>

Finish(t, s) ==
    /\ t \in serving[s]
    /\ serving' = [serving EXCEPT ![s] = @ \ {t}]
    /\ UNCHANGED <<live, spent>>

Next ==
    \E s \in Sids :
        \/ Abandon(s)
        \/ Revoke(s)
        \/ Open(s, {})
        \/ \E old \in live : Open(s, {old})
        \/ \E t \in Tasks : Serve(t, s) \/ Finish(t, s)

Spec == Init /\ [][Next]_vars

=============================================================================
