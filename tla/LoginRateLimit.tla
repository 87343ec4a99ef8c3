--------------------------- MODULE LoginRateLimit ---------------------------
(***************************************************************************)
(* app/rate_limit.py, a sliding window of failed logins per client         *)
(* address, and the order in which auth.login consults it: the check comes *)
(* before the dial, the record after it, so attempts in flight have been   *)
(* checked and not yet counted.                                            *)
(*                                                                         *)
(* A recorded time stamp is modelled by its age: now - stamp.              *)
(***************************************************************************)
EXTENDS Naturals, Sequences, FiniteSets, Functions

CONSTANTS
    Clients,  \* client addresses
    Attempts, \* login attempts the server may be handling at once
    Limit,    \* LOGIN_FAILURE_LIMIT
    Window    \* LOGIN_FAILURE_WINDOW_SECONDS, in clock ticks

ASSUME LimiterAssumption == Limit \in Nat \ {0} /\ Window \in Nat \ {0}
ASSUME AttemptsAssumption == IsFiniteSet(Attempts)

VARIABLES
    failures,  \* _failures: known clients to the ages of their failures,
               \* oldest first; an age saturates at Window
    stage,     \* stage[t]: idle, dialing, or revoking (await close_session)
    peer       \* peer[t]: the client attempt t comes from

limiterVars == <<failures, stage, peer>>

LimiterTypeOK ==
    /\ DOMAIN failures \subseteq Clients
    /\ \A c \in DOMAIN failures : failures[c] \in Seq(0 .. Window) \ {<<>>}
    /\ stage \in [Attempts -> {"idle", "dialing", "revoking"}]
    /\ peer \in [Attempts -> Clients]

LimiterInit ==
    /\ failures = [c \in {} |-> <<>>]
    /\ stage = [t \in Attempts |-> "idle"]
    /\ peer \in [Attempts -> Clients]

-----------------------------------------------------------------------------

\* _live: the stamps inside the window, in their order (SelectSeq as a
\* recursive function, which can be reasoned about).
Live(stamps) ==
    LET live[i \in 0 .. Len(stamps)] ==
            IF i = 0 THEN <<>>
            ELSE IF stamps[i] < Window THEN Append(live[i - 1], stamps[i])
            ELSE live[i - 1]
    IN  live[Len(stamps)]

\* _failures.get(c, []), pruned.
Recent(c) == IF c \in DOMAIN failures THEN Live(failures[c]) ELSE <<>>

OverLimit(c) == Len(Recent(c)) >= Limit

Without(c) == Restrict(failures, DOMAIN failures \ {c})

With(f, c, stamps) ==
    [x \in DOMAIN f \union {c} |-> IF x = c THEN stamps ELSE f[x]]

\* What check_login_rate_limit leaves behind, refusing or not.
CheckedFailures(c) ==
    IF Recent(c) = <<>> THEN Without(c) ELSE With(failures, c, Recent(c))

\* record_login_failure prunes every client, then appends now.
RecordedFailures(f, c) ==
    LET known == {x \in DOMAIN f : Live(f[x]) # <<>>}
        kept  == [x \in known |-> Live(f[x])]
    IN  With(kept, c, Append(IF c \in known THEN kept[c] ELSE <<>>, 0))

Record(f, c) == failures' = RecordedFailures(f, c)

Refuse_Counts(t, c) ==
    /\ stage[t] = "idle"
    /\ OverLimit(c)
    /\ Record(CheckedFailures(c), c)
    /\ UNCHANGED <<stage, peer>>

\* The 429. Its Retry-After counts to the expiry of the oldest failure, which
\* is too early after an overshoot: see the README.
Refuse(t, c) ==
    /\ stage[t] = "idle"
    /\ OverLimit(c)
    /\ failures' = CheckedFailures(c)
    /\ UNCHANGED <<stage, peer>>

\* A malformed body or a host off the allowlist: checked and counted with no
\* await between.
Reject(t, c) ==
    /\ stage[t] = "idle"
    /\ ~OverLimit(c)
    /\ Record(CheckedFailures(c), c)
    /\ UNCHANGED <<stage, peer>>

Dial_Unchecked(t, c) ==
    /\ stage[t] = "idle"
    /\ failures' = CheckedFailures(c)
    /\ stage' = [stage EXCEPT ![t] = "dialing"]
    /\ peer' = [peer EXCEPT ![t] = c]

\* The attempt passes the check and starts to dial.
Dial(t, c) ==
    /\ stage[t] = "idle"
    /\ ~OverLimit(c)
    /\ failures' = CheckedFailures(c)
    /\ stage' = [stage EXCEPT ![t] = "dialing"]
    /\ peer' = [peer EXCEPT ![t] = c]

\* The dial failed with an error login knows: 401, and counted.
DialFails(t) ==
    /\ stage[t] = "dialing"
    /\ Record(failures, peer[t])
    /\ stage' = [stage EXCEPT ![t] = "idle"]
    /\ UNCHANGED peer

\* It failed with one outside login's except clauses (asyncpg's client-side
\* InterfaceError, for one): not a DomainError, so nothing is recorded.
DialRaises(t) ==
    /\ stage[t] = "dialing"
    /\ stage' = [stage EXCEPT ![t] = "idle"]
    /\ UNCHANGED <<failures, peer>>

ClearFailures(t) ==
    /\ failures' = Without(peer[t])
    /\ stage' = [stage EXCEPT ![t] = "idle"]
    /\ UNCHANGED peer

\* It succeeded: with no previous session to close, the failures are cleared
\* at once, otherwise after the await of close_session.
DialSucceeds(t) ==
    /\ stage[t] = "dialing"
    /\ \/ ClearFailures(t)
       \/ /\ stage' = [stage EXCEPT ![t] = "revoking"]
          /\ UNCHANGED <<failures, peer>>

\* close_session returned, or raised and the login ends as a 500.
RevokeEnds(t) ==
    /\ stage[t] = "revoking"
    /\ \/ ClearFailures(t)
       \/ /\ stage' = [stage EXCEPT ![t] = "idle"]
          /\ UNCHANGED <<failures, peer>>

Older(a, last) == IF a < last THEN a + 1 ELSE last

TimePasses ==
    /\ failures' = [c \in DOMAIN failures |->
                       [i \in DOMAIN failures[c] |-> Older(failures[c][i], Window)]]
    /\ UNCHANGED <<stage, peer>>

LimiterNext ==
    \/ \E t \in Attempts, c \in Clients : Refuse(t, c) \/ Reject(t, c) \/ Dial(t, c)
    \/ \E t \in Attempts :
          DialFails(t) \/ DialRaises(t) \/ DialSucceeds(t) \/ RevokeEnds(t)
    \/ TimePasses

\* Time passes. Nothing else need happen: clients may stop trying, and a dial
\* may take as long as it likes.
LimiterSpec == LimiterInit /\ [][LimiterNext]_limiterVars /\ WF_limiterVars(TimePasses)

-----------------------------------------------------------------------------
(* Properties.                                                             *)

InFlight(c) == {t \in Attempts : stage[t] # "idle" /\ peer[t] = c}

\* However attempts overlap, a client gets at most Limit - 1 failures plus one
\* for each attempt that was in flight: past the limit, every failure still to
\* come is one that was checked before it.
OvershootBounded ==
    \A c \in Clients :
        OverLimit(c) =>
            Len(Recent(c)) + Cardinality(InFlight(c)) <= Limit - 1 + Cardinality(Attempts)

\* A client that is refused is let in again some day, even if it never stops
\* trying: a refused attempt is not counted.
RefusalEnds == \A c \in Clients : OverLimit(c) ~> ~OverLimit(c)

=============================================================================
