------------------------------ MODULE Sessions ------------------------------
(***************************************************************************)
(* Login sessions of the backend: app/connections.py (the registry of      *)
(* sessions and their asyncpg pools), the login, logout and session-guard  *)
(* handlers of app/auth.py, the idle sweep and the shutdown of             *)
(* app/main.py, and the way the endpoints borrow a connection.             *)
(*                                                                         *)
(* asyncio runs one task at a time and switches only at an await, so one   *)
(* action is everything a coroutine does from one await to the next.       *)
(***************************************************************************)
EXTENDS Naturals, FiniteSets

CONSTANTS
    Sids,            \* session tokens; secrets.token_urlsafe never repeats one
    NoSid,           \* no cookie, or no token
    Browsers,        \* cookie jars
    Tasks,           \* requests a server may be handling at once
    Owner,           \* Owner[t]: the browser whose requests run in slot t
    Sweeper,         \* the idle-sweep task
    Lifespan,        \* the task that runs the lifespan's shutdown
    PoolSize,        \* SESSION_POOL_MAX_SIZE
    IdleTimeout,     \* SESSION_IDLE_TIMEOUT_SECONDS, in clock ticks
    ClientMayVanish  \* may a download's client leave before its first byte?

ASSUME SidAssumption == NoSid \notin Sids
ASSUME ActorAssumption ==
    /\ Sweeper \notin Tasks
    /\ Lifespan \notin Tasks
    /\ Sweeper # Lifespan
ASSUME OwnerAssumption == Owner \in [Tasks -> Browsers]
ASSUME LimitAssumption ==
    /\ PoolSize \in Nat \ {0}
    /\ IdleTimeout \in Nat
    /\ ClientMayVanish \in BOOLEAN

VARIABLES
    registered,  \* the keys of _sessions
    age,         \* age[s]: now - last_seen, saturating just above IdleTimeout
    pool,        \* pool[s]: the state of the session's asyncpg pool
    held,        \* held[s]: tasks whose connection the pool has not got back
    cookie,      \* cookie[b]: the session cookie browser b holds
    pc,          \* pc[t]: where request t is
    carried,     \* carried[t]: the cookie request t was sent with
    target,      \* target[t]: the session t creates or works on
    closing,     \* closing[a]: the session whose pool.close() actor a awaits
    expired,     \* what is left of the sweep pass's list of expired sessions
    phase        \* the process: running, draining, stopping, stopped, aborted

vars == <<registered, age, pool, held, cookie, pc, carried, target, closing,
          expired, phase>>

Actors == Tasks \union {Sweeper, Lifespan}
MaybeSid == Sids \union {NoSid}
Stale == IdleTimeout + 1

PoolStates == {"none", "open", "closing", "closed"}
Arrived == {"login", "logout", "request"}
Working == {"using", "streaming"}
Steps == {"idle"} \union Arrived \union Working \union
         {"dialing", "failing", "revoking", "loggedIn",
          "leaving", "loggedOut", "acquiring", "vanished"}
Phases == {"running", "draining", "stopping", "stopped", "aborted"}

TypeOK ==
    /\ registered \in SUBSET Sids
    /\ age \in [Sids -> 0 .. Stale]
    /\ pool \in [Sids -> PoolStates]
    /\ held \in [Sids -> SUBSET Tasks]
    /\ cookie \in [Browsers -> MaybeSid]
    /\ pc \in [Tasks -> Steps]
    /\ carried \in [Tasks -> MaybeSid]
    /\ target \in [Tasks -> MaybeSid]
    /\ closing \in [Actors -> MaybeSid]
    /\ expired \in SUBSET Sids
    /\ phase \in Phases

Init ==
    /\ registered = {}
    /\ age = [s \in Sids |-> 0]
    /\ pool = [s \in Sids |-> "none"]
    /\ held = [s \in Sids |-> {}]
    /\ cookie = [b \in Browsers |-> NoSid]
    /\ pc = [t \in Tasks |-> "idle"]
    /\ carried = [t \in Tasks |-> NoSid]
    /\ target = [t \in Tasks |-> NoSid]
    /\ closing = [a \in Actors |-> NoSid]
    /\ expired = {}
    /\ phase = "running"

-----------------------------------------------------------------------------
(* Steps the actions are made of.                                          *)

IsIdle(s) == age[s] > IdleTimeout

Goto(t, step) == pc' = [pc EXCEPT ![t] = step]

\* The handler returns (or raises) and its response changes no cookie.
Answer(t) ==
    /\ Goto(t, "idle")
    /\ carried' = [carried EXCEPT ![t] = NoSid]
    /\ target' = [target EXCEPT ![t] = NoSid]

Release(t, s) == held' = [held EXCEPT ![s] = @ \ {t}]

\* asyncpg's pool.close(), as the code relies on it: from the call on, no
\* acquire succeeds; it returns once every connection is back.
BeginClose(a, s) ==
    /\ pool' = [pool EXCEPT ![s] = "closing"]
    /\ closing' = [closing EXCEPT ![a] = s]

PopAndClose_KeepsKey(a, s) ==
    /\ registered' = registered
    /\ BeginClose(a, s)

\* _pop_and_close up to its await, for a token that is registered.
PopAndClose(a, s) ==
    /\ registered' = registered \ {s}
    /\ BeginClose(a, s)

\* The awaited close is over: it returned, or it raised and terminated the
\* pool. What follows tells the two apart.
CloseEnds(a) ==
    /\ closing[a] # NoSid
    /\ held[closing[a]] = {}
    /\ pool' = [pool EXCEPT ![closing[a]] = "closed"]
    /\ closing' = [closing EXCEPT ![a] = NoSid]

-----------------------------------------------------------------------------
(* Requests.                                                               *)

\* Browser Owner[t] sends a request with the cookie it holds now.
Send(t) ==
    /\ phase = "running"
    /\ pc[t] = "idle"
    /\ \E step \in Arrived : Goto(t, step)
    /\ carried' = [carried EXCEPT ![t] = cookie[Owner[t]]]
    /\ UNCHANGED <<registered, age, pool, held, cookie, target, closing,
                   expired, phase>>

\* login refuses before any dial: rate limit, malformed body, host.
LoginRefused(t) ==
    /\ pc[t] = "login"
    /\ Answer(t)
    /\ UNCHANGED <<registered, age, pool, held, cookie, closing, expired,
                   phase>>

\* create_session makes a pool and dials once through it.
LoginDial(t, s) ==
    /\ pc[t] = "login"
    /\ pool[s] = "none"
    /\ pool' = [pool EXCEPT ![s] = "open"]
    /\ held' = [held EXCEPT ![s] = {t}]
    /\ target' = [target EXCEPT ![t] = s]
    /\ Goto(t, "dialing")
    /\ UNCHANGED <<registered, age, cookie, carried, closing, expired, phase>>

LoginDialFails_KeepsPool(t) ==
    /\ pc[t] = "dialing"
    /\ Release(t, target[t])
    /\ Answer(t)
    /\ UNCHANGED <<registered, age, pool, cookie, closing, expired, phase>>

\* The probe raised: close the pool before the error goes on.
LoginDialFails(t) ==
    /\ pc[t] = "dialing"
    /\ Release(t, target[t])
    /\ BeginClose(t, target[t])
    /\ Goto(t, "failing")
    /\ UNCHANGED <<registered, age, cookie, carried, target, expired, phase>>

LoginFailed(t) ==
    /\ pc[t] = "failing"
    /\ CloseEnds(t)
    /\ Answer(t)
    /\ UNCHANGED <<registered, age, held, cookie, expired, phase>>

\* The probe answered: register the session and, without another await,
\* revoke the one the caller's cookie names, if it still is one.
LoginRegisters(t) ==
    LET new == target[t]
        old == carried[t]
    IN  /\ pc[t] = "dialing"
        /\ Release(t, new)
        /\ age' = [age EXCEPT ![new] = 0]
        /\ \/ /\ old \in registered
              /\ registered' = (registered \union {new}) \ {old}
              /\ BeginClose(t, old)
              /\ Goto(t, "revoking")
           \/ /\ old \notin registered
              /\ registered' = registered \union {new}
              /\ Goto(t, "loggedIn")
              /\ UNCHANGED <<pool, closing>>
        /\ UNCHANGED <<cookie, carried, target, expired, phase>>

LoginRevoked(t) ==
    /\ pc[t] = "revoking"
    /\ CloseEnds(t)
    /\ \/ Goto(t, "loggedIn") /\ UNCHANGED <<carried, target>>
       \/ Answer(t)  \* the close raised: 500, and no Set-Cookie
    /\ UNCHANGED <<registered, age, held, cookie, expired, phase>>

Logout(t) ==
    /\ pc[t] = "logout"
    /\ \/ /\ carried[t] \in registered
          /\ PopAndClose(t, carried[t])
          /\ Goto(t, "leaving")
       \/ /\ carried[t] \notin registered
          /\ Goto(t, "loggedOut")
          /\ UNCHANGED <<registered, pool, closing>>
    /\ UNCHANGED <<age, held, cookie, carried, target, expired, phase>>

LogoutRevoked(t) ==
    /\ pc[t] = "leaving"
    /\ CloseEnds(t)
    /\ \/ Goto(t, "loggedOut") /\ UNCHANGED <<carried, target>>
       \/ Answer(t)  \* the close raised: 500, and no Set-Cookie
    /\ UNCHANGED <<registered, age, held, cookie, expired, phase>>

\* The response that sets or clears the cookie reaches the browser.
Deliver(t) ==
    /\ pc[t] \in {"loggedIn", "loggedOut"}
    /\ cookie' = [cookie EXCEPT ![Owner[t]] =
                     IF pc[t] = "loggedIn" THEN target[t] ELSE NoSid]
    /\ Answer(t)
    /\ UNCHANGED <<registered, age, pool, held, closing, expired, phase>>

\* The browser is gone, or the response is lost on the way.
ResponseLost(t) ==
    /\ pc[t] \in {"loggedIn", "loggedOut"}
    /\ Answer(t)
    /\ UNCHANGED <<registered, age, pool, held, cookie, closing, expired,
                   phase>>

\* require_session finds no session behind the cookie: 401.
Unauthorized(t) ==
    /\ pc[t] = "request"
    /\ carried[t] \notin registered
    /\ Answer(t)
    /\ UNCHANGED <<registered, age, pool, held, cookie, closing, expired,
                   phase>>

\* require_session bumps last_seen and the request needs no connection: it is
\* whoami, or it fails the CSRF check or names another connection label.
Touch(t) ==
    /\ pc[t] = "request"
    /\ carried[t] \in registered
    /\ age' = [age EXCEPT ![carried[t]] = 0]
    /\ Answer(t)
    /\ UNCHANGED <<registered, pool, held, cookie, closing, expired, phase>>

\* require_session bumps last_seen and the endpoint calls pool.acquire().
Admit(t) ==
    /\ pc[t] = "request"
    /\ carried[t] \in registered
    /\ age' = [age EXCEPT ![carried[t]] = 0]
    /\ target' = [target EXCEPT ![t] = carried[t]]
    /\ Goto(t, "acquiring")
    /\ UNCHANGED <<registered, pool, held, cookie, carried, closing, expired,
                   phase>>

Acquired(t) ==
    LET s == target[t]
    IN  /\ pc[t] = "acquiring"
        /\ pool[s] = "open"
        /\ Cardinality(held[s]) < PoolSize
        /\ held' = [held EXCEPT ![s] = @ \union {t}]
        /\ Goto(t, "using")
        /\ UNCHANGED <<registered, age, pool, cookie, carried, target, closing,
                       expired, phase>>

\* The pool was closed under the waiting acquire.
AcquireFails(t) ==
    /\ pc[t] = "acquiring"
    /\ pool[target[t]] # "open"
    /\ Answer(t)
    /\ UNCHANGED <<registered, age, pool, held, cookie, closing, expired,
                   phase>>

OperationEnds_KeepsConnection(t) ==
    /\ pc[t] = "using"
    /\ Answer(t)
    /\ UNCHANGED <<registered, age, pool, held, cookie, closing, expired, phase>>

\* The operation ended, with a result or with an error, or the export was
\* refused: the connection goes back to the pool either way.
OperationEnds(t) ==
    /\ pc[t] = "using"
    /\ Release(t, target[t])
    /\ Answer(t)
    /\ UNCHANGED <<registered, age, pool, cookie, closing, expired, phase>>

\* export_rows returned its response and the body generator took over.
ExportStreams(t) ==
    /\ pc[t] = "using"
    /\ Goto(t, "streaming")
    /\ UNCHANGED <<registered, age, pool, held, cookie, carried, target,
                   closing, expired, phase>>

StreamEnds_KeepsConnection(t) ==
    /\ pc[t] = "streaming"
    /\ Answer(t)
    /\ UNCHANGED <<registered, age, pool, held, cookie, closing, expired, phase>>

\* The stream is exhausted, fails or is aborted: the generator's finally.
StreamEnds(t) ==
    /\ pc[t] = "streaming"
    /\ Release(t, target[t])
    /\ Answer(t)
    /\ UNCHANGED <<registered, age, pool, cookie, closing, expired, phase>>

\* The client left before the response began: the server drops a generator
\* that was never started, whose finally therefore never runs.
ClientVanishes(t) ==
    /\ ClientMayVanish
    /\ pc[t] = "using"
    /\ Goto(t, "vanished")
    /\ UNCHANGED <<registered, age, pool, held, cookie, carried, target,
                   closing, expired, phase>>

-----------------------------------------------------------------------------
(* Time, the idle sweep and the shutdown.                                  *)

Tick ==
    /\ age' = [s \in Sids |-> IF s \in registered /\ age[s] < Stale
                              THEN age[s] + 1 ELSE age[s]]
    /\ UNCHANGED <<registered, pool, held, cookie, pc, carried, target,
                   closing, expired, phase>>

SweeperRuns == phase \in {"running", "draining"}

\* The sweep wakes, lists what is expired now and pops the first of the list.
SweepBegins ==
    LET list == {s \in registered : IsIdle(s)}
    IN  /\ SweeperRuns
        /\ closing[Sweeper] = NoSid
        /\ \E s \in list :
              /\ PopAndClose(Sweeper, s)
              /\ expired' = list \ {s}
        /\ UNCHANGED <<age, held, cookie, pc, carried, target, phase>>

\* A close returned: the pass goes on to the next session of its list that is
\* still registered, looking at the clock no second time.
SweepGoesOn(next) ==
    /\ SweeperRuns
    /\ closing[Sweeper] # NoSid
    /\ held[closing[Sweeper]] = {}
    /\ next \in expired \intersect registered
    /\ registered' = registered \ {next}
    /\ pool' = [pool EXCEPT ![closing[Sweeper]] = "closed", ![next] = "closing"]
    /\ closing' = [closing EXCEPT ![Sweeper] = next]
    /\ expired' = (expired \intersect registered) \ {next}
    /\ UNCHANGED <<age, held, cookie, pc, carried, target, phase>>

SweepEnds_LoopDies ==
    /\ SweeperRuns
    /\ closing[Sweeper] # NoSid
    /\ held[closing[Sweeper]] = {}
    /\ pool' = [pool EXCEPT ![closing[Sweeper]] = "closed"]
    /\ expired' = {}
    /\ UNCHANGED <<registered, age, held, cookie, pc, carried, target, closing,
                   phase>>

\* The list is used up, or a close raised and _sweep_loop swallowed the error:
\* the pass is over and the loop sleeps again.
SweepEnds ==
    /\ SweeperRuns
    /\ CloseEnds(Sweeper)
    /\ expired' = {}
    /\ UNCHANGED <<registered, age, held, cookie, pc, carried, target, phase>>

\* The server is told to stop: it accepts no more requests ...
Shutdown ==
    /\ phase = "running"
    /\ phase' = "draining"
    /\ UNCHANGED <<registered, age, pool, held, cookie, pc, carried, target,
                   closing, expired>>

\* ... and, when the last one is answered, the lifespan cancels the sweep. A
\* close the sweep was awaiting is cancelled too, which terminates its pool.
SweepCancelled ==
    LET s == closing[Sweeper]
    IN  /\ phase = "draining"
        /\ \A t \in Tasks : pc[t] \in {"idle", "vanished"}
        /\ phase' = "stopping"
        /\ pool' = [x \in Sids |-> IF x = s THEN "closed" ELSE pool[x]]
        /\ closing' = [closing EXCEPT ![Sweeper] = NoSid]
        /\ expired' = {}
        /\ UNCHANGED <<registered, age, held, cookie, pc, carried, target>>

\* close_all_sessions pops the next session ...
CloseAllPops(s) ==
    /\ phase = "stopping"
    /\ closing[Lifespan] = NoSid
    /\ s \in registered
    /\ PopAndClose(Lifespan, s)
    /\ UNCHANGED <<age, held, cookie, pc, carried, target, expired, phase>>

\* ... and awaits its close; one that raises ends the shutdown there.
CloseAllAwaits ==
    /\ phase = "stopping"
    /\ CloseEnds(Lifespan)
    /\ phase' \in {"stopping", "aborted"}
    /\ UNCHANGED <<registered, age, held, cookie, pc, carried, target, expired>>

Stopped ==
    /\ phase = "stopping"
    /\ registered = {}
    /\ closing[Lifespan] = NoSid
    /\ phase' = "stopped"
    /\ UNCHANGED <<registered, age, pool, held, cookie, pc, carried, target,
                   closing, expired>>

-----------------------------------------------------------------------------

\* What a request does by itself once the server has it.
Handle(t) ==
    \/ LoginRefused(t)
    \/ \E s \in Sids : LoginDial(t, s)
    \/ LoginDialFails(t)
    \/ LoginFailed(t)
    \/ LoginRegisters(t)
    \/ LoginRevoked(t)
    \/ Logout(t)
    \/ LogoutRevoked(t)
    \/ Deliver(t)
    \/ ResponseLost(t)
    \/ Unauthorized(t)
    \/ Touch(t)
    \/ Admit(t)
    \/ Acquired(t)
    \/ AcquireFails(t)
    \/ OperationEnds(t)
    \/ ExportStreams(t)
    \/ StreamEnds(t)

Sweep ==
    \/ SweepBegins
    \/ \E s \in Sids : SweepGoesOn(s)
    \/ SweepEnds

Stop ==
    \/ SweepCancelled
    \/ \E s \in Sids : CloseAllPops(s)
    \/ CloseAllAwaits
    \/ Stopped

Next ==
    \/ \E t \in Tasks : Send(t) \/ Handle(t) \/ ClientVanishes(t)
    \/ Tick
    \/ Sweep
    \/ Shutdown
    \/ Stop

\* The event loop runs whatever is ready; dials, queries and closes end, by
\* their result or by a timeout; a waiting acquire is served in turn. Nothing
\* obliges a browser to send, a client to stay or the process to stop.
Fairness ==
    /\ \A t \in Tasks : WF_vars(Handle(t)) /\ SF_vars(Acquired(t))
    /\ WF_vars(Tick)
    /\ WF_vars(Sweep)
    /\ WF_vars(Stop)

Spec == Init /\ [][Next]_vars /\ Fairness

-----------------------------------------------------------------------------
(* Properties.                                                             *)

Dials(s) == {t \in Tasks : target[t] = s /\ pc[t] = "dialing"}
Closers(s) == {a \in Actors : closing[a] = s}

\* No pool outlives its session: an open pool is a registered session's or
\* that of one login still dialing, and a closing pool is awaited by exactly
\* one task, whichever of logout, re-login, failed login, sweep and shutdown
\* got to it first (_pop_and_close pops before it awaits).
NoPoolLeaked ==
    \A s \in Sids :
        /\ s \in registered => pool[s] = "open" /\ Dials(s) = {}
        /\ pool[s] = "open" /\ s \notin registered => \E t \in Tasks : Dials(s) = {t}
        /\ pool[s] = "closing" => \E a \in Actors : Closers(s) = {a}
        /\ pool[s] # "closing" => Closers(s) = {}

\* A connection is held only by a request that is still being handled: the
\* endpoints' async with, and export_rows' except and finally, give it back.
\* (They do not for a download whose client was gone before it began.)
HeldByRunningTask ==
    \A s \in Sids : \A t \in held[s] :
        pc[t] \in {"dialing", "vanished"} \union Working /\ target[t] = s

\* A login never answers while the session it replaces still works, whatever
\* ran while it awaited the old pool (auth.login revokes before it responds).
ReloginRevokes ==
    \A t \in Tasks : pc[t] = "loggedIn" => carried[t] \notin registered

\* After a shutdown that met no error no pool is left, whatever the sweep was
\* doing when it was cancelled.
ShutdownClosesAll ==
    phase = "stopped" => \A s \in Sids : pool[s] \in {"none", "closed"}

\* Can any browser or request in flight still present the token s?
Reachable(s) ==
    \/ \E b \in Browsers : cookie[b] = s
    \/ \E t \in Tasks : s \in {carried[t], target[t]}

\* Every client waits for its download to begin.
NobodyVanishes == [](\A t \in Tasks : pc[t] # "vanished")

\* A session nobody can use any more (its Set-Cookie was lost, or a parallel
\* login overwrote it) does not live for ever: the sweep closes it, even when
\* a pass fails half way.
OrphansEvicted ==
    NobodyVanishes =>
        \A s \in Sids : s \in registered /\ ~Reachable(s)
                             ~> s \notin registered \/ phase = "aborted"

\* Every request is answered: no login, logout or query waits for ever for a
\* connection or for another task's pool to close.
RequestsEnd ==
    NobodyVanishes => \A t \in Tasks : pc[t] # "idle" ~> pc[t] = "idle"

Access == INSTANCE SessionAccess WITH
    live <- registered,
    spent <- {s \in Sids : pool[s] \in {"closing", "closed"}},
    serving <- [s \in Sids |-> {t \in held[s] : pc[t] # "dialing"}]

\* Registry, pools and handlers together keep the promise of SessionAccess.
ImplementsAccess == Access!Spec

=============================================================================
