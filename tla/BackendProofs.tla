---------------------------- MODULE BackendProofs ----------------------------
(***************************************************************************)
(* Theorems about the backend's login: Sessions, for any number of         *)
(* browsers, requests and tokens (the registry, the pools and the tasks    *)
(* stay consistent, and the whole implements SessionAccess), and           *)
(* LoginRateLimit, for any clients, any number of attempts at once, any    *)
(* limit and any window (how far the limit can be overshot).               *)
(***************************************************************************)
EXTENDS Sessions, LoginRateLimit, FiniteSetTheorems, TLAPS

-----------------------------------------------------------------------------
(* The sessions: the inductive invariant.                                  *)

Serving == {"acquiring", "using", "streaming", "vanished"}

\* s is a token some login registered once: not one a login is dialing for.
Issued(s) == pool[s] # "none" /\ \A t \in Tasks : pc[t] = "dialing" => target[t] # s

\* A registered session's pool is open and no login is still dialing through it.
RegisteredOpen == \A s \in registered : pool[s] = "open" /\ Issued(s)

\* A login that dials has its pool to itself: nobody knows the token yet.
DialingAlone ==
    \A t \in Tasks : pc[t] = "dialing" =>
        /\ target[t] \in Sids
        /\ pool[target[t]] = "open"
        /\ held[target[t]] = {t}

\* A pool stays open only for the registry or for the login that made it.
OpenOwned ==
    \A s \in Sids : pool[s] = "open" /\ s \notin registered =>
        \E t \in Tasks : pc[t] = "dialing" /\ target[t] = s

\* A closing pool is awaited by one actor, the one that popped its session.
OneCloser ==
    /\ \A s \in Sids : pool[s] = "closing" => \E a \in Actors : closing[a] = s
    /\ \A a \in Actors : closing[a] # NoSid => pool[closing[a]] = "closing"
    /\ \A a, b \in Actors : closing[a] = closing[b] /\ closing[a] # NoSid => a = b

\* A request awaits a close exactly in the three handlers that call one.
AwaitingClose ==
    \A t \in Tasks : closing[t] # NoSid <=> pc[t] \in {"failing", "revoking", "leaving"}

\* A pool lends connections only to requests that work on its session.
HeldByUser ==
    \A s \in Sids : \A t \in held[s] :
        target[t] = s /\ pc[t] \in {"dialing", "using", "streaming", "vanished"}

\* Every token out there, in a jar or in a request, was once registered, so it
\* is not one that a login is about to register.
KnownTokens ==
    /\ \A b \in Browsers : cookie[b] # NoSid => Issued(cookie[b])
    /\ \A t \in Tasks : carried[t] # NoSid => Issued(carried[t])
    /\ \A t \in Tasks : pc[t] # "dialing" /\ target[t] # NoSid => Issued(target[t])
    /\ \A t \in Tasks : pc[t] \in Serving => target[t] # NoSid

\* From its revocation on, the session a login replaces is out of the registry.
OldRevoked ==
    \A t \in Tasks : pc[t] \in {"revoking", "loggedIn"} => carried[t] \notin registered

\* Once the lifespan stops, requests and sweep are over.
Quiet ==
    /\ phase \in {"stopping", "stopped", "aborted"} =>
           /\ \A t \in Tasks : pc[t] \in {"idle", "vanished"}
           /\ closing[Sweeper] = NoSid
    /\ phase = "stopped" => registered = {} /\ closing[Lifespan] = NoSid

\* A vanished client is one the environment allows.
VanishingAllowed == \A t \in Tasks : pc[t] = "vanished" => ClientMayVanish

Consistent ==
    /\ TypeOK
    /\ RegisteredOpen
    /\ DialingAlone
    /\ OpenOwned
    /\ OneCloser
    /\ AwaitingClose
    /\ HeldByUser
    /\ KnownTokens
    /\ OldRevoked
    /\ Quiet
    /\ VanishingAllowed

-----------------------------------------------------------------------------
(* Every step keeps the invariant: one lemma per action.                   *)

LEMMA SendKeeps ==
  ASSUME Consistent, NEW t \in Tasks, Send(t)
  PROVE  Consistent'
<1> USE DEF Consistent
<1>1. PICK step \in Arrived : pc' = [pc EXCEPT ![t] = step]
  BY DEF Send, Goto
<1>2. /\ step \in Steps
      /\ step \notin Serving \union {"dialing", "failing", "revoking", "leaving",
                                   "loggedIn"}
  BY DEF Arrived, Steps, Serving
<1>3. /\ cookie[Owner[t]] \in MaybeSid
      /\ cookie[Owner[t]] # NoSid => Issued(cookie[Owner[t]])
      /\ carried' = [carried EXCEPT ![t] = cookie[Owner[t]]]
  BY OwnerAssumption DEF Send, TypeOK, KnownTokens
<1>4. TypeOK'
  BY <1>1, <1>2, <1>3 DEF Send, TypeOK
<1>5. KnownTokens'
  <2>1. \A s \in Sids : Issued(s) => Issued(s)'
    BY <1>1, <1>2 DEF Send, TypeOK, Issued
  <2>2. (\A b \in Browsers : cookie[b] # NoSid => Issued(cookie[b]))'
    BY <2>1 DEF Send, TypeOK, KnownTokens, MaybeSid
  <2>3. (\A u \in Tasks : carried[u] # NoSid => Issued(carried[u]))'
    BY <1>3, <2>1 DEF TypeOK, KnownTokens, MaybeSid
  <2>4. (\A u \in Tasks : pc[u] # "dialing" /\ target[u] # NoSid
                             => Issued(target[u]))'
    BY <1>1, <2>1 DEF Send, TypeOK, KnownTokens, MaybeSid
  <2>5. (\A u \in Tasks : pc[u] \in Serving => target[u] # NoSid)'
    BY <1>1, <1>2 DEF Send, TypeOK, KnownTokens
  <2> QED BY <2>2, <2>3, <2>4, <2>5 DEF KnownTokens
<1>6. (RegisteredOpen /\ DialingAlone /\ OpenOwned /\ OneCloser)'
  BY <1>1, <1>2 DEF Send, TypeOK, RegisteredOpen, DialingAlone, OpenOwned,
     OneCloser, Issued, Actors
<1>7. (AwaitingClose /\ HeldByUser /\ VanishingAllowed)'
  BY <1>1, <1>2 DEF Send, TypeOK, AwaitingClose, HeldByUser, VanishingAllowed,
     Arrived
<1>8. (OldRevoked /\ Quiet)'
  BY <1>1, <1>2 DEF Send, TypeOK, OldRevoked, Quiet
<1> QED BY <1>4, <1>5, <1>6, <1>7, <1>8

LEMMA LoginRefusedKeeps ==
  ASSUME Consistent, NEW t \in Tasks, LoginRefused(t)
  PROVE  Consistent'
<1> USE DEF Consistent, LoginRefused, Answer, Goto
<1>1. TypeOK' BY DEF TypeOK, MaybeSid, Steps
<1>2. RegisteredOpen' BY DEF RegisteredOpen, Issued
<1>3. DialingAlone' BY DEF DialingAlone
<1>4. OpenOwned' BY DEF OpenOwned
<1>5. AwaitingClose' BY DEF AwaitingClose
<1>6. HeldByUser' BY DEF HeldByUser
<1>7. KnownTokens' BY DEF KnownTokens, Issued, Serving
<1>8. OldRevoked' BY DEF OldRevoked
<1>9. Quiet' BY DEF Quiet
<1>10. VanishingAllowed' BY DEF VanishingAllowed
<1> QED
  BY <1>1, <1>2, <1>3, <1>4, <1>5, <1>6, <1>7, <1>8, <1>9, <1>10 DEF
     OneCloser, Actors

LEMMA LoginDialKeeps ==
  ASSUME Consistent, NEW t \in Tasks, NEW s \in Sids, LoginDial(t, s)
  PROVE  Consistent'
<1> USE DEF Consistent, LoginDial, Goto
<1>1. TypeOK' BY DEF TypeOK, MaybeSid, PoolStates, Steps
<1>2. RegisteredOpen' BY DEF TypeOK, RegisteredOpen, Issued
<1>3. DialingAlone' BY DEF TypeOK, DialingAlone
<1>4. OpenOwned' BY DEF TypeOK, OpenOwned
<1>5. OneCloser' BY DEF OneCloser
<1>6. AwaitingClose' BY DEF AwaitingClose
<1>7. HeldByUser' BY DEF TypeOK, HeldByUser
<1>8. KnownTokens' BY DEF TypeOK, KnownTokens, Issued, Serving
<1>9. OldRevoked' BY DEF OldRevoked
<1>10. Quiet' BY DEF Quiet
<1>11. VanishingAllowed' BY DEF VanishingAllowed
<1> QED BY <1>1, <1>2, <1>3, <1>4, <1>5, <1>6, <1>7, <1>8, <1>9, <1>10, <1>11

LEMMA LoginDialFailsKeeps ==
  ASSUME Consistent, NEW t \in Tasks, LoginDialFails(t)
  PROVE  Consistent'
<1> USE DEF Consistent, LoginDialFails, Release, BeginClose, Goto
<1>1. TypeOK' BY DEF TypeOK, PoolStates, Steps
<1>2. RegisteredOpen' BY DEF RegisteredOpen, Issued
<1>3. DialingAlone' BY DEF TypeOK, DialingAlone
<1>4. OpenOwned' BY DEF TypeOK, OpenOwned
<1>5. OneCloser'
  BY SidAssumption DEF TypeOK, DialingAlone, OneCloser, AwaitingClose, Actors
<1>6. AwaitingClose'
  BY SidAssumption DEF TypeOK, DialingAlone, AwaitingClose, Actors
<1>7. HeldByUser' BY DEF TypeOK, HeldByUser
<1>a. /\ target[t] \in Sids
      /\ held[target[t]] = {t}
  BY DEF DialingAlone
<1>b. \A u \in Tasks \ {t} : pc[u] = "dialing" => target[u] # target[t]
  BY <1>a DEF DialingAlone
<1>8. KnownTokens'
  BY <1>a, <1>b, SidAssumption DEF KnownTokens, Issued, Serving, TypeOK, MaybeSid
<1>9. OldRevoked' BY DEF OldRevoked
<1>10. Quiet' BY DEF Quiet
<1>11. VanishingAllowed' BY DEF VanishingAllowed
<1> QED BY <1>1, <1>2, <1>3, <1>4, <1>5, <1>6, <1>7, <1>8, <1>9, <1>10, <1>11

LEMMA LoginFailedKeeps ==
  ASSUME Consistent, NEW t \in Tasks, LoginFailed(t)
  PROVE  Consistent'
<1> USE DEF Consistent, LoginFailed, CloseEnds, Answer, Goto
<1>1. TypeOK' BY DEF TypeOK, MaybeSid, PoolStates, Steps
<1>2. RegisteredOpen' BY DEF RegisteredOpen, OneCloser, Issued, Actors
<1>3. DialingAlone' BY DEF DialingAlone
<1>4. OpenOwned' BY DEF OpenOwned
<1>5. OneCloser' BY DEF TypeOK, OneCloser, Actors
<1>6. AwaitingClose' BY DEF TypeOK, AwaitingClose, Actors
<1>7. HeldByUser' BY DEF HeldByUser
<1>8. KnownTokens' BY DEF KnownTokens, Issued, Serving
<1>9. OldRevoked' BY DEF OldRevoked
<1>10. Quiet' BY DEF Quiet
<1>11. VanishingAllowed' BY DEF VanishingAllowed
<1> QED BY <1>1, <1>2, <1>3, <1>4, <1>5, <1>6, <1>7, <1>8, <1>9, <1>10, <1>11

\* The registry changes hands: the new token enters it and the one it replaces
\* leaves it. They differ, since a cookie names a token some login registered.
LEMMA LoginRegistersKeeps ==
  ASSUME Consistent, NEW t \in Tasks, LoginRegisters(t)
  PROVE  Consistent'
<1> USE DEF Consistent, LoginRegisters, Release, BeginClose, Goto
<1>1. /\ target[t] \in Sids
      /\ pool[target[t]] = "open"
      /\ held[target[t]] = {t}
  BY DEF DialingAlone
<1>2. carried[t] # target[t]
  BY <1>1, SidAssumption DEF KnownTokens, Issued
<1>3. target[t] \notin registered
  BY <1>1 DEF RegisteredOpen, Issued
<1>4. \A u \in Tasks \ {t} : pc[u] = "dialing" => target[u] # target[t]
  BY <1>1 DEF DialingAlone
<1>5. CASE carried[t] \in registered
  <2>1. TypeOK'
    BY <1>1, <1>5, LimitAssumption DEF TypeOK, PoolStates, Steps, Stale, Actors
  <2>2. RegisteredOpen'
    BY <1>1, <1>2, <1>3, <1>4, <1>5 DEF TypeOK, RegisteredOpen, Issued
  <2>3. (DialingAlone /\ OpenOwned)'
    BY <1>1, <1>2, <1>4, <1>5 DEF TypeOK, RegisteredOpen, DialingAlone, OpenOwned,
       Issued
  <2>4. (OneCloser /\ AwaitingClose)'
    <3>1. closing[t] = NoSid /\ carried[t] \in Sids /\ pool[carried[t]] = "open"
      BY <1>5 DEF TypeOK, AwaitingClose, RegisteredOpen
    <3>2. \A a \in Actors : closing[a] # carried[t]
      BY <3>1, SidAssumption DEF OneCloser
    <3>3. OneCloser'
      <4> t \in Actors BY DEF Actors
      <4>1. /\ closing' = [closing EXCEPT ![t] = carried[t]]
            /\ pool' = [pool EXCEPT ![carried[t]] = "closing"]
        BY <1>5
      <4>2. (\A s \in Sids : pool[s] = "closing" => \E a \in Actors : closing[a] = s)'
        BY <3>1, <4>1, SidAssumption DEF TypeOK, OneCloser
      <4>3. (\A a \in Actors : closing[a] # NoSid => pool[closing[a]] = "closing")'
        BY <3>1, <3>2, <4>1 DEF TypeOK, OneCloser, MaybeSid
      <4>4. (\A a, b \in Actors :
                closing[a] = closing[b] /\ closing[a] # NoSid => a = b)'
        BY <3>1, <3>2, <4>1 DEF TypeOK, OneCloser
      <4> QED BY <4>2, <4>3, <4>4 DEF OneCloser
    <3>4. AwaitingClose'
      BY <1>5, <3>1, SidAssumption DEF TypeOK, AwaitingClose, Actors
    <3> QED BY <3>3, <3>4
  <2>5. HeldByUser'
    BY <1>1, <1>5 DEF TypeOK, HeldByUser
  <2>6. (OldRevoked /\ VanishingAllowed)'
    BY <1>1, <1>2, <1>5, SidAssumption DEF TypeOK, OldRevoked, VanishingAllowed,
       KnownTokens, Issued
  <2>7. Quiet'
    BY <1>5 DEF TypeOK, Quiet
  <2>8. KnownTokens'
    BY <1>1, <1>2, <1>4, <1>5 DEF TypeOK, KnownTokens, Issued, Serving, MaybeSid
  <2> QED BY <2>1, <2>2, <2>3, <2>4, <2>5, <2>6, <2>7, <2>8
<1>6. CASE carried[t] \notin registered
  <2>1. TypeOK'
    BY <1>1, <1>6, LimitAssumption DEF TypeOK, PoolStates, Steps, Stale, Actors
  <2>2. RegisteredOpen'
    BY <1>1, <1>3, <1>4, <1>6 DEF TypeOK, RegisteredOpen, Issued
  <2>3. (DialingAlone /\ OpenOwned)'
    BY <1>1, <1>4, <1>6 DEF TypeOK, DialingAlone, OpenOwned
  <2>4. (OneCloser /\ AwaitingClose)'
    BY <1>6 DEF TypeOK, OneCloser, AwaitingClose
  <2>5. HeldByUser'
    BY <1>1, <1>6 DEF TypeOK, HeldByUser
  <2>6. (OldRevoked /\ VanishingAllowed)'
    BY <1>1, <1>2, <1>6, SidAssumption DEF TypeOK, OldRevoked, VanishingAllowed,
       KnownTokens, Issued
  <2>7. Quiet'
    BY <1>6 DEF TypeOK, Quiet
  <2>8. KnownTokens'
    BY <1>1, <1>4, <1>6 DEF TypeOK, KnownTokens, Issued, Serving, MaybeSid
  <2> QED BY <2>1, <2>2, <2>3, <2>4, <2>5, <2>6, <2>7, <2>8
<1> QED BY <1>5, <1>6

LEMMA LoginRevokedKeeps ==
  ASSUME Consistent, NEW t \in Tasks, LoginRevoked(t)
  PROVE  Consistent'
<1> USE DEF Consistent, LoginRevoked, CloseEnds, Answer, Goto
<1>1. TypeOK'
  <2>1. CASE Goto(t, "loggedIn") /\ UNCHANGED <<carried, target>>
    BY <2>1 DEF TypeOK, MaybeSid, PoolStates, Steps
  <2>2. CASE Answer(t)
    BY <2>2 DEF TypeOK, MaybeSid, PoolStates, Steps
  <2> QED BY <2>1, <2>2
<1>2. RegisteredOpen' BY DEF TypeOK, RegisteredOpen, OneCloser, Issued, Actors
<1>3. DialingAlone'
  <2>1. CASE Goto(t, "loggedIn") /\ UNCHANGED <<carried, target>>
    BY <2>1 DEF TypeOK, DialingAlone
  <2>2. CASE Answer(t)
    BY <2>2 DEF TypeOK, DialingAlone
  <2> QED BY <2>1, <2>2
<1>4. OpenOwned' BY DEF TypeOK, OpenOwned
<1>5. OneCloser' BY DEF TypeOK, OneCloser, Actors
<1>6. AwaitingClose' BY DEF TypeOK, AwaitingClose, Actors
<1>7. HeldByUser' BY DEF TypeOK, HeldByUser
<1>8. KnownTokens' BY DEF TypeOK, KnownTokens, Issued, Serving
<1>9. OldRevoked' BY DEF TypeOK, OldRevoked
<1>10. Quiet' BY DEF Quiet
<1>11. VanishingAllowed' BY DEF TypeOK, VanishingAllowed
<1> QED BY <1>1, <1>2, <1>3, <1>4, <1>5, <1>6, <1>7, <1>8, <1>9, <1>10, <1>11

LEMMA LogoutKeeps ==
  ASSUME Consistent, NEW t \in Tasks, Logout(t)
  PROVE  Consistent'
<1> USE DEF Consistent, Logout, PopAndClose, BeginClose, Goto
<1>1. TypeOK' BY DEF TypeOK, PoolStates, Steps
<1>2. RegisteredOpen' BY DEF TypeOK, RegisteredOpen, Issued
<1>3. DialingAlone' BY DEF TypeOK, RegisteredOpen, DialingAlone, Issued
<1>4. OpenOwned' BY DEF TypeOK, OpenOwned
<1>5. OneCloser'
  BY SidAssumption DEF TypeOK, RegisteredOpen, OneCloser,
     AwaitingClose, Actors, MaybeSid
<1>6. AwaitingClose' BY SidAssumption DEF TypeOK, AwaitingClose, Actors
<1>7. HeldByUser' BY DEF TypeOK, HeldByUser
<1>8. KnownTokens' BY DEF TypeOK, KnownTokens, Issued, Serving, MaybeSid
<1>9. OldRevoked' BY DEF TypeOK, OldRevoked
<1>10. Quiet' BY DEF Quiet
<1>11. VanishingAllowed' BY DEF TypeOK, VanishingAllowed
<1> QED BY <1>1, <1>2, <1>3, <1>4, <1>5, <1>6, <1>7, <1>8, <1>9, <1>10, <1>11

LEMMA LogoutRevokedKeeps ==
  ASSUME Consistent, NEW t \in Tasks, LogoutRevoked(t)
  PROVE  Consistent'
<1> USE DEF Consistent, LogoutRevoked, CloseEnds, Answer, Goto
<1>1. TypeOK'
  <2>1. CASE Goto(t, "loggedOut") /\ UNCHANGED <<carried, target>>
    BY <2>1 DEF TypeOK, MaybeSid, PoolStates, Steps
  <2>2. CASE Answer(t)
    BY <2>2 DEF TypeOK, MaybeSid, PoolStates, Steps
  <2> QED BY <2>1, <2>2
<1>2. RegisteredOpen' BY DEF TypeOK, RegisteredOpen, OneCloser, Issued, Actors
<1>3. DialingAlone'
  <2>1. CASE Goto(t, "loggedOut") /\ UNCHANGED <<carried, target>>
    BY <2>1 DEF TypeOK, DialingAlone
  <2>2. CASE Answer(t)
    BY <2>2 DEF TypeOK, DialingAlone
  <2> QED BY <2>1, <2>2
<1>4. OpenOwned' BY DEF TypeOK, OpenOwned
<1>5. OneCloser' BY DEF TypeOK, OneCloser, Actors
<1>6. AwaitingClose' BY DEF TypeOK, AwaitingClose, Actors
<1>7. HeldByUser' BY DEF TypeOK, HeldByUser
<1>8. KnownTokens' BY DEF TypeOK, KnownTokens, Issued, Serving
<1>9. OldRevoked' BY DEF TypeOK, OldRevoked
<1>10. Quiet' BY DEF Quiet
<1>11. VanishingAllowed' BY DEF TypeOK, VanishingAllowed
<1> QED BY <1>1, <1>2, <1>3, <1>4, <1>5, <1>6, <1>7, <1>8, <1>9, <1>10, <1>11

LEMMA DeliverKeeps ==
  ASSUME Consistent, NEW t \in Tasks, Deliver(t)
  PROVE  Consistent'
<1> USE DEF Consistent, Deliver, Answer, Goto
<1>1. TypeOK' BY DEF TypeOK, MaybeSid, Steps
<1> QED
  BY <1>1 DEF TypeOK, RegisteredOpen, DialingAlone, OpenOwned, AwaitingClose,
     HeldByUser, KnownTokens, OldRevoked, Quiet, VanishingAllowed, OneCloser,
     Issued, Serving, Actors

LEMMA ResponseLostKeeps ==
  ASSUME Consistent, NEW t \in Tasks, ResponseLost(t)
  PROVE  Consistent'
<1> USE DEF Consistent, ResponseLost, Answer, Goto
<1>1. TypeOK' BY DEF TypeOK, MaybeSid, Steps
<1> QED
  BY <1>1 DEF TypeOK, RegisteredOpen, DialingAlone, OpenOwned, AwaitingClose,
     HeldByUser, KnownTokens, OldRevoked, Quiet, VanishingAllowed, OneCloser,
     Issued, Serving, Actors

LEMMA UnauthorizedKeeps ==
  ASSUME Consistent, NEW t \in Tasks, Unauthorized(t)
  PROVE  Consistent'
<1> USE DEF Consistent, Unauthorized, Answer, Goto
<1>1. TypeOK' BY DEF TypeOK, MaybeSid, Steps
<1>2. RegisteredOpen' BY DEF RegisteredOpen, Issued
<1>3. DialingAlone' BY DEF DialingAlone
<1>4. OpenOwned' BY DEF OpenOwned
<1>5. AwaitingClose' BY DEF AwaitingClose
<1>6. HeldByUser' BY DEF HeldByUser
<1>7. KnownTokens' BY DEF KnownTokens, Issued, Serving
<1>8. OldRevoked' BY DEF OldRevoked
<1>9. Quiet' BY DEF Quiet
<1>10. VanishingAllowed' BY DEF VanishingAllowed
<1> QED
  BY <1>1, <1>2, <1>3, <1>4, <1>5, <1>6, <1>7, <1>8, <1>9, <1>10 DEF
     OneCloser, Actors

LEMMA TouchKeeps ==
  ASSUME Consistent, NEW t \in Tasks, Touch(t)
  PROVE  Consistent'
<1> USE DEF Consistent, Touch, Answer, Goto
<1>1. TypeOK' BY LimitAssumption DEF TypeOK, MaybeSid, Stale, Steps
<1> QED
  BY <1>1 DEF RegisteredOpen, DialingAlone, OpenOwned, AwaitingClose,
     HeldByUser, KnownTokens, OldRevoked, Quiet, VanishingAllowed, OneCloser,
     Issued, Serving, Actors

LEMMA AdmitKeeps ==
  ASSUME Consistent, NEW t \in Tasks, Admit(t)
  PROVE  Consistent'
<1> USE DEF Consistent, Admit, Goto
<1>1. TypeOK' BY LimitAssumption DEF TypeOK, Stale, Steps
<1>2. KnownTokens' BY SidAssumption DEF TypeOK, KnownTokens, Issued
<1> QED
  BY <1>1, <1>2 DEF RegisteredOpen, DialingAlone, OpenOwned, AwaitingClose,
     HeldByUser, OldRevoked, Quiet, VanishingAllowed, OneCloser, Issued,
     Actors

LEMMA AcquiredKeeps ==
  ASSUME Consistent, NEW t \in Tasks, Acquired(t)
  PROVE  Consistent'
<1> USE DEF Consistent, Acquired, Goto
<1>1. TypeOK' BY DEF TypeOK, KnownTokens, Serving, MaybeSid, Working, Steps
<1>2. DialingAlone' BY SidAssumption DEF DialingAlone, KnownTokens, Issued
<1> QED
  BY <1>1, <1>2 DEF TypeOK, RegisteredOpen, OpenOwned, AwaitingClose,
     HeldByUser, KnownTokens, OldRevoked, Quiet, VanishingAllowed, OneCloser,
     Issued, Serving, Actors

LEMMA AcquireFailsKeeps ==
  ASSUME Consistent, NEW t \in Tasks, AcquireFails(t)
  PROVE  Consistent'
<1> USE DEF Consistent, AcquireFails, Answer, Goto
<1>1. TypeOK' BY DEF TypeOK, MaybeSid, Steps
<1> QED
  BY <1>1 DEF TypeOK, RegisteredOpen, DialingAlone, OpenOwned, AwaitingClose,
     HeldByUser, KnownTokens, OldRevoked, Quiet, VanishingAllowed, OneCloser,
     Issued, Serving, Actors

LEMMA OperationEndsKeeps ==
  ASSUME Consistent, NEW t \in Tasks, OperationEnds(t)
  PROVE  Consistent'
<1> USE DEF Consistent, OperationEnds, Release, Answer, Goto
<1>1. TypeOK' BY DEF TypeOK, MaybeSid, Steps
<1>2. RegisteredOpen' BY DEF RegisteredOpen, Issued
<1>3. DialingAlone' BY DEF DialingAlone
<1>4. OpenOwned' BY DEF OpenOwned
<1>5. AwaitingClose' BY DEF AwaitingClose
<1>6. HeldByUser' BY DEF TypeOK, HeldByUser
<1>7. KnownTokens' BY DEF TypeOK, KnownTokens, Issued, Serving
<1>8. OldRevoked' BY DEF OldRevoked
<1>9. Quiet' BY DEF Quiet
<1>10. VanishingAllowed' BY DEF VanishingAllowed
<1> QED
  BY <1>1, <1>2, <1>3, <1>4, <1>5, <1>6, <1>7, <1>8, <1>9, <1>10 DEF
     OneCloser, Actors

LEMMA ExportStreamsKeeps ==
  ASSUME Consistent, NEW t \in Tasks, ExportStreams(t)
  PROVE  Consistent'
<1> USE DEF Consistent, ExportStreams, Goto
<1>1. TypeOK' BY DEF TypeOK, Working, Steps
<1> QED
  BY <1>1 DEF RegisteredOpen, DialingAlone, OpenOwned, AwaitingClose,
     HeldByUser, KnownTokens, OldRevoked, Quiet, VanishingAllowed, OneCloser,
     Issued, Serving, Actors

LEMMA StreamEndsKeeps ==
  ASSUME Consistent, NEW t \in Tasks, StreamEnds(t)
  PROVE  Consistent'
<1> USE DEF Consistent, StreamEnds, Release, Answer, Goto
<1>1. TypeOK' BY DEF TypeOK, MaybeSid, Steps
<1>2. RegisteredOpen' BY DEF RegisteredOpen, Issued
<1>3. DialingAlone' BY DEF DialingAlone
<1>4. OpenOwned' BY DEF OpenOwned
<1>5. AwaitingClose' BY DEF AwaitingClose
<1>6. HeldByUser' BY DEF TypeOK, HeldByUser
<1>7. KnownTokens' BY DEF TypeOK, KnownTokens, Issued, Serving
<1>8. OldRevoked' BY DEF OldRevoked
<1>9. Quiet' BY DEF Quiet
<1>10. VanishingAllowed' BY DEF VanishingAllowed
<1> QED
  BY <1>1, <1>2, <1>3, <1>4, <1>5, <1>6, <1>7, <1>8, <1>9, <1>10 DEF
     OneCloser, Actors

LEMMA ClientVanishesKeeps ==
  ASSUME Consistent, NEW t \in Tasks, ClientVanishes(t)
  PROVE  Consistent'
<1> USE DEF Consistent, ClientVanishes, Goto
<1>1. TypeOK' BY DEF TypeOK, Steps
<1> QED
  BY <1>1 DEF RegisteredOpen, DialingAlone, OpenOwned, AwaitingClose,
     HeldByUser, KnownTokens, OldRevoked, Quiet, VanishingAllowed, OneCloser,
     Issued, Serving, Actors

LEMMA TickKeeps ==
  ASSUME Consistent, Tick
  PROVE  Consistent'
<1> USE DEF Consistent, Tick
<1>1. TypeOK' BY LimitAssumption DEF TypeOK, Stale
<1> QED
  BY <1>1 DEF RegisteredOpen, DialingAlone, OpenOwned, OneCloser,
     AwaitingClose, HeldByUser, KnownTokens, OldRevoked, Quiet,
     VanishingAllowed, Issued, Serving, Actors

LEMMA SweepBeginsKeeps ==
  ASSUME Consistent, SweepBegins
  PROVE  Consistent'
<1> USE DEF Consistent, SweepBegins, PopAndClose, BeginClose, SweeperRuns
<1>1. TypeOK' BY DEF TypeOK, MaybeSid, PoolStates, Actors
<1>2. DialingAlone' BY DEF RegisteredOpen, DialingAlone, Issued
<1>3. OneCloser'
  BY SidAssumption DEF TypeOK, RegisteredOpen, OneCloser, Actors
<1>4. AwaitingClose' BY ActorAssumption DEF AwaitingClose
<1> QED
  BY <1>1, <1>2, <1>3, <1>4 DEF TypeOK, RegisteredOpen, OpenOwned,
     KnownTokens, OldRevoked, Quiet, HeldByUser, VanishingAllowed, Issued,
     Serving, Actors

LEMMA SweepGoesOnKeeps ==
  ASSUME Consistent, NEW s \in Sids, SweepGoesOn(s)
  PROVE  Consistent'
<1> USE DEF Consistent, SweepGoesOn, SweeperRuns
<1>1. TypeOK' BY DEF TypeOK, MaybeSid, PoolStates
<1>2. RegisteredOpen' BY DEF TypeOK, RegisteredOpen, OneCloser, Issued, Actors
<1>3. DialingAlone'
  BY SidAssumption DEF TypeOK, RegisteredOpen, DialingAlone, HeldByUser,
     Quiet, Issued, MaybeSid, Stale, Arrived, Working, Steps, Phases
<1>4. OneCloser' BY DEF TypeOK, RegisteredOpen, OneCloser, Actors, MaybeSid
<1>5. AwaitingClose' BY ActorAssumption DEF AwaitingClose
<1>6. KnownTokens' BY DEF TypeOK, KnownTokens, Issued, MaybeSid
<1> QED
  BY <1>1, <1>2, <1>3, <1>4, <1>5, <1>6 DEF TypeOK, OpenOwned, OldRevoked,
     Quiet, HeldByUser, VanishingAllowed, Actors

LEMMA SweepEndsKeeps ==
  ASSUME Consistent, SweepEnds
  PROVE  Consistent'
<1> USE DEF Consistent, SweepEnds, CloseEnds, SweeperRuns
<1>1. TypeOK' BY DEF TypeOK, MaybeSid, PoolStates
<1>2. RegisteredOpen' BY DEF RegisteredOpen, OneCloser, Issued, Actors
<1>3. AwaitingClose' BY ActorAssumption DEF AwaitingClose
<1> QED
  BY <1>1, <1>2, <1>3 DEF TypeOK, DialingAlone, OpenOwned, OneCloser,
     KnownTokens, Quiet, HeldByUser, OldRevoked, VanishingAllowed, Issued,
     Serving, Actors

LEMMA ShutdownKeeps ==
  ASSUME Consistent, Shutdown
  PROVE  Consistent'
<1> USE DEF Consistent, Shutdown
<1>1. TypeOK' BY DEF TypeOK, Phases
<1> QED
  BY <1>1 DEF Quiet, RegisteredOpen, DialingAlone, OpenOwned, OneCloser,
     AwaitingClose, HeldByUser, KnownTokens, OldRevoked, VanishingAllowed,
     Issued, Serving, Actors

LEMMA SweepCancelledKeeps ==
  ASSUME Consistent, SweepCancelled
  PROVE  Consistent'
<1> USE DEF Consistent, SweepCancelled
<1>1. TypeOK' BY DEF TypeOK, MaybeSid, PoolStates, Phases
<1>2. RegisteredOpen'
  BY SidAssumption DEF TypeOK, RegisteredOpen, OneCloser, Issued, Actors
<1>3. OneCloser' BY DEF TypeOK, OneCloser, Actors, MaybeSid
<1>4. KnownTokens' BY DEF TypeOK, KnownTokens, Issued, MaybeSid
<1> QED
  BY <1>1, <1>2, <1>3, <1>4 DEF TypeOK, DialingAlone, OpenOwned,
     AwaitingClose, Quiet, HeldByUser, OldRevoked, VanishingAllowed, Actors

LEMMA CloseAllPopsKeeps ==
  ASSUME Consistent, NEW s \in Sids, CloseAllPops(s)
  PROVE  Consistent'
<1> USE DEF Consistent, CloseAllPops, PopAndClose, BeginClose
<1>1. TypeOK' BY DEF TypeOK, MaybeSid, PoolStates
<1>2. DialingAlone' BY DEF DialingAlone, Quiet
<1>3. OneCloser'
  BY ActorAssumption DEF TypeOK, RegisteredOpen, OneCloser, Quiet, Actors
<1>4. AwaitingClose' BY ActorAssumption DEF AwaitingClose
<1>5. Quiet' BY ActorAssumption DEF Quiet
<1> QED
  BY <1>1, <1>2, <1>3, <1>4, <1>5 DEF TypeOK, RegisteredOpen, OpenOwned,
     KnownTokens, OldRevoked, HeldByUser, VanishingAllowed, Issued, Serving

LEMMA CloseAllAwaitsKeeps ==
  ASSUME Consistent, CloseAllAwaits
  PROVE  Consistent'
<1> USE DEF Consistent, CloseAllAwaits, CloseEnds
<1>1. TypeOK' BY DEF TypeOK, MaybeSid, PoolStates, Phases
<1>2. RegisteredOpen' BY DEF RegisteredOpen, OneCloser, Issued, Actors
<1>3. AwaitingClose' BY DEF AwaitingClose, Quiet
<1> QED
  BY <1>1, <1>2, <1>3 DEF TypeOK, DialingAlone, OpenOwned, OneCloser,
     KnownTokens, Quiet, HeldByUser, OldRevoked, VanishingAllowed, Issued,
     Serving, Actors

LEMMA StoppedKeeps ==
  ASSUME Consistent, Stopped
  PROVE  Consistent'
<1> USE DEF Consistent, Stopped
<1>1. TypeOK' BY DEF TypeOK, Phases
<1> QED
  BY <1>1 DEF Quiet, RegisteredOpen, DialingAlone, OpenOwned, OneCloser,
     AwaitingClose, HeldByUser, KnownTokens, OldRevoked, VanishingAllowed,
     Issued, Serving, Actors

\* The server starts with an empty registry and idle tasks.
LEMMA InitConsistent == Init => Consistent
<1> SUFFICES ASSUME Init PROVE Consistent
  OBVIOUS
<1>1. TypeOK
  BY LimitAssumption DEF Init, TypeOK, MaybeSid, PoolStates, Steps, Phases, Stale
<1>2. RegisteredOpen /\ DialingAlone /\ OpenOwned /\ HeldByUser
  BY DEF Init, RegisteredOpen, DialingAlone, OpenOwned, HeldByUser
<1>3. OneCloser /\ AwaitingClose
  BY DEF Init, OneCloser, AwaitingClose, Actors
<1>4. KnownTokens /\ OldRevoked /\ Quiet /\ VanishingAllowed
  BY DEF Init, KnownTokens, Serving, OldRevoked, Quiet, VanishingAllowed
<1> QED BY <1>1, <1>2, <1>3, <1>4 DEF Consistent

\* Whatever a request handler does next keeps the invariant.
LEMMA HandleKeeps ==
  ASSUME Consistent, NEW t \in Tasks, Handle(t)
  PROVE  Consistent'
  BY LoginRefusedKeeps, LoginDialKeeps, LoginDialFailsKeeps, LoginFailedKeeps,
     LoginRegistersKeeps, LoginRevokedKeeps, LogoutKeeps, LogoutRevokedKeeps,
     DeliverKeeps, ResponseLostKeeps, UnauthorizedKeeps, TouchKeeps,
     AdmitKeeps, AcquiredKeeps, AcquireFailsKeeps, OperationEndsKeeps,
     ExportStreamsKeeps, StreamEndsKeeps DEF Handle

\* So does every step of the program.
LEMMA StepConsistent == Consistent /\ [Next]_vars => Consistent'
<1> SUFFICES ASSUME Consistent, [Next]_vars PROVE Consistent'
  OBVIOUS
<1>1. ASSUME NEW t \in Tasks, Send(t) PROVE Consistent'
  BY <1>1, SendKeeps
<1>2. ASSUME NEW t \in Tasks, Handle(t) PROVE Consistent'
  BY <1>2, HandleKeeps
<1>3. ASSUME NEW t \in Tasks, ClientVanishes(t) PROVE Consistent'
  BY <1>3, ClientVanishesKeeps
<1>4. CASE Tick
  BY <1>4, TickKeeps
<1>5. CASE Sweep
  BY <1>5, SweepBeginsKeeps, SweepGoesOnKeeps, SweepEndsKeeps DEF Sweep
<1>6. CASE Shutdown
  BY <1>6, ShutdownKeeps
<1>7. CASE Stop
  BY <1>7, SweepCancelledKeeps, CloseAllPopsKeeps, CloseAllAwaitsKeeps,
     StoppedKeeps DEF Stop
<1>8. CASE UNCHANGED vars
  BY <1>8 DEF vars, Consistent, TypeOK, RegisteredOpen, DialingAlone, OpenOwned,
     OneCloser, AwaitingClose, HeldByUser, KnownTokens, OldRevoked, Quiet,
     VanishingAllowed, Issued, Serving
<1> QED BY <1>1, <1>2, <1>3, <1>4, <1>5, <1>6, <1>7, <1>8 DEF Next

\* The registry, the pools and the tasks agree in every reachable state.
THEOREM AlwaysConsistent == Spec => []Consistent
<1>1. Init => Consistent BY InitConsistent
<1>2. Consistent /\ [Next]_vars => Consistent' BY StepConsistent
<1> QED BY <1>1, <1>2, PTL DEF Spec

-----------------------------------------------------------------------------
(* What follows from it.                                                   *)

\* Every variable keeps its type, for any IdleTimeout: the saturating ages too.
THEOREM TypeCorrect == Spec => []TypeOK
<1>1. Consistent => TypeOK BY DEF Consistent
<1> QED BY <1>1, AlwaysConsistent, PTL

\* The invariant says who owns each pool; NoPoolLeaked counts the owners.
LEMMA ConsistentPools == Consistent => NoPoolLeaked
<1> SUFFICES ASSUME Consistent, NEW s \in Sids
             PROVE  /\ s \in registered => pool[s] = "open" /\ Dials(s) = {}
                    /\ pool[s] = "open" /\ s \notin registered =>
                           \E t \in Tasks : Dials(s) = {t}
                    /\ pool[s] = "closing" => \E a \in Actors : Closers(s) = {a}
                    /\ pool[s] # "closing" => Closers(s) = {}
  BY DEF NoPoolLeaked
<1>1. s \in registered => pool[s] = "open" /\ Dials(s) = {}
  BY DEF Consistent, RegisteredOpen, Issued, Dials
<1>2. ASSUME pool[s] = "open", s \notin registered
      PROVE  \E t \in Tasks : Dials(s) = {t}
  <2>1. PICK t \in Tasks : pc[t] = "dialing" /\ target[t] = s
    BY <1>2 DEF Consistent, OpenOwned
  <2>2. \A u \in Dials(s) : u = t
    BY <2>1 DEF Consistent, DialingAlone, Dials
  <2> QED BY <2>1, <2>2 DEF Dials
<1>3. ASSUME pool[s] = "closing"
      PROVE  \E a \in Actors : Closers(s) = {a}
  <2>1. PICK a \in Actors : closing[a] = s
    BY <1>3 DEF Consistent, OneCloser
  <2>2. \A b \in Closers(s) : b = a
    BY <2>1, SidAssumption DEF Consistent, OneCloser, Closers
  <2> QED BY <2>1, <2>2 DEF Closers
<1>4. pool[s] # "closing" => Closers(s) = {}
  BY SidAssumption DEF Consistent, OneCloser, Closers
<1> QED BY <1>1, <1>2, <1>3, <1>4

\* connections.py leaks no pool and closes none twice, however logins, logouts,
\* the sweep and the shutdown interleave.
THEOREM PoolsNeverLeak == Spec => []NoPoolLeaked
BY AlwaysConsistent, ConsistentPools, PTL

\* auth.login never answers while the session it replaces still works.
THEOREM LoginAlwaysRevokes == Spec => []ReloginRevokes
<1>1. Consistent => ReloginRevokes
  BY DEF Consistent, OldRevoked, ReloginRevokes
<1> QED BY <1>1, AlwaysConsistent, PTL

\* A shutdown that got through left no pool behind.
THEOREM ShutdownLeavesNoPool == Spec => []ShutdownClosesAll
<1>1. ASSUME Consistent, phase = "stopped", NEW s \in Sids
      PROVE  pool[s] \in {"none", "closed"}
  <2>1. \A a \in Actors : closing[a] = NoSid
    BY <1>1 DEF Consistent, Quiet, AwaitingClose, TypeOK, Actors
  <2>2. pool[s] # "closing"
    BY <1>1, <2>1, SidAssumption DEF Consistent, OneCloser
  <2>3. pool[s] # "open"
    BY <1>1 DEF Consistent, Quiet, OpenOwned
  <2> QED BY <1>1, <2>2, <2>3 DEF Consistent, TypeOK, PoolStates
<1>2. Consistent => ShutdownClosesAll
  BY <1>1 DEF ShutdownClosesAll
<1> QED BY <1>2, AlwaysConsistent, PTL

\* Every connection is held by a request that is still running, or by a download
\* whose client left before it began.
THEOREM ConnectionsReturned == Spec => []HeldByRunningTask
<1>1. Consistent => HeldByRunningTask
  BY DEF Consistent, HeldByUser, HeldByRunningTask, TypeOK, Working
<1> QED BY <1>1, AlwaysConsistent, PTL

-----------------------------------------------------------------------------
(* The refinement: what a step does to the sessions as SessionAccess sees   *)
(* them. Most steps change nothing it can see.                              *)

\* No token is live or spent before the first login.
LEMMA InitRefines == Init => Access!Init
BY DEF Init, Access!Init

\* A request opens, abandons, revokes or serves a session, stops being served, or
\* does something SessionAccess does not see.
LEMMA HandleRefines ==
  ASSUME Consistent, NEW t \in Tasks, Handle(t)
  PROVE  [Access!Next]_(Access!vars)
<1>1. CASE LoginRefused(t) \/ Unauthorized(t) \/ Touch(t) \/ AcquireFails(t)
  BY <1>1 DEF Consistent, TypeOK, HeldByUser, Goto,
     LoginRefused, Unauthorized, Touch, AcquireFails, Answer, Access!vars
<1>2. CASE Deliver(t) \/ ResponseLost(t)
  BY <1>2 DEF Consistent, TypeOK, HeldByUser, Goto,
     Deliver, ResponseLost, Answer, Access!vars
<1>3. CASE Admit(t) \/ ExportStreams(t)
  BY <1>3 DEF Consistent, TypeOK, HeldByUser, Goto,
     Admit, ExportStreams, Access!vars
<1>4. CASE LoginFailed(t) \/ LoginRevoked(t) \/ LogoutRevoked(t)
  BY <1>4 DEF Consistent, TypeOK, HeldByUser, Goto,
     LoginFailed, LoginRevoked, LogoutRevoked, CloseEnds, Answer,
     OneCloser, Actors, Access!vars
<1>5. ASSUME NEW s \in Sids, LoginDial(t, s) PROVE UNCHANGED Access!vars
  BY <1>5, SidAssumption DEF Consistent, TypeOK, HeldByUser, Goto,
     LoginDial, DialingAlone, KnownTokens, Issued,
     Serving, MaybeSid, Access!vars
<1>6. CASE LoginDialFails(t)
  <2>1. PICK s \in Sids : s = target[t]
    BY <1>6 DEF Consistent, LoginDialFails, DialingAlone
  <2>2. Access!Abandon(s)
    BY <1>6, <2>1 DEF Consistent, TypeOK, HeldByUser, LoginDialFails, Release,
       BeginClose, Goto, DialingAlone, RegisteredOpen, Issued, Access!Abandon
  <2> QED BY <2>2 DEF Access!Next
<1>7. CASE LoginRegisters(t)
  <2>1. PICK s \in Sids : s = target[t]
    BY <1>7 DEF Consistent, LoginRegisters, DialingAlone
  <2>2. ASSUME NEW old \in registered, old = carried[t]
        PROVE  Access!Open(s, {old})
    BY <1>7, <2>1, <2>2 DEF Consistent, TypeOK, HeldByUser, LoginRegisters,
       Release, BeginClose, Goto, DialingAlone, RegisteredOpen, Issued,
       KnownTokens, Access!Open
  <2>3. ASSUME carried[t] \notin registered
        PROVE  Access!Open(s, {})
    BY <1>7, <2>1, <2>3 DEF Consistent, TypeOK, HeldByUser, LoginRegisters,
       Release, Goto, DialingAlone, RegisteredOpen, Issued, Access!Open
  <2> QED BY <2>2, <2>3 DEF Access!Next
<1>8. CASE Logout(t)
  <2>1. ASSUME NEW s \in registered, s = carried[t]
        PROVE  s \in Sids /\ Access!Revoke(s)
    BY <1>8, <2>1 DEF Consistent, TypeOK, HeldByUser, Logout, PopAndClose,
       BeginClose, Goto, Access!Revoke
  <2>2. ASSUME carried[t] \notin registered
        PROVE  UNCHANGED Access!vars
    BY <1>8, <2>2 DEF Consistent, TypeOK, HeldByUser, Logout, Goto, Access!vars
  <2> QED BY <2>1, <2>2 DEF Access!Next
<1>9. CASE Acquired(t)
  <2>1. PICK s \in Sids : s = target[t]
    BY <1>9 DEF Consistent, TypeOK, Acquired, KnownTokens, Serving, MaybeSid
  <2>2. s \in registered
    BY <1>9, <2>1 DEF Consistent, Acquired, KnownTokens, Serving, OpenOwned, Issued
  <2>3. /\ \A x \in Sids : t \notin held[x]
        /\ held' = [held EXCEPT ![s] = @ \union {t}]
        /\ pc' = [pc EXCEPT ![t] = "using"]
        /\ UNCHANGED <<registered, pool>>
    BY <1>9, <2>1 DEF Consistent, HeldByUser, Acquired, Goto
  <2>4. \A x \in Sids :
           {u \in held'[x] : pc'[u] # "dialing"} =
              {u \in held[x] : pc[u] # "dialing"} \union (IF x = s THEN {t} ELSE {})
    BY <2>3 DEF Consistent, TypeOK
  <2>5. Access!Serve(t, s)
    BY <2>2, <2>3, <2>4 DEF Access!Serve
  <2> QED BY <2>5 DEF Access!Next
<1>10. CASE OperationEnds(t) \/ StreamEnds(t)
  <2>1. PICK s \in Sids : s = target[t]
    BY <1>10 DEF Consistent, TypeOK, OperationEnds, StreamEnds, KnownTokens,
       Serving, MaybeSid
  <2>2. /\ held' = [held EXCEPT ![s] = @ \ {t}]
        /\ pc' = [pc EXCEPT ![t] = "idle"]
        /\ pc[t] \in {"using", "streaming"}
        /\ UNCHANGED <<registered, pool>>
    BY <1>10, <2>1 DEF OperationEnds, StreamEnds, Release, Answer, Goto
  <2>3. \A x \in Sids \ {s} : t \notin held[x]
    BY <2>1 DEF Consistent, HeldByUser
  <2>4. CASE t \in held[s]
    <3>1. Access!Finish(t, s)
      BY <2>2, <2>3, <2>4 DEF Consistent, TypeOK, Access!Finish
    <3> QED BY <3>1 DEF Access!Next
  <2>5. CASE t \notin held[s]
    BY <2>2, <2>3, <2>5 DEF Consistent, TypeOK, Access!vars
  <2> QED BY <2>4, <2>5
<1> QED
  BY <1>1, <1>2, <1>3, <1>4, <1>5, <1>6, <1>7, <1>8, <1>9, <1>10 DEF Handle

\* The sweep revokes the sessions it pops; the end of a close is invisible.
LEMMA SweepRefines ==
  ASSUME Consistent, Sweep
  PROVE  [Access!Next]_(Access!vars)
<1> USE DEF Consistent, TypeOK
<1>1. CASE SweepBegins
  <2>1. PICK s \in registered : PopAndClose(Sweeper, s)
    BY <1>1 DEF SweepBegins
  <2>2. s \in Sids /\ Access!Revoke(s)
    BY <1>1, <2>1 DEF SweepBegins, PopAndClose, BeginClose, Access!Revoke
  <2> QED BY <2>2 DEF Access!Next
<1>2. ASSUME NEW s \in Sids, SweepGoesOn(s) PROVE Access!Next
  <2>1. Access!Revoke(s)
    BY <1>2 DEF SweepGoesOn, OneCloser, Actors, Access!Revoke
  <2> QED BY <2>1 DEF Access!Next
<1>3. CASE SweepEnds
  BY <1>3 DEF SweepEnds, CloseEnds, OneCloser, Actors, Access!vars
<1> QED BY <1>1, <1>2, <1>3 DEF Sweep

\* So does the shutdown.
LEMMA StopRefines ==
  ASSUME Consistent, Stop
  PROVE  [Access!Next]_(Access!vars)
<1> USE DEF Consistent, TypeOK
<1>1. CASE SweepCancelled
  BY <1>1, SidAssumption DEF SweepCancelled, OneCloser, Actors, Access!vars
<1>2. ASSUME NEW s \in Sids, CloseAllPops(s) PROVE Access!Next
  <2>1. Access!Revoke(s)
    BY <1>2 DEF CloseAllPops, PopAndClose, BeginClose, Access!Revoke
  <2> QED BY <2>1 DEF Access!Next
<1>3. CASE CloseAllAwaits
  BY <1>3 DEF CloseAllAwaits, CloseEnds, OneCloser, Actors, Access!vars
<1>4. CASE Stopped
  BY <1>4 DEF Stopped, Access!vars
<1> QED BY <1>1, <1>2, <1>3, <1>4 DEF Stop

\* Every step of the program is a step of SessionAccess or a stutter.
LEMMA StepRefines ==
  ASSUME Consistent, [Next]_vars
  PROVE  [Access!Next]_(Access!vars)
<1>1. ASSUME NEW t \in Tasks, Send(t) PROVE UNCHANGED Access!vars
  BY <1>1 DEF Consistent, TypeOK, HeldByUser, Send, Goto, Arrived, Access!vars
<1>2. ASSUME NEW t \in Tasks, ClientVanishes(t) PROVE UNCHANGED Access!vars
  BY <1>2 DEF Consistent, TypeOK, ClientVanishes, Goto, Access!vars
<1>3. CASE Tick \/ Shutdown
  BY <1>3 DEF Tick, Shutdown, Access!vars
<1>4. CASE UNCHANGED vars
  BY <1>4 DEF vars, Access!vars
<1> QED
  BY <1>1, <1>2, <1>3, <1>4, HandleRefines, SweepRefines, StopRefines DEF Next

\* The registry, the pools, the sweep and the handlers together keep the
\* promise of SessionAccess: only a live token is served, a token once revoked
\* is never served again.
THEOREM SessionsImplementAccess == Spec => ImplementsAccess
<1>1. Init => Access!Init BY InitRefines
<1>2. Consistent /\ [Next]_vars => [Access!Next]_(Access!vars)
  BY StepRefines
<1> QED BY <1>1, <1>2, AlwaysConsistent, PTL DEF Spec, ImplementsAccess, Access!Spec

-----------------------------------------------------------------------------
(* The rate limiter's window, a recursive function of the stamps: what it  *)
(* computes is proved from a smallest index for which it would not.        *)

Stamps == Seq(0 .. Window)

\* What the window makes of the stamps up to the i-th, from what it makes of
\* those before.
LiveStep(stamps, f, i) ==
    IF i = 0 THEN <<>>
    ELSE IF stamps[i] < Window THEN Append(f[i - 1], stamps[i])
    ELSE f[i - 1]

LiveUpTo(stamps, n, f) == f = [i \in 0 .. n |-> LiveStep(stamps, f, i)]

LiveIndices(stamps, n) == {i \in 1 .. n : stamps[i] < Window}

LEMMA SmallestIndex ==
  ASSUME NEW S, S \subseteq Nat, S # {}
  PROVE  \E n \in S : \A m \in S : n <= m
<1>1. IsWellFoundedOn(OpToRel(<, Nat), Nat)
  BY NatLessThanWellFounded
<1>2. PICK n \in S : \A m \in S : ~ (<<m, n>> \in OpToRel(<, Nat))
  BY <1>1, WFMin
<1>3. \A m \in S : ~ (m < n)
  BY <1>2 DEF OpToRel
<1> QED
  BY <1>3

\* The recursion is well founded.
LEMMA LiveExists ==
  ASSUME NEW stamps \in Stamps
  PROVE  \E f : LiveUpTo(stamps, Len(stamps), f)
<1> DEFINE Bad == {n \in 0 .. Len(stamps) : ~ \E f : LiveUpTo(stamps, n, f)}
<1>1. Len(stamps) \in Nat
  BY DEF Stamps
<1>2. SUFFICES ASSUME Bad # {} PROVE FALSE
  BY <1>1
<1>3. PICK n \in Bad : \A m \in Bad : n <= m
  <2>1. Bad \subseteq Nat
    BY <1>1
  <2> HIDE DEF Bad
  <2> QED
    BY <1>2, <2>1, SmallestIndex
<1>4. n \in 0 .. Len(stamps) /\ ~ \E f : LiveUpTo(stamps, n, f)
  BY <1>3
<1>5. CASE n = 0
  <2> DEFINE f == [i \in 0 .. 0 |-> <<>>]
  <2>1. f = [i \in 0 .. 0 |-> LiveStep(stamps, f, i)]
    BY DEF LiveStep
  <2> QED
    BY <1>4, <1>5, <2>1 DEF LiveUpTo
<1>6. CASE n # 0
  <2>1. n - 1 \in 0 .. Len(stamps) /\ ~ (n <= n - 1)
    BY <1>1, <1>4, <1>6
  <2>2. n - 1 \notin Bad
    BY <1>3, <2>1
  <2>3. PICK g : g = [i \in 0 .. n - 1 |-> LiveStep(stamps, g, i)]
    BY <2>1, <2>2 DEF LiveUpTo
  <2> DEFINE f == [i \in 0 .. n |-> IF i = n THEN LiveStep(stamps, g, n) ELSE g[i]]
  <2>4. \A i \in 0 .. n - 1 : f[i] = g[i]
    BY <1>4, <1>6
  <2>5. ASSUME NEW i \in 0 .. n
        PROVE  f[i] = LiveStep(stamps, f, i)
    <3>1. CASE i = n
      <4>1. f[n - 1] = g[n - 1]
        BY <1>4, <1>6, <2>4
      <4>2. f[n] = LiveStep(stamps, g, n)
        BY <1>4
      <4> QED
        BY <1>6, <3>1, <4>1, <4>2 DEF LiveStep
    <3>2. CASE i # n
      <4>1. i \in 0 .. n - 1 /\ (i # 0 => i - 1 \in 0 .. n - 1)
        BY <1>4, <3>2
      <4>2. f[i] = g[i] /\ (i # 0 => f[i - 1] = g[i - 1])
        BY <2>4, <4>1
      <4>3. g[i] = LiveStep(stamps, g, i)
        BY <2>3, <4>1
      <4> QED
        BY <4>2, <4>3 DEF LiveStep
    <3> QED
      BY <3>1, <3>2
  <2>6. f = [i \in 0 .. n |-> LiveStep(stamps, f, i)]
    BY <2>5
  <2> QED
    BY <1>4, <2>6 DEF LiveUpTo
<1> QED
  BY <1>5, <1>6

LEMMA StampFacts ==
  ASSUME NEW stamps \in Stamps
  PROVE  /\ Len(stamps) \in Nat
         /\ DOMAIN stamps = 1 .. Len(stamps)
         /\ \A i \in 1 .. Len(stamps) : stamps[i] \in 0 .. Window
<1> DEFINE Ages == 0 .. Window
<1>1. stamps \in Seq(Ages)
  BY DEF Stamps
<1> HIDE DEF Ages
<1>2. Len(stamps) \in Nat /\ DOMAIN stamps = 1 .. Len(stamps)
  BY <1>1
<1>3. \A i \in 1 .. Len(stamps) : stamps[i] \in Ages
  BY <1>1
<1> QED
  BY <1>2, <1>3 DEF Ages

\* The window keeps the live stamps and no other.
LEMMA LiveFacts ==
  ASSUME NEW stamps \in Stamps
  PROVE  /\ Live(stamps) \in Seq(0 .. Window - 1)
         /\ Len(Live(stamps)) = Cardinality(LiveIndices(stamps, Len(stamps)))
<1> DEFINE f == CHOOSE g : LiveUpTo(stamps, Len(stamps), g)
           n == Len(stamps)
           Good(i) == /\ f[i] \in Seq(0 .. Window - 1)
                      /\ Len(f[i]) = Cardinality(LiveIndices(stamps, i))
           Bad == {i \in 0 .. n : ~ Good(i)}
<1>1. n \in Nat /\ \A i \in 1 .. n : stamps[i] \in 0 .. Window
  BY StampFacts
<1>2. \A i \in 0 .. n : f[i] = LiveStep(stamps, f, i)
  <2>1. LiveUpTo(stamps, n, f)
    BY LiveExists
  <2> HIDE DEF f
  <2> QED
    BY <2>1 DEF LiveUpTo
<1>3. Live(stamps) = f[n]
  BY DEF Live, LiveUpTo, LiveStep
<1> HIDE DEF f
<1>4. SUFFICES ASSUME Bad # {} PROVE FALSE
  BY <1>1, <1>3
<1>5. PICK i \in Bad : \A m \in Bad : i <= m
  <2>1. Bad \subseteq Nat
    BY <1>1
  <2> HIDE DEF Bad
  <2> QED
    BY <1>4, <2>1, SmallestIndex
<1>6. i \in 0 .. n /\ ~ Good(i)
  BY <1>5
<1>7. CASE i = 0
  <2>1. f[0] = <<>>
    BY <1>2, <1>6, <1>7 DEF LiveStep
  <2>2. LiveIndices(stamps, 0) = {} /\ Cardinality({}) = 0
    BY FS_EmptySet DEF LiveIndices
  <2>3. <<>> \in Seq(0 .. Window - 1) /\ Len(<<>>) = 0
    OBVIOUS
  <2> QED
    BY <1>6, <1>7, <2>1, <2>2, <2>3
<1>8. CASE i # 0
  <2>1. i - 1 \in 0 .. n /\ ~ (i <= i - 1) /\ i \in 1 .. n
    BY <1>1, <1>6, <1>8
  <2>2. Good(i - 1)
    BY <1>5, <2>1
  <2>3. LiveIndices(stamps, i) = LiveIndices(stamps, i - 1)
                                     \cup (IF stamps[i] < Window THEN {i} ELSE {})
    BY <1>1, <2>1 DEF LiveIndices
  <2>4. i \notin LiveIndices(stamps, i - 1) /\ IsFiniteSet(LiveIndices(stamps, i - 1))
    <3>1. i \notin LiveIndices(stamps, i - 1)
      BY <2>1 DEF LiveIndices
    <3>2. IsFiniteSet(1 .. i - 1)
      BY <1>1, <2>1, FS_Interval
    <3>3. LiveIndices(stamps, i - 1) \subseteq 1 .. i - 1
      BY DEF LiveIndices
    <3> QED
      BY <3>1, <3>2, <3>3, FS_Subset
  <2>5. CASE stamps[i] < Window
    <3>1. f[i] = Append(f[i - 1], stamps[i])
      BY <1>2, <1>6, <1>8, <2>5 DEF LiveStep
    <3>2. stamps[i] \in 0 .. Window - 1
      BY <1>1, <2>1, <2>5, LimiterAssumption
    <3>3. f[i] \in Seq(0 .. Window - 1) /\ Len(f[i]) = Len(f[i - 1]) + 1
      BY <2>2, <3>1, <3>2
    <3>4. Cardinality(LiveIndices(stamps, i)) = Cardinality(LiveIndices(stamps, i - 1)) + 1
      BY <2>3, <2>4, <2>5, FS_AddElement
    <3> QED
      BY <1>6, <2>2, <3>3, <3>4
  <2>6. CASE ~ (stamps[i] < Window)
    <3>1. f[i] = f[i - 1]
      BY <1>2, <1>6, <1>8, <2>6 DEF LiveStep
    <3>2. LiveIndices(stamps, i) = LiveIndices(stamps, i - 1)
      BY <2>3, <2>6
    <3> QED
      BY <1>6, <2>2, <3>1, <3>2
  <2> QED
    BY <2>5, <2>6
<1> QED
  BY <1>7, <1>8

\* A window pruned once is pruned.
LEMMA LiveOfLive ==
  ASSUME NEW stamps \in Seq(0 .. Window - 1)
  PROVE  stamps \in Stamps /\ Len(Live(stamps)) = Len(stamps)
<1>1. stamps \in Stamps
  BY LimiterAssumption DEF Stamps
<1>2. \A i \in 1 .. Len(stamps) : stamps[i] \in 0 .. Window - 1
  <2> DEFINE Ages == 0 .. Window - 1
  <2>1. stamps \in Seq(Ages)
    OBVIOUS
  <2> HIDE DEF Ages
  <2>2. \A i \in 1 .. Len(stamps) : stamps[i] \in Ages
    BY <2>1
  <2> QED
    BY <2>2 DEF Ages
<1>3. Len(stamps) \in Nat
  BY <1>1, StampFacts
<1>4. LiveIndices(stamps, Len(stamps)) = 1 .. Len(stamps)
  BY <1>2, LimiterAssumption DEF LiveIndices
<1>5. Cardinality(1 .. Len(stamps)) = Len(stamps)
  <2> DEFINE n == Len(stamps)
  <2>1. n \in Nat /\ n \in Int /\ 1 \in Int
    BY <1>3
  <2> HIDE DEF n
  <2>2. Cardinality(1 .. n) = IF 1 > n THEN 0 ELSE n - 1 + 1
    BY <2>1, FS_Interval
  <2>3. Cardinality(1 .. n) = n
    BY <2>1, <2>2
  <2> QED
    BY <2>3 DEF n
<1> QED
  BY <1>1, <1>4, <1>5, LiveFacts

-----------------------------------------------------------------------------
(* The failures of every client.                                           *)

FailuresOK(f) ==
    /\ DOMAIN f \subseteq Clients
    /\ \A c \in DOMAIN f : f[c] \in Stamps \ {<<>>}

\* The failures of c that count.
Count(f, c) == IF c \in DOMAIN f THEN Len(Live(f[c])) ELSE 0

LEMMA CountIsNatural ==
  ASSUME NEW f, FailuresOK(f), NEW c
  PROVE  Count(f, c) \in Nat
<1>1. ASSUME c \in DOMAIN f PROVE Len(Live(f[c])) \in Nat
  <2>1. f[c] \in Stamps
    BY <1>1 DEF FailuresOK
  <2>2. Live(f[c]) \in Seq(0 .. Window - 1)
    BY <2>1, LiveFacts
  <2> QED
    BY <2>2
<1> QED
  BY <1>1 DEF Count

LEMMA RecentIsCount ==
  ASSUME NEW c
  PROVE  Len(Recent(c)) = Count(failures, c)
  BY DEF Recent, Count

\* A check prunes what no longer counts, and forgets nothing that does.
LEMMA Checked ==
  ASSUME FailuresOK(failures), NEW c \in Clients
  PROVE  /\ FailuresOK(CheckedFailures(c))
         /\ \A d : Count(CheckedFailures(c), d) = Count(failures, d)
<1>1. CASE Recent(c) = <<>>
  <2>1. CheckedFailures(c) = [x \in DOMAIN failures \ {c} |-> failures[x]]
    BY <1>1 DEF CheckedFailures, Without, Restrict
  <2>2. Count(failures, c) = 0
    BY <1>1, RecentIsCount
  <2>3. FailuresOK(CheckedFailures(c))
    BY <2>1 DEF FailuresOK
  <2>4. \A d : Count(CheckedFailures(c), d) = Count(failures, d)
    BY <2>1, <2>2 DEF Count
  <2> QED
    BY <2>3, <2>4
<1>2. CASE Recent(c) # <<>>
  <2>1. c \in DOMAIN failures /\ Recent(c) = Live(failures[c])
    BY <1>2 DEF Recent
  <2>2. failures[c] \in Stamps
    BY <2>1 DEF FailuresOK
  <2>3. Recent(c) \in Seq(0 .. Window - 1)
    BY <2>1, <2>2, LiveFacts
  <2>4. Recent(c) \in Stamps /\ Len(Live(Recent(c))) = Len(Recent(c))
    BY <2>3, LiveOfLive
  <2>5. CheckedFailures(c)
          = [x \in DOMAIN failures |-> IF x = c THEN Recent(c) ELSE failures[x]]
    <3>1. DOMAIN failures \cup {c} = DOMAIN failures
      BY <2>1
    <3> QED
      BY <1>2, <3>1 DEF CheckedFailures, With
  <2>6. FailuresOK(CheckedFailures(c))
    BY <1>2, <2>4, <2>5 DEF FailuresOK
  <2>7. \A d : Count(CheckedFailures(c), d) = Count(failures, d)
    BY <2>1, <2>4, <2>5 DEF Count
  <2> QED
    BY <2>6, <2>7
<1> QED
  BY <1>1, <1>2

\* A failure counts once, for its own client.
LEMMA Recorded ==
  ASSUME NEW f, FailuresOK(f), NEW c \in Clients
  PROVE  /\ FailuresOK(RecordedFailures(f, c))
         /\ Count(RecordedFailures(f, c), c) = Count(f, c) + 1
         /\ \A d : d # c => Count(RecordedFailures(f, c), d) = Count(f, d)
<1> DEFINE known == {x \in DOMAIN f : Live(f[x]) # <<>>}
           kept == [x \in known |-> Live(f[x])]
           own == IF c \in known THEN kept[c] ELSE <<>>
<1>1. RecordedFailures(f, c)
        = [x \in known \cup {c} |-> IF x = c THEN Append(own, 0) ELSE kept[x]]
  BY DEF RecordedFailures, With
<1>2. \A x \in DOMAIN f : Live(f[x]) \in Seq(0 .. Window - 1)
  <2>1. \A x \in DOMAIN f : f[x] \in Stamps
    BY DEF FailuresOK
  <2> QED
    BY <2>1, LiveFacts
<1>3. \A x \in DOMAIN f : Live(f[x]) \in Stamps /\ Len(Live(Live(f[x]))) = Len(Live(f[x]))
  BY <1>2, LiveOfLive
<1>4. own \in Seq(0 .. Window - 1) /\ Len(own) = Count(f, c)
  <2>1. CASE c \in known
    <3>1. c \in DOMAIN f /\ own = Live(f[c])
      BY <2>1
    <3> QED
      BY <1>2, <3>1 DEF Count
  <2>2. CASE c \notin known
    <3>1. own = <<>> /\ (c \in DOMAIN f => Live(f[c]) = <<>>)
      BY <2>2
    <3>2. <<>> \in Seq(0 .. Window - 1) /\ Len(<<>>) = 0
      OBVIOUS
    <3>3. Count(f, c) = 0
      BY <3>1, <3>2 DEF Count
    <3> HIDE DEF own
    <3> QED
      BY <3>1, <3>2, <3>3
  <2> QED
    BY <2>1, <2>2
<1>5. /\ Append(own, 0) \in Seq(0 .. Window - 1)
      /\ Len(Append(own, 0)) = Count(f, c) + 1
      /\ Append(own, 0) # <<>>
  <2>1. 0 \in 0 .. Window - 1
    BY LimiterAssumption
  <2> HIDE DEF own
  <2>2. Append(own, 0) \in Seq(0 .. Window - 1) /\ Len(Append(own, 0)) = Len(own) + 1
    BY <1>4, <2>1
  <2>3. Len(own) \in Nat
    BY <1>4
  <2>4. Append(own, 0) # <<>>
    BY <2>2, <2>3
  <2> QED
    BY <1>4, <2>2, <2>4
<1>6. Append(own, 0) \in Stamps /\ Len(Live(Append(own, 0))) = Count(f, c) + 1
  BY <1>5, LiveOfLive
<1>7. FailuresOK(RecordedFailures(f, c))
  <2>1. \A x \in known : kept[x] \in Stamps \ {<<>>}
    BY <1>3
  <2>2. known \cup {c} \subseteq Clients
    BY DEF FailuresOK
  <2> HIDE DEF known, kept, own
  <2> QED
    BY <1>1, <1>5, <1>6, <2>1, <2>2 DEF FailuresOK
<1>8. Count(RecordedFailures(f, c), c) = Count(f, c) + 1
  <2> HIDE DEF known, kept, own
  <2>1. c \in DOMAIN RecordedFailures(f, c) /\ RecordedFailures(f, c)[c] = Append(own, 0)
    BY <1>1
  <2> QED
    BY <1>6, <2>1 DEF Count
<1>9. ASSUME NEW d, d # c
      PROVE  Count(RecordedFailures(f, c), d) = Count(f, d)
  <2>1. CASE d \in known
    <3>1. d \in DOMAIN RecordedFailures(f, c) /\ RecordedFailures(f, c)[d] = Live(f[d])
      <4> HIDE DEF own
      <4> QED
        BY <1>1, <1>9, <2>1
    <3>2. d \in DOMAIN f
      BY <2>1
    <3> QED
      BY <1>3, <3>1, <3>2 DEF Count
  <2>2. CASE d \notin known
    <3>1. d \notin DOMAIN RecordedFailures(f, c)
      <4> HIDE DEF known, kept, own
      <4> QED
        BY <1>1, <1>9, <2>2
    <3>2. d \in DOMAIN f => Live(f[d]) = <<>>
      BY <2>2
    <3> QED
      BY <3>1, <3>2 DEF Count
  <2> QED
    BY <2>1, <2>2
<1> QED
  BY <1>7, <1>8, <1>9

\* What a success forgets.
LEMMA Forgotten ==
  ASSUME FailuresOK(failures), NEW c
  PROVE  /\ FailuresOK(Without(c))
         /\ \A d : Count(Without(c), d) <= Count(failures, d)
<1>1. Without(c) = [x \in DOMAIN failures \ {c} |-> failures[x]]
  BY DEF Without, Restrict
<1>2. FailuresOK(Without(c))
  BY <1>1 DEF FailuresOK
<1>3. ASSUME NEW d
      PROVE  Count(Without(c), d) <= Count(failures, d)
  <2>1. Count(failures, d) \in Nat
    BY CountIsNatural
  <2>2. Count(Without(c), d) = IF d = c THEN 0 ELSE Count(failures, d)
    BY <1>1 DEF Count
  <2> QED
    BY <2>1, <2>2
<1> QED
  BY <1>2, <1>3

\* What the passing of time makes of a client's stamps.
LEMMA AgedStamps ==
  ASSUME NEW stamps \in Stamps \ {<<>>},
         NEW aged, aged = [i \in DOMAIN stamps |-> Older(stamps[i], Window)]
  PROVE  /\ aged \in Stamps \ {<<>>}
         /\ Len(Live(aged)) <= Len(Live(stamps))
<1> DEFINE n == Len(stamps)
<1>1. n \in Nat /\ DOMAIN stamps = 1 .. n /\ n # 0
  BY StampFacts DEF Stamps
<1>2. \A i \in 1 .. n : stamps[i] \in 0 .. Window
  BY StampFacts
<1>3. \A i \in 1 .. n : aged[i] \in 0 .. Window /\ stamps[i] <= aged[i]
  BY <1>1, <1>2, LimiterAssumption DEF Older
<1>4. aged \in Stamps /\ Len(aged) = n
  <2> DEFINE Ages == 0 .. Window
  <2>1. aged = [i \in 1 .. n |-> aged[i]]
    BY <1>1
  <2>2. \A i \in 1 .. n : aged[i] \in Ages
    BY <1>3
  <2> HIDE DEF Ages, n
  <2>3. aged \in Seq(Ages) /\ Len(aged) = n
    BY <1>1, <2>1, <2>2
  <2> QED
    BY <2>3 DEF Stamps, Ages
<1>5. aged # <<>>
  BY <1>1, <1>4
<1>6. LiveIndices(aged, n) \in SUBSET LiveIndices(stamps, n)
  <2> HIDE DEF n
  <2>1. ASSUME NEW i \in 1 .. n, aged[i] < Window
        PROVE  stamps[i] < Window
    <3>1. /\ stamps[i] \in Nat /\ aged[i] \in Nat /\ Window \in Nat
          /\ stamps[i] <= aged[i]
      BY <1>1, <1>2, <1>3, LimiterAssumption
    <3> QED
      BY <2>1, <3>1
  <2> QED
    BY <2>1 DEF LiveIndices
<1>7. IsFiniteSet(LiveIndices(stamps, n))
  <2>1. IsFiniteSet(1 .. n)
    BY <1>1, FS_Interval
  <2>2. LiveIndices(stamps, n) \in SUBSET (1 .. n)
    BY DEF LiveIndices
  <2> QED
    BY <2>1, <2>2, FS_Subset
<1>8. Cardinality(LiveIndices(aged, n)) <= Cardinality(LiveIndices(stamps, n))
  BY <1>6, <1>7, FS_Subset
<1> QED
  BY <1>4, <1>5, <1>8, LiveFacts

LEMMA Aged ==
  ASSUME FailuresOK(failures), TimePasses
  PROVE  /\ FailuresOK(failures')
         /\ \A d : Count(failures', d) <= Count(failures, d)
<1> DEFINE Aging(c) == [i \in DOMAIN failures[c] |-> Older(failures[c][i], Window)]
<1>1. failures' = [c \in DOMAIN failures |-> Aging(c)]
  BY DEF TimePasses
<1>2. ASSUME NEW c \in DOMAIN failures
      PROVE  /\ Aging(c) \in Stamps \ {<<>>}
             /\ Len(Live(Aging(c))) <= Len(Live(failures[c]))
  <2>1. failures[c] \in Stamps \ {<<>>}
    BY DEF FailuresOK
  <2> QED
    BY <2>1, AgedStamps
<1> HIDE DEF Aging
<1>3. FailuresOK(failures')
  BY <1>1, <1>2 DEF FailuresOK
<1>4. ASSUME NEW d
      PROVE  Count(failures', d) <= Count(failures, d)
  BY <1>1, <1>2 DEF Count
<1> QED
  BY <1>3, <1>4

-----------------------------------------------------------------------------
(* The overshoot.                                                          *)

LEMMA LimiterTypeFacts ==
  LimiterTypeOK <=> /\ FailuresOK(failures)
             /\ stage \in [Attempts -> {"idle", "dialing", "revoking"}]
             /\ peer \in [Attempts -> Clients]
  BY DEF LimiterTypeOK, FailuresOK, Stamps

LEMMA InFlightFinite ==
  ASSUME NEW c
  PROVE  /\ IsFiniteSet(InFlight(c))
         /\ Cardinality(InFlight(c)) \in Nat
         /\ Cardinality(InFlight(c)) <= Cardinality(Attempts)
         /\ Cardinality(Attempts) \in Nat
<1>1. InFlight(c) \in SUBSET Attempts
  BY DEF InFlight
<1> QED
  BY <1>1, AttemptsAssumption, FS_Subset, FS_CardinalityType

\* A client with an attempt to spare: some attempt is not one of its own.
LEMMA OneIdle ==
  ASSUME NEW c, NEW t \in Attempts, stage[t] = "idle"
  PROVE  Cardinality(InFlight(c)) <= Cardinality(Attempts) - 1
<1>1. InFlight(c) \in SUBSET (Attempts \ {t})
  BY DEF InFlight
<1>2. IsFiniteSet(Attempts \ {t}) /\ Cardinality(Attempts \ {t}) = Cardinality(Attempts) - 1
  BY AttemptsAssumption, FS_RemoveElement
<1> QED
  BY <1>1, <1>2, FS_Subset

\* The bound for one client, by the counts.
Bound(f, c, flights) ==
    Count(f, c) >= Limit =>
        Count(f, c) + Cardinality(flights) <= Limit - 1 + Cardinality(Attempts)

LEMMA OvershootIsBound ==
  OvershootBounded <=> \A c \in Clients : Bound(failures, c, InFlight(c))
<1>1. \A c \in Clients : Len(Recent(c)) = Count(failures, c)
  BY RecentIsCount
<1> QED
  BY <1>1 DEF OvershootBounded, OverLimit, Bound

\* Fewer failures and fewer attempts keep the bound.
LEMMA BoundShrinks ==
  ASSUME NEW f, FailuresOK(f), NEW g, FailuresOK(g), NEW c,
         NEW S, IsFiniteSet(S), NEW T \in SUBSET S,
         Count(g, c) <= Count(f, c),
         Bound(f, c, S)
  PROVE  Bound(g, c, T)
<1>1. Count(f, c) \in Nat /\ Count(g, c) \in Nat
  BY CountIsNatural
<1>2. Cardinality(T) <= Cardinality(S) /\ Cardinality(T) \in Nat /\ Cardinality(S) \in Nat
  BY FS_Subset, FS_CardinalityType
<1>3. Cardinality(Attempts) \in Nat /\ Limit \in Nat
  BY AttemptsAssumption, FS_CardinalityType, LimiterAssumption
<1> QED
  BY <1>1, <1>2, <1>3 DEF Bound

-----------------------------------------------------------------------------
(* The invariant: the types, and the bound itself.                         *)

LimiterInv == LimiterTypeOK /\ OvershootBounded

LEMMA LimiterInvInit == LimiterInit => LimiterInv
<1> SUFFICES ASSUME LimiterInit PROVE LimiterInv
  OBVIOUS
<1>1. LimiterTypeOK
  BY DEF LimiterInit, LimiterTypeOK
<1>2. ASSUME NEW c \in Clients PROVE ~ OverLimit(c)
  <2>1. Recent(c) = <<>>
    BY DEF LimiterInit, Recent
  <2> QED
    BY <2>1, LimiterAssumption DEF OverLimit
<1> QED
  BY <1>1, <1>2 DEF LimiterInv, OvershootBounded

LEMMA BoundsSuffice ==
  ASSUME LimiterTypeOK', \A d \in Clients : Bound(failures', d, InFlight(d)')
  PROVE  LimiterInv'
<1>1. (OvershootBounded <=> \A c \in Clients : Bound(failures, c, InFlight(c)))'
  BY OvershootIsBound, PTL
<1> QED
  BY <1>1 DEF LimiterInv

\* A step that adds no failure and no attempt in flight keeps the invariant.
LEMMA NoneAdded ==
  ASSUME LimiterInv, FailuresOK(failures'),
         \A d \in Clients : Count(failures', d) <= Count(failures, d),
         stage' \in [Attempts -> {"idle", "dialing", "revoking"}],
         peer' \in [Attempts -> Clients],
         \A d \in Clients : InFlight(d)' \in SUBSET InFlight(d)
  PROVE  LimiterInv'
<1>1. LimiterTypeOK'
  BY LimiterTypeFacts DEF LimiterTypeOK, FailuresOK, Stamps
<1>2. FailuresOK(failures) /\ \A d \in Clients : Bound(failures, d, InFlight(d))
  BY LimiterTypeFacts, OvershootIsBound DEF LimiterInv
<1>3. ASSUME NEW d \in Clients
      PROVE  Bound(failures', d, InFlight(d)')
  BY <1>2, InFlightFinite, BoundShrinks
<1> QED
  BY <1>1, <1>3, BoundsSuffice

LEMMA LimiterInvKept == LimiterInv /\ [LimiterNext]_limiterVars => LimiterInv'
<1> SUFFICES ASSUME LimiterInv, [LimiterNext]_limiterVars PROVE LimiterInv'
  OBVIOUS
<1>1. /\ FailuresOK(failures)
      /\ stage \in [Attempts -> {"idle", "dialing", "revoking"}]
      /\ peer \in [Attempts -> Clients]
      /\ \A d \in Clients : Bound(failures, d, InFlight(d))
  BY LimiterTypeFacts, OvershootIsBound DEF LimiterInv
<1>2. \A d : Count(failures, d) \in Nat
  BY <1>1, CountIsNatural
<1>3. Limit \in Nat \ {0} /\ Cardinality(Attempts) \in Nat
  BY LimiterAssumption, AttemptsAssumption, FS_CardinalityType
<1>4. ASSUME NEW t \in Attempts, NEW c \in Clients, Refuse(t, c)
      PROVE  LimiterInv'
  <2>1. failures' = CheckedFailures(c) /\ stage' = stage /\ peer' = peer
    BY <1>4 DEF Refuse
  <2>2. FailuresOK(failures') /\ \A d : Count(failures', d) = Count(failures, d)
    BY <1>1, <2>1, Checked
  <2>3. \A d \in Clients : InFlight(d)' \in SUBSET InFlight(d)
    BY <2>1 DEF InFlight
  <2> QED
    BY <1>1, <1>2, <2>1, <2>2, <2>3, NoneAdded
\* A rejected login was checked in the same step: it counts below the limit,
\* and its own attempt is not in flight.
<1>5. ASSUME NEW t \in Attempts, NEW c \in Clients, Reject(t, c)
      PROVE  LimiterInv'
  <2> DEFINE f == CheckedFailures(c)
  <2>1. /\ stage[t] = "idle" /\ ~ OverLimit(c)
        /\ failures' = RecordedFailures(f, c) /\ stage' = stage /\ peer' = peer
    BY <1>5 DEF Reject, Record
  <2>2. FailuresOK(f) /\ \A d : Count(f, d) = Count(failures, d)
    BY <1>1, Checked
  <2> HIDE DEF f
  <2>3. /\ FailuresOK(failures')
        /\ Count(failures', c) = Count(failures, c) + 1
        /\ \A d : d # c => Count(failures', d) = Count(failures, d)
    BY <2>1, <2>2, Recorded
  <2>4. LimiterTypeOK'
    BY <1>1, <2>1, <2>3 DEF LimiterTypeOK, FailuresOK, Stamps
  <2>5. \A d : InFlight(d)' = InFlight(d)
    BY <2>1 DEF InFlight
  <2>6. ASSUME NEW d \in Clients PROVE Bound(failures', d, InFlight(d)')
    <3>1. CASE d = c
      <4>1. Count(failures, c) < Limit
        BY <1>2, <1>3, <2>1, RecentIsCount DEF OverLimit
      <4>2. /\ Cardinality(InFlight(c)) <= Cardinality(Attempts) - 1
            /\ Cardinality(InFlight(c)) \in Nat
        BY <2>1, OneIdle, InFlightFinite
      <4> QED
        BY <1>2, <1>3, <2>3, <2>5, <3>1, <4>1, <4>2 DEF Bound
    <3>2. CASE d # c
      BY <1>1, <2>3, <2>5, <3>2 DEF Bound
    <3> QED
      BY <3>1, <3>2
  <2> QED
    BY <2>4, <2>6, BoundsSuffice
\* An attempt that starts belongs to a client below the limit.
<1>6. ASSUME NEW t \in Attempts, NEW c \in Clients, Dial(t, c)
      PROVE  LimiterInv'
  <2>1. /\ stage[t] = "idle" /\ ~ OverLimit(c)
        /\ failures' = CheckedFailures(c)
        /\ stage' = [stage EXCEPT ![t] = "dialing"] /\ peer' = [peer EXCEPT ![t] = c]
    BY <1>6 DEF Dial
  <2>2. FailuresOK(failures') /\ \A d : Count(failures', d) = Count(failures, d)
    BY <1>1, <2>1, Checked
  <2>3. LimiterTypeOK'
    BY <1>1, <2>1, <2>2 DEF LimiterTypeOK, FailuresOK, Stamps
  <2>4. ASSUME NEW d \in Clients PROVE Bound(failures', d, InFlight(d)')
    <3>1. CASE d = c
      <4>1. Count(failures', c) < Limit
        BY <1>2, <1>3, <2>1, <2>2, RecentIsCount DEF OverLimit
      <4> QED
        BY <1>2, <1>3, <2>2, <3>1, <4>1 DEF Bound
    <3>2. CASE d # c
      <4>1. InFlight(d)' = InFlight(d)
        BY <1>1, <2>1, <3>2 DEF InFlight
      <4> QED
        BY <1>1, <2>2, <4>1 DEF Bound
    <3> QED
      BY <3>1, <3>2
  <2> QED
    BY <2>3, <2>4, BoundsSuffice
\* A dial that fails is one failure more and one attempt in flight less.
<1>7. ASSUME NEW t \in Attempts, DialFails(t)
      PROVE  LimiterInv'
  <2>0. PICK c \in Clients : c = peer[t]
    BY <1>1
  <2>1. /\ stage[t] = "dialing"
        /\ failures' = RecordedFailures(failures, c)
        /\ stage' = [stage EXCEPT ![t] = "idle"] /\ peer' = peer
    BY <1>7, <2>0 DEF DialFails, Record
  <2>2. InFlight(c)' = InFlight(c) \ {t} /\ t \in InFlight(c)
    BY <1>1, <2>0, <2>1 DEF InFlight
  <2>3. \A d : InFlight(d)' \in SUBSET InFlight(d)
    BY <1>1, <2>1 DEF InFlight
  <2>4. /\ FailuresOK(failures')
        /\ Count(failures', c) = Count(failures, c) + 1
        /\ \A d : d # c => Count(failures', d) = Count(failures, d)
    BY <1>1, <2>1, Recorded
  <2>5. LimiterTypeOK'
    BY <1>1, <2>1, <2>4 DEF LimiterTypeOK, FailuresOK, Stamps
  <2>6. ASSUME NEW d \in Clients PROVE Bound(failures', d, InFlight(d)')
    <3>1. CASE d = c
      <4>1. IsFiniteSet(InFlight(c)) /\ Cardinality(InFlight(c)) \in Nat
            /\ Cardinality(InFlight(c)) <= Cardinality(Attempts)
        BY InFlightFinite
      <4>2. Cardinality(InFlight(c) \ {t}) = Cardinality(InFlight(c)) - 1
        BY <2>2, <4>1, FS_RemoveElement
      <4>3. Bound(failures, c, InFlight(c))
        BY <1>1, <2>1
      <4>4. Bound(failures', c, InFlight(c) \ {t})
        BY <1>2, <1>3, <2>4, <4>1, <4>2, <4>3 DEF Bound
      <4> QED
        BY <2>2, <3>1, <4>4
    <3>2. CASE d # c
      <4>1. Count(failures', d) <= Count(failures, d)
        BY <1>2, <2>4, <3>2
      <4> QED
        BY <1>1, <2>3, <2>4, <4>1, InFlightFinite, BoundShrinks
    <3> QED
      BY <3>1, <3>2
  <2> QED
    BY <2>5, <2>6, BoundsSuffice
<1>8. ASSUME NEW t \in Attempts, DialRaises(t) \/ DialSucceeds(t) \/ RevokeEnds(t)
      PROVE  LimiterInv'
  <2>1. /\ failures' = failures \/ failures' = Without(peer[t])
        /\ stage' \in [Attempts -> {"idle", "dialing", "revoking"}] /\ peer' = peer
    BY <1>1, <1>8 DEF DialRaises, DialSucceeds, RevokeEnds, ClearFailures
  <2>2. \A u \in Attempts : stage'[u] # "idle" => stage[u] # "idle"
    BY <1>1, <1>8 DEF DialRaises, DialSucceeds, RevokeEnds, ClearFailures
  <2>3. FailuresOK(failures') /\ \A d : Count(failures', d) <= Count(failures, d)
    <3>1. CASE failures' = failures
      BY <1>1, <1>2, <3>1
    <3>2. CASE failures' = Without(peer[t])
      BY <1>1, <3>2, Forgotten
    <3> QED
      BY <2>1, <3>1, <3>2
  <2>4. \A d \in Clients : InFlight(d)' \in SUBSET InFlight(d)
    BY <2>1, <2>2 DEF InFlight
  <2> QED
    BY <1>1, <2>1, <2>3, <2>4, NoneAdded
<1>9. CASE TimePasses
  <2>1. stage' = stage /\ peer' = peer
    BY <1>9 DEF TimePasses
  <2>2. FailuresOK(failures') /\ \A d : Count(failures', d) <= Count(failures, d)
    BY <1>1, <1>9, Aged
  <2>3. \A d \in Clients : InFlight(d)' \in SUBSET InFlight(d)
    BY <2>1 DEF InFlight
  <2> QED
    BY <1>1, <2>1, <2>2, <2>3, NoneAdded
<1>10. CASE UNCHANGED limiterVars
  <2>1. failures' = failures /\ stage' = stage /\ peer' = peer
    BY <1>10 DEF limiterVars
  <2>2. \A d \in Clients : InFlight(d)' \in SUBSET InFlight(d)
    BY <2>1 DEF InFlight
  <2>3. \A d : Count(failures', d) <= Count(failures, d)
    BY <1>2, <2>1
  <2> QED
    BY <1>1, <2>1, <2>2, <2>3, NoneAdded
<1> QED
  BY <1>4, <1>5, <1>6, <1>7, <1>8, <1>9, <1>10 DEF LimiterNext

\* Every client's failures stay stamps inside or just at the window, and a
\* client without one is not kept: the lists record_login_failure prunes.
THEOREM LimiterTypeCorrect == LimiterSpec => []LimiterTypeOK
<1>1. LimiterInv => LimiterTypeOK
  BY DEF LimiterInv
<1> QED
  BY LimiterInvInit, LimiterInvKept, <1>1, PTL DEF LimiterSpec

\* For any limit, any window and any number of overlapping logins, a client
\* gets at most Limit - 1 failures plus one for each attempt that may be in
\* flight (auth.login records after the dial what it checked before it).
THEOREM OvershootStaysBounded == LimiterSpec => []OvershootBounded
<1>1. LimiterInv => OvershootBounded
  BY DEF LimiterInv
<1> QED
  BY LimiterInvInit, LimiterInvKept, <1>1, PTL DEF LimiterSpec

=============================================================================
