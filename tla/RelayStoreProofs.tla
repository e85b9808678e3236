-------------------------- MODULE RelayStoreProofs --------------------------
(***************************************************************************)
(* Theorems of RelayStore, for any number of captures, any delays, any     *)
(* clock bound and any order of the store's calls.                         *)
(***************************************************************************)
EXTENDS RelayStore, TLAPS

\* The inductive invariant of one capture's pair of rows.
RowInv(c) ==
  /\ StatesAgree(req[c].state, route[c].state)
  /\ route[c].thread # None => /\ route[c].thread = req[c].message
                               /\ route[c].attempt # None
  /\ route[c].state = "ready" => route[c].thread # None
  /\ req[c].message \in {None, c}
  /\ req[c].state = "none" => req[c] = NoRequest
  /\ req[c].state \in {"pending", "approved_waiting"} => req[c].message = c
  /\ route[c].state = "none" => route[c] = NoRoute
  /\ route[c].state = "unbound" => route[c] = Unbound
  /\ route[c].state \notin {"none", "unbound"} =>
       /\ route[c].attempt # None
       /\ route[c].attempt <= now
  /\ route[c].state = "rate_wait" =>
       /\ route[c].retry # None
       /\ route[c].retry > route[c].attempt
       /\ route[c].code \in ResumableCodes

IInv == TypeOK /\ \A c \in Captures : RowInv(c)

\* The inductive invariant is the conjunction the model checker sees.
LEMMA IInvParts ==
  IInv <=> TypeOK /\ RoutesMatchRequests /\ ThreadsAreBound /\ RowsWellFormed
BY DEF IInv, RowInv, RoutesMatchRequests, ThreadsAreBound, RowsWellFormed

\* A capture whose rows a step leaves alone keeps its invariant as the clock
\* moves on.
LEMMA Untouched ==
  ASSUME NEW c \in Captures, TypeOK, RowInv(c), TypeOK',
         req'[c] = req[c], route'[c] = route[c], now <= now'
  PROVE  RowInv(c)'
<1>1. route[c] \in Route
  BY DEF TypeOK
<1>2. now \in Nat /\ now' \in Nat
  BY DEF TypeOK
<1>3. CASE route[c].state \in {"none", "unbound"}
  BY <1>1, <1>2, <1>3 DEF RowInv
<1>4. CASE route[c].state \notin {"none", "unbound"}
  <2>1. route[c].attempt \in Nat
    BY <1>1, <1>4 DEF RowInv, Route
  <2>2. route'[c].attempt <= now'
    BY <1>2, <1>4, <2>1 DEF RowInv
  <2>3. QED
    BY <1>4, <2>2 DEF RowInv
<1>5. QED
  BY <1>3, <1>4

\* A step that only moves the state of one request keeps the invariant when
\* the new state may stand beside the route.
LEMMA Moved ==
  ASSUME NEW c \in Captures, NEW s \in RequestStates, TypeOK, RowInv(c),
         req'[c] = [req[c] EXCEPT !.state = s], route'[c] = route[c],
         now' = now,
         StatesAgree(s, route[c].state), s # "none",
         s \in {"pending", "approved_waiting"} => req[c].message = c
  PROVE  RowInv(c)'
<1>1. /\ req'[c].state = s
      /\ req'[c].message = req[c].message
  BY DEF TypeOK, Request
<1>2. QED
  BY <1>1 DEF RowInv

\* A request may move to state s without disturbing its route.
Admits(c, s) ==
  /\ s # "none"
  /\ StatesAgree(s, route[c].state)
  /\ s \in {"pending", "approved_waiting"} => req[c].message = c

\* Any set of requests may so move in one transaction.
LEMMA RequestsMoved ==
  ASSUME IInv, RequestOnly,
         req' \in [Captures -> Request],
         \A c \in Captures :
           \/ req'[c] = req[c]
           \/ \E s \in RequestStates :
                req'[c] = [req[c] EXCEPT !.state = s] /\ Admits(c, s)
  PROVE  IInv'
<1>1. TypeOK'
  BY DEF IInv, TypeOK, RequestOnly
<1>2. ASSUME NEW c \in Captures  PROVE RowInv(c)'
  <2>1. CASE req'[c] = req[c]
    <3>1. now <= now'
      BY DEF RequestOnly, IInv, TypeOK
    <3>2. QED
      BY <1>1, <2>1, <3>1, Untouched DEF IInv, RequestOnly
  <2>2. ASSUME NEW s \in RequestStates,
               req'[c] = [req[c] EXCEPT !.state = s], Admits(c, s)
        PROVE  RowInv(c)'
    BY <2>2, Moved DEF IInv, RequestOnly, Admits
  <2>3. QED
    BY <2>1, <2>2
<1>3. QED
  BY <1>1, <1>2 DEF IInv

\* One request moves, as every method that calls SetRequest does.
LEMMA RequestMoved ==
  ASSUME IInv, RequestOnly, NEW c \in Captures, NEW s \in RequestStates,
         SetRequest(c, s), Admits(c, s)
  PROVE  IInv'
<1>1. req' \in [Captures -> Request]
  BY DEF IInv, TypeOK, SetRequest, Request
<1>2. \A d \in Captures :
        \/ req'[d] = req[d]
        \/ \E t \in RequestStates :
             req'[d] = [req[d] EXCEPT !.state = t] /\ Admits(d, t)
  BY DEF IInv, TypeOK, SetRequest
<1>3. QED
  BY <1>1, <1>2, RequestsMoved

\* What _thread_authorized writes when it refuses.
LEMMA RefuseAuthorityKeeps ==
  ASSUME IInv, NEW c \in Captures, RefuseAuthority(c)
  PROVE  IInv'
<1>1. Revoked(c) \in RequestStates /\ Admits(c, Revoked(c))
  BY DEF RefuseAuthority, Waiting, Revoked, RequestStates, Admits,
         StatesAgree, Closed, IInv, RowInv
<1>2. QED
  BY <1>1, RequestMoved DEF RefuseAuthority
\* A step that rewrites one capture's rows and nothing else needs only the
\* invariant of that capture checked.
LEMMA RowsMoved ==
  ASSUME IInv, RowsOnly, NEW c \in Captures,
         NEW q \in Request, NEW r \in Route,
         req' = [req EXCEPT ![c] = q], route' = [route EXCEPT ![c] = r],
         RowInv(c)'
  PROVE  IInv'
<1>1. TypeOK'
  BY DEF IInv, TypeOK, RowsOnly
<1>2. ASSUME NEW d \in Captures, d # c  PROVE RowInv(d)'
  <2>1. req'[d] = req[d] /\ route'[d] = route[d] /\ now <= now'
    BY <1>2 DEF IInv, TypeOK, RowsOnly
  <2>2. QED
    BY <1>1, <2>1, Untouched DEF IInv
<1>3. QED
  BY <1>1, <1>2 DEF IInv

LEMMA CardStepKeeps ==
  ASSUME IInv, NEW c \in Captures, CardStep(c)
  PROVE  IInv'
<1>1. ASSUME NEW threadMode \in BOOLEAN, ClaimCard(c, threadMode)
      PROVE  IInv'
  <2> DEFINE q == [state |-> "posting", message |-> None,
                   expires |-> now + ApprovalMs]
             r == IF threadMode THEN Unbound ELSE NoRoute
  <2>1. q \in Request /\ r \in Route
    BY ApprovalMsAssumption DEF IInv, TypeOK, Request, Route, RequestStates,
       RouteStates, Unbound, NoRoute
  <2>2. req' = [req EXCEPT ![c] = q] /\ route' = [route EXCEPT ![c] = r]
    BY <1>1 DEF ClaimCard
  <2>3. RowInv(c)'
    BY <2>2 DEF IInv, TypeOK, RowInv, StatesAgree, Closed, Unbound, NoRoute
  <2>4. QED
    BY <1>1, <2>1, <2>2, <2>3, RowsMoved DEF ClaimCard
<1>2. CASE RememberCard(c)
  <2> DEFINE q == [req[c] EXCEPT !.message = c]
  <2>1. q \in Request /\ route[c] \in Route
    BY DEF IInv, TypeOK, Request
  <2>2. req' = [req EXCEPT ![c] = q] /\ route' = [route EXCEPT ![c] = route[c]]
    BY <1>2 DEF IInv, TypeOK, RememberCard, RequestOnly
  <2>3. RowInv(c)'
    BY <1>2, <2>2, NoneAssumption
       DEF IInv, TypeOK, Request, RowInv, RememberCard, RequestOnly
  <2>4. RowsOnly
    BY <1>2 DEF RememberCard, RequestOnly, RowsOnly
  <2>5. QED
    BY <2>1, <2>2, <2>3, <2>4, RowsMoved
<1>3. CASE BindCard(c)
  <2> DEFINE q == [req[c] EXCEPT !.message = c, !.state = "pending"]
  <2>1. q \in Request /\ route[c] \in Route
    BY DEF IInv, TypeOK, Request, RequestStates
  <2>2. req' = [req EXCEPT ![c] = q] /\ route' = [route EXCEPT ![c] = route[c]]
    BY <1>3 DEF IInv, TypeOK, BindCard, RequestOnly
  <2>3. RowInv(c)'
    BY <1>3, <2>2, NoneAssumption
       DEF IInv, TypeOK, Request, RowInv, BindCard, RequestOnly, StatesAgree, Closed
  <2>4. RowsOnly
    BY <1>3 DEF BindCard, RequestOnly, RowsOnly
  <2>5. QED
    BY <2>1, <2>2, <2>3, <2>4, RowsMoved
<1>4. ASSUME NEW action \in {"approve", "reject"}, Decide(c, action)
      PROVE  IInv'
  <2> DEFINE s == IF ~intact[c] THEN "uncertain"
                  ELSE IF now >= req[c].expires THEN "expired"
                  ELSE IF action = "approve" THEN "approved_waiting"
                  ELSE "rejected"
  <2>1. s \in RequestStates
    BY DEF RequestStates
  <2>2. Admits(c, s)
    BY <1>4 DEF Decide, Admits, IInv, RowInv, StatesAgree, Closed
  <2>3. QED
    BY <1>4, <2>1, <2>2, RequestMoved DEF Decide
<1>5. CASE ResetThread(c)
  <2>1. Admits(c, "reset")
    BY <1>5 DEF ResetThread, Resettable, Admits, IInv, RowInv, StatesAgree, Closed
  <2>2. QED
    BY <1>5, <2>1, RequestMoved DEF ResetThread, Resettable, RequestStates
<1>6. QED
  BY <1>1, <1>2, <1>3, <1>4, <1>5 DEF CardStep

\* A step that rewrites only one route.
LEMMA RouteMoved ==
  ASSUME IInv, RouteOnly, NEW c \in Captures, NEW r \in Route,
         route' = [route EXCEPT ![c] = r], RowInv(c)'
  PROVE  IInv'
<1>1. req[c] \in Request /\ req' = [req EXCEPT ![c] = req[c]]
  BY DEF IInv, TypeOK, RouteOnly
<1>2. QED
  BY <1>1, RowsMoved DEF RouteOnly, RowsOnly

LEMMA ClaimThreadCreationKeeps ==
  ASSUME IInv, NEW c \in Captures, ClaimThreadCreation(c)
  PROVE  IInv'
<1> DEFINE examined(d) == d < c /\ Scanned(d)
<1>1. ASSUME NEW d \in Captures, examined(d)
      PROVE  Revoked(d) \in RequestStates /\ Admits(d, Revoked(d))
  BY <1>1 DEF Scanned, Claimable, Waiting, Revoked, RequestStates, Admits,
     StatesAgree, Closed, IInv, RowInv
<1>2. route[c] \in Route /\ now \in Nat
  BY DEF IInv, TypeOK
<1>3. TypeOK'
  <2>1. req' \in [Captures -> Request]
    BY <1>1 DEF ClaimThreadCreation, IInv, TypeOK, Request
  <2>2. route' \in [Captures -> Route]
    BY <1>2 DEF ClaimThreadCreation, IInv, TypeOK, Route, RouteStates
  <2>3. QED
    BY <2>1, <2>2 DEF ClaimThreadCreation, RowsOnly, IInv, TypeOK
<1>4. RowInv(c)'
  <2>1. req'[c] = req[c]
    BY DEF ClaimThreadCreation, IInv, TypeOK, Captures
  <2>2. route'[c] = [route[c] EXCEPT !.state = "creating", !.retry = None,
                       !.attempt = IF @ = None THEN now ELSE @]
    BY DEF ClaimThreadCreation, IInv, TypeOK
  <2>3. /\ route'[c].state = "creating"
        /\ route'[c].thread = route[c].thread
        /\ route'[c].attempt = IF route[c].attempt = None THEN now
                               ELSE route[c].attempt
    BY <1>2, <2>2 DEF Route
  <2>4. Waiting(c) /\ route[c].state \in {"unbound", "rate_wait"}
    BY DEF ClaimThreadCreation, Scanned, Claimable, Unbound, NoRoute
  <2>5. /\ route'[c].attempt # None
        /\ route'[c].attempt <= now
    BY <1>2, <2>3, <2>4, NoneAssumption DEF IInv, RowInv, Unbound, NoRoute
  <2>6. now' = now
    BY DEF ClaimThreadCreation, RowsOnly
  <2>7. QED
    BY <2>1, <2>3, <2>4, <2>5, <2>6
       DEF IInv, RowInv, Waiting, StatesAgree, Closed
<1>5. ASSUME NEW d \in Captures, d # c  PROVE RowInv(d)'
  <2>1. route'[d] = route[d] /\ now' = now /\ now <= now'
    BY <1>2, <1>5 DEF ClaimThreadCreation, IInv, TypeOK, RowsOnly
  <2>2. CASE examined(d)
    <3>1. req'[d] = [req[d] EXCEPT !.state = Revoked(d)]
      BY <2>2 DEF ClaimThreadCreation
    <3>2. QED
      BY <1>1, <2>1, <2>2, <3>1, Moved DEF IInv, Admits
  <2>3. CASE ~examined(d)
    <3>1. req'[d] = req[d]
      BY <2>3 DEF ClaimThreadCreation
    <3>2. QED
      BY <1>3, <2>1, <3>1, Untouched DEF IInv
  <2>4. QED
    BY <2>2, <2>3
<1>6. QED
  BY <1>3, <1>4, <1>5 DEF IInv

LEMMA DeferThreadKeeps ==
  ASSUME IInv, NEW c \in Captures, NEW d \in Delays, NEW code \in CooldownCodes,
         DeferThread(c, now + d, code)
  PROVE  IInv'
<1> DEFINE r == DeferRow(route[c], now + d, code)
<1>1. /\ now \in Nat /\ now + d \in Nat
      /\ route[c] \in Route /\ req[c] \in Request
  BY DelaysAssumption DEF IInv, TypeOK
<1>2. Deferrable(c)
  BY DEF DeferThread
<1>3. /\ r \in Route
      /\ r.state = IF route[c].state = "creating" THEN "rate_wait" ELSE "ready"
      /\ r.thread = route[c].thread
      /\ r.attempt = route[c].attempt
      /\ r.retry = now + d
      /\ r.code = code
  BY <1>1 DEF DeferRow, Route, RouteStates, Codes
<1>4. ASSUME req'[c].state \in {"approved_waiting"} \cup Closed,
             req'[c].message = req[c].message,
             req'[c].state = "approved_waiting" => req[c].state = req'[c].state,
             route'[c] = r, now' = now
      PROVE  RowInv(c)'
  <2>1. /\ route[c].attempt \in Nat
        /\ route[c].attempt <= now
        /\ route[c].state \in {"creating", "ready"}
    BY <1>1, <1>2 DEF Deferrable, Route, IInv, RowInv
  <2>2. now + d > route[c].attempt /\ now + d # None
    BY <1>1, <2>1, DelaysAssumption, NoneAssumption
  <2>3. code \in ResumableCodes
    BY DEF ResumableCodes
  <2>4. QED
    BY <1>3, <1>4, <2>1, <2>2, <2>3
       DEF IInv, RowInv, StatesAgree, Closed
<1>5. CASE /\ req[c].state = "approved_waiting" => ThreadAuthorized(c)
           /\ intact[c]
           /\ route' = [route EXCEPT ![c] = r]
           /\ RouteOnly
  <2>1. RowInv(c)'
    <3>1. /\ req' = req
          /\ now' = now
          /\ route'[c] = r
      BY <1>5 DEF RouteOnly, IInv, TypeOK
    <3>2. req[c].state \in {"approved_waiting"} \cup Closed
      BY <1>2 DEF Deferrable, IInv, RowInv, StatesAgree, Closed
    <3>3. QED
      BY <1>4, <3>1, <3>2
  <2>2. QED
    BY <1>3, <1>5, <2>1, RouteMoved
<1>6. CASE /\ Waiting(c)
           /\ now >= req[c].expires
           /\ SetRequest(c, "expired")
           /\ route' = IF intact[c] THEN [route EXCEPT ![c] = r] ELSE route
           /\ RowsOnly
  <2> DEFINE q == [req[c] EXCEPT !.state = "expired"]
             r2 == IF intact[c] THEN r ELSE route[c]
  <2>1. q \in Request /\ r2 \in Route
    BY <1>1, <1>3 DEF Request, RequestStates
  <2>2. req' = [req EXCEPT ![c] = q] /\ route' = [route EXCEPT ![c] = r2]
    BY <1>6 DEF SetRequest, IInv, TypeOK
  <2>3. RowInv(c)'
    <3>1. /\ req'[c] = q
          /\ route'[c] = r2
          /\ now' = now
      BY <1>6, <2>2 DEF IInv, TypeOK, RowsOnly
    <3>2. q.state = "expired" /\ q.message = req[c].message
      BY <1>1 DEF Request
    <3>3. CASE intact[c]
      BY <1>4, <3>1, <3>2, <3>3 DEF Closed
    <3>4. CASE ~intact[c]
      <4>1. StatesAgree("expired", route[c].state)
        BY <1>6 DEF Waiting, IInv, RowInv, StatesAgree, Closed
      <4>2. QED
        BY <3>1, <3>4, <4>1, Moved DEF IInv, RequestStates
    <3>5. QED
      BY <3>3, <3>4
  <2>4. QED
    BY <1>6, <2>1, <2>2, <2>3, RowsMoved
<1>7. CASE RefuseAuthority(c)
  BY <1>7, RefuseAuthorityKeeps
<1>8. QED
  BY <1>5, <1>6, <1>7 DEF DeferThread

LEMMA ThreadStepKeeps ==
  ASSUME IInv, NEW c \in Captures, ThreadStep(c)
  PROVE  IInv'
<1>1. CASE AuthorizeThreadCreation(c)
  BY <1>1, RefuseAuthorityKeeps DEF AuthorizeThreadCreation
<1>2. ASSUME NEW d \in Delays, DeferCancelledPreflight(c, now + d)
      PROVE  IInv'
  <2> DEFINE r == [route[c] EXCEPT !.state = "rate_wait", !.retry = now + d,
                                   !.code = "preflight_cancelled"]
  <2>1. now + d \in Nat /\ route[c] \in Route
    BY DelaysAssumption DEF IInv, TypeOK
  <2>2. CASE /\ ThreadAuthorized(c)
             /\ route' = [route EXCEPT ![c] = r]
             /\ RouteOnly
    <3>1. r \in Route
      BY <2>1 DEF Route, RouteStates, Codes, CooldownCodes
    <3>2. RowInv(c)'
      BY <1>2, <2>1, <2>2, NoneAssumption
         DEF DeferCancelledPreflight, ThreadAuthorized, Waiting, RouteOnly,
             IInv, TypeOK, Route, RowInv, StatesAgree, Closed, ResumableCodes
    <3>3. QED
      BY <2>2, <3>1, <3>2, RouteMoved
  <2>3. CASE RefuseAuthority(c)
    BY <2>3, RefuseAuthorityKeeps
  <2>4. QED
    BY <1>2, <2>2, <2>3 DEF DeferCancelledPreflight, IInv, TypeOK
<1>3. ASSUME NEW id \in Captures, RememberThread(c, id)
      PROVE  IInv'
  <2> DEFINE r == [route[c] EXCEPT !.thread = id]
  <2>1. r \in Route
    BY DEF IInv, TypeOK, Route
  <2>2. route' = [route EXCEPT ![c] = r] /\ RouteOnly
    BY <1>3 DEF RememberThread, IInv, TypeOK
  <2>3. RowInv(c)'
    BY <1>3, <2>1, <2>2, NoneAssumption
       DEF RememberThread, ThreadOfCard, RouteOnly, IInv, TypeOK, Route,
           RowInv, NoRoute
  <2>4. QED
    BY <2>1, <2>2, <2>3, RouteMoved
<1>4. CASE ReadyThread(c)
  <2> DEFINE r == [route[c] EXCEPT !.state = "ready", !.retry = None,
                                   !.code = None]
  <2>1. CASE /\ ThreadAuthorized(c)
             /\ route' = [route EXCEPT ![c] = r]
             /\ RouteOnly
    <3>1. r \in Route
      BY DEF IInv, TypeOK, Route, RouteStates
    <3>2. RowInv(c)'
      BY <1>4, <2>1, <3>1
         DEF ReadyThread, ThreadAuthorized, Waiting, RouteOnly, IInv, TypeOK,
             Route, RowInv, StatesAgree, Closed
    <3>3. QED
      BY <2>1, <3>1, <3>2, RouteMoved
  <2>2. CASE RefuseAuthority(c)
    BY <2>2, RefuseAuthorityKeeps
  <2>3. QED
    BY <1>4, <2>1, <2>2 DEF ReadyThread, IInv, TypeOK
<1>5. ASSUME NEW uncertain \in BOOLEAN, FailThread(c, uncertain)
      PROVE  IInv'
  <2> DEFINE outcome == IF uncertain THEN "uncertain" ELSE "failed"
             r == [route[c] EXCEPT !.state = outcome, !.code = "failure"]
             q == IF req[c].state = "approved_waiting"
                  THEN [req[c] EXCEPT !.state = outcome] ELSE req[c]
  <2>1. q \in Request /\ r \in Route
    <3>1. outcome \in RequestStates /\ outcome \in RouteStates
      BY DEF RequestStates, RouteStates
    <3>2. q \in Request
      BY <3>1 DEF IInv, TypeOK, Request
    <3>3. r \in Route
      BY <3>1 DEF IInv, TypeOK, Route, Codes
    <3>4. QED
      BY <3>2, <3>3
  <2>2. req' = [req EXCEPT ![c] = q] /\ route' = [route EXCEPT ![c] = r]
    BY <1>5 DEF FailThread, IInv, TypeOK
  <2>3. RowInv(c)'
    BY <1>5, <2>1, <2>2
       DEF FailThread, FailableStates, RowsOnly, IInv, TypeOK, Request, Route,
           RowInv, StatesAgree, Closed
  <2>4. QED
    BY <1>5, <2>1, <2>2, <2>3, RowsMoved DEF FailThread
<1>6. QED
  BY <1>1, <1>2, <1>3, <1>4, <1>5, ClaimThreadCreationKeeps, DeferThreadKeeps
     DEF ThreadStep

LEMMA TurnStepKeeps ==
  ASSUME IInv, NEW c \in Captures, TurnStep(c)
  PROVE  IInv'
<1>1. CASE ClaimThreadDispatch(c)
  <2>1. Admits(c, "dispatching")
    BY <1>1 DEF ClaimThreadDispatch, DispatchRoute, Admits, StatesAgree
  <2>2. QED
    BY <1>1, <2>1, RequestMoved DEF ClaimThreadDispatch, RequestStates
<1>2. CASE RefuseThreadDispatch(c)
  BY <1>2, RefuseAuthorityKeeps DEF RefuseThreadDispatch
<1>3. CASE ClaimDispatch(c)
  <2> DEFINE next(d) == IF d \in Due THEN "expired"
                        ELSE IF d = c THEN IF intact[d] THEN "dispatching"
                                                       ELSE "uncertain"
                        ELSE req[d].state
  <2>1. ASSUME NEW d \in Captures
        PROVE  \/ req'[d] = req[d]
               \/ \E s \in RequestStates :
                    req'[d] = [req[d] EXCEPT !.state = s] /\ Admits(d, s)
    <3>1. CASE d \in Due
      BY <1>3, <3>1 DEF ClaimDispatch, Due, Admits, StatesAgree, Closed,
         RequestStates, IInv, RowInv
    <3>2. CASE d \notin Due /\ d = c
      BY <1>3, <3>2 DEF ClaimDispatch, Admits, StatesAgree, Closed,
         RequestStates, IInv, RowInv
    <3>3. CASE d \notin Due /\ d # c
      BY <1>3, <3>3 DEF ClaimDispatch
    <3>4. QED
      BY <3>1, <3>2, <3>3
  <2>2. req' \in [Captures -> Request]
    BY <1>3 DEF ClaimDispatch, IInv, TypeOK, Request, RequestStates
  <2>3. QED
    BY <1>3, <2>1, <2>2, RequestsMoved DEF ClaimDispatch
<1>4. CASE Finish(c)
  <2>1. Admits(c, "turn_finished")
    BY <1>4 DEF Finish, Admits, StatesAgree, Closed, IInv, RowInv
  <2>2. QED
    BY <1>4, <2>1, RequestMoved DEF Finish, RequestStates
<1>5. CASE Uncertain(c)
  <2>1. Admits(c, "uncertain")
    BY <1>5 DEF Uncertain, Admits, StatesAgree, Closed, IInv, RowInv
  <2>2. QED
    BY <1>5, <2>1, RequestMoved DEF Uncertain, RequestStates
<1>6. QED
  BY <1>1, <1>2, <1>3, <1>4, <1>5 DEF TurnStep

\* The transactions that sweep the whole table.
LEMMA SweepKeeps ==
  ASSUME IInv, ClaimNoThread \/ ExpireDue \/ Reset \/ Recover
  PROVE  IInv'
<1>1. CASE ClaimNoThread
  <2>1. ASSUME NEW c \in Captures
        PROVE  \/ req'[c] = req[c]
               \/ \E s \in RequestStates :
                    req'[c] = [req[c] EXCEPT !.state = s] /\ Admits(c, s)
    BY <1>1 DEF ClaimNoThread, Scanned, Claimable, Waiting, Revoked, Admits,
       StatesAgree, Closed, RequestStates, IInv, RowInv
  <2>2. req' \in [Captures -> Request]
    BY <1>1 DEF ClaimNoThread, Revoked, IInv, TypeOK, Request, RequestStates
  <2>3. QED
    BY <1>1, <2>1, <2>2, RequestsMoved DEF ClaimNoThread
<1>2. CASE ExpireDue
  <2>1. ASSUME NEW c \in Captures
        PROVE  \/ req'[c] = req[c]
               \/ \E s \in RequestStates :
                    req'[c] = [req[c] EXCEPT !.state = s] /\ Admits(c, s)
    BY <1>2 DEF ExpireDue, SetRequests, Due, Admits, StatesAgree, Closed,
       RequestStates, IInv, RowInv
  <2>2. req' \in [Captures -> Request]
    BY <1>2 DEF ExpireDue, SetRequests, IInv, TypeOK, Request, RequestStates
  <2>3. QED
    BY <1>2, <2>1, <2>2, RequestsMoved DEF ExpireDue
<1>3. CASE Reset
  <2>1. ASSUME NEW c \in Captures
        PROVE  \/ req'[c] = req[c]
               \/ \E s \in RequestStates :
                    req'[c] = [req[c] EXCEPT !.state = s] /\ Admits(c, s)
    BY <1>3 DEF Reset, Resettable, SetRequests, Admits, StatesAgree, Closed,
       RequestStates, IInv, RowInv
  <2>2. req' \in [Captures -> Request]
    BY <1>3 DEF Reset, Resettable, SetRequests, IInv, TypeOK, Request, RequestStates
  <2>3. QED
    BY <1>3, <2>1, <2>2, RequestsMoved DEF Reset, Resettable
<1>4. CASE Recover
  <2>1. TypeOK'
    <3>1. \A c \in Captures : Recovered(c) \in RequestStates
      BY DEF Recovered, IInv, TypeOK, Request, RequestStates
    <3>2. req' \in [Captures -> Request]
      BY <1>4, <3>1 DEF Recover, IInv, TypeOK, Request
    <3>3. route' \in [Captures -> Route]
      <4>1. ASSUME NEW c \in Captures
            PROVE  [route[c] EXCEPT !.state = "uncertain",
                                    !.code = "failure"] \in Route
        BY DEF IInv, TypeOK, Route, RouteStates, Codes
      <4>2. QED
        BY <1>4, <4>1 DEF Recover, IInv, TypeOK
    <3>4. QED
      BY <1>4, <3>2, <3>3 DEF Recover, RowsOnly, IInv, TypeOK
  <2>2. ASSUME NEW c \in Captures  PROVE RowInv(c)'
    <3>1. /\ req'[c].state = Recovered(c)
          /\ req'[c].message = req[c].message
          /\ req[c].state = "none" => req'[c] = req[c]
          /\ now' = now
      BY <1>4 DEF Recover, Recovered, Due, RowsOnly, IInv, TypeOK, Request
    <3>2. CASE route[c].state = "creating"
      <4>1. /\ route'[c].state = "uncertain"
            /\ route'[c].thread = route[c].thread
            /\ route'[c].attempt = route[c].attempt
        BY <1>4, <3>2 DEF Recover, IInv, TypeOK, Route
      <4>2. Recovered(c) \in Closed
        BY <3>2 DEF Recovered, Due, IInv, RowInv, StatesAgree, Closed
      <4>3. QED
        BY <3>1, <3>2, <4>1, <4>2 DEF IInv, RowInv, StatesAgree, Closed
    <3>3. CASE route[c].state # "creating"
      <4>1. route'[c] = route[c]
        BY <1>4, <3>3 DEF Recover
      <4>2. QED
        BY <3>1, <3>3, <4>1
           DEF Recovered, Due, IInv, RowInv, StatesAgree, Closed
    <3>4. QED
      BY <3>2, <3>3
  <2>3. QED
    BY <2>1, <2>2 DEF IInv
<1>5. QED
  BY <1>1, <1>2, <1>3, <1>4

LEMMA InitIInv == StoreInit => IInv
BY NoneAssumption, NumCapturesAssumption
   DEF StoreInit, IInv, TypeOK, RowInv, StatesAgree, Request, Route, RequestStates,
       RouteStates, NoRequest, NoRoute

LEMMA NextKeepsIInv == IInv /\ [StoreNext]_storeVars => IInv'
<1> SUFFICES ASSUME IInv, [StoreNext]_storeVars  PROVE IInv'
  OBVIOUS
<1>1. CASE \/ Tick
           \/ Arrive
           \/ \E c \in Captures : RowChanged(c)
           \/ UNCHANGED storeVars
  <2>1. req' = req /\ route' = route
    BY <1>1 DEF Tick, Arrive, RowChanged, storeVars
  <2>2. now' \in Nat /\ now <= now'
    BY <1>1 DEF Tick, Arrive, RowChanged, storeVars, IInv, TypeOK
  <2>3. arrived' \in 0..NumCaptures
    BY <1>1, NumCapturesAssumption
       DEF Tick, Arrive, RowChanged, storeVars, IInv, TypeOK
  <2>4. intact' \in [Captures -> BOOLEAN]
    <3>1. CASE intact' = intact
      BY <3>1 DEF IInv, TypeOK
    <3>2. ASSUME NEW c \in Captures, intact' = [intact EXCEPT ![c] = FALSE]
          PROVE  intact' \in [Captures -> BOOLEAN]
      BY <3>2 DEF IInv, TypeOK
    <3>3. QED
      BY <1>1, <3>1, <3>2 DEF Tick, Arrive, RowChanged, storeVars
  <2>5. TypeOK'
    BY <2>1, <2>2, <2>3, <2>4 DEF IInv, TypeOK
  <2>6. QED
    BY <2>1, <2>2, <2>5, Untouched DEF IInv
<1>2. ASSUME NEW c \in Captures, CardStep(c) \/ ThreadStep(c) \/ TurnStep(c)
      PROVE  IInv'
  BY <1>2, CardStepKeeps, ThreadStepKeeps, TurnStepKeeps
<1>3. CASE ClaimNoThread \/ ExpireDue \/ Reset \/ Recover
  BY <1>3, SweepKeeps
<1>4. QED
  BY <1>1, <1>2, <1>3 DEF StoreNext

\* Whatever the order of the store's calls, crashes and recoveries included,
\* its rows satisfy the inductive invariant.
THEOREM StoreInvariant == StoreSpec => []IInv
BY InitIInv, NextKeepsIInv, PTL DEF StoreSpec

\* The columns keep their declared types.
THEOREM TypeCorrect == StoreSpec => []TypeOK
<1>1. IInv => TypeOK
  BY DEF IInv
<1>2. QED
  BY <1>1, StoreInvariant, PTL

\* Request and route of a capture always agree: turns only on ready routes,
\* no approval beside a failed or uncertain route.
THEOREM TablesAgree == StoreSpec => []RoutesMatchRequests
<1>1. IInv => RoutesMatchRequests
  BY IInvParts
<1>2. QED
  BY <1>1, StoreInvariant, PTL

\* No route ever names the thread of another capture's card.
THEOREM BoundThreads == StoreSpec => []ThreadsAreBound
<1>1. IInv => ThreadsAreBound
  BY IInvParts
<1>2. QED
  BY <1>1, StoreInvariant, PTL

\* No deferral leaves an approved capture in a row the claim never selects.
THEOREM NothingStranded == StoreSpec => []NoApprovalStranded
<1>1. IInv => NoApprovalStranded
  <2> SUFFICES ASSUME IInv, NEW c \in Captures,
                      req[c].state = "approved_waiting",
                      \/ route[c].state = "unbound"
                      \/ route[c].state = "rate_wait" /\ route[c].retry <= now
               PROVE  Claimable(c)
    BY DEF NoApprovalStranded
  <2>1. Waiting(c)
    BY NoneAssumption DEF IInv, RowInv, Waiting, Captures
  <2>2. CASE route[c].state = "unbound"
    BY <2>1, <2>2 DEF IInv, RowInv, Claimable
  <2>3. CASE route[c].state = "rate_wait" /\ route[c].retry <= now
    BY <2>1, <2>3 DEF IInv, RowInv, Claimable
  <2>4. QED
    BY <2>2, <2>3
<1>2. QED
  BY <1>1, StoreInvariant, PTL

\* What AuthorityOnlyShrinks says of one capture.
Shrinks(c) ==
  /\ MayBecome(req[c].state, req'[c].state)
  /\ req[c].state # "none" => req'[c].expires = req[c].expires
  /\ req[c].message # None => req'[c].message = req[c].message

\* A row that keeps its fields, or moves its state forward, shrinks.
LEMMA MoveShrinks ==
  ASSUME IInv, NEW c \in Captures, NEW s,
         req'[c] = [req[c] EXCEPT !.state = s], MayBecome(req[c].state, s)
  PROVE  Shrinks(c)
<1>1. req[c] \in Request
  BY DEF IInv, TypeOK
<1>2. QED
  BY <1>1 DEF Shrinks, Request

LEMMA KeepShrinks ==
  ASSUME NEW c \in Captures, req'[c] = req[c]
  PROVE  Shrinks(c)
BY DEF Shrinks, MayBecome

LEMMA RefuseShrinks ==
  ASSUME IInv, NEW c \in Captures, RefuseAuthority(c), NEW d \in Captures
  PROVE  Shrinks(d)
<1>1. CASE d = c
  <2>1. req'[c] = [req[c] EXCEPT !.state = Revoked(c)]
    BY DEF RefuseAuthority, SetRequest, IInv, TypeOK
  <2>2. MayBecome(req[c].state, Revoked(c))
    BY DEF RefuseAuthority, Waiting, Revoked, MayBecome, Closed
  <2>3. QED
    BY <1>1, <2>1, <2>2, MoveShrinks
<1>2. CASE d # c
  BY <1>2, KeepShrinks DEF RefuseAuthority, SetRequest, IInv, TypeOK
<1>3. QED
  BY <1>1, <1>2

\* The actions that set the state of one request.
LEMMA SetShrinks ==
  ASSUME IInv, NEW c \in Captures, NEW s, SetRequest(c, s),
         MayBecome(req[c].state, s), NEW d \in Captures
  PROVE  Shrinks(d)
<1>1. CASE d = c
  <2>1. req'[c] = [req[c] EXCEPT !.state = s]
    BY DEF SetRequest, IInv, TypeOK
  <2>2. QED
    BY <1>1, <2>1, MoveShrinks
<1>2. CASE d # c
  BY <1>2, KeepShrinks DEF SetRequest, IInv, TypeOK
<1>3. QED
  BY <1>1, <1>2

LEMMA CardStepShrinks ==
  ASSUME IInv, NEW c \in Captures, CardStep(c), NEW d \in Captures
  PROVE  Shrinks(d)
<1>1. ASSUME NEW threadMode \in BOOLEAN, ClaimCard(c, threadMode)
      PROVE  Shrinks(d)
  BY <1>1 DEF ClaimCard, Shrinks, MayBecome, IInv, TypeOK, RowInv, NoRequest
<1>2. CASE RememberCard(c)
  BY <1>2 DEF RememberCard, Shrinks, MayBecome, IInv, TypeOK, Request
<1>3. CASE BindCard(c)
  BY <1>3 DEF BindCard, Shrinks, MayBecome, IInv, TypeOK, Request, RowInv
<1>4. ASSUME NEW action \in {"approve", "reject"}, Decide(c, action)
      PROVE  Shrinks(d)
  <2> DEFINE s == IF ~intact[c] THEN "uncertain"
                  ELSE IF now >= req[c].expires THEN "expired"
                  ELSE IF action = "approve" THEN "approved_waiting"
                  ELSE "rejected"
  <2>1. SetRequest(c, s) /\ MayBecome(req[c].state, s)
    BY <1>4 DEF Decide, MayBecome, Closed
  <2>2. QED
    BY <2>1, SetShrinks
<1>5. CASE ResetThread(c)
  <2>1. SetRequest(c, "reset") /\ MayBecome(req[c].state, "reset")
    BY <1>5 DEF ResetThread, Resettable, MayBecome, Closed
  <2>2. QED
    BY <2>1, SetShrinks
<1>6. QED
  BY <1>1, <1>2, <1>3, <1>4, <1>5 DEF CardStep

LEMMA ThreadStepShrinks ==
  ASSUME IInv, NEW c \in Captures, ThreadStep(c), NEW d \in Captures
  PROVE  Shrinks(d)
<1>1. CASE ClaimThreadCreation(c)
  <2>1. CASE d < c /\ Scanned(d)
    <3>1. req'[d] = [req[d] EXCEPT !.state = Revoked(d)]
      BY <1>1, <2>1 DEF ClaimThreadCreation
    <3>2. MayBecome(req[d].state, Revoked(d))
      BY <2>1 DEF Scanned, Claimable, Waiting, Revoked, MayBecome, Closed
    <3>3. QED
      BY <3>1, <3>2, MoveShrinks
  <2>2. CASE ~(d < c /\ Scanned(d))
    BY <1>1, <2>2, KeepShrinks DEF ClaimThreadCreation
  <2>3. QED
    BY <2>1, <2>2
<1>2. CASE req' = req
  BY <1>2, KeepShrinks
<1>3. CASE RefuseAuthority(c)
  BY <1>3, RefuseShrinks
<1>4. CASE Waiting(c) /\ SetRequest(c, "expired")
  <2>1. MayBecome(req[c].state, "expired")
    BY <1>4 DEF Waiting, MayBecome, Closed
  <2>2. QED
    BY <1>4, <2>1, SetShrinks
<1>5. ASSUME NEW uncertain \in BOOLEAN, FailThread(c, uncertain)
      PROVE  Shrinks(d)
  <2> DEFINE outcome == IF uncertain THEN "uncertain" ELSE "failed"
  <2>1. CASE req[c].state = "approved_waiting"
    <3>1. SetRequest(c, outcome) /\ MayBecome(req[c].state, outcome)
      BY <1>5, <2>1 DEF FailThread, SetRequest, MayBecome, Closed
    <3>2. QED
      BY <3>1, SetShrinks
  <2>2. CASE req[c].state # "approved_waiting"
    BY <1>2, <1>5, <2>2 DEF FailThread
  <2>3. QED
    BY <2>1, <2>2
<1>6. QED
  BY <1>1, <1>2, <1>3, <1>4, <1>5
     DEF ThreadStep, AuthorizeThreadCreation, DeferThread,
         DeferCancelledPreflight, RememberThread, ReadyThread, RouteOnly

LEMMA TurnStepShrinks ==
  ASSUME IInv, NEW c \in Captures, TurnStep(c), NEW d \in Captures
  PROVE  Shrinks(d)
<1>1. CASE ClaimThreadDispatch(c)
  <2>1. SetRequest(c, "dispatching") /\ MayBecome(req[c].state, "dispatching")
    BY <1>1 DEF ClaimThreadDispatch, ThreadAuthorized, Waiting, MayBecome
  <2>2. QED
    BY <2>1, SetShrinks
<1>2. CASE RefuseThreadDispatch(c)
  BY <1>2, RefuseShrinks DEF RefuseThreadDispatch
<1>3. CASE ClaimDispatch(c)
  <2>1. CASE d \in Due
    <3>1. MayBecome(req[d].state, "expired")
      BY <2>1 DEF Due, MayBecome, Closed
    <3>2. req'[d] = [req[d] EXCEPT !.state = "expired"]
      BY <1>3, <2>1 DEF ClaimDispatch
    <3>3. QED
      BY <3>1, <3>2, MoveShrinks
  <2>2. CASE d \notin Due /\ d = c
    <3> DEFINE s == IF intact[c] THEN "dispatching" ELSE "uncertain"
    <3>1. MayBecome(req[d].state, s)
      BY <1>3, <2>2 DEF ClaimDispatch, MayBecome, Closed
    <3>2. req'[d] = [req[d] EXCEPT !.state = s]
      BY <1>3, <2>2 DEF ClaimDispatch
    <3>3. QED
      BY <3>1, <3>2, MoveShrinks
  <2>3. CASE d \notin Due /\ d # c
    BY <1>3, <2>3, KeepShrinks DEF ClaimDispatch
  <2>4. QED
    BY <2>1, <2>2, <2>3
<1>4. CASE Finish(c)
  <2>1. SetRequest(c, "turn_finished")
        /\ MayBecome(req[c].state, "turn_finished")
    BY <1>4 DEF Finish, MayBecome
  <2>2. QED
    BY <2>1, SetShrinks
<1>5. CASE Uncertain(c)
  <2>1. SetRequest(c, "uncertain") /\ MayBecome(req[c].state, "uncertain")
    BY <1>5 DEF Uncertain, MayBecome
  <2>2. QED
    BY <2>1, SetShrinks
<1>6. QED
  BY <1>1, <1>2, <1>3, <1>4, <1>5 DEF TurnStep

LEMMA SweepShrinks ==
  ASSUME IInv, ClaimNoThread \/ ExpireDue \/ Reset \/ Recover,
         NEW d \in Captures
  PROVE  Shrinks(d)
<1>1. CASE req'[d] = req[d]
  BY <1>1, KeepShrinks
<1>2. ASSUME NEW s, req'[d] = [req[d] EXCEPT !.state = s],
             MayBecome(req[d].state, s)
      PROVE  Shrinks(d)
  BY <1>2, MoveShrinks
<1>3. CASE ClaimNoThread
  <2>1. Scanned(d) => MayBecome(req[d].state, Revoked(d))
    BY DEF Scanned, Claimable, Waiting, Revoked, MayBecome, Closed
  <2>2. QED
    BY <1>1, <1>2, <1>3, <2>1 DEF ClaimNoThread
<1>4. CASE ExpireDue
  <2>1. d \in Due => MayBecome(req[d].state, "expired")
    BY DEF Due, MayBecome, Closed
  <2>2. QED
    BY <1>1, <1>2, <1>4, <2>1 DEF ExpireDue, SetRequests
<1>5. CASE Reset
  <2>1. req[d].state \in {"posting", "pending", "approved_waiting"} =>
          MayBecome(req[d].state, "reset")
    BY DEF MayBecome, Closed
  <2>2. QED
    BY <1>1, <1>2, <1>5, <2>1 DEF Reset, Resettable, SetRequests
<1>6. CASE Recover
  <2>1. MayBecome(req[d].state, Recovered(d))
    BY DEF Recovered, Due, MayBecome, Closed
  <2>2. QED
    BY <1>2, <1>6, <2>1 DEF Recover
<1>7. QED
  BY <1>3, <1>4, <1>5, <1>6

LEMMA StepShrinks ==
  ASSUME IInv, [StoreNext]_storeVars, NEW d \in Captures
  PROVE  Shrinks(d)
<1>1. CASE req' = req
  BY <1>1, KeepShrinks
<1>2. ASSUME NEW c \in Captures,
             CardStep(c) \/ ThreadStep(c) \/ TurnStep(c)
      PROVE  Shrinks(d)
  BY <1>2, CardStepShrinks, ThreadStepShrinks, TurnStepShrinks
<1>3. CASE ClaimNoThread \/ ExpireDue \/ Reset \/ Recover
  BY <1>3, SweepShrinks
<1>4. QED
  BY <1>1, <1>2, <1>3
     DEF StoreNext, Tick, Arrive, RowChanged, storeVars

\* No call gives a request back a state, a deadline or a card it has left.
THEOREM ShrinkingAuthority == StoreSpec => AuthorityOnlyShrinks
<1>1. IInv /\ [StoreNext]_storeVars =>
        [\A c \in Captures : Shrinks(c)]_storeVars
  BY StepShrinks
<1>2. QED
  BY <1>1, StoreInvariant, PTL DEF StoreSpec, AuthorityOnlyShrinks, Shrinks

\* What GlobalDenialStopsClaims says of one capture.
ClaimsNothing(c) ==
  /\ route'[c].state = "creating" => route[c].state = "creating"
  /\ /\ req'[c].state = "dispatching"
     /\ route[c].state # "none"
     => req[c].state = "dispatching"

LEMMA CardStepClaimsNothing ==
  ASSUME IInv, NEW c \in Captures, CardStep(c), NEW d \in Captures
  PROVE  ClaimsNothing(d)
<1>1. CASE \E threadMode \in BOOLEAN : ClaimCard(c, threadMode)
  BY <1>1 DEF ClaimCard, ClaimsNothing, Unbound, NoRoute, IInv, TypeOK
<1>2. CASE RememberCard(c) \/ BindCard(c)
  BY <1>2 DEF RememberCard, BindCard, RequestOnly, ClaimsNothing, IInv, TypeOK,
     Request
<1>3. CASE \/ \E action \in {"approve", "reject"} : Decide(c, action)
           \/ ResetThread(c)
  BY <1>3 DEF Decide, ResetThread, Resettable, SetRequest, RequestOnly, ClaimsNothing,
     IInv, TypeOK, Request
<1>4. QED
  BY <1>1, <1>2, <1>3 DEF CardStep

LEMMA RefuseClaimsNothing ==
  ASSUME IInv, NEW c \in Captures, RefuseAuthority(c), NEW d \in Captures
  PROVE  ClaimsNothing(d)
BY DEF RefuseAuthority, SetRequest, RequestOnly, Revoked, ClaimsNothing, IInv,
   TypeOK, Request

LEMMA ThreadStepClaimsNothing ==
  ASSUME IInv, NEW c \in Captures, ThreadStep(c), GlobalWait,
         NEW d \in Captures
  PROVE  ClaimsNothing(d)
<1>1. ASSUME NEW t \in Delays, NEW code \in CooldownCodes,
             DeferThread(c, now + t, code)
      PROVE  ClaimsNothing(d)
  <2>1. CASE RefuseAuthority(c)
    BY <2>1, RefuseClaimsNothing
  <2>2. DeferRow(route[c], now + t, code).state # "creating"
    BY DEF DeferRow, IInv, TypeOK, Route
  <2>3. CASE ~RefuseAuthority(c)
    <3>1. req' = req \/ SetRequest(c, "expired")
      BY <1>1, <2>3 DEF DeferThread, RouteOnly
    <3>2. req'[d].state = "dispatching" => req[d].state = "dispatching"
      BY <3>1 DEF SetRequest, IInv, TypeOK, Request
    <3>3. \/ route' = [route EXCEPT ![c] = DeferRow(@, now + t, code)]
          \/ route' = route
      BY <1>1, <2>3 DEF DeferThread
    <3>4. route'[d].state = "creating" => route[d].state = "creating"
      BY <2>2, <3>3 DEF IInv, TypeOK
    <3>5. QED
      BY <3>2, <3>4 DEF ClaimsNothing
  <2>4. QED
    BY <2>1, <2>3
<1>2. ASSUME NEW t \in Delays, DeferCancelledPreflight(c, now + t)
      PROVE  ClaimsNothing(d)
  <2>1. CASE RefuseAuthority(c)
    BY <2>1, RefuseClaimsNothing
  <2>2. CASE ~RefuseAuthority(c)
    BY <1>2, <2>2 DEF DeferCancelledPreflight, RouteOnly, ClaimsNothing, IInv,
       TypeOK, Route
  <2>3. QED
    BY <1>2, <2>1, <2>2 DEF DeferCancelledPreflight
<1>3. ASSUME NEW id \in Captures, RememberThread(c, id)
      PROVE  ClaimsNothing(d)
  BY <1>3 DEF RememberThread, RouteOnly, ClaimsNothing, IInv, TypeOK, Route
<1>4. CASE ReadyThread(c)
  BY <1>4, RefuseClaimsNothing
     DEF ReadyThread, RouteOnly, ClaimsNothing, IInv, TypeOK, Route
<1>5. ASSUME NEW uncertain \in BOOLEAN, FailThread(c, uncertain)
      PROVE  ClaimsNothing(d)
  BY <1>5 DEF FailThread, ClaimsNothing, IInv, TypeOK, Request, Route
<1>6. QED
  BY <1>1, <1>2, <1>3, <1>4, <1>5, RefuseClaimsNothing
     DEF ThreadStep, AuthorizeThreadCreation, ClaimThreadCreation

LEMMA TurnStepClaimsNothing ==
  ASSUME IInv, NEW c \in Captures, TurnStep(c), GlobalWait,
         NEW d \in Captures
  PROVE  ClaimsNothing(d)
<1>1. CASE ClaimDispatch(c)
  BY <1>1 DEF ClaimDispatch, RequestOnly, ClaimsNothing, IInv, TypeOK, Request
<1>2. CASE Finish(c) \/ Uncertain(c)
  BY <1>2 DEF Finish, Uncertain, SetRequest, RequestOnly, ClaimsNothing, IInv,
     TypeOK, Request
<1>3. QED
  BY <1>1, <1>2, RefuseClaimsNothing
     DEF TurnStep, ClaimThreadDispatch, RefuseThreadDispatch

LEMMA SweepClaimsNothing ==
  ASSUME IInv, ClaimNoThread \/ ExpireDue \/ Reset \/ Recover,
         NEW d \in Captures
  PROVE  ClaimsNothing(d)
<1>1. req[d] \in Request /\ route[d] \in Route
  BY DEF IInv, TypeOK
<1>2. CASE ClaimNoThread
  BY <1>1, <1>2 DEF ClaimNoThread, Revoked, RequestOnly, ClaimsNothing, Request
<1>3. CASE ExpireDue \/ Reset
  BY <1>1, <1>3 DEF ExpireDue, Reset, SetRequests, RequestOnly, ClaimsNothing,
     Request
<1>4. CASE Recover
  <2>1. Recovered(d) = "dispatching" => req[d].state = "dispatching"
    BY DEF Recovered
  <2>2. req'[d].state = Recovered(d)
    BY <1>1, <1>4 DEF Recover, Request
  <2>3. route'[d].state # "creating"
    BY <1>1, <1>4 DEF Recover, Route
  <2>4. QED
    BY <2>1, <2>2, <2>3 DEF ClaimsNothing
<1>5. QED
  BY <1>2, <1>3, <1>4

\* While any stored global denial runs, nothing is claimed for any capture.
THEOREM GlobalDenialHonoured == StoreSpec => GlobalDenialStopsClaims
<1>1. IInv /\ [StoreNext]_storeVars =>
        [GlobalWait => \A c \in Captures : ClaimsNothing(c)]_storeVars
  <2> SUFFICES ASSUME IInv, [StoreNext]_storeVars, GlobalWait,
                      NEW d \in Captures
               PROVE  ClaimsNothing(d)
    OBVIOUS
  <2>1. CASE req' = req /\ route' = route
    BY <2>1 DEF ClaimsNothing
  <2>2. ASSUME NEW c \in Captures,
               CardStep(c) \/ ThreadStep(c) \/ TurnStep(c)
        PROVE  ClaimsNothing(d)
    BY <2>2, CardStepClaimsNothing, ThreadStepClaimsNothing,
       TurnStepClaimsNothing
  <2>3. CASE ClaimNoThread \/ ExpireDue \/ Reset \/ Recover
    BY <2>3, SweepClaimsNothing
  <2>4. QED
    BY <2>1, <2>2, <2>3
       DEF StoreNext, Tick, Arrive, RowChanged, storeVars
<1>2. QED
  BY <1>1, StoreInvariant, PTL
     DEF StoreSpec, GlobalDenialStopsClaims, ClaimsNothing
=============================================================================
