----------------------------- MODULE RelayStore -----------------------------
(***************************************************************************)
(* The durable authority of the Ring successor: the tables relay_requests  *)
(* and relay_threads of bridge.sqlite3, as pebble_bridge/relay_store.py    *)
(* reads and writes them.                                                  *)
(*                                                                         *)
(* Every method of the class is one BEGIN IMMEDIATE transaction, so each   *)
(* is one action; where a method has several outcomes that write different *)
(* rows, each outcome is an action of its own.  A method that returns      *)
(* without writing, or raises and rolls back, is a stuttering step.  Next  *)
(* lets the methods be called in any order with any arguments: the order   *)
(* in which the service really calls them is RingService's business.       *)
(*                                                                         *)
(* Abstractions.  One guild/channel/approver scope, the configured one.    *)
(* Discord gives every card an id of its own: the id of capture c's card   *)
(* is c, and a thread id is the id of the card it was started from.        *)
(* Transcript, digest and nonce are whether the captures row still holds   *)
(* the text the request was made from (intact).  The failure codes are     *)
(* reduced to the classes the code tells apart.  relay_audio_grants and    *)
(* relay_thread_resets, which no request or route transition reads, are    *)
(* not in this module.                                                     *)
(***************************************************************************)
EXTENDS Integers, FiniteSets

CONSTANTS
  NumCaptures,  \* captures have the row ids 1..NumCaptures, in arrival order
  ApprovalMs,   \* how long a card may be decided and an approval be used
  Delays,       \* the cooldown delays a caller may ask to have recorded
  ScanLimit,    \* rows one claim_thread_creation pass examines (LIMIT 100)
  MaxTime,      \* bound on the clock, for model checking only
  None          \* SQL NULL

ASSUME NumCapturesAssumption == NumCaptures \in Nat
ASSUME ApprovalMsAssumption  == ApprovalMs \in Nat \ {0}
ASSUME DelaysAssumption      == Delays \subseteq Nat \ {0}
ASSUME MaxTimeAssumption     == MaxTime \in Nat
ASSUME NoneAssumption        == None \notin Nat

Captures == 1..NumCaptures

VARIABLES
  now,      \* the wall clock every caller reads just before its call
  arrived,  \* captures 1..arrived have a row in the captures table
  intact,   \* intact[c]: that row still holds the transcript of the request
  req,      \* req[c]: capture c's row of relay_requests
  route     \* route[c]: capture c's row of relay_threads

storeVars == <<now, arrived, intact, req, route>>

RequestStates == {"none", "posting", "pending", "approved_waiting",
                  "dispatching", "turn_finished", "rejected", "expired",
                  "reset", "uncertain", "failed"}
RouteStates   == {"none", "unbound", "rate_wait", "creating", "ready",
                  "failed", "uncertain"}

\* route_cooldown stands for http_429_route and http_429_shared too, and
\* global_cooldown for http_429_global; failure for every other code.
CooldownCodes == {"route_cooldown", "global_cooldown"}
Codes         == CooldownCodes \cup {"preflight_cancelled", "failure"}

Request == [state: RequestStates, message: Captures \cup {None}, expires: Nat]
Route   == [state: RouteStates, thread: Captures \cup {None},
            attempt: Nat \cup {None}, retry: Nat \cup {None},
            code: Codes \cup {None}]

NoRequest == [state |-> "none", message |-> None, expires |-> 0]
NoRoute   == [state |-> "none", thread |-> None, attempt |-> None,
              retry |-> None, code |-> None]
Unbound   == [NoRoute EXCEPT !.state = "unbound"]

StoreInit ==
  /\ now = 0
  /\ arrived = 0
  /\ intact = [c \in Captures |-> TRUE]
  /\ req = [c \in Captures |-> NoRequest]
  /\ route = [c \in Captures |-> NoRoute]

-----------------------------------------------------------------------------
(* The clock, the receiver's insert, and an edit of the captures row.      *)

Tick ==
  /\ now < MaxTime
  /\ now' = now + 1
  /\ UNCHANGED <<arrived, intact, req, route>>

\* The receiver commits the next capture.
Arrive ==
  /\ arrived < NumCaptures
  /\ arrived' = arrived + 1
  /\ UNCHANGED <<now, intact, req, route>>

\* Somebody else changes or removes the captures row under a live request.
RowChanged(c) ==
  /\ c <= arrived
  /\ intact[c]
  /\ intact' = [intact EXCEPT ![c] = FALSE]
  /\ UNCHANGED <<now, arrived, req, route>>

-----------------------------------------------------------------------------
(* Helpers shared by the methods.                                          *)

RequestOnly  == UNCHANGED <<now, arrived, intact, route>>
RouteOnly    == UNCHANGED <<now, arrived, intact, req>>
RowsOnly     == UNCHANGED <<now, arrived, intact>>

SetRequest(c, s) == req' = [req EXCEPT ![c].state = s]
SetRequests(S, s) ==
  req' = [c \in Captures |-> IF c \in S THEN [req[c] EXCEPT !.state = s]
                                        ELSE req[c]]

\* The part of _thread_authorized that returns False without writing.
Waiting(c) == req[c].state = "approved_waiting" /\ req[c].message # None

ThreadAuthorized(c) == Waiting(c) /\ now < req[c].expires /\ intact[c]

\* What a failed _thread_authorized leaves in the request it examined.
Revoked(c) == IF now >= req[c].expires THEN "expired" ELSE "uncertain"

\* A method that stops at _thread_authorized commits what that wrote.
RefuseAuthority(c) ==
  /\ Waiting(c)
  /\ ~ThreadAuthorized(c)
  /\ SetRequest(c, Revoked(c))
  /\ RequestOnly

\* thread_global_retry_not_before is not NULL: some stored global denial has
\* not run out.
GlobalWait == \E c \in Captures : /\ route[c].code = "global_cooldown"
                                  /\ route[c].retry # None
                                  /\ route[c].retry > now

\* Wrong on purpose: only undecided cards expire.
DuePending == {c \in Captures : req[c].state = "pending" /\ req[c].expires <= now}
Due == {c \in Captures : /\ req[c].state \in {"pending", "approved_waiting"}
                         /\ req[c].expires <= now}

-----------------------------------------------------------------------------
(* Cards and decisions.                                                    *)

\* The lowest capture without a request gets one; thread_mode adds a route.
ClaimCard(c, threadMode) ==
  /\ c <= arrived
  /\ req[c].state = "none"
  /\ \A d \in Captures : d < c => req[d].state # "none"
  /\ req' = [req EXCEPT ![c] = [state |-> "posting", message |-> None,
                                expires |-> now + ApprovalMs]]
  /\ route' = [route EXCEPT ![c] = IF threadMode THEN Unbound ELSE NoRoute]
  /\ RowsOnly

RememberCard(c) ==
  /\ req[c].message = None
  /\ req[c].state \in {"posting", "reset"}
  /\ req' = [req EXCEPT ![c].message = c]
  /\ RequestOnly

BindCard(c) ==
  /\ req[c].state = "posting"
  /\ req' = [req EXCEPT ![c].message = c, ![c].state = "pending"]
  /\ RequestOnly

\* A click on the buttons of the card; every other click is refused.
Decide(c, action) ==
  /\ req[c].message # None
  /\ req[c].state = "pending"
  /\ SetRequest(c, IF ~intact[c] THEN "uncertain"
                   ELSE IF now >= req[c].expires THEN "expired"
                   ELSE IF action = "approve" THEN "approved_waiting"
                   ELSE "rejected")
  /\ RequestOnly

ExpireDue == SetRequests(Due, "expired") /\ RequestOnly

\* /new in the thread of capture c: thread_request finds the mapping first.
ThreadRequest(c) ==
  /\ req[c].message # None
  /\ route[c].attempt # None
  /\ \/ route[c].thread = req[c].message
     \/ /\ route[c].thread = None
        /\ \/ route[c].state \in {"creating", "rate_wait", "uncertain"}
           \/ /\ route[c].state = "failed"
              /\ req[c].state \in {"failed", "uncertain", "expired", "reset"}

\* Wrong on purpose: a reset also takes a running turn from its request.
ResettableRunning ==
  {"posting", "pending", "approved_waiting", "dispatching"}
Resettable == {"posting", "pending", "approved_waiting"}

ResetThread(c) ==
  /\ ThreadRequest(c)
  /\ req[c].state \in Resettable
  /\ SetRequest(c, "reset")
  /\ RequestOnly

Reset ==
  /\ SetRequests({c \in Captures : req[c].state \in Resettable}, "reset")
  /\ RequestOnly

-----------------------------------------------------------------------------
(* The thread of a capture: claim, create, defer, remember, verify, fail.  *)

\* Wrong on purpose: an interrupted preflight is not among them.
ResumableCodesCooldownOnly == CooldownCodes
ResumableCodes == CooldownCodes \cup {"preflight_cancelled"}

Claimable(c) ==
  /\ Waiting(c)
  /\ \/ route[c] = Unbound
     \/ /\ route[c].state = "rate_wait"
        /\ route[c].attempt # None
        /\ route[c].retry # None
        /\ route[c].retry > route[c].attempt
        /\ route[c].retry <= now
        /\ route[c].code \in ResumableCodes
        /\ route[c].thread \in {None, req[c].message}

\* The rows the SELECT returns, in id order, LIMIT 100.
Scanned(c) ==
  /\ Claimable(c)
  /\ Cardinality({d \in Captures : d < c /\ Claimable(d)}) < ScanLimit

\* Rows before the claimed one are examined, and revoked, on the way.
ClaimThreadCreation(c) ==
  /\ ~GlobalWait
  /\ Scanned(c)
  /\ ThreadAuthorized(c)
  /\ \A d \in Captures : d < c /\ Scanned(d) => ~ThreadAuthorized(d)
  /\ req' = [d \in Captures |->
               IF d < c /\ Scanned(d) THEN [req[d] EXCEPT !.state = Revoked(d)]
                                      ELSE req[d]]
  /\ route' = [route EXCEPT ![c].state = "creating", ![c].retry = None,
                 ![c].attempt = IF @ = None THEN now ELSE @]
  /\ RowsOnly

\* The pass found rows but none that is still authorized.
ClaimNoThread ==
  /\ ~GlobalWait
  /\ \E c \in Captures : Scanned(c)
  /\ \A c \in Captures : Scanned(c) => ~ThreadAuthorized(c)
  /\ req' = [c \in Captures |->
               IF Scanned(c) THEN [req[c] EXCEPT !.state = Revoked(c)]
                             ELSE req[c]]
  /\ RequestOnly

\* The check just before the POST; when it holds it writes nothing.
CreationAdmissible(c) ==
  /\ route[c].state = "creating"
  /\ route[c].attempt # None
  /\ route[c].thread = None
  /\ route[c].retry = None

MayCreate(c) == CreationAdmissible(c) /\ ThreadAuthorized(c) /\ ~GlobalWait

AuthorizeThreadCreation(c) == CreationAdmissible(c) /\ RefuseAuthority(c)

\* A refusal that is known to have had no effect.
Deferrable(c) ==
  /\ req[c].state \in {"approved_waiting", "expired", "reset", "rejected"}
  /\ route[c].state \in {"creating", "ready"}
  /\ route[c].attempt # None
  /\ route[c].thread \in {None, req[c].message}
  /\ ~(route[c].state = "ready" /\ route[c].thread = None)

\* Wrong on purpose: a state the CHECK clause does not know.
DeferRowUnknownState(r, retry, code) ==
  [r EXCEPT !.state = "waiting", !.retry = retry, !.code = code]
DeferRow(r, retry, code) ==
  [r EXCEPT !.state = IF @ = "creating" THEN "rate_wait" ELSE "ready",
            !.retry = retry, !.code = code]

\* The request may have closed meanwhile: the interval is kept, the request
\* stays closed; a request whose row changed loses its authority instead.
DeferThread(c, retry, code) ==
  /\ now < retry
  /\ code \in CooldownCodes
  /\ Deferrable(c)
  /\ \/ /\ req[c].state = "approved_waiting" => ThreadAuthorized(c)
        /\ intact[c]
        /\ route' = [route EXCEPT ![c] = DeferRow(@, retry, code)]
        /\ RouteOnly
     \/ /\ Waiting(c)
        /\ now >= req[c].expires
        /\ SetRequest(c, "expired")
        /\ route' = IF intact[c]
                    THEN [route EXCEPT ![c] = DeferRow(@, retry, code)]
                    ELSE route
        /\ RowsOnly
     \/ /\ now < req[c].expires
        /\ RefuseAuthority(c)

DeferCancelledPreflight(c, retry) ==
  /\ now < retry
  /\ route[c].state = "creating"
  /\ route[c].thread = None
  /\ route[c].attempt # None
  /\ retry > route[c].attempt
  /\ \/ /\ ThreadAuthorized(c)
        /\ route' = [route EXCEPT ![c].state = "rate_wait", ![c].retry = retry,
                                  ![c].code = "preflight_cancelled"]
        /\ RouteOnly
     \/ RefuseAuthority(c)

ThreadOfCard(c, id) == id = req[c].message

\* Evidence of a thread id is kept whatever became of the request.
RememberThread(c, id) ==
  /\ route[c].attempt # None
  /\ route[c].state # "unbound"
  /\ ThreadOfCard(c, id)
  /\ route[c].thread \in {None, id}
  /\ route' = [route EXCEPT ![c].thread = id]
  /\ RouteOnly

ReadyThread(c) ==
  /\ route[c].state = "creating"
  /\ route[c].attempt # None
  /\ route[c].thread # None
  /\ route[c].thread = req[c].message
  /\ \/ /\ ThreadAuthorized(c)
        /\ route' = [route EXCEPT ![c].state = "ready", ![c].retry = None,
                                  ![c].code = None]
        /\ RouteOnly
     \/ RefuseAuthority(c)

\* Wrong on purpose: a late failure reaches a running turn.
FailableStatesWithTurn ==
  {"approved_waiting", "dispatching", "expired", "reset", "uncertain"}
FailableStates == {"approved_waiting", "expired", "reset", "uncertain"}

\* Never lets a stale callback undo native execution or a terminal route.
FailThread(c, uncertain) ==
  LET outcome == IF uncertain THEN "uncertain" ELSE "failed"
  IN /\ route[c].state \in {"creating", "ready"}
     /\ req[c].state \in FailableStates
     /\ route' = [route EXCEPT ![c].state = outcome, ![c].code = "failure"]
     /\ req' = IF req[c].state = "approved_waiting"
               THEN [req EXCEPT ![c].state = outcome] ELSE req
     /\ RowsOnly

-----------------------------------------------------------------------------
(* The model turn: candidates, claim, outcome.                             *)

ThreadCandidate(c) ==
  /\ ~GlobalWait
  /\ req[c].state = "approved_waiting"
  /\ req[c].expires > now
  /\ route[c].state = "ready"
  /\ route[c].attempt # None
  /\ route[c].retry # None => route[c].retry <= now
  /\ route[c].thread # None
  /\ route[c].thread = req[c].message

DispatchRoute(c) ==
  /\ route[c].state = "ready"
  /\ route[c].retry # None => route[c].retry <= now
  /\ route[c].attempt # None
  /\ route[c].thread # None
  /\ route[c].thread = req[c].message

\* Wrong on purpose: the stored global denial is not looked at again.
ClaimThreadDispatchEagerly(c) ==
  /\ DispatchRoute(c)
  /\ ThreadAuthorized(c)
  /\ SetRequest(c, "dispatching")
  /\ RequestOnly

ClaimThreadDispatch(c) ==
  /\ DispatchRoute(c)
  /\ ThreadAuthorized(c)
  /\ ~GlobalWait
  /\ SetRequest(c, "dispatching")
  /\ RequestOnly

\* claim_thread_dispatch returned None because it revoked the approval.
RefuseThreadDispatch(c) == DispatchRoute(c) /\ RefuseAuthority(c)

\* The claim of the older, routeless mode: expiry first, then the lowest row.
ClaimDispatch(c) ==
  LET waiting(d) == /\ req[d].state = "approved_waiting"
                    /\ req[d].expires > now
                    /\ route[d].state = "none"
  IN /\ waiting(c)
     /\ \A d \in Captures : d < c => ~waiting(d)
     /\ req' = [d \in Captures |->
                  IF d \in Due THEN [req[d] EXCEPT !.state = "expired"]
                  ELSE IF d = c THEN [req[d] EXCEPT !.state =
                         IF intact[d] THEN "dispatching" ELSE "uncertain"]
                  ELSE req[d]]
     /\ RequestOnly

Finish(c) ==
  /\ req[c].state = "dispatching"
  /\ SetRequest(c, "turn_finished")
  /\ RequestOnly

Uncertain(c) ==
  /\ req[c].state \in {"posting", "dispatching"}
  /\ SetRequest(c, "uncertain")
  /\ RequestOnly

-----------------------------------------------------------------------------
(* Startup: what an earlier process left in progress never continues.      *)

\* Wrong on purpose: a turn cut off by the crash is queued again.
RecoveredResuming(c) ==
  IF req[c].state = "dispatching" THEN "approved_waiting"
  ELSE IF req[c].state = "posting" THEN "uncertain"
  ELSE IF c \in Due THEN "expired" ELSE req[c].state

Recovered(c) ==
  IF \/ req[c].state \in {"posting", "dispatching"}
     \/ /\ req[c].state = "approved_waiting"
        /\ c \notin Due
        /\ route[c].state = "creating"
  THEN "uncertain"
  ELSE IF c \in Due THEN "expired" ELSE req[c].state

Recover ==
  /\ req' = [c \in Captures |-> [req[c] EXCEPT !.state = Recovered(c)]]
  /\ route' = [c \in Captures |->
                 IF route[c].state = "creating"
                 THEN [route[c] EXCEPT !.state = "uncertain",
                                       !.code = "failure"]
                 ELSE route[c]]
  /\ RowsOnly

-----------------------------------------------------------------------------
CardStep(c) ==
  \/ \E threadMode \in BOOLEAN : ClaimCard(c, threadMode)
  \/ RememberCard(c)
  \/ BindCard(c)
  \/ \E action \in {"approve", "reject"} : Decide(c, action)
  \/ ResetThread(c)

ThreadStep(c) ==
  \/ ClaimThreadCreation(c)
  \/ AuthorizeThreadCreation(c)
  \/ \E d \in Delays, code \in CooldownCodes : DeferThread(c, now + d, code)
  \/ \E d \in Delays : DeferCancelledPreflight(c, now + d)
  \/ \E id \in Captures : RememberThread(c, id)
  \/ ReadyThread(c)
  \/ \E uncertain \in BOOLEAN : FailThread(c, uncertain)

TurnStep(c) ==
  \/ ClaimThreadDispatch(c)
  \/ RefuseThreadDispatch(c)
  \/ ClaimDispatch(c)
  \/ Finish(c)
  \/ Uncertain(c)

StoreNext ==
  \/ Tick
  \/ Arrive
  \/ \E c \in Captures : RowChanged(c)
  \/ \E c \in Captures : CardStep(c) \/ ThreadStep(c) \/ TurnStep(c)
  \/ ClaimNoThread
  \/ ExpireDue
  \/ Reset
  \/ Recover

StoreSpec == StoreInit /\ [][StoreNext]_storeVars

-----------------------------------------------------------------------------
(* Properties.                                                             *)

\* Every column holds a value its declaration and CHECK clause allow.
TypeOK ==
  /\ now \in Nat
  /\ arrived \in 0..NumCaptures
  /\ intact \in [Captures -> BOOLEAN]
  /\ req \in [Captures -> Request]
  /\ route \in [Captures -> Route]

Closed == {"expired", "reset", "uncertain"}

\* Request state q may stand beside route state r.
StatesAgree(q, r) ==
  /\ q = "none" => r = "none"
  /\ r = "none" => q # "failed"
  /\ r = "unbound" =>
       q \in {"posting", "pending", "approved_waiting", "rejected"} \cup Closed
  /\ r \in {"creating", "rate_wait"} => q \in {"approved_waiting"} \cup Closed
  /\ r = "ready" =>
       q \in {"approved_waiting", "dispatching", "turn_finished"} \cup Closed
  /\ r \in {"failed", "uncertain"} => q \in {"failed"} \cup Closed

\* The two tables agree whatever the order of the calls: a turn only ever
\* runs, and finishes, on a ready route (a late failure of the thread cannot
\* undo it: relay_store.py fail_thread), and no approval survives beside a
\* failed or uncertain route, so neither is ever tried again.
RoutesMatchRequests ==
  \A c \in Captures : StatesAgree(req[c].state, route[c].state)

\* A route names no thread but the one started from the capture's own card,
\* only after a durable attempt, and a ready route names one.
ThreadsAreBound ==
  \A c \in Captures :
    /\ route[c].thread # None => /\ route[c].thread = req[c].message
                                 /\ route[c].attempt # None
    /\ route[c].state = "ready" => route[c].thread # None

\* An approval whose thread waits to be created is always found again by
\* claim_thread_creation once its delay is over: no combination of columns
\* that defer_thread or defer_cancelled_preflight leaves hides the row from
\* the SELECT.
NoApprovalStranded ==
  \A c \in Captures :
    /\ req[c].state = "approved_waiting"
    /\ \/ route[c].state = "unbound"
       \/ route[c].state = "rate_wait" /\ route[c].retry <= now
    => Claimable(c)

\* What the columns of one capture's rows say about each other; with the
\* properties above it is inductive, which they alone are not.
RowsWellFormed ==
  \A c \in Captures :
    /\ req[c].message \in {None, c}
    /\ req[c].state = "none" => req[c] = NoRequest
    /\ req[c].state \in {"pending", "approved_waiting"} => req[c].message = c
    /\ route[c].state = "none" => route[c] = NoRoute
    /\ route[c].state = "unbound" => route[c] = Unbound
    /\ route[c].state \notin {"none", "unbound"} =>
         /\ route[c].attempt # None
         /\ route[c].attempt <= now
    /\ route[c].state = "rate_wait" =>
         /\ route[c].retry # None
         /\ route[c].retry > route[c].attempt
         /\ route[c].code \in ResumableCodes

\* The life of a request, one step.
MayBecome(p, q) ==
  \/ p = q
  \/ p = "none" /\ q = "posting"
  \/ p = "posting" /\ q \in {"pending", "reset", "uncertain"}
  \/ p = "pending" /\ q \in {"approved_waiting", "rejected"} \cup Closed
  \/ p = "approved_waiting" /\ q \in {"dispatching", "failed"} \cup Closed
  \/ p = "dispatching" /\ q \in {"turn_finished", "uncertain"}

\* Authority only shrinks.  No call, recover() after a crash included, gives
\* a request back a state it has left: closed requests stay closed, a turn
\* in progress ends finished or uncertain and is never queued again; the
\* deadline and the card of a request, once set, stay.
AuthorityOnlyShrinks ==
  [][\A c \in Captures :
       /\ MayBecome(req[c].state, req'[c].state)
       /\ req[c].state # "none" => req'[c].expires = req[c].expires
       /\ req[c].message # None => req'[c].message = req[c].message]_storeVars

\* While a stored global denial runs, no thread creation and no threaded turn
\* is claimed for any capture, whichever capture was denied.
GlobalDenialStopsClaims ==
  [][GlobalWait => \A c \in Captures :
       /\ route'[c].state = "creating" => route[c].state = "creating"
       /\ /\ req'[c].state = "dispatching"
          /\ route[c].state # "none"
          => req[c].state = "dispatching"]_storeVars
=============================================================================
