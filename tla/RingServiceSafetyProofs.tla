----------------------- MODULE RingServiceSafetyProofs -----------------------
(***************************************************************************)
(* What the tasks of the service owe each other: a card has one thread, a  *)
(* turn has a run, a claimed creation is not forgotten, and nobody asks    *)
(* Discord for anything inside a global wait.                              *)
(*                                                                         *)
(* None of these is inductive.  The invariant below says who may touch     *)
(* which row when: the publisher the one route that is being created, a    *)
(* run the one that is ready, and nobody the one that remembers a denial.  *)
(***************************************************************************)
EXTENDS RingServiceProofs

\* The publisher has claimed the creation of a thread and not let it go.
Holding == Creating \cup {"failCertain", "failUncertain"}

\* A POST that may have had an effect left a thread id, a closed route, or a
\* route that is still creating and that nobody will send a POST for.
PostKnown(c) ==
  posts[c] = 1 /\ route[c].thread = None =>
    \/ route[c].state \in {"failed", "uncertain"}
    \/ /\ route[c].state = "creating"
       /\ \/ task.pc = "done"
          \/ task.capture = c /\ task.pc \in {"posting", "failUncertain"}

\* What is true of the capture in the publisher's hands.
InHand(c) ==
  task.capture = c =>
    /\ task.pc \in {"sending", "confirming"} =>
         req[c].state \in {"posting", "reset"}
    /\ task.pc \in Holding => route[c].state = "creating"
    /\ task.pc = "posting" => posts[c] = 1
    /\ task.pc \in {"create", "posting"} => task.started
    /\ task.pc \in {"validate", "checking"} => route[c].thread # None

\* A route that is being created for a good approval is in hand.
Remembered(c) ==
  service = "up" /\ task.pc # "done" /\ route[c].state = "creating"
    /\ ThreadAuthorized(c)
    => task.capture = c /\ task.pc \in Holding

PostOK(c) == posts[c] \in {0, 1} /\ PostKnown(c) /\ InHand(c) /\ Remembered(c)

\* A run works on a route that is ready, or that it has itself failed, and
\* the claim of its turn is on disk.
RunOK(c) ==
  /\ runs[c] # "none" => /\ route[c].state \in {"ready", "failed"}
                         /\ route[c].thread # None
  /\ runs[c] \in {"admit", "turn"} => req[c].state = "dispatching"
  /\ req[c].state = "dispatching" /\ dispatchTask = "up" =>
       runs[c] \in {"admit", "turn", "failed"}
  /\ dispatchTask = "done" => runs[c] = "none"

\* Tasks that are not there do nothing.
TasksDone ==
  service \in {"down", "stopped"} => task.pc = "done" /\ dispatchTask = "done"

\* The row of c remembers the denial, and nobody is at work on it.
Recorded(c) ==
  /\ route[c].state \in {"rate_wait", "ready"}
  /\ route[c].code = "global_cooldown"
  /\ route[c].retry = announced
  /\ runs[c] \in {"none", "ok"}

\* Nobody has a request in mind.
Fresh ==
  task.pc \in {"done", "idle", "claim"} /\ \A c \in Captures : runs[c] = "none"

\* A global wait is on disk; the process that was denied also has its gate
\* shut, any later one has not begun anything.
WaitOK ==
  announced > now =>
    /\ \E c \in Captures : Recorded(c)
    /\ globalRetryAt = announced \/ Fresh

Safe ==
  /\ SInv
  /\ \A c \in Captures : intact[c] /\ PostOK(c) /\ RunOK(c)
  /\ TasksDone
  /\ announced \in Nat
  /\ WaitOK

-----------------------------------------------------------------------------
(* What a step on the rows of one capture does to the rows of the others.  *)

Still(d) ==
  req'[d] = req[d] /\ route'[d] = route[d] /\ now' = now /\ intact' = intact

\* Less than that: the route is left alone, and the request gains nothing.
Quiet(d) ==
  /\ route'[d] = route[d]
  /\ route[d].state = "creating" /\ ThreadAuthorized(d)' => ThreadAuthorized(d)
  /\ req'[d].state = "dispatching" <=> req[d].state = "dispatching"
  /\ req[d].state \in {"posting", "reset"} =>
       req'[d].state \in {"posting", "reset"}

LEMMA StillIsQuiet ==
  ASSUME NEW d \in Captures, Still(d)
  PROVE  Quiet(d)
BY DEF Still, Quiet, ThreadAuthorized, Waiting

\* Every call for capture c but one writes the rows of c only.
LEMMA CallsAreStill ==
  ASSUME TypeOK, NEW c \in Captures, NEW d \in Captures, d # c,
         \/ CardStep(c)
         \/ ThreadStep(c) /\ ~ClaimThreadCreation(c)
         \/ TurnStep(c) /\ ~ClaimDispatch(c)
         \/ UNCHANGED storeVars
  PROVE  Still(d)
<1>1. CASE CardStep(c)
  BY <1>1 DEF CardStep, ClaimCard, RememberCard, BindCard, Decide, ResetThread,
              SetRequest, RequestOnly, RowsOnly, Still, TypeOK
<1>2. CASE ThreadStep(c) /\ ~ClaimThreadCreation(c)
  <2>1. CASE AuthorizeThreadCreation(c) \/ ReadyThread(c)
             \/ \E id \in Captures : RememberThread(c, id)
             \/ \E uncertain \in BOOLEAN : FailThread(c, uncertain)
    BY <2>1 DEF AuthorizeThreadCreation, ReadyThread, RememberThread,
                FailThread, RefuseAuthority, SetRequest, RequestOnly, RouteOnly, RowsOnly,
                Still, TypeOK
  <2>2. ASSUME NEW t \in Delays, NEW code \in CooldownCodes,
               DeferThread(c, now + t, code)
        PROVE  Still(d)
    BY <2>2 DEF DeferThread, RefuseAuthority, SetRequest, RequestOnly,
                RouteOnly, RowsOnly, Still, TypeOK
  <2>3. ASSUME NEW t \in Delays, DeferCancelledPreflight(c, now + t)
        PROVE  Still(d)
    BY <2>3 DEF DeferCancelledPreflight, RefuseAuthority, SetRequest,
                RequestOnly, RouteOnly, RowsOnly, Still, TypeOK
  <2>4. QED
    BY <1>2, <2>1, <2>2, <2>3 DEF ThreadStep
<1>3. CASE TurnStep(c) /\ ~ClaimDispatch(c)
  BY <1>3 DEF TurnStep, ClaimThreadDispatch, RefuseThreadDispatch, Finish,
              Uncertain, RefuseAuthority, SetRequest, RequestOnly, RowsOnly,
              Still, TypeOK
<1>4. CASE UNCHANGED storeVars
  BY <1>4 DEF storeVars, Still
<1>5. QED
  BY <1>1, <1>2, <1>3, <1>4

\* A claim revokes what it examines on its way.
LEMMA ClaimIsQuiet ==
  ASSUME TypeOK, NEW c \in Captures, NEW d \in Captures, d # c,
         ClaimThreadCreation(c)
  PROVE  Quiet(d)
<1>1. route'[d] = route[d] /\ RowsOnly
  BY DEF ClaimThreadCreation, TypeOK
<1>2. CASE req'[d] = req[d]
  BY <1>1, <1>2, StillIsQuiet DEF Still, RowsOnly
<1>3. CASE Scanned(d) /\ req'[d] = [req[d] EXCEPT !.state = Revoked(d)]
  <2>1. req[d].state = "approved_waiting"
    BY <1>3 DEF Scanned, Claimable, Waiting
  <2>2. req'[d].state \in {"expired", "uncertain"}
    BY <1>3 DEF Revoked, TypeOK, Request
  <2>3. QED
    BY <1>1, <2>1, <2>2 DEF Quiet, ThreadAuthorized, Waiting
<1>4. QED
  BY <1>2, <1>3 DEF ClaimThreadCreation

\* What the publisher asks of the store.
LEMMA PublisherCalls ==
  ASSUME SInv, NEW c \in Captures, PublisherStep(c)
  PROVE  CardStep(c) \/ ThreadStep(c) \/ Uncertain(c) \/ UNCHANGED storeVars
<1>1. CASE PublishCard(c) \/ CardSent(c) \/ CardConfirmed(c)
  BY <1>1 DEF PublishCard, CardSent, CardConfirmed, CardStep
<1>2. CASE CardFails(c)
  BY <1>2 DEF CardFails
<1>3. CASE PublishClaim(c)
  BY <1>3 DEF PublishClaim, ThreadStep
<1>4. CASE PublisherReads(c) \/ CardRead(c) \/ SendPost(c)
           \/ PostRejected(c) \/ PostUnknown(c)
  BY <1>4 DEF PublisherReads, CardRead, SendPost, PostRejected, PostUnknown
<1>5. CASE PublisherRefused(c)
  BY <1>5, Deferral DEF PublisherRefused
<1>6. CASE CreateBlocked(c) \/ ReadFails(c) \/ FailPosted(c)
  BY <1>6 DEF CreateBlocked, ReadFails, FailPosted, ThreadStep
<1>7. CASE PostNotAuthorized(c)
  <2>1. CASE AuthorizeThreadCreation(c) \/ UNCHANGED storeVars
    BY <2>1 DEF ThreadStep
  <2>2. CASE \E due \in GlobalDues : DeferThread(c, due, "global_cooldown")
    BY <2>2, DurableDeferral
  <2>3. QED
    BY <1>7, <2>1, <2>2 DEF PostNotAuthorized
<1>8. CASE PostCreated(c) \/ PostCreatedBadly(c)
  BY <1>8 DEF PostCreated, PostCreatedBadly, ThreadStep
<1>9. CASE PostDenied(c) \/ ReadDenied(c)
  BY <1>9, Deferral DEF PostDenied, ReadDenied, RecordDenial
<1>10. CASE Validated(c)
  BY <1>10 DEF Validated, ThreadStep
<1>11. CASE CancelCreation(c)
  <2>1. task.started \in BOOLEAN
    BY DEF SInv, ServiceTypeOK, Task
  <2>2. QED
    BY <1>11, <2>1, DelaysClosedAssumption DEF CancelCreation, ThreadStep
<1>12. QED
  BY <1>1, <1>2, <1>3, <1>4, <1>5, <1>6, <1>7, <1>8, <1>9, <1>10, <1>11
     DEF PublisherStep

LEMMA PublisherIsQuiet ==
  ASSUME SInv, NEW c \in Captures, NEW d \in Captures, d # c, PublisherStep(c)
  PROVE  Quiet(d)
<1>1. TypeOK
  BY DEF SInv, ServiceTypeOK
<1>2. CASE ClaimThreadCreation(c)
  BY <1>1, <1>2, ClaimIsQuiet
<1>3. CASE ~ClaimThreadCreation(c)
  <2>1. \/ CardStep(c)
        \/ ThreadStep(c) /\ ~ClaimThreadCreation(c)
        \/ Uncertain(c)
        \/ UNCHANGED storeVars
    BY <1>3, PublisherCalls
  <2>2. Uncertain(c) => TurnStep(c) /\ Still(d)
    BY <1>1 DEF TurnStep, Uncertain, SetRequest, RequestOnly, Still, TypeOK
  <2>3. QED
    BY <1>1, <2>1, <2>2, CallsAreStill, StillIsQuiet
<1>4. QED
  BY <1>2, <1>3

LEMMA RunIsStill ==
  ASSUME SInv, NEW c \in Captures, NEW d \in Captures, d # c, RunStep(c)
  PROVE  Still(d)
<1>1. TypeOK
  BY DEF SInv, ServiceTypeOK
<1>2. ASSUME NEW t \in Refusals \cup Denials, DeferThread(c, t.retry, t.code)
      PROVE  Still(d)
  BY <1>1, <1>2 DEF DeferThread, RefuseAuthority, SetRequest, RequestOnly,
                    RouteOnly, RowsOnly, Still, TypeOK
<1>3. CASE \E uncertain \in BOOLEAN : FailThread(c, uncertain)
  BY <1>1, <1>3 DEF FailThread, RowsOnly, Still, TypeOK
<1>4. CASE \/ ClaimThreadDispatch(c) \/ RefuseThreadDispatch(c)
           \/ Finish(c) \/ Uncertain(c)
  BY <1>1, <1>4 DEF ClaimThreadDispatch, RefuseThreadDispatch, Finish,
                    Uncertain, RefuseAuthority, SetRequest, RequestOnly, Still,
                    TypeOK
<1>5. CASE UNCHANGED storeVars
  BY <1>5 DEF storeVars, Still
<1>6. CASE StartRun(c) \/ RunReads(c) \/ RunBusy(c) \/ RunWaits(c)
           \/ RunAdmitted(c) \/ RunBreaks(c) \/ ReapRun(c)
  BY <1>5, <1>6 DEF StartRun, RunReads, RunBusy, RunWaits, RunAdmitted,
                    RunBreaks, ReapRun
<1>7. CASE RunRefused(c) \/ RunDenied(c)
  BY <1>2, <1>7 DEF RunRefused, RunDenied, RecordDenial
<1>8. CASE RunReadFails(c) \/ CancelRun(c)
  BY <1>3, <1>4, <1>5, <1>8 DEF RunReadFails, CancelRun
<1>9. CASE RunClaims(c) \/ RunMissesClaim(c) \/ AdmitFails(c) \/ TurnEnds(c)
           \/ TurnFails(c)
  BY <1>4, <1>5, <1>9 DEF RunClaims, RunMissesClaim, AdmitFails, TurnEnds,
                          TurnFails
<1>10. QED
  BY <1>6, <1>7, <1>8, <1>9 DEF RunStep

\* The steps that belong to nobody's capture.
AsideStep ==
  \/ Stop \/ Stopped \/ Crash
  \/ PublishNoCard \/ PublishNoThread \/ PublisherBreaks
  \/ DispatcherBreaks \/ DispatcherEnds \/ UiExpires \/ UiFails
  \/ HumanResets \/ TimePasses \/ CaptureArrives
  \/ \E c \in Captures : HumanDecides(c)
  \/ UNCHANGED vars

LEMMA AsideIsQuiet ==
  ASSUME SInv, AsideStep, NEW d \in Captures
  PROVE  Quiet(d) /\ intact' = intact
<1>1. /\ TypeOK
      /\ StatesAgree(req[d].state, route[d].state)
  BY IInvParts DEF SInv, RoutesMatchRequests
<1>2. CASE UNCHANGED storeVars
  BY <1>2, StillIsQuiet DEF storeVars, Still
<1>3. CASE Stop \/ Stopped \/ Crash \/ PublishNoCard \/ PublisherBreaks
           \/ DispatcherBreaks \/ DispatcherEnds \/ UiFails \/ UNCHANGED vars
  BY <1>2, <1>3 DEF Stop, Stopped, Crash, PublishNoCard, PublisherBreaks,
                    DispatcherBreaks, DispatcherEnds, UiFails, vars
<1>4. ASSUME RequestOnly,
             \/ req'[d] = req[d]
             \/ \E s \in RequestStates :
                  /\ req'[d] = [req[d] EXCEPT !.state = s]
                  /\ \/ req[d].state \in Resettable /\ s = "reset"
                     \/ /\ req[d].state \in {"pending", "approved_waiting"}
                        /\ s \in {"expired", "uncertain"}
                     \/ /\ req[d].state = "pending"
                        /\ s \in {"approved_waiting", "rejected"}
      PROVE  Quiet(d) /\ intact' = intact
  <2>1. CASE req'[d] = req[d]
    BY <1>4, <2>1, StillIsQuiet DEF Still, RequestOnly
  <2>2. ASSUME NEW s \in RequestStates,
               req'[d] = [req[d] EXCEPT !.state = s],
               \/ req[d].state \in Resettable /\ s = "reset"
               \/ /\ req[d].state \in {"pending", "approved_waiting"}
                  /\ s \in {"expired", "uncertain"}
               \/ /\ req[d].state = "pending"
                  /\ s \in {"approved_waiting", "rejected"}
        PROVE  Quiet(d) /\ intact' = intact
    <3>1. req'[d].state = s
      BY <1>1, <2>2 DEF TypeOK, Request
    <3>2. req[d].state = "pending" => route[d].state # "creating"
      BY <1>1 DEF StatesAgree, Closed
    <3>3. QED
      BY <1>4, <2>2, <3>1, <3>2
         DEF Quiet, RequestOnly, Resettable, ThreadAuthorized, Waiting
  <2>3. QED
    BY <1>4, <2>1, <2>2
<1>5. CASE PublishNoThread
  <2>1. CASE ClaimNoThread
    <3>1. \/ req'[d] = req[d]
          \/ Scanned(d) /\ req'[d] = [req[d] EXCEPT !.state = Revoked(d)]
      BY <2>1 DEF ClaimNoThread
    <3>2. /\ Revoked(d) \in RequestStates
          /\ Revoked(d) \in {"expired", "uncertain"}
      BY DEF Revoked, RequestStates
    <3>3. Scanned(d) => req[d].state = "approved_waiting"
      BY DEF Scanned, Claimable, Waiting
    <3>4. RequestOnly
      BY <2>1 DEF ClaimNoThread
    <3>5. QED
      BY <1>4, <3>1, <3>2, <3>3, <3>4
  <2>2. QED
    BY <1>2, <1>5, <2>1 DEF PublishNoThread
<1>6. CASE UiExpires
  BY <1>4, <1>6 DEF UiExpires, ExpireDue, SetRequests, Due, RequestStates
<1>7. CASE HumanResets
  BY <1>1, <1>4, <1>7 DEF HumanResets, Reset, ResetThread, SetRequests,
                          SetRequest, RequestStates, TypeOK, RequestOnly
<1>8. ASSUME NEW c \in Captures, HumanDecides(c)
      PROVE  Quiet(d) /\ intact' = intact
  BY <1>1, <1>4, <1>8 DEF HumanDecides, Decide, SetRequest, RequestStates,
                          TypeOK, RequestOnly
<1>9. CASE TimePasses \/ CaptureArrives
  <2>1. now' \in {now, now + 1} /\ UNCHANGED <<intact, req, route>>
    BY <1>9 DEF TimePasses, Tick, CaptureArrives, Arrive
  <2>2. now \in Nat /\ req[d] \in Request
    BY <1>1 DEF TypeOK
  <2>3. QED
    BY <2>1, <2>2 DEF Quiet, ThreadAuthorized, Waiting, Request
<1>10. QED
  BY <1>3, <1>5, <1>6, <1>7, <1>8, <1>9 DEF AsideStep

-----------------------------------------------------------------------------
(* The publisher.                                                          *)

\* The capture of a step is the one in the publisher's hands, or it is taken
\* up in this step; no other one is.
LEMMA PublisherHands ==
  ASSUME SInv, NEW c \in Captures, PublisherStep(c)
  PROVE  /\ task.capture \in {c, None} /\ task'.capture \in {c, None}
         /\ task.pc # "done"
<1> USE DEF PublisherStates
<1>1. task \in Task
  BY DEF SInv, ServiceTypeOK
<1>2. ASSUME task.capture = c, NEW pc \in PublisherStates, TaskGoes(pc)
      PROVE  task'.capture \in {c, None}
  BY <1>1, <1>2 DEF TaskGoes, Parked, Task
<1>3. CASE PublishCard(c) \/ PublishClaim(c)
  <2>1. task.capture = None /\ task.pc # "done"
    BY <1>3 DEF PublishCard, PublishClaim, Publishing
  <2>2. \/ \E pc \in {"sending", "preflight", "validate"} :
             task' = [pc |-> pc, capture |-> c, started |-> FALSE]
        \/ TaskGoes("done")
    BY <1>3 DEF PublishCard, PublishClaim
  <2>3. task'.capture \in {c, None}
    BY <2>2 DEF TaskGoes, Parked
  <2>4. QED
    BY <2>1, <2>3
<1>4. CASE CardSent(c) \/ CardConfirmed(c) \/ CardFails(c)
  BY <1>2, <1>4 DEF CardSent, CardConfirmed, CardFails, Publishing
<1>5. CASE PublisherReads(c)
  BY <1>2, <1>5 DEF PublisherReads, Publishing, SentAs
<1>6. CASE CardRead(c)
  BY <1>1, <1>6 DEF CardRead, Publishing, Task
<1>7. CASE PublisherRefused(c) \/ ReadDenied(c) \/ ReadFails(c)
           \/ CreateBlocked(c) \/ Validated(c)
  BY <1>2, <1>7 DEF PublisherRefused, ReadDenied, ReadFails, CreateBlocked,
                    Validated, Publishing, Waits
<1>8. CASE SendPost(c) \/ PostNotAuthorized(c)
  BY <1>2, <1>8 DEF SendPost, PostNotAuthorized, Publishing
<1>9. CASE PostCreated(c) \/ PostCreatedBadly(c) \/ PostDenied(c)
           \/ PostRejected(c)
  BY <1>2, <1>9 DEF PostCreated, PostCreatedBadly, PostDenied, PostRejected,
                    Publishing
<1>10. CASE PostUnknown(c)
  BY <1>2, <1>10 DEF PostUnknown, Publishing
<1>11. CASE FailPosted(c) \/ CancelCreation(c)
  BY <1>2, <1>11 DEF FailPosted, CancelCreation, Creating
<1>12. QED
  BY <1>3, <1>4, <1>5, <1>6, <1>7, <1>8, <1>9, <1>10, <1>11 DEF PublisherStep

\* So what it does to one capture leaves the others as well off as before.
LEMMA PublisherSpares ==
  ASSUME Safe, NEW c \in Captures, NEW d \in Captures, d # c, PublisherStep(c)
  PROVE  PostOK(d)' /\ RunOK(d)'
<1>1. Quiet(d)
  BY PublisherIsQuiet DEF Safe
<1>2. /\ task.capture # d /\ task'.capture # d
      /\ task.pc # "done"
  BY PublisherHands, NoneAssumption DEF Safe, Captures
<1>3. UNCHANGED <<service, dispatchTask, runs>> /\ posts'[d] = posts[d]
  BY PublisherKeeps DEF Safe, SInv, ServiceTypeOK
<1>4. PostOK(d) /\ RunOK(d)
  BY DEF Safe
<1>5. PostOK(d)'
  BY <1>1, <1>2, <1>3, <1>4 DEF PostOK, PostKnown, InHand, Remembered, Quiet
<1>6. RunOK(d)'
  BY <1>1, <1>3, <1>4 DEF RunOK, Quiet
<1>7. QED
  BY <1>5, <1>6

\* What is known of the capture of a step, in the form its cases use.
Known(c) ==
  /\ req \in [Captures -> Request] /\ route \in [Captures -> Route]
  /\ posts \in [Captures -> Int]
  /\ task \in Task /\ now \in Nat
  /\ StatesAgree(req[c].state, route[c].state)
  /\ req[c].state = "none" => req[c] = NoRequest
  /\ route[c].state = "none" => route[c] = NoRoute
  /\ route[c].state = "ready" => route[c].thread # None
  /\ intact[c] /\ PostOK(c) /\ RunOK(c)

LEMMA SafeKnows ==
  ASSUME Safe, NEW c \in Captures
  PROVE  Known(c)
<1>1. TypeOK /\ RoutesMatchRequests /\ ThreadsAreBound /\ RowsWellFormed
  BY IInvParts DEF Safe, SInv
<1>2. QED
  BY <1>1 DEF Known, Safe, SInv, ServiceTypeOK, TypeOK, RoutesMatchRequests,
              ThreadsAreBound, RowsWellFormed

\* A deferred thread is no longer being created for a good approval.
LEMMA DeferralLetsGo ==
  ASSUME NEW c \in Captures, Known(c), NEW retry \in Nat,
         NEW code \in CooldownCodes, DeferThread(c, retry, code)
  PROVE  /\ req'[c].state = "dispatching" <=> req[c].state = "dispatching"
         /\ route'[c].state = "creating" => ~ThreadAuthorized(c)'
         /\ route'[c].thread = route[c].thread
         /\ route[c].state \in {"creating", "ready"}
         /\ route'[c].state = "creating" => route[c].state = "creating"
         /\ route'[c].state \in {"creating", "rate_wait", "ready"}
         /\ route[c].state = "ready" => route'[c].state = "ready"
<1> USE DEF Known, Request, Route
<1>1. Deferrable(c)
  BY DEF DeferThread
<1>2. /\ DeferRow(route[c], retry, code).thread = route[c].thread
      /\ DeferRow(route[c], retry, code).state
           = IF route[c].state = "creating" THEN "rate_wait" ELSE "ready"
  BY DEF DeferRow
<1>3. CASE route' = [route EXCEPT ![c] = DeferRow(route[c], retry, code)]
  <2>1. route'[c] = DeferRow(route[c], retry, code)
    BY <1>3
  <2>2. req'[c].state = "dispatching" <=> req[c].state = "dispatching"
    BY DEF DeferThread, RouteOnly, Waiting, SetRequest, RefuseAuthority, Revoked
  <2>3. QED
    BY <1>1, <1>2, <2>1, <2>2 DEF Deferrable
<1>4. CASE route' = route /\ Waiting(c)
           /\ SetRequest(c, "expired")
  BY <1>1, <1>4 DEF Deferrable, SetRequest, Waiting, ThreadAuthorized
<1>5. CASE RefuseAuthority(c)
  BY <1>1, <1>5 DEF Deferrable, RefuseAuthority, SetRequest, RequestOnly,
                    Waiting, ThreadAuthorized, Revoked
<1>6. QED
  BY <1>3, <1>4, <1>5 DEF DeferThread

\* Neither is one that has failed.
LEMMA FailureLetsGo ==
  ASSUME NEW c \in Captures, Known(c), NEW uncertain \in BOOLEAN,
         FailThread(c, uncertain)
  PROVE  /\ req'[c].state = "dispatching" <=> req[c].state = "dispatching"
         /\ route'[c].thread = route[c].thread
         /\ route[c].state \in {"creating", "ready"}
         /\ route'[c].state = IF uncertain THEN "uncertain" ELSE "failed"
BY DEF Known, Request, Route, FailThread, FailableStates

\* The publisher puts a capture down: it is either done with its thread, or
\* at its end.
LEMMA PutDown ==
  ASSUME NEW c \in Captures, Known(c),
         UNCHANGED <<service, dispatchTask, runs>>,
         task.pc # "done", task.capture \in {c, None}, None \notin Captures,
         \E pc \in {"idle", "claim", "done"} : TaskGoes(pc),
         posts'[c] \in {0, 1},
         req'[c].state = "dispatching" <=> req[c].state = "dispatching",
         runs[c] = "none" \/ route'[c] = route[c],
         posts'[c] = 1 /\ route'[c].thread = None =>
           \/ route'[c].state \in {"failed", "uncertain"}
           \/ route'[c].state = "creating" /\ TaskGoes("done"),
         route'[c].state = "creating" /\ ThreadAuthorized(c)' => 
           TaskGoes("done")
  PROVE  PostOK(c)' /\ RunOK(c)'
<1>1. task'.capture = None /\ task'.pc \in {"idle", "claim", "done"}
      /\ (TaskGoes("done") => task'.pc = "done")
  BY DEF TaskGoes, Parked
<1>2. RunOK(c)'
  BY DEF Known, RunOK
<1>3. task'.capture # c
  BY <1>1
<1>4. PostOK(c)'
  BY <1>1, <1>3 DEF PostOK, PostKnown, InHand, Remembered
<1>5. QED
  BY <1>2, <1>4

LEMMA PublisherKeepsPost ==
  ASSUME Safe, NEW c \in Captures, PublisherStep(c)
  PROVE  PostOK(c)' /\ RunOK(c)'
<1>1. Known(c) /\ None \notin Captures
  BY SafeKnows, NoneAssumption DEF Captures
<1>2. /\ task.capture \in {c, None} /\ task'.capture \in {c, None}
      /\ task.pc # "done"
  BY PublisherHands DEF Safe
<1>3. UNCHANGED <<service, dispatchTask, runs>>
  BY PublisherKeeps
<1>4. CASE PublishCard(c)
  <2>1. /\ req[c].state = "none" /\ req[c] = NoRequest /\ route[c] = NoRoute
        /\ runs[c] = "none" /\ posts[c] = 0
    BY <1>1, <1>4 DEF PublishCard, ClaimCard, Known, StatesAgree, RunOK, PostOK,
                      PostKnown, NoRoute
  <2>2. /\ req'[c].state = "posting"
        /\ route'[c].state = "unbound"
    BY <1>1, <1>4 DEF PublishCard, ClaimCard, Known, Unbound, NoRoute
  <2>3. posts' = posts
    BY <1>4 DEF PublishCard, TaskOnly
  <2>4. CASE TaskGoes("done")
    BY <1>1, <1>2, <1>3, <2>1, <2>2, <2>3, <2>4, PutDown DEF NoRequest
  <2>5. CASE task' = [pc |-> "sending", capture |-> c, started |-> FALSE]
    BY <1>1, <1>2, <1>3, <2>1, <2>2, <2>3, <2>5
       DEF Known, PostOK, PostKnown, InHand, Remembered, RunOK, Holding,
           Creating, NoRequest
  <2>6. QED
    BY <1>4, <2>4, <2>5 DEF PublishCard
<1>5. CASE CardSent(c)
  <2>1. /\ route' = route /\ posts' = posts
        /\ req'[c].state = req[c].state
        /\ req[c].state \in {"posting", "reset"}
    BY <1>1, <1>5 DEF CardSent, RememberCard, RequestOnly, TaskOnly, Known,
                      Request
  <2>2. task.capture = c /\ task' = [task EXCEPT !.pc = "confirming"]
    BY <1>5 DEF CardSent, Publishing, TaskGoes
  <2>3. task'.capture = c /\ task'.pc = "confirming" /\ task.pc = "sending"
    BY <1>1, <1>5, <2>2 DEF Known, Task, CardSent, Publishing
  <2>4. QED
    BY <1>1, <1>2, <1>3, <2>1, <2>3
       DEF Known, PostOK, PostKnown, InHand, Remembered, RunOK, Holding,
           Creating, ThreadAuthorized, Waiting
<1>6. CASE CardConfirmed(c) \/ CardFails(c)
  <2>1. /\ route' = route /\ posts' = posts
        /\ req'[c].state = "dispatching" <=> req[c].state = "dispatching"
        /\ req'[c].state # "approved_waiting"
        /\ \E pc \in {"sending", "confirming"} : Publishing(pc, c)
    BY <1>1, <1>6 DEF CardConfirmed, CardFails, BindCard, Uncertain, SetRequest,
                      RequestOnly, TaskOnly, storeVars, Known, Request,
                      Publishing, PostOK, InHand
  <2>2. \E pc \in {"claim", "done"} : TaskGoes(pc)
    BY <1>6 DEF CardConfirmed, CardFails
  <2>3. QED
    BY <1>1, <1>2, <1>3, <2>1, <2>2, PutDown
       DEF ThreadAuthorized, Waiting, Known, PostOK, PostKnown, Publishing
<1>7. CASE PublishClaim(c)
  <2>1. /\ route[c].state \in {"unbound", "rate_wait"}
        /\ req[c].state = "approved_waiting"
    BY <1>7 DEF PublishClaim, ClaimThreadCreation, Scanned, Claimable, Waiting,
                Unbound, NoRoute
  <2>2. /\ route'[c].state = "creating" /\ route'[c].thread = route[c].thread
        /\ req'[c].state = req[c].state
    BY <1>1, <1>7 DEF PublishClaim, ClaimThreadCreation, Known, Route
  <2>3. posts' = posts
    BY <1>7 DEF PublishClaim, TaskOnly
  <2>4. runs[c] = "none"
    BY <1>1, <2>1 DEF Known, RunOK
  <2>5. posts[c] = 0 \/ route[c].thread # None
    BY <1>1, <2>1 DEF Known, PostOK, PostKnown
  <2>6. /\ task'.capture = c
        /\ task'.pc = IF route[c].thread = None THEN "preflight" ELSE "validate"
    BY <1>7 DEF PublishClaim
  <2>7. PostOK(c)'
    BY <1>1, <2>2, <2>3, <2>5, <2>6
       DEF Known, PostOK, PostKnown, InHand, Remembered, Holding, Creating
  <2>8. RunOK(c)'
    BY <1>1, <1>3, <2>1, <2>2, <2>4 DEF Known, RunOK
  <2>9. QED
    BY <2>7, <2>8
\* The steps that leave the route as it is.
<1>8. ASSUME route'[c] = route[c],
              req'[c].state = "dispatching" <=> req[c].state = "dispatching",
              task'.capture = c, task'.pc \in Holding,
              task.capture = c, task.pc \in Holding,
              posts'[c] \in {0, 1},
              posts'[c] = 1 /\ route[c].thread = None =>
                task'.pc \in {"posting", "failUncertain"},
              task'.pc = "posting" => posts'[c] = 1,
              task'.pc \in {"create", "posting"} => task'.started,
              task'.pc \in {"validate", "checking"} => route[c].thread # None
       PROVE  PostOK(c)' /\ RunOK(c)'
  <2>1. route[c].state = "creating"
    BY <1>1, <1>8 DEF Known, PostOK, InHand
  <2>2. task'.pc \notin {"sending", "confirming"}
    BY <1>8 DEF Holding, Creating
  <2>3. PostOK(c)'
    BY <1>8, <2>1, <2>2 DEF PostOK, PostKnown, InHand, Remembered
  <2>4. RunOK(c)'
    BY <1>1, <1>3, <1>8 DEF Known, RunOK
  <2>5. QED
    BY <2>3, <2>4
<1>9. ASSUME UNCHANGED storeVars, task'.capture = c, task'.pc \in Holding,
             task.capture = c, task.pc \in Holding,
             posts'[c] \in {0, 1},
             posts'[c] = 1 /\ route[c].thread = None =>
               task'.pc \in {"posting", "failUncertain"},
             task'.pc = "posting" => posts'[c] = 1,
             task'.pc \in {"create", "posting"} => task'.started,
             task'.pc \in {"validate", "checking"} => route[c].thread # None
      PROVE  PostOK(c)' /\ RunOK(c)'
  <2>1. route'[c] = route[c] /\ req'[c] = req[c]
    BY <1>9 DEF storeVars
  <2>2. QED
    BY <1>8, <1>9, <2>1
<1>10. ASSUME NEW pc \in Holding, TaskGoes(pc), task.capture = c
      PROVE  /\ task'.capture = c /\ task'.pc = pc
             /\ task'.started = task.started
  BY <1>1, <1>10 DEF TaskGoes, Known, Task, Holding, Creating
<1>11. ASSUME task.capture = c, task.pc \in Holding
       PROVE  /\ posts[c] \in {0, 1} /\ route[c].state = "creating"
              /\ posts[c] = 1 /\ route[c].thread = None =>
                   task.pc \in {"posting", "failUncertain"}
              /\ runs[c] = "none"
  BY <1>1, <1>2, <1>11 DEF Known, PostOK, PostKnown, InHand, RunOK
<1>12. CASE PublisherReads(c)
  <2>1. PICK pc \in {"preflight", "validate"} :
          task.pc = pc /\ task.capture = c /\ TaskGoes(SentAs[pc])
    BY <1>12 DEF PublisherReads, Publishing
  <2>2. /\ SentAs[pc] \in Holding /\ SentAs[pc] # "posting" /\ pc \in Holding
        /\ SentAs[pc] \in {"validate", "checking"} => pc = "validate"
        /\ SentAs[pc] # "create"
    BY DEF SentAs, Holding, Creating
  <2>3. UNCHANGED storeVars /\ posts' = posts
    BY <1>12 DEF PublisherReads, TaskOnly
  <2>4. pc = "validate" => route[c].thread # None
    BY <1>1, <2>1 DEF Known, PostOK, InHand
  <2>5. QED
    BY <1>9, <1>10, <1>11, <2>1, <2>2, <2>3, <2>4
<1>13. CASE CardRead(c)
  <2>1. /\ task.pc = "reading" /\ task.capture = c
        /\ task'.pc = "create" /\ task'.capture = c /\ task'.started
        /\ UNCHANGED storeVars /\ posts' = posts
    BY <1>1, <1>13 DEF CardRead, Publishing, TaskOnly, Known, Task
  <2>2. QED
    BY <1>9, <1>11, <2>1 DEF Holding, Creating
<1>14. CASE SendPost(c)
  <2>1. /\ task.pc = "create" /\ task.capture = c /\ TaskGoes("posting")
        /\ route[c].thread = None
        /\ UNCHANGED storeVars /\ posts' = [posts EXCEPT ![c] = @ + 1]
    BY <1>14 DEF SendPost, Publishing, MayCreate, CreationAdmissible
  <2>2. task.pc \in Holding /\ "posting" \in Holding
    BY <2>1 DEF Holding, Creating
  <2>3. posts[c] = 0
    BY <1>11, <2>1, <2>2
  <2>4. posts'[c] = 1
    BY <1>1, <2>1, <2>3 DEF Known
  <2>5. task.started
    BY <1>1, <2>1 DEF Known, PostOK, InHand
  <2>6. /\ task'.capture = c /\ task'.pc = "posting"
        /\ task'.started
    BY <1>10, <2>1, <2>2, <2>5
  <2>7. QED
    BY <1>9, <2>1, <2>2, <2>4, <2>6
<1>15. CASE PostRejected(c)
  <2>1. /\ task.pc = "posting" /\ task.capture = c /\ TaskGoes("failCertain")
        /\ UNCHANGED storeVars /\ posts' = [posts EXCEPT ![c] = @ - 1]
    BY <1>15 DEF PostRejected, Publishing
  <2>2. task.pc \in Holding /\ "failCertain" \in Holding
    BY <2>1 DEF Holding, Creating
  <2>3. posts[c] = 1
    BY <1>1, <2>1 DEF Known, PostOK, InHand
  <2>4. posts'[c] = 0
    BY <1>1, <2>1, <2>3 DEF Known
  <2>5. task'.capture = c /\ task'.pc = "failCertain"
    BY <1>10, <2>1, <2>2
  <2>6. QED
    BY <1>9, <2>1, <2>2, <2>4, <2>5
<1>16. CASE PostUnknown(c)
  <2>1. /\ task.pc \in {"create", "posting"} /\ task.capture = c
        /\ UNCHANGED storeVars /\ posts' = posts
    BY <1>16 DEF PostUnknown, Publishing, TaskOnly
  <2>2. task.pc \in Holding
    BY <2>1 DEF Holding, Creating
  <2>3. CASE TaskGoes("failUncertain")
    <3>1. task'.capture = c /\ task'.pc = "failUncertain"
      BY <1>10, <2>1, <2>3 DEF Holding
    <3>2. QED
      BY <1>9, <1>11, <2>1, <2>2, <3>1 DEF Holding
  <2>4. CASE TaskGoes("done")
    <3>1. route'[c] = route[c] /\ req'[c] = req[c]
      BY <2>1 DEF storeVars
    <3>2. QED
      BY <1>1, <1>2, <1>3, <1>11, <2>1, <2>2, <2>4, <3>1, PutDown
  <2>5. QED
    BY <1>16, <2>3, <2>4 DEF PostUnknown
\* The steps that give the route another state.
<1>17. ASSUME NEW retry \in Nat, NEW code \in CooldownCodes,
              DeferThread(c, retry, code), TaskGoes("idle"),
              task.capture = c, task.pc \in Creating, posts'[c] \in {0, 1},
              posts'[c] = 1 => posts[c] = 1 /\ task.pc # "posting"
       PROVE  PostOK(c)' /\ RunOK(c)'
  <2>1. /\ req'[c].state = "dispatching" <=> req[c].state = "dispatching"
        /\ route'[c].state = "creating" => ~ThreadAuthorized(c)'
        /\ route'[c].thread = route[c].thread
    BY <1>1, <1>17, DeferralLetsGo
  <2>2. task.pc # "failUncertain" /\ task.pc \in Holding
    BY <1>17 DEF Creating, Holding
  <2>3. posts'[c] = 1 => route'[c].thread # None
    BY <1>11, <1>17, <2>1, <2>2
  <2>4. runs[c] = "none"
    BY <1>11, <1>17, <2>2
  <2>5. QED
    BY <1>1, <1>2, <1>3, <1>17, <2>1, <2>3, <2>4, PutDown
<1>18. ASSUME NEW uncertain \in BOOLEAN, FailThread(c, uncertain),
              NEW pc \in {"idle", "done"}, TaskGoes(pc),
              task.capture = c, task.pc \in Holding, posts' = posts
       PROVE  PostOK(c)' /\ RunOK(c)'
  <2>1. /\ req'[c].state = "dispatching" <=> req[c].state = "dispatching"
        /\ route'[c].state \in {"uncertain", "failed"}
    BY <1>1, <1>18, FailureLetsGo
  <2>2. posts'[c] \in {0, 1} /\ runs[c] = "none"
    BY <1>11, <1>18
  <2>3. QED
    BY <1>1, <1>2, <1>3, <1>18, <2>1, <2>2, PutDown
<1>19. ASSUME NEW r \in Refusals \cup Denials
       PROVE  r.retry \in Nat /\ r.code \in CooldownCodes
  <2>1. now \in Nat /\ globalRetryAt \in Nat
    BY DEF Safe, SInv, ServiceTypeOK, TypeOK
  <2>2. QED
    BY <2>1, DelaysAssumption DEF Refusals, Denials, CooldownCodes
<1>20. Waits \subseteq Creating /\ Creating \subseteq Holding
  BY DEF Waits, Creating, Holding
<1>21. CASE PublisherRefused(c)
  <2>1. /\ task.capture = c /\ task.pc \in Waits /\ task.pc # "posting"
        /\ TaskGoes("idle") /\ posts' = posts
    BY <1>21 DEF PublisherRefused, Publishing, Waits, TaskOnly
  <2>2. PICK r \in Refusals : DeferThread(c, r.retry, r.code)
    BY <1>21 DEF PublisherRefused
  <2>3. QED
    BY <1>11, <1>17, <1>19, <1>20, <2>1, <2>2
<1>22. CASE ReadDenied(c)
  <2>1. /\ task.capture = c /\ task.pc \in {"reading", "checking"}
        /\ TaskGoes("idle") /\ posts' = posts
    BY <1>22 DEF ReadDenied, Publishing
  <2>2. task.pc \in Creating /\ task.pc # "posting"
    BY <2>1 DEF Creating
  <2>3. PICK r \in Denials : DeferThread(c, r.retry, r.code)
    BY <1>22 DEF ReadDenied, RecordDenial
  <2>4. QED
    BY <1>11, <1>17, <1>19, <1>20, <2>1, <2>2, <2>3
<1>23. CASE PostDenied(c)
  <2>1. /\ task.capture = c /\ task.pc = "posting"
        /\ TaskGoes("idle") /\ posts' = [posts EXCEPT ![c] = @ - 1]
    BY <1>23 DEF PostDenied, Publishing
  <2>2. posts'[c] = 0 /\ task.pc \in Creating
    BY <1>1, <2>1 DEF Known, PostOK, InHand, Creating
  <2>3. PICK r \in Denials : DeferThread(c, r.retry, r.code)
    BY <1>23 DEF PostDenied, RecordDenial
  <2>4. QED
    BY <1>17, <1>19, <2>1, <2>2, <2>3
<1>24. CASE CreateBlocked(c) \/ ReadFails(c)
  <2>1. /\ task.capture = c /\ task.pc \in Creating /\ FailThread(c, FALSE)
        /\ \E pc \in {"idle", "done"} : TaskGoes(pc)
        /\ posts' = posts
    BY <1>24 DEF CreateBlocked, ReadFails, Publishing, Creating, TaskOnly
  <2>2. QED
    BY <1>18, <1>20, <2>1
<1>25. CASE FailPosted(c)
  <2>1. /\ task.capture = c /\ task.pc \in Holding
        /\ \E uncertain \in BOOLEAN : FailThread(c, uncertain)
        /\ \E pc \in {"idle", "done"} : TaskGoes(pc)
        /\ posts' = posts
    BY <1>25 DEF FailPosted, Holding, TaskOnly
  <2>2. QED
    BY <1>18, <2>1
<1>26. CASE PostCreated(c) \/ PostCreatedBadly(c)
  <2>1. /\ task.capture = c /\ task.pc = "posting" /\ posts' = posts
        /\ RememberThread(c, c)
    BY <1>26 DEF PostCreated, PostCreatedBadly, Publishing, TaskOnly
  <2>2. task.pc \in Holding
    BY <2>1 DEF Holding, Creating
  <2>3. /\ req'[c] = req[c] /\ UNCHANGED <<now, intact>>
        /\ route'[c].thread = c /\ route'[c].state = route[c].state
    BY <1>1, <2>1 DEF RememberThread, RouteOnly, Known, Route
  <2>4. ThreadAuthorized(c)' <=> ThreadAuthorized(c)
    BY <2>3 DEF ThreadAuthorized, Waiting
  <2>5. c # None
    BY <1>1
  <2>6. /\ posts[c] \in {0, 1} /\ route[c].state = "creating"
        /\ runs[c] = "none"
    BY <1>11, <2>1, <2>2
  <2>7. CASE TaskGoes("idle") /\ ~ThreadAuthorized(c)
    BY <1>1, <1>2, <1>3, <2>1, <2>3, <2>4, <2>5, <2>6, <2>7, PutDown
  <2>8. ASSUME NEW pc \in {"validate", "failUncertain"}, TaskGoes(pc)
        PROVE  PostOK(c)' /\ RunOK(c)'
    <3>1. task'.capture = c /\ task'.pc = pc /\ pc \in Holding
      BY <1>10, <2>1, <2>8 DEF Holding, Creating
    <3>2. PostOK(c)'
      BY <2>1, <2>3, <2>5, <2>6, <2>8, <3>1
         DEF PostOK, PostKnown, InHand, Remembered
    <3>3. RunOK(c)'
      BY <1>1, <1>3, <2>3, <2>5, <2>6 DEF Known, RunOK
    <3>4. QED
      BY <3>2, <3>3
  <2>9. QED
    BY <1>26, <2>7, <2>8 DEF PostCreated, PostCreatedBadly
<1>27. CASE Validated(c)
  <2>1. /\ task.capture = c /\ task.pc = "checking" /\ posts' = posts
        /\ TaskGoes("idle")
    BY <1>27 DEF Validated, Publishing, TaskOnly
  <2>2. task.pc \in Holding
    BY <2>1 DEF Holding, Creating
  <2>3. route[c].thread # None
    BY <1>1, <2>1 DEF Known, PostOK, InHand
  <2>4. /\ route'[c].thread = route[c].thread
        /\ req'[c].state = "dispatching" <=> req[c].state = "dispatching"
        /\ route'[c].state = "creating" => ~ThreadAuthorized(c)'
    <3>1. CASE ReadyThread(c) /\ ThreadAuthorized(c)
      BY <1>1, <3>1 DEF ReadyThread, RouteOnly, RefuseAuthority, Known, Route
    <3>2. CASE RefuseAuthority(c)
      BY <1>1, <3>2 DEF RefuseAuthority, SetRequest, Revoked, RequestOnly,
                        Known, Request, ThreadAuthorized, Waiting
    <3>3. CASE ~Waiting(c) /\ UNCHANGED storeVars
      BY <3>3 DEF storeVars, ThreadAuthorized, Waiting
    <3>4. QED
      BY <1>27, <3>1, <3>2, <3>3 DEF Validated, ReadyThread
  <2>5. QED
    BY <1>1, <1>2, <1>3, <1>11, <2>1, <2>2, <2>3, <2>4, PutDown
<1>28. CASE PostNotAuthorized(c)
  <2>1. /\ task.capture = c /\ task.pc = "create" /\ posts' = posts
    BY <1>28 DEF PostNotAuthorized, Publishing, TaskOnly
  <2>2. task.pc \in Creating /\ task.pc \in Holding /\ "failCertain" \in Holding
    BY <2>1 DEF Holding, Creating
  <2>3. ASSUME NEW due \in GlobalDues, DeferThread(c, due, "global_cooldown"),
               TaskGoes("idle")
        PROVE  PostOK(c)' /\ RunOK(c)'
    <3>1. due \in Nat
      BY <1>1 DEF GlobalDues, Known, Route
    <3>2. "global_cooldown" \in CooldownCodes
      BY DEF CooldownCodes
    <3>3. QED
      BY <1>11, <1>17, <2>1, <2>2, <2>3, <3>1, <3>2
  <2>4. ASSUME AuthorizeThreadCreation(c) \/ UNCHANGED storeVars,
               TaskGoes("failCertain")
        PROVE  PostOK(c)' /\ RunOK(c)'
    <3>1. /\ route'[c] = route[c]
          /\ req'[c].state = "dispatching" <=> req[c].state = "dispatching"
      BY <1>1, <2>4 DEF AuthorizeThreadCreation, RefuseAuthority, SetRequest,
                        Revoked, Waiting, RequestOnly, storeVars, Known, Request
    <3>2. task'.capture = c /\ task'.pc = "failCertain"
      BY <1>10, <2>1, <2>2, <2>4
    <3>3. QED
      BY <1>8, <1>11, <2>1, <2>2, <3>1, <3>2
  <2>5. QED
    BY <1>28, <2>3, <2>4 DEF PostNotAuthorized
<1>29. CASE CancelCreation(c)
  <2>1. /\ task.capture = c /\ task.pc \in Creating /\ posts' = posts
        /\ task.started \in BOOLEAN
    BY <1>1, <1>29 DEF CancelCreation, TaskOnly, Known, Task
  <2>2. task.pc \in Holding /\ "failCertain" \in Holding
    BY <2>1 DEF Holding
  <2>3. CASE PreflightOnly(c) /\ DeferCancelledPreflight(c, now + 1)
             /\ TaskGoes(IF ThreadAuthorized(c) THEN "done" ELSE "failCertain")
    <3>1. task.pc # "posting" /\ task.pc # "failUncertain"
      BY <1>1, <2>1, <2>3 DEF PreflightOnly, Known, PostOK, InHand, Creating
    <3>2. posts[c] = 0 /\ runs[c] = "none"
      BY <1>11, <2>1, <2>2, <2>3, <3>1 DEF PreflightOnly
    <3>3. CASE ThreadAuthorized(c)
      <4>1. /\ req'[c] = req[c]
            /\ TaskGoes("done")
        BY <2>3, <3>3 DEF DeferCancelledPreflight, RefuseAuthority, RouteOnly
      <4>2. QED
        BY <1>1, <1>2, <1>3, <2>1, <3>2, <4>1, PutDown
    <3>4. CASE ~ThreadAuthorized(c)
      <4>1. RefuseAuthority(c) /\ TaskGoes("failCertain")
        BY <2>3, <3>4 DEF DeferCancelledPreflight
      <4>2. /\ route'[c] = route[c]
            /\ req'[c].state = "dispatching" <=> req[c].state = "dispatching"
        BY <1>1, <4>1 DEF RefuseAuthority, SetRequest, Revoked, Waiting,
                          RequestOnly, Known, Request
      <4>3. task'.capture = c /\ task'.pc = "failCertain"
        BY <1>10, <2>1, <2>2, <4>1
      <4>4. QED
        BY <1>8, <2>1, <2>2, <3>2, <4>2, <4>3
    <3>5. QED
      BY <3>3, <3>4
  <2>4. CASE FailThread(c, task.started) /\ TaskGoes("done")
    BY <1>18, <2>1, <2>2, <2>4
  <2>5. CASE UNCHANGED storeVars /\ TaskGoes("done")
    <3>1. route'[c] = route[c] /\ req'[c] = req[c]
      BY <2>5 DEF storeVars
    <3>2. QED
      BY <1>1, <1>2, <1>3, <1>11, <2>1, <2>2, <2>5, <3>1, PutDown
  <2>6. QED
    BY <1>29, <2>3, <2>4, <2>5 DEF CancelCreation
<1>30. QED
  BY <1>4, <1>5, <1>6, <1>7, <1>12, <1>13, <1>14, <1>15, <1>16, <1>21, <1>22,
     <1>23, <1>24, <1>25, <1>26, <1>27, <1>28, <1>29 DEF PublisherStep

-----------------------------------------------------------------------------
(* The dispatcher and its runs.                                            *)

LEMMA RunKeepsDispatcher ==
  ASSUME NEW c \in Captures, RunStep(c)
  PROVE  /\ dispatchTask \in {"up", "dying"}
         /\ dispatchTask' = dispatchTask \/ dispatchTask' = "dying"
         /\ \E s \in RunStates : RunGoes(c, s)
BY DEF RunStep, StartRun, RunReads, RunRefused, RunDenied, RunReadFails,
       RunBusy, RunWaits, RunClaims, RunMissesClaim, RunAdmitted, AdmitFails,
       TurnEnds, TurnFails, RunBreaks, ReapRun, CancelRun, RunOnly, Dispatching,
       HasDispatchLock, RunStates

LEMMA RunSpares ==
  ASSUME Safe, NEW c \in Captures, NEW d \in Captures, d # c, RunStep(c)
  PROVE  PostOK(d)' /\ RunOK(d)'
<1>1. Still(d)
  BY RunIsStill DEF Safe
<1>2. UNCHANGED <<service, task, posts>>
  BY RunKeepsTask
<1>3. runs'[d] = runs[d]
  BY RunKeepsDispatcher DEF RunGoes, Safe, SInv, ServiceTypeOK
<1>4. PostOK(d) /\ RunOK(d)
  BY DEF Safe
<1>5. PostOK(d)'
  BY <1>1, <1>2, <1>4 DEF PostOK, PostKnown, InHand, Remembered, Still,
                          ThreadAuthorized, Waiting
<1>6. RunOK(d)'
  BY <1>1, <1>3, <1>4, RunKeepsDispatcher DEF RunOK, Still
<1>7. QED
  BY <1>5, <1>6

\* Whatever a run does to its own rows, the route stays the ready one the run
\* was started for, or fails.
LEMMA RunWrites ==
  ASSUME Safe, NEW c \in Captures, RunStep(c)
  PROVE  \/ req'[c] = req[c] /\ route'[c] = route[c]
            /\ UNCHANGED <<now, intact>>
         \/ /\ runs[c] # "none"
            /\ route'[c].thread = route[c].thread
            /\ route'[c].state \in {"ready", "failed"}
            /\ req[c].state \in {"posting", "reset"} =>
                 req'[c].state = req[c].state
<1>1. Known(c)
  BY SafeKnows
<1>2. CASE UNCHANGED storeVars
  BY <1>2 DEF storeVars
<1>3. CASE StartRun(c) \/ RunReads(c) \/ RunBusy(c) \/ RunWaits(c)
           \/ RunAdmitted(c) \/ RunBreaks(c) \/ ReapRun(c)
  BY <1>2, <1>3 DEF StartRun, RunReads, RunBusy, RunWaits, RunAdmitted,
                    RunBreaks, ReapRun
<1>4. ASSUME runs[c] # "none"
      PROVE  route[c].state \in {"ready", "failed"} /\ route[c].thread # None
  BY <1>1, <1>4 DEF Known, RunOK
<1>5. ASSUME runs[c] # "none", NEW r \in Refusals \cup Denials,
             DeferThread(c, r.retry, r.code)
      PROVE  /\ route'[c].thread = route[c].thread
             /\ route'[c].state = "ready"
             /\ req[c].state \in {"posting", "reset"} =>
                  req'[c].state = req[c].state
  <2>1. now \in Nat /\ globalRetryAt \in Nat
    BY DEF Safe, SInv, ServiceTypeOK, TypeOK
  <2>2. r.retry \in Nat /\ r.code \in CooldownCodes
    BY <2>1, DelaysAssumption DEF Refusals, Denials, CooldownCodes
  <2>3. req[c].state \in {"posting", "reset"} => req'[c] = req[c]
    BY <1>5 DEF DeferThread, RouteOnly, Waiting, RefuseAuthority
  <2>4. QED
    BY <1>1, <1>4, <1>5, <2>2, <2>3, DeferralLetsGo
<1>6. ASSUME runs[c] # "none", FailThread(c, FALSE)
      PROVE  /\ route'[c].thread = route[c].thread
             /\ route'[c].state = "failed"
             /\ req[c].state \in {"posting", "reset"} =>
                  req'[c].state = req[c].state
  BY <1>1, <1>6, FailureLetsGo DEF FailThread
<1>7. CASE RunRefused(c) \/ RunDenied(c)
  BY <1>5, <1>7 DEF RunRefused, RunDenied, RecordDenial, Dispatching
<1>8. CASE RunReadFails(c)
  BY <1>6, <1>8 DEF RunReadFails, Dispatching
<1>9. ASSUME runs[c] # "none",
             \/ ClaimThreadDispatch(c) \/ RefuseThreadDispatch(c)
             \/ Finish(c)
             \/ Uncertain(c) /\ req[c].state = "dispatching"
      PROVE  /\ route'[c] = route[c]
             /\ req[c].state \in {"posting", "reset"} =>
                  req'[c].state = req[c].state
  BY <1>9 DEF ClaimThreadDispatch, RefuseThreadDispatch, Finish, Uncertain,
              RefuseAuthority, ThreadAuthorized, Waiting, RequestOnly
<1>10. runs[c] \in {"admit", "turn"} => req[c].state = "dispatching"
  BY <1>1 DEF Known, RunOK
<1>11. CASE RunClaims(c) \/ RunMissesClaim(c) \/ AdmitFails(c) \/ TurnEnds(c)
            \/ TurnFails(c)
  <2>1. runs[c] # "none"
    BY <1>11 DEF RunClaims, RunMissesClaim, AdmitFails, TurnEnds, TurnFails,
                 HasDispatchLock, Dispatching
  <2>2. \/ ClaimThreadDispatch(c) \/ RefuseThreadDispatch(c)
        \/ Finish(c)
        \/ Uncertain(c) /\ req[c].state = "dispatching"
        \/ UNCHANGED storeVars
    BY <1>10, <1>11 DEF RunClaims, RunMissesClaim, AdmitFails, TurnEnds,
                        TurnFails, Dispatching
  <2>3. QED
    BY <1>2, <1>4, <1>9, <2>1, <2>2
<1>12. CASE CancelRun(c)
  <2>1. CASE FailThread(c, FALSE) /\ runs[c] \in {"readback", "get"}
    BY <1>6, <2>1
  <2>2. CASE Uncertain(c) /\ runs[c] \in {"admit", "turn"}
    BY <1>4, <1>9, <1>10, <2>2
  <2>3. QED
    BY <1>2, <1>12, <2>1, <2>2 DEF CancelRun
<1>13. QED
  BY <1>3, <1>7, <1>8, <1>11, <1>12 DEF RunStep

LEMMA RunKeepsPost ==
  ASSUME Safe, NEW c \in Captures, RunStep(c)
  PROVE  PostOK(c)'
<1>1. Known(c) /\ UNCHANGED <<service, task, posts>>
  BY SafeKnows, RunKeepsTask
<1>2. CASE req'[c] = req[c] /\ route'[c] = route[c] /\ UNCHANGED <<now, intact>>
  BY <1>1, <1>2 DEF Known, PostOK, PostKnown, InHand, Remembered,
                    ThreadAuthorized, Waiting
<1>3. CASE /\ runs[c] # "none"
           /\ route'[c].thread = route[c].thread
           /\ route'[c].state \in {"ready", "failed"}
           /\ req[c].state \in {"posting", "reset"} =>
                req'[c].state = req[c].state
  <2>1. route[c].state # "creating" /\ route[c].thread # None
    BY <1>1, <1>3 DEF Known, RunOK
  <2>2. QED
    BY <1>1, <1>3, <2>1 DEF Known, PostOK, PostKnown, InHand, Remembered
<1>4. QED
  BY <1>2, <1>3, RunWrites

LEMMA RunKeepsRun ==
  ASSUME Safe, NEW c \in Captures, RunStep(c)
  PROVE  RunOK(c)'
<1>1. Known(c) /\ runs \in [Captures -> RunStates]
  BY SafeKnows DEF Safe, SInv, ServiceTypeOK
<1>2. ASSUME NEW s \in RunStates, RunGoes(c, s)
      PROVE  runs'[c] = s
  BY <1>1, <1>2 DEF RunGoes
<1>3. dispatchTask' # "done" /\ (dispatchTask' = "up" => dispatchTask = "up")
  BY RunKeepsDispatcher
<1>4. runs'[c] # "none" =>
        route'[c].state \in {"ready", "failed"} /\ route'[c].thread # None
  <2>1. CASE StartRun(c)
    BY <1>1, <2>1 DEF StartRun, ThreadCandidate, storeVars
  <2>2. CASE runs[c] # "none"
    BY <1>1, <2>2, RunWrites DEF Known, RunOK
  <2>3. RunStep(c) => StartRun(c) \/ runs[c] # "none"
    BY DEF RunStep, RunReads, RunRefused, RunDenied, RunReadFails, RunBusy,
           RunWaits, RunClaims, RunMissesClaim, RunAdmitted, AdmitFails,
           TurnEnds, TurnFails, RunBreaks, ReapRun, CancelRun, Dispatching,
           HasDispatchLock, QuietlyCancelled
  <2>4. QED
    BY <2>1, <2>2, <2>3
<1>5. runs'[c] \in {"admit", "turn"} => req'[c].state = "dispatching"
  <2>1. CASE RunClaims(c)
    BY <1>1, <2>1 DEF RunClaims, ClaimThreadDispatch, SetRequest, Known, Request
  <2>2. CASE RunAdmitted(c)
    BY <1>1, <2>2 DEF RunAdmitted, Dispatching, storeVars, Known, RunOK
  <2>3. CASE ~(RunClaims(c) \/ RunAdmitted(c))
    <3>1. \E s \in RunStates \ {"admit", "turn"} : RunGoes(c, s)
      BY <2>3 DEF RunStep, StartRun, RunReads, RunRefused, RunDenied,
                  RunReadFails, RunBusy, RunWaits, RunMissesClaim, AdmitFails,
                  TurnEnds, TurnFails, RunBreaks, ReapRun, CancelRun, RunStates
    <3>2. QED
      BY <1>2, <3>1
  <2>4. QED
    BY <2>1, <2>2, <2>3
<1>6. req'[c].state = "dispatching" /\ dispatchTask' = "up" =>
        runs'[c] \in {"admit", "turn", "failed"}
  <2> SUFFICES ASSUME req'[c].state = "dispatching", dispatchTask' = "up"
               PROVE  runs'[c] \in {"admit", "turn", "failed"}
    OBVIOUS
  <2> USE DEF RunStates
  <2>1. CASE runs[c] \in {"none", "readback", "get", "queued", "ok"}
    <3>1. req[c].state # "dispatching"
      BY <1>1, <1>3, <2>1 DEF Known, RunOK
    <3>2. CASE RunClaims(c)
      BY <1>2, <3>2 DEF RunClaims
    <3>3. CASE ~RunClaims(c)
      <4>1. req'[c].state # "dispatching"
        <5>1. CASE UNCHANGED storeVars
          BY <3>1, <5>1 DEF storeVars
        <5>2. CASE RunRefused(c) \/ RunDenied(c)
          <6>1. PICK r \in Refusals \cup Denials :
                  DeferThread(c, r.retry, r.code)
            BY <5>2 DEF RunRefused, RunDenied, RecordDenial
          <6>2. now \in Nat /\ globalRetryAt \in Nat
            BY DEF Safe, SInv, ServiceTypeOK, TypeOK
          <6>3. r.retry \in Nat /\ r.code \in CooldownCodes
            BY <6>2, DelaysAssumption DEF Refusals, Denials, CooldownCodes
          <6>4. QED
            BY <1>1, <3>1, <6>1, <6>3, DeferralLetsGo
        <5>3. CASE FailThread(c, FALSE)
          BY <1>1, <3>1, <5>3, FailureLetsGo
        <5>4. CASE RefuseThreadDispatch(c)
          BY <1>1, <5>4 DEF RefuseThreadDispatch, RefuseAuthority, SetRequest,
                            Revoked, Known, Request
        <5>5. CASE Finish(c) \/ Uncertain(c)
          BY <1>1, <5>5 DEF Finish, Uncertain, SetRequest, Known, Request
        <5>6. QED
          BY <3>3, <5>1, <5>2, <5>3, <5>4, <5>5
             DEF RunStep, StartRun, RunReads, RunReadFails, RunBusy, RunWaits,
                 RunMissesClaim, RunAdmitted, AdmitFails, TurnEnds, TurnFails,
                 RunBreaks, ReapRun, CancelRun
      <4>2. QED
        BY <4>1
    <3>4. QED
      BY <3>2, <3>3
  <2>2. CASE runs[c] \in {"admit", "turn", "failed"}
    <3>1. CASE TurnEnds(c)
      BY <1>1, <3>1 DEF TurnEnds, Finish, SetRequest, Known, Request
    <3>2. CASE ~TurnEnds(c)
      <4>1. \E s \in {"turn", "failed"} : RunGoes(c, s)
        BY <2>2, <3>2
           DEF RunStep, StartRun, RunReads, RunRefused, RunDenied, RunReadFails,
               RunBusy, RunWaits, RunClaims, RunMissesClaim, RunAdmitted,
               AdmitFails, TurnFails, RunBreaks, ReapRun, CancelRun,
               Dispatching, HasDispatchLock
      <4>2. QED
        BY <1>2, <4>1
    <3>3. QED
      BY <3>1, <3>2
  <2>3. QED
    BY <1>1, <2>1, <2>2
<1>7. QED
  BY <1>3, <1>4, <1>5, <1>6 DEF RunOK

-----------------------------------------------------------------------------
(* The rest of Next.                                                       *)

LEMMA AsideKeeps ==
  ASSUME Safe, AsideStep, NEW c \in Captures
  PROVE  PostOK(c)' /\ RunOK(c)'
<1>1. Known(c) /\ Quiet(c) /\ TasksDone
  BY SafeKnows, AsideIsQuiet DEF Safe
<1>2. /\ posts' = posts
      /\ service' = "up" => service = "up"
      /\ \/ task' = task
         \/ task'.capture = None /\ task'.pc = "done"
         \/ /\ task.pc # "done" /\ task.capture = None
            /\ task'.capture = None /\ task'.pc \in {"idle", "claim"}
  BY DEF AsideStep, Stop, Stopped, Crash, PublishNoCard, PublishNoThread,
         PublisherBreaks, DispatcherBreaks, DispatcherEnds, UiExpires, UiFails,
         HumanResets, TimePasses, CaptureArrives, HumanDecides, vars,
         serviceVars, TaskOnly, TaskGoes, Parked, NoTasks, Publishing
<1>3. /\ runs' = runs \/ runs'[c] = "none"
      /\ dispatchTask' = "up" => dispatchTask = "up" /\ runs' = runs
      /\ dispatchTask' = "done" => runs'[c] = "none"
  BY <1>1
     DEF AsideStep, Stop, Stopped, Crash, PublishNoCard, PublishNoThread,
         PublisherBreaks, DispatcherBreaks, DispatcherEnds, UiExpires, UiFails,
         HumanResets, TimePasses, CaptureArrives, HumanDecides, vars,
         serviceVars, TaskOnly, NoTasks, Known, RunOK
<1>4. c # None
  BY NoneAssumption DEF Captures
<1>5. PostOK(c)'
  BY <1>1, <1>2, <1>4 DEF Known, PostOK, PostKnown, InHand, Remembered, Quiet
<1>6. RunOK(c)'
  BY <1>1, <1>3 DEF Known, RunOK, Quiet
<1>7. QED
  BY <1>5, <1>6

LEMMA StartKeeps ==
  ASSUME Safe, Start, NEW c \in Captures
  PROVE  PostOK(c)' /\ RunOK(c)'
<1>1. /\ Known(c) /\ task.pc = "done" /\ dispatchTask = "done"
      /\ runs[c] = "none"
  BY SafeKnows DEF Start, Safe, TasksDone, RunOK
<1>2. /\ task'.pc = "idle" /\ task'.capture = None
      /\ posts' = posts /\ runs' = runs
  BY DEF Start, Parked
<1>3. /\ route'[c].thread = route[c].thread
      /\ route'[c].state = IF route[c].state = "creating" THEN "uncertain"
                           ELSE route[c].state
      /\ req'[c].state # "dispatching"
  BY <1>1 DEF Start, Recover, Recovered, Known, Request, Route
<1>4. c # None
  BY NoneAssumption DEF Captures
<1>5. PostOK(c)'
  BY <1>1, <1>2, <1>3, <1>4
     DEF Known, PostOK, PostKnown, InHand, Remembered
<1>6. RunOK(c)'
  BY <1>1, <1>2, <1>3 DEF Start, RunOK
<1>7. QED
  BY <1>5, <1>6

\* A publisher that is cancelled has no hand in turns.
LEMMA CancelSparesClaims ==
  ASSUME Safe, CancelPublisher, NEW c \in Captures
  PROVE  /\ route' = route
         /\ req'[c].state = "dispatching" <=> req[c].state = "dispatching"
<1>1. CASE UNCHANGED storeVars
  BY <1>1 DEF storeVars
<1>2. CASE Uncertain(task.capture) /\ task.pc \in {"sending", "confirming"}
  <2>1. task.capture \in Captures
    BY <1>2 DEF Safe, SInv, TaskHasCapture
  <2>2. req[task.capture].state \in {"posting", "reset"}
    BY <1>2, <2>1 DEF Safe, PostOK, InHand
  <2>3. Known(c)
    BY SafeKnows
  <2>4. QED
    BY <1>2, <2>1, <2>2, <2>3
       DEF Uncertain, SetRequest, RequestOnly, Known, Request
<1>3. QED
  BY <1>1, <1>2 DEF CancelPublisher

LEMMA CancelPublisherKeeps ==
  ASSUME Safe, CancelPublisher, NEW c \in Captures
  PROVE  PostOK(c)' /\ RunOK(c)'
<1>1. Known(c)
  BY SafeKnows
<1>2. /\ UNCHANGED <<service, dispatchTask, runs, posts>>
      /\ task'.capture = None /\ task'.pc = "done"
      /\ service = "stopping"
      /\ task.pc \in {"idle", "claim", "sending", "confirming"}
  BY DEF CancelPublisher, TaskOnly, TaskGoes, Parked
<1>3. /\ route' = route
      /\ req'[c].state = "dispatching" <=> req[c].state = "dispatching"
  BY CancelSparesClaims
<1>4. c # None
  BY NoneAssumption DEF Captures
<1>5. PostOK(c)'
  BY <1>1, <1>2, <1>3, <1>4
     DEF Known, PostOK, PostKnown, InHand, Remembered
<1>6. RunOK(c)'
  BY <1>1, <1>2, <1>3 DEF Known, RunOK
<1>7. QED
  BY <1>5, <1>6

\* Every step keeps what is known of every capture.
LEMMA CapturesKept ==
  ASSUME Safe, [Next]_vars
  PROVE  \A c \in Captures : PostOK(c)' /\ RunOK(c)'
<1> SUFFICES ASSUME NEW c \in Captures  PROVE PostOK(c)' /\ RunOK(c)'
  OBVIOUS
<1>1. ASSUME NEW d \in Captures, PublisherStep(d)
      PROVE  PostOK(c)' /\ RunOK(c)'
  BY <1>1, PublisherSpares, PublisherKeepsPost
<1>2. ASSUME NEW d \in Captures, RunStep(d)
      PROVE  PostOK(c)' /\ RunOK(c)'
  BY <1>2, RunSpares, RunKeepsPost, RunKeepsRun
<1>3. QED
  BY <1>1, <1>2, AsideKeeps, StartKeeps, CancelPublisherKeeps
     DEF Next, AsideStep

LEMMA TasksDoneKept ==
  ASSUME Safe, [Next]_vars
  PROVE  TasksDone'
<1>1. ASSUME NEW c \in Captures, PublisherStep(c)
      PROVE  TasksDone'
  BY <1>1, PublisherHands, PublisherKeeps DEF Safe, TasksDone
<1>2. ASSUME NEW c \in Captures, RunStep(c)
      PROVE  TasksDone'
  BY <1>2, RunKeepsTask, RunKeepsDispatcher DEF Safe, TasksDone
<1>3. CASE Stopped \/ Crash
  BY <1>3 DEF Stopped, Crash, NoTasks, Parked, TasksDone
<1>4. CASE Start \/ Stop \/ PublishNoCard \/ PublishNoThread \/ PublisherBreaks
           \/ CancelPublisher
  BY <1>4 DEF Start, Stop, PublishNoCard, PublishNoThread, PublisherBreaks,
              CancelPublisher, Publishing, TaskOnly, TaskGoes, Parked, Safe,
              TasksDone
<1>5. CASE DispatcherBreaks \/ DispatcherEnds \/ UiExpires \/ UiFails
           \/ HumanResets \/ CaptureArrives \/ TimePasses
           \/ \E c \in Captures : HumanDecides(c)
  BY <1>5 DEF DispatcherBreaks, DispatcherEnds, UiExpires, UiFails, HumanResets,
              CaptureArrives, TimePasses, HumanDecides, serviceVars, Safe,
              TasksDone
<1>6. CASE UNCHANGED vars
  BY <1>6 DEF vars, serviceVars, Safe, TasksDone
<1>7. QED
  BY <1>1, <1>2, <1>3, <1>4, <1>5, <1>6 DEF Next

-----------------------------------------------------------------------------
(* The global wait.                                                        *)

\* No step of the service edits a captures row.
LEMMA IntactKept ==
  ASSUME Safe, [Next]_vars
  PROVE  intact' = intact
<1>1. SInv /\ TypeOK
  BY DEF Safe, SInv, ServiceTypeOK
<1>2. ASSUME NEW c \in Captures, CardStep(c) \/ ThreadStep(c) \/ TurnStep(c)
      PROVE  intact' = intact
  <2>1. CASE CardStep(c)
    BY <2>1 DEF CardStep, ClaimCard, RememberCard, BindCard, Decide,
                ResetThread, RequestOnly, RowsOnly
  <2>2. CASE ThreadStep(c)
    BY <2>2 DEF ThreadStep, ClaimThreadCreation, AuthorizeThreadCreation,
                DeferThread, DeferCancelledPreflight, RememberThread,
                ReadyThread, FailThread, RefuseAuthority, RequestOnly,
                RouteOnly, RowsOnly
  <2>3. CASE TurnStep(c)
    BY <2>3 DEF TurnStep, ClaimThreadDispatch, RefuseThreadDispatch,
                ClaimDispatch, Finish, Uncertain, RefuseAuthority, RequestOnly
  <2>4. QED
    BY <1>2, <2>1, <2>2, <2>3
<1>3. CASE UNCHANGED storeVars
  BY <1>3 DEF storeVars
<1>4. ASSUME NEW c \in Captures, PublisherStep(c) \/ RunStep(c)
      PROVE  intact' = intact
  BY <1>1, <1>2, <1>3, <1>4, PublisherUsesStore, RunUsesStore
<1>5. CASE Start
  BY <1>5 DEF Start, Recover, RowsOnly
<1>6. CASE CancelPublisher
  BY <1>3, <1>6 DEF CancelPublisher, Uncertain, RequestOnly
<1>7. CASE AsideStep
  BY <1>7 DEF AsideStep, Stop, Stopped, Crash, PublishNoCard, PublishNoThread,
              ClaimNoThread, PublisherBreaks, DispatcherBreaks, DispatcherEnds,
              UiExpires, ExpireDue, UiFails, HumanResets, Reset, TimePasses,
              Tick, CaptureArrives, Arrive, HumanDecides, Decide, ResetThread,
              RequestOnly, vars, storeVars
<1>8. QED
  BY <1>4, <1>5, <1>6, <1>7 DEF Next, AsideStep

\* While the row of a capture remembers the denial, the wait is durable.
LEMMA RecordedWaits ==
  ASSUME NEW w \in Captures, Recorded(w), announced \in Nat, announced > now
  PROVE  GlobalWait
BY NoneAssumption DEF Recorded, GlobalWait

\* A denial is on disk before anything else is: a request that has closed
\* meanwhile keeps the wait as well.
LEMMA DenialWritten ==
  ASSUME NEW c \in Captures, Known(c), NEW r \in Denials,
         DeferThread(c, r.retry, r.code)
  PROVE  /\ route'[c].state \in {"rate_wait", "ready"}
         /\ route'[c].code = r.code
         /\ route'[c].retry = r.retry
<1> DEFINE row == DeferRow(route[c], r.retry, r.code)
<1>1. ~(now < req[c].expires /\ RefuseAuthority(c))
  BY DEF Known, RefuseAuthority, ThreadAuthorized
<1>2. route' = [route EXCEPT ![c] = row]
  BY <1>1 DEF DeferThread, Known
<1>3. route[c] \in Route
  BY DEF Known
<1>4. /\ row.state \in {"rate_wait", "ready"}
      /\ row.code = r.code /\ row.retry = r.retry
  BY <1>3 DEF DeferRow, Route
<1>5. QED
  BY <1>2, <1>4 DEF Known

\* Only a denial announces a wait.
LEMMA PublisherAnnounces ==
  ASSUME NEW c \in Captures, PublisherStep(c)
  PROVE  \/ UNCHANGED <<announced, globalRetryAt>>
         \/ /\ task.capture = c /\ task.pc \in Holding
            /\ \E r \in Denials :
                 /\ DeferThread(c, r.retry, r.code)
                 /\ r.code = "global_cooldown"
                 /\ announced' = r.retry /\ globalRetryAt' = r.retry
<1>1. CASE PostDenied(c) \/ ReadDenied(c)
  BY <1>1 DEF PostDenied, ReadDenied, RecordDenial, Publishing, Holding,
              Creating
<1>2. CASE ~(PostDenied(c) \/ ReadDenied(c))
  BY <1>2 DEF PublisherStep, PublishCard, CardSent, CardConfirmed, CardFails,
              PublishClaim, PublisherReads, PublisherRefused, CardRead,
              SendPost, CreateBlocked, PostNotAuthorized, PostCreated,
              PostCreatedBadly,
              PostRejected, PostUnknown, ReadFails, Validated, FailPosted,
              CancelCreation, TaskOnly
<1>3. QED
  BY <1>1, <1>2

LEMMA RunAnnounces ==
  ASSUME NEW c \in Captures, RunStep(c)
  PROVE  \/ UNCHANGED <<announced, globalRetryAt>>
         \/ /\ RunGoes(c, "ok")
            /\ \E r \in Denials :
                 /\ DeferThread(c, r.retry, r.code)
                 /\ r.code = "global_cooldown"
                 /\ announced' = r.retry /\ globalRetryAt' = r.retry
<1>1. CASE RunDenied(c)
  BY <1>1 DEF RunDenied, RecordDenial
<1>2. CASE ~RunDenied(c)
  BY <1>2 DEF RunStep, StartRun, RunReads, RunRefused, RunReadFails, RunBusy,
              RunWaits, RunClaims, RunMissesClaim, RunAdmitted, AdmitFails,
              TurnEnds, TurnFails, RunBreaks, ReapRun, CancelRun, RunOnly
<1>3. QED
  BY <1>1, <1>2

\* Of the publisher's steps only the claims take something up, and both look
\* at the durable wait.
LEMMA PublisherInWait ==
  ASSUME NEW c \in Captures, PublisherStep(c), GlobalWait
  PROVE  /\ task.capture = c
         /\ \/ task.pc \in Holding
            \/ task.pc \in {"sending", "confirming"} /\ route' = route
<1>1. ~PublishCard(c) /\ ~PublishClaim(c)
  BY DEF PublishCard, PublishClaim, ClaimThreadCreation
<1>2. CASE CardSent(c) \/ CardConfirmed(c) \/ CardFails(c)
  BY <1>2 DEF CardSent, CardConfirmed, CardFails, RememberCard, BindCard,
              Uncertain, RequestOnly, storeVars, Publishing
<1>3. CASE ~(CardSent(c) \/ CardConfirmed(c) \/ CardFails(c))
  BY <1>1, <1>3
     DEF PublisherStep, PublisherReads, PublisherRefused, CardRead, SendPost,
         CreateBlocked, PostNotAuthorized, PostCreated, PostCreatedBadly,
         PostDenied, PostRejected, PostUnknown, ReadDenied, ReadFails,
         Validated, FailPosted, CancelCreation, Publishing, Waits, Creating,
         Holding
<1>4. QED
  BY <1>2, <1>3

LEMMA RunInWait ==
  ASSUME NEW c \in Captures, RunStep(c), GlobalWait
  PROVE  /\ runs[c] # "none"
         /\ runs[c] = "ok" => UNCHANGED storeVars /\ RunGoes(c, "none")
<1>1. ~StartRun(c)
  BY DEF StartRun, ThreadCandidate
<1>2. QED
  BY <1>1 DEF RunStep, RunReads, RunRefused, RunDenied, RunReadFails, RunBusy,
              RunWaits, RunClaims, RunMissesClaim, RunAdmitted, AdmitFails,
              TurnEnds, TurnFails, RunBreaks, ReapRun, CancelRun, Dispatching,
              HasDispatchLock, QuietlyCancelled

LEMMA WaitKept ==
  ASSUME Safe, [Next]_vars
  PROVE  announced' \in Nat /\ WaitOK'
<1>1. /\ announced \in Nat /\ now \in Nat /\ globalRetryAt \in Nat
      /\ TypeOK /\ SInv /\ TasksDone
      /\ runs \in [Captures -> RunStates]
  BY DEF Safe, SInv, ServiceTypeOK, TypeOK
<1>2. now' = now \/ now' = now + 1
  BY <1>1, StepUsesStore, ClockMoves
\* A new wait.
<1>3. ASSUME NEW c \in Captures, NEW r \in Denials,
             DeferThread(c, r.retry, r.code), r.code = "global_cooldown",
             announced' = r.retry, globalRetryAt' = r.retry,
             runs'[c] \in {"none", "ok"}
      PROVE  announced' \in Nat /\ WaitOK'
  <2>1. r.retry \in Nat
    BY <1>1, DelaysAssumption DEF Denials
  <2>2. Recorded(c)'
    BY <1>3, SafeKnows, DenialWritten DEF Recorded
  <2>3. QED
    BY <1>3, <2>1, <2>2 DEF WaitOK
\* The wait there was.
<1>4. ASSUME announced' = announced \/ announced' = 0,
             announced > now /\ announced' = announced /\ announced > now' =>
               /\ \A w \in Captures : Recorded(w) => Recorded(w)'
               /\ globalRetryAt = announced =>
                    globalRetryAt' = announced \/ Fresh'
               /\ Fresh => Fresh'
      PROVE  announced' \in Nat /\ WaitOK'
  <2>1. announced' \in Nat
    BY <1>1, <1>4
  <2>2. ASSUME announced' > now'
        PROVE  /\ \E w \in Captures : Recorded(w)'
               /\ globalRetryAt' = announced' \/ Fresh'
    <3>1. announced' = announced /\ announced > now
      BY <1>1, <1>2, <1>4, <2>2
    <3>2. PICK w \in Captures : Recorded(w)
      BY <3>1 DEF Safe, WaitOK
    <3>3. globalRetryAt = announced \/ Fresh
      BY <3>1 DEF Safe, WaitOK
    <3>4. QED
      BY <1>4, <2>2, <3>1, <3>2, <3>3
  <2>3. QED
    BY <2>1, <2>2 DEF WaitOK
<1>5. ASSUME NEW c \in Captures, PublisherStep(c)
      PROVE  announced' \in Nat /\ WaitOK'
  <2>1. UNCHANGED runs
    BY <1>5, PublisherKeeps
  <2>2. CASE UNCHANGED <<announced, globalRetryAt>>
    <3>1. ASSUME announced > now, NEW w \in Captures, Recorded(w)
          PROVE  Recorded(w)' /\ ~Fresh
      <4>1. GlobalWait
        BY <1>1, <3>1, RecordedWaits
      <4>2. /\ task.capture = c
            /\ \/ task.pc \in Holding
               \/ task.pc \in {"sending", "confirming"} /\ route' = route
        BY <1>5, <4>1, PublisherInWait
      <4>3. ~Fresh
        BY <4>2 DEF Fresh, Holding, Creating
      <4>4. route'[w] = route[w]
        <5>1. CASE w = c
          <6>1. task.pc \notin Holding
            BY <3>1, <4>2, <5>1, SafeKnows DEF Known, PostOK, InHand, Recorded
          <6>2. QED
            BY <4>2, <6>1
        <5>2. CASE w # c
          BY <1>1, <1>5, <5>2, PublisherIsQuiet DEF Quiet
        <5>3. QED
          BY <5>1, <5>2
      <4>5. QED
        BY <2>1, <2>2, <3>1, <4>3, <4>4 DEF Recorded
    <3>2. announced > now => \E w \in Captures : Recorded(w)
      BY DEF Safe, WaitOK
    <3>3. QED
      BY <1>4, <2>2, <3>1, <3>2
  <2>3. CASE task.capture = c /\ task.pc \in Holding
             /\ \E r \in Denials :
                  /\ DeferThread(c, r.retry, r.code)
                  /\ r.code = "global_cooldown"
                  /\ announced' = r.retry /\ globalRetryAt' = r.retry
    <3>1. runs[c] = "none"
      BY <2>3, SafeKnows DEF Known, PostOK, InHand, RunOK
    <3>2. QED
      BY <1>3, <2>1, <2>3, <3>1
  <2>4. QED
    BY <1>5, <2>2, <2>3, PublisherAnnounces
<1>6. ASSUME NEW c \in Captures, RunStep(c)
      PROVE  announced' \in Nat /\ WaitOK'
  <2>1. CASE UNCHANGED <<announced, globalRetryAt>>
    <3>1. ASSUME announced > now, NEW w \in Captures, Recorded(w)
          PROVE  Recorded(w)' /\ ~Fresh
      <4>1. GlobalWait
        BY <1>1, <3>1, RecordedWaits
      <4>2. /\ runs[c] # "none"
            /\ runs[c] = "ok" => UNCHANGED storeVars /\ RunGoes(c, "none")
        BY <1>6, <4>1, RunInWait
      <4>3. ~Fresh
        BY <4>2 DEF Fresh
      <4>4. CASE w = c
        <5>1. UNCHANGED storeVars /\ RunGoes(c, "none")
          BY <3>1, <4>2, <4>4 DEF Recorded
        <5>2. runs'[w] = "none" /\ route'[w] = route[w]
          BY <1>1, <4>4, <5>1 DEF RunGoes, storeVars
        <5>3. QED
          BY <2>1, <3>1, <4>3, <5>2 DEF Recorded
      <4>5. CASE w # c
        <5>1. route'[w] = route[w]
          BY <1>1, <1>6, <4>5, RunIsStill DEF Still
        <5>2. runs'[w] = runs[w]
          BY <1>1, <1>6, <4>5, RunKeepsDispatcher DEF RunGoes
        <5>3. QED
          BY <2>1, <3>1, <4>3, <5>1, <5>2 DEF Recorded
      <4>6. QED
        BY <4>4, <4>5
    <3>2. announced > now => \E w \in Captures : Recorded(w)
      BY DEF Safe, WaitOK
    <3>3. QED
      BY <1>4, <2>1, <3>1, <3>2
  <2>2. CASE RunGoes(c, "ok")
             /\ \E r \in Denials :
                  /\ DeferThread(c, r.retry, r.code)
                  /\ r.code = "global_cooldown"
                  /\ announced' = r.retry /\ globalRetryAt' = r.retry
    <3>1. runs'[c] = "ok"
      BY <1>1, <2>2 DEF RunGoes
    <3>2. QED
      BY <1>3, <2>2, <3>1
  <2>3. QED
    BY <1>6, <2>1, <2>2, RunAnnounces
<1>7. CASE Start
  <2>1. task.pc = "done" /\ \A c \in Captures : runs[c] = "none"
    BY <1>1, <1>7 DEF Start, TasksDone, Safe, RunOK
  <2>2. UNCHANGED <<announced, globalRetryAt, runs>> /\ Fresh'
    BY <1>7, <2>1 DEF Start, Parked, Fresh
  <2>3. ASSUME NEW w \in Captures, Recorded(w)
        PROVE  Recorded(w)'
    <3>1. route'[w] = route[w]
      BY <1>7, <2>3 DEF Start, Recover, Recorded
    <3>2. QED
      BY <2>2, <2>3, <3>1 DEF Recorded
  <2>4. QED
    BY <1>4, <2>2, <2>3
<1>8. CASE CancelPublisher
  <2>1. UNCHANGED <<announced, globalRetryAt, runs, route>>
    BY <1>8 DEF CancelPublisher, Uncertain, RequestOnly, TaskOnly, storeVars
  <2>2. task'.pc = "done"
    BY <1>8 DEF CancelPublisher, TaskGoes, Parked
  <2>3. Fresh => Fresh'
    BY <2>1, <2>2 DEF Fresh
  <2>4. QED
    BY <1>4, <2>1, <2>3 DEF Recorded
<1>9. CASE AsideStep
  <2>1. \A w \in Captures : route'[w] = route[w]
    BY <1>1, <1>9, AsideIsQuiet DEF Quiet
  <2>2. runs' = runs \/ \A w \in Captures : runs'[w] = "none"
    BY <1>9 DEF AsideStep, Stop, Stopped, Crash, PublishNoCard, PublishNoThread,
                PublisherBreaks, DispatcherBreaks, DispatcherEnds, UiExpires,
                UiFails, HumanResets, TimePasses, CaptureArrives, HumanDecides,
                vars, serviceVars, TaskOnly, NoTasks
  <2>3. task' = task \/ task'.pc \in {"done", "idle", "claim"}
    BY <1>9 DEF AsideStep, Stop, Stopped, Crash, PublishNoCard, PublishNoThread,
                PublisherBreaks, DispatcherBreaks, DispatcherEnds, UiExpires,
                UiFails, HumanResets, TimePasses, CaptureArrives, HumanDecides,
                vars, serviceVars, TaskOnly, TaskGoes, Parked, NoTasks
  <2>4. Fresh => Fresh'
    BY <2>2, <2>3 DEF Fresh
  <2>5. announced' = announced =>
          \A w \in Captures : Recorded(w) => Recorded(w)'
    BY <2>1, <2>2 DEF Recorded
  <2>6. CASE TimePasses
    <3>1. /\ announced' = Unpassed(announced)
          /\ globalRetryAt' = Unpassed(globalRetryAt)
      BY <2>6 DEF TimePasses
    <3>2. announced' = announced \/ announced' = 0
      BY <3>1 DEF Unpassed
    <3>3. globalRetryAt = announced => globalRetryAt' = announced'
      BY <3>1
    <3>4. QED
      BY <1>4, <2>4, <2>5, <3>2, <3>3
  <2>7. CASE Stopped \/ Crash
    <3>1. announced' = announced /\ Fresh'
      BY <2>7 DEF Stopped, Crash, NoTasks, Parked, Fresh
    <3>2. QED
      BY <1>4, <2>5, <3>1
  <2>8. CASE ~(TimePasses \/ Stopped \/ Crash)
    <3>1. UNCHANGED <<announced, globalRetryAt>>
      BY <1>9, <2>8 DEF AsideStep, Stop, PublishNoCard, PublishNoThread,
                PublisherBreaks, DispatcherBreaks, DispatcherEnds, UiExpires,
                UiFails, HumanResets, CaptureArrives, HumanDecides,
                vars, serviceVars, TaskOnly
    <3>2. QED
      BY <1>4, <2>4, <2>5, <3>1
  <2>9. QED
    BY <2>6, <2>7, <2>8
<1>10. QED
  BY <1>5, <1>6, <1>7, <1>8, <1>9 DEF Next, AsideStep

-----------------------------------------------------------------------------
(* The theorems.                                                           *)

LEMMA InitSafe ==
  ASSUME Init
  PROVE  Safe
<1>1. SInv
  BY ServiceInit
<1>2. \A c \in Captures : intact[c] /\ PostOK(c) /\ RunOK(c)
  <2> SUFFICES ASSUME NEW c \in Captures
               PROVE  intact[c] /\ PostOK(c) /\ RunOK(c)
    OBVIOUS
  <2>1. c # None
    BY NoneAssumption DEF Captures
  <2>2. /\ intact[c] /\ posts[c] = 0 /\ runs[c] = "none"
        /\ route[c].state = "none" /\ req[c].state = "none"
        /\ task.pc = "done" /\ task.capture = None
    BY DEF Init, StoreInit, NoRoute, NoRequest, Parked
  <2>3. QED
    BY <2>1, <2>2 DEF PostOK, PostKnown, InHand, Remembered, RunOK
<1>3. TasksDone /\ announced \in Nat /\ WaitOK
  BY DEF Init, StoreInit, Parked, TasksDone, WaitOK
<1>4. QED
  BY <1>1, <1>2, <1>3 DEF Safe

LEMMA StepSafe ==
  ASSUME Safe, [Next]_vars
  PROVE  Safe'
<1>1. SInv'
  BY ServiceStep DEF Safe
<1>2. \A c \in Captures : intact'[c] /\ PostOK(c)' /\ RunOK(c)'
  BY CapturesKept, IntactKept DEF Safe
<1>3. TasksDone' /\ announced' \in Nat /\ WaitOK'
  BY TasksDoneKept, WaitKept
<1>4. QED
  BY <1>1, <1>2, <1>3 DEF Safe

LEMMA SafeInvariant == Spec => []Safe
<1>1. Init => Safe
  BY InitSafe
<1>2. Safe /\ [Next]_vars => Safe'
  BY StepSafe
<1>3. QED
  BY <1>1, <1>2, PTL DEF Spec

\* For any number of captures, and whatever fails, is cancelled, is cut off by
\* a crash or is never answered: at most one creation POST for a card can have
\* had an effect.
THEOREM OneThreadPerCard == Spec => []AtMostOneThread
<1>1. Safe => AtMostOneThread
  BY DEF Safe, PostOK, AtMostOneThread
<1>2. QED
  BY <1>1, SafeInvariant, PTL

\* A turn that is claimed in the store has its run, and a run its claim.
THEOREM RunsMatchClaims == Spec => []TurnsHaveRuns
<1>1. Safe => TurnsHaveRuns
  BY DEF Safe, RunOK, TurnsHaveRuns
<1>2. QED
  BY <1>1, SafeInvariant, PTL

-----------------------------------------------------------------------------
(* No turn is left open.                                                   *)

\* As long as every write succeeds, a capture that is dispatching has a run
\* that stands in native code: every way out of there writes an outcome.
OpenHasRun(c) ==
  ~StorageMayFail /\ service # "down" /\ req[c].state = "dispatching" =>
    InHermes(c)

OpenHaveRuns == \A c \in Captures : OpenHasRun(c)

\* Nothing but the claim of a turn makes a capture dispatching.
LEMMA CallsOpenNone ==
  ASSUME TypeOK, NEW c \in Captures,
         \/ CardStep(c) \/ ThreadStep(c)
         \/ TurnStep(c) /\ ~ClaimDispatch(c) /\ ~ClaimThreadDispatch(c)
         \/ UNCHANGED storeVars,
         req'[c].state = "dispatching"
  PROVE  req[c].state = "dispatching"
<1> USE DEF TypeOK, Request
<1>1. CASE CardStep(c)
  BY <1>1 DEF CardStep, ClaimCard, RememberCard, BindCard, Decide, ResetThread,
              SetRequest, RequestOnly, RowsOnly
<1>2. CASE ThreadStep(c)
  <2>1. CASE ClaimThreadCreation(c)
    BY <2>1 DEF ClaimThreadCreation, Revoked
  <2>2. CASE AuthorizeThreadCreation(c) \/ ReadyThread(c)
             \/ \E id \in Captures : RememberThread(c, id)
    BY <2>2 DEF AuthorizeThreadCreation, ReadyThread, RememberThread,
                RefuseAuthority, Revoked, SetRequest, RequestOnly, RouteOnly
  <2>3. ASSUME NEW uncertain \in BOOLEAN, FailThread(c, uncertain)
        PROVE  req[c].state = "dispatching"
    BY <2>3 DEF FailThread
  <2>4. ASSUME NEW t \in Delays, NEW code \in CooldownCodes,
               DeferThread(c, now + t, code)
        PROVE  req[c].state = "dispatching"
    BY <2>4 DEF DeferThread, RefuseAuthority, Revoked, SetRequest, RequestOnly,
                RouteOnly
  <2>5. ASSUME NEW t \in Delays, DeferCancelledPreflight(c, now + t)
        PROVE  req[c].state = "dispatching"
    BY <2>5 DEF DeferCancelledPreflight, RefuseAuthority, Revoked, SetRequest,
                RequestOnly, RouteOnly
  <2>6. QED
    BY <1>2, <2>1, <2>2, <2>3, <2>4, <2>5 DEF ThreadStep
<1>3. CASE TurnStep(c) /\ ~ClaimDispatch(c) /\ ~ClaimThreadDispatch(c)
  BY <1>3 DEF TurnStep, RefuseThreadDispatch, Finish, Uncertain,
              RefuseAuthority, Revoked, SetRequest, RequestOnly
<1>4. CASE UNCHANGED storeVars
  BY <1>4 DEF storeVars
<1>5. QED
  BY <1>1, <1>2, <1>3, <1>4

LEMMA RunCloses ==
  ASSUME Safe, NEW c \in Captures, OpenHasRun(c), RunStep(c)
  PROVE  OpenHasRun(c)'
<1> SUFFICES ASSUME ~StorageMayFail, service # "down",
                    req'[c].state = "dispatching"
             PROVE  InHermes(c)'
  BY RunKeepsTask DEF OpenHasRun
<1> USE DEF InHermes
<1>1. /\ Known(c) /\ runs \in [Captures -> RunStates] /\ TypeOK
      /\ runs[c] \in {"admit", "turn"} <=> req[c].state = "dispatching"
  BY SafeKnows DEF Safe, SInv, ServiceTypeOK, RunOK, OpenHasRun
<1>2. ASSUME NEW s \in RunStates, RunGoes(c, s)
      PROVE  runs'[c] = s
  BY <1>1, <1>2 DEF RunGoes
<1>3. ~Finish(c) /\ (req[c].state = "dispatching" => ~Uncertain(c))
  BY <1>1 DEF Finish, Uncertain, SetRequest, Known, Request
<1>4. CASE RunClaims(c) \/ RunAdmitted(c)
  BY <1>2, <1>4 DEF RunClaims, RunAdmitted, RunStates
<1>5. CASE ~(RunClaims(c) \/ RunAdmitted(c))
  <2>1. req[c].state = "dispatching"
    <3>1. CASE UNCHANGED storeVars
      BY <3>1 DEF storeVars
    <3>2. CASE FailThread(c, FALSE) \/ RefuseThreadDispatch(c)
      BY <1>1, <3>2, CallsOpenNone DEF ThreadStep, TurnStep, FailThread,
         RefuseThreadDispatch, RefuseAuthority, Revoked, SetRequest, TypeOK, Request
    <3>3. CASE RunRefused(c) \/ RunDenied(c)
      <4>1. ThreadStep(c)
        BY <3>3, Deferral DEF RunRefused, RunDenied, RecordDenial, Safe
      <4>2. QED
        BY <1>1, <4>1, CallsOpenNone
    <3>4. CASE Uncertain(c) /\ req[c].state # "dispatching"
      BY <3>4 DEF Uncertain, SetRequest, TypeOK, Request
    <3>5. QED
      BY <1>3, <1>5, <3>1, <3>2, <3>3, <3>4
         DEF RunStep, StartRun, RunReads, RunReadFails, RunBusy, RunWaits,
             RunMissesClaim, AdmitFails, TurnEnds, TurnFails, RunBreaks,
             ReapRun, CancelRun
  <2>2. QED
    BY <1>1, <1>3, <1>5, <2>1
       DEF RunStep, StartRun, RunReads, RunRefused, RunDenied, RunReadFails,
           RunBusy, RunWaits, RunMissesClaim, AdmitFails, TurnEnds, TurnFails,
           RunBreaks, ReapRun, CancelRun, Dispatching, HasDispatchLock,
           QuietlyCancelled
<1>6. QED
  BY <1>4, <1>5

LEMMA OpenKept ==
  ASSUME Safe, NEW c \in Captures, OpenHasRun(c), [Next]_vars
  PROVE  OpenHasRun(c)'
<1> USE DEF OpenHasRun, InHermes
<1>1. Known(c) /\ TypeOK
  BY SafeKnows DEF Safe, SInv, ServiceTypeOK
<1>2. ASSUME NEW d \in Captures, PublisherStep(d)
      PROVE  OpenHasRun(c)'
  <2>1. UNCHANGED <<service, runs>>
    BY <1>2, PublisherKeeps
  <2>2. CASE d # c
    BY <1>2, <2>1, <2>2, PublisherIsQuiet DEF Safe, Quiet
  <2>3. CASE d = c
    <3>1. Uncertain(c) /\ req'[c].state = "dispatching" =>
            req[c].state = "dispatching"
      BY <1>1 DEF Uncertain, SetRequest, Known, Request
    <3>2. QED
      BY <1>1, <1>2, <2>1, <2>3, <3>1, PublisherCalls, CallsOpenNone DEF Safe
  <2>4. QED
    BY <2>2, <2>3
<1>3. ASSUME NEW d \in Captures, RunStep(d)
      PROVE  OpenHasRun(c)'
  <2>1. CASE d # c
    <3>1. runs'[c] = runs[c]
      BY <1>3, <2>1, RunKeepsDispatcher DEF RunGoes, Safe, SInv, ServiceTypeOK
    <3>2. QED
      BY <1>3, <2>1, <3>1, RunIsStill, RunKeepsTask DEF Safe, Still
  <2>2. CASE d = c
    BY <1>3, <2>2, RunCloses
  <2>3. QED
    BY <2>1, <2>2
<1>4. CASE AsideStep
  <2>1. req'[c].state = "dispatching" <=> req[c].state = "dispatching"
    BY <1>4, AsideIsQuiet DEF Safe, Quiet
  <2>2. \/ service' = "down"
        \/ /\ service # "down"
           /\ runs'[c] = runs[c]
        \/ service' = service /\ runs' = runs
    BY <1>1, <1>4
       DEF AsideStep, Stop, Stopped, Crash, PublishNoCard, PublishNoThread,
           PublisherBreaks, DispatcherBreaks, DispatcherEnds, UiExpires,
           UiFails, HumanResets, TimePasses, CaptureArrives, HumanDecides,
           vars, serviceVars, TaskOnly, NoTasks, Known, RunOK
  <2>3. QED
    BY <2>1, <2>2
<1>5. CASE Start
  BY <1>1, <1>5 DEF Start, Recover, Recovered, Known, Request
<1>6. CASE CancelPublisher
  BY <1>1, <1>6, CancelSparesClaims DEF CancelPublisher, TaskOnly
<1>7. QED
  BY <1>2, <1>3, <1>4, <1>5, <1>6 DEF Next, AsideStep

\* Whoever fails, is refused or is cancelled, and in whatever order: as long as
\* the table can be written, the end of the dispatcher leaves no turn that was
\* begun without an outcome.
THEOREM TurnsAreClosed == Spec => []NoTurnLeftOpen
<1>1. Init => OpenHaveRuns
  BY DEF Init, OpenHaveRuns, OpenHasRun
<1>2. Safe /\ OpenHaveRuns /\ [Next]_vars => OpenHaveRuns'
  BY OpenKept DEF OpenHaveRuns
<1>3. Safe /\ OpenHaveRuns => NoTurnLeftOpen
  BY DEF Safe, RunOK, OpenHaveRuns, OpenHasRun, InHermes, NoTurnLeftOpen
<1>4. QED
  BY <1>1, <1>2, <1>3, SafeInvariant, PTL DEF Spec

\* While the publisher lives no good approval is left in a claimed creation
\* that nobody works on.
THEOREM CreationsAreHeld == Spec => []NoCreationForgotten
<1>1. Safe => NoCreationForgotten
  BY DEF Safe, PostOK, Remembered, NoCreationForgotten
<1>2. QED
  BY <1>1, SafeInvariant, PTL

LEMMA NoneIsSentInWait ==
  ASSUME Safe, [Next]_vars, announced > now
  PROVE  /\ task'.pc \in {"sending", "reading", "posting", "checking"} =>
              task.pc = task'.pc \/ task.pc = "sending"
         /\ \A c \in Captures : runs'[c] = "get" => runs[c] = "get"
<1>1. /\ announced \in Nat /\ now \in Nat /\ globalRetryAt \in Nat
      /\ runs \in [Captures -> RunStates] /\ task \in Task
  BY DEF Safe, SInv, ServiceTypeOK, TypeOK
<1>2. GlobalWait /\ (globalRetryAt = announced \/ Fresh)
  BY <1>1, RecordedWaits DEF Safe, WaitOK
<1>3. MaySend => Fresh
  BY <1>1, <1>2 DEF MaySend, GateOpen
<1>4. ASSUME NEW c \in Captures, PublisherStep(c)
      PROVE  task'.pc \in {"sending", "reading", "posting", "checking"} =>
               task.pc = task'.pc \/ task.pc = "sending"
  <2>1. task.pc \in Holding \cup {"sending", "confirming"}
    BY <1>2, <1>4, PublisherInWait
  <2>2. ~MaySend
    BY <1>3, <2>1 DEF Fresh, Holding, Creating
  <2>3. /\ ~PublishCard(c) /\ ~PublisherReads(c)
        /\ ~SendPost(c) /\ ~PublishClaim(c)
    BY <1>2, <2>2 DEF PublishCard, PublisherReads, SendPost, PublishClaim,
                      ClaimThreadCreation
  <2>4. \/ \E pc \in {"confirming", "claim", "done", "idle", "failCertain",
                      "failUncertain", "validate"} : TaskGoes(pc)
        \/ task'.pc = "create"
    BY <1>1, <1>4, <2>3
       DEF PublisherStep, CardSent, CardConfirmed, CardFails, PublisherRefused,
           CardRead, CreateBlocked, PostNotAuthorized, PostCreated,
           PostCreatedBadly, PostDenied, PostRejected, PostUnknown, ReadDenied,
           ReadFails, Validated, FailPosted, CancelCreation, Task
  <2>5. QED
    BY <1>1, <2>4 DEF TaskGoes, Parked, Task
<1>5. ASSUME NEW d \in Captures, RunStep(d), NEW c \in Captures
      PROVE  runs'[c] = "get" => runs[c] = "get"
  <2>1. runs[d] # "none"
    BY <1>2, <1>5, RunInWait
  <2>2. ~RunReads(d)
    BY <1>3, <2>1 DEF RunReads, Fresh
  <2>3. \E s \in RunStates \ {"get"} : RunGoes(d, s)
    BY <1>5, <2>2
       DEF RunStep, StartRun, RunRefused, RunDenied, RunReadFails, RunBusy,
           RunWaits, RunClaims, RunMissesClaim, RunAdmitted, AdmitFails,
           TurnEnds, TurnFails, RunBreaks, ReapRun, CancelRun, RunStates
  <2>4. QED
    BY <1>1, <2>3 DEF RunGoes
<1>6. CASE AsideStep \/ Start \/ CancelPublisher
  <2>1. task' = task \/ task'.pc \in {"done", "idle", "claim"}
    BY <1>6 DEF AsideStep, Start, CancelPublisher, Stop, Stopped, Crash,
                PublishNoCard, PublishNoThread, PublisherBreaks,
                DispatcherBreaks, DispatcherEnds, UiExpires, UiFails,
                HumanResets, TimePasses, CaptureArrives, HumanDecides, vars,
                serviceVars, TaskOnly, TaskGoes, Parked, NoTasks
  <2>2. runs' = runs \/ \A c \in Captures : runs'[c] = "none"
    BY <1>6 DEF AsideStep, Start, CancelPublisher, Stop, Stopped, Crash,
                PublishNoCard, PublishNoThread, PublisherBreaks,
                DispatcherBreaks, DispatcherEnds, UiExpires, UiFails,
                HumanResets, TimePasses, CaptureArrives, HumanDecides, vars,
                serviceVars, TaskOnly, NoTasks
  <2>3. QED
    BY <2>1, <2>2
<1>7. ASSUME NEW c \in Captures, PublisherStep(c)
      PROVE  runs' = runs
  BY <1>7, PublisherKeeps
<1>8. ASSUME NEW c \in Captures, RunStep(c)
      PROVE  task' = task
  BY <1>8, RunKeepsTask
<1>9. QED
  BY <1>4, <1>5, <1>6, <1>7, <1>8 DEF Next, AsideStep

\* No request is started inside a global wait that Discord has announced, by
\* the process that was denied or by any later one.
THEOREM WaitsAreObserved == Spec => NoRequestInGlobalWait
<1>1. Safe /\ [Next]_vars =>
        [announced > now =>
           /\ task'.pc \in {"sending", "reading", "posting", "checking"} =>
                task.pc = task'.pc \/ task.pc = "sending"
           /\ \A c \in Captures : runs'[c] = "get" => runs[c] = "get"]_vars
  BY NoneIsSentInWait
<1>2. QED
  BY <1>1, SafeInvariant, PTL DEF Spec, NoRequestInGlobalWait

-----------------------------------------------------------------------------
(* The requests of the service keep the contract of RequestPort.           *)

AtPort == {"sending", "confirming", "reading", "posting", "checking"}

Using == {c \in Captures : runs[c] = "get"}
         \cup IF task.pc \in AtPort THEN {None} ELSE {}

Contract == INSTANCE RequestPort
              WITH Users <- Captures \cup {None}, using <- Using,
                   wait <- globalRetryAt

KeepsContract == Contract!Spec

ContractStep == [Contract!Next]_<<now, Using, globalRetryAt>>

\* What the contract says of any state: only one is at it, outside any wait.
OneOutsideWaits ==
  /\ \A u, v \in Using : u = v
  /\ Using # {} => GateOpen

LEMMA ContractKeepsOne ==
  ASSUME OneOutsideWaits, now \in Nat, globalRetryAt \in Nat, ContractStep
  PROVE  OneOutsideWaits'
BY DEF OneOutsideWaits, GateOpen, ContractStep, Contract!Next, Contract!Begins,
       Contract!Ends, Contract!Denied, Contract!Passes, Contract!Restarts, Using

LEMMA AnswersComeIn ==
  ASSUME OneOutsideWaits, Using' \subseteq Using,
         now' = now, globalRetryAt' = globalRetryAt
  PROVE  ContractStep
<1>1. Using' = Using \/ Using' = {}
  BY DEF OneOutsideWaits
<1> QED BY <1>1 DEF ContractStep, Contract!Next, Contract!Ends, Using

LEMMA RequestGoesOut ==
  ASSUME MaySend, NEW u \in Captures \cup {None}, Using' \subseteq Using \cup {u},
         now' = now, globalRetryAt' = globalRetryAt
  PROVE  ContractStep
<1>1. Using = {} /\ now >= globalRetryAt
  BY DEF MaySend, GateOpen, PortHeld, Using, AtPort
<1>2. Using' = {u} \/ Using' = {}
  BY <1>1
<1> QED BY <1>1, <1>2 DEF ContractStep, Contract!Next, Contract!Begins, Using

\* The one that was told is no longer at it, whatever it was told.
LEMMA DenialComesIn ==
  ASSUME OneOutsideWaits, TypeOK, NEW u \in Using, Using' \subseteq Using \ {u},
         now' = now, NEW c \in Captures,
         \E r \in Denials : RecordDenial(c, r)
  PROVE  ContractStep
<1>1. Using # {} /\ Using' = {}
  BY DEF OneOutsideWaits
<1>2. PICK d \in Delays : globalRetryAt' \in {globalRetryAt, now + d}
  BY DEF Denials, RecordDenial
<1>3. CASE globalRetryAt' = globalRetryAt
  BY <1>1, <1>3, AnswersComeIn
<1>4. CASE globalRetryAt' = now + d
  <2>1. globalRetryAt' \in Nat /\ globalRetryAt' > now
    BY <1>4, DelaysAssumption DEF TypeOK
  <2> QED BY <1>1, <2>1 DEF ContractStep, Contract!Next, Contract!Denied, Using
<1> QED BY <1>2, <1>3, <1>4

LEMMA PublisherInContract ==
  ASSUME Safe, OneOutsideWaits, NEW c \in Captures, PublisherStep(c)
  PROVE  ContractStep
<1>1. /\ TypeOK /\ task \in Task
      /\ runs' = runs /\ now' = now
  BY PublisherKeeps, PublisherUsesStore, CallsTakeNoTime
     DEF Safe, SInv, ServiceTypeOK
<1>2. ASSUME task'.pc \in AtPort => task.pc \in AtPort
      PROVE  Using' \subseteq Using
  BY <1>1, <1>2 DEF Using
<1>3. CASE PublishCard(c) \/ PublisherReads(c) \/ SendPost(c)
  <2>1. MaySend /\ globalRetryAt' = globalRetryAt
    BY <1>3 DEF PublishCard, PublisherReads, SendPost, TaskOnly
  <2>2. Using' \subseteq Using \cup {None}
    BY <1>1 DEF Using
  <2> QED BY <1>1, <2>1, <2>2, RequestGoesOut
<1>4. CASE PostDenied(c) \/ ReadDenied(c)
  <2>1. /\ task.pc \in AtPort /\ task' = Parked("idle")
        /\ \E r \in Denials : RecordDenial(c, r)
    BY <1>4 DEF PostDenied, ReadDenied, Publishing, TaskGoes, AtPort
  <2>2. None \in Using /\ Using' \subseteq Using \ {None}
    BY <1>1, <2>1, NoneAssumption DEF Using, Parked, AtPort, Captures
  <2> QED BY <1>1, <2>1, <2>2, DenialComesIn
<1>5. CASE CardSent(c)
  <2>1. task.pc \in AtPort /\ globalRetryAt' = globalRetryAt
    BY <1>5 DEF CardSent, Publishing, AtPort, TaskOnly
  <2> QED BY <1>1, <1>2, <2>1, AnswersComeIn
<1>6. CASE ~(\/ PublishCard(c) \/ PublisherReads(c) \/ SendPost(c)
             \/ PostDenied(c) \/ ReadDenied(c) \/ CardSent(c))
  <2>1. globalRetryAt' = globalRetryAt
    BY <1>6
       DEF PublisherStep, CardConfirmed, CardFails, PublishClaim,
           PublisherRefused, CardRead, CreateBlocked, PostNotAuthorized,
           PostCreated, PostCreatedBadly, PostRejected, PostUnknown,
           ReadFails, Validated, FailPosted, CancelCreation, TaskOnly
  <2>2. \/ \E pc \in {"claim", "done", "idle", "failCertain",
                      "failUncertain", "validate"} : TaskGoes(pc)
        \/ task' = [task EXCEPT !.pc = "create", !.started = TRUE]
        \/ \E pc \in {"preflight", "validate"} :
             task' = [pc |-> pc, capture |-> c, started |-> FALSE]
    BY <1>6
       DEF PublisherStep, CardConfirmed, CardFails, PublishClaim,
           PublisherRefused, CardRead, CreateBlocked, PostNotAuthorized,
           PostCreated, PostCreatedBadly, PostRejected, PostUnknown,
           ReadFails, Validated, FailPosted, CancelCreation
  <2>3. task'.pc \notin AtPort
    <3>1. ASSUME NEW pc \in {"claim", "done", "idle", "failCertain",
                             "failUncertain", "validate"}, TaskGoes(pc)
          PROVE  task'.pc = pc
      BY <1>1, <3>1 DEF TaskGoes, Parked, Task
    <3>2. CASE task' = [task EXCEPT !.pc = "create", !.started = TRUE]
      BY <1>1, <3>2 DEF Task, AtPort
    <3> QED BY <2>2, <3>1, <3>2 DEF AtPort
  <2> QED BY <1>1, <1>2, <2>1, <2>3, AnswersComeIn
<1> QED BY <1>3, <1>4, <1>5, <1>6

LEMMA RunInContract ==
  ASSUME Safe, OneOutsideWaits, NEW c \in Captures, RunStep(c)
  PROVE  ContractStep
<1>1. /\ TypeOK /\ runs \in [Captures -> RunStates]
      /\ task' = task /\ now' = now
  BY RunKeepsTask, RunUsesStore, CallsTakeNoTime
     DEF Safe, SInv, ServiceTypeOK
<1>2. ASSUME NEW s, RunGoes(c, s)
      PROVE  /\ Using' \subseteq Using \cup {c}
             /\ s # "get" => Using' \subseteq Using
             /\ s # "get" /\ c # None => Using' \subseteq Using \ {c}
  BY <1>1, <1>2 DEF Using, RunGoes
<1>3. CASE RunReads(c)
  BY <1>1, <1>2, <1>3, RequestGoesOut DEF RunReads, RunOnly
<1>4. CASE RunDenied(c)
  <2>1. /\ runs[c] = "get" /\ RunGoes(c, "ok")
        /\ \E r \in Denials : RecordDenial(c, r)
    BY <1>4 DEF RunDenied, Dispatching
  <2>2. c \in Using /\ Using' \subseteq Using \ {c}
    BY <1>2, <2>1, NoneAssumption DEF Using, Captures
  <2> QED BY <1>1, <2>1, <2>2, DenialComesIn
<1>5. CASE ~RunReads(c) /\ ~RunDenied(c)
  <2>1. globalRetryAt' = globalRetryAt
    BY <1>5
       DEF RunStep, StartRun, RunRefused, RunReadFails, RunBusy, RunWaits,
           RunClaims, RunMissesClaim, RunAdmitted, AdmitFails, TurnEnds,
           TurnFails, RunBreaks, ReapRun, CancelRun, RunOnly
  <2>2. \E s \in RunStates \ {"get"} : RunGoes(c, s)
    BY <1>5
       DEF RunStep, StartRun, RunRefused, RunReadFails, RunBusy, RunWaits,
           RunClaims, RunMissesClaim, RunAdmitted, AdmitFails, TurnEnds,
           TurnFails, RunBreaks, ReapRun, CancelRun, RunStates
  <2> QED BY <1>1, <1>2, <2>1, <2>2, AnswersComeIn
<1> QED BY <1>3, <1>4, <1>5

LEMMA ServiceInContract ==
  ASSUME Safe, OneOutsideWaits, [Next]_vars
  PROVE  ContractStep
<1>1. CASE TimePasses
  <2>1. /\ now' = now + 1 /\ task' = task /\ runs' = runs
        /\ globalRetryAt' = IF globalRetryAt <= now + 1 THEN 0 ELSE globalRetryAt
    BY <1>1 DEF TimePasses, Tick, Unpassed
  <2>2. now \in Nat /\ globalRetryAt \in Nat
    BY DEF Safe, SInv, ServiceTypeOK, TypeOK
  <2>3. globalRetryAt' = IF globalRetryAt > now' THEN globalRetryAt ELSE 0
    BY <2>1, <2>2
  <2>4. Using' = Using
    BY <2>1 DEF Using
  <2> QED BY <2>1, <2>3, <2>4 DEF ContractStep, Contract!Next, Contract!Passes, Using
<1>2. CASE Stopped \/ Crash
  <2>1. Using' = {} /\ globalRetryAt' = 0 /\ now' = now
    BY <1>2 DEF Stopped, Crash, NoTasks, Parked, Using, AtPort, storeVars
  <2> QED BY <2>1 DEF ContractStep, Contract!Next, Contract!Restarts, Using
<1>3. CASE ~TimePasses /\ ~Stopped /\ ~Crash
           /\ (AsideStep \/ Start \/ CancelPublisher)
  <2>1. globalRetryAt' = globalRetryAt /\ runs' = runs
    BY <1>3 DEF AsideStep, Start, CancelPublisher, Stop,
                PublishNoCard, PublishNoThread, PublisherBreaks,
                DispatcherBreaks, DispatcherEnds, UiExpires, UiFails,
                HumanResets, CaptureArrives, HumanDecides, vars,
                serviceVars, TaskOnly
  <2>2. task' = task \/ task'.pc \in {"done", "idle", "claim"}
    BY <1>3 DEF AsideStep, Start, CancelPublisher, Stop,
                PublishNoCard, PublishNoThread, PublisherBreaks,
                DispatcherBreaks, DispatcherEnds, UiExpires, UiFails,
                HumanResets, CaptureArrives, HumanDecides, vars,
                serviceVars, TaskOnly, TaskGoes, Parked
  <2>3. now' = now
    BY <1>3 DEF AsideStep, Start, Recover, CancelPublisher, Uncertain, Stop,
                PublishNoCard, PublishNoThread, ClaimNoThread, PublisherBreaks,
                DispatcherBreaks, DispatcherEnds, UiExpires, ExpireDue, UiFails,
                HumanResets, Reset, ResetThread, CaptureArrives, Arrive,
                HumanDecides, Decide, RequestOnly, RowsOnly, vars, storeVars
  <2>4. Using' \subseteq Using
    BY <2>1, <2>2 DEF Using, AtPort
  <2> QED BY <2>1, <2>3, <2>4, AnswersComeIn
<1> QED BY <1>1, <1>2, <1>3, PublisherInContract, RunInContract
        DEF Next, AsideStep

LEMMA ContractInvariant == Spec => [](Safe /\ OneOutsideWaits)
<1>1. Init => OneOutsideWaits
  BY DEF Init, Parked, OneOutsideWaits, Using, AtPort
<1>2. Safe /\ OneOutsideWaits /\ [Next]_vars => OneOutsideWaits'
  <2>1. Safe => now \in Nat /\ globalRetryAt \in Nat
    BY DEF Safe, SInv, ServiceTypeOK, TypeOK
  <2> QED BY <2>1, ServiceInContract, ContractKeepsOne
<1> QED BY <1>1, <1>2, SafeInvariant, PTL DEF Spec

\* The publisher and the runs, through cancellations, crashes and restarts,
\* ask Discord one after the other, and none inside a wait of its process.
THEOREM ServiceKeepsContract == Spec => KeepsContract
<1>1. Init => Contract!Init
  BY DEF Init, StoreInit, Parked, Contract!Init, Using, AtPort
<1>2. Safe /\ OneOutsideWaits /\ [Next]_vars
        => [Contract!Next]_<<now, Using, globalRetryAt>>
  BY ServiceInContract DEF ContractStep
<1> QED BY <1>1, <1>2, ContractInvariant, PTL
        DEF Spec, KeepsContract, Contract!Spec, Using

\* So of the publisher and all the runs only one has a request under way, and
\* never in a wait that its process knows of, in any state.
THEOREM ServiceAsksOneByOne == Spec => []OneOutsideWaits
BY ContractInvariant, PTL

-----------------------------------------------------------------------------
(* stop() only winds down.                                                 *)

\* The dispatcher has been cancelled, and nothing starts another one.
StopIsSeen == service = "stopping" => dispatchTask # "up"

\* From the call of stop() to its end, and whatever people do meanwhile: no
\* request goes out, no run or turn is begun that was not, and each task goes
\* towards its end and stays there.
StopOnlyEnds ==
  [][service = "stopping" =>
       /\ Using' \subseteq Using /\ posts' = posts
       /\ task' \in {task, Parked("done")}
            \/ (task.pc \in Creating /\ task'.pc = "failCertain")
       /\ \A c \in Captures :
            /\ runs'[c] \in {runs[c], "none"}
            /\ turns'[c] # turns[c] => runs[c] = "admit" /\ runs'[c] = "none"]_vars

LEMMA StopIsSeenKept ==
  ASSUME StopIsSeen, [Next]_vars
  PROVE  StopIsSeen'
<1>1. ASSUME NEW c \in Captures, PublisherStep(c)
      PROVE  StopIsSeen'
  BY <1>1, PublisherKeeps DEF StopIsSeen
<1>2. ASSUME NEW c \in Captures, RunStep(c)
      PROVE  StopIsSeen'
  <2>1. dispatchTask' \in {dispatchTask, "dying"}
    BY <1>2 DEF RunStep, StartRun, RunReads, RunRefused, RunDenied,
                RunReadFails, RunBusy, RunWaits, RunClaims, RunMissesClaim,
                RunAdmitted, AdmitFails, TurnEnds, TurnFails, RunBreaks,
                ReapRun, CancelRun, RunOnly
  <2> QED BY <1>2, <2>1, RunKeepsTask DEF StopIsSeen
<1>3. CASE AsideStep \/ Start \/ CancelPublisher
  BY <1>3 DEF StopIsSeen, AsideStep, Start, CancelPublisher, Stop, Stopped,
              Crash, PublishNoCard, PublishNoThread, PublisherBreaks,
              DispatcherBreaks, DispatcherEnds, UiExpires, UiFails,
              HumanResets, TimePasses, CaptureArrives, HumanDecides, vars,
              serviceVars, TaskOnly
<1> QED BY <1>1, <1>2, <1>3 DEF Next, AsideStep

OnlyEnds ==
  /\ Using' \subseteq Using /\ posts' = posts
  /\ task' \in {task, Parked("done")}
       \/ (task.pc \in Creating /\ task'.pc = "failCertain")
  /\ \A c \in Captures :
       /\ runs'[c] \in {runs[c], "none"}
       /\ turns'[c] # turns[c] => runs[c] = "admit" /\ runs'[c] = "none"

LEMMA StopStepEnds ==
  ASSUME SInv, StopIsSeen, service = "stopping", [Next]_vars
  PROVE  OnlyEnds
<1>1. /\ dispatchTask # "up" /\ service # "up" /\ task \in Task
      /\ runs \in [Captures -> RunStates] /\ turns \in [Captures -> Nat]
  BY DEF StopIsSeen, SInv, ServiceTypeOK
<1>2. ASSUME runs' = runs, turns' = turns, posts' = posts,
             \/ task' \in {task, Parked("done")}
             \/ task.pc \in Creating /\ task'.pc = "failCertain"
      PROVE  OnlyEnds
  BY <1>2 DEF OnlyEnds, Using, Parked, AtPort
<1>3. ASSUME NEW c \in Captures, PublisherStep(c)
      PROVE  OnlyEnds
  <2>1. FailPosted(c) \/ CancelCreation(c)
    BY <1>1, <1>3
       DEF PublisherStep, PublishCard, CardSent, CardConfirmed, CardFails,
           PublishClaim, PublisherReads, PublisherRefused, CardRead, SendPost,
           CreateBlocked, PostNotAuthorized, PostCreated, PostCreatedBadly,
           PostDenied, PostRejected, PostUnknown, ReadDenied, ReadFails,
           Validated, Publishing
  <2>2. UNCHANGED <<runs, turns, posts>>
    BY <2>1 DEF FailPosted, CancelCreation, TaskOnly
  <2>3. \/ task' = Parked("done")
        \/ task.pc \in Creating /\ TaskGoes("failCertain")
    BY <1>1, <2>1 DEF FailPosted, CancelCreation, TaskGoes
  <2>4. TaskGoes("failCertain") => task'.pc = "failCertain"
    BY <1>1 DEF TaskGoes, Task
  <2> QED BY <1>2, <2>2, <2>3, <2>4
<1>4. ASSUME NEW c \in Captures, RunStep(c)
      PROVE  OnlyEnds
  <2>1. CancelRun(c)
    BY <1>1, <1>4
       DEF RunStep, StartRun, RunReads, RunRefused, RunDenied, RunReadFails,
           RunBusy, RunWaits, RunClaims, RunMissesClaim, HasDispatchLock,
           RunAdmitted, AdmitFails, TurnEnds, TurnFails, RunBreaks, ReapRun,
           Dispatching
  <2>2. runs' = [runs EXCEPT ![c] = "none"] /\ task' = task /\ posts' = posts
    BY <2>1 DEF CancelRun, RunGoes
  <2>3. \/ turns' = turns
        \/ runs[c] = "admit" /\ turns' = [turns EXCEPT ![c] = @ + 1]
    BY <2>1 DEF CancelRun
  <2>4. Using' \subseteq Using
    BY <1>1, <2>2 DEF Using
  <2> QED BY <1>1, <2>2, <2>3, <2>4 DEF OnlyEnds
<1>5. CASE Stopped \/ Crash
  <2>1. /\ task' = Parked("done") /\ turns' = turns /\ posts' = posts
        /\ \A c \in Captures : runs'[c] = "none"
    BY <1>5 DEF Stopped, Crash, NoTasks
  <2>2. Using' \subseteq Using
    BY <2>1 DEF Using, Parked, AtPort
  <2> QED BY <2>1, <2>2 DEF OnlyEnds
<1>6. CASE ~Stopped /\ ~Crash /\ (AsideStep \/ Start \/ CancelPublisher)
  <2>1. runs' = runs /\ turns' = turns /\ posts' = posts
    BY <1>6 DEF AsideStep, Start, CancelPublisher, Stop, PublishNoCard,
                PublishNoThread, PublisherBreaks, DispatcherBreaks,
                DispatcherEnds, UiExpires, UiFails, HumanResets, TimePasses,
                CaptureArrives, HumanDecides, vars, serviceVars, TaskOnly
  <2>2. task' \in {task, Parked("done")}
    BY <1>1, <1>6
       DEF AsideStep, Start, CancelPublisher, Stop, PublishNoCard,
           PublishNoThread, Publishing, PublisherBreaks, DispatcherBreaks,
           DispatcherEnds, UiExpires, UiFails, HumanResets, TimePasses,
           CaptureArrives, HumanDecides, vars, serviceVars, TaskGoes
  <2> QED BY <1>2, <2>1, <2>2
<1> QED BY <1>3, <1>4, <1>5, <1>6 DEF Next, AsideStep

\* stop() begins nothing: the safety half of StopEnds.  Every step of a
\* cancelled task brings it nearer to its end, and no other step takes it back.
THEOREM StopBeginsNothing == Spec => StopOnlyEnds
<1> DEFINE A == service = "stopping" => OnlyEnds
<1>1. Init => StopIsSeen
  BY DEF Init, StopIsSeen
<1>2. StopIsSeen /\ [Next]_vars => StopIsSeen'
  BY StopIsSeenKept
<1>3. SInv /\ StopIsSeen /\ [Next]_vars => [A]_vars
  BY StopStepEnds
<1> HIDE DEF A
<1>4. Spec => [][A]_vars
  BY <1>1, <1>2, <1>3, ServiceInvariant, PTL DEF Spec
<1> QED BY <1>4 DEF A, OnlyEnds, StopOnlyEnds
=============================================================================
