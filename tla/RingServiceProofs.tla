------------------------- MODULE RingServiceProofs -------------------------
(***************************************************************************)
(* The service uses the store as RelayStore says it may be used, so every  *)
(* theorem of RelayStoreProofs holds of the running service.               *)
(***************************************************************************)
EXTENDS RingService, RelayStoreProofs

-----------------------------------------------------------------------------
(* How retry_not_before and the clock move.                                *)

\* Whatever is left of a wait is a delay a caller may ask for.
IsWait(t) == t > now => t - now \in Delays

RetryMoves(c) ==
  \/ route'[c].retry = route[c].retry
  \/ route'[c].retry = None
  \/ \E d \in Delays : route'[c].retry = now + d

RetriesMove == now' = now /\ \A c \in Captures : RetryMoves(c)

LEMMA RetryUntouched ==
  ASSUME RowsOnly, route' = route
  PROVE  RetriesMove
BY DEF RowsOnly, RetriesMove, RetryMoves

LEMMA RetrySet ==
  ASSUME TypeOK, RowsOnly, NEW c \in Captures, NEW r \in Route,
         route' = [route EXCEPT ![c] = r],
         \/ r.retry = route[c].retry
         \/ r.retry = None
         \/ \E d \in Delays : r.retry = now + d
  PROVE  RetriesMove
<1> SUFFICES ASSUME NEW e \in Captures  PROVE RetryMoves(e)
  BY DEF RetriesMove, RowsOnly
<1>1. CASE e = c
  BY <1>1 DEF TypeOK, RetryMoves
<1>2. CASE e # c
  BY <1>2 DEF TypeOK, RetryMoves
<1>3. QED
  BY <1>1, <1>2

LEMMA CardRetry ==
  ASSUME TypeOK, NEW c \in Captures, CardStep(c)
  PROVE  RetriesMove
<1>1. ASSUME NEW threadMode \in BOOLEAN, ClaimCard(c, threadMode)
      PROVE  RetriesMove
  <2>1. NoRoute \in Route /\ Unbound \in Route
    BY DEF NoRoute, Unbound, Route, RouteStates
  <2>2. NoRoute.retry = None /\ Unbound.retry = None
    BY DEF NoRoute, Unbound
  <2>3. QED
    BY <1>1, <2>1, <2>2, RetrySet DEF ClaimCard
<1>2. CASE \/ RememberCard(c) \/ BindCard(c) \/ ResetThread(c)
           \/ \E action \in {"approve", "reject"} : Decide(c, action)
  BY <1>2, RetryUntouched
     DEF RememberCard, BindCard, ResetThread, Decide, RequestOnly, RowsOnly
<1>3. QED
  BY <1>1, <1>2 DEF CardStep

LEMMA ThreadRetry ==
  ASSUME TypeOK, NEW c \in Captures, ThreadStep(c)
  PROVE  RetriesMove
<1>1. route[c] \in Route /\ now \in Nat
  BY DEF TypeOK
<1>2. CASE ClaimThreadCreation(c)
  <2> DEFINE r == [route[c] EXCEPT !.state = "creating", !.retry = None,
                     !.attempt = IF @ = None THEN now ELSE @]
  <2>1. r \in Route /\ r.retry = None
    BY <1>1 DEF Route, RouteStates
  <2>2. route' = [route EXCEPT ![c] = r] /\ RowsOnly
    BY <1>2 DEF ClaimThreadCreation
  <2>3. QED
    BY <2>1, <2>2, RetrySet
<1>3. ASSUME NEW d \in Delays, NEW code \in CooldownCodes,
             DeferThread(c, now + d, code)
      PROVE  RetriesMove
  <2> DEFINE r == DeferRow(route[c], now + d, code)
  <2>1. now + d \in Nat
    BY <1>1, DelaysAssumption
  <2>2. r \in Route /\ r.retry = now + d
    BY <1>1, <2>1 DEF DeferRow, Route, RouteStates, Codes
  <2>3. \/ route' = route
        \/ route' = [route EXCEPT ![c] = r]
    BY <1>3 DEF DeferThread, RefuseAuthority, RequestOnly
  <2>4. RowsOnly
    BY <1>3 DEF DeferThread, RefuseAuthority, RequestOnly, RouteOnly, RowsOnly
  <2>5. QED
    BY <2>2, <2>3, <2>4, RetryUntouched, RetrySet
<1>4. ASSUME NEW d \in Delays, DeferCancelledPreflight(c, now + d)
      PROVE  RetriesMove
  <2> DEFINE r == [route[c] EXCEPT !.state = "rate_wait", !.retry = now + d,
                                   !.code = "preflight_cancelled"]
  <2>1. now + d \in Nat
    BY <1>1, DelaysAssumption
  <2>2. r \in Route /\ r.retry = now + d
    BY <1>1, <2>1 DEF Route, RouteStates, Codes
  <2>3. \/ route' = route
        \/ route' = [route EXCEPT ![c] = r]
    BY <1>4 DEF DeferCancelledPreflight, RefuseAuthority, RequestOnly
  <2>4. RowsOnly
    BY <1>4 DEF DeferCancelledPreflight, RefuseAuthority, RequestOnly,
                RouteOnly, RowsOnly
  <2>5. QED
    BY <2>2, <2>3, <2>4, RetryUntouched, RetrySet
<1>5. ASSUME NEW id \in Captures, RememberThread(c, id)
      PROVE  RetriesMove
  <2> DEFINE r == [route[c] EXCEPT !.thread = id]
  <2>1. r \in Route /\ r.retry = route[c].retry
    BY <1>1 DEF Route
  <2>2. route' = [route EXCEPT ![c] = r] /\ RowsOnly
    BY <1>5 DEF RememberThread, RouteOnly, RowsOnly
  <2>3. QED
    BY <2>1, <2>2, RetrySet
<1>6. CASE ReadyThread(c)
  <2> DEFINE r == [route[c] EXCEPT !.state = "ready", !.retry = None,
                                   !.code = None]
  <2>1. r \in Route /\ r.retry = None
    BY <1>1 DEF Route, RouteStates
  <2>2. route' = route \/ route' = [route EXCEPT ![c] = r]
    BY <1>6 DEF ReadyThread, RefuseAuthority, RequestOnly
  <2>3. RowsOnly
    BY <1>6 DEF ReadyThread, RefuseAuthority, RequestOnly, RouteOnly, RowsOnly
  <2>4. QED
    BY <2>1, <2>2, <2>3, RetryUntouched, RetrySet
<1>7. ASSUME NEW uncertain \in BOOLEAN, FailThread(c, uncertain)
      PROVE  RetriesMove
  <2> DEFINE r == [route[c] EXCEPT
                     !.state = IF uncertain THEN "uncertain" ELSE "failed",
                     !.code = "failure"]
  <2>1. r \in Route /\ r.retry = route[c].retry
    BY <1>1 DEF Route, RouteStates, Codes
  <2>2. route' = [route EXCEPT ![c] = r] /\ RowsOnly
    BY <1>7 DEF FailThread
  <2>3. QED
    BY <2>1, <2>2, RetrySet
<1>8. CASE AuthorizeThreadCreation(c)
  BY <1>8, RetryUntouched
     DEF AuthorizeThreadCreation, RefuseAuthority, RequestOnly, RowsOnly
<1>9. QED
  BY <1>2, <1>3, <1>4, <1>5, <1>6, <1>7, <1>8 DEF ThreadStep

\* Every step of the store but the clock's leaves each wait alone, ends it, or
\* starts one of an allowed length.
LEMMA StoreRetry ==
  ASSUME TypeOK, StoreNext
  PROVE  RetriesMove \/ (now' = now + 1 /\ route' = route)
<1>1. CASE Tick
  BY <1>1 DEF Tick
<1>2. CASE Arrive \/ \E c \in Captures : RowChanged(c)
  BY <1>2 DEF Arrive, RowChanged, RetriesMove, RetryMoves
<1>3. ASSUME NEW c \in Captures, TurnStep(c)
      PROVE  RetriesMove
  BY <1>3, RetryUntouched
     DEF TurnStep, ClaimThreadDispatch, RefuseThreadDispatch, RefuseAuthority,
         ClaimDispatch, Finish, Uncertain, RequestOnly, RowsOnly
<1>4. CASE ClaimNoThread \/ ExpireDue \/ Reset
  BY <1>4, RetryUntouched
     DEF ClaimNoThread, ExpireDue, Reset, RequestOnly, RowsOnly
<1>5. CASE Recover
  <2>1. \A c \in Captures : route'[c].retry = route[c].retry
    BY <1>5 DEF Recover, TypeOK, Route
  <2>2. QED
    BY <1>5, <2>1 DEF Recover, RowsOnly, RetriesMove, RetryMoves
<1>6. QED
  BY <1>1, <1>2, <1>3, <1>4, <1>5, CardRetry, ThreadRetry DEF StoreNext

-----------------------------------------------------------------------------
(* What the service must know for its calls to be calls the store allows.  *)

\* Every wait that is stored or remembered has an allowed length.
WaitsAllowed ==
  /\ IsWait(globalRetryAt)
  /\ \A c \in Captures : route[c].retry # None => IsWait(route[c].retry)

\* A publisher in the middle of its work has a capture in its hands.
TaskHasCapture ==
  task.pc \notin {"done", "idle", "claim"} => task.capture \in Captures

SInv == IInv /\ ServiceTypeOK /\ TaskHasCapture /\ WaitsAllowed

LEMMA Deferral ==
  ASSUME SInv, NEW c \in Captures, NEW r \in Refusals \cup Denials,
         DeferThread(c, r.retry, r.code)
  PROVE  ThreadStep(c)
<1>1. now \in Nat /\ globalRetryAt \in Nat /\ IsWait(globalRetryAt)
  BY DEF SInv, ServiceTypeOK, TypeOK, WaitsAllowed
<1>2. r.code \in CooldownCodes
  BY DEF Refusals, Denials, CooldownCodes
<1>3. \E d \in Delays : r.retry = now + d
  <2>1. CASE r \in Denials
    BY <2>1 DEF Denials
  <2>2. CASE r \in Refusals /\ GateOpen
    BY <2>2, DelaysClosedAssumption DEF Refusals
  <2>3. CASE r \in Refusals /\ ~GateOpen
    <3>1. r.retry = globalRetryAt
      BY <2>3 DEF Refusals
    <3>2. globalRetryAt > now
      BY <2>3, <1>1 DEF GateOpen
    <3>3. globalRetryAt - now \in Delays
      BY <3>2, <1>1 DEF IsWait
    <3>4. globalRetryAt = now + (globalRetryAt - now)
      BY <1>1
    <3>5. QED
      BY <3>1, <3>3, <3>4
  <2>4. QED
    BY <2>1, <2>2, <2>3
<1>4. QED
  BY <1>2, <1>3 DEF ThreadStep

LEMMA DurableDeferral ==
  ASSUME SInv, NEW c \in Captures, NEW due \in GlobalDues,
         DeferThread(c, due, "global_cooldown")
  PROVE  ThreadStep(c)
<1>1. PICK s \in Captures : /\ due = route[s].retry
                            /\ route[s].retry # None
                            /\ route[s].retry > now
  BY DEF GlobalDues
<1>2. now \in Nat /\ due \in Nat
  BY <1>1 DEF SInv, ServiceTypeOK, TypeOK, Route
<1>3. due - now \in Delays
  BY <1>1, <1>2 DEF SInv, WaitsAllowed, IsWait
<1>4. due = now + (due - now)
  BY <1>2
<1>5. "global_cooldown" \in CooldownCodes
  BY DEF CooldownCodes
<1>6. QED
  BY <1>3, <1>4, <1>5 DEF ThreadStep

LEMMA PublisherUsesStore ==
  ASSUME SInv, NEW c \in Captures, PublisherStep(c)
  PROVE  CardStep(c) \/ ThreadStep(c) \/ TurnStep(c) \/ UNCHANGED storeVars
<1>1. CASE PublishCard(c) \/ CardSent(c) \/ CardConfirmed(c)
  BY <1>1 DEF PublishCard, CardSent, CardConfirmed, CardStep
<1>2. CASE CardFails(c)
  BY <1>2 DEF CardFails, TurnStep
<1>3. CASE PublishClaim(c)
  BY <1>3 DEF PublishClaim, ThreadStep
<1>4. CASE PublisherReads(c) \/ CardRead(c) \/ SendPost(c)
           \/ PostRejected(c) \/ PostUnknown(c)
  BY <1>4 DEF PublisherReads, CardRead, SendPost, PostRejected, PostUnknown
<1>5. CASE PublisherRefused(c)
  BY <1>5, Deferral DEF PublisherRefused
<1>6. CASE CreateBlocked(c) \/ ReadFails(c) \/ FailPosted(c)
  BY <1>6 DEF CreateBlocked, ReadFails, FailPosted, ThreadStep
<1>7. CASE PostNotAuthorized(c)
  <2>1. CASE AuthorizeThreadCreation(c) \/ UNCHANGED storeVars
    BY <2>1 DEF ThreadStep
  <2>2. CASE \E due \in GlobalDues : DeferThread(c, due, "global_cooldown")
    BY <2>2, DurableDeferral
  <2>3. QED
    BY <1>7, <2>1, <2>2 DEF PostNotAuthorized
<1>8. CASE PostCreated(c) \/ PostCreatedBadly(c)
  BY <1>8 DEF PostCreated, PostCreatedBadly, ThreadStep
<1>9. CASE PostDenied(c) \/ ReadDenied(c)
  BY <1>9, Deferral DEF PostDenied, ReadDenied, RecordDenial
<1>10. CASE Validated(c)
  BY <1>10 DEF Validated, ThreadStep
<1>11. CASE CancelCreation(c)
  <2>1. task.started \in BOOLEAN
    BY DEF SInv, ServiceTypeOK, Task
  <2>2. QED
    BY <1>11, <2>1, DelaysClosedAssumption DEF CancelCreation, ThreadStep
<1>12. QED
  BY <1>1, <1>2, <1>3, <1>4, <1>5, <1>6, <1>7, <1>8, <1>9, <1>10, <1>11
     DEF PublisherStep

LEMMA RunUsesStore ==
  ASSUME SInv, NEW c \in Captures, RunStep(c)
  PROVE  ThreadStep(c) \/ TurnStep(c) \/ UNCHANGED storeVars
<1>1. CASE StartRun(c) \/ RunReads(c) \/ RunBusy(c) \/ RunWaits(c)
           \/ RunAdmitted(c) \/ RunBreaks(c) \/ ReapRun(c)
  BY <1>1 DEF StartRun, RunReads, RunBusy, RunWaits, RunAdmitted, RunBreaks,
              ReapRun
<1>2. CASE RunRefused(c)
  BY <1>2, Deferral DEF RunRefused
<1>3. CASE RunDenied(c)
  BY <1>3, Deferral DEF RunDenied, RecordDenial
<1>4. CASE RunReadFails(c)
  BY <1>4 DEF RunReadFails, ThreadStep
<1>5. CASE RunClaims(c) \/ RunMissesClaim(c)
  BY <1>5 DEF RunClaims, RunMissesClaim, TurnStep
<1>6. CASE AdmitFails(c) \/ TurnEnds(c) \/ TurnFails(c)
  BY <1>6 DEF AdmitFails, TurnEnds, TurnFails, TurnStep
<1>7. CASE CancelRun(c)
  BY <1>7 DEF CancelRun, ThreadStep, TurnStep
<1>8. QED
  BY <1>1, <1>2, <1>3, <1>4, <1>5, <1>6, <1>7 DEF RunStep

\* One step of the service is one step of the store or none.
LEMMA StepUsesStore ==
  ASSUME SInv, [Next]_vars
  PROVE  [StoreNext]_storeVars
<1>1. CASE UNCHANGED vars
  BY <1>1 DEF vars
<1>2. CASE Start
  BY <1>2 DEF Start, StoreNext
<1>3. CASE Stop \/ Stopped \/ Crash \/ PublishNoCard \/ PublisherBreaks
           \/ DispatcherBreaks \/ DispatcherEnds \/ UiFails
  BY <1>3 DEF Stop, Stopped, Crash, PublishNoCard, PublisherBreaks,
              DispatcherBreaks, DispatcherEnds, UiFails
<1>4. CASE PublishNoThread
  BY <1>4 DEF PublishNoThread, StoreNext
<1>5. CASE CancelPublisher
  BY <1>5 DEF CancelPublisher, SInv, TaskHasCapture, TurnStep, StoreNext
<1>6. ASSUME NEW c \in Captures, PublisherStep(c) \/ RunStep(c)
      PROVE  [StoreNext]_storeVars
  BY <1>6, PublisherUsesStore, RunUsesStore DEF StoreNext
<1>7. ASSUME NEW c \in Captures, HumanDecides(c)
      PROVE  [StoreNext]_storeVars
  BY <1>7 DEF HumanDecides, CardStep, StoreNext
<1>8. CASE UiExpires \/ TimePasses \/ CaptureArrives
  BY <1>8 DEF UiExpires, TimePasses, CaptureArrives, StoreNext
<1>9. CASE HumanResets
  BY <1>9 DEF HumanResets, CardStep, StoreNext
<1>10. QED
  BY <1>1, <1>2, <1>3, <1>4, <1>5, <1>6, <1>7, <1>8, <1>9 DEF Next

-----------------------------------------------------------------------------
(* The invariant is kept, one variable of the service at a time.           *)

TaskOK == task \in Task /\ TaskHasCapture

LEMMA TaskMoves ==
  ASSUME TaskOK, NEW pc \in PublisherStates, TaskGoes(pc),
         pc \in {"done", "idle", "claim"} \/ task.capture \in Captures
  PROVE  TaskOK'
<1>1. CASE pc \in {"done", "idle", "claim"}
  <2>1. task' = [pc |-> pc, capture |-> None, started |-> FALSE]
    BY <1>1 DEF TaskGoes, Parked
  <2>2. QED
    BY <1>1, <2>1 DEF TaskOK, TaskHasCapture, Task
<1>2. CASE pc \notin {"done", "idle", "claim"}
  <2>1. task' = [task EXCEPT !.pc = pc]
    BY <1>2 DEF TaskGoes
  <2>2. task' = [pc |-> pc, capture |-> task.capture, started |-> task.started]
    BY <2>1 DEF TaskOK, Task
  <2>3. task' \in Task /\ task'.capture = task.capture
    BY <2>2 DEF TaskOK, Task
  <2>4. QED
    BY <1>2, <2>3 DEF TaskOK, TaskHasCapture
<1>3. QED
  BY <1>1, <1>2

LEMMA PublisherKeepsTask ==
  ASSUME TaskOK, NEW c \in Captures, PublisherStep(c)
  PROVE  TaskOK'
<1> USE DEF PublisherStates
<1>1. CASE PublishCard(c) \/ PublishClaim(c)
  <2>1. CASE PublishCard(c) /\ TaskGoes("done")
    BY <2>1, TaskMoves
  <2>2. CASE \E pc \in {"sending", "preflight", "validate"} :
               task' = [pc |-> pc, capture |-> c, started |-> FALSE]
    BY <2>2 DEF TaskOK, TaskHasCapture, Task
  <2>3. QED
    BY <1>1, <2>1, <2>2 DEF PublishCard, PublishClaim
<1>2. CASE CardSent(c) \/ CardConfirmed(c) \/ CardFails(c)
  BY <1>2, TaskMoves DEF CardSent, CardConfirmed, CardFails, Publishing
<1>3. CASE PublisherReads(c)
  BY <1>3, TaskMoves DEF PublisherReads, Publishing, SentAs
<1>4. CASE PublisherRefused(c) \/ ReadDenied(c) \/ ReadFails(c)
           \/ CreateBlocked(c) \/ Validated(c)
  BY <1>4, TaskMoves DEF PublisherRefused, ReadDenied, ReadFails,
                         CreateBlocked, Validated
<1>5. CASE CardRead(c)
  <2>1. task' = [pc |-> "create", capture |-> c, started |-> TRUE]
    BY <1>5 DEF CardRead, Publishing, TaskOK, Task
  <2>2. QED
    BY <2>1 DEF TaskOK, TaskHasCapture, Task
<1>6. CASE SendPost(c) \/ PostNotAuthorized(c)
  BY <1>6, TaskMoves DEF SendPost, PostNotAuthorized, Publishing
<1>7. CASE PostCreated(c)
  BY <1>7, TaskMoves DEF PostCreated, Publishing
<1>8. CASE PostCreatedBadly(c) \/ PostDenied(c) \/ PostRejected(c)
  BY <1>8, TaskMoves DEF PostCreatedBadly, PostDenied, PostRejected, Publishing
<1>9. CASE PostUnknown(c)
  BY <1>9, TaskMoves DEF PostUnknown, Publishing
<1>10. CASE FailPosted(c)
  BY <1>10, TaskMoves DEF FailPosted
<1>11. CASE CancelCreation(c)
  BY <1>11, TaskMoves DEF CancelCreation
<1>12. QED
  BY <1>1, <1>2, <1>3, <1>4, <1>5, <1>6, <1>7, <1>8, <1>9, <1>10, <1>11
     DEF PublisherStep

LEMMA RunKeepsTask ==
  ASSUME NEW c \in Captures, RunStep(c)
  PROVE  UNCHANGED <<service, task, uiTask, posts>>
<1>1. CASE RunReads(c) \/ RunBusy(c) \/ RunWaits(c) \/ StartRun(c)
           \/ RunClaims(c) \/ RunMissesClaim(c) \/ RunRefused(c)
           \/ RunReadFails(c) \/ TurnEnds(c) \/ TurnFails(c)
  BY <1>1 DEF RunReads, RunBusy, RunWaits, StartRun, RunClaims, RunMissesClaim,
              RunRefused, RunReadFails, TurnEnds, TurnFails, RunOnly
<1>2. CASE RunDenied(c) \/ RunAdmitted(c) \/ AdmitFails(c) \/ RunBreaks(c)
           \/ ReapRun(c) \/ CancelRun(c)
  BY <1>2 DEF RunDenied, RunAdmitted, AdmitFails, RunBreaks, ReapRun, CancelRun
<1>3. QED
  BY <1>1, <1>2 DEF RunStep

LEMMA TaskKept ==
  ASSUME TaskOK, [Next]_vars
  PROVE  TaskOK'
<1> USE DEF PublisherStates
<1>1. CASE UNCHANGED task
  BY <1>1 DEF TaskOK, TaskHasCapture
<1>2. CASE \E pc \in {"done", "idle"} : task' = Parked(pc)
  BY <1>2 DEF TaskOK, TaskHasCapture, Task, Parked
<1>3. CASE \E pc \in {"done", "idle", "claim"} : TaskGoes(pc)
  BY <1>3, TaskMoves
<1>4. CASE Start \/ Stopped \/ Crash
  BY <1>4, <1>2 DEF Start, Stopped, Crash, NoTasks
<1>5. CASE PublishNoCard \/ PublishNoThread \/ PublisherBreaks
           \/ CancelPublisher
  BY <1>5, <1>3 DEF PublishNoCard, PublishNoThread, PublisherBreaks,
                    CancelPublisher
<1>6. ASSUME NEW c \in Captures, RunStep(c)
      PROVE  TaskOK'
  BY <1>6, <1>1, RunKeepsTask
<1>7. CASE Stop \/ DispatcherBreaks \/ DispatcherEnds \/ UiExpires \/ UiFails
           \/ HumanResets \/ TimePasses \/ CaptureArrives
           \/ \E c \in Captures : HumanDecides(c)
  BY <1>7, <1>1 DEF Stop, DispatcherBreaks, DispatcherEnds, UiExpires, UiFails,
                    HumanResets, TimePasses, CaptureArrives, HumanDecides,
                    serviceVars
<1>8. CASE UNCHANGED vars
  BY <1>8, <1>1 DEF vars, serviceVars
<1>9. QED
  BY <1>4, <1>5, <1>6, <1>7, <1>8, PublisherKeepsTask DEF Next

LEMMA PublisherKeeps ==
  ASSUME NEW c \in Captures, PublisherStep(c)
  PROVE  /\ UNCHANGED <<service, dispatchTask, uiTask, runs, turns>>
         /\ \/ posts' = posts
            \/ posts' = [posts EXCEPT ![c] = @ + 1]
            \/ posts' = [posts EXCEPT ![c] = @ - 1]
<1>1. CASE PublishCard(c) \/ CardSent(c) \/ CardConfirmed(c) \/ CardFails(c)
           \/ PublishClaim(c) \/ PublisherReads(c) \/ PublisherRefused(c)
           \/ CardRead(c) \/ CreateBlocked(c) \/ PostNotAuthorized(c)
  BY <1>1 DEF PublishCard, CardSent, CardConfirmed, CardFails, PublishClaim,
              PublisherReads, PublisherRefused, CardRead, CreateBlocked,
              PostNotAuthorized, TaskOnly
<1>2. CASE PostCreated(c) \/ PostCreatedBadly(c) \/ PostUnknown(c)
           \/ ReadFails(c) \/ Validated(c) \/ FailPosted(c) \/ CancelCreation(c)
  BY <1>2 DEF PostCreated, PostCreatedBadly, PostUnknown, ReadFails, Validated,
              FailPosted, CancelCreation, TaskOnly
<1>3. CASE SendPost(c)
  BY <1>3 DEF SendPost
<1>4. CASE PostDenied(c) \/ PostRejected(c)
  BY <1>4 DEF PostDenied, PostRejected
<1>5. CASE ReadDenied(c)
  BY <1>5 DEF ReadDenied
<1>6. QED
  BY <1>1, <1>2, <1>3, <1>4, <1>5 DEF PublisherStep

\* No call for a capture takes time.
LEMMA CallsTakeNoTime ==
  ASSUME NEW c \in Captures,
         CardStep(c) \/ ThreadStep(c) \/ TurnStep(c) \/ UNCHANGED storeVars
  PROVE  now' = now
<1>1. CASE CardStep(c)
  BY <1>1 DEF CardStep, ClaimCard, RememberCard, BindCard, Decide, ResetThread,
              RequestOnly, RowsOnly
<1>2. CASE ThreadStep(c)
  BY <1>2 DEF ThreadStep, ClaimThreadCreation, AuthorizeThreadCreation,
              DeferThread, DeferCancelledPreflight, RememberThread, ReadyThread,
              FailThread, RefuseAuthority, RequestOnly, RouteOnly, RowsOnly
<1>3. CASE TurnStep(c)
  BY <1>3 DEF TurnStep, ClaimThreadDispatch, RefuseThreadDispatch,
              ClaimDispatch, Finish, Uncertain, RefuseAuthority, RequestOnly
<1>4. QED
  BY <1>1, <1>2, <1>3 DEF storeVars

\* Only the store's clock moves the clock.
LEMMA ClockMoves ==
  ASSUME [StoreNext]_storeVars
  PROVE  now' = now \/ now' = now + 1
<1>1. CASE Tick \/ UNCHANGED storeVars
  BY <1>1 DEF Tick, storeVars
<1>2. CASE Arrive \/ \E c \in Captures : RowChanged(c)
  BY <1>2 DEF Arrive, RowChanged
<1>3. CASE ClaimNoThread \/ ExpireDue \/ Reset \/ Recover
  BY <1>3 DEF ClaimNoThread, ExpireDue, Reset, Recover, RequestOnly, RowsOnly
<1>4. QED
  BY <1>1, <1>2, <1>3, CallsTakeNoTime DEF StoreNext

\* A wait that is allowed now is allowed a moment later.
LEMMA WaitRuns ==
  ASSUME now \in Nat, NEW t \in Nat, IsWait(t), now' = now \/ now' = now + 1,
         t > now'
  PROVE  t - now' \in Delays
<1>1. t > now /\ t - now \in Delays
  BY DEF IsWait
<1>2. CASE now' = now
  BY <1>1, <1>2
<1>3. CASE now' = now + 1
  <2>1. t - now' \in 1..(t - now)
    BY <1>3
  <2>2. QED
    BY <1>1, <2>1, DelaysClosedAssumption
<1>4. QED
  BY <1>2, <1>3

\* The gate of a process is opened, or shut for an allowed time.
LEMMA GateMoves ==
  ASSUME SInv, [Next]_vars
  PROVE  \E t \in Nat : IsWait(t) /\ globalRetryAt' = t
<1>1. /\ now \in Nat
      /\ globalRetryAt \in Nat
      /\ IsWait(globalRetryAt)
  BY DEF SInv, ServiceTypeOK, TypeOK, WaitsAllowed
<1>2. CASE globalRetryAt' = globalRetryAt
  BY <1>1, <1>2
<1>3. CASE globalRetryAt' = 0
  <2>1. IsWait(0)
    BY <1>1 DEF IsWait
  <2>2. QED
    BY <1>3, <2>1
<1>4. ASSUME NEW c \in Captures, NEW r \in Denials, RecordDenial(c, r)
      PROVE  \E t \in Nat : IsWait(t) /\ globalRetryAt' = t
  <2>1. PICK d \in Delays : r.retry = now + d
    BY DEF Denials
  <2>2. now + d \in Nat /\ (now + d) - now = d
    BY <1>1, <2>1, DelaysAssumption
  <2>3. IsWait(now + d)
    BY <2>2 DEF IsWait
  <2>4. globalRetryAt' = globalRetryAt \/ globalRetryAt' = now + d
    BY <1>4, <2>1 DEF RecordDenial
  <2>5. QED
    BY <1>2, <2>2, <2>3, <2>4
<1>5. CASE Stopped \/ Crash
  BY <1>3, <1>5 DEF Stopped, Crash, NoTasks
<1>6. CASE Start \/ Stop \/ PublishNoCard \/ PublishNoThread \/ PublisherBreaks
           \/ CancelPublisher
  BY <1>2, <1>6 DEF Start, Stop, PublishNoCard, PublishNoThread,
                    PublisherBreaks, CancelPublisher, TaskOnly
<1>7. CASE DispatcherBreaks \/ DispatcherEnds \/ UiExpires \/ UiFails
           \/ HumanResets \/ CaptureArrives
           \/ \E c \in Captures : HumanDecides(c)
  BY <1>2, <1>7 DEF DispatcherBreaks, DispatcherEnds, UiExpires, UiFails,
                    HumanResets, CaptureArrives, HumanDecides, serviceVars
<1>8. CASE TimePasses
  <2>1. globalRetryAt' = 0 \/ globalRetryAt' = globalRetryAt
    BY <1>8 DEF TimePasses, Unpassed
  <2>2. QED
    BY <1>2, <1>3, <2>1
<1>9. ASSUME NEW c \in Captures, PublisherStep(c)
      PROVE  \E t \in Nat : IsWait(t) /\ globalRetryAt' = t
  <2>1. CASE PostDenied(c) \/ ReadDenied(c)
    BY <1>4, <2>1 DEF PostDenied, ReadDenied
  <2>2. CASE ~(PostDenied(c) \/ ReadDenied(c))
    BY <1>2, <1>9, <2>2
       DEF PublisherStep, PublishCard, CardSent, CardConfirmed, CardFails,
           PublishClaim, PublisherReads, PublisherRefused, CardRead, SendPost,
           CreateBlocked, PostNotAuthorized, PostCreated, PostCreatedBadly,
           PostRejected, PostUnknown, ReadFails, Validated, FailPosted,
           CancelCreation, TaskOnly
  <2>3. QED
    BY <2>1, <2>2
<1>10. ASSUME NEW c \in Captures, RunStep(c)
       PROVE  \E t \in Nat : IsWait(t) /\ globalRetryAt' = t
  <2>1. CASE RunDenied(c)
    BY <1>4, <2>1 DEF RunDenied
  <2>2. CASE ~RunDenied(c)
    BY <1>2, <1>10, <2>2
       DEF RunStep, StartRun, RunReads, RunRefused, RunReadFails, RunBusy,
           RunWaits, RunClaims, RunMissesClaim, RunAdmitted, AdmitFails,
           TurnEnds, TurnFails, RunBreaks, ReapRun, CancelRun, RunOnly
  <2>3. QED
    BY <2>1, <2>2
<1>11. CASE UNCHANGED vars
  BY <1>2, <1>11 DEF vars, serviceVars
<1>12. QED
  BY <1>5, <1>6, <1>7, <1>8, <1>9, <1>10, <1>11 DEF Next

LEMMA WaitsKept ==
  ASSUME SInv, [Next]_vars
  PROVE  globalRetryAt' \in Nat /\ WaitsAllowed'
<1>1. now \in Nat /\ TypeOK /\ WaitsAllowed
  BY DEF SInv, ServiceTypeOK, TypeOK
<1>2. now' = now \/ now' = now + 1
  BY StepUsesStore, ClockMoves
<1>3. PICK t \in Nat : IsWait(t) /\ globalRetryAt' = t
  BY GateMoves
<1>4. IsWait(globalRetryAt)'
  <2>1. t > now' => t - now' \in Delays
    BY <1>1, <1>2, <1>3, WaitRuns
  <2>2. QED
    BY <1>3, <2>1 DEF IsWait
<1>5. ASSUME NEW c \in Captures, route'[c].retry # None
      PROVE  IsWait(route[c].retry)'
  <2>1. \/ route'[c].retry = route[c].retry
        \/ \E d \in Delays : route'[c].retry = now + d
    <3>1. CASE UNCHANGED storeVars
      BY <3>1 DEF storeVars
    <3>2. CASE StoreNext
      BY <3>2, <1>1, <1>5, StoreRetry DEF RetriesMove, RetryMoves
    <3>3. QED
      BY <3>1, <3>2, StepUsesStore
  <2>2. route'[c].retry \in Nat /\ IsWait(route'[c].retry)
    <3>1. CASE route'[c].retry = route[c].retry
      BY <3>1, <1>1, <1>5 DEF WaitsAllowed, TypeOK, Route
    <3>2. ASSUME NEW d \in Delays, route'[c].retry = now + d
          PROVE  route'[c].retry \in Nat /\ IsWait(route'[c].retry)
      <4>1. d \in Nat
        BY DelaysAssumption
      <4>2. (now + d) - now = d /\ now + d \in Nat
        BY <1>1, <4>1
      <4>3. QED
        BY <3>2, <4>2 DEF IsWait
    <3>3. QED
      BY <2>1, <3>1, <3>2
  <2>3. route'[c].retry > now' => route'[c].retry - now' \in Delays
    BY <1>1, <1>2, <2>2, WaitRuns
  <2>4. QED
    BY <2>3 DEF IsWait
<1>6. QED
  BY <1>3, <1>4, <1>5 DEF WaitsAllowed

\* The types of the variables no lemma above speaks of.
TasksOK ==
  /\ service \in {"down", "up", "stopping", "stopped"}
  /\ dispatchTask \in {"done", "up", "dying"}
  /\ uiTask \in {"done", "up", "failed"}
  /\ runs \in [Captures -> RunStates]
  /\ turns \in [Captures -> Nat]
  /\ posts \in [Captures -> Int]

LEMMA RunKeepsTypes ==
  ASSUME TasksOK, NEW c \in Captures, RunStep(c)
  PROVE  TasksOK'
<1> USE DEF RunStates
<1>1. UNCHANGED <<service, uiTask, posts>>
  BY RunKeepsTask
<1>2. runs' \in [Captures -> RunStates]
  <2>1. PICK s \in RunStates : runs' = [runs EXCEPT ![c] = s]
    BY DEF RunStep, StartRun, RunReads, RunRefused, RunDenied, RunReadFails,
           RunBusy, RunWaits, RunClaims, RunMissesClaim, RunAdmitted,
           AdmitFails, TurnEnds, TurnFails, RunBreaks, ReapRun, CancelRun,
           RunGoes
  <2>2. QED
    BY <2>1 DEF TasksOK
<1>3. turns' \in [Captures -> Nat]
  <2>1. \/ turns' = turns
        \/ \E n \in {0, 1} : turns' = [turns EXCEPT ![c] = @ + n]
    BY DEF RunStep, StartRun, RunReads, RunRefused, RunDenied, RunReadFails,
           RunBusy, RunWaits, RunClaims, RunMissesClaim, RunAdmitted,
           AdmitFails, TurnEnds, TurnFails, RunBreaks, ReapRun, CancelRun,
           RunOnly
  <2>2. QED
    BY <2>1 DEF TasksOK
<1>4. dispatchTask' \in {"done", "up", "dying"}
  <2>1. dispatchTask' = dispatchTask \/ dispatchTask' = "dying"
    BY DEF RunStep, StartRun, RunReads, RunRefused, RunDenied, RunReadFails,
           RunBusy, RunWaits, RunClaims, RunMissesClaim, RunAdmitted,
           AdmitFails, TurnEnds, TurnFails, RunBreaks, ReapRun, CancelRun,
           RunOnly
  <2>2. QED
    BY <2>1 DEF TasksOK
<1>5. QED
  BY <1>1, <1>2, <1>3, <1>4 DEF TasksOK

LEMMA TypesKept ==
  ASSUME TasksOK, [Next]_vars
  PROVE  TasksOK'
<1>1. ASSUME NEW c \in Captures, PublisherStep(c)
      PROVE  TasksOK'
  <2>1. UNCHANGED <<service, dispatchTask, uiTask, runs, turns>>
    BY <1>1, PublisherKeeps
  <2>2. posts' \in [Captures -> Int]
    BY <1>1, PublisherKeeps DEF TasksOK
  <2>3. QED
    BY <2>1, <2>2 DEF TasksOK
<1>2. CASE Stopped \/ Crash
  BY <1>2 DEF Stopped, Crash, NoTasks, TasksOK, RunStates
<1>3. CASE Start \/ Stop \/ PublishNoCard \/ PublishNoThread \/ PublisherBreaks
           \/ CancelPublisher
  BY <1>3 DEF Start, Stop, PublishNoCard, PublishNoThread, PublisherBreaks,
              CancelPublisher, TaskOnly, TasksOK
<1>4. CASE DispatcherBreaks \/ DispatcherEnds \/ UiExpires \/ UiFails
           \/ HumanResets \/ CaptureArrives \/ TimePasses
           \/ \E c \in Captures : HumanDecides(c)
  BY <1>4 DEF DispatcherBreaks, DispatcherEnds, UiExpires, UiFails, HumanResets,
              CaptureArrives, TimePasses, HumanDecides, serviceVars, TasksOK
<1>5. CASE UNCHANGED vars
  BY <1>5 DEF vars, serviceVars, TasksOK
<1>6. QED
  BY <1>1, <1>2, <1>3, <1>4, <1>5, RunKeepsTypes DEF Next

LEMMA ServiceInit ==
  ASSUME Init
  PROVE  SInv
<1>1. IInv /\ TypeOK
  BY InitIInv, IInvParts DEF Init
<1>2. TaskOK
  BY DEF Init, TaskOK, TaskHasCapture, Task, Parked, PublisherStates
<1>3. TasksOK /\ globalRetryAt \in Nat
  BY DEF Init, TasksOK, RunStates
<1>4. WaitsAllowed
  <2>1. now = 0 /\ globalRetryAt = 0 /\ \A c \in Captures : route[c].retry = None
    BY DEF Init, StoreInit, NoRoute
  <2>2. QED
    BY <2>1 DEF WaitsAllowed, IsWait
<1>5. QED
  BY <1>1, <1>2, <1>3, <1>4 DEF SInv, ServiceTypeOK, TaskOK, TasksOK

LEMMA ServiceStep ==
  ASSUME SInv, [Next]_vars
  PROVE  SInv'
<1>1. IInv' /\ TypeOK'
  <2>1. IInv'
    BY StepUsesStore, NextKeepsIInv DEF SInv
  <2>2. QED
    BY <2>1, IInvParts DEF IInv
<1>2. TaskOK'
  BY TaskKept DEF SInv, ServiceTypeOK, TaskOK
<1>3. TasksOK'
  BY TypesKept DEF SInv, ServiceTypeOK, TasksOK
<1>4. globalRetryAt' \in Nat /\ WaitsAllowed'
  BY WaitsKept
<1>5. QED
  BY <1>1, <1>2, <1>3, <1>4 DEF SInv, ServiceTypeOK, TaskOK, TasksOK

-----------------------------------------------------------------------------
(* The theorems of the service.                                            *)

LEMMA ServiceInvariant == Spec => []SInv
<1>1. Init => SInv
  BY ServiceInit
<1>2. SInv /\ [Next]_vars => SInv'
  BY ServiceStep
<1>3. QED
  BY <1>1, <1>2, PTL DEF Spec

\* Every variable of the service keeps its type, in every run.
THEOREM ServiceTypeCorrect == Spec => []ServiceTypeOK
<1>1. SInv => ServiceTypeOK
  BY DEF SInv
<1>2. QED
  BY <1>1, ServiceInvariant, PTL

\* The service implements the store: what publish(), dispatch(), reconcile(),
\* the buttons and a restart do together, in any order and cut off at any
\* await, is a run of the relay_store.py methods that RelayStore allows.
THEOREM ServiceUsesStore == Spec => UsesStore
<1>1. Init => StoreInit
  BY DEF Init
<1>2. SInv /\ [Next]_vars => [StoreNext]_storeVars
  BY StepUsesStore
<1>3. QED
  BY <1>1, <1>2, ServiceInvariant, PTL DEF Spec, UsesStore, StoreSpec

\* So the two tables agree, and authority only shrinks, in the running
\* service, crashes included.
THEOREM ServiceKeepsAuthority ==
  Spec => []RoutesMatchRequests /\ []NoApprovalStranded /\ AuthorityOnlyShrinks
BY ServiceUsesStore, TablesAgree, NothingStranded, ShrinkingAuthority, PTL
   DEF UsesStore

\* No thread belongs to a card it was not made from, and the denial of one
\* capture stops the claims of all, in the running service as in the store:
\* resumed creations, late answers and restarts included.
THEOREM ServiceHonoursDenials ==
  Spec => []ThreadsAreBound /\ GlobalDenialStopsClaims
BY ServiceUsesStore, BoundThreads, GlobalDenialHonoured, PTL DEF UsesStore
=============================================================================
