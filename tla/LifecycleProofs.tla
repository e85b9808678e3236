--------------------------- MODULE LifecycleProofs ---------------------------
(***************************************************************************)
(* RingService implements CaptureLifecycle: with four tasks, cancellations *)
(* at every await, crashes and restarts, a capture is asked about once and *)
(* given one turn at the most.  The refinement reads the phase of a        *)
(* capture off its request and keeps the number of turns.                  *)
(***************************************************************************)
EXTENDS RingServiceSafetyProofs

phase == [c \in Captures |-> PhaseOf[req[c].state]]

\* A turn is started only for what is claimed, and once: the run that may
\* start it has not, the run that waits for its end has.
TurnOK(c) ==
  /\ turns[c] \in {0, 1}
  /\ req[c].state \in {"none", "posting", "pending", "approved_waiting"} =>
       turns[c] = 0
  /\ runs[c] = "admit" => turns[c] = 0
  /\ runs[c] = "turn" => turns[c] = 1

Counted == Safe /\ \A c \in Captures : TurnOK(c)

\* What every step does to every request.
LEMMA StatesMove ==
  ASSUME Safe, [Next]_vars, NEW d \in Captures
  PROVE  MayBecome(req[d].state, req'[d].state)
BY StepUsesStore, StepShrinks DEF Safe, SInv, Shrinks

LEMMA RunTurns ==
  ASSUME Counted, NEW c \in Captures, RunStep(c)
  PROVE  \/ turns' = turns
         \/ runs[c] = "admit" /\ turns' = [turns EXCEPT ![c] = @ + 1]
<1>1. turns \in [Captures -> Nat]
  BY DEF Counted, Safe, SInv, ServiceTypeOK
<1>2. CASE AdmitFails(c)
  <2>1. PICK n \in {0, 1} : turns' = [turns EXCEPT ![c] = @ + n]
    BY <1>2 DEF AdmitFails
  <2>2. n = 0 => turns' = turns
    BY <1>1, <2>1
  <2>3. QED
    BY <1>2, <2>1, <2>2 DEF AdmitFails, Dispatching
<1>3. CASE ~AdmitFails(c)
  BY <1>3 DEF RunStep, StartRun, RunReads, RunRefused, RunDenied, RunReadFails,
              RunBusy, RunWaits, RunClaims, RunMissesClaim, RunAdmitted,
              TurnEnds, TurnFails, RunBreaks, ReapRun, CancelRun, RunOnly,
              Dispatching
<1>4. QED
  BY <1>2, <1>3

\* A run that is admitted or has begun its turn came there in one way.
LEMMA RunComesTo ==
  ASSUME NEW c \in Captures, runs \in [Captures -> RunStates], RunStep(c)
  PROVE  /\ runs'[c] = "admit" => RunClaims(c)
         /\ runs'[c] = "turn" => RunAdmitted(c)
<1>1. CASE RunClaims(c)
  BY <1>1 DEF RunClaims, RunGoes
<1>2. CASE RunAdmitted(c)
  BY <1>2 DEF RunAdmitted, RunGoes
<1>3. CASE ~RunClaims(c) /\ ~RunAdmitted(c)
  <2>1. \E s \in RunStates \ {"admit", "turn"} : RunGoes(c, s)
    BY <1>3 DEF RunStep, StartRun, RunReads, RunRefused, RunDenied,
                RunReadFails,
                RunBusy, RunWaits, RunMissesClaim, AdmitFails, TurnEnds,
                TurnFails, RunBreaks, ReapRun, CancelRun, RunStates
  <2>2. QED
    BY <2>1 DEF RunGoes
<1>4. QED
  BY <1>1, <1>2, <1>3

LEMMA TurnsKept ==
  ASSUME Counted, [Next]_vars
  PROVE  Counted'
<1>1. Safe'
  BY StepSafe DEF Counted
<1>2. ASSUME NEW d \in Captures
      PROVE  TurnOK(d)'
  <2>1. /\ MayBecome(req[d].state, req'[d].state)
        /\ TurnOK(d)
        /\ turns \in [Captures -> Nat] /\ runs \in [Captures -> RunStates]
        /\ runs[d] \in {"admit", "turn"} => req[d].state = "dispatching"
    BY StatesMove DEF Counted, Safe, SInv, ServiceTypeOK, RunOK
  <2>2. ASSUME turns'[d] = turns[d], runs'[d] = runs[d] \/ runs'[d] = "none"
        PROVE  TurnOK(d)'
    BY <2>1, <2>2 DEF TurnOK, MayBecome, Closed
  <2>3. ASSUME NEW c \in Captures, RunStep(c)
        PROVE  TurnOK(d)'
    <3>1. CASE d # c
      <4>1. runs'[d] = runs[d]
        BY <2>1, <2>3, <3>1, RunKeepsDispatcher DEF RunGoes
      <4>2. turns'[d] = turns[d]
        BY <2>1, <2>3, <3>1, RunTurns
      <4>3. QED
        BY <2>2, <4>1, <4>2
    <3>2. CASE d = c
      <4>1. CASE RunClaims(c)
        <5>1. turns' = turns /\ req[c].state = "approved_waiting"
          BY <4>1 DEF RunClaims, RunOnly, ClaimThreadDispatch, ThreadAuthorized,
                      Waiting
        <5>2. req'[c].state = "dispatching" /\ runs'[c] = "admit"
          BY <2>1, <4>1 DEF RunClaims, RunGoes, ClaimThreadDispatch, SetRequest,
                            Counted, Safe, SInv, ServiceTypeOK, TypeOK, Request
        <5>3. QED
          BY <2>1, <3>2, <5>1, <5>2 DEF TurnOK
      <4>2. CASE RunAdmitted(c)
        <5>1. /\ runs[c] = "admit" /\ runs'[c] = "turn"
              /\ turns'[c] = turns[c] + 1
              /\ req'[c] = req[c]
          BY <2>1, <4>2 DEF RunAdmitted, Dispatching, RunGoes, storeVars
        <5>2. QED
          BY <2>1, <3>2, <5>1 DEF TurnOK
      <4>3. CASE ~RunClaims(c) /\ ~RunAdmitted(c)
        <5>1. runs'[c] \notin {"admit", "turn"}
          BY <2>1, <2>3, <4>3, RunComesTo
        <5>2. \/ turns'[c] = turns[c]
              \/ runs[c] = "admit" /\ turns'[c] = turns[c] + 1
          BY <2>1, <2>3, RunTurns
        <5>3. QED
          BY <2>1, <3>2, <5>1, <5>2 DEF TurnOK, MayBecome, Closed
      <4>4. QED
        BY <4>1, <4>2, <4>3
    <3>3. QED
      BY <3>1, <3>2
  <2>4. ASSUME NEW c \in Captures, PublisherStep(c)
        PROVE  TurnOK(d)'
    BY <2>2, <2>4, PublisherKeeps
  <2>5. CASE AsideStep \/ Start \/ CancelPublisher
    BY <2>2, <2>5
       DEF AsideStep, Start, CancelPublisher, Stop, Stopped, Crash,
           PublishNoCard, PublishNoThread, PublisherBreaks, DispatcherBreaks,
           DispatcherEnds, UiExpires, UiFails, HumanResets, TimePasses,
           CaptureArrives, HumanDecides, vars, serviceVars, TaskOnly, NoTasks
  <2>6. QED
    BY <2>3, <2>4, <2>5 DEF Next, AsideStep
<1>3. QED
  BY <1>1, <1>2 DEF Counted

-----------------------------------------------------------------------------
(* Steps that take a capture no further.                                   *)

Gained == {"posting", "approved_waiting", "dispatching", "turn_finished"}

NoGain(d) == req'[d].state \in Gained => req'[d].state = req[d].state

\* Where nothing is gained, captures are closed or stay as they are.
LEMMA OnlyClosed ==
  ASSUME Counted, [Next]_vars, turns' = turns,
         \A d \in Captures : NoGain(d)
  PROVE  [Lifecycle!Next]_<<phase, turns>>
<1> DEFINE S == {d \in Captures : phase'[d] # phase[d]}
<1>1. ASSUME NEW d \in S
      PROVE  phase[d] \in Lifecycle!Open /\ phase'[d] = "closed"
  <2>1. MayBecome(req[d].state, req'[d].state) /\ NoGain(d)
    BY StatesMove DEF Counted
  <2>2. PhaseOf[req'[d].state] # PhaseOf[req[d].state]
    BY DEF phase
  <2>3. PhaseOf[req[d].state] \in Lifecycle!Open
    BY <2>1, <2>2 DEF MayBecome, NoGain, Gained, Closed, PhaseOf, Lifecycle!Open
  <2>4. PhaseOf[req'[d].state] = "closed"
    BY <2>1, <2>2 DEF MayBecome, NoGain, Gained, Closed, PhaseOf
  <2>5. QED
    BY <2>3, <2>4 DEF phase
<1>2. phase' = [d \in Captures |-> IF d \in S THEN "closed" ELSE phase[d]]
  BY <1>1 DEF phase
<1>3. S \in SUBSET Captures
  OBVIOUS
<1> HIDE DEF S
<1>4. Lifecycle!Close(S)
  BY <1>1, <1>2 DEF Lifecycle!Close, phase
<1>5. QED
  BY <1>3, <1>4 DEF Lifecycle!Next, Lifecycle!Close

LEMMA RefuseGainsNothing ==
  ASSUME TypeOK, NEW c \in Captures, RefuseAuthority(c), NEW d \in Captures
  PROVE  NoGain(d)
BY DEF RefuseAuthority, SetRequest, Revoked, TypeOK, Request, NoGain, Gained

LEMMA SameGainsNothing ==
  ASSUME NEW d \in Captures, req' = req
  PROVE  NoGain(d)
BY DEF NoGain

LEMMA ThreadGainsNothing ==
  ASSUME TypeOK, NEW c \in Captures, ThreadStep(c), NEW d \in Captures
  PROVE  NoGain(d)
<1>1. CASE ClaimThreadCreation(c)
  BY <1>1 DEF ClaimThreadCreation, Revoked, TypeOK, Request, NoGain, Gained
<1>2. CASE req' = req
  BY <1>2, SameGainsNothing
<1>3. CASE RefuseAuthority(c)
  BY <1>3, RefuseGainsNothing
<1>4. CASE SetRequest(c, "expired")
  BY <1>4 DEF SetRequest, TypeOK, Request, NoGain, Gained
<1>5. ASSUME NEW uncertain \in BOOLEAN, FailThread(c, uncertain)
      PROVE  NoGain(d)
  BY <1>5 DEF FailThread, TypeOK, Request, NoGain, Gained
<1>6. QED
  BY <1>1, <1>2, <1>3, <1>4, <1>5
     DEF ThreadStep, AuthorizeThreadCreation, DeferThread,
         DeferCancelledPreflight, RememberThread, ReadyThread, RouteOnly

LEMMA SweepGainsNothing ==
  ASSUME TypeOK, ClaimNoThread \/ ExpireDue \/ Reset \/ Recover,
         NEW d \in Captures
  PROVE  NoGain(d)
<1>1. CASE ClaimNoThread
  BY <1>1 DEF ClaimNoThread, Revoked, TypeOK, Request, NoGain, Gained
<1>2. CASE ExpireDue \/ Reset
  BY <1>2 DEF ExpireDue, Reset, SetRequests, TypeOK, Request, NoGain, Gained
<1>3. CASE Recover
  BY <1>3 DEF Recover, Recovered, TypeOK, Request, NoGain, Gained
<1>4. QED
  BY <1>1, <1>2, <1>3

LEMMA SettingGainsNothing ==
  ASSUME TypeOK, NEW c \in Captures, NEW s, s \notin Gained, SetRequest(c, s),
         NEW d \in Captures
  PROVE  NoGain(d)
BY DEF SetRequest, TypeOK, Request, NoGain

LEMMA PublisherGains ==
  ASSUME Counted, NEW c \in Captures, PublisherStep(c), NEW d \in Captures
  PROVE  NoGain(d) \/ \E threadMode \in BOOLEAN : ClaimCard(c, threadMode)
<1>1. SInv /\ TypeOK
  BY DEF Counted, Safe, SInv, ServiceTypeOK
<1>2. CASE PublishCard(c)
  BY <1>2 DEF PublishCard
<1>3. CASE CardSent(c)
  BY <1>1, <1>3 DEF CardSent, RememberCard, TypeOK, Request, NoGain
<1>4. CASE CardConfirmed(c)
  BY <1>1, <1>4 DEF CardConfirmed, BindCard, TypeOK, Request, NoGain, Gained
<1>5. CASE CardFails(c)
  BY <1>1, <1>5, SettingGainsNothing, SameGainsNothing
     DEF CardFails, Uncertain, Gained, storeVars
<1>6. CASE ~(PublishCard(c) \/ CardSent(c) \/ CardConfirmed(c) \/ CardFails(c))
  <2>1. ThreadStep(c) \/ UNCHANGED storeVars
    <3>1. CASE PublishClaim(c)
      BY <3>1 DEF PublishClaim, ThreadStep
    <3>2. CASE PublisherReads(c) \/ CardRead(c) \/ SendPost(c)
               \/ PostRejected(c) \/ PostUnknown(c)
      BY <3>2 DEF PublisherReads, CardRead, SendPost, PostRejected, PostUnknown
    <3>3. CASE PublisherRefused(c) \/ PostDenied(c) \/ ReadDenied(c)
      BY <1>1, <3>3, Deferral
         DEF PublisherRefused, PostDenied, ReadDenied, RecordDenial
    <3>4. CASE CreateBlocked(c) \/ ReadFails(c) \/ FailPosted(c)
      BY <3>4 DEF CreateBlocked, ReadFails, FailPosted, ThreadStep
    <3>5. CASE PostNotAuthorized(c)
      BY <1>1, <3>5, DurableDeferral DEF PostNotAuthorized, ThreadStep
    <3>6. CASE PostCreated(c) \/ PostCreatedBadly(c) \/ Validated(c)
      BY <3>6 DEF PostCreated, PostCreatedBadly, Validated, ThreadStep
    <3>7. CASE CancelCreation(c)
      <4>1. task.started \in BOOLEAN
        BY <1>1 DEF SInv, ServiceTypeOK, Task
      <4>2. QED
        BY <3>7, <4>1, DelaysClosedAssumption DEF CancelCreation, ThreadStep
    <3>8. QED
      BY <1>6, <3>1, <3>2, <3>3, <3>4, <3>5, <3>6, <3>7 DEF PublisherStep
  <2>2. QED
    BY <1>1, <2>1, ThreadGainsNothing, SameGainsNothing DEF storeVars
<1>7. QED
  BY <1>2, <1>3, <1>4, <1>5, <1>6

LEMMA RunGains ==
  ASSUME Counted, NEW c \in Captures, RunStep(c), NEW d \in Captures
  PROVE  NoGain(d) \/ RunClaims(c) \/ TurnEnds(c)
<1>1. SInv /\ TypeOK
  BY DEF Counted, Safe, SInv, ServiceTypeOK
<1>2. CASE \/ StartRun(c) \/ RunReads(c) \/ RunBusy(c) \/ RunWaits(c)
           \/ RunAdmitted(c) \/ RunBreaks(c) \/ ReapRun(c)
  BY <1>2, SameGainsNothing
     DEF StartRun, RunReads, RunBusy, RunWaits, RunAdmitted, RunBreaks, ReapRun,
         storeVars
<1>3. CASE RunRefused(c) \/ RunDenied(c)
  BY <1>1, <1>3, Deferral, ThreadGainsNothing
     DEF RunRefused, RunDenied, RecordDenial
<1>4. CASE RunReadFails(c)
  BY <1>1, <1>4, ThreadGainsNothing DEF RunReadFails, ThreadStep
<1>5. CASE RunMissesClaim(c)
  BY <1>1, <1>5, RefuseGainsNothing, SameGainsNothing
     DEF RunMissesClaim, RefuseThreadDispatch, storeVars
<1>6. CASE AdmitFails(c) \/ TurnFails(c)
  BY <1>1, <1>6, SettingGainsNothing
     DEF AdmitFails, TurnFails, Uncertain, Gained
<1>7. CASE CancelRun(c)
  BY <1>1, <1>7, SettingGainsNothing, SameGainsNothing, ThreadGainsNothing
     DEF CancelRun, Uncertain, ThreadStep, Gained, storeVars
<1>8. QED
  BY <1>2, <1>3, <1>4, <1>5, <1>6, <1>7 DEF RunStep

LEMMA RestGains ==
  ASSUME Counted, AsideStep \/ Start \/ CancelPublisher, NEW d \in Captures
  PROVE  \/ NoGain(d)
         \/ \E c \in Captures : /\ req[c].state = "pending"
                                /\ SetRequest(c, "approved_waiting")
<1>1. TypeOK
  BY DEF Counted, Safe, SInv, ServiceTypeOK
<1>2. CASE UNCHANGED storeVars \/ TimePasses \/ CaptureArrives
  BY <1>2, SameGainsNothing
     DEF storeVars, TimePasses, Tick, CaptureArrives, Arrive
<1>3. CASE PublishNoThread \/ UiExpires \/ Start
  BY <1>1, <1>2, <1>3, SweepGainsNothing DEF PublishNoThread, UiExpires, Start
<1>4. CASE HumanResets
  BY <1>1, <1>4, SweepGainsNothing, SettingGainsNothing
     DEF HumanResets, ResetThread, Gained
<1>5. CASE CancelPublisher
  <2>1. Uncertain(task.capture) => NoGain(d)
    BY <1>1 DEF Uncertain, SetRequest, TypeOK, Request, NoGain, Gained
  <2>2. QED
    BY <1>2, <1>5, <2>1 DEF CancelPublisher
<1>6. ASSUME NEW c \in Captures, HumanDecides(c)
      PROVE  \/ NoGain(d)
             \/ req[c].state = "pending" /\ SetRequest(c, "approved_waiting")
  <2>1. /\ req[c].state = "pending"
        /\ \E s \in {"uncertain", "expired", "approved_waiting", "rejected"} :
             SetRequest(c, s)
    BY <1>6 DEF HumanDecides, Decide
  <2>2. QED
    BY <1>1, <2>1, SettingGainsNothing DEF Gained
<1>7. CASE Stop \/ Stopped \/ Crash \/ PublishNoCard \/ PublisherBreaks
           \/ DispatcherBreaks \/ DispatcherEnds \/ UiFails \/ UNCHANGED vars
  BY <1>2, <1>7 DEF Stop, Stopped, Crash, PublishNoCard, PublisherBreaks,
                    DispatcherBreaks, DispatcherEnds, UiFails, vars
<1>8. QED
  BY <1>2, <1>3, <1>4, <1>5, <1>6, <1>7 DEF AsideStep

-----------------------------------------------------------------------------
(* Steps that take one capture further.                                    *)

\* A request that is given another state moves its capture and no other.
LEMMA OneMoves ==
  ASSUME TypeOK, NEW c \in Captures, NEW s \in RequestStates,
         req'[c].state = s,
         \A d \in Captures \ {c} : req'[d].state = req[d].state
  PROVE  phase' = [phase EXCEPT ![c] = PhaseOf[s]]
BY DEF phase

LEMMA SetMoves ==
  ASSUME TypeOK, NEW c \in Captures, NEW s \in RequestStates, SetRequest(c, s)
  PROVE  phase' = [phase EXCEPT ![c] = PhaseOf[s]]
<1>1. /\ req'[c].state = s
      /\ \A d \in Captures \ {c} : req'[d].state = req[d].state
  BY DEF SetRequest, TypeOK, Request
<1>2. QED
  BY <1>1, OneMoves

LEMMA StepImplements ==
  ASSUME Counted, [Next]_vars
  PROVE  [Lifecycle!Next]_<<phase, turns>>
<1> USE DEF RequestStates
<1>1. /\ TypeOK /\ SInv /\ RowsWellFormed
      /\ turns \in [Captures -> Nat] /\ runs \in [Captures -> RunStates]
  BY IInvParts DEF Counted, Safe, SInv, ServiceTypeOK
<1>2. ASSUME NEW c \in Captures, PublisherStep(c)
      PROVE  [Lifecycle!Next]_<<phase, turns>>
  <2>1. turns' = turns
    BY <1>2, PublisherKeeps
  <2>2. CASE \E threadMode \in BOOLEAN : ClaimCard(c, threadMode)
    <3>1. /\ req[c].state = "none" /\ req'[c].state = "posting"
          /\ \A d \in Captures \ {c} : req'[d].state = req[d].state
      BY <1>1, <2>2 DEF ClaimCard, TypeOK
    <3>2. phase' = [phase EXCEPT ![c] = "asked"]
      BY <1>1, <3>1, OneMoves DEF PhaseOf
    <3>3. phase[c] = "new"
      BY <3>1 DEF phase, PhaseOf
    <3>4. Lifecycle!Ask(c)
      BY <2>1, <3>2, <3>3 DEF Lifecycle!Ask, Lifecycle!Become, phase
    <3>5. QED
      BY <3>4 DEF Lifecycle!Next
  <2>3. QED
    BY <1>2, <2>1, <2>2, PublisherGains, OnlyClosed
<1>3. ASSUME AsideStep \/ Start \/ CancelPublisher
      PROVE  [Lifecycle!Next]_<<phase, turns>>
  <2>1. turns' = turns
    BY <1>3 DEF AsideStep, Start, CancelPublisher, Stop, Stopped, Crash,
                PublishNoCard, PublishNoThread, PublisherBreaks,
                DispatcherBreaks, DispatcherEnds, UiExpires, UiFails,
                HumanResets, TimePasses, CaptureArrives, HumanDecides, vars,
                serviceVars, TaskOnly, NoTasks
  <2>2. ASSUME NEW c \in Captures, req[c].state = "pending",
               SetRequest(c, "approved_waiting")
        PROVE  [Lifecycle!Next]_<<phase, turns>>
    <3>1. phase' = [phase EXCEPT ![c] = "approved"]
      BY <1>1, <2>2, SetMoves DEF PhaseOf
    <3>2. phase[c] = "asked"
      BY <2>2 DEF phase, PhaseOf
    <3>3. Lifecycle!Approve(c)
      BY <2>1, <3>1, <3>2 DEF Lifecycle!Approve, Lifecycle!Become, phase
    <3>4. QED
      BY <3>3 DEF Lifecycle!Next
  <2>3. QED
    BY <1>3, <2>1, <2>2, RestGains, OnlyClosed
<1>4. ASSUME NEW c \in Captures, RunStep(c)
      PROVE  [Lifecycle!Next]_<<phase, turns>>
  <2>1. /\ TurnOK(c)
        /\ runs[c] \in {"admit", "turn"} => req[c].state = "dispatching"
    BY DEF Counted, Safe, RunOK
  <2>2. CASE RunClaims(c)
    <3>1. /\ req[c].state = "approved_waiting" /\ SetRequest(c, "dispatching")
          /\ turns' = turns
      BY <2>2 DEF RunClaims, RunOnly, ClaimThreadDispatch, ThreadAuthorized,
                  Waiting
    <3>2. phase' = [phase EXCEPT ![c] = "claimed"]
      BY <1>1, <3>1, SetMoves DEF PhaseOf
    <3>3. phase[c] = "approved"
      BY <3>1 DEF phase, PhaseOf
    <3>4. Lifecycle!Claim(c)
      BY <3>1, <3>2, <3>3 DEF Lifecycle!Claim, Lifecycle!Become, phase
    <3>5. QED
      BY <3>4 DEF Lifecycle!Next
  <2>3. CASE TurnEnds(c)
    <3>1. /\ req[c].state = "dispatching" /\ SetRequest(c, "turn_finished")
          /\ turns' = turns /\ turns[c] = 1
      BY <2>1, <2>3 DEF TurnEnds, RunOnly, Finish, Dispatching, TurnOK
    <3>2. phase' = [phase EXCEPT ![c] = "finished"]
      BY <1>1, <3>1, SetMoves DEF PhaseOf
    <3>3. phase[c] = "claimed"
      BY <3>1 DEF phase, PhaseOf
    <3>4. Lifecycle!Finish(c)
      BY <3>1, <3>2, <3>3 DEF Lifecycle!Finish, Lifecycle!Become, phase
    <3>5. QED
      BY <3>4 DEF Lifecycle!Next
  <2>4. CASE ~RunClaims(c) /\ ~TurnEnds(c) /\ turns' = turns
    BY <1>4, <2>4, RunGains, OnlyClosed
  <2>5. CASE runs[c] = "admit" /\ turns' = [turns EXCEPT ![c] = @ + 1]
    <3>1. /\ turns[c] = 0 /\ turns' = [turns EXCEPT ![c] = 1]
          /\ phase[c] = "claimed"
      BY <1>1, <2>1, <2>5 DEF TurnOK, phase, PhaseOf
    <3>2. CASE UNCHANGED storeVars
      <4>1. phase' = phase
        BY <3>2 DEF storeVars, phase
      <4>2. Lifecycle!StartTurn(c)
        BY <3>1, <4>1 DEF Lifecycle!StartTurn, phase
      <4>3. QED
        BY <4>2 DEF Lifecycle!Next
    <3>3. CASE Uncertain(c)
      <4>1. phase' = [phase EXCEPT ![c] = "closed"]
        BY <1>1, <3>3, SetMoves DEF Uncertain, PhaseOf
      <4>2. Lifecycle!Abandon(c)
        BY <3>1, <4>1 DEF Lifecycle!Abandon, Lifecycle!Become, phase
      <4>3. QED
        BY <4>2 DEF Lifecycle!Next
    <3>4. UNCHANGED storeVars \/ Uncertain(c)
      <4>1. turns' # turns
        BY <1>1, <3>1
      <4>2. QED
        BY <1>4, <2>5, <4>1
           DEF RunStep, StartRun, RunReads, RunRefused, RunDenied, RunReadFails,
               RunBusy, RunWaits, RunClaims, RunMissesClaim, RunAdmitted,
               AdmitFails, TurnEnds, TurnFails, RunBreaks, ReapRun, CancelRun,
               RunOnly, Dispatching, HasDispatchLock, QuietlyCancelled
    <3>5. QED
      BY <3>2, <3>3, <3>4
  <2>6. QED
    BY <1>4, <2>2, <2>3, <2>4, <2>5, RunTurns
<1>5. QED
  BY <1>2, <1>3, <1>4 DEF Next, AsideStep

LEMMA InitImplements ==
  ASSUME Init
  PROVE  Counted /\ Lifecycle!Init
<1>1. \A c \in Captures : /\ turns[c] = 0 /\ runs[c] = "none"
                          /\ req[c].state = "none"
  BY DEF Init, StoreInit, NoRequest
<1>2. Counted
  BY <1>1, InitSafe DEF Counted, TurnOK
<1>3. Lifecycle!Init
  BY <1>1 DEF Lifecycle!Init, Init, PhaseOf
<1>4. QED
  BY <1>2, <1>3

\* The service implements CaptureLifecycle, for any number of captures and
\* through any sequence of failures and restarts: an approval is used once,
\* and no capture is given a second turn.
THEOREM ServiceKeepsLifecycle == Spec => KeepsLifecycle
<1>1. Init => Counted /\ Lifecycle!Init
  BY InitImplements
<1>2. Counted /\ [Next]_vars => Counted'
  BY TurnsKept
<1>3. Counted /\ [Next]_vars => [Lifecycle!Next]_<<phase, turns>>
  BY StepImplements
<1>4. QED
  BY <1>1, <1>2, <1>3, PTL DEF Spec, KeepsLifecycle, Lifecycle!Spec, phase

-----------------------------------------------------------------------------
(* What the promise says of one capture, and so the service does.          *)

\* Nothing is run that was not claimed, nothing twice, and what is finished
\* was run.
RunAsPromised ==
  /\ turns \in [Captures -> {0, 1}]
  /\ \A c \in Captures :
       /\ phase[c] \in {"new", "asked", "approved"} => turns[c] = 0
       /\ phase[c] = "finished" => turns[c] = 1

LEMMA PromiseRunsOnce ==
  ASSUME RunAsPromised, [Lifecycle!Next]_<<phase, turns>>
  PROVE  RunAsPromised'
<1>1. CASE UNCHANGED <<phase, turns>>
  BY <1>1 DEF RunAsPromised
<1>2. ASSUME NEW c \in Captures,
             Lifecycle!Ask(c) \/ Lifecycle!Approve(c) \/ Lifecycle!Claim(c)
               \/ Lifecycle!Finish(c)
      PROVE  RunAsPromised'
  BY <1>2 DEF Lifecycle!Ask, Lifecycle!Approve, Lifecycle!Claim,
              Lifecycle!Finish, Lifecycle!Become, RunAsPromised, phase
<1>3. ASSUME NEW c \in Captures,
             Lifecycle!StartTurn(c) \/ Lifecycle!Abandon(c)
      PROVE  RunAsPromised'
  BY <1>3 DEF Lifecycle!StartTurn, Lifecycle!Abandon, Lifecycle!Become,
              RunAsPromised, phase
<1>4. ASSUME NEW S \in SUBSET Captures, Lifecycle!Close(S)
      PROVE  RunAsPromised'
  BY <1>4 DEF Lifecycle!Close, RunAsPromised, phase
<1>5. QED
  BY <1>1, <1>2, <1>3, <1>4 DEF Lifecycle!Next

\* Through any failures and restarts: an approval that was never claimed has
\* not been acted upon, an outcome reported as finished stands for one turn,
\* and no history gives a capture two.
THEOREM EachRunOnce == Spec => []RunAsPromised
<1>1. Lifecycle!Init => RunAsPromised
  BY DEF Lifecycle!Init, RunAsPromised, phase
<1>2. RunAsPromised /\ [Lifecycle!Next]_<<phase, turns>> => RunAsPromised'
  BY PromiseRunsOnce
<1>3. KeepsLifecycle => []RunAsPromised
  BY <1>1, <1>2, PTL DEF KeepsLifecycle, Lifecycle!Spec, phase
<1>4. QED
  BY <1>3, ServiceKeepsLifecycle, PTL

\* What has come to its end, by a turn, a rejection, a reset, an expiry, a
\* failure or a restart, stays there, and no turn is started for it any more.
SettledStays ==
  [][\A c \in Captures :
       phase[c] \in {"finished", "closed"} =>
         phase'[c] = phase[c] /\ turns'[c] = turns[c]]_<<phase, turns>>

LEMMA PromiseSettles ==
  ASSUME RunAsPromised, [Lifecycle!Next]_<<phase, turns>>,
         NEW c \in Captures, phase[c] \in {"finished", "closed"}
  PROVE  phase'[c] = phase[c] /\ turns'[c] = turns[c]
<1>1. CASE UNCHANGED <<phase, turns>>
  BY <1>1
<1>2. ASSUME NEW d \in Captures,
             \/ Lifecycle!Ask(d) \/ Lifecycle!Approve(d) \/ Lifecycle!Claim(d)
             \/ Lifecycle!Finish(d) \/ Lifecycle!StartTurn(d)
             \/ Lifecycle!Abandon(d)
      PROVE  phase'[c] = phase[c] /\ turns'[c] = turns[c]
  BY <1>2 DEF Lifecycle!Ask, Lifecycle!Approve, Lifecycle!Claim,
              Lifecycle!Finish, Lifecycle!StartTurn, Lifecycle!Abandon,
              Lifecycle!Become, RunAsPromised, phase
<1>3. ASSUME NEW S \in SUBSET Captures, Lifecycle!Close(S)
      PROVE  phase'[c] = phase[c] /\ turns'[c] = turns[c]
  BY <1>3 DEF Lifecycle!Close, Lifecycle!Open, phase
<1>4. QED
  BY <1>1, <1>2, <1>3 DEF Lifecycle!Next

\* A late answer, a second button or the next process cannot take up again
\* what was settled.
THEOREM SettledForGood == Spec => SettledStays
<1> DEFINE Settled == \A c \in Captures :
             phase[c] \in {"finished", "closed"} =>
               phase'[c] = phase[c] /\ turns'[c] = turns[c]
<1>1. RunAsPromised /\ [Lifecycle!Next]_<<phase, turns>> =>
        [Settled]_<<phase, turns>>
  BY PromiseSettles
<1>2. KeepsLifecycle => [][Lifecycle!Next]_<<phase, turns>>
  BY PTL DEF KeepsLifecycle, Lifecycle!Spec, phase
<1> HIDE DEF Settled, phase
<1>3. Spec => [][Settled]_<<phase, turns>>
  BY <1>1, <1>2, EachRunOnce, ServiceKeepsLifecycle, PTL
<1>4. QED
  BY <1>3 DEF Settled, SettledStays
=============================================================================
