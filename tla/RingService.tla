----------------------------- MODULE RingService -----------------------------
(***************************************************************************)
(* The plugin process around the store: pebble_bridge/service.py with the  *)
(* parts of thread_port.py, hermes_port.py and plugin.py it is driven by.  *)
(*                                                                         *)
(* Four asyncio tasks share the store: publish() puts cards in the channel *)
(* and creates threads, dispatch() starts one run per capture whose thread *)
(* is ready, reconcile() expires what is due, and Discord callbacks decide *)
(* and reset.  A step of this module is what one of them does between two  *)
(* awaits, never more than one transaction of RelayStore: a crash may fall *)
(* between any two steps, a cancellation at any await.                     *)
(*                                                                         *)
(* Abstractions.  The ThreadPort lock is held exactly while a request is   *)
(* out, so it is read off the program counters.  A native rate limit       *)
(* bucket that would refuse is a refusal that may happen at any time; the  *)
(* plugin's own global gate (_global_retry_at) is kept.  Nothing in the    *)
(* package edits a captures row, so RowChanged takes no part here.         *)
(***************************************************************************)
EXTENDS RelayStore

CONSTANTS
  MaxRuns,        \* MAX_PARALLEL_CAPTURE_TURNS
  StorageMayFail  \* whether a transaction may fail (busy timeout, full disk)

ASSUME MaxRunsAssumption == MaxRuns \in Nat \ {0}
ASSUME StorageAssumption == StorageMayFail \in BOOLEAN
\* What is left of a delay that has been announced is a delay too.
ASSUME DelaysClosedAssumption ==
  1 \in Delays /\ \A d \in Delays : \A e \in 1..d : e \in Delays

VARIABLES
  service,        \* the service object, and the process it lives in
  task,           \* the publisher: where it waits, for which capture, and
                  \* whether its local create_started is set
  dispatchTask,   \* the dispatcher: up, cancelling its runs, or done
  uiTask,         \* reconcile(): up, projection_failed, or done
  runs,           \* runs[c]: the _dispatch_runs entry of capture c
  globalRetryAt,  \* ThreadPort._global_retry_at: lost with the process; a
                  \* time that has passed is kept as 0
  turns,          \* turns[c]: native turns ever started for c (history)
  announced,      \* the end of the last global wait that Discord announced
                  \* and the store recorded, 0 when it is over (history)
  posts           \* posts[c]: creation POSTs sent for c and not known to
                  \* have been refused (history)

serviceVars == <<service, task, dispatchTask, uiTask, runs, globalRetryAt,
                 turns, posts, announced>>
vars == <<storeVars, serviceVars>>

PublisherStates ==
  {"done", "idle", "sending", "confirming", "claim", "preflight", "reading",
   "create", "posting", "validate", "checking", "failCertain", "failUncertain"}
RunStates == {"none", "readback", "get", "queued", "admit", "turn", "ok",
              "failed"}

Task == [pc: PublisherStates, capture: Captures \cup {None}, started: BOOLEAN]

Parked(pc) == [pc |-> pc, capture |-> None, started |-> FALSE]

NoTasks ==
  /\ task' = Parked("done")
  /\ dispatchTask' = "done"
  /\ uiTask' = "done"
  /\ runs' = [c \in Captures |-> "none"]
  /\ globalRetryAt' = 0

Init ==
  /\ StoreInit
  /\ service = "down"
  /\ task = Parked("done")
  /\ dispatchTask = "done"
  /\ uiTask = "done"
  /\ runs = [c \in Captures |-> "none"]
  /\ globalRetryAt = 0
  /\ turns = [c \in Captures |-> 0]
  /\ posts = [c \in Captures |-> 0]
  /\ announced = 0

-----------------------------------------------------------------------------
(* Start, stop, crash.                                                     *)

Start ==
  /\ service \in {"down", "stopped"}
  /\ Recover
  /\ service' = "up"
  /\ task' = Parked("idle")
  /\ dispatchTask' = "up"
  /\ uiTask' = "up"
  /\ UNCHANGED <<runs, globalRetryAt, turns, posts, announced>>

\* Wrong on purpose: the dispatcher is awaited but was never cancelled.
StopLeavesDispatcher ==
  /\ service = "up"
  /\ service' = "stopping"
  /\ uiTask' = "done"
  /\ UNCHANGED <<storeVars, task, dispatchTask, runs, globalRetryAt, turns,
                 posts, announced>>

\* A replaced adapter: every task is cancelled, then awaited.
Stop ==
  /\ service = "up"
  /\ service' = "stopping"
  /\ dispatchTask' = IF dispatchTask = "up" THEN "dying" ELSE dispatchTask
  /\ uiTask' = "done"
  /\ UNCHANGED <<storeVars, task, runs, globalRetryAt, turns, posts, announced>>

Stopped ==
  /\ service = "stopping"
  /\ task.pc = "done"
  /\ dispatchTask = "done"
  /\ service' = "stopped"
  /\ NoTasks
  /\ UNCHANGED <<storeVars, turns, posts, announced>>

\* What is on disk stays, and so does what Discord and Hermes have done.
Crash ==
  /\ service # "down"
  /\ service' = "down"
  /\ NoTasks
  /\ UNCHANGED <<storeVars, turns, posts, announced>>

-----------------------------------------------------------------------------
(* The ThreadPort: one request at a time, none inside a known global wait. *)

PortHeld ==
  \/ task.pc \in {"sending", "confirming", "reading", "posting", "checking"}
  \/ \E c \in Captures : runs[c] = "get"

GateOpen == now >= globalRetryAt

\* Wrong on purpose: a request that waited for the lock looks at the gate no
\* second time.
MaySendUngated == ~PortHeld
MaySend == ~PortHeld /\ GateOpen

\* A local refusal, nothing sent: the rest of the known global wait, the wait
\* of a native bucket, or one second for a native gate that names no end.
Refusals ==
  IF GateOpen
  THEN {[retry |-> now + d, code |-> "route_cooldown"] : d \in Delays}
         \cup {[retry |-> now + 1, code |-> "global_cooldown"]}
  ELSE {[retry |-> globalRetryAt, code |-> "global_cooldown"]}

\* A complete 429 answer; a global one also shuts the gate of this process.
Denials ==
  {[retry |-> now + d, code |-> k] : d \in Delays, k \in CooldownCodes}

\* Wrong on purpose: the denial is remembered by this process only.
RecordDenialInMemory(c, r) ==
  /\ UNCHANGED storeVars
  /\ IF r.code = "global_cooldown"
     THEN globalRetryAt' = r.retry /\ announced' = r.retry
     ELSE UNCHANGED <<globalRetryAt, announced>>
RecordDenial(c, r) ==
  /\ DeferThread(c, r.retry, r.code)
  /\ IF r.code = "global_cooldown"
     THEN globalRetryAt' = r.retry /\ announced' = r.retry
     ELSE UNCHANGED <<globalRetryAt, announced>>

-----------------------------------------------------------------------------
(* publish(): the card.                                                    *)

Publishing(pc, c) ==
  service = "up" /\ task.pc = pc /\ task.capture = c

TaskGoes(pc) == task' = IF pc \in {"idle", "claim", "done"}
                        THEN Parked(pc) ELSE [task EXCEPT !.pc = pc]

TaskOnly ==
  UNCHANGED <<service, dispatchTask, uiTask, runs, globalRetryAt, turns, posts,
              announced>>

\* The bound on the clock leaves every card time to expire.
PublishCard(c) ==
  /\ Publishing("idle", None)
  /\ MaySend
  /\ ~GlobalWait
  /\ now + ApprovalMs <= MaxTime
  /\ ClaimCard(c, TRUE)
  /\ \/ task' = [pc |-> "sending", capture |-> c, started |-> FALSE]
     \/ TaskGoes("done")  \* destination unavailable: posting stays
  /\ TaskOnly

\* Nothing to publish, or the channel may not be written to now.
PublishNoCard ==
  /\ Publishing("idle", None)
  /\ TaskGoes("claim")
  /\ TaskOnly
  /\ UNCHANGED storeVars

CardSent(c) ==
  /\ Publishing("sending", c)
  /\ RememberCard(c)
  /\ TaskGoes("confirming")
  /\ TaskOnly

CardConfirmed(c) ==
  /\ Publishing("confirming", c)
  /\ BindCard(c)
  /\ TaskGoes("claim")
  /\ TaskOnly

\* Any exception, and a card reset before it was bound, ends the publisher.
CardFails(c) ==
  /\ \E pc \in {"sending", "confirming"} : Publishing(pc, c)
  /\ IF req[c].state = "posting" THEN Uncertain(c) ELSE UNCHANGED storeVars
  /\ TaskGoes("done")
  /\ TaskOnly

-----------------------------------------------------------------------------
(* publish(): the thread.                                                  *)

\* A thread that is already known is validated again, never created again.
PublishClaim(c) ==
  /\ Publishing("claim", None)
  /\ ClaimThreadCreation(c)
  /\ task' = [pc |-> IF route[c].thread = None THEN "preflight" ELSE "validate",
              capture |-> c, started |-> FALSE]
  /\ TaskOnly

PublishNoThread ==
  /\ Publishing("claim", None)
  /\ \/ ClaimNoThread
     \/ /\ GlobalWait \/ \A c \in Captures : ~Scanned(c)
        /\ UNCHANGED storeVars
  /\ TaskGoes("idle")
  /\ TaskOnly

\* readback of the card before the creation, and of both after it.
Waits == {"preflight", "create", "validate"}
SentAs == [preflight |-> "reading", validate |-> "checking"]

PublisherReads(c) ==
  /\ \E pc \in {"preflight", "validate"} :
       Publishing(pc, c) /\ TaskGoes(SentAs[pc])
  /\ MaySend
  /\ TaskOnly
  /\ UNCHANGED storeVars

PublisherRefused(c) ==
  /\ \E pc \in Waits : Publishing(pc, c)
  /\ ~PortHeld
  /\ \E r \in Refusals : DeferThread(c, r.retry, r.code)
  /\ TaskGoes("idle")
  /\ TaskOnly

\* From here on create_started is set: the outcome may be unknown.
CardRead(c) ==
  /\ Publishing("reading", c)
  /\ task' = [task EXCEPT !.pc = "create", !.started = TRUE]
  /\ TaskOnly
  /\ UNCHANGED storeVars

\* authorize() is asked after the lock is taken and the bucket acquired, and
\* no await lies between its answer and the request.
SendPost(c) ==
  /\ Publishing("create", c)
  /\ MaySend
  /\ MayCreate(c)
  /\ TaskGoes("posting")
  /\ posts' = [posts EXCEPT ![c] = @ + 1]
  /\ UNCHANGED <<service, dispatchTask, uiTask, runs, globalRetryAt, turns,
                 announced>>
  /\ UNCHANGED storeVars

\* The transport is shut for creations, or not the one the plugin knows.
CreateBlocked(c) ==
  /\ Publishing("create", c)
  /\ FailThread(c, FALSE)
  /\ TaskGoes("idle") \/ TaskGoes("done")
  /\ TaskOnly

GlobalDues ==
  {route[s].retry : s \in {t \in Captures :
                             /\ route[t].code = "global_cooldown"
                             /\ route[t].retry # None
                             /\ route[t].retry > now}}

\* The durable wait of an earlier process is a cooldown, lost authority is a
\* failure that is known to have had no effect.
PostNotAuthorized(c) ==
  /\ Publishing("create", c)
  /\ MaySend
  /\ \/ /\ \E due \in GlobalDues :
             /\ \A other \in GlobalDues : other <= due
             /\ DeferThread(c, due, "global_cooldown")
        /\ TaskGoes("idle")
     \/ /\ ~GlobalWait
        /\ AuthorizeThreadCreation(c)
        /\ TaskGoes("failCertain")
     \/ /\ ~GlobalWait
        /\ ~Waiting(c)
        /\ UNCHANGED storeVars
        /\ TaskGoes("failCertain")
  /\ TaskOnly

\* Wrong on purpose: a created thread is taken for a valid one.
PostCreatedTrusted(c) ==
  /\ Publishing("posting", c)
  /\ route' = [route EXCEPT ![c].thread = c, ![c].state = "ready"]
  /\ RouteOnly
  /\ TaskGoes("idle")
  /\ TaskOnly

\* The thread id is on disk before anything is made of it: the validation
\* that follows at once gives up if the approval is no longer good.
PostCreated(c) ==
  /\ Publishing("posting", c)
  /\ RememberThread(c, c)
  /\ TaskGoes(IF ThreadAuthorized(c) THEN "validate" ELSE "idle")
  /\ TaskOnly

\* A thread was named, but the answer could not be accounted for.
PostCreatedBadly(c) ==
  /\ Publishing("posting", c)
  /\ RememberThread(c, c)
  /\ TaskGoes("failUncertain")
  /\ TaskOnly

PostDenied(c) ==
  /\ Publishing("posting", c)
  /\ \E r \in Denials : RecordDenial(c, r)
  /\ posts' = [posts EXCEPT ![c] = @ - 1]
  /\ TaskGoes("idle")
  /\ UNCHANGED <<service, dispatchTask, uiTask, runs, turns>>

\* Another 4xx: Discord refused, and the route fails for certain.
PostRejected(c) ==
  /\ Publishing("posting", c)
  /\ posts' = [posts EXCEPT ![c] = @ - 1]
  /\ TaskGoes("failCertain")
  /\ UNCHANGED <<service, dispatchTask, uiTask, runs, globalRetryAt, turns,
                 announced>>
  /\ UNCHANGED storeVars

\* Timeout, transport error, 5xx, unreadable answer; the deadline also covers
\* the wait for the lock.  An id that is not the card's ends the publisher.
PostUnknown(c) ==
  /\ \/ /\ \E pc \in {"create", "posting"} : Publishing(pc, c)
        /\ TaskGoes("failUncertain")
     \/ Publishing("posting", c) /\ TaskGoes("done")
  /\ TaskOnly
  /\ UNCHANGED storeVars

ReadDenied(c) ==
  /\ \E pc \in {"reading", "checking"} : Publishing(pc, c)
  /\ \E r \in Denials : RecordDenial(c, r)
  /\ TaskGoes("idle")
  /\ UNCHANGED <<service, dispatchTask, uiTask, runs, turns, posts>>

\* Timeout (the wait for the lock included), transport error, card or thread
\* not what it must be; an incompatible process ends the publisher too.
ReadFails(c) ==
  /\ \E pc \in {"preflight", "reading", "validate", "checking"} :
       Publishing(pc, c)
  /\ FailThread(c, FALSE)
  /\ TaskGoes("idle") \/ TaskGoes("done")
  /\ TaskOnly

Validated(c) ==
  /\ Publishing("checking", c)
  /\ \/ ReadyThread(c)
     \/ ~Waiting(c) /\ UNCHANGED storeVars
  /\ TaskGoes("idle")
  /\ TaskOnly

FailPosted(c) ==
  /\ task.capture = c
  /\ \/ task.pc = "failCertain" /\ FailThread(c, FALSE)
     \/ task.pc = "failUncertain" /\ FailThread(c, TRUE)
  /\ TaskGoes(IF service = "up" THEN "idle" ELSE "done")
  /\ TaskOnly

\* A transaction raised: nothing was written, and the publisher is over.
PublisherBreaks ==
  /\ StorageMayFail
  /\ service = "up"
  /\ task.pc # "done"
  /\ TaskGoes("done")
  /\ TaskOnly
  /\ UNCHANGED storeVars

-----------------------------------------------------------------------------
(* publish() cancelled by stop().                                          *)

CancelPublisher ==
  /\ service = "stopping"
  /\ \/ task.pc \in {"idle", "claim"} /\ UNCHANGED storeVars
     \/ /\ task.pc \in {"sending", "confirming"}
        /\ \/ Uncertain(task.capture)
           \/ /\ req[task.capture].state # "posting" \/ StorageMayFail
              /\ UNCHANGED storeVars
  /\ TaskGoes("done")
  /\ TaskOnly

Creating == {"preflight", "reading", "create", "posting", "validate", "checking"}

\* Nothing but a card has been asked for: the approval may go on.
\* Wrong on purpose: create_started is not looked at.
PreflightOnlyUnstarted(c) == route[c].thread = None /\ Waiting(c)
PreflightOnly(c) == ~task.started /\ route[c].thread = None /\ Waiting(c)

\* Before the creation has started the approval may go on after the restart;
\* after it has started the outcome is uncertain.
CancelCreation(c) ==
  /\ service = "stopping"
  /\ task.capture = c
  /\ task.pc \in Creating
  /\ \/ /\ PreflightOnly(c)
        /\ DeferCancelledPreflight(c, now + 1)
        /\ TaskGoes(IF ThreadAuthorized(c) THEN "done" ELSE "failCertain")
     \/ /\ ~PreflightOnly(c)
        /\ FailThread(c, task.started)
        /\ TaskGoes("done")
     \/ /\ StorageMayFail
        /\ UNCHANGED storeVars
        /\ TaskGoes("done")
  /\ TaskOnly

-----------------------------------------------------------------------------
(* dispatch() and its runs.                                                *)

RunGoes(c, s) == runs' = [runs EXCEPT ![c] = s]

RunOnly ==
  UNCHANGED <<service, task, dispatchTask, uiTask, globalRetryAt, turns, posts,
              announced>>

Dispatching(c, s) == dispatchTask = "up" /\ runs[c] = s

StartRun(c) ==
  /\ Dispatching(c, "none")
  /\ Cardinality({d \in Captures : runs[d] # "none"}) < MaxRuns
  /\ ThreadCandidate(c)
  /\ RunGoes(c, "readback")
  /\ RunOnly
  /\ UNCHANGED storeVars

RunReads(c) ==
  /\ Dispatching(c, "readback")
  /\ MaySend
  /\ RunGoes(c, "get")
  /\ RunOnly
  /\ UNCHANGED storeVars

RunRefused(c) ==
  /\ Dispatching(c, "readback")
  /\ ~PortHeld
  /\ \E r \in Refusals : DeferThread(c, r.retry, r.code)
  /\ RunGoes(c, "ok")
  /\ RunOnly

RunDenied(c) ==
  /\ Dispatching(c, "get")
  /\ \E r \in Denials : RecordDenial(c, r)
  /\ RunGoes(c, "ok")
  /\ UNCHANGED <<service, task, dispatchTask, uiTask, turns, posts>>

RunReadFails(c) ==
  /\ Dispatching(c, "readback") \/ Dispatching(c, "get")
  /\ FailThread(c, FALSE)
  /\ RunGoes(c, "ok") \/ RunGoes(c, "failed")
  /\ RunOnly

\* The session of the thread is busy: the run ends, a later pass tries again.
RunBusy(c) ==
  /\ Dispatching(c, "get")
  /\ RunGoes(c, "ok")
  /\ RunOnly
  /\ UNCHANGED storeVars

DispatchLockFree == \A c \in Captures : runs[c] # "admit"

\* Waits for the dispatch lock in arrival order, so not past a waiting run.
RunWaits(c) ==
  /\ Dispatching(c, "get")
  /\ ~DispatchLockFree
  /\ RunGoes(c, "queued")
  /\ RunOnly
  /\ UNCHANGED storeVars

HasDispatchLock(c) ==
  /\ DispatchLockFree
  /\ \/ Dispatching(c, "queued")
     \/ /\ Dispatching(c, "get")
        /\ \A d \in Captures : runs[d] # "queued"

RunClaims(c) ==
  /\ HasDispatchLock(c)
  /\ ClaimThreadDispatch(c)
  /\ RunGoes(c, "admit")
  /\ RunOnly

\* dispatch_thread raises: the exact claim is refused, or, with the approval
\* still good, the guard is closed or no longer wraps the handler, or the
\* session is busy by now.  The row is not dispatching, so uncertain() leaves
\* it alone.
RunMissesClaim(c) ==
  /\ HasDispatchLock(c)
  /\ RefuseThreadDispatch(c) \/ UNCHANGED storeVars
  /\ RunGoes(c, "failed")
  /\ RunOnly

RunAdmitted(c) ==
  /\ Dispatching(c, "admit")
  /\ turns' = [turns EXCEPT ![c] = @ + 1]
  /\ RunGoes(c, "turn")
  /\ UNCHANGED <<service, task, dispatchTask, uiTask, globalRetryAt, posts,
                 announced>>
  /\ UNCHANGED storeVars

\* Refused by the guard or the session, or failed after the turn had begun.
AdmitFails(c) ==
  /\ Dispatching(c, "admit")
  /\ Uncertain(c)
  /\ RunGoes(c, "failed")
  /\ \E n \in {0, 1} : turns' = [turns EXCEPT ![c] = @ + n]
  /\ UNCHANGED <<service, task, dispatchTask, uiTask, globalRetryAt, posts,
                 announced>>

TurnEnds(c) ==
  /\ Dispatching(c, "turn")
  /\ Finish(c)
  /\ RunGoes(c, "ok")
  /\ RunOnly

TurnFails(c) ==
  /\ Dispatching(c, "turn")
  /\ Uncertain(c)
  /\ RunGoes(c, "failed")
  /\ RunOnly

\* A transaction raised in the run; whatever the native turn did, the row is
\* left as it is.
RunBreaks(c) ==
  /\ StorageMayFail
  /\ \E s \in {"readback", "get", "queued", "admit", "turn"} : Dispatching(c, s)
  /\ RunGoes(c, "failed")
  /\ \/ UNCHANGED turns
     \/ runs[c] = "admit" /\ turns' = [turns EXCEPT ![c] = @ + 1]
  /\ UNCHANGED <<service, task, dispatchTask, uiTask, globalRetryAt, posts,
                 announced>>
  /\ UNCHANGED storeVars

DispatcherBreaks ==
  /\ StorageMayFail
  /\ dispatchTask = "up"
  /\ dispatchTask' = "dying"
  /\ UNCHANGED <<service, task, uiTask, runs, globalRetryAt, turns, posts,
                 announced>>
  /\ UNCHANGED storeVars

\* The pass over the runs that are done; one that raised ends the dispatcher.
ReapRun(c) ==
  /\ dispatchTask = "up"
  /\ \/ runs[c] = "ok" /\ UNCHANGED dispatchTask
     \/ runs[c] = "failed" /\ dispatchTask' = "dying"
  /\ RunGoes(c, "none")
  /\ UNCHANGED <<service, task, uiTask, globalRetryAt, turns, posts, announced>>
  /\ UNCHANGED storeVars

\* A run that is cancelled before its first step, while it waits for the
\* dispatch lock, or after its last step writes nothing.
QuietlyCancelled == {"readback", "queued", "ok", "failed"}

\* Wrong on purpose: a cancelled turn is not caught (except Exception).
CancelRunUncaught(c) ==
  /\ dispatchTask = "dying"
  /\ \/ /\ runs[c] \in QuietlyCancelled \cup {"admit", "turn"}
        /\ UNCHANGED <<storeVars, turns>>
     \/ /\ runs[c] \in {"readback", "get"}
        /\ FailThread(c, FALSE)
        /\ UNCHANGED turns
  /\ RunGoes(c, "none")
  /\ UNCHANGED <<service, task, dispatchTask, uiTask, globalRetryAt, posts,
                 announced>>

\* finally: every other run is cancelled and awaited: a readback fails its
\* route, a turn is uncertain.  When a cancelled turn ends, if it does, is
\* Hermes's matter.
CancelRun(c) ==
  /\ dispatchTask = "dying"
  /\ \/ /\ runs[c] \in QuietlyCancelled
        /\ UNCHANGED <<storeVars, turns>>
     \/ /\ runs[c] \in {"readback", "get"}
        /\ FailThread(c, FALSE) \/ (StorageMayFail /\ UNCHANGED storeVars)
        /\ UNCHANGED turns
     \/ /\ runs[c] \in {"admit", "turn"}
        /\ Uncertain(c) \/ (StorageMayFail /\ UNCHANGED storeVars)
        /\ \/ UNCHANGED turns
           \/ runs[c] = "admit" /\ turns' = [turns EXCEPT ![c] = @ + 1]
  /\ RunGoes(c, "none")
  /\ UNCHANGED <<service, task, dispatchTask, uiTask, globalRetryAt, posts,
                 announced>>

DispatcherEnds ==
  /\ dispatchTask = "dying"
  /\ \A c \in Captures : runs[c] = "none"
  /\ dispatchTask' = "done"
  /\ UNCHANGED <<service, task, uiTask, runs, globalRetryAt, turns, posts,
                 announced>>
  /\ UNCHANGED storeVars

-----------------------------------------------------------------------------
(* reconcile(), and what people and the receiver do meanwhile.             *)

UiExpires ==
  /\ uiTask = "up"
  /\ ExpireDue
  /\ UNCHANGED serviceVars

UiFails ==
  /\ uiTask = "up"
  /\ uiTask' = "failed"
  /\ UNCHANGED <<service, task, dispatchTask, runs, globalRetryAt, turns, posts,
                 announced>>
  /\ UNCHANGED storeVars

\* Buttons outlive the service: its views answer while the process lives.
HumanDecides(c) ==
  /\ service # "down"
  /\ \E action \in {"approve", "reject"} : Decide(c, action)
  /\ UNCHANGED serviceVars

\* /new or /reset, in the thread of a capture or in the channel.
HumanResets ==
  /\ service = "up"
  /\ Reset \/ \E c \in Captures : ResetThread(c)
  /\ UNCHANGED serviceVars

Unpassed(t) == IF t <= now + 1 THEN 0 ELSE t

TimePasses ==
  /\ Tick
  /\ globalRetryAt' = Unpassed(globalRetryAt)
  /\ announced' = Unpassed(announced)
  /\ UNCHANGED <<service, task, dispatchTask, uiTask, runs, turns, posts>>

CaptureArrives == Arrive /\ UNCHANGED serviceVars

PublisherStep(c) ==
  \/ PublishCard(c) \/ CardSent(c) \/ CardConfirmed(c) \/ CardFails(c)
  \/ PublishClaim(c) \/ PublisherReads(c) \/ PublisherRefused(c)
  \/ CardRead(c) \/ SendPost(c) \/ CreateBlocked(c)
  \/ PostNotAuthorized(c) \/ PostCreated(c)
  \/ PostCreatedBadly(c) \/ PostDenied(c) \/ PostRejected(c) \/ PostUnknown(c)
  \/ ReadDenied(c) \/ ReadFails(c) \/ Validated(c) \/ FailPosted(c)
  \/ CancelCreation(c)

RunStep(c) ==
  \/ StartRun(c) \/ RunReads(c) \/ RunRefused(c) \/ RunDenied(c)
  \/ RunReadFails(c) \/ RunBusy(c) \/ RunWaits(c) \/ RunClaims(c)
  \/ RunMissesClaim(c) \/ RunAdmitted(c) \/ AdmitFails(c) \/ TurnEnds(c)
  \/ TurnFails(c) \/ RunBreaks(c) \/ ReapRun(c) \/ CancelRun(c)

Next ==
  \/ Start \/ Stop \/ Stopped \/ Crash
  \/ PublishNoCard \/ PublishNoThread \/ PublisherBreaks \/ CancelPublisher
  \/ \E c \in Captures : PublisherStep(c) \/ RunStep(c) \/ HumanDecides(c)
  \/ DispatcherBreaks \/ DispatcherEnds \/ UiExpires \/ UiFails \/ HumanResets
  \/ TimePasses \/ CaptureArrives

Spec == Init /\ [][Next]_vars

\* The run waits for native code: Hermes's admission, then the turn itself.
InHermes(c) == runs[c] \in {"admit", "turn"}

\* Weak fairness for what the event loop runs by itself: cancelled tasks end,
\* and the reconciler comes round every half second (its pass over what is due
\* needs the Discord client to be ready, so that is assumed to come back).
\* Nothing is assumed of Discord's answers, of people, of a restart, or of
\* Hermes: a cancelled run that stands in native code need never end.
Fairness ==
  /\ WF_vars(TimePasses)
  /\ WF_vars(UiExpires)
  /\ WF_vars(Stopped)
  /\ WF_vars(DispatcherEnds)
  /\ WF_vars(CancelPublisher)
  /\ \A c \in Captures : WF_vars(FailPosted(c) \/ CancelCreation(c))
  /\ \A c \in Captures : WF_vars(CancelRun(c) /\ ~InHermes(c))

FairSpec == Spec /\ Fairness

-----------------------------------------------------------------------------
(* Properties.                                                             *)

\* Every variable of the service holds a value the code can give it.
ServiceTypeOK ==
  /\ TypeOK
  /\ service \in {"down", "up", "stopping", "stopped"}
  /\ task \in Task
  /\ dispatchTask \in {"done", "up", "dying"}
  /\ uiTask \in {"done", "up", "failed"}
  /\ runs \in [Captures -> RunStates]
  /\ globalRetryAt \in Nat
  /\ turns \in [Captures -> Nat]
  /\ posts \in [Captures -> Int]

\* For one card at most one creation POST can have had an effect: through
\* refusals and resumed claims, cancellations, unknown outcomes and restarts.
AtMostOneThread == \A c \in Captures : posts[c] \in {0, 1}

\* Turns and runs belong together: what a run admits or runs is dispatching in
\* the store, and while the dispatcher works, what is dispatching has its run;
\* only the failed write of a run that then stops the dispatcher may leave a
\* row behind, for recover() to close.
TurnsHaveRuns ==
  \A c \in Captures :
    /\ runs[c] \in {"admit", "turn"} => req[c].state = "dispatching"
    /\ req[c].state = "dispatching" /\ dispatchTask = "up" =>
         runs[c] \in {"admit", "turn", "failed"}

\* No turn is left open: once the dispatcher is over, by a stop, by a sibling's
\* failure or by a claim that was missed, every capture that was dispatching
\* has its outcome on disk, without waiting for a restart.  (Only a failed
\* write leaves one to recover().)
NoTurnLeftOpen ==
  ~StorageMayFail /\ service # "down" /\ dispatchTask = "done" =>
    \A c \in Captures : req[c].state # "dispatching"

\* A creation the publisher has claimed is not forgotten: while the publisher
\* lives, an approval that is still good and whose thread is being created is
\* the one in its hands.  (Every exit of the try block gives the route
\* another state.)
NoCreationForgotten ==
  service = "up" /\ task.pc # "done" =>
    \A c \in Captures :
      route[c].state = "creating" /\ ThreadAuthorized(c) => task.capture = c

\* No request of the plugin is started inside a global wait that Discord has
\* announced, by either task, for any capture, by the process that was denied
\* or by a later one.
NoRequestInGlobalWait ==
  [][announced > now =>
       /\ task'.pc \in {"sending", "reading", "posting", "checking"} =>
            task.pc = task'.pc \/ task.pc = "sending"
       /\ \A c \in Captures : runs'[c] = "get" => runs[c] = "get"]_vars

\* stop() comes to an end whatever was in progress, unless Hermes holds a turn:
\* it comes, again and again, to where it has ended or where nothing is left to
\* await but native turns that have been cancelled and have not ended.
OnlyTurnsLeft ==
  /\ task.pc = "done"
  /\ \E c \in Captures : InHermes(c)
  /\ \A c \in Captures : runs[c] = "none" \/ InHermes(c)

StopEnds == service = "stopping" ~> service # "stopping" \/ OnlyTurnsLeft

\* No approval waits for ever: it is used, revoked, or expires, as long as
\* there is a process whose UI projection has not failed.
ApprovalsEnd ==
  \A c \in Captures :
    req[c].state = "approved_waiting" ~>
      \/ req[c].state # "approved_waiting"
      \/ service # "up"
      \/ uiTask = "failed"

PhaseOf == [none |-> "new", posting |-> "asked", pending |-> "asked",
            approved_waiting |-> "approved", dispatching |-> "claimed",
            turn_finished |-> "finished", rejected |-> "closed",
            expired |-> "closed", reset |-> "closed", uncertain |-> "closed",
            failed |-> "closed"]

Lifecycle == INSTANCE CaptureLifecycle
               WITH phase <- [c \in Captures |-> PhaseOf[req[c].state]]

\* The service keeps the promise of CaptureLifecycle, crashes included: in
\* particular no capture is ever given a second turn.
KeepsLifecycle == Lifecycle!Spec

\* Whatever the tasks do together is something the store allows one caller:
\* every property of StoreSpec is one of the service.
UsesStore == StoreSpec
=============================================================================
