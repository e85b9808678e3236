# A verification project for pebble-ring-handoff

Pebble Ring captures reach a receiver on the host, which commits them to a
SQLite database. A plugin inside the Hermes gateway shows each capture as a
card in one Discord channel; one configured person approves or rejects it; an
approved capture gets a Discord thread of its own and exactly one model turn
in it. A watchdog keeps the receiver and its tunnel up.

What can go wrong lives mostly in the middle part: durable rows that several
asyncio tasks, button callbacks, restarts and Discord's rate limits all act
upon. Around it lie the way to Discord with its rate limits, the admission of
messages while services come and go, the files of the recordings, and the
watchdog, whose recovery may be cut off and undone between any two of its
process starts. All of these are modelled.

## 1. The system

Paths are under `src/package/`; `pb/` is `pebble_bridge/`.

| component | state it keeps | operations | what makes it correct |
|---|---|---|---|
| RelayStore, `pb/relay_store.py` | tables `relay_requests`, `relay_threads` (also audio grants and reset markers) | one `BEGIN IMMEDIATE` transaction per method: `claim_card` ... `recover` | authority only shrinks; the tables agree; no approval hangs; a global denial stops claims |
| RingService, `pb/service.py` | four asyncio tasks, the run of each capture, the dispatch lock | `start`, `stop`, `publish`, `dispatch`, `_dispatch_one`, `dispatch_thread`, `reconcile`, `decide` | at most one thread and one turn per capture; nothing forgotten; `stop` ends |
| ThreadPort, `pb/thread_port.py` | port lock, global gate and its timers, bucket floors and names, creation latch | `readback`, `create_once`, `presentation_slot` | no request inside a known wait; an unknown outcome is never taken for none; no token of a shared bucket is lost; every call ends |
| HermesPort, `pb/hermes_port.py` | none (native session lanes) | `admit`, `idle`, `thread_event` | one admission starts at most one turn |
| plugin, `pb/plugin.py` | the service of each adapter, generations, the replacement lock | `wire`, `activate`, `on_ready`, `replace_service`, `pre_dispatch` | at most one live service; a failed retirement is final; the newest connection gets its service |
| AdmissionGuard, `pb/admission_guard.py`; human threads, `pb/human_threads.py` | the wrapped handler, reset markers | `install`, `close`, `handle_message`, `route_human_event` | only what its turn or a later reset lets in enters the thread of a capture |
| audio, `pb/audio.py`, `pb/audio_tools.py` | grants, files | `grant_audio`, `claim_audio`, `retrieve_audio`, purge | a grant is used once; no file outlives its retention |
| Receiver and Repository, `pb/receiver.py`, `pb/repository.py` | `captures`, the spool directory, the older worker's tables | `persist_capture`, `sweep_orphan_spool`, ... | acknowledged means stored; duplicates are one row |
| worker health, `pb/worker_health.py` | one JSON file | `write_health`, `read_health` | "ready" is never read from a dead worker |
| watchdog, `scripts/pebble_quick_tunnel_watchdog.py` and the scripts and commands around it | lock, `manifest.json`, `ready.json`, `.pebble-runtime.env` | `run_watchdog`, `recover_full`, `recover_bridge_only`, `stop_owned_process`, `recover`, `stop_ingress` | a failure undoes what it began; no process is lost track of or signalled by mistake; the next runs repair what a crash left |
| setup, management, health probe | configuration files | idempotent preparation, reports | rerunning changes nothing |

Interaction. The receiver and the plugin share only the database file.
`publish` and `dispatch` share the store, the port and the native Discord
client; `stop` cancels tasks, `on_ready` starts them; Discord calls back
`decide` and `playback`; the gateway hook calls the store for `/new` and
`/reset`. The watchdog, a process of its own, starts and stops the receiver.

The hard behaviours: every `await` of the four tasks is a point where another
task, a callback or a cancellation gets in; a crash may fall between a remote
effect and the row that records it; Discord's answers may be lost, late, or a
refusal for one route or for everything; deadlines run meanwhile; a database
write may fail after 75 ms.

## 2. The modules

| module | what it is |
|---|---|
| `RelayStore` | the durable tables, every method an action, callable in any order |
| `RelayStoreProofs` | its inductive invariant and six theorems |
| `CaptureLifecycle` | the abstract promise: asked once, run at most once and only when approved, closed is closed |
| `RingService` | the plugin process; EXTENDS `RelayStore` and calls its actions |
| `RingServiceProofs` | the refinement `RingService` => `RelayStore`, and what follows |
| `RingServiceSafetyProofs` | the service's own invariants, the refinement `RingService` => `RequestPort`, and what `stop` does |
| `LifecycleProofs` | the refinement `RingService` => `CaptureLifecycle`, and what follows |
| `RequestPort` | the abstract promise of the way to Discord: one request at a time, none inside the global wait that was announced |
| `ThreadPort` | the port's lock, gate, floors and latch, beside a gateway that uses the same client |
| `ThreadPortProofs` | its inductive invariant; all its safety properties; the refinement `ThreadPort` => `RequestPort` |
| `Recordings` | spool, rows, grants and purge, between receiver processes and the gateway |
| `RecordingsProofs` | its invariants with one receiver at a time; all its safety properties |
| `Replacement` | connections, generations, and the handover from one service to the next |
| `Admission` | EXTENDS `Replacement`: the messages of people between guard, lane and hook |
| `AdmissionMC` | the adapters of the connections, for the run |
| `AdmissionProofs` | one service at a time, and who may write in a capture's thread |
| `Ingress` | the abstract promise of the watchdog: one generation at a time, and none committed that has not answered |
| `Watchdog` | the runs of the ingress watchdog, and the processes they start and stop |
| `WatchdogMC` | its symmetry and view for the safety runs |
| `WatchdogProofs` | its inductive invariant; all its safety properties; the refinement `Watchdog` => `Ingress`; the length of a run |

`RingService` composes the store with the tasks that call it, `Admission` the
wiring with the guard and the hook. The other modules meet at their
interfaces: `RingService` asks of the port only that a request may be refused
at any moment and that a global denial is remembered until it ends, and
`ThreadPort` is that port in detail. What both sides say of it is written down
once, in `RequestPort`, and both are proved to keep it; a service that starts and stops in
`Replacement` is what `Start`, `Stop` and `Stopped` are in `RingService`; a
receiver that starts and dies in `Recordings` is what the watchdog starts and
stops.

### RelayStore

One variable per table: `req[c]` is the row of `relay_requests` of capture c
(state, message id, deadline), `route[c]` its row of `relay_threads` (state,
thread id, first attempt, retry time, failure code), both with a state "none"
for no row. `now` is the wall clock the callers pass as `now_ms`; `arrived` is
how many captures the receiver has committed; `intact[c]` says that the
capture's text is still what the request was made from (the digest
comparisons). A method that commits is an action of the same name in camel
case; one with several outcomes has an action or disjunct for each; one that
returns without writing or raises is a stuttering step, because a transaction
that raises is rolled back. `_thread_authorized`, which may revoke an approval
while it looks at it, is `ThreadAuthorized` with `RefuseAuthority` for what it
writes. The ids of a card and of the thread started from it are equal in
Discord, so the id of both is the capture.

### RingService

`task` is the publisher's place in `publish`, with the capture in its hands
and the local `create_started`; `runs[c]` is the place of c's run in
`_dispatch_one`; `dispatchTask` and `uiTask` are the two other tasks;
`globalRetryAt` is `ThreadPort._global_retry_at`; `service` the process and
the service object. `turns`, `posts` and `announced` are history: they record
what Hermes and Discord have been made to do, survive crashes, and guard
nothing.

A step is what one task does between two awaits, at most one transaction
each. The program counters name the awaits: "preflight" waits for the port
lock, "reading" for the card's answer, "create" for the lock again, "posting"
for the answer to the POST, "validate"/"checking" for the readback of both;
"sending"/"confirming" belong to the card. A run goes "readback", "get",
"queued" (dispatch lock), "admit" (native admission, lock held), "turn", and
ends "ok" or "failed". The port lock is held exactly in the states in which a
request is out, so `PortHeld` reads it off. `PreflightOnly`, `CancelCreation`
and `CancelRun` are the except and finally blocks of a cancellation; they run
without an await and so are one step. `Crash` keeps the tables and the
history and loses everything else; `Start` runs `recover`.

Discord's answers are the disjuncts `PostCreated`, `PostCreatedBadly` (a
thread id in an answer that cannot be accounted for), `PostDenied` (a 429),
`PostRejected` (another 4xx), `PostUnknown`; for reads `CardRead` and
`Validated`, `ReadDenied`, `ReadFails`. Discord is taken to have created no
thread when it answers 4xx, which is also what the code assumes.

### CaptureLifecycle

Six phases and a counter of turns. `KeepsLifecycle` checks that RingService
implements it with `phase` read off `req[c].state` and `turns` as it is.

### ThreadPort

`call[k]` is what caller k is in the middle of: the kind of call, the request
at hand ("create", "card", "thread"; a readback of card and thread is one call
with two requests), its deadline, and its place. "queued" waits for
`ThreadPort._lock`, "next" is about to make its checks, "token" waits for a
token of the native bucket, "out" for the answer, "exit" sleeps out the window
in the bucket's own exit, still with the lock; "slot" holds the lock for a
card edit. `floor` is `_server_floors`, `globalRetryAt` is `_global_retry_at`,
`timers` the pending `call_later(_global_over.set)`, `creationFailure` the
latch, `owner` the table `_buckets` by name. A check and the step after it
that needs no await are one action: `Sends` takes the token and starts the
request. `Denied` is a complete 429 of Discord's own, which goes into all four
memories before the lock is free; `DenialCollides` and `DeniedBadly` are those
that cannot be accounted for. `TimesOut` and `Cancelled` tear a call out of
any await, with what `_Reservation.__aexit__` does to the bucket then.

The native client is external, and is modelled as far as the port relies on
it: buckets with tokens and windows, one global gate. The gateway uses both
for requests of its own (`OutsideSends` ... `OutsideOpens`) and opens the gate
it has shut without asking who else has. `told` and `toldAll` are history:
what Discord announced, which is compared with what the port remembers.

### RequestPort

Three variables: the clock, who has a request (or card edit) under way, and the
end of the global wait that this process was told of. `ThreadPort` is compared
with it through the calls that are "out" or in their "slot", `RingService`
through the task and the runs that wait for an answer; the wait is
`globalRetryAt` in both. It is kept small on purpose: floors of single buckets
and the gate as others shut it are `ThreadPort`'s alone, and in `RingService`
are the freedom to be refused.

### Recordings

`receiver[p]` is one process: "read", "sweeping" (Repository() sweeps before
the port is bound), then "serving", and within a delivery "writing",
"spooled", "stored" (committed, not yet answered), "again" (the row was there
already). `spool` and `temps` are the directory, `row` and `until` the columns
of `captures` that speak of audio, `card` as much of `relay_requests` as
decides on expiry and ownership: no row, "asked" (`claim_card` has made the row,
and the card may never come), "shown", "rejected". `purge` is `purge_expired_audio` with what it
has listed and what it has unlinked but not yet forgotten. `grant[m]` is the
row of message m in `relay_audio_grants`; `retrieval[t]` is one run of
`retrieve_audio`, in a thread of its own: "claimed", "reading" (the file is
open), "stale" (it was unlinked meanwhile, which the second fstat sees).

A transaction is one step, and so is one unlink or rename. `Dies` ends a
receiver anywhere. `acked`, `spoiled`, `late` and `returned` are history.
`spoiled` and `late` name the two cases in which the code does let a file go
astray: the rollback of a second delivery unlinks the file that the first one
committed (`InsertFails`), and a delivery may put a file in place again after
it has expired. The properties say what holds apart from these.

### Replacement and Admission

Each call of `wire()` has a number, its generation, which also names the
service, the task and the client that belong to it. `phase[i]` is how far the
service has come, `services` the hook's table, `guard` what is installed in
the adapters' handlers, `task[i]` the run of `replace_service`. The first wire
starts a service at once or when its client is ready (`OnReady`); a later one
queues a task, which stops what is installed (`BeginsStop`) and then hands
over (`HandsOver`), unless a newer connection has come or `stop()` took longer
than 15 s (`StopFails`: the service is "stuck", `retirement_failed` is final).

A message goes from "new" through the adapter's handler (`Handled`: the guard
that is installed there, or the gateway's own handler), perhaps "routing"
(`route_human_event` waits for Discord, and other messages overtake it), to
the "lane", and from there through the hook (`Hooked`) to "entered" or
"refused". Guard and hook ask whichever service they find at their own time.
A reset takes effect where it is seen and writes `marker`. The capture has the
states of its request as far as admission asks for them; `turn` is its native
task and the service that waits for it. A message of the channel that reached
the lane while no guard was installed is passed on by the hook unrouted and,
if it is a command, resets all (`plugin.py:135-139`, `HookedChannel`).

### Watchdog

`procs` has the process at each process id: its role, its start time, and the
token of its tunnel. `port` is the receiver that listens; `manifest`, `ready`
and `runtime` are the three files; `run` is the place and the locals of the
run that holds the lock. `told` and the field `orphan` of a process are
history, and so are two of the locals: `found`, the hostname that a full
recovery has found in the runtime file, and `left`, the parts whose undoing has
failed.

A nonce and a hostname are both new with each supervisor, so one token, the
tunnel, stands for both; a receiver carries the token of the hostname it was
started with. A run goes "prepare", then "health" and "probe" (verify),
"spawnBridge" ... "commit" (bridge only), or "remove", "stopBridge",
"stopSupervisor", "spawnSupervisor", "await", "rewrite", "spawnBridge",
"health", "probe", "commit" (full). After a commit `post` is set and the run
is at "prepare" again, for the second look of `management.recover`. A failure
goes through "cleanBridge", "cleanSupervisor", "restore" and "cleanReady", the
cleanup actions of `recover_full` in their order, or through "cleanBridge"
alone for a bridge-only recovery. `StopProcess` is one
signal of `stop_owned_process` with the look before it; `stage` says which
signal comes next. "stop" is `stop_ingress`. `Killed` ends a run anywhere and
leaves everything else as it is.

What happens around a run: a receiver binds its port or exits because another
one has it (`Listen`, `BindFails`); a supervisor publishes its readiness, once
(`PublishReadiness`); any process ends, with or without its cloudflared
(`ProcessExits`, `CloudflaredEnds`); an id goes to another program
(`IdReused`).

A GET is answered 405 by whatever receiver listens and for whatever hostname;
the authenticated POST is answered 204 only for the hostname the receiver was
started with (`Serves`, `Accepts`; `receiver.py:142`). That is why a commit
needs both.

### Ingress

The committed hostname and which of its two parts live, the hostname that a
recovery is at work for and which of the parts it has started live, and whether
a receiver has answered for it. No ids, files, signals or deadlines. `Watchdog`
is compared with it by reading the generation off the manifest (`Serving`) and
the recovery off the locals of the run (`Planned`, `Coming`).

## 3. Properties

RelayStore: `TypeOK`; `RoutesMatchRequests` (which request state may stand
beside which route state); `NoApprovalStranded` (a waiting approval is always
found again by the claim's SELECT); `AuthorityOnlyShrinks`
(one step of any method); `GlobalDenialStopsClaims`.

RingService: `ServiceTypeOK`; `AtMostOneThread` (at most one creation POST per
card can have had an effect, over all crashes and retries); `TurnsHaveRuns`
(a row is dispatching only while a run has it, and conversely);
`NoTurnLeftOpen` (once the dispatcher is over, stopped, failed or by a claim that
was missed, every capture that was dispatching has its outcome on disk);
`NoCreationForgotten`; `NoRequestInGlobalWait`; `KeepsLifecycle`; `UsesStore`;
the liveness properties `StopEnds` (a stop ends, or nothing is left of the
service but turns that hang in native code) and `ApprovalsEnd`.

ThreadPort: `TypeOK`; `CertainMeansNoThread` (what the port calls refused,
denied or failed made no thread: the service builds its retries on this);
`NoRequestInKnownWait` (no request starts inside a wait that a valid 429
announced, whatever the native client did to its windows meanwhile);
`NoCreationInGlobalWait` (the same for creations and for limits that could not
be accounted for); `GateNotOpenedEarly` (the port opens the gate of the whole
client, never before the last wait is over); `NoTokenLost` (no failed call
loses the last token of a bucket that the gateway uses too); the liveness
property `WaitsEnd` (every call ends, whoever holds the lock, the token or the
gate, and a gate that is shut opens).

Recordings: `TypeOK`; `AckedHasRecording` (what was answered with 202 has its
file until it expires); `GrantOnce` (one recording per request, and none that
has expired or been forgotten while it was read); `SweepCleans` (a receiver
that comes up has removed what earlier ones left in any step); the liveness
property `ExpiredGoes`; and `SweepSparesReferenced`, which does not hold
(section 7).

Replacement and Admission: `SoleService` (two services never work at once, and
the hook asks none that is not in the handler too); `ThreadPolicy` (what is
written in a capture's thread is worked on only after or within its own turn,
or after a reset that is older than the message, whichever services it met);
the liveness property `NewestActivates`.

Watchdog: `TypeOK`; `Accounted` (no process is lost track of unless a run was
killed or a stop failed); `OnlyRecordedAreStopped` (no signal for a process
that has taken a recorded id over); `ReplacedAreGone` (generations never
overlap); `KeepsIngress` (the recovery implements `Ingress`: nothing new beside
what lives of the old, for either kind of recovery and through its undoing);
`CommittedHasAnswered` (what a full recovery commits is what answered
the probe, although a leftover receiver may hold the port); `FailureUndoes`
(each process that a failed full recovery has on record is gone unless its own
stop failed, whatever else could not be undone, and the runtime file has the
hostname that was found there unless a write of that file failed: a write that
fails after it has replaced the file leaves the new hostname there, since
`runtime_original` is not yet known); `StoppedIsDown` (after stop-ingress has
reported success nothing serves and nothing on record lives, until another run
begins); the liveness properties `RunsEnd` and `Recovers`.

## 4. Runs

| run | instance | shows |
|---|---|---|
| `store` | 2 captures, approval 2 ticks, 2 ticks, delay 1, `ScanLimit` 1; 670 997 states | all properties of the store under any order of calls, with a scan that is cut off |
| `service` | 2 captures, approval 2, 2 ticks, 4 runs, a database that answers; 1 506 393 states | the safety properties under interleaving, stop, crash, restart |
| `service_live` | 1 capture, approval 3, 4 ticks, delays 1 and 2, a database that may fail; 96 097 states | liveness, and both refinements over longer histories |
| `thread_port` | 2 callers (create, card and thread, slot), 1 token, delays 1 and 2, 3 ticks, the gateway on the card's bucket; 969 683 states | what was told is honoured by whoever is next at the lock |
| `thread_port_names` | 1 caller, a name that two routes are given, 2 tokens, 2 ticks, the gateway on the creation's bucket; 128 882 states | tokens, and the latch after a collision |
| `thread_port_waits` | 3 callers (create, slot), 1 token, delays 1 and 2, 3 ticks, the gateway on the creation's bucket; 61 698 states | every call ends, whoever holds the lock, and the gate opens again |
| `recordings` | 1 recording, 2 requests, 2 retrievals, 2 ticks; 240 448 states | files, rows and grants through crashes, second deliveries, purge and reset |
| `recordings_beside` | 2 receivers at once | the finding about the sweep, section 7 |
| `admission` | 3 connections (a new adapter, then the same again), 2 messages; 152 673 states | one service at a time, and the order of messages and resets |
| `watchdog` | 3 process ids, no limit on runs, faults and leftovers; 281 937 states under symmetry and view | the safety properties of recovery and stop |
| `watchdog_live` | 4 process ids, one fault anywhere; 76 532 states | every run ends; the ingress comes back |
| `watchdog_notice` | 3 process ids, at most two faults | the finding about the notice, section 7 |

Store and service. Two captures are needed for a sibling's global denial, the
order of the claims, the dispatch lock, and a publisher and a run working at
once; every property speaks of one capture, or of one and the denial of
another. One tick separates "before" from "after" a deadline; more of them let
a delay start, end and start again before the approval ends. The number of
restarts and of retries within the ticks is not bounded. `MaxTime` bounds the
clock, and `PublishCard` only shows a card that can still expire within the
bound, so that `ApprovalsEnd` is not cut off by it. `ScanLimit` stands for
LIMIT 100 and is 1 where two rows compete. `MaxRuns` (4, as in the code) is
above the number of captures, so that two runs meet at the dispatch lock; in
`service_live` it is 1.

Port. Two callers suffice for one that waits at the lock while the other is
told something; the theorems of section 5 have any number. Delays 1 and 2 let
a shorter denial follow a longer one. The second run trades the second caller
for a second token and a name. The third checks liveness with three callers, so
that one waits behind another that waits itself, and with denials of two
lengths; the bucket names play no part in it.

Recordings. Every property speaks of one recording, and nothing in the code
relates two except the lists of sweep and purge, which are sets; the theorems
have any number. Two retrievals and two requests are needed for a tool that is
called twice at once and for a message that is delivered twice.

Admission. Two connections after the first are needed for a task that finds
its generation overtaken; two messages for a reset and what was written before
or after it. Wires and messages are used up in the end, and nothing more need
happen then: this is the one run with `CHECK_DEADLOCK FALSE`. In all others
deadlock is checked.

Watchdog. A generation is two processes; the third id is a leftover of an
earlier one, which holds the port, publishes a stale record or occupies an id.
`MaxStray` is as large as the number of ids, so it cuts nothing off. Start
times and tunnels are asked for equality only and a new one is the least that
nothing holds; the numbers in the cfg leave room for all that can be held at
once (a larger set gives the same number of states). `View` identifies states
that differ in the names of tunnels, in the start times of records whose
process is gone, in what was classified once it has been acted upon, and in
history as far as no property reads it any more; ids are permuted. The liveness run uses
neither. It counts faults: whatever ends by itself, fails though it could
work, or is killed or stopped from outside. It has one, at any point of a
behaviour of any length; with two the state graph is out of reach. The safety
run has no such limit.

Fairness is assumed only of what the code itself brings about.

- `service_live`, weak: time passes; cancelled tasks run their except and
  finally blocks; the reconciler's pass over what is due comes round. That
  pass needs the Discord client to be ready, so readiness is assumed to
  return. Nothing is assumed of Discord's answers, of a person,
  of a restart, or of Hermes: `CancelRun` is fair only while the run is not in
  native code (`InHermes`: it awaits admission or the owner of the turn), since
  a cancelled native task may hang, which is why `plugin.py` gives `stop` 15 s.
  `StopEnds` therefore ends either way, with the service stopped or with
  nothing left but such turns, and the latter is where `Replacement` has
  `StopFails`. `ApprovalsEnd` therefore excludes a stopped
  process, and one whose UI projection has failed, which in the code ends
  expiry too.
- `thread_port_waits`, weak: the lock is handed over, a slot is used for a
  bounded time, the checks before a request await nobody, deadlines and timers
  fire, the native client opens a gate it has shut, time passes. An answer may
  never come.
- `recordings`: the publisher's cleanup comes round (weak), and its unlinking
  and forgetting are not cut off every time they are about to happen (strong).
- `admission`, weak: a replacement task goes on when it has the lock, which the
  15 s limit on stop() guarantees.
- `watchdog_live`, weak: a run takes its next step, because every wait in it
  has a deadline; the cron job begins runs; a receiver binds or exits; a
  supervisor reads its origin within its window; a cloudflared that was
  terminated, or that writes to a closed pipe, ends. `Recovers` says that once
  no more faults come the committed generation serves for good. Its premise
  excludes a receiver left behind by a killed run, which in the code blocks
  every later full recovery until somebody stops it, and a recorded id that
  belongs to another program, which the code refuses to touch.

Every property of a passing run has a mutant: a definition with a plausible
bug, kept in the modules under a comment that begins "Wrong on purpose", under
which the same run finds the property violated.

## 5. Proofs

`RelayStoreProofs`. The inductive invariant `IInv` is `TypeOK`,
`RoutesMatchRequests`, `ThreadsAreBound` and `RowsWellFormed`. The last is
needed because the others do not say what the columns of one row have to do
with each other: that a rate_wait row has a retry later than its first attempt
and a code the claim accepts, that an open card's message id is its own, that
an attempt lies in the past. The invariant is stated per capture (`RowInv`),
shown for each action on the capture it changes, and carried over to the
others by one lemma. From it follow the invariants; the two action properties
are proved from it action by action.

`RingServiceProofs`. `ServiceUsesStore` is the refinement: each step of the
service is a step of the store or leaves the tables alone. What needs an
invariant is the argument of `defer_thread`: the service passes a time taken
from a remembered or stored denial, not a fresh delay, so `WaitsAllowed` says
that what is left of every such wait is again a delay a caller may use
(`DelaysClosedAssumption`). The refinement then carries the store's theorems
over to the service (`ServiceKeepsAuthority`, `ServiceHonoursDenials`), and its
invariant gives the service's type correctness.

`RingServiceSafetyProofs`. Neither `AtMostOneThread` nor its companions are
inductive: they hold because of who may touch which row when. The invariant
`Safe` adds this. The publisher holds the one route that is being created
(`InHand`, `Remembered`); a POST that may have had an effect left a thread id,
a closed route, or a creating route for which nobody will send another
(`PostKnown`); a run works on a route that is ready, or that it has itself
failed, with its claim on disk (`RunOK`); tasks that are not there do nothing
(`TasksDone`). `WaitOK` says that an announced global wait is on disk, in a
row that nobody is at work on (`Recorded`), and that the process which was
denied has its gate shut as well, while a later one has not begun anything.

`TurnsAreClosed` adds to `Safe` that, with a database that answers, a row is
dispatching only while its run is in native code (`OpenHaveRuns`): every way
out of such a run, its cancellation included, writes an outcome first, and the
dispatcher is over only when it has no runs.

Two more results rest on it. `ServiceKeepsContract`: the requests of publisher
and runs keep `RequestPort`, from which `ServiceAsksOneByOne` follows. And
`StopBeginsNothing`, the safety half of `StopEnds`: once `stop` has been called
no request goes out, no run and no turn is begun, and each task can only move
to its end, whatever buttons, resets and deadlines come in meanwhile
(`StopIsSeen`: the dispatcher was cancelled first, and nothing starts another).

`LifecycleProofs`. The refinement reads a capture's phase off its request and
keeps the number of its turns. `Counted` adds to `Safe` that a turn was started
only for what is claimed and once (`TurnOK`). That the phase of an unfinished
capture only moves along the lifecycle comes from the store's
`AuthorityOnlyShrinks`, through the first refinement; what remains is to show
which of the service's steps gain a phase at all. What the abstract side says
is then carried over: `EachRunOnce`, and `SettledForGood`.

`ThreadPortProofs`. The invariant compares the port's memories with what it
was told (`WaitsRemembered`: a floor, the global retry time and every timer
are at least as late as the wait they stand for; a limit that was not
accounted for has closed the latch), says that the lock has one holder
(`LockHeldOnce`), that no creation is past the latch when it closes
(`LatchSeen`, which needs the lock: whoever closes the latch holds it), that
what a call is going to report is honest (`CallsTrue`), and counts the tokens
(`TokensCount`: what is left and what is out never exceed the limit, and a
bucket without a token has a window or a request that will restore it). One
lemma says that only `Sends` and `GetsToken` start a request; the three action
properties follow from it and the invariant.

`PortKeepsContract` is the refinement: the lock makes the holder the only user
(`UsedAlone`), and the checks before a request are made in the state in which
it starts. That `RingService` and `ThreadPort` both keep `RequestPort` says
that the two models of the port agree on it; it does not say that every
behaviour of `ThreadPort` is one that `RingService` allows.

`ShutGateIsOpened` and `LockGoesToWaiters` are the safety half of `WaitsEnd`,
and hold without fairness: a gate that is shut has a timer that is due or will
be when the wait is over, or the native client's own (a denial replaces the
timers by one for the new `globalRetryAt`, however many were pending); the queue of the lock has exactly the calls that wait for
it, each once, also after one is torn out of its middle.

`RecordingsProofs`. `GrantOnce` rests on `RequestInv`: a request has at most
one live retrieval, its grant stays used, and what was purged has expired.
`AckedHasRecording` and `SweepCleans` need one receiver at a time (`~Beside`;
the finding shows that they need it) and `SpoolInv`: what a sweep has read is
not older than the rows, what it has listed spares every row, a delivery that
is past its rename has its file, and the list still holds whatever an earlier
process left.

`AdmissionProofs`. `HandoffInv` says who may work: `OneWorks`, `TableTrue`
(table and handlers agree with the phases), `StopperAlone` (a task that stops
is the only one that moves), `StuckIsFinal`, `TurnIsFree`, `FutureBlank`.
`SoleService` follows. For `ThreadPolicy` it is enough that the marker is the
highest reset that took effect (`MarkerIsLast`).

`WatchdogProofs`. The invariant `Safe` follows a run from place to place.
`PlaceOK` says which locals are filled where. `OldGone` says when each process
of the replaced generation is gone, and that it stays so: its id may be used
again, but not with the recorded start time, as long as a record names it
(`FreshStart`). `OwnBridge` says that the only receivers for the hostname of a
full recovery are its own, which is why an answer to the probe names the
receiver to commit. `Undoing` says what an undoing is done with, or has noted
as failed; `HostnameFound` says that until the new hostname is written the
runtime file, and from then on the local `original`, is what was found, from
which `FailuresUndone` follows. `StopsStayDown` needs that one hostname has
one home (`OneHome`: nobody serves the committed hostname but the supervisor on
record and the cloudflared it left) and that nothing but a run starts a process
(`NoneComes`). That no step but a start can lose a process is one lemma
(`AccountedKept`): a record may be dropped only when its process is not there
or was given up.

`WatchdogKeepsIngress` is the refinement, shown for each step of a run and each
event around it. It needs `Safe` and one fact more (`Differs`): a full recovery
never takes up the hostname it is about to replace, since otherwise its commit
would look like that of a receiver alone. From the abstract side follows
`NoSecondOnRecord`: at most one live receiver and one live supervisor among
what manifest and run name, in every state.

`RunsAreShort` is the safety half of `RunsEnd`. `Height` numbers the places of
a run by their distance from the end, undoing included, and `Left` refines it
by the signal that comes next; every step of a run lowers `Left`, no event
around it raises it, and it is between 0 and 47. `RunsEnd` adds that a run
which may take a step takes it, which is where the fairness comes in.

Assumptions on the constants, all checked by TLC on every run: numbers,
limits and bounds are naturals; an approval lasts at least one tick; delays
are positive and, for the service, closed under letting time pass; `None` is
no number and no name; a temporary file is named like no recording; every
connection has an adapter; `None` is no manifest.

Every safety property of the passing runs is proved. Only model-checked: the
liveness properties (`StopEnds`, `ApprovalsEnd`, `WaitsEnd`, `ExpiredGoes`,
`NewestActivates`, `RunsEnd`, `Recovers`); for the first, third and sixth the
theorems above prove the part that needs no fairness. Out of the prover's
reach: anything under fairness or with ENABLED, induction over data, and
RECURSIVE operators (there are none).

## 6. Abstractions, and what is not modelled

- One scope (guild, channel, approver), the configured one. Checks against
  another scope are left out, and so are the schema migrations.
- In RingService a bucket may refuse at any moment, and `CreateBlocked` and
  the refusals stand for floors and latch; ThreadPort has these themselves. A
  native global Event without an end gives a wait of one tick there.
- ThreadPort: checks of arguments, library versions and the native cache
  refuse a call before it starts and are left out. One card and its thread.
  `owner` is never cleared, as in the code: a name that moves to another route
  makes every later answer with it a collision.
- The clock does not go back.
- Card edits of `reconcile` (no durable state), notices, playback, rendering,
  private replies.
- Nothing in the package edits a captures row under a live request, so
  `RowChanged` acts in RelayStore alone.
- Admission has one capture; what a reset does to the rows of others is
  RelayStore's matter. The text that a routed reply imports is data.
- Repository: the tables and methods of the older worker
  (`repository.py:370-451`, `465-724`) have no caller in this repository.
- Thread validation is a set of pure predicates over Discord's objects, whose
  verdict is a nondeterministic outcome. The health file is written by one
  process and read by a command that only reports. Setup prepares files one
  command at a time and nothing else reads its intermediate states. The
  successor health probe only reports.
- Watchdog: `preflight`, file ownership and permissions, malformed files, the
  transcript parser and a missing database (every run fails then). The look
  at a process and the signal after it are one step: an id is not reused in
  between. The public route of a live cloudflared works; that it may fail for
  a moment is a fault of the run, that it stays down is outside the model.

## 7. Findings

`README.md:34` of the package says: "The watchdog sends a notice to the
configured Discord channel if recovery changes the URL." When the look that
`recover` takes after the commit fails (`management.py:175`), or the job's
limit of 180 s ends the run there, the job prints that the check failed and
not the URL. The generation is committed, so the next run finds it healthy,
reports `ring_url_rebind` as unknown and prints nothing: the changed URL is
never sent. `hermes pebble status` does show it. Run `watchdog_notice` gives
the shortest history.

`repository.py:278` says of the sweep: "Delete local audio with no durable
capture reference after a crash." The sweep runs when a `Repository` is made,
before the receiver tries its port (`serve_receiver.py:12`), and it reads the
rows before it lists the directory. A receiver that is started while another
one serves, for instance by a watchdog run that follows a killed one, can read
the rows, and then list and delete the file of a capture that the other has
written, committed and acknowledged in between. It then finds the port taken
and exits; the row keeps naming a file that is gone, and nothing crashed. Run
`recordings_beside` gives the shortest history.

## 8. Plan

1. A variant for `ApprovalsEnd` as there is one for `RunsEnd`: what every pass
   over an approval uses up, and that nothing gives it back.
2. The same for the purge and the replacement tasks.
3. `ThreadPort` and `RingService` closer together: a port that allows every
   behaviour of `ThreadPort`, refusals by floor and latch included, and that
   `RingService` is proved to work with.
