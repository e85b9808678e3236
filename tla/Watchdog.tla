------------------------------ MODULE Watchdog ------------------------------
(***************************************************************************)
(* The ingress watchdog, scripts/pebble_quick_tunnel_watchdog.py, with the *)
(* two commands of pebble_bridge/management.py that drive it (`recover`,   *)
(* which the cron job calls every five minutes, and `stop-ingress`) and    *)
(* the processes it starts and stops: the receiver ("bridge") and the      *)
(* tunnel supervisor with its cloudflared child.                           *)
(*                                                                         *)
(* One run holds the watchdog lock at a time; a second one that finds it   *)
(* taken returns without effect.  A run is killed anywhere by the cron     *)
(* job's own time limit; what it started lives on.  A supervisor's nonce   *)
(* and its tunnel's hostname are both new with every supervisor, so one    *)
(* token, the tunnel, stands for both.                                     *)
(***************************************************************************)
EXTENDS Naturals, FiniteSets

CONSTANTS
  Pids,       \* process ids, which the kernel uses again
  Starts,     \* start times, which tell two processes of one id apart
  Tunnels,    \* the hostname and nonce of a supervisor
  None,
  MaxStray,   \* bound: processes left behind that are alive at once
  Counted,    \* whether the faults of a behaviour are counted, and
  MaxFaults   \* bound: how many there are then

ASSUME BoundsAssumption ==
  /\ Starts \subseteq Nat /\ Tunnels \subseteq Nat
  /\ MaxStray \in Nat /\ Counted \in BOOLEAN /\ MaxFaults \in Nat
  /\ None \notin Pids \cup Nat \cup [pid : Pids, start : Starts]

VARIABLES
  procs,      \* the process, or rest of a process group, at each id
  port,       \* the id of the receiver that listens on port 8765
  manifest,   \* manifest.json: the committed generation, or None
  ready,      \* ready.json: the tunnel that has been published, or None
  runtime,    \* .pebble-runtime.env: the hostname a new receiver accepts
  run,        \* the locals and the place of the run that holds the lock
  told,       \* what the operator knows of the URL (history)
  faults      \* the faults so far, if they are counted

vars == <<procs, port, manifest, ready, runtime, run, told, faults>>
files == <<manifest, ready, runtime>>

Bootstrap == 0  \* the hostname setup writes before there is a tunnel

Record == [pid : Pids, start : Starts]
Manifest == [tunnel : Tunnels, bridge : Record, supervisor : Record]
ASSUME ManifestAssumption == None \notin Manifest

Classes == {"none", "owned", "gone", "conflict"}
Parts == {"bridge", "supervisor", "runtime"}
Roles == {"none", "bridge", "scanning", "supervising", "cloudflared", "foreign"}
StopPlaces == {"stopBridge", "stopSupervisor", "cleanBridge", "cleanSupervisor"}
Places == StopPlaces \cup
  {"idle", "prepare", "remove", "spawnSupervisor", "await", "rewrite",
   "spawnBridge", "health", "probe", "commit", "restore", "cleanReady", "groups"}

Free == [role |-> "none", start |-> None, tunnel |-> None, orphan |-> FALSE]

(* A run that has ended with outcome o; also the locals of a new run.  Two  *)
(* of them are history: the hostname that a full recovery has found, and   *)
(* the parts whose undoing has failed.                                     *)
Ended(o) ==
  [pc |-> "idle", mode |-> "none", stage |-> "term", post |-> FALSE,
   bridgeClass |-> "none", supervisorClass |-> "none", tunnel |-> None,
   bridge |-> None, supervisor |-> None, original |-> None,
   answered |-> None, found |-> None, left |-> {}, outcome |-> o]

Init ==
  /\ procs = [p \in Pids |-> Free]
  /\ port = None
  /\ manifest = None
  /\ ready = None
  /\ runtime = Bootstrap
  /\ run = Ended("none")
  /\ told = "unbound"
  /\ faults = 0

(* A fault: a process that ends by itself, an operation that fails though  *)
(* it could work, a run that is killed, an operator who stops the ingress. *)
(* A failure that has its cause in the state is not one.                   *)
calm == Counted /\ faults = MaxFaults
Fault == ~calm /\ faults' = IF Counted THEN faults + 1 ELSE faults
FaultUnless(cause) == IF cause THEN UNCHANGED faults ELSE Fault

-----------------------------------------------------------------------------
(* Processes.                                                              *)

Supervisors == {"scanning", "supervising"}

(* observe_process finds a live group leader; a cloudflared that outlived  *)
(* its supervisor is in the group and is not its leader.                   *)
Leader(p) == procs[p].role \in Supervisors \cup {"bridge", "foreign"}

(* classify_process: the id, the start time and the exact argv, which      *)
(* holds a supervisor's nonce.                                             *)
IsBridge(r) ==
  procs[r.pid].start = r.start /\ procs[r.pid].role = "bridge"
IsSupervisor(r, t) ==
  procs[r.pid].start = r.start /\ procs[r.pid].role \in Supervisors
    /\ procs[r.pid].tunnel = t
(* Wrong on purpose: a conflict under a name that nothing asks for.        *)
ClassifiedForeign(r, owned) ==
  IF r = None THEN "none"
  ELSE IF ~Leader(r.pid) THEN "gone" ELSE IF owned THEN "owned" ELSE "foreign"
Classified(r, owned) ==
  IF r = None THEN "none"
  ELSE IF ~Leader(r.pid) THEN "gone" ELSE IF owned THEN "owned" ELSE "conflict"
BridgeClass(r) == Classified(r, IsBridge(r))
SupervisorClass(r, t) == Classified(r, IsSupervisor(r, t))

Stray(ps) == {p \in Pids : ps[p].orphan \/ ps[p].role = "cloudflared"}

(* The process of id p exits; its cloudflared may stay for a while.        *)
Exited(p, lingers) ==
  [procs EXCEPT ![p] = IF lingers /\ @.role \in Supervisors
                       THEN [@ EXCEPT !.role = "cloudflared", !.orphan = FALSE]
                       ELSE Free]
Exits(p) ==
  \E lingers \in BOOLEAN :
    /\ procs' = Exited(p, lingers)
    /\ Cardinality(Stray(procs')) <= MaxStray
    /\ port' = IF port = p THEN None ELSE port

(* Every record that some file or some local holds.                        *)
Records ==
  ({run.bridge, run.supervisor} \cup
     (IF manifest = None THEN {} ELSE {manifest.bridge, manifest.supervisor}))
    \ {None}

(* A start time, or a tunnel, that nothing knows: the least one, since     *)
(* only equality is ever asked of them.                                    *)
Fresh(x, all, used) == x \in all \ used /\ \A y \in all \ used : x <= y
FreshStart(p, s) == Fresh(s, Starts, {r.start : r \in {q \in Records : q.pid = p}})
FreshTunnel(t) ==
  Fresh(t, Tunnels, {ready, runtime, run.tunnel, run.original}
    \cup {procs[p].tunnel : p \in Pids}
    \cup (IF manifest = None THEN {} ELSE {manifest.tunnel}))

Spawned(p, role, s, t) ==
  [procs EXCEPT ![p] = [role |-> role, start |-> s, tunnel |-> t, orphan |-> FALSE]]

TunnelUp(t) ==
  \E p \in Pids : procs[p].tunnel = t /\ procs[p].role \in Supervisors \cup {"cloudflared"}

(* GET answers 405 whoever listens; the authenticated POST answers 204     *)
(* only for the hostname the listening receiver was started with.          *)
Serves(t) == port # None /\ TunnelUp(t)
\* Wrong on purpose: any receiver's answer is taken for one of the hostname's.
AcceptsAny(t) == Serves(t)
Accepts(t) == Serves(t) /\ procs[port].tunnel = t

(* The receiver binds its port or, when another one has it, exits.         *)
Listen(p) ==
  /\ procs[p].role = "bridge" /\ port = None
  /\ port' = p
  /\ UNCHANGED <<procs, files, run, told, faults>>
BindFails(p) ==
  /\ procs[p].role = "bridge" /\ port \notin {None, p}
  /\ procs' = [procs EXCEPT ![p] = Free]
  /\ UNCHANGED <<port, files, run, told, faults>>

(* A supervisor has read one origin within its startup window.             *)
PublishReadiness(p) ==
  /\ procs[p].role = "scanning"
  /\ procs' = [procs EXCEPT ![p].role = "supervising"]
  /\ ready' = procs[p].tunnel
  /\ UNCHANGED <<port, manifest, runtime, run, told, faults>>

(* Any process may end by itself: a receiver that fails, a cloudflared     *)
(* that ends and its supervisor with it, a startup window without exactly  *)
(* one origin, the host's other programs.                                  *)
ProcessExits(p) ==
  /\ Leader(p)
  /\ Exits(p) /\ Fault
  /\ UNCHANGED <<files, run, told>>

(* A cloudflared without its supervisor ends: it has had a TERM, or nobody *)
(* reads its output any more.                                              *)
CloudflaredEnds(p) ==
  /\ procs[p].role = "cloudflared"
  /\ procs' = [procs EXCEPT ![p] = Free]
  /\ UNCHANGED <<port, files, run, told, faults>>

(* The kernel gives an id that a record names to some other program.       *)
IdReused(p) ==
  /\ procs[p] = Free /\ \E r \in Records : r.pid = p
  /\ procs' = [procs EXCEPT ![p].role = "foreign"]
  /\ Fault
  /\ UNCHANGED <<port, files, run, told>>

-----------------------------------------------------------------------------
(* A run: management.recover or management.stop_ingress.                   *)

Go(pc) == run' = [run EXCEPT !.pc = pc, !.stage = "term"]
End(o) == run' = Ended(o)

(* An exception: recover_full and recover_bridge_only undo what they       *)
(* began; before they begin and after they commit there is nothing to undo.*)
\* Wrong on purpose: only a full recovery undoes what it began.
UndoesFull == run.mode = "full" /\ ~run.post /\ run.pc # "remove"
Undoes == run.mode \in {"bridge", "full"} /\ ~run.post /\ run.pc # "remove"
AfterRaise(r) ==
  IF Undoes THEN [r EXCEPT !.pc = "cleanBridge", !.stage = "term"] ELSE Ended("failed")
Raise == run' = AfterRaise(run)

Begin(mode) ==
  /\ run.pc = "idle"
  /\ FaultUnless(mode = "recover")
  /\ run' = [Ended("none") EXCEPT !.pc = "prepare", !.mode = mode]
  /\ UNCHANGED <<procs, port, files, told>>

Bound == manifest # None
Matches == Bound /\ runtime = manifest.tunnel /\ ready = manifest.tunnel
ManifestBridge == IF Bound THEN BridgeClass(manifest.bridge) ELSE "none"
ManifestSupervisor ==
  IF Bound THEN SupervisorClass(manifest.supervisor, manifest.tunnel) ELSE "none"
\* Wrong on purpose: a generation without its supervisor is only verified.
MayVerifyBridge == Matches /\ ManifestBridge = "owned"
MayVerify == Matches /\ ManifestBridge = "owned" /\ ManifestSupervisor = "owned"
\* Wrong on purpose: a receiver is replaced whether or not it is gone.
MayReplaceBridgeUnseen == Matches /\ ManifestSupervisor = "owned"
MayReplaceBridge == Matches /\ ManifestBridge = "gone" /\ ManifestSupervisor = "owned"

(* What a run does next when it has found no conflict.                     *)
Decided ==
  \/ /\ run.mode # "stop" /\ MayVerify
     /\ run' = [run EXCEPT !.pc = "health", !.tunnel = manifest.tunnel,
                           !.mode = IF run.post THEN @ ELSE "verify"]
  \/ run.post /\ ~MayVerify /\ Raise
  \/ /\ run.mode = "recover" /\ MayReplaceBridge
     /\ run' = [run EXCEPT !.pc = "spawnBridge", !.mode = "bridge",
                           !.tunnel = manifest.tunnel, !.supervisor = manifest.supervisor]
  \/ /\ run.mode = "recover" /\ ~MayVerify /\ ~MayReplaceBridge
     /\ \E t \in Tunnels :
          /\ FreshTunnel(t)
          /\ run' = [run EXCEPT !.pc = "remove", !.mode = "full", !.tunnel = t,
                                !.found = runtime,
                                !.bridgeClass = ManifestBridge,
                                !.supervisorClass = ManifestSupervisor]
  \/ run.mode = "stop" /\ ~Bound /\ End("failed")
  \/ /\ run.mode = "stop" /\ Bound
     /\ run' = [run EXCEPT !.pc = "stopBridge", !.bridgeClass = ManifestBridge,
                           !.supervisorClass = ManifestSupervisor]

(* prepare_controller, and the decisions of run_watchdog, verify_healthy,  *)
(* recover_bridge_only and stop_ingress from what it found.                *)
Conflict == "conflict" \in {ManifestBridge, ManifestSupervisor}
Prepare ==
  /\ run.pc = "prepare"
  /\ \/ Raise /\ FaultUnless(Conflict)
     \/ ~Conflict /\ Decided /\ UNCHANGED faults
  /\ UNCHANGED <<procs, port, files, told>>

(* remove_readiness, first and last in recover_full.                       *)
RemoveReadiness ==
  /\ run.pc \in {"remove", "cleanReady"}
  /\ \/ /\ ready' = None /\ UNCHANGED faults
        /\ IF run.pc = "remove" THEN Go("stopBridge") ELSE End("failed")
     \/ Fault /\ End("failed") /\ UNCHANGED ready
  /\ UNCHANGED <<procs, port, manifest, runtime, told>>

(* The process a stop is about, None when there is nothing to stop.  Old   *)
(* processes are stopped only if they were found owned.                    *)
StopRecord ==
  CASE run.pc = "stopBridge" -> IF run.bridgeClass = "owned" THEN manifest.bridge ELSE None
    [] run.pc = "stopSupervisor" -> IF run.supervisorClass = "owned" THEN manifest.supervisor ELSE None
    [] run.pc = "cleanBridge" -> run.bridge
    [] run.pc = "cleanSupervisor" -> run.supervisor
StopClass ==
  CASE run.pc \in {"stopBridge", "cleanBridge"} -> BridgeClass(StopRecord)
    [] run.pc = "stopSupervisor" -> SupervisorClass(StopRecord, manifest.tunnel)
    [] run.pc = "cleanSupervisor" -> SupervisorClass(StopRecord, run.tunnel)

\* Wrong on purpose: the old supervisor is left to itself.
AfterStopBridge ==
  CASE run.pc = "stopBridge" -> IF run.mode = "stop" THEN "stopSupervisor" ELSE "spawnSupervisor"
    [] run.pc = "stopSupervisor" -> "groups"
    [] run.pc = "cleanBridge" -> IF run.mode = "bridge" THEN "idle" ELSE "cleanSupervisor"
    [] run.pc = "cleanSupervisor" -> "restore"
\* Wrong on purpose: the undoing leaves the new hostname in the runtime file.
AfterStopUnrestored ==
  CASE run.pc = "stopBridge" -> "stopSupervisor"
    [] run.pc = "stopSupervisor" -> IF run.mode = "stop" THEN "groups" ELSE "spawnSupervisor"
    [] run.pc = "cleanBridge" -> IF run.mode = "bridge" THEN "idle" ELSE "cleanSupervisor"
    [] run.pc = "cleanSupervisor" -> "cleanReady"

(* The order of recover_full and stop_ingress, and of the former's undoing;*)
(* "idle" stands for the end of a run that has failed.                     *)
AfterStop ==
  CASE run.pc = "stopBridge" -> "stopSupervisor"
    [] run.pc = "stopSupervisor" -> IF run.mode = "stop" THEN "groups" ELSE "spawnSupervisor"
    [] run.pc = "cleanBridge" -> IF run.mode = "bridge" THEN "idle" ELSE "cleanSupervisor"
    [] run.pc = "cleanSupervisor" -> "restore"
Continued(r, pc) ==
  IF pc = "idle" THEN Ended("failed") ELSE [r EXCEPT !.pc = pc, !.stage = "term"]

(* A stop that raises: an error for the run, but the undoing only notes it *)
(* and goes on.                                                            *)
StopPart == IF run.pc = "cleanBridge" THEN "bridge" ELSE "supervisor"
StopRaised ==
  IF run.pc \in {"cleanBridge", "cleanSupervisor"}
  THEN Continued([run EXCEPT !.left = @ \cup {StopPart}], AfterStop)
  ELSE AfterRaise(run)

(* Processes of the run that no file names and no local will name any more.*)
LeftBehind(records) ==
  LET named == IF Bound THEN {manifest.bridge, manifest.supervisor} ELSE {}
  IN  [p \in Pids |->
        IF procs[p].role \in Supervisors \cup {"bridge"}
             /\ [pid |-> p, start |-> procs[p].start] \in records \ named
        THEN [procs[p] EXCEPT !.orphan = TRUE] ELSE procs[p]]

(* stop_owned_process: classify, TERM, classify for a second, KILL,        *)
(* classify for another second.  A signal fails when the process has gone  *)
(* since it was classified.                                                *)
StopDone ==
  /\ StopClass \in {"none", "gone"}
  /\ run' = Continued(run, AfterStop)
  /\ UNCHANGED <<procs, port, faults>>
\* Wrong on purpose: KILL goes out without a second look at the process.
MaySignalTwice ==
  /\ StopRecord # None /\ run.stage # "last"
  /\ StopClass = "owned" \/ run.stage = "kill"
MaySignal == StopClass = "owned" /\ run.stage # "last"
Signal ==
  /\ MaySignal
  /\ run' = [run EXCEPT !.stage = IF @ = "term" THEN "kill" ELSE "last"]
  /\ \/ Exits(StopRecord.pid) /\ UNCHANGED faults
     \/ FaultUnless(run.stage = "term") /\ UNCHANGED <<procs, port>>
StopGivesUp ==
  /\ StopRecord # None
  /\ FaultUnless(StopClass \in {"gone", "conflict"} \/ (StopClass = "owned" /\ run.stage = "last"))
  /\ run' = StopRaised
  /\ procs' = LeftBehind(IF run.pc \in {"cleanBridge", "cleanSupervisor"}
                         THEN {StopRecord} ELSE {})
  /\ Cardinality(Stray(procs')) <= MaxStray
  /\ UNCHANGED port
StopProcess ==
  /\ run.pc \in StopPlaces
  /\ StopDone \/ Signal \/ StopGivesUp
  /\ UNCHANGED <<files, told>>

(* start_supervisor does not stop a child it cannot observe; start_bridge  *)
(* does, unless that fails too.                                            *)
SpawnFails(role, t) ==
  /\ Raise
  /\ \/ FaultUnless(\A p \in Pids : procs[p] # Free) /\ UNCHANGED procs
     \/ \E p \in Pids, s \in Starts :
          /\ Fault
          /\ procs[p] = Free /\ FreshStart(p, s)
          /\ procs' = [Spawned(p, role, s, t) EXCEPT ![p].orphan = TRUE]
          /\ Cardinality(Stray(procs')) <= MaxStray

SpawnSupervisor ==
  /\ run.pc = "spawnSupervisor"
  /\ \/ \E p \in Pids, s \in Starts :
          /\ procs[p] = Free /\ FreshStart(p, s)
          /\ procs' = Spawned(p, "scanning", s, run.tunnel)
          /\ run' = [run EXCEPT !.pc = "await", !.supervisor = [pid |-> p, start |-> s]]
          /\ UNCHANGED faults
     \/ SpawnFails("scanning", run.tunnel)
  /\ UNCHANGED <<port, files, told>>

\* Wrong on purpose: the wait for readiness has no deadline.
AwaitReadinessForever ==
  /\ run.pc = "await"
  /\ \/ ready = run.tunnel /\ Go("rewrite")
     \/ ready \notin {None, run.tunnel} /\ Raise
     \/ ready = None /\ UNCHANGED run  \* the next poll
  /\ UNCHANGED <<procs, port, files, told, faults>>

(* wait_for_readiness: only an absent record is waited for.                *)
AwaitReadiness ==
  /\ run.pc = "await"
  /\ \/ ready = run.tunnel /\ Go("rewrite") /\ UNCHANGED faults
     \/ ready \notin {None, run.tunnel} /\ Raise /\ UNCHANGED faults
     \/ /\ ready = None /\ Raise
        /\ FaultUnless(\A p \in Pids : procs[p].role = "scanning" => procs[p].tunnel # run.tunnel)
  /\ UNCHANGED <<procs, port, files, told>>

(* rewrite_runtime_hostname; a write may fail after it has replaced the    *)
(* file, when the directory cannot be synchronized.                        *)
RewriteRuntime ==
  /\ run.pc = "rewrite"
  /\ \/ /\ runtime' = run.tunnel
        /\ run' = [run EXCEPT !.pc = "spawnBridge", !.original = runtime]
        /\ UNCHANGED faults
     \/ Fault /\ Raise /\ runtime' \in {runtime, run.tunnel}
  /\ UNCHANGED <<procs, port, manifest, ready, told>>

(* start_bridge: the launcher reads the runtime file and becomes the       *)
(* receiver, which has yet to bind its port.                               *)
SpawnBridge ==
  /\ run.pc = "spawnBridge"
  /\ \/ \E p \in Pids, s \in Starts :
          /\ procs[p] = Free /\ FreshStart(p, s)
          /\ procs' = Spawned(p, "bridge", s, runtime)
          /\ run' = [run EXCEPT !.pc = "health", !.bridge = [pid |-> p, start |-> s]]
          /\ UNCHANGED faults
     \/ SpawnFails("bridge", runtime)
  /\ UNCHANGED <<port, files, told>>

(* prove_health waits for the receiver to bind.                            *)
ProveHealth ==
  /\ run.pc = "health"
  /\ \/ Serves(run.tunnel) /\ Go("probe") /\ UNCHANGED faults
     \/ /\ Raise
        /\ FaultUnless(~TunnelUp(run.tunnel) \/ \A p \in Pids : procs[p].role # "bridge")
  /\ UNCHANGED <<procs, port, files, told>>

(* prove_authenticated_no_capture; it also fails when a real capture comes *)
(* in between.  A generation that is proved after its commit, or without   *)
(* one, is reported; the URL is reported when this run has replaced it, or *)
(* by setup.                                                               *)
Verified == run.post \/ run.mode = "verify"
ProbeAnswered ==
  /\ Accepts(run.tunnel)
  /\ IF Verified
     THEN /\ End("verified")
          /\ told' = IF run.mode = "full" \/ told = "unbound" THEN "current" ELSE told
     ELSE /\ run' = [run EXCEPT !.pc = "commit",
                               !.answered = [pid |-> port, start |-> procs[port].start]]
          /\ UNCHANGED told
Probe ==
  /\ run.pc = "probe"
  /\ \/ ProbeAnswered /\ UNCHANGED faults
     \/ Raise /\ FaultUnless(~Accepts(run.tunnel)) /\ UNCHANGED told
  /\ UNCHANGED <<procs, port, files>>

(* commit_manifest, after which management looks again.                    *)
NewManifest == [tunnel |-> run.tunnel, bridge |-> run.bridge, supervisor |-> run.supervisor]
Commit ==
  /\ run.pc = "commit"
  /\ \/ /\ manifest' = NewManifest
        /\ run' = [Ended("none") EXCEPT !.pc = "prepare", !.mode = run.mode, !.post = TRUE]
        /\ UNCHANGED faults
     \/ Fault /\ Raise /\ manifest' \in {manifest, NewManifest}
  /\ told' = IF manifest' = manifest \/ run.mode = "bridge" \/ told = "unbound" THEN told ELSE "stale"
  /\ UNCHANGED <<procs, port, ready, runtime>>

(* restore_runtime, in the undoing.                                        *)
RestoreRuntime ==
  /\ run.pc = "restore"
  /\ \/ /\ runtime' = IF run.original = None THEN runtime ELSE run.original
        /\ Go("cleanReady") /\ UNCHANGED faults
     \/ /\ Fault /\ run.original # None /\ runtime' \in {runtime, run.original}
        /\ run' = [run EXCEPT !.pc = "cleanReady", !.left = @ \cup {"runtime"}]
  /\ UNCHANGED <<procs, port, manifest, ready, told>>

(* stop_ingress looks at both process groups until both are gone or a      *)
(* second has passed.  The id may be that of another program by now.       *)
\* Wrong on purpose: a group is taken for gone with its leader.
GroupGoneWithLeader(p) == procs[p].role \notin Supervisors \cup {"bridge"}
GroupGone(p) == procs[p].role \in {"none", "foreign"}
GroupsGone == GroupGone(manifest.bridge.pid) /\ GroupGone(manifest.supervisor.pid)
ObserveGroups ==
  /\ run.pc = "groups"
  /\ \/ GroupsGone /\ End("stopped") /\ UNCHANGED faults
     \/ End("failed") /\ FaultUnless(~GroupsGone)
  /\ UNCHANGED <<procs, port, files, told>>

(* The run is killed, by the time limit of pebble_watchdog_job or with the *)
(* host's scheduler.  The lock goes with it.                               *)
Killed ==
  /\ run.pc # "idle"
  /\ procs' = LeftBehind({run.bridge, run.supervisor})
  /\ Cardinality(Stray(procs')) <= MaxStray
  /\ End("killed") /\ Fault
  /\ UNCHANGED <<port, files, told>>

Step ==
  \/ Prepare \/ RemoveReadiness \/ StopProcess \/ SpawnSupervisor
  \/ AwaitReadiness \/ RewriteRuntime \/ SpawnBridge \/ ProveHealth
  \/ Probe \/ Commit \/ RestoreRuntime \/ ObserveGroups

Next ==
  \/ Begin("recover") \/ Begin("stop") \/ Step \/ Killed
  \/ \E p \in Pids :
       Listen(p) \/ BindFails(p) \/ PublishReadiness(p)
         \/ ProcessExits(p) \/ CloudflaredEnds(p) \/ IdReused(p)

Spec == Init /\ [][Next]_vars

(* Fairness: a run goes on, because each of its waits has a deadline; the  *)
(* cron job starts runs; a receiver binds or exits; a supervisor reads its *)
(* origin; a cloudflared left alone ends.                                  *)
Fairness ==
  /\ WF_vars(Step) /\ WF_vars(Begin("recover"))
  /\ \A p \in Pids : /\ WF_vars(Listen(p) \/ BindFails(p))
                     /\ WF_vars(PublishReadiness(p)) /\ WF_vars(CloudflaredEnds(p))

FairSpec == Spec /\ Fairness

-----------------------------------------------------------------------------
(* Properties.                                                             *)

(* Every variable holds what its file or its process can hold.             *)
TypeOK ==
  /\ procs \in [Pids -> [role : Roles, start : Starts \cup {None},
                         tunnel : Tunnels \cup {Bootstrap, None}, orphan : BOOLEAN]]
  /\ port \in Pids \cup {None}
  /\ manifest \in Manifest \cup {None}
  /\ ready \in Tunnels \cup {None}
  /\ runtime \in Tunnels \cup {Bootstrap}
  /\ run.pc \in Places /\ run.stage \in {"term", "kill", "last"}
  /\ run.mode \in {"none", "recover", "stop", "verify", "bridge", "full"}
  /\ run.post \in BOOLEAN /\ run.left \subseteq Parts
  /\ run.bridgeClass \in Classes /\ run.supervisorClass \in Classes
  /\ run.tunnel \in Tunnels \cup {None}
  /\ {run.original, run.found} \subseteq Tunnels \cup {Bootstrap, None}
  /\ {run.bridge, run.supervisor, run.answered} \subseteq Record \cup {None}
  /\ run.outcome \in {"none", "verified", "stopped", "failed", "killed"}
  /\ told \in {"unbound", "stale", "current"}
  /\ faults \in 0 .. MaxFaults

Alive(r) ==
  /\ procs[r.pid].start = r.start
  /\ procs[r.pid].role \in Supervisors \cup {"bridge"}

(* Every receiver and supervisor that lives is named by the manifest or by *)
(* the run at work, unless a run was killed or gave up on it: recovery     *)
(* never loses track of a process it started, however it fails.            *)
Accounted ==
  \A p \in Pids :
    procs[p].role \in Supervisors \cup {"bridge"} /\ ~procs[p].orphan
      => \E r \in Records : r.pid = p /\ r.start = procs[p].start

(* The ingress without its files and ids: the hostname of a recovery while *)
(* it goes forward, and the parts that the manifest or the run has on      *)
(* record.  A part that both have is the manifest's.                       *)
Forward ==
  /\ run.mode \in {"bridge", "full"} /\ ~run.post
  /\ run.pc \notin {"cleanBridge", "cleanSupervisor", "restore", "cleanReady"}
Hostname == IF Bound THEN manifest.tunnel ELSE None
Planned == IF Forward THEN run.tunnel ELSE None
Answered == run.pc = "commit"
Serving == {part \in {"bridge", "supervisor"} : Bound /\ Alive(manifest[part])}
Coming ==
  {part \in {"bridge", "supervisor"} :
     /\ run[part] # None /\ Alive(run[part])
     /\ Bound => run[part] # manifest[part]}

Ingress == INSTANCE Ingress
             WITH committed <- Hostname, serving <- Serving, planned <- Planned,
                  coming <- Coming, answered <- Answered

(* Whatever ends, fails or is killed in between, recovery keeps the        *)
(* promise of Ingress: at no time two receivers or two supervisors on      *)
(* record, and no new process beside one of the old generation.            *)
KeepsIngress == Ingress!Spec

(* A run signals only the instance it has a record of: a process whose id  *)
(* was used again while the run waited is left alone, and so is whatever   *)
(* another run left behind.  (A look and the signal after it are one step  *)
(* here; an id that is used again between the two is not covered.)         *)
OnlyRecordedAreStopped ==
  [][\A p \in Pids :
       /\ run' # run /\ procs[p].role \notin {"none", "cloudflared"}
       /\ procs'[p].role # procs[p].role
       => [pid |-> p, start |-> procs[p].start] \in Records]_vars

(* When a full recovery commits, both processes of the generation it       *)
(* replaces are gone: two generations never run side by side.              *)
ReplacedAreGone ==
  [][Bound /\ manifest'.tunnel # manifest.tunnel
       => ~Alive(manifest.bridge) /\ ~Alive(manifest.supervisor)]_vars

(* What a full recovery commits is what has answered its probe, even while *)
(* a receiver of a killed run still holds the port.                        *)
CommittedHasAnswered ==
  [][manifest' # manifest /\ run.mode = "full" => run.answered = manifest'.bridge]_vars

(* A full recovery that fails once it has begun undoes each part by itself: *)
(* whatever else could not be undone, the receiver and the supervisor that *)
(* it has on record are gone unless their own stop has failed, and the     *)
(* runtime file has the hostname that was found there unless the writing   *)
(* of it has failed: restoring it, or putting the new one, which then      *)
(* stays when the file was replaced before the error.                      *)
FailureUndoes ==
  [][/\ run.mode = "full" /\ ~run.post
     /\ run.pc # "remove" /\ run'.outcome = "failed"
     => /\ \A part \in {"bridge", "supervisor"} \ run.left :
             run[part] # None => ~Alive(run[part])
        /\ \/ runtime' = run.found \/ "runtime" \in run.left
           \/ run.original = None /\ runtime' = run.tunnel]_vars

(* "ingress-stopped" means that the ingress is down and stays down until a *)
(* next run: neither the supervisor of the generation nor a cloudflared    *)
(* serves its hostname, under whatever id, and no process on its record    *)
(* lives.                                                                  *)
StoppedIsDown ==
  run.outcome = "stopped" =>
    /\ ~TunnelUp(manifest.tunnel)
    /\ ~Alive(manifest.bridge) /\ ~Alive(manifest.supervisor)

(* A run that prints no URL leaves the operator with the right one: the    *)
(* claim that a notice is sent if recovery changes the URL.                *)
ChangesAnnounced == run.outcome = "verified" => told = "current"

(* Every run ends, whatever the processes and the network do.              *)
RunsEnd == (run.pc # "idle") ~> (run.pc = "idle")

(* Once no more faults come, the cron job restores the ingress for good,   *)
(* whatever crashes and failed recoveries came before: unless a receiver   *)
(* left behind by a killed run lives on, or the id of a recorded process   *)
(* belongs to another program.                                             *)
Healthy ==
  /\ Matches /\ IsBridge(manifest.bridge) /\ port = manifest.bridge.pid
  /\ IsSupervisor(manifest.supervisor, manifest.tunnel)
Recoverable ==
  /\ calm
  /\ \A p \in Pids : procs[p].role = "bridge" => ~procs[p].orphan
  /\ ~Conflict
Recovers == <>[]Recoverable => <>[]Healthy
=============================================================================
