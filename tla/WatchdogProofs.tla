---------------------------- MODULE WatchdogProofs ----------------------------
(***************************************************************************)
(* The safety of recovery, for any number of process ids, start times,     *)
(* tunnels and faults.  The invariant says which locals a run has filled   *)
(* at which place, and what has become of the processes it is about: those *)
(* of the generation it replaces, its own, and those it is undoing.  It    *)
(* rests on start times: an id that a record names may be used again, but  *)
(* not with the recorded start.                                            *)
(***************************************************************************)
EXTENDS Watchdog, TLAPS

WorkRoles == Supervisors \cup {"bridge"}

Process == [role : Roles, start : Starts \cup {None},
            tunnel : Tunnels \cup {Bootstrap, None}, orphan : BOOLEAN]
Locals ==
  [pc : Places, mode : {"none", "recover", "stop", "verify", "bridge", "full"},
   stage : {"term", "kill", "last"}, post : BOOLEAN,
   bridgeClass : Classes, supervisorClass : Classes,
   tunnel : Tunnels \cup {None},
   bridge : Record \cup {None}, supervisor : Record \cup {None},
   original : Tunnels \cup {Bootstrap, None}, answered : Record \cup {None},
   found : Tunnels \cup {Bootstrap, None}, left : SUBSET Parts,
   outcome : {"none", "verified", "stopped", "failed", "killed"}]

\* TypeOK, with the locals as a record.
Typed ==
  /\ procs \in [Pids -> Process]
  /\ port \in Pids \cup {None}
  /\ manifest \in Manifest \cup {None}
  /\ ready \in Tunnels \cup {None}
  /\ runtime \in Tunnels \cup {Bootstrap}
  /\ run \in Locals
  /\ told \in {"unbound", "stale", "current"}
  /\ faults \in 0 .. MaxFaults

ProcessOK(p) ==
  /\ procs[p].role \in WorkRoles => procs[p].start \in Starts
  /\ procs[p].role \in Supervisors => procs[p].tunnel \in Tunnels
  /\ port = p => procs[p].role = "bridge"

\* The locals that are filled at each place.
NoRecords == run.bridge = None /\ run.supervisor = None
Recovering == run.mode \in {"bridge", "full"} /\ ~run.post
InFull == run.mode = "full" /\ ~run.post

OldPlaces == {"remove", "stopBridge", "stopSupervisor"}
BeforeBridge == OldPlaces \cup {"spawnSupervisor", "await", "rewrite", "spawnBridge"}
ProofPlaces == {"health", "probe", "commit"}
UndoPlaces == {"cleanSupervisor", "restore", "cleanReady"}

PlaceOK ==
  /\ run.pc = "idle" => run.mode = "none" /\ NoRecords
  /\ run.pc # "idle" => run.outcome = "none"
  /\ run.pc = "prepare" =>
       /\ NoRecords
       /\ run.mode \in IF run.post THEN {"bridge", "full"} ELSE {"recover", "stop"}
  /\ run.pc \in {"remove", "spawnSupervisor"} => InFull /\ NoRecords
  /\ run.pc \in {"stopBridge", "stopSupervisor"} =>
       /\ NoRecords
       /\ InFull \/ (run.mode = "stop" /\ Bound)
       /\ "owned" \in {run.bridgeClass, run.supervisorClass} => Bound
  /\ run.pc = "remove" =>
       ("owned" \in {run.bridgeClass, run.supervisorClass} => Bound)
  /\ run.pc \in {"await", "rewrite"} => InFull
  /\ run.pc \in {"await", "rewrite", "spawnBridge"} =>
       run.bridge = None /\ run.supervisor # None
  /\ run.pc \in {"spawnBridge", "commit", "cleanBridge"} => Recovering
  /\ run.pc \in {"health", "probe"} => Recovering \/ (Verified /\ NoRecords)
  /\ run.pc \in ProofPlaces /\ Recovering =>
       run.bridge # None /\ run.supervisor # None
  /\ run.pc \in UndoPlaces => InFull
  /\ run.pc = "groups" => run.mode = "stop" /\ Bound /\ NoRecords
  /\ Recovering \/ run.pc \in ProofPlaces => run.tunnel \in Tunnels
  /\ run.mode = "bridge" /\ ~run.post =>
       /\ Bound
       /\ run.supervisor = manifest.supervisor /\ run.tunnel = manifest.tunnel

\* The generation that the run replaces.
OldGone ==
  /\ InFull /\ Bound =>
       /\ run.pc \in {"remove", "stopBridge"} =>
            run.bridgeClass = "owned" \/ ~Alive(manifest.bridge)
       /\ run.pc \in OldPlaces =>
            run.supervisorClass = "owned" \/ ~Alive(manifest.supervisor)
       /\ run.pc \in (BeforeBridge \ {"remove", "stopBridge"}) \cup ProofPlaces =>
            ~Alive(manifest.bridge)
       /\ run.pc \in (BeforeBridge \ OldPlaces) \cup ProofPlaces =>
            ~Alive(manifest.supervisor)
  /\ run.mode = "bridge" /\ run.pc \in {"spawnBridge"} \cup ProofPlaces /\ ~run.post =>
       ~Alive(manifest.bridge)

\* The receivers that were started for the hostname of a full recovery.
OwnBridge ==
  InFull =>
    /\ run.pc \in BeforeBridge =>
         \A p \in Pids : procs[p].role = "bridge" => procs[p].tunnel # run.tunnel
    /\ run.pc = "spawnBridge" => runtime = run.tunnel
    /\ run.pc \in ProofPlaces =>
         \A p \in Pids :
           procs[p].role = "bridge" /\ procs[p].tunnel = run.tunnel =>
             run.bridge = [pid |-> p, start |-> procs[p].start]
    /\ run.pc = "commit" => run.answered = run.bridge

\* A process of the run that the undoing is done with.
Named == IF Bound THEN {manifest.bridge, manifest.supervisor} ELSE {}
Undone(part) ==
  run[part] # None /\ Alive(run[part]) =>
    /\ procs[run[part].pid].orphan \/ run[part] \in Named
    /\ part \in run.left

Undoing ==
  /\ run.pc \in UndoPlaces => Undone("bridge")
  /\ run.pc \in {"restore", "cleanReady"} => Undone("supervisor")
  /\ run.pc = "cleanReady" /\ run.original # None =>
       "runtime" \in run.left \/ runtime = run.original

Safe ==
  /\ Typed
  /\ \A p \in Pids : ProcessOK(p)
  /\ PlaceOK
  /\ OldGone
  /\ OwnBridge
  /\ Undoing
  /\ Accounted

-----------------------------------------------------------------------------
(* Processes.                                                              *)

\* No process appears, and none changes what it is.
Kept ==
  \A p \in Pids :
    procs'[p].role \in WorkRoles =>
      /\ procs[p].role \in WorkRoles
      /\ procs'[p].role = "bridge" <=> procs[p].role = "bridge"
      /\ procs'[p].start = procs[p].start
      /\ procs'[p].tunnel = procs[p].tunnel
      /\ procs[p].orphan => procs'[p].orphan

\* The processes and the port of the next state are what they should be.
ProcsFit ==
  /\ procs' \in [Pids -> Process]
  /\ port' \in Pids \cup {None}
  /\ \A p \in Pids : ProcessOK(p)'

AliveNext(r) == procs'[r.pid].start = r.start /\ procs'[r.pid].role \in WorkRoles

LEMMA RoleSets ==
  /\ WorkRoles = {"scanning", "supervising", "bridge"}
  /\ Supervisors = {"scanning", "supervising"}
  /\ WorkRoles \subseteq Roles
BY DEF WorkRoles, Supervisors, Roles

LEMMA FreeFits == Free \in Process
BY DEF Free, Process, Roles

LEMMA StillFits ==
  ASSUME Safe, UNCHANGED <<procs, port>>
  PROVE  Kept /\ ProcsFit
BY DEF Safe, Typed, Kept, ProcsFit, ProcessOK

LEMMA ExitFits ==
  ASSUME Safe, NEW q \in Pids, Exits(q)
  PROVE  Kept /\ ProcsFit
<1> DEFINE rest == [procs[q] EXCEPT !.role = "cloudflared", !.orphan = FALSE]
<1>1. PICK lingers \in BOOLEAN : procs' = Exited(q, lingers)
  BY DEF Exits
<1>2. procs[q] \in Process
  BY DEF Safe, Typed
<1>3. rest \in Process /\ rest.role = "cloudflared"
  BY <1>2 DEF Process, Roles
<1>4. procs' = [procs EXCEPT ![q] = rest] \/ procs' = [procs EXCEPT ![q] = Free]
  BY <1>1 DEF Exited
<1>5. /\ procs' \in [Pids -> Process]
      /\ \A p \in Pids \ {q} : procs'[p] = procs[p]
      /\ procs'[q].role \in {"none", "cloudflared"}
  <2>1. PICK new \in Process : /\ procs' = [procs EXCEPT ![q] = new]
                               /\ new.role \in {"none", "cloudflared"}
    <3>1. Free.role = "none"
      BY DEF Free
    <3>2. QED
      BY <1>3, <1>4, <3>1, FreeFits, Zenon
  <2>2. QED
    BY <2>1 DEF Safe, Typed
<1>6. Kept
  BY <1>5, RoleSets DEF Kept
<1>7. port' = IF port = q THEN None ELSE port
  BY DEF Exits
<1>8. port' \in Pids \cup {None} /\ port' # q
  BY <1>7, BoundsAssumption DEF Safe, Typed
<1>9. ASSUME NEW p \in Pids
      PROVE  ProcessOK(p)'
  BY <1>5, <1>7, <1>8, RoleSets, BoundsAssumption DEF Safe, ProcessOK
<1>10. QED
  BY <1>5, <1>6, <1>8, <1>9 DEF ProcsFit

LEMMA LeftFits ==
  ASSUME Safe, NEW records, procs' = LeftBehind(records), port' = port
  PROVE  /\ Kept /\ ProcsFit
         /\ \A r \in records \cap Record :
              AliveNext(r) => procs'[r.pid].orphan \/ r \in Named
<1>1. ASSUME NEW p \in Pids
      PROVE  /\ procs'[p] \in Process
             /\ procs'[p].role = procs[p].role
             /\ procs'[p].start = procs[p].start
             /\ procs'[p].tunnel = procs[p].tunnel
             /\ procs[p].orphan => procs'[p].orphan
             /\ procs[p].role \in WorkRoles
                  /\ [pid |-> p, start |-> procs[p].start] \in records \ Named
                  => procs'[p].orphan
  <2>1. procs[p] \in Process
    BY DEF Safe, Typed
  <2>2. procs'[p] = procs[p] \/ procs'[p] = [procs[p] EXCEPT !.orphan = TRUE]
    BY DEF LeftBehind
  <2>3. procs[p].role \in WorkRoles
           /\ [pid |-> p, start |-> procs[p].start] \in records \ Named
          => procs'[p] = [procs[p] EXCEPT !.orphan = TRUE]
    BY DEF LeftBehind, Named, WorkRoles
  <2>4. QED
    BY <2>1, <2>2, <2>3 DEF Process
<1>2. procs' \in [Pids -> Process]
  BY <1>1 DEF LeftBehind
<1>3. Kept
  BY <1>1 DEF Kept
<1>4. ASSUME NEW p \in Pids
      PROVE  ProcessOK(p)'
  BY <1>1 DEF Safe, ProcessOK
<1>5. ASSUME NEW r \in records \cap Record, AliveNext(r)
      PROVE  procs'[r.pid].orphan \/ r \in Named
  <2>1. r.pid \in Pids /\ r = [pid |-> r.pid, start |-> r.start]
    BY DEF Record
  <2>2. /\ procs[r.pid].role \in WorkRoles
        /\ r = [pid |-> r.pid, start |-> procs[r.pid].start]
    BY <1>1, <1>5, <2>1 DEF AliveNext
  <2>3. r \notin Named => procs'[r.pid].orphan
    BY <1>1, <2>1, <2>2
  <2>4. QED
    BY <2>3
<1>6. QED
  BY <1>2, <1>3, <1>4, <1>5 DEF ProcsFit, Safe, Typed

\* A spawn: the new process, and the others as they were.
Spawn(p, role, s, t, orphan) ==
  /\ procs[p] = Free /\ FreshStart(p, s)
  /\ procs' = [procs EXCEPT ![p] = [role |-> role, start |-> s, tunnel |-> t,
                                    orphan |-> orphan]]

LEMMA SpawnFits ==
  ASSUME Safe, NEW q \in Pids, NEW s \in Starts,
         NEW role \in {"bridge", "scanning"},
         NEW t \in Tunnels \cup {Bootstrap, None},
         role = "scanning" => t \in Tunnels,
         NEW orphan \in BOOLEAN, Spawn(q, role, s, t, orphan), port' = port
  PROVE  /\ ProcsFit
         /\ \A p \in Pids \ {q} : procs'[p] = procs[p]
         /\ procs'[q] = [role |-> role, start |-> s, tunnel |-> t, orphan |-> orphan]
         /\ \A r \in Records : AliveNext(r) => Alive(r)
<1> DEFINE new == [role |-> role, start |-> s, tunnel |-> t, orphan |-> orphan]
<1>1. new \in Process
  BY DEF Process, Roles
<1>2. /\ procs' \in [Pids -> Process]
      /\ \A p \in Pids \ {q} : procs'[p] = procs[p]
      /\ procs'[q] = new
  BY <1>1 DEF Spawn, Safe, Typed
<1>3. port # q
  BY DEF Spawn, Safe, ProcessOK, Free
<1>4. ASSUME NEW p \in Pids
      PROVE  ProcessOK(p)'
  <2>1. CASE p = q
    BY <1>2, <1>3, <2>1, RoleSets DEF ProcessOK
  <2>2. CASE p # q
    BY <1>2, <2>2 DEF Safe, ProcessOK
  <2>3. QED
    BY <2>1, <2>2
<1>5. ASSUME NEW r \in Records, AliveNext(r)
      PROVE  Alive(r)
  <2>1. r \in Record
    BY DEF Records, Safe, Typed, Locals, Manifest
  <2>2. CASE r.pid = q
    BY <1>2, <1>5, <2>2 DEF AliveNext, Spawn, FreshStart, Fresh
  <2>3. CASE r.pid # q
    BY <1>2, <1>5, <2>1, <2>3 DEF AliveNext, Alive, Record, WorkRoles
  <2>4. QED
    BY <2>2, <2>3
<1>6. QED
  BY <1>2, <1>4, <1>5 DEF ProcsFit, Safe, Typed

-----------------------------------------------------------------------------
(* What the steps of a run have in common.                                 *)

\* The files and the histories of the next state.
FilesFit ==
  /\ manifest' \in Manifest \cup {None}
  /\ ready' \in Tunnels \cup {None}
  /\ runtime' \in Tunnels \cup {Bootstrap}
  /\ told' \in {"unbound", "stale", "current"}
  /\ faults' \in 0 .. MaxFaults

LEMMA TypesFit ==
  ASSUME ProcsFit, FilesFit, run' \in Locals
  PROVE  Typed' /\ \A p \in Pids : ProcessOK(p)'
BY DEF ProcsFit, FilesFit, Typed

LEMMA FaultCounts ==
  ASSUME Safe, Fault \/ UNCHANGED faults
  PROVE  faults' \in 0 .. MaxFaults
BY BoundsAssumption DEF Safe, Typed, Fault, calm

LEMMA UnlessCounts ==
  ASSUME Safe, NEW cause, FaultUnless(cause)
  PROVE  faults' \in 0 .. MaxFaults
BY FaultCounts DEF FaultUnless

LEMMA RecordsTyped ==
  ASSUME Safe
  PROVE  /\ Records \subseteq Record
         /\ run.bridge # None => run.bridge \in Records
         /\ run.supervisor # None => run.supervisor \in Records
         /\ Bound => {manifest.bridge, manifest.supervisor} \subseteq Records
         /\ Named \subseteq Records
BY BoundsAssumption
   DEF Records, Safe, Typed, Locals, Manifest, Bound, Named, Record

LEMMA KeptAlive ==
  ASSUME Kept, NEW r \in Record, AliveNext(r)
  PROVE  Alive(r) /\ (procs[r.pid].orphan => procs'[r.pid].orphan)
BY DEF Kept, AliveNext, Alive, Record, WorkRoles

\* A record may be dropped when its process is not there, or was given up.
LEMMA AccountedKept ==
  ASSUME Safe, Kept,
         \A r \in Records :
           AliveNext(r) => r \in Records' \/ procs'[r.pid].orphan
  PROVE  Accounted'
<1> SUFFICES ASSUME NEW p \in Pids, procs'[p].role \in WorkRoles,
                    ~procs'[p].orphan
             PROVE  \E r \in Records' : r.pid = p /\ r.start = procs'[p].start
  BY DEF Accounted, WorkRoles
<1>1. /\ procs[p].role \in WorkRoles /\ ~procs[p].orphan
      /\ procs'[p].start = procs[p].start
  BY DEF Kept
<1>2. PICK r \in Records : r.pid = p /\ r.start = procs[p].start
  BY <1>1 DEF Safe, Accounted, WorkRoles
<1>3. AliveNext(r)
  BY <1>1, <1>2 DEF AliveNext
<1>4. QED
  BY <1>1, <1>2, <1>3

UndoneNext(part) ==
  run[part] # None /\ AliveNext(run[part]) =>
    /\ procs'[run[part].pid].orphan \/ run[part] \in Named
    /\ part \in run'.left

LEMMA UndoneKept ==
  ASSUME Safe, Kept, run.left \subseteq run'.left,
         NEW part \in {"bridge", "supervisor"}, Undone(part)
  PROVE  UndoneNext(part)
<1> DEFINE r == run[part]
<1>1. r \in Record \cup {None}
  BY DEF Safe, Typed, Locals
<1>2. r # None /\ AliveNext(r) =>
        Alive(r) /\ (procs[r.pid].orphan => procs'[r.pid].orphan)
  BY <1>1, KeptAlive
<1>3. QED
  BY <1>2 DEF Undone, UndoneNext

\* All that the invariant says of the locals.
SameLocals ==
  /\ run' \in Locals
  /\ run'.pc = run.pc /\ run'.mode = run.mode /\ run'.post = run.post
  /\ run'.bridge = run.bridge /\ run'.supervisor = run.supervisor
  /\ run'.tunnel = run.tunnel /\ run'.outcome = run.outcome
  /\ run'.bridgeClass = run.bridgeClass
  /\ run'.supervisorClass = run.supervisorClass
  /\ run'.original = run.original /\ run'.answered = run.answered
  /\ run'.found = run.found /\ run'.left = run.left

\* Steps of processes, under a run that stays where it is.
LEMMA OutsideKeeps ==
  ASSUME Safe, Kept, ProcsFit, FilesFit,
         UNCHANGED <<manifest, runtime>>, SameLocals
  PROVE  Safe'
<1>1. Typed' /\ \A p \in Pids : ProcessOK(p)'
  BY TypesFit DEF SameLocals
<1>2. PlaceOK'
  BY DEF Safe, SameLocals, PlaceOK, NoRecords, InFull, Recovering, Verified, Bound
<1>3. ASSUME NEW r \in Records
      PROVE  ~Alive(r) => ~AliveNext(r)
  BY KeptAlive, RecordsTyped
<1>4. OldGone'
  <2>1. Bound => /\ ~Alive(manifest.bridge) => ~AliveNext(manifest.bridge)
                 /\ ~Alive(manifest.supervisor) => ~AliveNext(manifest.supervisor)
    BY <1>3, RecordsTyped
  <2>2. run.mode = "bridge" /\ ~run.post => Bound
    BY DEF Safe, PlaceOK
  <2>3. QED
    BY <2>1, <2>2
       DEF Safe, SameLocals, OldGone, InFull, Bound, Alive, AliveNext, WorkRoles
<1>5. OwnBridge'
  <2>1. ASSUME NEW p \in Pids, procs'[p].role = "bridge"
        PROVE  /\ procs[p].role = "bridge"
               /\ procs'[p].tunnel = procs[p].tunnel
               /\ procs'[p].start = procs[p].start
    BY <2>1 DEF Kept, WorkRoles
  <2>2. QED
    BY <2>1 DEF Safe, SameLocals, OwnBridge, InFull
<1>6. Undoing'
  <2>1. /\ Undone("bridge") => UndoneNext("bridge")
        /\ Undone("supervisor") => UndoneNext("supervisor")
    BY UndoneKept DEF SameLocals, Safe, Typed, Locals
  <2>2. QED
    BY <2>1 DEF Safe, SameLocals, Undoing, Undone, UndoneNext, Alive, AliveNext,
                WorkRoles, Named, Bound
<1>7. Accounted'
  <2>1. Records' = Records
    BY DEF Records, SameLocals
  <2>2. QED
    BY <2>1, AccountedKept
<1>8. QED
  BY <1>1, <1>2, <1>4, <1>5, <1>6, <1>7 DEF Safe

\* A run that ends forgets everything.
LEMMA EndKeeps ==
  ASSUME ProcsFit, FilesFit, Accounted',
         NEW o \in {"none", "verified", "stopped", "failed", "killed"},
         run' = Ended(o)
  PROVE  Safe'
<1>1. run' \in Locals
  BY DEF Ended, Locals, Places, Classes
<1>2. /\ run'.pc = "idle" /\ run'.mode = "none"
      /\ run'.bridge = None /\ run'.supervisor = None
  BY DEF Ended
<1>3. PlaceOK'
  BY <1>2 DEF PlaceOK, NoRecords, InFull, Recovering, ProofPlaces, UndoPlaces
<1>4. OldGone' /\ OwnBridge'
  BY <1>2 DEF OldGone, OwnBridge, InFull
<1>5. Undoing'
  BY <1>2 DEF Undoing, UndoPlaces
<1>6. QED
  BY <1>1, <1>3, <1>4, <1>5, TypesFit DEF Safe

\* What a raised error leaves: the undoing, or the end of a run that had
\* nothing to undo.
LEMMA RaiseCases ==
  ASSUME Safe, run.pc # "idle", Raise
  PROVE  \/ run' = Ended("failed") /\ NoRecords
         \/ /\ Recovering
            /\ run' = [run EXCEPT !.pc = "cleanBridge", !.stage = "term"]
<1>1. Undoes => Recovering
  BY DEF Undoes, Recovering
<1>2. ~Undoes => NoRecords
  BY DEF Undoes, Safe, PlaceOK, InFull, Recovering, Typed, Locals, Places,
         StopPlaces, ProofPlaces, UndoPlaces
<1>3. QED
  BY <1>1, <1>2 DEF Raise, AfterRaise

LEMMA CleanKeeps ==
  ASSUME Safe, ProcsFit, FilesFit, Accounted', Recovering,
         run' = [run EXCEPT !.pc = "cleanBridge", !.stage = "term"],
         run.mode = "bridge" =>
           /\ manifest' # None
           /\ manifest'.supervisor = run.supervisor
           /\ manifest'.tunnel = run.tunnel
  PROVE  Safe'
<1>1. run \in Locals
  BY DEF Safe, Typed
<1>2. run' \in Locals
  BY <1>1 DEF Locals, Places, StopPlaces
<1>3. /\ run'.pc = "cleanBridge" /\ run'.mode = run.mode /\ run'.post = run.post
      /\ run'.supervisor = run.supervisor /\ run'.tunnel = run.tunnel
      /\ run'.outcome = run.outcome
  BY <1>1 DEF Locals
<1>4. run.outcome = "none" /\ run.tunnel \in Tunnels
  BY DEF Safe, PlaceOK, Recovering
<1>5. PlaceOK'
  BY <1>3, <1>4
     DEF PlaceOK, Recovering, ProofPlaces, UndoPlaces, Bound
<1>6. OldGone' /\ OwnBridge'
  BY <1>3 DEF OldGone, OwnBridge, BeforeBridge, OldPlaces, ProofPlaces
<1>7. Undoing'
  BY <1>3 DEF Undoing, UndoPlaces
<1>8. QED
  BY <1>2, <1>5, <1>6, <1>7, TypesFit DEF Safe

LEMMA RaiseKeeps ==
  ASSUME Safe, run.pc # "idle", ProcsFit, FilesFit, Raise, Accounted',
         manifest' = manifest
  PROVE  Safe'
<1>1. CASE run' = Ended("failed")
  BY <1>1, EndKeeps
<1>2. CASE /\ Recovering
           /\ run' = [run EXCEPT !.pc = "cleanBridge", !.stage = "term"]
  BY <1>2, CleanKeeps DEF Safe, PlaceOK, Recovering, Bound
<1>3. QED
  BY <1>1, <1>2, RaiseCases

\* An error in a step that starts no process and commits nothing.
LEMMA PlainRaiseKeeps ==
  ASSUME Safe, run.pc # "idle", Kept, ProcsFit, FilesFit, Raise,
         manifest' = manifest
  PROVE  Safe'
<1>1. Records' = Records
  <2>1. CASE run' = Ended("failed") /\ NoRecords
    BY <2>1 DEF Ended, Records, NoRecords
  <2>2. CASE run' = [run EXCEPT !.pc = "cleanBridge", !.stage = "term"]
    BY <2>2 DEF Records, Safe, Typed, Locals
  <2>3. QED
    BY <2>1, <2>2, RaiseCases
<1>2. Accounted'
  BY <1>1, AccountedKept
<1>3. QED
  BY <1>2, RaiseKeeps

LEMMA FilesStay ==
  ASSUME Safe, UNCHANGED <<files, told>>, faults' \in 0 .. MaxFaults
  PROVE  FilesFit
BY DEF Safe, Typed, files, FilesFit

\* A step that leaves processes and manifest alone and drops no record.
LEMMA AccountedSame ==
  ASSUME Safe, UNCHANGED <<procs, port>>, Records \subseteq Records'
  PROVE  Accounted'
BY AccountedKept, StillFits

LEMMA BeginKeeps ==
  ASSUME Safe, NEW mode \in {"recover", "stop"}, Begin(mode)
  PROVE  Safe'
<1>1. FilesFit /\ ProcsFit
  BY UnlessCounts, FilesStay, StillFits DEF Begin, files
<1>2. run' = [Ended("none") EXCEPT !.pc = "prepare", !.mode = mode]
  BY DEF Begin
<1>3. /\ run'.pc = "prepare" /\ run'.mode = mode /\ run'.post = FALSE
      /\ run'.bridge = None /\ run'.supervisor = None /\ run'.outcome = "none"
  BY <1>2 DEF Ended
<1>4. run' \in Locals
  BY <1>2 DEF Ended, Locals, Places, Classes
<1>5. PlaceOK'
  BY <1>3 DEF PlaceOK, NoRecords, InFull, Recovering, ProofPlaces, UndoPlaces
<1>6. OldGone' /\ OwnBridge' /\ Undoing'
  BY <1>3 DEF OldGone, OwnBridge, InFull, Undoing, UndoPlaces
<1>7. Accounted'
  <2>1. NoRecords
    BY DEF Begin, Safe, PlaceOK
  <2>2. Records' = Records
    BY <1>3, <2>1 DEF Records, NoRecords, Begin, files
  <2>3. QED
    BY <2>2, AccountedSame DEF Begin
<1>8. QED
  BY <1>1, <1>4, <1>5, <1>6, <1>7, TypesFit DEF Safe

-----------------------------------------------------------------------------
(* What a run finds, and what it decides.                                  *)

\* A process that is not there any more is not alive, and one that is owned
\* has the recorded start.
LEMMA ClassMeans ==
  ASSUME NEW r \in Record \cup {None}, NEW owned \in BOOLEAN
  PROVE  /\ Classified(r, owned) \in Classes
         /\ r # None => Classified(r, owned) # "none"
         /\ Classified(r, owned) = "gone" => r # None /\ ~Alive(r)
         /\ Classified(r, owned) = "owned" => r # None /\ owned
BY DEF Classified, Classes, Leader, Alive

LEMMA FoundClasses ==
  ASSUME Safe
  PROVE  /\ ManifestBridge \in Classes /\ ManifestSupervisor \in Classes
         /\ ManifestBridge = "owned" => Bound
         /\ ManifestSupervisor = "owned" => Bound
         /\ Bound /\ ManifestBridge \notin {"owned", "conflict"} =>
              ~Alive(manifest.bridge)
         /\ Bound /\ ManifestSupervisor \notin {"owned", "conflict"} =>
              ~Alive(manifest.supervisor)
<1>1. CASE ~Bound
  BY <1>1 DEF ManifestBridge, ManifestSupervisor, Classes
<1>2. CASE Bound
  <2>1. /\ manifest.bridge \in Record /\ manifest.supervisor \in Record
        /\ None \notin Record
    BY <1>2, BoundsAssumption DEF Safe, Typed, Bound, Manifest, Record
  <2>2. /\ IsBridge(manifest.bridge) \in BOOLEAN
        /\ IsSupervisor(manifest.supervisor, manifest.tunnel) \in BOOLEAN
    BY DEF IsBridge, IsSupervisor
  <2>3. /\ ManifestBridge = Classified(manifest.bridge, IsBridge(manifest.bridge))
        /\ ManifestSupervisor =
             Classified(manifest.supervisor,
                        IsSupervisor(manifest.supervisor, manifest.tunnel))
    BY <1>2 DEF ManifestBridge, ManifestSupervisor, BridgeClass, SupervisorClass
  <2>4. QED
    BY <1>2, <2>1, <2>2, <2>3, ClassMeans DEF Classes
<1>3. QED
  BY <1>1, <1>2

LEMMA PrepareKeeps ==
  ASSUME Safe, Prepare
  PROVE  Safe'
<1>1. ProcsFit /\ Kept /\ FilesFit
  BY UnlessCounts, FaultCounts, FilesStay, StillFits DEF Prepare, files
<1>2. /\ NoRecords /\ run \in Locals /\ run.pc = "prepare" /\ run.outcome = "none"
      /\ run.mode \in IF run.post THEN {"bridge", "full"} ELSE {"recover", "stop"}
  BY DEF Prepare, Safe, PlaceOK, Typed
<1>3. Named \subseteq Records /\ Records = Named
  BY <1>2, RecordsTyped, BoundsAssumption
     DEF NoRecords, Records, Named, Safe, Typed, Bound, Manifest, Record
<1>4. ASSUME Named \subseteq Records'
      PROVE  Accounted'
  BY <1>3, <1>4, AccountedSame DEF Prepare
<1>5. /\ manifest' = manifest /\ runtime' = runtime /\ procs' = procs
      /\ Bound' = Bound
  BY DEF Prepare, files, Bound
<1>6. Bound => /\ manifest \in Manifest
               /\ manifest.tunnel \in Tunnels /\ manifest.bridge \in Record
               /\ manifest.supervisor \in Record /\ manifest.supervisor # None
  BY BoundsAssumption DEF Safe, Typed, Bound, Manifest, Record
<1>7. Named \subseteq Records'
  BY <1>5, <1>6, BoundsAssumption DEF Named, Records, Bound, Manifest, Record
<1>8. CASE Raise
  BY <1>1, <1>2, <1>5, <1>8, PlainRaiseKeeps
<1>9. CASE End("failed")
  BY <1>1, <1>4, <1>7, <1>9, EndKeeps DEF End
<1>10. CASE /\ MayVerify
            /\ run' = [run EXCEPT !.pc = "health", !.tunnel = manifest.tunnel,
                                  !.mode = IF run.post THEN @ ELSE "verify"]
  <2>1. Bound
    BY <1>10 DEF MayVerify, Matches
  <2>2. run' \in Locals
    <3> DEFINE mode == IF run.post THEN run.mode ELSE "verify"
    <3>1. run' = [run EXCEPT !.pc = "health", !.tunnel = manifest.tunnel,
                             !.mode = mode]
      BY <1>10
    <3>2. mode \in {"none", "recover", "stop", "verify", "bridge", "full"}
      BY <1>2
    <3> HIDE DEF mode
    <3>3. QED
      BY <1>2, <1>6, <2>1, <3>1, <3>2 DEF Locals, Places
  <2>3. /\ run'.pc = "health" /\ run'.tunnel \in Tunnels
        /\ run'.bridge = None /\ run'.supervisor = None
        /\ run'.post = run.post /\ run'.outcome = "none"
        /\ run'.mode = IF run.post THEN run.mode ELSE "verify"
    BY <1>2, <1>6, <1>10, <2>1 DEF Locals, NoRecords
  <2>4. run'.post \/ run'.mode = "verify"
    BY <2>3
  <2>5. PlaceOK'
    BY <2>3, <2>4
       DEF PlaceOK, NoRecords, Recovering, Verified, ProofPlaces, UndoPlaces
  <2>6. OldGone' /\ OwnBridge' /\ Undoing'
    BY <2>3, <2>4 DEF OldGone, OwnBridge, InFull, Undoing, UndoPlaces
  <2>7. QED
    BY <1>1, <1>4, <1>7, <2>2, <2>5, <2>6, TypesFit DEF Safe
<1>11. CASE /\ run.mode = "recover" /\ MayReplaceBridge /\ ~Conflict
            /\ run' = [run EXCEPT !.pc = "spawnBridge", !.mode = "bridge",
                                  !.tunnel = manifest.tunnel,
                                  !.supervisor = manifest.supervisor]
  <2>1. Bound /\ ~Alive(manifest.bridge)
    BY <1>11, FoundClasses DEF MayReplaceBridge, Matches
  <2>2. run' \in Locals
    BY <1>2, <1>6, <1>11, <2>1 DEF Locals, Places
  <2>3. /\ run'.pc = "spawnBridge" /\ run'.mode = "bridge" /\ run'.post = run.post
        /\ run'.tunnel = manifest.tunnel /\ run'.supervisor = manifest.supervisor
        /\ run'.bridge = None /\ run'.outcome = "none"
    BY <1>2, <1>11 DEF Locals, NoRecords
  <2>4. run'.post = FALSE
    BY <1>2, <1>11, <2>3 DEF Locals
  <2>5. PlaceOK'
    BY <1>5, <1>6, <2>1, <2>3, <2>4
       DEF PlaceOK, NoRecords, Recovering, ProofPlaces, UndoPlaces
  <2>6. OldGone'
    BY <1>5, <2>1, <2>3 DEF OldGone, InFull, Alive
  <2>7. OwnBridge' /\ Undoing'
    BY <2>3 DEF OwnBridge, InFull, Undoing, UndoPlaces
  <2>8. QED
    BY <1>1, <1>4, <1>7, <2>2, <2>5, <2>6, <2>7, TypesFit DEF Safe
<1>12. ASSUME NEW t \in Tunnels, FreshTunnel(t), run.mode = "recover", ~Conflict,
              run' = [run EXCEPT !.pc = "remove", !.mode = "full", !.tunnel = t,
                                 !.found = runtime,
                                 !.bridgeClass = ManifestBridge,
                                 !.supervisorClass = ManifestSupervisor]
       PROVE  Safe'
  <2>1. run' \in Locals
    <3>1. runtime \in Tunnels \cup {Bootstrap, None}
      BY DEF Safe, Typed
    <3>2. QED
      BY <1>2, <1>12, <3>1, FoundClasses DEF Locals, Places
  <2>2. /\ run'.pc = "remove" /\ run'.mode = "full" /\ run'.post = run.post
        /\ run'.tunnel = t /\ run'.supervisor = None /\ run'.bridge = None
        /\ run'.outcome = "none" /\ run'.bridgeClass = ManifestBridge
        /\ run'.supervisorClass = ManifestSupervisor
    BY <1>2, <1>12 DEF Locals, NoRecords
  <2>3. run'.post = FALSE
    BY <1>2, <1>12, <2>2 DEF Locals
  <2>4. PlaceOK'
    BY <1>5, <2>2, <2>3, FoundClasses
       DEF PlaceOK, NoRecords, InFull, Recovering, ProofPlaces, UndoPlaces
  <2>5. ManifestBridge # "conflict" /\ ManifestSupervisor # "conflict"
    BY <1>12 DEF Conflict
  <2>6. OldGone'
    BY <1>5, <2>2, <2>5, FoundClasses
       DEF OldGone, InFull, Alive, BeforeBridge, OldPlaces, ProofPlaces
  <2>7. \A p \in Pids : procs[p].tunnel # t
    BY <1>12 DEF FreshTunnel, Fresh
  <2>8. OwnBridge' /\ Undoing'
    BY <1>5, <2>2, <2>7
       DEF OwnBridge, InFull, ProofPlaces, Undoing, UndoPlaces
  <2>9. QED
    BY <1>1, <1>4, <1>7, <2>1, <2>4, <2>6, <2>8, TypesFit DEF Safe
<1>13. CASE /\ run.mode = "stop" /\ Bound
            /\ run' = [run EXCEPT !.pc = "stopBridge", !.bridgeClass = ManifestBridge,
                                  !.supervisorClass = ManifestSupervisor]
  <2>1. run' \in Locals
    BY <1>2, <1>13, FoundClasses DEF Locals, Places, StopPlaces
  <2>2. /\ run'.pc = "stopBridge" /\ run'.mode = "stop"
        /\ run'.supervisor = None /\ run'.bridge = None /\ run'.outcome = "none"
    BY <1>2, <1>13 DEF Locals, NoRecords
  <2>3. PlaceOK'
    BY <1>5, <1>13, <2>2
       DEF PlaceOK, NoRecords, InFull, Recovering, ProofPlaces, UndoPlaces
  <2>4. OldGone' /\ OwnBridge' /\ Undoing'
    BY <2>2 DEF OldGone, OwnBridge, InFull, Undoing, UndoPlaces
  <2>5. QED
    BY <1>1, <1>4, <1>7, <2>1, <2>3, <2>4, TypesFit DEF Safe
<1>14. QED
  BY <1>8, <1>9, <1>10, <1>11, <1>12, <1>13 DEF Prepare, Decided

-----------------------------------------------------------------------------
(* Stops, of the old generation and of what the run has started.           *)

\* A step of the run that only changes its place.
LEMMA Moves ==
  ASSUME Safe, NEW pc \in Places, NEW stage \in {"term", "kill", "last"},
         run' = [run EXCEPT !.pc = pc, !.stage = stage]
  PROVE  /\ run' \in Locals
         /\ run'.pc = pc /\ run'.mode = run.mode /\ run'.post = run.post
         /\ run'.bridge = run.bridge /\ run'.supervisor = run.supervisor
         /\ run'.tunnel = run.tunnel /\ run'.outcome = run.outcome
         /\ run'.bridgeClass = run.bridgeClass
         /\ run'.supervisorClass = run.supervisorClass
         /\ run'.original = run.original /\ run'.answered = run.answered
         /\ run'.found = run.found /\ run'.left = run.left
BY DEF Safe, Typed, Locals

LEMMA RemoveReadinessKeeps ==
  ASSUME Safe, RemoveReadiness
  PROVE  Safe'
<1>1. ProcsFit /\ Kept
  BY StillFits DEF RemoveReadiness
<1>2. FilesFit
  BY FaultCounts DEF RemoveReadiness, FilesFit, Safe, Typed
<1>3. run.pc \in {"remove", "cleanReady"} /\ UNCHANGED <<procs, port, manifest, runtime>>
  BY DEF RemoveReadiness
<1>4. CASE End("failed")
  <2>1. run' = Ended("failed")
    BY <1>4 DEF End
  <2>2. Undone("bridge") /\ Undone("supervisor")
    BY <1>3 DEF Safe, PlaceOK, NoRecords, Undoing, Undone, UndoPlaces
  <2>3. Named \subseteq Records'
    BY <1>3, RecordsTyped, BoundsAssumption
       DEF Named, Records, Bound, Safe, Typed, Manifest, Record
  <2>4. ASSUME NEW r \in Records, AliveNext(r)
        PROVE  r \in Records' \/ procs'[r.pid].orphan
    <3>1. Alive(r)
      BY <1>1, <2>4, KeptAlive, RecordsTyped
    <3>2. r # None /\ (r \in Named \/ r = run.bridge \/ r = run.supervisor)
      BY DEF Records, Named, Bound
    <3>3. QED
      BY <1>3, <2>2, <2>3, <3>1, <3>2 DEF Undone
  <2>5. QED
    BY <1>1, <1>2, <2>1, <2>4, AccountedKept, EndKeeps
<1>5. CASE run.pc = "remove" /\ Go("stopBridge")
  <2>1. run' = [run EXCEPT !.pc = "stopBridge", !.stage = "term"]
    BY <1>5 DEF Go
  <2>2. Records' = Records
    BY <1>3, <2>1, Moves DEF Records, Places, StopPlaces
  <2>3. PlaceOK'
    BY <1>3, <1>5, <2>1, Moves
       DEF Safe, PlaceOK, NoRecords, InFull, Recovering, ProofPlaces,
           UndoPlaces, Bound, Places, StopPlaces
  <2>4. OldGone'
    BY <1>3, <1>5, <2>1, Moves
       DEF Safe, OldGone, InFull, BeforeBridge, OldPlaces, ProofPlaces,
           Bound, Alive, Places, StopPlaces
  <2>5. OwnBridge' /\ Undoing'
    BY <1>3, <1>5, <2>1, Moves
       DEF Safe, OwnBridge, InFull, BeforeBridge, OldPlaces, ProofPlaces,
           Undoing, UndoPlaces, Places, StopPlaces
  <2>6. run' \in Locals
    BY <2>1, Moves DEF Places, StopPlaces
  <2>7. QED
    BY <1>1, <1>2, <2>2, <2>3, <2>4, <2>5, <2>6, AccountedKept, TypesFit
       DEF Safe
<1>6. QED
  BY <1>3, <1>4, <1>5 DEF RemoveReadiness

\* What is to be stopped is recorded, and "gone" means what it says.
LEMMA StopMeans ==
  ASSUME Safe, run.pc \in StopPlaces
  PROVE  /\ StopRecord \in Record \cup {None}
         /\ StopRecord # None => StopRecord \in Records
         /\ StopClass \in {"none", "gone"} /\ StopRecord # None =>
              ~Alive(StopRecord)
         /\ StopClass = "owned" =>
              /\ StopRecord # None
              /\ procs[StopRecord.pid].start = StopRecord.start
<1>1. /\ run \in Locals
      /\ run.pc = "stopBridge" /\ run.bridgeClass = "owned" => Bound
      /\ run.pc = "stopSupervisor" /\ run.supervisorClass = "owned" => Bound
  BY DEF Safe, Typed, PlaceOK
<1>2. /\ StopRecord \in Record \cup {None}
      /\ StopRecord # None => StopRecord \in Records
  BY <1>1, RecordsTyped DEF StopRecord, StopPlaces, Locals
<1>3. PICK owned \in BOOLEAN : /\ StopClass = Classified(StopRecord, owned)
                               /\ owned => procs[StopRecord.pid].start
                                             = StopRecord.start
  <2>1. CASE run.pc \in {"stopBridge", "cleanBridge"}
    <3>1. StopClass = Classified(StopRecord, IsBridge(StopRecord))
      BY <2>1 DEF StopClass, BridgeClass
    <3>2. IsBridge(StopRecord) \in BOOLEAN
      BY DEF IsBridge
    <3>3. QED
      BY <3>1, <3>2 DEF IsBridge
  <2>2. CASE run.pc = "stopSupervisor"
    <3>1. StopClass =
            Classified(StopRecord, IsSupervisor(StopRecord, manifest.tunnel))
      BY <2>2 DEF StopClass, SupervisorClass
    <3>2. IsSupervisor(StopRecord, manifest.tunnel) \in BOOLEAN
      BY DEF IsSupervisor
    <3>3. QED
      BY <3>1, <3>2 DEF IsSupervisor
  <2>3. CASE run.pc = "cleanSupervisor"
    <3>1. StopClass = Classified(StopRecord, IsSupervisor(StopRecord, run.tunnel))
      BY <2>3 DEF StopClass, SupervisorClass
    <3>2. IsSupervisor(StopRecord, run.tunnel) \in BOOLEAN
      BY DEF IsSupervisor
    <3>3. QED
      BY <3>1, <3>2 DEF IsSupervisor
  <2>4. QED
    BY <2>1, <2>2, <2>3 DEF StopPlaces
<1>4. QED
  BY <1>2, <1>3, ClassMeans

\* The run goes on to the place pc; it may note that a stop has failed.
GoesOn(pc) ==
  /\ run' \in Locals
  /\ run'.pc = pc /\ run'.mode = run.mode /\ run'.post = run.post
  /\ run'.bridge = run.bridge /\ run'.supervisor = run.supervisor
  /\ run'.tunnel = run.tunnel /\ run'.outcome = run.outcome
  /\ run.left \subseteq run'.left

\* A part is left, and the run goes on.
LEMMA PartIsLeft ==
  ASSUME Safe, NEW part \in Parts, NEW pc \in Places,
         NEW stage \in {"term", "kill", "last"},
         run' = [run EXCEPT !.left = @ \cup {part}, !.pc = pc, !.stage = stage]
  PROVE  /\ GoesOn(pc) /\ part \in run'.left
         /\ run'.original = run.original /\ run'.found = run.found
<1> DEFINE left == run.left \cup {part}
<1>1. run \in Locals /\ left \in SUBSET Parts
  BY DEF Safe, Typed, Locals
<1>2. run' = [run EXCEPT !.left = left, !.pc = pc, !.stage = stage]
  OBVIOUS
<1>3. run.left \subseteq left /\ part \in left
  OBVIOUS
<1> HIDE DEF left
<1>4. run' \in Locals
  BY <1>1, <1>2 DEF Locals
<1>5. run'.left = left /\ run'.pc = pc
  BY <1>1, <1>2 DEF Locals
<1>6. /\ run'.mode = run.mode /\ run'.post = run.post
      /\ run'.bridge = run.bridge /\ run'.supervisor = run.supervisor
      /\ run'.tunnel = run.tunnel /\ run'.outcome = run.outcome
      /\ run'.original = run.original /\ run'.found = run.found
  BY <1>1, <1>2 DEF Locals
<1>7. QED
  BY <1>3, <1>4, <1>5, <1>6 DEF GoesOn

\* A stop in the undoing that has ended, done or given up.
LEMMA UndoingGoesOn ==
  ASSUME Safe, Kept, ProcsFit, FilesFit, UNCHANGED <<manifest, runtime>>,
         run.pc \in {"cleanBridge", "cleanSupervisor"},
         IF AfterStop = "idle" THEN run' = Ended("failed") ELSE GoesOn(AfterStop),
         StopRecord # None /\ AliveNext(StopRecord) =>
           /\ StopPart \in run'.left \/ AfterStop = "idle"
           /\ procs'[StopRecord.pid].orphan \/ StopRecord \in Named
  PROVE  Safe'
<1>1. /\ run \in Locals /\ Recovering /\ run.tunnel \in Tunnels
      /\ run.outcome = "none"
      /\ run.pc = "cleanSupervisor" => InFull /\ Undone("bridge")
      /\ run.mode = "bridge" => Bound /\ run.supervisor = manifest.supervisor
  BY DEF Safe, Typed, PlaceOK, Undoing, InFull, Recovering, UndoPlaces
<1>2. CASE run.pc = "cleanBridge" /\ run.mode = "bridge"
  <2>1. run' = Ended("failed") /\ StopRecord = run.bridge
    BY <1>2 DEF AfterStop, StopRecord
  <2>2. Named \subseteq Records'
    BY RecordsTyped, BoundsAssumption
       DEF Named, Records, Bound, Safe, Typed, Manifest, Record
  <2>3. ASSUME NEW q \in Records, AliveNext(q)
        PROVE  q \in Records' \/ procs'[q.pid].orphan
    <3>1. q # None /\ (q \in Named \/ q = run.bridge)
      BY <1>1, <1>2 DEF Records, Named, Bound
    <3>2. QED
      BY <2>1, <2>2, <2>3, <3>1
  <2>4. QED
    BY <2>1, <2>3, AccountedKept, EndKeeps
<1>3. CASE run.pc = "cleanSupervisor" \/ run.mode = "full"
  <2> DEFINE pc == IF run.pc = "cleanBridge" THEN "cleanSupervisor" ELSE "restore"
  <2>1. GoesOn(pc)
    BY <1>1, <1>3 DEF AfterStop, InFull
  <2>2. pc \in {"cleanSupervisor", "restore"}
    OBVIOUS
  <2>3. run'.mode = "full" /\ ~run'.post
    BY <1>1, <1>3, <2>1 DEF GoesOn, InFull, Recovering
  <2>4. PlaceOK'
    BY <1>1, <2>1, <2>2, <2>3
       DEF GoesOn, PlaceOK, InFull, Recovering, ProofPlaces, UndoPlaces
  <2>5. OldGone' /\ OwnBridge'
    BY <2>1, <2>2, <2>3
       DEF GoesOn, OldGone, OwnBridge, BeforeBridge, OldPlaces, ProofPlaces
  <2>6. UndoneNext("bridge")
    <3>1. CASE run.pc = "cleanBridge"
      BY <1>3, <3>1 DEF StopRecord, StopPart, UndoneNext, AfterStop
    <3>2. CASE run.pc = "cleanSupervisor"
      BY <1>1, <2>1, <3>2, UndoneKept DEF GoesOn, Locals
    <3>3. QED
      BY <3>1, <3>2
  <2>7. pc = "restore" => UndoneNext("supervisor")
    BY DEF StopRecord, StopPart, UndoneNext, AfterStop
  <2>8. Undoing'
    BY <2>1, <2>2, <2>6, <2>7
       DEF GoesOn, Undoing, UndoneNext, Undone, Alive, AliveNext, WorkRoles,
           Named, Bound
  <2>9. Accounted'
    <3>1. Records' = Records
      BY <2>1 DEF GoesOn, Records
    <3>2. QED
      BY <3>1, AccountedKept
  <2>10. QED
    BY <2>1, <2>4, <2>5, <2>8, <2>9, TypesFit DEF GoesOn, Safe
<1>4. QED
  BY <1>1, <1>2, <1>3 DEF Recovering

LEMMA AfterCleaning ==
  ASSUME run.pc \in {"cleanBridge", "cleanSupervisor"}
  PROVE  AfterStop \in Places
BY DEF AfterStop, Places, StopPlaces

LEMMA StopDoneKeeps ==
  ASSUME Safe, run.pc \in StopPlaces, StopDone, FilesFit,
         UNCHANGED <<manifest, runtime>>
  PROVE  Safe'
<1>1. Kept /\ ProcsFit
  BY StillFits DEF StopDone
<1>2. /\ run' = Continued(run, AfterStop) /\ procs' = procs
      /\ StopRecord # None => ~Alive(StopRecord)
  BY StopMeans DEF StopDone
<1>3. StopRecord # None => ~AliveNext(StopRecord)
  BY <1>2 DEF Alive, AliveNext, WorkRoles
<1>4. CASE run.pc \in {"cleanBridge", "cleanSupervisor"}
  <2>1. AfterStop # "idle" =>
          run' = [run EXCEPT !.pc = AfterStop, !.stage = "term"]
    BY <1>2 DEF Continued
  <2>2. AfterStop # "idle" => GoesOn(AfterStop)
    BY <1>4, <2>1, AfterCleaning, Moves DEF GoesOn
  <2>3. QED
    BY <1>1, <1>2, <1>3, <1>4, <2>2, UndoingGoesOn DEF Continued
<1>5. CASE run.pc = "stopBridge"
  <2>1. run' = [run EXCEPT !.pc = "stopSupervisor", !.stage = "term"]
    BY <1>2, <1>5 DEF AfterStop, Continued
  <2>2. run' \in Locals /\ Records' = Records
    BY <2>1, Moves DEF Records, Places, StopPlaces
  <2>3. PlaceOK'
    BY <1>5, <2>1, Moves
       DEF Safe, PlaceOK, NoRecords, InFull, Recovering, ProofPlaces,
           UndoPlaces, Bound, Places, StopPlaces
  <2>4. InFull /\ Bound => ~Alive(manifest.bridge)
    <3>1. CASE run.bridgeClass = "owned"
      BY <1>2, <1>5, <3>1, RecordsTyped, BoundsAssumption
         DEF StopRecord, Record
    <3>2. CASE run.bridgeClass # "owned"
      BY <1>5, <3>2 DEF Safe, OldGone
    <3>3. QED
      BY <3>1, <3>2
  <2>5. OldGone'
    BY <1>2, <1>5, <2>1, <2>4, Moves
       DEF Safe, OldGone, InFull, BeforeBridge, OldPlaces, ProofPlaces,
           Bound, Alive, Places, StopPlaces
  <2>6. OwnBridge' /\ Undoing'
    BY <1>2, <1>5, <2>1, Moves
       DEF Safe, OwnBridge, InFull, BeforeBridge, OldPlaces, ProofPlaces,
           Undoing, UndoPlaces, Places, StopPlaces
  <2>7. QED
    BY <1>1, <2>2, <2>3, <2>5, <2>6, AccountedKept, TypesFit DEF Safe
<1>6. CASE run.pc = "stopSupervisor"
  <2> DEFINE pc == IF run.mode = "stop" THEN "groups" ELSE "spawnSupervisor"
  <2>1. run' = [run EXCEPT !.pc = pc, !.stage = "term"]
    BY <1>2, <1>6 DEF AfterStop, Continued
  <2>2. /\ pc \in Places
        /\ \/ pc = "groups" /\ run.mode = "stop"
           \/ pc = "spawnSupervisor" /\ run.mode # "stop"
    BY DEF Places
  <2> HIDE DEF pc
  <2>3. run' \in Locals /\ Records' = Records
    BY <2>1, <2>2, Moves DEF Records
  <2>4. PlaceOK'
    BY <1>6, <2>1, <2>2, Moves
       DEF Safe, PlaceOK, NoRecords, InFull, Recovering, ProofPlaces,
           UndoPlaces, Bound
  <2>5. InFull /\ Bound => ~Alive(manifest.supervisor)
    <3>1. CASE run.supervisorClass = "owned"
      BY <1>2, <1>6, <3>1, RecordsTyped, BoundsAssumption
         DEF StopRecord, Record
    <3>2. CASE run.supervisorClass # "owned"
      BY <1>6, <3>2 DEF Safe, OldGone, OldPlaces
    <3>3. QED
      BY <3>1, <3>2
  <2>6. InFull /\ Bound => ~Alive(manifest.bridge)
    BY <1>6 DEF Safe, OldGone, BeforeBridge, OldPlaces
  <2>7. OldGone'
    BY <1>2, <2>1, <2>2, <2>5, <2>6, Moves
       DEF OldGone, InFull, BeforeBridge, OldPlaces, ProofPlaces, Bound, Alive
  <2>8. OwnBridge' /\ Undoing'
    BY <1>2, <1>6, <2>1, <2>2, Moves
       DEF Safe, OwnBridge, InFull, BeforeBridge, OldPlaces, ProofPlaces,
           Undoing, UndoPlaces
  <2>9. QED
    BY <1>1, <2>3, <2>4, <2>7, <2>8, AccountedKept, TypesFit DEF Safe
<1>7. QED
  BY <1>4, <1>5, <1>6 DEF StopPlaces

LEMMA StopProcessKeeps ==
  ASSUME Safe, StopProcess
  PROVE  Safe'
<1>1. /\ run.pc \in StopPlaces /\ UNCHANGED <<files, told>>
      /\ UNCHANGED <<manifest, runtime>> /\ run \in Locals
  BY DEF StopProcess, files, Safe, Typed
<1>2. CASE StopDone
  BY <1>1, <1>2, FilesStay, StopDoneKeeps DEF StopDone, Safe, Typed
<1>3. CASE Signal
  <2>1. FilesFit
    BY <1>1, <1>3, FilesStay, UnlessCounts DEF Signal, Safe, Typed
  <2>2. StopRecord \in Record
    BY <1>1, <1>3, StopMeans DEF Signal, MaySignal
  <2>3. Kept /\ ProcsFit
    BY <1>3, <2>2, ExitFits, StillFits DEF Signal, Record
  <2>4. SameLocals
    <3>1. PICK stage \in {"kill", "last"} : run' = [run EXCEPT !.stage = stage]
      BY <1>3 DEF Signal
    <3>2. QED
      BY <1>1, <3>1 DEF SameLocals, Locals
  <2>5. QED
    BY <1>1, <2>1, <2>3, <2>4, OutsideKeeps
<1>4. CASE StopGivesUp
  <2>1. FilesFit
    BY <1>1, <1>4, FilesStay, UnlessCounts DEF StopGivesUp
  <2> DEFINE records == IF run.pc \in {"cleanBridge", "cleanSupervisor"}
                        THEN {StopRecord} ELSE {}
  <2>2. /\ Kept /\ ProcsFit
        /\ \A r \in records \cap Record :
             AliveNext(r) => procs'[r.pid].orphan \/ r \in Named
    BY <1>4, LeftFits DEF StopGivesUp
  <2>3. CASE run.pc \in {"cleanBridge", "cleanSupervisor"}
    <3>1. run' = IF AfterStop = "idle" THEN Ended("failed")
                 ELSE [run EXCEPT !.left = @ \cup {StopPart}, !.pc = AfterStop,
                                  !.stage = "term"]
      BY <1>1, <1>4, <2>3 DEF StopGivesUp, StopRaised, Continued, Locals
    <3>2. AfterStop # "idle" => GoesOn(AfterStop) /\ StopPart \in run'.left
      <4> SUFFICES ASSUME AfterStop # "idle"
                   PROVE  GoesOn(AfterStop) /\ StopPart \in run'.left
        OBVIOUS
      <4>1. AfterStop \in Places
        BY <2>3, AfterCleaning
      <4>2. run' = [run EXCEPT !.left = @ \cup {StopPart}, !.pc = AfterStop,
                               !.stage = "term"]
        BY <3>1
      <4>3. StopPart \in Parts
        BY DEF StopPart, Parts
      <4>4. QED
        BY <4>1, <4>2, <4>3, PartIsLeft
    <3>3. StopRecord \in Record
      BY <1>1, <1>4, StopMeans DEF StopGivesUp
    <3>4. AliveNext(StopRecord) =>
            procs'[StopRecord.pid].orphan \/ StopRecord \in Named
      BY <2>2, <2>3, <3>3
    <3>5. QED
      BY <1>1, <2>1, <2>2, <2>3, <3>1, <3>2, <3>4, UndoingGoesOn
  <2>4. CASE run.pc \notin {"cleanBridge", "cleanSupervisor"}
    <3>1. Raise
      BY <1>4, <2>4 DEF StopGivesUp, StopRaised, Raise
    <3>2. QED
      BY <1>1, <2>1, <2>2, <3>1, PlainRaiseKeeps DEF StopPlaces
  <2>5. QED
    BY <2>3, <2>4
<1>5. QED
  BY <1>2, <1>3, <1>4 DEF StopProcess

-----------------------------------------------------------------------------
(* Starts.                                                                 *)

LEMMA AccountedSpawn ==
  ASSUME Safe, NEW q \in Pids, NEW s \in Starts,
         \A p \in Pids \ {q} : procs'[p] = procs[p],
         procs'[q].start = s,
         procs'[q].orphan \/ [pid |-> q, start |-> s] \in Records',
         Records \subseteq Records'
  PROVE  Accounted'
<1> SUFFICES ASSUME NEW p \in Pids, procs'[p].role \in WorkRoles,
                    ~procs'[p].orphan
             PROVE  \E r \in Records' : r.pid = p /\ r.start = procs'[p].start
  BY DEF Accounted, WorkRoles
<1>1. CASE p = q
  BY <1>1
<1>2. CASE p # q
  BY <1>2 DEF Safe, Accounted, WorkRoles
<1>3. QED
  BY <1>1, <1>2

\* A start that fails, with or without a process left behind.
LEMMA SpawnFailsKeeps ==
  ASSUME Safe, run.pc \in {"spawnSupervisor", "spawnBridge"},
         NEW role \in {"bridge", "scanning"},
         NEW t \in Tunnels \cup {Bootstrap, None},
         role = "scanning" => t \in Tunnels,
         SpawnFails(role, t), UNCHANGED <<port, files, told>>
  PROVE  Safe'
<1>1. Raise /\ manifest' = manifest
  BY DEF SpawnFails, files
<1>2. CASE FaultUnless(\A p \in Pids : procs[p] # Free) /\ UNCHANGED procs
  BY <1>1, <1>2, UnlessCounts, FilesStay, StillFits, PlainRaiseKeeps
<1>3. ASSUME NEW q \in Pids, NEW s \in Starts, Fault,
             Spawn(q, role, s, t, TRUE)
      PROVE  Safe'
  <2>1. FilesFit
    BY <1>3, FaultCounts, FilesStay
  <2>2. /\ ProcsFit
        /\ \A p \in Pids \ {q} : procs'[p] = procs[p]
        /\ procs'[q] = [role |-> role, start |-> s, tunnel |-> t, orphan |-> TRUE]
    BY <1>3, SpawnFits
  <2>3. Recovering
    BY DEF Safe, PlaceOK, InFull, Recovering
  <2>4. run' = [run EXCEPT !.pc = "cleanBridge", !.stage = "term"]
    BY <1>1, <2>3 DEF Raise, AfterRaise, Undoes, Recovering
  <2>5. Records' = Records
    BY <1>1, <2>4 DEF Records, Safe, Typed, Locals
  <2>6. procs'[q].start = s /\ procs'[q].orphan
    BY <2>2
  <2>7. Accounted'
    BY <2>2, <2>5, <2>6, AccountedSpawn
  <2>8. QED
    BY <1>1, <2>1, <2>2, <2>7, RaiseKeeps
<1>4. ASSUME NEW q \in Pids, NEW s \in Starts, Fault,
             procs[q] = Free, FreshStart(q, s),
             procs' = [Spawned(q, role, s, t) EXCEPT ![q].orphan = TRUE]
      PROVE  Spawn(q, role, s, t, TRUE)
  BY <1>4 DEF Spawn, Spawned, Safe, Typed
<1>5. QED
  BY <1>2, <1>3, <1>4 DEF SpawnFails

LEMMA SpawnSupervisorKeeps ==
  ASSUME Safe, SpawnSupervisor
  PROVE  Safe'
<1>1. /\ run \in Locals /\ run.pc = "spawnSupervisor" /\ InFull /\ NoRecords
      /\ run.tunnel \in Tunnels /\ run.outcome = "none"
      /\ UNCHANGED <<port, files, told>> /\ UNCHANGED <<manifest, ready, runtime>>
  BY DEF Safe, Typed, PlaceOK, InFull, Recovering, SpawnSupervisor, files
<1>2. CASE SpawnFails("scanning", run.tunnel)
  BY <1>1, <1>2, SpawnFailsKeeps
<1>3. ASSUME NEW q \in Pids, NEW s \in Starts, procs[q] = Free, FreshStart(q, s),
             procs' = Spawned(q, "scanning", s, run.tunnel),
             run' = [run EXCEPT !.pc = "await",
                                !.supervisor = [pid |-> q, start |-> s]],
             UNCHANGED faults
      PROVE  Safe'
  <2>1. FilesFit
    BY <1>1, <1>3, FilesStay DEF Safe, Typed
  <2>2. Spawn(q, "scanning", s, run.tunnel, FALSE)
    BY <1>3 DEF Spawn, Spawned
  <2>3. /\ ProcsFit
        /\ \A p \in Pids \ {q} : procs'[p] = procs[p]
        /\ procs'[q] = [role |-> "scanning", start |-> s, tunnel |-> run.tunnel,
                        orphan |-> FALSE]
        /\ \A r \in Records : AliveNext(r) => Alive(r)
    BY <1>1, <2>2, SpawnFits
  <2> DEFINE new == [pid |-> q, start |-> s]
  <2>4. new \in Record /\ new # None
    BY BoundsAssumption DEF Record
  <2>5. /\ run' \in Locals /\ run'.pc = "await" /\ run'.mode = "full"
        /\ ~run'.post /\ run'.supervisor = new /\ run'.bridge = None
        /\ run'.tunnel = run.tunnel /\ run'.outcome = "none"
    <3> HIDE DEF new
    <3>1. run' = [run EXCEPT !.pc = "await", !.supervisor = new]
      BY <1>3 DEF new
    <3>2. run' \in Locals
      <4>1. run \in Locals /\ "await" \in Places
        BY <1>1 DEF Places
      <4>2. QED
        BY <2>4, <3>1, <4>1 DEF Locals
    <3>3. run'.pc = "await" /\ run'.supervisor = new
      BY <1>1, <3>1 DEF Locals
    <3>4. /\ run'.mode = run.mode /\ run'.post = run.post
          /\ run'.bridge = run.bridge /\ run'.tunnel = run.tunnel
          /\ run'.outcome = run.outcome
      BY <1>1, <3>1 DEF Locals
    <3>5. QED
      BY <1>1, <3>2, <3>3, <3>4 DEF InFull, NoRecords
  <2>6. PlaceOK'
    BY <1>1, <2>4, <2>5
       DEF PlaceOK, InFull, Recovering, ProofPlaces, UndoPlaces
  <2>7. OldGone'
    <3>1. Bound => ~Alive(manifest.bridge) /\ ~Alive(manifest.supervisor)
      BY <1>1 DEF Safe, OldGone, BeforeBridge, OldPlaces
    <3>2. Bound => ~AliveNext(manifest.bridge) /\ ~AliveNext(manifest.supervisor)
      BY <2>3, <3>1, RecordsTyped
    <3>3. QED
      BY <1>1, <2>5, <3>2
         DEF OldGone, OldPlaces, BeforeBridge, ProofPlaces, Bound, Alive,
             AliveNext, WorkRoles
  <2>8. OwnBridge'
    <3>1. \A p \in Pids : procs[p].role = "bridge" => procs[p].tunnel # run.tunnel
      BY <1>1 DEF Safe, OwnBridge, BeforeBridge
    <3>2. ASSUME NEW p \in Pids, procs'[p].role = "bridge"
          PROVE  procs'[p].tunnel # run.tunnel
      BY <2>3, <3>1, <3>2
    <3>3. QED
      BY <2>5, <3>2 DEF OwnBridge, ProofPlaces
  <2>9. Undoing'
    BY <2>5 DEF Undoing, UndoPlaces
  <2>10. Accounted'
    <3>1. Records \subseteq Records' /\ new \in Records'
      BY <1>1, <2>4, <2>5 DEF Records, NoRecords
    <3>2. QED
      BY <2>3, <3>1, AccountedSpawn
  <2>11. QED
    BY <2>1, <2>3, <2>5, <2>6, <2>7, <2>8, <2>9, <2>10, TypesFit DEF Safe
<1>4. QED
  BY <1>2, <1>3 DEF SpawnSupervisor

LEMMA SpawnBridgeKeeps ==
  ASSUME Safe, SpawnBridge
  PROVE  Safe'
<1>1. /\ run \in Locals /\ run.pc = "spawnBridge" /\ Recovering
      /\ run.bridge = None /\ run.supervisor # None
      /\ run.tunnel \in Tunnels /\ run.outcome = "none"
      /\ UNCHANGED <<port, files, told>> /\ UNCHANGED <<manifest, ready, runtime>>
      /\ run.mode = "bridge" => /\ Bound /\ run.supervisor = manifest.supervisor
                                /\ run.tunnel = manifest.tunnel
      /\ runtime \in Tunnels \cup {Bootstrap, None}
  BY DEF Safe, Typed, PlaceOK, Recovering, SpawnBridge, files
<1>2. CASE SpawnFails("bridge", runtime)
  BY <1>1, <1>2, SpawnFailsKeeps
<1>3. ASSUME NEW q \in Pids, NEW s \in Starts, procs[q] = Free, FreshStart(q, s),
             procs' = Spawned(q, "bridge", s, runtime),
             run' = [run EXCEPT !.pc = "health",
                                !.bridge = [pid |-> q, start |-> s]],
             UNCHANGED faults
      PROVE  Safe'
  <2>1. FilesFit
    BY <1>1, <1>3, FilesStay DEF Safe, Typed
  <2>2. Spawn(q, "bridge", s, runtime, FALSE)
    BY <1>3 DEF Spawn, Spawned
  <2>3. /\ ProcsFit
        /\ \A p \in Pids \ {q} : procs'[p] = procs[p]
        /\ procs'[q] = [role |-> "bridge", start |-> s, tunnel |-> runtime,
                        orphan |-> FALSE]
        /\ \A r \in Records : AliveNext(r) => Alive(r)
    BY <1>1, <2>2, SpawnFits
  <2> DEFINE new == [pid |-> q, start |-> s]
  <2>4. new \in Record /\ new # None
    BY BoundsAssumption DEF Record
  <2>5. /\ run' \in Locals /\ run'.pc = "health" /\ run'.mode = run.mode
        /\ ~run'.post /\ run'.supervisor = run.supervisor /\ run'.bridge = new
        /\ run'.tunnel = run.tunnel /\ run'.outcome = "none"
    <3> HIDE DEF new
    <3>1. run' = [run EXCEPT !.pc = "health", !.bridge = new]
      BY <1>3 DEF new
    <3>2. run' \in Locals
      <4>1. run \in Locals /\ "health" \in Places
        BY <1>1 DEF Places
      <4>2. QED
        BY <2>4, <3>1, <4>1 DEF Locals
    <3>3. run'.pc = "health" /\ run'.bridge = new
      BY <1>1, <3>1 DEF Locals
    <3>4. /\ run'.mode = run.mode /\ run'.post = run.post
          /\ run'.supervisor = run.supervisor /\ run'.tunnel = run.tunnel
          /\ run'.outcome = run.outcome
      BY <1>1, <3>1 DEF Locals
    <3>5. QED
      BY <1>1, <3>2, <3>3, <3>4 DEF Recovering
  <2>6. PlaceOK'
    BY <1>1, <2>4, <2>5
       DEF PlaceOK, InFull, Recovering, ProofPlaces, UndoPlaces, Bound
  <2>7. OldGone'
    <3>1. /\ Bound => ~Alive(manifest.bridge)
          /\ Bound /\ run.mode = "full" => ~Alive(manifest.supervisor)
      BY <1>1 DEF Safe, OldGone, BeforeBridge, OldPlaces, InFull, Recovering
    <3>2. /\ Bound => ~AliveNext(manifest.bridge)
          /\ Bound /\ run.mode = "full" => ~AliveNext(manifest.supervisor)
      BY <2>3, <3>1, RecordsTyped
    <3>3. QED
      BY <1>1, <2>5, <3>2
         DEF OldGone, OldPlaces, BeforeBridge, ProofPlaces, Bound, Alive,
             AliveNext, WorkRoles, InFull
  <2>8. OwnBridge'
    <3>1. run.mode = "full" =>
            /\ \A p \in Pids : procs[p].role = "bridge" => procs[p].tunnel # run.tunnel
            /\ runtime = run.tunnel
      BY <1>1 DEF Safe, OwnBridge, BeforeBridge, Recovering, InFull
    <3>2. ASSUME NEW p \in Pids, run.mode = "full", procs'[p].role = "bridge",
                 procs'[p].tunnel = run.tunnel
          PROVE  new = [pid |-> p, start |-> procs'[p].start]
      BY <2>3, <3>1, <3>2
    <3> HIDE DEF new
    <3>3. QED
      BY <2>5, <3>2 DEF OwnBridge, BeforeBridge, OldPlaces, InFull
  <2>9. Undoing'
    BY <2>5 DEF Undoing, UndoPlaces
  <2>10. Accounted'
    <3>1. Records \subseteq Records' /\ new \in Records'
      BY <1>1, <2>4, <2>5 DEF Records
    <3>2. QED
      BY <2>3, <3>1, AccountedSpawn
  <2>11. QED
    BY <2>1, <2>3, <2>5, <2>6, <2>7, <2>8, <2>9, <2>10, TypesFit DEF Safe
<1>4. QED
  BY <1>2, <1>3 DEF SpawnBridge

-----------------------------------------------------------------------------
(* The steps of a run that start and stop nothing.                         *)

LEMMA AwaitReadinessKeeps ==
  ASSUME Safe, AwaitReadiness
  PROVE  Safe'
<1>1. /\ run \in Locals /\ run.pc = "await" /\ InFull
      /\ run.bridge = None /\ run.supervisor # None
      /\ run.tunnel \in Tunnels /\ run.outcome = "none"
      /\ UNCHANGED <<procs, port, files, told>>
      /\ UNCHANGED <<procs, manifest, ready, runtime>>
  BY DEF Safe, Typed, PlaceOK, InFull, Recovering, AwaitReadiness, files
<1>2. FilesFit /\ ProcsFit /\ Kept
  BY <1>1, UnlessCounts, FilesStay, StillFits DEF AwaitReadiness, Safe, Typed
<1>3. CASE Raise
  BY <1>1, <1>2, <1>3, PlainRaiseKeeps
<1>4. CASE Go("rewrite")
  <2>1. run' = [run EXCEPT !.pc = "rewrite", !.stage = "term"]
    BY <1>4 DEF Go
  <2>2. GoesOn("rewrite") /\ Records' = Records
    BY <1>1, <2>1, Moves DEF GoesOn, Places, Records
  <2>3. PlaceOK'
    BY <1>1, <2>2
       DEF GoesOn, PlaceOK, InFull, Recovering, ProofPlaces, UndoPlaces
  <2>4. OldGone' /\ OwnBridge' /\ Undoing'
    BY <1>1, <2>2
       DEF Safe, GoesOn, OldGone, OwnBridge, Undoing, InFull, BeforeBridge,
           OldPlaces, ProofPlaces, UndoPlaces, Bound, Alive
  <2>5. QED
    BY <1>2, <2>2, <2>3, <2>4, AccountedKept, TypesFit DEF Safe, GoesOn
<1>5. QED
  BY <1>3, <1>4 DEF AwaitReadiness

LEMMA RewriteRuntimeKeeps ==
  ASSUME Safe, RewriteRuntime
  PROVE  Safe'
<1>1. /\ run \in Locals /\ run.pc = "rewrite" /\ InFull
      /\ run.bridge = None /\ run.supervisor # None
      /\ run.tunnel \in Tunnels /\ run.outcome = "none"
      /\ UNCHANGED <<procs, port, manifest, ready, told>>
      /\ runtime \in Tunnels \cup {Bootstrap}
  BY DEF Safe, Typed, PlaceOK, InFull, Recovering, RewriteRuntime
<1>2. FilesFit /\ ProcsFit /\ Kept
  BY <1>1, FaultCounts, StillFits DEF RewriteRuntime, FilesFit, Safe, Typed
<1>3. CASE Raise
  BY <1>1, <1>2, <1>3, PlainRaiseKeeps
<1>4. CASE /\ runtime' = run.tunnel
           /\ run' = [run EXCEPT !.pc = "spawnBridge", !.original = runtime]
  <2>1. GoesOn("spawnBridge") /\ Records' = Records
    <3>1. run' \in Locals
      <4>1. /\ run \in Locals /\ "spawnBridge" \in Places
            /\ runtime \in Tunnels \cup {Bootstrap, None}
        BY <1>1 DEF Places
      <4>2. QED
        BY <1>4, <4>1 DEF Locals
    <3>2. /\ run'.pc = "spawnBridge" /\ run'.mode = run.mode
          /\ run'.post = run.post
          /\ run'.bridge = run.bridge /\ run'.supervisor = run.supervisor
          /\ run'.tunnel = run.tunnel /\ run'.outcome = run.outcome
          /\ run'.left = run.left
      BY <1>1, <1>4 DEF Locals
    <3>3. QED
      BY <1>1, <3>1, <3>2 DEF GoesOn, Records
  <2>2. PlaceOK'
    BY <1>1, <2>1
       DEF GoesOn, PlaceOK, InFull, Recovering, ProofPlaces, UndoPlaces
  <2>3. OldGone' /\ OwnBridge' /\ Undoing'
    BY <1>1, <1>4, <2>1
       DEF Safe, GoesOn, OldGone, OwnBridge, Undoing, InFull, BeforeBridge,
           OldPlaces, ProofPlaces, UndoPlaces, Bound, Alive
  <2>4. QED
    BY <1>2, <2>1, <2>2, <2>3, AccountedKept, TypesFit DEF Safe, GoesOn
<1>5. QED
  BY <1>3, <1>4 DEF RewriteRuntime

LEMMA ProveHealthKeeps ==
  ASSUME Safe, ProveHealth
  PROVE  Safe'
<1>1. /\ run \in Locals /\ run.pc = "health" /\ run.outcome = "none"
      /\ run.tunnel \in Tunnels
      /\ UNCHANGED <<procs, port, files, told>>
      /\ UNCHANGED <<procs, manifest, ready, runtime>>
  BY DEF Safe, Typed, PlaceOK, ProofPlaces, ProveHealth, files
<1>2. FilesFit /\ ProcsFit /\ Kept
  BY <1>1, UnlessCounts, FilesStay, StillFits DEF ProveHealth, Safe, Typed
<1>3. CASE Raise
  BY <1>1, <1>2, <1>3, PlainRaiseKeeps
<1>4. CASE Go("probe")
  <2>1. run' = [run EXCEPT !.pc = "probe", !.stage = "term"]
    BY <1>4 DEF Go
  <2>2. GoesOn("probe") /\ Records' = Records
    BY <1>1, <2>1, Moves DEF GoesOn, Places, Records
  <2>3. PlaceOK'
    BY <1>1, <2>2
       DEF Safe, GoesOn, PlaceOK, InFull, Recovering, Verified, NoRecords,
           ProofPlaces, UndoPlaces, Bound
  <2>4. OldGone' /\ OwnBridge' /\ Undoing'
    BY <1>1, <2>2
       DEF Safe, GoesOn, OldGone, OwnBridge, Undoing, InFull, BeforeBridge,
           OldPlaces, ProofPlaces, UndoPlaces, Bound, Alive
  <2>5. QED
    BY <1>2, <2>2, <2>3, <2>4, AccountedKept, TypesFit DEF Safe, GoesOn
<1>5. QED
  BY <1>3, <1>4 DEF ProveHealth

\* Who answers for the new hostname of a full recovery is its own receiver.
LEMMA OwnAnswer ==
  ASSUME Safe, run.pc = "probe", InFull, Accepts(run.tunnel)
  PROVE  [pid |-> port, start |-> procs[port].start] = run.bridge
<1>1. port \in Pids /\ procs[port].role = "bridge" /\ procs[port].tunnel = run.tunnel
  BY DEF Safe, Typed, ProcessOK, Accepts, Serves
<1>2. QED
  BY <1>1 DEF Safe, OwnBridge, ProofPlaces

LEMMA ProbeKeeps ==
  ASSUME Safe, Probe
  PROVE  Safe'
<1>1. /\ run \in Locals /\ run.pc = "probe" /\ run.outcome = "none"
      /\ run.tunnel \in Tunnels
      /\ Recovering \/ (Verified /\ NoRecords)
      /\ UNCHANGED <<procs, port, files>>
      /\ UNCHANGED <<procs, manifest, ready, runtime>>
  BY DEF Safe, Typed, PlaceOK, ProofPlaces, Probe, files
<1>2. FilesFit /\ ProcsFit /\ Kept
  BY <1>1, UnlessCounts, StillFits
     DEF Probe, ProbeAnswered, FilesFit, Safe, Typed
<1>3. CASE Raise
  BY <1>1, <1>2, <1>3, PlainRaiseKeeps
<1>4. CASE Verified /\ End("verified")
  <2>1. Records \subseteq Records'
    BY <1>1, <1>4, BoundsAssumption
       DEF Records, NoRecords, End, Recovering, Verified, Safe, Typed, Manifest,
           Record
  <2>2. QED
    BY <1>2, <1>4, <2>1, AccountedKept, EndKeeps DEF End
<1>5. CASE /\ ~Verified /\ Accepts(run.tunnel)
           /\ run' = [run EXCEPT !.pc = "commit",
                                 !.answered = [pid |-> port,
                                               start |-> procs[port].start]]
  <2> DEFINE answer == [pid |-> port, start |-> procs[port].start]
  <2>1. port \in Pids /\ procs[port].role = "bridge"
    BY <1>5 DEF Safe, Typed, ProcessOK, Accepts, Serves
  <2>2. answer \in Record
    BY <2>1, RoleSets DEF Record, Safe, ProcessOK
  <2>3. Recovering
    BY <1>1, <1>5
  <2>4. InFull => answer = run.bridge
    BY <1>1, <1>5, OwnAnswer
  <2>5. GoesOn("commit") /\ run'.answered = answer /\ Records' = Records
    <3> HIDE DEF answer
    <3>1. run' = [run EXCEPT !.pc = "commit", !.answered = answer]
      BY <1>5 DEF answer
    <3>2. QED
      BY <1>1, <2>2, <3>1 DEF GoesOn, Places, Records, Locals
  <2> HIDE DEF answer
  <2>6. PlaceOK'
    BY <1>1, <2>3, <2>5
       DEF Safe, GoesOn, PlaceOK, InFull, Recovering, Verified, NoRecords,
           ProofPlaces, UndoPlaces, Bound
  <2>7. OldGone' /\ Undoing'
    BY <1>1, <2>5
       DEF Safe, GoesOn, OldGone, Undoing, InFull, BeforeBridge, OldPlaces,
           ProofPlaces, UndoPlaces, Bound, Alive
  <2>8. OwnBridge'
    BY <1>1, <2>4, <2>5
       DEF Safe, GoesOn, OwnBridge, InFull, BeforeBridge, OldPlaces, ProofPlaces
  <2>9. QED
    BY <1>2, <2>5, <2>6, <2>7, <2>8, AccountedKept, TypesFit DEF Safe, GoesOn
<1>6. QED
  BY <1>3, <1>4, <1>5 DEF Probe, ProbeAnswered

LEMMA RuntimeIsLeft ==
  ASSUME Safe,
         run' = [run EXCEPT !.pc = "cleanReady", !.left = @ \cup {"runtime"}]
  PROVE  /\ GoesOn("cleanReady") /\ "runtime" \in run'.left
         /\ run'.original = run.original /\ run'.found = run.found
<1>1. run \in Locals /\ run.stage \in {"term", "kill", "last"}
  BY DEF Safe, Typed, Locals
<1>2. run' = [run EXCEPT !.left = @ \cup {"runtime"}, !.pc = "cleanReady",
                         !.stage = run.stage]
  BY <1>1 DEF Locals
<1>3. "runtime" \in Parts /\ "cleanReady" \in Places
  BY DEF Parts, Places
<1>4. QED
  BY <1>1, <1>2, <1>3, PartIsLeft

LEMMA RestoreRuntimeKeeps ==
  ASSUME Safe, RestoreRuntime
  PROVE  Safe'
<1>1. /\ run \in Locals /\ run.pc = "restore" /\ run.outcome = "none" /\ InFull
      /\ run.tunnel \in Tunnels
      /\ UNCHANGED <<procs, port, manifest, ready, told>>
      /\ Undone("bridge") /\ Undone("supervisor")
  BY DEF Safe, Typed, PlaceOK, UndoPlaces, Undoing, InFull, Recovering,
         RestoreRuntime
<1>2. FilesFit /\ ProcsFit /\ Kept
  BY <1>1, FaultCounts, StillFits
     DEF RestoreRuntime, FilesFit, Safe, Typed, Locals
<1>3. /\ GoesOn("cleanReady") /\ Records' = Records
      /\ run'.original = run.original
      /\ run.original # None => "runtime" \in run'.left \/ runtime' = run.original
  <2>1. CASE /\ runtime' = IF run.original = None THEN runtime ELSE run.original
             /\ Go("cleanReady")
    <3>1. run' = [run EXCEPT !.pc = "cleanReady", !.stage = "term"]
      BY <2>1 DEF Go
    <3>2. QED
      BY <1>1, <2>1, <3>1, Moves DEF GoesOn, Places, Records
  <2>2. CASE run' = [run EXCEPT !.pc = "cleanReady", !.left = @ \cup {"runtime"}]
    <3>1. /\ GoesOn("cleanReady") /\ "runtime" \in run'.left
          /\ run'.original = run.original
      BY <2>2, RuntimeIsLeft
    <3>2. QED
      BY <1>1, <3>1 DEF GoesOn, Records
  <2>3. QED
    BY <2>1, <2>2 DEF RestoreRuntime
<1>4. PlaceOK'
  BY <1>1, <1>3
     DEF GoesOn, PlaceOK, InFull, Recovering, ProofPlaces, UndoPlaces
<1>5. OldGone' /\ OwnBridge'
  BY <1>3
     DEF GoesOn, OldGone, OwnBridge, InFull, BeforeBridge, OldPlaces, ProofPlaces
<1>6. UndoneNext("bridge") /\ UndoneNext("supervisor")
  BY <1>1, <1>2, <1>3, UndoneKept DEF GoesOn, Locals
<1>7. Undoing'
  BY <1>1, <1>3, <1>6
     DEF GoesOn, Undoing, UndoneNext, Undone, Alive, AliveNext, WorkRoles,
         Named, Bound
<1>8. QED
  BY <1>2, <1>3, <1>4, <1>5, <1>7, AccountedKept, TypesFit DEF Safe, GoesOn

LEMMA ObserveGroupsKeeps ==
  ASSUME Safe, ObserveGroups
  PROVE  Safe'
<1>1. NoRecords /\ UNCHANGED <<procs, port, files, told>> /\ manifest' = manifest
  BY DEF Safe, PlaceOK, ObserveGroups, files
<1>2. FilesFit /\ ProcsFit /\ Kept
  BY <1>1, UnlessCounts, FilesStay, StillFits DEF ObserveGroups, Safe, Typed
<1>3. PICK o \in {"stopped", "failed"} : run' = Ended(o)
  BY DEF ObserveGroups, End
<1>4. Records' = Records
  BY <1>1, <1>3 DEF Records, NoRecords, Ended
<1>5. QED
  BY <1>2, <1>3, <1>4, AccountedKept, EndKeeps

LEMMA KilledKeeps ==
  ASSUME Safe, Killed
  PROVE  Safe'
<1> DEFINE own == {run.bridge, run.supervisor}
<1>1. /\ run' = Ended("killed") /\ procs' = LeftBehind(own) /\ port' = port
      /\ UNCHANGED <<files, told>> /\ manifest' = manifest
  BY DEF Killed, End, files
<1>2. /\ Kept /\ ProcsFit
      /\ \A r \in own \cap Record :
           AliveNext(r) => procs'[r.pid].orphan \/ r \in Named
  BY <1>1, LeftFits
<1>3. FilesFit
  BY <1>1, FaultCounts, FilesStay DEF Killed
<1>4. Named \subseteq Records'
  BY <1>1, BoundsAssumption
     DEF Named, Records, Bound, Safe, Typed, Manifest, Record
<1>5. ASSUME NEW r \in Records, AliveNext(r)
      PROVE  r \in Records' \/ procs'[r.pid].orphan
  <2>1. r \in Record /\ r \in own \cup Named
    BY RecordsTyped DEF Records, Named, Bound
  <2>2. QED
    BY <1>2, <1>4, <1>5, <2>1
<1>6. QED
  BY <1>1, <1>2, <1>3, <1>5, AccountedKept, EndKeeps

\* What a commit replaces is gone, or is what it commits.
LEMMA CommitDrops ==
  ASSUME Safe, run.pc = "commit"
  PROVE  \A r \in Records : Alive(r) => r \in {run.bridge, run.supervisor}
<1>1. Recovering
  BY DEF Safe, PlaceOK
<1>2. Bound => /\ ~Alive(manifest.bridge)
               /\ run.mode = "full" => ~Alive(manifest.supervisor)
               /\ run.mode = "bridge" => manifest.supervisor = run.supervisor
  BY <1>1 DEF Safe, PlaceOK, OldGone, InFull, Recovering, ProofPlaces
<1>3. QED
  BY <1>1, <1>2 DEF Records, Bound, Recovering

LEMMA CommitKeeps ==
  ASSUME Safe, Commit
  PROVE  Safe'
<1>1. /\ run \in Locals /\ run.pc = "commit" /\ Recovering
      /\ run.bridge \in Record /\ run.supervisor \in Record
      /\ run.tunnel \in Tunnels
      /\ UNCHANGED <<procs, port, ready, runtime>>
  BY DEF Safe, Typed, PlaceOK, ProofPlaces, Locals, Commit
<1>2. /\ NewManifest \in Manifest /\ NewManifest # None
      /\ NewManifest.bridge = run.bridge
      /\ NewManifest.supervisor = run.supervisor
      /\ NewManifest.tunnel = run.tunnel
  BY <1>1, ManifestAssumption DEF NewManifest, Manifest
<1>3. manifest' \in {manifest, NewManifest}
  BY DEF Commit
<1>4. FilesFit /\ ProcsFit /\ Kept
  <2>1. faults' \in 0 .. MaxFaults
    BY FaultCounts DEF Commit
  <2>2. told' \in {"unbound", "stale", "current"}
    BY DEF Commit, Safe, Typed
  <2>3. QED
    BY <1>1, <1>2, <1>3, <2>1, <2>2, StillFits DEF FilesFit, Safe, Typed
<1>5. ASSUME {run.bridge, run.supervisor} \subseteq Records'
      PROVE  Accounted'
  <2>1. ASSUME NEW r \in Records, AliveNext(r)
        PROVE  r \in Records'
    <3>1. Alive(r)
      BY <1>4, <2>1, KeptAlive, RecordsTyped
    <3>2. QED
      BY <1>1, <1>5, <3>1, CommitDrops
  <2>2. QED
    BY <1>4, <2>1, AccountedKept
<1>6. CASE /\ manifest' = NewManifest
           /\ run' = [Ended("none") EXCEPT !.pc = "prepare", !.mode = run.mode,
                                           !.post = TRUE]
  <2>1. run.mode \in {"bridge", "full"}
    BY <1>1 DEF Recovering
  <2>2. /\ run' \in Locals /\ run'.pc = "prepare" /\ run'.mode = run.mode
        /\ run'.post /\ run'.bridge = None /\ run'.supervisor = None
        /\ run'.outcome = "none"
    BY <1>6, <2>1 DEF Ended, Locals, Places, Classes
  <2>3. PlaceOK'
    BY <2>1, <2>2
       DEF PlaceOK, NoRecords, InFull, Recovering, ProofPlaces, UndoPlaces
  <2>4. OldGone' /\ OwnBridge' /\ Undoing'
    BY <2>2 DEF OldGone, OwnBridge, InFull, Undoing, UndoPlaces
  <2>5. {run.bridge, run.supervisor} \subseteq Records'
    BY <1>1, <1>2, <1>6, BoundsAssumption DEF Records, Record
  <2>6. QED
    BY <1>4, <1>5, <2>2, <2>3, <2>4, <2>5, TypesFit DEF Safe
<1>7. CASE Raise
  <2>1. run' = [run EXCEPT !.pc = "cleanBridge", !.stage = "term"]
    BY <1>1, <1>7 DEF Raise, AfterRaise, Undoes, Recovering
  <2>2. {run.bridge, run.supervisor} \subseteq Records'
    BY <1>1, <2>1, BoundsAssumption DEF Records, Record, Locals
  <2>3. run.mode = "bridge" => /\ manifest' # None
                               /\ manifest'.supervisor = run.supervisor
                               /\ manifest'.tunnel = run.tunnel
    BY <1>1, <1>2, <1>3 DEF Safe, PlaceOK, Bound, Recovering
  <2>4. QED
    BY <1>1, <1>4, <1>5, <2>1, <2>2, <2>3, CleanKeeps
<1>8. QED
  BY <1>6, <1>7 DEF Commit

-----------------------------------------------------------------------------
(* Processes that act by themselves.                                       *)

LEMMA ProcessesKeep ==
  ASSUME Safe, NEW q \in Pids,
         Listen(q) \/ BindFails(q) \/ PublishReadiness(q)
           \/ ProcessExits(q) \/ CloudflaredEnds(q) \/ IdReused(q)
  PROVE  Safe'
<1>1. /\ procs \in [Pids -> Process] /\ procs[q] \in Process
      /\ \A p \in Pids : ProcessOK(p)
      /\ port \in Pids \cup {None}
  BY DEF Safe, Typed
<1>2. SameLocals /\ UNCHANGED <<manifest, runtime, told>>
  BY DEF Listen, BindFails, PublishReadiness, ProcessExits, CloudflaredEnds,
         IdReused, files, SameLocals, Safe, Typed
<1>3. FilesFit
  <2>1. faults' \in 0 .. MaxFaults
    BY FaultCounts DEF Listen, BindFails, PublishReadiness, ProcessExits,
                       CloudflaredEnds, IdReused
  <2>2. ready' \in Tunnels \cup {None}
    BY <1>1 DEF Listen, BindFails, PublishReadiness, ProcessExits,
                CloudflaredEnds, IdReused, files, Safe, Typed, ProcessOK,
                Supervisors
  <2>3. QED
    BY <1>2, <2>1, <2>2 DEF FilesFit, Safe, Typed
<1>4. CASE ProcessExits(q)
  BY <1>2, <1>3, <1>4, ExitFits, OutsideKeeps DEF ProcessExits
<1>5. CASE Listen(q)
  <2>1. procs' = procs /\ port' = q /\ procs[q].role = "bridge"
    BY <1>5 DEF Listen
  <2>2. Kept /\ ProcsFit
    BY <1>1, <2>1 DEF Kept, ProcsFit, ProcessOK
  <2>3. QED
    BY <1>2, <1>3, <2>2, OutsideKeeps
<1>6. CASE BindFails(q) \/ CloudflaredEnds(q)
  <2>1. /\ procs' = [procs EXCEPT ![q] = Free] /\ port' = port /\ port # q
    BY <1>1, <1>6 DEF BindFails, CloudflaredEnds, ProcessOK
  <2>2. /\ procs' \in [Pids -> Process]
        /\ \A p \in Pids \ {q} : procs'[p] = procs[p]
        /\ procs'[q].role = "none"
    BY <1>1, <2>1, FreeFits DEF Free
  <2>3. Kept
    BY <2>2, RoleSets DEF Kept
  <2>4. ASSUME NEW p \in Pids
        PROVE  ProcessOK(p)'
    BY <1>1, <2>1, <2>2, RoleSets DEF ProcessOK
  <2>5. QED
    BY <1>1, <1>2, <1>3, <2>1, <2>2, <2>3, <2>4, OutsideKeeps DEF ProcsFit
<1>7. CASE PublishReadiness(q)
  <2>1. /\ procs' = [procs EXCEPT ![q].role = "supervising"] /\ port' = port
        /\ procs[q].role = "scanning"
    BY <1>7 DEF PublishReadiness
  <2>2. /\ procs' \in [Pids -> Process]
        /\ \A p \in Pids \ {q} : procs'[p] = procs[p]
        /\ procs'[q] = [procs[q] EXCEPT !.role = "supervising"]
    BY <1>1, <2>1 DEF Process, Roles
  <2>3. /\ procs'[q].role = "supervising" /\ procs'[q].start = procs[q].start
        /\ procs'[q].tunnel = procs[q].tunnel
        /\ procs'[q].orphan = procs[q].orphan
    BY <1>1, <2>2 DEF Process
  <2>4. Kept
    BY <2>1, <2>2, <2>3, RoleSets DEF Kept
  <2>5. ASSUME NEW p \in Pids
        PROVE  ProcessOK(p)'
    BY <1>1, <2>1, <2>2, <2>3, RoleSets DEF ProcessOK
  <2>6. QED
    BY <1>1, <1>2, <1>3, <2>1, <2>2, <2>4, <2>5, OutsideKeeps DEF ProcsFit
<1>8. CASE IdReused(q)
  <2>1. /\ procs' = [procs EXCEPT ![q].role = "foreign"] /\ port' = port
        /\ port # q
    BY <1>1, <1>8 DEF IdReused, ProcessOK, Free
  <2>2. /\ procs' \in [Pids -> Process]
        /\ \A p \in Pids \ {q} : procs'[p] = procs[p]
        /\ procs'[q].role = "foreign"
    BY <1>1, <2>1 DEF Process, Roles
  <2>3. Kept
    BY <2>2, RoleSets DEF Kept
  <2>4. ASSUME NEW p \in Pids
        PROVE  ProcessOK(p)'
    BY <1>1, <2>1, <2>2, RoleSets DEF ProcessOK
  <2>5. QED
    BY <1>1, <1>2, <1>3, <2>1, <2>2, <2>3, <2>4, OutsideKeeps DEF ProcsFit
<1>9. QED
  BY <1>4, <1>5, <1>6, <1>7, <1>8

LEMMA InitSafe == Init => Safe
<1> SUFFICES ASSUME Init PROVE Safe
  OBVIOUS
<1>1. /\ run = Ended("none") /\ port = None /\ manifest = None /\ ready = None
      /\ runtime = Bootstrap /\ procs = [p \in Pids |-> Free]
      /\ told = "unbound" /\ faults = 0
  BY DEF Init
<1>2. run \in Locals
  BY <1>1 DEF Ended, Locals, Places, Classes
<1>3. /\ run.pc = "idle" /\ run.mode = "none" /\ NoRecords
  BY <1>1 DEF Ended, NoRecords
<1>4. Typed
  BY <1>1, <1>2, FreeFits, BoundsAssumption DEF Typed
<1>5. \A p \in Pids : ProcessOK(p)
  BY <1>1, RoleSets, BoundsAssumption DEF ProcessOK, Free
<1>6. PlaceOK /\ OldGone /\ OwnBridge /\ Undoing
  BY <1>3 DEF PlaceOK, OldGone, OwnBridge, Undoing, InFull, Recovering,
              ProofPlaces, UndoPlaces
<1>7. Accounted
  BY <1>1, RoleSets DEF Accounted, Free, WorkRoles
<1>8. QED
  BY <1>4, <1>5, <1>6, <1>7 DEF Safe

LEMMA StepKeeps ==
  ASSUME Safe, [Next]_vars
  PROVE  Safe'
<1>1. CASE UNCHANGED vars
  <2>1. SameLocals /\ FilesFit /\ UNCHANGED <<procs, port, manifest, runtime>>
    BY <1>1 DEF vars, SameLocals, FilesFit, Safe, Typed
  <2>2. QED
    BY <2>1, StillFits, OutsideKeeps
<1>2. CASE Step
  BY <1>2, PrepareKeeps, RemoveReadinessKeeps, StopProcessKeeps,
     SpawnSupervisorKeeps, AwaitReadinessKeeps, RewriteRuntimeKeeps,
     SpawnBridgeKeeps, ProveHealthKeeps, ProbeKeeps, CommitKeeps,
     RestoreRuntimeKeeps, ObserveGroupsKeeps DEF Step
<1>3. CASE Begin("recover") \/ Begin("stop") \/ Killed
  BY <1>3, BeginKeeps, KilledKeeps
<1>4. QED
  BY <1>1, <1>2, <1>3, ProcessesKeep DEF Next

\* The inductive invariant, for any number of ids, start times, tunnels and
\* faults.
THEOREM Invariance == Spec => []Safe
BY InitSafe, StepKeeps, PTL DEF Spec

-----------------------------------------------------------------------------
(* What follows.                                                           *)

\* The files, the processes and the locals of a run keep their forms.
THEOREM TypeCorrect == Spec => []TypeOK
<1>1. Safe => TypeOK
  BY DEF Safe, Typed, TypeOK, Process, Locals
<1>2. QED
  BY <1>1, Invariance, PTL

\* However a run fails, is killed or is overtaken: every receiver and
\* supervisor that it started is on record, or was given up by name.
THEOREM NoProcessLost == Spec => []Accounted
<1>1. Safe => Accounted
  BY DEF Safe
<1>2. QED
  BY <1>1, Invariance, PTL

LEMMA OthersStay ==
  ASSUME Safe, NEW q \in Pids, Exits(q), NEW p \in Pids, p # q
  PROVE  procs'[p] = procs[p]
BY DEF Exits, Exited, Safe, Typed

LEMMA SignalsRecorded ==
  ASSUME Safe, StopProcess, NEW p \in Pids, procs'[p].role # procs[p].role
  PROVE  [pid |-> p, start |-> procs[p].start] \in Records
<1>1. run.pc \in StopPlaces /\ port \in Pids \cup {None}
  BY DEF StopProcess, Safe, Typed
<1>2. CASE StopGivesUp
  <2>1. procs'[p].role = procs[p].role
    <3>1. procs[p] \in Process
      BY DEF Safe, Typed
    <3>2. \/ procs'[p] = procs[p]
          \/ procs'[p] = [procs[p] EXCEPT !.orphan = TRUE]
      BY <1>2 DEF StopGivesUp, LeftBehind
    <3>3. QED
      BY <3>1, <3>2 DEF Process
  <2>2. QED
    BY <2>1
<1>3. CASE Signal
  <2>1. /\ StopRecord \in Record /\ StopRecord \in Records
        /\ procs[StopRecord.pid].start = StopRecord.start
    BY <1>1, <1>3, StopMeans DEF Signal, MaySignal
  <2>2. StopRecord = [pid |-> StopRecord.pid, start |-> StopRecord.start]
        /\ StopRecord.pid \in Pids
    BY <2>1 DEF Record
  <2>3. StopRecord.pid = p
    BY <1>3, <2>2, OthersStay DEF Signal
  <2>4. QED
    BY <2>1, <2>2, <2>3
<1>4. CASE StopDone
  BY <1>4 DEF StopDone
<1>5. QED
  BY <1>2, <1>3, <1>4 DEF StopProcess

\* Only a free id changes its role when a process is started.
LEMMA StartsAreFree ==
  ASSUME Safe, SpawnSupervisor \/ SpawnBridge, NEW p \in Pids
  PROVE  procs'[p].role = procs[p].role \/ procs[p].role = "none"
<1> DEFINE Started(role, t) ==
      \E q \in Pids, s \in Starts :
        /\ procs[q] = Free
        /\ \/ procs' = Spawned(q, role, s, t)
           \/ procs' = [Spawned(q, role, s, t) EXCEPT ![q].orphan = TRUE]
<1>1. ASSUME NEW role, NEW t, Started(role, t)
      PROVE  procs'[p].role = procs[p].role \/ procs[p].role = "none"
  <2>1. PICK q \in Pids : /\ procs[q] = Free
                          /\ \A r \in Pids \ {q} : procs'[r] = procs[r]
    BY <1>1 DEF Spawned, Safe, Typed
  <2>2. QED
    BY <2>1 DEF Free
<1>2. SpawnSupervisor => Started("scanning", run.tunnel) \/ procs' = procs
  BY DEF SpawnSupervisor, SpawnFails
<1>3. SpawnBridge => Started("bridge", runtime) \/ procs' = procs
  BY DEF SpawnBridge, SpawnFails
<1> HIDE DEF Started
<1>4. QED
  BY <1>1, <1>2, <1>3

\* A run signals nothing but the instance that it has on record, for any
\* reuse of ids.
THEOREM StopsAreAimed == Spec => OnlyRecordedAreStopped
<1> DEFINE Aimed ==
      \A p \in Pids :
        /\ run' # run /\ procs[p].role \notin {"none", "cloudflared"}
        /\ procs'[p].role # procs[p].role
        => [pid |-> p, start |-> procs[p].start] \in Records
<1>1. Safe /\ [Next]_vars => [Aimed]_vars
  <2> SUFFICES ASSUME Safe, [Next]_vars, NEW p \in Pids, run' # run,
                      procs[p].role # "none", procs'[p].role # procs[p].role
               PROVE  [pid |-> p, start |-> procs[p].start] \in Records
    OBVIOUS
  <2>1. CASE StopProcess
    BY <2>1, SignalsRecorded
  <2>2. CASE SpawnSupervisor \/ SpawnBridge
    BY <2>2, StartsAreFree
  <2>3. CASE Killed
    <3>1. procs[p] \in Process
      BY DEF Safe, Typed
    <3>2. \/ procs'[p] = procs[p]
          \/ procs'[p] = [procs[p] EXCEPT !.orphan = TRUE]
      BY <2>3 DEF Killed, LeftBehind
    <3>3. QED
      BY <3>1, <3>2 DEF Process
  <2>4. QED
    BY <2>1, <2>2, <2>3
       DEF Next, Step, Begin, Prepare, RemoveReadiness, AwaitReadiness,
           RewriteRuntime, ProveHealth, Probe, Commit, RestoreRuntime,
           ObserveGroups, Listen, BindFails, PublishReadiness, ProcessExits,
           CloudflaredEnds, IdReused, vars
<1> HIDE DEF Aimed
<1>2. Spec => [][Aimed]_vars
  BY <1>1, Invariance, PTL DEF Spec
<1>3. QED
  BY <1>2 DEF Aimed, OnlyRecordedAreStopped

LEMMA OnlyCommits ==
  ASSUME [Next]_vars, manifest' # manifest
  PROVE  Commit
BY DEF Next, Step, Begin, Prepare, RemoveReadiness, StopProcess,
       SpawnSupervisor, AwaitReadiness, RewriteRuntime, SpawnBridge,
       ProveHealth, Probe, RestoreRuntime, ObserveGroups, Killed, Listen,
       BindFails, PublishReadiness, ProcessExits, CloudflaredEnds, IdReused,
       files, vars

LEMMA CommitIsNew ==
  ASSUME Safe, [Next]_vars, manifest' # manifest
  PROVE  /\ run.pc = "commit" /\ Recovering
         /\ manifest'.bridge = run.bridge /\ manifest'.tunnel = run.tunnel
<1>1. Commit
  BY OnlyCommits
<1>2. manifest' = NewManifest /\ run.pc = "commit"
  BY <1>1 DEF Commit
<1>3. QED
  BY <1>2 DEF NewManifest, Safe, PlaceOK

\* No commit leaves a process of the generation it replaces alive.
THEOREM OneGeneration == Spec => ReplacedAreGone
<1>1. Safe /\ [Next]_vars =>
        [Bound /\ manifest'.tunnel # manifest.tunnel
           => ~Alive(manifest.bridge) /\ ~Alive(manifest.supervisor)]_vars
  <2> SUFFICES ASSUME Safe, [Next]_vars, Bound,
                      manifest'.tunnel # manifest.tunnel
               PROVE  ~Alive(manifest.bridge) /\ ~Alive(manifest.supervisor)
    OBVIOUS
  <2>1. run.pc = "commit" /\ Recovering /\ manifest'.tunnel = run.tunnel
    BY CommitIsNew
  <2>2. InFull
    BY <2>1 DEF Safe, PlaceOK, Recovering, InFull
  <2>3. QED
    BY <2>1, <2>2 DEF Safe, OldGone, ProofPlaces
<1>2. QED
  BY <1>1, Invariance, PTL DEF Spec, ReplacedAreGone

\* The receiver that a full recovery commits is the one that answered it,
\* whatever other receivers there are.
THEOREM ProvedIsCommitted == Spec => CommittedHasAnswered
<1>1. Safe /\ [Next]_vars =>
        [manifest' # manifest /\ run.mode = "full"
           => run.answered = manifest'.bridge]_vars
  BY CommitIsNew DEF Safe, OwnBridge, InFull, Recovering
<1>2. QED
  BY <1>1, Invariance, PTL DEF Spec, CommittedHasAnswered

\* How a run ends, and where a full recovery that has begun fails.
EndsWell ==
  \/ run'.outcome \in {"none", "verified", "killed"}
  \/ run'.outcome = "stopped" /\ ObserveGroups /\ GroupsGone
  \/ /\ run'.outcome = "failed"
     /\ run.pc # "remove" /\ InFull => RemoveReadiness /\ run.pc = "cleanReady"

LEMMA RaiseEnds ==
  ASSUME Safe, run.pc # "idle", Raise
  PROVE  EndsWell
<1>1. CASE Undoes
  BY <1>1 DEF Raise, AfterRaise, EndsWell, Safe, PlaceOK, Typed, Locals
<1>2. CASE ~Undoes
  BY <1>2 DEF Raise, AfterRaise, Ended, EndsWell, Undoes, InFull
<1>3. QED
  BY <1>1, <1>2

LEMMA PrepareEnds ==
  ASSUME Safe, Prepare
  PROVE  EndsWell
<1>1. /\ run.outcome = "none" /\ run \in Locals /\ run.pc = "prepare" /\ ~InFull
  BY DEF Prepare, Safe, PlaceOK, Typed, InFull
<1>2. CASE Raise
  BY <1>1, <1>2, RaiseEnds
<1>3. CASE End("failed")
  BY <1>1, <1>3 DEF End, Ended, EndsWell
<1>4. CASE run' = [run EXCEPT !.pc = "health", !.tunnel = manifest.tunnel,
                              !.mode = IF run.post THEN @ ELSE "verify"]
  BY <1>1, <1>4 DEF Locals, EndsWell
<1>5. CASE run' = [run EXCEPT !.pc = "spawnBridge", !.mode = "bridge",
                              !.tunnel = manifest.tunnel,
                              !.supervisor = manifest.supervisor]
  BY <1>1, <1>5 DEF Locals, EndsWell
<1>6. ASSUME NEW t \in Tunnels,
             run' = [run EXCEPT !.pc = "remove", !.mode = "full", !.tunnel = t,
                                !.found = runtime,
                                !.bridgeClass = ManifestBridge,
                                !.supervisorClass = ManifestSupervisor]
      PROVE  EndsWell
  BY <1>1, <1>6 DEF Locals, EndsWell
<1>7. CASE run' = [run EXCEPT !.pc = "stopBridge", !.bridgeClass = ManifestBridge,
                              !.supervisorClass = ManifestSupervisor]
  BY <1>1, <1>7 DEF Locals, EndsWell
<1>8. QED
  BY <1>2, <1>3, <1>4, <1>5, <1>6, <1>7 DEF Prepare, Decided

LEMMA StopProcessEnds ==
  ASSUME Safe, StopProcess
  PROVE  EndsWell
<1>1. /\ run.outcome = "none" /\ run \in Locals /\ run.pc \in StopPlaces
      /\ run.pc # "idle"
  BY DEF StopProcess, StopPlaces, Safe, PlaceOK, Typed
<1>2. AfterStop = "idle" => ~InFull
  BY <1>1 DEF AfterStop, StopPlaces, InFull
<1>3. CASE StopDone
  BY <1>1, <1>2, <1>3 DEF StopDone, Continued, Ended, EndsWell, Locals
<1>4. CASE Signal
  BY <1>1, <1>4 DEF Signal, EndsWell, Locals
<1>5. CASE StopGivesUp /\ run.pc \in {"cleanBridge", "cleanSupervisor"}
  BY <1>1, <1>2, <1>5
     DEF StopGivesUp, StopRaised, Continued, Ended, EndsWell, Locals
<1>6. CASE StopGivesUp /\ run.pc \notin {"cleanBridge", "cleanSupervisor"}
  BY <1>1, <1>6, RaiseEnds DEF StopGivesUp, StopRaised, Raise
<1>7. QED
  BY <1>3, <1>4, <1>5, <1>6 DEF StopProcess

LEMMA RunEnds ==
  ASSUME Safe, [Next]_vars, run.pc # "idle"
  PROVE  EndsWell
<1>1. run.outcome = "none" /\ run \in Locals
  BY DEF Safe, PlaceOK, Typed
<1>2. CASE run' = run
  BY <1>1, <1>2 DEF EndsWell
<1>3. CASE Raise
  BY <1>3, RaiseEnds
<1>4. CASE RemoveReadiness
  <2>1. CASE Go("stopBridge")
    BY <1>1, <2>1 DEF Go, EndsWell, Locals
  <2>2. CASE End("failed")
    <3>1. run'.outcome = "failed" /\ run.pc \in {"remove", "cleanReady"}
      BY <1>4, <2>2 DEF RemoveReadiness, End, Ended
    <3>2. QED
      BY <1>4, <3>1 DEF EndsWell
  <2>3. QED
    BY <1>4, <2>1, <2>2 DEF RemoveReadiness
<1>5. CASE Probe
  <2>1. CASE End("verified")
    BY <2>1 DEF End, Ended, EndsWell
  <2>2. ASSUME NEW r, run' = [run EXCEPT !.pc = "commit", !.answered = r]
        PROVE  EndsWell
    BY <1>1, <2>2 DEF EndsWell, Locals
  <2>3. QED
    BY <1>3, <1>5, <2>1, <2>2 DEF Probe, ProbeAnswered
<1>6. CASE ObserveGroups
  BY <1>6 DEF ObserveGroups, End, Ended, EndsWell, Safe, PlaceOK, InFull
<1>7. CASE Killed
  BY <1>7 DEF Killed, End, Ended, EndsWell
<1>8. CASE SpawnSupervisor \/ SpawnBridge
  <2>1. ASSUME NEW r,
               \/ run' = [run EXCEPT !.pc = "await", !.supervisor = r]
               \/ run' = [run EXCEPT !.pc = "health", !.bridge = r]
        PROVE  EndsWell
    BY <1>1, <2>1 DEF EndsWell, Locals
  <2>2. QED
    BY <1>3, <1>8, <2>1 DEF SpawnSupervisor, SpawnBridge, SpawnFails
<1>9. CASE AwaitReadiness \/ RewriteRuntime \/ ProveHealth
  <2>1. ASSUME NEW pc, Go(pc)
        PROVE  EndsWell
    BY <1>1, <2>1 DEF Go, EndsWell, Locals
  <2>2. CASE run' = [run EXCEPT !.pc = "spawnBridge", !.original = runtime]
    BY <1>1, <2>2 DEF EndsWell, Locals
  <2>3. QED
    BY <1>3, <1>9, <2>1, <2>2 DEF AwaitReadiness, RewriteRuntime, ProveHealth
<1>10. CASE Commit \/ RestoreRuntime
  BY <1>1, <1>3, <1>10 DEF Commit, RestoreRuntime, Go, Ended, EndsWell, Locals
<1>11. QED
  BY <1>2, <1>4, <1>5, <1>6, <1>7, <1>8, <1>9, <1>10, PrepareEnds,
     StopProcessEnds
     DEF Next, Step, Begin, Listen, BindFails, PublishReadiness, ProcessExits,
         CloudflaredEnds, IdReused, vars

\* The hostname that a full recovery has found is the one in the file until it
\* is replaced, and the one that is put back.
UntilReplaced == OldPlaces \cup {"spawnSupervisor", "await", "rewrite"}
HostnameFound ==
  /\ run.pc = "prepare" => run.original = None
  /\ InFull =>
       /\ run.pc \in UntilReplaced => runtime = run.found /\ run.original = None
       /\ \/ run.original = None /\ runtime \in {run.found, run.tunnel}
          \/ run.original # None /\ run.original = run.found

\* A step that has nothing to do with the hostname.
SameHostname ==
  /\ run'.mode = run.mode /\ run'.post = run.post /\ run'.tunnel = run.tunnel
  /\ run'.original = run.original /\ run'.found = run.found
  /\ run'.pc \in UntilReplaced => run.pc \in UntilReplaced
  /\ run'.pc = "prepare" => run.pc = "prepare"

LEMMA SameHostnameKeeps ==
  ASSUME HostnameFound, SameHostname, runtime' = runtime
  PROVE  HostnameFound'
BY DEF HostnameFound, SameHostname, InFull

LEMMA OutsideFullKeeps ==
  ASSUME run'.mode # "full" \/ run'.post,
         run'.pc = "prepare" => run'.original = None
  PROVE  HostnameFound'
BY DEF HostnameFound, InFull

LEMMA EndedHostname ==
  ASSUME NEW o, run' = Ended(o)
  PROVE  HostnameFound'
BY OutsideFullKeeps DEF Ended

LEMMA RaiseHostname ==
  ASSUME Safe, HostnameFound, Raise, run.pc # "idle",
         runtime' = runtime \/ (run.pc = "rewrite" /\ runtime' = run.tunnel)
  PROVE  HostnameFound'
<1>1. CASE run' = Ended("failed")
  BY <1>1, EndedHostname
<1>2. CASE run' = [run EXCEPT !.pc = "cleanBridge", !.stage = "term"]
  <2>1. /\ run'.pc = "cleanBridge" /\ run'.mode = run.mode /\ run'.post = run.post
        /\ run'.tunnel = run.tunnel /\ run'.original = run.original
        /\ run'.found = run.found
    BY <1>2 DEF Safe, Typed, Locals
  <2>2. QED
    BY <2>1 DEF HostnameFound, InFull, UntilReplaced, OldPlaces
<1>3. QED
  BY <1>1, <1>2, RaiseCases

LEMMA PrepareHostname ==
  ASSUME Safe, HostnameFound, Prepare
  PROVE  HostnameFound'
<1>1. /\ run \in Locals /\ run.pc = "prepare" /\ run.original = None
      /\ runtime' = runtime
      /\ run.mode \in IF run.post THEN {"bridge", "full"} ELSE {"recover", "stop"}
  BY DEF Prepare, Safe, PlaceOK, Typed, HostnameFound, files
<1>2. CASE Raise \/ End("failed")
  BY <1>1, <1>2, RaiseHostname, EndedHostname DEF End
<1>3. CASE run' = [run EXCEPT !.pc = "health", !.tunnel = manifest.tunnel,
                              !.mode = IF run.post THEN @ ELSE "verify"]
  <2>1. run'.pc = "health" /\ (run'.post \/ run'.mode = "verify")
    BY <1>1, <1>3 DEF Locals
  <2>2. QED
    BY <2>1, OutsideFullKeeps
<1>4. CASE run' = [run EXCEPT !.pc = "spawnBridge", !.mode = "bridge",
                              !.tunnel = manifest.tunnel,
                              !.supervisor = manifest.supervisor]
  <2>1. run'.pc = "spawnBridge" /\ run'.mode = "bridge"
    BY <1>1, <1>4 DEF Locals
  <2>2. QED
    BY <2>1, OutsideFullKeeps
<1>5. ASSUME NEW t \in Tunnels,
             run' = [run EXCEPT !.pc = "remove", !.mode = "full", !.tunnel = t,
                                !.found = runtime,
                                !.bridgeClass = ManifestBridge,
                                !.supervisorClass = ManifestSupervisor]
      PROVE  HostnameFound'
  <2>1. /\ run'.pc = "remove" /\ run'.found = runtime /\ run'.original = None
    BY <1>1, <1>5 DEF Locals
  <2>2. QED
    BY <1>1, <2>1 DEF HostnameFound
<1>6. CASE /\ run.mode = "stop"
           /\ run' = [run EXCEPT !.pc = "stopBridge", !.bridgeClass = ManifestBridge,
                                 !.supervisorClass = ManifestSupervisor]
  <2>1. run'.pc = "stopBridge" /\ run'.mode = "stop"
    BY <1>1, <1>6 DEF Locals
  <2>2. QED
    BY <2>1, OutsideFullKeeps
<1>7. QED
  BY <1>2, <1>3, <1>4, <1>5, <1>6, ZenonT(30) DEF Prepare, Decided

LEMMA StopHostname ==
  ASSUME Safe, HostnameFound, StopProcess
  PROVE  HostnameFound'
<1>1. /\ run.pc \in StopPlaces /\ run \in Locals /\ runtime' = runtime
      /\ run.pc # "idle"
  BY DEF StopProcess, StopPlaces, Safe, Typed, files
<1>2. /\ AfterStop \in UntilReplaced => run.pc \in UntilReplaced
      /\ AfterStop # "prepare"
  BY <1>1 DEF AfterStop, StopPlaces, UntilReplaced, OldPlaces
<1>3. CASE StopDone
  <2>1. CASE AfterStop = "idle"
    BY <1>3, <2>1, EndedHostname DEF StopDone, Continued
  <2>2. CASE AfterStop # "idle"
    <3>1. run' = [run EXCEPT !.pc = AfterStop, !.stage = "term"]
      BY <1>3, <2>2 DEF StopDone, Continued
    <3>2. SameHostname
      BY <1>1, <1>2, <3>1 DEF SameHostname, Locals
    <3>3. QED
      BY <1>1, <3>2, SameHostnameKeeps
  <2>3. QED
    BY <2>1, <2>2
<1>4. CASE Signal
  <2>1. SameHostname
    BY <1>1, <1>4 DEF Signal, SameHostname, Locals
  <2>2. QED
    BY <1>1, <2>1, SameHostnameKeeps
<1>5. CASE StopGivesUp /\ run.pc \in {"cleanBridge", "cleanSupervisor"}
  <2>1. CASE AfterStop = "idle"
    BY <1>5, <2>1, EndedHostname DEF StopGivesUp, StopRaised, Continued
  <2>2. CASE AfterStop # "idle"
    <3>1. run' = [run EXCEPT !.left = @ \cup {StopPart}, !.pc = AfterStop,
                             !.stage = "term"]
      BY <1>1, <1>5, <2>2 DEF StopGivesUp, StopRaised, Continued, Locals
    <3>2. SameHostname
      BY <1>1, <1>2, <3>1 DEF SameHostname, Locals
    <3>3. QED
      BY <1>1, <3>2, SameHostnameKeeps
  <2>3. QED
    BY <2>1, <2>2
<1>6. CASE StopGivesUp /\ run.pc \notin {"cleanBridge", "cleanSupervisor"}
  BY <1>1, <1>6, RaiseHostname DEF StopGivesUp, StopRaised, Raise
<1>7. QED
  BY <1>3, <1>4, <1>5, <1>6 DEF StopProcess

LEMMA WriteHostname ==
  ASSUME Safe, HostnameFound, RewriteRuntime \/ RestoreRuntime
  PROVE  HostnameFound'
<1>1. run \in Locals /\ run.pc \in {"rewrite", "restore"} /\ InFull
  BY DEF RewriteRuntime, RestoreRuntime, Safe, Typed, PlaceOK, UndoPlaces
<1>2. CASE Raise /\ RewriteRuntime
  BY <1>1, <1>2, RaiseHostname DEF RewriteRuntime
<1>3. CASE /\ run.pc = "rewrite" /\ runtime' = run.tunnel
           /\ run' = [run EXCEPT !.pc = "spawnBridge", !.original = runtime]
  <2>1. runtime = run.found /\ runtime # None
    BY <1>1, <1>3, BoundsAssumption
       DEF HostnameFound, UntilReplaced, Safe, Typed, Bootstrap
  <2>2. /\ run'.pc = "spawnBridge" /\ run'.original = runtime
        /\ run'.found = run.found
    BY <1>1, <1>3 DEF Locals
  <2>3. QED
    BY <2>1, <2>2 DEF HostnameFound, UntilReplaced, OldPlaces
<1>4. CASE RestoreRuntime
  <2>1. /\ run'.pc = "cleanReady" /\ run'.original = run.original
        /\ run'.found = run.found /\ run'.tunnel = run.tunnel
        /\ run.original = None => runtime' = runtime
    BY <1>1, <1>4 DEF RestoreRuntime, Go, Locals
  <2>2. QED
    BY <1>1, <2>1 DEF HostnameFound, UntilReplaced, OldPlaces
<1>5. QED
  BY <1>2, <1>3, <1>4 DEF RewriteRuntime

LEMMA HostnameKept ==
  ASSUME Safe, HostnameFound, [Next]_vars
  PROVE  HostnameFound'
<1>1. run \in Locals
  BY DEF Safe, Typed
<1>2. CASE UNCHANGED <<run, runtime>>
  BY <1>2 DEF HostnameFound, InFull
<1>3. ASSUME NEW o, End(o)
      PROVE  HostnameFound'
  BY <1>3, EndedHostname DEF End
<1>4. ASSUME Raise, runtime' = runtime, run.pc # "idle"
      PROVE  HostnameFound'
  BY <1>4, RaiseHostname
<1>5. ASSUME NEW pc, Go(pc), runtime' = runtime, pc # "prepare",
             pc \in UntilReplaced => run.pc \in UntilReplaced
      PROVE  HostnameFound'
  <2>1. SameHostname
    BY <1>1, <1>5 DEF Go, SameHostname, Locals
  <2>2. QED
    BY <1>5, <2>1, SameHostnameKeeps
<1>6. CASE RemoveReadiness
  BY <1>3, <1>5, <1>6 DEF RemoveReadiness, UntilReplaced, OldPlaces
<1>7. CASE AwaitReadiness \/ ProveHealth
  <2>1. runtime' = runtime /\ run.pc # "idle"
    BY <1>7 DEF AwaitReadiness, ProveHealth, files
  <2>2. QED
    BY <1>4, <1>5, <1>7, <2>1
       DEF AwaitReadiness, ProveHealth, UntilReplaced, OldPlaces
<1>8. CASE SpawnSupervisor \/ SpawnBridge
  <2>1. /\ runtime' = runtime /\ run.pc # "idle"
        /\ run.pc \in {"spawnSupervisor", "spawnBridge"}
    BY <1>8, Zenon DEF SpawnSupervisor, SpawnBridge, files
  <2>2. ASSUME NEW r,
               \/ /\ run.pc = "spawnSupervisor"
                  /\ run' = [run EXCEPT !.pc = "await", !.supervisor = r]
               \/ run' = [run EXCEPT !.pc = "health", !.bridge = r]
        PROVE  HostnameFound'
    <3>1. SameHostname
      BY <1>1, <2>1, <2>2 DEF SameHostname, Locals, UntilReplaced, OldPlaces
    <3>2. QED
      BY <2>1, <3>1, SameHostnameKeeps
  <2>3. QED
    BY <1>4, <1>8, <2>1, <2>2 DEF SpawnSupervisor, SpawnBridge, SpawnFails
<1>9. CASE Probe
  <2>1. runtime' = runtime /\ run.pc # "idle"
    BY <1>9 DEF Probe, files
  <2>2. ASSUME NEW r, run' = [run EXCEPT !.pc = "commit", !.answered = r]
        PROVE  HostnameFound'
    <3>1. SameHostname
      BY <1>1, <2>2 DEF SameHostname, Locals, UntilReplaced, OldPlaces
    <3>2. QED
      BY <2>1, <3>1, SameHostnameKeeps
  <2>3. QED
    BY <1>3, <1>4, <1>9, <2>1, <2>2 DEF Probe, ProbeAnswered
<1>10. CASE Commit
  <2>1. CASE Raise
    BY <1>4, <1>10, <2>1 DEF Commit
  <2>2. CASE run' = [Ended("none") EXCEPT !.pc = "prepare", !.mode = run.mode,
                                          !.post = TRUE]
    BY <2>2, OutsideFullKeeps DEF Ended
  <2>3. QED
    BY <1>10, <2>1, <2>2 DEF Commit
<1>11. ASSUME NEW mode \in {"recover", "stop"}, Begin(mode)
       PROVE  HostnameFound'
  BY <1>11, OutsideFullKeeps DEF Begin, Ended
<1>12. CASE ObserveGroups \/ Killed
  BY <1>3, <1>12 DEF ObserveGroups, Killed
<1>13. ASSUME NEW q \in Pids,
              Listen(q) \/ BindFails(q) \/ PublishReadiness(q)
                \/ ProcessExits(q) \/ CloudflaredEnds(q) \/ IdReused(q)
       PROVE  UNCHANGED <<run, runtime>>
  BY <1>13 DEF Listen, BindFails, PublishReadiness, ProcessExits,
               CloudflaredEnds, IdReused, files
<1>14. UNCHANGED vars => UNCHANGED <<run, runtime>>
  BY DEF vars
<1>15. QED
  BY <1>2, <1>6, <1>7, <1>8, <1>9, <1>10, <1>11, <1>12, <1>13, <1>14,
     PrepareHostname, StopHostname, WriteHostname DEF Next, Step

\* A full recovery that reports failure has undone each part whose own undoing
\* has not failed, wherever it failed and whatever else could not be undone;
\* the hostname that it found stays replaced only by a write that failed after
\* it had replaced the file, or when restoring it failed.
THEOREM FailuresUndone == Spec => FailureUndoes
<1> DEFINE Undid ==
      /\ run.mode = "full" /\ ~run.post
      /\ run.pc # "remove" /\ run'.outcome = "failed"
      => /\ \A part \in {"bridge", "supervisor"} \ run.left :
              run[part] # None => ~Alive(run[part])
         /\ \/ runtime' = run.found \/ "runtime" \in run.left
            \/ run.original = None /\ runtime' = run.tunnel
<1>1. Safe /\ HostnameFound /\ [Next]_vars => [Undid]_vars
  <2> SUFFICES ASSUME Safe, HostnameFound, [Next]_vars, InFull,
                      run.pc # "remove", run'.outcome = "failed"
               PROVE  /\ \A part \in {"bridge", "supervisor"} \ run.left :
                           run[part] # None => ~Alive(run[part])
                      /\ \/ runtime' = run.found \/ "runtime" \in run.left
                         \/ run.original = None /\ runtime' = run.tunnel
    BY DEF InFull
  <2>1. run.pc # "idle"
    BY DEF Safe, PlaceOK, InFull
  <2>2. RemoveReadiness /\ run.pc = "cleanReady"
    BY <2>1, RunEnds DEF EndsWell
  <2>3. Undone("bridge") /\ Undone("supervisor")
    BY <2>2 DEF Safe, Undoing, UndoPlaces
  <2>4. runtime' = runtime
    BY <2>2 DEF RemoveReadiness
  <2>5. \/ run.original # None /\ ("runtime" \in run.left \/ runtime = run.found)
        \/ run.original = None /\ runtime \in {run.found, run.tunnel}
    BY <2>2 DEF Safe, Undoing, HostnameFound
  <2>6. QED
    BY <2>3, <2>4, <2>5 DEF Undone
<1> HIDE DEF Undid
<1>2. Init => HostnameFound
  BY OutsideFullKeeps DEF Init, Ended, HostnameFound, InFull
<1>3. Spec => []HostnameFound
  BY <1>2, HostnameKept, Invariance, PTL DEF Spec
<1>4. Spec => [][Undid]_vars
  BY <1>1, <1>3, Invariance, PTL DEF Spec
<1>5. QED
  BY <1>4 DEF Undid, FailureUndoes


-----------------------------------------------------------------------------
(* The promise of Ingress.                                                 *)

\* A full recovery is for a hostname that is not the committed one.
Differs == Forward /\ run.mode = "full" /\ Bound => run.tunnel # manifest.tunnel

\* One step, seen from outside.
IngressStep == Ingress!Next

LEMMA PartsOf ==
  ASSUME Safe
  PROVE  /\ "bridge" \in Serving <=> Bound /\ Alive(manifest.bridge)
         /\ "supervisor" \in Serving <=> Bound /\ Alive(manifest.supervisor)
         /\ "bridge" \in Coming <=>
              /\ run.bridge # None /\ Alive(run.bridge)
              /\ Bound => run.bridge # manifest.bridge
         /\ "supervisor" \in Coming <=>
              /\ run.supervisor # None /\ Alive(run.supervisor)
              /\ Bound => run.supervisor # manifest.supervisor
         /\ Serving \subseteq {"bridge", "supervisor"}
         /\ Coming \subseteq {"bridge", "supervisor"}
BY DEF Serving, Coming

LEMMA PartsOfNext ==
  ASSUME Safe'
  PROVE  /\ "bridge" \in Serving' <=> Bound' /\ AliveNext(manifest'.bridge)
         /\ "supervisor" \in Serving' <=> Bound' /\ AliveNext(manifest'.supervisor)
         /\ "bridge" \in Coming' <=>
              /\ run'.bridge # None /\ AliveNext(run'.bridge)
              /\ Bound' => run'.bridge # manifest'.bridge
         /\ "supervisor" \in Coming' <=>
              /\ run'.supervisor # None /\ AliveNext(run'.supervisor)
              /\ Bound' => run'.supervisor # manifest'.supervisor
         /\ Serving' \subseteq {"bridge", "supervisor"}
         /\ Coming' \subseteq {"bridge", "supervisor"}
BY DEF Serving, Coming, Alive, AliveNext, WorkRoles

\* No process on record appears, and no record is made: parts only end.
RecordsKept ==
  /\ manifest' = manifest
  /\ \A r \in Records : AliveNext(r) => Alive(r)
  /\ \/ run'.bridge = run.bridge /\ run'.supervisor = run.supervisor
     \/ run'.bridge = None /\ run'.supervisor = None

LEMMA PartsEnd ==
  ASSUME Safe, RecordsKept
  PROVE  Serving' \subseteq Serving /\ Coming' \subseteq Coming
         /\ Hostname' = Hostname
<1>1. /\ Bound' = Bound /\ Hostname' = Hostname
  BY DEF RecordsKept, Bound, Hostname
<1>2. Bound => {manifest.bridge, manifest.supervisor} \subseteq Records
  BY RecordsTyped
<1>3. /\ run.bridge # None => run.bridge \in Records
      /\ run.supervisor # None => run.supervisor \in Records
  BY RecordsTyped
<1>4. Serving' \subseteq Serving
  BY <1>1, <1>2 DEF Serving, RecordsKept, Alive, AliveNext, WorkRoles
<1>5. Coming' \subseteq Coming
  BY <1>1, <1>3 DEF Coming, RecordsKept, Alive, AliveNext, WorkRoles
<1>6. QED
  BY <1>1, <1>4, <1>5

LEMMA EndsStep ==
  ASSUME Safe, RecordsKept, Planned' = Planned, Answered' = Answered
  PROVE  IngressStep
BY PartsEnd DEF IngressStep, Ingress!Next, Ingress!Ends

LEMMA GiveUpStep ==
  ASSUME Safe, RecordsKept, Forward, ~Forward', ~Answered'
  PROVE  IngressStep
<1>1. Planned # None /\ Planned' = None /\ Answered' = FALSE
  BY BoundsAssumption
     DEF Planned, Forward, Answered, Safe, PlaceOK, Recovering
<1>2. QED
  BY <1>1, PartsEnd DEF IngressStep, Ingress!Next, Ingress!GiveUp

LEMMA SameRecords ==
  ASSUME Safe, UNCHANGED <<procs, manifest>>,
         \/ run'.bridge = run.bridge /\ run'.supervisor = run.supervisor
         \/ run'.bridge = None /\ run'.supervisor = None
  PROVE  RecordsKept
BY DEF RecordsKept, Alive, AliveNext, WorkRoles

LEMMA KeptRecords ==
  ASSUME Safe, Kept, manifest' = manifest,
         \/ run'.bridge = run.bridge /\ run'.supervisor = run.supervisor
         \/ run'.bridge = None /\ run'.supervisor = None
  PROVE  RecordsKept
BY KeptAlive, RecordsTyped DEF RecordsKept

\* A run that has ended is at no recovery.
LEMMA EndedIs ==
  ASSUME NEW o, run' = Ended(o)
  PROVE  /\ ~Forward' /\ ~Answered'
         /\ run'.bridge = None /\ run'.supervisor = None
BY DEF Ended, Forward, Answered

LEMMA UndoingIs ==
  ASSUME Safe, run' = [run EXCEPT !.pc = "cleanBridge", !.stage = "term"]
  PROVE  /\ ~Forward' /\ ~Answered'
         /\ run'.bridge = run.bridge /\ run'.supervisor = run.supervisor
BY DEF Forward, Answered, Safe, Typed, Locals

\* An error gives a recovery up, or leaves one that had not begun.
LEMMA RaiseStep ==
  ASSUME Safe, run.pc # "idle", Raise, manifest' = manifest,
         \A r \in Records : AliveNext(r) => Alive(r)
  PROVE  IngressStep
<1>1. /\ ~Forward' /\ ~Answered' /\ RecordsKept
      /\ run.pc = "commit" => Forward
  BY RaiseCases, EndedIs, UndoingIs
     DEF RecordsKept, Safe, PlaceOK, Recovering, Forward
<1>2. CASE Forward
  BY <1>1, <1>2, GiveUpStep
<1>3. CASE ~Forward
  <2>1. Planned' = Planned /\ Answered' = Answered
    BY <1>1, <1>3 DEF Planned, Answered
  <2>2. QED
    BY <1>1, <2>1, EndsStep
<1>4. QED
  BY <1>2, <1>3

\* So does the end of a run, if there was a recovery.
LEMMA EndStep ==
  ASSUME Safe, NEW o, run' = Ended(o), manifest' = manifest,
         \A r \in Records : AliveNext(r) => Alive(r)
  PROVE  IngressStep
<1>1. /\ ~Forward' /\ ~Answered' /\ RecordsKept
      /\ run.pc = "commit" => Forward
  BY EndedIs DEF RecordsKept, Safe, PlaceOK, Recovering, Forward
<1>2. CASE Forward
  BY <1>1, <1>2, GiveUpStep
<1>3. CASE ~Forward
  <2>1. Planned' = Planned /\ Answered' = Answered
    BY <1>1, <1>3 DEF Planned, Answered
  <2>2. QED
    BY <1>1, <2>1, EndsStep
<1>4. QED
  BY <1>2, <1>3

LEMMA NothingAppears ==
  ASSUME Safe, Kept \/ UNCHANGED procs
  PROVE  \A r \in Records : AliveNext(r) => Alive(r)
BY KeptAlive, RecordsTyped DEF Alive, AliveNext, WorkRoles

LEMMA PlaceGoesOn ==
  ASSUME Safe, NEW pc \in Places, Go(pc)
  PROVE  GoesOn(pc)
<1>1. run \in Locals /\ run' = [run EXCEPT !.pc = pc, !.stage = "term"]
  BY DEF Safe, Typed, Go
<1>2. run' \in Locals
  BY <1>1 DEF Locals
<1>3. QED
  BY <1>1, <1>2 DEF GoesOn, Locals

\* A step of the run that goes on, on the same side of its undoing.
LEMMA GoStep ==
  ASSUME Safe, NEW pc, GoesOn(pc),
         pc \in {"cleanBridge"} \cup UndoPlaces
           <=> run.pc \in {"cleanBridge"} \cup UndoPlaces,
         pc # "commit", run.pc # "commit",
         manifest' = manifest, Kept \/ UNCHANGED procs
  PROVE  IngressStep
<1>1. /\ run'.pc = pc /\ run'.mode = run.mode /\ run'.post = run.post
      /\ run'.bridge = run.bridge /\ run'.supervisor = run.supervisor
      /\ run'.tunnel = run.tunnel
  BY DEF GoesOn
<1>2. Forward' <=> Forward
  BY <1>1 DEF Forward, UndoPlaces
<1>3. Planned' = Planned /\ Answered' = Answered
  BY <1>1, <1>2 DEF Planned, Answered
<1>4. RecordsKept
  BY <1>1, NothingAppears DEF RecordsKept
<1>5. QED
  BY <1>3, <1>4, EndsStep

LEMMA PrepareStep ==
  ASSUME Safe, Prepare
  PROVE  IngressStep
<1>1. /\ NoRecords /\ run \in Locals /\ run.pc = "prepare" /\ ~Forward
      /\ run.mode \in IF run.post THEN {"bridge", "full"} ELSE {"recover", "stop"}
      /\ UNCHANGED <<procs, manifest>>
  BY DEF Prepare, Safe, PlaceOK, Typed, Forward, files
<1>2. \A r \in Records : AliveNext(r) => Alive(r)
  BY <1>1, NothingAppears
<1>3. CASE Raise
  BY <1>1, <1>2, <1>3, RaiseStep
<1>4. CASE End("failed")
  BY <1>1, <1>2, <1>4, EndStep DEF End
<1>5. Bound => /\ manifest.tunnel \in Tunnels /\ manifest.supervisor # None
  BY BoundsAssumption DEF Safe, Typed, Bound, Manifest, Record
<1>6. Coming = {} /\ Planned = None /\ ~Answered
  BY <1>1 DEF Coming, Planned, Answered, NoRecords
<1>7. Serving' = Serving /\ Hostname' = Hostname
  BY <1>1 DEF Serving, Hostname, Bound, Alive
<1>8. CASE /\ MayVerify
           /\ run' = [run EXCEPT !.pc = "health", !.tunnel = manifest.tunnel,
                                 !.mode = IF run.post THEN @ ELSE "verify"]
  <2>1. /\ run'.pc = "health" /\ run'.bridge = None /\ run'.supervisor = None
        /\ run'.post \/ run'.mode = "verify"
    BY <1>1, <1>8 DEF Locals, NoRecords
  <2>2. Planned' = Planned /\ Answered' = Answered
    BY <1>6, <2>1 DEF Planned, Answered, Forward
  <2>3. QED
    BY <1>1, <2>1, <2>2, SameRecords, EndsStep
<1>9. CASE /\ run.mode = "recover" /\ MayReplaceBridge
           /\ run' = [run EXCEPT !.pc = "spawnBridge", !.mode = "bridge",
                                 !.tunnel = manifest.tunnel,
                                 !.supervisor = manifest.supervisor]
  <2>1. Bound
    BY <1>9 DEF MayReplaceBridge, Matches
  <2>2. /\ run'.pc = "spawnBridge" /\ run'.mode = "bridge" /\ ~run'.post
        /\ run'.tunnel = manifest.tunnel /\ run'.bridge = None
        /\ run'.supervisor = manifest.supervisor
    BY <1>1, <1>9 DEF Locals, NoRecords
  <2>3. Planned' = manifest.tunnel /\ ~Answered'
    BY <2>2 DEF Planned, Forward, Answered
  <2>4. Coming' = {}
    BY <1>1, <2>1, <2>2 DEF Coming, Bound
  <2>5. QED
    BY <1>5, <1>6, <1>7, <2>1, <2>3, <2>4
       DEF IngressStep, Ingress!Next, Ingress!Plan, Answered
<1>10. ASSUME NEW t \in Tunnels, run.mode = "recover",
              run' = [run EXCEPT !.pc = "remove", !.mode = "full", !.tunnel = t,
                                 !.found = runtime,
                                 !.bridgeClass = ManifestBridge,
                                 !.supervisorClass = ManifestSupervisor]
       PROVE  IngressStep
  <2>1. /\ run'.pc = "remove" /\ run'.mode = "full" /\ ~run'.post
        /\ run'.tunnel = t /\ run'.bridge = None /\ run'.supervisor = None
    BY <1>1, <1>10 DEF Locals, NoRecords
  <2>2. Planned' = t /\ ~Answered' /\ Coming' = {}
    BY <2>1 DEF Planned, Forward, Answered, Coming
  <2>3. QED
    BY <1>6, <1>7, <2>2 DEF IngressStep, Ingress!Next, Ingress!Plan, Answered
<1>11. CASE /\ run.mode = "stop"
            /\ run' = [run EXCEPT !.pc = "stopBridge", !.bridgeClass = ManifestBridge,
                                  !.supervisorClass = ManifestSupervisor]
  <2>1. /\ run'.pc = "stopBridge" /\ run'.mode = "stop"
        /\ run'.bridge = None /\ run'.supervisor = None
    BY <1>1, <1>11 DEF Locals, NoRecords
  <2>2. Planned' = Planned /\ Answered' = Answered
    BY <1>6, <2>1 DEF Planned, Answered, Forward
  <2>3. QED
    BY <1>1, <2>1, <2>2, SameRecords, EndsStep
<1>12. QED
  BY <1>3, <1>4, <1>8, <1>9, <1>10, <1>11, ZenonT(30) DEF Prepare, Decided

LEMMA BeginStep ==
  ASSUME Safe, NEW mode \in {"recover", "stop"}, Begin(mode)
  PROVE  IngressStep
<1>1. /\ run'.pc = "prepare" /\ run'.mode = mode
      /\ run'.bridge = None /\ run'.supervisor = None
      /\ manifest' = manifest /\ UNCHANGED procs /\ run.pc = "idle"
      /\ run.mode = "none"
  BY DEF Begin, Ended, files, Safe, PlaceOK
<1>2. Planned' = Planned /\ Answered' = Answered
  BY <1>1 DEF Planned, Answered, Forward
<1>3. RecordsKept
  BY <1>1, NothingAppears DEF RecordsKept
<1>4. QED
  BY <1>2, <1>3, EndsStep

LEMMA RemoveReadinessStep ==
  ASSUME Safe, RemoveReadiness
  PROVE  IngressStep
<1>1. /\ run.pc \in {"remove", "cleanReady"} /\ manifest' = manifest
      /\ UNCHANGED procs
  BY DEF RemoveReadiness
<1>2. \A r \in Records : AliveNext(r) => Alive(r)
  BY <1>1, NothingAppears
<1>3. CASE End("failed")
  BY <1>1, <1>2, <1>3, EndStep DEF End
<1>4. CASE run.pc = "remove" /\ Go("stopBridge")
  <2>1. GoesOn("stopBridge")
    BY <1>4, PlaceGoesOn DEF Places, StopPlaces
  <2>2. QED
    BY <1>1, <1>4, <2>1, GoStep DEF UndoPlaces
<1>5. QED
  BY <1>1, <1>3, <1>4 DEF RemoveReadiness

\* Where a stop leads: on the same side of the undoing, or to its end.
LEMMA AfterStopSide ==
  ASSUME run.pc \in StopPlaces
  PROVE  /\ AfterStop # "commit"
         /\ AfterStop # "idle" => AfterStop \in Places
         /\ AfterStop # "idle" =>
              (AfterStop \in {"cleanBridge"} \cup UndoPlaces
                 <=> run.pc \in {"cleanBridge"} \cup UndoPlaces)
BY DEF AfterStop, StopPlaces, Places, UndoPlaces

LEMMA StopProcessStep ==
  ASSUME Safe, StopProcess
  PROVE  IngressStep
<1>1. /\ run.pc \in StopPlaces /\ UNCHANGED <<files, told>>
      /\ UNCHANGED <<manifest, runtime>> /\ run \in Locals
      /\ run.pc # "commit" /\ run.pc # "idle"
  BY DEF StopProcess, files, Safe, Typed, StopPlaces
<1>2. ASSUME NEW o, run' = Ended(o), Kept
      PROVE  IngressStep
  BY <1>1, <1>2, NothingAppears, EndStep
<1>3. CASE StopDone
  <2>1. Kept
    BY <1>3, StillFits DEF StopDone
  <2>2. CASE AfterStop = "idle"
    BY <1>2, <1>3, <2>1, <2>2 DEF StopDone, Continued
  <2>3. CASE AfterStop # "idle"
    <3>1. Go(AfterStop)
      BY <1>3, <2>3 DEF StopDone, Continued, Go
    <3>2. GoesOn(AfterStop)
      BY <1>1, <2>3, <3>1, AfterStopSide, PlaceGoesOn
    <3>3. QED
      BY <1>1, <2>1, <2>3, <3>2, AfterStopSide, GoStep
  <2>4. QED
    BY <2>2, <2>3
<1>4. CASE Signal
  <2>1. StopRecord \in Record
    BY <1>1, <1>4, StopMeans DEF Signal, MaySignal
  <2>2. Kept
    BY <1>4, <2>1, ExitFits, StillFits DEF Signal, Record
  <2>3. GoesOn(run.pc)
    <3>1. PICK stage \in {"kill", "last"} : run' = [run EXCEPT !.stage = stage]
      BY <1>4 DEF Signal
    <3>2. QED
      BY <1>1, <3>1 DEF GoesOn, Locals
  <2>4. QED
    BY <1>1, <2>2, <2>3, GoStep
<1>5. CASE StopGivesUp
  <2>1. Kept
    BY <1>5, LeftFits DEF StopGivesUp
  <2>2. CASE run.pc \in {"cleanBridge", "cleanSupervisor"}
    <3>1. run' = IF AfterStop = "idle" THEN Ended("failed")
                 ELSE [run EXCEPT !.left = @ \cup {StopPart}, !.pc = AfterStop,
                                  !.stage = "term"]
      BY <1>1, <1>5, <2>2 DEF StopGivesUp, StopRaised, Continued, Locals
    <3>2. CASE AfterStop = "idle"
      BY <1>2, <2>1, <3>1, <3>2
    <3>3. CASE AfterStop # "idle"
      <4>1. run' = [run EXCEPT !.left = @ \cup {StopPart}, !.pc = AfterStop,
                               !.stage = "term"]
        BY <3>1, <3>3
      <4>2. GoesOn(AfterStop)
        <5>1. StopPart \in Parts /\ AfterStop \in Places
          BY <1>1, <3>3, AfterStopSide DEF StopPart, Parts
        <5>2. QED
          BY <4>1, <5>1, PartIsLeft
      <4>3. QED
        BY <1>1, <2>1, <3>3, <4>2, AfterStopSide, GoStep
    <3>4. QED
      BY <3>2, <3>3
  <2>3. CASE run.pc \notin {"cleanBridge", "cleanSupervisor"}
    <3>1. Raise
      BY <1>5, <2>3 DEF StopGivesUp, StopRaised, Raise
    <3>2. QED
      BY <1>1, <2>1, <3>1, NothingAppears, RaiseStep
  <2>4. QED
    BY <2>2, <2>3
<1>6. QED
  BY <1>3, <1>4, <1>5 DEF StopProcess

LEMMA AwaitReadinessStep ==
  ASSUME Safe, AwaitReadiness
  PROVE  IngressStep
<1>1. run.pc = "await" /\ manifest' = manifest /\ UNCHANGED procs
  BY DEF AwaitReadiness, files
<1>2. CASE Raise
  BY <1>1, <1>2, NothingAppears, RaiseStep
<1>3. CASE Go("rewrite")
  <2>1. GoesOn("rewrite")
    BY <1>3, PlaceGoesOn DEF Places
  <2>2. QED
    BY <1>1, <2>1, GoStep DEF UndoPlaces
<1>4. QED
  BY <1>2, <1>3 DEF AwaitReadiness

LEMMA RewriteRuntimeStep ==
  ASSUME Safe, RewriteRuntime
  PROVE  IngressStep
<1>1. /\ run.pc = "rewrite" /\ manifest' = manifest /\ UNCHANGED procs
      /\ run \in Locals /\ runtime \in Tunnels \cup {Bootstrap, None}
  BY DEF RewriteRuntime, Safe, Typed
<1>2. CASE Raise
  BY <1>1, <1>2, NothingAppears, RaiseStep
<1>3. CASE run' = [run EXCEPT !.pc = "spawnBridge", !.original = runtime]
  <2>1. run' \in Locals
    <3>1. "spawnBridge" \in Places
      BY DEF Places
    <3>2. QED
      BY <1>1, <1>3, <3>1 DEF Locals
  <2>2. GoesOn("spawnBridge")
    BY <1>1, <1>3, <2>1 DEF GoesOn, Locals
  <2>3. QED
    BY <1>1, <2>2, GoStep DEF UndoPlaces
<1>4. QED
  BY <1>2, <1>3 DEF RewriteRuntime

LEMMA ProveHealthStep ==
  ASSUME Safe, ProveHealth
  PROVE  IngressStep
<1>1. run.pc = "health" /\ manifest' = manifest /\ UNCHANGED procs
  BY DEF ProveHealth, files
<1>2. CASE Raise
  BY <1>1, <1>2, NothingAppears, RaiseStep
<1>3. CASE Go("probe")
  <2>1. GoesOn("probe")
    BY <1>3, PlaceGoesOn DEF Places
  <2>2. QED
    BY <1>1, <2>1, GoStep DEF UndoPlaces
<1>4. QED
  BY <1>2, <1>3 DEF ProveHealth

LEMMA RestoreRuntimeStep ==
  ASSUME Safe, RestoreRuntime
  PROVE  IngressStep
<1>1. /\ run.pc = "restore" /\ manifest' = manifest /\ UNCHANGED procs
      /\ run \in Locals
  BY DEF RestoreRuntime, Safe, Typed
<1>2. GoesOn("cleanReady")
  <2>1. CASE Go("cleanReady")
    BY <2>1, PlaceGoesOn DEF Places
  <2>2. CASE run' = [run EXCEPT !.pc = "cleanReady", !.left = @ \cup {"runtime"}]
    BY <2>2, RuntimeIsLeft
  <2>3. QED
    BY <2>1, <2>2 DEF RestoreRuntime
<1>3. QED
  BY <1>1, <1>2, GoStep DEF UndoPlaces

LEMMA ObserveGroupsStep ==
  ASSUME Safe, ObserveGroups
  PROVE  IngressStep
<1>1. PICK o \in {"stopped", "failed"} : run' = Ended(o)
  BY DEF ObserveGroups, End
<1>2. QED
  BY <1>1, NothingAppears, EndStep DEF ObserveGroups, files

LEMMA KilledStep ==
  ASSUME Safe, Killed
  PROVE  IngressStep
<1>1. /\ run' = Ended("killed") /\ manifest' = manifest /\ port' = port
      /\ procs' = LeftBehind({run.bridge, run.supervisor})
  BY DEF Killed, End, files
<1>2. Kept
  BY <1>1, LeftFits
<1>3. QED
  BY <1>1, <1>2, NothingAppears, EndStep

\* What a start leaves of those on record, and that it is none of them.
LEMMA SpawnParts ==
  ASSUME Safe, NEW q \in Pids, NEW s \in Starts,
         NEW role \in {"bridge", "scanning"},
         NEW t \in Tunnels \cup {Bootstrap, None},
         role = "scanning" => t \in Tunnels,
         NEW orphan \in BOOLEAN, Spawn(q, role, s, t, orphan), port' = port
  PROVE  /\ \A r \in Records : AliveNext(r) <=> Alive(r)
         /\ [pid |-> q, start |-> s] \notin Records
         /\ AliveNext([pid |-> q, start |-> s])
<1>1. /\ \A p \in Pids \ {q} : procs'[p] = procs[p]
      /\ procs'[q] = [role |-> role, start |-> s, tunnel |-> t, orphan |-> orphan]
      /\ \A r \in Records : AliveNext(r) => Alive(r)
  BY SpawnFits
<1>2. procs[q].role = "none" /\ s \notin {r.start : r \in {x \in Records : x.pid = q}}
  BY DEF Spawn, Free, FreshStart, Fresh
<1>3. ASSUME NEW r \in Records, Alive(r)
      PROVE  AliveNext(r)
  <2>1. r.pid \in Pids \ {q}
    BY <1>2, <1>3, RecordsTyped, RoleSets DEF Record, Alive, WorkRoles
  <2>2. QED
    BY <1>1, <1>3, <2>1 DEF Alive, AliveNext, WorkRoles
<1>4. [pid |-> q, start |-> s] \notin Records
  BY <1>2
<1>5. AliveNext([pid |-> q, start |-> s])
  BY <1>1, RoleSets DEF AliveNext
<1>6. QED
  BY <1>1, <1>3, <1>4, <1>5

LEMMA SpawnFailsStep ==
  ASSUME Safe, run.pc \in {"spawnSupervisor", "spawnBridge"},
         NEW role \in {"bridge", "scanning"},
         NEW t \in Tunnels \cup {Bootstrap, None},
         role = "scanning" => t \in Tunnels,
         SpawnFails(role, t), port' = port, manifest' = manifest
  PROVE  IngressStep
<1>1. Raise
  BY DEF SpawnFails
<1>2. CASE UNCHANGED procs
  BY <1>1, <1>2, NothingAppears, RaiseStep
<1>3. ASSUME NEW q \in Pids, NEW s \in Starts, Spawn(q, role, s, t, TRUE)
      PROVE  IngressStep
  BY <1>1, <1>3, SpawnFits, RaiseStep
<1>4. ASSUME NEW q \in Pids, NEW s \in Starts,
             procs[q] = Free, FreshStart(q, s),
             procs' = [Spawned(q, role, s, t) EXCEPT ![q].orphan = TRUE]
      PROVE  Spawn(q, role, s, t, TRUE)
  BY <1>4 DEF Spawn, Spawned, Safe, Typed
<1>5. QED
  BY <1>2, <1>3, <1>4 DEF SpawnFails

LEMMA SpawnSupervisorFrom ==
  ASSUME Safe, SpawnSupervisor
  PROVE  /\ run \in Locals /\ run.pc = "spawnSupervisor" /\ InFull /\ NoRecords
         /\ run.tunnel \in Tunnels
         /\ manifest' = manifest /\ port' = port
         /\ Bound => ~Alive(manifest.bridge) /\ ~Alive(manifest.supervisor)
<1>1. run.pc = "spawnSupervisor" /\ UNCHANGED <<port, files, told>>
  BY Zenon DEF SpawnSupervisor
<1>2. manifest' = manifest /\ port' = port /\ runtime' = runtime
  BY <1>1 DEF files
<1>3. QED
  BY <1>1, <1>2
     DEF Safe, Typed, PlaceOK, InFull, Recovering, OldGone, BeforeBridge, OldPlaces

LEMMA SpawnSupervisorStep ==
  ASSUME Safe, Safe', Differs, SpawnSupervisor
  PROVE  IngressStep
<1>1. /\ run \in Locals /\ run.pc = "spawnSupervisor" /\ InFull /\ NoRecords
      /\ run.tunnel \in Tunnels
      /\ manifest' = manifest /\ port' = port
      /\ Bound => ~Alive(manifest.bridge) /\ ~Alive(manifest.supervisor)
  BY SpawnSupervisorFrom
<1>2. CASE SpawnFails("scanning", run.tunnel)
  BY <1>1, <1>2, SpawnFailsStep
<1>3. ASSUME NEW q \in Pids, NEW s \in Starts, procs[q] = Free, FreshStart(q, s),
             procs' = Spawned(q, "scanning", s, run.tunnel),
             run' = [run EXCEPT !.pc = "await",
                                !.supervisor = [pid |-> q, start |-> s]]
      PROVE  IngressStep
  <2> DEFINE new == [pid |-> q, start |-> s]
  <2>1. Spawn(q, "scanning", s, run.tunnel, FALSE)
    BY <1>3 DEF Spawn, Spawned
  <2>2. /\ \A r \in Records : AliveNext(r) <=> Alive(r)
        /\ new \notin Records /\ AliveNext(new)
    BY <1>1, <2>1, SpawnParts
  <2>3. new # None
    BY BoundsAssumption
  <2>4. run' = [run EXCEPT !.pc = "await", !.supervisor = new]
    BY <1>3
  <2> HIDE DEF new
  <2>5. /\ run'.pc = "await" /\ run'.mode = "full" /\ ~run'.post
        /\ run'.supervisor = new /\ run'.bridge = None
        /\ run'.tunnel = run.tunnel
    BY <1>1, <2>4 DEF Locals, InFull, NoRecords
  <2>6. Forward /\ Forward'
    BY <1>1, <2>5 DEF Forward, InFull
  <2>7. /\ Planned = run.tunnel /\ Planned' = Planned
        /\ Answered' = Answered /\ Hostname' = Hostname /\ (Bound' <=> Bound)
    BY <1>1, <2>5, <2>6 DEF Planned, Answered, Hostname, Bound
  <2>8. Planned # None /\ Planned # Hostname
    BY <1>1, <2>6, <2>7, BoundsAssumption DEF Differs, Hostname, InFull
  <2>9. Serving = {} /\ Coming = {}
    BY <1>1 DEF Serving, Coming, NoRecords
  <2>10. Serving' = {}
    BY <1>1, <2>2, <2>7, RecordsTyped, PartsOfNext
  <2>11. Coming' = {"supervisor"}
    <3>1. Bound => new # manifest.supervisor
      BY <2>2, RecordsTyped
    <3>2. QED
      BY <1>1, <2>2, <2>3, <2>5, <2>7, <3>1, PartsOfNext
  <2>12. QED
    BY <2>7, <2>8, <2>9, <2>10, <2>11
       DEF IngressStep, Ingress!Next, Ingress!StartPart, Ingress!Renews,
           Ingress!Parts
<1>4. QED
  BY <1>2, <1>3, ZenonT(30) DEF SpawnSupervisor

LEMMA SpawnBridgeFrom ==
  ASSUME Safe, SpawnBridge
  PROVE  /\ run \in Locals /\ run.pc = "spawnBridge" /\ Recovering
         /\ run.bridge = None /\ run.supervisor # None /\ run.tunnel \in Tunnels
         /\ manifest' = manifest /\ port' = port
         /\ run.mode = "bridge" => /\ Bound /\ run.supervisor = manifest.supervisor
                                   /\ run.tunnel = manifest.tunnel
         /\ runtime \in Tunnels \cup {Bootstrap, None}
<1>1. run.pc = "spawnBridge" /\ UNCHANGED <<port, files, told>>
  BY Zenon DEF SpawnBridge
<1>2. manifest' = manifest /\ port' = port /\ runtime' = runtime
  BY <1>1 DEF files
<1>3. QED
  BY <1>1, <1>2 DEF Safe, Typed, PlaceOK, Recovering

LEMMA SpawnBridgeStep ==
  ASSUME Safe, Safe', Differs, SpawnBridge
  PROVE  IngressStep
<1>1. /\ run \in Locals /\ run.pc = "spawnBridge" /\ Recovering
      /\ run.bridge = None /\ run.supervisor # None /\ run.tunnel \in Tunnels
      /\ manifest' = manifest /\ port' = port
      /\ run.mode = "bridge" => /\ Bound /\ run.supervisor = manifest.supervisor
                                /\ run.tunnel = manifest.tunnel
      /\ runtime \in Tunnels \cup {Bootstrap, None}
  BY SpawnBridgeFrom
<1>2. /\ Bound => ~Alive(manifest.bridge)
      /\ Bound /\ run.mode = "full" => ~Alive(manifest.supervisor)
  BY <1>1 DEF Safe, OldGone, BeforeBridge, OldPlaces, InFull, Recovering
<1>3. CASE SpawnFails("bridge", runtime)
  BY <1>1, <1>3, SpawnFailsStep
<1>4. ASSUME NEW q \in Pids, NEW s \in Starts, procs[q] = Free, FreshStart(q, s),
             procs' = Spawned(q, "bridge", s, runtime),
             run' = [run EXCEPT !.pc = "health",
                                !.bridge = [pid |-> q, start |-> s]]
      PROVE  IngressStep
  <2> DEFINE new == [pid |-> q, start |-> s]
  <2>1. Spawn(q, "bridge", s, runtime, FALSE)
    BY <1>4 DEF Spawn, Spawned
  <2>2. /\ \A r \in Records : AliveNext(r) <=> Alive(r)
        /\ new \notin Records /\ AliveNext(new)
    BY <1>1, <2>1, SpawnParts
  <2>3. new # None
    BY BoundsAssumption
  <2>4. run' = [run EXCEPT !.pc = "health", !.bridge = new]
    BY <1>4
  <2> HIDE DEF new
  <2>5. /\ run'.pc = "health" /\ run'.mode = run.mode /\ ~run'.post
        /\ run'.supervisor = run.supervisor /\ run'.bridge = new
        /\ run'.tunnel = run.tunnel
    BY <1>1, <2>4 DEF Locals, Recovering
  <2>6. Forward /\ Forward'
    BY <1>1, <2>5 DEF Forward, Recovering
  <2>7. /\ Planned = run.tunnel /\ Planned' = Planned
        /\ Answered' = Answered /\ Hostname' = Hostname /\ (Bound' <=> Bound)
    BY <1>1, <2>5, <2>6 DEF Planned, Answered, Hostname, Bound
  <2>8. Planned # None /\ (run.mode = "full" => Planned # Hostname)
    BY <1>1, <2>6, <2>7, BoundsAssumption DEF Differs, Hostname
  <2>9. run.mode = "bridge" => Planned = Hostname
    BY <1>1, <2>7 DEF Hostname
  <2>10. /\ "bridge" \notin Serving /\ "bridge" \notin Coming
         /\ run.mode = "full" => Serving = {}
    BY <1>1, <1>2, PartsOf
  <2>11. Serving' = Serving
    BY <1>1, <2>2, <2>7, RecordsTyped, PartsOf, PartsOfNext
  <2>12. Coming' = Coming \cup {"bridge"}
    <3>1. Bound => new # manifest.bridge
      BY <2>2, RecordsTyped
    <3>2. AliveNext(run.supervisor) <=> Alive(run.supervisor)
      BY <1>1, <2>2, RecordsTyped
    <3>3. "bridge" \in Coming'
      BY <1>1, <2>2, <2>3, <2>5, <2>7, <3>1, PartsOfNext
    <3>4. "supervisor" \in Coming' <=> "supervisor" \in Coming
      BY <1>1, <2>5, <2>7, <3>2, PartsOf, PartsOfNext
    <3>5. /\ Coming \subseteq {"bridge", "supervisor"}
          /\ Coming' \subseteq {"bridge", "supervisor"}
      BY PartsOf, PartsOfNext
    <3>6. QED
      BY <3>3, <3>4, <3>5
  <2>13. Planned # Hostname => Serving = {}
    BY <1>1, <2>9, <2>10 DEF Recovering
  <2>14. QED
    BY <2>7, <2>8, <2>10, <2>11, <2>12, <2>13
       DEF IngressStep, Ingress!Next, Ingress!StartPart, Ingress!Renews,
           Ingress!Parts
<1>5. QED
  BY <1>3, <1>4, ZenonT(30) DEF SpawnBridge

\* A probe is answered by the run's own receiver, when the hostname is new.
LEMMA ProbeStep ==
  ASSUME Safe, Safe', Probe
  PROVE  IngressStep
<1>1. /\ run \in Locals /\ run.pc = "probe" /\ run.tunnel \in Tunnels
      /\ Recovering \/ (Verified /\ NoRecords)
      /\ manifest' = manifest /\ UNCHANGED procs
  BY DEF Safe, Typed, PlaceOK, ProofPlaces, Probe, files
<1>2. \A r \in Records : AliveNext(r) => Alive(r)
  BY <1>1, NothingAppears
<1>3. CASE Raise
  BY <1>1, <1>2, <1>3, RaiseStep
<1>4. CASE End("verified")
  BY <1>1, <1>2, <1>4, EndStep DEF End
<1>5. CASE /\ ~Verified /\ Accepts(run.tunnel)
           /\ run' = [run EXCEPT !.pc = "commit",
                                 !.answered = [pid |-> port,
                                               start |-> procs[port].start]]
  <2>1. Recovering
    BY <1>1, <1>5
  <2>2. /\ run'.pc = "commit" /\ run'.mode = run.mode /\ run'.post = run.post
        /\ run'.bridge = run.bridge /\ run'.supervisor = run.supervisor
        /\ run'.tunnel = run.tunnel
    BY <1>1, <1>5 DEF Locals
  <2>3. Forward /\ Forward' /\ Answered'
    BY <1>1, <2>1, <2>2 DEF Forward, Answered, Recovering
  <2>4. /\ Planned = run.tunnel /\ Planned' = Planned
        /\ Planned # None /\ Hostname' = Hostname
    BY <1>1, <2>2, <2>3, BoundsAssumption DEF Planned, Hostname, Bound
  <2>5. Serving' = Serving /\ Coming' = Coming
    BY <1>1, <2>2 DEF Serving, Coming, Bound, Alive
  <2>6. Planned # Hostname => "bridge" \in Coming
    <3>1. SUFFICES ASSUME Planned # Hostname
                   PROVE  "bridge" \in Coming
      OBVIOUS
    <3>2. InFull
      BY <1>1, <2>1, <2>4, <3>1 DEF Safe, PlaceOK, Recovering, InFull, Hostname
    <3>3. /\ port \in Pids /\ procs[port].role = "bridge"
          /\ [pid |-> port, start |-> procs[port].start] = run.bridge
      BY <1>1, <1>5, <3>2, OwnAnswer DEF Safe, Typed, ProcessOK, Accepts, Serves
    <3>4. run.bridge # None /\ Alive(run.bridge)
      <4>1. run.bridge.pid = port /\ run.bridge.start = procs[port].start
        BY <3>3
      <4>2. run.bridge # None
        BY <1>1, <2>1 DEF Safe, PlaceOK, ProofPlaces
      <4>3. QED
        BY <3>3, <4>1, <4>2 DEF Alive
    <3>5. Bound => ~Alive(manifest.bridge)
      BY <1>1, <3>2 DEF Safe, OldGone, ProofPlaces
    <3>6. QED
      BY <3>4, <3>5, PartsOf
  <2>7. QED
    BY <2>3, <2>4, <2>5, <2>6
       DEF IngressStep, Ingress!Next, Ingress!Answers, Ingress!Renews
<1>6. QED
  BY <1>3, <1>4, <1>5 DEF Probe, ProbeAnswered

\* What is committed lives on as the generation; nothing of the old one does.
LEMMA CommitStep ==
  ASSUME Safe, Safe', Commit
  PROVE  IngressStep
<1>1. /\ run \in Locals /\ run.pc = "commit" /\ Recovering
      /\ run.bridge \in Record /\ run.supervisor \in Record
      /\ run.tunnel \in Tunnels /\ UNCHANGED <<procs, port>>
      /\ run.mode = "bridge" => Bound /\ run.supervisor = manifest.supervisor
  BY DEF Safe, Typed, PlaceOK, ProofPlaces, Locals, Commit, Recovering
<1>2. /\ Bound => ~Alive(manifest.bridge)
      /\ Bound /\ run.mode = "full" => ~Alive(manifest.supervisor)
  BY <1>1 DEF Safe, OldGone, InFull, Recovering, ProofPlaces
<1>3. CASE Raise /\ manifest' = manifest
  BY <1>1, <1>3, NothingAppears, RaiseStep
<1>4. CASE /\ manifest' = NewManifest
           /\ ~Forward' /\ ~Answered'
           /\ run'.bridge \in {None, run.bridge}
           /\ run'.supervisor \in {None, run.supervisor}
  <2>1. /\ manifest'.bridge = run.bridge /\ manifest'.supervisor = run.supervisor
        /\ manifest'.tunnel = run.tunnel /\ Bound'
        /\ run.bridge # None /\ run.supervisor # None
    BY <1>1, <1>4, ManifestAssumption, BoundsAssumption
       DEF NewManifest, Manifest, Bound, Record
  <2>2. /\ Forward /\ Planned = run.tunnel /\ Planned # None /\ Answered
        /\ Planned' = None /\ Answered' = FALSE /\ Hostname' = run.tunnel
    BY <1>1, <1>4, <2>1, BoundsAssumption
       DEF Forward, Planned, Answered, Hostname, Recovering
  <2>3. Coming' = {}
    BY <1>4, <2>1, PartsOfNext
  <2>4. \A r \in Record : AliveNext(r) <=> Alive(r)
    BY <1>1 DEF AliveNext, Alive, WorkRoles
  <2>5. "bridge" \in Serving' <=> "bridge" \in Serving \cup Coming
    BY <1>1, <1>2, <2>1, <2>4, PartsOf, PartsOfNext
  <2>6. "supervisor" \in Serving' <=> "supervisor" \in Serving \cup Coming
    BY <1>1, <1>2, <2>1, <2>4, PartsOf, PartsOfNext DEF Recovering
  <2>7. Serving' = Serving \cup Coming
    BY <2>5, <2>6, PartsOf, PartsOfNext
  <2>8. QED
    BY <2>2, <2>3, <2>7 DEF IngressStep, Ingress!Next, Ingress!Commit
<1>5. CASE Raise /\ manifest' = NewManifest
  <2>1. run' = [run EXCEPT !.pc = "cleanBridge", !.stage = "term"]
    BY <1>1, <1>5 DEF Raise, AfterRaise, Undoes, Recovering
  <2>2. QED
    BY <1>4, <1>5, <2>1, UndoingIs
<1>6. CASE /\ manifest' = NewManifest
           /\ run' = [Ended("none") EXCEPT !.pc = "prepare", !.mode = run.mode,
                                           !.post = TRUE]
  <2>1. /\ run'.pc = "prepare" /\ run'.post
        /\ run'.bridge = None /\ run'.supervisor = None
    BY <1>6 DEF Ended
  <2>2. QED
    BY <1>4, <1>6, <2>1 DEF Forward, Answered
<1>7. QED
  BY <1>3, <1>5, <1>6 DEF Commit

\* Processes by themselves only end.
LEMMA ProcessesOnlyEnd ==
  ASSUME Safe, NEW q \in Pids,
         Listen(q) \/ BindFails(q) \/ PublishReadiness(q)
           \/ ProcessExits(q) \/ CloudflaredEnds(q) \/ IdReused(q)
  PROVE  /\ run' = run /\ manifest' = manifest
         /\ \A r \in Records : AliveNext(r) => Alive(r)
<1>1. /\ procs \in [Pids -> Process] /\ procs[q] \in Process
      /\ run' = run /\ manifest' = manifest
  BY DEF Listen, BindFails, PublishReadiness, ProcessExits, CloudflaredEnds,
         IdReused, files, Safe, Typed
<1>2. \A r \in Records : AliveNext(r) => Alive(r)
  <2>1. CASE ProcessExits(q)
    BY <2>1, ExitFits, NothingAppears DEF ProcessExits
  <2>2. CASE Listen(q)
    BY <2>2, NothingAppears DEF Listen
  <2>3. CASE \/ BindFails(q) \/ CloudflaredEnds(q)
             \/ PublishReadiness(q) \/ IdReused(q)
    <3>1. /\ \A p \in Pids \ {q} : procs'[p] = procs[p]
          /\ procs'[q].role \in WorkRoles =>
               /\ procs[q].role \in WorkRoles
               /\ procs'[q].start = procs[q].start
      BY <1>1, <2>3, RoleSets
         DEF BindFails, CloudflaredEnds, PublishReadiness, IdReused, Free, Process
    <3>2. QED
      BY <3>1, RecordsTyped DEF Record, Alive, AliveNext, WorkRoles
  <2>4. QED
    BY <2>1, <2>2, <2>3
<1>3. QED
  BY <1>1, <1>2

LEMMA ProcessesStep ==
  ASSUME Safe, NEW q \in Pids,
         Listen(q) \/ BindFails(q) \/ PublishReadiness(q)
           \/ ProcessExits(q) \/ CloudflaredEnds(q) \/ IdReused(q)
  PROVE  IngressStep
<1>1. /\ run' = run /\ manifest' = manifest
      /\ \A r \in Records : AliveNext(r) => Alive(r)
  BY ProcessesOnlyEnd
<1>2. RecordsKept
  BY <1>1 DEF RecordsKept
<1>3. Planned' = Planned /\ Answered' = Answered
  BY <1>1 DEF Planned, Answered, Forward
<1>4. QED
  BY <1>2, <1>3, EndsStep

\* Every step is one of the promised ones.
LEMMA IngressKept ==
  ASSUME Safe, Safe', Differs, [Next]_vars
  PROVE  IngressStep
<1>1. CASE UNCHANGED vars
  <2>1. UNCHANGED <<procs, manifest, run>>
    BY <1>1 DEF vars
  <2>2. Planned' = Planned /\ Answered' = Answered
    BY <2>1 DEF Planned, Answered, Forward
  <2>3. RecordsKept
    BY <2>1, SameRecords
  <2>4. QED
    BY <2>2, <2>3, EndsStep
<1>2. CASE Step
  BY <1>2, PrepareStep, RemoveReadinessStep, StopProcessStep,
     SpawnSupervisorStep, AwaitReadinessStep, RewriteRuntimeStep,
     SpawnBridgeStep, ProveHealthStep, ProbeStep, CommitStep,
     RestoreRuntimeStep, ObserveGroupsStep DEF Step
<1>3. CASE Begin("recover") \/ Begin("stop") \/ Killed
  BY <1>3, BeginStep, KilledStep
<1>4. QED
  BY <1>1, <1>2, <1>3, ProcessesStep DEF Next

\* A full recovery is at work only if it was, or if it has just chosen a
\* hostname that the manifest does not have.
FullBefore ==
  /\ Forward /\ run.mode = "full"
  /\ run'.tunnel = run.tunnel /\ manifest' = manifest
  /\ run.supervisor # None => run'.supervisor = run.supervisor

LEMMA GoneOn ==
  ASSUME Safe, NEW pc, GoesOn(pc), manifest' = manifest,
         pc \in {"cleanBridge"} \cup UndoPlaces
           <=> run.pc \in {"cleanBridge"} \cup UndoPlaces,
         Forward', run'.mode = "full"
  PROVE  FullBefore
BY DEF GoesOn, Forward, UndoPlaces, FullBefore

LEMMA RaisedIs ==
  ASSUME Safe, run.pc # "idle", Raise
  PROVE  ~Forward'
BY RaiseCases, EndedIs, UndoingIs

LEMMA StopStays ==
  ASSUME Safe, StopProcess, Forward', run'.mode = "full"
  PROVE  FullBefore
<1>1. /\ run.pc \in StopPlaces /\ manifest' = manifest /\ run \in Locals
      /\ run.pc # "idle"
  BY DEF StopProcess, files, Safe, Typed, StopPlaces
<1>2. CASE Signal
  <2>1. PICK stage \in {"kill", "last"} : run' = [run EXCEPT !.stage = stage]
    BY <1>2 DEF Signal
  <2>2. GoesOn(run.pc)
    BY <1>1, <2>1 DEF GoesOn, Locals
  <2>3. QED
    BY <1>1, <2>2, GoneOn
<1>3. CASE StopDone
  <2>1. AfterStop # "idle" /\ Go(AfterStop)
    BY <1>3, EndedIs DEF StopDone, Continued, Go
  <2>2. QED
    BY <1>1, <2>1, AfterStopSide, PlaceGoesOn, GoneOn
<1>4. CASE StopGivesUp /\ run.pc \notin {"cleanBridge", "cleanSupervisor"}
  BY <1>1, <1>4, RaisedIs DEF StopGivesUp, StopRaised, Raise
<1>5. CASE StopGivesUp /\ run.pc \in {"cleanBridge", "cleanSupervisor"}
  <2>1. \/ run' = Ended("failed")
        \/ /\ AfterStop # "idle"
           /\ run' = [run EXCEPT !.left = @ \cup {StopPart}, !.pc = AfterStop,
                                 !.stage = "term"]
    BY <1>1, <1>5 DEF StopGivesUp, StopRaised, Continued, Locals
  <2>2. AfterStop # "idle" => AfterStop \in UndoPlaces
    BY <1>5 DEF AfterStop, UndoPlaces
  <2>3. run'.pc \in UndoPlaces
    BY <1>1, <2>1, <2>2, EndedIs DEF Locals
  <2>4. QED
    BY <2>3 DEF Forward, UndoPlaces
<1>6. QED
  BY <1>2, <1>3, <1>4, <1>5 DEF StopProcess

LEMMA SpawnsStay ==
  ASSUME Safe, SpawnSupervisor \/ SpawnBridge, Forward', run'.mode = "full"
  PROVE  FullBefore
<1>1. /\ manifest' = manifest /\ run \in Locals
      /\ run.pc \in {"spawnSupervisor", "spawnBridge"} /\ ~Raise
  BY SpawnSupervisorFrom, SpawnBridgeFrom, RaisedIs
<1>2. PICK new : \/ /\ run.pc = "spawnSupervisor"
                    /\ run' = [run EXCEPT !.pc = "await", !.supervisor = new]
                 \/ run' = [run EXCEPT !.pc = "health", !.bridge = new]
  BY <1>1, Zenon DEF SpawnSupervisor, SpawnBridge, SpawnFails
<1>3. run'.mode = run.mode /\ run'.post = run.post /\ run'.tunnel = run.tunnel
  BY <1>1, <1>2 DEF Locals
<1>4. run.supervisor # None => run'.supervisor = run.supervisor
  <2>1. run.pc = "spawnSupervisor" => run.supervisor = None
    BY DEF Safe, PlaceOK, NoRecords
  <2>2. QED
    BY <1>1, <1>2, <2>1 DEF Locals
<1>5. QED
  BY <1>1, <1>3, <1>4 DEF Forward, FullBefore

LEMMA ElseStays ==
  ASSUME Safe, Forward', run'.mode = "full",
         \/ RemoveReadiness \/ AwaitReadiness \/ RewriteRuntime \/ ProveHealth
         \/ Probe \/ RestoreRuntime \/ ObserveGroups \/ Killed
  PROVE  FullBefore
<1>1. run \in Locals /\ run.pc # "idle" /\ manifest' = manifest
  BY DEF Safe, Typed, RemoveReadiness, AwaitReadiness, RewriteRuntime,
         ProveHealth, Probe, RestoreRuntime, ObserveGroups, Killed, files
<1>2. ~Raise /\ \A o : ~End(o)
  BY <1>1, RaisedIs, EndedIs DEF End
<1>3. CASE RemoveReadiness
  <2>1. run.pc = "remove" /\ Go("stopBridge")
    BY <1>2, <1>3 DEF RemoveReadiness
  <2>2. GoesOn("stopBridge")
    BY <2>1, PlaceGoesOn DEF Places, StopPlaces
  <2>3. QED
    BY <1>1, <2>1, <2>2, GoneOn DEF UndoPlaces
<1>4. CASE AwaitReadiness
  <2>1. run.pc = "await" /\ Go("rewrite")
    BY <1>2, <1>4 DEF AwaitReadiness
  <2>2. GoesOn("rewrite")
    BY <2>1, PlaceGoesOn DEF Places
  <2>3. QED
    BY <1>1, <2>1, <2>2, GoneOn DEF UndoPlaces
<1>5. CASE RewriteRuntime
  <2>1. /\ run.pc = "rewrite"
        /\ run' = [run EXCEPT !.pc = "spawnBridge", !.original = runtime]
    BY <1>2, <1>5 DEF RewriteRuntime
  <2>2. /\ run'.mode = run.mode /\ run'.post = run.post
        /\ run'.tunnel = run.tunnel /\ run'.supervisor = run.supervisor
    BY <1>1, <2>1 DEF Locals
  <2>3. QED
    BY <1>1, <2>1, <2>2 DEF Forward, FullBefore
<1>6. CASE ProveHealth
  <2>1. run.pc = "health" /\ Go("probe")
    BY <1>2, <1>6 DEF ProveHealth
  <2>2. GoesOn("probe")
    BY <2>1, PlaceGoesOn DEF Places
  <2>3. QED
    BY <1>1, <2>1, <2>2, GoneOn DEF UndoPlaces
<1>7. CASE Probe
  <2> DEFINE answer == [pid |-> port, start |-> procs[port].start]
  <2>1. /\ run.pc = "probe"
        /\ run' = [run EXCEPT !.pc = "commit", !.answered = answer]
    BY <1>2, <1>7 DEF Probe, ProbeAnswered
  <2> HIDE DEF answer
  <2>2. /\ run'.mode = run.mode /\ run'.post = run.post
        /\ run'.tunnel = run.tunnel /\ run'.supervisor = run.supervisor
    BY <1>1, <2>1 DEF Locals
  <2>3. QED
    BY <1>1, <2>1, <2>2 DEF Forward, FullBefore
<1>8. CASE RestoreRuntime
  <2>1. run'.pc = "cleanReady"
    BY <1>1, <1>8 DEF RestoreRuntime, Go, Locals
  <2>2. QED
    BY <2>1 DEF Forward
<1>9. QED
  BY <1>2, <1>3, <1>4, <1>5, <1>6, <1>7, <1>8 DEF ObserveGroups, Killed

LEMMA FullGoesOn ==
  ASSUME Safe, [Next]_vars, Forward', run'.mode = "full"
  PROVE  FullBefore \/ (Prepare /\ FreshTunnel(run'.tunnel))
<1>1. CASE Prepare
  <2>1. /\ NoRecords /\ run \in Locals /\ run.pc = "prepare"
        /\ run.mode \in IF run.post THEN {"bridge", "full"} ELSE {"recover", "stop"}
    BY <1>1 DEF Prepare, Safe, PlaceOK, Typed
  <2>2. ~Raise /\ ~End("failed")
    BY <2>1, RaisedIs, EndedIs DEF End
  <2>3. CASE run' = [run EXCEPT !.pc = "health", !.tunnel = manifest.tunnel,
                                !.mode = IF run.post THEN @ ELSE "verify"]
    <3>1. run'.post \/ run'.mode = "verify"
      BY <2>1, <2>3 DEF Locals
    <3>2. QED
      BY <3>1 DEF Forward
  <2>4. CASE run' = [run EXCEPT !.pc = "spawnBridge", !.mode = "bridge",
                                !.tunnel = manifest.tunnel,
                                !.supervisor = manifest.supervisor]
    BY <2>1, <2>4 DEF Locals
  <2>5. ASSUME NEW t \in Tunnels, FreshTunnel(t),
               run' = [run EXCEPT !.pc = "remove", !.mode = "full", !.tunnel = t,
                                  !.found = runtime,
                                  !.bridgeClass = ManifestBridge,
                                  !.supervisorClass = ManifestSupervisor]
        PROVE  FreshTunnel(run'.tunnel)
    <3>1. run'.tunnel = t
      BY <2>1, <2>5 DEF Locals
    <3>2. QED
      BY <2>5, <3>1
  <2>6. CASE /\ run.mode = "stop"
             /\ run' = [run EXCEPT !.pc = "stopBridge", !.bridgeClass = ManifestBridge,
                                   !.supervisorClass = ManifestSupervisor]
    BY <2>1, <2>6 DEF Locals
  <2>7. QED
    BY <1>1, <2>2, <2>3, <2>4, <2>5, <2>6, ZenonT(30) DEF Prepare, Decided
<1>2. CASE Commit
  <2>1. run.pc = "commit" /\ ~Raise
    BY <1>2, RaisedIs DEF Commit
  <2>2. run' = [Ended("none") EXCEPT !.pc = "prepare", !.mode = run.mode,
                                     !.post = TRUE]
    BY <1>2, <2>1 DEF Commit
  <2>3. QED
    BY <2>2 DEF Ended, Forward
<1>3. CASE \E mode \in {"recover", "stop"} : Begin(mode)
  BY <1>3 DEF Begin, Ended
<1>4. CASE UNCHANGED <<run, manifest>>
  BY <1>4 DEF Forward, FullBefore
<1>5. ASSUME NEW q \in Pids,
             Listen(q) \/ BindFails(q) \/ PublishReadiness(q)
               \/ ProcessExits(q) \/ CloudflaredEnds(q) \/ IdReused(q)
      PROVE  UNCHANGED <<run, manifest>>
  BY <1>5, ProcessesOnlyEnd
<1>6. UNCHANGED vars => UNCHANGED <<run, manifest>>
  BY DEF vars
<1>7. QED
  BY <1>1, <1>2, <1>3, <1>4, <1>5, <1>6, StopStays, SpawnsStay, ElseStays
     DEF Next, Step

LEMMA DiffersKept ==
  ASSUME Safe, Differs, [Next]_vars
  PROVE  Differs'
<1> SUFFICES ASSUME Forward', run'.mode = "full", manifest' # None
             PROVE  run'.tunnel # manifest'.tunnel
  BY DEF Differs, Bound
<1>1. CASE FullBefore
  BY <1>1 DEF FullBefore, Differs, Bound
<1>2. CASE Prepare /\ FreshTunnel(run'.tunnel)
  <2>1. manifest' = manifest
    BY <1>2 DEF Prepare, files
  <2>2. QED
    BY <1>2, <2>1 DEF FreshTunnel, Fresh
<1>3. QED
  BY <1>1, <1>2, FullGoesOn

LEMMA InitIngress ==
  ASSUME Init
  PROVE  Differs /\ Ingress!Init
<1>1. run.pc = "idle" /\ run.mode = "none" /\ NoRecords /\ ~Bound
  BY DEF Init, Ended, NoRecords, Bound
<1>2. Differs
  BY <1>1 DEF Differs
<1>3. Serving = {} /\ Coming = {}
  BY <1>1 DEF Serving, Coming, NoRecords
<1>4. QED
  BY <1>1, <1>2, <1>3
     DEF Ingress!Init, Hostname, Planned, Answered, Forward

\* The watchdog implements Ingress, for any number of ids, start times,
\* tunnels and faults: a generation comes only after the last one has gone,
\* and takes its place only after it has answered.
THEOREM WatchdogKeepsIngress == Spec => KeepsIngress
<1>1. Init => Differs /\ Ingress!Init
  BY InitIngress
<1>2. Safe /\ Differs /\ [Next]_vars => Differs'
  BY DiffersKept
<1>3. Safe /\ Safe' /\ Differs /\ [Next]_vars => [Ingress!Next]_Ingress!ingress
  BY IngressKept DEF IngressStep
<1>4. QED
  BY <1>1, <1>2, <1>3, Invariance, PTL
     DEF Spec, KeepsIngress, Ingress!Spec

\* What follows from the promise alone: no part of a generation is on record
\* twice, and a new supervisor lives beside nothing of the old generation.
OneOfEach ==
  /\ Serving \cap Coming = {}
  /\ "supervisor" \in Coming => Serving = {}

LEMMA PromiseKeepsOne ==
  ASSUME OneOfEach, [Ingress!Next]_Ingress!ingress
  PROVE  OneOfEach'
BY DEF OneOfEach, Ingress!Next, Ingress!ingress, Ingress!Ends, Ingress!Plan,
       Ingress!StartPart, Ingress!Answers, Ingress!Commit, Ingress!GiveUp,
       Ingress!Parts, Ingress!Renews

THEOREM NoSecondOnRecord == Spec => []OneOfEach
<1>1. Ingress!Init => OneOfEach
  BY DEF Ingress!Init, OneOfEach
<1>2. OneOfEach /\ [Ingress!Next]_Ingress!ingress => OneOfEach'
  BY PromiseKeepsOne
<1>3. KeepsIngress => []OneOfEach
  BY <1>1, <1>2, PTL DEF KeepsIngress, Ingress!Spec
<1>4. QED
  BY <1>3, WatchdogKeepsIngress, PTL

-----------------------------------------------------------------------------
(* What "ingress-stopped" means.                                           *)

\* A hostname is served from one process group only: that of the supervisor
\* on record.
TunnelRoles == Supervisors \cup {"cloudflared"}
Holds(p, t) == procs[p].role \in TunnelRoles /\ procs[p].tunnel = t
HoldsNext(p, t) == procs'[p].role \in TunnelRoles /\ procs'[p].tunnel = t
OneHome ==
  /\ Bound => \A p \in Pids : Holds(p, manifest.tunnel) => p = manifest.supervisor.pid
  /\ Forward /\ run.mode = "full" =>
       \A p \in Pids : Holds(p, run.tunnel) =>
         run.supervisor # None /\ p = run.supervisor.pid
StillDown == run.outcome = "stopped" => Bound /\ StoppedIsDown

\* Nothing serves a hostname that did not serve it before.
NoneComes == \A p \in Pids, t \in Tunnels : HoldsNext(p, t) => Holds(p, t)

LEMMA ExitComes ==
  ASSUME Safe, NEW q \in Pids, Exits(q)
  PROVE  NoneComes
<1>1. procs \in [Pids -> Process] /\ procs[q] \in Process
  BY DEF Safe, Typed
<1>2. PICK lingers \in BOOLEAN : procs' = Exited(q, lingers)
  BY DEF Exits
<1>3. \A p \in Pids \ {q} : procs'[p] = procs[p]
  BY <1>1, <1>2 DEF Exited
<1>4. CASE procs'[q] = Free
  BY <1>3, <1>4 DEF NoneComes, HoldsNext, Holds, TunnelRoles, Supervisors, Free
<1>5. CASE /\ procs[q].role \in Supervisors
           /\ procs'[q] = [procs[q] EXCEPT !.role = "cloudflared", !.orphan = FALSE]
  <2>1. procs'[q].tunnel = procs[q].tunnel
    BY <1>1, <1>5 DEF Process
  <2>2. QED
    BY <1>3, <1>5, <2>1 DEF NoneComes, HoldsNext, Holds, TunnelRoles
<1>6. QED
  BY <1>1, <1>2, <1>4, <1>5 DEF Exited

LEMMA LeftComes ==
  ASSUME Safe, NEW records, procs' = LeftBehind(records)
  PROVE  NoneComes
<1>1. ASSUME NEW p \in Pids
      PROVE  procs'[p].role = procs[p].role /\ procs'[p].tunnel = procs[p].tunnel
  <2>1. procs[p] \in Process
    BY DEF Safe, Typed
  <2>2. procs'[p] = procs[p] \/ procs'[p] = [procs[p] EXCEPT !.orphan = TRUE]
    BY DEF LeftBehind
  <2>3. QED
    BY <2>1, <2>2 DEF Process
<1>2. QED
  BY <1>1 DEF NoneComes, HoldsNext, Holds

LEMMA ProcessComes ==
  ASSUME Safe, NEW q \in Pids,
         Listen(q) \/ BindFails(q) \/ PublishReadiness(q)
           \/ ProcessExits(q) \/ CloudflaredEnds(q) \/ IdReused(q)
  PROVE  NoneComes
<1>1. procs \in [Pids -> Process] /\ procs[q] \in Process
  BY DEF Safe, Typed
<1>2. CASE ProcessExits(q)
  BY <1>2, ExitComes DEF ProcessExits
<1>3. CASE Listen(q)
  BY <1>3 DEF Listen, NoneComes, Holds, HoldsNext
<1>4. CASE BindFails(q) \/ CloudflaredEnds(q) \/ PublishReadiness(q) \/ IdReused(q)
  <2>1. \A p \in Pids \ {q} : procs'[p] = procs[p]
    BY <1>1, <1>4 DEF BindFails, CloudflaredEnds, PublishReadiness, IdReused
  <2>2. procs'[q].role \in TunnelRoles =>
          procs[q].role \in TunnelRoles /\ procs'[q].tunnel = procs[q].tunnel
    BY <1>1, <1>4
       DEF BindFails, CloudflaredEnds, PublishReadiness, IdReused, Free,
           TunnelRoles, Supervisors, Process
  <2>3. QED
    BY <2>1, <2>2 DEF NoneComes, Holds, HoldsNext
<1>5. QED
  BY <1>2, <1>3, <1>4

\* A start: of a receiver, which serves nothing, or for the run's own hostname.
LEMMA SpawnOneComes ==
  ASSUME Safe, NEW q \in Pids, NEW role, NEW s, NEW t,
         \/ procs' = Spawned(q, role, s, t)
         \/ procs' = [Spawned(q, role, s, t) EXCEPT ![q].orphan = TRUE]
  PROVE  \A p \in Pids, u \in Tunnels :
           HoldsNext(p, u) => Holds(p, u) \/ (p = q /\ u = t /\ role \in TunnelRoles)
<1>1. procs \in [Pids -> Process]
  BY DEF Safe, Typed
<1>2. /\ \A p \in Pids \ {q} : procs'[p] = procs[p]
      /\ procs'[q].role = role /\ procs'[q].tunnel = t
  BY <1>1 DEF Spawned
<1>3. QED
  BY <1>2 DEF Holds, HoldsNext

LEMMA SpawnBridgeComes ==
  ASSUME Safe, SpawnBridge
  PROVE  NoneComes
<1>1. "bridge" \notin TunnelRoles
  BY DEF TunnelRoles, Supervisors
<1>2. CASE UNCHANGED procs
  BY <1>2 DEF NoneComes, Holds, HoldsNext
<1>3. ASSUME NEW q \in Pids, NEW s \in Starts,
             \/ procs' = Spawned(q, "bridge", s, runtime)
             \/ procs' = [Spawned(q, "bridge", s, runtime) EXCEPT ![q].orphan = TRUE]
      PROVE  NoneComes
  BY <1>1, <1>3, SpawnOneComes DEF NoneComes
<1>4. QED
  BY <1>2, <1>3, Zenon DEF SpawnBridge, SpawnFails

\* The supervisor of the run comes at q, and is recorded unless the start fails.
ComesAt(q, s) ==
  /\ \A p \in Pids, u \in Tunnels :
       HoldsNext(p, u) => Holds(p, u) \/ (p = q /\ u = run.tunnel)
  /\ \/ Raise
     \/ run' = [run EXCEPT !.pc = "await", !.supervisor = [pid |-> q, start |-> s]]

LEMMA SpawnSupervisorComes ==
  ASSUME Safe, SpawnSupervisor
  PROVE  NoneComes \/ \E q \in Pids, s \in Starts : ComesAt(q, s)
<1>1. CASE UNCHANGED procs
  BY <1>1 DEF NoneComes, Holds, HoldsNext
<1>2. ASSUME NEW q \in Pids, NEW s \in Starts,
             \/ /\ procs' = Spawned(q, "scanning", s, run.tunnel)
                /\ run' = [run EXCEPT !.pc = "await",
                                      !.supervisor = [pid |-> q, start |-> s]]
             \/ /\ procs' = [Spawned(q, "scanning", s, run.tunnel) EXCEPT
                               ![q].orphan = TRUE]
                /\ Raise
      PROVE  ComesAt(q, s)
  <2>1. \A p \in Pids, u \in Tunnels :
          HoldsNext(p, u) => Holds(p, u) \/ (p = q /\ u = run.tunnel)
    BY <1>2, SpawnOneComes
  <2>2. QED
    BY <1>2, <2>1, Zenon DEF ComesAt
<1>3. \/ UNCHANGED procs
      \/ \E q \in Pids, s \in Starts :
           \/ /\ procs' = Spawned(q, "scanning", s, run.tunnel)
              /\ run' = [run EXCEPT !.pc = "await",
                                    !.supervisor = [pid |-> q, start |-> s]]
           \/ /\ procs' = [Spawned(q, "scanning", s, run.tunnel) EXCEPT
                             ![q].orphan = TRUE]
              /\ Raise
  BY Zenon DEF SpawnSupervisor, SpawnFails
<1>4. QED
  BY <1>1, <1>2, <1>3, Zenon

LEMMA StepComes ==
  ASSUME Safe, [Next]_vars
  PROVE  NoneComes \/ SpawnSupervisor
<1>1. CASE UNCHANGED procs
  BY <1>1 DEF NoneComes, Holds, HoldsNext
<1>2. CASE StopProcess
  <2>1. CASE Signal
    <3>1. StopRecord \in Record /\ (Exits(StopRecord.pid) \/ UNCHANGED procs)
      BY <1>2, <2>1, StopMeans DEF StopProcess, Signal, MaySignal
    <3>2. QED
      BY <1>1, <3>1, ExitComes DEF Record
  <2>2. QED
    BY <1>1, <1>2, <2>1, LeftComes DEF StopProcess, StopDone, StopGivesUp
<1>3. CASE Killed
  BY <1>3, LeftComes DEF Killed
<1>4. CASE SpawnBridge
  BY <1>4, SpawnBridgeComes
<1>5. CASE \/ Prepare \/ RemoveReadiness \/ AwaitReadiness \/ RewriteRuntime
           \/ ProveHealth \/ Probe \/ Commit \/ RestoreRuntime \/ ObserveGroups
           \/ \E mode \in {"recover", "stop"} : Begin(mode)
  BY <1>1, <1>5
     DEF Prepare, RemoveReadiness, AwaitReadiness, RewriteRuntime, ProveHealth,
         Probe, Commit, RestoreRuntime, ObserveGroups, Begin
<1>6. UNCHANGED vars => UNCHANGED procs
  BY DEF vars
<1>7. QED
  BY <1>1, <1>2, <1>3, <1>4, <1>5, <1>6, ProcessComes DEF Next, Step

LEMMA OneHomeKept ==
  ASSUME Safe, Differs, OneHome, [Next]_vars
  PROVE  OneHome'
<1>1. run \in Locals /\ (Bound => manifest.tunnel \in Tunnels)
  BY DEF Safe, Typed, Bound, Manifest
<1>2. SpawnSupervisor =>
        /\ InFull /\ NoRecords /\ manifest' = manifest /\ run.tunnel \in Tunnels
        /\ Forward /\ run.pc = "spawnSupervisor"
        /\ \A p \in Pids : ~Holds(p, run.tunnel)
        /\ Bound => run.tunnel # manifest.tunnel
  <2> SUFFICES ASSUME SpawnSupervisor
               PROVE  /\ InFull /\ NoRecords /\ manifest' = manifest
                      /\ run.tunnel \in Tunnels
                      /\ Forward /\ run.pc = "spawnSupervisor"
                      /\ \A p \in Pids : ~Holds(p, run.tunnel)
                      /\ Bound => run.tunnel # manifest.tunnel
    OBVIOUS
  <2>1. /\ InFull /\ NoRecords /\ manifest' = manifest /\ run.tunnel \in Tunnels
        /\ run.pc = "spawnSupervisor"
    BY SpawnSupervisorFrom
  <2>2. Forward
    BY <2>1 DEF Forward, InFull
  <2>3. QED
    BY <2>1, <2>2 DEF InFull, NoRecords, OneHome, Differs
<1>3. Bound' => \A p \in Pids :
        HoldsNext(p, manifest'.tunnel) => p = manifest'.supervisor.pid
  <2>1. CASE manifest' = manifest
    <3>1. CASE NoneComes
      BY <1>1, <2>1, <3>1 DEF NoneComes, OneHome, Bound
    <3>2. CASE SpawnSupervisor
      BY <1>1, <1>2, <2>1, <3>1, <3>2, SpawnSupervisorComes
         DEF ComesAt, OneHome, Bound
    <3>3. QED
      BY <3>1, <3>2, StepComes
  <2>2. CASE manifest' # manifest
    <3>1. /\ manifest' = NewManifest /\ procs' = procs /\ Recovering
          /\ run.tunnel \in Tunnels /\ run.pc = "commit"
      BY <2>2, OnlyCommits DEF Commit, Safe, PlaceOK
    <3>2. CASE run.mode = "full"
      <4>1. Forward
        BY <3>1, <3>2 DEF Forward, Recovering
      <4>2. QED
        BY <3>1, <3>2, <4>1 DEF OneHome, NewManifest, Holds, HoldsNext
    <3>3. CASE run.mode = "bridge"
      <4>1. /\ Bound /\ run.supervisor = manifest.supervisor
            /\ run.tunnel = manifest.tunnel
        BY <3>1, <3>3 DEF Safe, PlaceOK, Recovering
      <4>2. QED
        BY <3>1, <4>1 DEF OneHome, NewManifest, Holds, HoldsNext
    <3>4. QED
      BY <3>1, <3>2, <3>3 DEF Recovering
  <2>3. QED
    BY <2>1, <2>2
<1>4. ASSUME Forward', run'.mode = "full", NEW p \in Pids, HoldsNext(p, run'.tunnel)
      PROVE  run'.supervisor # None /\ p = run'.supervisor.pid
  <2>1. CASE FullBefore
    <3>1. /\ run'.tunnel = run.tunnel /\ run.tunnel \in Tunnels
          /\ Forward /\ run.mode = "full"
      BY <2>1 DEF FullBefore, Forward, Safe, PlaceOK, Recovering
    <3>2. CASE NoneComes
      BY <1>4, <2>1, <3>1, <3>2 DEF NoneComes, OneHome, FullBefore
    <3>3. CASE SpawnSupervisor /\ ~NoneComes
      <4>1. PICK q \in Pids, s \in Starts : ComesAt(q, s)
        BY <3>3, SpawnSupervisorComes
      <4>2. ~Raise
        BY <1>2, <1>4, <3>3, RaisedIs
      <4>3. p = q
        BY <1>2, <1>4, <3>1, <3>3, <4>1 DEF ComesAt
      <4>4. run'.supervisor = [pid |-> q, start |-> s]
        BY <1>1, <4>1, <4>2 DEF ComesAt, Locals
      <4>5. [pid |-> q, start |-> s] # None
        BY BoundsAssumption
      <4>6. QED
        BY <4>3, <4>4, <4>5
    <3>4. QED
      BY <3>2, <3>3, StepComes
  <2>2. CASE Prepare /\ FreshTunnel(run'.tunnel)
    BY <1>4, <2>2 DEF FreshTunnel, Fresh, Prepare, HoldsNext
  <2>3. QED
    BY <1>4, <2>1, <2>2, FullGoesOn
<1>5. QED
  BY <1>3, <1>4 DEF OneHome, Holds, HoldsNext

LEMMA DownKept ==
  ASSUME Safe, OneHome, StillDown, [Next]_vars
  PROVE  StillDown'
<1> SUFFICES ASSUME run'.outcome = "stopped"
             PROVE  /\ manifest' # None
                    /\ \A p \in Pids : ~HoldsNext(p, manifest'.tunnel)
                    /\ ~AliveNext(manifest'.bridge)
                    /\ ~AliveNext(manifest'.supervisor)
  BY DEF StillDown, StoppedIsDown, Bound, TunnelUp, HoldsNext, TunnelRoles,
         Alive, AliveNext, WorkRoles
<1>1. run \in Locals /\ (run.pc # "idle" => run.outcome = "none")
  BY DEF Safe, Typed, PlaceOK
<1>2. CASE run.pc # "idle" /\ ObserveGroups /\ GroupsGone
  <2>1. /\ Bound /\ manifest' = manifest /\ procs' = procs
        /\ manifest.bridge \in Record /\ manifest.supervisor \in Record
    BY <1>2 DEF ObserveGroups, files, Safe, PlaceOK, Typed, Bound, Manifest
  <2>2. /\ procs[manifest.bridge.pid].role \in {"none", "foreign"}
        /\ procs[manifest.supervisor.pid].role \in {"none", "foreign"}
    BY <1>2 DEF GroupsGone, GroupGone
  <2>3. \A p \in Pids : ~Holds(p, manifest.tunnel)
    BY <2>1, <2>2 DEF OneHome, Holds, TunnelRoles, Supervisors
  <2>4. QED
    BY <2>1, <2>2, <2>3, RoleSets DEF Bound, Holds, HoldsNext, AliveNext
<1>3. CASE run' = run /\ manifest' = manifest /\ NoneComes
           /\ \A r \in Records : AliveNext(r) => Alive(r)
  <2>1. /\ Bound /\ StoppedIsDown /\ manifest.tunnel \in Tunnels
        /\ manifest.bridge \in Records /\ manifest.supervisor \in Records
    BY <1>3, RecordsTyped DEF StillDown, Safe, Typed, Bound, Manifest
  <2>2. \A p \in Pids : ~Holds(p, manifest.tunnel)
    BY <1>3, <2>1 DEF StoppedIsDown, TunnelUp, Holds, TunnelRoles
  <2>3. QED
    BY <1>3, <2>1, <2>2 DEF StoppedIsDown, NoneComes, Bound
<1>4. CASE run.pc # "idle"
  <2>1. ObserveGroups /\ GroupsGone
    BY <1>4, RunEnds DEF EndsWell
  <2>2. QED
    BY <1>2, <1>4, <2>1
<1>5. CASE run.pc = "idle" /\ ~UNCHANGED vars
  <2>1. ~\E mode \in {"recover", "stop"} : Begin(mode)
    BY DEF Begin, Ended
  <2>2. ~Step /\ ~Killed
    BY <1>5
       DEF Step, Prepare, RemoveReadiness, StopProcess, StopPlaces,
           SpawnSupervisor, AwaitReadiness, RewriteRuntime, SpawnBridge,
           ProveHealth, Probe, Commit, RestoreRuntime, ObserveGroups, Killed
  <2>3. PICK q \in Pids :
          Listen(q) \/ BindFails(q) \/ PublishReadiness(q)
            \/ ProcessExits(q) \/ CloudflaredEnds(q) \/ IdReused(q)
    BY <1>5, <2>1, <2>2 DEF Next
  <2>4. QED
    BY <1>3, <2>3, ProcessesOnlyEnd, ProcessComes
<1>6. CASE UNCHANGED vars
  <2>1. UNCHANGED <<run, manifest, procs>>
    BY <1>6 DEF vars
  <2>2. NoneComes
    BY <2>1 DEF NoneComes, Holds, HoldsNext
  <2>3. QED
    BY <1>3, <2>1, <2>2, NothingAppears
<1>7. QED
  BY <1>4, <1>5, <1>6

\* After "ingress-stopped", and until a next run begins, no supervisor and no
\* cloudflared serves the hostname of the generation, under any process id,
\* and neither process on its record lives.
THEOREM StopsStayDown == Spec => []StoppedIsDown
<1>1. Init => Differs /\ OneHome /\ StillDown
  <2> SUFFICES ASSUME Init PROVE OneHome /\ StillDown
    BY InitIngress
  <2>1. run.outcome = "none" /\ run.mode = "none" /\ ~Bound
    BY DEF Init, Ended, Bound
  <2>2. QED
    BY <2>1 DEF OneHome, StillDown
<1>2. Safe /\ Differs /\ OneHome /\ StillDown /\ [Next]_vars
        => (Differs /\ OneHome /\ StillDown)'
  BY DiffersKept, OneHomeKept, DownKept
<1>3. StillDown => StoppedIsDown
  BY DEF StillDown, StoppedIsDown
<1>4. QED
  BY <1>1, <1>2, <1>3, Invariance, PTL DEF Spec

-----------------------------------------------------------------------------
(* Every run is short: it goes forward, or back, and never round.          *)

\* How many places a run can still come to; after its commit it only looks.
Height(pc, post) ==
  CASE pc = "idle" -> 0
    [] pc \in {"groups", "cleanReady"} -> 1
    [] pc = "restore" -> 2
    [] pc = "cleanSupervisor" -> 3
    [] pc = "cleanBridge" -> 4
    [] pc = "commit" -> 5
    [] pc = "probe" -> IF post THEN 1 ELSE 6
    [] pc = "health" -> IF post THEN 2 ELSE 7
    [] pc = "spawnBridge" -> 8
    [] pc = "rewrite" -> 9
    [] pc = "await" -> 10
    [] pc = "spawnSupervisor" -> 11
    [] pc = "stopSupervisor" -> 12
    [] pc = "stopBridge" -> 13
    [] pc = "remove" -> 14
    [] pc = "prepare" -> IF post THEN 3 ELSE 15

\* A stop sends two signals at most.
Left(r) ==
  IF r.pc = "idle" THEN 0
  ELSE 3 * Height(r.pc, r.post)
         + (CASE r.stage = "term" -> 2 [] r.stage = "kill" -> 1 [] r.stage = "last" -> 0)

Nearer == Left(run') < Left(run)

LEMMA Heights ==
  ASSUME NEW post \in BOOLEAN
  PROVE  /\ Height("idle", post) = 0
         /\ Height("groups", post) = 1 /\ Height("cleanReady", post) = 1
         /\ Height("restore", post) = 2 /\ Height("cleanSupervisor", post) = 3
         /\ Height("cleanBridge", post) = 4 /\ Height("commit", post) = 5
         /\ Height("probe", post) = (IF post THEN 1 ELSE 6)
         /\ Height("health", post) = (IF post THEN 2 ELSE 7)
         /\ Height("spawnBridge", post) = 8 /\ Height("rewrite", post) = 9
         /\ Height("await", post) = 10 /\ Height("spawnSupervisor", post) = 11
         /\ Height("stopSupervisor", post) = 12 /\ Height("stopBridge", post) = 13
         /\ Height("remove", post) = 14
         /\ Height("prepare", post) = (IF post THEN 3 ELSE 15)
BY DEF Height

LEMMA HeightRange ==
  ASSUME NEW pc \in Places, NEW post \in BOOLEAN
  PROVE  /\ Height(pc, post) \in 0 .. 15
         /\ pc # "idle" => Height(pc, post) > 0
BY Heights DEF Places, StopPlaces

LEMMA LeftRange ==
  ASSUME NEW r \in Locals
  PROVE  /\ Left(r) \in 0 .. 47
         /\ Left(r) = 0 <=> r.pc = "idle"
<1>1. /\ Height(r.pc, r.post) \in 0 .. 15
      /\ r.pc # "idle" => Height(r.pc, r.post) > 0
  BY HeightRange DEF Locals
<1>2. r.stage \in {"term", "kill", "last"}
  BY DEF Locals
<1> HIDE DEF Height
<1> QED BY <1>1, <1>2 DEF Left

\* A lower place counts for more than the signals.
LEMMA LowerIsNearer ==
  ASSUME run \in Locals, run.pc # "idle", run'.stage \in {"term", "kill", "last"},
         run'.pc \in Places, run'.post \in BOOLEAN,
         Height(run'.pc, run'.post) < Height(run.pc, run.post)
  PROVE  Nearer
<1>1. /\ Height(run.pc, run.post) \in 0 .. 15
      /\ Height(run'.pc, run'.post) \in 0 .. 15
  BY HeightRange DEF Locals
<1>2. run.stage \in {"term", "kill", "last"}
  BY DEF Locals
<1> HIDE DEF Height
<1> QED BY <1>1, <1>2 DEF Left, Nearer

LEMMA EndIsNearer ==
  ASSUME run \in Locals, run.pc # "idle", NEW o, run' = Ended(o)
  PROVE  Nearer
<1>1. Left(run') = 0
  BY DEF Ended, Left
<1> QED BY <1>1, LeftRange DEF Nearer

LEMMA AboveUndoing ==
  ASSUME NEW pc \in Places,
         pc \notin {"idle", "cleanBridge", "groups"} \cup UndoPlaces
  PROVE  Height(pc, FALSE) > 4
<1>1. pc \in {"commit", "probe", "health", "spawnBridge", "rewrite", "await",
              "spawnSupervisor", "stopSupervisor", "stopBridge", "remove",
              "prepare"}
  BY DEF Places, StopPlaces, UndoPlaces
<1>2. \A above \in {"commit", "probe", "health", "spawnBridge", "rewrite",
                     "await", "spawnSupervisor", "stopSupervisor",
                     "stopBridge", "remove", "prepare"} :
        Height(above, FALSE) > 4
  BY DEF Height
<1> QED BY <1>1, <1>2

\* An error: the run is over, or it undoes what it began.
LEMMA RaiseIsNearer ==
  ASSUME Safe, run.pc \notin {"idle", "cleanBridge"} \cup UndoPlaces, Raise
  PROVE  Nearer
<1>1. run \in Locals
  BY DEF Safe, Typed
<1>2. CASE run' = Ended("failed")
  BY <1>1, <1>2, EndIsNearer
<1>3. CASE Recovering
           /\ run' = [run EXCEPT !.pc = "cleanBridge", !.stage = "term"]
  <2>1. /\ run'.pc = "cleanBridge" /\ run'.stage = "term"
        /\ run'.post = FALSE /\ run.post = FALSE
    BY <1>1, <1>3 DEF Locals, Recovering
  <2>2. run.pc \in Places /\ run.pc # "groups"
    BY <1>1, <1>3 DEF Locals, Safe, PlaceOK, Recovering
  <2>3. Height(run.pc, FALSE) > 4
    BY <2>2, AboveUndoing
  <2>4. Height("cleanBridge", FALSE) = 4
    BY Heights
  <2>5. Height(run'.pc, run'.post) < Height(run.pc, run.post)
    BY <2>1, <2>2, <2>3, <2>4
  <2> QED BY <1>1, <2>1, <2>5, LowerIsNearer DEF Places, StopPlaces
<1> QED BY <1>2, <1>3, RaiseCases

LEMMA PrepareIsNearer ==
  ASSUME Safe, Prepare
  PROVE  Nearer
<1>1. /\ run \in Locals /\ run.pc = "prepare" /\ run.post \in BOOLEAN
      /\ run.stage \in {"term", "kill", "last"}
      /\ run.mode \in IF run.post THEN {"bridge", "full"} ELSE {"recover", "stop"}
  BY DEF Prepare, Safe, PlaceOK, Typed, Locals
<1>2. CASE Raise
  BY <1>1, <1>2, RaiseIsNearer DEF UndoPlaces
<1>3. CASE End("failed")
  BY <1>1, <1>3, EndIsNearer DEF End
<1>4. ASSUME NEW pc \in {"health", "spawnBridge", "remove", "stopBridge"},
             run'.pc = pc, run'.post = run.post, run'.stage = run.stage,
             run.post => pc = "health"
      PROVE  Nearer
  <2>1. Height(run'.pc, run'.post) < Height(run.pc, run.post)
    BY <1>1, <1>4, Heights
  <2> QED BY <1>1, <1>4, <2>1, LowerIsNearer DEF Places, StopPlaces
<1>5. CASE run' = [run EXCEPT !.pc = "health", !.tunnel = manifest.tunnel,
                              !.mode = IF run.post THEN @ ELSE "verify"]
  BY <1>1, <1>4, <1>5 DEF Locals
<1>6. CASE run.mode = "recover"
           /\ run' = [run EXCEPT !.pc = "spawnBridge", !.mode = "bridge",
                                 !.tunnel = manifest.tunnel,
                                 !.supervisor = manifest.supervisor]
  BY <1>1, <1>4, <1>6 DEF Locals
<1>7. ASSUME run.mode = "recover", NEW t \in Tunnels,
             run' = [run EXCEPT !.pc = "remove", !.mode = "full", !.tunnel = t,
                                !.found = runtime,
                                !.bridgeClass = ManifestBridge,
                                !.supervisorClass = ManifestSupervisor]
      PROVE  Nearer
  BY <1>1, <1>4, <1>7 DEF Locals
<1>8. CASE run.mode = "stop"
           /\ run' = [run EXCEPT !.pc = "stopBridge",
                                 !.bridgeClass = ManifestBridge,
                                 !.supervisorClass = ManifestSupervisor]
  BY <1>1, <1>4, <1>8 DEF Locals
<1> QED BY <1>2, <1>3, <1>5, <1>6, <1>7, <1>8 DEF Prepare, Decided

LEMMA StopIsNearer ==
  ASSUME Safe, StopProcess
  PROVE  Nearer
<1>1. /\ run \in Locals /\ run.pc \in StopPlaces /\ run.pc # "idle"
      /\ run.post \in BOOLEAN
  BY DEF StopProcess, StopPlaces, Safe, Typed, Locals
<1>2. ASSUME NEW r, run' = Continued(r, AfterStop), r \in Locals,
             r.post = run.post
      PROVE  Nearer
  <2>1. CASE AfterStop = "idle"
    BY <1>1, <1>2, <2>1, EndIsNearer DEF Continued
  <2>2. CASE AfterStop # "idle"
    <3>1. run'.pc = AfterStop /\ run'.stage = "term" /\ run'.post = run.post
      BY <1>2, <2>2 DEF Continued, Locals
    <3>2. AfterStop \in Places
      BY <1>1 DEF AfterStop, Places, StopPlaces
    <3>3. Height(AfterStop, run.post) < Height(run.pc, run.post)
      BY <1>1, <2>2, Heights DEF AfterStop, StopPlaces
    <3> QED BY <1>1, <3>1, <3>2, <3>3, LowerIsNearer
  <2> QED BY <2>1, <2>2
<1>3. CASE StopDone
  BY <1>1, <1>2, <1>3 DEF StopDone
<1>4. CASE Signal
  <2>1. /\ run'.pc = run.pc /\ run'.post = run.post
        /\ \/ run.stage = "term" /\ run'.stage = "kill"
           \/ run.stage = "kill" /\ run'.stage = "last"
    BY <1>1, <1>4 DEF Signal, MaySignal, Locals
  <2>2. Height(run.pc, run.post) \in 0 .. 15
    BY <1>1, HeightRange DEF Locals
  <2> HIDE DEF Height
  <2> QED BY <1>1, <2>1, <2>2 DEF Left, Nearer
<1>5. CASE StopGivesUp /\ run.pc \in {"cleanBridge", "cleanSupervisor"}
  <2>1. [run EXCEPT !.left = @ \cup {StopPart}] \in Locals
    <3>1. run.left \cup {StopPart} \in SUBSET Parts
      BY <1>1 DEF Locals, StopPart, Parts
    <3>2. QED
      BY <1>1, <3>1 DEF Locals
  <2>2. [run EXCEPT !.left = @ \cup {StopPart}].post = run.post
    BY <1>1 DEF Locals
  <2> QED BY <1>2, <1>5, <2>1, <2>2 DEF StopGivesUp, StopRaised
<1>6. CASE StopGivesUp /\ run.pc \notin {"cleanBridge", "cleanSupervisor"}
  BY <1>1, <1>6, RaiseIsNearer
     DEF StopGivesUp, StopRaised, Raise, StopPlaces, UndoPlaces
<1> QED BY <1>3, <1>4, <1>5, <1>6 DEF StopProcess

LEMMA StepIsNearer ==
  ASSUME Safe, Step \/ Killed
  PROVE  Nearer
<1>1. run \in Locals /\ run.post \in BOOLEAN
      /\ run.stage \in {"term", "kill", "last"}
  BY DEF Safe, Typed, Locals
<1>2. ASSUME NEW pc \in Places, run.pc # "idle",
             run'.pc = pc, run'.post \in BOOLEAN,
             run'.stage \in {"term", "kill", "last"},
             Height(pc, run'.post) < Height(run.pc, run.post)
      PROVE  Nearer
  BY <1>1, <1>2, LowerIsNearer
<1>3. ASSUME NEW pc, Go(pc)
      PROVE  run'.pc = pc /\ run'.post = run.post /\ run'.stage = "term"
  BY <1>1, <1>3 DEF Go, Locals
<1>4. CASE RemoveReadiness
  <2>1. run.pc \in {"remove", "cleanReady"} /\ run.pc # "idle"
    BY <1>4 DEF RemoveReadiness
  <2>2. CASE End("failed")
    BY <1>1, <2>1, <2>2, EndIsNearer DEF End
  <2>3. CASE run.pc = "remove" /\ Go("stopBridge")
    BY <1>1, <1>2, <1>3, <2>3, Heights DEF Places, StopPlaces
  <2> QED BY <1>4, <2>2, <2>3 DEF RemoveReadiness
<1>5. CASE SpawnSupervisor \/ SpawnBridge
  <2>1. CASE Raise
    BY <1>5, <2>1, RaiseIsNearer DEF SpawnSupervisor, SpawnBridge, UndoPlaces
  <2>2. ASSUME SpawnSupervisor, NEW r,
               run' = [run EXCEPT !.pc = "await", !.supervisor = r]
        PROVE  Nearer
    <3>1. run.pc = "spawnSupervisor"
      BY <2>2 DEF SpawnSupervisor
    <3>2. run'.pc = "await" /\ run'.post = run.post /\ run'.stage = run.stage
      BY <1>1, <2>2 DEF Locals
    <3> QED BY <1>1, <1>2, <3>1, <3>2, Heights DEF Places
  <2>3. ASSUME SpawnBridge, NEW r,
               run' = [run EXCEPT !.pc = "health", !.bridge = r]
        PROVE  Nearer
    <3>1. run.pc = "spawnBridge"
      BY <2>3 DEF SpawnBridge
    <3>2. run'.pc = "health" /\ run'.post = run.post /\ run'.stage = run.stage
      BY <1>1, <2>3 DEF Locals
    <3> QED BY <1>1, <1>2, <3>1, <3>2, Heights DEF Places
  <2> QED BY <1>5, <2>1, <2>2, <2>3 DEF SpawnSupervisor, SpawnBridge, SpawnFails
<1>6. CASE AwaitReadiness \/ ProveHealth
  <2>1. CASE Raise
    BY <1>6, <2>1, RaiseIsNearer DEF AwaitReadiness, ProveHealth, UndoPlaces
  <2>2. CASE run.pc = "await" /\ Go("rewrite")
    BY <1>1, <1>2, <1>3, <2>2, Heights DEF Places
  <2>3. CASE run.pc = "health" /\ Go("probe")
    BY <1>1, <1>2, <1>3, <2>3, Heights DEF Places
  <2> QED BY <1>6, <2>1, <2>2, <2>3 DEF AwaitReadiness, ProveHealth
<1>7. CASE RewriteRuntime
  <2>1. CASE Raise
    BY <1>7, <2>1, RaiseIsNearer DEF RewriteRuntime, UndoPlaces
  <2>2. CASE run' = [run EXCEPT !.pc = "spawnBridge", !.original = runtime]
    <3>1. run.pc = "rewrite"
      BY <1>7 DEF RewriteRuntime
    <3>2. run'.pc = "spawnBridge" /\ run'.post = run.post /\ run'.stage = run.stage
      BY <1>1, <2>2 DEF Locals
    <3> QED BY <1>1, <1>2, <3>1, <3>2, Heights DEF Places
  <2> QED BY <1>7, <2>1, <2>2 DEF RewriteRuntime
<1>8. CASE Probe
  <2>1. CASE Raise
    BY <1>8, <2>1, RaiseIsNearer DEF Probe, UndoPlaces
  <2>2. CASE End("verified")
    BY <1>1, <1>8, <2>2, EndIsNearer DEF Probe, End
  <2>3. ASSUME ~Verified, NEW r,
               run' = [run EXCEPT !.pc = "commit", !.answered = r]
        PROVE  Nearer
    <3>1. run.pc = "probe" /\ run.post = FALSE
      BY <1>1, <1>8, <2>3 DEF Probe, Verified
    <3>2. run'.pc = "commit" /\ run'.post = run.post /\ run'.stage = run.stage
      BY <1>1, <2>3 DEF Locals
    <3> QED BY <1>1, <1>2, <3>1, <3>2, Heights DEF Places
  <2> QED BY <1>8, <2>1, <2>2, <2>3 DEF Probe, ProbeAnswered
<1>9. CASE Commit
  <2>1. CASE Raise
    BY <1>9, <2>1, RaiseIsNearer DEF Commit, UndoPlaces
  <2>2. CASE run' = [Ended("none") EXCEPT !.pc = "prepare", !.mode = run.mode,
                                          !.post = TRUE]
    <3>1. run.pc = "commit"
      BY <1>9 DEF Commit
    <3>2. run'.pc = "prepare" /\ run'.post = TRUE /\ run'.stage = "term"
      BY <2>2 DEF Ended
    <3>3. Height("prepare", TRUE) = 3 /\ Height("commit", run.post) = 5
      BY <1>1, Heights
    <3>4. Height(run'.pc, run'.post) = 3 /\ Height(run.pc, run.post) = 5
      BY <3>1, <3>2, <3>3, Zenon
    <3>5. run'.pc \in Places /\ run'.post \in BOOLEAN
      BY <3>2 DEF Places
    <3>6. Height(run'.pc, run'.post) < Height(run.pc, run.post)
      BY <3>4
    <3> QED BY <1>1, <3>1, <3>2, <3>5, <3>6, LowerIsNearer
  <2> QED BY <1>9, <2>1, <2>2 DEF Commit
<1>10. CASE RestoreRuntime
  <2>1. run.pc = "restore"
    BY <1>10 DEF RestoreRuntime
  <2>2. run'.pc = "cleanReady" /\ run'.post = run.post
        /\ run'.stage \in {run.stage, "term"}
    BY <1>1, <1>3, <1>10 DEF RestoreRuntime, Locals
  <2> QED BY <1>1, <1>2, <2>1, <2>2, Heights DEF Places
<1>11. CASE ObserveGroups \/ Killed
  BY <1>1, <1>11, EndIsNearer DEF ObserveGroups, Killed, End
<1> QED BY <1>4, <1>5, <1>6, <1>7, <1>8, <1>9, <1>10, <1>11, PrepareIsNearer,
           StopIsNearer DEF Step

\* Every step of a run takes it nearer to its end, the undoing of what it
\* began included, and nothing else delays it: a run is over after 47 steps
\* at most.  What RunsEnd adds is that a run that may go on does.
ShortRuns ==
  [][/\ Step \/ Killed => Left(run') < Left(run)
     /\ run.pc # "idle" => Left(run') <= Left(run)]_vars

THEOREM RunsAreShort ==
  Spec => ShortRuns /\ [](Left(run) \in 0 .. 47 /\ (Left(run) = 0 <=> run.pc = "idle"))
<1> DEFINE Short == /\ Step \/ Killed => Left(run') < Left(run)
                    /\ run.pc # "idle" => Left(run') <= Left(run)
           Counts == Left(run) \in 0 .. 47 /\ (Left(run) = 0 <=> run.pc = "idle")
<1>1. Safe => Counts
  BY LeftRange DEF Safe, Typed
<1>2. Safe /\ [Next]_vars => [Short]_vars
  <2> SUFFICES ASSUME Safe, Next  PROVE Short
    OBVIOUS
  <2>1. CASE Step \/ Killed
    <3>1. Left(run') < Left(run)
      BY <2>1, StepIsNearer DEF Nearer
    <3>2. run' \in Locals /\ run \in Locals
      BY StepKeeps DEF Safe, Typed
    <3>3. Left(run') \in 0 .. 47 /\ Left(run) \in 0 .. 47
      BY <3>2, LeftRange
    <3> HIDE DEF Left
    <3> QED BY <3>1, <3>3
  <2>2. CASE ~(Step \/ Killed)
    <3>1. run.pc # "idle" => run' = run
      BY <2>2 DEF Next, Begin, Listen, BindFails, PublishReadiness,
                  ProcessExits, CloudflaredEnds, IdReused
    <3> QED BY <1>1, <2>2, <3>1
  <2> QED BY <2>1, <2>2
<1> HIDE DEF Short, Counts
<1>3. Spec => [][Short]_vars /\ []Counts
  BY <1>1, <1>2, Invariance, PTL DEF Spec
<1> QED BY <1>3 DEF Short, Counts, ShortRuns
=============================================================================
