----------------------------- MODULE WatchdogMC -----------------------------
(***************************************************************************)
(* The safety instances of Watchdog.  Process ids, start times and tunnels *)
(* are only ever compared for equality.  Ids are permuted (Symmetry); the  *)
(* view replaces a tunnel by the first place that holds it, or by the ids  *)
(* of the processes that have it, and a start time by whether the recorded *)
(* instance is still there.  It leaves out what the operator knows, which  *)
(* guards nothing, and the locals that are not read any more: the classes  *)
(* found of the old processes once these are stopped, the answer to the    *)
(* probe once it is committed.                                             *)
(***************************************************************************)
EXTENDS Watchdog, TLC

Symmetry == Permutations(Pids)

Holders ==
  <<IF Bound THEN manifest.tunnel ELSE None, run.tunnel, ready, runtime, run.original>>
TunnelSeen(t) ==
  IF t \in {None, Bootstrap} THEN t
  ELSE LET places == {i \in DOMAIN Holders : Holders[i] = t}
       IN  IF places = {} THEN {p \in Pids : procs[p].tunnel = t}
           ELSE CHOOSE i \in places : \A j \in places : i <= j
RecordSeen(r) ==
  IF r = None THEN None ELSE <<r.pid, procs[r.pid].start = r.start>>

View ==
  <<[p \in Pids |-> <<procs[p].role, procs[p].orphan, TunnelSeen(procs[p].tunnel)>>],
    port, faults,
    IF Bound THEN <<RecordSeen(manifest.bridge), RecordSeen(manifest.supervisor)>> ELSE None,
    [i \in DOMAIN Holders |-> TunnelSeen(Holders[i])],
    <<RecordSeen(run.bridge), RecordSeen(run.supervisor),
      IF run.pc = "commit" THEN RecordSeen(run.answered) ELSE None>>,
    IF run.pc \in {"remove", "stopBridge", "stopSupervisor"}
    THEN <<run.bridgeClass, run.supervisorClass>> ELSE None,
    <<run.pc, run.mode, run.stage, run.post, run.left, run.found = runtime,
      run.found = run.original, run.outcome = "stopped">>>>
=============================================================================
