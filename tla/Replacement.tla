------------------------------ MODULE Replacement ------------------------------
(***************************************************************************)
(* The plugin's wiring: register() in pebble_bridge/plugin.py.             *)
(*                                                                         *)
(* Every time the gateway connects, it hands the plugin an adapter and a   *)
(* client (wire()). The first service starts at once, or when its client   *)
(* is ready; a later one waits for a task that stops the service before it.*)
(* Tasks queue for one lock; a task, a service and a client are named by   *)
(* the generation that wire() gave them. What a service does between       *)
(* start() and stop() is the matter of RingService.                        *)
(***************************************************************************)
EXTENDS Naturals

CONSTANTS
  Wires,     \* bound on the connections of one process
  Adapters,  \* the gateway's adapters for the channel's platform
  AdapterOf  \* what each connection comes with: a new adapter or an old one

Generations == 1..Wires

ASSUME WiresAssumption == Wires \in Nat
ASSUME AdapterAssumption == AdapterOf \in [Generations -> Adapters]

NoService == 0

VARIABLES
  generation,       \* connections so far
  ready,            \* native.is_ready()
  phase,            \* phase[i]: how far service i has come
  mayStart,         \* services with may_start
  services,         \* the hook's table: the service of each adapter, or none
  pending,          \* replacement_pending
  retirementFailed, \* retirement_failed: only a restart of the process helps
  task,             \* task[i]: replace_service() of generation i
  guard             \* _ring_admission_guard of each adapter, its handler too

connections == <<generation, ready>>
wiring == <<mayStart, services, pending, retirementFailed, task, phase, guard>>
vars == <<connections, wiring>>

Init ==
  /\ generation = 0
  /\ ready = [i \in Generations |-> FALSE]
  /\ phase = [i \in Generations |-> "none"]
  /\ mayStart = {}
  /\ services = [a \in Adapters |-> NoService]
  /\ pending = FALSE
  /\ retirementFailed = FALSE
  /\ task = [i \in Generations |-> "none"]
  /\ guard = [a \in Adapters |-> NoService]

Installed == {services[a] : a \in Adapters} \ {NoService}

-----------------------------------------------------------------------------
(* activate(): start() takes the adapter's handler last, and nothing is     *)
(* left of an attempt that raises. "phases" and "guards" are what the step  *)
(* has made of phase and guard before.                                     *)

Starts(i, phases, guards) ==
  LET a == AdapterOf[i] IN
  /\ guards[a] = NoService
  /\ phase' = [phases EXCEPT ![i] = "running"]
  /\ guard' = [guards EXCEPT ![a] = i]
  /\ services' = [services EXCEPT ![a] = i]

StartRaises(i, phases, guards) ==
  /\ phase' = [phases EXCEPT ![i] = "failed"]
  /\ guard' = guards
  /\ UNCHANGED services

Waits(i, phases, guards) ==
  /\ phase' = [phases EXCEPT ![i] = "wired"]
  /\ guard' = guards
  /\ UNCHANGED services

-----------------------------------------------------------------------------
(* wire()                                                                  *)

\* Wrong on purpose: that the table is empty is taken to mean that nobody works.
ImmediateIfEmpty == Installed = {}

Immediate == Installed = {} /\ ~pending

\* An error of start() goes to the native factory, which reports it.
WireFirst(i, isReady) ==
  /\ Immediate
  /\ mayStart' = mayStart \cup {i}
  /\ \/ isReady /\ (Starts(i, phase, guard) \/ StartRaises(i, phase, guard))
     \/ ~isReady /\ Waits(i, phase, guard)
  /\ UNCHANGED <<pending, task>>

WireNext(i) ==
  /\ ~Immediate
  /\ Waits(i, phase, guard)
  /\ pending' = TRUE
  /\ task' = [task EXCEPT ![i] = "queued"]
  /\ UNCHANGED mayStart

\* The client may be ready already.
Wire ==
  LET i == generation + 1 IN
  /\ generation < Wires
  /\ ~retirementFailed
  /\ generation' = i
  /\ \E isReady \in BOOLEAN :
       /\ ready' = [ready EXCEPT ![i] = isReady]
       /\ WireFirst(i, isReady) \/ WireNext(i)
  /\ UNCHANGED retirementFailed

\* RingService() refuses an adapter it does not know: a generation without a
\* service, that no task works for.
WireFails ==
  LET i == generation + 1 IN
  /\ generation < Wires
  /\ ~retirementFailed
  /\ generation' = i
  /\ phase' = [phase EXCEPT ![i] = "failed"]
  /\ UNCHANGED <<ready, mayStart, services, pending,
                 retirementFailed, task, guard>>

\* on_ready: the service whose client it is may start, if its turn has come.
OnReady(i) ==
  /\ phase[i] = "wired"
  /\ ~ready[i]
  /\ ready' = [ready EXCEPT ![i] = TRUE]
  /\ IF i = generation /\ i \in mayStart
     THEN Starts(i, phase, guard) \/ StartRaises(i, phase, guard)
     ELSE Waits(i, phase, guard)
  /\ UNCHANGED <<generation, mayStart, pending, retirementFailed,
                 task>>

-----------------------------------------------------------------------------
(* replace_service()                                                       *)

\* The lock is handed over in the order of the tasks.
IsNext(i) ==
  /\ task[i] = "queued"
  /\ \A j \in Generations :
       /\ task[j] # "stopping"
       /\ task[j] = "queued" => i <= j

TaskEnds(i) == task' = [task EXCEPT ![i] = "done"]

GivesUp(i) ==
  /\ IsNext(i)
  /\ \/ i # generation /\ UNCHANGED pending
     \/ i = generation /\ retirementFailed /\ pending' = FALSE
  /\ TaskEnds(i)
  /\ UNCHANGED <<connections, mayStart, services, retirementFailed, phase,
                 guard>>

\* The table is emptied before the first await: the hook skips from now on.
BeginsStop(i) ==
  /\ IsNext(i)
  /\ i = generation
  /\ ~retirementFailed
  /\ Installed # {}
  /\ services' = [a \in Adapters |-> NoService]
  /\ phase' = [j \in Generations |->
                 IF j \in Installed THEN "stopping" ELSE phase[j]]
  /\ task' = [task EXCEPT ![i] = "stopping"]
  /\ UNCHANGED <<connections, mayStart, pending, retirementFailed, guard>>

Stopping == {j \in Generations : phase[j] = "stopping"}

\* Wrong on purpose: a client that is ready is trusted to say so again.
ActivatesOnReady(i, phases, guards) ==
  /\ Waits(i, phases, guards)
  /\ UNCHANGED retirementFailed

\* Whatever goes wrong now is final.
Activates(i, phases, guards) ==
  \/ /\ ~ready[i]
     /\ Waits(i, phases, guards)
     /\ UNCHANGED retirementFailed
  \/ /\ ready[i]
     /\ Starts(i, phases, guards)
     /\ UNCHANGED retirementFailed
  \/ /\ ready[i]
     /\ StartRaises(i, phases, guards)
     /\ retirementFailed' = TRUE

\* What follows when nobody works any more.
HandsOver(i) ==
  LET phases == [j \in Generations |->
                   IF j \in Stopping THEN "stopped" ELSE phase[j]]
      guards == [a \in Adapters |->
                   IF guard[a] \in Stopping THEN NoService ELSE guard[a]]
  IN
  /\ \/ task[i] = "stopping"
     \/ IsNext(i) /\ i = generation /\ ~retirementFailed /\ Installed = {}
  /\ \/ /\ i # generation
        /\ phase' = phases
        /\ guard' = guards
        /\ UNCHANGED <<mayStart, services, pending, retirementFailed>>
     \/ /\ i = generation
        /\ mayStart' = mayStart \cup {i}
        /\ pending' = FALSE
        /\ Activates(i, phases, guards)
  /\ TaskEnds(i)
  /\ UNCHANGED connections

\* The 15 s are over and the service is not down.
StopFails(i) ==
  /\ task[i] = "stopping"
  /\ retirementFailed' = TRUE
  /\ phase' = [j \in Generations |->
                 IF j \in Stopping THEN "stuck" ELSE phase[j]]
  /\ pending' = (pending /\ i # generation)
  /\ TaskEnds(i)
  /\ UNCHANGED <<connections, mayStart, services, guard>>

-----------------------------------------------------------------------------
(* Properties.                                                             *)

Phases == {"none", "wired", "failed", "running", "stopping", "stopped",
           "stuck"}

\* Each variable has the form the code gives it.
TypeOK ==
  /\ generation \in 0..Wires
  /\ ready \in [Generations -> BOOLEAN]
  /\ phase \in [Generations -> Phases]
  /\ mayStart \subseteq Generations
  /\ services \in [Adapters -> 0..Wires]
  /\ pending \in BOOLEAN
  /\ retirementFailed \in BOOLEAN
  /\ task \in [Generations -> {"none", "queued", "stopping", "done"}]
  /\ guard \in [Adapters -> 0..Wires]

\* Workers that may still use the database and the channel.
Working == {i \in Generations : phase[i] \in {"running", "stopping", "stuck"}}

\* However fast connections follow each other and whatever fails, two services
\* never work at once, and the hook never asks one that is not in the handler
\* of its adapter as well.
SoleService ==
  /\ \A i, j \in Working : i = j
  /\ \A a \in Adapters : services[a] # NoService =>
       /\ guard[a] = services[a]
       /\ phase[services[a]] = "running"

\* The service of the newest connection does not wait for ever once its client
\* is ready: it is started, unless a newer connection takes over or a failed
\* handoff has closed the Ring for this process.
NewestActivates ==
  \A i \in Generations :
    phase[i] = "wired" /\ ready[i] ~>
      phase[i] # "wired" \/ i # generation \/ retirementFailed

=============================================================================
