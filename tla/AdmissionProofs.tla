---------------------------- MODULE AdmissionProofs ----------------------------
(***************************************************************************)
(* What is proved of Admission, and of the wiring of Replacement that it   *)
(* contains, for any number of connections, adapters and messages.         *)
(*                                                                         *)
(* That two services never work at once rests on what the tasks know of    *)
(* each other: a task that stops a service is alone, the table it emptied  *)
(* stays empty while it waits, and replacement_pending keeps a connection  *)
(* that comes meanwhile from starting on its own. HandoffInv puts this     *)
(* into one inductive invariant.                                           *)
(***************************************************************************)
EXTENDS Admission, TLAPS

-----------------------------------------------------------------------------
(* The inductive invariant of the wiring.                                  *)

OneWorks == \A i, j \in Working : i = j

\* The table tells the truth about the services that are running.
TableTrue ==
  /\ \A a \in Adapters : services[a] # NoService =>
       /\ services[a] \in Generations
       /\ phase[services[a]] = "running"
       /\ guard[a] = services[a]
       /\ AdapterOf[services[a]] = a
  /\ \A i \in Generations : phase[i] = "running" => services[AdapterOf[i]] = i

\* A task that stops a service is alone, holds replacement_pending and finds no
\* service running; a service that stops has such a task.
StopperAlone ==
  /\ \A i \in Generations : task[i] = "stopping" =>
       /\ pending
       /\ ~retirementFailed
       /\ \A j \in Generations : task[j] = "stopping" => j = i
       /\ \A j \in Generations : phase[j] # "running"
  /\ \A j \in Generations : phase[j] = "stopping" =>
       \E i \in Generations : task[i] = "stopping"

StuckIsFinal ==
  \A i \in Generations : phase[i] = "stuck" => retirementFailed

\* Whose turn it is to start finds nobody at work.
TurnIsFree ==
  /\ \A i \in Generations : i = generation /\ i \in mayStart =>
       /\ ~pending
       /\ task[i] \notin {"queued", "stopping"}
       /\ phase[i] = "wired" => Working = {}
  /\ \A i \in Generations : i = generation /\ task[i] = "queued" => pending

\* Nothing has happened to a connection yet to come.
FutureBlank ==
  \A i \in Generations : i > generation =>
    phase[i] = "none" /\ task[i] = "none" /\ i \notin mayStart

HandoffInv ==
  /\ TypeOK
  /\ OneWorks
  /\ TableTrue
  /\ StopperAlone
  /\ StuckIsFinal
  /\ TurnIsFree
  /\ FutureBlank

-----------------------------------------------------------------------------
(* The invariant of admission.                                             *)

CaptureTypeOK ==
  /\ marker \in Nat
  /\ resets \subseteq Nat
  /\ message \in [Ids ->
       [kind: {"text", "reset", "channel", "routed"},
        at: {"new", "routing", "lane", "refused", "entered"},
        by: 0..Wires]]

\* The marker is the highest reset that took effect.
MarkerIsLast ==
  /\ \A r \in resets : r <= marker
  /\ marker # 0 => marker \in resets

-----------------------------------------------------------------------------
(* Attempts to start.                                                      *)

\* With an empty table nothing runs, and nothing else works unless a task waits
\* for it or the handoff has failed.
LEMMA EmptyTable ==
  ASSUME HandoffInv, Installed = {}
  PROVE  /\ \A a \in Adapters : services[a] = NoService
         /\ \A i \in Generations : phase[i] # "running"
<1>1. \A a \in Adapters : services[a] = NoService
  BY DEF Installed
<1>2. ASSUME NEW i \in Generations, phase[i] = "running"
      PROVE  FALSE
  <2>1. services[AdapterOf[i]] = i
    BY <1>2 DEF HandoffInv, TableTrue
  <2>2. AdapterOf[i] \in Adapters /\ i # NoService
    BY WiresAssumption, AdapterAssumption DEF Generations, NoService
  <2> QED BY <1>1, <2>1, <2>2
<1> QED BY <1>1, <1>2

\* When nobody works, whatever becomes of an attempt leaves one service at work
\* or none, and none if the service still waits for its client.
LEMMA AttemptIsSole ==
  ASSUME HandoffInv,
         NEW i \in Generations,
         NEW phases \in [Generations -> Phases],
         NEW guards \in [Adapters -> 0..Wires],
         \A j \in Generations :
           phases[j] \notin {"running", "stopping", "stuck"},
         \A a \in Adapters : services[a] = NoService,
         \/ Starts(i, phases, guards)
         \/ StartRaises(i, phases, guards)
         \/ Waits(i, phases, guards)
  PROVE  /\ phase' \in [Generations -> Phases]
         /\ guard' \in [Adapters -> 0..Wires]
         /\ services' \in [Adapters -> 0..Wires]
         /\ OneWorks'
         /\ TableTrue'
         /\ phase'[i] \in {"running", "failed", "wired"}
         /\ phase'[i] = "wired" => Working' = {}
         /\ \A j \in Generations : j # i => phase'[j] = phases[j]
<1>1. CASE Starts(i, phases, guards)
  <2>1. /\ AdapterOf[i] \in Adapters
        /\ i \in 0..Wires
        /\ i # NoService
    BY WiresAssumption, AdapterAssumption DEF Generations, NoService
  <2>2. /\ phase' = [phases EXCEPT ![i] = "running"]
        /\ guard' = [guards EXCEPT ![AdapterOf[i]] = i]
        /\ services' = [services EXCEPT ![AdapterOf[i]] = i]
    BY <1>1 DEF Starts
  <2>3. /\ phase' \in [Generations -> Phases]
        /\ guard' \in [Adapters -> 0..Wires]
        /\ services' \in [Adapters -> 0..Wires]
    BY <2>1, <2>2 DEF HandoffInv, TypeOK, Phases
  <2>4. \A j \in Generations : j \in Working' => j = i
    BY <2>2 DEF Working
  <2>5. TableTrue'
    BY <2>1, <2>2 DEF TableTrue, HandoffInv, TypeOK
  <2> QED BY <2>2, <2>3, <2>4, <2>5 DEF OneWorks, Working
<1>2. CASE StartRaises(i, phases, guards) \/ Waits(i, phases, guards)
  <2>1. \E p \in {"failed", "wired"} :
          /\ phase' = [phases EXCEPT ![i] = p]
          /\ guard' = guards
          /\ services' = services
    BY <1>2 DEF StartRaises, Waits
  <2>2. \A j \in Generations :
          phase'[j] \notin {"running", "stopping", "stuck"}
    BY <2>1
  <2>3. OneWorks' /\ TableTrue' /\ Working' = {}
    BY <2>1, <2>2 DEF OneWorks, TableTrue, Working
  <2> QED BY <2>1, <2>3 DEF HandoffInv, TypeOK, Phases
<1> QED BY <1>1, <1>2

-----------------------------------------------------------------------------
(* Each step of the wiring preserves the invariant.                        *)

\* While no task is stopping, nothing runs and nothing is stuck, nobody works.
LEMMA NobodyWorks ==
  ASSUME HandoffInv, Installed = {}, ~retirementFailed,
         \A i \in Generations : task[i] # "stopping"
  PROVE  \A j \in Generations :
           phase[j] \notin {"running", "stopping", "stuck"}
BY EmptyTable DEF HandoffInv, StopperAlone, StuckIsFinal

\* A connection is numbered after all that came before.
LEMMA NextIsNew ==
  ASSUME HandoffInv, generation < Wires
  PROVE  /\ generation + 1 \in Generations
         /\ generation + 1 \in 0..Wires
         /\ phase[generation + 1] = "none"
         /\ task[generation + 1] = "none"
         /\ generation + 1 \notin mayStart
         /\ \A i \in Generations : i > generation + 1 => i > generation
BY WiresAssumption DEF HandoffInv, TypeOK, FutureBlank, Generations

LEMMA WireKeepsHandoff ==
  ASSUME HandoffInv, Wire
  PROVE  HandoffInv'
<1> DEFINE i == generation + 1
<1>1. /\ generation < Wires
      /\ ~retirementFailed
      /\ generation' = i
      /\ retirementFailed' = retirementFailed
  BY DEF Wire
<1>2. /\ i \in Generations
      /\ i \in 0..Wires
      /\ phase[i] = "none"
      /\ task[i] = "none"
      /\ i \notin mayStart
      /\ \A j \in Generations : j > i => j > generation
  BY <1>1, NextIsNew
<1>3. PICK isReady \in BOOLEAN :
        /\ ready' = [ready EXCEPT ![i] = isReady]
        /\ WireFirst(i, isReady) \/ WireNext(i)
  BY DEF Wire
<1> HIDE DEF i
<1>4. CASE WireFirst(i, isReady)
  <2>1. /\ Installed = {}
        /\ ~pending
        /\ mayStart' = mayStart \cup {i}
        /\ pending' = pending
        /\ task' = task
    BY <1>4 DEF WireFirst, Immediate
  <2>2. \A j \in Generations : task[j] # "stopping"
    BY <2>1 DEF HandoffInv, StopperAlone
  <2>3. /\ \A j \in Generations :
             phase[j] \notin {"running", "stopping", "stuck"}
        /\ \A a \in Adapters : services[a] = NoService
    BY <1>1, <2>1, <2>2, NobodyWorks, EmptyTable
  <2>4. \/ Starts(i, phase, guard)
        \/ StartRaises(i, phase, guard)
        \/ Waits(i, phase, guard)
    BY <1>4 DEF WireFirst
  <2>5. phase \in [Generations -> Phases] /\ guard \in [Adapters -> 0..Wires]
    BY DEF HandoffInv, TypeOK
  <2>6. /\ phase' \in [Generations -> Phases]
        /\ guard' \in [Adapters -> 0..Wires]
        /\ services' \in [Adapters -> 0..Wires]
        /\ OneWorks'
        /\ TableTrue'
        /\ phase'[i] \in {"running", "failed", "wired"}
        /\ phase'[i] = "wired" => Working' = {}
        /\ \A j \in Generations : j # i => phase'[j] = phase[j]
    BY <1>2, <2>3, <2>4, <2>5, AttemptIsSole
  <2>7. TypeOK'
    BY <1>1, <1>2, <1>3, <2>1, <2>6 DEF HandoffInv, TypeOK
  <2>8. StopperAlone'
    BY <2>1, <2>2, <2>3, <2>6 DEF HandoffInv, StopperAlone
  <2>9. StuckIsFinal'
    BY <1>1, <2>3, <2>6 DEF StuckIsFinal
  <2>10. TurnIsFree'
    BY <1>1, <1>2, <2>1, <2>6 DEF TurnIsFree
  <2>11. FutureBlank'
    BY <1>1, <1>2, <2>1, <2>6 DEF HandoffInv, TypeOK, FutureBlank, Generations
  <2> QED BY <2>6, <2>7, <2>8, <2>9, <2>10, <2>11 DEF HandoffInv
<1>5. CASE WireNext(i)
  <2>1. /\ phase' = [phase EXCEPT ![i] = "wired"]
        /\ pending' = TRUE
        /\ task' = [task EXCEPT ![i] = "queued"]
        /\ guard' = guard
        /\ services' = services
        /\ mayStart' = mayStart
    BY <1>5 DEF WireNext, Waits
  <2>2. TypeOK'
    BY <1>1, <1>2, <1>3, <2>1 DEF HandoffInv, TypeOK, Phases
  <2>3. OneWorks'
    BY <2>1, <1>2 DEF HandoffInv, TypeOK, OneWorks, Working
  <2>4. TableTrue'
    BY <2>1, <1>2 DEF HandoffInv, TypeOK, TableTrue
  <2>5. StopperAlone'
    BY <1>1, <1>2, <2>1 DEF HandoffInv, TypeOK, StopperAlone
  <2>6. StuckIsFinal'
    BY <1>1, <2>1 DEF HandoffInv, TypeOK, StuckIsFinal
  <2>7. TurnIsFree' /\ FutureBlank'
    BY <1>1, <1>2, <2>1 DEF HandoffInv, TypeOK, TurnIsFree, FutureBlank,
                            Generations
  <2> QED BY <2>2, <2>3, <2>4, <2>5, <2>6, <2>7 DEF HandoffInv
<1> QED BY <1>3, <1>4, <1>5

LEMMA WireFailsKeepsHandoff ==
  ASSUME HandoffInv, WireFails
  PROVE  HandoffInv'
<1> DEFINE i == generation + 1
<1>1. /\ generation < Wires
      /\ generation' = i
      /\ phase' = [phase EXCEPT ![i] = "failed"]
      /\ UNCHANGED <<ready, mayStart, services, pending, retirementFailed,
                     task, guard>>
  BY DEF WireFails
<1>2. /\ i \in Generations
      /\ i \in 0..Wires
      /\ phase[i] = "none"
      /\ task[i] = "none"
      /\ i \notin mayStart
      /\ \A j \in Generations : j > i => j > generation
  BY <1>1, NextIsNew
<1> HIDE DEF i
<1>3. TypeOK'
  BY <1>1, <1>2 DEF HandoffInv, TypeOK, Phases
<1>4. OneWorks' /\ TableTrue'
  BY <1>1, <1>2 DEF HandoffInv, TypeOK, OneWorks, Working, TableTrue
<1>5. StopperAlone'
  BY <1>1, <1>2 DEF HandoffInv, TypeOK, StopperAlone
<1>6. StuckIsFinal' /\ TurnIsFree'
  BY <1>1, <1>2 DEF HandoffInv, TypeOK, StuckIsFinal, TurnIsFree
<1>7. FutureBlank'
  BY <1>1, <1>2 DEF HandoffInv, TypeOK, FutureBlank, Generations
<1> QED BY <1>3, <1>4, <1>5, <1>6, <1>7 DEF HandoffInv

LEMMA OnReadyKeepsHandoff ==
  ASSUME HandoffInv, NEW i \in Generations, OnReady(i)
  PROVE  HandoffInv'
<1>1. /\ phase[i] = "wired"
      /\ ready' = [ready EXCEPT ![i] = TRUE]
      /\ UNCHANGED <<generation, mayStart, pending, retirementFailed, task>>
  BY DEF OnReady
<1>2. phase \in [Generations -> Phases] /\ guard \in [Adapters -> 0..Wires]
  BY DEF HandoffInv, TypeOK
<1>3. CASE i = generation /\ i \in mayStart
  <2>1. \A j \in Generations :
          phase[j] \notin {"running", "stopping", "stuck"}
    BY <1>1, <1>3 DEF HandoffInv, TurnIsFree, Working
  <2>2. \A a \in Adapters : services[a] = NoService
    BY <2>1 DEF HandoffInv, TableTrue
  <2>3. Starts(i, phase, guard) \/ StartRaises(i, phase, guard)
    BY <1>3 DEF OnReady
  <2>4. /\ phase' \in [Generations -> Phases]
        /\ guard' \in [Adapters -> 0..Wires]
        /\ services' \in [Adapters -> 0..Wires]
        /\ OneWorks'
        /\ TableTrue'
        /\ phase'[i] \in {"running", "failed", "wired"}
        /\ phase'[i] = "wired" => Working' = {}
        /\ \A j \in Generations : j # i => phase'[j] = phase[j]
    BY <1>2, <2>1, <2>2, <2>3, AttemptIsSole
  <2>5. /\ ~pending
        /\ \A j \in Generations : task[j] # "stopping"
    BY <1>3 DEF HandoffInv, TurnIsFree, StopperAlone
  <2>6. TypeOK'
    BY <1>1, <2>4 DEF HandoffInv, TypeOK
  <2>7. StopperAlone' /\ StuckIsFinal'
    BY <1>1, <2>1, <2>4, <2>5 DEF StopperAlone, StuckIsFinal
  <2>8. TurnIsFree'
    BY <1>1, <1>3, <2>4 DEF HandoffInv, TurnIsFree
  <2>9. FutureBlank'
    BY <1>1, <1>3, <2>4 DEF HandoffInv, TypeOK, FutureBlank, Generations
  <2> QED BY <2>4, <2>6, <2>7, <2>8, <2>9 DEF HandoffInv
<1>4. CASE ~(i = generation /\ i \in mayStart)
  <2>1. UNCHANGED <<phase, guard, services>>
    BY <1>1, <1>2, <1>4 DEF OnReady, Waits
  <2>2. TypeOK'
    BY <1>1, <2>1 DEF HandoffInv, TypeOK
  <2>3. OneWorks' /\ TableTrue' /\ StopperAlone'
    BY <1>1, <2>1 DEF HandoffInv, OneWorks, Working, TableTrue, StopperAlone
  <2>4. StuckIsFinal' /\ TurnIsFree' /\ FutureBlank'
    BY <1>1, <2>1 DEF HandoffInv, Working, StuckIsFinal, TurnIsFree,
                      FutureBlank
  <2> QED BY <2>2, <2>3, <2>4 DEF HandoffInv
<1> QED BY <1>3, <1>4

LEMMA GivesUpKeepsHandoff ==
  ASSUME HandoffInv, NEW i \in Generations, GivesUp(i)
  PROVE  HandoffInv'
<1>1. /\ task[i] = "queued"
      /\ \A j \in Generations : task[j] # "stopping"
      /\ task' = [task EXCEPT ![i] = "done"]
      /\ i # generation => pending' = pending
      /\ pending' \in {pending, FALSE}
      /\ UNCHANGED <<generation, ready, mayStart, services, retirementFailed,
                     phase, guard>>
  BY DEF GivesUp, IsNext, TaskEnds, connections
<1>2. TypeOK'
  BY <1>1 DEF HandoffInv, TypeOK
<1>3. OneWorks' /\ TableTrue'
  BY <1>1 DEF HandoffInv, OneWorks, Working, TableTrue
<1>4. StopperAlone' /\ StuckIsFinal'
  BY <1>1 DEF HandoffInv, TypeOK, StopperAlone, StuckIsFinal
<1>5. TurnIsFree'
  BY <1>1 DEF HandoffInv, TypeOK, TurnIsFree, Working
<1>6. FutureBlank'
  BY <1>1 DEF HandoffInv, TypeOK, FutureBlank
<1> QED BY <1>2, <1>3, <1>4, <1>5, <1>6 DEF HandoffInv

LEMMA BeginsStopKeepsHandoff ==
  ASSUME HandoffInv, NEW i \in Generations, BeginsStop(i)
  PROVE  HandoffInv'
<1>1. /\ task[i] = "queued"
      /\ \A j \in Generations : task[j] # "stopping"
      /\ i = generation
      /\ ~retirementFailed
      /\ services' = [a \in Adapters |-> NoService]
      /\ phase' = [j \in Generations |->
                     IF j \in Installed THEN "stopping" ELSE phase[j]]
      /\ task' = [task EXCEPT ![i] = "stopping"]
      /\ UNCHANGED <<generation, ready, mayStart, pending, retirementFailed,
                     guard>>
  BY DEF BeginsStop, IsNext, connections
<1>2. pending /\ i \notin mayStart
  BY <1>1 DEF HandoffInv, TurnIsFree
<1>3. \A j \in Generations : phase[j] = "running" => j \in Installed
  <2> SUFFICES ASSUME NEW j \in Generations, phase[j] = "running"
               PROVE  j \in Installed
    OBVIOUS
  <2>1. services[AdapterOf[j]] = j
    BY DEF HandoffInv, TableTrue
  <2>2. AdapterOf[j] \in Adapters /\ j # NoService
    BY WiresAssumption, AdapterAssumption DEF Generations, NoService
  <2> QED BY <2>1, <2>2 DEF Installed
<1>4. \A j \in Generations : j \in Installed => phase[j] = "running"
  BY DEF HandoffInv, TableTrue, Installed
<1>5. TypeOK'
  <2>1. NoService \in 0..Wires
    BY WiresAssumption DEF NoService
  <2> QED BY <1>1, <2>1 DEF HandoffInv, TypeOK, Phases
<1>6. OneWorks'
  BY <1>1, <1>4 DEF HandoffInv, OneWorks, Working
<1>7. TableTrue'
  BY <1>1, <1>3 DEF TableTrue
<1>8. StopperAlone'
  <2>1. /\ \A j \in Generations : task'[j] = "stopping" <=> j = i
        /\ \A j \in Generations : phase'[j] # "running"
    BY <1>1, <1>3 DEF HandoffInv, TypeOK
  <2> QED BY <1>1, <1>2, <2>1 DEF StopperAlone
<1>9. StuckIsFinal'
  BY <1>1 DEF HandoffInv, StuckIsFinal
<1>10. TurnIsFree'
  BY <1>1, <1>2 DEF TurnIsFree
<1>11. FutureBlank'
  <2>1. \A j \in Generations : j > generation => j # i
    BY <1>1 DEF HandoffInv, TypeOK, Generations
  <2> QED BY <1>1, <1>4, <2>1 DEF HandoffInv, TypeOK, FutureBlank
<1> QED BY <1>5, <1>6, <1>7, <1>8, <1>9, <1>10, <1>11 DEF HandoffInv

LEMMA StopFailsKeepsHandoff ==
  ASSUME HandoffInv, NEW i \in Generations, StopFails(i)
  PROVE  HandoffInv'
<1>1. /\ task[i] = "stopping"
      /\ retirementFailed' = TRUE
      /\ phase' = [j \in Generations |->
                     IF j \in Stopping THEN "stuck" ELSE phase[j]]
      /\ pending' = (pending /\ i # generation)
      /\ task' = [task EXCEPT ![i] = "done"]
      /\ UNCHANGED <<generation, ready, mayStart, services, guard>>
  BY DEF StopFails, TaskEnds, connections
<1>2. /\ pending
      /\ \A j \in Generations : task[j] = "stopping" => j = i
      /\ \A j \in Generations : phase[j] # "running"
  BY <1>1 DEF HandoffInv, StopperAlone
<1>3. \A j \in Generations : task'[j] # "stopping"
  BY <1>1, <1>2 DEF HandoffInv, TypeOK
<1>4. \A j \in Generations : phase'[j] \notin {"stopping", "running"}
  BY <1>1, <1>2 DEF Stopping
<1>5. TypeOK'
  BY <1>1 DEF HandoffInv, TypeOK, Phases
<1>6. OneWorks'
  BY <1>1 DEF HandoffInv, OneWorks, Working, Stopping
<1>7. TableTrue'
  BY <1>1, <1>2, <1>4 DEF HandoffInv, TableTrue
<1>8. StopperAlone' /\ StuckIsFinal'
  BY <1>1, <1>3, <1>4 DEF StopperAlone, StuckIsFinal
<1>9. TurnIsFree'
  BY <1>1, <1>2 DEF HandoffInv, TypeOK, TurnIsFree
<1>10. FutureBlank'
  BY <1>1 DEF HandoffInv, TypeOK, FutureBlank, Stopping
<1> QED BY <1>5, <1>6, <1>7, <1>8, <1>9, <1>10 DEF HandoffInv

LEMMA HandsOverKeepsHandoff ==
  ASSUME HandoffInv, NEW i \in Generations, HandsOver(i)
  PROVE  HandoffInv'
<1> DEFINE phases == [j \in Generations |->
                        IF j \in Stopping THEN "stopped" ELSE phase[j]]
           guards == [a \in Adapters |->
                        IF guard[a] \in Stopping THEN NoService ELSE guard[a]]
<1>1. /\ task[i] \in {"queued", "stopping"}
      /\ task' = [task EXCEPT ![i] = "done"]
      /\ UNCHANGED <<generation, ready>>
  BY DEF HandsOver, IsNext, TaskEnds, connections
<1>2. /\ \A j \in Generations : task[j] = "stopping" => j = i
      /\ ~retirementFailed
      /\ \A j \in Generations : phase[j] # "running"
  <2>1. CASE task[i] = "stopping"
    BY <2>1 DEF HandoffInv, StopperAlone
  <2>2. CASE IsNext(i) /\ ~retirementFailed /\ Installed = {}
    BY <2>2, EmptyTable DEF IsNext
  <2> QED BY <2>1, <2>2 DEF HandsOver
<1>3. \A j \in Generations :
        phases[j] \notin {"running", "stopping", "stuck"}
  BY <1>2 DEF HandoffInv, StuckIsFinal, Stopping
<1>4. \A a \in Adapters : services[a] = NoService
  BY <1>2 DEF HandoffInv, TableTrue
<1>5. /\ phases \in [Generations -> Phases]
      /\ guards \in [Adapters -> 0..Wires]
  BY WiresAssumption DEF HandoffInv, TypeOK, Phases, NoService
<1>6. /\ \A j \in Generations : task'[j] # "stopping"
      /\ \A j \in Generations : task'[j] = "queued" => task[j] = "queued"
      /\ task'[i] = "done"
      /\ task' \in [Generations -> {"none", "queued", "stopping", "done"}]
  BY <1>1, <1>2 DEF HandoffInv, TypeOK
<1>7. \A j \in Generations : j > generation =>
        /\ j # i
        /\ phases[j] = "none"
        /\ task'[j] = "none"
        /\ j \notin mayStart
  BY <1>1 DEF HandoffInv, TypeOK, FutureBlank, Stopping
<1>8. \/ /\ i # generation
         /\ phase' = phases
         /\ guard' = guards
         /\ UNCHANGED <<mayStart, services, pending, retirementFailed>>
      \/ /\ i = generation
         /\ mayStart' = mayStart \cup {i}
         /\ pending' = FALSE
         /\ Activates(i, phases, guards)
  BY DEF HandsOver
<1> HIDE DEF phases, guards
<1>9. CASE /\ i # generation
           /\ phase' = phases
           /\ guard' = guards
           /\ UNCHANGED <<mayStart, services, pending, retirementFailed>>
  <2>1. TypeOK'
    BY <1>1, <1>5, <1>6, <1>9 DEF HandoffInv, TypeOK
  <2>2. OneWorks' /\ TableTrue' /\ StopperAlone'
    BY <1>3, <1>4, <1>6, <1>9 DEF OneWorks, Working, TableTrue, StopperAlone
  <2>3. StuckIsFinal' /\ Working' = {}
    BY <1>3, <1>9 DEF StuckIsFinal, Working
  <2>4. TurnIsFree'
    BY <1>1, <1>6, <1>9, <2>3 DEF HandoffInv, TurnIsFree
  <2>5. FutureBlank'
    BY <1>1, <1>7, <1>9 DEF FutureBlank
  <2> QED BY <2>1, <2>2, <2>3, <2>4, <2>5 DEF HandoffInv
<1>10. CASE /\ i = generation
            /\ mayStart' = mayStart \cup {i}
            /\ pending' = FALSE
            /\ Activates(i, phases, guards)
  <2>1. /\ \/ Starts(i, phases, guards)
           \/ StartRaises(i, phases, guards)
           \/ Waits(i, phases, guards)
        /\ retirementFailed' \in BOOLEAN
    BY <1>10 DEF Activates, HandoffInv, TypeOK
  <2>2. /\ phase' \in [Generations -> Phases]
        /\ guard' \in [Adapters -> 0..Wires]
        /\ services' \in [Adapters -> 0..Wires]
        /\ OneWorks'
        /\ TableTrue'
        /\ phase'[i] \in {"running", "failed", "wired"}
        /\ phase'[i] = "wired" => Working' = {}
        /\ \A j \in Generations : j # i => phase'[j] = phases[j]
    BY <1>3, <1>4, <1>5, <2>1, AttemptIsSole
  <2>3. TypeOK'
    BY <1>1, <1>6, <1>10, <2>1, <2>2 DEF HandoffInv, TypeOK
  <2>4. \A j \in Generations : phase'[j] \notin {"stopping", "stuck"}
    BY <1>3, <2>2
  <2>5. StopperAlone' /\ StuckIsFinal'
    BY <1>6, <2>4 DEF StopperAlone, StuckIsFinal
  <2>6. TurnIsFree'
    BY <1>1, <1>6, <1>10, <2>2 DEF TurnIsFree
  <2>7. FutureBlank'
    BY <1>1, <1>7, <1>10, <2>2 DEF FutureBlank
  <2> QED BY <2>2, <2>3, <2>5, <2>6, <2>7 DEF HandoffInv
<1> QED BY <1>8, <1>9, <1>10

-----------------------------------------------------------------------------
(* Every behaviour.                                                        *)

LEMMA InitHandoff ==
  ASSUME AdmissionInit
  PROVE  HandoffInv
<1>1. TypeOK
  <2>1. 0 \in 0..Wires
    BY WiresAssumption
  <2> QED BY <2>1 DEF AdmissionInit, Init, TypeOK, Phases, NoService
<1>2. OneWorks /\ TableTrue /\ StopperAlone /\ StuckIsFinal
  BY DEF AdmissionInit, Init, OneWorks, TableTrue, StopperAlone, StuckIsFinal,
         Working
<1>3. TurnIsFree /\ FutureBlank
  BY DEF AdmissionInit, Init, TurnIsFree, FutureBlank
<1> QED BY <1>1, <1>2, <1>3 DEF HandoffInv

\* What messages and the capture do leaves the wiring alone.
LEMMA StillKeepsHandoff ==
  ASSUME HandoffInv, UNCHANGED vars
  PROVE  HandoffInv'
BY DEF vars, connections, wiring, HandoffInv, TypeOK, OneWorks, TableTrue,
       StopperAlone, StuckIsFinal, TurnIsFree, FutureBlank, Working

LEMMA StepKeepsHandoff ==
  ASSUME HandoffInv, [AdmissionNext]_admissionVars
  PROVE  HandoffInv'
<1>1. CASE ServiceStep
  BY <1>1, WireKeepsHandoff, WireFailsKeepsHandoff, OnReadyKeepsHandoff
     DEF ServiceStep
<1>2. ASSUME NEW i \in Generations, TaskStep(i)
      PROVE  HandoffInv'
  BY <1>2, GivesUpKeepsHandoff, BeginsStopKeepsHandoff, HandsOverKeepsHandoff,
     StopFailsKeepsHandoff DEF TaskStep
<1>3. ASSUME NEW m \in Ids, Handled(m) \/ Routed(m) \/ Hooked(m)
      PROVE  HandoffInv'
  BY <1>3, StillKeepsHandoff DEF Handled, Routed, Hooked
<1>4. CASE Attempted \/ GivenUp \/ TurnHooked \/ TurnOver
  BY <1>4, StillKeepsHandoff DEF Attempted, GivenUp, TurnHooked, TurnOver
<1>5. ASSUME NEW i \in Generations,
             Dispatched(i) \/ RunEnds(i) \/ RunCancelled(i)
      PROVE  HandoffInv'
  BY <1>5, StillKeepsHandoff DEF Dispatched, RunEnds, RunCancelled
<1>6. CASE UNCHANGED admissionVars
  BY <1>6, StillKeepsHandoff DEF admissionVars
<1> QED BY <1>1, <1>2, <1>3, <1>4, <1>5, <1>6 DEF AdmissionNext

\* The wiring keeps its invariant, whatever is written meanwhile: a stop that
\* waits is alone, and what the table says is true.
THEOREM HandoffAlways == AdmissionSpec => []HandoffInv
<1>1. AdmissionInit => HandoffInv
  BY InitHandoff
<1>2. HandoffInv /\ [AdmissionNext]_admissionVars => HandoffInv'
  BY StepKeepsHandoff
<1> QED BY <1>1, <1>2, PTL DEF AdmissionSpec

\* For any number of connections, with whatever adapters: two services never
\* work at once, and the hook asks only a service that runs and whose guard is
\* in the handler of its adapter.
THEOREM SoleServiceAlways == AdmissionSpec => []SoleService
<1>1. HandoffInv => SoleService
  BY DEF HandoffInv, OneWorks, TableTrue, SoleService
<1> QED BY <1>1, HandoffAlways, PTL

-----------------------------------------------------------------------------
(* Messages.                                                               *)

AdmissionInv == CaptureTypeOK /\ MarkerIsLast

\* Where a message goes it keeps the form of a message; only its own place
\* changes, and its kind only with a new place short of the agent.
LEMMA GoesKeepsType ==
  ASSUME CaptureTypeOK,
         NEW m \in Ids,
         NEW kind \in {"text", "reset", "channel", "routed"},
         NEW place \in {"lane", "refused", "entered"},
         Goes(m, kind, place)
  PROVE  /\ message' \in [Ids ->
              [kind: {"text", "reset", "channel", "routed"},
               at: {"new", "routing", "lane", "refused", "entered"},
               by: 0..Wires]]
         /\ message'[m].at = place
         /\ \A n \in Ids : n # m => message'[n] = message[n]
<1> DEFINE Moved == [kind |-> IF place = "lane" THEN kind ELSE "text",
                    at |-> place, by |-> NoService]
<1>1. message' = [message EXCEPT ![m] = Moved]
  BY DEF Goes
<1>2. /\ Moved \in [kind: {"text", "reset", "channel", "routed"},
                   at: {"new", "routing", "lane", "refused", "entered"},
                   by: 0..Wires]
      /\ Moved.at = place
  BY WiresAssumption DEF NoService
<1> HIDE DEF Moved
<1> QED BY <1>1, <1>2 DEF CaptureTypeOK

LEMMA ResetKeepsMarker ==
  ASSUME AdmissionInv, NEW m \in Ids, ResetThread(m)
  PROVE  /\ marker' \in Nat
         /\ resets' \subseteq Nat
         /\ MarkerIsLast'
<1>1. m \in Nat /\ m > 0
  BY MessagesAssumption DEF Ids
<1> QED BY <1>1 DEF AdmissionInv, CaptureTypeOK, MarkerIsLast, ResetThread

\* What a service answers keeps the invariant.
LEMMA AskedKeepsAdmission ==
  ASSUME AdmissionInv,
         NEW m \in Ids,
         NEW kind \in {"text", "reset", "channel", "routed"},
         NEW i \in 0..Wires,
         NEW place \in {"lane", "entered"},
         Asked(m, kind, i, place)
  PROVE  AdmissionInv'
<1>1. CASE /\ kind = "text"
           /\ Goes(m, kind, IF Allowed(m, i) THEN place ELSE "refused")
           /\ UNCHANGED <<req, marker, resets>>
  BY <1>1, GoesKeepsType DEF AdmissionInv, CaptureTypeOK, MarkerIsLast
<1>2. CASE ResetThread(m) /\ Goes(m, kind, place)
  BY <1>2, GoesKeepsType, ResetKeepsMarker DEF AdmissionInv, CaptureTypeOK
<1>3. CASE Goes(m, kind, "refused") /\ UNCHANGED <<req, marker, resets>>
  BY <1>3, GoesKeepsType DEF AdmissionInv, CaptureTypeOK, MarkerIsLast
<1> QED BY <1>1, <1>2, <1>3 DEF Asked

\* Only the markers and the messages matter, and where they are left alone the
\* invariant stays.
LEMMA StillKeepsAdmission ==
  ASSUME AdmissionInv, UNCHANGED <<marker, message, resets>>
  PROVE  AdmissionInv'
BY DEF AdmissionInv, CaptureTypeOK, MarkerIsLast

LEMMA HandledKeepsAdmission ==
  ASSUME HandoffInv, AdmissionInv, NEW m \in Ids, Handled(m)
  PROVE  AdmissionInv'
<1>1. PICK a \in Adapters, kind \in {"text", "reset", "channel"} :
        \/ /\ message' = [message EXCEPT ![m].kind = kind, ![m].at = "lane"]
           /\ UNCHANGED <<req, marker, resets>>
        \/ /\ message' = [message EXCEPT ![m].at = "routing",
                                         ![m].by = guard[a]]
           /\ UNCHANGED <<req, marker, resets>>
        \/ Asked(m, kind, guard[a], "lane") \/ Refuse(m)
  BY DEF Handled
<1>2. guard[a] \in 0..Wires
  BY DEF HandoffInv, TypeOK
<1>3. CASE /\ \/ message' = [message EXCEPT ![m].kind = kind, ![m].at = "lane"]
              \/ message' = [message EXCEPT ![m].at = "routing",
                                            ![m].by = guard[a]]
           /\ UNCHANGED <<marker, resets>>
  <2>1. /\ message \in [Ids ->
             [kind: {"text", "reset", "channel", "routed"},
              at: {"new", "routing", "lane", "refused", "entered"},
              by: 0..Wires]]
        /\ kind \in {"text", "reset", "channel", "routed"}
    BY DEF AdmissionInv, CaptureTypeOK
  <2>2. message' \in [Ids ->
          [kind: {"text", "reset", "channel", "routed"},
           at: {"new", "routing", "lane", "refused", "entered"},
           by: 0..Wires]]
    BY <1>2, <1>3, <2>1
  <2> QED BY <1>3, <2>2 DEF AdmissionInv, CaptureTypeOK, MarkerIsLast
<1>4. CASE Asked(m, kind, guard[a], "lane")
  BY <1>2, <1>4, AskedKeepsAdmission
<1>5. CASE Refuse(m)
  BY <1>5, GoesKeepsType DEF Refuse, AdmissionInv, CaptureTypeOK, MarkerIsLast
<1> QED BY <1>1, <1>3, <1>4, <1>5

LEMMA HookedKeepsAdmission ==
  ASSUME HandoffInv, AdmissionInv, NEW m \in Ids, Hooked(m)
  PROVE  AdmissionInv'
<1>1. message[m].kind \in {"text", "reset", "channel", "routed"}
  BY DEF AdmissionInv, CaptureTypeOK
<1>2. PICK a \in Adapters :
        \/ HookedChannel(m)
        \/ Asked(m, message[m].kind, services[a], "entered")
        \/ Refuse(m)
  BY DEF Hooked
<1>3. services[a] \in 0..Wires
  BY DEF HandoffInv, TypeOK
<1>4. CASE HookedChannel(m)
  BY <1>1, <1>4, GoesKeepsType DEF HookedChannel, AdmissionInv, CaptureTypeOK,
                                   MarkerIsLast
<1>5. CASE Asked(m, message[m].kind, services[a], "entered")
  BY <1>1, <1>3, <1>5, AskedKeepsAdmission
<1>6. CASE Refuse(m)
  BY <1>6, GoesKeepsType DEF Refuse, AdmissionInv, CaptureTypeOK, MarkerIsLast
<1> QED BY <1>2, <1>4, <1>5, <1>6

LEMMA InitAdmission ==
  ASSUME AdmissionInit
  PROVE  AdmissionInv
<1>1. New \in [kind: {"text", "reset", "channel", "routed"},
               at: {"new", "routing", "lane", "refused", "entered"},
               by: 0..Wires]
  BY WiresAssumption DEF New, NoService
<1> QED BY <1>1 DEF AdmissionInit, AdmissionInv, CaptureTypeOK, MarkerIsLast

LEMMA StepKeepsAdmission ==
  ASSUME HandoffInv, AdmissionInv, [AdmissionNext]_admissionVars
  PROVE  AdmissionInv'
<1>1. CASE ServiceStep
  BY <1>1, StillKeepsAdmission DEF ServiceStep, AndRecovers, Recovered, capture
<1>2. ASSUME NEW i \in Generations, TaskStep(i)
      PROVE  AdmissionInv'
  BY <1>2, StillKeepsAdmission DEF TaskStep, AndRecovers, Recovered, capture
<1>3. ASSUME NEW m \in Ids, Handled(m)
      PROVE  AdmissionInv'
  BY <1>3, HandledKeepsAdmission
<1>4. ASSUME NEW m \in Ids, Routed(m)
      PROVE  AdmissionInv'
  BY <1>4, GoesKeepsType DEF Routed, capture, AdmissionInv, CaptureTypeOK,
                             MarkerIsLast
<1>5. ASSUME NEW m \in Ids, Hooked(m)
      PROVE  AdmissionInv'
  BY <1>5, HookedKeepsAdmission
<1>6. CASE Attempted \/ GivenUp \/ TurnHooked \/ TurnOver
  BY <1>6, StillKeepsAdmission DEF Attempted, GivenUp, TurnHooked, TurnOver
<1>7. ASSUME NEW i \in Generations,
             Dispatched(i) \/ RunEnds(i) \/ RunCancelled(i)
      PROVE  AdmissionInv'
  BY <1>7, StillKeepsAdmission DEF Dispatched, RunEnds, RunCancelled
<1>8. CASE UNCHANGED admissionVars
  BY <1>8, StillKeepsAdmission DEF admissionVars, capture
<1> QED BY <1>1, <1>2, <1>3, <1>4, <1>5, <1>6, <1>7, <1>8 DEF AdmissionNext

\* The marker is the highest reset that took effect, whatever order resets were
\* handled in and whichever service handled them.
THEOREM MarkerAlwaysLast == AdmissionSpec => []AdmissionInv
<1>1. AdmissionInit => AdmissionInv
  BY InitAdmission
<1>2. HandoffInv /\ AdmissionInv /\ [AdmissionNext]_admissionVars
        => AdmissionInv'
  BY StepKeepsAdmission
<1> QED BY <1>1, <1>2, HandoffAlways, PTL DEF AdmissionSpec

-----------------------------------------------------------------------------
(* What enters a capture's thread.                                         *)

\* What may be let in at a state, by the words of ThreadPolicy.
Timely(m) ==
  \/ req = "turn_finished"
  \/ req = "dispatching" /\ turn.at \in {"admitted", "running"}
  \/ /\ req \in {"ended", "reset"}
     /\ resets # {}
     /\ \A r \in resets : r < m

LEMMA AllowedIsTimely ==
  ASSUME AdmissionInv, NEW m \in Ids, NEW i \in 0..Wires, Allowed(m, i)
  PROVE  Timely(m)
<1>1. m \in Nat
  BY MessagesAssumption DEF Ids
<1>2. CASE req \in {"dispatching", "turn_finished"}
  BY <1>2 DEF Allowed, TurnLives, Timely
<1>3. CASE req \in {"ended", "reset"}
  BY <1>1, <1>3 DEF Allowed, Timely, AdmissionInv, CaptureTypeOK, MarkerIsLast
<1> QED BY <1>2, <1>3 DEF Allowed

LEMMA EnteringIsTimely ==
  ASSUME HandoffInv, AdmissionInv, [AdmissionNext]_admissionVars,
         NEW m \in Ids, Enters(m), message[m].kind = "text"
  PROVE  Timely(m)
<1>1. message' # message
  BY DEF Enters
<1>2. PICK n \in Ids : Handled(n) \/ Routed(n) \/ Hooked(n)
  BY <1>1 DEF AdmissionNext, admissionVars, ServiceStep, TaskStep, AndRecovers,
              Attempted, GivenUp, TurnHooked, TurnOver, Dispatched, RunEnds,
              RunCancelled
<1>3. \A kind \in {"text", "reset", "channel", "routed"},
         place \in {"lane", "refused", "entered"} :
        Goes(n, kind, place) => n = m /\ place = "entered"
  BY GoesKeepsType DEF Enters, AdmissionInv
<1>4. ~Routed(n)
  BY <1>3 DEF Routed
<1>5. ~Handled(n)
  <2> SUFFICES ASSUME Handled(n)
               PROVE  FALSE
    OBVIOUS
  <2>1. PICK a \in Adapters, kind \in {"text", "reset", "channel"} :
          \/ message' = [message EXCEPT ![n].kind = kind, ![n].at = "lane"]
          \/ message' = [message EXCEPT ![n].at = "routing", ![n].by = guard[a]]
          \/ Asked(n, kind, guard[a], "lane") \/ Refuse(n)
    BY DEF Handled
  <2>2. CASE message' = [message EXCEPT ![n].kind = kind, ![n].at = "lane"]
    BY <2>2 DEF Enters, AdmissionInv, CaptureTypeOK
  <2>3. CASE message' = [message EXCEPT ![n].at = "routing",
                                        ![n].by = guard[a]]
    BY <2>3 DEF Enters, AdmissionInv, CaptureTypeOK
  <2>4. CASE Asked(n, kind, guard[a], "lane") \/ Refuse(n)
    BY <1>3, <2>4 DEF Asked, Refuse
  <2> QED BY <2>1, <2>2, <2>3, <2>4
<1>6. PICK a \in Adapters :
        \/ HookedChannel(n)
        \/ Asked(n, message[n].kind, services[a], "entered")
        \/ Refuse(n)
  BY <1>2, <1>4, <1>5 DEF Hooked
<1>7. message[n].kind \in {"text", "reset", "channel", "routed"}
  BY DEF AdmissionInv, CaptureTypeOK
<1>8. ~HookedChannel(n)
  BY <1>3, <1>7 DEF HookedChannel
<1>9. ~Refuse(n)
  BY <1>3 DEF Refuse
<1>10. n = m /\ Allowed(m, services[a])
  BY <1>3, <1>6, <1>7, <1>8, <1>9 DEF Asked
<1> QED BY <1>10, AllowedIsTimely DEF HandoffInv, TypeOK

\* For any number of connections and messages, in any order: what is written in
\* a capture's thread is worked on only after the capture's turn, as a part of
\* it, or after every reset that took effect where there was no turn.
THEOREM ThreadPolicyAlways == AdmissionSpec => ThreadPolicy
<1>1. HandoffInv /\ AdmissionInv /\ [AdmissionNext]_admissionVars =>
        [\A m \in Ids : Enters(m) /\ message[m].kind = "text" =>
           \/ req = "turn_finished"
           \/ req = "dispatching" /\ turn.at \in {"admitted", "running"}
           \/ /\ req \in {"ended", "reset"}
              /\ resets # {}
              /\ \A r \in resets : r < m]_admissionVars
  BY EnteringIsTimely DEF Timely
<1> QED BY <1>1, HandoffAlways, MarkerAlwaysLast, PTL
        DEF AdmissionSpec, ThreadPolicy

=============================================================================
