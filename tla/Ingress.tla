------------------------------ MODULE Ingress ------------------------------
(***************************************************************************)
(* What the ingress watchdog promises of the processes that it has on      *)
(* record, with no ids, files, signals or deadlines in it.  A generation   *)
(* is a hostname with one receiver ("bridge") and one supervisor.  A new   *)
(* one is started only when nothing is left of the old one, and takes its  *)
(* place only after its receiver has answered; a receiver alone is         *)
(* replaced only when it is gone.  A recovery may be given up at any time, *)
(* and what it has started then ends or is left to itself.                 *)
(*                                                                         *)
(* This is recover_full and recover_bridge_only of                         *)
(* pebble_quick_tunnel_watchdog.py, from outside.                          *)
(***************************************************************************)
CONSTANTS
  Tunnels,   \* the hostname of a generation
  None

VARIABLES
  committed, \* the hostname of the committed generation, or None
  serving,   \* the parts of that generation that live
  planned,   \* the hostname a recovery is at work for, or None
  coming,    \* the parts that it has started and that live
  answered   \* whether a receiver has answered for the planned hostname

ingress == <<committed, serving, planned, coming, answered>>

Parts == {"bridge", "supervisor"}

Init ==
  /\ committed = None /\ planned = None
  /\ serving = {} /\ coming = {}
  /\ answered = FALSE

\* The recovery is for a whole new generation.
Renews == planned # committed

\* Processes end, are stopped, or are left to themselves by a failed undoing.
Ends ==
  /\ serving' \subseteq serving
  /\ coming' \subseteq coming
  /\ UNCHANGED <<committed, planned, answered>>

Plan(t) ==
  /\ planned = None /\ coming = {}
  /\ planned' = t
  /\ UNCHANGED <<committed, serving, coming, answered>>

StartPart(part) ==
  /\ planned # None
  /\ part \notin coming \cup serving
  /\ IF Renews THEN serving = {} ELSE part = "bridge"
  /\ coming' = coming \cup {part}
  /\ UNCHANGED <<committed, serving, planned, answered>>

\* For a hostname that is kept, a receiver left behind may answer as well.
Answers ==
  /\ planned # None
  /\ Renews => "bridge" \in coming
  /\ answered' = TRUE
  /\ UNCHANGED <<committed, serving, planned, coming>>

Commit ==
  /\ planned # None /\ answered
  /\ committed' = planned
  /\ serving' = serving \cup coming
  /\ planned' = None /\ coming' = {} /\ answered' = FALSE

GiveUp ==
  /\ planned # None
  /\ planned' = None /\ answered' = FALSE
  /\ serving' \subseteq serving
  /\ coming' \subseteq coming
  /\ UNCHANGED committed

Next ==
  \/ Ends \/ Answers \/ Commit \/ GiveUp
  \/ \E t \in Tunnels : Plan(t)
  \/ \E part \in Parts : StartPart(part)

Spec == Init /\ [][Next]_ingress
=============================================================================
