------------------------------- MODULE Admission -------------------------------
(***************************************************************************)
(* What a person writes while a capture is on its way, and services come   *)
(* and go: admission_guard.py, human_threads.py, pre_dispatch() of         *)
(* plugin.py, and allow_event() and dispatch_thread() of service.py.       *)
(*                                                                         *)
(* A message meets the guard in the adapter's handler, if a service has    *)
(* one there, then the gateway's own lane, and in the lane's task the      *)
(* plugin's hook. Each asks the service it finds, at its own time.         *)
(* There is one capture, whose card has a thread of the same id, and       *)
(* messages are numbered in the order in which Discord named them. How the *)
(* capture gets its states is the matter of RelayStore and RingService.    *)
(***************************************************************************)
EXTENDS Replacement

CONSTANT Messages  \* how many messages are written

ASSUME MessagesAssumption == Messages \in Nat

Ids == 1..Messages

VARIABLES
  req,      \* relay_requests.state; "ended": failed, uncertain or expired
  mapped,   \* thread_request() finds the capture: its creation was attempted
  marker,   \* relay_thread_resets.reset_message_id, 0 for no row
  turn,     \* the native task of the capture, and the service that waits for it
  message,  \* message[m]: where message m is
  resets    \* resets that took effect (history)

capture == <<req, mapped, marker, turn>>
admissionVars == <<vars, capture, message, resets>>

NoTurn == [at |-> "none", by |-> NoService]
New == [kind |-> "text", at |-> "new", by |-> NoService]

AdmissionInit ==
  /\ Init
  /\ req = "pending"
  /\ mapped = FALSE
  /\ marker = 0
  /\ turn = NoTurn
  /\ message = [m \in Ids |-> New]
  /\ resets = {}

Goes(m, kind, place) ==
  message' = [message EXCEPT ![m] =
    [kind |-> IF place = "lane" THEN kind ELSE "text", at |-> place,
     by |-> NoService]]

-----------------------------------------------------------------------------
(* allow_event() for a message in the capture's thread.                    *)

\* The task is known to the service that waits for it, and to no other.
TurnLives(i) == turn.by = i /\ turn.at \in {"admitted", "running"}

\* Wrong on purpose: one reset opens the thread to all that was ever written.
AllowedAnyId(m, i) ==
  /\ mapped
  /\ CASE req = "dispatching" -> TurnLives(i)
       [] req = "turn_finished" -> TRUE
       [] req \in {"ended", "reset"} -> marker # 0
       [] OTHER -> FALSE

\* A card without an attempt is not an ordinary thread either.
Allowed(m, i) ==
  /\ mapped
  /\ CASE req = "dispatching" -> TurnLives(i)
       [] req = "turn_finished" -> TRUE
       [] req \in {"ended", "reset"} -> marker # 0 /\ marker < m
       [] OTHER -> FALSE

\* reset_thread(): an older reset that comes late does not lower the marker.
ResetThread(m) ==
  /\ mapped
  /\ req' = IF req = "approved_waiting" THEN "reset" ELSE req
  /\ marker' = IF m > marker THEN m ELSE marker
  /\ resets' = resets \cup {m}

\* A message of the thread goes on to "place", or is refused. A reset takes
\* effect at once.
Asked(m, kind, i, place) ==
  \/ /\ kind = "text"
     /\ Goes(m, kind, IF Allowed(m, i) THEN place ELSE "refused")
     /\ UNCHANGED <<req, marker, resets>>
  \/ /\ kind = "reset"
     /\ ResetThread(m)
     /\ Goes(m, kind, place)
  \/ /\ kind = "reset"
     /\ ~mapped
     /\ Goes(m, kind, "refused")
     /\ UNCHANGED <<req, marker, resets>>

-----------------------------------------------------------------------------
(* The adapter's handler: the guard of its service, or the gateway's own.  *)

Refuse(m) ==
  /\ Goes(m, "text", "refused")
  /\ UNCHANGED <<req, marker, resets>>

\* Messages are handled in any order and by any adapter. Without a guard they go
\* to the lane unseen; state that cannot be read refuses.
Handled(m) ==
  /\ message[m].at = "new"
  /\ \E a \in Adapters, kind \in {"text", "reset", "channel"} :
       \/ /\ guard[a] = NoService
          /\ message' = [message EXCEPT ![m].kind = kind, ![m].at = "lane"]
          /\ UNCHANGED <<req, marker, resets>>
       \/ /\ guard[a] # NoService
          /\ kind = "channel"
          /\ message' = [message EXCEPT ![m].at = "routing", ![m].by = guard[a]]
          /\ UNCHANGED <<req, marker, resets>>
       \/ /\ guard[a] # NoService
          /\ Asked(m, kind, guard[a], "lane") \/ Refuse(m)
  /\ UNCHANGED <<vars, mapped, turn>>

Closed(i) == \A a \in Adapters : guard[a] # i

\* route_human_event(): Discord is asked for a thread, for up to 10 s, and the
\* guard may be closed by the time it is there. Other messages do not wait.
Routed(m) ==
  /\ message[m].at = "routing"
  /\ \/ ~Closed(message[m].by) /\ Goes(m, "routed", "lane")
     \/ Goes(m, "routed", "refused")
  /\ UNCHANGED <<vars, capture, resets>>

-----------------------------------------------------------------------------
(* The hook, in the task of the lane: it asks the service that is in the   *)
(* table by then.                                                          *)

\* Routed, it is in a thread of its own. If it never met a guard it is taken
\* for one that a guard has still to route, and a command in it resets all.
HookedChannel(m) ==
  /\ message[m].kind \in {"channel", "routed"}
  /\ Goes(m, message[m].kind, "entered")
  /\ \/ UNCHANGED req
     \/ /\ message[m].kind = "channel"
        /\ req \in {"pending", "approved_waiting"}
        /\ req' = "reset"
  /\ UNCHANGED <<marker, resets>>

Hooked(m) ==
  /\ message[m].at = "lane"
  /\ \E a \in Adapters :
       \/ /\ services[a] # NoService
          /\ \/ HookedChannel(m)
             \/ Asked(m, message[m].kind, services[a], "entered")
       \/ Refuse(m)
  /\ UNCHANGED <<vars, mapped, turn>>

-----------------------------------------------------------------------------
(* The capture, as far as admission asks for it.                           *)

SomeoneRuns == \E i \in Generations : phase[i] = "running"

\* claim_thread_creation(): from now on the thread is the capture's.
Attempted ==
  /\ SomeoneRuns
  /\ req = "pending"
  /\ req' = "approved_waiting"
  /\ mapped' = TRUE
  /\ UNCHANGED <<vars, marker, turn, message, resets>>

\* It expires, or its thread fails.
GivenUp ==
  /\ SomeoneRuns
  /\ req \in {"pending", "approved_waiting"}
  /\ req' = "ended"
  /\ UNCHANGED <<vars, mapped, marker, turn, message, resets>>

\* idle(): the lane of the thread is free. (What has entered it by now was a
\* reset, and has ended the capture.)
LaneIdle ==
  \A m \in Ids : message[m].at = "lane" => message[m].kind \notin {"text", "reset"}

\* dispatch_thread(): claimed and admitted, or refused by the gateway.
Dispatched(i) ==
  /\ phase[i] = "running"
  /\ req = "approved_waiting"
  /\ LaneIdle
  /\ req' = "dispatching"
  /\ \E at \in {"admitted", "none"} : turn' = [at |-> at, by |-> i]
  /\ UNCHANGED <<vars, mapped, marker, message, resets>>

\* The hook lets the event pass that the service in the table has admitted.
TurnHooked ==
  /\ turn.at = "admitted"
  /\ \E a \in Adapters : turn' =
       [turn EXCEPT !.at = IF services[a] = turn.by THEN "running" ELSE "over"]
  /\ UNCHANGED <<vars, req, mapped, marker, message, resets>>

TurnOver ==
  /\ turn.at = "running"
  /\ turn' = [turn EXCEPT !.at = "over"]
  /\ UNCHANGED <<vars, req, mapped, marker, message, resets>>

\* The run that waited for the turn settles the request: without a turn, or when
\* it cannot tell, as uncertain.
RunEnds(i) ==
  /\ turn.by = i
  /\ turn.at \in {"none", "over"}
  /\ phase[i] \in {"running", "stopping"}
  /\ req = "dispatching"
  /\ req' \in IF turn.at = "over" THEN {"turn_finished", "ended"} ELSE {"ended"}
  /\ turn' = NoTurn
  /\ UNCHANGED <<vars, mapped, marker, message, resets>>

\* stop() cancels the run, and that the task it waits for.
RunCancelled(i) ==
  /\ phase[i] = "stopping"
  /\ turn.by = i
  /\ turn.at \in {"admitted", "running"}
  /\ turn' = [turn EXCEPT !.at = "over"]
  /\ UNCHANGED <<vars, req, mapped, marker, message, resets>>

-----------------------------------------------------------------------------
(* Services come and go.                                                   *)

\* recover(): no turn of an earlier service is waited for any more. The creation
\* of a thread that was on its way has ended, one that waits goes on.
Recovered ==
  /\ req' \in CASE req = "dispatching" -> {"ended"}
                [] req = "approved_waiting" -> {req, "ended"}
                [] OTHER -> {req}
  /\ turn' = NoTurn
  /\ UNCHANGED <<mapped, marker>>

StartTried ==
  \E i \in Generations : phase'[i] \in {"running", "failed"} \ {phase[i]}

AndRecovers ==
  /\ \/ StartTried /\ Recovered
     \/ (\A i \in Generations : phase'[i] = "running" => phase[i] = "running")
          /\ UNCHANGED capture
  /\ UNCHANGED <<message, resets>>

\* stop() has gathered the runs.
StopGathers == turn.by \in Stopping => turn.at \in {"none", "over"}

TaskStep(i) ==
  \/ GivesUp(i) /\ UNCHANGED <<capture, message, resets>>
  \/ BeginsStop(i) /\ UNCHANGED <<capture, message, resets>>
  \/ StopGathers /\ HandsOver(i) /\ AndRecovers
  \/ StopFails(i) /\ UNCHANGED <<capture, message, resets>>

ServiceStep ==
  \/ Wire /\ AndRecovers
  \/ WireFails /\ UNCHANGED <<capture, message, resets>>
  \/ \E i \in Generations : OnReady(i) /\ AndRecovers

-----------------------------------------------------------------------------
AdmissionNext ==
  \/ ServiceStep
  \/ \E m \in Ids : \/ Handled(m)
                   \/ Routed(m)
                   \/ Hooked(m)
  \/ Attempted
  \/ GivenUp
  \/ TurnHooked
  \/ TurnOver
  \/ \E i \in Generations : \/ TaskStep(i)
                            \/ Dispatched(i)
                            \/ RunEnds(i)
                            \/ RunCancelled(i)

AdmissionSpec == AdmissionInit /\ [][AdmissionNext]_admissionVars

\* The fairness of Replacement.
AdmissionLiveSpec ==
  AdmissionSpec /\ \A i \in Generations : WF_admissionVars(TaskStep(i))

-----------------------------------------------------------------------------
(* Properties.                                                             *)

Enters(m) == message[m].at # "entered" /\ message'[m].at = "entered"

\* What is written in a capture's thread is worked on only after the capture's
\* own turn, or as a part of it while it lasts; and if there was no turn, only
\* after a reset, when it was written after every reset that took effect. This
\* holds whichever services a message met on its way, and in whatever order
\* messages and resets were handled.
ThreadPolicy ==
  [][\A m \in Ids : Enters(m) /\ message[m].kind = "text" =>
       \/ req = "turn_finished"
       \/ req = "dispatching" /\ turn.at \in {"admitted", "running"}
       \/ /\ req \in {"ended", "reset"}
          /\ resets # {}
          /\ \A r \in resets : r < m]_admissionVars

=============================================================================
