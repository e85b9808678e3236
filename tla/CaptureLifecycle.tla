-------------------------- MODULE CaptureLifecycle --------------------------
(***************************************************************************)
(* What the plugin promises for one approved capture, with no clock, no    *)
(* Discord and no restart in it: a capture is asked about once; only an    *)
(* approved capture is run; it is run at most once, and only while it is   *)
(* claimed; and what is closed stays closed.                               *)
(*                                                                         *)
(* This is package/README.md: "Approval applies to that capture once", "A  *)
(* restart does not extend approval or retry an uncertain thread creation  *)
(* or model turn".                                                         *)
(***************************************************************************)
EXTENDS Naturals

CONSTANT Captures

VARIABLES
  phase,  \* phase[c]: how far capture c has come
  turns   \* turns[c]: how many model turns have been started for it

Phases == {"new", "asked", "approved", "claimed", "finished", "closed"}
Open   == {"asked", "approved", "claimed"}

Init ==
  /\ phase = [c \in Captures |-> "new"]
  /\ turns = [c \in Captures |-> 0]

Become(c, from, to) ==
  /\ phase[c] = from
  /\ phase' = [phase EXCEPT ![c] = to]

Ask(c)     == Become(c, "new", "asked")        /\ UNCHANGED turns
Approve(c) == Become(c, "asked", "approved")   /\ UNCHANGED turns
Claim(c)   == Become(c, "approved", "claimed") /\ UNCHANGED turns

StartTurn(c) ==
  /\ phase[c] = "claimed"
  /\ turns[c] = 0
  /\ turns' = [turns EXCEPT ![c] = 1]
  /\ UNCHANGED phase

\* Only a turn that was started finishes.
Finish(c) == turns[c] = 1 /\ Become(c, "claimed", "finished") /\ UNCHANGED turns

\* A rejection, an expiry, a reset, a failure or a restart closes any number
\* of captures at once.
Close(S) ==
  /\ \A c \in S : phase[c] \in Open
  /\ phase' = [c \in Captures |-> IF c \in S THEN "closed" ELSE phase[c]]
  /\ UNCHANGED turns

\* A turn that was claimed ends with nobody knowing how far it came: it may
\* have started just before.
Abandon(c) ==
  /\ Become(c, "claimed", "closed")
  /\ turns[c] = 0
  /\ turns' = [turns EXCEPT ![c] = 1]

Next ==
  \/ \E c \in Captures : \/ Ask(c) \/ Approve(c) \/ Claim(c)
                         \/ StartTurn(c) \/ Finish(c) \/ Abandon(c)
  \/ \E S \in SUBSET Captures : Close(S)

Spec == Init /\ [][Next]_<<phase, turns>>
=============================================================================
