----------------------------- MODULE RequestPort -----------------------------
(***************************************************************************)
(* What the plugin counts on whenever it talks to Discord, without queues, *)
(* buckets, timers or tasks: one request or card edit is under way at a    *)
(* time; none begins before the wait is over that the last global denial   *)
(* announced to this process; and only the one that is under way can be    *)
(* told of a new wait.  A process that ends forgets all of it.             *)
(*                                                                         *)
(* ThreadPort keeps this with its lock and its memories.  RingService, for *)
(* which the port is who holds it and one gate, keeps it as well.          *)
(***************************************************************************)
EXTENDS Naturals

CONSTANT Users   \* those who may have a request under way

VARIABLES
  now,    \* the clock
  using,  \* who has a request under way
  wait    \* end of the global wait that this process was told of, 0 for none

Init == now = 0 /\ using = {} /\ wait = 0

Begins(u) ==
  /\ using = {}
  /\ now >= wait
  /\ using' = {u}
  /\ UNCHANGED <<now, wait>>

\* Answered, or torn out of it: nothing global was learned.
Ends ==
  /\ using # {}
  /\ using' = {}
  /\ UNCHANGED <<now, wait>>

Denied ==
  /\ using # {}
  /\ using' = {}
  /\ wait' \in Nat
  /\ wait' > now
  /\ UNCHANGED now

Passes ==
  /\ now' = now + 1
  /\ wait' = IF wait > now' THEN wait ELSE 0
  /\ UNCHANGED using

Restarts ==
  /\ using' = {}
  /\ wait' = 0
  /\ UNCHANGED now

Next ==
  \/ \E u \in Users : Begins(u)
  \/ Ends \/ Denied \/ Passes \/ Restarts

Spec == Init /\ [][Next]_<<now, using, wait>>
=============================================================================
