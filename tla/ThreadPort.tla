------------------------------ MODULE ThreadPort ------------------------------
(***************************************************************************)
(* The plugin's own way to Discord: pebble_bridge/thread_port.py.          *)
(*                                                                         *)
(* create_once(), readback() and presentation_slot() queue for one lock.   *)
(* A request starts only if the native global gate, the port's memory of   *)
(* the last global denial, the floor that a denial left on the bucket and  *)
(* the native bucket itself allow it, and what it is told is put into all  *)
(* four before the lock is given back.                                     *)
(*                                                                         *)
(* The native client is external: a bucket is what acquire(), update() and *)
(* the native exit make of it, and the gateway sends requests of its own   *)
(* through the same buckets and the same global gate ("outside").          *)
(* A bucket object is named by the request that created it; the message    *)
(* card and the thread below it stay the same ones.                        *)
(***************************************************************************)
EXTENDS Naturals, Sequences

CONSTANTS
  Calls,      \* callers of the port: the publisher, runs, the card editor
  Wanted,     \* what they ask for
  Hashes,     \* bucket names that Discord may put into an answer
  None,       \* no name
  Limit,      \* tokens of a bucket
  Delays,     \* waits that an answer may announce
  Timeout,    \* the budget of a call, its wait for the lock included
  Outside,    \* buckets the gateway sends requests of its own through
  MaxTime     \* bound on the clock

ASSUME WantedAssumption == Wanted \subseteq {"create", "card", "pair", "slot"}
ASSUME LimitAssumption == Limit \in Nat \ {0}
ASSUME DelaysAssumption == Delays \subseteq Nat \ {0}
ASSUME TimeAssumption == Timeout \in Nat \ {0} /\ MaxTime \in Nat
ASSUME OutsideAssumption == Outside \subseteq {"create", "card", "thread"}
ASSUME NoneAssumption == None \notin Hashes

Ops == {"create", "card", "thread"}
Kinds == {"create", "card", "pair", "slot"}  \* "pair": card and thread
Times == 0..MaxTime
Never == MaxTime + 1
Outcomes == {"ok", "cooldown", "failed", "uncertain", "cancelled"}
Results == [outcome: Outcomes, made: BOOLEAN]

VARIABLES
  now,            \* the loop's clock
  queue,          \* calls waiting for the lock, first come first served
  call,           \* call[k]: what caller k is doing
  floor,          \* _server_floors: no request on the bucket before then
  remaining,      \* tokens of the native bucket
  expires,        \* end of its window, 0 for None
  outside,        \* requests the gateway has out on the bucket
  gate,           \* the native _global_over event is set
  nativeWait,     \* the native client waits out a global denial of its own
  globalRetryAt,  \* _global_retry_at
  timers,         \* pending calls of _global_over.set made by the port
  creationFailure,\* the latch: creations stopped until someone looks
  owner,          \* _buckets[hash]: the bucket known by that name
  told,           \* told[op]: end of the last wait a valid denial announced
                  \* for op (history)
  toldAll,        \* the same for every request: [known |-> of a valid denial
                  \* that was accounted for, any |-> of any answer of
                  \* Discord's own, Never when it named no end] (history)
  last            \* how the call that ended in the last step did so, if any
                  \* did (history)

native == <<remaining, expires, outside, gate, nativeWait>>
history == <<told, toldAll>>
port == <<floor, globalRetryAt, timers, creationFailure, owner>>
vars == <<now, queue, call, native, port, history, last>>

\* How a call ends: its outcome, and whether Discord made a thread for it.
As(outcome) == [outcome |-> outcome, made |-> FALSE]

Idle == [kind |-> "slot", op |-> "card", pc |-> "idle", deadline |-> 0,
         how |-> As("ok")]

Init ==
  /\ now = 0
  /\ queue = <<>>
  /\ call = [k \in Calls |-> Idle]
  /\ floor = [o \in Ops |-> 0]
  /\ remaining = [o \in Ops |-> Limit]
  /\ expires = [o \in Ops |-> 0]
  /\ outside = [o \in Ops |-> 0]
  /\ gate = TRUE
  /\ nativeWait = FALSE
  /\ globalRetryAt = 0
  /\ timers = {}
  /\ creationFailure = FALSE
  /\ owner = [h \in Hashes |-> None]
  /\ told = [o \in Ops |-> 0]
  /\ toldAll = [known |-> 0, any |-> 0]
  /\ last = As("ok")

Quiet == last' = As("ok")

Later(a, b) == IF a > b THEN a ELSE b

-----------------------------------------------------------------------------
(* The native bucket.                                                      *)

Outgoing(o) ==
  outside[o] + (IF \E k \in Calls : call[k].pc = "out" /\ call[k].op = o
                THEN 1 ELSE 0)

Expired(o) == expires[o] # 0 /\ now > expires[o]
Exhausted(o) == remaining[o] = 0 /\ ~Expired(o)

\* acquire() resets a bucket whose window is over.
Tokens(o) == IF Expired(o) THEN Limit - Outgoing(o) ELSE remaining[o]

\* Wrong on purpose: a token is taken whether or not there is one.
TakeTokenBlindly(o) ==
  /\ remaining' = [remaining EXCEPT ![o] = Tokens(o) - 1]
  /\ expires' = [expires EXCEPT ![o] = IF Expired(o) THEN 0 ELSE @]

TakeToken(o) ==
  /\ Tokens(o) > 0
  /\ remaining' = [remaining EXCEPT ![o] = Tokens(o) - 1]
  /\ expires' = [expires EXCEPT ![o] = IF Expired(o) THEN 0 ELSE @]

-----------------------------------------------------------------------------
(* Ends of a call.                                                         *)

Ends(k, how) ==
  /\ call' = [call EXCEPT ![k] = Idle]
  /\ last' = IF call[k].kind = "slot" THEN As("ok") ELSE how

\* An error after the request went out leaves only a creation in doubt.
Doubt(k) == IF call[k].op = "create" THEN "uncertain" ELSE "failed"

LockFree ==
  \A k \in Calls : call[k].pc \in {"idle", "queued"}

-----------------------------------------------------------------------------
(* Asking for the lock, and getting it.                                    *)

\* The bound on the clock lets every deadline pass.
Begin(k) ==
  /\ call[k].pc = "idle"
  /\ \E kind \in Wanted :
       /\ kind = "create" => ~creationFailure
       /\ kind # "slot" => now + Timeout <= MaxTime
       /\ call' = [call EXCEPT ![k] =
            [Idle EXCEPT !.kind = kind, !.pc = "queued",
                         !.op = IF kind = "create" THEN "create" ELSE "card",
                         !.deadline = IF kind = "slot" THEN 0
                                      ELSE now + Timeout]]
  /\ queue' = Append(queue, k)
  /\ UNCHANGED <<now, native, port, history>>
  /\ Quiet

\* presentation_ready(): the card is read again, so its bucket counts too.
PresentationReady ==
  /\ gate
  /\ now >= globalRetryAt
  /\ now >= floor["card"]
  /\ ~Exhausted("card")

\* The holder of a slot that is not available goes away at once.
Starts(k) ==
  /\ queue # <<>>
  /\ Head(queue) = k
  /\ LockFree
  /\ queue' = Tail(queue)
  /\ \/ /\ call[k].kind = "slot"
        /\ PresentationReady
        /\ call' = [call EXCEPT ![k].pc = "slot"]
        /\ Quiet
     \/ /\ call[k].kind = "slot"
        /\ ~PresentationReady
        /\ Ends(k, As("ok"))
     \/ /\ call[k].kind = "create"
        /\ creationFailure
        /\ Ends(k, As("failed"))
     \/ /\ call[k].kind # "slot"
        /\ call[k].kind = "create" => ~creationFailure
        /\ call' = [call EXCEPT ![k].pc = "next"]
        /\ Quiet
  /\ UNCHANGED <<now, native, port, history>>

SlotEnds(k) ==
  /\ call[k].pc = "slot"
  /\ call' = [call EXCEPT ![k] = Idle]
  /\ UNCHANGED <<now, queue, native, port, history>>
  /\ Quiet

-----------------------------------------------------------------------------
(* _request_once(): the checks before the request.                         *)

\* Wrong on purpose: whoever opens the gate ends the wait.
GlobalWaitByGate == ~gate

GlobalWait == now < globalRetryAt \/ ~gate

KnownWait(o) == GlobalWait \/ now < floor[o]

\* Told to wait by the port's own memory, or by the native bucket; a wait that
\* has no end, or ends now, is a failure of the call and not a cooldown.
Refused(k) ==
  LET o == call[k].op IN
  /\ call[k].pc = "next"
  /\ \/ KnownWait(o) /\ Ends(k, As("cooldown"))
     \/ /\ ~KnownWait(o)
        /\ Exhausted(o)
        /\ Ends(k, As(IF expires[o] > now THEN "cooldown" ELSE "failed"))
     \/ /\ ~KnownWait(o)  \* discord.RateLimited: too long for the client
        /\ expires[o] > now
        /\ Ends(k, As("cooldown"))
  /\ UNCHANGED <<now, queue, native, port, history>>

Goes(k, pc) == call' = [call EXCEPT ![k].pc = pc]

\* The token is taken and the request starts without an await in between.
Sends(k) ==
  LET o == call[k].op IN
  /\ call[k].pc = "next"
  /\ ~KnownWait(o)
  /\ ~Exhausted(o)
  /\ TakeToken(o)
  /\ Goes(k, "out")
  /\ UNCHANGED <<now, queue, outside, gate, nativeWait, port, history>>
  /\ Quiet

\* Requests of the gateway hold every token of a window that is over.
AwaitsToken(k) ==
  LET o == call[k].op IN
  /\ call[k].pc = "next"
  /\ ~KnownWait(o)
  /\ ~Exhausted(o)
  /\ Tokens(o) = 0
  /\ remaining' = [remaining EXCEPT ![o] = 0]
  /\ expires' = [expires EXCEPT ![o] = 0]
  /\ Goes(k, "token")
  /\ UNCHANGED <<now, queue, outside, gate, nativeWait, port, history>>
  /\ Quiet

\* Wrong on purpose: a refusal keeps the token it has taken.
GetsTokenKept(k) ==
  LET o == call[k].op IN
  /\ call[k].pc = "token"
  /\ TakeToken(o)
  /\ \/ ~KnownWait(o) /\ Goes(k, "out") /\ Quiet
     \/ KnownWait(o) /\ Ends(k, As("cooldown"))
  /\ UNCHANGED <<now, queue, outside, gate, nativeWait, port, history>>

\* Whatever has been learned meanwhile counts; a refusal gives the token back.
GetsToken(k) ==
  LET o == call[k].op IN
  /\ call[k].pc = "token"
  /\ Tokens(o) > 0
  /\ \/ ~KnownWait(o) /\ TakeToken(o) /\ Goes(k, "out") /\ Quiet
     \/ /\ KnownWait(o)
        /\ Ends(k, As("cooldown"))
        /\ UNCHANGED <<remaining, expires>>
  /\ UNCHANGED <<now, queue, outside, gate, nativeWait, port, history>>

-----------------------------------------------------------------------------
(* The native exit: the token is released, and when none is left the exit  *)
(* sleeps out the window, with the lock held and at most to the deadline.  *)

\* A readback of card and thread goes on with the thread.
Finishes(k, how) ==
  LET goesOn == /\ call[k].kind = "pair"
                /\ call[k].op = "card"
                /\ how.outcome = "ok"
  IN
  \/ /\ goesOn
     /\ call' = [call EXCEPT ![k].op = "thread", ![k].pc = "next"]
     /\ Quiet
  \/ ~goesOn /\ Ends(k, how)

BucketIs(o, rem, exp) ==
  /\ remaining' = [remaining EXCEPT ![o] = rem]
  /\ expires' = [expires EXCEPT ![o] = exp]

\* With no window known the reset comes at once; a second sleeper does not wait.
Exits(k, rem, exp, how) ==
  LET o == call[k].op IN
  \/ /\ rem > outside[o]
     /\ BucketIs(o, rem, exp)
     /\ Finishes(k, how)
  \/ /\ rem <= outside[o]
     /\ exp = 0
     /\ BucketIs(o, Limit - outside[o], 0)
     /\ Finishes(k, how)
  \/ /\ rem <= outside[o]
     /\ exp # 0
     /\ BucketIs(o, rem, exp)
     /\ \/ /\ call' = [call EXCEPT ![k].pc = "exit", ![k].how = how]
           /\ Quiet
        \/ o \in Outside /\ Finishes(k, how)

ExitEnds(k) ==
  LET o == call[k].op IN
  /\ call[k].pc = "exit"
  /\ now >= expires[o]
  /\ BucketIs(o, Limit - Outgoing(o), 0)
  /\ Finishes(k, call[k].how)
  /\ UNCHANGED <<now, queue, outside, gate, nativeWait, port, history>>

\* authorize(), asked with the token in hand, waited for or not: the stored
\* global wait is a refusal, lost authority a failure.
Unauthorized(k) ==
  LET o == call[k].op IN
  /\ call[k].pc \in {"next", "token"}
  /\ o = "create"
  /\ ~KnownWait(o)
  /\ Tokens(o) > 0
  /\ \/ /\ Ends(k, As("cooldown"))
        /\ UNCHANGED <<remaining, expires>>
     \/ Exits(k, Tokens(o) - 1, IF Expired(o) THEN 0 ELSE expires[o],
              As("failed"))
  /\ UNCHANGED <<now, queue, outside, gate, nativeWait, port, history>>

-----------------------------------------------------------------------------
(* Answers.                                                                *)

Names == Hashes \cup {None}

Collides(o, h) == h # None /\ owner[h] \notin {None, o}

Named(o, h) ==
  owner' = IF h = None THEN owner ELSE [owner EXCEPT ![h] = o]

\* Whether Discord made the thread: a success means it did, a refusal that it
\* did not, and any other answer leaves it open.
Makes(k, status) ==
  IF call[k].op # "create" THEN {FALSE}
  ELSE CASE status = "ok" -> {TRUE} [] status = "refused" -> {FALSE}
         [] OTHER -> BOOLEAN

\* Wrong on purpose: a failure of the server is taken for a refusal.
OutcomeByStatus(k, status, h) ==
  IF Collides(call[k].op, h) THEN Doubt(k)
  ELSE IF status = "ok" THEN "ok" ELSE "failed"

\* 2xx, 4xx, or 5xx and unreadable.
Outcome(k, status, h) ==
  IF Collides(call[k].op, h) THEN Doubt(k)
  ELSE CASE status = "ok" -> "ok" [] status = "refused" -> "failed"
         [] OTHER -> Doubt(k)

\* Tokens an answer may leave, with so many other requests out: its own is
\* used, and no other is given out twice.
Windows(others) == {rem \in 0..(Limit - 1) : rem + others <= Limit}

\* Any answer but a valid 429: the window it names is taken over unless the
\* bucket's name is another's.
Answered(k) ==
  LET o == call[k].op IN
  /\ call[k].pc = "out"
  /\ \E status \in {"ok", "refused", "error"}, h \in Names :
     \E made \in Makes(k, status) :
       \/ /\ Exits(k, remaining[o], expires[o],
                   [As(Outcome(k, status, h)) EXCEPT !.made = made])
          /\ IF Collides(o, h) THEN UNCHANGED owner ELSE Named(o, h)
       \/ /\ ~Collides(o, h)
          /\ \E rem \in Windows(outside[o]), d \in Delays :
               /\ now + d <= MaxTime
               /\ Exits(k, rem, now + d,
                     [As(Outcome(k, status, h)) EXCEPT !.made = made])
          /\ Named(o, h)
       \/ /\ Exits(k, remaining[o], expires[o],
                   [As(Doubt(k)) EXCEPT !.made = made])
          /\ UNCHANGED owner  \* headers that cannot be accounted for
  /\ UNCHANGED <<now, queue, outside, gate, nativeWait, floor, globalRetryAt,
                 timers, creationFailure, history>>

\* Wrong on purpose: the timer of an earlier denial is left to run.
DeniedTwoTimers(k, until) ==
  /\ globalRetryAt' = Later(globalRetryAt, until)
  /\ gate' = FALSE
  /\ timers' = timers \cup {globalRetryAt'}

ShutsGate(k, until) ==
  /\ globalRetryAt' = Later(globalRetryAt, until)
  /\ gate' = FALSE
  /\ timers' = {globalRetryAt'}

\* Floors that are over are dropped, that of the bucket is raised.
RaiseFloor(o, until) ==
  floor' = [b \in Ops |->
    IF b = o THEN Later(floor[b], until)
    ELSE IF floor[b] > now THEN floor[b] ELSE 0]

\* A complete 429 of Discord's own: all four memories learn of it.
Denied(k) ==
  LET o == call[k].op IN
  /\ call[k].pc = "out"
  /\ \E d \in Delays, global \in BOOLEAN, h \in Names :
     LET until == Later(expires[o], now + d) IN
       /\ now + d <= MaxTime
       /\ ~Collides(o, h)
       /\ BucketIs(o, 0, until)
       /\ RaiseFloor(o, until)
       /\ IF global THEN ShutsGate(k, until)
          ELSE UNCHANGED <<globalRetryAt, gate, timers>>
       /\ Named(o, h)
       /\ told' = [told EXCEPT ![o] = now + d]
       /\ toldAll' = IF ~global THEN toldAll
            ELSE [known |-> Later(toldAll.known, now + d),
                  any |-> Later(toldAll.any, now + d)]
  /\ Ends(k, As("cooldown"))
  /\ UNCHANGED <<now, queue, outside, nativeWait, creationFailure>>

\* Wrong on purpose: a collision is reported and its denial forgotten.
DenialCollidesUnlatched(k) ==
  LET o == call[k].op IN
  /\ call[k].pc = "out"
  /\ \E d \in Delays, global \in BOOLEAN, h \in Hashes :
       /\ now + d <= MaxTime
       /\ Collides(o, h)
       /\ toldAll' = IF global
            THEN [toldAll EXCEPT !.any = Later(@, now + d)] ELSE toldAll
  /\ Exits(k, remaining[o], expires[o], As(Doubt(k)))
  /\ UNCHANGED <<now, queue, outside, gate, nativeWait, port, told>>

\* The same with the name of another bucket: nothing is learned, except that
\* after a global limit no thread is created any more.
DenialCollides(k) ==
  LET o == call[k].op IN
  /\ call[k].pc = "out"
  /\ \E d \in Delays, global \in BOOLEAN, h \in Hashes :
       /\ now + d <= MaxTime
       /\ Collides(o, h)
       /\ creationFailure' = (creationFailure \/ global)
       /\ toldAll' = IF global
            THEN [toldAll EXCEPT !.any = Later(@, now + d)] ELSE toldAll
  /\ Exits(k, remaining[o], expires[o], As(Doubt(k)))
  /\ UNCHANGED <<now, queue, outside, gate, nativeWait, floor, globalRetryAt,
                 timers, owner, told>>

\* A global 429 whose payload cannot be used.
DeniedBadly(k) ==
  LET o == call[k].op IN
  /\ call[k].pc = "out"
  /\ creationFailure' = TRUE
  /\ toldAll' = [toldAll EXCEPT !.any = Never]
  /\ \E h \in Names :
       /\ IF Collides(o, h) THEN UNCHANGED owner ELSE Named(o, h)
       /\ Exits(k, remaining[o], expires[o], As(Outcome(k, "refused", h)))
  /\ UNCHANGED <<now, queue, outside, gate, nativeWait, floor, globalRetryAt,
                 timers, told>>

-----------------------------------------------------------------------------
(* Timers and cancellation.                                                *)

\* The bucket of a call that is torn out of its request or its exit.
Torn(k) ==
  LET o == call[k].op IN
  IF /\ call[k].pc = "out"
     /\ remaining[o] <= outside[o]
     /\ expires[o] = 0
  THEN BucketIs(o, Limit - outside[o], 0)
  ELSE UNCHANGED <<remaining, expires>>

\* A request that is out may still have its effect.
TornMakes(k) ==
  IF call[k].pc = "out" /\ call[k].op = "create" THEN BOOLEAN
  ELSE {call[k].how.made}

LeavesQueue(k) ==
  \/ call[k].pc # "queued" /\ queue' = queue
  \/ \E i \in 1..Len(queue) :
       /\ queue[i] = k
       /\ queue' = SubSeq(queue, 1, i - 1) \o SubSeq(queue, i + 1, Len(queue))

Interrupted(k, outcome) ==
  /\ call[k].pc \in {"queued", "token", "out", "exit", "slot"}
  /\ LeavesQueue(k)
  /\ \E made \in TornMakes(k) : Ends(k, [As(outcome) EXCEPT !.made = made])
  /\ Torn(k)
  /\ UNCHANGED <<now, outside, gate, nativeWait, port, history>>

\* Wrong on purpose: the deadline covers the wait for the lock and no more.
TimesOutWaiting(k) ==
  /\ call[k].kind # "slot"
  /\ call[k].pc = "queued"
  /\ now >= call[k].deadline
  /\ Interrupted(k, Doubt(k))

\* A creation that has not been sent yet is in doubt as well.
TimesOut(k) ==
  /\ call[k].kind # "slot"
  /\ now >= call[k].deadline
  /\ Interrupted(k, Doubt(k))

\* The service stops.
Cancelled(k) == Interrupted(k, "cancelled")

TimerFires ==
  /\ \E t \in timers :
       /\ now >= t
       /\ timers' = timers \ {t}
  /\ gate' = TRUE
  /\ UNCHANGED <<now, queue, call, remaining, expires, outside, nativeWait,
                 floor, globalRetryAt, creationFailure, owner, history>>
  /\ Quiet

\* A wait that has passed is kept as 0.
Tick ==
  LET left(t) == IF t > now + 1 THEN t ELSE 0 IN
  /\ now < MaxTime
  /\ now' = now + 1
  /\ floor' = [o \in Ops |-> left(floor[o])]
  /\ globalRetryAt' = left(globalRetryAt)
  /\ told' = [o \in Ops |-> left(told[o])]
  /\ toldAll' = [known |-> left(toldAll.known), any |-> left(toldAll.any)]
  /\ UNCHANGED <<queue, call, native, timers, creationFailure, owner>>
  /\ Quiet

-----------------------------------------------------------------------------
(* Requests of the gateway itself, through the same native client.         *)

OutsideSends(o) ==
  /\ o \in Outside
  /\ gate
  /\ TakeToken(o)
  /\ outside' = [outside EXCEPT ![o] = @ + 1]
  /\ UNCHANGED <<now, queue, call, gate, nativeWait, port, history>>
  /\ Quiet

\* Its answer may name a window, or not; the last token out resets the bucket.
OutsideEnds(o) ==
  LET mine == Outgoing(o) - 1 IN
  /\ outside[o] > 0
  /\ outside' = [outside EXCEPT ![o] = @ - 1]
  /\ \/ \E rem \in Windows(mine), d \in Delays :
          now + d <= MaxTime /\ BucketIs(o, rem, now + d)
     \/ /\ remaining[o] <= mine
        /\ expires[o] = 0
        /\ BucketIs(o, Limit - mine, 0)
     \/ /\ remaining[o] > mine \/ expires[o] # 0
        /\ UNCHANGED <<remaining, expires>>
  /\ UNCHANGED <<now, queue, call, gate, nativeWait, port, history>>
  /\ Quiet

\* The native client slept out a window.
OutsideRefreshes(o) ==
  /\ o \in Outside
  /\ expires[o] # 0
  /\ now >= expires[o]
  /\ BucketIs(o, Limit - Outgoing(o), 0)
  /\ UNCHANGED <<now, queue, call, outside, gate, nativeWait, port, history>>
  /\ Quiet

OutsideDenied(o) ==
  /\ outside[o] > 0
  /\ outside' = [outside EXCEPT ![o] = @ - 1]
  /\ BucketIs(o, Limit - (Outgoing(o) - 1), 0)
  /\ gate' = FALSE
  /\ nativeWait' = TRUE
  /\ UNCHANGED <<now, queue, call, port, history>>
  /\ Quiet

\* The native client opens the gate it has shut, whoever else has shut it.
OutsideOpens ==
  /\ nativeWait
  /\ nativeWait' = FALSE
  /\ gate' = TRUE
  /\ UNCHANGED <<now, queue, call, remaining, expires, outside, port, history>>
  /\ Quiet

-----------------------------------------------------------------------------
CallNext(k) ==
  \/ Begin(k)
  \/ Starts(k)
  \/ SlotEnds(k)
  \/ Refused(k)
  \/ Sends(k)
  \/ AwaitsToken(k)
  \/ GetsToken(k)
  \/ Unauthorized(k)
  \/ ExitEnds(k)
  \/ Answered(k)
  \/ Denied(k)
  \/ DenialCollides(k)
  \/ DeniedBadly(k)
  \/ TimesOut(k)
  \/ Cancelled(k)

OutsideNext ==
  \/ \E o \in Ops : \/ OutsideSends(o)
                   \/ OutsideEnds(o)
                   \/ OutsideRefreshes(o)
                   \/ OutsideDenied(o)
  \/ OutsideOpens

Next ==
  \/ \E k \in Calls : CallNext(k)
  \/ OutsideNext
  \/ TimerFires
  \/ Tick

Spec == Init /\ [][Next]_vars

\* Lock hand-over is prompt, a slot is used for a bounded time (asyncio.timeout
\* in its user), checks need no answer of anyone, timers fire, time passes; an
\* answer may never come.
Fairness ==
  /\ \A k \in Calls :
       /\ WF_vars(Starts(k))
       /\ WF_vars(SlotEnds(k))
       /\ WF_vars(call[k].pc = "next"
                    /\ (Refused(k) \/ Sends(k) \/ AwaitsToken(k)
                          \/ Unauthorized(k)))
       /\ WF_vars(TimesOut(k))
  /\ WF_vars(TimerFires)
  /\ WF_vars(OutsideOpens)
  /\ WF_vars(Tick)

LiveSpec == Spec /\ Fairness

-----------------------------------------------------------------------------
(* Properties.                                                             *)

TypeOK ==
  /\ now \in Times
  /\ queue \in Seq(Calls)
  /\ call \in [Calls -> [kind: Kinds, op: Ops, deadline: Times, how: Results,
                         pc: {"idle", "queued", "next", "token", "out", "exit",
                              "slot"}]]
  /\ floor \in [Ops -> Times]
  /\ remaining \in [Ops -> 0..Limit]
  /\ expires \in [Ops -> Times]
  /\ outside \in [Ops -> 0..Limit]
  /\ gate \in BOOLEAN
  /\ nativeWait \in BOOLEAN
  /\ globalRetryAt \in Times
  /\ timers \in SUBSET Times
  /\ creationFailure \in BOOLEAN
  /\ owner \in [Hashes -> Ops \cup {None}]
  /\ told \in [Ops -> Times]
  /\ toldAll \in [known: Times, any: Times \cup {Never}]
  /\ last \in Results

Starting(k) ==
  /\ call'[k].pc = "out"
  /\ call[k].pc # "out" \/ call[k].op # call'[k].op

\* However the native client resets or shortens its windows, and however long
\* the call waited for the lock or a token: no request starts inside a wait
\* that a valid 429 announced to this port for its bucket or for all.
NoRequestInKnownWait ==
  [][\A k \in Calls : Starting(k) =>
        /\ now >= told[call'[k].op]
        /\ now >= toldAll.known]_vars

\* A global limit that could not be accounted for, because its payload was
\* unusable or named another bucket, still keeps every later creation from
\* being sent: also one that was waiting for the lock when it came.
NoCreationInGlobalWait ==
  [][\A k \in Calls :
        Starting(k) /\ call'[k].op = "create" => now >= toldAll.any]_vars

\* The port's timer opens the gate of the whole client, and never before the
\* last global wait that the port was told of is over.
GateNotOpenedEarly ==
  [][timers' # timers /\ gate' => now >= toldAll.known]_vars

\* A bucket that shows no token and no end of its window has a request out: no
\* refusal, error or timeout loses its last token, which nothing would restore.
NoTokenLost ==
  \A o \in Ops : remaining[o] = 0 /\ expires[o] = 0 => Outgoing(o) > 0

\* A creation reported as refused, denied or failed was not carried out: only
\* then may the capture be tried again, or its failure called certain.
CertainMeansNoThread ==
  last.outcome \in {"cooldown", "failed"} => ~last.made

\* Every call comes back, whoever holds the lock and whatever Discord does, and a
\* gate that was shut is opened again, by the port or by the native client.
WaitsEnd ==
  /\ \A k \in Calls : call[k].pc # "idle" ~> call[k].pc = "idle"
  /\ ~gate ~> gate

=============================================================================
