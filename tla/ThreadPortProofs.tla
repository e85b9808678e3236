---------------------------- MODULE ThreadPortProofs ----------------------------
(***************************************************************************)
(* What is proved of ThreadPort, for any number of callers and bucket      *)
(* names, any number of tokens, any waits and any bound on the clock.      *)
(*                                                                         *)
(* That a request starts outside every known wait needs the two memories   *)
(* of the port compared with what it was told (WaitsRemembered), and for   *)
(* a creation that the latch cannot close behind it (LatchSeen), which is  *)
(* the work of the lock (LockHeldOnce).                                    *)
(***************************************************************************)
EXTENDS ThreadPort, TLAPS

-----------------------------------------------------------------------------
(* The inductive invariant.                                                *)

Free(k) == call[k].pc \in {"idle", "queued"}

\* At most one call is between getting the lock and giving it back.
LockHeldOnce == \A j, k \in Calls : ~Free(j) /\ ~Free(k) => j = k

\* What is certain makes no thread, and nothing but a creation makes one.
Honest(how) == how.outcome \in {"cooldown", "failed"} => ~how.made

CallTrue(c) ==
  /\ c.kind = "create" <=> c.op = "create"
  /\ c.op # "create" => ~c.how.made
  /\ Honest(c.how)
  /\ c.kind = "slot" => c.pc \in {"idle", "queued", "slot"}

CallsTrue == \A k \in Calls : CallTrue(call[k])

\* A creation that is about to be sent has seen the latch open.
LatchSeen ==
  \A k \in Calls :
    call[k].op = "create" /\ call[k].pc \in {"next", "token"} => ~creationFailure

\* The port remembers every wait that it was told of; timers wait for the last.
WaitsRemembered ==
  /\ \A o \in Ops : told[o] > now => floor[o] >= told[o]
  /\ toldAll.known > now => globalRetryAt >= toldAll.known
  /\ toldAll.any > now => creationFailure \/ globalRetryAt >= toldAll.any
  /\ \A t \in timers : t >= toldAll.known

\* No token is given out twice, and none is lost.
TokensCount ==
  \A o \in Ops :
    /\ remaining[o] + Outgoing(o) <= Limit
    /\ remaining[o] = 0 /\ expires[o] = 0 => Outgoing(o) > 0

IInv ==
  /\ TypeOK
  /\ CertainMeansNoThread
  /\ LockHeldOnce
  /\ CallsTrue
  /\ LatchSeen
  /\ WaitsRemembered
  /\ TokensCount

-----------------------------------------------------------------------------
(* Types.                                                                  *)

CallType ==
  [kind: Kinds, op: Ops, deadline: Times, how: Results,
   pc: {"idle", "queued", "next", "token", "out", "exit", "slot"}]

\* The parts of the type invariant: calls, buckets, waits.
CallsTyped == call \in [Calls -> CallType] /\ last \in Results
BucketsTyped ==
  /\ remaining \in [Ops -> 0..Limit]
  /\ expires \in [Ops -> Times]
  /\ outside \in [Ops -> 0..Limit]
WaitsTyped ==
  /\ now \in Times
  /\ floor \in [Ops -> Times]
  /\ gate \in BOOLEAN
  /\ nativeWait \in BOOLEAN
  /\ globalRetryAt \in Times
  /\ timers \in SUBSET Times
  /\ creationFailure \in BOOLEAN
  /\ told \in [Ops -> Times]
  /\ toldAll \in [known: Times, any: Times \cup {Never}]
NamesTyped == owner \in [Hashes -> Ops \cup {None}]
QueueTyped == queue \in Seq(Calls)

LEMMA Types ==
  TypeOK <=> CallsTyped /\ BucketsTyped /\ WaitsTyped /\ NamesTyped /\ QueueTyped
BY DEF TypeOK, CallsTyped, BucketsTyped, WaitsTyped, NamesTyped, QueueTyped,
       CallType

LEMMA TypesNext ==
  TypeOK' <=> CallsTyped' /\ BucketsTyped' /\ WaitsTyped' /\ NamesTyped'
              /\ QueueTyped'
BY DEF TypeOK, CallsTyped, BucketsTyped, WaitsTyped, NamesTyped, QueueTyped,
       CallType

LEMMA CertainResult ==
  ASSUME NEW outcome \in Outcomes
  PROVE  As(outcome) \in Results /\ Honest(As(outcome)) /\ ~As(outcome).made
BY DEF As, Results, Honest

LEMMA IdleTyped == Idle \in CallType /\ CallTrue(Idle)
BY TimeAssumption, CertainResult
   DEF Idle, CallType, Kinds, Ops, Times, Outcomes, CallTrue, As

-----------------------------------------------------------------------------
(* What a step does to the calls.                                          *)

CallPart ==
  /\ CallsTyped
  /\ CertainMeansNoThread
  /\ LockHeldOnce
  /\ CallsTrue

\* A step that only takes one call on, and nobody else's place.
LEMMA CallMoves ==
  ASSUME CallPart, NEW k \in Calls, NEW c \in CallType, CallTrue(c),
         call' = [call EXCEPT ![k] = c],
         c.pc \in {"idle", "queued"} \/ ~Free(k) \/ LockFree,
         last' \in Results, Honest(last')
  PROVE  CallPart'
<1>1. CallsTyped'
  BY DEF CallPart, CallsTyped
<1>2. CertainMeansNoThread'
  BY DEF CertainMeansNoThread, Honest
<1>3. LockHeldOnce'
  BY DEF CallPart, CallsTyped, LockHeldOnce, LockFree, Free
<1>4. CallsTrue'
  BY DEF CallPart, CallsTyped, CallsTrue
<1> QED BY <1>1, <1>2, <1>3, <1>4 DEF CallPart

LEMMA CallsStay ==
  ASSUME CallPart, call' = call, Quiet
  PROVE  CallPart'
BY CertainResult
   DEF CallPart, CallsTyped, CertainMeansNoThread, LockHeldOnce, Free, CallsTrue,
       Quiet, Honest, Outcomes

LEMMA CallEnds ==
  ASSUME CallPart, NEW k \in Calls, NEW how \in Results, Honest(how),
         Ends(k, how)
  PROVE  /\ CallPart'
         /\ call' = [call EXCEPT ![k] = Idle]
<1>1. call' = [call EXCEPT ![k] = Idle] /\ last' \in {As("ok"), how}
  BY DEF Ends
<1>2. last' \in Results /\ Honest(last')
  BY <1>1, CertainResult DEF Outcomes
<1> QED BY <1>1, <1>2, IdleTyped, CallMoves DEF Idle

LEMMA CallFinishes ==
  ASSUME CallPart, NEW k \in Calls, NEW how \in Results, Honest(how),
         ~Free(k), Finishes(k, how), call[k].pc # "slot"
  PROVE  /\ CallPart'
         /\ \E c \in CallType :
              /\ call' = [call EXCEPT ![k] = c]
              /\ c.pc \in {"idle", "next"}
              /\ c.op = "create" => c.pc = "idle"
<1>1. CASE Ends(k, how)
  BY <1>1, CallEnds, IdleTyped DEF Idle
<1>2. CASE ~Ends(k, how)
  <2> DEFINE c == [call[k] EXCEPT !.op = "thread", !.pc = "next"]
  <2>1. /\ call[k].kind = "pair"
        /\ call[k].op = "card"
        /\ call' = [call EXCEPT ![k] = c]
        /\ Quiet
    BY <1>2 DEF Finishes, CallPart, CallsTyped, CallType
  <2>2. c \in CallType /\ CallTrue(c) /\ c.pc = "next" /\ c.op = "thread"
    BY <2>1 DEF CallPart, CallsTyped, CallType, CallsTrue, CallTrue, Honest, Ops
  <2>3. last' \in Results /\ Honest(last')
    BY <2>1, CertainResult DEF Quiet, Outcomes
  <2> QED BY <2>1, <2>2, <2>3, CallMoves
<1> QED BY <1>1, <1>2

-----------------------------------------------------------------------------
(* What a step does to the tokens.                                         *)

BucketPart == BucketsTyped /\ TokensCount

LEMMA Ranges ==
  /\ Limit \in Nat /\ Limit > 0
  /\ MaxTime \in Nat /\ Times = 0..MaxTime /\ Never = MaxTime + 1
  /\ \A d \in Delays : d \in Nat /\ d > 0
BY LimitAssumption, TimeAssumption, DelaysAssumption DEF Times, Never

\* The requests that are out: those of the gateway, and that of the holder.
LEMMA HolderOutgoing ==
  ASSUME CallPart, BucketPart, NEW k \in Calls, ~Free(k), NEW o \in Ops
  PROVE  Outgoing(o) = outside[o]
           + (IF call[k].pc = "out" /\ call[k].op = o THEN 1 ELSE 0)
BY DEF CallPart, LockHeldOnce, Free, Outgoing

LEMMA OutgoingNat ==
  ASSUME BucketPart, NEW o \in Ops
  PROVE  Outgoing(o) \in Nat /\ Outgoing(o) \in {outside[o], outside[o] + 1}
BY DEF BucketPart, BucketsTyped, Outgoing

\* The same after the step of a call that holds the lock or has just got it.
LEMMA NextOutgoing ==
  ASSUME CallPart, NEW k \in Calls, NEW c, ~Free(k) \/ LockFree,
         call' = [call EXCEPT ![k] = c], NEW o \in Ops
  PROVE  Outgoing(o)' = outside'[o]
           + (IF c.pc = "out" /\ c.op = o THEN 1 ELSE 0)
BY DEF CallPart, CallsTyped, LockHeldOnce, LockFree, Free, Outgoing

\* A call that is not out before and after does not count.
LEMMA SameOutgoing ==
  ASSUME CallPart, NEW k \in Calls, NEW c, call[k].pc # "out", c.pc # "out",
         call' = [call EXCEPT ![k] = c], outside' = outside, NEW o \in Ops
  PROVE  Outgoing(o)' = Outgoing(o)
BY DEF CallPart, CallsTyped, Outgoing

LEMMA BucketsStay ==
  ASSUME CallPart, BucketPart, NEW k \in Calls, NEW c,
         call[k].pc # "out", c.pc # "out", call' = [call EXCEPT ![k] = c],
         UNCHANGED <<remaining, expires, outside>>
  PROVE  BucketPart'
BY SameOutgoing DEF BucketPart, BucketsTyped, TokensCount

\* The tokens that may be taken are those of which no request holds one.
LEMMA TokensLeft ==
  ASSUME BucketPart, NEW o \in Ops
  PROVE  /\ Tokens(o) \in Nat
         /\ Tokens(o) + Outgoing(o) <= Limit
BY Ranges, OutgoingNat DEF BucketPart, BucketsTyped, TokensCount, Tokens

LEMMA TokenTaken ==
  ASSUME CallPart, BucketPart, NEW k \in Calls, ~Free(k), call[k].pc # "out",
         call[k].op \in Ops, TakeToken(call[k].op), Goes(k, "out"),
         outside' = outside
  PROVE  BucketPart'
<1> DEFINE o == call[k].op
           c == [call[k] EXCEPT !.pc = "out"]
<1>1. /\ call' = [call EXCEPT ![k] = c]
      /\ c.pc = "out" /\ c.op = o
  BY DEF Goes, CallPart, CallsTyped, CallType
<1>2. \A b \in Ops : Outgoing(b) = outside[b]
  <2>1. \A b \in Ops : Outgoing(b) = outside[b] + 0
    BY HolderOutgoing
  <2>2. \A b \in Ops : outside[b] \in Nat
    BY Ranges DEF BucketPart, BucketsTyped
  <2> QED BY <2>1, <2>2
<1>3. \A b \in Ops : Outgoing(b)' = outside[b] + (IF b = o THEN 1 ELSE 0)
  <2> HIDE DEF c
  <2>1. \A b \in Ops :
          Outgoing(b)' = outside'[b]
                         + (IF c.pc = "out" /\ c.op = b THEN 1 ELSE 0)
    BY <1>1, NextOutgoing
  <2> QED BY <1>1, <2>1
<1>4. /\ Tokens(o) \in Nat /\ Tokens(o) > 0
      /\ Tokens(o) + outside[o] <= Limit
  BY <1>2, TokensLeft DEF TakeToken
<1>5. /\ remaining' = [remaining EXCEPT ![o] = Tokens(o) - 1]
      /\ expires' = [expires EXCEPT ![o] = IF Expired(o) THEN 0 ELSE @]
  BY DEF TakeToken
<1>6. /\ remaining'[o] = Tokens(o) - 1
      /\ \A b \in Ops \ {o} :
           remaining'[b] = remaining[b] /\ expires'[b] = expires[b]
  BY <1>5 DEF BucketPart, BucketsTyped
<1>7. BucketsTyped'
  <2>1. Tokens(o) - 1 \in 0..Limit /\ 0 \in Times
    BY <1>4, Ranges DEF BucketPart, BucketsTyped
  <2> QED BY <1>5, <2>1 DEF BucketPart, BucketsTyped
<1>8. TokensCount'
  <2> SUFFICES ASSUME NEW b \in Ops
               PROVE  /\ remaining'[b] + Outgoing(b)' <= Limit
                      /\ remaining'[b] = 0 /\ expires'[b] = 0
                           => Outgoing(b)' > 0
    BY DEF TokensCount
  <2>1. CASE b = o
    BY <1>3, <1>4, <1>6, <2>1, Ranges DEF BucketPart, BucketsTyped
  <2>2. CASE b # o
    <3>1. Outgoing(b)' = Outgoing(b)
      BY <1>2, <1>3, <2>2 DEF BucketPart, BucketsTyped
    <3> QED BY <1>6, <2>2, <3>1 DEF BucketPart, TokensCount
  <2> QED BY <2>1, <2>2
<1> QED BY <1>7, <1>8 DEF BucketPart

\* A token comes back with the step of a call: what is then known of the bucket
\* counts no request twice and leaves it a token or the end of its window.
LEMMA TokenReturned ==
  ASSUME CallPart, BucketPart, NEW k \in Calls, ~Free(k), call[k].op \in Ops,
         NEW c, c.pc # "out", call' = [call EXCEPT ![k] = c],
         NEW r \in 0..Limit, NEW e \in Times, BucketIs(call[k].op, r, e),
         r + outside[call[k].op] <= Limit, r > 0 \/ e # 0, outside' = outside
  PROVE  BucketPart'
<1> DEFINE o == call[k].op
<1>1. \A b \in Ops : outside[b] \in Nat /\ Outgoing(b)' = outside[b]
  <2>1. \A b \in Ops : Outgoing(b)' = outside'[b] + 0
    BY NextOutgoing
  <2> QED BY <2>1, Ranges DEF BucketPart, BucketsTyped
<1>2. \A b \in Ops \ {o} : Outgoing(b) = outside[b]
  <2>1. \A b \in Ops \ {o} : Outgoing(b) = outside[b] + 0
    BY HolderOutgoing
  <2> QED BY <1>1, <2>1
<1>3. BucketsTyped'
  BY DEF BucketPart, BucketsTyped, BucketIs
<1>4. TokensCount'
  <2> SUFFICES ASSUME NEW b \in Ops
               PROVE  /\ remaining'[b] + Outgoing(b)' <= Limit
                      /\ remaining'[b] = 0 /\ expires'[b] = 0
                           => Outgoing(b)' > 0
    BY DEF TokensCount
  <2>1. CASE b = o
    BY <1>1, <2>1, Ranges DEF BucketPart, BucketsTyped, BucketIs
  <2>2. CASE b # o
    BY <1>1, <1>2, <2>2, Ranges
       DEF BucketPart, BucketsTyped, BucketIs, TokensCount
  <2> QED BY <2>1, <2>2
<1> QED BY <1>3, <1>4 DEF BucketPart

\* The native exit gives the token back, and sleeps only if a window is known.
LEMMA CallExits ==
  ASSUME CallPart, BucketPart, NEW k \in Calls, ~Free(k),
         call[k].pc \notin {"slot"}, call[k].kind # "slot",
         NEW rem \in 0..Limit, NEW exp \in Times,
         outside[call[k].op] < Limit, rem + outside[call[k].op] <= Limit,
         NEW how \in Results, Honest(how), call[k].op # "create" => ~how.made,
         Exits(k, rem, exp, how), outside' = outside
  PROVE  /\ CallPart'
         /\ BucketPart'
         /\ \E c \in CallType :
              /\ call' = [call EXCEPT ![k] = c]
              /\ c.pc \in {"idle", "next", "exit"}
              /\ c.op = "create" => c.pc \notin {"next", "token"}
<1> DEFINE o == call[k].op
           s == [call[k] EXCEPT !.pc = "exit", !.how = how]
<1>0. o \in Ops
  BY DEF CallPart, CallsTyped, CallType
<1>1. /\ CallPart'
      /\ \E c \in CallType :
           /\ call' = [call EXCEPT ![k] = c]
           /\ c.pc \in {"idle", "next", "exit"}
           /\ c.op = "create" => c.pc \notin {"next", "token"}
  <2>1. CASE Finishes(k, how)
    BY <2>1, CallFinishes
  <2>2. CASE ~Finishes(k, how)
    <3>1. call' = [call EXCEPT ![k].pc = "exit", ![k].how = how] /\ Quiet
      BY <2>2 DEF Exits
    <3>2. /\ call' = [call EXCEPT ![k] = s]
          /\ s \in CallType /\ CallTrue(s) /\ s.pc = "exit"
      BY <3>1 DEF CallPart, CallsTyped, CallType, CallsTrue, CallTrue
    <3>3. last' \in Results /\ Honest(last')
      BY <3>1, CertainResult DEF Quiet, Outcomes
    <3>4. CallPart'
      BY <3>2, <3>3, CallMoves
    <3> QED BY <3>2, <3>4
  <2> QED BY <2>1, <2>2
<1>2. \/ rem > outside[o] /\ BucketIs(o, rem, exp)
      \/ BucketIs(o, Limit - outside[o], 0)
      \/ exp # 0 /\ BucketIs(o, rem, exp)
  BY DEF Exits
<1>3. PICK r \in 0..Limit, e \in Times :
        /\ BucketIs(o, r, e)
        /\ r + outside[o] <= Limit
        /\ r > 0 \/ e # 0
  <2>0. outside[o] \in Nat
    BY <1>0, Ranges DEF BucketPart, BucketsTyped
  <2>1. CASE BucketIs(o, Limit - outside[o], 0)
    <3>1. /\ Limit - outside[o] \in 0..Limit /\ 0 \in Times
          /\ Limit - outside[o] + outside[o] <= Limit
          /\ Limit - outside[o] > 0
      BY <2>0, Ranges
    <3> QED BY <2>1, <3>1
  <2>2. CASE (rem > outside[o] \/ exp # 0) /\ BucketIs(o, rem, exp)
    BY <2>0, <2>2, Ranges
  <2> QED BY <1>2, <2>1, <2>2
<1>4. BucketPart'
  BY <1>0, <1>1, <1>3, TokenReturned
<1> QED BY <1>1, <1>4

-----------------------------------------------------------------------------
(* What a step does to the memories.                                       *)

WaitPart == WaitsTyped /\ WaitsRemembered

\* No call hears of a limit, and the clock stands.
LEMMA WaitsStay ==
  ASSUME WaitPart, UNCHANGED <<now, floor, globalRetryAt, creationFailure, told,
                               toldAll>>,
         timers' \subseteq timers, gate' \in BOOLEAN, nativeWait' \in BOOLEAN
  PROVE  WaitPart'
BY DEF WaitPart, WaitsTyped, WaitsRemembered

-----------------------------------------------------------------------------
(* The invariant by its parts, and the frames of the steps.                *)

Parts ==
  CallPart /\ BucketPart /\ WaitPart /\ LatchSeen /\ NamesTyped /\ QueueTyped

LEMMA InvParts == (IInv <=> Parts) /\ (IInv' <=> Parts')
BY Types, TypesNext DEF IInv, Parts, CallPart, BucketPart, WaitPart

\* The latch does not change, and this call does not run into it.
LEMMA LatchStays ==
  ASSUME CallPart, LatchSeen, NEW k \in Calls, NEW c,
         call' = [call EXCEPT ![k] = c],
         c.op = "create" /\ c.pc \in {"next", "token"} => ~creationFailure,
         creationFailure' = creationFailure
  PROVE  LatchSeen'
BY DEF CallPart, CallsTyped, LatchSeen

\* Whoever closes the latch holds the lock, and so no creation is beyond it.
LEMMA LatchCloses ==
  ASSUME CallPart, NEW k \in Calls, NEW c, ~Free(k),
         call' = [call EXCEPT ![k] = c],
         c.op = "create" => c.pc \notin {"next", "token"}
  PROVE  LatchSeen'
BY DEF CallPart, CallsTyped, LatchSeen, LockHeldOnce, Free

\* A step of one call that neither sends nor hears anything.
LEMMA LocalStep ==
  ASSUME IInv, NEW k \in Calls, NEW c \in CallType, CallTrue(c),
         call' = [call EXCEPT ![k] = c],
         c.pc \in {"idle", "queued"} \/ ~Free(k) \/ LockFree,
         call[k].pc # "out", c.pc # "out",
         c.op = "create" /\ c.pc \in {"next", "token"} => ~creationFailure,
         last' \in Results, Honest(last'), queue' \in Seq(Calls),
         UNCHANGED <<now, native, port, history>>
  PROVE  IInv'
<1>1. Parts
  BY InvParts
<1>2. CallPart' /\ BucketPart' /\ LatchSeen'
  BY <1>1, CallMoves, BucketsStay, LatchStays DEF Parts, native, port
<1>3. WaitPart' /\ NamesTyped' /\ QueueTyped'
  BY <1>1, WaitsStay
     DEF Parts, native, port, history, WaitPart, WaitsTyped, NamesTyped,
         QueueTyped
<1> QED BY <1>2, <1>3, InvParts DEF Parts

LEMMA QuietLast ==
  ASSUME Quiet
  PROVE  last' \in Results /\ Honest(last')
BY CertainResult DEF Quiet, Outcomes

\* The end of a call with a refusal of the port's own.
LEMMA LocalEnd ==
  ASSUME IInv, NEW k \in Calls, NEW outcome \in Outcomes,
         Ends(k, As(outcome)), call[k].pc # "out", queue' \in Seq(Calls),
         UNCHANGED <<now, native, port, history>>
  PROVE  IInv'
<1>1. call' = [call EXCEPT ![k] = Idle] /\ last' \in {As("ok"), As(outcome)}
  BY DEF Ends
<1>2. last' \in Results /\ Honest(last')
  BY <1>1, CertainResult DEF Outcomes
<1> QED BY <1>1, <1>2, IdleTyped, LocalStep DEF Idle

-----------------------------------------------------------------------------
(* Asking for the lock and getting it.                                     *)

LEMMA BeginStep ==
  ASSUME IInv, NEW k \in Calls, Begin(k)
  PROVE  IInv'
<1> PICK kind \in Wanted :
      /\ kind # "slot" => now + Timeout <= MaxTime
      /\ call' = [call EXCEPT ![k] =
           [Idle EXCEPT !.kind = kind, !.pc = "queued",
                        !.op = IF kind = "create" THEN "create" ELSE "card",
                        !.deadline = IF kind = "slot" THEN 0
                                     ELSE now + Timeout]]
  BY DEF Begin
<1> DEFINE c == [Idle EXCEPT !.kind = kind, !.pc = "queued",
                   !.op = IF kind = "create" THEN "create" ELSE "card",
                   !.deadline = IF kind = "slot" THEN 0 ELSE now + Timeout]
<1>1. (IF kind = "slot" THEN 0 ELSE now + Timeout) \in Times
  BY TimeAssumption, Ranges DEF IInv, TypeOK
<1>2. kind \in Kinds
  BY WantedAssumption DEF Kinds
<1>3. c \in CallType /\ CallTrue(c) /\ c.pc = "queued"
  BY <1>1, <1>2, IdleTyped
     DEF Idle, CallType, CallTrue, Ops, Honest, As
<1>4. call[k].pc = "idle" /\ queue' \in Seq(Calls)
  BY DEF Begin, IInv, TypeOK
<1> QED BY <1>3, <1>4, QuietLast, LocalStep DEF Begin

LEMMA StartsStep ==
  ASSUME IInv, NEW k \in Calls, Starts(k)
  PROVE  IInv'
<1>1. /\ call[k].pc # "out" /\ LockFree
      /\ queue' \in Seq(Calls)
      /\ UNCHANGED <<now, native, port, history>>
  <2>1. queue \in Seq(Calls) /\ queue # <<>> /\ queue' = Tail(queue)
    BY DEF Starts, IInv, TypeOK
  <2>2. queue' \in Seq(Calls)
    BY <2>1
  <2> QED BY <2>2 DEF Starts, LockFree
<1>2. CASE Ends(k, As("ok")) \/ Ends(k, As("failed"))
  BY <1>1, <1>2, LocalEnd DEF Outcomes
<1>3. ASSUME NEW pc \in {"slot", "next"}, call' = [call EXCEPT ![k].pc = pc],
             Quiet, call[k].kind = "slot" <=> pc = "slot",
             call[k].kind = "create" => ~creationFailure
      PROVE  IInv'
  <2> DEFINE c == [call[k] EXCEPT !.pc = pc]
  <2>1. /\ c \in CallType /\ CallTrue(c) /\ c.pc = pc
        /\ c.op = "create" => ~creationFailure
        /\ call' = [call EXCEPT ![k] = c]
    BY <1>3, InvParts
       DEF Parts, CallPart, CallsTyped, CallType, CallsTrue, CallTrue
  <2> QED BY <1>1, <1>3, <2>1, QuietLast, LocalStep
<1> QED BY <1>2, <1>3 DEF Starts

LEMMA SlotEndsStep ==
  ASSUME IInv, NEW k \in Calls, SlotEnds(k)
  PROVE  IInv'
BY IdleTyped, QuietLast, LocalStep DEF SlotEnds, Idle, IInv, TypeOK

-----------------------------------------------------------------------------
(* Before the request.                                                     *)

LEMMA RefusedStep ==
  ASSUME IInv, NEW k \in Calls, Refused(k)
  PROVE  IInv'
<1>1. PICK outcome \in Outcomes : Ends(k, As(outcome))
  BY DEF Refused, Outcomes
<1> QED BY <1>1, LocalEnd DEF Refused, IInv, TypeOK

\* The holder is not a slot, and its bucket is one.
LEMMA Holder ==
  ASSUME IInv, NEW k \in Calls, call[k].pc \in {"next", "token", "out", "exit"}
  PROVE  /\ ~Free(k) /\ call[k].op \in Ops
         /\ call[k].kind # "slot" /\ call[k].pc # "slot"
         /\ call[k].op # "create" => ~call[k].how.made
         /\ Honest(call[k].how) /\ call[k].how \in Results
         /\ call[k].op = "create" <=> call[k].kind = "create"
BY DEF IInv, TypeOK, CallsTrue, CallTrue, Free

\* A call that takes a token and sends.
LEMMA SendStep ==
  ASSUME IInv, NEW k \in Calls, call[k].pc \in {"next", "token"},
         TakeToken(call[k].op), Goes(k, "out"), Quiet,
         UNCHANGED <<now, queue, outside, gate, nativeWait, port, history>>
  PROVE  IInv'
<1>0. Parts
  BY InvParts
<1> DEFINE c == [call[k] EXCEPT !.pc = "out"]
<1>1. /\ c \in CallType /\ CallTrue(c) /\ c.pc = "out"
      /\ call' = [call EXCEPT ![k] = c]
  BY <1>0, Holder
     DEF Parts, CallPart, CallsTyped, CallType, CallsTrue, CallTrue, Goes
<1>2. CallPart' /\ LatchSeen'
  BY <1>0, <1>1, Holder, QuietLast, CallMoves, LatchStays DEF Parts, port
<1>3. BucketPart'
  BY <1>0, Holder, TokenTaken DEF Parts
<1>4. WaitPart' /\ NamesTyped' /\ QueueTyped'
  BY <1>0, WaitsStay
     DEF Parts, port, history, WaitPart, WaitsTyped, NamesTyped, QueueTyped
<1> QED BY <1>2, <1>3, <1>4, InvParts DEF Parts

LEMMA SendsStep ==
  ASSUME IInv, NEW k \in Calls, Sends(k)
  PROVE  IInv'
BY SendStep DEF Sends

LEMMA AwaitsTokenStep ==
  ASSUME IInv, NEW k \in Calls, AwaitsToken(k)
  PROVE  IInv'
<1>0. Parts
  BY InvParts
<1> DEFINE o == call[k].op
           c == [call[k] EXCEPT !.pc = "token"]
<1>1. /\ c \in CallType /\ CallTrue(c) /\ c.pc = "token" /\ c.op = o
      /\ call' = [call EXCEPT ![k] = c]
      /\ call[k].pc = "next" /\ o \in Ops
  BY <1>0, Holder
     DEF AwaitsToken, Parts, CallPart, CallsTyped, CallType, CallsTrue,
         CallTrue, Goes
<1>2. CallPart' /\ LatchSeen'
  <2>1. ~Free(k) /\ UNCHANGED creationFailure /\ Quiet
    BY Holder DEF AwaitsToken, port
  <2>2. c.op = "create" => ~creationFailure
    BY <1>0, <1>1 DEF Parts, LatchSeen
  <2> QED BY <1>0, <1>1, <2>1, <2>2, QuietLast, CallMoves, LatchStays DEF Parts
<1>3. BucketPart'
  <2>1. Outgoing(o) > 0
    <3>1. Tokens(o) = 0 /\ ~Exhausted(o)
      BY DEF AwaitsToken
    <3>2. Expired(o) /\ Limit - Outgoing(o) = 0
      BY <1>0, <1>1, <3>1
         DEF Exhausted, Tokens, Parts, BucketPart, BucketsTyped
    <3> QED BY <1>0, <1>1, <3>2, OutgoingNat, Ranges DEF Parts
  <2>2. \A b \in Ops : Outgoing(b)' = Outgoing(b)
    BY <1>0, <1>1, SameOutgoing DEF AwaitsToken, Parts
  <2>3. BucketsTyped'
    BY <1>0, <1>1, Ranges DEF Parts, BucketPart, BucketsTyped, AwaitsToken
  <2>4. TokensCount'
    <3>1. /\ remaining'[o] = 0
          /\ \A b \in Ops \ {o} :
               remaining'[b] = remaining[b] /\ expires'[b] = expires[b]
      BY <1>0, <1>1 DEF Parts, BucketPart, BucketsTyped, AwaitsToken
    <3>2. remaining[o] + Outgoing(o) <= Limit /\ remaining[o] \in Nat
      BY <1>0, <1>1, Ranges DEF Parts, BucketPart, BucketsTyped, TokensCount
    <3>3. 0 + Outgoing(o) <= Limit
      BY <1>0, <1>1, <3>2, OutgoingNat, Ranges DEF Parts, BucketPart
    <3> QED BY <1>0, <2>1, <2>2, <3>1, <3>3
            DEF Parts, BucketPart, TokensCount
  <2> QED BY <2>3, <2>4 DEF BucketPart
<1>4. WaitPart' /\ NamesTyped' /\ QueueTyped'
  BY <1>0, WaitsStay
     DEF AwaitsToken, Parts, port, history, WaitPart, WaitsTyped, NamesTyped,
         QueueTyped
<1> QED BY <1>2, <1>3, <1>4, InvParts DEF Parts

LEMMA GetsTokenStep ==
  ASSUME IInv, NEW k \in Calls, GetsToken(k)
  PROVE  IInv'
<1>1. CASE Ends(k, As("cooldown")) /\ UNCHANGED <<remaining, expires>>
  BY <1>1, LocalEnd DEF GetsToken, native, Outcomes, IInv, TypeOK
<1>2. CASE TakeToken(call[k].op) /\ Goes(k, "out") /\ Quiet
  BY <1>2, SendStep DEF GetsToken
<1> QED BY <1>1, <1>2 DEF GetsToken

-----------------------------------------------------------------------------
(* The exit of a call, and what it has heard.                              *)

\* A call gives its token back and ends, sleeps, or goes on; the memories are
\* left to the step.
LEMMA ExitStep ==
  ASSUME IInv, NEW k \in Calls, call[k].pc \in {"next", "token", "out"},
         NEW rem \in 0..Limit, NEW exp \in Times,
         outside[call[k].op] < Limit, rem + outside[call[k].op] <= Limit,
         NEW how \in Results, Honest(how), call[k].op # "create" => ~how.made,
         Exits(k, rem, exp, how), UNCHANGED <<queue, outside>>,
         WaitPart', NamesTyped'
  PROVE  IInv'
<1>0. Parts
  BY InvParts
<1>1. /\ CallPart'
      /\ BucketPart'
      /\ \E c \in CallType :
           /\ call' = [call EXCEPT ![k] = c]
           /\ c.op = "create" => c.pc \notin {"next", "token"}
  BY <1>0, Holder, CallExits DEF Parts
<1>2. LatchSeen'
  BY <1>0, <1>1, Holder, LatchCloses DEF Parts
<1> QED BY <1>0, <1>1, <1>2, InvParts DEF Parts, QueueTyped

\* What is left of the tokens when a request is out.
LEMMA RequestOut ==
  ASSUME IInv, NEW k \in Calls, call[k].pc = "out"
  PROVE  LET o == call[k].op IN
         /\ o \in Ops
         /\ outside[o] \in Nat /\ outside[o] < Limit
         /\ remaining[o] \in 0..Limit /\ remaining[o] + outside[o] <= Limit
         /\ expires[o] \in Times
<1> DEFINE o == call[k].op
<1>1. o \in Ops /\ Parts
  BY InvParts, Holder
<1>2. Outgoing(o) = outside[o] + 1
  BY <1>1, Holder, HolderOutgoing DEF Parts
<1>3. remaining[o] + Outgoing(o) <= Limit
  BY <1>1 DEF Parts, BucketPart, TokensCount
<1> QED BY <1>1, <1>2, <1>3, Ranges DEF Parts, BucketPart, BucketsTyped

LEMMA UnauthorizedStep ==
  ASSUME IInv, NEW k \in Calls, Unauthorized(k)
  PROVE  IInv'
<1> DEFINE o == call[k].op
           exp == IF Expired(o) THEN 0 ELSE expires[o]
<1>0. Parts /\ o \in Ops /\ ~Free(k) /\ call[k].pc \in {"next", "token"}
  BY InvParts, Holder DEF Unauthorized
<1>1. CASE Ends(k, As("cooldown")) /\ UNCHANGED <<remaining, expires>>
  BY <1>0, <1>1, LocalEnd DEF Unauthorized, native, Outcomes, IInv, TypeOK
<1>2. CASE Exits(k, Tokens(o) - 1, exp, As("failed"))
  <2>1. Outgoing(o) = outside[o] /\ outside[o] \in Nat
    <3>1. Outgoing(o) = outside[o] + 0
      BY <1>0, HolderOutgoing DEF Parts
    <3>2. outside[o] \in Nat
      BY <1>0, Ranges DEF Parts, BucketPart, BucketsTyped
    <3> QED BY <3>1, <3>2
  <2>2. /\ Tokens(o) - 1 \in 0..Limit /\ outside[o] < Limit
        /\ Tokens(o) - 1 + outside[o] <= Limit
    <3>1. Tokens(o) \in Nat /\ Tokens(o) > 0 /\ Tokens(o) + outside[o] <= Limit
      BY <1>0, <2>1, TokensLeft DEF Parts, Unauthorized
    <3> QED BY <2>1, <3>1, Ranges
  <2>3. exp \in Times
    BY <1>0, Ranges DEF Parts, BucketPart, BucketsTyped
  <2>4. WaitPart' /\ NamesTyped'
    BY <1>0, WaitsStay
       DEF Parts, WaitPart, WaitsTyped, NamesTyped, Unauthorized, port, history
  <2>5. As("failed") \in Results /\ Honest(As("failed")) /\ ~As("failed").made
    BY CertainResult DEF Outcomes
  <2> QED BY <1>0, <1>2, <2>2, <2>3, <2>4, <2>5, ExitStep DEF Unauthorized
<1> QED BY <1>1, <1>2 DEF Unauthorized

LEMMA ExitEndsStep ==
  ASSUME IInv, NEW k \in Calls, ExitEnds(k)
  PROVE  IInv'
<1> DEFINE o == call[k].op
<1>0. Parts /\ o \in Ops /\ ~Free(k) /\ call[k].pc = "exit"
  BY InvParts, Holder DEF ExitEnds
<1>1. /\ CallPart'
      /\ \E c \in CallType :
           /\ call' = [call EXCEPT ![k] = c]
           /\ c.pc \in {"idle", "next"}
           /\ c.op = "create" => c.pc = "idle"
  BY <1>0, Holder, CallFinishes DEF Parts, ExitEnds
<1>2. BucketPart'
  <2>1. \A b \in Ops : Outgoing(b)' = Outgoing(b)
    BY <1>0, <1>1, SameOutgoing DEF Parts, ExitEnds
  <2>2. Outgoing(o) \in 0..Limit
    <3>1. remaining[o] + Outgoing(o) <= Limit /\ remaining[o] \in Nat
      BY <1>0, Ranges DEF Parts, BucketPart, BucketsTyped, TokensCount
    <3> QED BY <1>0, <3>1, OutgoingNat, Ranges DEF Parts
  <2>3. BucketIs(o, Limit - Outgoing(o), 0) /\ UNCHANGED outside
    BY DEF ExitEnds
  <2>4. BucketsTyped'
    BY <1>0, <2>2, <2>3, Ranges DEF Parts, BucketPart, BucketsTyped, BucketIs
  <2>5. TokensCount'
    <3>1. /\ remaining'[o] = Limit - Outgoing(o)
          /\ \A b \in Ops \ {o} :
               remaining'[b] = remaining[b] /\ expires'[b] = expires[b]
      BY <1>0, <2>3 DEF Parts, BucketPart, BucketsTyped, BucketIs
    <3>2. /\ remaining'[o] + Outgoing(o) <= Limit
          /\ remaining'[o] = 0 => Outgoing(o) > 0
      BY <2>2, <3>1, Ranges
    <3> QED BY <1>0, <2>1, <3>1, <3>2 DEF Parts, BucketPart, TokensCount
  <2> QED BY <2>4, <2>5 DEF BucketPart
<1>3. LatchSeen'
  BY <1>0, <1>1, LatchCloses DEF Parts
<1>4. WaitPart' /\ NamesTyped' /\ QueueTyped'
  BY <1>0, WaitsStay
     DEF ExitEnds, Parts, port, history, WaitPart, WaitsTyped, NamesTyped,
         QueueTyped
<1> QED BY <1>1, <1>2, <1>3, <1>4, InvParts DEF Parts

-----------------------------------------------------------------------------
(* Answers.                                                                *)

\* What an answer may be taken for.
Readings(k, status, h, made) ==
  {[As(Outcome(k, status, h)) EXCEPT !.made = made],
   [As(Doubt(k)) EXCEPT !.made = made]}

\* What an answer is taken for fits what Discord did.
LEMMA MadeHonest ==
  ASSUME NEW k \in Calls, NEW h,
         NEW status \in {"ok", "refused", "error"}, NEW made \in Makes(k, status),
         NEW how \in Readings(k, status, h, made)
  PROVE  how \in Results /\ Honest(how) /\ (call[k].op # "create" => ~how.made)
<1>1. made \in BOOLEAN /\ (call[k].op # "create" => ~made)
      /\ (status = "refused" => ~made)
  BY DEF Makes
<1>2. CASE how = [As(Doubt(k)) EXCEPT !.made = made]
  BY <1>1, <1>2 DEF Doubt, As, Results, Outcomes, Honest
<1>3. CASE how = [As(Outcome(k, status, h)) EXCEPT !.made = made]
  <2>1. /\ Outcome(k, status, h) \in {"ok", "failed", "uncertain"}
        /\ Outcome(k, status, h) = "failed" =>
             call[k].op # "create" \/ status = "refused"
    BY DEF Outcome, Doubt
  <2> QED BY <1>1, <1>3, <2>1 DEF As, Results, Outcomes, Honest
<1> QED BY <1>2, <1>3 DEF Readings

\* Names of buckets stay names of buckets.
LEMMA NamesStay ==
  ASSUME NamesTyped, NEW o \in Ops, NEW h \in Names,
         Named(o, h) \/ UNCHANGED owner
  PROVE  NamesTyped'
BY DEF NamesTyped, Named, Names

LEMMA AnsweredStep ==
  ASSUME IInv, NEW k \in Calls, Answered(k)
  PROVE  IInv'
<1> DEFINE o == call[k].op
<1>0. Parts /\ o \in Ops /\ call[k].pc = "out"
  BY InvParts, Holder DEF Answered
<1>1. PICK status \in {"ok", "refused", "error"}, h \in Names :
      \E made \in Makes(k, status) :
       \/ /\ Exits(k, remaining[o], expires[o],
                   [As(Outcome(k, status, h)) EXCEPT !.made = made])
          /\ IF Collides(o, h) THEN UNCHANGED owner ELSE Named(o, h)
       \/ /\ ~Collides(o, h)
          /\ \E rem \in Windows(outside[o]), d \in Delays :
               /\ now + d <= MaxTime
               /\ Exits(k, rem, now + d,
                     [As(Outcome(k, status, h)) EXCEPT !.made = made])
          /\ Named(o, h)
       \/ /\ Exits(k, remaining[o], expires[o],
                   [As(Doubt(k)) EXCEPT !.made = made])
          /\ UNCHANGED owner
  BY Zenon DEF Answered
<1>2. PICK made \in Makes(k, status) :
        \E how \in Readings(k, status, h, made) :
        \/ Exits(k, remaining[o], expires[o], how)
        \/ \E rem \in Windows(outside[o]), d \in Delays :
             /\ now + d <= MaxTime
             /\ Exits(k, rem, now + d, how)
  BY <1>1 DEF Readings
<1> PICK how \in Readings(k, status, h, made) :
        \/ Exits(k, remaining[o], expires[o], how)
        \/ \E rem \in Windows(outside[o]), d \in Delays :
             /\ now + d <= MaxTime
             /\ Exits(k, rem, now + d, how)
  BY <1>2
<1>3. NamesTyped'
  BY <1>0, <1>1, NamesStay DEF Parts
<1>4. WaitPart'
  <2>1. UNCHANGED <<now, floor, globalRetryAt, creationFailure, told, toldAll,
                    timers, gate, nativeWait>>
    BY DEF Answered, history
  <2> QED BY <1>0, <2>1, WaitsStay DEF Parts, WaitPart, WaitsTyped
<1>5. how \in Results /\ Honest(how) /\ (o # "create" => ~how.made)
  BY MadeHonest
<1>6. PICK rem \in 0..Limit, exp \in Times :
        rem + outside[o] <= Limit /\ Exits(k, rem, exp, how)
  <2>1. CASE Exits(k, remaining[o], expires[o], how)
    BY <1>0, <2>1, RequestOut
  <2>2. CASE \E rem \in Windows(outside[o]), d \in Delays :
               now + d <= MaxTime /\ Exits(k, rem, now + d, how)
    <3> PICK rem \in Windows(outside[o]), d \in Delays :
               now + d <= MaxTime /\ Exits(k, rem, now + d, how)
      BY <2>2
    <3>1. rem \in 0..Limit /\ rem + outside[o] <= Limit
      BY Ranges DEF Windows
    <3>2. now + d \in Times
      BY Ranges DEF IInv, TypeOK
    <3> QED BY <3>1, <3>2
  <2> QED BY <2>1, <2>2
<1>7. UNCHANGED <<queue, outside>> /\ outside[o] < Limit
  BY <1>0, RequestOut DEF Answered
<1> QED BY <1>0, <1>3, <1>4, <1>5, <1>6, <1>7, ExitStep

-----------------------------------------------------------------------------
(* Denials.                                                                *)

LEMMA LaterFacts ==
  ASSUME NEW a \in Nat, NEW b \in Nat
  PROVE  /\ Later(a, b) \in {a, b} /\ Later(a, b) \in Nat
         /\ Later(a, b) >= a /\ Later(a, b) >= b
BY DEF Later

\* A complete denial: what is told is in the memories before the lock is free.
LEMMA DenialRemembered ==
  ASSUME IInv, NEW o \in Ops, NEW d \in Delays, NEW until \in Times,
         NEW global \in BOOLEAN, NEW k,
         until >= now + d, now + d <= MaxTime,
         RaiseFloor(o, until),
         IF global THEN ShutsGate(k, until)
         ELSE UNCHANGED <<globalRetryAt, gate, timers>>,
         told' = [told EXCEPT ![o] = now + d],
         toldAll' = IF ~global THEN toldAll
                    ELSE [known |-> Later(toldAll.known, now + d),
                          any |-> Later(toldAll.any, now + d)],
         UNCHANGED <<now, nativeWait, creationFailure>>
  PROVE  WaitPart'
<1>0. /\ now \in Nat /\ d \in Nat /\ d > 0 /\ now + d \in Times
      /\ \A t \in Times : t \in Nat
      /\ WaitsTyped /\ WaitsRemembered
  BY InvParts, Ranges DEF Parts, WaitPart, WaitsTyped
<1>1. floor' \in [Ops -> Times] /\ told' \in [Ops -> Times]
  <2>1. 0 \in Times
    BY Ranges
  <2> QED BY <1>0, <2>1, LaterFacts DEF WaitsTyped, RaiseFloor
<1>2. \A b \in Ops : told'[b] > now => floor'[b] >= told'[b]
  <2> SUFFICES ASSUME NEW b \in Ops, told'[b] > now
               PROVE  floor'[b] >= told'[b]
    OBVIOUS
  <2>1. CASE b = o
    <3>1. floor'[b] >= until /\ told'[b] = now + d /\ floor'[b] \in Times
      BY <1>0, <1>1, <2>1, LaterFacts DEF RaiseFloor, WaitsTyped
    <3> QED BY <1>0, <3>1
  <2>2. CASE b # o
    <3>1. /\ told'[b] = told[b] /\ told[b] > now /\ floor[b] >= told[b]
          /\ told[b] \in Nat /\ floor[b] \in Nat
      BY <1>0, <2>2 DEF WaitsTyped, WaitsRemembered
    <3>2. floor[b] > now
      BY <1>0, <3>1
    <3> QED BY <2>2, <3>1, <3>2 DEF RaiseFloor
  <2> QED BY <2>1, <2>2
<1>3. CASE ~global
  <2>1. UNCHANGED <<globalRetryAt, gate, timers, toldAll, now, nativeWait,
                    creationFailure>>
    BY <1>3
  <2> QED BY <1>0, <1>1, <1>2, <2>1 DEF WaitPart, WaitsTyped, WaitsRemembered
<1>4. CASE global
  <2> DEFINE r == Later(globalRetryAt, until)
  <2>1. /\ globalRetryAt' = r /\ gate' = FALSE /\ timers' = {r}
        /\ toldAll'.known = Later(toldAll.known, now + d)
        /\ toldAll'.any = Later(toldAll.any, now + d)
        /\ toldAll' \in [known: {Later(toldAll.known, now + d)},
                         any: {Later(toldAll.any, now + d)}]
    BY <1>4 DEF ShutsGate
  <2>2. /\ globalRetryAt \in Nat /\ until \in Nat /\ now + d \in Nat
        /\ toldAll.known \in Nat /\ toldAll.any \in Nat
        /\ toldAll.known \in Times /\ toldAll.any \in Times \cup {Never}
    BY <1>0, Ranges DEF WaitsTyped
  <2>3. r \in Times /\ r >= globalRetryAt /\ r >= now + d /\ r \in Nat
    <3>1. globalRetryAt \in Times /\ until \in Times /\ until >= now + d
      BY <1>0 DEF WaitsTyped
    <3> QED BY <2>2, <3>1 DEF Later
  <2>4. /\ Later(toldAll.known, now + d) \in Times
        /\ Later(toldAll.any, now + d) \in Times \cup {Never}
    BY <1>0, <2>2, LaterFacts
  <2>5. r >= Later(toldAll.known, now + d)
    <3>1. toldAll.known > now => globalRetryAt >= toldAll.known
      BY <1>0 DEF WaitsRemembered
    <3> HIDE DEF r
    <3> QED BY <1>0, <2>2, <2>3, <3>1 DEF Later
  <2>6. creationFailure \/ r >= Later(toldAll.any, now + d)
    <3>1. toldAll.any > now => creationFailure \/ globalRetryAt >= toldAll.any
      BY <1>0 DEF WaitsRemembered
    <3> HIDE DEF r
    <3> QED BY <1>0, <2>2, <2>3, <3>1 DEF Later
  <2>7. WaitsTyped'
    BY <1>0, <1>1, <2>1, <2>3, <2>4 DEF WaitsTyped
  <2>8. WaitsRemembered'
    BY <1>2, <2>1, <2>5, <2>6 DEF WaitsRemembered
  <2> QED BY <2>7, <2>8 DEF WaitPart
<1> QED BY <1>3, <1>4

LEMMA DeniedStep ==
  ASSUME IInv, NEW k \in Calls, Denied(k)
  PROVE  IInv'
<1> DEFINE o == call[k].op
<1>0. Parts /\ o \in Ops /\ ~Free(k) /\ call[k].pc = "out"
  BY InvParts, Holder DEF Denied
<1> PICK d \in Delays, global \in BOOLEAN, h \in Names :
      LET until == Later(expires[o], now + d) IN
       /\ now + d <= MaxTime
       /\ ~Collides(o, h)
       /\ BucketIs(o, 0, until)
       /\ RaiseFloor(o, until)
       /\ IF global THEN ShutsGate(k, until)
          ELSE UNCHANGED <<globalRetryAt, gate, timers>>
       /\ Named(o, h)
       /\ told' = [told EXCEPT ![o] = now + d]
       /\ toldAll' = IF ~global THEN toldAll
            ELSE [known |-> Later(toldAll.known, now + d),
                  any |-> Later(toldAll.any, now + d)]
  BY Zenon DEF Denied
<1> DEFINE until == Later(expires[o], now + d)
<1>1. until \in Times /\ until >= now + d /\ until > 0
  <2>1. now \in Nat /\ d \in Nat /\ d > 0 /\ now + d <= MaxTime
    BY <1>0, Ranges DEF Parts, WaitPart, WaitsTyped
  <2>2. expires[o] \in Times /\ expires[o] \in Nat
    BY <1>0, Ranges DEF Parts, BucketPart, BucketsTyped
  <2> QED BY <2>1, <2>2, Ranges DEF Later
<1>2. CallPart' /\ call' = [call EXCEPT ![k] = Idle]
  BY <1>0, CallEnds, CertainResult DEF Denied, Parts, Outcomes
<1>3. LatchSeen'
  BY <1>0, <1>2, LatchCloses DEF Parts, Idle
<1>4. WaitPart'
  <2>1. UNCHANGED <<now, nativeWait, creationFailure>>
    BY DEF Denied
  <2> QED BY <1>0, <1>1, <2>1, DenialRemembered
<1>5. NamesTyped' /\ QueueTyped'
  BY <1>0, NamesStay DEF Parts, QueueTyped, Denied
<1>6. BucketPart'
  <2>1. Idle.pc # "out"
    BY DEF Idle
  <2>2. outside' = outside /\ BucketIs(o, 0, until)
    BY DEF Denied
  <2>3. 0 \in 0..Limit /\ 0 + outside[o] <= Limit /\ until # 0
    BY <1>0, <1>1, Ranges DEF Parts, BucketPart, BucketsTyped
  <2> QED BY <1>0, <1>1, <1>2, <2>1, <2>2, <2>3, TokenReturned DEF Parts
<1> QED BY <1>2, <1>3, <1>4, <1>5, <1>6, InvParts DEF Parts

\* A denial that is not accounted for leaves the memories as they are, and the
\* latch, if it was for everything.
LEMMA DenialLatched ==
  ASSUME WaitPart, NEW any \in Times \cup {Never},
         toldAll' = [toldAll EXCEPT !.any = any], creationFailure' \in BOOLEAN,
         creationFailure => creationFailure',
         creationFailure' \/ any = toldAll.any,
         UNCHANGED <<now, gate, nativeWait, floor, globalRetryAt, timers, told>>
  PROVE  WaitPart'
<1>1. WaitsTyped'
  BY DEF WaitPart, WaitsTyped
<1>2. WaitsRemembered'
  BY DEF WaitPart, WaitsTyped, WaitsRemembered
<1> QED BY <1>1, <1>2 DEF WaitPart

LEMMA DoubtHonest ==
  ASSUME NEW k \in Calls
  PROVE  As(Doubt(k)) \in Results /\ Honest(As(Doubt(k))) /\ ~As(Doubt(k)).made
BY CertainResult DEF Doubt, Outcomes

LEMMA DenialCollidesStep ==
  ASSUME IInv, NEW k \in Calls, DenialCollides(k)
  PROVE  IInv'
<1> DEFINE o == call[k].op
<1>0. Parts /\ o \in Ops /\ ~Free(k) /\ call[k].pc = "out"
  BY InvParts, Holder DEF DenialCollides
<1> PICK d \in Delays, global \in BOOLEAN :
      /\ now + d <= MaxTime
      /\ creationFailure' = (creationFailure \/ global)
      /\ toldAll' = IF global
           THEN [toldAll EXCEPT !.any = Later(@, now + d)] ELSE toldAll
  BY DEF DenialCollides
<1>1. WaitPart'
  <2>1. now + d \in Times /\ now + d \in Nat
    BY <1>0, Ranges DEF Parts, WaitPart, WaitsTyped
  <2>2. /\ toldAll \in [known: Times, any: Times \cup {Never}]
        /\ toldAll.any \in Nat /\ creationFailure \in BOOLEAN
    BY <1>0, Ranges DEF Parts, WaitPart, WaitsTyped
  <2>3. UNCHANGED <<now, gate, nativeWait, floor, globalRetryAt, timers, told>>
    BY DEF DenialCollides
  <2>4. CASE global
    <3>1. Later(toldAll.any, now + d) \in Times \cup {Never}
      BY <2>1, <2>2, LaterFacts
    <3> QED BY <1>0, <2>2, <2>3, <2>4, <3>1, DenialLatched DEF Parts
  <2>5. CASE ~global
    <3>1. toldAll' = toldAll /\ creationFailure' = creationFailure
      BY <2>2, <2>5
    <3>2. gate' \in BOOLEAN /\ nativeWait' \in BOOLEAN
      BY <1>0, <2>3 DEF Parts, WaitPart, WaitsTyped
    <3> QED BY <1>0, <2>3, <3>1, <3>2, WaitsStay DEF Parts
  <2> QED BY <2>4, <2>5
<1>2. Exits(k, remaining[o], expires[o], As(Doubt(k)))
      /\ UNCHANGED <<queue, outside, owner>>
  BY DEF DenialCollides
<1>3. NamesTyped'
  BY <1>0, <1>2 DEF Parts, NamesTyped
<1> QED BY <1>0, <1>1, <1>2, <1>3, RequestOut, DoubtHonest, ExitStep

LEMMA DeniedBadlyStep ==
  ASSUME IInv, NEW k \in Calls, DeniedBadly(k)
  PROVE  IInv'
<1> DEFINE o == call[k].op
<1>0. Parts /\ o \in Ops /\ ~Free(k) /\ call[k].pc = "out"
  BY InvParts, Holder DEF DeniedBadly
<1> PICK h \in Names :
      /\ IF Collides(o, h) THEN UNCHANGED owner ELSE Named(o, h)
      /\ Exits(k, remaining[o], expires[o], As(Outcome(k, "refused", h)))
  BY DEF DeniedBadly
<1>1. WaitPart'
  BY <1>0, DenialLatched DEF DeniedBadly, Parts
<1>2. NamesTyped'
  BY <1>0, NamesStay DEF Parts
<1>3. LET how == As(Outcome(k, "refused", h)) IN
        how \in Results /\ Honest(how) /\ ~how.made
  <2>1. Outcome(k, "refused", h) \in Outcomes
    BY DEF Outcome, Doubt, Outcomes
  <2> QED BY <2>1, CertainResult
<1>4. UNCHANGED <<queue, outside>>
  BY DEF DeniedBadly
<1> QED BY <1>0, <1>1, <1>2, <1>3, <1>4, RequestOut, ExitStep

-----------------------------------------------------------------------------
(* Deadlines and cancellation.                                             *)

LEMMA InterruptedStep ==
  ASSUME IInv, NEW k \in Calls, NEW outcome \in {Doubt(k), "cancelled"},
         Interrupted(k, outcome)
  PROVE  IInv'
<1> DEFINE o == call[k].op
<1>0. Parts /\ o \in Ops
  BY InvParts DEF Parts, CallPart, CallsTyped, CallType
<1> PICK made \in TornMakes(k) : Ends(k, [As(outcome) EXCEPT !.made = made])
  BY DEF Interrupted
<1> DEFINE how == [As(outcome) EXCEPT !.made = made]
<1>1. how \in Results /\ Honest(how)
  <2>1. made \in BOOLEAN /\ (o # "create" => ~made)
    BY <1>0 DEF TornMakes, Parts, CallPart, CallsTyped, CallType, Results,
                CallsTrue, CallTrue
  <2>2. outcome = "failed" => o # "create"
    BY DEF Doubt
  <2>3. outcome \in {"uncertain", "failed", "cancelled"}
    BY DEF Doubt
  <2> QED BY <2>1, <2>2, <2>3 DEF As, Results, Outcomes, Honest
<1>2. CallPart' /\ call' = [call EXCEPT ![k] = Idle]
  BY <1>0, <1>1, CallEnds DEF Parts
<1>3. Idle.pc = "idle"
  BY DEF Idle
<1>4. LatchSeen'
  BY <1>0, <1>2, <1>3, LatchStays DEF Parts, Interrupted, port
<1>5. QueueTyped'
  <2>1. CASE queue' = queue
    BY <1>0, <2>1 DEF Parts, QueueTyped
  <2>2. CASE \E i \in 1..Len(queue) :
               queue' = SubSeq(queue, 1, i - 1)
                        \o SubSeq(queue, i + 1, Len(queue))
    BY <1>0, <2>2 DEF Parts, QueueTyped
  <2> QED BY <2>1, <2>2 DEF Interrupted, LeavesQueue
<1>6. WaitPart' /\ NamesTyped'
  BY <1>0, WaitsStay
     DEF Parts, WaitPart, WaitsTyped, NamesTyped, Interrupted, port, history
<1>7. BucketPart'
  <2>1. outside' = outside /\ Torn(k)
    BY DEF Interrupted
  <2>2. CASE call[k].pc # "out"
    <3>1. UNCHANGED <<remaining, expires>>
      BY <2>1, <2>2 DEF Torn
    <3> QED BY <1>0, <1>2, <1>3, <2>1, <2>2, <3>1, BucketsStay DEF Parts
  <2>3. CASE call[k].pc = "out"
    <3>1. /\ outside[o] \in Nat /\ outside[o] < Limit
          /\ remaining[o] \in 0..Limit /\ remaining[o] + outside[o] <= Limit
          /\ expires[o] \in Times
      BY <2>3, RequestOut
    <3>2. PICK r \in 0..Limit, e \in Times :
            /\ BucketIs(o, r, e)
            /\ r + outside[o] <= Limit
            /\ r > 0 \/ e # 0
      <4>1. CASE BucketIs(o, Limit - outside[o], 0)
        <5>1. /\ Limit - outside[o] \in 0..Limit /\ 0 \in Times
              /\ Limit - outside[o] + outside[o] <= Limit
              /\ Limit - outside[o] > 0
          BY <3>1, Ranges
        <5> QED BY <4>1, <5>1
      <4>2. CASE /\ remaining[o] > outside[o] \/ expires[o] # 0
                 /\ UNCHANGED <<remaining, expires>>
        <5>1. BucketIs(o, remaining[o], expires[o])
          BY <1>0, <4>2 DEF BucketIs, Parts, BucketPart, BucketsTyped
        <5> QED BY <3>1, <4>2, <5>1
      <4> QED BY <2>1, <2>3, <3>1, <4>1, <4>2 DEF Torn
    <3> QED BY <1>0, <1>2, <1>3, <2>1, <2>3, <3>2, Holder, TokenReturned
            DEF Parts
  <2> QED BY <2>2, <2>3
<1> QED BY <1>2, <1>4, <1>5, <1>6, <1>7, InvParts DEF Parts

-----------------------------------------------------------------------------
(* The gateway, the timers and the clock.                                  *)

\* What a step of the gateway leaves of a bucket.
LEMMA OutsideStep ==
  ASSUME IInv, NEW o \in Ops, NEW n \in 0..Limit,
         NEW r \in 0..Limit, NEW e \in Times,
         outside' = [outside EXCEPT ![o] = n], BucketIs(o, r, e),
         r + (Outgoing(o) - outside[o] + n) <= Limit,
         r = 0 /\ e = 0 => Outgoing(o) - outside[o] + n > 0,
         UNCHANGED <<now, queue, call, port, history>>, Quiet,
         gate' \in BOOLEAN, nativeWait' \in BOOLEAN
  PROVE  IInv'
<1>0. Parts /\ outside[o] \in Nat
  BY InvParts, Ranges DEF Parts, BucketPart, BucketsTyped
<1>1. CallPart' /\ LatchSeen'
  BY <1>0, CallsStay DEF Parts, LatchSeen, port
<1>2. WaitPart' /\ NamesTyped' /\ QueueTyped'
  BY <1>0, WaitsStay DEF Parts, port, history, NamesTyped, QueueTyped
<1>3. BucketsTyped'
  BY <1>0 DEF Parts, BucketPart, BucketsTyped, BucketIs
<1>4. TokensCount'
  <2>1. /\ remaining'[o] = r /\ expires'[o] = e /\ outside'[o] = n
        /\ \A b \in Ops \ {o} : /\ remaining'[b] = remaining[b]
                               /\ expires'[b] = expires[b]
                               /\ outside'[b] = outside[b]
    BY <1>0 DEF Parts, BucketPart, BucketsTyped, BucketIs
  <2>2. \A b \in Ops \ {o} : Outgoing(b)' = Outgoing(b)
    BY <2>1 DEF Outgoing
  <2>3. Outgoing(o)' = Outgoing(o) - outside[o] + n
    BY <1>0, <2>1, Ranges DEF Outgoing
  <2> QED BY <1>0, <2>1, <2>2, <2>3 DEF Parts, BucketPart, TokensCount
<1> QED BY <1>1, <1>2, <1>3, <1>4, InvParts DEF Parts, BucketPart

\* Of a bucket and the gateway's part in it.
LEMMA BucketFacts ==
  ASSUME IInv, NEW o \in Ops
  PROVE  /\ outside[o] \in Nat /\ Outgoing(o) \in Nat
         /\ Outgoing(o) >= outside[o]
         /\ remaining[o] \in 0..Limit /\ expires[o] \in Times
         /\ remaining[o] + Outgoing(o) <= Limit
         /\ remaining[o] = 0 /\ expires[o] = 0 => Outgoing(o) > 0
<1>1. Parts
  BY InvParts
<1>2. /\ outside[o] \in Nat /\ remaining[o] \in 0..Limit /\ expires[o] \in Times
      /\ remaining[o] + Outgoing(o) <= Limit
      /\ remaining[o] = 0 /\ expires[o] = 0 => Outgoing(o) > 0
  BY <1>1, Ranges DEF Parts, BucketPart, BucketsTyped, TokensCount
<1>3. Outgoing(o) \in Nat /\ Outgoing(o) >= outside[o]
  BY <1>1, <1>2, OutgoingNat DEF Parts
<1> QED BY <1>2, <1>3

\* With t tokens left, g requests out, and u of them the gateway's: one more.
LEMMA OneMore ==
  ASSUME NEW L \in Nat, NEW t \in Nat, NEW g \in Nat, NEW u \in Nat,
         t > 0, t + g <= L, g >= u
  PROVE  /\ u + 1 \in 0..L /\ t - 1 \in 0..L
         /\ t - 1 + (g - u + (u + 1)) <= L
         /\ g - u + (u + 1) > 0
OBVIOUS

\* The same when one of the gateway's requests ends: it leaves g - 1.
LEMMA OneLess ==
  ASSUME NEW L \in Nat, NEW g \in Nat, NEW u \in Nat, g <= L, g >= u, u > 0
  PROVE  /\ u - 1 \in 0..L /\ g - 1 \in Nat
         /\ g - u + (u - 1) = g - 1
         /\ L - (g - 1) \in 0..L /\ L - (g - 1) # 0 /\ L - (g - 1) > 0
         /\ L - (g - 1) + (g - 1) <= L
OBVIOUS

LEMMA OutsideSendsStep ==
  ASSUME IInv, NEW o \in Ops, OutsideSends(o)
  PROVE  IInv'
<1> DEFINE e == IF Expired(o) THEN 0 ELSE expires[o]
<1>1. Tokens(o) \in Nat /\ Tokens(o) > 0 /\ Tokens(o) + Outgoing(o) <= Limit
  BY InvParts, TokensLeft DEF Parts, OutsideSends, TakeToken
<1>2. /\ outside[o] + 1 \in 0..Limit /\ Tokens(o) - 1 \in 0..Limit
      /\ Tokens(o) - 1 + (Outgoing(o) - outside[o] + (outside[o] + 1)) <= Limit
      /\ Outgoing(o) - outside[o] + (outside[o] + 1) > 0
  <2>1. outside[o] \in Nat /\ Outgoing(o) \in Nat /\ Outgoing(o) >= outside[o]
    BY BucketFacts
  <2> QED BY <1>1, <2>1, OneMore, Ranges
<1>3. e \in Times
  BY BucketFacts, Ranges
<1>4. BucketIs(o, Tokens(o) - 1, e)
  BY DEF OutsideSends, TakeToken, BucketIs
<1>5. outside' = [outside EXCEPT ![o] = outside[o] + 1]
  BY DEF OutsideSends
<1>6. gate' \in BOOLEAN /\ nativeWait' \in BOOLEAN
  BY DEF OutsideSends, IInv, TypeOK
<1> QED BY <1>2, <1>3, <1>4, <1>5, <1>6, OutsideStep DEF OutsideSends

LEMMA OutsideEndsStep ==
  ASSUME IInv, NEW o \in Ops, OutsideEnds(o)
  PROVE  IInv'
<1> DEFINE mine == Outgoing(o) - 1
           n == outside[o] - 1
<1>1. /\ outside[o] > 0
      /\ outside' = [outside EXCEPT ![o] = n]
      /\ \/ \E rem \in Windows(mine), d \in Delays :
              now + d <= MaxTime /\ BucketIs(o, rem, now + d)
         \/ remaining[o] <= mine /\ BucketIs(o, Limit - mine, 0)
         \/ /\ remaining[o] > mine \/ expires[o] # 0
            /\ UNCHANGED <<remaining, expires>>
  BY DEF OutsideEnds
<1>2. n \in 0..Limit /\ Outgoing(o) - outside[o] + n = mine /\ mine \in Nat
  <2>1. /\ outside[o] \in Nat /\ Outgoing(o) \in Nat
        /\ Outgoing(o) >= outside[o] /\ Outgoing(o) <= Limit
    BY BucketFacts, Ranges
  <2> QED BY <1>1, <2>1, OneLess, Ranges
<1>3. PICK r \in 0..Limit, e \in Times :
        /\ BucketIs(o, r, e)
        /\ r + mine <= Limit
        /\ r = 0 /\ e = 0 => mine > 0
  <2>1. CASE \E rem \in Windows(mine), d \in Delays :
               now + d <= MaxTime /\ BucketIs(o, rem, now + d)
    <3> PICK rem \in Windows(mine), d \in Delays :
               now + d <= MaxTime /\ BucketIs(o, rem, now + d)
      BY <2>1
    <3>1. rem \in 0..Limit /\ rem + mine <= Limit
      BY Ranges DEF Windows
    <3>2. now + d \in Times /\ now + d # 0
      BY Ranges DEF IInv, TypeOK
    <3> QED BY <3>1, <3>2
  <2>2. CASE BucketIs(o, Limit - mine, 0)
    <3>1. /\ Limit - mine \in 0..Limit /\ 0 \in Times
          /\ Limit - mine + mine <= Limit /\ Limit - mine > 0
      <4>1. /\ outside[o] \in Nat /\ Outgoing(o) \in Nat
            /\ Outgoing(o) >= outside[o] /\ Outgoing(o) <= Limit
        BY BucketFacts, Ranges
      <4> QED BY <1>1, <4>1, OneLess, Ranges
    <3> QED BY <2>2, <3>1
  <2>3. CASE /\ remaining[o] > mine \/ expires[o] # 0
             /\ UNCHANGED <<remaining, expires>>
    <3>1. BucketIs(o, remaining[o], expires[o])
      BY <2>3 DEF BucketIs, IInv, TypeOK
    <3>2. remaining[o] + mine <= Limit
      BY BucketFacts, Ranges
    <3> QED BY <1>2, <2>3, <3>1, <3>2, BucketFacts, Ranges
  <2> QED BY <1>1, <2>1, <2>2, <2>3
<1>4. gate' \in BOOLEAN /\ nativeWait' \in BOOLEAN
  BY DEF OutsideEnds, IInv, TypeOK
<1> QED BY <1>1, <1>2, <1>3, <1>4, OutsideStep DEF OutsideEnds

LEMMA OutsideRefreshesStep ==
  ASSUME IInv, NEW o \in Ops, OutsideRefreshes(o)
  PROVE  IInv'
<1> DEFINE r == Limit - Outgoing(o)
<1>1. /\ outside[o] \in 0..Limit /\ r \in 0..Limit /\ 0 \in Times
      /\ r + (Outgoing(o) - outside[o] + outside[o]) <= Limit
      /\ r = 0 => Outgoing(o) - outside[o] + outside[o] > 0
  BY BucketFacts, Ranges
<1>2. outside' = [outside EXCEPT ![o] = outside[o]]
  BY DEF OutsideRefreshes, IInv, TypeOK
<1>3. gate' \in BOOLEAN /\ nativeWait' \in BOOLEAN
  BY DEF OutsideRefreshes, IInv, TypeOK
<1> QED BY <1>1, <1>2, <1>3, OutsideStep DEF OutsideRefreshes

LEMMA OutsideDeniedStep ==
  ASSUME IInv, NEW o \in Ops, OutsideDenied(o)
  PROVE  IInv'
<1> DEFINE mine == Outgoing(o) - 1
           n == outside[o] - 1
<1>1. outside[o] > 0 /\ outside' = [outside EXCEPT ![o] = n]
  BY DEF OutsideDenied
<1>2. /\ n \in 0..Limit /\ Outgoing(o) - outside[o] + n = mine
      /\ Limit - mine \in 0..Limit /\ 0 \in Times
      /\ Limit - mine + mine <= Limit /\ Limit - mine # 0
  <2>1. /\ outside[o] \in Nat /\ Outgoing(o) \in Nat
        /\ Outgoing(o) >= outside[o] /\ Outgoing(o) <= Limit
    BY BucketFacts, Ranges
  <2> QED BY <1>1, <2>1, OneLess, Ranges
<1> QED BY <1>1, <1>2, OutsideStep DEF OutsideDenied

\* Neither calls nor buckets take part in what opens the gate.
LEMMA GateOpens ==
  ASSUME IInv, TimerFires \/ OutsideOpens
  PROVE  IInv'
<1>0. /\ Parts /\ Quiet /\ gate' \in BOOLEAN /\ timers' \subseteq timers
      /\ nativeWait' \in BOOLEAN
      /\ UNCHANGED <<now, queue, call, remaining, expires, outside, floor,
                     globalRetryAt, creationFailure, owner, told, toldAll>>
  BY InvParts
     DEF TimerFires, OutsideOpens, port, history, Parts, WaitPart, WaitsTyped
<1>1. CallPart' /\ LatchSeen'
  BY <1>0, CallsStay DEF Parts, LatchSeen
<1>2. WaitPart' /\ NamesTyped' /\ QueueTyped'
  BY <1>0, WaitsStay DEF Parts, NamesTyped, QueueTyped
<1>3. BucketPart'
  BY <1>0 DEF Parts, BucketPart, BucketsTyped, TokensCount, Outgoing
<1> QED BY <1>1, <1>2, <1>3, InvParts DEF Parts

LEMMA TickStep ==
  ASSUME IInv, Tick
  PROVE  IInv'
<1> DEFINE left(t) == IF t > now + 1 THEN t ELSE 0
<1>0. Parts /\ Quiet
  BY InvParts DEF Tick
<1>1. /\ now < MaxTime /\ now' = now + 1
      /\ floor' = [o \in Ops |-> left(floor[o])]
      /\ globalRetryAt' = left(globalRetryAt)
      /\ told' = [o \in Ops |-> left(told[o])]
      /\ toldAll' = [known |-> left(toldAll.known), any |-> left(toldAll.any)]
      /\ UNCHANGED <<queue, call, remaining, expires, outside, gate, nativeWait,
                     timers, creationFailure, owner>>
  BY DEF Tick, native
<1>2. WaitsTyped /\ WaitsRemembered /\ now \in Nat
      /\ \A t \in Times \cup {Never} : t \in Nat
  BY <1>0, Ranges DEF Parts, WaitPart, WaitsTyped
<1>3. \A t \in Times : left(t) \in Times
  BY Ranges
<1>4. WaitsTyped'
  <2>1. now' \in Times
    BY <1>1, <1>2, Ranges DEF WaitsTyped
  <2>2. left(toldAll.any) \in Times \cup {Never}
    BY <1>2, Ranges DEF WaitsTyped
  <2> QED BY <1>1, <1>2, <1>3, <2>1, <2>2 DEF WaitsTyped
<1>5. WaitsRemembered'
  <2>1. \A t, u \in Nat : left(t) > now + 1 /\ (t > now => u >= t)
                            => left(u) >= left(t)
    BY <1>2
  <2>2. \A o \in Ops : told'[o] > now' => floor'[o] >= told'[o]
    BY <1>1, <1>2, <2>1 DEF WaitsTyped, WaitsRemembered
  <2>3. toldAll'.known > now' => globalRetryAt' >= toldAll'.known
    BY <1>1, <1>2, <2>1 DEF WaitsTyped, WaitsRemembered
  <2>4. toldAll'.any > now' => creationFailure' \/ globalRetryAt' >= toldAll'.any
    BY <1>1, <1>2, <2>1 DEF WaitsTyped, WaitsRemembered
  <2>5. \A t \in timers' : t >= toldAll'.known
    BY <1>1, <1>2 DEF WaitsTyped, WaitsRemembered
  <2> QED BY <2>2, <2>3, <2>4, <2>5 DEF WaitsRemembered
<1>6. CallPart' /\ LatchSeen'
  BY <1>0, <1>1, CallsStay DEF Parts, LatchSeen
<1>7. NamesTyped' /\ QueueTyped' /\ BucketPart'
  BY <1>0, <1>1
     DEF Parts, NamesTyped, QueueTyped, BucketPart, BucketsTyped, TokensCount,
         Outgoing
<1> QED BY <1>4, <1>5, <1>6, <1>7, InvParts DEF Parts, WaitPart

-----------------------------------------------------------------------------
(* The invariant holds at the start and in every step.                     *)

LEMMA Initially == Init => IInv
<1> SUFFICES ASSUME Init PROVE IInv
  OBVIOUS
<1>1. CallsTyped /\ CallPart
  BY IdleTyped, CertainResult
     DEF Init, CallPart, CallsTyped, CertainMeansNoThread, LockHeldOnce, Free,
         CallsTrue, Honest, Outcomes, Idle
<1>2. BucketPart
  <2>1. BucketsTyped
    BY Ranges DEF Init, BucketsTyped
  <2>2. \A o \in Ops : Outgoing(o) = 0
    BY DEF Init, Idle, Outgoing
  <2> QED BY <2>1, <2>2, Ranges DEF Init, BucketPart, TokensCount
<1>3. WaitPart
  <2>1. 0 \in Times /\ 0 \in Nat
    BY Ranges
  <2>2. WaitsTyped
    BY <2>1 DEF Init, WaitsTyped
  <2>3. WaitsRemembered
    BY DEF Init, WaitsRemembered
  <2> QED BY <2>2, <2>3 DEF WaitPart
<1>4. LatchSeen /\ NamesTyped /\ QueueTyped
  BY DEF Init, LatchSeen, NamesTyped, QueueTyped
<1> QED BY <1>1, <1>2, <1>3, <1>4, InvParts DEF Parts

LEMMA CallStep ==
  ASSUME IInv, NEW k \in Calls, CallNext(k)
  PROVE  IInv'
<1>1. CASE Begin(k)           BY <1>1, BeginStep
<1>2. CASE Starts(k)          BY <1>2, StartsStep
<1>3. CASE SlotEnds(k)        BY <1>3, SlotEndsStep
<1>4. CASE Refused(k)         BY <1>4, RefusedStep
<1>5. CASE Sends(k)           BY <1>5, SendsStep
<1>6. CASE AwaitsToken(k)     BY <1>6, AwaitsTokenStep
<1>7. CASE GetsToken(k)       BY <1>7, GetsTokenStep
<1>8. CASE Unauthorized(k)    BY <1>8, UnauthorizedStep
<1>9. CASE ExitEnds(k)        BY <1>9, ExitEndsStep
<1>10. CASE Answered(k)       BY <1>10, AnsweredStep
<1>11. CASE Denied(k)         BY <1>11, DeniedStep
<1>12. CASE DenialCollides(k) BY <1>12, DenialCollidesStep
<1>13. CASE DeniedBadly(k)    BY <1>13, DeniedBadlyStep
<1>14. CASE TimesOut(k)       BY <1>14, InterruptedStep DEF TimesOut
<1>15. CASE Cancelled(k)      BY <1>15, InterruptedStep DEF Cancelled
<1> QED BY <1>1, <1>2, <1>3, <1>4, <1>5, <1>6, <1>7, <1>8, <1>9, <1>10, <1>11,
           <1>12, <1>13, <1>14, <1>15 DEF CallNext

LEMMA StepKeepsInv == IInv /\ [Next]_vars => IInv'
<1> SUFFICES ASSUME IInv, [Next]_vars PROVE IInv'
  OBVIOUS
<1>1. CASE \E k \in Calls : CallNext(k)
  BY <1>1, CallStep
<1>2. CASE OutsideNext
  BY <1>2, OutsideSendsStep, OutsideEndsStep, OutsideRefreshesStep,
     OutsideDeniedStep, GateOpens DEF OutsideNext
<1>3. CASE TimerFires
  BY <1>3, GateOpens
<1>4. CASE Tick
  BY <1>4, TickStep
<1>5. CASE UNCHANGED vars
  BY <1>5 DEF vars, native, port, history, IInv, TypeOK, CertainMeansNoThread,
     LockHeldOnce, Free, CallsTrue, LatchSeen, WaitsRemembered, TokensCount,
     Outgoing
<1> QED BY <1>1, <1>2, <1>3, <1>4, <1>5 DEF Next

\* The invariant holds in every reachable state.
THEOREM Invariance == Spec => []IInv
<1>1. Init => IInv
  BY Initially
<1>2. IInv /\ [Next]_vars => IInv'
  BY StepKeepsInv
<1> QED BY <1>1, <1>2, PTL DEF Spec

-----------------------------------------------------------------------------
(* The results.                                                            *)

\* Calls, buckets, memories and names are always what the code takes them for.
THEOREM TypeCorrect == Spec => []TypeOK
<1>1. IInv => TypeOK
  BY DEF IInv
<1> QED BY <1>1, Invariance, PTL

\* A creation that the port reports as refused, denied or failed was not
\* carried out: what the service may try again, or call certain, made no thread.
THEOREM CertainIsCertain == Spec => []CertainMeansNoThread
<1>1. IInv => CertainMeansNoThread
  BY DEF IInv
<1> QED BY <1>1, Invariance, PTL

\* No refusal, error, timeout or cancellation loses the last token of a bucket.
THEOREM TokensComeBack == Spec => []NoTokenLost
<1>1. IInv => NoTokenLost
  BY DEF IInv, TokensCount, NoTokenLost
<1> QED BY <1>1, Invariance, PTL

\* Only a step of the call itself, outside every wait the port knows of, sends.
LEMMA StartingIsSending ==
  ASSUME IInv, [Next]_vars, NEW k \in Calls, Starting(k)
  PROVE  /\ call[k].pc \in {"next", "token"}
         /\ call'[k].op = call[k].op
         /\ ~KnownWait(call[k].op)
<1>0. /\ CallsTyped
      /\ Idle.pc # "out"
      /\ call'[k] # call[k] /\ call'[k].pc = "out"
  BY Types DEF IInv, Starting, Idle
<1> DEFINE Sending(j) ==
      /\ call[j].pc \in {"next", "token"}
      /\ ~KnownWait(call[j].op)
      /\ Goes(j, "out")
<1>1. ASSUME NEW j \in Calls, NEW c, call' = [call EXCEPT ![j] = c]
      PROVE  j = k /\ c.pc = "out"
  BY <1>0, <1>1 DEF CallsTyped
<1>2. ASSUME NEW j \in Calls, NEW pc, Goes(j, pc)
      PROVE  j = k /\ pc = "out"
  BY <1>0, <1>2 DEF CallsTyped, CallType, Goes
<1>3. ASSUME NEW j \in Calls, NEW how, Ends(j, how)
      PROVE  FALSE
  BY <1>0, <1>1, <1>3 DEF Ends
<1>4. ASSUME NEW j \in Calls, NEW how, Finishes(j, how)
      PROVE  FALSE
  BY <1>0, <1>3, <1>4 DEF Finishes, CallsTyped, CallType
<1>5. ASSUME NEW j \in Calls, NEW rem, NEW exp, NEW how, Exits(j, rem, exp, how)
      PROVE  FALSE
  BY <1>0, <1>4, <1>5 DEF Exits, CallsTyped, CallType
<1>6. ASSUME NEW j \in Calls, CallNext(j)
      PROVE  Sending(j)
  <2>1. CASE Begin(j)
    <3> PICK kind \in Wanted :
          call' = [call EXCEPT ![j] =
            [Idle EXCEPT !.kind = kind, !.pc = "queued",
                         !.op = IF kind = "create" THEN "create" ELSE "card",
                         !.deadline = IF kind = "slot" THEN 0
                                      ELSE now + Timeout]]
      BY <2>1 DEF Begin
    <3> DEFINE c == [Idle EXCEPT !.kind = kind, !.pc = "queued",
                       !.op = IF kind = "create" THEN "create" ELSE "card",
                       !.deadline = IF kind = "slot" THEN 0 ELSE now + Timeout]
    <3>1. c.pc = "queued" /\ call' = [call EXCEPT ![j] = c]
      BY DEF Idle
    <3> QED BY <1>1, <3>1
  <2>2. CASE Starts(j)
    BY <1>0, <1>3, <2>2 DEF Starts, CallsTyped, CallType
  <2>3. CASE SlotEnds(j)
    BY <1>0, <1>1, <2>3 DEF SlotEnds
  <2>4. CASE Refused(j)
    BY <1>3, <2>4 DEF Refused
  <2>5. CASE Sends(j)
    BY <2>5 DEF Sends
  <2>6. CASE AwaitsToken(j)
    BY <1>2, <2>6 DEF AwaitsToken
  <2>7. CASE GetsToken(j)
    BY <1>3, <2>7 DEF GetsToken
  <2>8. CASE Unauthorized(j)
    BY <1>3, <1>5, <2>8 DEF Unauthorized
  <2>9. CASE ExitEnds(j)
    BY <1>4, <2>9 DEF ExitEnds
  <2>10. CASE Answered(j)
    BY <1>5, <2>10 DEF Answered
  <2>11. CASE Denied(j)
    BY <1>3, <2>11 DEF Denied
  <2>12. CASE DenialCollides(j)
    BY <1>5, <2>12 DEF DenialCollides
  <2>13. CASE DeniedBadly(j)
    BY <1>5, <2>13 DEF DeniedBadly
  <2>14. CASE TimesOut(j) \/ Cancelled(j)
    BY <1>3, <2>14 DEF TimesOut, Cancelled, Interrupted
  <2> QED BY <1>6, <2>1, <2>2, <2>3, <2>4, <2>5, <2>6, <2>7, <2>8, <2>9, <2>10,
             <2>11, <2>12, <2>13, <2>14 DEF CallNext
<1>7. PICK j \in Calls : CallNext(j)
  BY <1>0
     DEF Next, OutsideNext, OutsideSends, OutsideEnds, OutsideRefreshes,
         OutsideDenied, OutsideOpens, TimerFires, Tick, vars
<1>8. j = k /\ Sending(k)
  BY <1>2, <1>6, <1>7
<1> QED BY <1>0, <1>8 DEF Goes, CallsTyped, CallType

\* However long a call waited for the lock or a token, and whatever the native
\* client did to its windows: no request starts inside a wait that a valid 429
\* announced to this port, for its bucket or for all.
THEOREM WaitsAreKept == Spec => NoRequestInKnownWait
<1>1. IInv /\ [Next]_vars =>
        [\A k \in Calls : Starting(k) =>
            /\ now >= told[call'[k].op]
            /\ now >= toldAll.known]_vars
  <2> SUFFICES ASSUME IInv, [Next]_vars, NEW k \in Calls, Starting(k)
               PROVE  now >= told[call'[k].op] /\ now >= toldAll.known
    OBVIOUS
  <2>1. /\ call'[k].op = call[k].op /\ call[k].op \in Ops
        /\ ~KnownWait(call[k].op)
    BY StartingIsSending, Holder
  <2>2. WaitsTyped /\ WaitsRemembered
    BY Types DEF IInv
  <2> DEFINE o == call[k].op
  <2>3. /\ now \in Nat /\ floor[o] \in Nat /\ told[o] \in Nat
        /\ globalRetryAt \in Nat /\ toldAll.known \in Nat
    BY <2>1, <2>2, Ranges DEF WaitsTyped
  <2>4. ~(now < globalRetryAt) /\ ~(now < floor[o])
    BY <2>1 DEF KnownWait, GlobalWait
  <2>5. /\ told[o] > now => floor[o] >= told[o]
        /\ toldAll.known > now => globalRetryAt >= toldAll.known
    BY <2>1, <2>2 DEF WaitsRemembered
  <2>6. now >= told[o] /\ now >= toldAll.known
    BY <2>3, <2>4, <2>5
  <2> QED BY <2>1, <2>6
<1> QED BY <1>1, Invariance, PTL DEF Spec, NoRequestInKnownWait

\* A global limit that could not be accounted for keeps every later creation
\* from being sent, also one that was waiting for the lock when it came.
THEOREM CreationsAreStopped == Spec => NoCreationInGlobalWait
<1>1. IInv /\ [Next]_vars =>
        [\A k \in Calls : Starting(k) /\ call'[k].op = "create"
            => now >= toldAll.any]_vars
  <2> SUFFICES ASSUME IInv, [Next]_vars, NEW k \in Calls, Starting(k),
                      call'[k].op = "create"
               PROVE  now >= toldAll.any
    OBVIOUS
  <2>1. /\ call[k].op = "create" /\ call[k].pc \in {"next", "token"}
        /\ ~KnownWait(call[k].op)
    BY StartingIsSending
  <2>2. ~creationFailure
    BY <2>1 DEF IInv, LatchSeen
  <2>3. WaitsTyped /\ WaitsRemembered
    BY Types DEF IInv
  <2> QED BY <2>1, <2>2, <2>3, Ranges
          DEF WaitsTyped, WaitsRemembered, KnownWait, GlobalWait
<1> QED BY <1>1, Invariance, PTL DEF Spec, NoCreationInGlobalWait

\* The port's timer opens the gate of the whole client only when the last
\* global wait that the port was told of is over.
THEOREM GateStaysShut == Spec => GateNotOpenedEarly
<1>1. IInv /\ [Next]_vars =>
        [timers' # timers /\ gate' => now >= toldAll.known]_vars
  <2> SUFFICES ASSUME IInv, [Next]_vars, timers' # timers, gate'
               PROVE  now >= toldAll.known
    OBVIOUS
  <2>1. CASE TimerFires
    <3>1. PICK t \in timers : now >= t
      BY <2>1 DEF TimerFires
    <3>2. t >= toldAll.known /\ t \in Nat /\ toldAll.known \in Nat /\ now \in Nat
      BY <3>1, Ranges, Types DEF IInv, WaitsTyped, WaitsRemembered
    <3> QED BY <3>1, <3>2
  <2>2. CASE \E k \in Calls : Denied(k)
    BY <2>2 DEF Denied, ShutsGate
  <2>3. CASE ~TimerFires /\ ~\E k \in Calls : Denied(k)
    BY <2>3
       DEF Next, CallNext, Begin, Starts, SlotEnds, Refused, Sends, AwaitsToken,
           GetsToken, Unauthorized, ExitEnds, Answered, DenialCollides,
           DeniedBadly, TimesOut, Cancelled, Interrupted, OutsideNext,
           OutsideSends, OutsideEnds, OutsideRefreshes, OutsideDenied,
           OutsideOpens, Tick, port, vars
  <2> QED BY <2>1, <2>2, <2>3
<1> QED BY <1>1, Invariance, PTL DEF Spec, GateNotOpenedEarly

-----------------------------------------------------------------------------
(* Nobody waits for what cannot come.                                      *)

\* A shut gate has somebody who will open it, and the port's timer is the one
\* of the last wait: due, or due when the port itself would send again.
GateHasOpener ==
  /\ ~gate => nativeWait \/ timers # {}
  /\ \A t \in timers : t <= now \/ t = globalRetryAt

\* The queue holds the calls that wait for the lock, and each of them once:
\* the lock is never handed to a call that has gone away, and none that waits
\* has been dropped.
QueueTrue ==
  /\ \A k \in Calls :
       call[k].pc = "queued" <=> \E i \in 1..Len(queue) : queue[i] = k
  /\ \A i, j \in 1..Len(queue) : queue[i] = queue[j] => i = j

LEMMA OpenerStays ==
  ASSUME GateHasOpener, UNCHANGED <<gate, nativeWait, timers, now, globalRetryAt>>
  PROVE  GateHasOpener'
BY DEF GateHasOpener

LEMMA OpenerKept ==
  ASSUME IInv, GateHasOpener, [Next]_vars
  PROVE  GateHasOpener'
<1>0. WaitsTyped
  BY Types DEF IInv
<1>1. ASSUME NEW k \in Calls, Denied(k)
      PROVE  GateHasOpener'
  <2>1. now' = now /\ nativeWait' = nativeWait
    BY <1>1 DEF Denied
  <2>2. \/ UNCHANGED <<globalRetryAt, gate, timers>>
        \/ gate' = FALSE /\ timers' = {globalRetryAt'}
    BY <1>1 DEF Denied, ShutsGate
  <2> QED BY <2>1, <2>2 DEF GateHasOpener
<1>2. CASE TimerFires
  BY <1>2 DEF TimerFires, GateHasOpener
<1>3. CASE Tick
  <2>1. /\ now' = now + 1 /\ gate' = gate /\ nativeWait' = nativeWait
        /\ timers' = timers
        /\ globalRetryAt' = IF globalRetryAt > now + 1 THEN globalRetryAt ELSE 0
    BY <1>3 DEF Tick, native
  <2>2. \A t \in timers : t \in Nat
    BY <1>0, Ranges DEF WaitsTyped
  <2>3. now \in Nat /\ globalRetryAt \in Nat
    BY <1>0, Ranges DEF WaitsTyped
  <2>4. \A t \in timers : t <= now + 1 \/ t = globalRetryAt'
    BY <2>1, <2>2, <2>3 DEF GateHasOpener
  <2> QED BY <2>1, <2>4 DEF GateHasOpener
<1>4. CASE OutsideOpens
  BY <1>4 DEF OutsideOpens, port, GateHasOpener
<1>5. ASSUME NEW o \in Ops, OutsideDenied(o)
      PROVE  GateHasOpener'
  BY <1>5 DEF OutsideDenied, port, GateHasOpener
<1>6. ASSUME NEW o \in Ops,
             OutsideSends(o) \/ OutsideEnds(o) \/ OutsideRefreshes(o)
      PROVE  GateHasOpener'
  BY <1>6, OpenerStays
     DEF OutsideSends, OutsideEnds, OutsideRefreshes, port
<1>7. ASSUME NEW k \in Calls, CallNext(k), ~Denied(k)
      PROVE  GateHasOpener'
  <2>1. CASE Begin(k) \/ Starts(k) \/ SlotEnds(k) \/ Refused(k)
    <3>1. now' = now /\ native' = native /\ port' = port
      BY <2>1, ZenonT(30) DEF Begin, Starts, SlotEnds, Refused
    <3>2. gate' = gate /\ nativeWait' = nativeWait
      BY <3>1 DEF native
    <3>3. timers' = timers /\ globalRetryAt' = globalRetryAt
      BY <3>1 DEF port
    <3> QED BY <3>1, <3>2, <3>3, OpenerStays
  <2>2. CASE Sends(k) \/ AwaitsToken(k) \/ GetsToken(k)
    <3>1. UNCHANGED <<now, gate, nativeWait, port>>
      BY <2>2 DEF Sends, AwaitsToken, GetsToken
    <3> QED BY <3>1, OpenerStays DEF port
  <2>3. CASE \/ Unauthorized(k) \/ ExitEnds(k) \/ Answered(k)
             \/ DenialCollides(k) \/ DeniedBadly(k)
    BY <2>3, OpenerStays
       DEF Unauthorized, ExitEnds, Answered, DenialCollides, DeniedBadly, port
  <2>4. CASE TimesOut(k) \/ Cancelled(k)
    BY <2>4, OpenerStays DEF TimesOut, Cancelled, Interrupted, port
  <2> QED BY <1>7, <2>1, <2>2, <2>3, <2>4 DEF CallNext
<1>8. CASE UNCHANGED vars
  BY <1>8, OpenerStays DEF vars, native, port
<1> QED BY <1>1, <1>2, <1>3, <1>4, <1>5, <1>6, <1>7, <1>8
        DEF Next, OutsideNext

\* However the port's denials and those of the gateway overlap, and whoever of
\* them opens first, a gate that is shut is opened again: there is a timer
\* that is due or will be when the wait is over, or the native client's own.
THEOREM ShutGateIsOpened == Spec => []GateHasOpener
<1>1. Init => GateHasOpener
  BY DEF Init, GateHasOpener
<1>2. IInv /\ GateHasOpener /\ [Next]_vars => GateHasOpener'
  BY OpenerKept
<1> QED BY <1>1, <1>2, Invariance, PTL DEF Spec

\* A step that neither takes a call into the queue nor out of it.
LEMMA QueueStays ==
  ASSUME CallsTyped, QueueTyped, QueueTrue, queue' = queue, NEW k \in Calls,
         NEW c, call' = [call EXCEPT ![k] = c],
         c.pc = "queued" <=> call[k].pc = "queued"
  PROVE  QueueTrue'
BY DEF CallsTyped, QueueTyped, QueueTrue

LEMMA QueueJoined ==
  ASSUME CallsTyped, QueueTyped, QueueTrue, NEW k \in Calls,
         call[k].pc # "queued", queue' = Append(queue, k),
         NEW c, call' = [call EXCEPT ![k] = c], c.pc = "queued"
  PROVE  QueueTrue'
<1> DEFINE n == Len(queue)
<1>1. /\ n \in Nat /\ Len(queue') = n + 1 /\ queue'[n + 1] = k
      /\ \A i \in 1..n : queue'[i] = queue[i] /\ queue[i] # k
  BY DEF QueueTyped, QueueTrue
<1>2. 1..(n + 1) = 1..n \cup {n + 1}
  BY <1>1
<1>3. \A j \in Calls :
        (\E i \in 1..(n + 1) : queue'[i] = j)
        <=> (\E i \in 1..n : queue[i] = j) \/ j = k
  BY <1>1, <1>2
<1>4. \A j \in Calls : call'[j].pc = "queued" <=> call[j].pc = "queued" \/ j = k
  BY DEF CallsTyped
<1>5. \A i, j \in 1..(n + 1) : queue'[i] = queue'[j] => i = j
  BY <1>1, <1>2 DEF QueueTrue
<1> QED BY <1>1, <1>3, <1>4, <1>5 DEF QueueTrue

\* One place is taken out of the queue, and its call goes on or away.
LEMMA QueueLeft ==
  ASSUME CallsTyped, QueueTyped, QueueTrue, NEW k \in Calls,
         NEW p \in 1..Len(queue), queue[p] = k,
         Len(queue') = Len(queue) - 1,
         \A i \in 1..Len(queue') :
           queue'[i] = queue[IF i < p THEN i ELSE i + 1],
         NEW c, call' = [call EXCEPT ![k] = c], c.pc # "queued"
  PROVE  QueueTrue'
<1> DEFINE n == Len(queue)
           m == Len(queue')
           old(i) == IF i < p THEN i ELSE i + 1
<1>1. n \in Nat /\ m = n - 1 /\ p \in 1..n /\ m \in Nat
  BY DEF QueueTyped
<1>2. \A i \in 1..m : old(i) \in 1..n /\ old(i) # p /\ queue'[i] = queue[old(i)]
  BY <1>1
<1>3. \A i, j \in 1..m : old(i) = old(j) => i = j
  BY <1>1
<1>4. ASSUME NEW i \in 1..n, i # p
      PROVE  \E j \in 1..m : old(j) = i
  <2>1. CASE i < p
    <3>1. i \in 1..m /\ old(i) = i
      BY <1>1, <2>1
    <3> QED BY <3>1
  <2>2. CASE i > p
    <3>1. i - 1 \in 1..m /\ old(i - 1) = i
      BY <1>1, <2>2
    <3> QED BY <3>1
  <2> QED BY <1>1, <1>4, <2>1, <2>2
<1>5. \A i \in 1..n : queue[i] = k <=> i = p
  BY <1>1 DEF QueueTrue
<1> HIDE DEF old, m, n
<1>6. \A j \in Calls :
        (\E i \in 1..m : queue'[i] = j)
        <=> (\E i \in 1..n : queue[i] = j) /\ j # k
  BY <1>2, <1>4, <1>5
<1>7. \A i, j \in 1..m : queue'[i] = queue'[j] => i = j
  BY <1>2, <1>3 DEF QueueTrue, n
<1>8. \A j \in Calls : call'[j].pc = "queued" <=> call[j].pc = "queued" /\ j # k
  BY DEF CallsTyped
<1> QED BY <1>6, <1>7, <1>8 DEF QueueTrue, m, n

\* A call that is done with a request, or not yet at it, is elsewhere.
LEMMA HolderGoesOn ==
  ASSUME CallsTyped, NEW k \in Calls,
         \/ \E how : Ends(k, how)
         \/ \E how : Finishes(k, how)
         \/ \E rem, exp, how : Exits(k, rem, exp, how)
         \/ Goes(k, "token")
  PROVE  \E c : /\ c.pc \notin {"queued", "out", "slot"}
                /\ call' = [call EXCEPT ![k] = c]
<1> DEFINE Away == \E c : /\ c.pc \notin {"queued", "out", "slot"}
                          /\ call' = [call EXCEPT ![k] = c]
<1>1. ASSUME NEW how, Ends(k, how)
      PROVE  Away
  BY <1>1 DEF Ends, Idle
<1>2. ASSUME NEW how, Finishes(k, how)
      PROVE  Away
  <2> DEFINE c == [call[k] EXCEPT !.op = "thread", !.pc = "next"]
  <2>1. CASE call' = [call EXCEPT ![k].op = "thread", ![k].pc = "next"]
    <3>1. c.pc = "next" /\ call' = [call EXCEPT ![k] = c]
      BY <2>1 DEF CallsTyped, CallType
    <3> QED BY <3>1
  <2> QED BY <1>1, <1>2, <2>1 DEF Finishes
<1>3. CASE Goes(k, "token")
  <2> DEFINE c == [call[k] EXCEPT !.pc = "token"]
  <2>1. c.pc = "token" /\ call' = [call EXCEPT ![k] = c]
    BY <1>3 DEF Goes, CallsTyped, CallType
  <2> QED BY <2>1
<1>4. ASSUME NEW rem, NEW exp, NEW how, Exits(k, rem, exp, how)
      PROVE  Away
  <2> DEFINE c == [call[k] EXCEPT !.pc = "exit", !.how = how]
  <2>1. CASE call' = [call EXCEPT ![k].pc = "exit", ![k].how = how]
    <3>1. c.pc = "exit" /\ call' = [call EXCEPT ![k] = c]
      BY <2>1 DEF CallsTyped, CallType
    <3> QED BY <3>1
  <2> QED BY <1>2, <1>4, <2>1 DEF Exits
<1> QED BY <1>1, <1>2, <1>3, <1>4

LEMMA HolderQueuesNot ==
  ASSUME CallsTyped, NEW k \in Calls,
         \/ \E how : Ends(k, how)
         \/ \E how : Finishes(k, how)
         \/ \E rem, exp, how : Exits(k, rem, exp, how)
         \/ \E pc \in {"next", "token", "out", "slot"} : Goes(k, pc)
  PROVE  \E c : c.pc # "queued" /\ call' = [call EXCEPT ![k] = c]
<1>1. ASSUME NEW pc \in {"next", "token", "out", "slot"}, Goes(k, pc)
      PROVE  \E c : c.pc # "queued" /\ call' = [call EXCEPT ![k] = c]
  <2> DEFINE c == [call[k] EXCEPT !.pc = pc]
  <2>1. c.pc = pc /\ call' = [call EXCEPT ![k] = c]
    BY <1>1 DEF Goes, CallsTyped, CallType
  <2> QED BY <2>1
<1> QED BY <1>1, HolderGoesOn

LEMMA StartsFromQueue ==
  ASSUME IInv, QueueTrue, NEW k \in Calls, Starts(k)
  PROVE  QueueTrue'
<1>0. CallsTyped /\ QueueTyped
  BY Types DEF IInv
<1>1. \E c : c.pc # "queued" /\ call' = [call EXCEPT ![k] = c]
  <2>1. CASE Goes(k, "slot") \/ Goes(k, "next")
    BY <1>0, <2>1, HolderQueuesNot
  <2>2. CASE \E how : Ends(k, how)
    BY <1>0, <2>2, HolderQueuesNot
  <2> QED BY <2>1, <2>2 DEF Starts, Goes
<1>2. PICK c : c.pc # "queued" /\ call' = [call EXCEPT ![k] = c]
  BY <1>1
<1>3. /\ 1 \in 1..Len(queue) /\ queue[1] = k
      /\ Len(queue') = Len(queue) - 1
      /\ \A i \in 1..Len(queue') : queue'[i] = queue[i + 1]
  BY <1>0 DEF Starts, QueueTyped
<1>4. \A i \in 1..Len(queue') :
        queue'[i] = queue[IF i < 1 THEN i ELSE i + 1]
  BY <1>3
<1> QED BY <1>0, <1>2, <1>3, <1>4, QueueLeft

LEMMA Joined ==
  ASSUME NEW S, NEW a \in Seq(S), NEW b \in Seq(S)
  PROVE  /\ Len(a \o b) = Len(a) + Len(b)
         /\ \A i \in 1..(Len(a) + Len(b)) :
              (a \o b)[i] = IF i <= Len(a) THEN a[i] ELSE b[i - Len(a)]
OBVIOUS

LEMMA LeavesQueueTrue ==
  ASSUME IInv, QueueTrue, NEW k \in Calls, NEW outcome, Interrupted(k, outcome)
  PROVE  QueueTrue'
<1>0. CallsTyped /\ QueueTyped
  BY Types DEF IInv
<1>1. Idle.pc # "queued" /\ call' = [call EXCEPT ![k] = Idle]
  BY DEF Interrupted, Ends, Idle
<1>2. CASE call[k].pc # "queued" /\ queue' = queue
  BY <1>0, <1>1, <1>2, QueueStays
<1>3. ASSUME NEW p \in 1..Len(queue), queue[p] = k,
             queue' = SubSeq(queue, 1, p - 1) \o SubSeq(queue, p + 1, Len(queue))
      PROVE  QueueTrue'
  <2> DEFINE n == Len(queue)
             a == SubSeq(queue, 1, p - 1)
             b == SubSeq(queue, p + 1, n)
  <2>1. n \in Nat /\ p \in 1..n
    BY <1>0, <1>3 DEF QueueTyped
  <2>2. /\ a \in Seq(Calls) /\ Len(a) = p - 1
        /\ \A i \in 1..(p - 1) : a[i] = queue[i]
    BY <1>0, <2>1 DEF QueueTyped
  <2>3. /\ b \in Seq(Calls) /\ Len(b) = n - p
        /\ \A i \in 1..(n - p) : b[i] = queue[p + i]
    BY <1>0, <2>1 DEF QueueTyped
  <2>0. queue' = a \o b
    BY <1>3
  <2> HIDE DEF a, b
  <2>4. /\ Len(queue') = n - 1
        /\ \A i \in 1..(n - 1) :
             queue'[i] = IF i < p THEN a[i] ELSE b[i - (p - 1)]
    <3>1. /\ Len(queue') = Len(a) + Len(b)
          /\ \A i \in 1..(Len(a) + Len(b)) :
               queue'[i] = IF i <= Len(a) THEN a[i] ELSE b[i - Len(a)]
      BY <2>0, <2>2, <2>3, Joined
    <3>2. Len(a) + Len(b) = n - 1 /\ \A i \in Nat : i < p <=> i <= Len(a)
      BY <2>1, <2>2, <2>3
    <3> QED BY <2>1, <2>2, <3>1, <3>2
  <2>5. ASSUME NEW i \in 1..(n - 1)
        PROVE  queue'[i] = queue[IF i < p THEN i ELSE i + 1]
    <3>1. CASE i < p
      BY <2>1, <2>2, <2>4, <3>1
    <3>2. CASE ~(i < p)
      <4>1. i - (p - 1) \in 1..(n - p) /\ p + (i - (p - 1)) = i + 1
        BY <2>1, <3>2
      <4>2. b[i - (p - 1)] = queue[i + 1]
        BY <2>3, <4>1
      <4> QED BY <2>4, <3>2, <4>2
    <3> QED BY <3>1, <3>2
  <2> QED BY <1>0, <1>1, <1>3, <2>4, <2>5, QueueLeft
<1> QED BY <1>2, <1>3 DEF Interrupted, LeavesQueue

LEMMA QueueKept ==
  ASSUME IInv, QueueTrue, [Next]_vars
  PROVE  QueueTrue'
<1>0. CallsTyped /\ QueueTyped
  BY Types DEF IInv
<1>1. ASSUME NEW k \in Calls, Begin(k)
      PROVE  QueueTrue'
  <2> PICK kind \in Wanted :
        call' = [call EXCEPT ![k] =
          [Idle EXCEPT !.kind = kind, !.pc = "queued",
                       !.op = IF kind = "create" THEN "create" ELSE "card",
                       !.deadline = IF kind = "slot" THEN 0 ELSE now + Timeout]]
    BY <1>1, Zenon DEF Begin
  <2> DEFINE c == [Idle EXCEPT !.kind = kind, !.pc = "queued",
                     !.op = IF kind = "create" THEN "create" ELSE "card",
                     !.deadline = IF kind = "slot" THEN 0 ELSE now + Timeout]
  <2>1. c.pc = "queued" /\ call' = [call EXCEPT ![k] = c]
    BY DEF Idle
  <2>2. call[k].pc # "queued" /\ queue' = Append(queue, k)
    BY <1>1 DEF Begin
  <2> HIDE DEF c
  <2> QED BY <1>0, <2>1, <2>2, QueueJoined
<1>2. ASSUME NEW k \in Calls, TimesOut(k) \/ Cancelled(k)
      PROVE  QueueTrue'
  BY <1>2, LeavesQueueTrue DEF TimesOut, Cancelled
<1>3. ASSUME NEW k \in Calls, CallNext(k), ~Begin(k), ~Starts(k), ~TimesOut(k),
             ~Cancelled(k)
      PROVE  QueueTrue'
  <2>1. queue' = queue /\ call[k].pc # "queued"
    BY <1>3 DEF CallNext, SlotEnds, Refused, Sends, AwaitsToken, GetsToken,
                Unauthorized, ExitEnds, Answered, Denied, DenialCollides,
                DeniedBadly
  <2>2. \E c : c.pc # "queued" /\ call' = [call EXCEPT ![k] = c]
    <3>1. CASE SlotEnds(k)
      BY <3>1 DEF SlotEnds, Idle
    <3>2. CASE Refused(k) \/ Denied(k)
      BY <1>0, <3>2, HolderQueuesNot DEF Refused, Denied
    <3>3. CASE Sends(k) \/ AwaitsToken(k) \/ GetsToken(k)
      BY <1>0, <3>3, HolderQueuesNot DEF Sends, AwaitsToken, GetsToken
    <3>4. CASE Unauthorized(k) \/ ExitEnds(k)
      BY <1>0, <3>4, HolderQueuesNot DEF Unauthorized, ExitEnds
    <3>5. CASE Answered(k) \/ DenialCollides(k) \/ DeniedBadly(k)
      BY <1>0, <3>5, HolderQueuesNot DEF Answered, DenialCollides, DeniedBadly
    <3> QED BY <1>3, <3>1, <3>2, <3>3, <3>4, <3>5 DEF CallNext
  <2>3. PICK c : c.pc # "queued" /\ call' = [call EXCEPT ![k] = c]
    BY <2>2
  <2> QED BY <1>0, <2>1, <2>3, QueueStays
<1>4. CASE OutsideNext \/ TimerFires \/ Tick \/ UNCHANGED vars
  <2>1. queue' = queue /\ call' = call
    BY <1>4 DEF OutsideNext, OutsideSends, OutsideEnds, OutsideRefreshes,
                OutsideDenied, OutsideOpens, TimerFires, Tick, vars
  <2> QED BY <2>1 DEF QueueTrue
<1> QED BY <1>1, <1>2, <1>3, <1>4, StartsFromQueue DEF Next

\* Whoever times out, is cancelled or is refused while others wait: the lock
\* goes to a call that still waits for it, in the order they came, and every
\* call that waits is in the queue.
THEOREM LockGoesToWaiters == Spec => []QueueTrue
<1>1. Init => QueueTrue
  BY DEF Init, QueueTrue, Idle
<1>2. IInv /\ QueueTrue /\ [Next]_vars => QueueTrue'
  BY QueueKept
<1> QED BY <1>1, <1>2, Invariance, PTL DEF Spec
-----------------------------------------------------------------------------
(* The port keeps the contract of RequestPort.                             *)

Using == {k \in Calls : call[k].pc \in {"out", "slot"}}

Contract == INSTANCE RequestPort
              WITH Users <- Calls, using <- Using, wait <- globalRetryAt

KeepsContract == Contract!Spec

ContractStep == [Contract!Next]_<<now, Using, globalRetryAt>>

\* The lock makes the holder of the port the only one.
LEMMA UsedAlone ==
  ASSUME IInv, NEW j \in Using, NEW k \in Calls, ~Free(k)
  PROVE  j = k
BY DEF IInv, LockHeldOnce, Free, Using

LEMMA LeavesPort ==
  ASSUME Using' = Using \/ Using' = {},
         now' = now, globalRetryAt' = globalRetryAt
  PROVE  ContractStep
BY DEF ContractStep, Contract!Next, Contract!Ends, Using

LEMMA TakesPort ==
  ASSUME NEW k \in Calls, Using = {}, Using' = {k}, now >= globalRetryAt,
         now' = now, globalRetryAt' = globalRetryAt
  PROVE  ContractStep
BY DEF ContractStep, Contract!Next, Contract!Begins, Using

\* A call that goes on elsewhere, or away, lets go of the port if it had it.
LEMMA LetsGo ==
  ASSUME IInv, CallsTyped, NEW k \in Calls, ~Free(k),
         NEW c, c.pc \notin {"out", "slot"}, call' = [call EXCEPT ![k] = c]
  PROVE  Using' = {}
<1>1. \A j \in Calls \ {k} : call'[j] = call[j] /\ j \notin Using
  BY UsedAlone DEF CallsTyped
<1>2. call'[k] = c
  BY DEF CallsTyped
<1> QED BY <1>1, <1>2 DEF Using

LEMMA NotYet ==
  ASSUME CallsTyped, NEW k \in Calls, Free(k),
         NEW c, c.pc \notin {"out", "slot"}, call' = [call EXCEPT ![k] = c]
  PROVE  Using' = Using
BY DEF CallsTyped, Using, Free

LEMMA GoesIn ==
  ASSUME IInv, CallsTyped, NEW k \in Calls, call[k].pc \notin {"out", "slot"},
         ~Free(k) \/ LockFree, NEW pc \in {"out", "slot"}, Goes(k, pc)
  PROVE  Using = {} /\ Using' = {k}
<1>1. Using = {}
  BY UsedAlone DEF Using, LockFree, Free
<1>2. /\ call'[k].pc = pc
      /\ \A j \in Calls \ {k} : call'[j] = call[j]
  BY DEF Goes, CallsTyped, CallType
<1> QED BY <1>1, <1>2 DEF Using

LEMMA StartsInContract ==
  ASSUME IInv, NEW k \in Calls, Starts(k)
  PROVE  ContractStep
<1>0. CallsTyped /\ WaitsTyped
  BY Types DEF IInv
<1>1. /\ LockFree /\ Free(k) /\ call[k].pc \notin {"out", "slot"}
      /\ now' = now /\ globalRetryAt' = globalRetryAt
  BY DEF Starts, LockFree, Free, port
<1>2. CASE Goes(k, "slot") /\ PresentationReady
  BY <1>0, <1>1, <1>2, GoesIn, TakesPort DEF PresentationReady
<1>3. CASE Goes(k, "next")
  <2> DEFINE c == [call[k] EXCEPT !.pc = "next"]
  <2>1. c.pc = "next" /\ call' = [call EXCEPT ![k] = c]
    BY <1>0, <1>3 DEF Goes, CallsTyped, CallType
  <2> HIDE DEF c
  <2> QED BY <1>0, <1>1, <2>1, NotYet, LeavesPort
<1>4. CASE \E how : Ends(k, how)
  <2>1. Idle.pc = "idle" /\ call' = [call EXCEPT ![k] = Idle]
    BY <1>4 DEF Ends, Idle
  <2> QED BY <1>0, <1>1, <2>1, NotYet, LeavesPort
<1> QED BY <1>2, <1>3, <1>4 DEF Starts, Goes

LEMMA SendsInContract ==
  ASSUME IInv, NEW k \in Calls, call[k].pc \in {"next", "token"},
         ~KnownWait(call[k].op), Goes(k, "out"),
         now' = now, globalRetryAt' = globalRetryAt
  PROVE  ContractStep
<1>0. CallsTyped /\ now \in Nat /\ globalRetryAt \in Nat
  BY Types, Ranges DEF IInv, WaitsTyped
<1>1. Using = {} /\ Using' = {k}
  BY <1>0, GoesIn DEF Free
<1>2. now >= globalRetryAt
  BY <1>0 DEF KnownWait, GlobalWait
<1> QED BY <1>1, <1>2, TakesPort

LEMMA DeniedInContract ==
  ASSUME IInv, NEW k \in Calls, Denied(k)
  PROVE  ContractStep
<1>0. /\ CallsTyped /\ BucketsTyped /\ WaitsTyped
      /\ call[k].op \in Ops /\ now \in Nat /\ globalRetryAt \in Nat
  <2>1. call[k].pc = "out"
    BY DEF Denied
  <2>2. CallsTyped /\ BucketsTyped /\ WaitsTyped
    BY Types DEF IInv
  <2>3. call[k].op \in Ops
    BY <2>1, Holder
  <2> QED BY <2>2, <2>3, Ranges DEF WaitsTyped
<1>1. Using # {} /\ Using' = {}
  <2>1. /\ call[k].pc = "out" /\ Idle.pc = "idle"
        /\ call' = [call EXCEPT ![k] = Idle]
    BY DEF Denied, Ends, Idle
  <2> QED BY <1>0, <2>1, LetsGo DEF Free, Using
<1>2. now' = now
  BY DEF Denied
<1>3. CASE globalRetryAt' = globalRetryAt
  BY <1>1, <1>2, <1>3, LeavesPort
<1>4. ASSUME NEW d \in Delays,
             globalRetryAt' = Later(globalRetryAt,
                                    Later(expires[call[k].op], now + d))
      PROVE  ContractStep
  <2>1. d \in Nat /\ d > 0 /\ expires[call[k].op] \in Nat
    BY <1>0, Ranges DEF BucketsTyped
  <2>2. globalRetryAt' \in Nat /\ globalRetryAt' > now
    BY <1>0, <1>4, <2>1 DEF Later
  <2> QED BY <1>1, <1>2, <2>2
          DEF ContractStep, Contract!Next, Contract!Denied, Using
<1> QED BY <1>3, <1>4 DEF Denied, ShutsGate

LEMMA CallInContract ==
  ASSUME IInv, NEW k \in Calls, CallNext(k)
  PROVE  ContractStep
<1>0. CallsTyped
  BY Types DEF IInv
<1>1. CASE Begin(k)
  <2> PICK kind \in Wanted :
        call' = [call EXCEPT ![k] =
          [Idle EXCEPT !.kind = kind, !.pc = "queued",
                       !.op = IF kind = "create" THEN "create" ELSE "card",
                       !.deadline = IF kind = "slot" THEN 0 ELSE now + Timeout]]
    BY <1>1, Zenon DEF Begin
  <2> DEFINE c == [Idle EXCEPT !.kind = kind, !.pc = "queued",
                     !.op = IF kind = "create" THEN "create" ELSE "card",
                     !.deadline = IF kind = "slot" THEN 0 ELSE now + Timeout]
  <2>1. c.pc = "queued" /\ call' = [call EXCEPT ![k] = c]
    BY DEF Idle
  <2>2. Free(k) /\ now' = now /\ globalRetryAt' = globalRetryAt
    BY <1>1 DEF Begin, Free, port
  <2> HIDE DEF c
  <2> QED BY <1>0, <2>1, <2>2, NotYet, LeavesPort
<1>2. CASE Starts(k)
  BY <1>2, StartsInContract
<1>3. CASE Sends(k)
  BY <1>3, SendsInContract DEF Sends, port
<1>4. CASE GetsToken(k) /\ ~KnownWait(call[k].op)
  BY <1>4, SendsInContract DEF GetsToken, port
<1>5. CASE Denied(k)
  BY <1>5, DeniedInContract
<1>6. CASE TimesOut(k) \/ Cancelled(k)
  <2>1. /\ Idle.pc = "idle" /\ call' = [call EXCEPT ![k] = Idle]
        /\ now' = now /\ globalRetryAt' = globalRetryAt
    BY <1>6 DEF TimesOut, Cancelled, Interrupted, Ends, port, Idle
  <2>2. Using' = Using \/ Using' = {}
    BY <1>0, <2>1, LetsGo, NotYet
  <2> QED BY <2>1, <2>2, LeavesPort
<1>7. ASSUME ~Free(k), NEW c, c.pc \notin {"out", "slot"},
             call' = [call EXCEPT ![k] = c],
             now' = now, globalRetryAt' = globalRetryAt
      PROVE  ContractStep
  BY <1>0, <1>7, LetsGo, LeavesPort
<1>8. CASE \/ SlotEnds(k) \/ Refused(k) \/ AwaitsToken(k)
           \/ (GetsToken(k) /\ KnownWait(call[k].op))
           \/ Unauthorized(k) \/ ExitEnds(k)
  <2>1. ~Free(k) /\ now' = now /\ globalRetryAt' = globalRetryAt
    BY <1>8 DEF SlotEnds, Refused, AwaitsToken, GetsToken, Unauthorized,
                ExitEnds, Free, port
  <2>2. \E c : /\ c.pc \notin {"out", "slot"}
               /\ call' = [call EXCEPT ![k] = c]
    <3>1. CASE SlotEnds(k)
      BY <3>1 DEF SlotEnds, Idle
    <3>2. CASE Refused(k) \/ Unauthorized(k)
      BY <1>0, <3>2, HolderGoesOn DEF Refused, Unauthorized
    <3>3. CASE AwaitsToken(k) \/ (GetsToken(k) /\ KnownWait(call[k].op))
      BY <1>0, <3>3, HolderGoesOn DEF AwaitsToken, GetsToken
    <3>4. CASE ExitEnds(k)
      BY <1>0, <3>4, HolderGoesOn DEF ExitEnds
    <3> QED BY <1>8, <3>1, <3>2, <3>3, <3>4
  <2>3. PICK c : /\ c.pc \notin {"out", "slot"}
                 /\ call' = [call EXCEPT ![k] = c]
    BY <2>2
  <2> QED BY <1>7, <2>1, <2>3
<1>9. CASE Answered(k) \/ DenialCollides(k) \/ DeniedBadly(k)
  <2>1. ~Free(k) /\ now' = now /\ globalRetryAt' = globalRetryAt
    BY <1>9 DEF Answered, DenialCollides, DeniedBadly, Free
  <2>2. \E c : /\ c.pc \notin {"out", "slot"}
               /\ call' = [call EXCEPT ![k] = c]
    BY <1>0, <1>9, HolderGoesOn DEF Answered, DenialCollides, DeniedBadly
  <2>3. PICK c : /\ c.pc \notin {"out", "slot"}
                 /\ call' = [call EXCEPT ![k] = c]
    BY <2>2
  <2> QED BY <1>7, <2>1, <2>3
<1> QED BY <1>1, <1>2, <1>3, <1>4, <1>5, <1>6, <1>8, <1>9
        DEF CallNext

LEMMA StepInContract ==
  ASSUME IInv, [Next]_vars
  PROVE  ContractStep
<1>1. ASSUME NEW k \in Calls, CallNext(k)
      PROVE  ContractStep
  BY <1>1, CallInContract
<1>2. CASE Tick
  <2>1. /\ now' = now + 1 /\ call' = call
        /\ globalRetryAt' = IF globalRetryAt > now + 1 THEN globalRetryAt ELSE 0
    BY <1>2 DEF Tick
  <2> QED BY <2>1 DEF ContractStep, Contract!Next, Contract!Passes, Using
<1>3. CASE OutsideNext \/ TimerFires \/ UNCHANGED vars
  <2>1. call' = call /\ now' = now /\ globalRetryAt' = globalRetryAt
    BY <1>3 DEF OutsideNext, OutsideSends, OutsideEnds, OutsideRefreshes,
                OutsideDenied, OutsideOpens, TimerFires, vars, port
  <2> QED BY <2>1, LeavesPort DEF Using
<1> QED BY <1>1, <1>2, <1>3 DEF Next

\* For any number of callers, however they queue, time out or are cancelled:
\* requests and card edits are under way one at a time, none begins inside a
\* global wait, and nobody else learns of one meanwhile.
THEOREM PortKeepsContract == Spec => KeepsContract
<1>1. Init => Contract!Init
  BY DEF Init, Contract!Init, Using, Idle
<1>2. IInv /\ [Next]_vars => [Contract!Next]_<<now, Using, globalRetryAt>>
  BY StepInContract DEF ContractStep
<1> QED BY <1>1, <1>2, Invariance, PTL
        DEF Spec, KeepsContract, Contract!Spec, Using

\* What the contract says of any state: only one is at it, outside any wait.
OneOutsideWaits ==
  /\ \A j, k \in Using : j = k
  /\ Using # {} => now >= globalRetryAt

LEMMA ContractKeepsOne ==
  ASSUME OneOutsideWaits, now \in Nat, globalRetryAt \in Nat, ContractStep
  PROVE  OneOutsideWaits'
BY DEF OneOutsideWaits, ContractStep, Contract!Next, Contract!Begins,
       Contract!Ends, Contract!Denied, Contract!Passes, Contract!Restarts, Using

\* No request or card edit of the plugin is under way in a global wait that
\* the port was told of, at any of its moments, and not only when it begins.
THEOREM NothingOutInWait == Spec => []OneOutsideWaits
<1>1. Init => OneOutsideWaits
  BY DEF Init, OneOutsideWaits, Using, Idle
<1>2. OneOutsideWaits /\ IInv /\ [Next]_vars => OneOutsideWaits'
  <2>1. IInv => now \in Nat /\ globalRetryAt \in Nat
    BY Types, Ranges DEF IInv, WaitsTyped
  <2> QED BY <2>1, StepInContract, ContractKeepsOne
<1> QED BY <1>1, <1>2, Invariance, PTL DEF Spec
=============================================================================
