---------------------------- MODULE RecordingsProofs ----------------------------
(***************************************************************************)
(* What is proved of Recordings, for any number of recordings, receivers,  *)
(* requests and retrievals, any retention and any bound on the clock.      *)
(*                                                                         *)
(* That a recording is handed out once rests on the grant alone, which     *)
(* stays used (RequestInv). That an acknowledged one has its file, and a   *)
(* sweep leaves nothing behind, needs one receiver at a time (~Beside) and *)
(* says what each of its steps still owes to the spool (SpoolInv).         *)
(***************************************************************************)
EXTENDS Recordings, TLAPS

-----------------------------------------------------------------------------
(* Types.                                                                  *)

Phases == Serving \cup {"down", "read", "sweeping"}
Files == Recordings \cup (Receivers \X Recordings)
ReceiverType ==
  [pc: Phases, rec: Few(Recordings), kept: SUBSET Recordings, at: 0..MaxTime,
   list: SUBSET Files]
PurgeType == [list: SUBSET Recordings, gone: Few(Recordings)]
GrantType == [rec: Few(Recordings), used: BOOLEAN, expires: Times]
CallType ==
  [pc: {"idle", "claimed", "reading", "stale"}, req: Few(Requests)]

\* Two sets with at most one member.
LEMMA FewFacts ==
  ASSUME NEW S
  PROVE  /\ {} \in Few(S)
         /\ \A x \in S : {x} \in Few(S)
         /\ \A T \in Few(S) : T \subseteq S
BY DEF Few

\* The type invariant by the names given above.
LEMMA Types ==
  TypeOK <=>
    /\ now \in 0..MaxTime
    /\ row \in [Recordings -> {"none", "kept", "gone"}]
    /\ card \in [Recordings -> {"none", "asked", "shown", "rejected"}]
    /\ until \in [Recordings -> Times]
    /\ spool \subseteq Recordings
    /\ temps \subseteq Receivers \X Recordings
    /\ receiver \in [Receivers -> ReceiverType]
    /\ purge \in PurgeType
    /\ grant \in [Requests -> GrantType]
    /\ retrieval \in [Calls -> CallType]
    /\ returned \in [Requests -> Nat]
    /\ acked \cup spoiled \cup late \subseteq Recordings
BY DEF TypeOK, ReceiverType, Phases, Files, PurgeType, GrantType, CallType

\* What a receiver is, it stays when its place changes.
LEMMA StepTyped ==
  ASSUME NEW x \in ReceiverType, NEW pc \in Phases
  PROVE  [x EXCEPT !.pc = pc] \in ReceiverType
BY DEF ReceiverType

\* A receiver that begins is one.
LEMMA DownTyped ==
  ASSUME NEW pc \in Phases, NEW kept \in SUBSET Recordings
  PROVE  /\ [Down EXCEPT !.pc = pc, !.kept = kept] \in ReceiverType
         /\ [Down EXCEPT !.pc = pc] \in ReceiverType
         /\ Down \in ReceiverType
<1>1. /\ {} \in Few(Recordings)
      /\ {} \in SUBSET Recordings
      /\ {} \in SUBSET Files
      /\ 0 \in 0..MaxTime
  BY TimeAssumption, FewFacts
<1>2. "down" \in Phases
  BY DEF Phases
<1> HIDE DEF Phases, Files
<1> QED BY <1>1, <1>2 DEF ReceiverType, Down

\* Every step of a receiver leaves a receiver.
LEMMA ReceiverTyped ==
  ASSUME TypeOK, NEW p \in Receivers, ReceiverNext(p)
  PROVE  receiver' \in [Receivers -> ReceiverType]
<1> DEFINE x == receiver[p]
<1>1. /\ receiver \in [Receivers -> ReceiverType]
      /\ x \in ReceiverType
      /\ now \in 0..MaxTime
      /\ spool \subseteq Recordings
      /\ temps \subseteq Receivers \X Recordings
  BY Types
<1>2. SUFFICES \E y \in ReceiverType : receiver' = [receiver EXCEPT ![p] = y]
  BY <1>1
<1>3. {"down", "read", "sweeping", "serving", "writing", "spooled", "stored",
       "again"} \subseteq Phases
  BY DEF Phases, Serving
<1> HIDE DEF x
<1>4. CASE SweepReads(p)
  <2> DEFINE k == {r \in Recordings : row[r] = "kept"}
  <2>1. k \in SUBSET Recordings
    OBVIOUS
  <2> HIDE DEF k
  <2>2. [Down EXCEPT !.pc = "read", !.kept = k] \in ReceiverType
    BY <1>3, <2>1, DownTyped
  <2>3. receiver' =
          [receiver EXCEPT ![p] = [Down EXCEPT !.pc = "read", !.kept = k]]
    BY <1>4 DEF SweepReads, k
  <2> QED BY <2>2, <2>3
<1>5. CASE SweepLists(p)
  <2> DEFINE l == (spool \ x.kept) \cup temps
             y == [x EXCEPT !.pc = "sweeping", !.kept = {}, !.list = l]
  <2>1. l \in SUBSET Files
    BY <1>1 DEF Files
  <2> HIDE DEF l
  <2>2. y \in ReceiverType
    BY <1>1, <1>3, <2>1 DEF ReceiverType
  <2>3. receiver' = [receiver EXCEPT ![p] = y]
    BY <1>5 DEF SweepLists, x, l
  <2> HIDE DEF y
  <2> QED BY <2>2, <2>3
<1>6. CASE SweepUnlinks(p)
  <2>1. PICK file : receiver' = [receiver EXCEPT ![p].list = @ \ {file}]
    BY <1>6 DEF SweepUnlinks
  <2> DEFINE y == [x EXCEPT !.list = x.list \ {file}]
  <2>2. y \in ReceiverType
    BY <1>1 DEF ReceiverType
  <2>3. receiver' = [receiver EXCEPT ![p] = y]
    BY <2>1 DEF x
  <2> HIDE DEF y
  <2> QED BY <2>2, <2>3
<1>7. CASE \/ Binds(p) \/ Dies(p) \/ WriteFails(p)
           \/ InsertFails(p) \/ Acknowledges(p)
  <2>1. \E y \in {Down, [Down EXCEPT !.pc = "serving"]} :
          receiver' = [receiver EXCEPT ![p] = y]
    BY <1>7 DEF Binds, Dies, WriteFails, InsertFails, Acknowledges, Done
  <2> QED BY <1>3, <2>1, DownTyped
<1>8. CASE Replaces(p) \/ Inserts(p)
  <2>1. \E pc \in Phases : receiver' = [receiver EXCEPT ![p].pc = pc]
    BY <1>3, <1>8 DEF Replaces, Inserts, Step
  <2>2. PICK pc \in Phases :
          receiver' = [receiver EXCEPT ![p] = [x EXCEPT !.pc = pc]]
    BY <2>1 DEF x
  <2> QED BY <1>1, <2>2, StepTyped
<1>9. ASSUME NEW r \in Recordings, Deliver(p, r)
      PROVE  \E y \in ReceiverType : receiver' = [receiver EXCEPT ![p] = y]
  <2> DEFINE pc == IF r \in spool THEN "spooled" ELSE "writing"
             y == [x EXCEPT !.rec = {r}, !.at = now, !.pc = pc]
  <2>1. pc \in Phases /\ {r} \in Few(Recordings)
    BY <1>3, FewFacts
  <2> HIDE DEF pc
  <2>2. y \in ReceiverType
    BY <1>1, <2>1 DEF ReceiverType
  <2>3. receiver' = [receiver EXCEPT ![p] = y]
    BY <1>9 DEF Deliver, x, pc
  <2> HIDE DEF y
  <2> QED BY <2>2, <2>3
<1> QED BY <1>4, <1>5, <1>6, <1>7, <1>8, <1>9 DEF ReceiverNext

\* Unlinking a file may make a retrieval stale and changes nothing else of it.
LEMMA UnlinkEffect ==
  ASSUME TypeOK, NEW files, Unlink(files)
  PROVE  /\ spool' = spool \ files
         /\ spool' \subseteq Recordings
         /\ retrieval' \in [Calls -> CallType]
         /\ \A t \in Calls : retrieval'[t].req = retrieval[t].req
<1>1. \A t \in Calls : retrieval[t] \in CallType
  BY Types
<1>2. ASSUME NEW x \in CallType
      PROVE  /\ [x EXCEPT !.pc = "stale"] \in CallType
             /\ [x EXCEPT !.pc = "stale"].req = x.req
  BY <1>2 DEF CallType
<1>3. spool \subseteq Recordings
  BY Types
<1> QED BY <1>1, <1>2, <1>3 DEF Unlink

\* A grant that is used up stays the grant it was.
LEMMA UseEffect ==
  ASSUME TypeOK, NEW ms, Use(ms)
  PROVE  /\ grant' \in [Requests -> GrantType]
         /\ \A m \in Requests :
              /\ grant'[m].rec = grant[m].rec
              /\ grant[m].used => grant'[m].used
              /\ m \in ms /\ grant[m] # NoGrant => grant'[m].used
<1>1. \A m \in Requests : grant[m] \in GrantType
  BY Types
<1>2. ASSUME NEW x \in GrantType
      PROVE  /\ [x EXCEPT !.used = TRUE] \in GrantType
             /\ [x EXCEPT !.used = TRUE].rec = x.rec
             /\ [x EXCEPT !.used = TRUE].used
  BY <1>2 DEF GrantType
<1> QED BY <1>1, <1>2 DEF Use

\* What receivers do to the spool, the rows and the retrievals.
LEMMA SpoolTyped ==
  ASSUME TypeOK, NEW p \in Receivers, ReceiverNext(p)
  PROVE  /\ spool' \subseteq Recordings
         /\ temps' \subseteq Receivers \X Recordings
         /\ row' \in [Recordings -> {"none", "kept", "gone"}]
         /\ until' \in [Recordings -> Times]
         /\ retrieval' \in [Calls -> CallType]
         /\ acked' \cup spoiled' \cup late' \subseteq Recordings
<1>1. /\ row \in [Recordings -> {"none", "kept", "gone"}]
      /\ until \in [Recordings -> Times]
      /\ spool \subseteq Recordings
      /\ temps \subseteq Receivers \X Recordings
      /\ retrieval \in [Calls -> CallType]
      /\ acked \cup spoiled \cup late \subseteq Recordings
      /\ receiver[p] \in ReceiverType
  BY Types
<1>2. receiver[p].rec \subseteq Recordings /\ receiver[p].at \in 0..MaxTime
  BY <1>1, FewFacts DEF ReceiverType
<1>3. CASE SweepReads(p) \/ SweepLists(p) \/ Binds(p) \/ Dies(p)
  BY <1>1, <1>3 DEF SweepReads, SweepLists, Binds, Dies, disk, history
<1>4. CASE SweepUnlinks(p)
  BY <1>1, <1>4, UnlinkEffect DEF SweepUnlinks, history
<1>5. ASSUME NEW r \in Recordings, Deliver(p, r)
      PROVE  temps' \subseteq Receivers \X Recordings
  BY <1>1, <1>5 DEF Deliver
<1>6. CASE Replaces(p)
  BY <1>1, <1>2, <1>6 DEF Replaces
<1>7. CASE WriteFails(p)
  BY <1>1, <1>7 DEF WriteFails, history
<1>8. CASE Inserts(p)
  <2>1. receiver[p].at + Retention \in Times
    BY <1>2, TimeAssumption DEF Times
  <2> QED BY <1>1, <1>2, <1>8, <2>1 DEF Inserts, disk, history
<1>9. CASE InsertFails(p)
  BY <1>1, <1>2, <1>9, UnlinkEffect DEF InsertFails
<1>10. CASE Acknowledges(p)
  BY <1>1, <1>2, <1>10, UnlinkEffect DEF Acknowledges
<1> QED BY <1>1, <1>3, <1>4, <1>5, <1>6, <1>7, <1>8, <1>9, <1>10
        DEF ReceiverNext, Deliver, history

\* Steps of the gateway keep the types.
LEMMA GatewayTyped ==
  ASSUME TypeOK, GatewayNext
  PROVE  TypeOK'
<1>1. /\ now \in 0..MaxTime
      /\ row \in [Recordings -> {"none", "kept", "gone"}]
      /\ card \in [Recordings -> {"none", "asked", "shown", "rejected"}]
      /\ purge \in PurgeType
      /\ purge.list \subseteq Recordings
      /\ purge.gone \in Few(Recordings)
  BY Types DEF PurgeType
<1>2. ASSUME NEW r \in Recordings, AskForCard(r) \/ ShowCard(r) \/ Reject(r)
      PROVE  TypeOK'
  <2>1. card' \in [Recordings -> {"none", "asked", "shown", "rejected"}]
    BY <1>1, <1>2 DEF AskForCard, ShowCard, Reject
  <2> QED BY <1>2, <2>1, Types
          DEF AskForCard, ShowCard, Reject, TypeOK, disk, history
<1>3. CASE PurgeLists \/ PurgeStops
  <2>1. purge' \in PurgeType
    <3>1. ExpiredAudio \subseteq Recordings
      BY DEF ExpiredAudio
    <3>2. [purge EXCEPT !.list = ExpiredAudio] \in PurgeType
      BY <1>1, <3>1 DEF PurgeType
    <3>3. NoPurge \in PurgeType
      BY FewFacts DEF NoPurge, PurgeType
    <3> QED BY <1>3, <3>2, <3>3 DEF PurgeLists, PurgeStops
  <2> QED BY <1>3, <2>1 DEF PurgeLists, PurgeStops, TypeOK, PurgeType, disk,
                            history
<1>4. CASE PurgeUnlinks
  <2>1. PICK r \in purge.list :
          Unlink({r}) /\ purge' = [purge EXCEPT !.gone = {r}]
    BY <1>4 DEF PurgeUnlinks
  <2>2. purge' \in PurgeType
    BY <1>1, <2>1, FewFacts DEF PurgeType
  <2>3. spool' \subseteq Recordings /\ retrieval' \in [Calls -> CallType]
    BY <2>1, UnlinkEffect
  <2> QED BY <1>4, <2>2, <2>3 DEF PurgeUnlinks, TypeOK, PurgeType, CallType,
                                  history
<1>5. CASE PurgeForgets
  <2>1. row' \in [Recordings -> {"none", "kept", "gone"}]
    BY <1>1, <1>5 DEF PurgeForgets
  <2>2. purge' \in PurgeType
    BY <1>1, <1>5, FewFacts DEF PurgeForgets, PurgeType
  <2>3. grant' \in [Requests -> GrantType]
    BY <1>5, UseEffect DEF PurgeForgets
  <2> QED BY <1>5, <2>1, <2>2, <2>3 DEF PurgeForgets, TypeOK, PurgeType,
                                        GrantType, disk, history
<1>6. CASE Reset
  <2>1. grant' \in [Requests -> GrantType]
    BY <1>6, UseEffect DEF Reset
  <2> QED BY <1>6, <2>1 DEF Reset, TypeOK, GrantType, disk, history
<1> QED BY <1>2, <1>3, <1>4, <1>5, <1>6 DEF GatewayNext

\* Requests and retrievals keep the types.
LEMMA RetrievalTyped ==
  ASSUME TypeOK, RetrievalNext
  PROVE  TypeOK'
<1>1. /\ now \in 0..MaxTime
      /\ until \in [Recordings -> Times]
      /\ grant \in [Requests -> GrantType]
      /\ retrieval \in [Calls -> CallType]
      /\ returned \in [Requests -> Nat]
  BY Types
<1>2. ASSUME NEW m \in Requests, NEW r \in Recordings, GrantAudio(m, r)
      PROVE  TypeOK'
  <2>1. NewGrant(r) \in GrantType
    <3>1. /\ until[r] \in Times
          /\ now + GrantTime < until[r] => now + GrantTime \in Times
      BY <1>1, TimeAssumption DEF Times
    <3> QED BY <3>1, FewFacts DEF NewGrant, GrantType
  <2>2. grant' \in [Requests -> GrantType]
    BY <1>1, <1>2, <2>1 DEF GrantAudio
  <2> QED BY <1>2, <2>2 DEF GrantAudio, TypeOK, GrantType, disk, history
<1>3. ASSUME NEW t \in Calls, NEW m \in Requests, ClaimAudio(t, m)
      PROVE  TypeOK'
  <2>1. retrieval' \in [Calls -> CallType]
    <3>1. [pc |-> "claimed", req |-> {m}] \in CallType
      BY FewFacts DEF CallType
    <3> QED BY <1>1, <1>3, <3>1 DEF ClaimAudio
  <2>2. grant' \in [Requests -> GrantType]
    BY <1>3, UseEffect DEF ClaimAudio
  <2> QED BY <1>3, <2>1, <2>2 DEF ClaimAudio, TypeOK, GrantType, CallType, disk,
                                  history
<1>4. ASSUME NEW t \in Calls, Opens(t) \/ Fails(t) \/ Returns(t)
      PROVE  TypeOK'
  <2>1. retrieval' \in [Calls -> CallType]
    <3>1. NoCall \in CallType
      BY FewFacts DEF CallType, NoCall
    <3>2. ASSUME NEW x \in CallType
          PROVE  [x EXCEPT !.pc = "reading"] \in CallType
      BY <3>2 DEF CallType
    <3> QED BY <1>1, <1>4, <3>1, <3>2 DEF Opens, Fails, Returns
  <2>2. returned' \in [Requests -> Nat]
    BY <1>1, <1>4 DEF Opens, Fails, Returns, gateway
  <2> QED BY <1>4, <2>1, <2>2 DEF Opens, Fails, Returns, TypeOK, CallType, disk,
                                  gateway, history
<1> QED BY <1>2, <1>3, <1>4 DEF RetrievalNext

\* Every step keeps the types.
LEMMA StepKeepsType ==
  ASSUME TypeOK, [Next]_vars
  PROVE  TypeOK'
<1>1. ASSUME NEW p \in Receivers, ReceiverNext(p)
      PROVE  TypeOK'
  <2>1. UNCHANGED <<now, gateway>>
    BY <1>1 DEF ReceiverNext, SweepReads, SweepLists, SweepUnlinks, Binds, Dies,
                Deliver, Replaces, WriteFails, Inserts, InsertFails, Acknowledges
  <2>2. /\ now' \in 0..MaxTime
        /\ card' \in [Recordings -> {"none", "asked", "shown", "rejected"}]
        /\ purge' \in PurgeType
        /\ grant' \in [Requests -> GrantType]
        /\ returned' \in [Requests -> Nat]
    BY <2>1, Types DEF gateway
  <2> QED BY <1>1, <2>2, ReceiverTyped, SpoolTyped
          DEF TypeOK, ReceiverType, Phases, Files, PurgeType, GrantType, CallType
<1>2. CASE Tick
  BY <1>2, TimeAssumption DEF Tick, TypeOK, disk, gateway, history
<1>3. CASE UNCHANGED vars
  BY <1>3 DEF vars, disk, gateway, history, TypeOK
<1> QED BY <1>1, <1>2, <1>3, GatewayTyped, RetrievalTyped DEF Next

\* They hold at the start.
LEMMA InitTyped ==
  ASSUME Init
  PROVE  TypeOK
<1>1. /\ {} \in Few(Recordings)
      /\ {} \in Few(Requests)
      /\ 0 \in Times
      /\ 0 \in 0..MaxTime
  BY FewFacts, TimeAssumption DEF Times
<1>2. receiver \in [Receivers -> ReceiverType]
  <2>1. "down" \in Phases
    BY DEF Phases
  <2> QED BY <2>1, DownTyped DEF Init
<1>3. purge \in PurgeType /\ grant \in [Requests -> GrantType]
  BY <1>1 DEF Init, PurgeType, NoPurge, GrantType, NoGrant
<1>4. retrieval \in [Calls -> CallType] /\ returned \in [Requests -> Nat]
  BY <1>1 DEF Init, CallType, NoCall
<1>5. /\ row \in [Recordings -> {"none", "kept", "gone"}]
      /\ card \in [Recordings -> {"none", "asked", "shown", "rejected"}]
      /\ until \in [Recordings -> Times]
  BY <1>1 DEF Init
<1> QED BY <1>1, <1>2, <1>3, <1>4, <1>5
        DEF Init, TypeOK, ReceiverType, Phases, Files, PurgeType, GrantType,
            CallType

\* The tables, the spool and the places of all processes keep their forms.
THEOREM TypeCorrect == Spec => []TypeOK
<1>1. Init => TypeOK
  BY InitTyped
<1>2. TypeOK /\ [Next]_vars => TypeOK'
  BY StepKeepsType
<1> QED BY <1>1, <1>2, PTL DEF Spec

-----------------------------------------------------------------------------
(* Requests: a grant is used once.                                         *)

\* A request has one retrieval at most, which has not returned and has used the
\* grant up; what has returned has used it up as well.
UsedOnce ==
  /\ \A t, u \in Calls, m \in Requests :
       m \in retrieval[t].req /\ m \in retrieval[u].req => t = u
  /\ \A t \in Calls, m \in Requests :
       m \in retrieval[t].req => grant[m].used /\ returned[m] = 0
  /\ \A m \in Requests : returned[m] # 0 => grant[m].used

\* A grant names recordings with a row; a row that was purged has expired, and
\* so has what the purge is about to forget.
PurgedExpired ==
  /\ \A m \in Requests, r \in Recordings :
       r \in grant[m].rec => row[r] # "none"
  /\ \A r \in Recordings : row[r] = "gone" => now >= until[r]
  /\ \A r \in Recordings : card[r] # "none" => row[r] # "none"
  /\ \A r \in Recordings : r \in purge.list \cup purge.gone =>
       row[r] # "none" /\ card[r] # "none" /\ now >= until[r]

RequestInv == UsedOnce /\ PurgedExpired

\* A receiver touches neither grants nor purge, and gives a row its only time.
LEMMA ReceiverEffect ==
  ASSUME TypeOK, NEW p \in Receivers, ReceiverNext(p)
  PROVE  /\ UNCHANGED <<now, gateway>>
         /\ \A t \in Calls : retrieval'[t].req = retrieval[t].req
         /\ \A r \in Recordings :
              \/ row'[r] = row[r] /\ until'[r] = until[r]
              \/ row[r] = "none" /\ row'[r] = "kept"
<1>1. CASE SweepUnlinks(p) \/ InsertFails(p) \/ Acknowledges(p)
  BY <1>1, UnlinkEffect DEF SweepUnlinks, InsertFails, Acknowledges
<1>2. CASE Inserts(p)
  BY <1>2 DEF Inserts, TypeOK
<1> QED BY <1>1, <1>2
        DEF ReceiverNext, SweepReads, SweepLists, Binds, Dies, Deliver,
            Replaces, WriteFails

\* No step lets a request have a second retrieval.
LEMMA UsedOnceKept ==
  ASSUME TypeOK, UsedOnce, [Next]_vars
  PROVE  UsedOnce'
<1>1. ASSUME NEW p \in Receivers, ReceiverNext(p)
      PROVE  UsedOnce'
  BY <1>1, ReceiverEffect DEF UsedOnce, gateway
<1>2. CASE GatewayNext
  <2>1. /\ returned' = returned
        /\ \A t \in Calls : retrieval'[t].req = retrieval[t].req
        /\ \A m \in Requests : grant[m].used => grant'[m].used
    <3>1. CASE PurgeUnlinks
      BY <3>1, UnlinkEffect DEF PurgeUnlinks
    <3>2. CASE PurgeForgets \/ Reset
      BY <3>2, UseEffect DEF PurgeForgets, Reset
    <3> QED BY <1>2, <3>1, <3>2
            DEF GatewayNext, AskForCard, ShowCard, Reject, PurgeLists,
                PurgeStops
  <2> QED BY <2>1 DEF UsedOnce
<1>3. ASSUME NEW m \in Requests, NEW r \in Recordings, GrantAudio(m, r)
      PROVE  UsedOnce'
  <2>1. \A n \in Requests : grant[n].used => grant'[n] = grant[n]
    BY <1>3 DEF GrantAudio, NoGrant, TypeOK
  <2> QED BY <1>3, <2>1 DEF GrantAudio, UsedOnce
<1>4. ASSUME NEW t \in Calls, NEW m \in Requests, ClaimAudio(t, m)
      PROVE  UsedOnce'
  <2>1. /\ ~grant[m].used
        /\ grant[m] # NoGrant
    BY <1>4, TimeAssumption DEF ClaimAudio, Usable, NoGrant, TypeOK
  <2>2. /\ \A n \in Requests : grant[n].used => grant'[n].used
        /\ grant'[m].used
    BY <1>4, <2>1, UseEffect DEF ClaimAudio
  <2>3. /\ returned' = returned
        /\ \A u \in Calls : retrieval'[u].req =
             IF u = t THEN {m} ELSE retrieval[u].req
    BY <1>4 DEF ClaimAudio, TypeOK
  <2> QED BY <2>1, <2>2, <2>3 DEF UsedOnce
<1>5. ASSUME NEW t \in Calls, Opens(t) \/ Fails(t)
      PROVE  UsedOnce'
  <2>1. /\ UNCHANGED <<grant, returned>>
        /\ \A u \in Calls : retrieval'[u].req \subseteq retrieval[u].req
    BY <1>5, Types DEF Opens, Fails, gateway, NoCall, CallType
  <2> QED BY <2>1 DEF UsedOnce
<1>6. ASSUME NEW t \in Calls, Returns(t)
      PROVE  UsedOnce'
  <2>1. /\ grant' = grant
        /\ \A u \in Calls : retrieval'[u].req =
             IF u = t THEN {} ELSE retrieval[u].req
        /\ \A m \in Requests :
             m \notin retrieval[t].req => returned'[m] = returned[m]
    BY <1>6 DEF Returns, NoCall, TypeOK
  <2> QED BY <2>1 DEF UsedOnce
<1>7. CASE Tick \/ UNCHANGED vars
  BY <1>7 DEF Tick, vars, gateway, UsedOnce
<1> QED BY <1>1, <1>2, <1>3, <1>4, <1>5, <1>6, <1>7 DEF Next, RetrievalNext

\* No step purges what has not expired, or names what has no row.
LEMMA PurgedExpiredKept ==
  ASSUME TypeOK, PurgedExpired, [Next]_vars
  PROVE  PurgedExpired'
<1>1. ASSUME NEW p \in Receivers, ReceiverNext(p)
      PROVE  PurgedExpired'
  BY <1>1, ReceiverEffect DEF PurgedExpired, gateway
<1>2. ASSUME NEW r \in Recordings, AskForCard(r) \/ ShowCard(r) \/ Reject(r)
      PROVE  PurgedExpired'
  BY <1>2 DEF AskForCard, ShowCard, Reject, PurgedExpired, TypeOK
<1>3. CASE PurgeLists \/ PurgeStops
  <2>1. /\ UNCHANGED <<now, row, until, card, grant>>
        /\ \A r \in purge'.list \cup purge'.gone : r \in ExpiredAudio
    BY <1>3 DEF PurgeLists, PurgeStops, NoPurge, TypeOK
  <2> QED BY <2>1 DEF PurgedExpired, ExpiredAudio
<1>4. CASE PurgeUnlinks
  <2>1. /\ UNCHANGED <<now, row, until, card, grant>>
        /\ \A r \in purge'.list \cup purge'.gone : r \in purge.list
    BY <1>4 DEF PurgeUnlinks, TypeOK
  <2> QED BY <2>1 DEF PurgedExpired
<1>5. CASE PurgeForgets
  <2>1. /\ UNCHANGED <<now, until, card>>
        /\ \A r \in Recordings :
             row'[r] = IF r \in purge.gone THEN "gone" ELSE row[r]
        /\ \A r \in purge'.list \cup purge'.gone : r \in purge.list
        /\ \A m \in Requests : grant'[m].rec = grant[m].rec
    BY <1>5, UseEffect DEF PurgeForgets
  <2> QED BY <2>1 DEF PurgedExpired
<1>6. CASE Reset
  BY <1>6, UseEffect DEF Reset, PurgedExpired
<1>7. ASSUME NEW m \in Requests, NEW r \in Recordings, GrantAudio(m, r)
      PROVE  PurgedExpired'
  <2>1. /\ UNCHANGED <<now, row, until, card, purge>>
        /\ row[r] # "none"
        /\ \A n \in Requests :
             grant'[n].rec = IF n = m THEN {r} ELSE grant[n].rec
    BY <1>7 DEF GrantAudio, NewGrant, AudioRecord, TypeOK
  <2> QED BY <2>1 DEF PurgedExpired
<1>8. ASSUME NEW t \in Calls, NEW m \in Requests, ClaimAudio(t, m)
      PROVE  PurgedExpired'
  BY <1>8, UseEffect DEF ClaimAudio, PurgedExpired
<1>9. ASSUME NEW t \in Calls, Opens(t) \/ Fails(t) \/ Returns(t)
      PROVE  PurgedExpired'
  BY <1>9 DEF Opens, Fails, Returns, gateway, PurgedExpired
<1>10. CASE Tick
  <2>1. /\ UNCHANGED <<row, until, card, purge, grant>>
        /\ now' = now + 1
    BY <1>10 DEF Tick, gateway
  <2>2. now \in Nat /\ \A r \in Recordings : until[r] \in Nat
    BY TimeAssumption DEF TypeOK, Times
  <2> QED BY <2>1, <2>2 DEF PurgedExpired
<1>11. CASE UNCHANGED vars
  BY <1>11 DEF vars, gateway, PurgedExpired
<1> QED BY <1>1, <1>2, <1>3, <1>4, <1>5, <1>6, <1>7, <1>8, <1>9, <1>10, <1>11
        DEF Next, GatewayNext, RetrievalNext

\* Nothing is asked for at the start.
LEMMA InitRequests ==
  ASSUME Init
  PROVE  RequestInv
BY DEF Init, RequestInv, UsedOnce, PurgedExpired, NoCall, NoGrant, NoPurge

\* What grants, retrievals and the purge know of each other stays true.
THEOREM RequestsConsistent == Spec => []RequestInv
<1>1. Init => RequestInv
  BY InitRequests
<1>2. TypeOK /\ RequestInv /\ [Next]_vars => RequestInv'
  BY UsedOnceKept, PurgedExpiredKept DEF RequestInv
<1> QED BY <1>1, <1>2, TypeCorrect, PTL DEF Spec

\* For any number of requests and tool calls: a request is answered with its
\* recording once, and with none that has expired or was forgotten meanwhile.
THEOREM HandedOutOnce == Spec => GrantOnce
<1>1. ASSUME TypeOK, RequestInv, [Next]_vars,
             NEW m \in Requests, returned'[m] # returned[m]
      PROVE  /\ returned[m] = 0
             /\ \A r \in grant[m].rec : now < until[r] /\ row[r] = "kept"
  <2>1. PICK t \in Calls : Returns(t)
    <3>1. ASSUME NEW p \in Receivers, ReceiverNext(p)
          PROVE  FALSE
      BY <1>1, <3>1, ReceiverEffect DEF gateway
    <3> QED BY <1>1, <3>1
            DEF Next, GatewayNext, AskForCard, ShowCard, Reject, PurgeLists,
                PurgeUnlinks,
                PurgeForgets, PurgeStops, Reset, RetrievalNext, GrantAudio,
                ClaimAudio, Opens, Fails, Tick, vars, gateway
  <2>2. m \in retrieval[t].req
    BY <1>1, <2>1 DEF Returns, TypeOK
  <2>3. returned[m] = 0
    BY <1>1, <2>2 DEF RequestInv, UsedOnce
  <2>4. ASSUME NEW r \in grant[m].rec
        PROVE  now < until[r] /\ row[r] = "kept"
    <3>1. r \in Recordings
      BY <1>1, Types, FewFacts DEF GrantType
    <3>2. now < until[r]
      BY <2>1, <2>2 DEF Returns
    <3>3. row[r] \notin {"none", "gone"}
      <4>1. now \in Nat /\ until[r] \in Nat
        BY <1>1, <3>1, TimeAssumption DEF TypeOK, Times
      <4> QED BY <1>1, <3>1, <3>2, <4>1 DEF RequestInv, PurgedExpired
    <3> QED BY <1>1, <3>1, <3>2, <3>3 DEF TypeOK
  <2> QED BY <2>3, <2>4
<1>2. TypeOK /\ RequestInv /\ [Next]_vars =>
        [\A m \in Requests : returned'[m] # returned[m] =>
           /\ returned[m] = 0
           /\ \A r \in grant[m].rec : now < until[r] /\ row[r] = "kept"]_vars
  BY <1>1
<1> QED BY <1>2, TypeCorrect, RequestsConsistent, PTL DEF Spec, GrantOnce

-----------------------------------------------------------------------------
(* The spool: one receiver at a time.                                      *)

OneReceiver ==
  \A p, q \in Receivers :
    receiver[p].pc # "down" /\ receiver[q].pc # "down" => p = q

\* A recording whose file must be there once its row is.
Fresh(r) == row[r] # "gone" /\ (card[r] = "none" \/ now < until[r])

\* What a sweep has read and listed spares every row it has seen.
SweepSpares ==
  /\ \A p \in Receivers, r \in Recordings :
       receiver[p].pc = "read" /\ row[r] = "kept" => r \in receiver[p].kept
  /\ \A p \in Receivers, r \in Recordings :
       receiver[p].pc = "sweeping" /\ r \in receiver[p].list => row[r] # "kept"

\* A delivery that has its file has not lost it, and one that has its row too
\* may be acknowledged.
DeliveryHasFile ==
  /\ \A p \in Receivers, r \in Recordings :
       /\ receiver[p].pc \in {"spooled", "stored", "again"}
       /\ r \in receiver[p].rec
       /\ Fresh(r)
       => r \in spool
  /\ \A p \in Receivers, r \in Recordings :
       receiver[p].pc \in {"stored", "again"} /\ r \in receiver[p].rec =>
         row[r] # "none"

AckedHasFile ==
  /\ \A r \in acked : row[r] # "none"
  /\ \A r \in acked \ spoiled : Fresh(r) => r \in spool

\* What a sweep has not listed has a row, and what the purge has unlinked comes
\* back late only.
SweepFindsAll ==
  /\ \A p \in Receivers : receiver[p].pc = "sweeping" =>
       /\ temps \subseteq receiver[p].list
       /\ \A r \in spool \ late : row[r] = "kept" \/ r \in receiver[p].list
  /\ \A p \in Receivers : receiver[p].pc = "read" =>
       \A r \in spool \ late : r \in receiver[p].kept => row[r] = "kept"
  /\ \A r \in purge.gone : r \in spool => r \in late

SpoolInv ==
  /\ OneReceiver
  /\ SweepSpares
  /\ DeliveryHasFile
  /\ AckedHasFile
  /\ SweepFindsAll

-----------------------------------------------------------------------------
(* Each step of a receiver preserves what it owes to the spool.            *)

\* A step of one receiver is no step of another.
LEMMA OneMoves ==
  ASSUME TypeOK, NEW p \in Receivers, ReceiverNext(p)
  PROVE  \A q \in Receivers \ {p} : receiver'[q] = receiver[q]
BY DEF TypeOK, ReceiverNext, SweepReads, SweepLists, SweepUnlinks, Binds, Dies,
       Deliver, Replaces, WriteFails, Inserts, InsertFails, Acknowledges, Step,
       Done

\* While one receiver takes a step all others are down.
LEMMA OthersDown ==
  ASSUME TypeOK, OneReceiver, ~Beside, NEW p \in Receivers, ReceiverNext(p)
  PROVE  \A q \in Receivers \ {p} :
           receiver[q].pc = "down" /\ receiver'[q] = receiver[q]
<1>1. \A q \in Receivers \ {p} : receiver'[q] = receiver[q]
  BY OneMoves
<1>2. CASE SweepReads(p)
  BY <1>1, <1>2 DEF SweepReads
<1>3. CASE ~SweepReads(p)
  <2>1. receiver[p].pc # "down"
    BY <1>3 DEF ReceiverNext, SweepLists, SweepUnlinks, Binds, Dies, Deliver,
                Replaces, WriteFails, Inserts, InsertFails, Acknowledges
  <2> QED BY <1>1, <2>1 DEF OneReceiver
<1> QED BY <1>2, <1>3

\* Steps that leave the receiver without an obligation, and the spool alone.
LEMMA FreeOfDebt ==
  ASSUME TypeOK, SpoolInv, NEW p \in Receivers,
         \A q \in Receivers \ {p} : receiver'[q].pc = "down",
         receiver'[p].pc \in {"down", "serving", "writing"},
         UNCHANGED <<now, row, until, spool, gateway, history>>
  PROVE  SpoolInv'
<1>1. OneReceiver' /\ SweepSpares' /\ DeliveryHasFile' /\ SweepFindsAll'
  <2>1. \A q \in Receivers :
          receiver'[q].pc \in {"down", "serving", "writing"}
    OBVIOUS
  <2> QED BY <2>1 DEF OneReceiver, SweepSpares, DeliveryHasFile, SweepFindsAll,
                      SpoolInv, gateway, history
<1>2. AckedHasFile'
  BY DEF SpoolInv, AckedHasFile, Fresh, gateway, history
<1> QED BY <1>1, <1>2 DEF SpoolInv

\* Every step of a receiver keeps what it owes to the spool.
LEMMA ReceiverKeepsSpool ==
  ASSUME TypeOK, PurgedExpired, SpoolInv, ~Beside,
         NEW p \in Receivers, ReceiverNext(p)
  PROVE  SpoolInv'
<1> DEFINE x == receiver[p]
           y == receiver'[p]
<1>1. /\ \A q \in Receivers \ {p} : receiver[q].pc = "down"
      /\ \A q \in Receivers \ {p} : receiver'[q].pc = "down"
  BY OthersDown DEF SpoolInv
<1>2. /\ receiver \in [Receivers -> ReceiverType]
      /\ x \in ReceiverType
      /\ x.rec \in Few(Recordings)
      /\ x.rec \subseteq Recordings
      /\ spool \subseteq Recordings
  BY Types, FewFacts DEF ReceiverType
<1>3. CASE SweepReads(p)
  <2>1. /\ y.pc = "read"
        /\ y.kept = {r \in Recordings : row[r] = "kept"}
        /\ UNCHANGED <<now, row, until, spool, temps, gateway, history>>
    BY <1>2, <1>3 DEF SweepReads, Down, disk
  <2>2. AckedHasFile'
    BY <2>1 DEF SpoolInv, AckedHasFile, Fresh, gateway, history
  <2>3. \A q \in Receivers : receiver'[q].pc # "down" => q = p
    BY <1>1
  <2>4. OneReceiver' /\ SweepSpares' /\ DeliveryHasFile' /\ SweepFindsAll'
    BY <2>1, <2>3 DEF SpoolInv, OneReceiver, SweepSpares, DeliveryHasFile,
                      SweepFindsAll, gateway, history
  <2> QED BY <2>2, <2>4 DEF SpoolInv
<1>4. CASE SweepLists(p)
  <2>1. /\ x.pc = "read"
        /\ y.pc = "sweeping"
        /\ y.list = (spool \ x.kept) \cup temps
        /\ UNCHANGED <<now, row, until, spool, temps, gateway, history>>
    BY <1>2, <1>4 DEF SweepLists, disk, ReceiverType
  <2>2. AckedHasFile'
    BY <2>1 DEF SpoolInv, AckedHasFile, Fresh, gateway, history
  <2>3. \A r \in Recordings : r \in y.list => row[r] # "kept"
    <3>1. ASSUME NEW r \in Recordings, r \in temps
          PROVE  FALSE
      <4>1. r \in Receivers \X Recordings
        BY <3>1, Types
      <4>2. PICK a \in Receivers, b \in Recordings : r = <<a, b>>
        BY <4>1
      <4> QED BY <4>2, NamesAssumption
    <3> QED BY <2>1, <3>1 DEF SpoolInv, SweepSpares
  <2>4. \A r \in spool \ late : row[r] = "kept" \/ r \in y.list
    BY <2>1 DEF SpoolInv, SweepFindsAll
  <2>5. \A r \in purge.gone : r \in spool => r \in late
    BY DEF SpoolInv, SweepFindsAll
  <2>6. \A q \in Receivers : receiver'[q].pc # "down" => q = p
    BY <1>1
  <2>7. OneReceiver'
    BY <2>6 DEF OneReceiver
  <2>8. SweepSpares' /\ DeliveryHasFile'
    BY <2>1, <2>3, <2>6 DEF SweepSpares, DeliveryHasFile
  <2>9. SweepFindsAll'
    BY <2>1, <2>4, <2>5, <2>6 DEF SweepFindsAll, gateway, history
  <2> QED BY <2>2, <2>7, <2>8, <2>9 DEF SpoolInv
<1>5. CASE SweepUnlinks(p)
  <2>1. PICK file \in x.list :
          /\ Unlink({file})
          /\ temps' = temps \ {file}
          /\ receiver' = [receiver EXCEPT ![p].list = @ \ {file}]
    BY <1>5 DEF SweepUnlinks
  <2>2. /\ x.pc = "sweeping"
        /\ y.pc = "sweeping"
        /\ y.list = x.list \ {file}
        /\ spool' = spool \ {file}
        /\ UNCHANGED <<now, row, until, gateway, history>>
    BY <1>2, <1>5, <2>1, UnlinkEffect DEF SweepUnlinks, ReceiverType
  <2>3. \A r \in Recordings : r = file => row[r] # "kept"
    BY <2>2 DEF SpoolInv, SweepSpares
  <2>4. AckedHasFile'
    <3>1. \A r \in acked : r \in Recordings
      BY Types
    <3>2. \A r \in Recordings : row[r] \in {"none", "kept", "gone"}
      BY Types
    <3> QED BY <2>2, <2>3, <3>1, <3>2
            DEF SpoolInv, AckedHasFile, Fresh, gateway, history
  <2>5. \A q \in Receivers : receiver'[q].pc # "down" => q = p
    BY <1>1
  <2>6. OneReceiver'
    BY <2>5 DEF OneReceiver
  <2>7. SweepSpares' /\ DeliveryHasFile'
    BY <2>2, <2>5 DEF SpoolInv, SweepSpares, DeliveryHasFile
  <2>8. SweepFindsAll'
    BY <2>1, <2>2, <2>5 DEF SpoolInv, SweepFindsAll, gateway, history
  <2> QED BY <2>4, <2>6, <2>7, <2>8 DEF SpoolInv
<1>6. CASE Binds(p) \/ Dies(p) \/ WriteFails(p)
  <2>1. y.pc \in {"down", "serving"}
    BY <1>2, <1>6 DEF Binds, Dies, WriteFails, Done, Down
  <2>2. UNCHANGED <<now, row, until, spool, gateway, history>>
    BY <1>6 DEF Binds, Dies, WriteFails, disk
  <2> QED BY <1>1, <2>1, <2>2, FreeOfDebt
<1>7. ASSUME NEW r \in Recordings, Deliver(p, r)
      PROVE  SpoolInv'
  <2>1. UNCHANGED <<now, row, until, spool, gateway, history>>
    BY <1>7 DEF Deliver
  <2>2. CASE r \notin spool
    <3>1. y.pc = "writing"
      BY <1>2, <1>7, <2>2 DEF Deliver, ReceiverType
    <3> QED BY <1>1, <2>1, <3>1, FreeOfDebt
  <2>3. CASE r \in spool
    <3>1. y.pc = "spooled" /\ y.rec = {r}
      BY <1>2, <1>7, <2>3 DEF Deliver, ReceiverType
    <3>2. \A q \in Receivers : receiver'[q].pc # "down" => q = p
      BY <1>1
    <3>3. OneReceiver' /\ SweepSpares'
      BY <3>1, <3>2 DEF OneReceiver, SweepSpares
    <3>4. DeliveryHasFile'
      BY <2>1, <2>3, <3>1, <3>2 DEF DeliveryHasFile
    <3>5. SweepFindsAll' /\ AckedHasFile'
      BY <2>1, <3>1, <3>2 DEF SpoolInv, SweepFindsAll, AckedHasFile, Fresh,
                              gateway, history
    <3> QED BY <3>3, <3>4, <3>5 DEF SpoolInv
  <2> QED BY <2>2, <2>3
<1>8. CASE Replaces(p)
  <2>1. PICK r \in x.rec :
          /\ x.pc = "writing"
          /\ spool' = spool \cup {r}
          /\ late' = IF row[r] # "none" /\ now >= until[r]
                     THEN late \cup {r} ELSE late
          /\ receiver' = [receiver EXCEPT ![p].pc = "spooled"]
          /\ UNCHANGED <<now, row, until, gateway, acked, spoiled>>
    BY <1>8 DEF Replaces, Step
  <2>2. y.pc = "spooled" /\ y.rec = x.rec
    BY <1>2, <2>1 DEF ReceiverType
  <2>3. \A q \in x.rec : q = r
    BY <1>2, <2>1 DEF Few
  <2>4. \A q \in Receivers : receiver'[q].pc # "down" => q = p
    BY <1>1
  <2>5. OneReceiver' /\ SweepSpares'
    BY <2>2, <2>4 DEF OneReceiver, SweepSpares
  <2>6. DeliveryHasFile'
    BY <2>1, <2>2, <2>3, <2>4 DEF DeliveryHasFile
  <2>7. AckedHasFile'
    BY <2>1 DEF SpoolInv, AckedHasFile, Fresh, gateway
  <2>8. SweepFindsAll'
    <3>1. r \in purge.gone => row[r] # "none" /\ now >= until[r]
      BY <1>2, <2>1 DEF PurgedExpired
    <3> QED BY <2>1, <2>2, <2>4, <3>1 DEF SpoolInv, SweepFindsAll, gateway
  <2> QED BY <2>5, <2>6, <2>7, <2>8 DEF SpoolInv
<1>9. CASE Inserts(p)
  <2>1. PICK r \in x.rec :
          /\ x.pc = "spooled"
          /\ \/ /\ row[r] = "none"
                /\ row' = [row EXCEPT ![r] = "kept"]
                /\ until' = [until EXCEPT ![r] = x.at + Retention]
                /\ receiver' = [receiver EXCEPT ![p].pc = "stored"]
             \/ /\ row[r] # "none"
                /\ receiver' = [receiver EXCEPT ![p].pc = "again"]
                /\ UNCHANGED <<row, until>>
          /\ UNCHANGED <<now, spool, temps, gateway, history>>
    BY <1>9 DEF Inserts, Step, disk
  <2>2. y.pc \in {"stored", "again"} /\ y.rec = x.rec
    BY <1>2, <2>1 DEF ReceiverType
  <2>3. \A q \in x.rec : q = r
    BY <1>2, <2>1 DEF Few
  <2>4. /\ \A q \in Recordings \ {r} : row'[q] = row[q] /\ until'[q] = until[q]
        /\ row'[r] # "none"
        /\ row[r] # "none" => row'[r] = row[r] /\ until'[r] = until[r]
    BY <1>2, <2>1, Types
  <2>5. \A q \in Recordings : Fresh(q)' => Fresh(q)
    BY <2>1, <2>4 DEF PurgedExpired, Fresh, gateway
  <2>6. \A q \in Receivers : receiver'[q].pc # "down" => q = p
    BY <1>1
  <2>7. OneReceiver' /\ SweepSpares'
    BY <2>2, <2>6 DEF OneReceiver, SweepSpares
  <2>8. DeliveryHasFile'
    BY <2>1, <2>2, <2>3, <2>4, <2>5, <2>6 DEF SpoolInv, DeliveryHasFile
  <2>9. AckedHasFile'
    <3>1. \A q \in acked : q \in Recordings
      BY Types
    <3> QED BY <2>1, <2>4, <2>5, <3>1 DEF SpoolInv, AckedHasFile, history
  <2>10. SweepFindsAll'
    BY <2>1, <2>2, <2>6 DEF SpoolInv, SweepFindsAll, gateway, history
  <2> QED BY <2>7, <2>8, <2>9, <2>10 DEF SpoolInv
<1>10. CASE InsertFails(p) \/ Acknowledges(p)
  <2>1. /\ y.pc = "serving"
        /\ UNCHANGED <<now, row, until, temps, gateway, late>>
    BY <1>2, <1>10 DEF InsertFails, Acknowledges, Done, Down
  <2>2. spool' \subseteq spool
    BY <1>10, UnlinkEffect DEF InsertFails, Acknowledges
  <2>3. \A q \in Receivers : receiver'[q].pc \in {"down", "serving"}
    BY <1>1, <2>1
  <2>4. OneReceiver' /\ SweepSpares' /\ DeliveryHasFile'
    BY <1>1, <2>3 DEF OneReceiver, SweepSpares, DeliveryHasFile
  <2>5. SweepFindsAll'
    BY <2>1, <2>2, <2>3 DEF SpoolInv, SweepFindsAll, gateway
  <2>6. CASE InsertFails(p)
    <3>1. /\ spool' = spool \ x.rec
          /\ spoiled' = spoiled \cup {r \in x.rec : row[r] # "none"}
          /\ acked' = acked
      BY <2>6, UnlinkEffect DEF InsertFails
    <3>2. AckedHasFile'
      BY <2>1, <3>1 DEF SpoolInv, AckedHasFile, Fresh, gateway
    <3> QED BY <2>4, <2>5, <3>2 DEF SpoolInv
  <2>7. CASE Acknowledges(p)
    <3>1. PICK r \in x.rec :
            /\ x.pc \in {"stored", "again"}
            /\ Unlink(IF x.pc = "again" /\ row[r] # "kept" THEN {r} ELSE {})
            /\ acked' = acked \cup {r}
            /\ UNCHANGED spoiled
      BY <2>7 DEF Acknowledges
    <3>2. /\ row[r] \in {"kept", "gone"}
          /\ Fresh(r) => r \in spool
      <4>1. r \in Recordings /\ row[r] \in {"none", "kept", "gone"}
        BY <1>2, <3>1, Types
      <4> QED BY <3>1, <4>1 DEF SpoolInv, DeliveryHasFile
    <3>3. /\ \A q \in spool \ spool' : q = r
          /\ r \notin spool' /\ r \in spool => row[r] # "kept"
      BY <3>1, UnlinkEffect
    <3>4. AckedHasFile'
      BY <2>1, <3>1, <3>2, <3>3 DEF SpoolInv, AckedHasFile, Fresh, gateway
    <3> QED BY <2>4, <2>5, <3>4 DEF SpoolInv
  <2> QED BY <1>10, <2>6, <2>7
<1> QED BY <1>3, <1>4, <1>5, <1>6, <1>7, <1>8, <1>9, <1>10 DEF ReceiverNext

-----------------------------------------------------------------------------
(* Steps of the gateway.                                                   *)

\* The gateway touches no receiver; a file it takes away belongs to a recording
\* that has expired, and a row it forgets lost its file before.
LEMMA GatewayKeepsSpool ==
  ASSUME TypeOK, PurgedExpired, SpoolInv, GatewayNext
  PROVE  SpoolInv'
<1>1. UNCHANGED <<now, until, temps, receiver, history>>
  BY DEF GatewayNext, AskForCard, ShowCard, Reject, PurgeLists, PurgeUnlinks,
         PurgeForgets,
         PurgeStops, Reset, disk
<1>2. OneReceiver'
  BY <1>1 DEF SpoolInv, OneReceiver
<1>3. /\ \A r \in acked : r \in Recordings
      /\ spool \subseteq Recordings
      /\ purge.gone \subseteq Recordings
      /\ \A p \in Receivers : receiver[p].rec \subseteq Recordings
      /\ now \in Nat
      /\ \A r \in Recordings : until[r] \in Nat
  BY Types, FewFacts, TimeAssumption DEF ReceiverType, PurgeType, Times
<1>4. CASE /\ UNCHANGED <<row, spool>>
           /\ purge'.gone \in {purge.gone, {}}
           /\ \A r \in Recordings : card'[r] = card[r] \/ card'[r] # "none"
  <2>1. \A r \in Recordings : Fresh(r)' => Fresh(r)
    BY <1>1, <1>4 DEF Fresh
  <2> QED BY <1>1, <1>2, <1>3, <1>4, <2>1
          DEF SpoolInv, SweepSpares, DeliveryHasFile, AckedHasFile,
              SweepFindsAll, history
<1>5. ASSUME NEW r \in Recordings, AskForCard(r) \/ ShowCard(r) \/ Reject(r)
      PROVE  SpoolInv'
  BY <1>4, <1>5 DEF AskForCard, ShowCard, Reject, TypeOK, disk
<1>6. CASE PurgeLists \/ PurgeStops \/ Reset
  BY <1>4, <1>6 DEF PurgeLists, PurgeStops, NoPurge, Reset, TypeOK, disk
<1>7. CASE PurgeUnlinks
  <2>1. PICK r \in purge.list :
          /\ Unlink({r})
          /\ purge' = [purge EXCEPT !.gone = {r}]
          /\ UNCHANGED <<row, card>>
    BY <1>7 DEF PurgeUnlinks
  <2>2. spool' = spool \ {r} /\ purge'.gone = {r}
    BY <2>1, UnlinkEffect, Types DEF PurgeType
  <2>3. r \in Recordings
    BY <2>1, Types DEF PurgeType
  <2>4. ~Fresh(r)
    BY <1>3, <2>1, <2>3 DEF PurgedExpired, Fresh
  <2>5. SweepSpares' /\ SweepFindsAll'
    BY <1>1, <2>1, <2>2 DEF SpoolInv, SweepSpares, SweepFindsAll, history
  <2>6. DeliveryHasFile' /\ AckedHasFile'
    BY <1>1, <2>1, <2>2, <2>4 DEF SpoolInv, DeliveryHasFile, AckedHasFile, Fresh,
                                  history
  <2> QED BY <1>2, <2>5, <2>6 DEF SpoolInv
<1>8. CASE PurgeForgets
  <2>1. /\ \A r \in Recordings :
             row'[r] = IF r \in purge.gone THEN "gone" ELSE row[r]
        /\ purge'.gone = {}
        /\ UNCHANGED <<spool, card>>
    BY <1>8 DEF PurgeForgets, disk
  <2>2. \A r \in purge.gone : r \in spool => r \in late
    BY DEF SpoolInv, SweepFindsAll
  <2>3. \A r \in Recordings : Fresh(r)' => Fresh(r)
    BY <1>1, <2>1 DEF Fresh
  <2>4. SweepSpares' /\ SweepFindsAll'
    BY <1>1, <1>3, <2>1, <2>2 DEF SpoolInv, SweepSpares, SweepFindsAll, history
  <2>5. DeliveryHasFile' /\ AckedHasFile'
    BY <1>1, <1>3, <2>1, <2>3 DEF SpoolInv, DeliveryHasFile, AckedHasFile,
                                  history
  <2> QED BY <1>2, <2>4, <2>5 DEF SpoolInv
<1> QED BY <1>5, <1>6, <1>7, <1>8 DEF GatewayNext

\* Every step keeps the invariant of the spool.
LEMMA StepKeepsSpool ==
  ASSUME TypeOK, RequestInv, SpoolInv, ~Beside, [Next]_vars
  PROVE  SpoolInv'
<1>1. CASE \E p \in Receivers : ReceiverNext(p)
  BY <1>1, ReceiverKeepsSpool DEF RequestInv
<1>2. CASE GatewayNext
  BY <1>2, GatewayKeepsSpool DEF RequestInv
<1>3. CASE RetrievalNext \/ UNCHANGED vars
  <2>1. UNCHANGED <<now, row, until, spool, temps, receiver, card, purge,
                    history>>
    BY <1>3 DEF RetrievalNext, GrantAudio, ClaimAudio, Opens, Returns, Fails,
                vars, disk, gateway
  <2> QED BY <2>1 DEF SpoolInv, OneReceiver, SweepSpares, DeliveryHasFile,
                      AckedHasFile, SweepFindsAll, Fresh, history
<1>4. CASE Tick
  <2>1. /\ now' = now + 1
        /\ UNCHANGED <<row, until, spool, temps, receiver, card, purge, history>>
    BY <1>4 DEF Tick, disk, gateway
  <2>2. /\ now \in Nat
        /\ \A r \in Recordings : until[r] \in Nat
        /\ \A r \in acked : r \in Recordings
    BY TimeAssumption DEF TypeOK, Times
  <2>3. \A r \in Recordings : Fresh(r)' => Fresh(r)
    BY <2>1, <2>2 DEF Fresh
  <2> QED BY <2>1, <2>2, <2>3
          DEF SpoolInv, OneReceiver, SweepSpares, DeliveryHasFile, AckedHasFile,
              SweepFindsAll, history
<1> QED BY <1>1, <1>2, <1>3, <1>4 DEF Next

\* Nothing is owed at the start.
LEMMA InitSpool ==
  ASSUME Init
  PROVE  SpoolInv
BY DEF Init, Down, NoPurge, SpoolInv, OneReceiver, SweepSpares, DeliveryHasFile,
       AckedHasFile, SweepFindsAll

\* With one receiver at a time, what a sweep, a delivery and the purge know of
\* the spool stays true through every crash.
THEOREM SpoolConsistent ==
  ASSUME ~Beside
  PROVE  Spec => []SpoolInv
<1>1. Init => SpoolInv
  BY InitSpool
<1>2. TypeOK /\ RequestInv /\ SpoolInv /\ [Next]_vars => SpoolInv'
  BY StepKeepsSpool
<1> QED BY <1>1, <1>2, TypeCorrect, RequestsConsistent, PTL DEF Spec

\* With one receiver at a time, an acknowledged recording can be retrieved until
\* it expires, however many recordings, crashes and second deliveries there are.
THEOREM AckedKeptOnDisk ==
  ASSUME ~Beside
  PROVE  Spec => []AckedHasRecording
<1>1. SpoolInv => AckedHasRecording
  BY DEF SpoolInv, AckedHasFile, AckedHasRecording, Fresh
<1> QED BY <1>1, SpoolConsistent, PTL

\* With one receiver at a time, a sweep that comes to its end has removed all
\* that earlier receivers left behind.
THEOREM SweepLeavesNothing ==
  ASSUME ~Beside
  PROVE  Spec => SweepCleans
<1>1. ASSUME TypeOK, SpoolInv, [Next]_vars, NEW p \in Receivers,
             receiver[p].pc = "sweeping", receiver'[p].pc = "serving"
      PROVE  temps' = {} /\ \A r \in spool' \ late : row'[r] = "kept"
  <2>1. Binds(p)
    <3>1. PICK q \in Receivers : ReceiverNext(q)
      BY <1>1 DEF Next, GatewayNext, AskForCard, ShowCard, Reject, PurgeLists,
                  PurgeUnlinks,
                  PurgeForgets, PurgeStops, Reset, RetrievalNext, GrantAudio,
                  ClaimAudio, Opens, Returns, Fails, Tick, vars, disk, gateway
    <3>2. q = p
      BY <1>1, <3>1, OneMoves
    <3>3. receiver[p] \in ReceiverType
      BY <1>1, Types
    <3>4. ~SweepUnlinks(p)
      <4>1. ASSUME NEW file
            PROVE  [receiver[p] EXCEPT !.list = @ \ {file}].pc = "sweeping"
        BY <1>1, <3>3 DEF ReceiverType
      <4> QED BY <1>1, <4>1, Types DEF SweepUnlinks
    <3>5. ~Dies(p)
      BY <1>1, Types DEF Dies, Down
    <3> QED BY <1>1, <3>1, <3>2, <3>4, <3>5
            DEF ReceiverNext, SweepReads, SweepLists, Deliver, Replaces,
                WriteFails, Inserts, InsertFails, Acknowledges
  <2> QED BY <1>1, <2>1 DEF Binds, disk, SpoolInv, SweepFindsAll
<1>2. TypeOK /\ SpoolInv /\ [Next]_vars =>
        [\A p \in Receivers :
           receiver[p].pc = "sweeping" /\ receiver'[p].pc = "serving" =>
             /\ temps' = {}
             /\ \A r \in spool' \ late : row'[r] = "kept"]_vars
  BY <1>1
<1> QED BY <1>2, SpoolConsistent, TypeCorrect, PTL DEF Spec, SweepCleans

=============================================================================
