------------------------------ MODULE Recordings ------------------------------
(***************************************************************************)
(* The recordings of captures: repository.py, receiver.py, audio.py,       *)
(* audio_tools.py and the audio part of relay_store.py and service.py.     *)
(*                                                                         *)
(* A receiver, a process of its own, writes a recording to the spool and   *)
(* then commits the row that names it. The gateway purges what is past its *)
(* retention, file first, and hands a recording out once per request of a  *)
(* person; tools may run in threads beside the gateway's event loop. Only  *)
(* the database is transactional.                                          *)
(***************************************************************************)
EXTENDS Naturals

CONSTANTS
  Recordings,  \* what the Ring delivers: a fingerprint, so at most one row
  Receivers,   \* receiver processes; a process id is not used twice at once
  Requests,    \* messages and button presses that ask for a recording
  Calls,       \* retrievals that may run at once
  Beside,      \* a receiver may be started while another one lives
  Retention,   \* audio_retention_ms
  GrantTime,   \* how long a request is good for
  MaxTime      \* bound on the clock

ASSUME TimeAssumption == {Retention, GrantTime, MaxTime} \subseteq Nat \ {0}
ASSUME BesideAssumption == Beside \in BOOLEAN
\* A temporary file has a name that no recording has.
ASSUME NamesAssumption ==
  \A r, q \in Recordings, p \in Receivers : r # <<p, q>>

Times == 0..(MaxTime + Retention)
Serving == {"serving", "writing", "spooled", "stored", "again"}

VARIABLES
  now,
  row,       \* captures: no row, audio_path kept, or audio_path NULL
  card,      \* relay_requests: no row, a row whose message id is not known,
             \* one with a message id, rejected
  until,     \* audio_expires_at
  spool,     \* recordings with a file under their final name
  temps,     \* <<p, r>>: the temporary file of receiver p
  receiver,  \* receiver[p]: what process p is doing
  purge,     \* purge_expired_audio: what it listed and what it has unlinked
  grant,     \* relay_audio_grants, by message
  retrieval, \* retrieval[t]: one run of retrieve_audio
  returned,  \* recordings handed out for a request (history)
  acked,     \* recordings answered with 202 (history)
  spoiled,   \* those whose file went in the rollback of a delivery (history)
  late       \* those whose file was put in place after they expired (history)

disk == <<spool, temps>>
gateway == <<card, purge, grant, returned>>
history == <<acked, spoiled, late>>
vars == <<now, row, until, disk, receiver, gateway, retrieval, history>>

Down == [pc |-> "down", rec |-> {}, kept |-> {}, list |-> {}, at |-> 0]
NoGrant == [rec |-> {}, used |-> FALSE, expires |-> 0]
NoCall == [pc |-> "idle", req |-> {}]
NoPurge == [list |-> {}, gone |-> {}]

Init ==
  /\ now = 0
  /\ row = [r \in Recordings |-> "none"]
  /\ card = [r \in Recordings |-> "none"]
  /\ until = [r \in Recordings |-> 0]
  /\ spool = {}
  /\ temps = {}
  /\ receiver = [p \in Receivers |-> Down]
  /\ purge = NoPurge
  /\ grant = [m \in Requests |-> NoGrant]
  /\ retrieval = [t \in Calls |-> NoCall]
  /\ returned = [m \in Requests |-> 0]
  /\ acked = {}
  /\ spoiled = {}
  /\ late = {}

\* A retrieval that has a file open sees in its second fstat that it is gone.
Unlink(files) ==
  /\ spool' = spool \ files
  /\ retrieval' = [t \in Calls |->
       IF /\ retrieval[t].pc = "reading"
          /\ \E m \in retrieval[t].req : grant[m].rec \subseteq files
       THEN [retrieval[t] EXCEPT !.pc = "stale"] ELSE retrieval[t]]

-----------------------------------------------------------------------------
(* A receiver starts: Repository() sweeps the spool, then uvicorn binds.   *)

Step(p, pc) == receiver' = [receiver EXCEPT ![p].pc = pc]

SweepReads(p) ==
  /\ receiver[p].pc = "down"
  /\ Beside \/ \A q \in Receivers : receiver[q].pc = "down"
  /\ receiver' = [receiver EXCEPT ![p] =
       [Down EXCEPT !.pc = "read", !.kept = {r \in Recordings : row[r] = "kept"}]]
  /\ UNCHANGED <<now, row, until, disk, gateway, retrieval, history>>

\* Wrong on purpose: only what looks like a recording is looked at.
SweepListsFinal(p) ==
  /\ receiver[p].pc = "read"
  /\ receiver' = [receiver EXCEPT ![p].pc = "sweeping", ![p].kept = {},
                                  ![p].list = spool \ receiver[p].kept]
  /\ UNCHANGED <<now, row, until, disk, gateway, retrieval, history>>

\* The directory is listed after the rows are read; temporary files too.
SweepLists(p) ==
  /\ receiver[p].pc = "read"
  /\ receiver' = [receiver EXCEPT ![p].pc = "sweeping", ![p].kept = {},
                     ![p].list = (spool \ receiver[p].kept) \cup temps]
  /\ UNCHANGED <<now, row, until, disk, gateway, retrieval, history>>

SweepUnlinks(p) ==
  /\ receiver[p].pc = "sweeping"
  /\ \E file \in receiver[p].list :
       /\ Unlink({file})
       /\ temps' = temps \ {file}
       /\ receiver' = [receiver EXCEPT ![p].list = @ \ {file}]
  /\ UNCHANGED <<now, row, until, gateway, history>>

\* A port that is taken ends the process.
Binds(p) ==
  /\ receiver[p].pc = "sweeping"
  /\ receiver[p].list = {}
  /\ receiver' = [receiver EXCEPT ![p] =
       IF \E q \in Receivers : receiver[q].pc \in Serving
       THEN Down ELSE [Down EXCEPT !.pc = "serving"]]
  /\ UNCHANGED <<now, row, until, disk, gateway, retrieval, history>>

\* The process is stopped, killed, or fails to open its database.
Dies(p) ==
  /\ receiver[p].pc # "down"
  /\ receiver' = [receiver EXCEPT ![p] = Down]
  /\ UNCHANGED <<now, row, until, disk, gateway, retrieval, history>>

-----------------------------------------------------------------------------
(* A delivery: one request at a time, because the handler does not await   *)
(* after the checks, which only decide whether it comes this far.          *)

Deliver(p, r) ==
  /\ receiver[p].pc = "serving"
  /\ receiver' = [receiver EXCEPT ![p].rec = {r}, ![p].at = now,
                    ![p].pc = IF r \in spool THEN "spooled" ELSE "writing"]
  /\ temps' = IF r \in spool THEN temps ELSE temps \cup {<<p, r>>}
  /\ UNCHANGED <<now, row, until, spool, gateway, retrieval, history>>

Done(p) == receiver' = [receiver EXCEPT ![p] = [Down EXCEPT !.pc = "serving"]]

\* The file gets its final name when all of it is on the disk.
Replaces(p) ==
  \E r \in receiver[p].rec :
    /\ receiver[p].pc = "writing"
    /\ <<p, r>> \in temps
    /\ temps' = temps \ {<<p, r>>}
    /\ spool' = spool \cup {r}
    /\ late' = IF row[r] # "none" /\ now >= until[r] THEN late \cup {r} ELSE late
    /\ Step(p, "spooled")
    /\ UNCHANGED <<now, row, until, gateway, retrieval, acked, spoiled>>

\* A write that fails, or a temporary file that is no longer there: 500. After
\* the rename (fsync of the directory), or when the database is busy at BEGIN,
\* the file stays.
WriteFails(p) ==
  /\ receiver[p].pc \in {"writing", "spooled"}
  /\ temps' = {t \in temps : t[1] # p}
  /\ Done(p)
  /\ UNCHANGED <<now, row, until, spool, gateway, retrieval, history>>

\* INSERT OR IGNORE: a fingerprint has one row, whatever has become of it.
Inserts(p) ==
  \E r \in receiver[p].rec :
    /\ receiver[p].pc = "spooled"
    /\ \/ /\ row[r] = "none"
          /\ row' = [row EXCEPT ![r] = "kept"]
          /\ until' = [until EXCEPT ![r] = receiver[p].at + Retention]
          /\ Step(p, "stored")
       \/ /\ row[r] # "none"
          /\ Step(p, "again")
          /\ UNCHANGED <<row, until>>
    /\ UNCHANGED <<now, disk, gateway, retrieval, history>>

\* INSERT or COMMIT fails: the rollback takes the file along, also that of an
\* earlier delivery of the same recording.
InsertFails(p) ==
  /\ receiver[p].pc = "spooled"
  /\ Unlink(receiver[p].rec)
  /\ spoiled' = spoiled \cup {r \in receiver[p].rec : row[r] # "none"}
  /\ Done(p)
  /\ UNCHANGED <<now, row, until, temps, gateway, acked, late>>

\* Wrong on purpose: the file of a duplicate is taken for a second copy.
AcknowledgesDropping(p) ==
  \E r \in receiver[p].rec :
    /\ receiver[p].pc \in {"stored", "again"}
    /\ Unlink(IF receiver[p].pc = "again" THEN {r} ELSE {})
    /\ acked' = acked \cup {r}
    /\ Done(p)
    /\ UNCHANGED <<now, row, until, temps, gateway, spoiled, late>>

\* 202. A duplicate whose row no longer names the file takes the file back.
Acknowledges(p) ==
  \E r \in receiver[p].rec :
    /\ receiver[p].pc \in {"stored", "again"}
    /\ Unlink(IF receiver[p].pc = "again" /\ row[r] # "kept" THEN {r} ELSE {})
    /\ acked' = acked \cup {r}
    /\ Done(p)
    /\ UNCHANGED <<now, row, until, temps, gateway, spoiled, late>>

-----------------------------------------------------------------------------
(* The gateway: cards, and the purge of its publisher.                     *)

\* claim_card(): the row is there before the card is; it may stay without one.
AskForCard(r) ==
  /\ row[r] # "none"
  /\ card[r] = "none"
  /\ card' = [card EXCEPT ![r] = "asked"]
  /\ UNCHANGED <<now, row, until, disk, receiver, purge, grant, retrieval,
                 returned, history>>

ShowCard(r) ==
  /\ card[r] = "asked"
  /\ card' = [card EXCEPT ![r] = "shown"]
  /\ UNCHANGED <<now, row, until, disk, receiver, purge, grant, retrieval,
                 returned, history>>

Reject(r) ==
  /\ card[r] = "shown"
  /\ card' = [card EXCEPT ![r] = "rejected"]
  /\ UNCHANGED <<now, row, until, disk, receiver, purge, grant, retrieval,
                 returned, history>>

\* Wrong on purpose: a rejected capture is looked for like an open one.
ExpiredAudioShown ==
  {r \in Recordings : row[r] = "kept" /\ card[r] = "shown" /\ now >= until[r]}

\* Any request row will do, with or without a card. LIMIT 100 is not reached.
ExpiredAudio ==
  {r \in Recordings : row[r] = "kept" /\ card[r] # "none" /\ now >= until[r]}

PurgeLists ==
  /\ purge = NoPurge
  /\ ExpiredAudio # {}
  /\ purge' = [purge EXCEPT !.list = ExpiredAudio]
  /\ UNCHANGED <<now, row, until, disk, receiver, card, grant, retrieval,
                 returned, history>>

PurgeUnlinks ==
  /\ purge.gone = {}
  /\ \E r \in purge.list :
       /\ Unlink({r})
       /\ purge' = [purge EXCEPT !.gone = {r}]
  /\ UNCHANGED <<now, row, until, temps, receiver, card, grant, returned,
                 history>>

Use(ms) ==
  grant' = [m \in Requests |-> IF m \in ms /\ grant[m] # NoGrant
                               THEN [grant[m] EXCEPT !.used = TRUE]
                               ELSE grant[m]]

PurgeForgets ==
  /\ purge.gone # {}
  /\ row' = [r \in Recordings |-> IF r \in purge.gone THEN "gone" ELSE row[r]]
  /\ Use({m \in Requests : grant[m].rec = purge.gone})
  /\ purge' = [list |-> purge.list \ purge.gone, gone |-> {}]
  /\ UNCHANGED <<now, until, disk, receiver, card, retrieval, returned,
                 history>>

\* The database is busy, or the gateway dies.
PurgeStops ==
  /\ purge # NoPurge
  /\ purge' = NoPurge
  /\ UNCHANGED <<now, row, until, disk, receiver, card, grant, retrieval,
                 returned, history>>

-----------------------------------------------------------------------------
(* A request, and the retrievals made for it.                              *)

\* audio_record(): what a grant and a claim both ask for.
AudioRecord(r) == card[r] = "shown" /\ now < until[r] /\ row[r] = "kept"

\* Wrong on purpose: a request is good for longer than its recording.
NewGrantUncut(r) ==
  [rec |-> {r}, used |-> FALSE, expires |-> now + GrantTime]

NewGrant(r) ==
  LET soon == now + GrantTime IN
  [rec |-> {r}, used |-> FALSE,
   expires |-> IF soon < until[r] THEN soon ELSE until[r]]

\* INSERT OR IGNORE: a message names one recording and asks once.
GrantAudio(m, r) ==
  /\ AudioRecord(r)
  /\ grant[m] = NoGrant
  /\ grant' = [grant EXCEPT ![m] = NewGrant(r)]
  /\ UNCHANGED <<now, row, until, disk, receiver, card, purge, retrieval,
                 returned, history>>

Usable(m) == ~grant[m].used /\ grant[m].expires > now

\* Wrong on purpose: the grant is marked when the recording has been read.
ClaimAudioUnmarked(t, m) ==
  /\ retrieval[t].pc = "idle"
  /\ Usable(m)
  /\ \A r \in grant[m].rec : AudioRecord(r)
  /\ retrieval' = [retrieval EXCEPT ![t] = [pc |-> "claimed", req |-> {m}]]
  /\ UNCHANGED <<now, row, until, disk, receiver, gateway, history>>

ClaimAudio(t, m) ==
  /\ retrieval[t].pc = "idle"
  /\ Usable(m)
  /\ \A r \in grant[m].rec : AudioRecord(r)
  /\ Use({m})
  /\ retrieval' = [retrieval EXCEPT ![t] = [pc |-> "claimed", req |-> {m}]]
  /\ UNCHANGED <<now, row, until, disk, receiver, card, purge, returned,
                 history>>

Opens(t) ==
  /\ retrieval[t].pc = "claimed"
  /\ \A m \in retrieval[t].req : grant[m].rec \subseteq spool
  /\ retrieval' = [retrieval EXCEPT ![t].pc = "reading"]
  /\ UNCHANGED <<now, row, until, disk, receiver, gateway, history>>

\* All of it was read, it is the same file as before, and it is still time.
Returns(t) ==
  /\ retrieval[t].pc = "reading"
  /\ \A m \in retrieval[t].req : \A r \in grant[m].rec : now < until[r]
  /\ returned' = [m \in Requests |->
       returned[m] + (IF m \in retrieval[t].req THEN 1 ELSE 0)]
  /\ retrieval' = [retrieval EXCEPT ![t] = NoCall]
  /\ UNCHANGED <<now, row, until, disk, receiver, card, purge, grant, history>>

\* The grant stays used: the person has to ask again.
Fails(t) ==
  /\ retrieval[t].pc # "idle"
  /\ retrieval' = [retrieval EXCEPT ![t] = NoCall]
  /\ UNCHANGED <<now, row, until, disk, receiver, gateway, history>>

\* /new and /reset use up the grants of the channel, or those of one thread.
Reset ==
  /\ \E ms \in SUBSET Requests : Use(ms)
  /\ UNCHANGED <<now, row, until, disk, receiver, card, purge, retrieval,
                 returned, history>>

Tick ==
  /\ now < MaxTime
  /\ now' = now + 1
  /\ UNCHANGED <<row, until, disk, receiver, gateway, retrieval, history>>

-----------------------------------------------------------------------------
ReceiverNext(p) ==
  \/ SweepReads(p)
  \/ SweepLists(p)
  \/ SweepUnlinks(p)
  \/ Binds(p)
  \/ Dies(p)
  \/ \E r \in Recordings : Deliver(p, r)
  \/ Replaces(p)
  \/ WriteFails(p)
  \/ Inserts(p)
  \/ InsertFails(p)
  \/ Acknowledges(p)

GatewayNext ==
  \/ \E r \in Recordings : AskForCard(r) \/ ShowCard(r) \/ Reject(r)
  \/ PurgeLists
  \/ PurgeUnlinks
  \/ PurgeForgets
  \/ PurgeStops
  \/ Reset

RetrievalNext ==
  \/ \E m \in Requests, r \in Recordings : GrantAudio(m, r)
  \/ \E t \in Calls : \/ \E m \in Requests : ClaimAudio(t, m)
                     \/ Opens(t)
                     \/ Returns(t)
                     \/ Fails(t)

Next ==
  \/ \E p \in Receivers : ReceiverNext(p)
  \/ GatewayNext
  \/ RetrievalNext
  \/ Tick

Spec == Init /\ [][Next]_vars

\* The publisher's cleanup comes round every minute. It may be stopped, but not
\* every time it gets as far as a file or as a row.
LiveSpec == Spec /\ WF_vars(PurgeLists) /\ SF_vars(PurgeUnlinks)
                 /\ SF_vars(PurgeForgets)

-----------------------------------------------------------------------------
(* Properties.                                                             *)

Few(S) == {{}} \cup {{x} : x \in S}

\* The tables, the directory and the places of the processes have these forms.
TypeOK ==
  /\ now \in 0..MaxTime
  /\ row \in [Recordings -> {"none", "kept", "gone"}]
  /\ card \in [Recordings -> {"none", "asked", "shown", "rejected"}]
  /\ until \in [Recordings -> Times]
  /\ spool \subseteq Recordings
  /\ temps \subseteq Receivers \X Recordings
  /\ receiver \in [Receivers ->
       [pc: Serving \cup {"down", "read", "sweeping"}, rec: Few(Recordings),
        kept: SUBSET Recordings, at: 0..MaxTime,
        list: SUBSET (Recordings \cup (Receivers \X Recordings))]]
  /\ purge \in [list: SUBSET Recordings, gone: Few(Recordings)]
  /\ grant \in [Requests -> [rec: Few(Recordings), used: BOOLEAN,
                             expires: Times]]
  /\ retrieval \in [Calls -> [pc: {"idle", "claimed", "reading", "stale"},
                              req: Few(Requests)]]
  /\ returned \in [Requests -> Nat]
  /\ acked \cup spoiled \cup late \subseteq Recordings

\* What was answered with 202 can be retrieved until it expires: no crash, retry,
\* second delivery, sweep or purge takes the file from under its row. The
\* rollback of a second delivery does (InsertFails).
AckedHasRecording ==
  \A r \in acked \ spoiled :
    row[r] = "kept" /\ (card[r] = "none" \/ now < until[r]) => r \in spool

\* A receiver that comes up has removed all that earlier ones left behind, in
\* whatever step of a delivery they ended. (A file that was put in place again
\* after its row was purged to the last step may be overlooked.)
SweepCleans ==
  [][\A p \in Receivers :
       receiver[p].pc = "sweeping" /\ receiver'[p].pc = "serving" =>
         /\ temps' = {}
         /\ \A r \in spool' \ late : row'[r] = "kept"]_vars

\* One recording per request, and none that has expired or was forgotten while
\* it was read: although the message may be delivered twice, the tool called
\* twice at once, a retrieval fail half way, and the purge come in between.
GrantOnce ==
  [][\A m \in Requests : returned'[m] # returned[m] =>
       /\ returned[m] = 0
       /\ \A r \in grant[m].rec : now < until[r] /\ row[r] = "kept"]_vars

\* What a request says expires then goes, whether its card was ever shown or
\* not, unless its file was put in place again by a delivery that came after
\* that.
ExpiredGoes ==
  \A r \in Recordings :
    card[r] # "none" /\ now >= until[r]
      ~> (row[r] = "gone" /\ r \notin spool) \/ r \in late

\* A sweep deletes only what no row names.
SweepSparesReferenced ==
  [][\A p \in Receivers :
       receiver[p].pc = "sweeping" /\ receiver'[p].list # receiver[p].list =>
         \A r \in spool \ spool' : row[r] # "kept"]_vars

=============================================================================
