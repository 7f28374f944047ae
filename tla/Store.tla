------------------------------- MODULE Store -------------------------------
(***************************************************************************)
(* The state document and the single state-update channel in front of it.  *)
(*                                                                         *)
(* The producers (the docker-events goroutine, the action orchestrator and *)
(* the poller's sweeps) send StateUpdate messages into one buffered Go     *)
(* channel; one consumer goroutine applies them, in order, to the store,   *)
(* and writes the whole document to disk under the same write lock.        *)
(*                                                                         *)
(* A message is a record; Apply is what its closure does to the row of its *)
(* service.  A row keeps the fields whose values some decision or some     *)
(* property reads; wall-clock stamps and display strings are left out.     *)
(***************************************************************************)
EXTENDS Naturals, Sequences

CONSTANTS Service,      \* the compose services
          Digest,       \* the manifest digests an image tag can point at
          NoDigest,     \* the empty digest string
          RepoName,     \* an image repository name standing where a digest should
          NoService,    \* the empty service name, of messages about no service
          ChannelCap,   \* capacity of the state-update channel
          DiskMayFail   \* a write of the document may fail

ASSUME StoreAssumption ==
    /\ ChannelCap \in Nat \ {0}
    /\ DiskMayFail \in BOOLEAN
    /\ NoDigest \notin Digest
    /\ RepoName \notin Digest
    /\ RepoName # NoDigest
    /\ NoService \notin Service

VARIABLES rows,      \* the in-memory document: one row per service
          disk,      \* the document the last successful persist() renamed into place
          channel    \* the messages sent and not yet applied, oldest first

storeVars == <<rows, disk, channel>>

Ref == Digest \cup {NoDigest, RepoName}

\* The three actions, named as the row's action_in_flight shows them.
Op == {"updating", "rolling_back", "force_pulling"}
Idle == ""

\* The phases an action fails in; the row's action_error is "<phase>_failed: ...".
Phase == {"pull", "compose", "verify"}
NoError == ""

\* The notes a row can carry; a transient and a permanent registry error are
\* told apart by nothing.
Note == {"pinned", "mismatch", "invalid", "registry"}
NoNote == ""

Row == [known           : BOOLEAN,          \* the service has a row at all
        current         : Ref,              \* current_digest
        currentAt       : Nat,              \* build time of that image, 0 unknown
        previous        : Ref,              \* previous_digest
        available       : Ref,              \* available_digest
        updateAvailable : BOOLEAN,
        inFlight        : Op \cup {Idle},   \* action_in_flight
        error           : Phase \cup {NoError},
        containerID     : Nat,              \* 0 is the empty id
        stopped         : BOOLEAN,
        pinned          : BOOLEAN,          \* the image is pinned by digest
        blocked         : SUBSET Op,        \* actions the safety labels disable
        notes           : Note \cup {NoNote}]

-----------------------------------------------------------------------------
(* The messages.  The first six are the orchestrator's, the next three     *)
(* discovery's, the last three those of the poller's sweeps.               *)

StartMsg    == [kind : {"start"}, svc : Service, op : Op]
ProgressMsg == [kind : {"progress"}, svc : Service]
SwapMsg     == [kind : {"swap"}, svc : Service, op : Op, digest : Ref, prev : Ref]
ResultMsg   == [kind : {"result"}, svc : Service]
PulledMsg   == [kind : {"pulled"}, svc : Service, digest : Ref]
FailureMsg  == [kind : {"failure"}, svc : Service, phase : Phase]
UpsertMsg   == [kind : {"upsert"}, svc : Service, id : Nat, digest : Ref, at : Nat,
                pinned : BOOLEAN, blocked : SUBSET Op, invalid : BOOLEAN]
StoppedMsg  == [kind : {"stopped"}, svc : Service]
RemovedMsg  == [kind : {"removed"}, svc : Service]
ResolvedMsg == [kind : {"resolved"}, svc : Service, digest : Ref]
NoteMsg     == [kind : {"note"}, svc : Service, note : Note]
SweepMsg    == [kind : {"sweep"}, svc : {NoService}]

Message == StartMsg \cup ProgressMsg \cup SwapMsg \cup ResultMsg \cup PulledMsg
             \cup FailureMsg \cup UpsertMsg \cup StoppedMsg \cup RemovedMsg
             \cup ResolvedMsg \cup NoteMsg \cup SweepMsg

ApplyStart(row, m) == [row EXCEPT !.inFlight = m.op, !.error = NoError]

\* NoDigest in prev says that no previous digest is to be recorded.
ApplySwap(row, m) ==
    [row EXCEPT
       !.previous = IF m.prev # NoDigest THEN m.prev ELSE @,
       !.current = m.digest,
       !.updateAvailable = IF m.op = "updating" THEN FALSE
                           ELSE IF row.available # NoDigest
                                THEN m.digest # row.available
                                ELSE @]

ApplyResult(row, m) == [row EXCEPT !.inFlight = Idle, !.error = NoError]

\* Mutant of ApplyPulled: force-pull forgets to clear the spinner.
ApplyPulledKeepsSpinner(row, m) == [row EXCEPT !.available = m.digest, !.error = NoError]

ApplyPulled(row, m) ==
    [row EXCEPT !.available = m.digest,
                !.updateAvailable = IF row.current # NoDigest
                                    THEN row.current # m.digest ELSE @,
                !.inFlight = Idle,
                !.error = NoError]

\* Mutant of ApplyFailure: the error is shown and the spinner stays on.
ApplyFailureKeepsSpinner(row, m) == [row EXCEPT !.error = m.phase]

ApplyFailure(row, m) == [row EXCEPT !.inFlight = Idle, !.error = m.phase]

\* Mutants of ApplyUpsert: the die marker survives a start; the labels of the
\* first container stay; the row is written afresh, orchestrator's fields and all.
ApplyUpsertKeepsStopped(row, m) == [row EXCEPT !.known = TRUE,
                                               !.containerID = m.id,
                                               !.current = m.digest,
                                               !.currentAt = m.at,
                                               !.pinned = m.pinned,
                                               !.blocked = m.blocked]
ApplyUpsertKeepsLabels(row, m) == [row EXCEPT !.known = TRUE,
                                              !.containerID = m.id,
                                              !.stopped = FALSE,
                                              !.current = m.digest,
                                              !.currentAt = m.at,
                                              !.pinned = m.pinned,
                                              !.blocked = IF row.known THEN @ ELSE m.blocked]
ApplyUpsertAfresh(row, m) == [row EXCEPT !.known = TRUE,
                                         !.containerID = m.id,
                                         !.stopped = FALSE,
                                         !.current = m.digest,
                                         !.currentAt = m.at,
                                         !.pinned = m.pinned,
                                         !.blocked = m.blocked,
                                         !.inFlight = Idle,
                                         !.error = NoError]

\* A note is only ever added: a valid pattern does not take one away.
ApplyUpsert(row, m) == [row EXCEPT !.known = TRUE,
                                   !.containerID = m.id,
                                   !.stopped = FALSE,
                                   !.current = m.digest,
                                   !.currentAt = m.at,
                                   !.pinned = m.pinned,
                                   !.blocked = m.blocked,
                                   !.notes = IF m.invalid THEN "invalid" ELSE @]

\* Mutant of ApplyStopped: the id is cleared instead of the row being marked.
ApplyStoppedClearsId(row, m) == [row EXCEPT !.containerID = 0]

ApplyStopped(row, m) == [row EXCEPT !.stopped = TRUE]

\* Mutant of ApplyRemoved: the row is deleted, rollback target and all.
ApplyRemovedDeletes(row, m) == [row EXCEPT !.known = FALSE,
                                           !.current = NoDigest,
                                           !.currentAt = 0,
                                           !.previous = NoDigest,
                                           !.containerID = 0]

ApplyRemoved(row, m) == [row EXCEPT !.stopped = TRUE, !.containerID = 0]

\* Mutants of ClearStaleNote and ClearStalePull: only a registry error is stale;
\* no action error is.
ClearRegistryNote(note) == IF note = "registry" THEN NoNote ELSE note
ClearNoError(error) == error

\* clearStaleErrorNotes: what a successful fetch leaves of a note.
ClearStaleNote(note) == IF note \in {"mismatch", "registry"} THEN NoNote ELSE note

\* clearStalePullActionError: the registry answers, so a failed pull is history.
ClearStalePull(error) == IF error = "pull" THEN NoError ELSE error

\* Mutant of ApplyResolved: the update flag is only ever raised.
ApplyResolvedRaises(row, m) ==
    [row EXCEPT !.known = TRUE,
                !.available = m.digest,
                !.updateAvailable = @ \/ row.current \notin {NoDigest, m.digest},
                !.notes = ClearStaleNote(@),
                !.error = ClearStalePull(@)]

\* A fetched digest.  With the running digest unknown, a digest that differs from
\* the one fetched before is an update.
ApplyResolved(row, m) ==
    [row EXCEPT !.known = TRUE,
                !.available = m.digest,
                !.updateAvailable =
                    IF row.current # NoDigest THEN row.current # m.digest
                    ELSE @ \/ row.available \notin {NoDigest, m.digest},
                !.notes = ClearStaleNote(@),
                !.error = ClearStalePull(@)]

\* A registry error does not hide a note about the container itself.
ApplyNote(row, m) ==
    IF m.note = "registry" /\ row.notes \in {"pinned", "invalid"} THEN row
    ELSE [row EXCEPT !.known = TRUE, !.notes = m.note]

\* What the Apply closure of message m does to the row of its service.  An upsert
\* and the sweeps' messages also write a row that does not exist yet.
Apply(row, m) ==
    CASE m.kind = "upsert" -> ApplyUpsert(row, m)
      [] m.kind = "resolved" -> ApplyResolved(row, m)
      [] m.kind = "note" -> ApplyNote(row, m)
      [] m.kind = "sweep" -> row
      [] m.kind \notin {"upsert", "resolved", "note", "sweep"} /\ ~row.known -> row
      [] m.kind = "start" /\ row.known -> ApplyStart(row, m)
      [] m.kind = "progress" /\ row.known -> row
      [] m.kind = "swap" /\ row.known -> ApplySwap(row, m)
      [] m.kind = "result" /\ row.known -> ApplyResult(row, m)
      [] m.kind = "pulled" /\ row.known -> ApplyPulled(row, m)
      [] m.kind = "failure" /\ row.known -> ApplyFailure(row, m)
      [] m.kind = "stopped" /\ row.known -> ApplyStopped(row, m)
      [] m.kind = "removed" /\ row.known -> ApplyRemoved(row, m)

-----------------------------------------------------------------------------
(* Sending, consuming and restarting.                                      *)

\* Mutant of Post: one message more than the buffer holds.
PostOffByOne(m) == /\ Len(channel) <= ChannelCap
                   /\ channel' = Append(channel, m)

\* A send on the buffered channel: it blocks while the buffer is full.
Post(m) == /\ Len(channel) < ChannelCap
           /\ channel' = Append(channel, m)

\* persist renames the whole new document into place, or fails and leaves the
\* old one.
Persist == disk' = rows' \/ (DiskMayFail /\ disk' = disk)

\* Store.Update runs the closure and persists under the write lock; what the
\* closure did stays in memory when persist fails.
\* The stamps at the start and the end of a sweep are about no row.
Update(m) == /\ rows' = [s \in Service |-> IF s = m.svc THEN Apply(rows[s], m) ELSE rows[s]]
             /\ Persist

\* runUpdater takes the oldest message; a failed Update is logged, no more.
Consume ==
    /\ channel # <<>>
    /\ Update(Head(channel))
    /\ channel' = Tail(channel)

\* The process dies (SIGKILL, power, a self-update) and NewStore reads the
\* document back verbatim; whatever the channel held is gone.
Reload == /\ rows' = disk
          /\ channel' = <<>>
          /\ UNCHANGED disk

\* Some message about s has been sent and not applied.
Pending(s) == \E i \in DOMAIN channel : channel[i].svc = s

StoreTypeOK ==
    /\ rows \in [Service -> Row]
    /\ disk \in [Service -> Row]
    /\ channel \in Seq(Message)
    /\ Len(channel) <= ChannelCap
=============================================================================
