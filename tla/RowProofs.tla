----------------------------- MODULE RowProofs -----------------------------
(***************************************************************************)
(* The row and the container, for every set of services, requests and      *)
(* sweeps, with any number of faults, restarts and redeploys: what runs is *)
(* what the row shows, what stopped shows as stopped, a rollback goes to   *)
(* an older image than the one that ran last, and the digest it goes back  *)
(* to survives the events of recreates and outages.                        *)
(***************************************************************************)
EXTENDS SystemProofs

-----------------------------------------------------------------------------
(* What the row will say of the container once the channel is drained.     *)

\* A message of discovery about s.
Marks(m, s) == m.svc = s /\ m.kind \in {"upsert", "stopped", "removed"}

\* A digest swap that does not.
WrongSwap(m, s) ==
    /\ m.kind = "swap" /\ m.svc = s
    /\ m.digest \in Digest /\ Steerable(s) /\ m.digest # container[s].digest

\* No message after the i-th takes the row of s away from its container.
KeptAfter(s, i) ==
    \A j \in DOMAIN channel : j > i => ~Marks(channel[j], s) /\ ~WrongSwap(channel[j], s)

\* The row shows the container.
RightRow(s) ==
    /\ rows[s].known
    /\ rows[s].containerID = container[s].id
    /\ rows[s].current \in Digest /\ Steerable(s) => rows[s].current = container[s].digest
    /\ rows[s].pinned = container[s].config.pinned
    /\ rows[s].blocked = container[s].config.blocked
    /\ ~rows[s].stopped

\* It shows it once the channel is drained.
RowWord(s) == \/ \E i \in DOMAIN channel : RightUpsert(channel[i], s) /\ KeptAfter(s, i)
              \/ RightRow(s) /\ KeptAfter(s, 0)

\* It does once the message that discovery holds is sent as well.
Shown(s) == \/ outbox # <<>> /\ RightUpsert(Head(outbox), s)
            \/ RowWord(s) /\ (outbox # <<>> => ~Marks(Head(outbox), s))

\* A running container that discovery is not going to look at is on its row, or
\* on its way there.
RowInv == \A s \in Service \ unheard : Running(s) => ToLook(s) \/ Shown(s)

\* A message that says that s stopped, and one that says that it runs.
Stops(m, s) == m.svc = s /\ m.kind \in {"stopped", "removed"}
Upserts(m, s) == m.svc = s /\ m.kind = "upsert"

\* No such upsert comes after the i-th message.
StoppedAfter(s, i) == \A j \in DOMAIN channel : j > i => ~Upserts(channel[j], s)

\* The row shows s as stopped once the channel is drained.
StopWord(s) == \/ \E i \in DOMAIN channel : Stops(channel[i], s) /\ StoppedAfter(s, i)
               \/ rows[s].stopped /\ StoppedAfter(s, 0)

\* What stopped is known to have been there.
StopsKnown ==
    \A s \in Service :
       /\ \A i \in DOMAIN channel : Stops(channel[i], s) => rows[s].known
       /\ outbox # <<>> /\ Stops(Head(outbox), s) => rows[s].known

\* It does once the message that discovery holds is sent as well.
StopShown(s) == \/ outbox # <<>> /\ Stops(Head(outbox), s)
                \/ StopWord(s) /\ (outbox # <<>> => ~Upserts(Head(outbox), s))

\* The end of a container is on its row, or on its way there.
StopInv ==
    restarts = 0 =>
       \A s \in Service \ unheard :
          container[s].status \in {"exited", "absent"} => HasEvent(s) \/ StopShown(s)

-----------------------------------------------------------------------------
(* What a send and an Apply do to that.                                    *)

\* Discovery's messages set what the row shows, a swap the digest alone, and no
\* message takes a row away.
LEMMA ApplyRow ==
    ASSUME NEW row \in Row, NEW m \in Message
    PROVE  /\ row.known => Apply(row, m).known
           /\ m.kind = "upsert" =>
                /\ Apply(row, m).known /\ Apply(row, m).containerID = m.id
                /\ Apply(row, m).current = m.digest /\ Apply(row, m).pinned = m.pinned
                /\ Apply(row, m).blocked = m.blocked /\ ~Apply(row, m).stopped
           /\ m.kind \in {"stopped", "removed"} /\ row.known => Apply(row, m).stopped
           /\ m.kind \notin {"upsert", "stopped", "removed"} =>
                /\ Apply(row, m).containerID = row.containerID
                /\ Apply(row, m).pinned = row.pinned /\ Apply(row, m).blocked = row.blocked
                /\ Apply(row, m).stopped = row.stopped
                /\ Apply(row, m).current = row.current
                     \/ (m.kind = "swap" /\ Apply(row, m).current = m.digest)
           /\ m.kind # "upsert" /\ row.stopped => Apply(row, m).stopped
<1> USE DEF Row
<1>1. CASE m \in StartMsg
  BY <1>1 DEF StartMsg, Apply, ApplyStart
<1>2. CASE m \in ProgressMsg
  BY <1>2 DEF ProgressMsg, Apply
<1>3. CASE m \in SwapMsg
  BY <1>3 DEF SwapMsg, Apply, ApplySwap
<1>4. CASE m \in ResultMsg
  BY <1>4 DEF ResultMsg, Apply, ApplyResult
<1>5. CASE m \in PulledMsg
  BY <1>5 DEF PulledMsg, Apply, ApplyPulled
<1>6. CASE m \in FailureMsg
  BY <1>6 DEF FailureMsg, Apply, ApplyFailure
<1>7. CASE m \in UpsertMsg
  BY <1>7 DEF UpsertMsg, Apply, ApplyUpsert
<1>8. CASE m \in StoppedMsg
  BY <1>8 DEF StoppedMsg, Apply, ApplyStopped
<1>9. CASE m \in RemovedMsg
  BY <1>9 DEF RemovedMsg, Apply, ApplyRemoved
<1>10. CASE m \in ResolvedMsg
  BY <1>10 DEF ResolvedMsg, Apply, ApplyResolved
<1>11. CASE m \in NoteMsg
  BY <1>11 DEF NoteMsg, Apply, ApplyNote
<1>12. CASE m \in SweepMsg
  BY <1>12 DEF SweepMsg, Apply
<1> QED
  BY <1>1, <1>2, <1>3, <1>4, <1>5, <1>6, <1>7, <1>8, <1>9, <1>10, <1>11, <1>12 DEF Message

\* The container of s is the one it was.
Same(s) == /\ container'[s].id = container[s].id
           /\ container'[s].digest = container[s].digest
           /\ container'[s].config = container[s].config

\* An upsert that describes the container settles what the row will show; other
\* messages leave it settled.
LEMMA RowSent ==
    ASSUME StoreTypeOK, NEW m \in Message, channel' = Append(channel, m), NEW s \in Service,
           rows'[s] = rows[s], Same(s)
    PROVE  /\ RightUpsert(m, s) => RowWord(s)'
           /\ ~Marks(m, s) /\ ~WrongSwap(m, s) /\ RowWord(s) => RowWord(s)'
<1> DEFINE n == Len(channel)
<1>0. /\ DOMAIN channel' = 1 .. n + 1 /\ DOMAIN channel = 1 .. n /\ n \in Nat
      /\ channel'[n + 1] = m
      /\ \A i \in 1 .. n : channel'[i] = channel[i]
  BY AppendFacts DEF StoreTypeOK
<1> HIDE DEF n
<1> USE DEF RightUpsert, WrongSwap, Marks, Steerable, Unshared, Same
<1>1. ASSUME RightUpsert(m, s) PROVE RowWord(s)'
  BY <1>0, <1>1 DEF RowWord, KeptAfter
<1>2. ASSUME ~Marks(m, s), ~WrongSwap(m, s), NEW i \in 0 .. n, KeptAfter(s, i)
      PROVE  KeptAfter(s, i)'
  <2> SUFFICES ASSUME NEW j \in 1 .. n + 1, j > i
               PROVE  ~Marks(channel'[j], s) /\ ~WrongSwap(channel[j], s)'
    BY <1>0 DEF KeptAfter
  <2>1. CASE j = n + 1
    BY <1>0, <1>2, <2>1
  <2>2. CASE j # n + 1
    <3>1. j \in 1 .. n
      BY <1>0, <2>2
    <3> QED
      BY <1>0, <1>2, <3>1 DEF KeptAfter
  <2> QED
    BY <2>1, <2>2
<1>3. RightRow(s) => RightRow(s)'
  BY DEF RightRow
<1>4. ASSUME ~Marks(m, s), ~WrongSwap(m, s), RowWord(s) PROVE RowWord(s)'
  <2>1. CASE RightRow(s) /\ KeptAfter(s, 0)
    BY <1>0, <1>2, <1>3, <1>4, <2>1 DEF RowWord
  <2>2. CASE \E i \in 1 .. n : RightUpsert(channel[i], s) /\ KeptAfter(s, i)
    <3>1. PICK i \in 1 .. n : RightUpsert(channel[i], s) /\ KeptAfter(s, i)
      BY <2>2
    <3>2. KeptAfter(s, i)'
      BY <1>0, <1>2, <1>4, <3>1
    <3>3. i \in 1 .. n + 1 /\ RightUpsert(channel[i], s)'
      BY <1>0, <3>1
    <3> QED
      BY <1>0, <3>2, <3>3 DEF RowWord
  <2> QED
    BY <1>0, <1>4, <2>1, <2>2 DEF RowWord
<1> QED
  BY <1>1, <1>4

\* What Consume does to the channel and to the row of s.
LEMMA Taken ==
    ASSUME StoreTypeOK, Consume, NEW s \in Service
    PROVE  \E n \in Nat \ {0} :
             /\ DOMAIN channel = 1 .. n /\ DOMAIN channel' = 1 .. n - 1
             /\ \A i \in 2 .. n : i - 1 \in 1 .. n - 1 /\ channel'[i - 1] = channel[i]
             /\ \A j \in 1 .. n - 1 : j + 1 \in 2 .. n /\ channel'[j] = channel[j + 1]
             /\ channel[1] \in Message /\ rows[s] \in Row
             /\ rows'[s] = IF s = channel[1].svc THEN Apply(rows[s], channel[1]) ELSE rows[s]
<1> DEFINE m == Head(channel)
           n == Len(channel)
<1>0. /\ m \in Message /\ m = channel[1] /\ n \in Nat \ {0}
      /\ DOMAIN channel = 1 .. n /\ DOMAIN channel' = 1 .. n - 1
      /\ \A i \in 1 .. n - 1 : channel'[i] = channel[i + 1]
  BY TailFacts DEF Consume, StoreTypeOK
<1>1. rows[s] \in Row /\ rows'[s] = IF s = m.svc THEN Apply(rows[s], m) ELSE rows[s]
  BY DEF Consume, Update, StoreTypeOK
<1> HIDE DEF m, n
<1>2. \A i \in 2 .. n : i - 1 \in 1 .. n - 1 /\ channel'[i - 1] = channel[i]
  BY <1>0
<1>3. \A j \in 1 .. n - 1 : j + 1 \in 2 .. n /\ channel'[j] = channel[j + 1]
  BY <1>0
<1> QED
  BY <1>0, <1>1, <1>2, <1>3

\* Applying the oldest message brings the row nearer to what it will show.
LEMMA RowApplied ==
    ASSUME StoreTypeOK, Consume, NEW s \in Service, Same(s), RowWord(s)
    PROVE  RowWord(s)'
<1>0. PICK n \in Nat \ {0} :
             /\ DOMAIN channel = 1 .. n /\ DOMAIN channel' = 1 .. n - 1
             /\ \A i \in 2 .. n : i - 1 \in 1 .. n - 1 /\ channel'[i - 1] = channel[i]
             /\ \A j \in 1 .. n - 1 : j + 1 \in 2 .. n /\ channel'[j] = channel[j + 1]
             /\ channel[1] \in Message /\ rows[s] \in Row
             /\ rows'[s] = IF s = channel[1].svc THEN Apply(rows[s], channel[1]) ELSE rows[s]
  BY Taken
<1> USE DEF Marks, Same, Steerable, Unshared
<1>1. ASSUME NEW i \in 0 .. n, NEW k \in 0 .. n - 1, k = i - 1 \/ (i = 0 /\ k = 0), KeptAfter(s, i)
      PROVE  KeptAfter(s, k)'
  <2> SUFFICES ASSUME NEW j \in 1 .. n - 1, j > k
               PROVE  ~Marks(channel'[j], s) /\ ~WrongSwap(channel[j], s)'
    BY <1>0 DEF KeptAfter
  <2>1. j + 1 \in 1 .. n /\ j + 1 > i /\ channel'[j] = channel[j + 1]
    BY <1>0, <1>1
  <2>2. ~Marks(channel[j + 1], s) /\ ~WrongSwap(channel[j + 1], s)
    BY <1>0, <1>1, <2>1 DEF KeptAfter
  <2> QED
    BY <2>1, <2>2 DEF WrongSwap
<1>2. CASE RightRow(s) /\ KeptAfter(s, 0)
  <2>1. ~Marks(channel[1], s) /\ ~WrongSwap(channel[1], s)
    BY <1>0, <1>2 DEF KeptAfter
  <2>2. RightRow(s)'
    <3>1. CASE s = channel[1].svc
      BY <1>0, <1>2, <2>1, <3>1, ApplyRow, SMTT(60) DEF RightRow, WrongSwap
    <3>2. CASE s # channel[1].svc
      BY <1>0, <1>2, <3>2 DEF RightRow
    <3> QED
      BY <3>1, <3>2
  <2>3. KeptAfter(s, 0)'
    BY <1>1, <1>2
  <2> QED
    BY <2>2, <2>3 DEF RowWord
<1>3. CASE RightUpsert(channel[1], s) /\ KeptAfter(s, 1)
  <2>1. RightRow(s)'
    BY <1>0, <1>3, ApplyRow DEF RightRow, RightUpsert
  <2>2. KeptAfter(s, 0)'
    BY <1>1, <1>3
  <2> QED
    BY <2>1, <2>2 DEF RowWord
<1>4. CASE \E i \in 2 .. n : RightUpsert(channel[i], s) /\ KeptAfter(s, i)
  <2>1. PICK i \in 2 .. n : RightUpsert(channel[i], s) /\ KeptAfter(s, i)
    BY <1>4
  <2>2. PICK k \in 1 .. n - 1 : k = i - 1 /\ channel'[k] = channel[i]
    BY <1>0, <2>1
  <2>3. KeptAfter(s, k)'
    BY <1>1, <2>1, <2>2
  <2>4. RightUpsert(channel[k], s)'
    BY <2>1, <2>2 DEF RightUpsert
  <2> QED
    BY <1>0, <2>3, <2>4 DEF RowWord
<1> QED
  <2>1. \A i \in 1 .. n : i = 1 \/ i \in 2 .. n
    OBVIOUS
  <2> QED
    BY <1>0, <1>2, <1>3, <1>4, <2>1 DEF RowWord

\* A message that says that s stopped settles that the row will show it; others,
\* but an upsert, leave it settled.
LEMMA StopSent ==
    ASSUME StoreTypeOK, NEW m \in Message, channel' = Append(channel, m), NEW s \in Service,
           rows'[s] = rows[s]
    PROVE  /\ Stops(m, s) => StopWord(s)'
           /\ ~Upserts(m, s) /\ StopWord(s) => StopWord(s)'
<1> DEFINE n == Len(channel)
<1>0. /\ DOMAIN channel' = 1 .. n + 1 /\ DOMAIN channel = 1 .. n /\ n \in Nat
      /\ channel'[n + 1] = m
      /\ \A i \in 1 .. n : channel'[i] = channel[i]
  BY AppendFacts DEF StoreTypeOK
<1> HIDE DEF n
<1> QED
  BY <1>0 DEF StopWord, StoppedAfter, Stops, Upserts

\* Applying the oldest message does so too, if the row is there.
LEMMA StopApplied ==
    ASSUME StoreTypeOK, StopsKnown, Consume, NEW s \in Service, StopWord(s)
    PROVE  StopWord(s)'
<1>0. PICK n \in Nat \ {0} :
             /\ DOMAIN channel = 1 .. n /\ DOMAIN channel' = 1 .. n - 1
             /\ \A i \in 2 .. n : i - 1 \in 1 .. n - 1 /\ channel'[i - 1] = channel[i]
             /\ \A j \in 1 .. n - 1 : j + 1 \in 2 .. n /\ channel'[j] = channel[j + 1]
             /\ channel[1] \in Message /\ rows[s] \in Row
             /\ rows'[s] = IF s = channel[1].svc THEN Apply(rows[s], channel[1]) ELSE rows[s]
  BY Taken
<1> USE DEF Stops, Upserts
<1>1. ASSUME NEW i \in 0 .. n, NEW k \in 0 .. n - 1, k = i - 1 \/ (i = 0 /\ k = 0), StoppedAfter(s, i)
      PROVE  StoppedAfter(s, k)'
  <2> SUFFICES ASSUME NEW j \in 1 .. n - 1, j > k PROVE ~Upserts(channel'[j], s)
    BY <1>0 DEF StoppedAfter
  <2>1. j + 1 \in 1 .. n /\ j + 1 > i /\ channel'[j] = channel[j + 1]
    BY <1>0, <1>1
  <2> QED
    BY <1>0, <1>1, <2>1 DEF StoppedAfter
<1>2. CASE rows[s].stopped /\ StoppedAfter(s, 0)
  <2>1. ~Upserts(channel[1], s)
    BY <1>0, <1>2 DEF StoppedAfter
  <2>2. rows'[s].stopped
    BY <1>0, <1>2, <2>1, ApplyRow
  <2>3. StoppedAfter(s, 0)'
    BY <1>1, <1>2
  <2> QED
    BY <2>2, <2>3 DEF StopWord
<1>3. CASE Stops(channel[1], s) /\ StoppedAfter(s, 1)
  <2>1. rows[s].known
    BY <1>0, <1>3 DEF StopsKnown
  <2>2. rows'[s].stopped
    BY <1>0, <1>3, <2>1, ApplyRow
  <2>3. StoppedAfter(s, 0)'
    BY <1>1, <1>3
  <2> QED
    BY <2>2, <2>3 DEF StopWord
<1>4. CASE \E i \in 2 .. n : Stops(channel[i], s) /\ StoppedAfter(s, i)
  <2>1. PICK i \in 2 .. n : Stops(channel[i], s) /\ StoppedAfter(s, i)
    BY <1>4
  <2>2. PICK k \in 1 .. n - 1 : k = i - 1 /\ channel'[k] = channel[i]
    BY <1>0, <2>1
  <2>3. StoppedAfter(s, k)'
    BY <1>1, <2>1, <2>2
  <2> QED
    BY <1>0, <2>1, <2>2, <2>3 DEF StopWord
<1> QED
  <2>1. \A i \in 1 .. n : i = 1 \/ i \in 2 .. n
    OBVIOUS
  <2> QED
    BY <1>0, <1>2, <1>3, <1>4, <2>1 DEF StopWord

-----------------------------------------------------------------------------
(* Who says what.                                                          *)

\* What everybody but discovery does to the channel and the rows, short of a
\* restart: nothing, one message that is not discovery's, or an Apply.  A digest
\* is named by the swap of a request alone.
WorldSays ==
    \/ UNCHANGED <<rows, channel>>
    \/ /\ UNCHANGED rows
       /\ \E m \in Message :
            /\ channel' = Append(channel, m)
            /\ m.kind \notin {"upsert", "stopped", "removed"}
            /\ m.kind = "swap" => \E r \in Request : pc[r] = "swap" /\ m = SwapOf(r)
    \/ Consume

LEMMA WorldSpeech ==
    ASSUME SystemTypeOK, [SystemNext]_systemVars, ~Discover, ~Reboot
    PROVE  WorldSays /\ UNCHANGED restarts
<1>0. TypeOK /\ PollerTypeOK
  BY DEF SystemTypeOK
<1>1. ASSUME NEW r \in Request, Handler(r) PROVE WorldSays /\ UNCHANGED restarts
  <2>1. RequestStep(r)
    BY <1>1 DEF Handler
  <2>2. WorldSays
    <3>1. \/ channel' = channel
          \/ \E m \in Message :
               /\ channel' = Append(channel, m)
               /\ m.kind \notin {"upsert", "stopped", "removed"}
               /\ IF pc[r] = "swap" THEN m = SwapOf(r) ELSE m.kind # "swap"
      BY <1>0, <2>1, RequestSends
    <3>2. UNCHANGED rows
      BY <1>0, <2>1, RequestSends
    <3> QED
      BY <3>1, <3>2 DEF WorldSays
  <2>3. UNCHANGED restarts
    BY <2>1 DEF RequestStep, ComposeFileMoved, LockService, Snapshot, ChooseRollbackTarget,
       SendStart, SendAndGoto, Pull, CrossCheck, Retag, SendProgress, RecreateService,
       RecreateReturns, SendSwap, VerifyNew, SendResult, SendFailure, Unlock, orchVars
  <2> QED
    BY <2>2, <2>3
<1>2. ASSUME NEW r \in Request, Client(r) PROVE WorldSays /\ UNCHANGED restarts
  BY <1>2 DEF Client, Arrive, ClientGone, storeVars, orchVars, WorldSays
<1>3. CASE Applied
  BY <1>3 DEF Applied, Updater, WorldSays
<1>4. ASSUME NEW w \in Sweeper, CronTick(w) \/ PollNow(w) \/ Poll(w) \/ PollExpires(w)
      PROVE  WorldSays /\ UNCHANGED restarts
  <2>1. Begin(w) \/ SweepStep(w) \/ Expire(w)
    BY <1>4 DEF CronTick, PollNow, Poll, PollExpires
  <2>2. Speech({"resolved", "note", "sweep"}) /\ UNCHANGED rows
    BY <1>0, <2>1, SweepSpeech
  <2>3. WorldSays
    BY <2>2 DEF Speech, WorldSays
  <2>4. UNCHANGED restarts
    BY <1>4 DEF CronTick, PollNow, Poll, PollExpires, orchVars
  <2> QED
    BY <2>3, <2>4
<1>5. CASE World
  BY <1>5 DEF World, Outside, storeVars, orchVars, WorldSays
<1>6. CASE UNCHANGED systemVars
  BY <1>6 DEF systemVars, vars, storeVars, orchVars, WorldSays
<1> QED
  BY <1>1, <1>2, <1>3, <1>4, <1>5, <1>6 DEF SystemNext

\* A swap names the digest of the container, so none of this spoils the row.
LEMMA WorldRow ==
    ASSUME SystemTypeOK, TargetInv, WorldSays, NEW s \in Service, Same(s), RowWord(s)
    PROVE  RowWord(s)'
<1>0. StoreTypeOK
  BY DEF SystemTypeOK, TypeOK
<1>1. CASE UNCHANGED <<rows, channel>>
  BY <1>1 DEF RowWord, RightUpsert, RightRow, KeptAfter, Marks, WrongSwap, Same, Steerable, Unshared
<1>2. ASSUME NEW m \in Message, channel' = Append(channel, m), UNCHANGED rows,
             m.kind \notin {"upsert", "stopped", "removed"},
             m.kind = "swap" => \E r \in Request : pc[r] = "swap" /\ m = SwapOf(r)
      PROVE  RowWord(s)'
  <2>1. ~Marks(m, s)
    BY <1>2 DEF Marks
  <2>2. ~WrongSwap(m, s)
    <3> SUFFICES ASSUME WrongSwap(m, s) PROVE FALSE
      OBVIOUS
    <3>1. PICK r \in Request : pc[r] = "swap" /\ m = SwapOf(r)
      BY <1>2 DEF WrongSwap
    <3>2. svc(r) = s /\ target[r] = m.digest
      BY <3>1 DEF WrongSwap, SwapOf
    <3>3. TargetOK(r)
      BY <3>2 DEF TargetInv, WrongSwap
    <3> QED
      BY <3>1, <3>2, <3>3 DEF TargetOK, AfterCreate, WrongSwap
  <2> QED
    BY <1>0, <1>2, <2>1, <2>2, RowSent
<1>3. CASE Consume
  BY <1>0, <1>3, RowApplied
<1> QED
  BY <1>1, <1>2, <1>3 DEF WorldSays

\* Nor what it says of a stopped container.
LEMMA WorldStop ==
    ASSUME SystemTypeOK, StopsKnown, WorldSays, NEW s \in Service, StopWord(s)
    PROVE  StopWord(s)'
<1>0. StoreTypeOK
  BY DEF SystemTypeOK, TypeOK
<1>1. CASE UNCHANGED <<rows, channel>>
  BY <1>1 DEF StopWord, StoppedAfter, Stops, Upserts
<1>2. ASSUME NEW m \in Message, channel' = Append(channel, m), UNCHANGED rows,
             m.kind \notin {"upsert", "stopped", "removed"}
      PROVE  StopWord(s)'
  BY <1>0, <1>2, StopSent DEF Upserts
<1>3. CASE Consume
  BY <1>0, <1>3, StopApplied
<1> QED
  BY <1>1, <1>2, <1>3 DEF WorldSays

\* Nor does it take away a row that is needed.
LEMMA WorldKnown ==
    ASSUME SystemTypeOK, StopsKnown, WorldSays, UNCHANGED outbox
    PROVE  StopsKnown'
<1>0. StoreTypeOK
  BY DEF SystemTypeOK, TypeOK
<1> SUFFICES ASSUME NEW s \in Service
             PROVE  /\ \A i \in DOMAIN channel' : Stops(channel'[i], s) => rows'[s].known
                    /\ outbox # <<>> /\ Stops(Head(outbox), s) => rows'[s].known
  BY DEF StopsKnown, Stops
<1>1. CASE UNCHANGED <<rows, channel>>
  BY <1>1 DEF StopsKnown
<1>2. ASSUME NEW m \in Message, channel' = Append(channel, m), UNCHANGED rows,
             m.kind \notin {"upsert", "stopped", "removed"}
      PROVE  /\ \A i \in DOMAIN channel' : Stops(channel'[i], s) => rows'[s].known
             /\ outbox # <<>> /\ Stops(Head(outbox), s) => rows'[s].known
  <2> DEFINE n == Len(channel)
  <2>0. /\ DOMAIN channel' = 1 .. n + 1 /\ DOMAIN channel = 1 .. n /\ n \in Nat
        /\ channel'[n + 1] = m
        /\ \A i \in 1 .. n : channel'[i] = channel[i]
    BY <1>0, <1>2, AppendFacts DEF StoreTypeOK
  <2> HIDE DEF n
  <2> QED
    BY <1>2, <2>0 DEF StopsKnown, Stops
<1>3. CASE Consume
  <2>0. PICK n \in Nat \ {0} :
             /\ DOMAIN channel = 1 .. n /\ DOMAIN channel' = 1 .. n - 1
             /\ \A i \in 2 .. n : i - 1 \in 1 .. n - 1 /\ channel'[i - 1] = channel[i]
             /\ \A j \in 1 .. n - 1 : j + 1 \in 2 .. n /\ channel'[j] = channel[j + 1]
             /\ channel[1] \in Message /\ rows[s] \in Row
             /\ rows'[s] = IF s = channel[1].svc THEN Apply(rows[s], channel[1]) ELSE rows[s]
    BY <1>0, <1>3, Taken
  <2>1. rows[s].known => rows'[s].known
    BY <2>0, ApplyRow
  <2>2. ASSUME NEW i \in 1 .. n - 1, Stops(channel'[i], s) PROVE rows[s].known
    <3>1. i + 1 \in 1 .. n /\ channel'[i] = channel[i + 1]
      BY <2>0
    <3> QED
      BY <2>0, <2>2, <3>1 DEF StopsKnown
  <2> QED
    BY <2>0, <2>1, <2>2 DEF StopsKnown
<1> QED
  BY <1>1, <1>2, <1>3 DEF WorldSays

-----------------------------------------------------------------------------
(* The row of a running container.                                         *)

\* Discovery writes no row, and it has one message to send.
LEMMA DiscoverySends ==
    ASSUME SystemTypeOK, Discover
    PROVE  /\ UNCHANGED <<rows, container, restarts>> /\ DiscoveryStep
           /\ ~SendUpdate => UNCHANGED channel
           /\ SendUpdate =>
                /\ Head(outbox) \in Message /\ channel' = Append(channel, Head(outbox))
                /\ Head(outbox).kind \in {"upsert", "stopped", "removed"}
                /\ outbox # <<>> /\ outbox' = <<>>
                /\ UNCHANGED <<unheard, phase, todo, events>>
<1>0. DiscoveryTypeOK
  BY DEF SystemTypeOK
<1>1. DiscoveryStep /\ UNCHANGED restarts
  BY DEF Discover, orchVars
<1>2. UNCHANGED <<rows, container>> /\ (~SendUpdate => UNCHANGED channel)
  BY <1>1 DEF DiscoveryStep, List, InspectNext, Listed, Subscribe, HandleEvent, SendUpdate,
              StreamBreaks, CloseStream, daemonVars, storeVars
<1>3. ASSUME SendUpdate
      PROVE  /\ Head(outbox) \in Message /\ channel' = Append(channel, Head(outbox))
             /\ Head(outbox).kind \in {"upsert", "stopped", "removed"}
             /\ outbox # <<>> /\ outbox' = <<>>
             /\ UNCHANGED <<unheard, phase, todo, events>>
  <2>1. Head(outbox) \in UpsertMsg \cup StoppedMsg \cup RemovedMsg
    BY <1>0, <1>3 DEF SendUpdate, DiscoveryTypeOK
  <2>2. Head(outbox) \in Message /\ Head(outbox).kind \in {"upsert", "stopped", "removed"}
    BY <2>1, SpokenType DEF UpsertMsg, StoppedMsg, RemovedMsg
  <2> QED
    BY <1>3, <2>2 DEF SendUpdate, Post, daemonVars
<1> QED
  BY <1>1, <1>2, <1>3

\* Where nothing is written, sent or changed, what will be shown stays.
LEMMA RowKept ==
    ASSUME NEW s \in Service, UNCHANGED <<rows, channel, container>>
    PROVE  RowWord(s)' <=> RowWord(s)
BY DEF RowWord, RightUpsert, RightRow, KeptAfter, Marks, WrongSwap, Steerable, Unshared

\* Every step keeps it.
LEMMA RowStep ==
    ASSUME SystemTypeOK, LookInv, TargetInv, RowInv, [SystemNext]_systemVars
    PROVE  RowInv'
<1>0. StoreTypeOK /\ GoneInv /\ StreamInv /\ EventInv
  BY DEF SystemTypeOK, TypeOK, LookInv
<1> SUFFICES ASSUME NEW s \in Service, s \notin unheard', Running(s)', ~ToLook(s)'
             PROVE  Shown(s)'
  BY DEF RowInv
<1>1. CASE Discover
  <2>0. /\ UNCHANGED <<rows, container>> /\ DiscoveryStep /\ Running(s) /\ Same(s)
    BY <1>1, DiscoverySends DEF Running, Same
  <2>1. CASE SendUpdate
    <3>1. PICK m \in Message :
            /\ m = Head(outbox) /\ channel' = Append(channel, m)
            /\ m.kind \in {"upsert", "stopped", "removed"}
            /\ outbox # <<>> /\ outbox' = <<>>
            /\ UNCHANGED <<unheard, phase, todo, events>>
      BY <1>1, <2>1, DiscoverySends
    <3>2. ~ToLook(s)
      BY <2>0, <3>1 DEF ToLook, HasEvent
    <3>3. Shown(s)
      BY <2>0, <3>1, <3>2 DEF RowInv
    <3>4. RightUpsert(m, s) \/ (RowWord(s) /\ ~Marks(m, s))
      BY <3>1, <3>3 DEF Shown
    <3>5. ~WrongSwap(m, s)
      BY <3>1 DEF WrongSwap
    <3>6. RowWord(s)'
      BY <1>0, <2>0, <3>1, <3>4, <3>5, RowSent
    <3> QED
      BY <3>1, <3>6 DEF Shown
  <2>2. CASE ~SendUpdate
    <3>1. Looked(s) /\ UNCHANGED channel
      BY <1>0, <1>1, <2>0, <2>2, DiscoveryLooks, DiscoverySends
    <3>2. CASE outbox' # <<>> /\ RightUpsert(Head(outbox'), s)
      BY <2>0, <3>2 DEF Shown, RightUpsert
    <3>3. CASE /\ s \notin unheard /\ ~ToLook(s)
               /\ outbox' = outbox \/ (outbox = <<>> /\ outbox' # <<>> /\ Head(outbox').svc # s)
      <4>1. Shown(s)
        BY <2>0, <3>3 DEF RowInv
      <4>2. RowWord(s)' <=> RowWord(s)
        BY <2>0, <3>1, RowKept
      <4> QED
        BY <2>0, <3>3, <4>1, <4>2 DEF Shown, Marks, RightUpsert
    <3> QED
      BY <3>1, <3>2, <3>3 DEF Looked
  <2> QED
    BY <2>1, <2>2
<1>2. CASE Reboot
  BY <1>2 DEF Reboot, ToLook
<1>3. CASE ~Discover /\ ~Reboot
  <2>1. Told(s) /\ UNCHANGED <<phase, todo, outbox>>
    BY <1>0, <1>3, WorldTold
  <2>2. Alike(s)
    BY <2>1 DEF Told, ToLook, Running
  <2>3. s \notin unheard /\ Running(s) /\ ~ToLook(s) /\ Same(s)
    BY <2>1, <2>2 DEF Alike, ToLook, Running, Same
  <2>4. Shown(s)
    BY <2>3 DEF RowInv
  <2>5. RowWord(s) => RowWord(s)'
    BY <1>3, <2>3, WorldSpeech, WorldRow
  <2> QED
    BY <2>1, <2>3, <2>4, <2>5 DEF Shown, Marks, RightUpsert, Same
<1> QED
  BY <1>1, <1>2, <1>3

\* The boot list is still to come.
LEMMA InitRow == SystemInit => RowInv
BY DEF SystemInit, DiscoveryInit, RowInv, ToLook

\* ApplyUpsert, ApplySwap, ApplyStopped and ApplyRemoved in whatever order the two
\* writers send them, for every set of services, requests and sweeps, every fault,
\* restart and redeploy: the row of a running container that is up to date shows
\* that container's id, digest, pin and labels, and does not show it as stopped.
THEOREM RowsShown == SystemSpec => []RowIsContainer
<1>1. SystemTypeOK /\ LookInv /\ TargetInv /\ RowInv /\ [SystemNext]_systemVars => RowInv'
  BY RowStep
<1>2. LookInv /\ RowInv => RowIsContainer
  <2> SUFFICES ASSUME StreamInv, RowInv, NEW s \in Service, UpToDate(s), Running(s)
               PROVE  RightRow(s)
    BY DEF LookInv, RowIsContainer, RightRow
  <2>1. s \notin unheard /\ outbox = <<>> /\ phase = "drain" /\ ~HasEvent(s)
          /\ \A i \in DOMAIN channel : channel[i].svc # s
    BY DEF UpToDate, CaughtUp, Pending, HasEvent
  <2>2. ~ToLook(s)
    BY <2>1 DEF ToLook, StreamInv
  <2>3. RowWord(s)
    BY <2>1, <2>2 DEF RowInv, Shown
  <2> QED
    BY <2>1, <2>3 DEF RowWord, RightUpsert
<1> QED
  BY <1>1, <1>2, InitRow, SystemTypes, SystemLooks, SystemContainers, PTL DEF SystemSpec

-----------------------------------------------------------------------------
(* The row of a container that stopped.                                    *)

\* StopOrRemove asks for the row before it sends.
LEMMA KnownStep ==
    ASSUME SystemTypeOK, LookInv, StopsKnown, [SystemNext]_systemVars
    PROVE  StopsKnown'
<1>0. StoreTypeOK /\ DaemonTypeOK /\ GoneInv /\ StreamInv /\ EventInv
  BY DEF SystemTypeOK, TypeOK, LookInv
<1>1. CASE Discover
  <2>0. UNCHANGED <<rows, container>> /\ DiscoveryStep
    BY <1>1, DiscoverySends
  <2>1. CASE SendUpdate
    <3>1. PICK m \in Message : m = Head(outbox) /\ channel' = Append(channel, m)
                                 /\ outbox # <<>> /\ outbox' = <<>>
      BY <1>1, <2>1, DiscoverySends
    <3> DEFINE n == Len(channel)
    <3>2. /\ DOMAIN channel' = 1 .. n + 1 /\ DOMAIN channel = 1 .. n /\ n \in Nat
          /\ channel'[n + 1] = m
          /\ \A i \in 1 .. n : channel'[i] = channel[i]
      BY <1>0, <3>1, AppendFacts DEF StoreTypeOK
    <3> HIDE DEF n
    <3> QED
      BY <2>0, <3>1, <3>2 DEF StopsKnown, Stops
  <2>2. CASE ~SendUpdate
    <3>0. UNCHANGED channel
      BY <1>1, <2>2, DiscoverySends
    <3>1. \A s \in Service : outbox' # <<>> /\ Stops(Head(outbox'), s) => rows[s].known
      <4>1. CASE UNCHANGED outbox
        BY <4>1 DEF StopsKnown
      <4>2. CASE outbox = <<>> /\ \E t \in Service, id \in Nat : UpsertFromInspect(t, id)
        <5>1. outbox' = <<>> \/ \E m \in UpsertMsg : outbox' = <<m>>
          BY <1>0, <4>2, Inspected
        <5>2. \A m \in UpsertMsg : Head(<<m>>).kind = "upsert"
          BY DEF UpsertMsg
        <5> QED
          BY <5>1, <5>2 DEF Stops
      <4>3. ASSUME NEW ev, StopOrRemove(ev, "stopped") \/ StopOrRemove(ev, "removed")
            PROVE  \A s \in Service : outbox' # <<>> /\ Stops(Head(outbox'), s) => rows[s].known
        <5>1. \A m : Head(<<m>>) = m
          OBVIOUS
        <5>2. \/ UNCHANGED outbox
              \/ rows[ev.svc].known /\ \/ outbox' = <<[kind |-> "stopped", svc |-> ev.svc]>>
                                       \/ outbox' = <<[kind |-> "removed", svc |-> ev.svc]>>
          BY <4>3 DEF StopOrRemove
        <5> QED
          BY <4>1, <5>1, <5>2 DEF Stops
      <4>4. CASE InspectNext
        <5>1. PICK c \in todo : UpsertFromInspect(c[1], c[2])
          BY <4>4 DEF InspectNext
        <5>2. c[1] \in Service /\ c[2] \in Nat
          BY <5>1 DEF SystemTypeOK, DiscoveryTypeOK
        <5> QED
          BY <4>2, <4>4, <5>1, <5>2 DEF InspectNext
      <4>5. CASE HandleEvent
        <5>1. PICK t \in Service :
                /\ outbox = <<>> /\ Head(events) \in Event
                /\ \/ UpsertFromInspect(t, Head(events).id)
                   \/ StopOrRemove(Head(events), "stopped")
                   \/ StopOrRemove(Head(events), "removed")
          BY <1>0, <4>5, Handled
        <5>2. Head(events).id \in Nat
          BY <5>1 DEF Event
        <5> QED
          BY <4>2, <4>3, <5>1, <5>2
      <4> QED
        BY <2>0, <2>2, <4>1, <4>4, <4>5
        DEF DiscoveryStep, List, Listed, Subscribe, StreamBreaks
    <3> QED
      BY <2>0, <3>0, <3>1 DEF StopsKnown, Stops
  <2> QED
    BY <2>1, <2>2
<1>2. CASE Reboot
  <2>1. channel' = <<>> /\ outbox' = <<>>
    BY <1>2 DEF Reboot, Restart, Reload
  <2>2. DOMAIN channel' = {}
    BY <2>1
  <2> QED
    BY <2>1, <2>2 DEF StopsKnown
<1>3. CASE ~Discover /\ ~Reboot
  BY <1>0, <1>3, WorldTold, WorldSpeech, WorldKnown
<1> QED
  BY <1>1, <1>2, <1>3

\* A step of discovery other than a send, for a container t that stopped: it has
\* just heard, or nothing happens.
LEMMA DiscoveryHears ==
    ASSUME SystemTypeOK, LookInv, DiscoveryStep, ~SendUpdate, NEW t \in Service,
           t \notin unheard', ~HasEvent(t)', container[t].status \in {"exited", "absent"}
    PROVE  \/ outbox' # <<>> /\ Stops(Head(outbox'), t)
           \/ /\ t \notin unheard /\ ~HasEvent(t)
              /\ outbox' = outbox \/ (outbox = <<>> /\ outbox' # <<>> /\ Head(outbox').svc # t)
<1>0. /\ DaemonTypeOK /\ StreamInv /\ EventInv /\ WalkInv /\ ~Running(t)
      /\ \A m : <<m>> # <<>> /\ Head(<<m>>) = m
  <2>1. \A m : <<m>> # <<>> /\ Head(<<m>>) = m
    OBVIOUS
  <2> QED
    BY <2>1 DEF SystemTypeOK, TypeOK, LookInv, Running
<1>1. CASE List \/ Listed \/ Subscribe
  <2>1. UNCHANGED <<outbox, events>> /\ (unheard' = Service \/ UNCHANGED unheard)
    BY <1>1 DEF List, Listed, Subscribe, daemonVars
  <2> QED
    BY <2>1 DEF HasEvent
<1>2. CASE InspectNext
  <2>0. UNCHANGED events /\ outbox = <<>>
    BY <1>2 DEF InspectNext
  <2>1. PICK c \in todo : UpsertFromInspect(c[1], c[2])
    BY <1>2 DEF InspectNext
  <2>2. c = <<c[1], c[2]>> /\ c[1] \in Service /\ c[2] \in Nat
    BY <2>1 DEF SystemTypeOK, DiscoveryTypeOK
  <2>3. PICK s \in Service, id \in Nat : UpsertFromInspect(s, id) /\ <<s, id>> \in todo
    BY <2>1, <2>2
  <2>4. t \notin unheard
    BY <1>0, <2>0, <2>3, Inspected
  <2>5. CASE t = s
    <3>1. container[s].id # id
      BY <1>0, <2>3, <2>4, <2>5 DEF WalkInv
    <3>2. UNCHANGED outbox
      BY <1>0, <2>0, <2>3, <3>1, Inspected
    <3> QED
      BY <2>0, <2>4, <3>2 DEF HasEvent
  <2>6. CASE t # s
    <3>1. outbox' = <<>> \/ (outbox' # <<>> /\ Head(outbox').svc # t)
      BY <1>0, <2>0, <2>3, <2>6, Inspected DEF RightUpsert
    <3> QED
      BY <2>0, <2>4, <3>1 DEF HasEvent
  <2> QED
    BY <2>5, <2>6
<1>3. CASE HandleEvent
  <2>1. PICK s \in Service :
             /\ Head(events).svc = s
             /\ outbox = <<>>
             /\ \A u \in Service : u # s => /\ HasEvent(u)' <=> HasEvent(u)
                                            /\ u \in unheard' <=> u \in unheard
             /\ \/ UpsertFromInspect(s, Head(events).id) /\ Head(events).type = "start"
                \/ /\ StopOrRemove(Head(events), "stopped") \/ StopOrRemove(Head(events), "removed")
                   /\ Head(events).type # "start"
             /\ HasEvent(s)' \/ (Head(events).type = "start" <=> Running(s))
    BY <1>0, <1>3, Handled
  <2>2. CASE t = s
    <3>1. StopOrRemove(Head(events), "stopped") \/ StopOrRemove(Head(events), "removed")
      BY <1>0, <2>1, <2>2
    <3> QED
      BY <1>0, <2>1, <2>2, <3>1 DEF StopOrRemove, Stops
  <2>3. CASE t # s
    <3>1. outbox' = <<>> \/ (outbox' # <<>> /\ Head(outbox').svc # t)
      <4>1. CASE UpsertFromInspect(s, Head(events).id)
        BY <1>0, <2>1, <2>3, <4>1, Inspected DEF RightUpsert
      <4>2. CASE StopOrRemove(Head(events), "stopped") \/ StopOrRemove(Head(events), "removed")
        BY <1>0, <2>1, <2>3, <4>2 DEF StopOrRemove
      <4> QED
        BY <2>1, <4>1, <4>2
    <3> QED
      BY <2>1, <2>3, <3>1
  <2> QED
    BY <2>2, <2>3
<1>4. CASE StreamBreaks
  <2>1. UNCHANGED outbox /\ unheard' = unheard \cup {events[i].svc : i \in DOMAIN events}
    BY <1>4 DEF StreamBreaks, CloseStream
  <2> QED
    BY <2>1 DEF HasEvent
<1> QED
  BY <1>1, <1>2, <1>3, <1>4 DEF DiscoveryStep

\* Every step keeps it.
LEMMA StopStep ==
    ASSUME SystemTypeOK, LookInv, StopsKnown, StopInv, [SystemNext]_systemVars
    PROVE  StopInv'
<1>0. StoreTypeOK /\ GoneInv /\ StreamInv /\ EventInv /\ restarts \in Nat
  BY DEF SystemTypeOK, TypeOK, LookInv
<1> SUFFICES ASSUME restarts' = 0, NEW s \in Service, s \notin unheard',
                    container'[s].status \in {"exited", "absent"}, ~HasEvent(s)'
             PROVE  StopShown(s)'
  BY DEF StopInv
<1>1. CASE Discover
  <2>0. /\ UNCHANGED <<rows, container>> /\ DiscoveryStep /\ restarts = 0
        /\ container[s].status \in {"exited", "absent"}
    BY <1>1, DiscoverySends
  <2>1. CASE SendUpdate
    <3>1. PICK m \in Message :
            /\ m = Head(outbox) /\ channel' = Append(channel, m)
            /\ outbox # <<>> /\ outbox' = <<>>
            /\ UNCHANGED <<unheard, events>>
      BY <1>1, <2>1, DiscoverySends
    <3>2. StopShown(s)
      BY <2>0, <3>1 DEF StopInv, HasEvent
    <3>3. Stops(m, s) \/ (StopWord(s) /\ ~Upserts(m, s))
      BY <3>1, <3>2 DEF StopShown
    <3>4. StopWord(s)'
      BY <1>0, <2>0, <3>1, <3>3, StopSent
    <3> QED
      BY <3>1, <3>4 DEF StopShown
  <2>2. CASE ~SendUpdate
    <3>1. UNCHANGED channel
      BY <1>1, <2>2, DiscoverySends
    <3>2. CASE outbox' # <<>> /\ Stops(Head(outbox'), s)
      BY <3>2 DEF StopShown, Stops
    <3>3. CASE /\ s \notin unheard /\ ~HasEvent(s)
               /\ outbox' = outbox \/ (outbox = <<>> /\ outbox' # <<>> /\ Head(outbox').svc # s)
      <4>1. StopShown(s)
        BY <2>0, <3>3 DEF StopInv
      <4>2. StopWord(s)' <=> StopWord(s)
        BY <2>0, <3>1 DEF StopWord, StoppedAfter, Stops, Upserts
      <4> QED
        BY <3>3, <4>1, <4>2 DEF StopShown, Stops, Upserts
    <3> QED
      BY <2>0, <2>2, <3>2, <3>3, DiscoveryHears
  <2> QED
    BY <2>1, <2>2
<1>2. CASE Reboot
  BY <1>0, <1>2 DEF Reboot, Restart
<1>3. CASE ~Discover /\ ~Reboot
  <2>1. Told(s) /\ UNCHANGED outbox
    BY <1>0, <1>3, WorldTold
  <2>2. Alike(s)
    BY <2>1 DEF Told
  <2>3. restarts = 0 /\ WorldSays
    BY <1>3, WorldSpeech
  <2>4. StopShown(s)
    BY <2>2, <2>3 DEF Alike, StopInv
  <2>5. StopWord(s) => StopWord(s)'
    BY <2>3, WorldStop
  <2> QED
    BY <2>1, <2>4, <2>5 DEF StopShown, Stops, Upserts
<1> QED
  BY <1>1, <1>2, <1>3

\* Everything runs at first.
LEMMA InitStop == SystemInit => StopsKnown /\ StopInv
<1> SUFFICES ASSUME SystemInit PROVE StopsKnown /\ StopInv
  OBVIOUS
<1>1. channel = <<>> /\ outbox = <<>> /\ \A s \in Service : container[s].status = "running"
  BY DEF SystemInit, NoRequestYet, DaemonInit, DiscoveryInit
<1>2. DOMAIN channel = {}
  BY <1>1
<1> QED
  BY <1>1, <1>2 DEF StopsKnown, StopInv

\* The die and destroy events, which find their row by the container's id, against
\* upserts of old and new containers, swaps and sweeps, for every set of services
\* and requests: a container that ended shows as stopped once its row is up to date
\* (a restart forgets which containers ended before it).
THEOREM StopsShown == SystemSpec => []StoppedIsShown
<1>1. SystemTypeOK /\ LookInv /\ StopsKnown /\ StopInv /\ [SystemNext]_systemVars
      => StopsKnown' /\ StopInv'
  BY KnownStep, StopStep
<1>2. StopInv => StoppedIsShown
  <2> SUFFICES ASSUME StopInv, NEW s \in Service, UpToDate(s), restarts = 0,
                      container[s].status \in {"exited", "absent"}
               PROVE  rows[s].stopped
    BY DEF StoppedIsShown
  <2>1. s \notin unheard /\ outbox = <<>> /\ ~HasEvent(s)
          /\ \A i \in DOMAIN channel : channel[i].svc # s
    BY DEF UpToDate, CaughtUp, Pending, HasEvent
  <2>2. StopWord(s)
    BY <2>1 DEF StopInv, StopShown
  <2> QED
    BY <2>1, <2>2 DEF StopWord, Stops
<1> QED
  BY <1>1, <1>2, InitStop, SystemTypes, SystemLooks, PTL DEF SystemSpec

-----------------------------------------------------------------------------
(* What the row says of the image that ran last, also when the container   *)
(* that ran it is gone.                                                    *)

\* Only what was started has run: a container that runs or ended is the one that
\* ran last, and recreate.Service starts what it created and swaps what it started.
RanInv ==
    /\ \A s \in Service :
         container[s].status \in {"running", "exited"} => container[s].digest = ran[s].last
    /\ \A r \in Request :
         /\ step[r] \in {"connect", "start"} => container[svc(r)].status = "created"
         /\ Swapping(r) => container[svc(r)].status \in {"running", "exited"}

\* The container with this id is, or was, the one of s, and was started.
Old(s, id) == id <= container[s].id /\ (id = container[s].id => container[s].status # "created")

\* Whatever names a container of s names one that was started or removed.
IdInv ==
    \A s \in Service :
       /\ container[s].id > 0 /\ Old(s, rows[s].containerID)
       /\ \A i \in DOMAIN channel : Upserts(channel[i], s) => Old(s, channel[i].id)
       /\ outbox # <<>> /\ Upserts(Head(outbox), s) => Old(s, Head(outbox).id)
       /\ \A i \in DOMAIN events : events[i].svc = s => Old(s, events[i].id)
       /\ \A c \in todo : c[1] = s => Old(s, c[2])

\* That container is gone.
Gone(s, id) == id < container[s].id \/ (id = container[s].id /\ container[s].status = "absent")

\* The end of a container whose start is still to be heard is to be heard as well.
EndInv ==
    \A i \in DOMAIN events :
       events[i].type = "start" /\ Gone(events[i].svc, events[i].id) =>
          \E j \in DOMAIN events :
             /\ j > i /\ events[j].type = "destroy"
             /\ events[j].svc = events[i].svc /\ events[j].id = events[i].id

\* No row and no upsert has named that container yet.
Unnamed(s, id) ==
    /\ id > 0 /\ rows[s].containerID # id
    /\ \A i \in DOMAIN channel : Upserts(channel[i], s) => channel[i].id # id
    /\ outbox # <<>> /\ Upserts(Head(outbox), s) => Head(outbox).id # id

\* Discovery is going to look at a container it has not seen, or to find that it
\* has missed it.
News(s) ==
    \E i \in DOMAIN events :
       /\ events[i].svc = s /\ Unnamed(s, events[i].id)
       /\ \/ events[i].type = "start"
          \/ events[i].type = "destroy" /\ Gone(s, events[i].id)

\* An upsert that tells of the image that ran last, or of none; a message that
\* tells of another one.
Tells(m, s) ==
    /\ Upserts(m, s)
    /\ m.at \in {0, BuiltAt[ran[s].last]} /\ m.digest \in {NoDigest, ran[s].last}
Mistells(m, s) ==
    \/ Upserts(m, s) /\ ~Tells(m, s)
    \/ m.kind = "swap" /\ m.svc = s /\ m.digest \in Digest /\ Steerable(s) /\ m.digest # ran[s].last

\* No message after the i-th does.
ToldAfter(s, i) == \A j \in DOMAIN channel : j > i => ~Mistells(channel[j], s)

\* The row tells of it.
RowTells(s) ==
    /\ rows[s].currentAt \in {0, BuiltAt[ran[s].last]}
    /\ rows[s].current \in Digest /\ Steerable(s) => rows[s].current = ran[s].last

\* It does once the channel is drained.
ToldWord(s) == \/ \E i \in DOMAIN channel : Tells(channel[i], s) /\ ToldAfter(s, i)
               \/ RowTells(s) /\ ToldAfter(s, 0)

\* It does once the message that discovery holds is sent as well.
IsTold(s) == \/ outbox # <<>> /\ Tells(Head(outbox), s)
             \/ ToldWord(s) /\ (outbox # <<>> => ~Mistells(Head(outbox), s))

\* The row tells of the image that ran last, or is going to.
TellInv ==
    \A s \in Service \ unheard :
       \/ IsTold(s)
       \/ News(s)
       \/ Running(s) /\ (phase = "list" \/ <<s, container[s].id>> \in todo)

\* All of this, before the first restart.
ImageInv == restarts = 0 => IdInv /\ EndInv /\ TellInv

-----------------------------------------------------------------------------
(* How the containers move.                                                *)

\* The stream gains events, or none.
Grows == /\ events' \in Seq(Event) /\ Len(events) <= Len(events')
         /\ \A i \in 1 .. Len(events) : events'[i] = events[i]

\* The i-th event on the stream is a new one about s.
Fresh(i, s) == i \in DOMAIN events' /\ i > Len(events) /\ events'[i].svc = s

\* What the new events about s say: they name a container that was started or
\* removed, and a start is that of the container that runs now.
FreshOK(s) ==
    \A i \in DOMAIN events' : Fresh(i, s) =>
       /\ events'[i].id = container[s].id \/ events'[i].id = container'[s].id
       /\ events'[i].id = container'[s].id => container'[s].status # "created"
       /\ events'[i].type = "start" =>
            container'[s].status = "running" /\ events'[i].id = container'[s].id

\* A new event of that type names that container of s, or discovery has missed it.
Reported(s, type, id) ==
    IF subscribed
    THEN \E i \in DOMAIN events' : Fresh(i, s) /\ events'[i].type = type /\ events'[i].id = id
    ELSE s \in unheard'

\* The container of s stays as it is, ends, is created, is started or is replaced.
Stays(s) == Same(s) /\ container'[s].status = container[s].status /\ ran'[s] = ran[s]
Ends(s) ==
    /\ Same(s) /\ ran'[s] = ran[s]
    /\ \/ container'[s].status = "absent" /\ Reported(s, "destroy", container[s].id)
       \/ /\ container[s].status = "running" /\ container'[s].status = "exited"
          /\ Reported(s, "die", container[s].id)
IsCreated(s) ==
    /\ container[s].status = "absent" /\ container'[s].status = "created"
    /\ container'[s].id = container[s].id + 1 /\ container'[s].config = container[s].config
    /\ ran'[s] = ran[s]
IsStarted(s) ==
    /\ Same(s) /\ container[s].status \in {"created", "exited"} /\ container'[s].status = "running"
    /\ ran'[s].last = container[s].digest
    /\ container[s].status = "exited" => ran'[s] = ran[s]
    /\ Reported(s, "start", container[s].id)
IsReplaced(s) ==
    /\ container'[s].status = "running" /\ container'[s].id = container[s].id + 1
    /\ ran'[s].last = container'[s].digest
    /\ container[s].status # "absent" => Reported(s, "destroy", container[s].id)
    /\ Reported(s, "start", container'[s].id)

Moves(s) == /\ FreshOK(s) /\ (s \in unheard => s \in unheard')
            /\ Stays(s) \/ Ends(s) \/ IsCreated(s) \/ IsStarted(s) \/ IsReplaced(s)

\* One more event.
LEMMA EventAppend ==
    ASSUME NEW q \in Seq(Event), NEW e \in Event
    PROVE  /\ q \o <<e>> \in Seq(Event) /\ q \o <<e>> = Append(q, e)
           /\ Len(q) \in Nat /\ Len(q \o <<e>>) = Len(q) + 1
           /\ DOMAIN q = 1 .. Len(q) /\ DOMAIN (q \o <<e>>) = 1 .. Len(q) + 1
           /\ (q \o <<e>>)[Len(q) + 1] = e
           /\ \A i \in 1 .. Len(q) : (q \o <<e>>)[i] = q[i]
OBVIOUS

\* A redeploy, event by event.
LEMMA RedeployEvents ==
    ASSUME DaemonTypeOK, NEW s \in Service, NEW c \in Configs, Redeploy(s, c), subscribed
    PROVE  /\ Grows /\ FreshOK(s)
           /\ \A i \in DOMAIN events' : i > Len(events) => events'[i].svc = s
           /\ container[s].status # "absent" => Reported(s, "destroy", container[s].id)
           /\ Reported(s, "start", container'[s].id)
<1> DEFINE old == container[s]
           Ev(type, id) == [type |-> type, svc |-> s, id |-> id]
           A == IF old.status = "running" THEN <<Ev("die", old.id)>> ELSE <<>>
           B == IF old.status # "absent" THEN <<Ev("destroy", old.id)>> ELSE <<>>
           C == <<Ev("start", old.id + 1)>>
<1>0. /\ container'[s].id = old.id + 1 /\ container'[s].status = "running"
      /\ old.id \in Nat /\ events \in Seq(Event)
  BY Redeployed DEF DaemonTypeOK, Container
<1>1. events' = ((events \o A) \o B) \o C
  BY DEF Redeploy
<1>2. /\ Ev("die", old.id) \in Event /\ Ev("destroy", old.id) \in Event
      /\ Ev("start", old.id + 1) \in Event
  BY <1>0 DEF Event
<1>3. /\ Ev("die", old.id).svc = s /\ Ev("destroy", old.id).svc = s /\ Ev("start", old.id + 1).svc = s
      /\ Ev("die", old.id).type = "die" /\ Ev("destroy", old.id).type = "destroy"
      /\ Ev("start", old.id + 1).type = "start"
      /\ Ev("die", old.id).id = old.id /\ Ev("destroy", old.id).id = old.id
      /\ Ev("start", old.id + 1).id = old.id + 1
  OBVIOUS
<1>4. \E die, destroy, start \in Event :
        /\ events' = ((events \o (IF old.status = "running" THEN <<die>> ELSE <<>>))
                         \o (IF old.status # "absent" THEN <<destroy>> ELSE <<>>)) \o <<start>>
        /\ die.svc = s /\ destroy.svc = s /\ start.svc = s
        /\ die.type = "die" /\ destroy.type = "destroy" /\ start.type = "start"
        /\ die.id = old.id /\ destroy.id = old.id /\ start.id = old.id + 1
  BY <1>1, <1>2, <1>3
<1> HIDE DEF A, B, C, Ev
<1>5. PICK die \in Event, destroy \in Event, start \in Event :
        /\ events' = ((events \o (IF old.status = "running" THEN <<die>> ELSE <<>>))
                         \o (IF old.status # "absent" THEN <<destroy>> ELSE <<>>)) \o <<start>>
        /\ die.svc = s /\ destroy.svc = s /\ start.svc = s
        /\ die.type = "die" /\ destroy.type = "destroy" /\ start.type = "start"
        /\ die.id = old.id /\ destroy.id = old.id /\ start.id = old.id + 1
  BY <1>4
<1> DEFINE n == Len(events)
<1>6. n \in Nat /\ DOMAIN events = 1 .. n
  BY <1>0
<1>7. \/ /\ events' \in Seq(Event) /\ DOMAIN events' = 1 .. n + 1 /\ Len(events') = n + 1
         /\ \A i \in 1 .. n : events'[i] = events[i]
         /\ events'[n + 1] = start /\ old.status = "absent"
      \/ /\ events' \in Seq(Event) /\ DOMAIN events' = 1 .. n + 2 /\ Len(events') = n + 2
         /\ \A i \in 1 .. n : events'[i] = events[i]
         /\ events'[n + 1] = destroy /\ events'[n + 2] = start
      \/ /\ events' \in Seq(Event) /\ DOMAIN events' = 1 .. n + 3 /\ Len(events') = n + 3
         /\ \A i \in 1 .. n : events'[i] = events[i]
         /\ events'[n + 1] = die /\ events'[n + 2] = destroy /\ events'[n + 3] = start
  <2>1. CASE old.status = "absent"
    <3>1. events' = ((events \o <<>>) \o <<>>) \o <<start>>
      BY <1>5, <2>1
    <3>2. ((events \o <<>>) \o <<>>) \o <<start>> = Append(events, start)
      BY <1>0
    <3> QED
      BY <1>0, <2>1, <3>1, <3>2
  <2>2. CASE old.status # "absent" /\ old.status # "running"
    <3>1. events' = ((events \o <<>>) \o <<destroy>>) \o <<start>>
      BY <1>5, <2>2
    <3>2. ((events \o <<>>) \o <<destroy>>) \o <<start>> = Append(Append(events, destroy), start)
      BY <1>0
    <3> QED
      BY <1>0, <3>1, <3>2
  <2>3. CASE old.status = "running"
    <3>1. events' = ((events \o <<die>>) \o <<destroy>>) \o <<start>>
      BY <1>5, <2>3
    <3>2. PICK p \in Seq(Event) : p = events \o <<die>>
      BY <1>0, EventAppend
    <3>3. PICK q \in Seq(Event) : q = p \o <<destroy>>
      BY EventAppend
    <3>4. events' = q \o <<start>>
      BY <3>1, <3>2, <3>3
    <3>5. /\ Len(p) = n + 1 /\ p[n + 1] = die /\ \A i \in 1 .. n : p[i] = events[i]
      BY <1>0, <3>2, EventAppend
    <3>6. /\ Len(q) = n + 2 /\ q[n + 2] = destroy /\ \A i \in 1 .. n + 1 : q[i] = p[i]
      BY <1>6, <3>3, <3>5, EventAppend
    <3>7. /\ events' \in Seq(Event) /\ DOMAIN events' = 1 .. n + 3 /\ Len(events') = n + 3
          /\ events'[n + 3] = start /\ \A i \in 1 .. n + 2 : events'[i] = q[i]
      BY <1>6, <3>4, <3>6, EventAppend
    <3> HIDE DEF n
    <3> QED
      BY <1>6, <3>5, <3>6, <3>7
  <2> QED
    BY <2>1, <2>2, <2>3
<1> HIDE DEF n, old
<1>8. old = container[s]
  BY DEF old
<1>9. n = Len(events)
  BY DEF n
<1>10. Grows /\ \A i \in DOMAIN events' : i > n =>
          /\ events'[i] \in {die, destroy, start} /\ events'[i].svc = s
  <2>1. events' \in Seq(Event) /\ \A i \in 1 .. n : events'[i] = events[i]
    BY <1>7
  <2>2. Len(events) <= Len(events')
    BY <1>6, <1>7, <1>9
  <2>3. \A i \in DOMAIN events' : i > n => events'[i] \in {die, destroy, start}
    BY <1>6, <1>7
  <2> QED
    BY <1>5, <1>9, <2>1, <2>2, <2>3 DEF Grows
<1>11. FreshOK(s)
  BY <1>0, <1>5, <1>8, <1>9, <1>10 DEF FreshOK, Fresh
<1>12. /\ old.status # "absent" => Reported(s, "destroy", old.id)
       /\ Reported(s, "start", old.id + 1)
  <2>1. \E i \in DOMAIN events' : i > n /\ events'[i] = start
    BY <1>6, <1>7
  <2>2. old.status # "absent" => \E i \in DOMAIN events' : i > n /\ events'[i] = destroy
    BY <1>6, <1>7
  <2> QED
    BY <1>5, <1>9, <2>1, <2>2 DEF Reported, Fresh
<1> QED
  BY <1>0, <1>8, <1>9, <1>10, <1>11, <1>12

\* One event, on an open stream or not.
LEMMA EmitMoves ==
    ASSUME DaemonTypeOK, NEW s \in Service, NEW type \in {"start", "die", "destroy"},
           Emit(s, type), container'[s].id = container[s].id,
           container'[s].status # "created",
           type = "start" => container'[s].status = "running"
    PROVE  /\ Grows /\ FreshOK(s) /\ Reported(s, type, container[s].id)
           /\ \A i \in DOMAIN events' : i > Len(events) => events'[i].svc = s
           /\ unheard \subseteq unheard'
<1> DEFINE ev == [type |-> type, svc |-> s, id |-> container[s].id]
<1>0. /\ events \in Seq(Event) /\ ev \in Event
      /\ ev.svc = s /\ ev.type = type /\ ev.id = container[s].id
  BY DEF DaemonTypeOK, Container, Event
<1>1. CASE subscribed
  <2>1. events' = Append(events, ev) /\ UNCHANGED unheard
    BY <1>1 DEF Emit
  <2> HIDE DEF ev
  <2>2. /\ events' \in Seq(Event) /\ Len(events) \in Nat /\ Len(events') = Len(events) + 1
        /\ DOMAIN events' = 1 .. Len(events) + 1 /\ events'[Len(events) + 1] = ev
        /\ \A i \in 1 .. Len(events) : events'[i] = events[i]
    BY <1>0, <2>1, EventAppend
  <2>3. \A i \in DOMAIN events' : i > Len(events) => events'[i] = ev
    BY <2>2
  <2> QED
    BY <1>0, <1>1, <2>1, <2>2, <2>3 DEF Grows, FreshOK, Reported, Fresh
<1>2. CASE ~subscribed
  <2>1. events' = events /\ unheard' = unheard \cup {s}
    BY <1>2 DEF Emit
  <2>2. Len(events) \in Nat /\ DOMAIN events = 1 .. Len(events)
    BY <1>0
  <2> QED
    BY <1>0, <1>2, <2>1, <2>2 DEF Grows, FreshOK, Reported, Fresh
<1> QED
  BY <1>1, <1>2

\* No event.
LEMMA SilentMoves ==
    ASSUME DaemonTypeOK, UNCHANGED <<events, unheard>>
    PROVE  /\ Grows /\ \A s \in Service : FreshOK(s)
           /\ \A i \in DOMAIN events' : ~(i > Len(events))
<1>1. events \in Seq(Event) /\ Len(events) \in Nat /\ DOMAIN events = 1 .. Len(events)
  BY DEF DaemonTypeOK
<1> QED
  BY <1>1 DEF Grows, FreshOK, Fresh

\* What is done to the container of s: what runs is not started again.
Handles(s) ==
    \/ StopContainer(s) \/ RemoveContainer(s)
    \/ container[s].status \in {"created", "exited"} /\ StartContainer(s)
    \/ \E n : ConnectNetwork(s, n)
    \/ container[s].status = "absent" /\ \E N, A : CreateContainer(s, N, A)
    \/ \E c \in Configs : Redeploy(s, c)

\* It moves that container so, and no other.
LEMMA HandleMoves ==
    ASSUME DaemonTypeOK, NEW s \in Service, Handles(s),
           container[s].status = "exited" => container[s].digest = ran[s].last
    PROVE  Grows /\ \A t \in Service : Moves(t)
<1>0. /\ container \in [Service -> Container] /\ container[s] \in Container
      /\ container[s].id \in Nat
      /\ ran \in [Service -> [last : Digest, before : Digest \cup {NoDigest}]]
  BY DEF DaemonTypeOK, Container
<1>1. \A t \in Service : t # s => container'[t] = container[t] /\ ran'[t] = ran[t]
  BY <1>0 DEF Handles, StopContainer, RemoveContainer, StartContainer, ConnectNetwork,
              CreateContainer, Redeploy
<1>2. ASSUME Grows, Moves(s), \A i \in DOMAIN events' : i > Len(events) => events'[i].svc = s,
             unheard \subseteq unheard'
      PROVE  Grows /\ \A t \in Service : Moves(t)
  <2> SUFFICES ASSUME NEW t \in Service, t # s PROVE Moves(t)
    BY <1>2
  <2> QED
    BY <1>1, <1>2 DEF Moves, Stays, Same, FreshOK, Fresh
<1> USE DEF Same
<1>3. CASE StopContainer(s) /\ container[s].status = "running"
  <2>1. container' = [container EXCEPT ![s].status = "exited"] /\ Emit(s, "die") /\ UNCHANGED ran
    BY <1>3 DEF StopContainer
  <2>2. container'[s] = [container[s] EXCEPT !.status = "exited"]
    BY <1>0, <2>1
  <2>3. Same(s) /\ container'[s].status = "exited"
    BY <1>0, <2>2 DEF Container
  <2>4. Grows /\ FreshOK(s) /\ Reported(s, "die", container[s].id) /\ unheard \subseteq unheard'
          /\ \A i \in DOMAIN events' : i > Len(events) => events'[i].svc = s
    BY <2>1, <2>3, EmitMoves
  <2>5. Moves(s)
    BY <1>3, <2>1, <2>3, <2>4 DEF Moves, Ends
  <2> QED
    BY <1>2, <2>4, <2>5
<1>4. CASE StopContainer(s) /\ container[s].status # "running"
  <2>1. container'[s] = [container[s] EXCEPT !.status = container[s].status]
          /\ UNCHANGED <<events, unheard, ran>>
    BY <1>0, <1>4 DEF StopContainer
  <2>2. Same(s) /\ container'[s].status = container[s].status
    BY <1>0, <2>1 DEF Container
  <2> QED
    BY <1>2, <2>1, <2>2, SilentMoves DEF Moves, Stays
<1>5. CASE RemoveContainer(s)
  <2>1. container' = [container EXCEPT ![s].status = "absent"] /\ Emit(s, "destroy") /\ UNCHANGED ran
    BY <1>5 DEF RemoveContainer
  <2>2. container'[s] = [container[s] EXCEPT !.status = "absent"]
    BY <1>0, <2>1
  <2>3. Same(s) /\ container'[s].status = "absent"
    BY <1>0, <2>2 DEF Container
  <2>4. Grows /\ FreshOK(s) /\ Reported(s, "destroy", container[s].id) /\ unheard \subseteq unheard'
          /\ \A i \in DOMAIN events' : i > Len(events) => events'[i].svc = s
    BY <2>1, <2>3, EmitMoves
  <2>5. Moves(s)
    BY <2>1, <2>3, <2>4 DEF Moves, Ends
  <2> QED
    BY <1>2, <2>4, <2>5
<1>6. CASE container[s].status \in {"created", "exited"} /\ StartContainer(s)
  <2>1. container' = [container EXCEPT ![s].status = "running"] /\ Emit(s, "start")
          /\ ran'[s] = IF container[s].digest = ran[s].last THEN ran[s]
                       ELSE [last |-> container[s].digest, before |-> ran[s].last]
    BY <1>0, <1>6 DEF StartContainer
  <2>2. container'[s] = [container[s] EXCEPT !.status = "running"]
    BY <1>0, <2>1
  <2>3. Same(s) /\ container'[s].status = "running"
    BY <1>0, <2>2 DEF Container
  <2>4. Grows /\ FreshOK(s) /\ Reported(s, "start", container[s].id) /\ unheard \subseteq unheard'
          /\ \A i \in DOMAIN events' : i > Len(events) => events'[i].svc = s
    BY <2>1, <2>3, EmitMoves
  <2>5. Moves(s)
    BY <1>6, <2>1, <2>3, <2>4 DEF Moves, IsStarted
  <2> QED
    BY <1>2, <2>4, <2>5
<1>7. CASE \E n : ConnectNetwork(s, n)
  <2>1. PICK n : container'[s] = [container[s] EXCEPT !.nets = container[s].nets \cup {n}]
                   /\ UNCHANGED <<events, unheard, ran>>
    BY <1>0, <1>7 DEF ConnectNetwork
  <2>2. Same(s) /\ container'[s].status = container[s].status
    BY <1>0, <2>1 DEF Container
  <2> QED
    BY <1>2, <2>1, <2>2, SilentMoves DEF Moves, Stays
<1>8. CASE container[s].status = "absent" /\ \E N, A : CreateContainer(s, N, A)
  <2>1. PICK N, A : container' = [container EXCEPT ![s] = NewContainer(s, N, A)]
                      /\ UNCHANGED <<events, unheard, ran>>
    BY <1>8 DEF CreateContainer
  <2>2. container'[s] = NewContainer(s, N, A)
    BY <1>0, <2>1
  <2>3. container'[s].status = "created" /\ container'[s].id = container[s].id + 1
          /\ container'[s].config = container[s].config
    BY <2>2 DEF NewContainer
  <2> QED
    BY <1>2, <1>8, <2>1, <2>3, SilentMoves DEF Moves, IsCreated
<1>9. CASE \E c \in Configs : Redeploy(s, c)
  <2>1. PICK c \in Configs : Redeploy(s, c)
    BY <1>9
  <2>2. container'[s].id = container[s].id + 1 /\ container'[s].status = "running"
    BY <2>1, Redeployed
  <2>3. ran'[s].last = container'[s].digest
    BY <1>0, <2>1 DEF Redeploy
  <2>4. CASE subscribed
    <3>1. /\ Grows /\ FreshOK(s)
          /\ \A i \in DOMAIN events' : i > Len(events) => events'[i].svc = s
          /\ container[s].status # "absent" => Reported(s, "destroy", container[s].id)
          /\ Reported(s, "start", container'[s].id)
      BY <2>1, <2>4, RedeployEvents
    <3>2. UNCHANGED unheard
      BY <2>1, <2>4 DEF Redeploy
    <3>3. Moves(s)
      BY <2>2, <2>3, <3>1, <3>2 DEF Moves, IsReplaced
    <3> QED
      BY <1>2, <3>1, <3>2, <3>3
  <2>5. CASE ~subscribed
    <3>1. events' = events /\ unheard' = unheard \cup {s}
      BY <2>1, <2>5 DEF Redeploy
    <3>2. events \in Seq(Event) /\ Len(events) \in Nat /\ DOMAIN events = 1 .. Len(events)
      BY DEF DaemonTypeOK
    <3>3. Grows /\ FreshOK(s) /\ \A i \in DOMAIN events' : ~(i > Len(events))
      BY <3>1, <3>2 DEF Grows, FreshOK, Fresh
    <3>4. Moves(s)
      BY <2>5, <2>2, <2>3, <3>1, <3>3 DEF Moves, IsReplaced, Reported
    <3> QED
      BY <1>2, <3>1, <3>3, <3>4
  <2> QED
    BY <2>4, <2>5
<1> QED
  BY <1>3, <1>4, <1>5, <1>6, <1>7, <1>8, <1>9 DEF Handles

\* Which of these a step of recreate.Service takes.
LEMMA RecreateHandles ==
    ASSUME NEW r \in Request, NEW s \in Service, RecreateStep(r, s),
           step[r] = "create" => container[s].status = "absent",
           step[r] = "start" => container[s].status = "created"
    PROVE  UNCHANGED <<container, events, unheard, ran>> \/ Handles(s)
<1> USE DEF daemonVars, ActedAnyway, Handles
<1>1. CASE ListOld(r, s)
  BY <1>1 DEF ListOld
<1>2. CASE StopOld(r, s)
  BY <1>2 DEF StopOld
<1>3. CASE RemoveOld(r, s)
  BY <1>3 DEF RemoveOld
<1>4. CASE CreateNew(r, s)
  BY <1>4 DEF CreateNew, Succeeds, StepTo
<1>5. CASE ConnectNetworks(r, s)
  BY <1>5 DEF ConnectNetworks
<1>6. CASE StartNew(r, s)
  BY <1>6 DEF StartNew, Succeeds, StepTo
<1>7. CASE CleanupNew(r, s)
  BY <1>7 DEF CleanupNew
<1> QED
  BY <1>1, <1>2, <1>3, <1>4, <1>5, <1>6, <1>7 DEF RecreateStep

\* The containers in every step but discovery's own and a restart.
LEMMA WorldMoves ==
    ASSUME SystemTypeOK, GoneInv, RanInv, [SystemNext]_systemVars, ~Discover, ~Reboot
    PROVE  Grows /\ \A s \in Service : Moves(s)
<1>0. DaemonTypeOK /\ PollerTypeOK /\ \A r \in Request : svc(r) \in Service
  BY RequestService DEF SystemTypeOK, TypeOK, RequestTypeOK
<1>1. \/ UNCHANGED <<container, events, unheard, ran>>
      \/ \E s \in Service : Handles(s)
  <2>1. ASSUME NEW r \in Request, Handler(r) \/ Client(r)
        PROVE  UNCHANGED <<container, events, unheard, ran>> \/ Handles(svc(r))
    <3>1. CASE RecreateService(r)
      <4>1. RecreateStep(r, svc(r)) /\ svc(r) \in Service
        BY <1>0, <3>1 DEF RecreateService
      <4> QED
        BY <4>1, RecreateHandles DEF GoneInv, RanInv
    <3>2. CASE ~RecreateService(r)
      BY <2>1, <3>2 DEF Handler, Client, RequestStep, Arrive, ClientGone, ComposeFileMoved,
         LockService, Snapshot, ChooseRollbackTarget, SendStart, SendAndGoto, Pull, CrossCheck,
         Retag, SendProgress, RecreateReturns, SendSwap, VerifyNew, SendResult, SendFailure,
         Unlock, PullImage, TagImage, ActedAnyway, daemonVars
    <3> QED
      BY <3>1, <3>2
  <2>2. CASE Applied \/ UNCHANGED systemVars
    BY <2>2 DEF Applied, Updater, systemVars, vars, daemonVars
  <2>3. CASE \E w \in Sweeper : CronTick(w) \/ PollNow(w) \/ Poll(w) \/ PollExpires(w)
    BY <1>0, <2>3, SweepSpeech DEF CronTick, PollNow, Poll, PollExpires, daemonVars
  <2>4. CASE World
    BY <2>4 DEF World, Outside, Publish, Prune, Crash, Revive, Handles
  <2> QED
    BY <1>0, <2>1, <2>2, <2>3, <2>4, SystemSteps
<1>2. CASE UNCHANGED <<container, events, unheard, ran>>
  BY <1>0, <1>2, SilentMoves DEF Moves, Stays, Same
<1>3. CASE \E s \in Service : Handles(s)
  BY <1>0, <1>3, HandleMoves DEF RanInv
<1> QED
  BY <1>1, <1>2, <1>3

\* The mutex keeps other requests and redeploys away from a container between its
\* create and its swap.
LEMMA RanStep ==
    ASSUME SystemTypeOK, SpinnerInv, StepsInRecreate, GoneInv, RanInv, [SystemNext]_systemVars
    PROVE  RanInv'
<1>0. /\ TypeOK /\ DaemonTypeOK /\ MutexHeld /\ step \in [Request -> Step]
      /\ pc \in [Request -> PC]
      /\ \A r \in Request : svc(r) \in Service
  BY RequestService DEF SystemTypeOK, TypeOK, RequestTypeOK, RecreateTypeOK, SpinnerInv, Request
<1>1. ASSUME NEW s \in Service, container'[s].status \in {"running", "exited"}
      PROVE  container'[s].digest = ran'[s].last
  <2>1. CASE Discover \/ Reboot
    <3>1. UNCHANGED <<container, ran>>
      BY <2>1 DEF Discover, DiscoveryStep, List, InspectNext, Listed, Subscribe, HandleEvent,
                  SendUpdate, StreamBreaks, CloseStream, Reboot, Restart, daemonVars
    <3> QED
      BY <1>1, <3>1 DEF RanInv
  <2>2. CASE ~Discover /\ ~Reboot
    <3>1. Moves(s)
      BY <2>2, WorldMoves
    <3> QED
      BY <1>1, <3>1 DEF Moves, Stays, Ends, IsCreated, IsStarted, IsReplaced, Same, RanInv
  <2> QED
    BY <2>1, <2>2
<1>2. ASSUME NEW q \in Request
      PROVE  /\ step'[q] \in {"connect", "start"} => container'[svc(q)'].status = "created"
             /\ Swapping(q)' => container'[svc(q)'].status \in {"running", "exited"}
  <2> USE DEF Swapping
  <2>0. step[q] # "idle" \/ Swapping(q) => pc[q] \in Locked
    BY DEF StepsInRecreate, Locked, Started
  <2>1. ASSUME step'[q] = step[q], pc'[q] = pc[q], svc(q)' = svc(q),
               container'[svc(q)] = container[svc(q)]
        PROVE  /\ step'[q] \in {"connect", "start"} => container'[svc(q)'].status = "created"
               /\ Swapping(q)' => container'[svc(q)'].status \in {"running", "exited"}
    BY <2>1 DEF RanInv
  <2>2. ASSUME step'[q] = "idle", pc'[q] # "swap"
        PROVE  /\ step'[q] \in {"connect", "start"} => container'[svc(q)'].status = "created"
               /\ Swapping(q)' => container'[svc(q)'].status \in {"running", "exited"}
    BY <2>2
  <2>3. ASSUME NEW r \in Request, RequestStep(r)
        PROVE  /\ step'[q] \in {"connect", "start"} => container'[svc(q)'].status = "created"
               /\ Swapping(q)' => container'[svc(q)'].status \in {"running", "exited"}
    <3>0. svc(q)' = svc(q)
      BY <2>3, SameContext DEF svc
    <3>1. CASE q # r
      <4>1. step'[q] = step[q] /\ pc'[q] = pc[q]
        BY <1>0, <2>3, <3>1, OtherRequest
      <4>2. CASE pc[q] \in Locked
        BY <1>0, <2>1, <2>3, <3>0, <3>1, <4>1, <4>2, LockedUndisturbed
      <4>3. CASE pc[q] \notin Locked
        BY <2>0, <2>2, <4>1, <4>3
      <4> QED
        BY <4>2, <4>3
    <3>2. CASE q = r /\ RecreateService(r)
      <4> DEFINE s == svc(q)
      <4>0. /\ container \in [Service -> Container] /\ s \in Service /\ RecreateStep(q, s)
            /\ pc'[q] = "recreate" /\ container[s] \in Container
        BY <1>0, <3>2 DEF DaemonTypeOK, RecreateService, orchVars
      <4>1. step[q] \in {"connect", "start"} => container[s].status = "created"
        BY DEF RanInv
      <4> HIDE DEF s
      <4>2. /\ step'[q] \in {"connect", "start"} => container'[s].status = "created"
            /\ step'[q] = "ok" => container'[s].status = "running"
        <5> USE <1>0, <4>0 DEF Succeeds, StepTo, ActedAnyway, Container, daemonVars
        <5>1. CASE ListOld(q, s) \/ StopOld(q, s) \/ RemoveOld(q, s) \/ CleanupNew(q, s)
          BY <5>1 DEF ListOld, StopOld, RemoveOld, CleanupNew
        <5>2. CASE CreateNew(q, s)
          BY <5>2 DEF CreateNew, CreateContainer, NewContainer
        <5>3. CASE ConnectNetworks(q, s)
          BY <4>1, <5>3 DEF ConnectNetworks, ConnectNetwork
        <5>4. CASE StartNew(q, s)
          BY <5>4 DEF StartNew, StartContainer
        <5> QED
          BY <5>1, <5>2, <5>3, <5>4 DEF RecreateStep
      <4> QED
        BY <3>0, <4>0, <4>2 DEF s
    <3>3. CASE q = r /\ ~RecreateService(r)
      <4>1. step'[q] \notin {"connect", "start", "ok"} \/ (step'[q] = step[q] /\ UNCHANGED container)
        BY <1>0, <2>3, <3>3, OutsideRecreate DEF Delicate
      <4>2. CASE pc'[q] # "swap"
        BY <3>0, <4>1, <4>2 DEF RanInv
      <4>3. CASE pc'[q] = "swap"
        <5>0. req[q].op \in {"updating", "rolling_back", "force_pulling"}
          BY <1>0 DEF TypeOK, Op
        <5>1. RecreateReturns(q) /\ step[q] = "ok"
          BY <1>0, <2>3, <3>3, <4>3, <5>0 DEF RequestStep, ComposeFileMoved, LockService, Snapshot,
             ChooseRollbackTarget, SendStart, SendAndGoto, Pull, CrossCheck, Retag, SendProgress,
             RecreateReturns, SendSwap, VerifyNew, SendResult, SendFailure, Unlock, Goto, Phase
        <5>2. UNCHANGED container /\ step'[q] = "idle"
          BY <1>0, <5>1 DEF RecreateReturns, daemonVars
        <5> QED
          BY <3>0, <5>1, <5>2 DEF RanInv
      <4> QED
        BY <4>2, <4>3
    <3> QED
      BY <3>1, <3>2, <3>3
  <2>4. ASSUME NEW r \in Request, Arrive(r) \/ ClientGone(r)
        PROVE  /\ step'[q] \in {"connect", "start"} => container'[svc(q)'].status = "created"
               /\ Swapping(q)' => container'[svc(q)'].status \in {"running", "exited"}
    <3>1. UNCHANGED <<step, container>>
      BY <2>4 DEF Arrive, ClientGone, recreateVars, daemonVars
    <3>2. CASE q = r /\ Arrive(r)
      <4>1. pc[q] = "idle" /\ pc'[q] = "check"
        BY <1>0, <3>2 DEF Arrive, Goto
      <4>2. step'[q] = "idle"
        BY <2>0, <3>1, <4>1 DEF Locked, Started
      <4> QED
        BY <2>2, <4>1, <4>2
    <3>3. CASE q # r \/ ~Arrive(r)
      <4>1. req \in [Request -> [svc : Service, op : Op]]
        BY <1>0 DEF TypeOK
      <4>2. svc(q)' = svc(q) /\ pc'[q] = pc[q]
        BY <1>0, <2>4, <3>3, <4>1 DEF Arrive, ClientGone, Goto, orchVars, svc
      <4> QED
        BY <2>1, <3>1, <4>2
    <3> QED
      BY <3>2, <3>3
  <2>5. CASE Updater \/ Outside
    BY <2>1, <2>5 DEF Updater, Outside, Publish, Prune, daemonVars, recreateVars, orchVars, svc
  <2>6. CASE Restart
    <3>1. step'[q] = "idle" /\ pc'[q] # "swap"
      BY <2>6 DEF Restart
    <3> QED
      BY <2>2, <3>1
  <2>7. CASE ~Next
    <3>1. step'[q] = step[q] /\ pc'[q] = pc[q] /\ svc(q)' = svc(q) /\ UNCHANGED held
      BY <2>7, OtherSteps DEF recreateVars, orchVars, svc
    <3>2. CASE pc[q] \notin Locked
      BY <2>0, <2>2, <3>1, <3>2
    <3>3. CASE pc[q] \in Locked
      <4>1. held[svc(q)] # NoOne
        BY <1>0, <3>3, OrchestratorAssumption DEF MutexHeld
      <4>2. CASE container'[svc(q)] = container[svc(q)]
        BY <2>1, <3>1, <4>2
      <4>3. CASE Crash(svc(q)) \/ Revive(svc(q))
        <5>1. /\ container[svc(q)].status \in {"running", "exited"}
              /\ container'[svc(q)].status \in {"running", "exited"}
          BY <1>0, <4>3, StatusChange
        <5>2. step[q] \notin {"connect", "start"}
          BY <5>1 DEF RanInv
        <5> QED
          BY <3>1, <5>1, <5>2
      <4> QED
        BY <1>0, <2>7, <4>1, <4>2, <4>3, OtherSteps
    <3> QED
      BY <3>2, <3>3
  <2> QED
    BY <2>3, <2>4, <2>5, <2>6, <2>7 DEF Next
<1> QED
  BY <1>1, <1>2 DEF RanInv, Swapping

\* Everything runs at first, and nobody recreates.
LEMMA InitRan == SystemInit => RanInv
<1> SUFFICES ASSUME SystemInit PROVE RanInv
  OBVIOUS
<1>1. \A r \in Request : step[r] = "idle" /\ pc[r] = "idle"
  BY DEF SystemInit, NoRequestYet, RecreateInit, Request
<1>2. \A s \in Service : container[s].digest = ran[s].last
  <2>1. PICK config \in [Service -> Configs] :
          container = [s \in Service |-> [status |-> "running",
                                          digest |-> tagged[ImageOf[s]], id |-> 1,
                                          nets |-> config[s].nets, aliases |-> {1},
                                          config |-> config[s]]]
    BY DEF SystemInit, NoRequestYet, DaemonInit
  <2>2. ran = [s \in Service |-> [last |-> tagged[ImageOf[s]], before |-> NoDigest]]
    BY DEF SystemInit, NoRequestYet, DaemonInit
  <2> QED
    BY <2>1, <2>2
<1> QED
  BY <1>1, <1>2 DEF RanInv, Swapping

LEMMA SystemRan == SystemSpec => []RanInv
<1>1. SystemTypeOK /\ SpinnerInv /\ StepsInRecreate /\ LookInv /\ RanInv /\ [SystemNext]_systemVars
      => RanInv'
  BY RanStep DEF LookInv
<1> QED
  BY <1>1, InitRan, SystemTypes, SystemSpinner, SystemContainers, SystemLooks, PTL DEF SystemSpec

-----------------------------------------------------------------------------
(* What a send and an Apply do to what the row will say of that image.     *)

\* An upsert sets the build time and names the container; a swap sets the digest
\* and leaves the build time behind.
LEMMA ApplyImage ==
    ASSUME NEW row \in Row, NEW m \in Message
    PROVE  /\ m.kind = "upsert" =>
                /\ Apply(row, m).containerID = m.id
                /\ Apply(row, m).current = m.digest /\ Apply(row, m).currentAt = m.at
           /\ m.kind # "upsert" =>
                /\ Apply(row, m).containerID = row.containerID \/ Apply(row, m).containerID = 0
                /\ Apply(row, m).currentAt = row.currentAt
                /\ \/ Apply(row, m).current = row.current
                   \/ m.kind = "swap" /\ Apply(row, m).current = m.digest
<1> USE DEF Row
<1>1. CASE m \in StartMsg
  BY <1>1 DEF StartMsg, Apply, ApplyStart
<1>2. CASE m \in ProgressMsg
  BY <1>2 DEF ProgressMsg, Apply
<1>3. CASE m \in SwapMsg
  BY <1>3 DEF SwapMsg, Apply, ApplySwap
<1>4. CASE m \in ResultMsg
  BY <1>4 DEF ResultMsg, Apply, ApplyResult
<1>5. CASE m \in PulledMsg
  BY <1>5 DEF PulledMsg, Apply, ApplyPulled
<1>6. CASE m \in FailureMsg
  BY <1>6 DEF FailureMsg, Apply, ApplyFailure
<1>7. CASE m \in UpsertMsg
  BY <1>7 DEF UpsertMsg, Apply, ApplyUpsert
<1>8. CASE m \in StoppedMsg
  BY <1>8 DEF StoppedMsg, Apply, ApplyStopped
<1>9. CASE m \in RemovedMsg
  BY <1>9 DEF RemovedMsg, Apply, ApplyRemoved
<1>10. CASE m \in ResolvedMsg
  BY <1>10 DEF ResolvedMsg, Apply, ApplyResolved
<1>11. CASE m \in NoteMsg
  BY <1>11 DEF NoteMsg, Apply, ApplyNote
<1>12. CASE m \in SweepMsg
  BY <1>12 DEF SweepMsg, Apply
<1> QED
  BY <1>1, <1>2, <1>3, <1>4, <1>5, <1>6, <1>7, <1>8, <1>9, <1>10, <1>11, <1>12 DEF Message

\* The image that ran last, and whether an action can steer it, are what they were.
SameRun(s) == ran'[s].last = ran[s].last /\ container'[s].config = container[s].config

\* An upsert of that image settles what the row will tell; messages that tell of no
\* other leave it settled.
LEMMA ToldSent ==
    ASSUME StoreTypeOK, NEW m \in Message, channel' = Append(channel, m), NEW s \in Service,
           rows'[s] = rows[s], SameRun(s)
    PROVE  /\ Tells(m, s) => ToldWord(s)'
           /\ ~Mistells(m, s) /\ ToldWord(s) => ToldWord(s)'
<1> DEFINE n == Len(channel)
<1>0. /\ DOMAIN channel' = 1 .. n + 1 /\ DOMAIN channel = 1 .. n /\ n \in Nat
      /\ channel'[n + 1] = m
      /\ \A i \in 1 .. n : channel'[i] = channel[i]
  BY AppendFacts DEF StoreTypeOK
<1> HIDE DEF n
<1> USE DEF Tells, Mistells, Upserts, Steerable, Unshared, SameRun
<1>1. ASSUME Tells(m, s) PROVE ToldWord(s)'
  BY <1>0, <1>1 DEF ToldWord, ToldAfter
<1>2. ASSUME ~Mistells(m, s), NEW i \in 0 .. n, ToldAfter(s, i)
      PROVE  ToldAfter(s, i)'
  <2> SUFFICES ASSUME NEW j \in 1 .. n + 1, j > i PROVE ~Mistells(channel[j], s)'
    BY <1>0 DEF ToldAfter
  <2>1. CASE j = n + 1
    BY <1>0, <1>2, <2>1
  <2>2. CASE j # n + 1
    <3>1. j \in 1 .. n
      BY <1>0, <2>2
    <3>2. ~Mistells(channel[j], s)
      BY <1>0, <1>2, <3>1 DEF ToldAfter
    <3> QED
      BY <1>0, <3>1, <3>2
  <2> QED
    BY <2>1, <2>2
<1>3. RowTells(s) => RowTells(s)'
  BY DEF RowTells
<1>4. ASSUME ~Mistells(m, s), ToldWord(s) PROVE ToldWord(s)'
  <2>1. CASE RowTells(s) /\ ToldAfter(s, 0)
    BY <1>0, <1>2, <1>3, <1>4, <2>1 DEF ToldWord
  <2>2. CASE \E i \in 1 .. n : Tells(channel[i], s) /\ ToldAfter(s, i)
    <3>1. PICK i \in 1 .. n : Tells(channel[i], s) /\ ToldAfter(s, i)
      BY <2>2
    <3>2. ToldAfter(s, i)'
      BY <1>0, <1>2, <1>4, <3>1
    <3>3. i \in 1 .. n + 1 /\ Tells(channel[i], s)'
      BY <1>0, <3>1
    <3> QED
      BY <1>0, <3>2, <3>3 DEF ToldWord
  <2> QED
    BY <1>0, <1>4, <2>1, <2>2 DEF ToldWord
<1> QED
  BY <1>1, <1>4

\* Applying the oldest message brings the row nearer to what it will tell.
LEMMA ToldApplied ==
    ASSUME StoreTypeOK, Consume, NEW s \in Service, SameRun(s), ToldWord(s)
    PROVE  ToldWord(s)'
<1>0. PICK n \in Nat \ {0} :
             /\ DOMAIN channel = 1 .. n /\ DOMAIN channel' = 1 .. n - 1
             /\ \A i \in 2 .. n : i - 1 \in 1 .. n - 1 /\ channel'[i - 1] = channel[i]
             /\ \A j \in 1 .. n - 1 : j + 1 \in 2 .. n /\ channel'[j] = channel[j + 1]
             /\ channel[1] \in Message /\ rows[s] \in Row
             /\ rows'[s] = IF s = channel[1].svc THEN Apply(rows[s], channel[1]) ELSE rows[s]
  BY Taken
<1> USE DEF Upserts, Steerable, Unshared, SameRun
<1>1. ASSUME NEW i \in 0 .. n, NEW k \in 0 .. n - 1, k = i - 1 \/ (i = 0 /\ k = 0), ToldAfter(s, i)
      PROVE  ToldAfter(s, k)'
  <2> SUFFICES ASSUME NEW j \in 1 .. n - 1, j > k PROVE ~Mistells(channel[j], s)'
    BY <1>0 DEF ToldAfter
  <2>1. j + 1 \in 1 .. n /\ j + 1 > i /\ channel'[j] = channel[j + 1]
    BY <1>0, <1>1
  <2>2. ~Mistells(channel[j + 1], s)
    BY <1>0, <1>1, <2>1 DEF ToldAfter
  <2> QED
    BY <2>1, <2>2 DEF Mistells, Tells
<1>2. CASE RowTells(s) /\ ToldAfter(s, 0)
  <2>1. ~Mistells(channel[1], s)
    BY <1>0, <1>2 DEF ToldAfter
  <2>2. RowTells(s)'
    <3>1. CASE s = channel[1].svc
      BY <1>0, <1>2, <2>1, <3>1, ApplyImage, StoreAssumption, SMTT(60) DEF RowTells, Mistells, Tells
    <3>2. CASE s # channel[1].svc
      BY <1>0, <1>2, <3>2 DEF RowTells
    <3> QED
      BY <3>1, <3>2
  <2>3. ToldAfter(s, 0)'
    BY <1>1, <1>2
  <2> QED
    BY <2>2, <2>3 DEF ToldWord
<1>3. CASE Tells(channel[1], s) /\ ToldAfter(s, 1)
  <2>1. RowTells(s)'
    BY <1>0, <1>3, ApplyImage, StoreAssumption DEF RowTells, Tells
  <2>2. ToldAfter(s, 0)'
    BY <1>1, <1>3
  <2> QED
    BY <2>1, <2>2 DEF ToldWord
<1>4. CASE \E i \in 2 .. n : Tells(channel[i], s) /\ ToldAfter(s, i)
  <2>1. PICK i \in 2 .. n : Tells(channel[i], s) /\ ToldAfter(s, i)
    BY <1>4
  <2>2. PICK k \in 1 .. n - 1 : k = i - 1 /\ channel'[k] = channel[i]
    BY <1>0, <2>1
  <2>3. ToldAfter(s, k)'
    BY <1>1, <2>1, <2>2
  <2>4. Tells(channel[k], s)'
    BY <2>1, <2>2 DEF Tells
  <2> QED
    BY <1>0, <2>3, <2>4 DEF ToldWord
<1> QED
  <2>1. \A i \in 1 .. n : i = 1 \/ i \in 2 .. n
    OBVIOUS
  <2> QED
    BY <1>0, <1>2, <1>3, <1>4, <2>1 DEF ToldWord

\* Where nothing is written or sent, it stays.
LEMMA ToldKept ==
    ASSUME NEW s \in Service, UNCHANGED <<rows, channel>>, SameRun(s)
    PROVE  ToldWord(s)' <=> ToldWord(s)
BY DEF ToldWord, ToldAfter, RowTells, Tells, Mistells, Upserts, Steerable, Unshared, SameRun

\* A swap names the image that its request has just started.
LEMMA WorldTell ==
    ASSUME SystemTypeOK, TargetInv, RanInv, WorldSays, NEW s \in Service, SameRun(s), ToldWord(s)
    PROVE  ToldWord(s)'
<1>0. StoreTypeOK
  BY DEF SystemTypeOK, TypeOK
<1>1. CASE UNCHANGED <<rows, channel>>
  BY <1>1, ToldKept
<1>2. ASSUME NEW m \in Message, channel' = Append(channel, m), UNCHANGED rows,
             m.kind \notin {"upsert", "stopped", "removed"},
             m.kind = "swap" => \E r \in Request : pc[r] = "swap" /\ m = SwapOf(r)
      PROVE  ToldWord(s)'
  <2>1. ~Mistells(m, s)
    <3> SUFFICES ASSUME Mistells(m, s) PROVE FALSE
      OBVIOUS
    <3>0. m.kind = "swap" /\ m.svc = s /\ m.digest \in Digest /\ Steerable(s) /\ m.digest # ran[s].last
      BY <1>2 DEF Mistells, Upserts
    <3>1. PICK r \in Request : pc[r] = "swap" /\ m = SwapOf(r)
      BY <1>2, <3>0
    <3>2. svc(r) = s /\ target[r] = m.digest
      BY <3>0, <3>1 DEF SwapOf
    <3>3. TargetOK(r)
      BY <3>0, <3>2 DEF TargetInv
    <3>4. container[s].digest = ran[s].last
      BY <3>1, <3>2 DEF RanInv, Swapping
    <3> QED
      BY <3>0, <3>1, <3>2, <3>3, <3>4 DEF TargetOK, AfterCreate
  <2> QED
    BY <1>0, <1>2, <2>1, ToldSent
<1>3. CASE Consume
  BY <1>0, <1>3, ToldApplied
<1> QED
  BY <1>1, <1>2, <1>3 DEF WorldSays

-----------------------------------------------------------------------------
(* The containers that are named.                                          *)

\* What was started or removed was, and what is gone is, however the container
\* moves.
LEMMA OldKept ==
    ASSUME DaemonTypeOK, NEW s \in Service, Moves(s), NEW id \in Nat
    PROVE  /\ Old(s, id) => Old(s, id)'
           /\ Gone(s, id) => Gone(s, id)'
<1>1. container[s].id \in Nat
  BY DEF DaemonTypeOK, Container
<1> QED
  BY <1>1 DEF Moves, Stays, Ends, IsCreated, IsStarted, IsReplaced, Same, Old, Gone

\* The ids that the program holds.
LEMMA IdTypes ==
    ASSUME SystemTypeOK
    PROVE  /\ \A s \in Service : rows[s].containerID \in Nat /\ container[s].id \in Nat
           /\ \A s \in Service, i \in DOMAIN channel : Upserts(channel[i], s) => channel[i].id \in Nat
           /\ \A s \in Service : outbox # <<>> /\ Upserts(Head(outbox), s) => Head(outbox).id \in Nat
           /\ \A i \in DOMAIN events : events[i] \in Event
                                         /\ events[i].id \in Nat /\ events[i].svc \in Service
           /\ \A c \in todo : c[1] \in Service /\ c[2] \in Nat
<1>1. \A s \in Service : rows[s].containerID \in Nat /\ container[s].id \in Nat
  BY DEF SystemTypeOK, TypeOK, StoreTypeOK, DaemonTypeOK, Row, Container
<1>2. \A m \in Message : m.kind = "upsert" => m.id \in Nat
  BY DEF Message, StartMsg, ProgressMsg, SwapMsg, ResultMsg, PulledMsg, FailureMsg, UpsertMsg,
         StoppedMsg, RemovedMsg, ResolvedMsg, NoteMsg, SweepMsg
<1>3. \A i \in DOMAIN channel : channel[i] \in Message
  BY DEF SystemTypeOK, TypeOK, StoreTypeOK
<1>4. outbox # <<>> => Head(outbox) \in UpsertMsg \cup StoppedMsg \cup RemovedMsg
  BY DEF SystemTypeOK, DiscoveryTypeOK
<1>5. \A m \in UpsertMsg \cup StoppedMsg \cup RemovedMsg : m.kind = "upsert" => m.id \in Nat
  BY DEF UpsertMsg, StoppedMsg, RemovedMsg
<1>6. \A i \in DOMAIN events : events[i] \in Event
  BY DEF SystemTypeOK, TypeOK, DaemonTypeOK
<1>7. \A c \in todo : c[1] \in Service /\ c[2] \in Nat
  BY DEF SystemTypeOK, DiscoveryTypeOK
<1>8. \A ev \in Event : ev.id \in Nat /\ ev.svc \in Service
  BY DEF Event
<1> QED
  BY <1>1, <1>2, <1>3, <1>4, <1>5, <1>6, <1>7, <1>8 DEF Upserts

\* Nobody but discovery names a container, and nothing is named anew by an Apply.
LEMMA WorldNames ==
    ASSUME SystemTypeOK, WorldSays, UNCHANGED outbox, NEW s \in Service
    PROVE  /\ rows'[s].containerID # rows[s].containerID =>
                \/ rows'[s].containerID = 0
                \/ \E i \in DOMAIN channel :
                     Upserts(channel[i], s) /\ rows'[s].containerID = channel[i].id
           /\ \A i \in DOMAIN channel' : Upserts(channel'[i], s) =>
                \E j \in DOMAIN channel : channel[j] = channel'[i]
           /\ \A id : Unnamed(s, id) => Unnamed(s, id)'
<1>0. StoreTypeOK
  BY DEF SystemTypeOK, TypeOK
<1>1. CASE UNCHANGED <<rows, channel>>
  BY <1>1 DEF Unnamed, Upserts
<1>2. ASSUME NEW m \in Message, channel' = Append(channel, m), UNCHANGED rows,
             m.kind \notin {"upsert", "stopped", "removed"}
      PROVE  /\ UNCHANGED rows
             /\ \A i \in DOMAIN channel' : Upserts(channel'[i], s) =>
                  \E j \in DOMAIN channel : channel[j] = channel'[i]
  <2> DEFINE n == Len(channel)
  <2>0. /\ DOMAIN channel' = 1 .. n + 1 /\ DOMAIN channel = 1 .. n /\ n \in Nat
        /\ channel'[n + 1] = m
        /\ \A i \in 1 .. n : channel'[i] = channel[i]
    BY <1>0, <1>2, AppendFacts DEF StoreTypeOK
  <2> HIDE DEF n
  <2> QED
    BY <1>2, <2>0 DEF Upserts
<1>3. CASE Consume
  <2>0. PICK n \in Nat \ {0} :
             /\ DOMAIN channel = 1 .. n /\ DOMAIN channel' = 1 .. n - 1
             /\ \A i \in 2 .. n : i - 1 \in 1 .. n - 1 /\ channel'[i - 1] = channel[i]
             /\ \A j \in 1 .. n - 1 : j + 1 \in 2 .. n /\ channel'[j] = channel[j + 1]
             /\ channel[1] \in Message /\ rows[s] \in Row
             /\ rows'[s] = IF s = channel[1].svc THEN Apply(rows[s], channel[1]) ELSE rows[s]
    BY <1>0, <1>3, Taken
  <2>1. \/ rows'[s].containerID = rows[s].containerID \/ rows'[s].containerID = 0
        \/ Upserts(channel[1], s) /\ rows'[s].containerID = channel[1].id
    BY <2>0, ApplyImage DEF Upserts
  <2>2. ASSUME NEW i \in DOMAIN channel' PROVE \E j \in DOMAIN channel : channel[j] = channel'[i]
    <3>1. i + 1 \in 1 .. n /\ channel[i + 1] = channel'[i]
      BY <2>0, <2>2
    <3> QED
      BY <2>0, <3>1
  <2>3. 1 \in DOMAIN channel
    BY <2>0
  <2>4. \A id : Unnamed(s, id) => Unnamed(s, id)'
    BY <2>1, <2>2, <2>3 DEF Unnamed, Upserts
  <2> QED
    BY <2>1, <2>2, <2>3, <2>4
<1>4. CASE \E m \in Message : /\ channel' = Append(channel, m)
                              /\ m.kind \notin {"upsert", "stopped", "removed"}
                              /\ UNCHANGED rows
  <2>1. UNCHANGED rows /\ \A i \in DOMAIN channel' : Upserts(channel'[i], s) =>
                            \E j \in DOMAIN channel : channel[j] = channel'[i]
    BY <1>2, <1>4
  <2> QED
    BY <2>1 DEF Unnamed, Upserts
<1> QED
  BY <1>1, <1>3, <1>4 DEF WorldSays

\* Whatever names a container names one that was started or removed, and the end of
\* one whose start is to be heard is to be heard, in every step of the world.
LEMMA WorldIds ==
    ASSUME SystemTypeOK, SystemTypeOK', WorldSays, Grows, \A s \in Service : Moves(s),
           UNCHANGED <<outbox, todo>>, IdInv
    PROVE  IdInv'
<1>0. DaemonTypeOK
  BY DEF SystemTypeOK, TypeOK
<1> SUFFICES ASSUME NEW s \in Service
             PROVE  /\ container'[s].id > 0 /\ Old(s, rows[s].containerID)'
                    /\ \A i \in DOMAIN channel' : Upserts(channel[i], s)' => Old(s, channel[i].id)'
                    /\ outbox' # <<>> /\ Upserts(Head(outbox), s)' => Old(s, Head(outbox).id)'
                    /\ \A i \in DOMAIN events' : events'[i].svc = s => Old(s, events[i].id)'
                    /\ \A c \in todo' : c[1] = s => Old(s, c[2])'
  BY DEF IdInv
<1>1. container'[s].id > 0 /\ container'[s].id \in Nat
  BY <1>0, IdTypes DEF IdInv, Moves, Stays, Ends, IsCreated, IsStarted, IsReplaced, Same
<1>2. \A id \in Nat : Old(s, id) => Old(s, id)'
  BY <1>0, OldKept
<1>3. /\ Old(s, rows[s].containerID) /\ rows[s].containerID \in Nat
      /\ \A i \in DOMAIN channel :
            Upserts(channel[i], s) => Old(s, channel[i].id) /\ channel[i].id \in Nat
      /\ outbox # <<>> /\ Upserts(Head(outbox), s) => Old(s, Head(outbox).id) /\ Head(outbox).id \in Nat
      /\ \A i \in DOMAIN events : events[i].svc = s => Old(s, events[i].id) /\ events[i].id \in Nat
      /\ \A c \in todo : c[1] = s => Old(s, c[2]) /\ c[2] \in Nat
  BY IdTypes DEF IdInv
<1>4. /\ rows'[s].containerID # rows[s].containerID =>
           \/ rows'[s].containerID = 0
           \/ \E i \in DOMAIN channel :
                Upserts(channel[i], s) /\ rows'[s].containerID = channel[i].id
      /\ \A i \in DOMAIN channel' : Upserts(channel'[i], s) =>
           \E j \in DOMAIN channel : channel[j] = channel'[i]
  BY WorldNames
<1>5. Old(s, rows[s].containerID)'
  <2>1. ASSUME NEW id \in Nat, id = rows'[s].containerID, Old(s, id)'
        PROVE  Old(s, rows[s].containerID)'
    BY <2>1 DEF Old
  <2>2. CASE rows'[s].containerID = rows[s].containerID
    BY <1>2, <1>3, <2>1, <2>2
  <2>3. CASE rows'[s].containerID = 0
    BY <1>1, <2>3, IdTypes DEF Old
  <2>4. CASE \E i \in DOMAIN channel :
                Upserts(channel[i], s) /\ rows'[s].containerID = channel[i].id
    <3>1. PICK i \in DOMAIN channel :
                Upserts(channel[i], s) /\ rows'[s].containerID = channel[i].id
      BY <2>4
    <3> QED
      BY <1>2, <1>3, <2>1, <3>1
  <2> QED
    BY <1>4, <2>2, <2>3, <2>4
<1>6. \A i \in DOMAIN channel' : Upserts(channel[i], s)' => Old(s, channel[i].id)'
  BY <1>2, <1>3, <1>4 DEF Upserts, Old
<1>7. \A i \in DOMAIN events' : events'[i].svc = s => Old(s, events[i].id)'
  <2> SUFFICES ASSUME NEW i \in DOMAIN events', events'[i].svc = s PROVE Old(s, events[i].id)'
    OBVIOUS
  <2>0. /\ events \in Seq(Event) /\ Len(events) \in Nat /\ DOMAIN events = 1 .. Len(events)
        /\ events' \in Seq(Event) /\ Len(events') \in Nat /\ DOMAIN events' = 1 .. Len(events')
    BY <1>0 DEF DaemonTypeOK, Grows
  <2>1. CASE i > Len(events)
    <3>1. FreshOK(s) /\ Fresh(i, s)
      BY <2>1 DEF Moves, Fresh
    <3>2. /\ events'[i].id = container[s].id \/ events'[i].id = container'[s].id
          /\ events'[i].id = container'[s].id => container'[s].status # "created"
      BY <3>1 DEF FreshOK
    <3>3. container[s].id <= container'[s].id /\ container[s].id \in Nat /\ container'[s].id \in Nat
      BY IdTypes DEF Moves, Stays, Ends, IsCreated, IsStarted, IsReplaced, Same
    <3> QED
      BY <3>2, <3>3 DEF Old
  <2>2. CASE ~(i > Len(events))
    <3>1. i \in DOMAIN events /\ events'[i] = events[i]
      BY <2>0, <2>2 DEF Grows
    <3>2. events[i].id \in Nat /\ Old(s, events[i].id)
      BY <1>3, <3>1
    <3>3. PICK id \in Nat : id = events[i].id /\ Old(s, id)'
      BY <1>2, <3>2
    <3> QED
      BY <3>1, <3>3 DEF Old
  <2> QED
    BY <2>1, <2>2
<1>8. outbox' # <<>> /\ Upserts(Head(outbox), s)' => Old(s, Head(outbox).id)'
  <2> SUFFICES ASSUME outbox # <<>>, Upserts(Head(outbox), s) PROVE Old(s, Head(outbox).id)'
    BY DEF Upserts
  <2>1. PICK id \in Nat : id = Head(outbox).id /\ Old(s, id)'
    BY <1>2, <1>3
  <2> QED
    BY <2>1 DEF Old
<1>9. \A c \in todo' : c[1] = s => Old(s, c[2])'
  BY <1>2, <1>3
<1> QED
  BY <1>1, <1>5, <1>6, <1>7, <1>8, <1>9

\* A container goes with a destroy event, if anybody listens.
LEMMA WorldEnds ==
    ASSUME SystemTypeOK, Grows, \A s \in Service : Moves(s), IdInv, EndInv,
           events # <<>> => subscribed, events' # <<>> => subscribed
    PROVE  EndInv'
<1>0. /\ DaemonTypeOK /\ events \in Seq(Event) /\ Len(events) \in Nat /\ Len(events') \in Nat
      /\ DOMAIN events = 1 .. Len(events) /\ DOMAIN events' = 1 .. Len(events')
  BY DEF SystemTypeOK, TypeOK, DaemonTypeOK, Grows
<1>1. \A i \in DOMAIN events : i \in DOMAIN events' /\ events'[i] = events[i]
  BY <1>0 DEF Grows
<1> SUFFICES ASSUME NEW i \in DOMAIN events', events'[i].type = "start",
                    NEW s \in Service, s = events'[i].svc, NEW id \in Nat, id = events'[i].id,
                    Gone(s, id)'
             PROVE  \E j \in DOMAIN events' :
                      /\ j > i /\ events'[j].type = "destroy"
                      /\ events'[j].svc = s /\ events'[j].id = id
  <2>1. \A k \in DOMAIN events' : events'[k] \in Event
    BY DEF Grows
  <2>2. \A ev \in Event : ev.svc \in Service /\ ev.id \in Nat
    BY DEF Event
  <2> QED
    BY <2>1, <2>2 DEF EndInv, Gone
<1>2. container[s].id \in Nat /\ subscribed
  <2>1. events' # <<>>
    BY <1>0
  <2> QED
    BY <2>1, IdTypes
<1>3. CASE i > Len(events)
  <2>1. container'[s].status = "running" /\ id = container'[s].id
    BY <1>3 DEF Moves, FreshOK, Fresh
  <2>2. container'[s].id \in Nat
    BY <1>2 DEF Moves, Stays, Ends, IsCreated, IsStarted, IsReplaced, Same
  <2> QED
    BY <2>1, <2>2 DEF Gone
<1>4. CASE i \in DOMAIN events /\ Gone(s, id)
  <2>1. PICK j \in DOMAIN events : /\ j > i /\ events[j].type = "destroy"
                                   /\ events[j].svc = s /\ events[j].id = id
    BY <1>1, <1>4 DEF EndInv
  <2> QED
    BY <1>1, <2>1
<1>5. CASE i \in DOMAIN events /\ ~Gone(s, id)
  <2>1. Old(s, id)
    BY <1>1, <1>5 DEF IdInv
  <2>2. id = container[s].id /\ container[s].status # "absent"
    BY <1>2, <1>5, <2>1 DEF Old, Gone
  <2>3. Reported(s, "destroy", id)
    BY <1>2, <2>2 DEF Moves, Stays, Ends, IsCreated, IsStarted, IsReplaced, Same, Gone
  <2>4. PICK j \in DOMAIN events' : Fresh(j, s) /\ events'[j].type = "destroy" /\ events'[j].id = id
    BY <1>2, <2>3 DEF Reported
  <2>5. j > i
    BY <1>0, <1>5, <2>4 DEF Fresh
  <2> QED
    BY <2>4, <2>5 DEF Fresh
<1> QED
  BY <1>0, <1>3, <1>4, <1>5

\* The world keeps what discovery is going to find out.
LEMMA WorldNews ==
    ASSUME SystemTypeOK, WorldSays, UNCHANGED outbox, Grows, NEW s \in Service, Moves(s), News(s)
    PROVE  News(s)'
<1>0. /\ DaemonTypeOK /\ events \in Seq(Event) /\ Len(events) \in Nat /\ Len(events') \in Nat
      /\ DOMAIN events = 1 .. Len(events) /\ DOMAIN events' = 1 .. Len(events')
  BY DEF SystemTypeOK, TypeOK, DaemonTypeOK, Grows
<1>1. PICK i \in DOMAIN events :
        /\ events[i].svc = s /\ Unnamed(s, events[i].id)
        /\ \/ events[i].type = "start"
           \/ events[i].type = "destroy" /\ Gone(s, events[i].id)
  BY DEF News
<1>2. i \in DOMAIN events' /\ events'[i] = events[i]
  BY <1>0 DEF Grows
<1>3. PICK id \in Nat : id = events[i].id
  BY IdTypes
<1>4. Unnamed(s, id)' /\ (Gone(s, id) => Gone(s, id)')
  BY <1>0, <1>1, <1>3, WorldNames, OldKept
<1>5. Unnamed(s, events[i].id)' /\ (Gone(s, id) => Gone(s, events[i].id)')
  BY <1>2, <1>3, <1>4 DEF Unnamed, Upserts, Gone
<1> QED
  BY <1>1, <1>2, <1>3, <1>5 DEF News

\* The row tells, or is going to, after every step of the world: what is started is
\* news, and a container that comes back or ends has run before.
LEMMA WorldTells ==
    ASSUME SystemTypeOK, StreamInv, TargetInv, RanInv, IdInv, TellInv, WorldSays, Grows,
           NEW s \in Service, Moves(s), UNCHANGED <<phase, todo, outbox>>, s \notin unheard'
    PROVE  IsTold(s)' \/ News(s)' \/ (Running(s)' /\ (phase' = "list" \/ <<s, container'[s].id>> \in todo'))
<1>0. /\ s \notin unheard
      /\ \/ IsTold(s) \/ News(s)
         \/ Running(s) /\ (phase = "list" \/ <<s, container[s].id>> \in todo)
      /\ container[s].id \in Nat /\ rows[s].containerID \in Nat
  BY IdTypes DEF Moves, TellInv
<1>1. CASE IsTold(s) /\ SameRun(s)
  <2>1. ToldWord(s) => ToldWord(s)'
    BY <1>1, WorldTell
  <2> QED
    BY <1>1, <2>1 DEF IsTold, Tells, Mistells, Upserts, Steerable, Unshared, SameRun
<1>2. CASE News(s)
  BY <1>2, WorldNews
<1>3. ASSUME NEW id \in Nat, id > 0, Unnamed(s, id), Reported(s, "start", id) PROVE News(s)'
  <2>1. subscribed
    BY <1>3 DEF Reported
  <2>2. PICK i \in DOMAIN events' : Fresh(i, s) /\ events'[i].type = "start" /\ events'[i].id = id
    BY <1>3, <2>1 DEF Reported
  <2>3. Unnamed(s, id)'
    BY <1>3, WorldNames
  <2>4. Unnamed(s, events[i].id)'
    BY <2>2, <2>3 DEF Unnamed, Upserts
  <2> QED
    BY <2>2, <2>4 DEF News, Fresh
<1>4. ASSUME NEW id \in Nat, id > 0, ~Old(s, id) PROVE Unnamed(s, id)
  BY <1>4 DEF IdInv, Unnamed
<1>5. CASE IsReplaced(s)
  <2>1. ~Old(s, container[s].id + 1) /\ container[s].id + 1 \in Nat /\ container[s].id + 1 > 0
    BY <1>0 DEF Old
  <2> QED
    BY <1>3, <1>4, <1>5, <2>1 DEF IsReplaced
<1>6. CASE IsStarted(s) /\ container[s].status = "created"
  <2>1. ~Old(s, container[s].id) /\ container[s].id > 0
    BY <1>6 DEF Old, IdInv
  <2> QED
    BY <1>0, <1>3, <1>4, <1>6, <2>1 DEF IsStarted
<1>7. CASE Stays(s) \/ Ends(s) \/ IsCreated(s) \/ (IsStarted(s) /\ container[s].status # "created")
  <2>1. SameRun(s)
    BY <1>7 DEF Stays, Ends, IsCreated, IsStarted, SameRun, Same
  <2>2. CASE Running(s) /\ (phase = "list" \/ <<s, container[s].id>> \in todo)
    <3>1. ~subscribed
      BY <2>2 DEF StreamInv
    <3>2. Stays(s)
      BY <1>7, <2>2, <3>1 DEF Ends, IsCreated, IsStarted, Reported, Running
    <3> QED
      BY <2>2, <3>2 DEF Stays, Same, Running
  <2> QED
    BY <1>0, <1>1, <1>2, <2>1, <2>2
<1> QED
  BY <1>5, <1>6, <1>7 DEF Moves

-----------------------------------------------------------------------------
(* What discovery says of it.                                              *)

\* It leaves all else alone.
LEMMA DiscoveryLeaves ==
    ASSUME SystemTypeOK, Discover
    PROVE  /\ UNCHANGED <<rows, container, ran, restarts>> /\ DiscoveryStep
           /\ \A s \in Service : SameRun(s)
           /\ \A s \in Service, id \in Nat : (Old(s, id)' <=> Old(s, id)) /\ (Gone(s, id)' <=> Gone(s, id))
<1>1. UNCHANGED <<rows, container, ran, restarts>> /\ DiscoveryStep
  BY DEF Discover, DiscoveryStep, List, InspectNext, Listed, Subscribe, HandleEvent,
         SendUpdate, StreamBreaks, CloseStream, daemonVars, storeVars, orchVars
<1> QED
  BY <1>1 DEF SameRun, Old, Gone

\* An upsert is about a container that was started, and tells of the image that ran
\* last.
LEMMA InspectTells ==
    ASSUME SystemTypeOK, RanInv, NEW s \in Service, NEW id \in Nat, Old(s, id),
           UpsertFromInspect(s, id), outbox = <<>>
    PROVE  /\ \A t \in Service : t # s => (t \in unheard' <=> t \in unheard)
           /\ \/ /\ outbox' = <<>>
                 /\ \/ s \in unheard'
                    \/ Gone(s, id) /\ UNCHANGED unheard
              \/ \E m : /\ outbox' = <<m>> /\ outbox' # <<>> /\ Head(outbox') = m
                        /\ Tells(m, s) /\ m.id = container[s].id /\ Old(s, m.id)
<1>0. /\ DaemonTypeOK /\ container[s].id \in Nat /\ container[s].digest \in Digest
      /\ container[s].status \in ContainerState
  BY DEF SystemTypeOK, TypeOK, DaemonTypeOK, Container
<1>1. \A t \in Service : t # s => (t \in unheard' <=> t \in unheard)
  BY <1>0, Inspected
<1>2. \A m : <<m>> # <<>> /\ Head(<<m>>) = m
  OBVIOUS
<1>3. CASE container[s].id = id /\ container[s].status # "absent"
  <2>1. container[s].digest = ran[s].last
    BY <1>0, <1>3 DEF Old, RanInv, ContainerState
  <2> DEFINE a == Observed(s)
             b == [Observed(s) EXCEPT !.digest = NoDigest, !.at = 0]
  <2>2. /\ a.kind = "upsert" /\ a.svc = s /\ a.id = container[s].id
        /\ a.digest \in {NoDigest, container[s].digest} /\ a.at = BuiltAt[container[s].digest]
        /\ b.kind = "upsert" /\ b.svc = s /\ b.id = container[s].id
        /\ b.digest = NoDigest /\ b.at = 0
    BY DEF Observed
  <2>3. (outbox' = <<a>> \/ outbox' = <<b>>) \/ (s \in unheard' /\ outbox' = outbox)
    BY <1>3 DEF UpsertFromInspect
  <2> HIDE DEF a, b
  <2>4. Tells(a, s) /\ Tells(b, s)
    BY <2>1, <2>2 DEF Tells, Upserts
  <2> QED
    BY <1>1, <1>2, <1>3, <2>2, <2>3, <2>4
<1>4. CASE ~(container[s].id = id /\ container[s].status # "absent")
  <2>1. UNCHANGED <<outbox, unheard>>
    BY <1>4 DEF UpsertFromInspect
  <2>2. Gone(s, id)
    BY <1>0, <1>4 DEF Old, Gone
  <2> QED
    BY <1>1, <2>1, <2>2
<1> QED
  BY <1>3, <1>4

\* A send.
LEMMA SendTells ==
    ASSUME SystemTypeOK, IdInv, EndInv, TellInv, Discover, SendUpdate
    PROVE  IdInv' /\ EndInv' /\ TellInv'
<1>0. StoreTypeOK /\ UNCHANGED <<rows, container, ran>> /\ \A s \in Service : SameRun(s)
  BY DiscoveryLeaves DEF SystemTypeOK, TypeOK
<1>1. PICK m \in Message :
        /\ m = Head(outbox) /\ channel' = Append(channel, m) /\ outbox # <<>> /\ outbox' = <<>>
        /\ UNCHANGED <<unheard, phase, todo, events>>
  BY DiscoverySends
<1> DEFINE n == Len(channel)
<1>2. /\ DOMAIN channel' = 1 .. n + 1 /\ DOMAIN channel = 1 .. n /\ n \in Nat
      /\ channel'[n + 1] = m
      /\ \A i \in 1 .. n : channel'[i] = channel[i]
  BY <1>0, <1>1, AppendFacts DEF StoreTypeOK
<1> HIDE DEF n
<1>3. \A i \in DOMAIN channel' : channel'[i] = m \/ \E j \in DOMAIN channel : channel'[i] = channel[j]
  BY <1>2
<1>4. IdInv'
  BY <1>0, <1>1, <1>3 DEF IdInv, Old, Upserts
<1>5. EndInv'
  BY <1>0, <1>1 DEF EndInv, Gone
<1>6. ASSUME NEW s \in Service, NEW id, Unnamed(s, id) PROVE Unnamed(s, id)'
  BY <1>0, <1>1, <1>3, <1>6 DEF Unnamed, Upserts
<1>7. ASSUME NEW s \in Service, News(s) PROVE News(s)'
  BY <1>0, <1>1, <1>6, <1>7 DEF News, Gone, Unnamed
<1>8. ASSUME NEW s \in Service, IsTold(s) PROVE IsTold(s)'
  <2>1. Tells(m, s) \/ (ToldWord(s) /\ ~Mistells(m, s))
    BY <1>1, <1>8 DEF IsTold
  <2>2. ToldWord(s)'
    BY <1>0, <1>1, <2>1, ToldSent
  <2> QED
    BY <1>1, <2>2 DEF IsTold
<1>9. TellInv'
  BY <1>0, <1>1, <1>7, <1>8 DEF TellInv, Running
<1> QED
  BY <1>4, <1>5, <1>9

\* What discovery has to say about another service, or nothing about an upsert, takes
\* nothing away.
LEMMA OutboxTold ==
    ASSUME NEW s \in Service, SameRun(s), UNCHANGED <<rows, channel>>, outbox = <<>>,
           outbox' # <<>> => ~Mistells(Head(outbox'), s) /\ ~Upserts(Head(outbox'), s)
    PROVE  /\ IsTold(s) => IsTold(s)'
           /\ \A id : Unnamed(s, id) => Unnamed(s, id)'
<1>1. ToldWord(s)' <=> ToldWord(s)
  BY ToldKept
<1> QED
  BY <1>1 DEF IsTold, Mistells, Tells, Upserts, Unnamed, Steerable, Unshared, SameRun

\* The same where it has nothing new to say at all.
LEMMA QuietTold ==
    ASSUME NEW s \in Service, SameRun(s), UNCHANGED <<rows, channel, outbox>>
    PROVE  /\ IsTold(s) => IsTold(s)'
           /\ \A id : Unnamed(s, id) => Unnamed(s, id)'
<1>1. ToldWord(s)' <=> ToldWord(s)
  BY ToldKept
<1> QED
  BY <1>1 DEF IsTold, Mistells, Tells, Upserts, Unnamed, Steerable, Unshared, SameRun

\* The list, the subscription and its end.
LEMMA StreamTells ==
    ASSUME SystemTypeOK, StreamInv, IdInv, EndInv, TellInv, Discover,
           List \/ Listed \/ Subscribe \/ StreamBreaks
    PROVE  IdInv' /\ EndInv' /\ TellInv'
<1>0. /\ UNCHANGED <<rows, container, ran>> /\ \A s \in Service : SameRun(s)
      /\ UNCHANGED <<channel, outbox>>
  BY DiscoveryLeaves DEF List, Listed, Subscribe, StreamBreaks, storeVars, daemonVars
<1>1. UNCHANGED events \/ (StreamBreaks /\ events' = <<>>)
  BY DEF List, Listed, Subscribe, StreamBreaks, CloseStream, daemonVars
<1>2. DOMAIN events' = DOMAIN events \/ DOMAIN events' = {}
  BY <1>1
<1>3. EndInv'
  BY <1>0, <1>1, <1>2 DEF EndInv, Gone
<1>4. \A c \in todo' : c \in todo \/ \E s \in Service : Running(s) /\ c = <<s, container[s].id>>
  BY DEF List, Listed, Subscribe, StreamBreaks
<1>5. \A s \in Service, c \in todo' : c[1] = s => Old(s, c[2])
  <2> SUFFICES ASSUME NEW s \in Service, NEW c \in todo', c[1] = s PROVE Old(s, c[2])
    OBVIOUS
  <2>1. CASE c \in todo
    BY <2>1 DEF IdInv
  <2>2. CASE \E t \in Service : Running(t) /\ c = <<t, container[t].id>>
    <3>1. Running(s) /\ c[2] = container[s].id /\ container[s].id \in Nat
      BY <2>2, IdTypes
    <3> QED
      BY <3>1 DEF Old, Running
  <2> QED
    BY <1>4, <2>1, <2>2
<1>6. IdInv'
  BY <1>0, <1>1, <1>2, <1>5 DEF IdInv, Old, Upserts
<1>7. ASSUME NEW s \in Service, s \notin unheard'
      PROVE  IsTold(s)' \/ News(s)' \/ (Running(s)' /\ (phase' = "list" \/ <<s, container'[s].id>> \in todo'))
  <2>0. /\ IsTold(s) => IsTold(s)'
        /\ \A id : Unnamed(s, id) => Unnamed(s, id)'
    BY <1>0, QuietTold
  <2>1. s \notin unheard
    BY <1>7 DEF List, Listed, Subscribe, StreamBreaks, CloseStream, daemonVars
  <2>2. CASE IsTold(s)
    BY <2>0, <2>2
  <2>3. CASE News(s)
    <3>1. PICK i \in DOMAIN events :
            /\ events[i].svc = s /\ Unnamed(s, events[i].id)
            /\ events[i].type = "start" \/ (events[i].type = "destroy" /\ Gone(s, events[i].id))
      BY <2>3 DEF News
    <3>2. ~StreamBreaks
      BY <1>7, <3>1 DEF StreamBreaks, CloseStream
    <3>3. UNCHANGED events
      BY <1>1, <3>2
    <3>4. Unnamed(s, events[i].id)'
      BY <1>0, <3>1, <3>3 DEF Unnamed, Upserts
    <3> QED
      BY <1>0, <3>1, <3>3, <3>4 DEF News, Gone
  <2>4. CASE Running(s) /\ (phase = "list" \/ <<s, container[s].id>> \in todo)
    <3>1. phase = "list" \/ phase = "walk"
      BY <2>4 DEF StreamInv
    <3>2. CASE List
      <4>1. <<s, container[s].id>> \in todo'
        BY <1>7, <2>4, <3>2 DEF List
      <4> QED
        BY <1>0, <2>4, <4>1 DEF Running
    <3>3. CASE ~List
      BY <2>4, <3>1, <3>3 DEF Listed, Subscribe, StreamBreaks, StreamInv
    <3> QED
      BY <3>2, <3>3
  <2> QED
    BY <2>1, <2>2, <2>3, <2>4 DEF TellInv
<1>8. TellInv'
  BY <1>7 DEF TellInv
<1> QED
  BY <1>3, <1>6, <1>8

\* A container of the list.
LEMMA WalkTells ==
    ASSUME SystemTypeOK, StreamInv, RanInv, IdInv, EndInv, TellInv, Discover, InspectNext
    PROVE  IdInv' /\ EndInv' /\ TellInv'
<1>0. /\ UNCHANGED <<rows, container, ran>> /\ \A s \in Service : SameRun(s)
      /\ UNCHANGED <<channel, events, phase>> /\ outbox = <<>> /\ phase = "walk"
  BY DiscoveryLeaves DEF InspectNext, storeVars
<1>1. PICK c \in todo : UpsertFromInspect(c[1], c[2]) /\ todo' = todo \ {c}
  BY DEF InspectNext
<1>2. PICK u \in Service, id \in Nat : c[1] = u /\ c[2] = id /\ c = <<u, id>>
  BY <1>1 DEF SystemTypeOK, DiscoveryTypeOK
<1>3. Old(u, id)
  BY <1>1, <1>2 DEF IdInv
<1>4. /\ \A t \in Service : t # u => (t \in unheard' <=> t \in unheard)
      /\ \/ /\ outbox' = <<>>
            /\ \/ u \in unheard'
               \/ Gone(u, id) /\ UNCHANGED unheard
         \/ \E m : /\ outbox' = <<m>> /\ outbox' # <<>> /\ Head(outbox') = m
                   /\ Tells(m, u) /\ m.id = container[u].id /\ Old(u, m.id)
  BY <1>0, <1>1, <1>2, <1>3, InspectTells
<1>5. EndInv'
  BY <1>0 DEF EndInv, Gone
<1>6. IdInv'
  <2>1. \A s \in Service : outbox' # <<>> /\ Upserts(Head(outbox'), s) => Old(s, Head(outbox').id)
    BY <1>4 DEF Upserts, Tells
  <2> QED
    BY <1>0, <1>1, <2>1 DEF IdInv, Old, Upserts
<1>7. ASSUME NEW s \in Service, s \notin unheard'
      PROVE  IsTold(s)' \/ News(s)' \/ (Running(s)' /\ (phase' = "list" \/ <<s, container'[s].id>> \in todo'))
  <2>1. CASE \E m : outbox' = <<m>> /\ outbox' # <<>> /\ Head(outbox') = m /\ Tells(m, u) /\ s = u
    BY <1>0, <2>1 DEF IsTold, Tells, Upserts
  <2>2. CASE s # u \/ outbox' = <<>>
    <3>1. s \notin unheard
      BY <1>4, <1>7, <2>2
    <3>2. outbox' # <<>> => ~Mistells(Head(outbox'), s) /\ ~Upserts(Head(outbox'), s)
      BY <1>4, <2>2 DEF Tells, Mistells, Upserts
    <3>3. (IsTold(s) => IsTold(s)') /\ \A k : Unnamed(s, k) => Unnamed(s, k)'
      BY <1>0, <3>2, OutboxTold
    <3>4. News(s) => News(s)'
      BY <1>0, <3>3 DEF News, Gone, Unnamed
    <3>5. CASE Running(s) /\ <<s, container[s].id>> \in todo
      <4>1. <<s, container[s].id>> # c
        BY <1>2, <1>4, <1>7, <2>2, <3>5, IdTypes DEF Gone, Running
      <4> QED
        BY <1>0, <1>1, <3>5, <4>1 DEF Running
    <3> QED
      BY <1>0, <3>1, <3>3, <3>4, <3>5 DEF TellInv
  <2> QED
    BY <1>4, <2>1, <2>2
<1>8. TellInv'
  BY <1>7 DEF TellInv
<1> QED
  BY <1>5, <1>6, <1>8

\* An event: the start of a container that is gone by now is followed by its end,
\* and the end of one that no row has named is missed.
LEMMA EventTells ==
    ASSUME SystemTypeOK, StreamInv, RanInv, IdInv, EndInv, TellInv, Discover, HandleEvent
    PROVE  IdInv' /\ EndInv' /\ TellInv'
<1> DEFINE ev == Head(events)
<1>0. /\ UNCHANGED <<rows, container, ran>> /\ \A s \in Service : SameRun(s)
      /\ UNCHANGED <<channel, phase, todo>> /\ outbox = <<>> /\ phase = "drain"
      /\ events # <<>> /\ events' = Tail(events) /\ events \in Seq(Event)
  BY DiscoveryLeaves DEF HandleEvent, storeVars, SystemTypeOK, TypeOK, DaemonTypeOK
<1>1. PICK n \in Nat \ {0} :
        /\ ev \in Event /\ ev = events[1]
        /\ DOMAIN events = 1 .. n /\ DOMAIN events' = 1 .. n - 1
        /\ \A i \in 1 .. n - 1 : events'[i] = events[i + 1]
  BY <1>0, EventTail
<1>2. PICK u \in Service, id \in Nat : u = ev.svc /\ id = ev.id
  BY <1>1 DEF Event
<1>3. \/ UpsertFromInspect(u, id) /\ ev.type = "start"
      \/ StopOrRemove(ev, "stopped") /\ ev.type = "die"
      \/ StopOrRemove(ev, "removed") /\ ev.type = "destroy"
  BY <1>2 DEF HandleEvent
<1> HIDE DEF ev
<1>4. \A i \in 2 .. n : i - 1 \in 1 .. n - 1 /\ events'[i - 1] = events[i]
  <2> SUFFICES ASSUME NEW i \in 2 .. n PROVE i - 1 \in 1 .. n - 1 /\ events'[i - 1] = events[i]
    OBVIOUS
  <2>1. i - 1 \in 1 .. n - 1 /\ (i - 1) + 1 = i
    OBVIOUS
  <2> QED
    BY <1>1, <2>1
<1>5. \A i \in 1 .. n - 1 : i + 1 \in 2 .. n /\ i + 1 \in 1 .. n /\ events'[i] = events[i + 1]
  BY <1>1
<1>6. Old(u, id) /\ 1 \in DOMAIN events
  BY <1>1, <1>2 DEF IdInv
<1>7. EndInv'
  <2>1. ASSUME NEW i \in 1 .. n - 1, events'[i].type = "start",
               Gone(events[i].svc, events[i].id)'
        PROVE  \E j \in 1 .. n - 1 :
                  /\ j > i /\ events'[j].type = "destroy"
                  /\ events'[j].svc = events'[i].svc /\ events'[j].id = events'[i].id
    <3>1. i + 1 \in 1 .. n /\ events'[i] = events[i + 1]
      BY <1>5
    <3>2. events[i + 1].type = "start" /\ Gone(events[i + 1].svc, events[i + 1].id)
      BY <1>0, <2>1, <3>1 DEF Gone
    <3>3. PICK j \in 1 .. n :
            /\ j > i + 1 /\ events[j].type = "destroy"
            /\ events[j].svc = events[i + 1].svc /\ events[j].id = events[i + 1].id
      BY <1>1, <3>1, <3>2 DEF EndInv
    <3>4. j \in 2 .. n /\ j - 1 > i
      BY <3>3
    <3>5. j - 1 \in 1 .. n - 1 /\ events'[j - 1] = events[j]
      BY <1>4, <3>4
    <3> QED
      BY <3>1, <3>3, <3>4, <3>5
  <2> QED
    BY <1>1, <2>1 DEF EndInv
<1>8. /\ \A t \in Service : t # u => (t \in unheard' <=> t \in unheard)
      /\ unheard \subseteq unheard' \/ (outbox' # <<>> /\ Tells(Head(outbox'), u))
      /\ outbox' # <<>> =>
           \/ Tells(Head(outbox'), u) /\ Old(u, Head(outbox').id)
           \/ Head(outbox').kind \in {"stopped", "removed"}
      /\ u \notin unheard' =>
           \/ outbox' # <<>> /\ Tells(Head(outbox'), u)
           \/ Gone(u, id) /\ ev.type = "start"
           \/ ev.type # "start" /\ rows[u].containerID = id
  <2>1. \A m : <<m>> # <<>> /\ Head(<<m>>) = m
    OBVIOUS
  <2>2. CASE UpsertFromInspect(u, id) /\ ev.type = "start"
    <3>1. /\ \A t \in Service : t # u => (t \in unheard' <=> t \in unheard)
          /\ \/ /\ outbox' = <<>>
                /\ \/ u \in unheard'
                   \/ Gone(u, id) /\ UNCHANGED unheard
             \/ \E m : /\ outbox' = <<m>> /\ outbox' # <<>> /\ Head(outbox') = m
                       /\ Tells(m, u) /\ m.id = container[u].id /\ Old(u, m.id)
      BY <1>0, <1>6, <2>2, InspectTells
    <3>2. unheard \in SUBSET Service
      BY DEF SystemTypeOK, TypeOK, DaemonTypeOK
    <3> QED
      BY <2>2, <3>1, <3>2
  <2>3. CASE /\ StopOrRemove(ev, "stopped") \/ StopOrRemove(ev, "removed")
             /\ ev.type # "start"
    <3>1. \/ /\ rows[u].containerID = id /\ UNCHANGED unheard
             /\ \/ outbox' = <<[kind |-> "stopped", svc |-> ev.svc]>>
                \/ outbox' = <<[kind |-> "removed", svc |-> ev.svc]>>
          \/ UNCHANGED outbox /\ unheard' = unheard \cup {u}
      BY <1>2, <2>3 DEF StopOrRemove
    <3>2. \A k \in {"stopped", "removed"} : [kind |-> k, svc |-> ev.svc].kind = k
      OBVIOUS
    <3> QED
      BY <1>0, <2>1, <2>3, <3>1, <3>2
  <2> QED
    BY <1>3, <2>2, <2>3
<1>9. IdInv'
  <2>1. \A s \in Service : outbox' # <<>> /\ Upserts(Head(outbox'), s) => Old(s, Head(outbox').id)
    BY <1>8 DEF Upserts, Tells
  <2>2. \A s \in Service, i \in 1 .. n - 1 : events'[i].svc = s => Old(s, events'[i].id)
    BY <1>1, <1>5 DEF IdInv
  <2> QED
    BY <1>0, <1>1, <2>1, <2>2 DEF IdInv, Old, Upserts
<1>10. ASSUME NEW s \in Service, s \notin unheard' PROVE IsTold(s)' \/ News(s)'
  <2>1. CASE outbox' # <<>> /\ Tells(Head(outbox'), s)
    BY <1>0, <2>1 DEF IsTold, Tells, Upserts
  <2>2. CASE ~(outbox' # <<>> /\ Tells(Head(outbox'), s))
    <3>1. s \notin unheard
      BY <1>8, <1>10, <2>2
    <3>2. outbox' # <<>> => ~Mistells(Head(outbox'), s) /\ ~Upserts(Head(outbox'), s)
      BY <1>8, <2>2 DEF Tells, Mistells, Upserts
    <3>3. (IsTold(s) => IsTold(s)') /\ \A k : Unnamed(s, k) => Unnamed(s, k)'
      BY <1>0, <3>2, OutboxTold
    <3>4. ASSUME NEW i \in 2 .. n, events[i].svc = s, Unnamed(s, events[i].id),
                 \/ events[i].type = "start"
                 \/ events[i].type = "destroy" /\ Gone(s, events[i].id)
          PROVE  News(s)'
      <4>1. PICK k \in 1 .. n - 1 : events'[k] = events[i]
        BY <1>4
      <4>2. Unnamed(s, events[k].id)'
        BY <1>0, <3>2, <3>4, <4>1 DEF Unnamed, Upserts
      <4> QED
        BY <1>0, <1>1, <3>4, <4>1, <4>2 DEF News, Gone
    <3>5. CASE News(s)
      <4>1. PICK i \in 1 .. n :
              /\ events[i].svc = s /\ Unnamed(s, events[i].id)
              /\ events[i].type = "start" \/ (events[i].type = "destroy" /\ Gone(s, events[i].id))
        BY <1>1, <3>5 DEF News
      <4>2. CASE i \in 2 .. n
        BY <3>4, <4>1, <4>2
      <4>3. CASE i = 1
        <5>1. s = u /\ Unnamed(u, id)
          BY <1>1, <1>2, <4>1, <4>3
        <5>2. Gone(u, id) /\ ev.type = "start"
          BY <1>8, <1>10, <2>2, <5>1 DEF Unnamed
        <5>3. PICK j \in 1 .. n : /\ j > 1 /\ events[j].type = "destroy"
                                  /\ events[j].svc = u /\ events[j].id = id
          BY <1>1, <1>2, <1>6, <5>2 DEF EndInv
        <5>4. j \in 2 .. n
          BY <5>3
        <5> QED
          BY <3>4, <5>1, <5>2, <5>3, <5>4
      <4> QED
        BY <4>1, <4>2, <4>3
    <3>6. ~(phase = "list" \/ <<s, container[s].id>> \in todo)
      BY <1>0 DEF StreamInv
    <3> QED
      BY <3>1, <3>3, <3>5, <3>6 DEF TellInv
  <2> QED
    BY <2>1, <2>2
<1>11. TellInv'
  BY <1>10 DEF TellInv
<1> QED
  BY <1>7, <1>9, <1>11

-----------------------------------------------------------------------------
(* The row tells of the image that ran last.                               *)

LEMMA ImageStep ==
    ASSUME SystemTypeOK, LookInv, TargetInv, RanInv, ImageInv, [SystemNext]_systemVars
    PROVE  ImageInv'
<1>0. /\ GoneInv /\ StreamInv /\ EventInv /\ restarts \in Nat
      /\ events # <<>> => subscribed
  BY DEF SystemTypeOK, TypeOK, LookInv, StreamInv
<1> SUFFICES ASSUME restarts' = 0 PROVE IdInv' /\ EndInv' /\ TellInv'
  BY DEF ImageInv
<1>1. CASE Discover
  <2>1. IdInv /\ EndInv /\ TellInv /\ DiscoveryStep
    BY <1>1, DiscoveryLeaves DEF ImageInv
  <2> QED
    BY <1>0, <1>1, <2>1, SendTells, StreamTells, WalkTells, EventTells DEF DiscoveryStep
<1>2. CASE Reboot
  BY <1>0, <1>2 DEF Reboot, Restart
<1>3. CASE ~Discover /\ ~Reboot
  <2>1. WorldSays /\ UNCHANGED restarts
    BY <1>3, WorldSpeech
  <2>2. IdInv /\ EndInv /\ TellInv
    BY <2>1 DEF ImageInv
  <2>3. Grows /\ \A s \in Service : Moves(s)
    BY <1>0, <1>3, WorldMoves
  <2>4. UNCHANGED <<phase, todo, outbox>> /\ (events' # <<>> => subscribed)
    BY <1>0, <1>3, WorldTold
  <2>5. SystemTypeOK'
    BY SystemTypeStep
  <2>6. IdInv'
    BY <2>1, <2>2, <2>3, <2>4, <2>5, WorldIds
  <2>7. EndInv'
    BY <1>0, <2>2, <2>3, <2>4, WorldEnds
  <2>8. ASSUME NEW s \in Service, s \notin unheard'
        PROVE  IsTold(s)' \/ News(s)' \/ (Running(s)' /\ (phase' = "list" \/ <<s, container'[s].id>> \in todo'))
    BY <1>0, <2>1, <2>2, <2>3, <2>4, <2>8, WorldTells
  <2>9. TellInv'
    BY <2>8 DEF TellInv
  <2> QED
    BY <2>6, <2>7, <2>9
<1> QED
  BY <1>1, <1>2, <1>3

\* The rows of the document name the first container of their service or none, and
\* the boot list is still to come.
LEMMA InitImage == SystemInit => ImageInv
<1> SUFFICES ASSUME SystemInit PROVE IdInv /\ EndInv /\ TellInv
  BY DEF ImageInv
<1>1. /\ channel = <<>> /\ outbox = <<>> /\ events = <<>> /\ todo = {} /\ phase = "list"
      /\ rows \in [Service -> Documents]
  BY DEF SystemInit, NoRequestYet, DiscoveryInit, DaemonInit
<1>2. \A s \in Service : container[s].id = 1 /\ container[s].status = "running"
  <2>1. PICK config \in [Service -> Configs] :
          container = [s \in Service |-> [status |-> "running",
                                          digest |-> tagged[ImageOf[s]], id |-> 1,
                                          nets |-> config[s].nets, aliases |-> {1},
                                          config |-> config[s]]]
    BY DEF SystemInit, NoRequestYet, DaemonInit
  <2> QED
    BY <2>1
<1>3. \A s \in Service : rows[s].containerID \in Nat /\ rows[s].containerID <= 1
  BY <1>1, SystemAssumption DEF Row
<1>4. IdInv
  <2>1. \A s \in Service : container[s].id > 0 /\ Old(s, rows[s].containerID)
    <3> SUFFICES ASSUME NEW s \in Service
                 PROVE  container[s].id > 0 /\ Old(s, rows[s].containerID)
      OBVIOUS
    <3>1. container[s].status # "created"
      BY <1>2
    <3>2. container[s].id = 1 /\ rows[s].containerID <= 1
      BY <1>2, <1>3
    <3> QED
      BY <3>1, <3>2 DEF Old
  <2>2. DOMAIN channel = {} /\ DOMAIN events = {}
    BY <1>1
  <2> QED
    BY <1>1, <2>1, <2>2 DEF IdInv
<1>5. EndInv /\ TellInv
  BY <1>1, <1>2 DEF EndInv, TellInv, Running
<1> QED
  BY <1>4, <1>5

LEMMA SystemImage == SystemSpec => []ImageInv
<1>1. /\ SystemTypeOK /\ LookInv /\ StepsInRecreate /\ TargetInv /\ NetworkInv /\ RanInv /\ ImageInv
      /\ [SystemNext]_systemVars
      => ImageInv'
  BY ImageStep
<1> QED
  BY <1>1, InitImage, SystemTypes, SystemLooks, SystemContainers, SystemRan, PTL DEF SystemSpec

\* So does an up-to-date row.
LEMMA UpToDateTells ==
    ASSUME StreamInv, ImageInv, restarts = 0, NEW s \in Service, UpToDate(s)
    PROVE  RowTells(s)
<1>1. /\ s \notin unheard /\ outbox = <<>> /\ phase = "drain" /\ todo = {}
      /\ \A i \in DOMAIN events : events[i].svc # s
      /\ \A i \in DOMAIN channel : channel[i].svc # s
  BY DEF UpToDate, CaughtUp, Pending, StreamInv
<1>2. IsTold(s)
  BY <1>1 DEF ImageInv, TellInv, News
<1> QED
  BY <1>1, <1>2 DEF IsTold, ToldWord, Tells, Upserts

-----------------------------------------------------------------------------
(* A rollback goes down.                                                   *)

\* Nobody but a request that recreates and an operator that redeploys has a service
\* run something else, and a mutex keeps redeploys away.
LEMMA QuietRan ==
    ASSUME SystemTypeOK, GoneInv, RanInv, [SystemNext]_systemVars,
           \A r \in Request : ~Handler(r), ~Reboot,
           NEW s \in Service, held[s] # NoOne \/ s \notin redeployed'
    PROVE  ran'[s] = ran[s] /\ container'[s].config = container[s].config
<1>0. /\ DaemonTypeOK /\ PollerTypeOK /\ container \in [Service -> Container]
      /\ container[s].id \in Nat
  BY DEF SystemTypeOK, TypeOK, DaemonTypeOK, Container
<1>1. CASE Discover
  BY <1>1, DiscoveryLeaves
<1>2. CASE ~Discover /\ container'[s] = container[s]
  <2>1. Moves(s)
    BY <1>2, WorldMoves
  <2> QED
    BY <1>0, <1>2, <2>1 DEF Moves, Stays, Ends, IsCreated, IsStarted, IsReplaced
<1>3. CASE ~Discover /\ (Crash(s) \/ Revive(s))
  <2>1. Moves(s)
    BY <1>3, WorldMoves
  <2>2. /\ container[s].status \in {"running", "exited"}
        /\ container'[s].id = container[s].id /\ container'[s].config = container[s].config
    BY <1>0, <1>3, StatusChange
  <2> QED
    BY <1>0, <2>1, <2>2 DEF Moves, Stays, Ends, IsCreated, IsStarted, IsReplaced
<1>4. CASE \E r \in Request : Client(r)
  BY <1>4 DEF Client, Arrive, ClientGone, daemonVars
<1>5. CASE Applied \/ UNCHANGED systemVars
  BY <1>5 DEF Applied, Updater, systemVars, vars, daemonVars
<1>6. CASE \E w \in Sweeper : CronTick(w) \/ PollNow(w) \/ Poll(w) \/ PollExpires(w)
  BY <1>0, <1>6, SweepSpeech DEF CronTick, PollNow, Poll, PollExpires, daemonVars
<1>7. CASE World /\ ~Discover
  <2>1. CASE Outside
    BY <2>1 DEF Outside, Publish, Prune
  <2>2. CASE ~Outside
    <3>1. PICK t \in Service : \/ Crash(t) \/ Revive(t)
                               \/ /\ held[t] = NoOne /\ redeployed' = redeployed \cup {t}
                                  /\ \E c \in Configs : Redeploy(t, c)
      BY <1>7, <2>2 DEF World
    <3>2. t # s => container'[s] = container[s]
      BY <1>0, <3>1 DEF Crash, Revive, StopContainer, StartContainer, Redeploy
    <3>3. t = s => Crash(s) \/ Revive(s)
      BY <3>1
    <3> QED
      BY <1>2, <1>3, <1>7, <3>2, <3>3
  <2> QED
    BY <2>1, <2>2
<1> QED
  BY <1>1, <1>4, <1>5, <1>6, <1>7 DEF SystemNext

\* A request that may be a rollback, from the read of its row to its retag; one
\* that has chosen its target.
Reading(r) == pc[r] \in {"choose", "start", "retag"}
Chosen(r) == pc[r] = "retag" \/ (pc[r] = "start" /\ req[r].op = "rolling_back")

\* The build time it read is that of the image that ran last, if it is known, and
\* its target was built before.
DownOK(r) ==
    /\ Reading(r) => snap[r].currentAt \in {0, BuiltAt[ran[svc(r)].last]}
    /\ (Chosen(r) /\ ~MayFault /\ ~cancelled[r] /\ snap[r].currentAt > 0 /\ target[r] \in Digest)
          => BuiltAt[target[r]] < snap[r].currentAt

DownInv == restarts = 0 => \A r \in Request \ misled : DownOK(r)

\* The steps of the request itself: the gate compares the target with the build
\* time in the row, and the row told of the image that ran last.
LEMMA DownOwn ==
    ASSUME SystemTypeOK, MutexHeld, StepsInRecreate, StreamInv, ImageInv, restarts = 0,
           NEW r \in Request, Handler(r), r \notin misled', DownOK(r)
    PROVE  DownOK(r)'
<1>0. /\ TypeOK /\ RequestStep(r) /\ svc(r) \in Service /\ req[r].op \in Op
      /\ pc \in [Request -> PC] /\ snap \in [Request -> Row] /\ target \in [Request -> Ref]
      /\ svc(r)' = svc(r) /\ UNCHANGED <<req, cancelled>>
  BY RequestService, SameContext DEF SystemTypeOK, TypeOK, RequestTypeOK, Handler, svc
<1>1. CASE Snapshot(r)
  <2>1. /\ pc[r] = "snapshot" /\ snap'[r] = rows[svc(r)] /\ UNCHANGED ran
        /\ ~Chosen(r)'
    BY <1>0, <1>1 DEF Snapshot, Goto, daemonVars, Chosen, Op
  <2>2. UpToDate(svc(r))
    BY <2>1 DEF Handler, Watch
  <2>3. RowTells(svc(r))
    BY <1>0, <2>2, UpToDateTells
  <2> QED
    BY <1>0, <2>1, <2>3 DEF DownOK, RowTells
<1>2. CASE ChooseRollbackTarget(r)
  <2>1. pc[r] = "choose" /\ UNCHANGED <<snap, ran>>
    BY <1>2 DEF ChooseRollbackTarget, Goto, daemonVars
  <2>2. Reading(r)' => snap'[r].currentAt \in {0, BuiltAt[ran[svc(r)].last]}
    BY <2>1 DEF DownOK, Reading
  <2>3. ASSUME Chosen(r)', ~MayFault, ~cancelled[r], snap[r].currentAt > 0, target'[r] \in Digest
        PROVE  BuiltAt[target'[r]] < snap[r].currentAt
    <3>1. PICK t : /\ target' = [target EXCEPT ![r] = t]
                   /\ OlderThanCurrent(img(r), snap[r], t)
      BY <1>0, <1>2, <2>1, <2>3 DEF ChooseRollbackTarget, Acceptable, Goto, Chosen
    <3>2. t = target'[r] /\ t # RepoName
      BY <1>0, <2>3, <3>1, StoreAssumption
    <3> QED
      BY <2>3, <3>1, <3>2 DEF OlderThanCurrent, CreatedOf
  <2> QED
    BY <1>0, <2>1, <2>2, <2>3 DEF DownOK
<1>3. CASE SendStart(r)
  <2>1. /\ pc[r] = "start" /\ UNCHANGED <<snap, ran, target>>
        /\ pc'[r] = IF req[r].op = "rolling_back" THEN "retag" ELSE "pull"
    BY <1>0, <1>3 DEF SendStart, SendAndGoto, Goto, daemonVars
  <2> QED
    BY <1>0, <2>1 DEF DownOK, Reading, Chosen
<1>4. CASE ~(Snapshot(r) \/ ChooseRollbackTarget(r) \/ SendStart(r))
  <2>1. ~Reading(r)' /\ ~Chosen(r)'
    BY <1>0, <1>4 DEF RequestStep, ComposeFileMoved, LockService, SendAndGoto, Pull, CrossCheck,
       Retag, SendProgress, RecreateService, RecreateReturns, SendSwap, VerifyNew, SendResult,
       SendFailure, Unlock, Goto, Phase, orchVars, Reading, Chosen
  <2> QED
    BY <2>1 DEF DownOK
<1> QED
  BY <1>1, <1>2, <1>3, <1>4

\* A step that leaves the request and the history of its service alone.
LEMMA DownFrame ==
    ASSUME NEW q \in Request, DownOK(q), svc(q)' = svc(q),
           pc'[q] = pc[q], req'[q] = req[q], snap'[q] = snap[q], target'[q] = target[q],
           cancelled[q] => cancelled'[q],
           pc[q] \in Locked => ran'[svc(q)] = ran[svc(q)]
    PROVE  DownOK(q)'
<1>1. Reading(q)' => Reading(q) /\ ran'[svc(q)] = ran[svc(q)]
  BY DEF Reading, Locked, Started
<1>2. Chosen(q)' => Chosen(q)
  BY DEF Chosen
<1> QED
  BY <1>1, <1>2 DEF DownOK

LEMMA DownStep ==
    ASSUME SystemTypeOK, SpinnerInv, StepsInRecreate, LookInv, RanInv, ImageInv, DownInv,
           [SystemNext]_systemVars
    PROVE  DownInv'
<1>0. /\ TypeOK /\ MutexHeld /\ GoneInv /\ StreamInv /\ restarts \in Nat
      /\ pc \in [Request -> PC] /\ req \in [Request -> [svc : Service, op : Op]]
      /\ cancelled \in [Request -> BOOLEAN]
  BY DEF SystemTypeOK, TypeOK, RecreateTypeOK, Request, SpinnerInv, LookInv
<1> SUFFICES ASSUME restarts' = 0, NEW q \in Request, q \notin misled' PROVE DownOK(q)'
  BY DEF DownInv
<1>1. q \notin misled
  BY DEF SystemNext, Handler, Watch, Client, Applied, Discover, CronTick, PollNow, Poll,
         PollExpires, World, Reboot, systemVars
<1>2. CASE \/ \E r \in Request : Handler(r) \/ Client(r)
            \/ Applied \/ Outside \/ Reboot \/ UNCHANGED systemVars
  <2>1. ASSUME NEW r \in Request, Handler(r) PROVE DownOK(q)'
    <3>1. RequestStep(r) /\ UNCHANGED <<cancelled, req, restarts>>
      BY <2>1, SameContext DEF Handler
    <3>2. DownOK(q)
      BY <1>1, <3>1 DEF DownInv
    <3>3. CASE q = r
      BY <1>0, <2>1, <3>1, <3>2, <3>3, DownOwn
    <3>4. CASE q # r
      <4>1. /\ pc'[q] = pc[q] /\ target'[q] = target[q] /\ snap'[q] = snap[q]
        BY <1>0, <3>1, <3>4, OtherRequest
      <4>2. pc[q] \in Locked => ran'[svc(q)] = ran[svc(q)]
        BY <1>0, <3>1, <3>4, LockedUndisturbed
      <4>3. svc(q)' = svc(q)
        BY <3>1 DEF svc
      <4> QED
        BY <3>1, <3>2, <4>1, <4>2, <4>3, DownFrame
    <3> QED
      BY <3>3, <3>4
  <2>2. ASSUME NEW r \in Request, Client(r) PROVE DownOK(q)'
    <3>1. UNCHANGED <<ran, snap, target, restarts>>
      BY <2>2 DEF Client, Arrive, ClientGone, daemonVars, orchVars
    <3>2. DownOK(q)
      BY <1>1, <3>1 DEF DownInv
    <3>3. CASE Arrive(r) /\ q = r
      <4>1. pc'[q] = "check"
        BY <1>0, <3>3 DEF Arrive, Goto
      <4> QED
        BY <4>1 DEF DownOK, Reading, Chosen
    <3>4. CASE ClientGone(r) \/ q # r
      <4>1. pc'[q] = pc[q] /\ req'[q] = req[q] /\ svc(q)' = svc(q)
        BY <1>0, <2>2, <3>4 DEF Client, Arrive, ClientGone, Goto, orchVars, svc
      <4>2. cancelled[q] => cancelled'[q]
        BY <1>0, <2>2 DEF Client, Arrive, ClientGone, recreateVars
      <4> QED
        BY <3>1, <3>2, <4>1, <4>2, DownFrame
    <3> QED
      BY <2>2, <3>3, <3>4 DEF Client
  <2>3. CASE Applied \/ Outside \/ UNCHANGED systemVars
    <3>1. UNCHANGED <<pc, req, snap, target, cancelled, ran, restarts>>
      BY <2>3 DEF Applied, Updater, Outside, Publish, Prune, systemVars, vars, daemonVars,
                  recreateVars, orchVars
    <3>2. DownOK(q) /\ svc(q)' = svc(q)
      BY <1>1, <3>1 DEF DownInv, svc
    <3> QED
      BY <3>1, <3>2, DownFrame
  <2>4. CASE Reboot
    BY <1>0, <2>4 DEF Reboot, Restart
  <2> QED
    BY <1>2, <2>1, <2>2, <2>3, <2>4
<1>3. CASE ~(\/ \E r \in Request : Handler(r) \/ Client(r)
             \/ Applied \/ Outside \/ Reboot \/ UNCHANGED systemVars)
  <2>0. UNCHANGED <<recreateVars, orchVars>>
    BY <1>3 DEF SystemNext, Discover, CronTick, PollNow, Poll, PollExpires, World
  <2>1. UNCHANGED <<pc, req, snap, target, cancelled, restarts>>
    BY <2>0 DEF recreateVars, orchVars
  <2>2. DownOK(q) /\ svc(q)' = svc(q)
    BY <1>1, <2>1 DEF DownInv, svc
  <2>3. pc[q] \in Locked => ran'[svc(q)] = ran[svc(q)]
    <3>1. pc[q] \in Locked => held[svc(q)] # NoOne /\ svc(q) \in Service
      BY <1>0, RequestService, OrchestratorAssumption DEF MutexHeld, TypeOK, RequestTypeOK
    <3> QED
      BY <1>0, <1>3, <3>1, QuietRan
  <2> QED
    BY <2>1, <2>2, <2>3, DownFrame
<1> QED
  BY <1>2, <1>3

\* Rollback: what it moves the tag to was built strictly before the image the
\* service ran last, for every set of services, images, documents and requests and
\* whatever redeploys, deaths and outages came before, as long as the row it read
\* was up to date.
THEOREM Downgrades == SystemSpec => []RollbackIsDowngrade
<1>1. SystemInit => DownInv
  BY DEF SystemInit, NoRequestYet, DownInv, DownOK, Reading, Chosen
<1>2. /\ SystemTypeOK /\ SpinnerInv /\ StepsInRecreate /\ TargetInv /\ NetworkInv /\ LookInv
      /\ RanInv /\ ImageInv /\ DownInv /\ [SystemNext]_systemVars
      => DownInv'
  BY DownStep
<1>3. DownInv => RollbackIsDowngrade
  <2> SUFFICES ASSUME DownInv, NEW r \in Request \ misled, pc[r] = "retag", ~MayFault,
                      ~cancelled[r], restarts = 0, snap[r].currentAt > 0, target[r] \in Digest
               PROVE  BuiltAt[target[r]] < BuiltAt[ran[svc(r)].last]
    BY DEF RollbackIsDowngrade
  <2>1. /\ snap[r].currentAt \in {0, BuiltAt[ran[svc(r)].last]}
        /\ BuiltAt[target[r]] < snap[r].currentAt
    BY DEF DownInv, DownOK, Reading, Chosen
  <2> QED
    BY <2>1
<1> QED
  BY <1>1, <1>2, <1>3, SystemTypes, SystemSpinner, SystemContainers, SystemLooks, SystemRan,
     SystemImage, PTL DEF SystemSpec

-----------------------------------------------------------------------------
(* The way back, through the events of recreates and outages.              *)

\* No operator redeployed s, no client of an action on it left, and every action on
\* it read an up-to-date row with a digest.
Followed(s) ==
    /\ s \notin redeployed /\ Undisturbed(s) /\ Steerable(s) /\ NamesDigests
    /\ \A r \in misled : svc(r) # s

\* p is what s ran before the digest it ran last, or comes from the document.
Back(s, p) == \/ p = ran[s].before
              \/ ran[s].before = NoDigest /\ \E row \in Documents : p = row.previous

\* Whatever names the image of s names its digest, and a swap finds the row.
Named(s) ==
    /\ rows[s].current # RepoName
    /\ \A i \in DOMAIN channel :
         /\ SetsCurrent(channel[i], s) => channel[i].digest # RepoName
         /\ SetsPrevious(channel[i], s) => rows[s].known
    /\ outbox # <<>> /\ Upserts(Head(outbox), s) => Head(outbox).digest # RepoName

\* What a request read: until the new container runs, the digest that ran last and
\* the way back from it; from then on what it is going to swap leads back.
ReadOK(r) ==
    /\ pc[r] \in BeforeSwap =>
         /\ snap[r].current \in Digest /\ snap[r].previous \in Digest \cup {NoDigest}
         /\ PreviousWord(svc(r), snap[r].previous)
         /\ ~Swapping(r) => ran[svc(r)].last = snap[r].current /\ Back(svc(r), snap[r].previous)
    /\ HasTarget(r) => target[r] \in Digest
    /\ Swapping(r) => ran[svc(r)].last = target[r] /\ Back(svc(r), PreviousAfter(r))

\* The last word about the previous digest leads back.
LeadsBack(s) ==
    /\ ~Window(s) => \E p \in Digest \cup {NoDigest} : PreviousWord(s, p) /\ Back(s, p)
    /\ \A r \in Request : svc(r) = s => ReadOK(r)

\* A request that read an incomplete or outdated row has arrived.
MisledInv == \A r \in misled : pc[r] # "idle"

BackInv == \A s \in Service : Followed(s) => Named(s) /\ LeadsBack(s)

\* Nobody becomes a request that has not arrived again.
LEMMA MisledStep ==
    ASSUME SystemTypeOK, MisledInv, [SystemNext]_systemVars
    PROVE  MisledInv' /\ \A r \in misled : r \in misled' /\ req'[r] = req[r]
<1>0. /\ TypeOK /\ pc \in [Request -> PC] /\ req \in [Request -> [svc : Service, op : Op]]
      /\ misled \in SUBSET Request
  BY DEF SystemTypeOK, TypeOK
<1>1. ASSUME NEW r \in Request, Handler(r)
      PROVE  MisledInv' /\ \A q \in misled : q \in misled' /\ req'[q] = req[q]
  <2>1. RequestStep(r) /\ UNCHANGED req /\ misled \subseteq misled'
          /\ \A q \in misled' : q \in misled \/ (q = r /\ pc[r] = "snapshot")
    BY <1>1, SameContext DEF Handler, Watch
  <2>2. \A q \in Request : q # r => pc'[q] = pc[q]
    BY <1>0, <2>1, OtherRequest
  <2>3. pc[r] # "idle" => pc'[r] # "idle"
    <3>1. CASE Snapshot(r)
      BY <1>0, <3>1 DEF Snapshot, Goto, Op
    <3>2. CASE ~Snapshot(r)
      BY <1>0, <2>1, <3>2 DEF RequestStep, ComposeFileMoved, LockService, ChooseRollbackTarget,
         SendStart, SendAndGoto, Pull, CrossCheck, Retag, SendProgress, RecreateService,
         RecreateReturns, SendSwap, VerifyNew, SendResult, SendFailure, Unlock, Goto, Phase,
         orchVars
    <3> QED
      BY <3>1, <3>2
  <2> QED
    BY <1>0, <2>1, <2>2, <2>3 DEF MisledInv
<1>2. ASSUME NEW r \in Request, Client(r)
      PROVE  MisledInv' /\ \A q \in misled : q \in misled' /\ req'[q] = req[q]
  <2>1. UNCHANGED misled /\ (Arrive(r) \/ ClientGone(r))
    BY <1>2 DEF Client
  <2> QED
    BY <1>0, <2>1 DEF Arrive, ClientGone, Goto, orchVars, MisledInv
<1>3. CASE Applied \/ UNCHANGED systemVars
  BY <1>3 DEF Applied, Updater, systemVars, vars, orchVars, MisledInv
<1>4. CASE Reboot
  BY <1>0, <1>4 DEF Reboot, Restart, MisledInv
<1>5. CASE World \/ Discover
           \/ \E w \in Sweeper : CronTick(w) \/ PollNow(w) \/ Poll(w) \/ PollExpires(w)
  BY <1>5 DEF World, Outside, Discover, CronTick, PollNow, Poll, PollExpires, orchVars, MisledInv
<1> QED
  BY <1>1, <1>2, <1>3, <1>4, <1>5 DEF SystemNext

\* A service that is still followed was followed before.
LEMMA FollowedBefore ==
    ASSUME SystemTypeOK, SpinnerInv, GoneInv, RanInv, MisledInv, [SystemNext]_systemVars,
           NEW s \in Service, Followed(s)'
    PROVE  Followed(s) /\ ~Reboot
<1>0. TypeOK /\ restarts \in Nat
  BY DEF SystemTypeOK, TypeOK
<1>1. ~Reboot
  BY <1>0 DEF Reboot, Restart, Followed, Undisturbed
<1>2. s \notin redeployed
  BY DEF SystemNext, Handler, Client, Applied, Discover, CronTick, PollNow, Poll, PollExpires,
         World, Reboot, systemVars, Followed
<1>3. Undisturbed(s) /\ Steerable(s)
  <2>1. CASE Next
    BY <1>0, <2>1, UndisturbedBefore, ConfigKept DEF Followed
  <2>2. CASE ~Next
    <3>1. UNCHANGED <<recreateVars, orchVars>>
      BY <2>2, OtherSteps
    <3>2. Undisturbed(s)
      BY <3>1 DEF Followed, Undisturbed, Abandoned, svc, recreateVars, orchVars
    <3>3. \A r \in Request : ~Handler(r)
      BY <2>2 DEF Handler, Next
    <3>4. container'[s].config = container[s].config
      BY <1>1, <3>3, QuietRan DEF Followed
    <3> QED
      BY <3>2, <3>4 DEF Followed, Steerable, Unshared
  <2> QED
    BY <2>1, <2>2
<1>4. \A r \in misled : svc(r) # s
  BY MisledStep DEF Followed, svc
<1> QED
  BY <1>1, <1>2, <1>3, <1>4 DEF Followed, NamesDigests

\* Applying a message keeps the last word about the previous digest.
LEMMA NamedApplied ==
    ASSUME StoreTypeOK, Consume, NEW s \in Service, Named(s), UNCHANGED outbox
    PROVE  Named(s)' /\ \A d : PreviousWord(s, d) => PreviousWord(s, d)'
<1>0. PICK n \in Nat \ {0} :
           /\ DOMAIN channel = 1 .. n /\ DOMAIN channel' = 1 .. n - 1
           /\ \A i \in 2 .. n : i - 1 \in 1 .. n - 1 /\ channel'[i - 1] = channel[i]
           /\ \A j \in 1 .. n - 1 : j + 1 \in 2 .. n /\ channel'[j] = channel[j + 1]
           /\ channel[1] \in Message /\ rows[s] \in Row
           /\ rows'[s] = IF s = channel[1].svc THEN Apply(rows[s], channel[1]) ELSE rows[s]
  BY Taken
<1> DEFINE m == channel[1]
<1>1. /\ rows[s].known => rows'[s].known
      /\ rows'[s].current = rows[s].current \/ (SetsCurrent(m, s) /\ rows'[s].current = m.digest)
      /\ SetsPrevious(m, s) \/ rows'[s].previous = rows[s].previous
  <2>1. CASE s # m.svc
    BY <1>0, <2>1
  <2>2. CASE s = m.svc /\ m.kind # "swap"
    BY <1>0, <2>2, ApplyDigests, ApplyImage, ApplySpinner DEF SetsCurrent
  <2>3. CASE s = m.svc /\ m.kind = "swap" /\ rows[s].known
    BY <1>0, <2>3, ApplyDigests, ApplySpinner DEF SetsCurrent, SetsPrevious
  <2>4. CASE s = m.svc /\ m.kind = "swap" /\ ~rows[s].known
    <3>1. rows'[s] = rows[s]
      BY <1>0, <2>4 DEF Apply
    <3> QED
      BY <3>1
  <2> QED
    BY <2>1, <2>2, <2>3, <2>4
<1>2. 1 \in DOMAIN channel
  BY <1>0
<1>3. \A j \in DOMAIN channel' : \E i \in DOMAIN channel : channel'[j] = channel[i]
  BY <1>0, SMTT(30)
<1> HIDE DEF m
<1>4. Named(s)'
  <2>1. rows'[s].current # RepoName
    BY <1>1, <1>2 DEF Named, m
  <2>2. \A i \in DOMAIN channel' :
          /\ SetsCurrent(channel'[i], s) => channel'[i].digest # RepoName
          /\ SetsPrevious(channel'[i], s) => rows'[s].known
    BY <1>1, <1>3 DEF Named
  <2> QED
    BY <2>1, <2>2 DEF Named, SetsCurrent, SetsPrevious, Upserts
<1>5. ASSUME NEW d, PreviousWord(s, d) PROVE PreviousWord(s, d)'
  <2>1. CASE rows[s].known
    BY <1>5, <2>1, WordsApplied
  <2>2. CASE ~rows[s].known
    <3>1. \A i \in DOMAIN channel : ~SetsPrevious(channel[i], s)
      BY <2>2 DEF Named
    <3>2. rows[s].previous = d /\ ~SetsPrevious(m, s)
      BY <1>2, <1>5, <3>1 DEF PreviousWord, m
    <3>3. \A j \in DOMAIN channel' : ~SetsPrevious(channel'[j], s)
      BY <1>3, <3>1
    <3> QED
      BY <1>1, <3>2, <3>3 DEF PreviousWord, SetsPrevious
  <2> QED
    BY <2>1, <2>2
<1> QED
  BY <1>4, <1>5

\* A message that is sent names a digest, or none.
LEMMA NamedSent ==
    ASSUME StoreTypeOK, NEW m \in Message, channel' = Append(channel, m), NEW s \in Service,
           rows'[s] = rows[s], Named(s),
           SetsCurrent(m, s) => m.digest # RepoName, SetsPrevious(m, s) => rows[s].known,
           outbox' = outbox \/ outbox' = <<>>
    PROVE  Named(s)'
<1> DEFINE n == Len(channel)
<1>0. /\ DOMAIN channel' = 1 .. n + 1 /\ DOMAIN channel = 1 .. n /\ n \in Nat
      /\ channel'[n + 1] = m
      /\ \A i \in 1 .. n : channel'[i] = channel[i]
  BY AppendFacts DEF StoreTypeOK
<1> HIDE DEF n
<1>1. \A i \in DOMAIN channel' : channel'[i] = m \/ \E j \in DOMAIN channel : channel'[i] = channel[j]
  BY <1>0
<1>2. \A i \in DOMAIN channel' :
        /\ SetsCurrent(channel'[i], s) => channel'[i].digest # RepoName
        /\ SetsPrevious(channel'[i], s) => rows'[s].known
  BY <1>1 DEF Named
<1> QED
  BY <1>2 DEF Named, SetsCurrent, SetsPrevious, Upserts

\* What discovery is about to send does so too.
LEMMA NamedOutbox ==
    ASSUME SystemTypeOK, Discover
    PROVE  \/ outbox' = outbox \/ outbox' = <<>>
           \/ /\ outbox' # <<>>
              /\ Head(outbox').kind = "upsert" => Head(outbox').digest # RepoName
<1>0. /\ DiscoveryStep /\ events \in Seq(Event) /\ todo \in SUBSET (Service \X Nat)
      /\ \A s \in Service : container[s].digest \in Digest
  BY DEF Discover, SystemTypeOK, TypeOK, DaemonTypeOK, DiscoveryTypeOK, Container
<1>1. \A m : <<m>> # <<>> /\ Head(<<m>>) = m
  OBVIOUS
<1>2. ASSUME NEW s \in Service, NEW id, UpsertFromInspect(s, id)
      PROVE  \/ outbox' = outbox
             \/ /\ outbox' # <<>>
                /\ Head(outbox').kind = "upsert" => Head(outbox').digest # RepoName
  <2>1. /\ Observed(s).digest \in Digest \cup {NoDigest}
        /\ [Observed(s) EXCEPT !.digest = NoDigest, !.at = 0].digest = NoDigest
    BY <1>0 DEF Observed
  <2>2. RepoName \notin Digest \cup {NoDigest}
    BY StoreAssumption
  <2>3. \/ outbox' = outbox
        \/ outbox' = <<Observed(s)>>
        \/ outbox' = <<[Observed(s) EXCEPT !.digest = NoDigest, !.at = 0]>>
    BY <1>2 DEF UpsertFromInspect
  <2> QED
    BY <1>1, <2>1, <2>2, <2>3
<1>3. CASE InspectNext
  <2>1. PICK c \in todo : UpsertFromInspect(c[1], c[2])
    BY <1>3 DEF InspectNext
  <2>2. c[1] \in Service
    BY <1>0
  <2> QED
    BY <1>2, <2>1, <2>2
<1>4. CASE HandleEvent
  <2>1. Head(events).svc \in Service
    <3>1. events # <<>>
      BY <1>4 DEF HandleEvent
    <3>2. Head(events) \in Event
      BY <1>0, <3>1
    <3> QED
      BY <3>2 DEF Event
  <2>2. \A k \in {"stopped", "removed"} : [kind |-> k, svc |-> Head(events).svc].kind = k
    OBVIOUS
  <2>3. \/ UpsertFromInspect(Head(events).svc, Head(events).id)
        \/ outbox' = outbox
        \/ \E k \in {"stopped", "removed"} : outbox' = <<[kind |-> k, svc |-> Head(events).svc]>>
    BY <1>4 DEF HandleEvent, StopOrRemove
  <2> QED
    BY <1>1, <1>2, <2>1, <2>2, <2>3
<1>5. CASE List \/ Listed \/ Subscribe \/ StreamBreaks \/ SendUpdate
  BY <1>5 DEF List, Listed, Subscribe, StreamBreaks, SendUpdate
<1> QED
  BY <1>0, <1>3, <1>4, <1>5 DEF DiscoveryStep

\* Every step keeps this.
LEMMA NamedStep ==
    ASSUME SystemTypeOK, KnownOnce, LookInv, [SystemNext]_systemVars, ~Reboot,
           NEW s \in Service, Named(s), LeadsBack(s)
    PROVE  Named(s)'
<1>0. StoreTypeOK /\ GoneInv /\ StreamInv /\ EventInv
  BY DEF SystemTypeOK, TypeOK, LookInv
<1>1. CASE Discover
  <2>1. UNCHANGED rows /\ (~SendUpdate => UNCHANGED channel)
    BY <1>1, DiscoverySends
  <2>2. CASE SendUpdate
    <3>1. PICK m \in Message :
            /\ m = Head(outbox) /\ channel' = Append(channel, m)
            /\ m.kind \in {"upsert", "stopped", "removed"} /\ outbox # <<>> /\ outbox' = <<>>
      BY <1>1, <2>2, DiscoverySends
    <3>2. ~SetsPrevious(m, s) /\ (SetsCurrent(m, s) => m.digest # RepoName)
      BY <3>1 DEF Named, SetsCurrent, SetsPrevious, Upserts
    <3> QED
      BY <1>0, <2>1, <3>1, <3>2, NamedSent
  <2>3. CASE ~SendUpdate
    BY <1>1, <2>1, <2>3, NamedOutbox DEF Named, SetsCurrent, SetsPrevious, Upserts
  <2> QED
    BY <2>2, <2>3
<1>2. CASE ~Discover
  <2>1. WorldSays /\ UNCHANGED outbox
    BY <1>0, <1>2, WorldSpeech, WorldTold
  <2>2. CASE UNCHANGED <<rows, channel>>
    BY <2>1, <2>2 DEF Named, SetsCurrent, SetsPrevious, Upserts
  <2>3. CASE Consume
    BY <1>0, <2>1, <2>3, NamedApplied
  <2>4. ASSUME NEW m \in Message, channel' = Append(channel, m), UNCHANGED rows,
               m.kind \notin {"upsert", "stopped", "removed"},
               m.kind = "swap" => \E r \in Request : pc[r] = "swap" /\ m = SwapOf(r)
        PROVE  Named(s)'
    <3>1. ASSUME m.svc = s, m.kind = "swap" PROVE m.digest # RepoName /\ rows[s].known
      <4>1. PICK r \in Request : pc[r] = "swap" /\ m = SwapOf(r)
        BY <2>4, <3>1
      <4>2. svc(r) = s /\ m.digest = target[r]
        BY <3>1, <4>1 DEF SwapOf
      <4>3. target[r] \in Digest
        BY <4>1, <4>2 DEF LeadsBack, ReadOK, HasTarget
      <4>4. rows[s].known
        BY <4>1, <4>2 DEF KnownOnce, PastSnapshot, Started
      <4> QED
        BY <4>2, <4>3, <4>4, StoreAssumption
    <3> QED
      BY <1>0, <2>1, <2>4, <3>1, NamedSent DEF SetsCurrent, SetsPrevious
  <2> QED
    BY <2>1, <2>2, <2>3, <2>4 DEF WorldSays
<1> QED
  BY <1>1, <1>2

\* A request aside has nothing to say.
LEMMA AsideReads == \A r \in Request : Aside(r) => ReadOK(r) /\ ~Swapping(r)
BY DEF Aside, ReadOK, Swapping, HasTarget, BeforeSwap

\* A step that leaves the history of s and its last word alone, and each request on
\* s as it was or aside.
LEMMA BackFrame ==
    ASSUME NEW s \in Service, LeadsBack(s), ran'[s] = ran[s], Window(s) => Window(s)',
           \A d : PreviousWord(s, d) => PreviousWord(s, d)',
           \A q \in Request : svc(q)' = s =>
              \/ Aside(q)'
              \/ /\ pc'[q] = pc[q] /\ step'[q] = step[q] /\ target'[q] = target[q]
                 /\ snap'[q] = snap[q] /\ req'[q] = req[q]
    PROVE  LeadsBack(s)'
<1>0. \A p : Back(s, p)' <=> Back(s, p)
  BY DEF Back
<1>1. ASSUME NEW q \in Request, svc(q)' = s PROVE ReadOK(q)'
  <2>1. CASE Aside(q)'
    BY <2>1 DEF Aside, ReadOK, Swapping, HasTarget, BeforeSwap
  <2>2. CASE /\ pc'[q] = pc[q] /\ step'[q] = step[q] /\ target'[q] = target[q]
             /\ snap'[q] = snap[q] /\ req'[q] = req[q]
    <3>1. svc(q) = s
      BY <1>1, <2>2 DEF svc
    <3>2. ReadOK(q)
      BY <3>1 DEF LeadsBack
    <3>3. /\ Swapping(q)' <=> Swapping(q)
          /\ HasTarget(q)' <=> HasTarget(q)
          /\ PreviousAfter(q)' = PreviousAfter(q)
      BY <2>2 DEF Swapping, HasTarget, PreviousAfter
    <3>4. pc'[q] \in BeforeSwap =>
         /\ snap'[q].current \in Digest /\ snap'[q].previous \in Digest \cup {NoDigest}
         /\ PreviousWord(s, snap[q].previous)'
         /\ ~Swapping(q)' => ran'[s].last = snap'[q].current /\ Back(s, snap[q].previous)'
      BY <1>0, <2>2, <3>1, <3>2, <3>3 DEF ReadOK
    <3>5. /\ HasTarget(q)' => target'[q] \in Digest
          /\ Swapping(q)' => ran'[s].last = target'[q] /\ Back(s, PreviousAfter(q))'
      BY <1>0, <2>2, <3>1, <3>2, <3>3 DEF ReadOK
    <3> QED
      BY <1>1, <3>4, <3>5 DEF ReadOK
  <2> QED
    BY <1>1, <2>1, <2>2
<1>2. ~Window(s)' => \E p \in Digest \cup {NoDigest} : PreviousWord(s, p)' /\ Back(s, p)'
  BY <1>0 DEF LeadsBack
<1> QED
  BY <1>1, <1>2 DEF LeadsBack

\* The swap: it records what ran last, or nothing when the digest is that one.
LEMMA BackSwap ==
    ASSUME TypeOK, MutexHeld, StepsInRecreate, NEW r \in Request, SendSwap(r), ~cancelled[r],
           NEW s \in Service, s = svc(r), LeadsBack(s)
    PROVE  LeadsBack(s)'
<1>0. /\ pc[r] = "swap" /\ pc[r] \in Locked /\ ReadOK(r)
      /\ RequestStep(r) /\ step[r] = "idle" /\ UNCHANGED <<step, target, snap, req, ran>>
      /\ pc' = [pc EXCEPT ![r] = "verify"] /\ pc \in [Request -> PC]
  BY DEF TypeOK, SendSwap, SendAndGoto, Goto, RequestStep, Locked, Started, LeadsBack,
         StepsInRecreate, daemonVars
<1>1. \A q \in Request : svc(q)' = svc(q)
  BY <1>0 DEF svc
<1>2. PICK m \in Message : channel' = Append(channel, m) /\ m = SwapOf(r)
  BY <1>0, RequestSends
<1>3. /\ snap[r].current \in Digest /\ snap[r].previous \in Digest \cup {NoDigest}
      /\ PreviousWord(s, snap[r].previous) /\ Back(s, PreviousAfter(r))
  BY <1>0 DEF ReadOK, Swapping, BeforeSwap
<1>4. rows' = rows /\ m.svc = s /\ m.kind = "swap"
        /\ m.prev = IF snap[r].current = target[r] THEN NoDigest ELSE snap[r].current
  <2>1. snap[r].current # NoDigest
    BY <1>3, StoreAssumption
  <2> QED
    BY <1>0, <1>2, <2>1, RequestSends DEF SwapOf, PreviousToRecord
<1>5. PICK p \in Digest \cup {NoDigest} : p = PreviousAfter(r)
  BY <1>3 DEF PreviousAfter
<1>6. PreviousWord(s, p)'
  <2>1. CASE snap[r].current = target[r]
    <3>1. ~SetsPrevious(m, s) /\ p = snap[r].previous
      BY <1>4, <1>5, <2>1 DEF SetsPrevious, PreviousAfter
    <3> QED
      BY <1>2, <1>3, <1>4, <3>1, WordsSent DEF TypeOK
  <2>2. CASE snap[r].current # target[r]
    <3>1. SetsPrevious(m, s) /\ p = m.prev
      BY <1>3, <1>4, <1>5, <2>2, StoreAssumption DEF SetsPrevious, PreviousAfter
    <3> QED
      BY <1>2, <1>4, <3>1, WordsSent DEF TypeOK
  <2> QED
    BY <2>1, <2>2
<1>7. Back(s, p)'
  BY <1>0, <1>3, <1>5 DEF Back
<1>8. ASSUME NEW q \in Request, svc(q)' = s PROVE ReadOK(q)'
  <2>1. Aside(q)'
    <3>1. CASE q = r
      BY <1>0, <3>1 DEF Aside, BeforeSwap
    <3>2. CASE q # r
      <4>1. svc(q) = svc(r)
        BY <1>1, <1>8
      <4>2. step[q] = "idle" /\ pc[q] \notin Locked
        BY <1>0, <3>2, <4>1, OneRecreates
      <4> QED
        BY <1>0, <3>2, <4>2 DEF Aside, BeforeSwap, Locked, Started
    <3> QED
      BY <3>1, <3>2
  <2> QED
    BY <2>1 DEF Aside, ReadOK, Swapping, HasTarget, BeforeSwap
<1> QED
  BY <1>6, <1>7, <1>8 DEF LeadsBack

\* The read of the row: it is up to date, so it shows the digest that ran last and
\* the way back from it.
LEMMA BackRead ==
    ASSUME SystemTypeOK, MutexHeld, StepsInRecreate, StreamInv, ImageInv, restarts = 0,
           NEW r \in Request, Handler(r), Snapshot(r), r \notin misled',
           NEW s \in Service, s = svc(r), Steerable(s), Named(s), LeadsBack(s),
           \A d : PreviousWord(s, d) => PreviousWord(s, d)'
    PROVE  ReadOK(r)'
<1>0. /\ TypeOK /\ pc \in [Request -> PC] /\ step \in [Request -> Step] /\ snap \in [Request -> Row]
      /\ req[r].op \in Op /\ rows[s] \in Row /\ rows[s].current \in Ref
  BY RequestService DEF SystemTypeOK, TypeOK, RequestTypeOK, RecreateTypeOK, Request, StoreTypeOK, Row
<1>1. /\ pc[r] = "snapshot" /\ pc[r] \in Locked /\ snap'[r] = rows[s] /\ svc(r)' = s
      /\ UNCHANGED <<ran, step, req, rows>>
  BY <1>0 DEF Snapshot, Goto, Locked, Started, daemonVars, recreateVars, storeVars, svc
<1>2. step[r] = "idle" /\ ~Swapping(r)
  BY <1>1 DEF StepsInRecreate, Swapping
<1>3. UpToDate(s) /\ rows[s].current # NoDigest
  BY <1>1 DEF Handler, Watch
<1>4. rows[s].current \in Digest
  BY <1>0, <1>3 DEF Ref, Named
<1>5. rows[s].current = ran[s].last
  BY <1>3, <1>4, UpToDateTells DEF RowTells
<1>6. PICK p \in Digest \cup {NoDigest} : PreviousWord(s, p) /\ Back(s, p)
  BY <1>1, <1>2, OneSwaps DEF LeadsBack
<1>7. rows[s].previous = p
  BY <1>3, <1>6 DEF UpToDate, Pending, PreviousWord, SetsPrevious
<1>8. ~HasTarget(r)' /\ ~Swapping(r)'
  BY <1>0, <1>1, <1>2 DEF Snapshot, Goto, HasTarget, Swapping, Op
<1>9. PreviousWord(s, rows[s].previous)' /\ Back(s, rows[s].previous)'
  BY <1>1, <1>6, <1>7 DEF Back
<1> QED
  BY <1>1, <1>4, <1>5, <1>6, <1>7, <1>8, <1>9 DEF ReadOK

\* The other steps of a request inside the mutex: its target is a digest, and the
\* start of the new container makes the history what the swap is going to say.
LEMMA BackOwn ==
    ASSUME SystemTypeOK, MutexHeld, StepsInRecreate, TargetInv, StreamInv, ImageInv, restarts = 0,
           NEW r \in Request, Handler(r), pc[r] \in Locked, pc[r] # "swap", ~cancelled[r],
           r \notin misled', NEW s \in Service, s = svc(r), Steerable(s), Named(s), LeadsBack(s)
    PROVE  LeadsBack(s)'
<1>0. /\ TypeOK /\ RequestStep(r)
      /\ pc \in [Request -> PC] /\ step \in [Request -> Step] /\ target \in [Request -> Ref]
      /\ snap \in [Request -> Row] /\ req[r].op \in Op /\ ReadOK(r) /\ img(r) \in Image
      /\ ran \in [Service -> [last : Digest, before : Digest \cup {NoDigest}]]
  BY RequestService
  DEF SystemTypeOK, TypeOK, RequestTypeOK, RecreateTypeOK, Request, DaemonTypeOK, LeadsBack, Handler
<1>1. /\ \A q \in Request : svc(q)' = svc(q)
      /\ \A d : PreviousWord(s, d) => PreviousWord(s, d)'
      /\ Window(s) => Window(s)'
      /\ req' = req
  BY <1>0, SameContext, WordsOfRequest, WindowStep DEF svc
<1>2. \A q \in Request : q # r /\ svc(q) = s => Aside(q)'
  <2>1. \A q \in Request : q # r /\ svc(q) = s => step[q] = "idle" /\ pc[q] \notin Locked
    BY OneRecreates
  <2>2. BeforeSwap \subseteq Locked
    BY DEF BeforeSwap, Locked, Started
  <2> QED
    BY <1>0, <2>1, <2>2, OtherRequest DEF Aside
<1>3. ran'[s] = ran[s] \/ (RecreateService(r) /\ step[r] = "start" /\ step'[r] = "ok")
  BY <1>0, RecreateEffect, OutsideRecreate
<1>4. ~Window(s)' => \E p \in Digest \cup {NoDigest} : PreviousWord(s, p)' /\ Back(s, p)'
  <2>1. step'[r] # "ok" => ran'[s] = ran[s]
    BY <1>3
  <2>2. step'[r] = "ok" => Window(s)'
    BY <1>1 DEF Window, Swapping
  <2> QED
    BY <1>1, <2>1, <2>2 DEF LeadsBack, Back
<1> SUFFICES ReadOK(r)'
  <2>1. ASSUME NEW q \in Request, svc(q)' = s PROVE ReadOK(q)'
    <3>1. q # r => Aside(q)'
      BY <1>1, <1>2, <2>1
    <3> QED
      BY <3>1 DEF Aside, ReadOK, Swapping, HasTarget, BeforeSwap
  <2> QED
    BY <1>4, <2>1 DEF LeadsBack
<1>5. ASSUME pc[r] \in BeforeSwap, snap'[r] = snap[r]
      PROVE  /\ snap'[r].current \in Digest /\ snap'[r].previous \in Digest \cup {NoDigest}
             /\ PreviousWord(svc(r), snap[r].previous)'
  BY <1>0, <1>1, <1>5 DEF ReadOK
<1>6. ASSUME pc'[r] \notin BeforeSwap, step'[r] = "idle" PROVE ReadOK(r)'
  BY <1>6 DEF ReadOK, Swapping, HasTarget, BeforeSwap
<1>7. ASSUME pc[r] \in BeforeSwap, snap'[r] = snap[r], ran'[s] = ran[s],
             ~Swapping(r), ~Swapping(r)', HasTarget(r)' => target'[r] \in Digest
      PROVE  ReadOK(r)'
  <2>1. ran'[s].last = snap'[r].current /\ Back(s, snap[r].previous)'
    BY <1>0, <1>7 DEF ReadOK, Back
  <2> QED
    BY <1>1, <1>5, <1>7, <2>1 DEF ReadOK
<1>8. step[r] # "idle" => pc[r] = "recreate"
  BY DEF StepsInRecreate
<1>9. CASE RecreateService(r)
  <2>0. step[r] # "ok"
    BY <1>9 DEF RecreateService, RecreateStep, ListOld, StopOld, RemoveOld, CreateNew,
                ConnectNetworks, StartNew, CleanupNew, Succeeds, StepTo
  <2>1. /\ UNCHANGED <<pc, req, target, snap>> /\ pc[r] = "recreate" /\ step[r] # "ok"
        /\ svc(r)' = s /\ HasTarget(r) /\ target[r] \in Digest
    BY <1>0, <1>1, <1>9, <2>0 DEF RecreateService, orchVars, ReadOK, HasTarget
  <2>2. CASE step'[r] # "ok"
    BY <1>3, <1>7, <2>1, <2>2 DEF Swapping, BeforeSwap
  <2>3. CASE step'[r] = "ok"
    <3>1. step[r] = "start"
      BY <1>0, <1>9, <2>3, RecreateEffect
    <3>2. ran[s].last = snap[r].current /\ Back(s, snap[r].previous)
      BY <1>0, <2>1 DEF ReadOK, Swapping, BeforeSwap
    <3>3. container[s].digest = target[r]
      BY <2>1, <3>1 DEF TargetInv, TargetOK, AfterCreate
    <3>4. ran'[s] = IF target[r] = snap[r].current THEN ran[s]
                    ELSE [last |-> target[r], before |-> snap[r].current]
      BY <1>0, <1>9, <2>3, <3>1, <3>2, <3>3, RecreateEffect
    <3>5. ran'[s].last = target[r] /\ Back(s, PreviousAfter(r))'
      BY <2>1, <3>2, <3>4 DEF PreviousAfter, Back
    <3> QED
      BY <1>5, <2>1, <2>3, <3>5 DEF ReadOK, BeforeSwap, Swapping
  <2> QED
    BY <2>2, <2>3
<1>10. CASE RecreateReturns(r)
  <2>1. /\ UNCHANGED <<target, snap, ran>> /\ pc[r] = "recreate" /\ step'[r] = "idle"
        /\ pc'[r] = IF step[r] = "ok" THEN "swap" ELSE "compose_failed"
    BY <1>0, <1>10 DEF RecreateReturns, Goto, daemonVars
  <2>2. CASE step[r] # "ok"
    BY <1>6, <2>1, <2>2 DEF BeforeSwap
  <2>3. CASE step[r] = "ok"
    <3>1. /\ target[r] \in Digest /\ ran[s].last = target[r] /\ Back(s, PreviousAfter(r))
      BY <1>0, <2>1, <2>3 DEF ReadOK, Swapping, HasTarget
    <3>2. Back(s, PreviousAfter(r))' /\ Swapping(r)'
      BY <2>1, <2>3, <3>1 DEF PreviousAfter, Back, Swapping
    <3> QED
      BY <1>1, <1>5, <2>1, <3>1, <3>2 DEF ReadOK, BeforeSwap
  <2> QED
    BY <2>2, <2>3
<1>11. CASE Snapshot(r)
  BY <1>1, <1>11, BackRead
<1>12. CASE ChooseRollbackTarget(r)
  <2>1. /\ UNCHANGED <<snap, step, ran>> /\ pc[r] = "choose" /\ step[r] = "idle"
        /\ pc'[r] \in {"start", "unlock"}
    BY <1>0, <1>8, <1>12 DEF ChooseRollbackTarget, Goto, recreateVars, daemonVars
  <2>2. CASE pc'[r] = "unlock"
    BY <1>6, <2>1, <2>2 DEF BeforeSwap
  <2>3. CASE pc'[r] = "start"
    <3>1. snap[r].previous \in Digest \cup {NoDigest}
      BY <1>0, <2>1 DEF ReadOK, BeforeSwap
    <3>2. NewestFallback(img(r), snap[r]) \subseteq Digest
      BY DEF NewestFallback, FallbackCandidates
    <3>3. /\ AnsweredTargets(img(r), snap[r]) \subseteq Digest \cup {NoDigest}
          /\ FaultyTargets(img(r), snap[r]) \subseteq Digest \cup {NoDigest}
      BY <3>1, <3>2 DEF AnsweredTargets, FaultyTargets
    <3>4. \E t \in Digest : target' = [target EXCEPT ![r] = t]
      BY <1>0, <1>12, <2>1, <2>3, <3>3 DEF ChooseRollbackTarget, Acceptable, Goto
    <3>5. target'[r] \in Digest
      BY <1>0, <3>4
    <3> QED
      BY <1>7, <2>1, <2>3, <3>5 DEF BeforeSwap, Swapping
  <2> QED
    BY <2>1, <2>2, <2>3
<1>13. CASE Pull(r)
  <2>1. UNCHANGED <<snap, step, ran>> /\ pc[r] = "pull" /\ step[r] = "idle"
    BY <1>8, <1>13 DEF Pull, PullImage, Goto, recreateVars, daemonVars
  <2>2. CASE pc'[r] = "pull_failed"
    BY <1>6, <2>1, <2>2 DEF BeforeSwap
  <2>3. CASE pc'[r] # "pull_failed"
    <3>1. \E d \in Digest : target' = [target EXCEPT ![r] = d]
      BY <1>0, <1>13, <2>3 DEF Pull, DrainPullStream, Goto, TypeOK, DaemonTypeOK
    <3>2. target'[r] \in Digest /\ pc'[r] = "crosscheck"
      BY <1>0, <1>13, <2>3, <3>1 DEF Pull, Goto
    <3> QED
      BY <1>7, <2>1, <3>2 DEF BeforeSwap, Swapping
  <2> QED
    BY <2>2, <2>3
<1>14. CASE CrossCheck(r) \/ Retag(r)
  <2>1. /\ UNCHANGED <<snap, step, target, ran>> /\ pc[r] \in {"crosscheck", "retag"}
        /\ step[r] = "idle" /\ pc'[r] \in {"progress", "result", "pull_failed"}
    BY <1>0, <1>8, <1>14 DEF CrossCheck, Retag, TagImage, ActedAnyway, Goto, recreateVars, daemonVars
  <2>2. target[r] \in Digest
    BY <1>0, <2>1 DEF ReadOK, HasTarget
  <2> QED
    BY <1>7, <2>1, <2>2 DEF BeforeSwap, Swapping
<1>15. CASE SendStart(r)
  <2>1. UNCHANGED <<snap, step, target, ran>> /\ pc[r] = "start" /\ step[r] = "idle"
          /\ pc'[r] = IF req[r].op = "rolling_back" THEN "retag" ELSE "pull"
    BY <1>0, <1>8, <1>15 DEF SendStart, SendAndGoto, Goto, daemonVars
  <2>2. req[r].op = "rolling_back" => target[r] \in Digest
    BY <1>0, <2>1 DEF ReadOK, HasTarget
  <2> QED
    BY <1>7, <2>1, <2>2 DEF BeforeSwap, Swapping, HasTarget
<1>16. CASE SendProgress(r)
  <2>1. UNCHANGED <<snap, target, ran>> /\ pc[r] = "progress" /\ step'[r] = "list"
          /\ pc'[r] = "recreate" /\ step[r] = "idle"
    BY <1>0, <1>8, <1>16 DEF SendProgress, SendAndGoto, Goto, daemonVars
  <2>2. target[r] \in Digest
    BY <1>0, <2>1 DEF ReadOK, HasTarget
  <2> QED
    BY <1>7, <2>1, <2>2 DEF BeforeSwap, Swapping
<1>17. CASE LockService(r) \/ ComposeFileMoved(r)
  BY <1>17 DEF LockService, ComposeFileMoved, Goto, Locked, Started
<1>18. CASE VerifyNew(r) \/ SendResult(r) \/ SendFailure(r) \/ Unlock(r)
  <2>1. UNCHANGED step /\ pc[r] # "recreate" /\ pc'[r] \notin BeforeSwap
    BY <1>0, <1>18 DEF VerifyNew, SendResult, SendFailure, SendAndGoto, Unlock, Goto, Phase,
                       recreateVars, BeforeSwap
  <2> QED
    BY <1>6, <1>8, <2>1
<1>19. CASE SendSwap(r)
  BY <1>19 DEF SendSwap, SendAndGoto, Goto
<1> QED
  BY <1>0, <1>9, <1>10, <1>11, <1>12, <1>13, <1>14, <1>15, <1>16, <1>17, <1>18, <1>19 DEF RequestStep

\* Whoever is not a handler keeps the last word.
LEMMA WordKept ==
    ASSUME SystemTypeOK, [SystemNext]_systemVars, \A r \in Request : ~Handler(r), ~Reboot,
           NEW s \in Service, Named(s)
    PROVE  \A d : PreviousWord(s, d) => PreviousWord(s, d)'
<1>0. StoreTypeOK /\ PollerTypeOK
  BY DEF SystemTypeOK, TypeOK
<1>1. CASE UNCHANGED <<rows, channel>>
  BY <1>1 DEF PreviousWord, SetsPrevious
<1>2. ASSUME NEW m \in Message, channel' = Append(channel, m), m.kind # "swap", UNCHANGED rows
      PROVE  \A d : PreviousWord(s, d) => PreviousWord(s, d)'
  <2>1. ~SetsPrevious(m, s)
    BY <1>2 DEF SetsPrevious
  <2> QED
    BY <1>0, <1>2, <2>1, WordsSent
<1>3. CASE Discover
  BY <1>1, <1>2, <1>3, DiscoverySends
<1>4. CASE \E r \in Request : Client(r)
  BY <1>1, <1>4 DEF Client, Arrive, ClientGone, storeVars
<1>5. CASE World \/ UNCHANGED systemVars
  BY <1>1, <1>5 DEF World, Outside, systemVars, vars, storeVars
<1>6. CASE \E w \in Sweeper : CronTick(w) \/ PollNow(w) \/ Poll(w) \/ PollExpires(w)
  <2>1. Speech({"resolved", "note", "sweep"}) /\ UNCHANGED rows
    BY <1>0, <1>6, SweepSpeech DEF CronTick, PollNow, Poll, PollExpires
  <2> QED
    BY <1>1, <1>2, <2>1 DEF Speech
<1>7. CASE Applied
  BY <1>0, <1>7, NamedApplied DEF Applied, Updater, discoveryVars
<1> QED
  BY <1>3, <1>4, <1>5, <1>6, <1>7 DEF SystemNext

\* Every step leads back where it should.
LEMMA BackStep ==
    ASSUME SystemTypeOK, SpinnerInv, StepsInRecreate, TargetInv, LookInv, RanInv, ImageInv,
           MisledInv, BackInv, [SystemNext]_systemVars
    PROVE  BackInv'
<1> SUFFICES ASSUME NEW s \in Service, Followed(s)' PROVE Named(s)' /\ LeadsBack(s)'
  BY DEF BackInv
<1>0. /\ TypeOK /\ MutexHeld /\ KnownOnce /\ GoneInv /\ StreamInv
      /\ pc \in [Request -> PC] /\ step \in [Request -> Step]
      /\ req \in [Request -> [svc : Service, op : Op]]
  BY DEF SystemTypeOK, TypeOK, RecreateTypeOK, Request, SpinnerInv, LookInv
<1>1. /\ Followed(s) /\ ~Reboot /\ Named(s) /\ LeadsBack(s) /\ restarts = 0
      /\ \A q \in Request : svc(q) = s => ~cancelled[q]
  BY <1>0, FollowedBefore DEF BackInv, Followed, Undisturbed, Abandoned
<1>2. Named(s)'
  BY <1>0, <1>1, NamedStep
<1>3. ASSUME NEW r \in Request, Handler(r), svc(r) # s PROVE LeadsBack(s)'
  <2>0. RequestStep(r)
    BY <1>3 DEF Handler
  <2>1. \A q \in Request : svc(q)' = svc(q) /\ (svc(q) = s => q # r)
    BY <1>3, <2>0, SameContext DEF svc
  <2>2. \A q \in Request : svc(q) = s =>
          /\ pc'[q] = pc[q] /\ step'[q] = step[q] /\ target'[q] = target[q]
          /\ snap'[q] = snap[q] /\ req'[q] = req[q]
    BY <1>0, <2>0, <2>1, OtherRequest
  <2>3. Window(s) => Window(s)'
    BY <2>1, <2>2 DEF Window, Swapping
  <2>4. \A d : PreviousWord(s, d) => PreviousWord(s, d)'
    BY <1>0, <1>3, <2>0, WordsOfRequest
  <2>5. ran'[s] = ran[s]
    BY <1>0, <1>3, <2>0, OtherService
  <2> QED
    BY <1>1, <2>1, <2>2, <2>3, <2>4, <2>5, BackFrame
<1>4. ASSUME NEW r \in Request, Handler(r), svc(r) = s, pc[r] \notin Locked PROVE LeadsBack(s)'
  <2>0. RequestStep(r)
    BY <1>4 DEF Handler
  <2>1. /\ UNCHANGED <<rows, channel, ran, step, snap, target>> /\ pc[r] = "check"
        /\ pc'[r] \in {"snapshot", "done"} /\ \A q \in Request : q # r => pc'[q] = pc[q]
    BY <1>0, <1>4, <2>0, UnlockedStep DEF storeVars, daemonVars
  <2>2. \A q \in Request : req'[q] = req[q] /\ svc(q)' = svc(q)
    BY <2>0, SameContext DEF svc
  <2>3. Aside(r)'
    BY <2>1 DEF Aside, BeforeSwap, StepsInRecreate
  <2>4. Window(s) => Window(s)'
    BY <1>0, <1>4, <2>0, <2>1, WindowStep
  <2>5. \A d : PreviousWord(s, d) => PreviousWord(s, d)'
    BY <2>1 DEF PreviousWord, SetsPrevious
  <2> QED
    BY <1>1, <2>1, <2>2, <2>3, <2>4, <2>5, BackFrame
<1>5. ASSUME NEW r \in Request, Handler(r), svc(r) = s, pc[r] \in Locked PROVE LeadsBack(s)'
  <2>0. RequestStep(r) /\ svc(r)' = s
    BY <1>5, SameContext DEF Handler, svc
  <2>1. CASE pc[r] # "swap"
    <3>1. r \notin misled' /\ ~cancelled[r] /\ Steerable(s)
      BY <1>1, <1>5, <2>0 DEF Followed
    <3> QED
      BY <1>0, <1>1, <1>5, <2>1, <3>1, BackOwn
  <2>2. CASE pc[r] = "swap"
    <3>1. SendSwap(r)
      BY <2>0, <2>2 DEF RequestStep, ComposeFileMoved, LockService, Snapshot,
         ChooseRollbackTarget, SendStart, SendAndGoto, Pull, CrossCheck, Retag, SendProgress,
         RecreateService, RecreateReturns, VerifyNew, SendResult, SendFailure, Unlock, Goto, Phase
    <3> QED
      BY <1>0, <1>1, <1>5, <3>1, BackSwap
  <2> QED
    BY <2>1, <2>2
<1>6. CASE \A r \in Request : ~Handler(r)
  <2>1. ran'[s] = ran[s]
    BY <1>0, <1>1, <1>6, QuietRan DEF Followed
  <2>2. \A d : PreviousWord(s, d) => PreviousWord(s, d)'
    BY <1>1, <1>6, WordKept
  <2>3. UNCHANGED <<step, snap, target>>
        /\ \A q \in Request : \/ pc'[q] = pc[q] /\ req'[q] = req[q]
                              \/ pc[q] = "idle" /\ pc'[q] = "check"
    <3>1. ASSUME NEW r \in Request, Client(r)
          PROVE  UNCHANGED <<step, snap, target>>
                 /\ \A q \in Request : \/ pc'[q] = pc[q] /\ req'[q] = req[q]
                                       \/ pc[q] = "idle" /\ pc'[q] = "check"
      BY <1>0, <3>1 DEF Client, Arrive, ClientGone, Goto, recreateVars, orchVars
    <3>2. CASE Applied \/ UNCHANGED systemVars
      BY <3>2 DEF Applied, Updater, systemVars, vars, recreateVars, orchVars
    <3>3. CASE World \/ Discover
               \/ \E w \in Sweeper : CronTick(w) \/ PollNow(w) \/ Poll(w) \/ PollExpires(w)
      BY <3>3 DEF World, Outside, Discover, CronTick, PollNow, Poll, PollExpires, recreateVars,
                  orchVars
    <3> QED
      BY <1>1, <1>6, <3>1, <3>2, <3>3 DEF SystemNext
  <2>4. \A q \in Request : \/ Aside(q)' /\ ~Swapping(q)
                           \/ pc'[q] = pc[q] /\ req'[q] = req[q] /\ svc(q)' = svc(q)
    BY <2>3 DEF Aside, BeforeSwap, StepsInRecreate, Swapping, svc
  <2>5. Window(s) => Window(s)'
    BY <2>3, <2>4 DEF Window, Swapping
  <2>6. \A q \in Request : svc(q)' = s =>
              \/ Aside(q)'
              \/ /\ pc'[q] = pc[q] /\ step'[q] = step[q] /\ target'[q] = target[q]
                 /\ snap'[q] = snap[q] /\ req'[q] = req[q]
    BY <2>3, <2>4
  <2> QED
    BY <1>1, <1>2, <2>1, <2>2, <2>5, <2>6, BackFrame
<1> QED
  BY <1>2, <1>3, <1>4, <1>5, <1>6

\* The document is what there is to go back to at first.
LEMMA InitBack == SystemInit => MisledInv /\ BackInv
<1> SUFFICES ASSUME SystemInit PROVE MisledInv /\ BackInv
  OBVIOUS
<1>1. MisledInv
  BY DEF SystemInit, MisledInv
<1>2. /\ channel = <<>> /\ outbox = <<>> /\ rows \in [Service -> Documents]
      /\ \A s \in Service : ran[s].before = NoDigest
  BY DEF SystemInit, NoRequestYet, DiscoveryInit, DaemonInit
<1>3. \A r \in Request : Aside(r)
  BY DEF SystemInit, NoRequestYet, RecreateInit, Request, Aside, BeforeSwap
<1>4. ASSUME NEW s \in Service, NamesDigests PROVE Named(s) /\ LeadsBack(s)
  <2>1. rows[s] \in Documents /\ rows[s] \in Row
    BY <1>2, SystemAssumption
  <2>2. rows[s].current # RepoName /\ rows[s].previous \in Digest \cup {NoDigest}
    BY <1>4, <2>1 DEF NamesDigests, Row, Ref
  <2>3. DOMAIN channel = {}
    BY <1>2
  <2>4. PreviousWord(s, rows[s].previous) /\ Back(s, rows[s].previous)
    BY <1>2, <2>1, <2>3 DEF PreviousWord, Back
  <2>5. Named(s)
    BY <1>2, <2>2, <2>3 DEF Named
  <2> QED
    BY <1>3, <2>2, <2>4, <2>5, AsideReads DEF LeadsBack
<1> QED
  BY <1>1, <1>4 DEF BackInv, Followed

\* Update, Rollback and discovery together: the previous digest of a row survives
\* the die, destroy and start events of recreates and outages, for every set of
\* services, documents and requests and in whatever order the messages of the
\* orchestrator, discovery and the sweeps reach the store.
THEOREM PreviousKept == SystemSpec => []PreviousSurvives
<1>1. /\ SystemTypeOK /\ SpinnerInv /\ StepsInRecreate /\ TargetInv /\ NetworkInv /\ LookInv
      /\ RanInv /\ ImageInv /\ MisledInv /\ BackInv /\ [SystemNext]_systemVars
      => MisledInv' /\ BackInv'
  BY MisledStep, BackStep
<1>2. SpinnerInv /\ StepsInRecreate /\ BackInv => PreviousSurvives
  <2> SUFFICES ASSUME SpinnerInv, StepsInRecreate, BackInv,
                      NEW s \in Service \ redeployed, Settled(s), Undisturbed(s), Steerable(s),
                      NamesDigests, \A r \in misled : svc(r) # s
               PROVE  \/ rows[s].previous = ran[s].before
                      \/ /\ ran[s].before = NoDigest
                         /\ \E row \in Documents : rows[s].previous = row.previous
    BY DEF PreviousSurvives
  <2>1. ~Window(s)
    BY OrchestratorAssumption
    DEF Window, Swapping, Settled, SpinnerInv, MutexHeld, StepsInRecreate, Locked, Started
  <2>2. PICK p \in Digest \cup {NoDigest} : PreviousWord(s, p) /\ Back(s, p)
    BY <2>1 DEF BackInv, Followed, LeadsBack
  <2>3. rows[s].previous = p
    BY <2>2 DEF PreviousWord, SetsPrevious, Settled, Pending
  <2> QED
    BY <2>2, <2>3 DEF Back
<1> QED
  BY <1>1, <1>2, InitBack, SystemTypes, SystemSpinner, SystemContainers, SystemLooks, SystemRan,
     SystemImage, PTL DEF SystemSpec
=============================================================================
