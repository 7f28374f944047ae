--------------------------- MODULE SpinnerProofs ---------------------------
(***************************************************************************)
(* The spinner of every row, for every set of services and requests, every *)
(* channel capacity, with clients that go away, a disk that fails and any  *)
(* number of restarts: it has an owner, and it shows the action that runs. *)
(***************************************************************************)
EXTENDS OrchestratorProofs

-----------------------------------------------------------------------------
(* The inductive invariant.                                                *)

\* A request between TryLock and Unlock holds the mutex of its service.
MutexHeld == \A r \in Request : pc[r] \in Locked => held[svc(r)] = r

\* A request that has not arrived has no context to be cancelled.
NotYetCancelled == \A r \in Request : pc[r] = "idle" => ~cancelled[r]

\* A service without a row has no spinner, in memory and on disk.
UnknownIsIdle == \A s \in Service : /\ ~rows[s].known => rows[s].inFlight = Idle
                                    /\ ~disk[s].known => disk[s].inFlight = Idle

\* Past its snapshot a request works on a service with a row.
PastSnapshot == Started \cup {"choose", "start"}
KnownOnce == \A r \in Request : pc[r] \in PastSnapshot => rows[svc(r)].known

\* A started request works on s.
Busy(s) == \E r \in Request : svc(r) = s /\ pc[r] \in Started

\* A message behind the i-th of the channel clears the spinner of s.
ClearedAfter(s, i) == \E j \in DOMAIN channel : j > i /\ channel[j].svc = s /\ Clears(channel[j])

\* A KindActionStart on its way has an owner as well.
StartsOwned ==
    \A i \in DOMAIN channel :
       channel[i].kind = "start" =>
          \/ Busy(channel[i].svc)
          \/ ClearedAfter(channel[i].svc, i)
          \/ Abandoned(channel[i].svc)

\* A message that sets or clears the spinner of s.
Speaks(m, s) == m.svc = s /\ (m.kind = "start" \/ Clears(m))

\* The last word about the spinner of s, in the channel or else in the row, is op.
LastWord(s, op) ==
    \/ \E i \in DOMAIN channel :
         /\ channel[i].kind = "start" /\ channel[i].svc = s /\ channel[i].op = op
         /\ \A j \in DOMAIN channel : j > i => ~Speaks(channel[j], s)
    \/ /\ \A j \in DOMAIN channel : ~Speaks(channel[j], s)
       /\ rows[s].inFlight = op

\* A started request whose client is there has the last word.
StartedSpeaksLast ==
    \A r \in Request : (pc[r] \in Started /\ ~cancelled[r]) => LastWord(svc(r), req[r].op)

SpinnerInv == MutexHeld /\ NotYetCancelled /\ UnknownIsIdle /\ KnownOnce
                /\ StartsOwned /\ SpinnerOwned /\ StartedSpeaksLast

-----------------------------------------------------------------------------
(* What applying a message does to the spinner.                            *)

\* Only KindActionStart sets it and only a result clears it; a row, once there,
\* stays.
LEMMA ApplySpinner ==
    ASSUME NEW row \in Row, NEW m \in Message
    PROVE  /\ row.known => Apply(row, m).known
           /\ m.kind # "start" /\ ~Clears(m) => Apply(row, m).inFlight = row.inFlight
           /\ m.kind = "start" => m.op \in Op
           /\ m.kind = "start" /\ row.known => Apply(row, m).inFlight = m.op
           /\ Clears(m) /\ row.known => Apply(row, m).inFlight = Idle
           /\ (m.kind = "start" \/ Clears(m)) /\ ~row.known => Apply(row, m) = row
<1> USE DEF Row, Clears
<1>1. CASE m \in StartMsg
  BY <1>1 DEF StartMsg, Apply, ApplyStart
<1>2. CASE m \in ProgressMsg
  BY <1>2 DEF ProgressMsg, Apply
<1>3. CASE m \in SwapMsg
  BY <1>3 DEF SwapMsg, Apply, ApplySwap
<1>4. CASE m \in ResultMsg
  BY <1>4 DEF ResultMsg, Apply, ApplyResult
<1>5. CASE m \in PulledMsg
  BY <1>5 DEF PulledMsg, Apply, ApplyPulled
<1>6. CASE m \in FailureMsg
  BY <1>6 DEF FailureMsg, Apply, ApplyFailure
<1>7. CASE m \in UpsertMsg
  BY <1>7 DEF UpsertMsg, Apply, ApplyUpsert
<1>8. CASE m \in StoppedMsg
  BY <1>8 DEF StoppedMsg, Apply, ApplyStopped
<1>9. CASE m \in RemovedMsg
  BY <1>9 DEF RemovedMsg, Apply, ApplyRemoved
<1>10. CASE m \in ResolvedMsg
  BY <1>10 DEF ResolvedMsg, Apply, ApplyResolved
<1>11. CASE m \in NoteMsg
  BY <1>11 DEF NoteMsg, Apply, ApplyNote
<1>12. CASE m \in SweepMsg
  BY <1>12 DEF SweepMsg, Apply
<1> QED
  BY <1>1, <1>2, <1>3, <1>4, <1>5, <1>6, <1>7, <1>8, <1>9, <1>10, <1>11, <1>12 DEF Message

-----------------------------------------------------------------------------
(* Steps that send nothing.                                                *)

\* r moves on within, or outside, its started part; nothing else that the
\* invariant looks at changes.
MovesOn(r) ==
    /\ UNCHANGED <<rows, disk, channel, req, cancelled, orphaned>>
    /\ \A q \in Request \ {r} : pc'[q] = pc[q]
    /\ pc'[r] \in Started <=> pc[r] \in Started
    /\ pc'[r] # "idle"
    /\ pc'[r] \in PastSnapshot => rows[svc(r)].known

\* Such a step keeps everything but the mutexes.
LEMMA MovesOnKeeps ==
    ASSUME TypeOK, SpinnerInv, NEW r \in Request, MovesOn(r)
    PROVE  NotYetCancelled' /\ UnknownIsIdle' /\ KnownOnce' /\ StartsOwned' /\ SpinnerOwned'
             /\ StartedSpeaksLast'
<1>1. \A q \in Request : svc(q)' = svc(q) /\ (pc'[q] \in Started <=> pc[q] \in Started)
  BY DEF MovesOn, svc
<1>2. \A s \in Service : (Busy(s) => Busy(s)') /\ (Abandoned(s) => Abandoned(s)')
  BY <1>1 DEF MovesOn, Busy, Abandoned
<1>3. NotYetCancelled'
  BY DEF MovesOn, SpinnerInv, NotYetCancelled
<1>4. UnknownIsIdle'
  BY DEF MovesOn, SpinnerInv, UnknownIsIdle
<1>5. KnownOnce'
  BY <1>1 DEF MovesOn, SpinnerInv, KnownOnce
<1>6. StartsOwned'
  <2>1. \A i \in DOMAIN channel : channel[i].kind = "start" => channel[i].svc \in Service
    BY MessageService DEF TypeOK, StoreTypeOK
  <2> QED
    BY <1>2, <2>1 DEF MovesOn, SpinnerInv, StartsOwned, ClearedAfter
<1>7. SpinnerOwned'
  BY <1>1, <1>2 DEF MovesOn, SpinnerInv, SpinnerOwned, Busy
<1>8. StartedSpeaksLast'
  BY <1>1 DEF MovesOn, SpinnerInv, StartedSpeaksLast, LastWord, Speaks
<1> QED
  BY <1>3, <1>4, <1>5, <1>6, <1>7, <1>8

\* The steps of a request that neither lock, unlock nor send.
LEMMA QuietStep ==
    ASSUME TypeOK, SpinnerInv, NEW r \in Request,
           ComposeFileMoved(r) \/ Snapshot(r) \/ ChooseRollbackTarget(r) \/ Pull(r)
             \/ CrossCheck(r) \/ Retag(r) \/ RecreateService(r) \/ RecreateReturns(r)
             \/ VerifyNew(r)
    PROVE  SpinnerInv'
<1>0. pc \in [Request -> PC] /\ req[r].op \in Op
  BY RequestService DEF TypeOK, RequestTypeOK
<1>1. /\ MovesOn(r)
      /\ UNCHANGED held
      /\ pc'[r] \in Locked => pc[r] \in Locked
  <2> USE <1>0 DEF MovesOn, Goto, Started, Locked, PastSnapshot, storeVars, recreateVars
  <2>1. CASE ComposeFileMoved(r)
    BY <2>1 DEF ComposeFileMoved
  <2>2. CASE Snapshot(r)
    BY <2>2 DEF Snapshot, Op
  <2>3. CASE ChooseRollbackTarget(r)
    BY <2>3 DEF ChooseRollbackTarget, SpinnerInv, KnownOnce
  <2>4. CASE Pull(r)
    BY <2>4 DEF Pull, SpinnerInv, KnownOnce
  <2>5. CASE CrossCheck(r)
    BY <2>5 DEF CrossCheck, SpinnerInv, KnownOnce
  <2>6. CASE Retag(r)
    BY <2>6 DEF Retag, SpinnerInv, KnownOnce
  <2>7. CASE RecreateService(r)
    <3>1. UNCHANGED cancelled
      BY <2>7 DEF RecreateService, RecreateStep, ListOld, StopOld, RemoveOld, CreateNew,
                  ConnectNetworks, StartNew, CleanupNew, Succeeds, StepTo
    <3> QED
      BY <2>7, <3>1 DEF RecreateService, orchVars, SpinnerInv, KnownOnce
  <2>8. CASE RecreateReturns(r)
    BY <2>8 DEF RecreateReturns, SpinnerInv, KnownOnce
  <2>9. CASE VerifyNew(r)
    BY <2>9 DEF VerifyNew, SpinnerInv, KnownOnce
  <2> QED
    BY <2>1, <2>2, <2>3, <2>4, <2>5, <2>6, <2>7, <2>8, <2>9
<1>2. MutexHeld'
  BY <1>1 DEF SpinnerInv, MutexHeld, MovesOn, svc
<1> QED
  BY <1>1, <1>2, MovesOnKeeps DEF SpinnerInv

\* TryLock, and the deferred unlock.
LEMMA MutexStep ==
    ASSUME TypeOK, SpinnerInv, NEW r \in Request, LockService(r) \/ Unlock(r)
    PROVE  SpinnerInv'
<1>0. pc \in [Request -> PC] /\ held \in [Service -> Request \cup {NoOne}]
        /\ svc(r) \in Service /\ NoOne \notin Request
  BY RequestService, OrchestratorAssumption DEF TypeOK, RequestTypeOK
<1>1. MovesOn(r)
  BY <1>0 DEF LockService, Unlock, MovesOn, Goto, Started, PastSnapshot, storeVars, recreateVars
<1>2. MutexHeld'
  <2>1. \A q \in Request : svc(q)' = svc(q) /\ svc(q) \in Service
    BY <1>1, RequestService DEF MovesOn, svc, TypeOK, RequestTypeOK
  <2>2. CASE LockService(r)
    BY <1>0, <2>1, <2>2 DEF LockService, SpinnerInv, MutexHeld, Goto, Locked, Started
  <2>3. CASE Unlock(r)
    BY <1>0, <2>1, <2>3 DEF Unlock, SpinnerInv, MutexHeld, Goto, Locked, Started
  <2> QED
    BY <2>2, <2>3
<1> QED
  BY <1>1, <1>2, MovesOnKeeps DEF SpinnerInv

-----------------------------------------------------------------------------
(* Steps that send.                                                        *)

\* Where a message goes: behind all others.
LEMMA AppendFacts ==
    ASSUME NEW q \in Seq(Message), NEW m \in Message
    PROVE  /\ DOMAIN Append(q, m) = 1 .. Len(q) + 1
           /\ DOMAIN q = 1 .. Len(q) /\ Len(q) \in Nat
           /\ \A i \in DOMAIN q : Append(q, m)[i] = q[i]
           /\ Append(q, m)[Len(q) + 1] = m
OBVIOUS

\* A request that sends keeps the invariant when its message opens its started
\* part, closes it, or says nothing about the spinner.
LEMMA SendKeeps ==
    ASSUME TypeOK, SpinnerInv, NEW r \in Request, NEW from \in PC, NEW to \in PC,
           NEW m \in Message, m.svc = svc(r), SendAndGoto(r, from, to, m),
           \/ from = "start" /\ to \in Started /\ m.kind = "start" /\ m.op = req[r].op
           \/ from \in Started /\ to \in Started /\ m.kind # "start" /\ ~Clears(m)
           \/ from \in Started /\ to = "unlock" /\ Clears(m)
    PROVE  SpinnerInv'
<1> DEFINE n == Len(channel)
<1>0. /\ pc \in [Request -> PC] /\ channel \in Seq(Message)
      /\ \A q \in Request : svc(q) \in Service
  BY RequestService DEF TypeOK, StoreTypeOK, RequestTypeOK
<1>1. /\ UNCHANGED <<rows, disk, req, held, cancelled, orphaned>>
      /\ pc[r] = from /\ pc' = [pc EXCEPT ![r] = to]
      /\ \A q \in Request : svc(q)' = svc(q)
  BY DEF SendAndGoto, Goto, svc
<1>2. \/ channel' = Append(channel, m)
      \/ cancelled[r] /\ channel' = channel
  BY DEF SendAndGoto, Send, Post
<1>3. \A q \in Request : q # r => pc'[q] = pc[q]
  BY <1>0, <1>1
<1>4. pc'[r] = to /\ pc[r] \in Locked
  BY <1>0, <1>1 DEF Locked
<1>5. MutexHeld'
  BY <1>1, <1>3, <1>4 DEF SpinnerInv, MutexHeld
<1>6. NotYetCancelled' /\ UnknownIsIdle'
  BY <1>1, <1>3, <1>4 DEF SpinnerInv, NotYetCancelled, UnknownIsIdle, Started
<1>7. KnownOnce'
  BY <1>1, <1>3, <1>4 DEF SpinnerInv, KnownOnce, PastSnapshot, Started
<1>8. \A s \in Service : Abandoned(s)' <=> Abandoned(s)
  BY <1>1 DEF Abandoned
<1>9. ASSUME NEW s \in Service, Busy(s)
      PROVE  Busy(s)' \/ (s = svc(r) /\ to = "unlock" /\ Clears(m))
  <2>1. PICK q \in Request : svc(q) = s /\ pc[q] \in Started
    BY <1>9 DEF Busy
  <2>2. to \in Started \/ (to = "unlock" /\ Clears(m))
    OBVIOUS
  <2>3. CASE q = r
    BY <1>1, <1>4, <2>1, <2>2, <2>3 DEF Busy
  <2>4. CASE q # r
    BY <1>1, <1>3, <2>1, <2>4 DEF Busy
  <2> QED
    BY <2>3, <2>4
<1>10. CASE cancelled[r] /\ channel' = channel
  <2>1. Abandoned(svc(r))
    BY <1>10 DEF Abandoned
  <2>2. \A i \in DOMAIN channel : channel[i].kind = "start" => channel[i].svc \in Service
    BY <1>0, MessageService
  <2>3. StartsOwned'
    BY <1>0, <1>8, <1>9, <1>10, <2>1, <2>2 DEF SpinnerInv, StartsOwned, ClearedAfter
  <2>4. \A s \in Service : rows[s].inFlight # Idle =>
           \/ Busy(s)
           \/ \E i \in DOMAIN channel : channel[i].svc = s /\ Clears(channel[i])
           \/ Abandoned(s)
           \/ s \in orphaned
    BY DEF SpinnerInv, SpinnerOwned, Busy
  <2>5. \A s \in Service : rows[s].inFlight # Idle =>
           \/ Busy(s)'
           \/ \E i \in DOMAIN channel : channel[i].svc = s /\ Clears(channel[i])
           \/ Abandoned(s)'
           \/ s \in orphaned
    BY <1>0, <1>8, <1>9, <2>1, <2>4
  <2>6. SpinnerOwned'
    BY <1>1, <1>10, <2>5 DEF SpinnerOwned, Busy
  <2>7. StartedSpeaksLast'
    BY <1>1, <1>3, <1>10 DEF SpinnerInv, StartedSpeaksLast, LastWord, Speaks
  <2> QED
    BY <1>5, <1>6, <1>7, <2>3, <2>6, <2>7 DEF SpinnerInv
<1>11. CASE channel' = Append(channel, m)
  <2>0. /\ DOMAIN channel' = 1 .. n + 1 /\ DOMAIN channel = 1 .. n /\ n \in Nat
        /\ channel'[n + 1] = m
        /\ \A i \in 1 .. n : channel'[i] = channel[i]
    BY <1>0, <1>11, AppendFacts
  <2>1. \A i \in 1 .. n : channel[i].kind = "start" => channel[i].svc \in Service
    BY <1>0, <2>0, MessageService
  <2>2. \A s \in Service, i \in 0 .. n :
           /\ ClearedAfter(s, i) => ClearedAfter(s, i)'
           /\ s = svc(r) /\ Clears(m) => ClearedAfter(s, i)'
    BY <2>0 DEF ClearedAfter, Clears
  <2>3. StartsOwned'
    <3>1. ASSUME NEW i \in 1 .. n, NEW s \in Service, channel[i].kind = "start",
                 channel[i].svc = s
          PROVE  Busy(s)' \/ ClearedAfter(s, i)' \/ Abandoned(s)'
      <4>1. Busy(s) \/ ClearedAfter(s, i) \/ Abandoned(s)
        BY <2>0, <3>1 DEF SpinnerInv, StartsOwned
      <4>2. i \in 0 .. n
        BY <2>0
      <4> QED
        BY <1>8, <1>9, <2>2, <4>1, <4>2
    <3>2. m.kind = "start" => Busy(m.svc)'
      BY <1>1, <1>4 DEF Busy, Clears
    <3> QED
      BY <1>1, <2>0, <2>1, <3>1, <3>2 DEF StartsOwned, Busy, ClearedAfter, Abandoned
  <2>4. SpinnerOwned'
    <3> SUFFICES ASSUME NEW s \in Service, rows[s].inFlight # Idle
                 PROVE  \/ Busy(s)' \/ ClearedAfter(s, 0)' \/ Abandoned(s)' \/ s \in orphaned
      BY <1>1, <2>0 DEF SpinnerOwned, Busy, ClearedAfter
    <3>1. Busy(s) \/ ClearedAfter(s, 0) \/ Abandoned(s) \/ s \in orphaned
      BY <2>0 DEF SpinnerInv, SpinnerOwned, Busy, ClearedAfter
    <3> QED
      BY <1>8, <1>9, <2>0, <2>2, <3>1
  <2>5. StartedSpeaksLast'
    <3> SUFFICES ASSUME NEW q \in Request, pc'[q] \in Started, ~cancelled[q]
                 PROVE  LastWord(svc(q), req[q].op)'
      BY <1>1 DEF StartedSpeaksLast
    <3>1. CASE m.kind = "start" /\ q = r
      <4>1. m.op = req'[r].op /\ m.svc = svc(r)'
        BY <1>1, <3>1 DEF Clears
      <4>2. \A j \in DOMAIN channel' : ~(j > n + 1)
        BY <2>0
      <4> QED
        BY <2>0, <3>1, <4>1, <4>2 DEF LastWord
    <3>2. CASE ~(m.kind = "start" /\ q = r)
      <4>1. pc[q] \in Started
        BY <1>1, <1>3, <3>2
      <4>2. LastWord(svc(q), req[q].op)
        BY <4>1 DEF SpinnerInv, StartedSpeaksLast
      <4>3. q # r => svc(q) # svc(r)
        BY <1>4, <4>1 DEF SpinnerInv, MutexHeld, Locked
      <4>4. q = r => m.kind # "start" /\ ~Clears(m)
        BY <1>4, <3>2 DEF Started
      <4>5. ~Speaks(m, svc(q))
        BY <4>3, <4>4 DEF Speaks
      <4> QED
        BY <1>1, <2>0, <4>2, <4>5 DEF LastWord, Speaks, Clears
    <3> QED
      BY <3>1, <3>2
  <2> QED
    BY <1>5, <1>6, <1>7, <2>3, <2>4, <2>5 DEF SpinnerInv
<1> QED
  BY <1>2, <1>10, <1>11

\* The five sends of an action.
LEMMA SendStep ==
    ASSUME TypeOK, SpinnerInv, NEW r \in Request,
           SendStart(r) \/ SendProgress(r) \/ SendSwap(r) \/ SendResult(r) \/ SendFailure(r)
    PROVE  SpinnerInv'
<1>0. svc(r) \in Service /\ req[r].op \in Op /\ target[r] \in Ref /\ snap[r] \in Row
  BY RequestService DEF TypeOK, RequestTypeOK
<1>1. CASE SendStart(r)
  <2> DEFINE m == [kind |-> "start", svc |-> svc(r), op |-> req[r].op]
             to == IF req[r].op = "rolling_back" THEN "retag" ELSE "pull"
  <2>1. m \in Message /\ m.svc = svc(r) /\ m.kind = "start" /\ m.op = req[r].op
    BY <1>0 DEF Message, StartMsg
  <2>2. to \in PC /\ to \in Started /\ "start" \in PC
    BY DEF PC, Started
  <2>3. SendAndGoto(r, "start", to, m)
    BY <1>1 DEF SendStart
  <2> HIDE DEF m, to
  <2> QED
    BY <2>1, <2>2, <2>3, SendKeeps
<1>2. CASE SendProgress(r)
  <2> DEFINE m == [kind |-> "progress", svc |-> svc(r)]
  <2>1. m \in Message /\ m.svc = svc(r) /\ m.kind # "start" /\ ~Clears(m)
    BY <1>0 DEF Message, ProgressMsg, Clears
  <2>2. SendAndGoto(r, "progress", "recreate", m)
    BY <1>2 DEF SendProgress
  <2> HIDE DEF m
  <2> QED
    BY <2>1, <2>2, SendKeeps DEF PC, Started
<1>3. CASE SendSwap(r)
  <2> DEFINE m == [kind |-> "swap", svc |-> svc(r), op |-> req[r].op, digest |-> target[r],
                   prev |-> PreviousToRecord(req[r].op, snap[r], target[r])]
  <2>1. m \in Message /\ m.svc = svc(r) /\ m.kind # "start" /\ ~Clears(m)
    BY <1>0, PreviousType DEF Message, SwapMsg, Clears
  <2>2. SendAndGoto(r, "swap", "verify", m)
    BY <1>3 DEF SendSwap
  <2> HIDE DEF m
  <2> QED
    BY <2>1, <2>2, SendKeeps DEF PC, Started
<1>4. CASE SendResult(r)
  <2> DEFINE m == IF req[r].op = "force_pulling"
                  THEN [kind |-> "pulled", svc |-> svc(r), digest |-> target[r]]
                  ELSE [kind |-> "result", svc |-> svc(r)]
  <2>1. m \in Message /\ m.svc = svc(r) /\ Clears(m)
    BY <1>0 DEF Message, PulledMsg, ResultMsg, Clears
  <2>2. SendAndGoto(r, "result", "unlock", m)
    BY <1>4 DEF SendResult
  <2> HIDE DEF m
  <2> QED
    BY <2>1, <2>2, SendKeeps DEF PC, Started
<1>5. CASE SendFailure(r)
  <2> DEFINE From(phase) == CASE phase = "pull" -> "pull_failed"
                              [] phase = "compose" -> "compose_failed"
                              [] phase = "verify" -> "verify_failed"
             m(phase) == [kind |-> "failure", svc |-> svc(r), phase |-> phase]
  <2>1. PICK phase \in Phase : SendAndGoto(r, From(phase), "unlock", m(phase))
    BY <1>5 DEF SendFailure
  <2>2. m(phase) \in Message /\ m(phase).svc = svc(r) /\ Clears(m(phase))
    BY <1>0 DEF Message, FailureMsg, Clears
  <2>3. From(phase) \in PC /\ From(phase) \in Started /\ "unlock" \in PC
    BY DEF Phase, PC, Started
  <2> HIDE DEF From, m
  <2> QED
    BY <2>1, <2>2, <2>3, SendKeeps
<1> QED
  BY <1>1, <1>2, <1>3, <1>4, <1>5

-----------------------------------------------------------------------------
(* The consumer.                                                           *)

\* What is left when the oldest message has been taken.
LEMMA TailFacts ==
    ASSUME NEW q \in Seq(Message), q # <<>>
    PROVE  /\ Head(q) \in Message /\ Head(q) = q[1] /\ Len(q) \in Nat \ {0}
           /\ DOMAIN q = 1 .. Len(q) /\ DOMAIN Tail(q) = 1 .. Len(q) - 1
           /\ \A i \in 1 .. Len(q) - 1 : Tail(q)[i] = q[i + 1]
OBVIOUS

\* Applying the oldest message hands its spinner over: what a start puts into
\* the row was owned in the channel, and what a result clears needs no owner.
LEMMA UpdaterStep == TypeOK /\ SpinnerInv /\ Updater => SpinnerInv'
<1> SUFFICES ASSUME TypeOK, SpinnerInv, Updater PROVE SpinnerInv'
  OBVIOUS
<1> DEFINE m == Head(channel)
           n == Len(channel)
<1>0. /\ m \in Message /\ m = channel[1] /\ n \in Nat \ {0}
      /\ DOMAIN channel = 1 .. n /\ DOMAIN channel' = 1 .. n - 1
      /\ \A i \in 1 .. n - 1 : channel'[i] = channel[i + 1]
  BY TailFacts DEF Updater, Consume, Update, Persist, TypeOK, StoreTypeOK
<1>1. \A s \in Service : /\ rows[s] \in Row
                         /\ rows'[s] = IF s = m.svc THEN Apply(rows[s], m) ELSE rows[s]
  BY DEF Updater, Consume, Update, Persist, TypeOK, StoreTypeOK
<1> HIDE DEF m, n
<1>2. \A s \in Service :
        /\ rows[s].known => rows'[s].known
        /\ s # m.svc => rows'[s] = rows[s]
        /\ m.kind # "start" /\ ~Clears(m) => rows'[s].inFlight = rows[s].inFlight
        /\ s = m.svc /\ m.kind = "start" /\ rows[s].known => rows'[s].inFlight = m.op
        /\ s = m.svc /\ Clears(m) /\ rows[s].known => rows'[s].inFlight = Idle
        /\ (m.kind = "start" \/ Clears(m)) /\ ~rows[s].known => rows'[s] = rows[s]
  BY <1>0, <1>1, ApplySpinner
<1>3. disk' = rows' \/ disk' = disk
  BY DEF Updater, Consume, Update, Persist
<1>4. UNCHANGED <<pc, req, held, cancelled>> /\ orphaned' = {s \in orphaned : rows'[s].inFlight # Idle}
  BY DEF Updater, recreateVars
<1>5. \A q \in Request : svc(q)' = svc(q) /\ svc(q) \in Service
  BY <1>4, RequestService DEF svc, TypeOK, RequestTypeOK
<1>6. \A s \in Service : (Busy(s)' <=> Busy(s)) /\ (Abandoned(s)' <=> Abandoned(s))
  BY <1>4, <1>5 DEF Busy, Abandoned
<1>7. MutexHeld' /\ NotYetCancelled'
  BY <1>4, <1>5 DEF SpinnerInv, MutexHeld, NotYetCancelled
<1>8. UnknownIsIdle'
  <2>2. \A s \in Service : ~rows'[s].known => rows'[s].inFlight = Idle
    BY <1>2 DEF SpinnerInv, UnknownIsIdle
  <2> QED
    BY <1>3, <2>2 DEF SpinnerInv, UnknownIsIdle
<1>9. KnownOnce'
  BY <1>2, <1>4, <1>5 DEF SpinnerInv, KnownOnce
<1>10. \A s \in Service, i \in 1 .. n : ClearedAfter(s, i) => ClearedAfter(s, i - 1)'
  <2> SUFFICES ASSUME NEW s \in Service, NEW i \in 1 .. n, ClearedAfter(s, i)
               PROVE  ClearedAfter(s, i - 1)'
    OBVIOUS
  <2>1. PICK j \in 1 .. n : j > i /\ channel[j].svc = s /\ Clears(channel[j])
    BY <1>0 DEF ClearedAfter
  <2>2. j - 1 \in 1 .. n - 1 /\ j - 1 > i - 1 /\ channel'[j - 1] = channel[j]
    BY <1>0, <2>1
  <2> QED
    BY <1>0, <2>1, <2>2 DEF ClearedAfter, Clears
<1>11. StartsOwned'
  <2> SUFFICES ASSUME NEW i \in 1 .. n - 1, NEW s \in Service, channel'[i].kind = "start",
                      channel'[i].svc = s
               PROVE  Busy(s)' \/ ClearedAfter(s, i)' \/ Abandoned(s)'
    <3>1. \A i \in 1 .. n - 1 : channel'[i].kind = "start" => channel'[i].svc \in Service
      BY <1>0, MessageService DEF TypeOK, StoreTypeOK
    <3> QED
      BY <1>0, <3>1 DEF StartsOwned, Busy, ClearedAfter, Abandoned
  <2>1. i + 1 \in 1 .. n /\ channel'[i] = channel[i + 1] /\ (i + 1) - 1 = i
    BY <1>0
  <2>2. Busy(s) \/ ClearedAfter(s, i + 1) \/ Abandoned(s)
    BY <1>0, <2>1 DEF SpinnerInv, StartsOwned
  <2> QED
    BY <1>6, <1>10, <2>1, <2>2
<1>12. SpinnerOwned'
  <2> SUFFICES ASSUME NEW s \in Service, rows'[s].inFlight # Idle
               PROVE  Busy(s)' \/ ClearedAfter(s, 0)' \/ Abandoned(s)' \/ s \in orphaned'
    BY <1>0 DEF SpinnerOwned, Busy, ClearedAfter
  <2>1. CASE s = m.svc /\ m.kind = "start" /\ rows[s].known
    <3>1. Busy(s) \/ ClearedAfter(s, 1) \/ Abandoned(s)
      BY <1>0, <2>1 DEF SpinnerInv, StartsOwned
    <3>2. 1 \in 1 .. n /\ 1 - 1 = 0
      BY <1>0
    <3> QED
      BY <1>6, <1>10, <3>1, <3>2
  <2>2. CASE ~(s = m.svc /\ m.kind = "start" /\ rows[s].known)
    <3>1. rows[s].inFlight # Idle /\ ~(s = m.svc /\ Clears(m))
      BY <1>2, <2>2 DEF SpinnerInv, UnknownIsIdle
    <3>2. \/ Busy(s) \/ Abandoned(s) \/ s \in orphaned
          \/ \E i \in 1 .. n : channel[i].svc = s /\ Clears(channel[i])
      BY <1>0, <3>1 DEF SpinnerInv, SpinnerOwned, Busy
    <3>3. ASSUME NEW i \in 1 .. n, channel[i].svc = s, Clears(channel[i])
          PROVE  ClearedAfter(s, 0)'
      <4>1. i # 1
        BY <1>0, <3>1, <3>3
      <4>2. i - 1 \in 1 .. n - 1 /\ i - 1 > 0 /\ channel'[i - 1] = channel[i]
        BY <1>0, <4>1
      <4> QED
        BY <1>0, <3>3, <4>2 DEF ClearedAfter, Clears
    <3> QED
      BY <1>4, <1>6, <3>2, <3>3
  <2> QED
    BY <2>1, <2>2
<1>13. StartedSpeaksLast'
  <2> SUFFICES ASSUME NEW q \in Request, pc[q] \in Started, ~cancelled[q]
               PROVE  LastWord(svc(q), req[q].op)'
    BY <1>4 DEF StartedSpeaksLast
  <2> DEFINE s == svc(q)
             op == req[q].op
  <2>0. s \in Service /\ rows[s].known
    BY <1>5 DEF SpinnerInv, KnownOnce, PastSnapshot
  <2>1. s' = s /\ op' = op
    BY <1>4, <1>5
  <2>2. LastWord(s, op)
    BY DEF SpinnerInv, StartedSpeaksLast
  <2> HIDE DEF s, op
  <2>3. ASSUME NEW i \in 1 .. n, i # 1, channel[i].kind = "start", channel[i].svc = s,
               channel[i].op = op, \A j \in 1 .. n : j > i => ~Speaks(channel[j], s)
        PROVE  LastWord(s, op)'
    <3>1. i - 1 \in 1 .. n - 1 /\ channel'[i - 1] = channel[i]
      BY <1>0, <2>3
    <3>2. ASSUME NEW j \in 1 .. n - 1, j > i - 1 PROVE ~Speaks(channel'[j], s)
      <4>1. j + 1 \in 1 .. n /\ j + 1 > i /\ channel'[j] = channel[j + 1]
        BY <1>0, <3>2
      <4> QED
        BY <2>3, <4>1
    <3> QED
      BY <1>0, <2>1, <2>3, <3>1, <3>2 DEF LastWord, Speaks, Clears
  <2>4. ASSUME \A j \in 1 .. n : j > 1 => ~Speaks(channel[j], s), rows'[s].inFlight = op
        PROVE  LastWord(s, op)'
    <3>1. ASSUME NEW j \in 1 .. n - 1 PROVE ~Speaks(channel'[j], s)
      <4>1. j + 1 \in 1 .. n /\ j + 1 > 1 /\ channel'[j] = channel[j + 1]
        BY <1>0
      <4> QED
        BY <2>4, <4>1
    <3> QED
      BY <1>0, <2>1, <2>4, <3>1 DEF LastWord, Speaks, Clears
  <2>5. ASSUME channel[1].kind = "start", channel[1].svc = s, channel[1].op = op,
               \A j \in 1 .. n : j > 1 => ~Speaks(channel[j], s)
        PROVE  LastWord(s, op)'
    <3>1. rows'[s].inFlight = op
      BY <1>0, <1>2, <2>0, <2>5
    <3> QED
      BY <2>4, <2>5, <3>1
  <2>6. ASSUME \A j \in 1 .. n : ~Speaks(channel[j], s), rows[s].inFlight = op
        PROVE  LastWord(s, op)'
    <3>1. ~Speaks(m, s)
      BY <1>0, <2>6
    <3>2. rows'[s].inFlight = op
      BY <1>2, <2>0, <2>6, <3>1 DEF Speaks
    <3> QED
      BY <2>4, <2>6, <3>2
  <2>7. LastWord(s, op)'
    BY <1>0, <2>2, <2>3, <2>5, <2>6 DEF LastWord
  <2> QED
    BY <2>7 DEF s, op
<1> QED
  BY <1>7, <1>8, <1>9, <1>11, <1>12, <1>13 DEF SpinnerInv

-----------------------------------------------------------------------------
(* Arrivals, departures, restarts and the world outside.                   *)

\* A request arrives: it had done nothing and could not be cancelled.
LEMMA ArriveStep ==
    ASSUME TypeOK, SpinnerInv, NEW r \in Request, Arrive(r) PROVE SpinnerInv'
<1>0. pc \in [Request -> PC] /\ req \in [Request -> [svc : Service, op : Op]]
        /\ pc[r] = "idle" /\ ~cancelled[r] /\ pc' = [pc EXCEPT ![r] = "check"]
  BY DEF Arrive, Goto, SpinnerInv, NotYetCancelled, TypeOK
<1>1. UNCHANGED <<rows, disk, channel, held, cancelled, orphaned>>
  BY DEF Arrive, storeVars, recreateVars
<1>2. \A q \in Request : q # r => pc'[q] = pc[q] /\ req'[q] = req[q]
  BY <1>0 DEF Arrive
<1>3. pc'[r] = "check" /\ "check" \notin Locked /\ "check" \notin Started
        /\ "check" \notin PastSnapshot /\ "idle" \notin Started
  BY <1>0 DEF Locked, Started, PastSnapshot
<1>4. \A s \in Service : (Busy(s) => Busy(s)') /\ (Abandoned(s) => Abandoned(s)')
  BY <1>0, <1>1, <1>2, <1>3 DEF Busy, Abandoned, svc
<1>5. MutexHeld' /\ NotYetCancelled' /\ UnknownIsIdle' /\ KnownOnce'
  BY <1>1, <1>2, <1>3
  DEF SpinnerInv, MutexHeld, NotYetCancelled, UnknownIsIdle, KnownOnce, svc
<1>6. StartsOwned'
  <2>1. \A i \in DOMAIN channel : channel[i].kind = "start" => channel[i].svc \in Service
    BY MessageService DEF TypeOK, StoreTypeOK
  <2> QED
    BY <1>1, <1>4, <2>1 DEF SpinnerInv, StartsOwned, ClearedAfter
<1>7. SpinnerOwned'
  BY <1>1, <1>4 DEF SpinnerInv, SpinnerOwned, Busy
<1>8. StartedSpeaksLast'
  BY <1>1, <1>2, <1>3 DEF SpinnerInv, StartedSpeaksLast, LastWord, Speaks, svc
<1> QED
  BY <1>5, <1>6, <1>7, <1>8 DEF SpinnerInv

\* A client goes away: its service counts as abandoned from now on.
LEMMA ClientGoneStep ==
    ASSUME TypeOK, SpinnerInv, NEW r \in Request, ClientGone(r) PROVE SpinnerInv'
<1>1. UNCHANGED <<rows, disk, channel, pc, req, held, orphaned>> /\ pc[r] # "idle"
        /\ cancelled' = [cancelled EXCEPT ![r] = TRUE]
        /\ cancelled \in [Request -> BOOLEAN]
  BY DEF ClientGone, storeVars, orchVars, TypeOK, RecreateTypeOK, Request
<1>2. \A q \in Request : /\ svc(q)' = svc(q)
                         /\ cancelled[q] => cancelled'[q]
                         /\ cancelled'[q] => cancelled[q] \/ q = r
  BY <1>1 DEF svc
<1>3. \A s \in Service : (Busy(s) => Busy(s)') /\ (Abandoned(s) => Abandoned(s)')
  BY <1>1, <1>2 DEF Busy, Abandoned
<1>4. MutexHeld' /\ NotYetCancelled' /\ UnknownIsIdle' /\ KnownOnce'
  BY <1>1, <1>2 DEF SpinnerInv, MutexHeld, NotYetCancelled, UnknownIsIdle, KnownOnce
<1>5. StartsOwned'
  <2>1. \A i \in DOMAIN channel : channel[i].kind = "start" => channel[i].svc \in Service
    BY MessageService DEF TypeOK, StoreTypeOK
  <2> QED
    BY <1>1, <1>3, <2>1 DEF SpinnerInv, StartsOwned, ClearedAfter
<1>6. SpinnerOwned'
  BY <1>1, <1>3 DEF SpinnerInv, SpinnerOwned, Busy
<1>7. StartedSpeaksLast'
  BY <1>1, <1>2 DEF SpinnerInv, StartedSpeaksLast, LastWord, Speaks
<1> QED
  BY <1>4, <1>5, <1>6, <1>7 DEF SpinnerInv

\* A restart: the channel and every request are gone, and a spinner the document
\* on disk had on is an orphan.
LEMMA RestartStep == TypeOK /\ SpinnerInv /\ Restart => SpinnerInv'
<1> SUFFICES ASSUME TypeOK, SpinnerInv, Restart PROVE SpinnerInv'
  OBVIOUS
<1>1. /\ rows' = disk /\ disk' = disk /\ channel' = <<>> /\ cancelled' = cancelled
      /\ orphaned' = {s \in Service : disk[s].inFlight # Idle}
  BY DEF Restart, Reload
<1>2. \A q \in Request : /\ pc'[q] \in {"idle", "done"}
                         /\ pc'[q] = "idle" => pc[q] = "idle"
  BY DEF Restart
<1>3. "idle" \notin Locked /\ "done" \notin Locked /\ Started \subseteq Locked
        /\ PastSnapshot \subseteq Locked
  BY DEF Locked, Started, PastSnapshot
<1>4. MutexHeld' /\ NotYetCancelled' /\ KnownOnce' /\ StartedSpeaksLast'
  BY <1>1, <1>2, <1>3
  DEF SpinnerInv, MutexHeld, NotYetCancelled, KnownOnce, StartedSpeaksLast
<1>5. UnknownIsIdle'
  BY <1>1 DEF SpinnerInv, UnknownIsIdle
<1>6. StartsOwned'
  BY <1>1 DEF StartsOwned
<1>7. SpinnerOwned'
  BY <1>1 DEF SpinnerOwned
<1> QED
  BY <1>4, <1>5, <1>6, <1>7 DEF SpinnerInv

\* Nothing that the invariant looks at changes.
LEMMA ElsewhereStep ==
    ASSUME SpinnerInv, UNCHANGED <<rows, disk, channel, pc, req, held, cancelled, orphaned>>
    PROVE  SpinnerInv'
BY DEF SpinnerInv, MutexHeld, NotYetCancelled, UnknownIsIdle, KnownOnce, StartsOwned,
       SpinnerOwned, StartedSpeaksLast, LastWord, Speaks, ClearedAfter, Busy, Abandoned,
       Clears, svc

\* Every step of the process and of its world preserves the invariant.
LEMMA SpinnerStep == TypeOK /\ SpinnerInv /\ [Next]_vars => SpinnerInv'
<1> SUFFICES ASSUME TypeOK, SpinnerInv, [Next]_vars PROVE SpinnerInv'
  OBVIOUS
<1>1. CASE UNCHANGED vars
  BY <1>1, ElsewhereStep DEF vars, storeVars, recreateVars, orchVars
<1>2. CASE Outside
  BY <1>2, ElsewhereStep DEF Outside, storeVars, recreateVars, orchVars
<1>3. CASE Updater \/ Restart
  BY <1>3, UpdaterStep, RestartStep
<1>4. ASSUME NEW r \in Request, Arrive(r) \/ RequestStep(r) \/ ClientGone(r) PROVE SpinnerInv'
  BY <1>4, ArriveStep, ClientGoneStep, QuietStep, MutexStep, SendStep DEF RequestStep
<1> QED
  BY <1>1, <1>2, <1>3, <1>4 DEF Next

\* A process that has had no request spins nothing.
LEMMA InitSpinner == Init => SpinnerInv
<1> SUFFICES ASSUME Init PROVE SpinnerInv
  OBVIOUS
<1>1. \A r \in Request : pc[r] = "idle" /\ ~cancelled[r]
  BY DEF Init, NoRequestYet, RecreateInit, Request
<1>2. channel = <<>> /\ disk = rows /\ \A s \in Service : rows[s].inFlight = Idle
  BY DEF Init, NoRequestYet, DiscoveredRows, NoRow
<1>3. "idle" \notin Locked /\ Started \subseteq Locked /\ PastSnapshot \subseteq Locked
  BY DEF Locked, Started, PastSnapshot
<1> QED
  BY <1>1, <1>2, <1>3
  DEF SpinnerInv, MutexHeld, NotYetCancelled, UnknownIsIdle, KnownOnce, StartsOwned,
      SpinnerOwned, StartedSpeaksLast

\* The inductive invariant holds throughout.
THEOREM SpinnerInvariant == Spec => []SpinnerInv
BY InitSpinner, SpinnerStep, Types, PTL DEF Spec

\* Update, Rollback, ForcePull: the spinner a row shows always has an owner (a
\* request at work, a result on its way, a client that went away, or a restart).
THEOREM Owned == Spec => []SpinnerOwned
<1>1. SpinnerInv => SpinnerOwned
  BY DEF SpinnerInv
<1> QED
  BY <1>1, SpinnerInvariant, PTL

\* With the channel drained the last word is what the row shows.
LEMMA SpinnerShown == SpinnerInv => SpinnerTruthful
<1> SUFFICES ASSUME SpinnerInv, NEW r \in Request, pc[r] \in Started, ~cancelled[r],
                    ~Pending(svc(r))
             PROVE  rows[svc(r)].inFlight = req[r].op
  BY DEF SpinnerTruthful
<1>1. LastWord(svc(r), req[r].op)
  BY DEF SpinnerInv, StartedSpeaksLast
<1> QED
  BY <1>1 DEF LastWord, Pending

\* While an action runs the row shows it, once the channel is drained: no other
\* action, no discovery event and no late result puts the spinner out.
THEOREM Truthful == Spec => []SpinnerTruthful
BY SpinnerShown, SpinnerInvariant, PTL
=============================================================================
