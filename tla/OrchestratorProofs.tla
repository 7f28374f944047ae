------------------------- MODULE OrchestratorProofs -------------------------
(***************************************************************************)
(* Type correctness of the orchestrator, for every set of services, images *)
(* and requests and every channel capacity.                                *)
(***************************************************************************)
EXTENDS Orchestrator, TLAPS

-----------------------------------------------------------------------------
(* The store.                                                              *)

\* The Apply closure of any message turns a row into a row.
LEMMA ApplyType ==
    ASSUME NEW row \in Row, NEW m \in Message
    PROVE  Apply(row, m) \in Row
<1> USE StoreAssumption DEF Row, Ref
<1>1. CASE m \in StartMsg
  BY <1>1 DEF StartMsg, Apply, ApplyStart
<1>2. CASE m \in ProgressMsg
  BY <1>2 DEF ProgressMsg, Apply
<1>3. CASE m \in SwapMsg
  BY <1>3, ZenonT(40) DEF SwapMsg, Apply, ApplySwap
<1>4. CASE m \in ResultMsg
  BY <1>4 DEF ResultMsg, Apply, ApplyResult
<1>5. CASE m \in PulledMsg
  BY <1>5 DEF PulledMsg, Apply, ApplyPulled
<1>6. CASE m \in FailureMsg
  BY <1>6 DEF FailureMsg, Apply, ApplyFailure
<1>7. CASE m \in UpsertMsg
  BY <1>7 DEF UpsertMsg, Apply, ApplyUpsert, Note
<1>8. CASE m \in StoppedMsg
  BY <1>8 DEF StoppedMsg, Apply, ApplyStopped
<1>9. CASE m \in RemovedMsg
  BY <1>9 DEF RemovedMsg, Apply, ApplyRemoved
<1>10. CASE m \in ResolvedMsg
  BY <1>10, ZenonT(40) DEF ResolvedMsg, Apply, ApplyResolved, ClearStaleNote, ClearStalePull, NoNote, NoError
<1>11. CASE m \in NoteMsg
  BY <1>11 DEF NoteMsg, Apply, ApplyNote
<1>12. CASE m \in SweepMsg
  BY <1>12 DEF SweepMsg, Apply
<1> QED
  BY <1>1, <1>2, <1>3, <1>4, <1>5, <1>6, <1>7, <1>8, <1>9, <1>10, <1>11, <1>12 DEF Message

\* Every message but a sweep's stamp is about a service.
LEMMA MessageService ==
    \A m \in Message : m.kind # "sweep" => m.svc \in Service
BY DEF Message, StartMsg, ProgressMsg, SwapMsg, ResultMsg, PulledMsg, FailureMsg,
       UpsertMsg, StoppedMsg, RemovedMsg, ResolvedMsg, NoteMsg, SweepMsg

\* The consumer keeps the document and the channel well typed.
LEMMA ConsumeType == StoreTypeOK /\ Consume => StoreTypeOK'
<1> SUFFICES ASSUME StoreTypeOK, Consume PROVE StoreTypeOK'
  OBVIOUS
<1> DEFINE m == Head(channel)
<1>1. m \in Message /\ Tail(channel) \in Seq(Message) /\ Len(Tail(channel)) <= ChannelCap
  BY StoreAssumption DEF StoreTypeOK, Consume, Update, Persist
<1>2. \A s \in Service : Apply(rows[s], m) \in Row /\ rows[s] \in Row
  BY <1>1, ApplyType DEF StoreTypeOK
<1>3. rows' = [s \in Service |-> IF s = m.svc THEN Apply(rows[s], m) ELSE rows[s]]
  BY DEF Consume, Update, Persist
<1> HIDE DEF m
<1>5. rows' \in [Service -> Row]
  BY <1>2, <1>3
<1>6. disk' \in [Service -> Row]
  BY <1>5 DEF Consume, Update, Persist, StoreTypeOK
<1> QED
  BY <1>1, <1>5, <1>6 DEF Consume, Update, Persist, StoreTypeOK, m

\* So does a send.
LEMMA PostType ==
    ASSUME StoreTypeOK, NEW m \in Message, Post(m), UNCHANGED <<rows, disk>>
    PROVE  StoreTypeOK'
BY StoreAssumption DEF StoreTypeOK, Post

-----------------------------------------------------------------------------
(* The daemon.                                                             *)

\* Telling the subscriber keeps the event queue well typed.
LEMMA EmitType ==
    ASSUME DaemonTypeOK, NEW s \in Service, NEW type \in {"start", "die", "destroy"},
           Emit(s, type)
    PROVE  events' \in Seq(Event) /\ unheard' \in SUBSET Service
<1> DEFINE ev == [type |-> type, svc |-> s, id |-> container[s].id]
<1>1. ev \in Event
  BY DEF DaemonTypeOK, Event, Container
<1>2. Append(events, ev) \in Seq(Event)
  BY <1>1 DEF DaemonTypeOK
<1>3. events' \in Seq(Event)
  BY <1>2 DEF Emit, DaemonTypeOK
<1> QED
  BY <1>3 DEF Emit, DaemonTypeOK

LEMMA StopContainerType ==
    ASSUME DaemonTypeOK, NEW s \in Service, StopContainer(s) PROVE DaemonTypeOK'
<1>1. events' \in Seq(Event) /\ unheard' \in SUBSET Service
  BY EmitType DEF StopContainer, DaemonTypeOK
<1>2. container[s] \in Container
  BY DEF DaemonTypeOK
<1>3. [container[s] EXCEPT !.status = "exited"] \in Container
  BY <1>2 DEF Container, ContainerState
<1>4. container' = [container EXCEPT ![s] =
                     IF @.status = "running" THEN [@ EXCEPT !.status = "exited"] ELSE @]
  BY <1>2 DEF StopContainer, DaemonTypeOK, Container
<1>5. container' \in [Service -> Container]
  BY <1>2, <1>3, <1>4 DEF DaemonTypeOK
<1> QED
  BY <1>1, <1>5 DEF StopContainer, DaemonTypeOK

LEMMA RemoveContainerType ==
    ASSUME DaemonTypeOK, NEW s \in Service, RemoveContainer(s) PROVE DaemonTypeOK'
<1>1. events' \in Seq(Event) /\ unheard' \in SUBSET Service
  BY EmitType DEF RemoveContainer
<1>2. container' \in [Service -> Container]
  BY ZenonT(40) DEF RemoveContainer, DaemonTypeOK, Container, ContainerState
<1> QED
  BY <1>1, <1>2 DEF RemoveContainer, DaemonTypeOK

LEMMA CreateContainerType ==
    ASSUME DaemonTypeOK, NEW s \in Service, NEW N \in SUBSET Network, NEW A \in SUBSET Nat,
           CreateContainer(s, N, A)
    PROVE  DaemonTypeOK'
<1>1. tagged[ImageOf[s]] \in Digest /\ container[s] \in Container
  BY DaemonAssumption DEF DaemonTypeOK
<1>2. Resolved(s) \in Digest
  BY <1>1 DEF Resolved, Container
<1>3. A \cup {container[s].id + 1} \in SUBSET Nat
  BY <1>1 DEF Container
<1>4. NewContainer(s, N, A) \in Container
  BY <1>1, <1>2, <1>3 DEF NewContainer, Container, ContainerState
<1>5. container' \in [Service -> Container]
  BY <1>4 DEF CreateContainer, DaemonTypeOK
<1> QED
  BY <1>5 DEF CreateContainer, DaemonTypeOK

LEMMA ConnectNetworkType ==
    ASSUME DaemonTypeOK, NEW s \in Service, NEW n \in Network, ConnectNetwork(s, n)
    PROVE  DaemonTypeOK'
<1>1. container' \in [Service -> Container]
  BY DEF ConnectNetwork, DaemonTypeOK, Container
<1> QED
  BY <1>1 DEF ConnectNetwork, DaemonTypeOK

LEMMA StartContainerType ==
    ASSUME DaemonTypeOK, NEW s \in Service, StartContainer(s) PROVE DaemonTypeOK'
<1>1. events' \in Seq(Event) /\ unheard' \in SUBSET Service
  BY EmitType DEF StartContainer
<1>2. container' \in [Service -> Container]
  BY ZenonT(40) DEF StartContainer, DaemonTypeOK, Container, ContainerState
<1>3. container[s].digest \in Digest
  BY DEF DaemonTypeOK, Container
<1>4. ran' \in [Service -> [last : Digest, before : Digest \cup {NoDigest}]]
  BY <1>3 DEF StartContainer, DaemonTypeOK
<1> QED
  BY <1>1, <1>2, <1>4 DEF StartContainer, DaemonTypeOK

LEMMA PullImageType ==
    ASSUME DaemonTypeOK, NEW i \in Image, PullImage(i) PROVE DaemonTypeOK'
BY DEF PullImage, DaemonTypeOK, CacheState

LEMMA TagImageType ==
    ASSUME DaemonTypeOK, NEW i \in Image, NEW ref \in Digest \cup {RepoName}, TagImage(i, ref)
    PROVE  DaemonTypeOK'
<1>1. tagged' \in [Image -> Digest]
  BY DEF TagImage, DaemonTypeOK
<1>2. cache' \in [Image -> [Digest -> CacheState]]
  BY DEF TagImage, DaemonTypeOK, CacheState
<1> QED
  BY <1>1, <1>2 DEF TagImage, DaemonTypeOK

LEMMA CloseStreamType == DaemonTypeOK /\ CloseStream => DaemonTypeOK'
<1> SUFFICES ASSUME DaemonTypeOK, CloseStream PROVE DaemonTypeOK'
  OBVIOUS
<1>1. \A i \in DOMAIN events : events[i].svc \in Service
  <2> TAKE i \in DOMAIN events
  <2>1. events[i] \in Event
    BY DEF DaemonTypeOK
  <2> QED
    BY <2>1 DEF Event
<1>2. {events[i].svc : i \in DOMAIN events} \subseteq Service
  BY <1>1
<1>3. unheard' \in SUBSET Service
  BY <1>2 DEF CloseStream, DaemonTypeOK
<1>4. events' = <<>> /\ <<>> \in Seq(Event) /\ subscribed' = FALSE
  BY DEF CloseStream
<1>5. UNCHANGED <<registry, tagged, cache, container, ran>>
  BY DEF CloseStream
<1> QED
  BY <1>3, <1>4, <1>5 DEF DaemonTypeOK

\* Upstream pushes and prunes.
LEMMA OutsideType ==
    ASSUME DaemonTypeOK, NEW i \in Image, Publish(i) \/ Prune(i) PROVE DaemonTypeOK'
<1>1. CASE Publish(i)
  BY <1>1 DEF Publish, DaemonTypeOK
<1>2. CASE Prune(i)
  <2>1. PICK d \in Digest : cache' = [cache EXCEPT ![i][d] = "absent"]
    BY <1>2 DEF Prune
  <2>2. cache' \in [Image -> [Digest -> CacheState]]
    BY <2>1 DEF DaemonTypeOK, CacheState
  <2> QED
    BY <1>2, <2>2 DEF Prune, DaemonTypeOK
<1> QED
  BY <1>1, <1>2

-----------------------------------------------------------------------------
(* recreate.Service.                                                       *)

\* Translate leaves networks networks and aliases ids.
LEMMA TranslateType ==
    ASSUME NEW N \in SUBSET Network, NEW t \in TranslateNetworks(N)
    PROVE  t.first \in SUBSET Network /\ t.extras \in SUBSET Network
BY DEF TranslateNetworks

LEMMA OldContainerType ==
    ASSUME DaemonTypeOK, NEW s \in Service
    PROVE  container[s].nets \in SUBSET Network /\ ScrubEndpoint(s) \in SUBSET Nat
BY DEF DaemonTypeOK, Container, ScrubEndpoint

\* Every step of recreate.Service, failed calls that acted all the same included,
\* keeps the daemon and the caller's progress well typed.
LEMMA RecreateType ==
    ASSUME DaemonTypeOK, RecreateTypeOK, NEW c \in Caller, NEW s \in Service,
           RecreateStep(c, s)
    PROVE  DaemonTypeOK' /\ RecreateTypeOK'
<1>0. /\ container[s].nets \in SUBSET Network /\ ScrubEndpoint(s) \in SUBSET Nat
      /\ extras[c] \in SUBSET Network
  BY OldContainerType DEF RecreateTypeOK
<1>1. RecreateTypeOK'
  <2>1. step' \in [Caller -> Step] /\ cancelled' \in [Caller -> BOOLEAN]
          /\ leftover' \in SUBSET Service
    BY DEF RecreateStep, ListOld, StopOld, RemoveOld, CreateNew, ConnectNetworks, StartNew,
           CleanupNew, Succeeds, StepTo, RecreateTypeOK, Step
  <2>2. extras' \in [Caller -> SUBSET Network]
    <3>1. CASE CreateNew(c, s)
      <4>1. CASE UNCHANGED extras
        BY <4>1 DEF RecreateTypeOK
      <4>2. ASSUME NEW t \in TranslateNetworks(container[s].nets),
                   extras' = [extras EXCEPT ![c] = t.extras]
            PROVE  extras' \in [Caller -> SUBSET Network]
        BY <1>0, <4>2, TranslateType DEF RecreateTypeOK
      <4> QED
        BY <3>1, <4>1, <4>2 DEF CreateNew
    <3>2. CASE ConnectNetworks(c, s)
      BY <3>2 DEF ConnectNetworks, RecreateTypeOK
    <3>3. CASE UNCHANGED extras
      BY <3>3 DEF RecreateTypeOK
    <3> QED
      BY <3>1, <3>2, <3>3 DEF RecreateStep, ListOld, StopOld, RemoveOld, StartNew, CleanupNew
  <2> QED
    BY <2>1, <2>2 DEF RecreateTypeOK
<1>2. CASE UNCHANGED daemonVars
  BY <1>1, <1>2 DEF daemonVars, DaemonTypeOK
<1>3. CASE StopContainer(s)
  BY <1>1, <1>3, StopContainerType
<1>4. CASE RemoveContainer(s)
  BY <1>1, <1>4, RemoveContainerType
<1>5. ASSUME NEW t \in TranslateNetworks(container[s].nets),
             CreateContainer(s, t.first, ScrubEndpoint(s))
      PROVE  DaemonTypeOK' /\ RecreateTypeOK'
  <2>1. t.first \in SUBSET Network
    BY <1>0, TranslateType
  <2> QED
    BY <1>0, <1>1, <1>5, <2>1, CreateContainerType
<1>6. ASSUME NEW n \in extras[c], ConnectNetwork(s, n)
      PROVE  DaemonTypeOK' /\ RecreateTypeOK'
  <2>1. n \in Network
    BY <1>0
  <2> QED
    BY <1>1, <1>6, <2>1, ConnectNetworkType
<1>7. CASE StartContainer(s)
  BY <1>1, <1>7, StartContainerType
<1> QED
  BY <1>2, <1>3, <1>4, <1>5, <1>6, <1>7
  DEF RecreateStep, ListOld, StopOld, RemoveOld, CreateNew, ConnectNetworks, StartNew,
      CleanupNew, ActedAnyway

-----------------------------------------------------------------------------
(* The requests.                                                           *)

\* The part of TypeOK about the requests themselves.
RequestTypeOK ==
    /\ pc \in [Request -> PC]
    /\ req \in [Request -> [svc : Service, op : Op]]
    /\ snap \in [Request -> Row]
    /\ target \in [Request -> Ref]
    /\ held \in [Service -> Request \cup {NoOne}]
    /\ stale \in SUBSET Service
    /\ orphaned \in SUBSET Service
    /\ restarts \in Nat

\* The empty row is a row.
LEMMA NoRowType == NoRow \in Row
BY DEF NoRow, Row, Ref

\* A request's service and image exist.
LEMMA RequestService ==
    ASSUME RequestTypeOK, NEW r \in Request
    PROVE  svc(r) \in Service /\ img(r) \in Image /\ req[r].op \in Op
BY DaemonAssumption DEF RequestTypeOK, svc, img

\* Whatever Rollback settles on is a digest or a repository name.
LEMMA TargetsType ==
    ASSUME NEW i \in Image, NEW row \in Row
    PROVE  /\ AnsweredTargets(i, row) \subseteq Ref
           /\ FaultyTargets(i, row) \subseteq Ref
<1>1. NewestFallback(i, row) \subseteq Digest
  BY DEF NewestFallback, FallbackCandidates
<1>2. row.previous \in Ref
  BY DEF Row
<1> QED
  BY <1>1, <1>2 DEF AnsweredTargets, FaultyTargets, Ref

\* The previous digest that a swap records is one too.
LEMMA PreviousType ==
    ASSUME NEW op, NEW row \in Row, NEW digest \in Ref
    PROVE  PreviousToRecord(op, row, digest) \in Ref
BY DEF PreviousToRecord, Row, Ref

\* A send of a well-typed message, queued or dropped.
LEMMA SendType ==
    ASSUME TypeOK, NEW r \in Request, NEW from \in PC, NEW to \in PC, NEW m \in Message,
           SendAndGoto(r, from, to, m), step' \in [Caller -> Step]
    PROVE  TypeOK'
<1>1. StoreTypeOK'
  BY PostType DEF SendAndGoto, Send, TypeOK, StoreTypeOK
<1>2. DaemonTypeOK' /\ RecreateTypeOK'
  BY DEF SendAndGoto, TypeOK, DaemonTypeOK, daemonVars, RecreateTypeOK
<1>3. RequestTypeOK'
  BY DEF SendAndGoto, Goto, TypeOK, RequestTypeOK
<1> QED
  BY <1>1, <1>2, <1>3 DEF TypeOK, RequestTypeOK

\* A step that leaves store, daemon and recreate alone.
LEMMA QuietType ==
    ASSUME TypeOK, UNCHANGED <<storeVars, daemonVars, recreateVars>>, RequestTypeOK'
    PROVE  TypeOK'
BY DEF TypeOK, RequestTypeOK, storeVars, daemonVars, recreateVars, StoreTypeOK, DaemonTypeOK,
       RecreateTypeOK

\* The steps of a request that only move it on, or read.
LEMMA QuietStepType ==
    ASSUME TypeOK, NEW r \in Request,
           Arrive(r) \/ ComposeFileMoved(r) \/ LockService(r) \/ Snapshot(r)
             \/ ChooseRollbackTarget(r) \/ CrossCheck(r) \/ VerifyNew(r) \/ Unlock(r)
    PROVE  TypeOK'
<1>0. RequestTypeOK /\ svc(r) \in Service /\ img(r) \in Image
  BY RequestService DEF TypeOK, RequestTypeOK
<1> USE DEF RequestTypeOK, Goto, PC
<1>1. CASE Arrive(r)
  <2>1. PICK s \in Service, op \in Op : req' = [req EXCEPT ![r] = [svc |-> s, op |-> op]]
    BY <1>1 DEF Arrive
  <2>2. RequestTypeOK'
    BY <1>0, <1>1, <2>1 DEF Arrive
  <2> QED
    BY <1>1, <2>2, QuietType DEF Arrive
<1>2. CASE ComposeFileMoved(r)
  <2>1. RequestTypeOK'
    BY <1>0, <1>2 DEF ComposeFileMoved
  <2> QED
    BY <1>2, <2>1, QuietType DEF ComposeFileMoved
<1>3. CASE LockService(r)
  <2>1. RequestTypeOK'
    BY <1>0, <1>3 DEF LockService
  <2> QED
    BY <1>3, <2>1, QuietType DEF LockService
<1>4. CASE Snapshot(r)
  <2>1. rows[svc(r)] \in Row
    BY <1>0 DEF TypeOK, StoreTypeOK
  <2>2. pc' \in [Request -> PC]
    BY <1>0, <1>4 DEF Snapshot, TypeOK, Op
  <2>3. RequestTypeOK'
    BY <1>0, <1>4, <2>1, <2>2 DEF Snapshot
  <2> QED
    BY <1>4, <2>3, QuietType DEF Snapshot
<1>5. CASE ChooseRollbackTarget(r)
  <2>1. snap[r] \in Row
    BY <1>0
  <2>2. target' \in [Request -> Ref]
    BY <1>0, <1>5, <2>1, TargetsType DEF ChooseRollbackTarget, Acceptable
  <2>3. RequestTypeOK'
    BY <1>0, <1>5, <2>2 DEF ChooseRollbackTarget
  <2> QED
    BY <1>5, <2>3, QuietType DEF ChooseRollbackTarget
<1>6. CASE CrossCheck(r)
  <2>1. RequestTypeOK'
    BY <1>0, <1>6 DEF CrossCheck
  <2> QED
    BY <1>6, <2>1, QuietType DEF CrossCheck
<1>7. CASE VerifyNew(r)
  <2>1. RequestTypeOK'
    BY <1>0, <1>7 DEF VerifyNew
  <2> QED
    BY <1>7, <2>1, QuietType DEF VerifyNew
<1>8. CASE Unlock(r)
  <2>1. RequestTypeOK'
    BY <1>0, <1>8, NoRowType DEF Unlock, Ref
  <2> QED
    BY <1>8, <2>1, QuietType DEF Unlock
<1> QED
  BY <1>1, <1>2, <1>3, <1>4, <1>5, <1>6, <1>7, <1>8

\* The steps of a request that send.
LEMMA SendStepType ==
    ASSUME TypeOK, NEW r \in Request,
           SendStart(r) \/ SendProgress(r) \/ SendSwap(r) \/ SendResult(r) \/ SendFailure(r)
    PROVE  TypeOK'
<1>0. RequestTypeOK /\ svc(r) \in Service /\ req[r].op \in Op /\ step \in [Caller -> Step]
        /\ target[r] \in Ref /\ snap[r] \in Row
  BY RequestService DEF TypeOK, RequestTypeOK, RecreateTypeOK
<1>1. CASE SendStart(r)
  <2>1. [kind |-> "start", svc |-> svc(r), op |-> req[r].op] \in Message
    BY <1>0 DEF Message, StartMsg
  <2> QED
    BY <1>0, <1>1, <2>1, SendType DEF SendStart, PC
<1>2. CASE SendProgress(r)
  <2>1. [kind |-> "progress", svc |-> svc(r)] \in Message
    BY <1>0 DEF Message, ProgressMsg
  <2>2. step' \in [Caller -> Step]
    BY <1>0, <1>2 DEF SendProgress, Step, Request
  <2> QED
    BY <1>2, <2>1, <2>2, SendType DEF SendProgress, PC
<1>3. CASE SendSwap(r)
  <2> DEFINE m == [kind |-> "swap", svc |-> svc(r), op |-> req[r].op, digest |-> target[r],
                   prev |-> PreviousToRecord(req[r].op, snap[r], target[r])]
  <2>1. m \in Message
    BY <1>0, PreviousType DEF Message, SwapMsg
  <2> HIDE DEF m
  <2>2. SendAndGoto(r, "swap", "verify", m) /\ UNCHANGED step
    BY <1>3 DEF SendSwap, m
  <2> QED
    BY <1>0, <2>1, <2>2, SendType DEF PC
<1>4. CASE SendResult(r)
  <2> DEFINE m == IF req[r].op = "force_pulling"
                  THEN [kind |-> "pulled", svc |-> svc(r), digest |-> target[r]]
                  ELSE [kind |-> "result", svc |-> svc(r)]
  <2>1. m \in Message
    BY <1>0 DEF Message, PulledMsg, ResultMsg
  <2> HIDE DEF m
  <2>2. SendAndGoto(r, "result", "unlock", m) /\ UNCHANGED step
    BY <1>4 DEF SendResult, m
  <2> QED
    BY <1>0, <2>1, <2>2, SendType DEF PC
<1>5. CASE SendFailure(r)
  <2> DEFINE From(phase) == CASE phase = "pull" -> "pull_failed"
                              [] phase = "compose" -> "compose_failed"
                              [] phase = "verify" -> "verify_failed"
             m(phase) == [kind |-> "failure", svc |-> svc(r), phase |-> phase]
  <2>1. PICK phase \in Phase : SendAndGoto(r, From(phase), "unlock", m(phase))
    BY <1>5 DEF SendFailure
  <2>2. m(phase) \in Message /\ From(phase) \in PC
    BY <1>0 DEF Message, FailureMsg, Phase, PC
  <2>3. step' \in [Caller -> Step]
    BY <1>0, <1>5 DEF SendFailure
  <2> HIDE DEF From, m
  <2> QED
    BY <2>1, <2>2, <2>3, SendType DEF PC
<1> QED
  BY <1>1, <1>2, <1>3, <1>4, <1>5

\* The steps of a request that talk to the daemon.
LEMMA DaemonStepType ==
    ASSUME TypeOK, NEW r \in Request,
           Pull(r) \/ Retag(r) \/ RecreateService(r) \/ RecreateReturns(r)
    PROVE  TypeOK'
<1>0. /\ RequestTypeOK /\ DaemonTypeOK /\ RecreateTypeOK /\ StoreTypeOK
      /\ svc(r) \in Service /\ img(r) \in Image
  BY RequestService DEF TypeOK, RequestTypeOK
<1>1. CASE Pull(r)
  <2>1. DaemonTypeOK'
    <3>1. CASE PullImage(img(r))
      BY <1>0, <3>1, PullImageType
    <3>2. CASE UNCHANGED daemonVars
      BY <1>0, <3>2 DEF daemonVars, DaemonTypeOK
    <3> QED
      BY <1>1, <3>1, <3>2 DEF Pull
  <2>2. registry[img(r)] \in Ref
    BY <1>0 DEF DaemonTypeOK, Ref
  <2>3. RequestTypeOK'
    BY <1>0, <1>1, <2>2 DEF Pull, DrainPullStream, RequestTypeOK, Goto, PC
  <2> QED
    BY <1>0, <1>1, <2>1, <2>3
    DEF Pull, TypeOK, RequestTypeOK, storeVars, recreateVars, StoreTypeOK, RecreateTypeOK
<1>2. CASE Retag(r)
  <2>1. DaemonTypeOK'
    <3>1. CASE Inspectable(img(r), target[r]) /\ TagImage(img(r), target[r])
      <4>1. target[r] \in Digest \cup {RepoName}
        BY <3>1 DEF Inspectable
      <4> QED
        BY <1>0, <3>1, <4>1, TagImageType
    <3>2. CASE UNCHANGED daemonVars
      BY <1>0, <3>2 DEF daemonVars, DaemonTypeOK
    <3> QED
      BY <1>2, <3>1, <3>2 DEF Retag, ActedAnyway
  <2>2. RequestTypeOK'
    BY <1>0, <1>2 DEF Retag, RequestTypeOK, Goto, PC
  <2> QED
    BY <1>0, <1>2, <2>1, <2>2
    DEF Retag, TypeOK, RequestTypeOK, storeVars, recreateVars, StoreTypeOK, RecreateTypeOK
<1>3. CASE RecreateService(r)
  <2>1. DaemonTypeOK' /\ RecreateTypeOK'
    BY <1>0, <1>3, RecreateType DEF RecreateService, Request
  <2>2. RequestTypeOK'
    BY <1>0, <1>3 DEF RecreateService, RequestTypeOK, orchVars
  <2> QED
    BY <1>0, <1>3, <2>1, <2>2 DEF RecreateService, TypeOK, RequestTypeOK, storeVars, StoreTypeOK
<1>4. CASE RecreateReturns(r)
  <2>1. RequestTypeOK'
    BY <1>0, <1>4 DEF RecreateReturns, RequestTypeOK, Goto, PC
  <2>2. RecreateTypeOK'
    BY <1>0, <1>4 DEF RecreateReturns, RecreateTypeOK, Step, Request
  <2>3. DaemonTypeOK' /\ StoreTypeOK'
    BY <1>0, <1>4 DEF RecreateReturns, daemonVars, DaemonTypeOK, storeVars, StoreTypeOK
  <2> QED
    BY <2>1, <2>2, <2>3 DEF TypeOK, RequestTypeOK
<1> QED
  BY <1>1, <1>2, <1>3, <1>4

\* The client, the consumer, a restart and the world outside.
LEMMA EnvironmentType ==
    ASSUME TypeOK, (\E r \in Request : ClientGone(r)) \/ Updater \/ Restart \/ Outside
    PROVE  TypeOK'
<1>0. RequestTypeOK /\ DaemonTypeOK /\ RecreateTypeOK /\ StoreTypeOK
  BY DEF TypeOK, RequestTypeOK
<1>1. ASSUME NEW r \in Request, ClientGone(r) PROVE TypeOK'
  <2>1. RecreateTypeOK'
    BY <1>0, <1>1 DEF ClientGone, RecreateTypeOK, Request
  <2>2. RequestTypeOK' /\ DaemonTypeOK' /\ StoreTypeOK'
    BY <1>0, <1>1 DEF ClientGone, orchVars, RequestTypeOK, daemonVars, DaemonTypeOK, storeVars,
                      StoreTypeOK
  <2> QED
    BY <2>1, <2>2 DEF TypeOK, RequestTypeOK
<1>2. CASE Updater
  <2>1. StoreTypeOK'
    BY <1>0, <1>2, ConsumeType DEF Updater
  <2>2. RequestTypeOK' /\ DaemonTypeOK' /\ RecreateTypeOK'
    BY <1>0, <1>2 DEF Updater, RequestTypeOK, daemonVars, DaemonTypeOK, recreateVars,
                      RecreateTypeOK
  <2> QED
    BY <2>1, <2>2 DEF TypeOK, RequestTypeOK
<1>3. CASE Restart
  <2>1. StoreTypeOK'
    BY <1>0, <1>3, StoreAssumption DEF Restart, Reload, StoreTypeOK
  <2>2. DaemonTypeOK'
    BY <1>0, <1>3, CloseStreamType DEF Restart
  <2>3. RecreateTypeOK'
    BY <1>0, <1>3 DEF Restart, RecreateTypeOK, Step, Request
  <2>4. RequestTypeOK'
    BY <1>0, <1>3, NoRowType DEF Restart, RequestTypeOK, PC, Ref
  <2> QED
    BY <2>1, <2>2, <2>3, <2>4 DEF TypeOK, RequestTypeOK
<1>4. CASE Outside
  <2>1. DaemonTypeOK'
    BY <1>0, <1>4, OutsideType DEF Outside
  <2>2. RequestTypeOK' /\ StoreTypeOK' /\ RecreateTypeOK'
    BY <1>0, <1>4 DEF Outside, orchVars, RequestTypeOK, storeVars, StoreTypeOK, recreateVars,
                      RecreateTypeOK
  <2> QED
    BY <2>1, <2>2 DEF TypeOK, RequestTypeOK
<1> QED
  BY <1>1, <1>2, <1>3, <1>4

\* Every step of the process and of its world keeps the types.
LEMMA TypeStep == TypeOK /\ [Next]_vars => TypeOK'
<1> SUFFICES ASSUME TypeOK, [Next]_vars PROVE TypeOK'
  OBVIOUS
<1>1. CASE UNCHANGED vars
  <2>1. UNCHANGED <<storeVars, daemonVars, recreateVars>> /\ UNCHANGED orchVars
    BY <1>1 DEF vars
  <2>2. RequestTypeOK'
    BY <2>1 DEF orchVars, TypeOK, RequestTypeOK
  <2> QED
    BY <2>1, <2>2, QuietType
<1>2. CASE Next
  BY <1>2, QuietStepType, SendStepType, DaemonStepType, EnvironmentType
  DEF Next, RequestStep
<1> QED
  BY <1>1, <1>2

\* The containers a process finds when it starts.
LEMMA BootDaemonType == NoRequestYet => DaemonTypeOK
<1> SUFFICES ASSUME NoRequestYet PROVE DaemonTypeOK
  OBVIOUS
<1>1. /\ registry \in [Image -> Digest] /\ tagged \in [Image -> Digest]
      /\ cache \in [Image -> [Digest -> CacheState]]
  BY DEF NoRequestYet, DaemonInit, CacheState
<1>2. \A s \in Service : tagged[ImageOf[s]] \in Digest
  BY <1>1, DaemonAssumption
<1>3. container \in [Service -> Container]
  <2>1. PICK config \in [Service -> Configs] :
          container = [s \in Service |-> [status |-> "running",
                                          digest |-> tagged[ImageOf[s]], id |-> 1,
                                          nets |-> config[s].nets, aliases |-> {1},
                                          config |-> config[s]]]
    BY DEF NoRequestYet, DaemonInit
  <2>2. \A s \in Service : config[s] \in Configs /\ config[s].nets \in SUBSET Network
    BY DaemonAssumption DEF Config
  <2>3. {1} \in SUBSET Nat
    OBVIOUS
  <2> QED
    BY <1>2, <2>1, <2>2, <2>3 DEF Container, ContainerState
<1>4. ran \in [Service -> [last : Digest, before : Digest \cup {NoDigest}]]
  BY <1>2 DEF NoRequestYet, DaemonInit
<1>5. subscribed \in BOOLEAN /\ events \in Seq(Event) /\ unheard \in SUBSET Service
  <2>1. subscribed = FALSE /\ events = <<>> /\ unheard = {}
    BY DEF NoRequestYet, DaemonInit
  <2>2. subscribed \in BOOLEAN
    BY <2>1
  <2>3. events \in Seq(Event)
    BY <2>1
  <2>4. unheard \in SUBSET Service
    BY <2>1
  <2> QED
    BY <2>2, <2>3, <2>4
<1> QED
  BY <1>1, <1>3, <1>4, <1>5 DEF DaemonTypeOK

\* The process starts well typed, whatever document it finds.
LEMMA BootType ==
    ASSUME NoRequestYet, rows \in [Service -> Row], disk = rows, orphaned \in SUBSET Service
    PROVE  TypeOK
<1>1. DaemonTypeOK
  BY BootDaemonType
<1>2. RecreateTypeOK
  BY DEF NoRequestYet, RecreateInit, RecreateTypeOK, Step
<1>3. StoreTypeOK
  BY StoreAssumption DEF NoRequestYet, StoreTypeOK
<1>4. RequestTypeOK
  <2>1. (CHOOSE s \in Service : TRUE) \in Service
    BY OrchestratorAssumption
  <2> QED
    BY <2>1, NoRowType DEF NoRequestYet, RequestTypeOK, PC, Op, Ref
<1> QED
  BY <1>1, <1>2, <1>3, <1>4 DEF TypeOK, RequestTypeOK

\* The document discovery left is one.
LEMMA InitType == Init => TypeOK
<1> SUFFICES ASSUME Init PROVE TypeOK
  OBVIOUS
<1>1. DaemonTypeOK
  BY BootDaemonType DEF Init
<1>2. rows \in [Service -> Row]
  <2>1. \A s \in Service : container[s].digest \in Digest /\ container[s].id \in Nat
    BY <1>1 DEF DaemonTypeOK, Container
  <2>2. \A d \in Digest : BuiltAt[d] \in Nat
    BY DaemonAssumption
  <2>3. \A s \in Service : /\ container[s].config.pinned \in BOOLEAN
                           /\ container[s].config.blocked \in SUBSET Op
    BY <1>1, DaemonAssumption DEF DaemonTypeOK, Container, Config, Op
  <2> QED
    BY <2>1, <2>2, <2>3, ZenonT(40) DEF Init, DiscoveredRows, NoRow, Row, Ref
<1> QED
  BY <1>2, BootType DEF Init

\* Type correctness of the whole orchestrator: whatever requests arrive, fail, are
\* cancelled or killed, every row, message, event and request stays well formed.
THEOREM Types == Spec => []TypeOK
BY InitType, TypeStep, PTL DEF Spec
=============================================================================
