-------------------------- MODULE ContainerProofs --------------------------
(***************************************************************************)
(* What a recreate leaves behind, for every set of services, networks and  *)
(* requests: the container that runs is attached where its predecessor     *)
(* was, runs the digest its row calls current, and the row's previous      *)
(* digest is the one that ran before.                                      *)
(***************************************************************************)
EXTENDS SpinnerProofs

-----------------------------------------------------------------------------
(* One caller of recreate.Service at a time.                               *)

\* recreate.Service runs only while its request is at that point of the action.
StepsInRecreate == \A r \in Request : step[r] # "idle" => pc[r] = "recreate"

\* Nobody else recreates the service of a request that does.
LEMMA OneRecreates ==
    ASSUME MutexHeld, StepsInRecreate, NEW r \in Request, pc[r] \in Locked,
           NEW q \in Request, q # r, svc(q) = svc(r)
    PROVE  step[q] = "idle" /\ pc[q] \notin Locked
BY DEF MutexHeld, StepsInRecreate, Locked, Started

-----------------------------------------------------------------------------
(* The networks.                                                           *)

Attached(s) == container[s].nets = container[s].config.nets

\* Where recreate.Service is on its way decides what is attached: everything, but
\* for the networks still to be connected and for a container to be cleaned up.
NetsOK(s) ==
    /\ container[s].aliases \subseteq {container[s].id}
    /\ \A r \in Request : svc(r) = s =>
         /\ step[r] \in {"stop", "remove", "create", "start", "ok"} => Attached(s)
         /\ step[r] = "connect" => container[s].nets \cup extras[r] = container[s].config.nets
    /\ \/ container[s].status = "absent"
       \/ Attached(s)
       \/ \E r \in Request : svc(r) = s /\ step[r] \in {"connect", "cleanup"}

NetworkInv ==
    /\ StepsInRecreate
    /\ \A s \in Service \ leftover : Undisturbed(s) => NetsOK(s)

\* No step of a request changes its own context, its service or the count of restarts.
LEMMA SameContext ==
    ASSUME NEW r \in Request, RequestStep(r)
    PROVE  UNCHANGED <<cancelled, req, restarts, orphaned>>
<1>1. CASE RecreateService(r)
  BY <1>1 DEF RecreateService, RecreateStep, ListOld, StopOld, RemoveOld, CreateNew,
              ConnectNetworks, StartNew, CleanupNew, Succeeds, StepTo, orchVars
<1>2. CASE ~RecreateService(r)
  BY <1>2 DEF RequestStep, ComposeFileMoved, LockService, Snapshot, ChooseRollbackTarget,
              SendStart, SendAndGoto, Pull, CrossCheck, Retag, SendProgress, RecreateReturns,
              SendSwap, VerifyNew, SendResult, SendFailure, Unlock, recreateVars
<1> QED
  BY <1>1, <1>2

\* What disturbed a service stays: clients do not come back, restarts are counted,
\* and a request is not reused.
LEMMA UndisturbedBefore ==
    ASSUME TypeOK, SpinnerInv, [Next]_vars
    PROVE  \A s \in Service : Undisturbed(s)' => Undisturbed(s)
<1>1. \A q \in Request : cancelled[q] => cancelled'[q] /\ req'[q] = req[q]
  <2>1. CASE UNCHANGED vars
    BY <2>1 DEF vars, recreateVars, orchVars
  <2>2. CASE Updater \/ Restart \/ Outside
    BY <2>2 DEF Updater, Restart, Outside, recreateVars, orchVars
  <2>3. ASSUME NEW r \in Request, Arrive(r)
        PROVE  \A q \in Request : cancelled[q] => cancelled'[q] /\ req'[q] = req[q]
    <3>1. ~cancelled[r] /\ UNCHANGED cancelled /\ req \in [Request -> [svc : Service, op : Op]]
      BY <2>3 DEF Arrive, Goto, SpinnerInv, NotYetCancelled, recreateVars, TypeOK
    <3> QED
      BY <2>3, <3>1 DEF Arrive
  <2>4. ASSUME NEW r \in Request, ClientGone(r)
        PROVE  \A q \in Request : cancelled[q] => cancelled'[q] /\ req'[q] = req[q]
    BY <2>4 DEF ClientGone, orchVars, TypeOK, RecreateTypeOK, Request
  <2>5. ASSUME NEW r \in Request, RequestStep(r) PROVE UNCHANGED <<cancelled, req>>
    BY <2>5, SameContext
  <2> QED
    BY <2>1, <2>2, <2>3, <2>4, <2>5 DEF Next
<1>2. restarts' = 0 => restarts = 0
  <2>1. restarts \in Nat
    BY DEF TypeOK
  <2>2. CASE Restart
    BY <2>1, <2>2 DEF Restart
  <2>3. CASE UNCHANGED vars \/ Updater \/ Outside
    BY <2>3 DEF vars, orchVars, Updater, Outside
  <2>4. ASSUME NEW r \in Request, Arrive(r) \/ ClientGone(r) PROVE UNCHANGED restarts
    BY <2>4 DEF Arrive, ClientGone, orchVars
  <2>5. ASSUME NEW r \in Request, RequestStep(r) PROVE UNCHANGED restarts
    BY <2>5, SameContext
  <2> QED
    BY <2>2, <2>3, <2>4, <2>5 DEF Next
<1> QED
  BY <1>1, <1>2 DEF Undisturbed, Abandoned, svc

\* The states of recreate.Service in which the networks are not what they were.
Delicate == {"stop", "remove", "create", "start", "ok", "connect", "cleanup"}

\* A step that leaves the containers' networks and what recreate.Service does
\* with them alone.
LEMMA NetworkFrame ==
    ASSUME NetworkInv, StepsInRecreate', leftover \subseteq leftover',
           \A s \in Service : Undisturbed(s)' => Undisturbed(s),
           \A s \in Service :
              /\ container'[s].nets = container[s].nets
              /\ container'[s].aliases = container[s].aliases
              /\ container'[s].id = container[s].id
              /\ container'[s].config = container[s].config
              /\ container'[s].status # "absent" => container[s].status # "absent",
           \A q \in Request :
              (step'[q] \in Delicate \/ step[q] \in {"connect", "cleanup"}) =>
                 step'[q] = step[q] /\ extras'[q] = extras[q] /\ svc(q)' = svc(q)
    PROVE  NetworkInv'
<1> SUFFICES ASSUME NEW s \in Service \ leftover, Undisturbed(s)' PROVE NetsOK(s)'
  BY DEF NetworkInv
<1>1. NetsOK(s)
  BY DEF NetworkInv
<1>2. Attached(s)' <=> Attached(s)
  BY DEF Attached
<1>3. container'[s].aliases \subseteq {container'[s].id}
  BY <1>1 DEF NetsOK
<1>4. ASSUME NEW r \in Request, svc(r)' = s
      PROVE  /\ step'[r] \in {"stop", "remove", "create", "start", "ok"} => Attached(s)'
             /\ step'[r] = "connect" => container'[s].nets \cup extras'[r] = container'[s].config.nets
  BY <1>1, <1>2, <1>4 DEF NetsOK, Delicate
<1>5. \/ container'[s].status = "absent"
      \/ Attached(s)'
      \/ \E r \in Request : svc(r)' = s /\ step'[r] \in {"connect", "cleanup"}
  BY <1>1, <1>2 DEF NetsOK
<1> QED
  BY <1>3, <1>4, <1>5 DEF NetsOK

\* recreate.Service keeps the networks: what Translate sets apart for later is
\* connected before the start, and a container that misses some is taken away.
LEMMA NetworkRecreate ==
    ASSUME TypeOK, SpinnerInv, NetworkInv, NEW r \in Request, RecreateService(r)
    PROVE  NetworkInv'
<1> DEFINE c == svc(r)
<1>0. /\ c \in Service /\ pc[r] = "recreate" /\ pc[r] \in Locked
      /\ container \in [Service -> Container] /\ step \in [Request -> Step]
      /\ extras \in [Request -> SUBSET Network] /\ cancelled \in [Request -> BOOLEAN]
  BY RequestService
  DEF TypeOK, RequestTypeOK, DaemonTypeOK, RecreateTypeOK, RecreateService, Locked, Started, Request
<1>1. UNCHANGED <<cancelled, req, pc, held, restarts>>
  BY SameContext DEF RequestStep, RecreateService, orchVars
<1>2. \A q \in Request : /\ svc(q)' = svc(q)
                         /\ q # r => step'[q] = step[q] /\ extras'[q] = extras[q]
                         /\ q # r /\ svc(q) = c => step[q] = "idle"
  <2>1. \A q \in Request : q # r /\ svc(q) = c => step[q] = "idle"
    BY <1>0, OneRecreates DEF SpinnerInv, NetworkInv
  <2>2. \A q \in Request : q # r => step'[q] = step[q] /\ extras'[q] = extras[q]
    BY <1>0 DEF RecreateService, RecreateStep, ListOld, StopOld, RemoveOld, CreateNew,
                ConnectNetworks, StartNew, CleanupNew, Succeeds, StepTo
  <2> QED
    BY <1>1, <2>1, <2>2 DEF svc
<1>3. \A s \in Service : s # c => container'[s] = container[s]
  BY <1>0 DEF RecreateService, RecreateStep, ListOld, StopOld, RemoveOld, CreateNew,
              ConnectNetworks, StartNew, CleanupNew, ActedAnyway, StopContainer, RemoveContainer,
              CreateContainer, ConnectNetwork, StartContainer, daemonVars
<1>4. leftover \subseteq leftover' /\ leftover' \subseteq leftover \cup {c}
  BY DEF RecreateService, RecreateStep, CleanupNew
<1>5. StepsInRecreate'
  BY <1>0, <1>1, <1>2 DEF NetworkInv, StepsInRecreate
<1>6. \A s \in Service : Undisturbed(s)' <=> Undisturbed(s)
  BY <1>1, <1>2 DEF Undisturbed, Abandoned
<1>7. ASSUME NEW s \in Service \ leftover', s # c, Undisturbed(s)' PROVE NetsOK(s)'
  <2>1. NetsOK(s)
    BY <1>4, <1>6, <1>7 DEF NetworkInv
  <2>2. \A q \in Request : svc(q) = s => step'[q] = step[q] /\ extras'[q] = extras[q]
    BY <1>2, <1>7
  <2> QED
    BY <1>2, <1>3, <1>7, <2>1, <2>2 DEF NetsOK, Attached
<1>8. ASSUME NEW s \in Service \ leftover', s = c, Undisturbed(s)' PROVE NetsOK(s)'
  <2>0. NetsOK(s) /\ ~cancelled[r]
    BY <1>0, <1>4, <1>6, <1>8 DEF NetworkInv, Undisturbed, Abandoned
  <2>1. /\ container[s] \in Container /\ RecreateStep(r, s)
        /\ svc(r) = s /\ svc(r)' = s
    BY <1>0, <1>2, <1>8 DEF RecreateService
  <2> HIDE DEF c
  <2> SUFFICES /\ container'[s].aliases \subseteq {container'[s].id}
               /\ step'[r] \in {"stop", "remove", "create", "start", "ok"} => Attached(s)'
               /\ step'[r] = "connect" =>
                    container'[s].nets \cup extras'[r] = container'[s].config.nets
               /\ \/ container'[s].status = "absent"
                  \/ Attached(s)'
                  \/ step'[r] \in {"connect", "cleanup"}
    <3>1. \A q \in Request : svc(q)' = s /\ q # r => step'[q] = "idle"
      BY <1>2, <1>8
    <3> QED
      BY <2>1, <3>1 DEF NetsOK
  <2>n. /\ step[r] \in {"stop", "remove", "create", "start", "ok"} => Attached(s)
        /\ step[r] = "connect" => container[s].nets \cup extras[r] = container[s].config.nets
        /\ container[s].aliases \subseteq {container[s].id}
        /\ step[r] \notin {"connect", "cleanup"} => container[s].status = "absent" \/ Attached(s)
    <3>1. \A q \in Request : svc(q) = s /\ q # r => step[q] = "idle"
      BY <1>2, <1>8
    <3> QED
      BY <2>0, <2>1, <3>1 DEF NetsOK
  <2> USE <1>0, <2>0, <2>1, <2>n DEF Attached, Succeeds, StepTo, ActedAnyway, Container
  <2>2. CASE ListOld(r, s)
    BY <2>2 DEF ListOld, daemonVars
  <2>3. CASE StopOld(r, s)
    <3>1. ASSUME StopContainer(s)
          PROVE  /\ container'[s].aliases = container[s].aliases
                 /\ container'[s].id = container[s].id
                 /\ container'[s].nets = container[s].nets
                 /\ container'[s].config = container[s].config
                 /\ container[s].status = "absent" => container'[s].status = "absent"
      BY <3>1 DEF StopContainer
    <3>2. step[r] = "stop" /\ step'[r] \in {"remove", "err"}
      BY <2>3 DEF StopOld
    <3>3. StopContainer(s) \/ UNCHANGED container
      BY <2>3 DEF StopOld, daemonVars
    <3> QED
      BY <3>1, <3>2, <3>3
  <2>4. CASE RemoveOld(r, s)
    <3>1. ASSUME RemoveContainer(s)
          PROVE  /\ container'[s].aliases = container[s].aliases
                 /\ container'[s].id = container[s].id
                 /\ container'[s].nets = container[s].nets
                 /\ container'[s].config = container[s].config
                 /\ container'[s].status = "absent"
      BY <3>1 DEF RemoveContainer
    <3>2. step[r] = "remove" /\ step'[r] \in {"create", "err"}
      BY <2>4 DEF RemoveOld
    <3>3. RemoveContainer(s) \/ UNCHANGED container
      BY <2>4 DEF RemoveOld, daemonVars
    <3> QED
      BY <3>1, <3>2, <3>3
  <2>5. CASE CreateNew(r, s)
    <3>1. CASE UNCHANGED container /\ StepTo(r, "create", "err")
      BY <3>1
    <3>2. CASE ~(UNCHANGED container /\ StepTo(r, "create", "err"))
      <4>1. PICK t \in TranslateNetworks(container[s].nets) :
              /\ Succeeds(r, "create", IF t.extras = {} THEN "start" ELSE "connect")
              /\ CreateContainer(s, t.first, ScrubEndpoint(s))
              /\ extras' = [extras EXCEPT ![r] = t.extras]
        BY <2>5, <3>2 DEF CreateNew, daemonVars
      <4>2. t.first \cup t.extras = container[s].nets
        BY DEF TranslateNetworks
      <4>3. step[r] = "create" /\ step'[r] = IF t.extras = {} THEN "start" ELSE "connect"
        BY <4>1
      <4>4. container'[s] = NewContainer(s, t.first, ScrubEndpoint(s))
        BY <4>1 DEF CreateContainer
      <4>5. ScrubEndpoint(s) = {}
        BY DEF ScrubEndpoint
      <4>6. /\ container'[s].nets = t.first
            /\ container'[s].config = container[s].config
            /\ container'[s].id = container[s].id + 1
            /\ container'[s].aliases = {container[s].id + 1}
        BY <4>4, <4>5 DEF NewContainer
      <4>7. container[s].nets = container[s].config.nets
        BY <4>3
      <4>8. extras'[r] = t.extras
        BY <4>1
      <4> QED
        BY <4>2, <4>3, <4>6, <4>7, <4>8
    <3> QED
      BY <3>1, <3>2
  <2>6. CASE ConnectNetworks(r, s)
    <3>1. PICK n \in extras[r] :
            \/ /\ Succeeds(r, "connect", IF extras[r] = {n} THEN "start" ELSE "connect")
               /\ ConnectNetwork(s, n)
               /\ extras' = [extras EXCEPT ![r] = @ \ {n}]
            \/ /\ StepTo(r, "connect", "cleanup")
               /\ UNCHANGED daemonVars \/ ActedAnyway(r, ConnectNetwork(s, n))
      BY <2>6 DEF ConnectNetworks
    <3>2. CASE StepTo(r, "connect", "cleanup") /\ UNCHANGED daemonVars
      BY <3>2 DEF daemonVars
    <3>3. CASE /\ Succeeds(r, "connect", IF extras[r] = {n} THEN "start" ELSE "connect")
               /\ ConnectNetwork(s, n)
               /\ extras' = [extras EXCEPT ![r] = @ \ {n}]
      <4>1. container'[s] = [container[s] EXCEPT !.nets = @ \cup {n}]
        BY <3>3 DEF ConnectNetwork
      <4>2. extras'[r] = extras[r] \ {n} /\ container[s].nets \cup extras[r] = container[s].config.nets
        BY <3>3
      <4>3. (container[s].nets \cup {n}) \cup extras'[r] = container[s].config.nets
        BY <4>2
      <4>4. step'[r] = IF extras[r] = {n} THEN "start" ELSE "connect"
        BY <3>3
      <4>5. extras[r] = {n} => container[s].nets \cup {n} = container[s].config.nets
        BY <4>2
      <4> QED
        BY <4>1, <4>3, <4>4, <4>5
    <3> QED
      BY <3>1, <3>2, <3>3
  <2>7. CASE StartNew(r, s)
    BY <2>7 DEF StartNew, StartContainer, daemonVars
  <2>8. CASE CleanupNew(r, s)
    BY <2>8, <1>8 DEF CleanupNew, RemoveContainer, daemonVars
  <2> QED
    BY <2>2, <2>3, <2>4, <2>5, <2>6, <2>7, <2>8 DEF RecreateStep
<1> QED
  BY <1>5, <1>7, <1>8 DEF NetworkInv

\* The steps of a request outside recreate.Service leave the containers alone, and
\* what recreate.Service did with them.
LEMMA OutsideRecreate ==
    ASSUME TypeOK, StepsInRecreate, NEW r \in Request, RequestStep(r), ~RecreateService(r)
    PROVE  /\ UNCHANGED <<container, ran, extras, leftover>>
           /\ StepsInRecreate'
           /\ \A q \in Request :
                (step'[q] \in Delicate \/ step[q] \in {"connect", "cleanup"}) => step'[q] = step[q]
<1>0. pc \in [Request -> PC] /\ step \in [Request -> Step]
  BY DEF TypeOK, RecreateTypeOK, Request
<1>1. CASE RecreateReturns(r)
  BY <1>0, <1>1 DEF RecreateReturns, Goto, daemonVars, StepsInRecreate, Delicate
<1>2. CASE SendProgress(r)
  BY <1>0, <1>2 DEF SendProgress, SendAndGoto, Goto, daemonVars, StepsInRecreate, Delicate
<1>3. CASE ~RecreateReturns(r) /\ ~SendProgress(r)
  <2>1. UNCHANGED <<container, ran, extras, leftover, step>>
    BY <1>3 DEF RequestStep, ComposeFileMoved, LockService, Snapshot, ChooseRollbackTarget,
                SendStart, SendAndGoto, Pull, PullImage, CrossCheck, Retag, TagImage,
                ActedAnyway, SendSwap, VerifyNew, SendResult, SendFailure, Unlock,
                recreateVars, daemonVars
  <2>2. pc[r] # "recreate"
    BY <1>3 DEF RequestStep, ComposeFileMoved, LockService, Snapshot, ChooseRollbackTarget,
                SendStart, SendAndGoto, Pull, CrossCheck, Retag, SendSwap, VerifyNew,
                SendResult, SendFailure, Unlock, Goto, Phase
  <2>3. \A q \in Request : q # r => pc'[q] = pc[q]
    BY <1>0, <1>3 DEF RequestStep, ComposeFileMoved, LockService, Snapshot,
                ChooseRollbackTarget, SendStart, SendAndGoto, Pull, CrossCheck, Retag, SendSwap,
                VerifyNew, SendResult, SendFailure, Unlock, Goto
  <2> QED
    BY <2>1, <2>2, <2>3 DEF StepsInRecreate
<1> QED
  BY <1>1, <1>2, <1>3

\* Every step keeps the networks.
LEMMA NetworkStep == TypeOK /\ SpinnerInv /\ NetworkInv /\ [Next]_vars => NetworkInv'
<1> SUFFICES ASSUME TypeOK, SpinnerInv, NetworkInv, [Next]_vars PROVE NetworkInv'
  OBVIOUS
<1>0. /\ \A s \in Service : Undisturbed(s)' => Undisturbed(s)
      /\ pc \in [Request -> PC]
      /\ \A q \in Request : step[q] # "idle" => pc[q] = "recreate"
  BY UndisturbedBefore DEF TypeOK, NetworkInv, StepsInRecreate
<1>1. CASE UNCHANGED vars \/ Updater \/ Outside
  <2>1. UNCHANGED <<container, step, extras, leftover, pc, req>>
    BY <1>1 DEF vars, Updater, Outside, Publish, Prune, daemonVars, recreateVars, orchVars
  <2>2. StepsInRecreate'
    BY <1>0, <2>1 DEF StepsInRecreate
  <2> QED
    BY <1>0, <2>1, <2>2, NetworkFrame DEF svc
<1>2. CASE Restart
  <2>1. StepsInRecreate' /\ \A s \in Service : ~Undisturbed(s)'
    BY <1>2 DEF Restart, StepsInRecreate, Undisturbed, TypeOK
  <2> QED
    BY <2>1 DEF NetworkInv
<1>3. ASSUME NEW r \in Request, Arrive(r) PROVE NetworkInv'
  <2>1. UNCHANGED <<container, step, extras, leftover>> /\ pc[r] = "idle"
    BY <1>3 DEF Arrive, Goto, daemonVars, recreateVars
  <2>2. \A q \in Request : q # r => pc'[q] = pc[q] /\ svc(q)' = svc(q)
    BY <1>0, <1>3 DEF Arrive, Goto, svc, TypeOK
  <2>3. StepsInRecreate' /\ step[r] = "idle"
    BY <1>0, <2>1, <2>2 DEF StepsInRecreate
  <2>4. \A q \in Request : (step[q] \in Delicate \cup {"connect", "cleanup"}) => svc(q)' = svc(q)
    BY <2>2, <2>3 DEF Delicate
  <2> QED
    BY <1>0, <2>1, <2>3, <2>4, NetworkFrame
<1>4. ASSUME NEW r \in Request, ClientGone(r) PROVE NetworkInv'
  <2>1. UNCHANGED <<container, step, extras, leftover, pc, req>>
    BY <1>4 DEF ClientGone, daemonVars, orchVars
  <2>2. StepsInRecreate'
    BY <1>0, <2>1 DEF StepsInRecreate
  <2> QED
    BY <1>0, <2>1, <2>2, NetworkFrame DEF svc
<1>5. ASSUME NEW r \in Request, RequestStep(r) PROVE NetworkInv'
  <2>1. CASE RecreateService(r)
    BY <2>1, NetworkRecreate
  <2>2. CASE ~RecreateService(r)
    <3>1. /\ UNCHANGED <<container, extras, leftover>> /\ StepsInRecreate'
          /\ \A q \in Request :
               (step'[q] \in Delicate \/ step[q] \in {"connect", "cleanup"}) => step'[q] = step[q]
      BY <1>5, <2>2, OutsideRecreate DEF NetworkInv
    <3>2. \A q \in Request : svc(q)' = svc(q)
      BY <1>5, SameContext DEF svc
    <3> QED
      BY <1>0, <3>1, <3>2, NetworkFrame
  <2> QED
    BY <2>1, <2>2
<1> QED
  BY <1>1, <1>2, <1>3, <1>4, <1>5 DEF Next

\* The containers compose made are attached where their files say.
LEMMA InitNetwork == Init => NetworkInv
<1> SUFFICES ASSUME Init PROVE NetworkInv
  OBVIOUS
<1>1. \A r \in Request : step[r] = "idle"
  BY DEF Init, NoRequestYet, RecreateInit, Request
<1>2. \A s \in Service : Attached(s) /\ container[s].aliases = {1} /\ container[s].id = 1
  <2>1. PICK config \in [Service -> Configs] :
          container = [s \in Service |-> [status |-> "running",
                                          digest |-> tagged[ImageOf[s]], id |-> 1,
                                          nets |-> config[s].nets, aliases |-> {1},
                                          config |-> config[s]]]
    BY DEF Init, NoRequestYet, DaemonInit
  <2> QED
    BY <2>1 DEF Attached
<1> QED
  BY <1>1, <1>2 DEF NetworkInv, StepsInRecreate, NetsOK

\* The invariant and the mutexes give what the property says: recreate.Service
\* runs only inside the mutex.
LEMMA NetworkImplies == SpinnerInv /\ NetworkInv => NetworksKept
<1> SUFFICES ASSUME SpinnerInv, NetworkInv, NEW s \in Service \ leftover, held[s] = NoOne,
                    Undisturbed(s), container[s].status = "running"
             PROVE  /\ container[s].nets = container[s].config.nets
                    /\ container[s].aliases \subseteq {container[s].id}
  BY DEF NetworksKept
<1>1. \A r \in Request : svc(r) = s => step[r] = "idle"
  BY OrchestratorAssumption DEF SpinnerInv, MutexHeld, NetworkInv, StepsInRecreate, Locked, Started
<1> QED
  BY <1>1 DEF NetworkInv, NetsOK, Attached

\* recreate.Service keeps the networks, for any number of networks, services and
\* requests: a running service nobody works on is attached to every network its
\* compose file names and is known there by its own id only, whatever failed on the
\* way, unless a clean-up failed, a client went away or the process was restarted.
THEOREM Networks == Spec => []NetworksKept
<1>1. Spec => []NetworkInv
  BY InitNetwork, NetworkStep, SpinnerInvariant, Types, PTL DEF Spec
<1> QED
  BY <1>1, NetworkImplies, SpinnerInvariant, PTL

-----------------------------------------------------------------------------
(* The target of an action: what the tag points at, then what runs.        *)

BeforeCreate(r) == \/ pc[r] \in {"crosscheck", "progress"}
                   \/ step[r] \in {"list", "stop", "remove", "create"}
AfterCreate(r) == pc[r] = "swap" \/ step[r] \in {"connect", "start", "cleanup", "ok"}

\* Until the create the tag points at the target, from then on the container is
\* made of it (a target that is a bare repository name is whatever the tag is).
TargetOK(r) ==
    target[r] \in Digest =>
       /\ BeforeCreate(r) => tagged[img(r)] = target[r]
       /\ AfterCreate(r) => container[svc(r)].digest = target[r]

TargetInv == \A r \in Request : Steerable(svc(r)) => TargetOK(r)

-----------------------------------------------------------------------------
(* What the row will say of the digests once the channel is drained.       *)

\* A message that sets current_digest, and one that sets previous_digest.
SetsCurrent(m, s) == m.svc = s /\ m.kind \in {"swap", "upsert"}
SetsPrevious(m, s) == m.svc = s /\ m.kind = "swap" /\ m.prev # NoDigest

\* The last word about the current digest of s is d.
CurrentWord(s, d) ==
    \/ \E i \in DOMAIN channel :
         /\ SetsCurrent(channel[i], s) /\ channel[i].digest = d
         /\ \A j \in DOMAIN channel : j > i => ~SetsCurrent(channel[j], s)
    \/ /\ \A j \in DOMAIN channel : ~SetsCurrent(channel[j], s)
       /\ rows[s].current = d

\* The last word about its previous digest is d.
PreviousWord(s, d) ==
    \/ \E i \in DOMAIN channel :
         /\ SetsPrevious(channel[i], s) /\ channel[i].prev = d
         /\ \A j \in DOMAIN channel : j > i => ~SetsPrevious(channel[j], s)
    \/ /\ \A j \in DOMAIN channel : ~SetsPrevious(channel[j], s)
       /\ rows[s].previous = d

\* Between the start of the new container and the send of the digest swap.
Swapping(r) == step[r] = "ok" \/ pc[r] = "swap"
Window(s) == \E r \in Request : svc(r) = s /\ Swapping(r)

\* Outside that window the last word is what runs, if it is a digest at all.
RecordInv ==
    \A s \in Service : (Undisturbed(s) /\ Steerable(s)) =>
       /\ rows[s].known
       /\ (container[s].status = "running" /\ ~Window(s)) =>
             \E d \in Ref : CurrentWord(s, d) /\ (d \in Digest => d = container[s].digest)

\* From the read of the row to the send of the swap.
BeforeSwap == {"choose", "start", "pull", "crosscheck", "retag", "progress", "recreate", "swap"}

\* A request that has its target.
HasTarget(r) == \/ pc[r] \in {"crosscheck", "retag", "progress", "recreate", "swap"}
                \/ pc[r] = "start" /\ req[r].op = "rolling_back"

\* What the row says once the swap of r is applied.
PreviousAfter(r) == IF target[r] = snap[r].current THEN snap[r].previous ELSE snap[r].current

\* What a request read is still the last word when it swaps.
SnapWords(r) ==
    /\ snap[r].current \in Digest
    /\ snap[r].previous \in Digest \cup {NoDigest}
    /\ CurrentWord(svc(r), snap[r].current)
    /\ PreviousWord(svc(r), snap[r].previous)

SnapOK(r) ==
    /\ pc[r] \in BeforeSwap => SnapWords(r)
    /\ HasTarget(r) => target[r] \in Digest
    /\ Swapping(r) => ran[svc(r)].last = target[r] /\ ran[svc(r)].before = PreviousAfter(r)

PreviousInv ==
    \A s \in Service \ (Sideloaded \cup stale) : (Undisturbed(s) /\ Steerable(s)) =>
       /\ ~Window(s) => CurrentWord(s, ran[s].last) /\ PreviousWord(s, ran[s].before)
       /\ \A r \in Request : svc(r) = s => SnapOK(r)

-----------------------------------------------------------------------------
(* Who is disturbed by a step of a request.                                *)

\* No other request.
LEMMA OtherRequest ==
    ASSUME TypeOK, NEW r \in Request, RequestStep(r), NEW q \in Request, q # r
    PROVE  /\ pc'[q] = pc[q] /\ step'[q] = step[q] /\ target'[q] = target[q]
           /\ snap'[q] = snap[q] /\ req'[q] = req[q]
<1>0. /\ pc \in [Request -> PC] /\ step \in [Request -> Step]
      /\ target \in [Request -> Ref] /\ snap \in [Request -> Row]
  BY DEF TypeOK, RecreateTypeOK, Request
<1>1. CASE RecreateService(r)
  BY <1>0, <1>1 DEF RecreateService, RecreateStep, ListOld, StopOld, RemoveOld, CreateNew,
                    ConnectNetworks, StartNew, CleanupNew, Succeeds, StepTo, orchVars
<1>2. CASE ~RecreateService(r)
  <2>1. pc'[q] = pc[q] /\ req' = req
    BY <1>0, <1>2 DEF RequestStep, ComposeFileMoved, LockService, Snapshot,
       ChooseRollbackTarget, SendStart, SendAndGoto, Pull, CrossCheck, Retag, SendProgress,
       RecreateReturns, SendSwap, VerifyNew, SendResult, SendFailure, Unlock, Goto
  <2>2. step'[q] = step[q]
    BY <1>0, <1>2 DEF RequestStep, ComposeFileMoved, LockService, Snapshot,
       ChooseRollbackTarget, SendStart, Pull, CrossCheck, Retag, SendProgress,
       RecreateReturns, SendSwap, VerifyNew, SendResult, SendFailure, Unlock, recreateVars
  <2>3. target'[q] = target[q] /\ snap'[q] = snap[q]
    BY <1>0, <1>2 DEF RequestStep, ComposeFileMoved, LockService, Snapshot,
       ChooseRollbackTarget, SendStart, SendAndGoto, Pull, CrossCheck, Retag, SendProgress,
       RecreateReturns, SendSwap, VerifyNew, SendResult, SendFailure, Unlock
  <2> QED
    BY <2>1, <2>2, <2>3
<1> QED
  BY <1>1, <1>2

\* A request that has no mutex touches no container and no tag.
LEMMA UnlockedStep ==
    ASSUME NEW r \in Request, RequestStep(r), pc[r] \notin Locked
    PROVE  UNCHANGED <<storeVars, daemonVars, stale>> /\ pc[r] = "check"
             /\ UNCHANGED <<step, target, snap>> /\ pc' \in {[pc EXCEPT ![r] = "snapshot"], [pc EXCEPT ![r] = "done"]}
BY DEF RequestStep, ComposeFileMoved, LockService, Snapshot, ChooseRollbackTarget, SendStart,
       SendAndGoto, Pull, CrossCheck, Retag, SendProgress, RecreateService, RecreateReturns,
       SendSwap, VerifyNew, SendResult, SendFailure, Unlock, Goto, Locked, Started, Phase,
       recreateVars

\* No other service, unless both run the same image.
LEMMA OtherService ==
    ASSUME TypeOK, NEW r \in Request, RequestStep(r), NEW s \in Service, s # svc(r)
    PROVE  /\ container'[s] = container[s] /\ ran'[s] = ran[s]
           /\ s \in stale' <=> s \in stale
           /\ Unshared(s) => tagged'[ImageOf[s]] = tagged[ImageOf[s]]
<1>0. /\ container \in [Service -> Container] /\ tagged \in [Image -> Digest]
      /\ ran \in [Service -> [last : Digest, before : Digest \cup {NoDigest}]]
      /\ svc(r) \in Service
  BY RequestService DEF TypeOK, RequestTypeOK, DaemonTypeOK
<1>1. CASE RecreateService(r)
  BY <1>0, <1>1 DEF RecreateService, RecreateStep, ListOld, StopOld, RemoveOld, CreateNew,
              ConnectNetworks, StartNew, CleanupNew, ActedAnyway, StopContainer, RemoveContainer,
              CreateContainer, ConnectNetwork, StartContainer, daemonVars, orchVars
<1>2. CASE Pull(r) \/ Retag(r)
  <2>1. UNCHANGED <<container, ran, stale>>
    BY <1>2 DEF Pull, PullImage, Retag, TagImage, ActedAnyway, daemonVars
  <2>2. Unshared(s) => ImageOf[s] # img(r)
    BY <1>0 DEF Unshared, img
  <2>3. ImageOf[s] # img(r) => tagged'[ImageOf[s]] = tagged[ImageOf[s]]
    <3>1. ImageOf[s] \in Image
      BY DaemonAssumption
    <3>2. UNCHANGED tagged \/ \E d : tagged' = [tagged EXCEPT ![img(r)] = d]
      BY <1>2 DEF Pull, PullImage, Retag, TagImage, ActedAnyway, daemonVars
    <3> QED
      BY <1>0, <3>1, <3>2
  <2> QED
    BY <2>1, <2>2, <2>3
<1>3. CASE ~RecreateService(r) /\ ~Pull(r) /\ ~Retag(r)
  BY <1>3 DEF RequestStep, ComposeFileMoved, LockService, Snapshot, ChooseRollbackTarget,
     SendStart, SendAndGoto, CrossCheck, SendProgress, RecreateReturns, SendSwap, VerifyNew,
     SendResult, SendFailure, Unlock, daemonVars
<1> QED
  BY <1>1, <1>2, <1>3

\* And not the service, nor its tag, of a request that holds the mutex.
LEMMA LockedUndisturbed ==
    ASSUME TypeOK, MutexHeld, NEW r \in Request, RequestStep(r),
           NEW q \in Request, q # r, pc[q] \in Locked
    PROVE  /\ container'[svc(q)] = container[svc(q)] /\ ran'[svc(q)] = ran[svc(q)]
           /\ svc(q) \in stale' <=> svc(q) \in stale
           /\ Unshared(svc(q)) => tagged'[img(q)] = tagged[img(q)]
<1>0. svc(q) \in Service
  BY RequestService DEF TypeOK, RequestTypeOK
<1>1. CASE svc(q) # svc(r)
  BY <1>0, <1>1, OtherService DEF img
<1>2. CASE svc(q) = svc(r)
  <2>1. pc[r] \notin Locked
    BY <1>2 DEF MutexHeld
  <2> QED
    BY <2>1, UnlockedStep DEF daemonVars
<1> QED
  BY <1>1, <1>2

\* What a step of recreate.Service does to the container and to its history: only
\* the create changes the digest, only the start has it run.
LEMMA RecreateEffect ==
    ASSUME TypeOK, NEW r \in Request, RecreateService(r), NEW s \in Service, s = svc(r)
    PROVE  /\ container'[s].config = container[s].config
           /\ UNCHANGED tagged
           /\ \/ container'[s].digest = container[s].digest
              \/ /\ step[r] = "create" /\ container'[s].digest = Resolved(s)
                 /\ container'[s].status = "created"
           /\ step'[r] \in {"connect", "start"} /\ step[r] = "create" =>
                 container'[s].digest = Resolved(s)
           /\ container'[s].status = "running" =>
                 container[s].status = "running" \/ (step[r] = "start" /\ (step'[r] = "ok" \/ cancelled[r]))
           /\ ran'[s] = ran[s] \/ (step[r] = "start" /\ (step'[r] = "ok" \/ cancelled[r]))
           /\ step[r] = "start" /\ step'[r] = "ok" =>
                 ran'[s] = IF container[s].digest = ran[s].last THEN ran[s]
                           ELSE [last |-> container[s].digest, before |-> ran[s].last]
           /\ step'[r] = "err" \/ <<step[r], step'[r]>> \in
                {<<"list", "stop">>, <<"stop", "remove">>, <<"remove", "create">>,
                 <<"create", "start">>, <<"create", "connect">>, <<"connect", "connect">>,
                 <<"connect", "start">>, <<"connect", "cleanup">>, <<"start", "cleanup">>,
                 <<"start", "ok">>}
<1>0. /\ container \in [Service -> Container] /\ step \in [Request -> Step]
      /\ ran \in [Service -> [last : Digest, before : Digest \cup {NoDigest}]]
      /\ RecreateStep(r, s) /\ container[s] \in Container
  BY DEF TypeOK, DaemonTypeOK, RecreateTypeOK, RecreateService, Request
<1> USE <1>0 DEF Succeeds, StepTo, ActedAnyway, Container, daemonVars
<1>1. CASE ListOld(r, s)
  BY <1>1 DEF ListOld
<1>2. CASE StopOld(r, s)
  BY <1>2 DEF StopOld, StopContainer
<1>3. CASE RemoveOld(r, s)
  BY <1>3 DEF RemoveOld, RemoveContainer
<1>4. CASE CreateNew(r, s)
  BY <1>4 DEF CreateNew, CreateContainer, NewContainer
<1>5. CASE ConnectNetworks(r, s)
  BY <1>5 DEF ConnectNetworks, ConnectNetwork
<1>6. CASE StartNew(r, s)
  BY <1>6 DEF StartNew, StartContainer
<1>7. CASE CleanupNew(r, s)
  BY <1>7 DEF CleanupNew, RemoveContainer
<1> QED
  BY <1>1, <1>2, <1>3, <1>4, <1>5, <1>6, <1>7 DEF RecreateStep

\* The target: it is what the tag points at when the container is created, and
\* what the container is made of from then on; neither cancelled calls that acted
\* nor other services come in between.
LEMMA TargetStep ==
    TypeOK /\ MutexHeld /\ StepsInRecreate /\ TargetInv /\ [Next]_vars => TargetInv'
<1> SUFFICES ASSUME TypeOK, MutexHeld, StepsInRecreate, TargetInv, [Next]_vars,
                    NEW q \in Request, Steerable(svc(q))', (BeforeCreate(q) \/ AfterCreate(q))',
                    target'[q] \in Digest
             PROVE  TargetOK(q)'
  BY DEF TargetInv, TargetOK
<1>0. /\ pc \in [Request -> PC] /\ step \in [Request -> Step] /\ target \in [Request -> Ref]
      /\ svc(q) \in Service /\ img(q) \in Image
  BY RequestService DEF TypeOK, RequestTypeOK, RecreateTypeOK, Request
<1>1. CASE UNCHANGED vars \/ Updater \/ Outside \/ \E r \in Request : ClientGone(r)
  <2>1. UNCHANGED <<pc, step, target, req, tagged, container>>
    BY <1>1 DEF vars, Updater, Outside, Publish, Prune, ClientGone, daemonVars, recreateVars,
                orchVars
  <2> QED
    BY <2>1 DEF TargetInv, TargetOK, Steerable, BeforeCreate, AfterCreate, svc, img
<1>2. CASE Restart
  BY <1>2 DEF Restart, BeforeCreate, AfterCreate
<1>3. ASSUME NEW r \in Request, Arrive(r) PROVE TargetOK(q)'
  <2>1. UNCHANGED <<step, target, tagged, container>> /\ pc[r] = "idle" /\ pc'[r] = "check"
          /\ step[r] = "idle"
    BY <1>0, <1>3 DEF Arrive, Goto, daemonVars, recreateVars, StepsInRecreate
  <2>2. q # r
    BY <2>1 DEF BeforeCreate, AfterCreate
  <2>3. pc'[q] = pc[q] /\ req'[q] = req[q]
    BY <1>0, <1>3, <2>2 DEF Arrive, Goto, TypeOK
  <2> QED
    BY <2>1, <2>3 DEF TargetInv, TargetOK, Steerable, BeforeCreate, AfterCreate, svc, img
<1>4. ASSUME NEW r \in Request, RequestStep(r), q # r PROVE TargetOK(q)'
  <2>1. /\ pc'[q] = pc[q] /\ step'[q] = step[q] /\ target'[q] = target[q] /\ req'[q] = req[q]
    BY <1>4, OtherRequest
  <2>2. pc[q] \in Locked
    BY <2>1 DEF BeforeCreate, AfterCreate, StepsInRecreate, Locked, Started
  <2>3. container'[svc(q)] = container[svc(q)]
    BY <1>4, <2>2, LockedUndisturbed
  <2>4. Unshared(svc(q)) => tagged'[img(q)] = tagged[img(q)]
    BY <1>4, <2>2, LockedUndisturbed
  <2> QED
    BY <2>1, <2>3, <2>4 DEF TargetInv, TargetOK, Steerable, BeforeCreate, AfterCreate, svc, img
<1>5. CASE RecreateService(q)
  <2>1. /\ UNCHANGED <<pc, req, target>> /\ pc[q] = "recreate"
    BY <1>5 DEF RecreateService, orchVars
  <2>2. svc(q)' = svc(q) /\ img(q)' = img(q) /\ container'[svc(q)].config = container[svc(q)].config
    BY <1>0, <1>5, <2>1, RecreateEffect DEF svc, img
  <2>3. Steerable(svc(q)) /\ TargetOK(q)
    BY <2>2 DEF Steerable, TargetInv
  <2>4. BeforeCreate(q)' => tagged'[img(q)] = target[q]
    BY <1>0, <1>5, <2>1, <2>3, RecreateEffect DEF TargetOK, BeforeCreate
  <2>5. AfterCreate(q)' => container'[svc(q)].digest = target[q]
    <3>1. CASE step[q] = "create"
      <4>1. AfterCreate(q)' => container'[svc(q)].digest = Resolved(svc(q))
        BY <1>0, <1>5, <2>1, <3>1, RecreateEffect DEF AfterCreate
      <4>2. Resolved(svc(q)) = target[q]
        BY <2>1, <2>3, <3>1 DEF Resolved, Steerable, TargetOK, BeforeCreate, img
      <4> QED
        BY <4>1, <4>2
    <3>2. CASE step[q] # "create"
      <4>1. AfterCreate(q)' => AfterCreate(q) /\ container'[svc(q)].digest = container[svc(q)].digest
        BY <1>0, <1>5, <2>1, <3>2, RecreateEffect DEF AfterCreate
      <4> QED
        BY <2>1, <2>3, <4>1 DEF TargetOK
    <3> QED
      BY <3>1, <3>2
  <2> QED
    BY <2>1, <2>2, <2>4, <2>5 DEF TargetOK
<1>6. CASE RequestStep(q) /\ ~RecreateService(q)
  <2>1. UNCHANGED container /\ svc(q)' = svc(q) /\ img(q)' = img(q)
    BY <1>6, OutsideRecreate, SameContext DEF svc, img
  <2>2. Steerable(svc(q)) /\ TargetOK(q)
    BY <2>1 DEF Steerable, TargetInv
  <2>3. step[q] \in {"list", "stop", "remove", "create", "connect", "start", "cleanup", "ok"}
           => pc[q] = "recreate"
    BY DEF StepsInRecreate
  <2> USE <1>0, <2>3 DEF Goto
  <2>4. CASE Pull(q)
    BY <2>1, <2>4 DEF Pull, PullImage, DrainPullStream, recreateVars, TargetOK, BeforeCreate, AfterCreate,
           TypeOK, DaemonTypeOK
  <2>5. CASE CrossCheck(q)
    BY <2>1, <2>2, <2>5 DEF CrossCheck, recreateVars, daemonVars, TargetOK, BeforeCreate, AfterCreate
  <2>6. CASE Retag(q)
    <3>1. pc'[q] = "progress" /\ step'[q] = "idle" /\ target'[q] = target[q] /\ pc[q] = "retag"
      BY <2>6 DEF Retag, recreateVars, BeforeCreate, AfterCreate, StepsInRecreate
    <3>2. TagImage(img(q), target[q])
      BY <2>6, <3>1 DEF Retag
    <3>3. tagged'[img(q)] = target[q]
      BY <3>1, <3>2, StoreAssumption DEF TagImage, TypeOK, DaemonTypeOK
    <3> QED
      BY <2>1, <3>1, <3>3 DEF TargetOK, AfterCreate
  <2>7. CASE SendProgress(q)
    BY <2>1, <2>2, <2>7 DEF SendProgress, SendAndGoto, daemonVars, TargetOK, BeforeCreate, AfterCreate
  <2>8. CASE RecreateReturns(q)
    BY <2>1, <2>2, <2>8 DEF RecreateReturns, daemonVars, TargetOK, BeforeCreate, AfterCreate
  <2>9. CASE ~(Pull(q) \/ CrossCheck(q) \/ Retag(q) \/ SendProgress(q) \/ RecreateReturns(q))
    <3>1. UNCHANGED step
      BY <1>6, <2>9 DEF RequestStep, ComposeFileMoved, LockService, Snapshot,
         ChooseRollbackTarget, SendStart, SendSwap, VerifyNew, SendResult, SendFailure, Unlock,
         recreateVars
    <3>2. pc[q] # "recreate" /\ pc'[q] \notin {"crosscheck", "progress", "swap"}
      <4>1. CASE Snapshot(q)
        <5>1. req[q].op \in Op
          BY RequestService DEF TypeOK, RequestTypeOK
        <5> QED
          BY <4>1, <5>1 DEF Snapshot, Op
      <4>2. CASE ~Snapshot(q)
        BY <1>6, <2>9, <4>2 DEF RequestStep, ComposeFileMoved, LockService,
           ChooseRollbackTarget, SendStart, SendAndGoto, SendSwap, VerifyNew, SendResult,
           SendFailure, Unlock, Phase
      <4> QED
        BY <4>1, <4>2
    <3> QED
      BY <3>1, <3>2 DEF BeforeCreate, AfterCreate
  <2> QED
    BY <2>4, <2>5, <2>6, <2>7, <2>8, <2>9
<1> QED
  BY <1>1, <1>2, <1>3, <1>4, <1>5, <1>6 DEF Next

-----------------------------------------------------------------------------
(* The last words: what a send and an Apply do to them.                    *)

\* Only swaps and upserts set the current digest, only swaps the previous one.
LEMMA ApplyDigests ==
    ASSUME NEW row \in Row, NEW m \in Message
    PROVE  /\ m.kind \notin {"swap", "upsert"} => Apply(row, m).current = row.current
           /\ m.kind \in {"swap", "upsert"} /\ row.known => Apply(row, m).current = m.digest
           /\ m.kind # "swap" => Apply(row, m).previous = row.previous
           /\ m.kind = "swap" /\ row.known =>
                Apply(row, m).previous = IF m.prev # NoDigest THEN m.prev ELSE row.previous
<1> USE DEF Row
<1>1. CASE m \in StartMsg
  BY <1>1 DEF StartMsg, Apply, ApplyStart
<1>2. CASE m \in ProgressMsg
  BY <1>2 DEF ProgressMsg, Apply
<1>3. CASE m \in SwapMsg
  BY <1>3 DEF SwapMsg, Apply, ApplySwap
<1>4. CASE m \in ResultMsg
  BY <1>4 DEF ResultMsg, Apply, ApplyResult
<1>5. CASE m \in PulledMsg
  BY <1>5 DEF PulledMsg, Apply, ApplyPulled
<1>6. CASE m \in FailureMsg
  BY <1>6 DEF FailureMsg, Apply, ApplyFailure
<1>7. CASE m \in UpsertMsg
  BY <1>7 DEF UpsertMsg, Apply, ApplyUpsert
<1>8. CASE m \in StoppedMsg
  BY <1>8 DEF StoppedMsg, Apply, ApplyStopped
<1>9. CASE m \in RemovedMsg
  BY <1>9 DEF RemovedMsg, Apply, ApplyRemoved
<1>10. CASE m \in ResolvedMsg
  BY <1>10 DEF ResolvedMsg, Apply, ApplyResolved
<1>11. CASE m \in NoteMsg
  BY <1>11 DEF NoteMsg, Apply, ApplyNote
<1>12. CASE m \in SweepMsg
  BY <1>12 DEF SweepMsg, Apply
<1> QED
  BY <1>1, <1>2, <1>3, <1>4, <1>5, <1>6, <1>7, <1>8, <1>9, <1>10, <1>11, <1>12 DEF Message

\* There is one last word.
LEMMA OneWord ==
    ASSUME StoreTypeOK, NEW s, NEW d, NEW e
    PROVE  /\ CurrentWord(s, d) /\ CurrentWord(s, e) => d = e
           /\ PreviousWord(s, d) /\ PreviousWord(s, e) => d = e
<1>1. \A i, j \in DOMAIN channel : i = j \/ i < j \/ j < i
  BY DEF StoreTypeOK
<1>2. CurrentWord(s, d) /\ CurrentWord(s, e) => d = e
  BY <1>1 DEF CurrentWord
<1>3. PreviousWord(s, d) /\ PreviousWord(s, e) => d = e
  BY <1>1 DEF PreviousWord
<1> QED
  BY <1>2, <1>3

\* A message that is sent has the last word about what it sets.
LEMMA WordsSent ==
    ASSUME StoreTypeOK, NEW m \in Message, channel' = Append(channel, m), NEW s \in Service,
           rows'[s] = rows[s]
    PROVE  /\ SetsCurrent(m, s) => CurrentWord(s, m.digest)'
           /\ ~SetsCurrent(m, s) => \A d : CurrentWord(s, d) => CurrentWord(s, d)'
           /\ SetsPrevious(m, s) => PreviousWord(s, m.prev)'
           /\ ~SetsPrevious(m, s) => \A d : PreviousWord(s, d) => PreviousWord(s, d)'
<1> DEFINE n == Len(channel)
<1>0. /\ DOMAIN channel' = 1 .. n + 1 /\ DOMAIN channel = 1 .. n /\ n \in Nat
      /\ channel'[n + 1] = m
      /\ \A i \in 1 .. n : channel'[i] = channel[i]
  BY AppendFacts DEF StoreTypeOK
<1> HIDE DEF n
<1>1. /\ SetsCurrent(m, s) => CurrentWord(s, m.digest)'
      /\ ~SetsCurrent(m, s) => \A d : CurrentWord(s, d) => CurrentWord(s, d)'
  BY <1>0 DEF CurrentWord, SetsCurrent
<1>2. /\ SetsPrevious(m, s) => PreviousWord(s, m.prev)'
      /\ ~SetsPrevious(m, s) => \A d : PreviousWord(s, d) => PreviousWord(s, d)'
  BY <1>0 DEF PreviousWord, SetsPrevious
<1> QED
  BY <1>1, <1>2

\* Applying the oldest message leaves the last words what they are, as long as
\* the service has a row.
LEMMA WordsApplied ==
    ASSUME StoreTypeOK, Consume, NEW s \in Service, rows[s].known
    PROVE  /\ rows'[s].known
           /\ \A d : CurrentWord(s, d) => CurrentWord(s, d)'
           /\ \A d : PreviousWord(s, d) => PreviousWord(s, d)'
<1> DEFINE m == Head(channel)
           n == Len(channel)
<1>0. /\ m \in Message /\ m = channel[1] /\ n \in Nat \ {0}
      /\ DOMAIN channel = 1 .. n /\ DOMAIN channel' = 1 .. n - 1
      /\ \A i \in 1 .. n - 1 : channel'[i] = channel[i + 1]
  BY TailFacts DEF Consume, StoreTypeOK
<1>1. rows[s] \in Row /\ rows'[s] = IF s = m.svc THEN Apply(rows[s], m) ELSE rows[s]
  BY DEF Consume, Update, StoreTypeOK
<1> HIDE DEF m, n
<1>2. /\ rows'[s].known
      /\ rows'[s].current = IF SetsCurrent(m, s) THEN m.digest ELSE rows[s].current
      /\ rows'[s].previous = IF SetsPrevious(m, s) THEN m.prev ELSE rows[s].previous
  BY <1>0, <1>1, ApplyDigests, ApplySpinner DEF SetsCurrent, SetsPrevious
<1>3. \A i \in 2 .. n : i - 1 \in 1 .. n - 1 /\ channel'[i - 1] = channel[i]
  BY <1>0
<1>4. \A j \in 1 .. n - 1 : j + 1 \in 2 .. n /\ channel'[j] = channel[j + 1]
  BY <1>0
<1>5. ASSUME NEW d, CurrentWord(s, d) PROVE CurrentWord(s, d)'
  <2>1. CASE \A j \in 2 .. n : ~SetsCurrent(channel[j], s)
    <3>1. \A j \in 1 .. n - 1 : ~SetsCurrent(channel'[j], s)
      BY <1>4, <2>1
    <3>2. rows'[s].current = d
      BY <1>0, <1>2, <1>5, <2>1 DEF CurrentWord
    <3> QED
      BY <1>0, <3>1, <3>2 DEF CurrentWord, SetsCurrent
  <2>2. CASE ~\A j \in 2 .. n : ~SetsCurrent(channel[j], s)
    <3>1. PICK i \in 2 .. n : /\ SetsCurrent(channel[i], s) /\ channel[i].digest = d
                              /\ \A j \in 1 .. n : j > i => ~SetsCurrent(channel[j], s)
      <4>1. PICK k \in 2 .. n : SetsCurrent(channel[k], s)
        BY <2>2
      <4>2. k \in 1 .. n /\ k > 1
        BY <1>0
      <4>3. PICK i \in 1 .. n : /\ SetsCurrent(channel[i], s) /\ channel[i].digest = d
                                /\ \A j \in 1 .. n : j > i => ~SetsCurrent(channel[j], s)
        BY <1>0, <1>5, <4>1, <4>2 DEF CurrentWord
      <4>4. ~(k > i)
        BY <4>1, <4>2, <4>3
      <4>5. i \in 2 .. n
        BY <1>0, <4>2, <4>4
      <4> QED
        BY <4>3, <4>5
    <3>2. \A j \in 1 .. n - 1 : j > i - 1 => ~SetsCurrent(channel'[j], s)
      BY <1>0, <1>4, <3>1
    <3> QED
      BY <1>0, <1>3, <3>1, <3>2 DEF CurrentWord, SetsCurrent
  <2> QED
    BY <2>1, <2>2
<1>6. ASSUME NEW d, PreviousWord(s, d) PROVE PreviousWord(s, d)'
  <2>1. CASE \A j \in 2 .. n : ~SetsPrevious(channel[j], s)
    <3>1. \A j \in 1 .. n - 1 : ~SetsPrevious(channel'[j], s)
      BY <1>4, <2>1
    <3>2. rows'[s].previous = d
      BY <1>0, <1>2, <1>6, <2>1 DEF PreviousWord
    <3> QED
      BY <1>0, <3>1, <3>2 DEF PreviousWord, SetsPrevious
  <2>2. CASE ~\A j \in 2 .. n : ~SetsPrevious(channel[j], s)
    <3>1. PICK i \in 2 .. n : /\ SetsPrevious(channel[i], s) /\ channel[i].prev = d
                              /\ \A j \in 1 .. n : j > i => ~SetsPrevious(channel[j], s)
      <4>1. PICK k \in 2 .. n : SetsPrevious(channel[k], s)
        BY <2>2
      <4>2. k \in 1 .. n /\ k > 1
        BY <1>0
      <4>3. PICK i \in 1 .. n : /\ SetsPrevious(channel[i], s) /\ channel[i].prev = d
                                /\ \A j \in 1 .. n : j > i => ~SetsPrevious(channel[j], s)
        BY <1>0, <1>6, <4>1, <4>2 DEF PreviousWord
      <4>4. ~(k > i)
        BY <4>1, <4>2, <4>3
      <4>5. i \in 2 .. n
        BY <1>0, <4>2, <4>4
      <4> QED
        BY <4>3, <4>5
    <3>2. \A j \in 1 .. n - 1 : j > i - 1 => ~SetsPrevious(channel'[j], s)
      BY <1>0, <1>4, <3>1
    <3> QED
      BY <1>0, <1>3, <3>1, <3>2 DEF PreviousWord, SetsPrevious
  <2> QED
    BY <2>1, <2>2
<1> QED
  BY <1>2, <1>5, <1>6

-----------------------------------------------------------------------------
(* What a request says, and when.                                          *)

\* The message of SendSwap.
SwapOf(r) == [kind |-> "swap", svc |-> svc(r), op |-> req[r].op, digest |-> target[r],
              prev |-> PreviousToRecord(req[r].op, snap[r], target[r])]

\* A request writes no row; it speaks about its own service, and it names a digest
\* in its swap alone, which an uncancelled request does send.
LEMMA RequestSends ==
    ASSUME TypeOK, NEW r \in Request, RequestStep(r)
    PROVE  /\ UNCHANGED <<rows, disk>>
           /\ \/ channel' = channel /\ (pc[r] = "swap" => cancelled[r])
              \/ \E m \in Message :
                   /\ channel' = Append(channel, m) /\ m.svc = svc(r)
                   /\ m.kind \notin {"upsert", "stopped", "removed"}
                   /\ IF pc[r] = "swap" THEN m = SwapOf(r) ELSE m.kind # "swap"
<1>0. /\ svc(r) \in Service /\ req[r].op \in Op /\ target[r] \in Ref /\ snap[r] \in Row
      /\ SwapOf(r) \in Message
  <2>1. svc(r) \in Service /\ req[r].op \in Op /\ target[r] \in Ref /\ snap[r] \in Row
    BY RequestService DEF TypeOK, RequestTypeOK
  <2>2. PreviousToRecord(req[r].op, snap[r], target[r]) \in Ref
    BY <2>1, PreviousType
  <2> QED
    BY <2>1, <2>2 DEF SwapOf, Message, SwapMsg
<1>1. CASE SendStart(r)
  <2> DEFINE m == [kind |-> "start", svc |-> svc(r), op |-> req[r].op]
  <2>1. m \in Message /\ m.svc = svc(r) /\ m.kind = "start"
    BY <1>0 DEF Message, StartMsg
  <2>2. UNCHANGED <<rows, disk>> /\ pc[r] = "start" /\ (channel' = channel \/ channel' = Append(channel, m))
    BY <1>1 DEF SendStart, SendAndGoto, Goto, Send, Post
  <2> HIDE DEF m
  <2> QED
    BY <2>1, <2>2
<1>2. CASE SendProgress(r)
  <2> DEFINE m == [kind |-> "progress", svc |-> svc(r)]
  <2>1. m \in Message /\ m.svc = svc(r) /\ m.kind = "progress"
    BY <1>0 DEF Message, ProgressMsg
  <2>2. UNCHANGED <<rows, disk>> /\ pc[r] = "progress" /\ (channel' = channel \/ channel' = Append(channel, m))
    BY <1>2 DEF SendProgress, SendAndGoto, Goto, Send, Post
  <2> HIDE DEF m
  <2> QED
    BY <2>1, <2>2
<1>3. CASE SendSwap(r)
  <2>1. UNCHANGED <<rows, disk>> /\ pc[r] = "swap"
          /\ ((cancelled[r] /\ channel' = channel) \/ channel' = Append(channel, SwapOf(r)))
    BY <1>3 DEF SendSwap, SendAndGoto, Goto, Send, Post, SwapOf
  <2>2. SwapOf(r).svc = svc(r) /\ SwapOf(r).kind = "swap"
    BY DEF SwapOf
  <2> QED
    BY <1>0, <2>1, <2>2
<1>4. CASE SendResult(r)
  <2> DEFINE m == IF req[r].op = "force_pulling"
                  THEN [kind |-> "pulled", svc |-> svc(r), digest |-> target[r]]
                  ELSE [kind |-> "result", svc |-> svc(r)]
  <2>1. m \in Message /\ m.svc = svc(r) /\ m.kind \in {"pulled", "result"}
    BY <1>0 DEF Message, PulledMsg, ResultMsg
  <2>2. UNCHANGED <<rows, disk>> /\ pc[r] = "result" /\ (channel' = channel \/ channel' = Append(channel, m))
    BY <1>4 DEF SendResult, SendAndGoto, Goto, Send, Post
  <2> HIDE DEF m
  <2> QED
    BY <2>1, <2>2
<1>5. CASE SendFailure(r)
  <2> DEFINE m(phase) == [kind |-> "failure", svc |-> svc(r), phase |-> phase]
  <2>1. PICK phase \in Phase : channel' = channel \/ channel' = Append(channel, m(phase))
    BY <1>5 DEF SendFailure, SendAndGoto, Send, Post
  <2>2. m(phase) \in Message /\ m(phase).svc = svc(r) /\ m(phase).kind = "failure"
    BY <1>0 DEF Message, FailureMsg
  <2>3. UNCHANGED <<rows, disk>> /\ pc[r] # "swap"
    BY <1>5 DEF SendFailure, SendAndGoto, Goto, Phase
  <2> HIDE DEF m
  <2> QED
    BY <2>1, <2>2, <2>3
<1>6. CASE ~(SendStart(r) \/ SendProgress(r) \/ SendSwap(r) \/ SendResult(r) \/ SendFailure(r))
  BY <1>6 DEF RequestStep, ComposeFileMoved, LockService, Snapshot, ChooseRollbackTarget, Pull,
     CrossCheck, Retag, RecreateService, RecreateReturns, VerifyNew, Unlock, Goto, storeVars
<1> QED
  BY <1>1, <1>2, <1>3, <1>4, <1>5, <1>6

\* So the last words about a service change by the swap of a request on it alone.
LEMMA WordsOfRequest ==
    ASSUME TypeOK, NEW r \in Request, RequestStep(r), NEW s \in Service,
           s = svc(r) => pc[r] # "swap"
    PROVE  /\ rows'[s] = rows[s]
           /\ \A d : CurrentWord(s, d) => CurrentWord(s, d)'
           /\ \A d : PreviousWord(s, d) => PreviousWord(s, d)'
<1>1. CASE channel' = channel /\ UNCHANGED rows
  BY <1>1 DEF CurrentWord, PreviousWord, SetsCurrent, SetsPrevious
<1>2. ASSUME NEW m \in Message, channel' = Append(channel, m), m.svc = svc(r),
             m.kind # "upsert", IF pc[r] = "swap" THEN m = SwapOf(r) ELSE m.kind # "swap",
             UNCHANGED rows
      PROVE  /\ \A d : CurrentWord(s, d) => CurrentWord(s, d)'
             /\ \A d : PreviousWord(s, d) => PreviousWord(s, d)'
  <2>1. ~SetsCurrent(m, s) /\ ~SetsPrevious(m, s)
    BY <1>2 DEF SetsCurrent, SetsPrevious
  <2> QED
    BY <1>2, <2>1, WordsSent DEF TypeOK
<1> QED
  BY <1>1, <1>2, RequestSends

\* The window of a swap closes with its send.
LEMMA WindowStep ==
    ASSUME TypeOK, StepsInRecreate, NEW r \in Request, RequestStep(r), pc[r] # "swap",
           NEW s \in Service, Window(s)
    PROVE  Window(s)'
<1>1. PICK q \in Request : svc(q) = s /\ Swapping(q)
  BY DEF Window
<1>2. svc(q)' = s
  BY <1>1, SameContext DEF svc
<1>3. CASE q # r
  BY <1>1, <1>2, <1>3, OtherRequest DEF Window, Swapping
<1>4. CASE q = r
  <2>1. step[r] = "ok" /\ pc[r] = "recreate"
    BY <1>1, <1>4 DEF Swapping, StepsInRecreate
  <2>2. RecreateReturns(r)
    BY <2>1 DEF RequestStep, ComposeFileMoved, LockService, Snapshot, ChooseRollbackTarget,
       SendStart, SendAndGoto, Pull, CrossCheck, Retag, SendProgress, RecreateService,
       RecreateStep, ListOld, StopOld, RemoveOld, CreateNew, ConnectNetworks, StartNew,
       CleanupNew, Succeeds, StepTo, SendSwap, VerifyNew, SendResult, SendFailure, Unlock, Goto,
       Phase
  <2>3. pc'[r] = "swap"
    BY <2>1, <2>2 DEF RecreateReturns, Goto, TypeOK
  <2> QED
    BY <1>2, <1>4, <2>3 DEF Window, Swapping
<1> QED
  BY <1>3, <1>4

\* Nothing but a redeploy changes the configuration of a service.
LEMMA ConfigKept ==
    ASSUME TypeOK, [Next]_vars
    PROVE  \A s \in Service : /\ container'[s].config = container[s].config
                              /\ Steerable(s)' <=> Steerable(s)
<1> SUFFICES ASSUME NEW s \in Service PROVE container'[s].config = container[s].config
  BY DEF Steerable, Unshared
<1>1. CASE UNCHANGED vars \/ Updater \/ Restart \/ Outside
          \/ \E r \in Request : Arrive(r) \/ ClientGone(r)
  BY <1>1 DEF vars, Updater, Restart, CloseStream, Outside, Publish, Prune, Arrive, ClientGone,
              daemonVars
<1>2. ASSUME NEW r \in Request, RequestStep(r)
      PROVE  container'[s].config = container[s].config
  <2>1. CASE ~RecreateService(r)
    <3>1. UNCHANGED container
      BY <1>2, <2>1 DEF RequestStep, ComposeFileMoved, LockService, Snapshot,
         ChooseRollbackTarget, SendStart, SendAndGoto, Pull, PullImage, CrossCheck, Retag,
         TagImage, ActedAnyway, SendProgress, RecreateReturns, SendSwap, VerifyNew, SendResult,
         SendFailure, Unlock, daemonVars
    <3> QED
      BY <3>1
  <2>2. CASE RecreateService(r) /\ s = svc(r)
    BY <2>2, RecreateEffect
  <2>3. CASE s # svc(r)
    BY <1>2, <2>3, OtherService
  <2> QED
    BY <2>1, <2>2, <2>3
<1> QED
  BY <1>1, <1>2 DEF Next

-----------------------------------------------------------------------------
(* The current digest.                                                     *)

\* Outside recreate.Service nobody else swaps the service of a request that is
\* inside the mutex.
LEMMA OneSwaps ==
    ASSUME MutexHeld, StepsInRecreate, NEW r \in Request, pc[r] \in Locked
    PROVE  Window(svc(r)) => Swapping(r)
<1> SUFFICES ASSUME NEW q \in Request, svc(q) = svc(r), Swapping(q), q # r PROVE FALSE
  BY DEF Window
<1>1. step[q] = "idle" /\ pc[q] \notin Locked
  BY OneRecreates
<1> QED
  BY <1>1 DEF Swapping, Locked, Started

\* A step that leaves the container of s, the window and the last word alone.
LEMMA RecordFrame ==
    ASSUME NEW s \in Service, Undisturbed(s) /\ Steerable(s), RecordInv,
           container'[s] = container[s], Window(s) => Window(s)', rows'[s].known,
           \A d : CurrentWord(s, d) => CurrentWord(s, d)'
    PROVE  /\ rows'[s].known
           /\ (container'[s].status = "running" /\ ~Window(s)') =>
                \E d \in Ref : CurrentWord(s, d)' /\ (d \in Digest => d = container'[s].digest)
BY DEF RecordInv

\* Every step keeps the last word about the current digest right.
LEMMA RecordStep ==
    ASSUME TypeOK, SpinnerInv, StepsInRecreate, TargetInv, RecordInv, [Next]_vars
    PROVE  RecordInv'
<1> SUFFICES ASSUME NEW s \in Service, Undisturbed(s)', Steerable(s)'
             PROVE  /\ rows'[s].known
                    /\ (container'[s].status = "running" /\ ~Window(s)') =>
                         \E d \in Ref : CurrentWord(s, d)' /\ (d \in Digest => d = container'[s].digest)
  BY DEF RecordInv
<1>0. /\ Undisturbed(s) /\ Steerable(s) /\ rows[s].known
      /\ pc \in [Request -> PC] /\ step \in [Request -> Step]
      /\ \A q \in Request : svc(q) = s => ~cancelled[q]
  BY UndisturbedBefore, ConfigKept
  DEF TypeOK, RecreateTypeOK, Request, RecordInv, Undisturbed, Abandoned
<1>1. CASE UNCHANGED vars \/ Outside \/ \E r \in Request : ClientGone(r)
  <2>1. UNCHANGED <<rows, channel, container, step, pc, req>>
    BY <1>1 DEF vars, Outside, Publish, Prune, ClientGone, storeVars, daemonVars, recreateVars,
                orchVars
  <2>2. Window(s) => Window(s)'
    BY <2>1 DEF Window, Swapping, svc
  <2>3. \A d : CurrentWord(s, d) => CurrentWord(s, d)'
    BY <2>1 DEF CurrentWord, SetsCurrent
  <2> QED
    BY <1>0, <2>1, <2>2, <2>3, RecordFrame
<1>2. CASE Updater
  <2>1. UNCHANGED <<container, step, pc, req>>
    BY <1>2 DEF Updater, daemonVars, recreateVars
  <2>2. Window(s) => Window(s)'
    BY <2>1 DEF Window, Swapping, svc
  <2>3. rows'[s].known /\ \A d : CurrentWord(s, d) => CurrentWord(s, d)'
    BY <1>0, <1>2, WordsApplied DEF Updater, TypeOK
  <2> QED
    BY <1>0, <2>1, <2>2, <2>3, RecordFrame
<1>3. CASE Restart
  BY <1>3 DEF Restart, Undisturbed, TypeOK
<1>4. ASSUME NEW r \in Request, Arrive(r)
      PROVE  /\ rows'[s].known
             /\ (container'[s].status = "running" /\ ~Window(s)') =>
                  \E d \in Ref : CurrentWord(s, d)' /\ (d \in Digest => d = container'[s].digest)
  <2>1. UNCHANGED <<rows, channel, container, step>> /\ pc[r] = "idle" /\ step[r] = "idle"
    BY <1>4 DEF Arrive, Goto, storeVars, daemonVars, recreateVars, StepsInRecreate
  <2>2. \A q \in Request : q # r => pc'[q] = pc[q] /\ svc(q)' = svc(q)
    BY <1>0, <1>4 DEF Arrive, Goto, svc, TypeOK
  <2>3. Window(s) => Window(s)'
    BY <2>1, <2>2 DEF Window, Swapping
  <2>4. \A d : CurrentWord(s, d) => CurrentWord(s, d)'
    BY <2>1 DEF CurrentWord, SetsCurrent
  <2> QED
    BY <1>0, <2>1, <2>3, <2>4, RecordFrame
<1>5. ASSUME NEW r \in Request, RequestStep(r)
      PROVE  /\ rows'[s].known
             /\ (container'[s].status = "running" /\ ~Window(s)') =>
                  \E d \in Ref : CurrentWord(s, d)' /\ (d \in Digest => d = container'[s].digest)
  <2>0. rows'[s].known
    BY <1>0, <1>5, RequestSends
  <2>1. CASE s = svc(r) /\ pc[r] = "swap"
    <3>1. PICK m \in Message : channel' = Append(channel, m) /\ m = SwapOf(r)
      BY <1>0, <1>5, <2>1, RequestSends
    <3>2. CurrentWord(s, m.digest)'
      BY <1>5, <2>1, <3>1, WordsSent, RequestSends DEF TypeOK, SetsCurrent, SwapOf
    <3>3. m.digest = target[r] /\ target[r] \in Ref
      BY <3>1 DEF SwapOf, TypeOK
    <3>4. target[r] \in Digest => container[s].digest = target[r]
      BY <1>0, <2>1 DEF TargetInv, TargetOK, AfterCreate
    <3>5. container' = container
      BY <1>5, <2>1, OutsideRecreate DEF RecreateService
    <3> QED
      BY <2>0, <3>2, <3>3, <3>4, <3>5
  <2>2. CASE ~(s = svc(r) /\ pc[r] = "swap")
    <3>1. \A d : CurrentWord(s, d) => CurrentWord(s, d)'
      BY <1>5, <2>2, WordsOfRequest
    <3>2. Window(s) => Window(s)'
      <4>1. CASE pc[r] # "swap"
        BY <1>5, <4>1, WindowStep
      <4>2. CASE s # svc(r)
        <5>1. \A q \in Request : svc(q) = s => q # r /\ svc(q)' = s
          BY <1>5, <4>2, SameContext DEF svc
        <5>2. \A q \in Request : svc(q) = s => pc'[q] = pc[q] /\ step'[q] = step[q]
          BY <1>5, <5>1, OtherRequest
        <5> QED
          BY <5>1, <5>2 DEF Window, Swapping
      <4> QED
        BY <2>2, <4>1, <4>2
    <3>3. CASE container'[s] = container[s]
      BY <1>0, <2>0, <3>1, <3>2, <3>3, RecordFrame
    <3>4. CASE RecreateService(r) /\ s = svc(r)
      <4>1. pc[r] = "recreate" /\ step[r] # "ok" /\ svc(r)' = s
        BY <1>5, <3>4, SameContext
        DEF RecreateService, RecreateStep, ListOld, StopOld, RemoveOld, CreateNew, svc,
            ConnectNetworks, StartNew, CleanupNew, Succeeds, StepTo
      <4>2. ~Window(s)
        BY <3>4, <4>1, OneSwaps DEF SpinnerInv, Swapping, Locked, Started
      <4>3. container'[s].status = "running" /\ ~Window(s)' =>
              container[s].status = "running" /\ container'[s].digest = container[s].digest
        BY <1>0, <3>4, <4>1, RecreateEffect DEF Window, Swapping
      <4> QED
        BY <1>0, <2>0, <3>1, <4>2, <4>3 DEF RecordInv
    <3>5. CASE ~RecreateService(r)
      BY <1>5, <3>3, <3>5, OutsideRecreate
    <3>6. CASE s # svc(r)
      BY <1>5, <3>3, <3>6, OtherService
    <3> QED
      BY <3>4, <3>5, <3>6
  <2> QED
    BY <2>1, <2>2
<1> QED
  BY <1>1, <1>2, <1>3, <1>4, <1>5 DEF Next

\* Nobody works, and every row is what discovery made of the container.
LEMMA InitRecord == Init => StepsInRecreate /\ TargetInv /\ RecordInv
<1> SUFFICES ASSUME Init PROVE StepsInRecreate /\ TargetInv /\ RecordInv
  OBVIOUS
<1>1. \A r \in Request : step[r] = "idle" /\ pc[r] = "idle"
  BY DEF Init, NoRequestYet, RecreateInit, Request
<1>2. \A s \in Service : /\ rows[s].known /\ rows[s].current \in {NoDigest, container[s].digest}
                         /\ rows[s].current \in Ref
  <2>1. \A s \in Service : rows[s].known /\ rows[s].current \in {NoDigest, container[s].digest}
    BY DEF Init, DiscoveredRows, NoRow
  <2>2. \A s \in Service : rows[s].current \in Ref
    BY InitType DEF TypeOK, StoreTypeOK, Row
  <2> QED
    BY <2>1, <2>2
<1>3. \A s \in Service : CurrentWord(s, rows[s].current)
  <2>1. channel = <<>>
    BY DEF Init, NoRequestYet
  <2> QED
    BY <2>1 DEF CurrentWord
<1>4. StepsInRecreate /\ TargetInv
  BY <1>1 DEF StepsInRecreate, TargetInv, TargetOK, BeforeCreate, AfterCreate
<1>5. RecordInv
  BY <1>2, <1>3, StoreAssumption DEF RecordInv
<1> QED
  BY <1>4, <1>5

\* recreate.Service is left before the handler goes on.
LEMMA RecreateScope == TypeOK /\ StepsInRecreate /\ [Next]_vars => StepsInRecreate'
<1> SUFFICES ASSUME TypeOK, StepsInRecreate, [Next]_vars PROVE StepsInRecreate'
  OBVIOUS
<1>0. pc \in [Request -> PC] /\ step \in [Request -> Step]
  BY DEF TypeOK, RecreateTypeOK, Request
<1>1. CASE UNCHANGED vars \/ Updater \/ Outside \/ \E r \in Request : ClientGone(r)
  BY <1>1 DEF vars, Updater, Outside, ClientGone, recreateVars, orchVars, StepsInRecreate
<1>2. CASE Restart
  BY <1>2 DEF Restart, StepsInRecreate
<1>3. ASSUME NEW r \in Request, Arrive(r) PROVE StepsInRecreate'
  BY <1>0, <1>3 DEF Arrive, Goto, recreateVars, StepsInRecreate
<1>4. ASSUME NEW r \in Request, RequestStep(r) PROVE StepsInRecreate'
  <2>1. CASE RecreateService(r)
    BY <1>0, <1>4, <2>1, OtherRequest DEF RecreateService, orchVars, StepsInRecreate
  <2>2. CASE ~RecreateService(r)
    BY <1>4, <2>2, OutsideRecreate
  <2> QED
    BY <2>1, <2>2
<1> QED
  BY <1>1, <1>2, <1>3, <1>4 DEF Next

\* What the three invariants say throughout.
LEMMA RecordInvariant == Spec => [](StepsInRecreate /\ TargetInv /\ RecordInv)
<1>1. /\ TypeOK /\ SpinnerInv /\ StepsInRecreate /\ TargetInv /\ RecordInv
      /\ [Next]_vars
      => (StepsInRecreate /\ TargetInv /\ RecordInv)'
  BY RecreateScope, TargetStep, RecordStep DEF SpinnerInv
<1> QED
  BY <1>1, InitRecord, SpinnerInvariant, Types, PTL DEF Spec

\* Update and Rollback: when nothing is pending, a running container runs the
\* digest its row calls current, through any mixture of updates, rollbacks,
\* upstream pushes, failed pulls that moved the tag and failed recreates, for every
\* set of services and requests (of services on a tag of their own, not pinned).
THEOREM Recorded == Spec => []RecordedIsRunning
<1>1. SpinnerInv /\ StepsInRecreate /\ RecordInv => RecordedIsRunning
  <2> SUFFICES ASSUME SpinnerInv, StepsInRecreate, RecordInv, NEW s \in Service, Settled(s),
                      Undisturbed(s), Steerable(s), container[s].status = "running",
                      rows[s].current \in Digest
               PROVE  rows[s].current = container[s].digest
    BY DEF RecordedIsRunning
  <2>1. ~Window(s)
    BY OrchestratorAssumption
    DEF Window, Swapping, Settled, SpinnerInv, MutexHeld, StepsInRecreate, Locked, Started
  <2>2. PICK d \in Ref : CurrentWord(s, d) /\ (d \in Digest => d = container[s].digest)
    BY <2>1 DEF RecordInv
  <2>3. d = rows[s].current
    BY <2>2 DEF CurrentWord, SetsCurrent, Settled, Pending
  <2> QED
    BY <2>2, <2>3
<1> QED
  BY <1>1, RecordInvariant, SpinnerInvariant, PTL

-----------------------------------------------------------------------------
(* The previous digest.                                                    *)

\* What the invariant says of one service.
WayBack(s) ==
    /\ ~Window(s) => CurrentWord(s, ran[s].last) /\ PreviousWord(s, ran[s].before)
    /\ \A r \in Request : svc(r) = s => SnapOK(r)

\* A request outside the part where its snapshot matters.
Aside(r) == pc[r] \notin BeforeSwap /\ step[r] = "idle"

LEMMA AsideOK == \A r \in Request : Aside(r) => SnapOK(r) /\ ~Swapping(r)
BY DEF Aside, SnapOK, Swapping, HasTarget, BeforeSwap

\* A step that leaves the history of s and its last words alone, and each request
\* on s as it was or aside.
LEMMA WayBackFrame ==
    ASSUME NEW s \in Service, WayBack(s), ran'[s] = ran[s], Window(s) => Window(s)',
           \A d : CurrentWord(s, d) => CurrentWord(s, d)',
           \A d : PreviousWord(s, d) => PreviousWord(s, d)',
           \A q \in Request : svc(q)' = s =>
              \/ Aside(q)'
              \/ /\ pc'[q] = pc[q] /\ step'[q] = step[q] /\ target'[q] = target[q]
                 /\ snap'[q] = snap[q] /\ req'[q] = req[q]
    PROVE  WayBack(s)'
<1>1. ASSUME NEW q \in Request, svc(q)' = s PROVE SnapOK(q)'
  <2>1. CASE Aside(q)'
    BY <2>1, AsideOK DEF Aside, SnapOK, Swapping, HasTarget, BeforeSwap
  <2>2. CASE /\ pc'[q] = pc[q] /\ step'[q] = step[q] /\ target'[q] = target[q]
             /\ snap'[q] = snap[q] /\ req'[q] = req[q]
    <3>1. svc(q) = s
      BY <1>1, <2>2 DEF svc
    <3>2. SnapOK(q)
      BY <3>1 DEF WayBack
    <3> QED
      BY <1>1, <2>2, <3>1, <3>2 DEF SnapOK, SnapWords, Swapping, HasTarget, PreviousAfter
  <2> QED
    BY <1>1, <2>1, <2>2
<1> QED
  BY <1>1 DEF WayBack

\* The swap itself: it records what ran before, or nothing when the digest is the
\* one that ran.
LEMMA WayBackSwap ==
    ASSUME TypeOK, MutexHeld, StepsInRecreate, NEW r \in Request, SendSwap(r), ~cancelled[r],
           WayBack(svc(r))
    PROVE  WayBack(svc(r))'
<1> DEFINE s == svc(r)
<1>0. /\ s \in Service /\ pc[r] = "swap" /\ pc[r] \in Locked /\ SnapOK(r)
      /\ RequestStep(r) /\ step[r] = "idle" /\ UNCHANGED <<step, target, snap, req, ran>>
      /\ pc' = [pc EXCEPT ![r] = "verify"] /\ pc \in [Request -> PC]
  BY RequestService
  DEF TypeOK, RequestTypeOK, SendSwap, SendAndGoto, Goto, RequestStep, Locked, Started, WayBack,
      StepsInRecreate, daemonVars
<1>1. s' = s
  BY <1>0 DEF svc
<1>2. PICK m \in Message : channel' = Append(channel, m) /\ m = SwapOf(r)
  BY <1>0, RequestSends
<1>3. rows' = rows /\ m.svc = s /\ m.kind = "swap" /\ m.digest = target[r]
        /\ m.prev = IF snap[r].current = target[r] THEN NoDigest ELSE snap[r].current
  <2>1. snap[r].current # NoDigest
    BY <1>0, StoreAssumption DEF SnapOK, SnapWords, BeforeSwap
  <2> QED
    BY <1>0, <1>2, <2>1, RequestSends DEF SwapOf, PreviousToRecord
<1>4. ran[s].last = target[r] /\ ran[s].before = PreviousAfter(r) /\ PreviousWord(s, snap[r].previous)
        /\ snap[r].current # NoDigest
  BY <1>0, StoreAssumption DEF SnapOK, SnapWords, Swapping, BeforeSwap
<1> HIDE DEF s
<1>5. CurrentWord(s, ran[s].last)'
  BY <1>0, <1>1, <1>2, <1>3, <1>4, WordsSent DEF SetsCurrent, TypeOK
<1>6. PreviousWord(s, ran[s].before)'
  <2>1. CASE snap[r].current = target[r]
    <3>1. ~SetsPrevious(m, s) /\ ran[s].before = snap[r].previous
      BY <1>3, <1>4, <2>1 DEF SetsPrevious, PreviousAfter
    <3> QED
      BY <1>0, <1>1, <1>2, <1>3, <1>4, <3>1, WordsSent DEF TypeOK
  <2>2. CASE snap[r].current # target[r]
    <3>1. SetsPrevious(m, s) /\ ran[s].before = m.prev
      BY <1>3, <1>4, <2>2 DEF SetsPrevious, PreviousAfter
    <3> QED
      BY <1>0, <1>1, <1>2, <1>3, <3>1, WordsSent DEF TypeOK
  <2> QED
    BY <2>1, <2>2
<1>7. ASSUME NEW q \in Request, svc(q)' = s' PROVE SnapOK(q)'
  <2>1. Aside(q)'
    <3>1. CASE q = r
      BY <1>0, <3>1 DEF Aside, BeforeSwap
    <3>2. CASE q # r
      <4>1. svc(q) = svc(r)
        BY <1>0, <1>1, <1>7 DEF s, svc
      <4>2. step[q] = "idle" /\ pc[q] \notin Locked
        BY <1>0, <3>2, <4>1, OneRecreates
      <4> QED
        BY <1>0, <3>2, <4>2 DEF Aside, BeforeSwap, Locked, Started
    <3> QED
      BY <3>1, <3>2
  <2> QED
    BY <2>1 DEF Aside, SnapOK, Swapping, HasTarget, BeforeSwap
<1>8. CurrentWord(s, ran[s].last)' /\ PreviousWord(s, ran[s].before)'
  BY <1>5, <1>6
<1> QED
  BY <1>1, <1>7, <1>8 DEF WayBack, s

\* The other steps of a request inside the mutex: what it read stays the last word,
\* its target is a digest, and the start of the new container makes the history
\* what the swap is going to say.
LEMMA WayBackOwn ==
    ASSUME TypeOK, MutexHeld, StepsInRecreate, TargetInv, NEW r \in Request, RequestStep(r),
           pc[r] \in Locked, pc[r] # "swap", ~cancelled[r], NEW s \in Service, s = svc(r),
           s \notin stale', Steerable(s), WayBack(s)
    PROVE  WayBack(s)'
<1>0. /\ pc \in [Request -> PC] /\ step \in [Request -> Step] /\ target \in [Request -> Ref]
      /\ snap \in [Request -> Row] /\ req[r].op \in Op /\ SnapOK(r) /\ img(r) \in Image
      /\ ran \in [Service -> [last : Digest, before : Digest \cup {NoDigest}]]
      /\ rows[s] \in Row
  BY RequestService
  DEF TypeOK, RequestTypeOK, RecreateTypeOK, Request, DaemonTypeOK, StoreTypeOK, WayBack
<1>1. /\ \A q \in Request : svc(q)' = svc(q)
      /\ \A d : CurrentWord(s, d) => CurrentWord(s, d)'
      /\ \A d : PreviousWord(s, d) => PreviousWord(s, d)'
      /\ Window(s) => Window(s)'
      /\ req' = req
  BY SameContext, WordsOfRequest, WindowStep DEF svc
<1>2. \A q \in Request : q # r /\ svc(q) = s => Aside(q)'
  <2>1. \A q \in Request : q # r /\ svc(q) = s => step[q] = "idle" /\ pc[q] \notin Locked
    BY OneRecreates
  <2>2. BeforeSwap \subseteq Locked
    BY DEF BeforeSwap, Locked, Started
  <2> QED
    BY <2>1, <2>2, OtherRequest DEF Aside
<1>3. ran'[s] = ran[s] \/ (RecreateService(r) /\ step[r] = "start" /\ step'[r] = "ok")
  BY RecreateEffect, OutsideRecreate
<1>4. ~Window(s)' => CurrentWord(s, ran[s].last)' /\ PreviousWord(s, ran[s].before)'
  <2>1. step'[r] # "ok" => ran'[s] = ran[s]
    BY <1>3
  <2>2. step'[r] = "ok" => Window(s)'
    BY <1>1 DEF Window, Swapping
  <2> QED
    BY <1>1, <2>1, <2>2 DEF WayBack
<1> SUFFICES SnapOK(r)'
  <2>1. ASSUME NEW q \in Request, svc(q)' = s PROVE SnapOK(q)'
    <3>1. q # r => Aside(q)'
      BY <1>1, <1>2, <2>1
    <3> QED
      BY <3>1 DEF Aside, SnapOK, Swapping, HasTarget, BeforeSwap
  <2> QED
    BY <1>4, <2>1 DEF WayBack
<1>5. ASSUME pc[r] \in BeforeSwap, snap'[r] = snap[r]
      PROVE  SnapWords(r)'
  <2>1. SnapWords(r)
    BY <1>0, <1>5 DEF SnapOK
  <2> QED
    BY <1>1, <1>5, <2>1 DEF SnapWords
<1>6. ASSUME pc'[r] \notin BeforeSwap, step'[r] = "idle" PROVE SnapOK(r)'
  BY <1>6 DEF SnapOK, Swapping, HasTarget, BeforeSwap
<1>7. ASSUME pc[r] \in BeforeSwap, snap'[r] = snap[r], ~Swapping(r)',
             HasTarget(r)' => target'[r] \in Digest
      PROVE  SnapOK(r)'
  BY <1>1, <1>5, <1>7 DEF SnapOK
<1>8. step[r] # "idle" => pc[r] = "recreate"
  BY DEF StepsInRecreate
<1>9. CASE RecreateService(r)
  <2>1. /\ UNCHANGED <<pc, req, target, snap>> /\ pc[r] = "recreate"
        /\ svc(r)' = s /\ HasTarget(r) /\ target[r] \in Digest
    BY <1>0, <1>1, <1>9 DEF RecreateService, orchVars, SnapOK, HasTarget
  <2>2. CASE step'[r] # "ok"
    BY <1>7, <2>1, <2>2 DEF Swapping, BeforeSwap
  <2>3. CASE step'[r] = "ok"
    <3>1. step[r] = "start"
      BY <1>0, <1>9, <2>3, RecreateEffect
    <3>2. ~Window(s)
      BY <2>1, <3>1, OneSwaps DEF Swapping
    <3>3. ran[s].last = snap[r].current /\ ran[s].before = snap[r].previous
      <4>1. CurrentWord(s, ran[s].last) /\ PreviousWord(s, ran[s].before)
        BY <3>2 DEF WayBack
      <4>2. CurrentWord(s, snap[r].current) /\ PreviousWord(s, snap[r].previous)
        BY <1>0, <2>1 DEF SnapOK, SnapWords, BeforeSwap
      <4> QED
        BY <4>1, <4>2, OneWord DEF TypeOK
    <3>4. container[s].digest = target[r]
      BY <2>1, <3>1 DEF TargetInv, TargetOK, AfterCreate
    <3>5. ran'[s] = IF target[r] = snap[r].current THEN ran[s]
                    ELSE [last |-> target[r], before |-> snap[r].current]
      BY <1>9, <2>3, <3>1, <3>3, <3>4, RecreateEffect
    <3>6. ran'[s].last = target[r] /\ ran'[s].before = PreviousAfter(r)
      BY <3>3, <3>5 DEF PreviousAfter
    <3>7. PreviousAfter(r)' = PreviousAfter(r)
      BY <2>1 DEF PreviousAfter
    <3> QED
      BY <1>5, <2>1, <3>6, <3>7 DEF SnapOK, BeforeSwap
  <2> QED
    BY <2>2, <2>3
<1>10. CASE RecreateReturns(r)
  <2>1. /\ UNCHANGED <<target, snap, ran>> /\ pc[r] = "recreate" /\ step'[r] = "idle"
        /\ pc'[r] = IF step[r] = "ok" THEN "swap" ELSE "compose_failed"
    BY <1>0, <1>10 DEF RecreateReturns, Goto, daemonVars
  <2>2. CASE step[r] # "ok"
    BY <1>6, <2>1, <2>2 DEF BeforeSwap
  <2>3. CASE step[r] = "ok"
    <3>1. /\ target[r] \in Digest /\ ran[s].last = target[r] /\ ran[s].before = PreviousAfter(r)
      BY <1>0, <2>1, <2>3 DEF SnapOK, Swapping, HasTarget
    <3>2. PreviousAfter(r)' = PreviousAfter(r)
      BY <2>1 DEF PreviousAfter
    <3> QED
      BY <1>1, <1>5, <2>1, <3>1, <3>2 DEF SnapOK, BeforeSwap
  <2> QED
    BY <2>2, <2>3
<1>11. CASE Snapshot(r)
  <2>1. ~Pending(s) /\ ~Window(s) /\ pc[r] = "snapshot" /\ step'[r] = "idle"
    BY <1>8, <1>11, OneSwaps DEF Snapshot, Goto, Swapping, recreateVars
  <2>2. rows[s].current = ran[s].last /\ rows[s].previous = ran[s].before
    BY <2>1 DEF WayBack, CurrentWord, PreviousWord, SetsCurrent, SetsPrevious, Pending
  <2>3. CurrentWord(s, rows[s].current)' /\ PreviousWord(s, rows[s].previous)'
    <3>1. CurrentWord(s, ran[s].last) /\ PreviousWord(s, ran[s].before)
      BY <2>1 DEF WayBack
    <3> QED
      BY <1>1, <1>11, <2>2, <3>1 DEF Snapshot, storeVars
  <2>4. snap'[r] = rows[s] /\ rows' = rows
    BY <1>0, <1>11 DEF Snapshot, storeVars
  <2>5. rows[s].current \in Digest /\ rows[s].previous \in Digest \cup {NoDigest}
    BY <1>0, <2>2
  <2>6. ~HasTarget(r)' /\ ~Swapping(r)'
    BY <1>0, <1>1, <1>11, <2>1 DEF Snapshot, Goto, HasTarget, Swapping, Op
  <2> QED
    BY <1>1, <2>3, <2>4, <2>5, <2>6 DEF SnapOK, SnapWords
<1>12. CASE ChooseRollbackTarget(r)
  <2>1. /\ UNCHANGED <<snap, step>> /\ pc[r] = "choose" /\ step[r] = "idle"
        /\ pc'[r] \in {"start", "unlock"}
    BY <1>0, <1>8, <1>12 DEF ChooseRollbackTarget, Goto, recreateVars
  <2>2. CASE pc'[r] = "unlock"
    BY <1>6, <2>1, <2>2 DEF BeforeSwap
  <2>3. CASE pc'[r] = "start"
    <3>1. snap[r].previous \in Digest \cup {NoDigest}
      BY <1>0, <2>1 DEF SnapOK, SnapWords, BeforeSwap
    <3>2. NewestFallback(img(r), snap[r]) \subseteq Digest
      BY DEF NewestFallback, FallbackCandidates
    <3>3. /\ AnsweredTargets(img(r), snap[r]) \subseteq Digest \cup {NoDigest}
          /\ FaultyTargets(img(r), snap[r]) \subseteq Digest \cup {NoDigest}
      BY <3>1, <3>2 DEF AnsweredTargets, FaultyTargets
    <3>4. \E t \in Digest : target' = [target EXCEPT ![r] = t]
      BY <1>0, <1>12, <2>1, <2>3, <3>3 DEF ChooseRollbackTarget, Acceptable, Goto
    <3>5. target'[r] \in Digest
      BY <1>0, <3>4
    <3> QED
      BY <1>7, <2>1, <2>3, <3>5 DEF BeforeSwap, Swapping
  <2> QED
    BY <2>1, <2>2, <2>3
<1>13. CASE Pull(r)
  <2>1. UNCHANGED <<snap, step>> /\ pc[r] = "pull" /\ step[r] = "idle"
    BY <1>8, <1>13 DEF Pull, Goto, recreateVars
  <2>2. CASE pc'[r] = "pull_failed"
    BY <1>6, <2>1, <2>2 DEF BeforeSwap
  <2>3. CASE pc'[r] # "pull_failed"
    <3>1. \E d \in Digest : target' = [target EXCEPT ![r] = d]
      BY <1>0, <1>13, <2>3 DEF Pull, DrainPullStream, Goto, TypeOK, DaemonTypeOK
    <3>2. target'[r] \in Digest /\ pc'[r] = "crosscheck"
      BY <1>0, <1>13, <2>3, <3>1 DEF Pull, Goto
    <3> QED
      BY <1>7, <2>1, <3>2 DEF BeforeSwap, Swapping
  <2> QED
    BY <2>2, <2>3
<1>14. CASE CrossCheck(r) \/ Retag(r)
  <2>1. UNCHANGED <<snap, step, target>> /\ pc[r] \in {"crosscheck", "retag"} /\ step[r] = "idle"
          /\ pc'[r] \in {"progress", "result", "pull_failed"}
    BY <1>0, <1>8, <1>14 DEF CrossCheck, Retag, Goto, recreateVars
  <2>2. target[r] \in Digest
    BY <1>0, <2>1 DEF SnapOK, HasTarget
  <2> QED
    BY <1>7, <2>1, <2>2 DEF BeforeSwap, Swapping
<1>15. CASE SendStart(r)
  <2>1. UNCHANGED <<snap, step, target>> /\ pc[r] = "start" /\ step[r] = "idle"
          /\ pc'[r] = IF req[r].op = "rolling_back" THEN "retag" ELSE "pull"
    BY <1>0, <1>8, <1>15 DEF SendStart, SendAndGoto, Goto
  <2>2. req[r].op = "rolling_back" => target[r] \in Digest
    BY <1>0, <2>1 DEF SnapOK, HasTarget
  <2> QED
    BY <1>7, <2>1, <2>2 DEF BeforeSwap, Swapping, HasTarget
<1>16. CASE SendProgress(r)
  <2>1. UNCHANGED <<snap, target>> /\ pc[r] = "progress" /\ step'[r] = "list"
          /\ pc'[r] = "recreate"
    BY <1>0, <1>16 DEF SendProgress, SendAndGoto, Goto
  <2>2. target[r] \in Digest
    BY <1>0, <2>1 DEF SnapOK, HasTarget
  <2> QED
    BY <1>7, <2>1, <2>2 DEF BeforeSwap, Swapping
<1>17. CASE LockService(r) \/ ComposeFileMoved(r)
  BY <1>17 DEF LockService, ComposeFileMoved, Goto, Locked, Started
<1>18. CASE VerifyNew(r) \/ SendResult(r) \/ SendFailure(r) \/ Unlock(r)
  <2>1. UNCHANGED step /\ pc[r] # "recreate" /\ pc'[r] \notin BeforeSwap
    BY <1>0, <1>18 DEF VerifyNew, SendResult, SendFailure, SendAndGoto, Unlock, Goto, Phase,
                       recreateVars, BeforeSwap
  <2> QED
    BY <1>6, <1>8, <2>1
<1>19. CASE SendSwap(r)
  BY <1>19 DEF SendSwap, SendAndGoto, Goto
<1> QED
  BY <1>9, <1>10, <1>11, <1>12, <1>13, <1>14, <1>15, <1>16, <1>17, <1>18, <1>19 DEF RequestStep

\* Every step keeps the way back.
LEMMA PreviousStep ==
    ASSUME TypeOK, SpinnerInv, StepsInRecreate, TargetInv, RecordInv, PreviousInv, [Next]_vars
    PROVE  PreviousInv'
<1> SUFFICES ASSUME NEW s \in Service, s \notin Sideloaded, s \notin stale', Undisturbed(s)',
                    Steerable(s)'
             PROVE  WayBack(s)'
  BY DEF PreviousInv, WayBack
<1>0. stale \subseteq stale'
  <2>1. CASE UNCHANGED vars \/ Updater \/ Restart \/ Outside
          \/ \E r \in Request : Arrive(r) \/ ClientGone(r)
    BY <2>1 DEF vars, orchVars, Updater, Restart, Outside, Arrive, ClientGone
  <2>2. ASSUME NEW r \in Request, RequestStep(r) PROVE stale \subseteq stale'
    BY <2>2 DEF RequestStep, ComposeFileMoved, LockService, Snapshot, ChooseRollbackTarget,
       SendStart, SendAndGoto, Pull, CrossCheck, Retag, SendProgress, RecreateService,
       RecreateReturns, SendSwap, VerifyNew, SendResult, SendFailure, Unlock, orchVars
  <2> QED
    BY <2>1, <2>2 DEF Next
<1>1. /\ Undisturbed(s) /\ Steerable(s) /\ rows[s].known /\ WayBack(s)
      /\ pc \in [Request -> PC] /\ step \in [Request -> Step]
      /\ \A q \in Request : svc(q) = s => ~cancelled[q]
  BY <1>0, UndisturbedBefore, ConfigKept
  DEF TypeOK, RecreateTypeOK, Request, RecordInv, PreviousInv, WayBack, Undisturbed, Abandoned
<1>2. CASE UNCHANGED vars \/ Outside \/ \E r \in Request : ClientGone(r)
  <2>1. UNCHANGED <<rows, channel, ran, step, pc, req, snap, target>>
    BY <1>2 DEF vars, Outside, Publish, Prune, ClientGone, storeVars, daemonVars, recreateVars,
                orchVars
  <2>2. Window(s) => Window(s)'
    BY <2>1 DEF Window, Swapping, svc
  <2>3. /\ \A d : CurrentWord(s, d) => CurrentWord(s, d)'
        /\ \A d : PreviousWord(s, d) => PreviousWord(s, d)'
    BY <2>1 DEF CurrentWord, SetsCurrent, PreviousWord, SetsPrevious
  <2> QED
    BY <1>1, <2>1, <2>2, <2>3, WayBackFrame
<1>3. CASE Updater
  <2>1. UNCHANGED <<ran, step, pc, req, snap, target>>
    BY <1>3 DEF Updater, daemonVars, recreateVars
  <2>2. Window(s) => Window(s)'
    BY <2>1 DEF Window, Swapping, svc
  <2>3. /\ \A d : CurrentWord(s, d) => CurrentWord(s, d)'
        /\ \A d : PreviousWord(s, d) => PreviousWord(s, d)'
    BY <1>1, <1>3, WordsApplied DEF Updater, TypeOK
  <2> QED
    BY <1>1, <2>1, <2>2, <2>3, WayBackFrame
<1>4. CASE Restart
  BY <1>4 DEF Restart, Undisturbed, TypeOK
<1>5. ASSUME NEW r \in Request, Arrive(r) PROVE WayBack(s)'
  <2>1. UNCHANGED <<rows, channel, ran, step, snap, target>> /\ pc[r] = "idle" /\ step[r] = "idle"
          /\ pc'[r] = "check"
    BY <1>1, <1>5 DEF Arrive, Goto, storeVars, daemonVars, recreateVars, StepsInRecreate
  <2>2. \A q \in Request : q # r => pc'[q] = pc[q] /\ req'[q] = req[q]
    BY <1>1, <1>5 DEF Arrive, Goto, TypeOK
  <2>3. Window(s) => Window(s)'
    BY <2>1, <2>2 DEF Window, Swapping, svc
  <2>4. /\ \A d : CurrentWord(s, d) => CurrentWord(s, d)'
        /\ \A d : PreviousWord(s, d) => PreviousWord(s, d)'
    BY <2>1 DEF CurrentWord, SetsCurrent, PreviousWord, SetsPrevious
  <2>5. Aside(r)'
    BY <2>1 DEF Aside, BeforeSwap
  <2> QED
    BY <1>1, <2>1, <2>2, <2>3, <2>4, <2>5, WayBackFrame
<1>6. ASSUME NEW r \in Request, RequestStep(r), svc(r) # s PROVE WayBack(s)'
  <2>1. \A q \in Request : svc(q)' = svc(q) /\ (svc(q) = s => q # r)
    BY <1>6, SameContext DEF svc
  <2>2. \A q \in Request : svc(q) = s =>
          /\ pc'[q] = pc[q] /\ step'[q] = step[q] /\ target'[q] = target[q]
          /\ snap'[q] = snap[q] /\ req'[q] = req[q]
    BY <1>6, <2>1, OtherRequest
  <2>3. Window(s) => Window(s)'
    BY <2>1, <2>2 DEF Window, Swapping
  <2>4. /\ \A d : CurrentWord(s, d) => CurrentWord(s, d)'
        /\ \A d : PreviousWord(s, d) => PreviousWord(s, d)'
    BY <1>6, WordsOfRequest
  <2>5. ran'[s] = ran[s]
    BY <1>6, OtherService
  <2> QED
    BY <1>1, <2>1, <2>2, <2>3, <2>4, <2>5, WayBackFrame
<1>7. ASSUME NEW r \in Request, RequestStep(r), svc(r) = s, pc[r] \notin Locked
      PROVE  WayBack(s)'
  <2>1. /\ UNCHANGED <<rows, channel, ran, step, snap, target>> /\ pc[r] = "check"
        /\ pc'[r] \in {"snapshot", "done"} /\ \A q \in Request : q # r => pc'[q] = pc[q]
    BY <1>1, <1>7, UnlockedStep DEF storeVars, daemonVars
  <2>2. \A q \in Request : req'[q] = req[q] /\ svc(q)' = svc(q)
    BY <1>7, SameContext DEF svc
  <2>3. Aside(r)'
    BY <2>1 DEF Aside, BeforeSwap, StepsInRecreate
  <2>4. Window(s) => Window(s)'
    BY <1>7, <2>1, WindowStep
  <2>5. /\ \A d : CurrentWord(s, d) => CurrentWord(s, d)'
        /\ \A d : PreviousWord(s, d) => PreviousWord(s, d)'
    BY <2>1 DEF CurrentWord, SetsCurrent, PreviousWord, SetsPrevious
  <2> QED
    BY <1>1, <2>1, <2>2, <2>3, <2>4, <2>5, WayBackFrame
<1>8. ASSUME NEW r \in Request, RequestStep(r), svc(r) = s, pc[r] \in Locked, pc[r] # "swap"
      PROVE  WayBack(s)'
  BY <1>1, <1>8, WayBackOwn DEF SpinnerInv
<1>9. ASSUME NEW r \in Request, RequestStep(r), svc(r) = s, pc[r] = "swap"
      PROVE  WayBack(s)'
  <2>1. SendSwap(r)
    BY <1>9 DEF RequestStep, ComposeFileMoved, LockService, Snapshot, ChooseRollbackTarget,
       SendStart, SendAndGoto, Pull, CrossCheck, Retag, SendProgress, RecreateService,
       RecreateReturns, VerifyNew, SendResult, SendFailure, Unlock, Goto, Phase
  <2>2. WayBack(svc(r))'
    BY <1>1, <1>9, <2>1, WayBackSwap DEF SpinnerInv
  <2>3. svc(r)' = s
    BY <1>9, SameContext DEF svc
  <2> QED
    BY <2>2, <2>3 DEF WayBack
<1> QED
  BY <1>2, <1>3, <1>4, <1>5, <1>6, <1>7, <1>8, <1>9 DEF Next

\* Each service runs its first digest, as its row says, and nothing ran before.
LEMMA InitPrevious == Init => PreviousInv
<1> SUFFICES ASSUME Init PROVE PreviousInv
  OBVIOUS
<1>1. \A r \in Request : Aside(r)
  BY DEF Init, NoRequestYet, RecreateInit, Request, Aside, BeforeSwap
<1>2. channel = <<>>
  BY DEF Init, NoRequestYet
<1>3. \A s \in Service \ Sideloaded : /\ rows[s].current = container[s].digest
                                      /\ rows[s].previous = NoDigest
  <2>1. rows = DiscoveredRows
    BY DEF Init
  <2> QED
    BY <2>1 DEF DiscoveredRows, NoRow
<1>4. \A s \in Service : container[s].digest = ran[s].last /\ ran[s].before = NoDigest
  <2>1. PICK config \in [Service -> Configs] :
          container = [s \in Service |-> [status |-> "running",
                                          digest |-> tagged[ImageOf[s]], id |-> 1,
                                          nets |-> config[s].nets, aliases |-> {1},
                                          config |-> config[s]]]
    BY DEF Init, NoRequestYet, DaemonInit
  <2> QED
    BY <2>1 DEF Init, NoRequestYet, DaemonInit
<1>5. \A s \in Service \ Sideloaded : CurrentWord(s, ran[s].last) /\ PreviousWord(s, ran[s].before)
  <2>1. ASSUME NEW s, NEW d
        PROVE  /\ rows[s].current = d => CurrentWord(s, d)
               /\ rows[s].previous = d => PreviousWord(s, d)
    BY <1>2 DEF CurrentWord, PreviousWord
  <2> QED
    BY <1>3, <1>4, <2>1
<1> QED
  BY <1>1, <1>5, AsideOK DEF PreviousInv

\* Update and Rollback: previous_digest is the last digest the service ran that
\* differs from the one it runs, through updates, rollbacks, same-digest and failed
\* recreates, for every set of services and requests, as long as every request read
\* an up-to-date row.
THEOREM WaysBack == Spec => []PreviousIsWayBack
<1>1. Spec => []PreviousInv
  BY InitPrevious, PreviousStep, RecordInvariant, SpinnerInvariant, Types, PTL DEF Spec
<1>2. SpinnerInv /\ StepsInRecreate /\ PreviousInv => PreviousIsWayBack
  <2> SUFFICES ASSUME SpinnerInv, StepsInRecreate, PreviousInv,
                      NEW s \in Service \ (Sideloaded \cup stale), Settled(s), Undisturbed(s),
                      Steerable(s)
               PROVE  rows[s].previous = ran[s].before
    BY DEF PreviousIsWayBack
  <2>1. ~Window(s)
    BY OrchestratorAssumption
    DEF Window, Swapping, Settled, SpinnerInv, MutexHeld, StepsInRecreate, Locked, Started
  <2>2. PreviousWord(s, ran[s].before)
    BY <2>1 DEF PreviousInv
  <2> QED
    BY <2>2 DEF PreviousWord, SetsPrevious, Settled, Pending
<1> QED
  BY <1>1, <1>2, RecordInvariant, SpinnerInvariant, PTL
=============================================================================
