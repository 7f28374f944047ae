---------------------------- MODULE Orchestrator ----------------------------
(***************************************************************************)
(* The action orchestrator: Update, Rollback and ForcePull as goroutines   *)
(* of the HTTP server, one per request, over the per-service mutexes, the  *)
(* docker daemon and the state-update channel.                             *)
(*                                                                         *)
(* Each request runs with the context of its HTTP request, which is done   *)
(* as soon as the client goes away.  The process may be killed at any      *)
(* moment and restarted on the document it left on disk.                   *)
(***************************************************************************)
EXTENDS Recreate

CONSTANTS NoOne,         \* nobody holds a mutex
          Sideloaded,    \* services found running an image without a repository digest
          MayCancel,     \* clients may go away
          MayFault,      \* the daemon may fail to answer a read-only question
          MaxRestarts    \* bound on how often the process is killed

Request == Caller        \* every request calls recreate.Service for itself

ASSUME OrchestratorAssumption ==
    /\ NoOne \notin Request
    /\ Service # {}
    /\ Sideloaded \subseteq Service
    /\ MayCancel \in BOOLEAN
    /\ MayFault \in BOOLEAN
    /\ MaxRestarts \in Nat

VARIABLES pc,        \* where each request is
          req,       \* its service and action
          snap,      \* the row it read after taking the mutex
          target,    \* the digest it pulled or rolls back to
          held,      \* who holds the mutex of each service
          stale,     \* history: services whose row was read while messages were pending
          orphaned,  \* history: services booted with action_in_flight set
          restarts   \* history: how often the process was restarted

orchVars == <<pc, req, snap, target, held, stale, orphaned, restarts>>

vars == <<storeVars, daemonVars, recreateVars, orchVars>>

\* The states of a request, in the order of the code.
PC == {"idle", "check", "snapshot", "choose", "start", "pull", "crosscheck",
       "retag", "progress", "recreate", "swap", "verify", "result",
       "pull_failed", "compose_failed", "verify_failed", "unlock", "done"}

\* From the send of KindActionStart until the send of KindActionResult.
Started == {"pull", "crosscheck", "retag", "progress", "recreate", "swap",
            "verify", "result", "pull_failed", "compose_failed", "verify_failed"}

\* Holding the mutex.
Locked == Started \cup {"snapshot", "choose", "start", "unlock"}

svc(r) == req[r].svc
img(r) == ImageOf[svc(r)]

NoRow == [known |-> FALSE, current |-> NoDigest, currentAt |-> 0,
          previous |-> NoDigest, available |-> NoDigest,
          updateAvailable |-> FALSE, inFlight |-> Idle, error |-> NoError,
          containerID |-> 0, stopped |-> FALSE,
          pinned |-> FALSE, blocked |-> {}, notes |-> NoNote]

Goto(r, from, to) == /\ pc[r] = from
                     /\ pc' = [pc EXCEPT ![r] = to]

-----------------------------------------------------------------------------
(* Entering an action.                                                     *)

\* The middleware's gates on the row: it is there, and its labels do not disable
\* the action.  Those on the name and on the program's own service do not change.
LookupContainer(s) == rows[s].known
CheckSafetyLabel(s, op) == op \notin rows[s].blocked

\* An HTTP handler lets a request through to Update, Rollback or
\* ForcePull(recreate=false); ForcePull(recreate=true) is Update.
Arrive(r) ==
    /\ Goto(r, "idle", "check")
    /\ \E s \in Service, op \in Op :
         /\ LookupContainer(s)
         /\ CheckSafetyLabel(s, op)
         /\ req' = [req EXCEPT ![r] = [svc |-> s, op |-> op]]
    /\ UNCHANGED <<storeVars, daemonVars, recreateVars,
                   snap, target, held, stale, orphaned, restarts>>

\* compose.Reader.CheckUnchanged refuses before the mutex is taken; force-pull
\* does not ask.
ComposeFileMoved(r) ==
    /\ Goto(r, "check", "done")
    /\ req[r].op # "force_pulling"
    /\ UNCHANGED <<storeVars, daemonVars, recreateVars,
                   req, snap, target, held, stale, orphaned, restarts>>

\* Mutant of LockService: nobody is refused.
LockServiceUnchecked(r) ==
    /\ Goto(r, "check", "snapshot")
    /\ held' = [held EXCEPT ![svc(r)] = r]
    /\ UNCHANGED <<storeVars, daemonVars, recreateVars,
                   req, snap, target, stale, orphaned, restarts>>

\* lockService: TryLock, and 409 service_busy when somebody else has it.
LockService(r) ==
    /\ \/ /\ held[svc(r)] = NoOne
          /\ Goto(r, "check", "snapshot")
          /\ held' = [held EXCEPT ![svc(r)] = r]
       \/ /\ held[svc(r)] # NoOne
          /\ Goto(r, "check", "done")
          /\ UNCHANGED held
    /\ UNCHANGED <<storeVars, daemonVars, recreateVars,
                   req, snap, target, stale, orphaned, restarts>>

\* The row is read from the store as it is, whatever is still in the channel.
\* Update is a no-op when the row already shows the available digest.
Snapshot(r) ==
    LET row == rows[svc(r)]
    IN  /\ snap' = [snap EXCEPT ![r] = row]
        /\ stale' = IF Pending(svc(r)) THEN stale \cup {svc(r)} ELSE stale
        /\ Goto(r, "snapshot",
                IF ~row.known THEN "unlock"
                ELSE CASE req[r].op = "force_pulling" -> "start"
                       [] req[r].op = "rolling_back" -> "choose"
                       [] req[r].op = "updating" ->
                            IF row.available # NoDigest /\ row.current = row.available
                            THEN "unlock" ELSE "start")
        /\ UNCHANGED <<storeVars, daemonVars, recreateVars,
                       req, target, held, orphaned, restarts>>

-----------------------------------------------------------------------------
(* Choosing what to roll back to.                                          *)

\* The local images findFallbackRollbackTarget considers: listed under the
\* repository, not the current one, built strictly before it.
FallbackCandidates(i, row) ==
    {d \in Digest : /\ cache[i][d] = "listed"
                    /\ d # row.current
                    /\ row.currentAt > 0 => BuiltAt[d] < row.currentAt}

\* The newest of them (sort.Slice settles a tie either way).
NewestFallback(i, row) ==
    LET C == FallbackCandidates(i, row)
    IN  {d \in C : \A e \in C : BuiltAt[e] <= BuiltAt[d]}

\* The digest Rollback settles on when the daemon answers every question; NoDigest
\* is 400 no_previous_digest.  A recorded previous digest gives way to a local
\* image when the daemon no longer has it, or when it is the current digest.
AnsweredTargets(i, row) ==
    LET present == row.previous # NoDigest /\ Inspectable(i, row.previous)
        stuck == row.previous = row.current /\ NewestFallback(i, row) # {}
    IN  IF present /\ ~stuck THEN {row.previous}
        ELSE IF NewestFallback(i, row) # {} THEN NewestFallback(i, row)
        ELSE {NoDigest}

\* When some of the questions fail: each failure reads as "not there".
FaultyTargets(i, row) ==
    {NoDigest} \cup NewestFallback(i, row)
               \cup {p \in {row.previous} : Inspectable(i, p)}

\* Mutant of OlderThanCurrent: another image is enough.
OtherThanCurrent(i, row, t) == row.currentAt > 0 => CreatedOf(i, t) # row.currentAt

\* The strict-downgrade gate: open when the build time of the current image is
\* not known.
OlderThanCurrent(i, row, t) == row.currentAt > 0 => CreatedOf(i, t) < row.currentAt

\* The targets that get past "no previous digest", "already there" and the gate.
Acceptable(i, row, T) ==
    {t \in T \ {NoDigest, row.current} : OlderThanCurrent(i, row, t)}

\* A question fails when the daemon does not answer or the context is done.  The
\* gate is also open when the candidate cannot be inspected.
ChooseRollbackTarget(r) ==
    /\ \/ /\ ~cancelled[r]
          /\ LET T == AnsweredTargets(img(r), snap[r])
                 A == Acceptable(img(r), snap[r], T)
             IN  \/ /\ \E t \in A : target' = [target EXCEPT ![r] = t]
                    /\ Goto(r, "choose", "start")
                 \/ /\ T \ A # {}
                    /\ Goto(r, "choose", "unlock")
                    /\ UNCHANGED target
       \/ /\ MayFault \/ cancelled[r]
          /\ \/ /\ \E t \in FaultyTargets(img(r), snap[r]) \ {NoDigest, snap[r].current} :
                     target' = [target EXCEPT ![r] = t]
                /\ Goto(r, "choose", "start")
             \/ /\ Goto(r, "choose", "unlock")
                /\ UNCHANGED target
    /\ UNCHANGED <<storeVars, daemonVars, recreateVars,
                   req, snap, held, stale, orphaned, restarts>>

-----------------------------------------------------------------------------
(* The body of an action.                                                  *)

\* send: the message is queued, or dropped when the request's context is done.
Send(r, m) == Post(m) \/ (cancelled[r] /\ UNCHANGED channel)

SendAndGoto(r, from, to, m) ==
    /\ Goto(r, from, to)
    /\ Send(r, m)
    /\ UNCHANGED <<rows, disk, daemonVars, extras, leftover, cancelled,
                   req, snap, target, held, stale, orphaned, restarts>>

SendStart(r) ==
    /\ SendAndGoto(r, "start", IF req[r].op = "rolling_back" THEN "retag" ELSE "pull",
                   [kind |-> "start", svc |-> svc(r), op |-> req[r].op])
    /\ UNCHANGED step

\* The digest the progress stream of a pull ends with; none when the stream
\* reports an error, breaks off or names no digest.
DrainPullStream(i) == {registry[i], NoDigest}

\* ImagePull and the drain of its progress stream.  A pull whose stream breaks
\* off may have moved the tag all the same.
Pull(r) ==
    /\ \/ /\ Goto(r, "pull", "crosscheck")
          /\ ~cancelled[r]
          /\ PullImage(img(r))
          /\ \E d \in DrainPullStream(img(r)) \ {NoDigest} :
               target' = [target EXCEPT ![r] = d]
       \/ /\ Goto(r, "pull", "pull_failed")
          /\ PullImage(img(r)) \/ UNCHANGED daemonVars
          /\ UNCHANGED target
    /\ UNCHANGED <<storeVars, recreateVars, req, snap, held, stale, orphaned, restarts>>

\* The pulled digest must be what the registry says now.
CrossCheck(r) ==
    /\ \/ /\ ~cancelled[r]
          /\ registry[img(r)] = target[r]
          /\ Goto(r, "crosscheck",
                  IF req[r].op = "force_pulling" THEN "result" ELSE "progress")
       \/ Goto(r, "crosscheck", "pull_failed")
    /\ UNCHANGED <<storeVars, daemonVars, recreateVars,
                   req, snap, target, held, stale, orphaned, restarts>>

\* Mutant of Retag: the container is recreated from the tag as it was.
RetagForgotten(r) ==
    /\ Goto(r, "retag", "progress")
    /\ UNCHANGED <<storeVars, daemonVars, recreateVars,
                   req, snap, target, held, stale, orphaned, restarts>>

\* ImageTag(image@target -> image:tag), by bare digest if need be.
Retag(r) ==
    /\ \/ /\ ~cancelled[r]
          /\ Inspectable(img(r), target[r])
          /\ Goto(r, "retag", "progress")
          /\ TagImage(img(r), target[r])
       \/ /\ Goto(r, "retag", "pull_failed")
          /\ \/ UNCHANGED daemonVars
             \/ Inspectable(img(r), target[r]) /\ ActedAnyway(r, TagImage(img(r), target[r]))
    /\ UNCHANGED <<storeVars, recreateVars,
                   req, snap, target, held, stale, orphaned, restarts>>

\* The progress message changes nothing; then recreate.Service is called.
SendProgress(r) ==
    /\ SendAndGoto(r, "progress", "recreate", [kind |-> "progress", svc |-> svc(r)])
    /\ step' = [step EXCEPT ![r] = "list"]

RecreateService(r) ==
    /\ pc[r] = "recreate"
    /\ RecreateStep(r, svc(r))
    /\ UNCHANGED <<storeVars, orchVars>>

\* Mutant of RecreateReturns: the error path is missing.
RecreateReturnsOnSuccess(r) ==
    /\ step[r] = "ok"
    /\ step' = [step EXCEPT ![r] = "idle"]
    /\ Goto(r, "recreate", "swap")
    /\ UNCHANGED <<storeVars, daemonVars, extras, leftover, cancelled,
                   req, snap, target, held, stale, orphaned, restarts>>

\* recreate.Service returns.
RecreateReturns(r) ==
    /\ step[r] \in {"ok", "err"}
    /\ step' = [step EXCEPT ![r] = "idle"]
    /\ Goto(r, "recreate", IF step[r] = "ok" THEN "swap" ELSE "compose_failed")
    /\ UNCHANGED <<storeVars, daemonVars, extras, leftover, cancelled,
                   req, snap, target, held, stale, orphaned, restarts>>

\* Mutant of PreviousToRecord: a recreate on the same digest records it as well.
PreviousAlways(op, row, digest) == row.current

\* The previous digest to record: the digest of the row that was read; Update
\* takes the image name when that digest is empty.  Never the digest installed.
PreviousToRecord(op, row, digest) ==
    LET p == IF row.current = NoDigest /\ op = "updating" THEN RepoName ELSE row.current
    IN  IF p = digest THEN NoDigest ELSE p

\* The digest swap is sent as soon as the new container runs.
SendSwap(r) ==
    /\ SendAndGoto(r, "swap", "verify",
                   [kind |-> "swap", svc |-> svc(r), op |-> req[r].op,
                    digest |-> target[r],
                    prev |-> PreviousToRecord(req[r].op, snap[r], target[r])])
    /\ UNCHANGED step

\* inspectAndVerify: see module Verify for the loop.
VerifyNew(r) ==
    /\ \/ /\ ~cancelled[r]
          /\ container[svc(r)].status = "running"
          /\ Goto(r, "verify", "result")
       \/ Goto(r, "verify", "verify_failed")
    /\ UNCHANGED <<storeVars, daemonVars, recreateVars,
                   req, snap, target, held, stale, orphaned, restarts>>

\* Success: clear the spinner; force-pull also records what it pulled.
SendResult(r) ==
    /\ SendAndGoto(r, "result", "unlock",
                   IF req[r].op = "force_pulling"
                   THEN [kind |-> "pulled", svc |-> svc(r), digest |-> target[r]]
                   ELSE [kind |-> "result", svc |-> svc(r)])
    /\ UNCHANGED step

\* sendFailureResult clears the spinner and says which phase failed.
SendFailure(r) ==
    /\ \E phase \in Phase :
         SendAndGoto(r, CASE phase = "pull" -> "pull_failed"
                          [] phase = "compose" -> "compose_failed"
                          [] phase = "verify" -> "verify_failed",
                     "unlock",
                     [kind |-> "failure", svc |-> svc(r), phase |-> phase])
    /\ UNCHANGED step

\* The deferred unlock, and the handler returns.
Unlock(r) ==
    /\ Goto(r, "unlock", "done")
    /\ held' = [held EXCEPT ![svc(r)] = NoOne]
    /\ snap' = [snap EXCEPT ![r] = NoRow]
    /\ target' = [target EXCEPT ![r] = NoDigest]
    /\ UNCHANGED <<storeVars, daemonVars, recreateVars, req, stale, orphaned, restarts>>

-----------------------------------------------------------------------------
(* The environment and the specification.                                  *)

\* The client goes away: r.Context() is done.
ClientGone(r) ==
    /\ MayCancel
    /\ pc[r] \notin {"idle", "done"}
    /\ ~cancelled[r]
    /\ cancelled' = [cancelled EXCEPT ![r] = TRUE]
    /\ UNCHANGED <<storeVars, daemonVars, step, extras, leftover, orchVars>>

\* The process is killed and started again.  No handler survives.
Restart ==
    /\ restarts < MaxRestarts
    /\ Reload
    /\ restarts' = restarts + 1
    /\ pc' = [r \in Request |-> IF pc[r] = "idle" THEN "idle" ELSE "done"]
    /\ step' = [r \in Request |-> "idle"]
    /\ extras' = [r \in Request |-> {}]
    /\ snap' = [r \in Request |-> NoRow]
    /\ target' = [r \in Request |-> NoDigest]
    /\ held' = [s \in Service |-> NoOne]
    /\ orphaned' = {s \in Service : disk[s].inFlight # Idle}
    /\ CloseStream
    /\ UNCHANGED <<leftover, cancelled, req, stale>>

\* The world outside: upstream pushes, images are pruned.
Outside ==
    /\ \E i \in Image : Publish(i) \/ Prune(i)
    /\ UNCHANGED <<storeVars, recreateVars, orchVars>>

\* runUpdater; a spinner left over from before a restart is over when it clears.
Updater ==
    /\ Consume
    /\ orphaned' = {s \in orphaned : rows'[s].inFlight # Idle}
    /\ UNCHANGED <<daemonVars, recreateVars, pc, req, snap, target, held, stale, restarts>>

RequestStep(r) ==
    \/ ComposeFileMoved(r) \/ LockService(r) \/ Snapshot(r) \/ ChooseRollbackTarget(r)
    \/ SendStart(r) \/ Pull(r) \/ CrossCheck(r) \/ Retag(r) \/ SendProgress(r)
    \/ RecreateService(r) \/ RecreateReturns(r) \/ SendSwap(r) \/ VerifyNew(r)
    \/ SendResult(r) \/ SendFailure(r) \/ Unlock(r)

\* A document as discovery left it; the digest is empty for a sideloaded image.
DiscoveredRows ==
    [s \in Service |->
       [NoRow EXCEPT !.known = TRUE,
                     !.current = IF s \in Sideloaded THEN NoDigest ELSE container[s].digest,
                     !.currentAt = BuiltAt[container[s].digest],
                     !.containerID = container[s].id,
                     !.pinned = container[s].config.pinned,
                     !.blocked = container[s].config.blocked]]

\* The process has just started and has had no request yet.
NoRequestYet ==
    /\ DaemonInit
    /\ RecreateInit
    /\ channel = <<>>
    /\ pc = [r \in Request |-> "idle"]
    /\ req = [r \in Request |-> [svc |-> CHOOSE s \in Service : TRUE, op |-> "updating"]]
    /\ snap = [r \in Request |-> NoRow]
    /\ target = [r \in Request |-> NoDigest]
    /\ held = [s \in Service |-> NoOne]
    /\ stale = {}
    /\ restarts = 0

Init == NoRequestYet /\ rows = DiscoveredRows /\ disk = rows /\ orphaned = {}

Next ==
    \/ \E r \in Request : Arrive(r) \/ RequestStep(r) \/ ClientGone(r)
    \/ Updater
    \/ Restart
    \/ Outside

Spec == Init /\ [][Next]_vars

\* Go runs every goroutine: a handler that can take a step takes one, and the
\* consumer drains the channel.  Clients, upstream and crashes owe nothing.
Fairness == /\ \A r \in Request : WF_vars(RequestStep(r))
            /\ WF_vars(Updater)

FairSpec == Spec /\ Fairness
-----------------------------------------------------------------------------
(* Properties.                                                             *)

TypeOK ==
    /\ StoreTypeOK
    /\ DaemonTypeOK
    /\ RecreateTypeOK
    /\ pc \in [Request -> PC]
    /\ req \in [Request -> [svc : Service, op : Op]]
    /\ snap \in [Request -> Row]
    /\ target \in [Request -> Ref]
    /\ held \in [Service -> Request \cup {NoOne}]
    /\ stale \in SUBSET Service
    /\ orphaned \in SUBSET Service
    /\ restarts \in Nat

\* A message whose Apply clears action_in_flight.
Clears(m) == m.kind \in {"result", "pulled", "failure"}

\* Some client of an action on s went away.
Abandoned(s) == \E r \in Request : cancelled[r] /\ svc(r) = s

\* Nobody works on s and nothing about s waits to be applied.
Settled(s) == held[s] = NoOne /\ ~Pending(s)

\* The spinner the UI shows has an owner: action_in_flight is set only while a
\* request between its KindActionStart and its KindActionResult works on the
\* service, or the message that clears it is on its way -- unless a client went
\* away (its messages may be dropped) or the process was restarted on a document
\* that had the spinner on.
SpinnerOwned ==
    \A s \in Service :
       rows[s].inFlight # Idle =>
          \/ \E r \in Request : svc(r) = s /\ pc[r] \in Started
          \/ \E i \in DOMAIN channel : channel[i].svc = s /\ Clears(channel[i])
          \/ Abandoned(s)
          \/ s \in orphaned

\* The spinner does not go out, and never shows another action, while an action
\* runs: once everything sent has been applied, the row of a service shows the
\* action of the request that is between its start and its result.
SpinnerTruthful ==
    \A r \in Request :
       (pc[r] \in Started /\ ~cancelled[r] /\ ~Pending(svc(r)))
          => rows[svc(r)].inFlight = req[r].op

\* Nothing that drops messages happened to s: no client went away, no restart.
Undisturbed(s) == ~Abandoned(s) /\ restarts = 0

\* No other service runs the image of s, so that nobody else moves its tag.
Unshared(s) == \A t \in Service \ {s} : ImageOf[t] # ImageOf[s]

\* An action on s does what it aims at: an Update of a pinned service, or of one
\* whose tag another service moves, recreates another digest than the one it pulled
\* (see the README).
Steerable(s) == Unshared(s) /\ ~container[s].config.pinned

\* When nothing is pending, a running container runs the digest its row calls
\* current, whatever mixture of updates, rollbacks, upstream pushes during a
\* pull, failed pulls that moved the tag and failed recreates came before.
RecordedIsRunning ==
    \A s \in Service :
       (Settled(s) /\ Undisturbed(s) /\ Steerable(s) /\ container[s].status = "running"
          /\ rows[s].current \in Digest)
          => rows[s].current = container[s].digest

\* previous_digest is the way back: the last digest the service ran that differs
\* from the one it runs, through updates, rollbacks, same-digest recreates and
\* failed recreates -- provided no request read the row while messages about the
\* service were still queued.
PreviousIsWayBack ==
    \A s \in Service \ (Sideloaded \cup stale) :
       (Settled(s) /\ Undisturbed(s) /\ Steerable(s)) => rows[s].previous = ran[s].before

\* A recreate keeps the networks: whichever of them the create call takes, however
\* many connects, stops and starts fail on the way and however often the service
\* is recreated, a service that runs is attached to every network its compose file
\* names, and known there by no earlier container's id -- unless the clean-up of a
\* half-attached container failed.
NetworksKept ==
    \A s \in Service \ leftover :
       (held[s] = NoOne /\ Undisturbed(s) /\ container[s].status = "running")
          => /\ container[s].nets = container[s].config.nets
             /\ container[s].aliases \subseteq {container[s].id}

-----------------------------------------------------------------------------
(* Liveness.                                                               *)

\* Every request that enters is answered, however full the channel is.
RequestsFinish == \A r \in Request : []<>(pc[r] \in {"idle", "done"})

\* The spinner always goes out again ("always converges to idle").
SpinnerConverges == \A s \in Service : []<>(rows[s].inFlight = Idle)

-----------------------------------------------------------------------------
(* What the documentation says and the code does not do.                   *)

\* recreate.go: after a failed create "state.previous_digest still lets the
\* operator Rollback to the OLD image".
GoneLeavesWayBack ==
    \A s \in Service :
       (Settled(s) /\ Undisturbed(s) /\ container[s].status = "absent")
          => rows[s].previous = ran[s].last

=============================================================================
