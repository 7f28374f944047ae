----------------------------- MODULE SelfUpdate -----------------------------
(***************************************************************************)
(* The self-update: the parent process starts a one-shot helper container, *)
(* and the helper pulls the parent's image, replaces the parent's          *)
(* container and polls the new one until it answers.                       *)
(*                                                                         *)
(* A click is one POST /api/self-update; the helper it starts, if any, is  *)
(* known by the click.  Clicks are goroutines of the parent and die with   *)
(* it; helpers do not.  The parent's container has an id that grows with   *)
(* every create, so a helper that looked up an older one finds it gone.    *)
(***************************************************************************)
EXTENDS Naturals

CONSTANTS Click,        \* the requests
          MaxActions,   \* bound on the per-service actions in flight
          MaxPolls,     \* polls of /healthz before the helper gives up
          MaxBoots,     \* bound on how often the parent process starts
          MayCancel     \* clients may go away

ASSUME SelfUpdateAssumption ==
    /\ MaxActions \in Nat
    /\ MaxPolls \in Nat \ {0}
    /\ MaxBoots \in Nat \ {0}
    /\ MayCancel \in BOOLEAN

VARIABLES boot,        \* the incarnation of the parent process, 1 is the first
          parent,      \* the parent's container
          inFlight,    \* the Spawner's guard, in the memory of the process
          actions,     \* the orchestrator's counter of actions in flight
          pc,          \* where each click is
          served,      \* the incarnation that serves each click
          gone,        \* whether its client went away
          answer,      \* the status the click was answered with
          helper,      \* where its helper is
          old,         \* the parent's container the helper looked up
          polls,       \* how often the helper has polled
          crashed      \* history: the parent process died on its own

parentVars == <<boot, parent, inFlight, actions>>
clickVars == <<pc, served, gone, answer>>
helperVars == <<helper, old, polls>>
selfVars == <<parentVars, clickVars, helperVars, crashed>>

PC == {"idle", "handler", "spawn", "cas", "inspect", "create", "start", "cleanup", "done"}

\* From the compare-and-swap to the return of Spawn.
Guarded == {"inspect", "create", "start", "cleanup"}

HelperPhase == {"none", "delay", "inspect", "pull", "list", "stop", "remove",
                "create", "start", "cleanup", "verify", "ok", "failed"}

\* Until recreate.Service has returned.
Recreating == {"delay", "inspect", "pull", "list", "stop", "remove",
               "create", "start", "cleanup"}

Alive == parent.status = "running"

Goto(c, from, to) == pc[c] = from /\ pc' = [pc EXCEPT ![c] = to]

-----------------------------------------------------------------------------
(* The parent: handleSelfUpdate and Spawn.                                 *)

Arrive(c) ==
    /\ Alive
    /\ Goto(c, "idle", "handler")
    /\ served' = [served EXCEPT ![c] = boot]
    /\ UNCHANGED <<parentVars, gone, answer, helperVars, crashed>>

Answer(c, status) == answer' = [answer EXCEPT ![c] = status]

\* Both the handler and Spawn ask whether an action is in flight.
RefuseWhileActing(c, from, to) ==
    /\ \/ /\ actions > 0
          /\ Goto(c, from, "done")
          /\ Answer(c, "actions_in_flight")
       \/ /\ actions = 0
          /\ Goto(c, from, to)
          /\ UNCHANGED answer
    /\ UNCHANGED <<parentVars, served, gone, helperVars, crashed>>

HandleSelfUpdate(c) == RefuseWhileActing(c, "handler", "spawn")

CheckActions(c) == RefuseWhileActing(c, "spawn", "cas")

\* Mutant of CompareAndSwap: the guard is raised whatever it was.
SwapUnchecked(c) ==
    /\ inFlight' = TRUE
    /\ Goto(c, "cas", "inspect")
    /\ UNCHANGED <<boot, parent, actions, served, gone, answer, helperVars, crashed>>

CompareAndSwap(c) ==
    /\ \/ /\ ~inFlight
          /\ inFlight' = TRUE
          /\ Goto(c, "cas", "inspect")
          /\ UNCHANGED answer
       \/ /\ inFlight
          /\ Goto(c, "cas", "done")
          /\ Answer(c, "self_update_in_flight")
          /\ UNCHANGED inFlight
    /\ UNCHANGED <<boot, parent, actions, served, gone, helperVars, crashed>>

\* Mutant of Fail: the guard stays up.
FailKeepsGuard(c, from) ==
    /\ Goto(c, from, "done")
    /\ Answer(c, "self_update_failed")
    /\ UNCHANGED <<parentVars, served, gone, crashed>>

\* inFlight.Store(false) and the error.
Fail(c, from) ==
    /\ Goto(c, from, "done")
    /\ inFlight' = FALSE
    /\ Answer(c, "self_update_failed")
    /\ UNCHANGED <<boot, parent, actions, served, gone, crashed>>

Continue(c, from, to) ==
    /\ Goto(c, from, to)
    /\ UNCHANGED <<parentVars, served, gone, answer, crashed>>

\* A daemon call of Spawn fails when the daemon says so or the client has gone.
InspectParent(c) ==
    /\ (~gone[c] /\ Continue(c, "inspect", "create")) \/ Fail(c, "inspect")
    /\ UNCHANGED helperVars

CreateHelper(c) ==
    /\ (~gone[c] /\ Continue(c, "create", "start")) \/ Fail(c, "create")
    /\ UNCHANGED helperVars

\* When the client goes away during the call the helper may have started all the same.
StartHelper(c) ==
    /\ \/ /\ ~gone[c]
          /\ Goto(c, "start", "done")
          /\ Answer(c, "helper_spawned")
          /\ helper' = [helper EXCEPT ![c] = "delay"]
          /\ UNCHANGED <<parentVars, served, gone, crashed>>
       \/ /\ Continue(c, "start", "cleanup")
          /\ \/ UNCHANGED helper
             \/ gone[c] /\ helper' = [helper EXCEPT ![c] = "delay"]
    /\ UNCHANGED <<old, polls>>

\* The guard's release, after a best-effort removal of the helper.  The removal
\* has the same context: it does not reach a helper that started because the
\* client went away.
CleanupHelper(c) == Fail(c, "cleanup") /\ UNCHANGED helperVars

ClickStep(c) ==
    /\ Alive
    /\ served[c] = boot
    /\ \/ HandleSelfUpdate(c) \/ CheckActions(c) \/ CompareAndSwap(c) \/ InspectParent(c)
       \/ CreateHelper(c) \/ StartHelper(c) \/ CleanupHelper(c)

\* The client goes away: r.Context() is done.
ClientGone(c) ==
    /\ MayCancel
    /\ pc[c] \notin {"idle", "done"}
    /\ ~gone[c]
    /\ gone' = [gone EXCEPT ![c] = TRUE]
    /\ UNCHANGED <<parentVars, pc, served, answer, helperVars, crashed>>

\* Per-service actions come and go; lockService does not ask about a self-update.
ActionBegins ==
    /\ Alive
    /\ actions < MaxActions
    /\ actions' = actions + 1
    /\ UNCHANGED <<boot, parent, inFlight, clickVars, helperVars, crashed>>

ActionEnds ==
    /\ Alive
    /\ actions > 0
    /\ actions' = actions - 1
    /\ UNCHANGED <<boot, parent, inFlight, clickVars, helperVars, crashed>>

\* What was in the memory of the process is gone with it.
MemoryLost == inFlight' = FALSE /\ actions' = 0

\* The parent dies on its own and its restart policy starts it again.
ParentCrashes ==
    /\ Alive
    /\ boot < MaxBoots
    /\ boot' = boot + 1
    /\ crashed' = TRUE
    /\ MemoryLost
    /\ UNCHANGED <<parent, clickVars, helperVars>>

-----------------------------------------------------------------------------
(* The helper: Orchestrate, with the steps of recreate.Service.            *)

Step(c, from, to) ==
    /\ helper[c] = from
    /\ helper' = [helper EXCEPT ![c] = to]

Unmoved == UNCHANGED <<parentVars, clickVars, old, polls, crashed>>

Delay(c) == Step(c, "delay", "inspect") /\ Unmoved

PreInspect(c) ==
    /\ (parent.status # "absent" /\ Step(c, "inspect", "pull")) \/ Step(c, "inspect", "failed")
    /\ Unmoved

PullParent(c) ==
    /\ Step(c, "pull", "list") \/ Step(c, "pull", "failed")
    /\ Unmoved

ListParent(c) ==
    /\ \/ /\ parent.status # "absent"
          /\ Step(c, "list", "stop")
          /\ old' = [old EXCEPT ![c] = parent.id]
       \/ /\ Step(c, "list", "failed")
          /\ UNCHANGED old
    /\ UNCHANGED <<parentVars, clickVars, polls, crashed>>

\* The container this helper looked up, or created, is still there.
Mine(c) == parent.status # "absent" /\ parent.id = old[c]

\* A stop takes the process with it, and the clicks it was serving.
StopParent(c) ==
    /\ \/ /\ Mine(c)
          /\ Step(c, "stop", "remove")
          /\ parent' = [parent EXCEPT !.status = IF @ = "running" THEN "exited" ELSE @]
          /\ IF Alive THEN MemoryLost ELSE UNCHANGED <<inFlight, actions>>
       \/ /\ Step(c, "stop", "failed")
          /\ UNCHANGED <<parent, inFlight, actions>>
    /\ UNCHANGED <<boot, clickVars, old, polls, crashed>>

\* The remove is forced: it kills a container that its creator started after the
\* stop.
RemoveParent(c) ==
    /\ \/ /\ Mine(c)
          /\ Step(c, "remove", "create")
          /\ parent' = [parent EXCEPT !.status = "absent"]
          /\ IF Alive THEN MemoryLost ELSE UNCHANGED <<inFlight, actions>>
       \/ /\ Step(c, "remove", "failed")
          /\ UNCHANGED <<parent, inFlight, actions>>
    /\ UNCHANGED <<boot, clickVars, old, polls, crashed>>

\* The name must be free.
CreateParent(c) ==
    /\ \/ /\ parent.status = "absent"
          /\ Step(c, "create", "start")
          /\ parent' = [status |-> "created", id |-> parent.id + 1]
          /\ old' = [old EXCEPT ![c] = parent.id + 1]
       \/ /\ Step(c, "create", "failed")
          /\ UNCHANGED <<parent, old>>
    /\ UNCHANGED <<boot, inFlight, actions, clickVars, polls, crashed>>

\* Networks are connected and the container started, or it is cleaned up.
StartParent(c) ==
    /\ \/ /\ Mine(c)
          /\ boot < MaxBoots
          /\ Step(c, "start", "verify")
          /\ parent' = [parent EXCEPT !.status = "running"]
          /\ boot' = boot + 1
       \/ /\ Step(c, "start", "cleanup")
          /\ UNCHANGED <<parent, boot>>
    /\ UNCHANGED <<inFlight, actions, clickVars, old, polls, crashed>>

CleanupParent(c) ==
    /\ Step(c, "cleanup", "failed")
    /\ \/ Mine(c) /\ parent' = [parent EXCEPT !.status = "absent"]
       \/ UNCHANGED parent
    /\ UNCHANGED <<boot, inFlight, actions, clickVars, old, polls, crashed>>

\* Mutants of PollHealthz: no deadline; one poll too many.
PollForever(c) ==
    /\ (Alive /\ Step(c, "verify", "ok")) \/ Step(c, "verify", "verify")
    /\ Unmoved
PollOnceMore(c) ==
    /\ \/ Alive /\ Step(c, "verify", "ok")
       \/ polls[c] < MaxPolls /\ Step(c, "verify", "verify")
       \/ polls[c] = MaxPolls /\ Step(c, "verify", "failed")
    /\ polls' = [polls EXCEPT ![c] = @ + 1]
    /\ UNCHANGED <<parentVars, clickVars, old, crashed>>

\* The first poll comes at once; at least one is made however short the timeout.
PollHealthz(c) ==
    /\ \/ Alive /\ Step(c, "verify", "ok")
       \/ polls[c] + 1 < MaxPolls /\ Step(c, "verify", "verify")
       \/ polls[c] + 1 = MaxPolls /\ Step(c, "verify", "failed")
    /\ polls' = [polls EXCEPT ![c] = @ + 1]
    /\ UNCHANGED <<parentVars, clickVars, old, crashed>>

HelperStep(c) ==
    \/ Delay(c) \/ PreInspect(c) \/ PullParent(c) \/ ListParent(c) \/ StopParent(c)
    \/ RemoveParent(c) \/ CreateParent(c) \/ StartParent(c) \/ CleanupParent(c)
    \/ PollHealthz(c)

-----------------------------------------------------------------------------
Init ==
    /\ boot = 1
    /\ parent = [status |-> "running", id |-> 1]
    /\ inFlight = FALSE
    /\ actions = 0
    /\ pc = [c \in Click |-> "idle"]
    /\ served = [c \in Click |-> 0]
    /\ gone = [c \in Click |-> FALSE]
    /\ answer = [c \in Click |-> "none"]
    /\ helper = [c \in Click |-> "none"]
    /\ old = [c \in Click |-> 0]
    /\ polls = [c \in Click |-> 0]
    /\ crashed = FALSE

Next ==
    \/ \E c \in Click : Arrive(c) \/ ClickStep(c) \/ ClientGone(c) \/ HelperStep(c)
    \/ ActionBegins
    \/ ActionEnds
    \/ ParentCrashes

Spec == Init /\ [][Next]_selfVars

\* The goroutines of a live parent and the helper's process run.
FairSpec == Spec /\ \A c \in Click : WF_selfVars(ClickStep(c)) /\ WF_selfVars(HelperStep(c))
-----------------------------------------------------------------------------
(* Properties.                                                             *)

SelfTypeOK ==
    /\ boot \in 1 .. MaxBoots
    /\ parent \in [status : {"running", "exited", "absent", "created"}, id : Nat]
    /\ inFlight \in BOOLEAN
    /\ actions \in 0 .. MaxActions
    /\ pc \in [Click -> PC]
    /\ served \in [Click -> Nat]
    /\ gone \in [Click -> BOOLEAN]
    /\ answer \in [Click -> {"none", "actions_in_flight", "self_update_in_flight",
                             "self_update_failed", "helper_spawned"}]
    /\ helper \in [Click -> HelperPhase]
    /\ old \in [Click -> Nat]
    /\ polls \in [Click -> 0 .. MaxPolls]
    /\ crashed \in BOOLEAN

\* A helper that runs although Spawn was told its start had failed: the client went
\* away in the middle of ContainerStart.
Slipped(c) == helper[c] # "none" /\ answer[c] # "helper_spawned"

\* Two helpers never replace the parent at the same time, however many clicks race
\* for the guard and whichever of them fail or are given up by their clients: unless
\* one slipped through a ContainerStart that was given up, or the parent died on its
\* own and forgot the guard.
OneHelper ==
    (~crashed /\ \A c \in Click : ~Slipped(c)) =>
       \A c, d \in Click : helper[c] \in Recreating /\ helper[d] \in Recreating => c = d

\* The guard has an owner: it is up only while a click of this process is inside
\* Spawn or after a helper of this process has started.  No failure of Spawn
\* leaves it up.
GuardOwned ==
    inFlight => \E c \in Click :
                   /\ served[c] = boot
                   /\ pc[c] \in Guarded \/ helper[c] # "none"

\* Nobody is told "in flight" for ever of a self-update that will not come, except of
\* one whose helper failed: the guard comes down, or a helper that Spawn announced in
\* this life of the process has failed.
GuardReleased ==
    inFlight ~> \/ ~inFlight
                \/ \E c \in Click : /\ served[c] = boot
                                    /\ answer[c] = "helper_spawned"
                                    /\ helper[c] = "failed"

\* A helper ends, also when another one takes the parent away under it.
HelperEnds ==
    \A c \in Click : (helper[c] = "delay") ~> (helper[c] \in {"ok", "failed"})
=============================================================================
