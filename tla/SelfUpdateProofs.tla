-------------------------- MODULE SelfUpdateProofs --------------------------
(***************************************************************************)
(* Proofs about SelfUpdate: the guard has an owner and two helpers never   *)
(* replace the parent at the same time, for any number of clicks, actions, *)
(* polls and boots.                                                        *)
(***************************************************************************)
EXTENDS SelfUpdate, TLAPS

\* A click of this process that is inside Spawn.
Inside(c) == served[c] = boot /\ pc[c] \in Guarded

\* Nothing made the guard useless.
Quiet == ~crashed /\ \A c \in Click : ~Slipped(c)

\* A process that is down has no guard, and every click was served by a process
\* of the past or the present.
MemoryOK ==
    /\ ~Alive => ~inFlight
    /\ \A c \in Click : served[c] <= boot

\* One click at a time is inside Spawn, and the guard is up while it is.
SpawnOK ==
    /\ \A c \in Click : Inside(c) /\ Alive => inFlight
    /\ \A c, d \in Click : Inside(c) /\ Inside(d) => c = d

\* Between the create of the new parent and its start.
Starting == {"start", "cleanup"}

\* A container that was created and not started is known to its creator only.
CreatedOK ==
    /\ \A c \in Click : old[c] <= parent.id
    /\ \A c \in Click : helper[c] \in Starting /\ Mine(c) => parent.status = "created"
    /\ \A c, d \in Click :
         helper[c] \in Starting /\ helper[d] \in Starting /\ old[c] = old[d] => c = d

\* While the old parent lives, the helper that is about to replace it keeps the
\* guard up, and keeps every click out of Spawn.
HelperOK ==
    Quiet => \A c \in Click :
                helper[c] \in Recreating /\ Alive =>
                   /\ inFlight
                   /\ \A d \in Click : ~Inside(d)

\* A helper is started at the end of Spawn and not before, announced by its return,
\* and polls while it has polls left.
LifeOK == \A c \in Click :
             /\ pc[c] \notin {"cleanup", "done"} => helper[c] = "none"
             /\ answer[c] = "helper_spawned" => pc[c] = "done"
             /\ helper[c] \notin {"ok", "failed"} => polls[c] < MaxPolls

\* The inductive invariant.
SelfInv == /\ SelfTypeOK /\ MemoryOK /\ SpawnOK /\ CreatedOK /\ HelperOK
           /\ GuardOwned /\ OneHelper /\ LifeOK

USE SelfUpdateAssumption
-----------------------------------------------------------------------------
\* The initial state satisfies the invariant.
LEMMA SelfInit == Init => SelfInv
<1> SUFFICES ASSUME Init PROVE SelfInv
  OBVIOUS
<1>1. SelfTypeOK
  <2>1. inFlight \in BOOLEAN /\ crashed \in BOOLEAN /\ gone \in [Click -> BOOLEAN]
    BY DEF Init
  <2> QED
    BY <2>1 DEF Init, SelfTypeOK, PC, HelperPhase
<1>2. MemoryOK /\ SpawnOK /\ CreatedOK /\ HelperOK /\ GuardOwned /\ OneHelper /\ LifeOK
  BY DEF Init, MemoryOK, SpawnOK, CreatedOK, HelperOK, GuardOwned, OneHelper, LifeOK, Inside,
         Quiet, Slipped, Alive, Mine, Starting, Guarded, Recreating
<1> QED
  BY <1>1, <1>2 DEF SelfInv

\* A request arrives.
LEMMA ArriveKeeps ==
  ASSUME NEW c \in Click, SelfInv, Arrive(c)
  PROVE  SelfInv'
<1>1. SelfTypeOK'
  BY DEF SelfInv, SelfTypeOK, PC, HelperPhase, Arrive, Goto, parentVars, clickVars,
     helperVars
<1>2. MemoryOK'
  BY DEF SelfInv, SelfTypeOK, MemoryOK, Alive, Arrive, Goto, parentVars, clickVars,
     helperVars
<1>3. SpawnOK'
  BY DEF SelfInv, SelfTypeOK, MemoryOK, SpawnOK, Inside, Alive, Guarded, Arrive,
     Goto, parentVars, clickVars, helperVars
<1>4. HelperOK'
  BY DEF SelfInv, SelfTypeOK, MemoryOK, SpawnOK, HelperOK, OneHelper, Quiet, Slipped, Inside,
     Alive, Guarded, Recreating, Arrive, Goto, parentVars, clickVars, helperVars
<1>5. GuardOwned'
  BY DEF SelfInv, SelfTypeOK, MemoryOK, GuardOwned, Alive, Guarded, Arrive, Goto,
     parentVars, clickVars, helperVars
<1>6. LifeOK'
  BY DEF SelfInv, SelfTypeOK, LifeOK, HelperPhase, Arrive, Goto, parentVars,
     clickVars, helperVars
<1>7. CreatedOK' /\ OneHelper'
  BY DEF SelfInv, SelfTypeOK, LifeOK, Slipped, CreatedOK, Mine, OneHelper, Arrive, Goto, parentVars, clickVars,
     helperVars
<1> QED
  BY <1>1, <1>2, <1>3, <1>4, <1>5, <1>6, <1>7 DEF SelfInv

\* A client goes away.
LEMMA ClientGoneKeeps ==
  ASSUME NEW c \in Click, SelfInv, ClientGone(c)
  PROVE  SelfInv'
<1>1. SelfTypeOK'
  BY DEF SelfInv, SelfTypeOK, PC, HelperPhase, ClientGone, Goto, parentVars,
     clickVars, helperVars
<1>2. HelperOK'
  BY DEF SelfInv, SelfTypeOK, MemoryOK, SpawnOK, HelperOK, OneHelper, Quiet, Slipped, Inside,
     Alive, Guarded, Recreating, ClientGone, Goto, parentVars, clickVars, helperVars
<1>3. OneHelper'
  BY DEF SelfInv, SelfTypeOK, SpawnOK, HelperOK, OneHelper, Quiet, Slipped, Inside, Alive,
     Guarded, Recreating, ClientGone, Goto, parentVars, clickVars, helperVars
<1>4. MemoryOK' /\ SpawnOK' /\ CreatedOK' /\ GuardOwned' /\ LifeOK'
  BY DEF SelfInv, MemoryOK, Alive, SpawnOK, Inside, CreatedOK, Mine, GuardOwned,
     LifeOK, ClientGone, Goto, parentVars, clickVars, helperVars
<1> QED
  BY <1>1, <1>2, <1>3, <1>4 DEF SelfInv

\* The handler asks about actions in flight.
LEMMA HandleSelfUpdateKeeps ==
  ASSUME NEW c \in Click, SelfInv, Alive, served[c] = boot, HandleSelfUpdate(c)
  PROVE  SelfInv'
<1>1. SelfTypeOK'
  BY DEF SelfInv, SelfTypeOK, PC, HelperPhase, HandleSelfUpdate, RefuseWhileActing,
     Goto, Answer, parentVars, clickVars, helperVars
<1>2. SpawnOK'
  BY DEF SelfInv, SelfTypeOK, MemoryOK, SpawnOK, Inside, Alive, Guarded,
     HandleSelfUpdate, RefuseWhileActing, Goto, Answer, parentVars, clickVars,
     helperVars
<1>3. HelperOK'
  BY DEF SelfInv, SelfTypeOK, MemoryOK, SpawnOK, HelperOK, OneHelper, Quiet, Slipped, Inside,
     Alive, Guarded, Recreating, HandleSelfUpdate, RefuseWhileActing, Goto, Answer,
     parentVars, clickVars, helperVars
<1>4. GuardOwned'
  BY DEF SelfInv, SelfTypeOK, MemoryOK, GuardOwned, Alive, Guarded,
     HandleSelfUpdate, RefuseWhileActing, Goto, Answer, parentVars, clickVars,
     helperVars
<1>5. LifeOK'
  BY DEF SelfInv, SelfTypeOK, LifeOK, HelperPhase, HandleSelfUpdate,
     RefuseWhileActing, Goto, Answer, parentVars, clickVars, helperVars
<1>6. MemoryOK' /\ CreatedOK' /\ OneHelper'
  BY DEF SelfInv, SelfTypeOK, LifeOK, Slipped, MemoryOK, Alive, CreatedOK, Mine, OneHelper, HandleSelfUpdate,
     RefuseWhileActing, Goto, Answer, parentVars, clickVars, helperVars
<1> QED
  BY <1>1, <1>2, <1>3, <1>4, <1>5, <1>6 DEF SelfInv

\* So does Spawn.
LEMMA CheckActionsKeeps ==
  ASSUME NEW c \in Click, SelfInv, Alive, served[c] = boot, CheckActions(c)
  PROVE  SelfInv'
<1>1. SelfTypeOK'
  BY DEF SelfInv, SelfTypeOK, PC, HelperPhase, CheckActions, RefuseWhileActing,
     Goto, Answer, parentVars, clickVars, helperVars
<1>2. SpawnOK'
  BY DEF SelfInv, SelfTypeOK, MemoryOK, SpawnOK, Inside, Alive, Guarded,
     CheckActions, RefuseWhileActing, Goto, Answer, parentVars, clickVars,
     helperVars
<1>3. HelperOK'
  BY DEF SelfInv, SelfTypeOK, MemoryOK, SpawnOK, HelperOK, OneHelper, Quiet, Slipped, Inside,
     Alive, Guarded, Recreating, CheckActions, RefuseWhileActing, Goto, Answer,
     parentVars, clickVars, helperVars
<1>4. GuardOwned'
  BY DEF SelfInv, SelfTypeOK, MemoryOK, GuardOwned, Alive, Guarded, CheckActions,
     RefuseWhileActing, Goto, Answer, parentVars, clickVars, helperVars
<1>5. LifeOK'
  BY DEF SelfInv, SelfTypeOK, LifeOK, HelperPhase, CheckActions, RefuseWhileActing,
     Goto, Answer, parentVars, clickVars, helperVars
<1>6. MemoryOK' /\ CreatedOK' /\ OneHelper'
  BY DEF SelfInv, SelfTypeOK, LifeOK, Slipped, MemoryOK, Alive, CreatedOK, Mine, OneHelper, CheckActions,
     RefuseWhileActing, Goto, Answer, parentVars, clickVars, helperVars
<1> QED
  BY <1>1, <1>2, <1>3, <1>4, <1>5, <1>6 DEF SelfInv

\* The guard is raised by one click and refuses the others.
LEMMA CompareAndSwapKeeps ==
  ASSUME NEW c \in Click, SelfInv, Alive, served[c] = boot, CompareAndSwap(c)
  PROVE  SelfInv'
<1>1. SelfTypeOK'
  BY DEF SelfInv, SelfTypeOK, PC, HelperPhase, CompareAndSwap, Goto, Answer,
     parentVars, clickVars, helperVars
<1>2. MemoryOK'
  BY DEF SelfInv, SelfTypeOK, MemoryOK, Alive, CompareAndSwap, Goto, Answer,
     parentVars, clickVars, helperVars
<1>3. SpawnOK'
  BY DEF SelfInv, SelfTypeOK, MemoryOK, SpawnOK, Inside, Alive, Guarded,
     CompareAndSwap, Goto, Answer, parentVars, clickVars, helperVars
<1>4. HelperOK'
  BY DEF SelfInv, SelfTypeOK, MemoryOK, SpawnOK, HelperOK, OneHelper, Quiet, Slipped, Inside,
     Alive, Guarded, Recreating, CompareAndSwap, Goto, Answer, parentVars,
     clickVars, helperVars
<1>5. GuardOwned'
  BY DEF SelfInv, SelfTypeOK, MemoryOK, GuardOwned, Alive, Guarded, CompareAndSwap,
     Goto, Answer, parentVars, clickVars, helperVars
<1>6. LifeOK'
  BY DEF SelfInv, SelfTypeOK, LifeOK, HelperPhase, CompareAndSwap, Goto, Answer,
     parentVars, clickVars, helperVars
<1>7. CreatedOK' /\ OneHelper'
  BY DEF SelfInv, SelfTypeOK, LifeOK, Slipped, CreatedOK, Mine, OneHelper, CompareAndSwap, Goto, Answer,
     parentVars, clickVars, helperVars
<1> QED
  BY <1>1, <1>2, <1>3, <1>4, <1>5, <1>6, <1>7 DEF SelfInv

\* The parent is inspected.
LEMMA InspectParentKeeps ==
  ASSUME NEW c \in Click, SelfInv, Alive, served[c] = boot, InspectParent(c)
  PROVE  SelfInv'
<1>1. SelfTypeOK'
  BY DEF SelfInv, SelfTypeOK, PC, HelperPhase, InspectParent, Continue, Fail, Goto,
     Answer, parentVars, clickVars, helperVars
<1>2. MemoryOK'
  BY DEF SelfInv, SelfTypeOK, MemoryOK, Alive, InspectParent, Continue, Fail, Goto,
     Answer, parentVars, clickVars, helperVars
<1>3. SpawnOK'
  BY DEF SelfInv, SelfTypeOK, MemoryOK, SpawnOK, Inside, Alive, Guarded,
     InspectParent, Continue, Fail, Goto, Answer, parentVars, clickVars, helperVars
<1>4. HelperOK'
  BY DEF SelfInv, SelfTypeOK, MemoryOK, SpawnOK, HelperOK, OneHelper, Quiet, Slipped, Inside,
     Alive, Guarded, Recreating, InspectParent, Continue, Fail, Goto, Answer,
     parentVars, clickVars, helperVars
<1>5. GuardOwned'
  BY DEF SelfInv, SelfTypeOK, MemoryOK, GuardOwned, Alive, Guarded, InspectParent,
     Continue, Fail, Goto, Answer, parentVars, clickVars, helperVars
<1>6. LifeOK'
  BY DEF SelfInv, SelfTypeOK, LifeOK, HelperPhase, InspectParent, Continue, Fail,
     Goto, Answer, parentVars, clickVars, helperVars
<1>7. CreatedOK' /\ OneHelper'
  BY DEF SelfInv, SelfTypeOK, LifeOK, Slipped, CreatedOK, Mine, OneHelper, InspectParent, Continue, Fail, Goto,
     Answer, parentVars, clickVars, helperVars
<1> QED
  BY <1>1, <1>2, <1>3, <1>4, <1>5, <1>6, <1>7 DEF SelfInv

\* The helper is created.
LEMMA CreateHelperKeeps ==
  ASSUME NEW c \in Click, SelfInv, Alive, served[c] = boot, CreateHelper(c)
  PROVE  SelfInv'
<1>1. SelfTypeOK'
  BY DEF SelfInv, SelfTypeOK, PC, HelperPhase, CreateHelper, Continue, Fail, Goto,
     Answer, parentVars, clickVars, helperVars
<1>2. MemoryOK'
  BY DEF SelfInv, SelfTypeOK, MemoryOK, Alive, CreateHelper, Continue, Fail, Goto,
     Answer, parentVars, clickVars, helperVars
<1>3. SpawnOK'
  BY DEF SelfInv, SelfTypeOK, MemoryOK, SpawnOK, Inside, Alive, Guarded,
     CreateHelper, Continue, Fail, Goto, Answer, parentVars, clickVars, helperVars
<1>4. HelperOK'
  BY DEF SelfInv, SelfTypeOK, MemoryOK, SpawnOK, HelperOK, OneHelper, Quiet, Slipped, Inside,
     Alive, Guarded, Recreating, CreateHelper, Continue, Fail, Goto, Answer,
     parentVars, clickVars, helperVars
<1>5. GuardOwned'
  BY DEF SelfInv, SelfTypeOK, MemoryOK, GuardOwned, Alive, Guarded, CreateHelper,
     Continue, Fail, Goto, Answer, parentVars, clickVars, helperVars
<1>6. LifeOK'
  BY DEF SelfInv, SelfTypeOK, LifeOK, HelperPhase, CreateHelper, Continue, Fail,
     Goto, Answer, parentVars, clickVars, helperVars
<1>7. CreatedOK' /\ OneHelper'
  BY DEF SelfInv, SelfTypeOK, LifeOK, Slipped, CreatedOK, Mine, OneHelper, CreateHelper, Continue, Fail, Goto,
     Answer, parentVars, clickVars, helperVars
<1> QED
  BY <1>1, <1>2, <1>3, <1>4, <1>5, <1>6, <1>7 DEF SelfInv

\* The helper is started.
LEMMA StartHelperKeeps ==
  ASSUME NEW c \in Click, SelfInv, Alive, served[c] = boot, StartHelper(c)
  PROVE  SelfInv'
<1>1. SelfTypeOK'
  BY DEF SelfInv, SelfTypeOK, PC, HelperPhase, StartHelper, Continue, Goto, Answer,
     parentVars, clickVars, helperVars
<1>2. SpawnOK'
  BY DEF SelfInv, SelfTypeOK, MemoryOK, SpawnOK, Inside, Alive, Guarded,
     StartHelper, Continue, Goto, Answer, parentVars, clickVars, helperVars
<1>3. CreatedOK'
  BY DEF SelfInv, SelfTypeOK, CreatedOK, Starting, Mine, StartHelper, Continue,
     Goto, Answer, parentVars, clickVars, helperVars
<1>4. HelperOK' /\ OneHelper'
  <2>0. helper[c] = "none" /\ pc[c] = "start" /\ answer[c] # "helper_spawned"
          /\ Inside(c) /\ crashed' = crashed
    BY DEF SelfInv, LifeOK, StartHelper, Continue, Goto, Inside, Guarded
  <2>1. \A d \in Click : d # c => Slipped(d)' = Slipped(d)
    BY DEF SelfInv, SelfTypeOK, Slipped, StartHelper, Continue, Goto, Answer
  <2>2. Quiet' => Quiet
    BY <2>0, <2>1 DEF Quiet, Slipped
  <2>3. Quiet => \A d \in Click : helper[d] \notin Recreating
    BY <2>0 DEF SelfInv, HelperOK
  <2>4. CASE UNCHANGED helper
    BY <2>2, <2>3, <2>4 DEF HelperOK, OneHelper, Quiet
  <2>5. CASE helper' = [helper EXCEPT ![c] = "delay"] /\ answer'[c] = "helper_spawned"
    <3>1. pc' = [pc EXCEPT ![c] = "done"] /\ UNCHANGED <<served, parentVars>>
      BY <2>0, <2>5 DEF SelfInv, SelfTypeOK, StartHelper, Continue, Goto, Answer
    <3>2. \A d \in Click : ~Inside(d)'
      BY <2>0, <3>1 DEF SelfInv, SelfTypeOK, SpawnOK, Inside, Guarded, parentVars
    <3>3. inFlight'
      BY <2>0, <3>1 DEF SelfInv, SpawnOK, parentVars
    <3> QED
      BY <2>2, <2>3, <2>5, <3>2, <3>3
      DEF SelfInv, SelfTypeOK, HelperOK, OneHelper, Quiet, Recreating
  <2>6. CASE helper' = [helper EXCEPT ![c] = "delay"] /\ UNCHANGED answer
    <3>1. Slipped(c)'
      BY <2>0, <2>6 DEF SelfInv, SelfTypeOK, Slipped
    <3> QED
      BY <3>1 DEF HelperOK, OneHelper, Quiet
  <2> QED
    BY <2>4, <2>5, <2>6 DEF SelfInv, SelfTypeOK, StartHelper, Continue, Answer
<1>5. GuardOwned'
  BY DEF SelfInv, SelfTypeOK, MemoryOK, GuardOwned, Alive, Guarded, StartHelper,
     Continue, Goto, Answer, parentVars, clickVars, helperVars
<1>6. LifeOK'
  BY DEF SelfInv, SelfTypeOK, LifeOK, HelperPhase, StartHelper, Continue, Goto,
     Answer, parentVars, clickVars, helperVars
<1>7. MemoryOK'
  BY DEF SelfInv, MemoryOK, Alive, StartHelper, Continue, Goto, Answer, parentVars,
     clickVars, helperVars
<1> QED
  BY <1>1, <1>2, <1>3, <1>4, <1>5, <1>6, <1>7 DEF SelfInv

\* Spawn gives up and lowers the guard.
LEMMA CleanupHelperKeeps ==
  ASSUME NEW c \in Click, SelfInv, Alive, served[c] = boot, CleanupHelper(c)
  PROVE  SelfInv'
<1>1. SelfTypeOK'
  BY DEF SelfInv, SelfTypeOK, PC, HelperPhase, CleanupHelper, Fail, Goto, Answer,
     parentVars, clickVars, helperVars
<1>2. MemoryOK'
  BY DEF SelfInv, SelfTypeOK, MemoryOK, Alive, CleanupHelper, Fail, Goto, Answer,
     parentVars, clickVars, helperVars
<1>3. SpawnOK'
  BY DEF SelfInv, SelfTypeOK, MemoryOK, SpawnOK, Inside, Alive, Guarded,
     CleanupHelper, Fail, Goto, Answer, parentVars, clickVars, helperVars
<1>4. HelperOK'
  BY DEF SelfInv, SelfTypeOK, MemoryOK, SpawnOK, HelperOK, OneHelper, Quiet, Slipped, Inside,
     Alive, Guarded, Recreating, CleanupHelper, Fail, Goto, Answer, parentVars,
     clickVars, helperVars
<1>5. GuardOwned'
  BY DEF SelfInv, SelfTypeOK, MemoryOK, GuardOwned, Alive, Guarded, CleanupHelper,
     Fail, Goto, Answer, parentVars, clickVars, helperVars
<1>6. LifeOK'
  BY DEF SelfInv, SelfTypeOK, LifeOK, HelperPhase, CleanupHelper, Fail, Goto,
     Answer, parentVars, clickVars, helperVars
<1>7. CreatedOK' /\ OneHelper'
  BY DEF SelfInv, SelfTypeOK, LifeOK, Slipped, CreatedOK, Mine, OneHelper, CleanupHelper, Fail, Goto, Answer,
     parentVars, clickVars, helperVars
<1> QED
  BY <1>1, <1>2, <1>3, <1>4, <1>5, <1>6, <1>7 DEF SelfInv

\* The helper waits.
LEMMA DelayKeeps ==
  ASSUME NEW c \in Click, SelfInv, Delay(c)
  PROVE  SelfInv'
<1>1. SelfTypeOK'
  BY DEF SelfInv, SelfTypeOK, PC, HelperPhase, Delay, Step, Unmoved, parentVars,
     clickVars, helperVars
<1>2. CreatedOK'
  BY DEF SelfInv, SelfTypeOK, CreatedOK, Starting, Mine, Delay, Step, Unmoved,
     parentVars, clickVars, helperVars
<1>3. HelperOK'
  BY DEF SelfInv, SelfTypeOK, MemoryOK, SpawnOK, HelperOK, OneHelper, Quiet, Slipped, Inside,
     Alive, Guarded, Recreating, Delay, Step, Unmoved, parentVars, clickVars,
     helperVars
<1>4. GuardOwned'
  BY DEF SelfInv, SelfTypeOK, MemoryOK, GuardOwned, Alive, Guarded, Delay, Step,
     Unmoved, parentVars, clickVars, helperVars
<1>5. OneHelper'
  BY DEF SelfInv, SelfTypeOK, SpawnOK, HelperOK, OneHelper, Quiet, Slipped, Inside, Alive,
     Guarded, Recreating, Delay, Step, Unmoved, parentVars, clickVars, helperVars
<1>6. LifeOK'
  BY DEF SelfInv, SelfTypeOK, LifeOK, HelperPhase, Delay, Step, Unmoved, parentVars,
     clickVars, helperVars
<1>7. MemoryOK' /\ SpawnOK'
  BY DEF SelfInv, MemoryOK, Alive, SpawnOK, Inside, Delay, Step, Unmoved,
     parentVars, clickVars, helperVars
<1> QED
  BY <1>1, <1>2, <1>3, <1>4, <1>5, <1>6, <1>7 DEF SelfInv

\* The helper inspects the parent.
LEMMA PreInspectKeeps ==
  ASSUME NEW c \in Click, SelfInv, PreInspect(c)
  PROVE  SelfInv'
<1>1. SelfTypeOK'
  BY DEF SelfInv, SelfTypeOK, PC, HelperPhase, PreInspect, Step, Unmoved,
     parentVars, clickVars, helperVars
<1>2. CreatedOK'
  BY DEF SelfInv, SelfTypeOK, CreatedOK, Starting, Mine, PreInspect, Step, Unmoved,
     parentVars, clickVars, helperVars
<1>3. HelperOK'
  BY DEF SelfInv, SelfTypeOK, MemoryOK, SpawnOK, HelperOK, OneHelper, Quiet, Slipped, Inside,
     Alive, Guarded, Recreating, PreInspect, Step, Unmoved, parentVars, clickVars,
     helperVars
<1>4. GuardOwned'
  BY DEF SelfInv, SelfTypeOK, MemoryOK, GuardOwned, Alive, Guarded, PreInspect,
     Step, Unmoved, parentVars, clickVars, helperVars
<1>5. OneHelper'
  BY DEF SelfInv, SelfTypeOK, SpawnOK, HelperOK, OneHelper, Quiet, Slipped, Inside, Alive,
     Guarded, Recreating, PreInspect, Step, Unmoved, parentVars, clickVars,
     helperVars
<1>6. LifeOK'
  BY DEF SelfInv, SelfTypeOK, LifeOK, HelperPhase, PreInspect, Step, Unmoved,
     parentVars, clickVars, helperVars
<1>7. MemoryOK' /\ SpawnOK'
  BY DEF SelfInv, MemoryOK, Alive, SpawnOK, Inside, PreInspect, Step, Unmoved,
     parentVars, clickVars, helperVars
<1> QED
  BY <1>1, <1>2, <1>3, <1>4, <1>5, <1>6, <1>7 DEF SelfInv

\* The helper pulls.
LEMMA PullParentKeeps ==
  ASSUME NEW c \in Click, SelfInv, PullParent(c)
  PROVE  SelfInv'
<1>1. SelfTypeOK'
  BY DEF SelfInv, SelfTypeOK, PC, HelperPhase, PullParent, Step, Unmoved,
     parentVars, clickVars, helperVars
<1>2. CreatedOK'
  BY DEF SelfInv, SelfTypeOK, CreatedOK, Starting, Mine, PullParent, Step, Unmoved,
     parentVars, clickVars, helperVars
<1>3. HelperOK'
  BY DEF SelfInv, SelfTypeOK, MemoryOK, SpawnOK, HelperOK, OneHelper, Quiet, Slipped, Inside,
     Alive, Guarded, Recreating, PullParent, Step, Unmoved, parentVars, clickVars,
     helperVars
<1>4. GuardOwned'
  BY DEF SelfInv, SelfTypeOK, MemoryOK, GuardOwned, Alive, Guarded, PullParent,
     Step, Unmoved, parentVars, clickVars, helperVars
<1>5. OneHelper'
  BY DEF SelfInv, SelfTypeOK, SpawnOK, HelperOK, OneHelper, Quiet, Slipped, Inside, Alive,
     Guarded, Recreating, PullParent, Step, Unmoved, parentVars, clickVars,
     helperVars
<1>6. LifeOK'
  BY DEF SelfInv, SelfTypeOK, LifeOK, HelperPhase, PullParent, Step, Unmoved,
     parentVars, clickVars, helperVars
<1>7. MemoryOK' /\ SpawnOK'
  BY DEF SelfInv, MemoryOK, Alive, SpawnOK, Inside, PullParent, Step, Unmoved,
     parentVars, clickVars, helperVars
<1> QED
  BY <1>1, <1>2, <1>3, <1>4, <1>5, <1>6, <1>7 DEF SelfInv

\* recreate.Service looks the parent up.
LEMMA ListParentKeeps ==
  ASSUME NEW c \in Click, SelfInv, ListParent(c)
  PROVE  SelfInv'
<1>1. SelfTypeOK'
  BY DEF SelfInv, SelfTypeOK, PC, HelperPhase, ListParent, Step, parentVars,
     clickVars, helperVars
<1>2. CreatedOK'
  BY DEF SelfInv, SelfTypeOK, CreatedOK, Starting, Mine, ListParent, Step,
     parentVars, clickVars, helperVars
<1>3. HelperOK'
  BY DEF SelfInv, SelfTypeOK, MemoryOK, SpawnOK, HelperOK, OneHelper, Quiet, Slipped, Inside,
     Alive, Guarded, Recreating, ListParent, Step, parentVars, clickVars, helperVars
<1>4. GuardOwned'
  BY DEF SelfInv, SelfTypeOK, MemoryOK, GuardOwned, Alive, Guarded, ListParent,
     Step, parentVars, clickVars, helperVars
<1>5. OneHelper'
  BY DEF SelfInv, SelfTypeOK, SpawnOK, HelperOK, OneHelper, Quiet, Slipped, Inside, Alive,
     Guarded, Recreating, ListParent, Step, parentVars, clickVars, helperVars
<1>6. LifeOK'
  BY DEF SelfInv, SelfTypeOK, LifeOK, HelperPhase, ListParent, Step, parentVars,
     clickVars, helperVars
<1>7. MemoryOK' /\ SpawnOK'
  BY DEF SelfInv, MemoryOK, Alive, SpawnOK, Inside, ListParent, Step, parentVars,
     clickVars, helperVars
<1> QED
  BY <1>1, <1>2, <1>3, <1>4, <1>5, <1>6, <1>7 DEF SelfInv

\* The parent is stopped and its memory lost.
LEMMA StopParentKeeps ==
  ASSUME NEW c \in Click, SelfInv, StopParent(c)
  PROVE  SelfInv'
<1>1. SelfTypeOK'
  <2>1. inFlight' \in BOOLEAN /\ crashed' \in BOOLEAN
    BY Zenon DEF SelfInv, SelfTypeOK, StopParent, Step, MemoryLost, Mine, Alive,
       parentVars, clickVars, helperVars
  <2>2. actions' \in 0 .. MaxActions /\ boot' \in 1 .. MaxBoots
    BY DEF SelfInv, SelfTypeOK, StopParent, Step, MemoryLost, Mine, Alive,
       parentVars, clickVars, helperVars
  <2>3. parent' \in [status : {"running", "exited", "absent", "created"}, id : Nat]
    BY DEF SelfInv, SelfTypeOK, StopParent, Step, MemoryLost, Mine, Alive,
       parentVars, clickVars, helperVars
  <2>4. helper' \in [Click -> HelperPhase] /\ polls' \in [Click -> 0 .. MaxPolls]
    BY DEF SelfInv, SelfTypeOK, LifeOK, HelperPhase, StopParent, Step, MemoryLost,
       Mine, Alive, parentVars, clickVars, helperVars
  <2> QED
    BY <2>1, <2>2, <2>3, <2>4 DEF SelfInv, SelfTypeOK, StopParent, parentVars,
       clickVars, helperVars
<1>2. MemoryOK'
  BY DEF SelfInv, SelfTypeOK, MemoryOK, Alive, StopParent, Step, MemoryLost, Mine,
     parentVars, clickVars, helperVars
<1>3. SpawnOK'
  BY DEF SelfInv, SelfTypeOK, MemoryOK, SpawnOK, Inside, Alive, Guarded, StopParent,
     Step, MemoryLost, Mine, parentVars, clickVars, helperVars
<1>4. CreatedOK'
  BY DEF SelfInv, SelfTypeOK, CreatedOK, Starting, Mine, StopParent, Step,
     MemoryLost, Alive, parentVars, clickVars, helperVars
<1>5. HelperOK'
  BY DEF SelfInv, SelfTypeOK, MemoryOK, SpawnOK, HelperOK, OneHelper, Quiet, Slipped, Inside,
     Alive, Guarded, Recreating, StopParent, Step, MemoryLost, Mine, parentVars,
     clickVars, helperVars
<1>6. GuardOwned'
  BY DEF SelfInv, SelfTypeOK, MemoryOK, GuardOwned, Alive, Guarded, StopParent,
     Step, MemoryLost, Mine, parentVars, clickVars, helperVars
<1>7. OneHelper'
  BY DEF SelfInv, SelfTypeOK, SpawnOK, HelperOK, OneHelper, Quiet, Slipped, Inside, Alive,
     Guarded, Recreating, StopParent, Step, MemoryLost, Mine, parentVars, clickVars,
     helperVars
<1>8. LifeOK'
  BY DEF SelfInv, SelfTypeOK, LifeOK, HelperPhase, StopParent, Step, MemoryLost,
     Mine, Alive, parentVars, clickVars, helperVars
<1> QED
  BY <1>1, <1>2, <1>3, <1>4, <1>5, <1>6, <1>7, <1>8 DEF SelfInv

\* The parent is removed.
LEMMA RemoveParentKeeps ==
  ASSUME NEW c \in Click, SelfInv, RemoveParent(c)
  PROVE  SelfInv'
<1>1. SelfTypeOK'
  <2>1. inFlight' \in BOOLEAN /\ crashed' \in BOOLEAN
    BY Zenon DEF SelfInv, SelfTypeOK, RemoveParent, Step, MemoryLost, Mine, Alive,
       parentVars, clickVars, helperVars
  <2>2. actions' \in 0 .. MaxActions /\ boot' \in 1 .. MaxBoots
    BY DEF SelfInv, SelfTypeOK, RemoveParent, Step, MemoryLost, Mine, Alive,
       parentVars, clickVars, helperVars
  <2>3. parent' \in [status : {"running", "exited", "absent", "created"}, id : Nat]
    BY DEF SelfInv, SelfTypeOK, RemoveParent, Step, MemoryLost, Mine, Alive,
       parentVars, clickVars, helperVars
  <2>4. helper' \in [Click -> HelperPhase] /\ polls' \in [Click -> 0 .. MaxPolls]
    BY DEF SelfInv, SelfTypeOK, LifeOK, HelperPhase, RemoveParent, Step, MemoryLost,
       Mine, Alive, parentVars, clickVars, helperVars
  <2> QED
    BY <2>1, <2>2, <2>3, <2>4 DEF SelfInv, SelfTypeOK, RemoveParent, parentVars,
       clickVars, helperVars
<1>2. MemoryOK'
  BY DEF SelfInv, SelfTypeOK, MemoryOK, Alive, RemoveParent, Step, MemoryLost, Mine,
     parentVars, clickVars, helperVars
<1>3. SpawnOK'
  BY DEF SelfInv, SelfTypeOK, MemoryOK, SpawnOK, Inside, Alive, Guarded,
     RemoveParent, Step, MemoryLost, Mine, parentVars, clickVars, helperVars
<1>4. CreatedOK'
  BY DEF SelfInv, SelfTypeOK, CreatedOK, Starting, Mine, RemoveParent, Step,
     MemoryLost, Alive, parentVars, clickVars, helperVars
<1>5. HelperOK'
  BY DEF SelfInv, SelfTypeOK, MemoryOK, SpawnOK, HelperOK, OneHelper, Quiet, Slipped, Inside,
     Alive, Guarded, Recreating, RemoveParent, Step, MemoryLost, Mine, parentVars,
     clickVars, helperVars
<1>6. GuardOwned'
  BY DEF SelfInv, SelfTypeOK, MemoryOK, GuardOwned, Alive, Guarded, RemoveParent,
     Step, MemoryLost, Mine, parentVars, clickVars, helperVars
<1>7. OneHelper'
  BY DEF SelfInv, SelfTypeOK, SpawnOK, HelperOK, OneHelper, Quiet, Slipped, Inside, Alive,
     Guarded, Recreating, RemoveParent, Step, MemoryLost, Mine, parentVars,
     clickVars, helperVars
<1>8. LifeOK'
  BY DEF SelfInv, SelfTypeOK, LifeOK, HelperPhase, RemoveParent, Step, MemoryLost,
     Mine, Alive, parentVars, clickVars, helperVars
<1> QED
  BY <1>1, <1>2, <1>3, <1>4, <1>5, <1>6, <1>7, <1>8 DEF SelfInv

\* The new parent is created.
LEMMA CreateParentKeeps ==
  ASSUME NEW c \in Click, SelfInv, CreateParent(c)
  PROVE  SelfInv'
<1>1. SelfTypeOK'
  BY DEF SelfInv, SelfTypeOK, PC, HelperPhase, CreateParent, Step, parentVars,
     clickVars, helperVars
<1>2. MemoryOK'
  BY DEF SelfInv, SelfTypeOK, MemoryOK, Alive, CreateParent, Step, parentVars,
     clickVars, helperVars
<1>3. SpawnOK'
  BY DEF SelfInv, SelfTypeOK, MemoryOK, SpawnOK, Inside, Alive, Guarded,
     CreateParent, Step, parentVars, clickVars, helperVars
<1>4. CreatedOK'
  BY DEF SelfInv, SelfTypeOK, CreatedOK, Starting, Mine, CreateParent, Step,
     parentVars, clickVars, helperVars
<1>5. HelperOK'
  BY DEF SelfInv, SelfTypeOK, MemoryOK, SpawnOK, HelperOK, OneHelper, Quiet, Slipped, Inside,
     Alive, Guarded, Recreating, CreateParent, Step, parentVars, clickVars,
     helperVars
<1>6. GuardOwned'
  BY DEF SelfInv, SelfTypeOK, MemoryOK, GuardOwned, Alive, Guarded, CreateParent,
     Step, parentVars, clickVars, helperVars
<1>7. OneHelper'
  BY DEF SelfInv, SelfTypeOK, SpawnOK, HelperOK, OneHelper, Quiet, Slipped, Inside, Alive,
     Guarded, Recreating, CreateParent, Step, parentVars, clickVars, helperVars
<1>8. LifeOK'
  BY DEF SelfInv, SelfTypeOK, LifeOK, HelperPhase, CreateParent, Step, parentVars,
     clickVars, helperVars
<1> QED
  BY <1>1, <1>2, <1>3, <1>4, <1>5, <1>6, <1>7, <1>8 DEF SelfInv

\* The new parent is started.
LEMMA StartParentKeeps ==
  ASSUME NEW c \in Click, SelfInv, StartParent(c)
  PROVE  SelfInv'
<1>1. SelfTypeOK'
  BY DEF SelfInv, SelfTypeOK, PC, HelperPhase, StartParent, Step, Mine, parentVars,
     clickVars, helperVars
<1>2. MemoryOK'
  BY DEF SelfInv, SelfTypeOK, MemoryOK, Alive, StartParent, Step, Mine, parentVars,
     clickVars, helperVars
<1>3. SpawnOK'
  BY DEF SelfInv, SelfTypeOK, MemoryOK, SpawnOK, Inside, Alive, Guarded,
     StartParent, Step, Mine, parentVars, clickVars, helperVars
<1>4. CreatedOK'
  BY DEF SelfInv, SelfTypeOK, CreatedOK, Starting, Mine, StartParent, Step,
     parentVars, clickVars, helperVars
<1>5. HelperOK'
  BY DEF SelfInv, SelfTypeOK, MemoryOK, SpawnOK, HelperOK, OneHelper, Quiet, Slipped, Inside,
     Alive, Guarded, Recreating, StartParent, Step, Mine, parentVars, clickVars,
     helperVars
<1>6. GuardOwned'
  BY DEF SelfInv, SelfTypeOK, MemoryOK, GuardOwned, Alive, Guarded, CreatedOK,
     Starting, StartParent, Step, Mine, parentVars, clickVars, helperVars
<1>7. OneHelper'
  BY DEF SelfInv, SelfTypeOK, SpawnOK, HelperOK, OneHelper, Quiet, Slipped, Inside, Alive,
     Guarded, Recreating, StartParent, Step, Mine, parentVars, clickVars, helperVars
<1>8. LifeOK'
  BY DEF SelfInv, SelfTypeOK, LifeOK, HelperPhase, StartParent, Step, Mine,
     parentVars, clickVars, helperVars
<1> QED
  BY <1>1, <1>2, <1>3, <1>4, <1>5, <1>6, <1>7, <1>8 DEF SelfInv

\* The new parent is cleaned up.
LEMMA CleanupParentKeeps ==
  ASSUME NEW c \in Click, SelfInv, CleanupParent(c)
  PROVE  SelfInv'
<1>1. SelfTypeOK'
  BY DEF SelfInv, SelfTypeOK, PC, HelperPhase, CleanupParent, Step, Mine,
     parentVars, clickVars, helperVars
<1>2. MemoryOK'
  BY DEF SelfInv, SelfTypeOK, MemoryOK, Alive, CreatedOK, Starting, CleanupParent,
     Step, Mine, parentVars, clickVars, helperVars
<1>3. SpawnOK'
  BY DEF SelfInv, SelfTypeOK, MemoryOK, SpawnOK, Inside, Alive, Guarded,
     CleanupParent, Step, Mine, parentVars, clickVars, helperVars
<1>4. CreatedOK'
  BY DEF SelfInv, SelfTypeOK, CreatedOK, Starting, Mine, CleanupParent, Step,
     parentVars, clickVars, helperVars
<1>5. HelperOK'
  BY DEF SelfInv, SelfTypeOK, MemoryOK, SpawnOK, HelperOK, OneHelper, Quiet, Slipped, Inside,
     Alive, Guarded, Recreating, CleanupParent, Step, Mine, parentVars, clickVars,
     helperVars
<1>6. GuardOwned'
  BY DEF SelfInv, SelfTypeOK, MemoryOK, GuardOwned, Alive, Guarded, CleanupParent,
     Step, Mine, parentVars, clickVars, helperVars
<1>7. OneHelper'
  BY DEF SelfInv, SelfTypeOK, SpawnOK, HelperOK, OneHelper, Quiet, Slipped, Inside, Alive,
     Guarded, Recreating, CleanupParent, Step, Mine, parentVars, clickVars,
     helperVars
<1>8. LifeOK'
  BY DEF SelfInv, SelfTypeOK, LifeOK, HelperPhase, CleanupParent, Step, Mine,
     parentVars, clickVars, helperVars
<1> QED
  BY <1>1, <1>2, <1>3, <1>4, <1>5, <1>6, <1>7, <1>8 DEF SelfInv

\* The helper polls.
LEMMA PollHealthzKeeps ==
  ASSUME NEW c \in Click, SelfInv, PollHealthz(c)
  PROVE  SelfInv'
<1>1. SelfTypeOK'
  <2>1. inFlight' \in BOOLEAN /\ crashed' \in BOOLEAN
    BY Zenon DEF SelfInv, SelfTypeOK, PollHealthz, Step, Alive, parentVars,
       clickVars, helperVars
  <2>2. actions' \in 0 .. MaxActions /\ boot' \in 1 .. MaxBoots
    BY DEF SelfInv, SelfTypeOK, PollHealthz, Step, Alive, parentVars, clickVars,
       helperVars
  <2>3. parent' \in [status : {"running", "exited", "absent", "created"}, id : Nat]
    BY DEF SelfInv, SelfTypeOK, PollHealthz, Step, Alive, parentVars, clickVars,
       helperVars
  <2>4. helper' \in [Click -> HelperPhase] /\ polls' \in [Click -> 0 .. MaxPolls]
    BY DEF SelfInv, SelfTypeOK, LifeOK, HelperPhase, PollHealthz, Step, Alive,
       parentVars, clickVars, helperVars
  <2> QED
    BY <2>1, <2>2, <2>3, <2>4 DEF SelfInv, SelfTypeOK, PollHealthz, parentVars,
       clickVars, helperVars
<1>2. CreatedOK'
  BY DEF SelfInv, SelfTypeOK, CreatedOK, Starting, Mine, PollHealthz, Step, Alive,
     parentVars, clickVars, helperVars
<1>3. HelperOK'
  BY DEF SelfInv, SelfTypeOK, MemoryOK, SpawnOK, HelperOK, OneHelper, Quiet, Slipped, Inside,
     Alive, Guarded, Recreating, PollHealthz, Step, parentVars, clickVars,
     helperVars
<1>4. GuardOwned'
  BY DEF SelfInv, SelfTypeOK, MemoryOK, GuardOwned, Alive, Guarded, PollHealthz,
     Step, parentVars, clickVars, helperVars
<1>5. OneHelper'
  BY DEF SelfInv, SelfTypeOK, SpawnOK, HelperOK, OneHelper, Quiet, Slipped, Inside, Alive,
     Guarded, Recreating, PollHealthz, Step, parentVars, clickVars, helperVars
<1>6. LifeOK'
  BY DEF SelfInv, SelfTypeOK, LifeOK, HelperPhase, PollHealthz, Step, Alive,
     parentVars, clickVars, helperVars
<1>7. MemoryOK' /\ SpawnOK'
  BY DEF SelfInv, MemoryOK, Alive, SpawnOK, Inside, PollHealthz, Step, parentVars,
     clickVars, helperVars
<1> QED
  BY <1>1, <1>2, <1>3, <1>4, <1>5, <1>6, <1>7 DEF SelfInv

\* An action begins.
LEMMA ActionBeginsKeeps ==
  ASSUME SelfInv, ActionBegins
  PROVE  SelfInv'
<1>1. SelfTypeOK'
  BY DEF SelfInv, SelfTypeOK, PC, HelperPhase, ActionBegins, MemoryLost, parentVars,
     clickVars, helperVars
<1>2. MemoryOK' /\ SpawnOK' /\ CreatedOK' /\ HelperOK' /\ GuardOwned' /\ OneHelper' /\ LifeOK'
  BY DEF SelfInv, MemoryOK, Alive, SpawnOK, Inside, CreatedOK, Mine, HelperOK,
     Quiet, Slipped, GuardOwned, OneHelper, LifeOK, ActionBegins, MemoryLost, parentVars,
     clickVars, helperVars
<1> QED
  BY <1>1, <1>2 DEF SelfInv

\* An action ends.
LEMMA ActionEndsKeeps ==
  ASSUME SelfInv, ActionEnds
  PROVE  SelfInv'
<1>1. SelfTypeOK'
  BY DEF SelfInv, SelfTypeOK, PC, HelperPhase, ActionEnds, MemoryLost, parentVars,
     clickVars, helperVars
<1>2. MemoryOK' /\ SpawnOK' /\ CreatedOK' /\ HelperOK' /\ GuardOwned' /\ OneHelper' /\ LifeOK'
  BY DEF SelfInv, MemoryOK, Alive, SpawnOK, Inside, CreatedOK, Mine, HelperOK,
     Quiet, Slipped, GuardOwned, OneHelper, LifeOK, ActionEnds, MemoryLost, parentVars,
     clickVars, helperVars
<1> QED
  BY <1>1, <1>2 DEF SelfInv

\* The parent dies on its own and comes back.
LEMMA ParentCrashesKeeps ==
  ASSUME SelfInv, ParentCrashes
  PROVE  SelfInv'
<1>1. SelfTypeOK'
  <2>1. inFlight' \in BOOLEAN /\ crashed' \in BOOLEAN
    BY Zenon DEF SelfInv, SelfTypeOK, ParentCrashes, MemoryLost, parentVars,
       clickVars, helperVars
  <2>2. actions' \in 0 .. MaxActions /\ boot' \in 1 .. MaxBoots
    BY DEF SelfInv, SelfTypeOK, ParentCrashes, MemoryLost, parentVars, clickVars,
       helperVars
  <2>3. parent' \in [status : {"running", "exited", "absent", "created"}, id : Nat]
    BY DEF SelfInv, SelfTypeOK, ParentCrashes, MemoryLost, parentVars, clickVars,
       helperVars
  <2>4. helper' \in [Click -> HelperPhase] /\ polls' \in [Click -> 0 .. MaxPolls]
    BY DEF SelfInv, SelfTypeOK, LifeOK, HelperPhase, ParentCrashes, MemoryLost,
       parentVars, clickVars, helperVars
  <2> QED
    BY <2>1, <2>2, <2>3, <2>4 DEF SelfInv, SelfTypeOK, ParentCrashes, parentVars,
       clickVars, helperVars
<1>2. MemoryOK'
  BY DEF SelfInv, SelfTypeOK, MemoryOK, Alive, ParentCrashes, MemoryLost,
     parentVars, clickVars, helperVars
<1>3. SpawnOK'
  BY DEF SelfInv, SelfTypeOK, MemoryOK, SpawnOK, Inside, Alive, Guarded,
     ParentCrashes, MemoryLost, parentVars, clickVars, helperVars
<1>4. HelperOK'
  BY DEF SelfInv, SelfTypeOK, MemoryOK, SpawnOK, HelperOK, OneHelper, Quiet, Slipped, Inside,
     Alive, Guarded, Recreating, ParentCrashes, MemoryLost, parentVars, clickVars,
     helperVars
<1>5. GuardOwned'
  BY DEF SelfInv, SelfTypeOK, MemoryOK, GuardOwned, Alive, Guarded, ParentCrashes,
     MemoryLost, parentVars, clickVars, helperVars
<1>6. OneHelper'
  BY DEF SelfInv, SelfTypeOK, SpawnOK, HelperOK, OneHelper, Quiet, Slipped, Inside, Alive,
     Guarded, Recreating, ParentCrashes, MemoryLost, parentVars, clickVars,
     helperVars
<1>7. CreatedOK' /\ LifeOK'
  BY DEF SelfInv, CreatedOK, Mine, LifeOK, ParentCrashes, MemoryLost, parentVars,
     clickVars, helperVars
<1> QED
  BY <1>1, <1>2, <1>3, <1>4, <1>5, <1>6, <1>7 DEF SelfInv


\* Every step of a click, a helper or the world around them preserves it.
LEMMA SelfNext == SelfInv /\ [Next]_selfVars => SelfInv'
<1> SUFFICES ASSUME SelfInv, [Next]_selfVars PROVE SelfInv'
  OBVIOUS
<1>1. ASSUME NEW c \in Click, ClickStep(c) PROVE SelfInv'
  BY <1>1, HandleSelfUpdateKeeps, CheckActionsKeeps, CompareAndSwapKeeps, InspectParentKeeps,
     CreateHelperKeeps, StartHelperKeeps, CleanupHelperKeeps DEF ClickStep
<1>2. ASSUME NEW c \in Click, HelperStep(c) PROVE SelfInv'
  BY <1>2, DelayKeeps, PreInspectKeeps, PullParentKeeps, ListParentKeeps, StopParentKeeps,
     RemoveParentKeeps, CreateParentKeeps, StartParentKeeps, CleanupParentKeeps,
     PollHealthzKeeps DEF HelperStep
<1>3. CASE UNCHANGED selfVars
  BY <1>3 DEF SelfInv, SelfTypeOK, MemoryOK, SpawnOK, CreatedOK, HelperOK, GuardOwned, OneHelper,
     LifeOK, Inside, Quiet, Slipped, Alive, Mine, selfVars, parentVars, clickVars, helperVars
<1> QED
  BY <1>1, <1>2, <1>3, ArriveKeeps, ClientGoneKeeps, ActionBeginsKeeps, ActionEndsKeeps,
     ParentCrashesKeeps DEF Next

\* The strengthened invariant holds of every behaviour of the self-update.
THEOREM SelfInvariant == Spec => []SelfInv
<1> QED
  BY SelfInit, SelfNext, PTL DEF Spec

\* The clicks, the helpers and the parent keep their types.
THEOREM SelfTypes == Spec => []SelfTypeOK
<1>1. SelfInv => SelfTypeOK
  BY DEF SelfInv
<1> QED
  BY <1>1, SelfInvariant, PTL

\* No failure of Spawn leaves its guard up: the guard has an owner.
THEOREM Guard == Spec => []GuardOwned
<1>1. SelfInv => GuardOwned
  BY DEF SelfInv
<1> QED
  BY <1>1, SelfInvariant, PTL

\* Any number of clicks starts at most one helper at a time.
THEOREM SingleHelper == Spec => []OneHelper
<1>1. SelfInv => OneHelper
  BY DEF SelfInv
<1> QED
  BY <1>1, SelfInvariant, PTL
=============================================================================
