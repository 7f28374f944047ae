------------------------- MODULE ServiceLockProofs -------------------------
(***************************************************************************)
(* For every number of goroutines and every set of services: the map of    *)
(* mutexes excludes, counts exactly, and implements TryLock.               *)
(***************************************************************************)
EXTENDS ServiceLock, FiniteSetTheorems, TLAPS

\* LockTypeOK, but for the sign of the counter: that is CounterExact's.
StateTypeOK ==
    /\ locks \in [Service -> Mutex \cup {NoMutex}]
    /\ owner \in [Mutex -> Goroutine \cup {NoOne}]
    /\ pc \in [Goroutine -> PC]
    /\ wants \in [Goroutine -> Service]
    /\ mutex \in [Goroutine -> Mutex \cup {NoMutex}]
    /\ answer \in [Goroutine -> {"none", "asked", "locked", "busy"}]
    /\ inFlight \in Int

\* A goroutine past the lookup has the mutex of the map.
LookedUp ==
    \A g \in Goroutine :
       pc[g] \in Holding \cup {"trylock"} =>
          mutex[g] = locks[wants[g]] /\ mutex[g] # NoMutex

\* A goroutine between TryLock and Unlock owns the mutex it looked up.
HoldersOwn == \A g \in Goroutine : pc[g] \in Holding => owner[mutex[g]] = g

\* A mutex serves one service, and only mutexes of the map are owned.
OnePerService == \A s \in Service : locks[s] # NoMutex => locks[s][2] = s
OwnedAreMapped == \A m \in Mutex : owner[m] # NoOne => locks[m[2]] = m

\* A goroutine waits for its answer exactly until TryLock, and was told "locked"
\* exactly while it holds.
AnswerHeld ==
    \A g \in Goroutine :
       /\ answer[g] = "asked" <=> pc[g] \in {"lookup", "create", "trylock"}
       /\ answer[g] = "locked" <=> pc[g] \in Holding

LockInv == StateTypeOK /\ LookedUp /\ HoldersOwn /\ OnePerService /\ OwnedAreMapped
             /\ AnswerHeld

\* The inductive invariant holds at the start.
LEMMA InitLockInv == Init => LockInv
BY LockAssumption
DEF Init, LockInv, StateTypeOK, LookedUp, HoldersOwn, OnePerService, OwnedAreMapped,
    AnswerHeld, PC, Holding

\* Every step of lockService and of its unlock closure preserves types.
LEMMA TypeStep == StateTypeOK /\ LookedUp /\ [Next]_lockVars => StateTypeOK'
<1> SUFFICES ASSUME StateTypeOK, LookedUp, [Next]_lockVars PROVE StateTypeOK'
  OBVIOUS
<1> USE DEF StateTypeOK, PC, Goto
<1>1. CASE UNCHANGED lockVars
  BY <1>1 DEF lockVars
<1>2. ASSUME NEW g \in Goroutine, Step(g) PROVE StateTypeOK'
  <2>1. CASE Call(g)
    BY <2>1 DEF Call
  <2>2. CASE Lookup(g)
    BY <2>2 DEF Lookup
  <2>3. CASE Create(g)
    BY <2>3 DEF Create, Mutex
  <2>4. CASE TryToLock(g)
    BY <2>4 DEF TryToLock, LookedUp
  <2>5. CASE Add(g)
    BY <2>5 DEF Add
  <2>6. CASE Body(g)
    BY <2>6 DEF Body
  <2>7. CASE Unlock(g)
    BY <2>7 DEF Unlock, LookedUp, Holding
  <2>8. CASE Subtract(g)
    BY <2>8 DEF Subtract
  <2> QED
    BY <1>2, <2>1, <2>2, <2>3, <2>4, <2>5, <2>6, <2>7, <2>8 DEF Step
<1> QED
  BY <1>1, <1>2 DEF Next

\* And the rest of the invariant.
LEMMA LockStep == LockInv /\ [Next]_lockVars => LockInv'
<1> SUFFICES ASSUME LockInv, [Next]_lockVars PROVE LockInv'
  OBVIOUS
<1>0. StateTypeOK'
  BY TypeStep DEF LockInv
<1> USE LockAssumption DEF LockInv, StateTypeOK, PC, Holding, Goto,
        LookedUp, HoldersOwn, OnePerService, OwnedAreMapped, AnswerHeld
<1>1. CASE UNCHANGED lockVars
  BY <1>1 DEF lockVars
<1>2. ASSUME NEW g \in Goroutine, Step(g) PROVE LockInv'
  <2>1. CASE Call(g)
    BY <1>0, <2>1 DEF Call
  <2>2. CASE Lookup(g)
    BY <1>0, <2>2 DEF Lookup
  <2>3. CASE Create(g)
    <3> DEFINE s == wants[g]
    <3>1. s \in Service /\ <<g, s>> \in Mutex
      BY DEF Mutex
    <3>2. CASE locks[s] = NoMutex
      <4>1. locks' = [locks EXCEPT ![s] = <<g, s>>] /\ mutex' = [mutex EXCEPT ![g] = <<g, s>>]
        BY <2>3, <3>2 DEF Create
      <4>2. pc' = [pc EXCEPT ![g] = "trylock"] /\ UNCHANGED <<owner, wants, answer>>
               /\ pc[g] = "create"
        BY <2>3 DEF Create
      <4>3. \A h \in Goroutine : pc[h] \in Holding \cup {"trylock"} => wants[h] # s
        BY <3>2
      <4>4. LookedUp'
        BY <3>1, <4>1, <4>2, <4>3
      <4>5. HoldersOwn' /\ AnswerHeld'
        BY <4>1, <4>2
      <4>6. OnePerService'
        BY <3>1, <4>1
      <4>7. \A m \in Mutex : m[2] = s => owner[m] = NoOne
        BY <3>2 DEF Mutex
      <4>8. OwnedAreMapped'
        BY <4>1, <4>2, <4>7 DEF Mutex
      <4> QED
        BY <1>0, <4>4, <4>5, <4>6, <4>8
    <3>3. CASE locks[s] # NoMutex
      <4>1. UNCHANGED locks /\ mutex' = [mutex EXCEPT ![g] = locks[s]]
        BY <2>3, <3>3 DEF Create
      <4> QED
        BY <1>0, <2>3, <3>1, <3>3, <4>1 DEF Create
    <3> QED
      BY <3>2, <3>3
  <2>4. CASE TryToLock(g)
    <3>1. mutex[g] \in Mutex /\ mutex[g] = locks[wants[g]] /\ pc[g] = "trylock"
      BY <2>4 DEF TryToLock
    <3>2. LookedUp' /\ OnePerService' /\ AnswerHeld'
      BY <2>4 DEF TryToLock
    <3>3. HoldersOwn'
      BY <2>4, <3>1 DEF TryToLock
    <3>4. OwnedAreMapped'
      BY <2>4, <3>1 DEF TryToLock
    <3> QED
      BY <1>0, <3>2, <3>3, <3>4
  <2>5. CASE Add(g)
    BY <1>0, <2>5 DEF Add
  <2>6. CASE Body(g)
    BY <1>0, <2>6 DEF Body
  <2>7. CASE Unlock(g)
    BY <1>0, <2>7 DEF Unlock
  <2>8. CASE Subtract(g)
    BY <1>0, <2>8 DEF Subtract
  <2> QED
    BY <1>2, <2>1, <2>2, <2>3, <2>4, <2>5, <2>6, <2>7, <2>8 DEF Step
<1> QED
  BY <1>1, <1>2 DEF Next

\* The inductive invariant holds throughout.
THEOREM LockInvariant == Spec => []LockInv
BY InitLockInv, LockStep, PTL DEF Spec

\* Two actions never work on one service: the double-checked allocation of the
\* mutex in lockService leaves one mutex per service, and TryLock one owner.
THEOREM Exclusion == Spec => []MutualExclusion
<1>1. LockInv => MutualExclusion
  BY DEF LockInv, StateTypeOK, LookedUp, HoldersOwn, MutualExclusion, Holding
<1> QED
  BY <1>1, LockInvariant, PTL

-----------------------------------------------------------------------------
(* The counter of the actions in flight.                                   *)

\* The goroutines the counter counts.
Inside == {g \in Goroutine : pc[g] \in Counted}

\* Counting one goroutine more, one less, or the same ones.
LEMMA CounterStep == StateTypeOK /\ CounterExact /\ [Next]_lockVars => CounterExact'
<1> SUFFICES ASSUME StateTypeOK, CounterExact, [Next]_lockVars PROVE CounterExact'
  OBVIOUS
<1>1. IsFiniteSet(Inside) /\ inFlight = Cardinality(Inside)
  BY FS_Subset, LockAssumption DEF Inside, CounterExact
<1>2. (CounterExact <=> inFlight = Cardinality(Inside))'
  BY DEF Inside, CounterExact
<1>3. CASE UNCHANGED <<Inside, inFlight>>
  BY <1>1, <1>2, <1>3
<1>4. ASSUME NEW g \in Goroutine, Step(g) PROVE CounterExact'
  <2> USE DEF StateTypeOK, PC, Goto, Counted, Inside
  <2>1. CASE Add(g)
    <3>1. Inside' = Inside \cup {g} /\ g \notin Inside /\ inFlight' = inFlight + 1
      BY <2>1 DEF Add
    <3>2. Cardinality(Inside \cup {g}) = Cardinality(Inside) + 1
      BY <1>1, <3>1, FS_AddElement
    <3> QED
      BY <1>1, <1>2, <3>1, <3>2
  <2>2. CASE Subtract(g)
    <3>1. Inside' = Inside \ {g} /\ g \in Inside /\ inFlight' = inFlight - 1
      BY <2>2 DEF Subtract
    <3>2. Cardinality(Inside \ {g}) = Cardinality(Inside) - 1
      BY <1>1, <3>1, FS_RemoveElement
    <3> QED
      BY <1>1, <1>2, <3>1, <3>2
  <2>3. CASE Call(g)
    BY <1>3, <2>3 DEF Call
  <2>4. CASE Lookup(g)
    BY <1>3, <2>4 DEF Lookup
  <2>5. CASE Create(g)
    BY <1>3, <2>5 DEF Create
  <2>6. CASE TryToLock(g)
    BY <1>3, <2>6 DEF TryToLock
  <2>7. CASE Body(g)
    BY <1>3, <2>7 DEF Body
  <2>8. CASE Unlock(g)
    BY <1>3, <2>8 DEF Unlock
  <2> QED
    BY <1>4, <2>1, <2>2, <2>3, <2>4, <2>5, <2>6, <2>7, <2>8 DEF Step
<1>5. CASE UNCHANGED lockVars
  BY <1>3, <1>5 DEF lockVars, Inside
<1> QED
  BY <1>4, <1>5 DEF Next

\* What the self-update asks: the counter is the number of actions between its
\* two Adds, for any number of goroutines.
THEOREM Counter == Spec => []CounterExact
<1>1. Init => CounterExact
  <2> SUFFICES ASSUME Init PROVE CounterExact
    OBVIOUS
  <2>1. {g \in Goroutine : pc[g] \in Counted} = {}
    BY DEF Init, Counted
  <2> QED
    BY <2>1, FS_EmptySet DEF Init, CounterExact
<1>2. LockInv => StateTypeOK
  BY DEF LockInv
<1> QED
  BY <1>1, <1>2, LockInvariant, CounterStep, PTL DEF Spec

\* The state of lockService keeps its types, whoever calls it and however often:
\* the counter of the actions in flight never goes below zero.
THEOREM LockTypes == Spec => []LockTypeOK
<1>1. LockInv /\ CounterExact => LockTypeOK
  <2> SUFFICES ASSUME LockInv, CounterExact PROVE LockTypeOK
    OBVIOUS
  <2>1. IsFiniteSet({g \in Goroutine : pc[g] \in Counted})
    BY FS_Subset, LockAssumption
  <2>2. inFlight \in Nat
    BY <2>1, FS_CardinalityType DEF CounterExact
  <2> QED
    BY <2>2 DEF LockInv, StateTypeOK, LockTypeOK
<1> QED
  BY <1>1, LockInvariant, Counter, PTL

-----------------------------------------------------------------------------
(* The refinement.                                                         *)

\* Each step of the code is a step of TryLock, or none.
LEMMA StepRefines ==
    LockInv /\ LockInv' /\ [Next]_lockVars => [Abstract!Next]_(Abstract!tryLockVars)
<1> SUFFICES ASSUME LockInv, LockInv', [Next]_lockVars
             PROVE  [Abstract!Next]_(Abstract!tryLockVars)
  OBVIOUS
<1> USE DEF LockInv, StateTypeOK, Goto
<1>1. CASE UNCHANGED <<holderOf, wants, answer>>
  BY <1>1 DEF Abstract!tryLockVars
<1>2. CASE UNCHANGED lockVars
  BY <1>1, <1>2 DEF lockVars, holderOf
<1>3. ASSUME NEW g \in Goroutine, Step(g) PROVE [Abstract!Next]_(Abstract!tryLockVars)
  <2> DEFINE s == wants[g]
  <2>0. s \in Service
    OBVIOUS
  <2>1. CASE Call(g)
    <3>1. PICK t \in Service : wants' = [wants EXCEPT ![g] = t]
      BY <2>1 DEF Call
    <3>2. answer[g] \in {"none", "busy"}
      BY <2>1 DEF Call, AnswerHeld, Holding
    <3>3. Abstract!Ask(g, t)
      BY <2>1, <3>1, <3>2 DEF Call, Abstract!Ask, holderOf
    <3> QED
      BY <3>3 DEF Abstract!Next
  <2>2. CASE Lookup(g)
    BY <1>1, <2>2 DEF Lookup, holderOf
  <2>3. CASE Create(g)
    <3>1. CASE locks[s] = NoMutex
      <4>1. locks' = [locks EXCEPT ![s] = <<g, s>>] /\ UNCHANGED <<owner, wants, answer>>
        BY <2>3, <3>1 DEF Create
      <4>2. owner[<<g, s>>] = NoOne /\ <<g, s>> # NoMutex
        BY <2>0, <3>1, LockAssumption DEF OwnedAreMapped, Mutex
      <4>3. UNCHANGED holderOf
        BY <2>0, <3>1, <4>1, <4>2 DEF holderOf
      <4> QED
        BY <1>1, <4>1, <4>3
    <3>2. CASE locks[s] # NoMutex
      <4>1. UNCHANGED <<locks, owner, wants, answer>>
        BY <2>3, <3>2 DEF Create
      <4> QED
        BY <1>1, <4>1 DEF holderOf
    <3> QED
      BY <3>1, <3>2
  <2>4. CASE TryToLock(g)
    <3>1. mutex[g] = locks[s] /\ locks[s] \in Mutex /\ locks[s] # NoMutex
            /\ answer[g] = "asked" /\ holderOf[s] = owner[locks[s]]
      BY <2>4, <2>0, LockAssumption DEF TryToLock, LookedUp, AnswerHeld, Holding, holderOf
    <3>2. CASE owner[locks[s]] = NoOne
      <4>1. owner' = [owner EXCEPT ![locks[s]] = g] /\ UNCHANGED <<locks, wants>>
              /\ answer' = [answer EXCEPT ![g] = "locked"]
        BY <2>4, <3>1, <3>2 DEF TryToLock
      <4>2. \A t \in Service : t # s /\ locks[t] # NoMutex => locks[t] # locks[s]
        BY <2>0, <3>1 DEF OnePerService
      <4>3. holderOf' = [holderOf EXCEPT ![s] = g]
        BY <2>0, <3>1, <4>1, <4>2 DEF holderOf
      <4>4. Abstract!Acquire(g)
        BY <3>1, <3>2, <4>1, <4>3 DEF Abstract!Acquire
      <4> QED
        BY <2>0, <4>4 DEF Abstract!Next
    <3>3. CASE owner[locks[s]] # NoOne
      <4>1. UNCHANGED <<owner, locks, wants>> /\ answer' = [answer EXCEPT ![g] = "busy"]
        BY <2>4, <3>1, <3>3 DEF TryToLock
      <4>2. Abstract!Busy(g)
        BY <3>1, <3>3, <4>1 DEF Abstract!Busy, holderOf
      <4> QED
        BY <2>0, <4>2 DEF Abstract!Next
    <3> QED
      BY <3>2, <3>3
  <2>5. CASE Add(g)
    BY <1>1, <2>5 DEF Add, holderOf
  <2>6. CASE Body(g)
    BY <1>1, <2>6 DEF Body, holderOf
  <2>7. CASE Unlock(g)
    <3>1. mutex[g] = locks[s] /\ locks[s] \in Mutex /\ locks[s] # NoMutex
            /\ holderOf[s] = g /\ answer[g] = "locked"
      BY <2>7, <2>0, LockAssumption
      DEF Unlock, LookedUp, HoldersOwn, AnswerHeld, Holding, holderOf
    <3>2. owner' = [owner EXCEPT ![locks[s]] = NoOne] /\ UNCHANGED <<locks, wants>>
            /\ answer' = [answer EXCEPT ![g] = "none"]
      BY <2>7, <3>1 DEF Unlock
    <3>3. \A t \in Service : t # s /\ locks[t] # NoMutex => locks[t] # locks[s]
      BY <2>0, <3>1 DEF OnePerService
    <3>4. holderOf' = [holderOf EXCEPT ![s] = NoOne]
      BY <2>0, <3>1, <3>2, <3>3 DEF holderOf
    <3>5. Abstract!Release(g)
      BY <3>1, <3>2, <3>4 DEF Abstract!Release
    <3> QED
      BY <2>0, <3>5 DEF Abstract!Next
  <2>8. CASE Subtract(g)
    BY <1>1, <2>8 DEF Subtract, holderOf
  <2> QED
    BY <1>3, <2>1, <2>2, <2>3, <2>4, <2>5, <2>6, <2>7, <2>8 DEF Step
<1> QED
  BY <1>2, <1>3 DEF Next

\* lockService implements TryLock: one holder per service, and a refusal only while
\* somebody holds the service that was asked for, for any number of goroutines and
\* services.
THEOREM Refinement == Spec => ImplementsTryLock
<1>1. Init => Abstract!Init
  BY DEF Init, Abstract!Init, holderOf
<1> QED
  BY <1>1, LockInvariant, StepRefines, PTL DEF Spec, ImplementsTryLock, Abstract!Spec
=============================================================================
