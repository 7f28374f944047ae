---------------------------- MODULE ServiceLock ----------------------------
(***************************************************************************)
(* lockService: a map of mutexes that grows on first use, under a          *)
(* read-write lock, a TryLock outside that lock, and a counter of the      *)
(* actions in flight that the self-update asks before it replaces the      *)
(* process.                                                                *)
(*                                                                         *)
(* The body of the read lock and the body of the write lock are each one   *)
(* step: nothing else can look at the map between.  TryLock, Unlock and    *)
(* the two Adds are atomic operations, and steps of their own.             *)
(***************************************************************************)
EXTENDS Integers, FiniteSets

CONSTANTS Goroutine, Service, NoOne, NoMutex

\* A mutex is known by who allocated it, and for which service.
Mutex == Goroutine \X Service

ASSUME LockAssumption ==
    /\ NoOne \notin Goroutine
    /\ NoMutex \notin Mutex
    /\ IsFiniteSet(Goroutine)

VARIABLES locks,     \* the map from service to mutex
          owner,     \* who has locked each mutex
          pc,        \* where each goroutine is
          wants,     \* the service it asks for
          mutex,     \* the mutex it looked up
          answer,    \* what lockService told it, if it has
          inFlight   \* the atomic counter

lockVars == <<locks, owner, pc, wants, mutex, answer, inFlight>>

PC == {"idle", "lookup", "create", "trylock", "add", "body", "unlock", "subtract"}

\* Between TryLock and Unlock.
Holding == {"add", "body", "unlock"}

\* Between the two Adds.
Counted == {"body", "unlock", "subtract"}

Goto(g, from, to) == pc[g] = from /\ pc' = [pc EXCEPT ![g] = to]

Call(g) ==
    /\ Goto(g, "idle", "lookup")
    /\ \E s \in Service : wants' = [wants EXCEPT ![g] = s]
    /\ answer' = [answer EXCEPT ![g] = "asked"]
    /\ UNCHANGED <<locks, owner, mutex, inFlight>>

\* The fast path, under the read lock.
Lookup(g) ==
    LET m == locks[wants[g]]
    IN  /\ Goto(g, "lookup", IF m = NoMutex THEN "create" ELSE "trylock")
        /\ mutex' = [mutex EXCEPT ![g] = m]
        /\ UNCHANGED <<locks, owner, wants, answer, inFlight>>

\* Mutant of Create: allocates without looking again.
CreateUnchecked(g) ==
    LET m == <<g, wants[g]>>
    IN  /\ Goto(g, "create", "trylock")
        /\ mutex' = [mutex EXCEPT ![g] = m]
        /\ locks' = [locks EXCEPT ![wants[g]] = m]
        /\ UNCHANGED <<owner, wants, answer, inFlight>>

\* The slow path, under the write lock: look again before allocating.
Create(g) ==
    LET s == wants[g]
        m == IF locks[s] = NoMutex THEN <<g, s>> ELSE locks[s]
    IN  /\ Goto(g, "create", "trylock")
        /\ mutex' = [mutex EXCEPT ![g] = m]
        /\ locks' = [locks EXCEPT ![s] = m]
        /\ UNCHANGED <<owner, wants, answer, inFlight>>

\* Mutants of TryToLock: Lock instead of TryLock; a refusal while any service is
\* held, as one mutex for all of them would give.
LockBlocking(g) ==
    /\ Goto(g, "trylock", "add")
    /\ owner[mutex[g]] = NoOne
    /\ owner' = [owner EXCEPT ![mutex[g]] = g]
    /\ answer' = [answer EXCEPT ![g] = "locked"]
    /\ UNCHANGED <<locks, wants, mutex, inFlight>>
TryOneForAll(g) ==
    /\ \/ /\ Goto(g, "trylock", "add")
          /\ \A m \in Mutex : owner[m] = NoOne
          /\ owner' = [owner EXCEPT ![mutex[g]] = g]
          /\ answer' = [answer EXCEPT ![g] = "locked"]
       \/ /\ Goto(g, "trylock", "idle")
          /\ \E m \in Mutex : owner[m] # NoOne
          /\ answer' = [answer EXCEPT ![g] = "busy"]
          /\ UNCHANGED owner
    /\ UNCHANGED <<locks, wants, mutex, inFlight>>

\* TryLock: the mutex, or ErrServiceBusy.
TryToLock(g) ==
    /\ \/ /\ Goto(g, "trylock", "add")
          /\ owner[mutex[g]] = NoOne
          /\ owner' = [owner EXCEPT ![mutex[g]] = g]
          /\ answer' = [answer EXCEPT ![g] = "locked"]
       \/ /\ Goto(g, "trylock", "idle")
          /\ owner[mutex[g]] # NoOne
          /\ answer' = [answer EXCEPT ![g] = "busy"]
          /\ UNCHANGED owner
    /\ UNCHANGED <<locks, wants, mutex, inFlight>>

Add(g) ==
    /\ Goto(g, "add", "body")
    /\ inFlight' = inFlight + 1
    /\ UNCHANGED <<locks, owner, wants, mutex, answer>>

\* The action between lockService and its deferred unlock.
Body(g) ==
    /\ Goto(g, "body", "unlock")
    /\ UNCHANGED <<locks, owner, wants, mutex, answer, inFlight>>

\* The unlock closure releases the mutex first and counts down after.
Unlock(g) ==
    /\ Goto(g, "unlock", "subtract")
    /\ owner' = [owner EXCEPT ![mutex[g]] = NoOne]
    /\ answer' = [answer EXCEPT ![g] = "none"]
    /\ UNCHANGED <<locks, wants, mutex, inFlight>>

\* Mutants of Subtract: counts twice; does not count.
SubtractTwice(g) ==
    /\ Goto(g, "subtract", "idle")
    /\ inFlight' = inFlight - 2
    /\ UNCHANGED <<locks, owner, wants, mutex, answer>>
SubtractForgotten(g) ==
    /\ Goto(g, "subtract", "idle")
    /\ UNCHANGED <<locks, owner, wants, mutex, answer, inFlight>>

Subtract(g) ==
    /\ Goto(g, "subtract", "idle")
    /\ inFlight' = inFlight - 1
    /\ UNCHANGED <<locks, owner, wants, mutex, answer>>

Step(g) == \/ Call(g) \/ Lookup(g) \/ Create(g) \/ TryToLock(g)
           \/ Add(g) \/ Body(g) \/ Unlock(g) \/ Subtract(g)

Init ==
    /\ locks = [s \in Service |-> NoMutex]
    /\ owner = [m \in Mutex |-> NoOne]
    /\ pc = [g \in Goroutine |-> "idle"]
    /\ wants \in [Goroutine -> Service]
    /\ mutex = [g \in Goroutine |-> NoMutex]
    /\ answer = [g \in Goroutine |-> "none"]
    /\ inFlight = 0

Next == \E g \in Goroutine : Step(g)

Spec == Init /\ [][Next]_lockVars

\* A goroutine inside lockService or its unlock closure runs on.
FairSpec == Spec /\ \A g \in Goroutine : WF_lockVars(Step(g) /\ pc[g] # "idle")
-----------------------------------------------------------------------------
(* Properties.                                                             *)

LockTypeOK ==
    /\ locks \in [Service -> Mutex \cup {NoMutex}]
    /\ owner \in [Mutex -> Goroutine \cup {NoOne}]
    /\ pc \in [Goroutine -> PC]
    /\ wants \in [Goroutine -> Service]
    /\ mutex \in [Goroutine -> Mutex \cup {NoMutex}]
    /\ answer \in [Goroutine -> {"none", "asked", "locked", "busy"}]
    /\ inFlight \in Nat

\* Two actions never work on one service, even when both found no mutex in the
\* map and went to allocate one.
MutualExclusion ==
    \A g, h \in Goroutine :
       (g # h /\ pc[g] \in Holding /\ pc[h] \in Holding) => wants[g] # wants[h]

\* The counter is the number of actions between the Adds: an action whose body
\* runs is always counted, so a self-update that reads zero interrupts none that
\* has begun, and the counter returns to zero when all is quiet.
CounterExact == inFlight = Cardinality({g \in Goroutine : pc[g] \in Counted})

\* Who holds a service, for the abstract specification.
holderOf == [s \in Service |-> IF locks[s] = NoMutex THEN NoOne ELSE owner[locks[s]]]

Abstract == INSTANCE TryLock WITH holder <- holderOf, asked <- wants

\* lockService refuses a call exactly when somebody holds the service that call
\* asked for, whoever holds the others, and lets one goroutine in at a time: the
\* map of mutexes implements TryLock.
ImplementsTryLock == Abstract!Spec

\* A call is answered whoever holds the service: nobody queues.
AnsweredAtOnce ==
    \A g \in Goroutine : (pc[g] = "lookup") ~> (pc[g] \in Holding \cup {"idle"})
=============================================================================
