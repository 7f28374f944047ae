------------------------------ MODULE TryLock ------------------------------
(***************************************************************************)
(* What the per-service mutex promises the three actions: one holder per   *)
(* service, an answer to every call, and a refusal only when somebody      *)
(* holds the very service that was asked for.                              *)
(***************************************************************************)
CONSTANTS Goroutine, Service, NoOne

VARIABLES holder,    \* who holds each service
          asked,     \* the service each goroutine's last call asked for
          answer     \* what that call was told

tryLockVars == <<holder, asked, answer>>

Init == /\ holder = [s \in Service |-> NoOne]
        /\ asked \in [Goroutine -> Service]
        /\ answer = [g \in Goroutine |-> "none"]

Ask(g, s) == /\ answer[g] \in {"none", "busy"}
             /\ asked' = [asked EXCEPT ![g] = s]
             /\ answer' = [answer EXCEPT ![g] = "asked"]
             /\ UNCHANGED holder

Acquire(g) == /\ answer[g] = "asked"
              /\ holder[asked[g]] = NoOne
              /\ holder' = [holder EXCEPT ![asked[g]] = g]
              /\ answer' = [answer EXCEPT ![g] = "locked"]
              /\ UNCHANGED asked

Busy(g) == /\ answer[g] = "asked"
           /\ holder[asked[g]] # NoOne
           /\ answer' = [answer EXCEPT ![g] = "busy"]
           /\ UNCHANGED <<holder, asked>>

Release(g) == /\ answer[g] = "locked"
              /\ holder[asked[g]] = g
              /\ holder' = [holder EXCEPT ![asked[g]] = NoOne]
              /\ answer' = [answer EXCEPT ![g] = "none"]
              /\ UNCHANGED asked

Next == \E g \in Goroutine :
           \/ \E s \in Service : Ask(g, s)
           \/ Acquire(g) \/ Busy(g) \/ Release(g)

Spec == Init /\ [][Next]_tryLockVars
=============================================================================
