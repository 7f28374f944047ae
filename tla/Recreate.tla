------------------------------ MODULE Recreate ------------------------------
(***************************************************************************)
(* recreate.Service: the one primitive that replaces a service's container *)
(* over the daemon socket.  List, inspect and translate; stop; remove;     *)
(* create; connect the extra networks; start; with a best-effort removal   *)
(* of the new container when one of the last two fails.                    *)
(*                                                                         *)
(* Every daemon call takes the caller's context.  A cancelled context      *)
(* fails the call, and the daemon may have acted before it noticed.        *)
(***************************************************************************)
EXTENDS Daemon

CONSTANT Caller        \* who calls recreate.Service

VARIABLES step,        \* how far each caller's call has come
          extras,      \* the networks each caller still has to connect
          leftover,    \* history: services whose clean-up failed
          cancelled    \* whether each caller's context is done

recreateVars == <<step, extras, leftover, cancelled>>

Step == {"idle", "list", "stop", "remove", "create", "connect", "start",
         "cleanup", "ok", "err"}

StepTo(c, from, to) == /\ step[c] = from
                       /\ step' = [step EXCEPT ![c] = to]
                       /\ UNCHANGED cancelled

\* A call of c that succeeds: its context was not done.
Succeeds(c, from, to) == ~cancelled[c] /\ StepTo(c, from, to)

\* Mutant of TranslateNetworks: the extra networks are forgotten.
TranslateFirstOnly(N) == {[first |-> {n}, extras |-> {}] : n \in N}

\* translateNetworks: one network, whichever the map's iteration yields first, goes
\* into the create, the others are connected one by one.
TranslateNetworks(N) ==
    IF N = {} THEN {[first |-> {}, extras |-> {}]}
    ELSE {[first |-> {n}, extras |-> N \ {n}] : n \in N}

\* scrubEndpoint: the alias the daemon made of the old container's id is dropped.
ScrubEndpoint(s) == container[s].aliases \ {container[s].id}

\* ContainerList, ContainerInspect and the image-label refresh only read.  A
\* service with no container at all cannot be recreated.
ListOld(c, s) ==
    /\ \/ container[s].status # "absent" /\ Succeeds(c, "list", "stop")
       \/ StepTo(c, "list", "err")
    /\ UNCHANGED <<daemonVars, extras>>

\* A failing call whose effect took place all the same.
ActedAnyway(c, effect) == cancelled[c] /\ effect

StopOld(c, s) ==
    /\ \/ Succeeds(c, "stop", "remove") /\ StopContainer(s)
       \/ StepTo(c, "stop", "err") /\ UNCHANGED daemonVars
       \/ StepTo(c, "stop", "err") /\ ActedAnyway(c, StopContainer(s))
    /\ UNCHANGED extras

RemoveOld(c, s) ==
    /\ \/ Succeeds(c, "remove", "create") /\ RemoveContainer(s)
       \/ StepTo(c, "remove", "err") /\ UNCHANGED daemonVars
       \/ StepTo(c, "remove", "err") /\ ActedAnyway(c, RemoveContainer(s))
    /\ UNCHANGED extras

\* Once the old container is gone a failure leaves the service with none.  What
\* Translate made of the old container is used here.
CreateNew(c, s) ==
    \/ \E t \in TranslateNetworks(container[s].nets) :
         /\ Succeeds(c, "create", IF t.extras = {} THEN "start" ELSE "connect")
         /\ CreateContainer(s, t.first, ScrubEndpoint(s))
         /\ extras' = [extras EXCEPT ![c] = t.extras]
    \/ /\ StepTo(c, "create", "err")
       /\ \/ UNCHANGED daemonVars
          \/ \E t \in TranslateNetworks(container[s].nets) :
               ActedAnyway(c, CreateContainer(s, t.first, ScrubEndpoint(s)))
       /\ UNCHANGED extras

\* NetworkConnect, once per extra network, in any order.
ConnectNetworks(c, s) ==
    \E n \in extras[c] :
       \/ /\ Succeeds(c, "connect", IF extras[c] = {n} THEN "start" ELSE "connect")
          /\ ConnectNetwork(s, n)
          /\ extras' = [extras EXCEPT ![c] = @ \ {n}]
       \/ /\ StepTo(c, "connect", "cleanup")
          /\ UNCHANGED daemonVars \/ ActedAnyway(c, ConnectNetwork(s, n))
          /\ extras' = [extras EXCEPT ![c] = {}]

StartNew(c, s) ==
    /\ \/ Succeeds(c, "start", "ok") /\ StartContainer(s)
       \/ StepTo(c, "start", "cleanup") /\ UNCHANGED daemonVars
       \/ StepTo(c, "start", "cleanup") /\ ActedAnyway(c, StartContainer(s))
    /\ UNCHANGED extras

\* The clean-up uses the same context and its own failure is ignored.
CleanupNew(c, s) ==
    /\ \/ /\ Succeeds(c, "cleanup", "err")
          /\ RemoveContainer(s)
          /\ UNCHANGED leftover
       \/ /\ StepTo(c, "cleanup", "err")
          /\ leftover' = leftover \cup {s}
          /\ UNCHANGED daemonVars
    /\ UNCHANGED extras

RecreateStep(c, s) ==
    \/ /\ \/ ListOld(c, s)
          \/ StopOld(c, s)
          \/ RemoveOld(c, s)
          \/ CreateNew(c, s)
          \/ ConnectNetworks(c, s)
          \/ StartNew(c, s)
       /\ UNCHANGED leftover
    \/ CleanupNew(c, s)

RecreateInit == /\ step = [c \in Caller |-> "idle"]
                /\ extras = [c \in Caller |-> {}]
                /\ leftover = {}
                /\ cancelled = [c \in Caller |-> FALSE]

RecreateTypeOK == /\ step \in [Caller -> Step]
                  /\ extras \in [Caller -> SUBSET Network]
                  /\ leftover \in SUBSET Service
                  /\ cancelled \in [Caller -> BOOLEAN]
=============================================================================
