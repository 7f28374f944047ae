----------------------------- MODULE Discovery -----------------------------
(***************************************************************************)
(* The docker-events goroutine: a boot list, then a subscription to the    *)
(* daemon's event stream, with a new list and a new subscription whenever  *)
(* the stream breaks.  What it learns goes through the state-update        *)
(* channel; it reads the store itself to find out whose container died.    *)
(*                                                                         *)
(* A pair <<s, id>> of a service and a number stands for a docker          *)
(* container id.                                                           *)
(***************************************************************************)
EXTENDS Daemon

CONSTANT MaxFaults    \* bound on how often the daemon fails to answer

ASSUME DiscoveryAssumption == MaxFaults \in Nat

VARIABLES phase,    \* where the goroutine is
          todo,     \* the listed containers still to be inspected
          outbox,   \* the message it is about to send, if any
          patterns, \* services whose compiled tag pattern rejects the tag that runs
          faults    \* history: what the daemon or the registry failed to do

discoveryVars == <<phase, todo, outbox, patterns, faults>>

\* "list" and "walk" are bootList; "drain" is drainEvents.
DiscoveryPhase == {"list", "walk", "subscribe", "drain"}

Running(s) == container[s].status = "running"

\* The daemon fails to answer, or breaks the stream off.
Fault(what) == Len(faults) < MaxFaults /\ faults' = Append(faults, what)

\* ContainerList sees running containers only.  A failed list is logged and the
\* loop goes on without.
List ==
    /\ phase = "list"
    /\ \/ /\ todo' = {<<s, container[s].id>> : s \in {t \in Service : Running(t)}}
          /\ phase' = "walk"
          /\ UNCHANGED <<unheard, faults>>
       \/ /\ Fault("list")
          /\ phase' = "subscribe"
          /\ unheard' = Service
          /\ UNCHANGED todo
    /\ UNCHANGED <<registry, tagged, cache, container, ran, subscribed, events,
                   storeVars, outbox, patterns>>

\* What an upsert says about the container of s: the first RepoDigest of its
\* image, if it has one, when the image was built, and what the labels say.
Observed(s) ==
    LET d == container[s].digest
    IN  [kind |-> "upsert", svc |-> s, id |-> container[s].id,
         digest |-> IF cache[ImageOf[s]][d] = "listed" THEN d ELSE NoDigest,
         at |-> BuiltAt[d],
         pinned |-> container[s].config.pinned,
         blocked |-> container[s].config.blocked,
         invalid |-> container[s].config.pattern = "invalid"]

\* Mutant of SetPattern: an entry is only replaced by one that compiles.
SetPatternIfValid(s, pattern) ==
    patterns' = IF pattern = "rejects" THEN patterns \cup {s} ELSE patterns

\* Patterns.Set: an empty or invalid pattern deletes the entry, so that every tag
\* is accepted.
SetPattern(s, pattern) ==
    patterns' = IF pattern = "rejects" THEN patterns \cup {s} ELSE patterns \ {s}

\* upsertFromInspect up to its send.  Nothing is sent about a container that is
\* gone or that the daemon does not describe; a failed ImageInspect leaves the
\* digest and the build time empty.
UpsertFromInspect(s, id) ==
    LET there == container[s].id = id /\ container[s].status # "absent"
    IN  \/ /\ there
           /\ \/ outbox' = <<Observed(s)>> /\ UNCHANGED faults
              \/ outbox' = <<[Observed(s) EXCEPT !.digest = NoDigest, !.at = 0]>> /\ Fault("image")
           /\ SetPattern(s, container[s].config.pattern)
           /\ unheard' = IF Running(s) THEN unheard \ {s} ELSE unheard
        \/ /\ there
           /\ Fault("inspect")
           /\ unheard' = unheard \cup {s}
           /\ UNCHANGED <<outbox, patterns>>
        \/ /\ ~there
           /\ UNCHANGED <<outbox, patterns, unheard, faults>>

InspectNext ==
    /\ phase = "walk"
    /\ outbox = <<>>
    /\ \E c \in todo : UpsertFromInspect(c[1], c[2]) /\ todo' = todo \ {c}
    /\ UNCHANGED <<registry, tagged, cache, container, ran, subscribed, events,
                   storeVars, phase>>

Listed ==
    /\ phase = "walk"
    /\ outbox = <<>>
    /\ todo = {}
    /\ phase' = "subscribe"
    /\ UNCHANGED <<daemonVars, storeVars, todo, outbox, patterns, faults>>

\* client.Events: what happened between the list and this call is not seen.
Subscribe ==
    /\ phase = "subscribe"
    /\ phase' = "drain"
    /\ subscribed' = TRUE
    /\ UNCHANGED <<registry, tagged, cache, container, ran, events, unheard,
                   storeVars, todo, outbox, patterns, faults>>

\* serviceForContainerID: the service is looked up by container id in the
\* store; an event nobody's row knows is dropped.
StopOrRemove(ev, kind) ==
    IF rows[ev.svc].known /\ rows[ev.svc].containerID = ev.id
    THEN outbox' = <<[kind |-> kind, svc |-> ev.svc]>> /\ UNCHANGED unheard
    ELSE UNCHANGED outbox /\ unheard' = unheard \cup {ev.svc}

\* handleEvent, up to the send it leads to.
HandleEvent ==
    /\ phase = "drain"
    /\ outbox = <<>>
    /\ events # <<>>
    /\ LET ev == Head(events)
       IN  \/ ev.type = "start" /\ UpsertFromInspect(ev.svc, ev.id)
           \/ /\ \/ ev.type = "die" /\ StopOrRemove(ev, "stopped")
                 \/ ev.type = "destroy" /\ StopOrRemove(ev, "removed")
              /\ UNCHANGED <<patterns, faults>>
    /\ events' = Tail(events)
    /\ UNCHANGED <<registry, tagged, cache, container, ran, subscribed,
                   storeVars, phase, todo>>

\* The send blocks while the channel is full; it does not look at the context.
\* removeContainer then drops the pattern of the service.
SendUpdate ==
    /\ outbox # <<>>
    /\ Post(Head(outbox))
    /\ patterns' = IF Head(outbox).kind = "removed" THEN patterns \ {Head(outbox).svc}
                   ELSE patterns
    /\ outbox' = <<>>
    /\ UNCHANGED <<rows, disk, daemonVars, phase, todo, faults>>

\* The stream breaks; after the backoff the list is run again.
StreamBreaks ==
    /\ phase = "drain"
    /\ outbox = <<>>
    /\ Fault("stream")
    /\ CloseStream
    /\ phase' = "list"
    /\ UNCHANGED <<storeVars, todo, outbox, patterns>>

DiscoveryStep == \/ List \/ InspectNext \/ Listed \/ Subscribe
                 \/ HandleEvent \/ SendUpdate \/ StreamBreaks

DiscoveryInit ==
    /\ phase = "list"
    /\ todo = {}
    /\ outbox = <<>>
    /\ patterns = {}
    /\ faults = <<>>

DiscoveryTypeOK ==
    /\ phase \in DiscoveryPhase
    /\ todo \in SUBSET (Service \X Nat)
    /\ outbox \in Seq(UpsertMsg \cup StoppedMsg \cup RemovedMsg)
    /\ Len(outbox) <= 1
    /\ patterns \in SUBSET Service
    /\ faults \in Seq({"list", "inspect", "image", "stream", "fetch"})

\* Discovery has told the store everything it will ever tell it about s.
CaughtUp(s) ==
    /\ phase = "drain"
    /\ outbox = <<>>
    /\ \A i \in DOMAIN events : events[i].svc # s
=============================================================================
