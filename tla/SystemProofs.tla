---------------------------- MODULE SystemProofs ----------------------------
(***************************************************************************)
(* The whole process, for every set of services, requests and sweeps, with *)
(* any number of faults, restarts and redeploys: its types, the spinner    *)
(* and the networks with discovery, the sweeps and the world outside at    *)
(* work as well, and the compiled tag patterns.                            *)
(***************************************************************************)
EXTENDS System, ContainerProofs

-----------------------------------------------------------------------------
(* What discovery has still to hear.                                       *)

\* The stream is open exactly while it is drained; a list is walked in its own
\* phase, and its ids are no later than those of the containers.
StreamInv ==
    /\ subscribed <=> phase = "drain"
    /\ events # <<>> => subscribed
    /\ todo # {} => phase = "walk"
    /\ \A c \in todo : c[2] <= container[c[1]].id

\* An event about s is on its way.
HasEvent(s) == \E i \in DOMAIN events : events[i].svc = s

\* The i-th event is the last one about s.
LastEvent(i, s) == /\ events[i].svc = s
                   /\ \A j \in DOMAIN events : j > i => events[j].svc # s

\* The last event about a service tells whether it runs, and which container.
EventInv ==
    \A s \in Service, i \in DOMAIN events : LastEvent(i, s) =>
       /\ events[i].type = "start" <=> Running(s)
       /\ Running(s) => events[i].id = container[s].id

\* Discovery is going to look at the container of s.
ToLook(s) == phase = "list" \/ <<s, container[s].id>> \in todo \/ HasEvent(s)

\* A container that no longer runs was not seen to stop while the list was walked.
WalkInv ==
    \A s \in Service \ unheard : <<s, container[s].id>> \in todo => Running(s)

\* removeContainer is about to drop the pattern of s.
Dropping(s) == outbox # <<>> /\ Head(outbox).kind = "removed" /\ Head(outbox).svc = s

\* The compiled pattern of a running container is right unless discovery is going
\* to look at it.
PatternInv ==
    \A s \in Service \ unheard : Running(s) =>
       \/ ToLook(s)
       \/ /\ s \in patterns <=> container[s].config.pattern = "rejects"
          /\ ~Dropping(s)

-----------------------------------------------------------------------------
(* Types.                                                                  *)

\* What an inspect makes an upsert of.
LEMMA ObservedType ==
    ASSUME DaemonTypeOK, NEW s \in Service
    PROVE  /\ Observed(s) \in UpsertMsg
           /\ [Observed(s) EXCEPT !.digest = NoDigest, !.at = 0] \in UpsertMsg
<1>1. /\ container[s] \in Container /\ container[s].id \in Nat /\ container[s].digest \in Digest
      /\ container[s].config \in Config
  BY DaemonAssumption DEF DaemonTypeOK, Container
<1>2. /\ container[s].config.pinned \in BOOLEAN /\ container[s].config.blocked \in SUBSET Op
      /\ BuiltAt[container[s].digest] \in Nat
      /\ (container[s].config.pattern = "invalid") \in BOOLEAN
  BY <1>1, DaemonAssumption DEF Config, Op
<1> QED
  BY <1>1, <1>2 DEF Observed, UpsertMsg, Ref

\* A message of discovery or of a sweep is a message.
LEMMA SpokenType ==
    /\ UpsertMsg \subseteq Message /\ StoppedMsg \subseteq Message /\ RemovedMsg \subseteq Message
    /\ ResolvedMsg \subseteq Message /\ NoteMsg \subseteq Message /\ Stamp \in Message
BY DEF Message, Stamp, SweepMsg

\* What UpsertFromInspect touches.
LEMMA InspectType ==
    ASSUME DaemonTypeOK, DiscoveryTypeOK, NEW s \in Service, NEW id, UpsertFromInspect(s, id)
    PROVE  /\ outbox' \in Seq(UpsertMsg \cup StoppedMsg \cup RemovedMsg) /\ Len(outbox') <= 1
           /\ patterns' \in SUBSET Service /\ unheard' \in SUBSET Service
           /\ faults' \in Seq({"list", "inspect", "image", "stream", "fetch"})
<1>1. \A m \in UpsertMsg : /\ <<m>> \in Seq(UpsertMsg \cup StoppedMsg \cup RemovedMsg)
                           /\ Len(<<m>>) <= 1
  OBVIOUS
<1>2. outbox' = outbox \/ outbox' = <<Observed(s)>>
        \/ outbox' = <<[Observed(s) EXCEPT !.digest = NoDigest, !.at = 0]>>
  BY DEF UpsertFromInspect
<1>3. outbox' \in Seq(UpsertMsg \cup StoppedMsg \cup RemovedMsg) /\ Len(outbox') <= 1
  BY <1>1, <1>2, ObservedType DEF DiscoveryTypeOK
<1>4. faults' = faults \/ faults' = Append(faults, "image") \/ faults' = Append(faults, "inspect")
  BY DEF UpsertFromInspect, Fault
<1>5. faults' \in Seq({"list", "inspect", "image", "stream", "fetch"})
  <2>1. faults \in Seq({"list", "inspect", "image", "stream", "fetch"})
    BY DEF DiscoveryTypeOK
  <2> QED
    BY <1>4, <2>1
<1>6. patterns' \in SUBSET Service /\ unheard' \in SUBSET Service
  BY DEF UpsertFromInspect, SetPattern, DiscoveryTypeOK, DaemonTypeOK
<1> QED
  BY <1>3, <1>5, <1>6

\* The steps of discovery.
LEMMA DiscoveryType ==
    ASSUME StoreTypeOK, DaemonTypeOK, DiscoveryTypeOK, DiscoveryStep
    PROVE  StoreTypeOK' /\ DaemonTypeOK' /\ DiscoveryTypeOK'
<1>0. /\ faults \in Seq({"list", "inspect", "image", "stream", "fetch"})
      /\ outbox \in Seq(UpsertMsg \cup StoppedMsg \cup RemovedMsg)
      /\ events \in Seq(Event)
  BY DEF DiscoveryTypeOK, DaemonTypeOK
<1>1. CASE List
  <2>1. \A s \in Service : container[s].id \in Nat
    BY DEF DaemonTypeOK, Container
  <2>2. todo' \in SUBSET (Service \X Nat) /\ phase' \in DiscoveryPhase /\ unheard' \in SUBSET Service
    BY <1>1, <2>1, SMTT(30) DEF List, DiscoveryTypeOK, DiscoveryPhase, DaemonTypeOK
  <2>3. faults' \in Seq({"list", "inspect", "image", "stream", "fetch"})
    BY <1>0, <1>1, SMTT(30) DEF List, Fault
  <2> QED
    BY <1>1, <2>2, <2>3 DEF List, storeVars, StoreTypeOK, DaemonTypeOK, DiscoveryTypeOK
<1>2. CASE InspectNext
  <2>1. PICK c \in todo : UpsertFromInspect(c[1], c[2]) /\ todo' = todo \ {c}
    BY <1>2 DEF InspectNext
  <2>2. c[1] \in Service /\ todo' \in SUBSET (Service \X Nat)
    BY <2>1 DEF DiscoveryTypeOK
  <2> QED
    BY <1>2, <2>1, <2>2, InspectType
    DEF InspectNext, storeVars, StoreTypeOK, DaemonTypeOK, DiscoveryTypeOK
<1>3. CASE Listed
  BY <1>3 DEF Listed, storeVars, daemonVars, StoreTypeOK, DaemonTypeOK, DiscoveryTypeOK,
              DiscoveryPhase
<1>4. CASE Subscribe
  BY <1>4 DEF Subscribe, storeVars, StoreTypeOK, DaemonTypeOK, DiscoveryTypeOK, DiscoveryPhase
<1>5. CASE HandleEvent
  <2> DEFINE ev == Head(events)
  <2>1. ev \in Event /\ events' \in Seq(Event)
    BY <1>0, <1>5 DEF HandleEvent
  <2>2. ev.svc \in Service
    BY <2>1 DEF Event
  <2>3. CASE UpsertFromInspect(ev.svc, ev.id)
    BY <1>5, <2>1, <2>2, <2>3, InspectType
    DEF HandleEvent, storeVars, StoreTypeOK, DaemonTypeOK, DiscoveryTypeOK
  <2>4. CASE /\ StopOrRemove(ev, "stopped") \/ StopOrRemove(ev, "removed")
             /\ UNCHANGED <<patterns, faults>>
    <3>1. /\ [kind |-> "stopped", svc |-> ev.svc] \in StoppedMsg
          /\ [kind |-> "removed", svc |-> ev.svc] \in RemovedMsg
      BY <2>2 DEF StoppedMsg, RemovedMsg
    <3>2. \A m \in StoppedMsg \cup RemovedMsg :
             /\ <<m>> \in Seq(UpsertMsg \cup StoppedMsg \cup RemovedMsg)
             /\ Len(<<m>>) <= 1
      OBVIOUS
    <3>3. \/ outbox' = outbox
          \/ outbox' = <<[kind |-> "stopped", svc |-> ev.svc]>>
          \/ outbox' = <<[kind |-> "removed", svc |-> ev.svc]>>
      BY <2>4 DEF StopOrRemove
    <3>4. outbox' \in Seq(UpsertMsg \cup StoppedMsg \cup RemovedMsg) /\ Len(outbox') <= 1
      BY <3>1, <3>2, <3>3 DEF DiscoveryTypeOK
    <3>5. unheard' \in SUBSET Service
      BY <2>2, <2>4 DEF StopOrRemove, DaemonTypeOK
    <3> QED
      BY <1>5, <2>1, <2>4, <3>4, <3>5
      DEF HandleEvent, storeVars, StoreTypeOK, DaemonTypeOK, DiscoveryTypeOK
  <2> QED
    BY <1>5, <2>3, <2>4 DEF HandleEvent
<1>6. CASE SendUpdate
  <2>1. Head(outbox) \in Message
    BY <1>0, <1>6, SpokenType DEF SendUpdate
  <2>2. StoreTypeOK'
    BY <1>6, <2>1, PostType DEF SendUpdate
  <2>3. outbox' \in Seq(UpsertMsg \cup StoppedMsg \cup RemovedMsg) /\ Len(outbox') <= 1
    BY <1>6 DEF SendUpdate
  <2>4. patterns' \in SUBSET Service
    BY <1>6 DEF SendUpdate, DiscoveryTypeOK
  <2> QED
    BY <1>6, <2>2, <2>3, <2>4 DEF SendUpdate, daemonVars, DaemonTypeOK, DiscoveryTypeOK
<1>7. CASE StreamBreaks
  <2>1. faults' \in Seq({"list", "inspect", "image", "stream", "fetch"})
    BY <1>0, <1>7 DEF StreamBreaks, Fault
  <2>2. DaemonTypeOK'
    BY <1>7, CloseStreamType DEF StreamBreaks
  <2> QED
    BY <1>7, <2>1, <2>2 DEF StreamBreaks, storeVars, StoreTypeOK, DiscoveryTypeOK, DiscoveryPhase
<1> QED
  BY <1>1, <1>2, <1>3, <1>4, <1>5, <1>6, <1>7 DEF DiscoveryStep

\* The notes and results of a sweep are messages.
LEMMA SweepMessages ==
    ASSUME PollerTypeOK, NEW w \in Sweeper
    PROVE  sweep[w] \in Sweep /\ sweep[w].out \subseteq NoteMsg
             /\ sweep[w].results \subseteq ResolvedMsg \cup NoteMsg
BY DEF PollerTypeOK, Sweep

\* A sweep that sends, or drops what it would send, keeps the store's types.
LEMMA SweepSendType ==
    ASSUME StoreTypeOK, NEW w \in Sweeper, NEW m \in Message, SweepSend(w, m),
           UNCHANGED <<rows, disk>>
    PROVE  StoreTypeOK'
<1>1. CASE Post(m)
  BY <1>1, PostType
<1>2. CASE UNCHANGED channel
  BY <1>2 DEF StoreTypeOK
<1> QED
  BY <1>1, <1>2 DEF SweepSend

\* The steps of a sweep.
LEMMA PollerType ==
    ASSUME StoreTypeOK, DaemonTypeOK, DiscoveryTypeOK, PollerTypeOK, NEW w \in Sweeper,
           Begin(w) \/ SweepStep(w) \/ Expire(w)
    PROVE  StoreTypeOK' /\ DaemonTypeOK' /\ DiscoveryTypeOK' /\ PollerTypeOK'
<1>0. /\ sweep[w] \in Sweep /\ sweep \in [Sweeper -> Sweep] /\ expired \in SUBSET Manual
      /\ \A s \in Service, note \in Note : NoteOn(s, note) \in NoteMsg
      /\ sweep[w].out \subseteq Message /\ sweep[w].results \subseteq Message
      /\ NoSweep \in Sweep /\ Stamp \in Message
  BY SweepMessages, SpokenType DEF PollerTypeOK, Sweep, NoteOn, NoteMsg, NoSweep
<1>1. CASE Begin(w)
  <2>1. StoreTypeOK'
    BY <1>0, <1>1, PostType DEF Begin
  <2>2. [NoSweep EXCEPT !.on = TRUE, !.walk = Service] \in Sweep
    BY DEF NoSweep, Sweep
  <2> QED
    BY <1>0, <1>1, <2>1, <2>2
    DEF Begin, daemonVars, discoveryVars, DaemonTypeOK, DiscoveryTypeOK, PollerTypeOK
<1>2. CASE Look(w)
  <2>1. PICK s \in Service : sweep' = [sweep EXCEPT
               ![w].walk = @ \ {s},
               ![w].chosen = IF Eligible(rows[s]) THEN @ \cup {s} ELSE @,
               ![w].noted = IF Eligible(rows[s]) /\ rows[s].notes = "mismatch" THEN @ \cup {s} ELSE @,
               ![w].out = IF rows[s].known /\ rows[s].pinned /\ rows[s].notes # "pinned"
                          THEN {NoteOn(s, "pinned")} ELSE {}]
    BY <1>0, <1>2 DEF Look, Sweep
  <2>2. NoteOn(s, "pinned") \in NoteMsg
    BY <1>0 DEF Note
  <2>3. \A x \in Sweeper : x # w => sweep'[x] = sweep[x]
    BY <1>0, <2>1
  <2>4. sweep'[w] \in Sweep
    BY <1>0, <2>1, <2>2, ZenonT(40) DEF Sweep
  <2>5. sweep' \in [Sweeper -> Sweep]
    BY <1>0, <2>1, <2>3, <2>4
  <2> QED
    BY <1>0, <1>2, <2>5
    DEF Look, storeVars, daemonVars, discoveryVars, StoreTypeOK, DaemonTypeOK, DiscoveryTypeOK,
        PollerTypeOK
<1>3. CASE Dispatch(w)
  <2>1. PICK s \in Service :
           \/ sweep' = [sweep EXCEPT ![w].chosen = @ \ {s}, ![w].noted = @ \ {s},
                                     ![w].out = IF s \in sweep[w].noted THEN {}
                                                ELSE {NoteOn(s, "mismatch")}]
           \/ sweep' = [sweep EXCEPT ![w].chosen = @ \ {s}, ![w].noted = @ \ {s},
                                     ![w].fetching = @ \cup {s}]
    BY <1>0, <1>3 DEF Dispatch, Sweep
  <2>2. NoteOn(s, "mismatch") \in NoteMsg
    BY <1>0 DEF Note
  <2>3. \A x \in Sweeper : x # w => sweep'[x] = sweep[x]
    BY <1>0, <2>1
  <2>4. sweep'[w] \in Sweep
    BY <1>0, <2>1, <2>2 DEF Sweep
  <2>5. sweep' \in [Sweeper -> Sweep]
    BY <1>0, <2>1, <2>3, <2>4
  <2> QED
    BY <1>0, <1>3, <2>5
    DEF Dispatch, storeVars, daemonVars, discoveryVars, StoreTypeOK, DaemonTypeOK,
        DiscoveryTypeOK, PollerTypeOK
<1>4. CASE Say(w)
  <2>1. StoreTypeOK'
    BY <1>0, <1>4, SweepSendType DEF Say
  <2>2. sweep' \in [Sweeper -> Sweep]
    BY <1>0, <1>4 DEF Say, Sweep
  <2> QED
    BY <1>0, <1>4, <2>1, <2>2
    DEF Say, daemonVars, discoveryVars, DaemonTypeOK, DiscoveryTypeOK, PollerTypeOK
<1>5. CASE Fetch(w)
  <2>0. PICK s \in sweep[w].fetching : \E d \in Manifest(ImageOf[s]) :
           /\ faults' = faults \/ faults' = Append(faults, "fetch")
           /\ sweep' = [sweep EXCEPT ![w].fetching = @ \ {s},
                                     ![w].results = @ \cup {FetchResult(s, d)}]
    BY <1>5 DEF Fetch, Fault
  <2>1. PICK d \in Manifest(ImageOf[s]) :
           /\ faults' = faults \/ faults' = Append(faults, "fetch")
           /\ sweep' = [sweep EXCEPT ![w].fetching = @ \ {s},
                                     ![w].results = @ \cup {FetchResult(s, d)}]
    BY <2>0
  <2>2. s \in Service /\ d \in Ref
    BY <1>0, <2>1, DaemonAssumption DEF Sweep, Manifest, DaemonTypeOK, Ref
  <2>3. FetchResult(s, d) \in ResolvedMsg \cup NoteMsg
    BY <1>0, <2>2 DEF FetchResult, ResolvedMsg, Note
  <2>4. sweep' \in [Sweeper -> Sweep]
    BY <1>0, <2>1, <2>3 DEF Sweep
  <2>5. faults \in Seq({"list", "inspect", "image", "stream", "fetch"})
    BY DEF DiscoveryTypeOK
  <2>6. faults' \in Seq({"list", "inspect", "image", "stream", "fetch"})
    BY <2>1, <2>5
  <2> QED
    BY <1>0, <1>5, <2>4, <2>6
    DEF Fetch, storeVars, daemonVars, StoreTypeOK, DaemonTypeOK, DiscoveryTypeOK, PollerTypeOK
<1>6. CASE Deliver(w)
  <2>1. StoreTypeOK'
    BY <1>0, <1>6, SweepSendType DEF Deliver
  <2>2. sweep' \in [Sweeper -> Sweep]
    BY <1>0, <1>6 DEF Deliver, Sweep
  <2> QED
    BY <1>0, <1>6, <2>1, <2>2
    DEF Deliver, daemonVars, discoveryVars, DaemonTypeOK, DiscoveryTypeOK, PollerTypeOK
<1>7. CASE End(w)
  <2>1. StoreTypeOK'
    BY <1>0, <1>7, SweepSendType DEF End
  <2> QED
    BY <1>0, <1>7, <2>1
    DEF End, daemonVars, discoveryVars, DaemonTypeOK, DiscoveryTypeOK, PollerTypeOK
<1>8. CASE Expire(w)
  BY <1>0, <1>8
  DEF Expire, storeVars, daemonVars, discoveryVars, StoreTypeOK, DaemonTypeOK, DiscoveryTypeOK,
      PollerTypeOK
<1> QED
  BY <1>1, <1>2, <1>3, <1>4, <1>5, <1>6, <1>7, <1>8 DEF SweepStep

\* Events are added behind all others.
LEMMA ConcatFacts ==
    ASSUME NEW p \in Seq(Event), NEW q \in Seq(Event)
    PROVE  /\ p \o q \in Seq(Event) /\ Len(p \o q) = Len(p) + Len(q)
           /\ Len(p) \in Nat /\ Len(q) \in Nat
           /\ \A i \in 1 .. Len(p) : (p \o q)[i] = p[i]
           /\ \A i \in 1 .. Len(q) : (p \o q)[Len(p) + i] = q[i]
OBVIOUS

\* The stream gains events about s, the last of which is ev.
Gains(s, ev) ==
    /\ events' \in Seq(Event) /\ Len(events) < Len(events')
    /\ \A i \in 1 .. Len(events) : events'[i] = events[i]
    /\ \A i \in Len(events) + 1 .. Len(events') : events'[i].svc = s
    /\ events'[Len(events')] = ev

\* The daemon reports a redeploy as the end of the old container, if there was one,
\* and the start of the new one.
LEMMA RedeployReported ==
    ASSUME DaemonTypeOK, NEW s \in Service, NEW c \in Configs, Redeploy(s, c), subscribed
    PROVE  Gains(s, [type |-> "start", svc |-> s, id |-> container[s].id + 1])
<1> DEFINE old == container[s]
           Ev(type, id) == [type |-> type, svc |-> s, id |-> id]
           A == IF old.status = "running" THEN <<Ev("die", old.id)>> ELSE <<>>
           B == IF old.status # "absent" THEN <<Ev("destroy", old.id)>> ELSE <<>>
           C == <<Ev("start", old.id + 1)>>
<1>1. events' = ((events \o A) \o B) \o C
  BY DEF Redeploy
<1>2. events \in Seq(Event) /\ old.id \in Nat
  BY DEF DaemonTypeOK, Container
<1>3. /\ Ev("die", old.id) \in Event /\ Ev("destroy", old.id) \in Event
      /\ Ev("start", old.id + 1) \in Event
  BY <1>2 DEF Event
<1>4. /\ Ev("die", old.id).svc = s /\ Ev("destroy", old.id).svc = s
      /\ Ev("start", old.id + 1).svc = s
  OBVIOUS
<1>5. C[1] = [type |-> "start", svc |-> s, id |-> container[s].id + 1]
  OBVIOUS
<1> HIDE DEF Ev, old
<1>6. /\ A \in Seq(Event) /\ B \in Seq(Event) /\ C \in Seq(Event) /\ Len(C) = 1
      /\ \A i \in 1 .. Len(A) : A[i].svc = s
      /\ \A i \in 1 .. Len(B) : B[i].svc = s
      /\ C[1].svc = s
  BY <1>3, <1>4
<1> HIDE DEF A, B, C
<1> DEFINE P == events \o A
           Q == P \o B
<1>7. /\ P \in Seq(Event) /\ Len(P) = Len(events) + Len(A) /\ Len(events) \in Nat
      /\ Len(A) \in Nat
      /\ \A i \in 1 .. Len(events) : P[i] = events[i]
      /\ \A i \in 1 .. Len(A) : P[Len(events) + i] = A[i]
  BY <1>2, <1>6, ConcatFacts
<1>8. \A i \in Len(events) + 1 .. Len(P) : P[i].svc = s
  <2> SUFFICES ASSUME NEW i \in Len(events) + 1 .. Len(P) PROVE P[i].svc = s
    OBVIOUS
  <2>1. i - Len(events) \in 1 .. Len(A) /\ Len(events) + (i - Len(events)) = i
    BY <1>7
  <2> QED
    BY <1>6, <1>7, <2>1
<1> HIDE DEF P
<1>9. /\ Q \in Seq(Event) /\ Len(Q) = Len(P) + Len(B) /\ Len(P) \in Nat /\ Len(B) \in Nat
      /\ \A i \in 1 .. Len(P) : Q[i] = P[i]
      /\ \A i \in 1 .. Len(B) : Q[Len(P) + i] = B[i]
  BY <1>6, <1>7, ConcatFacts
<1>10. \A i \in Len(events) + 1 .. Len(Q) : Q[i].svc = s
  <2> SUFFICES ASSUME NEW i \in Len(events) + 1 .. Len(Q) PROVE Q[i].svc = s
    OBVIOUS
  <2>1. CASE i <= Len(P)
    BY <1>7, <1>8, <1>9, <2>1
  <2>2. CASE i > Len(P)
    <3>1. i - Len(P) \in 1 .. Len(B) /\ Len(P) + (i - Len(P)) = i
      BY <1>7, <1>9, <2>2
    <3> QED
      BY <1>6, <1>9, <3>1
  <2> QED
    BY <1>7, <1>9, <2>1, <2>2
<1> HIDE DEF Q
<1>11. /\ Q \o C \in Seq(Event) /\ Len(Q \o C) = Len(Q) + 1
       /\ \A i \in 1 .. Len(Q) : (Q \o C)[i] = Q[i]
       /\ (Q \o C)[Len(Q) + 1] = C[1]
  <2>1. /\ Q \o C \in Seq(Event) /\ Len(Q \o C) = Len(Q) + Len(C)
        /\ \A i \in 1 .. Len(Q) : (Q \o C)[i] = Q[i]
        /\ \A i \in 1 .. Len(C) : (Q \o C)[Len(Q) + i] = C[i]
    BY <1>6, <1>9, ConcatFacts
  <2>2. 1 \in 1 .. Len(C)
    BY <1>6
  <2> QED
    BY <1>6, <2>1, <2>2
<1>12. events' = Q \o C
  BY <1>1 DEF P, Q
<1>13. /\ events' \in Seq(Event) /\ Len(events') = Len(Q) + 1
       /\ Len(Q) \in Nat /\ Len(events) \in Nat /\ Len(events) <= Len(Q)
       /\ \A i \in 1 .. Len(Q) : events'[i] = Q[i]
       /\ events'[Len(Q) + 1] = C[1]
  BY <1>7, <1>9, <1>11, <1>12
<1>14. \A i \in 1 .. Len(events) : events'[i] = events[i]
  <2> SUFFICES ASSUME NEW i \in 1 .. Len(events) PROVE events'[i] = events[i]
    OBVIOUS
  <2>1. i \in 1 .. Len(P) /\ i \in 1 .. Len(Q)
    BY <1>7, <1>9
  <2> QED
    BY <1>7, <1>9, <1>13, <2>1
<1>15. \A i \in Len(events) + 1 .. Len(events') : events'[i].svc = s
  <2> SUFFICES ASSUME NEW i \in Len(events) + 1 .. Len(Q) + 1 PROVE events'[i].svc = s
    BY <1>13
  <2>1. CASE i = Len(Q) + 1
    BY <1>6, <1>13, <2>1
  <2>2. CASE i # Len(Q) + 1
    <3>1. i \in 1 .. Len(Q) /\ i \in Len(events) + 1 .. Len(Q)
      BY <1>13, <2>2
    <3> QED
      BY <1>10, <1>13, <3>1
  <2> QED
    BY <2>1, <2>2
<1> QED
  BY <1>5, <1>13, <1>14, <1>15 DEF Gains

\* The operator's redeploy.
LEMMA RedeployType ==
    ASSUME DaemonTypeOK, NEW s \in Service, NEW c \in Configs, Redeploy(s, c)
    PROVE  DaemonTypeOK'
<1> DEFINE old == container[s]
           d == IF c.pinned THEN old.digest ELSE tagged[ImageOf[s]]
           new == [status |-> "running", digest |-> d, id |-> old.id + 1, nets |-> c.nets,
                   aliases |-> {old.id + 1}, config |-> c]
<1>1. /\ old \in Container /\ old.id \in Nat /\ d \in Digest /\ c.nets \in SUBSET Network
  BY DaemonAssumption DEF DaemonTypeOK, Container, Config
<1>2. new \in Container
  BY <1>1 DEF Container, ContainerState
<1>3. container' \in [Service -> Container]
  <2>1. container' = [container EXCEPT ![s] = new]
    BY DEF Redeploy
  <2> HIDE DEF new
  <2> QED
    BY <1>2, <2>1 DEF DaemonTypeOK
<1>4. events' \in Seq(Event)
  <2>1. CASE subscribed
    BY <2>1, RedeployReported DEF Gains
  <2>2. CASE ~subscribed
    BY <2>2 DEF Redeploy, DaemonTypeOK
  <2> QED
    BY <2>1, <2>2
<1>5. ran' \in [Service -> [last : Digest, before : Digest \cup {NoDigest}]]
  <2>1. ran' = [ran EXCEPT ![s] = IF d = @.last THEN @ ELSE [last |-> d, before |-> @.last]]
    BY DEF Redeploy
  <2> HIDE DEF d
  <2> QED
    BY <1>1, <2>1 DEF DaemonTypeOK
<1>6. unheard' \in SUBSET Service /\ UNCHANGED <<registry, tagged, cache, subscribed>>
  BY DEF Redeploy, DaemonTypeOK
<1> QED
  BY <1>3, <1>4, <1>5, <1>6 DEF DaemonTypeOK

\* The steps of the process that discovery, the sweeps and the world outside take,
\* and the ones that are steps of the orchestrator's own specification.
LEMMA SystemSteps ==
    ASSUME [SystemNext]_systemVars
    PROVE  \/ \E r \in Request : (Handler(r) \/ Client(r)) /\ Next
           \/ Applied /\ Next
           \/ Reboot /\ Next
           \/ World /\ Outside /\ Next
           \/ Discover
           \/ \E w \in Sweeper : CronTick(w) \/ PollNow(w) \/ Poll(w) \/ PollExpires(w)
           \/ /\ World
              /\ \E s \in Service : \/ Crash(s) \/ Revive(s)
                                    \/ held[s] = NoOne /\ \E c \in Configs : Redeploy(s, c)
              /\ UNCHANGED <<storeVars, recreateVars, orchVars>>
           \/ UNCHANGED systemVars
BY DEF SystemNext, Next, Handler, Client, Applied, Reboot, World

\* The types are kept.
LEMMA SystemTypeStep == SystemTypeOK /\ [SystemNext]_systemVars => SystemTypeOK'
<1> SUFFICES ASSUME SystemTypeOK, [SystemNext]_systemVars PROVE SystemTypeOK'
  OBVIOUS
<1>0. /\ TypeOK /\ StoreTypeOK /\ DaemonTypeOK /\ DiscoveryTypeOK /\ PollerTypeOK
      /\ outside \in Nat /\ misled \in SUBSET Request /\ redeployed \in SUBSET Service
  BY DEF SystemTypeOK, TypeOK
<1>1. CASE \E r \in Request : (Handler(r) \/ Client(r)) /\ Next
  <2>1. TypeOK'
    BY <1>0, <1>1, TypeStep
  <2> QED
    BY <1>0, <1>1, <2>1 DEF Handler, Client, Watch, discoveryVars, pollerVars, SystemTypeOK,
                            DiscoveryTypeOK, PollerTypeOK
<1>2. CASE Applied /\ Next
  <2>1. TypeOK'
    BY <1>0, <1>2, TypeStep
  <2> QED
    BY <1>0, <1>2, <2>1 DEF Applied, discoveryVars, pollerVars, SystemTypeOK, DiscoveryTypeOK,
                            PollerTypeOK
<1>3. CASE Reboot /\ Next
  <2>1. TypeOK'
    BY <1>0, <1>3, TypeStep
  <2>2. DiscoveryTypeOK'
    <3>1. <<>> \in Seq(UpsertMsg \cup StoppedMsg \cup RemovedMsg) /\ Len(<<>>) <= 1
      OBVIOUS
    <3> QED
      BY <1>0, <1>3, <3>1 DEF Reboot, DiscoveryTypeOK, DiscoveryPhase
  <2>3. PollerTypeOK'
    BY <1>3 DEF Reboot, PollerTypeOK, NoSweep, Sweep
  <2> QED
    BY <1>0, <1>3, <2>1, <2>2, <2>3 DEF Reboot, SystemTypeOK
<1>4. CASE World /\ Outside /\ Next
  <2>1. TypeOK'
    BY <1>0, <1>4, TypeStep
  <2> QED
    BY <1>0, <1>4, <2>1 DEF World, discoveryVars, pollerVars, SystemTypeOK, DiscoveryTypeOK,
                            PollerTypeOK
<1>5. CASE Discover
  BY <1>0, <1>5, DiscoveryType
  DEF Discover, recreateVars, orchVars, pollerVars, SystemTypeOK, TypeOK, RecreateTypeOK,
      PollerTypeOK
<1>6. CASE \E w \in Sweeper : CronTick(w) \/ PollNow(w) \/ Poll(w) \/ PollExpires(w)
  <2>1. PICK w \in Sweeper : Begin(w) \/ SweepStep(w) \/ Expire(w)
    BY <1>6 DEF CronTick, PollNow, Poll, PollExpires
  <2>2. UNCHANGED <<recreateVars, orchVars, misled, redeployed>> /\ outside' \in Nat
    BY <1>0, <1>6 DEF CronTick, PollNow, Poll, PollExpires
  <2> QED
    BY <1>0, <2>1, <2>2, PollerType
    DEF recreateVars, orchVars, SystemTypeOK, TypeOK, RecreateTypeOK
<1>7. CASE /\ World
           /\ \E s \in Service : \/ Crash(s) \/ Revive(s)
                                 \/ held[s] = NoOne /\ \E c \in Configs : Redeploy(s, c)
           /\ UNCHANGED <<storeVars, recreateVars, orchVars>>
  <2>1. DaemonTypeOK'
    BY <1>0, <1>7, RedeployType, StopContainerType, StartContainerType DEF Crash, Revive
  <2>2. /\ outside' \in Nat /\ redeployed' \in SUBSET Service
        /\ UNCHANGED <<discoveryVars, pollerVars, misled>>
    BY <1>0, <1>7 DEF World
  <2> QED
    BY <1>0, <1>7, <2>1, <2>2
    DEF storeVars, recreateVars, orchVars, discoveryVars, pollerVars, SystemTypeOK, TypeOK,
        StoreTypeOK, RecreateTypeOK, DiscoveryTypeOK, PollerTypeOK
<1>8. CASE UNCHANGED systemVars
  <2>1. TypeOK'
    BY <1>0, <1>8, TypeStep DEF systemVars
  <2> QED
    BY <1>0, <1>8, <2>1 DEF systemVars, discoveryVars, pollerVars, SystemTypeOK, DiscoveryTypeOK,
                            PollerTypeOK
<1> QED
  BY <1>1, <1>2, <1>3, <1>4, <1>5, <1>6, <1>7, <1>8, SystemSteps

\* The initial state has them.
LEMMA SystemInitType == SystemInit => SystemTypeOK
<1> SUFFICES ASSUME SystemInit PROVE SystemTypeOK
  OBVIOUS
<1>1. rows \in [Service -> Row] /\ disk = rows /\ orphaned \in SUBSET Service
  BY SystemAssumption DEF SystemInit
<1>2. TypeOK
  BY <1>1, BootType DEF SystemInit
<1>3. DiscoveryTypeOK
  <2>1. /\ phase \in DiscoveryPhase /\ outbox = <<>> /\ faults = <<>>
        /\ todo \in SUBSET (Service \X Nat) /\ patterns \in SUBSET Service
    BY DEF SystemInit, DiscoveryInit, DiscoveryPhase
  <2>2. outbox \in Seq(UpsertMsg \cup StoppedMsg \cup RemovedMsg) /\ Len(outbox) <= 1
    BY <2>1
  <2>3. faults \in Seq({"list", "inspect", "image", "stream", "fetch"})
    BY <2>1
  <2> QED
    BY <2>1, <2>2, <2>3 DEF DiscoveryTypeOK
<1>4. PollerTypeOK
  BY DEF SystemInit, PollerInit, PollerTypeOK, NoSweep, Sweep
<1> QED
  BY <1>2, <1>3, <1>4 DEF SystemInit, SystemTypeOK

\* Type correctness of the whole process: with discovery, the sweeps and the world
\* outside at work next to the requests, every row, message, event, sweep and
\* pattern stays well formed, and the channel within its capacity.
THEOREM SystemTypes == SystemSpec => []SystemTypeOK
BY SystemInitType, SystemTypeStep, PTL DEF SystemSpec

-----------------------------------------------------------------------------
(* The spinner, with everybody else speaking too.                          *)

\* A message that says nothing about the spinner keeps its invariant.
LEMMA OtherWord ==
    ASSUME TypeOK, SpinnerInv, NEW m \in Message, m.kind # "start", ~Clears(m),
           channel' = Append(channel, m),
           UNCHANGED <<rows, disk, pc, req, held, cancelled, orphaned>>
    PROVE  SpinnerInv'
<1> DEFINE n == Len(channel)
<1>0. /\ DOMAIN channel' = 1 .. n + 1 /\ DOMAIN channel = 1 .. n /\ n \in Nat
      /\ channel'[n + 1] = m
      /\ \A i \in 1 .. n : channel'[i] = channel[i]
  BY AppendFacts DEF TypeOK, StoreTypeOK
<1>1. MutexHeld' /\ NotYetCancelled' /\ UnknownIsIdle' /\ KnownOnce'
  BY DEF SpinnerInv, MutexHeld, NotYetCancelled, UnknownIsIdle, KnownOnce, svc
<1>2. \A r \in Request : svc(r)' = svc(r)
  BY DEF svc
<1>3. \A s, i : ClearedAfter(s, i) => ClearedAfter(s, i)'
  BY <1>0 DEF ClearedAfter, Clears
<1>4. StartsOwned'
  <2>1. ASSUME NEW i \in 1 .. n, NEW s, channel[i].kind = "start", channel[i].svc = s
        PROVE  Busy(s)' \/ ClearedAfter(s, i)' \/ Abandoned(s)'
    <3>1. Busy(s) \/ ClearedAfter(s, i) \/ Abandoned(s)
      BY <1>0, <2>1 DEF SpinnerInv, StartsOwned
    <3> QED
      BY <1>2, <1>3, <3>1 DEF Busy, Abandoned
  <2> QED
    BY <1>0, <2>1 DEF StartsOwned, Busy, ClearedAfter, Abandoned
<1>5. SpinnerOwned'
  <2> SUFFICES ASSUME NEW s \in Service, rows[s].inFlight # Idle
               PROVE  \/ \E r \in Request : svc(r) = s /\ pc[r] \in Started
                      \/ \E i \in DOMAIN channel' : channel'[i].svc = s /\ Clears(channel'[i])
                      \/ Abandoned(s)
                      \/ s \in orphaned
    BY <1>2 DEF SpinnerOwned, Abandoned, Clears
  <2> QED
    BY <1>0 DEF SpinnerInv, SpinnerOwned, Clears
<1>6. StartedSpeaksLast'
  <2> SUFFICES ASSUME NEW r \in Request, pc[r] \in Started, ~cancelled[r]
               PROVE  LastWord(svc(r), req[r].op)'
    BY <1>2 DEF StartedSpeaksLast
  <2>1. LastWord(svc(r), req[r].op)
    BY DEF SpinnerInv, StartedSpeaksLast
  <2>2. \A s : ~Speaks(m, s)
    BY DEF Speaks
  <2> QED
    BY <1>0, <1>2, <2>1, <2>2 DEF LastWord, Speaks, Clears
<1> QED
  BY <1>1, <1>4, <1>5, <1>6 DEF SpinnerInv

\* What discovery and the sweeps say: nothing, or one word about something else.
Speech(K) ==
    \/ UNCHANGED channel
    \/ \E m \in Message : m.kind \in K /\ channel' = Append(channel, m)

LEMMA DiscoverySpeech ==
    ASSUME DiscoveryTypeOK, DiscoveryStep
    PROVE  Speech({"upsert", "stopped", "removed"}) /\ UNCHANGED <<rows, disk>>
<1>1. CASE SendUpdate
  <2>1. Head(outbox) \in UpsertMsg \cup StoppedMsg \cup RemovedMsg
    BY <1>1 DEF SendUpdate, DiscoveryTypeOK
  <2>2. Head(outbox) \in Message /\ Head(outbox).kind \in {"upsert", "stopped", "removed"}
    BY <2>1, SpokenType DEF UpsertMsg, StoppedMsg, RemovedMsg
  <2> QED
    BY <1>1, <2>2 DEF SendUpdate, Post, Speech
<1>2. CASE ~SendUpdate
  BY <1>2 DEF DiscoveryStep, List, InspectNext, Listed, Subscribe, HandleEvent, StreamBreaks,
              storeVars, Speech
<1> QED
  BY <1>1, <1>2

LEMMA SweepSpeech ==
    ASSUME PollerTypeOK, NEW w \in Sweeper, Begin(w) \/ SweepStep(w) \/ Expire(w)
    PROVE  Speech({"resolved", "note", "sweep"}) /\ UNCHANGED <<rows, disk, daemonVars>>
<1>0. /\ \A m \in sweep[w].out \cup sweep[w].results :
            m \in Message /\ m.kind \in {"resolved", "note", "sweep"}
      /\ Stamp \in Message /\ Stamp.kind = "sweep"
  BY SweepMessages, SpokenType DEF ResolvedMsg, NoteMsg, Stamp
<1>1. CASE Begin(w)
  BY <1>0, <1>1 DEF Begin, Post, Speech
<1>2. CASE Say(w)
  BY <1>0, <1>2 DEF Say, SweepSend, Post, Speech
<1>3. CASE Deliver(w)
  BY <1>0, <1>3 DEF Deliver, SweepSend, Post, Speech
<1>4. CASE End(w)
  BY <1>0, <1>4 DEF End, SweepSend, Post, Speech
<1>5. CASE Look(w) \/ Dispatch(w) \/ Fetch(w) \/ Expire(w)
  BY <1>5 DEF Look, Dispatch, Fetch, Expire, storeVars, Speech
<1> QED
  BY <1>1, <1>2, <1>3, <1>4, <1>5 DEF SweepStep

\* Every step of the process keeps the spinner's invariant.
LEMMA SystemSpinnerStep ==
    SystemTypeOK /\ SpinnerInv /\ [SystemNext]_systemVars => SpinnerInv'
<1> SUFFICES ASSUME SystemTypeOK, SpinnerInv, [SystemNext]_systemVars PROVE SpinnerInv'
  OBVIOUS
<1>0. TypeOK /\ DiscoveryTypeOK /\ PollerTypeOK
  BY DEF SystemTypeOK
<1>1. CASE Next
  BY <1>0, <1>1, SpinnerStep
<1>2. ASSUME Speech({"upsert", "stopped", "removed", "resolved", "note", "sweep"}),
             UNCHANGED <<rows, disk, recreateVars, orchVars>>
      PROVE  SpinnerInv'
  <2>1. UNCHANGED <<rows, disk, pc, req, held, cancelled, orphaned>>
    BY <1>2 DEF recreateVars, orchVars
  <2>2. CASE UNCHANGED channel
    BY <2>1, <2>2, ElsewhereStep
  <2>3. ASSUME NEW m \in Message, channel' = Append(channel, m),
               m.kind \in {"upsert", "stopped", "removed", "resolved", "note", "sweep"}
        PROVE  SpinnerInv'
    <3>1. m.kind # "start" /\ ~Clears(m)
      BY <2>3 DEF Clears
    <3> QED
      BY <1>0, <2>1, <2>3, <3>1, OtherWord
  <2> QED
    BY <1>2, <2>2, <2>3 DEF Speech
<1>3. CASE Discover
  BY <1>0, <1>2, <1>3, DiscoverySpeech DEF Discover, Speech
<1>4. CASE \E w \in Sweeper : CronTick(w) \/ PollNow(w) \/ Poll(w) \/ PollExpires(w)
  BY <1>0, <1>2, <1>4, SweepSpeech DEF CronTick, PollNow, Poll, PollExpires, Speech
<1>5. CASE UNCHANGED <<storeVars, recreateVars, orchVars>>
  BY <1>2, <1>5 DEF storeVars, Speech
<1>6. CASE UNCHANGED systemVars
  BY <1>5, <1>6 DEF systemVars, vars
<1> QED
  BY <1>1, <1>3, <1>4, <1>5, <1>6, SystemSteps

\* A process that starts on a document with a spinner on counts it as an orphan.
LEMMA SystemInitSpinner == SystemInit => SpinnerInv
<1> SUFFICES ASSUME SystemInit PROVE SpinnerInv
  OBVIOUS
<1>1. /\ \A r \in Request : pc[r] = "idle" /\ ~cancelled[r]
      /\ channel = <<>> /\ disk = rows
      /\ orphaned = {s \in Service : rows[s].inFlight # Idle}
  BY DEF SystemInit, NoRequestYet, RecreateInit, Request
<1>2. \A s \in Service : rows[s].known \/ rows[s] = NoRow
  BY SystemAssumption DEF SystemInit
<1>3. NoRow.inFlight = Idle
  BY DEF NoRow
<1>4. DOMAIN channel = {}
  BY <1>1
<1> QED
  BY <1>1, <1>2, <1>3, <1>4 DEF SpinnerInv, MutexHeld, NotYetCancelled, UnknownIsIdle, KnownOnce,
     StartsOwned, SpinnerOwned, StartedSpeaksLast, Locked, Started, PastSnapshot

LEMMA SystemSpinner == SystemSpec => []SpinnerInv
BY SystemInitSpinner, SystemSpinnerStep, SystemTypes, PTL DEF SystemSpec

\* The spinner of the whole process has an owner (see SpinnerOwned): discovery, the
\* sweeps, containers that die and redeploys do not light it or leave it on.
THEOREM SystemOwned == SystemSpec => []SpinnerOwned
<1>1. SpinnerInv => SpinnerOwned
  BY DEF SpinnerInv
<1> QED
  BY <1>1, SystemSpinner, PTL

\* The spinner of the whole process shows the action that runs (see SpinnerTruthful),
\* whatever discovery and the sweeps write into the row meanwhile.
THEOREM SystemTruthful == SystemSpec => []SpinnerTruthful
BY SpinnerShown, SystemSpinner, PTL

-----------------------------------------------------------------------------
(* Containers that also die, come back and are redeployed.                 *)

\* A step that is none of the orchestrator's leaves the requests where they are.
\* It changes the containers by a death, a revival or a redeploy of a service that
\* nobody works on, and the tags not at all.
LEMMA OtherSteps ==
    ASSUME SystemTypeOK, [SystemNext]_systemVars, ~Next
    PROVE  /\ UNCHANGED <<recreateVars, orchVars, tagged>>
           /\ \/ UNCHANGED container
              \/ \E s \in Service :
                   /\ \A t \in Service : t # s => container'[t] = container[t]
                   /\ \/ Crash(s) \/ Revive(s)
                      \/ held[s] = NoOne /\ \E c \in Configs : Redeploy(s, c)
<1>0. DiscoveryTypeOK /\ PollerTypeOK /\ container \in [Service -> Container]
  BY DEF SystemTypeOK, TypeOK, DaemonTypeOK
<1>1. CASE Discover
  BY <1>1 DEF Discover, DiscoveryStep, List, InspectNext, Listed, Subscribe, HandleEvent,
              SendUpdate, StreamBreaks, CloseStream, daemonVars
<1>2. CASE \E w \in Sweeper : CronTick(w) \/ PollNow(w) \/ Poll(w) \/ PollExpires(w)
  BY <1>0, <1>2, SweepSpeech DEF CronTick, PollNow, Poll, PollExpires, daemonVars
<1>3. CASE /\ World
           /\ \E s \in Service : \/ Crash(s) \/ Revive(s)
                                 \/ held[s] = NoOne /\ \E c \in Configs : Redeploy(s, c)
           /\ UNCHANGED <<storeVars, recreateVars, orchVars>>
  <2>1. PICK s \in Service : \/ Crash(s) \/ Revive(s)
                             \/ held[s] = NoOne /\ \E c \in Configs : Redeploy(s, c)
    BY <1>3
  <2>2. \A t \in Service : t # s => container'[t] = container[t]
    BY <1>0, <2>1 DEF Crash, Revive, StopContainer, StartContainer, Redeploy
  <2>3. UNCHANGED tagged
    BY <2>1 DEF Crash, Revive, StopContainer, StartContainer, Redeploy
  <2> QED
    BY <1>3, <2>1, <2>2, <2>3
<1>4. CASE UNCHANGED systemVars
  BY <1>4 DEF systemVars, vars, daemonVars
<1> QED
  BY <1>1, <1>2, <1>3, <1>4, SystemSteps

\* A death or a revival changes the status alone.
LEMMA StatusChange ==
    ASSUME DaemonTypeOK, NEW s \in Service, Crash(s) \/ Revive(s)
    PROVE  /\ container[s].status \in {"running", "exited"}
           /\ container'[s].status \in {"running", "exited"}
           /\ \A t \in Service :
                /\ container'[t].nets = container[t].nets
                /\ container'[t].aliases = container[t].aliases
                /\ container'[t].id = container[t].id
                /\ container'[t].config = container[t].config
                /\ container'[t].digest = container[t].digest
<1>1. container \in [Service -> Container]
  BY DEF DaemonTypeOK
<1>2. PICK status \in {"running", "exited"} : container' = [container EXCEPT ![s].status = status]
  BY DEF Crash, Revive, StopContainer, StartContainer
<1>3. container'[s] = [container[s] EXCEPT !.status = status] /\ container[s] \in Container
  BY <1>1, <1>2
<1>4. \A t \in Service : t # s => container'[t] = container[t]
  BY <1>1, <1>2
<1>5. /\ container'[s].status = status
      /\ container'[s].nets = container[s].nets
      /\ container'[s].aliases = container[s].aliases
      /\ container'[s].id = container[s].id
      /\ container'[s].config = container[s].config
      /\ container'[s].digest = container[s].digest
  BY <1>3 DEF Container
<1> QED
  BY <1>2, <1>4, <1>5 DEF Crash, Revive

\* What a redeploy puts in its place.
LEMMA Redeployed ==
    ASSUME DaemonTypeOK, NEW s \in Service, NEW c \in Configs, Redeploy(s, c)
    PROVE  /\ container'[s].nets = c.nets /\ container'[s].config = c
           /\ container'[s].id = container[s].id + 1
           /\ container'[s].aliases = {container'[s].id}
           /\ container'[s].status = "running"
<1> DEFINE new == [status |-> "running",
                   digest |-> IF c.pinned THEN container[s].digest ELSE tagged[ImageOf[s]],
                   id |-> container[s].id + 1, nets |-> c.nets,
                   aliases |-> {container[s].id + 1}, config |-> c]
<1>1. container' = [container EXCEPT ![s] = new] /\ container \in [Service -> Container]
  BY DEF Redeploy, DaemonTypeOK
<1>2. container'[s] = new
  BY <1>1
<1> QED
  BY <1>2

\* recreate.Service still runs only while its request is at that point.
LEMMA SystemScope ==
    SystemTypeOK /\ StepsInRecreate /\ [SystemNext]_systemVars => StepsInRecreate'
<1> SUFFICES ASSUME SystemTypeOK, StepsInRecreate, [SystemNext]_systemVars
             PROVE  StepsInRecreate'
  OBVIOUS
<1>1. CASE Next
  BY <1>1, RecreateScope DEF SystemTypeOK
<1>2. CASE ~Next
  BY <1>2, OtherSteps DEF StepsInRecreate, recreateVars, orchVars
<1> QED
  BY <1>1, <1>2

\* Nobody who aims at a digest has his container, or his tag, taken away.
LEMMA SystemTargetStep ==
    ASSUME SystemTypeOK, SpinnerInv, StepsInRecreate, TargetInv, [SystemNext]_systemVars
    PROVE  TargetInv'
<1>0. TypeOK /\ DaemonTypeOK /\ MutexHeld /\ \A r \in Request : svc(r) \in Service
  BY RequestService DEF SystemTypeOK, TypeOK, RequestTypeOK, SpinnerInv
<1>1. CASE Next
  BY <1>0, <1>1, TargetStep
<1>2. CASE ~Next
  <2>0. UNCHANGED <<pc, step, target, req, held, tagged>>
    BY <1>2, OtherSteps DEF recreateVars, orchVars
  <2> SUFFICES ASSUME NEW r \in Request, Steerable(svc(r))' PROVE TargetOK(r)'
    BY DEF TargetInv
  <2>1. svc(r)' = svc(r) /\ img(r)' = img(r)
    BY <2>0 DEF svc, img
  <2>2. CASE container'[svc(r)].config = container[svc(r)].config
               /\ container'[svc(r)].digest = container[svc(r)].digest
    <3>1. Steerable(svc(r))
      BY <2>1, <2>2 DEF Steerable, Unshared
    <3>2. TargetOK(r)
      BY <3>1 DEF TargetInv
    <3> QED
      BY <2>0, <2>1, <2>2, <3>2 DEF TargetOK, BeforeCreate, AfterCreate
  <2>3. CASE held[svc(r)] = NoOne
    <3>1. pc[r] \notin Locked
      BY <1>0, <2>3, OrchestratorAssumption DEF MutexHeld
    <3>2. ~BeforeCreate(r)' /\ ~AfterCreate(r)'
      BY <2>0, <3>1 DEF BeforeCreate, AfterCreate, StepsInRecreate, Locked, Started
    <3> QED
      BY <3>2 DEF TargetOK
  <2> QED
    BY <1>0, <1>2, <2>2, <2>3, OtherSteps, StatusChange
<1> QED
  BY <1>1, <1>2

\* A redeploy attaches the container where its compose file says.
LEMMA SystemNetworkStep ==
    ASSUME SystemTypeOK, SpinnerInv, NetworkInv, [SystemNext]_systemVars
    PROVE  NetworkInv'
<1>0. TypeOK /\ DaemonTypeOK /\ MutexHeld /\ StepsInRecreate
  BY DEF SystemTypeOK, TypeOK, SpinnerInv, NetworkInv
<1>1. CASE Next
  BY <1>0, <1>1, NetworkStep
<1>2. CASE ~Next
  <2>0. UNCHANGED <<pc, step, extras, leftover, cancelled, req, held, restarts>>
    BY <1>2, OtherSteps DEF recreateVars, orchVars
  <2>1. StepsInRecreate' /\ \A r \in Request : svc(r)' = svc(r)
    BY <1>0, <2>0, SystemScope DEF svc
  <2>2. \A s \in Service : Undisturbed(s)' <=> Undisturbed(s)
    BY <2>0, <2>1 DEF Undisturbed, Abandoned
  <2>3. CASE \A s \in Service :
               /\ container'[s].nets = container[s].nets
               /\ container'[s].aliases = container[s].aliases
               /\ container'[s].id = container[s].id
               /\ container'[s].config = container[s].config
               /\ container'[s].status # "absent" => container[s].status # "absent"
    BY <2>0, <2>1, <2>2, <2>3, NetworkFrame
  <2>4. ASSUME NEW s \in Service, NEW c \in Configs, held[s] = NoOne, Redeploy(s, c),
               \A t \in Service : t # s => container'[t] = container[t]
        PROVE  NetworkInv'
    <3> SUFFICES ASSUME NEW t \in Service \ leftover, Undisturbed(t)' PROVE NetsOK(t)'
      BY <2>0, <2>1 DEF NetworkInv
    <3>1. CASE t # s
      <4>1. NetsOK(t)
        BY <2>2 DEF NetworkInv
      <4>2. container'[t] = container[t]
        BY <2>4, <3>1
      <4> QED
        BY <2>0, <2>1, <4>1, <4>2 DEF NetsOK, Attached
    <3>2. CASE t = s
      <4>1. \A r \in Request : svc(r) = s => step[r] = "idle"
        BY <1>0, <2>4, OrchestratorAssumption DEF MutexHeld, StepsInRecreate, Locked, Started
      <4>2. Attached(s)' /\ container'[s].aliases \subseteq {container'[s].id}
        BY <1>0, <2>4, Redeployed DEF Attached
      <4> QED
        BY <2>0, <2>1, <3>2, <4>1, <4>2 DEF NetsOK
    <3> QED
      BY <3>1, <3>2
  <2>5. ASSUME NEW s \in Service, Crash(s) \/ Revive(s),
               \A t \in Service : t # s => container'[t] = container[t]
        PROVE  NetworkInv'
    BY <1>0, <2>3, <2>5, StatusChange
  <2> QED
    BY <1>2, <2>3, <2>4, <2>5, OtherSteps
<1> QED
  BY <1>1, <1>2

\* The beginning.
LEMMA SystemInitContainers == SystemInit => StepsInRecreate /\ TargetInv /\ NetworkInv
<1> SUFFICES ASSUME SystemInit PROVE StepsInRecreate /\ TargetInv /\ NetworkInv
  OBVIOUS
<1>1. \A r \in Request : step[r] = "idle" /\ pc[r] = "idle"
  BY DEF SystemInit, NoRequestYet, RecreateInit, Request
<1>2. StepsInRecreate
  BY <1>1 DEF StepsInRecreate
<1>3. TargetInv
  BY <1>1 DEF TargetInv, TargetOK, BeforeCreate, AfterCreate
<1>4. \A s \in Service : /\ container[s].nets = container[s].config.nets
                         /\ container[s].aliases = {container[s].id}
  <2>1. PICK config \in [Service -> Configs] :
          container = [s \in Service |-> [status |-> "running",
                                          digest |-> tagged[ImageOf[s]], id |-> 1,
                                          nets |-> config[s].nets, aliases |-> {1},
                                          config |-> config[s]]]
    BY DEF SystemInit, NoRequestYet, DaemonInit
  <2> QED
    BY <2>1
<1>5. NetworkInv
  BY <1>1, <1>2, <1>4 DEF NetworkInv, NetsOK, Attached
<1> QED
  BY <1>2, <1>3, <1>5

LEMMA SystemContainers == SystemSpec => [](StepsInRecreate /\ TargetInv /\ NetworkInv)
<1>1. /\ SystemTypeOK /\ SpinnerInv /\ StepsInRecreate /\ TargetInv /\ NetworkInv
      /\ [SystemNext]_systemVars
      => StepsInRecreate' /\ TargetInv' /\ NetworkInv'
  BY SystemScope, SystemTargetStep, SystemNetworkStep
<1> QED
  BY <1>1, SystemInitContainers, SystemTypes, SystemSpinner, PTL DEF SystemSpec

\* The networks of the whole process (see NetworksKept): also with containers that
\* die and come back between and during the recreates, and with redeploys that
\* change the networks a service is to have.
THEOREM SystemNetworks == SystemSpec => []NetworksKept
BY NetworkImplies, SystemContainers, SystemSpinner, PTL

-----------------------------------------------------------------------------
(* What the daemon reports.                                                *)

\* The old container is gone when the new one is created.
GoneInv == \A r \in Request : step[r] = "create" => container[svc(r)].status = "absent"

\* Discovery learns nothing new of s, and has nothing new to learn.
Alike(s) == /\ container'[s].status = container[s].status
            /\ container'[s].id = container[s].id
            /\ container'[s].digest = container[s].digest
            /\ container'[s].config = container[s].config
            /\ HasEvent(s)' <=> HasEvent(s)
            /\ s \in unheard' <=> s \in unheard

\* A step of the world, as discovery can see it: nothing happens to s, or an event
\* is on its way or missed, or a container is created, which no event tells.
Told(s) == /\ container[s].id <= container'[s].id
           /\ s \in unheard => s \in unheard'
           /\ \/ Alike(s)
              \/ HasEvent(s)'
              \/ s \in unheard'
              \/ container'[s].status = "created" /\ container'[s].id = container[s].id + 1

\* New events about s are behind all others.
LEMMA EventsGrow ==
    ASSUME DaemonTypeOK, EventInv, NEW s \in Service, NEW ev, Gains(s, ev),
           \A t \in Service : t # s => container'[t] = container[t],
           ev.type = "start" <=> Running(s)',
           Running(s)' => ev.id = container'[s].id
    PROVE  /\ EventInv' /\ HasEvent(s)'
           /\ \A t \in Service : t # s => (HasEvent(t)' <=> HasEvent(t))
<1>0. /\ DOMAIN events = 1 .. Len(events) /\ DOMAIN events' = 1 .. Len(events')
      /\ Len(events) \in Nat /\ Len(events') \in Nat /\ Len(events) < Len(events')
  BY DEF DaemonTypeOK, Gains
<1>1. /\ \A i \in 1 .. Len(events) : i \in 1 .. Len(events') /\ events'[i] = events[i]
      /\ \A i \in 1 .. Len(events') : i > Len(events) => events'[i].svc = s
      /\ events'[Len(events')] = ev /\ Len(events') \in 1 .. Len(events')
  BY <1>0 DEF Gains
<1>2. HasEvent(s)'
  BY <1>0, <1>1 DEF HasEvent
<1>3. \A t \in Service : t # s => (HasEvent(t)' <=> HasEvent(t))
  BY <1>0, <1>1 DEF HasEvent
<1>4. ASSUME NEW t \in Service, NEW i \in DOMAIN events', LastEvent(i, t)'
      PROVE  /\ events'[i].type = "start" <=> Running(t)'
             /\ Running(t)' => events'[i].id = container'[t].id
  <2>0. /\ events'[i].svc = t
        /\ \A j \in DOMAIN events' : j > i => events'[j].svc # t
    BY <1>4 DEF LastEvent
  <2>1. CASE t = s
    <3>1. i = Len(events')
      BY <1>0, <1>1, <2>0, <2>1
    <3> QED
      BY <1>1, <2>1, <3>1
  <2>2. CASE t # s
    <3>1. i \in 1 .. Len(events) /\ events'[i] = events[i]
      BY <1>0, <1>1, <2>0, <2>2
    <3>2. LastEvent(i, t)
      BY <1>0, <1>1, <2>0, <3>1 DEF LastEvent
    <3> QED
      BY <1>0, <2>2, <3>1, <3>2 DEF EventInv, Running
  <2> QED
    BY <2>1, <2>2
<1>5. EventInv'
  BY <1>4 DEF EventInv
<1> QED
  BY <1>2, <1>3, <1>5

\* The same for one event, on an open stream or not.
LEMMA Emitted ==
    ASSUME DaemonTypeOK, EventInv, events # <<>> => subscribed, NEW s \in Service,
           NEW type \in {"start", "die", "destroy"}, Emit(s, type),
           \A t \in Service : t # s => container'[t] = container[t],
           container'[s].id = container[s].id, type = "start" <=> Running(s)'
    PROVE  EventInv' /\ (events' # <<>> => subscribed) /\ \A t \in Service : Told(t)
<1> DEFINE ev == [type |-> type, svc |-> s, id |-> container[s].id]
<1>0. /\ events \in Seq(Event) /\ ev \in Event
      /\ \A t \in Service : container[t].id \in Nat
  BY DEF DaemonTypeOK, Container, Event
<1>1. CASE subscribed
  <2>1. events' = Append(events, ev) /\ UNCHANGED unheard
    BY <1>1 DEF Emit
  <2>2. ev.svc = s /\ ev.type = type /\ ev.id = container[s].id
    OBVIOUS
  <2> HIDE DEF ev
  <2>3. Gains(s, ev)
    BY <1>0, <2>1, <2>2 DEF Gains
  <2>4. /\ EventInv' /\ HasEvent(s)'
        /\ \A t \in Service : t # s => (HasEvent(t)' <=> HasEvent(t))
    BY <2>2, <2>3, EventsGrow
  <2> QED
    BY <1>0, <1>1, <2>1, <2>4 DEF Told, Alike
<1>2. CASE ~subscribed
  <2>1. events = <<>> /\ events' = <<>> /\ unheard' = unheard \cup {s}
    BY <1>2 DEF Emit
  <2>2. DOMAIN events' = {} /\ DOMAIN events = {}
    BY <2>1
  <2>3. EventInv' /\ \A t \in Service : HasEvent(t)' <=> HasEvent(t)
    BY <2>2 DEF EventInv, HasEvent
  <2> QED
    BY <1>0, <2>1, <2>3 DEF Told, Alike
<1> QED
  BY <1>1, <1>2

\* Nothing is reported, and the statuses and ids stay.
LEMMA NotReported ==
    ASSUME DaemonTypeOK, EventInv, UNCHANGED <<events, unheard>>,
           \A t \in Service : /\ container'[t].status = container[t].status
                              /\ container'[t].id = container[t].id
                              /\ container'[t].digest = container[t].digest
                              /\ container'[t].config = container[t].config
    PROVE  EventInv' /\ \A t \in Service : Told(t)
<1>1. \A t \in Service : container[t].id \in Nat
  BY DEF DaemonTypeOK, Container
<1>2. EventInv'
  BY DEF EventInv, LastEvent, Running
<1> QED
  BY <1>1, <1>2 DEF Told, Alike, HasEvent

\* What anybody can do to the container of s.
Touches(s) ==
    \/ StopContainer(s) \/ RemoveContainer(s) \/ StartContainer(s)
    \/ \E n : ConnectNetwork(s, n)
    \/ container[s].status = "absent" /\ \E N, A : CreateContainer(s, N, A)
    \/ \E c \in Configs : Redeploy(s, c)

\* It is reported.
LEMMA TouchTold ==
    ASSUME DaemonTypeOK, EventInv, events # <<>> => subscribed, NEW s \in Service, Touches(s)
    PROVE  /\ EventInv' /\ (events' # <<>> => subscribed') /\ \A t \in Service : Told(t)
           /\ UNCHANGED subscribed
<1>0. /\ container \in [Service -> Container] /\ events \in Seq(Event)
      /\ \A t \in Service : container[t] \in Container /\ container[t].id \in Nat
  BY DEF DaemonTypeOK, Container
<1>1. UNCHANGED subscribed /\ \A t \in Service : t # s => container'[t] = container[t]
  BY <1>0 DEF Touches, StopContainer, RemoveContainer, StartContainer, ConnectNetwork,
              CreateContainer, Redeploy
<1>2. CASE StopContainer(s)
  <2>1. CASE container[s].status = "running"
    <3>1. container' = [container EXCEPT ![s].status = "exited"] /\ Emit(s, "die")
      BY <1>2, <2>1 DEF StopContainer
    <3>2. container'[s] = [container[s] EXCEPT !.status = "exited"]
      BY <1>0, <3>1
    <3>3. container'[s].id = container[s].id /\ ~Running(s)'
      BY <1>0, <3>2 DEF Container, Running
    <3> QED
      BY <1>1, <3>1, <3>3, Emitted
  <2>2. CASE container[s].status # "running"
    <3>1. container'[s] = [container[s] EXCEPT !.status = container[s].status]
            /\ UNCHANGED <<events, unheard>>
      BY <1>0, <1>2, <2>2 DEF StopContainer
    <3>2. /\ container'[s].status = container[s].status
          /\ container'[s].id = container[s].id
          /\ container'[s].digest = container[s].digest
          /\ container'[s].config = container[s].config
      BY <1>0, <3>1 DEF Container
    <3> QED
      BY <1>1, <3>1, <3>2, NotReported
  <2> QED
    BY <2>1, <2>2
<1>3. CASE RemoveContainer(s)
  <2>1. container' = [container EXCEPT ![s].status = "absent"] /\ Emit(s, "destroy")
    BY <1>3 DEF RemoveContainer
  <2>2. container'[s] = [container[s] EXCEPT !.status = "absent"]
    BY <1>0, <2>1
  <2>3. container'[s].id = container[s].id /\ ~Running(s)'
    BY <1>0, <2>2 DEF Container, Running
  <2> QED
    BY <1>1, <2>1, <2>3, Emitted
<1>4. CASE StartContainer(s)
  <2>1. container' = [container EXCEPT ![s].status = "running"] /\ Emit(s, "start")
    BY <1>4 DEF StartContainer
  <2>2. container'[s] = [container[s] EXCEPT !.status = "running"]
    BY <1>0, <2>1
  <2>3. container'[s].id = container[s].id /\ Running(s)'
    BY <1>0, <2>2 DEF Container, Running
  <2> QED
    BY <1>1, <2>1, <2>3, Emitted
<1>5. CASE \E n : ConnectNetwork(s, n)
  <2>1. PICK n : container'[s] = [container[s] EXCEPT !.nets = container[s].nets \cup {n}]
                   /\ UNCHANGED <<events, unheard>>
    BY <1>0, <1>5 DEF ConnectNetwork
  <2>2. /\ container'[s].status = container[s].status
        /\ container'[s].id = container[s].id
        /\ container'[s].digest = container[s].digest
        /\ container'[s].config = container[s].config
    BY <1>0, <2>1 DEF Container
  <2> QED
    BY <1>1, <2>1, <2>2, NotReported
<1>6. CASE container[s].status = "absent" /\ \E N, A : CreateContainer(s, N, A)
  <2>1. PICK N, A : container' = [container EXCEPT ![s] = NewContainer(s, N, A)]
                      /\ UNCHANGED <<events, unheard>>
    BY <1>6 DEF CreateContainer
  <2>2. container'[s] = NewContainer(s, N, A)
    BY <1>0, <2>1
  <2>3. container'[s].status = "created" /\ container'[s].id = container[s].id + 1
    BY <2>2 DEF NewContainer
  <2>4. \A t \in Service : HasEvent(t)' <=> HasEvent(t)
    BY <2>1 DEF HasEvent
  <2>5. \A t \in Service : Running(t)' <=> Running(t)
    BY <1>1, <1>6, <2>3 DEF Running
  <2>6. EventInv'
    BY <1>1, <1>6, <2>1, <2>5 DEF EventInv, LastEvent, Running
  <2> QED
    BY <1>0, <1>1, <2>1, <2>3, <2>4, <2>6 DEF Told, Alike
<1>7. CASE \E c \in Configs : Redeploy(s, c)
  <2>1. PICK c \in Configs : Redeploy(s, c)
    BY <1>7
  <2>2. container'[s].id = container[s].id + 1 /\ Running(s)'
    BY <2>1, Redeployed DEF Running
  <2>3. CASE subscribed
    <3> DEFINE ev == [type |-> "start", svc |-> s, id |-> container[s].id + 1]
    <3>1. Gains(s, ev) /\ UNCHANGED unheard /\ ev.type = "start" /\ ev.id = container'[s].id
      BY <2>1, <2>2, <2>3, RedeployReported DEF Redeploy
    <3> HIDE DEF ev
    <3>2. /\ EventInv' /\ HasEvent(s)'
          /\ \A t \in Service : t # s => (HasEvent(t)' <=> HasEvent(t))
      BY <1>1, <2>2, <3>1, EventsGrow
    <3> QED
      BY <1>0, <1>1, <2>2, <2>3, <3>1, <3>2 DEF Told, Alike
  <2>4. CASE ~subscribed
    <3>1. events = <<>> /\ events' = <<>> /\ unheard' = unheard \cup {s}
      BY <2>1, <2>4 DEF Redeploy
    <3>2. DOMAIN events' = {} /\ DOMAIN events = {}
      BY <3>1
    <3>3. EventInv' /\ \A t \in Service : HasEvent(t)' <=> HasEvent(t)
      BY <3>2 DEF EventInv, HasEvent
    <3> QED
      BY <1>0, <1>1, <2>2, <3>1, <3>3 DEF Told, Alike
  <2> QED
    BY <2>3, <2>4
<1> QED
  BY <1>2, <1>3, <1>4, <1>5, <1>6, <1>7 DEF Touches

\* Which of these a step of recreate.Service takes.
LEMMA RecreateTouches ==
    ASSUME NEW r \in Request, NEW s \in Service, RecreateStep(r, s),
           step[r] = "create" => container[s].status = "absent"
    PROVE  UNCHANGED daemonVars \/ Touches(s)
<1>1. CASE ListOld(r, s)
  BY <1>1 DEF ListOld
<1>2. CASE StopOld(r, s)
  BY <1>2 DEF StopOld, ActedAnyway, Touches
<1>3. CASE RemoveOld(r, s)
  BY <1>3 DEF RemoveOld, ActedAnyway, Touches
<1>4. CASE CreateNew(r, s)
  BY <1>4 DEF CreateNew, ActedAnyway, Succeeds, StepTo, Touches
<1>5. CASE ConnectNetworks(r, s)
  BY <1>5 DEF ConnectNetworks, ActedAnyway, Touches
<1>6. CASE StartNew(r, s)
  BY <1>6 DEF StartNew, ActedAnyway, Touches
<1>7. CASE CleanupNew(r, s)
  BY <1>7 DEF CleanupNew, Touches
<1> QED
  BY <1>1, <1>2, <1>3, <1>4, <1>5, <1>6, <1>7 DEF RecreateStep

\* Every step but discovery's own and a restart.
LEMMA WorldTold ==
    ASSUME SystemTypeOK, GoneInv, StreamInv, EventInv, [SystemNext]_systemVars,
           ~Discover, ~Reboot
    PROVE  /\ EventInv' /\ (events' # <<>> => subscribed') /\ \A s \in Service : Told(s)
           /\ UNCHANGED <<phase, todo, outbox, patterns, subscribed>>
<1>0. /\ DaemonTypeOK /\ PollerTypeOK /\ (events # <<>> => subscribed)
      /\ \A r \in Request : svc(r) \in Service
  BY RequestService DEF SystemTypeOK, TypeOK, StreamInv, RequestTypeOK
<1>1. UNCHANGED <<phase, todo, outbox, patterns>>
  <2>1. CASE \E r \in Request : Handler(r) \/ Client(r)
    BY <2>1 DEF Handler, Client, discoveryVars
  <2>2. CASE Applied \/ World \/ UNCHANGED systemVars
    BY <2>2 DEF Applied, World, systemVars, discoveryVars
  <2>3. CASE \E w \in Sweeper : CronTick(w) \/ PollNow(w) \/ Poll(w) \/ PollExpires(w)
    BY <2>3 DEF CronTick, PollNow, Poll, PollExpires, Begin, Expire, SweepStep, Look, Dispatch,
                Say, Fetch, Deliver, End, discoveryVars
  <2> QED
    BY <2>1, <2>2, <2>3, SystemSteps
<1>2. \/ UNCHANGED <<container, events, unheard, subscribed>>
      \/ \E s \in Service : Touches(s)
  <2>1. ASSUME NEW r \in Request, Handler(r) \/ Client(r)
        PROVE  UNCHANGED <<container, events, unheard, subscribed>> \/ Touches(svc(r))
    <3>1. CASE RecreateService(r)
      BY <1>0, <3>1, RecreateTouches DEF RecreateService, GoneInv, daemonVars
    <3>2. CASE ~RecreateService(r)
      BY <2>1, <3>2 DEF Handler, Client, RequestStep, Arrive, ClientGone, ComposeFileMoved,
         LockService, Snapshot, ChooseRollbackTarget, SendStart, SendAndGoto, Pull, CrossCheck,
         Retag, SendProgress, RecreateReturns, SendSwap, VerifyNew, SendResult, SendFailure,
         Unlock, PullImage, TagImage, ActedAnyway, daemonVars
    <3> QED
      BY <3>1, <3>2
  <2>2. CASE Applied \/ UNCHANGED systemVars
    BY <2>2 DEF Applied, Updater, systemVars, vars, daemonVars
  <2>3. CASE \E w \in Sweeper : CronTick(w) \/ PollNow(w) \/ Poll(w) \/ PollExpires(w)
    BY <1>0, <2>3, SweepSpeech DEF CronTick, PollNow, Poll, PollExpires, daemonVars
  <2>4. CASE World
    BY <2>4 DEF World, Outside, Publish, Prune, Crash, Revive, Touches
  <2> QED
    BY <1>0, <2>1, <2>2, <2>3, <2>4, SystemSteps
<1>3. CASE UNCHANGED <<container, events, unheard, subscribed>>
  BY <1>0, <1>1, <1>3, NotReported
<1>4. CASE \E s \in Service : Touches(s)
  BY <1>0, <1>1, <1>4, TouchTold
<1> QED
  BY <1>2, <1>3, <1>4

\* Nobody brings the old container back before the new one is created: the mutex
\* keeps other requests and redeploys away, and what is gone does not revive.
LEMMA GoneStep ==
    ASSUME SystemTypeOK, SpinnerInv, StepsInRecreate, GoneInv, [SystemNext]_systemVars
    PROVE  GoneInv'
<1>0. /\ TypeOK /\ DaemonTypeOK /\ MutexHeld /\ step \in [Request -> Step]
      /\ \A r \in Request : svc(r) \in Service
  BY RequestService DEF SystemTypeOK, TypeOK, RequestTypeOK, RecreateTypeOK, SpinnerInv, Request
<1> SUFFICES ASSUME NEW q \in Request, step'[q] = "create"
             PROVE  container'[svc(q)'].status = "absent"
  BY DEF GoneInv, svc
<1>1. ASSUME step[q] = "create", svc(q)' = svc(q), container'[svc(q)] = container[svc(q)]
      PROVE  container'[svc(q)'].status = "absent"
  BY <1>1 DEF GoneInv
<1>2. step[q] = "create" => pc[q] \in Locked
  BY DEF StepsInRecreate, Locked, Started
<1>3. ASSUME NEW r \in Request, RequestStep(r) PROVE container'[svc(q)'].status = "absent"
  <2>0. svc(q)' = svc(q)
    BY <1>3, SameContext DEF svc
  <2>1. CASE q # r
    BY <1>0, <1>1, <1>2, <1>3, <2>0, <2>1, OtherRequest, LockedUndisturbed
  <2>2. CASE q = r /\ RecreateService(r)
    <3>1. RemoveContainer(svc(r))
      BY <1>0, <2>2 DEF RecreateService, RecreateStep, ListOld, StopOld, RemoveOld, CreateNew,
                        ConnectNetworks, StartNew, CleanupNew, Succeeds, StepTo
    <3>2. container' = [container EXCEPT ![svc(r)].status = "absent"]
      BY <3>1 DEF RemoveContainer
    <3>3. container \in [Service -> Container] /\ svc(r) \in Service
      BY <1>0 DEF DaemonTypeOK
    <3>4. container'[svc(r)].status = "absent"
      BY <3>2, <3>3 DEF Container
    <3> QED
      BY <2>0, <2>2, <3>4
  <2>3. CASE q = r /\ ~RecreateService(r)
    <3>1. step[q] = "create" /\ UNCHANGED container
      BY <1>0, <1>3, <2>3, OutsideRecreate DEF Delicate
    <3> QED
      BY <1>1, <2>0, <3>1
  <2> QED
    BY <2>1, <2>2, <2>3
<1>4. ASSUME NEW r \in Request, Arrive(r) \/ ClientGone(r)
      PROVE  container'[svc(q)'].status = "absent"
  <2>1. UNCHANGED <<step, container>>
    BY <1>4 DEF Arrive, ClientGone, recreateVars, daemonVars
  <2>2. q # r \/ ClientGone(r)
    BY <1>0, <1>2, <1>4, <2>1 DEF Arrive, Goto, Locked, Started
  <2>3. svc(q)' = svc(q)
    <3>1. req \in [Request -> [svc : Service, op : Op]]
      BY <1>0 DEF TypeOK
    <3> QED
      BY <1>4, <2>2, <3>1 DEF Arrive, ClientGone, orchVars, svc
  <2> QED
    BY <1>1, <2>1, <2>3
<1>5. CASE Updater \/ Outside
  BY <1>1, <1>5 DEF Updater, Outside, Publish, Prune, daemonVars, recreateVars, orchVars, svc
<1>6. CASE Restart
  BY <1>6 DEF Restart
<1>7. CASE ~Next
  <2>1. step[q] = "create" /\ svc(q)' = svc(q) /\ held[svc(q)] = q
          /\ container[svc(q)].status = "absent"
    BY <1>0, <1>2, <1>7, OtherSteps DEF recreateVars, orchVars, svc, MutexHeld, GoneInv
  <2>2. ASSUME NEW s \in Service, Crash(s) \/ Revive(s) \/ held[s] = NoOne
        PROVE  s # svc(q)
    BY <2>1, <2>2, OrchestratorAssumption DEF Crash, Revive
  <2> QED
    BY <1>0, <1>1, <1>7, <2>1, <2>2, OtherSteps
<1> QED
  BY <1>3, <1>4, <1>5, <1>6, <1>7 DEF Next

-----------------------------------------------------------------------------
(* What discovery makes of it.                                             *)

\* An upsert that describes the container of s.
RightUpsert(m, s) ==
    /\ m.kind = "upsert" /\ m.svc = s
    /\ m.id = container[s].id
    /\ m.digest \in Digest => m.digest = container[s].digest
    /\ m.pinned = container[s].config.pinned
    /\ m.blocked = container[s].config.blocked

\* What upsertFromInspect leaves: an upsert that describes the container, and its
\* pattern; a container that is not described counts as unheard of.
LEMMA Inspected ==
    ASSUME DaemonTypeOK, NEW s \in Service, NEW id, UpsertFromInspect(s, id), outbox = <<>>
    PROVE  /\ \A t \in Service : t # s => /\ t \in unheard' <=> t \in unheard
                                          /\ t \in patterns' <=> t \in patterns
           /\ outbox' = <<>> \/ \E m \in UpsertMsg : outbox' = <<m>> /\ RightUpsert(m, s)
           /\ container[s].id = id /\ container[s].status # "absent" =>
                \/ s \in unheard'
                \/ /\ outbox' # <<>>
                   /\ s \in patterns' <=> container[s].config.pattern = "rejects"
           /\ s \in unheard /\ s \notin unheard' => Running(s) /\ container[s].id = id
           /\ ~(container[s].id = id /\ container[s].status # "absent") =>
                UNCHANGED <<outbox, patterns, unheard>>
<1>1. /\ Observed(s) \in UpsertMsg
      /\ [Observed(s) EXCEPT !.digest = NoDigest, !.at = 0] \in UpsertMsg
  BY ObservedType
<1>2. RightUpsert(Observed(s), s)
  BY StoreAssumption DEF Observed, RightUpsert
<1>3. RightUpsert([Observed(s) EXCEPT !.digest = NoDigest, !.at = 0], s)
  BY StoreAssumption DEF Observed, RightUpsert
<1>4. outbox' \in {<<>>, <<Observed(s)>>, <<[Observed(s) EXCEPT !.digest = NoDigest, !.at = 0]>>}
  BY DEF UpsertFromInspect
<1>5. \A m : <<m>> # <<>>
  OBVIOUS
<1>6. CASE container[s].id = id /\ container[s].status # "absent"
  <2>1. \/ /\ outbox' # <<>> /\ SetPattern(s, container[s].config.pattern)
           /\ unheard' = IF Running(s) THEN unheard \ {s} ELSE unheard
        \/ unheard' = unheard \cup {s} /\ UNCHANGED patterns
    BY <1>5, <1>6 DEF UpsertFromInspect
  <2> QED
    BY <1>1, <1>2, <1>3, <1>4, <1>6, <2>1 DEF SetPattern
<1>7. CASE ~(container[s].id = id /\ container[s].status # "absent")
  BY <1>7 DEF UpsertFromInspect
<1> QED
  BY <1>6, <1>7

\* Receiving an event takes it off the stream.
LEMMA EventTail ==
    ASSUME NEW q \in Seq(Event), q # <<>>
    PROVE  /\ Head(q) \in Event /\ Head(q) = q[1] /\ Len(q) \in Nat \ {0}
           /\ DOMAIN q = 1 .. Len(q) /\ DOMAIN Tail(q) = 1 .. Len(q) - 1
           /\ \A i \in 1 .. Len(q) - 1 : Tail(q)[i] = q[i + 1]
OBVIOUS

\* The event received is the last about its service, or another one is behind it.
LEMMA Received ==
    ASSUME EventInv, NEW n \in Nat \ {0}, DOMAIN events = 1 .. n, DOMAIN events' = 1 .. n - 1,
           \A i \in 1 .. n - 1 : events'[i] = events[i + 1], UNCHANGED container,
           NEW s \in Service, s = events[1].svc
    PROVE  /\ EventInv'
           /\ \A t \in Service : t # s => (HasEvent(t)' <=> HasEvent(t))
           /\ HasEvent(s)' \/ /\ events[1].type = "start" <=> Running(s)
                              /\ Running(s) => events[1].id = container[s].id
<1>1. \A j \in 2 .. n : j - 1 \in 1 .. n - 1 /\ events'[j - 1] = events[j]
  <2> SUFFICES ASSUME NEW j \in 2 .. n
               PROVE  j - 1 \in 1 .. n - 1 /\ events'[j - 1] = events[j]
    OBVIOUS
  <2>1. j - 1 \in 1 .. n - 1 /\ (j - 1) + 1 = j
    OBVIOUS
  <2> QED
    BY <2>1
<1>2. EventInv'
  <2> SUFFICES ASSUME NEW t \in Service, NEW i \in 1 .. n - 1, LastEvent(i, t)'
               PROVE  /\ events'[i].type = "start" <=> Running(t)
                      /\ Running(t) => events'[i].id = container[t].id
    BY DEF EventInv, Running
  <2>1. i + 1 \in 1 .. n /\ events'[i] = events[i + 1]
    OBVIOUS
  <2>2. ASSUME NEW j \in 1 .. n, j > i + 1 PROVE events[j].svc # t
    <3>1. j \in 2 .. n /\ j - 1 > i
      BY <2>2
    <3>2. j - 1 \in DOMAIN events' /\ events'[j - 1] = events[j]
      BY <1>1, <3>1
    <3> QED
      BY <3>1, <3>2 DEF LastEvent
  <2>3. events[i + 1].svc = t
    BY <2>1 DEF LastEvent
  <2>4. LastEvent(i + 1, t)
    BY <2>2, <2>3 DEF LastEvent
  <2> QED
    BY <2>1, <2>4 DEF EventInv
<1>3. ASSUME NEW t \in Service PROVE HasEvent(t)' => HasEvent(t)
  <2> SUFFICES ASSUME NEW i \in 1 .. n - 1, events'[i].svc = t PROVE HasEvent(t)
    BY DEF HasEvent
  <2>1. i + 1 \in DOMAIN events /\ events[i + 1].svc = t
    OBVIOUS
  <2> QED
    BY <2>1 DEF HasEvent
<1>4. ASSUME NEW t \in Service, t # s PROVE HasEvent(t) => HasEvent(t)'
  <2> SUFFICES ASSUME NEW j \in 1 .. n, events[j].svc = t PROVE HasEvent(t)'
    BY DEF HasEvent
  <2>1. j \in 2 .. n
    BY <1>4
  <2>2. j - 1 \in DOMAIN events' /\ events'[j - 1].svc = t
    BY <1>1, <2>1
  <2> QED
    BY <2>2 DEF HasEvent
<1>5. ASSUME ~HasEvent(s)'
      PROVE  /\ events[1].type = "start" <=> Running(s)
             /\ Running(s) => events[1].id = container[s].id
  <2>1. ASSUME NEW j \in 1 .. n, j > 1 PROVE events[j].svc # s
    <3>1. j \in 2 .. n
      BY <2>1
    <3>2. j - 1 \in DOMAIN events' /\ events'[j - 1] = events[j]
      BY <1>1, <3>1
    <3> QED
      BY <1>5, <3>2 DEF HasEvent
  <2>2. LastEvent(1, s) /\ 1 \in DOMAIN events
    BY <2>1 DEF LastEvent
  <2> QED
    BY <2>2 DEF EventInv
<1> QED
  BY <1>2, <1>3, <1>4, <1>5

\* The event discovery handles, and what it learns from it.
LEMMA Handled ==
    ASSUME SystemTypeOK, EventInv, HandleEvent
    PROVE  \E s \in Service :
             /\ Head(events).svc = s /\ Head(events) \in Event
             /\ EventInv' /\ UNCHANGED <<container, phase, todo>>
             /\ outbox = <<>> /\ phase = "drain"
             /\ \A t \in Service : t # s => /\ HasEvent(t)' <=> HasEvent(t)
                                            /\ t \in unheard' <=> t \in unheard
                                            /\ t \in patterns' <=> t \in patterns
             /\ \/ UpsertFromInspect(s, Head(events).id) /\ Head(events).type = "start"
                \/ /\ StopOrRemove(Head(events), "stopped") \/ StopOrRemove(Head(events), "removed")
                   /\ Head(events).type # "start" /\ UNCHANGED patterns
             /\ HasEvent(s)' \/ /\ Head(events).type = "start" <=> Running(s)
                                /\ Running(s) => Head(events).id = container[s].id
<1> DEFINE ev == Head(events)
<1>0. /\ DaemonTypeOK /\ events # <<>> /\ events' = Tail(events) /\ events \in Seq(Event)
      /\ UNCHANGED <<container, phase, todo>> /\ outbox = <<>> /\ phase = "drain"
  BY DEF HandleEvent, SystemTypeOK, TypeOK, DaemonTypeOK
<1>1. /\ ev \in Event /\ ev = events[1] /\ Len(events) \in Nat \ {0}
      /\ DOMAIN events = 1 .. Len(events) /\ DOMAIN events' = 1 .. Len(events) - 1
      /\ \A i \in 1 .. Len(events) - 1 : events'[i] = events[i + 1]
  BY <1>0, EventTail
<1>2. PICK s \in Service : s = ev.svc
  BY <1>1 DEF Event
<1>3. /\ EventInv'
      /\ \A t \in Service : t # s => (HasEvent(t)' <=> HasEvent(t))
      /\ HasEvent(s)' \/ /\ ev.type = "start" <=> Running(s)
                         /\ Running(s) => ev.id = container[s].id
  BY <1>0, <1>1, <1>2, Received
<1>4. \/ UpsertFromInspect(s, ev.id) /\ ev.type = "start"
      \/ /\ StopOrRemove(ev, "stopped") \/ StopOrRemove(ev, "removed")
         /\ ev.type # "start" /\ UNCHANGED patterns
  BY <1>2 DEF HandleEvent
<1> HIDE DEF ev
<1>5. \A t \in Service : t # s => /\ t \in unheard' <=> t \in unheard
                                  /\ t \in patterns' <=> t \in patterns
  <2>1. CASE UpsertFromInspect(s, ev.id)
    BY <1>0, <2>1, Inspected
  <2>2. CASE (StopOrRemove(ev, "stopped") \/ StopOrRemove(ev, "removed")) /\ UNCHANGED patterns
    BY <1>2, <2>2 DEF StopOrRemove
  <2> QED
    BY <1>4, <2>1, <2>2
<1> QED
  BY <1>0, <1>1, <1>2, <1>3, <1>4, <1>5 DEF ev

\* A step of discovery other than a send, for a running container t that it has
\* not missed: it is still going to look, it has just looked, or nothing happens.
Looked(t) ==
    \/ ToLook(t)'
    \/ /\ outbox' # <<>> /\ RightUpsert(Head(outbox'), t)
       /\ t \in patterns' <=> container[t].config.pattern = "rejects"
    \/ /\ t \notin unheard /\ ~ToLook(t) /\ (t \in patterns' <=> t \in patterns)
       /\ outbox' = outbox \/ (outbox = <<>> /\ outbox' # <<>> /\ Head(outbox').svc # t)

LEMMA DiscoveryLooks ==
    ASSUME SystemTypeOK, StreamInv, EventInv, DiscoveryStep, ~SendUpdate, NEW t \in Service,
           t \notin unheard', Running(t)
    PROVE  Looked(t)
<1>0. /\ DaemonTypeOK /\ DiscoveryTypeOK
      /\ \A m : <<m>> # <<>> /\ Head(<<m>>) = m
      /\ events = <<>> => ~HasEvent(t)
      /\ phase # "drain" => events = <<>>
  <2>1. \A m : <<m>> # <<>> /\ Head(<<m>>) = m
    OBVIOUS
  <2>2. events = <<>> => DOMAIN events = {}
    OBVIOUS
  <2> QED
    BY <2>1, <2>2 DEF SystemTypeOK, TypeOK, HasEvent, StreamInv
<1>1. CASE List
  <2>1. UNCHANGED container
    BY <1>1 DEF List
  <2>2. <<t, container[t].id>> \in todo'
    BY <1>1 DEF List
  <2> QED
    BY <2>1, <2>2 DEF Looked, ToLook
<1>2. CASE InspectNext
  <2>0. UNCHANGED <<container, phase, events>> /\ outbox = <<>> /\ phase = "walk"
          /\ ~HasEvent(t)
    BY <1>0, <1>2 DEF InspectNext
  <2>1. PICK c \in todo : UpsertFromInspect(c[1], c[2]) /\ todo' = todo \ {c}
    BY <1>2 DEF InspectNext
  <2>2. c \in Service \X Nat /\ c = <<c[1], c[2]>> /\ c[1] \in Service /\ c[2] \in Nat
    BY <1>0, <2>1 DEF DiscoveryTypeOK
  <2>3. PICK s \in Service, id \in Nat :
           s = c[1] /\ id = c[2] /\ UpsertFromInspect(s, id) /\ c = <<s, id>>
    BY <2>1, <2>2
  <2>4. CASE t = s /\ container[s].id = id
    <3>1. outbox' # <<>> /\ (t \in patterns' <=> container[t].config.pattern = "rejects")
      BY <1>0, <2>0, <2>3, <2>4, Inspected DEF Running
    <3>2. RightUpsert(Head(outbox'), t)
      BY <1>0, <2>0, <2>3, <2>4, <3>1, Inspected
    <3> QED
      BY <3>1, <3>2 DEF Looked
  <2>5. CASE t = s /\ container[s].id # id
    <3>1. UNCHANGED <<outbox, patterns, unheard>>
      BY <1>0, <2>0, <2>3, <2>5, Inspected
    <3>2. <<t, container[t].id>> \in todo' <=> <<t, container[t].id>> \in todo
      BY <2>1, <2>3, <2>5
    <3> QED
      BY <2>0, <3>1, <3>2 DEF Looked, ToLook
  <2>6. CASE t # s
    <3>1. <<t, container[t].id>> \in todo' <=> <<t, container[t].id>> \in todo
      BY <2>1, <2>3, <2>6
    <3>2. (t \in unheard' <=> t \in unheard) /\ (t \in patterns' <=> t \in patterns)
      BY <1>0, <2>0, <2>3, <2>6, Inspected
    <3>3. outbox' = <<>> \/ (outbox' # <<>> /\ Head(outbox').svc # t)
      BY <1>0, <2>0, <2>3, <2>6, Inspected DEF RightUpsert
    <3> QED
      BY <2>0, <3>1, <3>2, <3>3 DEF Looked, ToLook
  <2> QED
    BY <2>4, <2>5, <2>6
<1>3. CASE Listed
  BY <1>0, <1>3 DEF Listed, Looked, ToLook, daemonVars
<1>4. CASE Subscribe
  BY <1>0, <1>4 DEF Subscribe, Looked, ToLook, StreamInv
<1>5. CASE HandleEvent
  <2>1. PICK s \in Service :
             /\ Head(events).svc = s
             /\ UNCHANGED <<container, phase, todo>>
             /\ outbox = <<>> /\ phase = "drain"
             /\ \A u \in Service : u # s => /\ HasEvent(u)' <=> HasEvent(u)
                                            /\ u \in unheard' <=> u \in unheard
                                            /\ u \in patterns' <=> u \in patterns
             /\ \/ UpsertFromInspect(s, Head(events).id) /\ Head(events).type = "start"
                \/ /\ StopOrRemove(Head(events), "stopped") \/ StopOrRemove(Head(events), "removed")
                   /\ Head(events).type # "start" /\ UNCHANGED patterns
             /\ HasEvent(s)' \/ /\ Head(events).type = "start" <=> Running(s)
                                /\ Running(s) => Head(events).id = container[s].id
    BY <1>5, Handled
  <2>2. CASE HasEvent(t)'
    BY <2>2 DEF Looked, ToLook
  <2>3. CASE t = s /\ ~HasEvent(t)'
    <3>1. UpsertFromInspect(t, container[t].id) /\ container[t].status # "absent"
      BY <2>1, <2>3 DEF Running
    <3>2. outbox' # <<>> /\ (t \in patterns' <=> container[t].config.pattern = "rejects")
      BY <1>0, <2>1, <3>1, Inspected
    <3>3. RightUpsert(Head(outbox'), t)
      BY <1>0, <2>1, <3>1, <3>2, Inspected
    <3> QED
      BY <3>2, <3>3 DEF Looked
  <2>4. CASE t # s /\ ~HasEvent(t)'
    <3>1. outbox' = <<>> \/ (outbox' # <<>> /\ Head(outbox').svc # t)
      <4>1. CASE UpsertFromInspect(s, Head(events).id)
        BY <1>0, <2>1, <2>4, <4>1, Inspected DEF RightUpsert
      <4>2. CASE StopOrRemove(Head(events), "stopped") \/ StopOrRemove(Head(events), "removed")
        BY <1>0, <2>1, <2>4, <4>2 DEF StopOrRemove
      <4> QED
        BY <2>1, <4>1, <4>2
    <3>2. ToLook(t)' <=> ToLook(t)
      BY <2>1, <2>4 DEF ToLook
    <3> QED
      BY <2>1, <2>4, <3>1, <3>2 DEF Looked
  <2> QED
    BY <2>2, <2>3, <2>4
<1>6. CASE StreamBreaks
  BY <1>6 DEF StreamBreaks, Looked, ToLook
<1> QED
  BY <1>1, <1>2, <1>3, <1>4, <1>5, <1>6 DEF DiscoveryStep

\* The stream, its events and the list under discovery's own steps.
LEMMA DiscoveryStream ==
    ASSUME SystemTypeOK, StreamInv, EventInv, WalkInv, DiscoveryStep
    PROVE  StreamInv' /\ EventInv' /\ WalkInv'
<1>0. /\ DaemonTypeOK /\ DiscoveryTypeOK /\ \A s \in Service : container[s].id \in Nat
  BY DEF SystemTypeOK, TypeOK, DaemonTypeOK, Container
<1>1. ASSUME UNCHANGED <<events, container>> PROVE EventInv'
  BY <1>1 DEF EventInv, LastEvent, Running
<1>2. CASE List
  <2>1. UNCHANGED <<events, container, subscribed>> /\ phase = "list"
    BY <1>2 DEF List
  <2>2. \/ /\ todo' = {<<s, container[s].id>> : s \in {t \in Service : Running(t)}}
           /\ phase' = "walk" /\ UNCHANGED unheard
        \/ phase' = "subscribe" /\ unheard' = Service /\ UNCHANGED todo
    BY <1>2 DEF List
  <2>3. todo = {}
    BY <2>1 DEF StreamInv
  <2>4. \A c \in todo' : c[2] <= container[c[1]].id /\ Running(c[1])
    BY <1>0, <2>2, <2>3
  <2>5. StreamInv'
    BY <2>1, <2>2, <2>3, <2>4 DEF StreamInv
  <2>6. WalkInv'
    <3> SUFFICES ASSUME NEW s \in Service, <<s, container[s].id>> \in todo' PROVE Running(s)
      BY <2>1 DEF WalkInv, Running
    <3> QED
      BY <2>4
  <2> QED
    BY <1>1, <2>1, <2>5, <2>6
<1>3. CASE InspectNext
  <2>0. UNCHANGED <<container, phase, events, subscribed>> /\ outbox = <<>>
    BY <1>3 DEF InspectNext
  <2>1. PICK c \in todo : UpsertFromInspect(c[1], c[2]) /\ todo' = todo \ {c}
    BY <1>3 DEF InspectNext
  <2>2. c[1] \in Service
    BY <1>0, <2>1 DEF DiscoveryTypeOK
  <2>3. WalkInv'
    <3> SUFFICES ASSUME NEW s \in Service, s \notin unheard', <<s, container[s].id>> \in todo'
                 PROVE  Running(s)
      BY <2>0 DEF WalkInv, Running
    <3>1. s \notin unheard \/ Running(s)
      BY <1>0, <2>0, <2>1, <2>2, Inspected
    <3> QED
      BY <2>1, <3>1 DEF WalkInv
  <2>4. StreamInv'
    BY <2>0, <2>1 DEF StreamInv
  <2> QED
    BY <1>1, <2>0, <2>3, <2>4
<1>4. CASE Listed \/ SendUpdate
  <2>1. UNCHANGED <<container, events, subscribed, unheard, todo>>
    BY <1>4 DEF Listed, SendUpdate, daemonVars
  <2>2. StreamInv'
    BY <1>4, <2>1 DEF Listed, SendUpdate, StreamInv
  <2>3. WalkInv'
    BY <2>1 DEF WalkInv, Running
  <2> QED
    BY <1>1, <2>1, <2>2, <2>3
<1>5. CASE Subscribe
  <2>1. UNCHANGED <<container, events, unheard, todo>>
    BY <1>5 DEF Subscribe
  <2>2. StreamInv'
    BY <1>5, <2>1 DEF Subscribe, StreamInv
  <2>3. WalkInv'
    BY <2>1 DEF WalkInv, Running
  <2> QED
    BY <1>1, <2>1, <2>2, <2>3
<1>6. CASE HandleEvent
  <2>1. EventInv' /\ UNCHANGED <<container, phase, todo>> /\ phase = "drain"
    BY <1>6, Handled
  <2>2. UNCHANGED subscribed /\ todo = {}
    BY <1>6, <2>1 DEF HandleEvent, StreamInv
  <2>3. StreamInv'
    BY <2>1, <2>2 DEF StreamInv
  <2>4. WalkInv'
    BY <2>1, <2>2 DEF WalkInv
  <2> QED
    BY <2>1, <2>3, <2>4
<1>7. CASE StreamBreaks
  <2>1. events' = <<>> /\ ~subscribed' /\ phase' = "list" /\ todo' = {}
    BY <1>7 DEF StreamBreaks, CloseStream, StreamInv
  <2>2. DOMAIN events' = {}
    BY <2>1
  <2> QED
    BY <2>1, <2>2 DEF StreamInv, EventInv, WalkInv
<1> QED
  BY <1>2, <1>3, <1>4, <1>5, <1>6, <1>7 DEF DiscoveryStep

\* And under everybody else's.
LEMMA WorldStream ==
    ASSUME SystemTypeOK, GoneInv, StreamInv, EventInv, WalkInv, [SystemNext]_systemVars,
           ~Discover
    PROVE  StreamInv' /\ EventInv' /\ WalkInv'
<1>0. \A s \in Service : container[s].id \in Nat
  BY DEF SystemTypeOK, TypeOK, DaemonTypeOK, Container
<1>1. CASE Reboot
  <2>1. events' = <<>> /\ ~subscribed' /\ phase' = "list" /\ todo' = {}
    BY <1>1 DEF Reboot, Restart, CloseStream
  <2>2. DOMAIN events' = {}
    BY <2>1
  <2> QED
    BY <2>1, <2>2 DEF StreamInv, EventInv, WalkInv
<1>2. CASE ~Reboot
  <2>1. /\ EventInv' /\ (events' # <<>> => subscribed')
        /\ UNCHANGED <<phase, todo, outbox, patterns, subscribed>>
    BY <1>2, WorldTold
  <2>2. \A s \in Service : Told(s)
    BY <1>2, WorldTold
  <2>3. \A s \in Service : container[s].id <= container'[s].id /\ container'[s].id \in Nat
    <3>1. DaemonTypeOK'
      BY SystemTypeStep DEF SystemTypeOK, TypeOK
    <3> QED
      BY <2>2, <3>1 DEF Told, DaemonTypeOK, Container
  <2>4. \A c \in todo : c[1] \in Service /\ c[2] \in Nat
    BY DEF SystemTypeOK, DiscoveryTypeOK
  <2>5. StreamInv'
    <3>1. \A c \in todo : c[2] <= container'[c[1]].id
      BY <1>0, <2>3, <2>4 DEF StreamInv
    <3> QED
      BY <2>1, <3>1 DEF StreamInv
  <2>6. WalkInv'
    <3> SUFFICES ASSUME NEW s \in Service, s \notin unheard', <<s, container'[s].id>> \in todo
                 PROVE  container'[s].status = "running"
      BY <2>1 DEF WalkInv, Running
    <3>1. events' = <<>>
      BY <2>1 DEF StreamInv
    <3>2. ~HasEvent(s)'
      <4>1. DOMAIN events' = {}
        BY <3>1
      <4> QED
        BY <4>1 DEF HasEvent
    <3>3. container'[s].id <= container[s].id
      BY DEF StreamInv
    <3>4. Alike(s)
      BY <1>0, <2>2, <3>2, <3>3 DEF Told
    <3> QED
      BY <3>4 DEF Alike, WalkInv, Running
  <2> QED
    BY <2>1, <2>5, <2>6
<1> QED
  BY <1>1, <1>2

\* The patterns.
LEMMA PatternStep ==
    ASSUME SystemTypeOK, GoneInv, StreamInv, EventInv, WalkInv, PatternInv,
           [SystemNext]_systemVars
    PROVE  PatternInv'
<1> SUFFICES ASSUME NEW s \in Service, s \notin unheard', Running(s)', ~ToLook(s)'
             PROVE  /\ s \in patterns' <=> container'[s].config.pattern = "rejects"
                    /\ ~Dropping(s)'
  BY DEF PatternInv
<1>1. CASE Discover
  <2>1. UNCHANGED container /\ Running(s) /\ DiscoveryStep
    BY <1>1 DEF Discover, DiscoveryStep, List, InspectNext, Listed, Subscribe, HandleEvent,
                SendUpdate, StreamBreaks, CloseStream, daemonVars, Running
  <2>2. CASE SendUpdate
    <3>1. UNCHANGED <<unheard, phase, todo, events>> /\ outbox # <<>> /\ outbox' = <<>>
            /\ patterns' = IF Head(outbox).kind = "removed" THEN patterns \ {Head(outbox).svc}
                           ELSE patterns
      BY <2>2 DEF SendUpdate, daemonVars
    <3>2. ~ToLook(s)
      BY <2>1, <3>1 DEF ToLook, HasEvent
    <3>3. (s \in patterns <=> container[s].config.pattern = "rejects") /\ ~Dropping(s)
      BY <2>1, <3>1, <3>2 DEF PatternInv
    <3> QED
      BY <2>1, <3>1, <3>3 DEF Dropping
  <2>3. CASE ~SendUpdate
    <3>1. Looked(s)
      BY <2>1, <2>3, DiscoveryLooks
    <3>2. CASE /\ outbox' # <<>> /\ RightUpsert(Head(outbox'), s)
               /\ s \in patterns' <=> container[s].config.pattern = "rejects"
      BY <2>1, <3>2 DEF Dropping, RightUpsert
    <3>3. CASE /\ s \notin unheard /\ ~ToLook(s) /\ (s \in patterns' <=> s \in patterns)
               /\ outbox' = outbox \/ (outbox = <<>> /\ outbox' # <<>> /\ Head(outbox').svc # s)
      BY <2>1, <3>3 DEF PatternInv, Dropping
    <3> QED
      BY <3>1, <3>2, <3>3 DEF Looked
  <2> QED
    BY <2>2, <2>3
<1>2. CASE Reboot
  BY <1>2 DEF Reboot, ToLook
<1>3. CASE ~Discover /\ ~Reboot
  <2>1. Told(s) /\ UNCHANGED <<phase, todo, outbox, patterns>>
    BY <1>3, WorldTold
  <2>2. Alike(s)
    BY <2>1 DEF Told, ToLook, Running
  <2>3. s \notin unheard /\ Running(s) /\ ~ToLook(s)
    BY <2>1, <2>2 DEF Alike, ToLook, Running
  <2> QED
    BY <2>1, <2>2, <2>3 DEF Alike, PatternInv, Dropping
<1> QED
  BY <1>1, <1>2, <1>3

\* What discovery knows, all together.
LookInv == GoneInv /\ StreamInv /\ EventInv /\ WalkInv /\ PatternInv

LEMMA LookStep ==
    ASSUME SystemTypeOK, SpinnerInv, StepsInRecreate, LookInv, [SystemNext]_systemVars
    PROVE  LookInv'
<1>1. GoneInv' /\ PatternInv'
  BY GoneStep, PatternStep DEF LookInv
<1>2. StreamInv' /\ EventInv' /\ WalkInv'
  BY DiscoveryStream, WorldStream DEF LookInv, Discover
<1> QED
  BY <1>1, <1>2 DEF LookInv

\* The boot list is still to come.
LEMMA InitLook == SystemInit => LookInv
<1> SUFFICES ASSUME SystemInit PROVE LookInv
  OBVIOUS
<1>1. /\ phase = "list" /\ todo = {} /\ events = <<>> /\ subscribed = FALSE
      /\ \A r \in Request : step[r] = "idle"
  BY DEF SystemInit, NoRequestYet, DaemonInit, DiscoveryInit, RecreateInit, Request
<1>2. DOMAIN events = {}
  BY <1>1
<1> QED
  BY <1>1, <1>2 DEF LookInv, GoneInv, StreamInv, EventInv, WalkInv, PatternInv, ToLook

LEMMA SystemLooks == SystemSpec => []LookInv
<1>1. SystemTypeOK /\ SpinnerInv /\ StepsInRecreate /\ LookInv /\ [SystemNext]_systemVars
      => LookInv'
  BY LookStep
<1> QED
  BY <1>1, InitLook, SystemTypes, SystemSpinner, SystemContainers, PTL DEF SystemSpec

\* Patterns.Set and removeContainer, through boot lists, broken streams, failed
\* inspects, recreates, redeploys and restarts, for every set of services and
\* containers: once discovery has caught up with a running container, a tag is
\* rejected exactly when the pattern of that container rejects it.
THEOREM CacheFollows == SystemSpec => []CacheFollowsLabels
<1>1. LookInv => CacheFollowsLabels
  BY DEF LookInv, StreamInv, PatternInv, CacheFollowsLabels, CaughtUp, ToLook, HasEvent
<1> QED
  BY <1>1, SystemLooks, PTL
=============================================================================
