------------------------------- MODULE Poller -------------------------------
(***************************************************************************)
(* The sweeps that ask the registry for the digest of every service's tag: *)
(* the cron tick's and the ones of POST /api/poll-now.  A sweep walks over *)
(* the rows of the store as they are, asks about the eligible ones in a    *)
(* bounded number of goroutines and sends what it learns through the       *)
(* state-update channel.  Sweeps overlap: nothing keeps a second one from  *)
(* starting.                                                               *)
(***************************************************************************)
EXTENDS Discovery, FiniteSets

CONSTANTS Sweeper,           \* the goroutines that sweep
          Manual,            \* those that serve a poll-now request
          PollConcurrency    \* how many fetches a sweep has under way

ASSUME PollerAssumption ==
    /\ Manual \subseteq Sweeper
    /\ PollConcurrency \in Nat \ {0}

VARIABLES sweep,    \* what each goroutine has still to do
          expired   \* those whose request's client left, or whose 30 s are up

pollerVars == <<sweep, expired>>

\* walk: rows not looked at; chosen: eligible ones not dispatched; noted: those of
\* them whose row had the mismatch note; out: a note the loop is about to send;
\* fetching, results: the fetches under way, and what came of them.
Sweep == [on : BOOLEAN, walk : SUBSET Service, chosen : SUBSET Service,
          noted : SUBSET Service, out : SUBSET NoteMsg, fetching : SUBSET Service,
          results : SUBSET (ResolvedMsg \cup NoteMsg)]

NoSweep == [on |-> FALSE, walk |-> {}, chosen |-> {}, noted |-> {}, out |-> {},
            fetching |-> {}, results |-> {}]

NoteOn(s, note) == [kind |-> "note", svc |-> s, note |-> note]
Stamp == [kind |-> "sweep", svc |-> NoService]

\* Mutant of SweepSend: a full channel is not waited for.
SweepSendNonBlocking(w, m) ==
    Post(m) \/ ((w \in expired \/ Len(channel) = ChannelCap) /\ UNCHANGED channel)

\* send: queued, or dropped when the context is done.
SweepSend(w, m) == Post(m) \/ (w \in expired /\ UNCHANGED channel)

\* The cron schedule, or a poll-now request, starts a sweep: the start stamp is
\* sent and the rows are there to be walked.
Begin(w) ==
    /\ ~sweep[w].on
    /\ Post(Stamp)
    /\ sweep' = [sweep EXCEPT ![w] = [NoSweep EXCEPT !.on = TRUE, !.walk = Service]]
    /\ UNCHANGED <<rows, disk, daemonVars, discoveryVars, expired>>

\* What eligibleContainers keeps of the rows it sees.
Eligible(row) == row.known /\ ~row.pinned /\ ~row.stopped

\* One turn of eligibleContainers.  A pinned row gets its note, unless it shows it.
Look(w) ==
    /\ sweep[w].out = {}
    /\ \E s \in sweep[w].walk :
         LET row == rows[s]
         IN  sweep' = [sweep EXCEPT
               ![w].walk = @ \ {s},
               ![w].chosen = IF Eligible(row) THEN @ \cup {s} ELSE @,
               ![w].noted = IF Eligible(row) /\ row.notes = "mismatch" THEN @ \cup {s} ELSE @,
               ![w].out = IF row.known /\ row.pinned /\ row.notes # "pinned"
                          THEN {NoteOn(s, "pinned")} ELSE {}]
    /\ UNCHANGED <<storeVars, daemonVars, discoveryVars, expired>>

\* One turn of the loop that follows: a tag the pattern rejects gets the mismatch
\* note, unless the row had it; g.Go starts a fetch for the others, and waits while
\* PollConcurrency of them are under way.
Dispatch(w) ==
    /\ sweep[w].out = {}
    /\ sweep[w].walk = {}
    /\ \E s \in sweep[w].chosen :
         \/ /\ s \in patterns
            /\ sweep' = [sweep EXCEPT
                           ![w].chosen = @ \ {s},
                           ![w].noted = @ \ {s},
                           ![w].out = IF s \in sweep[w].noted THEN {}
                                      ELSE {NoteOn(s, "mismatch")}]
         \/ /\ s \notin patterns
            /\ Cardinality(sweep[w].fetching) + Cardinality(sweep[w].results) < PollConcurrency
            /\ sweep' = [sweep EXCEPT ![w].chosen = @ \ {s},
                                       ![w].noted = @ \ {s},
                                       ![w].fetching = @ \cup {s}]
    /\ UNCHANGED <<storeVars, daemonVars, discoveryVars, expired>>

\* The loop sends the note.
Say(w) ==
    /\ \E m \in sweep[w].out : SweepSend(w, m)
    /\ sweep' = [sweep EXCEPT ![w].out = {}]
    /\ UNCHANGED <<rows, disk, daemonVars, discoveryVars, expired>>

\* resolver.Manifest: the digest of the tag; NoDigest is an error.
Manifest(i) == {registry[i], NoDigest}

\* handleFetchResult: what is to be said about it.
FetchResult(s, digest) ==
    IF digest = NoDigest THEN NoteOn(s, "registry")
    ELSE [kind |-> "resolved", svc |-> s, digest |-> digest]

\* A fetch ends; once the context is done it may fail by itself.
Fetch(w) ==
    /\ \E s \in sweep[w].fetching : \E d \in Manifest(ImageOf[s]) :
         /\ IF d = NoDigest /\ w \notin expired THEN Fault("fetch") ELSE UNCHANGED faults
         /\ sweep' = [sweep EXCEPT ![w].fetching = @ \ {s},
                                   ![w].results = @ \cup {FetchResult(s, d)}]
    /\ UNCHANGED <<storeVars, daemonVars, phase, todo, outbox, patterns, expired>>

\* handleFetchResult's send.
Deliver(w) ==
    /\ \E m \in sweep[w].results :
         /\ SweepSend(w, m)
         /\ sweep' = [sweep EXCEPT ![w].results = @ \ {m}]
    /\ UNCHANGED <<rows, disk, daemonVars, discoveryVars, expired>>

\* g.Wait returns and the end stamp is sent.
End(w) ==
    /\ sweep[w] = [NoSweep EXCEPT !.on = TRUE]
    /\ SweepSend(w, Stamp)
    /\ sweep' = [sweep EXCEPT ![w] = NoSweep]
    /\ expired' = expired \ {w}
    /\ UNCHANGED <<rows, disk, daemonVars, discoveryVars>>

\* handlePollNow's context: the client leaves, or pollSweepTimeout is over.
Expire(w) ==
    /\ w \in Manual \ expired
    /\ sweep[w].on
    /\ expired' = expired \cup {w}
    /\ UNCHANGED <<storeVars, daemonVars, discoveryVars, sweep>>

\* What a sweep under way does.
SweepStep(w) == Look(w) \/ Dispatch(w) \/ Say(w) \/ Fetch(w) \/ Deliver(w) \/ End(w)

PollerInit == /\ sweep = [w \in Sweeper |-> NoSweep]
              /\ expired = {}

PollerTypeOK == /\ sweep \in [Sweeper -> Sweep]
                /\ expired \in SUBSET Manual
=============================================================================
