# docker-update: a TLA+ model of its core

`docker-update` is a small Go service that watches the containers of a compose
project, polls the registry for newer images, and updates, rolls back or
re-pulls a service when an operator clicks. It keeps one JSON document of rows,
one per compose service, that the UI shows.

This directory models the part of it where things can go wrong in an order
nobody wrote a test for: three actions running as HTTP handlers over a docker
daemon, a docker-events goroutine, registry sweeps that overlap, one channel in
front of one document, the verify loop, the per-service mutexes, and the
self-update that replaces the process while it runs.

Check a model with `tlc -workers 2 -config X.cfg M`, a proof with
`tlapm MProofs.tla`. `PROJECT.json` lists runs, mutants, hazards, theorems and,
under `map`, the source lines each definition stands for.

## 1. Inventory

| component | state | operations | talks to |
|---|---|---|---|
| store (`internal/state`) | the document in memory and on disk | `NewStore`, `Get`, `Update` (closure + `persist` under one lock) | consumer writes; everybody reads |
| update channel (`internal/poll/channel.go`) | a Go channel of 64 closures | send, `runUpdater` | producers: discovery, orchestrator, poller; one consumer |
| orchestrator (`internal/actions/orchestrator.go`) | none of its own between calls; each call has the row it read | `Update`, `Rollback`, `ForcePull` | daemon, registry, channel, mutexes |
| service mutexes (`internal/actions/mutex.go`) | map of mutexes, counter of actions | `lockService`, its unlock closure | orchestrator; self-update reads the counter |
| recreate (`internal/recreate`) | none | `Service` | daemon |
| verify (`internal/actions/verify.go`) | samples so far, deadline | `verifyAfterRecreate` | daemon |
| discovery (`internal/docker/discovery.go`) | event stream, backoff | boot list, events, reconnect | daemon; sends to the channel; reads the store; fills the pattern cache |
| pattern cache (`internal/poll/patterns.go`) | compiled tag pattern per service | `Set`, `Delete`, `Match` | discovery writes, sweeps read |
| poller (`internal/poll/poller.go`, `handlers_poll.go`) | cron schedule; each sweep has its list and its fetches | `sweep`, `Sweep` (poll-now) | registry; reads the store; sends to the channel |
| self-update (`internal/selfupdate`, `handlers_self.go`) | `inFlight` guard | `Spawn`; in a container of its own, `Orchestrate` | daemon, action counter |
| compose reader | stat of the compose file at boot | `CheckUnchanged` | orchestrator |
| HTTP handlers, UI, TLS, auth, registry resolver, SDK facade | none that matters here | | |

What is hard in it:

* **Two writers of one row.** A recreate makes the daemon emit die, destroy and
  start events; discovery turns them into messages that write the same row as
  the orchestrator's digest swap, in whatever order the channel gets them.
* **Reads that do not wait.** A request reads the row from the store while
  messages about it are still queued; discovery looks up whose container died in
  a store that may not have heard of the container yet.
* **Contexts that end.** Every action runs with the context of its HTTP request.
  When the client leaves, the next daemon call fails (perhaps after it took
  effect) and the messages it still has to send may be dropped.
* **Failure in the middle.** recreate has a step after which the service has no
  container, and a loop over networks that may stop half-way; a pull can move the
  tag and then be called failed; `persist` can fail after memory has changed.
* **Late answers.** Nothing keeps two sweeps, a force-pull and an update of one
  service apart: a fetch result may be applied after the result of a later fetch,
  and a note decided on a row that has changed since.
* **A map that is shared.** `Get` returns the live map of rows.
* **Death.** The process may be killed between any two steps; its own
  self-update kills it.

What makes it correct: one action per service at a time; a spinner
(`action_in_flight`) that is on exactly while an action runs; `current_digest`
is what runs; `previous_digest` is the way back; a rollback goes to an older
image; a recreated container is attached where its predecessor was; the sweeps
end up with the upstream digest and the right note; a verdict of the verify loop
means what it says; one self-update helper at a time; everybody is answered.

## 2. Modules

```
Store  <-  Daemon  <-  Recreate  <-  Orchestrator  ---------+
  ^           ^                                             +-- System
  |           +------  Discovery  <-  Poller  --------------+
  +-- SharedMap
TryLock  <-(refined by)-  ServiceLock          Verify          SelfUpdate
```

* **Store**: rows, disk and channel. A message is a record; `Apply` is its
  closure. `Update` is the closure and `Persist` in one step (one write lock).
  `Consume` is one turn of `runUpdater`, `Reload` is `NewStore` after a death. A
  row has the fields some decision reads: digests, the update flag, spinner,
  error, container id, stopped, pinned, the actions its safety labels block, the
  note.
* **Daemon** (external): registry digest of each tag, local images (`listed` has
  a RepoDigest, `orphan` only its id, `absent`), what the tag resolves to, one
  container per service with a number for its id, its networks, the container ids
  among its aliases and the compose configuration it was created from, the event
  stream. `Redeploy` is an operator's `docker compose up` with another
  configuration. `ran` and `unheard` are history variables for the properties.
* **Recreate**: the steps of `recreate.Service`. A call succeeds, fails, or, only
  when its context is done, fails after it took effect. `TranslateNetworks` and
  `ScrubEndpoint` are the decisions of `translate.go`; `ConnectNetworks` is one
  turn of the loop over the extra networks.
* **Orchestrator**: a request walks through `pc` in the order of the code;
  `AnsweredTargets`, `FaultyTargets`, `Acceptable` are the choice of a rollback
  target. `held` is the abstract TryLock that ServiceLock is shown to implement.
  `ClientGone` ends a context, `Restart` kills the process.
* **Discovery**: the goroutine, with an `outbox` of one message because its send
  blocks without looking at a context, and with the set `patterns` of services
  whose compiled pattern rejects the tag they run.
* **Poller**: each sweep is a goroutine with what it has still to do. `Look` is one
  turn of `eligibleContainers` on the live rows, `Dispatch` one turn of the loop
  that starts fetches (at most `PollConcurrency` under way), `Fetch` and `Deliver`
  one fetch and its send. The cron's sweeps have a context that never ends; a
  poll-now sweep's ends when its client leaves or its 30 seconds are over
  (`Expire`).
* **System**: Orchestrator, Discovery and Poller over one daemon and one channel,
  starting on any document an earlier process may have left (`Documents`; a row it
  does not know is empty, and none names a container still to come), in the
  instances a first boot. A spinner it finds on is an orphan's. `World` is everything
  outside. `misled` (requests that read an incomplete or outdated row) and
  `redeployed` are history variables for the properties.
* **SharedMap**: a reader that walks over the map `Get` gave it, against the
  consumer that writes to it.
* **ServiceLock / TryLock**: `lockService` one atomic step at a time, and what it
  promises: a call asks for one service, and is let in or refused by the holder of
  that service alone.
* **Verify**: the loop against a container that changes between samples. `Pass`
  is the wait for the ticker (`Tick`; it may skip up to `MaxLag - 1` ticks) and one
  `Turn`, the deadline or a sample; at the tick of the deadline either may be.
  `seen` (crashes before the last good sample) and `skipped` (ticks lost) are history
  variables for the properties.
* **SelfUpdate**: clicks in the parent and the helpers they start. Container ids
  of the parent grow, so a helper that looked up an older one finds it gone.
* **MCOrchestrator, MCSystem**: one service on an image of its own, digests
  numbered in the order they were built, requests interchangeable.
* **OrchestratorProofs, SpinnerProofs, ContainerProofs** (each extends the one
  before), **SystemProofs, RowProofs** (on top of these, for System),
  **ServiceLockProofs, VerifyProofs, SelfUpdateProofs**: theorems.

Definitions named as mutants in a comment are plausible bugs; no specification
uses them. `PROJECT.json` says which property each of them breaks.

### Simplifications to know about

* `VerifyNew` is linearised at the loop's last sample; module Verify has the loop.
* `DrainPullStream` offers the registry's digest or none; a digest of another
  form (an image id) ends in the failing cross-check like any other mismatch.
* An operator's redeploy does not fall into an action: `World` takes a `Redeploy`
  only of a service nobody holds. A `docker compose up` in the middle of a recreate
  fights with it for the container's name, and no code handles that.
* The gates on the name and on the service's own container are static: a request
  they refuse never arrives in the model. `LookupContainer` and `CheckSafetyLabel`
  read the row as it is when the request enters.
* Build times have one resolution; the code compares seconds in the fallback and
  nanoseconds in the gate.
* One tag per image, and a redeploy keeps it. What a tag pattern makes of the tag
  is in the configuration (`accepts`, `rejects`, `invalid`); regular expressions
  are not interpreted.
* A row has one note at a time. The errors of the resolver differ in wording only
  and are one note, `registry`.
* The iteration of Go maps is any order (`Look`, `ConnectNetworks`, the first
  network of `TranslateNetworks`).
* Stamps of the wall clock (`last_poll_at` and its like) are left out; the message
  that sets one takes its place in the channel all the same (`Stamp`).
* The cron starts a sweep although an earlier one still runs. Each member of
  `Sweeper` sweeps one at a time, so its size bounds the overlap; in `labels` one of
  the cron's sweeps overlaps with poll-now's.
* The context of `main.go` is `context.Background()`, never cancelled, so the drain
  on shutdown is not modelled; `Restart` may fall after any number of `Consume`
  steps.
* The health poll of the helper succeeds only on a live parent, and may fail on a
  live one (with TLS configured port 8080 answers with a redirect).

## 3. What the runs check

Passing runs:

| run | instance | shows |
|---|---|---|
| `orchestrator` | 2 requests, 1 service on 2 networks, 2 digests, channel of 1, failing daemon reads, failing disk, a client that leaves or a restart; 1.07 M states | `SpinnerOwned`, `SpinnerTruthful`, `RecordedIsRunning`, `PreviousIsWayBack`, `NetworksKept`, `TypeOK` |
| `polling` | 1 request, discovery and cron sweeps without end, from a first boot; 0.16 M states | `RequestsFinish`, `SpinnerConverges`, `PollConverges`, `PullErrorClears`, `SystemTypeOK` |
| `labels` | cron sweeps and poll-now, a service under any of three configurations (plain; a pattern that rejects; pinned with an invalid pattern and updates disabled), and any two of: a redeploy, crash, revival, push, prune or poll-now, a failing daemon or registry; 0.40 M states | `CacheFollowsLabels`, `RowIsContainer`, `PollConverges`, `NotesConverge` |
| `system` | 2 requests with discovery from a first boot; 0.36 M states | `PreviousSurvives`, `RollbackIsDowngrade`, `RowIsContainer` |
| `system_faults` | 1 request with discovery from a first boot, and any two of: a daemon fault, an outside event, a client that leaves, a restart; 0.52 M states | `RowIsContainer`, `StoppedIsShown`, `SpinnerOwned`, `SpinnerTruthful`, `PreviousSurvives` |
| `service_lock` | 3 goroutines, 2 services | `MutualExclusion`, `CounterExact`, `ImplementsTryLock`, `AnsweredAtOnce`, `LockTypeOK` |
| `verify` | window 3, health window 4, slack 3, lag up to 4, 1 crash | `CrashNeverPasses`, `WatchedForWindow`, `DeadlineNeedsLag`, `VerifyEnds`, `VerifyTypeOK` |
| `self_update` | 2 clicks, 1 action, 2 polls, 3 boots, clients may leave | `OneHelper`, `GuardOwned`, `GuardReleased`, `HelperEnds`, `SelfTypeOK` |

Why the bounds are enough. One service: actions on different services meet only
in the channel and in a shared image tag; services that share a tag do disturb
each other (a retag or pull for one changes what a recreate of the other runs)
and the recorded digest is not claimed for them (`Unshared`). The safety theorems
of section 4 hold for any number of services. Two digests let an image be
newer or older than another, current or previous, present or pruned. Two
requests give a refused one while another works, and one that follows another
(an update and the rollback that reads what it left). A channel of one blocks
every producer and orders every pair of messages. One fault, one outside event,
one leaving client and one restart are enough for each to fall between any two
steps. `MaxTroubles` bounds how many of them one behaviour holds: in System it is
in the guards (`Bounded`; any two in `system_faults` and in `labels`), in
`orchestrator` the constraint `FewTroubles` allows one. Two networks make one the
create takes and one that is connected. Three configurations with two redeploys
give every transition between what polls, what is rejected and what is pinned. One
service makes `PollConcurrency` no bound; a full pool only delays a fetch. The
liveness runs use no symmetry. `Verify` needs a window above one, and a lag greater than the
slack so that the deadline can strike on both paths, with and without a crash that
no sample saw. `CHECK_DEADLOCK FALSE`
stands where a system whose requests are all answered may stop; ServiceLock
never stops and is checked for deadlock.

Runs that are expected to fail state what a document says and the code does not
do:

| run | the claim | what happens |
|---|---|---|
| `spinner_stuck` | `orchestrator.go:363`: the spinner "always converges to idle" | the client leaves, the clearing message is dropped, the spinner stays on until the next action |
| `old_gone` | `recreate.go:50`: after a failed create `previous_digest` "still lets the operator Rollback to the OLD image" | the slot is written only after a successful recreate |
| `reconnect` | `discovery.go:248`: the boot list catches "any state changes that occurred while disconnected" | it lists running containers only; one that stopped keeps its row |
| `shared_map` | `store.go:113`: `Get` sees the previous or the next coherent state, "never a half-mutated intermediate" | the map is shared: a reader can take one row from before a write and another from after it, and the walk is a data race with the write |

### Observations without a run

* `API.md:185` says "A second rollback flips them back"; the strict-downgrade gate
  (`orchestrator.go:699`) refuses the newer image, so it does not.
* `README.md:233` and `verify.go:20-24` say that a service with the label gets 60
  seconds to become healthy; a container that is still starting is called stable
  after the default window of 15 (`verify.go:323`). With the defaults the soft
  success of the deadline needs more than 48 skipped ticks (`DeadlineNeedsLag`).
* `verify.go:229` calls the soft success one of a container that "has been Running
  throughout". The deadline takes no sample: a crash after the last one passes.
  `CrashNeverPasses` states that as its exception.
* `poller.go:510` gives the fetch path the responsibility for leaving the pinned
  and invalid-pattern notes; no message clears them. A pinned note decided on an old
  row can also land after the upsert that took the pin away. `NotesConverge`
  therefore says nothing against a leftover pinned or invalid note.
* No gate of the server looks at `pinned`. Update on a pinned service pulls the
  tag, recreates the pinned digest and records the pulled one as current until
  the next upsert. Two services on one tag do the same to each other: between the
  pull of one and its create, a retag for the other moves the tag.
* A connect that fails, followed by a clean-up that fails, leaves a container
  without one of its networks, and the next recreate copies that (`leftover` in
  `NetworksKept`).

### Conditions in the properties

`RecordedIsRunning`, `PreviousIsWayBack` and the digest in `RowIsContainer` are
claimed for services that are `Steerable`: not pinned, and alone on their image tag.
Without either condition they are false (see the observation on `pinned`); the
proofs showed that both are needed and that nothing else is. The other fields of
`RowIsContainer` need no condition.

`PreviousIsWayBack`, `PreviousSurvives` and `RollbackIsDowngrade` exclude requests
that read a row with messages still pending (`stale`, `misled`): such a request
works from an outdated digest, and the code has no protection against it but the
time it takes to click. `PreviousSurvives` leaves out services an operator
redeployed (nobody records what ran before), those a client abandoned in the middle
of an action and a restarted process (the swap may be lost), and documents with an
image name where a digest should be (`NamesDigests`); as long as a service has run
one digest only it allows the previous digest of the document. `RollbackIsDowngrade`
ends at the first restart, which can lose the upsert of a container that ends before
the next boot list, and needs a build time in the row: without one the gate lets
every target pass. `SpinnerOwned` names its two exceptions, a client that left and a
restart on a document with the spinner on. `RowIsContainer`, `StoppedIsShown` and
the poller's properties leave out a service discovery has missed something of
(`unheard`): its container changed while no stream was open, its events were lost
with a broken stream, a list or an inspect failed, or a die or destroy event matched
no row. It ends when discovery next inspects the running container. The run
`reconnect` is about the first of these. `PollConverges` asks for a
row with a digest: one whose image had no RepoDigest when it was listed has none to
compare. `OneHelper` holds until a helper runs whose start Spawn believes failed,
because its client left during the call (`Slipped`), or the parent crashes;
`GuardReleased` excepts a guard behind a helper that Spawn announced and that failed.
These exceptions are real and the model has them. The hazards of `PROJECT.json` that
only such exceptions touch carry a note and no property.

### Fairness

In System: weak fairness of the channel's consumer and of the cron's sweep, and
strong fairness of discovery and of each request goroutine. A send to a full
channel is enabled and disabled as the channel empties and fills, and the sweeps
never end, so weak fairness would let them pass over a request for ever; Go
serves the goroutines waiting on a channel in the order they came, which is what
strong fairness says here. Nothing is assumed of a poll-now sweep. In
Orchestrator, where no producer runs for ever, weak fairness of each request
goroutine and of the consumer is enough.

In the other modules: weak fairness of each goroutine inside `lockService`, a pass of the verify loop (its ticker fires and the
daemon answers or fails), each click served by a live parent, and each helper.
The Go scheduler runs every runnable goroutine, and the daemon calls have either a
context or an answer. Nothing is assumed of clients, upstream, crashes, restart
policies or new requests.

## 4. What is proved

TLAPS checks these for every value of the constants that satisfies the ASSUMEs
(`StoreAssumption`, `DaemonAssumption`, `OrchestratorAssumption`,
`DiscoveryAssumption`, `PollerAssumption`, `SystemAssumption`, `LockAssumption`,
`VerifyAssumption`, `SelfUpdateAssumption`: types of the parameters, distinct
special values, a channel that holds at least one message, finitely many
goroutines, documents of well-formed rows). The bounds on faults, restarts and
outside events are constants like the others: the theorems hold for any number of
them.

* **ServiceLockProofs**: `Exclusion`, `Counter`, `LockTypes`, `Refinement`. The
  invariant `LockInv` says that a goroutine past the lookup has the mutex of the
  map (`LookedUp`; the second look under the write lock is what preserves it),
  that holders own it, that a mutex serves one service and only mapped ones are
  owned. The counter is a cardinality, so each Add is a lemma about adding or
  removing one element. `Refinement` maps the holder of a service to the owner
  of its mapped mutex and the service asked for to `wants`; `AnswerHeld` ties the
  answers to the program counters.
* **VerifyProofs**: `VerifyTypes`, `Watched`, `Lenient`, `NoCrashPasses`. `CrashShows`
  (a crash leaves the container down or its restart count raised) and `NoneSeen` (no
  good sample after a crash) are what the verdicts on a crash need, `Counting` (the
  clock is the good samples and the skipped ticks) what those on the deadline need.
* **SelfUpdateProofs**: `SelfTypes`, `Guard`, `SingleHelper`. While the old parent
  lives, the helper that is about to replace it keeps the guard up and every click
  out of Spawn (`HelperOK`); that the guard has one owner inside Spawn (`SpawnOK`) and
  that a helper starts only at its end (`LifeOK`) is what preserves it.
* **OrchestratorProofs**: `Types`, by one lemma per group of actions. The lemma
  about `Apply` covers all kinds of messages, discovery's and the poller's too.
* **SpinnerProofs**: `Owned`, `Truthful`, with cancelled clients, failing disks and
  any number of restarts. Neither is inductive: a start message that is
  still queued will set the spinner when nobody may be left to clear it. The
  invariant says that such a message has an owner or a clearing message behind
  it (`StartsOwned`), and that the last word about the spinner of a service with a
  started request, in the channel or else in the row, is that request's
  (`StartedSpeaksLast`); both rest on the mutex (`MutexHeld`).
* **ContainerProofs**: `Networks`, `Recorded`, `WaysBack`.
  `NetworkInv` says at each step of a recreate which networks are still in `extras`
  and that the container has the others; it needs to know that one request at a
  time recreates a service, and only in its recreate (`StepsInRecreate`).
  `RecordedIsRunning` is not inductive because the digest travels: it is the tag's,
  then the container's, then in the swap, then in the row. `TargetInv` follows it to
  the container (until the create the tag points at the target, from then on the
  container is made of it; this is where `Steerable` is needed), and `RecordInv` says
  that the last word about the current digest, in the channel or else in the row, is
  the digest that runs, but for the window between the start of the new container
  and its swap. `PreviousInv` adds the last word about the previous digest and what
  a request read of both before it chose its target (`SnapWords`).
* **SystemProofs**: `SystemTypes`, `SystemOwned`, `SystemTruthful`, `SystemNetworks`,
  `CacheFollows`. The first four carry the orchestrator's results over to
  the whole process: a step is one of the orchestrator's own (`SystemSteps`), or it
  says nothing about the spinner and touches only containers nobody works on
  (`OtherSteps`). `CacheFollows` needs to know what discovery has still to hear:
  the stream and the phase agree (`StreamInv`), the last event about a service
  tells the truth about it (`EventInv`), a listed container that ended was missed
  (`WalkInv`). `Told` is what any step outside discovery can do to a service as
  discovery sees it, `Looked` what a step of discovery does.
* **RowProofs**: `RowsShown`, `StopsShown`. `RowIsContainer` says nothing about a
  row with messages pending, so the invariant says what the row will show
  once they are applied (`RowWord`): an upsert in the channel, or else the row,
  describes the container, and no message behind it is discovery's or a swap to
  another digest. A swap is never to another digest because of `TargetInv`;
  an upsert of an earlier container is never the last one because of `EventInv`.
  `StopWord` is the same for the end of a container, and needs that a row that a stop
  message is about is there when the message is applied (`StopsKnown`).
* **RowProofs**, continued: `Downgrades`, `PreviousKept`. Both are about the image
  that ran last, also when its container has ended or is gone, where
  `RowIsContainer` is silent.
  `RanInv` ties `ran` to the container and to the steps of a recreate. `ImageInv`
  says that the row tells the build time of the image that ran last, or none, or is
  going to: in a message, in an event still to be heard, or in a container still to be
  listed (`TellInv`). A start event may be read after its container is gone, and then
  brings nothing; that this is made up for needs that every id in the row, the
  channel, the events and the list belongs to a container that was started (`IdInv`,
  which is why no document may name a container still to come), and that the end of
  such a container is to be heard as well (`EndInv`). `DownInv` carries what a
  rollback read to its retag; nobody else can start a container meanwhile because of
  `MutexHeld` and because a redeploy does not fall into an action.
  `PreviousSurvives` is `PreviousIsWayBack` with a second writer of the row. `BackInv`
  says that the last word about the previous digest leads back outside the window
  between start and swap (`LeadsBack`), what each request read of it until it
  swaps (`ReadOK`), and that nothing under way names an image where a digest should
  be (`Named`). `MisledInv` keeps a request that was misled from being
  confused with one that has not arrived.

Every invariant was checked with TLC on the instances of section 3 before it was
proved.

Model-checked only:

* liveness (`RequestsFinish`, `SpinnerConverges`, `PollConverges`,
  `PullErrorClears`, `NotesConverge`, `AnsweredAtOnce`, `VerifyEnds`,
  `GuardReleased`, `HelperEnds`), which the provers do not do.

Every invariant that a passing run checks is also proved.

## 5. Not modelled

* The copies of `translate.go` that decide nothing, its rules for static addresses
  and image labels.
* The registry resolver's and the SDK facade's I/O (the Daemon module and
  `Manifest` are their answers), including the digests of multi-platform images.
* HTTP plumbing, status codes, TLS, authentication, the embedded UI and the UI
  itself: no server state.
* A corrupt document at boot (the process refuses to start).
* Services that share an image tag are allowed by the modules and not by the
  instances: a retag or pull for one changes what a recreate of the other runs, and
  no document claims otherwise.

## 6. Plan

1. **Endpoint after a failed helper**: `spawn.go:199-202` says that the guard is
   reset "so a transient daemon error doesn't permanently poison" the endpoint;
   a failed helper leaves it up.
2. **Shared tags**: two services on one image, and what can still be said of them.
3. **Drain of the pull stream** as a pure operator against a reference definition.
