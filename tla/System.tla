------------------------------- MODULE System -------------------------------
(***************************************************************************)
(* The whole process: the request goroutines of the orchestrator, the      *)
(* docker-events goroutine, the sweeps of the poller and the consumer of   *)
(* the state-update channel, over one docker daemon whose containers also  *)
(* die, come back and are redeployed without the program.                  *)
(***************************************************************************)
EXTENDS Orchestrator, Poller

CONSTANTS MaxOutside,    \* bound on what the world outside does
          MaxTroubles,   \* bound on that, faults, restarts and clients that leave
          Documents      \* the rows an earlier process may have left on disk

ASSUME SystemAssumption ==
    /\ MaxOutside \in Nat
    /\ MaxTroubles \in Nat
    /\ Documents \subseteq Row
    /\ \A row \in Documents : row.known \/ row = NoRow
    /\ \A row \in Documents : row.containerID <= 1   \* no container still to come

VARIABLES outside,      \* history: how often the world outside did something
          misled,       \* history: requests that read an incomplete or outdated row
          redeployed    \* history: services an operator redeployed

systemVars == <<vars, discoveryVars, pollerVars, outside, misled, redeployed>>

\* Discovery and the channel have nothing left to say about s, and discovery
\* has missed nothing.
UpToDate(s) == CaughtUp(s) /\ ~Pending(s) /\ s \notin unheard

\* Everything that disturbs the program, within its bound.
Bounded ==
    LET left == {r \in Request : cancelled'[r]}
    IN  Len(faults') + outside' + restarts' + Cardinality(left) <= MaxTroubles

\* History: r reads a row that is outdated or has no digest.
Watch(r) ==
    misled' = IF pc[r] = "snapshot" /\ (~UpToDate(svc(r)) \/ rows[svc(r)].current = NoDigest)
              THEN misled \cup {r} ELSE misled

\* What the handler of a request does.
Handler(r) ==
    /\ RequestStep(r)
    /\ Watch(r)
    /\ UNCHANGED <<discoveryVars, pollerVars, outside, redeployed>>

\* A client sends a request, or goes away.
Client(r) ==
    /\ Arrive(r) \/ ClientGone(r)
    /\ UNCHANGED <<discoveryVars, pollerVars, outside, misled, redeployed>>
    /\ Bounded

Applied == Updater /\ UNCHANGED <<discoveryVars, pollerVars, outside, misled, redeployed>>

Discover ==
    /\ DiscoveryStep
    /\ UNCHANGED <<recreateVars, orchVars, pollerVars, outside, misled, redeployed>>
    /\ Bounded

\* The cron schedule starts a sweep.
CronTick(w) ==
    /\ w \notin Manual
    /\ Begin(w)
    /\ UNCHANGED <<recreateVars, orchVars, outside, misled, redeployed>>

\* A poll-now request does.
PollNow(w) ==
    /\ w \in Manual
    /\ outside < MaxOutside
    /\ outside' = outside + 1
    /\ Begin(w)
    /\ UNCHANGED <<recreateVars, orchVars, misled, redeployed>>
    /\ Bounded

Poll(w) ==
    /\ SweepStep(w)
    /\ UNCHANGED <<recreateVars, orchVars, outside, misled, redeployed>>
    /\ Bounded

\* The poll-now client leaves, or its 30 seconds are over.
PollExpires(w) == Expire(w) /\ UNCHANGED <<recreateVars, orchVars, outside, misled, redeployed>>

\* Upstream pushes, images are pruned, containers stop and start and are
\* redeployed without the orchestrator.
World ==
    /\ outside < MaxOutside
    /\ outside' = outside + 1
    /\ \/ Outside /\ UNCHANGED redeployed
       \/ /\ \E s \in Service :
               \/ (Crash(s) \/ Revive(s)) /\ UNCHANGED redeployed
               \/ /\ held[s] = NoOne
                  /\ \E c \in Configs : Redeploy(s, c)
                  /\ redeployed' = redeployed \cup {s}
          /\ UNCHANGED <<storeVars, recreateVars, orchVars>>
    /\ UNCHANGED <<discoveryVars, pollerVars, misled>>
    /\ Bounded

\* The process is killed and comes back; discovery begins with its boot list, and
\* no pattern is compiled yet.
Reboot ==
    /\ Restart
    /\ phase' = "list"
    /\ todo' = {}
    /\ outbox' = <<>>
    /\ patterns' = {}
    /\ sweep' = [w \in Sweeper |-> NoSweep]
    /\ expired' = {}
    /\ UNCHANGED <<faults, outside, misled, redeployed>>
    /\ Bounded

\* NewStore reads what an earlier process left; a first boot finds no row.
SystemInit ==
    /\ NoRequestYet
    /\ rows \in [Service -> Documents]
    /\ disk = rows
    /\ orphaned = {s \in Service : rows[s].inFlight # Idle}
    /\ DiscoveryInit
    /\ PollerInit
    /\ outside = 0
    /\ misled = {}
    /\ redeployed = {}

SystemNext ==
    \/ \E r \in Request : Handler(r) \/ Client(r)
    \/ Applied
    \/ Discover
    \/ \E w \in Sweeper : CronTick(w) \/ PollNow(w) \/ Poll(w) \/ PollExpires(w)
    \/ World
    \/ Reboot

SystemSpec == SystemInit /\ [][SystemNext]_systemVars

\* Go runs every goroutine, and a full channel serves the goroutines that wait to
\* send in the order they came, so that the sweeps, which never end, do not pass
\* over a request or discovery for ever.  Clients, upstream, operators and crashes
\* owe nothing, and no property needs a poll-now sweep to go on.
SystemFairness ==
    /\ WF_systemVars(Applied)
    /\ SF_systemVars(Discover)
    /\ \A r \in Request : SF_systemVars(Handler(r))
    /\ \A w \in Sweeper \ Manual : WF_systemVars(CronTick(w) \/ Poll(w))

SystemFairSpec == SystemSpec /\ SystemFairness

-----------------------------------------------------------------------------
(* Properties.                                                             *)

SystemTypeOK ==
    /\ TypeOK
    /\ DiscoveryTypeOK
    /\ PollerTypeOK
    /\ outside \in Nat
    /\ misled \in SUBSET Request
    /\ redeployed \in SUBSET Service

\* Two writers, one truth: whatever order the orchestrator's digest swaps and
\* discovery's upserts of old and new containers reach the store in, a running
\* container has a row that shows, once it is up to date, that container's id,
\* digest (none when the daemon has none to show), pin and safety labels, also
\* while an action is still working on the service.  A redeploy, a client that
\* goes away and a restart do not break this: discovery repairs what the messages
\* they lost leave behind.
RowIsContainer ==
    \A s \in Service :
       (UpToDate(s) /\ Running(s)) =>
          /\ rows[s].known
          /\ rows[s].containerID = container[s].id
          /\ rows[s].current \in Digest /\ Steerable(s)
               => rows[s].current = container[s].digest
          /\ rows[s].pinned = container[s].config.pinned
          /\ rows[s].blocked = container[s].config.blocked
          /\ ~rows[s].stopped

\* A container that died or was removed, by its own fault, an operator's or a
\* recreate's, shows as stopped once its row is up to date.
StoppedIsShown ==
    \A s \in Service :
       (UpToDate(s) /\ restarts = 0 /\ container[s].status \in {"exited", "absent"})
          => rows[s].stopped

\* No document has an image name where a digest should be.
NamesDigests == \A row \in Documents : RepoName \notin {row.current, row.previous}

\* The rollback target survives the die, destroy and start events of the very
\* recreate that records it and those of any later outage: with nothing about s on
\* its way it is the digest s ran before the one it ran last or, as long as s has
\* run one only, what the document said.  (A redeploy is recorded by nobody, and
\* whoever reads an outdated row records what that row says.)
PreviousSurvives ==
    \A s \in Service \ redeployed :
       (Settled(s) /\ Undisturbed(s) /\ Steerable(s) /\ NamesDigests
          /\ \A r \in misled : svc(r) # s)
          => \/ rows[s].previous = ran[s].before
             \/ /\ ran[s].before = NoDigest
                /\ \E row \in Documents : rows[s].previous = row.previous

\* A rollback that read an up-to-date row moves the tag to an image built strictly
\* before the one the service ran last, whether that one still runs, died or is
\* gone, and whatever redeploys came before.
RollbackIsDowngrade ==
    \A r \in Request \ misled :
       (pc[r] = "retag" /\ ~MayFault /\ ~cancelled[r] /\ restarts = 0
          /\ snap[r].currentAt > 0 /\ target[r] \in Digest)
          => BuiltAt[target[r]] < BuiltAt[ran[svc(r)].last]

\* The compiled patterns follow the labels: for a running container that discovery
\* has caught up with, a tag is rejected exactly when the pattern of that container
\* rejects it, whatever patterns, valid or not, the service had before, and
\* through broken streams, recreates and restarts.
CacheFollowsLabels ==
    \A s \in Service \ unheard :
       (CaughtUp(s) /\ Running(s)) =>
          (s \in patterns <=> container[s].config.pattern = "rejects")

-----------------------------------------------------------------------------
(* Liveness.                                                               *)

\* A running container discovery has not missed, whose tag the sweeps ask about.
Heard(s) == Running(s) /\ s \notin unheard
Polled(s) == Heard(s) /\ ~container[s].config.pinned
                      /\ container[s].config.pattern # "rejects"

\* The sweeps converge: overlapping sweeps, results that arrive after those of
\* later fetches, force-pulls and updates in between notwithstanding, the row of a
\* polled service ends up with the upstream digest, and with the update flag set
\* exactly when that is not the digest it runs.
PollConverges ==
    \A s \in Service :
       <>[]((Polled(s) /\ rows[s].current # NoDigest) =>
               /\ rows[s].available = registry[ImageOf[s]]
               /\ rows[s].updateAvailable = (rows[s].current # rows[s].available))

\* A failed pull's error does not stick: a later sweep that reaches the registry
\* takes it away, also when no further action is ever started.
PullErrorClears ==
    \A s \in Service :
       []<>(rows[s].error # "pull" \/ ~Polled(s))

\* The notes converge, whatever notes the service had under an earlier compose
\* file: a pinned service ends up with the note that says so, one whose tag its
\* pattern rejects with the mismatch note, and a polled one never keeps a
\* mismatch or a registry error.
NotesConverge ==
    \A s \in Service :
       /\ <>[]((Heard(s) /\ container[s].config.pinned) => rows[s].notes = "pinned")
       /\ <>[]((Heard(s) /\ ~container[s].config.pinned /\ ~Polled(s))
                 => rows[s].notes = "mismatch")
       /\ []<>(Polled(s) => rows[s].notes \notin {"mismatch", "registry"})

-----------------------------------------------------------------------------
(* What the documentation says and the code does not do.                   *)

\* discovery.go: the boot list is run again on a reconnect "to catch any state
\* changes that occurred while disconnected".
ReconnectCatchesUp ==
    \A s \in Service :
       (Settled(s) /\ CaughtUp(s) /\ faults = <<"stream">>
          /\ container[s].status = "exited" /\ rows[s].known) => rows[s].stopped
=============================================================================
