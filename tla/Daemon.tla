------------------------------- MODULE Daemon -------------------------------
(***************************************************************************)
(* The docker daemon and the registry, as far as the program can tell: the *)
(* upstream digest of each image tag, the local image cache, what the tag  *)
(* resolves to locally, and the container that backs each service.  The    *)
(* code is outside this repository; what is modelled is how                *)
(* internal/docker.Client and internal/registry.Resolver are used.         *)
(***************************************************************************)
EXTENDS Store

CONSTANTS Image,     \* image repositories (with their one tag)
          ImageOf,   \* the image each service runs
          BuiltAt,   \* when the image behind a digest was built
          Network,   \* docker networks
          Configs    \* what a compose file may say about a service

\* Whether the image is pinned by digest, what the tag-pattern label makes of the
\* tag that runs (no label accepts it), the actions that allow-update=false and
\* allow-rollback=false disable, and the networks.
Config == [pinned : BOOLEAN, pattern : {"accepts", "rejects", "invalid"},
           blocked : SUBSET {"updating", "rolling_back"}, nets : SUBSET Network]

ASSUME DaemonAssumption ==
    /\ ImageOf \in [Service -> Image]
    /\ BuiltAt \in [Digest -> Nat \ {0}]
    /\ Configs \subseteq Config

VARIABLES registry,    \* upstream digest of image:tag
          tagged,      \* digest image:tag resolves to in the local cache
          cache,       \* local images: "listed" ones still carry a RepoDigest
          container,   \* the container of each service
          ran,         \* history: digest that ran last, and the other one before it
          subscribed,  \* a /events stream is open
          events,      \* container events on that stream, not yet received
          unheard      \* history: services that stopped or started unnoticed

daemonVars == <<registry, tagged, cache, container, ran, subscribed, events, unheard>>

CacheState == {"absent", "orphan", "listed"}
ContainerState == {"absent", "created", "running", "exited"}

\* nets and aliases: the networks it is attached to, and the container ids among
\* the names it has there.
Container == [status : ContainerState, digest : Digest, id : Nat,
              nets : SUBSET Network, aliases : SUBSET Nat, config : Configs]
Event == [type : {"start", "die", "destroy"}, svc : Service, id : Nat]

\* A container event reaches the subscriber of an open stream, nobody else.
Emit(s, type) ==
    /\ events' = IF subscribed
                 THEN Append(events, [type |-> type, svc |-> s, id |-> container[s].id])
                 ELSE events
    /\ unheard' = IF subscribed THEN unheard ELSE unheard \cup {s}

\* Upstream pushes a digest to the tag.
Publish(i) ==
    /\ \E d \in Digest \ {registry[i]} : registry' = [registry EXCEPT ![i] = d]
    /\ UNCHANGED <<tagged, cache, container, ran, subscribed, events, unheard>>

\* The daemon (or an operator) prunes an image that nothing refers to.
Prune(i) ==
    /\ \E d \in Digest \ {tagged[i]} :
         /\ cache[i][d] # "absent"
         /\ \A s \in Service :
              ImageOf[s] = i /\ container[s].status # "absent" => container[s].digest # d
         /\ cache' = [cache EXCEPT ![i][d] = "absent"]
    /\ UNCHANGED <<registry, tagged, container, ran, subscribed, events, unheard>>

\* ImagePull of image:tag to its end.
PullImage(i) ==
    /\ tagged' = [tagged EXCEPT ![i] = registry[i]]
    /\ cache' = [cache EXCEPT ![i][registry[i]] = "listed"]
    /\ UNCHANGED <<registry, container, ran, subscribed, events, unheard>>

\* ImageTag(ref -> image:tag).  The image the tag leaves may lose its
\* RepoDigest entry; a bare repository name is the tagged image itself.
TagImage(i, ref) ==
    /\ tagged' = [tagged EXCEPT ![i] = IF ref = RepoName THEN @ ELSE ref]
    /\ \/ cache' = cache
       \/ cache' = [cache EXCEPT ![i][tagged[i]] =
                      IF ref \in {RepoName, tagged[i]} THEN @ ELSE "orphan"]
    /\ UNCHANGED <<registry, container, ran, subscribed, events, unheard>>

\* ImageInspect(image@ref) or, failing that, ImageInspect(ref) finds an image.  A
\* repository name is found by the second: the tag of a service is never pruned.
Inspectable(i, ref) == ref = RepoName \/ (ref \in Digest /\ cache[i][ref] # "absent")

\* The Created field of that image.
CreatedOf(i, ref) == BuiltAt[IF ref = RepoName THEN tagged[i] ELSE ref]

StopContainer(s) ==
    /\ container' = [container EXCEPT ![s].status = IF @ = "running" THEN "exited" ELSE @]
    /\ IF container[s].status = "running" THEN Emit(s, "die")
                                          ELSE UNCHANGED <<events, unheard>>
    /\ UNCHANGED <<registry, tagged, cache, ran, subscribed>>

RemoveContainer(s) ==
    /\ container' = [container EXCEPT ![s].status = "absent"]
    /\ Emit(s, "destroy")
    /\ UNCHANGED <<registry, tagged, cache, ran, subscribed>>

\* The digest the image reference of s stands for: a pinned one names its digest,
\* a tag resolves to what it points at now.
Resolved(s) == IF container[s].config.pinned THEN container[s].digest ELSE tagged[ImageOf[s]]

\* ContainerCreate with the configuration of the old container, the networks N and
\* the aliases A.  The daemon adds the new id to the aliases.
NewContainer(s, N, A) ==
    [status |-> "created", digest |-> Resolved(s), id |-> container[s].id + 1, nets |-> N,
     aliases |-> A \cup {container[s].id + 1}, config |-> container[s].config]

CreateContainer(s, N, A) ==
    /\ container' = [container EXCEPT ![s] = NewContainer(s, N, A)]
    /\ UNCHANGED <<registry, tagged, cache, ran, subscribed, events, unheard>>

ConnectNetwork(s, n) ==
    /\ container' = [container EXCEPT ![s].nets = @ \cup {n}]
    /\ UNCHANGED <<registry, tagged, cache, ran, subscribed, events, unheard>>

\* ran[s].last is the digest that ran last, ran[s].before the last one that
\* differs from it.
StartContainer(s) ==
    LET d == container[s].digest
    IN  /\ container' = [container EXCEPT ![s].status = "running"]
        /\ ran' = [ran EXCEPT ![s] = IF d = @.last THEN @
                                     ELSE [last |-> d, before |-> @.last]]
        /\ Emit(s, "start")
        /\ UNCHANGED <<registry, tagged, cache, subscribed>>

\* The subscriber's end of the stream is closed.
CloseStream ==
    /\ subscribed' = FALSE
    /\ events' = <<>>
    /\ unheard' = unheard \cup {events[i].svc : i \in DOMAIN events}
    /\ UNCHANGED <<registry, tagged, cache, container, ran>>

\* A container dies on its own, or an operator stops it.
Crash(s) == container[s].status = "running" /\ StopContainer(s)

\* Its restart policy, or an operator, starts it again.
Revive(s) == container[s].status = "exited" /\ StartContainer(s)

\* The operator edits the compose file and runs `docker compose up`: the container
\* is replaced by one with another configuration, and the daemon reports it all.
Redeploy(s, c) ==
    LET old == container[s]
        d == IF c.pinned THEN old.digest ELSE tagged[ImageOf[s]]
        Ev(type, id) == [type |-> type, svc |-> s, id |-> id]
    IN  /\ c # old.config
        /\ container' = [container EXCEPT ![s] = [status |-> "running", digest |-> d,
                                                  id |-> old.id + 1, nets |-> c.nets,
                                                  aliases |-> {old.id + 1}, config |-> c]]
        /\ events' = IF subscribed
                     THEN events \o (IF old.status = "running" THEN <<Ev("die", old.id)>> ELSE <<>>)
                                 \o (IF old.status # "absent" THEN <<Ev("destroy", old.id)>> ELSE <<>>)
                                 \o <<Ev("start", old.id + 1)>>
                     ELSE events
        /\ unheard' = IF subscribed THEN unheard ELSE unheard \cup {s}
        /\ ran' = [ran EXCEPT ![s] = IF d = @.last THEN @ ELSE [last |-> d, before |-> @.last]]
        /\ UNCHANGED <<registry, tagged, cache, subscribed>>

\* Every service runs the image its tag points at; upstream may have moved on.
DaemonInit ==
    /\ registry \in [Image -> Digest]
    /\ tagged \in [Image -> Digest]
    /\ cache = [i \in Image |-> [d \in Digest |-> IF d = tagged[i] THEN "listed" ELSE "absent"]]
    /\ \E config \in [Service -> Configs] :
         container = [s \in Service |-> [status |-> "running",
                                         digest |-> tagged[ImageOf[s]], id |-> 1,
                                         nets |-> config[s].nets, aliases |-> {1},
                                         config |-> config[s]]]
    /\ ran = [s \in Service |-> [last |-> tagged[ImageOf[s]], before |-> NoDigest]]
    /\ subscribed = FALSE
    /\ events = <<>>
    /\ unheard = {}

DaemonTypeOK ==
    /\ registry \in [Image -> Digest]
    /\ tagged \in [Image -> Digest]
    /\ cache \in [Image -> [Digest -> CacheState]]
    /\ container \in [Service -> Container]
    /\ ran \in [Service -> [last : Digest, before : Digest \cup {NoDigest}]]
    /\ subscribed \in BOOLEAN
    /\ events \in Seq(Event)
    /\ unheard \in SUBSET Service
=============================================================================
