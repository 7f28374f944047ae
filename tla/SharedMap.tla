------------------------------ MODULE SharedMap ------------------------------
(***************************************************************************)
(* Store.Get copies the document but not its Containers map: what a reader *)
(* gets is the live map, and it walks over it after the read lock is gone, *)
(* while the consumer of the channel writes to the same map.  Such readers *)
(* are GET /api/state, which marshals the document, the poller's sweeps    *)
(* and discovery's look-up by container id.                                *)
(***************************************************************************)
EXTENDS Store, TLC

VARIABLES seen,      \* the rows the reader has copied so far
          walking,   \* the services whose rows it has still to copy
          inPlace,   \* history: the documents in place since it called Get
          alive      \* the Go runtime has not stopped the process

sharedVars == <<storeVars, seen, walking, inPlace, alive>>

Blank == [known |-> TRUE, current |-> NoDigest, currentAt |-> 0, previous |-> NoDigest,
          available |-> NoDigest, updateAvailable |-> FALSE, inFlight |-> Idle,
          error |-> NoError, containerID |-> 1, stopped |-> FALSE, pinned |-> FALSE,
          blocked |-> {}, notes |-> NoNote]

\* Some producer sends a message: a container stops, an action starts.
Produce ==
    /\ alive
    /\ \E s \in Service :
         \/ Post([kind |-> "stopped", svc |-> s])
         \/ Post([kind |-> "start", svc |-> s, op |-> "updating"])
    /\ UNCHANGED <<rows, disk, seen, walking, inPlace, alive>>

\* The consumer writes the map.  A write while somebody walks over the map is a
\* data race: the runtime may notice it, and then it ends the process.
Write ==
    /\ alive
    /\ Consume
    /\ inPlace' = inPlace \cup {rows'}
    /\ alive' \in IF walking = {} THEN {TRUE} ELSE BOOLEAN
    /\ UNCHANGED <<seen, walking>>

\* Get, under the read lock: the map is shared, nothing is copied.
Get ==
    /\ alive
    /\ walking = {}
    /\ walking' = Service
    /\ seen' = <<>>
    /\ inPlace' = {rows}
    /\ UNCHANGED <<storeVars, alive>>

\* The reader copies one row, in the order of the map's iteration, which is any.
WalkOn ==
    /\ alive
    /\ \E s \in walking :
         /\ seen' = seen @@ (s :> rows[s])
         /\ walking' = walking \ {s}
    /\ UNCHANGED <<storeVars, inPlace, alive>>

SharedInit ==
    /\ rows = [s \in Service |-> Blank]
    /\ disk = rows
    /\ channel = <<>>
    /\ seen = <<>>
    /\ walking = {}
    /\ inPlace = {}
    /\ alive = TRUE

SharedNext == Produce \/ Write \/ Get \/ WalkOn

SharedSpec == SharedInit /\ [][SharedNext]_sharedVars

\* store.go: "concurrent Get() calls either see the previous coherent state or the
\* next coherent state, never a half-mutated intermediate": what a reader has
\* copied in the end is a document that was in place at some moment since Get.
SnapshotCoherent == (DOMAIN seen = Service) => seen \in inPlace
=============================================================================
