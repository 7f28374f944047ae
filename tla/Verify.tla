------------------------------- MODULE Verify -------------------------------
(***************************************************************************)
(* verifyAfterRecreate: the loop that watches a recreated container before *)
(* an update or a rollback is called a success.  It samples the container  *)
(* about once a tick; between two samples the container crashes, is        *)
(* restarted by its restart policy and reports its health as it pleases.   *)
(***************************************************************************)
EXTENDS Naturals

CONSTANTS VerifyTicks,   \* the default window, in ticks (15)
          HealthTicks,   \* the window of a service that waits for healthy (60)
          Slack,         \* ticks added to the deadline (3)
          MaxLag,        \* most ticks that pass between two samples of a busy host
          MaxCrashes     \* bound on the crashes of the container

ASSUME VerifyAssumption ==
    /\ VerifyTicks \in Nat
    /\ HealthTicks \in Nat
    /\ Slack \in Nat \ {0}
    /\ MaxLag \in Nat \ {0}
    /\ MaxCrashes \in Nat

VARIABLES running,       \* the container runs
          restartCount,  \* how often its restart policy restarted it
          health,        \* what its health check says
          optIn,         \* the service carries wait-for-healthy
          clock,         \* ticks since the loop began
          consecutive,   \* good samples so far
          outcome,       \* what the loop returned, if it has
          crashes,       \* history: crashes since the recreate
          seen,          \* history: those of them before the last good sample
          skipped        \* history: ticks the ticker skipped

containerVars == <<running, restartCount, health, optIn, crashes>>
loopVars == <<clock, consecutive, outcome, seen, skipped>>
verifyVars == <<containerVars, loopVars>>

Health == {"none", "starting", "healthy", "unhealthy"}

\* The good samples required: at least one.
Target == IF VerifyTicks < 1 THEN 1 ELSE VerifyTicks

Deadline == (IF optIn THEN HealthTicks ELSE VerifyTicks) + Slack

-----------------------------------------------------------------------------
(* The container.                                                          *)

Crash ==
    /\ running
    /\ crashes < MaxCrashes
    /\ running' = FALSE
    /\ crashes' = crashes + 1
    /\ UNCHANGED <<restartCount, health, optIn, loopVars>>

\* The restart policy; the health check begins anew.
AutoRestart ==
    /\ ~running
    /\ running' = TRUE
    /\ restartCount' = restartCount + 1
    /\ health' = IF health = "none" THEN "none" ELSE "starting"
    /\ UNCHANGED <<optIn, crashes, loopVars>>

\* A container with a health check reports on it.
HealthReport ==
    /\ running
    /\ health # "none"
    /\ health' \in {"healthy", "unhealthy"} \ {health}
    /\ UNCHANGED <<running, restartCount, optIn, crashes, loopVars>>

-----------------------------------------------------------------------------
(* The loop.                                                               *)

Return(what) == outcome' = what /\ UNCHANGED consecutive

\* Mutant of Expire: the loop starts over instead of returning.
ExpireStartsOver == consecutive' = 0 /\ UNCHANGED outcome

\* The deadline has passed.  A service that waits for healthy and has not been
\* told healthy or unhealthy is let through: both of those have returned.  The
\* container is not looked at again.
Expire == Return(IF optIn THEN "soft" ELSE "late")

\* Mutants of Sample: restarts between two samples go unnoticed; one sample too
\* many is asked for.
SampleIgnoresRestarts ==
    \/ ~running /\ Return("failed")
    \/ /\ running
       /\ consecutive' = consecutive + 1
       /\ outcome' = IF consecutive' >= Target THEN "stable" ELSE outcome
SampleOneMore ==
    \/ (~running \/ restartCount > 0) /\ Return("failed")
    \/ /\ running /\ restartCount = 0
       /\ consecutive' = consecutive + 1
       /\ outcome' = IF consecutive' > Target THEN "stable" ELSE outcome

\* One ContainerInspect and what the loop makes of it.
Sample ==
    \/ ~running /\ Return("failed")
    \/ running /\ restartCount > 0 /\ Return("failed")
    \/ /\ running /\ restartCount = 0
       /\ optIn /\ health = "unhealthy"
       /\ Return("failed")
    \/ /\ running /\ restartCount = 0
       /\ optIn /\ health = "healthy"
       /\ Return("healthy")
    \/ /\ running /\ restartCount = 0
       /\ ~(optIn /\ health \in {"healthy", "unhealthy"})
       /\ consecutive' = consecutive + 1
       /\ outcome' = IF consecutive' >= Target THEN "stable" ELSE outcome

\* The inspect itself fails: the daemon is gone, or the container is.
InspectFails == Return("failed")

\* The deadline, or a sample.  At the tick of the deadline itself either may be:
\* the clock that is compared with it is finer than a tick.
Turn ==
    /\ \/ clock' >= Deadline /\ Expire
       \/ clock' <= Deadline /\ (Sample \/ InspectFails)
    /\ seen' = IF consecutive' > consecutive THEN crashes ELSE seen
    /\ UNCHANGED containerVars

\* The ticker fires; on a busy host it skips ticks.
Tick ==
    \E lag \in 1 .. MaxLag :
       /\ clock' = clock + lag
       /\ skipped' = skipped + (lag - 1)

\* Mutants of Pass: the loop spins without its ticker; it waits for the ticker
\* before the first sample too.
PassWithoutTicker == outcome = "polling" /\ UNCHANGED <<clock, skipped>> /\ Turn
PassTickerFirst == outcome = "polling" /\ Tick /\ Turn

\* The first pass samples at once; each later one waits for the ticker.
Pass ==
    /\ outcome = "polling"
    /\ \/ consecutive = 0 /\ UNCHANGED <<clock, skipped>>
       \/ consecutive > 0 /\ Tick
    /\ Turn

\* The request's context is done.
Cancel ==
    /\ outcome = "polling"
    /\ Return("cancelled")
    /\ UNCHANGED <<containerVars, clock, seen, skipped>>

Init ==
    /\ running = TRUE
    /\ restartCount = 0
    /\ health \in {"none", "starting"}
    /\ optIn \in BOOLEAN
    /\ clock = 0
    /\ consecutive = 0
    /\ outcome = "polling"
    /\ crashes = 0
    /\ seen = 0
    /\ skipped = 0

Next == Crash \/ AutoRestart \/ HealthReport \/ Pass \/ Cancel

Spec == Init /\ [][Next]_verifyVars

\* The ticker fires and the daemon answers or fails.
FairSpec == Spec /\ WF_verifyVars(Pass)
-----------------------------------------------------------------------------
(* Properties.                                                             *)

VerifyTypeOK ==
    /\ running \in BOOLEAN
    /\ restartCount \in Nat
    /\ health \in Health
    /\ optIn \in BOOLEAN
    /\ clock \in Nat
    /\ consecutive \in 0 .. Target
    /\ outcome \in {"polling", "stable", "healthy", "soft", "late", "failed", "cancelled"}
    /\ crashes \in Nat
    /\ seen \in Nat
    /\ skipped \in Nat

\* The three verdicts verifyAfterRecreate returns without an error.
Verified == {"stable", "healthy", "soft"}

\* A sample notices every crash before it, also when the crash and the restart both
\* fell between two samples: a container that crashed since the recreate is never
\* verified as stable or healthy, and by the soft success of the deadline, which
\* takes no sample, only when it crashed after the last one.
CrashNeverPasses ==
    [][(outcome = "polling" /\ outcome' \in Verified)
          => IF outcome' = "soft" THEN seen = 0 ELSE crashes = 0]_verifyVars

\* "stable" means the container was watched for the whole window: as many good
\* samples as the window has ticks, over at least one tick less.
WatchedForWindow ==
    outcome = "stable" => consecutive = Target /\ clock >= Target - 1

\* The deadline strikes only on a host that falls behind.  A container that keeps
\* running under a daemon that answers is not failed for its few samples before the
\* ticker skipped more ticks than the slack, and a service that waits for healthy
\* gets the soft success only when so many were skipped that the samples of the
\* default window did not fit before the deadline.
DeadlineNeedsLag ==
    /\ outcome = "late" => skipped > Slack
    /\ outcome = "soft" => skipped + Target > HealthTicks + Slack

\* The loop returns, whatever the container does.
VerifyEnds == <>(outcome # "polling")
=============================================================================
