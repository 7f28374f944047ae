---------------------------- MODULE VerifyProofs ----------------------------
(***************************************************************************)
(* For every window, slack and lag: what verifyAfterRecreate's verdicts    *)
(* mean.                                                                   *)
(***************************************************************************)
EXTENDS Verify, TLAPS

\* A crash leaves a trace the loop can see: the container is down, or it has been
\* restarted.
CrashShows == crashes > 0 => ~running \/ restartCount > 0

\* While the loop polls it is short of its target, and the clock shows the ticks
\* between its samples and the ticks that were skipped.
Counting ==
    outcome = "polling" =>
       /\ consecutive < Target
       /\ clock = skipped + (IF consecutive = 0 THEN 0 ELSE consecutive - 1)
       /\ consecutive = 0 => skipped = 0

\* A good sample had no crash before it.
NoneSeen == seen = 0

VerifyInv == /\ VerifyTypeOK /\ CrashShows /\ Counting /\ NoneSeen
             /\ WatchedForWindow /\ DeadlineNeedsLag

\* The constants make a target of at least one sample.
LEMMA TargetType == Target \in Nat \ {0}
BY VerifyAssumption DEF Target

\* What a clock that counts the samples and the skipped ticks shows at a deadline,
\* and at the end of the window.
LEMMA ClockArithmetic ==
    ASSUME NEW now \in Nat, NEW lost \in Nat, NEW good \in Nat,
           now = lost + good, good < Target, good = 0 => now = 0
    PROVE  /\ now >= HealthTicks + Slack => lost + Target > HealthTicks + Slack
           /\ now >= VerifyTicks + Slack => lost > Slack
           /\ now >= good
<1>1. now >= HealthTicks + Slack => lost + Target > HealthTicks + Slack
  BY TargetType, VerifyAssumption
<1>2. ASSUME now >= VerifyTicks + Slack PROVE lost > Slack
  <2>1. now > 0 /\ good >= 1
    BY <1>2, VerifyAssumption
  <2>2. Target <= VerifyTicks
    BY <2>1, VerifyAssumption DEF Target
  <2> QED
    BY <1>2, <2>2, VerifyAssumption, TargetType
<1> QED
  BY <1>1, <1>2

\* Before the first sample nothing has been counted.
LEMMA InitVerifyInv == Init => VerifyInv
BY TargetType, VerifyAssumption
DEF Init, VerifyInv, VerifyTypeOK, CrashShows, Counting, NoneSeen, WatchedForWindow,
    DeadlineNeedsLag, Health

\* The clock of a pass: it stands still before the first sample, and shows one tick
\* for every sample so far and every tick that was skipped.
LEMMA PassClock ==
    ASSUME VerifyTypeOK, Counting, Pass
    PROVE  /\ clock' \in Nat /\ skipped' \in Nat /\ outcome = "polling" /\ consecutive < Target
           /\ clock' = skipped' + consecutive
           /\ consecutive \in Nat /\ (consecutive = 0 => clock' = 0)
<1>1. CASE consecutive = 0 /\ UNCHANGED <<clock, skipped>>
  BY <1>1, TargetType DEF VerifyTypeOK, Counting, Pass
<1>2. CASE consecutive > 0 /\ Tick
  <2>1. PICK lag \in 1 .. MaxLag : clock' = clock + lag /\ skipped' = skipped + (lag - 1)
    BY <1>2 DEF Tick
  <2> QED
    BY <1>2, <2>1, TargetType, VerifyAssumption DEF VerifyTypeOK, Counting, Pass
<1> QED
  BY <1>1, <1>2 DEF Pass

\* Each pass of the loop, and whatever the container does between two passes,
\* preserves the invariant.
LEMMA VerifyStep == VerifyInv /\ [Next]_verifyVars => VerifyInv'
<1> SUFFICES ASSUME VerifyInv, [Next]_verifyVars PROVE VerifyInv'
  OBVIOUS
<1> USE VerifyAssumption, TargetType
    DEF VerifyInv, VerifyTypeOK, CrashShows, Counting, NoneSeen, WatchedForWindow,
        DeadlineNeedsLag, Health
<1>1. CASE UNCHANGED verifyVars
  BY <1>1 DEF verifyVars, containerVars, loopVars
<1>2. CASE Crash
  <2>1. ~running' /\ running' \in BOOLEAN /\ crashes' = crashes + 1
    BY <1>2 DEF Crash
  <2>2. UNCHANGED <<restartCount, health, optIn, clock, consecutive, outcome, seen, skipped>>
    BY <1>2 DEF Crash, loopVars
  <2> QED
    BY <2>1, <2>2
<1>3. CASE AutoRestart
  BY <1>3 DEF AutoRestart, loopVars
<1>4. CASE HealthReport
  BY <1>4 DEF HealthReport, loopVars
<1>5. CASE Pass
  <2>1. /\ clock' \in Nat /\ skipped' \in Nat /\ outcome = "polling" /\ consecutive < Target
        /\ clock' = skipped' + consecutive /\ consecutive \in Nat
        /\ consecutive = 0 => clock' = 0
    BY <1>5, PassClock
  <2>0. /\ clock' >= HealthTicks + Slack => skipped' + Target > HealthTicks + Slack
        /\ clock' >= VerifyTicks + Slack => skipped' > Slack
        /\ clock' >= consecutive
    BY ONLY <2>1, ClockArithmetic
  <2>2. UNCHANGED <<running, restartCount, health, optIn, crashes>>
    BY <1>5 DEF Pass, Turn, containerVars
  <2>3. CASE clock' >= Deadline /\ Expire
    <3>1. outcome' = (IF optIn THEN "soft" ELSE "late") /\ UNCHANGED <<consecutive, seen>>
      BY <1>5, <2>3 DEF Pass, Turn, Expire, Return
    <3>2. DeadlineNeedsLag'
      <4>1. CASE optIn
        <5>1. clock' >= HealthTicks + Slack
          BY <2>3, <4>1 DEF Deadline
        <5>2. skipped' + Target > HealthTicks + Slack
          BY ONLY <2>0, <5>1
        <5> QED
          BY <3>1, <4>1, <5>2
      <4>2. CASE ~optIn
        <5>1. clock' >= VerifyTicks + Slack
          BY <2>3, <4>2 DEF Deadline
        <5>2. skipped' > Slack
          BY ONLY <2>0, <5>1
        <5> QED
          BY <3>1, <4>2, <5>2
      <4> QED
        BY <4>1, <4>2
    <3> QED
      BY <2>1, <2>2, <3>1, <3>2
  <2>4. CASE clock' <= Deadline /\ (Sample \/ InspectFails)
    <3>1. CASE outcome' \in {"failed", "healthy"} /\ UNCHANGED consecutive
      <4>1. seen' = seen
        BY <1>5, <2>1, <3>1 DEF Pass, Turn
      <4> QED
        BY <2>1, <2>2, <3>1, <4>1
    <3>2. CASE /\ running /\ restartCount = 0 /\ consecutive' = consecutive + 1
               /\ outcome' = IF consecutive' >= Target THEN "stable" ELSE outcome
      <4>1. seen' = 0
        <5>1. crashes = 0
          BY <3>2
        <5>2. consecutive' > consecutive
          BY ONLY <2>1, <3>2
        <5> QED
          BY <1>5, <5>1, <5>2 DEF Pass, Turn
      <4>2. consecutive' \in 0 .. Target /\ consecutive' # 0 /\ clock' = skipped' + (consecutive' - 1)
        BY ONLY <2>1, <3>2, TargetType
      <4>3. outcome' = "polling" => consecutive' < Target
        BY <2>1, <3>2, <4>2
      <4>4. outcome' = "stable" => consecutive' = Target
        BY <2>1, <3>2, <4>2
      <4>5. outcome' = "stable" => clock' >= Target - 1
        <5>1. consecutive' = Target => consecutive = Target - 1
          BY ONLY <2>1, <3>2, TargetType
        <5> QED
          BY ONLY <2>0, <4>4, <5>1
      <4>6. outcome' \in {"polling", "stable"}
        BY <2>1, <3>2
      <4> QED
        BY <2>1, <2>2, <4>1, <4>2, <4>3, <4>4, <4>5, <4>6
    <3> QED
      BY <2>4, <3>1, <3>2 DEF Sample, InspectFails, Return
  <2> QED
    BY <1>5, <2>3, <2>4 DEF Pass, Turn
<1>6. CASE Cancel
  BY <1>6 DEF Cancel, Return, containerVars
<1> QED
  BY <1>1, <1>2, <1>3, <1>4, <1>5, <1>6 DEF Next

\* The invariant of the loop and of the container it watches.
THEOREM VerifyInvariant == Spec => []VerifyInv
BY InitVerifyInv, VerifyStep, PTL DEF Spec

\* Type correctness of the loop: the good samples never outrun the window.
THEOREM VerifyTypes == Spec => []VerifyTypeOK
<1>1. VerifyInv => VerifyTypeOK
  BY DEF VerifyInv
<1> QED
  BY <1>1, VerifyInvariant, PTL

\* "stable" was said only after the whole window of good samples.
THEOREM Watched == Spec => []WatchedForWindow
<1>1. VerifyInv => WatchedForWindow
  BY DEF VerifyInv
<1> QED
  BY <1>1, VerifyInvariant, PTL

\* The deadline strikes only when the ticker skipped ticks: more than the slack to
\* fail a container that runs, and all but the default window's samples of the
\* health window for a soft success.
THEOREM Lenient == Spec => []DeadlineNeedsLag
<1>1. VerifyInv => DeadlineNeedsLag
  BY DEF VerifyInv
<1> QED
  BY <1>1, VerifyInvariant, PTL

\* No verdict passes over a crash that a sample came after, however long the loop
\* slept between two samples; only the soft success takes none.
THEOREM NoCrashPasses == Spec => CrashNeverPasses
<1>1. VerifyInv /\ [Next]_verifyVars =>
        [(outcome = "polling" /\ outcome' \in Verified)
           => IF outcome' = "soft" THEN seen = 0 ELSE crashes = 0]_verifyVars
  <2> SUFFICES ASSUME VerifyInv, Next, outcome = "polling", outcome' \in {"stable", "healthy"}
               PROVE  crashes = 0
    BY DEF verifyVars, Verified, VerifyInv, NoneSeen
  <2>1. Pass
    BY DEF Next, Crash, AutoRestart, HealthReport, Cancel, Return, loopVars
  <2>2. Sample
    BY <2>1 DEF Pass, Turn, Expire, InspectFails, Return
  <2>3. running /\ restartCount = 0
    BY <2>2 DEF Sample, Return
  <2> QED
    BY <2>3 DEF VerifyInv, VerifyTypeOK, CrashShows
<1> QED
  BY <1>1, VerifyInvariant, PTL DEF Spec, CrashNeverPasses
=============================================================================
