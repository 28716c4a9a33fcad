------------------------------ MODULE Decision ------------------------------
(***************************************************************************)
(* The decider driven by an arbitrary sequence of readings, failed lookups *)
(* and configuration reloads.  Two history variables record what the       *)
(* readings since the decider was built have agreed on, so the properties  *)
(* relate the committed verdict to the readings and not to the counters    *)
(* the code keeps.                                                         *)
(***************************************************************************)
EXTENDS Hysteresis

CONSTANT Thresholds      \* the values `hysteresis' may be configured to
ASSUME ThresholdsAssumption == Thresholds \subseteq Nat /\ Thresholds # {}

VARIABLES
  decider,      \* the running *decision.Decider
  last,         \* history: the raw verdict of the latest successful reading
  agree         \* history: how many successful readings in a row gave `last'

vars == <<decider, last, agree>>

TypeOK ==
  /\ decider \in Deciders
  /\ last \in Verdicts \cup {"none"}
  /\ agree \in Nat

Init ==
  /\ \E h \in Thresholds : decider = NewDecider(h)
  /\ last = "none"
  /\ agree = 0

\* A successful reading.  The history count stops at the threshold: beyond it
\* nothing more can be learnt from another agreeing reading.
Reading(v) ==
  /\ decider' = Evaluate(decider, v)
  /\ last' = v
  /\ agree' = IF v # last THEN 1
              ELSE IF agree < decider.need THEN agree + 1 ELSE agree

\* A failed lookup: Evaluate returns the committed verdict and moves nothing.
FailedReading ==
  UNCHANGED vars

\* A reload that changed the country list or the threshold swaps the decider.
Replace ==
  /\ \E h \in Thresholds : decider' = NewDecider(h)
  /\ last' = "none"
  /\ agree' = 0

Next ==
  \/ \E v \in Verdicts : Reading(v)
  \/ FailedReading
  \/ Replace

Spec == Init /\ [][Next]_vars

-----------------------------------------------------------------------------
\* A flip is prompt: once `need' successful readings in a row agree, theirs is
\* the verdict the daemon acts on, whatever was counted before (Evaluate's
\* streak survives failed lookups and is restarted, never lost, by a
\* disagreeing reading).
FlipIsPrompt == agree = decider.need => decider.current = last

\* What `status' shows as "n of need confirming checks" is exactly the number
\* of successful readings in a row that contradict the committed verdict.
PendingIsHonest ==
  /\ decider.streak = IF last \in {"none", decider.current} THEN 0 ELSE agree
  /\ decider.streak > 0 => PendingVerdict(decider) = last

\* Between two readings the verdict and the count both say what the readings agreed on.
AgreementDecides == FlipIsPrompt /\ PendingIsHonest

\* A flip is never early: the committed verdict changes only on the reading
\* that completes `need' agreeing ones, or because a reload replaced the
\* decider.
FlipIsEarned ==
  [][decider'.current # decider.current
       => \/ Replace
          \/ agree' = decider.need /\ last' = decider'.current]_vars

=============================================================================
