----------------------------- MODULE Hysteresis -----------------------------
(***************************************************************************)
(* The decider of internal/decision: a reading of the exit country becomes *)
(* a raw verdict, and a raw verdict that disagrees with the committed one  *)
(* has to recur `need' times before it is committed.  Countries are        *)
(* abstracted to the side of the blocklist they fall on.                   *)
(***************************************************************************)
EXTENDS Naturals

Verdicts == {"allow", "block"}

\* A decider holds the threshold it was built with, the verdict callers act on
\* and the flip it is counting toward.
Deciders ==
  [need : Nat \ {0}, current : Verdicts, candidate : Verdicts, streak : Nat]

\* Slip: the threshold is taken as configured.
UnclampedDecider(hysteresis) ==
  [need |-> hysteresis, current |-> "allow", candidate |-> "allow", streak |-> 0]

\* The threshold is clamped to at least one; the first committed verdict is
\* Allow, which under the guard means "hold GUARD".
NewDecider(hysteresis) ==
  [need |-> IF hysteresis < 1 THEN 1 ELSE hysteresis,
   current |-> "allow", candidate |-> "allow", streak |-> 0]

\* What Pending reports: the verdict at stake and how far along it is.
PendingVerdict(d) == IF d.streak = 0 THEN d.current ELSE d.candidate

\* Slips: one reading too early; one too late; a streak that survives agreement.
EvaluateEarly(d, v) ==
  IF v = d.current \/ d.streak + 2 >= d.need
  THEN [d EXCEPT !.current = v, !.candidate = v, !.streak = 0]
  ELSE [d EXCEPT !.candidate = v, !.streak = @ + 1]
EvaluateLate(d, v) ==
  IF v = d.current \/ d.streak >= d.need
  THEN [d EXCEPT !.current = v, !.candidate = v, !.streak = 0]
  ELSE [d EXCEPT !.candidate = v, !.streak = @ + 1]
EvaluateSticky(d, v) ==
  LET run == IF v = d.candidate THEN d.streak + 1 ELSE 1
  IN  IF v = d.current THEN d
      ELSE IF run >= d.need THEN [d EXCEPT !.current = v, !.candidate = v, !.streak = 0]
      ELSE [d EXCEPT !.candidate = v, !.streak = run]

\* Evaluate on a successful reading whose raw verdict is v.
Evaluate(d, v) ==
  LET run == IF v = d.candidate THEN d.streak + 1 ELSE 1
  IN  IF v = d.current \/ run >= d.need
      THEN [d EXCEPT !.current = v, !.candidate = v, !.streak = 0]
      ELSE [d EXCEPT !.candidate = v, !.streak = run]

=============================================================================
