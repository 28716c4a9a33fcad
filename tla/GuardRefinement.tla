-------------------------- MODULE GuardRefinement ---------------------------
(***************************************************************************)
(* The run loop (Guard) implements the kill switch's promise (KillSwitch): *)
(* the posture it reports is read off its own variables, and what acts     *)
(* beside the daemon in Guard is what may act beside it there.             *)
(***************************************************************************)
EXTENDS Guard

Kill == INSTANCE KillSwitch WITH
  Alone    <- Outsiders = {},
  Blind    <- "none" \in ProviderAddrs,
  reported <- IF pc = "down" THEN "down" ELSE Posture,
  enforced <- rules,
  trouble  <- enfErr,
  disarmed <- marker

\* The loop implements the promise: with nothing beside the daemon every change of
\* the rules is one the promise allows, made together with the posture it is for.
KeepsThePromise == Kill!KillSpec
=============================================================================
