------------------------------ MODULE Backends ------------------------------
(***************************************************************************)
(* What the firewall backends with a state of their own promise: the       *)
(* anchor and the main ruleset of macOS, the rule group and the profiles   *)
(* of Windows.                                                             *)
(***************************************************************************)
EXTENDS PfAnchor, WfpGroup

\* Apply enforces, IsBlocked tells the truth, Unblock restores and strands nobody.
BackendsPromise == PfPromise /\ WfpPromise
=============================================================================
