--------------------------- MODULE Configuration ----------------------------
(***************************************************************************)
(* What a configuration promises whoever changes it: a command, a client   *)
(* of the socket, a preset, a reload or the setup wizard.                  *)
(***************************************************************************)
EXTENDS Settings, Setup

\* What runs is valid, a reply and a warning are true, and what was not asked for stays.
ConfigPromise == SettingsPromise /\ []SetupPromise
=============================================================================
