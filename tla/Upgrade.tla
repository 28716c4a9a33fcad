------------------------------ MODULE Upgrade -------------------------------
(***************************************************************************)
(* `dezhban upgrade`: a package is downloaded and staged, applied beside a *)
(* daemon that keeps running its old binary, and activated by a restart,   *)
(* with the old version stashed until the new one has shown itself healthy *)
(* (internal/update, cmd/dezhban/upgrade.go).  Any step may be the last:   *)
(* the command can be interrupted, and launchd starts whatever is on disk. *)
(* The app bundle travels with the binary.                                 *)
(***************************************************************************)
EXTENDS Naturals

CONSTANTS
  Latest,            \* versions are 1 .. Latest, 1 is installed
  Broken             \* those that never report a healthy posture

ASSUME UpgradeAssumption == Latest \in Nat \ {0} /\ Broken \subseteq 2 .. Latest

VARIABLES
  binary,            \* the version of /usr/local/bin/dezhban
  running,           \* the version of the daemon's process, or Gone
  snapshotOf,        \* who wrote state.json: [version, healthy, late]
  staged, stash,     \* the versions in upgrade-stage and upgrade-stash, or Gone
  phase,             \* where `upgrade apply` is
  started, proven    \* history: the versions that ran, that reported healthy

upVars == <<binary, running, snapshotOf, staged, stash, phase, started, proven>>

Versions == 1 .. Latest
Gone == 0
Phases == {"idle", "stashing", "installing", "activating", "stopping", "starting",
           "waiting", "restoring", "returning"}

UpTypeOK ==
  /\ binary \in Versions /\ running \in Versions \cup {Gone}
  /\ snapshotOf \in [version : Versions, healthy : BOOLEAN, late : BOOLEAN]
  /\ staged \in Versions \cup {Gone} /\ stash \in Versions \cup {Gone}
  /\ phase \in Phases /\ started \subseteq Versions /\ proven \subseteq Versions
  /\ phase \in {"installing", "activating", "stopping", "starting", "waiting", "restoring"}
       => stash # Gone

UpInit ==
  /\ binary = 1 /\ running = 1 /\ started = {1} /\ proven = {1}
  /\ snapshotOf = [version |-> 1, healthy |-> TRUE, late |-> FALSE]
  /\ staged = Gone /\ stash = Gone /\ phase = "idle"

-----------------------------------------------------------------------------
\* The daemon publishes; "late" is what comes after the restart was asked for.
Publishes ==
  /\ running # Gone
  /\ snapshotOf' = [version |-> running, healthy |-> running \notin Broken,
                    late |-> phase \in {"stopping", "starting", "waiting"}]
  /\ proven' = proven \cup ({running} \ Broken)
  /\ UNCHANGED <<binary, running, staged, stash, phase, started>>

\* The end of the process: the terminal snapshot is written, or not.
Ended ==
  /\ running # Gone /\ running' = Gone
  /\ snapshotOf' \in {snapshotOf, [snapshotOf EXCEPT !.version = running, !.healthy = FALSE]}
Launched ==
  /\ running = Gone /\ running' = binary /\ started' = started \cup {binary}

\* Stops, crashes and restarts that are not the command's.
ProcessEnds ==
  /\ Ended
  /\ UNCHANGED <<binary, staged, stash, phase, started, proven>>
ProcessStarts ==
  /\ Launched
  /\ UNCHANGED <<binary, snapshotOf, staged, stash, phase, proven>>

-----------------------------------------------------------------------------
\* Check offers what is newer than the command's own version, a version may also be
\* named; what fails its verification is removed.
Download(v) ==
  /\ phase = "idle"
  /\ staged' \in {v, Gone}
  /\ UNCHANGED <<binary, running, snapshotOf, stash, phase, started, proven>>

\* Release versions are compared by their numbers.
SemverLess(a, b) == a < b

\* Slip: the stash is held against the binary on disk.
AgainstDisk == IF SemverLess(stash, binary) THEN "obsolete" ELSE IF stash = binary THEN "pending" ELSE "unknown"

\* ClassifyStash: against the version the daemon last published.
ClassifyStash ==
  IF SemverLess(stash, snapshotOf.version) THEN "obsolete"
  ELSE IF stash = snapshotOf.version THEN "pending" ELSE "unknown"

\* cmdUpgradeApply up to its first copy: an earlier stash must be obsolete, and
\* removable.
BeginApply ==
  /\ phase = "idle" /\ staged # Gone
  /\ stash # Gone => ClassifyStash = "obsolete"
  /\ stash' = Gone /\ phase' = "stashing"
  /\ UNCHANGED <<binary, running, snapshotOf, staged, started, proven>>

StashCurrent ==
  /\ phase = "stashing"
  /\ \/ stash' = binary /\ phase' = "installing"
     \/ UNCHANGED stash /\ phase' = "idle"                  \* cannot be copied
  /\ UNCHANGED <<binary, running, snapshotOf, staged, started, proven>>

\* installer(8): may fail half-way, having replaced the binary or not.
RunInstaller(activates) ==
  /\ phase = "installing"
  /\ \/ /\ binary' = staged /\ staged' = Gone
        /\ phase' = IF activates THEN "activating" ELSE "idle"
     \/ binary' \in {binary, staged} /\ phase' = "idle" /\ UNCHANGED staged
  /\ UNCHANGED <<running, snapshotOf, stash, started, proven>>

\* CanActivate, read at that instant: a healthy guard or standby, or the apply ends
\* there, the stash in place.
Activate ==
  /\ phase = "activating"
  /\ \/ snapshotOf.healthy /\ phase' = "stopping" /\ snapshotOf' = [snapshotOf EXCEPT !.late = FALSE]
     \/ phase' = "idle" /\ UNCHANGED snapshotOf
  /\ UNCHANGED <<binary, running, staged, stash, started, proven>>

\* cmdRestart: its stop, which may not settle in time, and its start, which may fail.
StopOld ==
  /\ phase = "stopping"
  /\ IF running = Gone THEN UNCHANGED <<running, snapshotOf>> ELSE Ended
  /\ phase' = "starting"
  /\ UNCHANGED <<binary, staged, stash, started, proven>>
StartNew ==
  /\ phase = "starting"
  /\ IF running = Gone THEN Launched ELSE UNCHANGED <<running, started>>
  /\ phase' = "waiting"
  /\ UNCHANGED <<binary, snapshotOf, staged, stash, proven>>
RestartFails ==
  /\ phase \in {"stopping", "starting"}
  /\ phase' = "restoring"
  /\ UNCHANGED <<binary, running, snapshotOf, staged, stash, started, proven>>

\* waitForHealthySnapshot: the stash goes (or cannot be removed).
ReportsHealthy ==
  /\ phase = "waiting" /\ snapshotOf.healthy /\ snapshotOf.late
  /\ phase' = "idle" /\ stash' \in {stash, Gone}
  /\ UNCHANGED <<binary, running, snapshotOf, staged, started, proven>>
WaitTimesOut ==
  /\ phase = "waiting"
  /\ phase' = "restoring"
  /\ UNCHANGED <<binary, running, snapshotOf, staged, stash, started, proven>>

\* rollback: restore the binary (or keep the stash and stop), restart into it, and
\* only then clear the stash (unless the app could not be restored).
RestoreStash ==
  /\ phase = "restoring"
  /\ \/ binary' = stash /\ phase' = "returning"
     \/ phase' = "idle" /\ UNCHANGED binary
  /\ UNCHANGED <<running, snapshotOf, staged, stash, started, proven>>
RestartOld ==
  /\ phase = "returning"
  /\ \/ running' = binary /\ started' = started \cup {binary} /\ stash' \in {stash, Gone}
     \/ UNCHANGED <<running, started, stash>>
  /\ phase' = "idle"
  /\ UNCHANGED <<binary, snapshotOf, staged, proven>>

\* The command is interrupted, or the host goes down.
Interrupt ==
  /\ phase # "idle" /\ phase' = "idle"
  /\ UNCHANGED <<binary, running, snapshotOf, staged, stash, started, proven>>

UpNext ==
  \/ Publishes \/ ProcessEnds \/ ProcessStarts
  \/ \E v \in Versions : Download(v)
  \/ BeginApply \/ StashCurrent \/ \E activates \in BOOLEAN : RunInstaller(activates)
  \/ Activate \/ StopOld \/ StartNew \/ RestartFails \/ ReportsHealthy \/ WaitTimesOut
  \/ RestoreStash \/ RestartOld \/ Interrupt

UpSpec == UpInit /\ [][UpNext]_upVars

-----------------------------------------------------------------------------
\* Until another version has run, the one that works can be started again: it is on disk
\* or in the stash, however many applies were deferred, failed, interrupted or undone.
RollbackOutlivesDeferral == started = {1} => 1 \in {binary, stash}

\* What an upgrade promises.
UpgradePromise == UpTypeOK /\ RollbackOutlivesDeferral

\* "The rollback stash is kept until activation actually succeeds": some version that has
\* reported healthy is on disk or in the stash.
KnownGoodIsKept == {binary, stash} \cap proven # {}
=============================================================================
