------------------------------ MODULE PfAnchor ------------------------------
(***************************************************************************)
(* How the macOS backend puts its rules into pf and takes them out again   *)
(* (pf_darwin.go).  Apply and Unblock are sequences of pfctl calls and     *)
(* file writes; each is a step here, so a process may die or a call fail   *)
(* between any two, and the daemon and a command beside it (`panic',       *)
(* `unblock --force') may interleave.  Rules are only evaluated where pf   *)
(* is enabled, the main ruleset refers to the dezhban anchor and the       *)
(* anchor holds them; which rules they are is left to module Rulesets.     *)
(***************************************************************************)
EXTENDS Naturals

CONSTANTS
  Procs,       \* processes that drive pf: "daemon", and "cli" that only unblocks
  Perils       \* the calls a step of which may fail or be cut short by a crash

ASSUME PfAssumption == Procs \subseteq {"daemon", "cli"} /\ Perils \subseteq {"apply", "unblock"}

VARIABLES
  pfOn,        \* pf is enabled
  mainRef,     \* the loaded main ruleset refers to the anchor
  loaded,      \* the anchor holds our rules
  conf,        \* /etc/pf.conf: whether it has the anchor line, and its edition
  backup,      \* /etc/pf.conf.dezhban.bak: a pf.conf, or NoBackup
  saved,       \* pf.state: whether pf was enabled before, or "none"
  doing,       \* what each process is doing
  foundState,  \* pf.conf and pf as they were before the first Apply
  meddled      \* somebody else changed them since

kernel == <<pfOn, mainRef, loaded>>
disk == <<conf, backup, saved>>
pfVars == <<kernel, disk, doing, foundState, meddled>>

Steps == {"info", "backup", "save", "ref", "reload", "load", "enable",
          "flush", "restore", "drop", "revert", "forget",
          "anchor", "status", "main", "end"}
Resting == [op |-> "none", at |-> "end", seen |-> FALSE, restored |-> FALSE,
            quiet |-> TRUE, result |-> "none"]

NoBackup == [ref |-> FALSE, edition |-> 0]
Enforced == pfOn /\ mainRef /\ loaded
Marked == loaded \/ conf.ref \/ backup # NoBackup \/ saved # "none"

PfInit ==
  /\ pfOn \in BOOLEAN /\ mainRef = FALSE /\ loaded = FALSE
  /\ conf = [ref |-> FALSE, edition |-> 1] /\ backup = NoBackup /\ saved = "none"
  /\ doing = [p \in Procs |-> Resting]
  /\ foundState = [on |-> pfOn, edition |-> 1] /\ meddled = FALSE

-----------------------------------------------------------------------------
(* One step of a call.  A step others see makes their calls unquiet.        *)

At(p, op, s) == doing[p].op = op /\ doing[p].at = s

Goes(p, c) == doing' = [q \in Procs |-> IF q = p THEN c ELSE [doing[q] EXCEPT !.quiet = FALSE]]
To(p, s) == Goes(p, [doing[p] EXCEPT !.at = s])
CallEnds(p, r) == Goes(p, [doing[p] EXCEPT !.op = "none", !.at = "end", !.result = r])

Begin(p, op) ==
  /\ doing[p].op = "none"
  /\ p = "cli" => op = "unblock"
  /\ doing' = [doing EXCEPT ![p] = [Resting EXCEPT !.op = op,
       !.at = CASE op = "apply" -> "info" [] op = "unblock" -> "flush" [] op = "verify" -> "anchor"]]
  /\ UNCHANGED <<kernel, disk, foundState, meddled>>

\* A pfctl call or a file write that fails ends the call with an error; whatever
\* the earlier steps did stays.
Fails(p) ==
  /\ doing[p].op \in Perils /\ doing[p].at \notin {"drop", "forget"}
  /\ CallEnds(p, "error")
  /\ UNCHANGED <<kernel, disk, foundState, meddled>>

\* The process dies; the call is gone and nothing is undone.
CallDies(p) ==
  /\ doing[p].op \in Perils
  /\ Goes(p, Resting)
  /\ UNCHANGED <<kernel, disk, foundState, meddled>>

-----------------------------------------------------------------------------
(* Apply. *)

\* Slip: every block takes the snapshot anew.
SnapshotAnew(p) ==
  /\ At(p, "apply", "info")
  /\ Goes(p, [doing[p] EXCEPT !.seen = pfOn, !.at = "backup"])
  /\ UNCHANGED <<kernel, disk, foundState, meddled>>

\* The snapshot is taken on the first block only.
ReadInfo(p) ==
  /\ At(p, "apply", "info")
  /\ Goes(p, [doing[p] EXCEPT !.seen = pfOn, !.at = IF saved = "none" THEN "backup" ELSE "ref"])
  /\ UNCHANGED <<kernel, disk, foundState, meddled>>

\* backupPfConf: an existing backup is the better copy.
BackupConf(p) ==
  /\ At(p, "apply", "backup") /\ To(p, "save")
  /\ backup' = IF backup = NoBackup THEN conf ELSE backup
  /\ UNCHANGED <<kernel, conf, saved, foundState, meddled>>

SavePfState(p) ==
  /\ At(p, "apply", "save") /\ To(p, "ref")
  /\ saved' = IF doing[p].seen THEN "on" ELSE "off"
  /\ UNCHANGED <<kernel, conf, backup, foundState, meddled>>

EnsureAnchorRef(p) ==
  /\ At(p, "apply", "ref") /\ To(p, "reload")
  /\ conf' = [conf EXCEPT !.ref = TRUE]
  /\ UNCHANGED <<kernel, backup, saved, foundState, meddled>>

\* Slip: reloading the main ruleset empties the anchor.
ReloadAfresh(p) ==
  /\ At(p, "apply", "reload") /\ To(p, "load")
  /\ mainRef' = conf.ref /\ loaded' = FALSE
  /\ UNCHANGED <<pfOn, disk, foundState, meddled>>

\* `pfctl -f /etc/pf.conf' leaves what the anchor holds alone ...
ReloadMain(p) ==
  /\ At(p, "apply", "reload") /\ To(p, "load")
  /\ mainRef' = conf.ref
  /\ UNCHANGED <<pfOn, loaded, disk, foundState, meddled>>

\* ... and `pfctl -a dezhban -f -' replaces that in one go.
LoadAnchor(p) ==
  /\ At(p, "apply", "load") /\ To(p, "enable")
  /\ loaded' = TRUE
  /\ UNCHANGED <<pfOn, mainRef, disk, foundState, meddled>>

\* Slip: pf is switched on only by the block that took the snapshot.
EnableOnce(p) ==
  /\ At(p, "apply", "enable") /\ CallEnds(p, "applied")
  /\ pfOn' = (pfOn \/ saved = "off")
  /\ UNCHANGED <<mainRef, loaded, disk, foundState, meddled>>

EnablePf(p) ==
  /\ At(p, "apply", "enable") /\ CallEnds(p, "applied")
  /\ pfOn' = (pfOn \/ ~doing[p].seen)
  /\ UNCHANGED <<mainRef, loaded, disk, foundState, meddled>>

-----------------------------------------------------------------------------
(* Unblock, which is Cleanup too. *)

FlushAnchor(p) ==
  /\ At(p, "unblock", "flush") /\ To(p, "restore")
  /\ loaded' = FALSE
  /\ UNCHANGED <<pfOn, mainRef, disk, foundState, meddled>>

RestoreConf(p) ==
  /\ At(p, "unblock", "restore")
  /\ IF backup = NoBackup THEN To(p, "revert") /\ UNCHANGED conf
                        ELSE To(p, "drop") /\ conf' = backup
  /\ UNCHANGED <<kernel, backup, saved, foundState, meddled>>

DropBackup(p) ==
  /\ At(p, "unblock", "drop")
  /\ Goes(p, [doing[p] EXCEPT !.at = "revert", !.restored = TRUE])
  /\ backup' = NoBackup
  /\ UNCHANGED <<kernel, conf, saved, foundState, meddled>>

\* pf goes back off if it was off before; else the restored file is loaded.
RevertPf(p) ==
  /\ At(p, "unblock", "revert") /\ To(p, "forget")
  /\ pfOn' = (pfOn /\ saved # "off")
  /\ mainRef' = IF saved # "off" /\ doing[p].restored THEN conf.ref ELSE mainRef
  /\ UNCHANGED <<loaded, disk, foundState, meddled>>

ForgetPfState(p) ==
  /\ At(p, "unblock", "forget") /\ CallEnds(p, "unblocked")
  /\ saved' = "none"
  /\ UNCHANGED <<kernel, conf, backup, foundState, meddled>>

-----------------------------------------------------------------------------
(* IsBlocked: three reads, each of which may find the answer. *)

Answers(p, s, holds, next) ==
  /\ At(p, "verify", s)
  /\ IF holds THEN Goes(p, next) ELSE CallEnds(p, "clear")
  /\ UNCHANGED <<kernel, disk, foundState, meddled>>

ReadAnchor(p) == Answers(p, "anchor", loaded, [doing[p] EXCEPT !.at = "status"])
ReadStatus(p) == Answers(p, "status", pfOn, [doing[p] EXCEPT !.at = "main"])

\* Slip: rules in an enabled pf are taken for rules in force.
RulesAreEnough(p) ==
  Answers(p, "main", TRUE, [doing[p] EXCEPT !.op = "none", !.at = "end", !.result = "blocked"])

ReadMain(p) ==
  Answers(p, "main", mainRef, [doing[p] EXCEPT !.op = "none", !.at = "end", !.result = "blocked"])

-----------------------------------------------------------------------------
(* Somebody else: an administrator or a configuration tool. *)

Busied == Marked \/ \E p \in Procs : doing[p].op = "apply"
Disturbs ==
  /\ doing' = [p \in Procs |-> [doing[p] EXCEPT !.quiet = FALSE]]
  /\ meddled' = (meddled \/ Busied)
  /\ UNCHANGED <<loaded, backup, saved>>
  /\ foundState' = IF Busied THEN foundState ELSE [on |-> pfOn', edition |-> conf'.edition]

SwitchPf == pfOn' = ~pfOn /\ UNCHANGED <<mainRef, conf>> /\ Disturbs

\* pf.conf is written over, without our line, and perhaps loaded.
ReplaceConf ==
  /\ conf' = [ref |-> FALSE, edition |-> 3 - conf.edition]
  /\ mainRef' \in {mainRef, FALSE}
  /\ UNCHANGED pfOn /\ Disturbs

\* The machine restarts: what is in the kernel is gone, what is on disk is not.
Reboot ==
  /\ \A p \in Procs : doing[p].op = "unblock" => "unblock" \in Perils
  /\ pfOn' = foundState.on /\ mainRef' = conf.ref /\ loaded' = FALSE
  /\ doing' = [p \in Procs |-> Resting]
  /\ UNCHANGED <<disk, foundState, meddled>>

Applying(p) ==
  \/ ReadInfo(p) \/ BackupConf(p) \/ SavePfState(p) \/ EnsureAnchorRef(p)
  \/ ReloadMain(p) \/ LoadAnchor(p) \/ EnablePf(p)
Unblocking(p) ==
  FlushAnchor(p) \/ RestoreConf(p) \/ DropBackup(p) \/ RevertPf(p) \/ ForgetPfState(p)
Verifying(p) == ReadAnchor(p) \/ ReadStatus(p) \/ ReadMain(p)

PfNext ==
  \/ \E p \in Procs :
       \/ \E op \in {"apply", "unblock", "verify"} : Begin(p, op)
       \/ Applying(p) \/ Unblocking(p) \/ Verifying(p) \/ Fails(p) \/ CallDies(p)
  \/ SwitchPf \/ ReplaceConf \/ Reboot

PfSpec == PfInit /\ [][PfNext]_pfVars

-----------------------------------------------------------------------------
PfTypeOK ==
  /\ pfOn \in BOOLEAN /\ mainRef \in BOOLEAN /\ loaded \in BOOLEAN
  /\ conf.ref \in BOOLEAN /\ conf.edition \in 1..2 /\ saved \in {"none", "on", "off"}
  /\ backup.ref \in BOOLEAN
  /\ \A p \in Procs : doing[p].at \in Steps

\* What Apply reports installed is enforced, from whatever an earlier call that
\* failed or died half-way left behind, if nobody else touched pf meanwhile.
AppliedIsEnforced ==
  \A p \in Procs : doing[p].result = "applied" /\ doing[p].quiet => Enforced

\* IsBlocked answers the question that matters, whether packets meet our rules,
\* and not whether the rules are there.
BlockedMeansEnforced ==
  \A p \in Procs :
    doing[p].quiet /\ doing[p].result \in {"blocked", "clear"}
      => (Enforced <=> doing[p].result = "blocked")

\* There is no gap in replacing one posture's rules by another's: only an Unblock
\* or somebody else ends enforcement.
SwapHasNoGap ==
  [][(Enforced /\ ~Enforced')
       => meddled' \/ Reboot \/ \E p \in Procs : doing[p].op = "unblock"]_pfVars

\* Backend.Unblock restores the prior firewall state: pf.conf as the first block
\* found it, without our line, and pf on or off as it was.
RestoresWhatItFound ==
  (/\ ~meddled /\ \A p \in Procs : doing[p].op = "none"
   /\ \E p \in Procs : doing[p].result = "unblocked" /\ doing[p].quiet)
    => conf = [ref |-> FALSE, edition |-> foundState.edition] /\ pfOn = foundState.on

\* What the macOS backend promises.
PfPromise ==
  /\ [](PfTypeOK /\ AppliedIsEnforced /\ BlockedMeansEnforced /\ RestoresWhatItFound)
  /\ SwapHasNoGap
=============================================================================
