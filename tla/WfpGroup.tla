------------------------------ MODULE WfpGroup ------------------------------
(***************************************************************************)
(* How the Windows backend puts its rules in and takes them out again      *)
(* (wfp_windows.go).  What blocks is each profile's default outbound       *)
(* action; the rules of the dezhban group only allow exceptions.  A script *)
(* runs line by line and stops at the first line that fails, and the       *)
(* snapshot of the defaults is written in place, so a crash may leave it   *)
(* unreadable.                                                             *)
(***************************************************************************)
EXTENDS Naturals

CONSTANTS Profiles

VARIABLES
  action,      \* DefaultOutboundAction of each profile: "Allow" or "Block"
  group,       \* the dezhban rules: "none", "some", "all"
  snapshot,    \* fw.state: the actions before the first block, Absent, Corrupt
  wanted,      \* fw.applied: the action Apply set, or "none"
  script,      \* what runs: operation, next line, the posture's action
  before,      \* ghost: the actions as the first block found them
  ours,        \* ghost: the action the last Apply that succeeded set
  drifted      \* ghost: somebody else changed a profile under our rules

wfpVars == <<action, group, snapshot, wanted, script, before, ours, drifted>>

Actions == {"Allow", "Block"}
NoMap == [p \in Profiles |-> "none"]
Absent == [file |-> "absent", map |-> NoMap]
Corrupt == [file |-> "corrupt", map |-> NoMap]
AllAt(a) == [p \in Profiles |-> a]
Quiescent == [op |-> "none", at |-> "end", want |-> "none", result |-> "none", answer |-> FALSE]

WfpInit ==
  /\ action \in [Profiles -> Actions] /\ group = "none"
  /\ snapshot = Absent /\ wanted = "none" /\ script = Quiescent
  /\ before = action /\ ours = "none" /\ drifted = FALSE

Next1(s) == script' = [script EXCEPT !.at = s]
Done1(r) == script' = [Quiescent EXCEPT !.result = r]
ghosts == <<before, ours, drifted>>

-----------------------------------------------------------------------------
(* Apply of a posture whose default action is a. *)

AskToApply(a) ==
  /\ script.op = "none"
  /\ script' = [Quiescent EXCEPT !.op = "apply", !.want = a,
                               !.at = IF snapshot.file = "absent" THEN "snapshot" ELSE "remove"]
  /\ UNCHANGED <<action, group, snapshot, wanted, ghosts>>

SnapshotDefaults ==
  /\ script.op = "apply" /\ script.at = "snapshot" /\ Next1("remove")
  /\ snapshot' = [file |-> "saved", map |-> action]
  /\ UNCHANGED <<action, group, wanted, ghosts>>

RemoveGroup ==
  /\ script.op = "apply" /\ script.at = "remove" /\ Next1("rules")
  /\ group' = "none"
  /\ UNCHANGED <<action, snapshot, wanted, ghosts>>

AddRules ==
  /\ script.op = "apply" /\ script.at = "rules"
  /\ IF group = "none" THEN group' = "some" /\ UNCHANGED script
                       ELSE group' = "all" /\ Next1("default")
  /\ UNCHANGED <<action, snapshot, wanted, ghosts>>

\* The profiles' default comes last, once the allow rules are in place.
SetDefault ==
  /\ script.op = "apply" /\ script.at = "default" /\ Next1("record")
  /\ action' = AllAt(script.want)
  /\ ours' = "none"
  /\ UNCHANGED <<group, snapshot, wanted, before, drifted>>

\* Slip: a record that cannot be written is left as it was.
KeepOldRecord(written) ==
  /\ script.op = "apply" /\ script.at = "record" /\ Done1("applied")
  /\ wanted' = IF written THEN script.want ELSE wanted
  /\ ours' = script.want /\ drifted' = FALSE
  /\ UNCHANGED <<action, group, snapshot, before>>

\* fw.applied, best-effort: a record that cannot be written is removed.  (That the
\* removal fails as well is left out.)
RecordAction(written) ==
  /\ script.op = "apply" /\ script.at = "record" /\ Done1("applied")
  /\ wanted' = IF written THEN script.want ELSE "none"
  /\ ours' = script.want /\ drifted' = FALSE
  /\ UNCHANGED <<action, group, snapshot, before>>

-----------------------------------------------------------------------------
(* Unblock, which is Cleanup too. *)

BeginUnblock ==
  /\ script.op = "none"
  /\ script' = [Quiescent EXCEPT !.op = "unblock", !.at = "defaults"]
  /\ UNCHANGED <<action, group, snapshot, wanted, ghosts>>

\* Slip: profiles without a snapshot are left as they are.
SavedOnly(p) == IF snapshot.file = "saved" THEN snapshot.map[p] ELSE action[p]

\* A profile whose prior action is not known is opened: fail-open on restore.
RestoredAction(p) == IF snapshot.file = "saved" THEN snapshot.map[p] ELSE "Allow"

\* Slip: the rules go first.
GroupFirst ==
  /\ script.op = "unblock"
  /\ \/ script.at = "defaults" /\ group # "none" /\ group' = "none" /\ UNCHANGED <<action, script>>
     \/ /\ script.at = "defaults" /\ group = "none" /\ UNCHANGED group
        /\ \E ps \in SUBSET Profiles :
             action' = [p \in Profiles |-> IF p \in ps THEN RestoredAction(p) ELSE action[p]]
        /\ IF action' = [p \in Profiles |-> RestoredAction(p)] THEN Next1("group") ELSE UNCHANGED script
  /\ UNCHANGED <<snapshot, wanted, ghosts>>

\* One Set-NetFirewallProfile per profile, while the allow rules are in place.
RestoreDefaults ==
  /\ script.op = "unblock" /\ script.at = "defaults"
  /\ \E ps \in SUBSET Profiles :
       action' = [p \in Profiles |-> IF p \in ps THEN RestoredAction(p) ELSE action[p]]
  /\ IF action' = [p \in Profiles |-> RestoredAction(p)] THEN Next1("group") ELSE UNCHANGED script
  /\ UNCHANGED <<group, snapshot, wanted, ghosts>>

DropGroup ==
  /\ script.op = "unblock" /\ script.at = "group" /\ Next1("files")
  /\ group' = "none"
  /\ UNCHANGED <<action, snapshot, wanted, ghosts>>

\* A snapshot that could not be read stays where it is.
DropFiles ==
  /\ script.op = "unblock" /\ script.at = "files" /\ Done1("unblocked")
  /\ snapshot' = IF snapshot.file = "saved" THEN Absent ELSE snapshot
  /\ wanted' = "none" /\ ours' = "none" /\ drifted' = FALSE
  /\ UNCHANGED <<action, group, before>>

-----------------------------------------------------------------------------
\* A line of a script fails, or the process dies: the lines before it stand.
StopsShort ==
  /\ script.op \in {"apply", "unblock"} /\ script.at # "files"
  /\ script' = Quiescent
  /\ \/ UNCHANGED snapshot
     \/ script.at = "snapshot" /\ snapshot' = Corrupt
  /\ UNCHANGED <<action, group, wanted, ghosts>>

\* Slip: the group is evidence enough.
GroupIsEnough ==
  /\ script.op = "none"
  /\ script' = [Quiescent EXCEPT !.result = "answered", !.answer = (group # "none")]
  /\ UNCHANGED <<action, group, snapshot, wanted, ghosts>>

\* IsBlocked asks once, for the group and the profiles together.  Without a
\* record of what Apply set it falls back on the group alone.
IsBlocked ==
  /\ script.op = "none"
  /\ script' = [Quiescent EXCEPT !.result = "answered",
                 !.answer = (group # "none" /\ (wanted = "none" \/ action = AllAt(wanted)))]
  /\ UNCHANGED <<action, group, snapshot, wanted, ghosts>>

\* Group Policy, another tool or an administrator sets a profile's action.
SomebodySets(p, a) ==
  /\ script.op = "none" /\ a # action[p]
  /\ action' = [action EXCEPT ![p] = a]
  /\ before' = IF snapshot.file = "absent" THEN action' ELSE before
  /\ drifted' = (drifted \/ snapshot.file # "absent")
  /\ script' = Quiescent
  /\ UNCHANGED <<group, snapshot, wanted, ours>>

WfpNext ==
  \/ \E a \in Actions : AskToApply(a)
  \/ SnapshotDefaults \/ RemoveGroup \/ AddRules \/ SetDefault
  \/ \E written \in BOOLEAN : RecordAction(written)
  \/ BeginUnblock \/ RestoreDefaults \/ DropGroup \/ DropFiles
  \/ StopsShort \/ IsBlocked
  \/ \E p \in Profiles, a \in Actions : SomebodySets(p, a)

WfpSpec == WfpInit /\ [][WfpNext]_wfpVars

-----------------------------------------------------------------------------
WfpTypeOK ==
  /\ action \in [Profiles -> Actions] /\ group \in {"none", "some", "all"}
  /\ snapshot.file \in {"absent", "corrupt", "saved"} /\ wanted \in Actions \cup {"none"}

\* Nobody is stranded: a teardown that reports success leaves no profile at Block
\* that was not at Block before, however many applies failed or died half-way
\* and even if the snapshot can no longer be read.
NobodyIsStranded ==
  script.result = "unblocked" =>
    \A p \in Profiles : action[p] = "Block" => before[p] = "Block"

\* ... and while it runs there is never the moment the order of its two scripts
\* is there to avoid, a Block default whose allow rules are gone.
NoLockoutOnTheWayOut ==
  [][(script.op = "unblock" /\ group # "none" /\ group' = "none")
       => \A p \in Profiles : action[p] = "Block" => before[p] = "Block"]_wfpVars

\* IsBlocked does not take the group for the boundary: where Apply's record could
\* be kept, rules whose default somebody opened do not count as a block, and a
\* block nobody touched is never reported missing.
DriftIsSeen ==
  (script.result = "answered" /\ group = "all" /\ ours # "none") =>
    /\ (~drifted /\ action = AllAt(ours)) => script.answer
    /\ (wanted = ours /\ action # AllAt(ours)) => ~script.answer

\* What the Windows backend promises.
WfpPromise ==
  [](WfpTypeOK /\ NobodyIsStranded /\ DriftIsSeen) /\ NoLockoutOnTheWayOut
=============================================================================
