---------------------------- MODULE AppliedRules ----------------------------
(***************************************************************************)
(* applied-rules.json, the account dezhban keeps of the ruleset it last    *)
(* installed: written by the daemon's recordingBackend around every call   *)
(* of the firewall, and by the commands that act on the firewall beside it *)
(* (block, unblock, panic).  Each writer changes the rules first and the   *)
(* record after, so a crash, a full disk or another writer can come        *)
(* between the two; a record that cannot even be removed stays.            *)
(***************************************************************************)
EXTENDS Naturals, FiniteSets

CONSTANT RuleTexts          \* what Apply may be given

VARIABLES
  installed,         \* the ruleset last installed, or None
  account,           \* the ruleset on record, or None
  arPhase,           \* of each writer: "off", "idle", or between two of its steps
  arGiven,           \* the ruleset each writer is at
  trusted,           \* history: every writer since the last start has finished alone
  unremoved          \* history: the last thing tried on the record is a failed removal

arVars == <<installed, account, arPhase, arGiven, trusted, unremoved>>

None == "none"
Partial == "partial"       \* what a teardown that fails half way may leave
Writers == {"daemon", "command"}
Mid == {"installed", "unsaved", "removed"}

ArTypeOK ==
  /\ installed \in RuleTexts \cup {None, Partial} /\ account \in RuleTexts \cup {None}
  /\ arPhase \in [Writers -> Mid \cup {"off", "idle"}]
  /\ arGiven \in [Writers -> RuleTexts \cup {None}]
  /\ trusted \in BOOLEAN /\ unremoved \in BOOLEAN

ArInit ==
  /\ installed \in RuleTexts \cup {None} /\ account \in RuleTexts \cup {None}
  /\ arPhase = [w \in Writers |-> "off"] /\ arGiven = [w \in Writers |-> None]
  /\ trusted = FALSE /\ unremoved = FALSE

\* Nobody else is between its rules and its record.
Alone(w) == \A v \in Writers \ {w} : arPhase[v] \notin Mid

Move(w, phase, ruleset) ==
  /\ arPhase' = [arPhase EXCEPT ![w] = phase]
  /\ arGiven' = [arGiven EXCEPT ![w] = ruleset]
  /\ trusted' = (trusted /\ Alone(w))

-----------------------------------------------------------------------------
\* applied.Save, and a removal that goes through or is only warned about.
Recorded(r) == account' = r /\ unremoved' = FALSE
Emptied ==
  \/ account' = None /\ unremoved' = FALSE
  \/ account # None /\ UNCHANGED account /\ unremoved' = TRUE

\* Slip: the record is written before the rules.
RecordFirst(w, r) ==
  /\ arPhase[w] = "idle"
  /\ Recorded(r) /\ Move(w, "idle", None)
  /\ installed' \in {r, installed}

\* Apply: a call the firewall refuses leaves rules and record alone.
Install(w, r) ==
  /\ arPhase[w] = "idle"
  /\ \/ installed' = r /\ Move(w, "installed", r)
     \/ UNCHANGED <<installed, arPhase, arGiven, trusted>>
  /\ UNCHANGED <<account, unremoved>>

Record(w) ==
  /\ arPhase[w] = "installed"
  /\ \/ Recorded(arGiven[w]) /\ Move(w, "idle", None)
     \/ Move(w, "unsaved", None) /\ UNCHANGED <<account, unremoved>>
  /\ UNCHANGED installed

\* Slip: a record that could not be replaced is left standing.
LeaveIt(w) ==
  /\ arPhase[w] = "unsaved"
  /\ Move(w, "idle", None)
  /\ UNCHANGED <<installed, account, unremoved>>

\* The old record names rules that are gone: better none.
DropStale(w) ==
  /\ arPhase[w] = "unsaved"
  /\ Emptied /\ Move(w, "idle", None)
  /\ UNCHANGED installed

\* Unblock and Cleanup, which may fail anywhere.
TearDown(w) ==
  /\ arPhase[w] = "idle"
  /\ installed' \in {None, Partial, installed}
  /\ Move(w, "removed", None)
  /\ UNCHANGED <<account, unremoved>>

\* Slip: after a teardown that failed the record stays too.
ClearIfGone(w) ==
  /\ arPhase[w] = "removed"
  /\ IF installed = None THEN Emptied ELSE UNCHANGED <<account, unremoved>>
  /\ Move(w, "idle", None)
  /\ UNCHANGED installed

Clear(w) ==
  /\ arPhase[w] = "removed"
  /\ Emptied /\ Move(w, "idle", None)
  /\ UNCHANGED installed

\* A start: the first thing the daemon does is to install its guard or, in standby, to
\* clear what a run before it left; a startup the firewall refuses ends it.
ArStart ==
  /\ arPhase["daemon"] = "off"
  /\ \/ \E r \in RuleTexts : installed' = r /\ arPhase' = [arPhase EXCEPT !["daemon"] = "installed"]
                            /\ arGiven' = [arGiven EXCEPT !["daemon"] = r]
     \/ /\ installed' \in {None, Partial, installed}
        /\ arPhase' = [arPhase EXCEPT !["daemon"] = "removed"] /\ UNCHANGED arGiven
  /\ trusted' = Alone("daemon")
  /\ UNCHANGED <<account, unremoved>>

\* A stop at any step, or a power cut that takes the rules with it.
ArCrash ==
  /\ arPhase' = [w \in Writers |-> "off"] /\ arGiven' = [w \in Writers |-> None]
  /\ installed' \in {None, installed}
  /\ trusted' = FALSE
  /\ UNCHANGED <<account, unremoved>>

\* block, unblock or panic, run beside the daemon.
CommandRuns ==
  /\ arPhase["command"] = "off"
  /\ arPhase' = [arPhase EXCEPT !["command"] = "idle"]
  /\ UNCHANGED <<installed, account, arGiven, trusted, unremoved>>
CommandExits ==
  /\ arPhase["command"] = "idle"
  /\ arPhase' = [arPhase EXCEPT !["command"] = "off"]
  /\ UNCHANGED <<installed, account, arGiven, trusted, unremoved>>

ArNext ==
  \/ \E w \in Writers :
       \/ \E r \in RuleTexts : Install(w, r)
       \/ Record(w) \/ DropStale(w) \/ TearDown(w) \/ Clear(w)
  \/ ArStart \/ ArCrash \/ CommandRuns \/ CommandExits

ArSpec == ArInit /\ [][ArNext]_arVars

-----------------------------------------------------------------------------
\* Nobody is between the rules and the record, and nobody was while another was.
Settled == trusted /\ \A w \in Writers : arPhase[w] \notin Mid

\* Once the daemon has made its first step, and as long as no two writers were between
\* their rules and their record at the same time, the record names the rules installed last
\* or nothing, whatever refuses, fails or was left by runs before: unless the last thing
\* tried on it was a removal, and failed.
RecordIsTrue == Settled /\ ~unremoved => account \in {None, installed}

\* What the record promises.
RecordPromise == ArTypeOK /\ RecordIsTrue

\* "A stale ruleset cannot be read as current after an Unblock or Cleanup".
StaleIsNeverCurrent == Settled => account \in {None, installed}
=============================================================================
