----------------------------- MODULE HostProofs -----------------------------
(***************************************************************************)
(* What the files dezhban keeps on its host promise, for all rulesets,     *)
(* versions, records, settings and answers: the record of the installed    *)
(* rules is true or empty, the stash of an upgrade keeps the version that  *)
(* works, the log loses no record it holds, what runs is valid and told    *)
(* truly, and the wizard saves what was answered.                          *)
(***************************************************************************)
EXTENDS AppliedRules, Upgrade, LogFiles, Configuration, SequenceTheorems, TLAPS

-----------------------------------------------------------------------------
(* The record of the rules.                                                *)

\* Of the writers only one is between its rules and its record, ...
OneAtATime == \A v, w \in Writers : arPhase[v] \in Mid /\ arPhase[w] \in Mid => v = w
\* ... one that is about to record holds what is installed, ...
HoldsInstalled == \A w \in Writers : arPhase[w] = "installed" => installed = arGiven[w]
\* ... and with none in between the record is true.
ArInv ==
  ArTypeOK /\ (trusted => OneAtATime /\ HoldsInstalled) /\ RecordIsTrue

\* What a step of one writer may be, for the record to stay true.
LEMMA WriterStep ==
  ASSUME ArInv, NEW w \in Writers, NEW to, NEW given,
         Move(w, to, given),
         to = "installed" => installed' = given,
         to \notin Mid /\ trusted => unremoved' \/ account' \in {None, installed'}
  PROVE  (trusted' => OneAtATime' /\ HoldsInstalled') /\ RecordIsTrue'
  <1> SUFFICES ASSUME trusted'
               PROVE  OneAtATime' /\ HoldsInstalled' /\ RecordIsTrue'
    BY DEF RecordIsTrue, Settled
  <1>1. trusted /\ \A v \in Writers \ {w} : arPhase[v] \notin Mid
    BY DEF Move, Alone
  <1>2. /\ arPhase'[w] = to /\ arGiven'[w] = given
        /\ \A v \in Writers \ {w} : arPhase'[v] = arPhase[v] /\ arGiven'[v] = arGiven[v]
    BY DEF ArInv, ArTypeOK, Move
  <1>3. OneAtATime'
    BY <1>1, <1>2 DEF OneAtATime
  <1>4. HoldsInstalled'
    BY <1>1, <1>2 DEF HoldsInstalled, Mid
  <1>5. RecordIsTrue'
    BY <1>1, <1>2 DEF RecordIsTrue, Settled
  <1>6. QED
    BY <1>3, <1>4, <1>5

\* Moving a writer keeps the types.
LEMMA MoveType ==
  ASSUME ArTypeOK, NEW w \in Writers, NEW to \in Mid \cup {"idle"},
         NEW given \in RuleTexts \cup {None}, Move(w, to, given),
         installed' \in RuleTexts \cup {None, Partial}, account' \in RuleTexts \cup {None},
         unremoved' \in BOOLEAN
  PROVE  ArTypeOK'
  BY DEF ArTypeOK, Move, Alone

\* A step that only lets a command come or go.
LEMMA ComesOrGoes ==
  ASSUME ArInv, NEW to \in {"off", "idle"},
         arPhase["command"] \notin Mid,
         arPhase' = [arPhase EXCEPT !["command"] = to],
         UNCHANGED <<installed, account, arGiven, trusted, unremoved>>
  PROVE  ArInv'
  <1>1. ArTypeOK'
    BY DEF ArInv, ArTypeOK, Writers
  <1>2. \A w \in Writers : \/ arPhase'[w] = arPhase[w]
                           \/ arPhase'[w] \notin Mid /\ arPhase[w] \notin Mid
    <2>1. arPhase'["command"] = to /\ to \notin Mid
      BY DEF ArInv, ArTypeOK, Writers, Mid
    <2>2. arPhase'["daemon"] = arPhase["daemon"]
      BY DEF ArInv, ArTypeOK, Writers
    <2>3. QED
      BY <2>1, <2>2 DEF Writers
  <1>3. OneAtATime => OneAtATime'
    BY <1>2 DEF OneAtATime
  <1>4. HoldsInstalled => HoldsInstalled'
    BY <1>2 DEF HoldsInstalled, Mid
  <1>5. RecordIsTrue'
    BY <1>2 DEF ArInv, RecordIsTrue, Settled
  <1>6. QED
    BY <1>1, <1>3, <1>4, <1>5 DEF ArInv

\* Each step of a writer, each start and each crash keeps the record true.
LEMMA ArStep == ArInv /\ [ArNext]_arVars => ArInv'
  <1> SUFFICES ASSUME ArInv, [ArNext]_arVars PROVE ArInv'
    OBVIOUS
  <1>1. ASSUME NEW w \in Writers, NEW r \in RuleTexts, Install(w, r) PROVE ArInv'
    <2>1. CASE installed' = r /\ Move(w, "installed", r)
      <3>1. UNCHANGED <<account, unremoved>>
        BY <1>1 DEF Install
      <3>2. ArTypeOK'
        BY <2>1, <3>1, MoveType DEF ArInv, ArTypeOK, Mid
      <3>3. QED
        BY <2>1, <3>2, WriterStep DEF ArInv, Mid
    <2>2. CASE UNCHANGED <<installed, arPhase, arGiven, trusted>>
      BY <1>1, <2>2
      DEF Install, ArInv, ArTypeOK, OneAtATime, HoldsInstalled, RecordIsTrue, Settled
    <2>3. QED
      BY <1>1, <2>1, <2>2 DEF Install
  <1>2. ASSUME NEW w \in Writers, Record(w) PROVE ArInv'
    <2>1. CASE Recorded(arGiven[w]) /\ Move(w, "idle", None)
      <3>1. account' = arGiven[w] /\ unremoved' = FALSE
        BY <2>1 DEF Recorded
      <3>2. trusted => account' \in {None, installed'}
        BY <1>2, <3>1 DEF Record, ArInv, HoldsInstalled
      <3>3. ArTypeOK'
        BY <1>2, <2>1, <3>1, MoveType DEF Record, ArInv, ArTypeOK
      <3>4. QED
        BY <2>1, <3>2, <3>3, WriterStep DEF ArInv
    <2>2. CASE Move(w, "unsaved", None) /\ UNCHANGED <<account, unremoved>>
      <3>1. ArTypeOK'
        BY <1>2, <2>2, MoveType DEF Record, ArInv, ArTypeOK, Mid
      <3>2. QED
        BY <2>2, <3>1, WriterStep DEF ArInv, Mid
    <2>3. QED
      BY <1>2, <2>1, <2>2 DEF Record
  <1>3. ASSUME NEW w \in Writers, DropStale(w) \/ Clear(w) PROVE ArInv'
    <2>1. Emptied /\ Move(w, "idle", None) /\ UNCHANGED installed
      BY <1>3 DEF DropStale, Clear
    <2>2. /\ account' \in {account, None} /\ unremoved' \in BOOLEAN
          /\ unremoved' \/ account' = None
      BY <2>1 DEF Emptied
    <2>3. ArTypeOK'
      BY <2>1, <2>2, MoveType DEF ArInv, ArTypeOK
    <2>4. QED
      BY <2>1, <2>2, <2>3, WriterStep DEF ArInv
  <1>4. ASSUME NEW w \in Writers, TearDown(w) PROVE ArInv'
    <2>1. ArTypeOK'
      BY <1>4, MoveType DEF TearDown, ArInv, ArTypeOK, Mid
    <2>2. QED
      BY <1>4, <2>1, WriterStep DEF TearDown, ArInv, Mid
  <1>5. CASE ArStart
    <2>1. PICK to \in {"installed", "removed"} :
            /\ arPhase' = [arPhase EXCEPT !["daemon"] = to]
            /\ to = "installed" => installed' = arGiven'["daemon"]
      BY <1>5 DEF ArStart, ArInv, ArTypeOK, Writers
    <2>2. ArTypeOK'
      BY <1>5 DEF ArStart, ArInv, ArTypeOK, Writers, Mid, Alone
    <2>3. trusted' => arPhase["command"] \notin Mid
      BY <1>5 DEF ArStart, Alone, Writers
    <2>4. arPhase'["daemon"] = to /\ arPhase'["command"] = arPhase["command"]
      BY <2>1 DEF ArInv, ArTypeOK, Writers
    <2>5. trusted' => OneAtATime' /\ HoldsInstalled'
      BY <2>1, <2>3, <2>4 DEF OneAtATime, HoldsInstalled, Writers, Mid
    <2>6. RecordIsTrue'
      BY <2>4 DEF RecordIsTrue, Settled, Writers, Mid
    <2>7. QED
      BY <2>2, <2>5, <2>6 DEF ArInv
  <1>6. CASE ArCrash
    BY <1>6 DEF ArCrash, ArInv, ArTypeOK, RecordIsTrue, Settled
  <1>7. CASE CommandRuns \/ CommandExits
    BY <1>7, ComesOrGoes DEF CommandRuns, CommandExits, Mid
  <1>8. CASE UNCHANGED arVars
    BY <1>8 DEF arVars, ArInv, ArTypeOK, OneAtATime, HoldsInstalled, RecordIsTrue, Settled
  <1>9. QED
    BY <1>1, <1>2, <1>3, <1>4, <1>5, <1>6, <1>7, <1>8 DEF ArNext

\* The record names the rules installed last, or nothing, for any rulesets and whatever
\* refuses, fails to save, crashes or was left by earlier runs, as long as no two writers
\* overlapped since the daemon's start and unless the last attempt on it was a removal that
\* failed.
THEOREM RecordKeepsPromise == ArSpec => []RecordPromise
  <1>1. ArInit => ArInv
    BY DEF ArInit, ArInv, ArTypeOK, RecordIsTrue, Settled
  <1>2. ArInv => RecordPromise
    BY DEF ArInv, RecordPromise
  <1>3. QED
    BY <1>1, <1>2, ArStep, PTL DEF ArSpec

-----------------------------------------------------------------------------
(* The stash of an upgrade.                                                *)

\* While only version 1 has run:
OnlyFirst == started = {1}

\* it is what ran and what was published last; ...
FirstIsPublished == OnlyFirst => running \in {1, Gone} /\ snapshotOf.version = 1
\* ... it is copied before anything is installed over it, and restored from the copy, ...
Copying == {"installing", "activating", "stopping", "starting", "waiting", "restoring"}
FirstIsCopied ==
  OnlyFirst => /\ binary = 1 \/ stash = 1
               /\ phase = "stashing" => binary = 1
               /\ phase \in Copying => stash = 1
               /\ phase = "returning" => binary = 1
\* ... and what the command waits for has been started.
RestartedIsStarted ==
  /\ phase \in {"starting", "waiting"} /\ running # Gone => running \in started
  /\ phase = "starting" /\ running # Gone => running = binary
  /\ phase = "waiting" => binary \in started

\* The package waits until the installer has run.
PackageWaits == phase \in {"stashing", "installing"} => staged # Gone

UpInv ==
  /\ UpTypeOK /\ 1 \in started
  /\ FirstIsPublished /\ FirstIsCopied /\ RestartedIsStarted /\ PackageWaits

\* Nothing that ran is forgotten.
LEMMA FirstBefore ==
  ASSUME UpInv, [UpNext]_upVars, OnlyFirst'
  PROVE  OnlyFirst
  <1>1. started \subseteq started'
    BY DEF UpNext, upVars, Publishes, ProcessEnds, Ended, ProcessStarts, Launched, Download,
           BeginApply, StashCurrent, RunInstaller, Activate, StopOld, StartNew, RestartFails,
           ReportsHealthy, WaitTimesOut, RestoreStash, RestartOld, Interrupt
  <1>2. QED
    BY <1>1 DEF OnlyFirst, UpInv

\* Each step of the command, each start and stop of the daemon keeps the invariant.
LEMMA UpStep == UpInv /\ [UpNext]_upVars => UpInv'
  <1> SUFFICES ASSUME UpInv, [UpNext]_upVars PROVE UpInv'
    OBVIOUS
  <1> USE FirstBefore, UpgradeAssumption
      DEF UpInv, UpTypeOK, FirstIsPublished, FirstIsCopied, RestartedIsStarted,
          PackageWaits, OnlyFirst, Copying, Versions, Gone, Phases
  <1>1. CASE Publishes
    BY <1>1 DEF Publishes
  <1>2. CASE ProcessEnds
    BY <1>2 DEF ProcessEnds, Ended
  <1>3. CASE ProcessStarts
    BY <1>3 DEF ProcessStarts, Launched
  <1>4. ASSUME NEW v \in Versions, Download(v) PROVE UpInv'
    BY <1>4 DEF Download
  <1>5. CASE BeginApply
    <2>1. OnlyFirst => stash = Gone
      BY <1>5 DEF BeginApply, ClassifyStash, SemverLess
    <2>2. QED
      BY <1>5, <2>1 DEF BeginApply
  <1>6. CASE StashCurrent
    BY <1>6 DEF StashCurrent
  <1>7. ASSUME NEW activates \in BOOLEAN, RunInstaller(activates) PROVE UpInv'
    BY <1>7 DEF RunInstaller
  <1>8. CASE Activate
    BY <1>8 DEF Activate
  <1>9. CASE StopOld
    BY <1>9 DEF StopOld, Ended
  <1>10. CASE StartNew
    <2>1. running' = binary /\ started' = started \cup {binary}
      BY <1>10 DEF StartNew, Launched
    <2>2. QED
      BY <1>10, <2>1 DEF StartNew
  <1>11. CASE RestartFails \/ WaitTimesOut \/ Interrupt
    BY <1>11 DEF RestartFails, WaitTimesOut, Interrupt
  <1>12. CASE ReportsHealthy
    BY <1>12 DEF ReportsHealthy
  <1>13. CASE RestoreStash
    BY <1>13 DEF RestoreStash
  <1>14. CASE RestartOld
    BY <1>14 DEF RestartOld
  <1>15. CASE UNCHANGED upVars
    BY <1>15 DEF upVars
  <1>16. QED
    BY <1>1, <1>2, <1>3, <1>4, <1>5, <1>6, <1>7, <1>8, <1>9, <1>10, <1>11, <1>12, <1>13,
       <1>14, <1>15 DEF UpNext

\* Until another version has run, the one that works can be started again, for any
\* number of versions, of which any may be broken, and wherever an apply, an activation
\* or a rollback is deferred, fails or is interrupted.
THEOREM UpgradeKeepsPromise == UpSpec => []UpgradePromise
  <1>1. UpInit => UpInv
    BY UpgradeAssumption
    DEF UpInit, UpInv, UpTypeOK, FirstIsPublished, FirstIsCopied, RestartedIsStarted,
        PackageWaits, OnlyFirst, Copying, Versions, Gone, Phases
  <1>2. UpInv => UpgradePromise
    BY DEF UpInv, FirstIsCopied, OnlyFirst, UpgradePromise, RollbackOutlivesDeferral
  <1>3. QED
    BY <1>1, <1>2, UpStep, PTL DEF UpSpec

-----------------------------------------------------------------------------
(* The log and its archives.                                               *)

LogChain == [i \in Chain |-> FileAt(i)]
KeptChain == [i \in Chain |-> KeptAt(i)]
RecordsIn(f, S) == UNION {Range(f[i]) : i \in S}

\* The files f hold records up to n, each a run of them, an older file older ones; ...
Ordered(f, n) ==
  /\ \A i, j \in Chain : i > j => \A r \in Range(f[i]), q \in Range(f[j]) : r < q
  /\ \A i \in Chain : Consecutive(f[i])
  /\ RecordsIn(f, Chain) \subseteq 1 .. n
\* ... and hold the latest of them without a hole.
NoHole(f, n) ==
  /\ Ordered(f, n)
  /\ \A r \in RecordsIn(f, Chain) : r .. n \subseteq RecordsIn(f, Chain)
  /\ n > 0 => n \in RecordsIn(f, Chain)

\* The records of a file are numbers, found at its places; ...
LEMMA RangeOfRecords ==
  ASSUME NEW s \in Seq(Nat)
  PROVE  Range(s) = {s[i] : i \in DOMAIN s} /\ Range(s) \subseteq Nat
  <1>1. PICK n \in Nat : n = Len(s) /\ DOMAIN s = 1 .. n /\ s \in [1 .. n -> Nat]
    BY LenProperties
  <1>2. Range(s) = {s[i] : i \in DOMAIN s}
    BY DEF Range
  <1>3. QED
    BY <1>1, <1>2

\* ... an empty file has none.
LEMMA EmptyRange ==
  ASSUME NEW s \in Seq(Nat)
  PROVE  s = <<>> <=> Range(s) = {}
  <1>1. PICK n \in Nat : n = Len(s) /\ DOMAIN s = 1 .. n
    BY LenProperties
  <1>2. s = <<>> <=> n = 0
    BY <1>1, EmptySeq, LenProperties
  <1>3. Range(s) = {} <=> n = 0
    <2>1. n # 0 => 1 \in DOMAIN s
      BY <1>1
    <2>2. n = 0 => DOMAIN s = {}
      BY <1>1
    <2>3. QED
      BY <2>1, <2>2, Zenon DEF Range
  <1>4. QED
    BY <1>2, <1>3, Zenon

\* The missing file holds nothing.
LEMMA NoRecords == <<>> \in Seq(Nat) /\ Range(<<>>) = {}
  <1>1. <<>> \in Seq(Nat)
    OBVIOUS
  <1>2. QED
    BY <1>1, EmptyRange, Zenon

\* Dropping files disturbs no order.
LEMMA DropOrders ==
  ASSUME NEW f \in [Chain -> Seq(Nat)], NEW g \in [Chain -> Seq(Nat)], NEW n \in Nat,
         Ordered(f, n), \A i \in Chain : g[i] \in {f[i], <<>>}
  PROVE  Ordered(g, n)
  <1>1. \A i \in Chain : g[i] # f[i] => g[i] = <<>> /\ Range(g[i]) = {}
    BY NoRecords
  <1>2. RecordsIn(g, Chain) \subseteq RecordsIn(f, Chain)
    BY <1>1 DEF RecordsIn
  <1>3. \A i \in Chain : Consecutive(g[i])
    BY <1>1 DEF Ordered, Consecutive
  <1>4. \A i, j \in Chain : i > j => \A r \in Range(g[i]), q \in Range(g[j]) : r < q
    BY <1>1 DEF Ordered
  <1>5. QED
    BY <1>2, <1>3, <1>4 DEF Ordered

\* The files as functions of their number, and the invariant said of them.
LEMMA FilesAreHeld ==
  /\ \A i \in Chain : LogChain[i] = FileAt(i) /\ KeptChain[i] = KeptAt(i)
  /\ Held = RecordsIn(LogChain, Chain) /\ Kept = RecordsIn(KeptChain, Chain)
  /\ Ordered(LogChain, written) /\ NoHole(KeptChain, written)
       => HistoryHasNoHole /\ Held \subseteq 1 .. written
  <1>1. \A i \in Chain : LogChain[i] = FileAt(i) /\ KeptChain[i] = KeptAt(i)
    BY DEF LogChain, KeptChain
  <1>2. Held = RecordsIn(LogChain, Chain) /\ Kept = RecordsIn(KeptChain, Chain)
    BY <1>1 DEF Held, Kept, RecordsIn
  <1>3. QED
    BY <1>1, <1>2 DEF HistoryHasNoHole, OldestFirst, NoHole, Ordered

\* Dropping files, of which no older one is left, leaves no hole.
LEMMA DropOldest ==
  ASSUME NEW f \in [Chain -> Seq(Nat)], NEW g \in [Chain -> Seq(Nat)], NEW n \in Nat,
         NoHole(f, n), \A i \in Chain : g[i] \in {f[i], <<>>},
         \A i, j \in Chain : i < j /\ g[i] # f[i] => g[j] = <<>>,
         g[0] = f[0], n \in Range(f[0])
  PROVE  NoHole(g, n)
  <1> 0 \in Chain /\ Chain \subseteq Nat
    BY LogFilesAssumption DEF Chain
  <1>0. \A i \in Chain : g[i] # f[i] => g[i] = <<>> /\ Range(g[i]) = {}
    BY NoRecords
  <1>1. RecordsIn(g, Chain) \subseteq RecordsIn(f, Chain)
    BY <1>0 DEF RecordsIn
  <1>2. n \in RecordsIn(g, Chain)
    BY DEF RecordsIn
  <1>3. ASSUME NEW r \in RecordsIn(g, Chain), NEW q \in r .. n PROVE q \in RecordsIn(g, Chain)
    <2>1. PICK i \in Chain : r \in Range(g[i])
      BY DEF RecordsIn
    <2>2. g[i] = f[i] /\ r \in Range(f[i])
      BY <1>0, <2>1
    <2>3. r \in Nat
      BY <2>2, RangeOfRecords
    <2>4. PICK j \in Chain : q \in Range(f[j])
      <3>1. r \in RecordsIn(f, Chain)
        BY <1>1
      <3>2. q \in RecordsIn(f, Chain)
        BY <3>1 DEF NoHole
      <3>3. QED
        BY <3>2 DEF RecordsIn
    <2>5. ~(j > i)
      BY <2>2, <2>3, <2>4 DEF NoHole, Ordered
    <2>6. g[j] = f[j]
      <3>1. CASE j < i
        BY <2>1, <3>1, NoRecords
      <3>2. CASE j = i
        BY <2>2, <3>2
      <3>3. QED
        BY <2>5, <3>1, <3>2
    <2>7. QED
      BY <2>4, <2>6 DEF RecordsIn
  <1>4. Ordered(g, n)
    BY DropOrders DEF NoHole
  <1>5. QED
    BY <1>2, <1>3, <1>4 DEF NoHole

\* Renaming a file to the next older name reorders nothing, ...
LEMMA RenameOrders ==
  ASSUME NEW f \in [Chain -> Seq(Nat)], NEW n \in Nat, Ordered(f, n),
         NEW s \in Chain, s + 1 \in Chain,
         NEW g \in [Chain -> Seq(Nat)], g[s + 1] = f[s], g[s] = <<>>,
         \A i \in Chain \ {s, s + 1} : g[i] = f[i]
  PROVE  Ordered(g, n)
  <1> Chain \subseteq Nat
    BY DEF Chain
  <1>1. Range(g[s]) = {}
    BY NoRecords
  <1>2. ASSUME NEW i \in Chain, NEW r \in Range(g[i])
        PROVE  i # s /\ r \in Range(f[IF i = s + 1 THEN s ELSE i])
    BY <1>1
  <1>3. RecordsIn(g, Chain) \subseteq RecordsIn(f, Chain)
    <2>1. ASSUME NEW r \in RecordsIn(g, Chain) PROVE r \in RecordsIn(f, Chain)
      <3>1. PICK i \in Chain : r \in Range(g[i])
        BY DEF RecordsIn
      <3>2. r \in Range(f[IF i = s + 1 THEN s ELSE i])
        BY <1>2, <3>1
      <3>3. QED
        BY <3>2 DEF RecordsIn
    <2>2. QED
      BY <2>1
  <1>4. \A i \in Chain : Consecutive(g[i])
    <2>1. \A i \in Chain : i # s => \E j \in Chain : g[i] = f[j]
      BY Zenon
    <2>2. Consecutive(g[s])
      BY DEF Consecutive
    <2>3. QED
      BY <2>1, <2>2 DEF Ordered
  <1>5. ASSUME NEW i \in Chain, NEW j \in Chain, i > j,
               NEW r \in Range(g[i]), NEW q \in Range(g[j])
        PROVE  r < q
    <2>1. /\ i # s /\ j # s
          /\ r \in Range(f[IF i = s + 1 THEN s ELSE i]) /\ q \in Range(f[IF j = s + 1 THEN s ELSE j])
      BY <1>2
    <2>2. (IF i = s + 1 THEN s ELSE i) > (IF j = s + 1 THEN s ELSE j)
      BY <1>5, <2>1
    <2>3. QED
      BY <2>1, <2>2 DEF Ordered
  <1>6. QED
    BY <1>3, <1>4, <1>5 DEF Ordered

\* ... and loses nothing where that name is free.
LEMMA RenameKeeps ==
  ASSUME NEW f \in [Chain -> Seq(Nat)], NEW n \in Nat, NoHole(f, n),
         NEW s \in Chain, s + 1 \in Chain, f[s + 1] = <<>>,
         NEW g \in [Chain -> Seq(Nat)], g[s + 1] = f[s], g[s] = <<>>,
         \A i \in Chain \ {s, s + 1} : g[i] = f[i]
  PROVE  NoHole(g, n)
  <1> Chain \subseteq Nat
    BY DEF Chain
  <1>1. Range(f[s + 1]) = {} /\ Range(g[s]) = {}
    BY NoRecords
  <1>2. RecordsIn(g, Chain) = RecordsIn(f, Chain)
    <2>1. ASSUME NEW r \in RecordsIn(g, Chain) PROVE r \in RecordsIn(f, Chain)
      <3>1. PICK i \in Chain : r \in Range(g[i])
        BY DEF RecordsIn
      <3>2. r \in Range(f[IF i = s + 1 THEN s ELSE i])
        BY <1>1, <3>1
      <3>3. QED
        BY <3>2 DEF RecordsIn
    <2>2. ASSUME NEW r \in RecordsIn(f, Chain) PROVE r \in RecordsIn(g, Chain)
      <3>1. PICK i \in Chain : r \in Range(f[i])
        BY DEF RecordsIn
      <3>2. r \in Range(g[IF i = s THEN s + 1 ELSE i])
        BY <1>1, <3>1
      <3>3. QED
        BY <3>2 DEF RecordsIn
    <2>3. QED
      BY <2>1, <2>2
  <1>3. Ordered(g, n)
    BY RenameOrders DEF NoHole
  <1>4. QED
    BY <1>2, <1>3 DEF NoHole

\* Two runs of records of which the second begins after the first are one run.
LEMMA RunsConcatenate ==
  ASSUME NEW s \in Seq(Nat), NEW u \in Seq(Nat), Consecutive(s), Consecutive(u),
         \A x \in Range(s), y \in Range(u) : x < y,
         u # <<>> => \A x \in Range(s) : x + 1 \in Range(s) \cup Range(u)
  PROVE  /\ s \o u \in Seq(Nat) /\ Consecutive(s \o u)
         /\ Range(s \o u) = Range(s) \cup Range(u)
  <1>1. s \o u \in Seq(Nat) /\ Range(s \o u) = Range(s) \cup Range(u)
    BY RangeConcatenation, ConcatProperties
  <1>2. PICK t \in Seq(Nat) : t = s \o u
    BY <1>1
  <1>3. PICK a \in Nat : a = Len(s) /\ DOMAIN s = 1 .. a /\ s \in [1 .. a -> Nat]
    BY LenProperties
  <1>4. PICK b \in Nat : b = Len(u) /\ DOMAIN u = 1 .. b /\ u \in [1 .. b -> Nat]
    BY LenProperties
  <1>5. PICK z \in Nat : z = Len(t) /\ DOMAIN t = 1 .. z
    BY LenProperties
  <1>6. z = a + b /\ \A i \in 1 .. a + b : t[i] = IF i <= a THEN s[i] ELSE u[i - a]
    BY <1>2, <1>3, <1>4, <1>5, ConcatProperties
  <1>7. Range(s) = {s[k] : k \in 1 .. a} /\ Range(u) = {u[k] : k \in 1 .. b}
    BY <1>3, <1>4 DEF Range
  <1>8. \A i \in 1 .. a : s[i] + 1 = s[1] + i /\ s[i] \in Nat
    BY <1>3 DEF Consecutive
  <1>9. \A i \in 1 .. b : u[i] + 1 = u[1] + i /\ u[i] \in Nat
    BY <1>4 DEF Consecutive
  <1>10. ASSUME a # 0, b # 0 PROVE u[1] = s[1] + a
    <2>1. a \in 1 .. a /\ 1 \in 1 .. a /\ 1 \in 1 .. b /\ u # <<>>
      BY <1>4, <1>10, EmptySeq
    <2>2. PICK p, q \in Nat : p = s[1] /\ q = u[1] /\ s[a] + 1 = p + a
      BY <1>8, <1>9, <2>1
    <2>3. s[a] \in Range(s) /\ q \in Range(u) /\ s[a] \in Nat
      BY <1>7, <1>8, <2>1, <2>2
    <2>4. p + a \in Range(s) \cup Range(u) /\ s[a] < q
      BY <2>1, <2>2, <2>3
    <2>5. ASSUME NEW k \in 1 .. a PROVE s[k] # p + a
      <3>1. s[k] + 1 = s[1] + k /\ s[k] \in Nat
        BY <1>8
      <3>2. k \in Nat /\ k <= a
        OBVIOUS
      <3>3. s[k] + 1 = p + k
        BY <2>2, <3>1
      <3>4. QED
        BY <3>1, <3>2, <3>3
    <2>6. PICK k \in 1 .. b : u[k] = p + a
      BY <1>7, <2>4, <2>5
    <2>7. p + a + 1 = q + k
      BY <1>9, <2>2, <2>6
    <2>8. q = p + a
      <3>1. p + a < q + 1 /\ k \in Nat /\ 1 <= k
        BY <2>2, <2>3, <2>4
      <3>2. QED
        BY <2>7, <3>1
    <2>9. QED
      BY <2>2, <2>8
  <1>11. ASSUME NEW i \in 1 .. a + b PROVE t[i] + 1 = t[1] + i
    <2>1. CASE i <= a
      <3>1. i \in 1 .. a /\ 1 \in 1 .. a /\ 1 \in 1 .. a + b
        BY <2>1
      <3>2. t[i] = s[i] /\ t[1] = s[1]
        BY <1>6, <3>1
      <3>3. QED
        BY <1>8, <3>1, <3>2
    <2>2. ASSUME ~(i <= a), NEW k \in 1 .. b, i = a + k PROVE t[i] + 1 = t[1] + i
      <3>1. i - a = k /\ 1 \in 1 .. b /\ 1 \in 1 .. a + b /\ b # 0
        BY <2>2
      <3>2. t[i] = u[k] /\ u[k] + 1 = u[1] + k /\ u[1] \in Nat
        BY <1>6, <1>9, <2>2, <3>1
      <3>3. CASE a = 0
        BY <1>6, <2>2, <3>1, <3>2, <3>3
      <3>4. CASE a # 0
        <4>1. t[1] = s[1] /\ s[1] \in Nat
          BY <1>6, <1>8, <3>1, <3>4
        <4>2. u[1] = s[1] + a
          BY <1>10, <3>1, <3>4
        <4>3. QED
          BY <2>2, <3>2, <4>1, <4>2
      <3>5. QED
        BY <3>3, <3>4
    <2>3. ~(i <= a) => i - a \in 1 .. b /\ i = a + (i - a)
      OBVIOUS
    <2>4. QED
      BY <2>1, <2>2, <2>3
  <1>12. Consecutive(t)
    BY <1>5, <1>6, <1>11 DEF Consecutive
  <1>13. QED
    BY <1>1, <1>2, <1>12

\* A record appended to the live file is the next one.
LEMMA AppendKeeps ==
  ASSUME NEW f \in [Chain -> Seq(Nat)], NEW n \in Nat, NoHole(f, n),
         NEW g \in [Chain -> Seq(Nat)], g[0] = Append(f[0], n + 1),
         \A i \in Chain \ {0} : g[i] = f[i]
  PROVE  NoHole(g, n + 1) /\ Range(g[0]) = Range(f[0]) \cup {n + 1}
  <1> 0 \in Chain /\ Chain \subseteq Nat
    BY LogFilesAssumption DEF Chain
  <1>1. \A i \in Chain : Range(f[i]) \subseteq 1 .. n
    BY DEF NoHole, Ordered, RecordsIn
  <1>2. ASSUME NEW x \in Range(f[0]) PROVE x < n + 1 /\ x + 1 \in Range(f[0]) \cup {n + 1}
    <2>1. x \in 1 .. n /\ x \in RecordsIn(f, Chain)
      BY <1>1 DEF RecordsIn
    <2>2. CASE x < n
      <3>1. x + 1 \in x .. n
        BY <2>1, <2>2
      <3>2. PICK j \in Chain : x + 1 \in Range(f[j])
        <4>1. x + 1 \in RecordsIn(f, Chain)
          BY <2>1, <3>1 DEF NoHole, Ordered
        <4>2. QED
          BY <4>1 DEF RecordsIn
      <3>3. ~(j > 0)
        BY <2>1, <3>2 DEF NoHole, Ordered
      <3>4. QED
        BY <2>1, <3>2, <3>3
    <2>3. QED
      BY <2>1, <2>2
  <1>3. PICK u \in Seq(Nat) : u = <<n + 1>> /\ Range(u) = {n + 1} /\ Consecutive(u)
    <2>1. <<n + 1>> \in Seq(Nat) /\ DOMAIN <<n + 1>> = {1} /\ <<n + 1>>[1] = n + 1
      OBVIOUS
    <2>2. Range(<<n + 1>>) = {n + 1} /\ Consecutive(<<n + 1>>)
      BY <2>1, Zenon DEF Range, Consecutive
    <2>3. QED
      BY <2>1, <2>2
  <1>4. g[0] = f[0] \o u /\ f[0] \in Seq(Nat)
    <2>1. f[0] \in Seq(Nat) /\ n + 1 \in Nat
      OBVIOUS
    <2>2. QED
      BY <1>3, <2>1, AppendIsConcat
  <1>5. Consecutive(g[0]) /\ Range(g[0]) = Range(f[0]) \cup {n + 1}
    <2>1. Consecutive(f[0])
      BY DEF NoHole, Ordered
    <2>2. \A x \in Range(f[0]), y \in Range(u) : x < y
      BY <1>2, <1>3
    <2>3. \A x \in Range(f[0]) : x + 1 \in Range(f[0]) \cup Range(u)
      BY <1>2, <1>3
    <2>4. QED
      BY <1>3, <1>4, <2>1, <2>2, <2>3, RunsConcatenate, Zenon
  <1>6. RecordsIn(g, Chain) = RecordsIn(f, Chain) \cup {n + 1}
    BY <1>5 DEF RecordsIn
  <1>7. \A i \in Chain : Consecutive(g[i])
    BY <1>5 DEF NoHole, Ordered
  <1>8. ASSUME NEW i \in Chain, NEW j \in Chain, i > j,
               NEW r \in Range(g[i]), NEW q \in Range(g[j])
        PROVE  r < q
    <2>1. i # 0 /\ r \in Range(f[i]) /\ r \in 1 .. n
      BY <1>1, <1>8
    <2>2. q \in Range(f[j]) \/ q = n + 1
      BY <1>5
    <2>3. QED
      BY <1>8, <2>1, <2>2 DEF NoHole, Ordered
  <1>9. ASSUME NEW r \in RecordsIn(g, Chain) PROVE r .. n + 1 \subseteq RecordsIn(g, Chain)
    <2>1. r = n + 1 \/ (r \in 1 .. n /\ r .. n \subseteq RecordsIn(f, Chain))
      BY <1>6 DEF NoHole, Ordered
    <2>2. QED
      BY <1>6, <2>1
  <1>10. RecordsIn(g, Chain) \subseteq 1 .. n + 1 /\ n + 1 \in RecordsIn(g, Chain)
    BY <1>6 DEF NoHole, Ordered
  <1>11. QED
    BY <1>5, <1>7, <1>8, <1>9, <1>10 DEF NoHole, Ordered

\* What is read of ordered files is in order.
LEMMA ReadOnInOrder ==
  ASSUME NEW f \in [Chain -> Seq(Nat)], NEW n \in Nat, Ordered(f, n),
         NEW c \in Chain, NEW s \in Seq(Nat), Increasing(s),
         Range(s) = RecordsIn(f, c + 1 .. FileBackups)
  PROVE  /\ s \o f[c] \in Seq(Nat) /\ Increasing(s \o f[c])
         /\ Range(s \o f[c]) = RecordsIn(f, c .. FileBackups)
  <1> Chain \subseteq Nat /\ FileBackups \in Nat /\ c .. FileBackups \subseteq Chain
      /\ c .. FileBackups = {c} \cup (c + 1 .. FileBackups)
    BY LogFilesAssumption DEF Chain
  <1>1. PICK u \in Seq(Nat) : u = f[c]
    OBVIOUS
  <1>2. Range(s) \cup Range(u) = RecordsIn(f, c .. FileBackups)
    BY <1>1 DEF RecordsIn
  <1>3. s \o u \in Seq(Nat) /\ Range(s \o u) = Range(s) \cup Range(u)
    BY RangeConcatenation, ConcatProperties
  <1>4. ASSUME NEW x \in Range(s), NEW y \in Range(u) PROVE x < y
    <2>1. PICK i \in c + 1 .. FileBackups : x \in Range(f[i])
      BY DEF RecordsIn
    <2>2. i \in Chain /\ i > c
      BY DEF Chain
    <2>3. QED
      BY <1>1, <2>1, <2>2 DEF Ordered
  <1>5. PICK t \in Seq(Nat) : t = s \o u
    BY <1>3
  <1>6. PICK a \in Nat : a = Len(s) /\ DOMAIN s = 1 .. a /\ s \in [1 .. a -> Nat]
    BY LenProperties
  <1>7. PICK b \in Nat : b = Len(u) /\ DOMAIN u = 1 .. b /\ u \in [1 .. b -> Nat]
    BY LenProperties
  <1>8. PICK z \in Nat : z = Len(t) /\ DOMAIN t = 1 .. z
    BY LenProperties
  <1>9. z = a + b /\ \A i \in 1 .. a + b : t[i] = IF i <= a THEN s[i] ELSE u[i - a]
    BY <1>5, <1>6, <1>7, <1>8, ConcatProperties
  <1>10. ASSUME NEW i \in 1 .. b, NEW j \in 1 .. b, i < j PROVE u[i] < u[j]
    <2>1. u[i] + 1 = u[1] + i /\ u[j] + 1 = u[1] + j
      BY <1>1, <1>7 DEF Ordered, Consecutive
    <2>2. PICK p, q, d \in Nat : p = u[i] /\ q = u[j] /\ d = u[1]
      BY <1>7
    <2>3. p + 1 = d + i /\ q + 1 = d + j /\ i < j /\ i \in Nat /\ j \in Nat
      BY <1>10, <2>1, <2>2
    <2>4. p < q
      BY ONLY <2>3, p \in Nat, q \in Nat, d \in Nat
    <2>5. QED
      BY <2>2, <2>4
  <1>11. ASSUME NEW i \in 1 .. a + b, NEW j \in 1 .. a + b, i < j PROVE t[i] < t[j]
    <2>1. CASE j <= a
      <3>1. i \in 1 .. a /\ j \in 1 .. a
        BY <1>11, <2>1
      <3>2. QED
        BY <1>6, <1>9, <1>11, <3>1 DEF Increasing
    <2>2. CASE i <= a /\ ~(j <= a)
      <3>1. i \in 1 .. a /\ j - a \in 1 .. b
        BY <2>2
      <3>2. s[i] \in Range(s) /\ u[j - a] \in Range(u)
        BY <1>6, <1>7, <3>1 DEF Range
      <3>3. QED
        BY <1>4, <1>9, <2>2, <3>2
    <2>3. CASE ~(i <= a)
      <3>1. i - a \in 1 .. b /\ j - a \in 1 .. b /\ i - a < j - a /\ ~(j <= a)
        BY <1>11, <2>3
      <3>2. QED
        BY <1>9, <1>10, <2>3, <3>1
    <2>4. QED
      BY <2>1, <2>2, <2>3
  <1>12. Increasing(t)
    BY <1>8, <1>9, <1>11 DEF Increasing
  <1>13. QED
    BY <1>1, <1>2, <1>3, <1>5, <1>12

\* Reading the next newer file: what is read stays one run of records.
LEMMA ReadOn ==
  ASSUME NEW f \in [Chain -> Seq(Nat)], NEW n \in Nat, NoHole(f, n),
         NEW c \in Chain, NEW s \in Seq(Nat), Consecutive(s),
         Range(s) = RecordsIn(f, c + 1 .. FileBackups)
  PROVE  /\ s \o f[c] \in Seq(Nat) /\ Consecutive(s \o f[c])
         /\ Range(s \o f[c]) = RecordsIn(f, c .. FileBackups)
  <1> Chain \subseteq Nat /\ FileBackups \in Nat /\ c .. FileBackups \subseteq Chain
      /\ c .. FileBackups = {c} \cup (c + 1 .. FileBackups)
    BY LogFilesAssumption DEF Chain
  <1>1. Range(s) \cup Range(f[c]) = RecordsIn(f, c .. FileBackups)
    BY DEF RecordsIn
  <1>2. ASSUME NEW x \in Range(s), NEW y \in Range(f[c]) PROVE x < y
    <2>1. PICK i \in c + 1 .. FileBackups : x \in Range(f[i])
      BY DEF RecordsIn
    <2>2. i \in Chain /\ i > c
      BY DEF Chain
    <2>3. QED
      BY <2>1, <2>2 DEF NoHole, Ordered
  <1>3. ASSUME f[c] # <<>>, NEW x \in Range(s) PROVE x + 1 \in Range(s) \cup Range(f[c])
    <2>1. PICK y : y \in Range(f[c])
      BY <1>3, EmptyRange
    <2>2. x \in RecordsIn(f, Chain) /\ y \in RecordsIn(f, Chain)
      BY <1>1, <2>1 DEF RecordsIn
    <2>3. x \in 1 .. n /\ y \in 1 .. n /\ x < y
      BY <1>2, <2>1, <2>2 DEF NoHole, Ordered
    <2>4. x + 1 \in x .. n
      BY <2>3
    <2>5. PICK p \in Chain : x + 1 \in Range(f[p])
      BY <2>2, <2>4 DEF NoHole, Ordered, RecordsIn
    <2>6. ~(p < c)
      BY <2>1, <2>3, <2>5 DEF NoHole, Ordered
    <2>7. p \in c .. FileBackups
      BY <2>6 DEF Chain
    <2>8. QED
      BY <1>1, <2>5, <2>7 DEF RecordsIn
  <1>4. Consecutive(f[c])
    BY DEF NoHole, Ordered
  <1>5. QED
    BY <1>1, <1>2, <1>3, <1>4, RunsConcatenate

\* The files hold records.
LEMMA FilesAreSeqs ==
  LogTypeOK => LogChain \in [Chain -> Seq(Nat)] /\ KeptChain \in [Chain -> Seq(Nat)]
  <1> SUFFICES ASSUME LogTypeOK
               PROVE  LogChain \in [Chain -> Seq(Nat)] /\ KeptChain \in [Chain -> Seq(Nat)]
    OBVIOUS
  <1>1. Seq(1 .. MaxRecords) \subseteq Seq(Nat)
    BY LogFilesAssumption, SeqMonotonic
  <1>2. \A i \in Chain \ {0} : i \in Archives
    BY LogFilesAssumption DEF Chain, Archives
  <1>3. \A i \in Chain : FileAt(i) \in Seq(Nat)
    BY <1>1, <1>2 DEF LogTypeOK, FileAt
  <1>4. \A i \in Chain : KeptAt(i) \in Seq(Nat)
    BY <1>3, NoRecords DEF KeptAt
  <1>5. QED
    BY <1>3, <1>4 DEF LogChain, KeptChain

\* The same in the next state.
LEMMA FilesNext ==
  /\ (LogTypeOK => LogChain \in [Chain -> Seq(Nat)] /\ KeptChain \in [Chain -> Seq(Nat)])'
  /\ (/\ \A i \in Chain : LogChain[i] = FileAt(i) /\ KeptChain[i] = KeptAt(i)
      /\ Held = RecordsIn(LogChain, Chain) /\ Kept = RecordsIn(KeptChain, Chain)
      /\ Ordered(LogChain, written) /\ NoHole(KeptChain, written)
           => HistoryHasNoHole /\ Held \subseteq 1 .. written)'
  BY FilesAreSeqs, FilesAreHeld, PTL

\* The latest record is in the live file, unless that is empty.
LEMMA LiveIsLatest ==
  ASSUME NEW f \in [Chain -> Seq(Nat)], NEW n \in Nat, NoHole(f, n), f[0] # <<>>
  PROVE  n \in Range(f[0])
  <1> 0 \in Chain /\ Chain \subseteq Nat
    BY LogFilesAssumption DEF Chain
  <1>1. PICK b : b \in Range(f[0])
    BY EmptyRange
  <1>2. b \in 1 .. n
    BY <1>1 DEF NoHole, Ordered, RecordsIn
  <1>3. PICK j \in Chain : n \in Range(f[j])
    BY <1>2 DEF NoHole, Ordered, RecordsIn
  <1>4. ~(j > 0)
    BY <1>1, <1>2, <1>3 DEF NoHole, Ordered
  <1>5. QED
    BY <1>3, <1>4

\* What a rotation under way may rely on: ...
RotationIsSafe ==
  /\ rotating = "no" /\ handleOpen => size = Len(logLive)
  /\ rotating # "no" => written < MaxRecords
  /\ rotating \in {"shift", "live"} =>
       /\ logLive # <<>>
       /\ \A i, j \in Archives : KeptAt(i) # <<>> /\ KeptAt(j) # <<>> => i = j
  /\ rotating = "shift" /\ shifting # 0 =>
       shifting = 1 /\ FileBackups = 2 /\ KeptAt(2) = <<>>
  /\ rotating = "open" => logLive = <<>>
\* ... and a reader whom nothing disturbed: it has read all of the older files.
ReadSoFar ==
  cursor # Done /\ ~problem /\ ~disturbed =>
    /\ Range(found) = RecordsIn(LogChain, cursor + 1 .. FileBackups)
    /\ IF undropped THEN Increasing(found) ELSE Consecutive(found)

FilesInv == Ordered(LogChain, written) /\ NoHole(KeptChain, written) /\ began <= written
LogInv == LogTypeOK /\ FilesInv /\ RotationIsSafe /\ ReadIsWhole /\ ReadSoFar

\* A step that leaves the files and what is read of them.
LEMMA FilesStay ==
  ASSUME LogInv, UNCHANGED <<logFiles, written, undropped, reader, disturbed, began>>
  PROVE  FilesInv' /\ ReadIsWhole' /\ ReadSoFar'
  <1>1. LogChain' = LogChain /\ KeptChain' = KeptChain /\ Held' = Held
    BY DEF LogChain, KeptChain, Held, KeptAt, FileAt, logFiles
  <1>2. ReadIsWhole' /\ ReadSoFar'
    BY <1>1 DEF LogInv, ReadIsWhole, ReadSoFar, reader
  <1>3. FilesInv'
    BY <1>1 DEF LogInv, FilesInv
  <1>4. QED
    BY <1>2, <1>3

\* A step that appends the next record to the live file.
LEMMA AppendStep ==
  ASSUME LogInv, written < MaxRecords,
         logLive' = Append(logLive, written + 1), written' = written + 1,
         UNCHANGED <<archives, undropped, reader, disturbed, began>>
  PROVE  /\ logLive' \in Seq(1 .. MaxRecords) /\ written' \in 0 .. MaxRecords
         /\ logLive' # <<>> /\ Len(logLive') = Len(logLive) + 1
         /\ FilesInv' /\ ReadIsWhole' /\ ReadSoFar'
  <1>1. /\ written \in Nat /\ written + 1 \in 1 .. MaxRecords /\ logLive \in Seq(1 .. MaxRecords)
        /\ MaxRecords \in Nat /\ began \in Nat /\ FileBackups \in Nat \ {0} /\ 0 \in Chain
    BY LogFilesAssumption DEF LogInv, LogTypeOK, Chain
  <1>2. /\ logLive' \in Seq(1 .. MaxRecords) /\ logLive' # <<>>
        /\ Len(logLive') = Len(logLive) + 1
    BY <1>1, AppendProperties
  <1>3. written' \in 0 .. MaxRecords /\ began' <= written' /\ began <= written
    BY <1>1 DEF LogInv, FilesInv
  <1>4. /\ LogChain \in [Chain -> Seq(Nat)] /\ KeptChain \in [Chain -> Seq(Nat)]
        /\ Ordered(LogChain, written) /\ NoHole(KeptChain, written)
        /\ Held = RecordsIn(LogChain, Chain)
        /\ \A i \in Chain : LogChain[i] = FileAt(i) /\ KeptChain[i] = KeptAt(i)
    BY FilesAreHeld, FilesAreSeqs DEF LogInv, FilesInv
  <1>5. /\ LogChain' \in [Chain -> Seq(Nat)] /\ KeptChain' \in [Chain -> Seq(Nat)]
    <2>1. Seq(1 .. MaxRecords) \subseteq Seq(Nat)
      BY <1>1, SeqMonotonic
    <2>2. \A i \in Chain : FileAt(i)' \in Seq(Nat)
      <3>1. FileAt(0)' = logLive' /\ \A i \in Chain \ {0} : FileAt(i)' = FileAt(i)
        BY DEF FileAt
      <3>2. QED
        BY <1>2, <1>4, <2>1, <3>1
    <2>3. \A i \in Chain : KeptAt(i)' \in Seq(Nat)
      BY <2>2, NoRecords DEF KeptAt
    <2>4. QED
      BY <2>2, <2>3 DEF LogChain, KeptChain
  <1>6. /\ \A i \in Chain \ {0} : LogChain'[i] = LogChain[i] /\ KeptChain'[i] = KeptChain[i]
        /\ LogChain'[0] = Append(LogChain[0], written + 1)
        /\ KeptChain'[0] = Append(KeptChain[0], written + 1)
        /\ LogChain'[0] = KeptChain'[0] /\ LogChain[0] = KeptChain[0]
    <2>1. /\ FileAt(0) = logLive /\ KeptAt(0) = logLive
          /\ FileAt(0)' = logLive' /\ KeptAt(0)' = logLive'
      BY <1>1 DEF FileAt, KeptAt
    <2>2. \A i \in Chain \ {0} : FileAt(i)' = FileAt(i) /\ KeptAt(i)' = KeptAt(i)
      BY DEF FileAt, KeptAt
    <2>3. \A i \in Chain : LogChain'[i] = FileAt(i)' /\ KeptChain'[i] = KeptAt(i)'
      BY FilesNext
    <2>4. QED
      BY <1>1, <1>4, <2>1, <2>2, <2>3
  <1>7. /\ NoHole(KeptChain', written + 1)
        /\ Range(KeptChain'[0]) = Range(KeptChain[0]) \cup {written + 1}
    BY <1>1, <1>4, <1>5, <1>6, AppendKeeps
  <1>8. Range(LogChain'[0]) = Range(LogChain[0]) \cup {written + 1}
    BY <1>6, <1>7
  <1>9. Ordered(LogChain', written + 1) /\ Held' = Held \cup {written + 1}
    <2>1. Held' = RecordsIn(LogChain', Chain)
      BY FilesNext
    <2>2. RecordsIn(LogChain', Chain) = RecordsIn(LogChain, Chain) \cup {written + 1}
      BY <1>1, <1>6, <1>8 DEF RecordsIn
    <2>3. RecordsIn(LogChain', Chain) \subseteq 1 .. written + 1
      BY <1>1, <1>4, <2>2 DEF Ordered
    <2>4. \A i \in Chain : Consecutive(LogChain'[i])
      BY <1>4, <1>6, <1>7 DEF Ordered, NoHole
    <2>5. ASSUME NEW i \in Chain, NEW j \in Chain, i > j,
                 NEW r \in Range(LogChain'[i]), NEW q \in Range(LogChain'[j])
          PROVE  r < q
      <3>1. i \in Nat /\ j \in Nat /\ i # 0
        BY <2>5 DEF Chain
      <3>2. r \in Range(LogChain[i])
        BY <1>6, <3>1
      <3>3. r \in 1 .. written
        BY <1>4, <3>2 DEF Ordered, RecordsIn
      <3>4. CASE q \in Range(LogChain[j])
        BY <1>4, <2>5, <3>2, <3>4 DEF Ordered
      <3>5. CASE q = written + 1
        BY <1>1, <3>3, <3>5
      <3>6. QED
        BY <1>6, <1>8, <3>4, <3>5
    <2>6. QED
      BY <1>4, <2>1, <2>2, <2>3, <2>4, <2>5 DEF Ordered
  <1>10. ReadIsWhole'
    <2>1. /\ found' = found /\ cursor' = cursor /\ problem' = problem /\ disturbed' = disturbed
          /\ undropped' = undropped /\ began' = began
      BY DEF reader
    <2>2. Held' \cap (1 .. began) = Held \cap (1 .. began)
      <3>1. written + 1 \notin 1 .. began
        BY <1>1, <1>3
      <3>2. QED
        BY <1>9, <3>1
    <2>3. QED
      BY <1>9, <2>1, <2>2 DEF LogInv, ReadIsWhole
  <1>11. ReadSoFar'
    <2>1. RecordsIn(LogChain', cursor + 1 .. FileBackups)
          = RecordsIn(LogChain, cursor + 1 .. FileBackups)
      <3>1. cursor + 1 .. FileBackups \subseteq Chain \ {0}
        BY LogFilesAssumption DEF LogInv, LogTypeOK, Chain
      <3>2. QED
        BY <1>6, <3>1 DEF RecordsIn
    <2>2. QED
      BY <2>1 DEF LogInv, ReadSoFar, reader
  <1>12. QED
    BY <1>2, <1>3, <1>7, <1>9, <1>10, <1>11 DEF FilesInv

\* A step that moves or drops files: it disturbs the reader, and what it leaves is in order
\* and, but for what should be gone, without a hole.
LEMMA DisturbingStep ==
  ASSUME LogInv, disturbed' = TRUE, UNCHANGED <<written, began, reader>>,
         Ordered(LogChain', written), NoHole(KeptChain', written)
  PROVE  FilesInv' /\ ReadIsWhole' /\ ReadSoFar'
  BY DEF LogInv, FilesInv, ReadIsWhole, ReadSoFar

\* A write, a rotation and what a reader asks for keep the invariant.
LEMMA LogStep == LogInv /\ [LogNext]_logVars => LogInv'
  <1> SUFFICES ASSUME LogInv, [LogNext]_logVars PROVE LogInv'
    OBVIOUS
  <1> USE LogFilesAssumption
  <1>1. /\ LogChain \in [Chain -> Seq(Nat)] /\ KeptChain \in [Chain -> Seq(Nat)]
        /\ Ordered(LogChain, written) /\ NoHole(KeptChain, written) /\ written \in Nat
        /\ Held = RecordsIn(LogChain, Chain)
        /\ \A i \in Chain : LogChain[i] = FileAt(i) /\ KeptChain[i] = KeptAt(i)
    BY FilesAreHeld, FilesAreSeqs DEF LogInv, FilesInv, LogTypeOK
  <1>2. 0 \in Chain /\ Chain = {0} \cup Archives /\ 1 \in Archives /\ FileBackups \in Archives
        /\ Archives \subseteq {1, 2}
    BY DEF Chain, Archives
  <1>3. CASE AppendRecord
    <2>1. /\ logLive' \in Seq(1 .. MaxRecords) /\ written' \in 0 .. MaxRecords
          /\ Len(logLive') = Len(logLive) + 1
          /\ FilesInv' /\ ReadIsWhole' /\ ReadSoFar'
      BY <1>3, AppendStep DEF AppendRecord
    <2>2. LogTypeOK'
      BY <1>3, <2>1 DEF AppendRecord, reader, LogInv, LogTypeOK
    <2>3. RotationIsSafe'
      BY <1>3, <2>1 DEF AppendRecord, LogInv, RotationIsSafe
    <2>4. QED
      BY <2>1, <2>2, <2>3 DEF LogInv
  <1>4. CASE StartRotation
    <2>1. LogTypeOK'
      <3>1. <<>> \in Seq(1 .. MaxRecords) /\ FileBackups - 1 \in 0 .. FileBackups
        BY EmptySeq
      <3>2. archives' \in [Archives -> Seq(1 .. MaxRecords)] /\ undropped' \in BOOLEAN
        BY <1>4, <3>1 DEF StartRotation, OldestFallsOff, LogInv, LogTypeOK
      <3>3. rotating' \in {"shift", "reopen"} /\ shifting' \in 0 .. FileBackups
        BY <1>4, <3>1 DEF StartRotation, LogInv, LogTypeOK
      <3>4. QED
        BY <1>4, <3>2, <3>3 DEF StartRotation, reader, LogInv, LogTypeOK
    <2>2. CASE handleOpen /\ rotating' = "shift" /\ shifting' = FileBackups - 1 /\ OldestFallsOff
      <3>1. logLive # <<>>
        <4>1. size = Len(logLive) /\ size # 0
          BY <1>4, <2>2 DEF StartRotation, LogInv, LogTypeOK, RotationIsSafe
        <4>2. QED
          BY <4>1, EmptySeq
      <3>2. /\ archives'[FileBackups] \in {archives[FileBackups], <<>>}
            /\ archives'[FileBackups] # <<>> => undropped'
            /\ \A i \in Archives \ {FileBackups} : archives'[i] = archives[i]
        BY <1>2, <2>2 DEF OldestFallsOff, LogInv, LogTypeOK
      <3>3. /\ LogChain' \in [Chain -> Seq(Nat)] /\ KeptChain' \in [Chain -> Seq(Nat)]
            /\ LogChain'[FileBackups] \in {LogChain[FileBackups], <<>>}
            /\ KeptChain'[FileBackups] = <<>>
            /\ \A i \in Chain \ {FileBackups} :
                 LogChain'[i] = LogChain[i] /\ KeptChain'[i] = KeptChain[i]
        <4>1. \A i \in Chain : LogChain'[i] = FileAt(i)' /\ KeptChain'[i] = KeptAt(i)'
          BY FilesNext
        <4>2. \A i \in Chain \ {FileBackups} : FileAt(i)' = FileAt(i) /\ KeptAt(i)' = KeptAt(i)
          BY <1>2, <1>4, <3>2 DEF FileAt, KeptAt, StartRotation
        <4>3. FileAt(FileBackups)' \in {FileAt(FileBackups), <<>>} /\ KeptAt(FileBackups)' = <<>>
          BY <1>2, <3>2 DEF FileAt, KeptAt
        <4>4. LogChain' \in [Chain -> Seq(Nat)] /\ KeptChain' \in [Chain -> Seq(Nat)]
          BY <2>1, FilesNext
        <4>5. FileBackups \in Chain /\ Chain \ {FileBackups} \subseteq Chain
          BY <1>2
        <4>6. /\ LogChain'[FileBackups] = FileAt(FileBackups)'
              /\ KeptChain'[FileBackups] = KeptAt(FileBackups)'
              /\ LogChain[FileBackups] = FileAt(FileBackups)
          BY <1>1, <4>1, <4>5
        <4>7. \A i \in Chain \ {FileBackups} :
                LogChain'[i] = LogChain[i] /\ KeptChain'[i] = KeptChain[i]
          BY <1>1, <4>1, <4>2
        <4>8. QED
          BY <4>3, <4>4, <4>6, <4>7
      <3>4. written \in Range(KeptChain[0]) /\ KeptChain'[0] = KeptChain[0]
        <4>1. 0 \in Chain \ {FileBackups}
          BY <1>2
        <4>2. KeptChain[0] = logLive
          BY <1>1, <1>2, <4>1 DEF FileAt, KeptAt
        <4>3. QED
          BY <1>1, <3>1, <3>3, <4>1, <4>2, LiveIsLatest
      <3>5. NoHole(KeptChain', written)
        <4>1. \A i \in Chain : KeptChain'[i] \in {KeptChain[i], <<>>}
          BY <3>3
        <4>2. \A i, j \in Chain : i < j /\ KeptChain'[i] # KeptChain[i] => KeptChain'[j] = <<>>
          <5>1. ASSUME NEW i \in Chain, NEW j \in Chain, i < j, KeptChain'[i] # KeptChain[i]
                PROVE  FALSE
            <6>1. i = FileBackups
              BY <3>3, <5>1
            <6>2. QED
              BY <5>1, <6>1, LogFilesAssumption DEF Chain
          <5>2. QED
            BY <5>1
        <4>3. QED
          BY <1>1, <3>3, <3>4, <4>1, <4>2, DropOldest
      <3>6. Ordered(LogChain', written)
        <4>1. \A i \in Chain : LogChain'[i] \in {LogChain[i], <<>>}
          BY <3>3
        <4>2. QED
          BY <1>1, <3>3, <4>1, DropOrders
      <3>7. RotationIsSafe'
        <4>1. \A i \in Archives : KeptAt(i)' # <<>> => i # FileBackups
          BY <1>2, <3>2 DEF FileAt, KeptAt
        <4>2. \A i, j \in Archives : KeptAt(i)' # <<>> /\ KeptAt(j)' # <<>> => i = j
          BY <4>1 DEF Archives
        <4>3. shifting' # 0 => shifting' = 1 /\ FileBackups = 2 /\ KeptAt(2)' = <<>>
          BY <1>2, <2>2, <4>1
        <4>4. QED
          BY <1>4, <2>2, <3>1, <4>2, <4>3 DEF StartRotation, RotationIsSafe
      <3>8. QED
        BY <1>4, <2>1, <3>5, <3>6, <3>7, DisturbingStep DEF StartRotation, LogInv
    <2>3. CASE rotating' = "reopen" /\ UNCHANGED <<shifting, archives, undropped>>
      <3>1. RotationIsSafe'
        BY <1>4, <2>3 DEF StartRotation, LogInv, RotationIsSafe
      <3>2. LogChain' = LogChain /\ KeptChain' = KeptChain
        BY <1>4, <2>3 DEF StartRotation, LogChain, KeptChain, FileAt, KeptAt
      <3>3. QED
        BY <1>1, <1>4, <2>1, <3>1, <3>2, DisturbingStep DEF StartRotation, LogInv
    <2>4. QED
      BY <1>4, <2>2, <2>3 DEF StartRotation
  <1>5. CASE Shift
    <2>1. CASE UNCHANGED <<archives, undropped>>
      <3>1. RotationIsSafe'
        <4>1. \A i \in Chain : KeptAt(i)' = KeptAt(i)
          BY <1>5, <2>1 DEF Shift, KeptAt, FileAt
        <4>2. 2 \in Archives => KeptAt(2)' = KeptAt(2)
          BY <1>2, <4>1
        <4>3. QED
          BY <1>2, <1>5, <2>1, <4>1, <4>2 DEF Shift, Rename, LogInv, LogTypeOK, RotationIsSafe
      <3>2. LogChain' = LogChain /\ KeptChain' = KeptChain
        BY <1>5, <2>1 DEF Shift, LogChain, KeptChain, FileAt, KeptAt
      <3>3. LogTypeOK'
        BY <1>5, <2>1 DEF Shift, Rename, reader, LogInv, LogTypeOK
      <3>4. QED
        BY <1>1, <1>5, <3>1, <3>2, <3>3, DisturbingStep DEF Shift, LogInv
    <2>2. CASE ~UNCHANGED <<archives, undropped>>
      <3>1. /\ shifting = 1 /\ FileBackups = 2 /\ KeptAt(2) = <<>> /\ shifting' = 0
            /\ archives' = [archives EXCEPT ![2] = archives[1], ![1] = <<>>]
            /\ archives[1] # <<>> /\ undropped' = FALSE
            /\ rotating' = "shift" /\ Archives = {1, 2} /\ Chain = {0, 1, 2}
        <4>1. shifting # 0 /\ rotating = "shift"
          BY <1>5, <2>2 DEF Shift
        <4>2. shifting = 1 /\ FileBackups = 2 /\ KeptAt(2) = <<>>
          BY <4>1 DEF LogInv, RotationIsSafe
        <4>3. Archives = {1, 2} /\ Chain = {0, 1, 2}
          BY <4>2 DEF Archives, Chain
        <4>4. /\ archives[1] # <<>> /\ Reached(2) /\ shifting' = 0 /\ rotating' = "shift"
              /\ archives' = [archives EXCEPT ![2] = archives[1], ![1] = <<>>]
          BY <1>5, <2>2, <4>1, <4>2 DEF Shift, Rename
        <4>5. QED
          BY <4>2, <4>3, <4>4 DEF Reached
      <3>2. archives'[2] = archives[1] /\ archives'[1] = <<>>
        BY <3>1 DEF LogInv, LogTypeOK
      <3>3. LogTypeOK'
        <4>1. archives' \in [Archives -> Seq(1 .. MaxRecords)]
          BY <3>1, EmptySeq DEF LogInv, LogTypeOK
        <4>2. undropped' \in BOOLEAN
          BY <3>1, Zenon
        <4>3. QED
          BY <1>5, <3>1, <4>1, <4>2 DEF Shift, reader, LogInv, LogTypeOK
      <3>4. /\ LogChain' \in [Chain -> Seq(Nat)] /\ KeptChain' \in [Chain -> Seq(Nat)]
            /\ LogChain'[0] = LogChain[0] /\ LogChain'[1] = <<>> /\ LogChain'[2] = LogChain[1]
            /\ KeptChain'[0] = KeptChain[0] /\ KeptChain'[1] = <<>>
            /\ KeptChain'[2] = KeptChain[1] /\ KeptChain[2] = <<>>
        <4>1. \A i \in Chain : LogChain'[i] = FileAt(i)' /\ KeptChain'[i] = KeptAt(i)'
          BY FilesNext
        <4>2. /\ FileAt(0)' = FileAt(0) /\ FileAt(1)' = <<>> /\ FileAt(2)' = FileAt(1)
              /\ KeptAt(0)' = KeptAt(0) /\ KeptAt(1)' = <<>> /\ KeptAt(2)' = KeptAt(1)
          BY <1>5, <3>1, <3>2 DEF FileAt, KeptAt, Shift
        <4>3. QED
          BY <1>1, <3>1, <3>3, <4>1, <4>2, FilesNext
      <3>5. NoHole(KeptChain', written) /\ Ordered(LogChain', written)
        <4>1. /\ 1 \in Chain /\ 1 + 1 \in Chain
              /\ KeptChain[1 + 1] = <<>> /\ KeptChain'[1 + 1] = KeptChain[1]
              /\ \A i \in Chain \ {1, 1 + 1} : KeptChain'[i] = KeptChain[i]
          BY <3>1, <3>4
        <4>2. /\ LogChain'[1 + 1] = LogChain[1]
              /\ \A i \in Chain \ {1, 1 + 1} : LogChain'[i] = LogChain[i]
          BY <3>1, <3>4
        <4>3. NoHole(KeptChain', written)
          BY <1>1, <3>4, <4>1, RenameKeeps
        <4>4. Ordered(LogChain', written)
          BY <1>1, <3>4, <4>1, <4>2, RenameOrders
        <4>5. QED
          BY <4>3, <4>4
      <3>6. RotationIsSafe'
        <4>1. KeptAt(1)' = <<>> /\ logLive' = logLive
          BY <1>5, <3>1, <3>2 DEF KeptAt, FileAt, Shift
        <4>2. \A i, j \in Archives : KeptAt(i)' # <<>> /\ KeptAt(j)' # <<>> => i = j
          BY <3>1, <4>1
        <4>3. QED
          BY <1>5, <3>1, <4>1, <4>2 DEF Shift, LogInv, RotationIsSafe
      <3>7. QED
        BY <1>5, <3>3, <3>5, <3>6, DisturbingStep DEF Shift, LogInv
    <2>3. QED
      BY <2>1, <2>2
  <1>6. CASE RotateLive
    <2>1. LogTypeOK'
      BY <1>2, <1>6, EmptySeq DEF RotateLive, Reached, logFiles, reader, LogInv, LogTypeOK
    <2>2. CASE rotating' = "reopen" /\ UNCHANGED <<logFiles, undropped>>
      <3>1. RotationIsSafe'
        BY <1>6, <2>2 DEF RotateLive, logFiles, LogInv, RotationIsSafe
      <3>2. LogChain' = LogChain /\ KeptChain' = KeptChain
        BY <2>2 DEF logFiles, LogChain, KeptChain, FileAt, KeptAt
      <3>3. QED
        BY <1>1, <1>6, <2>1, <3>1, <3>2, DisturbingStep DEF RotateLive, LogInv
    <2>3. CASE /\ rotating' = "open" /\ Reached(1)
               /\ archives' = [archives EXCEPT ![1] = logLive] /\ logLive' = <<>>
      <3>1. /\ archives'[1] = logLive
            /\ \A i \in Archives \ {1} : archives'[i] = archives[i]
        BY <1>2, <2>3 DEF LogInv, LogTypeOK
      <3>2. /\ LogChain' \in [Chain -> Seq(Nat)] /\ KeptChain' \in [Chain -> Seq(Nat)]
            /\ LogChain'[0] = <<>> /\ LogChain'[1] = LogChain[0]
            /\ \A i \in Chain \ {0, 1} : LogChain'[i] = LogChain[i]
            /\ KeptChain'[0] = <<>> /\ KeptChain'[1] = KeptChain[0]
            /\ \A i \in Chain \ {0, 1} : KeptChain'[i] = KeptChain[i]
        <4>1. \A i \in Chain : LogChain'[i] = FileAt(i)' /\ KeptChain'[i] = KeptAt(i)'
          BY FilesNext
        <4>2. LogChain' \in [Chain -> Seq(Nat)] /\ KeptChain' \in [Chain -> Seq(Nat)]
          BY <2>1, FilesNext
        <4>3. /\ FileAt(0) = logLive /\ FileAt(0)' = logLive' /\ FileAt(1)' = archives'[1]
              /\ KeptAt(0) = logLive /\ KeptAt(0)' = logLive' /\ KeptAt(1)' = archives'[1]
          <5>1. /\ FileAt(0) = logLive /\ FileAt(0)' = logLive' /\ FileAt(1)' = archives'[1]
                /\ KeptAt(0) = logLive /\ KeptAt(0)' = logLive'
            BY <1>2 DEF FileAt, KeptAt
          <5>2. KeptAt(1)' = archives'[1]
            BY <2>3, <5>1 DEF KeptAt, Reached
          <5>3. QED
            BY <5>1, <5>2
        <4>4. \A i \in Chain \ {0, 1} : FileAt(i)' = FileAt(i) /\ KeptAt(i)' = KeptAt(i)
          BY <1>2, <2>3, <3>1 DEF FileAt, KeptAt, Reached
        <4>5. QED
          BY <1>1, <1>2, <2>3, <3>1, <4>1, <4>2, <4>3, <4>4
      <3>3. written \in Range(KeptChain[0])
        <4>1. KeptChain[0] = logLive /\ logLive # <<>>
          BY <1>1, <1>2, <1>6 DEF FileAt, KeptAt, RotateLive, LogInv, RotationIsSafe
        <4>2. QED
          BY <1>1, <4>1, LiveIsLatest
      <3>4. PICK g \in [Chain -> Seq(Nat)] :
              g[1] = <<>> /\ \A i \in Chain \ {1} : g[i] = KeptChain[i]
        <4>1. [KeptChain EXCEPT ![1] = <<>>] \in [Chain -> Seq(Nat)]
          BY <1>1, NoRecords
        <4>2. /\ [KeptChain EXCEPT ![1] = <<>>][1] = <<>>
              /\ \A i \in Chain \ {1} : [KeptChain EXCEPT ![1] = <<>>][i] = KeptChain[i]
          BY <1>1, <1>2
        <4>3. QED
          BY <4>1, <4>2
      <3>5. NoHole(g, written)
        <4>1. g[0] = KeptChain[0]
          BY <1>2, <3>4
        <4>2. \A i \in Chain : g[i] \in {KeptChain[i], <<>>}
          BY <3>4
        <4>3. \A i, j \in Chain : i < j /\ g[i] # KeptChain[i] => g[j] = <<>>
          <5>1. ASSUME NEW i \in Chain, NEW j \in Chain, i < j, g[i] # KeptChain[i]
                PROVE  g[j] = <<>>
            <6>1. i = 1 /\ j = 2 /\ 2 \in Archives /\ g[2] = KeptChain[2]
              <7>1. i = 1
                BY <3>4, <5>1
              <7>2. j = 2 /\ 2 \in Archives
                BY <5>1, <7>1, LogFilesAssumption DEF Chain, Archives
              <7>3. QED
                BY <3>4, <5>1, <7>1, <7>2
            <6>2. KeptAt(1) # <<>>
              BY <1>1, <1>2, <3>4, <5>1, <6>1
            <6>3. KeptAt(2) = <<>>
              BY <1>2, <1>6, <6>1, <6>2 DEF RotateLive, LogInv, RotationIsSafe
            <6>4. QED
              BY <1>1, <1>2, <6>1, <6>3
          <5>2. QED
            BY <5>1
        <4>4. QED
          BY <1>1, <3>3, <3>4, <4>1, <4>2, <4>3, DropOldest
      <3>6. NoHole(KeptChain', written)
        <4>1. 0 \in Chain /\ 0 + 1 \in Chain /\ g[0 + 1] = <<>> /\ KeptChain'[0 + 1] = g[0]
              /\ KeptChain'[0] = <<>> /\ \A i \in Chain \ {0, 0 + 1} : KeptChain'[i] = g[i]
          <5>1. 0 \in Chain /\ 0 + 1 \in Chain /\ 0 + 1 = 1 /\ 0 \in Chain \ {1}
            BY <1>2
          <5>2. g[0] = KeptChain[0] /\ \A i \in Chain \ {0, 1} : g[i] = KeptChain[i]
            BY <3>4, <5>1
          <5>3. QED
            BY <3>2, <3>4, <5>1, <5>2
        <4>2. QED
          BY <1>1, <3>2, <3>4, <3>5, <4>1, RenameKeeps
      <3>7. Ordered(LogChain', written)
        <4>1. 0 \in Chain /\ 0 + 1 \in Chain /\ LogChain'[0 + 1] = LogChain[0]
              /\ LogChain'[0] = <<>> /\ \A i \in Chain \ {0, 0 + 1} : LogChain'[i] = LogChain[i]
          <5>1. 0 \in Chain /\ 0 + 1 \in Chain /\ 0 + 1 = 1
            BY <1>2
          <5>2. QED
            BY <3>2, <5>1
        <4>2. QED
          BY <1>1, <3>2, <4>1, RenameOrders
      <3>8. RotationIsSafe'
        BY <1>6, <2>3 DEF RotateLive, LogInv, RotationIsSafe
      <3>9. QED
        BY <1>6, <2>1, <3>6, <3>7, <3>8, DisturbingStep DEF RotateLive, LogInv
    <2>4. QED
      BY <1>6, <2>2, <2>3 DEF RotateLive
  <1>7. CASE OpenFresh
    <2>1. FilesInv' /\ ReadIsWhole' /\ ReadSoFar'
      BY <1>7, FilesStay DEF OpenFresh
    <2>2. LogTypeOK'
      <3>1. size' \in Nat /\ handleOpen' \in BOOLEAN /\ rotating' \in {"no", "reopen"}
        <4>1. CASE rotating' = "no" /\ size' = 0 /\ handleOpen' = TRUE
          BY <4>1
        <4>2. CASE rotating' = "reopen" /\ UNCHANGED <<size, handleOpen>>
          BY <4>2 DEF LogInv, LogTypeOK
        <4>3. QED
          BY <1>7, <4>1, <4>2 DEF OpenFresh
      <3>2. QED
        BY <1>7, <3>1 DEF OpenFresh, logFiles, reader, LogInv, LogTypeOK
    <2>3. RotationIsSafe'
      BY <1>7, EmptySeq DEF OpenFresh, logFiles, LogInv, RotationIsSafe
    <2>4. QED
      BY <2>1, <2>2, <2>3 DEF LogInv
  <1>8. CASE Reopen
    <2>1. CASE handleOpen'
      <3>1. /\ logLive' \in Seq(1 .. MaxRecords) /\ written' \in 0 .. MaxRecords
            /\ Len(logLive') = Len(logLive) + 1
            /\ FilesInv' /\ ReadIsWhole' /\ ReadSoFar'
        BY <1>8, <2>1, AppendStep DEF Reopen, AppendToWhatIsOpen, LogInv, RotationIsSafe
      <3>2. size' = Len(logLive') /\ size' \in Nat
        BY <1>8, <2>1, <3>1, LenProperties DEF Reopen, AppendToWhatIsOpen, LogInv, LogTypeOK
      <3>3. LogTypeOK'
        BY <1>8, <3>1, <3>2 DEF Reopen, reader, LogInv, LogTypeOK
      <3>4. RotationIsSafe'
        BY <1>8, <3>2 DEF Reopen, RotationIsSafe
      <3>5. QED
        BY <3>1, <3>3, <3>4 DEF LogInv
    <2>2. CASE ~handleOpen'
      <3>1. UNCHANGED <<logFiles, written, undropped, reader, disturbed, began>> /\ size' = size
        BY <1>8, <2>2 DEF Reopen, AppendToWhatIsOpen, logFiles
      <3>2. FilesInv' /\ ReadIsWhole' /\ ReadSoFar'
        BY <3>1, FilesStay
      <3>3. LogTypeOK'
        BY <1>8, <3>1 DEF Reopen, logFiles, reader, LogInv, LogTypeOK
      <3>4. RotationIsSafe'
        BY <1>8, <2>2 DEF Reopen, RotationIsSafe
      <3>5. QED
        BY <3>2, <3>3, <3>4 DEF LogInv
    <2>3. QED
      BY <2>1, <2>2
  <1>9. CASE WriterRestarts
    <2>1. FilesInv' /\ ReadIsWhole' /\ ReadSoFar'
      BY <1>9, FilesStay DEF WriterRestarts
    <2>2. LogTypeOK'
      <3>1. Len(logLive) \in Nat
        BY LenProperties DEF LogInv, LogTypeOK
      <3>2. QED
        BY <1>9, <3>1 DEF WriterRestarts, logFiles, reader, LogInv, LogTypeOK
    <2>3. RotationIsSafe'
      BY <1>9 DEF WriterRestarts, logFiles, RotationIsSafe
    <2>4. QED
      BY <2>1, <2>2, <2>3 DEF LogInv
  <1>10. CASE BeginRead
    <2>1. LogChain' = LogChain /\ KeptChain' = KeptChain
      BY <1>10 DEF BeginRead, logFiles, LogChain, KeptChain, FileAt, KeptAt
    <2>2. LogTypeOK' /\ began' <= written'
      <3>1. <<>> \in Seq(1 .. MaxRecords)
        BY EmptySeq
      <3>2. QED
        <4>1. /\ cursor' \in 0 .. Done /\ found' \in Seq(1 .. MaxRecords) /\ problem' \in BOOLEAN
              /\ disturbed' \in BOOLEAN /\ began' \in 0 .. MaxRecords /\ began' <= written'
          <5>1. disturbed' \in BOOLEAN
            BY <1>10, Zenon DEF BeginRead
          <5>2. written \in 0 .. MaxRecords
            BY DEF LogInv, LogTypeOK
          <5>3. FileBackups \in 0 .. FileBackups + 1
            OBVIOUS
          <5>4. /\ cursor' = FileBackups /\ found' = <<>> /\ problem' = FALSE
                /\ began' = written /\ written' = written
            BY <1>10 DEF BeginRead
          <5>5. began' <= written'
            BY <1>1, <5>4
          <5>6. QED
            BY <3>1, <5>1, <5>2, <5>3, <5>4, <5>5 DEF Done
        <4>2. QED
          BY <1>10, <4>1 DEF BeginRead, logFiles, writer, LogInv, LogTypeOK
    <2>3. cursor' = FileBackups /\ cursor' # Done /\ found' = <<>>
      BY <1>10 DEF BeginRead, Done
    <2>4. ReadIsWhole'
      BY <2>3 DEF ReadIsWhole
    <2>5. ReadSoFar'
      <3>1. RecordsIn(LogChain', cursor' + 1 .. FileBackups) = {}
        BY <2>3 DEF RecordsIn
      <3>2. Consecutive(<<>>) /\ Increasing(<<>>)
        BY DEF Consecutive, Increasing
      <3>3. QED
        BY <2>3, <3>1, <3>2, NoRecords DEF ReadSoFar
    <2>6. RotationIsSafe'
      BY <1>10 DEF BeginRead, logFiles, writer, KeptAt, FileAt, LogInv, RotationIsSafe
    <2>7. FilesInv'
      BY <1>10, <2>1, <2>2 DEF BeginRead, LogInv, FilesInv
    <2>8. QED
      BY <2>2, <2>4, <2>5, <2>6, <2>7 DEF LogInv
  <1>11. CASE ReadFile
    <2>1. /\ LogChain' = LogChain /\ KeptChain' = KeptChain /\ Held' = Held
          /\ written' = written /\ undropped' = undropped /\ began' = began
      BY <1>11 DEF ReadFile, logFiles, LogChain, KeptChain, Held, FileAt, KeptAt
    <2>2. cursor \in Chain /\ cursor' = (IF cursor = 0 THEN Done ELSE cursor - 1)
          /\ cursor' \in 0 .. Done
      BY <1>11 DEF ReadFile, NextFile, Chain, Done, LogInv, LogTypeOK
    <2>3. LogTypeOK'
      <3>1. FileAt(cursor) \in Seq(1 .. MaxRecords)
        BY <1>2, <2>2 DEF FileAt, LogInv, LogTypeOK
      <3>2. found \o FileAt(cursor) \in Seq(1 .. MaxRecords)
        BY <3>1, ConcatProperties DEF LogInv, LogTypeOK
      <3>3. QED
        BY <1>11, <2>2, <3>2 DEF ReadFile, logFiles, writer, LogInv, LogTypeOK
    <2>4. RotationIsSafe' /\ FilesInv'
      <3>1. RotationIsSafe'
        BY <1>11 DEF ReadFile, logFiles, writer, KeptAt, FileAt, LogInv, RotationIsSafe
      <3>2. QED
        BY <2>1, <3>1 DEF LogInv, FilesInv
    <2>5. ReadIsWhole' /\ ReadSoFar'
      <3>1. SUFFICES ASSUME ~problem', ~disturbed' PROVE ReadIsWhole' /\ ReadSoFar'
        BY DEF ReadIsWhole, ReadSoFar
      <3>2. found' = found \o LogChain[cursor] /\ ~problem /\ ~disturbed /\ cursor # Done
        <4>1. cursor # Done /\ disturbed' = disturbed
          BY <1>11 DEF ReadFile
        <4>2. ~(FileAt(cursor) # <<>> /\ problem' = TRUE /\ UNCHANGED found)
          BY <3>1
        <4>3. found' = found \o FileAt(cursor) /\ problem' = problem
          BY <1>11, <4>2 DEF ReadFile
        <4>4. QED
          BY <1>1, <2>2, <3>1, <4>1, <4>3
      <3>3. /\ found \in Seq(Nat) /\ Range(found) = RecordsIn(LogChain, cursor + 1 .. FileBackups)
            /\ IF undropped THEN Increasing(found) ELSE Consecutive(found)
        BY <3>2, SeqMonotonic DEF LogInv, LogTypeOK, ReadSoFar
      <3>4. /\ Range(found') = RecordsIn(LogChain, cursor .. FileBackups)
            /\ IF undropped THEN Increasing(found') ELSE Consecutive(found')
        <4>1. CASE undropped
          BY <1>1, <2>2, <3>2, <3>3, <4>1, ReadOnInOrder
        <4>2. CASE ~undropped
          <5>1. LogChain = KeptChain
            BY <4>2 DEF LogChain, KeptChain, KeptAt
          <5>2. QED
            BY <1>1, <2>2, <3>2, <3>3, <4>2, <5>1, ReadOn
        <4>3. QED
          BY <4>1, <4>2
      <3>5. CASE cursor = 0
        <4>1. cursor' = Done /\ Range(found') = Held
          BY <1>1, <2>2, <3>4, <3>5 DEF Chain
        <4>2. QED
          BY <2>1, <3>4, <4>1 DEF ReadIsWhole, ReadSoFar
      <3>6. CASE cursor # 0
        <4>1. cursor' = cursor - 1 /\ cursor' + 1 = cursor /\ cursor' # Done
          BY <2>2, <3>6 DEF Chain, Done
        <4>2. QED
          BY <2>1, <3>4, <4>1 DEF ReadIsWhole, ReadSoFar
      <3>7. QED
        BY <3>5, <3>6
    <2>6. QED
      BY <2>3, <2>4, <2>5 DEF LogInv
  <1>12. CASE UNCHANGED logVars
    <2>1. FilesInv' /\ ReadIsWhole' /\ ReadSoFar'
      BY <1>12, FilesStay DEF logVars
    <2>2. QED
      BY <1>12, <2>1 DEF logVars, logFiles, writer, reader, KeptAt, FileAt, LogInv, LogTypeOK,
                         RotationIsSafe
  <1>13. QED
    BY <1>3, <1>4, <1>5, <1>6, <1>7, <1>8, <1>9, <1>10, <1>11, <1>12 DEF LogNext

\* The log keeps its latest history without a hole and a whole reading reads it whole, for
\* every size of a file, wherever a rotation fails or is stopped and however it meets a reader.
THEOREM LogKeepsPromise == LogSpec => []LogPromise
  <1>1. LogInit => LogInv
    <2> SUFFICES ASSUME LogInit PROVE LogInv
      OBVIOUS
    <2>1. <<>> \in Seq(1 .. MaxRecords) /\ Len(<<>>) = 0
      BY EmptySeq
    <2>2. LogTypeOK
      <3>1. 0 \in 0 .. FileBackups /\ FileBackups + 1 \in 0 .. FileBackups + 1 /\ 0 \in 0 .. MaxRecords
        BY LogFilesAssumption
      <3>2. archives \in [Archives -> Seq(1 .. MaxRecords)]
        BY <2>1 DEF LogInit
      <3>3. QED
        BY <2>1, <3>1, <3>2 DEF LogInit, LogTypeOK, Done
    <2>3. \A i \in Chain : LogChain[i] = <<>> /\ KeptChain[i] = <<>>
      BY LogFilesAssumption DEF LogInit, LogChain, KeptChain, FileAt, KeptAt, Chain, Archives
    <2>4. RecordsIn(LogChain, Chain) = {} /\ RecordsIn(KeptChain, Chain) = {}
      BY <2>3, NoRecords DEF RecordsIn
    <2>5. FilesInv
      BY <2>3, <2>4, NoRecords DEF LogInit, FilesInv, Ordered, NoHole, Consecutive
    <2>6. ReadIsWhole /\ ReadSoFar
      <3>1. cursor = Done /\ found = <<>> /\ began = 0 /\ undropped = FALSE
        BY DEF LogInit
      <3>2. Range(found) = {} /\ Consecutive(found)
        BY <3>1, NoRecords DEF Consecutive
      <3>3. QED
        BY <3>1, <3>2 DEF ReadIsWhole, ReadSoFar
    <2>7. RotationIsSafe
      BY <2>1 DEF LogInit, RotationIsSafe
    <2>8. QED
      BY <2>2, <2>5, <2>6, <2>7 DEF LogInv
  <1>2. LogInv => LogPromise
    BY FilesAreHeld DEF LogInv, FilesInv, LogPromise
  <1>3. QED
    BY <1>1, <1>2, LogStep, PTL DEF LogSpec

-----------------------------------------------------------------------------
(* The configuration.                                                      *)

IsBatch(b) ==
  /\ DOMAIN b \subseteq Keys
  /\ \A k \in DOMAIN b : b[k] \in IF k = "level" THEN 0 .. 1 ELSE 0 .. Highest

\* The keys of a configuration.
LEMMA ConfigFields ==
  ASSUME NEW c \in Configs
  PROVE  /\ c.window \in Nat /\ c.cap \in Nat /\ c.window <= Highest /\ c.cap <= Highest
         /\ c.level \in 0 .. 1 /\ c # NoConfig
         /\ c["window"] = c.window /\ c["cap"] = c.cap /\ c["level"] = c.level
  BY SettingsAssumption DEF Configs, NoConfig

\* Normalising fills a missing cap and changes nothing else.
LEMMA NormalizeFields ==
  ASSUME NEW c \in Configs
  PROVE  /\ Normalize(c) \in Configs
         /\ Normalize(c).window = c.window /\ Normalize(c).level = c.level
         /\ Normalize(c).cap = IF c.cap = 0 THEN DefaultCap ELSE c.cap
         /\ Normalize(c).cap # 0
  <1>1. PICK n \in 0 .. Highest : n = (IF c.cap = 0 THEN DefaultCap ELSE c.cap) /\ n # 0
    BY SettingsAssumption, ConfigFields
  <1>2. Normalize(c) = [c EXCEPT !.cap = n]
    BY <1>1 DEF Normalize
  <1>3. QED
    BY <1>1, <1>2 DEF Configs

\* What has a cap is normal.
LEMMA NormalizedTwice ==
  ASSUME NEW c \in Configs, c.cap # 0
  PROVE  Normalize(c) = c
  BY DEF Normalize, Configs

\* A batch changes the keys it names.
LEMMA SetsFields ==
  ASSUME NEW c \in Configs, NEW b, IsBatch(b)
  PROVE  /\ Sets(c, b) \in Configs
         /\ \A k \in Keys : Sets(c, b)[k] = IF k \in DOMAIN b THEN b[k] ELSE c[k]
  <1>1. PICK f : f = Sets(c, b)
    OBVIOUS
  <1>2. /\ f = [k \in Keys |-> f[k]]
        /\ \A k \in Keys : f[k] = IF k \in DOMAIN b THEN b[k] ELSE c[k]
    BY <1>1 DEF Sets
  <1>3. f["window"] \in 0 .. Highest /\ f["cap"] \in 0 .. Highest /\ f["level"] \in 0 .. 1
    BY <1>2 DEF Configs, IsBatch, Keys
  <1>4. f \in Configs
    BY <1>2, <1>3 DEF Configs, Keys
  <1>5. QED
    BY <1>1, <1>2, <1>4

\* A reload takes the live keys and leaves the others.
LEMMA MergeFields ==
  ASSUME NEW old \in Configs, NEW new \in Configs
  PROVE  /\ MergeLive(old, new) \in Configs
         /\ MergeLive(old, new).window = new.window /\ MergeLive(old, new).cap = new.cap
         /\ \A k \in Keys : MergeLive(old, new)[k] = IF k \in LiveKeys THEN new[k] ELSE old[k]
  <1>1. PICK f : f = MergeLive(old, new)
    OBVIOUS
  <1>2. /\ f = [k \in Keys |-> f[k]]
        /\ \A k \in Keys : f[k] = IF k \in LiveKeys THEN new[k] ELSE old[k]
    BY <1>1 DEF MergeLive
  <1>3. f["window"] = new["window"] /\ f["cap"] = new["cap"] /\ f["level"] = old["level"]
    BY <1>2 DEF Keys, LiveKeys
  <1>4. f \in Configs /\ f.window = new.window /\ f.cap = new.cap
    BY <1>2, <1>3 DEF Configs, Keys
  <1>5. QED
    BY <1>1, <1>2, <1>4

\* What is asked for, shipped or preset is a batch.
LEMMA Batched ==
  /\ \A b \in Batches : IsBatch(b)
  /\ \A p \in Presets : IsBatch(p) /\ DOMAIN p = {"window"} /\ p["window"] \in 0 .. Highest
  /\ \A ks \in SUBSET Keys : IsBatch(Shipped(ks)) /\ DOMAIN Shipped(ks) = ks
  BY SettingsAssumption DEF IsBatch, Keys, Shipped

\* A batch on top of a configuration that loads.
LEMMA WrittenFields ==
  ASSUME NEW c \in Configs, c.cap # 0, NEW b, IsBatch(b)
  PROVE  /\ Normalize(Sets(c, b)) \in Configs
         /\ Normalize(Sets(c, b)).cap # 0
         /\ \A k \in Keys : k \notin DOMAIN b => Normalize(Sets(c, b))[k] = c[k]
  <1>1. PICK s \in Configs : /\ s = Sets(c, b)
                             /\ \A k \in Keys : s[k] = IF k \in DOMAIN b THEN b[k] ELSE c[k]
    BY SetsFields
  <1>2. PICK n \in Configs : n = Normalize(s) /\ n.window = s.window /\ n.level = s.level
                             /\ n.cap = (IF s.cap = 0 THEN DefaultCap ELSE s.cap) /\ n.cap # 0
    BY NormalizeFields
  <1>3. \A k \in Keys : k \notin DOMAIN b => n[k] = c[k]
    BY <1>1, <1>2, ConfigFields DEF Keys
  <1>4. QED
    BY <1>1, <1>2, <1>3

Answers == [asked : {"nothing", "reload", "write"}, named : SUBSET Keys,
            ok : BOOLEAN, applied : SUBSET Keys, pending : SUBSET Keys]

\* What w is about to save keeps the rest of the file as it is now.
KeepsRest(w) ==
  /\ Loads
  /\ \A k \in Keys \ editing[w].named : Normalize(editing[w].saves)[k] = Loaded[k]

CfgInv ==
  /\ configFile \in Configs \cup {NoConfig}
  /\ settings \in Configs \cup {NoConfig} /\ current = settings
  /\ editing \in [Editors -> Edits \cup {NoEdit}] /\ outdated \subseteq Editors
  /\ ~editing["root"].saved /\ (settings = NoConfig => editing["daemon"] = NoEdit)
  /\ \A w \in Reading \ outdated : KeepsRest(w)
  /\ reported \in Answers
  /\ RunningIsValid

\* What an adopted file leaves running and reported.
LEMMA ReloadIsTrue ==
  ASSUME CfgInv, settings # NoConfig, NEW what \in {"reload", "write"}, NEW named \in SUBSET Keys,
         NEW file \in Configs \cup {NoConfig}, Reload(what, named, file)
  PROVE  /\ settings' \in Configs /\ current' = settings' /\ Valid(settings')
         /\ reported' \in Answers /\ reported'.asked = what /\ reported'.named = named
         /\ reported'.ok =>
              /\ reported'.pending = Differing(settings', Normalize(file))
              /\ \A k \in reported'.applied : settings'[k] = Normalize(file)[k]
  <1>1. settings \in Configs /\ current = settings /\ Valid(settings)
    BY DEF CfgInv, RunningIsValid
  <1>2. CASE ~(file # NoConfig /\ Valid(Normalize(file)))
    <2>1. /\ UNCHANGED <<settings, current>>
          /\ reported' = [asked |-> what, named |-> named, ok |-> FALSE, applied |-> {}, pending |-> {}]
      BY <1>2 DEF Reload
    <2>2. QED
      BY <1>1, <2>1 DEF Answers
  <1>3. CASE file # NoConfig /\ Valid(Normalize(file))
    <2>1. PICK next \in Configs : next = Normalize(file) /\ Valid(next)
      BY <1>3, NormalizeFields
    <2>2. PICK differ \in SUBSET Keys : differ = Differing(current, next)
      BY DEF Differing
    <2>3. /\ settings' = MergeLive(settings, next) /\ current' = MergeLive(settings, next)
          /\ reported' = [asked |-> what, named |-> named, ok |-> TRUE,
                          applied |-> differ \cap LiveKeys, pending |-> differ \ LiveKeys]
      BY <1>1, <1>3, <2>1, <2>2 DEF Reload, Remembered
    <2>4. /\ settings' \in Configs /\ settings'.window = next.window /\ settings'.cap = next.cap
          /\ \A k \in Keys : settings'[k] = IF k \in LiveKeys THEN next[k] ELSE settings[k]
      BY <1>1, <2>3, MergeFields
    <2>5. Valid(settings')
      BY <2>1, <2>4 DEF Valid
    <2>6. differ \ LiveKeys = Differing(settings', next)
      BY <1>1, <2>2, <2>4 DEF Differing
    <2>7. \A k \in differ \cap LiveKeys : settings'[k] = next[k]
      BY <2>2, <2>4
    <2>8. QED
      BY <2>1, <2>3, <2>4, <2>5, <2>6, <2>7 DEF Answers
  <1>4. QED
    BY <1>2, <1>3

\* What each step keeps and answers.
StepIsTrue ==
  /\ reported'.asked # "nothing" /\ reported'.ok
       => /\ reported'.pending = Differing(settings', Normalize(configFile'))
          /\ \A k \in reported'.applied : settings'[k] = Normalize(configFile')[k]
  /\ \A w \in Editors \ outdated : \A k \in Keys :
       editing'[w] # editing[w] /\ configFile' # configFile
       /\ Normalize(configFile')[k] # Loaded[k] => k \in editing[w].named

\* A step that reports nothing claims nothing, and one that leaves the file keeps it.
LEMMA SilentStep ==
  ASSUME CfgInv, reported' = Silent, UNCHANGED configFile
  PROVE  StepIsTrue /\ reported' \in Answers
  BY DEF Silent, StepIsTrue, Answers

\* The state of the writers after a step that leaves the file: nobody starts to read.
LEMMA EditorsStay ==
  ASSUME CfgInv, UNCHANGED configFile, NEW v \in Editors,
         editing' \in {editing, [editing EXCEPT ![v] = NoEdit]},
         outdated' \in {outdated, outdated \ {v}},
         outdated' = outdated \/ editing'[v] = NoEdit
  PROVE  /\ editing' \in [Editors -> Edits \cup {NoEdit}] /\ outdated' \subseteq Editors
         /\ ~editing'["root"].saved
         /\ editing["daemon"] = NoEdit => editing'["daemon"] = NoEdit
         /\ \A w \in Reading' \ outdated' : KeepsRest(w)'
  <1>1. /\ editing' \in [Editors -> Edits \cup {NoEdit}] /\ outdated' \subseteq Editors
        /\ \A w \in Editors : editing'[w] \in {editing[w], NoEdit}
    BY DEF CfgInv
  <1>2. /\ ~editing'["root"].saved
        /\ editing["daemon"] = NoEdit => editing'["daemon"] = NoEdit
    BY <1>1 DEF CfgInv, NoEdit, Editors
  <1>3. ASSUME NEW w \in Reading' \ outdated' PROVE KeepsRest(w)'
    <2>1. w \in Editors /\ editing'[w] = editing[w] /\ editing[w] # NoEdit /\ ~editing[w].saved
      BY <1>1, <1>3 DEF Reading
    <2>2. w \notin outdated
      BY <1>3, <2>1
    <2>3. KeepsRest(w)
      BY <2>1, <2>2 DEF CfgInv, Reading
    <2>4. QED
      BY <2>1, <2>3 DEF KeepsRest, Loads, Loaded
  <1>4. QED
    BY <1>1, <1>2, <1>3

\* A write that begins will keep the rest of the file it read.
LEMMA BeginStep ==
  ASSUME CfgInv, NEW v \in Editors, NEW batch, IsBatch(batch), Begins(v, batch),
         v = "daemon" => settings # NoConfig
  PROVE  CfgInv' /\ StepIsTrue
  <1>1. /\ editing[v] = NoEdit /\ Loads /\ reported' = Silent
        /\ UNCHANGED <<configFile, settings, current, outdated>>
        /\ editing' = [editing EXCEPT ![v] = [saves |-> Written(batch), named |-> DOMAIN batch,
                                              saved |-> FALSE]]
    BY DEF Begins
  <1>2. Loaded \in Configs /\ Loaded.cap # 0
    BY <1>1, NormalizeFields DEF Loads, Loaded, CfgInv
  <1>3. PICK c \in Configs :
          /\ c = Written(batch) /\ Normalize(c) = c
          /\ \A k \in Keys : k \notin DOMAIN batch => c[k] = Loaded[k]
    <2>1. /\ Written(batch) \in Configs /\ Written(batch).cap # 0
          /\ \A k \in Keys : k \notin DOMAIN batch => Written(batch)[k] = Loaded[k]
      BY <1>2, WrittenFields DEF Written
    <2>2. QED
      BY <2>1, NormalizedTwice
  <1>4. PICK edit \in Edits :
          /\ edit = [saves |-> c, named |-> DOMAIN batch, saved |-> FALSE]
          /\ edit.saves = c /\ edit.named = DOMAIN batch /\ ~edit.saved
    <2>1. DOMAIN batch \in SUBSET Keys
      BY DEF IsBatch
    <2>2. [saves |-> c, named |-> DOMAIN batch, saved |-> FALSE] \in Edits
      BY <2>1 DEF Edits
    <2>3. QED
      BY <2>2
  <1>5. editing' = [editing EXCEPT ![v] = edit]
    BY <1>1, <1>3, <1>4
  <1>6. /\ editing' \in [Editors -> Edits \cup {NoEdit}] /\ ~editing'["root"].saved
        /\ editing'[v] = edit /\ \A w \in Editors \ {v} : editing'[w] = editing[w]
        /\ settings' = NoConfig => editing'["daemon"] = NoEdit
    BY <1>1, <1>4, <1>5 DEF CfgInv, Editors
  <1>7. ASSUME NEW w \in Reading' \ outdated' PROVE KeepsRest(w)'
    <2>1. CASE w = v
      <3>1. /\ editing'[w].saves = c /\ editing'[w].named = DOMAIN batch
            /\ Loads' /\ Loaded' = Loaded
        BY <1>1, <1>4, <1>6, <2>1 DEF Loads, Loaded
      <3>2. QED
        BY <1>3, <3>1 DEF KeepsRest
    <2>2. CASE w # v
      <3>1. w \in Reading \ outdated /\ editing'[w] = editing[w]
        BY <1>1, <1>6, <1>7, <2>2 DEF Reading
      <3>2. KeepsRest(w)
        BY <3>1 DEF CfgInv
      <3>3. QED
        BY <1>1, <3>1, <3>2 DEF KeepsRest, Loads, Loaded
    <2>3. QED
      BY <2>1, <2>2
  <1>8. StepIsTrue /\ reported' \in Answers
    BY <1>1, SilentStep
  <1>9. QED
    BY <1>1, <1>6, <1>7, <1>8 DEF CfgInv, RunningIsValid

\* A refusal changes nothing.
LEMMA RefuseStep ==
  ASSUME CfgInv, NEW named \in SUBSET Keys, Refuses(named), UNCHANGED configFile
  PROVE  StepIsTrue /\ reported' \in Answers
  BY DEF Refuses, StepIsTrue, Answers

\* A write over the socket, refused or begun.
LEMMA WriteStep ==
  ASSUME CfgInv, NEW batch, IsBatch(batch), WriteOverSocket(batch)
  PROVE  CfgInv' /\ StepIsTrue
  <1>1. CASE Begins("daemon", batch)
    BY <1>1, BeginStep DEF WriteOverSocket, Free, Editors
  <1>2. CASE /\ Refuses(DOMAIN batch)
             /\ UNCHANGED <<configFile, settings, current, editing, outdated>>
    <2>1. StepIsTrue /\ reported' \in Answers
      BY <1>2, RefuseStep DEF IsBatch
    <2>2. \A w \in Reading' \ outdated' : KeepsRest(w)'
      BY <1>2 DEF CfgInv, Reading, KeepsRest, Loads, Loaded
    <2>3. QED
      BY <1>2, <2>1, <2>2 DEF CfgInv, RunningIsValid
  <1>3. QED
    BY <1>1, <1>2 DEF WriteOverSocket

\* The file is replaced: nobody whose reading still counts has read another.
LEMMA SaveStep ==
  ASSUME CfgInv, NEW v \in Editors, SaveEdit(v)
  PROVE  CfgInv' /\ StepIsTrue
  <1>1. /\ v \in Reading /\ reported' = Silent /\ configFile' = editing[v].saves
        /\ outdated' = Reading \ {v} /\ UNCHANGED <<settings, current>>
        /\ editing[v] \in Edits
    BY DEF SaveEdit, Reading, CfgInv
  <1>2. PICK edit \in Edits \cup {NoEdit} :
          /\ editing' = [editing EXCEPT ![v] = edit]
          /\ edit = IF v = "daemon" THEN [editing[v] EXCEPT !.saved = TRUE] ELSE NoEdit
          /\ edit = NoEdit \/ edit.saved
    <2>1. [editing[v] EXCEPT !.saved = TRUE] \in Edits /\ [editing[v] EXCEPT !.saved = TRUE].saved
      BY <1>1 DEF Edits
    <2>2. QED
      BY <2>1 DEF SaveEdit
  <1>3. /\ editing' \in [Editors -> Edits \cup {NoEdit}] /\ editing'[v] = edit
        /\ \A w \in Editors \ {v} : editing'[w] = editing[w]
    BY <1>2 DEF CfgInv
  <1>4. Reading' \subseteq Reading \ {v}
    <2>1. v \notin Reading'
      BY <1>2, <1>3 DEF Reading
    <2>2. \A w \in Editors \ {v} : w \in Reading' <=> w \in Reading
      BY <1>3 DEF Reading
    <2>3. QED
      BY <2>1, <2>2 DEF Reading
  <1>5. \A w \in Reading' \ outdated' : KeepsRest(w)'
    BY <1>1, <1>4
  <1>6. ~editing'["root"].saved /\ (settings' = NoConfig => editing'["daemon"] = NoEdit)
    <2>1. CASE v = "daemon"
      BY <1>1, <1>3, <2>1 DEF CfgInv, Editors, Reading
    <2>2. CASE v # "daemon"
      BY <1>1, <1>2, <1>3, <2>2 DEF CfgInv, Editors, NoEdit
    <2>3. QED
      BY <2>1, <2>2
  <1>7. configFile' \in Configs
    BY <1>1 DEF Edits
  <1>8. StepIsTrue
    <2>1. ASSUME NEW w \in Editors \ outdated, NEW k \in Keys, editing'[w] # editing[w],
                 Normalize(configFile')[k] # Loaded[k]
          PROVE  k \in editing[w].named
      <3>1. w = v /\ w \in Reading \ outdated
        BY <1>1, <1>3, <2>1
      <3>2. QED
        BY <1>1, <2>1, <3>1 DEF CfgInv, KeepsRest
    <2>2. QED
      BY <1>1, <2>1 DEF StepIsTrue, Silent
  <1>9. reported' \in Answers /\ outdated' \subseteq Editors
    BY <1>1 DEF Silent, Answers, Reading
  <1>10. QED
    BY <1>1, <1>3, <1>5, <1>6, <1>7, <1>8, <1>9 DEF CfgInv, RunningIsValid

\* So does every step.
LEMMA CfgStep ==
  ASSUME CfgInv, CfgNext
  PROVE  CfgInv' /\ StepIsTrue
  <1>1. Loads => Loaded \in Configs /\ Loaded.cap # 0 /\ Valid(Loaded)
    BY NormalizeFields DEF Loads, Loaded, CfgInv
  <1>2. CASE StartWithConfig
    <2>1. StepIsTrue /\ reported' \in Answers
      BY <1>2, SilentStep DEF StartWithConfig
    <2>2. /\ UNCHANGED <<configFile, editing, outdated>>
          /\ settings' = Loaded /\ current' = Loaded /\ Loaded \in Configs /\ Valid(Loaded)
      BY <1>1, <1>2 DEF StartWithConfig
    <2>3. \A w \in Reading' \ outdated' : KeepsRest(w)'
      BY <2>2 DEF CfgInv, Reading, KeepsRest, Loads, Loaded
    <2>4. settings' # NoConfig
      BY <2>2, ConfigFields
    <2>5. QED
      BY <2>1, <2>2, <2>3, <2>4 DEF CfgInv, RunningIsValid
  <1>3. CASE StopWithConfig
    <2>1. StepIsTrue /\ reported' \in Answers
      BY <1>3, SilentStep DEF StopWithConfig
    <2>2. /\ editing' = [editing EXCEPT !["daemon"] = NoEdit] /\ outdated' = outdated \ {"daemon"}
          /\ editing'["daemon"] = NoEdit /\ UNCHANGED configFile
          /\ settings' = NoConfig /\ current' = NoConfig /\ "daemon" \in Editors
      BY <1>3 DEF StopWithConfig, CfgInv, Editors
    <2>3. /\ editing' \in [Editors -> Edits \cup {NoEdit}] /\ outdated' \subseteq Editors
          /\ ~editing'["root"].saved /\ \A w \in Reading' \ outdated' : KeepsRest(w)'
      BY <2>2, EditorsStay
    <2>4. QED
      BY <2>1, <2>2, <2>3 DEF CfgInv, RunningIsValid
  <1>4. CASE EditByHand
    <2>1. /\ configFile' \in Configs \cup {NoConfig} /\ outdated' = Reading /\ reported' = Silent
          /\ UNCHANGED <<settings, current, editing>> /\ Reading' = Reading
      BY <1>4 DEF EditByHand, Reading
    <2>2. StepIsTrue /\ reported' \in Answers /\ outdated' \subseteq Editors
      BY <2>1 DEF StepIsTrue, Silent, Answers, Reading
    <2>3. QED
      BY <2>1, <2>2 DEF CfgInv, RunningIsValid
  <1>5. ASSUME settings # NoConfig, NEW what \in {"reload", "write"}, NEW named \in SUBSET Keys,
               Reload(what, named, configFile), UNCHANGED <<configFile, outdated>>,
               editing' \in {editing, [editing EXCEPT !["daemon"] = NoEdit]}
        PROVE  CfgInv' /\ StepIsTrue
    <2>1. /\ settings' \in Configs /\ current' = settings' /\ Valid(settings')
          /\ reported' \in Answers
          /\ reported'.ok =>
               /\ reported'.pending = Differing(settings', Normalize(configFile))
               /\ \A k \in reported'.applied : settings'[k] = Normalize(configFile)[k]
      BY <1>5, ReloadIsTrue DEF CfgInv
    <2>2. /\ editing' \in [Editors -> Edits \cup {NoEdit}] /\ outdated' \subseteq Editors
          /\ ~editing'["root"].saved /\ \A w \in Reading' \ outdated' : KeepsRest(w)'
      BY <1>5, EditorsStay DEF Editors
    <2>3. settings' # NoConfig
      BY <2>1, ConfigFields
    <2>4. StepIsTrue
      BY <1>5, <2>1 DEF StepIsTrue
    <2>5. QED
      BY <1>5, <2>1, <2>2, <2>3, <2>4 DEF CfgInv, RunningIsValid
  <1>6. CASE AskReload
    BY <1>5, <1>6 DEF AskReload, Free
  <1>7. CASE AdoptWritten
    <2>1. editing["daemon"] \in Edits /\ editing["daemon"] # NoEdit
      BY <1>7 DEF AdoptWritten, CfgInv, Editors, NoEdit
    <2>2. settings # NoConfig /\ editing["daemon"].named \in SUBSET Keys
      BY <2>1 DEF CfgInv, Edits
    <2>3. QED
      BY <1>5, <1>7, <2>2 DEF AdoptWritten
  <1>8. ASSUME NEW batch \in Batches, WriteOverSocket(batch) \/ SetKeys(batch)
        PROVE  CfgInv' /\ StepIsTrue
    BY <1>8, Batched, WriteStep, BeginStep DEF SetKeys, Editors
  <1>9. ASSUME NEW ks \in Resets, WriteOverSocket(Shipped(ks)) \/ ResetKeys(ks)
        PROVE  CfgInv' /\ StepIsTrue
    BY <1>9, SettingsAssumption, Batched, WriteStep, BeginStep DEF ResetKeys, Editors
  <1>10. ASSUME NEW p \in Presets, WriteOverSocket(p) \/ ApplyPreset(p)
        PROVE  CfgInv' /\ StepIsTrue
    BY <1>10, Batched, WriteStep, BeginStep DEF ApplyPreset, Editors
  <1>11. ASSUME NEW w \in Editors, SaveEdit(w) PROVE CfgInv' /\ StepIsTrue
    BY <1>11, SaveStep
  <1>12. ASSUME NEW w \in Editors, SaveFails(w) PROVE CfgInv' /\ StepIsTrue
    <2>1. /\ w \in Reading /\ editing[w] \in Edits
          /\ editing' = [editing EXCEPT ![w] = NoEdit] /\ outdated' = outdated \ {w}
          /\ editing'[w] = NoEdit /\ UNCHANGED <<configFile, settings, current>>
      BY <1>12 DEF SaveFails, Reading, CfgInv
    <2>2. StepIsTrue /\ reported' \in Answers
      <3>1. editing[w].named \in SUBSET Keys
        BY <2>1 DEF Edits
      <3>2. QED
        BY <1>12, <2>1, <3>1, RefuseStep, SilentStep DEF SaveFails
    <2>3. /\ editing' \in [Editors -> Edits \cup {NoEdit}] /\ outdated' \subseteq Editors
          /\ ~editing'["root"].saved /\ \A v \in Reading' \ outdated' : KeepsRest(v)'
          /\ editing["daemon"] = NoEdit => editing'["daemon"] = NoEdit
      BY <2>1, EditorsStay
    <2>4. QED
      BY <2>1, <2>2, <2>3 DEF CfgInv, RunningIsValid
  <1>13. QED
    BY <1>2, <1>3, <1>4, <1>6, <1>7, <1>8, <1>9, <1>10, <1>11, <1>12 DEF CfgNext

\* A preset is applied whole or not at all.
LEMMA PresetsAreWhole ==
  ASSUME CfgInv
  PROVE  PresetsApplyWhole
  <1>1. SUFFICES ASSUME Loads, NEW p \in Presets
                 PROVE  LET c == Normalize(Sets(Loaded, p))
                        IN  IF PresetConflicts(Loaded, p) = {} THEN Valid(c) /\ MatchPreset(c) = {p}
                            ELSE ~Valid(c)
    BY DEF PresetsApplyWhole
  <1>2. PICK f \in Configs : f = Loaded /\ f.cap # 0
    BY <1>1, NormalizeFields DEF Loads, Loaded, CfgInv
  <1>3. IsBatch(p) /\ DOMAIN p = {"window"} /\ p["window"] \in 0 .. Highest
    BY Batched
  <1>4. PICK s \in Configs : /\ s = Sets(f, p)
                             /\ \A k \in Keys : s[k] = IF k \in DOMAIN p THEN p[k] ELSE f[k]
    BY <1>3, SetsFields
  <1>5. s.window = p["window"] /\ s.cap = f.cap
    BY <1>3, <1>4, ConfigFields DEF Keys
  <1>6. Normalize(Sets(Loaded, p)) = s
    BY <1>2, <1>4, <1>5, NormalizedTwice
  <1>7. p["window"] \in Nat /\ f.cap \in Nat
    BY <1>3, ConfigFields, SettingsAssumption
  <1>8. PresetConflicts(Loaded, p) = {} <=> p["window"] <= f.cap
    BY <1>2, <1>3, <1>7 DEF PresetConflicts
  <1>9. Valid(s) <=> p["window"] <= f.cap
    BY <1>5 DEF Valid
  <1>10. MatchPreset(s) = {p}
    <2>1. ASSUME NEW q \in Presets PROVE PresetDrift(s, q) = {} <=> q["window"] = p["window"]
      BY <1>5, Batched, ConfigFields DEF PresetDrift
    <2>2. ASSUME NEW q \in Presets, q["window"] = p["window"] PROVE q = p
      BY <2>2, SettingsAssumption
    <2>3. QED
      BY <2>1, <2>2 DEF MatchPreset
  <1>11. QED
    BY <1>6, <1>8, <1>9, <1>10

\* What reading, adopting and writing the configuration promise, whatever is written
\* by whom and in which order.
THEOREM SettingsKeepPromise == CfgSpec => SettingsPromise
  <1>1. CfgInit => CfgInv
    <2>1. Silent \in Answers
      BY DEF Silent, Answers
    <2>2. ASSUME CfgInit
          PROVE  /\ editing \in [Editors -> Edits \cup {NoEdit}] /\ outdated = {} /\ Reading = {}
                 /\ editing["root"] = NoEdit /\ editing["daemon"] = NoEdit
      BY <2>2 DEF CfgInit, Editors, Reading
    <2>3. ~NoEdit.saved
      BY DEF NoEdit
    <2>4. QED
      BY <2>1, <2>2, <2>3 DEF CfgInit, CfgInv, RunningIsValid
  <1>2. ASSUME CfgInv, [CfgNext]_cfgVars PROVE CfgInv'
    <2>1. CASE UNCHANGED cfgVars
      BY <1>2, <2>1 DEF cfgVars, CfgInv, RunningIsValid, Reading, KeepsRest, Loads, Loaded
    <2>2. QED
      BY <1>2, <2>1, CfgStep
  <1>3. CfgSpec => []CfgInv
    BY <1>1, <1>2, PTL DEF CfgSpec
  <1>4. CfgInv => CfgTypeOK /\ RunningIsValid /\ PresetsApplyWhole
    BY PresetsAreWhole DEF CfgInv, CfgTypeOK, Answers
  <1>5. ASSUME CfgInv, CfgNext
        PROVE  /\ reported'.asked # "nothing" /\ reported'.ok
                    => /\ reported'.pending = Differing(settings', Normalize(configFile'))
                       /\ \A k \in reported'.applied : settings'[k] = Normalize(configFile')[k]
               /\ \A w \in Editors \ outdated : \A k \in Keys :
                    editing'[w] # editing[w] /\ configFile' # configFile
                    /\ Normalize(configFile')[k] # Loaded[k] => k \in editing[w].named
    BY <1>5, CfgStep DEF StepIsTrue
  <1>6. CfgSpec => ReportIsTrue
    BY <1>3, <1>5, PTL DEF CfgSpec, ReportIsTrue
  <1>7. CfgSpec => WriteKeepsTheRest
    BY <1>3, <1>5, PTL DEF CfgSpec, WriteKeepsTheRest
  <1>8. QED
    BY <1>3, <1>4, <1>6, <1>7, PTL DEF SettingsPromise

-----------------------------------------------------------------------------
(* The wizard.                                                             *)

\* A question behind the gate is asked once the gate is answered, and open; what was
\* not asked is as it was seeded.
Asking ==
  /\ mac \in BOOLEAN /\ hadConfig \in BOOLEAN /\ up \in SUBSET Pinnable
  /\ original \in Configurations /\ asked \in SUBSET Questions /\ answers \in Answering
  /\ screen = "block" => asked \subseteq {"ticked", "other"}
  /\ \A q \in asked : Gated(q) => "auto" \in asked /\ ~answers.auto

\* At the end every question whose gate is open was asked, and what was answered applied.
Answered ==
  screen \in {"review", "saved"} =>
    /\ \A q \in {"tunnels", "files", "endpoints"} : ShouldAsk(q) => q \in asked
    /\ \E readable \in SUBSET Files : outcome = Apply(readable)
    /\ ~warned => LockedOut(outcome) = {}

SetupInv ==
  /\ screen \in {"block", "find", "review", "saved", "left"}
  /\ warned \in BOOLEAN /\ outcome \in Configurations /\ Asking /\ Answered

\* The questions are seeded from the configuration that exists.
LEMMA SeedsType ==
  ASSUME NEW c \in Configurations
  PROVE  Seeds(c) \in Answering
  <1>1. PICK b \in BOOLEAN : b = (c.pins = {})
    OBVIOUS
  <1>2. Seeds(c) = [ticked |-> c.countries \cap Offered, other |-> c.countries \ Offered,
                    auto |-> b, tunnels |-> c.pins, files |-> {}, endpoints |-> c.hosts]
    BY <1>1 DEF Seeds
  <1>3. QED
    BY <1>1, <1>2 DEF Configurations, Answering

\* What the answers make of the configuration.
LEMMA ApplyFields ==
  ASSUME Asking, NEW readable \in SUBSET Files
  PROVE  /\ Apply(readable) \in Configurations
         /\ Apply(readable).countries = IF answers.ticked \cup answers.other = {} THEN Recommended
                                        ELSE answers.ticked \cup answers.other
         /\ Apply(readable).pins = IF answers.auto THEN {} ELSE answers.tunnels
         /\ Apply(readable).hosts = IF ShouldAsk("endpoints") THEN answers.endpoints ELSE original.hosts
         /\ Apply(readable).profiles
              = MergeProfiles(original.profiles, IF ShouldAsk("files") THEN answers.files \cap readable ELSE {})
         /\ hadConfig => Apply(readable).discover = original.discover
  <1>1. PICK d \in BOOLEAN : d = (original.discover \/ (mac /\ ~hadConfig))
    OBVIOUS
  <1>2. PICK cs \in SUBSET Countries : cs = IF answers.ticked \cup answers.other = {} THEN Recommended
                                            ELSE answers.ticked \cup answers.other
    BY SetupAssumption DEF Asking, Answering
  <1>3. PICK ps \in SUBSET Pinnable : ps = IF answers.auto THEN {} ELSE answers.tunnels
    BY DEF Asking, Answering
  <1>4. PICK hs \in SUBSET Hosts : hs = IF ShouldAsk("endpoints") THEN answers.endpoints ELSE original.hosts
    BY DEF Asking, Answering, Configurations
  <1>5. PICK fs \in SUBSET Files :
          fs = MergeProfiles(original.profiles, IF ShouldAsk("files") THEN answers.files \cap readable ELSE {})
    BY DEF Asking, Answering, Configurations, MergeProfiles
  <1>6. Apply(readable) = [countries |-> cs, pins |-> ps, hosts |-> hs, profiles |-> fs, discover |-> d]
    BY <1>1, <1>2, <1>3, <1>4, <1>5 DEF Apply
  <1>7. hadConfig => d = original.discover
    BY <1>1 DEF Asking, Configurations
  <1>8. QED
    BY <1>1, <1>2, <1>3, <1>4, <1>5, <1>6, <1>7 DEF Configurations

\* The wizard starts with nothing asked.
LEMMA SetupStart == SetupInit => SetupInv
  <1>1. SUFFICES ASSUME SetupInit PROVE SetupInv
    OBVIOUS
  <1>2. Fresh0 \in Configurations
    BY DEF Fresh0, Configurations
  <1>3. original \in Configurations
    BY <1>1, <1>2, SetupAssumption DEF SetupInit
  <1>4. answers \in Answering
    BY <1>1, <1>3, SeedsType DEF SetupInit
  <1>5. QED
    BY <1>1, <1>3, <1>4 DEF SetupInit, SetupInv, Asking, Answered

\* Asking a group and answering it keeps the invariant.
LEMMA AskStep ==
  ASSUME SetupInv, AskWave
  PROVE  SetupInv'
  <1>1. /\ screen \in {"block", "find"} /\ asked' = asked \cup NextWave
        /\ UNCHANGED <<screen, mac, hadConfig, up, original, warned, outcome>>
        /\ answers' \in Answering /\ \A q \in Questions \ NextWave : answers'[q] = answers[q]
    BY DEF AskWave
  <1>2. NextWave \subseteq Questions /\ \A q \in NextWave : Group(q) = screen
    BY DEF NextWave
  <1>3. screen = "block" => asked' \subseteq {"ticked", "other"}
    BY <1>1, <1>2 DEF Group, Questions, SetupInv, Asking
  <1>4. ASSUME NEW q \in asked', Gated(q)
        PROVE  "auto" \in asked' /\ ~answers'.auto
    <2>1. "auto" \in asked /\ ~answers.auto
      <3>1. CASE q \in asked
        BY <1>4, <3>1 DEF SetupInv, Asking
      <3>2. CASE q \in NextWave
        <4>1. Group(q) = screen /\ ShouldAsk(q) /\ ~StillToAsk("auto")
          BY <1>4, <3>2 DEF NextWave
        <4>2. screen = "find"
          BY <1>4, <4>1 DEF Group, Gated
        <4>3. QED
          BY <1>4, <4>1, <4>2 DEF StillToAsk, Group, ShouldAsk
      <3>3. QED
        BY <1>1, <3>1, <3>2
    <2>2. "auto" \in Questions \ NextWave
      BY <2>1 DEF NextWave, Questions
    <2>3. answers'["auto"] = answers["auto"]
      BY <1>1, <2>2
    <2>4. QED
      BY <1>1, <2>1, <2>3
  <1>5. \A q : Gated(q)' <=> Gated(q)
    BY <1>1 DEF Gated
  <1>6. Asking'
    BY <1>1, <1>2, <1>3, <1>4, <1>5 DEF SetupInv, Asking
  <1>7. QED
    BY <1>1, <1>6 DEF SetupInv, Answered

\* So does the end of a group.
LEMMA EndStep ==
  ASSUME SetupInv, EndGroup
  PROVE  SetupInv'
  <1>1. UNCHANGED <<mac, hadConfig, up, original, asked, answers>> /\ NextWave = {}
    BY DEF EndGroup
  <1>2. Asking' \/ screen' = "block"
    BY <1>1 DEF SetupInv, Asking, Gated
  <1>3. CASE screen = "block"
    BY <1>1, <1>2, <1>3 DEF EndGroup, SetupInv, Answered
  <1>4. CASE screen = "find"
    <2>1. PICK readable \in SUBSET Files : outcome' = Apply(readable)
      BY <1>4 DEF EndGroup
    <2>2. warned' = (LockedOut(outcome') # {}) /\ screen' = "review"
      BY <1>4 DEF EndGroup
    <2>3. outcome' \in Configurations
      BY <2>1, ApplyFields DEF SetupInv
    <2>4. Apply(readable)' = Apply(readable) /\ \A q : ShouldAsk(q)' <=> ShouldAsk(q)
      BY <1>1 DEF Apply, ShouldAsk, Gated
    <2>5. LockedOut(outcome)' = LockedOut(outcome')
      BY <1>1 DEF LockedOut
    <2>6. "auto" \in asked
      BY <1>1, <1>4 DEF NextWave, Questions, Group, ShouldAsk, Gated
    <2>7. \A q \in {"tunnels", "files", "endpoints"} : ShouldAsk(q) => q \in asked
      BY <1>1, <1>4, <2>6 DEF NextWave, Questions, Group, StillToAsk
    <2>8. Answered'
      BY <1>1, <2>1, <2>2, <2>4, <2>5, <2>7 DEF Answered
    <2>9. QED
      BY <1>2, <2>2, <2>3, <2>8 DEF SetupInv
  <1>5. QED
    BY <1>3, <1>4 DEF EndGroup

\* So does every step.
LEMMA SetupStep ==
  ASSUME SetupInv, [SetupNext]_wizVars
  PROVE  SetupInv'
  <1>1. CASE Save \/ LeaveSetup \/ UNCHANGED wizVars
    <2>1. UNCHANGED <<mac, hadConfig, up, original, asked, answers, warned, outcome>>
      BY <1>1 DEF Save, LeaveSetup, wizVars
    <2>2. screen' \in {"block", "find", "review", "saved", "left"}
          /\ (screen' = "saved" => screen \in {"review", "saved"})
          /\ (screen' = "review" => screen = "review")
          /\ (screen' = "block" => screen = "block")
      BY <1>1 DEF Save, LeaveSetup, wizVars, SetupInv
    <2>3. QED
      BY <2>1, <2>2 DEF SetupInv, Asking, Answered, Gated, ShouldAsk, Apply, LockedOut
  <1>2. QED
    BY <1>1, AskStep, EndStep DEF SetupNext

\* What is saved is then what was answered.
LEMMA SavedIsTrue ==
  ASSUME SetupInv
  PROVE  SetupPromise
  <1>1. SetupTypeOK
    BY DEF SetupInv, Asking, SetupTypeOK
  <1>2. ASSUME screen = "saved"
        PROVE  AnswersAreKept /\ UnaskedIsUntouched /\ EnterChangesNothing /\ LockoutIsWarnedOf
    <2>1. PICK readable \in SUBSET Files : outcome = Apply(readable)
      BY <1>2 DEF SetupInv, Answered
    <2>2. /\ outcome \in Configurations
          /\ outcome.countries = IF answers.ticked \cup answers.other = {} THEN Recommended
                                 ELSE answers.ticked \cup answers.other
          /\ outcome.pins = IF answers.auto THEN {} ELSE answers.tunnels
          /\ outcome.hosts = IF ShouldAsk("endpoints") THEN answers.endpoints ELSE original.hosts
          /\ outcome.profiles
               = MergeProfiles(original.profiles, IF ShouldAsk("files") THEN answers.files \cap readable ELSE {})
          /\ hadConfig => outcome.discover = original.discover
      BY <2>1, ApplyFields DEF SetupInv
    <2>3. \A q \in {"tunnels", "files", "endpoints"} : ShouldAsk(q) <=> q \in asked
      BY <1>2 DEF SetupInv, Answered, Asking, ShouldAsk
    <2>4. AnswersAreKept
      BY <2>2, <2>3 DEF AnswersAreKept, ShouldAsk, Gated
    <2>5. UnaskedIsUntouched
      <3>1. "endpoints" \notin asked => outcome.hosts = original.hosts
        BY <2>2, <2>3
      <3>2. ASSUME NEW p \in original.profiles
            PROVE  \E q \in outcome.profiles : q.name = p.name /\ (q # p => "files" \in asked)
        BY <2>2, <2>3 DEF MergeProfiles
      <3>3. QED
        BY <2>2, <3>1, <3>2 DEF UnaskedIsUntouched
    <2>6. EnterChangesNothing
      <3>1. SUFFICES ASSUME hadConfig, answers = Seeds(original), original.countries # {}
                     PROVE  outcome = original
        BY DEF EnterChangesNothing
      <3>2. original \in Configurations
        BY DEF SetupInv, Asking
      <3>3. /\ answers.ticked = original.countries \cap Offered
            /\ answers.other = original.countries \ Offered
            /\ answers.auto = (original.pins = {}) /\ answers.tunnels = original.pins
            /\ answers.files = {} /\ answers.endpoints = original.hosts
        BY <3>1 DEF Seeds
      <3>4. outcome.countries = original.countries /\ outcome.pins = original.pins
            /\ outcome.hosts = original.hosts
        BY <2>2, <3>1, <3>3
      <3>5. outcome.profiles = original.profiles
        BY <2>2, <3>3 DEF MergeProfiles
      <3>6. outcome.discover = original.discover
        BY <2>2, <3>1
      <3>7. QED
        BY <2>2, <3>2, <3>4, <3>5, <3>6 DEF Configurations
    <2>7. LockoutIsWarnedOf
      BY <1>2 DEF LockoutIsWarnedOf, SetupInv, Answered, LockedOut, EffectiveEndpoints
    <2>8. QED
      BY <2>4, <2>5, <2>6, <2>7
  <1>3. CASE screen # "saved"
    BY <1>1, <1>3 DEF SetupPromise, AnswersAreKept, UnaskedIsUntouched, EnterChangesNothing,
                      LockoutIsWarnedOf
  <1>4. QED
    BY <1>1, <1>2, <1>3 DEF SetupPromise

\* What setup promises, for all configurations found, tunnels up and answers given.
THEOREM SetupKeepsPromise == SetupSpec => []SetupPromise
  BY SetupStart, SetupStep, SavedIsTrue, PTL DEF SetupSpec

\* What the configuration promises whoever changes it.
THEOREM ConfigKeepsPromise == CfgSpec /\ SetupSpec => ConfigPromise
  BY SettingsKeepPromise, SetupKeepsPromise DEF ConfigPromise

=============================================================================
