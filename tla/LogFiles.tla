------------------------------ MODULE LogFiles ------------------------------
(***************************************************************************)
(* The daemon's log file and its archives: the writer that rotates them by *)
(* size (internal/logging), call by call, and a reader in another process  *)
(* that walks the same chain (internal/logread, `dezhban logs').  Records  *)
(* are numbered as they are written and FileMax of them fill a file.       *)
(***************************************************************************)
EXTENDS Naturals, Sequences, Functions

CONSTANTS
  FileMax,           \* fileMaxBytes, in records
  FileBackups,       \* archives kept: two, and more could leave a hole
  MaxRecords         \* bound: records written

ASSUME LogFilesAssumption ==
  FileMax \in Nat \ {0} /\ FileBackups \in {1, 2} /\ MaxRecords \in Nat

VARIABLES
  logLive, archives, \* the files; <<>> is a file that is missing or empty
  size,              \* FileWriter.size
  handleOpen,        \* its descriptor accepts writes
  rotating,          \* the step of rotateLocked, or "no"
  shifting,          \* the archive it renames next
  written,           \* history: the last record that reached a file
  undropped,         \* history: the oldest archive is one a rotation failed to drop
  cursor,            \* the file the reader reads next, or Done
  found, problem,    \* what it has read; whether a file failed
  disturbed,         \* history: a rotation ran since the reader began
  began              \* history: the last record written when it began

logFiles == <<logLive, archives>>
writer == <<size, handleOpen, rotating, shifting>>
reader == <<cursor, found, problem>>
logVars == <<logFiles, writer, written, undropped, reader, disturbed, began>>

Archives == 1 .. FileBackups
Done == FileBackups + 1

LogTypeOK ==
  /\ logLive \in Seq(1 .. MaxRecords) /\ archives \in [Archives -> Seq(1 .. MaxRecords)]
  /\ size \in Nat /\ handleOpen \in BOOLEAN /\ written \in 0 .. MaxRecords
  /\ rotating \in {"no", "shift", "live", "open", "reopen"} /\ shifting \in 0 .. FileBackups
  /\ cursor \in 0 .. Done /\ found \in Seq(1 .. MaxRecords)
  /\ {undropped, problem, disturbed} \subseteq BOOLEAN /\ began \in 0 .. MaxRecords

LogInit ==
  /\ logLive = <<>> /\ archives = [i \in Archives |-> <<>>]
  /\ size = 0 /\ handleOpen = TRUE /\ rotating = "no" /\ shifting = 0 /\ written = 0
  /\ cursor = Done /\ found = <<>> /\ problem = FALSE
  /\ undropped = FALSE /\ disturbed = FALSE /\ began = 0

\* The chain: file 0 is the live one, a larger number is an older archive.
Chain == 0 .. FileBackups
FileAt(i) == IF i = 0 THEN logLive ELSE archives[i]
Held == UNION {Range(FileAt(i)) : i \in Chain}

\* The chain without an archive that should be gone.
KeptAt(i) == IF undropped /\ i = FileBackups THEN <<>> ELSE FileAt(i)
Kept == UNION {Range(KeptAt(i)) : i \in Chain}

-----------------------------------------------------------------------------
(* The writer: Write holds its lock through a rotation, the reader does not. *)
AppendRecord ==
  /\ rotating = "no" /\ size < FileMax /\ handleOpen /\ written < MaxRecords
  /\ logLive' = Append(logLive, written + 1) /\ written' = written + 1 /\ size' = size + 1
  /\ UNCHANGED <<archives, handleOpen, rotating, shifting, reader, undropped, disturbed, began>>

\* Slip: the oldest archive is left for the shift to replace.
KeepOldest ==
  /\ rotating = "no" /\ size >= FileMax /\ written < MaxRecords
  /\ handleOpen' = FALSE /\ disturbed' = TRUE
  /\ rotating' = IF handleOpen THEN "shift" ELSE "reopen"
  /\ shifting' = FileBackups - 1
  /\ UNCHANGED <<archives, logLive, size, written, undropped, reader, began>>

\* The oldest archive falls off; that its removal failed is not noticed.
OldestFallsOff ==
  \/ archives' = [archives EXCEPT ![FileBackups] = <<>>] /\ undropped' = FALSE
  \/ archives[FileBackups] # <<>> /\ UNCHANGED archives /\ undropped' = TRUE

\* The file is full: close it, drop the oldest archive.  A close that fails, as one of a
\* descriptor already closed does, ends the rotation.
StartRotation ==
  /\ rotating = "no" /\ size >= FileMax /\ written < MaxRecords
  /\ handleOpen' = FALSE /\ disturbed' = TRUE
  /\ \/ handleOpen /\ rotating' = "shift" /\ shifting' = FileBackups - 1 /\ OldestFallsOff
     \/ rotating' = "reopen" /\ UNCHANGED <<shifting, archives, undropped>>
  /\ UNCHANGED <<logLive, size, written, reader, began>>

\* A file that reaches the oldest name replaces what was there.
Reached(i) == undropped' = (undropped /\ i # FileBackups)

\* A rename that fails, as that of a missing file does, leaves its file where it is, for
\* the next one to replace.
Rename ==
  \/ /\ archives[shifting] # <<>>
     /\ archives' = [archives EXCEPT ![shifting + 1] = archives[shifting], ![shifting] = <<>>]
     /\ Reached(shifting + 1)
  \/ UNCHANGED <<archives, undropped>>

Shift ==
  /\ rotating = "shift"
  /\ IF shifting = 0 THEN rotating' = "live" /\ UNCHANGED <<archives, undropped, shifting>>
     ELSE Rename /\ shifting' = shifting - 1 /\ UNCHANGED rotating
  /\ disturbed' = TRUE
  /\ UNCHANGED <<logLive, size, handleOpen, written, reader, began>>

RotateLive ==
  /\ rotating = "live"
  /\ \/ /\ rotating' = "open" /\ Reached(1)
        /\ archives' = [archives EXCEPT ![1] = logLive] /\ logLive' = <<>>
     \/ rotating' = "reopen" /\ UNCHANGED <<logFiles, undropped>>
  /\ disturbed' = TRUE
  /\ UNCHANGED <<size, handleOpen, shifting, written, reader, began>>

OpenFresh ==
  /\ rotating = "open"
  /\ \/ rotating' = "no" /\ size' = 0 /\ handleOpen' = TRUE
     \/ rotating' = "reopen" /\ UNCHANGED <<size, handleOpen>>
  /\ UNCHANGED <<logFiles, shifting, written, undropped, reader, disturbed, began>>

\* The record goes to the oversized file: rotation failing must not silence logging.
AppendToWhatIsOpen ==
  IF handleOpen' THEN /\ logLive' = Append(logLive, written + 1) /\ written' = written + 1
                      /\ size' = Len(logLive) + 1
  ELSE UNCHANGED <<logLive, written, size>>

\* Slip: the reopened file is truncated.
ReopenTruncating ==
  /\ rotating = "reopen" /\ rotating' = "no" /\ handleOpen' = TRUE
  /\ logLive' = <<written + 1>> /\ written' = written + 1 /\ size' = 1
  /\ UNCHANGED <<archives, shifting, undropped, reader, disturbed, began>>

\* reopenLocked, best effort, and the write that asked for the rotation.
Reopen ==
  /\ rotating = "reopen" /\ rotating' = "no"
  /\ handleOpen' \in BOOLEAN
  /\ AppendToWhatIsOpen
  /\ UNCHANGED <<archives, shifting, undropped, reader, disturbed, began>>

\* A stop: the next daemon opens the file for appending and takes its size from it.
WriterRestarts ==
  /\ handleOpen' = TRUE /\ rotating' = "no" /\ shifting' = 0 /\ size' = Len(logLive)
  /\ UNCHANGED <<logFiles, written, undropped, reader, disturbed, began>>

-----------------------------------------------------------------------------
(* The reader: Read, file by file, oldest first.                           *)
BeginRead ==
  /\ cursor = Done
  /\ cursor' = FileBackups /\ found' = <<>> /\ problem' = FALSE
  /\ disturbed' = (rotating \notin {"no", "open", "reopen"})
  /\ began' = written
  /\ UNCHANGED <<logFiles, writer, written, undropped>>

NextFile(i) == IF i = 0 THEN Done ELSE i - 1

\* Slip: a missing archive ends the walk.
StopsAtGap ==
  /\ cursor # Done
  /\ found' = found \o FileAt(cursor)
  /\ cursor' = IF cursor # 0 /\ FileAt(cursor) = <<>> /\ found # <<>> THEN Done ELSE NextFile(cursor)
  /\ UNCHANGED <<problem, logFiles, writer, written, undropped, disturbed, began>>

\* A file that is not there is no problem; one that cannot be read costs itself.
ReadFile ==
  /\ cursor # Done
  /\ \/ found' = found \o FileAt(cursor) /\ UNCHANGED problem
     \/ FileAt(cursor) # <<>> /\ problem' = TRUE /\ UNCHANGED found
  /\ cursor' = NextFile(cursor)
  /\ UNCHANGED <<logFiles, writer, written, undropped, disturbed, began>>

LogNext ==
  \/ AppendRecord \/ StartRotation \/ Shift \/ RotateLive \/ OpenFresh \/ Reopen
  \/ WriterRestarts \/ BeginRead \/ ReadFile

LogSpec == LogInit /\ [][LogNext]_logVars

-----------------------------------------------------------------------------
Consecutive(s) == \A i \in DOMAIN s : s[i] + 1 = s[1] + i
Increasing(s) == \A i, j \in DOMAIN s : i < j => s[i] < s[j]

\* An older file holds older records.
OldestFirst ==
  \A i, j \in Chain : i > j => \A r \in Range(FileAt(i)), q \in Range(FileAt(j)) : r < q

\* The files hold the latest history without a hole, whichever removals, renames, closes
\* and opens fail and wherever the daemon is stopped in a rotation; only its oldest end is
\* lost.  An archive that could not be dropped may stand apart behind it.
HistoryHasNoHole ==
  /\ OldestFirst /\ \A i \in Chain : Consecutive(FileAt(i))
  /\ \A r \in Kept : r .. written \subseteq Kept
  /\ written > 0 => written \in Kept

\* What `dezhban logs' shows is all that was there when it began, in order, when no file
\* failed and no rotation ran while it was read; without a hole, unless an archive that
\* could not be dropped stands at its beginning.
ReadIsWhole ==
  (cursor = Done /\ ~problem /\ ~disturbed) =>
    /\ Range(found) \subseteq Held /\ Held \cap (1 .. began) \subseteq Range(found)
    /\ IF undropped THEN Increasing(found) ELSE Consecutive(found)

\* What the log and those who read it promise.
LogPromise == LogTypeOK /\ HistoryHasNoHole /\ ReadIsWhole
=============================================================================
