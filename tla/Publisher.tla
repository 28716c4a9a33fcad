----------------------------- MODULE Publisher -----------------------------
(***************************************************************************)
(* How state.json follows the run loop (Run, internal/runner): the loop    *)
(* publishes each snapshot into a small channel and never waits; one       *)
(* goroutine writes them, each as slow as the disk; at the end a last      *)
(* "stopped" snapshot is flushed for a bounded time, and only then are the *)
(* rules torn down.  Snapshots are numbered as they are published.         *)
(***************************************************************************)
EXTENDS Naturals, Sequences

CONSTANTS
  PublishBuffer,     \* the channel's capacity
  MaxSnapshots       \* bound: snapshots of one process

ASSUME PublisherAssumption == PublishBuffer \in Nat \ {0} /\ MaxSnapshots \in Nat \ {0}

VARIABLES
  loopStage,         \* "running", "publishing", "flushing", "tearing down", "gone"
  snap,              \* the last snapshot produced
  buffer, closed,    \* the channel
  writing,           \* the snapshot the writer is busy with, or 0
  wedged,            \* its write will never return
  stateFile,         \* the snapshot in state.json, or 0
  final,             \* the number of the "stopped" snapshot, or 0
  missed             \* history: a write failed, or the flush was cut short

pubVars == <<loopStage, snap, buffer, closed, writing, wedged, stateFile, final, missed>>

Numbers == 0 .. MaxSnapshots
PubTypeOK ==
  /\ loopStage \in {"running", "publishing", "flushing", "tearing down", "gone"}
  /\ {snap, writing, stateFile, final} \subseteq Numbers
  /\ buffer \in Seq(Numbers) /\ Len(buffer) <= PublishBuffer
  /\ {closed, wedged, missed} \subseteq BOOLEAN

PubInit ==
  /\ loopStage = "running" /\ snap = 0 /\ buffer = <<>> /\ closed = FALSE
  /\ writing = 0 /\ wedged = FALSE /\ stateFile = 0 /\ final = 0 /\ missed = FALSE

-----------------------------------------------------------------------------
\* A handler ends in a snapshot; runGuard returns and the last one says "stopped".
Produce ==
  /\ loopStage = "running" /\ snap < MaxSnapshots - 1
  /\ snap' = snap + 1 /\ loopStage' = "publishing"
  /\ UNCHANGED <<buffer, closed, writing, wedged, stateFile, final, missed>>
ProduceStopped ==
  /\ loopStage = "running"
  /\ snap' = snap + 1 /\ final' = snap + 1 /\ loopStage' = "publishing"
  /\ UNCHANGED <<buffer, closed, writing, wedged, stateFile, missed>>

AfterPublish == loopStage' = IF final = 0 THEN "running" ELSE "flushing"

Enqueue ==
  /\ loopStage = "publishing" /\ Len(buffer) < PublishBuffer
  /\ buffer' = Append(buffer, snap) /\ AfterPublish
  /\ closed' = (final # 0)
  /\ UNCHANGED <<snap, writing, wedged, stateFile, final, missed>>

\* Slip: a full channel drops the newest.
DropNewest ==
  /\ loopStage = "publishing" /\ Len(buffer) = PublishBuffer
  /\ AfterPublish /\ closed' = (final # 0)
  /\ UNCHANGED <<snap, buffer, writing, wedged, stateFile, final, missed>>

\* Full: the oldest goes, and the send is tried again.
DropOldest ==
  /\ loopStage = "publishing" /\ Len(buffer) = PublishBuffer
  /\ buffer' = Tail(buffer)
  /\ UNCHANGED <<loopStage, snap, closed, writing, wedged, stateFile, final, missed>>

TakeSnapshot ==
  /\ writing = 0 /\ buffer # <<>> /\ loopStage # "gone"
  /\ writing' = Head(buffer) /\ buffer' = Tail(buffer)
  /\ UNCHANGED <<loopStage, snap, closed, wedged, stateFile, final, missed>>

\* Slip: a write that failed is tried again later.
RequeueFailed ==
  /\ writing # 0 /\ ~wedged /\ loopStage # "gone"
  /\ writing' = 0
  /\ \/ stateFile' = writing /\ UNCHANGED <<missed, buffer>>
     \/ /\ Len(buffer) < PublishBuffer /\ buffer' = Append(buffer, writing)
        /\ missed' = TRUE /\ UNCHANGED stateFile
  /\ UNCHANGED <<loopStage, snap, closed, wedged, final>>

\* The file is replaced in one step, or the write fails, or hangs for good.
WriteState ==
  /\ writing # 0 /\ ~wedged /\ loopStage # "gone"
  /\ writing' = 0
  /\ \/ stateFile' = writing /\ UNCHANGED missed
     \/ missed' = TRUE /\ UNCHANGED stateFile
  /\ UNCHANGED <<loopStage, snap, buffer, closed, wedged, final>>
DiskHangs ==
  /\ writing # 0 /\ ~wedged /\ loopStage # "gone" /\ wedged' = TRUE
  /\ UNCHANGED <<loopStage, snap, buffer, closed, writing, stateFile, final, missed>>

Flushed ==
  /\ loopStage = "flushing" /\ closed /\ buffer = <<>> /\ writing = 0
  /\ loopStage' = "tearing down"
  /\ UNCHANGED <<snap, buffer, closed, writing, wedged, stateFile, final, missed>>

\* Slip: the flush waits for the writer, however long.
WaitForWriter ==
  /\ loopStage = "flushing" /\ buffer = <<>> /\ writing = 0
  /\ loopStage' = "tearing down"
  /\ UNCHANGED <<snap, buffer, closed, writing, wedged, stateFile, final, missed>>

FlushTimesOut ==
  /\ loopStage = "flushing"
  /\ loopStage' = "tearing down" /\ missed' = (missed \/ buffer # <<>> \/ writing # 0)
  /\ UNCHANGED <<snap, buffer, closed, writing, wedged, stateFile, final>>

\* The rules are removed and the process exits, a hung writer with it.
TearRulesDown ==
  /\ loopStage = "tearing down" /\ loopStage' = "gone"
  /\ UNCHANGED <<snap, buffer, closed, writing, wedged, stateFile, final, missed>>

Killed ==
  /\ loopStage # "gone" /\ loopStage' = "gone" /\ missed' = TRUE
  /\ UNCHANGED <<snap, buffer, closed, writing, wedged, stateFile, final>>

\* Another process: what it finds in the file counts as nothing of its own.
NextProcess ==
  /\ loopStage = "gone"
  /\ loopStage' = "running" /\ snap' = 0 /\ buffer' = <<>> /\ closed' = FALSE
  /\ writing' = 0 /\ wedged' = FALSE /\ stateFile' = 0 /\ final' = 0 /\ missed' = FALSE

PubNext ==
  \/ Produce \/ ProduceStopped \/ Enqueue \/ DropOldest \/ TakeSnapshot \/ WriteState
  \/ DiskHangs \/ Flushed \/ FlushTimesOut \/ TearRulesDown \/ Killed \/ NextProcess

\* The loop's own steps never wait for the writer.
PubFairness ==
  /\ WF_pubVars(Enqueue) /\ WF_pubVars(DropOldest)
  /\ WF_pubVars(Flushed) /\ WF_pubVars(FlushTimesOut) /\ WF_pubVars(TearRulesDown)

PubSpec == PubInit /\ [][PubNext]_pubVars /\ PubFairness

-----------------------------------------------------------------------------
\* state.json never goes back: a process's snapshots reach it in the order they were
\* published, whatever was dropped in between.
FileNeverGoesBack ==
  [][stateFile' # stateFile /\ loopStage # "gone" => stateFile' > stateFile]_pubVars

\* The latest snapshot lands: with nothing left to write and no write lost, the file is the
\* last one published, and after a clean stop it says "stopped".
LatestLands ==
  (loopStage # "publishing" /\ buffer = <<>> /\ writing = 0 /\ ~missed) => stateFile = snap

\* A disk that hangs never keeps the rules in place: a stop always gets to the teardown.
StopTearsDown == final # 0 ~> loopStage = "gone"

\* What the publisher promises.
PublisherPromise ==
  []PubTypeOK /\ []LatestLands /\ FileNeverGoesBack /\ StopTearsDown
=============================================================================
