--------------------------- MODULE ServiceProofs ---------------------------
(***************************************************************************)
(* What Commands promises a caller of the control socket and of the        *)
(* command file, what Publisher promises the readers of state.json, and    *)
(* what Instance promises of the daemons and of the service that keeps     *)
(* them, proved for any callers, daemons, deadlines and bounds.            *)
(*                                                                         *)
(* The commands rest on CmdInv: each invocation is accounted for in the    *)
(* queue of the server or in the command file at most once, and one whose  *)
(* answer it still waits for has waited no longer than the server has.     *)
(* The snapshots rest on PubInv: between the loop, the channel, the        *)
(* writer and the file each snapshot is older than the one behind it, and  *)
(* the newest is never the one that was dropped.  The daemons rest on      *)
(* InstInv: who enforces holds the lock, the last to listen has its socket *)
(* at the path, and a stopped service is kept by nobody.                   *)
(***************************************************************************)
EXTENDS Commands, Publisher, Instance, SequenceTheorems, FiniteSetTheorems, TLAPS

-----------------------------------------------------------------------------
(* The commands.                                                           *)

Invocations == [phase : Connected \cup {"idle", "root", "done"}, op : Ops \cup {"none"},
                token : BOOLEAN, reply : {NoReply, "ok", "refused", "transient"},
                since : Nat, waited : Nat, unanswered : BOOLEAN]
Queued == {requests[i] : i \in DOMAIN requests}
InFile == {slot.by, taken.by}

\* How long an invocation has waited, from where it is and since when.
WaitsInTime(k) ==
  /\ k.phase = "handoff" => k.since <= HandoffTimeout /\ k.waited <= k.since
  /\ k.phase \in Pending => k.since <= ReplyTimeout /\ k.waited <= HandoffTimeout + k.since
  /\ k.phase = "replied" => /\ k.since <= WriteDeadline
                            /\ k.waited <= HandoffTimeout + ReplyTimeout + k.since

\* An invocation k whose command was carried out n times: what it was told is so, and
\* only one that was let go without an answer may still be in the queue, or run twice.
Fine(k, n, queued, inFile) ==
  /\ k.phase \in {"idle", "handoff", "waiting"} => n = 0 /\ k.reply = NoReply /\ ~k.unanswered
  /\ k.phase = "answered" => k.reply \in {"ok", "refused"}
  /\ k.reply \in {"ok", "refused"} => k.phase \in {"answered", "replied", "done"} /\ ~k.unanswered
  /\ k.reply = "ok" => n > 0
  /\ k.phase \in {"replied", "root"} /\ k.reply # "ok" /\ ~k.unanswered => n = 0
  /\ k.reply = "refused" => n = 0
  /\ ~k.unanswered => n <= 1
  /\ queued => (k.phase = "waiting" \/ k.unanswered) /\ (k.op = "config-write" => k.token)
  /\ inFile => /\ k.phase = "done" /\ k.reply \notin {"ok", "refused"}
               /\ k.op # "config-write" /\ (~k.unanswered => n = 0)
  /\ WaitsInTime(k)

AllFine ==
  /\ \A i, j \in DOMAIN requests : requests[i] = requests[j] => i = j
  /\ \A c \in Callers : Fine(call[c], ran[c], c \in Queued, c \in InFile)

\* What lies in the file while a daemon runs was written in its time.
FileIsOfThisRun ==
  /\ taken # NoCommand => daemonUp /\ taken.thisRun
  /\ daemonUp /\ slot # NoCommand => slot.thisRun

CmdInv == CmdTypeOK /\ AllFine /\ FileIsOfThisRun

\* A step of one caller that touches no more than its own call.
LEMMA OneCall ==
  ASSUME CmdInv, NEW c \in Callers, NEW k \in Invocations, call' = [call EXCEPT ![c] = k],
         UNCHANGED <<daemonUp, allow, closing, requests, slot, taken, ran>>,
         Fine(k, ran[c], c \in Queued, c \in InFile)
  PROVE  CmdInv'
  <1>1. /\ call' \in [Callers -> Invocations] /\ call'[c] = k
        /\ \A d \in Callers \ {c} : call'[d] = call[d]
    BY DEF CmdInv, CmdTypeOK, Invocations
  <1>2. CmdTypeOK'
    BY <1>1 DEF CmdInv, CmdTypeOK, Invocations
  <1>3. Queued' = Queued /\ InFile' = InFile
    BY DEF Queued, InFile
  <1>4. \A d \in Callers : Fine(call'[d], ran[d], d \in Queued, d \in InFile)
    BY <1>1, Zenon DEF CmdInv, AllFine
  <1>5. AllFine'
    BY <1>3, <1>4 DEF CmdInv, AllFine
  <1>6. FileIsOfThisRun'
    BY DEF CmdInv, FileIsOfThisRun
  <1>7. QED
    BY <1>2, <1>5, <1>6 DEF CmdInv

\* The call of one that has its answer.
LEMMA RepliedCall ==
  ASSUME CmdInv, NEW c \in Callers, NEW reply \in {"ok", "refused", "transient"},
         call[c].phase \in {"handoff"} \cup Pending
  PROVE  \E k \in Invocations :
           /\ Replied(c, reply) = [call EXCEPT ![c] = k]
           /\ k.phase = "replied" /\ k.reply = reply /\ k.since = 0
           /\ k.op = call[c].op /\ k.token = call[c].token
           /\ k.unanswered = FALSE /\ WaitsInTime(k)
  <1>1. call[c] \in Invocations /\ call \in [Callers -> Invocations]
    BY DEF CmdInv, CmdTypeOK, Invocations
  <1>2. PICK k : k = [call[c] EXCEPT !.phase = "replied", !.reply = reply, !.since = 0]
    OBVIOUS
  <1>3. k \in Invocations
    BY <1>1, <1>2 DEF Invocations, Connected
  <1>4. /\ k.phase = "replied" /\ k.reply = reply /\ k.since = 0 /\ k.waited = call[c].waited
        /\ k.op = call[c].op /\ k.token = call[c].token /\ k.unanswered = call[c].unanswered
    BY <1>1, <1>2 DEF Invocations
  <1>5. call[c].unanswered = FALSE
    BY <1>1 DEF CmdInv, AllFine, Fine, Invocations, Pending
  <1>6. WaitsInTime(call[c])
    BY DEF CmdInv, AllFine, Fine
  <1>7. WaitsInTime(k)
    BY <1>1, <1>4, <1>6, CommandsAssumption DEF WaitsInTime, Invocations, Pending
  <1>8. Replied(c, reply) = [call EXCEPT ![c] = k]
    BY <1>1, <1>2 DEF Replied
  <1>9. QED
    BY <1>3, <1>4, <1>5, <1>7, <1>8

\* What is in course before its answer is at rest otherwise.
LEMMA InCourse ==
  ASSUME CmdInv, NEW c \in Callers
  PROVE  /\ call[c] \in Invocations /\ call \in [Callers -> Invocations] /\ ran[c] \in 0 .. 2
         /\ Fine(call[c], ran[c], c \in Queued, c \in InFile)
  BY DEF CmdInv, CmdTypeOK, AllFine, Invocations

\* An invocation may take up only its own call: dial, ...
LEMMA DialStep ==
  ASSUME CmdInv, NEW c \in Callers, NEW op \in Ops, NEW token \in BOOLEAN, Dial(c, op, token)
  PROVE  CmdInv'
  <1>1. PICK phase \in {"handoff", "root"} :
          call' = [call EXCEPT ![c] = [IdleCall EXCEPT !.phase = phase, !.op = op, !.token = token]]
    BY DEF Dial
  <1>2. /\ IdleCall \in Invocations /\ IdleCall.reply = NoReply /\ IdleCall.since = 0
        /\ IdleCall.waited = 0 /\ IdleCall.unanswered = FALSE
    BY DEF IdleCall, Invocations
  <1>3. PICK k : k = [IdleCall EXCEPT !.phase = phase, !.op = op, !.token = token]
    OBVIOUS
  <1>9. /\ k \in Invocations /\ k.phase = phase /\ k.op = op /\ k.token = token
        /\ k.reply = NoReply /\ k.since = 0 /\ k.waited = 0 /\ k.unanswered = FALSE
    BY <1>2, <1>3 DEF Invocations, Connected
  <1>4. ran[c] = 0 /\ c \notin Queued /\ c \notin InFile
    BY InCourse DEF Dial, Fine
  <1>5. Fine(k, ran[c], c \in Queued, c \in InFile)
    BY <1>9, <1>4, CommandsAssumption DEF Fine, WaitsInTime, NoReply, Pending
  <1>6. QED
    BY <1>1, <1>3, <1>5, <1>9, OneCall DEF Dial

\* ... be turned away, be told of a full queue or that the daemon is closing, ...
LEMMA TurnedAwayStep ==
  ASSUME CmdInv, NEW c \in Callers, NEW reply \in {"refused", "transient"},
         call' = Replied(c, reply), call[c].phase = "handoff",
         UNCHANGED <<daemonUp, allow, closing, requests, slot, taken, ran>>
  PROVE  CmdInv'
  <1>1. PICK k \in Invocations :
           /\ Replied(c, reply) = [call EXCEPT ![c] = k]
           /\ k.phase = "replied" /\ k.reply = reply /\ k.since = 0
           /\ k.op = call[c].op /\ k.token = call[c].token
           /\ k.unanswered = FALSE /\ WaitsInTime(k)
    <2>1. reply \in {"ok", "refused", "transient"} /\ call[c].phase \in {"handoff"} \cup Pending
      OBVIOUS
    <2>2. QED
      BY <2>1, RepliedCall, Zenon
  <1>2. ran[c] = 0 /\ c \notin Queued /\ c \notin InFile
    BY InCourse DEF Fine, Pending
  <1>3. Fine(k, ran[c], c \in Queued, c \in InFile)
    BY <1>1, <1>2 DEF Fine, NoReply
  <1>4. QED
    BY <1>1, <1>3, OneCall

\* ... be let go while its request may yet be served or has been, ...
LEMMA LetGoStep ==
  ASSUME CmdInv, NEW c \in Callers, call' = LetGo(c), call[c].phase \in Pending,
         UNCHANGED <<daemonUp, allow, closing, requests, slot, taken, ran>>
  PROVE  CmdInv'
  <1>1. PICK k \in Invocations :
           /\ Replied(c, "transient") = [call EXCEPT ![c] = k]
           /\ k.phase = "replied" /\ k.reply = "transient" /\ k.since = 0
           /\ k.op = call[c].op /\ k.token = call[c].token
           /\ k.unanswered = FALSE /\ WaitsInTime(k)
    BY RepliedCall
  <1>2. PICK l \in Invocations : l = [k EXCEPT !.unanswered = TRUE]
    BY DEF Invocations
  <1>3. /\ l.phase = "replied" /\ l.reply = "transient" /\ l.since = 0 /\ l.waited = k.waited
        /\ l.op = call[c].op /\ l.token = call[c].token /\ l.unanswered = TRUE
    BY <1>1, <1>2 DEF Invocations
  <1>4. call' = [call EXCEPT ![c] = l]
    BY <1>1, <1>2, InCourse DEF LetGo
  <1>5. c \notin InFile /\ (c \in Queued => (call[c].op = "config-write" => call[c].token))
    BY InCourse DEF Fine, Pending
  <1>6. WaitsInTime(l)
    BY <1>1, <1>3 DEF WaitsInTime, Pending
  <1>7. Fine(l, ran[c], c \in Queued, c \in InFile)
    BY <1>3, <1>5, <1>6 DEF Fine, NoReply, Pending
  <1>8. QED
    BY <1>4, <1>7, OneCall

\* ... have its answer written, ...
LEMMA DeliverStep ==
  ASSUME CmdInv, NEW c \in Callers, DeliverReply(c)
  PROVE  CmdInv'
  <1>1. /\ Fine(call[c], ran[c], c \in Queued, c \in InFile) /\ call[c].phase = "answered"
        /\ call[c].reply \in {"ok", "refused"}
    BY InCourse DEF Fine, DeliverReply
  <1>2. PICK reply \in {"ok", "refused", "transient"} : reply = call[c].reply
    BY <1>1
  <1>3. PICK k \in Invocations :
           /\ Replied(c, reply) = [call EXCEPT ![c] = k]
           /\ k.phase = "replied" /\ k.reply = reply /\ k.since = 0
           /\ k.op = call[c].op /\ k.token = call[c].token
           /\ k.unanswered = FALSE /\ WaitsInTime(k)
    BY <1>1, RepliedCall DEF Pending
  <1>4. c \notin Queued /\ c \notin InFile /\ ~call[c].unanswered
    BY <1>1 DEF Fine
  <1>5. Fine(k, ran[c], c \in Queued, c \in InFile)
    BY <1>1, <1>2, <1>3, <1>4 DEF Fine, NoReply, Pending
  <1>6. QED
    BY <1>2, <1>3, <1>5, OneCall DEF DeliverReply

\* ... or be told of any of this, ...
LEMMA AnsweredStep ==
  ASSUME CmdInv, NEW c \in Callers,
         \/ TurnAway(c) \/ Busy(c) \/ DeliverReply(c) \/ ReplyTimesOut(c) \/ ShuttingDown(c)
  PROVE  CmdInv'
  <1>1. CASE TurnAway(c)
    BY <1>1, TurnedAwayStep DEF TurnAway
  <1>2. CASE Busy(c)
    BY <1>2, TurnedAwayStep DEF Busy
  <1>3. CASE DeliverReply(c)
    BY <1>3, DeliverStep
  <1>4. CASE ReplyTimesOut(c)
    BY <1>4, LetGoStep DEF ReplyTimesOut
  <1>5. CASE ShuttingDown(c)
    BY <1>5, TurnedAwayStep, LetGoStep DEF ShuttingDown
  <1>6. QED
    BY <1>1, <1>2, <1>3, <1>4, <1>5

\* ... read its answer, or give up.
LEMMA OverCall ==
  ASSUME CmdInv, NEW c \in Callers
  PROVE  \E k \in Invocations :
           /\ Over(c) = [call EXCEPT ![c] = k]
           /\ k.phase = "done" /\ k.reply = call[c].reply /\ k.op = call[c].op
           /\ k.token = call[c].token /\ k.unanswered = call[c].unanswered /\ WaitsInTime(k)
  <1>1. call[c] \in Invocations /\ call \in [Callers -> Invocations]
    BY InCourse
  <1>2. PICK k : k = [call[c] EXCEPT !.phase = "done", !.since = 0, !.waited = 0]
    OBVIOUS
  <1>3. k \in Invocations
    BY <1>1, <1>2 DEF Invocations
  <1>4. /\ k.phase = "done" /\ k.reply = call[c].reply /\ k.op = call[c].op
        /\ k.token = call[c].token /\ k.unanswered = call[c].unanswered
    BY <1>1, <1>2 DEF Invocations
  <1>5. Over(c) = [call EXCEPT ![c] = k]
    BY <1>1, <1>2 DEF Over
  <1>6. QED
    BY <1>3, <1>4, <1>5 DEF WaitsInTime, Pending

\* ... and what it does with the answer, or without the root it would need, is up to it.
LEMMA ReadStep ==
  ASSUME CmdInv, NEW c \in Callers, ReadReply(c) \/ NoRoot(c)
  PROVE  CmdInv'
  <1>1. CASE call[c].phase = "replied" /\ call[c].reply = "transient"
             /\ call' = [call EXCEPT ![c].phase = "root"]
    <2>1. PICK k \in Invocations : k = [call[c] EXCEPT !.phase = "root"]
      BY InCourse DEF Invocations
    <2>2. /\ k.phase = "root" /\ k.reply = "transient" /\ k.op = call[c].op
          /\ k.token = call[c].token /\ k.unanswered = call[c].unanswered
      BY <1>1, <2>1, InCourse DEF Invocations
    <2>3. call' = [call EXCEPT ![c] = k]
      BY <1>1, <2>1, InCourse
    <2>4. Fine(k, ran[c], c \in Queued, c \in InFile)
      BY <1>1, <2>2, InCourse DEF Fine, WaitsInTime, NoReply, Pending
    <2>5. QED
      BY <2>3, <2>4, OneCall DEF ReadReply, NoRoot
  <1>2. CASE call[c].phase \in {"replied", "root"} /\ call' = Over(c)
    <2>1. PICK k \in Invocations :
           /\ Over(c) = [call EXCEPT ![c] = k]
           /\ k.phase = "done" /\ k.reply = call[c].reply /\ k.op = call[c].op
           /\ k.token = call[c].token /\ k.unanswered = call[c].unanswered /\ WaitsInTime(k)
      BY OverCall
    <2>2. Fine(k, ran[c], c \in Queued, c \in InFile)
      BY <1>2, <2>1, InCourse DEF Fine
    <2>3. QED
      BY <1>2, <2>1, <2>2, OneCall DEF ReadReply, NoRoot
  <1>3. QED
    BY <1>1, <1>2 DEF ReadReply, NoRoot, FallsBack

\* Of the callers that wait in the queue and in the file, fewer are as fine.
LEMMA FinerWithLess ==
  ASSUME NEW k, NEW n, NEW q, NEW f, NEW qq, NEW ff, qq => q, ff => f, Fine(k, n, q, f)
  PROVE  Fine(k, n, qq, ff)
  BY DEF Fine

\* The daemon starts and finds no command in the file, ...
LEMMA StartStep ==
  ASSUME CmdInv, StartDaemon
  PROVE  CmdInv'
  <1>1. CmdTypeOK'
    BY DEF StartDaemon, CmdInv, CmdTypeOK
  <1>2. Queued' = Queued /\ \A c \in Callers : c \in InFile' => c \in InFile
    BY CommandsAssumption DEF StartDaemon, Queued, InFile, NoCommand
  <1>3. AllFine'
    <2>1. \A c \in Callers : Fine(call[c], ran[c], c \in Queued, c \in InFile')
      BY <1>2, InCourse, FinerWithLess
    <2>2. QED
      BY <1>2, <2>1 DEF StartDaemon, CmdInv, AllFine
  <1>4. QED
    BY <1>1, <1>3 DEF StartDaemon, CmdInv, FileIsOfThisRun

\* ... is told to stop, ...
LEMMA ClosingStep ==
  ASSUME CmdInv, BeginClosing
  PROVE  CmdInv'
  BY DEF BeginClosing, CmdInv, CmdTypeOK, AllFine, Queued, InFile, FileIsOfThisRun

\* ... and ends, with everything that waited for it.
LEMMA EndStep ==
  ASSUME CmdInv, DaemonEnds
  PROVE  CmdInv'
  <1>1. slot' \in FileCommands \cup {NoCommand} /\ slot'.by = slot.by
    <2>1. CASE slot = NoCommand
      BY <2>1 DEF DaemonEnds, NoCommand
    <2>2. CASE slot \in FileCommands
      BY <2>2 DEF DaemonEnds, FileCommands
    <2>3. QED
      BY <2>1, <2>2 DEF CmdInv, CmdTypeOK
  <1>2. \A c \in Callers : c \in InFile' => c \in InFile
    BY <1>1, CommandsAssumption DEF DaemonEnds, InFile, NoCommand
  <1>3. Queued' = {}
    BY DEF DaemonEnds, Queued
  <1>4. ASSUME NEW c \in Callers
        PROVE  call'[c] \in Invocations /\ Fine(call'[c], ran[c], c \in Queued', c \in InFile')
    <2>1. CASE call[c].phase \in {"handoff"} \cup Pending
      <3>1. PICK k \in Invocations : k = Unread(call[c])
        BY <2>1, InCourse DEF Invocations, Unread
      <3>2. /\ k.phase = "root" /\ k.reply = NoReply /\ k.op = call[c].op
            /\ k.unanswered <=> call[c].phase = "answered"
        BY <2>1, <3>1, InCourse DEF Invocations, Unread
      <3>3. /\ c \notin InFile' /\ ran[c] \in 0 .. 2
            /\ call[c].phase = "answered" \/ ran[c] = 0
        BY <1>2, <2>1, InCourse DEF Fine, Pending
      <3>4. Fine(k, ran[c], c \in Queued', c \in InFile')
        <4>1. /\ k.phase = "root" /\ k.reply \notin {"ok", "refused"} /\ c \notin Queued'
              /\ ~k.unanswered => ran[c] = 0 /\ ran[c] <= 1
          BY <1>3, <3>2, <3>3 DEF NoReply
        <4>2. QED
          BY <3>3, <4>1 DEF Fine, WaitsInTime, Pending
      <3>5. call'[c] = k
        BY <3>1 DEF DaemonEnds
      <3>6. QED
        BY <3>4, <3>5
    <2>2. CASE call[c].phase \notin {"handoff"} \cup Pending
      <3>1. call'[c] = call[c]
        BY <2>2 DEF DaemonEnds, Unread
      <3>2. QED
        BY <1>2, <1>3, <3>1, InCourse, FinerWithLess
    <2>3. QED
      BY <2>1, <2>2
  <1>5. DOMAIN call' = Callers /\ call' = [c \in Callers |-> call'[c]]
    BY DEF DaemonEnds
  <1>6. CmdTypeOK'
    <2>1. call' \in [Callers -> Invocations]
      BY <1>4, <1>5
    <2>2. <<>> \in Seq(Callers) /\ Len(<<>>) = 0
      BY EmptySeq
    <2>3. QED
      <3>1. requests' \in Seq(Callers) /\ Len(requests') <= QueueLimit
        BY <2>2, CommandsAssumption DEF DaemonEnds
      <3>2. {slot', taken'} \subseteq FileCommands \cup {NoCommand}
        BY <1>1 DEF DaemonEnds
      <3>3. QED
        BY <2>1, <3>1, <3>2 DEF DaemonEnds, CmdInv, CmdTypeOK, Invocations
  <1>7. AllFine'
    <2>1. \A i, j \in DOMAIN requests' : requests'[i] = requests'[j] => i = j
      BY DEF DaemonEnds
    <2>2. \A c \in Callers : Fine(call'[c], ran'[c], c \in Queued', c \in InFile')
      <3>1. ran' = ran
        BY DEF DaemonEnds
      <3>2. QED
        BY <1>4, <3>1
    <2>3. QED
      BY <2>1, <2>2 DEF AllFine
  <1>8. FileIsOfThisRun'
    BY DEF DaemonEnds, FileIsOfThisRun
  <1>9. QED
    BY <1>6, <1>7, <1>8 DEF CmdInv

\* A request joins the queue once, with its proof, ...
LEMMA HandOffStep ==
  ASSUME CmdInv, NEW c \in Callers, HandOff(c)
  PROVE  CmdInv'
  <1>1. /\ requests \in Seq(Callers) /\ Len(requests) \in Nat /\ Len(requests) < QueueLimit
        /\ DOMAIN requests = 1 .. Len(requests)
    BY DEF HandOff, CmdInv, CmdTypeOK
  <1>2. /\ requests' \in Seq(Callers) /\ Len(requests') = Len(requests) + 1
        /\ \A i \in 1 .. Len(requests) : requests'[i] = requests[i]
        /\ requests'[Len(requests) + 1] = c
        /\ DOMAIN requests' = 1 .. Len(requests) + 1
    <2>1. requests' = Append(requests, c)
      BY DEF HandOff
    <2>2. QED
      BY <1>1, <2>1, AppendProperties
  <1>3. Queued' = Queued \cup {c}
    BY <1>1, <1>2 DEF Queued
  <1>4. c \notin Queued /\ c \notin InFile /\ ran[c] = 0 /\ call[c].phase = "handoff"
        /\ call[c].reply = NoReply /\ call[c].unanswered = FALSE
        /\ (call[c].op = "config-write" => call[c].token) /\ WaitsInTime(call[c])
    <2>1. call[c].phase = "handoff" /\ (call[c].op = "config-write" => call[c].token)
      BY DEF HandOff, Authorised, Verify
    <2>2. QED
      BY <2>1, InCourse DEF Fine, Invocations
  <1>5. PICK k \in Invocations : k = [call[c] EXCEPT !.phase = "waiting", !.since = 0]
    BY InCourse DEF Invocations, Connected, Pending
  <1>6. /\ k.phase = "waiting" /\ k.since = 0 /\ k.waited = call[c].waited /\ k.op = call[c].op
        /\ k.token = call[c].token /\ k.reply = NoReply /\ k.unanswered = FALSE
    BY <1>4, <1>5, InCourse DEF Invocations
  <1>7. WaitsInTime(k)
    BY <1>4, <1>6, InCourse, CommandsAssumption DEF WaitsInTime, Invocations, Pending
  <1>9. call' = [call EXCEPT ![c] = k]
    BY <1>5, InCourse DEF HandOff
  <1>10. /\ call' \in [Callers -> Invocations] /\ call'[c] = k
         /\ \A d \in Callers \ {c} : call'[d] = call[d]
    BY <1>9, InCourse
  <1>11. CmdTypeOK'
    BY <1>1, <1>2, <1>10, CommandsAssumption DEF HandOff, CmdInv, CmdTypeOK, Invocations
  <1>12. InFile' = InFile /\ ran' = ran
    BY DEF HandOff, InFile
  <1>13. \A d \in Callers : Fine(call'[d], ran'[d], d \in Queued', d \in InFile')
    <2>1. ASSUME NEW d \in Callers \ {c}
          PROVE  Fine(call'[d], ran'[d], d \in Queued', d \in InFile')
      BY <1>3, <1>10, <1>12, InCourse
    <2>2. Fine(k, ran[c], c \in Queued', c \in InFile')
      BY <1>4, <1>6, <1>7, <1>12 DEF Fine, NoReply
    <2>3. Fine(call'[c], ran'[c], c \in Queued', c \in InFile')
      BY <1>10, <1>12, <2>2, Zenon
    <2>4. QED
      BY <2>1, <2>3
  <1>14. \A i, j \in DOMAIN requests' : requests'[i] = requests'[j] => i = j
    BY <1>1, <1>2, <1>4 DEF CmdInv, AllFine, Queued
  <1>15. QED
    BY <1>11, <1>13, <1>14 DEF HandOff, CmdInv, AllFine, FileIsOfThisRun

\* The history counts to two, which is more than once.
LEMMA CountIs == \A n \in 0 .. 2 : Count(n) \in 0 .. 2 /\ Count(n) > 0 /\ (n = 0 => Count(n) = 1)
  BY DEF Count

\* ... is served once, and its caller told whether it was carried out, ...
LEMMA ServeStep ==
  ASSUME CmdInv, Serve
  PROVE  CmdInv'
  <1> DEFINE c == Head(requests)
  <1>1. PICK ok \in BOOLEAN :
          /\ ran' = [ran EXCEPT ![c] = IF ok THEN Count(@) ELSE @]
          /\ call' = IF call[c].phase # "waiting" THEN call
                     ELSE [call EXCEPT ![c].phase = "answered",
                                       ![c].reply = IF ok THEN "ok" ELSE "refused"]
    BY DEF Serve
  <1>2. /\ requests \in Seq(Callers) /\ requests # <<>> /\ requests' = Tail(requests)
        /\ UNCHANGED <<daemonUp, allow, closing, slot, taken>>
    BY DEF Serve, CmdInv, CmdTypeOK
  <1>3. /\ Len(requests) \in Nat /\ Len(requests) > 0 /\ DOMAIN requests = 1 .. Len(requests)
        /\ c = requests[1] /\ c \in Callers
    BY <1>2, EmptySeq
  <1>4. /\ requests' \in Seq(Callers) /\ Len(requests') = Len(requests) - 1
        /\ \A i \in 1 .. Len(requests) - 1 : requests'[i] = requests[i + 1]
        /\ DOMAIN requests' = 1 .. Len(requests) - 1
    BY <1>2, <1>3, HeadTailProperties
  <1> HIDE DEF c
  <1>5. \A i, j \in DOMAIN requests : requests[i] = requests[j] => i = j
    BY DEF CmdInv, AllFine
  <1>6. c \in Queued /\ Queued' = Queued \ {c}
    <2>1. c \in Queued
      BY <1>3 DEF Queued
    <2>2. \A d \in Queued' : d \in Queued \ {c}
      <3>1. ASSUME NEW i \in DOMAIN requests' PROVE requests'[i] \in Queued \ {c}
        <4>1. i + 1 \in DOMAIN requests /\ i + 1 # 1 /\ 1 \in DOMAIN requests
              /\ requests'[i] = requests[i + 1]
          BY <1>3, <1>4, <3>1
        <4>2. QED
          BY <1>3, <1>5, <4>1 DEF Queued
      <3>2. QED
        BY <3>1 DEF Queued
    <2>3. \A d \in Queued \ {c} : d \in Queued'
      <3>1. ASSUME NEW i \in DOMAIN requests, requests[i] # c PROVE requests[i] \in Queued'
        <4>1. i - 1 \in DOMAIN requests' /\ requests'[i - 1] = requests[i]
          BY <1>3, <1>4, <3>1
        <4>2. QED
          BY <4>1 DEF Queued
      <3>2. QED
        BY <3>1 DEF Queued
    <2>4. QED
      BY <2>1, <2>2, <2>3
  <1>7. InFile' = InFile /\ ran \in [Callers -> 0 .. 2]
    BY <1>2 DEF InFile, CmdInv, CmdTypeOK
  <1>8. PICK n \in 0 .. 2 : n = IF ok THEN Count(ran[c]) ELSE ran[c]
    BY <1>3, <1>7, CountIs
  <1>9. /\ ran' \in [Callers -> 0 .. 2] /\ ran'[c] = n
        /\ \A d \in Callers \ {c} : ran'[d] = ran[d]
    BY <1>1, <1>3, <1>7, <1>8
  <1>10. Fine(call[c], ran[c], c \in Queued, c \in InFile)
    BY <1>3, InCourse
  <1>11. PICK k \in Invocations :
           /\ call' = [call EXCEPT ![c] = k]
           /\ Fine(k, n, c \in Queued', c \in InFile)
    <2>1. CASE call[c].phase # "waiting"
      <3>1. call[c].unanswered
        BY <1>6, <1>10, <2>1 DEF Fine
      <3>2. Fine(call[c], n, c \in Queued', c \in InFile)
        BY <1>6, <1>10, <2>1, <3>1 DEF Fine, NoReply
      <3>3. call[c] \in Invocations /\ call' = [call EXCEPT ![c] = call[c]]
        BY <1>1, <1>3, <2>1, InCourse
      <3>4. QED
        BY <3>2, <3>3
    <2>2. CASE call[c].phase = "waiting"
      <3>1. PICK reply \in {"ok", "refused"} :
              /\ call' = [call EXCEPT ![c] = [call[c] EXCEPT !.phase = "answered", !.reply = reply]]
              /\ reply = "ok" <=> ok
        BY <1>1, <1>3, <2>2, InCourse
      <3>2. PICK k \in Invocations : k = [call[c] EXCEPT !.phase = "answered", !.reply = reply]
        BY <1>3, InCourse DEF Invocations, Connected, Pending
      <3>7. /\ k.phase = "answered" /\ k.reply = reply /\ k.since = call[c].since
            /\ k.waited = call[c].waited /\ k.op = call[c].op /\ k.token = call[c].token
            /\ k.unanswered = call[c].unanswered
        BY <1>3, <3>2, InCourse DEF Invocations
      <3>8. WaitsInTime(k) /\ k.unanswered = FALSE
        BY <1>3, <1>10, <2>2, <3>7, InCourse DEF Fine, WaitsInTime, Pending, Invocations
      <3>3. ran[c] = 0 /\ c \notin InFile
        BY <1>10, <2>2 DEF Fine
      <3>4. IF reply = "ok" THEN n = 1 ELSE n = 0
        BY <1>8, <3>1, <3>3, CountIs
      <3>5. Fine(k, n, c \in Queued', c \in InFile)
        BY <1>6, <3>3, <3>4, <3>7, <3>8 DEF Fine, NoReply
      <3>6. QED
        BY <3>1, <3>2, <3>5
    <2>3. QED
      BY <2>1, <2>2
  <1>12. /\ call' \in [Callers -> Invocations] /\ call'[c] = k
         /\ \A d \in Callers \ {c} : call'[d] = call[d]
    BY <1>3, <1>11, InCourse
  <1>13. CmdTypeOK'
    BY <1>2, <1>3, <1>4, <1>9, <1>12, CommandsAssumption DEF CmdInv, CmdTypeOK, Invocations
  <1>14. \A d \in Callers : Fine(call'[d], ran'[d], d \in Queued', d \in InFile')
    <2>1. ASSUME NEW d \in Callers \ {c}
          PROVE  Fine(call'[d], ran'[d], d \in Queued', d \in InFile')
      BY <1>6, <1>7, <1>9, <1>12, InCourse
    <2>2. Fine(call'[c], ran'[c], c \in Queued', c \in InFile')
      BY <1>7, <1>9, <1>11, <1>12, Zenon
    <2>3. QED
      BY <2>1, <2>2
  <1>15. \A i, j \in DOMAIN requests' : requests'[i] = requests'[j] => i = j
    BY <1>3, <1>4, <1>5
  <1>16. QED
    BY <1>2, <1>13, <1>14, <1>15 DEF CmdInv, AllFine, FileIsOfThisRun

\* ... or goes by the root path: into the file, or carried out on the spot.
LEMMA RootStep ==
  ASSUME CmdInv, NEW c \in Callers, RootPath(c)
  PROVE  CmdInv'
  <1>1. PICK k \in Invocations :
           /\ Over(c) = [call EXCEPT ![c] = k]
           /\ k.phase = "done" /\ k.reply = call[c].reply /\ k.op = call[c].op
           /\ k.token = call[c].token /\ k.unanswered = call[c].unanswered /\ WaitsInTime(k)
    BY OverCall
  <1>2. /\ call' \in [Callers -> Invocations] /\ call'[c] = k
        /\ \A d \in Callers \ {c} : call'[d] = call[d]
    BY <1>1, InCourse DEF RootPath
  <1>3. /\ call[c].phase = "root" /\ Queued' = Queued
        /\ UNCHANGED <<daemonUp, allow, closing, requests, taken>>
    BY DEF RootPath, Queued
  <1>4. /\ Fine(call[c], ran[c], c \in Queued, c \in InFile) /\ c \notin InFile
        /\ (~call[c].unanswered => ran[c] = 0) /\ call[c].reply \notin {"ok", "refused"}
    BY <1>3, InCourse DEF Fine
  <1>5. CASE /\ Family(call[c].op) \in {"switch", "pause"} /\ UNCHANGED ran
             /\ slot' = [op |-> call[c].op, by |-> c, stale |-> FALSE, thisRun |-> daemonUp]
    <2>1. call[c].op # "none" /\ call[c].op # "config-write"
      BY <1>5 DEF Family
    <2>2. slot' \in FileCommands /\ slot'.by = c /\ (daemonUp => slot'.thisRun)
      BY <1>5, <2>1, InCourse DEF CmdInv, CmdTypeOK, FileCommands, Invocations
    <2>3. \A d \in Callers \ {c} : d \in InFile' => d \in InFile
      BY <1>3, <2>2 DEF InFile
    <2>4. Fine(k, ran[c], c \in Queued', c \in InFile')
      BY <1>1, <1>3, <1>4, <2>1 DEF Fine
    <2>5. \A d \in Callers : Fine(call'[d], ran'[d], d \in Queued', d \in InFile')
      <3>1. ASSUME NEW d \in Callers \ {c}
            PROVE  Fine(call'[d], ran'[d], d \in Queued', d \in InFile')
        BY <1>2, <1>3, <1>5, <2>3, InCourse, FinerWithLess
      <3>2. Fine(call'[c], ran'[c], c \in Queued', c \in InFile')
        BY <1>2, <1>5, <2>4
      <3>3. QED
        BY <3>1, <3>2
    <2>6. CmdTypeOK'
      BY <1>2, <1>3, <1>5, <2>2 DEF CmdInv, CmdTypeOK, Invocations
    <2>7. QED
      BY <1>3, <2>2, <2>5, <2>6 DEF CmdInv, AllFine, FileIsOfThisRun
  <1>6. CASE ran' = [ran EXCEPT ![c] = Count(@)] /\ UNCHANGED slot
    <2>1. ran \in [Callers -> 0 .. 2] /\ InFile' = InFile
      BY <1>3, <1>6 DEF CmdInv, CmdTypeOK, InFile
    <2>2. PICK n \in 0 .. 2 : n = Count(ran[c]) /\ n > 0 /\ (~call[c].unanswered => n = 1)
      BY <1>4, <2>1, CountIs
    <2>3. /\ ran' \in [Callers -> 0 .. 2] /\ ran'[c] = n
          /\ \A d \in Callers \ {c} : ran'[d] = ran[d]
      BY <1>6, <2>1, <2>2
    <2>4. Fine(k, n, c \in Queued, c \in InFile)
      <3>1. /\ k.phase = "done" /\ k.reply \notin {"ok", "refused"} /\ (~k.unanswered => n <= 1)
            /\ WaitsInTime(k) /\ c \notin InFile
        BY <1>1, <1>4, <2>2
      <3>2. c \in Queued => k.unanswered /\ (k.op = "config-write" => k.token)
        BY <1>1, <1>3, <1>4 DEF Fine
      <3>3. QED
        BY <3>1, <3>2 DEF Fine
    <2>5. \A d \in Callers : Fine(call'[d], ran'[d], d \in Queued', d \in InFile')
      <3>1. ASSUME NEW d \in Callers \ {c}
            PROVE  Fine(call'[d], ran'[d], d \in Queued', d \in InFile')
        BY <1>2, <1>3, <2>1, <2>3, InCourse
      <3>2. Fine(call'[c], ran'[c], c \in Queued', c \in InFile')
        BY <1>2, <1>3, <2>1, <2>3, <2>4
      <3>3. QED
        BY <3>1, <3>2
    <2>6. CmdTypeOK'
      BY <1>2, <1>3, <1>6, <2>3 DEF CmdInv, CmdTypeOK, Invocations
    <2>7. QED
      BY <1>3, <1>6, <2>5, <2>6 DEF CmdInv, AllFine, FileIsOfThisRun
  <1>7. QED
    BY <1>5, <1>6 DEF RootPath

\* An invocation that is over leaves nothing behind, ...
LEMMA LeaveStep ==
  ASSUME CmdInv, NEW c \in Callers, Leave(c)
  PROVE  CmdInv'
  <1>1. PICK k \in Invocations : k = IdleCall
    BY DEF IdleCall, Invocations
  <1>2. /\ call' = [call EXCEPT ![c] = k] /\ ran' = [ran EXCEPT ![c] = 0]
        /\ c \notin Queued /\ c \notin InFile
        /\ Queued' = Queued /\ InFile' = InFile
        /\ UNCHANGED <<daemonUp, allow, closing, requests, slot, taken>>
    BY <1>1 DEF Leave, Queued, InFile
  <1>3. /\ call' \in [Callers -> Invocations] /\ ran' \in [Callers -> 0 .. 2]
        /\ call'[c] = k /\ ran'[c] = 0
        /\ \A d \in Callers \ {c} : call'[d] = call[d] /\ ran'[d] = ran[d]
    BY <1>2, InCourse DEF CmdInv, CmdTypeOK
  <1>4. Fine(k, 0, c \in Queued, c \in InFile)
    BY <1>1, <1>2 DEF Fine, IdleCall, WaitsInTime, NoReply, Pending
  <1>5. \A d \in Callers : Fine(call'[d], ran'[d], d \in Queued', d \in InFile')
    <2>1. ASSUME NEW d \in Callers \ {c}
          PROVE  Fine(call'[d], ran'[d], d \in Queued', d \in InFile')
      BY <1>2, <1>3, InCourse
    <2>2. Fine(call'[c], ran'[c], c \in Queued', c \in InFile')
      BY <1>2, <1>3, <1>4
    <2>3. QED
      BY <2>1, <2>2
  <1>6. CmdTypeOK'
    BY <1>2, <1>3 DEF CmdInv, CmdTypeOK, Invocations
  <1>7. QED
    BY <1>2, <1>5, <1>6 DEF CmdInv, AllFine, FileIsOfThisRun

\* ... and the file is read, carried out and removed, or goes stale.
LEMMA FileStep ==
  ASSUME CmdInv, ReadCommandFile \/ FinishConsume \/ GoesStale
  PROVE  CmdInv'
  <1>1. CASE ReadCommandFile \/ GoesStale
    <2>1. /\ slot' \in FileCommands \cup {NoCommand} /\ slot'.by = slot.by
          /\ slot'.thisRun = slot.thisRun /\ (slot' = NoCommand <=> slot = NoCommand)
      <3>1. CASE GoesStale
        <4>1. slot \in FileCommands /\ slot.stale # TRUE
          BY <3>1 DEF GoesStale, CmdInv, CmdTypeOK, FileCommands
        <4>2. slot' \in FileCommands /\ slot'.by = slot.by /\ slot'.thisRun = slot.thisRun
              /\ slot'.stale = TRUE
          BY <3>1, <4>1 DEF GoesStale, FileCommands
        <4>3. slot' # NoCommand /\ slot # NoCommand
          BY <3>1, <4>2 DEF NoCommand, GoesStale
        <4>4. QED
          BY <4>2, <4>3
      <3>2. CASE ReadCommandFile
        BY <3>2 DEF ReadCommandFile, CmdInv, CmdTypeOK
      <3>3. QED
        BY <1>1, <3>1, <3>2
    <2>2. /\ taken' \in {taken, slot} /\ UNCHANGED <<daemonUp, allow, closing, call, requests, ran>>
          /\ taken' # taken => taken' = slot /\ daemonUp
      BY <1>1 DEF ReadCommandFile, GoesStale
    <2>3. Queued' = Queued /\ \A c \in Callers : c \in InFile' => c \in InFile
      BY <2>1, <2>2 DEF Queued, InFile
    <2>4. AllFine'
      <3>1. \A c \in Callers : Fine(call[c], ran[c], c \in Queued, c \in InFile')
        BY <2>3, InCourse, FinerWithLess
      <3>2. QED
        BY <2>2, <2>3, <3>1 DEF CmdInv, AllFine
    <2>5. CmdTypeOK'
      BY <2>1, <2>2 DEF CmdInv, CmdTypeOK
    <2>6. FileIsOfThisRun'
      BY <2>1, <2>2 DEF CmdInv, FileIsOfThisRun
    <2>7. QED
      BY <2>4, <2>5, <2>6 DEF CmdInv
  <1>2. CASE FinishConsume
    <2>1. /\ slot' = NoCommand /\ taken' = NoCommand
          /\ UNCHANGED <<daemonUp, allow, closing, call, requests>> /\ Queued' = Queued
      BY <1>2 DEF FinishConsume, RemoveFile, Queued
    <2>2. \A c \in Callers : c \notin InFile'
      BY <2>1, CommandsAssumption DEF InFile, NoCommand
    <2>3. PICK c \in Callers : c = taken.by
      BY <1>2 DEF FinishConsume, CmdInv, CmdTypeOK, FileCommands
    <2>4. ran' = ran \/ ran' = [ran EXCEPT ![c] = Count(@)]
      BY <1>2, <2>3 DEF FinishConsume, CmdInv, CmdTypeOK
    <2>5. /\ Fine(call[c], ran[c], c \in Queued, c \in InFile) /\ c \in InFile
          /\ ran \in [Callers -> 0 .. 2]
      BY <2>3, InCourse DEF InFile, CmdInv, CmdTypeOK
    <2>6. PICK n \in 0 .. 2 : /\ n \in {ran[c], Count(ran[c])}
                              /\ ran' = [ran EXCEPT ![c] = n]
      BY <2>4, <2>5, CountIs
    <2>7. /\ ran' \in [Callers -> 0 .. 2] /\ ran'[c] = n
          /\ \A d \in Callers \ {c} : ran'[d] = ran[d]
      BY <2>5, <2>6
    <2>8. Fine(call[c], n, c \in Queued, c \in InFile')
      <3>1. /\ call[c].phase = "done" /\ call[c].reply \notin {"ok", "refused"}
            /\ (~call[c].unanswered => n <= 1)
        BY <2>5, <2>6, CountIs DEF Fine
      <3>2. QED
        BY <2>2, <2>5, <3>1 DEF Fine
    <2>9. \A d \in Callers : Fine(call'[d], ran'[d], d \in Queued', d \in InFile')
      <3>1. ASSUME NEW d \in Callers \ {c}
            PROVE  Fine(call[d], ran'[d], d \in Queued, d \in InFile')
        BY <2>2, <2>7, InCourse, FinerWithLess
      <3>2. Fine(call[c], ran'[c], c \in Queued, c \in InFile')
        BY <2>7, <2>8
      <3>3. QED
        BY <2>1, <3>1, <3>2
    <2>10. CmdTypeOK'
      BY <2>1, <2>7 DEF CmdInv, CmdTypeOK
    <2>11. QED
      BY <2>1, <2>9, <2>10 DEF CmdInv, AllFine, FileIsOfThisRun
  <1>3. QED
    BY <1>1, <1>2

\* Time passes while every timer has some left.
LEMMA TickStep ==
  ASSUME CmdInv, CmdTick
  PROVE  CmdInv'
  <1>1. ASSUME NEW c \in Callers
        PROVE  call'[c] \in Invocations /\ Fine(call'[c], ran[c], c \in Queued, c \in InFile)
    <2>1. CASE call[c].phase \in Connected
      <3>1. PICK k : k = [call[c] EXCEPT !.since = call[c].since + 1, !.waited = call[c].waited + 1]
        OBVIOUS
      <3>9. k \in Invocations
        <4>1. call[c].since + 1 \in Nat /\ call[c].waited + 1 \in Nat
          BY InCourse DEF Invocations
        <4>2. QED
          BY <3>1, <4>1, InCourse DEF Invocations
      <3>2. /\ k.phase = call[c].phase /\ k.reply = call[c].reply /\ k.op = call[c].op
            /\ k.token = call[c].token /\ k.unanswered = call[c].unanswered
            /\ k.since = call[c].since + 1 /\ k.waited = call[c].waited + 1
        BY <3>1, InCourse DEF Invocations
      <3>3. /\ call[c].phase = "handoff" => call[c].since < HandoffTimeout
            /\ call[c].phase \in Pending => call[c].since < ReplyTimeout
            /\ call[c].phase = "replied" => call[c].since < WriteDeadline
        BY DEF CmdTick
      <3>4. WaitsInTime(k)
        <4>1. WaitsInTime(call[c]) /\ call[c].since \in Nat /\ call[c].waited \in Nat
          BY InCourse DEF Fine, Invocations
        <4>2. QED
          BY <3>2, <3>3, <4>1, CommandsAssumption DEF WaitsInTime
      <3>5. Fine(k, ran[c], c \in Queued, c \in InFile)
        BY <3>2, <3>4, InCourse DEF Fine
      <3>6. call'[c] = k
        BY <2>1, <3>1 DEF CmdTick
      <3>7. QED
        BY <3>5, <3>6, <3>9
    <2>2. CASE call[c].phase \notin Connected
      BY <2>2, InCourse DEF CmdTick
    <2>3. QED
      BY <2>1, <2>2
  <1>2. UNCHANGED <<daemonUp, allow, closing, requests, slot, taken, ran>> /\ Queued' = Queued
        /\ InFile' = InFile
    BY DEF CmdTick, Queued, InFile
  <1>3. call' \in [Callers -> Invocations]
    <2>1. DOMAIN call' = Callers /\ call' = [c \in Callers |-> call'[c]]
      BY DEF CmdTick
    <2>2. QED
      BY <1>1, <2>1
  <1>4. CmdTypeOK'
    BY <1>2, <1>3 DEF CmdInv, CmdTypeOK, Invocations
  <1>5. QED
    BY <1>1, <1>2, <1>4 DEF CmdInv, AllFine, FileIsOfThisRun

\* Every step of the channels keeps the invariant.
LEMMA CmdStep == CmdInv /\ [CmdNext]_cmdVars => CmdInv'
  <1>1. CmdInv /\ UNCHANGED cmdVars => CmdInv'
    BY DEF cmdVars, CmdInv, CmdTypeOK, AllFine, Queued, InFile, FileIsOfThisRun
  <1>2. ASSUME CmdInv, CmdNext PROVE CmdInv'
    <2>1. CASE \/ StartDaemon \/ BeginClosing \/ DaemonEnds \/ Serve \/ ReadCommandFile
               \/ FinishConsume \/ GoesStale \/ CmdTick
      BY <1>2, <2>1, StartStep, ClosingStep, EndStep, ServeStep, FileStep, TickStep
    <2>2. CASE \E c \in Callers :
                 \/ \E op \in Ops : \E token \in IF op = "config-write" THEN BOOLEAN ELSE {FALSE} :
                      Dial(c, op, token)
                 \/ TurnAway(c) \/ HandOff(c) \/ Busy(c) \/ DeliverReply(c) \/ ReplyTimesOut(c)
                 \/ ShuttingDown(c) \/ ReadReply(c) \/ RootPath(c) \/ NoRoot(c) \/ Leave(c)
      <3>1. PICK c \in Callers :
                 \/ \E op \in Ops, token \in BOOLEAN : Dial(c, op, token)
                 \/ TurnAway(c) \/ HandOff(c) \/ Busy(c) \/ DeliverReply(c) \/ ReplyTimesOut(c)
                 \/ ShuttingDown(c) \/ ReadReply(c) \/ RootPath(c) \/ NoRoot(c) \/ Leave(c)
        BY <2>2
      <3>2. CASE \E op \in Ops, token \in BOOLEAN : Dial(c, op, token)
        BY <1>2, <3>2, DialStep
      <3>3. CASE \/ TurnAway(c) \/ HandOff(c) \/ Busy(c) \/ DeliverReply(c) \/ ReplyTimesOut(c)
                 \/ ShuttingDown(c) \/ ReadReply(c) \/ RootPath(c) \/ NoRoot(c) \/ Leave(c)
        BY <1>2, <3>3, AnsweredStep, HandOffStep, ReadStep, RootStep, LeaveStep
      <3>4. QED
        BY <3>1, <3>2, <3>3
    <2>3. QED
      BY <1>2, <2>1, <2>2 DEF CmdNext
  <1>3. QED
    BY <1>1, <1>2

\* A configuration is written only by whoever the invariant has holding the token.
LEMMA WriteIsProven ==
  ASSUME CmdInv, [CmdNext]_cmdVars
  PROVE  \A c \in Callers :
           (call[c].op = "config-write" /\ ran'[c] > ran[c] /\ call[c].phase # "root")
             => call[c].token /\ "write" \in allow
  <1>1. SUFFICES ASSUME NEW c \in Callers, call[c].op = "config-write", ran'[c] > ran[c],
                        call[c].phase # "root"
                 PROVE  call[c].token /\ "write" \in allow
    OBVIOUS
  <1>2. /\ ran \in [Callers -> 0 .. 2] /\ Fine(call[c], ran[c], c \in Queued, c \in InFile)
        /\ \A n \in 0 .. 2 : ~(n > n) /\ ~(0 > n)
    BY InCourse DEF CmdInv, CmdTypeOK
  <1>3. ran' # ran
    BY <1>1, <1>2
  <1>4. CASE Serve
    <2>1. requests \in Seq(Callers) /\ requests # <<>>
      BY <1>4 DEF Serve, CmdInv, CmdTypeOK
    <2>2. Head(requests) = requests[1] /\ 1 \in DOMAIN requests
      BY <2>1, EmptySeq
    <2>3. PICK d \in Callers : d = Head(requests) /\ d \in Queued
      BY <2>1, <2>2 DEF Queued
    <2>4. PICK ok \in IF Allowed(call[d].op) THEN BOOLEAN ELSE {FALSE} :
            ran' = [ran EXCEPT ![d] = IF ok THEN Count(@) ELSE @]
      BY <1>4, <2>3 DEF Serve
    <2>5. c = d
      BY <1>1, <1>2, <2>4
    <2>6. ok
      BY <1>1, <1>2, <2>4, <2>5
    <2>7. Allowed("config-write")
      BY <1>1, <2>4, <2>5, <2>6
    <2>8. "write" \in allow
      BY <2>7 DEF Allowed, Family
    <2>9. call[c].token
      BY <1>1, <1>2, <2>3, <2>5 DEF Fine
    <2>10. QED
      BY <2>8, <2>9
  <1>5. CASE FinishConsume
    <2>1. c \notin InFile
      BY <1>1, <1>2 DEF Fine
    <2>2. taken.by # c
      BY <2>1 DEF InFile
    <2>3. ran'[c] = ran[c]
      BY <1>2, <1>5, <2>2 DEF FinishConsume
    <2>4. QED
      BY <1>1, <1>2, <2>3
  <1>6. ASSUME NEW d \in Callers, RootPath(d) PROVE FALSE
    <2>1. d # c
      BY <1>1, <1>6 DEF RootPath
    <2>2. ran'[c] = ran[c]
      BY <1>2, <1>6, <2>1 DEF RootPath
    <2>3. QED
      BY <1>1, <1>2, <2>2
  <1>7. ASSUME NEW d \in Callers, Leave(d) PROVE FALSE
    <2>1. ran'[c] \in {ran[c], 0}
      BY <1>2, <1>7 DEF Leave
    <2>2. QED
      BY <1>1, <1>2, <2>1
  <1>8. QED
    BY <1>3, <1>4, <1>5, <1>6, <1>7
    DEF CmdNext, cmdVars, StartDaemon, BeginClosing, DaemonEnds, ReadCommandFile, GoesStale, CmdTick, Dial,
        TurnAway, HandOff, Busy, DeliverReply, ReplyTimesOut, ShuttingDown, ReadReply, NoRoot

\* What the command channels promise, for any callers, commands, gates, queue and timeouts:
\* what a caller is told is what happened, a command runs twice only for one that was let
\* go while the loop had its request or had carried it out, none from before a start runs, a configuration is written over the socket
\* with the token only, and no caller hangs up on an answer.
THEOREM CommandsKeepPromise == CmdSpec => CommandsPromise
  <1>1. CmdInit => CmdInv
    <2> SUFFICES ASSUME CmdInit PROVE CmdInv
      OBVIOUS
    <2>1. IdleCall \in Invocations
      BY DEF IdleCall, Invocations
    <2>2. /\ call \in [Callers -> Invocations] /\ ran \in [Callers -> 0 .. 2]
          /\ <<>> \in Seq(Callers) /\ Len(<<>>) = 0
      BY <2>1, EmptySeq DEF CmdInit
    <2>3. CmdTypeOK
      <3>1. requests \in Seq(Callers) /\ Len(requests) <= QueueLimit
        BY <2>2, CommandsAssumption DEF CmdInit
      <3>2. QED
        BY <2>2, <3>1 DEF CmdInit, CmdTypeOK, Invocations
    <2>4. Queued = {} /\ \A c \in Callers : c \notin InFile
      BY CommandsAssumption DEF CmdInit, Queued, InFile, NoCommand
    <2>5. \A c \in Callers : Fine(call[c], ran[c], c \in Queued, c \in InFile)
      <3>1. ASSUME NEW c \in Callers PROVE Fine(IdleCall, 0, c \in Queued, c \in InFile)
        BY <2>4 DEF Fine, IdleCall, WaitsInTime, NoReply, Pending
      <3>2. QED
        BY <3>1 DEF CmdInit
    <2>6. QED
      BY <2>3, <2>5 DEF CmdInit, CmdInv, AllFine, FileIsOfThisRun
  <1>2. CmdInv => CmdTypeOK /\ AnswerIsTrue /\ TwiceOnlyWithoutAnswer /\ NothingFromBefore
                  /\ ClientOutwaitsServer
    <2> SUFFICES ASSUME CmdInv
                 PROVE  AnswerIsTrue /\ TwiceOnlyWithoutAnswer /\ NothingFromBefore
                        /\ ClientOutwaitsServer
      BY DEF CmdInv
    <2>1. ASSUME NEW c \in Callers, call[c].phase = "done"
          PROVE  /\ call[c].reply = "ok" => ran[c] > 0
                 /\ call[c].reply = "refused" => ran[c] = 0 /\ c \notin InFile /\ c \notin Queued
      BY <2>1, InCourse DEF Fine
    <2>2. AnswerIsTrue
      BY <2>1 DEF AnswerIsTrue, InFile, Queued
    <2>3. TwiceOnlyWithoutAnswer
      <3>1. ASSUME NEW c \in Callers, ran[c] > 1, ~call[c].unanswered PROVE FALSE
        <4>1. ran[c] <= 1 /\ ran[c] \in 0 .. 2
          BY <3>1, InCourse DEF Fine
        <4>2. QED
          BY <3>1, <4>1
      <3>2. QED
        BY <3>1 DEF TwiceOnlyWithoutAnswer
    <2>4. NothingFromBefore
      BY DEF CmdInv, FileIsOfThisRun, NothingFromBefore
    <2>5. ClientOutwaitsServer
      <3>1. ASSUME NEW c \in Callers, call[c].phase \in Connected
            PROVE  call[c].waited <= ClientDeadline
        <4>1. WaitsInTime(call[c]) /\ call[c].since \in Nat /\ call[c].waited \in Nat
          BY InCourse DEF Fine, Invocations
        <4>2. QED
          BY <3>1, <4>1, CommandsAssumption DEF WaitsInTime, Connected, Pending, ClientDeadline
      <3>2. QED
        BY <3>1 DEF ClientOutwaitsServer
    <2>6. QED
      BY <2>2, <2>3, <2>4, <2>5
  <1>3. CmdSpec => []CmdInv
    BY <1>1, CmdStep, PTL DEF CmdSpec
  <1>4. CmdInv /\ [CmdNext]_cmdVars =>
          [\A c \in Callers :
             (call[c].op = "config-write" /\ ran'[c] > ran[c] /\ call[c].phase # "root")
               => call[c].token /\ "write" \in allow]_cmdVars
    BY WriteIsProven
  <1>5. CmdSpec => WritesAreProven
    BY <1>3, <1>4, PTL DEF CmdSpec, WritesAreProven
  <1>6. QED
    BY <1>2, <1>3, <1>5, PTL DEF CommandsPromise

-----------------------------------------------------------------------------
(* The snapshots.                                                          *)

\* On its way to the file every snapshot is behind a later one, ...
InOrder ==
  /\ \A i, j \in DOMAIN buffer : i < j => buffer[i] < buffer[j]
  /\ \A i \in DOMAIN buffer : writing < buffer[i] /\ stateFile < buffer[i] /\ buffer[i] <= snap
  /\ writing # 0 => stateFile < writing /\ writing <= snap
  /\ stateFile <= snap
\* ... the one that is published now behind none, and the last one of all is "stopped".
IsNewest ==
  /\ loopStage = "publishing" =>
       /\ \A i \in DOMAIN buffer : buffer[i] < snap
       /\ writing < snap /\ stateFile < snap
  /\ loopStage = "running" => final = 0
  /\ final = 0 => snap < MaxSnapshots
\* Between two publications the newest is the last one on its way.
LatestIsLast ==
  loopStage # "publishing" /\ ~missed =>
    /\ buffer # <<>> => buffer[Len(buffer)] = snap
    /\ buffer = <<>> => IF writing # 0 THEN writing = snap ELSE stateFile = snap

PubInv == PubTypeOK /\ InOrder /\ IsNewest /\ LatestIsLast

\* What is on its way are numbers.
LEMMA PubTypes ==
  ASSUME PubTypeOK
  PROVE  /\ snap \in Nat /\ writing \in Nat /\ stateFile \in Nat /\ final \in Nat
         /\ buffer \in Seq(Numbers) /\ Len(buffer) \in Nat /\ DOMAIN buffer = 1 .. Len(buffer)
         /\ \A i \in DOMAIN buffer : buffer[i] \in Numbers /\ buffer[i] \in Nat
         /\ buffer = <<>> <=> Len(buffer) = 0
  <1>1. Numbers \subseteq Nat
    BY PublisherAssumption DEF Numbers
  <1>2. buffer \in Seq(Numbers) /\ snap \in Numbers /\ writing \in Numbers
        /\ stateFile \in Numbers /\ final \in Numbers
    BY DEF PubTypeOK
  <1>3. Len(buffer) \in Nat /\ DOMAIN buffer = 1 .. Len(buffer)
    BY <1>2
  <1>4. \A i \in 1 .. Len(buffer) : buffer[i] \in Numbers
    BY <1>2
  <1>5. buffer = <<>> <=> Len(buffer) = 0
    BY <1>2, EmptySeq
  <1>6. QED
    BY <1>1, <1>2, <1>3, <1>4, <1>5

\* What dropping the first and adding the last make of the channel.
LEMMA BufferTail ==
  ASSUME PubTypeOK, buffer # <<>>
  PROVE  /\ Head(buffer) = buffer[1] /\ 1 \in DOMAIN buffer
         /\ Tail(buffer) \in Seq(Numbers) /\ Len(Tail(buffer)) = Len(buffer) - 1
         /\ DOMAIN Tail(buffer) = 1 .. Len(buffer) - 1
         /\ \A i \in 1 .. Len(buffer) - 1 : Tail(buffer)[i] = buffer[i + 1]
         /\ Tail(buffer) = <<>> <=> Len(buffer) = 1
  <1>1. buffer \in Seq(Numbers) /\ Len(buffer) \in Nat /\ Len(buffer) # 0
        /\ DOMAIN buffer = 1 .. Len(buffer)
    BY PubTypes DEF PubTypeOK
  <1>2. /\ Tail(buffer) \in Seq(Numbers) /\ Len(Tail(buffer)) = Len(buffer) - 1
        /\ \A i \in 1 .. Len(Tail(buffer)) : Tail(buffer)[i] = buffer[i + 1]
        /\ Head(buffer) = buffer[1]
    BY <1>1, HeadTailProperties
  <1>3. Tail(buffer) = <<>> <=> Len(Tail(buffer)) = 0
    BY <1>2, EmptySeq
  <1>4. QED
    BY <1>1, <1>2, <1>3

\* The loop's own steps: it produces, ...
LEMMA ProduceStep ==
  ASSUME PubInv, Produce \/ ProduceStopped
  PROVE  PubInv'
  <1>1. /\ snap' = snap + 1 /\ loopStage' = "publishing" /\ loopStage = "running"
        /\ final' \in {final, snap + 1} /\ final = 0
        /\ UNCHANGED <<buffer, closed, writing, wedged, stateFile, missed>>
    BY DEF Produce, ProduceStopped, PubInv, IsNewest
  <1>2. snap + 1 \in Numbers /\ (final' = 0 => snap + 1 < MaxSnapshots) /\ snap \in Nat
    BY <1>1, PubTypes, PublisherAssumption
    DEF Produce, ProduceStopped, PubInv, IsNewest, Numbers
  <1>3. PubTypeOK'
    BY <1>1, <1>2 DEF PubInv, PubTypeOK, Numbers
  <1>4. InOrder' /\ IsNewest' /\ LatestIsLast'
    BY <1>1, <1>2, PubTypes DEF PubInv, InOrder, IsNewest, LatestIsLast
  <1>5. QED
    BY <1>3, <1>4 DEF PubInv

\* ... puts the snapshot into the channel, ...
LEMMA EnqueueStep ==
  ASSUME PubInv, Enqueue
  PROVE  PubInv'
  <1>1. /\ buffer' = Append(buffer, snap) /\ Len(buffer) < PublishBuffer
        /\ loopStage = "publishing" /\ loopStage' = (IF final = 0 THEN "running" ELSE "flushing")
        /\ closed' \in BOOLEAN
        /\ UNCHANGED <<snap, writing, wedged, stateFile, final, missed>>
    BY DEF Enqueue, AfterPublish
  <1>2. buffer \in Seq(Numbers) /\ snap \in Numbers /\ Len(buffer) \in Nat
        /\ DOMAIN buffer = 1 .. Len(buffer)
    BY PubTypes DEF PubInv, PubTypeOK
  <1>3. /\ buffer' \in Seq(Numbers) /\ Len(buffer') = Len(buffer) + 1
        /\ \A i \in 1 .. Len(buffer) : buffer'[i] = buffer[i]
        /\ buffer'[Len(buffer) + 1] = snap /\ DOMAIN buffer' = 1 .. Len(buffer) + 1
    BY <1>1, <1>2, AppendProperties
  <1>4. buffer' # <<>>
    BY <1>2, <1>3, EmptySeq
  <1>5. PubTypeOK'
    BY <1>1, <1>2, <1>3, PublisherAssumption DEF PubInv, PubTypeOK
  <1>6. InOrder'
    BY <1>1, <1>2, <1>3, PubTypes DEF PubInv, InOrder, IsNewest
  <1>7. IsNewest' /\ LatestIsLast'
    BY <1>1, <1>2, <1>3, <1>4, PubTypes DEF PubInv, InOrder, IsNewest, LatestIsLast
  <1>8. QED
    BY <1>5, <1>6, <1>7 DEF PubInv

\* ... or drops the oldest to make room.  The writer takes the oldest.
LEMMA TakeStep ==
  ASSUME PubInv, DropOldest \/ TakeSnapshot
  PROVE  PubInv'
  <1>1. /\ buffer # <<>> /\ buffer' = Tail(buffer)
        /\ UNCHANGED <<loopStage, snap, closed, wedged, stateFile, final, missed>>
        /\ \/ writing' = writing /\ loopStage = "publishing"
           \/ writing = 0 /\ writing' = Head(buffer)
    BY PubTypes, PublisherAssumption DEF DropOldest, TakeSnapshot, PubInv
  <1>2. /\ Len(buffer) \in Nat \ {0} /\ DOMAIN buffer = 1 .. Len(buffer)
        /\ \A i \in DOMAIN buffer : buffer[i] \in Nat
        /\ snap \in Nat /\ writing \in Nat /\ stateFile \in Nat
    BY <1>1, PubTypes DEF PubInv
  <1>3. /\ Head(buffer) = buffer[1] /\ 1 \in DOMAIN buffer
        /\ buffer' \in Seq(Numbers) /\ Len(buffer') = Len(buffer) - 1
        /\ DOMAIN buffer' = 1 .. Len(buffer) - 1
        /\ \A i \in 1 .. Len(buffer) - 1 : buffer'[i] = buffer[i + 1]
        /\ buffer' = <<>> <=> Len(buffer) = 1
    BY <1>1, BufferTail DEF PubInv
  <1>4. PubTypeOK'
    <2>1. buffer[1] \in Numbers
      BY <1>3, PubTypes DEF PubInv
    <2>2. Len(buffer') <= PublishBuffer
      <3>1. Len(buffer) <= PublishBuffer
        BY DEF PubInv, PubTypeOK
      <3>2. QED
        BY <1>2, <1>3, <3>1, PublisherAssumption
    <2>3. QED
      BY <1>1, <1>3, <2>1, <2>2 DEF PubInv, PubTypeOK
  <1>5. ASSUME NEW i \in 1 .. Len(buffer) - 1
        PROVE  i + 1 \in DOMAIN buffer /\ 1 < i + 1 /\ buffer'[i] = buffer[i + 1]
    BY <1>2, <1>3
  <1>6. InOrder'
    <2>1. \A i, j \in DOMAIN buffer : i < j => buffer[i] < buffer[j]
      BY DEF PubInv, InOrder
    <2>2. \A i, j \in DOMAIN buffer' : i < j => buffer'[i] < buffer'[j]
      <3>1. ASSUME NEW i \in DOMAIN buffer', NEW j \in DOMAIN buffer', i < j
            PROVE  buffer'[i] < buffer'[j]
        <4>1. i + 1 \in DOMAIN buffer /\ j + 1 \in DOMAIN buffer /\ i + 1 < j + 1
              /\ buffer'[i] = buffer[i + 1] /\ buffer'[j] = buffer[j + 1]
          BY <1>2, <1>3, <1>5, <3>1
        <4>2. QED
          BY <2>1, <4>1
      <3>2. QED
        BY <3>1
    <2>3. buffer[1] \in Nat /\ \A i \in DOMAIN buffer : i > 1 => buffer[1] < buffer[i]
      BY <1>2, <1>3, <2>1
    <2>4. \A i \in DOMAIN buffer' : /\ writing' < buffer'[i] /\ stateFile' < buffer'[i]
                                    /\ buffer'[i] <= snap'
      BY <1>1, <1>2, <1>3, <1>5, <2>3 DEF PubInv, InOrder
    <2>5. writing' # 0 => stateFile' < writing' /\ writing' <= snap'
      BY <1>1, <1>3 DEF PubInv, InOrder
    <2>6. stateFile' <= snap'
      BY <1>1 DEF PubInv, InOrder
    <2>7. QED
      BY <2>2, <2>4, <2>5, <2>6 DEF InOrder
  <1>7. IsNewest'
    BY <1>1, <1>2, <1>3, <1>5 DEF PubInv, IsNewest
  <1>8. LatestIsLast'
    <2>1. SUFFICES ASSUME loopStage # "publishing", ~missed
                   PROVE  LatestIsLast'
      BY <1>1 DEF LatestIsLast
    <2>2. buffer[Len(buffer)] = snap /\ writing' = buffer[1] /\ writing' # 0
      BY <1>1, <1>2, <1>3, <2>1 DEF PubInv, LatestIsLast, InOrder
    <2>3. CASE Len(buffer) = 1
      BY <1>1, <1>2, <1>3, <2>2, <2>3 DEF LatestIsLast
    <2>4. CASE Len(buffer) # 1
      BY <1>1, <1>2, <1>3, <2>2, <2>4 DEF LatestIsLast
    <2>5. QED
      BY <2>3, <2>4
  <1>9. QED
    BY <1>4, <1>6, <1>7, <1>8 DEF PubInv

\* Everything else leaves the channel alone, and loses nothing unsaid.
LEMMA WriterStep ==
  ASSUME PubInv, WriteState \/ DiskHangs
  PROVE  PubInv'
  <1>1. /\ UNCHANGED <<loopStage, snap, buffer, closed, final>> /\ wedged' \in BOOLEAN
        /\ \/ writing # 0 /\ writing' = 0 /\ stateFile' = writing /\ missed' = missed
           \/ writing' = 0 /\ stateFile' = stateFile /\ missed' = TRUE
           \/ UNCHANGED <<writing, stateFile, missed>>
    BY DEF WriteState, DiskHangs, PubInv, PubTypeOK
  <1>2. PubTypeOK'
    <2>1. 0 \in Numbers
      BY PublisherAssumption DEF Numbers
    <2>2. QED
      BY <1>1, <2>1 DEF PubInv, PubTypeOK
  <1>3. /\ Len(buffer) \in Nat /\ DOMAIN buffer = 1 .. Len(buffer)
        /\ \A i \in DOMAIN buffer : buffer[i] \in Nat
        /\ snap \in Nat /\ writing \in Nat /\ stateFile \in Nat
    BY PubTypes DEF PubInv
  <1>4. InOrder' /\ IsNewest' /\ LatestIsLast'
    BY <1>1, <1>3 DEF PubInv, InOrder, IsNewest, LatestIsLast
  <1>5. QED
    BY <1>2, <1>4 DEF PubInv

\* The loop ends: flushed, out of time, or killed.
LEMMA EndingStep ==
  ASSUME PubInv, Flushed \/ FlushTimesOut \/ TearRulesDown \/ Killed
  PROVE  PubInv'
  <1>1. /\ UNCHANGED <<snap, buffer, closed, writing, wedged, stateFile, final>>
        /\ loopStage' \in {"tearing down", "gone"} /\ missed' \in BOOLEAN
        /\ missed' = FALSE => missed = FALSE /\ loopStage # "publishing"
    <2>1. missed \in BOOLEAN
      BY DEF PubInv, PubTypeOK
    <2>2. CASE Flushed \/ TearRulesDown \/ Killed
      BY <2>1, <2>2 DEF Flushed, TearRulesDown, Killed
    <2>3. CASE FlushTimesOut
      BY <2>1, <2>3 DEF FlushTimesOut
    <2>4. QED
      BY <2>2, <2>3
  <1>2. PubTypeOK'
    BY <1>1 DEF PubInv, PubTypeOK
  <1>3. InOrder' /\ IsNewest' /\ LatestIsLast'
    BY <1>1 DEF PubInv, InOrder, IsNewest, LatestIsLast
  <1>4. QED
    BY <1>2, <1>3 DEF PubInv

\* A process starts with nothing published.
LEMMA FreshProcess ==
  ASSUME loopStage = "running", snap = 0, buffer = <<>>, closed = FALSE, writing = 0,
         wedged = FALSE, stateFile = 0, final = 0, missed = FALSE
  PROVE  PubInv
  <1>1. <<>> \in Seq(Numbers) /\ Len(<<>>) = 0 /\ DOMAIN buffer = {}
    BY EmptySeq
  <1>2. 0 \in Numbers /\ Len(buffer) <= PublishBuffer
    BY <1>1, PublisherAssumption DEF Numbers
  <1>3. PubTypeOK
    BY <1>1, <1>2 DEF PubTypeOK
  <1>4. InOrder /\ IsNewest /\ LatestIsLast
    BY <1>1, PublisherAssumption DEF InOrder, IsNewest, LatestIsLast
  <1>5. QED
    BY <1>3, <1>4 DEF PubInv

\* Every step keeps the invariant, and the file never goes back.
LEMMA PubStep == PubInv /\ [PubNext]_pubVars => PubInv'
  <1>1. ASSUME PubInv, UNCHANGED pubVars PROVE PubInv'
    <2>1. PubTypeOK'
      BY <1>1 DEF pubVars, PubInv, PubTypeOK
    <2>2. InOrder' /\ IsNewest' /\ LatestIsLast'
      BY <1>1 DEF pubVars, PubInv, InOrder, IsNewest, LatestIsLast
    <2>3. QED
      BY <2>1, <2>2 DEF PubInv
  <1>2. ASSUME NextProcess PROVE PubInv'
    <2>1. (loopStage = "running" /\ snap = 0 /\ buffer = <<>> /\ closed = FALSE /\ writing = 0
           /\ wedged = FALSE /\ stateFile = 0 /\ final = 0 /\ missed = FALSE => PubInv)'
      BY FreshProcess, PTL
    <2>2. QED
      BY <1>2, <2>1 DEF NextProcess
  <1>3. QED
    BY <1>1, <1>2, ProduceStep, EnqueueStep, TakeStep, WriterStep, EndingStep DEF PubNext

\* Only the writer touches the file, with a later snapshot than the one in it.
LEMMA NeverBack ==
  ASSUME PubInv, PubNext, stateFile' # stateFile, loopStage # "gone"
  PROVE  stateFile' > stateFile
  <1>1. WriteState
    BY DEF PubNext, Produce, ProduceStopped, Enqueue, DropOldest, TakeSnapshot, DiskHangs,
           Flushed, FlushTimesOut, TearRulesDown, Killed, NextProcess
  <1>2. QED
    BY <1>1, PubTypes DEF WriteState, PubInv, InOrder

\* What is safe about state.json, for any buffer and number of snapshots, however slow or
\* broken the disk: the file never goes back, and the last snapshot published lands unless
\* a write failed or was cut short.
THEOREM PublisherIsSafe == PubSpec => []PubTypeOK /\ []LatestLands /\ FileNeverGoesBack
  <1>1. PubInit => PubInv
    BY FreshProcess DEF PubInit
  <1>2. PubSpec => []PubInv
    BY <1>1, PubStep, PTL DEF PubSpec
  <1>3. PubInv => PubTypeOK /\ LatestLands
    BY DEF PubInv, LatestIsLast, LatestLands
  <1>4. PubInv /\ [PubNext]_pubVars
          => [stateFile' # stateFile /\ loopStage # "gone" => stateFile' > stateFile]_pubVars
    BY NeverBack
  <1>5. QED
    BY <1>2, <1>3, <1>4, PTL DEF PubSpec, FileNeverGoesBack

-----------------------------------------------------------------------------
(* The daemons and their service.                                          *)

AtMostOne(S) == \A d, e \in S : d = e
Working == {d \in Daemons : stage[d] \in {"enforcing", "ending", "stopping"}}
\* Whose socket may be at the path, or be taken for somebody's own.
Placed == {d \in Daemons : stage[d] \in {"naming", "enforcing", "ending", "stopping"}}

\* The type invariant, without counting.
InstTyped ==
  /\ stage \in [Daemons -> Stages]
  /\ managed \subseteq Alive /\ AtMostOne(managed)
  /\ lockedBy \in Alive \cup {Nobody}
  /\ rulesIn \in BOOLEAN /\ unit \in BOOLEAN /\ unguarded \in BOOLEAN /\ overtaken \in BOOLEAN
  /\ job \in {"out", "in", "leaving"} /\ (managed # {} => job # "out")
  /\ verb \in {"none", "restarting"}
  /\ answer \in {"none", "stopped", "started", "restarted", "failed"}
  /\ lastListener \in Daemons \cup {Nobody}

\* A control server is a working daemon's, and looks for a socket that was published.
SocketTyped ==
  /\ socketOf \in Placed \cup {"stale", "missing"}
  /\ server \in [Daemons -> {"off", "up", "checked"}]
  /\ \A d \in Daemons : server[d] # "off" => d \in Working
  /\ \A d \in Daemons : server[d] = "checked" => stage[d] # "enforcing"
  /\ self \in [Daemons -> Placed \cup {"stale", Nobody}]

\* Past the lock a daemon holds it, unless one went on without; who enforces has its
\* rules in place.
LockIsHeld ==
  unguarded = FALSE =>
    /\ \A d \in Daemons :
         /\ stage[d] \in {"listening", "naming", "enforcing", "ending", "stopping"} => lockedBy = d
         /\ stage[d] = "enforcing" => rulesIn
    /\ overtaken = FALSE

\* What keeps the socket of the last to listen: nobody is about to unlink it, to take it
\* for its own, or has taken it already.
Undisturbed(d) ==
  /\ socketOf = d
  /\ \A e \in Daemons : server[e] # "checked"
  /\ \A e \in Daemons \ {d} : stage[e] # "naming" /\ self[e] # d
ListenerIsSafe == lastListener # Nobody /\ overtaken = FALSE => Undisturbed(lastListener)

\* A service that was stopped is not one that launchd keeps alive.
StoppedIsNotKept == answer = "stopped" => job # "in"

InstInv == InstTyped /\ SocketTyped /\ LockIsHeld /\ ListenerIsSafe /\ StoppedIsNotKept

\* launchd runs the job while it manages a daemon.
LEMMA JobRunsIs == InstTyped => (JobRuns <=> managed # {})
  BY DEF InstTyped, JobRuns

\* At most one of a set is what counting says.
LEMMA CountOne ==
  ASSUME NEW S, AtMostOne(S)
  PROVE  Cardinality(S) <= 1
  <1>1. CASE S = {}
    BY <1>1, FS_EmptySet
  <1>2. CASE S # {}
    <2>1. PICK d : S = {d}
      BY <1>2 DEF AtMostOne
    <2>2. QED
      BY <2>1, FS_Singleton
  <1>3. QED
    BY <1>1, <1>2

\* Processes that end leave the path as it is, under no name of theirs.
LEMMA GoneStep ==
  ASSUME InstInv, NEW gone \in SUBSET Daemons,
         Placed' = Placed \ gone, Working' \subseteq Working, Working \ gone \subseteq Working',
         \A e \in Daemons : stage'[e] = "naming" => stage[e] = "naming",
         \A e \in Daemons : stage'[e] = "enforcing" => stage[e] = "enforcing",
         server' \in [Daemons -> {"off", "up", "checked"}],
         \A e \in Daemons : server'[e] = IF e \in gone THEN "off" ELSE server[e],
         self' = WithoutName(gone),
         socketOf' = IF socketOf \in gone THEN "stale" ELSE socketOf,
         lastListener' = IF lastListener \in gone THEN Nobody ELSE lastListener,
         UNCHANGED overtaken
  PROVE  SocketTyped' /\ ListenerIsSafe'
  <1>1. "stale" \notin Daemons /\ Nobody \notin Daemons /\ "missing" \notin Daemons
    BY InstanceAssumption DEF Nobody
  <1>2. /\ socketOf \in Placed \cup {"stale", "missing"}
        /\ self \in [Daemons -> Placed \cup {"stale", Nobody}]
    BY DEF InstInv, SocketTyped
  <1>3. self' \in [Daemons -> Placed' \cup {"stale", Nobody}]
    BY <1>2 DEF WithoutName
  <1>4. SocketTyped'
    <2>1. \A d \in Daemons : server'[d] # "off" => d \in Working'
      BY DEF InstInv, SocketTyped
    <2>2. \A d \in Daemons : server'[d] = "checked" => stage'[d] # "enforcing"
      BY DEF InstInv, SocketTyped
    <2>3. socketOf' \in Placed' \cup {"stale", "missing"}
      BY <1>2
    <2>4. QED
      BY <1>3, <2>1, <2>2, <2>3 DEF SocketTyped
  <1>5. ListenerIsSafe'
    <2>1. SUFFICES ASSUME lastListener' # Nobody, overtaken' = FALSE
                   PROVE  Undisturbed(lastListener)' /\ lastListener' = lastListener
      BY DEF ListenerIsSafe
    <2>2. /\ lastListener' = lastListener /\ lastListener \notin gone /\ lastListener \in Daemons
          /\ Undisturbed(lastListener)
      BY <2>1 DEF InstInv, InstTyped, ListenerIsSafe
    <2>3. socketOf' = lastListener
      BY <2>2 DEF Undisturbed
    <2>4. \A e \in Daemons : server'[e] # "checked"
      BY <2>2 DEF Undisturbed
    <2>5. ASSUME NEW e \in Daemons \ {lastListener}
          PROVE  stage'[e] # "naming" /\ self'[e] # lastListener
      <3>1. stage[e] # "naming" /\ self[e] # lastListener
        BY <2>2 DEF Undisturbed
      <3>2. self'[e] \in {Nobody, "stale", self[e]}
        BY DEF WithoutName
      <3>3. stage'[e] # "naming"
        BY <3>1
      <3>4. lastListener # "stale" /\ lastListener # Nobody
        BY <1>1, <2>2
      <3>5. QED
        BY <3>1, <3>2, <3>3, <3>4
    <2>6. QED
      BY <2>2, <2>3, <2>4, <2>5 DEF Undisturbed
  <1>6. QED
    BY <1>4, <1>5

\* A process that ends takes its lock, its place and its name with it, and its rules if it
\* had any.
LEMMA EndsStep ==
  ASSUME InstInv, NEW d \in Daemons, Ends(d),
         rulesIn' = rulesIn \/ (d \in Working /\ rulesIn' = FALSE)
  PROVE  InstInv'
  <1>1. /\ stage'[d] = "gone" /\ \A e \in Daemons \ {d} : stage'[e] = stage[e]
        /\ stage' \in [Daemons -> Stages]
    BY DEF InstInv, InstTyped, Ends, Stages
  <1>2. Alive' = Alive \ {d} /\ Working' = Working \ {d} /\ Placed' = Placed \ {d}
    BY <1>1 DEF Alive, Working, Placed
  <1>3. InstTyped'
    <2>1. managed' \subseteq Alive' /\ AtMostOne(managed') /\ lockedBy' \in Alive' \cup {Nobody}
      BY <1>2 DEF InstInv, InstTyped, Ends, AtMostOne
    <2>2. managed' # {} => job' # "out"
      BY DEF InstInv, InstTyped, Ends, AtMostOne
    <2>3. job' \in {"out", "in", "leaving"} /\ rulesIn' \in BOOLEAN
          /\ lastListener' \in Daemons \cup {Nobody}
      BY DEF InstInv, InstTyped, Ends
    <2>4. QED
      BY <1>1, <2>1, <2>2, <2>3 DEF InstInv, InstTyped, Ends
  <1>4. LockIsHeld'
    <2>1. SUFFICES ASSUME unguarded = FALSE
                   PROVE  /\ \A e \in Daemons :
                                /\ stage'[e] \in {"listening", "naming", "enforcing", "ending", "stopping"}
                                     => lockedBy' = e
                                /\ stage'[e] = "enforcing" => rulesIn'
                          /\ overtaken' = FALSE
      BY DEF LockIsHeld, Ends
    <2>2. ASSUME NEW e \in Daemons,
                 stage'[e] \in {"listening", "naming", "enforcing", "ending", "stopping"}
          PROVE  lockedBy' = e /\ (stage'[e] = "enforcing" => rulesIn')
      <3>1. e # d /\ stage'[e] = stage[e]
        BY <1>1, <2>2
      <3>2. lockedBy = e /\ (stage[e] = "enforcing" => rulesIn)
        BY <2>1, <2>2, <3>1 DEF InstInv, LockIsHeld
      <3>3. d \notin Working
        BY <2>1, <3>1, <3>2 DEF InstInv, LockIsHeld, Working
      <3>4. QED
        BY <3>1, <3>2, <3>3 DEF Ends
    <2>3. overtaken' = FALSE
      BY <2>1 DEF InstInv, LockIsHeld, Ends
    <2>4. QED
      BY <2>2, <2>3
  <1>5. SocketTyped' /\ ListenerIsSafe'
    <2>1. server' \in [Daemons -> {"off", "up", "checked"}]
          /\ \A e \in Daemons : server'[e] = IF e \in {d} THEN "off" ELSE server[e]
      BY DEF InstInv, SocketTyped, Ends
    <2>2. QED
      BY <1>1, <1>2, <2>1, GoneStep DEF Ends
  <1>6. StoppedIsNotKept'
    BY DEF InstInv, StoppedIsNotKept, Ends
  <1>7. QED
    BY <1>3, <1>4, <1>5, <1>6 DEF InstInv

\* A daemon that moves on within its life, and what that changes of who is where.
LEMMA MovesTo ==
  ASSUME InstInv, NEW d \in Daemons, NEW s \in Stages, s # "gone",
         stage' = [stage EXCEPT ![d] = s]
  PROVE  /\ stage'[d] = s /\ \A e \in Daemons \ {d} : stage'[e] = stage[e]
         /\ stage' \in [Daemons -> Stages] /\ Alive' = Alive \cup {d}
         /\ s \in {"locking", "listening"} /\ stage[d] \in {"gone", "locking", "listening"}
              => Working' = Working /\ Placed' = Placed
         /\ s = "naming" /\ stage[d] = "listening"
              => Working' = Working /\ Placed' = Placed \cup {d}
         /\ s \in {"enforcing", "ending", "stopping"}
              => Working' = Working \cup {d} /\ Placed' = Placed \cup {d}
  <1>1. /\ stage'[d] = s /\ \A e \in Daemons \ {d} : stage'[e] = stage[e]
        /\ stage' \in [Daemons -> Stages]
    BY DEF InstInv, InstTyped
  <1>2. QED
    BY <1>1 DEF Alive, Working, Placed, Stages

\* It is spawned, ...
LEMMA SpawnStep ==
  ASSUME InstInv, NEW d \in Daemons, RunFromShell(d) \/ Respawn(d)
  PROVE  InstInv'
  <1>1. /\ stage[d] = "gone" /\ stage' = [stage EXCEPT ![d] = "locking"]
        /\ UNCHANGED <<lockedBy, socketOf, server, self, rulesIn, manager, verb, answer, instHistory>>
        /\ managed' # managed => managed = {} /\ managed' = {d} /\ job = "in"
    <2>1. CASE RunFromShell(d)
      BY <2>1 DEF RunFromShell, Spawned
    <2>2. CASE Respawn(d)
      BY <2>2, JobRunsIs DEF Respawn, Spawned, InstInv
    <2>3. QED
      BY <2>1, <2>2
  <1>2. /\ stage'[d] = "locking" /\ \A e \in Daemons \ {d} : stage'[e] = stage[e]
        /\ stage' \in [Daemons -> Stages] /\ Alive' = Alive \cup {d}
        /\ Working' = Working /\ Placed' = Placed
    BY <1>1, MovesTo DEF Stages
  <1>3. InstTyped'
    BY <1>1, <1>2 DEF InstInv, InstTyped, AtMostOne, manager, instHistory
  <1>4. SocketTyped' /\ ListenerIsSafe'
    BY <1>1, <1>2 DEF InstInv, SocketTyped, ListenerIsSafe, Undisturbed, instHistory
  <1>5. LockIsHeld' /\ StoppedIsNotKept'
    BY <1>1, <1>2 DEF InstInv, LockIsHeld, StoppedIsNotKept, instHistory, manager
  <1>6. QED
    BY <1>3, <1>4, <1>5 DEF InstInv

\* ... gets the lock or goes on without, ...
LEMMA LockStep ==
  ASSUME InstInv, NEW d \in Daemons, AcquireRunLock(d) \/ LockUnavailable(d)
  PROVE  InstInv'
  <1>1. /\ stage[d] = "locking" /\ stage' = [stage EXCEPT ![d] = "listening"]
        /\ UNCHANGED <<managed, socketOf, server, self, rulesIn, manager, verb, answer, lastListener,
                       overtaken>>
        /\ \/ lockedBy = Nobody /\ lockedBy' = d /\ unguarded' = unguarded
           \/ lockedBy' = lockedBy /\ unguarded' = TRUE
    BY DEF AcquireRunLock, LockUnavailable, instHistory
  <1>2. /\ stage'[d] = "listening" /\ \A e \in Daemons \ {d} : stage'[e] = stage[e]
        /\ stage' \in [Daemons -> Stages] /\ Alive' = Alive \cup {d}
        /\ Working' = Working /\ Placed' = Placed
    BY <1>1, MovesTo DEF Stages
  <1>3. InstTyped'
    <2>1. lockedBy' \in Alive' \cup {Nobody} /\ unguarded' \in BOOLEAN /\ managed' \subseteq Alive'
      BY <1>1, <1>2 DEF InstInv, InstTyped
    <2>2. QED
      BY <1>1, <1>2, <2>1 DEF InstInv, InstTyped, manager
  <1>4. SocketTyped' /\ ListenerIsSafe'
    BY <1>1, <1>2 DEF InstInv, SocketTyped, ListenerIsSafe, Undisturbed
  <1>5. LockIsHeld'
    BY <1>1, <1>2, InstanceAssumption DEF InstInv, LockIsHeld, Nobody
  <1>6. StoppedIsNotKept'
    BY <1>1 DEF InstInv, StoppedIsNotKept, manager
  <1>7. QED
    BY <1>3, <1>4, <1>5, <1>6 DEF InstInv

\* ... puts its socket in place, where with the lock nobody is in its way, ...
LEMMA ListenStep ==
  ASSUME InstInv, NEW d \in Daemons, ListenSecure(d)
  PROVE  InstInv'
  <1>1. /\ stage[d] = "listening" /\ stage' = [stage EXCEPT ![d] = "naming"]
        /\ socketOf' = d /\ lastListener' = d
        /\ overtaken' = \E e \in Daemons : stage[e] = "naming" \/ server[e] = "checked"
        /\ UNCHANGED <<managed, lockedBy, server, self, rulesIn, manager, verb, answer, unguarded>>
    BY DEF ListenSecure
  <1>2. /\ stage'[d] = "naming" /\ \A e \in Daemons \ {d} : stage'[e] = stage[e]
        /\ stage' \in [Daemons -> Stages] /\ Alive' = Alive \cup {d}
        /\ Working' = Working /\ Placed' = Placed \cup {d}
    BY <1>1, MovesTo DEF Stages
  <1>3. overtaken' \in BOOLEAN
    BY <1>1
  <1>4. InstTyped'
    BY <1>1, <1>2, <1>3 DEF InstInv, InstTyped, manager
  <1>5. SocketTyped'
    BY <1>1, <1>2 DEF InstInv, SocketTyped
  <1>6. LockIsHeld'
    <2>1. SUFFICES ASSUME unguarded = FALSE
                   PROVE  /\ \A e \in Daemons :
                                /\ stage'[e] \in {"listening", "naming", "enforcing", "ending", "stopping"}
                                     => lockedBy' = e
                                /\ stage'[e] = "enforcing" => rulesIn'
                          /\ overtaken' = FALSE
      BY <1>1 DEF LockIsHeld
    <2>2. \A e \in Daemons : stage[e] \in {"listening", "naming", "enforcing", "ending", "stopping"}
                              => lockedBy = e
      BY <2>1 DEF InstInv, LockIsHeld
    <2>3. \A e \in Daemons : stage[e] # "naming"
      BY <1>1, <2>2
    <2>4. \A e \in Daemons : server[e] # "checked"
      BY <1>1, <2>2 DEF InstInv, SocketTyped, Working
    <2>5. overtaken' = FALSE
      BY <1>1, <2>3, <2>4
    <2>6. QED
      BY <1>1, <1>2, <2>1, <2>2, <2>5 DEF InstInv, LockIsHeld
  <1>7. ListenerIsSafe'
    <2>1. SUFFICES ASSUME overtaken' = FALSE PROVE Undisturbed(lastListener)'
      BY DEF ListenerIsSafe
    <2>2. \A e \in Daemons : stage[e] # "naming" /\ server[e] # "checked"
      BY <1>1, <2>1
    <2>3. \A e \in Daemons : self[e] # d
      <3>1. d \notin Placed /\ d # "stale" /\ d # Nobody
        BY <1>1, InstanceAssumption DEF Placed, Nobody
      <3>2. QED
        BY <3>1 DEF InstInv, SocketTyped
    <2>4. QED
      BY <1>1, <1>2, <2>2, <2>3 DEF Undisturbed
  <1>8. StoppedIsNotKept'
    BY <1>1 DEF InstInv, StoppedIsNotKept, manager
  <1>9. QED
    BY <1>4, <1>5, <1>6, <1>7, <1>8 DEF InstInv

\* ... takes what it finds at the path for its own, and enforces, ...
LEMMA LoopStep ==
  ASSUME InstInv, NEW d \in Daemons, NEW known \in BOOLEAN, StartLoop(d, known)
  PROVE  InstInv'
  <1>1. /\ stage[d] \in {"listening", "naming"} /\ stage' = [stage EXCEPT ![d] = "enforcing"]
        /\ rulesIn' = TRUE
        /\ UNCHANGED <<managed, lockedBy, socketOf, manager, verb, answer, lastListener, unguarded,
                       overtaken>>
    BY DEF StartLoop, instHistory
  <1>2. /\ stage'[d] = "enforcing" /\ \A e \in Daemons \ {d} : stage'[e] = stage[e]
        /\ stage' \in [Daemons -> Stages] /\ Alive' = Alive \cup {d}
        /\ Working' = Working \cup {d} /\ Placed' = Placed \cup {d}
    BY <1>1, MovesTo DEF Stages
  <1>3. /\ server' \in [Daemons -> {"off", "up", "checked"}]
        /\ server'[d] = "up" \/ (server'[d] = server[d] /\ stage[d] = "listening")
        /\ self' \in [Daemons -> Placed \cup {"stale", Nobody}]
        /\ \A e \in Daemons \ {d} : server'[e] = server[e] /\ self'[e] = self[e]
    BY DEF StartLoop, InstInv, SocketTyped
  <1>4. InstTyped'
    BY <1>1, <1>2 DEF InstInv, InstTyped, manager
  <1>5. SocketTyped'
    <2>1. \A e \in Daemons : server'[e] = "checked" => stage'[e] # "enforcing"
      <3>1. server[d] = "off"
        BY <1>1 DEF InstInv, SocketTyped, Working
      <3>2. QED
        BY <1>2, <1>3, <3>1 DEF InstInv, SocketTyped
    <2>2. QED
      BY <1>1, <1>2, <1>3, <2>1 DEF InstInv, SocketTyped
  <1>6. LockIsHeld' /\ StoppedIsNotKept'
    BY <1>1, <1>2 DEF InstInv, LockIsHeld, StoppedIsNotKept, manager
  <1>7. ListenerIsSafe'
    <2>1. SUFFICES ASSUME lastListener # Nobody, overtaken = FALSE
                   PROVE  Undisturbed(lastListener)'
      BY <1>1 DEF ListenerIsSafe
    <2>2. Undisturbed(lastListener) /\ lastListener \in Daemons
      BY <2>1 DEF InstInv, InstTyped, ListenerIsSafe
    <2>3. \A e \in Daemons : server'[e] # "checked"
      BY <1>3, <2>2 DEF Undisturbed
    <2>4. ASSUME NEW e \in Daemons \ {lastListener}
          PROVE  stage'[e] # "naming" /\ self'[e] # lastListener
      <3>1. stage[e] # "naming" /\ self[e] # lastListener
        BY <2>2 DEF Undisturbed
      <3>2. CASE e # d
        BY <1>2, <1>3, <3>1, <3>2
      <3>3. CASE e = d
        <4>1. stage[d] = "listening"
          BY <1>1, <3>1, <3>3
        <4>2. self' = self
          BY <4>1 DEF StartLoop
        <4>3. QED
          BY <1>2, <3>1, <3>3, <4>2
      <3>4. QED
        BY <3>2, <3>3
    <2>5. QED
      BY <1>1, <2>2, <2>3, <2>4 DEF Undisturbed
  <1>8. QED
    BY <1>4, <1>5, <1>6, <1>7 DEF InstInv

\* ... and is told to stop, or comes to its end.
LEMMA StoppingStep ==
  ASSUME InstInv, NEW d \in Daemons, LoopEnds(d) \/ Terminate(d)
  PROVE  InstInv'
  <1>1. PICK s \in {"ending", "stopping"} :
          /\ stage[d] \in {"enforcing", "ending"} /\ stage' = [stage EXCEPT ![d] = s]
          /\ UNCHANGED <<managed, lockedBy, socketOf, server, self, rulesIn, manager, verb, answer,
                         instHistory>>
    BY DEF LoopEnds, Terminate
  <1>2. /\ stage'[d] = s /\ \A e \in Daemons \ {d} : stage'[e] = stage[e]
        /\ stage' \in [Daemons -> Stages] /\ Alive' = Alive \cup {d}
        /\ Working' = Working \cup {d} /\ Placed' = Placed \cup {d}
    BY <1>1, MovesTo DEF Stages
  <1>3. InstTyped'
    BY <1>1, <1>2 DEF InstInv, InstTyped, manager, instHistory
  <1>4. SocketTyped' /\ ListenerIsSafe'
    BY <1>1, <1>2 DEF InstInv, SocketTyped, ListenerIsSafe, Undisturbed, instHistory
  <1>5. LockIsHeld' /\ StoppedIsNotKept'
    BY <1>1, <1>2 DEF InstInv, LockIsHeld, StoppedIsNotKept, instHistory, manager
  <1>6. QED
    BY <1>3, <1>4, <1>5 DEF InstInv

\* The path is looked at, and one that is not the last to listen does not find its own.
LEMMA CheckStep ==
  ASSUME InstInv, NEW d \in Daemons, CheckSocket(d)
  PROVE  InstInv'
  <1>1. /\ stage[d] \in {"ending", "stopping"} /\ server[d] = "up"
        /\ lastListener' = (IF lastListener = d THEN Nobody ELSE lastListener)
        /\ UNCHANGED <<stage, managed, lockedBy, socketOf, rulesIn, manager, verb, answer,
                       unguarded, overtaken>>
    BY DEF CheckSocket
  <1>2. /\ server' \in [Daemons -> {"off", "up", "checked"}]
        /\ server'[d] = (IF SameFile(d) THEN "checked" ELSE "off")
        /\ self' \in [Daemons -> Placed \cup {"stale", Nobody}] /\ self'[d] = Nobody
        /\ \A e \in Daemons \ {d} : server'[e] = server[e] /\ self'[e] = self[e]
    BY DEF CheckSocket, InstInv, SocketTyped
  <1>3. Alive' = Alive /\ Working' = Working /\ Placed' = Placed
    BY <1>1 DEF Alive, Working, Placed
  <1>4. InstTyped'
    BY <1>1, <1>3 DEF InstInv, InstTyped, manager
  <1>5. SocketTyped'
    BY <1>1, <1>2, <1>3 DEF InstInv, SocketTyped
  <1>6. LockIsHeld' /\ StoppedIsNotKept'
    BY <1>1 DEF InstInv, LockIsHeld, StoppedIsNotKept, manager
  <1>7. ListenerIsSafe'
    <2>1. SUFFICES ASSUME lastListener' # Nobody, overtaken' = FALSE
                   PROVE  Undisturbed(lastListener)' /\ lastListener' = lastListener
      BY DEF ListenerIsSafe
    <2>2. /\ lastListener' = lastListener /\ lastListener # d /\ lastListener \in Daemons
          /\ Undisturbed(lastListener)
      BY <1>1, <2>1 DEF InstInv, InstTyped, ListenerIsSafe
    <2>3. ~SameFile(d)
      BY <2>2 DEF Undisturbed, SameFile
    <2>4. Nobody \notin Daemons
      BY InstanceAssumption DEF Nobody
    <2>5. QED
      BY <1>1, <1>2, <2>2, <2>3, <2>4 DEF Undisturbed
  <1>8. QED
    BY <1>4, <1>5, <1>6, <1>7 DEF InstInv

\* Whatever is unlinked is not the socket of one that was left undisturbed.
LEMMA RemoveStep ==
  ASSUME InstInv, NEW d \in Daemons, RemoveSocket(d)
  PROVE  InstInv'
  <1>1. /\ server[d] = "checked" /\ server' = [server EXCEPT ![d] = "off"] /\ socketOf' = "missing"
        /\ UNCHANGED <<stage, managed, lockedBy, self, rulesIn, manager, verb, answer, lastListener,
                       unguarded, overtaken>>
    BY DEF RemoveSocket, instHistory
  <1>2. /\ server' \in [Daemons -> {"off", "up", "checked"}]
        /\ \A e \in Daemons : server'[e] \in {server[e], "off"}
    BY <1>1 DEF InstInv, SocketTyped
  <1>3. Alive' = Alive /\ Working' = Working /\ Placed' = Placed
    BY <1>1 DEF Alive, Working, Placed
  <1>4. InstTyped'
    BY <1>1, <1>3 DEF InstInv, InstTyped, manager
  <1>5. SocketTyped'
    BY <1>1, <1>2, <1>3 DEF InstInv, SocketTyped
  <1>6. LockIsHeld' /\ StoppedIsNotKept'
    BY <1>1 DEF InstInv, LockIsHeld, StoppedIsNotKept, manager
  <1>7. ~(lastListener # Nobody /\ overtaken = FALSE)
    BY <1>1 DEF InstInv, ListenerIsSafe, Undisturbed
  <1>8. ListenerIsSafe'
    BY <1>1, <1>7 DEF ListenerIsSafe
  <1>9. QED
    BY <1>4, <1>5, <1>6, <1>8 DEF InstInv

\* A bootout tells the job's daemon to stop, or ends it before it did anything.
LEMMA BootoutStep ==
  ASSUME InstInv, Bootout,
         unit' \in BOOLEAN, verb' \in {"none", "restarting"}, answer' \in {"none", "stopped"}
  PROVE  InstInv'
  <1> DEFINE ends == {d \in managed : stage[d] \in {"locking", "listening", "naming"}}
  <1>1. /\ managed' = managed \ ends /\ UNCHANGED <<server, rulesIn, unguarded, overtaken>>
        /\ job' = (IF managed' = {} THEN "out" ELSE "leaving")
        /\ lockedBy' = (IF lockedBy \in ends THEN Nobody ELSE lockedBy)
        /\ socketOf' = (IF socketOf \in ends THEN "stale" ELSE socketOf)
        /\ self' = WithoutName(ends)
        /\ lastListener' = (IF lastListener \in ends THEN Nobody ELSE lastListener)
        /\ stage' = [d \in Daemons |-> IF d \in ends THEN "gone"
                                       ELSE IF d \in managed THEN "stopping" ELSE stage[d]]
    BY DEF Bootout
  <1>2. /\ ends \subseteq managed /\ managed \subseteq Daemons
        /\ \A d \in ends : stage[d] \in {"locking", "listening", "naming"}
        /\ \A d \in managed \ ends : stage[d] \in {"enforcing", "ending", "stopping"}
    BY DEF InstInv, InstTyped, Alive, Stages
  <1> HIDE DEF ends
  <1>3. ASSUME NEW d \in Daemons
        PROVE  /\ d \in ends => stage'[d] = "gone"
               /\ d \in managed \ ends => stage'[d] = "stopping"
               /\ d \notin managed => stage'[d] = stage[d]
    BY <1>1, <1>2
  <1>4. stage' \in [Daemons -> Stages]
    BY <1>1 DEF InstInv, InstTyped, Stages
  <1>5. Working' = Working /\ Placed' = Placed \ ends /\ Alive' = Alive \ ends
    <2>1. ASSUME NEW d \in Daemons
          PROVE  /\ d \in Working' <=> d \in Working
                 /\ d \in Placed' <=> d \in Placed \ ends
                 /\ d \in Alive' <=> d \in Alive \ ends
      <3>1. CASE d \in ends
        BY <1>2, <1>3, <3>1 DEF Working, Placed, Alive
      <3>2. CASE d \in managed \ ends
        BY <1>2, <1>3, <3>2 DEF Working, Placed, Alive
      <3>3. CASE d \notin managed
        BY <1>2, <1>3, <3>3 DEF Working, Placed, Alive
      <3>4. QED
        BY <3>1, <3>2, <3>3
    <2>2. QED
      BY <2>1 DEF Working, Placed, Alive
  <1>6. InstTyped'
    <2>1. AtMostOne(managed') /\ managed' \subseteq Alive'
      BY <1>1, <1>5 DEF InstInv, InstTyped, AtMostOne
    <2>2. lockedBy' \in Alive' \cup {Nobody} /\ lastListener' \in Daemons \cup {Nobody}
      BY <1>1, <1>5 DEF InstInv, InstTyped
    <2>3. job' \in {"out", "in", "leaving"} /\ (managed' # {} => job' # "out")
      BY <1>1
    <2>4. QED
      BY <1>1, <1>4, <2>1, <2>2, <2>3 DEF InstInv, InstTyped
  <1>7. SocketTyped' /\ ListenerIsSafe'
    <2>1. \A e \in ends : server[e] = "off"
      BY <1>2 DEF InstInv, SocketTyped, Working
    <2>2. /\ server' \in [Daemons -> {"off", "up", "checked"}]
          /\ \A e \in Daemons : server'[e] = IF e \in ends THEN "off" ELSE server[e]
      BY <1>1, <2>1 DEF InstInv, SocketTyped
    <2>3. /\ \A e \in Daemons : stage'[e] = "naming" => stage[e] = "naming"
          /\ \A e \in Daemons : stage'[e] = "enforcing" => stage[e] = "enforcing"
      BY <1>3
    <2>4. ends \in SUBSET Daemons
      BY <1>2
    <2>5. QED
      BY <1>1, <1>5, <2>2, <2>3, <2>4, GoneStep
  <1>8. LockIsHeld'
    <2>1. SUFFICES ASSUME unguarded = FALSE
                   PROVE  /\ \A d \in Daemons :
                                /\ stage'[d] \in {"listening", "naming", "enforcing", "ending", "stopping"}
                                     => lockedBy' = d
                                /\ stage'[d] = "enforcing" => rulesIn'
                          /\ overtaken' = FALSE
      BY <1>1 DEF LockIsHeld
    <2>2. ASSUME NEW d \in Daemons,
                 stage'[d] \in {"listening", "naming", "enforcing", "ending", "stopping"}
          PROVE  lockedBy' = d /\ (stage'[d] = "enforcing" => rulesIn')
      <3>1. d \notin ends /\ (stage'[d] = "enforcing" => stage[d] = "enforcing")
        BY <1>3, <2>2
      <3>2. stage[d] \in {"listening", "naming", "enforcing", "ending", "stopping"}
        BY <1>2, <1>3, <2>2, <3>1
      <3>3. lockedBy = d /\ (stage[d] = "enforcing" => rulesIn)
        BY <2>1, <3>2 DEF InstInv, LockIsHeld
      <3>4. QED
        BY <1>1, <3>1, <3>3
    <2>3. overtaken' = FALSE
      BY <1>1, <2>1 DEF InstInv, LockIsHeld
    <2>4. QED
      BY <2>2, <2>3
  <1>9. StoppedIsNotKept'
    BY <1>1 DEF StoppedIsNotKept
  <1>10. QED
    BY <1>6, <1>7, <1>8, <1>9 DEF InstInv

\* A verb that leaves the processes alone keeps the job where one runs, and loads it only
\* to answer that it did.
LEMMA VerbStep ==
  ASSUME InstInv, UNCHANGED <<processes, instHistory>>,
         unit' \in BOOLEAN, verb' \in {"none", "restarting"},
         answer' \in {"none", "stopped", "started", "restarted", "failed"},
         job' \in {job, "in"}, answer' = "stopped" => job' # "in"
  PROVE  InstInv'
  <1>1. Alive' = Alive /\ Working' = Working /\ Placed' = Placed
    BY DEF processes, Alive, Working, Placed
  <1>2. InstTyped' /\ SocketTyped'
    BY <1>1 DEF InstInv, InstTyped, SocketTyped, processes, instHistory
  <1>3. QED
    BY <1>2 DEF InstInv, LockIsHeld, ListenerIsSafe, Undisturbed, StoppedIsNotKept, processes,
                instHistory

\* The commands of the service, one by one.
LEMMA ServiceStep ==
  ASSUME InstInv,
         Stop \/ Start \/ Restart \/ StartAgain \/ GiveUpRestart \/ InstallUnit \/ Uninstall
  PROVE  InstInv'
  <1>1. unit \in BOOLEAN /\ verb \in {"none", "restarting"} /\ StoppedIsNotKept
        /\ answer \in {"none", "stopped", "started", "restarted", "failed"}
    BY DEF InstInv, InstTyped
  <1>2. CASE Stop
    <2>1. CASE UNCHANGED <<processes, job, instHistory>> /\ job = "out"
      BY <1>1, <1>2, <2>1, VerbStep DEF Stop
    <2>2. CASE Bootout
      BY <1>1, <1>2, <2>2, BootoutStep DEF Stop
    <2>3. QED
      BY <1>2, <2>1, <2>2 DEF Stop, AlreadyStopped
  <1>3. CASE Start
    BY <1>1, <1>3, VerbStep DEF Start, StartJob
  <1>4. CASE Restart
    <2>1. CASE UNCHANGED <<processes, job, instHistory>> /\ job = "out"
      BY <1>1, <1>4, <2>1, VerbStep DEF Restart
    <2>2. CASE Bootout
      BY <1>1, <1>4, <2>2, BootoutStep DEF Restart
    <2>3. QED
      BY <1>4, <2>1, <2>2 DEF Restart, AlreadyStopped
  <1>5. CASE StartAgain \/ GiveUpRestart \/ InstallUnit
    BY <1>1, <1>5, VerbStep DEF StartAgain, GiveUpRestart, InstallUnit, StartJob, manager,
                                StoppedIsNotKept
  <1>6. CASE Uninstall
    <2>1. CASE UNCHANGED <<processes, job, instHistory>> /\ job = "out"
      BY <1>1, <1>6, <2>1, VerbStep DEF Uninstall
    <2>2. CASE Bootout
      BY <1>1, <1>6, <2>2, BootoutStep DEF Uninstall
    <2>3. QED
      BY <1>6, <2>1, <2>2 DEF Uninstall
  <1>7. QED
    BY <1>2, <1>3, <1>4, <1>5, <1>6

\* Every step of a daemon, of launchd and of a command keeps the invariant.
LEMMA InstStep == InstInv /\ [InstNext]_instVars => InstInv'
  <1>1. ASSUME InstInv, UNCHANGED instVars PROVE InstInv'
    <2>1. answer' = "stopped" => job' # "in"
      BY <1>1 DEF instVars, manager, InstInv, StoppedIsNotKept
    <2>2. QED
      BY <1>1, <2>1, VerbStep DEF instVars, manager, InstInv, InstTyped
  <1>2. ASSUME InstInv, NEW d \in Daemons,
               \/ RefusedByLock(d) \/ BuildFails(d) \/ Crash(d) \/ StopTimesOut(d)
               \/ TearDownAndExit(d)
        PROVE  InstInv'
    <2>1. CASE RefusedByLock(d) \/ BuildFails(d) \/ Crash(d) \/ StopTimesOut(d)
      BY <1>2, <2>1, EndsStep DEF RefusedByLock, BuildFails, Crash, StopTimesOut, Dies
    <2>2. CASE TearDownAndExit(d)
      BY <1>2, <2>2, EndsStep DEF TearDownAndExit, Working
    <2>3. QED
      BY <1>2, <2>1, <2>2
  <1>3. QED
    BY <1>1, <1>2, SpawnStep, LockStep, ListenStep, LoopStep, StoppingStep, CheckStep,
       RemoveStep, ServiceStep
    DEF InstNext

\* The first state, with nothing installed and nobody running.
LEMMA InstStart == InstInit => InstInv
  <1> SUFFICES ASSUME InstInit PROVE InstInv
    OBVIOUS
  <1>1. InstTyped
    BY DEF InstInit, InstTyped, AtMostOne, Stages
  <1>2. SocketTyped /\ LockIsHeld /\ ListenerIsSafe /\ StoppedIsNotKept
    BY DEF InstInit, SocketTyped, LockIsHeld, ListenerIsSafe, StoppedIsNotKept
  <1>3. QED
    BY <1>1, <1>2 DEF InstInv

\* What is safe about the daemons and their service, for any number of processes: where
\* every one got the lock it asked for at most one enforces, with its rules in place, and
\* the last to listen can be reached, as it can without the lock where it did not come
\* between two steps of another's server; a stopped service is not spawned again, and a restart
\* that reports success has the job loaded.
THEOREM ServiceIsSafe ==
  InstSpec => /\ [](InstTypeOK /\ OneEnforcer /\ LastListenerIsReachable)
              /\ StopIsFinal /\ RestartIsAStart
  <1>1. InstSpec => []InstInv
    BY InstStart, InstStep, PTL DEF InstSpec
  <1>2. InstInv => InstTypeOK /\ OneEnforcer /\ LastListenerIsReachable
    <2> SUFFICES ASSUME InstInv PROVE InstTypeOK /\ OneEnforcer /\ LastListenerIsReachable
      OBVIOUS
    <2>1. InstTypeOK
      <3>1. Cardinality(managed) <= 1
        BY CountOne DEF InstInv, InstTyped
      <3>2. Placed \subseteq Alive
        BY DEF Placed, Alive
      <3>3. JobRuns => job # "out"
        BY JobRunsIs DEF InstInv, InstTyped
      <3>4. self \in [Daemons -> Alive \cup {"stale", Nobody}]
        BY <3>2 DEF InstInv, SocketTyped
      <3>5. QED
        BY <3>1, <3>2, <3>3, <3>4 DEF InstInv, InstTyped, SocketTyped, InstTypeOK
    <2>2. OneEnforcer
      <3>1. SUFFICES ASSUME unguarded = FALSE
                     PROVE  /\ Cardinality(Working) <= 1
                            /\ \A d \in Daemons : stage[d] = "enforcing" => rulesIn
        BY DEF OneEnforcer, Working, InstInv, InstTyped
      <3>2. AtMostOne(Working)
        BY <3>1 DEF AtMostOne, Working, InstInv, LockIsHeld
      <3>3. QED
        BY <3>1, <3>2, CountOne DEF InstInv, LockIsHeld
    <2>3. LastListenerIsReachable
      <3>1. SUFFICES ASSUME lastListener # Nobody, unguarded => ~overtaken
                     PROVE  socketOf = lastListener
        BY DEF LastListenerIsReachable
      <3>2. overtaken = FALSE
        BY <3>1 DEF InstInv, InstTyped, LockIsHeld
      <3>3. QED
        BY <3>1, <3>2 DEF InstInv, ListenerIsSafe, Undisturbed
    <2>4. QED
      BY <2>1, <2>2, <2>3
  <1>3. InstInv /\ [InstNext]_instVars =>
          [answer = "stopped" /\ answer' = "stopped"
             => \A d \in Daemons : stage[d] = "gone" => d \notin managed']_instVars
    <2> SUFFICES ASSUME InstInv, InstNext, answer = "stopped", answer' = "stopped",
                        NEW d \in Daemons, stage[d] = "gone", d \in managed'
                 PROVE  FALSE
      OBVIOUS
    <2>1. d \notin managed /\ job # "in"
      BY DEF InstInv, InstTyped, Alive, StoppedIsNotKept
    <2>2. managed' \subseteq managed
      BY <2>1 DEF InstNext, RunFromShell, Respawn, AcquireRunLock, RefusedByLock, LockUnavailable,
                  BuildFails, ListenSecure, StartLoop, Crash, LoopEnds, Terminate, CheckSocket,
                  RemoveSocket, TearDownAndExit, StopTimesOut, Dies, Ends, Stop, Start, Restart, StartAgain, GiveUpRestart,
                  InstallUnit, Uninstall, Bootout, processes
    <2>3. QED
      BY <2>1, <2>2
  <1>4. InstInv /\ [InstNext]_instVars =>
          [answer # "restarted" /\ answer' = "restarted"
             => job' = "in" /\ \A d \in managed' : stage'[d] # "stopping"]_instVars
    <2> SUFFICES ASSUME InstInv, InstNext, answer # "restarted", answer' = "restarted"
                 PROVE  job' = "in" /\ \A d \in managed' : stage'[d] # "stopping"
      OBVIOUS
    <2>1. StartAgain
      BY DEF InstNext, RunFromShell, Respawn, AcquireRunLock, RefusedByLock, LockUnavailable,
             BuildFails, ListenSecure, StartLoop, Crash, LoopEnds, Terminate, CheckSocket,
             RemoveSocket, TearDownAndExit, StopTimesOut, Dies, Ends, Stop, Start, Restart, GiveUpRestart,
             InstallUnit, Uninstall
    <2>2. managed = {}
      BY <2>1, JobRunsIs DEF StartAgain, InstInv
    <2>3. QED
      BY <2>1, <2>2 DEF StartAgain, StartJob, processes
  <1>5. InstSpec => StopIsFinal
    BY <1>1, <1>3, PTL DEF InstSpec, StopIsFinal
  <1>6. InstSpec => RestartIsAStart
    BY <1>1, <1>4, PTL DEF InstSpec, RestartIsAStart
  <1>7. QED
    BY <1>1, <1>2, <1>5, <1>6, PTL

=============================================================================
