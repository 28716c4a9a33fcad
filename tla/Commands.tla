------------------------------ MODULE Commands ------------------------------
(***************************************************************************)
(* How a command reaches the run loop: the control socket (internal/      *)
(* control: one goroutine per connection, a bounded queue, two timeouts),  *)
(* the CLI's choice between it and its root path (tryControl), and the     *)
(* root-owned command file (internal/command: one slot, replaced by a      *)
(* rename, consumed on a tick).  What a command does to the posture is     *)
(* Guard's: here the loop carries it out or declines it as it likes.       *)
(***************************************************************************)
EXTENDS Naturals, Sequences, FiniteSets

CONSTANTS
  Callers,           \* invocations of the CLI that may overlap
  Ops,               \* what they may ask for
  Gates,             \* the sets of gated families a daemon may allow
  QueueLimit,        \* requestBuffer
  HandoffTimeout, ReplyTimeout, WriteDeadline

ASSUME CommandsAssumption ==
  /\ Ops \subseteq {"block", "unblock", "switch-open", "switch-cancel", "pause", "resume",
                    "config-write"}
  /\ "nobody" \notin Callers /\ QueueLimit \in Nat \ {0}
  /\ {HandoffTimeout, ReplyTimeout, WriteDeadline} \subseteq Nat

VARIABLES
  daemonUp, allow,   \* the daemon and its control.allow* settings
  closing,           \* it has been told to stop: the server's ctx is done
  call,              \* each invocation
  requests,          \* Server.requests: the callers whose requests wait for the loop
  slot,              \* command.json, or NoCommand
  taken,             \* what Consume has read and not yet removed, or NoCommand
  ran                \* history: how often each invocation's command was carried out

cmdVars == <<daemonUp, allow, closing, call, requests, slot, taken, ran>>

NoCommand == [op |-> "none", by |-> "nobody", stale |-> FALSE, thisRun |-> FALSE]
FileCommands == [op : Ops, by : Callers, stale : BOOLEAN, thisRun : BOOLEAN]
NoReply == "none"
IdleCall == [phase |-> "idle", op |-> "none", token |-> FALSE, reply |-> NoReply,
             since |-> 0, waited |-> 0, unanswered |-> FALSE]
\* "answered": the loop has put its reply in the channel, and serve has not read it yet.
Pending == {"waiting", "answered"}
Connected == {"handoff", "replied"} \cup Pending

\* clientDeadline exceeds what the server may take, or an answer finds nobody.
AsLongAsTheLoop == ReplyTimeout
ClientDeadline == HandoffTimeout + ReplyTimeout + WriteDeadline

CmdTypeOK ==
  /\ {daemonUp, closing} \subseteq BOOLEAN /\ allow \in Gates
  /\ call \in [Callers -> [phase : Connected \cup {"idle", "root", "done"},
                           op : Ops \cup {"none"}, token : BOOLEAN,
                           reply : {NoReply, "ok", "refused", "transient"},
                           since : Nat, waited : Nat, unanswered : BOOLEAN]]
  /\ requests \in Seq(Callers) /\ Len(requests) <= QueueLimit
  /\ {slot, taken} \subseteq FileCommands \cup {NoCommand}
  /\ ran \in [Callers -> 0 .. 2]

CmdInit ==
  /\ daemonUp = FALSE /\ closing = FALSE /\ allow \in Gates
  /\ call = [c \in Callers |-> IdleCall]
  /\ requests = <<>> /\ slot = NoCommand /\ taken = NoCommand
  /\ ran = [c \in Callers |-> 0]

-----------------------------------------------------------------------------
(* Which commands the loop is asked to gate; what it then does is Guard's. *)
Family(op) ==
  CASE op \in {"switch-open", "switch-cancel"} -> "switch"
    [] op \in {"pause", "resume"} -> "pause"
    [] op = "config-write" -> "write"
    [] OTHER -> "none"
Allowed(op) == Family(op) \in allow \cup {"none"}

Count(n) == IF n < 2 THEN n + 1 ELSE n

-----------------------------------------------------------------------------
(* The daemon's life.                                                      *)
\* Slip: what lies in the file is acted on by the next run.
StartsAsItIs ==
  /\ ~daemonUp /\ daemonUp' = TRUE
  /\ allow' \in Gates
  /\ UNCHANGED <<closing, slot, call, requests, taken, ran>>

\* cmdRun discards a leftover command before the loop polls for one.
StartDaemon ==
  /\ ~daemonUp /\ daemonUp' = TRUE
  /\ allow' \in Gates
  /\ slot' = NoCommand
  /\ UNCHANGED <<closing, call, requests, taken, ran>>

\* The service manager, or a signal, cancels the server's ctx; the loop, and the accept
\* goroutines, may get some more done before they see it.
BeginClosing ==
  /\ daemonUp /\ ~closing /\ closing' = TRUE
  /\ UNCHANGED <<daemonUp, allow, call, requests, slot, taken, ran>>

\* The process is gone, in an orderly way or not, wherever the loop and the callers are:
\* a caller without a written reply reads the end of its connection.
Unread(k) ==
  IF k.phase \in {"handoff"} \cup Pending
  THEN [k EXCEPT !.phase = "root", !.reply = NoReply, !.unanswered = k.phase = "answered"]
  ELSE k
DaemonEnds ==
  /\ daemonUp /\ daemonUp' = FALSE /\ closing' = FALSE
  /\ call' = [c \in Callers |-> Unread(call[c])]
  /\ requests' = <<>> /\ taken' = NoCommand
  /\ slot' = [slot EXCEPT !.thisRun = FALSE]
  /\ UNCHANGED <<allow, ran>>

-----------------------------------------------------------------------------
(* A connection.                                                           *)
\* Slip: the socket's group is proof enough for a config-write.
AnyPeer(c) == TRUE

\* token.Verify: the presented token is the enrolled one.
Verify(c) == call[c].token

\* The accept goroutine lets through what needs no token or proves it holds it.
Authorised(c) == call[c].op = "config-write" => Verify(c)

\* The CLI dials when a daemon listens and lets it, or takes its root path.
Dial(c, op, token) ==
  /\ call[c].phase = "idle"
  /\ \E phase \in IF daemonUp THEN {"handoff", "root"} ELSE {"root"} :
       call' = [call EXCEPT ![c] = [IdleCall EXCEPT !.phase = phase, !.op = op, !.token = token]]
  /\ UNCHANGED <<daemonUp, allow, closing, requests, slot, taken, ran>>

Replied(c, reply) == [call EXCEPT ![c].phase = "replied", ![c].reply = reply, ![c].since = 0]

TurnAway(c) ==
  /\ call[c].phase = "handoff" /\ ~Authorised(c)
  /\ call' = Replied(c, "refused")
  /\ UNCHANGED <<daemonUp, allow, closing, requests, slot, taken, ran>>

\* Slip: the queue takes whatever comes.
HandOffAnyway(c) ==
  /\ call[c].phase = "handoff" /\ Authorised(c)
  /\ requests' = Append(requests, c)
  /\ call' = [call EXCEPT ![c].phase = "waiting", ![c].since = 0]
  /\ UNCHANGED <<daemonUp, allow, closing, slot, taken, ran>>

HandOff(c) ==
  /\ call[c].phase = "handoff" /\ Authorised(c) /\ Len(requests) < QueueLimit
  /\ requests' = Append(requests, c)
  /\ call' = [call EXCEPT ![c].phase = "waiting", ![c].since = 0]
  /\ UNCHANGED <<daemonUp, allow, closing, slot, taken, ran>>

Busy(c) ==
  /\ call[c].phase = "handoff" /\ call[c].since = HandoffTimeout /\ Authorised(c)
  /\ Len(requests) = QueueLimit
  /\ call' = Replied(c, "transient")
  /\ UNCHANGED <<daemonUp, allow, closing, requests, slot, taken, ran>>

\* The loop serves one request, and leaves its reply in the channel for a caller's serve
\* that may still be there.
Serve ==
  /\ daemonUp /\ taken = NoCommand /\ requests # <<>>
  /\ LET c == Head(requests)
     IN  \E ok \in IF Allowed(call[c].op) THEN BOOLEAN ELSE {FALSE} :
           /\ ran' = [ran EXCEPT ![c] = IF ok THEN Count(@) ELSE @]
           /\ call' = IF call[c].phase # "waiting" THEN call
                      ELSE [call EXCEPT ![c].phase = "answered",
                                        ![c].reply = IF ok THEN "ok" ELSE "refused"]
  /\ requests' = Tail(requests)
  /\ UNCHANGED <<daemonUp, allow, closing, slot, taken>>

\* serve's second select: the reply, the timeout, the end of the server, whichever it
\* takes of those there are.  A request that waits stays in the queue.
DeliverReply(c) ==
  /\ call[c].phase = "answered"
  /\ call' = Replied(c, call[c].reply)
  /\ UNCHANGED <<daemonUp, allow, closing, requests, slot, taken, ran>>
LetGo(c) == [Replied(c, "transient") EXCEPT ![c].unanswered = TRUE]
ReplyTimesOut(c) ==
  /\ call[c].phase \in Pending /\ call[c].since = ReplyTimeout
  /\ call' = LetGo(c)
  /\ UNCHANGED <<daemonUp, allow, closing, requests, slot, taken, ran>>
ShuttingDown(c) ==
  /\ closing
  /\ \/ /\ call[c].phase = "handoff" /\ Authorised(c)
        /\ call' = Replied(c, "transient")
     \/ /\ call[c].phase \in Pending
        /\ call' = LetGo(c)
  /\ UNCHANGED <<daemonUp, allow, closing, requests, slot, taken, ran>>

Over(c) == [call EXCEPT ![c].phase = "done", ![c].since = 0, ![c].waited = 0]

\* Slip: whatever is not a success goes on to the root path.
AnyFailureFallsBack(c) == call[c].reply # "ok"

\* tryControl: a refusal is an answer, a transient failure is none.
FallsBack(c) == call[c].reply = "transient"

ReadReply(c) ==
  /\ call[c].phase = "replied"
  /\ call' = IF FallsBack(c) THEN [call EXCEPT ![c].phase = "root"] ELSE Over(c)
  /\ UNCHANGED <<daemonUp, allow, closing, requests, slot, taken, ran>>

\* The root path: switch and pause leave a command in the file, over whatever lies
\* there; the others act on the firewall or the configuration themselves.
RootPath(c) ==
  /\ call[c].phase = "root" /\ call' = Over(c)
  /\ IF Family(call[c].op) \in {"switch", "pause"}
     THEN /\ slot' = [op |-> call[c].op, by |-> c, stale |-> FALSE, thisRun |-> daemonUp]
          /\ UNCHANGED ran
     ELSE ran' = [ran EXCEPT ![c] = Count(@)] /\ UNCHANGED slot
  /\ UNCHANGED <<daemonUp, allow, closing, requests, taken>>
NoRoot(c) ==
  /\ call[c].phase = "root" /\ call' = Over(c)
  /\ UNCHANGED <<daemonUp, allow, closing, requests, slot, taken, ran>>

\* The invocation is over, and so is all it left behind.
Leave(c) ==
  /\ call[c].phase = "done" /\ c \notin {slot.by, taken.by}
  /\ \A i \in DOMAIN requests : requests[i] # c
  /\ call' = [call EXCEPT ![c] = IdleCall] /\ ran' = [ran EXCEPT ![c] = 0]
  /\ UNCHANGED <<daemonUp, allow, closing, requests, slot, taken>>

-----------------------------------------------------------------------------
(* The command file.                                                       *)
ReadCommandFile ==
  /\ daemonUp /\ taken = NoCommand /\ slot # NoCommand
  /\ taken' = slot
  /\ UNCHANGED <<daemonUp, allow, closing, call, requests, slot, ran>>

\* Slip: a command that is carried out is left in the file.
KeepValid == slot' = IF taken.stale THEN NoCommand ELSE slot

\* Consume removes the file, whatever it holds by now, valid or not.
RemoveFile == slot' = NoCommand

\* The loop's case for a command, without the socket's gates.
FinishConsume ==
  /\ daemonUp /\ taken # NoCommand
  /\ RemoveFile /\ taken' = NoCommand
  /\ IF taken.stale THEN UNCHANGED ran
     ELSE \E ok \in BOOLEAN :
            ran' = [ran EXCEPT ![taken.by] = IF ok THEN Count(@) ELSE @]
  /\ UNCHANGED <<daemonUp, allow, closing, call, requests>>

GoesStale ==
  /\ slot # NoCommand /\ ~slot.stale /\ slot' = [slot EXCEPT !.stale = TRUE]
  /\ UNCHANGED <<daemonUp, allow, closing, call, requests, taken, ran>>

\* A unit of time, no longer than any timer has left.
CmdTick ==
  /\ \E c \in Callers : call[c].phase \in Connected
  /\ \A c \in Callers :
       /\ call[c].phase = "handoff" => call[c].since < HandoffTimeout
       /\ call[c].phase \in Pending => call[c].since < ReplyTimeout
       /\ call[c].phase = "replied" => call[c].since < WriteDeadline
  /\ call' = [c \in Callers |-> IF call[c].phase \in Connected
                                THEN [call[c] EXCEPT !.since = @ + 1, !.waited = @ + 1]
                                ELSE call[c]]
  /\ UNCHANGED <<daemonUp, allow, closing, requests, slot, taken, ran>>

CmdNext ==
  \/ StartDaemon \/ BeginClosing \/ DaemonEnds \/ Serve \/ ReadCommandFile \/ FinishConsume
  \/ GoesStale \/ CmdTick
  \/ \E c \in Callers :
       \/ \E op \in Ops : \E token \in IF op = "config-write" THEN BOOLEAN ELSE {FALSE} :
            Dial(c, op, token)
       \/ TurnAway(c) \/ HandOff(c) \/ Busy(c) \/ DeliverReply(c) \/ ReplyTimesOut(c)
       \/ ShuttingDown(c) \/ ReadReply(c) \/ RootPath(c) \/ NoRoot(c) \/ Leave(c)

CmdSpec == CmdInit /\ [][CmdNext]_cmdVars

-----------------------------------------------------------------------------
\* What the CLI prints is what happened: told "ok", its command was carried out; told
\* of a refusal, it was not, nor will it be by another way.
AnswerIsTrue ==
  \A c \in Callers : call[c].phase = "done" =>
    /\ call[c].reply = "ok" => ran[c] > 0
    /\ call[c].reply = "refused" =>
         /\ ran[c] = 0 /\ c \notin {slot.by, taken.by}
         /\ \A i \in DOMAIN requests : requests[i] # c

\* A command is carried out twice only when its caller was let go while the run loop had
\* its request or had carried it out: the answer was late, or the daemon was closing or
\* died between the act and the answer, and the caller went on to its root path.
TwiceOnlyWithoutAnswer == \A c \in Callers : ran[c] > 1 => call[c].unanswered

\* What tryControl says of a transient answer, "not a decision: the server couldn't get
\* the request to the run loop": a caller that goes on to its root path after one has not
\* had its command carried out.
FallbackIsUnheard ==
  \A c \in Callers : call[c].phase = "root" /\ call[c].reply = "transient" => ran[c] = 0

\* A daemon acts on no command written before it started: not on one left by a crash, nor
\* on one written while none was running.
NothingFromBefore == taken # NoCommand => taken.thisRun

\* The configuration is changed over the socket only for a peer that proves it holds the
\* token, on a host that allows it, however long the request waited.
WritesAreProven ==
  [][\A c \in Callers :
       (call[c].op = "config-write" /\ ran'[c] > ran[c] /\ call[c].phase # "root")
         => call[c].token /\ "write" \in allow]_cmdVars

\* Nobody hangs up on an answer: the client waits longer than the server may take, so a
\* refusal is never mistaken for a daemon that is not there.
ClientOutwaitsServer ==
  \A c \in Callers : call[c].phase \in Connected => call[c].waited <= ClientDeadline

\* What the command channels promise.
CommandsPromise ==
  /\ [](/\ CmdTypeOK /\ AnswerIsTrue /\ TwiceOnlyWithoutAnswer /\ NothingFromBefore
        /\ ClientOutwaitsServer)
  /\ WritesAreProven
=============================================================================
