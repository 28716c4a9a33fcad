------------------------------ MODULE Instance ------------------------------
(***************************************************************************)
(* How many daemons there are: `dezhban run` and its single-instance lock, *)
(* the control socket each daemon publishes at one path, the exits of the  *)
(* process around the run loop (internal/svc), and `start`, `stop`,        *)
(* `restart`, `install` and `uninstall` against launchd, whose KeepAlive   *)
(* starts the daemon again whenever it is gone.  A booted-out job leaves   *)
(* launchd when its process ends.                                          *)
(***************************************************************************)
EXTENDS Naturals, FiniteSets

CONSTANT Daemons                  \* processes there may be

ASSUME InstanceAssumption == Daemons \cap {"nobody", "stale", "missing"} = {}

VARIABLES
  stage,             \* each process's: see Stages
  managed,           \* daemons launchd started, the others run from a shell
  lockedBy,          \* who holds dezhban.lock
  socketOf,          \* whose socket is at the path; "stale": a dead daemon's; "missing"
  server,            \* each control server: "off", "up", "checked": about to unlink
  self,              \* Server.self: whose socket each took for its own
  rulesIn,           \* dezhban's rules are in the firewall
  unit, job,         \* the plist; launchd's job: "out", "in", "leaving"
  verb, answer,      \* the command under way, and what the last one said
  lastListener,      \* history: the last daemon to publish
  unguarded,         \* history: a daemon went on without the lock
  overtaken          \* history: it published while another was not done with the path

processes == <<stage, managed, lockedBy, socketOf, server, self, rulesIn>>
manager == <<unit, job>>
instHistory == <<lastListener, unguarded, overtaken>>
instVars == <<processes, manager, verb, answer, instHistory>>

\* "naming": the socket is in place, its identity not read; "ending": the loop has returned.
Stages == {"gone", "locking", "listening", "naming", "enforcing", "ending", "stopping"}
Alive == {d \in Daemons : stage[d] # "gone"}
JobRuns == \E d \in Alive : d \in managed             \* a pid in launchctl print
Nobody == "nobody"

InstTypeOK ==
  /\ stage \in [Daemons -> Stages]
  /\ managed \subseteq Alive /\ Cardinality(managed) <= 1
  /\ lockedBy \in Alive \cup {Nobody}
  /\ socketOf \in Alive \cup {"stale", "missing"}
  /\ server \in [Daemons -> {"off", "up", "checked"}]
  /\ self \in [Daemons -> Alive \cup {"stale", Nobody}]
  /\ {rulesIn, unit, unguarded, overtaken} \subseteq BOOLEAN
  /\ job \in {"out", "in", "leaving"} /\ (JobRuns => job # "out")
  /\ verb \in {"none", "restarting"}
  /\ answer \in {"none", "stopped", "started", "restarted", "failed"}
  /\ lastListener \in Daemons \cup {Nobody}

InstInit ==
  /\ stage = [d \in Daemons |-> "gone"] /\ managed = {} /\ lockedBy = Nobody
  /\ socketOf = "missing" /\ rulesIn = FALSE
  /\ server = [d \in Daemons |-> "off"] /\ self = [d \in Daemons |-> Nobody]
  /\ unit = FALSE /\ job = "out" /\ verb = "none" /\ answer = "none"
  /\ lastListener = Nobody /\ unguarded = FALSE /\ overtaken = FALSE

-----------------------------------------------------------------------------
\* The sockets of the dead are not told apart.
WithoutName(gone) ==
  [e \in Daemons |-> IF e \in gone THEN Nobody ELSE IF self[e] \in gone THEN "stale" ELSE self[e]]

\* A process ends: the kernel takes its lock back, launchd drops a job it was asked
\* to drop; a socket it has not unlinked stays at the path.
Ends(d) ==
  /\ stage' = [stage EXCEPT ![d] = "gone"]
  /\ managed' = managed \ {d} /\ server' = [server EXCEPT ![d] = "off"]
  /\ self' = WithoutName({d})
  /\ socketOf' = IF socketOf = d THEN "stale" ELSE socketOf
  /\ lockedBy' = IF lockedBy = d THEN Nobody ELSE lockedBy
  /\ job' = IF d \in managed /\ job = "leaving" THEN "out" ELSE job
  /\ lastListener' = IF lastListener = d THEN Nobody ELSE lastListener
  /\ UNCHANGED <<unit, verb, answer, unguarded, overtaken>>

\* Whoever dies without its teardown leaves its rules.
Dies(d) == Ends(d) /\ UNCHANGED rulesIn

Spawned(d) ==
  /\ stage[d] = "gone"
  /\ stage' = [stage EXCEPT ![d] = "locking"]
  /\ UNCHANGED <<lockedBy, socketOf, server, self, rulesIn>>

RunFromShell(d) ==
  /\ Spawned(d)
  /\ UNCHANGED <<managed, manager, verb, answer, instHistory>>

\* KeepAlive, and RunAtLoad.
Respawn(d) ==
  /\ job = "in" /\ ~JobRuns
  /\ Spawned(d) /\ managed' = managed \cup {d}
  /\ UNCHANGED <<manager, verb, answer, instHistory>>

\* Slip: whatever the lock's failure, it is a warning.
WarnAndGoOn(d) ==
  /\ stage[d] = "locking"
  /\ stage' = [stage EXCEPT ![d] = "listening"]
  /\ lockedBy' = IF lockedBy = Nobody THEN d ELSE lockedBy
  /\ UNCHANGED <<managed, socketOf, server, self, rulesIn, manager, verb, answer, instHistory>>

\* acquireRunLock: held by another daemon, this one refuses to start.
AcquireRunLock(d) ==
  /\ stage[d] = "locking" /\ lockedBy = Nobody
  /\ stage' = [stage EXCEPT ![d] = "listening"] /\ lockedBy' = d
  /\ UNCHANGED <<managed, socketOf, server, self, rulesIn, manager, verb, answer, instHistory>>
RefusedByLock(d) ==
  /\ stage[d] = "locking" /\ lockedBy # Nobody
  /\ Dies(d)

\* Any other failure of the lock does not keep the kill switch from starting.
LockUnavailable(d) ==
  /\ stage[d] = "locking"
  /\ stage' = [stage EXCEPT ![d] = "listening"] /\ unguarded' = TRUE
  /\ UNCHANGED <<managed, lockedBy, socketOf, server, self, rulesIn, manager, verb, answer, lastListener,
                 overtaken>>

\* The options cannot be assembled.
BuildFails(d) == stage[d] = "listening" /\ Dies(d)

\* listenSecure renames the socket over whatever is at the path, ...
ListenSecure(d) ==
  /\ stage[d] = "listening"
  /\ stage' = [stage EXCEPT ![d] = "naming"]
  /\ socketOf' = d /\ lastListener' = d
  /\ overtaken' = \E e \in Daemons : stage[e] = "naming" \/ server[e] = "checked"
  /\ UNCHANGED <<managed, lockedBy, server, self, rulesIn, manager, verb, answer, unguarded>>

\* ... and New takes what it finds there then for its own, or goes without; with no
\* socket at all, because it failed or is off, the daemon goes on as well.  Then the
\* accept goroutine and the run loop's first Apply.
StartLoop(d, known) ==
  /\ stage[d] \in {"listening", "naming"}
  /\ stage' = [stage EXCEPT ![d] = "enforcing"] /\ rulesIn' = TRUE
  /\ IF stage[d] = "listening" THEN UNCHANGED <<server, self>>
     ELSE /\ server' = [server EXCEPT ![d] = "up"]
          /\ self' = [self EXCEPT ![d] = IF known /\ socketOf # "missing" THEN socketOf ELSE Nobody]
  /\ UNCHANGED <<managed, lockedBy, socketOf, manager, verb, answer, instHistory>>

Crash(d) == stage[d] # "gone" /\ Dies(d)

\* The run loop returns on its own: a startup refusal or a failure.
LoopEnds(d) ==
  /\ stage[d] = "enforcing"
  /\ stage' = [stage EXCEPT ![d] = "ending"]
  /\ UNCHANGED <<managed, lockedBy, socketOf, server, self, rulesIn, manager, verb, answer,
                 instHistory>>

\* Slip: whatever is at the path is unlinked.
AnySocket(d) == socketOf # "missing"

\* os.SameFile of the path as it is and Server.self.
SameFile(d) == self[d] = socketOf

\* Server.Stop, as soon as the daemon is told to stop, or before its loop's teardown:
\* the listener is closed and the path looked at, ...
CheckSocket(d) ==
  /\ stage[d] \in {"ending", "stopping"} /\ server[d] = "up"
  /\ server' = [server EXCEPT ![d] = IF SameFile(d) THEN "checked" ELSE "off"]
  /\ self' = [self EXCEPT ![d] = Nobody]
  /\ lastListener' = IF lastListener = d THEN Nobody ELSE lastListener
  /\ UNCHANGED <<stage, managed, lockedBy, socketOf, rulesIn, manager, verb, answer, unguarded,
                 overtaken>>

\* ... and then unlinked, whatever is there by now.
RemoveSocket(d) ==
  /\ server[d] = "checked"
  /\ server' = [server EXCEPT ![d] = "off"] /\ socketOf' = "missing"
  /\ UNCHANGED <<stage, managed, lockedBy, self, rulesIn, manager, verb, answer, instHistory>>

\* runner.Run's deferred teardown, which comes after the server's Stop, and the end of
\* the process.
TearDownAndExit(d) ==
  /\ stage[d] \in {"ending", "stopping"} /\ server[d] = "off"
  /\ rulesIn' = FALSE
  /\ Ends(d)

\* A signal from a terminal, launchd's or the system's shutdown.
Terminate(d) ==
  /\ stage[d] \in {"enforcing", "ending"}
  /\ stage' = [stage EXCEPT ![d] = "stopping"]
  /\ UNCHANGED <<managed, lockedBy, socketOf, server, self, rulesIn, manager, verb, answer,
                 instHistory>>

\* Slip: a teardown that hangs is waited for.
WaitForTeardown(d) == FALSE /\ Dies(d)

\* Stop waits stopTimeout for the teardown, and then exits without it.
StopTimesOut(d) == stage[d] = "stopping" /\ Dies(d)

-----------------------------------------------------------------------------
\* launchctl bootout: the process is told to stop, and the job goes with it.  One that
\* has not taken over its signals is gone at once.
Bootout ==
  LET ends == {d \in managed : stage[d] \in {"locking", "listening", "naming"}}
  IN  /\ stage' = [d \in Daemons |-> IF d \in ends THEN "gone"
                                     ELSE IF d \in managed THEN "stopping" ELSE stage[d]]
      /\ managed' = managed \ ends
      /\ lockedBy' = IF lockedBy \in ends THEN Nobody ELSE lockedBy
      /\ job' = IF managed' = {} THEN "out" ELSE "leaving"
      /\ socketOf' = IF socketOf \in ends THEN "stale" ELSE socketOf
      /\ self' = WithoutName(ends)
      /\ lastListener' = IF lastListener \in ends THEN Nobody ELSE lastListener
      /\ UNCHANGED <<server, rulesIn, unguarded, overtaken>>

\* Slip: a job without a process has been stopped.
StoppedWhenIdle == ~JobRuns

\* What lets serviceAction leave a stop undone: launchd does not hold the job.
AlreadyStopped == ~JobRuns /\ job = "out"

Stop ==
  /\ verb = "none"
  /\ IF AlreadyStopped THEN UNCHANGED <<processes, job, instHistory>> ELSE Bootout
  /\ answer' = "stopped"
  /\ UNCHANGED <<unit, verb>>

\* serviceAction's start: nothing to do where the job runs, else kickstart or bootstrap
\* (launchd then spawns, Respawn).
StartJob == IF JobRuns THEN UNCHANGED job ELSE job' = "in"

Start ==
  /\ verb = "none"
  /\ IF unit \/ JobRuns THEN StartJob /\ answer' = "started"
     ELSE UNCHANGED job /\ answer' = "failed"
  /\ UNCHANGED <<processes, unit, verb, instHistory>>

\* cmdRestart: the stop, the wait for it, the start.
Restart ==
  /\ verb = "none" /\ unit
  /\ IF AlreadyStopped THEN UNCHANGED <<processes, job, instHistory>> ELSE Bootout
  /\ verb' = "restarting" /\ answer' = "none"
  /\ UNCHANGED unit

\* Slip: the stop is taken at its word.
StartAtOnce ==
  /\ verb = "restarting"
  /\ StartJob /\ verb' = "none" /\ answer' = "restarted"
  /\ UNCHANGED <<processes, unit, instHistory>>

StartAgain ==
  /\ verb = "restarting" /\ ~JobRuns
  /\ StartJob /\ verb' = "none" /\ answer' = "restarted"
  /\ UNCHANGED <<processes, unit, instHistory>>
GiveUpRestart ==
  /\ verb = "restarting" /\ JobRuns
  /\ verb' = "none" /\ answer' = "failed"
  /\ UNCHANGED <<processes, manager, instHistory>>

\* kardianos renders the plist, once; uninstall boots the job out first.
InstallUnit ==
  /\ verb = "none" /\ ~unit
  /\ unit' = TRUE
  /\ UNCHANGED <<processes, job, verb, answer, instHistory>>
Uninstall ==
  /\ verb = "none" /\ unit
  /\ unit' = FALSE /\ answer' = "stopped"
  /\ IF job = "out" THEN UNCHANGED <<processes, job, instHistory>> ELSE Bootout
  /\ UNCHANGED verb

InstNext ==
  \/ \E d \in Daemons :
       \/ RunFromShell(d) \/ Respawn(d)
       \/ AcquireRunLock(d) \/ RefusedByLock(d) \/ LockUnavailable(d)
       \/ BuildFails(d) \/ ListenSecure(d) \/ \E known \in BOOLEAN : StartLoop(d, known)
       \/ Crash(d) \/ LoopEnds(d) \/ Terminate(d) \/ CheckSocket(d) \/ RemoveSocket(d)
       \/ TearDownAndExit(d) \/ StopTimesOut(d)
  \/ Stop \/ Start \/ Restart \/ StartAgain \/ GiveUpRestart \/ InstallUnit \/ Uninstall

\* Stop's timer fires.
InstFairness == \A d \in Daemons : WF_instVars(StopTimesOut(d))

InstSpec == InstInit /\ [][InstNext]_instVars /\ InstFairness

-----------------------------------------------------------------------------
\* One firewall, one daemon: while every daemon got the lock it asked for, at most one
\* enforces, and its rules are in place (no other daemon's teardown takes them away).
OneEnforcer ==
  ~unguarded =>
    /\ Cardinality({d \in Daemons : stage[d] \in {"enforcing", "ending", "stopping"}}) <= 1
    /\ \A d \in Daemons : stage[d] = "enforcing" => rulesIn

\* A daemon on its way out never takes the socket of the one that replaced it: the last
\* to listen can be reached for as long as it lives.  Where every daemon got the lock it
\* asked for that is always so; where one went on without it, so long as the last to
\* listen did not put its socket in place just between the two steps in which another
\* names its own or unlinks it.
LastListenerIsReachable ==
  lastListener # Nobody /\ (unguarded => ~overtaken) => socketOf = lastListener

\* What Server.Stop says of itself, "remove only what we published": what it unlinks is its
\* own socket, or one a dead daemon left.
OnlyItsOwnSocketIsRemoved ==
  [][\A d \in Daemons : RemoveSocket(d) => socketOf \notin Alive \ {d}]_instVars

\* `stop` means stopped: from its success until something starts the service, launchd
\* spawns no daemon, not even one that was crash-looping.
StopIsFinal ==
  [][answer = "stopped" /\ answer' = "stopped"
       => \A d \in Daemons : stage[d] = "gone" => d \notin managed']_instVars

\* A restart that reports success has the job loaded, and no daemon of before it counts
\* as the running one.
RestartIsAStart ==
  [][answer # "restarted" /\ answer' = "restarted"
       => job' = "in" /\ \A d \in managed' : stage'[d] # "stopping"]_instVars

\* A daemon told to stop ends, even when its teardown hangs: launchd never counts a
\* zombie as the running service.
NoZombie == \A d \in Daemons : stage[d] = "stopping" ~> stage[d] = "gone"

\* What the lock, the socket and the service's verbs promise together.
ServicePromise ==
  /\ [](InstTypeOK /\ OneEnforcer /\ LastListenerIsReachable)
  /\ StopIsFinal /\ RestartIsAStart /\ NoZombie
=============================================================================
