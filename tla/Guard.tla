------------------------------- MODULE Guard --------------------------------
(***************************************************************************)
(* The run loop of internal/runner (runGuard): the one goroutine that      *)
(* installs firewall rules.  Every select case is an action; a case that   *)
(* waits for the network between reading its inputs and acting on them is  *)
(* two actions with `pc' remembering where the loop is, so the commands    *)
(* that work beside the daemon (panic, a direct unblock or block, another  *)
(* program flushing the firewall) can fall in between.                     *)
(*                                                                         *)
(* Rules are modelled by the posture they enforce; country codes by the    *)
(* side of the blocklist they fall on; tunnels and endpoints by whether    *)
(* any is known.  Durations are left to the modules SwitchWindow and       *)
(* RedialLedger: here a timer may fire whenever it is armed, and what the  *)
(* redial ledger answers is a nondeterministic choice.                     *)
(***************************************************************************)
EXTENDS Hysteresis

CONSTANTS
  Configs,           \* live configurations a (re)load may adopt
  Thresholds,        \* values of `hysteresis' a (re)load may adopt
  Clients,           \* how commands reach the loop: "socket", "file"
  Outsiders,         \* what acts beside the daemon: "panic", "unblock", "block", "flush"
  Faults,            \* what may fail: "apply" (Backend), "cleanup", "marker"
  WindowRestricted,  \* vpn.windowProtos / windowPorts narrow the window
  ProviderAddrs,     \* what startup may learn of the geo providers: "none", "live"
  Rotation           \* whether the providers' addresses may change later

ASSUME ConfigAssumption ==
  /\ Configs # {}
  /\ Configs \subseteq [redial : BOOLEAN, liveness : BOOLEAN, autoArm : BOOLEAN]
ASSUME ThresholdsAssumption == Thresholds # {} /\ Thresholds \subseteq Nat
ASSUME FlagsAssumption ==
  /\ WindowRestricted \in BOOLEAN
  /\ ProviderAddrs \subseteq {"none", "live"} /\ ProviderAddrs # {}
  /\ Rotation \in BOOLEAN

VARIABLES
  rules,             \* what the firewall enforces now
  marker,            \* the panic-disarm marker file exists
  cli,               \* the command half-way through beside the daemon
  pc,                \* where the run loop is
  cfg, standby, blocked, manualBlock, enfErr,
  window,            \* the open window's trigger, or "closed"
  windowPrevBlocked,
  closeProbe,        \* the early-close probe is in flight
  discovered,        \* lastSet holds a socket-discovered endpoint
  tunnels,           \* len(tunnels) > 0
  tunnelUp, sawTunnelUp,
  holdArmed, redialRefused,
  retryArmed,        \* redialRetryC # nil
  zombieChecks, zombieShown, zombieRedialTried, zombieHoldSuppressed,
  decider,
  providers          \* the providers' addresses passed in FULL BLOCK: none, or
                     \* some that are "live" or that rotation has made "stale"

outside  == <<marker, cli>>
posture  == <<standby, blocked, manualBlock>>
windowVs == <<window, windowPrevBlocked>>
probeVs  == <<closeProbe, discovered>>
tunnelVs == <<tunnels, tunnelUp, sawTunnelUp>>
redialVs == <<redialRefused, retryArmed>>
zombieVs == <<zombieChecks, zombieShown, zombieRedialTried, zombieHoldSuppressed>>
vars == <<rules, outside, pc, cfg, posture, enfErr, windowVs, probeVs, tunnelVs,
          holdArmed, redialVs, zombieVs, decider, providers>>

Policies == {"none", "guard", "full", "window"}
Triggers == {"manual", "auto", "pause"}
Readable == {"startup", "geo", "lifted"}     \* waiting for an exit lookup

TypeOK ==
  /\ rules \in Policies
  /\ marker \in BOOLEAN /\ cli \in {"idle", "panic", "unblock", "block"}
  /\ pc \in {"down", "select", "arming"} \cup Readable
  /\ cfg \in Configs
  /\ standby \in BOOLEAN /\ blocked \in BOOLEAN /\ manualBlock \in BOOLEAN
  /\ enfErr \in BOOLEAN
  /\ window \in Triggers \cup {"closed"} /\ windowPrevBlocked \in BOOLEAN
  /\ closeProbe \in BOOLEAN /\ discovered \in BOOLEAN
  /\ tunnels \in BOOLEAN /\ tunnelUp \in BOOLEAN /\ sawTunnelUp \in BOOLEAN
  /\ holdArmed \in BOOLEAN /\ redialRefused \in BOOLEAN /\ retryArmed \in BOOLEAN
  /\ zombieChecks \in Nat /\ zombieShown \in BOOLEAN
  /\ zombieRedialTried \in BOOLEAN /\ zombieHoldSuppressed \in BOOLEAN
  /\ decider \in Deciders
  /\ providers \in {"none", "live", "stale"}

WindowActive == window # "closed"

\* What the daemon reports, and means to enforce.
Posture == IF standby THEN "none"
           ELSE IF WindowActive THEN "window"
           ELSE IF blocked THEN "full" ELSE "guard"

-----------------------------------------------------------------------------
(* Talking to the firewall and to the state directory. *)

\* Whether one Backend call succeeds; a failed one leaves the old rules.
Outcome == IF "apply" \in Faults THEN BOOLEAN ELSE {TRUE}
CleanupOutcome == IF "cleanup" \in Faults THEN BOOLEAN ELSE {TRUE}

\* An explicit operator request clears the panic marker, best-effort.
ClearMarker ==
  marker' \in IF "marker" \in Faults THEN {FALSE, marker} ELSE {FALSE}

\* The rules after Backend.Apply(p) on rules r; "keep" stands for no call.
Applied(r, p, ok) == IF ok /\ p # "keep" THEN p ELSE r
ErrAfter(e, p, ok) == IF p = "keep" THEN e ELSE ~ok

\* Slip: a flag reload that knows only the window and the guard.
CurrentIgnoringBlock(force) ==
  CASE standby \/ marker -> "keep"
    [] ~standby /\ ~marker /\ WindowActive ->
         IF force \/ WindowRestricted THEN "window" ELSE "keep"
    [] OTHER -> "guard"

\* reapplyCurrent: the policy the present posture calls for.
CurrentPolicy(force) ==
  CASE standby \/ marker -> "keep"
    [] ~standby /\ ~marker /\ WindowActive ->
         IF force \/ WindowRestricted THEN "window" ELSE "keep"
    [] ~standby /\ ~marker /\ ~WindowActive /\ blocked -> "full"
    [] OTHER -> "guard"

\* reapplyStanding followed by reapplyWindow: neither touches a full block.
RefreshPolicy == IF CurrentPolicy(FALSE) = "full" THEN "keep" ELSE CurrentPolicy(FALSE)

Reapply(p, ok) ==
  /\ rules' = Applied(rules, p, ok)
  /\ enfErr' = ErrAfter(enfErr, p, ok)

-----------------------------------------------------------------------------
(* The pieces several handlers share. *)

ZombieEpisodeOpen == zombieShown \/ zombieRedialTried

\* Slips: the one attempt per streak is never given back; the count runs down.
TriedForGood(full) ==
  /\ zombieChecks' = 0 /\ zombieShown' = FALSE
  /\ UNCHANGED <<zombieRedialTried, zombieHoldSuppressed>>
CountedDown(full) ==
  /\ zombieChecks' = zombieChecks - 1 /\ zombieShown' = FALSE
  /\ zombieRedialTried' = (zombieRedialTried /\ ~full)
  /\ zombieHoldSuppressed' = (zombieHoldSuppressed /\ ~full)

ResetZombie(full) ==
  /\ zombieChecks' = 0
  /\ zombieShown' = FALSE
  /\ zombieRedialTried' = (zombieRedialTried /\ ~full)
  /\ zombieHoldSuppressed' = (zombieHoldSuppressed /\ ~full)

\* maybeStartCloseProbe, the last thing its callers do.
StartCloseProbe ==
  closeProbe' = (closeProbe \/ (window' # "closed" /\ tunnels' /\ ~marker /\ discovered'))

\* Slips: a window out of a full block; a window against a panic.
PossibleFromBlock == cfg.redial /\ ~WindowActive /\ ~standby /\ sawTunnelUp /\ ~marker
PossibleInPanic == cfg.redial /\ ~WindowActive /\ ~standby /\ ~blocked /\ sawTunnelUp

\* autoWindowPossible: healthy GUARD with a tunnel that has been seen up.
AutoWindowPossible ==
  cfg.redial /\ ~WindowActive /\ ~standby /\ ~blocked /\ sawTunnelUp /\ ~marker

\* What the redial ledger may answer: a slot, a refusal that names the instant
\* it lifts (a retry timer is armed), or one that names none.
LedgerAnswers == {"granted", "refusedUntil", "refused"}

\* grantAutoWindow once the window is possible.  base and err are the rules and
\* the error this handler has left so far, timer whether the retry timer still
\* runs at this point of it.
GrantAutoWindow(base, err, timer, answer, ok) ==
  IF answer = "granted"
  THEN /\ redialRefused' = FALSE
       /\ rules' = Applied(base, "window", ok)
       /\ enfErr' = ~ok
       /\ window' = IF ok THEN "auto" ELSE window
       /\ windowPrevBlocked' = IF ok THEN blocked ELSE windowPrevBlocked
       /\ retryArmed' = (timer /\ ~ok)
  ELSE /\ redialRefused' = TRUE
       /\ retryArmed' = (answer = "refusedUntil")
       /\ rules' = base /\ enfErr' = err
       /\ UNCHANGED windowVs

NoAutoWindow(base, err) ==
  /\ rules' = base /\ enfErr' = err
  /\ UNCHANGED <<windowVs, redialVs>>

\* retryAutoWindow: a standing refusal asks the ledger again.  timer, shown and
\* tried are the values its caller has left, hold whether the line is held.
RetryAutoWindow(timer, tried, hold, answer, ok) ==
  LET episode == zombieShown \/ tried
      noOp    == retryArmed' = timer /\ UNCHANGED <<rules, enfErr, windowVs, redialRefused>>
      drop    == /\ redialRefused' = FALSE /\ retryArmed' = FALSE
                 /\ UNCHANGED <<rules, enfErr, windowVs>>
  IN  CASE ~redialRefused \/ (tunnelUp /\ ~episode) -> noOp
        [] redialRefused /\ tunnelUp /\ episode /\ ~cfg.liveness -> drop
        [] OTHER -> IF hold THEN noOp
                    ELSE IF ~AutoWindowPossible THEN drop
                    ELSE GrantAutoWindow(rules, enfErr, timer, answer, ok)

-----------------------------------------------------------------------------
(* Starting and stopping. *)

Init ==
  /\ rules = "none" /\ marker = FALSE /\ cli = "idle" /\ pc = "down"
  /\ cfg \in Configs
  /\ standby = FALSE /\ blocked = FALSE /\ manualBlock = FALSE /\ enfErr = FALSE
  /\ window = "closed" /\ windowPrevBlocked = FALSE
  /\ closeProbe = FALSE /\ discovered = FALSE
  /\ tunnels = FALSE /\ tunnelUp = FALSE /\ sawTunnelUp = FALSE
  /\ holdArmed = FALSE /\ redialRefused = FALSE /\ retryArmed = FALSE
  /\ zombieChecks = 0 /\ zombieShown = FALSE
  /\ zombieRedialTried = FALSE /\ zombieHoldSuppressed = FALSE
  /\ \E h \in Thresholds : decider = NewDecider(h)
  /\ providers = "none"

\* Nothing but the firewall rules and the marker file outlives the process.
Forget ==
  /\ pc' = "down"
  /\ standby' = FALSE /\ blocked' = FALSE /\ manualBlock' = FALSE /\ enfErr' = FALSE
  /\ window' = "closed" /\ windowPrevBlocked' = FALSE
  /\ closeProbe' = FALSE /\ discovered' = FALSE
  /\ tunnels' = FALSE /\ tunnelUp' = FALSE /\ sawTunnelUp' = FALSE
  /\ holdArmed' = FALSE /\ redialRefused' = FALSE /\ retryArmed' = FALSE
  /\ ResetZombie(TRUE)
  /\ decider' = NewDecider(decider.need)
  /\ providers' = "none"
  /\ UNCHANGED cfg

\* A start that is not refused: standby without a tunnel under vpn.autoArm,
\* else the guard.  The startup lookup runs only with a tunnel and an endpoint.
Start(sb, names, endpoints, addrs, ok) ==
  /\ pc = "down"
  /\ sb => cfg.autoArm
  /\ (~sb /\ names) => endpoints        \* "refusing to start" otherwise
  /\ ~sb => ok                          \* likewise when the guard cannot be applied
  /\ ClearMarker
  /\ rules' = Applied(rules, IF sb THEN "none" ELSE "guard", ok)
  /\ standby' = sb
  /\ tunnelUp' = ~sb
  /\ tunnels' = names
  /\ providers' = addrs
  /\ discovered' \in IF endpoints THEN BOOLEAN ELSE {FALSE}
  /\ pc' = IF ~sb /\ names /\ ~marker' THEN "startup" ELSE "select"
  /\ UNCHANGED <<cli, cfg, blocked, manualBlock, enfErr, windowVs, closeProbe,
                 sawTunnelUp, holdArmed, redialVs, zombieVs, decider>>

\* A refused start, and a shutdown: Run's deferred Cleanup tears the rules down.
StartRefused(ok) ==
  /\ pc = "down"
  /\ ClearMarker
  /\ rules' = Applied(rules, "none", ok)
  /\ UNCHANGED <<cli, pc, cfg, posture, enfErr, windowVs, probeVs, tunnelVs,
                 holdArmed, redialVs, zombieVs, decider, providers>>

Stop(ok) ==
  /\ pc = "select"
  /\ rules' = Applied(rules, "none", ok)
  /\ Forget
  /\ UNCHANGED outside

\* The process dies: by design the rules stay.
Crash ==
  /\ pc # "down"
  /\ Forget
  /\ UNCHANGED <<rules, outside>>

-----------------------------------------------------------------------------
(* Observing the exit: geoTick, vpnGeoStep, probe. *)

\* Slip: the posture moves although the firewall refused its rules.
MoveAnyway(v, base, err, ok) ==
  LET d     == Evaluate(decider, v)
      want  == d.current = "block"
  IN  /\ decider' = d
      /\ blocked' = want
      /\ rules' = IF want # blocked THEN Applied(base, IF want THEN "full" ELSE "guard", ok)
                                   ELSE base
      /\ enfErr' = IF want # blocked THEN ~ok ELSE err

\* A successful reading moves the decider and, where the verdict it returns
\* differs from the posture, the posture.  base and err are what the probe left.
MoveOnReading(v, base, err, ok) ==
  LET d     == Evaluate(decider, v)
      want  == d.current = "block"
      moves == want # blocked
  IN  /\ decider' = d
      /\ blocked' = IF moves /\ ok THEN want ELSE blocked
      /\ rules' = IF moves THEN Applied(base, IF want THEN "full" ELSE "guard", ok)
                           ELSE base
      /\ enfErr' = IF moves THEN ~ok ELSE err

\* A tick that ends a zombie episode takes the refusal earned by it along.
EndZombieEpisode ==
  /\ redialRefused' = (redialRefused /\ ~ZombieEpisodeOpen)
  /\ retryArmed' = (retryArmed /\ ~(redialRefused /\ ZombieEpisodeOpen))
  /\ ResetZombie(TRUE)

\* Slips: the operator's hold forgotten; standby forgotten; a full block not
\* watched while the tunnel is down.
HoldForgotten == standby \/ WindowActive \/ marker \/ ~tunnels \/ (~tunnelUp /\ ~blocked)
StandbyForgotten ==
  WindowActive \/ manualBlock \/ marker \/ ~tunnels \/ (~tunnelUp /\ ~blocked)
DownIsDown ==
  standby \/ WindowActive \/ manualBlock \/ marker \/ ~tunnels \/ ~tunnelUp

GeoSuspended ==
  \/ standby \/ WindowActive \/ manualBlock \/ marker \/ ~tunnels
  \/ ~tunnelUp /\ ~blocked

\* geoTick while the state machine is suspended: only the zombie streak moves.
GeoTickSuspended ==
  /\ pc = "select" /\ GeoSuspended
  /\ ResetZombie(standby \/ ~WindowActive)
  /\ UNCHANGED <<rules, outside, pc, cfg, posture, enfErr, windowVs, probeVs,
                 tunnelVs, holdArmed, redialVs, decider, providers>>

\* geoTick starts a lookup: directly in GUARD, and in FULL BLOCK through the
\* tunnel-scoped provider passes.
GeoTickLookup ==
  /\ pc = "select" /\ ~GeoSuspended
  /\ ~blocked \/ providers # "none"
  /\ pc' = "geo"
  /\ UNCHANGED <<rules, outside, cfg, posture, enfErr, windowVs, probeVs, tunnelVs,
                 holdArmed, redialVs, zombieVs, decider, providers>>

\* Without provider passes the recovery probe lifts the block to look; a lift
\* that fails counts as a failed lookup and clears the enforcement error.
GeoTickLift(ok) ==
  /\ pc = "select" /\ ~GeoSuspended
  /\ blocked /\ providers = "none"
  /\ rules' = Applied(rules, "guard", ok)
  /\ IF ok THEN pc' = "lifted" /\ UNCHANGED <<enfErr, redialVs, zombieVs>>
           ELSE pc' = pc /\ enfErr' = FALSE /\ EndZombieEpisode
  /\ UNCHANGED <<outside, cfg, posture, windowVs, probeVs, tunnelVs, holdArmed,
                 decider, providers>>

\* The rules and the enforcement error once the probe has re-cut, if it had to.
Recut(ok) == IF pc = "lifted" THEN Applied(rules, "full", ok) ELSE rules
RecutErr(ok) == IF blocked THEN pc = "lifted" /\ ~ok ELSE enfErr

\* The lookup fails.  The posture holds; in GUARD with the tunnel up the failure
\* counts toward a zombie streak, which may ask for a redial window once.  The
\* count stops at the largest threshold: beyond it nothing depends on it.
LookupFailed(recut, answer, ok) ==
  LET checks == zombieChecks + IF \E h \in Thresholds \cup {1} : zombieChecks < h THEN 1 ELSE 0
      streak == checks >= decider.need
      tries  == streak /\ cfg.liveness /\ ~zombieRedialTried
  IN  /\ pc \in {"geo", "lifted"}
      /\ pc' = "select"
      /\ IF tunnelUp /\ ~blocked
         THEN /\ zombieChecks' = checks
              /\ zombieShown' = (zombieShown \/ streak)
              /\ zombieRedialTried' = (zombieRedialTried \/ tries)
              /\ zombieHoldSuppressed' =
                   (zombieHoldSuppressed \/ (tries /\ AutoWindowPossible /\ holdArmed))
              /\ IF tries /\ AutoWindowPossible /\ ~holdArmed
                 THEN GrantAutoWindow(rules, enfErr, retryArmed, answer, ok)
                 ELSE NoAutoWindow(rules, enfErr)
         ELSE /\ EndZombieEpisode
              /\ rules' = Recut(recut) /\ enfErr' = RecutErr(recut)
              /\ UNCHANGED windowVs
      /\ UNCHANGED <<outside, cfg, posture, probeVs, tunnelVs, holdArmed, decider,
                     providers>>

\* The lookup succeeds with raw verdict v; through a full block it reaches only
\* the addresses the block passes.
LookupSucceeded(v, recut, ok) ==
  /\ pc \in {"geo", "lifted"}
  /\ (blocked /\ pc = "geo") => providers = "live"
  /\ pc' = "select"
  /\ MoveOnReading(v, Recut(recut), RecutErr(recut), ok)
  /\ sawTunnelUp' = (sawTunnelUp \/ ~blocked')
  /\ EndZombieEpisode
  /\ UNCHANGED <<outside, cfg, standby, manualBlock, windowVs, probeVs, tunnels,
                 tunnelUp, holdArmed, providers>>

\* The startup lookup: no streak is kept, and with a watcher it does not count
\* as having seen the tunnel up.
StartupLookup(v, ok) ==
  /\ pc = "startup"
  /\ pc' = "select"
  /\ IF v = "error" THEN UNCHANGED <<decider, blocked, rules, enfErr>>
                    ELSE MoveOnReading(v, rules, enfErr, ok)
  /\ UNCHANGED <<outside, cfg, standby, manualBlock, windowVs, probeVs, tunnelVs,
                 holdArmed, redialVs, zombieVs, providers>>

-----------------------------------------------------------------------------
(* The tunnel watcher's samples.  An Unknown sample is dropped unread. *)

\* A sample with a tunnel up; changed says reconcileTunnels found a new set.
TunnelUpSample(changed, ok) ==
  /\ pc = "select"
  /\ tunnels \/ changed
  /\ tunnelUp' = TRUE /\ sawTunnelUp' = TRUE /\ tunnels' = TRUE
  /\ Reapply(IF changed THEN RefreshPolicy ELSE "keep", ok)
  /\ pc' = IF standby /\ ~marker THEN "arming" ELSE pc
  /\ redialRefused' = FALSE /\ retryArmed' = FALSE
  /\ holdArmed' = FALSE
  /\ UNCHANGED <<outside, cfg, posture, windowVs, discovered, zombieVs, decider,
                 providers>>
  /\ StartCloseProbe

\* Slip: every down sample counts as a drop.
EveryDownSample == AutoWindowPossible

\* The drop edge: the first sample with the tunnel down after one with it up.
DropEdge == tunnelUp /\ AutoWindowPossible

\* A sample with every tunnel down; the last known tunnel set is kept.  The drop
\* edge may open a redial window, unless the line is held, which spends the hold.
TunnelDownSample(changed, ok, answer, okWindow) ==
  LET p == IF changed THEN RefreshPolicy ELSE "keep"
  IN  /\ pc = "select"
      /\ changed => tunnels
      /\ tunnelUp' = FALSE
      /\ UNCHANGED <<tunnels, sawTunnelUp>>
      /\ ResetZombie(TRUE)
      /\ holdArmed' = (holdArmed /\ ~DropEdge)
      /\ IF DropEdge /\ ~holdArmed
         THEN GrantAutoWindow(Applied(rules, p, ok), ErrAfter(enfErr, p, ok),
                              retryArmed, answer, okWindow)
         ELSE NoAutoWindow(Applied(rules, p, ok), ErrAfter(enfErr, p, ok))
      /\ UNCHANGED <<outside, pc, cfg, posture, discovered, decider, providers>>
      /\ StartCloseProbe

\* tryAutoArm once the endpoints have been resolved: the guard replaces standby.
FinishAutoArm(known, ok) ==
  /\ pc = "arming"
  /\ pc' = "select"
  /\ discovered' \in IF known THEN BOOLEAN ELSE {FALSE}
  /\ Reapply(IF known THEN "guard" ELSE "keep", ok)
  /\ standby' = ~(known /\ ok)
  /\ UNCHANGED <<outside, cfg, blocked, manualBlock, windowVs, closeProbe, tunnelVs,
                 holdArmed, redialVs, zombieVs, decider, providers>>

-----------------------------------------------------------------------------
(* Windows: the switch window, the automatic redial window and the pause. *)

\* Slip: an explicit window leaves the refusal and its timer standing.
OpenBesideRefusal(trigger, ok) ==
  /\ ClearMarker
  /\ rules' = IF WindowActive THEN rules ELSE Applied(rules, "window", ok)
  /\ enfErr' = IF WindowActive THEN enfErr ELSE ~ok
  /\ window' = IF WindowActive \/ ok THEN trigger ELSE window
  /\ windowPrevBlocked' = IF ~WindowActive /\ ok THEN blocked ELSE windowPrevBlocked
  /\ UNCHANGED redialVs

\* openWindow for an explicit trigger: extends what is open (a switch takes an
\* automatic window over), or relaxes the guard and remembers what lay beneath.
OpenWindow(trigger, ok) ==
  /\ ClearMarker
  /\ IF WindowActive
     THEN /\ window' = IF trigger = "manual" THEN trigger ELSE window
          /\ UNCHANGED <<rules, enfErr, windowPrevBlocked, redialVs>>
     ELSE /\ rules' = Applied(rules, "window", ok)
          /\ enfErr' = ~ok
          /\ window' = IF ok THEN trigger ELSE window
          /\ windowPrevBlocked' = IF ok THEN blocked ELSE windowPrevBlocked
          /\ redialRefused' = (redialRefused /\ ~ok)
          /\ retryArmed' = (retryArmed /\ ~ok)

\* Slip: every window reverts to the guard.
CloseToGuard(explicit, ok) ==
  /\ IF explicit THEN ClearMarker ELSE UNCHANGED marker
  /\ rules' = Applied(rules, "guard", ok) /\ enfErr' = ~ok
  /\ window' = IF ok THEN "closed" ELSE window
  /\ blocked' = (blocked /\ ~ok)

\* closeWindowRevert: back to the posture beneath the window.  A deadline that
\* passes while panic has disarmed the daemon closes the books and no more; a
\* revert that fails holds the window open and is retried.
CloseWindow(explicit, ok) ==
  /\ IF explicit THEN ClearMarker ELSE UNCHANGED marker
  /\ IF marker /\ ~explicit
     THEN /\ window' = "closed" /\ blocked' = windowPrevBlocked
          /\ enfErr' = FALSE
          /\ UNCHANGED rules
     ELSE /\ rules' = Applied(rules, IF windowPrevBlocked THEN "full" ELSE "guard", ok)
          /\ enfErr' = ~ok
          /\ window' = IF ok THEN "closed" ELSE window
          /\ blocked' = IF ok THEN windowPrevBlocked ELSE blocked

\* `switch' over the control socket takes over from a manual block ...
SocketOpenSwitch(ok) ==
  /\ pc = "select" /\ "socket" \in Clients
  /\ ~standby /\ window # "pause"
  /\ OpenWindow("manual", ok)
  /\ manualBlock' = (manualBlock /\ window' = "closed")
  /\ UNCHANGED <<cli, pc, cfg, standby, blocked, probeVs, tunnelVs, holdArmed,
                 zombieVs, decider, providers>>

\* ... and through the command file it leaves the hold of one in place.
FileOpenSwitch(ok) ==
  /\ pc = "select" /\ "file" \in Clients
  /\ ~standby /\ window # "pause"
  /\ OpenWindow("manual", ok)
  /\ UNCHANGED <<cli, pc, cfg, posture, probeVs, tunnelVs, holdArmed, zombieVs,
                 decider, providers>>

SocketPause(ok) ==
  /\ pc = "select" /\ "socket" \in Clients
  /\ ~standby /\ window \in {"closed", "pause"}
  /\ OpenWindow("pause", ok)
  /\ manualBlock' = (manualBlock /\ window' = "closed")
  /\ UNCHANGED <<cli, pc, cfg, standby, blocked, probeVs, tunnelVs, holdArmed,
                 zombieVs, decider, providers>>

\* A pause through the command file drops the hold whether or not it opened.
FilePause(ok) ==
  /\ pc = "select" /\ "file" \in Clients
  /\ ~standby /\ window \in {"closed", "pause"}
  /\ OpenWindow("pause", ok)
  /\ manualBlock' = FALSE
  /\ UNCHANGED <<cli, pc, cfg, standby, blocked, probeVs, tunnelVs, holdArmed,
                 zombieVs, decider, providers>>

\* `switch --cancel' and `resume', by either way in: each closes only its own.
CancelWindow(ok) ==
  /\ pc = "select" /\ Clients # {}
  /\ WindowActive
  /\ CloseWindow(TRUE, ok)
  /\ UNCHANGED <<cli, pc, cfg, standby, manualBlock, windowPrevBlocked, probeVs,
                 tunnelVs, holdArmed, redialVs, zombieVs, decider, providers>>

\* Slip: a window is not closed while the tunnel it waits for is down.
TimerWaitsForTunnel(ok) ==
  /\ pc = "select" /\ WindowActive /\ tunnelUp
  /\ CloseWindow(FALSE, ok)
  /\ UNCHANGED <<cli, pc, cfg, standby, manualBlock, windowPrevBlocked, probeVs,
                 tunnelVs, holdArmed, redialVs, zombieVs, decider, providers>>

WindowTimer(ok) ==
  /\ pc = "select" /\ WindowActive
  /\ CloseWindow(FALSE, ok)
  /\ UNCHANGED <<cli, pc, cfg, standby, manualBlock, windowPrevBlocked, probeVs,
                 tunnelVs, holdArmed, redialVs, zombieVs, decider, providers>>

\* The early-close probe answers; allowed is a reading of an exit not blocked.
\* It ends whatever window is open by now, on to GUARD, if its evidence stands.
FinishCloseProbe(allowed, ok) ==
  LET closes == WindowActive /\ tunnels /\ ~marker /\ discovered /\ allowed
  IN  /\ pc = "select" /\ closeProbe
      /\ closeProbe' = FALSE
      /\ Reapply(IF closes THEN "guard" ELSE "keep", ok)
      /\ window' = IF closes /\ ok THEN "closed" ELSE window
      /\ blocked' = (blocked /\ ~(closes /\ ok))
      /\ UNCHANGED <<outside, pc, cfg, standby, manualBlock, windowPrevBlocked,
                     discovered, tunnelVs, holdArmed, redialVs, zombieVs, decider,
                     providers>>

\* winDiscTick: look for the VPN's own sockets while the window is open.
WindowDiscovery(found, changed, ok) ==
  /\ pc = "select" /\ WindowActive
  /\ discovered' = found
  /\ Reapply(IF changed THEN RefreshPolicy ELSE "keep", ok)
  /\ UNCHANGED <<outside, pc, cfg, posture, windowVs, tunnelVs, holdArmed, redialVs,
                 zombieVs, decider, providers>>
  /\ StartCloseProbe

-----------------------------------------------------------------------------
(* Manual block, hold the line, reload. *)

\* Slip: only a block that is new counts as the operator's.
BlockAnew(ok) ==
  /\ pc = "select" /\ "socket" \in Clients
  /\ ~WindowActive
  /\ ClearMarker
  /\ Reapply(IF blocked THEN "keep" ELSE "full", ok)
  /\ blocked' = (blocked \/ ok)
  /\ manualBlock' = (~blocked /\ ok)
  /\ standby' = (standby /\ (blocked \/ ~ok))
  /\ IF blocked \/ ~ok THEN UNCHANGED zombieVs ELSE ResetZombie(TRUE)
  /\ UNCHANGED <<cli, pc, cfg, windowVs, probeVs, tunnelVs, holdArmed, redialVs,
                 decider, providers>>

\* A block the operator asks for is the operator's, whoever cut the line first.
SocketBlock(ok) ==
  /\ pc = "select" /\ "socket" \in Clients
  /\ ~WindowActive
  /\ ClearMarker
  /\ Reapply(IF blocked THEN "keep" ELSE "full", ok)
  /\ blocked' = (blocked \/ ok)
  /\ manualBlock' = (manualBlock \/ blocked \/ ok)
  /\ standby' = (standby /\ (blocked \/ ~ok))
  /\ IF blocked \/ ~ok THEN UNCHANGED zombieVs ELSE ResetZombie(TRUE)
  /\ UNCHANGED <<cli, pc, cfg, windowVs, probeVs, tunnelVs, holdArmed, redialVs,
                 decider, providers>>

\* With the tunnel down and vpn.autoArm on, unblocking releases the line to
\* standby; otherwise it restores the guard, if there was a block to lift.
SocketUnblock(ok) ==
  LET release == cfg.autoArm /\ ~tunnelUp /\ ~standby
  IN  /\ pc = "select" /\ "socket" \in Clients
      /\ ~WindowActive
      /\ ClearMarker
      /\ manualBlock' = FALSE
      /\ Reapply(IF release THEN "none" ELSE IF blocked THEN "guard" ELSE "keep", ok)
      /\ standby' = (standby \/ (release /\ ok))
      /\ blocked' = (blocked /\ ~ok)
      /\ IF release /\ ok THEN ResetZombie(TRUE) ELSE UNCHANGED zombieVs
      /\ UNCHANGED <<cli, pc, cfg, windowVs, probeVs, tunnelVs, holdArmed, redialVs,
                     decider, providers>>

\* Arming and disarming work the same over the socket and the command file.
HoldArm ==
  /\ pc = "select" /\ Clients # {}
  /\ cfg.redial
  /\ holdArmed' = TRUE
  /\ UNCHANGED <<rules, outside, pc, cfg, posture, enfErr, windowVs, probeVs,
                 tunnelVs, redialVs, zombieVs, decider, providers>>

\* Disarming resumes what the hold kept from happening (resumeRedialRetry): a
\* suppressed liveness attempt is due again, and a refusal left without a retry
\* timer asks at once.
HoldCancel(answer, ok) ==
  LET tried == zombieRedialTried /\ ~zombieHoldSuppressed
  IN  /\ pc = "select" /\ Clients # {}
      /\ holdArmed
      /\ holdArmed' = FALSE
      /\ zombieHoldSuppressed' = FALSE
      /\ zombieRedialTried' = tried
      /\ IF retryArmed
         THEN NoAutoWindow(rules, enfErr)
         ELSE RetryAutoWindow(FALSE, tried, FALSE, answer, ok)
      /\ UNCHANGED <<outside, pc, cfg, posture, probeVs, tunnelVs, zombieChecks,
                     zombieShown, decider, providers>>

\* redialRetryC: the instant the standing refusal named has come.
RedialRetry(answer, ok) ==
  /\ pc = "select" /\ retryArmed
  /\ RetryAutoWindow(FALSE, zombieRedialTried, holdArmed, answer, ok)
  /\ UNCHANGED <<outside, pc, cfg, posture, probeVs, tunnelVs, holdArmed, zombieVs,
                 decider, providers>>

\* applyLive.  A new decider comes only with a new country list or threshold;
\* flags says the reload changed a rule flag, so the rules are applied again.
Reload(c, flags, ok) ==
  /\ pc = "select"
  /\ cfg' = c
  /\ decider' \in {decider} \cup {NewDecider(h) : h \in Thresholds}
  /\ redialRefused' = (redialRefused /\ c.redial)
  /\ retryArmed' = (retryArmed /\ ~(redialRefused /\ ~c.redial))
  /\ Reapply(IF flags THEN CurrentPolicy(FALSE) ELSE "keep", ok)
  /\ UNCHANGED <<outside, pc, posture, windowVs, probeVs, tunnelVs, holdArmed,
                 zombieVs, providers>>

-----------------------------------------------------------------------------
(* Verification and the endpoint refresh. *)

\* Slip: a repair that is left to the geo ticks in a full block.
VerifyOutsideBlock(ok) ==
  /\ pc = "select"
  /\ ~standby /\ ~marker /\ ~blocked /\ rules = "none"
  /\ Reapply(CurrentPolicy(TRUE), ok)
  /\ UNCHANGED <<outside, pc, cfg, posture, windowVs, probeVs, tunnelVs, holdArmed,
                 redialVs, zombieVs, decider, providers>>

\* verifyC: rules found missing are put back, window included.  A read error or
\* rules that are present change nothing here.
VerifyTick(ok) ==
  /\ pc = "select"
  /\ ~standby /\ ~marker /\ rules = "none"
  /\ Reapply(CurrentPolicy(TRUE), ok)
  /\ UNCHANGED <<outside, pc, cfg, posture, windowVs, probeVs, tunnelVs, holdArmed,
                 redialVs, zombieVs, decider, providers>>

\* Slip: standby is armed by the watcher or not at all.
NoSecondTry == FALSE

\* A standby daemon whose tunnel is up tries to arm again with every refresh.
ArmingDue == standby /\ tunnelUp /\ ~marker

\* epTick: the providers' addresses first (fresh: a non-empty set that differs),
\* then the endpoints (changed), then another try at arming.
EndpointRefresh(fresh, changed, found, ok, okChanged) ==
  LET p1 == IF ~fresh \/ marker THEN "keep"
            ELSE IF blocked THEN "full"
            ELSE IF WindowActive \/ standby THEN "keep" ELSE "guard"
      p2 == IF changed THEN RefreshPolicy ELSE "keep"
      e1 == IF p1 = "full" THEN enfErr ELSE ErrAfter(enfErr, p1, ok)
  IN  /\ pc = "select"
      /\ fresh => providers # "live"
      /\ providers' = IF fresh THEN "live" ELSE providers
      /\ discovered' = found
      /\ rules' = Applied(Applied(rules, p1, ok), p2, okChanged)
      /\ enfErr' = ErrAfter(e1, p2, okChanged)
      /\ pc' = IF ArmingDue THEN "arming" ELSE pc
      /\ UNCHANGED <<outside, cfg, posture, windowVs, closeProbe, tunnelVs, holdArmed,
                     redialVs, zombieVs, decider>>

-----------------------------------------------------------------------------
(* What acts beside the daemon, at any instant. *)

daemon == <<pc, cfg, posture, enfErr, windowVs, probeVs, tunnelVs, holdArmed,
            redialVs, zombieVs, decider, providers>>

\* `dezhban panic': the marker first, best-effort, then the teardown.
PanicMark ==
  /\ "panic" \in Outsiders /\ cli = "idle"
  /\ cli' = "panic"
  /\ marker' \in IF "marker" \in Faults THEN {TRUE, marker} ELSE {TRUE}
  /\ UNCHANGED <<rules, daemon>>

PanicCleanup(ok) ==
  /\ cli = "panic"
  /\ cli' = "idle" /\ rules' = Applied(rules, "none", ok)
  /\ UNCHANGED <<marker, daemon>>

\* `unblock --force', `block --force' and `block --guard': the rules first, then
\* the marker.
DirectRules ==
  /\ cli = "idle"
  /\ \/ "unblock" \in Outsiders /\ cli' = "unblock" /\ rules' = "none"
     \/ "block" \in Outsiders /\ cli' = "block" /\ rules' \in {"full", "guard"}
  /\ UNCHANGED <<marker, daemon>>

DirectClearMarker ==
  /\ cli \in {"unblock", "block"}
  /\ cli' = "idle" /\ ClearMarker
  /\ UNCHANGED <<rules, daemon>>

\* Another program, or an administrator, flushes the firewall.
RulesFlushed ==
  /\ "flush" \in Outsiders
  /\ rules' = "none"
  /\ UNCHANGED <<outside, daemon>>

\* The geo providers sit behind CDNs: their addresses change without notice.
ProvidersRotate ==
  /\ Rotation /\ providers = "live"
  /\ providers' = "stale"
  /\ UNCHANGED <<rules, outside, pc, cfg, posture, enfErr, windowVs, probeVs, tunnelVs,
                 holdArmed, redialVs, zombieVs, decider>>

-----------------------------------------------------------------------------
Beside ==
  \/ PanicMark \/ DirectRules \/ DirectClearMarker \/ RulesFlushed \/ ProvidersRotate
  \/ \E ok \in CleanupOutcome : PanicCleanup(ok)

Lifecycle ==
  \/ \E sb, names, endpoints \in BOOLEAN, addrs \in ProviderAddrs, ok \in Outcome :
       Start(sb, names, endpoints, addrs, ok)
  \/ \E ok \in CleanupOutcome : StartRefused(ok) \/ Stop(ok)
  \/ Crash

Observation ==
  \/ GeoTickSuspended \/ GeoTickLookup
  \/ \E ok \in Outcome : GeoTickLift(ok)
  \/ \E recut, ok \in Outcome, a \in LedgerAnswers : LookupFailed(recut, a, ok)
  \/ \E v \in Verdicts, recut, ok \in Outcome : LookupSucceeded(v, recut, ok)
  \/ \E v \in Verdicts \cup {"error"}, ok \in Outcome : StartupLookup(v, ok)

Watching ==
  \/ \E changed \in BOOLEAN, ok \in Outcome : TunnelUpSample(changed, ok)
  \/ \E changed \in BOOLEAN, ok, okWindow \in Outcome, a \in LedgerAnswers :
       TunnelDownSample(changed, ok, a, okWindow)
  \/ \E known \in BOOLEAN, ok \in Outcome : FinishAutoArm(known, ok)

Windows ==
  \/ \E ok \in Outcome :
       \/ SocketOpenSwitch(ok) \/ FileOpenSwitch(ok)
       \/ SocketPause(ok) \/ FilePause(ok)
       \/ CancelWindow(ok) \/ WindowTimer(ok)
  \/ \E allowed \in BOOLEAN, ok \in Outcome : FinishCloseProbe(allowed, ok)
  \/ \E found, changed \in BOOLEAN, ok \in Outcome : WindowDiscovery(found, changed, ok)

Operator ==
  \/ \E ok \in Outcome : SocketBlock(ok) \/ SocketUnblock(ok)
  \/ HoldArm
  \/ \E a \in LedgerAnswers, ok \in Outcome : HoldCancel(a, ok)
  \/ \E c \in Configs, flags \in BOOLEAN, ok \in Outcome : Reload(c, flags, ok)

Maintenance ==
  \/ \E a \in LedgerAnswers, ok \in Outcome : RedialRetry(a, ok)
  \/ \E ok \in Outcome : VerifyTick(ok)
  \/ \E fresh, changed, found \in BOOLEAN, ok, okChanged \in Outcome :
       EndpointRefresh(fresh, changed, found, ok, okChanged)

Next == Beside \/ Lifecycle \/ Observation \/ Watching \/ Windows \/ Operator
        \/ Maintenance

Spec == Init /\ [][Next]_vars

\* What the scheduling justifies: a lookup ends (its context has a deadline), the
\* loop's select picks uniformly among what is ready, so a ticker or an armed
\* timer is served again and again, and the firewall does not refuse for ever.
Fairness ==
  /\ WF_vars(\E recut, ok \in Outcome, a \in LedgerAnswers :
               \/ LookupFailed(recut, a, ok) \/ StartupLookup("error", ok)
               \/ FinishAutoArm(FALSE, ok))
  /\ SF_vars(WindowTimer(TRUE))
  /\ SF_vars(VerifyTick(TRUE))
  /\ SF_vars(\E found \in BOOLEAN : EndpointRefresh(FALSE, FALSE, found, TRUE, TRUE))
  /\ SF_vars(FinishAutoArm(TRUE, TRUE))
  /\ SF_vars(GeoTickLookup \/ GeoTickLift(TRUE))

FairSpec == Spec /\ Fairness

-----------------------------------------------------------------------------
(* What holds whenever the configurations that break it are left out; each   *)
(* run's configuration says which those are.                                 *)

\* How much of the host's egress a ruleset cuts.
Strictness(p) == CASE p = "none" -> 0 [] p = "window" -> 1
                   [] p = "guard" -> 2 [] OTHER -> 3

\* The kill switch fails closed: while no panic is in force the rules are never
\* laxer than the posture the daemon reports, unless it reports an enforcement
\* error too or something outside removed the rules altogether.  The lifted
\* recovery probe is the one documented exception (Options.probe).
FailClosed ==
  (/\ pc \notin {"down", "lifted"} /\ ~enfErr
   /\ ~marker /\ cli = "idle"
   /\ rules = "none" => Outsiders = {})
    => Strictness(rules) >= Strictness(Posture)

\* Run's promise is that a panic is never silently undone: a handler that starts
\* after the teardown, and is not an operator's explicit request, leaves the
\* network open for as long as the marker stands.
PanicRespected ==
  [][(marker /\ marker' /\ cli = "idle" /\ cli' = "idle" /\ rules = "none"
        /\ pc = "select") => rules' = "none"]_vars

\* An operator's manual block is in force until a window takes over from it or
\* an unblock releases it: no reading, tunnel event, reload or early close lifts
\* it, and it never coexists with standby.
ManualBlockHeld ==
  manualBlock => ~standby /\ (blocked \/ WindowActive)

\* The hold is released by an explicit unblock, by a window the operator opened
\* or with the process, and by nothing else.
ManualBlockReleased ==
  [][(manualBlock /\ ~manualBlock' /\ pc' # "down")
       => WindowActive' \/ \E ok \in Outcome : SocketUnblock(ok)]_vars

\* An automatic window opens only from healthy GUARD, with a tunnel once seen
\* up and now either down or hung, and never against a held line, a manual
\* block, a panic or vpn.redialWindow "0".
AutoWindowEarned ==
  [][(window' = "auto" /\ window # "auto")
       => /\ window = "closed" /\ cfg.redial
          /\ ~standby /\ ~blocked /\ ~manualBlock /\ ~marker
          /\ sawTunnelUp /\ (~tunnelUp' \/ (zombieRedialTried' \/ zombieShown'))
          /\ ~holdArmed']_vars

\* A window closes onto the posture beneath it; only the early close, whose exit
\* was verified, may turn a full block into GUARD, and only a full block that no
\* operator is holding.
WindowRevertsHome ==
  [][(WindowActive /\ ~WindowActive' /\ pc' # "down" /\ blocked' # blocked)
       => /\ closeProbe /\ ~closeProbe'
          /\ ~blocked' /\ ~manualBlock]_vars

\* An open window has answered whatever refusal stood before it: neither the
\* refusal nor its retry timer survives into the window, so no second automatic
\* window is asked for behind the first.
RefusalAnswered == WindowActive => ~redialRefused /\ ~retryArmed

\* The geo state machine is suspended in standby, in a window and under a manual
\* block: a lookup is never in flight in a posture it must not move.
LookupSuspended ==
  /\ pc \in Readable => ~standby /\ ~WindowActive /\ ~manualBlock
  /\ pc = "lifted" => blocked
  /\ pc = "arming" => standby

\* A zombie streak is a diagnosis of a tunnel that reports up: it never outlives
\* the tunnel or the guard, so a liveness redial is always for a live streak.
ZombieNeedsTunnel ==
  pc = "select" /\ ZombieEpisodeOpen => tunnelUp /\ ~blocked /\ ~standby

\* An automatic window never becomes the standing posture: it ends, or becomes
\* one an operator asked for, even when the revert fails and has to be retried.
AutoWindowEnds == window = "auto" ~> window # "auto"

\* Rules something removed are put back in every posture that has any, an
\* unrestricted window included, unless a panic or a shutdown comes first.
RulesRestored ==
  (pc = "select" /\ rules = "none" /\ Posture # "none" /\ ~marker)
    ~> (rules # "none" \/ Posture = "none" \/ marker \/ pc = "down")

\* Standby arms once a tunnel stays up, even if at its first attempt no endpoint
\* was known or the guard could not be applied.
StandbyArms ==
  (standby /\ tunnelUp) ~> (~standby \/ ~tunnelUp \/ marker)

\* A forbidden exit is not for ever: if from some point on every reading finds an
\* allowed exit and the firewall obeys, a FULL BLOCK over a tunnel that no operator is
\* holding is lifted, for every threshold and however the daemon came to be blocked.
ExitStaysGood ==
  <>[][/\ ~\E recut, ok \in Outcome, a \in LedgerAnswers : LookupFailed(recut, a, ok)
       /\ ~\E v \in Verdicts, recut, ok \in Outcome :
            LookupSucceeded(v, recut, ok) /\ (v = "block" \/ ~ok \/ ~recut)]_vars
BlockLifts ==
  ExitStaysGood =>
    ((blocked /\ tunnels /\ ~manualBlock)
       ~> (~blocked \/ manualBlock \/ WindowActive \/ marker))

-----------------------------------------------------------------------------
(* What the code's documentation says and its behaviour does not bear out. *)

\* modes.md: only a successful reading of a blocked country produces FULL BLOCK,
\* and only a successful reading of an allowed one restores GUARD.
OnlyAReadingOfItsKind ==
  [][\A v \in Verdicts :
       (\E recut, ok \in Outcome : LookupSucceeded(v, recut, ok))
         => /\ (~blocked /\ blocked') => v = "block"
            /\ (blocked /\ ~blocked') => v = "allow"]_vars

\* Run's contract, for the handlers that wait on the network as well.
PanicNeverUndone ==
  [][(marker /\ marker' /\ cli = "idle" /\ cli' = "idle" /\ rules = "none"
        /\ pc # "down") => rules' = "none"]_vars

=============================================================================
