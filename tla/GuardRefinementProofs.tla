----------------------- MODULE GuardRefinementProofs ------------------------
(***************************************************************************)
(* The run loop implements the kill switch's promise (KillSwitch) for all  *)
(* configurations, clients, outsiders and faults: every step of Guard is a *)
(* step of the promise or changes nothing the promise speaks of.  Last,    *)
(* what the loop promises of a whole drop of the tunnel.                   *)
(***************************************************************************)
EXTENDS Drops, GuardProofs

\* Standby lies bare: nothing is beneath or above it that a move out of it could
\* lay open.
StandbyIsBare == standby => ~blocked /\ ~WindowActive

\* A command half-way through is one of those that act beside the daemon.
CommandsAreOutsiders == cli # "idle" => Outsiders # {}

\* A running daemon's full block passes what its startup learned of the providers.
PassesAreLearned == pc # "down" /\ providers = "none" => "none" \in ProviderAddrs

Sound == TypeOK /\ Suspended /\ StandbyIsBare /\ CommandsAreOutsiders /\ PassesAreLearned

Reported == IF pc = "down" THEN "down" ELSE Posture

\* What a step of the loop may look like from outside.
Allowed == [Kill!Loop]_(Kill!ksVars)

\* The frames of the actions name these groups of variables.
USE DEF outside, posture, windowVs, probeVs, tunnelVs, redialVs, zombieVs

-----------------------------------------------------------------------------
(* Standby and the commands. *)

\* A step that leaves the posture and the window alone leaves standby as bare as it was.
LEMMA BareFrame ==
  ASSUME StandbyIsBare, blocked' = blocked, window' = window, standby' = standby
  PROVE  StandbyIsBare'
  BY DEF StandbyIsBare, WindowActive

\* Out of standby there is nothing to keep bare.
LEMMA ActiveIsBare == ~standby' => StandbyIsBare'
  BY DEF StandbyIsBare

\* An automatic window opens out of standby or not at all.
LEMMA GrantStaysBare ==
  ASSUME AutoWindowPossible, UNCHANGED standby
  PROVE  StandbyIsBare'
  BY ActiveIsBare DEF AutoWindowPossible

\* So does one asked for again.
LEMMA RetryStaysBare ==
  ASSUME StandbyIsBare, UNCHANGED posture,
         NEW timer, NEW tried, NEW hold, NEW answer, NEW ok,
         RetryAutoWindow(timer, tried, hold, answer, ok)
  PROVE  StandbyIsBare'
  <1>1. blocked' = blocked /\ standby' = standby
    OBVIOUS
  <1>2. window' = window \/ AutoWindowPossible
    BY DEF RetryAutoWindow
  <1>3. QED
    BY <1>1, <1>2, BareFrame, GrantStaysBare

\* Every step keeps standby bare.
LEMMA BareStep ==
  ASSUME TypeOK, Suspended, StandbyIsBare, [Next]_vars
  PROVE  StandbyIsBare'
  <1>1. CASE Beside
    BY <1>1, BareFrame
    DEF Beside, PanicMark, DirectRules, DirectClearMarker, RulesFlushed, PanicCleanup,
        ProvidersRotate, daemon
  <1>2. CASE Lifecycle
    <2>1. ASSUME NEW sb \in BOOLEAN, NEW names \in BOOLEAN, NEW endpoints \in BOOLEAN,
                 NEW addrs \in ProviderAddrs, NEW ok \in Outcome,
                 Start(sb, names, endpoints, addrs, ok)
          PROVE  StandbyIsBare'
      BY <2>1 DEF Start, StandbyIsBare, Suspended, NothingWhenDown, WindowActive
    <2>2. ASSUME NEW ok \in CleanupOutcome, StartRefused(ok) PROVE StandbyIsBare'
      BY <2>2, BareFrame DEF StartRefused
    <2>3. ASSUME Forget PROVE StandbyIsBare'
      BY <2>3 DEF Forget, StandbyIsBare
    <2>4. QED
      BY <1>2, <2>1, <2>2, <2>3 DEF Lifecycle, Stop, Crash
  <1>3. CASE Observation
    <2>1. ASSUME pc \in Readable, UNCHANGED standby PROVE StandbyIsBare'
      BY <2>1, ActiveIsBare DEF Suspended, LookupSuspended
    <2>2. CASE GeoTickSuspended \/ GeoTickLookup
      BY <2>2, BareFrame DEF GeoTickSuspended, GeoTickLookup
    <2>3. ASSUME NEW ok \in Outcome, GeoTickLift(ok) PROVE StandbyIsBare'
      BY <2>3, BareFrame DEF GeoTickLift
    <2>4. QED
      BY <1>3, <2>1, <2>2, <2>3
      DEF Observation, LookupFailed, LookupSucceeded, StartupLookup, Readable
  <1>4. CASE Watching
    <2>1. ASSUME NEW changed \in BOOLEAN, NEW ok \in Outcome, TunnelUpSample(changed, ok)
          PROVE  StandbyIsBare'
      BY <2>1, BareFrame DEF TunnelUpSample
    <2>2. ASSUME NEW changed \in BOOLEAN, NEW ok \in Outcome, NEW okWindow \in Outcome,
                 NEW a \in LedgerAnswers, TunnelDownSample(changed, ok, a, okWindow)
          PROVE  StandbyIsBare'
      BY <2>2, BareFrame, GrantStaysBare DEF TunnelDownSample, DropEdge, NoAutoWindow
    <2>3. ASSUME NEW known \in BOOLEAN, NEW ok \in Outcome, FinishAutoArm(known, ok)
          PROVE  StandbyIsBare'
      BY <2>3 DEF FinishAutoArm, StandbyIsBare, Suspended, LookupSuspended, WindowActive
    <2>4. QED
      BY <1>4, <2>1, <2>2, <2>3 DEF Watching
  <1>5. CASE Windows
    <2>1. ASSUME NEW ok \in Outcome,
                 SocketOpenSwitch(ok) \/ FileOpenSwitch(ok) \/ SocketPause(ok) \/ FilePause(ok)
          PROVE  StandbyIsBare'
      BY <2>1, ActiveIsBare DEF SocketOpenSwitch, FileOpenSwitch, SocketPause, FilePause
    <2>2. ASSUME WindowActive, UNCHANGED standby PROVE StandbyIsBare'
      BY <2>2, ActiveIsBare DEF StandbyIsBare
    <2>3. ASSUME NEW allowed \in BOOLEAN, NEW ok \in Outcome,
                 FinishCloseProbe(allowed, ok)
          PROVE  StandbyIsBare'
      BY <2>3 DEF FinishCloseProbe, StandbyIsBare, WindowActive
    <2>4. QED
      BY <1>5, <2>1, <2>2, <2>3 DEF Windows, CancelWindow, WindowTimer, WindowDiscovery
  <1>6. CASE Operator
    <2>1. ASSUME NEW ok \in Outcome, SocketBlock(ok) PROVE StandbyIsBare'
      BY <2>1 DEF SocketBlock, StandbyIsBare, WindowActive, TypeOK
    <2>2. ASSUME NEW ok \in Outcome, SocketUnblock(ok) PROVE StandbyIsBare'
      BY <2>2 DEF SocketUnblock, StandbyIsBare, WindowActive, TypeOK
    <2>3. ASSUME NEW a \in LedgerAnswers, NEW ok \in Outcome, HoldCancel(a, ok)
          PROVE  StandbyIsBare'
      BY <2>3, BareFrame, RetryStaysBare DEF HoldCancel, NoAutoWindow
    <2>4. QED
      BY <1>6, <2>1, <2>2, <2>3, BareFrame DEF Operator, HoldArm, Reload
  <1>7. CASE Maintenance
    <2>1. ASSUME NEW a \in LedgerAnswers, NEW ok \in Outcome, RedialRetry(a, ok)
          PROVE  StandbyIsBare'
      BY <2>1, RetryStaysBare DEF RedialRetry
    <2>2. QED
      BY <1>7, <2>1, BareFrame DEF Maintenance, VerifyTick, EndpointRefresh
  <1>8. CASE UNCHANGED vars
    BY <1>8, BareFrame DEF vars
  <1>9. QED
    BY <1>1, <1>2, <1>3, <1>4, <1>5, <1>6, <1>7, <1>8 DEF Next

\* The commands beside the daemon are the outsiders' own.
LEMMA CommandsStep ==
  ASSUME CommandsAreOutsiders, [Next]_vars
  PROVE  CommandsAreOutsiders'
  <1>1. CASE Beside
    BY <1>1
    DEF Beside, PanicMark, DirectRules, DirectClearMarker, RulesFlushed, PanicCleanup,
        ProvidersRotate, CommandsAreOutsiders
  <1>2. ASSUME UNCHANGED cli PROVE CommandsAreOutsiders'
    BY <1>2 DEF CommandsAreOutsiders
  <1>3. CASE Lifecycle
    BY <1>3, <1>2 DEF Lifecycle, Start, StartRefused, Stop, Crash
  <1>4. CASE Observation
    BY <1>4, <1>2 DEF Observation, GeoTickSuspended, GeoTickLookup, GeoTickLift,
                      LookupFailed, LookupSucceeded, StartupLookup
  <1>5. CASE Watching
    BY <1>5, <1>2 DEF Watching, TunnelUpSample, TunnelDownSample, FinishAutoArm
  <1>6. CASE Windows
    BY <1>6, <1>2
    DEF Windows, SocketOpenSwitch, FileOpenSwitch, SocketPause, FilePause,
        CancelWindow, WindowTimer, FinishCloseProbe, WindowDiscovery
  <1>7. CASE Operator
    BY <1>7, <1>2 DEF Operator, SocketBlock, SocketUnblock, HoldArm, HoldCancel, Reload
  <1>8. CASE Maintenance
    BY <1>8, <1>2 DEF Maintenance, RedialRetry, VerifyTick, EndpointRefresh
  <1>9. CASE UNCHANGED vars
    BY <1>9, <1>2 DEF vars
  <1>10. QED
    BY <1>1, <1>3, <1>4, <1>5, <1>6, <1>7, <1>8, <1>9 DEF Next

\* The provider passes are learned at a start and then only replaced by others.
LEMMA PassesStep ==
  ASSUME PassesAreLearned, [Next]_vars
  PROVE  PassesAreLearned'
  <1>1. ASSUME pc # "down" \/ pc' = "down", UNCHANGED providers PROVE PassesAreLearned'
    BY <1>1 DEF PassesAreLearned
  <1>2. CASE Beside
    BY <1>2, <1>1
    DEF Beside, PanicMark, DirectRules, DirectClearMarker, RulesFlushed, PanicCleanup,
        ProvidersRotate, daemon, PassesAreLearned
  <1>3. CASE Lifecycle
    BY <1>3, <1>1 DEF Lifecycle, Start, StartRefused, Stop, Crash, Forget, PassesAreLearned
  <1>4. CASE Observation
    BY <1>4, <1>1 DEF Observation, GeoTickSuspended, GeoTickLookup, GeoTickLift,
                      LookupFailed, LookupSucceeded, StartupLookup
  <1>5. CASE Watching
    BY <1>5, <1>1 DEF Watching, TunnelUpSample, TunnelDownSample, FinishAutoArm
  <1>6. CASE Windows
    BY <1>6, <1>1
    DEF Windows, SocketOpenSwitch, FileOpenSwitch, SocketPause, FilePause,
        CancelWindow, WindowTimer, FinishCloseProbe, WindowDiscovery
  <1>7. CASE Operator
    BY <1>7, <1>1 DEF Operator, SocketBlock, SocketUnblock, HoldArm, HoldCancel, Reload
  <1>8. CASE Maintenance
    BY <1>8, <1>1
    DEF Maintenance, RedialRetry, VerifyTick, EndpointRefresh, PassesAreLearned
  <1>9. CASE UNCHANGED vars
    BY <1>9, <1>1 DEF vars
  <1>10. QED
    BY <1>2, <1>3, <1>4, <1>5, <1>6, <1>7, <1>8, <1>9 DEF Next

-----------------------------------------------------------------------------
(* The kinds of step the promise allows.                                   *)

\* Whatever it does, the daemon may lift a panic and never declares one.
Lifts == marker' \in {marker, FALSE}

\* A step the promise does not see.
LEMMA Unseen == UNCHANGED <<Reported, rules, enfErr, marker>> => Allowed
  BY DEF Allowed, Reported, Kill!ksVars

\* The posture moves together with its rules.
LEMMA MoveAllowed ==
  ASSUME <<Reported, Reported'>> \in Kill!Moves, rules' = Reported', enfErr' = FALSE, Lifts
  PROVE  Allowed
  BY DEF Allowed, Lifts, Reported, Kill!Loop, Kill!DaemonMoves, Kill!Move, Kill!Rearms

\* The rules of the posture, or those of a full block, are installed again.
LEMMA AssertAllowed ==
  ASSUME Reported' = Reported, Reported \in Policies, rules' \in {Reported, "full"},
         enfErr' \in {enfErr, FALSE}, Lifts
  PROVE  Allowed
  <1>1. rules' \in Kill!Standing /\ Kill!Cuts(rules') >= Kill!Cuts(Reported)
    BY DEF Policies, Kill!Standing, Kill!Cuts
  <1>2. Reported # "down"
    BY DEF Policies
  <1>3. QED
    BY <1>1, <1>2
    DEF Allowed, Lifts, Reported, Kill!Loop, Kill!DaemonMoves, Kill!Assert, Kill!Rearms

\* The firewall refuses, or took only the first of two calls.
LEMMA RefuseAllowed ==
  ASSUME Reported' = Reported, Reported \in Policies, rules' \in {rules, Reported, "full"},
         enfErr' = TRUE, Lifts
  PROVE  Allowed
  <1>1. rules' = rules \/ (rules' \in Kill!Standing /\ Kill!Cuts(rules') >= Kill!Cuts(Reported))
    BY DEF Policies, Kill!Standing, Kill!Cuts
  <1>2. Reported # "down"
    BY DEF Policies
  <1>3. QED
    BY <1>1, <1>2
    DEF Allowed, Lifts, Reported, Kill!Loop, Kill!DaemonMoves, Kill!Refuse, Kill!Rearms

\* Nothing changes but that a panic may be lifted.
LEMMA RearmAllowed ==
  ASSUME Reported' = Reported, Reported # "down", UNCHANGED <<rules, enfErr>>, Lifts
  PROVE  Allowed
  <1>1. CASE marker' = marker
    BY <1>1, Unseen
  <1>2. CASE marker' = FALSE
    BY <1>2 DEF Allowed, Reported, Kill!Loop, Kill!DaemonMoves, Kill!Rearm
  <1>3. QED
    BY <1>1, <1>2 DEF Lifts

\* A running daemon reports a posture.
LEMMA PostureType == Posture \in Policies /\ (pc # "down" => Reported = Posture)
  BY DEF Posture, Policies, Reported

\* Whatever a re-apply asks for is the posture's own policy.
LEMMA OwnPolicy ==
  ASSUME StandbyIsBare, NEW f \in BOOLEAN
  PROVE  CurrentPolicy(f) \in {"keep", Posture} /\ RefreshPolicy \in {"keep", Posture}
  BY DEF StandbyIsBare, CurrentPolicy, RefreshPolicy, Posture

\* A re-apply is allowed whether it succeeds or not.
LEMMA ReapplyAllowed ==
  ASSUME pc # "down", Reported' = Reported, NEW p \in {"keep", Posture}, NEW ok \in BOOLEAN,
         Reapply(p, ok), Lifts
  PROVE  Allowed
  <1>1. CASE p = "keep"
    BY <1>1, RearmAllowed, PostureType DEF Reapply, Applied, ErrAfter, Policies
  <1>2. CASE p # "keep" /\ ok
    BY <1>2, AssertAllowed, PostureType DEF Reapply, Applied, ErrAfter
  <1>3. CASE p # "keep" /\ ~ok
    BY <1>3, RefuseAllowed, PostureType DEF Reapply, Applied, ErrAfter
  <1>4. QED
    BY <1>1, <1>2, <1>3

\* A refresh of the rules, with or without the opening of an automatic window after it.
LEMMA GrantAllowed ==
  ASSUME TypeOK, AutoWindowPossible, pc # "down", pc' # "down", UNCHANGED <<posture, marker>>,
         NEW p \in {"keep", Posture}, NEW okRefresh \in BOOLEAN,
         NEW timer, NEW answer, NEW ok \in BOOLEAN,
         GrantAutoWindow(Applied(rules, p, okRefresh), ErrAfter(enfErr, p, okRefresh),
                         timer, answer, ok)
  PROVE  Allowed
  <1>1. Reported = "guard" /\ Posture = "guard" /\ Lifts
    BY DEF AutoWindowPossible, Posture, Reported, Lifts
  <1>2. CASE answer = "granted" /\ ok
    <2>1. Reported' = "window" /\ rules' = "window" /\ enfErr' = FALSE
      BY <1>2 DEF GrantAutoWindow, AutoWindowPossible, Reported, Posture, WindowActive, Applied
    <2>2. QED
      BY <1>1, <2>1, MoveAllowed DEF Kill!Moves
  <1>3. CASE ~(answer = "granted" /\ ok)
    <2>1. window' = window
      BY <1>3 DEF GrantAutoWindow
    <2>2. Reported' = Reported
      BY <2>1 DEF Reported, Posture, WindowActive
    <2>3. rules' = Applied(rules, p, okRefresh)
      BY <1>3 DEF GrantAutoWindow, Applied
    <2>4. enfErr' = TRUE \/ enfErr' = ErrAfter(enfErr, p, okRefresh)
      BY <1>3 DEF GrantAutoWindow
    <2>5. CASE enfErr' = TRUE
      BY <1>1, <2>2, <2>3, <2>5, RefuseAllowed DEF Applied, Policies
    <2>6. CASE enfErr' = ErrAfter(enfErr, p, okRefresh)
      BY <1>1, <2>2, <2>3, <2>6, ReapplyAllowed DEF Reapply
    <2>7. QED
      BY <2>4, <2>5, <2>6
  <1>4. QED
    BY <1>2, <1>3

\* A refresh of the rules alone.
LEMMA NoGrantAllowed ==
  ASSUME pc # "down", pc' # "down", UNCHANGED <<posture, marker>>,
         NEW p \in {"keep", Posture}, NEW ok \in BOOLEAN,
         NoAutoWindow(Applied(rules, p, ok), ErrAfter(enfErr, p, ok))
  PROVE  Allowed
  <1>1. Reported' = Reported /\ Lifts
    BY DEF NoAutoWindow, Reported, Posture, WindowActive, Lifts
  <1>2. QED
    BY <1>1, ReapplyAllowed DEF NoAutoWindow, Reapply

\* Asking the ledger again.
LEMMA RetryAllowed ==
  ASSUME TypeOK, pc # "down", pc' # "down", UNCHANGED <<posture, marker>>,
         NEW timer, NEW tried, NEW hold, NEW answer, NEW ok \in BOOLEAN,
         RetryAutoWindow(timer, tried, hold, answer, ok)
  PROVE  Allowed
  <1>1. rules = Applied(rules, "keep", TRUE) /\ enfErr = ErrAfter(enfErr, "keep", TRUE)
    BY DEF Applied, ErrAfter
  <1>2. CASE AutoWindowPossible /\ GrantAutoWindow(rules, enfErr, timer, answer, ok)
    BY <1>1, <1>2, GrantAllowed
  <1>3. CASE UNCHANGED <<rules, enfErr, windowVs>>
    BY <1>3, Unseen DEF Reported, Posture, WindowActive
  <1>4. QED
    BY <1>2, <1>3 DEF RetryAutoWindow

\* A window an operator opens or extends.
LEMMA OpenAllowed ==
  ASSUME TypeOK, pc # "down", pc' = pc, ~standby, UNCHANGED <<standby, blocked>>,
         NEW t \in Triggers, NEW ok \in BOOLEAN, OpenWindow(t, ok)
  PROVE  Allowed
  <1>1. Lifts
    BY DEF OpenWindow, ClearMarker, Lifts
  <1>2. CASE WindowActive
    <2>1. Reported' = Reported /\ Reported # "down" /\ UNCHANGED <<rules, enfErr>>
      BY <1>2 DEF OpenWindow, Reported, Posture, WindowActive, Triggers
    <2>2. QED
      BY <1>1, <2>1, RearmAllowed
  <1>3. CASE ~WindowActive /\ ok
    <2>1. Reported \in {"guard", "full"}
      BY <1>3 DEF Reported, Posture
    <2>2. Reported' = "window" /\ rules' = "window" /\ enfErr' = FALSE
      BY <1>3 DEF OpenWindow, Reported, Posture, WindowActive, Triggers, Applied
    <2>3. QED
      BY <1>1, <2>1, <2>2, MoveAllowed DEF Kill!Moves
  <1>4. CASE ~WindowActive /\ ~ok
    <2>1. Reported' = Reported /\ rules' = rules /\ enfErr' = TRUE
      BY <1>4 DEF OpenWindow, Reported, Posture, WindowActive, Applied
    <2>2. QED
      BY <1>1, <2>1, RefuseAllowed, PostureType
  <1>5. QED
    BY <1>2, <1>3, <1>4

\* The end of a window.
LEMMA CloseAllowed ==
  ASSUME TypeOK, StandbyIsBare, pc # "down", pc' = pc, WindowActive, UNCHANGED standby,
         NEW explicit \in BOOLEAN, NEW ok \in BOOLEAN, CloseWindow(explicit, ok)
  PROVE  Allowed
  <1>1. Reported = "window" /\ ~standby /\ Lifts
    BY DEF StandbyIsBare, Reported, Posture, CloseWindow, ClearMarker, Lifts
  <1>2. CASE marker /\ ~explicit
    <2>1. Reported' \in {"guard", "full"} /\ enfErr' = FALSE /\ UNCHANGED <<rules, marker>>
      BY <1>1, <1>2 DEF CloseWindow, Reported, Posture, WindowActive
    <2>2. QED
      BY <1>1, <1>2, <2>1
      DEF Allowed, Reported, Kill!Loop, Kill!DaemonMoves, Kill!CloseBooks
  <1>3. CASE ~(marker /\ ~explicit) /\ ok
    <2>1. Reported' \in {"guard", "full"} /\ rules' = Reported' /\ enfErr' = FALSE
      BY <1>1, <1>3 DEF CloseWindow, Reported, Posture, WindowActive, Applied
    <2>2. QED
      BY <1>1, <2>1, MoveAllowed DEF Kill!Moves
  <1>4. CASE ~(marker /\ ~explicit) /\ ~ok
    <2>1. Reported' = Reported /\ rules' = rules /\ enfErr' = TRUE
      BY <1>1, <1>4 DEF CloseWindow, Reported, Posture, WindowActive, Applied
    <2>2. QED
      BY <1>1, <2>1, RefuseAllowed DEF Policies
  <1>5. QED
    BY <1>2, <1>3, <1>4

\* What a look leaves of the rules r and the error e before the posture may move: as
\* they were, a failed lift excused, a re-cut that failed or one that is done.
Looked(r, e) ==
  \/ r = rules /\ (e = enfErr \/ e = TRUE \/ (e = FALSE /\ Reported = "full"))
  \/ r = Reported /\ e = FALSE

\* A look that moves nothing.
LEMMA LookAllowed ==
  ASSUME Reported' = Reported, Reported \in Policies, marker' = marker,
         Looked(rules', enfErr')
  PROVE  Allowed
  <1>1. Lifts
    BY DEF Lifts
  <1>2. CASE UNCHANGED <<rules, enfErr>>
    BY <1>2, Unseen
  <1>3. CASE rules' = rules /\ enfErr' = TRUE
    BY <1>1, <1>3, RefuseAllowed
  <1>4. CASE rules' = rules /\ enfErr' = FALSE /\ Reported = "full"
    BY <1>4 DEF Allowed, Reported, Kill!Loop, Kill!DaemonMoves, Kill!Excuse
  <1>5. CASE rules' = Reported /\ enfErr' = FALSE
    BY <1>1, <1>5, AssertAllowed
  <1>6. QED
    BY <1>2, <1>3, <1>4, <1>5 DEF Looked

\* The probe's re-cut is one of these.
LEMMA RecutLooked ==
  ASSUME pc \in {"geo", "lifted"}, Suspended, NEW ok \in BOOLEAN
  PROVE  Looked(Recut(ok), RecutErr(ok))
  <1>1. ~standby /\ ~WindowActive /\ (pc = "lifted" => blocked)
    BY DEF Suspended, LookupSuspended, Readable
  <1>2. blocked => Reported = "full"
    BY <1>1 DEF Reported, Posture
  <1>3. QED
    BY <1>1, <1>2 DEF Looked, Recut, RecutErr, Applied

\* A reading, after what its look left.
LEMMA ReadingAllowed ==
  ASSUME TypeOK, ~standby, ~WindowActive, pc # "down", pc' # "down",
         UNCHANGED <<standby, window, marker>>,
         NEW base, NEW err, Looked(base, err),
         NEW v, NEW ok \in BOOLEAN, MoveOnReading(v, base, err, ok)
  PROVE  Allowed
  <1> DEFINE want == Evaluate(decider, v).current = "block"
  <1>1. blocked \in BOOLEAN /\ want \in BOOLEAN /\ Lifts
    BY DEF TypeOK, Lifts
  <1>2. Reported = IF blocked THEN "full" ELSE "guard"
    BY DEF Reported, Posture
  <1>3. Reported' = IF blocked' THEN "full" ELSE "guard"
    BY DEF Reported, Posture, WindowActive
  <1>4. CASE want # blocked /\ ok
    <2>1. /\ blocked' = want /\ enfErr' = FALSE
          /\ rules' = IF want THEN "full" ELSE "guard"
      BY <1>4 DEF MoveOnReading, Applied
    <2>2. QED
      BY <1>1, <1>2, <1>3, <1>4, <2>1, MoveAllowed DEF Kill!Moves
  <1>5. CASE want # blocked /\ ~ok
    <2>1. blocked' = blocked /\ enfErr' = TRUE /\ rules' = base
      BY <1>5 DEF MoveOnReading, Applied
    <2>2. rules' \in {rules, Reported}
      BY <2>1 DEF Looked
    <2>3. QED
      BY <1>1, <1>2, <1>3, <2>1, <2>2, RefuseAllowed DEF Policies
  <1>6. CASE want = blocked
    <2>1. blocked' = blocked /\ enfErr' = err /\ rules' = base
      BY <1>6 DEF MoveOnReading
    <2>2. QED
      BY <1>2, <1>3, <2>1, LookAllowed DEF Policies
  <1>7. QED
    BY <1>1, <1>4, <1>5, <1>6

-----------------------------------------------------------------------------
(* Every action of the loop is one of these.                               *)

\* What acts beside the daemon does so in the promise as well.
LEMMA BesideAllowed ==
  ASSUME TypeOK, CommandsAreOutsiders, TypeOK', Beside
  PROVE  Allowed \/ Kill!Beside
  <1>1. ASSUME UNCHANGED <<Reported, enfErr>>, Outsiders # {} PROVE Kill!Beside
    <2>1. rules' \in Kill!Standing /\ marker' \in BOOLEAN
      BY DEF TypeOK, Policies, Kill!Standing
    <2>2. QED
      BY <1>1, <2>1 DEF Reported, Kill!Beside
  <1>2. ASSUME UNCHANGED daemon PROVE UNCHANGED <<Reported, enfErr>>
    BY <1>2 DEF daemon, Reported, Posture, WindowActive
  <1>3. CASE ProvidersRotate
    BY <1>3, Unseen DEF ProvidersRotate, Reported, Posture, WindowActive
  <1>4. CASE PanicMark \/ DirectRules \/ DirectClearMarker \/ RulesFlushed
    BY <1>1, <1>2, <1>4
    DEF PanicMark, DirectRules, DirectClearMarker, RulesFlushed, CommandsAreOutsiders
  <1>5. ASSUME NEW ok \in CleanupOutcome, PanicCleanup(ok) PROVE Kill!Beside
    BY <1>1, <1>2, <1>5 DEF PanicCleanup, CommandsAreOutsiders
  <1>6. QED
    BY <1>3, <1>4, <1>5 DEF Beside

\* Starts and stops.
LEMMA LifecycleAllowed ==
  ASSUME TypeOK, Suspended, Lifecycle
  PROVE  Allowed
  <1>1. ASSUME NEW sb \in BOOLEAN, NEW names \in BOOLEAN, NEW endpoints \in BOOLEAN,
               NEW addrs \in ProviderAddrs, NEW ok \in Outcome,
               Start(sb, names, endpoints, addrs, ok)
        PROVE  Allowed
    <2>1. Reported = "down" /\ Lifts /\ enfErr' = enfErr
      BY <1>1 DEF Start, Reported, Lifts, ClearMarker
    <2>2. ~blocked' /\ window' = "closed" /\ pc' # "down"
      BY <1>1 DEF Start, Suspended, NothingWhenDown, WindowActive
    <2>3. Reported' = IF sb THEN "none" ELSE "guard"
      BY <1>1, <2>2 DEF Start, Reported, Posture, WindowActive
    <2>4. rules' = Reported' \/ (Reported' = "none" /\ rules' = rules)
      BY <1>1, <2>3 DEF Start, Applied
    <2>5. QED
      BY <2>1, <2>3, <2>4
      DEF Allowed, Reported, Lifts, Kill!Loop, Kill!Begin, Kill!Rearms
  <1>2. ASSUME NEW ok \in CleanupOutcome, StartRefused(ok) PROVE Allowed
    <2>1. /\ Reported = "down" /\ Reported' = "down" /\ Lifts /\ enfErr' = enfErr
          /\ rules' \in {rules, "none"}
      BY <1>2 DEF StartRefused, Reported, Lifts, ClearMarker, Applied
    <2>2. QED
      BY <2>1 DEF Allowed, Reported, Lifts, Kill!Loop, Kill!Tidy, Kill!Rearms
  <1>3. ASSUME pc # "down", Forget, rules' \in {rules, "none"}, marker' = marker
        PROVE  Allowed
    <2>1. Reported # "down" /\ Reported' = "down" /\ enfErr' = FALSE
      BY <1>3, PostureType DEF Forget, Reported, Policies
    <2>2. QED
      BY <1>3, <2>1 DEF Allowed, Reported, Kill!Loop, Kill!End
  <1>4. QED
    BY <1>1, <1>2, <1>3 DEF Lifecycle, Stop, Crash, Applied

\* Looks at the exit.
LEMMA ObservationAllowed ==
  ASSUME TypeOK, Suspended, PassesAreLearned, Observation
  PROVE  Allowed
  <1> USE OutcomeType
  <1>1. CASE GeoTickSuspended \/ GeoTickLookup
    BY <1>1, Unseen DEF GeoTickSuspended, GeoTickLookup, Reported, Posture, WindowActive
  <1>2. ASSUME NEW ok \in Outcome, GeoTickLift(ok) PROVE Allowed
    <2>1. /\ Reported = "full" /\ Reported' = "full" /\ marker' = marker
          /\ "none" \in ProviderAddrs
          /\ IF ok THEN rules' = "guard" /\ enfErr' = enfErr ELSE rules' = rules /\ enfErr' = FALSE
      BY <1>2
      DEF GeoTickLift, GeoSuspended, PassesAreLearned, Reported, Posture, WindowActive, Applied
    <2>2. CASE ok
      BY <2>1, <2>2 DEF Allowed, Reported, Kill!Loop, Kill!DaemonMoves, Kill!Peek
    <2>3. CASE ~ok
      BY <2>1, <2>3 DEF Allowed, Reported, Kill!Loop, Kill!DaemonMoves, Kill!Excuse
    <2>4. QED
      BY <2>2, <2>3
  <1>3. ASSUME NEW recut \in Outcome, NEW ok \in Outcome, NEW a \in LedgerAnswers,
               LookupFailed(recut, a, ok)
        PROVE  Allowed
    <2>1. pc # "down" /\ pc' # "down" /\ UNCHANGED <<posture, marker>>
      BY <1>3 DEF LookupFailed
    <2>2. rules = Applied(rules, "keep", TRUE) /\ enfErr = ErrAfter(enfErr, "keep", TRUE)
      BY DEF Applied, ErrAfter
    <2>3. CASE AutoWindowPossible /\ GrantAutoWindow(rules, enfErr, retryArmed, a, ok)
      BY <2>1, <2>2, <2>3, GrantAllowed
    <2>4. CASE NoAutoWindow(rules, enfErr)
      BY <2>1, <2>2, <2>4, NoGrantAllowed
    <2>5. CASE rules' = Recut(recut) /\ enfErr' = RecutErr(recut) /\ UNCHANGED windowVs
      <3>1. Reported' = Reported /\ Reported \in Policies
        BY <2>1, <2>5, PostureType DEF Reported, Posture, WindowActive
      <3>2. Looked(rules', enfErr')
        BY <1>3, <2>5, RecutLooked DEF LookupFailed
      <3>3. QED
        BY <2>1, <3>1, <3>2, LookAllowed
    <2>6. QED
      BY <1>3, <2>3, <2>4, <2>5 DEF LookupFailed
  <1>4. ASSUME NEW v \in Verdicts, NEW recut \in Outcome, NEW ok \in Outcome,
               LookupSucceeded(v, recut, ok)
        PROVE  Allowed
    <2>1. /\ pc \in {"geo", "lifted"} /\ pc' # "down"
          /\ UNCHANGED <<standby, window, marker>>
          /\ MoveOnReading(v, Recut(recut), RecutErr(recut), ok)
      BY <1>4 DEF LookupSucceeded
    <2>2. ~standby /\ ~WindowActive /\ pc # "down"
      BY <2>1 DEF Suspended, LookupSuspended, Readable
    <2>3. Looked(Recut(recut), RecutErr(recut))
      BY <2>1, RecutLooked
    <2>4. QED
      BY <2>1, <2>2, <2>3, ReadingAllowed
  <1>5. ASSUME NEW v \in Verdicts \cup {"error"}, NEW ok \in Outcome, StartupLookup(v, ok)
        PROVE  Allowed
    <2>1. /\ ~standby /\ ~WindowActive /\ pc # "down" /\ pc' # "down"
          /\ UNCHANGED <<standby, window, marker>>
      BY <1>5 DEF StartupLookup, Suspended, LookupSuspended, Readable
    <2>2. CASE v = "error"
      BY <1>5, <2>1, <2>2, Unseen DEF StartupLookup, Reported, Posture, WindowActive
    <2>3. CASE v # "error"
      <3>1. MoveOnReading(v, rules, enfErr, ok)
        BY <1>5, <2>3 DEF StartupLookup
      <3>2. Looked(rules, enfErr)
        BY DEF Looked
      <3>3. QED
        BY <2>1, <3>1, <3>2, ReadingAllowed
    <2>4. QED
      BY <2>2, <2>3
  <1>6. QED
    BY <1>1, <1>2, <1>3, <1>4, <1>5 DEF Observation

\* Tunnel samples, and arming.
LEMMA WatchingAllowed ==
  ASSUME TypeOK, Suspended, StandbyIsBare, Watching
  PROVE  Allowed
  <1> USE OutcomeType
  <1>1. ASSUME NEW changed \in BOOLEAN, NEW ok \in Outcome, TunnelUpSample(changed, ok)
        PROVE  Allowed
    <2> DEFINE p == IF changed THEN RefreshPolicy ELSE "keep"
    <2>1. pc # "down" /\ Reported' = Reported /\ Lifts /\ Reapply(p, ok)
      BY <1>1 DEF TunnelUpSample, Reported, Posture, WindowActive, Lifts
    <2>2. p \in {"keep", Posture}
      BY OwnPolicy
    <2>3. QED
      BY <2>1, <2>2, ReapplyAllowed
  <1>2. ASSUME NEW changed \in BOOLEAN, NEW ok \in Outcome, NEW okWindow \in Outcome,
               NEW a \in LedgerAnswers, TunnelDownSample(changed, ok, a, okWindow)
        PROVE  Allowed
    <2> DEFINE p == IF changed THEN RefreshPolicy ELSE "keep"
    <2>1. pc # "down" /\ pc' # "down" /\ UNCHANGED <<posture, marker>>
      BY <1>2 DEF TunnelDownSample
    <2>2. p \in {"keep", Posture}
      BY OwnPolicy
    <2>3. CASE AutoWindowPossible /\ GrantAutoWindow(Applied(rules, p, ok),
                 ErrAfter(enfErr, p, ok), retryArmed, a, okWindow)
      BY <2>1, <2>2, <2>3, GrantAllowed
    <2>4. CASE NoAutoWindow(Applied(rules, p, ok), ErrAfter(enfErr, p, ok))
      BY <2>1, <2>2, <2>4, NoGrantAllowed
    <2>5. QED
      BY <1>2, <2>3, <2>4 DEF TunnelDownSample, DropEdge
  <1>3. ASSUME NEW known \in BOOLEAN, NEW ok \in Outcome, FinishAutoArm(known, ok)
        PROVE  Allowed
    <2>1. /\ Reported = "none" /\ Posture = "none" /\ Lifts /\ pc # "down"
          /\ Reported' = IF known /\ ok THEN "guard" ELSE "none"
      BY <1>3 DEF FinishAutoArm, Suspended, LookupSuspended, StandbyIsBare, Reported,
                  Posture, WindowActive, Lifts
    <2>2. CASE known /\ ok
      BY <1>3, <2>1, <2>2, MoveAllowed DEF FinishAutoArm, Reapply, Applied, ErrAfter, Kill!Moves
    <2>3. CASE known /\ ~ok
      BY <1>3, <2>1, <2>3, RefuseAllowed DEF FinishAutoArm, Reapply, Applied, ErrAfter, Policies
    <2>4. CASE ~known
      BY <1>3, <2>1, <2>4, ReapplyAllowed DEF FinishAutoArm
    <2>5. QED
      BY <2>2, <2>3, <2>4
  <1>4. QED
    BY <1>1, <1>2, <1>3 DEF Watching

\* Windows.
LEMMA WindowsAllowed ==
  ASSUME TypeOK, StandbyIsBare, Windows
  PROVE  Allowed
  <1> USE OutcomeType
  <1>1. ASSUME NEW ok \in Outcome,
               SocketOpenSwitch(ok) \/ FileOpenSwitch(ok) \/ SocketPause(ok) \/ FilePause(ok)
        PROVE  Allowed
    <2>1. /\ pc # "down" /\ pc' = pc /\ ~standby /\ UNCHANGED <<standby, blocked>>
          /\ OpenWindow("manual", ok) \/ OpenWindow("pause", ok)
      BY <1>1 DEF SocketOpenSwitch, FileOpenSwitch, SocketPause, FilePause
    <2>2. QED
      BY <2>1, OpenAllowed DEF Triggers
  <1>2. ASSUME NEW ok \in Outcome, CancelWindow(ok) \/ WindowTimer(ok)
        PROVE  Allowed
    <2>1. /\ pc # "down" /\ pc' = pc /\ WindowActive /\ UNCHANGED standby
          /\ CloseWindow(TRUE, ok) \/ CloseWindow(FALSE, ok)
      BY <1>2 DEF CancelWindow, WindowTimer
    <2>2. QED
      BY <2>1, CloseAllowed
  <1>3. ASSUME NEW allowed \in BOOLEAN, NEW ok \in Outcome, FinishCloseProbe(allowed, ok)
        PROVE  Allowed
    <2> DEFINE closes == WindowActive /\ tunnels /\ ~marker /\ discovered /\ allowed
    <2>1. pc # "down" /\ Lifts
      BY <1>3 DEF FinishCloseProbe, Lifts
    <2>2. CASE closes /\ ok
      <3>1. Reported = "window" /\ Reported' = "guard" /\ rules' = "guard" /\ enfErr' = FALSE
        BY <1>3, <2>2
        DEF FinishCloseProbe, StandbyIsBare, Reported, Posture, WindowActive, Reapply,
            Applied, ErrAfter
      <3>2. QED
        BY <2>1, <3>1, MoveAllowed DEF Kill!Moves
    <2>3. CASE closes /\ ~ok
      <3>1. Reported' = Reported /\ rules' = rules /\ enfErr' = TRUE
        BY <1>3, <2>3
        DEF FinishCloseProbe, TypeOK, Reported, Posture, WindowActive, Reapply, Applied,
            ErrAfter
      <3>2. QED
        BY <2>1, <3>1, RefuseAllowed, PostureType
    <2>4. CASE ~closes
      <3>1. UNCHANGED <<Reported, rules, enfErr, marker>>
        BY <1>3, <2>4
        DEF FinishCloseProbe, TypeOK, Reported, Posture, WindowActive, Reapply, Applied,
            ErrAfter
      <3>2. QED
        BY <3>1, Unseen
    <2>5. QED
      BY <2>2, <2>3, <2>4
  <1>4. ASSUME NEW found \in BOOLEAN, NEW changed \in BOOLEAN, NEW ok \in Outcome,
               WindowDiscovery(found, changed, ok)
        PROVE  Allowed
    <2> DEFINE p == IF changed THEN RefreshPolicy ELSE "keep"
    <2>1. pc # "down" /\ Reported' = Reported /\ Lifts /\ Reapply(p, ok)
      BY <1>4 DEF WindowDiscovery, Reported, Posture, WindowActive, Lifts
    <2>2. p \in {"keep", Posture}
      BY OwnPolicy
    <2>3. QED
      BY <2>1, <2>2, ReapplyAllowed
  <1>5. QED
    BY <1>1, <1>2, <1>3, <1>4 DEF Windows

\* What an operator asks for.
LEMMA OperatorAllowed ==
  ASSUME TypeOK, StandbyIsBare, Operator
  PROVE  Allowed
  <1> USE OutcomeType
  <1>1. ASSUME NEW ok \in Outcome, SocketBlock(ok) PROVE Allowed
    <2>1. pc # "down" /\ ~WindowActive /\ Lifts /\ window' = window /\ pc' = pc
      BY <1>1 DEF SocketBlock, ClearMarker, Lifts
    <2>2. CASE blocked
      <3>1. Reported' = Reported /\ UNCHANGED <<rules, enfErr>>
        BY <1>1, <2>1, <2>2
        DEF SocketBlock, TypeOK, Reported, Posture, WindowActive, Reapply, Applied, ErrAfter
      <3>2. QED
        BY <2>1, <3>1, RearmAllowed, PostureType DEF Policies
    <2>3. CASE ~blocked /\ ok
      <3>1. /\ Reported \in {"none", "guard"} /\ Reported' = "full"
            /\ rules' = "full" /\ enfErr' = FALSE
        BY <1>1, <2>1, <2>3
        DEF SocketBlock, Reported, Posture, WindowActive, Reapply, Applied, ErrAfter
      <3>2. QED
        BY <2>1, <3>1, MoveAllowed DEF Kill!Moves
    <2>4. CASE ~blocked /\ ~ok
      <3>1. Reported' = Reported /\ rules' = rules /\ enfErr' = TRUE
        BY <1>1, <2>1, <2>4
        DEF SocketBlock, TypeOK, Reported, Posture, WindowActive, Reapply, Applied, ErrAfter
      <3>2. QED
        BY <2>1, <3>1, RefuseAllowed, PostureType
    <2>5. QED
      BY <2>2, <2>3, <2>4
  <1>2. ASSUME NEW ok \in Outcome, SocketUnblock(ok) PROVE Allowed
    <2> DEFINE release == cfg.autoArm /\ ~tunnelUp /\ ~standby
    <2>1. /\ pc # "down" /\ ~WindowActive /\ Lifts /\ window' = window /\ pc' = pc
          /\ standby \in BOOLEAN /\ blocked \in BOOLEAN
      BY <1>2 DEF SocketUnblock, ClearMarker, Lifts, TypeOK
    <2>2. CASE release /\ ok
      <3>1. /\ Reported \in {"full", "guard"} /\ Reported' = "none"
            /\ rules' = "none" /\ enfErr' = FALSE
        BY <1>2, <2>1, <2>2
        DEF SocketUnblock, Reported, Posture, WindowActive, Reapply, Applied, ErrAfter
      <3>2. QED
        BY <2>1, <3>1, MoveAllowed DEF Kill!Moves
    <2>3. CASE ~release /\ blocked /\ ok
      <3>1. /\ Reported = "full" /\ Reported' = "guard"
            /\ rules' = "guard" /\ enfErr' = FALSE
        BY <1>2, <2>1, <2>3
        DEF SocketUnblock, StandbyIsBare, Reported, Posture, WindowActive, Reapply, Applied,
            ErrAfter
      <3>2. QED
        BY <2>1, <3>1, MoveAllowed DEF Kill!Moves
    <2>4. CASE (release \/ blocked) /\ ~ok
      <3>1. Reported' = Reported /\ rules' = rules /\ enfErr' = TRUE
        BY <1>2, <2>1, <2>4
        DEF SocketUnblock, Reported, Posture, WindowActive, Reapply, Applied, ErrAfter
      <3>2. QED
        BY <2>1, <3>1, RefuseAllowed, PostureType
    <2>5. CASE ~release /\ ~blocked
      <3>1. Reported' = Reported /\ UNCHANGED <<rules, enfErr>>
        BY <1>2, <2>1, <2>5
        DEF SocketUnblock, Reported, Posture, WindowActive, Reapply, Applied, ErrAfter
      <3>2. QED
        BY <2>1, <3>1, RearmAllowed, PostureType DEF Policies
    <2>6. QED
      BY <2>2, <2>3, <2>4, <2>5
  <1>3. CASE HoldArm
    BY <1>3, Unseen DEF HoldArm, Reported, Posture, WindowActive
  <1>4. ASSUME NEW a \in LedgerAnswers, NEW ok \in Outcome, HoldCancel(a, ok)
        PROVE  Allowed
    <2>1. pc # "down" /\ pc' # "down" /\ UNCHANGED <<posture, marker>>
      BY <1>4 DEF HoldCancel
    <2>2. CASE NoAutoWindow(rules, enfErr)
      BY <2>1, <2>2, Unseen DEF NoAutoWindow, Reported, Posture, WindowActive, HoldCancel
    <2>3. QED
      BY <1>4, <2>1, <2>2, RetryAllowed DEF HoldCancel
  <1>5. ASSUME NEW c \in Configs, NEW flags \in BOOLEAN, NEW ok \in Outcome,
               Reload(c, flags, ok)
        PROVE  Allowed
    <2> DEFINE p == IF flags THEN CurrentPolicy(FALSE) ELSE "keep"
    <2>1. pc # "down" /\ Reported' = Reported /\ Lifts /\ Reapply(p, ok)
      BY <1>5 DEF Reload, Reported, Posture, WindowActive, Lifts
    <2>2. p \in {"keep", Posture}
      BY OwnPolicy
    <2>3. QED
      BY <2>1, <2>2, ReapplyAllowed
  <1>6. QED
    BY <1>1, <1>2, <1>3, <1>4, <1>5 DEF Operator

\* Retries, verification and refreshes.
LEMMA MaintenanceAllowed ==
  ASSUME TypeOK, StandbyIsBare, Maintenance
  PROVE  Allowed
  <1> USE OutcomeType
  <1>1. ASSUME NEW a \in LedgerAnswers, NEW ok \in Outcome, RedialRetry(a, ok)
        PROVE  Allowed
    <2>1. pc # "down" /\ pc' # "down" /\ UNCHANGED <<posture, marker>>
      BY <1>1 DEF RedialRetry
    <2>2. QED
      BY <1>1, <2>1, RetryAllowed DEF RedialRetry
  <1>2. ASSUME NEW ok \in Outcome, VerifyTick(ok) PROVE Allowed
    <2>1. pc # "down" /\ Reported' = Reported /\ Lifts /\ Reapply(CurrentPolicy(TRUE), ok)
      BY <1>2 DEF VerifyTick, Reported, Posture, WindowActive, Lifts
    <2>2. QED
      BY <2>1, OwnPolicy, ReapplyAllowed
  <1>3. ASSUME NEW fresh \in BOOLEAN, NEW changed \in BOOLEAN, NEW found \in BOOLEAN,
               NEW ok \in Outcome, NEW okChanged \in Outcome,
               EndpointRefresh(fresh, changed, found, ok, okChanged)
        PROVE  Allowed
    <2> DEFINE p1 == IF ~fresh \/ marker THEN "keep"
                     ELSE IF blocked THEN "full"
                     ELSE IF WindowActive \/ standby THEN "keep" ELSE "guard"
               p2 == IF changed THEN RefreshPolicy ELSE "keep"
               e1 == IF p1 = "full" THEN enfErr ELSE ErrAfter(enfErr, p1, ok)
    <2>1. /\ pc # "down" /\ Reported' = Reported /\ Reported = Posture
          /\ Reported \in Policies /\ Lifts
      BY <1>3, PostureType DEF EndpointRefresh, Reported, Posture, WindowActive, Lifts
    <2>2. /\ p1 \in {"keep", Reported, "full"} /\ p2 \in {"keep", Reported}
      BY <2>1, OwnPolicy DEF Posture
    <2>3. /\ rules' = Applied(Applied(rules, p1, ok), p2, okChanged)
          /\ enfErr' = ErrAfter(e1, p2, okChanged)
      BY <1>3 DEF EndpointRefresh
    <2>4. Applied(rules, p1, ok) \in {rules, Reported, "full"}
      BY <2>2 DEF Applied
    <2>5. CASE p2 # "keep"
      <3>1. CASE okChanged
        BY <2>1, <2>2, <2>3, <2>5, <3>1, AssertAllowed DEF Applied, ErrAfter
      <3>2. CASE ~okChanged
        BY <2>1, <2>3, <2>4, <2>5, <3>2, RefuseAllowed DEF Applied, ErrAfter
      <3>3. QED
        BY <3>1, <3>2
    <2>6. CASE p2 = "keep"
      <3>1. rules' = Applied(rules, p1, ok) /\ enfErr' = e1
        BY <2>3, <2>6 DEF Applied, ErrAfter
      <3>2. CASE p1 = "keep" \/ (p1 = "full" /\ ~ok)
        BY <2>1, <3>1, <3>2, RearmAllowed DEF Applied, ErrAfter, Policies
      <3>3. CASE p1 # "keep" /\ ok
        BY <2>1, <2>2, <3>1, <3>3, AssertAllowed DEF Applied, ErrAfter
      <3>4. CASE p1 # "keep" /\ p1 # "full" /\ ~ok
        BY <2>1, <3>1, <3>4, RefuseAllowed DEF Applied, ErrAfter
      <3>5. QED
        BY <3>2, <3>3, <3>4
    <2>7. QED
      BY <2>5, <2>6
  <1>4. QED
    BY <1>1, <1>2, <1>3 DEF Maintenance

-----------------------------------------------------------------------------
(* The refinement.                                                         *)

LEMMA SoundInit == Init => Sound
  <1> SUFFICES ASSUME Init PROVE Sound
    OBVIOUS
  <1>1. Suspended
    BY DEF Init, Suspended, LookupSuspended, NothingWhenDown, WindowActive, Readable
  <1>2. StandbyIsBare /\ CommandsAreOutsiders /\ PassesAreLearned
    BY DEF Init, StandbyIsBare, CommandsAreOutsiders, PassesAreLearned
  <1>3. QED
    BY <1>1, <1>2, InitType DEF Sound

LEMMA SoundStep == Sound /\ [Next]_vars => Sound'
  BY StepType, SuspendedStep, BareStep, CommandsStep, PassesStep DEF Sound

\* A step of the loop is one the promise allows; the rest is beside the daemon there too.
LEMMA StepAllowed == Sound /\ [Next]_vars => Allowed \/ (Beside /\ Kill!Beside)
  <1> SUFFICES ASSUME Sound, [Next]_vars PROVE Allowed \/ (Beside /\ Kill!Beside)
    OBVIOUS
  <1>1. TypeOK'
    BY StepType DEF Sound
  <1>2. CASE UNCHANGED vars
    BY <1>2, Unseen DEF vars, Reported, Posture, WindowActive
  <1>3. QED
    BY <1>1, <1>2, BesideAllowed, LifecycleAllowed, ObservationAllowed, WatchingAllowed,
       WindowsAllowed, OperatorAllowed, MaintenanceAllowed DEF Next, Sound

\* The run loop implements the kill switch's promise, whatever the configuration, the
\* commands and the ways they come in, what acts beside the daemon, and what fails: a
\* posture moves only together with its rules and along the diagram, and whatever the
\* firewall refuses moves nothing and is reported.
THEOREM GuardImplementsKillSwitch == Spec => KeepsThePromise
  <1>1. Init => Kill!KillInit
    BY DEF Init, Kill!KillInit
  <1>2. Sound /\ [Next]_vars => [Kill!KillNext]_(Kill!ksVars)
    BY StepAllowed DEF Allowed, Kill!KillNext
  <1>3. QED
    BY <1>1, <1>2, SoundInit, SoundStep, PTL DEF Spec, KeepsThePromise, Kill!KillSpec

-----------------------------------------------------------------------------
(* Failing closed.                                                         *)

\* What is left of the rules while a window is open and a panic is in force: nothing,
\* since the panic's teardown, for every handler that would bring rules back asks first.
PanicTookTheWindow == marker /\ cli # "panic" /\ WindowActive => rules = "none"
PanicsAreOutsiders == marker => Outsiders # {}

\* The rules are no laxer than the posture, an error reported or not; a panic's teardown
\* is on its way, or somebody outside took the rules away.
Covered ==
  (pc # "down" /\ cli # "panic" /\ (rules = "none" => Outsiders = {}))
    => Kill!Cuts(rules) >= Kill!Cuts(Posture)

\* Where the panic marker can be written and removed and teardowns work, the rules stay
\* gone while a window and a panic meet.
LEMMA PanicTakesTheWindow ==
  ASSUME "marker" \notin Faults, "cleanup" \notin Faults, "block" \notin Outsiders,
         Sound, PanicTookTheWindow, [Next]_vars
  PROVE  PanicTookTheWindow'
  <1> SUFFICES ASSUME marker', cli' # "panic", window' # "closed" PROVE rules' = "none"
    BY DEF PanicTookTheWindow, WindowActive
  <1>1. ASSUME UNCHANGED <<rules, marker, cli, window>> PROVE rules' = "none"
    BY <1>1 DEF PanicTookTheWindow, WindowActive
  <1>2. CASE Beside
    BY <1>2, <1>1
    DEF Beside, PanicMark, DirectRules, DirectClearMarker, ClearMarker, RulesFlushed,
        PanicCleanup, CleanupOutcome, Applied, ProvidersRotate, daemon
  <1>3. CASE Lifecycle
    BY <1>3 DEF Lifecycle, Start, StartRefused, Stop, Crash, Forget, ClearMarker
  <1>4. CASE Observation
    <2>1. ASSUME pc \in Readable PROVE ~WindowActive
      BY <2>1 DEF Sound, Suspended, LookupSuspended
    <2>2. CASE GeoTickSuspended \/ GeoTickLookup
      BY <2>2, <1>1 DEF GeoTickSuspended, GeoTickLookup
    <2>3. ASSUME NEW ok \in Outcome, GeoTickLift(ok) PROVE rules' = "none"
      BY <2>3 DEF GeoTickLift, GeoSuspended, WindowActive
    <2>4. ASSUME NEW recut \in Outcome, NEW ok \in Outcome, NEW a \in LedgerAnswers,
                 LookupFailed(recut, a, ok)
          PROVE  rules' = "none"
      BY <2>1, <2>4 DEF LookupFailed, NoAutoWindow, AutoWindowPossible, WindowActive, Readable
    <2>5. ASSUME NEW v \in Verdicts, NEW recut \in Outcome, NEW ok \in Outcome,
                 LookupSucceeded(v, recut, ok)
          PROVE  rules' = "none"
      BY <2>1, <2>5 DEF LookupSucceeded, WindowActive, Readable
    <2>6. ASSUME NEW v \in Verdicts \cup {"error"}, NEW ok \in Outcome,
                 StartupLookup(v, ok)
          PROVE  rules' = "none"
      BY <2>1, <2>6 DEF StartupLookup, WindowActive, Readable
    <2>7. QED
      BY <1>4, <2>2, <2>3, <2>4, <2>5, <2>6 DEF Observation
  <1>5. CASE Watching
    <2>1. ASSUME NEW changed \in BOOLEAN, NEW ok \in Outcome, TunnelUpSample(changed, ok)
          PROVE  rules' = "none"
      BY <2>1, <1>1, MarkedKeeps DEF TunnelUpSample, Reapply, Applied
    <2>2. ASSUME NEW changed \in BOOLEAN, NEW ok \in Outcome, NEW okWindow \in Outcome,
                 NEW a \in LedgerAnswers, TunnelDownSample(changed, ok, a, okWindow)
          PROVE  rules' = "none"
      BY <2>2, <1>1, MarkedKeeps
      DEF TunnelDownSample, DropEdge, AutoWindowPossible, NoAutoWindow, Applied
    <2>3. ASSUME NEW known \in BOOLEAN, NEW ok \in Outcome, FinishAutoArm(known, ok)
          PROVE  rules' = "none"
      BY <2>3 DEF FinishAutoArm, Sound, Suspended, LookupSuspended, StandbyIsBare, WindowActive
    <2>4. QED
      BY <1>5, <2>1, <2>2, <2>3 DEF Watching
  <1>6. CASE Windows
    <2>1. ASSUME NEW ok \in Outcome,
                 \/ SocketOpenSwitch(ok) \/ FileOpenSwitch(ok)
                 \/ SocketPause(ok) \/ FilePause(ok) \/ CancelWindow(ok)
          PROVE  rules' = "none"
      BY <2>1 DEF SocketOpenSwitch, FileOpenSwitch, SocketPause, FilePause,
                  CancelWindow, OpenWindow, CloseWindow, ClearMarker
    <2>2. ASSUME NEW ok \in Outcome, WindowTimer(ok) PROVE rules' = "none"
      BY <2>2 DEF WindowTimer, CloseWindow
    <2>3. ASSUME NEW allowed \in BOOLEAN, NEW ok \in Outcome,
                 FinishCloseProbe(allowed, ok)
          PROVE  rules' = "none"
      BY <2>3, <1>1 DEF FinishCloseProbe, Reapply, Applied
    <2>4. ASSUME NEW found \in BOOLEAN, NEW changed \in BOOLEAN, NEW ok \in Outcome,
                 WindowDiscovery(found, changed, ok)
          PROVE  rules' = "none"
      BY <2>4, <1>1, MarkedKeeps DEF WindowDiscovery, Reapply, Applied
    <2>5. QED
      BY <1>6, <2>1, <2>2, <2>3, <2>4 DEF Windows
  <1>7. CASE Operator
    <2>1. ASSUME NEW ok \in Outcome, SocketBlock(ok) \/ SocketUnblock(ok)
          PROVE  rules' = "none"
      BY <2>1 DEF SocketBlock, SocketUnblock, ClearMarker
    <2>2. ASSUME NEW a \in LedgerAnswers, NEW ok \in Outcome, HoldCancel(a, ok)
          PROVE  rules' = "none"
      BY <2>2, <1>1 DEF HoldCancel, RetryAutoWindow, AutoWindowPossible, NoAutoWindow
    <2>3. ASSUME NEW c \in Configs, NEW flags \in BOOLEAN, NEW ok \in Outcome,
                 Reload(c, flags, ok)
          PROVE  rules' = "none"
      BY <2>3, <1>1, MarkedKeeps DEF Reload, Reapply, Applied
    <2>4. QED
      BY <1>7, <1>1, <2>1, <2>2, <2>3 DEF Operator, HoldArm
  <1>8. CASE Maintenance
    <2>1. ASSUME NEW a \in LedgerAnswers, NEW ok \in Outcome, RedialRetry(a, ok)
          PROVE  rules' = "none"
      BY <2>1, <1>1 DEF RedialRetry, RetryAutoWindow, AutoWindowPossible
    <2>2. ASSUME NEW ok \in Outcome, VerifyTick(ok) PROVE rules' = "none"
      BY <2>2 DEF VerifyTick
    <2>3. ASSUME NEW fresh \in BOOLEAN, NEW changed \in BOOLEAN, NEW found \in BOOLEAN,
                 NEW ok \in Outcome, NEW okChanged \in Outcome,
                 EndpointRefresh(fresh, changed, found, ok, okChanged)
          PROVE  rules' = "none"
      BY <2>3, <1>1, MarkedKeeps DEF EndpointRefresh, Applied
    <2>4. QED
      BY <1>8, <2>1, <2>2, <2>3 DEF Maintenance
  <1>9. CASE UNCHANGED vars
    BY <1>9, <1>1 DEF vars
  <1>10. QED
    BY <1>2, <1>3, <1>4, <1>5, <1>6, <1>7, <1>8, <1>9 DEF Next

\* Only what acts beside the daemon touches the commands half-way through.
LEMMA LoopLeavesCommands == [Next]_vars => Beside \/ UNCHANGED cli
  <1> SUFFICES ASSUME [Next]_vars PROVE Beside \/ UNCHANGED cli
    OBVIOUS
  <1>1. CASE Lifecycle
    BY <1>1 DEF Lifecycle, Start, StartRefused, Stop, Crash
  <1>2. CASE Observation
    BY <1>2 DEF Observation, GeoTickSuspended, GeoTickLookup, GeoTickLift,
                LookupFailed, LookupSucceeded, StartupLookup
  <1>3. CASE Watching
    BY <1>3 DEF Watching, TunnelUpSample, TunnelDownSample, FinishAutoArm
  <1>4. CASE Windows
    BY <1>4
    DEF Windows, SocketOpenSwitch, FileOpenSwitch, SocketPause, FilePause,
        CancelWindow, WindowTimer, FinishCloseProbe, WindowDiscovery
  <1>5. CASE Operator
    BY <1>5 DEF Operator, SocketBlock, SocketUnblock, HoldArm, HoldCancel, Reload
  <1>6. CASE Maintenance
    BY <1>6 DEF Maintenance, RedialRetry, VerifyTick, EndpointRefresh
  <1>7. QED
    BY <1>1, <1>2, <1>3, <1>4, <1>5, <1>6 DEF Next, vars

\* A marker is written by a panic command only: the promise's loop never declares one.
LEMMA PanicsStep ==
  ASSUME Sound, PanicsAreOutsiders, [Next]_vars
  PROVE  PanicsAreOutsiders'
  <1>1. CASE Allowed
    BY <1>1
    DEF Allowed, PanicsAreOutsiders, Kill!ksVars, Kill!Loop, Kill!DaemonMoves, Kill!Move,
        Kill!CloseBooks, Kill!Assert, Kill!Refuse, Kill!Excuse, Kill!Rearm, Kill!Peek,
        Kill!Begin, Kill!Tidy, Kill!End, Kill!Rearms
  <1>2. CASE Kill!Beside
    BY <1>2 DEF Kill!Beside, PanicsAreOutsiders
  <1>3. QED
    BY <1>1, <1>2, StepAllowed

\* The promise's own order of strictness is the one FailClosed is stated with.
LEMMA SameOrder == \A p \in Policies : Strictness(p) = Kill!Cuts(p)
  BY DEF Policies, Strictness, Kill!Cuts

\* Nothing the daemon does uncovers its posture, and whoever does so from outside
\* leaves no rules at all.
LEMMA CoveredStep ==
  ASSUME "none" \notin ProviderAddrs,
         "marker" \notin Faults, "cleanup" \notin Faults, "block" \notin Outsiders,
         Sound, PanicTookTheWindow, PanicsAreOutsiders, Covered, [Next]_vars
  PROVE  Covered'
  <1> SUFFICES ASSUME pc' # "down", cli' # "panic", rules' = "none" => Outsiders = {}
               PROVE  Kill!Cuts(rules') >= Kill!Cuts(Posture')
    BY DEF Covered
  <1>1. Posture' \in Policies
    BY DEF Posture, Policies, WindowActive
  <1>2. Reported' = Posture'
    BY DEF Reported
  <1>3. CASE Beside
    <2>1. UNCHANGED <<pc, Posture>>
      <3>1. UNCHANGED <<pc, standby, blocked, window>>
        BY <1>3 DEF Beside, PanicMark, DirectRules, DirectClearMarker, RulesFlushed,
                    PanicCleanup, ProvidersRotate, daemon
      <3>2. QED
        BY <3>1 DEF Posture, WindowActive
    <2>2. cli # "panic" /\ UNCHANGED rules
      <3>1. ASSUME NEW ok \in CleanupOutcome, PanicCleanup(ok) PROVE FALSE
        BY <3>1 DEF PanicCleanup, CleanupOutcome, Applied, Sound, CommandsAreOutsiders
      <3>2. ~PanicMark /\ ~DirectRules /\ ~RulesFlushed
        BY DEF PanicMark, DirectRules, RulesFlushed
      <3>3. CASE DirectClearMarker \/ ProvidersRotate
        BY <3>3 DEF DirectClearMarker, ProvidersRotate
      <3>4. QED
        BY <1>3, <3>1, <3>2, <3>3 DEF Beside
    <2>3. QED
      BY <2>1, <2>2 DEF Covered
  <1>4. CASE Allowed /\ UNCHANGED cli
    <2>1. CASE UNCHANGED <<Reported, rules>>
      <3>1. pc # "down" /\ Posture' = Posture
        BY <1>1, <1>2, <2>1, PostureType DEF Reported, Policies
      <3>2. QED
        BY <1>4, <2>1, <3>1 DEF Covered
    <2>2. CASE Kill!Move
      BY <1>1, <1>2, <2>2 DEF Kill!Move, Kill!Cuts, Policies, Reported
    <2>3. CASE Kill!CloseBooks
      <3>1. marker /\ WindowActive /\ rules' = rules
        BY <2>3 DEF Kill!CloseBooks, Posture, WindowActive
      <3>2. QED
        BY <1>4, <3>1 DEF PanicTookTheWindow, PanicsAreOutsiders
    <2>4. CASE Kill!Assert
      BY <1>2, <2>4 DEF Kill!Assert, Reported
    <2>5. CASE Kill!Refuse
      <3>1. pc # "down" /\ Posture' = Posture
        BY <1>2, <2>5, PostureType DEF Kill!Refuse, Reported, Policies
      <3>2. CASE UNCHANGED rules
        BY <1>4, <3>1, <3>2 DEF Covered
      <3>3. CASE Kill!Cuts(rules') >= Kill!Cuts(Posture)
        BY <3>1, <3>3
      <3>4. QED
        BY <2>5, <3>1, <3>2, <3>3 DEF Kill!Refuse
    <2>6. CASE Kill!Begin
      <3>1. CASE rules' = Posture'
        BY <1>1, <3>1 DEF Kill!Cuts, Policies
      <3>2. CASE Posture' = "none"
        <4>1. rules' \in Policies
          BY StepType DEF Sound, TypeOK
        <4>2. QED
          BY <3>2, <4>1 DEF Kill!Cuts, Policies
      <3>3. QED
        BY <1>2, <2>6, <3>1, <3>2 DEF Kill!Begin, Reported
    <2>7. ~Kill!Peek /\ ~Kill!Tidy /\ ~Kill!End
      BY <1>1, <1>2 DEF Kill!Peek, Kill!Tidy, Kill!End, Reported, Policies
    <2>8. QED
      BY <1>4, <2>1, <2>2, <2>3, <2>4, <2>5, <2>6, <2>7
      DEF Allowed, Reported, Kill!ksVars, Kill!Loop, Kill!DaemonMoves, Kill!Excuse, Kill!Rearm
  <1>5. QED
    BY <1>3, <1>4, StepAllowed, LoopLeavesCommands

\* The kill switch fails closed: where the recovery probe has the providers' addresses,
\* the panic marker and the teardowns work and no `block' command interferes, no
\* interleaving of the loop with readings, drops, windows, reloads, refused changes,
\* panics and flushes leaves a running daemon's rules laxer than the posture it reports,
\* except by removing them altogether from outside.
THEOREM FailsClosed ==
  ASSUME "none" \notin ProviderAddrs,
         "marker" \notin Faults, "cleanup" \notin Faults, "block" \notin Outsiders
  PROVE  Spec => []FailClosed
  <1> DEFINE Inv == Sound /\ PanicTookTheWindow /\ PanicsAreOutsiders /\ Covered
  <1>1. Init => Inv
    <2>1. Init => PanicTookTheWindow /\ PanicsAreOutsiders /\ Covered
      BY DEF Init, PanicTookTheWindow, PanicsAreOutsiders, Covered
    <2>2. QED
      BY <2>1, SoundInit
  <1>2. Inv /\ [Next]_vars => Inv'
    BY SoundStep, PanicTakesTheWindow, PanicsStep, CoveredStep
  <1>3. Inv => FailClosed
    <2> SUFFICES ASSUME Inv PROVE FailClosed
      OBVIOUS
    <2>1. Posture \in Policies /\ rules \in Policies
      BY PostureType DEF Sound, TypeOK
    <2>2. QED
      BY <2>1, SameOrder DEF FailClosed, Covered
  <1>4. QED
    BY <1>1, <1>2, <1>3, PTL DEF Spec

-----------------------------------------------------------------------------
(* Drops of the tunnel.                                                    *)

\* A drop that a window has answered, or that the hold has met, is one without a tunnel
\* and without a refusal that could be asked about again.
DropIsSettled == drop \in {"answered", "held"} => ~tunnelUp /\ ~redialRefused

\* A step that opens no automatic window and refuses none.
Quiet == /\ window' = "auto" => window = "auto"
         /\ redialRefused' => redialRefused

\* What the ledger is asked, with the tunnel down, is a refusal again, and a window it
\* grants answers that refusal.
Asks == /\ tunnelUp \/ redialRefused
        /\ window' = "auto" /\ window # "auto" => ~redialRefused'

\* A grant asks where it was due, ...
LEMMA GrantAsks ==
  ASSUME TypeOK, tunnelUp \/ redialRefused, NEW base, NEW err, NEW timer, NEW answer, NEW ok,
         GrantAutoWindow(base, err, timer, answer, ok)
  PROVE  Asks
  BY DEF GrantAutoWindow, Asks

\* ... and a retry where a refusal stands.
LEMMA RetryAsks ==
  ASSUME TypeOK, NEW timer, NEW tried, NEW hold, NEW answer, NEW ok,
         RetryAutoWindow(timer, tried, hold, answer, ok)
  PROVE  Quiet \/ Asks
  <1>1. CASE redialRefused /\ GrantAutoWindow(rules, enfErr, timer, answer, ok)
    BY <1>1, GrantAsks
  <1>2. CASE UNCHANGED windowVs /\ redialRefused' \in {redialRefused, FALSE}
    BY <1>2 DEF Quiet
  <1>3. QED
    BY <1>1, <1>2 DEF RetryAutoWindow

\* Every step of the loop is one or the other, ...
LEMMA QuietOrAsks ==
  ASSUME TypeOK, [Next]_vars
  PROVE  Quiet \/ Asks
  <1>1. ASSUME UNCHANGED <<window, redialRefused>> PROVE Quiet
    BY <1>1 DEF Quiet
  <1>2. CASE Beside
    BY <1>2, <1>1
    DEF Beside, PanicMark, DirectRules, DirectClearMarker, RulesFlushed, PanicCleanup,
        ProvidersRotate, daemon
  <1>3. CASE Lifecycle
    <2>1. ASSUME Forget PROVE Quiet
      BY <2>1 DEF Forget, Quiet
    <2>2. QED
      BY <1>3, <1>1, <2>1 DEF Lifecycle, Start, StartRefused, Stop, Crash
  <1>4. CASE Observation
    <2>1. ASSUME EndZombieEpisode, UNCHANGED window PROVE Quiet
      BY <2>1 DEF EndZombieEpisode, Quiet
    <2>2. ASSUME NEW recut \in Outcome, NEW ok \in Outcome, NEW a \in LedgerAnswers,
                 LookupFailed(recut, a, ok)
          PROVE  Quiet \/ Asks
      <3>1. CASE tunnelUp /\ GrantAutoWindow(rules, enfErr, retryArmed, a, ok)
        BY <3>1, GrantAsks
      <3>2. CASE NoAutoWindow(rules, enfErr)
        BY <3>2, <1>1 DEF NoAutoWindow
      <3>3. QED
        BY <2>2, <2>1, <3>1, <3>2 DEF LookupFailed
    <2>3. QED
      BY <1>4, <1>1, <2>1, <2>2
      DEF Observation, GeoTickSuspended, GeoTickLookup, GeoTickLift, LookupSucceeded,
          StartupLookup
  <1>5. CASE Watching
    <2>1. ASSUME NEW changed \in BOOLEAN, NEW ok \in Outcome, TunnelUpSample(changed, ok)
          PROVE  Quiet
      BY <2>1 DEF TunnelUpSample, Quiet
    <2>2. ASSUME NEW changed \in BOOLEAN, NEW ok \in Outcome, NEW okWindow \in Outcome,
                 NEW a \in LedgerAnswers, TunnelDownSample(changed, ok, a, okWindow)
          PROVE  Quiet \/ Asks
      <3>1. ASSUME NEW base, NEW err, NoAutoWindow(base, err) PROVE Quiet
        BY <3>1, <1>1 DEF NoAutoWindow
      <3>2. QED
        BY <2>2, <3>1, GrantAsks DEF TunnelDownSample, DropEdge
    <2>3. QED
      BY <1>5, <1>1, <2>1, <2>2 DEF Watching, FinishAutoArm
  <1>6. CASE Windows
    <2>1. ASSUME NEW trigger \in {"manual", "pause"}, NEW ok \in Outcome,
                 OpenWindow(trigger, ok)
          PROVE  Quiet
      BY <2>1 DEF OpenWindow, Quiet
    <2>2. ASSUME NEW explicit, NEW ok, CloseWindow(explicit, ok), UNCHANGED redialRefused
          PROVE  Quiet
      BY <2>2 DEF CloseWindow, Quiet
    <2>3. ASSUME NEW allowed \in BOOLEAN, NEW ok \in Outcome, FinishCloseProbe(allowed, ok)
          PROVE  Quiet
      BY <2>3 DEF FinishCloseProbe, Quiet
    <2>4. QED
      BY <1>6, <1>1, <2>1, <2>2, <2>3
      DEF Windows, SocketOpenSwitch, FileOpenSwitch, SocketPause, FilePause, CancelWindow,
          WindowTimer, WindowDiscovery
  <1>7. CASE Operator
    <2>1. ASSUME NEW a \in LedgerAnswers, NEW ok \in Outcome, HoldCancel(a, ok)
          PROVE  Quiet \/ Asks
      BY <2>1, <1>1, RetryAsks DEF HoldCancel, NoAutoWindow
    <2>2. ASSUME NEW c \in Configs, NEW flags \in BOOLEAN, NEW ok \in Outcome,
                 Reload(c, flags, ok)
          PROVE  Quiet
      BY <2>2 DEF Reload, Quiet
    <2>3. QED
      BY <1>7, <1>1, <2>1, <2>2 DEF Operator, SocketBlock, SocketUnblock, HoldArm
  <1>8. CASE Maintenance
    <2>1. ASSUME NEW a \in LedgerAnswers, NEW ok \in Outcome, RedialRetry(a, ok)
          PROVE  Quiet \/ Asks
      BY <2>1, RetryAsks DEF RedialRetry
    <2>2. QED
      BY <1>8, <1>1, <2>1 DEF Maintenance, VerifyTick, EndpointRefresh
  <1>9. QED
    BY <1>1, <1>2, <1>3, <1>4, <1>5, <1>6, <1>7, <1>8 DEF Next, vars

\* ... and the one that spends a hold on a drop asks for nothing.
LEMMA SpentQuietly ==
  ASSUME TypeOK, [Next]_vars, HoldSpent, ~tunnelUp', pc' # "down"
  PROVE  redialRefused' = redialRefused
  <1>1. ASSUME tunnelUp' = tunnelUp \/ holdArmed' = holdArmed PROVE FALSE
    BY <1>1 DEF HoldSpent
  <1>2. ASSUME NEW changed \in BOOLEAN, NEW ok \in Outcome, NEW okWindow \in Outcome,
               NEW a \in LedgerAnswers, TunnelDownSample(changed, ok, a, okWindow)
        PROVE  redialRefused' = redialRefused
    BY <1>2 DEF TunnelDownSample, DropEdge, HoldSpent, NoAutoWindow
  <1>3. ~Beside
    BY <1>1 DEF Beside, PanicMark, DirectRules, DirectClearMarker, RulesFlushed, PanicCleanup,
                ProvidersRotate, daemon
  <1>4. ~Lifecycle
    BY <1>1 DEF Lifecycle, Start, StartRefused, Stop, Crash, Forget
  <1>5. ~Observation
    BY <1>1 DEF Observation, GeoTickSuspended, GeoTickLookup, GeoTickLift, LookupFailed,
                LookupSucceeded, StartupLookup
  <1>6. ~Windows
    BY <1>1 DEF Windows, SocketOpenSwitch, FileOpenSwitch, SocketPause, FilePause,
                CancelWindow, WindowTimer, FinishCloseProbe, WindowDiscovery
  <1>7. ~Operator
    BY <1>1 DEF Operator, SocketBlock, SocketUnblock, HoldArm, HoldCancel, Reload
  <1>8. ~Maintenance
    BY <1>1 DEF Maintenance, RedialRetry, VerifyTick, EndpointRefresh
  <1>9. CASE Watching
    BY <1>9, <1>1, <1>2 DEF Watching, TunnelUpSample, FinishAutoArm
  <1>10. QED
    BY <1>1, <1>3, <1>4, <1>5, <1>6, <1>7, <1>8, <1>9 DEF Next, vars

\* A settled drop stays settled until the tunnel is up again.
LEMMA DropStep ==
  ASSUME TypeOK, DropIsSettled, [DropNext]_dropVars
  PROVE  DropIsSettled' /\ (AutoWindowOpens => drop \notin {"answered", "held"})
  <1>1. [Next]_vars
    BY DEF DropNext, dropVars
  <1>2. AutoWindowOpens => drop \notin {"answered", "held"}
    BY <1>1, QuietOrAsks DEF AutoWindowOpens, Quiet, Asks, DropIsSettled
  <1>3. CASE UNCHANGED dropVars
    BY <1>2, <1>3 DEF dropVars, vars, DropIsSettled
  <1>4. CASE DropNext /\ drop' \in {"answered", "held"}
    <2>1. ~tunnelUp' /\ pc' # "down"
      BY <1>4 DEF DropNext, RecordDrop
    <2>2. CASE AutoWindowOpens
      BY <1>1, <1>2, <2>1, <2>2, QuietOrAsks DEF AutoWindowOpens, Quiet, Asks, DropIsSettled
    <2>3. CASE ~AutoWindowOpens /\ HoldSpent
      <3>1. drop' = IF redialRefused THEN "heldOver" ELSE "held"
        BY <1>4, <2>1, <2>3 DEF DropNext, RecordDrop
      <3>2. QED
        BY <1>1, <1>2, <1>4, <2>1, <2>3, <3>1, SpentQuietly DEF DropIsSettled
    <2>4. CASE ~AutoWindowOpens /\ ~HoldSpent
      <3>1. drop' = IF tunnelUp THEN "bare" ELSE drop
        BY <1>4, <2>1, <2>4 DEF DropNext, RecordDrop
      <3>2. ~tunnelUp /\ ~redialRefused
        BY <1>4, <3>1 DEF DropIsSettled
      <3>3. QED
        BY <1>1, <1>2, <2>1, <3>2, QuietOrAsks DEF Quiet, Asks, DropIsSettled
    <2>5. QED
      BY <2>2, <2>3, <2>4
  <1>5. CASE drop' \notin {"answered", "held"}
    BY <1>2, <1>5 DEF DropIsSettled
  <1>6. QED
    BY <1>3, <1>4, <1>5 DEF DropNext

\* Hence every drop is, always.
LEMMA DropAlways == DropSpec => [](TypeOK /\ DropIsSettled)
  <1>1. DropInit => TypeOK /\ DropIsSettled
    BY InitType DEF DropInit, DropIsSettled
  <1>2. TypeOK /\ DropIsSettled /\ [DropNext]_dropVars => TypeOK' /\ DropIsSettled'
    BY StepType, DropStep DEF DropNext, dropVars
  <1>3. QED
    BY <1>1, <1>2, PTL DEF DropSpec

\* A drop of the tunnel gets one automatic window, for all configurations, clients,
\* outsiders and faults, however its refusals, retries, holds and reloads interleave.
THEOREM DropsGetOneWindow == DropSpec => OneWindowPerDrop
  <1>1. TypeOK /\ DropIsSettled /\ [DropNext]_dropVars
          => [AutoWindowOpens => drop # "answered"]_dropVars
    BY DropStep
  <1>2. QED
    BY <1>1, DropAlways, PTL DEF DropSpec, OneWindowPerDrop

\* One that an armed hold met gets none, unless a refusal from before it still stood.
THEOREM HeldDropsStayCut == DropSpec => HeldDropStaysCut
  <1>1. TypeOK /\ DropIsSettled /\ [DropNext]_dropVars
          => [AutoWindowOpens => drop # "held"]_dropVars
    BY DropStep
  <1>2. QED
    BY <1>1, DropAlways, PTL DEF DropSpec, HeldDropStaysCut
=============================================================================
