---------------------------- MODULE GuardProofs -----------------------------
(***************************************************************************)
(* Theorems about the run loop for every set of configurations,            *)
(* thresholds, clients, outsiders and faults.  First type correctness, one *)
(* lemma per action; then the invariants of the postures and of the        *)
(* windows, which hold of the loop for the combinations their theorems     *)
(* name.                                                                   *)
(***************************************************************************)
EXTENDS Guard, HysteresisProofs

\* The parts of the type invariant that several actions disturb together.
RulesTyped == rules \in Policies /\ enfErr \in BOOLEAN
WindowTyped ==
  /\ window \in Triggers \cup {"closed"} /\ windowPrevBlocked \in BOOLEAN
  /\ redialRefused \in BOOLEAN /\ retryArmed \in BOOLEAN
ZombieTyped ==
  /\ zombieChecks \in Nat /\ zombieShown \in BOOLEAN
  /\ zombieRedialTried \in BOOLEAN /\ zombieHoldSuppressed \in BOOLEAN
USE DEF RulesTyped, WindowTyped, ZombieTyped

\* The frames of the actions name these groups of variables.
USE DEF outside, posture, windowVs, probeVs, tunnelVs, redialVs, zombieVs

\* A re-apply asks for a policy, or for none.
LEMMA PolicyType ==
  ASSUME NEW f \in BOOLEAN
  PROVE  /\ CurrentPolicy(f) \in Policies \cup {"keep"}
         /\ RefreshPolicy \in Policies \cup {"keep"}
  BY DEF CurrentPolicy, RefreshPolicy, Policies

\* A Backend call leaves rules of some policy, whether it succeeds or not.
LEMMA AppliedType ==
  ASSUME NEW r \in Policies, NEW p \in Policies \cup {"keep"}, NEW ok \in BOOLEAN
  PROVE  Applied(r, p, ok) \in Policies
  BY DEF Applied

\* The recorded enforcement error stays a Boolean.
LEMMA ErrAfterType ==
  ASSUME NEW e \in BOOLEAN, NEW p \in Policies \cup {"keep"}, NEW ok \in BOOLEAN
  PROVE  ErrAfter(e, p, ok) \in BOOLEAN
  BY DEF ErrAfter

\* A call succeeds or it does not.
LEMMA OutcomeType == Outcome \subseteq BOOLEAN /\ CleanupOutcome \subseteq BOOLEAN
  BY DEF Outcome, CleanupOutcome

\* Granting an automatic window keeps the types it touches.
LEMMA GrantType ==
  ASSUME TypeOK, NEW base \in Policies, NEW err \in BOOLEAN, NEW timer \in BOOLEAN,
         NEW answer \in LedgerAnswers, NEW ok \in BOOLEAN,
         GrantAutoWindow(base, err, timer, answer, ok)
  PROVE  RulesTyped' /\ WindowTyped'
  <1>1. rules' \in Policies
    BY AppliedType DEF GrantAutoWindow, Policies
  <1>2. QED
    BY <1>1 DEF TypeOK, GrantAutoWindow, Triggers

\* So does asking the ledger again.
LEMMA RetryType ==
  ASSUME TypeOK, NEW timer \in BOOLEAN, NEW tried \in BOOLEAN, NEW hold \in BOOLEAN,
         NEW answer \in LedgerAnswers, NEW ok \in BOOLEAN,
         RetryAutoWindow(timer, tried, hold, answer, ok)
  PROVE  RulesTyped' /\ WindowTyped'
  <1>1. CASE GrantAutoWindow(rules, enfErr, timer, answer, ok)
    BY <1>1, GrantType DEF TypeOK
  <1>2. CASE ~GrantAutoWindow(rules, enfErr, timer, answer, ok)
    BY <1>2 DEF TypeOK, RetryAutoWindow
  <1>3. QED
    BY <1>1, <1>2

\* So does moving the decider, and the posture, on a reading.
LEMMA MoveType ==
  ASSUME TypeOK, NEW v \in Verdicts, NEW base \in Policies, NEW err \in BOOLEAN,
         NEW ok \in BOOLEAN, MoveOnReading(v, base, err, ok)
  PROVE  /\ decider' \in Deciders /\ blocked' \in BOOLEAN
         /\ RulesTyped'
  <1>1. Evaluate(decider, v) \in Deciders
    BY EvaluateType DEF TypeOK
  <1>2. rules' \in Policies
    BY AppliedType DEF MoveOnReading, Policies
  <1>3. QED
    BY <1>1, <1>2 DEF TypeOK, MoveOnReading

\* So does applying a policy, or none.
LEMMA ReapplyType ==
  ASSUME TypeOK, NEW p \in Policies \cup {"keep"}, NEW ok \in BOOLEAN, Reapply(p, ok)
  PROVE  RulesTyped'
  BY AppliedType, ErrAfterType DEF TypeOK, Reapply

\* So does forgetting a zombie streak.
LEMMA ResetType ==
  ASSUME TypeOK, NEW full \in BOOLEAN, ResetZombie(full)
  PROVE  ZombieTyped'
  BY DEF TypeOK, ResetZombie

\* So does opening a window, or failing to.
LEMMA OpenType ==
  ASSUME TypeOK, NEW t \in Triggers, NEW ok \in BOOLEAN, OpenWindow(t, ok)
  PROVE  marker' \in BOOLEAN /\ RulesTyped' /\ WindowTyped'
  <1>1. rules' \in Policies
    BY AppliedType DEF TypeOK, OpenWindow, Policies
  <1>2. QED
    BY <1>1 DEF TypeOK, OpenWindow, ClearMarker

\* So does closing one, or failing to.
LEMMA CloseType ==
  ASSUME TypeOK, NEW explicit \in BOOLEAN, NEW ok \in BOOLEAN, CloseWindow(explicit, ok)
  PROVE  /\ marker' \in BOOLEAN /\ RulesTyped'
         /\ window' \in Triggers \cup {"closed"} /\ blocked' \in BOOLEAN
  <1>1. rules' \in Policies
    BY AppliedType DEF TypeOK, CloseWindow, Policies
  <1>2. QED
    BY <1>1 DEF TypeOK, CloseWindow, ClearMarker, Triggers

\* Start preserves the type invariant.
LEMMA StartType ==
  ASSUME TypeOK, NEW sb \in BOOLEAN, NEW names \in BOOLEAN, NEW endpoints \in BOOLEAN,
         NEW addrs \in ProviderAddrs, NEW ok \in BOOLEAN,
         Start(sb, names, endpoints, addrs, ok)
  PROVE  TypeOK'
  <1>1. rules' \in Policies
    BY AppliedType DEF TypeOK, Start, Policies
  <1>2. marker' \in BOOLEAN /\ discovered' \in BOOLEAN
    BY DEF TypeOK, Start, ClearMarker
  <1>3. /\ standby' \in BOOLEAN /\ tunnels' \in BOOLEAN /\ tunnelUp' \in BOOLEAN
    BY DEF TypeOK, Start
  <1>4. providers' \in {"none", "live", "stale"}
    BY FlagsAssumption DEF Start
  <1>5. pc' \in {"startup", "select"}
    BY DEF Start
  <1>6. UNCHANGED <<cli, cfg, blocked, manualBlock, enfErr, window, windowPrevBlocked,
                    closeProbe, sawTunnelUp, holdArmed, redialRefused, retryArmed,
                    zombieChecks, zombieShown, zombieRedialTried, zombieHoldSuppressed,
                    decider>>
    BY DEF Start
  <1>7. QED
    BY <1>1, <1>2, <1>3, <1>4, <1>5, <1>6 DEF TypeOK, Readable

\* StartRefused preserves the type invariant.
LEMMA StartRefusedType ==
  ASSUME TypeOK, NEW ok \in BOOLEAN, StartRefused(ok)
  PROVE  TypeOK'
  <1>1. rules' \in Policies
    BY AppliedType DEF TypeOK, StartRefused, Policies
  <1>2. marker' \in BOOLEAN
    BY DEF TypeOK, StartRefused, ClearMarker
  <1>3. UNCHANGED <<cli, pc, cfg, standby, blocked, manualBlock, enfErr, window,
                    windowPrevBlocked, closeProbe, discovered, tunnels, tunnelUp,
                    sawTunnelUp, holdArmed, redialRefused, retryArmed, zombieChecks,
                    zombieShown, zombieRedialTried, zombieHoldSuppressed, decider,
                    providers>>
    BY DEF StartRefused
  <1>4. QED
    BY <1>1, <1>2, <1>3 DEF TypeOK

\* A process that ends leaves its variables as a new one finds them.
LEMMA ForgetType ==
  ASSUME TypeOK, Forget, rules' \in Policies, marker' \in BOOLEAN,
         cli' \in {"idle", "panic", "unblock", "block"}
  PROVE  TypeOK'
  <1>1. decider.need \in Nat
    BY DEF TypeOK, Deciders
  <1>2. decider' \in Deciders
    BY <1>1, NewDeciderType DEF Forget
  <1>3. QED
    BY <1>2 DEF TypeOK, Forget, ResetZombie

\* Stop preserves the type invariant.
LEMMA StopType ==
  ASSUME TypeOK, NEW ok \in BOOLEAN, Stop(ok)
  PROVE  TypeOK'
  <1>1. rules' \in Policies
    BY AppliedType DEF TypeOK, Stop, Policies
  <1>2. QED
    BY <1>1, ForgetType DEF TypeOK, Stop

\* Crash preserves the type invariant.
LEMMA CrashType ==
  ASSUME TypeOK, Crash
  PROVE  TypeOK'
  BY ForgetType DEF TypeOK, Crash

\* GeoTickSuspended preserves the type invariant.
LEMMA GeoTickSuspendedType ==
  ASSUME TypeOK, GeoTickSuspended
  PROVE  TypeOK'
  <1>1. ResetZombie(standby \/ ~WindowActive)
    BY DEF GeoTickSuspended
  <1>2. ZombieTyped'
    BY <1>1, ResetType DEF TypeOK
  <1>3. QED
    BY <1>1, <1>2 DEF TypeOK, GeoTickSuspended, WindowActive

\* GeoTickLookup preserves the type invariant.
LEMMA GeoTickLookupType ==
  ASSUME TypeOK, GeoTickLookup
  PROVE  TypeOK'
  BY DEF TypeOK, GeoTickLookup, Readable

\* GeoTickLift preserves the type invariant.
LEMMA GeoTickLiftType ==
  ASSUME TypeOK, NEW ok \in BOOLEAN, GeoTickLift(ok)
  PROVE  TypeOK'
  <1>1. rules' \in Policies
    BY AppliedType DEF TypeOK, GeoTickLift, Policies
  <1>2. pc' \in Readable \cup {"select"} /\ enfErr' \in BOOLEAN
    BY DEF TypeOK, GeoTickLift, Readable
  <1>3. redialRefused' \in BOOLEAN /\ retryArmed' \in BOOLEAN
    BY DEF TypeOK, GeoTickLift, EndZombieEpisode
  <1>4. ZombieTyped'
    BY ResetType DEF TypeOK, GeoTickLift, EndZombieEpisode
  <1>5. UNCHANGED <<marker, cli, cfg, standby, blocked, manualBlock, window,
                    windowPrevBlocked, closeProbe, discovered, tunnels, tunnelUp,
                    sawTunnelUp, holdArmed, decider, providers>>
    BY DEF GeoTickLift
  <1>6. QED
    BY <1>1, <1>2, <1>3, <1>4, <1>5 DEF TypeOK

\* StartupLookup preserves the type invariant.
LEMMA StartupLookupType ==
  ASSUME TypeOK, NEW v \in Verdicts \cup {"error"}, NEW ok \in BOOLEAN,
         StartupLookup(v, ok)
  PROVE  TypeOK'
  <1>1. decider' \in Deciders /\ blocked' \in BOOLEAN /\ RulesTyped'
    BY MoveType DEF TypeOK, StartupLookup, Verdicts
  <1>2. QED
    BY <1>1 DEF TypeOK, StartupLookup

\* LookupSucceeded preserves the type invariant.
LEMMA LookupSucceededType ==
  ASSUME TypeOK, NEW v \in Verdicts, NEW recut \in BOOLEAN, NEW ok \in BOOLEAN,
         LookupSucceeded(v, recut, ok)
  PROVE  TypeOK'
  <1>1. Recut(recut) \in Policies /\ RecutErr(recut) \in BOOLEAN
    BY AppliedType DEF TypeOK, Recut, RecutErr, Policies
  <1>2. decider' \in Deciders /\ blocked' \in BOOLEAN /\ RulesTyped'
    BY <1>1, MoveType DEF LookupSucceeded
  <1>3. pc' \in {"select"}
    BY DEF LookupSucceeded
  <1>4. sawTunnelUp' \in BOOLEAN
    BY DEF TypeOK, LookupSucceeded
  <1>5. redialRefused' \in BOOLEAN /\ retryArmed' \in BOOLEAN
    BY DEF TypeOK, LookupSucceeded, EndZombieEpisode
  <1>6. ZombieTyped'
    BY ResetType DEF LookupSucceeded, EndZombieEpisode
  <1>7. UNCHANGED <<marker, cli, cfg, standby, manualBlock, window, windowPrevBlocked,
                    closeProbe, discovered, tunnels, tunnelUp, holdArmed, providers>>
    BY DEF LookupSucceeded
  <1>8. QED
    BY <1>1, <1>2, <1>3, <1>4, <1>5, <1>6, <1>7 DEF TypeOK

\* TunnelUpSample preserves the type invariant.
LEMMA TunnelUpSampleType ==
  ASSUME TypeOK, NEW changed \in BOOLEAN, NEW ok \in BOOLEAN,
         TunnelUpSample(changed, ok)
  PROVE  TypeOK'
  <1>1. RulesTyped'
    BY PolicyType, ReapplyType DEF TunnelUpSample
  <1>2. pc' \in {"select", "arming"}
    BY DEF TunnelUpSample
  <1>3. closeProbe' \in BOOLEAN
    BY DEF TypeOK, TunnelUpSample, StartCloseProbe
  <1>4. /\ tunnels' \in BOOLEAN /\ tunnelUp' \in BOOLEAN /\ sawTunnelUp' \in BOOLEAN
        /\ holdArmed' \in BOOLEAN
        /\ redialRefused' \in BOOLEAN /\ retryArmed' \in BOOLEAN
    BY DEF TunnelUpSample
  <1>5. UNCHANGED <<marker, cli, cfg, standby, blocked, manualBlock, window,
                    windowPrevBlocked, discovered, zombieChecks, zombieShown,
                    zombieRedialTried, zombieHoldSuppressed, decider, providers>>
    BY DEF TunnelUpSample
  <1>6. QED
    BY <1>1, <1>2, <1>3, <1>4, <1>5 DEF TypeOK

\* FinishAutoArm preserves the type invariant.
LEMMA FinishAutoArmType ==
  ASSUME TypeOK, NEW known \in BOOLEAN, NEW ok \in BOOLEAN, FinishAutoArm(known, ok)
  PROVE  TypeOK'
  <1>1. RulesTyped'
    BY ReapplyType DEF FinishAutoArm, Policies
  <1>2. pc' = "select" /\ discovered' \in BOOLEAN /\ standby' \in BOOLEAN
    BY DEF FinishAutoArm
  <1>3. UNCHANGED <<marker, cli, cfg, blocked, manualBlock, window, windowPrevBlocked,
                    closeProbe, tunnels, tunnelUp, sawTunnelUp, holdArmed,
                    redialRefused, retryArmed, zombieChecks, zombieShown,
                    zombieRedialTried, zombieHoldSuppressed, decider, providers>>
    BY DEF FinishAutoArm
  <1>4. QED
    BY <1>1, <1>2, <1>3 DEF TypeOK

\* SocketOpenSwitch preserves the type invariant.
LEMMA SocketOpenSwitchType ==
  ASSUME TypeOK, NEW ok \in BOOLEAN, SocketOpenSwitch(ok)
  PROVE  TypeOK'
  <1>1. marker' \in BOOLEAN /\ RulesTyped' /\ WindowTyped'
    BY OpenType DEF SocketOpenSwitch, Triggers
  <1>2. manualBlock' \in BOOLEAN
    BY DEF TypeOK, SocketOpenSwitch
  <1>3. UNCHANGED <<cli, pc, cfg, standby, blocked, closeProbe, discovered, tunnels,
                    tunnelUp, sawTunnelUp, holdArmed, zombieChecks, zombieShown,
                    zombieRedialTried, zombieHoldSuppressed, decider, providers>>
    BY DEF SocketOpenSwitch
  <1>4. QED
    BY <1>1, <1>2, <1>3 DEF TypeOK

\* FileOpenSwitch preserves the type invariant.
LEMMA FileOpenSwitchType ==
  ASSUME TypeOK, NEW ok \in BOOLEAN, FileOpenSwitch(ok)
  PROVE  TypeOK'
  <1>1. marker' \in BOOLEAN /\ RulesTyped' /\ WindowTyped'
    BY OpenType DEF FileOpenSwitch, Triggers
  <1>2. manualBlock' \in BOOLEAN
    BY DEF TypeOK, FileOpenSwitch
  <1>3. UNCHANGED <<cli, pc, cfg, standby, blocked, closeProbe, discovered, tunnels,
                    tunnelUp, sawTunnelUp, holdArmed, zombieChecks, zombieShown,
                    zombieRedialTried, zombieHoldSuppressed, decider, providers>>
    BY DEF FileOpenSwitch
  <1>4. QED
    BY <1>1, <1>2, <1>3 DEF TypeOK

\* SocketPause preserves the type invariant.
LEMMA SocketPauseType ==
  ASSUME TypeOK, NEW ok \in BOOLEAN, SocketPause(ok)
  PROVE  TypeOK'
  <1>1. marker' \in BOOLEAN /\ RulesTyped' /\ WindowTyped'
    BY OpenType DEF SocketPause, Triggers
  <1>2. manualBlock' \in BOOLEAN
    BY DEF TypeOK, SocketPause
  <1>3. UNCHANGED <<cli, pc, cfg, standby, blocked, closeProbe, discovered, tunnels,
                    tunnelUp, sawTunnelUp, holdArmed, zombieChecks, zombieShown,
                    zombieRedialTried, zombieHoldSuppressed, decider, providers>>
    BY DEF SocketPause
  <1>4. QED
    BY <1>1, <1>2, <1>3 DEF TypeOK

\* FilePause preserves the type invariant.
LEMMA FilePauseType ==
  ASSUME TypeOK, NEW ok \in BOOLEAN, FilePause(ok)
  PROVE  TypeOK'
  <1>1. marker' \in BOOLEAN /\ RulesTyped' /\ WindowTyped'
    BY OpenType DEF FilePause, Triggers
  <1>2. manualBlock' \in BOOLEAN
    BY DEF TypeOK, FilePause
  <1>3. UNCHANGED <<cli, pc, cfg, standby, blocked, closeProbe, discovered, tunnels,
                    tunnelUp, sawTunnelUp, holdArmed, zombieChecks, zombieShown,
                    zombieRedialTried, zombieHoldSuppressed, decider, providers>>
    BY DEF FilePause
  <1>4. QED
    BY <1>1, <1>2, <1>3 DEF TypeOK

\* CancelWindow preserves the type invariant.
LEMMA CancelWindowType ==
  ASSUME TypeOK, NEW ok \in BOOLEAN, CancelWindow(ok)
  PROVE  TypeOK'
  <1>1. /\ marker' \in BOOLEAN /\ RulesTyped'
         /\ window' \in Triggers \cup {"closed"} /\ blocked' \in BOOLEAN
    BY CloseType DEF CancelWindow
  <1>2. QED
    BY <1>1 DEF TypeOK, CancelWindow

\* WindowTimer preserves the type invariant.
LEMMA WindowTimerType ==
  ASSUME TypeOK, NEW ok \in BOOLEAN, WindowTimer(ok)
  PROVE  TypeOK'
  <1>1. /\ marker' \in BOOLEAN /\ RulesTyped'
         /\ window' \in Triggers \cup {"closed"} /\ blocked' \in BOOLEAN
    BY CloseType DEF WindowTimer
  <1>2. QED
    BY <1>1 DEF TypeOK, WindowTimer

\* FinishCloseProbe preserves the type invariant.
LEMMA FinishCloseProbeType ==
  ASSUME TypeOK, NEW allowed \in BOOLEAN, NEW ok \in BOOLEAN,
         FinishCloseProbe(allowed, ok)
  PROVE  TypeOK'
  <1>1. RulesTyped'
    BY ReapplyType DEF FinishCloseProbe, Policies
  <1>2. closeProbe' \in BOOLEAN /\ blocked' \in BOOLEAN
    BY DEF TypeOK, FinishCloseProbe
  <1>3. window' \in {window, "closed"}
    BY DEF FinishCloseProbe
  <1>4. UNCHANGED <<marker, cli, pc, cfg, standby, manualBlock, windowPrevBlocked,
                    discovered, tunnels, tunnelUp, sawTunnelUp, holdArmed,
                    redialRefused, retryArmed, zombieChecks, zombieShown,
                    zombieRedialTried, zombieHoldSuppressed, decider, providers>>
    BY DEF FinishCloseProbe
  <1>5. QED
    BY <1>1, <1>2, <1>3, <1>4 DEF TypeOK

\* WindowDiscovery preserves the type invariant.
LEMMA WindowDiscoveryType ==
  ASSUME TypeOK, NEW found \in BOOLEAN, NEW changed \in BOOLEAN, NEW ok \in BOOLEAN,
         WindowDiscovery(found, changed, ok)
  PROVE  TypeOK'
  <1>1. RulesTyped'
    BY PolicyType, ReapplyType DEF WindowDiscovery
  <1>2. QED
    BY <1>1 DEF TypeOK, WindowDiscovery, StartCloseProbe

\* SocketBlock preserves the type invariant.
LEMMA SocketBlockType ==
  ASSUME TypeOK, NEW ok \in BOOLEAN, SocketBlock(ok)
  PROVE  TypeOK'
  <1>1. RulesTyped'
    BY ReapplyType DEF SocketBlock, Policies
  <1>2. marker' \in BOOLEAN
    BY DEF TypeOK, SocketBlock, ClearMarker
  <1>3. /\ standby' \in BOOLEAN /\ blocked' \in BOOLEAN /\ manualBlock' \in BOOLEAN
    BY DEF TypeOK, SocketBlock
  <1>4. ZombieTyped'
    BY ResetType DEF TypeOK, SocketBlock
  <1>5. UNCHANGED <<cli, pc, cfg, window, windowPrevBlocked, closeProbe, discovered,
                    tunnels, tunnelUp, sawTunnelUp, holdArmed, redialRefused,
                    retryArmed, decider, providers>>
    BY DEF SocketBlock
  <1>6. QED
    BY <1>1, <1>2, <1>3, <1>4, <1>5 DEF TypeOK

\* SocketUnblock preserves the type invariant.
LEMMA SocketUnblockType ==
  ASSUME TypeOK, NEW ok \in BOOLEAN, SocketUnblock(ok)
  PROVE  TypeOK'
  <1>1. RulesTyped'
    BY ReapplyType DEF SocketUnblock, Policies
  <1>2. marker' \in BOOLEAN
    BY DEF TypeOK, SocketUnblock, ClearMarker
  <1>3. /\ standby' \in BOOLEAN /\ blocked' \in BOOLEAN /\ manualBlock' \in BOOLEAN
    BY DEF TypeOK, SocketUnblock
  <1>4. ZombieTyped'
    BY ResetType DEF TypeOK, SocketUnblock
  <1>5. UNCHANGED <<cli, pc, cfg, window, windowPrevBlocked, closeProbe, discovered,
                    tunnels, tunnelUp, sawTunnelUp, holdArmed, redialRefused,
                    retryArmed, decider, providers>>
    BY DEF SocketUnblock
  <1>6. QED
    BY <1>1, <1>2, <1>3, <1>4, <1>5 DEF TypeOK

\* HoldArm preserves the type invariant.
LEMMA HoldArmType ==
  ASSUME TypeOK, HoldArm
  PROVE  TypeOK'
  BY DEF TypeOK, HoldArm

\* HoldCancel preserves the type invariant.
LEMMA HoldCancelType ==
  ASSUME TypeOK, NEW answer \in LedgerAnswers, NEW ok \in BOOLEAN,
         HoldCancel(answer, ok)
  PROVE  TypeOK'
  <1>1. (zombieRedialTried /\ ~zombieHoldSuppressed) \in BOOLEAN
    BY DEF TypeOK
  <1>2. ASSUME ~retryArmed
        PROVE  RulesTyped' /\ WindowTyped'
    <2>1. RetryAutoWindow(FALSE, zombieRedialTried /\ ~zombieHoldSuppressed, FALSE,
                          answer, ok)
      BY <1>2 DEF HoldCancel
    <2>2. QED
      BY <1>1, <2>1, RetryType
  <1>3. ASSUME retryArmed
        PROVE  RulesTyped' /\ WindowTyped'
    BY <1>3 DEF TypeOK, HoldCancel, NoAutoWindow
  <1>4. RulesTyped' /\ WindowTyped'
    BY <1>2, <1>3 DEF TypeOK
  <1>5. /\ holdArmed' \in BOOLEAN
        /\ zombieHoldSuppressed' \in BOOLEAN /\ zombieRedialTried' \in BOOLEAN
    BY DEF HoldCancel
  <1>6. UNCHANGED <<marker, cli, pc, cfg, standby, blocked, manualBlock, closeProbe,
                    discovered, tunnels, tunnelUp, sawTunnelUp, zombieChecks,
                    zombieShown, decider, providers>>
    BY DEF HoldCancel
  <1>7. QED
    BY <1>1, <1>2, <1>3, <1>4, <1>5, <1>6 DEF TypeOK

\* RedialRetry preserves the type invariant.
LEMMA RedialRetryType ==
  ASSUME TypeOK, NEW answer \in LedgerAnswers, NEW ok \in BOOLEAN,
         RedialRetry(answer, ok)
  PROVE  TypeOK'
  <1>1. zombieRedialTried \in BOOLEAN /\ holdArmed \in BOOLEAN
    BY DEF TypeOK
  <1>2. RulesTyped' /\ WindowTyped'
    BY <1>1, RetryType DEF RedialRetry
  <1>3. UNCHANGED <<marker, cli, pc, cfg, standby, blocked, manualBlock, closeProbe,
                    discovered, tunnels, tunnelUp, sawTunnelUp, holdArmed,
                    zombieChecks, zombieShown, zombieRedialTried, zombieHoldSuppressed,
                    decider, providers>>
    BY DEF RedialRetry
  <1>4. QED
    BY <1>1, <1>2, <1>3 DEF TypeOK

\* TunnelDownSample preserves the type invariant.
LEMMA TunnelDownSampleType ==
  ASSUME TypeOK, NEW changed \in BOOLEAN, NEW ok \in BOOLEAN,
         NEW answer \in LedgerAnswers, NEW okWindow \in BOOLEAN,
         TunnelDownSample(changed, ok, answer, okWindow)
  PROVE  TypeOK'
  <1>1. LET p == IF changed THEN RefreshPolicy ELSE "keep"
       IN  Applied(rules, p, ok) \in Policies /\ ErrAfter(enfErr, p, ok) \in BOOLEAN
    BY PolicyType, AppliedType, ErrAfterType DEF TypeOK
  <1>2. RulesTyped' /\ WindowTyped'
    BY <1>1, GrantType DEF TypeOK, TunnelDownSample, NoAutoWindow
  <1>3. ZombieTyped'
    BY ResetType DEF TunnelDownSample
  <1>4. QED
    BY <1>1, <1>2, <1>3
    DEF TypeOK, TunnelDownSample, StartCloseProbe, DropEdge, AutoWindowPossible

\* LookupFailed preserves the type invariant.
LEMMA LookupFailedType ==
  ASSUME TypeOK, NEW recut \in BOOLEAN, NEW answer \in LedgerAnswers,
         NEW ok \in BOOLEAN, LookupFailed(recut, answer, ok)
  PROVE  TypeOK'
  <1>1. Recut(recut) \in Policies /\ RecutErr(recut) \in BOOLEAN
    BY AppliedType DEF TypeOK, Recut, RecutErr, Policies
  <1>2. pc' = "select"
    BY DEF LookupFailed
  <1>3. ASSUME tunnelUp /\ ~blocked
        PROVE  RulesTyped' /\ WindowTyped'
    <2>1. \/ GrantAutoWindow(rules, enfErr, retryArmed, answer, ok)
          \/ NoAutoWindow(rules, enfErr)
      BY <1>3 DEF LookupFailed
    <2>2. CASE GrantAutoWindow(rules, enfErr, retryArmed, answer, ok)
      BY <2>2, GrantType DEF TypeOK
    <2>3. CASE NoAutoWindow(rules, enfErr)
      BY <2>3 DEF TypeOK, NoAutoWindow
    <2>4. QED
      BY <2>1, <2>2, <2>3
  <1>4. ASSUME tunnelUp /\ ~blocked
        PROVE  ZombieTyped'
    BY <1>4 DEF TypeOK, LookupFailed
  <1>5. ASSUME ~(tunnelUp /\ ~blocked)
        PROVE  /\ EndZombieEpisode /\ UNCHANGED windowVs
              /\ rules' = Recut(recut) /\ enfErr' = RecutErr(recut)
    BY <1>5 DEF LookupFailed
  <1>6. ASSUME ~(tunnelUp /\ ~blocked)
        PROVE  RulesTyped' /\ WindowTyped'
    BY <1>6, <1>1, <1>5 DEF TypeOK, EndZombieEpisode
  <1>7. ASSUME ~(tunnelUp /\ ~blocked)
        PROVE  ZombieTyped'
    BY <1>7, <1>5, ResetType DEF TypeOK, EndZombieEpisode
  <1>8. RulesTyped' /\ WindowTyped'
    BY <1>3, <1>6 DEF TypeOK
  <1>9. ZombieTyped'
    BY <1>4, <1>7 DEF TypeOK
  <1>10. UNCHANGED <<marker, cli, cfg, standby, blocked, manualBlock, closeProbe,
                     discovered, tunnels, tunnelUp, sawTunnelUp, holdArmed, decider,
                     providers>>
    BY DEF LookupFailed
  <1>11. QED
    BY <1>1, <1>2, <1>3, <1>4, <1>5, <1>6, <1>7, <1>8, <1>9, <1>10 DEF TypeOK

\* Reload preserves the type invariant.
LEMMA ReloadType ==
  ASSUME TypeOK, NEW c \in Configs, NEW flags \in BOOLEAN, NEW ok \in BOOLEAN,
         Reload(c, flags, ok)
  PROVE  TypeOK'
  <1>1. RulesTyped'
    BY PolicyType, ReapplyType DEF Reload
  <1>2. decider' \in Deciders
    BY NewDeciderType, ThresholdsAssumption DEF TypeOK, Reload
  <1>3. QED
    BY <1>1, <1>2 DEF TypeOK, Reload

\* VerifyTick preserves the type invariant.
LEMMA VerifyTickType ==
  ASSUME TypeOK, NEW ok \in BOOLEAN, VerifyTick(ok)
  PROVE  TypeOK'
  <1>1. RulesTyped'
    BY PolicyType, ReapplyType DEF VerifyTick
  <1>2. QED
    BY <1>1 DEF TypeOK, VerifyTick

\* EndpointRefresh preserves the type invariant.
LEMMA EndpointRefreshType ==
  ASSUME TypeOK, NEW fresh \in BOOLEAN, NEW changed \in BOOLEAN, NEW found \in BOOLEAN,
         NEW ok \in BOOLEAN, NEW okChanged \in BOOLEAN,
         EndpointRefresh(fresh, changed, found, ok, okChanged)
  PROVE  TypeOK'
  <1>1. rules' \in Policies
    BY PolicyType, AppliedType DEF TypeOK, EndpointRefresh, Policies
  <1>2. enfErr' \in BOOLEAN
    BY PolicyType, ErrAfterType DEF TypeOK, EndpointRefresh, Policies
  <1>3. QED
    BY <1>1, <1>2 DEF TypeOK, EndpointRefresh

\* PanicMark preserves the type invariant.
LEMMA PanicMarkType ==
  ASSUME TypeOK, PanicMark
  PROVE  TypeOK'
  <1>1. marker' \in BOOLEAN /\ cli' = "panic"
    BY DEF TypeOK, PanicMark
  <1>2. UNCHANGED <<rules, pc, cfg, standby, blocked, manualBlock, enfErr, window,
                    windowPrevBlocked, closeProbe, discovered, tunnels, tunnelUp,
                    sawTunnelUp, holdArmed, redialRefused, retryArmed, zombieChecks,
                    zombieShown, zombieRedialTried, zombieHoldSuppressed, decider,
                    providers>>
    BY DEF PanicMark, daemon
  <1>3. QED
    BY <1>1, <1>2 DEF TypeOK

\* PanicCleanup preserves the type invariant.
LEMMA PanicCleanupType ==
  ASSUME TypeOK, NEW ok \in BOOLEAN, PanicCleanup(ok)
  PROVE  TypeOK'
  <1>1. rules' \in Policies
    BY AppliedType DEF TypeOK, PanicCleanup, Policies
  <1>2. QED
    BY <1>1 DEF TypeOK, PanicCleanup, daemon

\* DirectRules preserves the type invariant.
LEMMA DirectRulesType ==
  ASSUME TypeOK, DirectRules
  PROVE  TypeOK'
  BY DEF TypeOK, DirectRules, Policies, daemon

\* DirectClearMarker preserves the type invariant.
LEMMA DirectClearMarkerType ==
  ASSUME TypeOK, DirectClearMarker
  PROVE  TypeOK'
  <1>1. marker' \in BOOLEAN /\ cli' = "idle"
    BY DEF TypeOK, ClearMarker, DirectClearMarker
  <1>2. UNCHANGED <<rules, pc, cfg, standby, blocked, manualBlock, enfErr, window,
                    windowPrevBlocked, closeProbe, discovered, tunnels, tunnelUp,
                    sawTunnelUp, holdArmed, redialRefused, retryArmed, zombieChecks,
                    zombieShown, zombieRedialTried, zombieHoldSuppressed, decider,
                    providers>>
    BY DEF DirectClearMarker, daemon
  <1>3. QED
    BY <1>1, <1>2 DEF TypeOK

\* RulesFlushed preserves the type invariant.
LEMMA RulesFlushedType ==
  ASSUME TypeOK, RulesFlushed
  PROVE  TypeOK'
  BY DEF TypeOK, RulesFlushed, Policies, daemon

\* ProvidersRotate preserves the type invariant.
LEMMA ProvidersRotateType ==
  ASSUME TypeOK, ProvidersRotate
  PROVE  TypeOK'
  BY DEF TypeOK, ProvidersRotate

\* Every step of the system keeps the types.
LEMMA StepType == TypeOK /\ [Next]_vars => TypeOK'
  <1> SUFFICES ASSUME TypeOK, [Next]_vars PROVE TypeOK'
    OBVIOUS
  <1>1. CASE Beside
    BY <1>1, OutcomeType, PanicMarkType, DirectRulesType, DirectClearMarkerType,
       RulesFlushedType, ProvidersRotateType, PanicCleanupType DEF Beside
  <1>2. CASE Lifecycle
    BY <1>2, OutcomeType, StartType, StartRefusedType, StopType, CrashType DEF Lifecycle
  <1>3. CASE Observation
    BY <1>3, OutcomeType, GeoTickSuspendedType, GeoTickLookupType, GeoTickLiftType,
       LookupFailedType, LookupSucceededType, StartupLookupType DEF Observation
  <1>4. CASE Watching
    BY <1>4, OutcomeType, TunnelUpSampleType, TunnelDownSampleType, FinishAutoArmType
    DEF Watching
  <1>5. CASE Windows
    BY <1>5, OutcomeType, SocketOpenSwitchType, FileOpenSwitchType, SocketPauseType,
       FilePauseType, CancelWindowType, WindowTimerType, FinishCloseProbeType,
       WindowDiscoveryType DEF Windows
  <1>6. CASE Operator
    BY <1>6, OutcomeType, SocketBlockType, SocketUnblockType, HoldArmType,
       HoldCancelType, ReloadType DEF Operator
  <1>7. CASE Maintenance
    BY <1>7, OutcomeType, RedialRetryType, VerifyTickType, EndpointRefreshType
    DEF Maintenance
  <1>8. CASE UNCHANGED vars
    BY <1>8 DEF TypeOK, vars
  <1>9. QED
    BY <1>1, <1>2, <1>3, <1>4, <1>5, <1>6, <1>7, <1>8 DEF Next

\* Before it starts for the first time the daemon has no state.
LEMMA InitType == Init => TypeOK
  <1> SUFFICES ASSUME Init PROVE TypeOK
    OBVIOUS
  <1>1. decider \in Deciders
    BY NewDeciderType, ThresholdsAssumption DEF Init
  <1>2. QED
    BY <1>1 DEF Init, TypeOK, Policies, Triggers

\* The run loop's state is well typed in every reachable state, whatever the
\* configurations, clients, outsiders and faults.
THEOREM GuardTypeCorrect == Spec => []TypeOK
  BY InitType, StepType, PTL DEF Spec

-----------------------------------------------------------------------------
(* The panic marker. *)

\* While the marker stands no re-apply asks for rules.
LEMMA MarkedKeeps ==
  ASSUME marker, NEW f \in BOOLEAN
  PROVE  CurrentPolicy(f) = "keep" /\ RefreshPolicy = "keep"
  BY DEF CurrentPolicy, RefreshPolicy

\* No handler of the loop that starts while the marker stands, and is not an
\* operator's explicit request, installs rules.
LEMMA LoopRespectsPanic ==
  ASSUME "marker" \notin Faults, Next, pc = "select",
         marker, marker', cli = "idle", cli' = "idle", rules = "none"
  PROVE  rules' = "none"
  <1>1. CASE Beside
    BY <1>1 DEF Beside, PanicMark, DirectRules, DirectClearMarker, RulesFlushed,
                PanicCleanup, ProvidersRotate
  <1>2. CASE Lifecycle
    BY <1>2 DEF Lifecycle, Start, StartRefused, Stop, Crash, Applied
  <1>3. CASE Observation
    BY <1>3 DEF Observation, GeoTickSuspended, GeoTickLookup, GeoTickLift,
                GeoSuspended, LookupFailed, LookupSucceeded, StartupLookup
  <1>4. CASE Watching
    <2>1. ASSUME NEW changed \in BOOLEAN, NEW ok \in Outcome, TunnelUpSample(changed, ok)
          PROVE  rules' = "none"
      BY <2>1, MarkedKeeps DEF TunnelUpSample, Reapply, Applied
    <2>2. ASSUME NEW changed \in BOOLEAN, NEW ok \in Outcome, NEW okWindow \in Outcome,
                 NEW a \in LedgerAnswers, TunnelDownSample(changed, ok, a, okWindow)
          PROVE  rules' = "none"
      BY <2>2, MarkedKeeps
      DEF TunnelDownSample, DropEdge, AutoWindowPossible, NoAutoWindow, Applied
    <2>3. ASSUME NEW known \in BOOLEAN, NEW ok \in Outcome, FinishAutoArm(known, ok)
          PROVE  rules' = "none"
      BY <2>3 DEF FinishAutoArm
    <2>4. QED
      BY <1>4, <2>1, <2>2, <2>3 DEF Watching
  <1>5. CASE Windows
    <2>1. ASSUME NEW ok \in Outcome,
                 \/ SocketOpenSwitch(ok) \/ FileOpenSwitch(ok)
                 \/ SocketPause(ok) \/ FilePause(ok) \/ CancelWindow(ok)
          PROVE  rules' = "none"
      BY <2>1 DEF SocketOpenSwitch, FileOpenSwitch, SocketPause, FilePause,
                  CancelWindow, OpenWindow, CloseWindow, ClearMarker
    <2>2. ASSUME NEW ok \in Outcome, WindowTimer(ok) PROVE rules' = "none"
      BY <2>2 DEF WindowTimer, CloseWindow
    <2>3. ASSUME NEW allowed \in BOOLEAN, NEW ok \in Outcome,
                 FinishCloseProbe(allowed, ok)
          PROVE  rules' = "none"
      BY <2>3 DEF FinishCloseProbe, Reapply, Applied
    <2>4. ASSUME NEW found \in BOOLEAN, NEW changed \in BOOLEAN, NEW ok \in Outcome,
                 WindowDiscovery(found, changed, ok)
          PROVE  rules' = "none"
      BY <2>4, MarkedKeeps DEF WindowDiscovery, Reapply, Applied
    <2>5. QED
      BY <1>5, <2>1, <2>2, <2>3, <2>4 DEF Windows
  <1>6. CASE Operator
    <2>1. ASSUME NEW ok \in Outcome, SocketBlock(ok) \/ SocketUnblock(ok)
          PROVE  rules' = "none"
      BY <2>1 DEF SocketBlock, SocketUnblock, ClearMarker
    <2>2. ASSUME NEW a \in LedgerAnswers, NEW ok \in Outcome, HoldCancel(a, ok)
          PROVE  rules' = "none"
      BY <2>2 DEF HoldCancel, RetryAutoWindow, AutoWindowPossible, NoAutoWindow
    <2>3. ASSUME NEW c \in Configs, NEW flags \in BOOLEAN, NEW ok \in Outcome,
                 Reload(c, flags, ok)
          PROVE  rules' = "none"
      BY <2>3, MarkedKeeps DEF Reload, Reapply, Applied
    <2>4. ASSUME HoldArm PROVE rules' = "none"
      BY <2>4 DEF HoldArm
    <2>5. QED
      BY <1>6, <2>1, <2>2, <2>3, <2>4 DEF Operator
  <1>7. CASE Maintenance
    <2>1. ASSUME NEW a \in LedgerAnswers, NEW ok \in Outcome, RedialRetry(a, ok)
          PROVE  rules' = "none"
      BY <2>1 DEF RedialRetry, RetryAutoWindow, AutoWindowPossible
    <2>2. ASSUME NEW ok \in Outcome, VerifyTick(ok) PROVE rules' = "none"
      BY <2>2 DEF VerifyTick
    <2>3. ASSUME NEW fresh \in BOOLEAN, NEW changed \in BOOLEAN, NEW found \in BOOLEAN,
                 NEW ok \in Outcome, NEW okChanged \in Outcome,
                 EndpointRefresh(fresh, changed, found, ok, okChanged)
          PROVE  rules' = "none"
      BY <2>3, MarkedKeeps DEF EndpointRefresh, Applied
    <2>4. QED
      BY <1>7, <2>1, <2>2, <2>3 DEF Maintenance
  <1>8. QED
    BY <1>1, <1>2, <1>3, <1>4, <1>5, <1>6, <1>7 DEF Next

\* A panic is respected: where the marker can be written and removed, a handler
\* that starts after the teardown never brings rules back by itself, whatever
\* configuration, country, tunnel, window or refusal it finds.
THEOREM PanicIsRespected ==
  ASSUME "marker" \notin Faults
  PROVE  Spec => PanicRespected
  <1>1. ASSUME [Next]_vars
        PROVE  [(marker /\ marker' /\ cli = "idle" /\ cli' = "idle" /\ rules = "none"
                   /\ pc = "select") => rules' = "none"]_vars
    <2>1. CASE Next
      BY <2>1, LoopRespectsPanic
    <2>2. CASE UNCHANGED vars
      BY <2>2
    <2>3. QED
      BY <1>1, <2>1, <2>2
  <1>2. QED
    BY <1>1, PTL DEF Spec, PanicRespected

-----------------------------------------------------------------------------
(* The posture a lookup finds when it answers. *)

\* LookupSuspended is inductive once a stopped process is known to hold nothing:
\* the startup lookup starts from there.
NothingWhenDown ==
  pc = "down" => ~standby /\ ~WindowActive /\ ~manualBlock /\ ~blocked
Suspended == LookupSuspended /\ NothingWhenDown

\* A step that leaves the loop in its select has no lookup in flight to excuse.
LEMMA SelectSuspends == pc' = "select" => Suspended'
  BY DEF Suspended, LookupSuspended, NothingWhenDown, Readable

\* Nor does a step that touches neither the loop nor the posture change anything.
LEMMA SuspendedFrame ==
  Suspended /\ UNCHANGED <<pc, posture, window>> => Suspended'
  BY DEF Suspended, LookupSuspended, NothingWhenDown, WindowActive, Readable

\* Every step keeps a lookup out of the postures it must not move.
LEMMA SuspendedStep == Suspended /\ [Next]_vars => Suspended'
  <1> SUFFICES ASSUME Suspended, [Next]_vars, pc' # "select" PROVE Suspended'
    BY SelectSuspends
  <1>1. CASE Beside
    BY <1>1, SuspendedFrame
    DEF Beside, PanicMark, DirectRules, DirectClearMarker, RulesFlushed, PanicCleanup,
        ProvidersRotate, daemon
  <1>2. CASE Lifecycle
    <2>1. ASSUME NEW sb \in BOOLEAN, NEW names \in BOOLEAN, NEW endpoints \in BOOLEAN,
                 NEW addrs \in ProviderAddrs, NEW ok \in Outcome,
                 Start(sb, names, endpoints, addrs, ok)
          PROVE  Suspended'
      BY <2>1
      DEF Start, Suspended, LookupSuspended, NothingWhenDown, WindowActive, Readable
    <2>2. ASSUME NEW ok \in CleanupOutcome, StartRefused(ok) PROVE Suspended'
      BY <2>2, SuspendedFrame DEF StartRefused
    <2>3. ASSUME Forget PROVE Suspended'
      BY <2>3
      DEF Forget, Suspended, LookupSuspended, NothingWhenDown, WindowActive, Readable
    <2>4. QED
      BY <1>2, <2>1, <2>2, <2>3 DEF Lifecycle, Stop, Crash
  <1>3. CASE Observation
    <2>1. CASE GeoTickSuspended
      BY <2>1, SuspendedFrame DEF GeoTickSuspended
    <2>2. CASE GeoTickLookup
      BY <2>2
      DEF GeoTickLookup, GeoSuspended, Suspended, LookupSuspended, NothingWhenDown,
          WindowActive, Readable
    <2>3. ASSUME NEW ok \in Outcome, GeoTickLift(ok) PROVE Suspended'
      BY <2>3
      DEF GeoTickLift, GeoSuspended, Suspended, LookupSuspended, NothingWhenDown,
          WindowActive, Readable
    <2>4. QED
      BY <1>3, <2>1, <2>2, <2>3
      DEF Observation, LookupFailed, LookupSucceeded, StartupLookup
  <1>4. CASE Watching
    <2>1. ASSUME NEW changed \in BOOLEAN, NEW ok \in Outcome, TunnelUpSample(changed, ok)
          PROVE  Suspended'
      BY <2>1
      DEF TunnelUpSample, Suspended, LookupSuspended, NothingWhenDown, WindowActive,
          Readable
    <2>2. QED
      BY <1>4, <2>1 DEF Watching, TunnelDownSample, FinishAutoArm
  <1>5. CASE Windows
    BY <1>5
    DEF Windows, SocketOpenSwitch, FileOpenSwitch, SocketPause, FilePause,
        CancelWindow, WindowTimer, FinishCloseProbe, WindowDiscovery
  <1>6. CASE Operator
    BY <1>6 DEF Operator, SocketBlock, SocketUnblock, HoldArm, HoldCancel, Reload
  <1>7. CASE Maintenance
    <2>1. ASSUME NEW fresh \in BOOLEAN, NEW changed \in BOOLEAN, NEW found \in BOOLEAN,
                 NEW ok \in Outcome, NEW okChanged \in Outcome,
                 EndpointRefresh(fresh, changed, found, ok, okChanged)
          PROVE  Suspended'
      BY <2>1
      DEF EndpointRefresh, ArmingDue, Suspended, LookupSuspended, NothingWhenDown,
          WindowActive, Readable
    <2>2. QED
      BY <1>7, <2>1 DEF Maintenance, RedialRetry, VerifyTick
  <1>8. CASE UNCHANGED vars
    BY <1>8, SuspendedFrame DEF vars
  <1>9. QED
    BY <1>1, <1>2, <1>3, <1>4, <1>5, <1>6, <1>7, <1>8 DEF Next

\* The geo state machine is suspended wherever it must not move the posture: no
\* lookup is in flight in standby, in a window or under a manual block.
THEOREM LookupIsSuspended == Spec => []LookupSuspended
  <1>1. Init => Suspended
    BY DEF Init, Suspended, LookupSuspended, NothingWhenDown, WindowActive, Readable
  <1>2. Suspended => LookupSuspended
    BY DEF Suspended
  <1>3. QED
    BY <1>1, <1>2, SuspendedStep, PTL DEF Spec

-----------------------------------------------------------------------------
(* The operator's hold. *)

\* While the command file is not used a manual block lies bare: no window is
\* over it and standby has not replaced it, so nothing that closes a window or
\* arms the guard can lift it.  Standby has nothing beneath or above it.
HoldIsBare ==
  /\ manualBlock => blocked /\ ~WindowActive /\ ~standby
  /\ standby => ~blocked /\ ~WindowActive
\* No command of the file blocks.
BlockNeedsSocket == manualBlock => "socket" \in Clients
Hold == Suspended /\ HoldIsBare /\ BlockNeedsSocket

\* The operator has one way to give commands, whichever it is.
OneWayIn == "file" \notin Clients \/ "socket" \notin Clients

\* A step that leaves the posture and the window alone keeps the hold.
LEMMA HoldFrame == HoldIsBare /\ UNCHANGED <<posture, window>> => HoldIsBare'
  BY DEF HoldIsBare, WindowActive

\* An automatic window opens over healthy GUARD or not at all.
LEMMA GrantKeepsHold ==
  ASSUME HoldIsBare, AutoWindowPossible, UNCHANGED posture,
         NEW base, NEW err, NEW timer, NEW answer, NEW ok,
         GrantAutoWindow(base, err, timer, answer, ok)
  PROVE  HoldIsBare'
  BY DEF HoldIsBare, AutoWindowPossible, GrantAutoWindow, WindowActive

\* So does one asked for again.
LEMMA RetryKeepsHold ==
  ASSUME HoldIsBare, UNCHANGED posture,
         NEW timer, NEW tried, NEW hold, NEW answer, NEW ok,
         RetryAutoWindow(timer, tried, hold, answer, ok)
  PROVE  HoldIsBare'
  <1>1. \/ UNCHANGED window
        \/ AutoWindowPossible /\ GrantAutoWindow(rules, enfErr, timer, answer, ok)
    BY DEF RetryAutoWindow
  <1>2. QED
    BY <1>1, HoldFrame, GrantKeepsHold

\* Where no operator holds the posture and standby is over, a reading or the end
\* of a window may move it freely.
LEMMA UnheldStaysBare ==
  ASSUME HoldIsBare, ~manualBlock, ~standby, UNCHANGED <<standby, manualBlock>>
  PROVE  HoldIsBare'
  BY DEF HoldIsBare

\* What only a command of the socket begins is never begun without one.
LEMMA BlockNeedsSocketStep ==
  ASSUME BlockNeedsSocket, [Next]_vars
  PROVE  BlockNeedsSocket'
  <1> USE DEF BlockNeedsSocket
  <1>1. ASSUME manualBlock' \in {manualBlock, FALSE} PROVE BlockNeedsSocket'
    BY <1>1
  <1>2. CASE Beside
    BY <1>2, <1>1
    DEF Beside, PanicMark, DirectRules, DirectClearMarker, RulesFlushed, PanicCleanup,
        ProvidersRotate, daemon
  <1>3. CASE Lifecycle
    BY <1>3, <1>1 DEF Lifecycle, Start, StartRefused, Stop, Crash, Forget
  <1>4. CASE Observation
    BY <1>4, <1>1
    DEF Observation, GeoTickSuspended, GeoTickLookup, GeoTickLift, LookupFailed,
        LookupSucceeded, StartupLookup
  <1>5. CASE Watching
    BY <1>5, <1>1 DEF Watching, TunnelUpSample, TunnelDownSample, FinishAutoArm
  <1>6. CASE Windows
    BY <1>6, <1>1
    DEF Windows, SocketOpenSwitch, FileOpenSwitch, SocketPause, FilePause, CancelWindow,
        WindowTimer, FinishCloseProbe, WindowDiscovery
  <1>7. CASE Operator
    BY <1>7, <1>1 DEF Operator, SocketBlock, SocketUnblock, HoldArm, HoldCancel, Reload
  <1>8. CASE Maintenance
    BY <1>8, <1>1 DEF Maintenance, RedialRetry, VerifyTick, EndpointRefresh
  <1>9. CASE UNCHANGED vars
    BY <1>9, <1>1 DEF vars
  <1>10. QED
    BY <1>2, <1>3, <1>4, <1>5, <1>6, <1>7, <1>8, <1>9 DEF Next

\* Every step keeps the hold, as long as commands come in one way.
LEMMA HoldStep ==
  ASSUME OneWayIn, TypeOK, Hold, [Next]_vars
  PROVE  HoldIsBare'
  <1> USE DEF Hold
  <1>1. CASE Beside
    BY <1>1, HoldFrame
    DEF Beside, PanicMark, DirectRules, DirectClearMarker, RulesFlushed, PanicCleanup,
        ProvidersRotate, daemon
  <1>2. CASE Lifecycle
    <2>1. ASSUME NEW sb \in BOOLEAN, NEW names \in BOOLEAN, NEW endpoints \in BOOLEAN,
                 NEW addrs \in ProviderAddrs, NEW ok \in Outcome,
                 Start(sb, names, endpoints, addrs, ok)
          PROVE  HoldIsBare'
      BY <2>1 DEF Start, HoldIsBare, Suspended, NothingWhenDown, WindowActive
    <2>2. ASSUME NEW ok \in CleanupOutcome, StartRefused(ok) PROVE HoldIsBare'
      BY <2>2, HoldFrame DEF StartRefused
    <2>3. ASSUME Forget PROVE HoldIsBare'
      BY <2>3 DEF Forget, HoldIsBare
    <2>4. QED
      BY <1>2, <2>1, <2>2, <2>3 DEF Lifecycle, Stop, Crash
  <1>3. CASE Observation
    <2>1. ASSUME pc \in Readable, UNCHANGED <<standby, manualBlock>> PROVE HoldIsBare'
      BY <2>1, UnheldStaysBare DEF Suspended, LookupSuspended
    <2>2. CASE GeoTickSuspended \/ GeoTickLookup
      BY <2>2, HoldFrame DEF GeoTickSuspended, GeoTickLookup
    <2>3. ASSUME NEW ok \in Outcome, GeoTickLift(ok) PROVE HoldIsBare'
      BY <2>3, HoldFrame DEF GeoTickLift
    <2>4. QED
      BY <1>3, <2>1, <2>2, <2>3
      DEF Observation, LookupFailed, LookupSucceeded, StartupLookup, Readable
  <1>4. CASE Watching
    <2>1. ASSUME NEW changed \in BOOLEAN, NEW ok \in Outcome, TunnelUpSample(changed, ok)
          PROVE  HoldIsBare'
      BY <2>1, HoldFrame DEF TunnelUpSample
    <2>2. ASSUME NEW changed \in BOOLEAN, NEW ok \in Outcome, NEW okWindow \in Outcome,
                 NEW a \in LedgerAnswers, TunnelDownSample(changed, ok, a, okWindow)
          PROVE  HoldIsBare'
      BY <2>2, HoldFrame, GrantKeepsHold DEF TunnelDownSample, DropEdge, NoAutoWindow
    <2>3. ASSUME NEW known \in BOOLEAN, NEW ok \in Outcome, FinishAutoArm(known, ok)
          PROVE  HoldIsBare'
      BY <2>3 DEF FinishAutoArm, HoldIsBare, Suspended, LookupSuspended, WindowActive
    <2>4. QED
      BY <1>4, <2>1, <2>2, <2>3 DEF Watching
  <1>5. CASE Windows
    <2>1. ASSUME NEW ok \in Outcome, SocketOpenSwitch(ok) \/ SocketPause(ok)
          PROVE  HoldIsBare'
      BY <2>1
      DEF SocketOpenSwitch, SocketPause, OpenWindow, HoldIsBare, WindowActive, TypeOK
    <2>2. ASSUME NEW ok \in Outcome, CancelWindow(ok) \/ WindowTimer(ok)
          PROVE  HoldIsBare'
      <3>1. ~manualBlock /\ ~standby /\ UNCHANGED <<manualBlock, standby>>
        BY <2>2 DEF CancelWindow, WindowTimer, HoldIsBare
      <3>2. QED
        BY <3>1, UnheldStaysBare
    <2>3. ASSUME NEW allowed \in BOOLEAN, NEW ok \in Outcome,
                 FinishCloseProbe(allowed, ok)
          PROVE  HoldIsBare'
      BY <2>3 DEF FinishCloseProbe, HoldIsBare, WindowActive
    <2>4. ASSUME NEW found \in BOOLEAN, NEW changed \in BOOLEAN, NEW ok \in Outcome,
                 WindowDiscovery(found, changed, ok)
          PROVE  HoldIsBare'
      BY <2>4, HoldFrame DEF WindowDiscovery
    <2>5. ASSUME NEW ok \in Outcome, FileOpenSwitch(ok) \/ FilePause(ok)
          PROVE  HoldIsBare'
      <3>1. ~manualBlock /\ ~manualBlock' /\ ~standby /\ ~standby'
        BY <2>5 DEF FileOpenSwitch, FilePause, OneWayIn, BlockNeedsSocket
      <3>2. QED
        BY <3>1 DEF HoldIsBare
    <2>6. QED
      BY <1>5, <2>1, <2>2, <2>3, <2>4, <2>5 DEF Windows
  <1>6. CASE Operator
    <2>1. ASSUME NEW ok \in Outcome, SocketBlock(ok) PROVE HoldIsBare'
      BY <2>1 DEF SocketBlock, HoldIsBare, WindowActive, TypeOK
    <2>2. ASSUME NEW ok \in Outcome, SocketUnblock(ok) PROVE HoldIsBare'
      BY <2>2 DEF SocketUnblock, HoldIsBare, WindowActive, TypeOK
    <2>3. ASSUME NEW a \in LedgerAnswers, NEW ok \in Outcome, HoldCancel(a, ok)
          PROVE  HoldIsBare'
      BY <2>3, HoldFrame, RetryKeepsHold DEF HoldCancel, NoAutoWindow
    <2>4. QED
      BY <1>6, <2>1, <2>2, <2>3, HoldFrame DEF Operator, HoldArm, Reload
  <1>7. CASE Maintenance
    <2>1. ASSUME NEW a \in LedgerAnswers, NEW ok \in Outcome, RedialRetry(a, ok)
          PROVE  HoldIsBare'
      BY <2>1, RetryKeepsHold DEF RedialRetry
    <2>2. QED
      BY <1>7, <2>1, HoldFrame DEF Maintenance, VerifyTick, EndpointRefresh
  <1>8. CASE UNCHANGED vars
    BY <1>8, HoldFrame DEF vars
  <1>9. QED
    BY <1>1, <1>2, <1>3, <1>4, <1>5, <1>6, <1>7, <1>8 DEF Next

\* Where commands come in one way, a manual block holds: no reading, tunnel event,
\* reload, timer or early close lifts it, and no window covers it unless an
\* operator asks for one.  With the command file beside the socket this is not
\* so (the run FileSwitch).
THEOREM SocketBlockIsHeld ==
  ASSUME OneWayIn
  PROVE  Spec => []ManualBlockHeld
  <1>1. Init => Hold
    BY DEF Init, Hold, Suspended, LookupSuspended, NothingWhenDown, HoldIsBare,
           BlockNeedsSocket, WindowActive, Readable
  <1>2. TypeOK /\ Hold /\ [Next]_vars => Hold'
    BY HoldStep, SuspendedStep, BlockNeedsSocketStep DEF Hold
  <1>3. Hold => ManualBlockHeld
    BY DEF Hold, HoldIsBare, ManualBlockHeld
  <1>4. QED
    BY <1>1, <1>2, <1>3, GuardTypeCorrect, PTL DEF Spec

-----------------------------------------------------------------------------
(* How windows open and close, what they leave beneath them, and what a    *)
(* zombie streak and a refused redial may outlive.                         *)

\* A refusal is asked again with the timer it had, or with none left.
LEMMA AnsweredByRetry ==
  ASSUME TypeOK, RefusalAnswered, NEW timer \in BOOLEAN, timer => retryArmed,
         NEW tried, NEW hold, NEW answer, NEW ok \in BOOLEAN,
         RetryAutoWindow(timer, tried, hold, answer, ok)
  PROVE  RefusalAnswered'
  <1>1. CASE GrantAutoWindow(rules, enfErr, timer, answer, ok) /\ AutoWindowPossible
    BY <1>1 DEF TypeOK, GrantAutoWindow, AutoWindowPossible, RefusalAnswered, WindowActive
  <1>2. CASE /\ UNCHANGED windowVs /\ redialRefused' \in {redialRefused, FALSE}
             /\ retryArmed' \in {timer, FALSE}
    BY <1>2 DEF RefusalAnswered, WindowActive
  <1>3. QED
    BY <1>1, <1>2 DEF RetryAutoWindow

\* A step that opens nothing and refuses nothing leaves no refusal under a window.
LEMMA AnsweredFrame ==
  ASSUME RefusalAnswered, window' \in {window, "closed"},
         redialRefused' => redialRefused, retryArmed' => retryArmed
  PROVE  RefusalAnswered'
  BY DEF RefusalAnswered, WindowActive

LEMMA AnsweredUntouched ==
  ASSUME RefusalAnswered, UNCHANGED <<windowVs, redialVs>>
  PROVE  RefusalAnswered'
  BY DEF RefusalAnswered, WindowActive

LEMMA AnsweredByOpening ==
  ASSUME RefusalAnswered, NEW trigger \in Triggers, NEW ok \in BOOLEAN,
         OpenWindow(trigger, ok)
  PROVE  RefusalAnswered'
  BY DEF RefusalAnswered, OpenWindow, WindowActive, Triggers

\* No step leaves a refusal, or its timer, under an open window.
LEMMA AnsweredStep == TypeOK /\ RefusalAnswered /\ [Next]_vars => RefusalAnswered'
  <1> SUFFICES ASSUME TypeOK, RefusalAnswered, [Next]_vars PROVE RefusalAnswered'
    OBVIOUS
  <1> USE OutcomeType
  <1>1. CASE Beside
    BY <1>1, AnsweredUntouched
    DEF Beside, PanicMark, DirectRules, DirectClearMarker, RulesFlushed, PanicCleanup,
        ProvidersRotate, daemon
  <1>2. CASE Lifecycle
    <2>1. ASSUME Forget PROVE RefusalAnswered'
      BY <2>1 DEF Forget, RefusalAnswered, WindowActive
    <2>2. QED
      BY <1>2, <2>1, AnsweredUntouched DEF Lifecycle, Start, StartRefused, Stop, Crash
  <1>3. CASE Observation
    <2>1. CASE GeoTickSuspended \/ GeoTickLookup
      BY <2>1, AnsweredFrame DEF GeoTickSuspended, GeoTickLookup
    <2>2. ASSUME NEW ok \in Outcome, GeoTickLift(ok) PROVE RefusalAnswered'
      BY <2>2, AnsweredFrame DEF GeoTickLift, EndZombieEpisode
    <2>3. ASSUME NEW recut \in Outcome, NEW ok \in Outcome, NEW a \in LedgerAnswers,
                 LookupFailed(recut, a, ok)
          PROVE  RefusalAnswered'
      <3>1. CASE tunnelUp /\ ~blocked /\ UNCHANGED <<windowVs, redialVs>>
        BY <3>1, AnsweredFrame
      <3>2. CASE /\ AutoWindowPossible
                 /\ GrantAutoWindow(rules, enfErr, retryArmed, a, ok)
        BY <3>2 DEF TypeOK, GrantAutoWindow, AutoWindowPossible, RefusalAnswered, WindowActive
      <3>3. CASE EndZombieEpisode /\ UNCHANGED windowVs
        BY <3>3, AnsweredFrame DEF EndZombieEpisode
      <3>4. QED
        BY <2>3, <3>1, <3>2, <3>3 DEF LookupFailed, NoAutoWindow
    <2>4. ASSUME NEW v \in Verdicts, NEW recut \in Outcome, NEW ok \in Outcome,
                 LookupSucceeded(v, recut, ok)
          PROVE  RefusalAnswered'
      BY <2>4, AnsweredFrame DEF LookupSucceeded, EndZombieEpisode
    <2>5. ASSUME NEW v \in Verdicts \cup {"error"}, NEW ok \in Outcome, StartupLookup(v, ok)
          PROVE  RefusalAnswered'
      BY <2>5, AnsweredFrame DEF StartupLookup
    <2>6. QED
      BY <1>3, <2>1, <2>2, <2>3, <2>4, <2>5 DEF Observation
  <1>4. CASE Watching
    <2>1. ASSUME NEW changed \in BOOLEAN, NEW ok \in Outcome, TunnelUpSample(changed, ok)
          PROVE  RefusalAnswered'
      BY <2>1, AnsweredFrame DEF TunnelUpSample
    <2>2. ASSUME NEW changed \in BOOLEAN, NEW ok \in Outcome, NEW okWindow \in Outcome,
                 NEW a \in LedgerAnswers, TunnelDownSample(changed, ok, a, okWindow)
          PROVE  RefusalAnswered'
      <3>1. CASE UNCHANGED <<windowVs, redialVs>>
        BY <3>1, AnsweredFrame
      <3>2. ASSUME NEW base, NEW err, AutoWindowPossible,
                   GrantAutoWindow(base, err, retryArmed, a, okWindow)
            PROVE  RefusalAnswered'
        BY <3>2 DEF TypeOK, GrantAutoWindow, AutoWindowPossible, RefusalAnswered, WindowActive
      <3>3. QED
        BY <2>2, <3>1, <3>2 DEF TunnelDownSample, DropEdge, NoAutoWindow
    <2>3. ASSUME NEW known \in BOOLEAN, NEW ok \in Outcome, FinishAutoArm(known, ok)
          PROVE  RefusalAnswered'
      BY <2>3, AnsweredFrame DEF FinishAutoArm
    <2>4. QED
      BY <1>4, <2>1, <2>2, <2>3 DEF Watching
  <1>5. CASE Windows
    <2>1. ASSUME NEW ok \in Outcome,
                 SocketOpenSwitch(ok) \/ FileOpenSwitch(ok) \/ SocketPause(ok) \/ FilePause(ok)
          PROVE  RefusalAnswered'
      BY <2>1, AnsweredByOpening
      DEF SocketOpenSwitch, FileOpenSwitch, SocketPause, FilePause, Triggers
    <2>2. ASSUME NEW ok \in Outcome, CancelWindow(ok) \/ WindowTimer(ok)
          PROVE  RefusalAnswered'
      BY <2>2, AnsweredFrame DEF CancelWindow, WindowTimer, CloseWindow
    <2>3. ASSUME NEW allowed \in BOOLEAN, NEW ok \in Outcome, FinishCloseProbe(allowed, ok)
          PROVE  RefusalAnswered'
      BY <2>3, AnsweredFrame DEF FinishCloseProbe
    <2>4. ASSUME NEW found \in BOOLEAN, NEW changed \in BOOLEAN, NEW ok \in Outcome,
                 WindowDiscovery(found, changed, ok)
          PROVE  RefusalAnswered'
      BY <2>4, AnsweredFrame DEF WindowDiscovery
    <2>5. QED
      BY <1>5, <2>1, <2>2, <2>3, <2>4 DEF Windows
  <1>6. CASE Operator
    <2>1. ASSUME NEW ok \in Outcome, SocketBlock(ok) \/ SocketUnblock(ok)
          PROVE  RefusalAnswered'
      BY <2>1, AnsweredUntouched DEF SocketBlock, SocketUnblock
    <2>2. CASE HoldArm
      BY <2>2, AnsweredUntouched DEF HoldArm
    <2>3. ASSUME NEW a \in LedgerAnswers, NEW ok \in Outcome, HoldCancel(a, ok)
          PROVE  RefusalAnswered'
      BY <2>3, AnsweredFrame, AnsweredByRetry DEF HoldCancel, NoAutoWindow
    <2>4. ASSUME NEW c \in Configs, NEW flags \in BOOLEAN, NEW ok \in Outcome,
                 Reload(c, flags, ok)
          PROVE  RefusalAnswered'
      BY <2>4, AnsweredFrame DEF Reload
    <2>5. QED
      BY <1>6, <2>1, <2>2, <2>3, <2>4 DEF Operator
  <1>7. CASE Maintenance
    <2>1. ASSUME NEW a \in LedgerAnswers, NEW ok \in Outcome, RedialRetry(a, ok)
          PROVE  RefusalAnswered'
      BY <2>1, AnsweredByRetry DEF RedialRetry
    <2>2. QED
      BY <1>7, <2>1, AnsweredUntouched DEF Maintenance, VerifyTick, EndpointRefresh
  <1>8. CASE UNCHANGED vars
    BY <1>8, AnsweredFrame DEF vars
  <1>9. QED
    BY <1>1, <1>2, <1>3, <1>4, <1>5, <1>6, <1>7, <1>8 DEF Next

\* An open window has answered whatever refusal stood before it, however it came to be
\* opened: no second automatic window is asked for behind it.
THEOREM RefusalsAreAnswered == Spec => []RefusalAnswered
  <1>1. Init => RefusalAnswered
    BY DEF Init, RefusalAnswered, WindowActive
  <1>2. QED
    BY <1>1, AnsweredStep, GuardTypeCorrect, PTL DEF Spec

-----------------------------------------------------------------------------
(* What lies beneath a window. *)

\* The posture beneath an open window is still the one it was opened over: nothing
\* that moves postures runs while it is open.
BeneathRemembered == WindowActive => windowPrevBlocked = blocked

LEMMA BeneathFrame ==
  ASSUME BeneathRemembered, blocked' = blocked, UNCHANGED windowVs
  PROVE  BeneathRemembered'
  BY DEF BeneathRemembered, WindowActive

\* With no window open, nothing can be forgotten.
LEMMA NothingBeneath == ~WindowActive' => BeneathRemembered'
  BY DEF BeneathRemembered

\* An automatic window remembers what it opens over.
LEMMA GrantRemembers ==
  ASSUME AutoWindowPossible, blocked' = blocked,
         NEW base, NEW err, NEW timer, NEW answer, NEW ok,
         GrantAutoWindow(base, err, timer, answer, ok)
  PROVE  BeneathRemembered'
  BY DEF BeneathRemembered, AutoWindowPossible, GrantAutoWindow, WindowActive

\* So does one asked for again.
LEMMA RetryRemembers ==
  ASSUME BeneathRemembered, blocked' = blocked,
         NEW timer, NEW tried, NEW hold, NEW answer, NEW ok,
         RetryAutoWindow(timer, tried, hold, answer, ok)
  PROVE  BeneathRemembered'
  <1>1. \/ UNCHANGED windowVs
        \/ AutoWindowPossible /\ GrantAutoWindow(rules, enfErr, timer, answer, ok)
    BY DEF RetryAutoWindow
  <1>2. QED
    BY <1>1, BeneathFrame, GrantRemembers

\* And one an operator asks for.
LEMMA OpeningRemembers ==
  ASSUME BeneathRemembered, blocked' = blocked, NEW trigger, NEW ok, OpenWindow(trigger, ok)
  PROVE  BeneathRemembered'
  BY DEF BeneathRemembered, OpenWindow, WindowActive

\* Closing one goes back to what was beneath.
LEMMA ClosingRemembers ==
  ASSUME BeneathRemembered, UNCHANGED windowPrevBlocked, WindowActive,
         NEW explicit, NEW ok, CloseWindow(explicit, ok)
  PROVE  BeneathRemembered' /\ blocked' = blocked
  BY DEF BeneathRemembered, CloseWindow, WindowActive

\* Every step remembers.
LEMMA BeneathStep ==
  ASSUME TypeOK, Suspended, BeneathRemembered, [Next]_vars
  PROVE  BeneathRemembered'
  <1>1. CASE Beside
    BY <1>1, BeneathFrame
    DEF Beside, PanicMark, DirectRules, DirectClearMarker, RulesFlushed, PanicCleanup,
        ProvidersRotate, daemon
  <1>2. CASE Lifecycle
    <2>1. ASSUME Forget PROVE BeneathRemembered'
      BY <2>1, NothingBeneath DEF Forget, WindowActive
    <2>2. QED
      BY <1>2, <2>1, BeneathFrame DEF Lifecycle, Start, StartRefused, Stop, Crash
  <1>3. CASE Observation
    <2>1. ASSUME pc \in Readable, UNCHANGED windowVs PROVE BeneathRemembered'
      BY <2>1, NothingBeneath DEF Suspended, LookupSuspended, WindowActive
    <2>2. CASE GeoTickSuspended \/ GeoTickLookup
      BY <2>2, BeneathFrame DEF GeoTickSuspended, GeoTickLookup
    <2>3. ASSUME NEW ok \in Outcome, GeoTickLift(ok) PROVE BeneathRemembered'
      BY <2>3, BeneathFrame DEF GeoTickLift
    <2>4. ASSUME NEW recut \in Outcome, NEW ok \in Outcome, NEW a \in LedgerAnswers,
                 LookupFailed(recut, a, ok)
          PROVE  BeneathRemembered'
      BY <2>4, BeneathFrame, GrantRemembers DEF LookupFailed, NoAutoWindow
    <2>5. QED
      BY <1>3, <2>1, <2>2, <2>3, <2>4 DEF Observation, LookupSucceeded, StartupLookup, Readable
  <1>4. CASE Watching
    <2>1. ASSUME NEW changed \in BOOLEAN, NEW ok \in Outcome, NEW okWindow \in Outcome,
                 NEW a \in LedgerAnswers, TunnelDownSample(changed, ok, a, okWindow)
          PROVE  BeneathRemembered'
      BY <2>1, BeneathFrame, GrantRemembers DEF TunnelDownSample, DropEdge, NoAutoWindow
    <2>2. QED
      BY <1>4, <2>1, BeneathFrame DEF Watching, TunnelUpSample, FinishAutoArm
  <1>5. CASE Windows
    <2>1. ASSUME NEW ok \in Outcome,
                 SocketOpenSwitch(ok) \/ FileOpenSwitch(ok) \/ SocketPause(ok) \/ FilePause(ok)
          PROVE  BeneathRemembered'
      BY <2>1, OpeningRemembers DEF SocketOpenSwitch, FileOpenSwitch, SocketPause, FilePause
    <2>2. ASSUME NEW ok \in Outcome, CancelWindow(ok) \/ WindowTimer(ok)
          PROVE  BeneathRemembered'
      BY <2>2, ClosingRemembers DEF CancelWindow, WindowTimer
    <2>3. ASSUME NEW allowed \in BOOLEAN, NEW ok \in Outcome, FinishCloseProbe(allowed, ok)
          PROVE  BeneathRemembered'
      BY <2>3 DEF FinishCloseProbe, BeneathRemembered, WindowActive, TypeOK
    <2>4. QED
      BY <1>5, <2>1, <2>2, <2>3, BeneathFrame DEF Windows, WindowDiscovery
  <1>6. CASE Operator
    <2>1. ASSUME NEW ok \in Outcome, SocketBlock(ok) \/ SocketUnblock(ok)
          PROVE  BeneathRemembered'
      BY <2>1, NothingBeneath DEF SocketBlock, SocketUnblock, WindowActive
    <2>2. ASSUME NEW a \in LedgerAnswers, NEW ok \in Outcome, HoldCancel(a, ok)
          PROVE  BeneathRemembered'
      BY <2>2, BeneathFrame, RetryRemembers DEF HoldCancel, NoAutoWindow
    <2>3. QED
      BY <1>6, <2>1, <2>2, BeneathFrame DEF Operator, HoldArm, Reload
  <1>7. CASE Maintenance
    <2>1. ASSUME NEW a \in LedgerAnswers, NEW ok \in Outcome, RedialRetry(a, ok)
          PROVE  BeneathRemembered'
      BY <2>1, RetryRemembers DEF RedialRetry
    <2>2. QED
      BY <1>7, <2>1, BeneathFrame DEF Maintenance, VerifyTick, EndpointRefresh
  <1>8. CASE UNCHANGED vars
    BY <1>8, BeneathFrame DEF vars
  <1>9. QED
    BY <1>1, <1>2, <1>3, <1>4, <1>5, <1>6, <1>7, <1>8 DEF Next

\* A window that closes leaves the posture beneath it, or is closed early.
LEMMA ClosesHome ==
  ASSUME TypeOK, Suspended, BeneathRemembered, [Next]_vars,
         WindowActive, ~WindowActive', pc' # "down", blocked' # blocked
  PROVE  closeProbe /\ ~closeProbe' /\ ~blocked'
  <1>1. ASSUME UNCHANGED window PROVE FALSE
    BY <1>1 DEF WindowActive
  <1>2. CASE Beside
    BY <1>2, <1>1
    DEF Beside, PanicMark, DirectRules, DirectClearMarker, RulesFlushed, PanicCleanup,
        ProvidersRotate, daemon
  <1>3. CASE Lifecycle
    BY <1>3, <1>1 DEF Lifecycle, Start, StartRefused, Stop, Crash, Forget
  <1>4. CASE Observation
    <2>1. pc \notin Readable
      BY DEF Suspended, LookupSuspended
    <2>2. QED
      BY <1>4, <1>1, <2>1
      DEF Observation, GeoTickSuspended, GeoTickLookup, GeoTickLift, LookupFailed,
          LookupSucceeded, StartupLookup, Readable
  <1>5. CASE Watching
    BY <1>5 DEF Watching, TunnelUpSample, TunnelDownSample, FinishAutoArm
  <1>6. CASE Windows
    <2>1. ASSUME NEW ok \in Outcome, CancelWindow(ok) \/ WindowTimer(ok) PROVE FALSE
      BY <2>1, ClosingRemembers DEF CancelWindow, WindowTimer
    <2>2. ASSUME NEW allowed \in BOOLEAN, NEW ok \in Outcome, FinishCloseProbe(allowed, ok)
          PROVE  closeProbe /\ ~closeProbe' /\ ~blocked'
      BY <2>2 DEF FinishCloseProbe, TypeOK
    <2>3. QED
      BY <1>6, <2>1, <2>2
      DEF Windows, SocketOpenSwitch, FileOpenSwitch, SocketPause, FilePause, WindowDiscovery
  <1>7. CASE Operator
    BY <1>7, <1>1 DEF Operator, SocketBlock, SocketUnblock, HoldArm, HoldCancel, Reload
  <1>8. CASE Maintenance
    BY <1>8, <1>1 DEF Maintenance, RedialRetry, VerifyTick, EndpointRefresh
  <1>9. QED
    BY <1>2, <1>3, <1>4, <1>5, <1>6, <1>7, <1>8, <1>1 DEF Next, vars

LEMMA BeneathInit == Init => Suspended /\ BeneathRemembered
  BY DEF Init, Suspended, LookupSuspended, NothingWhenDown, BeneathRemembered, WindowActive,
         Readable

\* Where commands come in one way, a window closes onto the posture it was opened over,
\* through every extension, takeover, failed revert, panic and reload in between; only the
\* early close turns a full block into the guard, and only one no operator holds.
THEOREM WindowsRevertHome ==
  ASSUME OneWayIn
  PROVE  Spec => WindowRevertsHome
  <1> DEFINE Inv == TypeOK /\ Hold /\ BeneathRemembered
  <1>1. Init => Inv
    BY InitType, BeneathInit DEF Init, Hold, HoldIsBare, BlockNeedsSocket, WindowActive
  <1>2. Inv /\ [Next]_vars => Inv'
    BY StepType, HoldStep, SuspendedStep, BlockNeedsSocketStep, BeneathStep DEF Hold
  <1>3. Inv /\ [Next]_vars =>
          [(WindowActive /\ ~WindowActive' /\ pc' # "down" /\ blocked' # blocked)
             => /\ closeProbe /\ ~closeProbe'
                /\ ~blocked' /\ ~manualBlock]_vars
    BY ClosesHome DEF Hold, HoldIsBare
  <1>4. QED
    BY <1>1, <1>2, <1>3, PTL DEF Spec, WindowRevertsHome

-----------------------------------------------------------------------------
(* What an automatic window was opened for. *)

\* What the loop's own variables say of a window that has just been opened by itself.
Earned ==
  /\ AutoWindowPossible
  /\ ~tunnelUp' \/ zombieRedialTried' \/ zombieShown'
  /\ ~holdArmed'

\* Asked again, a refusal opens a window only for the drop or the streak it was for.
LEMMA RetryEarns ==
  ASSUME TypeOK, NEW timer, NEW tried \in BOOLEAN, NEW hold \in BOOLEAN, NEW answer, NEW ok,
         RetryAutoWindow(timer, tried, hold, answer, ok),
         zombieRedialTried' = tried, UNCHANGED <<tunnelUp, zombieShown>>, holdArmed' = hold,
         window' # window
  PROVE  Earned
  <1>1. ~hold /\ AutoWindowPossible /\ ~(tunnelUp /\ ~(zombieShown \/ tried))
    BY DEF RetryAutoWindow
  <1>2. QED
    BY <1>1 DEF Earned, TypeOK

LEMMA AutoEarned ==
  ASSUME TypeOK, [Next]_vars, window' = "auto", window # "auto"
  PROVE  Earned
  <1>1. ASSUME UNCHANGED window PROVE FALSE
    BY <1>1
  <1>2. CASE Beside
    BY <1>2, <1>1
    DEF Beside, PanicMark, DirectRules, DirectClearMarker, RulesFlushed, PanicCleanup,
        ProvidersRotate, daemon
  <1>3. CASE Lifecycle
    BY <1>3, <1>1 DEF Lifecycle, Start, StartRefused, Stop, Crash, Forget
  <1>4. CASE Observation
    <2>1. ASSUME NEW recut \in Outcome, NEW ok \in Outcome, NEW a \in LedgerAnswers,
                 LookupFailed(recut, a, ok)
          PROVE  Earned
      BY <2>1, <1>1 DEF LookupFailed, NoAutoWindow, Earned, TypeOK
    <2>2. QED
      BY <1>4, <1>1, <2>1
      DEF Observation, GeoTickSuspended, GeoTickLookup, GeoTickLift, LookupSucceeded,
          StartupLookup
  <1>5. CASE Watching
    <2>1. ASSUME NEW changed \in BOOLEAN, NEW ok \in Outcome, NEW okWindow \in Outcome,
                 NEW a \in LedgerAnswers, TunnelDownSample(changed, ok, a, okWindow)
          PROVE  Earned
      BY <2>1, <1>1 DEF TunnelDownSample, DropEdge, NoAutoWindow, Earned, TypeOK
    <2>2. QED
      BY <1>5, <1>1, <2>1 DEF Watching, TunnelUpSample, FinishAutoArm
  <1>6. CASE Windows
    <2>1. ASSUME NEW trigger \in {"manual", "pause"}, NEW ok \in Outcome,
                 OpenWindow(trigger, ok)
          PROVE  FALSE
      BY <2>1 DEF OpenWindow
    <2>2. ASSUME NEW explicit, NEW ok, CloseWindow(explicit, ok) PROVE FALSE
      BY <2>2, <1>1 DEF CloseWindow
    <2>3. ASSUME NEW allowed \in BOOLEAN, NEW ok \in Outcome, FinishCloseProbe(allowed, ok)
          PROVE  FALSE
      BY <2>3, <1>1 DEF FinishCloseProbe
    <2>4. QED
      BY <1>6, <1>1, <2>1, <2>2, <2>3
      DEF Windows, SocketOpenSwitch, FileOpenSwitch, SocketPause, FilePause, CancelWindow,
          WindowTimer, WindowDiscovery
  <1>7. CASE Operator
    <2>1. ASSUME NEW a \in LedgerAnswers, NEW ok \in Outcome, HoldCancel(a, ok) PROVE Earned
      <3> DEFINE tried == zombieRedialTried /\ ~zombieHoldSuppressed
      <3>1. RetryAutoWindow(FALSE, tried, FALSE, a, ok)
        BY <2>1, <1>1 DEF HoldCancel, NoAutoWindow
      <3>2. /\ zombieRedialTried' = tried /\ holdArmed' = FALSE
            /\ UNCHANGED <<tunnelUp, zombieShown>> /\ tried \in BOOLEAN
        BY <2>1 DEF HoldCancel, TypeOK
      <3>3. QED
        BY <1>1, <3>1, <3>2, RetryEarns
    <2>2. QED
      BY <1>7, <1>1, <2>1 DEF Operator, SocketBlock, SocketUnblock, HoldArm, Reload
  <1>8. CASE Maintenance
    <2>1. ASSUME NEW a \in LedgerAnswers, NEW ok \in Outcome, RedialRetry(a, ok) PROVE Earned
      BY <2>1, <1>1, RetryEarns DEF RedialRetry, TypeOK
    <2>2. QED
      BY <1>8, <1>1, <2>1 DEF Maintenance, VerifyTick, EndpointRefresh
  <1>9. QED
    BY <1>2, <1>3, <1>4, <1>5, <1>6, <1>7, <1>8, <1>1 DEF Next, vars

\* Where commands come in one way, an automatic window opens only from healthy GUARD, for
\* a drop or a hung tunnel, and never against a held line, a manual block, a panic or
\* `vpn.redialWindow: 0'.
THEOREM AutoWindowsAreEarned ==
  ASSUME OneWayIn
  PROVE  Spec => AutoWindowEarned
  <1> DEFINE Inv == TypeOK /\ Hold
  <1>1. Init => Inv
    BY InitType, BeneathInit DEF Init, Hold, HoldIsBare, BlockNeedsSocket, WindowActive
  <1>2. Inv /\ [Next]_vars => Inv'
    BY StepType, HoldStep, SuspendedStep, BlockNeedsSocketStep DEF Hold
  <1>3. Inv /\ [Next]_vars =>
          [(window' = "auto" /\ window # "auto")
             => /\ window = "closed" /\ cfg.redial
                /\ ~standby /\ ~blocked /\ ~manualBlock /\ ~marker
                /\ sawTunnelUp /\ (~tunnelUp' \/ (zombieRedialTried' \/ zombieShown'))
                /\ ~holdArmed']_vars
    BY AutoEarned DEF Earned, AutoWindowPossible, WindowActive, Hold, HoldIsBare
  <1>4. QED
    BY <1>1, <1>2, <1>3, PTL DEF Spec, AutoWindowEarned

-----------------------------------------------------------------------------
(* How an operator's manual block ends. *)

LEMMA BlockReleased ==
  ASSUME OneWayIn, BlockNeedsSocket, TypeOK, [Next]_vars,
         manualBlock, ~manualBlock', pc' # "down"
  PROVE  WindowActive' \/ \E ok \in Outcome : SocketUnblock(ok)
  <1>1. ASSUME UNCHANGED manualBlock PROVE FALSE
    BY <1>1
  <1>2. CASE Beside
    BY <1>2, <1>1
    DEF Beside, PanicMark, DirectRules, DirectClearMarker, RulesFlushed, PanicCleanup,
        ProvidersRotate, daemon
  <1>3. CASE Lifecycle
    BY <1>3, <1>1 DEF Lifecycle, Start, StartRefused, Stop, Crash, Forget
  <1>4. CASE Observation
    BY <1>4, <1>1
    DEF Observation, GeoTickSuspended, GeoTickLookup, GeoTickLift, LookupFailed,
        LookupSucceeded, StartupLookup
  <1>5. CASE Watching
    BY <1>5, <1>1 DEF Watching, TunnelUpSample, TunnelDownSample, FinishAutoArm
  <1>6. CASE Windows
    BY <1>6, <1>1
    DEF Windows, SocketOpenSwitch, FileOpenSwitch, SocketPause, FilePause, CancelWindow,
        WindowTimer, FinishCloseProbe, WindowDiscovery, WindowActive, OneWayIn,
        BlockNeedsSocket
  <1>7. CASE Operator
    <2>1. ASSUME NEW ok \in Outcome, SocketBlock(ok) PROVE FALSE
      BY <2>1 DEF SocketBlock, TypeOK
    <2>2. QED
      BY <1>7, <1>1, <2>1 DEF Operator, HoldArm, HoldCancel, Reload
  <1>8. CASE Maintenance
    BY <1>8, <1>1 DEF Maintenance, RedialRetry, VerifyTick, EndpointRefresh
  <1>9. QED
    BY <1>2, <1>3, <1>4, <1>5, <1>6, <1>7, <1>8, <1>1 DEF Next, vars

\* Where commands come in one way, a manual block ends with an unblock, with a window the
\* operator opened over it, or with the process.
THEOREM ManualBlocksAreReleased ==
  ASSUME OneWayIn
  PROVE  Spec => ManualBlockReleased
  <1>1. Init => BlockNeedsSocket
    BY DEF Init, BlockNeedsSocket
  <1>2. BlockNeedsSocket /\ [Next]_vars => BlockNeedsSocket'
    BY BlockNeedsSocketStep
  <1>3. TypeOK /\ BlockNeedsSocket /\ [Next]_vars =>
          [(manualBlock /\ ~manualBlock' /\ pc' # "down")
             => WindowActive' \/ \E ok \in Outcome : SocketUnblock(ok)]_vars
    BY BlockReleased
  <1>4. QED
    BY <1>1, <1>2, <1>3, GuardTypeCorrect, PTL DEF Spec, ManualBlockReleased

-----------------------------------------------------------------------------
(* The zombie streak. *)

\* A streak, wherever the loop is, is one of a tunnel that reports up behind the guard;
\* the startup lookup finds none.
StreakIsLive ==
  ZombieEpisodeOpen => tunnelUp /\ ~blocked /\ ~standby /\ pc \notin {"down", "startup"}

\* No streak outlives a step that ends it.
LEMMA NoStreak == ~zombieShown' /\ ~zombieRedialTried' => StreakIsLive'
  BY DEF StreakIsLive, ZombieEpisodeOpen

\* A step that only makes less of a streak leaves it live.
LEMMA StreakFrame ==
  ASSUME StreakIsLive, UNCHANGED <<tunnelUp, blocked, standby>>,
         pc' = pc \/ pc' \notin {"down", "startup"},
         zombieShown' = zombieShown \/ zombieShown' = FALSE,
         zombieRedialTried' = zombieRedialTried \/ zombieRedialTried' = FALSE
  PROVE  StreakIsLive'
  BY DEF StreakIsLive, ZombieEpisodeOpen

\* Every step leaves a streak live.
LEMMA StreakStep ==
  ASSUME TypeOK, Suspended, BeneathRemembered, StreakIsLive, [Next]_vars
  PROVE  StreakIsLive'
  <1>1. CASE Beside
    BY <1>1, StreakFrame
    DEF Beside, PanicMark, DirectRules, DirectClearMarker, RulesFlushed, PanicCleanup,
        ProvidersRotate, daemon
  <1>2. CASE Lifecycle
    <2>1. ASSUME Forget PROVE StreakIsLive'
      BY <2>1, NoStreak DEF Forget, ResetZombie
    <2>2. ASSUME NEW sb \in BOOLEAN, NEW names \in BOOLEAN, NEW endpoints \in BOOLEAN,
                 NEW addrs \in ProviderAddrs, NEW ok \in Outcome,
                 Start(sb, names, endpoints, addrs, ok)
          PROVE  StreakIsLive'
      BY <2>2, NoStreak DEF Start, StreakIsLive, ZombieEpisodeOpen
    <2>3. QED
      BY <1>2, <2>1, <2>2, StreakFrame DEF Lifecycle, StartRefused, Stop, Crash
  <1>3. CASE Observation
    <2>1. CASE GeoTickSuspended \/ GeoTickLookup
      BY <2>1, StreakFrame DEF GeoTickSuspended, GeoTickLookup, ResetZombie, TypeOK
    <2>2. ASSUME NEW ok \in Outcome, GeoTickLift(ok) PROVE StreakIsLive'
      BY <2>2, StreakFrame DEF GeoTickLift, EndZombieEpisode, ResetZombie, TypeOK
    <2>3. ASSUME NEW recut \in Outcome, NEW ok \in Outcome, NEW a \in LedgerAnswers,
                 LookupFailed(recut, a, ok)
          PROVE  StreakIsLive'
      <3>1. CASE tunnelUp /\ ~blocked
        BY <2>3, <3>1
        DEF LookupFailed, StreakIsLive, Suspended, LookupSuspended, Readable
      <3>2. CASE EndZombieEpisode
        BY <3>2, NoStreak DEF EndZombieEpisode, ResetZombie
      <3>3. QED
        BY <2>3, <3>1, <3>2 DEF LookupFailed
    <2>4. ASSUME NEW v \in Verdicts, NEW recut \in Outcome, NEW ok \in Outcome,
                 LookupSucceeded(v, recut, ok)
          PROVE  StreakIsLive'
      BY <2>4, NoStreak DEF LookupSucceeded, EndZombieEpisode, ResetZombie
    <2>5. ASSUME NEW v \in Verdicts \cup {"error"}, NEW ok \in Outcome, StartupLookup(v, ok)
          PROVE  StreakIsLive'
      BY <2>5, NoStreak DEF StartupLookup, StreakIsLive, ZombieEpisodeOpen
    <2>6. QED
      BY <1>3, <2>1, <2>2, <2>3, <2>4, <2>5 DEF Observation
  <1>4. CASE Watching
    <2>1. ASSUME NEW changed \in BOOLEAN, NEW ok \in Outcome, TunnelUpSample(changed, ok)
          PROVE  StreakIsLive'
      BY <2>1 DEF TunnelUpSample, StreakIsLive, ZombieEpisodeOpen
    <2>2. ASSUME NEW changed \in BOOLEAN, NEW ok \in Outcome, NEW okWindow \in Outcome,
                 NEW a \in LedgerAnswers, TunnelDownSample(changed, ok, a, okWindow)
          PROVE  StreakIsLive'
      BY <2>2, NoStreak DEF TunnelDownSample, ResetZombie
    <2>3. ASSUME NEW known \in BOOLEAN, NEW ok \in Outcome, FinishAutoArm(known, ok)
          PROVE  StreakIsLive'
      BY <2>3, NoStreak
      DEF FinishAutoArm, StreakIsLive, ZombieEpisodeOpen, Suspended, LookupSuspended
    <2>4. QED
      BY <1>4, <2>1, <2>2, <2>3 DEF Watching
  <1>5. CASE Windows
    <2>1. ASSUME NEW ok \in Outcome, CancelWindow(ok) \/ WindowTimer(ok) PROVE StreakIsLive'
      <3>1. blocked' = blocked
        BY <2>1, ClosingRemembers DEF CancelWindow, WindowTimer
      <3>2. QED
        BY <2>1, <3>1, StreakFrame DEF CancelWindow, WindowTimer
    <2>2. ASSUME NEW allowed \in BOOLEAN, NEW ok \in Outcome, FinishCloseProbe(allowed, ok)
          PROVE  StreakIsLive'
      BY <2>2 DEF FinishCloseProbe, StreakIsLive, ZombieEpisodeOpen
    <2>3. QED
      BY <1>5, <2>1, <2>2, StreakFrame
      DEF Windows, SocketOpenSwitch, FileOpenSwitch, SocketPause, FilePause, WindowDiscovery
  <1>6. CASE Operator
    <2>1. ASSUME NEW ok \in Outcome, SocketBlock(ok) PROVE StreakIsLive'
      <3>1. CASE blocked \/ ~ok
        BY <2>1, <3>1 DEF SocketBlock, StreakIsLive, ZombieEpisodeOpen, TypeOK
      <3>2. CASE ~(blocked \/ ~ok)
        BY <2>1, <3>2, NoStreak DEF SocketBlock, ResetZombie
      <3>3. QED
        BY <3>1, <3>2
    <2>2. ASSUME NEW ok \in Outcome, SocketUnblock(ok) PROVE StreakIsLive'
      <3> DEFINE release == cfg.autoArm /\ ~tunnelUp /\ ~standby
      <3>1. CASE release /\ ok
        BY <2>2, <3>1, NoStreak DEF SocketUnblock, ResetZombie
      <3>2. CASE ~(release /\ ok)
        BY <2>2, <3>2 DEF SocketUnblock, StreakIsLive, ZombieEpisodeOpen, TypeOK
      <3>3. QED
        BY <3>1, <3>2
    <2>3. ASSUME NEW a \in LedgerAnswers, NEW ok \in Outcome, HoldCancel(a, ok)
          PROVE  StreakIsLive'
      BY <2>3, StreakFrame DEF HoldCancel, TypeOK
    <2>4. QED
      BY <1>6, <2>1, <2>2, <2>3, StreakFrame DEF Operator, HoldArm, Reload
  <1>7. CASE Maintenance
    BY <1>7, StreakFrame DEF Maintenance, RedialRetry, VerifyTick, EndpointRefresh
  <1>8. CASE UNCHANGED vars
    BY <1>8, StreakFrame DEF vars
  <1>9. QED
    BY <1>1, <1>2, <1>3, <1>4, <1>5, <1>6, <1>7, <1>8 DEF Next

\* The diagnosis of a hung tunnel never outlives the tunnel or the guard, through every
\* drop, block, window, hold and failed change: a liveness redial is for a live streak.
THEOREM StreaksNeedTheirTunnel == Spec => []ZombieNeedsTunnel
  <1> DEFINE Inv == TypeOK /\ Suspended /\ BeneathRemembered /\ StreakIsLive
  <1>1. Init => Inv
    BY InitType, BeneathInit DEF Init, StreakIsLive, ZombieEpisodeOpen
  <1>2. Inv /\ [Next]_vars => Inv'
    BY StepType, SuspendedStep, BeneathStep, StreakStep
  <1>3. Inv => ZombieNeedsTunnel
    BY DEF StreakIsLive, ZombieNeedsTunnel
  <1>4. QED
    BY <1>1, <1>2, <1>3, PTL DEF Spec
=============================================================================
