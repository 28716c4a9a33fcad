# A verification development for dezhban

dezhban is a VPN kill switch: a daemon that installs firewall rules so that traffic leaves a
host only through a VPN tunnel (GUARD), and cuts even the tunnel when its exit turns out to be
in a forbidden country (FULL BLOCK). What can be wrong in it is a matter of order: a lookup that
answers after the operator has acted, a window that closes onto the wrong posture, a hold that
is spent by the wrong event, a firewall call that fails in the middle, a second process that
writes the same file. These modules describe that behaviour in TLA+; TLC checks it on small
instances, and TLAPS proves the safety of every part for all.

Every definition is written from the Go source; `PROJECT.json` maps each one to the lines it
stands for.

## The system: parts, state, operations

| Part | Keeps | Does | Hard because |
|---|---|---|---|
| `internal/runner` - the run loop (`runGuard`) | posture (`standby`, `blocked`, `manualBlock`), the open window, the hold, a refused redial, the zombie streak, tunnel, endpoint and provider sets | the only goroutine that calls the firewall; one `select` over tunnel samples, commands, reloads and eight timers and tickers | some cases wait for the network half-way; every firewall call may fail; many flags must agree |
| `internal/decision` | the committed verdict and a streak | hysteresis over exit-country readings | thresholds, failed lookups in between, replacement by a reload |
| `internal/redial` | a rolling ledger of automatic windows, a backoff | says whether a drop may open a window, for how long, or when next | clock arithmetic at boundaries, refusals that must not compound |
| `internal/netdetect` | the last tunnel state, debounce counters, the endpoint set | samples interfaces and sockets, resolves servers | debounced edges, unknown samples, a busy reader, sets that grow and shrink |
| `internal/armed`, `internal/learned` | small files | prove that a tunnel was once up; remember servers by profile | two processes read, change and replace the same file |
| `internal/monitor` | nothing | asks geo providers for the exit country, with fallback and quorum | slow, wrong or disagreeing providers; answers that are refusals |
| `internal/firewall` | the host's rules | three policies, three renderers, three backends | partial failure; state of the host that has to be restored |
| `internal/applied` | a record of the rules installed last | written round every firewall call | crashes and failed saves between rules and record |
| `internal/state` and the publisher | the snapshot | reports the posture to the CLI and the menu bar | a slow disk; a shutdown that must not wait for it |
| `internal/control`, `internal/command` | a queue of requests; one file | the two ways in for commands | timeouts for requests that still run; a file written, read and removed by different processes |
| `cmd/dezhban` beside the daemon | the panic marker | `panic`, `unblock --force`, `block --force` | two steps (marker and rules) against a live loop |
| `internal/lock`, `internal/svc`, `cmd/dezhban` service commands | the instance lock, launchd's job, the socket | start, stop, restart, install, uninstall | two daemons in the middle of a handover |
| `cmd/dezhban/upgrade.go` | staged package, rollback stash | download, apply, activate, roll back | interruption at every step |
| `internal/config`, `config_cmd`, presets | the file, the running configuration | load, normalise, validate, write, reload, report | several writers of one file, what a reload takes and what waits for a restart |
| `internal/setup` | the answers | a wizard over an existing configuration | a second pass through the questions; fields the user never saw |
| `internal/logging`, `logread` | the log and its archives | rotate by size, read the chain | failing renames; a reader in another process |
| help, render, redact, schema, VPN import, GUI | - | text and presentation | - |

How they interact: the loop receives tunnel samples, control requests, file commands and reloads
over channels; it calls the firewall and the geo lookup synchronously; it hands a snapshot to the
publisher after each change. The commands beside the daemon share only the firewall, the marker
and the record of rules with it. After a crash nothing survives but the rules and the files.

What makes each correct: the rules are never laxer than the posture the daemon reports, unless
it also reports an error (the loop); a verdict flips after exactly the configured number of
agreeing readings (decision); what an operator asked for stands until an operator ends it
(manual block, hold, panic); an automatic relaxation is earned, single and bounded (redial);
recovery is always possible once its causes are gone (liveness of the loop, the watcher, the
publisher); what a file records is true or absent (applied, learned, log); an answer means what
it says (control, config reports); a handover leaves one enforcer (service); a firewall is
given back as it was found (backends).

## The modules

| Module | Models | Notes |
|---|---|---|
| `Hysteresis`, `Decision` | `internal/decision`: `New`, `Evaluate`, `Pending`; a decider under readings, failures and reloads | two history variables record what the readings agreed on |
| `Guard` | the run loop, the firewall, the panic marker and the commands beside the daemon | one action per `select` case or command |
| `Drops` | `Guard` with a history variable for the tunnel drop it is in | |
| `KillSwitch` | the promise of the posture diagram, abstractly | stands for no code |
| `GuardRefinement` | `Guard` as an implementation of `KillSwitch` | |
| `RedialLedger`, `SwitchWindow` | `internal/redial` with a clock; lengths, caps, deadlines and the timer of the three kinds of window | what Guard leaves open |
| `Watcher` | `netdetect.Watch`: debounce, the send that replaces what the loop has not heard, the loop's fold of what arrives | |
| `Endpoints` | where the guard's servers come from, the grace of those whose socket went, arming at boot and out of standby, what an early close learns | |
| `LearnedStore` | `learned.json` between the daemon's hook and `vpn forget` | two read-change-replace processes |
| `Lookups` | providers, fallback, quorum, IPv6, and the exit address the loop shows | |
| `Commands` | the control socket up to its shutdown, the client's fallback, the command file, tokens | |
| `Publisher` | the snapshot buffer, its writer, the bounded flush | |
| `AppliedRules` | `applied-rules.json` and its two writers | |
| `LogFiles` | rotation call by call, and a reader | |
| `Rulesets` | the three policies and what pf, nft and the Windows rules pass | sets of passes over small sets of flows |
| `PfAnchor`, `WfpGroup`, `Backends` | the macOS and Windows backends, call by call, dying anywhere, and what both promise | nft is one transaction |
| `Instance` | the run lock, the socket's publication and removal, launchd, start/stop/restart/install/uninstall | |
| `Upgrade` | download, apply with its stash, activation, rollback | |
| `Settings` | the configuration file, its writers, the reload and its report, presets | one key of each sort |
| `Setup` | the wizard: seeds, gates, waves, application, the lockout warning | |
| `Configuration` | `Settings` and `Setup`: what both promise of the configuration | |
| `MC...` | values for the constants; `MCDaemon` and `MCHost` put independent parts side by side | |
| `...Proofs` | the theorems: `HysteresisProofs` (lemmas), `GuardProofs` and `GuardRefinementProofs` of the loop, `SwitchWindowProofs` of the windows and their ledger, `ObserveProofs` of what the daemon observes, `FirewallProofs` of the rules and the backends, `HostProofs` of the files on the host, `ServiceProofs` of commands, snapshots and the service | |

### How `Guard` stands for the loop

* `rules` is what the firewall enforces: `none`, `guard`, `full` (FULL BLOCK) or `window`. The
  zero-tunnel standing posture of the code renders as a total cut and is `guard` here.
* `standby`, `blocked`, `manualBlock`, `enfErr`, `windowPrevBlocked`, `tunnelUp`,
  `sawTunnelUp`, `holdArmed` and the zombie variables are the code's locals. `window` is
  `windowActive` together with `windowTrigger`; `redialRefused` says a refusal stands and
  `retryArmed` that its timer runs; `zombieShown` is `dg.zombie != nil`.
* `pc` is where the loop is. Most cases are one action from `select` back to it. Those that wait
  for the network after reading their inputs are two: the exit lookup (`startup`, `geo`, and
  `lifted` when the recovery probe has lifted the block to look) and `tryAutoArm` resolving
  endpoints (`arming`). Between the two, only the commands beside the daemon can act, which is
  what the code's single goroutine allows.
* `marker` and `cli` are the panic marker file and a command half-way through: `panic` writes
  the marker and then tears down, `unblock --force` and `block` change the rules and then clear
  the marker.
* A Backend call either succeeds or leaves the old rules (`Outcome`); each handler that makes
  two calls takes two outcomes. How a call gets there is `PfAnchor` and `WfpGroup`.
* `providers` says whether FULL BLOCK carries passes for the geo providers and whether their
  addresses are still right; `ProvidersRotate` is the outside world.
* A country is the side of the blocklist it falls on; the set of tunnels and of endpoints is
  whether there is one (the sets are `Watcher` and `Endpoints`). Durations are left out: a timer
  may fire whenever it is armed, and the redial ledger answers as it likes (`LedgerAnswers`). So
  what holds here holds for every setting of the durations.

Left out of `Guard`: the last drop (reported, never acted on), the accelerated probing cadence,
the diagnostics of verification, and the loop without a watcher. `zombieChecks` stops at the
largest threshold: beyond it nothing depends on the count.

### The promise and its implementation

`KillSwitch` says what a user may rely on without knowing the loop. Its state is the posture the
daemon reports, the posture whose rules are in the firewall, whether an error is reported and
whether a panic is in force. A posture moves only in a step in which the firewall took the rules
of the new one (`Move`), along ten moves; between moves the daemon reinstalls its rules or
stricter ones (`Assert`); a change the firewall refuses moves nothing and is reported
(`Refuse`); the one moment laxer than the posture is the recovery probe (`Peek`), which is
possible only where a full block may hide the exit from the daemon itself (`Blind`).
`GuardRefinement` reads these off `Guard`'s variables - `Posture` is what `publish` computes -
and the run drops checks `Kill!KillSpec`, with nothing beside the daemon so that every change
of the rules is the loop's own. The theorem GuardImplementsKillSwitch has it for every
configuration, with whatever acts beside the daemon (`Alone` is then false).

### How `RedialLedger` and `SwitchWindow` stand for the windows

* `ledger` is the `Budget`: episodes with their start, grant and actual cost, the count of fast
  drops and the end of the cooldown. The slice is a set and the sums are counts of units; equal
  records can only be windows that cost nothing. `Grant`, `Settle` (`Close`), `Remaining` and
  `NextEligible` are its methods; the settings are read at every question, as in the code.
* `refusal` is the refusal the loop keeps with the drop it is for (`redialRefused`,
  `dropUptime`, `dropGoodExit`), tagged with the settings it was given under. A retry may come
  at any time, since a cancelled hold asks again at once. The live uptime a retry substitutes
  for a hung tunnel's is one of the drops' `Uptimes`.
* `SwitchWindow` adds the window itself. `openedAs` is history: the trigger that opened it
  first, which a takeover hides. Which postures a window may open over, and what it reverts to,
  is Guard's matter and left out here, as are authorisation and the panic marker.
* The clock counts whole units. The loop serves an expired window timer before time goes on; a
  loop that is held up by a lookup would be late by that wait. Two windows are a unit apart,
  since a tunnel has to come up and drop again between them.

### How the smaller modules stand for their code

* `Watcher`: one action per tick of `Watch` (`SampleTick`, which also covers a sample that
  cannot be taken), one for the send over a full channel (`Send` replaces what the loop has not
  heard), one for the loop's receipt (`Hear` with `reconcileTunnels`). Interfaces come and go
  freely; which of them are pinned is chosen at the start and stays.
* `Endpoints`: `Resolve` with its sources in their order of trust, discovery by owner and path of
  a socket, `reconcileWithGrace` over ages that stop just past `Grace`, arming
  (`ShouldArmAtBoot`, `tryAutoArm`), and the early close with what it teaches. A start's probe for
  tunnels may fail (`probed`), and then the start arms, as in the code.
* `LearnedStore`: each writer reads into its own copy and later replaces the file; the daemon's
  copy and the command's may be of different times. Eviction goes by age; `TTL` prunes.
* `Lookups`: a reply is what arrives, what it says of itself, its address and its country;
  each kind of provider has the refusals its parser has. `LookFails` and a look that succeeds are
  what the loop then keeps: exit address, its comparison with the next, the IPv6 shown.
* `Commands`: a request goes connect, authorise, queue, take, answer. Carrying a command out and
  delivering its answer are two steps: `Serve` leaves the reply in the channel ("answered"), and
  the server's second `select` may take the reply, the timeout or the end of its context,
  whichever it finds (`DeliverReply`, `ReplyTimesOut`, `ShuttingDown`); the daemon may also die
  there (`DaemonEnds`). `unanswered` records that a caller was let go while the loop had its
  request. The timeouts count in units, and the client's deadline is the one the client computes.
  The file is one slot with an age. A daemon that is stopped leaves both behind.
* `Publisher`: a snapshot by the loop, the drop-oldest send, the writer's failing or hanging writes;
  a stop publishes the terminal snapshot, flushes with its deadline, and only then tears the
  rules down.
* `AppliedRules`: rules first, record after, each of the two writers between its steps at any
  time. What a half-failed teardown leaves is `Partial`. A removal of the record may fail and is
  then only warned about (`Emptied`): `unremoved` says that this was the last thing tried on it.
  The renderers cannot fail, so a record that cannot be rendered is left out.
* `LogFiles`: `rotateLocked` is five actions, each of which may fail on its own, the removal of the
  oldest archive (`OldestFallsOff`) unnoticed as in the code; records are numbers, so a hole can
  be seen. `undropped` says that the oldest archive is one that should be gone.
* `Rulesets`: a policy is the inputs of `internal/firewall`'s constructors; a ruleset is the set
  of passes over flows (interface, destination, protocol, port). `Canon` is what the
  renderers make of a mapped address; the nft and Windows forms differ where the code does
  (matchers, the DNS rule).
* `PfAnchor`: `/etc/pf.conf`, its backup, the loaded main ruleset, the anchor's content and
  whether pf runs, with one action per command or file operation of `Apply`, `IsBlocked` and
  `Unblock`. `WfpGroup`: the profiles' default actions, the record of what they were, the rule
  group.
* `Instance`: a daemon is starting, has the lock, has put its socket in place ("naming"), serves
  and enforces, and ends on its own or is told to stop. The socket changes hands call by call:
  `listenSecure`'s rename (`ListenSecure`), the `Lstat` that `New` takes for its own socket's
  identity (`StartLoop`), `Stop`'s comparison (`CheckSocket`) and its removal of whatever is at
  the path by then (`RemoveSocket`), with another daemon in between. Sockets of dead daemons are
  not told apart, so a daemon may take one of them for its own where the code would not; that
  the file system gives an inode's number out again is left out. The service manager is launchd
  with KeepAlive; each command is its calls in order.
* `Upgrade`: versions are numbers; the staged package, the installed and the running version, the
  stash and the last snapshot are what `ClassifyStash` sees. An interruption may fall anywhere.
* `Settings`: one key of each sort, live, needing a restart, bounded by another. The daemon (for a
  client with the token) and a command as root write alike: read the file, set the keys,
  validate (`Begins`), save (`SaveEdit`, or `SaveFails`), each step on its own, since nothing
  locks the file; then the daemon reloads in the same turn of its loop what it finds by then
  (`AdoptWritten`), which may fail after the save. An editor replaces the file at any time.
  `outdated` is history: the writers that read the file before another saved it.
* `Setup`: the questions in their waves, what each answer gates, and `Apply` on what was there.

`MCDaemon` and `MCHost` put parts that share no variable into one run: a variable `part` is
chosen in the initial state, only that part moves, and the others rest in one initial state, so
states add up instead of multiplying. Where there is fairness, a part at rest is in a state in which
none of its fair steps would change anything (`WatcherRests` for the watcher's), so it constrains
only the part that moves: without one part's fairness, TLC refutes that part's liveness. Each part's properties are conjoined into one promise
(`WatcherPromise`, `CommandsPromise`, ...) next to its specification, or, where two parts keep one
promise, in the module that has both (`Backends`, `Configuration`).

The operators marked "Slip" before a definition are plausible mistakes in it. Nothing uses them
in the model; each property is known to fail when its slip replaces the definition.

## The runs

| Run | Module | Properties | What it shows |
|---|---|---|---|
| guard | MCGuard | TypeOK, FailClosed, ManualBlockHeld; PanicRespected, ManualBlockReleased, AutoWindowEarned, WindowRevertsHome | the postures under failing firewall calls, a panic and a foreign flush |
| beside | MCGuard | LookupSuspended, ZombieNeedsTunnel, RefusalAnswered | all clients and outsiders, failing markers and teardowns, a restricted window, lifting probes, reloads between two configurations |
| live | MCGuard | AutoWindowEnds, RulesRestored, StandbyArms, BlockLifts | liveness under `Fairness` |
| drops | MCDrops | KeepsThePromise; OneWindowPerDrop, HeldDropStaysCut | the refinement; nothing outside, so missing rules are never excused; providers rotate |
| windows | MCSwitchWindow | WindowTypeOK, WithinCap, CloseIsDue, LedgerFollowsWindow, PromisedInstantHonoured, RemainingIsHonest, RelaxationIsBounded, DeadlineOnlyExtends | all triggers, extensions, takeovers, cancellations and failing reverts over the ledger, drops of every uptime, retries, reloads of lengths, caps and settings |
| daemon | MCDaemon | AgreementDecides, FlipIsEarned; LookupsPromise, WatcherPromise, EndpointsPromise, StorePromise, PublisherPromise, ServicePromise | the daemon by itself, part by part: what it observes, what it publishes, and how many of it there are |
| host | MCHost | LogPromise, RecordPromise, UpgradePromise, CommandsPromise, RulesetsPromise, BackendsPromise, ConfigPromise | what it shares with other processes of its host, part by part |
| readings, fileswitch, panic | MCGuard | OnlyAReadingOfItsKind, ManualBlockHeld, PanicNeverUndone (each violated) | see Findings |
| knownserver | MCDaemon | LiveSocketIsEvidence (violated) | see Findings |
| knowngood | Upgrade | KnownGoodIsKept (violated) | see Findings |

Four more configurations show that exceptions the promises make are needed: TLC violates their one
property. `FreshHost.cfg` (of MCDaemon), `StaleRecord.cfg` (AppliedRules), `Unheard.cfg` (Commands)
and `OwnSocket.cfg` (Instance); see the divergences.

What the promises of daemon and host say, besides their types:

| Promise | Says |
|---|---|
| AgreementDecides | a flip is neither early nor late (FlipIsPrompt); what `status` shows as pending is what was counted (PendingIsHonest) |
| WatcherPromise | a drop is believed only after its debounce, past unknown samples; growth is told at once; the loop is told every edge; once interfaces rest, the loop guards exactly what is up |
| EndpointsPromise | a hole on the physical link, and what later runs remember, is vouched for by configuration, DNS or a VPN's own socket; a server leaves the set only for a new one and past its grace; a host where no VPN ever worked is not cut off at boot by a start whose probe for tunnels answers |
| StorePromise | what a window was opened to learn is on disk once the hook has saved; no save of the hook keeps a record past its time |
| LookupsPromise | with a quorum the country acted on is that of more than half of the answers; a provider's refusal is never a reading; the IPv6 address shown was looked up since the exit was last cut; a change of exit is reported exactly when the address differs |
| CommandsPromise | told "ok", the command was carried out, told of a refusal, it was not; carried out twice only for a caller that was let go while the loop had, or had carried out, its request; nothing from before the start is acted on; a client waits longer than the server; a configuration write over the socket proves its token |
| LogPromise | the files, but for an oldest archive that could not be removed, hold the latest history without a hole; a reader whom no rotation disturbed and no file failed sees all of it |
| RecordPromise | the record names the rules installed last, or nothing, unless two writers overlapped or its removal was the last thing tried, and failed |
| PublisherPromise | the last snapshot lands unless a write was lost; the file never goes back; a stop always gets to the teardown, whatever the disk does |
| RulesetsPromise | each VPN server is reachable in every posture of the daemon's own; GUARD and FULL BLOCK have no way around the tunnel; the three platforms pass the same; a tighter posture passes no packet a laxer one does not |
| BackendsPromise | pf: a successful Apply enforces, "blocked" means enforced, Unblock restores what the first block found, replacing rules has no gap. Windows: a teardown leaves no profile at Block that was not, drift is seen, and on the way out the default opens before the rules go |
| ServicePromise | at most one daemon enforces while every one got its lock; the last to listen can be reached, with the lock always, without it unless it came between two steps of another on the path; a stop is final; a restart that reports success has the job loaded and no old daemon counted as it; a daemon told to stop ends |
| UpgradePromise | until another version has run, the one that works is on disk or in the stash |
| ConfigPromise | what runs is valid; a preset is refused up front or applies whole; a reply names exactly what is still pending; a write keeps other keys, unless another saved the file since it was read. Wizard: what a screen collected is saved, what was not asked is untouched, pressing Enter throughout changes nothing, a lockout is warned of |

Bounds. `Guard` has no unbounded variable besides the streak counters, which stop at the
threshold, so every run explores its whole state space. One daemon, one command beside it at a
time: the commands touch only the rules and the marker, and the marker is a single file. A
threshold of 2 separates "one reading" from "enough readings"; `beside` uses 1, where a single
failed lookup is a streak. The two configurations of `beside` differ in every key the loop
reads. Only `drops` has to do without other programs flushing the firewall.

The clock of `windows` stops at 6 (`MaxNow`), with a redial window of 3, a budget of 3 per 4
units and a smallest grant of 2: a budget is spent, refills while a window is open or refused and
is spent again, with grants shortened by what remains, and every cap plus one retry fits. The
other setting switches redials off. A reload between two settings that both allow windows but
differ in budget is not in the run. It stops because the clock does, so deadlock is not checked.

In `daemon`, two interfaces, of which one or none is pinned, show growth, partial and
total loss; a debounce of 2 separates one sample from enough. Three servers are one with a name, one
of a VPN's socket and one inside the tunnel; a grace of 1 separates "within" from "past". The
store has two profiles and one server each, so every record of a second evicts. Four providers
are one of each kind of parser, and a majority of four differs from half. A buffer of 2 and six
snapshots (`MaxSnapshots`) overflow and flush; two daemons hand over. In `host`, two callers
and a queue of one let a request meet a full queue, a late answer and a closing server; a log of
two archives with one record a file fills and rotates in five records; two rulesets are enough for
a record to be wrong; flows have two tunnels, five destinations, three protocols and three ports,
among them each exception of the rules; three versions are a good, a broken and a newer one;
windows and caps are 0, 1 and 2, of which 0 is the unset one, and a writer of each kind is at work
beside an editor. `host` stops where its bounds do (the log) and the wizard ends, so deadlock is
not checked.

Fairness. `live`: a lookup ends because its context has a deadline: weak fairness of its failing.
The `select` picks uniformly among the cases that are ready, and a ticker or an expired
timer stays ready until it is served: strong fairness of each of them. A firewall call that is
tried again and again does succeed in the end: the fairness is on the successful step, and is
the one assumption about the host. `RulesRestored` assumes verification is on
(`vpn.advanced.verifyInterval`, the default). `BlockLifts` says in its antecedent what the world
must do: from some point on every lookup that is made succeeds with an allowed exit. `daemon`:
the watcher's ticker fires and its goroutine and the loop run (weak fairness of sampling, sending
and hearing); the publisher's sends and the two ends of a flush, of which one is a timer; a
service stop's timeout. `host` needs none. The writer itself is given none: a disk may hang for ever.

## What is proved

Every invariant and every action property of the passing runs is proved, for every value of the
constants; where it needs an assumption, the theorem states it. What the constants themselves are
assumed to be is named next to them and is what the code gives:

* configurations and thresholds are what the validation lets through (`ConfigAssumption`,
  `ThresholdsAssumption`, `SettingsAssumption`, `SetupAssumption`, `CapsAssumption`, ...);
* a caller, a daemon, an address and a country are none of the words the model writes for "no
  such" ("nobody", "stale", "missing", "none"); sockets, rules and tunnels are made of the
  addresses and interfaces there are, and there is at least one destination and one protocol;
* profiles and servers are finitely many (`StoreAssumption`), since the store is cut to its newest;
* the log keeps one archive or two (`FileBackups` is the constant 2 in `logging/file.go:22`). With
  three, a failing rename can leave a hole between the archives, so this one is needed.

* `ObserveProofs`, the decider: type correctness and all properties of the decider. The inductive
  invariant adds to the properties that the counters and the history tell the same story
  (`Consistent`): being in the middle of a count is the same as the latest readings
  contradicting the committed verdict.
* `GuardProofs!GuardTypeCorrect`: the type invariant, one lemma per action.
* `GuardProofs!PanicIsRespected`: the action property PanicRespected, for all configurations and
  outsiders, as long as the marker file can be written and removed. It needs no invariant: every
  handler reads the marker itself.
* `GuardProofs!LookupIsSuspended`: no lookup is in flight in standby, in a window or under a
  manual block. Inductive once a stopped process is known to hold nothing (`NothingWhenDown`).
* `GuardProofs!SocketBlockIsHeld`: ManualBlockHeld, where commands come in one way, by the socket
  or by the file (`OneWayIn`; the file alone has no block to hold, `BlockNeedsSocket`). The
  strengthening (`HoldIsBare`) is that a manual block lies bare - no window above it, no
  standby - and that standby has nothing beneath it; it uses LookupSuspended, because a reading
  in flight is what would lift the block. The run fileswitch shows the assumption is needed.
* `SwitchWindowProofs!LedgerTypeCorrect`, under `SettingsAssumption` (what validateSwitchWindow
  enforces) and `NumbersAssumption`: that the sums are numbers and the promised instants exist
  needs the episodes to be finite, which is the invariant's one addition to TypeOK. The prover
  has no induction here; that a finite set has a maximum comes from the strict subsets of a
  finite set being well-founded (`SetMaximum`).
* `SwitchWindowProofs!LedgerRemainingIsHonest`: what a snapshot says remains is what a decision
  grants from; it follows from the types, since with no window open there is nothing to settle.
* `SwitchWindowProofs!LedgerBoundsRelaxation`: RelaxationIsBounded, for any finitely many settings
  the file may hold. The ledger's own sum does not give it: an episode leaves the books whole
  when its start is an interval old, and the rest of it, still inside the interval, is then on
  no account. The inductive invariant (`BoundInv`) says what makes up for it: an episode on the
  books was relaxed for all it is charged for (`Recorded`), so a relaxed instant on no account
  has only relaxed instants before it in the interval (`LeavesInOrder`). When a window is
  granted, either everything the interval holds is on account, and fits the budget with the
  grant, or each instant the grant adds is paid for by the relaxed one an interval before it
  (`GrantWithin`); the invariant says it of every interval that has begun (`WithinBudget`), and
  a close or a tick only takes instants away.
* `SwitchWindowProofs!LedgerHonoursItsPromise`: PromisedInstantHonoured. A refusal leaves the
  ledger aged and nothing changes it while the refusal stands, so its instant is the one
  NextEligible still works out (`PromiseInv`). By then every episode that had to go is off the
  books and what is left can be afforded (`Affordable`, from the oldest one left); before it,
  one of them is still there with all that came after it (`NotAffordable`).
* `SwitchWindowProofs`, the windows, also under `CapsAssumption` and `LengthsAssumption`: the window
  properties of the run windows, for all lengths and caps. WithinCap, CloseIsDue and
  LedgerFollowsWindow are inductive together with the types (`WindowInv`): a grant is no longer
  than the configured window, which is within its cap; an extension stays within the cap fixed
  at the first open; a window that is extended is no longer the automatic one the books describe.

* `GuardProofs`, the windows: the other safety properties of the runs guard and beside. RefusalAnswered
  is inductive with the types. WindowRevertsHome needs that the posture beneath an open window
  is the one it was opened over (`BeneathRemembered`), which holds because no reading is acted on
  while it is open (LookupSuspended) and a block waits for its end; that the early close spares a
  manual block is HoldIsBare again. ZombieNeedsTunnel becomes inductive when it is said of the
  loop at every place, not only in its select (`StreakIsLive`), and uses BeneathRemembered,
  since a window that reverted to a block would leave a streak under it. AutoWindowEarned and
  ManualBlockReleased say what one step may do, from the types and HoldIsBare; ManualBlockReleased,
  AutoWindowEarned and WindowRevertsHome are under `OneWayIn` too: with both ways in TLC refutes
  each, because what the socket blocked the file's `switch` and `pause` do not know of.
* `GuardRefinementProofs!GuardImplementsKillSwitch`: Guard implements KillSwitch. Each handler is
  shown to be one of the promise's kinds of step (`Allowed`; `MoveAllowed`, `AssertAllowed` and
  `RefuseAllowed` say when). What is needed of the state (`Sound`): nothing lies beneath standby
  and no window above it, so a move out of it lays nothing open; no lookup is in flight where it
  must not move the posture; a command half-way through is an outsider's.
* `GuardRefinementProofs!FailsClosed`: FailClosed, from the refinement. Its inductive form
  (`Covered`) drops the excuse of a reported error: rules are at least as strict as the posture,
  error or not, because a refused change leaves what was there. The one step of the promise that
  moves a posture without rules is a window closed on the books under a panic (`CloseBooks`);
  there the panic's teardown has already taken the rules (`PanicTookTheWindow`). Assumed are the
  providers' passes (without them a lifted probe whose re-cut fails is laxer, see the
  divergence at runner.go:3467), working markers and teardowns, and no direct `block`.

* `HostProofs!RecordKeepsPromise`: of the writers at most one is between its rules and its record
  (`OneAtATime`), and it holds what is installed; that makes RecordIsTrue inductive. A removal
  that failed leaves a record known to be untrusted until the next one is saved or removed; `StaleRecord.cfg`
  shows that this exception is needed.
* `HostProofs!UpgradeKeepsPromise`: while only the first version has run, it is what the last
  snapshot names, so an earlier stash of it is never called obsolete; it is copied before the
  installer runs, and by the time the command waits for health the new binary has been started
  (`RestartedIsStarted`), so a stash that is cleared was no longer the only copy.

* `GuardRefinementProofs!DropsGetOneWindow` and `HeldDropsStayCut`: the two properties of the run
  drops, with whatever acts beside the loop. A drop that was answered or that met the hold is
  settled (`DropIsSettled`): no tunnel, and no refusal to ask about. With neither, no step of the
  loop can open a window or earn a refusal (`QuietOrAsks`: who asks the ledger has a tunnel up or
  a refusal standing), so it stays settled until a tunnel is up.

What the daemon observes (`ObserveProofs`):

* `LookupsKeepPromise`. That no refusal becomes a reading is one fact of what `Once` returns
  (`ReadingIsOurs`); that a failover is noticed holds because the address remembered is the last
  good one, through failures and blocks (`LastIsKept`).
* `StoreKeepsPromise`. Two processes each replace the file by their own copy, so the invariant is
  said of both copies as well as of the file: each is within the cap. What a hook has loaded is
  older than what it records, so cutting to the newest keeps what was just learned; that the
  newest of a finite set exist is proved from the well-founded subsets, without induction.
* `EndpointsKeepPromise`. The ages the loop counts are the time its servers were last seen
  (`AgesAreTrue`), and the record of a tunnel is kept only where there was one (`RecordIsEarned`).
  FirstRunStaysOpen is of starts whose probe answers; `FreshHost.cfg` has the others.
* `WatcherIsSafe`: WatcherPromise without its convergence. The debounce counter is the number of
  latest samples that lost something (`StreakIsTrue`), and the channel, the writer and the loop
  hold the samples in the order they were taken, the newest of them always on its way.

The firewall (`FirewallProofs`):

* `RulesetsKeepPromise`. No induction: what a ruleset lets out is computed once for each
  renderer and each part of a policy, from what a rule matches (`PfMeansPolicy`,
  `NftMeansPolicy`, `RenderedMeans`), and the promise follows from the meaning of the policy.
* `PfTellsTheTruth`, for any callers and faults: each call in course knows what it has done so far
  (`Knows`), as long as nobody else undid it, and it says "applied" or "blocked" only from that.
* `PfSwapHasNoGap` is proved where the daemon alone drives pf or an Unblock gets through once
  begun, `PfRestoresWhatItFound` and with it `PfKeepsPromise` and `BackendsKeepPromise` where
  both hold. TLC refutes the properties without: a `panic` beside the daemon that meets an Apply,
  or an Unblock that dies half-way, leaves the anchor's line without a backup (see the
  divergences). The invariant (`FoundInv`) says of each step of a call what has become of
  `/etc/pf.conf` and its backup.
* `WfpKeepsPromise`, with no such assumption: the script opens the default before it removes the
  rules (`ScriptIsOrdered`), and the saved defaults are older than any block (`SnapshotIsEarlier`).

Files on the host (`HostProofs`), besides the record and the upgrade above:

* `LogKeepsPromise`. Each of the five steps of a rotation may fail: the first removes the oldest
  archive, or fails to and is taken to have (`KeptAt`), so that until the last at most one archive
  counts and nothing can end up on the wrong side of a gap (`RotationIsSafe`). A reader that no rotation disturbs has read
  the records of the files behind its cursor, in order (`ReadSoFar`).
* `SettingsKeepPromise`: what runs is what was validated last, whoever wrote the file in between.
  What a writer is about to save differs from the file as it read it in the keys it was asked to
  set only, and the file is still that one unless the writer is `outdated`.
  That presets apply whole is a fact of `Normalize` and `Valid` for every batch.
* `SetupKeepsPromise`: a gated question was asked only behind its gate (`Asking`), by the review every
  question whose gate is open was asked, what was answered is what is applied, and an outcome
  without a warning locks nobody out (`Answered`).
* `ConfigKeepsPromise`: both.

The service (`ServiceProofs`):

* `CommandsKeepPromise`. What an invocation has been told fits how often it was carried out, in
  every place it can be (`Fine`), the answer in the channel and the caller let go included; it is in
  the queue or in the file at most once; and each timer bounds what the client has waited
  (`WaitsInTime`), which gives that it outwaits the server.
  A write of the configuration over the socket is taken from the queue, where only proven ones
  get (`WriteIsProven`).
* `PublisherIsSafe`: PublisherPromise without StopTearsDown. Between the loop, the channel, the
  writer and the file each snapshot is older than the one behind it (`InOrder`), and what is
  dropped is never the newest (`LatestIsLast`).
* `ServiceIsSafe`: ServicePromise without NoZombie. Past the lock a daemon holds it (`LockIsHeld`),
  and launchd manages at most one daemon, which is what tells a restart from a start. Of the
  socket: with the lock, no other daemon is at the path at all; without it, as long as nobody
  published between two steps of another (`Undisturbed`), who is about to name or to unlink a
  socket stands before its own, so nobody removes that of the last to listen (`ListenerIsSafe`).
  `OwnSocket.cfg` shows that the exception is needed.

Only model-checked, because liveness and ENABLED are beyond the prover: AutoWindowEnds,
RulesRestored, StandbyArms and BlockLifts of the loop, and the one liveness conjunct each of
WatcherPromise (WatcherConverges), PublisherPromise (StopTearsDown) and ServicePromise (NoZombie).
The properties that are violated have their counterexamples from TLC. Where a theorem's
assumption is needed, that was seen on TLC's counterexample too: a command file for the manual
block (run fileswitch), lifted probes without provider passes for FailClosed.

## Findings

Five properties are stated as the documentation or the comments say them and are violated by what
the code does; PROJECT.json quotes both sides.

* **readings**: the decider keeps its own committed verdict, and an unblock, an early close or a
  release to standby moves the posture without it. Later a reading of a *blocked* country can
  return the stale verdict Allow and lift a block.
* **fileswitch**: a switch window opened through the command file keeps `manualBlock`, which the
  socket's twin clears; after an early close to GUARD the geo machine stays suspended.
* **panic**: the marker is read before the wait for the network and not after it. A lookup or an
  arming attempt in flight across a panic's teardown installs rules again.
* **knownserver**: an address is credited to its most trusted source, so the live socket of a VPN
  that dials a configured or learned server never counts as discovered, and the window's early
  close is not probed.
* **knowngood**: after a deferred activation and a restart by other means, a second `upgrade
  apply` clears the stash of the last version that ever reported healthy.

### Other divergences

Met while modelling, visible in the modules and without a run of their own. The first four are what
the promises of their modules except, each with a configuration in which TLC finds it:

* `runner.go:805`, `FreshHost.cfg`: when the probe for tunnel interfaces fails, a start arms at
  once, deliberately fail-closed, and asks nothing about earlier tunnels; `config.md:204` promises
  that "a host whose VPN has never connected, still starts in STANDBY regardless".
* `recording.go:112`, `StaleRecord.cfg`: a removal of the record that fails, as it does in the very
  directory in which saving failed, is only warned about, and the record goes on naming rules
  that are gone ("a stale ruleset cannot be read as current", `applied.go:104`).
* `server.go:246`, `Unheard.cfg`: "daemon shutting down" and the reply timeout are answered also of
  requests the loop has carried out; the client reads every such answer as "not a decision"
  (`control_client.go:145`) and repeats the command as root.
* `server.go:176`, `OwnSocket.cfg`: `Stop` compares the path with its own socket and then removes the
  path ("remove only what we published", :164). A daemon that publishes in between loses its
  socket; it takes two daemons at once, which the lock prevents and a daemon that could not get
  any lock (`main.go:354`) does not.

* `runner.go:2901`: a refusal recorded for a hung tunnel keeps its retry timer when that tunnel
  then drops into an armed hold; the hold is spent at the drop, and the retry opens a window in
  it (`cli.md:727`: "Arm **hold the line** first and the next drop stays cut").
* `runner.go:1491`: a switch that finds an automatic window open takes it over and extends it up
  to the automatic window's cap (`redialWindowMax`), past the hard cap on manual windows
  (`config.md:347`).
* `redial.go:209`: a drop that a cooldown does not bind (its tunnel recovered) and the budget
  refuses is told an instant no earlier than the cooldown's end; asked before it, the ledger may
  open. PromisedInstantHonoured leaves this case out.
* `runner.go:1339`: while a window is overdue because its revert failed, refreshing the rules of
  a restricted window clears the enforcement error, so the overdue window is not reported until
  the next retry.
* `runner.go:3024`: the provider refresh applies FULL BLOCK whenever `blocked` is set, also
  under a window opened over a block, which then has no window rules although "a window owns the
  rules" (:1283).
* `runner.go:3452`: after the providers' addresses rotated during a block, the probe goes on
  through the stale passes and does not fall back to lifting, as the comment at :3026 expects.
* `runner.go:3467`: a lift that fails after a failed re-cut clears the enforcement error while
  the guard, not the block, is installed. This is why the FailClosed runs give the block its
  provider passes (`ProviderAddrs = {"live"}`).
* `runner.go:2856`: a pause through the command file drops the hold even if the window could not
  be opened (ManualBlockReleased with `Clients = {"socket", "file"}`).
* `runner.go:2212`: a manual block ends a zombie streak and leaves the refusal it earned.
* `runner.go:902`: a passive start whose clearing of old rules fails reports standby with rules
  in force and no error.
* `runner.go:2258`: a block in standby followed by an unblock with a tunnel up arms the guard
  with no endpoints.
* `watch.go:48` says the debounce counts "consecutive down samples"; the loss of one of several
  tunnels counts too.
* `learned.go:107`: learned servers in live use never get their last-seen time refreshed, though
  `config.md:352` reads as if use kept them. The hook and `vpn forget` can overwrite each
  other's change (`main.go:471`).
* `monitor.go:88`: in quorum mode one provider decides when the others fail (`config.go:327`).
* `command.go:106`: a command written between the daemon's read and its removal of the file is
  lost, though `control_client.go` says "that file is durable, so the loop honors it on its next
  poll". `forget-learned` through the file is not supported by the loop.
* `logread.go:15`: a reader that races a rotation can miss records without saying so.
  HistoryHasNoHole rests on keeping at most two archives.
* `backend.go` of pf, ~130: an Unblock beside the daemon (panic) that meets an Apply, or a crash
  inside Unblock, leaves the anchor's line in `/etc/pf.conf` without a backup; an administrator's
  edits made while blocked are reverted.
* Windows: a crash between the script and the record leaves a stale record; a failing Apply can
  leave the default block with no rules; replacing rules has a moment without them.
* `policyset.go:13`: the preview shows "exactly what the daemon would install", without tunnel
  groups and provider addresses.
* `upgrade.go:86`: an interrupted download leaves its package staged, and apply does not verify
  it again; the health check may take the old daemon's last snapshot for proof; a failed
  installer leaves a stash of the running version, and later applies are refused; `:451` says
  "up to 30s if teardown is slow" and the wait gives up after 5 s.
* `setup/answers.go:182`: an explicit empty `blockedCountries: []` becomes nil and is restored to
  the default list when the wizard saves, although `config.go:1069` calls it "a deliberate choice
  to block nothing". EnterChangesNothing leaves this case out. In automatic mode the wizard
  makes no lockout check, and hostnames are never checked.
* A privileged `config set` and the daemon's own write each read, change and save the file without
  a lock: either may undo the other's, and the daemon's reply may then be of what the other wrote
  (`runner.go:2161`: "Adopt what was just written in the same turn of the loop"). `config edit` and
  the vpn commands ask for no reload.
* `file.go:88`: a removal of the oldest archive that fails is not noticed; if the shift then fails
  too and the live file is renamed, the archives have a hole between them. HistoryHasNoHole
  leaves such an archive out of account.

## Plan

1. `Hysteresis`, `Decision`, `Guard`, `Drops` and their proofs - done.
2. `RedialLedger` and `SwitchWindow` and the proofs of their properties - done.
3. `KillSwitch` and the refinement - done, and proved with FailClosed, which is its core.
4. `Watcher`, `Endpoints`, `LearnedStore`, `Lookups` - done, and their safety proved.
5. `Commands`, `Publisher`, `AppliedRules`, `LogFiles`, `Instance`, `Upgrade` - done, likewise.
6. `Rulesets`, `PfAnchor`, `WfpGroup` - done, likewise; nft's own atomicity is its kernel's.
7. `Settings`, `Setup` - done, likewise.
8. Left for proof: what one step decides in the liveness properties (that a due timer's step is
   the one that closes, that a refresh arms), as far as it can be said without ENABLED; FailClosed
   beside a `block` command, under a weaker statement than the one TLC refutes.

## Not modelled

The diagnostics of `doctor`, `status` and `monitor`, which read and print; redaction, rendering,
help and the schema table, which are functions from text to text; the VPN client files' parser;
the several syntaxes of configuration values; log levels, filters and the fan-out to sinks;
systemd and the Windows service manager; the privilege check; the menu-bar application, which
decides nothing about the rules; packaging and scripts. In the loop: the cadence of accelerated
probing and the counters that verification reports.
