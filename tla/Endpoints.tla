----------------------------- MODULE Endpoints -----------------------------
(***************************************************************************)
(* The VPN servers the guard keeps reachable on the physical link: where   *)
(* they come from (internal/netdetect: configuration, DNS, the learned     *)
(* store, the socket table), how the run loop folds each refresh into the  *)
(* set it enforces (reconcileWithGrace), and what arming at startup and    *)
(* out of standby asks of that set.  A sighting's time is kept as its age, *)
(* which stops just past the grace.  Panic, failing lookups and the verdict *)
(* are Guard's: here a posture changes when it likes.                      *)
(***************************************************************************)
EXTENDS Naturals, FiniteSets

CONSTANTS
  Addrs,             \* server addresses
  Literals,          \* those configured as addresses
  Hosted,            \* those a configured hostname may resolve to
  Internal,          \* those inside the tunnel's own subnet
  Sockets,           \* connections of this host: [server, owner, path]
  Grace              \* vpn.endpointGrace

ASSUME EndpointsAssumption ==
  /\ Literals \subseteq Addrs /\ Hosted \subseteq Addrs /\ Internal \subseteq Addrs
  /\ Sockets \subseteq [server : Addrs, owner : {"transport", "app"}, path : {"physical", "tunnel"}]
  /\ Grace \in Nat

VARIABLES
  epPosture,         \* "down", "standby", "guard", "block" or "window"
  present,           \* a tunnel interface is up
  endpoints, age,    \* the set in force; epLastSeen, as ages
  evidence,          \* discoveredAddrs(lastSet)
  store,             \* the addresses of learned.json
  everUp, recorded,  \* armed.json; everUpRecorded of this process
  unseen,            \* history: how long ago a refresh last saw each endpoint
  vouched,           \* history: addresses a person, a name or a VPN's socket stood for
  carrying,          \* history: a VPN transport's sockets at the last refresh
  hostHadVpn         \* history: a tunnel has been up on this host

epMemory == <<endpoints, age, evidence, recorded>>
epHistory == <<unseen, vouched, carrying, hostHadVpn>>
epVars == <<epPosture, present, epMemory, store, everUp, epHistory>>

Ages == 0 .. Grace + 1
EpTypeOK ==
  /\ epPosture \in {"down", "standby", "guard", "block", "window"}
  /\ {present, everUp, recorded, hostHadVpn} \subseteq BOOLEAN
  /\ endpoints \subseteq Addrs /\ store \subseteq Addrs /\ vouched \subseteq Addrs
  /\ evidence \subseteq DOMAIN age /\ carrying \subseteq Addrs
  /\ endpoints \subseteq DOMAIN age /\ DOMAIN age \subseteq Addrs
  /\ age \in [DOMAIN age -> Ages] /\ unseen \in [Addrs -> Ages]

EpInit ==
  /\ epPosture = "down" /\ present \in BOOLEAN
  /\ endpoints = {} /\ age = [a \in {} |-> 0] /\ evidence = {} /\ recorded = FALSE
  /\ store = {} /\ everUp = FALSE /\ hostHadVpn = FALSE
  /\ unseen = [a \in Addrs |-> Grace + 1] /\ vouched = Literals /\ carrying = {}

-----------------------------------------------------------------------------
\* What a refresh can meet: the names that resolve, the live connections (none when
\* the scan of them fails or is cut short), a learned store that can be read.
Observations == [dns : SUBSET Hosted, sockets : SUBSET Sockets, readable : BOOLEAN]

\* physicalSockets: the connections that do not go through a tunnel.
Physical(sockets) == {s \in sockets : s.path = "physical"}

\* A server's connection is a VPN's when a transport holds it on the physical link.
Transports(sockets) == {s.server : s \in {t \in Physical(sockets) : t.owner = "transport"}}

\* Slip: whoever talks past the tunnel is the VPN.
AnyPhysical(sockets) == {s.server : s \in Physical(sockets)}

\* DiscoverEndpoints.
Discover(sockets) == Transports(sockets)

\* CheckEndpointRouting: what lies in the subnets of the tunnels that are up.
Inside(tunnelUp) == IF tunnelUp THEN Internal ELSE {}

\* Resolve: the union of the sources, each address credited to the most trusted one,
\* without what lies inside the tunnel.
Resolve(obs, tunnelUp) ==
  LET learned == IF obs.readable THEN store ELSE {}
      all == Literals \cup obs.dns \cup learned \cup Discover(obs.sockets)
  IN  [a \in all \ Inside(tunnelUp) |->
         IF a \in Literals THEN "literal" ELSE IF a \in obs.dns THEN "dns"
         ELSE IF a \in learned THEN "learned" ELSE "discovered"]

DiscoveredAddrs(set) == {a \in DOMAIN set : set[a] = "discovered"}

Remember(obs, set, tunnelUp) ==
  /\ unseen' = [a \in Addrs |-> IF a \in DOMAIN set THEN 0
                               ELSE IF a \in endpoints' THEN unseen[a] ELSE Grace + 1]
  /\ vouched' = vouched \cup obs.dns \cup Transports(obs.sockets)
  /\ carrying' = Transports(obs.sockets) \ Inside(tunnelUp)

\* Slips: an address is stamped once; what was seen within the grace does not ride
\* along; a refresh that only lost addresses replaces the set.
StampedOnce(fresh) ==
  [a \in DOMAIN age \cup fresh |-> IF a \in DOMAIN age THEN age[a] ELSE 0]
FreshAlone(fresh, stamped, growOnly) == fresh
ReplacedAnyway(current, fresh, growOnly) ==
  IF fresh = {} THEN current ELSE IF growOnly THEN current \cup fresh ELSE fresh

\* Every fresh address is stamped as seen now.
Stamp(fresh) == [a \in DOMAIN age \cup fresh |-> IF a \in fresh THEN 0 ELSE age[a]]

\* An address missing from a refresh rides along while within its grace.
WithRetained(fresh, stamped, growOnly) ==
  IF growOnly THEN fresh
  ELSE fresh \cup {a \in endpoints \cap DOMAIN stamped : stamped[a] <= Grace}

\* reconcileEndpoints: never to nothing, grow-only under a block or a window, and a
\* refresh that brings nothing new takes nothing away.
Reconcile(current, fresh, growOnly) ==
  IF fresh = {} \/ fresh \subseteq current THEN current
  ELSE IF growOnly THEN current \cup fresh ELSE fresh

\* reconcileWithGrace, with the sightings it keeps.
Refreshed(set, growOnly) ==
  LET stamped == Stamp(DOMAIN set)
      augmented == WithRetained(DOMAIN set, stamped, growOnly)
  IN  /\ endpoints' = Reconcile(endpoints, augmented, growOnly)
      /\ age' = [a \in DOMAIN stamped \cap (endpoints \cup augmented) |-> stamped[a]]
      /\ evidence' = DiscoveredAddrs(set)

-----------------------------------------------------------------------------
\* Slip: arming at boot asks for a VPN that once worked, not for one to dial.
ArmOnRecord(armAtBoot, known) == armAtBoot /\ everUp

\* vpn.armAtBoot overrides the probe only where a tunnel has worked and can be dialled.
ShouldArmAtBoot(armAtBoot, known) == armAtBoot /\ everUp /\ known # {}

\* The start of runGuard: resolve, decide between standby and an armed start, refuse
\* to arm with nothing to dial unless an empty start is legal and no tunnel is named.
\* Only a probe for tunnels that answers makes a start standby: one that fails arms.
StartGuard(obs, probed, autoArm, armAtBoot, relaxed, pins) ==
  LET set == Resolve(obs, present)
      standby == /\ autoArm /\ probed /\ ~present
                 /\ ~ShouldArmAtBoot(armAtBoot, DOMAIN set)
  IN  /\ epPosture = "down"
      /\ standby \/ DOMAIN set # {} \/ (relaxed /\ ~pins /\ ~present)
      /\ epPosture' = IF standby THEN "standby" ELSE "guard"
      /\ endpoints' = DOMAIN set /\ age' = [a \in DOMAIN set |-> 0]
      /\ evidence' = DiscoveredAddrs(set) /\ recorded' = everUp
      /\ Remember(obs, set, present)
      /\ UNCHANGED <<present, store, everUp, hostHadVpn>>

\* A stop or a crash: the files stay, the memory goes.
EndDaemon ==
  /\ epPosture # "down"
  /\ epPosture' = "down"
  /\ endpoints' = {} /\ age' = [a \in {} |-> 0] /\ evidence' = {} /\ recorded' = FALSE
  /\ carrying' = {} /\ unseen' = [a \in Addrs |-> Grace + 1]
  /\ UNCHANGED <<present, store, everUp, vouched, hostHadVpn>>

\* markTunnelEverUp: one attempt at the record for each process.
MarkUp ==
  /\ hostHadVpn' = TRUE
  /\ recorded' = (recorded \/ epPosture # "down")
  /\ IF recorded \/ epPosture = "down" THEN UNCHANGED everUp ELSE everUp' \in {everUp, TRUE}

\* tryAutoArm: a refresh first, and no arming while no server is known; the marker
\* or the firewall may also keep the daemon in standby.
AutoArm(obs) ==
  LET set == Resolve(obs, TRUE)
  IN  /\ Refreshed(set, FALSE) /\ Remember(obs, set, TRUE)
      /\ epPosture' \in IF endpoints' # {} THEN {"guard", "standby"} ELSE {"standby"}

TunnelUp(obs) ==
  /\ ~present /\ present' = TRUE
  /\ MarkUp
  /\ IF epPosture = "standby" THEN AutoArm(obs)
     ELSE UNCHANGED <<epPosture, endpoints, age, evidence, unseen, vouched, carrying>>
  /\ UNCHANGED store

TunnelDown ==
  /\ present /\ present' = FALSE
  /\ UNCHANGED <<epPosture, epMemory, store, everUp, epHistory>>

\* Blocks, windows, releases and reverts.
PostureMoves ==
  /\ epPosture \in {"guard", "block", "window"}
  /\ epPosture' \in {"guard", "block", "window", "standby"} \ {epPosture}
  /\ UNCHANGED <<present, epMemory, store, everUp, epHistory>>

\* Slip: an open window does not make a refresh grow-only.
BlockOnly(obs) ==
  LET set == Resolve(obs, present)
  IN  /\ epPosture # "down"
      /\ Refreshed(set, epPosture = "block") /\ Remember(obs, set, present)
      /\ UNCHANGED <<epPosture, present, recorded, store, everUp, hostHadVpn>>

\* The endpoint tick, and the faster one of a window; in standby with a tunnel up it
\* also tries to arm (with a refresh of its own, the one modelled here).
RefreshTick(obs) ==
  LET set == Resolve(obs, present)
  IN  /\ epPosture # "down"
      /\ IF epPosture = "standby" /\ present THEN AutoArm(obs)
         ELSE /\ Refreshed(set, epPosture \in {"block", "window"}) /\ Remember(obs, set, present)
              /\ UNCHANGED epPosture
      /\ UNCHANGED <<present, recorded, store, everUp, hostHadVpn>>

\* finishCloseProbe confirms the exit: the window closes and what was discovered in
\* it is learned.
CloseEarly ==
  /\ epPosture = "window" /\ evidence # {}
  /\ epPosture' = "guard" /\ store' = store \cup evidence
  /\ UNCHANGED <<present, epMemory, everUp, epHistory>>

\* vpn forget, the store's cap and its time to live.
Unlearn ==
  /\ store # {} /\ \E kept \in SUBSET store : kept # store /\ store' = kept
  /\ UNCHANGED <<epPosture, present, epMemory, everUp, epHistory>>

TimePasses ==
  /\ epPosture # "down"
  /\ age' = [a \in DOMAIN age |-> IF age[a] > Grace THEN age[a] ELSE age[a] + 1]
  /\ unseen' = [a \in Addrs |-> IF unseen[a] > Grace THEN unseen[a] ELSE unseen[a] + 1]
  /\ UNCHANGED <<epPosture, present, endpoints, evidence, recorded, store, everUp,
                 vouched, carrying, hostHadVpn>>

EpNext ==
  \/ \E obs \in Observations, probed, autoArm, armAtBoot, relaxed, pins \in BOOLEAN :
       StartGuard(obs, probed, autoArm, armAtBoot, relaxed, pins)
  \/ EndDaemon \/ TunnelDown \/ PostureMoves \/ CloseEarly \/ Unlearn \/ TimePasses
  \/ \E obs \in Observations : TunnelUp(obs) \/ RefreshTick(obs)

EpSpec == EpInit /\ [][EpNext]_epVars

-----------------------------------------------------------------------------
\* A redial is not walled off: while the daemon runs, an address leaves the set only in
\* a refresh that brought a new one, outside blocks and windows, and when no refresh has
\* seen it for longer than the grace.
ServersOutliveTheirSockets ==
  [][epPosture # "down" /\ epPosture' # "down" =>
       \A a \in endpoints \ endpoints' :
         /\ epPosture \notin {"block", "window"}
         /\ endpoints' \ endpoints # {}
         /\ unseen[a] > Grace]_epVars

\* Every address the guard passes, or remembers for later runs, was configured, named by
\* DNS, or the far end of a VPN transport's connection on the physical link: no other
\* program's traffic makes a hole in the guard.
HolesAreVouchedFor == endpoints \cup store \cup evidence \subseteq vouched

\* A host where no VPN ever worked is not cut off at boot: where the probe finds no
\* tunnel, and with automatic arming, a start enforces only where a tunnel was once up
\* and a server can be dialled.  A start whose probe fails is excepted.
FirstRunStaysOpen ==
  [][epPosture = "down" /\ epPosture' = "guard" /\ ~present =>
       \A obs \in Observations, armAtBoot, relaxed, pins \in BOOLEAN :
         StartGuard(obs, TRUE, TRUE, armAtBoot, relaxed, pins)
           => hostHadVpn /\ endpoints' # {}]_epVars

\* What discovery and reconciliation promise together.
EndpointsPromise ==
  /\ [](EpTypeOK /\ HolesAreVouchedFor)
  /\ ServersOutliveTheirSockets /\ FirstRunStaysOpen

\* "A host whose VPN has never connected, still starts in STANDBY regardless": without a
\* tunnel, and with automatic arming, whatever the probe does, no start enforces there.
FreshHostStaysOpen ==
  [][epPosture = "down" /\ epPosture' = "guard" /\ ~present =>
       \A obs \in Observations, probed, armAtBoot, relaxed, pins \in BOOLEAN :
         StartGuard(obs, probed, TRUE, armAtBoot, relaxed, pins) => hostHadVpn]_epVars

\* "A connection to a VPN-server endpoint exists this window" is what an early close asks
\* for: when the last refresh saw one, the loop has evidence.
LiveSocketIsEvidence == carrying # {} => evidence # {}
=============================================================================
