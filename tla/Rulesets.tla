------------------------------ MODULE Rulesets ------------------------------
(***************************************************************************)
(* What a posture lets out of the machine: internal/firewall's Policy, the *)
(* three constructors that build it from what is known of tunnels and      *)
(* servers (policyset.go), and the three renderers (pf, nftables, Windows  *)
(* Firewall) that turn it into rules.  A packet is an interface, a         *)
(* destination, a protocol and a port; a rule is the set of each that it   *)
(* matches, and a ruleset passes what any rule matches or, where its       *)
(* default is open, everything.  Every rule of the three renderers is a    *)
(* pass, so their order does not matter.                                   *)
(***************************************************************************)
EXTENDS Naturals, FiniteSets

CONSTANTS
  Nics,        \* interfaces; Lo is the loopback among them
  Lo,
  Classes,     \* tunnel-interface classes, such as utun
  Members,     \* the interfaces of each class
  Dests,       \* destinations a packet may have
  SixDests,    \* those that are IPv6
  Lan,         \* those inside LocalNetworkPrefixes
  L4,          \* transport protocols
  Ports, Dns   \* destination ports, and 53 among them

ASSUME RulesetsAssumption ==
  /\ Lo \in Nics /\ Dns \in Ports
  /\ Members \in [Classes -> SUBSET (Nics \ {Lo})]
  /\ SixDests \subseteq Dests /\ Lan \subseteq Dests /\ Dests # {} /\ L4 # {}

Packets == [nic : Nics, to : Dests, proto : L4, port : Ports]

\* An address as the code holds it: `mapped' is an IPv4 address in its
\* IPv4-in-IPv6 spelling.
Spellings == [addr : Dests, mapped : BOOLEAN]
Plain(as) == [addr : as, mapped : {FALSE}]

-----------------------------------------------------------------------------
(* Policies. *)

\* Slip: the spelling is left as it came.
AsTheyCome(as) == as

\* canonAddrs: every address unmapped.
Canon(as) == Plain({s.addr : s \in as})

NoInput == [tunnels |-> {}, groups |-> {}, endpoints |-> {}, dns |-> FALSE,
            lan |-> FALSE, providers |-> {}, protos |-> {}, ports |-> {}]

FullBlockOf(in) ==
  [mode |-> "full", tunnels |-> in.tunnels, groups |-> in.groups,
   endpoints |-> Canon(in.endpoints), dns |-> in.dns, lan |-> in.lan,
   providers |-> Canon(in.providers), protos |-> {}, ports |-> {}]

\* With no tunnel to pass the guard degrades to the full block.
GuardOf(in) ==
  IF in.tunnels = {} /\ in.groups = {} THEN FullBlockOf(in)
  ELSE [FullBlockOf(in) EXCEPT !.mode = "guard", !.providers = {}]

\* Slip: a restricted window that forgets the LAN the guard around it keeps.
WindowWithoutLan(in) ==
  [mode |-> "window", tunnels |-> in.tunnels, groups |-> in.groups,
   endpoints |-> Canon(in.endpoints), dns |-> FALSE, lan |-> FALSE,
   providers |-> {}, protos |-> in.protos, ports |-> in.ports]

WindowOf(in) ==
  [mode |-> "window", tunnels |-> in.tunnels, groups |-> in.groups,
   endpoints |-> Canon(in.endpoints), dns |-> FALSE, lan |-> in.lan,
   providers |-> {}, protos |-> in.protos, ports |-> in.ports]

\* forceBlockPolicy: `block --force' passes nothing but the loopback.
ForceBlock == FullBlockOf(NoInput)

Policy(p, in) == CASE p = "force" -> ForceBlock
                   [] p = "full" -> FullBlockOf(in)
                   [] p = "guard" -> GuardOf(in)
                   [] p = "window" -> WindowOf(in)

-----------------------------------------------------------------------------
(* Rules. *)

Pass == [nics |-> Nics, to |-> Plain(Dests), protos |-> L4, ports |-> Ports]

\* pf takes a mapped address for an IPv6 destination no IPv4 packet has.
Matches(r, pk) ==
  /\ pk.nic \in r.nics /\ pk.proto \in r.protos /\ pk.port \in r.ports
  /\ [addr |-> pk.to, mapped |-> FALSE] \in r.to

Lets(rs, pk) == rs.open \/ \E r \in rs.rules : Matches(r, pk)

\* A rule, if there is anything for it to match.
If(cond, r) == IF cond THEN {r} ELSE {}

PassOn(ns) == [Pass EXCEPT !.nics = ns]
PassTo(as) == [Pass EXCEPT !.to = as]
PassDns == [Pass EXCEPT !.ports = {Dns}, !.protos = L4 \cap {"udp", "tcp"}]
PassLan == PassTo(Plain(Lan))

Loopback == {PassOn({Lo})}
Unrestricted(p) == p.mode = "window" /\ p.protos = {} /\ p.ports = {}
WindowProtos(p) == IF p.protos = {} THEN L4 \cap {"udp", "tcp"} ELSE p.protos

\* Slip: the half-scoped pass ADR-0006 forbids, to the providers from anywhere.
ProvidersAnywhere(p) == If(p.providers # {}, PassTo(p.providers))

InClasses(gs) == UNION {Members[g] : g \in gs}

\* tunnelProviderRules: one rule scoped to the tunnels and to the providers.
PfProviders(p) ==
  If(p.tunnels \cup p.groups # {} /\ p.providers # {},
     [Pass EXCEPT !.nics = p.tunnels \cup InClasses(p.groups), !.to = p.providers])

\* renderRuleset: stateless quick passes, then `block drop out all'.
PfRules(p) ==
  LET tunnels   == If(p.tunnels # {}, PassOn(p.tunnels))
                     \cup If(p.groups # {}, PassOn(InClasses(p.groups)))
      endpoints == If(p.endpoints # {}, PassTo(p.endpoints))
      lan       == If(p.lan, PassLan)
  IN  [open |-> FALSE,
       rules |-> Loopback \cup
         CASE Unrestricted(p) -> {Pass}
           [] p.mode = "window" /\ ~Unrestricted(p) ->
                tunnels \cup endpoints \cup {PassDns} \cup lan
                \cup If(p.ports # {}, [Pass EXCEPT !.protos = WindowProtos(p), !.ports = p.ports])
           [] p.mode = "guard" -> tunnels \cup endpoints \cup If(p.dns, PassDns) \cup lan
           [] p.mode = "full" -> endpoints \cup PfProviders(p) \cup If(p.dns, PassDns) \cup lan]

\* emitTunnelProviders: a rule per tunnel matcher and per family.
NftFamilies(as) ==
  {f \in {{s \in Canon(as) : s.addr \in SixDests}, {s \in Canon(as) : s.addr \notin SixDests}} : f # {}}

\* Slip: the named interfaces, and the classes only where there are none.
FirstMatcher(p) == IF p.tunnels = {} THEN {Members[g] : g \in p.groups} ELSE {p.tunnels}
NftMatchers(p) == (IF p.tunnels = {} THEN {} ELSE {p.tunnels}) \cup {Members[g] : g \in p.groups}
NftProviders(p) ==
  {[Pass EXCEPT !.nics = oif, !.to = f] : oif \in NftMatchers(p), f \in NftFamilies(p.providers)}

\* renderNftRuleset: accepts in an output chain whose policy is drop.
NftRules(p) ==
  LET tunnels   == {PassOn(oif) : oif \in NftMatchers(p)}
      endpoints == {PassTo(f) : f \in NftFamilies(p.endpoints)}
      lan       == IF p.lan THEN {PassTo(f) : f \in NftFamilies(Plain(Lan))} ELSE {}
      dns       == {[Pass EXCEPT !.protos = {t}, !.ports = {Dns}] : t \in L4 \cap {"udp", "tcp"}}
      optional  == IF p.dns THEN dns ELSE {}
  IN  [open |-> FALSE,
       rules |-> Loopback \cup
         CASE Unrestricted(p) -> {Pass}
           [] p.mode = "window" /\ ~Unrestricted(p) ->
                tunnels \cup endpoints \cup dns \cup lan
                \cup {[Pass EXCEPT !.protos = {t}, !.ports = {q}] : t \in WindowProtos(p), q \in p.ports}
           [] p.mode = "guard" -> tunnels \cup endpoints \cup optional \cup lan
           [] p.mode = "full" -> endpoints \cup NftProviders(p) \cup optional \cup lan]

\* renderBlockScript: allow rules under each profile's default outbound action,
\* which only an unrestricted window leaves at Allow.  Windows matches an
\* interface by its exact alias, so a class means nothing to it.
ExpectedOutboundAction(p) == IF Unrestricted(p) THEN "Allow" ELSE "Block"

WfpProviders(p) ==
  If(p.providers # {} /\ p.tunnels # {},
     [Pass EXCEPT !.nics = p.tunnels, !.to = Canon(p.providers)])

WfpRules(p) ==
  LET tunnels   == If(p.tunnels # {}, PassOn(p.tunnels))
      endpoints == If(p.endpoints # {}, PassTo(Canon(p.endpoints)))
      lan       == If(p.lan, PassLan)
      ports     == {[Pass EXCEPT !.protos = {t}, !.ports = {q}] : t \in WindowProtos(p), q \in p.ports}
  IN  [open |-> ExpectedOutboundAction(p) = "Allow",
       rules |-> Loopback \cup
         CASE Unrestricted(p) -> {}
           [] p.mode = "window" /\ ~Unrestricted(p) ->
                tunnels \cup endpoints \cup {PassDns} \cup lan \cup ports
           [] p.mode = "guard" -> tunnels \cup endpoints \cup If(p.dns, PassDns) \cup lan
           [] p.mode = "full" -> endpoints \cup WfpProviders(p) \cup If(p.dns, PassDns) \cup lan]

\* All three refuse a guard that would pass no tunnel at all.
Refused(p) == p.mode = "guard" /\ p.tunnels = {} /\ p.groups = {}

Platforms == {"pf", "nft", "wfp"}
Rendered(os, p) == CASE os = "pf" -> PfRules(p) [] os = "nft" -> NftRules(p)
                     [] os = "wfp" -> WfpRules(p)

-----------------------------------------------------------------------------
(* A host on which the daemon moves between postures while tunnels, servers *)
(* and provider addresses come and go under it.                             *)

VARIABLES
  os,          \* the platform this host runs
  known,       \* the PolicyInput as it stands
  standing,    \* the posture in force, "none" before the first
  inForce      \* the ruleset the kernel holds

rsVars == <<os, known, standing, inForce>>

AllOpen == [open |-> TRUE, rules |-> {}]

RulesetsInit(inputs) ==
  /\ os \in Platforms /\ known \in inputs
  /\ standing = "none" /\ inForce = AllOpen

\* Backend.Apply of a posture: the rules are replaced, never stacked.
ApplyPosture(p) ==
  /\ ~Refused(Policy(p, known))
  /\ standing' = p
  /\ inForce' = Rendered(os, Policy(p, known))
  /\ UNCHANGED <<os, known>>

\* Backend.Unblock and Cleanup.
TakeDown ==
  /\ standing # "none"
  /\ standing' = "none" /\ inForce' = AllOpen
  /\ UNCHANGED <<os, known>>

\* The sets a posture is built from change, and the standing posture is applied
\* again (reapplyCurrent); `block --force' is applied beside the daemon and has
\* nothing to apply again.
Relearn(tunnels, endpoints) ==
  /\ standing # "force"
  /\ known' = [known EXCEPT !.tunnels = tunnels, !.endpoints = endpoints]
  /\ inForce' = IF standing = "none" THEN inForce ELSE Rendered(os, Policy(standing, known'))
  /\ UNCHANGED <<os, standing>>

RulesetsNext(tunnelSets, endpointSets) ==
  \/ \E p \in {"force", "full", "guard", "window"} : ApplyPosture(p)
  \/ TakeDown
  \/ \E t \in tunnelSets, e \in endpointSets : Relearn(t, e)

-----------------------------------------------------------------------------
RulesetsTypeOK ==
  /\ os \in Platforms
  /\ standing \in {"none", "force", "full", "guard", "window"}
  /\ inForce.open \in BOOLEAN
  /\ \A r \in inForce.rules : r.nics \subseteq Nics /\ r.to \subseteq Spellings

Server(pk) == \E s \in known.endpoints : s.addr = pk.to

\* The handshake survives: in every posture of the daemon's own each VPN server
\* is reachable over the physical link, however its address was spelled when it
\* was learned, or a full block would lock out the tunnel that ends it.
HandshakeSurvives ==
  standing \in {"full", "guard", "window"} =>
    \A pk \in Packets : Server(pk) => Lets(inForce, pk)

Tunnels == known.tunnels \cup InClasses(known.groups)

\* Nothing goes around the tunnel: outside a window a packet leaves on another
\* interface only for a server, for the LAN or for port 53 where those are
\* allowed; and in a full block the tunnel itself carries beyond those only
\* what is addressed to a geo provider (ADR-0006's double scoping).
NoWayAround ==
  standing \in {"full", "guard"} =>
    \A pk \in Packets :
      (Lets(inForce, pk) /\ pk.nic # Lo)
        => \/ Server(pk)
           \/ known.lan /\ pk.to \in Lan
           \/ known.dns /\ pk.port = Dns /\ pk.proto \in {"udp", "tcp"}
           \/ standing = "guard" /\ pk.nic \in Tunnels
           \/ pk.nic \in Tunnels /\ \E s \in known.providers : s.addr = pk.to

\* The three renderings mean the same: what this host lets out is what a host
\* with another firewall lets out, Windows knowing no interface classes.
PlatformsAgree ==
  standing \in {"full", "guard", "window", "force"} =>
    LET p == Policy(standing, known)
        q == IF os = "wfp" THEN [p EXCEPT !.groups = {}] ELSE p
    IN  \A pk \in Packets : Lets(inForce, pk) <=> Lets(PfRules(q), pk)

Laxity(p) == CASE p = "force" -> 0 [] p = "full" -> 1 [] p = "guard" -> 2
               [] p = "window" -> 3 [] p = "none" -> 4

\* The order of the postures is the order of what they let out: tightening the
\* posture over the same tunnels and servers never opens a packet's way.
TighteningOnlyCuts ==
  [][(inForce' # inForce /\ known' = known /\ Laxity(standing') <= Laxity(standing))
       => \A pk \in Packets : Lets(inForce', pk) => Lets(inForce, pk)]_rsVars

\* What the policies and their three renderings promise.
RulesetsPromise ==
  /\ [](RulesetsTypeOK /\ HandshakeSurvives /\ NoWayAround /\ PlatformsAgree)
  /\ TighteningOnlyCuts
=============================================================================
