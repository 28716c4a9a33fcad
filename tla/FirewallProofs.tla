--------------------------- MODULE FirewallProofs ---------------------------
(***************************************************************************)
(* The policies of the kill switch and the backends that install them, for *)
(* all interfaces, addresses, protocols, ports, profiles, callers and      *)
(* faults: every renderer lets out exactly what the policy means, the      *)
(* anchor of pf and the group of Windows are enforced when they say so,    *)
(* and nobody is left stranded.                                            *)
(***************************************************************************)
EXTENDS Backends, Rulesets, TLAPS

Rules == [nics : SUBSET Nics, to : SUBSET Spellings, protos : SUBSET L4, ports : SUBSET Ports]
Unmapped == [addr : Dests, mapped : {FALSE}]
Inputs == [tunnels : SUBSET Nics, groups : SUBSET Classes, endpoints : SUBSET Spellings,
           dns : BOOLEAN, lan : BOOLEAN, providers : SUBSET Spellings,
           protos : SUBSET L4, ports : SUBSET Ports]
\* Policies as the constructors leave them: every address unmapped.
Policies == [mode : {"full", "guard", "window"}, tunnels : SUBSET Nics, groups : SUBSET Classes,
             endpoints : SUBSET Unmapped, dns : BOOLEAN, lan : BOOLEAN,
             providers : SUBSET Unmapped, protos : SUBSET L4, ports : SUBSET Ports]

-----------------------------------------------------------------------------
(* What a rule matches.                                                    *)

Some(rs, pk) == \E r \in rs : Matches(r, pk)
Addressed(pk) == [addr |-> pk.to, mapped |-> FALSE]

\* The plain pass rule lets everything out.
LEMMA PassFields ==
  /\ Pass \in Rules /\ Pass.nics = Nics /\ Pass.to = Plain(Dests)
  /\ Pass.protos = L4 /\ Pass.ports = Ports
  /\ \A pk \in Packets : Addressed(pk) \in Pass.to
  <1>1. Plain(Dests) \in SUBSET Spellings /\ \A pk \in Packets : Addressed(pk) \in Plain(Dests)
    BY DEF Plain, Spellings, Addressed, Packets
  <1>2. QED
    BY <1>1 DEF Pass, Rules

\* A rule matches by its four fields.
LEMMA MatchesFields ==
  ASSUME NEW r \in Rules, NEW pk \in Packets
  PROVE  Matches(r, pk) <=> /\ pk.nic \in r.nics /\ pk.proto \in r.protos /\ pk.port \in r.ports
                            /\ Addressed(pk) \in r.to
  BY DEF Matches, Addressed

\* The plain pass rule matches every packet.
LEMMA PassAllMatches ==
  ASSUME NEW pk \in Packets
  PROVE  Pass \in Rules /\ Matches(Pass, pk)
  BY DEF Pass, Rules, Matches, Packets, Plain, Spellings

\* What the pass rules narrowed by one field or two match: interfaces and addresses, ...
LEMMA PassBothMatches ==
  ASSUME NEW ns \in SUBSET Nics, NEW as \in SUBSET Spellings, NEW pk \in Packets
  PROVE  LET r == [Pass EXCEPT !.nics = ns, !.to = as]
         IN  r \in Rules /\ (Matches(r, pk) <=> pk.nic \in ns /\ Addressed(pk) \in as)
  <1>1. PICK r \in Rules : r = [Pass EXCEPT !.nics = ns, !.to = as]
    BY PassFields DEF Rules
  <1>2. r.nics = ns /\ r.to = as /\ r.protos = L4 /\ r.ports = Ports
    BY <1>1, PassFields DEF Rules
  <1>3. QED
    BY <1>1, <1>2, MatchesFields DEF Packets

\* ... interfaces, ...
LEMMA PassOnMatches ==
  ASSUME NEW ns \in SUBSET Nics, NEW pk \in Packets
  PROVE  PassOn(ns) \in Rules /\ (Matches(PassOn(ns), pk) <=> pk.nic \in ns)
  <1>1. PICK r \in Rules : r = [Pass EXCEPT !.nics = ns]
    BY PassFields DEF Rules
  <1>2. r.nics = ns /\ r.to = Pass.to /\ r.protos = L4 /\ r.ports = Ports
    BY <1>1, PassFields DEF Rules
  <1>3. QED
    BY <1>1, <1>2, MatchesFields, PassFields DEF Packets, PassOn

\* ... addresses, ...
LEMMA PassToMatches ==
  ASSUME NEW as \in SUBSET Spellings, NEW pk \in Packets
  PROVE  PassTo(as) \in Rules /\ (Matches(PassTo(as), pk) <=> Addressed(pk) \in as)
  <1>1. PICK r \in Rules : r = [Pass EXCEPT !.to = as]
    BY PassFields DEF Rules
  <1>2. r.nics = Nics /\ r.to = as /\ r.protos = L4 /\ r.ports = Ports
    BY <1>1, PassFields DEF Rules
  <1>3. QED
    BY <1>1, <1>2, MatchesFields DEF Packets, PassTo

\* ... protocols and ports, in either order of narrowing, ...
LEMMA PassPortMatches ==
  ASSUME NEW ts \in SUBSET L4, NEW qs \in SUBSET Ports, NEW pk \in Packets
  PROVE  \E r \in Rules : /\ r = [Pass EXCEPT !.protos = ts, !.ports = qs]
                          /\ r = [Pass EXCEPT !.ports = qs, !.protos = ts]
                          /\ Matches(r, pk) <=> pk.proto \in ts /\ pk.port \in qs
  <1>1. PICK r \in Rules : r = [Pass EXCEPT !.protos = ts, !.ports = qs]
    BY PassFields DEF Rules
  <1>2. r.nics = Nics /\ r.to = Pass.to /\ r.protos = ts /\ r.ports = qs
    BY <1>1, PassFields DEF Rules
  <1>3. [Pass EXCEPT !.ports = qs, !.protos = ts] = r
    BY <1>1, PassFields DEF Rules
  <1>4. QED
    BY <1>1, <1>2, <1>3, MatchesFields, PassFields DEF Packets

\* ... name lookups, ...
LEMMA PassDnsMatches ==
  ASSUME NEW pk \in Packets
  PROVE  /\ PassDns \in Rules
         /\ Matches(PassDns, pk) <=> pk.port = Dns /\ pk.proto \in {"udp", "tcp"}
  <1>1. PICK ts \in SUBSET L4, qs \in SUBSET Ports : ts = L4 \cap {"udp", "tcp"} /\ qs = {Dns}
    BY RulesetsAssumption
  <1>2. PICK r \in Rules : /\ r = [Pass EXCEPT !.ports = qs, !.protos = ts]
                           /\ Matches(r, pk) <=> pk.proto \in ts /\ pk.port \in qs
    BY PassPortMatches
  <1>3. PassDns = [Pass EXCEPT !.ports = qs, !.protos = ts]
    BY <1>1, Zenon DEF PassDns
  <1>4. r = PassDns
    BY <1>2, <1>3, Zenon
  <1>5. pk.proto \in L4
    BY DEF Packets
  <1>6. QED
    BY <1>1, <1>2, <1>4, <1>5

\* ... the local network, ...
LEMMA PassLanMatches ==
  ASSUME NEW pk \in Packets
  PROVE  PassLan \in Rules /\ (Matches(PassLan, pk) <=> pk.to \in Lan)
  <1>1. Plain(Lan) \in SUBSET Spellings /\ (Addressed(pk) \in Plain(Lan) <=> pk.to \in Lan)
    BY RulesetsAssumption DEF Plain, Spellings, Addressed
  <1>2. QED
    BY <1>1, PassToMatches DEF PassLan

\* ... and the loopback, which may be absent from the interfaces at hand.
LEMMA LoopbackMatches ==
  ASSUME NEW pk \in Packets
  PROVE  Loopback \subseteq Rules /\ (Some(Loopback, pk) <=> pk.nic = Lo)
  BY PassOnMatches, RulesetsAssumption DEF Loopback, Some

\* Conditional rules and unions of rules.
LEMMA SomeOfThese ==
  ASSUME NEW pk
  PROVE  /\ \A A, B : Some(A \cup B, pk) <=> Some(A, pk) \/ Some(B, pk)
         /\ \A r : Some({r}, pk) <=> Matches(r, pk)
         /\ \A r : \A c \in BOOLEAN : Some(If(c, r), pk) <=> c /\ Matches(r, pk)
         /\ Some({}, pk) = FALSE
  BY DEF Some, If

\* They are rules.
LEMMA RulesOfThese ==
  /\ \A A, B : A \subseteq Rules /\ B \subseteq Rules => A \cup B \subseteq Rules
  /\ \A r : \A c \in BOOLEAN : (c => r \in Rules) => If(c, r) \subseteq Rules
  BY DEF If

-----------------------------------------------------------------------------
(* What a policy means, whatever renders it.                               *)

TunnelsOf(p) == p.tunnels \cup InClasses(p.groups)
Passes(p, pk) ==
  \/ pk.nic = Lo \/ Unrestricted(p)
  \/ p.mode \in {"guard", "window"} /\ pk.nic \in TunnelsOf(p)
  \/ Addressed(pk) \in p.endpoints
  \/ p.lan /\ pk.to \in Lan
  \/ (p.mode = "window" \/ p.dns) /\ pk.port = Dns /\ pk.proto \in {"udp", "tcp"}
  \/ p.mode = "window" /\ pk.proto \in WindowProtos(p) /\ pk.port \in p.ports
  \/ p.mode = "full" /\ pk.nic \in TunnelsOf(p) /\ Addressed(pk) \in p.providers

\* A canonical set is its own canonical form.
LEMMA CanonIsCanon ==
  ASSUME NEW as \in SUBSET Unmapped
  PROVE  Canon(as) = as
  <1>1. ASSUME NEW a \in as PROVE a = [addr |-> a.addr, mapped |-> FALSE]
    <2>1. a.mapped = FALSE
      BY DEF Unmapped
    <2>2. a = [addr |-> a.addr, mapped |-> a.mapped]
      BY DEF Unmapped
    <2>3. QED
      BY <2>1, <2>2, Zenon
  <1>2. ASSUME NEW x \in Canon(as) PROVE x \in as
    <2>1. PICK a \in as : x.addr = a.addr /\ x = [addr |-> x.addr, mapped |-> FALSE]
      BY <1>2 DEF Canon, Plain
    <2>2. QED
      BY <1>1, <2>1
  <1>3. ASSUME NEW a \in as PROVE a \in Canon(as)
    <2>1. a.addr \in {s.addr : s \in as}
      OBVIOUS
    <2>2. [addr |-> a.addr, mapped |-> FALSE] \in Canon(as)
      BY <2>1 DEF Canon, Plain
    <2>3. QED
      BY <1>1, <2>2
  <1>4. QED
    BY <1>2, <1>3

\* The parts of a policy, and that its addresses are canonical.
LEMMA PolicyFacts ==
  ASSUME NEW p \in Policies
  PROVE  /\ p.tunnels \in SUBSET Nics /\ InClasses(p.groups) \in SUBSET Nics
         /\ p.endpoints \in SUBSET Spellings /\ p.providers \in SUBSET Spellings
         /\ WindowProtos(p) \in SUBSET L4 /\ p.ports \in SUBSET Ports
         /\ p.groups = {} => InClasses(p.groups) = {}
         /\ Canon(p.endpoints) = p.endpoints /\ Canon(p.providers) = p.providers
  <1>1. \A g \in p.groups : Members[g] \in SUBSET Nics
    BY RulesetsAssumption DEF Policies
  <1>2. \A as \in SUBSET Unmapped : Canon(as) = as
    BY CanonIsCanon
  <1>3. Unmapped \subseteq Spellings
    BY DEF Unmapped, Spellings
  <1>4. QED
    BY <1>1, <1>2, <1>3 DEF Policies, InClasses, WindowProtos

\* pf lets out what the policy means, ...
LEMMA PfMeansPolicy ==
  ASSUME NEW p \in Policies, NEW pk \in Packets
  PROVE  /\ PfRules(p).open = FALSE /\ PfRules(p).rules \subseteq Rules
         /\ Some(PfRules(p).rules, pk) <=> Passes(p, pk)
  <1> DEFINE tunnels == If(p.tunnels # {}, PassOn(p.tunnels))
                          \cup If(p.groups # {}, PassOn(InClasses(p.groups)))
             endpoints == If(p.endpoints # {}, PassTo(p.endpoints))
             lan == If(p.lan, PassLan)
             ports == If(p.ports # {}, [Pass EXCEPT !.protos = WindowProtos(p), !.ports = p.ports])
             dns == If(p.dns, PassDns)
  <1>1. /\ tunnels \subseteq Rules
        /\ Some(tunnels, pk) <=> pk.nic \in TunnelsOf(p)
    <2>1. /\ PassOn(p.tunnels) \in Rules /\ (Matches(PassOn(p.tunnels), pk) <=> pk.nic \in p.tunnels)
          /\ PassOn(InClasses(p.groups)) \in Rules
          /\ Matches(PassOn(InClasses(p.groups)), pk) <=> pk.nic \in InClasses(p.groups)
      BY PolicyFacts, PassOnMatches
    <2>2. tunnels \subseteq Rules
      BY <2>1 DEF If
    <2>3. Some(tunnels, pk) <=> Some(If(p.tunnels # {}, PassOn(p.tunnels)), pk)
                                 \/ Some(If(p.groups # {}, PassOn(InClasses(p.groups))), pk)
      BY DEF Some
    <2>4. QED
      BY <2>1, <2>2, <2>3, PolicyFacts DEF Some, If, TunnelsOf
  <1>2. endpoints \subseteq Rules /\ (Some(endpoints, pk) <=> Addressed(pk) \in p.endpoints)
    BY PolicyFacts, PassToMatches DEF Some, If
  <1>3. lan \subseteq Rules /\ (Some(lan, pk) <=> p.lan /\ pk.to \in Lan)
    BY PassLanMatches DEF Some, If
  <1>4. dns \subseteq Rules /\ (Some(dns, pk) <=> p.dns /\ pk.port = Dns /\ pk.proto \in {"udp", "tcp"})
    BY PassDnsMatches DEF Some, If
  <1>5. ports \subseteq Rules /\ (Some(ports, pk) <=> pk.proto \in WindowProtos(p) /\ pk.port \in p.ports)
    <2>1. PICK r \in Rules : /\ r = [Pass EXCEPT !.protos = WindowProtos(p), !.ports = p.ports]
                             /\ Matches(r, pk) <=> pk.proto \in WindowProtos(p) /\ pk.port \in p.ports
      <3>1. WindowProtos(p) \in SUBSET L4 /\ p.ports \in SUBSET Ports
        BY PolicyFacts
      <3>2. QED
        BY <3>1, PassPortMatches, Zenon
    <2>2. QED
      BY <2>1 DEF Some, If
  <1>6. /\ PfProviders(p) \subseteq Rules
        /\ Some(PfProviders(p), pk) <=> pk.nic \in TunnelsOf(p) /\ Addressed(pk) \in p.providers
    <2>1. TunnelsOf(p) \in SUBSET Nics /\ (p.tunnels \cup p.groups = {} => TunnelsOf(p) = {})
      BY PolicyFacts DEF TunnelsOf
    <2>2. LET r == [Pass EXCEPT !.nics = TunnelsOf(p), !.to = p.providers]
          IN  r \in Rules /\ (Matches(r, pk) <=> pk.nic \in TunnelsOf(p) /\ Addressed(pk) \in p.providers)
      BY <2>1, PolicyFacts, PassBothMatches
    <2>3. QED
      BY <2>1, <2>2 DEF PfProviders, TunnelsOf, Some, If
  <1>7. /\ PassDns \in Rules
        /\ Matches(PassDns, pk) <=> pk.port = Dns /\ pk.proto \in {"udp", "tcp"}
        /\ Pass \in Rules /\ Matches(Pass, pk)
        /\ Loopback \subseteq Rules /\ (Some(Loopback, pk) <=> pk.nic = Lo)
    BY PassDnsMatches, PassAllMatches, LoopbackMatches
  <1> HIDE DEF tunnels, endpoints, lan, ports, dns
  <1>8. CASE Unrestricted(p)
    <2>1. PfRules(p) = [open |-> FALSE, rules |-> Loopback \cup {Pass}]
      BY <1>8 DEF PfRules, Unrestricted
    <2>2. QED
      BY <1>7, <1>8, <2>1 DEF Some, Passes
  <1>9. CASE p.mode = "window" /\ ~Unrestricted(p)
    <2>1. PfRules(p).open = FALSE
          /\ PfRules(p).rules = Loopback \cup (tunnels \cup endpoints \cup {PassDns} \cup lan \cup ports)
      BY <1>9 DEF PfRules, tunnels, endpoints, lan, ports
    <2>2. Some(PfRules(p).rules, pk)
            <=> \/ Some(Loopback, pk) \/ Some(tunnels, pk) \/ Some(endpoints, pk)
                \/ Matches(PassDns, pk) \/ Some(lan, pk) \/ Some(ports, pk)
      BY <2>1 DEF Some
    <2>3. QED
      BY <1>1, <1>2, <1>3, <1>5, <1>7, <1>9, <2>1, <2>2 DEF Passes
  <1>10. CASE p.mode = "guard"
    <2>1. PfRules(p).open = FALSE
          /\ PfRules(p).rules = Loopback \cup (tunnels \cup endpoints \cup dns \cup lan)
      BY <1>10 DEF PfRules, Unrestricted, tunnels, endpoints, lan, dns
    <2>2. QED
      BY <1>1, <1>2, <1>3, <1>4, <1>7, <1>10, <2>1 DEF Some, Passes, Unrestricted
  <1>11. CASE p.mode = "full"
    <2>1. PfRules(p).open = FALSE
          /\ PfRules(p).rules = Loopback \cup (endpoints \cup PfProviders(p) \cup dns \cup lan)
      BY <1>11 DEF PfRules, Unrestricted, endpoints, lan, dns
    <2>2. QED
      BY <1>2, <1>3, <1>4, <1>6, <1>7, <1>11, <2>1 DEF Some, Passes, Unrestricted
  <1>12. QED
    BY <1>8, <1>9, <1>10, <1>11 DEF Policies

\* The families and the matchers a set is split into make up the set.
LEMMA FamiliesMakeUp ==
  ASSUME NEW as \in SUBSET Unmapped
  PROVE  /\ \A f \in NftFamilies(as) : f \in SUBSET Spellings
         /\ \A x : (\E f \in NftFamilies(as) : x \in f) <=> x \in as
  <1>1. Canon(as) = as /\ as \subseteq Spellings
    BY CanonIsCanon DEF Unmapped, Spellings
  <1>2. QED
    BY <1>1 DEF NftFamilies

\* So do the interface matchers of the tunnels.
LEMMA MatchersMakeUp ==
  ASSUME NEW p \in Policies
  PROVE  /\ \A oif \in NftMatchers(p) : oif \in SUBSET Nics
         /\ \A x : (\E oif \in NftMatchers(p) : x \in oif) <=> x \in TunnelsOf(p)
  <1>1. \A g \in p.groups : Members[g] \in SUBSET Nics
    BY RulesetsAssumption DEF Policies
  <1>2. p.tunnels \in SUBSET Nics
    BY DEF Policies
  <1>3. QED
    BY <1>1, <1>2 DEF NftMatchers, TunnelsOf, InClasses

\* A rule for each protocol and port, as nftables and Windows have them.
PortRule(t, q) == [Pass EXCEPT !.protos = {t}, !.ports = {q}]
PortRules(p) == {PortRule(t, q) : t \in WindowProtos(p), q \in p.ports}

\* What they let out: a window's protocols at its ports, ...
LEMMA PortRulesMatch ==
  ASSUME NEW p \in Policies, NEW pk \in Packets
  PROVE  /\ PortRules(p) \subseteq Rules
         /\ Some(PortRules(p), pk) <=> pk.proto \in WindowProtos(p) /\ pk.port \in p.ports
  <1>1. WindowProtos(p) \in SUBSET L4 /\ p.ports \in SUBSET Ports
    BY PolicyFacts
  <1>2. ASSUME NEW t \in WindowProtos(p), NEW q \in p.ports
        PROVE  /\ PortRule(t, q) \in Rules
               /\ Matches(PortRule(t, q), pk) <=> pk.proto = t /\ pk.port = q
    <2>1. PICK ts \in SUBSET L4, qs \in SUBSET Ports : ts = {t} /\ qs = {q}
      BY <1>1
    <2>2. PICK r \in Rules : /\ r = [Pass EXCEPT !.protos = ts, !.ports = qs]
                             /\ Matches(r, pk) <=> pk.proto \in ts /\ pk.port \in qs
      BY PassPortMatches
    <2>3. r = PortRule(t, q)
      BY <2>1, <2>2, Zenon DEF PortRule
    <2>4. (pk.proto \in ts <=> pk.proto = t) /\ (pk.port \in qs <=> pk.port = q)
      BY <2>1
    <2>5. QED
      BY <2>2, <2>3, <2>4, Zenon
  <1>3. PortRules(p) \subseteq Rules
    <2>1. SUFFICES ASSUME NEW r \in PortRules(p) PROVE r \in Rules
      OBVIOUS
    <2>2. PICK t \in WindowProtos(p), q \in p.ports : r = PortRule(t, q)
      BY DEF PortRules
    <2>3. QED
      BY <1>2, <2>2, Zenon
  <1>4. ASSUME Some(PortRules(p), pk) PROVE pk.proto \in WindowProtos(p) /\ pk.port \in p.ports
    <2>1. PICK t \in WindowProtos(p), q \in p.ports :
            Matches(PortRule(t, q), pk)
      BY <1>4 DEF Some, PortRules
    <2>2. pk.proto = t /\ pk.port = q
      BY <1>2, <2>1, Zenon
    <2>3. QED
      BY <2>2
  <1>5. ASSUME pk.proto \in WindowProtos(p), pk.port \in p.ports PROVE Some(PortRules(p), pk)
    <2>1. /\ PortRule(pk.proto, pk.port) \in PortRules(p)
          /\ Matches(PortRule(pk.proto, pk.port), pk)
      BY <1>2, <1>5 DEF PortRules
    <2>2. QED
      BY <2>1, Zenon DEF Some
  <1>6. QED
    BY <1>3, <1>4, <1>5

DnsRules == {[Pass EXCEPT !.protos = {t}, !.ports = {Dns}] : t \in L4 \cap {"udp", "tcp"}}

\* ... name lookups, ...
LEMMA DnsRulesMatch ==
  ASSUME NEW pk \in Packets
  PROVE  /\ DnsRules \subseteq Rules
         /\ Some(DnsRules, pk) <=> pk.port = Dns /\ pk.proto \in {"udp", "tcp"}
  <1>1. ASSUME NEW t \in L4
        PROVE  /\ [Pass EXCEPT !.protos = {t}, !.ports = {Dns}] \in Rules
               /\ Matches([Pass EXCEPT !.protos = {t}, !.ports = {Dns}], pk) <=> pk.proto = t /\ pk.port = Dns
    <2>1. PICK ts \in SUBSET L4, qs \in SUBSET Ports : ts = {t} /\ qs = {Dns}
      BY RulesetsAssumption
    <2>2. PICK r \in Rules : /\ r = [Pass EXCEPT !.protos = ts, !.ports = qs]
                             /\ Matches(r, pk) <=> pk.proto \in ts /\ pk.port \in qs
      BY PassPortMatches
    <2>3. r = [Pass EXCEPT !.protos = {t}, !.ports = {Dns}]
      BY <2>1, <2>2, Zenon
    <2>4. (pk.proto \in ts <=> pk.proto = t) /\ (pk.port \in qs <=> pk.port = Dns)
      BY <2>1
    <2>5. QED
      BY <2>2, <2>3, <2>4, Zenon
  <1>2. DnsRules \subseteq Rules
    <2>1. SUFFICES ASSUME NEW r \in DnsRules PROVE r \in Rules
      OBVIOUS
    <2>2. PICK t \in L4 : r = [Pass EXCEPT !.protos = {t}, !.ports = {Dns}]
      BY DEF DnsRules
    <2>3. QED
      BY <1>1, <2>2, Zenon
  <1>3. ASSUME Some(DnsRules, pk) PROVE pk.port = Dns /\ pk.proto \in {"udp", "tcp"}
    <2>1. PICK t \in L4 \cap {"udp", "tcp"} : Matches([Pass EXCEPT !.protos = {t}, !.ports = {Dns}], pk)
      BY <1>3, Zenon DEF Some, DnsRules
    <2>2. t \in L4 /\ t \in {"udp", "tcp"}
      OBVIOUS
    <2>3. pk.proto = t /\ pk.port = Dns
      BY <1>1, <2>1, <2>2, Zenon
    <2>4. QED
      BY <2>2, <2>3
  <1>4. ASSUME pk.port = Dns, pk.proto \in {"udp", "tcp"} PROVE Some(DnsRules, pk)
    <2>1. pk.proto \in L4 /\ pk.proto \in L4 \cap {"udp", "tcp"}
      BY <1>4 DEF Packets
    <2>2. /\ [Pass EXCEPT !.protos = {pk.proto}, !.ports = {Dns}] \in DnsRules
          /\ Matches([Pass EXCEPT !.protos = {pk.proto}, !.ports = {Dns}], pk)
      BY <1>1, <1>4, <2>1, Zenon DEF DnsRules
    <2>3. QED
      BY <2>2, Zenon DEF Some
  <1>5. QED
    BY <1>2, <1>3, <1>4

\* ... the addresses of either family, ...
LEMMA FamilyRulesMatch ==
  ASSUME NEW as \in SUBSET Unmapped, NEW pk \in Packets
  PROVE  LET rs == {PassTo(f) : f \in NftFamilies(as)}
         IN  rs \subseteq Rules /\ (Some(rs, pk) <=> Addressed(pk) \in as)
  <1>1. \A f \in NftFamilies(as) : PassTo(f) \in Rules /\ (Matches(PassTo(f), pk) <=> Addressed(pk) \in f)
    BY FamiliesMakeUp, PassToMatches
  <1>2. (\E f \in NftFamilies(as) : Addressed(pk) \in f) <=> Addressed(pk) \in as
    BY FamiliesMakeUp
  <1>3. QED
    BY <1>1, <1>2 DEF Some

TunnelRules(p) == {PassOn(oif) : oif \in NftMatchers(p)}
\* ... the tunnels, ...
LEMMA TunnelRulesMatch ==
  ASSUME NEW p \in Policies, NEW pk \in Packets
  PROVE  TunnelRules(p) \subseteq Rules /\ (Some(TunnelRules(p), pk) <=> pk.nic \in TunnelsOf(p))
  <1>1. \A oif \in NftMatchers(p) : PassOn(oif) \in Rules /\ (Matches(PassOn(oif), pk) <=> pk.nic \in oif)
    BY MatchersMakeUp, PassOnMatches
  <1>2. (\E oif \in NftMatchers(p) : pk.nic \in oif) <=> pk.nic \in TunnelsOf(p)
    BY MatchersMakeUp
  <1>3. QED
    BY <1>1, <1>2 DEF Some, TunnelRules

PassBoth(ns, as) == [Pass EXCEPT !.nics = ns, !.to = as]
\* ... and the providers through a tunnel.
LEMMA NftProvidersMatch ==
  ASSUME NEW p \in Policies, NEW pk \in Packets
  PROVE  /\ NftProviders(p) \subseteq Rules
         /\ Some(NftProviders(p), pk) <=> pk.nic \in TunnelsOf(p) /\ Addressed(pk) \in p.providers
  <1>1. NftProviders(p) = {PassBoth(oif, f) : oif \in NftMatchers(p), f \in NftFamilies(p.providers)}
    BY DEF NftProviders, PassBoth
  <1>2. p.providers \in SUBSET Unmapped
    BY DEF Policies
  <1>3. \A oif \in NftMatchers(p), f \in NftFamilies(p.providers) :
          /\ PassBoth(oif, f) \in Rules
          /\ Matches(PassBoth(oif, f), pk) <=> pk.nic \in oif /\ Addressed(pk) \in f
    BY <1>2, MatchersMakeUp, FamiliesMakeUp, PassBothMatches DEF PassBoth
  <1>4. /\ (\E oif \in NftMatchers(p) : pk.nic \in oif) <=> pk.nic \in TunnelsOf(p)
        /\ (\E f \in NftFamilies(p.providers) : Addressed(pk) \in f) <=> Addressed(pk) \in p.providers
    BY <1>2, MatchersMakeUp, FamiliesMakeUp
  <1>5. Some(NftProviders(p), pk)
          <=> \E oif \in NftMatchers(p), f \in NftFamilies(p.providers) : pk.nic \in oif /\ Addressed(pk) \in f
    BY <1>1, <1>3 DEF Some
  <1>6. QED
    BY <1>1, <1>3, <1>4, <1>5

\* ... and so does nftables, ...
LEMMA NftMeansPolicy ==
  ASSUME NEW p \in Policies, NEW pk \in Packets
  PROVE  /\ NftRules(p).open = FALSE /\ NftRules(p).rules \subseteq Rules
         /\ Some(NftRules(p).rules, pk) <=> Passes(p, pk)
  <1> DEFINE endpoints == {PassTo(f) : f \in NftFamilies(p.endpoints)}
             lan == IF p.lan THEN {PassTo(f) : f \in NftFamilies(Plain(Lan))} ELSE {}
             optional == IF p.dns THEN DnsRules ELSE {}
  <1>1. TunnelRules(p) \subseteq Rules /\ (Some(TunnelRules(p), pk) <=> pk.nic \in TunnelsOf(p))
    BY TunnelRulesMatch
  <1>2. endpoints \subseteq Rules /\ (Some(endpoints, pk) <=> Addressed(pk) \in p.endpoints)
    BY FamilyRulesMatch DEF Policies
  <1>3. lan \subseteq Rules /\ (Some(lan, pk) <=> p.lan /\ pk.to \in Lan)
    <2>1. Plain(Lan) \in SUBSET Unmapped /\ (Addressed(pk) \in Plain(Lan) <=> pk.to \in Lan)
      BY RulesetsAssumption DEF Plain, Unmapped, Addressed
    <2>2. LET rs == {PassTo(f) : f \in NftFamilies(Plain(Lan))}
          IN  rs \subseteq Rules /\ (Some(rs, pk) <=> Addressed(pk) \in Plain(Lan))
      BY <2>1, FamilyRulesMatch
    <2>3. Some({}, pk) = FALSE
      BY DEF Some
    <2>4. QED
      BY <2>1, <2>2, <2>3
  <1>4. /\ DnsRules \subseteq Rules
        /\ Some(DnsRules, pk) <=> pk.port = Dns /\ pk.proto \in {"udp", "tcp"}
    BY DnsRulesMatch
  <1>5. optional \subseteq Rules /\ (Some(optional, pk) <=> p.dns /\ Some(DnsRules, pk))
    BY <1>4 DEF Some
  <1>6. /\ PortRules(p) \subseteq Rules
        /\ Some(PortRules(p), pk) <=> pk.proto \in WindowProtos(p) /\ pk.port \in p.ports
    BY PortRulesMatch
  <1>7. /\ NftProviders(p) \subseteq Rules
        /\ Some(NftProviders(p), pk) <=> pk.nic \in TunnelsOf(p) /\ Addressed(pk) \in p.providers
    BY NftProvidersMatch
  <1>8. /\ Pass \in Rules /\ Matches(Pass, pk)
        /\ Loopback \subseteq Rules /\ (Some(Loopback, pk) <=> pk.nic = Lo)
    BY PassAllMatches, LoopbackMatches
  <1> HIDE DEF endpoints, lan, optional
  <1>9. CASE Unrestricted(p)
    <2>1. NftRules(p).open = FALSE /\ NftRules(p).rules = Loopback \cup {Pass}
      BY <1>9 DEF NftRules, Unrestricted
    <2>2. QED
      BY <1>8, <1>9, <2>1 DEF Some, Passes
  <1>10. CASE p.mode = "window" /\ ~Unrestricted(p)
    <2>1. NftRules(p).open = FALSE
          /\ NftRules(p).rules
               = Loopback \cup (TunnelRules(p) \cup endpoints \cup DnsRules \cup lan \cup PortRules(p))
      BY <1>10 DEF NftRules, endpoints, lan, TunnelRules, PortRules, PortRule, DnsRules
    <2>2. Some(NftRules(p).rules, pk)
            <=> \/ Some(Loopback, pk) \/ Some(TunnelRules(p), pk) \/ Some(endpoints, pk)
                \/ Some(DnsRules, pk) \/ Some(lan, pk) \/ Some(PortRules(p), pk)
      BY <2>1 DEF Some
    <2>3. QED
      BY <1>1, <1>2, <1>3, <1>4, <1>6, <1>8, <1>10, <2>1, <2>2 DEF Passes
  <1>11. CASE p.mode = "guard"
    <2>1. NftRules(p).open = FALSE
          /\ NftRules(p).rules = Loopback \cup (TunnelRules(p) \cup endpoints \cup optional \cup lan)
      BY <1>11 DEF NftRules, Unrestricted, endpoints, lan, optional, TunnelRules, DnsRules
    <2>2. QED
      BY <1>1, <1>2, <1>3, <1>4, <1>5, <1>8, <1>11, <2>1 DEF Some, Passes, Unrestricted
  <1>12. CASE p.mode = "full"
    <2>1. NftRules(p).open = FALSE
          /\ NftRules(p).rules = Loopback \cup (endpoints \cup NftProviders(p) \cup optional \cup lan)
      BY <1>12 DEF NftRules, Unrestricted, endpoints, lan, optional, DnsRules
    <2>2. QED
      BY <1>2, <1>3, <1>4, <1>5, <1>7, <1>8, <1>12, <2>1 DEF Some, Passes, Unrestricted
  <1>13. QED
    BY <1>9, <1>10, <1>11, <1>12 DEF Policies

\* Windows matches no class, and lets an unrestricted window stand open.
LEMMA WfpMeansPolicy ==
  ASSUME NEW p \in Policies, NEW pk \in Packets
  PROVE  LET q == [p EXCEPT !.groups = {}]
         IN  /\ q \in Policies /\ WfpRules(p).open \in BOOLEAN /\ WfpRules(p).rules \subseteq Rules
             /\ WfpRules(p).open \/ Some(WfpRules(p).rules, pk) <=> Passes(q, pk)
  <1> DEFINE tunnels == If(p.tunnels # {}, PassOn(p.tunnels))
             endpoints == If(p.endpoints # {}, PassTo(Canon(p.endpoints)))
             lan == If(p.lan, PassLan)
             dns == If(p.dns, PassDns)
  <1>1. PICK q \in Policies : q = [p EXCEPT !.groups = {}]
    BY DEF Policies
  <1>2. /\ q.mode = p.mode /\ q.tunnels = p.tunnels /\ q.endpoints = p.endpoints /\ q.lan = p.lan
        /\ q.dns = p.dns /\ q.protos = p.protos /\ q.ports = p.ports /\ q.providers = p.providers
        /\ q.groups = {}
    BY <1>1 DEF Policies
  <1>3. TunnelsOf(q) = p.tunnels /\ WindowProtos(q) = WindowProtos(p) /\ (Unrestricted(q) <=> Unrestricted(p))
    BY <1>2, PolicyFacts DEF TunnelsOf, WindowProtos, Unrestricted
  <1>4. Passes(q, pk) <=>
          \/ pk.nic = Lo \/ Unrestricted(p)
          \/ p.mode \in {"guard", "window"} /\ pk.nic \in p.tunnels
          \/ Addressed(pk) \in p.endpoints
          \/ p.lan /\ pk.to \in Lan
          \/ (p.mode = "window" \/ p.dns) /\ pk.port = Dns /\ pk.proto \in {"udp", "tcp"}
          \/ p.mode = "window" /\ pk.proto \in WindowProtos(p) /\ pk.port \in p.ports
          \/ p.mode = "full" /\ pk.nic \in p.tunnels /\ Addressed(pk) \in p.providers
    BY <1>2, <1>3 DEF Passes
  <1>5. tunnels \subseteq Rules /\ (Some(tunnels, pk) <=> pk.nic \in p.tunnels)
    BY PolicyFacts, PassOnMatches DEF Some, If
  <1>6. endpoints \subseteq Rules /\ (Some(endpoints, pk) <=> Addressed(pk) \in p.endpoints)
    BY PolicyFacts, PassToMatches DEF Some, If
  <1>7. lan \subseteq Rules /\ (Some(lan, pk) <=> p.lan /\ pk.to \in Lan)
    BY PassLanMatches DEF Some, If
  <1>8. dns \subseteq Rules /\ (Some(dns, pk) <=> p.dns /\ pk.port = Dns /\ pk.proto \in {"udp", "tcp"})
    BY PassDnsMatches DEF Some, If
  <1>9. /\ PortRules(p) \subseteq Rules
        /\ Some(PortRules(p), pk) <=> pk.proto \in WindowProtos(p) /\ pk.port \in p.ports
    BY PortRulesMatch
  <1>10. /\ WfpProviders(p) \subseteq Rules
         /\ Some(WfpProviders(p), pk) <=> pk.nic \in p.tunnels /\ Addressed(pk) \in p.providers
    <2>1. /\ PassBoth(p.tunnels, p.providers) \in Rules
          /\ Matches(PassBoth(p.tunnels, p.providers), pk)
               <=> pk.nic \in p.tunnels /\ Addressed(pk) \in p.providers
      BY PolicyFacts, PassBothMatches DEF PassBoth
    <2>2. WfpProviders(p) = If(p.providers # {} /\ p.tunnels # {}, PassBoth(p.tunnels, p.providers))
      BY PolicyFacts DEF WfpProviders, PassBoth
    <2>3. QED
      BY <2>1, <2>2 DEF Some, If
  <1>11. /\ PassDns \in Rules
         /\ Matches(PassDns, pk) <=> pk.port = Dns /\ pk.proto \in {"udp", "tcp"}
         /\ Loopback \subseteq Rules /\ (Some(Loopback, pk) <=> pk.nic = Lo)
    BY PassDnsMatches, LoopbackMatches
  <1> HIDE DEF tunnels, endpoints, lan, dns
  <1>12. /\ Unrestricted(p) => WfpRules(p).open = TRUE
         /\ ~Unrestricted(p) => WfpRules(p).open = FALSE
    <2>1. WfpRules(p).open = (ExpectedOutboundAction(p) = "Allow")
      <3>1. ASSUME NEW b \in BOOLEAN, NEW rs PROVE [open |-> b, rules |-> rs].open = b
        OBVIOUS
      <3>2. QED
        BY <3>1, SMT DEF WfpRules
    <2>2. /\ Unrestricted(p) => (ExpectedOutboundAction(p) = "Allow") = TRUE
          /\ ~Unrestricted(p) => (ExpectedOutboundAction(p) = "Allow") = FALSE
      BY DEF ExpectedOutboundAction
    <2>3. QED
      BY <2>1, <2>2, Zenon
  <1>13. /\ WfpRules(p).open \in BOOLEAN /\ WfpRules(p).rules \subseteq Rules
         /\ WfpRules(p).open \/ Some(WfpRules(p).rules, pk) <=> Passes(q, pk)
    <2>1. CASE Unrestricted(p)
      <3>1. WfpRules(p).rules = Loopback
        BY <2>1 DEF WfpRules, Unrestricted
      <3>2. QED
        BY <1>4, <1>12, <1>11, <2>1, <3>1
    <2>2. CASE p.mode = "window" /\ ~Unrestricted(p)
      <3>1. WfpRules(p).rules
                 = Loopback \cup (tunnels \cup endpoints \cup {PassDns} \cup lan \cup PortRules(p))
        BY <2>2 DEF WfpRules, tunnels, endpoints, lan, PortRules, PortRule
      <3>2. Some(WfpRules(p).rules, pk)
              <=> \/ Some(Loopback, pk) \/ Some(tunnels, pk) \/ Some(endpoints, pk)
                  \/ Matches(PassDns, pk) \/ Some(lan, pk) \/ Some(PortRules(p), pk)
        BY <3>1 DEF Some
      <3>3. WfpRules(p).open = FALSE
        BY <1>12, <2>2
      <3>4. QED
        BY <1>4, <1>5, <1>6, <1>7, <1>9, <1>11, <2>2, <3>1, <3>2, <3>3
    <2>3. CASE p.mode = "guard"
      <3>1. WfpRules(p).rules = Loopback \cup (tunnels \cup endpoints \cup dns \cup lan)
        BY <2>3 DEF WfpRules, Unrestricted, tunnels, endpoints, lan, dns
      <3>2. Some(WfpRules(p).rules, pk)
              <=> \/ Some(Loopback, pk) \/ Some(tunnels, pk) \/ Some(endpoints, pk)
                  \/ Some(dns, pk) \/ Some(lan, pk)
        BY <3>1 DEF Some
      <3>3. WfpRules(p).open = FALSE
        BY <1>12, <2>3 DEF Unrestricted
      <3>4. QED
        BY <1>4, <1>5, <1>6, <1>7, <1>8, <1>11, <2>3, <3>1, <3>2, <3>3 DEF Unrestricted
    <2>4. CASE p.mode = "full"
      <3>1. WfpRules(p).rules = Loopback \cup (endpoints \cup WfpProviders(p) \cup dns \cup lan)
        BY <2>4 DEF WfpRules, Unrestricted, endpoints, lan, dns
      <3>2. Some(WfpRules(p).rules, pk)
              <=> \/ Some(Loopback, pk) \/ Some(endpoints, pk) \/ Some(WfpProviders(p), pk)
                  \/ Some(dns, pk) \/ Some(lan, pk)
        BY <3>1 DEF Some
      <3>3. WfpRules(p).open = FALSE
        BY <1>12, <2>4 DEF Unrestricted
      <3>4. QED
        BY <1>4, <1>6, <1>7, <1>8, <1>10, <1>11, <2>4, <3>1, <3>2, <3>3 DEF Unrestricted
    <2>5. QED
      BY <2>1, <2>2, <2>3, <2>4 DEF Policies
  <1>14. QED
    BY <1>1, <1>13

-----------------------------------------------------------------------------
(* The host: what is in force is the policy of the posture, rendered.      *)

\* The policy of a posture is built from the inputs it was given.
LEMMA PolicyOfInput ==
  ASSUME NEW in \in Inputs, NEW ps \in {"force", "full", "guard", "window"}
  PROVE  /\ Policy(ps, in) \in Policies
         /\ Policy(ps, in).mode = IF ps = "window" THEN "window"
                                  ELSE IF ps = "guard" /\ (in.tunnels # {} \/ in.groups # {})
                                       THEN "guard" ELSE "full"
         /\ ps # "force" =>
              /\ Policy(ps, in).tunnels = in.tunnels /\ Policy(ps, in).groups = in.groups
              /\ Policy(ps, in).lan = in.lan /\ Policy(ps, in).endpoints = Canon(in.endpoints)
         /\ ps \in {"full", "guard"} => Policy(ps, in).dns = in.dns
         /\ Policy(ps, in).mode = "full" /\ ps # "force"
              => Policy(ps, in).providers = Canon(in.providers)
         /\ ps = "force" => /\ Policy(ps, in).tunnels = {} /\ Policy(ps, in).groups = {}
                            /\ Policy(ps, in).lan = FALSE /\ Policy(ps, in).endpoints = {}
                            /\ Policy(ps, in).dns = FALSE
  <1>1. \A as \in SUBSET Spellings : Canon(as) \in SUBSET Unmapped
    BY DEF Canon, Plain, Spellings, Unmapped
  <1>2. Canon({}) = {}
    BY DEF Canon, Plain
  <1>3. CASE ps = "force"
    <2>1. Policy(ps, in) = FullBlockOf(NoInput)
      BY <1>3 DEF Policy, ForceBlock
    <2>2. FullBlockOf(NoInput) =
            [mode |-> "full", tunnels |-> {}, groups |-> {}, endpoints |-> {}, dns |-> FALSE,
             lan |-> FALSE, providers |-> {}, protos |-> {}, ports |-> {}]
      BY <1>2 DEF FullBlockOf, NoInput
    <2>3. Policy(ps, in) \in Policies
      BY <2>1, <2>2 DEF Policies
    <2>4. QED
      BY <1>3, <2>1, <2>2, <2>3
  <1>4. in.endpoints \in SUBSET Spellings /\ in.providers \in SUBSET Spellings
    BY DEF Inputs
  <1>5. PICK es \in SUBSET Unmapped, vs \in SUBSET Unmapped : es = Canon(in.endpoints) /\ vs = Canon(in.providers)
    BY <1>1, <1>4
  <1>6. ASSUME ps \in {"full", "guard"}, Policy(ps, in) = FullBlockOf(in),
               ~(ps = "guard" /\ (in.tunnels # {} \/ in.groups # {}))
        PROVE  /\ Policy(ps, in) \in Policies /\ Policy(ps, in).mode = "full"
               /\ Policy(ps, in).tunnels = in.tunnels /\ Policy(ps, in).groups = in.groups
               /\ Policy(ps, in).lan = in.lan /\ Policy(ps, in).endpoints = Canon(in.endpoints)
               /\ Policy(ps, in).dns = in.dns /\ Policy(ps, in).providers = Canon(in.providers)
    BY <1>5, <1>6 DEF FullBlockOf, Inputs, Policies
  <1>7. CASE ps = "full"
    BY <1>6, <1>7 DEF Policy
  <1>8. CASE ps = "guard" /\ in.tunnels = {} /\ in.groups = {}
    BY <1>6, <1>8 DEF Policy, GuardOf
  <1>9. CASE ps = "guard" /\ ~(in.tunnels = {} /\ in.groups = {})
    <2>1. Policy(ps, in) = [FullBlockOf(in) EXCEPT !.mode = "guard", !.providers = {}]
      BY <1>9 DEF Policy, GuardOf
    <2>2. FullBlockOf(in) =
            [mode |-> "full", tunnels |-> in.tunnels, groups |-> in.groups, endpoints |-> es,
             dns |-> in.dns, lan |-> in.lan, providers |-> vs, protos |-> {}, ports |-> {}]
      BY <1>5 DEF FullBlockOf
    <2>3. PICK r \in Policies : r = FullBlockOf(in)
      BY <1>5, <2>2 DEF Inputs, Policies
    <2>4. /\ r.tunnels = in.tunnels /\ r.groups = in.groups /\ r.lan = in.lan
          /\ r.endpoints = es /\ r.dns = in.dns
      BY <2>2, <2>3
    <2>5. Policy(ps, in) = [r EXCEPT !.mode = "guard", !.providers = {}]
      BY <2>1, <2>3
    <2>6. /\ Policy(ps, in) \in Policies /\ Policy(ps, in).mode = "guard"
          /\ Policy(ps, in).tunnels = in.tunnels /\ Policy(ps, in).groups = in.groups
          /\ Policy(ps, in).lan = in.lan /\ Policy(ps, in).endpoints = es /\ Policy(ps, in).dns = in.dns
      BY <2>4, <2>5 DEF Policies
    <2>7. QED
      BY <1>5, <1>9, <2>6
  <1>10. CASE ps = "window"
    BY <1>5, <1>10 DEF Policy, WindowOf, Inputs, Policies
  <1>11. QED
    BY <1>3, <1>7, <1>8, <1>9, <1>10

\* What a platform makes of a policy: Windows knows no classes.
MeantBy(o, p) == IF o = "wfp" THEN [p EXCEPT !.groups = {}] ELSE p

\* On every platform the rules let out what the policy means there.
LEMMA RenderedMeans ==
  ASSUME NEW o \in Platforms, NEW p \in Policies, NEW pk \in Packets
  PROVE  /\ MeantBy(o, p) \in Policies
         /\ Rendered(o, p).open \in BOOLEAN /\ Rendered(o, p).rules \subseteq Rules
         /\ Lets(Rendered(o, p), pk) <=> Passes(MeantBy(o, p), pk)
  <1>1. \A rs : Lets(rs, pk) <=> rs.open \/ Some(rs.rules, pk)
    BY DEF Lets, Some
  <1>2. CASE o = "pf"
    <2>1. Rendered(o, p) = PfRules(p) /\ MeantBy(o, p) = p
      BY <1>2 DEF Rendered, MeantBy
    <2>2. PfRules(p).open = FALSE
      BY PfMeansPolicy
    <2>3. QED
      BY <1>1, <2>1, <2>2, PfMeansPolicy
  <1>3. CASE o = "nft"
    <2>1. Rendered(o, p) = NftRules(p) /\ MeantBy(o, p) = p
      BY <1>3 DEF Rendered, MeantBy
    <2>2. NftRules(p).open = FALSE
      BY NftMeansPolicy
    <2>3. QED
      BY <1>1, <2>1, <2>2, NftMeansPolicy
  <1>4. CASE o = "wfp"
    <2>1. Rendered(o, p) = WfpRules(p) /\ MeantBy(o, p) = [p EXCEPT !.groups = {}]
      BY <1>4 DEF Rendered, MeantBy
    <2>2. QED
      BY <1>1, <2>1, WfpMeansPolicy
  <1>5. QED
    BY <1>2, <1>3, <1>4 DEF Platforms

\* The parts of what a posture means on a platform.
LEMMA MeantFields ==
  ASSUME NEW o \in Platforms, NEW p \in Policies, NEW m, m = MeantBy(o, p)
  PROVE  /\ m \in Policies
         /\ m.mode = p.mode /\ m.tunnels = p.tunnels /\ m.lan = p.lan /\ m.endpoints = p.endpoints
         /\ m.dns = p.dns /\ m.providers = p.providers
         /\ m.groups = IF o = "wfp" THEN {} ELSE p.groups
  <1>1. CASE o = "wfp"
    <2>1. m = [p EXCEPT !.groups = {}]
      BY <1>1 DEF MeantBy
    <2>2. QED
      BY <1>1, <2>1 DEF Policies
  <1>2. CASE o # "wfp"
    BY <1>2 DEF MeantBy
  <1>3. QED
    BY <1>1, <1>2

MeansAsItStands(o, ps, in, m) ==
  /\ m \in Policies
  /\ ps = "force" => /\ m.mode = "full" /\ m.tunnels = {} /\ m.groups = {}
                     /\ m.endpoints = {} /\ m.lan = FALSE /\ m.dns = FALSE
  /\ ps # "force" => /\ m.endpoints = Canon(in.endpoints) /\ m.lan = in.lan
                     /\ m.tunnels = in.tunnels
                     /\ m.groups = IF o = "wfp" THEN {} ELSE in.groups
  /\ ps \in {"full", "guard"} => m.mode \in {"full", "guard"} /\ m.dns = in.dns
  /\ ps = "window" <=> m.mode = "window"
  /\ m.mode = "guard" => ps = "guard"
  /\ ps = "guard" /\ m.mode = "full" => in.tunnels = {} /\ in.groups = {}
  /\ ps # "force" /\ m.mode = "full" => m.providers = Canon(in.providers)

\* What a posture means on a platform, from the inputs.
LEMMA MeantPolicy ==
  ASSUME NEW o \in Platforms, NEW in \in Inputs, NEW ps \in {"force", "full", "guard", "window"}
  PROVE  MeansAsItStands(o, ps, in, MeantBy(o, Policy(ps, in)))
  <1> DEFINE m == MeantBy(o, Policy(ps, in))
  <1>1. PICK p \in Policies :
          /\ p = Policy(ps, in)
          /\ ps = "window" => p.mode = "window"
          /\ ps \in {"force", "full"} => p.mode = "full"
          /\ ps = "guard" => p.mode = IF in.tunnels # {} \/ in.groups # {} THEN "guard" ELSE "full"
          /\ ps # "force" => /\ p.tunnels = in.tunnels /\ p.groups = in.groups
                             /\ p.lan = in.lan /\ p.endpoints = Canon(in.endpoints)
          /\ ps \in {"full", "guard"} => p.dns = in.dns
          /\ p.mode = "full" /\ ps # "force" => p.providers = Canon(in.providers)
          /\ ps = "force" => /\ p.tunnels = {} /\ p.groups = {} /\ p.lan = FALSE
                             /\ p.endpoints = {} /\ p.dns = FALSE
    <2>1. /\ Policy(ps, in) \in Policies
          /\ Policy(ps, in).mode = IF ps = "window" THEN "window"
                                   ELSE IF ps = "guard" /\ (in.tunnels # {} \/ in.groups # {})
                                        THEN "guard" ELSE "full"
      BY PolicyOfInput
    <2>2. /\ ps = "window" => Policy(ps, in).mode = "window"
          /\ ps \in {"force", "full"} => Policy(ps, in).mode = "full"
          /\ ps = "guard" =>
               Policy(ps, in).mode = IF in.tunnels # {} \/ in.groups # {} THEN "guard" ELSE "full"
      BY <2>1
    <2>3. QED
      BY <2>1, <2>2, PolicyOfInput
  <1>2. /\ m \in Policies
        /\ m.mode = p.mode /\ m.tunnels = p.tunnels /\ m.lan = p.lan /\ m.endpoints = p.endpoints
        /\ m.dns = p.dns /\ m.providers = p.providers
        /\ m.groups = IF o = "wfp" THEN {} ELSE p.groups
    BY <1>1, MeantFields
  <1> HIDE DEF m
  <1>3. MeansAsItStands(o, ps, in, m)
    BY <1>1, <1>2 DEF MeansAsItStands
  <1>4. QED
    BY <1>3 DEF m

\* The order of the postures, as what their policies let out.
LEMMA LaxerLetsMore ==
  ASSUME NEW o \in Platforms, NEW in \in Inputs, NEW pk \in Packets,
         NEW ps \in {"force", "full", "guard", "window"},
         NEW qs \in {"force", "full", "guard", "window"}, Laxity(ps) <= Laxity(qs),
         Passes(MeantBy(o, Policy(ps, in)), pk)
  PROVE  Passes(MeantBy(o, Policy(qs, in)), pk)
  <1> DEFINE T(gs) == in.tunnels \cup InClasses(IF o = "wfp" THEN {} ELSE gs)
  <1>1. PICK m : m = MeantBy(o, Policy(ps, in))
    OBVIOUS
  <1>2. PICK n : n = MeantBy(o, Policy(qs, in))
    OBVIOUS
  <1>0. MeansAsItStands(o, ps, in, m) /\ MeansAsItStands(o, qs, in, n)
    BY <1>1, <1>2, MeantPolicy, Zenon
  <1>3. /\ m \in Policies /\ n \in Policies
        /\ ps # "force" => TunnelsOf(m) = T(in.groups)
        /\ qs # "force" => TunnelsOf(n) = T(in.groups)
    BY <1>0 DEF TunnelsOf, MeansAsItStands
  <1>4. InClasses({}) = {}
    BY DEF InClasses
  <1>5. CASE ps = qs
    BY <1>5
  <1>6. CASE ps = "force" /\ qs # "force"
    <2>1. /\ m.mode = "full" /\ m.tunnels = {} /\ m.groups = {} /\ m.endpoints = {}
          /\ m.lan = FALSE /\ m.dns = FALSE
      BY <1>0, <1>6 DEF MeansAsItStands
    <2>2. pk.nic = Lo
      BY <1>1, <1>4, <2>1 DEF Passes, Unrestricted, TunnelsOf
    <2>3. QED
      BY <2>2 DEF Passes
  <1>7. CASE ps \in {"full", "guard"} /\ qs \in {"guard", "window"} /\ ps # qs
    <2>1. /\ m.endpoints = n.endpoints /\ m.lan = n.lan
          /\ m.mode \in {"full", "guard"} /\ n.mode \in {"full", "guard", "window"}
          /\ m.dns => n.mode = "window" \/ n.dns
      BY <1>0, <1>7 DEF MeansAsItStands
    <2>2. TunnelsOf(m) = TunnelsOf(n) /\ (n.mode = "full" => TunnelsOf(n) = {})
      <3>1. n.mode = "full" => in.tunnels = {} /\ in.groups = {}
        BY <1>0, <1>7 DEF MeansAsItStands
      <3>2. QED
        BY <1>3, <1>4, <1>7, <3>1
    <2>3. QED
      BY <1>1, <1>2, <2>1, <2>2 DEF Passes, Unrestricted
  <1>8. QED
    BY <1>5, <1>6, <1>7 DEF Laxity

RulesInv ==
  /\ os \in Platforms /\ known \in Inputs
  /\ standing \in {"none", "force", "full", "guard", "window"}
  /\ inForce = IF standing = "none" THEN AllOpen ELSE Rendered(os, Policy(standing, known))

\* What is in force stays the rendered policy of the posture.
LEMMA RulesStep ==
  ASSUME NEW tunnelSets \in SUBSET SUBSET Nics, NEW endpointSets \in SUBSET SUBSET Spellings,
         RulesInv, [RulesetsNext(tunnelSets, endpointSets)]_rsVars
  PROVE  RulesInv'
  <1>1. ASSUME NEW p \in {"force", "full", "guard", "window"}, ApplyPosture(p) PROVE RulesInv'
    BY <1>1 DEF ApplyPosture, RulesInv
  <1>2. CASE TakeDown
    BY <1>2 DEF TakeDown, RulesInv
  <1>3. ASSUME NEW t \in tunnelSets, NEW e \in endpointSets, Relearn(t, e) PROVE RulesInv'
    <2>1. known' \in Inputs
      BY <1>3 DEF Relearn, RulesInv, Inputs
    <2>2. QED
      BY <1>3, <2>1 DEF Relearn, RulesInv
  <1>4. CASE UNCHANGED rsVars
    BY <1>4 DEF rsVars, RulesInv
  <1>5. QED
    BY <1>1, <1>2, <1>3, <1>4 DEF RulesetsNext

\* So what it lets out is what that policy means.
LEMMA InForceLets ==
  ASSUME RulesInv, standing # "none", NEW pk \in Packets
  PROVE  /\ Lets(inForce, pk) <=> Passes(MeantBy(os, Policy(standing, known)), pk)
         /\ inForce.open \in BOOLEAN /\ inForce.rules \subseteq Rules
  BY PolicyOfInput, RenderedMeans DEF RulesInv

\* Hence the state invariants of the promise.
LEMMA RulesAreSafe ==
  ASSUME RulesInv
  PROVE  RulesetsTypeOK /\ HandshakeSurvives /\ NoWayAround /\ PlatformsAgree
  <1>1. RulesetsTypeOK
    <2>1. PICK pk \in Packets : TRUE
      <3>1. PICK d \in Dests, t \in L4 : TRUE
        BY RulesetsAssumption
      <3>2. [nic |-> Lo, to |-> d, proto |-> t, port |-> Dns] \in Packets
        BY RulesetsAssumption DEF Packets
      <3>3. QED
        BY <3>2
    <2>2. inForce.open \in BOOLEAN /\ inForce.rules \subseteq Rules
      <3>1. CASE standing = "none"
        BY <3>1 DEF RulesInv, AllOpen
      <3>2. CASE standing # "none"
        BY <2>1, <3>2, InForceLets
      <3>3. QED
        BY <3>1, <3>2
    <2>3. QED
      BY <2>2 DEF RulesInv, RulesetsTypeOK, Rules
  <1>2. ASSUME standing # "none", NEW pk \in Packets
        PROVE  \E m \in Policies :
                 /\ m = MeantBy(os, Policy(standing, known))
                 /\ Lets(inForce, pk) <=> Passes(m, pk)
                 /\ standing # "force" => /\ m.endpoints = Canon(known.endpoints) /\ m.lan = known.lan
                                          /\ TunnelsOf(m) \subseteq Tunnels
                 /\ standing \in {"full", "guard"} =>
                      /\ m.mode \in {"full", "guard"} /\ m.dns = known.dns
                      /\ m.mode = "guard" => standing = "guard"
                      /\ m.mode = "full" => m.providers = Canon(known.providers)
    <2>1. PICK m : m = MeantBy(os, Policy(standing, known))
      OBVIOUS
    <2>2. known \in Inputs /\ os \in Platforms /\ standing \in {"force", "full", "guard", "window"}
      BY <1>2 DEF RulesInv
    <2>0. MeansAsItStands(os, standing, known, m)
      BY <2>1, <2>2, MeantPolicy, Zenon
    <2>3. m \in Policies /\ (Lets(inForce, pk) <=> Passes(m, pk))
      BY <1>2, <2>1, <2>0, InForceLets DEF MeansAsItStands
    <2>4. standing # "force" => /\ m.endpoints = Canon(known.endpoints) /\ m.lan = known.lan
                                /\ TunnelsOf(m) \subseteq Tunnels
      <3>1. InClasses({}) = {}
        BY DEF InClasses
      <3>2. QED
        BY <2>0, <3>1 DEF TunnelsOf, Tunnels, MeansAsItStands
    <2>5. standing \in {"full", "guard"} =>
            /\ m.mode \in {"full", "guard"} /\ m.dns = known.dns
            /\ m.mode = "guard" => standing = "guard"
            /\ m.mode = "full" => m.providers = Canon(known.providers)
      BY <2>0 DEF MeansAsItStands
    <2>6. QED
      BY <2>1, <2>3, <2>4, <2>5
  <1>3. \A as \in SUBSET Spellings : \A pk : Addressed(pk) \in Canon(as) <=> \E s \in as : s.addr = pk.to
    BY DEF Addressed, Canon, Plain
  <1>4. HandshakeSurvives
    <2>1. SUFFICES ASSUME standing \in {"full", "guard", "window"}, NEW pk \in Packets, Server(pk)
                   PROVE  Lets(inForce, pk)
      BY DEF HandshakeSurvives
    <2>2. Addressed(pk) \in Canon(known.endpoints)
      BY <1>3, <2>1 DEF Server, RulesInv, Inputs
    <2>3. QED
      BY <1>2, <2>1, <2>2 DEF Passes
  <1>5. NoWayAround
    <2>1. SUFFICES ASSUME standing \in {"full", "guard"}, NEW pk \in Packets, Lets(inForce, pk), pk.nic # Lo
                   PROVE  \/ Server(pk)
                          \/ known.lan /\ pk.to \in Lan
                          \/ known.dns /\ pk.port = Dns /\ pk.proto \in {"udp", "tcp"}
                          \/ standing = "guard" /\ pk.nic \in Tunnels
                          \/ pk.nic \in Tunnels /\ \E s \in known.providers : s.addr = pk.to
      BY DEF NoWayAround
    <2>2. PICK m \in Policies :
            /\ Passes(m, pk) /\ m.endpoints = Canon(known.endpoints) /\ m.lan = known.lan
            /\ TunnelsOf(m) \subseteq Tunnels /\ m.mode \in {"full", "guard"} /\ m.dns = known.dns
            /\ m.mode = "guard" => standing = "guard"
            /\ m.mode = "full" => m.providers = Canon(known.providers)
      BY <1>2, <2>1
    <2>3. /\ Addressed(pk) \in Canon(known.endpoints) <=> Server(pk)
          /\ Addressed(pk) \in Canon(known.providers) <=> \E s \in known.providers : s.addr = pk.to
      BY <1>3 DEF Server, RulesInv, Inputs
    <2>4. QED
      BY <2>1, <2>2, <2>3 DEF Passes, Unrestricted
  <1>6. PlatformsAgree
    <2>1. SUFFICES ASSUME standing \in {"full", "guard", "window", "force"}, NEW pk \in Packets
                   PROVE  LET p == Policy(standing, known)
                              q == IF os = "wfp" THEN [p EXCEPT !.groups = {}] ELSE p
                          IN  Lets(inForce, pk) <=> Lets(PfRules(q), pk)
      BY DEF PlatformsAgree
    <2>2. PICK m \in Policies :
            /\ m = MeantBy(os, Policy(standing, known))
            /\ Lets(inForce, pk) <=> Passes(m, pk)
      BY <1>2, <2>1
    <2>3. Lets(PfRules(m), pk) <=> Passes(m, pk)
      <3>1. Lets(PfRules(m), pk) <=> PfRules(m).open \/ Some(PfRules(m).rules, pk)
        BY DEF Lets, Some
      <3>2. PfRules(m).open = FALSE /\ (Some(PfRules(m).rules, pk) <=> Passes(m, pk))
        BY PfMeansPolicy
      <3>3. QED
        BY <3>1, <3>2
    <2>4. QED
      BY <2>2, <2>3 DEF MeantBy
  <1>7. QED
    BY <1>1, <1>4, <1>5, <1>6

\* What the policies and their renderings promise, for all tunnels, servers and
\* provider addresses there may be, whenever they change and postures are moved.
THEOREM RulesetsKeepPromise ==
  ASSUME NEW inputs \in SUBSET Inputs, NEW tunnelSets \in SUBSET SUBSET Nics,
         NEW endpointSets \in SUBSET SUBSET Spellings
  PROVE  RulesetsInit(inputs) /\ [][RulesetsNext(tunnelSets, endpointSets)]_rsVars => RulesetsPromise
  <1>1. RulesetsInit(inputs) => RulesInv
    BY DEF RulesetsInit, RulesInv
  <1>2. ASSUME RulesInv, [RulesetsNext(tunnelSets, endpointSets)]_rsVars PROVE RulesInv'
    BY <1>2, RulesStep
  <1>3. ASSUME RulesInv, RulesInv', [RulesetsNext(tunnelSets, endpointSets)]_rsVars,
               known' = known, Laxity(standing') <= Laxity(standing), NEW pk \in Packets,
               Lets(inForce', pk)
        PROVE  Lets(inForce, pk)
    <2>1. os' = os
      BY <1>3 DEF RulesetsNext, ApplyPosture, TakeDown, Relearn, rsVars
    <2>2. CASE standing = "none"
      BY <1>3, <2>2 DEF RulesInv, AllOpen, Lets
    <2>3. CASE standing # "none"
      <3>1. standing' # "none"
        BY <1>3, <2>3 DEF RulesInv, Laxity
      <3>2. Passes(MeantBy(os, Policy(standing', known)), pk)
        <4>1. Lets(Rendered(os, Policy(standing', known)), pk)
          BY <1>3, <2>1, <3>1 DEF RulesInv
        <4>2. QED
          BY <1>3, <2>1, <3>1, <4>1, PolicyOfInput, RenderedMeans DEF RulesInv
      <3>3. Passes(MeantBy(os, Policy(standing, known)), pk)
        BY <1>3, <2>3, <3>1, <3>2, LaxerLetsMore DEF RulesInv
      <3>4. QED
        BY <1>3, <2>3, <3>3, InForceLets
    <2>4. QED
      BY <2>2, <2>3
  <1>4. ASSUME RulesInv, RulesInv', [RulesetsNext(tunnelSets, endpointSets)]_rsVars
        PROVE  inForce' # inForce /\ known' = known /\ Laxity(standing') <= Laxity(standing)
                 => \A pk \in Packets : Lets(inForce', pk) => Lets(inForce, pk)
    BY <1>3, <1>4
  <1>5. RulesetsInit(inputs) /\ [][RulesetsNext(tunnelSets, endpointSets)]_rsVars => []RulesInv
    BY <1>1, <1>2, PTL
  <1>6. RulesetsInit(inputs) /\ [][RulesetsNext(tunnelSets, endpointSets)]_rsVars => TighteningOnlyCuts
    BY <1>4, <1>5, PTL DEF TighteningOnlyCuts
  <1>7. QED
    BY <1>5, <1>6, RulesAreSafe, PTL DEF RulesetsPromise

-----------------------------------------------------------------------------
(* The macOS backend.                                                      *)

Calls == [op : {"none", "apply", "unblock", "verify"}, at : Steps, seen : BOOLEAN,
          restored : BOOLEAN, quiet : BOOLEAN,
          result : {"none", "error", "applied", "unblocked", "blocked", "clear"}]

\* Where a call may be, ...
InCourse(c) ==
  /\ c \in Calls
  /\ c.op = "apply" => c.at \in {"info", "backup", "save", "ref", "reload", "load", "enable"}
  /\ c.op = "unblock" => c.at \in {"flush", "restore", "drop", "revert", "forget"}
  /\ c.op = "verify" => c.at \in {"anchor", "status", "main"}
  /\ c.op # "none" => c.result = "none"
\* ... and what it knows of pf as long as nobody else acts.
Knows(c) ==
  c.quiet =>
    /\ c.op = "apply" => /\ c.at # "info" /\ c.seen => pfOn
                         /\ c.at = "reload" => conf.ref
                         /\ c.at \in {"load", "enable"} => mainRef
                         /\ c.at = "enable" => loaded
    /\ c.op = "verify" => /\ c.at \in {"status", "main"} => loaded
                          /\ c.at = "main" => pfOn
    /\ c.result = "applied" => Enforced
    /\ c.result \in {"blocked", "clear"} => (Enforced <=> c.result = "blocked")

PfState ==
  /\ pfOn \in BOOLEAN /\ mainRef \in BOOLEAN /\ loaded \in BOOLEAN
  /\ conf \in [ref : BOOLEAN, edition : 1 .. 2]
  /\ backup \in [ref : BOOLEAN, edition : 1 .. 2] \cup {NoBackup}
  /\ saved \in {"none", "on", "off"} /\ meddled \in BOOLEAN
  /\ foundState \in [on : BOOLEAN, edition : 1 .. 2]
CallsAreTrue ==
  \A p \in Procs : /\ InCourse(doing[p]) /\ Knows(doing[p])
                   /\ doing[p].op = "apply" => p = "daemon"
PfInv == PfState /\ DOMAIN doing = Procs /\ CallsAreTrue

\* A call that goes on as c leaves what the others know behind.
LEMMA CallGoesOn ==
  ASSUME PfInv, PfState', NEW p \in Procs, NEW c, Goes(p, c),
         InCourse(c), Knows(c)', c.op = "apply" => p = "daemon"
  PROVE  PfInv'
  <1>1. DOMAIN doing' = Procs /\ doing'[p] = c
    BY DEF Goes
  <1>2. ASSUME NEW q \in Procs, q # p
        PROVE  /\ InCourse(doing'[q]) /\ Knows(doing[q])'
               /\ doing'[q].op = "apply" => q = "daemon"
    <2>1. doing'[q] = [doing[q] EXCEPT !.quiet = FALSE] /\ doing[q] \in Calls
      BY <1>2 DEF Goes, PfInv, CallsAreTrue, InCourse
    <2>2. /\ doing'[q] \in Calls /\ doing'[q].quiet = FALSE /\ doing'[q].op = doing[q].op
          /\ doing'[q].at = doing[q].at /\ doing'[q].result = doing[q].result
      BY <2>1 DEF Calls
    <2>3. InCourse(doing'[q]) /\ (doing'[q].op = "apply" => q = "daemon")
      BY <2>2 DEF PfInv, CallsAreTrue, InCourse
    <2>4. Knows(doing[q])'
      BY <2>2 DEF Knows
    <2>5. QED
      BY <2>3, <2>4
  <1>3. InCourse(doing[p])' /\ Knows(doing[p])' /\ (doing'[p].op = "apply" => p = "daemon")
    BY <1>1 DEF InCourse, Knows
  <1>4. QED
    BY <1>1, <1>2, <1>3 DEF PfInv, CallsAreTrue, InCourse

\* A step of Apply.
LEMMA ApplyStep ==
  ASSUME PfInv, NEW p \in Procs, Applying(p)
  PROVE  PfInv'
  <1>1. doing[p] \in Calls /\ doing[p].op = "apply" /\ p = "daemon" /\ doing[p].result = "none"
    BY DEF PfInv, CallsAreTrue, InCourse, Applying, ReadInfo, BackupConf, SavePfState,
           EnsureAnchorRef, ReloadMain, LoadAnchor, EnablePf, At
  <1>2. CASE ReadInfo(p)
    <2>1. PICK c \in Calls : /\ c = [doing[p] EXCEPT !.seen = pfOn,
                                      !.at = IF saved = "none" THEN "backup" ELSE "ref"]
      BY <1>1 DEF PfInv, PfState, Calls, Steps
    <2>2. Goes(p, c) /\ PfState'
      BY <1>2, <2>1 DEF ReadInfo, PfInv, PfState, kernel, disk
    <2>3. InCourse(c) /\ Knows(c)'
      BY <1>1, <1>2, <2>1 DEF InCourse, Knows, Calls, ReadInfo, kernel, disk, Enforced
    <2>4. QED
      BY <1>1, <2>2, <2>3, CallGoesOn
  <1>3. CASE BackupConf(p)
    <2>1. PICK c \in Calls : c = [doing[p] EXCEPT !.at = "save"]
      BY <1>1 DEF Calls, Steps
    <2>2. Goes(p, c) /\ PfState'
      BY <1>3, <2>1 DEF BackupConf, To, PfInv, PfState, kernel
    <2>3. InCourse(c) /\ Knows(c)'
      BY <1>1, <1>3, <2>1
      DEF InCourse, Knows, Calls, BackupConf, At, kernel, PfInv, CallsAreTrue, Enforced
    <2>4. QED
      BY <1>1, <2>2, <2>3, CallGoesOn
  <1>4. CASE SavePfState(p)
    <2>1. PICK c \in Calls : c = [doing[p] EXCEPT !.at = "ref"]
      BY <1>1 DEF Calls, Steps
    <2>2. Goes(p, c) /\ PfState'
      BY <1>4, <2>1 DEF SavePfState, To, PfInv, PfState, kernel
    <2>3. InCourse(c) /\ Knows(c)'
      BY <1>1, <1>4, <2>1
      DEF InCourse, Knows, Calls, SavePfState, At, kernel, PfInv, CallsAreTrue, Enforced
    <2>4. QED
      BY <1>1, <2>2, <2>3, CallGoesOn
  <1>5. CASE EnsureAnchorRef(p)
    <2>1. PICK c \in Calls : c = [doing[p] EXCEPT !.at = "reload"]
      BY <1>1 DEF Calls, Steps
    <2>2. Goes(p, c) /\ PfState' /\ conf'.ref = TRUE
      BY <1>5, <2>1 DEF EnsureAnchorRef, To, PfInv, PfState, kernel
    <2>3. InCourse(c) /\ Knows(c)'
      BY <1>1, <1>5, <2>1, <2>2
      DEF InCourse, Knows, Calls, EnsureAnchorRef, At, kernel, PfInv, CallsAreTrue, Enforced
    <2>4. QED
      BY <1>1, <2>2, <2>3, CallGoesOn
  <1>6. CASE ReloadMain(p)
    <2>1. PICK c \in Calls : c = [doing[p] EXCEPT !.at = "load"]
      BY <1>1 DEF Calls, Steps
    <2>2. Goes(p, c) /\ PfState'
      BY <1>6, <2>1 DEF ReloadMain, To, PfInv, PfState, disk
    <2>3. InCourse(c) /\ Knows(c)'
      BY <1>1, <1>6, <2>1
      DEF InCourse, Knows, Calls, ReloadMain, At, disk, PfInv, CallsAreTrue, Enforced
    <2>4. QED
      BY <1>1, <2>2, <2>3, CallGoesOn
  <1>7. CASE LoadAnchor(p)
    <2>1. PICK c \in Calls : c = [doing[p] EXCEPT !.at = "enable"]
      BY <1>1 DEF Calls, Steps
    <2>2. Goes(p, c) /\ PfState'
      BY <1>7, <2>1 DEF LoadAnchor, To, PfInv, PfState, disk
    <2>3. InCourse(c) /\ Knows(c)'
      BY <1>1, <1>7, <2>1
      DEF InCourse, Knows, Calls, LoadAnchor, At, disk, PfInv, CallsAreTrue, Enforced
    <2>4. QED
      BY <1>1, <2>2, <2>3, CallGoesOn
  <1>8. CASE EnablePf(p)
    <2>1. PICK c \in Calls : c = [doing[p] EXCEPT !.op = "none", !.at = "end", !.result = "applied"]
      BY <1>1 DEF Calls, Steps
    <2>2. Goes(p, c) /\ PfState'
      BY <1>8, <2>1 DEF EnablePf, CallEnds, PfInv, PfState, disk
    <2>3. InCourse(c) /\ Knows(c)'
      BY <1>1, <1>8, <2>1
      DEF InCourse, Knows, Calls, EnablePf, At, disk, PfInv, PfState, CallsAreTrue, Enforced
    <2>4. QED
      BY <1>1, <2>1, <2>2, <2>3, CallGoesOn
  <1>9. QED
    BY <1>2, <1>3, <1>4, <1>5, <1>6, <1>7, <1>8 DEF Applying

\* A step of Unblock, after which a call knows nothing.
LEMMA UnblockStep ==
  ASSUME PfInv, NEW p \in Procs, Unblocking(p)
  PROVE  PfInv'
  <1>1. doing[p] \in Calls /\ doing[p].op = "unblock" /\ doing[p].result = "none"
    BY DEF PfInv, CallsAreTrue, InCourse, Unblocking, FlushAnchor, RestoreConf, DropBackup,
           RevertPf, ForgetPfState, At
  <1>2. PfState'
    <2>1. CASE FlushAnchor(p)
      BY <2>1 DEF PfInv, PfState, FlushAnchor, disk
    <2>2. CASE RestoreConf(p)
      BY <2>2 DEF PfInv, PfState, RestoreConf, kernel
    <2>3. CASE DropBackup(p)
      BY <2>3 DEF PfInv, PfState, DropBackup, NoBackup, kernel
    <2>4. CASE RevertPf(p)
      BY <2>4 DEF PfInv, PfState, RevertPf, disk
    <2>5. CASE ForgetPfState(p)
      BY <2>5 DEF PfInv, PfState, ForgetPfState, kernel
    <2>6. QED
      BY <2>1, <2>2, <2>3, <2>4, <2>5 DEF Unblocking
  <1>3. PICK c \in Calls :
          /\ Goes(p, c) /\ c.op \in {"unblock", "none"}
          /\ c.op = "unblock" => c.at \in {"restore", "drop", "revert", "forget"}
          /\ c.result \in {"none", "unblocked"} /\ (c.op # "none" => c.result = "none")
    <2>1. ASSUME NEW s \in {"restore", "drop", "revert", "forget"}, To(p, s)
          PROVE  \E c \in Calls : Goes(p, c) /\ c.op = "unblock" /\ c.at = s /\ c.result = "none"
      <3>1. PICK c \in Calls : c = [doing[p] EXCEPT !.at = s]
        BY <1>1 DEF Calls, Steps
      <3>2. Goes(p, c) /\ c.op = "unblock" /\ c.at = s /\ c.result = "none"
        BY <1>1, <2>1, <3>1 DEF To, Calls
      <3>3. QED
        BY <3>2
    <2>2. CASE FlushAnchor(p) \/ RestoreConf(p) \/ RevertPf(p)
      <3>1. PICK s \in {"restore", "drop", "revert", "forget"} : To(p, s)
        BY <2>2 DEF FlushAnchor, RestoreConf, RevertPf
      <3>2. PICK c \in Calls : Goes(p, c) /\ c.op = "unblock" /\ c.at = s /\ c.result = "none"
        BY <2>1, <3>1
      <3>3. QED
        BY <3>2
    <2>3. CASE DropBackup(p)
      <3>1. PICK c \in Calls : c = [doing[p] EXCEPT !.at = "revert", !.restored = TRUE]
        BY <1>1 DEF Calls, Steps
      <3>2. Goes(p, c) /\ c.op = "unblock" /\ c.at = "revert" /\ c.result = "none"
        BY <1>1, <2>3, <3>1 DEF DropBackup, Calls
      <3>3. QED
        BY <3>2
    <2>4. CASE ForgetPfState(p)
      <3>1. PICK c \in Calls : c = [doing[p] EXCEPT !.op = "none", !.at = "end", !.result = "unblocked"]
        BY <1>1 DEF Calls, Steps
      <3>2. Goes(p, c) /\ c.op = "none" /\ c.result = "unblocked"
        BY <1>1, <2>4, <3>1 DEF ForgetPfState, CallEnds, Calls
      <3>3. QED
        BY <3>2
    <2>5. QED
      BY <2>2, <2>3, <2>4 DEF Unblocking
  <1>4. InCourse(c) /\ Knows(c)'
    BY <1>3 DEF InCourse, Knows
  <1>5. QED
    BY <1>2, <1>3, <1>4, CallGoesOn

\* A read of IsBlocked.
LEMMA VerifyStep ==
  ASSUME PfInv, NEW p \in Procs, Verifying(p)
  PROVE  PfInv'
  <1>1. /\ doing[p] \in Calls /\ doing[p].op = "verify" /\ doing[p].result = "none"
        /\ Knows(doing[p])
    BY DEF PfInv, CallsAreTrue, InCourse, Verifying, ReadAnchor, ReadStatus, ReadMain,
           Answers, At
  <1>2. PfState' /\ UNCHANGED <<kernel, disk>>
    BY DEF PfInv, PfState, Verifying, ReadAnchor, ReadStatus, ReadMain, Answers, kernel, disk
  <1>3. ASSUME NEW holds \in BOOLEAN, NEW next \in Calls, NEW at \in {"anchor", "status", "main"},
               doing[p].at = at, ~holds => ~Enforced,
               holds => InCourse(next) /\ Knows(next) /\ next.op # "apply",
               IF holds THEN Goes(p, next) ELSE CallEnds(p, "clear")
        PROVE  PfInv'
    <2>1. CASE holds
      <3>1. Knows(next)'
        BY <1>2, <1>3, <2>1 DEF Knows, Enforced, kernel, disk
      <3>2. QED
        BY <1>2, <1>3, <2>1, <3>1, CallGoesOn
    <2>2. CASE ~holds
      <3>1. PICK c \in Calls : c = [doing[p] EXCEPT !.op = "none", !.at = "end", !.result = "clear"]
        BY <1>1 DEF Calls, Steps
      <3>2. Goes(p, c) /\ InCourse(c)
        BY <1>3, <2>2, <3>1 DEF CallEnds, InCourse, Calls
      <3>3. Knows(c)'
        BY <1>1, <1>2, <1>3, <2>2, <3>1 DEF Knows, Enforced, Calls, kernel, disk
      <3>4. QED
        BY <1>1, <1>2, <3>1, <3>2, <3>3, CallGoesOn DEF Calls
    <2>3. QED
      BY <2>1, <2>2
  <1>4. CASE ReadAnchor(p)
    <2>1. PICK c \in Calls : c = [doing[p] EXCEPT !.at = "status"]
      BY <1>1 DEF Calls, Steps
    <2>2. loaded => InCourse(c) /\ Knows(c) /\ c.op # "apply"
      BY <1>1, <2>1 DEF InCourse, Knows, Calls, Enforced
    <2>3. QED
      BY <1>3, <1>4, <2>1, <2>2 DEF ReadAnchor, Answers, At, Enforced, PfInv, PfState
  <1>5. CASE ReadStatus(p)
    <2>1. PICK c \in Calls : c = [doing[p] EXCEPT !.at = "main"]
      BY <1>1 DEF Calls, Steps
    <2>2. pfOn => InCourse(c) /\ Knows(c) /\ c.op # "apply"
      BY <1>1, <1>5, <2>1 DEF InCourse, Knows, Calls, Enforced, ReadStatus, Answers, At
    <2>3. QED
      BY <1>3, <1>5, <2>1, <2>2 DEF ReadStatus, Answers, At, Enforced, PfInv, PfState
  <1>6. CASE ReadMain(p)
    <2>1. PICK c \in Calls : c = [doing[p] EXCEPT !.op = "none", !.at = "end", !.result = "blocked"]
      BY <1>1 DEF Calls, Steps
    <2>2. mainRef => InCourse(c) /\ Knows(c) /\ c.op # "apply"
      BY <1>1, <1>6, <2>1 DEF InCourse, Knows, Calls, Enforced, ReadMain, Answers, At
    <2>3. QED
      BY <1>3, <1>6, <2>1, <2>2 DEF ReadMain, Answers, At, Enforced, PfInv, PfState
  <1>7. QED
    BY <1>4, <1>5, <1>6 DEF Verifying

\* The beginning of a call, its failure and its death.
LEMMA CallComesOrGoes ==
  ASSUME PfInv, NEW p \in Procs,
         (\E op \in {"apply", "unblock", "verify"} : Begin(p, op)) \/ Fails(p) \/ CallDies(p)
  PROVE  PfInv'
  <1>1. PfState' /\ UNCHANGED <<kernel, disk>> /\ doing[p] \in Calls
    BY DEF Begin, Fails, CallDies, PfInv, PfState, CallsAreTrue, InCourse, kernel, disk
  <1>2. ASSUME NEW op \in {"apply", "unblock", "verify"}, Begin(p, op) PROVE PfInv'
    <2>1. PICK c \in Calls :
            /\ doing' = [doing EXCEPT ![p] = c] /\ c.op = op /\ c.result = "none"
            /\ c.at \in {"info", "flush", "anchor"} /\ c.seen = FALSE
            /\ op = "apply" => c.at = "info" /\ p = "daemon"
            /\ op = "unblock" => c.at = "flush"
            /\ op = "verify" => c.at = "anchor"
      <3>1. PICK at \in {"info", "flush", "anchor"} :
              /\ doing' = [doing EXCEPT ![p] = [Resting EXCEPT !.op = op, !.at = at]]
              /\ op = "apply" => at = "info"
              /\ op = "unblock" => at = "flush"
              /\ op = "verify" => at = "anchor"
        BY <1>2 DEF Begin
      <3>2. [Resting EXCEPT !.op = op, !.at = at] \in Calls
        BY <3>1 DEF Resting, Calls, Steps
      <3>3. op = "apply" => p = "daemon"
        BY <1>2, PfAssumption DEF Begin
      <3>4. QED
        BY <3>1, <3>2, <3>3 DEF Resting
    <2>2. InCourse(c) /\ Knows(c)'
      BY <2>1 DEF InCourse, Knows
    <2>3. DOMAIN doing' = Procs /\ doing'[p] = c /\ \A q \in Procs \ {p} : doing'[q] = doing[q]
      BY <2>1 DEF PfInv
    <2>4. ASSUME NEW q \in Procs
          PROVE  InCourse(doing[q])' /\ Knows(doing[q])' /\ (doing'[q].op = "apply" => q = "daemon")
      <3>1. CASE q = p
        BY <2>1, <2>2, <2>3, <3>1 DEF InCourse, Knows
      <3>2. CASE q # p
        BY <1>1, <2>3, <3>2 DEF PfInv, CallsAreTrue, InCourse, Knows, Enforced, kernel, disk
      <3>3. QED
        BY <3>1, <3>2
    <2>5. QED
      BY <1>1, <2>3, <2>4 DEF PfInv, CallsAreTrue
  <1>3. CASE Fails(p)
    <2>1. PICK c \in Calls : c = [doing[p] EXCEPT !.op = "none", !.at = "end", !.result = "error"]
      BY <1>1 DEF Calls, Steps
    <2>2. Goes(p, c) /\ InCourse(c) /\ Knows(c)' /\ c.op = "none"
      BY <1>3, <2>1 DEF Fails, CallEnds, InCourse, Knows, Calls
    <2>3. QED
      BY <1>1, <2>2, CallGoesOn
  <1>4. CASE CallDies(p)
    <2>1. PICK c \in Calls : c = Resting
      BY DEF Resting, Calls, Steps
    <2>2. Goes(p, c) /\ InCourse(c) /\ Knows(c)' /\ c.op = "none"
      BY <1>4, <2>1 DEF CallDies, Resting, InCourse, Knows
    <2>3. QED
      BY <1>1, <2>2, CallGoesOn
  <1>5. QED
    BY <1>2, <1>3, <1>4

\* A step of somebody else leaves no call quiet; a restart leaves none.
LEMMA OutsiderStep ==
  ASSUME PfInv, SwitchPf \/ ReplaceConf \/ Reboot
  PROVE  PfInv'
  <1>1. CASE SwitchPf \/ ReplaceConf
    <2>1. PfState'
      <3>1. CASE SwitchPf
        <4>1. pfOn' \in BOOLEAN /\ mainRef' \in BOOLEAN /\ loaded' \in BOOLEAN /\ meddled' \in BOOLEAN
          BY <3>1 DEF SwitchPf, Disturbs, Busied, Marked, PfInv, PfState
        <4>2. foundState' \in [on : BOOLEAN, edition : 1 .. 2]
          BY <3>1, <4>1 DEF SwitchPf, Disturbs, PfInv, PfState
        <4>3. QED
          BY <3>1, <4>1, <4>2 DEF SwitchPf, Disturbs, PfInv, PfState
      <3>2. CASE ReplaceConf
        <4>1. PICK n \in 1 .. 2 : n = 3 - conf.edition
          BY DEF PfInv, PfState
        <4>2. conf' = [ref |-> FALSE, edition |-> n]
          BY <3>2, <4>1 DEF ReplaceConf
        <4>3. conf' \in [ref : BOOLEAN, edition : 1 .. 2] /\ conf'.edition = n
          BY <4>2
        <4>4. pfOn' \in BOOLEAN /\ mainRef' \in BOOLEAN /\ loaded' \in BOOLEAN /\ meddled' \in BOOLEAN
          BY <3>2 DEF ReplaceConf, Disturbs, Busied, Marked, PfInv, PfState
        <4>5. foundState' \in [on : BOOLEAN, edition : 1 .. 2]
          BY <3>2, <4>3, <4>4 DEF ReplaceConf, Disturbs, PfInv, PfState
        <4>6. QED
          BY <3>2, <4>3, <4>4, <4>5 DEF ReplaceConf, Disturbs, PfInv, PfState
      <3>3. QED
        BY <1>1, <3>1, <3>2
    <2>2. doing' = [q \in Procs |-> [doing[q] EXCEPT !.quiet = FALSE]]
      BY <1>1 DEF SwitchPf, ReplaceConf, Disturbs
    <2>3. ASSUME NEW q \in Procs
          PROVE  InCourse(doing[q])' /\ Knows(doing[q])' /\ (doing'[q].op = "apply" => q = "daemon")
      <3>1. doing'[q] = [doing[q] EXCEPT !.quiet = FALSE] /\ doing[q] \in Calls
        BY <2>2 DEF PfInv, CallsAreTrue, InCourse
      <3>2. /\ doing'[q] \in Calls /\ doing'[q].quiet = FALSE /\ doing'[q].op = doing[q].op
            /\ doing'[q].at = doing[q].at /\ doing'[q].result = doing[q].result
        BY <3>1 DEF Calls
      <3>3. QED
        BY <3>2 DEF PfInv, CallsAreTrue, InCourse, Knows
    <2>4. QED
      BY <2>1, <2>2, <2>3 DEF PfInv, CallsAreTrue
  <1>2. CASE Reboot
    <2>1. PfState'
      BY <1>2 DEF Reboot, PfInv, PfState, disk
    <2>2. \A q \in Procs : doing'[q] = Resting
      BY <1>2 DEF Reboot
    <2>3. /\ Resting \in Calls /\ Resting.op = "none" /\ Resting.result = "none"
      BY DEF Resting, Calls, Steps
    <2>4. \A q \in Procs : InCourse(doing[q])' /\ Knows(doing[q])' /\ doing'[q].op = "none"
      BY <2>2, <2>3 DEF InCourse, Knows
    <2>5. QED
      BY <1>2, <2>1, <2>4 DEF Reboot, PfInv, CallsAreTrue
  <1>3. QED
    BY <1>1, <1>2

\* Every step of a call, of pf or of somebody else keeps the invariant.
LEMMA PfStep ==
  ASSUME PfInv, [PfNext]_pfVars
  PROVE  PfInv'
  <1>1. CASE PfNext
    BY <1>1, ApplyStep, UnblockStep, VerifyStep, CallComesOrGoes, OutsiderStep DEF PfNext
  <1>2. CASE UNCHANGED pfVars
    BY <1>2 DEF PfInv, PfState, CallsAreTrue, InCourse, Knows, Enforced, pfVars, kernel, disk
  <1>3. QED
    BY <1>1, <1>2

\* The host a first call finds satisfies it.
LEMMA PfStart == PfInit => PfInv
  <1>1. SUFFICES ASSUME PfInit PROVE PfInv
    OBVIOUS
  <1>2. Resting \in Calls /\ Resting.op = "none" /\ Resting.result = "none"
    BY DEF Resting, Calls, Steps
  <1>3. CallsAreTrue /\ DOMAIN doing = Procs
    BY <1>1, <1>2 DEF PfInit, CallsAreTrue, InCourse, Knows
  <1>4. PfState
    <2>1. /\ [ref |-> FALSE, edition |-> 1] \in [ref : BOOLEAN, edition : 1 .. 2]
          /\ \A b \in BOOLEAN : [on |-> b, edition |-> 1] \in [on : BOOLEAN, edition : 1 .. 2]
      OBVIOUS
    <2>2. QED
      BY <1>1, <2>1 DEF PfInit, PfState
  <1>5. QED
    BY <1>3, <1>4 DEF PfInv

\* Hence it holds always.
LEMMA PfAlways == PfSpec => []PfInv
  BY PfStart, PfStep, PTL DEF PfSpec

\* Whatever processes drive pf and whatever fails or dies, Apply says applied and
\* IsBlocked says blocked only of rules that packets meet.
THEOREM PfTellsTheTruth == PfSpec => [](PfTypeOK /\ AppliedIsEnforced /\ BlockedMeansEnforced)
  <1>1. ASSUME PfInv PROVE PfTypeOK /\ AppliedIsEnforced /\ BlockedMeansEnforced
    <2>1. PfTypeOK
      <3>1. \A p \in Procs : doing[p].at \in Steps
        BY <1>1 DEF PfInv, CallsAreTrue, InCourse, Calls
      <3>2. conf.ref \in BOOLEAN /\ conf.edition \in 1 .. 2 /\ backup.ref \in BOOLEAN
        <4>1. NoBackup.ref = FALSE
          BY DEF NoBackup
        <4>2. QED
          BY <1>1, <4>1 DEF PfInv, PfState
      <3>3. QED
        BY <1>1, <3>1, <3>2 DEF PfInv, PfState, PfTypeOK
    <2>2. AppliedIsEnforced /\ BlockedMeansEnforced
      BY <1>1 DEF PfInv, CallsAreTrue, Knows, AppliedIsEnforced, BlockedMeansEnforced
    <2>3. QED
      BY <2>1, <2>2
  <1>2. QED
    BY <1>1, PfAlways, PTL

-----------------------------------------------------------------------------
(* No gap.                                                                 *)

\* While the daemon is about to reload pf.conf, only an Unblock that has not yet
\* got to pf can have taken our line out of the file.
LineIsThere ==
  \A p \in Procs :
    At(p, "apply", "reload") /\ ~conf.ref /\ ~meddled
      => \/ ~pfOn \/ ~mainRef
         \/ \E q \in Procs : \/ At(q, "unblock", "drop")
                             \/ At(q, "unblock", "revert") /\ doing[q].restored

\* What pf was before the first Apply is not forgotten, ...
RemembersFound ==
  /\ conf.edition = foundState.edition
  /\ backup \in {NoBackup, [ref |-> FALSE, edition |-> foundState.edition]}
  /\ saved = "none" => (pfOn <=> foundState.on)
  /\ saved = "on" => pfOn /\ foundState.on
  /\ saved = "off" => ~foundState.on
  /\ conf.ref => backup # NoBackup /\ saved # "none"
\* ... and a call leaves out none of what it has to record or put back.
CallFits(c) ==
  /\ saved # "none" => backup # NoBackup \/ (c.op = "unblock" /\ c.at \in {"revert", "forget"})
  /\ c.op = "apply" => /\ c.at \in {"backup", "save"} => saved = "none" /\ (c.seen <=> foundState.on)
                       /\ c.at = "save" => backup # NoBackup
                       /\ c.at \in {"ref", "reload", "load", "enable"} => saved # "none"
  /\ c.op = "unblock" => /\ c.at = "drop" => backup # NoBackup /\ conf = backup
                         /\ c.at \in {"revert", "forget"} => backup = NoBackup
                         /\ c.at = "forget" => (pfOn <=> foundState.on)
  /\ c.result = "unblocked" /\ c.quiet => ~conf.ref /\ (pfOn <=> foundState.on)
FoundInv == ~meddled => RemembersFound /\ \A p \in Procs : CallFits(doing[p])

\* A step of one call leaves the others where they are.
LEMMA OthersStay ==
  ASSUME PfInv, NEW q \in Procs, NEW p \in Procs, p # q,
         \/ \E op \in {"apply", "unblock", "verify"} : Begin(q, op)
         \/ Applying(q) \/ Unblocking(q) \/ Verifying(q) \/ Fails(q) \/ CallDies(q)
  PROVE  /\ doing'[p].op = doing[p].op /\ doing'[p].at = doing[p].at
         /\ doing'[p].restored = doing[p].restored
  <1>1. doing[p] \in Calls
    BY DEF PfInv, CallsAreTrue, InCourse
  <1>2. doing'[p] = doing[p] \/ doing'[p] = [doing[p] EXCEPT !.quiet = FALSE]
    <2>1. ASSUME NEW c, Goes(q, c) PROVE doing'[p] = [doing[p] EXCEPT !.quiet = FALSE]
      BY <2>1 DEF Goes
    <2>2. CASE \E op \in {"apply", "unblock", "verify"} : Begin(q, op)
      BY <2>2 DEF Begin, PfInv
    <2>3. CASE Applying(q)
      BY <2>1, <2>3 DEF Applying, ReadInfo, BackupConf, SavePfState, EnsureAnchorRef, ReloadMain,
                        LoadAnchor, EnablePf, To, CallEnds
    <2>4. CASE Unblocking(q)
      BY <2>1, <2>4 DEF Unblocking, FlushAnchor, RestoreConf, DropBackup, RevertPf,
                        ForgetPfState, To, CallEnds
    <2>5. CASE Verifying(q) \/ Fails(q) \/ CallDies(q)
      BY <2>1, <2>5 DEF Verifying, ReadAnchor, ReadStatus, ReadMain, Answers, Fails, CallDies, CallEnds
    <2>6. QED
      BY <2>2, <2>3, <2>4, <2>5
  <1>3. QED
    BY <1>1, <1>2 DEF Calls

\* Where the call itself gets to.
LEMMA OwnStep ==
  ASSUME PfInv, NEW q \in Procs
  PROVE  /\ FlushAnchor(q) => At(q, "unblock", "restore")'
         /\ RestoreConf(q) /\ backup # NoBackup => At(q, "unblock", "drop")'
         /\ RestoreConf(q) => doing'[q].at # "reload"
         /\ DropBackup(q) => At(q, "unblock", "revert")' /\ doing'[q].restored = TRUE
         /\ RevertPf(q) => At(q, "unblock", "forget")'
         /\ Applying(q) /\ At(q, "apply", "reload")' => EnsureAnchorRef(q)
         /\ Unblocking(q) \/ Verifying(q) \/ Fails(q) \/ CallDies(q) => ~At(q, "apply", "reload")'
         /\ (\E op \in {"apply", "unblock", "verify"} : Begin(q, op)) => ~At(q, "apply", "reload")'
  <1>1. doing[q] \in Calls /\ InCourse(doing[q])
    BY DEF PfInv, CallsAreTrue, InCourse
  <1>2. ASSUME NEW c, Goes(q, c) PROVE doing'[q] = c
    BY <1>2 DEF Goes
  <1>3. ASSUME NEW s, To(q, s) PROVE doing'[q].at = s /\ doing'[q].op = doing[q].op
    <2>1. doing'[q] = [doing[q] EXCEPT !.at = s]
      BY <1>3, <1>2 DEF To
    <2>2. QED
      BY <1>1, <2>1 DEF Calls
  <1>4. ASSUME NEW r, CallEnds(q, r) PROVE doing'[q].op = "none"
    <2>1. doing'[q] = [doing[q] EXCEPT !.op = "none", !.at = "end", !.result = r]
      BY <1>4, <1>2 DEF CallEnds
    <2>2. QED
      BY <1>1, <2>1 DEF Calls
  <1>5. FlushAnchor(q) => At(q, "unblock", "restore")'
    BY <1>3 DEF FlushAnchor, At
  <1>6. /\ RestoreConf(q) /\ backup # NoBackup => At(q, "unblock", "drop")'
        /\ RestoreConf(q) => doing'[q].at # "reload"
    BY <1>3 DEF RestoreConf, At
  <1>7. DropBackup(q) => At(q, "unblock", "revert")' /\ doing'[q].restored = TRUE
    <2>1. SUFFICES ASSUME DropBackup(q) PROVE At(q, "unblock", "revert")' /\ doing'[q].restored = TRUE
      OBVIOUS
    <2>2. doing'[q] = [doing[q] EXCEPT !.at = "revert", !.restored = TRUE] /\ doing[q].op = "unblock"
      BY <1>2, <2>1 DEF DropBackup, At
    <2>3. QED
      BY <1>1, <2>2 DEF Calls, At
  <1>8. RevertPf(q) => At(q, "unblock", "forget")'
    BY <1>3 DEF RevertPf, At
  <1>9. Applying(q) /\ At(q, "apply", "reload")' => EnsureAnchorRef(q)
    <2>1. ReadInfo(q) => doing'[q].at # "reload"
      <3>1. ReadInfo(q) => doing'[q] = [doing[q] EXCEPT !.seen = pfOn,
                                         !.at = IF saved = "none" THEN "backup" ELSE "ref"]
        BY <1>2 DEF ReadInfo
      <3>2. QED
        BY <1>1, <3>1 DEF Calls
    <2>2. BackupConf(q) \/ SavePfState(q) \/ ReloadMain(q) \/ LoadAnchor(q) => doing'[q].at # "reload"
      BY <1>3 DEF BackupConf, SavePfState, ReloadMain, LoadAnchor
    <2>3. EnablePf(q) => doing'[q].op = "none"
      BY <1>4 DEF EnablePf
    <2>4. QED
      BY <2>1, <2>2, <2>3 DEF Applying, At
  <1>10. Unblocking(q) \/ Verifying(q) \/ Fails(q) \/ CallDies(q) => ~At(q, "apply", "reload")'
    <2>1. Unblocking(q) => doing'[q].at # "reload" \/ doing'[q].op = "none"
      BY <1>4, <1>5, <1>6, <1>7, <1>8 DEF Unblocking, ForgetPfState, At
    <2>2. Verifying(q) => doing'[q].op # "apply"
      <3>1. ASSUME NEW next \in Calls, next.op # "apply", Goes(q, next) \/ CallEnds(q, "clear")
            PROVE  doing'[q].op # "apply"
        BY <1>2, <1>4, <3>1
      <3>2. PICK a \in Calls : a = [doing[q] EXCEPT !.at = "status"]
        BY <1>1 DEF Calls, Steps
      <3>3. PICK b \in Calls : b = [doing[q] EXCEPT !.at = "main"]
        BY <1>1 DEF Calls, Steps
      <3>4. PICK d \in Calls : d = [doing[q] EXCEPT !.op = "none", !.at = "end", !.result = "blocked"]
        BY <1>1 DEF Calls, Steps
      <3>5. a.op = doing[q].op /\ b.op = doing[q].op /\ d.op = "none"
        BY <1>1, <3>2, <3>3, <3>4 DEF Calls
      <3>6. QED
        BY <3>1, <3>2, <3>3, <3>4, <3>5 DEF Verifying, ReadAnchor, ReadStatus, ReadMain, Answers, At
    <2>3. Fails(q) \/ CallDies(q) => doing'[q].op = "none"
      BY <1>2, <1>4 DEF Fails, CallDies, Resting
    <2>4. QED
      BY <2>1, <2>2, <2>3 DEF At
  <1>11. (\E op \in {"apply", "unblock", "verify"} : Begin(q, op)) => ~At(q, "apply", "reload")'
    <2>1. SUFFICES ASSUME NEW op \in {"apply", "unblock", "verify"}, Begin(q, op)
                   PROVE  doing'[q].at # "reload"
      BY DEF At
    <2>2. PICK at \in {"info", "flush", "anchor"} : doing'[q] = [Resting EXCEPT !.op = op, !.at = at]
      BY <2>1 DEF Begin, PfInv
    <2>3. QED
      BY <2>2 DEF Resting
  <1>12. QED
    BY <1>5, <1>6, <1>7, <1>8, <1>9, <1>10, <1>11

\* Every step keeps the line, unless the command line's unblock may fail between two steps.
LEMMA LineStep ==
  ASSUME "cli" \notin Procs \/ "unblock" \notin Perils, PfInv, LineIsThere, [PfNext]_pfVars
  PROVE  LineIsThere'
  <1>1. SUFFICES ASSUME NEW p \in Procs, At(p, "apply", "reload")', ~conf'.ref, ~meddled', pfOn', mainRef'
                 PROVE  \E q \in Procs : \/ At(q, "unblock", "drop")'
                                         \/ At(q, "unblock", "revert")' /\ doing'[q].restored
    BY DEF LineIsThere
  <1>2. ASSUME NEW q \in Procs,
               \/ \E op \in {"apply", "unblock", "verify"} : Begin(q, op)
               \/ Applying(q) \/ Unblocking(q) \/ Verifying(q) \/ Fails(q) \/ CallDies(q)
        PROVE  \E r \in Procs : \/ At(r, "unblock", "drop")'
                                \/ At(r, "unblock", "revert")' /\ doing'[r].restored
    <2>1. q # p
      <3>1. SUFFICES ASSUME q = p PROVE FALSE
        OBVIOUS
      <3>2. EnsureAnchorRef(p)
        BY <1>1, <1>2, <3>1, OwnStep
      <3>3. conf'.ref = TRUE
        BY <3>2 DEF EnsureAnchorRef, PfInv, PfState
      <3>4. QED
        BY <1>1, <3>3
    <2>2. At(p, "apply", "reload") /\ p = "daemon" /\ q = "cli" /\ "unblock" \notin Perils
      <3>1. doing'[p].op = doing[p].op /\ doing'[p].at = doing[p].at
        BY <1>2, <2>1, OthersStay
      <3>2. At(p, "apply", "reload")
        BY <1>1, <3>1 DEF At
      <3>3. p = "daemon"
        BY <3>2, PfAssumption DEF At, PfInv, CallsAreTrue
      <3>4. q = "cli" /\ "unblock" \notin Perils
        BY <2>1, <3>3, PfAssumption
      <3>5. QED
        BY <3>2, <3>3, <3>4
    <2>3. doing[q].op # "apply" /\ ~Applying(q)
      BY <2>1, <2>2 DEF PfInv, CallsAreTrue, Applying, ReadInfo, BackupConf, SavePfState,
                        EnsureAnchorRef, ReloadMain, LoadAnchor, EnablePf, At
    <2>4. CASE Unblocking(q)
      <3>1. meddled' = meddled
        BY <2>4 DEF Unblocking, FlushAnchor, RestoreConf, DropBackup, RevertPf, ForgetPfState
      <3>2. CASE RestoreConf(q) /\ backup # NoBackup
        BY <3>2, OwnStep
      <3>3. CASE DropBackup(q)
        BY <3>3, OwnStep
      <3>4. CASE FlushAnchor(q) \/ ForgetPfState(q) \/ RevertPf(q) \/ (RestoreConf(q) /\ backup = NoBackup)
        <4>1. conf' = conf /\ (pfOn' => pfOn)
          <5>1. CASE FlushAnchor(q)
            BY <5>1 DEF FlushAnchor, disk
          <5>2. CASE ForgetPfState(q)
            BY <5>2 DEF ForgetPfState, kernel
          <5>3. CASE RevertPf(q)
            BY <5>3 DEF RevertPf, disk
          <5>4. CASE RestoreConf(q) /\ backup = NoBackup
            BY <5>4 DEF RestoreConf, kernel
          <5>5. QED
            BY <3>4, <5>1, <5>2, <5>3, <5>4
        <4>2. mainRef
          BY <1>1, <3>4, <4>1 DEF FlushAnchor, ForgetPfState, RevertPf, RestoreConf, disk, kernel,
                                  PfInv, PfState
        <4>3. PICK r \in Procs : \/ At(r, "unblock", "drop")
                                 \/ At(r, "unblock", "revert") /\ doing[r].restored
          BY <1>1, <2>2, <3>1, <4>1, <4>2 DEF LineIsThere
        <4>4. r = q
          BY <2>2, <4>3, PfAssumption DEF At
        <4>5. RevertPf(q) /\ doing[q].restored /\ saved # "off"
          BY <1>1, <3>4, <4>3, <4>4 DEF FlushAnchor, ForgetPfState, RestoreConf, RevertPf, At
        <4>6. QED
          BY <1>1, <4>1, <4>5 DEF RevertPf
      <3>5. QED
        BY <2>4, <3>2, <3>3, <3>4 DEF Unblocking
    <2>5. CASE ~Unblocking(q)
      <3>1. UNCHANGED <<kernel, disk>> /\ meddled' = meddled
        BY <1>2, <2>3, <2>5 DEF Begin, Verifying, ReadAnchor, ReadStatus, ReadMain, Answers, Fails, CallDies
      <3>2. PICK r \in Procs : \/ At(r, "unblock", "drop")
                               \/ At(r, "unblock", "revert") /\ doing[r].restored
        BY <1>1, <2>2, <3>1 DEF LineIsThere, kernel, disk
      <3>3. r = q
        BY <2>2, <3>2, PfAssumption DEF At
      <3>4. doing[q].op = "unblock"
        BY <3>2, <3>3 DEF At
      <3>5. QED
        BY <1>2, <2>2, <2>3, <2>5, <3>4
        DEF Begin, Verifying, ReadAnchor, ReadStatus, ReadMain, Answers, Fails, CallDies, At
    <2>6. QED
      BY <2>4, <2>5
  <1>3. CASE SwitchPf \/ ReplaceConf
    <2>1. doing'[p] = [doing[p] EXCEPT !.quiet = FALSE] /\ doing[p] \in Calls
      BY <1>3 DEF SwitchPf, ReplaceConf, Disturbs, PfInv, CallsAreTrue, InCourse
    <2>2. doing[p].op = "apply"
      BY <1>1, <2>1 DEF At, Calls
    <2>3. meddled'
      BY <1>3, <2>2 DEF SwitchPf, ReplaceConf, Disturbs, Busied
    <2>4. QED
      BY <1>1, <2>3
  <1>4. CASE Reboot
    BY <1>1, <1>4 DEF Reboot, Resting, At
  <1>5. CASE UNCHANGED pfVars
    BY <1>1, <1>5 DEF pfVars, kernel, disk, LineIsThere, At
  <1>6. QED
    BY <1>2, <1>3, <1>4, <1>5 DEF PfNext

\* Replacing one posture's rules by another's opens no gap, where the daemon alone
\* drives pf or an Unblock gets through once it has begun.
THEOREM PfSwapHasNoGap ==
  ASSUME "cli" \notin Procs \/ "unblock" \notin Perils
  PROVE  PfSpec => SwapHasNoGap
  <1>1. ASSUME PfInv, LineIsThere, PfNext, Enforced, ~Enforced'
        PROVE  meddled' \/ Reboot \/ \E p \in Procs : doing[p].op = "unblock"
    <2>1. SUFFICES ASSUME ~Reboot, ~meddled', \A p \in Procs : doing[p].op # "unblock" PROVE FALSE
      OBVIOUS
    <2>2. ~SwitchPf /\ ~ReplaceConf
      BY <1>1, <2>1 DEF SwitchPf, ReplaceConf, Disturbs, Busied, Marked, Enforced
    <2>3. \A p \in Procs : ~Unblocking(p)
      BY <2>1 DEF Unblocking, FlushAnchor, RestoreConf, DropBackup, RevertPf, ForgetPfState, At
    <2>4. PICK p \in Procs : Applying(p)
      BY <1>1, <2>1, <2>2, <2>3
      DEF PfNext, Begin, Verifying, ReadAnchor, ReadStatus, ReadMain, Answers, Fails, CallDies, Enforced, kernel
    <2>5. CASE ReloadMain(p)
      <3>1. conf.ref
        BY <1>1, <2>1, <2>5 DEF LineIsThere, ReloadMain, At, Enforced
      <3>2. QED
        BY <1>1, <2>5, <3>1 DEF ReloadMain, Enforced
    <2>6. CASE ~ReloadMain(p)
      BY <1>1, <2>4, <2>6 DEF Applying, ReadInfo, BackupConf, SavePfState, EnsureAnchorRef,
                              LoadAnchor, EnablePf, Enforced, kernel
    <2>7. QED
      BY <2>5, <2>6
  <1>2. PfInit => LineIsThere
    BY DEF PfInit, LineIsThere, At, Resting
  <1>3. PfSpec => []LineIsThere
    BY <1>2, PfAlways, LineStep, PTL DEF PfSpec
  <1>4. QED
    BY <1>1, <1>3, PfAlways, PTL DEF PfSpec, SwapHasNoGap

-----------------------------------------------------------------------------
(* Unblock puts back what was there.                                       *)

\* One process, and Unblock always finishes: its steps.
LEMMA FoundOwnStep ==
  ASSUME PfInv, FoundInv, "unblock" \notin Perils, NEW q \in Procs, Procs = {q},
         \/ \E op \in {"apply", "unblock", "verify"} : Begin(q, op)
         \/ Applying(q) \/ Unblocking(q) \/ Verifying(q) \/ Fails(q) \/ CallDies(q),
         ~meddled
  PROVE  RemembersFound' /\ CallFits(doing[q])'
  <1>1. doing[q] \in Calls /\ InCourse(doing[q]) /\ PfState /\ RemembersFound /\ CallFits(doing[q])
    BY DEF PfInv, CallsAreTrue, InCourse, FoundInv
  <1>2. ASSUME NEW c, Goes(q, c) PROVE doing'[q] = c
    BY <1>2 DEF Goes
  <1>3. ASSUME NEW s, To(q, s)
        PROVE  /\ doing'[q].at = s /\ doing'[q].op = doing[q].op /\ doing'[q].seen = doing[q].seen
               /\ doing'[q].result = doing[q].result /\ doing'[q].quiet = doing[q].quiet
    <2>1. doing'[q] = [doing[q] EXCEPT !.at = s]
      BY <1>3, <1>2 DEF To
    <2>2. QED
      BY <1>1, <2>1 DEF Calls
  <1>4. ASSUME NEW r, CallEnds(q, r) PROVE doing'[q].op = "none" /\ doing'[q].result = r
    <2>1. doing'[q] = [doing[q] EXCEPT !.op = "none", !.at = "end", !.result = r]
      BY <1>4, <1>2 DEF CallEnds
    <2>2. QED
      BY <1>1, <2>1 DEF Calls
  <1>5. CASE Applying(q)
    <2>1. doing[q].op = "apply" /\ doing[q].result = "none" /\ q = "daemon"
      BY <1>1, <1>5 DEF PfInv, CallsAreTrue, InCourse, Applying, ReadInfo, BackupConf, SavePfState,
                        EnsureAnchorRef, ReloadMain, LoadAnchor, EnablePf, At
    <2>2. CASE ReadInfo(q)
      <3>1. doing'[q] = [doing[q] EXCEPT !.seen = pfOn, !.at = IF saved = "none" THEN "backup" ELSE "ref"]
        BY <2>2, <1>2 DEF ReadInfo
      <3>2. /\ doing'[q].op = "apply" /\ doing'[q].result = "none" /\ doing'[q].seen = pfOn
            /\ doing'[q].at = IF saved = "none" THEN "backup" ELSE "ref"
        BY <1>1, <2>1, <3>1 DEF Calls
      <3>3. UNCHANGED <<kernel, disk, foundState, meddled>>
        BY <2>2 DEF ReadInfo
      <3>4. QED
        BY <1>1, <2>1, <3>2, <3>3 DEF CallFits, RemembersFound, kernel, disk
    <2>3. CASE BackupConf(q)
      <3>1. doing'[q].op = "apply" /\ doing'[q].result = "none" /\ doing'[q].at = "save" /\ doing'[q].seen = doing[q].seen
        BY <1>3, <2>1, <2>3 DEF BackupConf
      <3>2. saved = "none" /\ conf.ref = FALSE /\ (doing[q].seen <=> foundState.on)
        BY <1>1, <2>1, <2>3 DEF CallFits, RemembersFound, BackupConf, At, PfState
      <3>3. conf = [ref |-> FALSE, edition |-> foundState.edition] /\ conf # NoBackup
        BY <1>1, <3>2 DEF PfState, RemembersFound, NoBackup
      <3>4. backup' # NoBackup /\ backup' = [ref |-> FALSE, edition |-> foundState.edition]
        BY <1>1, <2>3, <3>3 DEF BackupConf, RemembersFound
      <3>5. UNCHANGED <<kernel, conf, saved, foundState, meddled>>
        BY <2>3 DEF BackupConf
      <3>6. QED
        BY <1>1, <3>1, <3>2, <3>4, <3>5 DEF CallFits, RemembersFound, kernel
    <2>4. CASE SavePfState(q)
      <3>1. doing'[q].op = "apply" /\ doing'[q].result = "none" /\ doing'[q].at = "ref"
        BY <1>3, <2>1, <2>4 DEF SavePfState
      <3>2. saved = "none" /\ (doing[q].seen <=> foundState.on) /\ backup # NoBackup
        BY <1>1, <2>1, <2>4 DEF CallFits, SavePfState, At
      <3>3. /\ UNCHANGED <<kernel, conf, backup, foundState, meddled>>
            /\ saved' = IF doing[q].seen THEN "on" ELSE "off"
        BY <2>4 DEF SavePfState
      <3>4. QED
        BY <1>1, <3>1, <3>2, <3>3 DEF CallFits, RemembersFound, kernel
    <2>5. CASE EnsureAnchorRef(q)
      <3>1. doing'[q].op = "apply" /\ doing'[q].result = "none" /\ doing'[q].at = "reload"
        BY <1>3, <2>1, <2>5 DEF EnsureAnchorRef
      <3>2. saved # "none" /\ backup # NoBackup
        BY <1>1, <2>1, <2>5 DEF CallFits, EnsureAnchorRef, At
      <3>3. UNCHANGED <<kernel, backup, saved, foundState, meddled>> /\ conf'.edition = conf.edition
        BY <1>1, <2>5 DEF EnsureAnchorRef, PfState
      <3>4. QED
        BY <1>1, <3>1, <3>2, <3>3 DEF CallFits, RemembersFound, kernel
    <2>6. CASE ReloadMain(q) \/ LoadAnchor(q)
      <3>1. doing'[q].op = "apply" /\ doing'[q].result = "none" /\ doing'[q].at \in {"load", "enable"}
        BY <1>3, <2>1, <2>6 DEF ReloadMain, LoadAnchor
      <3>2. saved # "none" /\ UNCHANGED <<pfOn, disk, foundState, meddled>>
        BY <1>1, <2>1, <2>6 DEF CallFits, ReloadMain, LoadAnchor, At
      <3>3. QED
        BY <1>1, <2>1, <3>1, <3>2 DEF CallFits, RemembersFound, disk
    <2>7. CASE EnablePf(q)
      <3>1. doing'[q].op = "none" /\ doing'[q].result = "applied"
        BY <1>4, <2>7 DEF EnablePf
      <3>2. saved # "none" /\ UNCHANGED <<disk, foundState, meddled>>
        BY <1>1, <2>1, <2>7 DEF CallFits, EnablePf, At
      <3>3. pfOn => pfOn'
        BY <2>7 DEF EnablePf
      <3>4. QED
        BY <1>1, <2>1, <3>1, <3>2, <3>3 DEF CallFits, RemembersFound, disk
    <2>8. QED
      BY <1>5, <2>2, <2>3, <2>4, <2>5, <2>6, <2>7 DEF Applying
  <1>6. CASE Unblocking(q)
    <2>1. doing[q].op = "unblock" /\ doing[q].result = "none"
      BY <1>1, <1>6 DEF InCourse, Unblocking, FlushAnchor, RestoreConf, DropBackup, RevertPf,
                        ForgetPfState, At
    <2>2. CASE FlushAnchor(q)
      <3>1. doing'[q].op = "unblock" /\ doing'[q].result = "none" /\ doing'[q].at = "restore"
        BY <1>3, <2>1, <2>2 DEF FlushAnchor
      <3>2. UNCHANGED <<pfOn, disk, foundState, meddled>> /\ doing[q].at = "flush"
        BY <2>2 DEF FlushAnchor, At
      <3>3. QED
        BY <1>1, <2>1, <3>1, <3>2 DEF CallFits, RemembersFound, disk
    <2>3. CASE RestoreConf(q) /\ backup = NoBackup
      <3>1. doing'[q].op = "unblock" /\ doing'[q].result = "none" /\ doing'[q].at = "revert"
        BY <1>3, <2>1, <2>3 DEF RestoreConf
      <3>2. UNCHANGED <<kernel, conf, backup, saved, foundState, meddled>> /\ doing[q].at = "restore"
        BY <2>3 DEF RestoreConf, At
      <3>3. QED
        BY <1>1, <2>1, <2>3, <3>1, <3>2 DEF CallFits, RemembersFound, kernel
    <2>4. CASE RestoreConf(q) /\ backup # NoBackup
      <3>1. doing'[q].op = "unblock" /\ doing'[q].result = "none" /\ doing'[q].at = "drop"
        BY <1>3, <2>1, <2>4 DEF RestoreConf
      <3>2. UNCHANGED <<kernel, backup, saved, foundState, meddled>> /\ conf' = backup
        BY <2>4 DEF RestoreConf
      <3>3. backup.edition = foundState.edition /\ backup.ref = FALSE
        BY <1>1, <2>4 DEF RemembersFound
      <3>4. QED
        BY <1>1, <2>1, <2>4, <3>1, <3>2, <3>3 DEF CallFits, RemembersFound, kernel
    <2>5. CASE DropBackup(q)
      <3>1. doing'[q] = [doing[q] EXCEPT !.at = "revert", !.restored = TRUE]
        BY <1>2, <2>5 DEF DropBackup
      <3>2. doing'[q].op = "unblock" /\ doing'[q].result = "none" /\ doing'[q].at = "revert"
        BY <1>1, <2>1, <3>1 DEF Calls
      <3>3. /\ UNCHANGED <<kernel, conf, saved, foundState, meddled>> /\ backup' = NoBackup
            /\ backup # NoBackup /\ conf = backup
        BY <1>1, <2>1, <2>5 DEF DropBackup, At, CallFits
      <3>4. conf.ref = FALSE
        BY <1>1, <3>3 DEF RemembersFound
      <3>5. QED
        BY <1>1, <2>1, <3>2, <3>3, <3>4 DEF CallFits, RemembersFound, kernel
    <2>6. CASE RevertPf(q)
      <3>1. doing'[q].op = "unblock" /\ doing'[q].result = "none" /\ doing'[q].at = "forget"
        BY <1>3, <2>1, <2>6 DEF RevertPf
      <3>2. /\ UNCHANGED <<disk, foundState, meddled>> /\ backup = NoBackup
            /\ pfOn' = (pfOn /\ saved # "off")
        BY <1>1, <2>1, <2>6 DEF RevertPf, At, CallFits
      <3>3. (pfOn' <=> foundState.on) /\ (saved = "on" => pfOn')
        BY <1>1, <3>2 DEF RemembersFound, PfState
      <3>4. QED
        BY <1>1, <2>1, <3>1, <3>2, <3>3 DEF CallFits, RemembersFound, disk
    <2>7. CASE ForgetPfState(q)
      <3>1. doing'[q].op = "none" /\ doing'[q].result = "unblocked"
        BY <1>4, <2>7 DEF ForgetPfState
      <3>2. /\ UNCHANGED <<kernel, conf, backup, foundState, meddled>> /\ saved' = "none"
            /\ backup = NoBackup /\ (pfOn <=> foundState.on)
        BY <1>1, <2>1, <2>7 DEF ForgetPfState, At, CallFits
      <3>3. QED
        BY <1>1, <3>1, <3>2 DEF CallFits, RemembersFound, kernel
    <2>8. QED
      BY <1>6, <2>2, <2>3, <2>4, <2>5, <2>6, <2>7 DEF Unblocking
  <1>7. CASE Verifying(q) \/ Fails(q) \/ CallDies(q)
    <2>1. doing[q].op # "unblock" /\ UNCHANGED <<kernel, disk, foundState, meddled>>
      BY <1>7 DEF Verifying, ReadAnchor, ReadStatus, ReadMain, Answers, Fails, CallDies, At
    <2>2. doing'[q].op \in {"none", "verify"} /\ doing'[q].result # "unblocked"
      <3>1. CASE Verifying(q)
        <4>1. doing[q].op = "verify" /\ doing[q].result = "none"
          BY <1>1, <3>1 DEF InCourse, Verifying, ReadAnchor, ReadStatus, ReadMain, Answers, At
        <4>2. ASSUME NEW next \in Calls, next.op \in {"none", "verify"}, next.result # "unblocked",
                     Goes(q, next) \/ CallEnds(q, "clear")
              PROVE  doing'[q].op \in {"none", "verify"} /\ doing'[q].result # "unblocked"
          BY <1>2, <1>4, <4>2
        <4>3. PICK a \in Calls : a = [doing[q] EXCEPT !.at = "status"]
          BY <1>1 DEF Calls, Steps
        <4>4. PICK b \in Calls : b = [doing[q] EXCEPT !.at = "main"]
          BY <1>1 DEF Calls, Steps
        <4>5. PICK d \in Calls : d = [doing[q] EXCEPT !.op = "none", !.at = "end", !.result = "blocked"]
          BY <1>1 DEF Calls, Steps
        <4>6. /\ a.op = "verify" /\ b.op = "verify" /\ d.op = "none"
              /\ a.result = "none" /\ b.result = "none" /\ d.result = "blocked"
          BY <1>1, <4>1, <4>3, <4>4, <4>5 DEF Calls
        <4>7. QED
          BY <3>1, <4>2, <4>3, <4>4, <4>5, <4>6 DEF Verifying, ReadAnchor, ReadStatus, ReadMain, Answers
      <3>2. CASE Fails(q) \/ CallDies(q)
        BY <1>2, <1>4, <3>2 DEF Fails, CallDies, Resting
      <3>3. QED
        BY <1>7, <3>1, <3>2
    <2>3. QED
      BY <1>1, <2>1, <2>2 DEF CallFits, RemembersFound, kernel, disk
  <1>8. CASE \E op \in {"apply", "unblock", "verify"} : Begin(q, op)
    <2>1. doing[q].op = "none" /\ UNCHANGED <<kernel, disk, foundState, meddled>>
      BY <1>8 DEF Begin
    <2>2. /\ doing'[q].result = "none"
          /\ doing'[q].op = "apply" => doing'[q].at = "info"
          /\ doing'[q].op = "unblock" => doing'[q].at = "flush"
      <3>1. PICK op \in {"apply", "unblock", "verify"}, at \in {"info", "flush", "anchor"} :
              /\ doing'[q] = [Resting EXCEPT !.op = op, !.at = at]
              /\ op = "apply" => at = "info"
              /\ op = "unblock" => at = "flush"
        BY <1>8 DEF Begin, PfInv
      <3>2. QED
        BY <3>1 DEF Resting
    <2>3. QED
      BY <1>1, <2>1, <2>2 DEF CallFits, RemembersFound, kernel, disk
  <1>9. QED
    BY <1>5, <1>6, <1>7, <1>8

\* Every step keeps what was found, where the daemon alone calls and its unblock completes.
LEMMA FoundStep ==
  ASSUME "cli" \notin Procs, "unblock" \notin Perils, PfInv, FoundInv, [PfNext]_pfVars
  PROVE  FoundInv'
  <1>1. SUFFICES ASSUME ~meddled' PROVE RemembersFound' /\ \A p \in Procs : CallFits(doing[p])'
    BY DEF FoundInv
  <1>2. ASSUME NEW q \in Procs,
               \/ \E op \in {"apply", "unblock", "verify"} : Begin(q, op)
               \/ Applying(q) \/ Unblocking(q) \/ Verifying(q) \/ Fails(q) \/ CallDies(q)
        PROVE  RemembersFound' /\ \A p \in Procs : CallFits(doing[p])'
    <2>1. meddled' = meddled
      BY <1>2
      DEF Begin, Applying, ReadInfo, BackupConf, SavePfState, EnsureAnchorRef, ReloadMain, LoadAnchor,
          EnablePf, Unblocking, FlushAnchor, RestoreConf, DropBackup, RevertPf, ForgetPfState,
          Verifying, ReadAnchor, ReadStatus, ReadMain, Answers, Fails, CallDies
    <2>2. Procs = {q}
      BY <1>2, PfAssumption
    <2>3. QED
      BY <1>1, <1>2, <2>1, <2>2, FoundOwnStep
  <1>3. CASE SwitchPf \/ ReplaceConf
    <2>1. ~meddled /\ ~Busied /\ RemembersFound /\ \A p \in Procs : CallFits(doing[p])
      BY <1>1, <1>3 DEF SwitchPf, ReplaceConf, Disturbs, FoundInv
    <2>2. backup = NoBackup /\ saved = "none" /\ ~conf.ref /\ backup' = backup /\ saved' = saved
      BY <1>3, <2>1 DEF Busied, Marked, SwitchPf, ReplaceConf, Disturbs
    <2>3. conf'.ref = FALSE
      <3>1. CASE SwitchPf
        BY <2>2, <3>1 DEF SwitchPf, PfInv, PfState
      <3>2. CASE ReplaceConf
        BY <3>2 DEF ReplaceConf
      <3>3. QED
        BY <1>3, <3>1, <3>2
    <2>4. foundState'.on = pfOn' /\ foundState'.edition = conf'.edition
      <3>1. Disturbs
        BY <1>3 DEF SwitchPf, ReplaceConf
      <3>2. foundState' = [on |-> pfOn', edition |-> conf'.edition]
        BY <2>1, <3>1, Zenon DEF Disturbs
      <3>3. QED
        BY <3>2, Zenon
    <2>5. RemembersFound'
      BY <2>2, <2>3, <2>4 DEF RemembersFound
    <2>6. ASSUME NEW p \in Procs PROVE CallFits(doing[p])'
      <3>1. doing'[p] = [doing[p] EXCEPT !.quiet = FALSE] /\ doing[p] \in Calls
        BY <1>3 DEF SwitchPf, ReplaceConf, Disturbs, PfInv, CallsAreTrue, InCourse
      <3>2. /\ doing'[p].op = doing[p].op /\ doing'[p].at = doing[p].at /\ doing'[p].quiet = FALSE
        BY <3>1 DEF Calls
      <3>3. CallFits(doing[p]) /\ doing[p].op # "apply"
        BY <2>1 DEF Busied
      <3>4. QED
        BY <2>2, <2>3, <2>4, <3>2, <3>3 DEF CallFits
    <2>7. QED
      BY <2>5, <2>6
  <1>4. CASE Reboot
    <2>1. ~meddled /\ RemembersFound /\ \A p \in Procs : CallFits(doing[p]) /\ doing[p].op # "unblock"
      BY <1>1, <1>4 DEF Reboot, FoundInv
    <2>2. UNCHANGED <<disk, foundState>> /\ pfOn' = foundState.on
      BY <1>4 DEF Reboot
    <2>3. RemembersFound'
      BY <2>1, <2>2 DEF RemembersFound, disk
    <2>4. ASSUME NEW p \in Procs PROVE CallFits(doing[p])'
      <3>1. doing'[p].op = "none" /\ doing'[p].result = "none"
        BY <1>4 DEF Reboot, Resting
      <3>2. CallFits(doing[p]) /\ doing[p].op # "unblock"
        BY <2>1
      <3>3. QED
        BY <2>2, <3>1, <3>2 DEF CallFits, disk
    <2>5. QED
      BY <2>3, <2>4
  <1>5. CASE UNCHANGED pfVars
    BY <1>1, <1>5 DEF FoundInv, RemembersFound, CallFits, pfVars, kernel, disk
  <1>6. QED
    BY <1>2, <1>3, <1>4, <1>5 DEF PfNext

\* Where the daemon alone drives pf and an Unblock, once begun, gets through, an
\* Unblock that reports success leaves pf.conf and pf as the first block found them.
THEOREM PfRestoresWhatItFound ==
  ASSUME "cli" \notin Procs, "unblock" \notin Perils
  PROVE  PfSpec => []RestoresWhatItFound
  <1>1. PfInit => FoundInv
    <2>1. SUFFICES ASSUME PfInit PROVE RemembersFound /\ \A p \in Procs : CallFits(doing[p])
      BY DEF FoundInv
    <2>2. conf.edition = 1 /\ conf.ref = FALSE /\ backup = NoBackup /\ saved = "none"
          /\ foundState.edition = 1 /\ foundState.on = pfOn
      BY <2>1 DEF PfInit
    <2>3. \A p \in Procs : doing[p].op = "none" /\ doing[p].result = "none"
      BY <2>1 DEF PfInit, Resting
    <2>4. QED
      BY <2>2, <2>3 DEF RemembersFound, CallFits
  <1>2. ASSUME PfInv, FoundInv PROVE RestoresWhatItFound
    <2>1. SUFFICES ASSUME ~meddled, NEW p \in Procs, doing[p].result = "unblocked", doing[p].quiet
                   PROVE  conf = [ref |-> FALSE, edition |-> foundState.edition] /\ pfOn = foundState.on
      BY DEF RestoresWhatItFound
    <2>2. conf.edition = foundState.edition /\ ~conf.ref /\ (pfOn <=> foundState.on)
      BY <1>2, <2>1 DEF FoundInv, RemembersFound, CallFits
    <2>3. QED
      BY <1>2, <2>2 DEF PfInv, PfState
  <1>3. PfSpec => []FoundInv
    BY <1>1, FoundStep, PfAlways, PTL DEF PfSpec
  <1>4. QED
    BY <1>2, <1>3, PfAlways, PTL

\* What the macOS backend promises, where the daemon alone drives pf and an Unblock
\* gets through once begun.
THEOREM PfKeepsPromise ==
  ASSUME "cli" \notin Procs, "unblock" \notin Perils
  PROVE  PfSpec => PfPromise
  BY PfTellsTheTruth, PfRestoresWhatItFound, PfSwapHasNoGap, PTL DEF PfPromise

-----------------------------------------------------------------------------
(* The Windows backend.                                                    *)

\* Every profile that blocks did so before the first block.
NoBlockOfOurs == \A p \in Profiles : action[p] = "Block" => before[p] = "Block"

Lines == {"snapshot", "remove", "rules", "default", "record",
          "defaults", "group", "files", "end"}
\* Where a script is tells what the snapshot is, ...
ScriptIsOrdered ==
  /\ script \in [op : {"none", "apply", "unblock"}, at : Lines, want : Actions \cup {"none"},
                 result : {"none", "applied", "unblocked", "answered"}, answer : BOOLEAN]
  /\ script.op = "apply" => script.want \in Actions
  /\ script.op = "apply" => script.at \in {"snapshot", "remove", "rules", "default", "record"}
  /\ script.op = "unblock" => script.at \in {"defaults", "group", "files"}
  /\ script.op = "apply" => (script.at = "snapshot" <=> snapshot.file = "absent")
  /\ script.op # "none" => script.result = "none"
\* ... which holds no block that was not there before; without one, nothing is blocked.
SnapshotIsEarlier ==
  /\ snapshot.file = "absent" => NoBlockOfOurs
  /\ snapshot.file = "saved" =>
       \A p \in Profiles : /\ snapshot.map[p] \in Actions
                           /\ snapshot.map[p] = "Block" => before[p] = "Block"
\* Past its first script, and when it is done, an unblock has opened the profiles.
UnblockOpens ==
  /\ script.op = "unblock" /\ script.at \in {"group", "files"} => NoBlockOfOurs
  /\ script.result = "unblocked" => NoBlockOfOurs
\* The record is of the action the last Apply set, if it could be written.
RecordIsOfOurs == ours # "none" => wanted \in {"none", ours}

WfpInv ==
  /\ WfpTypeOK /\ ScriptIsOrdered /\ SnapshotIsEarlier /\ UnblockOpens /\ RecordIsOfOurs
  /\ DriftIsSeen

\* Each line of a script keeps the invariant, and so does its end wherever it comes.
LEMMA WfpStep == WfpInv /\ [WfpNext]_wfpVars => WfpInv'
  <1> SUFFICES ASSUME WfpInv, [WfpNext]_wfpVars PROVE WfpInv'
    OBVIOUS
  <1> USE DEF WfpInv, WfpTypeOK, ScriptIsOrdered, SnapshotIsEarlier, UnblockOpens,
          RecordIsOfOurs, DriftIsSeen, NoBlockOfOurs, Next1, Done1, Quiescent, ghosts,
          Absent, Corrupt, Actions, AllAt, Lines
  <1>1. ASSUME NEW a \in Actions, AskToApply(a) PROVE WfpInv'
    BY <1>1 DEF AskToApply
  <1>2. CASE SnapshotDefaults
    BY <1>2 DEF SnapshotDefaults
  <1>3. CASE RemoveGroup
    BY <1>3 DEF RemoveGroup
  <1>4. CASE AddRules
    BY <1>4 DEF AddRules
  <1>5. CASE SetDefault
    BY <1>5 DEF SetDefault
  <1>6. ASSUME NEW kept \in BOOLEAN, RecordAction(kept) PROVE WfpInv'
    BY <1>6 DEF RecordAction
  <1>7. CASE BeginUnblock
    BY <1>7 DEF BeginUnblock
  <1>8. CASE RestoreDefaults
    <2>1. PICK ps \in SUBSET Profiles :
            action' = [p \in Profiles |-> IF p \in ps THEN RestoredAction(p) ELSE action[p]]
      BY <1>8 DEF RestoreDefaults
    <2>2. action' \in [Profiles -> Actions]
      BY <2>1 DEF RestoredAction
    <2>3. \A p \in Profiles : RestoredAction(p) = "Block" => before[p] = "Block"
      BY DEF RestoredAction
    <2>4. SnapshotIsEarlier'
      <3>1. NoBlockOfOurs => NoBlockOfOurs'
        BY <1>8, <2>1, <2>3 DEF RestoreDefaults
      <3>2. QED
        BY <1>8, <3>1 DEF RestoreDefaults
    <2>5. UnblockOpens'
      <3>1. action' = [p \in Profiles |-> RestoredAction(p)] => NoBlockOfOurs'
        BY <1>8, <2>3 DEF RestoreDefaults
      <3>2. QED
        BY <1>8, <3>1 DEF RestoreDefaults
    <2>6. QED
      BY <1>8, <2>2, <2>4, <2>5 DEF RestoreDefaults
  <1>9. CASE DropGroup
    BY <1>9 DEF DropGroup
  <1>10. CASE DropFiles
    BY <1>10 DEF DropFiles
  <1>11. CASE StopsShort
    BY <1>11 DEF StopsShort
  <1>12. CASE IsBlocked
    <2>1. /\ script'.op = "none" /\ script'.result = "answered"
          /\ script'.answer <=> group # "none" /\ (wanted = "none" \/ action = AllAt(wanted))
          /\ UNCHANGED <<action, group, snapshot, wanted, ghosts>>
      BY <1>12 DEF IsBlocked
    <2>2. PICK b \in BOOLEAN : script' = [Quiescent EXCEPT !.result = "answered", !.answer = b]
      BY <1>12 DEF IsBlocked
    <2>3. script' \in [op : {"none", "apply", "unblock"}, at : Lines, want : Actions \cup {"none"},
                      result : {"none", "applied", "unblocked", "answered"}, answer : BOOLEAN]
      BY <2>2
    <2>4. DriftIsSeen'
      BY <2>1
    <2>5. QED
      BY <2>1, <2>3, <2>4
  <1>13. ASSUME NEW p \in Profiles, NEW a \in Actions, SomebodySets(p, a) PROVE WfpInv'
    BY <1>13 DEF SomebodySets
  <1>14. CASE UNCHANGED wfpVars
    BY <1>14 DEF wfpVars
  <1>15. QED
    BY <1>1, <1>2, <1>3, <1>4, <1>5, <1>6, <1>7, <1>8, <1>9, <1>10, <1>11, <1>12, <1>13,
       <1>14 DEF WfpNext

\* On Windows nobody is stranded, nobody is locked out on the way out and drift is seen,
\* for any number of profiles and wherever a script stops.
THEOREM WfpKeepsPromise == WfpSpec => WfpPromise
  <1>1. WfpInit => WfpInv
    BY DEF WfpInit, WfpInv, WfpTypeOK, ScriptIsOrdered, SnapshotIsEarlier, UnblockOpens,
           RecordIsOfOurs, DriftIsSeen, NoBlockOfOurs, Quiescent, Absent, Actions, Lines
  <1>2. WfpInv => WfpTypeOK /\ NobodyIsStranded /\ DriftIsSeen
    BY DEF WfpInv, UnblockOpens, NoBlockOfOurs, NobodyIsStranded
  <1>3. WfpInv /\ [WfpNext]_wfpVars =>
          [(script.op = "unblock" /\ group # "none" /\ group' = "none")
             => \A p \in Profiles : action[p] = "Block" => before[p] = "Block"]_wfpVars
    <2> SUFFICES ASSUME WfpInv, WfpNext, script.op = "unblock", group # "none", group' = "none"
                 PROVE  NoBlockOfOurs
      BY DEF NoBlockOfOurs
    <2>1. DropGroup
      BY DEF WfpNext, AskToApply, SnapshotDefaults, RemoveGroup, AddRules, SetDefault,
             RecordAction, BeginUnblock, RestoreDefaults, DropFiles, StopsShort, IsBlocked,
             SomebodySets
    <2>2. QED
      BY <2>1 DEF DropGroup, WfpInv, UnblockOpens
  <1>4. WfpSpec => []WfpInv
    BY <1>1, WfpStep, PTL DEF WfpSpec
  <1>5. WfpSpec => NoLockoutOnTheWayOut
    BY <1>3, <1>4, PTL DEF WfpSpec, NoLockoutOnTheWayOut
  <1>6. QED
    BY <1>2, <1>4, <1>5, PTL DEF WfpPromise

\* What the two stateful backends promise together: what Apply reports is in force, and
\* Unblock gives the host back as it was found.
THEOREM BackendsKeepPromise ==
  ASSUME "cli" \notin Procs, "unblock" \notin Perils
  PROVE  PfSpec /\ WfpSpec => BackendsPromise
  BY PfKeepsPromise, WfpKeepsPromise DEF BackendsPromise

=============================================================================
