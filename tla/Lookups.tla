------------------------------ MODULE Lookups ------------------------------
(***************************************************************************)
(* What a look at the exit yields: the geo providers of internal/monitor   *)
(* with their fallback and their quorum, and what the run loop keeps of a  *)
(* successful reading besides the verdict - the exit address it compares   *)
(* the next one with, and the public IPv6 address it shows until something *)
(* makes it untrue.  Which posture the verdict leads to is Guard's: here   *)
(* it is either.                                                           *)
(***************************************************************************)
EXTENDS Naturals, Sequences, FiniteSets

CONSTANTS
  Providers,         \* the configured providers' kinds, in order
  Codes, Ips,        \* country codes; exit addresses
  Replies,           \* what a provider may answer: [arrives, says, ip, cc]
  V6Answers,         \* what the IPv6 endpoints may answer, in order
  V6Interval, V6Rearm  \* readings between two IPv6 lookups; after an invalidation

\* Kinds of provider by how they tell a refusal (a rate limit, say) from an answer: not
\* at all, by an explicit success, by an error flag.
ASSUME LookupsAssumption ==
  /\ Providers \in Seq({"plain", "explicit", "flagged", "unknown"})
  /\ Replies \subseteq [arrives : BOOLEAN, says : {"success", "error", "nothing"},
                        ip : Ips \cup {"malformed"}, cc : Codes \cup {"malformed"}]
  /\ "none" \notin Ips \cup Codes
  /\ \A s \in V6Answers : s \in Seq({"fails", "v4", "local", "public"})
  /\ V6Rearm \in Nat /\ V6Interval \in Nat /\ V6Rearm <= V6Interval

\* ProvidersFromURLs skips a URL it has no parser for.
Slots == {i \in DOMAIN Providers : Providers[i] # "unknown"}

Failed == [ip |-> "none", cc |-> "none"]

\* Slip: a refusal with an address and a country in it is an answer.
AnyBody(kind, reply) ==
  IF reply.arrives /\ reply.ip # "malformed" /\ reply.cc # "malformed"
  THEN [ip |-> reply.ip, cc |-> reply.cc] ELSE Failed

\* Lookup: HTTP and its status, the parser with its refusals, a two-letter code, a
\* valid address.
Lookup(kind, reply) ==
  IF /\ reply.arrives
     /\ kind = "explicit" => reply.says = "success"
     /\ kind = "flagged" => reply.says # "error"
     /\ reply.ip # "malformed" /\ reply.cc # "malformed"
  THEN [ip |-> reply.ip, cc |-> reply.cc]
  ELSE Failed

\* Once without a quorum: the first provider that answers.
FirstSuccess(readings) ==
  LET good == {i \in Slots : readings[i] # Failed}
  IN  IF good = {} THEN Failed
      ELSE readings[CHOOSE i \in good : \A j \in good : i <= j]

\* Slip: half of the responders is enough.
HalfIsEnough(readings) ==
  LET good == {i \in Slots : readings[i] # Failed}
      votes(i) == Cardinality({j \in good : readings[j].cc = readings[i].cc})
      elected == {i \in good : 2 * votes(i) >= Cardinality(good)}
  IN  IF elected = {} THEN Failed
      ELSE readings[CHOOSE i \in elected : \A j \in elected : i <= j]

\* onceQuorum: the first reading of the country more than half of the responders give.
Majority(readings) ==
  LET good == {i \in Slots : readings[i] # Failed}
      votes(i) == Cardinality({j \in good : readings[j].cc = readings[i].cc})
      elected == {i \in good : votes(i) >= Cardinality(good) \div 2 + 1}
  IN  IF elected = {} THEN Failed
      ELSE readings[CHOOSE i \in elected : \A j \in elected : i <= j]

Once(quorum, readings) == IF quorum THEN Majority(readings) ELSE FirstSuccess(readings)

\* Slip: whatever the first endpoint that answers says.
AnyAddress(answers) ==
  LET some == SelectSeq(answers, LAMBDA a : a # "fails")
  IN  IF some = <<>> THEN "none" ELSE Head(some)

\* OnceIPv6: the first endpoint that returns a public IPv6 address.
OnceIPv6(answers) == IF \E i \in DOMAIN answers : answers[i] = "public" THEN "public" ELSE "none"

-----------------------------------------------------------------------------
VARIABLES
  quorum,            \* providerQuorum
  replies,           \* history: what the providers answered last
  res,               \* lastRes: the last reading, or Failed
  lastGoodIP,        \* the address of the last successful reading, or "none"
  changes,           \* dg.exitIPChangedAt, as whether the last success stamped it
  ipv6, v6wait,      \* dg.ipv6; the readings until ipv6NextAt
  cut,               \* history: egress was cut, or the tunnel down, since an IPv6 lookup
  exits              \* history: the addresses of the last two successful readings

lookVars == <<quorum, replies, res, lastGoodIP, changes, ipv6, v6wait, cut, exits>>

LookTypeOK ==
  /\ quorum \in BOOLEAN /\ changes \in BOOLEAN /\ cut \in BOOLEAN
  /\ replies \in [Slots -> Replies]
  /\ res \in [ip : Ips, cc : Codes] \cup {Failed}
  /\ lastGoodIP \in Ips \cup {"none"} /\ exits \in Seq(Ips) /\ Len(exits) <= 2
  /\ ipv6 \in {"public", "none"} /\ v6wait \in 0 .. V6Interval

LookInit ==
  /\ quorum \in BOOLEAN
  /\ replies \in [Slots -> {r \in Replies : ~r.arrives}]
  /\ res = Failed /\ lastGoodIP = "none" /\ changes = FALSE
  /\ ipv6 = "none" /\ v6wait = 0 /\ cut = FALSE /\ exits = <<>>

\* Slip: the address of a reading that blocks is not looked at.
OnlyWhenAllowed(reading, blocks) ==
  IF blocks THEN UNCHANGED <<lastGoodIP, changes>>
  ELSE /\ changes' = (lastGoodIP # "none" /\ reading.ip # lastGoodIP)
       /\ lastGoodIP' = reading.ip

\* observeExitIP: every successful reading, one that blocks too.
ObserveExitIP(reading, blocks) ==
  /\ changes' = (lastGoodIP # "none" /\ reading.ip # lastGoodIP)
  /\ lastGoodIP' = reading.ip

\* Slip: what was cleared waits for the timer of the last lookup.
ClearOnly == ipv6' = "none" /\ v6wait' = v6wait

\* invalidateIPv6: not current any more, and looked for again soon.
InvalidateIPv6 ==
  /\ ipv6' = "none"
  /\ v6wait' = IF v6wait > V6Rearm THEN V6Rearm ELSE v6wait

\* maybeLookupIPv6, on its own cadence.
MaybeLookupIPv6 ==
  IF v6wait > 0 THEN v6wait' = v6wait - 1 /\ UNCHANGED <<ipv6, cut>>
  ELSE /\ \E answers \in V6Answers : ipv6' = OnceIPv6(answers)
       /\ v6wait' = V6Interval /\ cut' = FALSE

Witness(ip) == exits' = Append(IF Len(exits) < 2 THEN exits ELSE Tail(exits), ip)

\* Slip: a block leaves the address of the exit before it on show.
KeepsShowing(ps, blocks) ==
  LET reading == Once(quorum, [i \in Slots |-> Lookup(Providers[i], ps[i])])
  IN  /\ replies' = ps /\ res' = reading
      /\ IF reading = Failed THEN UNCHANGED <<lastGoodIP, changes, ipv6, v6wait, cut, exits>>
         ELSE /\ ObserveExitIP(reading, blocks) /\ Witness(reading.ip)
              /\ IF blocks THEN cut' = TRUE /\ UNCHANGED <<ipv6, v6wait>> ELSE MaybeLookupIPv6
      /\ UNCHANGED quorum

\* A reading, at startup or at a geo tick, and whether it leaves the posture blocked.
ReadExit(ps, blocks) ==
  LET reading == Once(quorum, [i \in Slots |-> Lookup(Providers[i], ps[i])])
  IN  /\ replies' = ps /\ res' = reading
      /\ IF reading = Failed THEN UNCHANGED <<lastGoodIP, changes, ipv6, v6wait, cut, exits>>
         ELSE /\ ObserveExitIP(reading, blocks) /\ Witness(reading.ip)
              /\ IF blocks THEN InvalidateIPv6 /\ cut' = TRUE ELSE MaybeLookupIPv6
      /\ UNCHANGED quorum

TunnelLost ==
  /\ InvalidateIPv6 /\ cut' = TRUE
  /\ UNCHANGED <<quorum, replies, res, lastGoodIP, changes, exits>>

LookNext ==
  \/ \E ps \in [Slots -> Replies], blocks \in BOOLEAN : ReadExit(ps, blocks)
  \/ TunnelLost

LookSpec == LookInit /\ [][LookNext]_lookVars

-----------------------------------------------------------------------------
\* With a quorum the country acted on is that of more than half of the providers that
\* gave an answer, and it is found whenever there is one, whatever their order.
QuorumIsAMajority ==
  quorum =>
    LET answers == {i \in Slots : Lookup(Providers[i], replies[i]) # Failed}
        saying(c) == {i \in answers : replies[i].cc = c}
        more == {c \in Codes : 2 * Cardinality(saying(c)) > Cardinality(answers)}
    IN  more = IF res = Failed THEN {} ELSE {res.cc}

\* A refusal never becomes a reading: whoever the reading came from said nothing against
\* it in its own way of refusing.
RefusalsAreNoReadings ==
  res # Failed =>
    \E i \in Slots :
      /\ replies[i].ip = res.ip /\ replies[i].cc = res.cc /\ replies[i].arrives
      /\ Providers[i] = "explicit" => replies[i].says = "success"
      /\ Providers[i] = "flagged" => replies[i].says # "error"

\* The address shown as current was looked up after the last time the tunnel went down
\* or the exit was cut, and is a public IPv6 address; once invalidated it is looked for
\* again within the short wait.
ShownAddressIsCurrent ==
  /\ ipv6 = "public" => ~cut
  /\ cut => v6wait <= V6Rearm

\* A failover is noticed: two successive successful readings, whatever failed in between
\* and whichever of them blocked, report a change exactly when their addresses differ.
FailoverIsNoticed == changes <=> (Len(exits) = 2 /\ exits[1] # exits[2])

\* What a look at the exit promises.
LookupsPromise ==
  /\ LookTypeOK /\ QuorumIsAMajority /\ RefusalsAreNoReadings
  /\ ShownAddressIsCurrent /\ FailoverIsNoticed
=============================================================================
