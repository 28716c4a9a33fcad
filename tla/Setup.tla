-------------------------------- MODULE Setup --------------------------------
(***************************************************************************)
(* The setup wizard (internal/setup and cmd/dezhban/setup.go): questions   *)
(* seeded from the configuration, asked in waves so that a question gated  *)
(* on another is decided by the answer and not by its seed, and the        *)
(* answers applied to the configuration, where what was never asked is     *)
(* left alone.  The profiles are those of vpn.profiles, by name, each with *)
(* one server.                                                             *)
(***************************************************************************)
CONSTANTS
  Countries, Offered,   \* country codes; those offered as boxes to tick
  Recommended,          \* what an absent list means
  Pinnable, Hosts,       \* tunnel interfaces; servers
  Inside,               \* the servers in each tunnel's own subnet, while it is up
  Files,                \* VPN client files, as the profiles they make: [name, host]
  Existing              \* configurations found: [countries, pins, hosts, profiles, discover]

Configurations == [countries : SUBSET Countries, pins : SUBSET Pinnable, hosts : SUBSET Hosts,
                   profiles : SUBSET Files, discover : BOOLEAN]

ASSUME SetupAssumption ==
  /\ Offered \cup Recommended \subseteq Countries /\ Recommended # {}
  /\ Inside \in [Pinnable -> SUBSET Hosts] /\ Existing \subseteq Configurations

VARIABLES
  screen,            \* the group asked, "block" or "find", then "review", "saved" or "left"
  mac, hadConfig,    \* the platform; whether a configuration was found
  up,                \* the tunnels detected
  original,          \* the configuration the wizard started from
  asked, answers,    \* questions put on a screen; the bindings
  warned,            \* the lockout warning was shown
  outcome            \* the configuration it ends with

wizVars == <<screen, mac, hadConfig, up, original, asked, answers, warned, outcome>>

Fresh0 == [countries |-> {}, pins |-> {}, hosts |-> {}, profiles |-> {}, discover |-> TRUE]

Answering == [ticked : SUBSET Offered, other : SUBSET Countries, auto : BOOLEAN,
              tunnels : SUBSET Pinnable, files : SUBSET Files, endpoints : SUBSET Hosts]
Questions == {"ticked", "other", "auto", "tunnels", "files", "endpoints"}

\* Slip: automatic detection is what one starts from.
AutomaticAnyway(c) ==
  [ticked |-> c.countries \cap Offered, other |-> c.countries \ Offered,
   auto |-> TRUE, tunnels |-> c.pins, files |-> {}, endpoints |-> c.hosts]

\* NewAnswers, from Questions: every answer starts as what is configured.
Seeds(c) ==
  [ticked |-> c.countries \cap Offered, other |-> c.countries \ Offered,
   auto |-> c.pins = {}, tunnels |-> c.pins, files |-> {}, endpoints |-> c.hosts]

SetupTypeOK ==
  /\ screen \in {"block", "find", "review", "saved", "left"}
  /\ {mac, hadConfig, warned} \subseteq BOOLEAN /\ up \subseteq Pinnable
  /\ {original, outcome} \subseteq Configurations
  /\ asked \subseteq Questions /\ answers \in Answering

\* A configuration that cannot be loaded counts as none, and the defaults are edited.
SetupInit ==
  /\ screen = "block" /\ mac \in BOOLEAN /\ hadConfig \in BOOLEAN
  /\ original \in IF hadConfig THEN Existing ELSE {Fresh0}
  /\ up \in SUBSET Pinnable
  /\ asked = {} /\ answers = Seeds(original) /\ warned = FALSE /\ outcome = original

-----------------------------------------------------------------------------
Group(q) == IF q \in {"ticked", "other"} THEN "block" ELSE "find"
Gated(q) == q \in {"tunnels", "files"} \/ (q = "endpoints" /\ mac)
ShouldAsk(q) == Gated(q) => ~answers.auto
StillToAsk(q) == Group(q) = screen /\ q \notin asked

\* Slip: a gate the same form is about to answer counts as its seed.
WholeStep ==
  {q \in Questions : Group(q) = screen /\ q \notin asked /\ ShouldAsk(q)}

\* nextWave: what can be asked now, less what waits for an answer of this very group.
NextWave ==
  {q \in Questions : Group(q) = screen /\ q \notin asked /\ ShouldAsk(q)
                     /\ ~(Gated(q) /\ StillToAsk("auto"))}

\* tunnelQuestion: a pick list of the detected and the configured, or free text.
OfferedTunnels == IF up = {} THEN Pinnable ELSE up \cup original.pins

\* One form, and what the user makes of it; or none is left in this group.
AskWave ==
  /\ screen \in {"block", "find"} /\ NextWave # {}
  /\ asked' = asked \cup NextWave
  /\ \E a \in Answering :
       /\ \A q \in Questions \ NextWave : a[q] = answers[q]
       /\ "tunnels" \in NextWave => a.tunnels \subseteq OfferedTunnels
       /\ answers' = a
  /\ UNCHANGED <<screen, mac, hadConfig, up, original, warned, outcome>>

\* Slip: the imported profiles are the profiles.
OnlyImported(existing, imported) == IF imported = {} THEN {} ELSE imported

\* mergeProfiles: added to the saved ones, replacing by name.
MergeProfiles(existing, imported) ==
  {p \in existing : \A i \in imported : i.name # p.name} \cup imported

\* Input and Apply, normalised: a list left empty is a list left out.
Apply(readable) ==
  LET countries == answers.ticked \cup answers.other
      imported == IF ShouldAsk("files") THEN answers.files \cap readable ELSE {}
  IN  [countries |-> IF countries = {} THEN Recommended ELSE countries,
       pins |-> IF answers.auto THEN {} ELSE answers.tunnels,
       hosts |-> IF ShouldAsk("endpoints") THEN answers.endpoints ELSE original.hosts,
       profiles |-> MergeProfiles(original.profiles, imported),
       discover |-> original.discover \/ (mac /\ ~hadConfig)]

\* Slip: the profiles' servers do not count.
FlatOnly(c) == c.hosts

\* EffectiveEndpoints, and those a pinned tunnel would have to reach through itself.
EffectiveEndpoints(c) == c.hosts \cup {p.host : p \in c.profiles}
LockedOut(c) == EffectiveEndpoints(c) \cap UNION {Inside[t] : t \in c.pins \cap up}

\* The groups are through; of the named files those that parse are imported, of two for
\* one name the later.
EndGroup ==
  /\ screen \in {"block", "find"} /\ NextWave = {}
  /\ IF screen = "block" THEN screen' = "find" /\ UNCHANGED <<warned, outcome>>
     ELSE \E readable \in SUBSET Files :
            /\ \A p, q \in readable : p.name = q.name => p = q
            /\ outcome' = Apply(readable)
            /\ warned' = (LockedOut(outcome') # {}) /\ screen' = "review"
  /\ UNCHANGED <<mac, hadConfig, up, original, asked, answers>>

\* The warning confirmed where there is one, the ruleset seen, the file written; or not.
Save == screen = "review" /\ screen' = "saved"
        /\ UNCHANGED <<mac, hadConfig, up, original, asked, answers, warned, outcome>>
LeaveSetup == screen \in {"block", "find", "review"} /\ screen' = "left"
         /\ UNCHANGED <<mac, hadConfig, up, original, asked, answers, warned, outcome>>

SetupNext == AskWave \/ EndGroup \/ Save \/ LeaveSetup

SetupSpec == SetupInit /\ [][SetupNext]_wizVars

-----------------------------------------------------------------------------
\* What a screen collected is what is saved: no answer is given on a form on which another
\* answer takes its question back.
AnswersAreKept ==
  screen = "saved" =>
    /\ "endpoints" \in asked => outcome.hosts = answers.endpoints
    /\ "tunnels" \in asked => outcome.pins = answers.tunnels

\* Unasked means untouched: servers, saved profiles and the discovery of a configuration
\* found are only changed by a screen that asked about them.
UnaskedIsUntouched ==
  screen = "saved" =>
    /\ "endpoints" \notin asked => outcome.hosts = original.hosts
    /\ \A p \in original.profiles :
         \E q \in outcome.profiles : q.name = p.name /\ (q # p => "files" \in asked)
    /\ hadConfig => outcome.discover = original.discover

\* Pressing Enter through the wizard changes nothing, whatever is pinned, up or down, on
\* either platform; but for a list of countries left empty on purpose.
EnterChangesNothing ==
  screen = "saved" /\ hadConfig /\ answers = Seeds(original) /\ original.countries # {}
    => outcome = original

\* Nobody pins a tunnel under an address only reachable through it unwarned, wherever
\* that address was configured.
LockoutIsWarnedOf ==
  screen = "saved" /\ ~warned =>
    \A t \in outcome.pins \cap up : \A h \in Inside[t] :
      h \notin outcome.hosts /\ \A p \in outcome.profiles : p.host # h

\* What setup promises.
SetupPromise ==
  SetupTypeOK /\ AnswersAreKept /\ UnaskedIsUntouched /\ EnterChangesNothing /\ LockoutIsWarnedOf
=============================================================================
