------------------------------- MODULE MCHost -------------------------------
(***************************************************************************)
(* What the daemon shares with other processes of its host, part by part:  *)
(* the commands and their channels, the log, the record of the rules, the  *)
(* rules and the two stateful backends, the upgrade, the settings and the  *)
(* setup wizard.  They share no variable, so one run explores each of      *)
(* them, chosen in the initial state, while the others rest.               *)
(***************************************************************************)
EXTENDS Commands, LogFiles, AppliedRules, Rulesets, Backends, Upgrade, Configuration

MCGates == {{}, {"switch", "pause", "write"}}

MCMembers == [utun |-> {"utun4", "utun9"}]
Mapped(a) == [addr |-> a, mapped |-> TRUE]
TunnelSets == {{}, {"utun4"}}
EndpointSets == {{}, {Mapped("server4")}, Plain({"server4", "server6"})}
MCInputs == [tunnels : TunnelSets, groups : {{}, {"utun"}}, endpoints : EndpointSets,
             dns : BOOLEAN, lan : BOOLEAN, providers : {{}, {Mapped("provider4")}},
             protos : {{}, {"udp"}}, ports : {{}, {443}}]

MCBatches == {[cap |-> 1], [level |-> 1], [window |-> 2, cap |-> 2]}
MCResets == {{"window", "level"}}

MCPresets == {[window |-> n] : n \in {0, 2}}

MCInside == [utun4 |-> {"in"}]
MCFiles == {[name |-> "p", host |-> h] : h \in {"in", "out"}}
MCExisting ==
  {[countries |-> {"IR"}, pins |-> {"utun4"}, hosts |-> {"out"}, profiles |-> {}, discover |-> FALSE],
   [countries |-> {"IR", "FR"}, pins |-> {}, hosts |-> {"out"},
    profiles |-> {[name |-> "p", host |-> "out"]}, discover |-> TRUE],
   [countries |-> {}, pins |-> {}, hosts |-> {}, profiles |-> {}, discover |-> FALSE]}

VARIABLE part        \* the part this behaviour is about

hostVars == <<cmdVars, logVars, arVars, rsVars, pfVars, wfpVars, upVars, cfgVars, wizVars, part>>

\* A part at rest has one initial state.
AtRest == [tunnels |-> {}, groups |-> {}, endpoints |-> {}, dns |-> FALSE, lan |-> FALSE,
           providers |-> {}, protos |-> {}, ports |-> {}]
OldestConfig == CHOOSE c \in Configs : Valid(Normalize(c))
HostInit ==
  /\ part \in {"commands", "log", "record", "rules", "pf", "wfp", "upgrade", "settings", "setup"}
  /\ CmdInit /\ (part # "commands" => allow = {})
  /\ LogInit
  /\ ArInit /\ (part # "record" => installed = None /\ account = None)
  /\ RulesetsInit(IF part = "rules" THEN MCInputs ELSE {AtRest}) /\ (part # "rules" => os = "pf")
  /\ PfInit /\ (part # "pf" => pfOn)
  /\ WfpInit /\ (part # "wfp" => \A p \in Profiles : action[p] = "Allow")
  /\ UpInit
  /\ CfgInit /\ (part # "settings" => configFile = OldestConfig)
  /\ SetupInit /\ (part # "setup" => ~mac /\ ~hadConfig /\ up = {})

HostNext ==
  \/ /\ part = "commands" /\ CmdNext
     /\ UNCHANGED <<logVars, arVars, rsVars, pfVars, wfpVars, upVars, cfgVars, wizVars, part>>
  \/ /\ part = "log" /\ LogNext
     /\ UNCHANGED <<cmdVars, arVars, rsVars, pfVars, wfpVars, upVars, cfgVars, wizVars, part>>
  \/ /\ part = "record" /\ ArNext
     /\ UNCHANGED <<cmdVars, logVars, rsVars, pfVars, wfpVars, upVars, cfgVars, wizVars, part>>
  \/ /\ part = "rules" /\ RulesetsNext(TunnelSets, EndpointSets)
     /\ UNCHANGED <<cmdVars, logVars, arVars, pfVars, wfpVars, upVars, cfgVars, wizVars, part>>
  \/ /\ part = "pf" /\ PfNext
     /\ UNCHANGED <<cmdVars, logVars, arVars, rsVars, wfpVars, upVars, cfgVars, wizVars, part>>
  \/ /\ part = "wfp" /\ WfpNext
     /\ UNCHANGED <<cmdVars, logVars, arVars, rsVars, pfVars, upVars, cfgVars, wizVars, part>>
  \/ /\ part = "upgrade" /\ UpNext
     /\ UNCHANGED <<cmdVars, logVars, arVars, rsVars, pfVars, wfpVars, cfgVars, wizVars, part>>
  \/ /\ part = "settings" /\ CfgNext
     /\ UNCHANGED <<cmdVars, logVars, arVars, rsVars, pfVars, wfpVars, upVars, wizVars, part>>
  \/ /\ part = "setup" /\ SetupNext
     /\ UNCHANGED <<cmdVars, logVars, arVars, rsVars, pfVars, wfpVars, upVars, cfgVars, part>>

HostSpec == HostInit /\ [][HostNext]_hostVars
=============================================================================
