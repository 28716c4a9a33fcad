------------------------------ MODULE MCDaemon ------------------------------
(***************************************************************************)
(* The daemon by itself, part by part: what it observes (the decider, the  *)
(* tunnel watcher, endpoint discovery, the learned store, the exit         *)
(* lookups), the snapshots it publishes and how many of it there are.      *)
(* The parts share no variable, so one run explores each of them, chosen   *)
(* in the initial state, while the others rest.                            *)
(***************************************************************************)
EXTENDS Decision, Watcher, Endpoints, LearnedStore, Lookups, Publisher, Instance

MCPins == {{}, {"a"}}

MCSockets ==
  {[server |-> "b", owner |-> "transport", path |-> "physical"],
   [server |-> "c", owner |-> "app", path |-> "physical"],
   [server |-> "c", owner |-> "transport", path |-> "physical"]}

MCProviders == <<"plain", "explicit", "unknown", "flagged">>
Answer(says, ip, cc) == [arrives |-> TRUE, says |-> says, ip |-> ip, cc |-> cc]
MCReplies ==
  {Answer("success", "i", "IR"), Answer("success", "j", "US"), Answer("error", "j", "IR"),
   [arrives |-> FALSE, says |-> "nothing", ip |-> "malformed", cc |-> "malformed"]}
MCV6 == {<<"fails", "fails">>, <<"v4", "public">>, <<"local", "fails">>}

VARIABLE part        \* the part this behaviour is about

daemonVars == <<vars, watchVars, epVars, storeVars, lookVars, pubVars, instVars, part>>

\* A watcher that has told all there is to tell: none of its steps would change a thing, so
\* its fairness asks nothing of the part that moves.
WatcherRests ==
  /\ live = {} /\ pinned = {} /\ watched = Ifaces /\ tunnels = {}
  /\ emitted = Sample({}) /\ heard = Sample({}) /\ downStreak = 0
  /\ sending = Nothing /\ chan = <<>> /\ recent = [i \in 1 .. DownDebounce |-> {}]

\* A part at rest has one initial state, in which no step of it is owed.
DaemonInit ==
  /\ part \in {"decider", "watcher", "endpoints", "store", "lookups", "snapshots", "processes"}
  /\ Init /\ (part # "decider" => decider = NewDecider(1))
  /\ IF part = "watcher" THEN WatchInit ELSE WatcherRests
  /\ EpInit /\ (part # "endpoints" => ~present)
  /\ StoreInit
  /\ LookInit /\ (part # "lookups" => ~quorum)
  /\ PubInit
  /\ InstInit

DaemonNext ==
  \/ /\ part = "decider" /\ Next
     /\ UNCHANGED <<watchVars, epVars, storeVars, lookVars, pubVars, instVars, part>>
  \/ /\ part = "watcher" /\ WatchNext
     /\ UNCHANGED <<vars, epVars, storeVars, lookVars, pubVars, instVars, part>>
  \/ /\ part = "endpoints" /\ EpNext
     /\ UNCHANGED <<vars, watchVars, storeVars, lookVars, pubVars, instVars, part>>
  \/ /\ part = "store" /\ StoreNext
     /\ UNCHANGED <<vars, watchVars, epVars, lookVars, pubVars, instVars, part>>
  \/ /\ part = "lookups" /\ LookNext
     /\ UNCHANGED <<vars, watchVars, epVars, storeVars, pubVars, instVars, part>>
  \/ /\ part = "snapshots" /\ PubNext
     /\ UNCHANGED <<vars, watchVars, epVars, storeVars, lookVars, instVars, part>>
  \/ /\ part = "processes" /\ InstNext
     /\ UNCHANGED <<vars, watchVars, epVars, storeVars, lookVars, pubVars, part>>

DaemonSpec ==
  DaemonInit /\ [][DaemonNext]_daemonVars /\ WatchFairness /\ PubFairness /\ InstFairness
=============================================================================
