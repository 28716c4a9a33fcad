------------------------------ MODULE Watcher -------------------------------
(***************************************************************************)
(* The tunnel watcher of internal/netdetect (Watch): a goroutine samples   *)
(* the tunnel interfaces, tells edges from noise, and hands them over a    *)
(* channel of one to the run loop, which folds them into the set of        *)
(* tunnels it guards.  The loop may be busy for long: the channel fills    *)
(* and the watcher then waits, sampling nothing.                           *)
(***************************************************************************)
EXTENDS Naturals, Sequences, FiniteSets

CONSTANTS
  Ifaces,            \* names of tunnel interfaces that may come and go
  PinChoices,        \* tunnel names the daemon may be started with
  DownDebounce       \* consecutive losses before one is believed

ASSUME WatcherAssumption ==
  /\ PinChoices \subseteq SUBSET Ifaces /\ PinChoices # {}
  /\ DownDebounce \in Nat \ {0}

VARIABLES
  live,              \* the tunnel interfaces that are up
  pinned, watched,   \* Options.Tunnels; the interfaces the sampler considers
  emitted,           \* the state last emitted, or Nothing before the first
  downStreak,
  sending,           \* what send is blocked on, or Nothing
  chan,
  heard,             \* what the loop was last told, or Nothing
  tunnels,           \* the set the loop guards
  recent             \* history: the latest known samples, newest last

world == <<live, pinned, watched>>
watcher == <<emitted, downStreak, sending, recent>>
loop == <<heard, tunnels>>
watchVars == <<world, watcher, chan, loop>>

\* TunnelInterfaces, or the pinned ones of them: up, named like a tunnel and routable.
Observed == live \cap watched

\* A TunnelState; an unknown sample reports up and names nothing.
Sample(S) == [up |-> S # {}, names |-> S, unknown |-> FALSE]
UnknownSample == [up |-> TRUE, names |-> {}, unknown |-> TRUE]
Nothing == [up |-> FALSE, names |-> {}, unknown |-> TRUE]   \* no state at all
States == {Sample(S) : S \in SUBSET Ifaces} \cup {UnknownSample}

WatchTypeOK ==
  /\ live \subseteq Ifaces /\ pinned \in PinChoices /\ watched \subseteq Ifaces
  /\ emitted \in States \cup {Nothing} /\ downStreak \in 0 .. DownDebounce
  /\ sending \in States \cup {Nothing}
  /\ chan \in Seq(States) /\ Len(chan) <= 1
  /\ heard \in States \cup {Nothing} /\ tunnels \subseteq Ifaces
  /\ recent \in Seq(SUBSET Ifaces) /\ Len(recent) <= DownDebounce

\* With autodetection every interface is sampled, else the pinned ones alone.
WatchInit ==
  /\ live \in SUBSET Ifaces
  /\ pinned \in PinChoices /\ watched \in {Ifaces, pinned}
  /\ emitted = Nothing /\ downStreak = 0 /\ sending = Nothing /\ recent = <<>>
  /\ chan = <<>>
  /\ heard = Nothing /\ tunnels = pinned

-----------------------------------------------------------------------------
\* An interface comes up or goes down; the VPN client redials under a new name.
InterfacesChange ==
  /\ live' \in SUBSET Ifaces
  /\ UNCHANGED <<pinned, watched, watcher, chan, loop>>

KeepRecent(S) ==
  recent' = IF Len(recent) < DownDebounce THEN Append(recent, S)
            ELSE Append(Tail(recent), S)

\* The first sample is sent whatever it is.
FirstSample(st) ==
  /\ emitted = Nothing
  /\ emitted' = st /\ sending' = st
  /\ downStreak' = IF st.up THEN 0 ELSE DownDebounce
  /\ IF st.unknown THEN UNCHANGED recent ELSE KeepRecent(st.names)
  /\ UNCHANGED <<world, chan, loop>>

Emit(st) == downStreak' = 0 /\ emitted' = st /\ sending' = st
Quiet(n) == downStreak' = n /\ UNCHANGED <<emitted, sending>>

\* What a known sample says against the emitted state: a tunnel more, or one at
\* last; a tunnel less, or none any more.
Rose(st) == st.up /\ (~(st.names \subseteq emitted.names) \/ ~emitted.up)
Fell(st) == ~(emitted.names \subseteq st.names) \/ (~st.up /\ emitted.up)

\* Slips: a streak that a recovery does not end; a set that changed its members
\* but not its size is no change.
StreakKept(st) ==
  IF Rose(st) \/ (Fell(st) /\ downStreak + 1 >= DownDebounce) THEN Emit(st)
  ELSE Quiet(IF Fell(st) THEN downStreak + 1 ELSE downStreak)
UnlessSameSize(st) ==
  LET more == st.up /\ (Cardinality(st.names) > Cardinality(emitted.names) \/ ~emitted.up)
  IN  IF more \/ (Fell(st) /\ downStreak + 1 >= DownDebounce) THEN Emit(st)
      ELSE Quiet(IF Fell(st) THEN downStreak + 1 ELSE 0)

\* Growth and recovery are emitted at once, a loss when it has lasted.
Judge(st) ==
  IF Rose(st) \/ (Fell(st) /\ downStreak + 1 >= DownDebounce) THEN Emit(st)
  ELSE Quiet(IF Fell(st) THEN downStreak + 1 ELSE 0)

\* A tick; an unknown sample is neither evidence of a loss nor of recovery.
SampleTick ==
  /\ emitted # Nothing /\ sending = Nothing
  /\ Judge(Sample(Observed)) /\ KeepRecent(Observed)
  /\ UNCHANGED <<world, chan, loop>>
UnknownTick ==
  /\ emitted # Nothing /\ sending = Nothing
  /\ UNCHANGED watchVars

\* Slip: a send that gives up on a full channel.
SendOrDrop ==
  /\ sending # Nothing
  /\ chan' = IF chan = <<>> THEN <<sending>> ELSE chan
  /\ sending' = Nothing
  /\ UNCHANGED <<world, emitted, downStreak, recent, loop>>

Send ==
  /\ sending # Nothing /\ chan = <<>>
  /\ chan' = <<sending>> /\ sending' = Nothing
  /\ UNCHANGED <<world, emitted, downStreak, recent, loop>>

\* Slip: pins are forgotten with the first observation.
ObservedOnly(current, observed) == IF observed = {} THEN current ELSE observed

\* reconcileTunnels: pinned names stay, observed ones are added, the others go;
\* never to nothing.
ReconcileTunnels(current, observed) ==
  LET next == (current \cap pinned) \cup observed
  IN  IF next = {} THEN current ELSE next

\* The loop's case for a tunnel sample: an unknown one changes nothing.
Hear ==
  /\ chan # <<>>
  /\ chan' = <<>>
  /\ IF Head(chan).unknown THEN UNCHANGED loop
     ELSE heard' = Head(chan) /\ tunnels' = ReconcileTunnels(tunnels, Head(chan).names)
  /\ UNCHANGED <<world, watcher>>

WatchNext ==
  \/ InterfacesChange
  \/ FirstSample(Sample(Observed)) \/ FirstSample(UnknownSample)
  \/ SampleTick \/ UnknownTick \/ Send \/ Hear

\* Ticks keep coming and some of them see the interfaces; the loop keeps serving
\* its channels.
WatchFairness ==
  /\ WF_watchVars(FirstSample(Sample(Observed)) \/ FirstSample(UnknownSample))
  /\ WF_watchVars(SampleTick) /\ WF_watchVars(Send) /\ WF_watchVars(Hear)

WatchSpec == WatchInit /\ [][WatchNext]_watchVars /\ WatchFairness

-----------------------------------------------------------------------------
\* The drop edge that opens redial windows is believed only after DownDebounce
\* successive samples each of which had lost something of the state emitted
\* before it: one flap, or an interface list that cannot be read, is no drop.
DropIsDebounced ==
  [][(emitted # Nothing /\ emitted' # emitted /\ emitted.up /\ ~emitted'.up)
       => /\ Len(recent') = DownDebounce
          /\ \A i \in 1 .. DownDebounce :
               ~(emitted.names \subseteq recent'[i]) \/ recent'[i] = {}]_watchVars

\* Growth is told at once: no tunnel of the latest known sample is missing from the
\* state the watcher has told, or is telling, the loop (a new tunnel is guarded
\* without waiting for the debounce).
GrowthIsPrompt ==
  (recent # <<>> /\ emitted # Nothing)
    => recent[Len(recent)] \subseteq emitted.names

\* The loop is told every edge, in order, and nothing it has not been told differs
\* from what it knows: when the channel is empty and no send waits, it is up to date.
LoopIsUpToDate ==
  (emitted # Nothing /\ sending = Nothing /\ chan = <<>>)
    => \/ heard = emitted
       \/ emitted.unknown /\ heard = Nothing

\* Once the interfaces stop changing the loop ends up guarding exactly what is up,
\* and what it was started with; with everything down it keeps the last set.
WatcherConverges ==
  <>[][UNCHANGED live]_watchVars
    => <>[](/\ heard # Nothing /\ heard.names = Observed /\ heard.up = (heard.names # {})
            /\ heard.names # {} => tunnels = pinned \cup heard.names)

\* What Watch and the loop that hears it promise together.
WatcherPromise ==
  /\ [](WatchTypeOK /\ GrowthIsPrompt /\ LoopIsUpToDate)
  /\ DropIsDebounced /\ WatcherConverges
=============================================================================
