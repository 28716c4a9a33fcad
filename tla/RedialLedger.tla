---------------------------- MODULE RedialLedger ----------------------------
(***************************************************************************)
(* The rolling budget of internal/redial and the drops the run loop asks   *)
(* it about: whether a tunnel drop may open an automatic window, for how   *)
(* long, and when to ask again.  Guard leaves the answer open; here it is  *)
(* worked out, with a clock of whole units.                                *)
(*                                                                         *)
(* The ledger's slice of episodes is a set of records: at most one of them *)
(* is open, and two that are equal started and ended at one instant and    *)
(* cost nothing, so no sum differs.                                        *)
(***************************************************************************)
EXTENDS Integers, FiniteSets, FiniteSetsExt

CONSTANTS
  SettingsChoices,   \* the Settings a (re)load may adopt
  MinGrant,          \* the shortest window worth opening
  Uptimes,           \* how long the tunnel was up before a drop; 0: unknown
  MaxNow             \* bound on the clock

\* The budget keys are positive and a budget affords the shortest window
\* (validateSwitchWindow); a window of 0 is the automatic window turned off.
ASSUME SettingsAssumption ==
  /\ SettingsChoices # {}
  /\ SettingsChoices \subseteq [window : Nat, budget : Nat \ {0},
                                interval : Nat \ {0}, minUptime : Nat]
  /\ \A s \in SettingsChoices : s.budget >= s.window \/ s.budget >= MinGrant
ASSUME NumbersAssumption ==
  MinGrant \in Nat \ {0} /\ Uptimes \subseteq Nat /\ MaxNow \in Nat

VARIABLES
  now, settings,
  ledger,            \* the Budget: its episodes, shortRun and coolUntil
  refusal,           \* the refusal standing, at most one, with the drop it is for
  relaxed            \* history: the instants of the last interval at which an
                     \* automatic window was open

vars == <<now, settings, ledger, refusal, relaxed>>

Least(a, b) == IF a < b THEN a ELSE b
Greatest(a, b) == IF a < b THEN b ELSE a

\* By how much a window is cut for a run of fast drops: halved for each, at most
\* backoffSteps times.
Shifts == <<1, 2, 4, 8, 16>>
BackoffSteps == 4

\* History is kept for the shortest interval any settings have.
Horizon == Min({s.interval : s \in SettingsChoices})

Episodes == [start : Nat, granted : Nat \ {0}, actual : Nat, settled : BOOLEAN]
Ledgers == [episodes : SUBSET Episodes, shortRun : Nat, coolUntil : Nat]
Refusals == [uptime : Nat, goodExit : BOOLEAN, next : Nat, under : SettingsChoices]

\* Nothing was granted in the future, nothing cost more than it was granted, and
\* at most one window is open.
TypeOK ==
  /\ now \in Nat /\ settings \in SettingsChoices
  /\ ledger \in Ledgers
  /\ \A e \in ledger.episodes :
       /\ e.start <= now /\ e.actual <= e.granted
       /\ ~e.settled => \A f \in ledger.episodes : f.settled \/ f = e
  /\ refusal \in SUBSET Refusals
  /\ relaxed \in SUBSET (now - Horizon .. now - 1)

-----------------------------------------------------------------------------
(* What is on the books. *)

\* cost: what a closed window took, and all that an open one was granted.
Cost(e) == IF e.settled THEN e.actual ELSE e.granted

\* spent: the total of the costs, counted as the units charged to each episode.
Spent(episodes) == Cardinality(UNION {{e} \X (1 .. Cost(e)) : e \in episodes})

\* Slip: an episode leaves the books only after the instant it was promised to.
RetiredLate(e, t, s) == e.settled /\ e.start < t - s.interval

\* retired: a closed window that started a whole interval ago or more.
Retired(e, t, s) == e.settled /\ e.start <= t - s.interval

OnTheBooks(l, t, s) == {e \in l.episodes : ~Retired(e, t, s)}

\* Slip: what a display path sees is not aged.
RemainingUnaged(l, t, s) == Greatest(0, s.budget - Spent(l.episodes))

Remaining(l, t, s) == Greatest(0, s.budget - Spent(OnTheBooks(l, t, s)))

\* Slip: an episode is charged for as long as it stayed open.
SettleUnclamped(l, t) ==
  [l EXCEPT !.episodes =
    {IF e.settled THEN e ELSE [e EXCEPT !.actual = t - e.start, !.settled = TRUE] :
       e \in @}]

\* Close: the open episode, if any, is charged for what it took, never more than
\* it was granted.
Settle(l, t) ==
  [l EXCEPT !.episodes =
    {IF e.settled THEN e
     ELSE [e EXCEPT !.actual = Least(t - e.start, e.granted), !.settled = TRUE] :
       e \in @}]

Floor(s) == Least(s.window, MinGrant)

\* nextEligible on a ledger that is expired and holds no open episode: episodes
\* are let go oldest first until a window can be afforded, never before the cooldown
\* ends.
NextEligible(l, t, s) ==
  LET letGo == {e \in l.episodes :
                  s.budget - Spent({f \in l.episodes : f.start >= e.start}) < Floor(s)}
  IN  Max({t, l.coolUntil} \cup {e.start + s.interval : e \in letGo})

\* Slip: the window is granted in full, whatever is left.
AllOfIt(want, left) == want

\* A window is cut down to what the budget still holds.
CutDown(want, left) == Least(want, left)

\* Grant: the answer to a drop after `uptime', with or without a confirmed exit
\* meanwhile, asked at t.  dur is 0 for a refusal.  A refusal only expires the
\* ledger; a grant commits the backoff and opens an episode.
Grant(l, t, uptime, goodExit, s) ==
  LET books     == [Settle(l, t) EXCEPT !.episodes = OnTheBooks(Settle(l, t), t, s)]
      recovered == goodExit \/ (s.minUptime > 0 /\ uptime >= s.minUptime)
      fast      == uptime > 0 /\ ~recovered /\ s.minUptime > 0
      run       == IF fast THEN l.shortRun + 1 ELSE 0
      want      == Greatest(Floor(s), s.window \div Shifts[1 + Least(run, BackoffSteps)])
      left      == s.budget - Spent(books.episodes)
      dur       == CutDown(want, left)
  IN  CASE s.window = 0 -> [dur |-> 0, next |-> 0, ledger |-> l]
        [] s.window # 0 /\ ((t < l.coolUntil /\ ~recovered) \/ left < Floor(s)) ->
             [dur |-> 0, next |-> NextEligible(books, t, s), ledger |-> books]
        [] OTHER ->
             [dur |-> dur, next |-> 0,
              ledger |->
                [episodes  |-> books.episodes \cup
                   {[start |-> t, granted |-> dur, actual |-> 0, settled |-> FALSE]},
                 shortRun  |-> run,
                 coolUntil |-> IF fast THEN t + Least(s.window * run, s.interval) ELSE 0]]

OpenEpisodes == {e \in ledger.episodes : ~e.settled}

-----------------------------------------------------------------------------
Init ==
  /\ now = 0 /\ settings \in SettingsChoices
  /\ ledger = [episodes |-> {}, shortRun |-> 0, coolUntil |-> 0]
  /\ refusal = {} /\ relaxed = {}

\* grantAutoWindow, which asks with no window open: a refusal is kept with the
\* drop it is for, a grant clears it, and one whose window the firewall refuses
\* gives everything back.  Between two windows a tunnel comes up and drops again,
\* which takes a unit of time at least.
AskFor(uptime, goodExit, ok) ==
  LET g == Grant(ledger, now, uptime, goodExit, settings)
  IN  /\ settings.window > 0 /\ OpenEpisodes = {}
      /\ \A e \in ledger.episodes : e.start < now
      /\ ledger' = IF ok THEN g.ledger ELSE Settle(g.ledger, now)
      /\ refusal' = IF g.dur > 0 THEN {}
                    ELSE {[uptime |-> uptime, goodExit |-> goodExit, next |-> g.next,
                           under |-> settings]}

\* A drop edge.  The tunnel cannot have been up for longer than the daemon.
Drop(uptime, goodExit, ok) ==
  /\ uptime <= now
  /\ AskFor(uptime, goodExit, ok)
  /\ UNCHANGED <<now, settings, relaxed>>

\* retryAutoWindow: the same drop again, at the instant promised or, when a hold
\* is cancelled, at any other.
Retry(ok) ==
  /\ \E r \in refusal : AskFor(r.uptime, r.goodExit, ok)
  /\ UNCHANGED <<now, settings, relaxed>>

\* The automatic window closes; one an operator took over may be past its grant.
WindowCloses ==
  /\ OpenEpisodes # {}
  /\ ledger' = Settle(ledger, now)
  /\ UNCHANGED <<now, settings, refusal, relaxed>>

Reload(s) ==
  /\ settings' = s
  /\ refusal' = IF s.window = 0 THEN {} ELSE refusal
  /\ UNCHANGED <<now, ledger, relaxed>>

\* A unit of time passes; history keeps the instants the ledger granted.
Tick ==
  /\ now < MaxNow
  /\ now' = now + 1
  /\ relaxed' = {t \in relaxed : t >= now' - Horizon}
                 \cup {t \in {now} : \E e \in OpenEpisodes : t < e.start + e.granted}
  /\ UNCHANGED <<settings, ledger, refusal>>

Next ==
  \/ \E u \in Uptimes, good, ok \in BOOLEAN : Drop(u, good, ok)
  \/ \E ok \in BOOLEAN : Retry(ok)
  \/ WindowCloses
  \/ \E s \in SettingsChoices : Reload(s)
  \/ Tick

Spec == Init /\ [][Next]_vars

-----------------------------------------------------------------------------
\* The instant a refusal names is one the ledger honours and the first it would:
\* however often the drop is asked about meanwhile, it opens a window then and not
\* before (the comments on expire and nextEligible), unless a reload intervenes.  Only
\* the cooldown may be named to a drop it does not bind, that of a recovered tunnel.
PromisedInstantHonoured ==
  \A r \in refusal : (r.under = settings /\ OpenEpisodes = {}) =>
    LET OpensAt(t) == Grant(ledger, t, r.uptime, r.goodExit, settings).dur > 0
    IN  /\ OpensAt(Greatest(now, r.next))
        /\ \A t \in now .. r.next - 1 : OpensAt(t) => t < ledger.coolUntil

\* Remaining, asked on every snapshot, ages the ledger as a decision would: a drop
\* after a healthy uptime gets the window or what is said to remain, whichever is
\* less, and nothing exactly when what remains is not worth opening for.
RemainingIsHonest ==
  (OpenEpisodes = {} /\ settings.window > 0) =>
    LET left == Remaining(ledger, now, settings)
    IN  Grant(ledger, now, 0, TRUE, settings).dur =
          IF left < Floor(settings) THEN 0 ELSE Least(settings.window, left)

\* config.md: the total time automatic windows leave the guard relaxed within any
\* rolling interval stays within the budget.  Whole episodes leave the books by
\* their start, so this is not the ledger's own sum; it holds because a window that
\* straddles the edge leaves the interval no slower than a new one can fill it.
RelaxationIsBounded ==
  Cardinality(relaxed) <= Max({s.budget : s \in SettingsChoices})

=============================================================================
