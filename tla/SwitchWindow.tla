---------------------------- MODULE SwitchWindow ----------------------------
(***************************************************************************)
(* How long a window stays open: openWindow, closeWindowRevert and the     *)
(* early close of internal/runner, with a clock, over the ledger that pays *)
(* for the automatic ones.  Guard says which window may open when and what *)
(* it reverts to; here every moment of GUARD or FULL BLOCK will do.        *)
(*                                                                         *)
(* The loop is taken to serve its timer on time; how late a busy loop may  *)
(* be is not modelled.                                                     *)
(***************************************************************************)
EXTENDS RedialLedger

CONSTANTS
  CapsChoices,       \* window lengths and caps a (re)load may adopt
  Requests,          \* lengths asked for; 0: none given
  DefaultPause,      \* a pause that names no length
  RevertRetry        \* how soon a failed revert is tried again

\* A length of 0 turns a trigger off; validateSwitchWindow keeps the rest under
\* their caps.
ASSUME CapsAssumption ==
  /\ CapsChoices # {}
  /\ CapsChoices \subseteq [switch : Nat, switchMax : Nat \ {0},
                            redialMax : Nat \ {0}, pauseMax : Nat]
  /\ \A c \in CapsChoices : /\ c.switch <= c.switchMax
                            /\ \A s \in SettingsChoices : s.window <= c.redialMax
ASSUME LengthsAssumption ==
  Requests \subseteq Nat /\ DefaultPause \in Nat \ {0} /\ RevertRetry \in Nat \ {0}

VARIABLES
  caps,
  window,            \* windowTrigger, or "closed"
  openedAs,          \* history: the trigger that opened it first
  windowStart, windowMax, windowDeadline,
  timerAt            \* when windowTimer fires

windowVs == <<window, openedAs, windowStart, windowMax, windowDeadline, timerAt>>
ledgerVs == <<now, settings, ledger, refusal, relaxed>>
allVars == <<ledgerVs, windowVs, caps>>

WindowOpen == window # "closed"

\* A takeover makes an automatic window the operator's; nothing rebrands a pause.
WindowTypeOK ==
  /\ TypeOK
  /\ caps \in CapsChoices
  /\ window \in {"closed", "manual", "auto", "pause"}
  /\ openedAs \in {"manual", "auto", "pause"}
  /\ window \in {"auto", "pause"} => openedAs = window
  /\ window = "manual" => openedAs # "pause"
  /\ windowStart \in 0 .. now /\ windowMax \in Nat
  /\ windowDeadline \in Nat /\ timerAt \in Nat

-----------------------------------------------------------------------------
\* clampWindow and pauseDuration; 0 is a refusal.  A pause longer than its cap is
\* refused, one without a length is fitted to it.
ManualLength(req) ==
  IF caps.switch = 0 THEN 0
  ELSE Least(IF req = 0 THEN caps.switch ELSE req, caps.switchMax)
PauseLength(req) ==
  CASE req = 0 -> Least(DefaultPause, caps.pauseMax)
    [] req > caps.pauseMax -> 0
    [] OTHER -> req

CapOf(trigger) == CASE trigger = "auto" -> caps.redialMax
                    [] trigger = "pause" -> caps.pauseMax
                    [] OTHER -> caps.switchMax

\* Slip: the timer is set for the cap.
OpenForTheCap(trigger, dur) ==
  /\ window' = trigger /\ openedAs' = trigger
  /\ windowStart' = now /\ windowMax' = CapOf(trigger)
  /\ windowDeadline' = now + dur /\ timerAt' = now + CapOf(trigger)

FirstOpen(trigger, dur) ==
  /\ window' = trigger /\ openedAs' = trigger
  /\ windowStart' = now /\ windowMax' = CapOf(trigger)
  /\ windowDeadline' = now + dur /\ timerAt' = now + dur

\* Slips: no cap on repeated opens; a shorter request brings the deadline forward.
LaterUncapped(dur) == Greatest(windowDeadline, now + dur)
JustMoved(dur) == Least(now + dur, windowStart + windowMax)

\* The deadline moves out only, and never past the cap fixed at the first open.
Later(dur) == Greatest(windowDeadline, Least(now + dur, windowStart + windowMax))

\* openWindow by an explicit command.
OpenWindow(trigger, dur, ok) ==
  CASE WindowOpen ->
         /\ window' = IF trigger = "manual" THEN trigger ELSE window
         /\ windowDeadline' = Later(dur)
         /\ timerAt' = Greatest(now, Later(dur))
         /\ UNCHANGED <<openedAs, windowStart, windowMax, refusal>>
    [] ~WindowOpen /\ ok -> FirstOpen(trigger, dur) /\ refusal' = {}
    [] OTHER -> UNCHANGED <<windowVs, refusal>>

\* grantAutoWindow, from a drop edge or a retry.
AskAndOpen(uptime, goodExit, ok) ==
  LET g == Grant(ledger, now, uptime, goodExit, settings)
  IN  /\ ~WindowOpen
      /\ AskFor(uptime, goodExit, ok)
      /\ IF g.dur > 0 /\ ok THEN FirstOpen("auto", g.dur) ELSE UNCHANGED windowVs

\* Slip: a window that closes early is not settled.
ClosedUnsettled ==
  /\ window' = "closed"
  /\ UNCHANGED <<ledger, openedAs, windowStart, windowMax, windowDeadline, timerAt>>

\* However it closes, the ledger is told what the window took.
Closed ==
  /\ window' = "closed" /\ ledger' = Settle(ledger, now)
  /\ UNCHANGED <<openedAs, windowStart, windowMax, windowDeadline, timerAt>>

-----------------------------------------------------------------------------
WindowInit ==
  /\ Init
  /\ caps \in CapsChoices
  /\ window = "closed" /\ openedAs = "manual"
  /\ windowStart = 0 /\ windowMax = 0 /\ windowDeadline = 0 /\ timerAt = 0

DropOpens(uptime, goodExit, ok) ==
  /\ uptime <= now
  /\ AskAndOpen(uptime, goodExit, ok)
  /\ UNCHANGED <<now, settings, relaxed, caps>>

RetryOpens(ok) ==
  /\ \E r \in refusal : AskAndOpen(r.uptime, r.goodExit, ok)
  /\ UNCHANGED <<now, settings, relaxed, caps>>

\* Slip: a switch takes a pause over.
SwitchOverAnything(req, ok) ==
  /\ ManualLength(req) > 0
  /\ OpenWindow("manual", ManualLength(req), ok)
  /\ UNCHANGED <<now, settings, ledger, relaxed, caps>>

OpenSwitch(req, ok) ==
  /\ window # "pause" /\ ManualLength(req) > 0
  /\ OpenWindow("manual", ManualLength(req), ok)
  /\ UNCHANGED <<now, settings, ledger, relaxed, caps>>

Pause(req, ok) ==
  /\ window \in {"closed", "pause"} /\ PauseLength(req) > 0
  /\ OpenWindow("pause", PauseLength(req), ok)
  /\ UNCHANGED <<now, settings, ledger, relaxed, caps>>

\* closeWindowRevert; a deadline that passes under a panic closes the books alike.
\* A revert that fails holds the window open and is tried again soon, also one that
\* was asked for before the deadline.
Revert(ok) ==
  IF ok THEN Closed
  ELSE /\ timerAt' = now + RevertRetry
       /\ UNCHANGED <<ledger, window, openedAs, windowStart, windowMax, windowDeadline>>

\* `switch --cancel' and `resume'.
CancelWindow(ok) ==
  /\ WindowOpen
  /\ Revert(ok)
  /\ UNCHANGED <<now, settings, refusal, relaxed, caps>>

WindowTimer(ok) ==
  /\ WindowOpen /\ now >= timerAt
  /\ Revert(ok)
  /\ UNCHANGED <<now, settings, refusal, relaxed, caps>>

\* finishCloseProbe with its evidence in hand; a failure leaves the timers alone.
EarlyClose ==
  /\ WindowOpen
  /\ Closed
  /\ UNCHANGED <<now, settings, refusal, relaxed, caps>>

\* An open window keeps the cap it was opened under.
ReloadCaps(c) ==
  /\ caps' = c
  /\ UNCHANGED <<ledgerVs, windowVs>>

TimePasses ==
  /\ WindowOpen => now < timerAt
  /\ Tick
  /\ UNCHANGED <<windowVs, caps>>

WindowNext ==
  \/ \E u \in Uptimes, good, ok \in BOOLEAN : DropOpens(u, good, ok)
  \/ \E ok \in BOOLEAN : RetryOpens(ok)
  \/ \E req \in Requests, ok \in BOOLEAN : OpenSwitch(req, ok) \/ Pause(req, ok)
  \/ \E ok \in BOOLEAN : CancelWindow(ok) \/ WindowTimer(ok)
  \/ EarlyClose
  \/ \E c \in CapsChoices : ReloadCaps(c)
  \/ \E s \in SettingsChoices : Reload(s) /\ UNCHANGED <<windowVs, caps>>
  \/ TimePasses

WindowSpec == WindowInit /\ [][WindowNext]_allVars

-----------------------------------------------------------------------------
\* No sequence of opens, extensions, takeovers and reloads carries a window past
\* the cap it was first opened under.
WithinCap == WindowOpen => windowDeadline <= windowStart + windowMax

\* Whatever was extended, cancelled or refused by the firewall, the timer of an open
\* window is never further off than its deadline or, past it, one retry.
CloseIsDue ==
  WindowOpen => timerAt <= Greatest(windowDeadline, now + RevertRetry)

\* The ledger's open episode is the open window, however it was opened, taken
\* over, closed or left unapplied; one nobody took over lasts what it was granted.
LedgerFollowsWindow ==
  /\ OpenEpisodes # {} <=> WindowOpen /\ openedAs = "auto"
  /\ window = "auto" => \E e \in OpenEpisodes :
       e.start = windowStart /\ windowDeadline = e.start + e.granted

\* A repeated command never shortens the window it finds open.
DeadlineOnlyExtends ==
  [][WindowOpen /\ window' # "closed" => windowDeadline' >= windowDeadline]_allVars
=============================================================================
