----------------------------- MODULE KillSwitch -----------------------------
(***************************************************************************)
(* What the kill switch promises, whatever it reacts to: the posture the   *)
(* daemon reports only moves in a step in which the firewall took the      *)
(* rules of the new posture, along the moves modes.md draws; between moves *)
(* its own steps leave the rules or tighten them; and what it could not do *)
(* it reports as an error.  Module Guard, the run loop, implements it.     *)
(***************************************************************************)
EXTENDS Naturals

CONSTANTS
  Alone,       \* nothing acts on the firewall beside the daemon
  Blind        \* a full block may hide the exit from the daemon as well

VARIABLES
  reported,    \* the posture, or "down" while there is no daemon
  enforced,    \* the posture whose rules are in the firewall
  trouble,     \* the daemon reports that the last change of rules failed
  disarmed     \* a panic is in force

ksVars == <<reported, enforced, trouble, disarmed>>

Standing == {"none", "window", "guard", "full"}
Cuts(p) == CASE p = "none" -> 0 [] p = "window" -> 1 [] p = "guard" -> 2 [] p = "full" -> 3

\* The moves a running daemon may make.
Moves == {<<"none", "guard">>, <<"none", "full">>,
          <<"guard", "full">>, <<"full", "guard">>,
          <<"guard", "window">>, <<"full", "window">>,
          <<"window", "guard">>, <<"window", "full">>,
          <<"guard", "none">>, <<"full", "none">>}

KillInit == reported = "down" /\ enforced = "none" /\ trouble = FALSE /\ disarmed = FALSE

\* The daemon may lift a panic, on an operator's request, and never declares one.
Rearms == disarmed' \in {disarmed, FALSE}

Move ==
  /\ <<reported, reported'>> \in Moves
  /\ enforced' = reported' /\ trouble' = FALSE
  /\ Rearms

\* While a panic is in force a window that is over only leaves the books.
CloseBooks ==
  /\ disarmed /\ reported = "window" /\ reported' \in {"guard", "full"}
  /\ trouble' = FALSE
  /\ UNCHANGED <<enforced, disarmed>>

\* The rules of the posture, or stricter ones, are installed again.
Assert ==
  /\ reported # "down" /\ UNCHANGED reported
  /\ enforced' \in {p \in Standing : Cuts(p) >= Cuts(reported)}
  /\ trouble' \in {trouble, FALSE}
  /\ Rearms

\* A change the firewall refuses is reported and moves nothing; where it was the
\* second of two, the first may have installed the posture's own rules or stricter ones.
Refuse ==
  /\ reported # "down" /\ UNCHANGED reported
  /\ enforced' \in {enforced} \cup {p \in Standing : Cuts(p) >= Cuts(reported)}
  /\ trouble' = TRUE
  /\ Rearms

\* A look that fails in a full block takes the error along: it failed itself.
Excuse ==
  /\ reported = "full" /\ trouble' = FALSE
  /\ UNCHANGED <<reported, enforced, disarmed>>

\* An operator's request that changes no rule still lifts a panic.
Rearm ==
  /\ reported # "down" /\ disarmed' = FALSE
  /\ UNCHANGED <<reported, enforced, trouble>>

\* The recovery probe: a full block the daemon cannot see through is opened as far as
\* the guard for one look.
Peek ==
  /\ Blind /\ reported = "full" /\ enforced' = "guard"
  /\ UNCHANGED <<reported, trouble, disarmed>>

Begin ==
  /\ reported = "down" /\ reported' \in {"none", "guard"}
  /\ enforced' = reported' \/ (reported' = "none" /\ UNCHANGED enforced)
  /\ Rearms /\ UNCHANGED trouble

\* A start that is refused takes down what an earlier daemon left, if the firewall lets it.
Tidy ==
  /\ reported = "down" /\ enforced' \in {enforced, "none"}
  /\ Rearms /\ UNCHANGED <<reported, trouble>>

\* A daemon that stops takes its rules down, one that dies leaves them.
End ==
  /\ reported # "down" /\ reported' = "down" /\ trouble' = FALSE
  /\ enforced' \in {enforced, "none"}
  /\ UNCHANGED disarmed

\* Commands and programs beside the daemon.
Beside ==
  /\ ~Alone
  /\ enforced' \in Standing /\ disarmed' \in BOOLEAN
  /\ UNCHANGED <<reported, trouble>>

DaemonMoves == Move \/ CloseBooks \/ Assert \/ Refuse \/ Excuse \/ Rearm \/ Peek
Loop == DaemonMoves \/ Begin \/ Tidy \/ End
KillNext == Loop \/ Beside
KillSpec == KillInit /\ [][KillNext]_ksVars
=============================================================================
