------------------------------- MODULE Drops --------------------------------
(***************************************************************************)
(* The run loop with a record of the tunnel drop it is in, for what the    *)
(* code promises about a whole drop rather than about one step of it.      *)
(***************************************************************************)
EXTENDS GuardRefinement

\* history: "none" while a tunnel is up, else what the drop has met with: "bare"
\* nothing yet, "held" an armed hold, "heldOver" an armed hold while a refusal from
\* before the drop was standing, "answered" an automatic window.
VARIABLE drop

dropVars == <<vars, drop>>

DropInit == Init /\ drop = "none"

AutoWindowOpens == window # "auto" /\ window' = "auto"

\* The hold is met at the drop's own edge, where it is spent.
HoldSpent == tunnelUp /\ holdArmed /\ ~holdArmed'

RecordDrop ==
  drop' = CASE tunnelUp' \/ pc' = "down" -> "none"
            [] ~tunnelUp' /\ pc' # "down" /\ AutoWindowOpens -> "answered"
            [] ~tunnelUp' /\ pc' # "down" /\ ~AutoWindowOpens /\ HoldSpent ->
                 IF redialRefused THEN "heldOver" ELSE "held"
            [] OTHER -> IF tunnelUp THEN "bare" ELSE drop

DropNext == Next /\ RecordDrop

DropSpec == DropInit /\ [][DropNext]_dropVars

\* At most one automatic window per drop: a window that expired never re-opens by
\* itself, however its refusals, retries and holds were interleaved (the comment
\* on retryAutoWindow).
OneWindowPerDrop == [][AutoWindowOpens => drop # "answered"]_dropVars

\* The drop an armed hold met stays cut: no automatic window opens until a tunnel
\* is up again, unless a refusal from before the drop was still being retried.
HeldDropStaysCut == [][AutoWindowOpens => drop # "held"]_dropVars
=============================================================================
