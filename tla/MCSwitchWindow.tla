--------------------------- MODULE MCSwitchWindow ---------------------------
EXTENDS SwitchWindow
Redials == [window |-> 3, budget |-> 3, interval |-> 4, minUptime |-> 2]
NoRedials == [window |-> 0, budget |-> 3, interval |-> 4, minUptime |-> 2]
WithOff == {Redials, NoRedials}
Long == [switch |-> 1, switchMax |-> 2, redialMax |-> 4, pauseMax |-> 3]
Short == [switch |-> 1, switchMax |-> 1, redialMax |-> 3, pauseMax |-> 0]
TwoCaps == {Long, Short}
=============================================================================
