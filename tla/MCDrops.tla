------------------------------ MODULE MCDrops -------------------------------
EXTENDS Drops
Auto == [redial |-> TRUE, liveness |-> TRUE, autoArm |-> TRUE]
OnlyAuto == {Auto}
=============================================================================
