------------------------------ MODULE MCGuard -------------------------------
EXTENDS Guard
Auto == [redial |-> TRUE, liveness |-> TRUE, autoArm |-> TRUE]
Plain == [redial |-> FALSE, liveness |-> FALSE, autoArm |-> FALSE]
OneConfig == {Auto}
AutoOrPlain == {Auto, Plain}
=============================================================================
