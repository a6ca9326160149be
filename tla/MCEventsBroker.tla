--------------------------- MODULE MCEventsBroker ---------------------------
(* Small instances of EventsBroker for TLC.                                *)
EXTENDS EventsBroker

CONSTANTS c1, c2, c3, t1, t2

TwoClients == {c1, c2}
ThreeClients == {c1, c2, c3}
OneTopic == {t1}
TwoTopics == {t1, t2}

\* Every request for the one topic; or c3 for the second topic.
SameTopic == [c \in Clients |-> t1]
SplitTopics == [c \in Clients |-> IF c = c3 THEN t2 ELSE t1]
=============================================================================
