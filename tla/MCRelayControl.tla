--------------------------- MODULE MCRelayControl ---------------------------
(* Small instances of RelayControl for TLC.                                *)
EXTENDS RelayControl, TLC

CONSTANTS warm, hot

On == [set |-> ("pwr" :> TRUE @@ "temp" :> hot), valid |-> TRUE]
Stop == [set |-> ("pwr" :> FALSE @@ "temp" :> warm), valid |-> TRUE]
\* A document without pwr, one that decodes only in part, and no document.
TempOnly == [set |-> ("temp" :> warm), valid |-> TRUE]
HalfOn == [set |-> ("pwr" :> TRUE @@ "temp" :> warm), valid |-> FALSE]
Empty == [set |-> <<>>, valid |-> FALSE]

AllDocs == {On, Stop, TempOnly, HalfOn, Empty}
OnStop == {On, Stop}
TwoTemps == {warm, hot}
=============================================================================
