------------------------------ MODULE MCSmoker ------------------------------
(* Small instances of Smoker for TLC.                                      *)
EXTENDS Smoker, TLC

CONSTANTS warm

On == [set |-> ("pwr" :> TRUE), valid |-> TRUE]
Stop == [set |-> ("pwr" :> FALSE), valid |-> TRUE]

OnStop == {On, Stop}
\* The hub's {"error": ...}, which decodes and sets nothing (the status is not
\* looked at).
JustErrors == {[set |-> <<>>, valid |-> TRUE]}
OneTemp == {warm}
=============================================================================
