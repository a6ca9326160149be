------------------------------- MODULE MCHubs -------------------------------
(* A small instance of Hubs for TLC.                                       *)
EXTENDS Hubs

CONSTANTS d1, c1

OneDevice == {d1}
OneClient == {c1}
OfFirst == [c \in Clients |-> d1]
=============================================================================
