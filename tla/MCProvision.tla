---------------------------- MODULE MCProvision ----------------------------
(* Small instances of Provision for TLC.                                   *)
EXTENDS Provision

CONSTANTS ann, bob

TwoCreds == {ann, bob}
=============================================================================
