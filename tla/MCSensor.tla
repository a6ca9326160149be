------------------------------ MODULE MCSensor ------------------------------
(* A small instance of Sensor for TLC: below zero and above, with fractions. *)
EXTENDS Sensor

Junction == <<-3, 401, 402>>
=============================================================================
