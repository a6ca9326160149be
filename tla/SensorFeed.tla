----------------------------- MODULE SensorFeed -----------------------------
(***************************************************************************)
(* What ReadLoop promises the pipeline behind it, whatever the sensor      *)
(* package does: readings while the sensor works, and an end after         *)
(* MaxRetries failed attempts more.  Smoker runs it, Sensor implements it. *)
(***************************************************************************)
EXTENDS Naturals

CONSTANTS
  MaxRetries,  \* f.MaxRetries (10)
  Faults       \* "sensor": it may fail

VARIABLES
  sensor,  \* "ok", or "broken": sensorErr stays set
  reader,  \* ReadLoop: "init", "loop", "send", "term" (gives up), "stopped"
  retries  \* attempts made again so far

vars == <<sensor, reader, retries>>

Init == sensor = "ok" /\ reader = "init" /\ retries = 0

TypeOK ==
  /\ sensor \in {"ok", "broken"}
  /\ reader \in {"init", "loop", "send", "term", "stopped"}
  /\ retries \in 0 .. MaxRetries

Breaks ==
  /\ "sensor" \in Faults /\ sensor = "ok"
  /\ sensor' = "broken" /\ UNCHANGED <<reader, retries>>

\* Mutant of Retry: a failing attempt is made again without end.
RetryForever == reader' = "init" /\ UNCHANGED retries

\* Mutant of Retry: off by one.
RetryOnceMore ==
  IF retries <= MaxRetries THEN retries' = retries + 1 /\ reader' = "init"
  ELSE UNCHANGED retries /\ reader' = "term"

\* The attempt has failed: another one, or the program is told to stop.
Retry ==
  IF retries < MaxRetries THEN retries' = retries + 1 /\ reader' = "init"
  ELSE UNCHANGED retries /\ reader' = "term"

InitSensor ==
  /\ reader = "init"
  /\ \/ reader' = "loop" /\ UNCHANGED retries
     \/ "sensor" \in Faults /\ Retry
  /\ UNCHANGED sensor

\* A tick finds sensorErr unset, or set for the moment or for good.
Read ==
  /\ reader = "loop"
  /\ \/ sensor = "ok" /\ reader' = "send" /\ UNCHANGED retries
     \/ "sensor" \in Faults /\ Retry
  /\ UNCHANGED sensor

Send == reader = "send" /\ reader' = "loop" /\ UNCHANGED <<sensor, retries>>
Term == reader = "term" /\ reader' = "stopped" /\ UNCHANGED <<sensor, retries>>

\* The process is gone, what comes next starts anew.
Ends == reader' = "init" /\ retries' = 0 /\ UNCHANGED sensor

Next == Breaks \/ InitSensor \/ Read \/ Send \/ Term \/ Ends

Spec == Init /\ [][Next]_vars
=============================================================================
