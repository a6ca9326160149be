------------------------------- MODULE Smoker -------------------------------
(***************************************************************************)
(* RelayControl with the goroutines that bring PidLoop its readings        *)
(* (src/pismoker/main.go):                                                 *)
(*   ReadLoop -> readings -> Fanout -> PublishEvents' reads -> http.Post   *)
(*                              \---> PidLoop's reads                      *)
(* Fanout sends to one listener after the other and every channel is       *)
(* bounded, so that whoever is slow holds up the rest.  Readings are       *)
(* counted, their values are RelayControl's free choice of update.         *)
(***************************************************************************)
EXTENDS Naturals

CONSTANTS
  Docs, Temps, NoTemp, NoDoc, ControlCap, MaxPinErrs, MaxRestarts, Faults,
  ReadingsCap, \* capacity of readings (1000)
  PubCap,      \* capacity of PublishEvents' reads (1000)
  PidCap,      \* capacity of PidLoop's reads (100)
  MaxRetries   \* f.MaxRetries in ReadLoop (10)

VARIABLES
  config, asked, relay, pinErrs, process, restarts, poll, body, todo,
  controlState, powered, pid, pidControl, setpoint, update,
  controlChan, signalChan, finalizer,
  sensor, reader, retries, \* as in SensorFeed
  fan,      \* Fanout: "idle", or the listener the reading goes to next
  pub,      \* PublishEvents: "recv" or "post"
  readings, pubReads, pidReads  \* elements in the channels

RC == INSTANCE RelayControl
SF == INSTANCE SensorFeed

ASSUME PipelineAssumption ==
  /\ ReadingsCap \in Nat \ {0} /\ PubCap \in Nat \ {0} /\ PidCap \in Nat \ {0}
  /\ MaxRetries \in Nat
  /\ RC!DocsAssumption /\ RC!ControlAssumption

relayVars == <<config, asked, relay, pinErrs, process, restarts, poll, body, todo,
               controlState, powered, pid, pidControl, setpoint, update,
               controlChan, signalChan, finalizer>>
channels == <<fan, pub, readings, pubReads, pidReads>>
pipeline == <<reader, retries, channels>>
vars == <<relayVars, sensor, pipeline>>

Init ==
  /\ RC!Init
  /\ SF!Init
  /\ fan = "idle" /\ pub = "recv"
  /\ readings = 0 /\ pubReads = 0 /\ pidReads = 0

-----------------------------------------------------------------------------
(* The sensor and the process *)

SensorBreaks ==
  /\ process = "run" /\ SF!Breaks
  /\ UNCHANGED <<relayVars, channels>>

Ends ==
  /\ RC!Exit \/ RC!Crash
  /\ SF!Ends
  /\ fan' = "idle" /\ pub' = "recv"
  /\ readings' = 0 /\ pubReads' = 0 /\ pidReads' = 0

Restart == RC!Restart /\ UNCHANGED <<sensor, pipeline>>

-----------------------------------------------------------------------------
(* ReadLoop *)

ReaderInit ==
  /\ process = "run" /\ SF!InitSensor
  /\ UNCHANGED <<relayVars, channels>>

ReadSensor ==
  /\ process = "run" /\ SF!Read
  /\ UNCHANGED <<relayVars, channels>>

SendReading ==
  /\ process = "run" /\ readings < ReadingsCap /\ SF!Send
  /\ readings' = readings + 1
  /\ UNCHANGED <<relayVars, fan, pub, pubReads, pidReads>>

\* signalChan <- syscall.SIGTERM
ReaderTerm ==
  /\ SF!Term /\ RC!Signal
  /\ UNCHANGED channels

-----------------------------------------------------------------------------
(* Fanout, in the order of listeners, and PublishEvents *)

FanTake ==
  /\ process = "run" /\ fan = "idle" /\ readings > 0
  /\ readings' = readings - 1 /\ fan' = "pub"
  /\ UNCHANGED <<relayVars, sensor, reader, retries, pub, pubReads, pidReads>>

FanPub ==
  /\ process = "run" /\ fan = "pub" /\ pubReads < PubCap
  /\ pubReads' = pubReads + 1 /\ fan' = "pid"
  /\ UNCHANGED <<relayVars, sensor, reader, retries, pub, readings, pidReads>>

FanPid ==
  /\ process = "run" /\ fan = "pid" /\ pidReads < PidCap
  /\ pidReads' = pidReads + 1 /\ fan' = "idle"
  /\ UNCHANGED <<relayVars, sensor, reader, retries, pub, readings, pubReads>>

PubTake ==
  /\ process = "run" /\ pub = "recv" /\ pubReads > 0
  /\ pubReads' = pubReads - 1 /\ pub' = "post"
  /\ UNCHANGED <<relayVars, sensor, reader, retries, fan, readings, pidReads>>

\* http.Post returns, with an answer or an error.
PostEnds ==
  /\ process = "run" /\ pub = "post"
  /\ pub' = "recv"
  /\ UNCHANGED <<relayVars, sensor, reader, retries, fan, readings, pubReads, pidReads>>

\* PidLoop: case reading := <-reads
PidReading ==
  /\ pidReads > 0 /\ RC!PidReading
  /\ pidReads' = pidReads - 1
  /\ UNCHANGED <<sensor, reader, retries, fan, pub, readings, pubReads>>

-----------------------------------------------------------------------------
Alone(A) == A /\ UNCHANGED <<sensor, pipeline>>
OutsideSignal == "signal" \in Faults /\ Alone(RC!Signal)
ReadLoop == ReaderInit \/ ReadSensor \/ SendReading \/ ReaderTerm
Fanout == FanTake \/ FanPub \/ FanPid

Next ==
  \/ Alone(RC!Steps) \/ OutsideSignal \/ SensorBreaks \/ Ends \/ Restart
  \/ ReadLoop \/ Fanout \/ PubTake \/ PostEnds \/ PidReading

Spec == Init /\ [][Next]_vars

\* Goroutines are scheduled, GETs are answered some time, and PidLoop's select,
\* which chooses at random, leaves none of its ready cases out for ever.
Fairness ==
  /\ WF_vars(Alone(RC!PollRunState)) /\ WF_vars(Alone(RC!PidBusy))
  /\ WF_vars(RC!Exit /\ Ends)
  /\ WF_vars(ReadLoop) /\ WF_vars(Fanout) /\ WF_vars(PubTake)
  /\ SF_vars(Alone(RC!PidPwr)) /\ SF_vars(Alone(RC!PidSignal)) /\ SF_vars(PidReading)

\* The hub answers every POST some time: http.Post has no timeout of its own.
FairSpec == Spec /\ Fairness /\ WF_vars(PostEnds)

-----------------------------------------------------------------------------
(* Properties *)

\* Of the goroutines around PidLoop; its own are in RC!TypeOK.
TypeOK ==
  /\ SF!TypeOK
  /\ fan \in {"idle", "pub", "pid"} /\ pub \in {"recv", "post"}
  /\ readings \in 0 .. ReadingsCap
  /\ pubReads \in 0 .. PubCap /\ pidReads \in 0 .. PidCap

\* "take control of a device and turn it on/off" (README.md, Control Hub): when
\* the hub keeps a document that turns the power off, the relay goes low for
\* good, unless the process is down.
PowerOffWorks ==
  <>[]RC!ClearsPower(config) => <>[](relay = "low" \/ process # "run")

\* A signal ends the process, whatever PidLoop is busy with, and a sensor that is
\* broken for good does (ReadLoop's retries and its SIGTERM to itself), so that
\* the relay is not left to an old reading.
Stops ==
  (process = "run" /\ (signalChan = 1 \/ sensor = "broken")) ~> (process # "run")
=============================================================================
