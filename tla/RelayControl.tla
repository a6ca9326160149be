---------------------------- MODULE RelayControl ----------------------------
(***************************************************************************)
(* The smoker controller (src/pismoker/main.go) from the configuration to  *)
(* the relay.  PollRunState fetches the configuration and shares it through *)
(* the global controlState, sending its address on controlChan; PidLoop    *)
(* sets the relay; main waits for finalizer and exits; the service manager *)
(* starts the process again.                                               *)
(* A configuration is a JSON document that may leave fields out or hold a  *)
(* field that does not decode.  Readings may reach PidLoop at any time     *)
(* (Smoker adds the goroutines that bring them), and what pid.Update makes *)
(* of a temperature is a free choice.                                      *)
(***************************************************************************)
EXTENDS Naturals

CONSTANTS
  Docs,        \* documents the hub may serve: [set: fields given, valid: decodes]
  Temps,       \* set points
  NoTemp,      \* the zero value of controlState.Temp
  NoDoc,       \* no document at hand
  ControlCap,  \* capacity of controlChan (5)
  MaxPinErrs,  \* bound: how often p.Out may fail
  MaxRestarts, \* bound: how often the service is started again
  Faults       \* which may happen: "crash"; in Smoker "sensor", "signal" from outside

Fields == {"pwr", "temp"}
State == [pwr : BOOLEAN, temp : Temps \cup {NoTemp}]
Off == [pwr |-> FALSE, temp |-> NoTemp]

ASSUME DocsAssumption ==
  /\ NoDoc \notin Docs
  /\ \A d \in Docs :
       /\ d.valid \in BOOLEAN
       /\ DOMAIN d.set \subseteq Fields
       /\ "pwr" \in DOMAIN d.set => d.set["pwr"] \in BOOLEAN
       /\ "temp" \in DOMAIN d.set => d.set["temp"] \in Temps
ASSUME ControlAssumption ==
  /\ ControlCap \in Nat \ {0} /\ MaxPinErrs \in Nat /\ MaxRestarts \in Nat
  /\ Faults \subseteq {"signal", "crash", "sensor"}

VARIABLES
  \* the hub, the relay and the service manager
  config,       \* the document GET would return now
  asked,        \* some document the hub has had so far turns the power on
  relay,        \* the pin's level; it outlives the process
  pinErrs,      \* failures of p.Out so far
  process,      \* "run", "exited" (os.Exit) or "crashed"
  restarts,
  \* PollRunState
  poll,         \* "idle", "spoiled" (idle after a failed decoding), "decode", "send"
  body, todo,   \* the document received and its fields still to be decoded
  controlState, \* the global
  powered,      \* the run state that published readings carry
  \* PidLoop
  pid,          \* in the select, or where in the case it took
  pidControl,   \* its own controlState, which hides the global
  setpoint,     \* of the PID controller
  update,       \* what pid.Update said: nothing ("zero") or more ("heat")
  \* channels: how many elements each holds
  controlChan, signalChan, finalizer

outside  == <<config, asked, process, restarts>>
pin      == <<relay, pinErrs>>
poller   == <<poll, body, todo, controlState, powered>>
pidVars  == <<pid, pidControl, setpoint, update>>
channels == <<controlChan, signalChan, finalizer>>
vars == <<outside, pin, poller, pidVars, channels>>

\* The memory of a process that starts.
Fresh ==
  /\ poll = "idle" /\ body = NoDoc /\ todo = {}
  /\ controlState = Off /\ powered = FALSE
  /\ pid = "select" /\ pidControl = Off /\ setpoint = NoTemp /\ update = "zero"
  /\ controlChan = 0 /\ signalChan = 0 /\ finalizer = 0

\* The process ends and its memory with it.
Forget ==
  /\ poll' = "idle" /\ body' = NoDoc /\ todo' = {}
  /\ controlState' = Off /\ powered' = FALSE
  /\ pid' = "select" /\ pidControl' = Off /\ setpoint' = NoTemp /\ update' = "zero"
  /\ controlChan' = 0 /\ signalChan' = 0 /\ finalizer' = 0

SetsPower(doc) == "pwr" \in DOMAIN doc.set /\ doc.set["pwr"]
ClearsPower(doc) == "pwr" \in DOMAIN doc.set /\ ~doc.set["pwr"] /\ doc.valid

Init ==
  /\ config \in Docs /\ asked = SetsPower(config)
  /\ relay = "low" /\ pinErrs = 0
  /\ process = "run" /\ restarts = 0
  /\ Fresh

-----------------------------------------------------------------------------
(* The environment *)

SetConfig ==
  /\ process = "run"
  /\ config' \in Docs \ {config}
  /\ asked' = (asked \/ SetsPower(config'))
  /\ UNCHANGED <<process, restarts, pin, poller, pidVars, channels>>

\* An element for signalChan: SIGTERM or SIGINT, which signal.Notify drops when
\* the channel is full, or ReadLoop's own.
Signal ==
  /\ process = "run" /\ signalChan = 0
  /\ signalChan' = 1
  /\ UNCHANGED <<outside, pin, poller, pidVars, controlChan, finalizer>>

\* A panic, log.Fatal or SIGKILL: the memory is gone, the pin stays.
Crash ==
  /\ "crash" \in Faults /\ process = "run"
  /\ process' = "crashed" /\ Forget
  /\ UNCHANGED <<config, asked, restarts, pin>>

\* Restart=always in pismoker.service.
Restart ==
  /\ process # "run" /\ restarts < MaxRestarts
  /\ process' = "run" /\ restarts' = restarts + 1
  /\ UNCHANGED <<config, asked, pin, poller, pidVars, channels>>

-----------------------------------------------------------------------------
(* PollRunState.  A GET that fails leaves everything as it was.            *)

PollGet ==
  /\ process = "run" /\ poll \in {"idle", "spoiled"}
  /\ poll' = "decode" /\ body' = config /\ todo' = DOMAIN config.set
  /\ UNCHANGED <<outside, pin, controlState, powered, pidVars, channels>>

\* json.Unmarshal writes one field of the global.
DecodePwr ==
  /\ process = "run" /\ poll = "decode" /\ "pwr" \in todo
  /\ controlState' = [controlState EXCEPT !.pwr = body.set["pwr"]]
  /\ todo' = todo \ {"pwr"}
  /\ UNCHANGED <<outside, pin, poll, body, powered, pidVars, channels>>

DecodeTemp ==
  /\ process = "run" /\ poll = "decode" /\ "temp" \in todo
  /\ controlState' = [controlState EXCEPT !.temp = body.set["temp"]]
  /\ todo' = todo \ {"temp"}
  /\ UNCHANGED <<outside, pin, poll, body, powered, pidVars, channels>>

\* json.Unmarshal meets something else: the fields before it stay written.
DecodeFails ==
  /\ process = "run" /\ poll = "decode" /\ ~body.valid
  /\ poll' = "spoiled" /\ body' = NoDoc /\ todo' = {}
  /\ UNCHANGED <<outside, pin, controlState, powered, pidVars, channels>>

\* Mutant of AfterDecode: PidLoop is told only when the power changes.
AfterDecodePower == IF controlState.pwr = pidControl.pwr THEN "idle" ELSE "send"

\* Every configuration that decodes is passed on.
AfterDecode == "send"

\* Mutant of RunState: only ever turned on.
RunStateSticky == powered \/ controlState.pwr

\* powered.SetTo's argument
RunState == controlState.pwr

\* json.Unmarshal returns without an error.
DecodeDone ==
  /\ process = "run" /\ poll = "decode" /\ body.valid /\ todo = {}
  /\ powered' = RunState
  /\ poll' = AfterDecode /\ body' = NoDoc
  /\ UNCHANGED <<outside, pin, todo, controlState, pidVars, channels>>

ControlHasRoom == controlChan < ControlCap

\* controlChan <- &controlState
PollSend ==
  /\ process = "run" /\ poll = "send" /\ ControlHasRoom
  /\ poll' = "idle" /\ controlChan' = controlChan + 1
  /\ UNCHANGED <<outside, pin, body, todo, controlState, powered, pidVars, signalChan, finalizer>>

-----------------------------------------------------------------------------
(* PidLoop *)

\* case state := <-controlChan, in three steps: the global is read through the
\* pointer while PollRunState may be writing it.
PidPwr ==
  /\ process = "run" /\ pid = "select" /\ controlChan > 0
  /\ controlChan' = controlChan - 1
  /\ pidControl' = [pidControl EXCEPT !.pwr = controlState.pwr]
  /\ pid' = "apply"
  /\ UNCHANGED <<outside, pin, poller, setpoint, update, signalChan, finalizer>>

PidTemp ==
  /\ process = "run" /\ pid = "apply"
  /\ pidControl' = [pidControl EXCEPT !.temp = controlState.temp]
  /\ pid' = "set"
  /\ UNCHANGED <<outside, pin, poller, setpoint, update, channels>>

\* pid.Set reads it once more.
PidSet ==
  /\ process = "run" /\ pid = "set"
  /\ setpoint' = controlState.temp
  /\ pid' = "select"
  /\ UNCHANGED <<outside, pin, poller, pidControl, update, channels>>

\* case reading := <-reads
PidReading ==
  /\ process = "run" /\ pid = "select"
  /\ update' \in {"zero", "heat"}
  /\ pid' = "out"
  /\ UNCHANGED <<outside, pin, poller, pidControl, setpoint, channels>>

\* p.Out(level): it fails and leaves the pin alone, or not.
OutOK(level) == relay' = level /\ UNCHANGED pinErrs
OutFails == pinErrs < MaxPinErrs /\ pinErrs' = pinErrs + 1 /\ UNCHANGED relay

\* Mutant of Level: the power switch is not consulted.
LevelUnswitched == IF update = "heat" THEN "high" ELSE "low"

\* The relay's level for the last update.
Level == IF pidControl.pwr /\ update = "heat" THEN "high" ELSE "low"

\* The case is over and its local update with it.
Done == pid' = "select" /\ update' = "zero"

\* Mutant of ResetsPin: the pin is reset also when the power is off.
ResetsAnyPin == TRUE

\* A failing p.Out is followed by ResetPin only in the branches of power on.
ResetsPin == pidControl.pwr

PidOut ==
  /\ process = "run" /\ pid = "out"
  /\ \/ OutOK(Level) /\ Done
     \/ OutFails /\ IF ResetsPin THEN pid' = "reset" /\ UNCHANGED update ELSE Done
  /\ UNCHANGED <<outside, poller, pidControl, setpoint, channels>>

\* ResetPin: low, three seconds, high.
ResetLow ==
  /\ process = "run" /\ pid = "reset"
  /\ \/ OutOK("low") /\ pid' = "resetHigh" /\ UNCHANGED update
     \/ OutFails /\ Done
  /\ UNCHANGED <<outside, poller, pidControl, setpoint, channels>>

ResetHigh ==
  /\ process = "run" /\ pid = "resetHigh"
  /\ OutOK("high") \/ OutFails
  /\ Done
  /\ UNCHANGED <<outside, poller, pidControl, setpoint, channels>>

\* case <-signalChan
PidSignal ==
  /\ process = "run" /\ pid = "select" /\ signalChan = 1
  /\ signalChan' = 0
  /\ OutOK("low") \/ OutFails
  /\ pid' = "finish"
  /\ UNCHANGED <<outside, poller, pidControl, setpoint, update, controlChan, finalizer>>

\* finalizer <- true
Finish == finalizer = 0 /\ finalizer' = 1

\* The break leaves the select, not the loop.
PidFinish ==
  /\ process = "run" /\ pid = "finish"
  /\ Finish
  /\ pid' = "select"
  /\ UNCHANGED <<outside, pin, poller, pidControl, setpoint, update, controlChan, signalChan>>

\* main: <-finalizer, os.Exit
Exit ==
  /\ process = "run" /\ finalizer = 1
  /\ process' = "exited" /\ Forget
  /\ UNCHANGED <<config, asked, restarts, pin>>

-----------------------------------------------------------------------------
PollRunState == 
  \/ PollGet \/ DecodePwr \/ DecodeTemp \/ DecodeFails \/ DecodeDone \/ PollSend
PidBusy == PidTemp \/ PidSet \/ PidOut \/ ResetLow \/ ResetHigh \/ PidFinish
\* The steps that need nothing from ReadLoop and do not end the process.
Steps == SetConfig \/ PollRunState \/ PidPwr \/ PidBusy \/ PidSignal

Next == Steps \/ Signal \/ PidReading \/ Crash \/ Exit \/ Restart

Spec == Init /\ [][Next]_vars

-----------------------------------------------------------------------------
(* Properties *)

TypeOK ==
  /\ config \in Docs /\ asked \in BOOLEAN
  /\ relay \in {"low", "high"} /\ pinErrs \in 0 .. MaxPinErrs
  /\ process \in {"run", "exited", "crashed"} /\ restarts \in 0 .. MaxRestarts
  /\ poll \in {"idle", "spoiled", "decode", "send"}
  /\ body \in Docs \cup {NoDoc} /\ (poll = "decode" <=> body # NoDoc)
  /\ todo \subseteq Fields /\ (todo # {} => poll = "decode" /\ todo \subseteq DOMAIN body.set)
  /\ controlState \in State /\ powered \in BOOLEAN
  /\ pid \in {"select", "apply", "set", "out", "reset", "resetHigh", "finish"}
  /\ pidControl \in State /\ setpoint \in Temps \cup {NoTemp} /\ update \in {"zero", "heat"}
  /\ controlChan \in 0 .. ControlCap
  /\ signalChan \in 0 .. 1 /\ finalizer \in 0 .. 1

\* controlChan carries pointers to one global that is read while it is written:
\* still, once the polls that decoded are drained, PidLoop runs on the global's
\* contents and not on a mixture of two configurations.
ConfigConverges ==
  poll = "idle" /\ controlChan = 0 /\ pid \notin {"apply", "set"} =>
    pidControl = controlState /\ setpoint = controlState.temp

\* "Set the current machine run state" (main.go:229): once drained, published
\* readings say "running" just when PidLoop's power is on.
RunStateReported ==
  poll = "idle" /\ controlChan = 0 => powered = pidControl.pwr

\* Whatever is torn, reset, restarted or misdecoded on the way: the relay is
\* never on unless the hub has served a document that turns the power on.
HeatsOnlyOnDemand == relay = "high" => asked

\* Once PidLoop has taken a power-off, nothing it still does (an update, a
\* running ResetPin), no crash and no restart turns the relay on.
OffStaysOff ==
  [][~pidControl.pwr /\ relay = "low" => relay' = "low"]_vars

\* "Stop reading on SIGTERM, shutdown relay for safety" (main.go:325): a process
\* that has exited, with a pin that never failed, has left the relay low.
ExitsCold == process = "exited" /\ pinErrs = 0 => relay = "low"

-----------------------------------------------------------------------------
(* The inductive invariant behind ConfigConverges, HeatsOnlyOnDemand and   *)
(* OffStaysOff (proved in RelayControlProofs).                             *)

\* With nothing under way, PidLoop has copied the global, or is at it.
Drained ==
  poll = "idle" /\ controlChan = 0 =>
    /\ pidControl.pwr = controlState.pwr
    /\ pid # "apply" => pidControl.temp = controlState.temp
    /\ pid \notin {"apply", "set"} => setpoint = controlState.temp

\* powered lags behind the global only while a document is being decoded, or
\* after one that did not decode.
Reported == poll \in {"idle", "send"} => powered = controlState.pwr

\* ResetPin runs only while the power is on.
ResetPowered == pid \in {"reset", "resetHigh"} => pidControl.pwr

\* Wherever power is on, the hub has asked for it.
Demanded ==
  /\ SetsPower(config) => asked
  /\ body # NoDoc /\ SetsPower(body) => asked
  /\ controlState.pwr => asked
  /\ pidControl.pwr => asked
  /\ relay = "high" => asked

IInv == TypeOK /\ Drained /\ Reported /\ ResetPowered /\ Demanded
=============================================================================
