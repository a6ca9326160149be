----------------------------- MODULE Provision -----------------------------
(***************************************************************************)
(* How a smoker gets its owner and its network (src/pismoker/gatt.go, and  *)
(* main up to the reading of the configuration): phones write a line of    *)
(* JSON over Bluetooth, startGatt's loop hands it to SetupConfig, answers  *)
(* on the channel state and, after a success, stops itself.  The           *)
(* configuration file and wpa_supplicant.conf outlive the process.         *)
(* A line is what it says, its credentials; it arrives in two chunks, and  *)
(* what an interrupted line leaves in the buffer spoils the next.          *)
(***************************************************************************)
EXTENDS Naturals, Sequences

CONSTANTS
  Creds,       \* contents of a line: network, password and owner
  None,        \* no credentials
  Spoiled,     \* contents that are no JSON
  StateCap,    \* capacity of state (10)
  Phones,      \* connections, numbered from 1 in the order they are made
  MaxLines,    \* bound: how many lines the phones begin
  MaxFails,    \* bound: how many steps of SetupConfig fail
  MaxRestarts  \* bound: how often the service is started again

ASSUME CredsAssumption == None \notin Creds /\ Spoiled \notin Creds /\ None # Spoiled
ASSUME ProvisionAssumption ==
  /\ StateCap \in Nat \ {0} /\ Phones \in Nat
  /\ MaxLines \in Nat /\ MaxFails \in Nat /\ MaxRestarts \in Nat

VARIABLES
  \* on disk
  file,      \* "absent" or "made": the configuration file
  docs,      \* the documents in it
  wpa,       \* wpa_supplicant.conf: credentials, None, or Spoiled (truncated)
  \* the service manager
  process,   \* "boot", "gatt" (in startGatt), "smoking" (past it) or "down"
  restarts,
  \* the process
  machineConfig, \* the credentials whose owner it took from the file, or None
  loop,      \* startGatt: "select", where in SetupConfig, "answer" or "stop"
  buffer,    \* the line so far: None, credentials or Spoiled
  answer,    \* SetupConfig's result
  state, stop,   \* channels: answers, and 0 or 1 tokens
  chunk,     \* phone -> the chunk its write handler is sending on dataStream
  line,      \* phone -> the line it is in the midst of
  notifier,  \* phone -> its notification goroutine waits on state
  \* the phones
  connected, \* the phone now connected, or 0
  made,      \* how many have been
  lines, fails,
  told       \* some phone has been told that the device is configured

disk    == <<file, docs, wpa>>
service == <<process, restarts, machineConfig>>
gatt    == <<loop, buffer, answer>>
air     == <<connected, made>>
writing == <<chunk, line>>
bounds  == <<lines, fails>>
vars == <<disk, service, gatt, state, stop, writing, notifier, air, bounds, told>>

Phone == 1 .. Phones

Fresh ==
  /\ machineConfig = None /\ loop = "select" /\ buffer = None /\ answer = FALSE
  /\ state = <<>> /\ stop = 0
  /\ chunk = [p \in Phone |-> "none"] /\ line = [p \in Phone |-> None]
  /\ notifier = [p \in Phone |-> FALSE] /\ connected = 0

\* The process ends and its memory and its connections with it.
Forget ==
  /\ machineConfig' = None /\ loop' = "select" /\ buffer' = None /\ answer' = FALSE
  /\ state' = <<>> /\ stop' = 0
  /\ chunk' = [p \in Phone |-> "none"] /\ line' = [p \in Phone |-> None]
  /\ notifier' = [p \in Phone |-> FALSE] /\ connected' = 0

Init ==
  /\ file = "absent" /\ docs = <<>> /\ wpa = None
  /\ process = "boot" /\ restarts = 0
  /\ Fresh
  /\ made = 0 /\ lines = 0 /\ fails = 0 /\ told = FALSE

-----------------------------------------------------------------------------
(* main and the service manager *)

\* What toml.Unmarshal, whose error is ignored, makes of the file: a second
\* document defines every key twice, and that is an error.
Parsed == IF Len(docs) = 1 THEN docs[1] ELSE None

\* The file is there: no provisioning.
Boot ==
  /\ process = "boot" /\ file = "made"
  /\ process' = "smoking" /\ machineConfig' = Parsed
  /\ UNCHANGED <<disk, restarts, gatt, state, stop, writing, notifier, air, bounds, told>>

\* The file is made before anything is known to go into it.
BootNew ==
  /\ process = "boot" /\ file = "absent"
  /\ file' = "made" /\ process' = "gatt"
  /\ UNCHANGED <<docs, wpa, restarts, machineConfig, gatt, state, stop, writing, notifier,
                 air, bounds, told>>

\* startGatt fails to open the device (log.Fatal), or any crash.
Crash ==
  /\ process # "down" /\ restarts < MaxRestarts
  /\ process' = "down" /\ Forget
  /\ UNCHANGED <<disk, restarts, made, bounds, told>>

\* Restart=always in pismoker.service.
Restart ==
  /\ process = "down"
  /\ process' = "boot" /\ restarts' = restarts + 1
  /\ UNCHANGED <<disk, machineConfig, gatt, state, stop, writing, notifier, air, bounds, told>>

-----------------------------------------------------------------------------
(* Phones *)

\* startGatt stops only the advertising: who is connected stays so.
Connect ==
  /\ process = "gatt" /\ connected = 0 /\ made < Phones
  /\ made' = made + 1 /\ connected' = made + 1
  /\ UNCHANGED <<disk, service, gatt, state, stop, writing, notifier, bounds, told>>

\* A handler that is sending a chunk goes on, the rest of the line never comes.
Disconnect ==
  /\ connected # 0
  /\ connected' = 0
  /\ UNCHANGED <<disk, service, gatt, state, stop, writing, notifier, made, bounds, told>>

WriteHead(p, c) ==
  /\ connected = p /\ line[p] = None /\ lines < MaxLines
  /\ lines' = lines + 1
  /\ line' = [line EXCEPT ![p] = c] /\ chunk' = [chunk EXCEPT ![p] = "head"]
  /\ UNCHANGED <<disk, service, gatt, state, stop, notifier, air, fails, told>>

WriteTail(p) ==
  /\ connected = p /\ line[p] # None /\ chunk[p] = "none"
  /\ chunk' = [chunk EXCEPT ![p] = "tail"]
  /\ UNCHANGED <<disk, service, gatt, state, stop, line, notifier, air, bounds, told>>

\* The read characteristic takes an answer if there is one.
Read ==
  /\ connected # 0 /\ state # <<>>
  /\ state' = Tail(state) /\ told' = (told \/ Head(state))
  /\ UNCHANGED <<disk, service, gatt, stop, writing, notifier, air, bounds>>

Subscribe(p) ==
  /\ connected = p /\ ~notifier[p]
  /\ notifier' = [notifier EXCEPT ![p] = TRUE]
  /\ UNCHANGED <<disk, service, gatt, state, stop, writing, air, bounds, told>>

\* A notification goroutine takes an answer; it looks at Done() only between
\* two receives, so that the answer is lost on a phone that has left.
Notify(p) ==
  /\ notifier[p] /\ state # <<>>
  /\ state' = Tail(state)
  /\ told' = (told \/ (connected = p /\ Head(state)))
  /\ notifier' = [notifier EXCEPT ![p] = (connected = p)]
  /\ UNCHANGED <<disk, service, gatt, stop, writing, air, bounds>>

-----------------------------------------------------------------------------
(* startGatt's loop; the select takes from any handler, or from stop *)

ReceiveHead(p) ==
  /\ process = "gatt" /\ loop = "select" /\ chunk[p] = "head"
  /\ buffer' = IF buffer = None THEN line[p] ELSE Spoiled
  /\ chunk' = [chunk EXCEPT ![p] = "none"]
  /\ UNCHANGED <<disk, service, loop, answer, state, stop, line, notifier, air, bounds, told>>

\* The newline: the line goes to SetupConfig.
ReceiveTail(p) ==
  /\ process = "gatt" /\ loop = "select" /\ chunk[p] = "tail"
  /\ buffer' = IF buffer = line[p] THEN buffer ELSE Spoiled
  /\ chunk' = [chunk EXCEPT ![p] = "none"] /\ line' = [line EXCEPT ![p] = None]
  /\ loop' = "parse"
  /\ UNCHANGED <<disk, service, answer, state, stop, notifier, air, bounds, told>>

\* SetupConfig returns.
Returns(result) == loop' = "answer" /\ answer' = result
\* A step of it fails although nothing is wrong with the line.
Fails == fails < MaxFails /\ fails' = fails + 1 /\ Returns(FALSE)

\* Parsing, the serial number, the host name.
Parse ==
  /\ process = "gatt" /\ loop = "parse"
  /\ \/ buffer # Spoiled /\ loop' = "append" /\ UNCHANGED <<answer, fails>>
     \/ buffer = Spoiled /\ Returns(FALSE) /\ UNCHANGED fails
     \/ Fails
  /\ UNCHANGED <<disk, service, buffer, state, stop, writing, notifier, air, lines, told>>

\* Mutant of AfterWrite: the error is not looked at.
AfterWriteUnchecked(failed, next) == loop' = next /\ UNCHANGED answer

\* Writing a file has failed, or not.
AfterWrite(failed, next) ==
  IF failed THEN Returns(FALSE) ELSE loop' = next /\ UNCHANGED answer

\* The document is written behind what the file has already.
AppendDocument ==
  /\ process = "gatt" /\ loop = "append"
  /\ \/ docs' = Append(docs, buffer) /\ AfterWrite(FALSE, "wpa") /\ UNCHANGED fails
     \/ /\ fails < MaxFails /\ fails' = fails + 1
        /\ UNCHANGED docs /\ AfterWrite(TRUE, "wpa")
  /\ UNCHANGED <<file, wpa, service, buffer, state, stop, writing, notifier, air, lines, told>>

\* ioutil.WriteFile truncates, then writes.
WriteWpa ==
  /\ process = "gatt" /\ loop = "wpa"
  /\ \/ wpa' = buffer /\ AfterWrite(FALSE, "test") /\ UNCHANGED fails
     \/ /\ fails < MaxFails /\ fails' = fails + 1
        /\ wpa' \in {wpa, Spoiled} /\ AfterWrite(TRUE, "test")
  /\ UNCHANGED <<file, docs, service, buffer, state, stop, writing, notifier, air, lines, told>>

\* wpa_cli reconfigure, and the attempts of testNetwork.
TestNetwork ==
  /\ process = "gatt" /\ loop = "test"
  /\ \/ Returns(TRUE) /\ UNCHANGED fails
     \/ Fails
  /\ UNCHANGED <<disk, service, buffer, state, stop, writing, notifier, air, lines, told>>

StateHasRoom == Len(state) < StateCap

\* state <- data, and after a failure buffer.Reset().
Answer ==
  /\ process = "gatt" /\ loop = "answer" /\ StateHasRoom
  /\ state' = Append(state, answer)
  /\ IF answer THEN loop' = "stop" /\ UNCHANGED buffer
     ELSE loop' = "select" /\ buffer' = None
  /\ UNCHANGED <<disk, service, answer, stop, writing, notifier, air, bounds, told>>

\* Mutant of Halt: the loop is not told to stop.
HaltForgotten == UNCHANGED stop

\* stop <- true, which waits while an earlier token is there: the loop itself
\* would have to take it.
Halt == stop = 0 /\ stop' = 1

SendStop ==
  /\ process = "gatt" /\ loop = "stop"
  /\ Halt
  /\ loop' = "select" /\ buffer' = None
  /\ UNCHANGED <<disk, service, answer, state, writing, notifier, air, bounds, told>>

\* case <-stop: startGatt returns and main reads the file.
TakeStop ==
  /\ process = "gatt" /\ loop = "select" /\ stop = 1
  /\ stop' = 0
  /\ process' = "smoking" /\ machineConfig' = Parsed
  /\ UNCHANGED <<disk, restarts, gatt, state, writing, notifier, air, bounds, told>>

-----------------------------------------------------------------------------
Setup == Parse \/ AppendDocument \/ WriteWpa \/ TestNetwork \/ Answer \/ SendStop
Receive == \E p \in Phone : ReceiveHead(p) \/ ReceiveTail(p)
Use == \E p \in Phone :
  \/ \E c \in Creds : WriteHead(p, c)
  \/ WriteTail(p) \/ Subscribe(p) \/ Notify(p)

Next ==
  \/ Boot \/ BootNew \/ Crash \/ Restart
  \/ Connect \/ Disconnect \/ Use \/ Read
  \/ Receive \/ Setup \/ TakeStop

Spec == Init /\ [][Next]_vars

\* The loop is scheduled; nothing is asked of the phones.
FairSpec ==
  /\ Spec
  /\ WF_vars(Setup) /\ WF_vars(Receive) /\ SF_vars(TakeStop)

-----------------------------------------------------------------------------
(* Properties *)

TypeOK ==
  /\ file \in {"absent", "made"} /\ docs \in Seq(Creds)
  /\ wpa \in Creds \cup {None, Spoiled}
  /\ process \in {"boot", "gatt", "smoking", "down"} /\ restarts \in 0 .. MaxRestarts
  /\ process = "down" => restarts < MaxRestarts
  /\ machineConfig \in Creds \cup {None}
  /\ loop \in {"select", "parse", "append", "wpa", "test", "answer", "stop"}
  /\ buffer \in Creds \cup {None, Spoiled} /\ answer \in BOOLEAN
  /\ loop = "parse" => buffer # None
  /\ loop \in {"append", "wpa", "test"} => buffer \in Creds
  /\ state \in Seq(BOOLEAN) /\ Len(state) <= StateCap /\ stop \in 0 .. 1
  /\ chunk \in [Phone -> {"none", "head", "tail"}]
  /\ line \in [Phone -> Creds \cup {None}]
  /\ \A p \in Phone : chunk[p] # "none" => line[p] # None
  /\ notifier \in [Phone -> BOOLEAN]
  /\ connected \in 0 .. Phones /\ made \in 0 .. Phones
  /\ lines \in 0 .. MaxLines /\ fails \in 0 .. MaxFails /\ told \in BOOLEAN

\* A phone is told "configured", perhaps by an answer meant for another, and only
\* one line came as far as the file: then owner and network on disk are that
\* line's, and every process from then on runs with them, whatever crashes.
FirstTryHolds ==
  told /\ Len(docs) = 1 =>
    /\ wpa = docs[1]
    /\ process = "smoking" => machineConfig = docs[1]

\* The network never belongs to someone the configuration file does not name,
\* even if the process dies between the two writes.
NetworkHasOwner == wpa \in Creds => \E i \in 1 .. Len(docs) : docs[i] = wpa

\* A success ends the provisioning even if phones go on writing, unless a second
\* line comes as far as the file or nobody makes room for answers any more.
SuccessEnds ==
  [](Len(docs) <= 1) /\ []<>(Len(state) < StateCap) =>
    (process = "gatt" /\ loop = "stop") ~> (process # "gatt")

\* "WifiCreds store creds to setup wifi and user" (gatt.go:64): when the last line
\* was a success, the smoker runs with a user.
SuccessHasOwner == process = "smoking" /\ answer => machineConfig # None

-----------------------------------------------------------------------------
(* The inductive invariant behind FirstTryHolds and NetworkHasOwner (proved *)
(* in ProvisionProofs).                                                     *)

\* A success has been told, is on its way, or has just come about.
Succeeded ==
  \/ told
  \/ \E i \in 1 .. Len(state) : state[i]
  \/ loop = "answer" /\ answer
  \/ loop = "stop" \/ stop = 1

\* Where SetupConfig is, its document is the file's last.
Appended ==
  /\ loop \in {"wpa", "test"} => docs # <<>> /\ docs[Len(docs)] = buffer
  /\ loop = "test" => wpa = buffer

\* An earlier success had a document of its own.
Stored ==
  /\ Succeeded => docs # <<>> /\ (Len(docs) = 1 => wpa = docs[1])
  /\ Succeeded /\ loop = "wpa" => Len(docs) > 1

Configured == process = "smoking" => machineConfig = Parsed

IInv == TypeOK /\ NetworkHasOwner /\ Appended /\ Stored /\ Configured
=============================================================================
