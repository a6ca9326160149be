------------------------------- MODULE Sensor -------------------------------
(***************************************************************************)
(* The sensor packages (src/pismoker/max31855, max31850) and ReadLoop,     *)
(* which reads them.  Each attempt of ReadLoop starts a goroutine that     *)
(* samples, and none of them ever ends; they and ReadLoop share sensorErr, *)
(* which has no lock, and currentReading, which has one.  max31855 keeps   *)
(* thousandths of a degree, max31850 degrees, and both give out what they  *)
(* keep divided by 1000.  To stay with integers currentReading counts      *)
(* quarters of the number the package keeps, a reading's C 1/4000 and its  *)
(* F 1/20000 of a degree.                                                  *)
(***************************************************************************)
EXTENDS Integers, Sequences

CONSTANTS
  Temps,       \* what the hot junction has, sample by sample, in quarter degrees
  Rates,       \* values of --sensor-sample-rate (ms)
  Probes,      \* how many sensors ds18b20.Sensors() may find
  MaxRetries,  \* f.MaxRetries in ReadLoop (10)
  Faults,      \* "sensor": a sample or an initialization may fail, for once or for good
  NoReading

Quarters == -8192 .. 8191  \* the fourteen bits of the MAX31855
Readings == [C : Int, F : Int]

ASSUME SensorAssumption ==
  /\ Temps \in Seq(Quarters) /\ Rates \subseteq Nat /\ Probes \subseteq Nat \ {0}
  /\ MaxRetries \in Nat /\ NoReading \notin Readings
  /\ (\E r \in Rates : r < 1000) => "sensor" \in Faults  \* no attempt succeeds

VARIABLES
  sensorType, sensorSampleRate, sensors,  \* the flags, and the devices there are
  dead,           \* the hardware never answers again
  samples,        \* samples taken so far
  sensorErr,      \* TRUE: an error is noted
  currentReading,
  sampler,        \* the goroutine of each attempt
  reader,         \* ReadLoop: Fed's states, "lockC", "checkF", "lockF", "down"
  retries,
  reading,        \* the reading ReadLoop is putting together
  sent            \* the last reading given to readings

flags == <<sensorType, sensorSampleRate, sensors>>
hardware == <<dead, samples>>
package == <<sensorErr, currentReading, sampler>>
loop == <<reader, retries, reading, sent>>
vars == <<flags, hardware, package, loop>>

Attempts == 1 .. MaxRetries + 1
Samplers == [pc : {"none", "wait", "sample", "good", "store"},
             probe : Nat \ {0}, sample : 0 .. Len(Temps)]
NothingRead == [C |-> 0, F |-> 0]

-----------------------------------------------------------------------------
(* The numbers *)

\* A conversion to int16, and to the bytes b & 0xfc and b & 0xf0.
Int16(x) == IF x % 65536 >= 32768 THEN (x % 65536) - 65536 ELSE x % 65536
Mask(b, low) == b - (b % low)

\* Mutant of Therm: without the conversion to int16, no temperature is negative.
ThermUnsigned(b0, b1) == ((b0 * 256 + Mask(b1, 4)) * 1000) \div 16

\* thermT and intT: bytes 0 and 1, and 2 and 3, of a frame, in thousandths of a
\* degree.
Therm(b0, b1) == (Int16(b0 * 256 + Mask(b1, 4)) * 1000) \div 16
Internal(b2, b3) == (Int16(b2 * 256 + Mask(b3, 16)) * 1000) \div 256

\* What the chip sends for q quarters of a degree, with the two low bits of the
\* second byte (reserved, fault) anything.
Frame(q, low) == LET raw == (4 * q) % 65536 IN <<raw \div 256, (raw % 256) + low>>

\* What ds18b20.Temperature gives for q quarters of a degree: degrees, here in
\* quarters.
Temperature(q) == q

\* The getters, of r quarters: r / 1000, and that * 9/5 + 32.
Celsius(r) == r
Farenheit(r) == 9 * r + 640000

-----------------------------------------------------------------------------
Init ==
  /\ sensorType \in {"max31855", "max31850"} /\ sensorSampleRate \in Rates
  /\ sensors \in Probes
  /\ dead = FALSE /\ samples = 0
  /\ sensorErr = FALSE /\ currentReading = 0
  /\ sampler = [a \in Attempts |-> [pc |-> "none", probe |-> 1, sample |-> 0]]
  /\ reader = "init" /\ retries = 0
  /\ reading = NothingRead /\ sent = NoReading

\* From then on a transaction fails or the fault bits are set: a bus that is all
\* zeros, which would pass for 0 degrees, is not meant.
HardwareDies ==
  /\ "sensor" \in Faults /\ ~dead
  /\ dead' = TRUE
  /\ UNCHANGED <<flags, samples, package, loop>>

-----------------------------------------------------------------------------
(* The goroutine of attempt a *)

\* Where it goes on: max31855 waits for the tick after a good sample only,
\* max31850 takes all its sensors on a tick, the failing ones too.
After(a, ok) ==
  LET probe == sampler[a].probe IN
  IF sensorType = "max31855" THEN [sampler[a] EXCEPT !.pc = IF ok THEN "wait" ELSE "sample"]
  ELSE IF probe < sensors THEN [sampler[a] EXCEPT !.pc = "sample", !.probe = probe + 1]
  ELSE [sampler[a] EXCEPT !.pc = "wait", !.probe = 1]

Tick(a) ==
  /\ sampler[a].pc = "wait"
  /\ sampler' = [sampler EXCEPT ![a].pc = "sample"]
  /\ UNCHANGED <<flags, hardware, sensorErr, currentReading, loop>>

\* Mutant of SampleFails: the error is logged and not noted.
SampleFailsUnnoted(a) ==
  /\ sampler[a].pc = "sample" /\ "sensor" \in Faults
  /\ sampler' = [sampler EXCEPT ![a] = After(a, FALSE)]
  /\ UNCHANGED <<flags, hardware, sensorErr, currentReading, loop>>

\* Tx or Temperature fails, or the frame tells of an open or shorted circuit.
SampleFails(a) ==
  /\ sampler[a].pc = "sample" /\ "sensor" \in Faults
  /\ sensorErr' = TRUE
  /\ sampler' = [sampler EXCEPT ![a] = After(a, FALSE)]
  /\ UNCHANGED <<flags, hardware, currentReading, loop>>

Sample(a) ==
  /\ sampler[a].pc = "sample" /\ ~dead /\ samples < Len(Temps)
  /\ samples' = samples + 1
  /\ sampler' = [sampler EXCEPT ![a].pc = "good", ![a].sample = samples']
  /\ UNCHANGED <<flags, dead, sensorErr, currentReading, loop>>

ClearError(a) ==
  /\ sampler[a].pc = "good"
  /\ sensorErr' = FALSE
  /\ sampler' = [sampler EXCEPT ![a].pc = "store"]
  /\ UNCHANGED <<flags, hardware, currentReading, loop>>

\* With internalReading, which nobody reads.
Store(a) ==
  /\ sampler[a].pc = "store"
  /\ LET q == Temps[sampler[a].sample]
     IN IF sensorType = "max31850" THEN currentReading' = Temperature(q)
        ELSE \E low \in 0 .. 3 : LET f == Frame(q, low)
                                 IN currentReading' = 4 * Therm(f[1], f[2])
  /\ sampler' = [sampler EXCEPT ![a] = After(a, TRUE)]
  /\ UNCHANGED <<flags, hardware, sensorErr, loop>>

-----------------------------------------------------------------------------
(* ReadLoop *)

\* Mutant of Retry: off by one.
RetryOnceMore ==
  /\ IF retries <= MaxRetries THEN retries' = retries + 1 /\ reader' = "init"
     ELSE UNCHANGED retries /\ reader' = "term"
  /\ reading' = NothingRead
  /\ UNCHANGED <<package, sent>>

\* The attempt has failed: another one, or the program is told to stop.
Retry ==
  /\ IF retries < MaxRetries THEN retries' = retries + 1 /\ reader' = "init"
     ELSE UNCHANGED retries /\ reader' = "term"
  /\ reading' = NothingRead
  /\ UNCHANGED <<package, sent>>

\* Mutant of Start: an attempt begins with the package as it was at first.
StartAnew(pc) ==
  /\ sampler' = [sampler EXCEPT ![retries + 1].pc = pc]
  /\ reader' = "loop" /\ currentReading' = 0
  /\ UNCHANGED <<sensorErr, retries, reading, sent>>

\* The goroutine runs, and begins at pc.
Start(pc) ==
  /\ sampler' = [sampler EXCEPT ![retries + 1].pc = pc]
  /\ reader' = "loop"
  /\ UNCHANGED <<sensorErr, currentReading, retries, reading, sent>>

\* The rate is too low, or the port does not open, or connect.
InitMax31855 ==
  /\ sensorType = "max31855"
  /\ \/ sensorSampleRate < 50 /\ Retry
     \/ sensorSampleRate >= 50 /\ "sensor" \in Faults /\ Retry
     \/ sensorSampleRate >= 50 /\ Start("sample")

\* When there is no list of sensors, log.Fatal ends the program.
InitMax31850 ==
  /\ sensorType = "max31850"
  /\ \/ sensorSampleRate < 1000 /\ Retry
     \/ /\ sensorSampleRate >= 1000 /\ "sensor" \in Faults
        /\ reader' = "down"
        /\ UNCHANGED <<package, retries, reading, sent>>
     \/ sensorSampleRate >= 1000 /\ Start("wait")

Connect ==
  /\ reader = "init"
  /\ InitMax31855 \/ InitMax31850
  /\ UNCHANGED <<flags, hardware>>

\* GetReadingCelsius: 0 and the error, or on to the lock.
CheckC ==
  /\ reader = "loop"
  /\ IF sensorErr THEN reading' = [reading EXCEPT !.C = 0] /\ reader' = "checkF"
     ELSE UNCHANGED reading /\ reader' = "lockC"
  /\ UNCHANGED <<flags, hardware, package, retries, sent>>

ReadC ==
  /\ reader = "lockC"
  /\ reading' = [reading EXCEPT !.C = Celsius(currentReading)] /\ reader' = "checkF"
  /\ UNCHANGED <<flags, hardware, package, retries, sent>>

\* Mutant of CheckF: its error is overwritten as CheckC's is.
CheckFOverwritten ==
  /\ reader = "checkF"
  /\ IF sensorErr THEN reading' = [reading EXCEPT !.F = 0] /\ reader' = "send"
     ELSE reader' = "lockF" /\ UNCHANGED reading
  /\ UNCHANGED <<flags, hardware, package, retries, sent>>

\* GetReadingFarenheit assigns the same err: CheckC's is not looked at.
CheckF ==
  /\ reader = "checkF"
  /\ IF sensorErr THEN Retry
     ELSE reader' = "lockF" /\ UNCHANGED <<package, retries, reading, sent>>
  /\ UNCHANGED <<flags, hardware>>

ReadF ==
  /\ reader = "lockF"
  /\ reading' = [reading EXCEPT !.F = Farenheit(currentReading)] /\ reader' = "send"
  /\ UNCHANGED <<flags, hardware, package, retries, sent>>

\* readings <- reading; the next reading starts from nothing.
Send ==
  /\ reader = "send"
  /\ sent' = reading /\ reading' = NothingRead /\ reader' = "loop"
  /\ UNCHANGED <<flags, hardware, package, retries>>

\* signalChan <- syscall.SIGTERM
Term ==
  /\ reader = "term" /\ reader' = "stopped"
  /\ UNCHANGED <<flags, hardware, package, retries, reading, sent>>

-----------------------------------------------------------------------------
Sampler(a) == Tick(a) \/ SampleFails(a) \/ Sample(a) \/ ClearError(a) \/ Store(a)
ReadLoop == Connect \/ CheckC \/ ReadC \/ CheckF \/ ReadF \/ Send \/ Term

Next == HardwareDies \/ (\E a \in Attempts : Sampler(a)) \/ ReadLoop

Spec == Init /\ [][Next]_vars

\* Tickers tick and transactions with the chip end.
FairSpec == Spec /\ WF_vars(ReadLoop) /\ \A a \in Attempts : WF_vars(Sampler(a))

-----------------------------------------------------------------------------
(* Properties *)

TypeOK ==
  /\ sensorType \in {"max31855", "max31850"} /\ sensorSampleRate \in Rates
  /\ sensors \in Probes
  /\ dead \in BOOLEAN /\ samples \in 0 .. Len(Temps)
  /\ sensorErr \in BOOLEAN /\ currentReading \in Int
  /\ sampler \in [Attempts -> Samplers]
  /\ reader \in {"init", "loop", "lockC", "checkF", "lockF", "send", "term",
                 "stopped", "down"}
  /\ retries \in 0 .. MaxRetries
  /\ reading \in Readings /\ sent \in Readings \cup {NoReading}

\* In 1/4000 of a degree, what becomes of sample n: with a max31855 the very
\* temperature that was there, but the max31850 package divides the degrees of its
\* driver by 1000 as if they were thousandths (max31850.go:44, 60, 69).
HandedOn(n) == IF sensorType = "max31855" THEN 1000 * Temps[n] ELSE Temps[n]
Taken == {HandedOn(n) : n \in 1 .. samples}

\* What ReadLoop hands on comes from a sample, sign and fraction included: with a
\* max31855 it is a temperature that was there, with a max31850 a thousandth of
\* one.  Or it is the 0 degrees of a package that has no sample yet; C also is 0
\* when its error went unseen because F's call had none (main.go:369-370).
Measured ==
  sent # NoReading =>
    /\ sent.C \in Taken \cup {0}
    /\ \E t \in Taken \cup {0} : sent.F = Farenheit(t)

FromSample(r) == r # NoReading /\ \E t \in Taken : r.F = Farenheit(t)

\* The 0 degrees of a package without a sample come at the beginning only, not
\* again after a failure and a new attempt (currentReading, InitMax31855).
StaysMeasured == [][FromSample(sent) => FromSample(sent)']_vars

\* A sensor that is gone for good ends the program, however many goroutines of
\* earlier attempts still write sensorErr (ReadLoop, main.go:387-391).
GivesUp == dead ~> (reader \in {"stopped", "down"})

\* The error is there to stay: nobody holds a good sample.
Broken == dead /\ sensorErr /\ \A a \in Attempts : sampler[a].pc # "good"

\* ReadLoop with its package is what Smoker takes it for: no reading once the
\* sensor is broken, MaxRetries attempts more and no other end than log.Fatal's.
feedSensor == IF Broken THEN "broken" ELSE "ok"
feedReader ==
  IF reader \in {"lockC", "checkF"} THEN "loop"
  ELSE IF reader = "lockF" THEN "send"
  ELSE IF reader = "down" THEN "init" ELSE reader
feedRetries == IF reader = "down" THEN 0 ELSE retries

Fed == INSTANCE SensorFeed
         WITH sensor <- feedSensor, reader <- feedReader, retries <- feedRetries
Feed == Fed!Spec

-----------------------------------------------------------------------------
(* The inductive invariant behind Measured and StaysMeasured.              *)

\* Who has a good sample has one that was taken.
Held ==
  \A a \in Attempts : sampler[a].pc \in {"good", "store"} => sampler[a].sample > 0

\* A goroutine belongs to an attempt that was begun.
Started ==
  \A a \in Attempts : sampler[a].pc # "none" =>
    a <= retries + 1 /\ (reader = "init" => a <= retries)

\* currentReading is 0 until the first sample is stored, and so is what is read.
CurrentTaken ==
  /\ currentReading \in Taken \cup {0}
  /\ reading.C \in Taken \cup {0}
  /\ reader = "send" => \E t \in Taken \cup {0} : reading.F = Farenheit(t)

\* Once a sample has been read, currentReading holds one.
SampleStays ==
  /\ \/ currentReading \in Taken
     \/ ~FromSample(sent) /\ (reader = "send" => ~FromSample(reading))
  /\ FromSample(sent) /\ reader = "send" => FromSample(reading)

IInv ==
  /\ TypeOK /\ \A a \in Attempts : sampler[a].sample <= samples
  /\ dead \/ sensorErr => "sensor" \in Faults
  /\ Started /\ Held /\ CurrentTaken /\ Measured /\ SampleStays
=============================================================================
