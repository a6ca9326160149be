---------------------------- MODULE SensorProofs ----------------------------
(***************************************************************************)
(* The conversion of the frames for every temperature the chips have, what *)
(* ReadLoop hands on, and that Sensor implements SensorFeed: for every     *)
(* number of attempts, probes and samples.                                 *)
(***************************************************************************)
EXTENDS Sensor, TLAPS

-----------------------------------------------------------------------------
(* The conversion *)

(* A word of sixteen bits is the number it was made from.                  *)
LEMMA Int16Inverse ==
  ASSUME NEW x \in Int, -32768 <= x, x < 32768
  PROVE  Int16(x % 65536) = x
<1>1. x % 65536 = IF x < 0 THEN x + 65536 ELSE x
  OBVIOUS
<1>2. (x % 65536) % 65536 = x % 65536
  BY <1>1
<1> QED
  BY <1>1, <1>2 DEF Int16

(* max31855.go:87-88: a frame of q quarters of a degree is read as q       *)
(* quarters, below zero too, whatever the reserved and the fault bit are.  *)
THEOREM ThermCorrect ==
  \A q \in Quarters, low \in 0 .. 3 :
    Therm(Frame(q, low)[1], Frame(q, low)[2]) = 250 * q
<1> SUFFICES ASSUME NEW q \in Quarters, NEW low \in 0 .. 3
             PROVE  Therm(Frame(q, low)[1], Frame(q, low)[2]) = 250 * q
  OBVIOUS
<1> DEFINE raw == (4 * q) % 65536
<1>0. q \in Int /\ -8192 <= q /\ q < 8192
  BY DEF Quarters
<1>1. /\ 4 * q \in Int /\ -32768 <= 4 * q /\ 4 * q < 32768
      /\ raw \in Nat /\ raw % 4 = 0
  BY <1>0
<1>2. Int16(raw) = 4 * q
  BY <1>1, Int16Inverse
<1> HIDE DEF raw
<1>3. (raw \div 256) * 256 + Mask((raw % 256) + low, 4) = raw
  <2>1. (raw % 256) % 4 = 0 /\ raw % 256 \in Nat
    BY <1>1
  <2>2. ASSUME NEW y \in Nat, y % 4 = 0 PROVE (y + low) % 4 = low
    BY <2>2
  <2>3. ((raw % 256) + low) % 4 = low
    BY <2>1, <2>2
  <2>4. Mask((raw % 256) + low, 4) = raw % 256
    BY <2>1, <2>3 DEF Mask
  <2>5. raw = 256 * (raw \div 256) + (raw % 256) /\ raw \div 256 \in Int
    BY <1>1
  <2> QED
    BY <2>1, <2>4, <2>5
<1>4. Therm(raw \div 256, (raw % 256) + low) = (4 * q * 1000) \div 16
  BY <1>2, <1>3 DEF Therm
<1>5. (4 * q * 1000) \div 16 = 250 * q
  BY <1>0
<1> QED
  BY <1>4, <1>5 DEF Frame, raw

(* max31855.go:81-82: the twelve bits of the internal temperature, in      *)
(* sixteenths of a degree, whatever the fault bits below them are.         *)
THEOREM InternalCorrect ==
  ASSUME NEW s \in -2048 .. 2047, NEW low \in 0 .. 15
  PROVE  LET raw == (16 * s) % 65536
         IN  Internal(raw \div 256, (raw % 256) + low) = (1000 * s) \div 16
<1> DEFINE raw == (16 * s) % 65536
<1>0. s \in Int /\ -2048 <= s /\ s < 2048
  OBVIOUS
<1>1. /\ 16 * s \in Int /\ -32768 <= 16 * s /\ 16 * s < 32768
      /\ raw \in Nat /\ raw % 16 = 0
  BY <1>0
<1>2. Int16(raw) = 16 * s
  BY <1>1, Int16Inverse
<1> HIDE DEF raw
<1>3. (raw \div 256) * 256 + Mask((raw % 256) + low, 16) = raw
  <2>1. (raw % 256) % 16 = 0 /\ raw % 256 \in Nat
    BY <1>1
  <2>2. ASSUME NEW y \in Nat, y % 16 = 0 PROVE (y + low) % 16 = low
    BY <2>2
  <2>3. ((raw % 256) + low) % 16 = low
    BY <2>1, <2>2
  <2>4. Mask((raw % 256) + low, 16) = raw % 256
    BY <2>1, <2>3 DEF Mask
  <2>5. raw = 256 * (raw \div 256) + (raw % 256) /\ raw \div 256 \in Int
    BY <1>1
  <2> QED
    BY <2>1, <2>4, <2>5
<1>4. Internal(raw \div 256, (raw % 256) + low) = (16 * s * 1000) \div 256
  BY <1>2, <1>3 DEF Internal
<1>5. (16 * s * 1000) \div 256 = (1000 * s) \div 16
  BY <1>0
<1> QED
  BY <1>4, <1>5 DEF raw

-----------------------------------------------------------------------------
(* The types, and the readings                                             *)

(* What a package stores is what it hands on of a sample that was taken.   *)
LEMMA StoredIsTaken ==
  ASSUME IInv, NEW a \in Attempts, Store(a)
  PROVE  currentReading' \in Taken
<1> DEFINE n == sampler[a].sample
<1>1. n \in 1 .. samples /\ Temps[n] \in Quarters
  BY SensorAssumption DEF Store, IInv, TypeOK, Held, Samplers
<1>2. currentReading' = HandedOn(n)
  <2>1. CASE sensorType = "max31850"
    BY <2>1 DEF Store, Temperature, HandedOn
  <2>2. CASE sensorType = "max31855"
    <3>1. PICK low \in 0 .. 3 :
            currentReading' = 4 * Therm(Frame(Temps[n], low)[1], Frame(Temps[n], low)[2])
      <4>1. \E low \in 0 .. 3 : LET f == Frame(Temps[n], low)
                                IN currentReading' = 4 * Therm(f[1], f[2])
        BY <2>2 DEF Store
      <4> QED
        BY <4>1
    <3>2. currentReading' = 4 * (250 * Temps[n])
      BY <1>1, <3>1, ThermCorrect
    <3>3. Temps[n] \in Int
      <4>1. \A q \in Quarters : q \in Int
        BY DEF Quarters
      <4> QED
        BY <1>1, <4>1
    <3>4. HandedOn(n) = 1000 * Temps[n]
      BY <2>2 DEF HandedOn
    <3>5. \A q \in Int : 4 * (250 * q) = 1000 * q
      OBVIOUS
    <3> QED
      BY <3>2, <3>3, <3>4, <3>5
  <2> QED
    BY <2>1, <2>2 DEF IInv, TypeOK
<1> QED
  BY <1>1, <1>2 DEF Taken

(* Samples are temperatures; those that were taken stay taken.             *)
LEMMA TakenFacts ==
  ASSUME IInv, samples' \in 0 .. Len(Temps), samples' >= samples, sensorType' = sensorType
  PROVE  Taken \subseteq Taken' /\ Taken' \subseteq Int
<1>1. ASSUME NEW n \in 1 .. samples' PROVE HandedOn(n)' \in Int
  <2>1. Temps[n] \in Quarters
    BY SensorAssumption
  <2>2. \A q \in Quarters : q \in Int
    BY DEF Quarters
  <2>3. Temps[n] \in Int
    BY <2>1, <2>2
  <2> QED
    BY <2>3 DEF HandedOn
<1>2. Taken' \subseteq Int
  BY <1>1 DEF Taken
<1>3. Taken \subseteq Taken'
  BY DEF Taken, HandedOn, IInv, TypeOK
<1> QED
  BY <1>2, <1>3

LEMMA TakenSame ==
  ASSUME UNCHANGED <<sensorType, samples>>
  PROVE  Taken' = Taken
<1>1. \A n \in 1 .. samples : HandedOn(n)' = HandedOn(n)
  BY DEF HandedOn
<1> QED
  BY <1>1 DEF Taken

(* Where a goroutine goes on is a state of one, without a good sample.     *)
LEMMA AfterType ==
  ASSUME IInv, NEW a \in Attempts, NEW ok \in BOOLEAN
  PROVE  /\ After(a, ok) \in Samplers
         /\ After(a, ok).pc \in {"wait", "sample"}
         /\ After(a, ok).sample = sampler[a].sample
<1> DEFINE probe == sampler[a].probe
<1>1. /\ sampler[a] \in Samplers /\ sensors \in Nat
      /\ probe \in Nat /\ probe + 1 \in Nat \ {0}
  BY SensorAssumption DEF IInv, TypeOK, Samplers
<1>2. CASE sensorType = "max31855"
  <2>1. After(a, ok) = [sampler[a] EXCEPT !.pc = IF ok THEN "wait" ELSE "sample"]
    BY <1>2 DEF After
  <2> QED
    BY <1>1, <2>1 DEF Samplers
<1>3. CASE sensorType # "max31855" /\ probe < sensors
  <2>1. After(a, ok) = [sampler[a] EXCEPT !.pc = "sample", !.probe = probe + 1]
    BY <1>3 DEF After
  <2> HIDE DEF probe
  <2>2. After(a, ok).pc = "sample" /\ After(a, ok).sample = sampler[a].sample
    BY <1>1, <2>1 DEF Samplers
  <2>3. After(a, ok) \in Samplers
    BY <1>1, <2>1 DEF Samplers
  <2> QED
    BY <2>2, <2>3
<1>4. CASE sensorType # "max31855" /\ ~(probe < sensors)
  <2>1. After(a, ok) = [sampler[a] EXCEPT !.pc = "wait", !.probe = 1]
    BY <1>4 DEF After
  <2>2. After(a, ok).pc = "wait" /\ After(a, ok).sample = sampler[a].sample
    BY <1>1, <2>1 DEF Samplers
  <2>3. After(a, ok) = [pc |-> "wait", probe |-> 1, sample |-> sampler[a].sample]
    BY <1>1, <2>1 DEF Samplers
  <2>4. After(a, ok) \in Samplers
    BY <1>1, <2>3 DEF Samplers
  <2> QED
    BY <2>2, <2>4
<1> QED
  BY <1>2, <1>3, <1>4

(* The part of IInv about the goroutines, when one of them takes a step.   *)
LEMMA SamplerStep ==
  ASSUME IInv, NEW a \in Attempts, Sampler(a)
  PROVE  /\ sampler' \in [Attempts -> Samplers]
         /\ samples' \in 0 .. Len(Temps) /\ samples' >= samples
         /\ Held' /\ \A b \in Attempts : sampler'[b].sample <= samples'
<1>1. /\ sampler \in [Attempts -> Samplers] /\ samples \in 0 .. Len(Temps)
      /\ Len(Temps) \in Nat /\ Attempts' = Attempts
  BY SensorAssumption DEF IInv, TypeOK, Attempts
<1>2. ASSUME NEW r \in Samplers, sampler' = [sampler EXCEPT ![a] = r], samples' = samples,
             r.sample = sampler[a].sample,
             r.pc \in {"good", "store"} => r.sample > 0
      PROVE  /\ sampler' \in [Attempts -> Samplers]
             /\ samples' \in 0 .. Len(Temps) /\ samples' >= samples
             /\ Held' /\ \A b \in Attempts : sampler'[b].sample <= samples'
  BY <1>1, <1>2 DEF IInv, Held
<1>3. CASE Tick(a) \/ ClearError(a)
  <2> DEFINE r == [sampler[a] EXCEPT !.pc = sampler'[a].pc]
  <2>1. sampler' = [sampler EXCEPT ![a] = r] /\ r \in Samplers /\ samples' = samples
    BY <1>1, <1>3 DEF Tick, ClearError, hardware, Samplers
  <2>2. r.sample = sampler[a].sample /\ (r.pc \in {"good", "store"} => r.sample > 0)
    BY <1>1, <1>3 DEF Tick, ClearError, Samplers, IInv, Held
  <2> QED
    BY <1>2, <2>1, <2>2
<1>4. CASE SampleFails(a) \/ Store(a)
  <2> PICK ok \in BOOLEAN : sampler' = [sampler EXCEPT ![a] = After(a, ok)]
    BY <1>4 DEF SampleFails, Store
  <2> samples' = samples
    BY <1>4 DEF SampleFails, Store, hardware
  <2> QED
    BY <1>2, AfterType
<1>5. CASE Sample(a)
  <2> DEFINE r == [sampler[a] EXCEPT !.pc = "good", !.sample = samples + 1]
  <2>1. samples' = samples + 1 /\ samples' \in 0 .. Len(Temps)
    BY <1>1, <1>5 DEF Sample
  <2>a. sampler' = [sampler EXCEPT ![a] = r]
    BY <1>1, <1>5 DEF Sample
  <2>2. r \in Samplers /\ r.sample = samples + 1
    BY <1>1, <2>1 DEF Samplers
  <2>3. sampler' \in [Attempts -> Samplers]
    BY <1>1, <2>a, <2>2
  <2>4. Held' /\ \A b \in Attempts : sampler'[b].sample <= samples'
    BY <1>1, <2>1, <2>a, <2>2 DEF IInv, Held, Samplers
  <2> QED
    BY <1>1, <2>1, <2>3, <2>4
<1> QED
  BY <1>3, <1>4, <1>5 DEF Sampler

LEMMA SamplerStarted ==
  ASSUME IInv, NEW a \in Attempts, Sampler(a)
  PROVE  Started' /\ (dead \/ sensorErr => "sensor" \in Faults)'
<1>1. Started'
  <2>1. /\ sampler[a].pc # "none" /\ Attempts' = Attempts
        /\ \A b \in Attempts \ {a} : sampler'[b] = sampler[b]
    BY DEF Sampler, Tick, SampleFails, Sample, ClearError, Store, IInv, TypeOK, Attempts
  <2>2. UNCHANGED <<retries, reader>>
    BY DEF Sampler, Tick, SampleFails, Sample, ClearError, Store, loop
  <2> QED
    BY <2>1, <2>2 DEF IInv, Started
<1>2. (dead \/ sensorErr => "sensor" \in Faults)'
  BY DEF IInv, Sampler, Tick, SampleFails, Sample, ClearError, Store, hardware
<1> QED
  BY <1>1, <1>2

(* A new sample that is not stored yet changes nothing about what has been *)
(* read: currentReading is still what it was.                              *)
LEMMA TakenGrows ==
  ASSUME IInv, samples' \in 0 .. Len(Temps), samples' >= samples,
         UNCHANGED <<sensorType, currentReading, loop>>
  PROVE  CurrentTaken' /\ Measured' /\ SampleStays'
<1> USE TakenFacts
<1>1. CurrentTaken'
  BY DEF IInv, CurrentTaken, Farenheit, loop
<1>2. Measured'
  BY DEF IInv, Measured, Farenheit, loop
<1>3. SampleStays'
  <2>1. CASE 0 \in Taken'
    <3>1. reader = "send" => FromSample(reading)'
      BY <2>1, SensorAssumption DEF IInv, TypeOK, Readings, CurrentTaken, FromSample, loop
    <3> QED
      BY <2>1, <3>1 DEF IInv, CurrentTaken, SampleStays, loop
  <2>2. CASE 0 \notin Taken'
    <3>1. ASSUME NEW F \in Int, \E t \in Taken \cup {0} : F = Farenheit(t)
          PROVE  (\E t \in Taken' : F = Farenheit(t)) <=> \E t \in Taken : F = Farenheit(t)
      BY <2>2, <3>1 DEF Farenheit
    <3>2. reading.F \in Int /\ (sent # NoReading => sent.F \in Int)
      BY DEF IInv, TypeOK, Readings
    <3>3. FromSample(sent)' => FromSample(sent)
      BY <3>1, <3>2 DEF IInv, FromSample, Measured, loop
    <3>4. reader = "send" => (FromSample(reading)' <=> FromSample(reading))
      BY <3>1, <3>2 DEF IInv, FromSample, CurrentTaken, loop
    <3> QED
      BY <3>3, <3>4 DEF IInv, SampleStays, loop
  <2> QED
    BY <2>1, <2>2
<1> QED
  BY <1>1, <1>2, <1>3

(* The samplers' actions.                                                  *)
LEMMA SamplerInductive ==
  ASSUME IInv, NEW a \in Attempts, Sampler(a)
  PROVE  IInv'
<1>1. /\ sampler' \in [Attempts -> Samplers]
      /\ samples' \in 0 .. Len(Temps) /\ samples' >= samples
      /\ Held' /\ \A b \in Attempts : sampler'[b].sample <= samples'
      /\ Started' /\ (dead \/ sensorErr => "sensor" \in Faults)'
  BY SamplerStep, SamplerStarted
<1>2. UNCHANGED <<flags, dead, loop>> /\ sensorErr' \in BOOLEAN
  BY DEF IInv, TypeOK, Sampler, Tick, SampleFails, Sample, ClearError, Store, hardware
<1>3. CASE UNCHANGED currentReading
  <2>1. TypeOK'
    BY <1>1, <1>2, <1>3 DEF IInv, TypeOK, Attempts, Samplers, Readings, flags, loop
  <2>2. CurrentTaken' /\ Measured' /\ SampleStays'
    BY <1>1, <1>2, <1>3, TakenGrows DEF flags
  <2> QED
    BY <1>1, <2>1, <2>2 DEF IInv, Attempts
<1>4. CASE Store(a)
  <2>1. currentReading' \in Taken /\ UNCHANGED samples /\ Taken' = Taken
    BY <1>4, StoredIsTaken, TakenSame DEF Store, hardware, flags
  <2>2. TypeOK'
    BY <1>1, <1>2, <2>1, TakenFacts DEF IInv, TypeOK, Attempts, Samplers, Readings, flags, loop
  <2>3. CurrentTaken' /\ Measured' /\ SampleStays'
    BY <1>2, <2>1 DEF IInv, CurrentTaken, Measured, SampleStays, FromSample, Farenheit, loop
  <2> QED
    BY <1>1, <2>2, <2>3 DEF IInv, Attempts
<1> QED
  BY <1>3, <1>4 DEF Sampler, Tick, SampleFails, Sample, ClearError

(* What an attempt that begins does to its goroutine.                      *)
LEMMA StartType ==
  ASSUME IInv, NEW pc \in {"sample", "wait"}, Start(pc)
  PROVE  /\ sampler' \in [Attempts -> Samplers]
         /\ Held' /\ \A b \in Attempts : sampler'[b].sample <= samples
<1>1. retries + 1 \in Attempts /\ Attempts' = Attempts
  BY SensorAssumption DEF IInv, TypeOK, Attempts
<1>2. /\ sampler \in [Attempts -> Samplers]
      /\ sampler' = [sampler EXCEPT ![retries + 1].pc = pc]
  BY DEF IInv, TypeOK, Start
<1>3. sampler' \in [Attempts -> Samplers]
  BY <1>1, <1>2 DEF Samplers
<1>4. \A b \in Attempts :
        /\ sampler'[b].sample = sampler[b].sample
        /\ sampler'[b].pc \in {"good", "store"} => sampler[b].pc \in {"good", "store"}
  BY <1>1, <1>2 DEF Samplers
<1>5. ASSUME NEW b \in Attempts
      PROVE  /\ sampler'[b].pc \in {"good", "store"} => sampler'[b].sample > 0
             /\ sampler'[b].sample <= samples
  <2>1. /\ sampler'[b].sample = sampler[b].sample
        /\ sampler'[b].pc \in {"good", "store"} => sampler[b].pc \in {"good", "store"}
    BY <1>4
  <2> QED
    BY <2>1 DEF IInv, Held
<1> QED
  BY <1>1, <1>3, <1>5 DEF Held

(* ReadLoop's actions.                                                     *)
LEMMA ReadLoopInductive == IInv /\ ReadLoop => IInv'
<1> SUFFICES ASSUME IInv, ReadLoop PROVE IInv'
  OBVIOUS
<1>0. UNCHANGED <<flags, hardware>> /\ Taken' = Taken /\ Attempts' = Attempts
  <2>1. UNCHANGED <<flags, hardware>> /\ Attempts' = Attempts
    BY DEF ReadLoop, Connect, CheckC, ReadC, CheckF, ReadF, Send, Term, Attempts
  <2> QED
    BY <2>1, TakenSame DEF flags, hardware
<1>1. retries \in Nat /\ MaxRetries \in Nat /\ NothingRead \in Readings
  BY SensorAssumption DEF IInv, TypeOK, NothingRead, Readings
<1>2. ASSUME UNCHANGED package, TypeOK', CurrentTaken', Measured', SampleStays',
             \/ reader' # "init" /\ UNCHANGED retries /\ reader # "init"
             \/ reader' = "init" /\ retries' = retries + 1
             \/ reader' \in {"term", "down"} /\ UNCHANGED retries
      PROVE  IInv'
  <2>1. Started'
    BY <1>0, <1>1, <1>2 DEF IInv, Started, Attempts, package
  <2> QED
    BY <1>0, <1>2, <2>1 DEF IInv, Held, package, hardware
<1>3. ASSUME Retry PROVE IInv'
  <2>1. TypeOK'
    BY <1>0, <1>1, <1>3 DEF Retry, IInv, TypeOK, Attempts, Samplers, flags, hardware, package
  <2>2. CurrentTaken' /\ Measured' /\ SampleStays'
    BY <1>0, <1>3 DEF Retry, NothingRead, IInv, CurrentTaken, Measured, SampleStays, FromSample,
       package
  <2> QED
    BY <1>2, <1>3, <2>1, <2>2 DEF Retry
<1>4. ASSUME NEW pc \in {"sample", "wait"}, Start(pc) PROVE IInv'
  <2>1. TypeOK'
    BY <1>0, <1>4, StartType DEF Start, IInv, TypeOK, flags, hardware, Readings
  <2>2. CurrentTaken' /\ Measured' /\ SampleStays'
    BY <1>0, <1>4 DEF Start, IInv, CurrentTaken, Measured, SampleStays, FromSample
  <2>3. Started'
    <3>1. \A b \in Attempts : b # retries + 1 => sampler'[b] = sampler[b]
      BY <1>4 DEF Start, IInv, TypeOK
    <3> QED
      BY <1>0, <1>1, <1>4, <3>1 DEF Start, IInv, Started, Attempts
  <2> QED
    BY <1>0, <1>4, <2>1, <2>2, <2>3, StartType DEF IInv, Start, hardware
<1>5. CASE Connect
  <2>1. CASE reader' = "down" /\ UNCHANGED <<package, retries, reading, sent>>
    <3>1. TypeOK'
      BY <1>0, <2>1 DEF IInv, TypeOK, Samplers, Readings, flags, hardware, package
    <3>2. CurrentTaken' /\ Measured' /\ SampleStays'
      BY <1>0, <2>1 DEF IInv, CurrentTaken, Measured, SampleStays, FromSample, package
    <3> QED
      BY <1>2, <2>1, <3>1, <3>2
  <2> QED
    BY <1>3, <1>4, <1>5, <2>1 DEF Connect, InitMax31855, InitMax31850
<1>6. CASE CheckC \/ Term
  <2>1. TypeOK'
    BY <1>0, <1>6 DEF CheckC, Term, IInv, TypeOK, Samplers, Readings, flags, hardware, package
  <2>2. CurrentTaken' /\ Measured' /\ SampleStays'
    BY <1>0, <1>6 DEF CheckC, Term, IInv, TypeOK, Readings, CurrentTaken, Measured, SampleStays,
       FromSample, package
  <2> QED
    BY <1>2, <1>6, <2>1, <2>2 DEF CheckC, Term
<1>7. CASE ReadC
  <2>1. TypeOK'
    BY <1>0, <1>7 DEF ReadC, Celsius, IInv, TypeOK, Samplers, Readings, flags, hardware, package
  <2>2. CurrentTaken' /\ Measured' /\ SampleStays'
    BY <1>0, <1>7 DEF ReadC, Celsius, IInv, TypeOK, Readings, CurrentTaken, Measured, SampleStays,
       FromSample, package
  <2> QED
    BY <1>2, <1>7, <2>1, <2>2 DEF ReadC
<1>8. CASE CheckF /\ ~Retry
  <2>1. reader' = "lockF" /\ UNCHANGED <<package, retries, reading, sent>>
    BY <1>8 DEF CheckF
  <2>2. TypeOK'
    BY <1>0, <2>1 DEF IInv, TypeOK, Samplers, Readings, flags, hardware, package
  <2>3. CurrentTaken' /\ Measured' /\ SampleStays'
    BY <1>0, <2>1 DEF IInv, CurrentTaken, Measured, SampleStays, FromSample, package
  <2> QED
    BY <1>2, <1>8, <2>1, <2>2, <2>3 DEF CheckF
<1>9. CASE ReadF
  <2>1. Farenheit(currentReading) \in Int
    BY DEF IInv, TypeOK, Farenheit
  <2>2. TypeOK'
    BY <1>0, <1>9, <2>1 DEF ReadF, IInv, TypeOK, Samplers, Readings, flags, hardware, package
  <2>3. CurrentTaken' /\ Measured'
    BY <1>0, <1>9 DEF ReadF, IInv, TypeOK, Readings, CurrentTaken, Measured, package
  <2>4. SampleStays'
    <3>1. reading'.F = Farenheit(currentReading)
      BY <1>9 DEF ReadF, IInv, TypeOK, Readings
    <3>2. Taken \subseteq Int
      BY TakenFacts, <1>0 DEF IInv, TypeOK, hardware, flags
    <3>3. currentReading \notin Taken => ~FromSample(reading)'
      BY <1>0, <3>1, <3>2 DEF IInv, TypeOK, FromSample, Farenheit
    <3>4. reading' # NoReading
      BY <1>9, <2>2, SensorAssumption DEF TypeOK
    <3> QED
      BY <1>0, <1>9, <3>1, <3>3, <3>4, SensorAssumption
      DEF ReadF, IInv, SampleStays, FromSample, package
  <2> QED
    BY <1>2, <1>9, <2>2, <2>3, <2>4 DEF ReadF
<1>10. CASE Send
  <2>1. TypeOK'
    BY <1>0, <1>1, <1>10 DEF Send, IInv, TypeOK, Samplers, flags, hardware, package
  <2>2. CurrentTaken' /\ SampleStays'
    BY <1>0, <1>10 DEF Send, NothingRead, IInv, CurrentTaken, SampleStays, FromSample, package
  <2>3. Measured'
    BY <1>0, <1>10 DEF Send, IInv, CurrentTaken, Measured
  <2> QED
    BY <1>2, <1>10, <2>1, <2>2, <2>3 DEF Send
<1> QED
  BY <1>3, <1>5, <1>6, <1>7, <1>8, <1>9, <1>10 DEF ReadLoop

LEMMA Inductive == IInv /\ [Next]_vars => IInv'
<1> SUFFICES ASSUME IInv, [Next]_vars PROVE IInv'
  OBVIOUS
<1>1. CASE HardwareDies \/ UNCHANGED vars
  <2>1. /\ UNCHANGED <<flags, samples, package, loop>> /\ dead' \in BOOLEAN
        /\ Attempts' = Attempts /\ Taken' = Taken
    BY <1>1, TakenSame DEF HardwareDies, vars, hardware, flags, Attempts, IInv, TypeOK
  <2>2. TypeOK'
    BY <2>1 DEF IInv, TypeOK, Samplers, Readings, flags, package, loop
  <2> QED
    BY <1>1, <2>1, <2>2 DEF IInv, HardwareDies, vars, hardware, Started, Held, CurrentTaken, Measured,
       SampleStays, FromSample, package, loop
<1> QED
  BY <1>1, SamplerInductive, ReadLoopInductive DEF Next

LEMMA InitInv == Init => IInv
<1> SUFFICES ASSUME Init PROVE IInv
  OBVIOUS
<1>0. /\ MaxRetries \in Nat /\ Len(Temps) \in Nat /\ NothingRead \in Readings
      /\ [pc |-> "none", probe |-> 1, sample |-> 0] \in Samplers
  BY SensorAssumption DEF Samplers, Readings, NothingRead
<1>1. sampler \in [Attempts -> Samplers]
  BY <1>0 DEF Init
<1>2. reading \in Readings /\ sent \in Readings \cup {NoReading}
  BY <1>0 DEF Init
<1>a. /\ sensorType \in {"max31855", "max31850"} /\ sensorSampleRate \in Rates
      /\ sensors \in Probes /\ samples \in 0 .. Len(Temps) /\ currentReading \in Int
  BY <1>0 DEF Init
<1>b. dead \in BOOLEAN /\ sensorErr \in BOOLEAN
  BY Zenon DEF Init
<1>c. reader = "init" /\ retries \in 0 .. MaxRetries
  BY <1>0 DEF Init
<1>3. TypeOK
  BY <1>a, <1>b, <1>c, <1>1, <1>2 DEF TypeOK
<1>4. Held /\ \A a \in Attempts : sampler[a].sample <= samples
  BY DEF Init, Held
<1>5. CurrentTaken /\ Measured /\ SampleStays
  BY DEF Init, CurrentTaken, Measured, SampleStays, FromSample, NothingRead
<1>6. Started /\ ~dead /\ ~sensorErr
  BY DEF Init, Started
<1> QED
  BY <1>3, <1>4, <1>5, <1>6 DEF IInv

(* The inductive invariant holds throughout.                               *)
THEOREM Invariant == Spec => []IInv
  BY InitInv, Inductive, PTL DEF Spec

(* The variables keep their types.                                         *)
THEOREM TypeCorrect == Spec => []TypeOK
<1>1. IInv => TypeOK
  BY DEF IInv
<1> QED
  BY <1>1, Invariant, PTL

(* What ReadLoop hands on comes from a sample, with a max31850 a thousandth *)
(* of it (max31850.go:60), or is the 0 of the first moment.                *)
THEOREM MeasuredHolds == Spec => []Measured
<1>1. IInv => Measured
  BY DEF IInv
<1> QED
  BY <1>1, Invariant, PTL

(* A reading of a sample is followed by readings of samples only.          *)
THEOREM StaysMeasuredHolds == Spec => StaysMeasured
<1>1. IInv /\ [Next]_vars => [FromSample(sent) => FromSample(sent)']_vars
  <2> SUFFICES ASSUME IInv, Next, FromSample(sent) PROVE FromSample(sent)'
    BY DEF vars
  <2>1. Taken \subseteq Taken'
    <3>1. samples' \in 0 .. Len(Temps) /\ samples' >= samples /\ UNCHANGED sensorType
      <4>1. CASE \E a \in Attempts : Sampler(a)
        BY <4>1, SamplerStep DEF Sampler, Tick, SampleFails, Sample, ClearError, Store, flags
      <4>2. CASE HardwareDies \/ ReadLoop
        BY <4>2 DEF HardwareDies, ReadLoop, Connect, CheckC, ReadC, CheckF, ReadF, Send, Term,
           hardware, flags, IInv, TypeOK
      <4> QED
        BY <4>1, <4>2 DEF Next
    <3> QED
      BY <3>1, TakenFacts
  <2>2. CASE Send
    <3>1. reader = "send" /\ sent' = reading
      BY <2>2 DEF Send
    <3>2. FromSample(reading)
      BY <3>1 DEF IInv, SampleStays
    <3> QED
      BY <3>1, <3>2, <2>1 DEF FromSample
  <2>3. CASE sent' = sent
    BY <2>1, <2>3 DEF FromSample
  <2>4. sent' = sent \/ Send
    BY DEF Next, HardwareDies, Sampler, Tick, SampleFails, Sample, ClearError, Store, ReadLoop,
       Connect, InitMax31855, InitMax31850, Start, Retry, CheckC, ReadC, CheckF, ReadF, Term, loop
  <2> QED
    BY <2>2, <2>3, <2>4
<1> QED
  BY <1>1, Invariant, PTL DEF Spec, StaysMeasured

-----------------------------------------------------------------------------
(* Sensor implements SensorFeed                                            *)

(* A goroutine's step leaves ReadLoop alone; the sensor may be broken by   *)
(* it, and is never mended.                                                *)
LEMMA SamplerFeeds ==
  ASSUME IInv, NEW a \in Attempts, Sampler(a)
  PROVE  [Fed!Next]_(Fed!vars)
<1>1. UNCHANGED <<feedReader, feedRetries>> /\ Attempts' = Attempts
  BY DEF Sampler, Tick, SampleFails, Sample, ClearError, Store, loop, feedReader, feedRetries,
     Attempts
<1>2. Broken => Broken'
  <2> SUFFICES ASSUME Broken PROVE Broken'
    OBVIOUS
  <2>1. dead /\ sensorErr /\ sampler[a].pc # "good"
    BY DEF Broken
  <2>2. UNCHANGED dead /\ sensorErr'
    BY <2>1 DEF Sampler, Tick, SampleFails, Sample, ClearError, Store, hardware
  <2>3. sampler'[a].pc # "good"
    <3>1. ~Sample(a)
      BY <2>1 DEF Sample
    <3>2. sampler \in [Attempts -> Samplers]
      BY DEF IInv, TypeOK
    <3>3. CASE Tick(a) \/ ClearError(a)
      BY <3>2, <3>3 DEF Tick, ClearError, Samplers
    <3>4. CASE SampleFails(a) \/ Store(a)
      BY <3>2, <3>4, AfterType DEF SampleFails, Store
    <3> QED
      BY <3>1, <3>3, <3>4 DEF Sampler
  <2>4. \A b \in Attempts \ {a} : sampler'[b] = sampler[b]
    BY DEF IInv, TypeOK, Sampler, Tick, SampleFails, Sample, ClearError, Store
  <2> QED
    BY <1>1, <2>1, <2>2, <2>3, <2>4 DEF Broken
<1>3. Broken' => "sensor" \in Faults
  BY DEF IInv, Broken, Sampler, Tick, SampleFails, Sample, ClearError, Store, hardware
<1> QED
  BY <1>1, <1>2, <1>3 DEF Fed!Next, Fed!Breaks, Fed!vars, feedSensor

(* ReadLoop's steps, between the check of F's error and the sending one.   *)
LEMMA ReadLoopFeeds ==
  ASSUME IInv, ReadLoop
  PROVE  [Fed!Next]_(Fed!vars)
<1>0. UNCHANGED dead /\ Attempts' = Attempts
  BY DEF ReadLoop, Connect, CheckC, ReadC, CheckF, ReadF, Send, Term, hardware, Attempts
<1>1. UNCHANGED package => UNCHANGED feedSensor
  BY <1>0 DEF package, feedSensor, Broken
<1>2. ASSUME NEW pc \in {"sample", "wait"}, Start(pc), reader = "init" PROVE UNCHANGED feedSensor
  <2>1. retries + 1 \in Attempts /\ sampler \in [Attempts -> Samplers]
    BY SensorAssumption DEF IInv, TypeOK, Attempts
  <2>2. /\ sampler' = [sampler EXCEPT ![retries + 1].pc = pc]
        /\ UNCHANGED sensorErr
    BY <1>2 DEF Start
  <2>3. sampler[retries + 1].pc = "none"
    BY <1>2, <2>1 DEF IInv, TypeOK, Started
  <2>4. \A a \in Attempts : sampler'[a].pc = "good" <=> sampler[a].pc = "good"
    BY <2>1, <2>2, <2>3 DEF Samplers
  <2> QED
    BY <1>0, <2>2, <2>4 DEF feedSensor, Broken
<1>3. CASE Connect
  <2>1. CASE Retry
    <3>1. "sensor" \in Faults
      BY <1>3, <2>1, SensorAssumption DEF IInv, TypeOK, Connect, InitMax31855, InitMax31850, Start, Retry
    <3>2. reader = "init" /\ UNCHANGED feedSensor
      BY <1>1, <1>3, <2>1 DEF Connect, Retry
    <3> QED
      BY <2>1, <3>1, <3>2 DEF Retry, Fed!Next, Fed!InitSensor, Fed!Retry, feedReader, feedRetries
  <2>2. CASE \E pc \in {"sample", "wait"} : Start(pc)
    BY <1>2, <1>3, <2>2 DEF Connect, Start, Fed!Next, Fed!InitSensor, feedReader, feedRetries
  <2>3. CASE reader' = "down" /\ UNCHANGED <<package, retries, reading, sent>>
    BY <1>1, <1>3, <2>3 DEF Connect, Fed!Next, Fed!Ends, feedReader, feedRetries
  <2> QED
    BY <1>3, <2>1, <2>2, <2>3 DEF Connect, InitMax31855, InitMax31850
<1>4. CASE CheckC \/ ReadC \/ ReadF
  BY <1>1, <1>4 DEF CheckC, ReadC, ReadF, Fed!vars, feedReader, feedRetries
<1>5. CASE CheckF
  <2>1. CASE sensorErr
    BY <1>1, <1>5, <2>1 DEF CheckF, Retry, IInv, TypeOK, Fed!Next, Fed!Read, Fed!Retry, feedReader,
       feedRetries, Broken
  <2>2. CASE ~sensorErr
    BY <1>1, <1>5, <2>2 DEF CheckF, Fed!Next, Fed!Read, feedReader, feedRetries, feedSensor, Broken
  <2> QED
    BY <2>1, <2>2
<1>6. CASE Send
  BY <1>1, <1>6 DEF Send, Fed!Next, Fed!Send, feedReader, feedRetries
<1>7. CASE Term
  BY <1>1, <1>7 DEF Term, Fed!Next, Fed!Term, feedReader, feedRetries
<1> QED
  BY <1>3, <1>4, <1>5, <1>6, <1>7 DEF ReadLoop

(* ReadLoop with its package is what Smoker takes it for.                  *)
THEOREM ImplementsFeed == Spec => Feed
<1>1. Init => Fed!Init
  BY DEF Init, Fed!Init, feedSensor, feedReader, feedRetries, Broken
<1>2. IInv /\ [Next]_vars => [Fed!Next]_(Fed!vars)
  <2> SUFFICES ASSUME IInv, [Next]_vars PROVE [Fed!Next]_(Fed!vars)
    OBVIOUS
  <2>1. CASE HardwareDies
    <3>1. UNCHANGED <<feedReader, feedRetries>> /\ Attempts' = Attempts /\ (Broken => ~HardwareDies)
      BY <2>1 DEF HardwareDies, loop, feedReader, feedRetries, Attempts, Broken
    <3> QED
      BY <2>1, <3>1 DEF HardwareDies, Fed!Next, Fed!Breaks, Fed!vars, feedSensor
  <2>2. CASE UNCHANGED vars
    BY <2>2 DEF vars, hardware, package, loop, Fed!vars, feedSensor, feedReader, feedRetries,
       Broken, Attempts
  <2> QED
    BY <2>1, <2>2, SamplerFeeds, ReadLoopFeeds DEF Next
<1> QED
  BY <1>1, <1>2, Invariant, PTL DEF Spec, Feed, Fed!Spec
=============================================================================
