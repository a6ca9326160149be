--------------------------- MODULE ProvisionProofs ---------------------------
(* Proofs about Provision, for every value of its constants.               *)
EXTENDS Provision, SequenceTheorems, TLAPS

LEMMA InitIInv == Init => IInv
<1> SUFFICES ASSUME Init
             PROVE  IInv
  OBVIOUS
<1> USE CredsAssumption, ProvisionAssumption DEF Init, Fresh
<1>1. TypeOK
  <2>1. answer \in BOOLEAN /\ told \in BOOLEAN
    BY Zenon
  <2>2. chunk \in [Phone -> {"none", "head", "tail"}]
        /\ line \in [Phone -> Creds \cup {None}]
        /\ notifier \in [Phone -> BOOLEAN]
        /\ \A p \in Phone : chunk[p] # "none" => line[p] # None
    OBVIOUS
  <2>3. state \in Seq(BOOLEAN) /\ Len(state) = 0 /\ docs \in Seq(Creds)
    OBVIOUS
  <2>4. machineConfig \in Creds \cup {None} /\ buffer \in Creds \cup {None, Spoiled}
        /\ wpa \in Creds \cup {None, Spoiled}
    BY Zenon
  <2> QED
    BY <2>1, <2>2, <2>3, <2>4 DEF TypeOK
<1>2. NetworkHasOwner /\ Appended /\ Configured
  BY DEF NetworkHasOwner, Appended, Configured
<1>3. ~Succeeded
  BY DEF Succeeded
<1>4. Stored
  BY <1>3 DEF Stored
<1> QED
  BY <1>1, <1>2, <1>4 DEF IInv

LEMMA ParsedType == docs \in Seq(Creds) => Parsed \in Creds \cup {None}
BY DEF Parsed

(* What taking the first answer leaves.                                    *)
LEMMA Taken ==
  ASSUME state \in Seq(BOOLEAN), Len(state) <= StateCap, state # <<>>
  PROVE  /\ Head(state) \in BOOLEAN /\ Head(state) = state[1] /\ 1 \in 1 .. Len(state)
         /\ Tail(state) \in Seq(BOOLEAN) /\ Len(Tail(state)) <= StateCap
         /\ \A i \in 1 .. Len(Tail(state)) :
              i + 1 \in 1 .. Len(state) /\ Tail(state)[i] = state[i + 1]
<1>1. /\ Head(state) \in BOOLEAN
      /\ Tail(state) \in Seq(BOOLEAN)
      /\ Len(Tail(state)) = Len(state) - 1
      /\ \A i \in 1 .. Len(Tail(state)) : Tail(state)[i] = state[i + 1]
  BY HeadTailProperties, Zenon
<1>2. Head(state) = state[1] /\ Len(state) \in Nat /\ Len(state) # 0
  OBVIOUS
<1> QED
  BY <1>1, <1>2, ProvisionAssumption

(* What appending a document to the file leaves.                           *)
LEMMA Added ==
  ASSUME docs \in Seq(Creds), buffer \in Creds
  PROVE  /\ Append(docs, buffer) \in Seq(Creds)
         /\ Len(docs) \in Nat /\ Len(Append(docs, buffer)) = Len(docs) + 1
         /\ Append(docs, buffer) # <<>> /\ Append(docs, buffer)[Len(docs) + 1] = buffer
         /\ \A i \in 1 .. Len(docs) : Append(docs, buffer)[i] = docs[i]
<1>1. Len(docs) \in Nat
  OBVIOUS
<1>2. /\ Append(docs, buffer) \in Seq(Creds)
      /\ Append(docs, buffer) # <<>>
      /\ Len(Append(docs, buffer)) = Len(docs) + 1
      /\ \A i \in 1 .. Len(docs) : Append(docs, buffer)[i] = docs[i]
      /\ Append(docs, buffer)[Len(docs) + 1] = buffer
  BY AppendProperties, Zenon
<1> QED
  BY <1>1, <1>2

(* Every action keeps the types.                                           *)
LEMMA NextTyped == TypeOK /\ [Next]_vars => TypeOK'
<1> SUFFICES ASSUME TypeOK, [Next]_vars
             PROVE  TypeOK'
  OBVIOUS
<1> USE CredsAssumption, ProvisionAssumption
    DEF TypeOK, disk, service, gatt, air, writing, bounds
<1>1. CASE Boot
  BY <1>1, ParsedType DEF Boot
<1>2. CASE BootNew
  BY <1>2 DEF BootNew
<1>3. CASE Crash
  <2>1. answer' \in BOOLEAN
    BY <1>3, Zenon DEF Crash, Forget
  <2>2. chunk' \in [Phone -> {"none", "head", "tail"}]
        /\ line' \in [Phone -> Creds \cup {None}]
        /\ notifier' \in [Phone -> BOOLEAN]
        /\ \A p \in Phone : chunk'[p] # "none" => line'[p] # None
    BY <1>3 DEF Crash, Forget
  <2>3. machineConfig' \in Creds \cup {None} /\ buffer' \in Creds \cup {None, Spoiled}
    BY <1>3, Zenon DEF Crash, Forget
  <2>4. state' \in Seq(BOOLEAN) /\ Len(state') <= StateCap
    BY <1>3 DEF Crash, Forget
  <2> QED
    BY <1>3, <2>1, <2>2, <2>3, <2>4 DEF Crash, Forget
<1>4. CASE Restart
  BY <1>4 DEF Restart
<1>5. CASE Connect \/ Disconnect
  <2>1. connected' \in 0 .. Phones /\ made' \in 0 .. Phones
    BY <1>5 DEF Connect, Disconnect
  <2> QED
    BY <1>5, <2>1 DEF Connect, Disconnect
<1>6. ASSUME NEW p \in Phone, NEW c \in Creds, WriteHead(p, c)
      PROVE  TypeOK'
  BY <1>6 DEF WriteHead
<1>7. ASSUME NEW p \in Phone, WriteTail(p)
      PROVE  TypeOK'
  BY <1>7 DEF WriteTail
<1>8. ASSUME NEW p \in Phone, Subscribe(p)
      PROVE  TypeOK'
  BY <1>8 DEF Subscribe
<1>9. ASSUME NEW p \in Phone, Notify(p)
      PROVE  TypeOK'
  <2>1. Head(state) \in BOOLEAN /\ state' \in Seq(BOOLEAN) /\ Len(state') <= StateCap
    BY <1>9, Taken DEF Notify
  <2>2. told' \in BOOLEAN
    BY <1>9, <2>1, Zenon DEF Notify
  <2>3. notifier' \in [Phone -> BOOLEAN]
    BY <1>9 DEF Notify
  <2>4. UNCHANGED <<disk, service, gatt, stop, writing, air, bounds>>
    BY <1>9 DEF Notify
  <2> QED
    BY <2>1, <2>2, <2>3, <2>4
<1>10. CASE Read
  <2>1. Head(state) \in BOOLEAN /\ state' \in Seq(BOOLEAN) /\ Len(state') <= StateCap
    BY <1>10, Taken DEF Read
  <2>2. told' \in BOOLEAN
    BY <1>10, <2>1, Zenon DEF Read
  <2>3. UNCHANGED <<disk, service, gatt, stop, writing, notifier, air, bounds>>
    BY <1>10 DEF Read
  <2> QED
    BY <2>1, <2>2, <2>3
<1>11. ASSUME NEW p \in Phone, ReceiveHead(p)
       PROVE  TypeOK'
  BY <1>11 DEF ReceiveHead
<1>12. ASSUME NEW p \in Phone, ReceiveTail(p)
       PROVE  TypeOK'
  BY <1>12 DEF ReceiveTail
<1>13. CASE Parse
  <2>1. answer' \in BOOLEAN
    BY <1>13 DEF Parse, Returns, Fails
  <2> QED
    BY <1>13, <2>1 DEF Parse, Returns, Fails
<1>14. CASE AppendDocument
  <2>1. docs' \in Seq(Creds)
    BY <1>14, Added DEF AppendDocument
  <2>2. answer' \in BOOLEAN
    BY <1>14 DEF AppendDocument, AfterWrite, Returns
  <2> QED
    BY <1>14, <2>1, <2>2 DEF AppendDocument, AfterWrite, Returns
<1>15. CASE WriteWpa
  <2>1. answer' \in BOOLEAN
    BY <1>15 DEF WriteWpa, AfterWrite, Returns
  <2> QED
    BY <1>15, <2>1 DEF WriteWpa, AfterWrite, Returns
<1>16. CASE TestNetwork
  <2>1. answer' \in BOOLEAN
    BY <1>16 DEF TestNetwork, Returns, Fails
  <2> QED
    BY <1>16, <2>1 DEF TestNetwork, Returns, Fails
<1>17. CASE Answer
  <2>1. state' \in Seq(BOOLEAN) /\ Len(state') <= StateCap
    BY <1>17 DEF Answer, StateHasRoom
  <2> QED
    BY <1>17, <2>1 DEF Answer
<1>18. CASE SendStop
  BY <1>18 DEF SendStop, Halt
<1>19. CASE TakeStop
  BY <1>19, ParsedType DEF TakeStop
<1>20. CASE UNCHANGED vars
  BY <1>20 DEF vars
<1> QED
  BY <1>1, <1>2, <1>3, <1>4, <1>5, <1>6, <1>7, <1>8, <1>9, <1>10, <1>11,
     <1>12, <1>13, <1>14, <1>15, <1>16, <1>17, <1>18, <1>19, <1>20
  DEF Next, Use, Receive, Setup

(***************************************************************************)
(* The rest of the inductive invariant.  Most actions leave the file, the  *)
(* answers and SetupConfig's progress alone; Read and Notify only take     *)
(* from state; the steps of Setup carry the line from the buffer to the    *)
(* file, to the network and to the answer, in this order.                  *)
(***************************************************************************)
Core == NetworkHasOwner /\ Appended /\ Stored /\ Configured

LEMMA NextCore == TypeOK /\ Core /\ [Next]_vars => Core'
<1> SUFFICES ASSUME TypeOK, Core, [Next]_vars
             PROVE  Core'
  OBVIOUS
<1> USE CredsAssumption, ProvisionAssumption
    DEF disk, service, gatt, air, writing, bounds
<1>1. ASSUME UNCHANGED <<docs, wpa, process, machineConfig, loop, buffer, answer>>,
             Succeeded' => Succeeded
      PROVE  Core'
  BY <1>1 DEF Core, NetworkHasOwner, Appended, Stored, Configured, Parsed
<1>2. ASSUME UNCHANGED <<docs, wpa, process, machineConfig, loop, buffer, answer,
                         state, stop, told>>
      PROVE  Core'
  <2>1. Succeeded' => Succeeded
    BY <1>2 DEF Succeeded
  <2> QED
    BY <1>1, <1>2, <2>1
<1>3. CASE Connect \/ Disconnect \/ UNCHANGED vars
  BY <1>2, <1>3 DEF Connect, Disconnect, vars
<1>4. ASSUME NEW p \in Phone,
             (\E c \in Creds : WriteHead(p, c)) \/ WriteTail(p) \/ Subscribe(p)
      PROVE  Core'
  BY <1>2, <1>4 DEF WriteHead, WriteTail, Subscribe
<1>5. ASSUME UNCHANGED <<docs, wpa, process, machineConfig, loop, buffer, answer, stop>>,
             state # <<>>, state' = Tail(state), told' => told \/ Head(state)
      PROVE  Core'
  <2>1. Succeeded' => Succeeded
    BY <1>5, Taken DEF Succeeded, TypeOK
  <2> QED
    BY <1>1, <1>5, <2>1
<1>6. CASE Read
  BY <1>5, <1>6 DEF Read
<1>7. ASSUME NEW p \in Phone, Notify(p)
      PROVE  Core'
  BY <1>5, <1>7 DEF Notify
<1>8. CASE Boot
  <2>1. Succeeded' => Succeeded
    BY <1>8 DEF Boot, Succeeded
  <2> QED
    BY <1>8, <2>1 DEF Boot, Core, NetworkHasOwner, Appended, Stored, Configured, Parsed
<1>9. CASE BootNew \/ Restart
  <2>1. Succeeded' => Succeeded
    BY <1>9 DEF BootNew, Restart, Succeeded
  <2> QED
    BY <1>9, <2>1 DEF BootNew, Restart, Core, NetworkHasOwner, Appended, Stored,
                      Configured, Parsed
<1>10. CASE Crash
  <2>1. Succeeded' => Succeeded
    BY <1>10 DEF Crash, Forget, Succeeded
  <2> QED
    BY <1>10, <2>1 DEF Crash, Forget, Core, NetworkHasOwner, Appended, Stored, Configured
<1>11. ASSUME NEW p \in Phone, ReceiveHead(p) \/ ReceiveTail(p)
       PROVE  Core'
  <2>1. Succeeded' => Succeeded
    BY <1>11 DEF ReceiveHead, ReceiveTail, Succeeded
  <2> QED
    BY <1>11, <2>1 DEF ReceiveHead, ReceiveTail, Core, NetworkHasOwner, Appended,
                       Stored, Configured, Parsed
<1>12. CASE Parse
  <2>1. Succeeded' => Succeeded
    BY <1>12 DEF Parse, Returns, Fails, Succeeded
  <2> QED
    BY <1>12, <2>1 DEF Parse, Returns, Fails, Core, NetworkHasOwner, Appended,
                       Stored, Configured, Parsed
<1>13. CASE AppendDocument
  <2>1. Succeeded' => Succeeded
    BY <1>13 DEF AppendDocument, AfterWrite, Returns, Succeeded
  <2>2. CASE docs' = docs
    BY <1>13, <2>1, <2>2 DEF AppendDocument, AfterWrite, Returns, Core, NetworkHasOwner,
                             Appended, Stored, Configured, Parsed
  <2>3. CASE docs' = Append(docs, buffer) /\ AfterWrite(FALSE, "wpa")
    <3>1. /\ docs' # <<>> /\ Len(docs') = Len(docs) + 1 /\ docs'[Len(docs')] = buffer
          /\ \A i \in 1 .. Len(docs) : i \in 1 .. Len(docs') /\ docs'[i] = docs[i]
      BY <1>13, <2>3, Added DEF AppendDocument, TypeOK
    <3>2. NetworkHasOwner'
      BY <1>13, <3>1 DEF AppendDocument, Core, NetworkHasOwner
    <3>3. Appended'
      BY <1>13, <2>3, <3>1 DEF AppendDocument, AfterWrite, Appended
    <3>4. Succeeded => Len(docs') > 1
      BY <3>1 DEF Core, Stored, TypeOK
    <3>5. Stored'
      BY <2>1, <3>1, <3>4 DEF Stored
    <3>6. Configured'
      BY <1>13 DEF AppendDocument, Configured
    <3> QED
      BY <3>2, <3>3, <3>5, <3>6 DEF Core
  <2> QED
    BY <1>13, <2>2, <2>3 DEF AppendDocument
<1>14. CASE WriteWpa
  <2>1. Succeeded' => Succeeded
    BY <1>14 DEF WriteWpa, AfterWrite, Returns, Succeeded
  <2>2. buffer = docs[Len(docs)] /\ Len(docs) \in 1 .. Len(docs)
    BY <1>14 DEF WriteWpa, Core, Appended, TypeOK
  <2>3. NetworkHasOwner'
    BY <1>14, <2>2 DEF WriteWpa, Core, NetworkHasOwner
  <2>4. Appended'
    BY <1>14 DEF WriteWpa, AfterWrite, Returns, Core, Appended
  <2>5. Stored'
    <3>1. Succeeded' => docs # <<>> /\ Len(docs) > 1 /\ Len(docs) # 1
      <4>1. loop = "wpa"
        BY <1>14 DEF WriteWpa
      <4>2. Succeeded => docs # <<>> /\ Len(docs) > 1
        BY <4>1, Zenon DEF Core, Stored
      <4>3. Len(docs) > 1 => Len(docs) # 1
        <5>1. Len(docs) \in Nat
          BY DEF TypeOK
        <5>2. ASSUME NEW n \in Nat, n > 1
              PROVE  n # 1
          BY <5>2
        <5> QED
          BY <5>1, <5>2, Zenon
      <4> QED
        BY <2>1, <4>2, <4>3, Zenon
    <3>2. docs' = docs
      BY <1>14 DEF WriteWpa
    <3>3. Succeeded' => docs' # <<>> /\ Len(docs') > 1 /\ Len(docs') # 1
      BY <3>1, <3>2, Zenon
    <3> QED
      BY <3>3, Zenon DEF Stored
  <2>6. Configured'
    BY <1>14 DEF WriteWpa, Configured
  <2> QED
    BY <2>3, <2>4, <2>5, <2>6 DEF Core
<1>15. CASE TestNetwork
  <2>1. docs # <<>> /\ (Len(docs) = 1 => wpa = docs[1])
    BY <1>15 DEF TestNetwork, Core, Appended
  <2> QED
    BY <1>15, <2>1 DEF TestNetwork, Returns, Fails, Core, NetworkHasOwner, Appended,
                       Stored, Configured
<1>16. CASE Answer
  <2>1. Succeeded' => Succeeded
    <3>1. \A i \in 1 .. Len(state') :
            (i \in 1 .. Len(state) /\ state'[i] = state[i]) \/ state'[i] = answer
      BY <1>16, AppendProperties DEF Answer, TypeOK
    <3> QED
      BY <1>16, <3>1 DEF Answer, Succeeded
  <2> QED
    BY <1>16, <2>1 DEF Answer, Core, NetworkHasOwner, Appended, Stored, Configured
<1>17. CASE SendStop
  <2>1. Succeeded
    BY <1>17 DEF SendStop, Succeeded
  <2> QED
    BY <1>17, <2>1 DEF SendStop, Core, NetworkHasOwner, Appended, Stored, Configured
<1>18. CASE TakeStop
  <2>1. Succeeded' => Succeeded
    BY <1>18 DEF TakeStop, Succeeded
  <2> QED
    BY <1>18, <2>1 DEF TakeStop, Core, NetworkHasOwner, Appended, Stored, Configured, Parsed
<1> QED
  BY <1>3, <1>4, <1>6, <1>7, <1>8, <1>9, <1>10, <1>11, <1>12, <1>13, <1>14,
     <1>15, <1>16, <1>17, <1>18
  DEF Next, Use, Receive, Setup

LEMMA NextIInv == IInv /\ [Next]_vars => IInv'
BY NextTyped, NextCore DEF IInv, Core

-----------------------------------------------------------------------------
(* The variables have their types.                                         *)
THEOREM TypeCorrect == Spec => []TypeOK
<1>1. Init => TypeOK
  BY InitIInv DEF IInv
<1> QED
  BY <1>1, NextTyped, PTL DEF Spec

(* The inductive invariant holds.                                          *)
THEOREM Invariant == Spec => []IInv
BY InitIInv, NextIInv, PTL DEF Spec

(* After a first attempt that a phone was told to have succeeded, owner    *)
(* and network on disk and in use are that attempt's (SetupConfig, main).  *)
THEOREM FirstTry == Spec => []FirstTryHolds
<1>1. IInv => FirstTryHolds
  BY DEF IInv, Stored, Succeeded, Configured, Parsed, FirstTryHolds
<1> QED
  BY <1>1, Invariant, PTL

(* The network on disk is one whose owner the configuration file names,    *)
(* wherever SetupConfig fails or the process dies.                         *)
THEOREM NetworkOwned == Spec => []NetworkHasOwner
<1>1. IInv => NetworkHasOwner
  BY DEF IInv
<1> QED
  BY <1>1, Invariant, PTL
=============================================================================
