--------------------------- MODULE AccountsProofs ---------------------------
(***************************************************************************)
(* The gateway's word is true and the login page is watched, for every     *)
(* number of operations, requests of the page and names, every size of     *)
(* userCache and whatever fails.                                           *)
(***************************************************************************)
EXTENDS Accounts, FiniteSetTheorems, TLAPS

Field == [kind : DOMAIN GW!Inputs, input : STRING, name : Names]
Values == {"null", "true", "user", "list"}
Operation == [fields : Operations \cup {<<>>}, results : Seq(Values),
              at : {"none", "next", "register", "username", "login", "refresh", "signout",
                    "devices", "answered"},
              data : {"none", "null", "values"}]
Statuses == {0, Auth!Broken, 408} \cup Auth!Codes
Exchange == [path : Auth!Paths \cup {"none", "devices"}, name : Names \cup {"none"},
             code : Statuses, tokens : BOOLEAN]
Pool == [by : Auth!Users \cup {"nobody", "earlier"}, confirmed : BOOLEAN]

(* An operation, its fields and the one it is at.                          *)
LEMMA OpFacts ==
  ASSUME IInv, NEW o \in Ops
  PROVE  /\ op[o].fields \in Seq(Field) /\ op[o].results \in Seq(Values)
         /\ Len(op[o].results) \in Nat /\ Len(op[o].fields) \in Nat
         /\ Len(op[o].results) <= Len(op[o].fields)
         /\ op[o] \in Operation
         /\ ~GW!AllDone(o) => /\ Len(op[o].results) + 1 \in DOMAIN op[o].fields
                              /\ GW!Current(o) \in Field
<1>1. op[o] \in Operation
  BY DEF IInv, TypeOK, GW!TypeOK, Values, Operation
<1>2. op[o].fields \in Seq(Field) /\ op[o].results \in Seq(Values)
  <2>1. Operations \subseteq Seq(Field)
    BY AccountsAssumption, Zenon DEF Field
  <2>2. <<>> \in Seq(Field)
    OBVIOUS
  <2> QED
    BY <1>1, <2>1, <2>2 DEF Operation
<1>3. Len(op[o].results) \in Nat /\ Len(op[o].fields) \in Nat
      /\ Len(op[o].results) <= Len(op[o].fields)
  BY <1>2 DEF IInv, AsCalled
<1>4. ASSUME ~GW!AllDone(o)
      PROVE  /\ Len(op[o].results) + 1 \in DOMAIN op[o].fields
             /\ GW!Current(o) \in Field
  <2>1. Len(op[o].results) + 1 \in 1 .. Len(op[o].fields)
    BY <1>3, <1>4 DEF GW!AllDone
  <2> QED
    BY <1>2, <2>1 DEF GW!Current
<1> QED
  BY <1>1, <1>2, <1>3, <1>4

(* The paths that resolvers call.                                          *)
LEMMA KindsFacts ==
  /\ DOMAIN KindsOf = {"register", "username", "login", "refresh", "signout", "devices"}
  /\ KindsOf["register"] = {"register"} /\ KindsOf["username"] = {"register", "userAvailable"}
  /\ KindsOf["login"] = {"login"} /\ KindsOf["refresh"] = {"login"}
  /\ KindsOf["signout"] = {"signOut"} /\ KindsOf["devices"] = {"devices"}
BY DEF KindsOf

(* A step of the gateway calls, has a field's result or answers; a result  *)
(* that is not null is the truth.                                          *)
LEMMA StepShapes ==
  ASSUME IInv, NEW o \in Ops, GW!Step(o)
  PROVE  \/ \E path \in DOMAIN KindsOf : /\ GW!Call(o, path) /\ ~GW!AllDone(o)
                                         /\ GW!Current(o).kind \in KindsOf[path]
         \/ \E v \in Values : /\ GW!Result(o, v) /\ ~GW!AllDone(o)
                              /\ v # "null" => Done(o, GW!Current(o))
         \/ GW!Answer(o)
<1> DEFINE f == GW!Current(o)
<1>0. AsCalled(o) /\ TrueAnswer(o)
  BY DEF IInv, Callers
<1>1. ASSUME GW!Mutation_register(o)
      PROVE  ~GW!AllDone(o) /\ \/ GW!Result(o, "null")
                               \/ GW!Call(o, "username") /\ f.kind \in KindsOf["username"]
  BY <1>1, KindsFacts DEF GW!Mutation_register, GW!Field, GW!Register
<1>2. ASSUME GW!Mutation_login(o)
      PROVE  ~GW!AllDone(o) /\ \/ GW!Call(o, "refresh") /\ f.kind \in KindsOf["refresh"]
                               \/ GW!Call(o, "login") /\ f.kind \in KindsOf["login"]
  BY <1>2, KindsFacts DEF GW!Mutation_login, GW!Field, GW!Login
<1>3. ASSUME GW!Mutation_signOut(o)
      PROVE  ~GW!AllDone(o) /\ \/ GW!Result(o, "null")
                               \/ GW!Call(o, "signout") /\ f.kind \in KindsOf["signout"]
  BY <1>3, KindsFacts DEF GW!Mutation_signOut, GW!Field, GW!SignOut, GW!Panic
<1>4. ASSUME GW!Mutation_userAvailable(o)
      PROVE  ~GW!AllDone(o) /\ \/ GW!Result(o, "null")
                               \/ GW!Call(o, "username") /\ f.kind \in KindsOf["username"]
  BY <1>4, KindsFacts DEF GW!Mutation_userAvailable, GW!Field, GW!UserAvailable
<1>5. ASSUME GW!Mutation_addDevice(o)
      PROVE  ~GW!AllDone(o) /\ GW!Result(o, "null")
  BY <1>5 DEF GW!Mutation_addDevice, GW!Field, GW!AddDevice, GW!Panic
<1>6. ASSUME GW!Query_devices(o)
      PROVE  ~GW!AllDone(o) /\ GW!Call(o, "devices") /\ f.kind \in KindsOf["devices"]
  BY <1>6, KindsFacts DEF GW!Query_devices, GW!Field, GW!Devices
<1>7. ASSUME NEW path \in DOMAIN KindsOf, GW!Returned(o, path)
      PROVE  /\ ~GW!AllDone(o) /\ f.kind \in KindsOf[path]
             /\ request[o].path = path /\ request[o].name = f.name
  BY <1>0, <1>7 DEF GW!Returned, AsCalled
<1>8. ASSUME GW!UsernameReturns(o)
      PROVE  ~GW!AllDone(o) /\ \/ GW!Result(o, "null")
                               \/ GW!Call(o, "register") /\ f.kind \in KindsOf["register"]
                               \/ GW!Result(o, "true") /\ Done(o, f)
  <2>1. ~GW!AllDone(o) /\ f.kind \in {"register", "userAvailable"}
    BY <1>7, <1>8, KindsFacts DEF GW!UsernameReturns
  <2>2. f.kind # "register" => Done(o, f)
    BY <2>1 DEF Done
  <2> QED
    BY <1>8, <2>1, <2>2, KindsFacts DEF GW!UsernameReturns
<1>9. ASSUME GW!RegisterReturns(o)
      PROVE  ~GW!AllDone(o) /\ \/ GW!Result(o, "null")
                               \/ GW!Result(o, "true") /\ Done(o, f)
  <2>1. /\ ~GW!AllDone(o) /\ f.kind = "register"
        /\ request[o].path = "register" /\ request[o].name = f.name
    BY <1>7, <1>9, KindsFacts DEF GW!RegisterReturns
  <2>2. GW!OK(o) => Done(o, f)
    BY <1>0, <2>1 DEF GW!OK, TrueAnswer, Done
  <2> QED
    BY <1>9, <2>1, <2>2 DEF GW!RegisterReturns
<1>10. ASSUME GW!LoginReturns(o)
       PROVE  ~GW!AllDone(o) /\ \/ GW!Result(o, "null")
                                \/ GW!Result(o, "user") /\ Done(o, f)
  <2>1. /\ ~GW!AllDone(o) /\ f.kind = "login"
        /\ request[o].path \in {"login", "refresh"} /\ request[o].name = f.name
    BY <1>7, <1>10, KindsFacts DEF GW!LoginReturns
  <2>2. GW!OK(o) /\ request[o].tokens => Done(o, f)
    BY <1>0, <2>1 DEF GW!OK, TrueAnswer, Done
  <2> QED
    BY <1>10, <2>1, <2>2 DEF GW!LoginReturns, GW!Panic
<1>11. ASSUME GW!SignOutReturns(o)
       PROVE  ~GW!AllDone(o) /\ \/ GW!Result(o, "null")
                                \/ GW!Result(o, "true") /\ Done(o, f)
  <2>1. ~GW!AllDone(o) /\ f.kind = "signOut"
    BY <1>7, <1>11, KindsFacts DEF GW!SignOutReturns
  <2> QED
    BY <1>11, <2>1 DEF GW!SignOutReturns, Done
<1>12. ASSUME GW!DevicesReturns(o)
       PROVE  ~GW!AllDone(o) /\ \/ GW!Result(o, "null")
                                \/ GW!Result(o, "list") /\ Done(o, f)
  <2>1. ~GW!AllDone(o) /\ f.kind = "devices"
    BY <1>7, <1>12, KindsFacts DEF GW!DevicesReturns
  <2> QED
    BY <1>12, <2>1 DEF GW!DevicesReturns, Done
<1>13. \A v \in {"null", "true", "user", "list"} : v \in Values
  BY DEF Values
<1>14. CASE \/ GW!Mutation_register(o) \/ GW!Mutation_login(o) \/ GW!Mutation_signOut(o)
            \/ GW!Mutation_userAvailable(o) \/ GW!Mutation_addDevice(o) \/ GW!Query_devices(o)
  BY <1>14, <1>1, <1>2, <1>3, <1>4, <1>5, <1>6, <1>13, KindsFacts
<1>15. CASE \/ GW!UsernameReturns(o) \/ GW!RegisterReturns(o) \/ GW!LoginReturns(o)
            \/ GW!SignOutReturns(o) \/ GW!DevicesReturns(o)
  BY <1>15, <1>8, <1>9, <1>10, <1>11, <1>12, <1>13, KindsFacts
<1> QED
  BY <1>14, <1>15 DEF GW!Step

-----------------------------------------------------------------------------
(* Steps that leave the users' pool alone and change one operation.        *)

\* What IInv asks of an operation w and of its request r.
OperationSound(o, w, r) ==
  /\ w \in Operation
  /\ r \in Exchange
  /\ Len(w.results) <= Len(w.fields)
  /\ IF w.at \in DOMAIN KindsOf
     THEN /\ Len(w.results) # Len(w.fields)
          /\ w.fields[Len(w.results) + 1].kind \in KindsOf[w.at]
          /\ r.path = w.at /\ r.name = w.fields[Len(w.results) + 1].name
     ELSE r.path = "none"
  /\ r.path # "none" => r.name \in Names
  /\ r.code = 200 => r.path \notin {"register", "login", "refresh"}
  /\ \A i \in DOMAIN w.results : w.results[i] # "null" => Done(o, w.fields[i])
  /\ w.data = "values" => /\ Len(w.results) = Len(w.fields)
                          /\ \A i \in DOMAIN w.results : w.results[i] # "null"

(* The operation and its request are sound: so is the whole.               *)
LEMMA OperationKeeps ==
  ASSUME IInv, NEW o \in Ops, NEW w, NEW r, OperationSound(o, w, r),
         op' = [op EXCEPT ![o] = w], request' = [request EXCEPT ![o] = r],
         UNCHANGED <<service, orphans, pageVars>>
  PROVE  IInv'
<1>1. /\ op \in [Ops -> Operation]
      /\ request \in [Callers -> Exchange]
      /\ o \in Callers
  BY DEF IInv, TypeOK, Auth!TypeOK, GW!TypeOK, Values, Callers, Operation, Exchange, Statuses
<1>2. /\ op'[o] = w /\ \A p \in Ops \ {o} : op'[p] = op[p]
      /\ request'[o] = r /\ \A c \in Callers \ {o} : request'[c] = request[c]
  BY <1>1
<1>3. TypeOK'
  <2>1. Auth!TypeOK'
    <3>1. request' \in [Callers -> Exchange]
      BY <1>1 DEF OperationSound
    <3> QED
      BY <3>1 DEF IInv, TypeOK, Auth!TypeOK, service, Exchange, Statuses
  <2>2. GW!TypeOK'
    BY <1>1 DEF OperationSound, GW!TypeOK, Values, Operation
  <2>3. Page!TypeOK'
    BY DEF IInv, TypeOK, Page!TypeOK, pageVars
  <2> QED
    BY <2>1, <2>2, <2>3 DEF TypeOK
<1>4. ASSUME NEW p \in Ops
      PROVE  AsCalled(p)' /\ FieldsDone(p)'
  <2>1. CASE p = o
    <3>1. AsCalled(o)'
      BY <1>2 DEF OperationSound, AsCalled, GW!AllDone, GW!Current
    <3>2. FieldsDone(o)'
      BY <1>2 DEF OperationSound, FieldsDone, Done, service
    <3> QED
      BY <2>1, <3>1, <3>2
  <2>2. CASE p # o
    <3>1. op'[p] = op[p] /\ request'[p] = request[p]
      BY <1>2, <2>2 DEF Callers
    <3>2. AsCalled(p) /\ FieldsDone(p)
      BY DEF IInv
    <3> QED
      BY <3>1, <3>2 DEF AsCalled, FieldsDone, Done, GW!AllDone, GW!Current, service
  <2> QED
    BY <2>1, <2>2
<1>5. ASSUME NEW c \in Callers
      PROVE  TrueAnswer(c)'
  <2>1. TrueAnswer(c)
    BY DEF IInv
  <2> QED
    BY <1>2, <2>1 DEF TrueAnswer, OperationSound, service
<1>6. (HonouredConfirmed /\ LoginsWatched /\ Watched)'
  <2>1. \A c \in Calls : request'[c] = request[c]
    BY <1>2, AccountsAssumption DEF Callers
  <2>2. Page!LoginsUnderWay' = Page!LoginsUnderWay
    BY <2>1 DEF Page!LoginsUnderWay
  <2> QED
    BY <2>2 DEF IInv, HonouredConfirmed, LoginsWatched, Watched, service, pageVars
<1> QED
  BY <1>3, <1>4, <1>5, <1>6 DEF IInv

(* The operation's next call.                                              *)
LEMMA CallKeeps ==
  ASSUME IInv, NEW o \in Ops, NEW path \in DOMAIN KindsOf, GW!Call(o, path), ~GW!AllDone(o),
         GW!Current(o).kind \in KindsOf[path], UNCHANGED <<service, orphans, pageVars>>
  PROVE  IInv'
<1> DEFINE w == [op[o] EXCEPT !.at = path]
           r == GW!Sent(path, GW!Current(o).name)
<1>1. AsCalled(o) /\ FieldsDone(o)
  BY DEF IInv
<1>2. /\ r \in [path : {path}, name : {GW!Current(o).name}, code : {0}, tokens : {FALSE}]
      /\ r.path = path /\ r.name = GW!Current(o).name /\ r.code = 0
  BY DEF GW!Sent, GW!Idle
<1>3. /\ path \in Auth!Paths \cup {"devices"} /\ path # "none"
      /\ path \in {"register", "username", "login", "refresh", "signout", "devices"}
  BY KindsFacts DEF Auth!Paths
<1>4. GW!Current(o).name \in Names
  BY OpFacts DEF Field
<1>5. /\ w.fields = op[o].fields /\ w.results = op[o].results /\ w.data = op[o].data
      /\ w.at = path
  BY OpFacts
<1>6. w.data # "values"
  BY <1>1 DEF FieldsDone, GW!AllDone
<1>7. OperationSound(o, w, r)
  <2>1. w \in Operation
    BY OpFacts, <1>3 DEF Operation
  <2>2. r \in Exchange
    <3> HIDE DEF r
    <3> QED
      BY <1>2, <1>3, <1>4 DEF Exchange, Statuses
  <2>3. Len(w.results) <= Len(w.fields) /\ Len(w.results) # Len(w.fields)
    BY <1>5, OpFacts DEF GW!AllDone
  <2>4. w.fields[Len(w.results) + 1] = GW!Current(o)
    BY <1>5 DEF GW!Current
  <2>5. r.path = w.at /\ r.name = GW!Current(o).name /\ r.code = 0
    BY <1>2, <1>5
  <2> HIDE DEF w, r
  <2> QED
    BY <1>1, <1>4, <1>5, <1>6, <2>1, <2>2, <2>3, <2>4, <2>5 DEF OperationSound, FieldsDone
<1>8. op' = [op EXCEPT ![o] = w] /\ request' = [request EXCEPT ![o] = r]
  BY DEF GW!Call
<1> QED
  BY <1>7, <1>8, OperationKeeps

(* Nothing is asked for: what IInv wants of an idle request.               *)
LEMMA IdleSound ==
  /\ GW!Idle \in Exchange
  /\ GW!Idle.path = "none" /\ GW!Idle.code = 0
BY DEF GW!Idle, Exchange, Statuses

(* A field has its result.                                                 *)
LEMMA ResultKeeps ==
  ASSUME IInv, NEW o \in Ops, NEW v \in Values, GW!Result(o, v), ~GW!AllDone(o),
         v # "null" => Done(o, GW!Current(o)), UNCHANGED <<service, orphans, pageVars>>
  PROVE  IInv'
<1> DEFINE w == [op[o] EXCEPT !.at = "next", !.results = Append(@, v)]
<1>1. AsCalled(o) /\ FieldsDone(o)
  BY DEF IInv
<1>2. /\ w.fields = op[o].fields /\ w.results = Append(op[o].results, v)
      /\ w.data = op[o].data /\ w.at = "next"
  BY OpFacts
<1>3. /\ w.results \in Seq(Values) /\ Len(w.results) = Len(op[o].results) + 1
      /\ DOMAIN w.results = 1 .. Len(op[o].results) + 1
      /\ DOMAIN op[o].results = 1 .. Len(op[o].results)
      /\ \A i \in DOMAIN op[o].results : w.results[i] = op[o].results[i]
      /\ w.results[Len(op[o].results) + 1] = v
  BY OpFacts, <1>2
<1>4. w.data # "values"
  BY <1>1, <1>2 DEF FieldsDone, GW!AllDone
<1>5. w \in Operation
  BY OpFacts, <1>3 DEF Operation
<1>6. Len(w.results) <= Len(w.fields)
  BY OpFacts, <1>2, <1>3 DEF GW!AllDone
<1>7. ASSUME NEW i \in DOMAIN w.results, w.results[i] # "null"
      PROVE  Done(o, w.fields[i])
  <2>1. CASE i \in DOMAIN op[o].results
    BY <1>1, <1>2, <1>3, <1>7, <2>1 DEF FieldsDone
  <2>2. CASE i \notin DOMAIN op[o].results
    <3>1. i = Len(op[o].results) + 1
      BY <1>3, <2>2, OpFacts
    <3> QED
      BY <1>2, <1>3, <1>7, <3>1 DEF GW!Current
  <2> QED
    BY <2>1, <2>2
<1>8. w.at \notin DOMAIN KindsOf
  BY <1>2, KindsFacts
<1>9. op' = [op EXCEPT ![o] = w] /\ request' = [request EXCEPT ![o] = GW!Idle]
  BY DEF GW!Result
<1> HIDE DEF w
<1>10. OperationSound(o, w, GW!Idle)
  BY <1>4, <1>5, <1>6, <1>7, <1>8, IdleSound DEF OperationSound
<1> QED
  BY <1>9, <1>10, OperationKeeps

(* The whole answer: values only when no field is null.                    *)
LEMMA AnswerKeeps ==
  ASSUME IInv, NEW o \in Ops, GW!Answer(o), UNCHANGED <<service, orphans, pageVars>>
  PROVE  IInv'
<1> DEFINE data == IF \E i \in DOMAIN op[o].results : op[o].results[i] = "null"
                   THEN "null" ELSE "values"
           w == [op[o] EXCEPT !.at = "answered", !.data = data]
<1>1. AsCalled(o) /\ FieldsDone(o) /\ op[o].at = "next" /\ GW!AllDone(o)
  BY DEF IInv, GW!Answer
<1>2. w.fields = op[o].fields /\ w.results = op[o].results /\ w.data = data /\ w.at = "answered"
  BY OpFacts
<1>3. w \in Operation
  BY OpFacts DEF Operation
<1>4. data = "values" => \A i \in DOMAIN op[o].results : op[o].results[i] # "null"
  OBVIOUS
<1>5. w.at \notin DOMAIN KindsOf /\ request[o].path = "none"
  BY <1>1, <1>2, KindsFacts DEF AsCalled
<1>6. /\ request[o] \in Exchange
      /\ request = [request EXCEPT ![o] = request[o]]
  BY DEF IInv, TypeOK, Auth!TypeOK, Callers, Exchange, Statuses
<1>7. op' = [op EXCEPT ![o] = w] /\ request' = [request EXCEPT ![o] = request[o]]
  <2>1. /\ op' = [op EXCEPT ![o].at = "answered", ![o].data = data]
        /\ UNCHANGED request
    BY DEF GW!Answer
  <2>2. op \in [Ops -> Operation]
    BY DEF IInv, TypeOK, GW!TypeOK, Values, Operation
  <2> HIDE DEF data
  <2> QED
    BY <1>6, <2>1, <2>2
<1>8. Len(w.results) = Len(w.fields) /\ Len(w.results) <= Len(w.fields)
  BY <1>1, <1>2, OpFacts DEF GW!AllDone
<1> HIDE DEF w
<1>9. OperationSound(o, w, request[o])
  BY <1>1, <1>2, <1>3, <1>4, <1>5, <1>6, <1>8 DEF OperationSound, FieldsDone
<1> QED
  BY <1>7, <1>9, OperationKeeps

(* A client sends its next operation.                                      *)
LEMMA ReceiveKeeps ==
  ASSUME IInv, NEW o \in Ops, NEW fields \in Operations, GW!Receive(o, fields),
         UNCHANGED <<service, orphans, pageVars>>
  PROVE  IInv'
<1> DEFINE w == [GW!None EXCEPT !.fields = fields, !.at = "next"]
<1>1. /\ w \in [fields : {fields}, results : {<<>>}, at : {"next"}, data : {"none"}]
      /\ w.fields = fields /\ w.results = <<>> /\ w.at = "next" /\ w.data = "none"
  BY DEF GW!None
<1>2. AsCalled(o) /\ op[o].at = "none"
  BY DEF IInv, GW!Receive
<1>3. w.at \notin DOMAIN KindsOf /\ request[o].path = "none"
  BY <1>1, <1>2, KindsFacts DEF AsCalled
<1>4. /\ request[o] \in Exchange
      /\ request = [request EXCEPT ![o] = request[o]]
  BY DEF IInv, TypeOK, Auth!TypeOK, Callers, Exchange, Statuses
<1>5. op' = [op EXCEPT ![o] = w] /\ request' = [request EXCEPT ![o] = request[o]]
  BY <1>4 DEF GW!Receive
<1>6. Len(w.results) = 0 /\ DOMAIN w.results = {} /\ w.data # "values"
  BY <1>1
<1>7. w \in Operation
  <2>1. <<>> \in Seq(Values)
    OBVIOUS
  <2> QED
    BY <1>1, <2>1 DEF Operation
<1>8. Len(w.fields) \in Nat
  <2>1. fields \in Seq(Field)
    BY AccountsAssumption, Zenon DEF Field
  <2> QED
    BY <1>1, <2>1
<1> HIDE DEF w
<1>9. OperationSound(o, w, request[o])
  BY <1>3, <1>4, <1>6, <1>7, <1>8 DEF OperationSound
<1> QED
  BY <1>5, <1>9, OperationKeeps

(* control-hub answers with the devices.                                   *)
LEMMA GetDevicesKeeps ==
  ASSUME IInv, NEW o \in Ops, GW!GetDevices(o), UNCHANGED <<service, orphans, pageVars>>
  PROVE  IInv'
<1>1. PICK code \in {200, 408} : request' = [request EXCEPT ![o].code = code]
  BY DEF GW!GetDevices
<1> DEFINE w == op[o]
           r == [request[o] EXCEPT !.code = code]
<1>2. /\ request[o] \in Exchange
      /\ op = [op EXCEPT ![o] = w]
  BY DEF IInv, TypeOK, Auth!TypeOK, GW!TypeOK, Callers, Exchange, Statuses
<1>3. /\ r.path = "devices" /\ request[o].path = "devices" /\ r.name = request[o].name
      /\ r \in Exchange
  BY <1>2 DEF GW!GetDevices, Auth!Codes, Exchange, Statuses
<1>4. AsCalled(o) /\ FieldsDone(o) /\ r.name \in Names
  BY <1>3 DEF IInv, TrueAnswer, Callers
<1>5. op' = [op EXCEPT ![o] = w] /\ request' = [request EXCEPT ![o] = r]
  BY <1>1, <1>2 DEF GW!GetDevices
<1>6. OperationSound(o, w, r)
  <2> HIDE DEF r
  <2>1. IF op[o].at \in DOMAIN KindsOf
        THEN /\ Len(op[o].results) # Len(op[o].fields)
             /\ op[o].fields[Len(op[o].results) + 1].kind \in KindsOf[op[o].at]
             /\ r.path = op[o].at /\ r.name = op[o].fields[Len(op[o].results) + 1].name
        ELSE r.path = "none"
    BY <1>3, <1>4 DEF AsCalled, GW!AllDone, GW!Current
  <2> QED
    BY <1>3, <1>4, <2>1, OpFacts DEF OperationSound, FieldsDone
<1> HIDE DEF w, r
<1> QED
  BY <1>5, <1>6, OperationKeeps

(* Whatever the gateway does.                                              *)
LEMMA GatewayKeeps ==
  ASSUME IInv, GW!Next, UNCHANGED <<service, orphans, pageVars>>
  PROVE  IInv'
<1>1. PICK o \in Ops : GW!Step(o) \/ GW!GetDevices(o)
                       \/ \E fields \in Operations : GW!Receive(o, fields)
  BY DEF GW!Next
<1>2. CASE GW!Step(o)
  BY <1>2, StepShapes, CallKeeps, ResultKeeps, AnswerKeeps
<1>3. CASE GW!GetDevices(o)
  BY <1>3, GetDevicesKeeps
<1>4. ASSUME NEW fields \in Operations, GW!Receive(o, fields)
      PROVE  IInv'
  BY <1>4, ReceiveKeeps, Zenon
<1> QED
  BY <1>1, <1>2, <1>3, <1>4

-----------------------------------------------------------------------------
(* auth-service: names keep their owner, and who is confirmed stays so.    *)

\* The users' pool is a pool, and what was true of a name still is.
PoolKeeps ==
  /\ pool' \in [Names -> Pool]
  /\ honoured' \subseteq Names /\ results' \in 0 .. CacheSize
  /\ \A n \in Names : /\ pool[n].by # "nobody" => pool'[n].by = pool[n].by
                      /\ pool[n].confirmed => pool'[n].confirmed
  /\ HonouredConfirmed'

(* What the users' pool is, and the requests.                              *)
LEMMA PoolFacts ==
  ASSUME IInv
  PROVE  /\ pool \in [Names -> Pool]
         /\ honoured \subseteq Names /\ results \in 0 .. CacheSize
         /\ HonouredConfirmed
         /\ orphans \subseteq [path : Auth!Paths, name : Names, by : Auth!Users]
         /\ request \in [Callers -> Exchange]
         /\ \A n \in Names : /\ pool[n].by # "nobody" => Auth!Taken(n)
                             /\ pool[n].confirmed => Auth!Taken(n)
         /\ CacheSize \in Nat /\ "nobody" \notin Auth!Users
         /\ \A c \in Callers : UserOf[c] \in Auth!Users
<1>1. /\ pool \in [Names -> Pool]
      /\ honoured \subseteq Names /\ results \in 0 .. CacheSize /\ HonouredConfirmed
      /\ orphans \subseteq [path : Auth!Paths, name : Names, by : Auth!Users]
      /\ request \in [Callers -> Exchange]
  BY DEF IInv, TypeOK, Auth!TypeOK, Exchange, Pool, Statuses
<1>2. CacheSize \in Nat /\ "nobody" \notin Auth!Users
  BY AccountsAssumption DEF Auth!AuthAssumption
<1>3. \A c \in Callers : UserOf[c] \in Auth!Users
  BY DEF Auth!Users
<1>4. \A n \in Names : /\ pool[n].by # "nobody" => Auth!Taken(n)
                       /\ pool[n].confirmed => Auth!Taken(n)
  BY DEF Auth!Taken, Auth!Free
<1> QED
  BY <1>1, <1>2, <1>3, <1>4

(* What a handler does and answers.                                        *)
LEMMA HandleKeeps ==
  ASSUME IInv, NEW path \in Auth!Paths, NEW n \in Names, NEW by \in Auth!Users,
         NEW code \in Auth!Codes, NEW tokens \in BOOLEAN,
         Auth!Handle(path, n, by, code, tokens)
  PROVE  /\ PoolKeeps
         /\ path = "register" /\ code = 200 => pool'[n].by = by
         /\ path \in {"login", "refresh"} /\ tokens => pool'[n].confirmed
<1>1. CASE path = "register" /\ Auth!Register(n, by, code) /\ ~tokens
  <2>1. CASE Auth!Taken(n)
    BY <1>1, <2>1, PoolFacts DEF Auth!Register, PoolKeeps, HonouredConfirmed
  <2>2. CASE ~Auth!Taken(n) /\ code # 200
    BY <1>1, <2>2, PoolFacts DEF Auth!Register, PoolKeeps, HonouredConfirmed
  <2>3. CASE ~Auth!Taken(n) /\ code = 200
    <3>1. pool' = [pool EXCEPT ![n] = [by |-> by, confirmed |-> FALSE]]
          /\ UNCHANGED <<honoured, results>>
      BY <1>1, <2>3 DEF Auth!Register
    <3>2. n \notin honoured /\ pool[n].by = "nobody" /\ ~pool[n].confirmed
      BY <2>3, PoolFacts DEF HonouredConfirmed
    <3>3. /\ pool' \in [Names -> Pool]
          /\ pool'[n].by = by /\ \A m \in Names \ {n} : pool'[m] = pool[m]
      BY <3>1, PoolFacts DEF Pool
    <3>4. HonouredConfirmed'
      BY <3>1, <3>2, <3>3, PoolFacts DEF HonouredConfirmed
    <3>5. \A m \in Names : /\ pool[m].by # "nobody" => pool'[m].by = pool[m].by
                           /\ pool[m].confirmed => pool'[m].confirmed
      BY <3>2, <3>3
    <3> QED
      BY <1>1, <3>1, <3>3, <3>4, <3>5, PoolFacts DEF PoolKeeps
  <2> QED
    BY <2>1, <2>2, <2>3
<1>2. CASE path = "username" /\ Auth!Username(n, code) /\ ~tokens
  BY <1>2, PoolFacts DEF Auth!Username, PoolKeeps, HonouredConfirmed
<1>3. CASE path = "signout" /\ Auth!Signout(n, code) /\ ~tokens
  BY <1>3, PoolFacts DEF Auth!Signout, PoolKeeps, HonouredConfirmed
<1>4. CASE path \in {"login", "refresh"} /\ Auth!Login(path, n, code, tokens)
  <2>1. UNCHANGED pool /\ honoured' \subseteq honoured \cup {n}
        /\ (tokens \/ n \in honoured' \ honoured => pool[n].confirmed)
    BY <1>4, PoolFacts DEF Auth!Login, HonouredConfirmed
  <2>2. results' \in 0 .. CacheSize
    BY <1>4, PoolFacts DEF Auth!Login, Auth!KeepResult
  <2>3. HonouredConfirmed'
    BY <2>1, PoolFacts DEF HonouredConfirmed
  <2> QED
    BY <1>4, <2>1, <2>2, <2>3, PoolFacts DEF PoolKeeps
<1> QED
  BY <1>1, <1>2, <1>3, <1>4 DEF Auth!Handle

(* Requests stay what they are about, and answers are true: so is all else. *)
LEMMA ServiceKeeps ==
  ASSUME IInv, PoolKeeps, UNCHANGED <<op, pageVars>>,
         orphans' \subseteq [path : Auth!Paths, name : Names, by : Auth!Users],
         request' \in [Callers -> Exchange],
         \A c \in Callers : /\ request'[c].path = request[c].path
                            /\ request'[c].name = request[c].name
                            /\ TrueAnswer(c)'
  PROVE  IInv'
<1>1. TypeOK'
  <2>1. Auth!TypeOK'
    BY DEF PoolKeeps, Auth!TypeOK, Exchange, Pool, Statuses
  <2>2. GW!TypeOK' /\ Page!TypeOK'
    BY DEF IInv, TypeOK, GW!TypeOK, Page!TypeOK, pageVars
  <2> QED
    BY <2>1, <2>2 DEF TypeOK
<1>2. ASSUME NEW o \in Ops
      PROVE  AsCalled(o)' /\ FieldsDone(o)'
  <2>1. AsCalled(o) /\ FieldsDone(o) /\ o \in Callers
    BY DEF IInv, Callers
  <2>2. AsCalled(o)'
    BY <2>1 DEF AsCalled, GW!AllDone, GW!Current
  <2>3. ASSUME NEW i \in DOMAIN op[o].results, Done(o, op[o].fields[i])
        PROVE  Done(o, op[o].fields[i])'
    <3> DEFINE f == op[o].fields[i]
    <3>1. f \in Field
      <4>1. i \in DOMAIN op[o].fields
        BY OpFacts
      <4> QED
        BY <4>1, OpFacts
    <3>2. f.name \in Names /\ UserOf[o] # "nobody"
      BY <2>1, <3>1, PoolFacts DEF Field
    <3> QED
      BY <2>3, <3>2 DEF Done, PoolKeeps
  <2>4. FieldsDone(o)'
    BY <2>1, <2>3 DEF FieldsDone
  <2> QED
    BY <2>2, <2>4
<1>3. (LoginsWatched /\ Watched)'
  <2>1. Page!LoginsUnderWay' = Page!LoginsUnderWay
    BY DEF Page!LoginsUnderWay, Callers
  <2> QED
    BY <2>1 DEF IInv, LoginsWatched, Watched, pageVars
<1> QED
  BY <1>1, <1>2, <1>3 DEF IInv, PoolKeeps

(* An answer that is still true when names keep their owner.               *)
LEMMA AnswerStays ==
  ASSUME IInv, PoolKeeps, NEW c \in Callers, request'[c] = request[c]
  PROVE  TrueAnswer(c)'
<1>1. TrueAnswer(c) /\ UserOf[c] # "nobody"
  BY PoolFacts DEF IInv
<1>2. request[c].code = 200 /\ request[c].path # "none" => request[c].name \in Names
  BY <1>1 DEF TrueAnswer
<1> QED
  BY <1>1, <1>2 DEF TrueAnswer, PoolKeeps

\* The exchange of a caller has an answer.
Replied(c, code, tokens) ==
  request' = [request EXCEPT ![c].code = code, ![c].tokens = tokens]

(* It is about what it was about; the others are as they were.             *)
LEMMA Answering ==
  ASSUME IInv, NEW c \in Callers, NEW code \in Statuses,
         NEW tokens \in BOOLEAN, Replied(c, code, tokens)
  PROVE  /\ request' \in [Callers -> Exchange]
         /\ request'[c].path = request[c].path /\ request'[c].name = request[c].name
         /\ request'[c].code = code /\ request'[c].tokens = tokens
         /\ \A d \in Callers \ {c} : request'[d] = request[d]
<1> DEFINE r == [request[c] EXCEPT !.code = code, !.tokens = tokens]
<1>1. /\ request[c] \in Exchange
      /\ c \in DOMAIN request /\ DOMAIN request = Callers
      /\ request = [d \in Callers |-> request[d]]
  BY PoolFacts
<1>2. request' = [request EXCEPT ![c] = r]
  BY <1>1 DEF Replied
<1>3. /\ r.path = request[c].path /\ r.name = request[c].name
      /\ r.code = code /\ r.tokens = tokens
  BY <1>1
<1>4. r \in Exchange
  BY <1>1 DEF Exchange
<1> HIDE DEF r
<1> QED
  BY <1>2, <1>3, <1>4, PoolFacts

(* A handler answers its caller.                                           *)
LEMMA ServeKeeps ==
  ASSUME IInv, NEW c \in Callers, Auth!Serve(c), UNCHANGED <<op, pageVars>>
  PROVE  IInv'
<1>1. PICK code \in Auth!Codes, tokens \in BOOLEAN :
        /\ Auth!Handle(request[c].path, request[c].name, UserOf[c], code, tokens)
        /\ Replied(c, code, tokens)
  BY DEF Auth!Serve, Replied
<1> DEFINE path == request[c].path
           n == request[c].name
<1>2. /\ path \in Auth!Paths /\ n \in Names /\ UserOf[c] \in Auth!Users
      /\ UNCHANGED orphans
  <2>1. path # "none" /\ UNCHANGED orphans
    BY DEF Auth!Serve, Auth!Waiting
  <2>2. n \in Names
    BY <2>1 DEF IInv, TrueAnswer
  <2>3. path \in Auth!Paths
    BY <1>1, <2>1 DEF Auth!Handle, Auth!Paths
  <2> QED
    BY <2>1, <2>2, <2>3, PoolFacts
<1>3. /\ PoolKeeps
      /\ path = "register" /\ code = 200 => pool'[n].by = UserOf[c]
      /\ path \in {"login", "refresh"} /\ tokens => pool'[n].confirmed
  BY <1>1, <1>2, HandleKeeps
<1>4. /\ request' \in [Callers -> Exchange]
      /\ request'[c].path = path /\ request'[c].name = n
      /\ request'[c].code = code /\ request'[c].tokens = tokens
      /\ \A d \in Callers \ {c} : request'[d] = request[d]
  <2>1. code \in Statuses
    BY DEF Statuses
  <2> QED
    BY <1>1, <2>1, Answering
<1>5. TrueAnswer(c)'
  BY <1>2, <1>3, <1>4 DEF TrueAnswer
<1>6. \A d \in Callers \ {c} : TrueAnswer(d)'
  BY <1>3, <1>4, AnswerStays
<1>7. /\ orphans' \subseteq [path : Auth!Paths, name : Names, by : Auth!Users]
      /\ \A d \in Callers : /\ request'[d].path = request[d].path
                            /\ request'[d].name = request[d].name
                            /\ TrueAnswer(d)'
  BY <1>2, <1>4, <1>5, <1>6, PoolFacts
<1> QED
  BY <1>3, <1>4, <1>7, ServiceKeeps

(* Requests whose callers go are about names.                              *)
LEMMA OrphansTyped ==
  ASSUME IInv, NEW cs \in SUBSET Callers, NEW left \in Auth!Orphaned(cs)
  PROVE  left \subseteq [path : Auth!Paths, name : Names, by : Auth!Users]
<1>1. PICK gone \in SUBSET {c \in cs : Auth!Waiting(c) /\ request[c].path \in Auth!Paths} :
        left = orphans \cup {[path |-> request[c].path, name |-> request[c].name,
                              by |-> UserOf[c]] : c \in gone}
  BY DEF Auth!Orphaned
<1>2. ASSUME NEW c \in gone
      PROVE  [path |-> request[c].path, name |-> request[c].name, by |-> UserOf[c]]
               \in [path : Auth!Paths, name : Names, by : Auth!Users]
  <2>1. c \in Callers /\ request[c].path \in Auth!Paths /\ request[c].path # "none"
    BY <1>1 DEF Auth!Waiting
  <2>2. request[c].name \in Names
    BY <2>1 DEF IInv, TrueAnswer
  <2> QED
    BY <2>1, <2>2, PoolFacts
<1> QED
  BY <1>1, <1>2, PoolFacts

(* A connection breaks.                                                    *)
LEMMA BreakKeeps ==
  ASSUME IInv, NEW c \in Callers, Auth!Break(c), UNCHANGED <<op, pageVars>>
  PROVE  IInv'
<1>1. PICK tokens \in BOOLEAN : ~tokens /\ Replied(c, Auth!Broken, tokens)
  BY DEF Auth!Break, Replied
<1>2. UNCHANGED <<pool, honoured, results>> /\ orphans' \in Auth!Orphaned({c})
  BY DEF Auth!Break
<1>3. PoolKeeps
  BY <1>2, PoolFacts DEF PoolKeeps, HonouredConfirmed
<1>4. /\ request' \in [Callers -> Exchange]
      /\ request'[c].path = request[c].path /\ request'[c].name = request[c].name
      /\ request'[c].code # 200
      /\ \A d \in Callers \ {c} : request'[d] = request[d]
  <2>1. Auth!Broken \in Statuses
        /\ Auth!Broken # 200
    BY DEF Auth!Broken, Statuses
  <2> QED
    BY <1>1, <2>1, Answering
<1>5. TrueAnswer(c)'
  BY <1>4 DEF IInv, TrueAnswer
<1>6. \A d \in Callers \ {c} : TrueAnswer(d)'
  BY <1>3, <1>4, AnswerStays
<1>7. orphans' \subseteq [path : Auth!Paths, name : Names, by : Auth!Users]
  BY <1>2, OrphansTyped
<1>8. \A d \in Callers : /\ request'[d].path = request[d].path
                         /\ request'[d].name = request[d].name
                         /\ TrueAnswer(d)'
  BY <1>4, <1>5, <1>6
<1> QED
  BY <1>3, <1>4, <1>7, <1>8, ServiceKeeps

(* The service works on without a caller: nothing is answered.             *)
LEMMA AloneKeeps ==
  ASSUME IInv, PoolKeeps, UNCHANGED <<op, pageVars, request>>, orphans' \subseteq orphans
  PROVE  IInv'
<1>1. /\ orphans' \subseteq [path : Auth!Paths, name : Names, by : Auth!Users]
      /\ request' \in [Callers -> Exchange]
  BY PoolFacts
<1>2. \A c \in Callers : /\ request'[c].path = request[c].path
                         /\ request'[c].name = request[c].name
                         /\ TrueAnswer(c)'
  BY AnswerStays
<1> QED
  BY <1>1, <1>2, ServiceKeeps

(* Whatever the service does.                                              *)
LEMMA AuthKeeps ==
  ASSUME IInv, Auth!Next, UNCHANGED <<op, pageVars>>
  PROVE  IInv'
<1>1. CASE \E c \in Callers : Auth!Serve(c) \/ Auth!Break(c)
  BY <1>1, ServeKeeps, BreakKeeps
<1>2. ASSUME NEW q \in orphans, Auth!ServeOrphan(q)
      PROVE  IInv'
  <2>1. q \in [path : Auth!Paths, name : Names, by : Auth!Users]
    BY PoolFacts
  <2>2. PICK code \in Auth!Codes, tokens \in BOOLEAN :
          Auth!Handle(q.path, q.name, q.by, code, tokens)
    BY <1>2 DEF Auth!ServeOrphan
  <2>3. PoolKeeps
    BY <2>1, <2>2, HandleKeeps
  <2>4. orphans' \subseteq orphans /\ UNCHANGED request
    BY <1>2 DEF Auth!ServeOrphan
  <2> QED
    BY <2>3, <2>4, AloneKeeps
<1>3. ASSUME NEW n \in Names, Auth!Confirm(n)
      PROVE  IInv'
  <2>1. /\ UNCHANGED <<honoured, results, request, orphans>>
        /\ \/ UNCHANGED pool
           \/ pool' = [pool EXCEPT ![n].confirmed = TRUE]
    BY <1>3 DEF Auth!Confirm, Auth!OTP
  <2>2. PoolKeeps
    <3>1. CASE UNCHANGED pool
      BY <2>1, <3>1, PoolFacts DEF PoolKeeps, HonouredConfirmed
    <3>2. CASE pool' = [pool EXCEPT ![n].confirmed = TRUE]
      <4>1. /\ pool' \in [Names -> Pool]
            /\ \A m \in Names : /\ pool'[m].by = pool[m].by
                                /\ pool[m].confirmed => pool'[m].confirmed
        <5> DEFINE r == [pool[n] EXCEPT !.confirmed = TRUE]
        <5>1. /\ r \in Pool
              /\ r.by = pool[n].by /\ r.confirmed
          <6>1. pool[n] \in Pool
            BY PoolFacts
          <6>2. r \in Pool
            BY <6>1 DEF Pool
          <6>3. r.by = pool[n].by /\ r.confirmed = TRUE
            BY <6>1 DEF Pool
          <6> QED
            BY <6>2, <6>3
        <5>2. pool' = [pool EXCEPT ![n] = r]
          BY <3>2
        <5> HIDE DEF r
        <5> QED
          BY <5>1, <5>2, PoolFacts
      <4> QED
        BY <2>1, <4>1, PoolFacts DEF PoolKeeps, HonouredConfirmed
    <3> QED
      BY <2>1, <3>1, <3>2
  <2> QED
    BY <2>1, <2>2, AloneKeeps
<1> QED
  BY <1>1, <1>2, <1>3 DEF Auth!Next

-----------------------------------------------------------------------------
(* The login page: who is logged in is watched.                            *)

Functions == {"login", "logout", "unset", "home"} \cup Calls

(* What the page knows of its calls and watchers.                          *)
LEMMA PageFacts ==
  ASSUME IInv
  PROVE  /\ Page!TypeOK /\ LoginsWatched /\ Watched /\ watchers \in Nat /\ MaxWatchers \in Nat
         /\ dispatched \in Seq(Functions)
         /\ IsFiniteSet(Page!LoginsUnderWay) /\ Cardinality(Page!LoginsUnderWay) \in Nat
         /\ watchers + Cardinality(Page!LoginsUnderWay) <= MaxWatchers
         /\ Calls \subseteq Callers /\ Email \in Names /\ Local \in Names
<1>1. Page!TypeOK /\ LoginsWatched /\ Watched /\ MaxWatchers \in Nat
  BY AccountsAssumption DEF IInv, TypeOK
<1>2. watchers \in Nat /\ dispatched \in Seq(Functions)
  <2>1. watchers \in 0 .. MaxWatchers /\ dispatched \in Seq(Functions)
    BY <1>1, Zenon DEF Page!TypeOK, Functions
  <2> QED
    BY <1>1, <2>1
<1>3. IsFiniteSet(Page!LoginsUnderWay) /\ Cardinality(Page!LoginsUnderWay) \in Nat
  <2>1. Page!LoginsUnderWay \subseteq Calls /\ IsFiniteSet(Calls)
    BY AccountsAssumption DEF Page!LoginsUnderWay
  <2> QED
    BY <2>1, FS_Subset, FS_CardinalityType
<1>4. Calls \subseteq Callers /\ Email \in Names /\ Local \in Names
  BY AccountsAssumption DEF Callers
<1> QED
  BY <1>1, <1>2, <1>3, <1>4 DEF LoginsWatched

(* The page is sound, and its requests are: so is all else.                *)
LEMMA PageKeeps ==
  ASSUME IInv, UNCHANGED <<service, op>>,
         orphans' \subseteq [path : Auth!Paths, name : Names, by : Auth!Users],
         request' \in [Callers -> Exchange],
         \A o \in Ops : request'[o] = request[o],
         \A c \in Calls : TrueAnswer(c)',
         Page!TypeOK', LoginsWatched', Watched'
  PROVE  IInv'
<1>1. TypeOK'
  <2>1. Auth!TypeOK'
    BY PoolFacts DEF Auth!TypeOK, service, Exchange, Statuses, Pool
  <2>2. GW!TypeOK'
    BY DEF IInv, TypeOK, GW!TypeOK
  <2> QED
    BY <2>1, <2>2 DEF TypeOK
<1>2. ASSUME NEW o \in Ops
      PROVE  AsCalled(o)' /\ FieldsDone(o)'
  <2>1. AsCalled(o) /\ FieldsDone(o)
    BY DEF IInv
  <2> QED
    BY <2>1 DEF AsCalled, FieldsDone, Done, GW!AllDone, GW!Current, service
<1>3. ASSUME NEW o \in Ops
      PROVE  TrueAnswer(o)'
  <2>1. TrueAnswer(o)
    BY DEF IInv, Callers
  <2> QED
    BY <2>1 DEF TrueAnswer, service
<1>4. \A c \in Callers : TrueAnswer(c)'
  BY <1>3 DEF Callers
<1>5. HonouredConfirmed'
  BY PoolFacts DEF HonouredConfirmed, service
<1> QED
  BY <1>1, <1>2, <1>4, <1>5 DEF IInv

(* A request of the page is begun or over: nothing has been answered.      *)
LEMMA RequestKeeps ==
  ASSUME IInv, NEW c \in Calls, NEW r \in Exchange, r.code = 0,
         r.path # "none" => r.name \in Names,
         UNCHANGED <<service, op, orphans>>, request' = [request EXCEPT ![c] = r],
         Page!TypeOK', LoginsWatched', Watched'
  PROVE  IInv'
<1>1. c \in Callers /\ c \notin Ops /\ request \in [Callers -> Exchange]
  BY PageFacts, PoolFacts, AccountsAssumption
<1>2. /\ request' \in [Callers -> Exchange] /\ request'[c] = r
      /\ \A d \in Callers \ {c} : request'[d] = request[d]
  BY <1>1
<1>3. \A o \in Ops : request'[o] = request[o]
  BY <1>1, <1>2 DEF Callers
<1>4. ASSUME NEW d \in Calls
      PROVE  TrueAnswer(d)'
  <2>1. TrueAnswer(d) /\ d \in Callers
    BY PageFacts DEF IInv
  <2>2. CASE d = c
    BY <1>2, <2>2 DEF TrueAnswer
  <2>3. CASE d # c
    BY <1>2, <2>1, <2>3 DEF TrueAnswer, service
  <2> QED
    BY <2>2, <2>3
<1>5. orphans' \subseteq [path : Auth!Paths, name : Names, by : Auth!Users]
  BY PoolFacts
<1> QED
  BY <1>2, <1>3, <1>4, <1>5, PageKeeps

(* The requests of the page stay as they are.                              *)
LEMMA ScreenKeeps ==
  ASSUME IInv, UNCHANGED <<service, op, orphans, request>>,
         Page!TypeOK', LoginsWatched', Watched'
  PROVE  IInv'
<1>1. /\ orphans' \subseteq [path : Auth!Paths, name : Names, by : Auth!Users]
      /\ request' \in [Callers -> Exchange]
  BY PoolFacts
<1>2. \A c \in Calls : TrueAnswer(c)'
  <2>1. \A c \in Calls : TrueAnswer(c)
    BY PageFacts DEF IInv
  <2> QED
    BY <2>1 DEF TrueAnswer, service
<1> QED
  BY <1>1, <1>2, PageKeeps

(* The page's requests, to begin with and when they are closed.            *)
LEMMA SentSound ==
  ASSUME IInv, NEW path \in {"login", "register"}, NEW n \in Names
  PROVE  /\ Page!Sent(path, n) \in Exchange /\ Page!Sent(path, n).path = path
         /\ Page!Sent(path, n).name = n /\ Page!Sent(path, n).code = 0
         /\ Page!Idle \in Exchange /\ Page!Idle.path = "none" /\ Page!Idle.code = 0
<1>1. /\ Page!Sent(path, n) \in [path : {path}, name : {n}, code : {0}, tokens : {FALSE}]
      /\ Page!Sent(path, n).path = path /\ Page!Sent(path, n).name = n
      /\ Page!Sent(path, n).code = 0
  BY DEF Page!Sent, Page!Idle
<1>2. path \in Auth!Paths /\ 0 \in Statuses
  BY DEF Auth!Paths, Statuses
<1>3. Page!Sent(path, n) \in Exchange
  BY <1>1, <1>2 DEF Exchange
<1>4. Page!Idle \in Exchange /\ Page!Idle.path = "none" /\ Page!Idle.code = 0
  BY <1>2 DEF Page!Idle, Exchange
<1> QED
  BY <1>1, <1>3, <1>4

(* A request changes: the logins under way are the same but for it.        *)
LEMMA LoginsAfter ==
  ASSUME IInv, NEW c \in Calls, NEW r, request' = [request EXCEPT ![c] = r]
  PROVE  Page!LoginsUnderWay' = IF r.path = "login" THEN Page!LoginsUnderWay \cup {c}
                                ELSE Page!LoginsUnderWay \ {c}
<1>1. request'[c] = r /\ \A d \in Calls \ {c} : request'[d] = request[d]
  BY PoolFacts, PageFacts
<1> QED
  BY <1>1 DEF Page!LoginsUnderWay

(* The user begins a login or a sign-up.                                   *)
LEMMA ButtonKeeps ==
  ASSUME IInv, NEW c \in Calls, Page!OnLoginButtonPress(c), UNCHANGED <<service, orphans, op>>
  PROVE  IInv'
<1> DEFINE r == Page!Sent("login", Email)
<1>1. /\ request' = [request EXCEPT ![c] = r] /\ request[c] = Page!Idle
      /\ UNCHANGED <<page, mode, mounted, loggedIn, expired, watchers, dispatched>>
      /\ watchers + Cardinality(Page!LoginsUnderWay) < MaxWatchers
  <2>1. request' = [request EXCEPT ![c] = r] /\ request[c] = Page!Idle
    BY DEF Page!OnLoginButtonPress
  <2>2. UNCHANGED <<page, mode, mounted, loggedIn, expired, watchers, dispatched>>
    BY DEF Page!OnLoginButtonPress
  <2>3. watchers + Cardinality(Page!LoginsUnderWay) < MaxWatchers
    BY Zenon DEF Page!OnLoginButtonPress, Cardinality, Page!Cardinality
  <2> QED
    BY <2>1, <2>2, <2>3
<1>2. /\ r \in Exchange /\ r.path = "login" /\ r.name = Email /\ r.code = 0
      /\ Email \in Names /\ Page!Idle.path = "none"
  BY SentSound, PageFacts
<1> HIDE DEF r
<1>3. Page!LoginsUnderWay' = Page!LoginsUnderWay \cup {c} /\ c \notin Page!LoginsUnderWay
  BY <1>1, <1>2, LoginsAfter DEF Page!LoginsUnderWay
<1>4. watchers + Cardinality(Page!LoginsUnderWay)' <= MaxWatchers
  <2>1. Cardinality(Page!LoginsUnderWay \cup {c}) = Cardinality(Page!LoginsUnderWay) + 1
    BY <1>3, PageFacts, FS_AddElement
  <2> QED
    BY <1>1, <1>3, <2>1, PageFacts
<1>5. Page!TypeOK' /\ LoginsWatched' /\ Watched'
  BY <1>1, <1>4, PageFacts DEF Page!TypeOK, LoginsWatched, Watched
<1> QED
  BY <1>1, <1>2, <1>5, RequestKeeps

(* A sign-up is begun: no login is.                                        *)
LEMMA SingupRequestKeeps ==
  ASSUME IInv, NEW c \in Calls, Page!OnSingupRequest(c), UNCHANGED <<service, orphans, op>>
  PROVE  IInv'
<1> DEFINE r == Page!Sent("register", Local)
<1>1. /\ request' = [request EXCEPT ![c] = r] /\ request[c] = Page!Idle
      /\ UNCHANGED <<page, mode, loggedIn, expired, watchers, dispatched>>
      /\ mounted' = mounted \cup {c}
  BY DEF Page!OnSingupRequest
<1>2. /\ r \in Exchange /\ r.path = "register" /\ r.name = Local /\ r.code = 0
      /\ Local \in Names /\ Page!Idle.path = "none"
  BY SentSound, PageFacts
<1> HIDE DEF r
<1>3. Page!LoginsUnderWay' = Page!LoginsUnderWay
  BY <1>1, <1>2, LoginsAfter DEF Page!LoginsUnderWay
<1>4. Page!TypeOK'
  BY <1>1, PageFacts DEF Page!TypeOK
<1>5. LoginsWatched' /\ Watched'
  BY <1>1, <1>3, PageFacts DEF LoginsWatched, Watched
<1> QED
  BY <1>1, <1>2, <1>4, <1>5, RequestKeeps

(* Another function for the thread that draws.                             *)
LEMMA DispatchFacts ==
  ASSUME IInv, NEW f \in Functions, Page!Dispatch(f)
  PROVE  /\ dispatched' \in Seq(Functions)
         /\ (\E i \in DOMAIN dispatched : dispatched[i] = "home")
              => \E i \in DOMAIN dispatched' : dispatched'[i] = "home"
         /\ (\E i \in DOMAIN dispatched' : dispatched'[i] = "login")
              => f = "login" \/ \E i \in DOMAIN dispatched : dispatched[i] = "login"
<1>1. dispatched' = Append(dispatched, f) /\ dispatched \in Seq(Functions)
  BY PageFacts DEF Page!Dispatch
<1>2. /\ dispatched' \in Seq(Functions)
      /\ DOMAIN dispatched = 1 .. Len(dispatched) /\ Len(dispatched) \in Nat
      /\ DOMAIN dispatched' = 1 .. Len(dispatched) + 1
      /\ \A i \in 1 .. Len(dispatched) : dispatched'[i] = dispatched[i]
      /\ dispatched'[Len(dispatched) + 1] = f
  BY <1>1
<1>3. \A i \in DOMAIN dispatched' : i \in DOMAIN dispatched \/ i = Len(dispatched) + 1
  BY <1>2
<1>4. \A i \in DOMAIN dispatched : i \in DOMAIN dispatched'
  BY <1>2
<1> QED
  BY <1>2, <1>3, <1>4

(* A login has its answer: with a watcher when it is good.                 *)
LEMMA LoginReturnsKeeps ==
  ASSUME IInv, NEW c \in Calls, Page!LoginReturns(c), UNCHANGED <<service, orphans, op>>
  PROVE  IInv'
<1>1. /\ request' = [request EXCEPT ![c] = Page!Idle]
      /\ request[c].path = "login" /\ UNCHANGED <<page, mode, mounted>>
  BY DEF Page!LoginReturns, Page!Close, Page!Answered
<1>2. Page!Idle \in Exchange /\ Page!Idle.path = "none" /\ Page!Idle.code = 0
  BY SentSound, PageFacts
<1>3. /\ Page!LoginsUnderWay' = Page!LoginsUnderWay \ {c} /\ c \in Page!LoginsUnderWay
      /\ Cardinality(Page!LoginsUnderWay)' = Cardinality(Page!LoginsUnderWay) - 1
  <2>1. Page!LoginsUnderWay' = Page!LoginsUnderWay \ {c} /\ c \in Page!LoginsUnderWay
    BY <1>1, <1>2, LoginsAfter DEF Page!LoginsUnderWay
  <2> QED
    BY <2>1, PageFacts, FS_RemoveElement
<1>4. CASE request[c].code = 1
  <2>1. Page!Dispatch("logout") /\ UNCHANGED <<loggedIn, expired, watchers>>
    BY <1>4 DEF Page!LoginReturns
  <2>2. "logout" \in Functions /\ "logout" # "login"
    BY DEF Functions
  <2>3. Page!TypeOK'
    BY <1>1, <2>1, <2>2, DispatchFacts, PageFacts DEF Page!TypeOK, Functions
  <2>4. LoginsWatched' /\ Watched'
    BY <1>1, <1>3, <2>1, <2>2, DispatchFacts, PageFacts DEF LoginsWatched, Watched
  <2> QED
    BY <1>1, <1>2, <2>3, <2>4, RequestKeeps
<1>5. CASE /\ request[c].code = 200 /\ Page!Dispatch("unset")
           /\ UNCHANGED <<loggedIn, expired, watchers>>
  <2>1. "unset" \in Functions /\ "unset" # "login"
    BY DEF Functions
  <2>2. Page!TypeOK'
    BY <1>1, <1>5, <2>1, DispatchFacts, PageFacts DEF Page!TypeOK, Functions
  <2>3. LoginsWatched' /\ Watched'
    BY <1>1, <1>3, <1>5, <2>1, DispatchFacts, PageFacts DEF LoginsWatched, Watched
  <2> QED
    BY <1>1, <1>2, <2>2, <2>3, RequestKeeps
<1>6. CASE /\ request[c].code = 200
           /\ ~(Page!Dispatch("unset") /\ UNCHANGED <<loggedIn, expired, watchers>>)
  <2>1. /\ Page!Dispatch("login") /\ UNCHANGED loggedIn
        /\ expired' = ~request[c].tokens /\ watchers' = watchers + 1
    BY <1>6 DEF Page!LoginReturns
  <2>2. "login" \in Functions
    BY DEF Functions
  <2>3. watchers' > 0 /\ watchers' \in Nat
        /\ watchers' + Cardinality(Page!LoginsUnderWay)' <= MaxWatchers
        /\ Cardinality(Page!LoginsUnderWay)' \in Nat
    <3>1. Cardinality(Page!LoginsUnderWay) >= 1
      BY <1>3, PageFacts, FS_EmptySet
    <3> QED
      BY <1>3, <2>1, <3>1, PageFacts
  <2>4. Page!TypeOK'
    <3>1. expired' \in BOOLEAN
      BY <2>1
    <3>2. watchers' \in 0 .. MaxWatchers
      BY <2>3, PageFacts
    <3> QED
      BY <1>1, <2>1, <2>2, <3>1, <3>2, DispatchFacts, PageFacts DEF Page!TypeOK, Functions
  <2>5. LoginsWatched' /\ Watched'
    BY <1>1, <2>1, <2>2, <2>3, DispatchFacts, PageFacts DEF LoginsWatched, Watched
  <2> QED
    BY <1>1, <1>2, <2>4, <2>5, RequestKeeps
<1>7. CASE request[c].code \notin {1, 200}
  <2>1. loggedIn' = FALSE /\ UNCHANGED <<expired, watchers, dispatched>>
    BY <1>7 DEF Page!LoginReturns
  <2>2. Page!TypeOK'
    BY <1>1, <2>1, PageFacts DEF Page!TypeOK
  <2>3. LoginsWatched' /\ Watched'
    BY <1>1, <1>3, <2>1, PageFacts DEF LoginsWatched, Watched
  <2> QED
    BY <1>1, <1>2, <2>2, <2>3, RequestKeeps
<1> QED
  BY <1>4, <1>5, <1>6, <1>7

(* A sign-up has its answer.                                               *)
LEMMA SignupReturnsKeeps ==
  ASSUME IInv, NEW c \in Calls, Page!SignupReturns(c), UNCHANGED <<service, orphans, op>>
  PROVE  IInv'
<1>1. /\ request' = [request EXCEPT ![c] = Page!Idle]
      /\ request[c].path = "register" /\ UNCHANGED <<mode, mounted, loggedIn, expired, watchers>>
      /\ page' = "dead" \/ UNCHANGED page
      /\ Page!Dispatch(c) \/ UNCHANGED dispatched
  BY DEF Page!SignupReturns, Page!Close, Page!Answered
<1>2. Page!Idle \in Exchange /\ Page!Idle.path = "none" /\ Page!Idle.code = 0
  BY SentSound, PageFacts
<1>3. Page!LoginsUnderWay' = Page!LoginsUnderWay
  BY <1>1, <1>2, LoginsAfter DEF Page!LoginsUnderWay
<1>4. c \in Functions /\ c # "login"
  BY AccountsAssumption DEF Functions
<1>5. Page!TypeOK'
  BY <1>1, <1>4, DispatchFacts, PageFacts DEF Page!TypeOK, Functions
<1>6. LoginsWatched' /\ Watched'
  <2>1. /\ (\E i \in DOMAIN dispatched : dispatched[i] = "home")
             => \E i \in DOMAIN dispatched' : dispatched'[i] = "home"
        /\ (\E i \in DOMAIN dispatched' : dispatched'[i] = "login")
             => \E i \in DOMAIN dispatched : dispatched[i] = "login"
    BY <1>1, <1>4, DispatchFacts
  <2> QED
    BY <1>1, <1>3, <2>1, PageFacts DEF LoginsWatched, Watched
<1> QED
  BY <1>1, <1>2, <1>5, <1>6, RequestKeeps

(* The functions dispatched, when the first is taken.                      *)
LEMMA TakenFacts ==
  ASSUME IInv, dispatched # <<>>, dispatched' = Tail(dispatched)
  PROVE  /\ dispatched' \in Seq(Functions) /\ Head(dispatched) \in Functions
         /\ Head(dispatched) = "login" => watchers > 0
         /\ (\E i \in DOMAIN dispatched' : dispatched'[i] = "login")
              => \E i \in DOMAIN dispatched : dispatched[i] = "login"
         /\ (\E i \in DOMAIN dispatched : dispatched[i] = "home") /\ Head(dispatched) # "home"
              => \E i \in DOMAIN dispatched' : dispatched'[i] = "home"
<1>1. /\ dispatched \in Seq(Functions) /\ Len(dispatched) \in Nat /\ Len(dispatched) > 0
      /\ DOMAIN dispatched = 1 .. Len(dispatched) /\ Head(dispatched) = dispatched[1]
  BY PageFacts
<1>2. /\ dispatched' \in Seq(Functions) /\ Len(dispatched') = Len(dispatched) - 1
      /\ DOMAIN dispatched' = 1 .. Len(dispatched) - 1
      /\ \A i \in 1 .. Len(dispatched) - 1 : dispatched'[i] = dispatched[i + 1]
  BY <1>1
<1>3. Head(dispatched) \in Functions
  BY <1>1
<1>4. Head(dispatched) = "login" => watchers > 0
  BY <1>1, PageFacts DEF LoginsWatched
<1>5. \A i \in DOMAIN dispatched' : i + 1 \in DOMAIN dispatched /\ dispatched'[i] = dispatched[i + 1]
  BY <1>1, <1>2
<1>6. \A i \in DOMAIN dispatched \ {1} :
        i - 1 \in DOMAIN dispatched' /\ dispatched'[i - 1] = dispatched[i]
  BY <1>1, <1>2
<1> QED
  BY <1>1, <1>2, <1>3, <1>4, <1>5, <1>6

(* The thread that draws runs a function: a page for those it says are in. *)
LEMMA RunDispatchedKeeps ==
  ASSUME IInv, Page!RunDispatched, UNCHANGED <<service, orphans, op>>
  PROVE  IInv'
<1>1. /\ dispatched # <<>> /\ dispatched' = Tail(dispatched)
      /\ UNCHANGED <<expired, watchers, request>>
  BY DEF Page!RunDispatched
<1> DEFINE f == Head(dispatched)
<1>2. CASE f = "login"
  <2>1. loggedIn' = TRUE /\ page' = "front" /\ mode' = "" /\ mounted' = {}
    BY <1>2 DEF Page!RunDispatched, Page!Home
  <2>2. Page!TypeOK'
    BY <1>1, <2>1, TakenFacts, PageFacts DEF Page!TypeOK, Functions
  <2>3. LoginsWatched' /\ Watched'
    BY <1>1, <1>2, TakenFacts, PageFacts DEF LoginsWatched, Watched, Page!LoginsUnderWay
  <2> QED
    BY <1>1, <2>2, <2>3, ScreenKeeps
<1>3. CASE f = "logout"
  <2>1. loggedIn' = FALSE /\ page' = "login" /\ mode' = "" /\ mounted' = {}
    BY <1>3 DEF Page!RunDispatched, Page!Home
  <2>2. Page!TypeOK'
    BY <1>1, <2>1, TakenFacts, PageFacts DEF Page!TypeOK, Functions
  <2>3. LoginsWatched' /\ Watched'
    BY <1>1, <2>1, TakenFacts, PageFacts DEF LoginsWatched, Watched, Page!LoginsUnderWay
  <2> QED
    BY <1>1, <2>2, <2>3, ScreenKeeps
<1>4. CASE f = "home"
  <2>1. /\ page' = (IF loggedIn THEN "front" ELSE "login") /\ mode' = "" /\ mounted' = {}
        /\ UNCHANGED loggedIn
    BY <1>4 DEF Page!RunDispatched, Page!Home
  <2>2. Page!TypeOK'
    BY <1>1, <2>1, TakenFacts, PageFacts DEF Page!TypeOK, Functions
  <2>3. LoginsWatched' /\ Watched'
    BY <1>1, <2>1, TakenFacts, PageFacts DEF LoginsWatched, Watched, Page!LoginsUnderWay
  <2> QED
    BY <1>1, <2>2, <2>3, ScreenKeeps
<1>5. CASE f = "unset"
  <2>1. loggedIn' = FALSE /\ UNCHANGED <<page, mode, mounted>>
    BY <1>5 DEF Page!RunDispatched
  <2>2. Page!TypeOK'
    BY <1>1, <2>1, TakenFacts, PageFacts DEF Page!TypeOK, Functions
  <2>3. LoginsWatched' /\ Watched'
    BY <1>1, <1>5, <2>1, TakenFacts, PageFacts DEF LoginsWatched, Watched, Page!LoginsUnderWay
  <2> QED
    BY <1>1, <2>2, <2>3, ScreenKeeps
<1>6. CASE f \notin {"login", "logout", "unset", "home"}
  <2>1. mode' \in {"otp", mode} /\ UNCHANGED <<page, mounted, loggedIn>>
    BY <1>6 DEF Page!RunDispatched
  <2>2. Page!TypeOK'
    BY <1>1, <2>1, TakenFacts, PageFacts DEF Page!TypeOK, Functions
  <2>3. LoginsWatched' /\ Watched'
    BY <1>1, <1>6, <2>1, TakenFacts, PageFacts DEF LoginsWatched, Watched, Page!LoginsUnderWay
  <2> QED
    BY <1>1, <2>2, <2>3, ScreenKeeps
<1> QED
  BY <1>2, <1>3, <1>4, <1>5, <1>6

(* A watcher finds the token expired: nobody is logged in any more.        *)
LEMMA TickKeeps ==
  ASSUME IInv, Page!Tick, UNCHANGED <<service, orphans, op>>
  PROVE  IInv'
<1>1. /\ watchers > 0 /\ watchers' = watchers - 1 /\ loggedIn' = FALSE
      /\ dispatched' = <<"home", "home">>
      /\ UNCHANGED <<page, mode, mounted, expired, request>>
  BY DEF Page!Tick
<1>2. /\ dispatched' \in Seq(Functions) /\ DOMAIN dispatched' = {1, 2}
      /\ dispatched'[1] = "home" /\ dispatched'[2] = "home"
  BY <1>1 DEF Functions
<1>3. /\ watchers' \in 0 .. MaxWatchers
      /\ watchers' + Cardinality(Page!LoginsUnderWay) <= MaxWatchers
  BY <1>1, PageFacts
<1>4. Page!TypeOK'
  BY <1>1, <1>2, <1>3, PageFacts DEF Page!TypeOK, Functions
<1>5. LoginsWatched' /\ Watched'
  BY <1>1, <1>2, <1>3 DEF LoginsWatched, Watched, Page!LoginsUnderWay
<1> QED
  BY <1>1, <1>4, <1>5, ScreenKeeps

(* Whatever the page does.                                                 *)
LEMMA PageNextKeeps ==
  ASSUME IInv, Page!Next, UNCHANGED <<service, orphans, op>>
  PROVE  IInv'
<1>1. ASSUME NEW c \in Calls,
             \/ Page!OnLoginButtonPress(c) \/ Page!OnSingupRequest(c)
             \/ Page!LoginReturns(c) \/ Page!SignupReturns(c)
      PROVE  IInv'
  BY <1>1, ButtonKeeps, SingupRequestKeeps, LoginReturnsKeeps, SignupReturnsKeeps
<1>2. CASE Page!Turn
  <2>1. /\ mode' \in {"", "signup", "lostpassword"}
        /\ UNCHANGED <<page, mounted, loggedIn, expired, watchers, dispatched, request>>
    BY <1>2 DEF Page!Turn
  <2>2. Page!TypeOK' /\ LoginsWatched' /\ Watched'
    BY <2>1, PageFacts DEF Page!TypeOK, LoginsWatched, Watched, Page!LoginsUnderWay
  <2> QED
    BY <2>1, <2>2, ScreenKeeps
<1>3. CASE Page!Expire
  <2>1. /\ expired' = TRUE
        /\ UNCHANGED <<page, mode, mounted, loggedIn, watchers, dispatched, request>>
    BY <1>3 DEF Page!Expire
  <2>2. Page!TypeOK' /\ LoginsWatched' /\ Watched'
    BY <2>1, PageFacts DEF Page!TypeOK, LoginsWatched, Watched, Page!LoginsUnderWay
  <2> QED
    BY <2>1, <2>2, ScreenKeeps
<1> QED
  BY <1>1, <1>2, <1>3, RunDispatchedKeeps, TickKeeps DEF Page!Next

(* The page is loaded again: its requests are given up.                    *)
LEMMA ReloadKeeps ==
  ASSUME IInv, Reload
  PROVE  IInv'
<1>1. /\ page' = "login" /\ mode' = "" /\ mounted' = {} /\ loggedIn' = FALSE
      /\ watchers' = 0 /\ dispatched' = <<>> /\ UNCHANGED expired
      /\ request' = [c \in DOMAIN request |-> IF c \in Calls THEN Page!Idle ELSE request[c]]
      /\ orphans' \in Auth!Orphaned(Calls) /\ UNCHANGED <<service, op>>
  BY DEF Reload, Page!Reload
<1>2. Page!Idle \in Exchange /\ Page!Idle.path = "none" /\ Page!Idle.code = 0
  BY SentSound, PageFacts
<1>3. /\ request' \in [Callers -> Exchange]
      /\ \A c \in Calls : request'[c] = Page!Idle
      /\ \A o \in Ops : request'[o] = request[o]
  <2>1. request \in [Callers -> Exchange] /\ Calls \cap Ops = {}
    BY PoolFacts, AccountsAssumption
  <2> QED
    BY <1>1, <1>2, <2>1 DEF Callers
<1>4. orphans' \subseteq [path : Auth!Paths, name : Names, by : Auth!Users]
  BY <1>1, PageFacts, OrphansTyped
<1>5. \A c \in Calls : TrueAnswer(c)'
  BY <1>2, <1>3 DEF TrueAnswer
<1>6. Page!TypeOK'
  <2>1. watchers' \in 0 .. MaxWatchers /\ dispatched' \in Seq(Functions)
    <3>1. <<>> \in Seq(Functions) /\ \A max \in Nat : 0 \in 0 .. max
      OBVIOUS
    <3> QED
      BY <1>1, <3>1, PageFacts, Zenon
  <2> QED
    BY <1>1, <2>1, PageFacts DEF Page!TypeOK, Functions
<1>7. LoginsWatched' /\ Watched'
  <2>1. Page!LoginsUnderWay' = {}
    BY <1>2, <1>3 DEF Page!LoginsUnderWay
  <2>2. Cardinality({}) = 0 /\ 0 + 0 <= MaxWatchers
    BY PageFacts, FS_EmptySet
  <2>3. DOMAIN dispatched' = {}
    <3>1. DOMAIN <<>> = {}
      OBVIOUS
    <3> QED
      BY <1>1, <3>1, Zenon
  <2> QED
    BY <1>1, <2>1, <2>2, <2>3 DEF LoginsWatched, Watched
<1> QED
  BY <1>1, <1>3, <1>4, <1>5, <1>6, <1>7, PageKeeps

-----------------------------------------------------------------------------
(* The whole.                                                              *)

(* In the beginning nothing has been asked, said or watched.               *)
LEMMA InitInvariant == Init => IInv
<1> SUFFICES ASSUME Init PROVE IInv
  OBVIOUS
<1>1. /\ pool = [n \in Names |-> IF n \in Known THEN Auth!Before ELSE Auth!Free]
      /\ honoured = Known /\ results = 0 /\ request = [c \in Callers |-> Auth!Idle]
      /\ orphans = {} /\ op = [o \in Ops |-> GW!None]
  BY DEF Init, Auth!Init, GW!Init
<1>2. /\ page \in {"login", "closed"} /\ mode = "" /\ mounted = {} /\ loggedIn = FALSE
      /\ expired = TRUE /\ watchers = 0 /\ dispatched = <<>>
  BY DEF Init, Page!Init
<1>3. /\ Auth!Idle \in Exchange /\ Auth!Idle.path = "none" /\ Auth!Idle.code = 0
  <2>1. 0 \in Statuses
    BY DEF Statuses
  <2> QED
    BY <2>1 DEF Auth!Idle, Exchange
<1>4. /\ GW!None \in Operation /\ GW!None.fields = <<>> /\ GW!None.results = <<>>
      /\ GW!None.at = "none" /\ GW!None.data = "none"
  <2>1. <<>> \in Seq(Values)
    OBVIOUS
  <2> QED
    BY <2>1 DEF GW!None, Operation
<1>5. \A c \in Callers : request[c] = Auth!Idle
  BY <1>1
<1>6. \A o \in Ops : op[o] = GW!None /\ o \in Callers
  BY <1>1 DEF Callers
<1>7. Auth!TypeOK
  <2>1. Auth!Before \in Pool /\ Auth!Free \in Pool
    BY DEF Auth!Before, Auth!Free, Pool
  <2>2. pool \in [Names -> Pool]
    BY <1>1, <2>1
  <2>3. honoured \subseteq Names /\ results \in 0 .. CacheSize
    BY <1>1, AccountsAssumption DEF Auth!AuthAssumption
  <2>4. request \in [Callers -> Exchange]
    BY <1>1, <1>3
  <2>5. orphans \subseteq [path : Auth!Paths, name : Names, by : Auth!Users]
    BY <1>1
  <2> QED
    BY <2>2, <2>3, <2>4, <2>5 DEF Auth!TypeOK, Pool, Exchange, Statuses
<1>8. GW!TypeOK
  <2>1. op \in [Ops -> Operation]
    BY <1>1, <1>4
  <2> QED
    BY <2>1 DEF GW!TypeOK, Operation, Values
<1>9. Page!TypeOK
  <2>1. watchers \in 0 .. MaxWatchers
    <3>1. MaxWatchers \in Nat /\ \A max \in Nat : 0 \in 0 .. max
      BY AccountsAssumption
    <3> QED
      BY <1>2, <3>1, Zenon
  <2>2. dispatched \in Seq(Functions)
    <3>1. <<>> \in Seq(Functions)
      OBVIOUS
    <3> QED
      BY <1>2, <3>1, Zenon
  <2> QED
    BY <1>2, <2>1, <2>2, Zenon DEF Page!TypeOK, Functions
<1>10. ASSUME NEW o \in Ops
       PROVE  AsCalled(o) /\ FieldsDone(o)
  <2>1. op[o].fields = <<>> /\ op[o].results = <<>> /\ op[o].at = "none" /\ op[o].data = "none"
        /\ request[o].path = "none"
    BY <1>3, <1>4, <1>5, <1>6
  <2>2. op[o].at \notin DOMAIN KindsOf /\ Len(<<>>) <= Len(<<>>) /\ DOMAIN <<>> = {}
    BY <2>1, KindsFacts
  <2> QED
    BY <2>1, <2>2 DEF AsCalled, FieldsDone
<1>11. \A c \in Callers : TrueAnswer(c)
  BY <1>3, <1>5 DEF TrueAnswer
<1>12. HonouredConfirmed
  BY <1>1, AccountsAssumption DEF HonouredConfirmed, Auth!Before
<1>13. LoginsWatched /\ Watched
  <2>1. Page!LoginsUnderWay = {}
    <3>1. Calls \subseteq Callers
      BY DEF Callers
    <3> QED
      BY <1>3, <1>5, <3>1 DEF Page!LoginsUnderWay
  <2>2. Cardinality({}) = 0 /\ 0 + 0 <= MaxWatchers
    BY AccountsAssumption, FS_EmptySet
  <2>3. DOMAIN dispatched = {}
    <3>1. DOMAIN <<>> = {}
      OBVIOUS
    <3> QED
      BY <1>2, <3>1, Zenon
  <2> QED
    BY <1>2, <2>1, <2>2, <2>3 DEF LoginsWatched, Watched
<1> QED
  BY <1>7, <1>8, <1>9, <1>10, <1>11, <1>12, <1>13 DEF IInv, TypeOK

(* Every step, of whichever program, keeps it.                             *)
LEMMA NextInvariant == IInv /\ [Next]_vars => IInv'
<1> SUFFICES ASSUME IInv, [Next]_vars PROVE IInv'
  OBVIOUS
<1>1. CASE Auth!Next /\ UNCHANGED <<op, pageVars>>
  BY <1>1, AuthKeeps
<1>2. CASE GW!Next /\ UNCHANGED <<service, orphans, pageVars>>
  BY <1>2, GatewayKeeps
<1>3. CASE Page!Next /\ UNCHANGED <<service, orphans, op>>
  BY <1>3, PageNextKeeps
<1>4. CASE Reload
  BY <1>4, ReloadKeeps
<1>5. CASE UNCHANGED vars
  <2>1. UNCHANGED <<service, op, orphans, request>> /\ UNCHANGED pageVars
    BY <1>5 DEF vars
  <2>2. Page!TypeOK' /\ LoginsWatched' /\ Watched'
    BY <2>1, PageFacts DEF Page!TypeOK, LoginsWatched, Watched, Page!LoginsUnderWay, pageVars
  <2> QED
    BY <2>1, <2>2, ScreenKeeps
<1> QED
  BY <1>1, <1>2, <1>3, <1>4, <1>5 DEF Next

\* The invariant, of every operation, call, name and size of the cache, with
\* connections that break and Cognito's errors at any moment.
THEOREM Invariant == Spec => []IInv
<1> QED
  BY InitInvariant, NextInvariant, PTL DEF Spec

\* What the three programs keep is what their code declares (auth-service's
\* main.go, the gateway's resolvers, wasm-app's login and app).
THEOREM TypeCorrect == Spec => []TypeOK
<1>1. IInv => TypeOK
  BY DEF IInv
<1> QED
  BY <1>1, Invariant, PTL

\* What the gateway answers with values has been done (Register, Login and the
\* code generated around them).
THEOREM Told == Spec => []ToldIsDone
<1>1. IInv => ToldIsDone
  <2> SUFFICES ASSUME IInv, NEW o \in Ops, op[o].data = "values",
                      NEW i \in DOMAIN op[o].fields
               PROVE  Done(o, op[o].fields[i])
    BY DEF ToldIsDone
  <2>1. FieldsDone(o)
    BY DEF IInv
  <2>2. DOMAIN op[o].results = DOMAIN op[o].fields
    BY <2>1, OpFacts DEF FieldsDone
  <2> QED
    BY <2>1, <2>2 DEF FieldsDone
<1> QED
  BY <1>1, Invariant, PTL

\* Whoever the login page says is logged in is watched until the token expires
\* (Start, OnLoginButtonPress).
THEOREM WatchedHolds == Spec => []Watched
<1>1. IInv => Watched
  BY DEF IInv
<1> QED
  BY <1>1, Invariant, PTL
=============================================================================
