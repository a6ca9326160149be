------------------------------ MODULE Gateway -------------------------------
(***************************************************************************)
(* gateway (src/gateway): the execution of a GraphQL operation by the      *)
(* generated code, field after field, and the resolvers, which post to     *)
(* auth-service and ask control-hub.  The parsing of the query and of its  *)
(* input is abstracted to the kinds the resolvers tell apart.              *)
(***************************************************************************)
EXTENDS Naturals, Sequences

CONSTANTS
  Ops,        \* operations under way or done
  Operations  \* what a client may ask for: a sequence of fields [kind, input, name],
              \* input "given"; "empty", a "" where a value is asked for;
              \* "absent", a nil pointer; "password" or "refresh" of a login

VARIABLES
  op,       \* an operation: its fields, their results, what it is at
  request   \* AuthService's: the exchange of a caller

Idle == [path |-> "none", name |-> "none", code |-> 0, tokens |-> FALSE]
Sent(path, n) == [Idle EXCEPT !.path = path, !.name = n]

\* What an argument may be once it has been unmarshalled: a string that must be
\* there may be empty, one that need not may be absent.
Inputs == [register |-> {"given", "empty"}, login |-> {"password", "refresh"},
           signOut |-> {"given", "empty", "absent"}, userAvailable |-> {"given", "empty"},
           addDevice |-> {"given"}, devices |-> {"given"}]

\* Mutations, or the one query.
GatewayAssumption ==
  \A fields \in Operations :
    /\ \A i \in DOMAIN fields :
         fields[i].kind \in DOMAIN Inputs /\ fields[i].input \in Inputs[fields[i].kind]
    /\ \A i \in DOMAIN fields : fields[i].kind = "devices" => Len(fields) = 1

None == [fields |-> <<>>, results |-> <<>>, at |-> "none", data |-> "none"]
Running(o) == op[o].at \notin {"none", "answered"}
Current(o) == op[o].fields[Len(op[o].results) + 1]
AllDone(o) == Len(op[o].results) = Len(op[o].fields)

Init == op = [o \in Ops |-> None]

\* The next operation of a client.
Receive(o, fields) ==
  /\ op[o].at = "none"
  /\ op' = [op EXCEPT ![o] = [None EXCEPT !.fields = fields, !.at = "next"]]
  /\ UNCHANGED request

Call(o, path) ==
  /\ request' = [request EXCEPT ![o] = Sent(path, Current(o).name)]
  /\ op' = [op EXCEPT ![o].at = path]

\* A field's value, or null with an error; what a resolver panics at is
\* recovered by the field and becomes null.
Result(o, value) ==
  /\ op' = [op EXCEPT ![o].at = "next", ![o].results = Append(@, value)]
  /\ request' = [request EXCEPT ![o] = Idle]

\* Mutant of Panic: the field does not recover, and the connection is closed.
PanicAborts(o) ==
  op' = [op EXCEPT ![o].at = "aborted"] /\ request' = [request EXCEPT ![o] = Idle]

Panic(o) == Result(o, "null")

-----------------------------------------------------------------------------
(* The resolvers, up to their first call *)

Register(o) == IF Current(o).input = "empty" THEN Result(o, "null") ELSE Call(o, "username")

Login(o) == Call(o, IF Current(o).input = "refresh" THEN "refresh" ELSE "login")

SignOut(o) ==
  CASE Current(o).input = "absent" -> Panic(o)
    [] Current(o).input = "empty" -> Result(o, "null")
    [] OTHER -> Call(o, "signout")

UserAvailable(o) == IF Current(o).input = "empty" THEN Result(o, "null") ELSE Call(o, "username")

AddDevice(o) == Panic(o)

Devices(o) == Call(o, "devices")

-----------------------------------------------------------------------------
(* The generated code: the next field of a selection, and its function *)

Field(o, kind) == op[o].at = "next" /\ ~AllDone(o) /\ Current(o).kind = kind

Mutation_register(o) == Field(o, "register") /\ Register(o)
Mutation_login(o) == Field(o, "login") /\ Login(o)
Mutation_signOut(o) == Field(o, "signOut") /\ SignOut(o)
Mutation_userAvailable(o) == Field(o, "userAvailable") /\ UserAvailable(o)
Mutation_addDevice(o) == Field(o, "addDevice") /\ AddDevice(o)
Query_devices(o) == Field(o, "devices") /\ Devices(o)

\* control-hub's GetDevices: the list, or 408 when Redis has an error.
GetDevices(o) ==
  /\ request[o].path = "devices" /\ request[o].code = 0
  /\ \E code \in {200, 408} : request' = [request EXCEPT ![o].code = code]
  /\ UNCHANGED op

-----------------------------------------------------------------------------
(* The rest of a resolver, when its call has returned *)

Returned(o, path) == op[o].at = path /\ request[o].code \notin {0, 2}
OK(o) == request[o].code = 200

\* Mutant of RegisterReturns: the answer to /register is not looked at.
RegisterUnchecked(o) ==
  Returned(o, "register") /\ Result(o, "true")

\* Register's first call, and UserAvailable's only one.
UsernameReturns(o) ==
  /\ Returned(o, "username")
  /\ CASE ~OK(o) -> Result(o, "null")
       [] Current(o).kind = "register" -> Call(o, "register")
       [] OTHER -> Result(o, "true")

RegisterReturns(o) ==
  Returned(o, "register") /\ Result(o, IF OK(o) THEN "true" ELSE "null")

\* No error is looked at: without tokens in the answer it is a nil pointer.
LoginReturns(o) ==
  /\ Returned(o, "login") \/ Returned(o, "refresh")
  /\ IF OK(o) /\ request[o].tokens THEN Result(o, "user") ELSE Panic(o)

SignOutReturns(o) ==
  Returned(o, "signout") /\ Result(o, IF OK(o) THEN "true" ELSE "null")

\* The list, unless it is an entry that is no Device.
DevicesReturns(o) ==
  /\ Returned(o, "devices")
  /\ \/ Result(o, "null")
     \/ OK(o) /\ Result(o, "list")

-----------------------------------------------------------------------------
\* A null anywhere makes the whole answer null: every field is non-null.
Answer(o) ==
  /\ op[o].at = "next" /\ AllDone(o)
  /\ op' = [op EXCEPT ![o].at = "answered",
       ![o].data = IF \E i \in DOMAIN op[o].results : op[o].results[i] = "null"
                   THEN "null" ELSE "values"]
  /\ UNCHANGED request

\* What the gateway's goroutine does next.
Step(o) ==
  \/ Mutation_register(o) \/ Mutation_login(o) \/ Mutation_signOut(o)
  \/ Mutation_userAvailable(o) \/ Mutation_addDevice(o) \/ Query_devices(o)
  \/ UsernameReturns(o) \/ RegisterReturns(o) \/ LoginReturns(o) \/ SignOutReturns(o)
  \/ DevicesReturns(o) \/ Answer(o)

Next ==
  \E o \in Ops : Step(o) \/ GetDevices(o) \/ \E fields \in Operations : Receive(o, fields)

TypeOK ==
  op \in [Ops -> [fields : Operations \cup {<<>>},
                  results : Seq({"null", "true", "user", "list"}),
                  at : {"none", "next", "register", "username", "login", "refresh", "signout",
                        "devices", "answered"},
                  data : {"none", "null", "values"}]]
=============================================================================
