------------------------------ MODULE Accounts ------------------------------
(***************************************************************************)
(* auth-service with those that call it: the gateway's operations and the  *)
(* login page.  They share the requests, of which AuthService writes the   *)
(* answer and the callers the rest.                                        *)
(***************************************************************************)
EXTENDS Naturals, Sequences, FiniteSets

CONSTANTS
  Ops, Operations,
  PageOperations,  \* bound: those asked for while the page is open
  Calls, Email, Local, Names, Known, UserOf,
  CacheSize, MaxOrphans, MaxWatchers, Faults

Callers == Ops \cup Calls

VARIABLES
  pool, honoured, results, request, orphans,
  op,
  page, mode, mounted, loggedIn, expired, watchers, dispatched

service == <<pool, honoured, results>>
pageVars == <<page, mode, mounted, loggedIn, expired, watchers, dispatched>>
vars == <<service, request, orphans, op, pageVars>>

Auth == INSTANCE AuthService
GW == INSTANCE Gateway
Page == INSTANCE LoginApp

ASSUME AccountsAssumption ==
  /\ Ops \cap Calls = {} /\ {Email, Local} \subseteq Names /\ Known \subseteq Names
  /\ IsFiniteSet(Calls) /\ Calls \cap {"login", "logout", "unset", "home"} = {}
  /\ Operations \subseteq Seq([kind : DOMAIN GW!Inputs, input : STRING, name : Names])
  /\ MaxWatchers \in Nat /\ Auth!AuthAssumption /\ GW!GatewayAssumption

Init == Auth!Init /\ GW!Init /\ Page!Init

\* The handlers of the page's requests run all the same, or do not.
Reload ==
  /\ Page!Reload
  /\ orphans' \in Auth!Orphaned(Calls) /\ Cardinality(orphans') <= MaxOrphans
  /\ UNCHANGED <<service, op>>

Next ==
  \/ Auth!Next /\ UNCHANGED <<op, pageVars>>
  \/ /\ GW!Next /\ UNCHANGED <<service, orphans, pageVars>>
     /\ page = "closed" \/ \A o \in Ops : op'[o].fields \in PageOperations \cup {<<>>}
  \/ Page!Next /\ UNCHANGED <<service, orphans, op>>
  \/ Reload

Spec == Init /\ [][Next]_vars

\* What an operation is at goes on: the gateway or the handler it waits for.
Progress(o) ==
  \/ (GW!Step(o) \/ GW!GetDevices(o)) /\ UNCHANGED <<service, orphans, pageVars>>
  \/ Auth!Serve(o) /\ UNCHANGED <<op, pageVars>>

\* Operations and dispatched functions go on, and a token's time ends.
FairSpec ==
  /\ Spec
  /\ \A o \in Ops : WF_vars(Progress(o))
  /\ WF_vars((Page!RunDispatched \/ Page!Tick) /\ UNCHANGED <<service, orphans, op>>)
  /\ WF_vars(Page!Expire /\ UNCHANGED <<service, orphans, op>>)

-----------------------------------------------------------------------------
(* Properties *)

TypeOK == Auth!TypeOK /\ GW!TypeOK /\ Page!TypeOK

\* What a field that is not null says of its name.
Done(o, f) ==
  /\ f.kind = "register" => pool[f.name].by = UserOf[o]
  /\ f.kind = "login" => pool[f.name].confirmed

\* What the gateway answers with values was done: a name that it says is
\* registered belongs to its user, whoever else asked for it at the same
\* time, and who it says is logged in is a confirmed user (Register, Login).
ToldIsDone ==
  \A o \in Ops : op[o].data = "values" =>
    \A i \in DOMAIN op[o].fields : Done(o, op[o].fields[i])

\* Every operation is answered, whatever fails on the way and however full
\* userCache is (the fields' recover, Auth's goroutine).
OpsAnswered == \A o \in Ops : []<>~GW!Running(o)

\* Who is logged in, or sees the front page, is watched until the token
\* expires, however many logins the page began (Start, OnLoginButtonPress).
Watched ==
  /\ loggedIn => watchers > 0
  /\ page = "front" => watchers > 0 \/ \E i \in DOMAIN dispatched : dispatched[i] = "home"

\* The front page does not stay with a user who is not logged in (OnNav is
\* asked again by a watcher).
BackToLogin == []<>(page # "front" \/ loggedIn)

-----------------------------------------------------------------------------
(* The inductive invariant behind ToldIsDone and Watched (proved in        *)
(* AccountsProofs).                                                        *)

\* The kinds of the fields whose resolvers call a path.
KindsOf == [register |-> {"register"}, username |-> {"register", "userAvailable"},
            login |-> {"login"}, refresh |-> {"login"},
            signout |-> {"signOut"}, devices |-> {"devices"}]

\* The call that an operation waits for is the one of its current field.
AsCalled(o) ==
  /\ Len(op[o].results) <= Len(op[o].fields)
  /\ IF op[o].at \in DOMAIN KindsOf
     THEN /\ ~GW!AllDone(o) /\ GW!Current(o).kind \in KindsOf[op[o].at]
          /\ request[o].path = op[o].at /\ request[o].name = GW!Current(o).name
     ELSE request[o].path = "none"

\* Requests are about names; a 200 that has not been looked at is still true.
TrueAnswer(c) ==
  /\ request[c].path # "none" => request[c].name \in Names
  /\ request[c].code = 200 =>
       /\ request[c].path = "register" => pool[request[c].name].by = UserOf[c]
       /\ request[c].path \in {"login", "refresh"} /\ request[c].tokens
            => pool[request[c].name].confirmed

\* Cognito gives tokens to users who are confirmed, and they stay so.
HonouredConfirmed == \A n \in honoured : pool[n].confirmed

\* What a field with a value says is true; an answer of values has no null.
FieldsDone(o) ==
  /\ \A i \in DOMAIN op[o].results :
       op[o].results[i] # "null" => Done(o, op[o].fields[i])
  /\ op[o].data = "values" =>
       /\ Len(op[o].results) = Len(op[o].fields)
       /\ \A i \in DOMAIN op[o].results : op[o].results[i] # "null"

\* Who is about to be logged in is watched already; watchers are bounded.
LoginsWatched ==
  /\ (\E i \in DOMAIN dispatched : dispatched[i] = "login") => watchers > 0
  /\ watchers + Cardinality(Page!LoginsUnderWay) <= MaxWatchers

\* An operation waits for the call of its current field, an answer that has not
\* been looked at is still true, and each login under way has a watcher to come
\* (the resolvers, Cognito's pool, OnLoginButtonPress).
IInv ==
  /\ TypeOK
  /\ \A o \in Ops : AsCalled(o) /\ FieldsDone(o)
  /\ \A c \in Callers : TrueAnswer(c)
  /\ HonouredConfirmed /\ LoginsWatched /\ Watched
=============================================================================
