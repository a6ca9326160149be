---------------------------- MODULE AuthService -----------------------------
(***************************************************************************)
(* auth-service (src/auth-service/main.go): every route but the health     *)
(* check is one handler around one call to Cognito, whose answer becomes   *)
(* the status.  Callers wait for one answer each; their connection may     *)
(* break before, while or after the handler runs.  Cognito's user pool is  *)
(* external: names with who signed them up, confirmed or not, and the      *)
(* names whose tokens it honours.                                          *)
(***************************************************************************)
EXTENDS Naturals, FiniteSets

CONSTANTS
  Callers, Names,
  UserOf,     \* who makes a caller call
  Known,      \* names registered and confirmed from the start
  CacheSize,  \* capacity of userCache: 5000
  MaxOrphans, \* bound: handlers whose caller has gone
  Faults      \* "break": connections; "cognito": errors, challenges

Users == {UserOf[c] : c \in Callers}

AuthAssumption ==
  /\ Callers \subseteq DOMAIN UserOf /\ {"nobody", "earlier"} \cap Users = {}
  /\ CacheSize \in Nat /\ MaxOrphans \in Nat

VARIABLES
  pool,       \* by name: Free, or who signed up and whether it is confirmed
  honoured,   \* names Cognito has given tokens and not signed out since
  results,    \* of Auth in userCache, from which nothing receives: with each
              \* one more than CacheSize a goroutine waits
  request,    \* what each caller waits for
  orphans     \* requests whose caller has gone before the handler ran


Before == [by |-> "earlier", confirmed |-> TRUE]
Free == [by |-> "nobody", confirmed |-> FALSE]
Paths == {"register", "username", "login", "refresh", "signout"}
Refusals == {400, 401, 406, 409, 500}  \* 404 and 429 are treated like 500
Idle == [path |-> "none", name |-> "none", code |-> 0, tokens |-> FALSE]
Broken == 1   \* instead of a status: client.Do returns an error
Blocked == 2  \* the handler waits at a channel and cannot answer
Codes == {200, Blocked} \cup Refusals
Taken(n) == pool[n] # Free
Waiting(c) == request[c].path # "none" /\ request[c].code = 0
Answered(c) == request[c].path # "none" /\ request[c].code \notin {0, Blocked}

Init ==
  /\ pool = [n \in Names |-> IF n \in Known THEN Before ELSE Free]
  /\ honoured = Known /\ results = 0
  /\ request = [c \in Callers |-> Idle] /\ orphans = {}

-----------------------------------------------------------------------------
(* The callers' side of an exchange *)

Sent(path, n) == [Idle EXCEPT !.path = path, !.name = n]

\* The handlers of some of the callers cs run although those have gone.
Orphaned(cs) ==
  {orphans \cup {[path |-> request[c].path, name |-> request[c].name, by |-> UserOf[c]] : c \in gone} :
     gone \in SUBSET {c \in cs : Waiting(c) /\ request[c].path \in Paths}}

\* The connection breaks; the handler runs all the same, or the request never came.
Break(c) ==
  /\ "break" \in Faults /\ request[c].path # "none" /\ request[c].code # Broken
  /\ request' = [request EXCEPT ![c].code = Broken, ![c].tokens = FALSE]
  /\ orphans' \in Orphaned({c}) /\ Cardinality(orphans') <= MaxOrphans
  /\ UNCHANGED <<pool, honoured, results>>

-----------------------------------------------------------------------------
(* The handlers: what they do for by, and the code they answer.  None of   *)
(* the errors of the AWS client is without a code of its own.              *)

\* SignUp.
Register(n, by, code) ==
  /\ \/ /\ ~Taken(n) /\ code = 200
        /\ pool' = [pool EXCEPT ![n] = [by |-> by, confirmed |-> FALSE]]
     \/ /\ Taken(n) \/ "cognito" \in Faults
        /\ code = 400 /\ UNCHANGED pool
  /\ UNCHANGED <<honoured, results>>

\* AdminGetUser: any error but UserNotFound counts as a user.
Username(n, code) ==
  /\ code = 409 \/ (~Taken(n) /\ code = 200)
  /\ Taken(n) \/ code = 200 \/ "cognito" \in Faults
  /\ UNCHANGED <<pool, honoured, results>>

\* ConfirmSignUp, with the code from the user's mail.
OTP(n, code) ==
  /\ \/ Taken(n) /\ code = 200 /\ pool' = [pool EXCEPT ![n].confirmed = TRUE]
     \/ code = 406 /\ UNCHANGED pool
  /\ UNCHANGED <<honoured, results>>

\* Mutant of KeepResult: the handler sends to userCache itself.
KeepResultInline(code) ==
  IF results < CacheSize
  THEN code = 200 /\ results' = results + 1
  ELSE code = Blocked /\ UNCHANGED results

\* A goroutine of its own will send the result.
KeepResult(code) ==
  code = 200 /\ results' = IF results < CacheSize THEN results + 1 ELSE results

\* Auth, with a password or a refresh token: tokens, or a challenge without any.
Login(path, n, code, tokens) ==
  /\ UNCHANGED pool
  /\ \/ /\ tokens
        /\ IF path = "refresh" THEN n \in honoured ELSE pool[n].confirmed
        /\ honoured' = honoured \cup {n} /\ KeepResult(code)
     \/ /\ ~tokens /\ "cognito" \in Faults /\ path = "login"
        /\ pool[n].confirmed /\ UNCHANGED honoured /\ KeepResult(code)
     \/ /\ code \in {401} \cup (IF "cognito" \in Faults THEN {500} ELSE {})
        /\ ~tokens /\ UNCHANGED <<honoured, results>>

\* GlobalSignOut, of all the user's tokens.
Signout(n, code) ==
  /\ \/ n \in honoured /\ code = 200 /\ honoured' = honoured \ {n}
     \/ n \notin honoured /\ code = 401 /\ UNCHANGED honoured
     \/ "cognito" \in Faults /\ code = 500 /\ UNCHANGED honoured
  /\ UNCHANGED <<pool, results>>

Handle(path, n, by, code, tokens) ==
  \/ path = "register" /\ Register(n, by, code) /\ ~tokens
  \/ path = "username" /\ Username(n, code) /\ ~tokens
  \/ path = "signout" /\ Signout(n, code) /\ ~tokens
  \/ path \in {"login", "refresh"} /\ Login(path, n, code, tokens)

-----------------------------------------------------------------------------
\* A handler that answers.
Serve(c) ==
  /\ Waiting(c)
  /\ \E code \in Codes, tokens \in BOOLEAN :
       /\ Handle(request[c].path, request[c].name, UserOf[c], code, tokens)
       /\ request' = [request EXCEPT ![c].code = code, ![c].tokens = tokens]
  /\ UNCHANGED orphans

\* A handler whose caller has gone.
ServeOrphan(q) ==
  /\ \E code \in Codes, tokens \in BOOLEAN :
       Handle(q.path, q.name, q.by, code, tokens)
  /\ orphans' = orphans \ {q} /\ UNCHANGED request

\* Nothing in the repository posts to /otp: users do it by other means.
Confirm(n) ==
  /\ \E code \in {200, 406} : OTP(n, code)
  /\ UNCHANGED <<request, orphans>>

Next ==
  \/ \E c \in Callers : Serve(c) \/ Break(c)
  \/ \E q \in orphans : ServeOrphan(q)
  \/ \E n \in Names : Confirm(n)

TypeOK ==
  /\ pool \in [Names -> [by : Users \cup {"nobody", "earlier"}, confirmed : BOOLEAN]]
  /\ honoured \subseteq Names
  /\ results \in 0 .. CacheSize
  /\ request \in [Callers -> [path : Paths \cup {"none", "devices"}, name : Names \cup {"none"},
                              code : {0, Broken, 408} \cup Codes, tokens : BOOLEAN]]
  /\ orphans \subseteq [path : Paths, name : Names, by : Users]
=============================================================================
