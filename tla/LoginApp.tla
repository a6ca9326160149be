------------------------------ MODULE LoginApp ------------------------------
(***************************************************************************)
(* wasm-app (src/wasm-app/app): the login page, the goroutines it starts,  *)
(* the functions they hand to the thread that draws, and the watchers of   *)
(* the token's expiry.  The program is WebAssembly: a goroutine runs until *)
(* it waits.  Functions dispatched are run before the next click is        *)
(* handled and well within the five seconds of a watcher's ticker.         *)
(***************************************************************************)
EXTENDS Naturals, Sequences, FiniteSets

CONSTANTS
  Calls,        \* goroutines of the page with an HTTP request
  Email, Local, \* the user's address, and what is before its @
  MaxWatchers   \* bound: watchers and logins under way

VARIABLES
  page,       \* "front", "login"; "dead" after a panic; "closed" for good
  mode,       \* login.mode of the component shown
  mounted,    \* sign-ups begun by the component shown
  loggedIn,
  expired,    \* CheckExpire of the local storage
  watchers,   \* goroutines of Start; they share loggedIn, expires and done
  dispatched, \* functions for the thread that draws, in order: "login", "logout",
              \* "unset", "home"; a call, for the mode "otp" of its component
  request     \* AuthService's


Idle == [path |-> "none", name |-> "none", code |-> 0, tokens |-> FALSE]
Sent(path, n) == [Idle EXCEPT !.path = path, !.name = n]
Answered(c, path) == page # "dead" /\ request[c].path = path /\ request[c].code \notin {0, 2}
Dispatch(f) == dispatched' = Append(dispatched, f)
Close(c) == request' = [request EXCEPT ![c] = Idle]

Init ==
  /\ page \in {"login", "closed"} /\ mode = "" /\ mounted = {} /\ loggedIn = FALSE
  /\ expired = TRUE /\ watchers = 0 /\ dispatched = <<>>

-----------------------------------------------------------------------------
(* The controls that Render shows for a mode.  It has no screen for "otp": *)
(* the form for the code and its handlers are never shown.                 *)

Shows(m) == page = "login" /\ dispatched = <<>> /\ m = IF mode = "otp" THEN "" ELSE mode

LoginsUnderWay == {c \in Calls : request[c].path = "login"}

\* OnLoginButtonPress: the button stays, and a second press begins another.
OnLoginButtonPress(c) ==
  /\ Shows("") /\ request[c] = Idle
  /\ watchers + Cardinality(LoginsUnderWay) < MaxWatchers
  /\ request' = [request EXCEPT ![c] = Sent("login", Email)]
  /\ UNCHANGED <<page, mode, mounted, loggedIn, expired, watchers, dispatched>>

\* OnSingupRequest with a valid form: it registers the part before the @.
OnSingupRequest(c) ==
  /\ Shows("signup") /\ request[c] = Idle
  /\ request' = [request EXCEPT ![c] = Sent("register", Local)]
  /\ mounted' = mounted \cup {c}
  /\ UNCHANGED <<page, mode, loggedIn, expired, watchers, dispatched>>

\* OnSignup, OnLostPassword, OnBackPress.
Turn ==
  /\ \/ Shows("") /\ mode' \in {"signup", "lostpassword"}
     \/ (Shows("signup") \/ Shows("lostpassword")) /\ mode' = ""
  /\ UNCHANGED <<page, mounted, loggedIn, expired, watchers, dispatched, request>>

-----------------------------------------------------------------------------
(* The goroutines, when their request has returned *)

\* Mutant of LoginReturns: no watcher is started for the second login.
LoginUnwatched(c) ==
  /\ Answered(c, "login") /\ Close(c)
  /\ CASE request[c].code = 1 -> Dispatch("logout") /\ UNCHANGED <<loggedIn, expired, watchers>>
       [] request[c].code = 200 ->
            /\ expired' = ~request[c].tokens /\ UNCHANGED <<loggedIn, watchers>>
            /\ Dispatch("login")
       [] OTHER -> loggedIn' = FALSE /\ UNCHANGED <<expired, watchers, dispatched>>
  /\ UNCHANGED <<page, mode, mounted>>

\* A login with a challenge and no tokens expires in -30 seconds.  An answer that
\* cannot be decoded takes loggedIn back and stays on the page.
LoginReturns(c) ==
  /\ Answered(c, "login") /\ Close(c)
  /\ CASE request[c].code = 1 -> Dispatch("logout") /\ UNCHANGED <<loggedIn, expired, watchers>>
       [] request[c].code = 200 ->
            \/ /\ expired' = ~request[c].tokens /\ watchers' = watchers + 1
               /\ Dispatch("login") /\ UNCHANGED loggedIn
            \/ Dispatch("unset") /\ UNCHANGED <<loggedIn, expired, watchers>>
       [] OTHER -> loggedIn' = FALSE /\ UNCHANGED <<expired, watchers, dispatched>>
  /\ UNCHANGED <<page, mode, mounted>>

\* Without an answer resp is nil: the panic ends the program.
SignupReturns(c) ==
  /\ Answered(c, "register") /\ Close(c)
  /\ IF request[c].code = 1 THEN page' = "dead" ELSE UNCHANGED page
  /\ IF request[c].code = 200 THEN Dispatch(c) ELSE UNCHANGED dispatched
  /\ UNCHANGED <<mode, mounted, loggedIn, expired, watchers>>

-----------------------------------------------------------------------------
(* The thread that draws *)

\* Navigate("/"), where OnNav looks at loggedIn; a page is a new component.
Home(in) ==
  /\ page' = IF in THEN "front" ELSE "login"
  /\ mode' = "" /\ mounted' = {}

RunDispatched ==
  /\ page # "dead" /\ dispatched # <<>> /\ dispatched' = Tail(dispatched)
  /\ CASE Head(dispatched) = "login" -> loggedIn' = TRUE /\ Home(TRUE)
       [] Head(dispatched) = "logout" -> loggedIn' = FALSE /\ Home(FALSE)
       [] Head(dispatched) = "unset" -> loggedIn' = FALSE /\ UNCHANGED <<page, mode, mounted>>
       [] Head(dispatched) = "home" -> Home(loggedIn) /\ UNCHANGED loggedIn
       [] OTHER -> /\ mode' = IF Head(dispatched) \in mounted THEN "otp" ELSE mode
                   /\ UNCHANGED <<page, mounted, loggedIn>>
  /\ UNCHANGED <<expired, watchers, request>>

-----------------------------------------------------------------------------
(* The watchers *)

\* Mutant of Tick: a watcher that finds the token expired just ends.
TickQuiet ==
  /\ page # "dead" /\ dispatched = <<>> /\ watchers > 0 /\ expired
  /\ watchers' = watchers - 1
  /\ UNCHANGED <<page, mode, mounted, loggedIn, expired, dispatched, request>>

\* A watcher finds the token expired.  Its done goes to another one if there
\* is one, else to itself: one of them ends, and both say the same.
Tick ==
  /\ page # "dead" /\ dispatched = <<>> /\ watchers > 0 /\ expired
  /\ loggedIn' = FALSE /\ watchers' = watchers - 1
  /\ dispatched' = <<"home", "home">>
  /\ UNCHANGED <<page, mode, mounted, expired, request>>

Expire ==
  /\ ~expired /\ expired' = TRUE
  /\ UNCHANGED <<page, mode, mounted, loggedIn, watchers, dispatched, request>>

\* The user loads the page again: requests are given up.
Reload ==
  /\ page # "closed"
  /\ page' = "login" /\ mode' = "" /\ mounted' = {} /\ loggedIn' = FALSE
  /\ watchers' = 0 /\ dispatched' = <<>> /\ UNCHANGED expired
  /\ request' = [c \in DOMAIN request |-> IF c \in Calls THEN Idle ELSE request[c]]

Next ==
  \/ \E c \in Calls : \/ OnLoginButtonPress(c) \/ OnSingupRequest(c)
                      \/ LoginReturns(c) \/ SignupReturns(c)
  \/ Turn \/ RunDispatched \/ Tick \/ Expire

\* "otp" shows what "" does.
TypeOK ==
  /\ page \in {"front", "login", "dead", "closed"} /\ mode \in {"", "signup", "lostpassword", "otp"}
  /\ mounted \subseteq Calls /\ loggedIn \in BOOLEAN /\ expired \in BOOLEAN
  /\ watchers \in 0 .. MaxWatchers /\ dispatched \in Seq({"login", "logout", "unset", "home"} \cup Calls)
=============================================================================
