----------------------------- MODULE MCAccounts -----------------------------
(* A small instance of Accounts for TLC.                                   *)
EXTENDS Accounts, TLC

CONSTANTS o1, o2, c1, c2, email, local

TwoOps == {o1, o2}
TwoCalls == {c1, c2}
TwoNames == {email, local}

UserOfCaller == [c \in TwoOps \cup TwoCalls |-> IF c \in TwoOps THEN c ELSE "visitor"]
OneKnown == {email}

New(kind, input) == [kind |-> kind, input |-> input, name |-> local]
Old(kind, input) == [kind |-> kind, input |-> input, name |-> email]

SomeOperations ==
  {<<New("register", "given"), New("login", "password")>>,
   <<Old("login", "refresh"), Old("signOut", "given")>>,
   <<Old("signOut", "absent"), Old("signOut", "empty"), New("register", "empty"),
     New("userAvailable", "empty"), New("addDevice", "given")>>,
   <<New("userAvailable", "given"), New("register", "given")>>,
   <<New("devices", "given")>>}
=============================================================================
