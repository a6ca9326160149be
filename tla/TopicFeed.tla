----------------------------- MODULE TopicFeed ------------------------------
(***************************************************************************)
(* What the events service promises each client, without its goroutines.   *)
(* JetStream delivers each message of a topic once or, when it misses the  *)
(* acknowledgement, again, and counts.  Of these deliveries a client gets  *)
(* some, each at most once: the first ones in the order of publication, a  *)
(* repeated one after the earlier deliveries of the same message.          *)
(***************************************************************************)
EXTENDS Naturals, Sequences

CONSTANTS Clients, Topics, TopicOf, MaxPublished, MaxDeliveries
VARIABLES published, delivered

Init ==
  /\ published = [t \in Topics |-> 0]
  /\ delivered = [c \in Clients |-> <<>>]

Publish(t) ==
  /\ published[t] < MaxPublished
  /\ published' = [published EXCEPT ![t] = @ + 1]
  /\ UNCHANGED delivered

\* Delivery d may come after e.
Follows(d, e) ==
  /\ d.num = 1 => e.seq < d.seq
  /\ d.seq = e.seq => e.num < d.num

Deliver(c, d) ==
  /\ \A i \in DOMAIN delivered[c] : Follows(d, delivered[c][i])
  /\ delivered' = [delivered EXCEPT ![c] = Append(@, d)]
  /\ UNCHANGED published

Next ==
  \/ \E t \in Topics : Publish(t)
  \/ \E c \in Clients : \E m \in 1 .. published[TopicOf[c]], n \in 1 .. MaxDeliveries :
       Deliver(c, [seq |-> m, num |-> n])

Spec == Init /\ [][Next]_<<published, delivered>>
=============================================================================
