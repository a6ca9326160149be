-------------------------- MODULE EventsFeedProofs --------------------------
(***************************************************************************)
(* The events service implements TopicFeed: for every number of clients,   *)
(* topics, subscribers, messages and deliveries and for all capacities,    *)
(* each client gets what JetStream delivers of its topic in that order,    *)
(* each delivery at most once.                                             *)
(***************************************************************************)
EXTENDS EventsBrokerProofs

-----------------------------------------------------------------------------
(* Channels as sequences of deliveries                                     *)

(* What a channel holds when a message has been sent to it.                *)
LEMMA SentTo ==
  ASSUME NEW q \in Seq(Message), NEW d \in Message
  PROVE  /\ Append(q, d) \in Seq(Message)
         /\ \A i \in DOMAIN Append(q, d) :
              \/ i \in DOMAIN q /\ Append(q, d)[i] = q[i]
              \/ (\A j \in DOMAIN q : j < i) /\ i \notin DOMAIN q /\ Append(q, d)[i] = d
OBVIOUS

(* What a channel holds when a message has been received from it.          *)
LEMMA ReceivedFrom ==
  ASSUME NEW q \in Seq(Message), q # <<>>
  PROVE  /\ Tail(q) \in Seq(Message) /\ Head(q) \in Message
         /\ 1 \in DOMAIN q /\ Head(q) = q[1]
         /\ \A i \in DOMAIN Tail(q) : i + 1 \in DOMAIN q /\ 1 < i + 1 /\ Tail(q)[i] = q[i + 1]
OBVIOUS

(* Every message in a channel is one.                                      *)
LEMMA InChannel ==
  ASSUME NEW q \in Seq(Message), NEW i \in DOMAIN q
  PROVE  q[i] \in Message /\ q[i].seq \in 1 .. MaxPublished /\ q[i].num \in 1 .. MaxDeliveries
<1>1. q[i] \in Message
  OBVIOUS
<1> QED
  BY <1>1 DEF Message

(* Sending what may follow all of it keeps a channel in order.             *)
LEMMA SendKeepsOrder ==
  ASSUME NEW q \in Seq(Message), NEW d \in Message, Increasing(q),
         \A i \in DOMAIN q : Feed!Follows(d, q[i])
  PROVE  Increasing(Append(q, d))
<1> SUFFICES ASSUME NEW i \in DOMAIN Append(q, d), NEW j \in DOMAIN Append(q, d), i < j
             PROVE  Feed!Follows(Append(q, d)[j], Append(q, d)[i])
  BY DEF Increasing
<1>1. i \in Nat /\ j \in Nat
  BY SentTo
<1>2. CASE j \in DOMAIN q
  <2>1. i \in DOMAIN q
    BY <1>1, <1>2, SentTo
  <2> QED
    BY <1>2, <2>1, SentTo DEF Increasing
<1>3. CASE j \notin DOMAIN q
  <2>1. Append(q, d)[j] = d /\ i \in DOMAIN q
    BY <1>1, <1>3, SentTo
  <2> QED
    BY <2>1, SentTo
<1> QED
  BY <1>2, <1>3

(* Receiving keeps it in order, and what is left follows what was received.*)
LEMMA ReceiveKeepsOrder ==
  ASSUME NEW q \in Seq(Message), q # <<>>, Increasing(q)
  PROVE  Increasing(Tail(q)) /\ \A i \in DOMAIN Tail(q) : Feed!Follows(Tail(q)[i], Head(q))
<1>1. \A i \in DOMAIN Tail(q) : Feed!Follows(Tail(q)[i], Head(q))
  BY ReceivedFrom DEF Increasing
<1>2. ASSUME NEW i \in DOMAIN Tail(q), NEW j \in DOMAIN Tail(q), i < j
      PROVE  Feed!Follows(Tail(q)[j], Tail(q)[i])
  <2>1. i + 1 \in DOMAIN q /\ j + 1 \in DOMAIN q /\ i + 1 < j + 1
    BY <1>2, ReceivedFrom
  <2> QED
    BY <2>1, ReceivedFrom DEF Increasing
<1> QED
  BY <1>1, <1>2 DEF Increasing

(* The order of two channels, when one of them has something sent to it... *)
LEMMA SendKeepsBefore ==
  ASSUME NEW p \in Seq(Message), NEW q \in Seq(Message), NEW d \in Message, Before(p, q)
  PROVE  /\ (\A j \in DOMAIN q : Feed!Follows(q[j], d)) => Before(Append(p, d), q)
         /\ (\A i \in DOMAIN p : Feed!Follows(d, p[i])) => Before(p, Append(q, d))
BY SentTo DEF Before

(* ... or received from it.                                                *)
LEMMA ReceiveKeepsBefore ==
  ASSUME NEW p \in Seq(Message), NEW q \in Seq(Message), Before(p, q)
  PROVE  /\ p # <<>> => Before(Tail(p), q) /\ \A j \in DOMAIN q : Feed!Follows(q[j], Head(p))
         /\ q # <<>> => Before(p, Tail(q)) /\ \A i \in DOMAIN p : Feed!Follows(Head(q), p[i])
BY ReceivedFrom DEF Before

(* All of it stays within what has been published...                       *)
LEMMA KeepsWithin ==
  ASSUME NEW q \in Seq(Message), NEW n \in Nat, Within(q, n)
  PROVE  /\ \A d \in Message : d.seq \in 1 .. n => Within(Append(q, d), n)
         /\ q # <<>> => Within(Tail(q), n) /\ Head(q).seq \in 1 .. n
         /\ \A k \in Nat : n <= k => Within(q, k)
<1>1. \A d \in Message : d.seq \in 1 .. n => Within(Append(q, d), n)
  BY SentTo DEF Within
<1>2. q # <<>> => Within(Tail(q), n) /\ Head(q).seq \in 1 .. n
  BY ReceivedFrom DEF Within
<1>3. \A k \in Nat : n <= k => Within(q, k)
  BY DEF Within
<1> QED
  BY <1>1, <1>2, <1>3

(* ... and of what has been pushed...                                      *)
LEMMA KeepsAllOf ==
  ASSUME NEW q \in Seq(Message), NEW n, NEW f, AllOf(q, n, f)
  PROVE  /\ \A d \in Message : OneOf(d, n, f) => AllOf(Append(q, d), n, f)
         /\ q # <<>> => AllOf(Tail(q), n, f) /\ OneOf(Head(q), n, f)
<1>1. \A d \in Message : OneOf(d, n, f) => AllOf(Append(q, d), n, f)
  BY SentTo DEF AllOf
<1>2. q # <<>> => AllOf(Tail(q), n, f) /\ OneOf(Head(q), n, f)
  BY ReceivedFrom DEF AllOf
<1> QED
  BY <1>1, <1>2

(* ... also when more is pushed or counts are forgotten.                   *)
LEMMA CountsKeepAllOf ==
  ASSUME NEW q \in Seq(Message), NEW n \in Nat, NEW f, AllOf(q, n, f), NEW k \in Nat, n <= k,
         NEW g, \A m \in 1 .. MaxPublished, i \in 1 .. MaxDeliveries :
                  m <= n /\ (f[m] = 0 \/ i <= f[m]) => g[m] = 0 \/ i <= g[m]
  PROVE  AllOf(q, k, g)
<1> SUFFICES ASSUME NEW i \in DOMAIN q
             PROVE  OneOf(q[i], k, g)
  BY DEF AllOf
<1>1. q[i].seq \in 1 .. MaxPublished /\ q[i].num \in 1 .. MaxDeliveries
  BY InChannel
<1>2. q[i].seq \in 1 .. n /\ (f[q[i].seq] = 0 \/ q[i].num <= f[q[i].seq])
  BY DEF AllOf, OneOf
<1>3. q[i].seq <= n /\ q[i].seq \in 1 .. k
  BY <1>2
<1>4. g[q[i].seq] = 0 \/ q[i].num <= g[q[i].seq]
  BY <1>1, <1>2, <1>3
<1> QED
  BY <1>3, <1>4 DEF OneOf

Shortened(q, r) == r = q \/ r = <<>> \/ (q # <<>> /\ r = <<Head(q)>>)

(* Discarding keeps the order.                                             *)
LEMMA ShorteningKeeps ==
  ASSUME NEW q \in Seq(Message), NEW r \in Seq(Message), Shortened(q, r)
  PROVE  /\ Increasing(q) => Increasing(r)
         /\ \A p : Before(p, q) => Before(p, r)
         /\ \A n, f : AllOf(q, n, f) => AllOf(r, n, f)
<1>1. \A i \in DOMAIN r : i \in DOMAIN q /\ r[i] = q[i]
  BY ReceivedFrom DEF Shortened
<1> QED
  BY <1>1 DEF Increasing, Before, AllOf

(* A closed handle's counts start anew.                                    *)
Forgotten == \A h \in Handle, m \in 1 .. MaxPublished : deliveries'[h][m] \in {deliveries[h][m], 0}

(* Closing handles does this to what its callbacks have still to pass on.  *)
LEMMA DiscardShortens ==
  ASSUME NEW hs, Discard(hs)
  PROVE  Forgotten /\ \A h \in Handle : Shortened(pending[h], pending'[h])
<1>1. Forgotten
  BY DEF Discard, Forgotten
<1>2. \A h \in Handle : Shortened(pending[h], pending'[h])
  BY DEF Discard, Shortened
<1> QED
  BY <1>1, <1>2

-----------------------------------------------------------------------------
(* The steps                                                               *)

Order == FirstHandles /\ SupplyOrder /\ ClientOrder /\ Registered /\ FeedOrder

Young == {"idle", "register", "refused"}

(* The types and what follows at once from the order.                      *)
LEMMA OrderFacts ==
  ASSUME IInv, Order
  PROVE  /\ \A s \in Subs : /\ messages[s] \in Seq(Message) /\ Callbacks(s) \in Seq(Message)
                            /\ Supplied(s) \in Nat
                            /\ <<s, 1>> \in Handle
         /\ \A c \in Clients : /\ queue[c] \in Seq(Message) /\ delivered[c] \in Seq(Message)
                               /\ published[TopicOf[c]] \in Nat
         /\ \A s \in Subs : \A c \in clients[s] :
              /\ c \in Clients /\ subscriber[c] = s /\ pc[c] \notin Young
              /\ Supplied(s) = published[TopicOf[c]]
<1>1. \A s \in Subs : <<s, 1>> \in Handle
  BY DEF Handle
<1>2. \A s \in Subs : Supplied(s) \in Nat
  BY DEF IInv, Numbering, TypeOK, Supplied
<1>3. \A c \in Clients : published[TopicOf[c]] \in Nat
  BY ClientsAssumption DEF IInv, TypeOK
<1>4. ASSUME NEW s \in Subs, NEW c \in clients[s]
      PROVE  /\ c \in Clients /\ subscriber[c] = s /\ pc[c] \notin Young
             /\ Supplied(s) = published[TopicOf[c]]
  <2>1. c \in Clients /\ subscriber[c] = s /\ pc[c] \notin Young
    BY DEF Order, Registered, IInv, TypeOK, Young
  <2>2. s <= made /\ topic[s] = TopicOf[c]
    BY <2>1 DEF Order, Registered, IInv, HandlersHaveSubscriber, Young
  <2> QED
    BY <2>1, <2>2 DEF Supplied
<1>5. /\ \A s \in Subs : messages[s] \in Seq(Message) /\ Callbacks(s) \in Seq(Message)
      /\ \A c \in Clients : queue[c] \in Seq(Message) /\ delivered[c] \in Seq(Message)
  BY <1>1 DEF IInv, TypeOK, Callbacks
<1> QED
  BY <1>1, <1>2, <1>3, <1>4, <1>5

(* A step that moves handlers on, takes clients from a list or closes      *)
(* handles, and sends nothing.                                             *)
LEMMA QuietKeepsOrder ==
  ASSUME IInv, TypeOK', Order,
         UNCHANGED <<published, messages, queue, delivered, topic, made>>,
         live' \subseteq live,
         \A h \in Handle : Shortened(pending[h], pending'[h]), Forgotten,
         \A s \in Subs : clients'[s] \subseteq clients[s],
         \A c \in Clients :
           /\ pc[c] \notin Young => pc'[c] \notin Young /\ subscriber'[c] = subscriber[c]
           /\ pc[c] \in Young => pc'[c] \in Young
           /\ pc'[c] \notin {"idle", "refused"} => topic[subscriber'[c]] = TopicOf[c]
  PROVE  Order'
<1>1. \A s \in Subs : Callbacks(s)' \in Seq(Message) /\ Shortened(Callbacks(s), Callbacks(s)')
  BY OrderFacts DEF TypeOK, Callbacks
<1>2. FirstHandles'
  BY DEF Order, FirstHandles, Shortened, Handle
<1>3. \A s \in Subs : Supplied(s)' = Supplied(s)
  BY DEF Supplied
<1>4. \A s \in Subs, m \in 1 .. MaxPublished :
        deliveries'[<<s, 1>>][m] = deliveries[<<s, 1>>][m] \/ deliveries'[<<s, 1>>][m] = 0
  BY OrderFacts DEF Forgotten
<1>5. ASSUME NEW s \in Subs, NEW q \in Seq(Message), AllOf(q, Supplied(s), deliveries[<<s, 1>>])
      PROVE  AllOf(q, Supplied(s), deliveries'[<<s, 1>>])
  <2>1. Supplied(s) \in Nat
    BY OrderFacts
  <2>2. Supplied(s) <= Supplied(s)
    BY <2>1
  <2>3. \A m \in 1 .. MaxPublished, i \in 1 .. MaxDeliveries :
          m <= Supplied(s) /\ (deliveries[<<s, 1>>][m] = 0 \/ i <= deliveries[<<s, 1>>][m])
            => deliveries'[<<s, 1>>][m] = 0 \/ i <= deliveries'[<<s, 1>>][m]
    BY <1>4
  <2> QED
    BY <1>5, <2>1, <2>2, <2>3, CountsKeepAllOf
<1>6. SupplyOrder'
  <2> SUFFICES ASSUME NEW s \in Subs
               PROVE  /\ Increasing(messages[s]) /\ Increasing(Callbacks(s)')
                      /\ Before(messages[s], Callbacks(s)')
                      /\ AllOf(messages[s], Supplied(s), deliveries'[<<s, 1>>])
                      /\ AllOf(Callbacks(s)', Supplied(s), deliveries'[<<s, 1>>])
                      /\ \A m \in 1 .. MaxPublished : deliveries'[<<s, 1>>][m] > 0 => m <= Supplied(s)
    BY <1>3 DEF SupplyOrder, Pushed
  <2>1. /\ Increasing(messages[s]) /\ Increasing(Callbacks(s))
        /\ Before(messages[s], Callbacks(s))
        /\ AllOf(messages[s], Supplied(s), deliveries[<<s, 1>>])
        /\ AllOf(Callbacks(s), Supplied(s), deliveries[<<s, 1>>])
        /\ \A m \in 1 .. MaxPublished : deliveries[<<s, 1>>][m] > 0 => m <= Supplied(s)
    BY DEF Order, SupplyOrder, Pushed
  <2>2. \A m \in 1 .. MaxPublished : deliveries'[<<s, 1>>][m] > 0 => m <= Supplied(s)
    BY <1>4, <2>1
  <2>3. AllOf(Callbacks(s)', Supplied(s), deliveries[<<s, 1>>])
    BY <1>1, <2>1, OrderFacts, ShorteningKeeps
  <2> QED
    BY <1>1, <1>5, <2>1, <2>2, <2>3, OrderFacts, ShorteningKeeps
<1>7. ClientOrder'
  BY DEF Order, ClientOrder, Young
<1>8. Registered'
  BY OrderFacts DEF Registered, Young, TypeOK
<1>9. FeedOrder'
  <2> SUFFICES ASSUME NEW s \in Subs, NEW c \in clients[s], NEW p \in {delivered[c], queue[c]}
               PROVE  /\ Before(p, messages[s]) /\ Before(p, Callbacks(s)')
                      /\ AllOf(p, Supplied(s), deliveries'[<<s, 1>>])
    BY <1>3 DEF FeedOrder, Pushed
  <2>1. /\ Before(p, messages[s]) /\ Before(p, Callbacks(s))
        /\ AllOf(p, Supplied(s), deliveries[<<s, 1>>])
    BY DEF Order, FeedOrder, Pushed
  <2>2. p \in Seq(Message)
    BY OrderFacts
  <2> QED
    BY <1>1, <1>5, <2>1, <2>2, OrderFacts, ShorteningKeeps
<1> QED
  BY <1>2, <1>6, <1>7, <1>8, <1>9 DEF Order

(* Every step but the following seven is such a step.                      *)
LEMMA QuietSteps ==
  ASSUME IInv, TypeOK', Order, ReadyFirst, [Next]_vars
  PROVE  \/ Order' /\ UNCHANGED <<published, delivered>>
         \/ \E t \in Topics : Publish(t)
         \/ \E h \in Handle : Callback(h) \/ \E m \in 1 .. MaxPublished : Redeliver(h, m)
         \/ \E s \in Subs : LoopFanout(s) \/ \E c \in Clients : LoopAdd(s, c)
         \/ \E c \in Clients : GetSubscriberNew(c) \/ WriteMessage(c)
<1> USE DEF connVars, loopVars, natsVars, handlerVars
<1>0. TypeOK
  BY DEF IInv
<1>1. /\ Order
      /\ \A h \in Handle : pending'[h] = pending[h] => Shortened(pending[h], pending'[h])
      /\ UNCHANGED deliveries => Forgotten
  BY DEF Shortened, Forgotten
<1>2. \A c \in Clients : pc[c] \notin {"idle", "refused"} => topic[subscriber[c]] = TopicOf[c]
  BY DEF Order, Registered
<1>3. CASE UNCHANGED vars \/ Connection
  BY <1>0, <1>1, <1>2, <1>3, QuietKeepsOrder DEF vars, Connection, ConnectDial, ConnectNotify
<1>4. CASE ConnectionClosed
  <2>1. /\ UNCHANGED <<published, messages, queue, delivered, topic, made, clients, pc, subscriber>>
        /\ live' \subseteq live /\ Discard(live)
    BY <1>4 DEF ConnectionClosed
  <2>2. Forgotten /\ \A h \in Handle : Shortened(pending[h], pending'[h])
    BY <2>1, DiscardShortens
  <2> QED
    BY <1>2, <2>1, <2>2, QuietKeepsOrder
<1>5. ASSUME NEW s \in Subs, LoopTeardown(s) \/ LoopGiveUp(s)
      PROVE  Order' /\ UNCHANGED <<published, delivered>>
  <2>1. /\ UNCHANGED <<published, messages, queue, delivered, topic, made, clients, pc, subscriber>>
        /\ live' \subseteq live /\ Discard({Current(s)})
    BY <1>5 DEF LoopTeardown, LoopGiveUp, DeleteSubscriber
  <2>2. Forgotten /\ \A h \in Handle : Shortened(pending[h], pending'[h])
    BY <2>1, DiscardShortens
  <2> QED
    BY <1>2, <2>1, <2>2, QuietKeepsOrder
<1>6. ASSUME NEW s \in Subs, LoopReestablish(s)
      PROVE  FALSE
  BY <1>6 DEF IInv, LoopReestablish, NeverReestablished
<1>7. ASSUME NEW s \in Subs, NEW c \in Clients, LoopRemove(s, c)
      PROVE  Order' /\ UNCHANGED <<published, delivered>>
  <2>1. /\ UNCHANGED <<published, messages, queue, delivered, topic, made, subscriber, live, pending, deliveries>>
        /\ \A r \in Subs : clients'[r] \subseteq clients[r]
        /\ pc[c] = "unregister" /\ pc' = [pc EXCEPT ![c] = "done"]
    BY <1>0, <1>7 DEF LoopRemove, Goto, TypeOK
  <2>2. \A d \in Clients : pc'[d] = IF d = c THEN "done" ELSE pc[d]
    BY <1>0, <2>1 DEF TypeOK
  <2> QED
    BY <1>1, <1>2, <2>1, <2>2, QuietKeepsOrder DEF Young
<1>8. ASSUME NEW c \in Clients, GetSubscriberFound(c) \/ GetSubscriberFails(c)
      PROVE  Order' /\ UNCHANGED <<published, delivered>>
  <2>1. /\ UNCHANGED <<published, messages, queue, delivered, topic, made, clients, live, pending, deliveries>>
        /\ pc[c] = "idle" /\ pc'[c] \in {"register", "refused"}
        /\ \A d \in Clients : d # c => pc'[d] = pc[d] /\ subscriber'[d] = subscriber[d]
    BY <1>0, <1>8 DEF GetSubscriberFound, GetSubscriberFails, MayRequest, TypeOK
  <2>2. pc'[c] = "register" => topic[subscriber'[c]] = TopicOf[c]
    <3>1. pc'[c] = "register" => GetSubscriberFound(c)
      BY <1>0, <1>8 DEF GetSubscriberFails, TypeOK
    <3>2. GetSubscriberFound(c) => /\ subscriber'[c] = subscribers[TopicOf[c]]
                                   /\ subscribers[TopicOf[c]] # None
      BY <1>0 DEF GetSubscriberFound, Found, TypeOK
    <3> QED
      BY <3>1, <3>2, ClientsAssumption DEF IInv, MapMatchesTopic
  <2> QED
    BY <1>1, <1>2, <2>1, <2>2, QuietKeepsOrder DEF Young
<1>9. ASSUME NEW c \in Clients, Disconnect(c) \/ StreamPoll(c) \/ ClientGone(c) \/ SubscriberError(c) \/ Upgrade(c)
      PROVE  Order' /\ UNCHANGED <<published, delivered>>
  <2>1. /\ UNCHANGED <<published, messages, queue, delivered, topic, made, clients, live, pending,
                     deliveries, subscriber>>
        /\ \A d \in Clients : pc'[d] = pc[d] \/ (pc[d] \notin Young /\ pc'[d] \notin Young)
    BY <1>0, <1>9 DEF Disconnect, StreamPoll, ClientGone, SubscriberError, Upgrade, Goto, TypeOK, Young
  <2> QED
    BY <1>1, <1>2, <2>1, QuietKeepsOrder DEF Young
<1> QED
  BY <1>3, <1>4, <1>5, <1>6, <1>7, <1>8, <1>9 DEF Next, Loop, Handler, GetSubscriber

(* A client that is put on a list has been sent nothing yet.               *)
LEMMA AddKeepsOrder ==
  ASSUME IInv, Order, NEW s \in Subs, NEW c \in Clients, LoopAdd(s, c)
  PROVE  Order'
<1>1. /\ UNCHANGED <<made, topic, live, pending, published, deliveries, messages, queue, delivered,
                     subscriber>>
      /\ subscriber[c] = s /\ pc[c] = "register"
      /\ \A d \in Clients : d # c => pc'[d] = pc[d]
      /\ pc'[c] \notin Young
      /\ clients' = [clients EXCEPT ![s] = clients[s] \cup {c}]
  BY DEF LoopAdd, Goto, IInv, TypeOK, loopVars, natsVars, Young
<1>2. queue[c] = <<>> /\ delivered[c] = <<>> /\ topic[s] = TopicOf[c]
  BY <1>1 DEF Order, ClientOrder, Registered
<1>3. \A r \in Subs : \A d \in clients'[r] : d \in clients[r] \/ (d = c /\ r = s)
  BY <1>1 DEF IInv, TypeOK
<1>4. FirstHandles' /\ SupplyOrder'
  BY <1>1 DEF Order, FirstHandles, SupplyOrder, Pushed, Supplied, Callbacks
<1>5. ClientOrder'
  BY <1>1 DEF Order, ClientOrder, Young
<1>6. Registered'
  BY <1>1, <1>2, <1>3, OrderFacts DEF Order, Registered, Young
<1>7. FeedOrder'
  <2> SUFFICES ASSUME NEW r \in Subs, NEW d \in clients'[r], NEW p \in {delivered[d], queue[d]}
               PROVE  /\ AllOf(p, Supplied(r), deliveries[<<r, 1>>])
                      /\ Before(p, messages[r]) /\ Before(p, Callbacks(r))
    BY <1>1 DEF FeedOrder, Pushed, Supplied, Callbacks
  <2>1. CASE d \in clients[r]
    BY <2>1 DEF Order, FeedOrder, Pushed
  <2>2. CASE d = c
    <3>1. \A q, n, f : Before(<<>>, q) /\ AllOf(<<>>, n, f)
      BY DEF Before, AllOf
    <3> QED
      BY <1>2, <2>2, <3>1
  <2> QED
    BY <1>3, <2>1, <2>2
<1> QED
  BY <1>4, <1>5, <1>6, <1>7 DEF Order

(* A new subscriber has nothing to send, and no client is on its list yet. *)
LEMMA NewKeepsOrder ==
  ASSUME IInv, Order, ReadyFirst, NEW c \in Clients, GetSubscriberNew(c)
  PROVE  Order'
<1> DEFINE n == made + 1
<1>1. /\ UNCHANGED <<clients, pending, published, deliveries, messages, queue, delivered>>
      /\ made' = n /\ live' = live \cup {<<n, 1>>}
      /\ topic' = [topic EXCEPT ![n] = TopicOf[c]]
      /\ pc[c] = "idle" /\ pc' = [pc EXCEPT ![c] = "register"]
      /\ subscriber' = [subscriber EXCEPT ![c] = n]
  BY DEF GetSubscriberNew, MayRequest, connVars, natsVars
<1>2. n \in Subs /\ made \in Nat /\ \A s \in Subs : s \in Nat
  BY BoundsAssumption DEF GetSubscriberNew, IInv, TypeOK, Subs
<1> HIDE DEF n
<1>3. /\ \A d \in Clients : /\ pc'[d] = IF d = c THEN "register" ELSE pc[d]
                            /\ subscriber'[d] = IF d = c THEN n ELSE subscriber[d]
      /\ \A s \in Subs : topic'[s] = IF s = n THEN TopicOf[c] ELSE topic[s]
  BY <1>1, <1>2 DEF IInv, TypeOK
<1>4. ~(n <= made) /\ \A s \in Subs : (s <= n) <=> (s <= made \/ s = n)
  BY <1>2 DEF n
<1>5. FirstHandles'
  BY <1>1 DEF Order, FirstHandles
<1>6. \A s \in Subs : s # n => Supplied(s)' = Supplied(s)
  BY <1>1, <1>3, <1>4 DEF Supplied
<1>7. SupplyOrder'
  <2> SUFFICES ASSUME NEW s \in Subs
               PROVE  /\ AllOf(messages[s], Supplied(s)', deliveries[<<s, 1>>])
                      /\ AllOf(Callbacks(s), Supplied(s)', deliveries[<<s, 1>>])
                      /\ \A m \in 1 .. MaxPublished : deliveries[<<s, 1>>][m] > 0 => m <= Supplied(s)'
    BY <1>1 DEF Order, SupplyOrder, Pushed, Callbacks
  <2>0. /\ AllOf(messages[s], Supplied(s), deliveries[<<s, 1>>])
        /\ AllOf(Callbacks(s), Supplied(s), deliveries[<<s, 1>>])
        /\ \A m \in 1 .. MaxPublished : deliveries[<<s, 1>>][m] > 0 => m <= Supplied(s)
    BY DEF Order, SupplyOrder, Pushed
  <2>1. CASE s = n
    <3>1. Supplied(s) = 0
      BY <1>4, <2>1 DEF Supplied
    <3>2. \A q, f, k : AllOf(q, 0, f) => AllOf(q, k, f)
      BY DEF AllOf, OneOf
    <3>3. \A m \in 1 .. MaxPublished : ~(m <= 0)
      OBVIOUS
    <3> QED
      BY <2>0, <3>1, <3>2, <3>3
  <2>2. CASE s # n
    BY <1>6, <2>0, <2>2
  <2> QED
    BY <2>1, <2>2
<1>8. ClientOrder'
  BY <1>1, <1>3 DEF Order, ClientOrder
<1>9. Registered'
  <2>1. ASSUME NEW d \in Clients, d # c, pc[d] \notin {"idle", "refused"}
        PROVE  topic'[subscriber[d]] = TopicOf[d]
    <3>1. subscriber[d] \in Subs /\ subscriber[d] # n /\ topic[subscriber[d]] = TopicOf[d]
      BY <1>4, <2>1 DEF IInv, HandlersHaveSubscriber, Order, Registered
    <3> QED
      BY <1>3, <3>1
  <2>2. \A s \in Subs : \A d \in clients[s] :
          d \in Clients /\ d # c /\ subscriber[d] = s /\ pc[d] \notin Young
    BY <1>1, OrderFacts DEF Young
  <2> QED
    BY <1>1, <1>2, <1>3, <2>1, <2>2 DEF Registered, Young
<1>10. FeedOrder'
  <2>1. \A s \in Subs : \A d \in clients[s] : s # n
    BY <1>1, <1>4, OrderFacts DEF IInv, HandlersHaveSubscriber, Young
  <2> QED
    BY <1>1, <1>6, <2>1 DEF Order, FeedOrder, Pushed, Callbacks
<1> QED
  BY <1>5, <1>8, <1>9, <1>10, <1>7 DEF Order

(* What is published is newer than all that is on its way.                 *)
LEMMA PublishKeepsOrder ==
  ASSUME IInv, Order, ReadyFirst, NEW t \in Topics, Publish(t)
  PROVE  Order' /\ UNCHANGED delivered
<1> DEFINE m == published[t] + 1
           d == [seq |-> m, num |-> 1]
<1>1. /\ UNCHANGED <<made, topic, live, messages, queue, delivered, pc, subscriber, clients>>
      /\ published' = [published EXCEPT ![t] = m] /\ m <= MaxPublished
      /\ \A h \in Handle :
           IF h \in live /\ topic[h[1]] = t
           THEN /\ pending'[h] = Append(pending[h], d)
                /\ deliveries'[h] = [deliveries[h] EXCEPT ![m] = 1]
           ELSE pending'[h] = pending[h] /\ deliveries'[h] = deliveries[h]
  BY DEF Publish, loopVars, handlerVars, IInv, TypeOK
<1>2. published[t] \in Nat /\ m \in Nat /\ published[t] <= m
      /\ \A i \in 1 .. published[t] : i < m
  BY DEF IInv, TypeOK
<1>3. m \in 1 .. m /\ m \in 1 .. MaxPublished /\ 1 \in 1 .. MaxDeliveries
  BY <1>1, <1>2, BoundsAssumption
<1>4. d \in Message /\ d.seq = m /\ d.num = 1
  BY <1>3 DEF Message
<1> HIDE DEF m, d
<1>5. \A u \in Topics : published'[u] = IF u = t THEN m ELSE published[u]
  BY <1>1 DEF IInv, TypeOK
<1>6. FirstHandles'
  <2>1. \A s \in Subs : <<s, 2>> \in Handle /\ <<s, 2>>[2] = 2
    BY DEF Handle
  <2>2. ASSUME NEW s \in Subs, <<s, 2>> \in live
        PROVE  FALSE
    <3>1. <<s, 2>>[2] = 1
      BY <2>2 DEF Order, FirstHandles
    <3> QED
      BY <3>1
  <2> QED
    BY <1>1, <2>1, <2>2 DEF Order, FirstHandles
<1>7. ASSUME NEW s \in Subs
      PROVE  \/ /\ Callbacks(s)' = Callbacks(s) /\ deliveries'[<<s, 1>>] = deliveries[<<s, 1>>]
                /\ Supplied(s)' \in Nat /\ Supplied(s) <= Supplied(s)'
             \/ /\ Callbacks(s)' = Append(Callbacks(s), d)
                /\ deliveries'[<<s, 1>>][m] = 1
                /\ \A k \in 1 .. MaxPublished :
                     k # m => deliveries'[<<s, 1>>][k] = deliveries[<<s, 1>>][k]
                /\ Supplied(s) = published[t] /\ Supplied(s)' = m
  <2>0. <<s, 1>> \in Handle /\ <<s, 1>>[1] = s /\ Supplied(s) \in Nat
    BY OrderFacts
  <2>1. Supplied(s)' \in Nat /\ Supplied(s) <= Supplied(s)'
    <3>1. CASE s <= made /\ topic[s] = t
      BY <1>1, <1>2, <1>5, <3>1 DEF Supplied
    <3>2. CASE s <= made /\ topic[s] # t
      <4>1. topic[s] \in Topics
        BY <3>2 DEF IInv, Numbering
      <4> QED
        BY <1>1, <1>5, <2>0, <3>2, <4>1 DEF Supplied
    <3>3. CASE ~(s <= made)
      BY <1>1, <2>0, <3>3 DEF Supplied
    <3> QED
      BY <3>1, <3>2, <3>3
  <2>2. CASE <<s, 1>> \in live /\ topic[s] = t
    <3>1. s <= made
      BY <2>0, <2>2 DEF IInv, HandlesOfRunning
    <3>2. /\ Callbacks(s)' = Append(Callbacks(s), d)
          /\ Supplied(s) = published[t] /\ Supplied(s)' = m
      BY <1>1, <1>5, <2>0, <2>2, <3>1 DEF Supplied, Callbacks
    <3>3. deliveries[<<s, 1>>] \in [1 .. MaxPublished -> 0 .. MaxDeliveries]
      BY <2>0 DEF IInv, TypeOK
    <3>4. deliveries'[<<s, 1>>] = [deliveries[<<s, 1>>] EXCEPT ![m] = 1]
      BY <1>1, <2>0, <2>2
    <3>5. /\ deliveries'[<<s, 1>>][m] = 1
          /\ \A k \in 1 .. MaxPublished :
               k # m => deliveries'[<<s, 1>>][k] = deliveries[<<s, 1>>][k]
      BY <1>3, <3>3, <3>4
    <3> QED
      BY <3>2, <3>5
  <2>3. CASE ~(<<s, 1>> \in live /\ topic[s] = t)
    BY <1>1, <2>0, <2>1, <2>3 DEF Callbacks
  <2> QED
    BY <2>2, <2>3
<1>8. ASSUME NEW s \in Subs, NEW q \in Seq(Message), AllOf(q, Supplied(s), deliveries[<<s, 1>>])
      PROVE  /\ AllOf(q, Supplied(s)', deliveries'[<<s, 1>>])
             /\ Callbacks(s)' # Callbacks(s) => \A i \in DOMAIN q : Feed!Follows(d, q[i])
  <2>1. Supplied(s) \in Nat /\ Supplied(s)' \in Nat
    BY <1>2, <1>7, OrderFacts
  <2>2. CASE /\ deliveries'[<<s, 1>>] = deliveries[<<s, 1>>]
             /\ Callbacks(s)' = Callbacks(s) /\ Supplied(s) <= Supplied(s)'
    BY <1>8, <2>1, <2>2, CountsKeepAllOf
  <2>3. CASE /\ \A k \in 1 .. MaxPublished :
                  k # m => deliveries'[<<s, 1>>][k] = deliveries[<<s, 1>>][k]
             /\ Supplied(s) = published[t] /\ Supplied(s)' = m
    <3>1. \A k \in 1 .. MaxPublished :
            k <= Supplied(s) => deliveries'[<<s, 1>>][k] = deliveries[<<s, 1>>][k]
      <4>1. \A k \in 1 .. MaxPublished : k <= Supplied(s) => k # m
        BY <1>2, <2>3
      <4> QED
        BY <2>3, <4>1
    <3>2. AllOf(q, m, deliveries'[<<s, 1>>])
      <4>1. Supplied(s) <= m
        BY <1>2, <2>3
      <4>2. \A k \in 1 .. MaxPublished, i \in 1 .. MaxDeliveries :
              k <= Supplied(s) /\ (deliveries[<<s, 1>>][k] = 0 \/ i <= deliveries[<<s, 1>>][k])
                => deliveries'[<<s, 1>>][k] = 0 \/ i <= deliveries'[<<s, 1>>][k]
        BY <3>1
      <4> QED
        BY <1>2, <1>8, <2>1, <4>1, <4>2, CountsKeepAllOf
    <3>3. \A i \in DOMAIN q : q[i].seq < m
      BY <1>2, <1>8, <2>3 DEF AllOf, OneOf
    <3> QED
      BY <1>2, <1>4, <2>3, <3>2, <3>3, InChannel DEF Feed!Follows
  <2> QED
    BY <1>7, <2>2, <2>3
<1>9. SupplyOrder'
  <2> SUFFICES ASSUME NEW s \in Subs
               PROVE  /\ Increasing(Callbacks(s)') /\ Before(messages[s], Callbacks(s)')
                      /\ AllOf(messages[s], Supplied(s)', deliveries'[<<s, 1>>])
                      /\ AllOf(Callbacks(s)', Supplied(s)', deliveries'[<<s, 1>>])
                      /\ \A k \in 1 .. MaxPublished : deliveries'[<<s, 1>>][k] > 0 => k <= Supplied(s)'
    BY <1>1 DEF Order, SupplyOrder, Pushed
  <2>1. /\ Increasing(Callbacks(s)) /\ Before(messages[s], Callbacks(s))
        /\ AllOf(messages[s], Supplied(s), deliveries[<<s, 1>>])
        /\ AllOf(Callbacks(s), Supplied(s), deliveries[<<s, 1>>])
        /\ \A k \in 1 .. MaxPublished : deliveries[<<s, 1>>][k] > 0 => k <= Supplied(s)
        /\ messages[s] \in Seq(Message) /\ Callbacks(s) \in Seq(Message) /\ Supplied(s) \in Nat
    BY OrderFacts DEF Order, SupplyOrder, Pushed
  <2>2. /\ AllOf(messages[s], Supplied(s)', deliveries'[<<s, 1>>])
        /\ AllOf(Callbacks(s), Supplied(s)', deliveries'[<<s, 1>>])
    BY <1>8, <2>1
  <2>3. \A k \in 1 .. MaxPublished : deliveries'[<<s, 1>>][k] > 0 => k <= Supplied(s)'
    <3>1. CASE deliveries'[<<s, 1>>] = deliveries[<<s, 1>>] /\ Supplied(s) <= Supplied(s)'
      <4>1. Supplied(s)' \in Nat
        BY <1>2, <1>7, <2>1
      <4> QED
        BY <2>1, <3>1, <4>1
    <3>2. CASE /\ \A k \in 1 .. MaxPublished :
                    k # m => deliveries'[<<s, 1>>][k] = deliveries[<<s, 1>>][k]
               /\ Supplied(s) = published[t] /\ Supplied(s)' = m
      BY <1>2, <2>1, <3>2
    <3> QED
      BY <1>7, <3>1, <3>2
  <2>4. CASE Callbacks(s)' = Callbacks(s)
    BY <2>1, <2>2, <2>3, <2>4
  <2>5. CASE /\ Callbacks(s)' # Callbacks(s) /\ Callbacks(s)' = Append(Callbacks(s), d)
             /\ deliveries'[<<s, 1>>][m] = 1 /\ Supplied(s)' = m
    <3>1. /\ \A i \in DOMAIN Callbacks(s) : Feed!Follows(d, Callbacks(s)[i])
          /\ \A i \in DOMAIN messages[s] : Feed!Follows(d, messages[s][i])
      BY <1>8, <2>1, <2>5
    <3>2. OneOf(d, Supplied(s)', deliveries'[<<s, 1>>])
      BY <1>3, <1>4, <2>5 DEF OneOf
    <3> QED
      BY <1>4, <2>1, <2>2, <2>3, <2>5, <3>1, <3>2, SendKeepsOrder, SendKeepsBefore, KeepsAllOf
  <2> QED
    BY <1>7, <2>4, <2>5
<1>10. ClientOrder'
  <2> SUFFICES ASSUME NEW c \in Clients
               PROVE  /\ Within(queue[c], published'[TopicOf[c]])
                      /\ Within(delivered[c], published'[TopicOf[c]])
    BY <1>1 DEF Order, ClientOrder
  <2>1. /\ published[TopicOf[c]] \in Nat /\ published'[TopicOf[c]] \in Nat
        /\ published[TopicOf[c]] <= published'[TopicOf[c]]
    BY <1>2, <1>5, OrderFacts, ClientsAssumption
  <2>2. /\ queue[c] \in Seq(Message) /\ delivered[c] \in Seq(Message)
        /\ Within(queue[c], published[TopicOf[c]]) /\ Within(delivered[c], published[TopicOf[c]])
    BY OrderFacts DEF Order, ClientOrder
  <2> QED
    BY <2>1, <2>2, KeepsWithin
<1>11. Registered'
  BY <1>1 DEF Order, Registered
<1>12. FeedOrder'
  <2> SUFFICES ASSUME NEW s \in Subs, NEW c \in clients[s], NEW p \in {delivered[c], queue[c]}
               PROVE  /\ Before(p, Callbacks(s)')
                      /\ AllOf(p, Supplied(s)', deliveries'[<<s, 1>>])
    BY <1>1 DEF Order, FeedOrder, Pushed
  <2>1. /\ Before(p, Callbacks(s)) /\ p \in Seq(Message) /\ Callbacks(s) \in Seq(Message)
        /\ AllOf(p, Supplied(s), deliveries[<<s, 1>>])
    <3>1. c \in Clients /\ Callbacks(s) \in Seq(Message)
      BY OrderFacts
    <3>2. p \in Seq(Message)
      BY <3>1, OrderFacts
    <3> QED
      BY <3>1, <3>2 DEF Order, FeedOrder, Pushed
  <2>2. CASE Callbacks(s)' = Callbacks(s)
    BY <1>8, <2>1, <2>2
  <2>3. CASE Callbacks(s)' # Callbacks(s) /\ Callbacks(s)' = Append(Callbacks(s), d)
    BY <1>4, <1>8, <2>1, <2>3, SendKeepsBefore
  <2> QED
    BY <1>7, <2>2, <2>3
<1> QED
  BY <1>1, <1>6, <1>9, <1>10, <1>11, <1>12 DEF Order

(* What is pushed again follows the earlier deliveries of the same message *)
(* and may come after any other.                                           *)
LEMMA RedeliverKeepsOrder ==
  ASSUME IInv, Order, NEW h \in Handle, NEW m \in 1 .. MaxPublished, Redeliver(h, m)
  PROVE  Order' /\ UNCHANGED <<published, delivered>>
<1> DEFINE k == deliveries[h][m]
           d == [seq |-> m, num |-> k + 1]
<1>1. /\ UNCHANGED <<made, topic, live, published, messages, queue, delivered, pc, subscriber, clients>>
      /\ h \in live
      /\ k \in 1 .. MaxDeliveries - 1
      /\ deliveries' = [deliveries EXCEPT ![h] = [deliveries[h] EXCEPT ![m] = k + 1]]
      /\ pending' = [pending EXCEPT ![h] = Append(pending[h], d)]
  BY DEF Redeliver, loopVars, handlerVars
<1>2. PICK s \in Subs : h = <<s, 1>>
  <2>1. PICK s \in Subs, g \in {1, 2} : h = <<s, g>>
    BY DEF Handle
  <2>2. g = 1
    BY <1>1, <2>1 DEF Order, FirstHandles
  <2> QED
    BY <2>1, <2>2
<1>3. /\ k \in Nat /\ k # 0 /\ k > 0 /\ k + 1 \in 1 .. MaxDeliveries
      /\ d \in Message /\ d.seq = m /\ d.num = k + 1 /\ d.num # 1
  BY <1>1, BoundsAssumption DEF Message
<1> DEFINE q == Callbacks(s)
           f == deliveries[<<s, 1>>]
           g == [f EXCEPT ![m] = k + 1]
<1>4. /\ \A r \in Subs : <<r, 1>> \in Handle /\ <<r, 2>> \in Handle /\ <<r, 2>> # h
      /\ \A r \in Subs : <<r, 1>> = h <=> r = s
  BY <1>2 DEF Handle
<1>5. /\ \A r \in Subs : /\ Callbacks(r)' = IF r = s THEN Append(q, d) ELSE Callbacks(r)
                         /\ deliveries'[<<r, 1>>] = IF r = s THEN g ELSE deliveries[<<r, 1>>]
                         /\ pending'[<<r, 2>>] = pending[<<r, 2>>]
      /\ f \in [1 .. MaxPublished -> 0 .. MaxDeliveries] /\ f[m] = k
  BY <1>1, <1>2, <1>4 DEF IInv, TypeOK, Callbacks
<1>6. /\ q \in Seq(Message) /\ messages[s] \in Seq(Message) /\ Supplied(s) \in Nat
      /\ Supplied(s) <= Supplied(s)
      /\ Increasing(q) /\ Before(messages[s], q)
      /\ AllOf(messages[s], Supplied(s), f) /\ AllOf(q, Supplied(s), f)
      /\ m \in 1 .. Supplied(s)
  <2>1. q \in Seq(Message) /\ messages[s] \in Seq(Message) /\ Supplied(s) \in Nat
    BY OrderFacts
  <2>2. /\ Increasing(q) /\ Before(messages[s], q)
        /\ AllOf(messages[s], Supplied(s), f) /\ AllOf(q, Supplied(s), f)
        /\ m <= Supplied(s)
    BY <1>3, <1>5 DEF Order, SupplyOrder, Pushed
  <2> QED
    BY <2>1, <2>2
<1>7. g[m] = k + 1 /\ \A i \in 1 .. MaxPublished : i # m => g[i] = f[i]
  BY <1>5
<1> HIDE DEF d, k, q, f, g
<1>8. ASSUME NEW p \in Seq(Message), AllOf(p, Supplied(s), f)
      PROVE  AllOf(p, Supplied(s), g) /\ \A i \in DOMAIN p : Feed!Follows(d, p[i])
  <2>1. \A j \in 1 .. MaxPublished, i \in 1 .. MaxDeliveries :
          j <= Supplied(s) /\ (f[j] = 0 \/ i <= f[j]) => g[j] = 0 \/ i <= g[j]
    BY <1>3, <1>5, <1>7
  <2>2. AllOf(p, Supplied(s), g)
    BY <1>6, <1>8, <2>1, CountsKeepAllOf
  <2>3. ASSUME NEW i \in DOMAIN p
        PROVE  Feed!Follows(d, p[i])
    <3>1. p[i].num \in 1 .. MaxDeliveries
      BY InChannel
    <3>2. p[i].seq = m => p[i].num <= k
      BY <1>3, <1>5, <1>8 DEF AllOf, OneOf
    <3> QED
      BY <1>3, <3>1, <3>2 DEF Feed!Follows
  <2> QED
    BY <2>2, <2>3
<1>9. FirstHandles'
  BY <1>1, <1>5 DEF Order, FirstHandles
<1>10. \A r \in Subs : Supplied(r)' = Supplied(r)
  BY <1>1 DEF Supplied
<1>11. SupplyOrder'
  <2> SUFFICES ASSUME NEW r \in Subs
               PROVE  /\ Increasing(messages[r]) /\ Increasing(Callbacks(r)')
                      /\ Before(messages[r], Callbacks(r)')
                      /\ AllOf(messages[r], Supplied(r), deliveries'[<<r, 1>>])
                      /\ AllOf(Callbacks(r)', Supplied(r), deliveries'[<<r, 1>>])
                      /\ \A i \in 1 .. MaxPublished : deliveries'[<<r, 1>>][i] > 0 => i <= Supplied(r)
    BY <1>1, <1>10 DEF SupplyOrder, Pushed
  <2>1. CASE r = s
    <3>1. /\ AllOf(messages[s], Supplied(s), g) /\ AllOf(q, Supplied(s), g)
          /\ \A i \in DOMAIN q : Feed!Follows(d, q[i])
          /\ \A i \in DOMAIN messages[s] : Feed!Follows(d, messages[s][i])
      BY <1>6, <1>8
    <3>2. OneOf(d, Supplied(s), g)
      BY <1>3, <1>6, <1>7 DEF OneOf
    <3>3. Increasing(Append(q, d)) /\ Before(messages[s], Append(q, d))
      BY <1>3, <1>6, <3>1, SendKeepsOrder, SendKeepsBefore
    <3>4. AllOf(Append(q, d), Supplied(s), g)
      BY <1>3, <1>6, <3>1, <3>2, KeepsAllOf
    <3>5. \A i \in 1 .. MaxPublished : g[i] > 0 => i <= Supplied(s)
      <4>1. \A i \in 1 .. MaxPublished : f[i] > 0 => i <= Supplied(s)
        BY DEF Order, SupplyOrder, f
      <4> QED
        BY <1>6, <1>7, <4>1
    <3>6. Increasing(messages[s])
      BY DEF Order, SupplyOrder
    <3> QED
      BY <1>5, <2>1, <3>1, <3>3, <3>4, <3>5, <3>6
  <2>2. CASE r # s
    BY <1>5, <2>2 DEF Order, SupplyOrder, Pushed
  <2> QED
    BY <2>1, <2>2
<1>12. ClientOrder' /\ Registered'
  BY <1>1 DEF Order, ClientOrder, Registered
<1>13. FeedOrder'
  <2> SUFFICES ASSUME NEW r \in Subs, NEW c \in clients[r], NEW p \in {delivered[c], queue[c]}
               PROVE  /\ AllOf(p, Supplied(r), deliveries'[<<r, 1>>])
                      /\ Before(p, messages[r]) /\ Before(p, Callbacks(r)')
    BY <1>1, <1>10 DEF FeedOrder, Pushed
  <2>1. /\ AllOf(p, Supplied(r), deliveries[<<r, 1>>])
        /\ Before(p, messages[r]) /\ Before(p, Callbacks(r))
    BY DEF Order, FeedOrder, Pushed
  <2>2. p \in Seq(Message)
    BY OrderFacts
  <2>3. CASE r = s
    <3>1. AllOf(p, Supplied(s), f) /\ Before(p, q)
      BY <2>1, <2>3 DEF f, q
    <3>2. AllOf(p, Supplied(s), g) /\ \A i \in DOMAIN p : Feed!Follows(d, p[i])
      BY <1>8, <2>2, <3>1
    <3>3. Before(p, Append(q, d))
      BY <1>3, <1>6, <2>2, <3>1, <3>2, SendKeepsBefore
    <3> QED
      BY <1>5, <2>1, <2>3, <3>2, <3>3
  <2>4. CASE r # s
    BY <1>5, <2>1, <2>4
  <2> QED
    BY <2>3, <2>4
<1> QED
  BY <1>1, <1>9, <1>11, <1>12, <1>13 DEF Order

(* The callback hands on the oldest message that it has.                   *)
LEMMA CallbackKeepsOrder ==
  ASSUME IInv, Order, NEW h \in Handle, Callback(h)
  PROVE  Order' /\ UNCHANGED <<published, delivered>>
<1>1. /\ UNCHANGED <<made, topic, live, published, deliveries, queue, delivered, pc, subscriber, clients>>
      /\ pending[h] # <<>>
      /\ messages' = [messages EXCEPT ![h[1]] = Append(messages[h[1]], Head(pending[h]))]
      /\ pending' = [pending EXCEPT ![h] = Tail(pending[h])]
  BY DEF Callback, PassOn, loopVars, handlerVars
<1>2. PICK s \in Subs : h = <<s, 1>>
  <2>1. PICK s \in Subs, g \in {1, 2} : h = <<s, g>>
    BY DEF Handle
  <2>2. g # 2
    BY <1>1, <2>1 DEF Order, FirstHandles
  <2> QED
    BY <2>1, <2>2
<1> DEFINE q == Callbacks(s)
<1>3. /\ q \in Seq(Message) /\ q # <<>> /\ Head(q) \in Message /\ Tail(q) \in Seq(Message)
      /\ \A r \in Subs : /\ messages'[r] = IF r = s THEN Append(messages[r], Head(q)) ELSE messages[r]
                         /\ Callbacks(r)' = IF r = s THEN Tail(q) ELSE Callbacks(r)
  <2>1. h[1] = s /\ pending[h] = q /\ q \in Seq(Message) /\ q # <<>>
    BY <1>1, <1>2, OrderFacts DEF Callbacks
  <2>2. \A r \in Subs : <<r, 1>> \in Handle /\ (<<r, 1>> = h <=> r = s)
    BY <1>2 DEF Handle
  <2> QED
    BY <1>1, <2>1, <2>2, ReceivedFrom DEF IInv, TypeOK, Callbacks
<1>4. /\ messages[s] \in Seq(Message) /\ Supplied(s) \in Nat
      /\ Increasing(messages[s]) /\ Increasing(q) /\ Before(messages[s], q)
      /\ Pushed(messages[s], s) /\ Pushed(q, s)
  BY OrderFacts DEF Order, SupplyOrder
<1> HIDE DEF q
<1>5. /\ \A i \in DOMAIN messages[s] : Feed!Follows(Head(q), messages[s][i])
      /\ \A i \in DOMAIN Tail(q) : Feed!Follows(Tail(q)[i], Head(q))
      /\ Increasing(Tail(q)) /\ Before(messages[s], Tail(q))
  BY <1>3, <1>4, ReceiveKeepsOrder, ReceiveKeepsBefore
<1>6. Pushed(Append(messages[s], Head(q)), s) /\ Pushed(Tail(q), s)
  BY <1>3, <1>4, KeepsAllOf DEF Pushed
<1>7. FirstHandles'
  <2>1. \A r \in Subs : <<r, 2>> \in Handle /\ <<r, 2>> # h
    BY <1>2 DEF Handle
  <2>2. \A r \in Subs : pending'[<<r, 2>>] = pending[<<r, 2>>]
    BY <1>1, <2>1 DEF IInv, TypeOK
  <2> QED
    BY <1>1, <2>2 DEF Order, FirstHandles
<1>8. SupplyOrder'
  <2> SUFFICES ASSUME NEW r \in Subs
               PROVE  /\ Increasing(messages'[r]) /\ Increasing(Callbacks(r)')
                      /\ Before(messages'[r], Callbacks(r)')
                      /\ AllOf(messages'[r], Supplied(r), deliveries[<<r, 1>>])
                      /\ AllOf(Callbacks(r)', Supplied(r), deliveries[<<r, 1>>])
    BY <1>1 DEF Order, SupplyOrder, Pushed, Supplied
  <2>1. CASE r = s
    <3>1. Increasing(Append(messages[s], Head(q)))
      BY <1>3, <1>4, <1>5, SendKeepsOrder
    <3>2. Before(Append(messages[s], Head(q)), Tail(q))
      BY <1>3, <1>4, <1>5, SendKeepsBefore
    <3> QED
      BY <1>3, <1>5, <1>6, <2>1, <3>1, <3>2 DEF Pushed
  <2>2. CASE r # s
    BY <1>3, <2>2 DEF Order, SupplyOrder, Pushed
  <2> QED
    BY <2>1, <2>2
<1>9. ClientOrder' /\ Registered'
  BY <1>1 DEF Order, ClientOrder, Registered
<1>10. FeedOrder'
  <2> SUFFICES ASSUME NEW r \in Subs, NEW c \in clients[r], NEW p \in {delivered[c], queue[c]}
               PROVE  Before(p, messages'[r]) /\ Before(p, Callbacks(r)')
    <3>1. FeedOrder' <=>
            \A r \in Subs : \A c \in clients[r] : \A p \in {delivered[c], queue[c]} :
              Pushed(p, r) /\ Before(p, messages'[r]) /\ Before(p, Callbacks(r)')
      BY <1>1 DEF FeedOrder, Pushed, Supplied
    <3> QED
      BY <3>1 DEF Order, FeedOrder
  <2>1. /\ Before(p, messages[r]) /\ Before(p, Callbacks(r))
    BY DEF Order, FeedOrder
  <2>2. p \in Seq(Message)
    BY OrderFacts
  <2>3. CASE r = s
    <3>1. Before(p, q)
      BY <2>1, <2>3 DEF q
    <3>2. Before(p, Tail(q)) /\ \A i \in DOMAIN p : Feed!Follows(Head(q), p[i])
      BY <1>3, <2>2, <3>1, ReceiveKeepsBefore
    <3> QED
      BY <1>3, <1>4, <2>1, <2>2, <2>3, <3>2, SendKeepsBefore
  <2>4. CASE r # s
    BY <1>3, <2>1, <2>4
  <2> QED
    BY <2>3, <2>4
<1> QED
  BY <1>1, <1>7, <1>8, <1>9, <1>10 DEF Order

(* The loop sends the oldest message to the clients on its list.           *)
LEMMA FanoutKeepsOrder ==
  ASSUME IInv, Order, NEW s \in Subs, LoopFanout(s)
  PROVE  Order' /\ UNCHANGED <<published, delivered>>
<1> DEFINE q == messages[s]
           m == Head(messages[s])
<1>1. /\ UNCHANGED <<made, topic, live, pending, published, deliveries, delivered, pc, subscriber, clients>>
      /\ q # <<>>
      /\ messages' = [messages EXCEPT ![s] = Tail(messages[s])]
      /\ \A c \in Clients : \/ queue'[c] = queue[c]
                            \/ c \in clients[s] /\ queue'[c] = Append(queue[c], m)
  BY DEF LoopFanout, Sendable, Take, loopVars, natsVars, handlerVars
<1>2. /\ q \in Seq(Message) /\ Callbacks(s) \in Seq(Message) /\ Supplied(s) \in Nat
      /\ Increasing(q) /\ Before(q, Callbacks(s)) /\ Pushed(q, s)
  BY OrderFacts DEF Order, SupplyOrder
<1>3. \A r \in Subs : messages'[r] = IF r = s THEN Tail(q) ELSE messages[r]
  BY <1>1 DEF IInv, TypeOK
<1>4. /\ m \in Message /\ Tail(q) \in Seq(Message)
      /\ Increasing(Tail(q)) /\ \A i \in DOMAIN Tail(q) : Feed!Follows(Tail(q)[i], m)
      /\ Before(Tail(q), Callbacks(s)) /\ \A i \in DOMAIN Callbacks(s) : Feed!Follows(Callbacks(s)[i], m)
  BY <1>1, <1>2, ReceivedFrom, ReceiveKeepsOrder, ReceiveKeepsBefore
<1>5. Pushed(Tail(q), s) /\ OneOf(m, Supplied(s), deliveries[<<s, 1>>])
  BY <1>1, <1>2, KeepsAllOf DEF Pushed
<1>6. ASSUME NEW c \in clients[s], NEW p \in {delivered[c], queue[c]}
      PROVE  /\ p \in Seq(Message) /\ \A i \in DOMAIN p : Feed!Follows(m, p[i])
             /\ Before(p, Tail(q)) /\ Before(p, Callbacks(s))
  <2>1. p \in Seq(Message) /\ Before(p, q) /\ Before(p, Callbacks(s))
    BY OrderFacts DEF Order, FeedOrder
  <2> QED
    BY <1>1, <1>2, <2>1, ReceiveKeepsBefore
<1> HIDE DEF q, m
<1>7. FirstHandles' /\ Registered'
  BY <1>1 DEF Order, FirstHandles, Registered
<1>8. SupplyOrder'
  <2> SUFFICES ASSUME NEW r \in Subs
               PROVE  /\ Increasing(messages'[r]) /\ Before(messages'[r], Callbacks(r))
                      /\ AllOf(messages'[r], Supplied(r), deliveries[<<r, 1>>])
    BY <1>1 DEF Order, SupplyOrder, Pushed, Supplied, Callbacks
  <2> QED
    BY <1>3, <1>4, <1>5 DEF Order, SupplyOrder, Pushed
<1>9. ClientOrder'
  <2> SUFFICES ASSUME NEW c \in Clients
               PROVE  /\ Increasing(queue'[c]) /\ Before(delivered[c], queue'[c])
                      /\ Within(queue'[c], published[TopicOf[c]])
                      /\ pc[c] \in Young => queue'[c] = <<>>
    BY <1>1 DEF Order, ClientOrder, Young
  <2>1. /\ queue[c] \in Seq(Message) /\ delivered[c] \in Seq(Message) /\ published[TopicOf[c]] \in Nat
        /\ Increasing(queue[c]) /\ Before(delivered[c], queue[c])
        /\ Within(queue[c], published[TopicOf[c]])
        /\ pc[c] \in Young => queue[c] = <<>>
    BY OrderFacts DEF Order, ClientOrder, Young
  <2>2. CASE queue'[c] = queue[c]
    BY <2>1, <2>2
  <2>3. CASE c \in clients[s] /\ queue'[c] = Append(queue[c], m)
    <3>1. pc[c] \notin Young /\ m.seq \in 1 .. published[TopicOf[c]]
      BY <1>5, <2>3, OrderFacts DEF OneOf
    <3>2. Increasing(Append(queue[c], m))
      BY <1>4, <1>6, <2>1, <2>3, SendKeepsOrder
    <3>3. Before(delivered[c], Append(queue[c], m))
      BY <1>4, <1>6, <2>1, <2>3, SendKeepsBefore
    <3>4. Within(Append(queue[c], m), published[TopicOf[c]])
      BY <1>4, <2>1, <3>1, KeepsWithin
    <3> QED
      BY <2>3, <3>1, <3>2, <3>3, <3>4
  <2> QED
    BY <1>1, <2>2, <2>3
<1>10. FeedOrder'
  <2> SUFFICES ASSUME NEW r \in Subs, NEW c \in clients[r], NEW p \in {delivered[c], queue'[c]}
               PROVE  /\ AllOf(p, Supplied(r), deliveries[<<r, 1>>])
                      /\ Before(p, messages'[r]) /\ Before(p, Callbacks(r))
    BY <1>1 DEF FeedOrder, Pushed, Supplied, Callbacks
  <2>0. c \in Clients /\ queue[c] \in Seq(Message) /\ (c \in clients[s] => r = s)
    BY OrderFacts
  <2>1. CASE r # s
    BY <1>1, <1>3, <2>0, <2>1 DEF Order, FeedOrder, Pushed
  <2>2. CASE r = s /\ p \in {delivered[c], queue[c]}
    BY <1>3, <1>6, <2>2 DEF Order, FeedOrder, Pushed
  <2>3. CASE r = s /\ p = Append(queue[c], m)
    <3>1. Before(Append(queue[c], m), Tail(q))
      BY <1>4, <1>6, <2>0, <2>3, SendKeepsBefore
    <3>2. Before(Append(queue[c], m), Callbacks(s))
      BY <1>2, <1>4, <1>6, <2>0, <2>3, SendKeepsBefore
    <3>3. AllOf(queue[c], Supplied(s), deliveries[<<s, 1>>])
      BY <2>3 DEF Order, FeedOrder, Pushed
    <3>4. AllOf(Append(queue[c], m), Supplied(s), deliveries[<<s, 1>>])
      BY <1>4, <1>5, <2>0, <3>3, KeepsAllOf
    <3> QED
      BY <1>3, <2>3, <3>1, <3>2, <3>4
  <2> QED
    BY <1>1, <2>0, <2>1, <2>2, <2>3
<1> QED
  BY <1>1, <1>7, <1>8, <1>9, <1>10 DEF Order

(* A handler writes the oldest message of its queue: Deliver.              *)
LEMMA WriteKeepsOrder ==
  ASSUME IInv, Order, NEW c \in Clients, WriteMessage(c)
  PROVE  /\ Order' /\ UNCHANGED published
         /\ \E d \in Message : d.seq \in 1 .. published[TopicOf[c]] /\ Feed!Deliver(c, d)
<1> DEFINE q == queue[c]
           m == Head(queue[c])
<1>1. /\ UNCHANGED <<made, topic, live, pending, published, deliveries, messages, subscriber, clients>>
      /\ q # <<>>
      /\ queue' = [queue EXCEPT ![c] = Tail(queue[c])]
      /\ delivered' = [delivered EXCEPT ![c] = Append(delivered[c], m)]
      /\ \A d \in Clients : pc'[d] = pc[d] \/ (d = c /\ pc[d] \notin Young /\ pc'[d] \notin Young)
  BY DEF WriteMessage, Goto, loopVars, natsVars, IInv, TypeOK, Young
<1>2. /\ q \in Seq(Message) /\ delivered[c] \in Seq(Message) /\ published[TopicOf[c]] \in Nat
      /\ Increasing(q) /\ Before(delivered[c], q)
      /\ Within(q, published[TopicOf[c]]) /\ Within(delivered[c], published[TopicOf[c]])
  BY OrderFacts DEF Order, ClientOrder
<1>3. \A d \in Clients : /\ queue'[d] = IF d = c THEN Tail(q) ELSE queue[d]
                         /\ delivered'[d] = IF d = c THEN Append(delivered[c], m) ELSE delivered[d]
  BY <1>1 DEF IInv, TypeOK
<1>4. /\ m \in Message /\ Tail(q) \in Seq(Message)
      /\ Increasing(Tail(q)) /\ \A i \in DOMAIN Tail(q) : Feed!Follows(Tail(q)[i], m)
      /\ Before(delivered[c], Tail(q)) /\ \A i \in DOMAIN delivered[c] : Feed!Follows(m, delivered[c][i])
      /\ Within(Tail(q), published[TopicOf[c]]) /\ m.seq \in 1 .. published[TopicOf[c]]
  BY <1>1, <1>2, ReceivedFrom, ReceiveKeepsOrder, ReceiveKeepsBefore, KeepsWithin
<1>5. /\ Before(Append(delivered[c], m), Tail(q))
      /\ Within(Append(delivered[c], m), published[TopicOf[c]])
  BY <1>2, <1>4, SendKeepsBefore, KeepsWithin
<1>6. queue[c] # <<>> => pc[c] \notin Young
  BY DEF Order, ClientOrder, Young
<1>7. Feed!Deliver(c, m)
  BY <1>1, <1>4 DEF Feed!Deliver
<1>8. FirstHandles' /\ SupplyOrder'
  BY <1>1 DEF Order, FirstHandles, SupplyOrder, Pushed, Supplied, Callbacks
<1>9. ClientOrder'
  <2> SUFFICES ASSUME NEW d \in Clients
               PROVE  /\ Increasing(queue'[d]) /\ Before(delivered'[d], queue'[d])
                      /\ Within(queue'[d], published[TopicOf[d]])
                      /\ Within(delivered'[d], published[TopicOf[d]])
                      /\ pc'[d] \in Young => queue'[d] = <<>> /\ delivered'[d] = <<>>
    BY <1>1 DEF ClientOrder, Young
  <2>1. CASE d = c
    BY <1>1, <1>3, <1>4, <1>5, <1>6, <2>1
  <2>2. CASE d # c
    BY <1>1, <1>3, <2>2 DEF Order, ClientOrder, Young
  <2> QED
    BY <2>1, <2>2
<1>10. Registered'
  BY <1>1, OrderFacts DEF Order, Registered, Young
<1>11. FeedOrder'
  <2> SUFFICES ASSUME NEW s \in Subs, NEW d \in clients[s],
                      NEW r \in {messages[s], Callbacks(s)}
               PROVE  /\ Before(delivered'[d], r) /\ Before(queue'[d], r)
                      /\ AllOf(delivered'[d], Supplied(s), deliveries[<<s, 1>>])
                      /\ AllOf(queue'[d], Supplied(s), deliveries[<<s, 1>>])
    <3>1. FeedOrder' <=>
            \A s \in Subs : \A d \in clients[s] : \A r \in {messages[s], Callbacks(s)} :
              /\ Before(delivered'[d], r) /\ Before(queue'[d], r)
              /\ AllOf(delivered'[d], Supplied(s), deliveries[<<s, 1>>])
              /\ AllOf(queue'[d], Supplied(s), deliveries[<<s, 1>>])
      BY <1>1 DEF FeedOrder, Pushed, Supplied, Callbacks
    <3> QED
      BY <3>1
  <2>1. /\ d \in Clients /\ r \in Seq(Message)
        /\ Before(delivered[d], r) /\ Before(queue[d], r)
        /\ AllOf(delivered[d], Supplied(s), deliveries[<<s, 1>>])
        /\ AllOf(queue[d], Supplied(s), deliveries[<<s, 1>>])
    <3>1. d \in Clients /\ r \in Seq(Message)
      BY OrderFacts
    <3>2. /\ Before(delivered[d], r) /\ Before(queue[d], r)
          /\ AllOf(delivered[d], Supplied(s), deliveries[<<s, 1>>])
          /\ AllOf(queue[d], Supplied(s), deliveries[<<s, 1>>])
      BY DEF Order, FeedOrder, Pushed
    <3> QED
      BY <3>1, <3>2
  <2>2. CASE d = c
    <3>0. /\ Before(q, r) /\ Before(delivered[c], r)
          /\ AllOf(q, Supplied(s), deliveries[<<s, 1>>])
          /\ AllOf(delivered[c], Supplied(s), deliveries[<<s, 1>>])
      BY <2>1, <2>2
    <3>1. Before(Tail(q), r) /\ \A j \in DOMAIN r : Feed!Follows(r[j], m)
      BY <1>1, <1>2, <2>1, <3>0, ReceiveKeepsBefore
    <3>2. /\ AllOf(Tail(q), Supplied(s), deliveries[<<s, 1>>])
          /\ OneOf(m, Supplied(s), deliveries[<<s, 1>>])
      BY <1>1, <1>2, <3>0, KeepsAllOf
    <3> HIDE DEF q, m
    <3>3. Before(Append(delivered[c], m), r)
      BY <1>2, <1>4, <2>1, <3>0, <3>1, SendKeepsBefore
    <3>4. AllOf(Append(delivered[c], m), Supplied(s), deliveries[<<s, 1>>])
      BY <1>2, <1>4, <3>0, <3>2, KeepsAllOf
    <3> QED
      BY <1>3, <2>1, <2>2, <3>1, <3>2, <3>3, <3>4
  <2>3. CASE d # c
    BY <1>3, <2>1, <2>3
  <2> QED
    BY <2>2, <2>3
<1> QED
  BY <1>1, <1>4, <1>7, <1>8, <1>9, <1>10, <1>11 DEF Order

-----------------------------------------------------------------------------
(* The invariant and the refinement                                        *)

LEMMA InitOrder == Init => Order
<1> SUFFICES ASSUME Init PROVE Order
  OBVIOUS
<1>1. \A s \in Subs : <<s, 1>> \in Handle /\ <<s, 2>> \in Handle
  BY DEF Handle
<1>2. /\ \A s \in Subs : messages[s] = <<>> /\ Callbacks(s) = <<>> /\ pending[<<s, 2>>] = <<>>
      /\ \A c \in Clients : queue[c] = <<>> /\ delivered[c] = <<>>
  BY <1>1 DEF Init, Callbacks
<1>3. FirstHandles /\ Registered
  <2>1. live = {} /\ \A c \in Clients : pc[c] = "idle"
    BY DEF Init
  <2>2. \A s \in Subs : clients[s] = {}
    BY DEF Init
  <2> QED
    BY <1>2, <2>1, <2>2 DEF FirstHandles, Registered
<1>4. SupplyOrder /\ ClientOrder
  <2>1. /\ Increasing(<<>>) /\ Before(<<>>, <<>>)
        /\ \A n, f : Within(<<>>, n) /\ AllOf(<<>>, n, f)
    BY DEF Increasing, Before, Within, AllOf
  <2>2. \A s \in Subs, m \in 1 .. MaxPublished : deliveries[<<s, 1>>][m] = 0
    BY <1>1 DEF Init
  <2>3. SupplyOrder
    <3> SUFFICES ASSUME NEW s \in Subs
                 PROVE  \A m \in 1 .. MaxPublished : deliveries[<<s, 1>>][m] > 0 => m <= Supplied(s)
      BY <1>2, <2>1 DEF SupplyOrder, Pushed
    <3> QED
      BY <2>2
  <2>4. ClientOrder
    BY <1>2, <2>1 DEF ClientOrder
  <2> QED
    BY <2>3, <2>4
<1>5. FeedOrder
  BY DEF Init, FeedOrder
<1> QED
  BY <1>3, <1>4, <1>5 DEF Order

(* Every step keeps the order and is a step of TopicFeed or none: only     *)
(* Publish and WriteMessage change what TopicFeed sees.                    *)
LEMMA NextOrder ==
  ASSUME IInv, Order, ReadyFirst, [Next]_vars
  PROVE  Order' /\ [Feed!Next]_<<published, delivered>>
<1>1. TypeOK'
  BY NextTyped DEF IInv
<1>2. CASE \E t \in Topics : Publish(t)
  <2>1. PICK t \in Topics : Publish(t)
    BY <1>2
  <2>2. Order' /\ UNCHANGED delivered
    BY <2>1, PublishKeepsOrder
  <2>3. Feed!Publish(t)
    <3>1. /\ published[t] \in Nat /\ MaxPublished \in Nat
          /\ published[t] + 1 <= MaxPublished
          /\ published' = [published EXCEPT ![t] = published[t] + 1]
      BY <2>1, BoundsAssumption DEF Publish, IInv, TypeOK
    <3>2. published[t] < MaxPublished
      BY <3>1
    <3> QED
      BY <2>2, <3>1, <3>2 DEF Feed!Publish
  <2> QED
    BY <2>2, <2>3 DEF Feed!Next
<1>3. CASE \E c \in Clients : WriteMessage(c)
  <2>1. PICK c \in Clients : WriteMessage(c)
    BY <1>3
  <2>2. PICK d \in Message : d.seq \in 1 .. published[TopicOf[c]] /\ Feed!Deliver(c, d)
    BY <2>1, WriteKeepsOrder
  <2>3. d = [seq |-> d.seq, num |-> d.num] /\ d.num \in 1 .. MaxDeliveries
    BY DEF Message
  <2>4. Feed!Deliver(c, [seq |-> d.seq, num |-> d.num])
    BY <2>2, <2>3
  <2>5. Feed!Next
    BY <2>2, <2>3, <2>4 DEF Feed!Next
  <2> QED
    BY <2>1, <2>5, WriteKeepsOrder
<1>4. CASE \E s \in Subs : LoopFanout(s) \/ \E c \in Clients : LoopAdd(s, c)
  <2>1. ASSUME NEW s \in Subs, NEW c \in Clients, LoopAdd(s, c)
        PROVE  UNCHANGED <<published, delivered>>
    BY <2>1 DEF LoopAdd, natsVars
  <2> QED
    BY <1>4, <2>1, FanoutKeepsOrder, AddKeepsOrder
<1>5. CASE \E c \in Clients : GetSubscriberNew(c)
  <2>1. ASSUME NEW c \in Clients, GetSubscriberNew(c)
        PROVE  UNCHANGED <<published, delivered>>
    BY <2>1 DEF GetSubscriberNew
  <2> QED
    BY <1>5, <2>1, NewKeepsOrder
<1>6. CASE \E h \in Handle : Callback(h) \/ \E m \in 1 .. MaxPublished : Redeliver(h, m)
  BY <1>6, CallbackKeepsOrder, RedeliverKeepsOrder
<1> QED
  BY <1>1, <1>2, <1>3, <1>4, <1>5, <1>6, QuietSteps

(* After start-up the deliveries of JetStream pass the callback, messages  *)
(* and the clients' queues in the order in which they were pushed, and     *)
(* none is on its way twice to one client (Callback, LoopFanout,           *)
(* WriteMessage): a repeated message is a repeated delivery.               *)
THEOREM InOrderHolds == Spec => []InOrder
<1>1. CASE ReadyFirst
  <2>1. IInv /\ Order /\ [Next]_vars => Order'
    BY <1>1, NextOrder
  <2>2. Order => InOrder
    BY DEF Order, InOrder
  <2> QED
    BY <2>1, <2>2, InitOrder, Invariant, PTL DEF Spec
<1>2. CASE ~ReadyFirst
  <2>1. InOrder
    BY <1>2 DEF InOrder
  <2> QED
    BY <2>1, PTL
<1> QED
  BY <1>1, <1>2

(* The service implements TopicFeed once requests come after start-up: of  *)
(* the deliveries JetStream counts, first ones and repeated ones, a client *)
(* sees each at most once, first ones in the order of publication and a    *)
(* repeat after the earlier deliveries of its message, however full queues *)
(* are and however subscribers come and go.  Without ReadyFirst a          *)
(* subscriber may subscribe twice.                                         *)
THEOREM ImplementsTopicFeed == ReadyFirst => (Spec => FeedSpec)
<1> SUFFICES ASSUME ReadyFirst
             PROVE  Spec => FeedSpec
  OBVIOUS
<1>1. Init => Feed!Init
  BY DEF Init, Feed!Init
<1>2. IInv /\ Order /\ [Next]_vars => Order' /\ [Feed!Next]_<<published, delivered>>
  BY NextOrder
<1> QED
  BY <1>1, <1>2, InitOrder, Invariant, PTL DEF Spec, FeedSpec, Feed!Spec
=============================================================================
