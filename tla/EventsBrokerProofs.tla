------------------------- MODULE EventsBrokerProofs -------------------------
(* Proofs about EventsBroker, for every value of its constants.            *)
EXTENDS EventsBroker, TLAPS

(* Closing handles leaves the queues and counts of the callbacks typed.    *)
LEMMA DiscardTyped ==
  ASSUME NEW hs, pending \in [Handle -> Seq(Message)], Discard(hs),
         deliveries \in [Handle -> [1 .. MaxPublished -> 0 .. MaxDeliveries]]
  PROVE  /\ pending' \in [Handle -> Seq(Message)]
         /\ deliveries' \in [Handle -> [1 .. MaxPublished -> 0 .. MaxDeliveries]]
<1>1. PICK entered \in SUBSET hs :
        pending' = [h \in Handle |->
          IF h \notin hs THEN pending[h]
          ELSE IF h \in entered /\ pending[h] # <<>> THEN <<Head(pending[h])>>
          ELSE <<>>]
  BY DEF Discard
<1>2. ASSUME NEW h \in Handle, pending[h] # <<>>
      PROVE  <<Head(pending[h])>> \in Seq(Message)
  <2>1. pending[h] \in Seq(Message)
    OBVIOUS
  <2>2. Head(pending[h]) \in Message
    BY <1>2, <2>1
  <2> QED BY <2>2
<1>3. pending' \in [Handle -> Seq(Message)]
  BY <1>1, <1>2
<1>4. deliveries' \in [Handle -> [1 .. MaxPublished -> 0 .. MaxDeliveries]]
  BY BoundsAssumption DEF Discard
<1> QED BY <1>3, <1>4

(* The constants and the initial values are of the types TypeOK gives.     *)
LEMMA InitTyped == Init => TypeOK
<1> SUFFICES ASSUME Init
             PROVE  TypeOK
  OBVIOUS
<1> USE ClientsAssumption, BoundsAssumption DEF Init
<1>1. <<>> \in Seq(Message) /\ Len(<<>>) = 0
  OBVIOUS
<1>2. /\ messages \in [Subs -> Seq(Message)] /\ \A s \in Subs : Len(messages[s]) <= MessagesCap
      /\ queue \in [Clients -> Seq(Message)] /\ \A c \in Clients : Len(queue[c]) <= QueueLen
  BY <1>1
<1>3. /\ pending \in [Handle -> Seq(Message)]
      /\ delivered \in [Clients -> Seq(Message)]
  BY <1>1
<1>4. /\ made \in 0 .. MaxSubs
      /\ gen \in [Subs -> 0 .. 2]
      /\ published \in [Topics -> 0 .. MaxPublished]
  OBVIOUS
<1>5. deliveries \in [Handle -> [1 .. MaxPublished -> 0 .. MaxDeliveries]]
  OBVIOUS
<1> QED
  BY <1>2, <1>3, <1>4, <1>5 DEF TypeOK, LoopStates, HandlerStates

(* Every action keeps the types: in particular no queue exceeds its        *)
(* capacity (HasRoom, the guard of Callback).                              *)
LEMMA NextTyped == TypeOK /\ [Next]_vars => TypeOK'
<1> SUFFICES ASSUME TypeOK, [Next]_vars
             PROVE  TypeOK'
  OBVIOUS
<1> USE ClientsAssumption, BoundsAssumption
    DEF TypeOK, LoopStates, HandlerStates, connVars, loopVars, natsVars, handlerVars
<1>1. CASE ConnectDial
  BY <1>1 DEF ConnectDial
<1>2. CASE ConnectNotify
  BY <1>2 DEF ConnectNotify
<1>3. CASE ConnectionClosed
  BY <1>3, DiscardTyped DEF ConnectionClosed
<1>4. ASSUME NEW t \in Topics, Publish(t)
      PROVE  TypeOK'
  <2> DEFINE m == published[t] + 1
             d == [seq |-> m, num |-> 1]
  <2>1. m \in 1 .. MaxPublished /\ d \in Message
    BY <1>4 DEF Publish, Message
  <2> HIDE DEF m
  <2>2. /\ published' = [published EXCEPT ![t] = m]
        /\ pending' = [h \in Handle |-> IF h \in live /\ topic[h[1]] = t
                                       THEN Append(pending[h], d) ELSE pending[h]]
        /\ deliveries' = [h \in Handle |-> IF h \in live /\ topic[h[1]] = t
                                          THEN [deliveries[h] EXCEPT ![m] = 1] ELSE deliveries[h]]
    BY <1>4 DEF Publish, m
  <2>3. published' \in [Topics -> 0 .. MaxPublished]
    BY <2>1, <2>2
  <2> HIDE DEF d
  <2>4. pending' \in [Handle -> Seq(Message)]
    BY <2>1, <2>2
  <2>5. \A h \in Handle : [deliveries[h] EXCEPT ![m] = 1] \in [1 .. MaxPublished -> 0 .. MaxDeliveries]
    BY <2>1
  <2>6. deliveries' \in [Handle -> [1 .. MaxPublished -> 0 .. MaxDeliveries]]
    BY <2>2, <2>5
  <2> QED
    BY <1>4, <2>3, <2>4, <2>6 DEF Publish
<1>5. ASSUME NEW h \in Handle, Callback(h)
      PROVE  TypeOK'
  BY <1>5 DEF Callback, PassOn, Handle
<1>6. ASSUME NEW s \in Subs, NEW c \in Clients, LoopAdd(s, c)
      PROVE  TypeOK'
  BY <1>6 DEF LoopAdd, Goto
<1>7. ASSUME NEW s \in Subs, NEW c \in Clients, LoopRemove(s, c)
      PROVE  TypeOK'
  BY <1>7 DEF LoopRemove, Goto
<1>8. ASSUME NEW s \in Subs, LoopTeardown(s)
      PROVE  TypeOK'
  BY <1>8, DiscardTyped DEF LoopTeardown, DeleteSubscriber
<1>9. ASSUME NEW s \in Subs, LoopFanout(s)
      PROVE  TypeOK'
  BY <1>9 DEF LoopFanout, Sendable, Take, HasRoom
<1>10. ASSUME NEW s \in Subs, LoopReestablish(s)
      PROVE  TypeOK'
  <2>1. <<s, 2>> \in Handle
    BY DEF Handle
  <2>2. live' \subseteq Handle
    BY <1>10, <2>1 DEF LoopReestablish
  <2>3. gen' \in [Subs -> 0 .. 2]
    <3>1. gen' = [gen EXCEPT ![s] = 2] \/ gen' = gen
      BY <1>10 DEF LoopReestablish
    <3>2. gen \in [Subs -> 0 .. 2] /\ 2 \in 0 .. 2
      OBVIOUS
    <3> HIDE DEF TypeOK
    <3> QED
      BY <3>1, <3>2
  <2>4. loop' \in [Subs -> LoopStates] /\ connEstablished' \in [Subs -> BOOLEAN]
    BY <1>10 DEF LoopReestablish
  <2> QED
    BY <1>10, <2>2, <2>3, <2>4 DEF LoopReestablish
<1>11. ASSUME NEW s \in Subs, LoopGiveUp(s)
      PROVE  TypeOK'
  BY <1>11, DiscardTyped DEF LoopGiveUp, DeleteSubscriber
<1>12. ASSUME NEW c \in Clients, GetSubscriberFound(c)
      PROVE  TypeOK'
  BY <1>12 DEF GetSubscriberFound, Found
<1>13. ASSUME NEW c \in Clients, GetSubscriberNew(c)
      PROVE  TypeOK'
  <2> DEFINE s == made + 1
  <2>1. s \in Subs /\ made' \in 0 .. MaxSubs /\ <<s, 1>> \in Handle
    BY <1>13 DEF GetSubscriberNew, Subs, Handle
  <2>2. TopicOf[c] \in Topics
    OBVIOUS
  <2> HIDE DEF s
  <2>3. /\ topic' = [topic EXCEPT ![s] = TopicOf[c]]
        /\ loop' = [loop EXCEPT ![s] = "run"]
        /\ gen' = [gen EXCEPT ![s] = 1]
        /\ live' = live \cup {<<s, 1>>}
        /\ subscribers' = [subscribers EXCEPT ![TopicOf[c]] = s]
        /\ pc' = [pc EXCEPT ![c] = "register"]
        /\ subscriber' = [subscriber EXCEPT ![c] = s]
    BY <1>13 DEF GetSubscriberNew, s
  <2>4. /\ topic' \in [Subs -> Topics \cup {None}]
        /\ loop' \in [Subs -> LoopStates]
        /\ subscribers' \in [Topics -> Subs \cup {None}]
    BY <2>1, <2>2, <2>3
  <2>5. gen' \in [Subs -> 0 .. 2]
    BY <2>1, <2>3
  <2>6. live' \subseteq Handle
    BY <2>1, <2>3
  <2>7. /\ pc' \in [Clients -> HandlerStates]
        /\ subscriber' \in [Clients -> Subs \cup {None}]
    BY <2>1, <2>3
  <2> QED
    BY <1>13, <2>1, <2>4, <2>5, <2>6, <2>7 DEF GetSubscriberNew
<1>14. ASSUME NEW c \in Clients, GetSubscriberFails(c)
      PROVE  TypeOK'
  BY <1>14 DEF GetSubscriberFails
<1>15. ASSUME NEW c \in Clients, Disconnect(c)
      PROVE  TypeOK'
  BY <1>15 DEF Disconnect
<1>16. ASSUME NEW c \in Clients, StreamPoll(c)
      PROVE  TypeOK'
  BY <1>16 DEF StreamPoll, Goto
<1>17. ASSUME NEW c \in Clients, ClientGone(c)
      PROVE  TypeOK'
  BY <1>17 DEF ClientGone
<1>18. ASSUME NEW c \in Clients, WriteMessage(c)
      PROVE  TypeOK'
  <2>1. queue[c] \in Seq(Message) /\ queue[c] # <<>>
    BY <1>18 DEF WriteMessage
  <2>2. /\ Tail(queue[c]) \in Seq(Message) /\ Len(Tail(queue[c])) <= QueueLen
        /\ Head(queue[c]) \in Message
    BY <2>1
  <2>3. /\ queue' \in [Clients -> Seq(Message)]
        /\ \A d \in Clients : Len(queue'[d]) <= QueueLen
        /\ delivered' \in [Clients -> Seq(Message)]
    BY <1>18, <2>2 DEF WriteMessage
  <2>4. pc' \in [Clients -> HandlerStates]
    BY <1>18 DEF WriteMessage, Goto
  <2> QED
    BY <1>18, <2>3, <2>4 DEF WriteMessage
<1>19. ASSUME NEW c \in Clients, SubscriberError(c)
      PROVE  TypeOK'
  BY <1>19 DEF SubscriberError
<1>20. ASSUME NEW c \in Clients, Upgrade(c)
      PROVE  TypeOK'
  <2>1. pc' \in [Clients -> HandlerStates]
    BY <1>20 DEF Upgrade, Goto
  <2> QED
    BY <1>20, <2>1 DEF Upgrade
<1>21. CASE UNCHANGED vars
  BY <1>21 DEF vars
<1>22. ASSUME NEW h \in Handle, NEW m \in 1 .. MaxPublished, Redeliver(h, m)
       PROVE  TypeOK'
  <2> DEFINE d == [seq |-> m, num |-> deliveries[h][m] + 1]
  <2>1. deliveries[h][m] + 1 \in 1 .. MaxDeliveries /\ d \in Message
    BY <1>22 DEF Redeliver, Message
  <2>2. /\ pending' = [pending EXCEPT ![h] = Append(pending[h], d)]
        /\ deliveries' = [deliveries EXCEPT ![h] = [deliveries[h] EXCEPT ![m] = deliveries[h][m] + 1]]
    BY <1>22 DEF Redeliver
  <2> HIDE DEF d
  <2>3. pending' \in [Handle -> Seq(Message)]
    BY <2>1, <2>2
  <2>4. deliveries' \in [Handle -> [1 .. MaxPublished -> 0 .. MaxDeliveries]]
    BY <2>1, <2>2
  <2> QED
    BY <1>22, <2>3, <2>4 DEF Redeliver
<1> QED
  BY <1>1, <1>2, <1>3, <1>4, <1>5, <1>6, <1>7, <1>8, <1>9, <1>10, <1>11,
     <1>12, <1>13, <1>14, <1>15, <1>16, <1>17, <1>18, <1>19, <1>20, <1>21, <1>22
  DEF Next, Connection, Loop, Handler, GetSubscriber

(* The types hold in every reachable state, and with them the capacities   *)
(* of messages and of the clients' queues, whatever the constants are.     *)
THEOREM TypeCorrect == Spec => []TypeOK
  BY InitTyped, NextTyped, PTL DEF Spec

-----------------------------------------------------------------------------
(* The registry: the map conn.subscribers, the loops and their handles.    *)

registryVars == <<natsClosed, subscribers, made, topic, loop, gen, live>>

Registry == Numbering /\ OneLoopPerTopic /\ RunningIsFound /\ MapMatchesTopic

(* The steps that touch the registry; every other step leaves it alone.    *)
LEMMA RegistrySteps ==
  ASSUME [Next]_vars
  PROVE  \/ UNCHANGED registryVars
         \/ ConnectionClosed
         \/ \E c \in Clients : GetSubscriberNew(c) \/ GetSubscriberFails(c)
         \/ \E s \in Subs : \/ LoopTeardown(s) \/ LoopReestablish(s) \/ LoopGiveUp(s)
                            \/ \E c \in Clients : LoopRemove(s, c)
<1> USE DEF registryVars, connVars, loopVars, natsVars, handlerVars
<1>1. CASE Connection
  BY <1>1 DEF Connection, ConnectDial, ConnectNotify
<1>2. CASE \E t \in Topics : Publish(t)
  BY <1>2 DEF Publish
<1>3. CASE \E h \in Handle : Callback(h) \/ \E m \in 1 .. MaxPublished : Redeliver(h, m)
  BY <1>3 DEF Callback, Redeliver
<1>4. CASE \E s \in Subs : Loop(s)
  BY <1>4 DEF Loop, LoopAdd, LoopFanout
<1>5. CASE \E c \in Clients : GetSubscriber(c)
  BY <1>5 DEF GetSubscriber, GetSubscriberFound
<1>6. CASE \E c \in Clients : Disconnect(c)
  BY <1>6 DEF Disconnect
<1>7. CASE \E c \in Clients : Handler(c)
  BY <1>7 DEF Handler, StreamPoll, ClientGone, WriteMessage, SubscriberError, Upgrade
<1>8. CASE UNCHANGED vars
  BY <1>8 DEF vars
<1> QED
  BY <1>1, <1>2, <1>3, <1>4, <1>5, <1>6, <1>7, <1>8 DEF Next

(* A loop that runs for a topic makes GetSubscriber find it, as long as    *)
(* the connection is open: the reason why no second loop is started.       *)
LEMMA RunningFound ==
  ASSUME TypeOK, Numbering, RunningIsFound, ~natsClosed,
         NEW s \in Subs, Running(s)
  PROVE  Found(topic[s]) /\ topic[s] \in Topics /\ subscribers[topic[s]] = s
<1>1. s <= made
  BY DEF TypeOK, Numbering, Running, Subs
<1> QED
  BY <1>1, BoundsAssumption DEF TypeOK, Numbering, RunningIsFound, Found

(* A loop that returns takes only its own entry and handle away.           *)
LEMMA ExitKeepsRegistry ==
  ASSUME TypeOK, Registry, NEW s \in Subs, loop[s] \in {"closing", "failing"},
         DeleteSubscriber(s), loop' = [loop EXCEPT ![s] = "exited"],
         UNCHANGED <<natsClosed, made, topic, gen>>
  PROVE  Registry'
<1> USE DEF Registry
<1>1. \A r \in Subs : loop'[r] = IF r = s THEN "exited" ELSE loop[r]
  BY DEF TypeOK
<1>2. Numbering'
  BY <1>1 DEF Numbering, Running
<1>3. OneLoopPerTopic'
  BY <1>1 DEF OneLoopPerTopic, Running
<1>4. RunningIsFound'
  <2>1. ASSUME ~natsClosed, NEW r \in Subs, Running(r)'
        PROVE  subscribers'[topic[r]] = r /\ <<r, gen[r]>> \in live'
    <3>1. r # s /\ Running(r)
      BY <1>1, <2>1 DEF Running
    <3>2. topic[r] # topic[s]
      BY <3>1 DEF OneLoopPerTopic, Running
    <3>3. /\ topic[r] \in Topics
          /\ subscribers[topic[r]] = r /\ <<r, gen[r]>> \in live
      BY <2>1, <3>1, RunningFound DEF RunningIsFound, IsValid, Current
    <3> QED
      BY <3>1, <3>2, <3>3 DEF DeleteSubscriber, Current, TypeOK
  <2> QED
    BY <2>1 DEF RunningIsFound, IsValid, Current, DeleteSubscriber
<1>5. MapMatchesTopic'
  BY DEF MapMatchesTopic, DeleteSubscriber, TypeOK
<1> QED
  BY <1>2, <1>3, <1>4, <1>5

(* Every step keeps the registry in order.                                 *)
LEMMA RegistryInductive ==
  ASSUME TypeOK, Registry, [Next]_vars
  PROVE  Registry'
<1>1. CASE UNCHANGED registryVars
  BY <1>1 DEF registryVars, Registry, Numbering, OneLoopPerTopic, RunningIsFound,
              MapMatchesTopic, Running, IsValid, Current
<1>2. CASE ConnectionClosed
  BY <1>2 DEF ConnectionClosed, loopVars, Registry, Numbering, OneLoopPerTopic,
              RunningIsFound, MapMatchesTopic, Running
<1>3. ASSUME NEW c \in Clients, GetSubscriberNew(c)
      PROVE  Registry'
  <2> DEFINE t == TopicOf[c]
             n == made + 1
  <2>1. /\ n \in Subs /\ t \in Topics /\ ~Found(t) /\ ~natsClosed /\ natsClosed' = natsClosed
        /\ made' = n
        /\ topic' = [topic EXCEPT ![n] = t]
        /\ loop' = [loop EXCEPT ![n] = "run"]
        /\ gen' = [gen EXCEPT ![n] = 1]
        /\ live' = live \cup {<<n, 1>>}
        /\ subscribers' = [subscribers EXCEPT ![t] = n]
    <3>1. n \in Subs
      BY <1>3, BoundsAssumption DEF GetSubscriberNew, Subs, TypeOK
    <3>2. t \in Topics
      BY ClientsAssumption
    <3> QED
      BY <1>3, <3>1, <3>2 DEF GetSubscriberNew, connVars
  <2>2. /\ made \in Nat /\ n = made + 1
        /\ \A r \in Subs : r \in Nat
    BY DEF TypeOK, Subs
  <2> HIDE DEF t, n
  <2>3. /\ \A r \in Subs : loop'[r] = IF r = n THEN "run" ELSE loop[r]
        /\ \A r \in Subs : topic'[r] = IF r = n THEN t ELSE topic[r]
        /\ \A r \in Subs : gen'[r] = IF r = n THEN 1 ELSE gen[r]
        /\ \A u \in Topics : subscribers'[u] = IF u = t THEN n ELSE subscribers[u]
    BY <2>1 DEF TypeOK
  <2>4. ASSUME NEW r \in Subs, Running(r)
        PROVE  r # n /\ topic[r] # t /\ topic[r] \in Topics
    BY <2>1, <2>2, <2>4, RunningFound DEF Registry, Numbering, Running
  <2>5. Numbering'
    BY <2>1, <2>2, <2>3 DEF Registry, Numbering, Running
  <2>6. OneLoopPerTopic'
    BY <2>3, <2>4 DEF Registry, OneLoopPerTopic, Running
  <2>7. ASSUME NEW r \in Subs, Running(r)'
        PROVE  subscribers'[topic'[r]] = r /\ <<r, gen'[r]>> \in live'
    <3>1. CASE r = n
      BY <2>1, <2>3, <3>1
    <3>2. CASE r # n
      BY <2>1, <2>3, <2>4, <2>7, <3>2
      DEF Registry, RunningIsFound, Running, IsValid, Current
    <3> QED
      BY <3>1, <3>2
  <2>8. RunningIsFound'
    BY <2>1, <2>7 DEF RunningIsFound, IsValid, Current
  <2>9. MapMatchesTopic'
    <3>1. ASSUME NEW u \in Topics, subscribers[u] # None
          PROVE  subscribers[u] \in Subs /\ subscribers[u] <= made /\ topic[subscribers[u]] = u
      BY <3>1 DEF Registry, MapMatchesTopic, TypeOK
    <3>2. ASSUME NEW u \in Topics, subscribers'[u] # None
          PROVE  subscribers'[u] <= n /\ topic'[subscribers'[u]] = u
      <4>1. CASE u = t
        BY <2>1, <2>2, <2>3, <4>1
      <4>2. CASE u # t
        <5>1. subscribers'[u] = subscribers[u] /\ subscribers[u] # n
          BY <2>2, <2>3, <3>1, <3>2, <4>2
        <5> QED
          BY <2>2, <2>3, <3>1, <3>2, <5>1
      <4> QED
        BY <4>1, <4>2
    <3> QED
      BY <2>1, <3>2 DEF MapMatchesTopic
  <2> QED
    BY <2>5, <2>6, <2>8, <2>9 DEF Registry
<1>4. ASSUME NEW c \in Clients, GetSubscriberFails(c)
      PROVE  Registry'
  <2>1. /\ TopicOf[c] \in Topics /\ ~Found(TopicOf[c])
        /\ subscribers' = [subscribers EXCEPT ![TopicOf[c]] = None]
        /\ UNCHANGED <<natsClosed, made, topic, loop, gen, live>>
    BY <1>4, ClientsAssumption DEF GetSubscriberFails, connVars, loopVars, natsVars
  <2>2. ASSUME ~natsClosed, NEW r \in Subs, Running(r)
        PROVE  subscribers'[topic[r]] = r
    BY <2>1, <2>2, RunningFound DEF Registry, TypeOK
  <2>3. RunningIsFound'
    BY <2>1, <2>2 DEF Registry, RunningIsFound, Running, IsValid, Current
  <2>4. MapMatchesTopic'
    BY <2>1 DEF Registry, MapMatchesTopic, TypeOK
  <2> QED
    BY <2>1, <2>3, <2>4 DEF Registry, Numbering, OneLoopPerTopic, Running
<1>5. ASSUME NEW s \in Subs, LoopTeardown(s) \/ LoopGiveUp(s)
      PROVE  Registry'
  <2>1. /\ loop[s] \in {"closing", "failing"} /\ DeleteSubscriber(s)
        /\ loop' = [loop EXCEPT ![s] = "exited"]
        /\ UNCHANGED <<natsClosed, made, topic, gen>>
    BY <1>5 DEF LoopTeardown, LoopGiveUp, connVars
  <2> QED
    BY <2>1, ExitKeepsRegistry
<1>6. ASSUME NEW s \in Subs, LoopReestablish(s)
      PROVE  Registry'
  <2>1. /\ loop[s] = "run"
        /\ UNCHANGED <<natsClosed, subscribers, made, topic>>
        /\ \A r \in Subs : loop'[r] = loop[r] \/ (r = s /\ loop'[r] = "failing")
        /\ \/ /\ ~natsClosed /\ gen' = [gen EXCEPT ![s] = 2]
              /\ live' = live \cup {<<s, 2>>}
           \/ UNCHANGED <<gen, live>>
    BY <1>6 DEF LoopReestablish, connVars, TypeOK
  <2>2. \A r \in Subs : Running(r)' <=> Running(r)
    BY <2>1 DEF Running
  <2>3. \A r \in Subs : gen'[r] = gen[r] \/ (r = s /\ gen'[r] = 2 /\ <<s, 2>> \in live')
    <3>1. CASE gen' = [gen EXCEPT ![s] = 2] /\ live' = live \cup {<<s, 2>>}
      BY <3>1 DEF TypeOK
    <3>2. CASE UNCHANGED gen
      BY <3>2
    <3> QED
      BY <2>1, <3>1, <3>2
  <2>4. Numbering'
    BY <2>1, <2>2, <2>3 DEF Registry, Numbering, Running
  <2>5. RunningIsFound'
    BY <2>1, <2>2, <2>3 DEF Registry, RunningIsFound, IsValid, Current
  <2> QED
    BY <2>1, <2>2, <2>4, <2>5 DEF Registry, OneLoopPerTopic, MapMatchesTopic
<1>7. ASSUME NEW s \in Subs, NEW c \in Clients, LoopRemove(s, c)
      PROVE  Registry'
  <2>1. /\ loop[s] = "run"
        /\ UNCHANGED <<natsClosed, subscribers, made, topic, gen, live>>
        /\ \A r \in Subs : loop'[r] = loop[r] \/ (r = s /\ loop'[r] = "closing")
    BY <1>7 DEF LoopRemove, connVars, natsVars, TypeOK
  <2>2. \A r \in Subs : Running(r)' <=> Running(r)
    BY <2>1 DEF Running
  <2> QED
    BY <2>1, <2>2 DEF Registry, Numbering, OneLoopPerTopic, RunningIsFound,
                      MapMatchesTopic, Running, IsValid, Current
<1> QED
  BY <1>1, <1>2, <1>3, <1>4, <1>5, <1>6, <1>7, RegistrySteps

LEMMA InitRegistry == Init => Registry
  BY DEF Init, Registry, Numbering, OneLoopPerTopic, RunningIsFound,
         MapMatchesTopic, Running, Subs

-----------------------------------------------------------------------------
(* Handlers, and what holds only after start-up.                           *)

(* A handler past GetSubscriber keeps the subscriber it was given.         *)
LEMMA HandlersInductive ==
  ASSUME TypeOK, Registry, HandlersHaveSubscriber, [Next]_vars
  PROVE  HandlersHaveSubscriber'
<1> USE DEF HandlersHaveSubscriber, connVars, loopVars, natsVars, handlerVars
<1>1. CASE Connection \/ ConnectionClosed
  BY <1>1 DEF Connection, ConnectDial, ConnectNotify, ConnectionClosed
<1>2. CASE \E t \in Topics : Publish(t)
  BY <1>2 DEF Publish
<1>3. CASE \E h \in Handle : Callback(h) \/ \E m \in 1 .. MaxPublished : Redeliver(h, m)
  BY <1>3 DEF Callback, Redeliver
<1>4. ASSUME NEW s \in Subs, Loop(s)
      PROVE  HandlersHaveSubscriber'
  <2>1. CASE \E c \in Clients : LoopAdd(s, c) \/ LoopRemove(s, c)
    <3>1. PICK c \in Clients :
            /\ pc[c] \in {"register", "unregister"}
            /\ \E l \in HandlerStates : pc' = [pc EXCEPT ![c] = l]
            /\ UNCHANGED <<made, subscriber>>
      BY <2>1 DEF LoopAdd, LoopRemove, Goto, HandlerStates
    <3> QED
      BY <3>1 DEF TypeOK
  <2>2. CASE LoopTeardown(s) \/ LoopFanout(s) \/ LoopReestablish(s) \/ LoopGiveUp(s)
    BY <2>2 DEF LoopTeardown, LoopFanout, LoopReestablish, LoopGiveUp
  <2> QED
    BY <1>4, <2>1, <2>2 DEF Loop
<1>5. ASSUME NEW c \in Clients, GetSubscriberFound(c)
      PROVE  HandlersHaveSubscriber'
  <2>1. subscribers[TopicOf[c]] \in Subs /\ subscribers[TopicOf[c]] <= made
    BY <1>5, ClientsAssumption DEF GetSubscriberFound, Found, Registry, MapMatchesTopic, TypeOK
  <2> QED
    BY <1>5, <2>1 DEF GetSubscriberFound, TypeOK
<1>6. ASSUME NEW c \in Clients, GetSubscriberNew(c)
      PROVE  HandlersHaveSubscriber'
  <2>1. made \in Nat /\ made + 1 \in Subs /\ made' = made + 1
    BY <1>6, BoundsAssumption DEF GetSubscriberNew, TypeOK, Subs
  <2>2. \A s \in Subs : s \in Nat
    BY DEF Subs
  <2>3. /\ pc' = [pc EXCEPT ![c] = "register"]
        /\ subscriber' = [subscriber EXCEPT ![c] = made + 1]
    BY <1>6 DEF GetSubscriberNew
  <2> QED
    BY <2>1, <2>2, <2>3 DEF TypeOK
<1>7. CASE \E c \in Clients : GetSubscriberFails(c)
  BY <1>7 DEF GetSubscriberFails, TypeOK
<1>8. CASE \E c \in Clients : Disconnect(c)
  BY <1>8 DEF Disconnect
<1>9. CASE \E c \in Clients : Handler(c)
  <2>1. PICK c \in Clients : Handler(c)
    BY <1>9
  <2>2. /\ UNCHANGED <<made, subscriber>>
        /\ pc[c] \notin {"idle", "refused"}
        /\ \E to \in HandlerStates : pc' = [pc EXCEPT ![c] = to]
    BY <2>1 DEF Handler, StreamPoll, ClientGone, WriteMessage, SubscriberError,
                Upgrade, Goto, HandlerStates
  <2> QED
    BY <2>2 DEF TypeOK
<1>10. CASE UNCHANGED vars
  BY <1>10 DEF vars
<1> QED
  BY <1>1, <1>2, <1>3, <1>4, <1>5, <1>6, <1>7, <1>8, <1>9, <1>10 DEF Next, GetSubscriber

(* The steps that touch connPc, connEstablished or the registry.           *)
LEMMA StartupSteps ==
  ASSUME [Next]_vars
  PROVE  \/ UNCHANGED <<registryVars, connPc, connEstablished>>
         \/ Connection \/ ConnectionClosed
         \/ \E c \in Clients : GetSubscriberNew(c) \/ GetSubscriberFails(c)
         \/ \E s \in Subs : \/ LoopTeardown(s) \/ LoopReestablish(s) \/ LoopGiveUp(s)
                            \/ \E c \in Clients : LoopRemove(s, c)
<1> USE DEF registryVars, connVars, loopVars, natsVars, handlerVars
<1>1. CASE \E t \in Topics : Publish(t)
  BY <1>1 DEF Publish
<1>2. CASE \E h \in Handle : Callback(h) \/ \E m \in 1 .. MaxPublished : Redeliver(h, m)
  BY <1>2 DEF Callback, Redeliver
<1>3. CASE \E s \in Subs : Loop(s)
  BY <1>3 DEF Loop, LoopAdd, LoopFanout
<1>4. CASE \E c \in Clients : GetSubscriber(c) \/ Disconnect(c)
  BY <1>4 DEF GetSubscriber, GetSubscriberFound, Disconnect
<1>5. CASE \E c \in Clients : Handler(c)
  BY <1>5 DEF Handler, StreamPoll, ClientGone, WriteMessage, SubscriberError, Upgrade
<1>6. CASE UNCHANGED vars
  BY <1>6 DEF vars
<1> QED
  BY <1>1, <1>2, <1>3, <1>4, <1>5, <1>6 DEF Next

(* After start-up no loop subscribes again, so that the one handle of a    *)
(* loop is the one it will unsubscribe.                                    *)
LEMMA StartupInductive ==
  ASSUME TypeOK, Registry, ReadyFirst, NeverReestablished, HandlesOfRunning, [Next]_vars
  PROVE  NeverReestablished' /\ HandlesOfRunning'
<1> USE DEF connVars, loopVars, natsVars, handlerVars
<1>1. CASE UNCHANGED <<registryVars, connPc, connEstablished>>
  BY <1>1 DEF registryVars, NeverReestablished, HandlesOfRunning, Running
<1>2. CASE Connection
  <2>1. HandlesOfRunning'
    BY <1>2 DEF Connection, ConnectDial, ConnectNotify, HandlesOfRunning, Running
  <2>2. CASE ConnectDial
    <3>1. /\ connPc = "dial" /\ connPc' = "check"
          /\ UNCHANGED <<made, subscribers, connEstablished, loop, live, gen>>
      BY <2>2 DEF ConnectDial
    <3>2. /\ made = 0 /\ \A t \in Topics : subscribers[t] = None
          /\ \A s \in Subs : ~connEstablished[s] /\ loop[s] # "failing"
          /\ \A h \in live : h[2] = gen[h[1]]
      BY <3>1 DEF NeverReestablished
    <3>3. /\ made' = 0 /\ \A t \in Topics : subscribers'[t] = None
          /\ \A s \in Subs : ~connEstablished'[s]
          /\ \A s \in Subs : loop'[s] # "failing"
          /\ \A h \in live' : h[2] = gen'[h[1]]
      BY <3>1, <3>2
    <3> QED
      BY <2>1, <3>3 DEF NeverReestablished
  <2>3. CASE ConnectNotify
    <3>1. connPc = "check" /\ connPc' = "up" /\ UNCHANGED <<loop, live, gen>>
      BY <2>3 DEF ConnectNotify
    <3>2. \A s \in Subs, t \in Topics : subscribers[t] # s
      BY <3>1, BoundsAssumption DEF NeverReestablished
    <3>3. \A s \in Subs : ~connEstablished'[s]
      BY <2>3, <3>2 DEF ConnectNotify, NeverReestablished
    <3>4. /\ \A s \in Subs : loop[s] # "failing"
          /\ \A h \in live : h[2] = gen[h[1]]
      BY DEF NeverReestablished
    <3>5. /\ connPc' = "up"
          /\ \A s \in Subs : loop'[s] # "failing"
          /\ \A h \in live' : h[2] = gen'[h[1]]
      BY <3>1, <3>4
    <3> QED
      BY <2>1, <3>3, <3>5 DEF NeverReestablished
  <2> QED
    BY <1>2, <2>1, <2>2, <2>3 DEF Connection
<1>3. CASE ConnectionClosed
  BY <1>3 DEF ConnectionClosed, NeverReestablished, HandlesOfRunning
<1>4. ASSUME NEW c \in Clients, GetSubscriberNew(c)
      PROVE  NeverReestablished' /\ HandlesOfRunning'
  <2> DEFINE n == made + 1
  <2>1. made \in Nat /\ n \in Subs /\ made' = n /\ \A r \in Subs : r \in Nat
    BY <1>4, BoundsAssumption DEF GetSubscriberNew, TypeOK, Subs
  <2>2. /\ connPc = "up" /\ connPc' = connPc /\ connEstablished' = connEstablished
        /\ loop' = [loop EXCEPT ![n] = "run"]
        /\ gen' = [gen EXCEPT ![n] = 1]
        /\ live' = live \cup {<<n, 1>>}
    BY <1>4 DEF GetSubscriberNew, MayRequest
  <2>3. \A h \in live : h[1] \in Subs /\ h[1] <= made /\ h[1] # n
    BY <2>1 DEF TypeOK, Handle, HandlesOfRunning
  <2> HIDE DEF n
  <2>4. NeverReestablished'
    BY <2>1, <2>2, <2>3 DEF NeverReestablished, TypeOK
  <2>5. ASSUME NEW h \in live'
        PROVE  h[1] <= n /\ Running(h[1])'
    <3>1. CASE h = <<n, 1>>
      BY <2>1, <2>2, <3>1 DEF Running, TypeOK
    <3>2. CASE h \in live
      <4>1. h[1] <= made /\ made <= n /\ h[1] \in Nat
        BY <2>1, <2>3, <3>2 DEF n
      <4> QED
        BY <2>1, <2>2, <2>3, <3>2, <4>1 DEF HandlesOfRunning, Running, TypeOK
    <3> QED
      BY <2>2, <3>1, <3>2
  <2> QED
    BY <2>1, <2>4, <2>5 DEF HandlesOfRunning
<1>5. ASSUME NEW c \in Clients, GetSubscriberFails(c)
      PROVE  NeverReestablished' /\ HandlesOfRunning'
  BY <1>5 DEF GetSubscriberFails, MayRequest, NeverReestablished, HandlesOfRunning, Running
<1>6. ASSUME NEW s \in Subs, LoopTeardown(s) \/ LoopGiveUp(s)
      PROVE  NeverReestablished' /\ HandlesOfRunning'
  <2>1. /\ UNCHANGED <<connPc, connEstablished, made, gen>>
        /\ subscribers' = [subscribers EXCEPT ![topic[s]] = None]
        /\ loop' = [loop EXCEPT ![s] = "exited"]
        /\ live' = live \ {<<s, gen[s]>>}
    BY <1>6 DEF LoopTeardown, LoopGiveUp, DeleteSubscriber, Current
  <2>2. \A h \in live' : h[1] # s
    <3> SUFFICES ASSUME NEW h \in live', h[1] = s
                 PROVE  FALSE
      OBVIOUS
    <3>1. h \in live /\ h \in Subs \X {1, 2} /\ h[2] = gen[s]
      BY <2>1 DEF TypeOK, Handle, NeverReestablished
    <3>2. h = <<h[1], h[2]>>
      BY <3>1
    <3> QED
      BY <2>1, <3>1, <3>2
  <2>3. NeverReestablished'
    BY <2>1 DEF NeverReestablished, TypeOK
  <2>4. HandlesOfRunning'
    BY <2>1, <2>2 DEF HandlesOfRunning, Running, TypeOK, Handle
  <2> QED
    BY <2>3, <2>4
<1>7. ASSUME NEW s \in Subs, LoopReestablish(s)
      PROVE  FALSE
  BY <1>7 DEF LoopReestablish, NeverReestablished
<1>8. ASSUME NEW s \in Subs, NEW c \in Clients, LoopRemove(s, c)
      PROVE  NeverReestablished' /\ HandlesOfRunning'
  BY <1>8 DEF LoopRemove, NeverReestablished, HandlesOfRunning, Running, TypeOK
<1> QED
  BY <1>1, <1>2, <1>3, <1>4, <1>5, <1>6, <1>7, <1>8, StartupSteps

(* Only subscribers that have been made have handles.                      *)
LEMMA HandlesMade ==
  ASSUME TypeOK, Registry, \A h \in live : h[1] <= made, [Next]_vars
  PROVE  (\A h \in live : h[1] <= made)'
<1> USE DEF connVars, loopVars, natsVars, handlerVars
<1>1. CASE UNCHANGED <<registryVars, connPc, connEstablished>>
  BY <1>1 DEF registryVars
<1>2. CASE Connection \/ ConnectionClosed
  BY <1>2 DEF Connection, ConnectDial, ConnectNotify, ConnectionClosed
<1>3. ASSUME NEW c \in Clients, GetSubscriberNew(c)
      PROVE  (\A h \in live : h[1] <= made)'
  <2>1. made \in Nat /\ made' = made + 1 /\ live' = live \cup {<<made + 1, 1>>}
    BY <1>3 DEF GetSubscriberNew, TypeOK
  <2>2. \A h \in live : h[1] \in Nat
    BY DEF TypeOK, Handle, Subs
  <2> QED
    BY <2>1, <2>2
<1>4. CASE \E c \in Clients : GetSubscriberFails(c)
  BY <1>4 DEF GetSubscriberFails
<1>5. CASE \E s \in Subs : LoopTeardown(s) \/ LoopGiveUp(s)
  BY <1>5 DEF LoopTeardown, LoopGiveUp, DeleteSubscriber
<1>6. ASSUME NEW s \in Subs, LoopReestablish(s)
      PROVE  (\A h \in live : h[1] <= made)'
  <2>1. UNCHANGED made /\ live' \subseteq live \cup {<<s, 2>>} /\ loop[s] = "run"
    BY <1>6 DEF LoopReestablish
  <2>2. s <= made
    BY <2>1 DEF Registry, Numbering, TypeOK, Subs
  <2> QED
    BY <2>1, <2>2
<1>7. CASE \E s \in Subs, c \in Clients : LoopRemove(s, c)
  BY <1>7 DEF LoopRemove
<1> QED
  BY <1>1, <1>2, <1>3, <1>4, <1>5, <1>6, <1>7, StartupSteps

(* A loop does not return while a handler still depends on it: the last    *)
(* client is deleted by the handler that leaves, and no loop fails.        *)
LEMMA ServedInductive ==
  ASSUME TypeOK, Registry, HandlersHaveSubscriber, ReadyFirst, NeverReestablished,
         ServedWhileStreaming, [Next]_vars
  PROVE  ServedWhileStreaming'
<1> USE DEF connVars, loopVars, natsVars, handlerVars
<1> DEFINE Served(c) == c \in clients[subscriber[c]] /\ loop[subscriber[c]] = "run"
<1>0. \A c \in Clients : Serving(c) => subscriber[c] \in Subs /\ subscriber[c] <= made /\ Served(c)
  BY DEF ServedWhileStreaming, Serving, HandlersHaveSubscriber
<1>1. CASE UNCHANGED <<pc, subscriber, clients, loop>>
  BY <1>1 DEF ServedWhileStreaming, Serving
<1>2. ASSUME NEW s \in Subs, NEW c \in Clients, LoopAdd(s, c)
      PROVE  ServedWhileStreaming'
  <2>1. /\ loop[s] = "run" /\ subscriber[c] = s /\ UNCHANGED <<subscriber, loop>>
        /\ clients' = [clients EXCEPT ![s] = clients[s] \cup {c}]
        /\ \A d \in Clients : d # c => pc'[d] = pc[d]
    BY <1>2 DEF LoopAdd, Goto, TypeOK
  <2> QED
    BY <1>0, <2>1 DEF ServedWhileStreaming, Serving, TypeOK
<1>3. ASSUME NEW s \in Subs, NEW c \in Clients, LoopRemove(s, c)
      PROVE  ServedWhileStreaming'
  <2>1. /\ UNCHANGED subscriber /\ pc'[c] = "done"
        /\ clients' = [clients EXCEPT ![s] = clients[s] \ {c}]
        /\ \A d \in Clients : d # c => pc'[d] = pc[d]
        /\ \A r \in Subs : r # s => loop'[r] = loop[r]
        /\ clients[s] \ {c} # {} => loop'[s] = "run"
    BY <1>3 DEF LoopRemove, Goto, NoClientLeft, TypeOK
  <2> QED
    BY <1>0, <2>1 DEF ServedWhileStreaming, Serving, TypeOK
<1>4. ASSUME NEW s \in Subs, LoopTeardown(s) \/ LoopGiveUp(s)
      PROVE  ServedWhileStreaming'
  <2>1. /\ loop[s] # "run" /\ loop' = [loop EXCEPT ![s] = "exited"]
        /\ UNCHANGED <<pc, subscriber, clients>>
    BY <1>4 DEF LoopTeardown, LoopGiveUp
  <2> QED
    BY <1>0, <2>1 DEF ServedWhileStreaming, Serving, TypeOK
<1>5. ASSUME NEW s \in Subs, LoopReestablish(s)
      PROVE  FALSE
  BY <1>5 DEF LoopReestablish, NeverReestablished
<1>6. ASSUME NEW c \in Clients, GetSubscriber(c)
      PROVE  ServedWhileStreaming'
  <2>1. /\ ~Serving(c)' /\ UNCHANGED clients
        /\ \A d \in Clients : d # c => pc'[d] = pc[d] /\ subscriber'[d] = subscriber[d]
    BY <1>6 DEF GetSubscriber, GetSubscriberFound, GetSubscriberNew,
                GetSubscriberFails, Serving, TypeOK
  <2>2. \A r \in Subs : r <= made => loop'[r] = loop[r]
    <3>1. UNCHANGED loop \/ loop' = [loop EXCEPT ![made + 1] = "run"]
      BY <1>6 DEF GetSubscriber, GetSubscriberFound, GetSubscriberNew, GetSubscriberFails
    <3>2. made \in Nat /\ \A r \in Subs : r \in Nat
      BY DEF TypeOK, Subs
    <3> QED
      BY <3>1, <3>2 DEF TypeOK
  <2> QED
    BY <1>0, <2>1, <2>2 DEF ServedWhileStreaming, Serving
<1>7. ASSUME NEW c \in Clients, Handler(c)
      PROVE  ServedWhileStreaming'
  <2>1. /\ Serving(c)
        /\ UNCHANGED <<subscriber, clients, loop>>
        /\ \A d \in Clients : d # c => pc'[d] = pc[d]
    BY <1>7 DEF Handler, StreamPoll, ClientGone, WriteMessage, SubscriberError,
                Upgrade, Goto, Serving, TypeOK
  <2> QED
    BY <1>0, <2>1 DEF ServedWhileStreaming, Serving
<1>8. ASSUME NEW s \in Subs, LoopFanout(s)
      PROVE  UNCHANGED <<pc, subscriber, clients, loop>>
  BY <1>8 DEF LoopFanout
<1>9. ASSUME ConnectionClosed \/ Connection
      PROVE  UNCHANGED <<pc, subscriber, clients, loop>>
  BY <1>9 DEF ConnectionClosed, Connection, ConnectDial, ConnectNotify
<1>10. ASSUME \/ \E t \in Topics : Publish(t)
              \/ \E h \in Handle : Callback(h) \/ \E m \in 1 .. MaxPublished : Redeliver(h, m)
              \/ \E c \in Clients : Disconnect(c)
              \/ UNCHANGED vars
       PROVE  UNCHANGED <<pc, subscriber, clients, loop>>
  BY <1>10 DEF Publish, Callback, Redeliver, Disconnect, vars
<1> QED
  BY <1>1, <1>2, <1>3, <1>4, <1>5, <1>6, <1>7, <1>8, <1>9, <1>10 DEF Next, Loop

-----------------------------------------------------------------------------
(* IInv holds initially and every step keeps it.                           *)
LEMMA InitIInv == Init => IInv
<1> SUFFICES ASSUME Init
             PROVE  IInv
  OBVIOUS
<1>1. TypeOK /\ Registry
  BY InitTyped, InitRegistry
<1>2. HandlersHaveSubscriber /\ HandlesOfRunning /\ ServedWhileStreaming
  BY DEF Init, HandlersHaveSubscriber, HandlesOfRunning, ServedWhileStreaming, Serving
<1>3. NeverReestablished
  BY DEF Init, NeverReestablished
<1> QED
  BY <1>1, <1>2, <1>3 DEF IInv, Registry

LEMMA NextIInv == IInv /\ [Next]_vars => IInv'
<1> SUFFICES ASSUME IInv, [Next]_vars
             PROVE  IInv'
  OBVIOUS
<1>1. TypeOK' /\ Registry' /\ HandlersHaveSubscriber'
  BY NextTyped, RegistryInductive, HandlersInductive DEF IInv, Registry
<1>2. CASE ReadyFirst
  BY <1>1, <1>2, StartupInductive, ServedInductive DEF IInv, Registry
<1>3. CASE ~ReadyFirst
  <2>1. \A h \in live' : h[1] <= made'
    BY HandlesMade DEF IInv, HandlesOfRunning, Registry
  <2>2. HandlesOfRunning'
    BY <1>3, <2>1 DEF HandlesOfRunning
  <2>3. NeverReestablished'
    BY <1>3 DEF NeverReestablished
  <2> QED
    BY <1>1, <1>3, <2>2, <2>3 DEF IInv, Registry
<1> QED
  BY <1>2, <1>3

(* The inductive invariant holds in every reachable state: the map leads   *)
(* to every running loop while the connection is open (GetSubscriber).     *)
THEOREM Invariant == Spec => []IInv
  BY InitIInv, NextIInv, PTL DEF Spec

(* Two loops never run for one topic, for any number of clients, topics,   *)
(* subscribers and messages, start-up and a closed connection included     *)
(* (GetSubscriber and DeleteSubscriber under conn.Lock()).                 *)
THEOREM OneLoop == Spec => []OneLoopPerTopic
<1>1. IInv => OneLoopPerTopic
  BY DEF IInv
<1> QED
  BY <1>1, InitIInv, NextIInv, PTL DEF Spec

(* The entry of a subscriber with a valid subscription leaves the map only *)
(* when its own loop returns, although DeleteSubscriber deletes by topic.  *)
THEOREM OwnEntry == Spec => OwnEntryOnly
<1>1. ASSUME IInv, [Next]_vars, NEW t \in Topics, NEW s \in Subs,
             subscribers[t] = s, IsValid(s), subscribers'[t] # s
      PROVE  loop'[s] = "exited"
  <2> USE DEF IInv, Registry
  <2>1. Found(t)
    BY <1>1, BoundsAssumption DEF Found
  <2>2. ASSUME NEW c \in Clients, GetSubscriberNew(c) \/ GetSubscriberFails(c)
        PROVE  FALSE
    BY <1>1, <2>1, <2>2, ClientsAssumption DEF GetSubscriberNew, GetSubscriberFails, TypeOK
  <2>3. ASSUME NEW r \in Subs, LoopTeardown(r) \/ LoopGiveUp(r)
        PROVE  loop'[s] = "exited"
    <3>1. /\ loop[r] \in {"closing", "failing"}
          /\ subscribers' = [subscribers EXCEPT ![topic[r]] = None]
          /\ loop' = [loop EXCEPT ![r] = "exited"]
      BY <2>3 DEF LoopTeardown, LoopGiveUp, DeleteSubscriber
    <3>2. ~natsClosed /\ Running(r)
      BY <1>1, <3>1 DEF RunningIsFound, IsValid, Running
    <3>3. topic[r] = t /\ r = s
      <4>1. topic[r] \in Topics /\ subscribers[topic[r]] = r
        BY <1>1, <3>2, RunningFound
      <4> QED
        BY <1>1, <3>1, <4>1 DEF TypeOK
    <3> QED
      BY <1>1, <3>1, <3>3 DEF TypeOK
  <2>4. ASSUME UNCHANGED subscribers
        PROVE  FALSE
    BY <1>1, <2>4
  <2> QED
    BY <1>1, <2>2, <2>3, <2>4, RegistrySteps
    DEF registryVars, ConnectionClosed, LoopReestablish, LoopRemove
<1>2. IInv /\ [Next]_vars =>
        [\A t \in Topics, s \in Subs :
           subscribers[t] = s /\ IsValid(s) /\ subscribers'[t] # s
             => loop'[s] = "exited"]_vars
  BY <1>1
<1> QED
  BY <1>2, InitIInv, NextIInv, PTL DEF Spec, OwnEntryOnly

(* Once requests come after start-up, a handler that streams or is about   *)
(* to leave the client list has a loop that still takes it off.            *)
THEOREM Served == ReadyFirst => (Spec => []ServedWhileStreaming)
<1> SUFFICES ASSUME ReadyFirst
             PROVE  Spec => []ServedWhileStreaming
  OBVIOUS
<1>1. IInv => ServedWhileStreaming
  BY DEF IInv
<1> QED
  BY <1>1, InitIInv, NextIInv, PTL DEF Spec

(* Once requests come after start-up, a loop that has returned leaves no   *)
(* NATS subscription behind ("fully cleanup").                             *)
THEOREM Cleanup == ReadyFirst => (Spec => []FullCleanup)
<1> SUFFICES ASSUME ReadyFirst
             PROVE  Spec => []FullCleanup
  OBVIOUS
<1>1. IInv => FullCleanup
  BY DEF IInv, HandlesOfRunning, FullCleanup, Running
<1> QED
  BY <1>1, InitIInv, NextIInv, PTL DEF Spec
=============================================================================
