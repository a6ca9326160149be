---------------------------- MODULE EventsBroker ----------------------------
(***************************************************************************)
(* The events service (src/events): one NATS subscription per topic is     *)
(* fanned out to HTTP clients.  Four kinds of goroutine meet here:         *)
(*   - the connection goroutine started by NATSConnection.Connect;         *)
(*   - one request handler per client (SubscribeSSE or SubscribeWSS);      *)
(*   - one loop per Subscriber object, started by Subscriber.Start;        *)
(*   - one NATS callback per js.Subscribe call.                            *)
(* conn.Lock() sections contain no channel wait on another goroutine, so   *)
(* each is one step.  Every case of a Go select is an action of its own,   *)
(* and a send on an unbuffered channel is one joint step of both sides.    *)
(***************************************************************************)
EXTENDS Naturals, Sequences, FiniteSets

CONSTANTS
  Clients,      \* HTTP requests, each served by one handler goroutine
  SSE,          \* the requests routed to SubscribeSSE; the rest get SubscribeWSS
  Topics,       \* group.device.channel
  TopicOf,      \* the topic each request asks for
  MaxSubs,      \* bound: how many Subscriber objects may be created
  MaxPublished, \* bound: how many messages are published on each topic
  MaxDeliveries, \* bound: how often JetStream pushes one message to a subscription
  MaxRepeated,  \* bound: of how many messages that is more than once
  QueueLen,     \* capacity of a client's queue (queuelen, 100 in the code)
  MessagesCap,  \* capacity of subscriber.messages (10 in the code)
  None,         \* nil
  ReadyFirst    \* TRUE: no request arrives before Connect has let go of the map

Subs == 1 .. MaxSubs        \* Subscriber objects, numbered as they are made
Handle == Subs \X {1, 2}    \* <<s, g>>: the g-th NATS subscription of s

\* A message on its way: its place in the stream, and which delivery of it to
\* this subscription it is (Metadata's Sequence.Stream and NumDelivered).
Message == [seq : 1 .. MaxPublished, num : 1 .. MaxDeliveries]

ASSUME ClientsAssumption ==
  /\ SSE \subseteq Clients
  /\ TopicOf \in [Clients -> Topics]
ASSUME BoundsAssumption ==
  /\ MaxSubs \in Nat /\ MaxPublished \in Nat /\ MaxDeliveries \in Nat \ {0}
  /\ MaxRepeated \in Nat
  /\ QueueLen \in Nat \ {0} /\ MessagesCap \in Nat \ {0}
  /\ None \notin Subs
  /\ ReadyFirst \in BOOLEAN

VARIABLES
  \* NATSConnection
  connPc,          \* Connect: "dial", then "check" (lines 149-153), then "up"
  natsClosed,      \* the NATS client has given up on the connection
  subscribers,     \* conn.subscribers: topic -> Subscriber or None
  \* Subscriber objects
  made,            \* how many have been made
  topic,           \* subscriber.topic
  loop,            \* where the loop goroutine is
  gen,             \* subscriber.sub is the handle <<s, gen[s]>>
  clients,         \* subscriber.clients
  messages,        \* subscriber.messages
  connEstablished, \* a token is in subscriber.connEstablished
  errors,          \* an error is in subscriber.errors
  \* NATS
  live,            \* handles that are still valid
  pending,         \* handle -> messages its callback has still to pass on
  published,       \* topic -> number of messages published so far
  deliveries,      \* handle -> message -> how often it has been pushed; once the
                   \* handle is closed, 0
  \* Request handlers
  pc,              \* where the handler is
  subscriber,      \* the Subscriber that GetSubscriber returned to it
  queue,           \* its queue
  closeNotify,     \* the one-shot CloseNotify channel: armed, ready or taken
  gone,            \* clients whose peer has disconnected
  delivered        \* what has been written to the client, in order

connVars    == <<connPc, natsClosed>>
loopVars    == <<made, topic, gen, loop, clients, connEstablished, errors>>
natsVars    == <<live, pending, published, deliveries>>
handlerVars == <<pc, subscriber, closeNotify, gone>>
vars == <<connVars, subscribers, loopVars, messages, natsVars,
          handlerVars, queue, delivered>>

LoopStates == {"none", "run", "closing", "failing", "exited"}
HandlerStates == {"idle", "register", "stream", "select", "upgrade", "ws",
                  "unregister", "done", "refused"}

Init ==
  /\ connPc = "dial" /\ natsClosed = FALSE
  /\ subscribers = [t \in Topics |-> None]
  /\ made = 0
  /\ topic = [s \in Subs |-> None]
  /\ loop = [s \in Subs |-> "none"]
  /\ gen = [s \in Subs |-> 0]
  /\ clients = [s \in Subs |-> {}]
  /\ messages = [s \in Subs |-> <<>>]
  /\ connEstablished = [s \in Subs |-> FALSE]
  /\ errors = [s \in Subs |-> FALSE]
  /\ live = {}
  /\ pending = [h \in Handle |-> <<>>]
  /\ published = [t \in Topics |-> 0]
  /\ deliveries = [h \in Handle |-> [m \in 1 .. MaxPublished |-> 0]]
  /\ pc = [c \in Clients |-> "idle"]
  /\ subscriber = [c \in Clients |-> None]
  /\ queue = [c \in Clients |-> <<>>]
  /\ closeNotify = [c \in Clients |-> "armed"]
  /\ gone = {}
  /\ delivered = [c \in Clients |-> <<>>]

-----------------------------------------------------------------------------
(* Helpers *)

\* The handle stored in subscriber.sub, and subscriber.sub.IsValid().
Current(s) == <<s, gen[s]>>
IsValid(s) == Current(s) \in live

\* Handles hs are closed: what they had queued is discarded, except that a
\* callback may already have been entered with the first message; nothing is
\* pushed to them again.
Discard(hs) ==
  /\ \E entered \in SUBSET hs :
       pending' = [h \in Handle |->
         IF h \notin hs THEN pending[h]
         ELSE IF h \in entered /\ pending[h] # <<>> THEN <<Head(pending[h])>>
         ELSE <<>>]
  /\ deliveries' = [h \in Handle |->
       IF h \in hs THEN [m \in 1 .. MaxPublished |-> 0] ELSE deliveries[h]]

Goto(c, from, to) == pc[c] = from /\ pc' = [pc EXCEPT ![c] = to]

-----------------------------------------------------------------------------
(* The connection goroutine *)

\* nats.Connect returns and conn.Conn is set.
ConnectDial ==
  /\ connPc = "dial"
  /\ connPc' = "check"
  /\ UNCHANGED <<natsClosed, subscribers, loopVars, messages, natsVars,
                 handlerVars, queue, delivered>>

\* Every subscriber in the map is told that the connection is established;
\* the map is read without the lock.  The goroutine then waits on cleanup,
\* a channel nobody sends on.
ConnectNotify ==
  /\ connPc = "check"
  /\ connPc' = "up"
  /\ connEstablished' = [s \in Subs |->
       connEstablished[s] \/ \E t \in Topics : subscribers[t] = s]
  /\ UNCHANGED <<natsClosed, subscribers, made, topic, gen, loop, clients,
                 errors, messages, natsVars, handlerVars, queue, delivered>>

\* The NATS client exhausts its reconnect attempts and closes every handle.
ConnectionClosed ==
  /\ connPc = "up" /\ ~natsClosed
  /\ natsClosed' = TRUE
  /\ live' = {}
  /\ Discard(live)
  /\ UNCHANGED <<connPc, subscribers, loopVars, messages, published,
                 handlerVars, queue, delivered>>

-----------------------------------------------------------------------------
(* GetSubscriber, under conn.Lock() *)

\* Mutant of Found: a subscriber without clients is not used again.
FoundBusy(t) ==
  /\ subscribers[t] # None /\ IsValid(subscribers[t])
  /\ clients[subscribers[t]] # {}

\* The map has a subscriber whose subscription is valid.
Found(t) == subscribers[t] # None /\ IsValid(subscribers[t])

MayRequest(c) == pc[c] = "idle" /\ (ReadyFirst => connPc = "up")

GetSubscriberFound(c) ==
  /\ MayRequest(c)
  /\ Found(TopicOf[c])
  /\ pc' = [pc EXCEPT ![c] = "register"]
  /\ subscriber' = [subscriber EXCEPT ![c] = subscribers[TopicOf[c]]]
  /\ UNCHANGED <<connVars, subscribers, loopVars, messages, natsVars,
                 closeNotify, gone, queue, delivered>>

\* A new Subscriber is made, Start subscribes to NATS and runs its loop.
GetSubscriberNew(c) ==
  LET t == TopicOf[c]
      s == made + 1 IN
  /\ MayRequest(c)
  /\ ~Found(t)
  /\ connPc # "dial" /\ ~natsClosed
  /\ made < MaxSubs
  /\ made' = s
  /\ topic' = [topic EXCEPT ![s] = t]
  /\ loop' = [loop EXCEPT ![s] = "run"]
  /\ gen' = [gen EXCEPT ![s] = 1]
  /\ live' = live \cup {<<s, 1>>}
  /\ subscribers' = [subscribers EXCEPT ![t] = s]
  /\ pc' = [pc EXCEPT ![c] = "register"]
  /\ subscriber' = [subscriber EXCEPT ![c] = s]
  /\ UNCHANGED <<connVars, clients, connEstablished, errors, messages,
                 pending, published, deliveries, closeNotify, gone, queue, delivered>>

\* Start fails (404), or panics on a nil conn.Conn and is recovered by gin;
\* an invalid entry has been deleted by then.
GetSubscriberFails(c) ==
  /\ MayRequest(c)
  /\ ~Found(TopicOf[c])
  /\ subscribers' = [subscribers EXCEPT ![TopicOf[c]] = None]
  /\ pc' = [pc EXCEPT ![c] = "refused"]
  /\ UNCHANGED <<connVars, loopVars, messages, natsVars,
                 subscriber, closeNotify, gone, queue, delivered>>

-----------------------------------------------------------------------------
\* Mutant of DeleteSubscriber: the entry goes, the subscription stays.
DeleteEntry(s) ==
  /\ subscribers' = [subscribers EXCEPT ![topic[s]] = None]
  /\ UNCHANGED <<live, pending, deliveries>>

(* DeleteSubscriber, under conn.Lock(): the entry goes by topic, then the  *)
(* current handle is unsubscribed.                                         *)
DeleteSubscriber(s) ==
  /\ subscribers' = [subscribers EXCEPT ![topic[s]] = None]
  /\ live' = live \ {Current(s)}
  /\ Discard({Current(s)})

(* The loop goroutine of Subscriber s *)

\* case s := <-subscriber.newClients
LoopAdd(s, c) ==
  /\ loop[s] = "run"
  /\ subscriber[c] = s
  /\ Goto(c, "register", IF c \in SSE THEN "stream" ELSE "upgrade")
  /\ clients' = [clients EXCEPT ![s] = @ \cup {c}]
  /\ UNCHANGED <<connVars, subscribers, made, topic, gen, loop,
                 connEstablished, errors, messages, natsVars,
                 subscriber, closeNotify, gone, queue, delivered>>

\* Mutant of NoClientLeft: the client that leaves is counted.
OneClientLeft(s, c) == Cardinality(clients[s]) <= 2

\* len(subscriber.clients) == 0 once c has been deleted from it.
NoClientLeft(s, c) == clients[s] \ {c} = {}

\* case s := <-subscriber.defunctClients
LoopRemove(s, c) ==
  /\ loop[s] = "run"
  /\ subscriber[c] = s
  /\ Goto(c, "unregister", "done")
  /\ clients' = [clients EXCEPT ![s] = @ \ {c}]
  /\ loop' = [loop EXCEPT ![s] = IF NoClientLeft(s, c) THEN "closing" ELSE "run"]
  /\ UNCHANGED <<connVars, subscribers, made, topic, gen,
                 connEstablished, errors, messages, natsVars,
                 subscriber, closeNotify, gone, queue, delivered>>

\* No more clients: DeleteSubscriber, report a failed Unsubscribe, return.
LoopTeardown(s) ==
  /\ loop[s] = "closing"
  /\ DeleteSubscriber(s)
  /\ loop' = [loop EXCEPT ![s] = "exited"]
  /\ \/ IsValid(s) /\ UNCHANGED errors
     \/ errors' = [errors EXCEPT ![s] = TRUE]
  /\ UNCHANGED <<connVars, made, topic, gen, clients, connEstablished,
                 messages, published, handlerVars, queue, delivered>>

HasRoom(c) == Len(queue[c]) < QueueLen

\* Mutant of Take: a message some client has no room for is kept for later.
TakeOrRequeue(s) ==
  messages' = [messages EXCEPT ![s] =
    IF \A c \in clients[s] : HasRoom(c) THEN Tail(@) ELSE Append(Tail(@), Head(@))]

\* <-subscriber.messages
Take(s) == messages' = [messages EXCEPT ![s] = Tail(@)]

\* Mutant of Sendable: the loop waits until every client has room.
SendableToAll(s) == messages[s] # <<>> /\ \A c \in clients[s] : HasRoom(c)

\* A message can be received: nothing is asked of the clients.
Sendable(s) == messages[s] # <<>>

\* case msg := <-subscriber.messages: a client whose queue is full misses it.
LoopFanout(s) ==
  /\ loop[s] = "run"
  /\ Sendable(s)
  /\ Take(s)
  /\ queue' = [c \in Clients |->
       IF c \in clients[s] /\ HasRoom(c)
       THEN Append(queue[c], Head(messages[s])) ELSE queue[c]]
  /\ UNCHANGED <<connVars, subscribers, loopVars, natsVars,
                 handlerVars, delivered>>

\* case est := <-subscriber.connEstablished: subscribe again.
LoopReestablish(s) ==
  /\ loop[s] = "run"
  /\ connEstablished[s]
  /\ connEstablished' = [connEstablished EXCEPT ![s] = FALSE]
  /\ \/ /\ ~natsClosed
        /\ gen' = [gen EXCEPT ![s] = 2]
        /\ live' = live \cup {<<s, 2>>}
        /\ UNCHANGED loop
     \/ /\ loop' = [loop EXCEPT ![s] = "failing"]
        /\ UNCHANGED <<gen, live>>
  /\ UNCHANGED <<connVars, subscribers, made, topic, clients, errors,
                 messages, pending, published, deliveries, handlerVars, queue, delivered>>

\* Subscribing again has failed: DeleteSubscriber, one error, return.
LoopGiveUp(s) ==
  /\ loop[s] = "failing"
  /\ DeleteSubscriber(s)
  /\ loop' = [loop EXCEPT ![s] = "exited"]
  /\ errors' = [errors EXCEPT ![s] = TRUE]
  /\ UNCHANGED <<connVars, made, topic, gen, clients, connEstablished,
                 messages, published, handlerVars, queue, delivered>>

-----------------------------------------------------------------------------
(* NATS *)

\* JetStream stores a message and pushes it to every live subscription.
Publish(t) ==
  LET m == published[t] + 1
      Gets(h) == h \in live /\ topic[h[1]] = t IN
  /\ m <= MaxPublished
  /\ published' = [published EXCEPT ![t] = m]
  /\ pending' = [h \in Handle |->
       IF Gets(h) THEN Append(pending[h], [seq |-> m, num |-> 1]) ELSE pending[h]]
  /\ deliveries' = [h \in Handle |->
       IF Gets(h) THEN [deliveries[h] EXCEPT ![m] = 1] ELSE deliveries[h]]
  /\ UNCHANGED <<connVars, subscribers, loopVars, messages, live,
                 handlerVars, queue, delivered>>

Repeated == {r \in Handle \X (1 .. MaxPublished) : deliveries[r[1]][r[2]] > 1}

\* AckWait is over: the callback has not ended yet, or the Ack that nats.go sends
\* when it returns was lost or late (any of them may be: none is remembered).
\* The message is pushed again, behind what has been pushed since.
Redeliver(h, m) ==
  /\ h \in live
  /\ deliveries[h][m] \in 1 .. MaxDeliveries - 1
  /\ Cardinality(Repeated \ {<<h, m>>}) < MaxRepeated
  /\ deliveries' = [deliveries EXCEPT ![h][m] = @ + 1]
  /\ pending' = [pending EXCEPT ![h] = Append(@, [seq |-> m, num |-> deliveries[h][m] + 1])]
  /\ UNCHANGED <<connVars, subscribers, loopVars, messages, live, published,
                 handlerVars, queue, delivered>>

\* Mutant of PassOn: each callback sends from a goroutine of its own.
PassOnAny(h) ==
  \E i \in DOMAIN pending[h] :
    /\ messages' = [messages EXCEPT ![h[1]] = Append(@, pending[h][i])]
    /\ pending' = [pending EXCEPT ![h] = SubSeq(@, 1, i - 1) \o SubSeq(@, i + 1, Len(@))]

\* subscriber.messages <- data: one callback of a subscription after the other.
PassOn(h) ==
  /\ messages' = [messages EXCEPT ![h[1]] = Append(@, Head(pending[h]))]
  /\ pending' = [pending EXCEPT ![h] = Tail(@)]

\* The callback of handle h.  It only logs the numbers in Metadata.
Callback(h) ==
  /\ pending[h] # <<>>
  /\ Len(messages[h[1]]) < MessagesCap
  /\ PassOn(h)
  /\ UNCHANGED <<connVars, subscribers, loopVars, live, published, deliveries,
                 handlerVars, queue, delivered>>

-----------------------------------------------------------------------------
(* Request handlers *)

\* The peer goes away.  net/http fires CloseNotify once, and not at all after
\* the connection has been hijacked for a websocket.
Disconnect(c) ==
  /\ c \notin gone
  /\ pc[c] \notin {"idle", "done", "refused"}
  /\ gone' = gone \cup {c}
  /\ closeNotify' = IF pc[c] = "ws" THEN closeNotify
                    ELSE [closeNotify EXCEPT ![c] = "ready"]
  /\ UNCHANGED <<connVars, subscribers, loopVars, messages, natsVars,
                 pc, subscriber, queue, delivered>>

\* gin's Context.Stream polls the same CloseNotify channel before each step
\* and returns, without calling the step, when it finds it ready.
StreamPoll(c) ==
  /\ IF closeNotify[c] = "ready"
     THEN /\ Goto(c, "stream", "done")
          /\ closeNotify' = [closeNotify EXCEPT ![c] = "taken"]
     ELSE /\ Goto(c, "stream", "select")
          /\ UNCHANGED closeNotify
  /\ UNCHANGED <<connVars, subscribers, loopVars, messages, natsVars,
                 subscriber, gone, queue, delivered>>

\* case <-clientGone (SSE and websocket)
ClientGone(c) ==
  /\ pc[c] \in {"select", "ws"}
  /\ closeNotify[c] = "ready"
  /\ closeNotify' = [closeNotify EXCEPT ![c] = "taken"]
  /\ pc' = [pc EXCEPT ![c] = "unregister"]
  /\ UNCHANGED <<connVars, subscribers, loopVars, messages, natsVars,
                 subscriber, gone, queue, delivered>>

\* case message := <-queue: write it.  The SSE step returns to gin, whose
\* Render panics if the write to a peer that has left fails; the websocket
\* loop ignores the result of WriteMessage.
WriteMessage(c) ==
  /\ queue[c] # <<>>
  /\ queue' = [queue EXCEPT ![c] = Tail(@)]
  /\ delivered' = [delivered EXCEPT ![c] = Append(@, Head(queue[c]))]
  /\ \/ Goto(c, "select", "stream")
     \/ Goto(c, "select", "done") /\ c \in gone
     \/ Goto(c, "ws", "ws")
  /\ UNCHANGED <<connVars, subscribers, loopVars, messages, natsVars,
                 subscriber, closeNotify, gone>>

\* case <-subscriber.errors: return
SubscriberError(c) ==
  /\ pc[c] \in {"select", "ws"}
  /\ errors[subscriber[c]]
  /\ errors' = [errors EXCEPT ![subscriber[c]] = FALSE]
  /\ pc' = [pc EXCEPT ![c] = "done"]
  /\ UNCHANGED <<connVars, subscribers, made, topic, gen, loop, clients,
                 connEstablished, messages, natsVars,
                 subscriber, closeNotify, gone, queue, delivered>>

\* websocket.Upgrade: on failure the handler returns at once.
Upgrade(c) ==
  /\ Goto(c, "upgrade", "ws") \/ Goto(c, "upgrade", "done")
  /\ UNCHANGED <<connVars, subscribers, loopVars, messages, natsVars,
                 subscriber, closeNotify, gone, queue, delivered>>

-----------------------------------------------------------------------------
Connection == ConnectDial \/ ConnectNotify
Loop(s) ==
  \/ \E c \in Clients : LoopAdd(s, c) \/ LoopRemove(s, c)
  \/ LoopTeardown(s) \/ LoopFanout(s) \/ LoopReestablish(s) \/ LoopGiveUp(s)
Handler(c) ==
  StreamPoll(c) \/ ClientGone(c) \/ WriteMessage(c) \/ SubscriberError(c) \/ Upgrade(c)
GetSubscriber(c) ==
  GetSubscriberFound(c) \/ GetSubscriberNew(c) \/ GetSubscriberFails(c)

Next ==
  \/ Connection
  \/ ConnectionClosed
  \/ \E t \in Topics : Publish(t)
  \/ \E h \in Handle : Callback(h) \/ \E m \in 1 .. MaxPublished : Redeliver(h, m)
  \/ \E s \in Subs : Loop(s)
  \/ \E c \in Clients : GetSubscriber(c) \/ Disconnect(c) \/ Handler(c)

Spec == Init /\ [][Next]_vars

\* Goroutines that are runnable are scheduled.  Requests, disconnects and
\* publications need not happen, and a write to a slow client may block for
\* ever: WriteMessage and Upgrade are not fair.
Fairness ==
  /\ WF_vars(Connection)
  /\ \A s \in Subs :
       /\ WF_vars(LoopTeardown(s)) /\ WF_vars(LoopFanout(s))
       /\ WF_vars(LoopReestablish(s)) /\ WF_vars(LoopGiveUp(s))
       /\ \A c \in Clients : WF_vars(LoopAdd(s, c)) /\ WF_vars(LoopRemove(s, c))
  /\ \A h \in Handle : WF_vars(Callback(h))
  /\ \A c \in Clients : WF_vars(StreamPoll(c)) /\ WF_vars(ClientGone(c))

FairSpec == Spec /\ Fairness

-----------------------------------------------------------------------------
(* Properties *)

TypeOK ==
  /\ connPc \in {"dial", "check", "up"} /\ natsClosed \in BOOLEAN
  /\ subscribers \in [Topics -> Subs \cup {None}]
  /\ made \in 0 .. MaxSubs
  /\ topic \in [Subs -> Topics \cup {None}]
  /\ loop \in [Subs -> LoopStates]
  /\ gen \in [Subs -> 0 .. 2]
  /\ clients \in [Subs -> SUBSET Clients]
  /\ messages \in [Subs -> Seq(Message)]
  /\ \A s \in Subs : Len(messages[s]) <= MessagesCap
  /\ connEstablished \in [Subs -> BOOLEAN]
  /\ errors \in [Subs -> BOOLEAN]
  /\ live \subseteq Handle
  /\ pending \in [Handle -> Seq(Message)]
  /\ published \in [Topics -> 0 .. MaxPublished]
  /\ deliveries \in [Handle -> [1 .. MaxPublished -> 0 .. MaxDeliveries]]
  /\ pc \in [Clients -> HandlerStates]
  /\ subscriber \in [Clients -> Subs \cup {None}]
  /\ queue \in [Clients -> Seq(Message)]
  /\ \A c \in Clients : Len(queue[c]) <= QueueLen
  /\ closeNotify \in [Clients -> {"armed", "ready", "taken"}]
  /\ gone \subseteq Clients
  /\ delivered \in [Clients -> Seq(Message)]

Running(s) == loop[s] \in {"run", "closing", "failing"}
Serving(c) == pc[c] \in {"stream", "select", "upgrade", "ws", "unregister"}

\* Two loops never run for the same topic, whatever requests, teardowns and a
\* closed connection do to the map between them (GetSubscriber, DeleteSubscriber).
OneLoopPerTopic ==
  \A r, s \in Subs : Running(r) /\ Running(s) /\ topic[r] = topic[s] => r = s

\* DeleteSubscriber deletes by topic: still, the entry of a subscriber whose
\* subscription is valid goes only when that subscriber's own loop returns.
OwnEntryOnly ==
  [][\A t \in Topics, s \in Subs :
       subscribers[t] = s /\ IsValid(s) /\ subscribers'[t] # s
         => loop'[s] = "exited"]_vars

\* A handler that is streaming, or about to leave the client list, has a loop
\* that still serves it: its unregistration cannot wait for a dead loop.
ServedWhileStreaming ==
  \A c \in Clients : Serving(c) =>
    /\ c \in clients[subscriber[c]]
    /\ loop[subscriber[c]] = "run"

\* "No more clients to service, fully cleanup" (main.go:254): a loop that has
\* returned leaves no NATS subscription behind.
FullCleanup ==
  \A h \in Handle : loop[h[1]] = "exited" => h \notin live

\* "Subscriber non-blocking broker" (main.go:55): clients that never read do not
\* back up to NATS, every message handed to a callback gets past it while the
\* loop runs.
NonBlocking ==
  \A h \in Handle :
    (pending[h] # <<>>) ~> (pending[h] = <<>> \/ loop[h[1]] # "run")

\* A handler that has seen its client leave is eventually off the list and done.
UnregisterCompletes ==
  \A c \in Clients : (pc[c] = "unregister") ~> (pc[c] = "done")

\* "an endless stream of data for connected clients" (events/README.md): a
\* client that was given a subscriber gets registered with it.
RegisterCompletes ==
  \A c \in Clients : (pc[c] = "register") ~> (pc[c] # "register")

\* The service as its clients see it: what JetStream delivers to it, each gets at
\* most once and in the order of the callbacks.  A message a client gets twice,
\* or after a newer one, has been delivered to the service again.
Feed == INSTANCE TopicFeed
FeedSpec == Feed!Spec

-----------------------------------------------------------------------------
(* The inductive invariant behind OneLoopPerTopic, OwnEntryOnly,           *)
(* ServedWhileStreaming and FullCleanup (proved in EventsBrokerProofs).    *)

\* Subscribers are numbered in the order they are made.
Numbering ==
  \A s \in Subs :
    /\ loop[s] = "none" <=> s > made
    /\ s <= made => topic[s] \in Topics
    /\ Running(s) => gen[s] \in {1, 2}

\* While the connection is open, the map leads to every running loop, and the
\* subscription of that loop is valid; afterwards nothing is.
RunningIsFound ==
  /\ ~natsClosed => \A s \in Subs : Running(s) =>
                      subscribers[topic[s]] = s /\ IsValid(s)
  /\ natsClosed => live = {}

\* What the map holds has been made for that topic.
MapMatchesTopic ==
  \A t \in Topics : subscribers[t] # None =>
    subscribers[t] <= made /\ topic[subscribers[t]] = t

\* A handler past GetSubscriber has a subscriber that has been made.
HandlersHaveSubscriber ==
  \A c \in Clients : pc[c] \notin {"idle", "refused"} =>
    subscriber[c] \in Subs /\ subscriber[c] <= made

\* Without requests before Connect lets go of the map, no loop is ever asked to
\* subscribe again.
NeverReestablished ==
  ReadyFirst =>
    /\ connPc # "up" => made = 0 /\ \A t \in Topics : subscribers[t] = None
    /\ \A s \in Subs : ~connEstablished[s] /\ loop[s] # "failing"
    /\ \A h \in live : h[2] = gen[h[1]]

\* A handle is valid only for a subscriber that has been made, and after
\* start-up only while its loop is running.
HandlesOfRunning ==
  \A h \in live : h[1] <= made /\ (ReadyFirst => Running(h[1]))

IInv ==
  /\ TypeOK /\ Numbering /\ OneLoopPerTopic /\ RunningIsFound
  /\ MapMatchesTopic /\ HandlersHaveSubscriber /\ NeverReestablished
  /\ HandlesOfRunning /\ (ReadyFirst => ServedWhileStreaming)

-----------------------------------------------------------------------------
(* The invariant behind FeedSpec (proved in EventsFeedProofs): a delivery  *)
(* goes from the callback's queue to messages, to a client's queue, to the *)
(* client, and is nowhere ahead of one that it has to follow.              *)

Increasing(q) == \A i, j \in DOMAIN q : i < j => Feed!Follows(q[j], q[i])
Before(p, q) == \A i \in DOMAIN p, j \in DOMAIN q : Feed!Follows(q[j], p[i])
Within(q, n) == \A i \in DOMAIN q : q[i].seq \in 1 .. n
Callbacks(s) == pending[<<s, 1>>]

\* A subscriber subscribes once.
FirstHandles ==
  /\ \A h \in live : h[2] = 1
  /\ \A s \in Subs : pending[<<s, 2>>] = <<>>

Supplied(s) == IF s <= made THEN published[topic[s]] ELSE 0

\* Of messages 1 .. n, each m has been pushed count[m] times, or a number of
\* times that is forgotten (0).  What q holds has been pushed: what JetStream
\* pushes next, for the first time or again, follows all of it.
OneOf(d, n, count) == d.seq \in 1 .. n /\ (count[d.seq] = 0 \/ d.num <= count[d.seq])
AllOf(q, n, count) == \A i \in DOMAIN q : OneOf(q[i], n, count)
Pushed(q, s) == AllOf(q, Supplied(s), deliveries[<<s, 1>>])

\* What a subscriber has still to send, from what has been pushed so far.
SupplyOrder ==
  \A s \in Subs :
    /\ Increasing(messages[s]) /\ Increasing(Callbacks(s))
    /\ Before(messages[s], Callbacks(s))
    /\ Pushed(messages[s], s) /\ Pushed(Callbacks(s), s)
    /\ \A m \in 1 .. MaxPublished : deliveries[<<s, 1>>][m] > 0 => m <= Supplied(s)

\* What a client has been sent; nothing before it is on a list of clients.
ClientOrder ==
  \A c \in Clients :
    /\ Increasing(queue[c]) /\ Before(delivered[c], queue[c])
    /\ Within(queue[c], published[TopicOf[c]])
    /\ Within(delivered[c], published[TopicOf[c]])
    /\ pc[c] \in {"idle", "register", "refused"} => queue[c] = <<>> /\ delivered[c] = <<>>

\* A client is on no list but that of its subscriber, which is of its topic.
Registered ==
  /\ \A c \in Clients : pc[c] \notin {"idle", "refused"} => topic[subscriber[c]] = TopicOf[c]
  /\ \A s \in Subs : \A c \in clients[s] :
       subscriber[c] = s /\ pc[c] \notin {"idle", "register", "refused"}

\* A registered client has been sent nothing that is still to come.
FeedOrder ==
  \A s \in Subs : \A c \in clients[s] :
    \A p \in {delivered[c], queue[c]} :
      Pushed(p, s) /\ Before(p, messages[s]) /\ Before(p, Callbacks(s))

\* After start-up what JetStream delivers passes messages and a client's queue in
\* the order in which NATS called back, and each delivery is in one place at a
\* time for each client (Subscribe's callback, the loop of Start, the handlers).
InOrder ==
  ReadyFirst => FirstHandles /\ SupplyOrder /\ ClientOrder /\ Registered /\ FeedOrder
=============================================================================
