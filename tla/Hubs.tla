-------------------------------- MODULE Hubs --------------------------------
(***************************************************************************)
(* pub-hub (src/pub-hub/main.go) and control-hub (src/control-hub/main.go) *)
(* over one Redis, with NATS between pub-hub and the events service.  The  *)
(* posts of a device are one after the other (PublishEvents); when it      *)
(* loses its connection the handler goes on without it.  Both programs end *)
(* with log.Fatal, in the middle of what they do, and are started again.   *)
(* A call to Redis fails only while Redis is away; what it did before its  *)
(* reply was lost stays done.                                              *)
(***************************************************************************)
EXTENDS Naturals, Sequences

CONSTANTS
  Devices,
  MaxPosts,  \* bound: posts of a device
  MaxSets,   \* bound: documents the user sends, one after the other
  MaxDeliveries,  \* bound: how often JetStream delivers a post
  MaxRepeated,    \* bound: of how many posts that is more than once
  MaxDelivered,   \* bound: deliveries that a client gets
  Clients, TopicOf,  \* of the events service; the topics are devices
  Faults     \* "redis": outages; "nats": errors; "lost": connections

ASSUME HubsAssumption ==
  /\ MaxPosts \in Nat /\ MaxSets \in Nat /\ MaxDeliveries \in Nat
  /\ MaxRepeated \in Nat /\ MaxDelivered \in Nat
  /\ TopicOf \in [Clients -> Devices] /\ Devices # {}

VARIABLES
  redisUp,
  pubHub, controlHub,  \* whether the process runs
  post,       \* PostData's handler for post k of device d
  lost,       \* posts whose device waits no longer for the answer
  stream,     \* the posts published for a device
  listed,     \* the Redis hash: the post that wrote the device's entry, or 0
  set,        \* SetConfig's handler for the i-th document
  left,       \* documents whose sender waits no longer
  conf,       \* the document kept for a device, or 0
  got,        \* what GetConfig answered last
  delivered   \* to the clients of the events service: a place in the stream,
              \* and which delivery of it

pubVars == <<post, lost, stream, listed>>
controlVars == <<set, left, conf, got>>
vars == <<redisUp, pubHub, controlHub, pubVars, controlVars, delivered>>

Posts == 1 .. MaxPosts
Sets == 1 .. MaxSets
Marks == {"none", "publish", "hset", "accepted", "failed", "killed"}
SetStates == [pc : {"none", "set", "accepted", "killed"}, device : Devices]
Delivery == [seq : Nat, num : 1 .. MaxDeliveries]
PostRunning(d, k) == post[d][k] \in {"publish", "hset"}
SetRunning(i) == set[i].pc = "set"

TF == INSTANCE TopicFeed WITH
  Topics <- Devices, MaxPublished <- MaxPosts,
  published <- [d \in Devices |-> Len(stream[d])]

Init ==
  /\ redisUp = TRUE /\ pubHub = TRUE /\ controlHub = TRUE
  /\ post = [d \in Devices |-> [k \in Posts |-> "none"]] /\ lost = {} /\ left = {}
  /\ stream = [d \in Devices |-> <<>>] /\ listed = [d \in Devices |-> 0]
  /\ set = [i \in Sets |-> [pc |-> "none", device |-> CHOOSE d \in Devices : TRUE]]
  /\ conf = [d \in Devices |-> 0] /\ got = [d \in Devices |-> 0]
  /\ delivered = [c \in Clients |-> <<>>]

-----------------------------------------------------------------------------
(* Redis and the connections *)

Outage ==
  /\ "redis" \in Faults /\ redisUp' = ~redisUp
  /\ UNCHANGED <<pubHub, controlHub, pubVars, controlVars, delivered>>

Lose ==
  /\ "lost" \in Faults
  /\ \/ \E d \in Devices, k \in Posts :
          PostRunning(d, k) /\ lost' = lost \cup {<<d, k>>} /\ UNCHANGED left
     \/ \E i \in Sets : SetRunning(i) /\ left' = left \cup {i} /\ UNCHANGED lost
  /\ UNCHANGED <<redisUp, pubHub, controlHub, post, stream, listed, set, conf, got, delivered>>

-----------------------------------------------------------------------------
(* pub-hub *)

\* Without NATS init is fatal as well: the process does not start.
PubHubStarts ==
  /\ ~pubHub /\ pubHub' = TRUE
  /\ UNCHANGED <<redisUp, controlHub, pubVars, controlVars, delivered>>

\* Every second; log.Fatal takes the handlers along.
PingFails ==
  /\ pubHub /\ ~redisUp
  /\ pubHub' = FALSE
  /\ post' = [d \in Devices |-> [k \in Posts |->
               IF PostRunning(d, k) THEN "killed" ELSE post[d][k]]]
  /\ UNCHANGED <<redisUp, controlHub, lost, stream, listed, controlVars, delivered>>

\* The next post of d, whose one before is answered or given up.
Post(d, k) ==
  /\ pubHub /\ post[d][k] = "none"
  /\ \A j \in 1 .. k - 1 : post[d][j] # "none" /\ (PostRunning(d, j) => <<d, j>> \in lost)
  /\ post' = [post EXCEPT ![d][k] = "publish"]
  /\ UNCHANGED <<redisUp, pubHub, controlHub, lost, stream, listed, controlVars, delivered>>

\* Mutant of Publish: a message without acknowledgement is published again.
PublishAgain(d, k) ==
  /\ post[d][k] = "publish" /\ Len(stream[d]) < MaxPosts
  /\ stream' = [stream EXCEPT ![d] = Append(@, k)]
  /\ post' \in {post, [post EXCEPT ![d][k] = "hset"]}
  /\ UNCHANGED <<redisUp, pubHub, controlHub, lost, listed, controlVars, delivered>>

\* Mutant of Publish: the handler answers and goes on by itself.
PublishAnswers(d, k) ==
  /\ post[d][k] = "publish"
  /\ stream' = [stream EXCEPT ![d] = Append(@, k)]
  /\ post' = [post EXCEPT ![d][k] = "accepted"]
  /\ UNCHANGED <<redisUp, pubHub, controlHub, lost, listed, controlVars, delivered>>

\* js.Publish: acknowledged; or an error, with the message in the stream or not.
Publish(d, k) ==
  /\ post[d][k] = "publish"
  /\ \/ /\ stream' = [stream EXCEPT ![d] = Append(@, k)]
        /\ post' = [post EXCEPT ![d][k] = "hset"]
     \/ /\ "nats" \in Faults /\ post' = [post EXCEPT ![d][k] = "failed"]
        /\ stream' \in {stream, [stream EXCEPT ![d] = Append(@, k)]}
  /\ UNCHANGED <<redisUp, pubHub, controlHub, lost, listed, controlVars, delivered>>

\* Mutant of Update: the error is not looked at.
UpdateUnchecked(d, k) ==
  /\ post[d][k] = "hset"
  /\ post' = [post EXCEPT ![d][k] = "accepted"]
  /\ IF redisUp THEN listed' = [listed EXCEPT ![d] = k] ELSE UNCHANGED listed
  /\ UNCHANGED <<redisUp, pubHub, controlHub, lost, stream, controlVars, delivered>>

\* The command is sent again when its reply is lost, then given up.
Update(d, k) ==
  /\ post[d][k] = "hset"
  /\ IF redisUp
     THEN /\ listed' = [listed EXCEPT ![d] = k]
          /\ \/ post' = [post EXCEPT ![d][k] = "accepted"]
             \/ "redis" \in Faults /\ UNCHANGED post
     ELSE post' = [post EXCEPT ![d][k] = "failed"] /\ UNCHANGED listed
  /\ UNCHANGED <<redisUp, pubHub, controlHub, lost, stream, controlVars, delivered>>

-----------------------------------------------------------------------------
(* control-hub *)

ControlHubStarts ==
  /\ ~controlHub /\ controlHub' = TRUE
  /\ UNCHANGED <<redisUp, pubHub, pubVars, controlVars, delivered>>

\* log.Fatal in one handler ends the others and the answer it has just written.
Fatal ==
  /\ controlHub' = FALSE
  /\ set' = [i \in Sets |-> IF SetRunning(i) THEN [set[i] EXCEPT !.pc = "killed"] ELSE set[i]]

\* The user sends the next document, for one of the devices.
SetConfig(i, d) ==
  /\ controlHub /\ set[i].pc = "none"
  /\ \A j \in 1 .. i - 1 : set[j].pc # "none" /\ (SetRunning(j) => j \in left)
  /\ set' = [set EXCEPT ![i] = [pc |-> "set", device |-> d]]
  /\ UNCHANGED <<redisUp, pubHub, controlHub, pubVars, left, conf, got, delivered>>

\* Mutant of Set: the error is not looked at.
SetUnchecked(i) ==
  /\ SetRunning(i)
  /\ set' = [set EXCEPT ![i].pc = "accepted"]
  /\ IF redisUp THEN conf' = [conf EXCEPT ![set[i].device] = i] ELSE UNCHANGED conf
  /\ UNCHANGED <<redisUp, pubHub, controlHub, pubVars, left, got, delivered>>

\* The rest of SetConfig.
Set(i) ==
  /\ SetRunning(i)
  /\ IF redisUp
     THEN /\ conf' = [conf EXCEPT ![set[i].device] = i] /\ UNCHANGED controlHub
          /\ \/ set' = [set EXCEPT ![i].pc = "accepted"]
             \/ "redis" \in Faults /\ UNCHANGED set
     ELSE Fatal /\ UNCHANGED conf
  /\ UNCHANGED <<redisUp, pubHub, pubVars, left, got, delivered>>

\* Mutant of GetConfig: any error is taken for a key that is not there.
GetConfigEmpty(d) ==
  /\ controlHub
  /\ got' = [got EXCEPT ![d] = IF redisUp THEN conf[d] ELSE 0]
  /\ UNCHANGED <<redisUp, pubHub, controlHub, pubVars, left, set, conf, delivered>>

\* Mutant of GetConfig: a key that is not there is an error like the others.
GetConfigFatal(d) ==
  /\ controlHub
  /\ IF redisUp /\ conf[d] # 0
     THEN got' = [got EXCEPT ![d] = conf[d]] /\ UNCHANGED <<controlHub, set>>
     ELSE Fatal /\ UNCHANGED got
  /\ UNCHANGED <<redisUp, pubHub, pubVars, left, conf, delivered>>

\* redis.Nil is answered with an empty document and 200.
GetConfig(d) ==
  /\ controlHub
  /\ IF redisUp
     THEN got' = [got EXCEPT ![d] = conf[d]] /\ UNCHANGED <<controlHub, set>>
     ELSE Fatal /\ UNCHANGED got
  /\ UNCHANGED <<redisUp, pubHub, pubVars, left, conf, delivered>>

-----------------------------------------------------------------------------
(* What events does for a client of the device's topic: TopicFeed, which   *)
(* EventsBroker implements.                                                *)

Deliver(c, d) ==
  /\ Len(delivered[c]) < MaxDelivered /\ (d.num > 1 => d.seq <= MaxRepeated)
  /\ UNCHANGED <<redisUp, pubHub, controlHub, pubVars, controlVars>>
  /\ TF!Deliver(c, d)

-----------------------------------------------------------------------------
Handlers ==
  \/ \E d \in Devices, k \in Posts : Publish(d, k) \/ Update(d, k)
  \/ \E i \in Sets : Set(i)

Next ==
  \/ Outage \/ Lose \/ PubHubStarts \/ PingFails \/ ControlHubStarts \/ Handlers
  \/ \E d \in Devices : \/ GetConfig(d)
                        \/ \E k \in Posts : Post(d, k)
                        \/ \E i \in Sets : SetConfig(i, d)
  \/ \E c \in Clients : \E m \in DOMAIN stream[TopicOf[c]], n \in 1 .. MaxDeliveries :
       Deliver(c, [seq |-> m, num |-> n])

Spec == Init /\ [][Next]_vars

\* Kubernetes starts what has ended, NATS is there at some time, and the smoker
\* asks for its configuration again and again.
FairSpec ==
  /\ Spec /\ WF_vars(PubHubStarts) /\ WF_vars(ControlHubStarts)
  /\ \A d \in Devices : WF_vars(GetConfig(d))

-----------------------------------------------------------------------------
(* Properties *)

TypeOK ==
  /\ redisUp \in BOOLEAN /\ pubHub \in BOOLEAN /\ controlHub \in BOOLEAN
  /\ post \in [Devices -> [Posts -> Marks]]
  /\ lost \subseteq Devices \X Posts /\ left \subseteq Sets
  /\ stream \in [Devices -> Seq(Posts)] /\ listed \in [Devices -> 0 .. MaxPosts]
  /\ set \in [Sets -> SetStates]
  /\ conf \in [Devices -> 0 .. MaxSets] /\ got \in [Devices -> 0 .. MaxSets]
  /\ delivered \in [Clients -> Seq(Delivery)]

\* What PostData answers with "accepted" is in the stream, once, and its device
\* is in the list; what it answers with an error may be in the stream as well,
\* but no handler publishes twice (PostData, Update).
AcceptedOnce ==
  \A d \in Devices, k \in Posts :
    LET places == {n \in DOMAIN stream[d] : stream[d][n] = k}
    IN  /\ \A m, n \in places : m = n
        /\ post[d][k] = "accepted" => places # {} /\ listed[d] # 0

\* The last contact the list shows is never older than an accepted post's,
\* unless it was written by a handler whose device had gone (Update).
LastContactRegular ==
  \A d \in Devices, k \in Posts :
    post[d][k] = "accepted" => listed[d] >= k \/ <<d, listed[d]>> \in lost

\* From the device to the client of the events service: the readings come in the
\* device's order, but for one the device gave up and one JetStream delivers
\* again, which events passes on; neither hub makes a reading come twice, so it
\* comes again only as a later delivery of the same message (PostData, Subscribe).
EndToEnd ==
  \A c \in Clients : \A m, n \in DOMAIN delivered[c] :
    LET d == TopicOf[c]
        Reading(x) == stream[d][delivered[c][x].seq]
        Num(x) == delivered[c][x].num
    IN  m < n => /\ \/ Reading(m) <= Reading(n)
                    \/ <<d, Reading(n)>> \in lost
                    \/ Num(n) > 1
                 /\ Reading(m) = Reading(n) => Num(m) < Num(n)

\* A document that was accepted is the one kept until a later one, or one that
\* its sender gave up, replaces it (SetConfig).
ConfigKept ==
  \A i \in Sets : set[i].pc = "accepted" =>
    conf[set[i].device] >= i \/ conf[set[i].device] \in left

\* The smoker never gets an older document after a newer one, the empty one
\* included, unless its sender gave it up (GetConfig).
SeenForward ==
  [][\A d \in Devices : got'[d] < got[d] => got'[d] \in left]_vars

\* Whatever has been fatal, both programs run once Redis stays (log.Fatal).
Recovers == <>[]redisUp => <>[](pubHub /\ controlHub)

-----------------------------------------------------------------------------
(* The inductive invariant *)

\* A device begins no post before it has given up the one that still runs.
InTurn ==
  \A d \in Devices, j, k \in Posts : j < k /\ post[d][k] # "none" =>
    post[d][j] # "none" /\ (PostRunning(d, j) => <<d, j>> \in lost)

\* The stream holds what handlers have published, in order but for the lost.
StreamInv ==
  \A d \in Devices :
    /\ \A n \in DOMAIN stream[d] : post[d][stream[d][n]] \notin {"none", "publish"}
    /\ \A m, n \in DOMAIN stream[d] : m < n =>
         \/ stream[d][m] < stream[d][n]
         \/ stream[d][m] # stream[d][n] /\ <<d, stream[d][n]>> \in lost
    /\ \A k \in Posts : post[d][k] \in {"hset", "accepted"} =>
         \E n \in DOMAIN stream[d] : stream[d][n] = k

DeliveredInv ==
  \A c \in Clients :
    /\ \A n \in DOMAIN delivered[c] : delivered[c][n].seq \in DOMAIN stream[TopicOf[c]]
    /\ \A m, n \in DOMAIN delivered[c] :
         m < n => TF!Follows(delivered[c][n], delivered[c][m])

SetsInTurn ==
  \A i, j \in Sets : i < j /\ set[j].pc # "none" =>
    set[i].pc # "none" /\ (SetRunning(i) => i \in left)

\* Nobody has seen a document that nobody sent, nor one later than the one
\* kept, unless the one kept was written by a handler given up.
ConfInv ==
  \A d \in Devices :
    /\ conf[d] # 0 => set[conf[d]].pc # "none"
    /\ got[d] # 0 => set[got[d]].pc # "none"
    /\ conf[d] < got[d] => conf[d] \in left

IInv ==
  /\ TypeOK /\ InTurn /\ StreamInv /\ DeliveredInv /\ SetsInTurn /\ ConfInv
  /\ AcceptedOnce /\ LastContactRegular /\ ConfigKept
=============================================================================
