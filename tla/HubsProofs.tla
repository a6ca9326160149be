----------------------------- MODULE HubsProofs -----------------------------
(* Proofs about Hubs, for every value of its constants.                    *)
EXTENDS Hubs, SequenceTheorems, TLAPS

(* What publishing post k leaves in a stream.                              *)
LEMMA Published ==
  ASSUME NEW s \in Seq(Posts), NEW k \in Posts
  PROVE  /\ Append(s, k) \in Seq(Posts) /\ Len(s) \in Nat
         /\ DOMAIN s = 1 .. Len(s) /\ DOMAIN Append(s, k) = 1 .. Len(s) + 1
         /\ \A n \in 1 .. Len(s) : Append(s, k)[n] = s[n] /\ s[n] \in Posts
         /\ Append(s, k)[Len(s) + 1] = k
BY AppendProperties

LEMMA StreamTyped ==
  ASSUME TypeOK, NEW d \in Devices, NEW k \in Posts
  PROVE  [stream EXCEPT ![d] = Append(@, k)] \in [Devices -> Seq(Posts)]
<1>1. stream \in [Devices -> Seq(Posts)] /\ Append(stream[d], k) \in Seq(Posts)
  BY Published DEF TypeOK
<1> QED
  BY <1>1

(* One entry of a table is replaced by a number of its range.              *)
LEMMA Replaced ==
  ASSUME NEW n \in Nat, NEW D, NEW f \in [D -> 0 .. n], NEW d \in D, NEW k \in 1 .. n
  PROVE  [f EXCEPT ![d] = k] \in [D -> 0 .. n]
OBVIOUS

(* One handler goes on, the others stay where they are.                    *)
LEMMA PostStep ==
  ASSUME TypeOK, NEW d \in Devices, NEW k \in Posts, NEW v \in Marks,
         post' = [post EXCEPT ![d][k] = v]
  PROVE  /\ post' \in [Devices -> [Posts -> Marks]]
         /\ \A e \in Devices, j \in Posts :
              post'[e][j] = IF e = d /\ j = k THEN v ELSE post[e][j]
BY DEF TypeOK

LEMMA SetStep ==
  ASSUME TypeOK, NEW i \in Sets, NEW v \in {"none", "set", "accepted", "killed"},
         set' = [set EXCEPT ![i].pc = v]
  PROVE  /\ set' \in [Sets -> SetStates]
         /\ \A j \in Sets : /\ set'[j].device = set[j].device
                            /\ set'[j].pc = IF j = i THEN v ELSE set[j].pc
<1>1. \A j \in Sets : set[j] \in SetStates /\ set'[j] = IF j = i THEN [set[i] EXCEPT !.pc = v]
                                                        ELSE set[j]
  BY DEF TypeOK
<1>2. \A j \in Sets : /\ set'[j] \in SetStates /\ set'[j].device = set[j].device
                      /\ set'[j].pc = IF j = i THEN v ELSE set[j].pc
  BY <1>1 DEF SetStates
<1> QED
  BY <1>2 DEF TypeOK

(* What Fatal leaves of the handlers of control-hub.                       *)
LEMMA FatalSets ==
  ASSUME TypeOK, Fatal
  PROVE  /\ set' \in [Sets -> SetStates]
         /\ controlHub' = FALSE
         /\ \A i \in Sets : /\ set'[i].device = set[i].device
                            /\ set'[i].pc = IF set[i].pc = "set" THEN "killed" ELSE set[i].pc
<1>1. \A i \in Sets :
        /\ [set[i] EXCEPT !.pc = "killed"] \in SetStates
        /\ [set[i] EXCEPT !.pc = "killed"].device = set[i].device
        /\ [set[i] EXCEPT !.pc = "killed"].pc = "killed"
        /\ set[i] \in SetStates
  BY DEF TypeOK, SetStates
<1> QED
  BY <1>1 DEF Fatal, SetRunning

(* Publish, by what it changes.                                            *)
LEMMA PublishSteps ==
  ASSUME TypeOK, NEW d \in Devices, NEW k \in Posts, Publish(d, k)
  PROVE  /\ UNCHANGED <<redisUp, pubHub, controlHub, lost, listed, controlVars, delivered>>
         /\ post' \in [Devices -> [Posts -> Marks]]
         /\ \A e \in Devices, j \in Posts : e # d \/ j # k => post'[e][j] = post[e][j]
         /\ post[d][k] = "publish" /\ post'[d][k] \in {"hset", "failed"}
         /\ \/ stream' = [stream EXCEPT ![d] = Append(@, k)]
            \/ stream' = stream /\ post'[d][k] = "failed"
<1>1. CASE post' = [post EXCEPT ![d][k] = "hset"]
           /\ stream' = [stream EXCEPT ![d] = Append(@, k)]
  <2>1. "hset" \in Marks
    BY DEF Marks
  <2> QED
    BY <1>1, <2>1, PostStep DEF Publish
<1>2. CASE post' = [post EXCEPT ![d][k] = "failed"]
           /\ stream' \in {stream, [stream EXCEPT ![d] = Append(@, k)]}
  <2>1. "failed" \in Marks
    BY DEF Marks
  <2> QED
    BY <1>2, <2>1, PostStep DEF Publish
<1> QED
  BY <1>1, <1>2 DEF Publish

(* Update, by what it changes.                                             *)
LEMMA UpdateSteps ==
  ASSUME TypeOK, NEW d \in Devices, NEW k \in Posts, Update(d, k)
  PROVE  /\ UNCHANGED <<redisUp, pubHub, controlHub, lost, stream, controlVars, delivered>>
         /\ post' \in [Devices -> [Posts -> Marks]]
         /\ \A e \in Devices, j \in Posts : e # d \/ j # k => post'[e][j] = post[e][j]
         /\ post[d][k] = "hset" /\ post'[d][k] \in {"hset", "accepted", "failed"}
         /\ \/ listed' = [listed EXCEPT ![d] = k]
            \/ listed' = listed /\ post'[d][k] = "failed"
<1>1. ASSUME NEW v \in {"accepted", "failed"}, post' = [post EXCEPT ![d][k] = v]
      PROVE  /\ post' \in [Devices -> [Posts -> Marks]]
             /\ \A e \in Devices, j \in Posts : e # d \/ j # k => post'[e][j] = post[e][j]
             /\ post'[d][k] = v
  <2>1. v \in Marks
    BY DEF Marks
  <2> QED
    BY <1>1, <2>1, PostStep
<1>2. CASE redisUp /\ UNCHANGED post
  BY <1>2 DEF Update, TypeOK
<1>3. CASE redisUp /\ post' = [post EXCEPT ![d][k] = "accepted"]
  BY <1>1, <1>3 DEF Update
<1>4. CASE ~redisUp
  BY <1>1, <1>4 DEF Update
<1> QED
  BY <1>2, <1>3, <1>4 DEF Update

(* Set, by what it changes.                                                *)
LEMMA SetSteps ==
  ASSUME TypeOK, NEW i \in Sets, Set(i)
  PROVE  /\ UNCHANGED <<redisUp, pubHub, pubVars, left, got, delivered>>
         /\ set' \in [Sets -> SetStates] /\ controlHub' \in BOOLEAN
         /\ set[i].pc = "set" /\ set[i].device \in Devices
         /\ \A j \in Sets :
              /\ set'[j].device = set[j].device
              /\ \/ set'[j].pc = set[j].pc
                 \/ set[j].pc = "set" /\ set'[j].pc \in {"accepted", "killed"}
         /\ \/ /\ conf' = [conf EXCEPT ![set[i].device] = i]
               /\ \A j \in Sets : j # i => set'[j].pc = set[j].pc
            \/ conf' = conf /\ \A j \in Sets : set'[j].pc = "accepted" => set[j].pc = "accepted"
<1>1. set[i].pc = "set" /\ set[i].device \in Devices
  BY DEF Set, SetRunning, TypeOK, SetStates
<1>2. CASE redisUp /\ UNCHANGED set
  BY <1>1, <1>2 DEF Set, TypeOK
<1>3. CASE redisUp /\ set' = [set EXCEPT ![i].pc = "accepted"]
  <2>1. /\ set' \in [Sets -> SetStates]
        /\ \A j \in Sets : /\ set'[j].device = set[j].device
                           /\ set'[j].pc = IF j = i THEN "accepted" ELSE set[j].pc
    BY <1>3, SetStep
  <2>2. controlHub' \in BOOLEAN
    BY <1>3 DEF Set, TypeOK
  <2> QED
    BY <1>1, <1>3, <2>1, <2>2 DEF Set
<1>4. CASE ~redisUp
  BY <1>1, <1>4, FatalSets DEF Set
<1> QED
  BY <1>2, <1>3, <1>4 DEF Set

(* The initial state has the types.                                        *)
LEMMA InitTyped == Init => TypeOK
<1> SUFFICES ASSUME Init
             PROVE  TypeOK
  OBVIOUS
<1> USE HubsAssumption DEF Init, Posts, Sets
<1>1. (CHOOSE d \in Devices : TRUE) \in Devices
  OBVIOUS
<1>2. set \in [Sets -> SetStates]
  BY <1>1 DEF SetStates
<1>3. /\ post \in [Devices -> [Posts -> Marks]]
      /\ lost \subseteq Devices \X Posts /\ left \subseteq Sets
      /\ listed \in [Devices -> 0 .. MaxPosts]
      /\ conf \in [Devices -> 0 .. MaxSets] /\ got \in [Devices -> 0 .. MaxSets]
      /\ redisUp \in BOOLEAN /\ pubHub \in BOOLEAN /\ controlHub \in BOOLEAN
  BY DEF Marks
<1>4. /\ stream \in [Devices -> Seq(Posts)]
      /\ delivered \in [Clients -> Seq(Delivery)]
  OBVIOUS
<1> QED
  BY <1>2, <1>3, <1>4 DEF TypeOK

(* Every action keeps the types.                                           *)
LEMMA NextTyped == TypeOK /\ [Next]_vars => TypeOK'
<1> SUFFICES ASSUME TypeOK, [Next]_vars
             PROVE  TypeOK'
  OBVIOUS
<1> USE HubsAssumption DEF pubVars, controlVars
<1>1. CASE Outage
  BY <1>1 DEF Outage, TypeOK
<1>2. CASE Lose
  BY <1>2 DEF Lose, TypeOK
<1>3. CASE PubHubStarts
  BY <1>3 DEF PubHubStarts, TypeOK
<1>4. CASE PingFails
  BY <1>4 DEF PingFails, TypeOK, Marks
<1>5. CASE ControlHubStarts
  BY <1>5 DEF ControlHubStarts, TypeOK
<1>6. ASSUME NEW d \in Devices, NEW k \in Posts, Publish(d, k)
      PROVE  TypeOK'
  <2>1. /\ UNCHANGED <<redisUp, pubHub, controlHub, lost, listed, controlVars, delivered>>
        /\ post' \in [Devices -> [Posts -> Marks]]
        /\ stream' = stream \/ stream' = [stream EXCEPT ![d] = Append(@, k)]
    BY <1>6, PublishSteps
  <2>2. [stream EXCEPT ![d] = Append(@, k)] \in [Devices -> Seq(Posts)]
    BY StreamTyped
  <2>3. stream' \in [Devices -> Seq(Posts)]
    BY <2>1, <2>2 DEF TypeOK
  <2> QED
    BY <2>1, <2>3 DEF TypeOK
<1>7. ASSUME NEW d \in Devices, NEW k \in Posts, Update(d, k)
      PROVE  TypeOK'
  <2>1. /\ UNCHANGED <<redisUp, pubHub, controlHub, lost, stream, controlVars, delivered>>
        /\ post' \in [Devices -> [Posts -> Marks]]
        /\ listed' = listed \/ listed' = [listed EXCEPT ![d] = k]
    BY <1>7, UpdateSteps
  <2>2. listed \in [Devices -> 0 .. MaxPosts] /\ k \in 1 .. MaxPosts
    BY DEF TypeOK, Posts
  <2>3. listed' \in [Devices -> 0 .. MaxPosts]
    BY <2>1, <2>2, Replaced
  <2> QED
    BY <2>1, <2>3 DEF TypeOK
<1>8. ASSUME NEW i \in Sets, Set(i)
      PROVE  TypeOK'
  <2>1. /\ UNCHANGED <<redisUp, pubHub, pubVars, left, got, delivered>>
        /\ set' \in [Sets -> SetStates] /\ controlHub' \in BOOLEAN
        /\ set[i].device \in Devices
        /\ conf' = conf \/ conf' = [conf EXCEPT ![set[i].device] = i]
    BY <1>8, SetSteps
  <2>2. conf \in [Devices -> 0 .. MaxSets] /\ i \in 1 .. MaxSets
    BY DEF TypeOK, Sets
  <2>3. conf' \in [Devices -> 0 .. MaxSets]
    BY <2>1, <2>2, Replaced
  <2> QED
    BY <2>1, <2>3 DEF TypeOK
<1>9. ASSUME NEW d \in Devices, GetConfig(d)
      PROVE  TypeOK'
  <2>1. /\ UNCHANGED <<redisUp, pubHub, pubVars, left, conf, delivered>>
        /\ got' \in {got, [got EXCEPT ![d] = conf[d]]}
        /\ UNCHANGED <<controlHub, set>> \/ Fatal
    BY <1>9 DEF GetConfig
  <2>2. set' \in [Sets -> SetStates] /\ controlHub' \in BOOLEAN
    BY <2>1, FatalSets DEF TypeOK
  <2>3. got' \in [Devices -> 0 .. MaxSets]
    BY <2>1 DEF TypeOK
  <2> QED
    BY <2>1, <2>2, <2>3 DEF TypeOK
<1>10. ASSUME NEW d \in Devices, NEW k \in Posts, Post(d, k)
       PROVE  TypeOK'
  BY <1>10 DEF Post, TypeOK, Marks
<1>11. ASSUME NEW i \in Sets, NEW d \in Devices, SetConfig(i, d)
       PROVE  TypeOK'
  BY <1>11 DEF SetConfig, TypeOK, SetStates
<1>12. ASSUME NEW c \in Clients, NEW m \in DOMAIN stream[TopicOf[c]],
              NEW n \in 1 .. MaxDeliveries, Deliver(c, [seq |-> m, num |-> n])
       PROVE  TypeOK'
  <2> DEFINE d == [seq |-> m, num |-> n]
  <2>1. m \in Nat
    BY HubsAssumption DEF TypeOK
  <2>2. d \in Delivery /\ delivered[c] \in Seq(Delivery)
    BY <2>1 DEF TypeOK, Delivery
  <2>3. Append(delivered[c], d) \in Seq(Delivery)
    BY <2>2
  <2>4. delivered' \in [Clients -> Seq(Delivery)]
    BY <1>12, <2>3 DEF Deliver, TF!Deliver, TypeOK
  <2>5. UNCHANGED <<redisUp, pubHub, controlHub, pubVars, controlVars>>
    BY <1>12 DEF Deliver
  <2> QED
    BY <2>4, <2>5 DEF TypeOK
<1>13. CASE UNCHANGED vars
  BY <1>13 DEF vars, TypeOK
<1> QED
  BY <1>1, <1>2, <1>3, <1>4, <1>5, <1>6, <1>7, <1>8, <1>9, <1>10, <1>11, <1>12, <1>13
     DEF Next, Handlers

-----------------------------------------------------------------------------
(* The invariant.  A step that only lets handlers end and devices go       *)
(* away keeps what is said of the posts.                                   *)

LEMMA StreamPosts ==
  ASSUME TypeOK
  PROVE  \A d \in Devices : \A n \in DOMAIN stream[d] : stream[d][n] \in Posts
<1>1. \A d \in Devices : stream[d] \in Seq(Posts)
  BY DEF TypeOK
<1> QED
  BY <1>1

Ends ==
  /\ lost \subseteq lost'
  /\ \A d \in Devices, k \in Posts :
       \/ post'[d][k] = post[d][k]
       \/ post[d][k] \in {"publish", "hset"} /\ post'[d][k] \in {"failed", "killed"}

LEMMA EndsKeeps ==
  ASSUME TypeOK, InTurn, StreamInv, LastContactRegular, AcceptedOnce, Ends,
         UNCHANGED <<stream, listed>>
  PROVE  InTurn' /\ StreamInv' /\ LastContactRegular' /\ AcceptedOnce'
<1>1. InTurn'
  BY DEF InTurn, Ends, PostRunning
<1>2. StreamInv'
  BY StreamPosts DEF StreamInv, Ends
<1>3. LastContactRegular'
  BY DEF LastContactRegular, Ends
<1>4. AcceptedOnce'
  BY DEF AcceptedOnce, Ends
<1> QED
  BY <1>1, <1>2, <1>3, <1>4

(* A stream in which a later place holds another post holds none twice.    *)
LEMMA NoneTwice ==
  ASSUME NEW s \in Seq(Posts)
  PROVE  (\A m, n \in DOMAIN s : m < n => s[m] < s[n] \/ s[m] # s[n])
         => \A m, n \in DOMAIN s : s[m] = s[n] => m = n
<1> SUFFICES ASSUME \A m, n \in DOMAIN s : m < n => s[m] < s[n] \/ s[m] # s[n]
             PROVE  \A m, n \in DOMAIN s : s[m] = s[n] => m = n
  OBVIOUS
<1>1. /\ Len(s) \in Nat /\ DOMAIN s = 1 .. Len(s)
      /\ \A n \in DOMAIN s : s[n] \in Posts
  OBVIOUS
<1>2. \A m, n \in DOMAIN s : m < n => s[m] # s[n]
  BY <1>1, HubsAssumption DEF Posts
<1> QED
  BY <1>1, <1>2

(* A post that begins.                                                     *)
LEMMA PostKeeps ==
  ASSUME TypeOK, InTurn, StreamInv, LastContactRegular, AcceptedOnce,
         NEW d \in Devices, NEW k \in Posts, Post(d, k)
  PROVE  InTurn' /\ StreamInv' /\ LastContactRegular' /\ AcceptedOnce'
<1>1. UNCHANGED <<lost, stream, listed>> /\ post[d][k] = "none" /\ post'[d][k] = "publish"
  BY DEF Post, TypeOK
<1>2. \A e \in Devices, j \in Posts : e # d \/ j # k => post'[e][j] = post[e][j]
  BY DEF Post, TypeOK
<1>3. \A j \in Posts : j < k =>
        post[d][j] # "none" /\ (PostRunning(d, j) => <<d, j>> \in lost)
  BY HubsAssumption DEF Post, Posts
<1>4. InTurn'
  <2> SUFFICES ASSUME NEW e \in Devices, NEW i \in Posts, NEW j \in Posts,
                      i < j, post'[e][j] # "none"
               PROVE  post'[e][i] # "none" /\ (PostRunning(e, i)' => <<e, i>> \in lost')
    BY DEF InTurn
  <2>1. CASE e = d /\ j = k
    <3>1. i # k /\ post'[e][i] = post[e][i]
      BY <1>2, <2>1, HubsAssumption DEF Posts
    <3> QED
      BY <1>1, <1>3, <2>1, <3>1 DEF PostRunning
  <2>2. CASE e # d \/ j # k
    <3>1. post[e][j] # "none"
      BY <1>2, <2>2
    <3>2. post[e][i] # "none" /\ (PostRunning(e, i) => <<e, i>> \in lost)
      BY <3>1 DEF InTurn
    <3>3. post'[e][i] = post[e][i]
      BY <1>1, <1>2, <3>2
    <3> QED
      BY <1>1, <3>2, <3>3 DEF PostRunning
  <2> QED
    BY <2>1, <2>2
<1>5. StreamInv'
  <2> SUFFICES ASSUME NEW e \in Devices
               PROVE  /\ \A n \in DOMAIN stream'[e] :
                           post'[e][stream'[e][n]] \notin {"none", "publish"}
                      /\ \A m, n \in DOMAIN stream'[e] : m < n =>
                           \/ stream'[e][m] < stream'[e][n]
                           \/ stream'[e][m] # stream'[e][n] /\ <<e, stream'[e][n]>> \in lost'
                      /\ \A j \in Posts : post'[e][j] \in {"hset", "accepted"} =>
                           \E n \in DOMAIN stream'[e] : stream'[e][n] = j
    BY DEF StreamInv
  <2>1. \A n \in DOMAIN stream[e] : stream[e][n] \in Posts
    <3>1. stream[e] \in Seq(Posts)
      BY DEF TypeOK
    <3> QED
      BY <3>1, ElementOfSeq, LenProperties
  <2> QED
    BY <1>1, <1>2, <2>1 DEF StreamInv
<1>6. LastContactRegular' /\ AcceptedOnce'
  BY <1>1, <1>2 DEF LastContactRegular, AcceptedOnce
<1> QED
  BY <1>4, <1>5, <1>6

(* A post that is published: at the end of the stream, where it was not.   *)
LEMMA PublishKeeps ==
  ASSUME TypeOK, InTurn, StreamInv, LastContactRegular, AcceptedOnce,
         NEW d \in Devices, NEW k \in Posts, Publish(d, k),
         stream' = [stream EXCEPT ![d] = Append(@, k)]
  PROVE  InTurn' /\ StreamInv' /\ LastContactRegular' /\ AcceptedOnce'
<1> DEFINE s == stream[d]
           l == Len(s)
<1>1. /\ UNCHANGED <<lost, listed>> /\ post[d][k] = "publish"
      /\ post'[d][k] \in {"hset", "failed"}
      /\ \A e \in Devices, j \in Posts : e # d \/ j # k => post'[e][j] = post[e][j]
  BY PublishSteps
<1>2. /\ s \in Seq(Posts) /\ stream' \in [Devices -> Seq(Posts)]
      /\ stream'[d] = Append(s, k)
      /\ \A e \in Devices : e # d => stream'[e] = stream[e]
  <2>1. stream' \in [Devices -> Seq(Posts)]
    BY StreamTyped
  <2> QED
    BY <2>1 DEF TypeOK
<1>3. /\ l \in Nat /\ DOMAIN s = 1 .. l /\ DOMAIN stream'[d] = 1 .. l + 1
      /\ \A n \in 1 .. l : stream'[d][n] = s[n] /\ s[n] \in Posts
      /\ stream'[d][l + 1] = k
  BY <1>2, Published
<1>4. InTurn'
  BY <1>1 DEF InTurn, PostRunning
\* What is there comes before k in the stream: lower, or given up.
<1>5. \A n \in 1 .. l : s[n] # k /\ (s[n] < k \/ <<d, k>> \in lost)
  <2> SUFFICES ASSUME NEW n \in 1 .. l
               PROVE  s[n] # k /\ (s[n] < k \/ <<d, k>> \in lost)
    OBVIOUS
  <2>1. s[n] \in Posts /\ post[d][s[n]] \notin {"none", "publish"}
    BY <1>3 DEF StreamInv
  <2>2. s[n] # k
    BY <1>1, <2>1
  <2>3. k < s[n] => <<d, k>> \in lost
    BY <1>1, <2>1 DEF InTurn, PostRunning
  <2> QED
    BY <2>1, <2>2, <2>3, HubsAssumption DEF Posts
<1>9. \A m, n \in 1 .. l : m < n => s[m] < s[n] \/ (s[m] # s[n] /\ <<d, s[n]>> \in lost)
  <2> SUFFICES ASSUME NEW m \in 1 .. l, NEW n \in 1 .. l, m < n
               PROVE  s[m] < s[n] \/ (s[m] # s[n] /\ <<d, s[n]>> \in lost)
    OBVIOUS
  <2>1. m \in DOMAIN stream[d] /\ n \in DOMAIN stream[d]
    BY <1>3
  <2> QED
    BY <2>1 DEF StreamInv
<1>6. StreamInv'
  <2> SUFFICES ASSUME NEW e \in Devices
               PROVE
                 /\ \A n \in DOMAIN stream'[e] : post'[e][stream'[e][n]] \notin {"none", "publish"}
                 /\ \A m, n \in DOMAIN stream'[e] : m < n =>
                      \/ stream'[e][m] < stream'[e][n]
                      \/ stream'[e][m] # stream'[e][n] /\ <<e, stream'[e][n]>> \in lost'
                 /\ \A j \in Posts : post'[e][j] \in {"hset", "accepted"} =>
                      \E n \in DOMAIN stream'[e] : stream'[e][n] = j
    BY DEF StreamInv
  <2>1. CASE e # d
    <3>1. stream'[e] = stream[e] /\ stream[e] \in Seq(Posts) /\ \A j \in Posts : post'[e][j] = post[e][j]
      BY <1>1, <1>2, <2>1 DEF TypeOK
    <3>2. \A n \in DOMAIN stream[e] : stream[e][n] \in Posts
      BY <3>1
    <3> QED
      BY <1>1, <3>1, <3>2 DEF StreamInv
  <2>2. CASE e = d
    <3>1. \A n \in 1 .. l + 1 : n \in 1 .. l \/ n = l + 1
      BY <1>3
    <3>2. \A n \in DOMAIN stream'[d] : post'[d][stream'[d][n]] \notin {"none", "publish"}
      BY <1>1, <1>3, <3>1 DEF StreamInv
    <3>3. ASSUME NEW m \in 1 .. l + 1, NEW n \in 1 .. l + 1, m < n
          PROVE  \/ stream'[d][m] < stream'[d][n]
                 \/ stream'[d][m] # stream'[d][n] /\ <<d, stream'[d][n]>> \in lost'
      <4>1. m \in 1 .. l
        BY <1>3, <3>3
      <4>2. CASE n \in 1 .. l
        <5>1. s[m] < s[n] \/ (s[m] # s[n] /\ <<d, s[n]>> \in lost)
          BY <1>9, <4>1, <4>2, <3>3
        <5>2. stream'[d][m] = s[m] /\ stream'[d][n] = s[n] /\ lost' = lost
          BY <1>1, <1>3, <4>1, <4>2
        <5> QED
          BY <5>1, <5>2
      <4>3. CASE n = l + 1
        BY <1>1, <1>3, <1>5, <4>1, <4>3
      <4> QED
        BY <3>1, <4>2, <4>3
    <3>4. ASSUME NEW j \in Posts, post'[d][j] \in {"hset", "accepted"}
          PROVE  \E n \in 1 .. l + 1 : stream'[d][n] = j
      <4>1. CASE j = k
        BY <1>3, <4>1
      <4>2. CASE j # k
        <5>1. PICK n \in 1 .. l : s[n] = j
          BY <1>1, <1>3, <3>4, <4>2 DEF StreamInv
        <5> QED
          BY <1>3, <5>1
      <4> QED
        BY <4>1, <4>2
    <3> QED
      BY <1>3, <2>2, <3>2, <3>3, <3>4
  <2> QED
    BY <2>1, <2>2
<1>7. LastContactRegular'
  BY <1>1 DEF LastContactRegular
<1>8. AcceptedOnce'
  <2>1. ASSUME NEW e \in Devices
        PROVE  \A m, n \in DOMAIN stream'[e] : stream'[e][m] = stream'[e][n] => m = n
    <3>0. \A m, n \in DOMAIN stream'[e] : m < n =>
            stream'[e][m] < stream'[e][n] \/ stream'[e][m] # stream'[e][n]
      <4> SUFFICES ASSUME NEW m \in DOMAIN stream'[e], NEW n \in DOMAIN stream'[e], m < n
                   PROVE  stream'[e][m] < stream'[e][n] \/ stream'[e][m] # stream'[e][n]
        OBVIOUS
      <4>1. \/ stream'[e][m] < stream'[e][n]
            \/ stream'[e][m] # stream'[e][n] /\ <<e, stream'[e][n]>> \in lost'
        BY <1>6 DEF StreamInv
      <4> QED
        BY <4>1
    <3> DEFINE t == stream'[e]
    <3>1. t \in Seq(Posts)
      BY <1>2
    <3>2. \A m, n \in DOMAIN t : m < n => t[m] < t[n] \/ t[m] # t[n]
      BY <3>0
    <3> HIDE DEF t
    <3>3. \A m, n \in DOMAIN t : t[m] = t[n] => m = n
      BY <3>1, <3>2, NoneTwice
    <3> QED
      BY <3>3 DEF t
  <2>2. \A e \in Devices, j \in Posts : post'[e][j] = "accepted" =>
          listed'[e] # 0 /\ \E n \in DOMAIN stream'[e] : stream'[e][n] = j
    BY <1>1, <1>6 DEF AcceptedOnce, StreamInv
  <2> QED
    BY <2>1, <2>2 DEF AcceptedOnce
<1> QED
  BY <1>4, <1>6, <1>7, <1>8

(* A post that is written into the list.                                   *)
LEMMA UpdateKeeps ==
  ASSUME TypeOK, InTurn, StreamInv, LastContactRegular, AcceptedOnce,
         NEW d \in Devices, NEW k \in Posts, Update(d, k),
         listed' = [listed EXCEPT ![d] = k]
  PROVE  InTurn' /\ StreamInv' /\ LastContactRegular' /\ AcceptedOnce'
<1>1. /\ UNCHANGED <<lost, stream>> /\ post[d][k] = "hset"
      /\ post'[d][k] \in {"hset", "accepted", "failed"}
      /\ \A e \in Devices, j \in Posts : e # d \/ j # k => post'[e][j] = post[e][j]
  BY UpdateSteps
<1>2. /\ listed'[d] = k /\ \A e \in Devices : e # d => listed'[e] = listed[e]
      /\ \A e \in Devices : listed[e] \in Nat
  BY DEF TypeOK
<1>3. InTurn'
  BY <1>1 DEF InTurn, PostRunning
<1>4. StreamInv'
  BY <1>1, StreamPosts DEF StreamInv
<1>5. LastContactRegular'
  <2> SUFFICES ASSUME NEW e \in Devices, NEW j \in Posts, post'[e][j] = "accepted"
               PROVE  listed'[e] >= j \/ <<e, listed'[e]>> \in lost'
    BY DEF LastContactRegular
  <2>1. CASE e # d
    BY <1>1, <1>2, <2>1 DEF LastContactRegular
  <2>2. CASE e = d /\ j > k
    BY <1>1, <1>2, <2>2 DEF InTurn, PostRunning
  <2>3. CASE e = d /\ ~(j > k)
    BY <1>2, <2>3, HubsAssumption DEF Posts
  <2> QED
    BY <2>1, <2>2, <2>3
<1>6. AcceptedOnce'
  <2> SUFFICES ASSUME NEW e \in Devices, NEW j \in Posts
               PROVE  /\ \A m, n \in {n \in DOMAIN stream'[e] : stream'[e][n] = j} : m = n
                      /\ post'[e][j] = "accepted" =>
                           /\ {n \in DOMAIN stream'[e] : stream'[e][n] = j} # {}
                           /\ listed'[e] # 0
    BY DEF AcceptedOnce
  <2>1. \A m, n \in {n \in DOMAIN stream'[e] : stream'[e][n] = j} : m = n
    BY <1>1 DEF AcceptedOnce
  <2>2. post'[e][j] = "accepted" => {n \in DOMAIN stream'[e] : stream'[e][n] = j} # {}
    BY <1>4 DEF StreamInv
  <2>3. k # 0
    BY HubsAssumption DEF Posts
  <2>4. post'[e][j] = "accepted" => listed'[e] # 0
    <3>1. CASE e = d
      BY <1>2, <2>3, <3>1
    <3>2. CASE e # d
      BY <1>1, <1>2, <3>2 DEF AcceptedOnce
    <3> QED
      BY <3>1, <3>2
  <2> QED
    BY <2>1, <2>2, <2>4
<1> QED
  BY <1>3, <1>4, <1>5, <1>6

-----------------------------------------------------------------------------
(* The same of the documents: what is left when handlers only end.         *)

SetsEnd ==
  /\ left \subseteq left'
  /\ \A i \in Sets :
       /\ set'[i].device = set[i].device
       /\ \/ set'[i].pc = set[i].pc
          \/ set[i].pc = "set" /\ set'[i].pc = "killed"

LEMMA SetsEndKeeps ==
  ASSUME TypeOK, SetsInTurn, ConfInv, ConfigKept, SetsEnd, UNCHANGED <<conf, got>>
  PROVE  SetsInTurn' /\ ConfInv' /\ ConfigKept'
<1>1. SetsInTurn'
  BY DEF SetsInTurn, SetsEnd, SetRunning
<1>2. ConfInv'
  <2>1. \A d \in Devices : conf[d] \in Nat /\ got[d] \in Nat
                           /\ (conf[d] # 0 => conf[d] \in Sets) /\ (got[d] # 0 => got[d] \in Sets)
    BY HubsAssumption DEF TypeOK, Sets
  <2> QED
    BY <2>1 DEF ConfInv, SetsEnd
<1>3. ConfigKept'
  BY DEF ConfigKept, SetsEnd
<1> QED
  BY <1>1, <1>2, <1>3

(* A document that is sent.                                                *)
LEMMA SetConfigKeeps ==
  ASSUME TypeOK, SetsInTurn, ConfInv, ConfigKept,
         NEW i \in Sets, NEW d \in Devices, SetConfig(i, d)
  PROVE  SetsInTurn' /\ ConfInv' /\ ConfigKept'
<1>1. /\ UNCHANGED <<left, conf, got>> /\ set[i].pc = "none" /\ set'[i].pc = "set"
      /\ \A j \in Sets : j # i => set'[j] = set[j]
  BY DEF SetConfig, TypeOK
<1>2. \A j \in Sets : j < i => set[j].pc # "none" /\ (SetRunning(j) => j \in left)
  BY HubsAssumption DEF SetConfig, Sets
<1>3. SetsInTurn'
  <2> SUFFICES ASSUME NEW j \in Sets, NEW k \in Sets, j < k, set'[k].pc # "none"
               PROVE  set'[j].pc # "none" /\ (SetRunning(j)' => j \in left')
    BY DEF SetsInTurn
  <2>1. CASE k = i
    <3>1. j # i /\ set'[j] = set[j]
      BY <1>1, <2>1, HubsAssumption DEF Sets
    <3> QED
      BY <1>1, <1>2, <2>1, <3>1 DEF SetRunning
  <2>2. CASE k # i
    <3>1. set[j].pc # "none" /\ (SetRunning(j) => j \in left)
      BY <1>1, <2>2 DEF SetsInTurn
    <3>2. set'[j] = set[j]
      BY <1>1, <3>1
    <3> QED
      BY <1>1, <3>1, <3>2 DEF SetRunning
  <2> QED
    BY <2>1, <2>2
<1>4. ConfInv'
  <2>1. \A e \in Devices :
          (conf[e] # 0 => conf[e] \in Sets) /\ (got[e] # 0 => got[e] \in Sets)
    BY HubsAssumption DEF TypeOK, Sets
  <2>2. \A j \in Sets : set[j].pc # "none" => set'[j].pc # "none"
    BY <1>1
  <2> QED
    BY <1>1, <2>1, <2>2 DEF ConfInv
<1>5. ConfigKept'
  BY <1>1 DEF ConfigKept
<1> QED
  BY <1>3, <1>4, <1>5

(* A document that is kept.                                                *)
LEMMA SetKeeps ==
  ASSUME TypeOK, SetsInTurn, ConfInv, ConfigKept, NEW i \in Sets, Set(i),
         conf' = [conf EXCEPT ![set[i].device] = i]
  PROVE  SetsInTurn' /\ ConfInv' /\ ConfigKept'
<1>1. /\ UNCHANGED <<left, got>> /\ set[i].pc = "set" /\ set[i].device \in Devices
      /\ \A j \in Sets : set'[j].device = set[j].device
      /\ \A j \in Sets : set'[j].pc # "none" <=> set[j].pc # "none"
      /\ \A j \in Sets : set'[j].pc = "set" => set[j].pc = "set"
  BY SetSteps
<1>2. conf'[set[i].device] = i /\ \A e \in Devices : e # set[i].device => conf'[e] = conf[e]
  BY <1>1 DEF TypeOK
<1>3. \A e \in Devices : conf[e] \in Nat /\ got[e] \in Nat
                         /\ (conf[e] # 0 => conf[e] \in Sets) /\ (got[e] # 0 => got[e] \in Sets)
  BY HubsAssumption DEF TypeOK, Sets
<1>4. SetsInTurn'
  BY <1>1 DEF SetsInTurn, SetRunning
\* One that was sent later has been sent without waiting for this one.
<1>5. \A j \in Sets : i < j /\ set[j].pc # "none" => i \in left
  BY <1>1 DEF SetsInTurn, SetRunning
<1>6. ConfInv'
  <2> SUFFICES ASSUME NEW e \in Devices
               PROVE  /\ conf'[e] # 0 => set'[conf'[e]].pc # "none"
                      /\ got'[e] # 0 => set'[got'[e]].pc # "none"
                      /\ conf'[e] < got'[e] => conf'[e] \in left'
    BY DEF ConfInv
  <2>1. got[e] # 0 => set'[got[e]].pc # "none" /\ set[got[e]].pc # "none"
    BY <1>1, <1>3 DEF ConfInv
  <2>2. CASE e = set[i].device
    <3>1. conf'[e] = i /\ i \in Nat
      BY <1>2, <2>2, HubsAssumption DEF Sets
    <3>2. i < got[e] => i \in left
      BY <1>3, <1>5, <2>1, <3>1
    <3>3. set'[i].pc # "none"
      BY <1>1
    <3> QED
      BY <1>1, <2>1, <3>1, <3>2, <3>3
  <2>3. CASE e # set[i].device
    <3>1. conf'[e] = conf[e]
      BY <1>2, <2>3
    <3> QED
      BY <1>1, <1>3, <2>1, <3>1 DEF ConfInv
  <2> QED
    BY <2>2, <2>3
<1>7. ConfigKept'
  <2> SUFFICES ASSUME NEW j \in Sets, set'[j].pc = "accepted"
               PROVE  conf'[set'[j].device] >= j \/ conf'[set'[j].device] \in left'
    BY DEF ConfigKept
  <2>1. set[j].pc # "none" /\ set[j].device \in Devices /\ set'[j].device = set[j].device
    BY <1>1 DEF TypeOK, SetStates
  <2>2. CASE set[j].device = set[i].device
    BY <1>1, <1>2, <1>5, <2>1, <2>2, HubsAssumption DEF Sets
  <2>3. CASE set[j].device # set[i].device
    <3>1. j # i
      BY <2>3
    <3>2. set'[j].pc = set[j].pc
      BY <3>1, SetSteps DEF Set
    <3>3. conf'[set'[j].device] = conf[set[j].device]
      BY <1>2, <2>1, <2>3
    <3> QED
      BY <1>1, <3>2, <3>3 DEF ConfigKept
  <2> QED
    BY <2>2, <2>3
<1> QED
  BY <1>4, <1>6, <1>7

(* A document that is asked for.                                           *)
LEMMA GetKeeps ==
  ASSUME TypeOK, SetsInTurn, ConfInv, ConfigKept,
         NEW d \in Devices, got' = [got EXCEPT ![d] = conf[d]],
         UNCHANGED <<set, left, conf>>
  PROVE  SetsInTurn' /\ ConfInv' /\ ConfigKept'
<1>1. SetsInTurn' /\ ConfigKept'
  BY DEF SetsInTurn, ConfigKept, SetRunning
<1>2. got'[d] = conf[d] /\ \A e \in Devices : e # d => got'[e] = got[e]
  BY DEF TypeOK
<1>3. \A e \in Devices : conf[e] \in Nat
  BY DEF TypeOK
<1>4. ConfInv'
  BY <1>2, <1>3 DEF ConfInv
<1> QED
  BY <1>1, <1>4

-----------------------------------------------------------------------------
(* What the clients of the events service get.                             *)

LEMMA StreamGrows ==
  ASSUME TypeOK, DeliveredInv, UNCHANGED delivered,
         \A d \in Devices : DOMAIN stream[d] \subseteq DOMAIN stream'[d]
  PROVE  DeliveredInv'
BY HubsAssumption DEF DeliveredInv, TF!Follows

LEMMA PublishGrows ==
  ASSUME TypeOK, NEW d \in Devices, NEW k \in Posts,
         stream' = [stream EXCEPT ![d] = Append(@, k)]
  PROVE  \A e \in Devices : DOMAIN stream[e] \subseteq DOMAIN stream'[e]
<1>1. /\ DOMAIN stream[d] = 1 .. Len(stream[d]) /\ Len(stream[d]) \in Nat
      /\ DOMAIN Append(stream[d], k) = 1 .. Len(stream[d]) + 1
  BY Published DEF TypeOK
<1>2. stream'[d] = Append(stream[d], k) /\ \A e \in Devices : e # d => stream'[e] = stream[e]
  BY DEF TypeOK
<1> QED
  BY <1>1, <1>2

LEMMA DeliverKeeps ==
  ASSUME TypeOK, DeliveredInv, NEW c \in Clients, NEW m \in DOMAIN stream[TopicOf[c]],
         NEW num \in 1 .. MaxDeliveries, Deliver(c, [seq |-> m, num |-> num])
  PROVE  DeliveredInv'
<1> DEFINE s == delivered[c]
           l == Len(s)
           d == [seq |-> m, num |-> num]
<1>1. /\ s \in Seq(Delivery) /\ l \in Nat /\ DOMAIN s = 1 .. l
      /\ \A n \in 1 .. l : s[n] \in Delivery
  <2>1. s \in Seq(Delivery)
    BY DEF TypeOK
  <2> QED
    BY <2>1, LenProperties, ElementOfSeq
<1>2. m \in Nat /\ d \in Delivery
  BY HubsAssumption DEF TypeOK, Delivery
<1>3. /\ delivered' = [delivered EXCEPT ![c] = Append(s, d)] /\ stream' = stream
      /\ \A n \in 1 .. l : TF!Follows(d, s[n])
  <2>1. \A n \in 1 .. Len(delivered[c]) : TF!Follows(d, delivered[c][n])
    BY <1>1 DEF Deliver, TF!Deliver
  <2> QED
    BY <2>1 DEF Deliver, TF!Deliver, pubVars
<1>4. /\ DOMAIN Append(s, d) = 1 .. l + 1 /\ Append(s, d)[l + 1] = d
      /\ \A n \in 1 .. l : Append(s, d)[n] = s[n]
  BY <1>1, <1>2, AppendProperties
<1>5. delivered'[c] = Append(s, d) /\ \A b \in Clients : b # c => delivered'[b] = delivered[b]
  BY <1>3 DEF TypeOK
<1>6. \A n \in 1 .. l + 1 : n \in 1 .. l \/ n = l + 1
  BY <1>1
<1> SUFFICES ASSUME NEW b \in Clients
             PROVE  /\ \A n \in DOMAIN delivered'[b] :
                         delivered'[b][n].seq \in DOMAIN stream'[TopicOf[b]]
                    /\ \A i, n \in DOMAIN delivered'[b] :
                         i < n => TF!Follows(delivered'[b][n], delivered'[b][i])
  BY DEF DeliveredInv, TF!Follows
<1>7. CASE b # c
  BY <1>3, <1>5, <1>7 DEF DeliveredInv
<1>8. CASE b = c
  <2>1. \A n \in 1 .. l + 1 : delivered'[c][n].seq \in DOMAIN stream'[TopicOf[c]]
    <3>1. \A n \in 1 .. l : s[n].seq \in DOMAIN stream[TopicOf[c]]
      BY <1>1 DEF DeliveredInv
    <3> QED
      BY <1>3, <1>4, <1>5, <1>6, <3>1
  <2>2. ASSUME NEW i \in 1 .. l + 1, NEW n \in 1 .. l + 1, i < n
        PROVE  TF!Follows(delivered'[c][n], delivered'[c][i])
    <3>1. i \in 1 .. l
      BY <1>1, <2>2
    <3>2. CASE n = l + 1
      BY <1>3, <1>4, <1>5, <3>1, <3>2
    <3>3. CASE n \in 1 .. l
      <4>1. TF!Follows(s[n], s[i])
        BY <1>1, <2>2, <3>1, <3>3 DEF DeliveredInv
      <4> QED
        BY <1>4, <1>5, <3>1, <3>3, <4>1
    <3> QED
      BY <1>6, <3>2, <3>3
  <2> QED
    BY <1>4, <1>5, <1>8, <2>1, <2>2
<1> QED
  BY <1>7, <1>8

-----------------------------------------------------------------------------
(* All of it.                                                              *)

LEMMA InitInv == Init => IInv
<1> SUFFICES ASSUME Init
             PROVE  IInv
  OBVIOUS
<1>1. TypeOK
  BY InitTyped
<1>2. /\ \A d \in Devices : stream[d] = <<>> /\ conf[d] = 0 /\ got[d] = 0
      /\ \A d \in Devices, k \in Posts : post[d][k] = "none"
      /\ \A i \in Sets : set[i].pc = "none"
      /\ \A c \in Clients : delivered[c] = <<>>
  BY DEF Init
<1>3. InTurn /\ SetsInTurn /\ LastContactRegular /\ ConfigKept
  BY <1>2 DEF InTurn, SetsInTurn, LastContactRegular, ConfigKept
<1>4. StreamInv /\ DeliveredInv /\ AcceptedOnce
  BY <1>2 DEF StreamInv, DeliveredInv, AcceptedOnce
<1>5. ConfInv
  <2>1. ~(0 < 0)
    OBVIOUS
  <2>2. \A d \in Devices : conf[d] = 0 /\ got[d] = 0
    BY <1>2
  <2>3. \A d \in Devices : ~(conf[d] < got[d]) /\ ~(conf[d] # 0) /\ ~(got[d] # 0)
    BY <2>1, <2>2
  <2> QED
    BY <2>3 DEF ConfInv
<1> QED
  BY <1>1, <1>3, <1>4, <1>5 DEF IInv

LEMMA NextInv == IInv /\ [Next]_vars => IInv'
<1> SUFFICES ASSUME IInv, [Next]_vars
             PROVE  IInv'
  OBVIOUS
<1>1. /\ TypeOK /\ InTurn /\ StreamInv /\ DeliveredInv /\ SetsInTurn /\ ConfInv
      /\ AcceptedOnce /\ LastContactRegular /\ ConfigKept
  BY DEF IInv
<1>2. TypeOK'
  BY <1>1, NextTyped
\* Each step keeps the posts' part, the documents' part and the clients' part.
<1> DEFINE PostsKept == InTurn' /\ StreamInv' /\ LastContactRegular' /\ AcceptedOnce'
           SetsKept == SetsInTurn' /\ ConfInv' /\ ConfigKept'
<1>3. ASSUME UNCHANGED pubVars
      PROVE  PostsKept
  <2>1. Ends /\ UNCHANGED <<stream, listed>>
    BY <1>3 DEF pubVars, Ends
  <2> QED
    BY <1>1, <2>1, EndsKeeps
<1>4. ASSUME UNCHANGED controlVars
      PROVE  SetsKept
  <2>1. SetsEnd /\ UNCHANGED <<conf, got>>
    BY <1>4 DEF controlVars, SetsEnd
  <2> QED
    BY <1>1, <2>1, SetsEndKeeps
<1>5. ASSUME UNCHANGED <<stream, delivered>>
      PROVE  DeliveredInv'
  BY <1>1, <1>5, StreamGrows
<1>6. ASSUME PostsKept, SetsKept, DeliveredInv'
      PROVE  IInv'
  BY <1>2, <1>6 DEF IInv
<1>7. CASE Outage \/ PubHubStarts \/ ControlHubStarts \/ UNCHANGED vars
  <2>1. UNCHANGED <<pubVars, controlVars, delivered>>
    BY <1>7 DEF Outage, PubHubStarts, ControlHubStarts, vars, pubVars, controlVars
  <2>2. UNCHANGED <<stream, delivered>>
    BY <2>1 DEF pubVars
  <2> QED
    BY <1>3, <1>4, <1>5, <1>6, <2>1, <2>2
<1>8. CASE Lose
  <2>1. Ends /\ SetsEnd /\ UNCHANGED <<stream, listed, conf, got, delivered>>
    BY <1>8 DEF Lose, Ends, SetsEnd
  <2> QED
    BY <1>1, <1>5, <1>6, <2>1, EndsKeeps, SetsEndKeeps
<1>9. CASE PingFails
  <2>1. Ends /\ UNCHANGED <<stream, listed, controlVars, delivered>>
    BY <1>1, <1>9 DEF PingFails, Ends, PostRunning, TypeOK
  <2> QED
    BY <1>1, <1>4, <1>5, <1>6, <2>1, EndsKeeps
<1>10. ASSUME NEW d \in Devices, NEW k \in Posts, Publish(d, k)
       PROVE  IInv'
  <2>1. UNCHANGED <<lost, listed, controlVars, delivered>>
    BY <1>10 DEF Publish
  <2>2. CASE stream' = stream /\ post'[d][k] = "failed"
    <3>1. Ends
      BY <1>1, <1>10, <2>1, <2>2, PublishSteps DEF Ends
    <3> QED
      BY <1>1, <1>4, <1>5, <1>6, <2>1, <2>2, <3>1, EndsKeeps
  <2>3. CASE stream' = [stream EXCEPT ![d] = Append(@, k)]
    <3>1. DeliveredInv'
      BY <1>1, <2>1, <2>3, StreamGrows, PublishGrows
    <3>2. PostsKept
      BY <1>1, <1>10, <2>3, PublishKeeps
    <3> QED
      BY <1>4, <1>6, <2>1, <3>1, <3>2
  <2> QED
    BY <1>1, <1>10, <2>2, <2>3, PublishSteps
<1>11. ASSUME NEW d \in Devices, NEW k \in Posts, Update(d, k)
       PROVE  IInv'
  <2>1. UNCHANGED <<lost, stream, controlVars, delivered>>
    BY <1>11 DEF Update
  <2>2. CASE listed' = listed /\ post'[d][k] = "failed"
    <3>1. Ends
      BY <1>1, <1>11, <2>1, <2>2, UpdateSteps DEF Ends
    <3> QED
      BY <1>1, <1>4, <1>5, <1>6, <2>1, <2>2, <3>1, EndsKeeps
  <2>3. CASE listed' = [listed EXCEPT ![d] = k]
    <3>1. PostsKept
      BY <1>1, <1>11, <2>3, UpdateKeeps
    <3> QED
      BY <1>4, <1>5, <1>6, <2>1, <3>1
  <2> QED
    BY <1>1, <1>11, <2>2, <2>3, UpdateSteps
<1>12. ASSUME NEW i \in Sets, Set(i)
       PROVE  IInv'
  <2>1. UNCHANGED <<pubVars, stream, left, got, delivered>>
    BY <1>12 DEF Set, pubVars
  <2>2. CASE conf' = [conf EXCEPT ![set[i].device] = i]
    BY <1>1, <1>3, <1>5, <1>6, <1>12, <2>1, <2>2, SetKeeps
  <2>3. CASE ~redisUp
    <3>1. Fatal /\ UNCHANGED conf
      BY <1>12, <2>3 DEF Set
    <3>2. SetsEnd
      BY <1>1, <2>1, <3>1, FatalSets DEF SetsEnd
    <3> QED
      BY <1>1, <1>3, <1>5, <1>6, <2>1, <3>1, <3>2, SetsEndKeeps
  <2>4. CASE redisUp
    BY <1>12, <2>2, <2>4 DEF Set
  <2> QED
    BY <2>3, <2>4
<1>13. ASSUME NEW d \in Devices, GetConfig(d)
       PROVE  IInv'
  <2>1. UNCHANGED <<pubVars, stream, left, conf, delivered>>
    BY <1>13 DEF GetConfig, pubVars
  <2>2. CASE redisUp
    <3>1. got' = [got EXCEPT ![d] = conf[d]] /\ UNCHANGED set
      BY <1>13, <2>2 DEF GetConfig
    <3> QED
      BY <1>1, <1>3, <1>5, <1>6, <2>1, <3>1, GetKeeps
  <2>3. CASE ~redisUp
    <3>1. Fatal /\ UNCHANGED got
      BY <1>13, <2>3 DEF GetConfig
    <3>2. SetsEnd
      BY <1>1, <2>1, <3>1, FatalSets DEF SetsEnd
    <3> QED
      BY <1>1, <1>3, <1>5, <1>6, <2>1, <3>1, <3>2, SetsEndKeeps
  <2> QED
    BY <2>2, <2>3
<1>14. ASSUME NEW d \in Devices, NEW k \in Posts, Post(d, k)
       PROVE  IInv'
  <2>1. UNCHANGED <<stream, controlVars, delivered>>
    BY <1>14 DEF Post
  <2>2. PostsKept
    BY <1>1, <1>14, PostKeeps
  <2> QED
    BY <1>4, <1>5, <1>6, <2>1, <2>2
<1>15. ASSUME NEW i \in Sets, NEW d \in Devices, SetConfig(i, d)
       PROVE  IInv'
  <2>1. UNCHANGED <<pubVars, stream, delivered>>
    BY <1>15 DEF SetConfig, pubVars
  <2>2. SetsKept
    BY <1>1, <1>15, SetConfigKeeps
  <2> QED
    BY <1>3, <1>5, <1>6, <2>1, <2>2
<1>16. ASSUME NEW c \in Clients, NEW m \in DOMAIN stream[TopicOf[c]],
              NEW n \in 1 .. MaxDeliveries, Deliver(c, [seq |-> m, num |-> n])
       PROVE  IInv'
  <2>1. UNCHANGED <<pubVars, controlVars>>
    BY <1>16 DEF Deliver
  <2>2. DeliveredInv'
    BY <1>1, <1>16, DeliverKeeps
  <2> QED
    BY <1>3, <1>4, <1>6, <2>1, <2>2
<1> QED
  BY <1>7, <1>8, <1>9, <1>10, <1>11, <1>12, <1>13, <1>14, <1>15, <1>16 DEF Next, Handlers

(* The inductive invariant, for any number of devices, posts, documents    *)
(* and clients and any faults: PostData, SetConfig, GetConfig.             *)
THEOREM Invariant == Spec => []IInv
<1>1. Init => IInv
  BY InitInv
<1>2. IInv /\ [Next]_vars => IInv'
  BY NextInv
<1> QED
  BY <1>1, <1>2, PTL DEF Spec

(* An accepted post is in the stream, once, and its device in the list.    *)
THEOREM AcceptedOnceHolds == Spec => []AcceptedOnce
<1>1. IInv => AcceptedOnce
  BY DEF IInv
<1> QED
  BY <1>1, Invariant, PTL

(* The list's last contact is an accepted post's, a later one or that of   *)
(* a device that had gone (Update).                                        *)
THEOREM LastContactHolds == Spec => []LastContactRegular
<1>1. IInv => LastContactRegular
  BY DEF IInv
<1> QED
  BY <1>1, Invariant, PTL

(* An accepted document stays until a later one or one given up (SetConfig).*)
THEOREM ConfigKeptHolds == Spec => []ConfigKept
<1>1. IInv => ConfigKept
  BY DEF IInv
<1> QED
  BY <1>1, Invariant, PTL

(* From the device to the client: the readings come in the device's order, *)
(* but for what was given up and what JetStream delivers again, and one    *)
(* comes again only as a later delivery of its message (PostData).         *)
THEOREM EndToEndHolds == Spec => []EndToEnd
<1>1. IInv => EndToEnd
  <2> SUFFICES ASSUME IInv, NEW c \in Clients,
                      NEW m \in DOMAIN delivered[c], NEW n \in DOMAIN delivered[c], m < n
               PROVE  LET d == TopicOf[c]
                          Reading(x) == stream[d][delivered[c][x].seq]
                          Num(x) == delivered[c][x].num
                      IN  /\ \/ Reading(m) <= Reading(n)
                             \/ <<d, Reading(n)>> \in lost
                             \/ Num(n) > 1
                          /\ Reading(m) = Reading(n) => Num(m) < Num(n)
    BY DEF EndToEnd
  <2> DEFINE d == TopicOf[c]
             a == delivered[c][m]
             b == delivered[c][n]
  <2>1. d \in Devices
    BY HubsAssumption
  <2>2. a.seq \in DOMAIN stream[d] /\ b.seq \in DOMAIN stream[d] /\ TF!Follows(b, a)
    BY DEF IInv, DeliveredInv
  <2>3. /\ a.seq \in Nat /\ b.seq \in Nat /\ a.num \in Nat /\ b.num \in Nat \ {0}
        /\ stream[d][a.seq] \in Nat /\ stream[d][b.seq] \in Nat
    <3>1. delivered[c] \in Seq(Delivery) /\ stream[d] \in Seq(Posts)
      BY <2>1 DEF IInv, TypeOK
    <3>2. a \in Delivery /\ b \in Delivery
      BY <3>1, ElementOfSeq, LenProperties
    <3>3. stream[d][a.seq] \in Posts /\ stream[d][b.seq] \in Posts
      BY <2>2, <3>1, ElementOfSeq, LenProperties
    <3> QED
      BY <3>2, <3>3, HubsAssumption DEF Posts, Delivery
  <2>4. \A i, j \in DOMAIN stream[d] : i < j =>
          \/ stream[d][i] < stream[d][j]
          \/ stream[d][i] # stream[d][j] /\ <<d, stream[d][j]>> \in lost
    BY <2>1 DEF IInv, StreamInv
  <2>5. stream[d][a.seq] = stream[d][b.seq] => a.seq = b.seq
    <3>1. ASSUME NEW i \in DOMAIN stream[d], NEW j \in DOMAIN stream[d], i < j,
                 stream[d][j] \in Nat
          PROVE  stream[d][i] # stream[d][j]
      <4>1. \/ stream[d][i] < stream[d][j]
            \/ stream[d][i] # stream[d][j] /\ <<d, stream[d][j]>> \in lost
        BY <2>4, <3>1
      <4>2. ~(stream[d][j] < stream[d][j])
        BY <3>1
      <4> QED
        BY <4>1, <4>2
    <3>2. a.seq < b.seq \/ b.seq < a.seq => stream[d][a.seq] # stream[d][b.seq]
      BY <2>2, <2>3, <3>1
    <3> QED
      BY <2>3, <3>1, <3>2
  <2>6. stream[d][a.seq] = stream[d][b.seq] => a.num < b.num
    BY <2>2, <2>5 DEF TF!Follows
  <2>7. CASE b.num = 1
    <3>1. a.seq < b.seq
      BY <2>2, <2>7 DEF TF!Follows
    <3>2. stream[d][a.seq] < stream[d][b.seq] \/ <<d, stream[d][b.seq]>> \in lost
      BY <2>2, <2>4, <3>1
    <3> QED
      BY <2>3, <2>6, <3>2
  <2>8. CASE b.num > 1
    BY <2>6, <2>8
  <2> QED
    BY <2>3, <2>7, <2>8
<1> QED
  BY <1>1, Invariant, PTL

(* The smoker does not go back to an older document, unless to one that    *)
(* its sender gave up (GetConfig).                                         *)
THEOREM SeenForwardHolds == Spec => SeenForward
<1>1. IInv /\ [Next]_vars => [\A d \in Devices : got'[d] < got[d] => got'[d] \in left]_vars
  <2> SUFFICES ASSUME IInv, Next, NEW e \in Devices, got'[e] < got[e]
               PROVE  got'[e] \in left
    BY DEF vars, controlVars
  <2>1. got[e] \in Nat /\ got \in [Devices -> 0 .. MaxSets]
    BY DEF IInv, TypeOK
  <2>2. got' # got
    BY <2>1
  <2>3. PICK d \in Devices : GetConfig(d)
    BY <2>2 DEF Next, Handlers, Outage, Lose, PubHubStarts, PingFails, ControlHubStarts, Publish,
                Update, Set, Post, SetConfig, Deliver, controlVars
  <2>4. got' = [got EXCEPT ![d] = conf[d]]
    BY <2>2, <2>3 DEF GetConfig
  <2>5. e = d /\ got'[e] = conf[e]
    BY <2>1, <2>4
  <2> QED
    BY <2>5 DEF IInv, ConfInv
<1> QED
  BY <1>1, Invariant, PTL DEF Spec, SeenForward
=============================================================================
