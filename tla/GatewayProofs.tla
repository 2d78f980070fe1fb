---------------------------- MODULE GatewayProofs ----------------------------
(***************************************************************************)
(* Proofs about Gateway, for any topics, receivers, batch limits and       *)
(* bounds.                                                                 *)
(***************************************************************************)
EXTENDS Gateway, FiniteSetTheorems, TLAPS

(***************************************************************************)
(* Every variable keeps its type; in particular a batch never exceeds its  *)
(* limit, whichever thread moves.                                          *)
(***************************************************************************)
LEMMA InitType == Init => TypeOK
  BY ConstantsAssumption
  DEF Init, TypeOK, ConstantsAssumption, PerPair, Everywhere, MessageQueues, BatchQueues

LEMMA RequestType ==
  ASSUME NEW o \in Ops, NEW t \in Topics, NEW r \in Receivers, NEW g \in 0 .. MaxGen
  PROVE  Request(o, t, r, g) \in Requests
  BY DEF Request, Requests

LEMMA PairUpdate ==
  ASSUME NEW S, NEW f \in PerPair(S), NEW t \in Topics, NEW r \in Receivers, NEW v \in S
  PROVE  [f EXCEPT ![t][r] = v] \in PerPair(S)
  BY DEF PerPair

LEMMA PairValue ==
  ASSUME NEW S, NEW f \in PerPair(S), NEW t \in Topics, NEW r \in Receivers
  PROVE  f[t][r] \in S
  BY DEF PerPair

LEMMA NewPipeType ==
  ASSUME TypeOK, NEW t \in Topics, NEW r \in Receivers, NewPipe(t, r)
  PROVE  gen' \in PerPair(0 .. MaxGen) /\ inbox' \in PerPair(0 .. PipeCap)
<1>1. gen[t][r] \in 0 .. MaxGen
  BY PairValue DEF TypeOK
<1>2. gen[t][r] + 1 \in 0 .. MaxGen /\ 0 \in 0 .. PipeCap
  BY <1>1, ConstantsAssumption DEF NewPipe, ConstantsAssumption
<1>3. QED
  BY <1>2, PairUpdate DEF NewPipe, TypeOK

LEMMA PutConfigType ==
  ASSUME TypeOK, NEW o \in Ops, NEW t \in Topics, NEW r \in Receivers,
         NEW g \in 0 .. MaxGen, PutConfig(Request(o, t, r, g))
  PROVE  config' \in Seq(Requests)
  BY RequestType DEF PutConfig, TypeOK

LEMMA SubscriberType ==
  ASSUME TypeOK, NEW t \in Topics, NEW r \in Receivers, Subscriber(t, r)
  PROVE  TypeOK'
<1>0. \A x \in {"no", "yes", "recovering"} :
        [subscribed EXCEPT ![t][r] = x] \in PerPair({"no", "yes", "recovering"})
  BY PairUpdate DEF TypeOK
<1>1. CASE Subscribe(t, r)
  <2>1. gen' \in PerPair(0 .. MaxGen) /\ inbox' \in PerPair(0 .. PipeCap)
    BY <1>1, NewPipeType DEF Subscribe, TypeOK
  <2>2. config' \in Seq(Requests)
    <3>1. gen'[t][r] \in 0 .. MaxGen
      BY <2>1, PairValue
    <3>2. QED
      BY <1>1, <3>1, PutConfigType DEF Subscribe, Ops
  <2>3. QED
    BY <1>1, <2>1, <2>2, <1>0 DEF Subscribe, TypeOK, gatewayVars, tables
<1>2. CASE Unsubscribe(t, r)
  <2>1. config' \in Seq(Requests)
    BY <1>2, PutConfigType, ConstantsAssumption DEF Unsubscribe, Ops, ConstantsAssumption
  <2>2. QED
    BY <1>2, <2>1, <1>0 DEF Unsubscribe, TypeOK, gatewayVars, tables
<1>3. CASE RecoverUnsubscribe(t, r)
  <2>1. config' \in Seq(Requests)
    BY <1>3, PutConfigType, ConstantsAssumption DEF RecoverUnsubscribe, Ops, ConstantsAssumption
  <2>2. QED
    BY <1>3, <2>1, <1>0 DEF RecoverUnsubscribe, TypeOK, gatewayVars, tables
<1>4. CASE RecoverResubscribe(t, r)
  <2>1. gen' \in PerPair(0 .. MaxGen) /\ inbox' \in PerPair(0 .. PipeCap)
    BY <1>4, NewPipeType DEF RecoverResubscribe
  <2>2. config' \in Seq(Requests)
    <3>1. gen'[t][r] \in 0 .. MaxGen
      BY <2>1, PairValue
    <3>2. QED
      BY <1>4, <3>1, PutConfigType DEF RecoverResubscribe, Ops
  <2>3. QED
    BY <1>4, <2>1, <2>2, <1>0 DEF RecoverResubscribe, TypeOK, gatewayVars, tables
<1>5. CASE Restart(t, r)
  <2>1. gen' \in PerPair(0 .. MaxGen) /\ inbox' \in PerPair(0 .. PipeCap)
    BY <1>5, NewPipeType DEF Restart
  <2>2. config' \in Seq(Requests)
    <3>1. gen'[t][r] \in 0 .. MaxGen
      BY <2>1, PairValue
    <3>2. QED
      BY <1>5, <3>1, PutConfigType DEF Restart, Ops
  <2>3. QED
    BY <1>5, <2>1, <2>2, <1>0 DEF Restart, TypeOK, gatewayVars, tables
<1>6. CASE Receive(t, r)
  <2>1. inbox[t][r] - 1 \in 0 .. PipeCap
    <3>1. inbox[t][r] \in 0 .. PipeCap
      BY PairValue DEF TypeOK
    <3>2. QED
      BY <1>6, <3>1, ConstantsAssumption DEF Receive, ConstantsAssumption
  <2>2. inbox' \in PerPair(0 .. PipeCap)
    BY <1>6, <2>1, PairUpdate DEF Receive, TypeOK
  <2>3. QED
    BY <1>6, <2>2 DEF Receive, TypeOK, gatewayVars, tables
<1>7. QED
  BY <1>1, <1>2, <1>3, <1>4, <1>5, <1>6 DEF Subscriber

LEMMA SendType ==
  ASSUME TypeOK, NEW t \in Topics, Send(t) \/ SendDropOld(t)
  PROVE  TypeOK'
<1> USE ConstantsAssumption DEF ConstantsAssumption
<1>1. queue' \in [MessageQueues -> Seq(Topics)]
  <2>1. CASE Send(t)
    BY <2>1 DEF Send, TypeOK
  <2>2. CASE SendDropOld(t)
    <3> DEFINE q == QueueOf[t]
    <3>1. q \in MessageQueues /\ queue[q] \in Seq(Topics)
      BY DEF TypeOK
    <3>2. Len(queue[q]) = Capacity[q] => queue[q] # <<>>
      BY <3>1
    <3>3. Tail(queue[q]) \in Seq(Topics) \/ queue[q] = <<>>
      BY <3>1
    <3>4. Append(queue[q], t) \in Seq(Topics)
      BY <3>1
    <3>5. Len(queue[q]) = Capacity[q] => Append(Tail(queue[q]), t) \in Seq(Topics)
      BY <3>2, <3>3
    <3>6. QED
      BY <2>2, <3>1, <3>4, <3>5 DEF SendDropOld, TypeOK
  <2>3. QED
    BY <2>1, <2>2
<1>2. QED
  BY <1>1 DEF Send, SendDropOld, TypeOK, gatewayVars, tables, receiverVars

LEMMA GatewayType ==
  ASSUME TypeOK, Gateway
  PROVE  TypeOK'
<1> USE ConstantsAssumption DEF ConstantsAssumption
<1>1. ASSUME NEW q \in MessageQueues, TakeMessage(q)
      PROVE  TypeOK'
  <2>1. q \in BatchQueues /\ q # "Image" /\ phase = q
    BY <1>1 DEF TakeMessage, MessageQueues, BatchQueues
  <2>0. phase' = q /\ processed' \in Nat /\ processed' <= Limit[q]
    BY <1>1, <2>1 DEF TakeMessage, RoomInBatch, TypeOK
  <2>2. queue[q] \in Seq(Topics) /\ queue[q] # <<>>
    BY <1>1 DEF TakeMessage, TypeOK
  <2>3. Head(queue[q]) \in Topics /\ queue' \in [MessageQueues -> Seq(Topics)]
    BY <1>1, <2>2 DEF TakeMessage, TypeOK
  <2>4. /\ alive' \in BOOLEAN /\ current' \in Topics \cup {Idle}
        /\ todo' \subseteq Receivers /\ to_remove' \subseteq Receivers
    BY <1>1, <2>3 DEF TakeMessage, BeginSend, Registered, TypeOK
  <2>5. overtaken' \in Nat
    BY <1>1 DEF TakeMessage, CountOvertaking, TypeOK
  <2>6. QED
    BY <1>1, <2>0, <2>1, <2>3, <2>4, <2>5 DEF TakeMessage, TypeOK, tables, receiverVars
<1>2. CASE TakeImage
  <2> DEFINE newest == queue["Image"][Len(queue["Image"])]
  <2>1. newest \in Topics
    BY <1>2 DEF TakeImage, TypeOK, MessageQueues
  <2>2. /\ alive' \in BOOLEAN /\ current' \in Topics \cup {Idle}
        /\ todo' \subseteq Receivers /\ to_remove' \subseteq Receivers
    BY <1>2, <2>1 DEF TakeImage, BeginSend, Registered, TypeOK
  <2>3. queue' \in [MessageQueues -> Seq(Topics)]
    BY <1>2 DEF TakeImage, TypeOK, MessageQueues
  <2>4. /\ phase' = "Dashboard" /\ phase' \in BatchQueues
        /\ processed' = 0 /\ 0 <= Limit["Dashboard"]
    BY <1>2 DEF TakeImage, TypeOK, BatchQueues
  <2>5. QED
    BY <1>2, <2>2, <2>3, <2>4 DEF TakeImage, TypeOK, tables, receiverVars
<1>3. ASSUME NEW r \in Receivers, Deliver(r)
      PROVE  TypeOK'
  <2>1. current \in Topics
    BY <1>3 DEF Deliver, TypeOK
  <2>2. inbox' \in PerPair(0 .. PipeCap)
    <3>1. inbox[current][r] \in 0 .. PipeCap
      BY <2>1, PairValue DEF TypeOK
    <3>2. inbox[current][r] < PipeCap => inbox[current][r] + 1 \in 0 .. PipeCap
      BY <3>1
    <3>3. CASE inbox' = [inbox EXCEPT ![current][r] = inbox[current][r] + 1]
      BY <1>3, <2>1, <3>2, <3>3, PairUpdate DEF Deliver, TypeOK
    <3>4. CASE UNCHANGED inbox
      BY <3>4 DEF TypeOK
    <3>5. QED
      BY <1>3, <3>3, <3>4 DEF Deliver
  <2>3. to_remove' \subseteq Receivers /\ todo' \subseteq Receivers
    BY <1>3 DEF Deliver, TypeOK
  <2>4. QED
    BY <1>3, <2>2, <2>3 DEF Deliver, TypeOK, tables
<1>4. CASE FinishSend
  <2> DEFINE kept == [r \in Receivers |->
                        IF r \in to_remove THEN 0 ELSE sendingList[current][r]]
  <2>1. current \in Topics /\ sendingList' = [sendingList EXCEPT ![current] = kept]
    BY <1>4 DEF FinishSend, TypeOK
  <2>2. kept \in [Receivers -> 0 .. MaxGen]
    <3>1. \A r \in Receivers : sendingList[current][r] \in 0 .. MaxGen
      BY <2>1, PairValue DEF TypeOK
    <3>2. QED
      BY <3>1
  <2>3. sendingList' \in PerPair(0 .. MaxGen)
    BY <2>1, <2>2 DEF TypeOK, PerPair
  <2>4. QED
    BY <1>4, <2>3 DEF FinishSend, TypeOK, receiverVars
<1>5. CASE TakeConfig
  <2> DEFINE req == Head(config)
  <2>1. req \in Requests /\ config' \in Seq(Requests)
    BY <1>5 DEF TakeConfig, TypeOK
  <2>2. sendingList' \in PerPair(0 .. MaxGen) /\ approved' \in [Topics -> Nat]
    <3> DEFINE t == req.topic
               r == req.to
    <3>1. t \in Topics /\ r \in Receivers /\ req.pipe \in 0 .. MaxGen
      BY <2>1 DEF Requests
    <3>2. sendingList[t][r] \in 0 .. MaxGen /\ approved[t] \in Nat
      BY <3>1, PairValue DEF TypeOK
    <3>3. CASE HandleSubscribe(t, r, req.pipe)
      <4>1. (IF sendingList[t][r] = 0 THEN req.pipe ELSE sendingList[t][r]) \in 0 .. MaxGen
        BY <3>1, <3>2
      <4>2. sendingList' \in PerPair(0 .. MaxGen)
        BY <3>1, <3>3, <4>1, PairUpdate DEF HandleSubscribe, TypeOK
      <4>3. QED
        BY <3>1, <3>2, <3>3, <4>2 DEF HandleSubscribe, TypeOK
    <3>4. CASE HandleUnsubscribe(t, r)
      <4>0. 0 \in 0 .. MaxGen
        OBVIOUS
      <4>1. sendingList' \in PerPair(0 .. MaxGen)
        BY <3>1, <3>4, <4>0, PairUpdate DEF HandleUnsubscribe, TypeOK
      <4>2. QED
        BY <3>1, <3>2, <3>4, <4>1 DEF HandleUnsubscribe, TypeOK
    <3>5. QED
      BY <1>5, <3>3, <3>4 DEF TakeConfig
  <2>3. processed' \in Nat /\ processed' <= Limit["Config"] /\ phase' = "Config"
    BY <1>5 DEF TakeConfig, RoomInBatch, TypeOK, BatchQueues
  <2>4. QED
    BY <1>5, <2>1, <2>2, <2>3 DEF TakeConfig, TypeOK, receiverVars
<1>6. CASE EndPhase
  <2>1. phase' \in BatchQueues \cup {"Image"} /\ processed' = 0
    BY <1>6 DEF EndPhase, NextPhase, TypeOK, BatchQueues
  <2>2. QED
    BY <1>6, <2>1 DEF EndPhase, TypeOK, tables, receiverVars
<1>7. QED
  BY <1>1, <1>2, <1>3, <1>4, <1>5, <1>6 DEF Gateway

LEMMA StepType == TypeOK /\ [Next]_vars => TypeOK'
<1> SUFFICES ASSUME TypeOK, [Next]_vars PROVE TypeOK'
  OBVIOUS
<1>1. CASE UNCHANGED vars
  BY <1>1 DEF vars, gatewayVars, tables, receiverVars, TypeOK
<1>2. CASE Next
  BY <1>2, SendType, SubscriberType, GatewayType DEF Next
<1>3. QED
  BY <1>1, <1>2

THEOREM TypeCorrect == Spec => []TypeOK
  BY InitType, StepType, PTL DEF Spec
----------------------------------------------------------------------------
(* The bus whose receivers subscribe and unsubscribe in turn. *)

\* A step that leaves one subscription's requests, pipe and entry alone.
LEMMA UntouchedPair ==
  ASSUME NEW t \in Topics, NEW r \in Receivers,
         RequestsAlternate(t, r), PipeKnown(t, r),
         config' = config, subscribed'[t][r] = subscribed[t][r],
         sendingList'[t][r] = sendingList[t][r], gen'[t][r] = gen[t][r]
  PROVE  RequestsAlternate(t, r)' /\ PipeKnown(t, r)'
<1>1. Pending(t, r)' = Pending(t, r)
  BY DEF Pending
<1>2. QED
  BY <1>1 DEF RequestsAlternate, PipeKnown

\* What putting a request does to the places of a subscription.
LEMMA AppendPending ==
  ASSUME config \in Seq(Requests), NEW req \in Requests, config' = Append(config, req),
         NEW t \in Topics, NEW r \in Receivers
  PROVE  /\ Pending(t, r)' = Pending(t, r)
              \cup (IF req.topic = t /\ req.to = r THEN {Len(config) + 1} ELSE {})
         /\ \A i \in Pending(t, r) : i \in Nat /\ i <= Len(config) /\ config'[i] = config[i]
         /\ config'[Len(config) + 1] = req
         /\ Len(config) \in Nat
<1>1. /\ Len(config) \in Nat /\ Len(config') = Len(config) + 1
      /\ config'[Len(config) + 1] = req
      /\ \A i \in 1 .. Len(config) : config'[i] = config[i]
  OBVIOUS
<1>2. QED
  BY <1>1 DEF Pending

\* What taking a request does: the places move up by one.
LEMMA TailPending ==
  ASSUME config \in Seq(Requests), config # <<>>, config' = Tail(config),
         NEW t \in Topics, NEW r \in Receivers
  PROVE  /\ \A i \in Pending(t, r)' : /\ i \in Nat /\ i >= 1
                                      /\ i + 1 \in Pending(t, r)
                                      /\ config'[i] = config[i + 1]
         /\ \A i \in Pending(t, r) : i \in Nat /\ i >= 1 /\ (i > 1 => i - 1 \in Pending(t, r)')
         /\ 1 \in Pending(t, r) <=> (Head(config).topic = t /\ Head(config).to = r)
         /\ config[1] = Head(config)
<1>1. /\ Len(config) \in Nat /\ Len(config) >= 1 /\ Len(config') = Len(config) - 1
      /\ \A i \in 1 .. Len(config') : config'[i] = config[i + 1]
      /\ config[1] = Head(config)
  OBVIOUS
<1>2. QED
  BY <1>1 DEF Pending

\* The subscriber puts the opposite of its last request.
LEMMA PutAlternates ==
  ASSUME TypeOK, NEW t \in Topics, NEW r \in Receivers, NEW req \in Requests,
         config' = Append(config, req), req.topic = t, req.to = r,
         RequestsAlternate(t, r), PipeKnown(t, r),
         sendingList' = sendingList,
         gen'[t][r] \in Nat, gen'[t][r] > 0,
         gen[t][r] # 0 => gen'[t][r] = gen[t][r],
         \/ /\ subscribed[t][r] = "no" /\ subscribed'[t][r] = "yes"
            /\ req.op = "subscribe" /\ req.pipe = gen'[t][r]
         \/ /\ subscribed[t][r] = "yes" /\ subscribed'[t][r] = "no"
            /\ req.op = "unsubscribe"
  PROVE  RequestsAlternate(t, r)' /\ PipeKnown(t, r)'
<1> DEFINE P == Pending(t, r)
           n == Len(config) + 1
<1>1. /\ Pending(t, r)' = P \cup {n}
      /\ \A i \in P : i \in Nat /\ i < n /\ config'[i] = config[i]
      /\ config'[n] = req /\ n \in Nat
  <2>1. config \in Seq(Requests)
    BY DEF TypeOK
  <2>2. /\ Pending(t, r)' = P \cup {n} /\ config'[n] = req /\ Len(config) \in Nat
        /\ \A i \in P : i \in Nat /\ i <= Len(config) /\ config'[i] = config[i]
    BY <2>1, AppendPending
  <2>3. n \in Nat
    BY <2>2
  <2>4. ASSUME NEW i \in P
        PROVE  i \in Nat /\ i < n /\ config'[i] = config[i]
    <3> HIDE DEF P
    <3>1. i \in Nat /\ i <= Len(config) /\ config'[i] = config[i]
      BY <2>2
    <3>2. QED
      BY <2>2, <3>1
  <2>5. QED
    BY <2>2, <2>3, <2>4
<1>2. gen[t][r] \in Nat /\ sendingList[t][r] \in Nat
  BY PairValue, ConstantsAssumption DEF TypeOK, ConstantsAssumption
<1>3. PipeKnown(t, r)'
  BY <1>1, <1>2 DEF PipeKnown
<1>4. ASSUME NEW i \in P \cup {n}
      PROVE  /\ (\A k \in P \cup {n} : i <= k) =>
                   (config'[i].op = "subscribe" <=> sendingList'[t][r] = 0)
             /\ (\A k \in P \cup {n} : k <= i) =>
                   (config'[i].op = "subscribe" <=> subscribed'[t][r] = "yes")
             /\ config'[i].op = "subscribe" => config'[i].pipe = gen'[t][r]
  <2>1. CASE i = n
    <3>1. ASSUME \A k \in P \cup {n} : i <= k, NEW k \in P
          PROVE  FALSE
      <4>1. i <= k /\ k < n /\ k \in Nat
        BY <1>1, <3>1
      <4>2. QED
        BY <1>1, <2>1, <4>1
    <3>2. P = {} => (subscribed[t][r] = "yes" <=> sendingList[t][r] # 0)
      BY DEF RequestsAlternate
    <3>3. QED
      BY <1>1, <2>1, <3>1, <3>2
  <2>2. CASE i \in P
    <3>1. i < n /\ config'[i] = config[i]
      BY <1>1, <2>2
    <3>2. ~(\A k \in P \cup {n} : k <= i)
      BY <1>1, <2>2
    <3>3. gen[t][r] > 0 /\ gen'[t][r] = gen[t][r]
      BY <1>2, <2>2 DEF PipeKnown
    <3>4. QED
      BY <2>2, <3>1, <3>2, <3>3 DEF RequestsAlternate
  <2>3. QED
    BY <2>1, <2>2
<1>5. ASSUME NEW i \in P \cup {n}, NEW j \in P \cup {n}, i < j,
             \A k \in P \cup {n} : k <= i \/ j <= k
      PROVE  config'[i].op = "subscribe" <=> ~(config'[j].op = "subscribe")
  <2>1. i \in P
    BY <1>1, <1>5
  <2>2. CASE j \in P
    <3>1. config[i].op = "subscribe" <=> ~(config[j].op = "subscribe")
      BY <1>5, <2>1, <2>2 DEF RequestsAlternate
    <3>2. QED
      BY <1>1, <2>1, <2>2, <3>1
  <2>3. CASE j = n
    <3>1. \A k \in P : k <= i
      BY <1>1, <1>5, <2>1, <2>3
    <3>2. config[i].op = "subscribe" <=> subscribed[t][r] = "yes"
      BY <2>1, <3>1 DEF RequestsAlternate
    <3>3. QED
      BY <1>1, <2>1, <2>3, <3>2
  <2>4. QED
    BY <2>2, <2>3
<1>6. RequestsAlternate(t, r)'
  BY <1>1, <1>4, <1>5 DEF RequestsAlternate
<1>7. QED
  BY <1>3, <1>6

\* Places that are next to each other stay so when the queue moves up.
LEMMA ShiftedPlaces ==
  ASSUME TypeOK, config # <<>>, config' = Tail(config),
         NEW t \in Topics, NEW r \in Receivers
  PROVE  \A i, j \in Pending(t, r)' :
           /\ i \in Nat /\ i >= 1 /\ i + 1 \in Pending(t, r) /\ config'[i] = config[i + 1]
           /\ (\A k \in Pending(t, r)' : k <= i) => (\A k \in Pending(t, r) : k <= i + 1)
           /\ (\A k \in Pending(t, r)' : i <= k) =>
                (\A k \in Pending(t, r) : k <= 1 \/ i + 1 <= k)
           /\ (\A k \in Pending(t, r)' : k <= i \/ j <= k) =>
                (\A k \in Pending(t, r) : k <= i + 1 \/ j + 1 <= k)
<1> DEFINE P == Pending(t, r)
           Q == Pending(t, r)'
<1>0. config \in Seq(Requests)
  BY DEF TypeOK
<1>1. /\ \A i \in Q : i \in Nat /\ i >= 1 /\ i + 1 \in P /\ config'[i] = config[i + 1]
      /\ \A k \in P : k \in Nat /\ k >= 1 /\ (k > 1 => k - 1 \in Q)
  <2>1. /\ \A i \in Q : /\ i \in Nat /\ i >= 1
                        /\ i + 1 \in P
                        /\ config'[i] = config[i + 1]
        /\ \A i \in P : i \in Nat /\ i >= 1 /\ (i > 1 => i - 1 \in Q)
        /\ 1 \in P <=> (Head(config).topic = t /\ Head(config).to = r)
        /\ config[1] = Head(config)
    BY <1>0, TailPending
  <2>2. QED
    BY <2>1
<1> SUFFICES ASSUME NEW i \in Q, NEW j \in Q
             PROVE  /\ (\A k \in Q : k <= i) => (\A k \in P : k <= i + 1)
                    /\ (\A k \in Q : i <= k) => (\A k \in P : k <= 1 \/ i + 1 <= k)
                    /\ (\A k \in Q : k <= i \/ j <= k) =>
                         (\A k \in P : k <= i + 1 \/ j + 1 <= k)
  BY <1>1
<1> HIDE DEF P, Q
<1>2. i \in Nat /\ j \in Nat
  BY <1>1
<1>3. ASSUME \A k \in Q : k <= i, NEW k \in P
      PROVE  k <= i + 1
  BY <1>1, <1>2, <1>3
<1>4. ASSUME \A k \in Q : i <= k, NEW k \in P
      PROVE  k <= 1 \/ i + 1 <= k
  BY <1>1, <1>2, <1>4
<1>5. ASSUME \A k \in Q : k <= i \/ j <= k, NEW k \in P
      PROVE  k <= i + 1 \/ j + 1 <= k
  BY <1>1, <1>2, <1>5
<1>6. QED
  BY <1>3, <1>4, <1>5

\* Serving a subscription's oldest request: it asks for what sendingList does
\* not say, and afterwards sendingList says so.
LEMMA TakeAlternates ==
  ASSUME TypeOK, config # <<>>, config' = Tail(config),
         NEW t \in Topics, NEW r \in Receivers,
         Head(config).topic = t, Head(config).to = r,
         RequestsAlternate(t, r), PipeKnown(t, r),
         subscribed' = subscribed, gen' = gen,
         sendingList'[t][r] = IF Head(config).op # "subscribe" THEN 0
                              ELSE IF sendingList[t][r] = 0 THEN Head(config).pipe
                              ELSE sendingList[t][r]
  PROVE  /\ RequestsAlternate(t, r)' /\ PipeKnown(t, r)'
         /\ Head(config).op = "subscribe" <=> sendingList[t][r] = 0
         /\ Head(config).op = "subscribe" <=> sendingList'[t][r] # 0
<1> DEFINE P == Pending(t, r)
           Q == Pending(t, r)'
<1>0. config \in Seq(Requests) /\ gen[t][r] \in Nat
  BY PairValue, ConstantsAssumption DEF TypeOK, ConstantsAssumption
<1>1. /\ 1 \in P /\ config[1] = Head(config)
      /\ \A i \in P : i \in Nat /\ i >= 1 /\ (i > 1 => i - 1 \in Q)
  BY <1>0, TailPending
<1>2. Head(config).op = "subscribe" <=> sendingList[t][r] = 0
  BY <1>1 DEF RequestsAlternate
<1>3. gen[t][r] > 0
  BY <1>1 DEF PipeKnown
<1>4. /\ Head(config).op = "subscribe" <=> sendingList'[t][r] # 0
      /\ sendingList'[t][r] \in {0, gen[t][r]}
  <2>1. Head(config).op = "subscribe" => Head(config).pipe = gen[t][r]
    BY <1>1 DEF RequestsAlternate
  <2>2. QED
    BY <1>0, <1>2, <1>3, <2>1
<1>5. PipeKnown(t, r)'
  BY <1>3, <1>4 DEF PipeKnown
<1>6. Q = {} => (subscribed'[t][r] = "yes" <=> sendingList'[t][r] # 0)
  <2> SUFFICES ASSUME Q = {} PROVE subscribed'[t][r] = "yes" <=> sendingList'[t][r] # 0
    OBVIOUS
  <2>1. \A k \in P : k <= 1
    BY <1>1
  <2>2. config[1].op = "subscribe" <=> subscribed[t][r] = "yes"
    BY <1>1, <2>1 DEF RequestsAlternate
  <2>3. QED
    BY <1>1, <1>4, <2>2
<1>7. ASSUME NEW i \in Q
      PROVE  /\ (\A k \in Q : i <= k) =>
                   (config'[i].op = "subscribe" <=> sendingList'[t][r] = 0)
             /\ (\A k \in Q : k <= i) =>
                   (config'[i].op = "subscribe" <=> subscribed'[t][r] = "yes")
             /\ config'[i].op = "subscribe" => config'[i].pipe = gen'[t][r]
             /\ \A j \in Q :
                  i < j /\ (\A k \in Q : k <= i \/ j <= k) =>
                    (config'[i].op = "subscribe" <=> ~(config'[j].op = "subscribe"))
  <2>1. i \in Nat /\ i >= 1 /\ i + 1 \in P /\ config'[i] = config[i + 1]
    BY <1>0, TailPending
  <2>2. (\A k \in Q : k <= i) => (config'[i].op = "subscribe" <=> subscribed'[t][r] = "yes")
    <3>1. (\A k \in Q : k <= i) => \A k \in P : k <= i + 1
      BY ShiftedPlaces
    <3>2. (\A k \in P : k <= i + 1) =>
             (config[i + 1].op = "subscribe" <=> subscribed[t][r] = "yes")
      <4>1. \A m \in P : (\A k \in P : k <= m) =>
               (config[m].op = "subscribe" <=> subscribed[t][r] = "yes")
        BY Zenon DEF RequestsAlternate
      <4>2. i + 1 \in P
        BY <2>1
      <4>3. QED
        BY <4>1, <4>2
    <3>3. QED
      BY <2>1, <3>1, <3>2
  <2>3. ASSUME \A k \in Q : i <= k
        PROVE  config'[i].op = "subscribe" <=> sendingList'[t][r] = 0
    <3>1. \A k \in P : k <= 1 \/ i + 1 <= k
      BY <2>3, ShiftedPlaces
    <3>2. 1 < i + 1
      BY <2>1
    <3>3. config[1].op = "subscribe" <=> ~(config[i + 1].op = "subscribe")
      BY <1>1, <2>1, <3>1, <3>2 DEF RequestsAlternate
    <3>4. QED
      BY <1>1, <1>4, <2>1, <3>3
  <2>4. config'[i].op = "subscribe" => config'[i].pipe = gen'[t][r]
    BY <2>1 DEF RequestsAlternate
  <2>5. ASSUME NEW j \in Q, i < j, \A k \in Q : k <= i \/ j <= k
        PROVE  config'[i].op = "subscribe" <=> ~(config'[j].op = "subscribe")
    <3>1. j \in Nat /\ j + 1 \in P /\ config'[j] = config[j + 1]
      BY <1>0, TailPending
    <3>2. i + 1 < j + 1
      BY <2>1, <2>5, <3>1
    <3>2a. \A k \in P : k <= i + 1 \/ j + 1 <= k
      BY <2>5, ShiftedPlaces
    <3>3. config[i + 1].op = "subscribe" <=> ~(config[j + 1].op = "subscribe")
      BY <2>1, <3>1, <3>2, <3>2a DEF RequestsAlternate
    <3>4. QED
      BY <2>1, <3>1, <3>3
  <2>6. QED
    BY <2>2, <2>3, <2>4, <2>5
<1>8. RequestsAlternate(t, r)'
  BY <1>6, <1>7 DEF RequestsAlternate
<1>9. QED
  BY <1>2, <1>4, <1>5, <1>8

\* A request put for another subscription.
LEMMA PutElsewhere ==
  ASSUME TypeOK, NEW t \in Topics, NEW r \in Receivers, NEW req \in Requests,
         config' = Append(config, req), req.topic # t \/ req.to # r,
         RequestsAlternate(t, r), PipeKnown(t, r),
         subscribed'[t][r] = subscribed[t][r],
         sendingList'[t][r] = sendingList[t][r], gen'[t][r] = gen[t][r]
  PROVE  RequestsAlternate(t, r)' /\ PipeKnown(t, r)'
<1> DEFINE P == Pending(t, r)
<1>0. config \in Seq(Requests)
  BY DEF TypeOK
<1>1. /\ Pending(t, r)' = P
      /\ \A i \in P : config'[i] = config[i]
  <2>1. /\ Pending(t, r)' = P
              \cup (IF req.topic = t /\ req.to = r THEN {Len(config) + 1} ELSE {})
        /\ \A i \in P : i \in Nat /\ i <= Len(config) /\ config'[i] = config[i]
        /\ config'[Len(config) + 1] = req
        /\ Len(config) \in Nat
    BY <1>0, AppendPending
  <2>2. QED
    BY <2>1
<1>2. PipeKnown(t, r)'
  BY <1>1 DEF PipeKnown
<1>3. ASSUME NEW i \in P
      PROVE  /\ (\A k \in P : i <= k) =>
                   (config'[i].op = "subscribe" <=> sendingList'[t][r] = 0)
             /\ (\A k \in P : k <= i) =>
                   (config'[i].op = "subscribe" <=> subscribed'[t][r] = "yes")
             /\ config'[i].op = "subscribe" => config'[i].pipe = gen'[t][r]
             /\ \A j \in P :
                  i < j /\ (\A k \in P : k <= i \/ j <= k) =>
                    (config'[i].op = "subscribe" <=> ~(config'[j].op = "subscribe"))
  BY <1>1 DEF RequestsAlternate
<1>4. RequestsAlternate(t, r)'
  BY <1>1, <1>3 DEF RequestsAlternate
<1>5. QED
  BY <1>2, <1>4

\* A request taken for another subscription.
LEMMA TakeElsewhere ==
  ASSUME TypeOK, config # <<>>, config' = Tail(config),
         NEW t \in Topics, NEW r \in Receivers,
         Head(config).topic # t \/ Head(config).to # r,
         RequestsAlternate(t, r), PipeKnown(t, r),
         subscribed' = subscribed, gen' = gen,
         sendingList'[t][r] = sendingList[t][r]
  PROVE  RequestsAlternate(t, r)' /\ PipeKnown(t, r)'
<1> DEFINE P == Pending(t, r)
           Q == Pending(t, r)'
<1>0. config \in Seq(Requests)
  BY DEF TypeOK
<1>1. /\ 1 \notin P
      /\ \A i \in P : i \in Nat /\ i >= 1 /\ (i > 1 => i - 1 \in Q)
  BY <1>0, TailPending
<1>2. \A i, j \in Q :
           /\ i \in Nat /\ i >= 1 /\ i + 1 \in P /\ config'[i] = config[i + 1]
           /\ (\A k \in Q : k <= i) => (\A k \in P : k <= i + 1)
           /\ (\A k \in Q : i <= k) => (\A k \in P : k <= 1 \/ i + 1 <= k)
           /\ (\A k \in Q : k <= i \/ j <= k) =>
                (\A k \in P : k <= i + 1 \/ j + 1 <= k)
  BY ShiftedPlaces
<1>3. Q = {} => P = {}
  BY <1>1
<1>4. PipeKnown(t, r)'
  BY <1>2 DEF PipeKnown
<1>5. ASSUME NEW i \in Q
      PROVE  /\ (\A k \in Q : i <= k) =>
                   (config'[i].op = "subscribe" <=> sendingList'[t][r] = 0)
             /\ (\A k \in Q : k <= i) =>
                   (config'[i].op = "subscribe" <=> subscribed'[t][r] = "yes")
             /\ config'[i].op = "subscribe" => config'[i].pipe = gen'[t][r]
             /\ \A j \in Q :
                  i < j /\ (\A k \in Q : k <= i \/ j <= k) =>
                    (config'[i].op = "subscribe" <=> ~(config'[j].op = "subscribe"))
  <2>1. i \in Nat /\ i >= 1 /\ i + 1 \in P /\ config'[i] = config[i + 1]
    BY <1>2
  <2>2. ASSUME \A k \in Q : i <= k
        PROVE  config'[i].op = "subscribe" <=> sendingList'[t][r] = 0
    <3>1. \A k \in P : k <= 1 \/ i + 1 <= k
      BY <1>2, <2>2
    <3>2. \A k \in P : i + 1 <= k
      BY <1>1, <2>1, <3>1
    <3>3. QED
      BY <2>1, <3>2 DEF RequestsAlternate
  <2>3. ASSUME \A k \in Q : k <= i
        PROVE  config'[i].op = "subscribe" <=> subscribed'[t][r] = "yes"
    <3>1. \A k \in P : k <= i + 1
      BY <1>2, <2>3
    <3>2. QED
      BY <2>1, <3>1 DEF RequestsAlternate
  <2>4. config'[i].op = "subscribe" => config'[i].pipe = gen'[t][r]
    BY <2>1 DEF RequestsAlternate
  <2>5. ASSUME NEW j \in Q, i < j, \A k \in Q : k <= i \/ j <= k
        PROVE  config'[i].op = "subscribe" <=> ~(config'[j].op = "subscribe")
    <3>1. j \in Nat /\ j + 1 \in P /\ config'[j] = config[j + 1]
      BY <1>2
    <3>2. i + 1 < j + 1
      BY <2>1, <2>5, <3>1
    <3>3. \A k \in P : k <= i + 1 \/ j + 1 <= k
      BY <1>2, <2>5
    <3>4. config[i + 1].op = "subscribe" <=> ~(config[j + 1].op = "subscribe")
      BY <2>1, <3>1, <3>2, <3>3 DEF RequestsAlternate
    <3>5. QED
      BY <2>1, <3>1, <3>4
  <2>6. QED
    BY <2>2, <2>3, <2>4, <2>5
<1>6. RequestsAlternate(t, r)'
  <2>1. Q = {} => (subscribed'[t][r] = "yes" <=> sendingList'[t][r] # 0)
    BY <1>3 DEF RequestsAlternate
  <2>2. QED
    BY <1>5, <2>1 DEF RequestsAlternate
<1>7. QED
  BY <1>4, <1>6

\* A request that changes whether a receiver is registered changes the number
\* of approvals by the same one.
LEMMA CountRegistered ==
  ASSUME TypeOK, ApprovalsMatchRegistrations, NEW t \in Topics, NEW r \in Receivers,
         NEW v \in 0 .. MaxGen,
         sendingList' = [sendingList EXCEPT ![t][r] = v],
         v # 0 <=> sendingList[t][r] = 0,
         approved' = [approved EXCEPT ![t] = IF v # 0 THEN @ + 1
                                             ELSE IF @ > 0 THEN @ - 1 ELSE 0]
  PROVE  ApprovalsMatchRegistrations'
<1>1. IsFiniteSet(Receivers)
  BY ConstantsAssumption DEF ConstantsAssumption
<1>2. ASSUME NEW u \in Topics
      PROVE  Registered(u)' = IF u # t THEN Registered(u)
                              ELSE IF v # 0 THEN Registered(t) \cup {r}
                              ELSE Registered(t) \ {r}
  <2>1. \A x \in Receivers :
          sendingList'[u][x] = IF u = t /\ x = r THEN v ELSE sendingList[u][x]
    BY DEF TypeOK, PerPair
  <2>2. Registered(u)' = {x \in Receivers : sendingList'[u][x] # 0}
    BY DEF Registered
  <2>3. QED
    BY <2>1, <2>2 DEF Registered
<1>3. IsFiniteSet(Registered(t))
  BY <1>1, FS_Subset DEF Registered
<1>4. r \in Registered(t) <=> v = 0
  BY DEF Registered
<1>5. approved[t] \in Nat /\ approved[t] = Cardinality(Registered(t))
  BY DEF TypeOK, ApprovalsMatchRegistrations
<1>6. approved'[t] = Cardinality(Registered(t)')
  <2>1. CASE v # 0
    <3>1. Cardinality(Registered(t) \cup {r}) = Cardinality(Registered(t)) + 1
      BY <1>3, <1>4, <2>1, FS_AddElement
    <3>2. QED
      BY <1>2, <1>5, <2>1, <3>1 DEF TypeOK
  <2>2. CASE v = 0
    <3>1. Cardinality(Registered(t) \ {r}) = Cardinality(Registered(t)) - 1
      BY <1>3, <1>4, <2>2, FS_RemoveElement
    <3>2. approved[t] > 0
      BY <1>3, <1>4, <1>5, <2>2, FS_EmptySet
    <3>3. QED
      BY <1>2, <1>5, <2>2, <3>1, <3>2 DEF TypeOK
  <2>3. QED
    BY <2>1, <2>2
<1>7. ASSUME NEW u \in Topics, u # t
      PROVE  approved'[u] = Cardinality(Registered(u)')
  BY <1>2, <1>7 DEF TypeOK, ApprovalsMatchRegistrations
<1>8. QED
  BY <1>6, <1>7 DEF ApprovalsMatchRegistrations

Routed == \A t \in Topics, r \in Receivers : RequestsAlternate(t, r) /\ PipeKnown(t, r)

\* A step that touches neither the tables nor the requests.
LEMMA TablesUntouched ==
  ASSUME Routed, ApprovalsMatchRegistrations,
         UNCHANGED <<config, subscribed, gen, sendingList, approved>>
  PROVE  Routed' /\ ApprovalsMatchRegistrations'
<1>1. ASSUME NEW t \in Topics, NEW r \in Receivers
      PROVE  RequestsAlternate(t, r)' /\ PipeKnown(t, r)'
  BY UntouchedPair DEF Routed
<1>2. Routed'
  BY <1>1 DEF Routed
<1>3. ApprovalsMatchRegistrations'
  BY DEF ApprovalsMatchRegistrations, Registered
<1>4. QED
  BY <1>2, <1>3

\* A subscriber that puts the request it should.
LEMMA PutKeepsRouted ==
  ASSUME TypeOK, Routed, NEW t \in Topics, NEW r \in Receivers,
         Subscribe(t, r) \/ Unsubscribe(t, r)
  PROVE  Routed'
<1>0. /\ gen[t][r] \in 0 .. MaxGen
      /\ gen \in PerPair(0 .. MaxGen)
      /\ subscribed \in PerPair({"no", "yes", "recovering"})
  BY PairValue DEF TypeOK
<1>1. PICK req \in Requests :
         /\ config' = Append(config, req) /\ req.topic = t /\ req.to = r
         /\ gen'[t][r] \in Nat /\ gen'[t][r] > 0
         /\ gen[t][r] # 0 => gen'[t][r] = gen[t][r]
         /\ \/ /\ subscribed[t][r] = "no" /\ subscribed'[t][r] = "yes"
               /\ req.op = "subscribe" /\ req.pipe = gen'[t][r]
            \/ /\ subscribed[t][r] = "yes" /\ subscribed'[t][r] = "no"
               /\ req.op = "unsubscribe"
  <2>1. CASE Subscribe(t, r)
    <3> DEFINE req == Request("subscribe", t, r, gen'[t][r])
    <3>1. gen' \in PerPair(0 .. MaxGen)
      BY <1>0, <2>1, NewPipeType DEF Subscribe
    <3>2. gen'[t][r] \in 0 .. MaxGen
      BY <3>1, PairValue
    <3>3. gen'[t][r] > 0 /\ (gen[t][r] # 0 => gen'[t][r] = gen[t][r])
      <4>1. CASE gen[t][r] = 0
        <5>1. gen' = [gen EXCEPT ![t][r] = 1]
          BY <1>0, <2>1, <4>1 DEF Subscribe, NewPipe
        <5>2. gen'[t][r] = 1
          BY <1>0, <5>1 DEF PerPair
        <5>3. QED
          BY <4>1, <5>2
      <4>2. CASE gen[t][r] # 0
        BY <1>0, <2>1, <4>2 DEF Subscribe
      <4>3. QED
        BY <4>1, <4>2
    <3>4. subscribed[t][r] = "no" /\ subscribed'[t][r] = "yes"
      BY <1>0, <2>1 DEF Subscribe, PerPair
    <3>5. req \in Requests
      BY <3>2, RequestType DEF Ops
    <3>6. /\ req.topic = t /\ req.to = r
          /\ req.op = "subscribe" /\ req.pipe = gen'[t][r]
      BY DEF Request
    <3>7. config' = Append(config, req)
      BY <2>1 DEF Subscribe, PutConfig
    <3>8. gen'[t][r] \in Nat
      BY <3>2, ConstantsAssumption DEF ConstantsAssumption
    <3>9. QED
      BY <3>3, <3>4, <3>5, <3>6, <3>7, <3>8
  <2>2. CASE Unsubscribe(t, r)
    <3> DEFINE req == Request("unsubscribe", t, r, 0)
    <3>1. subscribed[t][r] = "yes" /\ subscribed'[t][r] = "no" /\ gen' = gen
      BY <1>0, <2>2 DEF Unsubscribe, PerPair
    <3>2. gen[t][r] \in Nat /\ gen[t][r] > 0
      BY <1>0, <3>1, ConstantsAssumption DEF Routed, PipeKnown, ConstantsAssumption
    <3>3. 0 \in 0 .. MaxGen
      BY ConstantsAssumption DEF ConstantsAssumption
    <3>4. req \in Requests
      BY <3>3, RequestType DEF Ops
    <3>5. req.topic = t /\ req.to = r /\ req.op = "unsubscribe"
      BY DEF Request
    <3>6. config' = Append(config, req)
      BY <2>2 DEF Unsubscribe, PutConfig
    <3>7. QED
      BY <3>1, <3>2, <3>4, <3>5, <3>6
  <2>3. QED
    BY <2>1, <2>2
<1>2. sendingList' = sendingList
  BY DEF Subscribe, Unsubscribe, tables
<1>3. RequestsAlternate(t, r)' /\ PipeKnown(t, r)'
  <2>1. RequestsAlternate(t, r) /\ PipeKnown(t, r)
    BY DEF Routed
  <2>2. QED
    BY <1>1, <1>2, <2>1, PutAlternates
<1>4. ASSUME NEW u \in Topics, NEW s \in Receivers, u # t \/ s # r
      PROVE  RequestsAlternate(u, s)' /\ PipeKnown(u, s)'
  <2>1. RequestsAlternate(u, s) /\ PipeKnown(u, s)
    BY DEF Routed
  <2>2. subscribed'[u][s] = subscribed[u][s]
    BY <1>0, <1>4 DEF Subscribe, Unsubscribe, PerPair
  <2>3. gen'[u][s] = gen[u][s]
    BY <1>0, <1>4 DEF Subscribe, Unsubscribe, NewPipe, PerPair
  <2>4. QED
    BY <1>1, <1>2, <1>4, <2>1, <2>2, <2>3, PutElsewhere
<1>5. QED
  BY <1>3, <1>4 DEF Routed

\* The gateway serving a request.
LEMMA TakeConfigKeepsRouted ==
  ASSUME TypeOK, Routed, ApprovalsMatchRegistrations, TakeConfig
  PROVE  Routed' /\ ApprovalsMatchRegistrations'
<1>0. /\ config # <<>> /\ config' = Tail(config) /\ Head(config) \in Requests
      /\ subscribed' = subscribed /\ gen' = gen
  BY DEF TakeConfig, TypeOK, receiverVars
<1>1. PICK req \in Requests : req = Head(config)
  BY <1>0
<1>2. PICK t \in Topics, r \in Receivers : t = req.topic /\ r = req.to
  BY <1>1 DEF Requests
<1>3. sendingList \in PerPair(0 .. MaxGen) /\ sendingList[t][r] \in 0 .. MaxGen
  BY PairValue DEF TypeOK
<1>4. PICK v : v = IF req.op # "subscribe" THEN 0
                   ELSE IF sendingList[t][r] = 0 THEN req.pipe ELSE sendingList[t][r]
  OBVIOUS
<1>5. v \in 0 .. MaxGen
  BY <1>1, <1>3, <1>4, ConstantsAssumption DEF ConstantsAssumption, Requests
<1>6. /\ sendingList' = [sendingList EXCEPT ![t][r] = v]
      /\ approved' = [approved EXCEPT ![t] = IF req.op = "subscribe" THEN @ + 1
                                             ELSE IF @ > 0 THEN @ - 1 ELSE 0]
  BY <1>1, <1>2, <1>3, <1>4 DEF TakeConfig, HandleSubscribe, HandleUnsubscribe, PerPair, TypeOK
<1>7. sendingList'[t][r] = v
  BY <1>3, <1>6 DEF PerPair
<1>8. /\ RequestsAlternate(t, r)' /\ PipeKnown(t, r)'
      /\ req.op = "subscribe" <=> sendingList[t][r] = 0
      /\ req.op = "subscribe" <=> v # 0
  <2>1. RequestsAlternate(t, r) /\ PipeKnown(t, r)
    BY DEF Routed
  <2>2. sendingList'[t][r] = IF Head(config).op # "subscribe" THEN 0
                             ELSE IF sendingList[t][r] = 0 THEN Head(config).pipe
                             ELSE sendingList[t][r]
    BY <1>1, <1>4, <1>7
  <2>3. Head(config).topic = t /\ Head(config).to = r
    BY <1>1, <1>2
  <2>4. /\ RequestsAlternate(t, r)' /\ PipeKnown(t, r)'
        /\ Head(config).op = "subscribe" <=> sendingList[t][r] = 0
        /\ Head(config).op = "subscribe" <=> sendingList'[t][r] # 0
    BY <1>0, <2>1, <2>2, <2>3, TakeAlternates
  <2>5. QED
    BY <1>1, <1>7, <2>4
<1>9. ASSUME NEW u \in Topics, NEW s \in Receivers, u # t \/ s # r
      PROVE  RequestsAlternate(u, s)' /\ PipeKnown(u, s)'
  <2>1. RequestsAlternate(u, s) /\ PipeKnown(u, s)
    BY DEF Routed
  <2>2. sendingList'[u][s] = sendingList[u][s]
    BY <1>3, <1>6, <1>9 DEF PerPair
  <2>3. Head(config).topic # u \/ Head(config).to # s
    BY <1>1, <1>2, <1>9
  <2>4. QED
    BY <1>0, <2>1, <2>2, <2>3, TakeElsewhere
<1>10. Routed'
  BY <1>8, <1>9 DEF Routed
<1>11. ApprovalsMatchRegistrations'
  <2>1. v # 0 <=> sendingList[t][r] = 0
    BY <1>8
  <2>2. approved' = [approved EXCEPT ![t] = IF v # 0 THEN @ + 1
                                            ELSE IF @ > 0 THEN @ - 1 ELSE 0]
    BY <1>6, <1>8
  <2>3. QED
    BY <1>5, <1>6, <2>1, <2>2, CountRegistered
<1>12. QED
  BY <1>10, <1>11

\* send() only runs for a key with a registered pipe, and every pipe it still
\* has to write to is one of them: while it runs, no request is served.
LEMMA BeginSendConsistent ==
  ASSUME TypeOK, ApprovalsMatchRegistrations, GatewaySurvives, NEW m \in Topics,
         BeginSend(m), current = Idle, sendingList' = sendingList, phase' # "Config"
  PROVE  SendConsistent' /\ GatewaySurvives'
<1>1. Registered(m) = {} => approved[m] = 0
  BY FS_EmptySet DEF ApprovalsMatchRegistrations
<1>2. CASE approved[m] = 0
  BY <1>2 DEF BeginSend, SendConsistent, GatewaySurvives
<1>3. CASE approved[m] # 0
  <2>1. /\ current' = m /\ todo' = Registered(m) /\ to_remove' = {} /\ alive' = alive
    BY <1>1, <1>3 DEF BeginSend
  <2>2. todo' = Registered(current)'
    BY <2>1 DEF Registered
  <2>3. QED
    BY <2>1, <2>2 DEF SendConsistent, GatewaySurvives
<1>4. QED
  BY <1>2, <1>3

LEMMA InitRouting == Init => RoutingInv
<1> SUFFICES ASSUME Init PROVE RoutingInv
  OBVIOUS
<1>1. TypeOK
  BY InitType
<1>2. \A t \in Topics, r \in Receivers : RequestsAlternate(t, r) /\ PipeKnown(t, r)
  <2> SUFFICES ASSUME NEW t \in Topics, NEW r \in Receivers
               PROVE  RequestsAlternate(t, r) /\ PipeKnown(t, r)
    OBVIOUS
  <2>1. /\ config = <<>> /\ subscribed[t][r] = "no"
        /\ sendingList[t][r] = 0 /\ gen[t][r] = 0
    BY DEF Init, Everywhere
  <2>2. Pending(t, r) = {}
    BY <2>1 DEF Pending
  <2>3. QED
    BY <2>1, <2>2 DEF RequestsAlternate, PipeKnown
<1>3. ApprovalsMatchRegistrations
  <2>1. ASSUME NEW t \in Topics
        PROVE  Registered(t) = {} /\ approved[t] = 0
    BY DEF Init, Everywhere, Registered
  <2>2. QED
    BY <2>1, FS_EmptySet DEF ApprovalsMatchRegistrations
<1>4. SendConsistent /\ GatewaySurvives
  BY DEF Init, SendConsistent, GatewaySurvives
<1>5. QED
  BY <1>1, <1>2, <1>3, <1>4 DEF RoutingInv

LEMMA StepRouting ==
  ASSUME Disciplined, RoutingInv, [Next]_vars
  PROVE  RoutingInv'
<1>0. /\ TypeOK /\ Routed /\ SendConsistent /\ GatewaySurvives
      /\ ApprovalsMatchRegistrations
  BY DEF RoutingInv, Routed
<1>1. TypeOK'
  BY <1>0, StepType
<1>2. ASSUME Routed' /\ ApprovalsMatchRegistrations' /\ SendConsistent' /\ GatewaySurvives'
      PROVE  RoutingInv'
  BY <1>1, <1>2 DEF RoutingInv, Routed
<1>3. ASSUME UNCHANGED <<alive, phase, current, todo, to_remove, sendingList>>
      PROVE  SendConsistent' /\ GatewaySurvives'
  BY <1>0, <1>3 DEF SendConsistent, GatewaySurvives, Registered
<1>4. CASE UNCHANGED vars
  <2>1. UNCHANGED <<config, subscribed, gen, sendingList, approved>>
    BY <1>4 DEF vars, tables, receiverVars
  <2>2. Routed' /\ ApprovalsMatchRegistrations'
    BY <1>0, <2>1, TablesUntouched
  <2>3. QED
    BY <1>2, <1>3, <1>4, <2>2 DEF vars, gatewayVars, tables
<1>5. ASSUME NEW t \in Topics, Send(t) \/ SendDropOld(t)
      PROVE  RoutingInv'
  <2>1. UNCHANGED <<config, subscribed, gen, sendingList, approved>>
    BY <1>5 DEF Send, SendDropOld, tables, receiverVars
  <2>2. Routed' /\ ApprovalsMatchRegistrations'
    BY <1>0, <2>1, TablesUntouched
  <2>3. UNCHANGED <<alive, phase, current, todo, to_remove, sendingList>>
    BY <1>5 DEF Send, SendDropOld, gatewayVars, tables
  <2>4. QED
    BY <1>2, <1>3, <2>2, <2>3
<1>6. ASSUME NEW t \in Topics, NEW r \in Receivers, Subscriber(t, r)
      PROVE  RoutingInv'
  <2>1. CASE Subscribe(t, r) \/ Unsubscribe(t, r)
    <3>1. Routed'
      BY <1>0, <2>1, PutKeepsRouted
    <3>2. UNCHANGED <<alive, phase, current, todo, to_remove, sendingList, approved>>
      BY <2>1 DEF Subscribe, Unsubscribe, gatewayVars, tables
    <3>3. ApprovalsMatchRegistrations'
      BY <1>0, <3>2 DEF ApprovalsMatchRegistrations, Registered
    <3>4. QED
      BY <1>2, <1>3, <3>1, <3>2, <3>3
  <2>2. CASE Receive(t, r)
    <3>1. UNCHANGED <<config, subscribed, gen, sendingList, approved>>
      BY <2>2 DEF Receive, tables
    <3>2. Routed' /\ ApprovalsMatchRegistrations'
      BY <1>0, <3>1, TablesUntouched
    <3>3. UNCHANGED <<alive, phase, current, todo, to_remove, sendingList>>
      BY <2>2 DEF Receive, gatewayVars, tables
    <3>4. QED
      BY <1>2, <1>3, <3>2, <3>3
  <2>3. ~RecoverUnsubscribe(t, r) /\ ~Restart(t, r)
    BY DEF Disciplined, RecoverUnsubscribe, Restart
  <2>4. ~RecoverResubscribe(t, r)
    <3>1. subscribed[t][r] # "recovering"
      BY <1>0 DEF Routed, PipeKnown
    <3>2. QED
      BY <3>1 DEF RecoverResubscribe
  <2>5. QED
    BY <1>6, <2>1, <2>2, <2>3, <2>4 DEF Subscriber
<1>7. ASSUME NEW q \in MessageQueues, TakeMessage(q)
      PROVE  RoutingInv'
  <2>1. /\ UNCHANGED <<config, subscribed, gen, sendingList, approved>>
        /\ current = Idle /\ phase' # "Config"
    BY <1>7 DEF TakeMessage, tables, receiverVars, MessageQueues
  <2>2. Routed' /\ ApprovalsMatchRegistrations'
    BY <1>0, <2>1, TablesUntouched
  <2>3. PICK m \in Topics : BeginSend(m)
    <3>1. queue[q] \in Seq(Topics) /\ queue[q] # <<>>
      BY <1>0, <1>7 DEF TypeOK, TakeMessage
    <3>2. Head(queue[q]) \in Topics
      BY <3>1
    <3>3. QED
      BY <1>7, <3>2 DEF TakeMessage
  <2>4. SendConsistent' /\ GatewaySurvives'
    BY <1>0, <2>1, <2>3, BeginSendConsistent
  <2>5. QED
    BY <1>2, <2>2, <2>4
<1>8. CASE TakeImage
  <2>1. /\ UNCHANGED <<config, subscribed, gen, sendingList, approved>>
        /\ current = Idle /\ phase' # "Config"
    BY <1>8 DEF TakeImage, tables, receiverVars
  <2>2. Routed' /\ ApprovalsMatchRegistrations'
    BY <1>0, <2>1, TablesUntouched
  <2>3. PICK m \in Topics : BeginSend(m)
    <3>1. queue["Image"] \in Seq(Topics) /\ queue["Image"] # <<>>
      BY <1>0, <1>8 DEF TypeOK, TakeImage, MessageQueues
    <3>2. queue["Image"][Len(queue["Image"])] \in Topics
      BY <3>1
    <3>3. QED
      BY <1>8, <3>2 DEF TakeImage
  <2>4. SendConsistent' /\ GatewaySurvives'
    BY <1>0, <2>1, <2>3, BeginSendConsistent
  <2>5. QED
    BY <1>2, <2>2, <2>4
<1>9. ASSUME NEW r \in Receivers, Deliver(r)
      PROVE  RoutingInv'
  <2>1. /\ UNCHANGED <<config, subscribed, gen, sendingList, approved>>
        /\ UNCHANGED <<alive, phase, current>>
        /\ r \in todo /\ current # Idle /\ todo' = todo \ {r}
    BY <1>9 DEF Deliver, tables
  <2>2. Routed' /\ ApprovalsMatchRegistrations'
    BY <1>0, <2>1, TablesUntouched
  <2>3. current \in Topics /\ r \in Registered(current) /\ to_remove = {}
    BY <1>0, <2>1 DEF SendConsistent, TypeOK
  <2>4. sendingList[current][r] = gen[current][r]
    BY <1>0, <2>3 DEF Routed, PipeKnown, Registered
  <2>5. to_remove' = to_remove
    BY <1>9, <2>4 DEF Deliver
  <2>6. SendConsistent' /\ GatewaySurvives'
    BY <1>0, <2>1, <2>5 DEF SendConsistent, GatewaySurvives, Registered
  <2>7. QED
    BY <1>2, <2>2, <2>6
<1>10. CASE FinishSend
  <2>1. current \in Topics /\ current # Idle /\ to_remove = {}
    BY <1>0, <1>10 DEF FinishSend, SendConsistent, TypeOK
  <2>2. sendingList' = sendingList
    <3>1. sendingList \in [Topics -> [Receivers -> 0 .. MaxGen]]
      BY <1>0 DEF TypeOK, PerPair
    <3>2. sendingList[current] = [r \in Receivers |-> sendingList[current][r]]
      BY <2>1, <3>1
    <3>3. [r \in Receivers |-> IF r \in to_remove THEN 0 ELSE sendingList[current][r]]
            = [r \in Receivers |-> sendingList[current][r]]
      BY <2>1
    <3>4. sendingList' = [sendingList EXCEPT ![current] = sendingList[current]]
      BY <1>10, <3>2, <3>3 DEF FinishSend
    <3>5. QED
      BY <2>1, <3>1, <3>4
  <2>3. UNCHANGED <<config, subscribed, gen, sendingList, approved>>
    BY <1>10, <2>2 DEF FinishSend, receiverVars
  <2>4. Routed' /\ ApprovalsMatchRegistrations'
    BY <1>0, <2>3, TablesUntouched
  <2>5. SendConsistent' /\ GatewaySurvives'
    BY <1>0, <1>10 DEF FinishSend, SendConsistent, GatewaySurvives
  <2>6. QED
    BY <1>2, <2>4, <2>5
<1>11. CASE TakeConfig
  <2>1. Routed' /\ ApprovalsMatchRegistrations'
    BY <1>0, <1>11, TakeConfigKeepsRouted
  <2>2. UNCHANGED <<alive, phase, current>> /\ phase = "Config"
    BY <1>11 DEF TakeConfig
  <2>3. SendConsistent' /\ GatewaySurvives'
    BY <1>0, <2>2 DEF SendConsistent, GatewaySurvives
  <2>4. QED
    BY <1>2, <2>1, <2>3
<1>12. CASE EndPhase
  <2>1. UNCHANGED <<config, subscribed, gen, sendingList, approved>>
    BY <1>12 DEF EndPhase, tables, receiverVars
  <2>2. Routed' /\ ApprovalsMatchRegistrations'
    BY <1>0, <2>1, TablesUntouched
  <2>3. SendConsistent' /\ GatewaySurvives'
    BY <1>0, <1>12 DEF EndPhase, SendConsistent, GatewaySurvives
  <2>4. QED
    BY <1>2, <2>2, <2>3
<1>13. QED
  BY <1>4, <1>5, <1>6, <1>7, <1>8, <1>9, <1>10, <1>11, <1>12 DEF Next, Gateway

\* The tables, the requests under way and send() stay consistent on a bus whose
\* receivers only subscribe and unsubscribe in turn (_recover_pipe and process
\* restarts excluded), for every number of topics, receivers and requests.
THEOREM RoutingCorrect ==
  ASSUME Disciplined
  PROVE  Spec => []RoutingInv
<1>1. Init => RoutingInv
  BY InitRouting
<1>2. RoutingInv /\ [Next]_vars => RoutingInv'
  BY StepRouting
<1>3. QED
  BY <1>1, <1>2, PTL DEF Spec

\* messageApproved holds a key exactly as often as sendingList has pipes for it.
THEOREM ApprovalsExact ==
  ASSUME Disciplined
  PROVE  Spec => []ApprovalsMatchRegistrations
<1>1. RoutingInv => ApprovalsMatchRegistrations
  BY DEF RoutingInv
<1>2. QED
  BY <1>1, RoutingCorrect, PTL

\* send() never indexes sendingList with a key it lacks: the gateway thread lives.
THEOREM GatewayLives ==
  ASSUME Disciplined
  PROVE  Spec => []GatewaySurvives
<1>1. RoutingInv => GatewaySurvives
  BY DEF RoutingInv
<1>2. QED
  BY <1>1, RoutingCorrect, PTL
----------------------------------------------------------------------------
(* The bus with failures: pipes die, are replaced, and processes restart.    *)

\* The gateway holds an approval for r: r is registered, or was and its pipe
\* died, or its next request is the unsubscribe that will give one back.
Held(t, r) ==
  \/ sendingList[t][r] # 0
  \/ Pending(t, r) = {} /\ subscribed[t][r] = "yes"
  \/ \E i \in Pending(t, r) : /\ config[i].op = "unsubscribe"
                              /\ \A k \in Pending(t, r) : i <= k

\* No unsubscribe follows an unsubscribe of the same subscription.
UnsubscribesApart(t, r) ==
  \A i \in Pending(t, r) :
    config[i].op = "unsubscribe" =>
      /\ (\A k \in Pending(t, r) : k <= i) => subscribed[t][r] # "yes"
      /\ \A j \in Pending(t, r) :
           i < j /\ (\A k \in Pending(t, r) : k <= i \/ j <= k) =>
             config[j].op = "subscribe"

Holders(t) == {r \in Receivers : Held(t, r)}

ApprovalInv ==
  /\ TypeOK
  /\ \A t \in Topics, r \in Receivers : UnsubscribesApart(t, r)
  /\ \A t \in Topics : approved[t] >= Cardinality(Holders(t))

\* A request put on the queue: an unsubscribe comes only from a subscriber, and
\* leaves it unsubscribed or recovering.
LEMMA PutKeepsApart ==
  ASSUME TypeOK, NEW t \in Topics, NEW r \in Receivers, NEW req \in Requests,
         config' = Append(config, req), UNCHANGED sendingList,
         NEW u \in Topics, NEW s \in Receivers, UnsubscribesApart(u, s),
         ~(req.topic = u /\ req.to = s) => subscribed'[u][s] = subscribed[u][s],
         req.topic = u /\ req.to = s /\ req.op = "unsubscribe" =>
           subscribed[u][s] = "yes" /\ subscribed'[u][s] # "yes"
  PROVE  UnsubscribesApart(u, s)' /\ (Held(u, s)' => Held(u, s))
<1> DEFINE P == Pending(u, s)
           Q == Pending(u, s)'
           n == Len(config) + 1
           own == req.topic = u /\ req.to = s
<1>1. /\ Q = P \cup (IF own THEN {n} ELSE {})
      /\ \A i \in P : i \in Nat /\ i <= Len(config) /\ config'[i] = config[i]
      /\ config'[n] = req /\ Len(config) \in Nat
  <2>1. config \in Seq(Requests)
    BY DEF TypeOK
  <2>2. QED
    BY <2>1, AppendPending
<1>2. req.op # "unsubscribe" => req.op = "subscribe"
  BY DEF Requests, Ops
<1>3. \A i \in P : i \in Nat /\ i < n
  <2> HIDE DEF P
  <2>1. QED
    BY <1>1
<1>4. ASSUME NEW i \in P, config[i].op = "unsubscribe"
      PROVE  /\ (\A k \in P : k <= i) => subscribed[u][s] # "yes"
             /\ \A j \in P : i < j /\ (\A k \in P : k <= i \/ j <= k) =>
                  config[j].op = "subscribe"
  BY <1>4, Zenon DEF UnsubscribesApart
<1> HIDE DEF P, Q
<1>5. CASE ~own
  <2>1. Q = P /\ subscribed'[u][s] = subscribed[u][s]
    BY <1>1, <1>5
  <2>2. \A i \in P : config'[i] = config[i]
    BY <1>1
  <2>3. UnsubscribesApart(u, s)'
    BY <1>4, <2>1, <2>2 DEF UnsubscribesApart, P, Q
  <2>4. Held(u, s)' => Held(u, s)
    BY <2>1, <2>2 DEF Held, P, Q
  <2>5. QED
    BY <2>3, <2>4
<1>6. CASE own
  <2>1. Q = P \cup {n} /\ n \in Nat
    BY <1>1, <1>6
  <2>2. ASSUME NEW i \in Q, config'[i].op = "unsubscribe"
        PROVE  /\ (\A k \in Q : k <= i) => subscribed'[u][s] # "yes"
               /\ \A j \in Q : i < j /\ (\A k \in Q : k <= i \/ j <= k) =>
                    config'[j].op = "subscribe"
    <3>1. CASE i = n
      <4>1. req.op = "unsubscribe"
        BY <1>1, <2>2, <3>1
      <4>2. subscribed'[u][s] # "yes"
        BY <1>6, <4>1
      <4>3. \A j \in Q : ~(i < j)
        BY <1>3, <2>1, <3>1
      <4>4. QED
        BY <4>2, <4>3
    <3>2. CASE i \in P
      <4>1. i < n /\ config[i].op = "unsubscribe"
        BY <1>1, <1>3, <2>2, <3>2
      <4>2. ~(\A k \in Q : k <= i)
        BY <1>3, <2>1, <3>2, <4>1
      <4>3. ASSUME NEW j \in Q, i < j, \A k \in Q : k <= i \/ j <= k
            PROVE  config'[j].op = "subscribe"
        <5>1. CASE j \in P
          <6>1. config[j].op = "subscribe"
            BY <1>4, <2>1, <3>2, <4>1, <4>3, <5>1
          <6>2. QED
            BY <1>1, <5>1, <6>1
        <5>2. CASE j = n
          <6>1. \A k \in P : k <= i
            BY <1>3, <2>1, <4>3, <5>2
          <6>2. subscribed[u][s] # "yes"
            BY <1>4, <3>2, <4>1, <6>1
          <6>3. req.op = "subscribe"
            BY <1>2, <1>6, <6>2
          <6>4. QED
            BY <1>1, <5>2, <6>3
        <5>3. QED
          BY <2>1, <5>1, <5>2
      <4>4. QED
        BY <4>2, <4>3
    <3>3. QED
      BY <2>1, <3>1, <3>2
  <2>3. UnsubscribesApart(u, s)'
    BY <2>2, Zenon DEF UnsubscribesApart, Q
  <2>4. ASSUME NEW i \in Q, config'[i].op = "unsubscribe", \A k \in Q : i <= k
        PROVE  Held(u, s)
    <3>1. CASE i = n
      <4>1. P = {}
        BY <1>3, <2>1, <2>4, <3>1
      <4>2. subscribed[u][s] = "yes"
        BY <1>1, <1>6, <2>4, <3>1
      <4>3. QED
        BY <4>1, <4>2 DEF Held, P
    <3>2. CASE i \in P
      <4>1. config[i].op = "unsubscribe" /\ \A k \in P : i <= k
        BY <1>1, <2>1, <2>4, <3>2
      <4>2. QED
        BY <3>2, <4>1 DEF Held, P
    <3>3. QED
      BY <2>1, <3>1, <3>2
  <2>5. Held(u, s)' => Held(u, s)
    <3>1. Q # {}
      BY <2>1
    <3>2. sendingList[u][s] # 0 => Held(u, s)
      BY DEF Held
    <3>3. Held(u, s)' <=> \/ sendingList'[u][s] # 0
                          \/ Q = {} /\ subscribed'[u][s] = "yes"
                          \/ \E i \in Q : /\ config'[i].op = "unsubscribe"
                                          /\ \A k \in Q : i <= k
      BY Zenon DEF Held, Q
    <3>4. QED
      BY <2>4, <3>1, <3>2, <3>3
  <2>6. QED
    BY <2>3, <2>5
<1>7. QED
  BY <1>5, <1>6

\* Serving a request: what is left of each subscription stays apart.
LEMMA TakeKeepsApart ==
  ASSUME TypeOK, config # <<>>, config' = Tail(config), UNCHANGED subscribed,
         NEW u \in Topics, NEW s \in Receivers, UnsubscribesApart(u, s)
  PROVE  UnsubscribesApart(u, s)'
<1> DEFINE P == Pending(u, s)
           Q == Pending(u, s)'
<1>1. \A i, j \in Q :
           /\ i \in Nat /\ i >= 1 /\ i + 1 \in P /\ config'[i] = config[i + 1]
           /\ (\A k \in Q : k <= i) => (\A k \in P : k <= i + 1)
           /\ (\A k \in Q : i <= k) => (\A k \in P : k <= 1 \/ i + 1 <= k)
           /\ (\A k \in Q : k <= i \/ j <= k) =>
                (\A k \in P : k <= i + 1 \/ j + 1 <= k)
  BY ShiftedPlaces
<1>2. \A i \in P : config[i].op = "unsubscribe" =>
           /\ (\A k \in P : k <= i) => subscribed[u][s] # "yes"
           /\ \A j \in P : i < j /\ (\A k \in P : k <= i \/ j <= k) =>
                config[j].op = "subscribe"
  BY Zenon DEF UnsubscribesApart
<1> HIDE DEF P, Q
<1>3. ASSUME NEW i \in Q, config'[i].op = "unsubscribe"
      PROVE  /\ (\A k \in Q : k <= i) => subscribed'[u][s] # "yes"
             /\ \A j \in Q : i < j /\ (\A k \in Q : k <= i \/ j <= k) =>
                  config'[j].op = "subscribe"
  <2>1. i \in Nat /\ i + 1 \in P /\ config[i + 1].op = "unsubscribe"
    BY <1>1, <1>3
  <2>2. (\A k \in Q : k <= i) => subscribed'[u][s] # "yes"
    BY <1>1, <1>2, <2>1
  <2>3. ASSUME NEW j \in Q, i < j, \A k \in Q : k <= i \/ j <= k
        PROVE  config'[j].op = "subscribe"
    <3>1. j \in Nat /\ j + 1 \in P /\ config'[j] = config[j + 1]
      BY <1>1
    <3>2. i + 1 < j + 1 /\ \A k \in P : k <= i + 1 \/ j + 1 <= k
      BY <1>1, <2>1, <2>3, <3>1
    <3>3. QED
      BY <1>2, <2>1, <3>1, <3>2
  <2>4. QED
    BY <2>2, <2>3
<1>4. QED
  BY <1>3, Zenon DEF UnsubscribesApart, Q

\* Serving another subscription's request does not make anyone a holder.
LEMMA TakeElsewhereHeld ==
  ASSUME TypeOK, config # <<>>, config' = Tail(config), UNCHANGED subscribed,
         NEW u \in Topics, NEW s \in Receivers,
         Head(config).topic # u \/ Head(config).to # s,
         sendingList'[u][s] = sendingList[u][s], Held(u, s)'
  PROVE  Held(u, s)
<1> DEFINE P == Pending(u, s)
           Q == Pending(u, s)'
<1>0. config \in Seq(Requests)
  BY DEF TypeOK
<1>1. /\ 1 \notin P
      /\ \A i \in P : i \in Nat /\ i >= 1 /\ (i > 1 => i - 1 \in Q)
  BY <1>0, TailPending
<1>2. \A i, j \in Q :
           /\ i \in Nat /\ i >= 1 /\ i + 1 \in P /\ config'[i] = config[i + 1]
           /\ (\A k \in Q : k <= i) => (\A k \in P : k <= i + 1)
           /\ (\A k \in Q : i <= k) => (\A k \in P : k <= 1 \/ i + 1 <= k)
           /\ (\A k \in Q : k <= i \/ j <= k) =>
                (\A k \in P : k <= i + 1 \/ j + 1 <= k)
  BY ShiftedPlaces
<1> HIDE DEF P, Q
<1>3. \/ sendingList'[u][s] # 0
      \/ Q = {} /\ subscribed'[u][s] = "yes"
      \/ \E i \in Q : config'[i].op = "unsubscribe" /\ \A k \in Q : i <= k
  BY Zenon DEF Held, Q
<1>4. CASE sendingList'[u][s] # 0
  BY <1>4 DEF Held
<1>5. CASE Q = {} /\ subscribed'[u][s] = "yes"
  <2>1. P = {}
    BY <1>1, <1>5
  <2>2. QED
    BY <1>5, <2>1 DEF Held, P
<1>6. ASSUME NEW i \in Q, config'[i].op = "unsubscribe", \A k \in Q : i <= k
      PROVE  Held(u, s)
  <2>1. i \in Nat /\ i >= 1 /\ i + 1 \in P /\ config[i + 1].op = "unsubscribe"
    BY <1>2, <1>6
  <2>2. \A k \in P : k <= 1 \/ i + 1 <= k
    BY <1>2, <1>6
  <2>3. \A k \in P : i + 1 <= k
    BY <1>1, <2>1, <2>2
  <2>4. QED
    BY <2>1, <2>3, Zenon DEF Held, P
<1>7. QED
  BY <1>3, <1>4, <1>5, <1>6

\* Serving an unsubscribe: its receiver held an approval and holds none now.
LEMMA TakeUnsubscribeHeld ==
  ASSUME TypeOK, config # <<>>, config' = Tail(config), UNCHANGED subscribed,
         NEW u \in Topics, NEW s \in Receivers, UnsubscribesApart(u, s),
         1 \in Pending(u, s), config[1].op = "unsubscribe",
         sendingList'[u][s] = 0
  PROVE  Held(u, s) /\ ~Held(u, s)'
<1> DEFINE P == Pending(u, s)
           Q == Pending(u, s)'
<1>0. config \in Seq(Requests)
  BY DEF TypeOK
<1>1. /\ 1 \in P
      /\ \A i \in P : i \in Nat /\ i >= 1 /\ (i > 1 => i - 1 \in Q)
  BY <1>0, TailPending
<1>2. \A i \in Q : /\ i \in Nat /\ i >= 1 /\ i + 1 \in P /\ config'[i] = config[i + 1]
                   /\ (\A k \in Q : i <= k) => (\A k \in P : k <= 1 \/ i + 1 <= k)
  BY ShiftedPlaces
<1>3. /\ (\A k \in P : k <= 1) => subscribed[u][s] # "yes"
      /\ \A j \in P : 1 < j /\ (\A k \in P : k <= 1 \/ j <= k) =>
           config[j].op = "subscribe"
  <2>1. \A i \in P : config[i].op = "unsubscribe" =>
           /\ (\A k \in P : k <= i) => subscribed[u][s] # "yes"
           /\ \A j \in P : i < j /\ (\A k \in P : k <= i \/ j <= k) =>
                config[j].op = "subscribe"
    BY Zenon DEF UnsubscribesApart
  <2> HIDE DEF P
  <2>2. QED
    BY <1>1, <2>1
<1> HIDE DEF P, Q
<1>4. Held(u, s)
  <2>1. \A k \in P : 1 <= k
    BY <1>1
  <2>2. QED
    BY <1>1, <2>1, Zenon DEF Held, P
<1>5. ~(Q = {} /\ subscribed'[u][s] = "yes")
  <2>1. Q = {} => \A k \in P : k <= 1
    BY <1>1
  <2>2. QED
    BY <1>3, <2>1
<1>6. ASSUME NEW i \in Q, config'[i].op = "unsubscribe", \A k \in Q : i <= k
      PROVE  FALSE
  <2>1. i \in Nat /\ i >= 1 /\ i + 1 \in P /\ config[i + 1].op = "unsubscribe"
    BY <1>2, <1>6
  <2>2. 1 < i + 1 /\ \A k \in P : k <= 1 \/ i + 1 <= k
    BY <1>2, <1>6, <2>1
  <2>3. config[i + 1].op = "subscribe"
    BY <1>3, <2>1, <2>2
  <2>4. QED
    BY <2>1, <2>3
<1>7. ~Held(u, s)'
  <2>1. Held(u, s)' <=> \/ sendingList'[u][s] # 0
                        \/ Q = {} /\ subscribed'[u][s] = "yes"
                        \/ \E i \in Q : /\ config'[i].op = "unsubscribe"
                                        /\ \A k \in Q : i <= k
    BY Zenon DEF Held, Q
  <2>2. QED
    BY <1>5, <1>6, <2>1
<1>8. QED
  BY <1>4, <1>7

Apart == \A t \in Topics, r \in Receivers : UnsubscribesApart(t, r)
Covered(u) == approved[u] >= Cardinality(Holders(u))

\* The number of holders changes by at most what the request says.
LEMMA CountHolders ==
  ASSUME TypeOK, TypeOK', NEW u \in Topics, Covered(u), NEW s \in Receivers,
         \/ approved'[u] = approved[u] /\ Holders(u)' \subseteq Holders(u)
         \/ approved'[u] = approved[u] + 1 /\ Holders(u)' \subseteq Holders(u) \cup {s}
         \/ /\ s \in Holders(u) /\ Holders(u)' \subseteq Holders(u) \ {s}
            /\ approved'[u] = IF approved[u] > 0 THEN approved[u] - 1 ELSE 0
  PROVE  Covered(u)'
<1> DEFINE H == Holders(u)
           I == Holders(u)'
<1>1. IsFiniteSet(Receivers) /\ H \subseteq Receivers /\ I \subseteq Receivers
  BY ConstantsAssumption DEF ConstantsAssumption, Holders
<1>2. approved[u] \in Nat /\ approved[u] >= Cardinality(H)
  BY DEF TypeOK, Covered
<1> HIDE DEF H, I
<1>3. /\ IsFiniteSet(H) /\ IsFiniteSet(I) /\ IsFiniteSet(H \cup {s})
      /\ IsFiniteSet(H \ {s})
  BY <1>1, FS_Subset
<1>4. Cardinality(H) \in Nat /\ Cardinality(I) \in Nat
  BY <1>3, FS_CardinalityType
<1>5. approved'[u] >= Cardinality(I)
  <2>1. CASE approved'[u] = approved[u] /\ I \subseteq H
    <3>1. Cardinality(I) <= Cardinality(H)
      BY <1>3, <2>1, FS_Subset
    <3>2. QED
      BY <1>2, <1>4, <2>1, <3>1
  <2>2. CASE approved'[u] = approved[u] + 1 /\ I \subseteq H \cup {s}
    <3>1. Cardinality(I) <= Cardinality(H \cup {s})
      BY <1>3, <2>2, FS_Subset
    <3>2. \/ Cardinality(H \cup {s}) = Cardinality(H)
          \/ Cardinality(H \cup {s}) = Cardinality(H) + 1
      BY <1>3, FS_AddElement
    <3>3. QED
      BY <1>2, <1>4, <2>2, <3>1, <3>2
  <2>3. CASE /\ s \in H /\ I \subseteq H \ {s}
             /\ approved'[u] = IF approved[u] > 0 THEN approved[u] - 1 ELSE 0
    <3>1. Cardinality(I) <= Cardinality(H \ {s})
      BY <1>3, <2>3, FS_Subset
    <3>2. Cardinality(H \ {s}) = Cardinality(H) - 1
      BY <1>3, <2>3, FS_RemoveElement
    <3>3. QED
      BY <1>2, <1>4, <2>3, <3>1, <3>2
  <2>4. QED
    BY <2>1, <2>2, <2>3 DEF H, I
<1>6. QED
  BY <1>5 DEF Covered, I

\* A step that leaves the requests alone and registers nobody.
LEMMA RequestsUntouched ==
  ASSUME Apart, UNCHANGED <<config, subscribed>>,
         \A u \in Topics, s \in Receivers :
           sendingList'[u][s] # 0 => sendingList[u][s] # 0
  PROVE  Apart' /\ \A u \in Topics, s \in Receivers : Held(u, s)' => Held(u, s)
<1> SUFFICES ASSUME NEW u \in Topics, NEW s \in Receivers
             PROVE  UnsubscribesApart(u, s)' /\ (Held(u, s)' => Held(u, s))
  BY DEF Apart
<1>1. Pending(u, s)' = Pending(u, s)
  BY DEF Pending
<1>2. UnsubscribesApart(u, s)
  BY DEF Apart
<1>3. UnsubscribesApart(u, s)'
  BY <1>1, <1>2 DEF UnsubscribesApart
<1>4. Held(u, s)' => Held(u, s)
  BY <1>1 DEF Held
<1>5. QED
  BY <1>3, <1>4

\* A subscriber that puts a request.
LEMMA SubscriberKeepsApart ==
  ASSUME TypeOK, TypeOK', Apart, NEW t \in Topics, NEW r \in Receivers, Subscriber(t, r)
  PROVE  /\ Apart'
         /\ \A u \in Topics, s \in Receivers : Held(u, s)' => Held(u, s)
<1>0. /\ subscribed \in PerPair({"no", "yes", "recovering"})
      /\ 0 \in 0 .. MaxGen
  BY ConstantsAssumption DEF TypeOK, ConstantsAssumption
<1>1. CASE Receive(t, r)
  BY <1>1, RequestsUntouched DEF Receive, tables
<1>2. ASSUME ~Receive(t, r)
      PROVE  \E req \in Requests :
               /\ config' = Append(config, req) /\ req.topic = t /\ req.to = r
               /\ req.op = "unsubscribe" =>
                    subscribed[t][r] = "yes" /\ subscribed'[t][r] # "yes"
  <2>1. CASE Unsubscribe(t, r) \/ RecoverUnsubscribe(t, r)
    <3> DEFINE req == Request("unsubscribe", t, r, 0)
    <3>1. subscribed[t][r] = "yes" /\ subscribed'[t][r] # "yes"
      BY <1>0, <2>1 DEF Unsubscribe, RecoverUnsubscribe, PerPair
    <3>2. req \in Requests
      BY <1>0, RequestType DEF Ops
    <3>3. req.topic = t /\ req.to = r
      BY DEF Request
    <3>4. config' = Append(config, req)
      BY <2>1 DEF Unsubscribe, RecoverUnsubscribe, PutConfig
    <3>5. QED
      BY <3>1, <3>2, <3>3, <3>4
  <2>2. CASE Subscribe(t, r) \/ RecoverResubscribe(t, r) \/ Restart(t, r)
    <3> DEFINE req == Request("subscribe", t, r, gen'[t][r])
    <3>1. gen'[t][r] \in 0 .. MaxGen
      <4>1. gen' \in PerPair(0 .. MaxGen)
        BY DEF TypeOK
      <4>2. QED
        BY <4>1, PairValue
    <3>2. req \in Requests
      BY <3>1, RequestType DEF Ops
    <3>3. req.topic = t /\ req.to = r /\ req.op = "subscribe"
      BY DEF Request
    <3>4. config' = Append(config, req)
      BY <2>2 DEF Subscribe, RecoverResubscribe, Restart, PutConfig
    <3>5. QED
      BY <3>2, <3>3, <3>4
  <2>3. QED
    BY <1>2, <2>1, <2>2 DEF Subscriber
<1>3. CASE ~Receive(t, r)
  <2>1. PICK req \in Requests :
               /\ config' = Append(config, req) /\ req.topic = t /\ req.to = r
               /\ req.op = "unsubscribe" =>
                    subscribed[t][r] = "yes" /\ subscribed'[t][r] # "yes"
    BY <1>2, <1>3
  <2>2. UNCHANGED sendingList
    BY DEF Subscriber, Subscribe, Unsubscribe, RecoverUnsubscribe,
           RecoverResubscribe, Restart, Receive, tables
  <2>3. ASSUME NEW u \in Topics, NEW s \in Receivers
        PROVE  UnsubscribesApart(u, s)' /\ (Held(u, s)' => Held(u, s))
    <3>1. UnsubscribesApart(u, s)
      BY DEF Apart
    <3>2. ~(req.topic = u /\ req.to = s) => subscribed'[u][s] = subscribed[u][s]
      <4>1. ASSUME u # t \/ s # r
            PROVE  subscribed'[u][s] = subscribed[u][s]
        BY <1>0, <4>1 DEF Subscriber, Subscribe, Unsubscribe, RecoverUnsubscribe,
             RecoverResubscribe, Restart, Receive, PerPair
      <4>2. QED
        BY <2>1, <4>1
    <3>3. req.topic = u /\ req.to = s /\ req.op = "unsubscribe" =>
            subscribed[u][s] = "yes" /\ subscribed'[u][s] # "yes"
      BY <2>1
    <3>4. QED
      BY <2>1, <2>2, <3>1, <3>2, <3>3, PutKeepsApart
  <2>4. QED
    BY <2>3 DEF Apart
<1>4. QED
  BY <1>1, <1>3

\* The gateway serving a request.
LEMMA TakeConfigKeepsCovered ==
  ASSUME TypeOK, TypeOK', Apart, TakeConfig, \A u \in Topics : Covered(u)
  PROVE  Apart' /\ \A u \in Topics : Covered(u)'
<1>0. /\ config \in Seq(Requests) /\ config # <<>> /\ config' = Tail(config)
      /\ Head(config) \in Requests /\ UNCHANGED subscribed
  BY DEF TakeConfig, TypeOK, receiverVars
<1>1. PICK req \in Requests : req = Head(config)
  BY <1>0
<1>2. PICK t \in Topics, r \in Receivers : t = req.topic /\ r = req.to
  BY <1>1 DEF Requests
<1>3. sendingList \in PerPair(0 .. MaxGen) /\ approved \in [Topics -> Nat]
  BY DEF TypeOK
<1>4. ASSUME NEW u \in Topics, NEW s \in Receivers
      PROVE  UnsubscribesApart(u, s)'
  <2>1. UnsubscribesApart(u, s)
    BY DEF Apart
  <2>2. QED
    BY <1>0, <2>1, TakeKeepsApart
<1>5. ASSUME NEW u \in Topics, NEW s \in Receivers, u # t \/ s # r, Held(u, s)'
      PROVE  Held(u, s)
  <2>1. sendingList'[u][s] = sendingList[u][s]
    BY <1>1, <1>2, <1>3, <1>5
    DEF TakeConfig, HandleSubscribe, HandleUnsubscribe, PerPair
  <2>2. Head(config).topic # u \/ Head(config).to # s
    BY <1>1, <1>2, <1>5
  <2>3. QED
    BY <1>0, <1>5, <2>1, <2>2, TakeElsewhereHeld
<1>6. ASSUME NEW u \in Topics, u # t
      PROVE  Covered(u)'
  <2>1. approved'[u] = approved[u]
    BY <1>1, <1>2, <1>3, <1>6 DEF TakeConfig, HandleSubscribe, HandleUnsubscribe
  <2>2. Holders(u)' \subseteq Holders(u)
    BY <1>5, <1>6 DEF Holders
  <2>3. QED
    BY <2>1, <2>2, CountHolders
<1>7. Covered(t)'
  <2>1. CASE req.op = "subscribe"
    <3>1. approved'[t] = approved[t] + 1
      BY <1>1, <1>2, <1>3, <2>1 DEF TakeConfig, HandleSubscribe
    <3>2. Holders(t)' \subseteq Holders(t) \cup {r}
      BY <1>5 DEF Holders
    <3>3. QED
      BY <3>1, <3>2, CountHolders
  <2>2. CASE req.op = "unsubscribe"
    <3>1. /\ approved'[t] = IF approved[t] > 0 THEN approved[t] - 1 ELSE 0
          /\ sendingList'[t][r] = 0
      BY <1>1, <1>2, <1>3, <2>2 DEF TakeConfig, HandleUnsubscribe, PerPair
    <3>2. 1 \in Pending(t, r) /\ config[1] = Head(config)
      BY <1>0, <1>1, <1>2, TailPending
    <3>3. UnsubscribesApart(t, r)
      BY DEF Apart
    <3>4. config[1].op = "unsubscribe"
      BY <1>1, <2>2, <3>2
    <3>5. Held(t, r) /\ ~Held(t, r)'
      BY <1>0, <3>1, <3>2, <3>3, <3>4, TakeUnsubscribeHeld
    <3>6. r \in Holders(t) /\ Holders(t)' \subseteq Holders(t) \ {r}
      BY <1>5, <3>5 DEF Holders
    <3>7. QED
      BY <3>1, <3>6, CountHolders
  <2>3. QED
    BY <2>1, <2>2 DEF Requests, Ops
<1>8. QED
  BY <1>4, <1>6, <1>7 DEF Apart

LEMMA InitApproval == Init => ApprovalInv
<1> SUFFICES ASSUME Init PROVE ApprovalInv
  OBVIOUS
<1>1. ASSUME NEW t \in Topics, NEW r \in Receivers
      PROVE  UnsubscribesApart(t, r) /\ ~Held(t, r)
  <2>1. config = <<>> /\ subscribed[t][r] = "no" /\ sendingList[t][r] = 0
    BY <1>1 DEF Init, Everywhere
  <2>2. Pending(t, r) = {}
    BY <2>1 DEF Pending
  <2>3. QED
    BY <2>1, <2>2 DEF UnsubscribesApart, Held
<1>2. ASSUME NEW t \in Topics
      PROVE  approved[t] = 0 /\ Cardinality(Holders(t)) = 0
  <2>1. Holders(t) = {}
    BY <1>1 DEF Holders
  <2>2. QED
    BY <2>1, FS_EmptySet DEF Init
<1>3. QED
  BY <1>1, <1>2, InitType DEF ApprovalInv

LEMMA StepApproval == ApprovalInv /\ [Next]_vars => ApprovalInv'
<1> SUFFICES ASSUME ApprovalInv, [Next]_vars PROVE ApprovalInv'
  OBVIOUS
<1>0. TypeOK /\ Apart /\ \A u \in Topics : Covered(u)
  BY DEF ApprovalInv, Apart, Covered
<1>1. TypeOK'
  BY <1>0, StepType
<1>2. ASSUME Apart', \A u \in Topics : Covered(u)'
      PROVE  ApprovalInv'
  BY <1>1, <1>2 DEF ApprovalInv, Apart, Covered
<1>3. ASSUME UNCHANGED approved, Apart',
             \A u \in Topics, s \in Receivers : Held(u, s)' => Held(u, s)
      PROVE  ApprovalInv'
  <2>1. ASSUME NEW u \in Topics
        PROVE  Covered(u)'
    <3>1. Holders(u)' \subseteq Holders(u)
      BY <1>3 DEF Holders
    <3>2. PICK s : s \in Receivers \/ Receivers = {}
      OBVIOUS
    <3>3. CASE Receivers = {}
      <4>1. Holders(u) = {} /\ Holders(u)' = {}
        BY <3>3 DEF Holders
      <4>2. QED
        BY <1>0, <1>3, <4>1 DEF Covered
    <3>4. CASE s \in Receivers
      BY <1>0, <1>1, <1>3, <3>1, <3>4, CountHolders
    <3>5. QED
      BY <3>2, <3>3, <3>4
  <2>2. QED
    BY <1>2, <1>3, <2>1
<1>4. ASSUME UNCHANGED <<config, subscribed, sendingList, approved>>
      PROVE  ApprovalInv'
  BY <1>0, <1>3, <1>4, RequestsUntouched
<1>5. CASE UNCHANGED vars
  BY <1>4, <1>5 DEF vars, tables, receiverVars
<1>6. ASSUME NEW t \in Topics, Send(t) \/ SendDropOld(t)
      PROVE  ApprovalInv'
  BY <1>4, <1>6 DEF Send, SendDropOld, tables, receiverVars
<1>7. ASSUME NEW t \in Topics, NEW r \in Receivers, Subscriber(t, r)
      PROVE  ApprovalInv'
  <2>1. UNCHANGED approved
    BY <1>7 DEF Subscriber, Subscribe, Unsubscribe, RecoverUnsubscribe,
         RecoverResubscribe, Restart, Receive, tables
  <2>2. Apart' /\ \A u \in Topics, s \in Receivers : Held(u, s)' => Held(u, s)
    BY <1>0, <1>1, <1>7, SubscriberKeepsApart
  <2>3. QED
    BY <1>3, <2>1, <2>2
<1>8. ASSUME NEW q \in MessageQueues, TakeMessage(q)
      PROVE  ApprovalInv'
  BY <1>4, <1>8 DEF TakeMessage, tables, receiverVars
<1>9. CASE TakeImage
  BY <1>4, <1>9 DEF TakeImage, tables, receiverVars
<1>10. ASSUME NEW r \in Receivers, Deliver(r)
       PROVE  ApprovalInv'
  BY <1>4, <1>10 DEF Deliver, tables
<1>11. CASE FinishSend
  <2>1. ASSUME NEW u \in Topics, NEW s \in Receivers, sendingList'[u][s] # 0
        PROVE  sendingList[u][s] # 0
    <3>1. sendingList \in [Topics -> [Receivers -> 0 .. MaxGen]]
      BY <1>0 DEF TypeOK, PerPair
    <3>2. \/ sendingList'[u] = sendingList[u]
          \/ sendingList'[u] = [r \in Receivers |-> IF r \in to_remove THEN 0
                                                    ELSE sendingList[u][r]]
      BY <1>11, <3>1 DEF FinishSend
    <3>3. QED
      BY <2>1, <3>2
  <2>2. UNCHANGED <<config, subscribed, approved>>
    BY <1>11 DEF FinishSend, receiverVars
  <2>3. Apart' /\ \A u \in Topics, s \in Receivers : Held(u, s)' => Held(u, s)
    BY <1>0, <2>1, <2>2, RequestsUntouched
  <2>4. QED
    BY <1>3, <2>2, <2>3
<1>12. CASE TakeConfig
  BY <1>0, <1>1, <1>2, <1>12, TakeConfigKeepsCovered
<1>13. CASE EndPhase
  BY <1>4, <1>13 DEF EndPhase, tables, receiverVars
<1>14. QED
  BY <1>5, <1>6, <1>7, <1>8, <1>9, <1>10, <1>11, <1>12, <1>13 DEF Next, Gateway

\* Whatever pipes die, are recovered or are made again by a restarted process,
\* no key has more registered pipes than occurrences in messageApproved: send()
\* never ignores a message somebody is registered for.
THEOREM ApprovalsCover == Spec => []ApprovalsCoverRegistrations
<1>1. ApprovalInv => ApprovalsCoverRegistrations
  <2> SUFFICES ASSUME ApprovalInv, NEW t \in Topics
               PROVE  approved[t] >= Cardinality(Registered(t))
    BY DEF ApprovalsCoverRegistrations
  <2>1. Registered(t) \subseteq Holders(t) /\ Holders(t) \subseteq Receivers
    BY DEF Registered, Holders, Held
  <2>2. IsFiniteSet(Holders(t)) /\ IsFiniteSet(Registered(t))
    BY <2>1, FS_Subset, ConstantsAssumption DEF ConstantsAssumption
  <2>3. Cardinality(Registered(t)) <= Cardinality(Holders(t))
    BY <2>1, <2>2, FS_Subset
  <2>4. /\ Cardinality(Registered(t)) \in Nat /\ Cardinality(Holders(t)) \in Nat
        /\ approved[t] \in Nat /\ approved[t] >= Cardinality(Holders(t))
    BY <2>2, FS_CardinalityType DEF ApprovalInv, TypeOK
  <2>5. QED
    BY <2>3, <2>4
<1>2. QED
  BY <1>1, InitApproval, StepApproval, PTL DEF Spec
----------------------------------------------------------------------------
(* General messages that pass a waiting Critical one. *)

\* Such messages are only counted while a Critical one is waiting; the Critical
\* batch does not end before one is taken, which resets the count, so a count
\* begins with the General batch and is at most what that batch has taken.
OvertakingInv ==
  /\ TypeOK
  /\ overtaken > 0 => queue["Critical"] # <<>>
  /\ phase = "Critical" /\ processed > 0 => overtaken = 0
  /\ phase = "Warning" => overtaken = 0
  /\ phase = "General" => overtaken <= processed
  /\ overtaken <= Limit["General"]

LEMMA StepOvertaking == OvertakingInv /\ [Next]_vars => OvertakingInv'
<1> SUFFICES ASSUME OvertakingInv, [Next]_vars PROVE OvertakingInv'
  OBVIOUS
<1> USE DEF BatchQueues, MessageQueues
<1>0. /\ TypeOK /\ TypeOK'
      /\ overtaken \in Nat /\ processed \in Nat
      /\ Limit["General"] \in Nat /\ Limit["General"] > 0
      /\ Limit["Critical"] \in Nat /\ Limit["Critical"] > 0
      /\ queue \in [MessageQueues -> Seq(Topics)]
  <2>1. TypeOK /\ TypeOK'
    BY StepType DEF OvertakingInv
  <2>2. Limit["General"] \in Nat \ {0} /\ Limit["Critical"] \in Nat \ {0}
    BY ConstantsAssumption DEF ConstantsAssumption
  <2>3. overtaken \in Nat /\ processed \in Nat /\ queue \in [MessageQueues -> Seq(Topics)]
    BY <2>1 DEF TypeOK
  <2>4. /\ Limit["General"] \in Nat /\ Limit["General"] > 0
        /\ Limit["Critical"] \in Nat /\ Limit["Critical"] > 0
    BY <2>2
  <2>5. QED
    BY <2>1, <2>3, <2>4
<1>1. ASSUME UNCHANGED <<phase, processed, overtaken>>,
             queue["Critical"] # <<>> => queue'["Critical"] # <<>>
      PROVE  OvertakingInv'
  BY <1>0, <1>1 DEF OvertakingInv
<1>2. CASE UNCHANGED vars
  BY <1>1, <1>2 DEF vars, gatewayVars
<1>3. ASSUME NEW t \in Topics, Send(t)
      PROVE  OvertakingInv'
  <2>1. \A q \in MessageQueues : queue[q] \in Seq(Topics) /\ Append(queue[q], t) # <<>>
    BY <1>0
  <2>2. queue["Critical"] # <<>> => queue'["Critical"] # <<>>
    BY <1>0, <1>3, <2>1 DEF Send
  <2>3. QED
    BY <1>1, <1>3, <2>2 DEF Send, gatewayVars
<1>4. ASSUME NEW t \in Topics, SendDropOld(t)
      PROVE  OvertakingInv'
  <2>1. queue'["Critical"] = queue["Critical"]
    BY <1>0, <1>4 DEF SendDropOld, DropOldQueues
  <2>2. QED
    BY <1>1, <1>4, <2>1 DEF SendDropOld, gatewayVars
<1>5. ASSUME NEW t \in Topics, NEW r \in Receivers, Subscriber(t, r)
      PROVE  OvertakingInv'
  BY <1>1, <1>5 DEF Subscriber, Subscribe, Unsubscribe, RecoverUnsubscribe,
     RecoverResubscribe, Restart, Receive, gatewayVars
<1>6. ASSUME NEW q \in MessageQueues, TakeMessage(q)
      PROVE  OvertakingInv'
  <2>1. /\ phase = q /\ phase' = q /\ q # "Image" /\ queue[q] # <<>>
        /\ processed' = processed + 1 /\ processed < Limit[q]
        /\ CountOvertaking(q)
        /\ q # "Critical" => queue'["Critical"] = queue["Critical"]
    BY <1>0, <1>6 DEF TakeMessage, RoomInBatch
  <2>2. CASE q = "Critical" \/ queue["Critical"] = <<>>
    BY <1>0, <2>1, <2>2 DEF OvertakingInv, CountOvertaking
  <2>3. CASE q = "General" /\ queue["Critical"] # <<>>
    BY <1>0, <2>1, <2>3 DEF OvertakingInv, CountOvertaking
  <2>4. CASE q \in {"Warning", "Dashboard"} /\ queue["Critical"] # <<>>
    BY <1>0, <2>1, <2>4 DEF OvertakingInv, CountOvertaking
  <2>5. QED
    BY <2>1, <2>2, <2>3, <2>4
<1>7. CASE TakeImage
  <2>1. /\ phase' = "Dashboard" /\ overtaken' = overtaken
        /\ queue'["Critical"] = queue["Critical"]
    BY <1>0, <1>7 DEF TakeImage
  <2>2. QED
    BY <1>0, <2>1 DEF OvertakingInv
<1>8. ASSUME NEW r \in Receivers, Deliver(r)
      PROVE  OvertakingInv'
  BY <1>1, <1>8 DEF Deliver
<1>9. CASE FinishSend
  BY <1>1, <1>9 DEF FinishSend
<1>10. CASE TakeConfig
  <2>1. phase = "Config" /\ phase' = phase /\ UNCHANGED <<queue, overtaken>>
    BY <1>10 DEF TakeConfig
  <2>2. QED
    BY <1>0, <2>1 DEF OvertakingInv
<1>11. CASE EndPhase
  <2>1. /\ PhaseDone /\ phase' = NextPhase[phase] /\ processed' = 0
        /\ UNCHANGED <<queue, overtaken>>
    BY <1>11 DEF EndPhase
  <2>2. phase \in BatchQueues \cup {"Image"}
    BY <1>0 DEF TypeOK
  <2>3. CASE phase = "Critical"
    <3>1. queue["Critical"] = <<>> \/ ~(processed < Limit["Critical"])
      BY <2>1, <2>3 DEF PhaseDone, RoomInBatch
    <3>2. overtaken = 0
      BY <1>0, <2>3, <3>1 DEF OvertakingInv
    <3>3. QED
      BY <1>0, <2>1, <2>3, <3>2 DEF OvertakingInv, NextPhase
  <2>4. CASE phase = "Warning"
    BY <1>0, <2>1, <2>4 DEF OvertakingInv, NextPhase
  <2>5. CASE phase \in {"General", "Image", "Dashboard", "Config"}
    <3>1. phase' \in {"Image", "Dashboard", "Config", "Critical"}
      BY <2>1, <2>5 DEF NextPhase
    <3>2. QED
      BY <1>0, <2>1, <3>1 DEF OvertakingInv
  <2>6. QED
    BY <2>2, <2>3, <2>4, <2>5
<1>12. QED
  BY <1>2, <1>3, <1>4, <1>5, <1>6, <1>7, <1>8, <1>9, <1>10, <1>11 DEF Next, Gateway

\* Critical > Warning > General, for every batch limit and every traffic: while
\* a Critical message waits, at most one batch of General messages is sent.
THEOREM OvertakingBounded == Spec => []BoundedOvertaking
<1>1. Init => OvertakingInv
  <2> SUFFICES ASSUME Init PROVE OvertakingInv
    OBVIOUS
  <2>1. Limit["General"] \in Nat
    BY ConstantsAssumption DEF ConstantsAssumption, BatchQueues
  <2>2. TypeOK
    BY InitType
  <2>3. QED
    BY <2>1, <2>2 DEF Init, OvertakingInv
<1>2. OvertakingInv => BoundedOvertaking
  BY DEF OvertakingInv, BoundedOvertaking
<1>3. QED
  BY <1>1, <1>2, StepOvertaking, PTL DEF Spec
----------------------------------------------------------------------------
(* Subscriptions whose pipe may fail and be replaced (_recover_pipe).        *)

\* The requests of one subscription alternate; the last one says what the
\* subscriber wants and, if that is messages, names its present pipe; a
\* subscribe() finds no entry of the same name when it is served; and only
\* entries of replaced pipes are on their way out of sendingList.
Tracked(t, r) ==
  /\ Pending(t, r) = {} =>
       IF subscribed[t][r] = "yes" THEN sendingList[t][r] = gen[t][r] /\ gen[t][r] > 0
       ELSE sendingList[t][r] = 0
  /\ \A i \in Pending(t, r) :
       /\ (\A k \in Pending(t, r) : i <= k) =>
            (config[i].op = "subscribe" => sendingList[t][r] = 0)
       /\ (\A k \in Pending(t, r) : k <= i) =>
            /\ config[i].op = "subscribe" <=> subscribed[t][r] = "yes"
            /\ config[i].op = "subscribe" => config[i].pipe = gen[t][r] /\ gen[t][r] > 0
       /\ \A j \in Pending(t, r) :
            i < j /\ (\A k \in Pending(t, r) : k <= i \/ j <= k) =>
              (config[i].op = "subscribe" <=> ~(config[j].op = "subscribe"))
       /\ config[i].op = "subscribe" => config[i].pipe <= gen[t][r]
  /\ sendingList[t][r] <= gen[t][r]
  /\ current = t /\ r \in to_remove => sendingList[t][r] # gen[t][r]

TrackedInv ==
  /\ ApprovalInv
  /\ current # Idle => phase # "Config"
  /\ \A t \in Topics, r \in Receivers : <<t, r>> \notin Restarts => Tracked(t, r)

\* A step that leaves the requests of a subscription alone, and at most removes
\* the entry of a replaced pipe.
LEMMA UntouchedTracked ==
  ASSUME TypeOK, TypeOK', NEW t \in Topics, NEW r \in Receivers, Tracked(t, r),
         UNCHANGED <<config, gen>>, subscribed'[t][r] = subscribed[t][r],
         \/ sendingList'[t][r] = sendingList[t][r]
         \/ sendingList'[t][r] = 0 /\ sendingList[t][r] # gen[t][r],
         current' = t /\ r \in to_remove' => sendingList'[t][r] # gen[t][r]
  PROVE  Tracked(t, r)'
<1>1. Pending(t, r)' = Pending(t, r)
  BY DEF Pending
<1>2. gen[t][r] \in 0 .. MaxGen /\ sendingList[t][r] \in 0 .. MaxGen
  BY PairValue DEF TypeOK
<1>3. /\ gen[t][r] \in Nat /\ sendingList[t][r] \in Nat
  BY <1>2, ConstantsAssumption DEF ConstantsAssumption
<1>4. sendingList'[t][r] <= gen'[t][r]
  BY <1>3 DEF Tracked
<1>5. /\ sendingList[t][r] = 0 => sendingList'[t][r] = 0
      /\ sendingList[t][r] = gen[t][r] => sendingList'[t][r] = gen[t][r]
  BY <1>3
<1>6. QED
  BY <1>1, <1>4, <1>5 DEF Tracked

\* A request put by its subscriber.
LEMMA PutTracked ==
  ASSUME TypeOK, TypeOK', NEW t \in Topics, NEW r \in Receivers, Tracked(t, r),
         NEW req \in Requests, req.topic = t, req.to = r,
         config' = Append(config, req), UNCHANGED <<sendingList, current, to_remove>>,
         \/ gen'[t][r] = gen[t][r]
         \/ gen'[t][r] = gen[t][r] + 1 /\ subscribed[t][r] # "yes",
         \/ /\ req.op = "subscribe" /\ req.pipe = gen'[t][r] /\ gen'[t][r] > 0
            /\ subscribed[t][r] # "yes" /\ subscribed'[t][r] = "yes"
         \/ /\ req.op = "unsubscribe"
            /\ subscribed[t][r] = "yes" /\ subscribed'[t][r] # "yes"
  PROVE  Tracked(t, r)'
<1> DEFINE P == Pending(t, r)
           Q == Pending(t, r)'
           n == Len(config) + 1
<1>1. /\ Q = P \cup {n} /\ n \in Nat
      /\ \A i \in P : config'[i] = config[i]
      /\ config'[n] = req
  <2>1. config \in Seq(Requests)
    BY DEF TypeOK
  <2>2. /\ Q = P \cup (IF req.topic = t /\ req.to = r THEN {n} ELSE {})
        /\ \A i \in P : i \in Nat /\ i <= Len(config) /\ config'[i] = config[i]
        /\ config'[n] = req /\ Len(config) \in Nat
    BY <2>1, AppendPending
  <2>3. Q = P \cup {n}
    BY <2>2
  <2>4. n \in Nat
    BY <2>2
  <2>5. QED
    BY <2>2, <2>3, <2>4
<1>2. \A i \in P : i \in Nat /\ i < n
  <2>1. config \in Seq(Requests)
    BY DEF TypeOK
  <2>2. Len(config) \in Nat /\ \A i \in P : i \in Nat /\ i <= Len(config)
    BY <2>1, AppendPending
  <2> HIDE DEF P
  <2>3. QED
    BY <2>2
<1>3. /\ P = {} => IF subscribed[t][r] = "yes"
                   THEN sendingList[t][r] = gen[t][r] /\ gen[t][r] > 0
                   ELSE sendingList[t][r] = 0
      /\ sendingList[t][r] <= gen[t][r]
      /\ current = t /\ r \in to_remove => sendingList[t][r] # gen[t][r]
  BY DEF Tracked
<1>4. \A i \in P :
        /\ (\A k \in P : i <= k) =>
             (config[i].op = "subscribe" => sendingList[t][r] = 0)
        /\ (\A k \in P : k <= i) =>
             (config[i].op = "subscribe" <=> subscribed[t][r] = "yes")
        /\ \A j \in P :
             i < j /\ (\A k \in P : k <= i \/ j <= k) =>
               (config[i].op = "subscribe" <=> ~(config[j].op = "subscribe"))
        /\ config[i].op = "subscribe" => config[i].pipe <= gen[t][r]
  BY Zenon DEF Tracked
<1> HIDE DEF P, Q
<1>5. gen[t][r] \in Nat /\ gen'[t][r] \in Nat /\ sendingList[t][r] \in Nat
  <2>1. /\ gen \in PerPair(0 .. MaxGen) /\ gen' \in PerPair(0 .. MaxGen)
        /\ sendingList \in PerPair(0 .. MaxGen)
    BY DEF TypeOK
  <2>2. gen[t][r] \in 0 .. MaxGen /\ gen'[t][r] \in 0 .. MaxGen /\ sendingList[t][r] \in 0 .. MaxGen
    BY <2>1, PairValue
  <2>3. QED
    BY <2>2, ConstantsAssumption DEF ConstantsAssumption
<1>6. /\ sendingList'[t][r] <= gen'[t][r]
      /\ current' = t /\ r \in to_remove' => sendingList'[t][r] # gen'[t][r]
  BY <1>3, <1>5
<1>7. ASSUME NEW i \in Q
      PROVE  /\ (\A k \in Q : i <= k) =>
                  (config'[i].op = "subscribe" => sendingList'[t][r] = 0)
             /\ (\A k \in Q : k <= i) =>
                  /\ config'[i].op = "subscribe" <=> subscribed'[t][r] = "yes"
                  /\ config'[i].op = "subscribe" =>
                       config'[i].pipe = gen'[t][r] /\ gen'[t][r] > 0
             /\ \A j \in Q :
                  i < j /\ (\A k \in Q : k <= i \/ j <= k) =>
                    (config'[i].op = "subscribe" <=> ~(config'[j].op = "subscribe"))
             /\ config'[i].op = "subscribe" => config'[i].pipe <= gen'[t][r]
  <2>1. CASE i = n
    <3>1. (\A k \in Q : i <= k) => P = {}
      BY <1>1, <1>2, <2>1
    <3>2. \A j \in Q : ~(i < j)
      BY <1>1, <1>2, <2>1
    <3>3. (\A k \in Q : i <= k) => (req.op = "subscribe" => sendingList[t][r] = 0)
      BY <1>3, <3>1
    <3>4. req.op = "subscribe" => req.pipe <= gen'[t][r]
      BY <1>5
    <3>5. QED
      BY <1>1, <2>1, <3>2, <3>3, <3>4
  <2>2. CASE i \in P
    <3>1. config'[i] = config[i] /\ i < n /\ i \in Nat
      BY <1>1, <1>2, <2>2
    <3>2. ~(\A k \in Q : k <= i)
      BY <1>1, <3>1
    <3>3. (\A k \in Q : i <= k) =>
                  (config'[i].op = "subscribe" => sendingList'[t][r] = 0)
      BY <1>1, <1>4, <2>2, <3>1
    <3>4. config'[i].op = "subscribe" => config'[i].pipe <= gen'[t][r]
      <4>1. ASSUME config[i].op = "subscribe"
            PROVE  config[i].pipe \in Nat
        <5>1. i \in 1 .. Len(config) /\ config \in Seq(Requests)
          BY <2>2 DEF P, Pending, TypeOK
        <5>2. config[i] \in Requests
          BY <5>1
        <5>3. QED
          BY <5>2, ConstantsAssumption DEF Requests, ConstantsAssumption
      <4>2. QED
        BY <1>4, <1>5, <2>2, <3>1, <4>1
    <3>5. ASSUME NEW j \in Q, i < j, \A k \in Q : k <= i \/ j <= k
          PROVE  config'[i].op = "subscribe" <=> ~(config'[j].op = "subscribe")
      <4>1. CASE j \in P
        <5>1. config[i].op = "subscribe" <=> ~(config[j].op = "subscribe")
          BY <1>1, <1>4, <2>2, <3>5, <4>1
        <5>2. QED
          BY <1>1, <3>1, <4>1, <5>1
      <4>2. CASE j = n
        <5>1. \A k \in P : k <= i
          BY <1>1, <1>2, <3>5, <4>2
        <5>2. config[i].op = "subscribe" <=> subscribed[t][r] = "yes"
          BY <1>4, <2>2, <5>1
        <5>3. QED
          BY <1>1, <3>1, <4>2, <5>2
      <4>3. QED
        BY <1>1, <4>1, <4>2
    <3>6. QED
      BY <3>2, <3>3, <3>4, <3>5
  <2>3. QED
    BY <1>1, <2>1, <2>2
<1>8. Q # {}
  BY <1>1
<1>9. QED
  BY <1>6, <1>7, <1>8, Zenon DEF Tracked, Q

\* A request put for another subscription.
LEMMA PutElsewhereTracked ==
  ASSUME TypeOK, NEW t \in Topics, NEW r \in Receivers, Tracked(t, r),
         NEW req \in Requests, req.topic # t \/ req.to # r,
         config' = Append(config, req), UNCHANGED <<sendingList, current, to_remove>>,
         subscribed'[t][r] = subscribed[t][r], gen'[t][r] = gen[t][r]
  PROVE  Tracked(t, r)'
<1> DEFINE P == Pending(t, r)
           Q == Pending(t, r)'
<1>1. Q = P /\ \A i \in P : config'[i] = config[i]
  <2>1. config \in Seq(Requests)
    BY DEF TypeOK
  <2>2. /\ Q = P \cup (IF req.topic = t /\ req.to = r THEN {Len(config) + 1} ELSE {})
        /\ \A i \in P : i \in Nat /\ i <= Len(config) /\ config'[i] = config[i]
        /\ config'[Len(config) + 1] = req
        /\ Len(config) \in Nat
    BY <2>1, AppendPending
  <2>3. Q = P
    BY <2>2
  <2>4. QED
    BY <2>2, <2>3
<1>2. QED
  BY <1>1 DEF Tracked

\* What Tracked says of the requests alone.
LEMMA TrackedRequests ==
  ASSUME NEW t \in Topics, NEW r \in Receivers, Tracked(t, r)
  PROVE  \A i \in Pending(t, r) :
           /\ (\A k \in Pending(t, r) : i <= k) =>
                (config[i].op = "subscribe" => sendingList[t][r] = 0)
           /\ (\A k \in Pending(t, r) : k <= i) =>
                /\ config[i].op = "subscribe" <=> subscribed[t][r] = "yes"
                /\ config[i].op = "subscribe" =>
                     config[i].pipe = gen[t][r] /\ gen[t][r] > 0
           /\ \A j \in Pending(t, r) :
                i < j /\ (\A k \in Pending(t, r) : k <= i \/ j <= k) =>
                  (config[i].op = "subscribe" <=> ~(config[j].op = "subscribe"))
           /\ config[i].op = "subscribe" => config[i].pipe <= gen[t][r]
  BY Zenon DEF Tracked

\* The requests that are left when one is taken, seen from a place i.
LEMMA TakeLeaves ==
  ASSUME TypeOK, config # <<>>, config' = Tail(config), UNCHANGED <<subscribed, gen>>,
         NEW t \in Topics, NEW r \in Receivers, Tracked(t, r),
         NEW i \in Pending(t, r)'
  PROVE  /\ (\A k \in Pending(t, r)' : k <= i) =>
              /\ config'[i].op = "subscribe" <=> subscribed'[t][r] = "yes"
              /\ config'[i].op = "subscribe" =>
                   config'[i].pipe = gen'[t][r] /\ gen'[t][r] > 0
         /\ \A j \in Pending(t, r)' :
              i < j /\ (\A k \in Pending(t, r)' : k <= i \/ j <= k) =>
                (config'[i].op = "subscribe" <=> ~(config'[j].op = "subscribe"))
         /\ config'[i].op = "subscribe" => config'[i].pipe <= gen'[t][r]
<1> DEFINE P == Pending(t, r)
           Q == Pending(t, r)'
<1>1. \A m, j \in Q :
           /\ m \in Nat /\ m >= 1 /\ m + 1 \in P /\ config'[m] = config[m + 1]
           /\ (\A k \in Q : k <= m) => (\A k \in P : k <= m + 1)
           /\ (\A k \in Q : m <= k) => (\A k \in P : k <= 1 \/ m + 1 <= k)
           /\ (\A k \in Q : k <= m \/ j <= k) =>
                (\A k \in P : k <= m + 1 \/ j + 1 <= k)
  BY ShiftedPlaces
<1>2. \A m \in P :
        /\ (\A k \in P : m <= k) =>
             (config[m].op = "subscribe" => sendingList[t][r] = 0)
        /\ (\A k \in P : k <= m) =>
             /\ config[m].op = "subscribe" <=> subscribed[t][r] = "yes"
             /\ config[m].op = "subscribe" => config[m].pipe = gen[t][r] /\ gen[t][r] > 0
        /\ \A j \in P :
             m < j /\ (\A k \in P : k <= m \/ j <= k) =>
               (config[m].op = "subscribe" <=> ~(config[j].op = "subscribe"))
        /\ config[m].op = "subscribe" => config[m].pipe <= gen[t][r]
  BY TrackedRequests
<1>3. i \in Q
  OBVIOUS
<1> HIDE DEF P, Q
<1>4. i \in Nat /\ i + 1 \in P /\ config'[i] = config[i + 1]
  BY <1>1, <1>3
<1>5. ASSUME \A k \in Q : k <= i
      PROVE  /\ config'[i].op = "subscribe" <=> subscribed'[t][r] = "yes"
             /\ config'[i].op = "subscribe" =>
                  config'[i].pipe = gen'[t][r] /\ gen'[t][r] > 0
  <2>1. \A k \in P : k <= i + 1
    BY <1>1, <1>3, <1>5
  <2>2. QED
    BY <1>2, <1>4, <2>1
<1>6. ASSUME NEW j \in Q, i < j, \A k \in Q : k <= i \/ j <= k
      PROVE  config'[i].op = "subscribe" <=> ~(config'[j].op = "subscribe")
  <2>1. j \in Nat /\ j + 1 \in P /\ config'[j] = config[j + 1]
    BY <1>1
  <2>2. i + 1 < j + 1
    BY <1>4, <1>6, <2>1
  <2>3. \A k \in P : k <= i + 1 \/ j + 1 <= k
    BY <1>1, <1>3, <1>6
  <2>4. QED
    BY <1>2, <1>4, <2>1, <2>2, <2>3
<1>7. config'[i].op = "subscribe" => config'[i].pipe <= gen'[t][r]
  BY <1>2, <1>4
<1>8. QED
  BY <1>5, <1>6, <1>7 DEF Q

LEMMA TakeElsewhereTracked ==
  ASSUME TypeOK, config # <<>>, config' = Tail(config), UNCHANGED <<subscribed, gen>>,
         NEW t \in Topics, NEW r \in Receivers, Tracked(t, r),
         Head(config).topic # t \/ Head(config).to # r,
         sendingList'[t][r] = sendingList[t][r], UNCHANGED <<current, to_remove>>
  PROVE  Tracked(t, r)'
<1> DEFINE P == Pending(t, r)
           Q == Pending(t, r)'
<1>0. config \in Seq(Requests)
  BY DEF TypeOK
<1>1. /\ 1 \notin P
      /\ \A i \in P : i \in Nat /\ i >= 1 /\ (i > 1 => i - 1 \in Q)
  BY <1>0, TailPending
<1>2. \A i \in Q :
           /\ i \in Nat /\ i >= 1 /\ i + 1 \in P /\ config'[i] = config[i + 1]
           /\ (\A k \in Q : i <= k) => (\A k \in P : k <= 1 \/ i + 1 <= k)
  BY ShiftedPlaces
<1>3. \A i \in P : (\A k \in P : i <= k) =>
             (config[i].op = "subscribe" => sendingList[t][r] = 0)
  BY TrackedRequests
<1> HIDE DEF P, Q
<1>4. Q = {} => P = {}
  BY <1>1
<1>5. ASSUME NEW i \in Q, \A k \in Q : i <= k, config'[i].op = "subscribe"
      PROVE  sendingList'[t][r] = 0
  <2>1. i \in Nat /\ i + 1 \in P /\ config[i + 1].op = "subscribe"
    BY <1>2, <1>5
  <2>2. \A k \in P : k <= 1 \/ i + 1 <= k
    BY <1>2, <1>5
  <2>3. \A k \in P : i + 1 <= k
    BY <1>1, <2>1, <2>2
  <2>4. QED
    BY <1>3, <2>1, <2>3
<1>6. ASSUME NEW i \in Q
      PROVE  /\ (\A k \in Q : k <= i) =>
                  /\ config'[i].op = "subscribe" <=> subscribed'[t][r] = "yes"
                  /\ config'[i].op = "subscribe" =>
                       config'[i].pipe = gen'[t][r] /\ gen'[t][r] > 0
             /\ \A j \in Q :
                  i < j /\ (\A k \in Q : k <= i \/ j <= k) =>
                    (config'[i].op = "subscribe" <=> ~(config'[j].op = "subscribe"))
             /\ config'[i].op = "subscribe" => config'[i].pipe <= gen'[t][r]
  BY TakeLeaves DEF Q
<1>7. /\ P = {} => IF subscribed[t][r] = "yes"
                   THEN sendingList[t][r] = gen[t][r] /\ gen[t][r] > 0
                   ELSE sendingList[t][r] = 0
      /\ sendingList[t][r] <= gen[t][r]
      /\ current = t /\ r \in to_remove => sendingList[t][r] # gen[t][r]
  BY DEF Tracked, P
<1>8. QED
  BY <1>4, <1>5, <1>6, <1>7, Zenon DEF Tracked, Q

\* The gateway serves this subscription's request (send() is not running).
LEMMA TakeOwnTracked ==
  ASSUME TypeOK, config # <<>>, config' = Tail(config), UNCHANGED <<subscribed, gen>>,
         NEW t \in Topics, NEW r \in Receivers, Tracked(t, r), current' # t,
         NEW req \in Requests, req = config[1], 1 \in Pending(t, r),
         sendingList'[t][r] = IF req.op # "subscribe" THEN 0
                              ELSE IF sendingList[t][r] = 0 THEN req.pipe
                              ELSE sendingList[t][r]
  PROVE  Tracked(t, r)'
<1> DEFINE P == Pending(t, r)
           Q == Pending(t, r)'
<1>0. config \in Seq(Requests)
  BY DEF TypeOK
<1>1. \A i \in P : i \in Nat /\ i >= 1 /\ (i > 1 => i - 1 \in Q)
  BY <1>0, TailPending
<1>2. \A i \in Q :
           /\ i \in Nat /\ i >= 1 /\ i + 1 \in P /\ config'[i] = config[i + 1]
           /\ (\A k \in Q : i <= k) => (\A k \in P : k <= 1 \/ i + 1 <= k)
  BY ShiftedPlaces
<1>3. \A m \in P :
        /\ (\A k \in P : m <= k) =>
             (config[m].op = "subscribe" => sendingList[t][r] = 0)
        /\ (\A k \in P : k <= m) =>
             /\ config[m].op = "subscribe" <=> subscribed[t][r] = "yes"
             /\ config[m].op = "subscribe" => config[m].pipe = gen[t][r] /\ gen[t][r] > 0
        /\ \A j \in P :
             m < j /\ (\A k \in P : k <= m \/ j <= k) =>
               (config[m].op = "subscribe" <=> ~(config[j].op = "subscribe"))
        /\ config[m].op = "subscribe" => config[m].pipe <= gen[t][r]
  BY TrackedRequests
<1>4. 1 \in P
  OBVIOUS
<1>5. gen[t][r] \in Nat
  <2>1. gen[t][r] \in 0 .. MaxGen
    BY PairValue DEF TypeOK
  <2>2. QED
    BY <2>1, ConstantsAssumption DEF ConstantsAssumption
<1> HIDE DEF P, Q
<1>6. req.op = "subscribe" => sendingList[t][r] = 0
  <2>1. \A k \in P : 1 <= k
    BY <1>1
  <2>2. QED
    BY <1>3, <1>4, <2>1
<1>7. sendingList'[t][r] = IF req.op = "subscribe" THEN req.pipe ELSE 0
  BY <1>6
<1>8. sendingList'[t][r] <= gen'[t][r]
  <2>1. req.op = "subscribe" => req.pipe <= gen[t][r]
    BY <1>3, <1>4
  <2>2. QED
    BY <1>5, <1>7, <2>1
<1>9. ASSUME Q = {}
      PROVE  IF subscribed'[t][r] = "yes"
             THEN sendingList'[t][r] = gen'[t][r] /\ gen'[t][r] > 0
             ELSE sendingList'[t][r] = 0
  <2>1. \A k \in P : k <= 1
    BY <1>1, <1>9
  <2>2. /\ req.op = "subscribe" <=> subscribed[t][r] = "yes"
        /\ req.op = "subscribe" => req.pipe = gen[t][r] /\ gen[t][r] > 0
    BY <1>3, <1>4, <2>1
  <2>3. QED
    BY <1>7, <2>2
<1>10. ASSUME NEW i \in Q, \A k \in Q : i <= k, config'[i].op = "subscribe"
       PROVE  sendingList'[t][r] = 0
  <2>1. i \in Nat /\ i >= 1 /\ i + 1 \in P /\ config[i + 1].op = "subscribe"
    BY <1>2, <1>10
  <2>2. 1 < i + 1 /\ \A k \in P : k <= 1 \/ i + 1 <= k
    BY <1>2, <1>10, <2>1
  <2>3. ~(req.op = "subscribe")
    BY <1>3, <1>4, <2>1, <2>2
  <2>4. QED
    BY <1>7, <2>3
<1>11. ASSUME NEW i \in Q
       PROVE  /\ (\A k \in Q : k <= i) =>
                   /\ config'[i].op = "subscribe" <=> subscribed'[t][r] = "yes"
                   /\ config'[i].op = "subscribe" =>
                        config'[i].pipe = gen'[t][r] /\ gen'[t][r] > 0
              /\ \A j \in Q :
                   i < j /\ (\A k \in Q : k <= i \/ j <= k) =>
                     (config'[i].op = "subscribe" <=> ~(config'[j].op = "subscribe"))
              /\ config'[i].op = "subscribe" => config'[i].pipe <= gen'[t][r]
  BY TakeLeaves DEF Q
<1>12. QED
  BY <1>8, <1>9, <1>10, <1>11, Zenon DEF Tracked, Q

AllTracked == \A t \in Topics, r \in Receivers : <<t, r>> \notin Restarts => Tracked(t, r)

\* A subscriber's own step.
LEMMA SubscriberKeepsTracked ==
  ASSUME TypeOK, TypeOK', AllTracked, NEW t \in Topics, NEW r \in Receivers,
         Subscriber(t, r)
  PROVE  AllTracked'
<1>0. /\ subscribed \in PerPair({"no", "yes", "recovering"})
      /\ gen \in PerPair(0 .. MaxGen) /\ gen' \in PerPair(0 .. MaxGen)
      /\ gen[t][r] \in 0 .. MaxGen /\ gen'[t][r] \in 0 .. MaxGen /\ 0 \in 0 .. MaxGen
  <2>1. gen \in PerPair(0 .. MaxGen) /\ gen' \in PerPair(0 .. MaxGen)
    BY DEF TypeOK
  <2>2. gen[t][r] \in 0 .. MaxGen /\ gen'[t][r] \in 0 .. MaxGen
    BY <2>1, PairValue
  <2>3. QED
    BY <2>1, <2>2, ConstantsAssumption DEF TypeOK, ConstantsAssumption
<1>1. UNCHANGED <<sendingList, current, to_remove>>
  BY DEF Subscriber, Subscribe, Unsubscribe, RecoverUnsubscribe, RecoverResubscribe,
     Restart, Receive, tables, gatewayVars
<1>2. CASE Receive(t, r)
  <2>1. ASSUME NEW u \in Topics, NEW s \in Receivers, Tracked(u, s)
        PROVE  Tracked(u, s)'
    <3>1. UNCHANGED <<config, gen, subscribed>>
      BY <1>2 DEF Receive
    <3>2. current' = u /\ s \in to_remove' => sendingList'[u][s] # gen[u][s]
      BY <1>1, <2>1 DEF Tracked
    <3>3. QED
      BY <1>1, <2>1, <3>1, <3>2, UntouchedTracked
  <2>2. QED
    BY <2>1 DEF AllTracked
<1>3. ASSUME ~Receive(t, r)
      PROVE  \E req \in Requests :
               /\ config' = Append(config, req) /\ req.topic = t /\ req.to = r
               /\ \/ <<t, r>> \in Restarts
                  \/ /\ \/ gen'[t][r] = gen[t][r]
                        \/ gen'[t][r] = gen[t][r] + 1 /\ subscribed[t][r] # "yes"
                     /\ \/ /\ req.op = "subscribe" /\ req.pipe = gen'[t][r]
                           /\ gen'[t][r] > 0
                           /\ subscribed[t][r] # "yes" /\ subscribed'[t][r] = "yes"
                        \/ /\ req.op = "unsubscribe"
                           /\ subscribed[t][r] = "yes" /\ subscribed'[t][r] # "yes"
  <2>1. CASE Unsubscribe(t, r) \/ RecoverUnsubscribe(t, r)
    <3> DEFINE req == Request("unsubscribe", t, r, 0)
    <3>1. subscribed[t][r] = "yes" /\ subscribed'[t][r] # "yes" /\ gen' = gen
      BY <1>0, <2>1 DEF Unsubscribe, RecoverUnsubscribe, PerPair
    <3>2. req \in Requests
      BY <1>0, RequestType DEF Ops
    <3>3. req.topic = t /\ req.to = r /\ req.op = "unsubscribe"
      BY DEF Request
    <3>4. config' = Append(config, req)
      BY <2>1 DEF Unsubscribe, RecoverUnsubscribe, PutConfig
    <3>5. QED
      BY <3>1, <3>2, <3>3, <3>4
  <2>2. CASE Subscribe(t, r) \/ RecoverResubscribe(t, r) \/ Restart(t, r)
    <3> DEFINE req == Request("subscribe", t, r, gen'[t][r])
    <3>1. req \in Requests
      BY <1>0, RequestType DEF Ops
    <3>2. req.topic = t /\ req.to = r /\ req.op = "subscribe" /\ req.pipe = gen'[t][r]
      BY DEF Request
    <3>3. config' = Append(config, req)
      BY <2>2 DEF Subscribe, RecoverResubscribe, Restart, PutConfig
    <3>4. CASE Subscribe(t, r) \/ RecoverResubscribe(t, r)
      <4>1. subscribed[t][r] # "yes" /\ subscribed'[t][r] = "yes"
        BY <1>0, <3>4 DEF Subscribe, RecoverResubscribe, PerPair
      <4>2. \/ gen' = gen /\ gen[t][r] # 0
            \/ gen' = [gen EXCEPT ![t][r] = gen[t][r] + 1]
        BY <1>0, <3>4 DEF Subscribe, RecoverResubscribe, NewPipe, PerPair
      <4>3. \/ gen'[t][r] = gen[t][r] /\ gen[t][r] # 0
            \/ gen'[t][r] = gen[t][r] + 1
        BY <1>0, <4>2 DEF PerPair
      <4>4. gen[t][r] \in Nat /\ gen'[t][r] \in Nat
        BY <1>0, ConstantsAssumption DEF ConstantsAssumption
      <4>5. gen'[t][r] > 0
        BY <4>3, <4>4
      <4>6. QED
        BY <3>1, <3>2, <3>3, <4>1, <4>3, <4>5
    <3>5. CASE Restart(t, r)
      BY <3>1, <3>2, <3>3, <3>5 DEF Restart
    <3>6. QED
      BY <2>2, <3>4, <3>5
  <2>3. QED
    BY <1>3, <2>1, <2>2 DEF Subscriber
<1>4. CASE ~Receive(t, r)
  <2>1. PICK req \in Requests :
               /\ config' = Append(config, req) /\ req.topic = t /\ req.to = r
               /\ \/ <<t, r>> \in Restarts
                  \/ /\ \/ gen'[t][r] = gen[t][r]
                        \/ gen'[t][r] = gen[t][r] + 1 /\ subscribed[t][r] # "yes"
                     /\ \/ /\ req.op = "subscribe" /\ req.pipe = gen'[t][r]
                           /\ gen'[t][r] > 0
                           /\ subscribed[t][r] # "yes" /\ subscribed'[t][r] = "yes"
                        \/ /\ req.op = "unsubscribe"
                           /\ subscribed[t][r] = "yes" /\ subscribed'[t][r] # "yes"
    BY <1>3, <1>4
  <2>2. <<t, r>> \notin Restarts => Tracked(t, r)'
    <3>1. <<t, r>> \notin Restarts => Tracked(t, r)
      BY DEF AllTracked
    <3>2. QED
      BY <1>1, <2>1, <3>1, PutTracked
  <2>3. ASSUME NEW u \in Topics, NEW s \in Receivers, u # t \/ s # r, Tracked(u, s)
        PROVE  Tracked(u, s)'
    <3>1. subscribed'[u][s] = subscribed[u][s]
      BY <1>0, <2>3 DEF Subscriber, Subscribe, Unsubscribe, RecoverUnsubscribe,
         RecoverResubscribe, Restart, Receive, PerPair
    <3>2. gen'[u][s] = gen[u][s]
      BY <1>0, <2>3 DEF Subscriber, Subscribe, Unsubscribe, RecoverUnsubscribe,
         RecoverResubscribe, Restart, Receive, NewPipe, PerPair
    <3>3. req.topic # u \/ req.to # s
      BY <2>1, <2>3
    <3>4. QED
      BY <1>1, <2>1, <2>3, <3>1, <3>2, <3>3, PutElsewhereTracked
  <2>4. QED
    BY <2>2, <2>3 DEF AllTracked
<1>5. QED
  BY <1>2, <1>4

\* The gateway serving a request: send() is not running.
LEMMA TakeConfigKeepsTracked ==
  ASSUME TypeOK, AllTracked, TakeConfig, current = Idle
  PROVE  AllTracked'
<1>0. /\ config \in Seq(Requests) /\ config # <<>> /\ config' = Tail(config)
      /\ UNCHANGED <<subscribed, gen, current, to_remove>>
      /\ Head(config) \in Requests
  BY DEF TakeConfig, TypeOK, receiverVars
<1>1. PICK req \in Requests : req = Head(config)
  BY <1>0
<1>2. PICK t \in Topics, r \in Receivers : t = req.topic /\ r = req.to
  BY <1>1 DEF Requests
<1>3. sendingList \in PerPair(0 .. MaxGen)
  BY DEF TypeOK
<1>4. ASSUME Tracked(t, r)
      PROVE  Tracked(t, r)'
  <2>1. sendingList'[t][r] = IF req.op # "subscribe" THEN 0
                             ELSE IF sendingList[t][r] = 0 THEN req.pipe
                             ELSE sendingList[t][r]
    BY <1>1, <1>2, <1>3 DEF TakeConfig, HandleSubscribe, HandleUnsubscribe, PerPair
  <2>2. 1 \in Pending(t, r) /\ config[1] = Head(config)
    BY <1>0, <1>1, <1>2, TailPending
  <2>3. current' # t
    BY <1>0, ConstantsAssumption DEF ConstantsAssumption
  <2>4. QED
    BY <1>0, <1>1, <1>4, <2>1, <2>2, <2>3, TakeOwnTracked
<1>5. ASSUME NEW u \in Topics, NEW s \in Receivers, u # t \/ s # r, Tracked(u, s)
      PROVE  Tracked(u, s)'
  <2>1. sendingList'[u][s] = sendingList[u][s]
    BY <1>1, <1>2, <1>3, <1>5
    DEF TakeConfig, HandleSubscribe, HandleUnsubscribe, PerPair
  <2>2. Head(config).topic # u \/ Head(config).to # s
    BY <1>1, <1>2, <1>5
  <2>3. QED
    BY <1>0, <1>5, <2>1, <2>2, TakeElsewhereTracked
<1>6. QED
  BY <1>4, <1>5 DEF AllTracked

LEMMA InitTracked == Init => TrackedInv
<1> SUFFICES ASSUME Init PROVE TrackedInv
  OBVIOUS
<1>1. ASSUME NEW t \in Topics, NEW r \in Receivers
      PROVE  Tracked(t, r)
  <2>1. /\ config = <<>> /\ subscribed[t][r] = "no" /\ sendingList[t][r] = 0
        /\ gen[t][r] = 0 /\ to_remove = {}
    BY <1>1 DEF Init, Everywhere
  <2>2. Pending(t, r) = {}
    BY <2>1 DEF Pending
  <2>3. QED
    BY <2>1, <2>2 DEF Tracked
<1>2. QED
  BY <1>1, InitApproval DEF Init, TrackedInv

LEMMA StepTracked == TrackedInv /\ [Next]_vars => TrackedInv'
<1> SUFFICES ASSUME TrackedInv, [Next]_vars PROVE TrackedInv'
  OBVIOUS
<1>0. /\ TypeOK /\ ApprovalInv /\ AllTracked
      /\ current # Idle => phase # "Config"
  BY DEF TrackedInv, ApprovalInv, AllTracked
<1>1. ApprovalInv' /\ TypeOK'
  BY <1>0, StepApproval, StepType
<1>2. ASSUME AllTracked', current' # Idle => phase' # "Config"
      PROVE  TrackedInv'
  BY <1>1, <1>2 DEF TrackedInv, AllTracked
<1>3. ASSUME UNCHANGED <<config, gen, subscribed, sendingList>>,
             current' # Idle => phase' # "Config",
             \A t \in Topics, r \in Receivers :
               current' = t /\ r \in to_remove' /\ Tracked(t, r) =>
                 sendingList[t][r] # gen[t][r]
      PROVE  TrackedInv'
  <2>1. ASSUME NEW t \in Topics, NEW r \in Receivers, Tracked(t, r)
        PROVE  Tracked(t, r)'
    BY <1>0, <1>1, <1>3, <2>1, UntouchedTracked
  <2>2. AllTracked'
    BY <1>0, <2>1 DEF AllTracked
  <2>3. QED
    BY <1>2, <1>3, <2>2
<1>4. ASSUME UNCHANGED <<config, gen, subscribed, sendingList, current, to_remove, phase>>
      PROVE  TrackedInv'
  <2>1. \A t \in Topics, r \in Receivers :
          current' = t /\ r \in to_remove' /\ Tracked(t, r) => sendingList[t][r] # gen[t][r]
    BY <1>4 DEF Tracked
  <2>2. QED
    BY <1>0, <1>3, <1>4, <2>1
<1>5. CASE UNCHANGED vars
  BY <1>4, <1>5 DEF vars, gatewayVars, tables, receiverVars
<1>6. ASSUME NEW t \in Topics, Send(t) \/ SendDropOld(t)
      PROVE  TrackedInv'
  BY <1>4, <1>6 DEF Send, SendDropOld, gatewayVars, tables, receiverVars
<1>7. ASSUME NEW t \in Topics, NEW r \in Receivers, Subscriber(t, r)
      PROVE  TrackedInv'
  <2>1. AllTracked'
    BY <1>0, <1>1, <1>7, SubscriberKeepsTracked
  <2>2. UNCHANGED <<current, phase>>
    BY <1>7 DEF Subscriber, Subscribe, Unsubscribe, RecoverUnsubscribe,
       RecoverResubscribe, Restart, Receive, gatewayVars
  <2>3. QED
    BY <1>0, <1>2, <2>1, <2>2
<1>8. ASSUME NEW m, BeginSend(m), current = Idle, phase' # "Config",
             UNCHANGED <<config, gen, subscribed, sendingList>>
      PROVE  TrackedInv'
  <2>1. current' = Idle \/ to_remove' = {}
    BY <1>8 DEF BeginSend
  <2>2. \A t \in Topics : t # Idle
    BY ConstantsAssumption DEF ConstantsAssumption
  <2>3. QED
    BY <1>3, <1>8, <2>1, <2>2
<1>9. ASSUME NEW q \in MessageQueues, TakeMessage(q)
      PROVE  TrackedInv'
  BY <1>8, <1>9 DEF TakeMessage, tables, receiverVars, MessageQueues
<1>10. CASE TakeImage
  BY <1>8, <1>10 DEF TakeImage, tables, receiverVars
<1>11. ASSUME NEW x \in Receivers, Deliver(x)
       PROVE  TrackedInv'
  <2>1. /\ UNCHANGED <<config, gen, subscribed, sendingList, phase, current>>
        /\ to_remove' \subseteq to_remove \cup {x}
        /\ x \in to_remove' => x \in to_remove \/ sendingList[current][x] # gen[current][x]
    BY <1>11 DEF Deliver, tables
  <2>2. \A t \in Topics, r \in Receivers :
          current' = t /\ r \in to_remove' /\ Tracked(t, r) => sendingList[t][r] # gen[t][r]
    BY <2>1 DEF Tracked
  <2>3. QED
    BY <1>0, <1>3, <2>1, <2>2
<1>12. CASE FinishSend
  <2>1. /\ UNCHANGED <<config, gen, subscribed>> /\ current' = Idle
        /\ current \in Topics
    BY <1>0, <1>12 DEF FinishSend, receiverVars, TypeOK
  <2>2. ASSUME NEW t \in Topics, NEW r \in Receivers, Tracked(t, r)
        PROVE  Tracked(t, r)'
    <3>1. sendingList \in [Topics -> [Receivers -> 0 .. MaxGen]]
      BY <1>0 DEF TypeOK, PerPair
    <3>2. sendingList'[t][r] = IF t = current /\ r \in to_remove THEN 0
                               ELSE sendingList[t][r]
      BY <1>12, <2>1, <3>1 DEF FinishSend
    <3>3. t = current /\ r \in to_remove => sendingList[t][r] # gen[t][r]
      BY <2>2 DEF Tracked
    <3>4. current' # t
      BY <2>1, ConstantsAssumption DEF ConstantsAssumption
    <3>5. QED
      BY <1>0, <1>1, <2>1, <2>2, <3>2, <3>3, <3>4, UntouchedTracked
  <2>3. QED
    BY <1>0, <1>2, <2>1, <2>2 DEF AllTracked
<1>13. CASE TakeConfig
  <2>1. current = Idle /\ current' = current
    BY <1>0, <1>13 DEF TakeConfig
  <2>2. AllTracked'
    BY <1>0, <1>13, <2>1, TakeConfigKeepsTracked
  <2>3. QED
    BY <1>2, <2>1, <2>2
<1>14. CASE EndPhase
  <2>1. UNCHANGED <<config, gen, subscribed, sendingList>> /\ current' = Idle
    BY <1>14 DEF EndPhase, tables, receiverVars
  <2>2. \A t \in Topics : t # Idle
    BY ConstantsAssumption DEF ConstantsAssumption
  <2>3. QED
    BY <1>3, <2>1, <2>2
<1>15. QED
  BY <1>5, <1>6, <1>7, <1>9, <1>10, <1>11, <1>12, <1>13, <1>14 DEF Next, Gateway

\* A receiver whose subscription has been served gets the messages, although
\* pipes fail under the gateway and are recovered in any order with everything
\* else; only a receiver whose process was started again without an unsubscribe
\* is left out.
THEOREM SubscribersAreRouted == Spec => []SubscribedIsRouted
<1>1. TrackedInv => SubscribedIsRouted
  <2> SUFFICES ASSUME TrackedInv, NEW t \in Topics, NEW r \in Receivers,
                      <<t, r>> \notin Restarts,
                      subscribed[t][r] = "yes", Pending(t, r) = {}
               PROVE  sendingList[t][r] = gen[t][r] /\ approved[t] > 0
    BY DEF SubscribedIsRouted
  <2>1. Tracked(t, r) /\ Held(t, r)
    BY DEF TrackedInv, Held
  <2>2. sendingList[t][r] = gen[t][r]
    BY <2>1 DEF Tracked
  <2>3. r \in Holders(t) /\ IsFiniteSet(Holders(t))
    BY <2>1, FS_Subset, ConstantsAssumption DEF Holders, ConstantsAssumption
  <2>4. Cardinality(Holders(t)) # 0 /\ Cardinality(Holders(t)) \in Nat
    BY <2>3, FS_EmptySet, FS_CardinalityType
  <2>5. approved[t] \in Nat /\ approved[t] >= Cardinality(Holders(t))
    BY DEF TrackedInv, ApprovalInv, TypeOK
  <2>6. QED
    BY <2>2, <2>4, <2>5
<1>2. QED
  BY <1>1, InitTracked, StepTracked, PTL DEF Spec
=============================================================================
