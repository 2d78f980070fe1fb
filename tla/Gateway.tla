------------------------------ MODULE Gateway ------------------------------
(***************************************************************************)
(* The message bus: the thread of gateway/threads/threadGateway.py, with   *)
(* the multiprocessing queues it drains, the senders that fill them        *)
(* (messageHandlerSender.send) and the subscription life cycle of          *)
(* messageHandlerSubscriber (subscribe, unsubscribe, _recover_pipe).       *)
(*                                                                         *)
(* A topic is a key (Owner, msgID).  A pipe is named by the generation of  *)
(* the subscriber that created it: 0 is "no pipe", and creating a new pipe *)
(* closes the subscriber's previous one.  A message is its topic: the      *)
(* gateway never looks at the value.                                       *)
(*                                                                         *)
(* An operator named X_Something before an operator X is not part of the   *)
(* specification: it is X with a plausible programming error, used to see  *)
(* that the properties notice it (README, section 2).                     *)
(***************************************************************************)
EXTENDS Naturals, Sequences, FiniteSets

CONSTANTS
  Topics,        \* the (Owner, msgID) keys of allMessages.py
  Idle,          \* "send() is not running"; no topic
  Receivers,     \* the receiver names (class names of the subscribing objects)
  Interest,      \* who subscribes to what: a subset of Topics \X Receivers
  QueueOf,       \* the queue each topic is put on
  Limit,         \* the batch limit of each drained queue
  Capacity,      \* maxsize of a drop-old queue; elsewhere a bound of the model
  PipeCap,       \* messages an OS pipe holds before its writer blocks
  MaxConfig,     \* bound on the length of the Config queue
  MaxGen,        \* bound on the pipes one subscriber creates
  Recovers,      \* subscriptions whose pipe may fail and be replaced
  Restarts       \* subscriptions whose process may die and be started again

BatchQueues == {"Critical", "Warning", "General", "Dashboard", "Config"}
MessageQueues == {"Critical", "Warning", "General", "Image", "Dashboard"}
DropOldQueues == {"Image", "Dashboard"}
Ops == {"subscribe", "unsubscribe"}

ASSUME ConstantsAssumption ==
  /\ Idle \notin Topics
  /\ IsFiniteSet(Receivers)
  /\ Interest \subseteq Topics \X Receivers
  /\ QueueOf \in [Topics -> MessageQueues]
  /\ Limit \in [BatchQueues -> Nat \ {0}]
  /\ Capacity \in [MessageQueues -> Nat \ {0}]
  /\ PipeCap \in Nat \ {0} /\ MaxConfig \in Nat /\ MaxGen \in Nat
  /\ Recovers \subseteq Interest /\ Restarts \subseteq Interest

Requests == [op : Ops, topic : Topics, to : Receivers, pipe : 0 .. MaxGen]

VARIABLES
  \* queues shared by all processes
  queue,        \* queuesList without "Config"
  config,       \* queuesList["Config"]
  \* the gateway thread
  alive,        \* FALSE once an exception left thread_work
  phase,        \* the queue thread_work is at
  processed,    \* what the current batch has taken
  current,      \* the message send() is delivering, or Idle
  todo,         \* receivers send() has still to write to
  to_remove,    \* receivers whose pipe turned out dead
  sendingList,  \* sendingList[t][r]: the pipe registered, 0 if none
  approved,     \* how often the topic occurs in messageApproved
  \* subscribers
  subscribed,   \* "no", "yes", or "recovering" inside _recover_pipe
  gen,          \* the subscriber's current pipe
  inbox,        \* how many messages that pipe holds
  \* history
  overtaken     \* General messages taken while a Critical one was waiting

gatewayVars == <<alive, phase, processed, current, todo, to_remove>>
tables == <<sendingList, approved>>
receiverVars == <<subscribed, gen, inbox>>
vars == <<queue, config, gatewayVars, tables, receiverVars, overtaken>>

PerPair(S) == [Topics -> [Receivers -> S]]
Everywhere(x) == [t \in Topics |-> [r \in Receivers |-> x]]

TypeOK ==
  /\ queue \in [MessageQueues -> Seq(Topics)]
  /\ config \in Seq(Requests)
  /\ alive \in BOOLEAN
  /\ phase \in BatchQueues \cup {"Image"}
  /\ processed \in Nat
  /\ processed <= IF phase = "Image" THEN 0 ELSE Limit[phase]
  /\ current \in Topics \cup {Idle}
  /\ todo \subseteq Receivers
  /\ to_remove \subseteq Receivers
  /\ sendingList \in PerPair(0 .. MaxGen)
  /\ approved \in [Topics -> Nat]
  /\ subscribed \in PerPair({"no", "yes", "recovering"})
  /\ gen \in PerPair(0 .. MaxGen)
  /\ inbox \in PerPair(0 .. PipeCap)
  /\ overtaken \in Nat

Init ==
  /\ queue = [q \in MessageQueues |-> <<>>]
  /\ config = <<>>
  /\ alive = TRUE
  /\ phase = "Critical"
  /\ processed = 0
  /\ current = Idle
  /\ todo = {}
  /\ to_remove = {}
  /\ sendingList = Everywhere(0)
  /\ approved = [t \in Topics |-> 0]
  /\ subscribed = Everywhere("no")
  /\ gen = Everywhere(0)
  /\ inbox = Everywhere(0)
  /\ overtaken = 0
----------------------------------------------------------------------------
(* Senders. *)

\* put() on a plain queue.  The queue is unbounded in the code; Capacity is
\* this model's bound on it.
Send(t) ==
  LET q == QueueOf[t]
  IN /\ q \notin DropOldQueues
     /\ Len(queue[q]) < Capacity[q]
     /\ queue' = [queue EXCEPT ![q] = Append(@, t)]
     /\ UNCHANGED <<config, gatewayVars, tables, receiverVars, overtaken>>

\* A drop_old sender on a bounded queue: when it is full the oldest entry is
\* taken out first, and if get_nowait finds nothing to take (the feeder has not
\* flushed it yet) the new message is given up instead.
SendDropOld(t) ==
  LET q == QueueOf[t]
  IN /\ q \in DropOldQueues
     /\ \/ /\ Len(queue[q]) < Capacity[q]
           /\ queue' = [queue EXCEPT ![q] = Append(@, t)]
        \/ /\ Len(queue[q]) = Capacity[q]
           /\ \/ queue' = [queue EXCEPT ![q] = Append(Tail(@), t)]
              \/ UNCHANGED queue
     /\ UNCHANGED <<config, gatewayVars, tables, receiverVars, overtaken>>
----------------------------------------------------------------------------
(* Subscribers. *)

Request(o, t, r, g) == [op |-> o, topic |-> t, to |-> r, pipe |-> g]

PutConfig(req) ==
  /\ Len(config) < MaxConfig
  /\ config' = Append(config, req)

\* A pipe replaces the subscriber's previous one, which is closed.
NewPipe(t, r) ==
  /\ gen[t][r] < MaxGen
  /\ gen' = [gen EXCEPT ![t][r] = @ + 1]
  /\ inbox' = [inbox EXCEPT ![t][r] = 0]

\* __init__ with subscribe=True, or subscribe() after an unsubscribe().
Subscribe(t, r) ==
  /\ <<t, r>> \in Interest
  /\ subscribed[t][r] = "no"
  /\ IF gen[t][r] = 0 THEN NewPipe(t, r) ELSE UNCHANGED <<gen, inbox>>
  /\ PutConfig(Request("subscribe", t, r, gen'[t][r]))
  /\ subscribed' = [subscribed EXCEPT ![t][r] = "yes"]
  /\ UNCHANGED <<queue, gatewayVars, tables, overtaken>>

\* unsubscribe(): the request names the receiver only, not its pipe.
Unsubscribe(t, r) ==
  /\ subscribed[t][r] = "yes"
  /\ PutConfig(Request("unsubscribe", t, r, 0))
  /\ subscribed' = [subscribed EXCEPT ![t][r] = "no"]
  /\ UNCHANGED <<queue, gatewayVars, tables, gen, inbox, overtaken>>

\* _recover_pipe, first half: the receiving end failed.
RecoverUnsubscribe(t, r) ==
  /\ <<t, r>> \in Recovers
  /\ subscribed[t][r] = "yes"
  /\ PutConfig(Request("unsubscribe", t, r, 0))
  /\ subscribed' = [subscribed EXCEPT ![t][r] = "recovering"]
  /\ UNCHANGED <<queue, gatewayVars, tables, gen, inbox, overtaken>>

\* _recover_pipe, second half: close the pipe, make a new one, subscribe it.
RecoverResubscribe(t, r) ==
  /\ subscribed[t][r] = "recovering"
  /\ NewPipe(t, r)
  /\ PutConfig(Request("subscribe", t, r, gen'[t][r]))
  /\ subscribed' = [subscribed EXCEPT ![t][r] = "yes"]
  /\ UNCHANGED <<queue, gatewayVars, tables, overtaken>>

\* The subscriber object is built again under the same receiver name without
\* an unsubscribe: manage_process_life restarted its process.
Restart(t, r) ==
  /\ <<t, r>> \in Restarts
  /\ subscribed[t][r] = "yes"
  /\ NewPipe(t, r)
  /\ PutConfig(Request("subscribe", t, r, gen'[t][r]))
  /\ UNCHANGED <<queue, gatewayVars, tables, subscribed, overtaken>>

\* The subscriber takes the next message out of its pipe (_recv_once).
Receive(t, r) ==
  /\ inbox[t][r] > 0
  /\ inbox' = [inbox EXCEPT ![t][r] = @ - 1]
  /\ UNCHANGED <<queue, config, gatewayVars, tables, subscribed, gen,
                 overtaken>>
----------------------------------------------------------------------------
(* The gateway thread. *)

Registered(t) == {r \in Receivers : sendingList[t][r] # 0}

\* The batch of the queue thread_work is at still has room.
RoomInBatch_OffByOne(q) == processed <= Limit[q]
RoomInBatch(q) == processed < Limit[q]

\* The head of send(): an unapproved key is ignored; an approved key without an
\* entry in sendingList raises KeyError, which nothing catches.
BeginSend(m) ==
  IF approved[m] = 0
  THEN UNCHANGED <<alive, current, todo, to_remove>>
  ELSE IF Registered(m) = {}
  THEN /\ alive' = FALSE
       /\ UNCHANGED <<current, todo, to_remove>>
  ELSE /\ current' = m
       /\ todo' = Registered(m)
       /\ to_remove' = {}
       /\ UNCHANGED alive

\* How many General messages have passed a waiting Critical one.
CountOvertaking(q) ==
  overtaken' = IF queue["Critical"] = <<>> \/ q = "Critical" THEN 0
               ELSE IF q = "General" THEN overtaken + 1 ELSE overtaken

\* One turn of _drain_queue's loop.
TakeMessage(q) ==
  /\ alive /\ current = Idle
  /\ phase = q /\ q \in MessageQueues \ {"Image"}
  /\ RoomInBatch(q)
  /\ queue[q] # <<>>
  /\ queue' = [queue EXCEPT ![q] = Tail(@)]
  /\ processed' = processed + 1
  /\ BeginSend(Head(queue[q]))
  /\ CountOvertaking(q)
  /\ UNCHANGED <<config, phase, tables, receiverVars>>

\* Camera frames: the queue is emptied and only the newest frame is and
\* only while someone is subscribed.
TakeImage ==
  /\ alive /\ current = Idle
  /\ phase = "Image"
  /\ queue["Image"] # <<>>
  /\ LET newest == queue["Image"][Len(queue["Image"])]
     IN /\ approved[newest] > 0
        /\ BeginSend(newest)
  /\ queue' = [queue EXCEPT !["Image"] = <<>>]
  /\ phase' = "Dashboard"
  /\ UNCHANGED <<config, processed, tables, receiverVars, overtaken>>

\* pipe.send to one receiver: it blocks while the pipe is full and fails when
\* the receiver has closed it.
Deliver(r) ==
  LET t == current
  IN /\ alive /\ current # Idle /\ r \in todo
     /\ todo' = todo \ {r}
     /\ IF sendingList[t][r] = gen[t][r]
        THEN /\ inbox[t][r] < PipeCap
             /\ inbox' = [inbox EXCEPT ![t][r] = @ + 1]
             /\ UNCHANGED to_remove
        ELSE /\ to_remove' = to_remove \cup {r}
             /\ UNCHANGED inbox
     /\ UNCHANGED <<queue, config, alive, phase, processed, current, tables,
                    subscribed, gen, overtaken>>

\* The tail of send(): dead pipes leave sendingList, messageApproved stays.
FinishSend ==
  /\ alive /\ current # Idle /\ todo = {}
  /\ sendingList' = [sendingList EXCEPT ![current] =
                       [r \in Receivers |-> IF r \in to_remove THEN 0 ELSE @[r]]]
  /\ current' = Idle
  /\ to_remove' = {}
  /\ UNCHANGED <<queue, config, alive, phase, processed, todo, approved,
                 receiverVars, overtaken>>

\* subscribe(): an entry of the same receiver name is kept; the key is always
\* appended to messageApproved.
HandleSubscribe(t, r, g) ==
  /\ sendingList' = [sendingList EXCEPT ![t][r] = IF @ = 0 THEN g ELSE @]
  /\ approved' = [approved EXCEPT ![t] = @ + 1]

HandleUnsubscribe_KeepsApproval(t, r) ==
  /\ sendingList' = [sendingList EXCEPT ![t][r] = 0]
  /\ UNCHANGED approved
HandleUnsubscribe_DropsEveryApproval(t, r) ==
  /\ sendingList' = [sendingList EXCEPT ![t][r] = 0]
  /\ approved' = [approved EXCEPT ![t] = 0]
\* unsubscribe(): the entry goes, and one occurrence of the key.
HandleUnsubscribe(t, r) ==
  /\ sendingList' = [sendingList EXCEPT ![t][r] = 0]
  /\ approved' = [approved EXCEPT ![t] = IF @ > 0 THEN @ - 1 ELSE 0]

\* One turn of _process_config_messages' loop.
TakeConfig ==
  /\ alive /\ phase = "Config" /\ RoomInBatch("Config")
  /\ config # <<>>
  /\ config' = Tail(config)
  /\ processed' = processed + 1
  /\ LET req == Head(config)
     IN IF req.op = "subscribe"
        THEN HandleSubscribe(req.topic, req.to, req.pipe)
        ELSE HandleUnsubscribe(req.topic, req.to)
  /\ UNCHANGED <<queue, alive, phase, current, todo, to_remove,
                 receiverVars, overtaken>>

NextPhase_SkipsConfig ==
  [Critical |-> "Warning", Warning |-> "General", General |-> "Image",
   Image |-> "Dashboard", Dashboard |-> "Critical", Config |-> "Critical"]
NextPhase_SkipsCritical ==
  [Critical |-> "Warning", Warning |-> "General", General |-> "Image",
   Image |-> "Dashboard", Dashboard |-> "Config", Config |-> "Warning"]
NextPhase ==
  [Critical |-> "Warning", Warning |-> "General", General |-> "Image",
   Image |-> "Dashboard", Dashboard |-> "Config", Config |-> "Critical"]

\* Is there nothing (more) to do in this phase?
PhaseDone ==
  CASE phase = "Image"  -> \A i \in DOMAIN queue["Image"] :
                             approved[queue["Image"][i]] = 0
    [] phase = "Config" -> config = <<>> \/ ~RoomInBatch("Config")
    [] OTHER            -> queue[phase] = <<>> \/ ~RoomInBatch(phase)

\* thread_work goes on to the next queue; after Config the next cycle starts.
EndPhase ==
  /\ alive /\ current = Idle
  /\ PhaseDone
  /\ phase' = NextPhase[phase]
  /\ processed' = 0
  /\ UNCHANGED <<queue, config, alive, current, todo, to_remove, tables,
                 receiverVars, overtaken>>

Gateway ==
  \/ \E q \in MessageQueues : TakeMessage(q)
  \/ TakeImage
  \/ \E r \in Receivers : Deliver(r)
  \/ FinishSend
  \/ TakeConfig
  \/ EndPhase

Subscriber(t, r) ==
  \/ Subscribe(t, r)
  \/ Unsubscribe(t, r)
  \/ RecoverUnsubscribe(t, r)
  \/ RecoverResubscribe(t, r)
  \/ Restart(t, r)
  \/ Receive(t, r)

Next ==
  \/ \E t \in Topics : Send(t) \/ SendDropOld(t)
  \/ \E t \in Topics, r \in Receivers : Subscriber(t, r)
  \/ Gateway

Spec == Init /\ [][Next]_vars

\* The gateway thread runs as long as it lives, and the drain threads of the
\* subscribers keep reading; nobody is obliged to send or to subscribe.
FairSpec ==
  /\ Spec
  /\ WF_vars(Gateway)
  /\ \A t \in Topics, r \in Receivers : WF_vars(Receive(t, r))
----------------------------------------------------------------------------
(* Properties. *)

\* The places on the Config queue that are about this subscription.
Pending(t, r) == {i \in 1 .. Len(config) : config[i].topic = t /\ config[i].to = r}

\* While pipes are only closed after an unsubscribe, messageApproved and
\* sendingList agree: a key is approved exactly as often as it has registered
\* pipes.  send() relies on it when it indexes sendingList with an approved key,
\* and unsubscribe() when it drops one occurrence of the key.
ApprovalsMatchRegistrations ==
  \A t \in Topics : approved[t] = Cardinality(Registered(t))

\* When pipes die under the gateway, send() drops them from sendingList alone:
\* what remains is that no registered pipe lacks its approval.
ApprovalsCoverRegistrations ==
  \A t \in Topics : approved[t] >= Cardinality(Registered(t))

\* No message makes send() raise KeyError: "Dropping dead pipe" and a request
\* for an unknown receiver are meant to be survived.  The exception would end
\* the gateway thread and with it every message exchange of the car.
GatewaySurvives == alive

\* A receiver whose subscribe() has been served (nothing of it is left on the
\* Config queue) is registered with its present pipe and its key is approved:
\* whatever others subscribe, unsubscribe or recover meanwhile, and in whatever
\* order that reaches the gateway, it gets the messages.
SubscribedIsRouted ==
  \A t \in Topics, r \in Receivers :
    /\ <<t, r>> \notin Restarts
    /\ subscribed[t][r] = "yes" /\ Pending(t, r) = {}
    => sendingList[t][r] = gen[t][r] /\ approved[t] > 0

\* "Critical > Warning > General": between two Critical messages, while one is
\* waiting, at most one batch of General messages is sent.
BoundedOvertaking == overtaken <= Limit["General"]

\* No queue is starved, whatever keeps arriving on the others: one that always
\* holds a message has its oldest one taken again and again.
NoQueueStarves ==
  \A q \in MessageQueues \ {"Image"} :
    []<>(queue[q] = <<>>) \/ []<><<queue[q] # <<>> /\ queue'[q] = Tail(queue[q])>>_queue

\* Every subscription is served although Config is the last queue of a cycle:
\* the batch limits keep a stream of messages from starving it.
SubscriptionServed ==
  \A t \in Topics, r \in Receivers :
    subscribed[t][r] = "yes" ~>
      (sendingList[t][r] = gen[t][r] \/ subscribed[t][r] # "yes")
----------------------------------------------------------------------------
(* Why the tables agree: the inductive invariant of a bus whose receivers   *)
(* subscribe and unsubscribe in turn.                                       *)

Disciplined == Recovers = {} /\ Restarts = {}

\* The requests of one subscription on the Config queue alternate, from the
\* opposite of what sendingList says to what the subscriber wants.
RequestsAlternate(t, r) ==
  LET P == Pending(t, r)
      wants(i) == config[i].op = "subscribe"
  IN /\ P = {} => (subscribed[t][r] = "yes" <=> sendingList[t][r] # 0)
     /\ \A i \in P :
          /\ (\A k \in P : i <= k) => (wants(i) <=> sendingList[t][r] = 0)
          /\ (\A k \in P : k <= i) => (wants(i) <=> subscribed[t][r] = "yes")
          /\ \A j \in P :
               i < j /\ (\A k \in P : k <= i \/ j <= k) => (wants(i) <=> ~wants(j))
          /\ wants(i) => config[i].pipe = gen[t][r]

PipeKnown(t, r) ==
  /\ subscribed[t][r] # "recovering"
  /\ sendingList[t][r] \in {0, gen[t][r]}
  /\ subscribed[t][r] = "yes" \/ Pending(t, r) # {} => gen[t][r] > 0

SendConsistent ==
  current # Idle =>
    phase # "Config" /\ todo \subseteq Registered(current) /\ to_remove = {}

RoutingInv ==
  /\ TypeOK
  /\ \A t \in Topics, r \in Receivers : RequestsAlternate(t, r) /\ PipeKnown(t, r)
  /\ SendConsistent
  /\ ApprovalsMatchRegistrations
  /\ GatewaySurvives
=============================================================================
