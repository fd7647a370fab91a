-------------------------- MODULE DeliveryProofs --------------------------
(***************************************************************************)
(* What is on its way between the coordinator and its nodes: at most one   *)
(* ping, and every sub-task a node is believed to run.                     *)
(***************************************************************************)
EXTENDS SafetyProofs

--------------------------------------------------------------------------
(* Where the messages of a queue are *)

\* The places of a queue that hold one of a set of messages.
Places(s, M) == {i \in DOMAIN s : s[i] \in M}

\* The same places once the first message was taken.
Earlier(P) == {i \in Nat \ {0} : i + 1 \in P}

\* Taking the first message moves every place by one.
LEMMA TailPlaces ==
    ASSUME NEW S, NEW s \in Seq(S), s # <<>>, NEW M
    PROVE  /\ Places(Tail(s), M) = Earlier(Places(s, M))
           /\ Head(s) \in M <=> 1 \in Places(s, M)
<1>1. /\ Tail(s) \in Seq(S) /\ Len(Tail(s)) = Len(s) - 1
      /\ \A i \in 1..Len(Tail(s)) : Tail(s)[i] = s[i + 1]
  BY HeadTailProperties
<1>2. /\ DOMAIN s = 1..Len(s) /\ Len(s) \in Nat \ {0}
      /\ DOMAIN Tail(s) = 1..Len(Tail(s)) /\ Head(s) = s[1]
  BY <1>1, LenProperties, EmptySeq
<1>3. \A i : i \in DOMAIN Tail(s) <=> i \in Nat \ {0} /\ i + 1 \in DOMAIN s
  BY <1>1, <1>2
<1> QED BY <1>1, <1>2, <1>3 DEF Places, Earlier

\* A message that is added gets the last place.
LEMMA AppendPlaces ==
    ASSUME NEW S, NEW s \in Seq(S), NEW e \in S, NEW M
    PROVE  /\ e \in M => Places(Append(s, e), M) = Places(s, M) \cup {Len(s) + 1}
           /\ e \notin M => Places(Append(s, e), M) = Places(s, M)
<1>1. Len(s) + 1 \notin DOMAIN s
  BY LenProperties
<1> QED BY <1>1, AppendAdds DEF Places

\* What is added elsewhere does not move the messages of M.
LEMMA GrowsPlaces ==
    ASSUME NEW old, NEW new, NEW msgs, Grows(old, new, msgs), NEW M, msgs \cap M = {}
    PROVE  Places(new, M) = Places(old, M)
BY DEF Grows, Places

--------------------------------------------------------------------------
(* Pings and their answers *)

PingsOf(n) == Places(nodes[n].queue, {m \in Outgoing : m.type = "PING"})
RepliesOf(n) ==
    Places(recvMessageQueue, {m \in Incoming : m.type = "NOTIFY" /\ m.from = n})
AtMostOne(P) == \A i, j \in P : i = j

\* A node has at most one ping that is not handled yet: on its way to the node
\* or on its way back, and none after the coordinator took its answer.
OnePing ==
    \A n \in DOMAIN nodes :
        /\ nodes[n].ping = "answered" => PingsOf(n) = {} /\ RepliesOf(n) = {}
        /\ PingsOf(n) = {} \/ RepliesOf(n) = {}
        /\ AtMostOne(PingsOf(n)) /\ AtMostOne(RepliesOf(n))

\* What a step may do about the ping of node n: leave it alone, send it, ...
PingLeft(n) ==
    /\ PingsOf(n)' = PingsOf(n) /\ RepliesOf(n)' = RepliesOf(n)
    /\ nodes'[n].ping = "answered" => nodes[n].ping = "answered"
PingSent(n) ==
    /\ Answered(n) /\ nodes'[n].ping = "awaiting"
    /\ PingsOf(n)' = PingsOf(n) \cup {Len(nodes[n].queue) + 1}
    /\ RepliesOf(n)' = RepliesOf(n)

\* ... write it into the socket and, if the node is well, get its answer, ...
PingWritten(n) ==
    /\ PingsOf(n)' = Earlier(PingsOf(n)) /\ nodes'[n].ping = nodes[n].ping
    /\ \/ RepliesOf(n)' = RepliesOf(n)
       \/ /\ 1 \in PingsOf(n)
          /\ RepliesOf(n)' = RepliesOf(n) \cup {Len(recvMessageQueue) + 1}

\* ... or take its answer.
ReplyTaken(n) ==
    /\ PingsOf(n)' = PingsOf(n) /\ RepliesOf(n)' = Earlier(RepliesOf(n))
    /\ nodes'[n].ping = "answered" => nodes[n].ping = "answered" \/ 1 \in RepliesOf(n)

PingStep(n) == PingLeft(n) \/ PingSent(n) \/ PingWritten(n) \/ ReplyTaken(n)

\* Whatever a step does about the ping of a node, one ping stays one.
LEMMA PingStepKeepsOne ==
    ASSUME OnePing, NEW n \in DOMAIN nodes, PingStep(n),
           nodes'[n].ping \in {"answered", "awaiting", "overdue"}
    PROVE  /\ nodes'[n].ping = "answered" => PingsOf(n)' = {} /\ RepliesOf(n)' = {}
           /\ PingsOf(n)' = {} \/ RepliesOf(n)' = {}
           /\ AtMostOne(PingsOf(n)') /\ AtMostOne(RepliesOf(n)')
<1> DEFINE P == PingsOf(n)
           R == RepliesOf(n)
<1>1. /\ nodes[n].ping = "answered" => P = {} /\ R = {}
      /\ P = {} \/ R = {}
      /\ AtMostOne(P) /\ AtMostOne(R)
  BY DEF OnePing
<1>2. \A S : AtMostOne(S) => AtMostOne(Earlier(S)) /\ (1 \in S => Earlier(S) = {})
  BY DEF AtMostOne, Earlier
<1>3. Earlier({}) = {} /\ AtMostOne({})
  BY DEF Earlier, AtMostOne
<1>4. \A x : AtMostOne({x})
  BY DEF AtMostOne
<1> HIDE DEF P, R
<1>5. CASE PingLeft(n)
  BY <1>1, <1>5 DEF PingLeft, P, R
<1>6. CASE PingSent(n)
  BY <1>1, <1>4, <1>6 DEF PingSent, Answered, P, R, AtMostOne
<1>7. CASE PingWritten(n)
  <2>1. PingsOf(n)' = Earlier(P) /\ nodes'[n].ping = nodes[n].ping
    BY <1>7 DEF PingWritten, P
  <2>2. CASE RepliesOf(n)' = R
    BY <1>1, <1>2, <1>3, <2>1, <2>2
  <2>3. CASE 1 \in P /\ RepliesOf(n)' = R \cup {Len(recvMessageQueue) + 1}
    <3>1. Earlier(P) = {} /\ R = {} /\ nodes[n].ping # "answered"
      BY <1>1, <1>2, <2>3
    <3>2. RepliesOf(n)' = {Len(recvMessageQueue) + 1}
      BY <2>3, <3>1
    <3> QED BY <1>3, <1>4, <2>1, <3>1, <3>2
  <2> QED BY <1>7, <2>2, <2>3 DEF PingWritten, P, R
<1>8. CASE ReplyTaken(n)
  BY <1>1, <1>2, <1>3, <1>8 DEF ReplyTaken, P, R
<1> QED BY <1>5, <1>6, <1>7, <1>8 DEF PingStep

\* Steps that add nothing to the queue of a node, or no ping.
LEMMA NoPingAdded ==
    ASSUME TypeOK, NEW n \in DOMAIN nodes,
           \/ nodes'[n].queue = nodes[n].queue
           \/ \E type \in {"TASK", "CANCEL"} : \E S : SentTo(n, type, S)
           \/ \E type \in {"ACCEPT", "REJECT"} :
                nodes'[n].queue = Append(nodes[n].queue, Msg(type, TASK_ID_NONE))
    PROVE  PingsOf(n)' = PingsOf(n)
<1> DEFINE M == {m \in Outgoing : m.type = "PING"}
<1>0. nodes[n].queue \in Seq(Outgoing)
  BY NodeShape DEF NodeRecord
<1>1. CASE \E type \in {"TASK", "CANCEL"} : \E S : SentTo(n, type, S)
  <2>1. PICK type \in {"TASK", "CANCEL"} : \E S : SentTo(n, type, S)
    BY <1>1
  <2>2. PICK S : SentTo(n, type, S)
    BY <2>1
  <2>3. {Msg(type, t) : t \in S} \cap M = {}
    BY DEF Msg
  <2> HIDE DEF M
  <2>4. Places(nodes'[n].queue, M) = Places(nodes[n].queue, M)
    BY <2>2, <2>3, GrowsPlaces DEF SentTo
  <2> QED BY <2>4 DEF PingsOf, M
<1>2. CASE \E type \in {"ACCEPT", "REJECT"} :
             nodes'[n].queue = Append(nodes[n].queue, Msg(type, TASK_ID_NONE))
  <2>1. PICK type \in {"ACCEPT", "REJECT"} :
          nodes'[n].queue = Append(nodes[n].queue, Msg(type, TASK_ID_NONE))
    BY <1>2
  <2>2. Msg(type, TASK_ID_NONE) \in Outgoing /\ Msg(type, TASK_ID_NONE) \notin M
    BY DEF Msg, Outgoing
  <2> HIDE DEF M
  <2>3. Places(nodes'[n].queue, M) = Places(nodes[n].queue, M)
    BY <1>0, <2>1, <2>2, AppendPlaces
  <2> QED BY <2>3 DEF PingsOf, M
<1>3. CASE nodes'[n].queue = nodes[n].queue
  BY <1>3 DEF PingsOf, Places
<1> QED BY <1>1, <1>2, <1>3

\* Steps that take nothing from the queue of received messages and add no
\* answer of node n.
LEMMA NoReplyAdded ==
    ASSUME TypeOK, NEW n,
           \/ recvMessageQueue' = recvMessageQueue
           \/ \E msg \in Incoming :
                /\ msg.type # "NOTIFY" \/ msg.from # n
                /\ recvMessageQueue' = Append(recvMessageQueue, msg)
    PROVE  RepliesOf(n)' = RepliesOf(n)
<1> DEFINE M == {m \in Incoming : m.type = "NOTIFY" /\ m.from = n}
<1>1. CASE \E msg \in Incoming :
             /\ msg.type # "NOTIFY" \/ msg.from # n
             /\ recvMessageQueue' = Append(recvMessageQueue, msg)
  <2>1. PICK msg \in Incoming :
          msg \notin M /\ recvMessageQueue' = Append(recvMessageQueue, msg)
    BY <1>1
  <2> HIDE DEF M
  <2>2. Places(recvMessageQueue', M) = Places(recvMessageQueue, M)
    BY <2>1, AppendPlaces DEF TypeOK
  <2> QED BY <2>2 DEF RepliesOf, M
<1>2. CASE recvMessageQueue' = recvMessageQueue
  BY <1>2 DEF RepliesOf, Places
<1> QED BY <1>1, <1>2

\* The handler takes the first message.
LEMMA HandlerPings ==
    ASSUME Base, HandlerStep, NEW n \in DOMAIN nodes \cap DOMAIN nodes'
    PROVE  ReplyTaken(n)
<1> DEFINE M == {m \in Incoming : m.type = "NOTIFY" /\ m.from = n}
<1>0. /\ recvMessageQueue \in Seq(Incoming) /\ recvMessageQueue # <<>>
      /\ recvMessageQueue' = Tail(recvMessageQueue)
      /\ Head(recvMessageQueue) \in Incoming
  <2>1. recvMessageQueue \in Seq(Incoming) /\ recvMessageQueue # <<>>
        /\ recvMessageQueue' = Tail(recvMessageQueue)
    BY DEF Base, TypeOK, HandlerStep, HandleResult, HandleHello, HandleNotify,
           HandleInvalid, Take
  <2> QED BY <2>1, HeadTailProperties
<1>1. /\ RepliesOf(n)' = Earlier(RepliesOf(n))
      /\ Head(recvMessageQueue) \in M <=> 1 \in RepliesOf(n)
  <2> HIDE DEF M
  <2>1. /\ Places(Tail(recvMessageQueue), M) = Earlier(Places(recvMessageQueue, M))
        /\ Head(recvMessageQueue) \in M <=> 1 \in Places(recvMessageQueue, M)
    BY <1>0, TailPlaces
  <2> QED BY <1>0, <2>1 DEF RepliesOf, M
<1> HIDE DEF M
<1>2. nodes[n] \in NodeRecord
  BY NodeShape DEF Base
<1>3. CASE HandleResult
  <2>1. nodes' = nodes
    BY <1>3 DEF HandleResult
  <2> QED BY <1>1, <2>1, NoPingAdded DEF ReplyTaken, Base
<1>4. CASE HandleHello
  <2>1. \/ nodes'[n] = nodes[n]
        \/ \E type \in {"ACCEPT", "REJECT"} :
             /\ nodes'[n].queue = Append(nodes[n].queue, Msg(type, TASK_ID_NONE))
             /\ nodes'[n].ping = nodes[n].ping
    BY <1>2, <1>4 DEF HandleHello, Send, NodeRecord
  <2> QED BY <1>1, <2>1, NoPingAdded DEF ReplyTaken, Base
<1>5. CASE HandleNotify
  <2>1. Head(recvMessageQueue).type = "NOTIFY"
    BY <1>5 DEF HandleNotify, Take
  <2>2. \/ nodes'[n] = nodes[n]
        \/ nodes'[n].queue = nodes[n].queue /\ Head(recvMessageQueue).from = n
    BY <1>2, <1>5 DEF HandleNotify, NodeRecord
  <2>3. Head(recvMessageQueue).from = n => 1 \in RepliesOf(n)
    BY <1>0, <1>1, <2>1 DEF M
  <2> QED BY <1>1, <2>2, <2>3, NoPingAdded DEF ReplyTaken, Base
<1>6. CASE HandleInvalid
  <2>1. nodes'[n] = nodes[n]
    BY <1>6 DEF HandleInvalid, TerminateNode
  <2> QED BY <1>1, <2>1, NoPingAdded DEF ReplyTaken, Base
<1> QED BY <1>3, <1>4, <1>5, <1>6 DEF HandlerStep

\* The writer of node m writes a message and the node may answer it.
LEMMA DeliverPings ==
    ASSUME Base, NEW m \in NodeId, Deliver(m),
           NEW n \in DOMAIN nodes \cap DOMAIN nodes'
    PROVE  PingLeft(n) \/ PingWritten(n)
<1> DEFINE M == {msg \in Outgoing : msg.type = "PING"}
           R == {msg \in Incoming : msg.type = "NOTIFY" /\ msg.from = n}
<1>0. /\ nodes[m] \in NodeRecord /\ m \in DOMAIN nodes /\ nodes[m].queue # <<>>
      /\ nodes' = [nodes EXCEPT ![m].queue = Tail(@)]
  BY NodeShape DEF Deliver, WriteMessage, Base
<1>1. CASE m # n
  <2>1. nodes'[n] = nodes[n]
    BY <1>0, <1>1
  <2>2. RepliesOf(n)' = RepliesOf(n)
    BY <1>1, DeliverAnswers, NoReplyAdded DEF Base
  <2> QED BY <2>1, <2>2, NoPingAdded DEF PingLeft, Base
<1>2. CASE m = n
  <2>1. /\ nodes[n].queue \in Seq(Outgoing) /\ nodes[n].queue # <<>>
        /\ nodes'[n].queue = Tail(nodes[n].queue)
        /\ nodes'[n].ping = nodes[n].ping
        /\ Head(nodes[n].queue) \in Outgoing
    <3>1. nodes[n].queue \in Seq(Outgoing) /\ nodes[n].queue # <<>>
      BY <1>0, <1>2 DEF NodeRecord
    <3> QED BY <1>0, <1>2, <3>1, HeadTailProperties DEF NodeRecord
  <2>2. /\ PingsOf(n)' = Earlier(PingsOf(n))
        /\ Head(nodes[n].queue).type = "PING" => 1 \in PingsOf(n)
    <3>1. Head(nodes[n].queue).type = "PING" => Head(nodes[n].queue) \in M
      BY <2>1
    <3> HIDE DEF M
    <3>2. /\ Places(Tail(nodes[n].queue), M) = Earlier(Places(nodes[n].queue, M))
          /\ Head(nodes[n].queue) \in M <=> 1 \in Places(nodes[n].queue, M)
      BY <2>1, TailPlaces
    <3> QED BY <2>1, <3>1, <3>2 DEF PingsOf, M
  <2>3. CASE RepliesOf(n)' = RepliesOf(n)
    BY <2>1, <2>2, <2>3 DEF PingWritten
  <2>4. CASE RepliesOf(n)' # RepliesOf(n)
    <3>1. PICK msg \in Incoming :
            /\ msg.from = n /\ recvMessageQueue' = Append(recvMessageQueue, msg)
            /\ msg.type = "NOTIFY" => Head(nodes[n].queue).type = "PING"
      BY <1>2, <2>4, DeliverAnswers, NoReplyAdded DEF Base
    <3>2. msg.type = "NOTIFY"
      BY <2>4, <3>1, NoReplyAdded DEF Base
    <3>3. msg \in R
      BY <3>1, <3>2
    <3>4. recvMessageQueue \in Seq(Incoming)
      BY DEF Base, TypeOK
    <3> HIDE DEF R
    <3>5. Places(recvMessageQueue', R)
            = Places(recvMessageQueue, R) \cup {Len(recvMessageQueue) + 1}
      BY <3>1, <3>3, <3>4, AppendPlaces
    <3>6. RepliesOf(n)' = RepliesOf(n) \cup {Len(recvMessageQueue) + 1}
      BY <3>5 DEF RepliesOf, R
    <3> QED BY <2>1, <2>2, <3>1, <3>2, <3>6 DEF PingWritten
  <2> QED BY <2>3, <2>4
<1> QED BY <1>1, <1>2

\* Erasing a node leaves the queues of the others alone.
LEMMA TerminateLeaves ==
    ASSUME NEW m, NEW th, TerminateNode(m, th), NEW n \in DOMAIN nodes'
    PROVE  n \in DOMAIN nodes /\ nodes'[n] = nodes[n]
BY DEF TerminateNode

\* What the steps do about the ping of a node that stays.
LEMMA NextPings ==
    ASSUME Base, Numbered, [Next]_vars, NEW n \in DOMAIN nodes \cap DOMAIN nodes'
    PROVE  PingStep(n)
<1> USE DEF Base
<1>0. nodes[n] \in NodeRecord
  BY NodeShape
<1>1. ASSUME \/ nodes'[n].queue = nodes[n].queue
             \/ \E type \in {"TASK", "CANCEL"} : \E S : SentTo(n, type, S),
             nodes'[n].ping = "answered" => nodes[n].ping = "answered",
             recvMessageQueue' = recvMessageQueue
      PROVE  PingLeft(n)
  BY <1>1, NoPingAdded, NoReplyAdded DEF PingLeft
<1>2. CASE HandlerStep
  BY <1>2, HandlerPings DEF PingStep
<1>3. CASE \E m \in NodeId : Deliver(m)
  BY <1>3, DeliverPings DEF PingStep
<1>4. CASE \E m \in NodeId : PeerStep(m)
  <2>1. PICK m \in NodeId : PeerStep(m)
    BY <1>4
  <2>2. nodes' = nodes
    BY <2>1 DEF PeerStep, PeerHello, PeerFinish, PeerLeave, PeerHang, PeerStray, coordVars
  <2>3. RepliesOf(n)' = RepliesOf(n)
    BY <2>1, PeerSpeaks, NoReplyAdded
  <2> QED BY <2>2, <2>3, NoPingAdded DEF PingLeft, PingStep
<1>5. CASE Scan
  <2>1. /\ SentTo(n, "CANCEL", RunningTasks(n)) \/ Pinged(n) \/ nodes'[n] = nodes[n]
        /\ recvMessageQueue' = recvMessageQueue
    BY <1>5, ScanFacts DEF Scan
  <2>2. CASE Pinged(n)
    <3> DEFINE M == {m \in Outgoing : m.type = "PING"}
    <3>1. /\ Msg("PING", TASK_ID_NONE) \in Outgoing /\ Msg("PING", TASK_ID_NONE) \in M
          /\ nodes[n].queue \in Seq(Outgoing)
      BY <1>0 DEF Msg, Outgoing, NodeRecord
    <3> HIDE DEF M
    <3>2. Places(nodes'[n].queue, M)
            = Places(nodes[n].queue, M) \cup {Len(nodes[n].queue) + 1}
      BY <2>2, <3>1, AppendPlaces DEF Pinged
    <3>3. PingsOf(n)' = PingsOf(n) \cup {Len(nodes[n].queue) + 1}
      BY <3>2 DEF PingsOf, M
    <3> QED BY <2>1, <2>2, <3>3, NoReplyAdded DEF Pinged, PingSent, PingStep
  <2>3. CASE SentTo(n, "CANCEL", RunningTasks(n))
    BY <1>1, <2>1, <2>3 DEF SentTo, PingStep
  <2>4. CASE nodes'[n] = nodes[n]
    BY <1>1, <2>1, <2>4 DEF PingStep
  <2> QED BY <2>1, <2>2, <2>3, <2>4
<1>6. CASE Operator
  <2>1. CASE \E g \in DOMAIN groups : CancelGroup(g)
    <3>1. PICK g \in DOMAIN groups : CancelGroup(g)
      BY <2>1
    <3>2. SentTo(n, "CANCEL", Victims(g) \cap nodes[n].tasks)
      BY <3>1, CancelFacts
    <3>3. recvMessageQueue' = recvMessageQueue
      BY <3>1 DEF CancelGroup
    <3> QED BY <1>1, <3>2, <3>3 DEF SentTo, PingStep
  <2>2. CASE \E kind \in Kinds, games \in GameCounts : RequestTask(kind, games)
    BY <1>1, <2>2 DEF RequestTask, PingStep
  <2>3. CASE \E m \in NodeId : CommandTerminate(m)
    BY <1>1, <2>3, TerminateLeaves DEF CommandTerminate, PingStep
  <2> QED BY <1>6, <2>1, <2>2, <2>3 DEF Operator
<1>7. CASE CreateStep
  <2>1. recvMessageQueue' = recvMessageQueue
    BY <1>7 DEF CreateStep, CreateGroup
  <2>2. CASE ~ \E i \in Parts(plan) : plan.ids[i] \notin DOMAIN nodes
    <3>1. \E S : SentTo(n, "TASK", S)
      BY <1>7, <2>2, CreateFacts DEF CreateStep
    <3> QED BY <1>1, <2>1, <3>1 DEF SentTo, PingStep
  <2>3. CASE \E i \in Parts(plan) : plan.ids[i] \notin DOMAIN nodes
    BY <1>1, <1>7, <2>1, <2>3 DEF CreateStep, CreateGroup, PingStep
  <2> QED BY <2>2, <2>3
<1>8. CASE AcceptorStep
  <2>1. n # nextNode
    BY BoundsAssumption DEF Numbered, TypeOK, NodeId
  <2>2. nodes'[n] = nodes[n] /\ recvMessageQueue' = recvMessageQueue
    BY <1>8, <2>1 DEF AcceptorStep, Accept, AcceptInsert
  <2> QED BY <1>1, <2>2 DEF PingStep
<1>9. CASE \E th \in Thread : BalanceStep(th)
  <2>1. PICK th \in Thread : BalanceTasks(th)
    BY <1>9 DEF BalanceStep
  <2>2. \E S : SentTo(n, "TASK", S)
    BY <2>1, BalanceFacts
  <2>3. recvMessageQueue' = recvMessageQueue
    BY <2>1 DEF BalanceTasks
  <2> QED BY <1>1, <2>2, <2>3 DEF SentTo, PingStep
<1>10. CASE \E m \in NodeId : ConnectionLost(m)
  BY <1>1, <1>10, TerminateLeaves DEF ConnectionLost, ReadEof, WriteFail, PingStep
<1>11. CASE \E m \in NodeId : Late(m)
  <2>1. PICK m \in NodeId : Late(m)
    BY <1>11
  <2>2. /\ nodes'[n].queue = nodes[n].queue
        /\ nodes'[n].ping = "answered" => nodes[n].ping = "answered"
        /\ recvMessageQueue' = recvMessageQueue
    BY <1>0, <2>1 DEF Late, Elapse, NodeRecord
  <2> QED BY <1>1, <2>2 DEF PingStep
<1>12. CASE CheckStep \/ UNCHANGED vars
  BY <1>1, <1>12 DEF CheckStep, Check, vars, PingStep
<1> QED BY <1>2, <1>3, <1>4, <1>5, <1>6, <1>7, <1>8, <1>9, <1>10, <1>11, <1>12
      DEF Next, ScanStep

\* Every step keeps OnePing: a node that is new has no message yet, and no
\* answer of an older node bears its id.
LEMMA NextOnePing == Base /\ Numbered /\ OnePing /\ [Next]_vars => OnePing'
<1> SUFFICES ASSUME Base, Numbered, OnePing, [Next]_vars, NEW n \in DOMAIN nodes'
             PROVE  /\ nodes'[n].ping = "answered" => PingsOf(n)' = {} /\ RepliesOf(n)' = {}
                    /\ PingsOf(n)' = {} \/ RepliesOf(n)' = {}
                    /\ AtMostOne(PingsOf(n)') /\ AtMostOne(RepliesOf(n)')
  BY DEF OnePing, AtMostOne
<1>1. CASE n \in DOMAIN nodes
  <2>1. nodes'[n].ping \in {"answered", "awaiting", "overdue"}
    BY NextBase DEF Base, TypeOK, NodeRecord
  <2> QED BY <1>1, <2>1, NextPings, PingStepKeepsOne
<1>2. CASE n \notin DOMAIN nodes
  <2>1. AcceptInsert /\ n = nextNode
    BY <1>2, NodeSteps DEF NoNewNode, AcceptInsert
  <2>2. nodes'[n].queue = <<>> /\ recvMessageQueue' = recvMessageQueue
    BY <2>1 DEF AcceptInsert, FreshNode
  <2>3. PingsOf(n)' = {}
    BY <2>2 DEF PingsOf, Places
  <2>4. RepliesOf(n)' = {}
    BY <2>1, <2>2, BoundsAssumption DEF Numbered, RepliesOf, Places, Base, TypeOK
  <2> QED BY <2>3, <2>4 DEF AtMostOne
<1> QED BY <1>1, <1>2

\* What the coordinator counts as outstanding is one ping, or nothing.
LEMMA OnePingIsEnough == TypeOK /\ OnePing => NoStaleReply
<1> SUFFICES ASSUME TypeOK, OnePing, NEW n \in DOMAIN nodes
             PROVE  Cardinality(Outstanding(n)) <=
                      (IF nodes[n].ping = "answered" THEN 0 ELSE 1)
  BY DEF NoStaleReply
<1>1. \A i \in DOMAIN nodes[n].queue : nodes[n].queue[i] \in Outgoing
  <2>1. nodes[n].queue \in Seq(Outgoing)
    BY NodeShape DEF NodeRecord
  <2> QED BY <2>1, LenProperties
<1>2. \A i \in DOMAIN recvMessageQueue : recvMessageQueue[i] \in Incoming
  BY LenProperties DEF TypeOK
<1>3. Outstanding(n) = (PingsOf(n) \X {"sent"}) \cup (RepliesOf(n) \X {"answered"})
  <2>1. PingsOf(n) = {i \in DOMAIN nodes[n].queue : nodes[n].queue[i].type = "PING"}
    BY <1>1 DEF PingsOf, Places
  <2>2. RepliesOf(n) = {i \in DOMAIN recvMessageQueue :
            recvMessageQueue[i].type = "NOTIFY" /\ recvMessageQueue[i].from = n}
    BY <1>2 DEF RepliesOf, Places
  <2> QED BY <2>1, <2>2 DEF Outstanding
<1>4. /\ nodes[n].ping = "answered" => Outstanding(n) = {}
      /\ Outstanding(n) = {} \/ \E x : Outstanding(n) = {x}
  <2>0. \A P : AtMostOne(P) => P = {} \/ \E i : P = {i}
    <3> SUFFICES ASSUME NEW P, AtMostOne(P), NEW i \in P PROVE P = {i}
      OBVIOUS
    <3> QED BY DEF AtMostOne
  <2>1. /\ nodes[n].ping = "answered" => PingsOf(n) = {} /\ RepliesOf(n) = {}
        /\ PingsOf(n) = {} \/ RepliesOf(n) = {}
        /\ PingsOf(n) = {} \/ \E i : PingsOf(n) = {i}
        /\ RepliesOf(n) = {} \/ \E i : RepliesOf(n) = {i}
    BY <2>0 DEF OnePing
  <2>2. \A i, x : {i} \X {x} = {<<i, x>>}
    OBVIOUS
  <2>3. \A S, T : S = {} /\ T = {} => (S \X {"sent"}) \cup (T \X {"answered"}) = {}
    OBVIOUS
  <2>4. \A S : ({} \X S) = {}
    OBVIOUS
  <2> QED BY <1>3, <2>1, <2>2, <2>3, <2>4
<1>5. /\ Outstanding(n) = {} => Cardinality(Outstanding(n)) = 0
      /\ \A x : Outstanding(n) = {x} => Cardinality(Outstanding(n)) = 1
  BY FS_EmptySet, FS_Singleton
<1> QED BY <1>4, <1>5

\* When the coordinator takes the answer of a node for the answer to its last
\* ping, there is no older one it could be, however late nodes answer and
\* whichever of them leave and come back.
THEOREM NoAnswerIsStale == Spec => []NoStaleReply
<1>1. Init => OnePing
  BY DEF Init, CoordInit, OnePing
<1>2. Base /\ OnePing => NoStaleReply
  BY OnePingIsEnough DEF Base
<1> QED BY <1>1, <1>2, NextOnePing, IdsGivenOnce, BaseHolds, PTL DEF Spec

--------------------------------------------------------------------------
(* Sub-tasks and their cancellations *)

\* The cancellations that must not catch sub-task t: those of t and, where a
\* cancellation may hit the task after the one it names, all but those of a
\* group that runs no more.
Fatal(t) ==
    {m \in Outgoing :
        /\ m.type = "CANCEL"
        /\ m.task = t \/ ("lateCancel" \in Races /\ ~Stopped(m.task))}

OrdersOf(n, t) == Places(nodes[n].queue, {Msg("TASK", t)})
CancelsOf(n, t) == Places(nodes[n].queue, Fatal(t))

\* The order to play sub-task t comes after every such cancellation.
Ordered(n, t) == \E i \in OrdersOf(n, t) : \A j \in CancelsOf(n, t) : j < i

\* Its result is on its way back.
Reported(n, t) == Result(n, t) \in Range(recvMessageQueue)

\* No such cancellation can catch it.
Safe(n, t) == Ordered(n, t) \/ Reported(n, t) \/ CancelsOf(n, t) = {}

\* No such cancellation on its way can catch what a node is believed to run.
OnItsWay ==
    \A n \in DOMAIN nodes : \A t \in nodes[n].tasks : Believed(n, t) => Safe(n, t)

Live(n) == peer[n] \notin {"gone", "hung"}

\* A cancelled group takes sub-task t of another with it.
Dropped(n, t) == \E s \in DOMAIN tasks \ {t} : Stopped(s) /\ DroppedFor(s, n)

\* A step that keeps sub-task t safe and held: no such cancellation is sent, an
\* order that reaches the node is accepted, what the node has stays with it,
\* becomes a result or is dropped with another group, and a result stays in the
\* queue.
SendsNoCancel(n, t) ==
    \E msgs : /\ Grows(nodes[n].queue, nodes'[n].queue, msgs)
              /\ msgs \cap Fatal(t)' = {}
WritesFirst(n, t) ==
    /\ nodes[n].queue # <<>> /\ nodes'[n].queue = Tail(nodes[n].queue)
    /\ Head(nodes[n].queue) = Msg("TASK", t) => t \in Range(taskQueue'[n])
KeepsTask(n, t) ==
    t \in Range(taskQueue[n]) /\ CancelsOf(n, t) = {} =>
        t \in Range(taskQueue'[n]) \/ Reported(n, t)' \/ Dropped(n, t)
Keeps(n, t) ==
    /\ SendsNoCancel(n, t) \/ WritesFirst(n, t)
    /\ KeepsTask(n, t)
    /\ Reported(n, t) => Reported(n, t)'

\* Fewer and fewer cancellations have to be feared: a group that runs no more
\* never runs again.
LEMMA StoppedStays ==
    ASSUME Base, [Next]_vars, NEW t
    PROVE  Fatal(t)' \subseteq Fatal(t)
<1> SUFFICES ASSUME NEW s, Stopped(s) PROVE Stopped(s)'
  BY DEF Fatal
<1>0. /\ s \in DOMAIN tasks /\ tasks[s].group \in DOMAIN groups
      /\ groups[tasks[s].group].status # "RUNNING"
      /\ \A u \in DOMAIN tasks : tasks[u] \in TaskRecord
      /\ \A g \in DOMAIN groups : groups[g] \in GroupRecord
  BY TaskShape DEF Stopped, Base, Linked
<1>1. SUFFICES /\ s \in DOMAIN tasks' /\ tasks'[s].group = tasks[s].group
               /\ groups'[tasks[s].group].status # "RUNNING"
  BY DEF Stopped
<1>2. CASE CreateGroup /\ ~ \E i \in Parts(plan) : plan.ids[i] \notin DOMAIN nodes
  BY <1>0, <1>2, CreateCounts
<1>3. CASE HandleResult
  <2>1. CASE UNCHANGED <<tasks, groups>>
    BY <1>0, <2>1
  <2>2. CASE ~UNCHANGED <<tasks, groups>>
    <3>1. PICK u \in DOMAIN tasks :
            /\ tasks' = [tasks EXCEPT ![u].status = "DONE"]
            /\ groups' = [groups EXCEPT ![tasks[u].group] = Merged(@, u)]
      BY <1>3, <2>2 DEF HandleResult
    <3>2. \A g : Merged(groups[g], u).status \in {"DONE", groups[g].status}
      BY DEF Merged
    <3>3. s \in DOMAIN tasks' /\ tasks'[s].group = tasks[s].group
      BY <1>0, <3>1 DEF TaskRecord
    <3> QED BY <1>0, <3>1, <3>2, <3>3
  <2> QED BY <2>1, <2>2
<1>4. CASE \E th \in Thread : BalanceTasks(th)
  <2>1. PICK th \in Thread : BalanceTasks(th)
    BY <1>4
  <2>2. groups' = groups
    BY <2>1 DEF BalanceTasks
  <2>3. PICK pending \in SUBSET DOMAIN tasks :
          tasks' = [u \in DOMAIN tasks |->
                      IF u \in pending THEN [tasks[u] EXCEPT !.status = "RUNNING"]
                      ELSE tasks[u]]
    BY <2>1, BalanceFacts
  <2>4. s \in DOMAIN tasks' /\ tasks'[s].group = tasks[s].group
    BY <1>0, <2>3 DEF TaskRecord
  <2> QED BY <1>0, <2>2, <2>4
<1>5. CASE Scan
  <2>1. groups' = groups
    BY <1>5 DEF Scan
  <2>2. PICK freed :
          tasks' = [u \in DOMAIN tasks |->
                      IF u \in freed THEN [tasks[u] EXCEPT !.status = "NONE"]
                      ELSE tasks[u]]
    BY <1>5, ScanFacts
  <2>3. s \in DOMAIN tasks' /\ tasks'[s].group = tasks[s].group
    BY <1>0, <2>2 DEF TaskRecord
  <2> QED BY <1>0, <2>1, <2>3
<1>6. CASE \E g \in DOMAIN groups : CancelGroup(g)
  <2>1. PICK g \in DOMAIN groups : CancelGroup(g)
    BY <1>6
  <2>2. /\ tasks' = tasks /\ groups[g].status = "RUNNING"
        /\ groups' = [groups EXCEPT ![g].status = "CANCELLED"]
    BY <2>1 DEF CancelGroup
  <2> QED BY <1>0, <2>2
<1>7. CASE UNCHANGED <<tasks, groups>>
  BY <1>0, <1>7
<1> QED BY <1>2, <1>3, <1>4, <1>5, <1>6, <1>7, StepKinds

\* What a step that keeps t does to the places of its orders and cancellations.
LEMMA KeepsPlaces ==
    ASSUME TypeOK, NEW n \in DOMAIN nodes, NEW t, Fatal(t)' \subseteq Fatal(t)
    PROVE  /\ \A i \in OrdersOf(n, t) \cup CancelsOf(n, t) : i \in Nat \ {0}
           /\ SendsNoCancel(n, t) =>
                /\ CancelsOf(n, t)' \subseteq CancelsOf(n, t)
                /\ OrdersOf(n, t) \subseteq OrdersOf(n, t)'
           /\ WritesFirst(n, t) =>
                /\ CancelsOf(n, t)' \subseteq Earlier(CancelsOf(n, t))
                /\ OrdersOf(n, t)' = Earlier(OrdersOf(n, t))
                /\ 1 \in OrdersOf(n, t) => t \in Range(taskQueue'[n])
<1> DEFINE T == {Msg("TASK", t)}
           C == Fatal(t)
<1>0. nodes[n].queue \in Seq(Outgoing)
  BY NodeShape DEF NodeRecord
<1>1. \A s : Places(s, Fatal(t)') \subseteq Places(s, C)
  BY DEF Places
<1>2. \A i \in OrdersOf(n, t) \cup CancelsOf(n, t) : i \in Nat \ {0}
  <2>1. DOMAIN nodes[n].queue = 1..Len(nodes[n].queue) /\ Len(nodes[n].queue) \in Nat
    BY <1>0, LenProperties
  <2> QED BY <2>1 DEF OrdersOf, CancelsOf, Places
<1>3. ASSUME SendsNoCancel(n, t)
      PROVE  /\ CancelsOf(n, t)' \subseteq CancelsOf(n, t)
             /\ OrdersOf(n, t) \subseteq OrdersOf(n, t)'
  <2>1. PICK msgs : /\ Grows(nodes[n].queue, nodes'[n].queue, msgs)
                    /\ msgs \cap Fatal(t)' = {}
    BY <1>3 DEF SendsNoCancel
  <2>2. CancelsOf(n, t)' \subseteq CancelsOf(n, t)
    <3> DEFINE D == Fatal(t)'
    <3>0. D \subseteq C
      OBVIOUS
    <3> HIDE DEF C, D
    <3>1. Places(nodes'[n].queue, D) = Places(nodes[n].queue, D)
      BY <2>1, GrowsPlaces DEF D
    <3>2. Places(nodes[n].queue, D) \subseteq Places(nodes[n].queue, C)
      BY <3>0 DEF Places
    <3> QED BY <3>1, <3>2 DEF CancelsOf, C, D
  <2>3. OrdersOf(n, t) \subseteq OrdersOf(n, t)'
    BY <2>1 DEF Grows, OrdersOf, Places
  <2> QED BY <2>2, <2>3
<1>4. ASSUME WritesFirst(n, t)
      PROVE  /\ CancelsOf(n, t)' \subseteq Earlier(CancelsOf(n, t))
             /\ OrdersOf(n, t)' = Earlier(OrdersOf(n, t))
             /\ 1 \in OrdersOf(n, t) => t \in Range(taskQueue'[n])
  <2>1. Head(nodes[n].queue) \in T => t \in Range(taskQueue'[n])
    BY <1>4 DEF WritesFirst
  <2>2. nodes[n].queue # <<>> /\ nodes'[n].queue = Tail(nodes[n].queue)
    BY <1>4 DEF WritesFirst
  <2> HIDE DEF T, C
  <2>3. /\ Places(Tail(nodes[n].queue), C) = Earlier(Places(nodes[n].queue, C))
        /\ Places(Tail(nodes[n].queue), T) = Earlier(Places(nodes[n].queue, T))
        /\ Head(nodes[n].queue) \in T <=> 1 \in Places(nodes[n].queue, T)
    BY <1>0, <2>2, TailPlaces
  <2>4. OrdersOf(n, t)' = Places(nodes'[n].queue, T)
    BY DEF OrdersOf, T
  <2>5. CancelsOf(n, t)' \subseteq Places(nodes'[n].queue, C)
    BY <1>1 DEF CancelsOf
  <2>6. OrdersOf(n, t) = Places(nodes[n].queue, T) /\ CancelsOf(n, t) = Places(nodes[n].queue, C)
    BY DEF OrdersOf, CancelsOf, T, C
  <2> QED BY <2>1, <2>2, <2>3, <2>4, <2>5, <2>6
<1> QED BY <1>2, <1>3, <1>4

\* Such a step keeps t safe, and held unless it is dropped.
LEMMA KeepsSafe ==
    ASSUME TypeOK, NEW n \in DOMAIN nodes, NEW t, Safe(n, t), Keeps(n, t),
           Fatal(t)' \subseteq Fatal(t)
    PROVE  /\ Safe(n, t)'
           /\ Holds(n, t) => Holds(n, t)' \/ Dropped(n, t)
<1>0. \A i \in OrdersOf(n, t) \cup CancelsOf(n, t) : i \in Nat \ {0}
  BY KeepsPlaces
<1>1. Msg("TASK", t) \in Range(nodes'[n].queue) <=> OrdersOf(n, t)' # {}
  BY DEF OrdersOf, Places, Range
<1>2. CASE Reported(n, t)
  BY <1>2 DEF Keeps, Safe, Reported, Holds
<1>3. CASE CancelsOf(n, t) = {}
  <2>1. CancelsOf(n, t)' = {}
    BY <1>3, KeepsPlaces DEF Keeps, Earlier
  <2>2. ASSUME Msg("TASK", t) \in Range(nodes[n].queue) PROVE Holds(n, t)'
    <3>1. PICK i : i \in OrdersOf(n, t)
      BY <2>2 DEF OrdersOf, Places, Range
    <3>2. CASE SendsNoCancel(n, t)
      BY <1>1, <3>1, <3>2, KeepsPlaces DEF Holds
    <3>3. CASE WritesFirst(n, t) /\ i = 1
      BY <3>1, <3>3, KeepsPlaces DEF Holds
    <3>4. CASE WritesFirst(n, t) /\ i # 1
      <4>1. i - 1 \in OrdersOf(n, t)'
        BY <1>0, <3>1, <3>4, KeepsPlaces DEF Earlier
      <4> QED BY <1>1, <4>1 DEF Holds
    <3> QED BY <3>2, <3>3, <3>4 DEF Keeps
  <2>3. ASSUME t \in Range(taskQueue[n]) PROVE Holds(n, t)' \/ Dropped(n, t)
    BY <1>3, <2>3 DEF Keeps, KeepsTask, Reported, Holds
  <2>4. Result(n, t) \in Range(recvMessageQueue) => Holds(n, t)'
    BY DEF Keeps, Reported, Holds
  <2> QED BY <2>1, <2>2, <2>3, <2>4 DEF Safe, Holds
<1>4. CASE Ordered(n, t)
  <2>1. PICK i \in OrdersOf(n, t) : \A j \in CancelsOf(n, t) : j < i
    BY <1>4 DEF Ordered
  <2>2. CASE SendsNoCancel(n, t)
    <3>1. i \in OrdersOf(n, t)' /\ \A j \in CancelsOf(n, t)' : j < i
      BY <2>1, <2>2, KeepsPlaces
    <3> QED BY <1>1, <3>1 DEF Safe, Ordered, Holds
  <2>3. CASE WritesFirst(n, t) /\ i = 1
    <3>1. CancelsOf(n, t) = {}
      <4> SUFFICES ASSUME NEW j \in CancelsOf(n, t) PROVE FALSE
        OBVIOUS
      <4>1. j \in Nat \ {0} /\ j < 1
        BY <1>0, <2>1, <2>3
      <4> QED BY <4>1
    <3>2. CancelsOf(n, t)' = {}
      BY <2>3, <3>1, KeepsPlaces DEF Earlier
    <3>3. t \in Range(taskQueue'[n])
      BY <2>1, <2>3, KeepsPlaces
    <3> QED BY <3>2, <3>3 DEF Safe, Holds
  <2>4. CASE WritesFirst(n, t) /\ i # 1
    <3>1. i - 1 \in OrdersOf(n, t)'
      BY <1>0, <2>1, <2>4, KeepsPlaces DEF Earlier
    <3>2. ASSUME NEW j \in CancelsOf(n, t)' PROVE j < i - 1
      <4>1. j \in Nat /\ j + 1 \in CancelsOf(n, t)
        BY <2>4, <3>2, KeepsPlaces DEF Earlier
      <4>2. j + 1 < i
        BY <2>1, <4>1
      <4> QED BY <1>0, <2>1, <4>1, <4>2
    <3> QED BY <1>1, <3>1, <3>2 DEF Safe, Ordered, Holds
  <2> QED BY <2>2, <2>3, <2>4 DEF Keeps
<1> QED BY <1>2, <1>3, <1>4 DEF Safe

\* What the coordinator may send to a node without cancelling sub-task t.
LEMMA NoCancelSent ==
    ASSUME TypeOK, NEW n \in DOMAIN nodes, NEW t,
           \/ nodes'[n].queue = nodes[n].queue
           \/ \E S : SentTo(n, "TASK", S)
           \/ \E S : SentTo(n, "CANCEL", S) /\ \A s \in S : s # t /\ Stopped(s)'
           \/ \E type \in {"ACCEPT", "REJECT", "PING"} :
                nodes'[n].queue = Append(nodes[n].queue, Msg(type, TASK_ID_NONE))
    PROVE  SendsNoCancel(n, t)
<1>0. \A m \in Fatal(t)' : m.type = "CANCEL" /\ (m.task = t \/ ~Stopped(m.task)')
  BY DEF Fatal
<1>1. CASE nodes'[n].queue = nodes[n].queue
  <2>1. Grows(nodes[n].queue, nodes'[n].queue, {})
    BY <1>1 DEF Grows
  <2> QED BY <2>1 DEF SendsNoCancel
<1>2. CASE \E S : SentTo(n, "TASK", S)
  <2>1. PICK S : SentTo(n, "TASK", S)
    BY <1>2
  <2>2. {Msg("TASK", s) : s \in S} \cap Fatal(t)' = {}
    BY <1>0 DEF Msg
  <2> QED BY <2>1, <2>2 DEF SentTo, SendsNoCancel
<1>3. CASE \E S : SentTo(n, "CANCEL", S) /\ \A s \in S : s # t /\ Stopped(s)'
  <2>1. PICK S : SentTo(n, "CANCEL", S) /\ \A s \in S : s # t /\ Stopped(s)'
    BY <1>3
  <2>2. {Msg("CANCEL", s) : s \in S} \cap Fatal(t)' = {}
    BY <1>0, <2>1 DEF Msg
  <2> QED BY <2>1, <2>2 DEF SentTo, SendsNoCancel
<1>4. CASE \E type \in {"ACCEPT", "REJECT", "PING"} :
             nodes'[n].queue = Append(nodes[n].queue, Msg(type, TASK_ID_NONE))
  <2>1. PICK type \in {"ACCEPT", "REJECT", "PING"} :
          nodes'[n].queue = Append(nodes[n].queue, Msg(type, TASK_ID_NONE))
    BY <1>4
  <2>2. Msg(type, TASK_ID_NONE) \in Outgoing /\ Msg(type, TASK_ID_NONE) \notin Fatal(t)'
    BY <1>0 DEF Msg, Outgoing
  <2>3. nodes[n].queue \in Seq(Outgoing)
    BY NodeShape DEF NodeRecord
  <2>4. Grows(nodes[n].queue, nodes'[n].queue, {Msg(type, TASK_ID_NONE)})
    <3> DEFINE q == nodes[n].queue
               e == Msg(type, TASK_ID_NONE)
    <3>1. q \in Seq(Outgoing) /\ e \in Outgoing /\ nodes'[n].queue = Append(q, e)
      BY <2>1, <2>2, <2>3
    <3> HIDE DEF q, e
    <3>2. /\ DOMAIN Append(q, e) = DOMAIN q \cup {Len(q) + 1}
          /\ Append(q, e)[Len(q) + 1] = e
          /\ \A i \in DOMAIN q : i < Len(q) + 1 /\ Append(q, e)[i] = q[i]
      BY <3>1, AppendAdds
    <3>3. Len(q) + 1 \notin DOMAIN q
      BY <3>1, LenProperties
    <3>4. Grows(q, Append(q, e), {e})
      BY <3>2, <3>3 DEF Grows
    <3> QED BY <3>1, <3>4 DEF q, e
  <2> QED BY <2>2, <2>4 DEF SendsNoCancel
<1> QED BY <1>1, <1>2, <1>3, <1>4

\* A result stays in the queue until the handler takes it.
LEMMA ResultStays ==
    ASSUME TypeOK, NEW n, NEW t,
           \/ recvMessageQueue' = recvMessageQueue
           \/ \E msg \in Incoming : recvMessageQueue' = Append(recvMessageQueue, msg)
           \/ /\ recvMessageQueue # <<>> /\ recvMessageQueue' = Tail(recvMessageQueue)
              /\ Head(recvMessageQueue) # Result(n, t)
    PROVE  Reported(n, t) => Reported(n, t)'
<1> SUFFICES ASSUME NEW i \in DOMAIN recvMessageQueue,
                    recvMessageQueue[i] = Result(n, t)
             PROVE  \E j \in DOMAIN recvMessageQueue' :
                      recvMessageQueue'[j] = Result(n, t)
  BY DEF Reported, Range
<1>1. recvMessageQueue \in Seq(Incoming)
  BY DEF TypeOK
<1>2. CASE recvMessageQueue' = recvMessageQueue
  BY <1>2
<1>3. CASE \E msg \in Incoming : recvMessageQueue' = Append(recvMessageQueue, msg)
  <2>1. PICK msg \in Incoming : recvMessageQueue' = Append(recvMessageQueue, msg)
    BY <1>3
  <2>2. /\ i \in DOMAIN Append(recvMessageQueue, msg)
        /\ Append(recvMessageQueue, msg)[i] = recvMessageQueue[i]
    BY <1>1, AppendAdds
  <2> QED BY <2>1, <2>2
<1>4. CASE /\ recvMessageQueue # <<>> /\ recvMessageQueue' = Tail(recvMessageQueue)
           /\ Head(recvMessageQueue) # Result(n, t)
  <2>1. /\ Head(recvMessageQueue) = recvMessageQueue[1]
        /\ \A k \in DOMAIN Tail(recvMessageQueue) :
             Tail(recvMessageQueue)[k] = recvMessageQueue[k + 1]
        /\ \A k \in DOMAIN recvMessageQueue : k # 1 => k - 1 \in DOMAIN Tail(recvMessageQueue)
        /\ \A k \in DOMAIN recvMessageQueue : k \in Nat \ {0}
    BY <1>1, <1>4, TailKeeps
  <2>2. i # 1 /\ i - 1 \in DOMAIN Tail(recvMessageQueue) /\ i \in Nat
    BY <1>4, <2>1
  <2>3. (i - 1) + 1 = i
    BY <2>2
  <2>4. Tail(recvMessageQueue)[i - 1] = Result(n, t)
    BY <2>1, <2>2, <2>3
  <2> QED BY <1>4, <2>2, <2>4
<1> QED BY <1>2, <1>3, <1>4

\* What is in the queue of a node stays in it when something is added, and
\* when something else is taken from its front.
LEMMA TaskStays ==
    ASSUME NEW s \in Seq(TaskId), NEW t \in Range(s)
    PROVE  /\ \A e \in TaskId : t \in Range(Append(s, e))
           /\ s # <<>> /\ (t = Head(s) \/ t \in Range(Tail(s)))
<1>1. PICK i \in DOMAIN s : s[i] = t
  BY DEF Range
<1>2. ASSUME NEW e \in TaskId PROVE t \in Range(Append(s, e))
  <2>1. i \in DOMAIN Append(s, e) /\ Append(s, e)[i] = s[i]
    BY AppendAdds
  <2> QED BY <1>1, <2>1 DEF Range
<1>3. s # <<>>
  BY <1>1
<1>4. /\ Head(s) = s[1]
      /\ \A k \in DOMAIN Tail(s) : Tail(s)[k] = s[k + 1]
      /\ i # 1 => i - 1 \in DOMAIN Tail(s)
      /\ i \in Nat \ {0}
  BY <1>3, TailKeeps
<1>5. i # 1 => Tail(s)[i - 1] = t
  <2>1. (i - 1) + 1 = i
    BY <1>4
  <2> QED BY <1>1, <1>4, <2>1
<1> QED BY <1>1, <1>2, <1>3, <1>4, <1>5 DEF Range

\* A node that finishes a task reports it; nothing else it does of its own
\* accord loses one, unless it goes.
LEMMA PeerKeeps ==
    ASSUME TypeOK, NEW m \in NodeId, PeerStep(m), NEW n \in DOMAIN nodes, NEW t, Live(n)'
    PROVE  Keeps(n, t) /\ Live(n)
<1>0. nodes' = nodes /\ n \in NodeId /\ taskQueue[n] \in Seq(TaskId)
  BY DEF TypeOK, PeerStep, PeerHello, PeerFinish, PeerLeave, PeerHang, PeerStray, coordVars
<1>1. SendsNoCancel(n, t)
  BY <1>0, NoCancelSent
<1>2. Reported(n, t) => Reported(n, t)'
  <2>1. \/ recvMessageQueue' = recvMessageQueue
        \/ \E msg \in Incoming : recvMessageQueue' = Append(recvMessageQueue, msg)
    BY PeerSpeaks
  <2> QED BY <2>1, ResultStays
<1>3. Live(n)
  BY DEF Live, TypeOK, PeerStep, PeerHello, PeerFinish, PeerLeave, PeerHang, PeerStray
<1>4. KeepsTask(n, t)
  <2>1. CASE taskQueue'[n] = taskQueue[n]
    BY <2>1 DEF KeepsTask
  <2>2. CASE PeerFinish(m) /\ m = n
    <3> SUFFICES ASSUME t \in Range(taskQueue[n]), t \notin Range(Tail(taskQueue[n]))
                 PROVE  Reported(n, t)'
      BY <2>2 DEF PeerFinish, TypeOK, KeepsTask
    <3>1. t = Head(taskQueue[n]) /\ t \in TaskId
      <4>1. t = Head(taskQueue[n]) /\ taskQueue[n] # <<>>
        BY <1>0, TaskStays
      <4> QED BY <1>0, <4>1, PeerMessages
    <3>2. /\ recvMessageQueue' = Append(recvMessageQueue, Result(n, t))
          /\ Result(n, t) \in Incoming /\ recvMessageQueue \in Seq(Incoming)
      BY <1>0, <2>2, <3>1, PeerMessages DEF PeerFinish, ReadMessage, TypeOK
    <3>3. /\ Len(recvMessageQueue) + 1 \in DOMAIN recvMessageQueue'
          /\ recvMessageQueue'[Len(recvMessageQueue) + 1] = Result(n, t)
      BY <3>2, AppendAdds
    <3> QED BY <3>3 DEF Reported, Range
  <2>3. \/ taskQueue'[n] = taskQueue[n]
        \/ PeerFinish(m) /\ m = n
    BY <1>0 DEF TypeOK, PeerStep, PeerHello, PeerFinish, PeerLeave, PeerHang, PeerStray
  <2> QED BY <2>1, <2>2, <2>3
<1> QED BY <1>1, <1>2, <1>3, <1>4 DEF Keeps

\* A live node accepts the order it gets, and drops a task only for a
\* cancellation that is fatal to it, or of a group that runs no more.
LEMMA DeliverKeeps ==
    ASSUME TypeOK, NEW m \in NodeId, Deliver(m),
           NEW n \in DOMAIN nodes, NEW t \in TaskId, Live(n)'
    PROVE  Keeps(n, t) /\ Live(n)
<1> DEFINE msg == Head(nodes[m].queue)
<1>0. /\ m \in DOMAIN nodes /\ nodes[m].queue # <<>> /\ nodes[m] \in NodeRecord
      /\ nodes' = [nodes EXCEPT ![m].queue = Tail(@)]
      /\ n \in NodeId /\ taskQueue[n] \in Seq(TaskId) /\ peer[n] \in PeerState
  BY NodeShape DEF Deliver, WriteMessage, TypeOK
<1>1. msg \in Outgoing
  <2>1. nodes[m].queue \in Seq(Outgoing)
    BY <1>0 DEF NodeRecord
  <2> QED BY <1>0, <2>1, HeadTailProperties
<1>2. Reported(n, t) => Reported(n, t)'
  <2>1. \/ recvMessageQueue' = recvMessageQueue
        \/ \E x \in Incoming : recvMessageQueue' = Append(recvMessageQueue, x)
    BY DeliverAnswers
  <2> QED BY <2>1, ResultStays
<1>3. \/ ReceiveGreeting(m, msg) \/ ReceiveTask(m, msg) \/ ReceivePing(m, msg)
      \/ ReceiveCancel(m, msg) \/ Discard(m)
  BY DEF Deliver
<1> HIDE DEF msg
<1>4. Live(n)
  BY <1>0, <1>3 DEF Live, TypeOK, ReceiveGreeting, ReceiveTask, ReceivePing,
        ReceiveCancel, Discard
<1>5. CASE m # n
  <2>1. nodes'[n] = nodes[n] /\ taskQueue'[n] = taskQueue[n]
    BY <1>0, <1>3, <1>5 DEF TypeOK, ReceiveGreeting, ReceiveTask, ReceivePing,
          ReceiveCancel, Discard
  <2> QED BY <1>2, <1>4, <2>1, NoCancelSent DEF Keeps, KeepsTask
<1>6. CASE m = n
  <2>1. nodes'[n].queue = Tail(nodes[n].queue)
    BY <1>0, <1>6 DEF NodeRecord
  <2>2. ASSUME msg = Msg("TASK", t) PROVE t \in Range(taskQueue'[n])
    <3>1. msg.type = "TASK" /\ msg.task = t
      BY <2>2 DEF Msg
    <3>2. ~Discard(m) /\ ~ReceiveGreeting(m, msg) /\ ~ReceivePing(m, msg) /\ ~ReceiveCancel(m, msg)
      BY <1>0, <1>4, <1>6, <3>1 DEF Live, Discard, ReceiveGreeting, ReceivePing,
            ReceiveCancel, TypeOK
    <3>3. taskQueue'[n] = Append(taskQueue[n], t)
      BY <1>0, <1>3, <1>6, <3>1, <3>2 DEF ReceiveTask, TypeOK
    <3>4. /\ Len(taskQueue[n]) + 1 \in DOMAIN taskQueue'[n]
          /\ taskQueue'[n][Len(taskQueue[n]) + 1] = t
      BY <1>0, <3>3, AppendAdds
    <3> QED BY <3>4 DEF Range
  <2>3. ASSUME t \in Range(taskQueue[n]), CancelsOf(n, t) = {}
        PROVE  t \in Range(taskQueue'[n]) \/ Dropped(n, t)
    <3>1. t \in Range(taskQueue[n])
      BY <2>3
    <3>2. msg \notin Fatal(t)
      <4> DEFINE C == Fatal(t)
      <4>1. nodes[n].queue \in Seq(Outgoing) /\ nodes[n].queue # <<>>
        BY <1>0, <1>6 DEF NodeRecord
      <4> HIDE DEF C
      <4>2. Head(nodes[n].queue) \in C <=> 1 \in Places(nodes[n].queue, C)
        BY <4>1, TailPlaces
      <4> QED BY <1>6, <2>3, <4>2 DEF CancelsOf, C, msg
    <3>3. CASE ReceiveTask(m, msg)
      <4>1. taskQueue'[n] = Append(taskQueue[n], msg.task) /\ msg.task \in TaskId
        BY <1>0, <1>1, <1>6, <3>3 DEF ReceiveTask, TypeOK, Outgoing
      <4> QED BY <1>0, <3>1, <4>1, TaskStays
    <3>4. CASE ReceiveCancel(m, msg)
      <4>1. msg.type = "CANCEL" /\ msg = Msg("CANCEL", msg.task)
        BY <1>1, <3>4 DEF ReceiveCancel, Outgoing, Msg
      <4>2. msg.task # t /\ ("lateCancel" \in Races => Stopped(msg.task))
        BY <1>1, <3>2, <4>1 DEF Fatal
      <4>3. CASE \/ taskQueue'[n] = taskQueue[n]
                 \/ Head(taskQueue[n]) = msg.task /\ taskQueue'[n] = Tail(taskQueue[n])
        BY <1>0, <3>1, <4>2, <4>3, TaskStays
      <4>4. CASE "lateCancel" \in Races /\ ReadMessage(m, Result(m, msg.task))
        <5>1. DroppedFor(msg.task, n)
          BY <1>0, <1>6, <4>1, <4>4 DEF DroppedFor, ReadMessage, msg
        <5>2. msg.task \in DOMAIN tasks \ {t}
          BY <4>2, <4>4 DEF Stopped
        <5> QED BY <4>2, <4>4, <5>1, <5>2 DEF Dropped
      <4> QED BY <1>0, <1>6, <3>4, <4>3, <4>4 DEF ReceiveCancel, TypeOK
    <3>5. CASE ReceiveGreeting(m, msg) \/ ReceivePing(m, msg) \/ Discard(m)
      BY <3>1, <3>5 DEF ReceiveGreeting, ReceivePing, Discard
    <3> QED BY <1>3, <3>3, <3>4, <3>5
  <2>4. WritesFirst(n, t)
    BY <1>0, <1>6, <2>1, <2>2 DEF WritesFirst, msg
  <2> QED BY <1>2, <1>4, <2>3, <2>4 DEF Keeps, KeepsTask
<1> QED BY <1>5, <1>6

\* An order that was just sent comes last.
LEMMA OrderSecures ==
    ASSUME NEW n \in DOMAIN nodes, NEW S, NEW t \in S, SentTo(n, "TASK", S)
    PROVE  Safe(n, t)' /\ Holds(n, t)'
<1>1. Grows(nodes[n].queue, nodes'[n].queue, {Msg("TASK", s) : s \in S})
  BY DEF SentTo
<1>2. PICK i \in DOMAIN nodes'[n].queue \ DOMAIN nodes[n].queue :
        nodes'[n].queue[i] = Msg("TASK", t)
  BY <1>1 DEF Grows
<1>3. \A j \in DOMAIN nodes[n].queue : j < i
  BY <1>1, <1>2 DEF Grows
<1>4. ASSUME NEW j \in CancelsOf(n, t)' PROVE j < i
  <2>1. j \in DOMAIN nodes'[n].queue /\ nodes'[n].queue[j].type = "CANCEL"
    BY <1>4 DEF CancelsOf, Places, Fatal
  <2>2. nodes'[n].queue[j] \notin {Msg("TASK", s) : s \in S}
    <3>1. \A s : Msg("TASK", s).type # "CANCEL"
      BY DEF Msg
    <3> QED BY <2>1, <3>1
  <2>3. j \in DOMAIN nodes[n].queue
    BY <1>1, <2>1, <2>2 DEF Grows
  <2> QED BY <1>3, <2>3
<1>5. i \in OrdersOf(n, t)'
  BY <1>2 DEF OrdersOf, Places
<1> QED BY <1>2, <1>4, <1>5 DEF Safe, Ordered, Holds, Range

\* A result of a running sub-task counts: its group is not DONE as long as it
\* owes this one.
LEMMA RunningCounts ==
    ASSUME Base, RemainingCovers, NEW t \in DOMAIN tasks, tasks[t].status = "RUNNING"
    PROVE  Counts(t)
<1>1. tasks[t].group \in DOMAIN groups
  BY DEF Base, Linked
<1>2. PICK g \in DOMAIN groups : g = tasks[t].group
  BY <1>1
<1>3. t \in Undone(g)
  BY <1>2 DEF Undone, TasksOf
<1>4. /\ IsFiniteSet(Undone(g)) /\ Cardinality(Undone(g)) \in Nat
      /\ groups[g].remaining >= Cardinality(Undone(g))
      /\ groups[g].status = "DONE" <=> groups[g].remaining = 0
      /\ groups[g].remaining \in Nat
  BY FinitelyManyOwed, TaskShape DEF Base, RemainingCovers, GroupRecord
<1>5. Cardinality(Undone(g)) # 0
  BY <1>3, <1>4, FS_EmptySet
<1> QED BY <1>2, <1>4, <1>5 DEF Counts

\* A step of the coordinator keeps what it does not cancel.
LEMMA CoordinatorKeeps ==
    ASSUME UNCHANGED peerVars, NEW n, NEW t, SendsNoCancel(n, t),
           Reported(n, t) => Reported(n, t)'
    PROVE  Keeps(n, t) /\ (Live(n)' => Live(n))
BY DEF peerVars, Keeps, KeepsTask, Live

\* Every step keeps what a live node is believed to run safe and, but for the
\* cancellations of other groups, held.
StaysHeld(n, t) ==
    \/ Holds(n, t)'
    \/ Believed(n, t) /\ (~Holds(n, t) \/ Dropped(n, t))
LEMMA NextSafe ==
    ASSUME Base, SoleOwner, RemainingCovers, Numbered, OnItsWay, [Next]_vars,
           NEW n \in DOMAIN nodes \cap DOMAIN nodes', NEW t \in nodes'[n].tasks,
           Live(n)', tasks'[t].status = "RUNNING"
    PROVE  Safe(n, t)' /\ StaysHeld(n, t)
<1> USE DEF Base
<1>0. nodes[n] \in NodeRecord /\ nodes[n].tasks \subseteq DOMAIN tasks /\ n \in NodeId
      /\ \A s \in DOMAIN tasks : s \in TaskId /\ tasks[s] \in TaskRecord
  <2>1. nodes[n] \in NodeRecord /\ nodes[n].tasks \subseteq DOMAIN tasks /\ n \in NodeId
    BY NodeShape DEF Linked, TypeOK
  <2>2. \A s \in DOMAIN tasks : s \in TaskId /\ tasks[s] \in TaskRecord
    BY TaskShape DEF TaskId, TASK_ID_NONE
  <2> QED BY <2>1, <2>2
<1>1. ASSUME t \in nodes[n].tasks, tasks[t].status = "RUNNING", Keeps(n, t), Live(n)
      PROVE  Safe(n, t)' /\ StaysHeld(n, t)
  <2>1. Believed(n, t)
    BY <1>1 DEF Believed, Live
  <2> QED BY <1>1, <2>1, KeepsSafe, StoppedStays DEF OnItsWay, StaysHeld
<1>2. ASSUME t \in nodes[n].tasks, tasks[t].status = "RUNNING", UNCHANGED peerVars,
             \/ nodes'[n].queue = nodes[n].queue
             \/ \E S : SentTo(n, "TASK", S)
             \/ \E S : SentTo(n, "CANCEL", S) /\ \A s \in S : s # t /\ Stopped(s)'
             \/ \E type \in {"ACCEPT", "REJECT", "PING"} :
                  nodes'[n].queue = Append(nodes[n].queue, Msg(type, TASK_ID_NONE)),
             \/ recvMessageQueue' = recvMessageQueue
             \/ /\ recvMessageQueue # <<>> /\ recvMessageQueue' = Tail(recvMessageQueue)
                /\ Head(recvMessageQueue) # Result(n, t)
      PROVE  Safe(n, t)' /\ StaysHeld(n, t)
  <2>1. SendsNoCancel(n, t)
    BY <1>2, NoCancelSent
  <2>2. Reported(n, t) => Reported(n, t)'
    BY <1>2, ResultStays
  <2>3. Keeps(n, t) /\ Live(n)
    BY <1>2, <2>1, <2>2, CoordinatorKeeps
  <2> QED BY <1>1, <1>2, <2>3
<1>3. CASE HandlerStep
  <2>0. /\ recvMessageQueue # <<>> /\ recvMessageQueue' = Tail(recvMessageQueue)
        /\ UNCHANGED peerVars
    BY <1>3 DEF HandlerStep, HandleResult, HandleHello, HandleNotify, HandleInvalid, Take
  <2>1. CASE HandleResult
    <3>1. nodes' = nodes /\ t \in DOMAIN tasks
      BY <1>0, <2>1 DEF HandleResult
    <3>2. tasks[t].status = "RUNNING"
      BY <1>0, <2>1, <3>1 DEF HandleResult, TaskRecord
    <3>3. Head(recvMessageQueue) # Result(n, t)
      <4> SUFFICES ASSUME Head(recvMessageQueue) = Result(n, t) PROVE FALSE
        OBVIOUS
      <4>1. Head(recvMessageQueue).task = t
        BY DEF Result
      <4>2. Counts(t)
        BY <3>1, <3>2, RunningCounts
      <4>3. tasks' = [tasks EXCEPT ![t].status = "DONE"]
        BY <2>1, <3>1, <4>1, <4>2 DEF HandleResult
      <4> QED BY <1>0, <3>1, <4>3 DEF TaskRecord
    <3> QED BY <1>2, <2>0, <3>1, <3>2, <3>3
  <2>2. CASE HandleHello
    <3>1. tasks' = tasks /\ Head(recvMessageQueue) # Result(n, t)
      BY <2>2 DEF HandleHello, Take, Result
    <3>2. \/ nodes'[n] = nodes[n]
          \/ /\ nodes'[n].tasks = nodes[n].tasks
             /\ \E type \in {"ACCEPT", "REJECT", "PING"} :
                  nodes'[n].queue = Append(nodes[n].queue, Msg(type, TASK_ID_NONE))
      BY <1>0, <2>2 DEF HandleHello, Send, NodeRecord
    <3> QED BY <1>2, <2>0, <3>1, <3>2
  <2>3. CASE HandleNotify
    <3>1. tasks' = tasks /\ Head(recvMessageQueue) # Result(n, t)
      BY <2>3 DEF HandleNotify, Take, Result
    <3>2. nodes'[n].queue = nodes[n].queue /\ nodes'[n].tasks = nodes[n].tasks
      BY <1>0, <2>3 DEF HandleNotify, NodeRecord
    <3> QED BY <1>2, <2>0, <3>1, <3>2
  <2>4. CASE HandleInvalid
    <3>1. tasks' = tasks /\ Head(recvMessageQueue) # Result(n, t) /\ nodes'[n] = nodes[n]
      BY <2>4 DEF HandleInvalid, Take, Result, TerminateNode
    <3> QED BY <1>2, <2>0, <3>1
  <2> QED BY <1>3, <2>1, <2>2, <2>3, <2>4 DEF HandlerStep
<1>4. CASE \E m \in NodeId : Deliver(m)
  <2>1. PICK m \in NodeId : Deliver(m)
    BY <1>4
  <2>2. nodes'[n].tasks = nodes[n].tasks /\ tasks' = tasks
    BY <2>1, WriteFacts DEF Deliver, WriteMessage
  <2>3. t \in TaskId
    BY <1>0, <2>2
  <2>4. Keeps(n, t) /\ Live(n)
    BY <2>1, <2>3, DeliverKeeps
  <2> QED BY <1>1, <2>2, <2>4
<1>5. CASE \E m \in NodeId : PeerStep(m)
  <2>1. PICK m \in NodeId : PeerStep(m)
    BY <1>5
  <2>2. nodes' = nodes /\ tasks' = tasks
    BY <2>1 DEF PeerStep, PeerHello, PeerFinish, PeerLeave, PeerHang, PeerStray, coordVars
  <2>3. Keeps(n, t) /\ Live(n)
    BY <2>1, PeerKeeps
  <2> QED BY <1>1, <2>2, <2>3
<1>6. CASE ScanStep
  <2>1. PICK lost \in SUBSET DOMAIN nodes :
          /\ nodes'[n].tasks = IF n \in lost THEN nodes[n].tasks \ RunningTasks(n)
                               ELSE nodes[n].tasks
          /\ IF n \in lost THEN SentTo(n, "CANCEL", RunningTasks(n))
             ELSE Pinged(n) \/ nodes'[n] = nodes[n]
          /\ tasks' = [s \in DOMAIN tasks |->
                         IF s \in UNION {RunningTasks(m) : m \in lost}
                         THEN [tasks[s] EXCEPT !.status = "NONE"]
                         ELSE tasks[s]]
    BY <1>6, ScanFacts DEF ScanStep
  <2>2. t \in nodes[n].tasks /\ tasks[t].status = "RUNNING"
    BY <1>0, <2>1 DEF TaskRecord
  <2>3. n \notin lost
    BY <2>1, <2>2 DEF RunningTasks
  <2>4. recvMessageQueue' = recvMessageQueue /\ UNCHANGED peerVars
    BY <1>6 DEF ScanStep, Scan
  <2> QED BY <1>2, <2>1, <2>2, <2>3, <2>4 DEF Pinged
<1>7. CASE Operator
  <2>0. UNCHANGED peerVars
    BY <1>7 DEF Operator
  <2>1. CASE \E g \in DOMAIN groups : CancelGroup(g)
    <3>1. PICK g \in DOMAIN groups : CancelGroup(g)
      BY <2>1
    <3>2. /\ nodes'[n].tasks = nodes[n].tasks \ Victims(g)
          /\ SentTo(n, "CANCEL", Victims(g) \cap nodes[n].tasks)
      BY <3>1, CancelFacts
    <3>3. tasks' = tasks /\ recvMessageQueue' = recvMessageQueue
      BY <3>1 DEF CancelGroup
    <3>4. \A s \in Victims(g) \cap nodes[n].tasks : s # t /\ Stopped(s)'
      BY <3>1, <3>2 DEF CancelGroup, Victims, Stopped
    <3> QED BY <1>2, <2>0, <3>2, <3>3, <3>4
  <2>2. CASE \E kind \in Kinds, games \in GameCounts : RequestTask(kind, games)
    BY <1>2, <2>0, <2>2 DEF RequestTask
  <2>3. CASE \E m \in NodeId : CommandTerminate(m)
    <3>1. nodes'[n] = nodes[n] /\ tasks' = tasks /\ recvMessageQueue' = recvMessageQueue
      BY <2>3 DEF CommandTerminate, TerminateNode
    <3> QED BY <1>2, <2>0, <3>1
  <2> QED BY <1>7, <2>1, <2>2, <2>3 DEF Operator
<1>8. CASE CreateStep
  <2>0. UNCHANGED peerVars /\ recvMessageQueue' = recvMessageQueue
    BY <1>8 DEF CreateStep, CreateGroup
  <2>1. CASE ~ \E i \in Parts(plan) : plan.ids[i] \notin DOMAIN nodes
    <3>1. /\ \A s \in DOMAIN tasks : tasks'[s] = tasks[s]
          /\ \E S : nodes'[n].tasks = nodes[n].tasks \cup S /\ SentTo(n, "TASK", S)
      BY <1>8, <2>1, CreateFacts DEF CreateStep
    <3>2. PICK S : nodes'[n].tasks = nodes[n].tasks \cup S /\ SentTo(n, "TASK", S)
      BY <3>1
    <3>3. CASE t \in S
      BY <3>2, <3>3, OrderSecures DEF StaysHeld
    <3>4. CASE t \in nodes[n].tasks
      <4>1. tasks[t].status = "RUNNING"
        BY <1>0, <3>1, <3>4
      <4> QED BY <1>2, <2>0, <3>2, <3>4, <4>1
    <3> QED BY <3>2, <3>3, <3>4
  <2>2. CASE \E i \in Parts(plan) : plan.ids[i] \notin DOMAIN nodes
    <3>1. UNCHANGED <<nodes, tasks>>
      BY <1>8, <2>2 DEF CreateStep, CreateGroup
    <3> QED BY <1>2, <2>0, <3>1
  <2> QED BY <2>1, <2>2
<1>9. CASE AcceptorStep
  <2>1. n # nextNode
    BY BoundsAssumption DEF Numbered, TypeOK, NodeId
  <2>2. /\ nodes'[n] = nodes[n] /\ recvMessageQueue' = recvMessageQueue
        /\ UNCHANGED peerVars /\ tasks' = tasks
    BY <1>9, <2>1 DEF AcceptorStep, Accept, AcceptInsert
  <2> QED BY <1>2, <2>2
<1>10. CASE \E th \in Thread : BalanceStep(th)
  <2>1. PICK th \in Thread : BalanceTasks(th) /\ UNCHANGED peerVars
    BY <1>10 DEF BalanceStep
  <2>2. PICK pending \in SUBSET DOMAIN tasks :
          /\ \A s \in pending : tasks[s].status = "NONE"
          /\ tasks' = [s \in DOMAIN tasks |->
                         IF s \in pending THEN [tasks[s] EXCEPT !.status = "RUNNING"]
                         ELSE tasks[s]]
          /\ \E given \in [DOMAIN nodes -> SUBSET pending] :
               \A m \in DOMAIN nodes :
                 /\ nodes'[m].tasks = nodes[m].tasks \cup given[m]
                 /\ SentTo(m, "TASK", given[m])
    BY <2>1, BalanceFacts
  <2>3. PICK S : nodes'[n].tasks = nodes[n].tasks \cup S /\ SentTo(n, "TASK", S)
    BY <2>2
  <2>4. CASE t \in S
    BY <2>3, <2>4, OrderSecures DEF StaysHeld
  <2>5. CASE t \in nodes[n].tasks
    <3>1. tasks[t].status # "NONE"
      BY <1>0, <2>5 DEF SoleOwner, Owners
    <3>2. tasks[t].status = "RUNNING"
      BY <1>0, <2>2, <2>5, <3>1
    <3>3. recvMessageQueue' = recvMessageQueue
      BY <2>1 DEF BalanceTasks
    <3> QED BY <1>2, <2>1, <2>3, <2>5, <3>2, <3>3
  <2> QED BY <2>3, <2>4, <2>5
<1>11. CASE \E m \in NodeId : ConnectionLost(m)
  <2>1. /\ nodes'[n] = nodes[n] /\ recvMessageQueue' = recvMessageQueue
        /\ UNCHANGED peerVars /\ tasks' = tasks
    BY <1>11 DEF ConnectionLost, ReadEof, WriteFail, TerminateNode
  <2> QED BY <1>2, <2>1
<1>12. CASE \E m \in NodeId : Late(m)
  <2>1. PICK m \in NodeId : Late(m)
    BY <1>12
  <2>2. /\ nodes'[n].queue = nodes[n].queue /\ nodes'[n].tasks = nodes[n].tasks
        /\ recvMessageQueue' = recvMessageQueue /\ tasks' = tasks
        /\ peer' = peer /\ taskQueue' = taskQueue
    BY <1>0, <2>1 DEF Late, Elapse, NodeRecord
  <2>3. Keeps(n, t) /\ Live(n)
    BY <2>2, NoCancelSent, ResultStays DEF Keeps, KeepsTask, Live
  <2> QED BY <1>1, <2>2, <2>3
<1>13. CASE CheckStep \/ UNCHANGED vars
  <2>1. /\ nodes' = nodes /\ recvMessageQueue' = recvMessageQueue
        /\ UNCHANGED peerVars /\ tasks' = tasks
    BY <1>13 DEF CheckStep, Check, vars, peerVars
  <2> QED BY <1>2, <2>1
<1> QED BY <1>3, <1>4, <1>5, <1>6, <1>7, <1>8, <1>9, <1>10, <1>11, <1>12, <1>13 DEF Next

\* OnItsWay is kept: a node that is new has no sub-tasks.
LEMMA NextOnItsWay ==
    ASSUME Base, SoleOwner, RemainingCovers, Numbered, OnItsWay, [Next]_vars
    PROVE  /\ OnItsWay'
           /\ \A n \in DOMAIN nodes' : \A t \in nodes'[n].tasks :
                Believed(n, t)' => n \in DOMAIN nodes /\ StaysHeld(n, t)
<1> SUFFICES ASSUME NEW n \in DOMAIN nodes', NEW t \in nodes'[n].tasks, Believed(n, t)'
             PROVE  Safe(n, t)' /\ n \in DOMAIN nodes /\ StaysHeld(n, t)
  BY DEF OnItsWay
<1>1. Live(n)' /\ tasks'[t].status = "RUNNING"
  BY DEF Believed, Live
<1>2. CASE n \in DOMAIN nodes
  BY <1>1, <1>2, NextSafe
<1>3. CASE n \notin DOMAIN nodes
  <2>1. AcceptInsert /\ n = nextNode
    BY <1>3, NodeSteps DEF NoNewNode, AcceptInsert
  <2> QED BY <2>1 DEF AcceptInsert, FreshNode
<1> QED BY <1>2, <1>3

\* OnItsWay always holds, whatever races the nodes have.
LEMMA OnItsWayHolds == Spec => []OnItsWay
<1>1. Init => OnItsWay
  BY DEF Init, CoordInit, OnItsWay
<1> QED BY <1>1, NextOnItsWay, BaseHolds, OneOwner, RemainingIsEnough,
           IdsGivenOnce, PTL DEF Spec

\* A sub-task that a live node is believed to run is lost in one way only: to
\* the cancellation of another group that comes just as a sub-task of that
\* group ends.  No scan, balancing or other command that comes between leaves
\* a group waiting for a result nobody is going to send.
THEOREM LostToCancelOnly == Spec => LostOnlyLate
<1>1. ASSUME Base, SoleOwner, RemainingCovers, Numbered, OnItsWay, [Next]_vars
      PROVE  \A n \in DOMAIN nodes' : \A t \in nodes'[n].tasks :
         Believed(n, t)' /\ ~Holds(n, t)' =>
           /\ n \in DOMAIN nodes
           /\ Believed(n, t)
           /\ ~Holds(n, t) \/ \E s \in DOMAIN tasks \ {t} : Stopped(s) /\ DroppedFor(s, n)
  BY <1>1, NextOnItsWay DEF StaysHeld, Dropped
<1> QED BY <1>1, OnItsWayHolds, BaseHolds, OneOwner, RemainingIsEnough,
           IdsGivenOnce, PTL DEF Spec, LostOnlyLate

\* Hence none is ever lost where nodes have not that race, or the operator
\* cancels nothing.
THEOREM NoTaskIsLost ==
    ("lateCancel" \notin Races \/ "cancel" \notin Commands) => (Spec => []TaskOnItsWay)
<1> SUFFICES ASSUME "lateCancel" \notin Races \/ "cancel" \notin Commands
             PROVE  Spec => []TaskOnItsWay
  OBVIOUS
<1>1. Init => TaskOnItsWay
  BY DEF Init, CoordInit, TaskOnItsWay
<1>2. ASSUME Base, SoleOwner, RemainingCovers, Numbered, OnItsWay, TaskOnItsWay, [Next]_vars
      PROVE  TaskOnItsWay'
  <2> SUFFICES ASSUME NEW n \in DOMAIN nodes', NEW t \in nodes'[n].tasks, Believed(n, t)'
               PROVE  Holds(n, t)'
    BY DEF TaskOnItsWay
  <2>1. n \in DOMAIN nodes /\ StaysHeld(n, t)
    BY <1>2, NextOnItsWay
  <2>2. ~Dropped(n, t)
    BY DEF Dropped, DroppedFor, Stopped
  <2>3. Believed(n, t) => t \in nodes[n].tasks /\ Holds(n, t)
    BY <1>2, <2>1 DEF TaskOnItsWay, Believed
  <2> QED BY <2>1, <2>2, <2>3 DEF StaysHeld
<1> QED BY <1>1, <1>2, OnItsWayHolds, BaseHolds, OneOwner, RemainingIsEnough,
           IdsGivenOnce, PTL DEF Spec
==========================================================================
