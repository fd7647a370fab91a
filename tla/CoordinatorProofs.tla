------------------------ MODULE CoordinatorProofs ------------------------
(***************************************************************************)
(* Proofs about Cluster for every number of nodes, tasks and groups, every *)
(* set of kinds, game lists, commands, faults and races.                   *)
(***************************************************************************)
EXTENDS Cluster, FiniteSetTheorems, SequenceTheorems, TLAPS

--------------------------------------------------------------------------
(* Lemmas about the operators the actions are built from *)

\* An ordering of a finite set of task ids is a sequence that lists the set.
LEMMA OrderingListsSet ==
    ASSUME NEW S \in SUBSET TaskId, IsFiniteSet(S), NEW ts \in SetToSeqs(S)
    PROVE  ts \in Seq(TaskId) /\ Range(ts) = S
<1> DEFINE D == 1..Cardinality(S)
<1>1. Cardinality(S) \in Nat /\ IsFiniteSet(D) /\ Cardinality(D) = Cardinality(S)
  BY FS_CardinalityType, FS_Interval
<1>2. ts \in [D -> S] /\ \A i, j \in D : i # j => ts[i] # ts[j]
  BY DEF SetToSeqs
<1>3. ts \in Injection(D, S)
  BY <1>2 DEF Injection, IsInjective
<1>4. ts \in Surjection(D, S)
  BY <1>1, <1>3, FS_Injection
<1>5. Range(ts) = S
  BY <1>2, <1>4 DEF Range, Surjection
<1>6. ts \in Seq(TaskId)
  <2>1. ts \in [D -> TaskId]
    BY <1>2
  <2>2. ts \in UNION {[1..n -> TaskId] : n \in Nat}
    BY <1>1, <2>1
  <2> QED BY <2>2, SeqDef
<1> QED BY <1>5, <1>6

\* The same for every node of a loop that sends to several nodes.
LEMMA OrderEachListsSets ==
    ASSUME NEW given, NEW ts \in OrderEach(given), NEW n \in DOMAIN given,
           given[n] \in SUBSET TaskId, IsFiniteSet(given[n])
    PROVE  ts[n] \in Seq(TaskId) /\ Range(ts[n]) = given[n]
<1>1. ts[n] \in SetToSeqs(given[n])
  BY DEF OrderEach
<1> QED BY <1>1, OrderingListsSet

\* A queue gets the messages of a set, behind those it has.
Grows(old, new, msgs) ==
    /\ \A i \in DOMAIN old : i \in DOMAIN new /\ new[i] = old[i]
    /\ \A i \in DOMAIN new \ DOMAIN old :
         new[i] \in msgs /\ \A j \in DOMAIN old : j < i
    /\ \A m \in msgs : \E i \in DOMAIN new \ DOMAIN old : new[i] = m

\* A step tells node n about the sub-tasks S, and its last ping stays as it is.
SentTo(n, type, S) ==
    /\ Grows(nodes[n].queue, nodes'[n].queue, {Msg(type, t) : t \in S})
    /\ nodes'[n].ping = nodes[n].ping

\* A scan pings node n, whose last ping was answered.
Pinged(n) ==
    /\ Answered(n) /\ nodes'[n].ping = "awaiting"
    /\ nodes'[n].queue = Append(nodes[n].queue, Msg("PING", TASK_ID_NONE))

\* Concatenation adds the elements of the second sequence behind the first.
LEMMA ConcatGrows ==
    ASSUME NEW S, NEW q \in Seq(S), NEW s \in Seq(S)
    PROVE  q \o s \in Seq(S) /\ Grows(q, q \o s, Range(s))
<1>1. /\ q \o s \in Seq(S)
      /\ Len(q \o s) = Len(q) + Len(s)
      /\ \A i \in 1..(Len(q) + Len(s)) :
            (q \o s)[i] = IF i <= Len(q) THEN q[i] ELSE s[i - Len(q)]
  BY ConcatProperties
<1>2. /\ DOMAIN q = 1..Len(q) /\ Len(q) \in Nat
      /\ DOMAIN s = 1..Len(s) /\ Len(s) \in Nat
      /\ DOMAIN (q \o s) = 1..(Len(q) + Len(s))
  BY <1>1, LenProperties
<1>3. \A i \in DOMAIN q : i \in DOMAIN (q \o s) /\ (q \o s)[i] = q[i]
  BY <1>1, <1>2
<1>4. ASSUME NEW i \in DOMAIN (q \o s) \ DOMAIN q
      PROVE  (q \o s)[i] \in Range(s) /\ \A j \in DOMAIN q : j < i
  <2>1. i \in 1..(Len(q) + Len(s)) /\ ~(i <= Len(q)) /\ i - Len(q) \in DOMAIN s
    BY <1>2
  <2>2. (q \o s)[i] = s[i - Len(q)]
    BY <1>1, <2>1
  <2> QED BY <1>2, <2>1, <2>2 DEF Range
<1>5. ASSUME NEW i \in DOMAIN s
      PROVE  /\ Len(q) + i \in DOMAIN (q \o s) \ DOMAIN q
             /\ (q \o s)[Len(q) + i] = s[i]
  <2>1. /\ Len(q) + i \in 1..(Len(q) + Len(s)) /\ ~(Len(q) + i <= Len(q))
        /\ (Len(q) + i) - Len(q) = i
    BY <1>2
  <2> QED BY <1>1, <1>2, <2>1
<1>6. \A m \in Range(s) : \E i \in DOMAIN (q \o s) \ DOMAIN q : (q \o s)[i] = m
  BY <1>5 DEF Range
<1> QED BY <1>1, <1>3, <1>4, <1>6 DEF Grows

\* One message for each of a sequence of tasks, behind those of a queue.
LEMMA QueueGrows ==
    ASSUME NEW q \in Seq(Outgoing), NEW ts \in Seq(TaskId), NEW type,
           \A t \in TaskId : Msg(type, t) \in Outgoing
    PROVE  LET r == q \o [i \in DOMAIN ts |-> Msg(type, ts[i])]
           IN  r \in Seq(Outgoing) /\ Grows(q, r, {Msg(type, t) : t \in Range(ts)})
<1> DEFINE msgs == [i \in DOMAIN ts |-> Msg(type, ts[i])]
<1>1. DOMAIN ts = 1..Len(ts) /\ Len(ts) \in Nat /\ \A i \in DOMAIN ts : ts[i] \in TaskId
  BY LenProperties
<1>2. msgs \in Seq(Outgoing)
  <2>1. msgs \in [1..Len(ts) -> Outgoing]
    BY <1>1
  <2> QED BY <1>1, <2>1, SeqDef
<1>3. Range(msgs) = {Msg(type, t) : t \in Range(ts)}
  BY DEF Range
<1> HIDE DEF msgs
<1>4. q \o msgs \in Seq(Outgoing) /\ Grows(q, q \o msgs, Range(msgs))
  BY <1>2, ConcatGrows
<1> QED BY <1>3, <1>4 DEF msgs

\* Node::Send keeps the shape of a node and its tasks.
LEMMA SendKeepsType ==
    ASSUME NEW node \in NodeRecord, NEW msg \in Outgoing
    PROVE  Send(node, msg) \in NodeRecord /\ Send(node, msg).tasks = node.tasks
<1>1. Append(node.queue, msg) \in Seq(Outgoing)
  BY AppendProperties DEF NodeRecord
<1> QED BY <1>1 DEF Send, NodeRecord

\* Node::AssignTask keeps the shape of a node, adds the tasks given and tells
\* the node about them.
LEMMA AssignKeepsType ==
    ASSUME NEW node \in NodeRecord, NEW ts \in Seq(TaskId)
    PROVE  /\ Assign(node, ts) \in NodeRecord
           /\ Assign(node, ts).tasks = node.tasks \cup Range(ts)
           /\ Grows(node.queue, Assign(node, ts).queue, {Msg("TASK", t) : t \in Range(ts)})
           /\ Assign(node, ts).ping = node.ping
<1> DEFINE r == node.queue \o [i \in DOMAIN ts |-> Msg("TASK", ts[i])]
<1>1. \A t \in TaskId : Msg("TASK", t) \in Outgoing
  BY DEF Msg, Outgoing
<1>2. node.queue \in Seq(Outgoing)
  BY DEF NodeRecord
<1>3. r \in Seq(Outgoing) /\ Grows(node.queue, r, {Msg("TASK", t) : t \in Range(ts)})
  BY <1>1, <1>2, QueueGrows
<1>4. Range(ts) \in SUBSET TaskId
  <2>1. \A i \in DOMAIN ts : ts[i] \in TaskId
    BY LenProperties
  <2> QED BY <2>1 DEF Range
<1>5. Assign(node, ts) =
        [node EXCEPT !.tasks = node.tasks \cup Range(ts), !.queue = r]
  BY DEF Assign, NodeRecord
<1> HIDE DEF r
<1> QED BY <1>3, <1>4, <1>5 DEF NodeRecord

\* Node::UnassignTask keeps the shape of a node, takes the tasks given and
\* tells the node about them.
LEMMA UnassignKeepsType ==
    ASSUME NEW node \in NodeRecord, NEW ts \in Seq(TaskId)
    PROVE  /\ Unassign(node, ts) \in NodeRecord
           /\ Unassign(node, ts).tasks = node.tasks \ Range(ts)
           /\ Grows(node.queue, Unassign(node, ts).queue, {Msg("CANCEL", t) : t \in Range(ts)})
           /\ Unassign(node, ts).ping = node.ping
<1> DEFINE r == node.queue \o [i \in DOMAIN ts |-> Msg("CANCEL", ts[i])]
<1>1. \A t \in TaskId : Msg("CANCEL", t) \in Outgoing
  BY DEF Msg, Outgoing
<1>2. node.queue \in Seq(Outgoing)
  BY DEF NodeRecord
<1>3. r \in Seq(Outgoing) /\ Grows(node.queue, r, {Msg("CANCEL", t) : t \in Range(ts)})
  BY <1>1, <1>2, QueueGrows
<1>4. Range(ts) \in SUBSET TaskId
  <2>1. \A i \in DOMAIN ts : ts[i] \in TaskId
    BY LenProperties
  <2> QED BY <2>1 DEF Range
<1>5. Unassign(node, ts) =
        [node EXCEPT !.tasks = node.tasks \ Range(ts), !.queue = r]
  BY DEF Unassign, NodeRecord
<1> HIDE DEF r
<1> QED BY <1>3, <1>4, <1>5 DEF NodeRecord

--------------------------------------------------------------------------
(* Type correctness *)

\* What TypeOK needs to be inductive: every id that is looked up is there.
\* The plan of command_task names at least one node and no node twice; a
\* group is DONE exactly when remaining_tasks is zero, so that counting a
\* result never takes it below.
Linked ==
    /\ \A t \in DOMAIN tasks : tasks[t].group \in DOMAIN groups
    /\ \A n \in DOMAIN nodes : nodes[n].tasks \subseteq DOMAIN tasks
    /\ \A g \in DOMAIN groups :
         (groups[g].status = "DONE") <=> (groups[g].remaining = 0)
    /\ pc[Main] = "create" =>
         plan \in Plan /\ plan.ids # <<>> /\ IsInjective(plan.ids)
    /\ pc[Acceptor] = "insert" => nextNode <= MaxNode

Base == TypeOK /\ Linked

NodesOK == DOMAIN nodes \subseteq NodeId /\ nodes \in [DOMAIN nodes -> NodeRecord]

\* The coordinator starts with no node, task or group, and nothing to link.
LEMMA InitBase == Init => Base
<1> SUFFICES ASSUME Init PROVE Base
  OBVIOUS
<1> USE DEF Init, CoordInit
<1>1. nodes \in [DOMAIN nodes -> NodeRecord] /\ DOMAIN nodes = {}
  OBVIOUS
<1>2. \A S : <<>> \in Seq(S)
  BY EmptySeq
<1>3. pc \in [Thread -> {"off", "run", "balance", "create", "insert", "check"}]
  OBVIOUS
<1>4. nextNode \in 1..MaxNode + 1 /\ lates \in Nat
  BY BoundsAssumption
<1>5. peer \in [NodeId -> PeerState]
  BY DEF PeerState
<1>6. pc[Main] = "run" /\ pc[Acceptor] = "run"
  BY DEF Main, Acceptor, Thread
<1>7. taskQueue \in [NodeId -> Seq(TaskId)]
  BY <1>2
<1>8. TypeOK
  BY <1>1, <1>2, <1>3, <1>4, <1>5, <1>7 DEF TypeOK
<1>9. Linked
  BY <1>1, <1>6 DEF Linked
<1> QED BY <1>8, <1>9 DEF Base

\* Every thread has its own place in pc.
LEMMA ThreadsDiffer ==
    /\ {Main, Acceptor, Handler, Maintenance} \subseteq Thread
    /\ \A n \in NodeId : {Reader(n), Writer(n)} \subseteq Thread
    /\ Main # Acceptor /\ Main # Handler /\ Main # Maintenance
    /\ Acceptor # Handler /\ Acceptor # Maintenance
    /\ \A n \in NodeId : {Reader(n), Writer(n)} \cap {Main, Acceptor} = {}
BY DEF Thread, Main, Acceptor, Handler, Maintenance, Reader, Writer

\* A thread moves to a label other than those Linked speaks about.
LEMMA GotoKeepsType ==
    ASSUME TypeOK, NEW th \in Thread,
           NEW label \in {"off", "run", "balance", "check"},
           Goto(th, label)
    PROVE  /\ pc' \in [Thread -> {"off", "run", "balance", "create", "insert", "check"}]
           /\ pc'[Main] = "create" => pc[Main] = "create"
           /\ pc'[Acceptor] = "insert" => pc[Acceptor] = "insert"
BY ThreadsDiffer DEF TypeOK, Goto

\* Tasks keep their place and their group, groups keep their number and
\* whether they have anything left, and no node gets a task that is not there.
LEMMA LinkedKept ==
    ASSUME Base, NodesOK',
           Len(tasks') = Len(tasks), tasks' \in Seq(TaskRecord),
           \A t \in DOMAIN tasks : tasks'[t].group = tasks[t].group,
           UNCHANGED groups,
           \A n \in DOMAIN nodes' : nodes'[n].tasks \subseteq DOMAIN tasks,
           pc'[Main] = "create" => pc[Main] = "create" /\ plan' = plan,
           pc'[Acceptor] = "insert" => pc[Acceptor] = "insert" /\ nextNode' = nextNode
    PROVE  Linked'
<1>1. DOMAIN tasks' = DOMAIN tasks
  BY LenProperties DEF Base, TypeOK
<1> QED BY <1>1 DEF Base, Linked

\* Erasing a node, by whichever thread, keeps types and links.
LEMMA TerminateBase ==
    ASSUME Base, NEW n \in NodeId, NEW th \in Thread, TerminateNode(n, th),
           recvMessageQueue' \in Seq(Incoming), UNCHANGED peerVars
    PROVE  Base'
<1> USE DEF TerminateNode
<1>1. NodesOK' /\ \A m \in DOMAIN nodes' : m \in DOMAIN nodes /\ nodes'[m] = nodes[m]
  BY DEF Base, TypeOK, NodesOK
<1>2. /\ pc' \in [Thread -> {"off", "run", "balance", "create", "insert", "check"}]
      /\ pc'[Main] = "create" => pc[Main] = "create"
      /\ pc'[Acceptor] = "insert" => pc[Acceptor] = "insert"
  <2>1. \E label \in {"off", "run", "balance", "check"} : Goto(th, label)
    BY DEF Resume
  <2> QED BY <2>1, GotoKeepsType DEF Base
<1>3. TypeOK'
  BY <1>1, <1>2 DEF Base, TypeOK, NodesOK, peerVars
<1>4. Linked'
  BY <1>1, <1>2 DEF Base, Linked
<1> QED BY <1>3, <1>4 DEF Base

\* Any set of tasks that exist is a finite set of ids.
LEMMA FinitelyManyTasks ==
    ASSUME TypeOK, NEW S \in SUBSET DOMAIN tasks
    PROVE  S \in SUBSET TaskId /\ IsFiniteSet(S)
<1>1. DOMAIN tasks = 1..Len(tasks) /\ Len(tasks) \in Nat
  BY LenProperties DEF TypeOK
<1>2. S \in SUBSET (1..Len(tasks)) /\ IsFiniteSet(1..Len(tasks))
  BY <1>1, FS_Interval
<1>3. IsFiniteSet(S)
  BY <1>2, FS_Subset
<1> QED BY <1>1, <1>2, <1>3 DEF TaskId, TASK_ID_NONE

\* What balanceTasks does, without the order it does it in.
LEMMA BalanceFacts ==
    ASSUME Base, NEW th \in Thread, BalanceTasks(th)
    PROVE  /\ \E pending \in SUBSET DOMAIN tasks :
                /\ \A t \in pending : tasks[t].status = "NONE"
                /\ tasks' = [t \in DOMAIN tasks |->
                               IF t \in pending
                               THEN [tasks[t] EXCEPT !.status = "RUNNING"]
                               ELSE tasks[t]]
                /\ \E given \in [DOMAIN nodes -> SUBSET pending] :
                     /\ \A m, n \in DOMAIN nodes : m # n => given[m] \cap given[n] = {}
                     /\ \A n \in DOMAIN nodes :
                          /\ nodes'[n].tasks = nodes[n].tasks \cup given[n]
                          /\ SentTo(n, "TASK", given[n])
           /\ DOMAIN nodes' = DOMAIN nodes
           /\ NodesOK'
<1>0. PICK order \in SetToSeqs(DOMAIN nodes) : \E first \in Firsts(order) :
        LET pending == {t \in DOMAIN tasks :
                            /\ tasks[t].status = "NONE"
                            /\ first[tasks[t].kind] # 0}
            given == [n \in DOMAIN nodes |->
                        {t \in pending : first[tasks[t].kind] = n} \ nodes[n].tasks]
        IN  /\ \E ts \in OrderEach(given) :
                 nodes' = [n \in DOMAIN nodes |-> Assign(nodes[n], ts[n])]
            /\ tasks' = [t \in DOMAIN tasks |->
                           IF t \in pending
                           THEN [tasks[t] EXCEPT !.status = "RUNNING"]
                           ELSE tasks[t]]
  BY DEF BalanceTasks
<1>1. PICK first \in Firsts(order) :
        LET pending == {t \in DOMAIN tasks :
                            /\ tasks[t].status = "NONE"
                            /\ first[tasks[t].kind] # 0}
            given == [n \in DOMAIN nodes |->
                        {t \in pending : first[tasks[t].kind] = n} \ nodes[n].tasks]
        IN  /\ \E ts \in OrderEach(given) :
                 nodes' = [n \in DOMAIN nodes |-> Assign(nodes[n], ts[n])]
            /\ tasks' = [t \in DOMAIN tasks |->
                           IF t \in pending
                           THEN [tasks[t] EXCEPT !.status = "RUNNING"]
                           ELSE tasks[t]]
  BY <1>0
<1> DEFINE pending == {t \in DOMAIN tasks :
                         tasks[t].status = "NONE" /\ first[tasks[t].kind] # 0}
           given == [n \in DOMAIN nodes |->
                       {t \in pending : first[tasks[t].kind] = n} \ nodes[n].tasks]
<1>2. PICK ts \in OrderEach(given) :
        nodes' = [n \in DOMAIN nodes |-> Assign(nodes[n], ts[n])]
  BY <1>1
<1>3. given \in [DOMAIN nodes -> SUBSET pending] /\ pending \in SUBSET DOMAIN tasks
  OBVIOUS
<1>4. \A m, n \in DOMAIN nodes : m # n => given[m] \cap given[n] = {}
  OBVIOUS
<1>5. \A n \in DOMAIN nodes : ts[n] \in Seq(TaskId) /\ Range(ts[n]) = given[n]
  <2> TAKE n \in DOMAIN nodes
  <2>1. given[n] \in SUBSET DOMAIN tasks /\ n \in DOMAIN given
    BY <1>3
  <2>2. given[n] \in SUBSET TaskId /\ IsFiniteSet(given[n])
    BY <2>1, FinitelyManyTasks DEF Base
  <2> HIDE DEF given
  <2> QED BY <2>1, <2>2, OrderEachListsSets
<1>6. \A n \in DOMAIN nodes :
        /\ Assign(nodes[n], ts[n]) \in NodeRecord
        /\ Assign(nodes[n], ts[n]).tasks = nodes[n].tasks \cup given[n]
        /\ Grows(nodes[n].queue, Assign(nodes[n], ts[n]).queue,
                 {Msg("TASK", t) : t \in given[n]})
        /\ Assign(nodes[n], ts[n]).ping = nodes[n].ping
  <2> TAKE n \in DOMAIN nodes
  <2>1. nodes[n] \in NodeRecord
    BY DEF Base, TypeOK
  <2> HIDE DEF given
  <2> QED BY <1>5, <2>1, AssignKeepsType
<1>7. NodesOK' /\ DOMAIN nodes' = DOMAIN nodes
      /\ \A n \in DOMAIN nodes :
           /\ nodes'[n].tasks = nodes[n].tasks \cup given[n]
           /\ SentTo(n, "TASK", given[n])
  <2> HIDE DEF given, pending
  <2> QED BY <1>2, <1>6 DEF NodesOK, Base, TypeOK, SentTo
<1>8. tasks' = [t \in DOMAIN tasks |->
                  IF t \in pending THEN [tasks[t] EXCEPT !.status = "RUNNING"]
                  ELSE tasks[t]]
  BY <1>1
<1>9. \A t \in pending : tasks[t].status = "NONE"
  OBVIOUS
<1> HIDE DEF given, pending
<1> QED BY <1>3, <1>4, <1>7, <1>8, <1>9

\* What a scan does, without the order it does it in.
LEMMA ScanFacts ==
    ASSUME Base, Scan
    PROVE  /\ \E lost \in SUBSET DOMAIN nodes :
                /\ \A n \in DOMAIN nodes :
                     /\ nodes'[n].tasks = IF n \in lost THEN nodes[n].tasks \ RunningTasks(n)
                                          ELSE nodes[n].tasks
                     /\ IF n \in lost THEN SentTo(n, "CANCEL", RunningTasks(n))
                        ELSE Pinged(n) \/ nodes'[n] = nodes[n]
                /\ tasks' = [t \in DOMAIN tasks |->
                               IF t \in UNION {RunningTasks(n) : n \in lost}
                               THEN [tasks[t] EXCEPT !.status = "NONE"]
                               ELSE tasks[t]]
           /\ DOMAIN nodes' = DOMAIN nodes
           /\ NodesOK'
           /\ suspectedBalancing' \in BOOLEAN
<1> DEFINE lost == {n \in DOMAIN nodes : nodes[n].ping = "overdue" /\ ~nodes[n].broken}
           taken == [n \in lost |-> RunningTasks(n)]
           freed == UNION {taken[n] : n \in lost}
<1>1. PICK ts \in OrderEach(taken) :
        nodes' = [n \in DOMAIN nodes |->
                    IF Answered(n)
                    THEN Send([nodes[n] EXCEPT !.ping = "awaiting", !.broken = FALSE],
                              Msg("PING", TASK_ID_NONE))
                    ELSE IF n \in lost
                    THEN Unassign([nodes[n] EXCEPT !.broken = TRUE], ts[n])
                    ELSE nodes[n]]
  BY DEF Scan
<1>2. \A n \in lost : ts[n] \in Seq(TaskId) /\ Range(ts[n]) = RunningTasks(n)
  <2> TAKE n \in lost
  <2>1. taken[n] = RunningTasks(n) /\ n \in DOMAIN taken
    OBVIOUS
  <2>2. RunningTasks(n) \in SUBSET DOMAIN tasks
    BY DEF RunningTasks, Base, Linked
  <2>3. taken[n] \in SUBSET TaskId /\ IsFiniteSet(taken[n])
    BY <2>1, <2>2, FinitelyManyTasks DEF Base
  <2> HIDE DEF taken
  <2> QED BY <2>1, <2>3, OrderEachListsSets
<1>3. \A n \in DOMAIN nodes :
        /\ nodes'[n] \in NodeRecord
        /\ nodes'[n].tasks = IF n \in lost THEN nodes[n].tasks \ RunningTasks(n)
                             ELSE nodes[n].tasks
        /\ IF n \in lost THEN SentTo(n, "CANCEL", RunningTasks(n))
           ELSE Pinged(n) \/ nodes'[n] = nodes[n]
  <2> TAKE n \in DOMAIN nodes
  <2>1. nodes[n] \in NodeRecord
    BY DEF Base, TypeOK
  <2>2. CASE Answered(n)
    <3> DEFINE node == [nodes[n] EXCEPT !.ping = "awaiting", !.broken = FALSE]
    <3>1. /\ node \in NodeRecord /\ node.tasks = nodes[n].tasks
          /\ node.ping = "awaiting" /\ node.queue = nodes[n].queue
      BY <2>1 DEF NodeRecord
    <3>2. Msg("PING", TASK_ID_NONE) \in Outgoing
      BY DEF Msg, Outgoing
    <3>3. nodes'[n] = Send(node, Msg("PING", TASK_ID_NONE)) /\ n \notin lost
      BY <1>1, <2>2 DEF Answered
    <3> HIDE DEF node
    <3>4. /\ nodes'[n].ping = "awaiting"
          /\ nodes'[n].queue = Append(nodes[n].queue, Msg("PING", TASK_ID_NONE))
      BY <3>1, <3>3 DEF Send, NodeRecord
    <3> QED BY <2>2, <3>1, <3>2, <3>3, <3>4, SendKeepsType DEF Pinged
  <2>3. CASE ~Answered(n) /\ n \in lost
    <3> DEFINE node == [nodes[n] EXCEPT !.broken = TRUE]
    <3>1. /\ node \in NodeRecord /\ node.tasks = nodes[n].tasks
          /\ node.ping = nodes[n].ping /\ node.queue = nodes[n].queue
      BY <2>1 DEF NodeRecord
    <3>2. nodes'[n] = Unassign(node, ts[n])
      BY <1>1, <2>3
    <3>3. ts[n] \in Seq(TaskId) /\ Range(ts[n]) = RunningTasks(n)
      BY <1>2, <2>3
    <3> HIDE DEF node
    <3>4. SentTo(n, "CANCEL", RunningTasks(n))
      BY <3>1, <3>2, <3>3, UnassignKeepsType DEF SentTo
    <3> QED BY <2>3, <3>1, <3>2, <3>3, <3>4, UnassignKeepsType
  <2>4. CASE ~Answered(n) /\ n \notin lost
    BY <1>1, <2>1, <2>4
  <2> QED BY <2>2, <2>3, <2>4
<1>4. DOMAIN nodes' = DOMAIN nodes /\ NodesOK'
  BY <1>1, <1>3 DEF NodesOK, Base, TypeOK
<1>5. tasks' = [t \in DOMAIN tasks |->
                  IF t \in UNION {RunningTasks(n) : n \in lost}
                  THEN [tasks[t] EXCEPT !.status = "NONE"] ELSE tasks[t]]
  <2>1. freed = UNION {RunningTasks(n) : n \in lost}
    OBVIOUS
  <2> QED BY <2>1 DEF Scan
<1>6. suspectedBalancing' \in BOOLEAN
  BY DEF Scan, Base, TypeOK
<1>7. lost \in SUBSET DOMAIN nodes
  OBVIOUS
<1> HIDE DEF lost
<1> QED BY <1>3, <1>4, <1>5, <1>6, <1>7

\* What command_cancel does, without the order it does it in.
LEMMA CancelFacts ==
    ASSUME Base, NEW g, CancelGroup(g)
    PROVE  /\ \A n \in DOMAIN nodes :
                /\ nodes'[n].tasks = nodes[n].tasks \ Victims(g)
                /\ SentTo(n, "CANCEL", Victims(g) \cap nodes[n].tasks)
           /\ DOMAIN nodes' = DOMAIN nodes
           /\ NodesOK'
<1> DEFINE taken == [n \in DOMAIN nodes |-> Victims(g) \cap nodes[n].tasks]
<1>1. PICK ts \in OrderEach(taken) :
        nodes' = [n \in DOMAIN nodes |-> Unassign(nodes[n], ts[n])]
  BY DEF CancelGroup
<1>2. \A n \in DOMAIN nodes :
        ts[n] \in Seq(TaskId) /\ Range(ts[n]) = Victims(g) \cap nodes[n].tasks
  <2> TAKE n \in DOMAIN nodes
  <2>1. taken[n] = Victims(g) \cap nodes[n].tasks /\ n \in DOMAIN taken
    OBVIOUS
  <2>2. Victims(g) \cap nodes[n].tasks \in SUBSET DOMAIN tasks
    BY DEF Victims
  <2>3. taken[n] \in SUBSET TaskId /\ IsFiniteSet(taken[n])
    BY <2>1, <2>2, FinitelyManyTasks DEF Base
  <2> HIDE DEF taken
  <2> QED BY <2>1, <2>3, OrderEachListsSets
<1>3. \A n \in DOMAIN nodes :
        /\ Unassign(nodes[n], ts[n]) \in NodeRecord
        /\ Unassign(nodes[n], ts[n]).tasks = nodes[n].tasks \ Victims(g)
        /\ Grows(nodes[n].queue, Unassign(nodes[n], ts[n]).queue,
                 {Msg("CANCEL", t) : t \in Victims(g) \cap nodes[n].tasks})
        /\ Unassign(nodes[n], ts[n]).ping = nodes[n].ping
  <2> TAKE n \in DOMAIN nodes
  <2>1. nodes[n] \in NodeRecord
    BY DEF Base, TypeOK
  <2>2. Unassign(nodes[n], ts[n]).tasks = nodes[n].tasks \ (Victims(g) \cap nodes[n].tasks)
    BY <1>2, <2>1, UnassignKeepsType
  <2> QED BY <1>2, <2>1, <2>2, UnassignKeepsType
<1> HIDE DEF taken
<1> QED BY <1>1, <1>3 DEF NodesOK, Base, TypeOK, SentTo

\* command_task makes at most one sub-task per node of its plan.
LEMMA NumPartsBound ==
    ASSUME NEW games \in Nat, NEW n \in Nat \ {0}
    PROVE  NumParts(games, n) \in 0..n
BY DEF NumParts

\* What command_task does when no node of its plan is gone: the sub-task of
\* the i-th node of the plan gets the i-th id after those in use.
LEMMA CreateFacts ==
    ASSUME Base, CreateGroup,
           ~ \E i \in Parts(plan) : plan.ids[i] \notin DOMAIN nodes
    PROVE  LET k == NumParts(plan.games, Len(plan.ids))
           IN  /\ plan \in Plan /\ Len(plan.ids) \in Nat \ {0}
               /\ IsInjective(plan.ids) /\ DOMAIN plan.ids = 1..Len(plan.ids)
               /\ Parts(plan) = 1..k /\ k \in 0..Len(plan.ids)
               /\ tasks' \in Seq(TaskRecord)
               /\ DOMAIN tasks = 1..Len(tasks) /\ Len(tasks) \in Nat
               /\ DOMAIN tasks' = 1..(Len(tasks) + k)
               /\ \A t \in DOMAIN tasks : tasks'[t] = tasks[t]
               /\ \A t \in DOMAIN tasks' \ DOMAIN tasks :
                    tasks'[t] = NewTask(Len(groups) + 1, plan.kind)
               /\ DOMAIN nodes' = DOMAIN nodes
               /\ NodesOK'
               /\ \A n \in DOMAIN nodes :
                    LET given == {Len(tasks) + i : i \in {j \in 1..k : plan.ids[j] = n}}
                    IN  /\ nodes'[n].tasks = nodes[n].tasks \cup given
                        /\ SentTo(n, "TASK", given)
<1> DEFINE k == NumParts(plan.games, Len(plan.ids))
<1>1. /\ pc[Main] = "create" /\ plan \in Plan /\ plan.ids # <<>>
      /\ IsInjective(plan.ids)
  BY DEF CreateGroup, Base, Linked
<1>2. /\ Len(plan.ids) \in Nat \ {0} /\ plan.games \in Nat /\ plan.kind \in Kinds
      /\ DOMAIN plan.ids = 1..Len(plan.ids)
  BY <1>1, EmptySeq, LenProperties DEF Plan
<1>3. k \in 0..Len(plan.ids) /\ Parts(plan) = 1..k
  BY <1>2, NumPartsBound DEF Parts
<1> HIDE DEF k
<1>4. Len(tasks) \in Nat /\ DOMAIN tasks = 1..Len(tasks) /\ Len(groups) \in Nat
  BY LenProperties DEF Base, TypeOK
<1>5. NewTask(Len(groups) + 1, plan.kind) \in TaskRecord
  BY <1>2, <1>4 DEF NewTask, TaskRecord, GroupId, TASK_ID_NONE
<1> DEFINE new == [i \in 1..k |-> NewTask(Len(groups) + 1, plan.kind)]
<1>6. new \in Seq(TaskRecord) /\ Len(new) = k /\ \A i \in 1..k : new[i] = NewTask(Len(groups) + 1, plan.kind)
  <2>1. new \in [1..k -> TaskRecord] /\ k \in Nat
    BY <1>3, <1>5
  <2>2. new \in Seq(TaskRecord)
    BY <2>1, SeqDef
  <2> QED BY <2>1, <2>2, LenProperties
<1>7. tasks' = tasks \o new
  BY <1>3 DEF CreateGroup
<1>8. /\ tasks' \in Seq(TaskRecord) /\ Len(tasks') = Len(tasks) + k
      /\ \A t \in 1..(Len(tasks) + k) :
            tasks'[t] = IF t <= Len(tasks) THEN tasks[t] ELSE new[t - Len(tasks)]
  <2> HIDE DEF new
  <2>1. tasks \in Seq(TaskRecord)
    BY DEF Base, TypeOK
  <2> QED BY <1>6, <1>7, <2>1, ConcatProperties
<1>9. DOMAIN tasks' = 1..(Len(tasks) + k)
  BY <1>8, LenProperties
<1>10. \A t \in DOMAIN tasks : tasks'[t] = tasks[t]
  BY <1>3, <1>4, <1>8
<1>11. \A t \in DOMAIN tasks' \ DOMAIN tasks :
         tasks'[t] = NewTask(Len(groups) + 1, plan.kind)
  <2> TAKE t \in DOMAIN tasks' \ DOMAIN tasks
  <2>1. t \in 1..(Len(tasks) + k) /\ ~(t <= Len(tasks)) /\ t - Len(tasks) \in 1..k
    BY <1>3, <1>4, <1>9
  <2> QED BY <1>6, <1>8, <2>1
<1>12. \A n \in DOMAIN nodes :
         /\ nodes'[n] \in NodeRecord
         /\ nodes'[n].tasks = nodes[n].tasks \cup
                {Len(tasks) + i : i \in {j \in 1..k : plan.ids[j] = n}}
         /\ SentTo(n, "TASK", {Len(tasks) + i : i \in {j \in 1..k : plan.ids[j] = n}})
  <2> TAKE n \in DOMAIN nodes
  <2>0. nodes[n] \in NodeRecord
    BY DEF Base, TypeOK
  <2>1. CASE \E i \in Parts(plan) : plan.ids[i] = n
    <3> DEFINE i == CHOOSE i \in Parts(plan) : plan.ids[i] = n
    <3>1. i \in 1..k /\ plan.ids[i] = n
      BY <1>3, <2>1
    <3>2. nodes'[n] = Assign(nodes[n], <<Len(tasks) + i>>)
      BY <2>1 DEF CreateGroup
    <3> HIDE DEF i
    <3>3. \A j \in 1..k : plan.ids[j] = n => j = i
      BY <1>1, <1>2, <1>3, <3>1 DEF IsInjective
    <3>4. Len(tasks) + i \in TaskId
      BY <1>3, <1>4, <3>1 DEF TaskId, TASK_ID_NONE
    <3>5. /\ <<Len(tasks) + i>> \in Seq(TaskId)
          /\ Range(<<Len(tasks) + i>>) = {Len(tasks) + i}
      BY <3>4 DEF Range
    <3>6. {Len(tasks) + j : j \in {j \in 1..k : plan.ids[j] = n}} = {Len(tasks) + i}
      BY <3>1, <3>3
    <3>7. SentTo(n, "TASK", {Len(tasks) + i})
      BY <2>0, <3>2, <3>5, AssignKeepsType DEF SentTo
    <3> QED BY <2>0, <3>2, <3>5, <3>6, <3>7, AssignKeepsType
  <2>2. CASE ~ \E i \in Parts(plan) : plan.ids[i] = n
    <3>1. nodes'[n] = nodes[n]
      BY <2>2 DEF CreateGroup
    <3>2. {j \in 1..k : plan.ids[j] = n} = {}
      BY <1>3, <2>2
    <3>3. SentTo(n, "TASK", {})
      BY <3>1 DEF SentTo, Grows
    <3>4. {Len(tasks) + i : i \in {j \in 1..k : plan.ids[j] = n}} = {}
      BY <3>2
    <3> QED BY <2>0, <3>1, <3>3, <3>4
  <2> QED BY <2>1, <2>2
<1>13. DOMAIN nodes' = DOMAIN nodes /\ NodesOK'
  <2>1. DOMAIN nodes' = DOMAIN nodes /\ nodes' = [n \in DOMAIN nodes |-> nodes'[n]]
    BY DEF CreateGroup
  <2> QED BY <1>12, <2>1 DEF NodesOK, Base, TypeOK
<1> QED BY <1>1, <1>2, <1>3, <1>4, <1>8, <1>9, <1>10, <1>11, <1>12, <1>13 DEF k
==========================================================================
