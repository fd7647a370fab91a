--------------------------- MODULE ClusterProofs ---------------------------
(***************************************************************************)
(* The invariants of Cluster, action by action: type correctness first,    *)
(* then what rests on it.                                                  *)
(***************************************************************************)
EXTENDS CoordinatorProofs

--------------------------------------------------------------------------
(* Base, action by action *)

\* A pass over the tasks that sets the status of some of them.
LEMMA StatusPass ==
    ASSUME TypeOK, NEW S \in SUBSET DOMAIN tasks,
           NEW st \in {"NONE", "RUNNING", "DONE"},
           tasks' = [t \in DOMAIN tasks |->
                       IF t \in S THEN [tasks[t] EXCEPT !.status = st] ELSE tasks[t]]
    PROVE  /\ tasks' \in Seq(TaskRecord)
           /\ Len(tasks') = Len(tasks)
           /\ DOMAIN tasks' = DOMAIN tasks
           /\ \A t \in DOMAIN tasks : tasks'[t].group = tasks[t].group
<1>1. DOMAIN tasks = 1..Len(tasks) /\ Len(tasks) \in Nat
      /\ \A t \in DOMAIN tasks : tasks[t] \in TaskRecord
  BY LenProperties, ElementOfSeq DEF TypeOK
<1>2. \A t \in DOMAIN tasks :
        tasks'[t] \in TaskRecord /\ tasks'[t].group = tasks[t].group
  BY <1>1 DEF TaskRecord
<1>3. tasks' \in [1..Len(tasks) -> TaskRecord]
  BY <1>1, <1>2
<1>4. tasks' \in Seq(TaskRecord)
  BY <1>1, <1>3, SeqDef
<1> QED BY <1>1, <1>2, <1>3, <1>4, LenProperties

\* A node of the map has the shape of a node.
LEMMA NodeShape ==
    ASSUME TypeOK, NEW n \in DOMAIN nodes
    PROVE  nodes[n] \in NodeRecord /\ n \in NodeId
BY DEF TypeOK

\* balanceTasks gives tasks that exist to nodes that exist.
LEMMA BalanceBase ==
    ASSUME Base, NEW th \in Thread, BalanceTasks(th), UNCHANGED peerVars
    PROVE  Base'
<1>1. PICK pending \in SUBSET DOMAIN tasks :
        /\ tasks' = [t \in DOMAIN tasks |->
                       IF t \in pending
                       THEN [tasks[t] EXCEPT !.status = "RUNNING"]
                       ELSE tasks[t]]
        /\ \E given \in [DOMAIN nodes -> SUBSET pending] :
             \A n \in DOMAIN nodes : nodes'[n].tasks = nodes[n].tasks \cup given[n]
  BY BalanceFacts
<1>2. NodesOK' /\ DOMAIN nodes' = DOMAIN nodes
  BY BalanceFacts
<1>3. /\ tasks' \in Seq(TaskRecord) /\ Len(tasks') = Len(tasks)
      /\ \A t \in DOMAIN tasks : tasks'[t].group = tasks[t].group
  BY <1>1, StatusPass DEF Base
<1>4. \A n \in DOMAIN nodes' : nodes'[n].tasks \subseteq DOMAIN tasks
  BY <1>1, <1>2 DEF Base, Linked
<1>5. /\ pc' \in [Thread -> {"off", "run", "balance", "create", "insert", "check"}]
      /\ pc'[Main] = "create" => pc[Main] = "create"
      /\ pc'[Acceptor] = "insert" => pc[Acceptor] = "insert"
  <2>1. \E label \in {"off", "run", "balance", "check"} : Goto(th, label)
    BY DEF Resume, BalanceTasks
  <2> QED BY <2>1, GotoKeepsType DEF Base
<1>6. TypeOK'
  BY <1>2, <1>3, <1>5 DEF Base, TypeOK, NodesOK, peerVars, BalanceTasks
<1>7. Linked'
  BY <1>2, <1>3, <1>4, <1>5, LinkedKept DEF BalanceTasks
<1> QED BY <1>6, <1>7 DEF Base

\* A scan only takes tasks from nodes.
LEMMA ScanBase ==
    ASSUME Base, Scan, UNCHANGED peerVars
    PROVE  Base'
<1>1. PICK lost \in SUBSET DOMAIN nodes :
        /\ \A n \in DOMAIN nodes :
             nodes'[n].tasks = IF n \in lost THEN nodes[n].tasks \ RunningTasks(n)
                               ELSE nodes[n].tasks
        /\ tasks' = [t \in DOMAIN tasks |->
                       IF t \in UNION {RunningTasks(n) : n \in lost}
                       THEN [tasks[t] EXCEPT !.status = "NONE"]
                       ELSE tasks[t]]
  BY ScanFacts
<1>2. NodesOK' /\ DOMAIN nodes' = DOMAIN nodes /\ suspectedBalancing' \in BOOLEAN
  BY ScanFacts
<1>3. UNION {RunningTasks(n) : n \in lost} \in SUBSET DOMAIN tasks
  BY DEF RunningTasks, Base, Linked
<1>4. /\ tasks' \in Seq(TaskRecord) /\ Len(tasks') = Len(tasks)
      /\ \A t \in DOMAIN tasks : tasks'[t].group = tasks[t].group
  BY <1>1, <1>3, StatusPass DEF Base
<1>5. \A n \in DOMAIN nodes' : nodes'[n].tasks \subseteq DOMAIN tasks
  BY <1>1, <1>2 DEF Base, Linked
<1>6. /\ pc' \in [Thread -> {"off", "run", "balance", "create", "insert", "check"}]
      /\ pc'[Main] = "create" => pc[Main] = "create"
      /\ pc'[Acceptor] = "insert" => pc[Acceptor] = "insert"
  BY GotoKeepsType, ThreadsDiffer DEF Base, Scan
<1>7. TypeOK'
  BY <1>2, <1>4, <1>6 DEF Base, TypeOK, NodesOK, peerVars, Scan
<1>8. Linked'
  BY <1>2, <1>4, <1>5, <1>6, LinkedKept DEF Scan
<1> QED BY <1>7, <1>8 DEF Base

\* A step that leaves tasks, groups, the plan and the accepting thread alone,
\* and gives no node a task.
LEMMA QuietStep ==
    ASSUME Base, NodesOK',
           \A n \in DOMAIN nodes' : nodes'[n].tasks \subseteq DOMAIN tasks,
           UNCHANGED <<tasks, groups, suspectedBalancing, pc, plan, nextNode>>,
           recvMessageQueue' \in Seq(Incoming),
           crashed' \in BOOLEAN,
           peer' \in [NodeId -> PeerState],
           taskQueue' \in [NodeId -> Seq(TaskId)],
           lates' \in Nat
    PROVE  Base'
<1>1. TypeOK'
  BY DEF Base, TypeOK, NodesOK
<1>2. Linked'
  BY DEF Base, Linked
<1> QED BY <1>1, <1>2 DEF Base

\* command_cancel only takes tasks from nodes; a group that is running has
\* something left.
LEMMA CancelBase ==
    ASSUME Base, NEW g, CancelGroup(g), UNCHANGED peerVars
    PROVE  Base'
<1>1. /\ NodesOK' /\ DOMAIN nodes' = DOMAIN nodes
      /\ \A n \in DOMAIN nodes : nodes'[n].tasks = nodes[n].tasks \ Victims(g)
  BY CancelFacts
<1>2. /\ g \in DOMAIN groups /\ groups[g].status = "RUNNING"
      /\ groups' = [groups EXCEPT ![g].status = "CANCELLED"]
      /\ DOMAIN groups = 1..Len(groups) /\ Len(groups) \in Nat
      /\ \A h \in DOMAIN groups : groups[h] \in GroupRecord
  BY LenProperties, ElementOfSeq DEF CancelGroup, Base, TypeOK
<1>3. /\ DOMAIN groups' = DOMAIN groups
      /\ \A h \in DOMAIN groups :
           /\ groups'[h] \in GroupRecord
           /\ groups'[h].remaining = groups[h].remaining
           /\ (groups'[h].status = "DONE") <=> (groups[h].status = "DONE")
  BY <1>2 DEF GroupRecord
<1>4. groups' \in Seq(GroupRecord)
  <2>1. groups' \in [1..Len(groups) -> GroupRecord]
    BY <1>2, <1>3
  <2> QED BY <1>2, <2>1, SeqDef
<1>5. TypeOK'
  BY <1>1, <1>4 DEF Base, TypeOK, NodesOK, peerVars, CancelGroup
<1>6. Linked'
  BY <1>1, <1>3 DEF Base, Linked, CancelGroup
<1> QED BY <1>5, <1>6 DEF Base

\* command_task: the new sub-tasks belong to the new group, and only nodes of
\* the plan get them.  The new group waits for at least one node.
LEMMA CreateBase ==
    ASSUME Base, CreateGroup, UNCHANGED peerVars
    PROVE  Base'
<1>1. /\ pc' \in [Thread -> {"off", "run", "balance", "create", "insert", "check"}]
      /\ pc'[Main] # "create"
      /\ pc'[Acceptor] = "insert" => pc[Acceptor] = "insert"
  BY ThreadsDiffer DEF CreateGroup, Goto, Base, TypeOK
<1>2. CASE \E i \in Parts(plan) : plan.ids[i] \notin DOMAIN nodes
  <2>1. crashed' = TRUE /\ UNCHANGED <<nodes, tasks, groups>>
    BY <1>2 DEF CreateGroup
  <2>2. TypeOK'
    BY <1>1, <2>1 DEF Base, TypeOK, peerVars, CreateGroup
  <2>3. Linked'
    BY <1>1, <2>1 DEF Base, Linked, CreateGroup
  <2> QED BY <2>2, <2>3 DEF Base
<1>3. CASE ~ \E i \in Parts(plan) : plan.ids[i] \notin DOMAIN nodes
  <2> DEFINE k == NumParts(plan.games, Len(plan.ids))
             G == Len(groups) + 1
  <2>1. /\ Len(plan.ids) \in Nat \ {0} /\ k \in 0..Len(plan.ids)
        /\ tasks' \in Seq(TaskRecord)
        /\ DOMAIN tasks = 1..Len(tasks) /\ Len(tasks) \in Nat
        /\ DOMAIN tasks' = 1..(Len(tasks) + k)
        /\ \A t \in DOMAIN tasks : tasks'[t] = tasks[t]
        /\ \A t \in DOMAIN tasks' \ DOMAIN tasks : tasks'[t] = NewTask(G, plan.kind)
        /\ DOMAIN nodes' = DOMAIN nodes /\ NodesOK'
        /\ \A n \in DOMAIN nodes : nodes'[n].tasks = nodes[n].tasks \cup
                {Len(tasks) + i : i \in {j \in 1..k : plan.ids[j] = n}}
    BY <1>3, CreateFacts
  <2> HIDE DEF k
  <2>2. /\ groups' = Append(groups, NewGroup(Len(plan.ids)))
        /\ crashed' = crashed
    BY <1>3 DEF CreateGroup
  <2>3. NewGroup(Len(plan.ids)) \in GroupRecord
    <3>1. <<>> \in Seq(TaskId)
      BY EmptySeq
    <3> QED BY <2>1, <3>1 DEF NewGroup, GroupRecord
  <2>4. /\ groups' \in Seq(GroupRecord)
        /\ DOMAIN groups = 1..Len(groups) /\ Len(groups) \in Nat
        /\ DOMAIN groups' = 1..G
        /\ \A h \in DOMAIN groups : groups'[h] = groups[h]
        /\ groups'[G] = NewGroup(Len(plan.ids))
    <3>1. groups \in Seq(GroupRecord)
      BY DEF Base, TypeOK
    <3>2. /\ Append(groups, NewGroup(Len(plan.ids))) \in Seq(GroupRecord)
          /\ Len(Append(groups, NewGroup(Len(plan.ids)))) = Len(groups) + 1
          /\ \A i \in 1..Len(groups) :
                Append(groups, NewGroup(Len(plan.ids)))[i] = groups[i]
          /\ Append(groups, NewGroup(Len(plan.ids)))[Len(groups) + 1] = NewGroup(Len(plan.ids))
      BY <2>3, <3>1, AppendProperties
    <3>3. DOMAIN groups = 1..Len(groups) /\ Len(groups) \in Nat
      BY <3>1, LenProperties
    <3>4. groups' \in Seq(GroupRecord) /\ Len(groups') = G
      BY <2>2, <3>2
    <3>5. DOMAIN groups' = 1..G
      BY <3>4, LenProperties
    <3> QED BY <2>2, <3>2, <3>3, <3>4, <3>5
  <2> HIDE DEF G
  <2>5. TypeOK'
    <3>1. plan' \in Plan \cup {NoPlan}
      BY DEF CreateGroup
    <3> QED BY <1>1, <2>1, <2>2, <2>4, <3>1 DEF Base, TypeOK, NodesOK, peerVars, CreateGroup
  <2>6. \A t \in DOMAIN tasks' : tasks'[t].group \in DOMAIN groups'
    <3>1. G \in DOMAIN groups' /\ DOMAIN groups \subseteq DOMAIN groups'
      BY <2>4 DEF G
    <3>2. \A t \in DOMAIN tasks : tasks'[t].group \in DOMAIN groups
      BY <2>1 DEF Base, Linked
    <3>3. \A t \in DOMAIN tasks' \ DOMAIN tasks : tasks'[t].group = G
      BY <2>1 DEF NewTask
    <3> QED BY <3>1, <3>2, <3>3
  <2>7. \A n \in DOMAIN nodes' : nodes'[n].tasks \subseteq DOMAIN tasks'
    <3> SUFFICES ASSUME NEW n \in DOMAIN nodes PROVE nodes'[n].tasks \subseteq DOMAIN tasks'
      BY <2>1
    <3>1. nodes[n].tasks \subseteq 1..Len(tasks)
      BY <2>1 DEF Base, Linked
    <3>2. \A j \in 1..k : Len(tasks) + j \in 1..(Len(tasks) + k)
      BY <2>1
    <3>3. 1..Len(tasks) \subseteq 1..(Len(tasks) + k)
      BY <2>1
    <3> QED BY <2>1, <3>1, <3>2, <3>3
  <2>8. \A h \in DOMAIN groups' : (groups'[h].status = "DONE") <=> (groups'[h].remaining = 0)
    <3>1. groups'[G].status # "DONE" /\ groups'[G].remaining # 0
      BY <2>1, <2>4 DEF NewGroup
    <3>2. \A h \in DOMAIN groups' : h \in DOMAIN groups \/ h = G
      BY <2>4 DEF G
    <3> QED BY <2>4, <3>1, <3>2 DEF Base, Linked
  <2>9. pc'[Acceptor] = "insert" => nextNode' <= MaxNode
    BY <1>1 DEF Base, Linked, CreateGroup
  <2> QED BY <1>1, <2>5, <2>6, <2>7, <2>8, <2>9 DEF Base, Linked
<1> QED BY <1>2, <1>3

\* command_task copies the ids of at least one node, each once.
LEMMA RequestBase ==
    ASSUME Base, NEW kind \in Kinds, NEW games \in GameCounts,
           RequestTask(kind, games), UNCHANGED peerVars
    PROVE  Base'
<1> USE DEF RequestTask
<1>1. PICK ids \in SetToSeqs(Eligible(kind)) :
        plan' = [ids |-> ids, kind |-> kind, games |-> games]
  OBVIOUS
<1>2. IsFiniteSet(Eligible(kind)) /\ Eligible(kind) \in SUBSET NodeId
  <2>1. Eligible(kind) \in SUBSET NodeId
    BY DEF Eligible, Base, TypeOK
  <2>2. IsFiniteSet(NodeId)
    BY BoundsAssumption, FS_Interval DEF NodeId
  <2> QED BY <2>1, <2>2, FS_Subset
<1>3. /\ Cardinality(Eligible(kind)) \in Nat \ {0}
      /\ ids \in [1..Cardinality(Eligible(kind)) -> Eligible(kind)]
      /\ IsInjective(ids)
  <2>1. Cardinality(Eligible(kind)) \in Nat /\ Cardinality(Eligible(kind)) # 0
    BY <1>2, FS_CardinalityType, FS_EmptySet
  <2> QED BY <2>1 DEF SetToSeqs, IsInjective
<1>4. ids \in Seq(NodeId) /\ ids # <<>>
  <2>1. ids \in [1..Cardinality(Eligible(kind)) -> NodeId]
    BY <1>2, <1>3
  <2>2. ids \in Seq(NodeId)
    BY <1>3, <2>1, SeqDef
  <2>3. 1 \in DOMAIN ids
    BY <1>3
  <2> QED BY <2>2, <2>3
<1>5. plan' \in Plan /\ plan'.ids # <<>> /\ IsInjective(plan'.ids)
  <2>1. games \in Nat
    BY BoundsAssumption
  <2> QED BY <1>1, <1>3, <1>4, <2>1 DEF Plan
<1>6. /\ pc' \in [Thread -> {"off", "run", "balance", "create", "insert", "check"}]
      /\ pc'[Acceptor] = "insert" => pc[Acceptor] = "insert"
  BY ThreadsDiffer DEF Goto, Base, TypeOK
<1>7. TypeOK'
  BY <1>5, <1>6 DEF Base, TypeOK, peerVars
<1>8. Linked'
  BY <1>5, <1>6 DEF Base, Linked
<1> QED BY <1>7, <1>8 DEF Base

\* The accepting thread inserts a node without tasks, under a new id.
LEMMA AcceptBase ==
    ASSUME Base, Accept \/ AcceptInsert, UNCHANGED peerVars
    PROVE  Base'
<1>1. CASE Accept
  <2>1. /\ pc' \in [Thread -> {"off", "run", "balance", "create", "insert", "check"}]
        /\ pc'[Main] = "create" => pc[Main] = "create"
    BY <1>1, ThreadsDiffer DEF Accept, Goto, Base, TypeOK
  <2>2. TypeOK'
    BY <1>1, <2>1 DEF Base, TypeOK, peerVars, Accept
  <2>3. Linked'
    BY <1>1, <2>1 DEF Base, Linked, Accept
  <2> QED BY <2>2, <2>3 DEF Base
<1>2. CASE AcceptInsert
  <2> USE <1>2 DEF AcceptInsert
  <2>1. nextNode \in NodeId
    BY BoundsAssumption DEF Base, TypeOK, Linked, NodeId
  <2>2. FreshNode \in NodeRecord
    <3>1. <<>> \in Seq(Outgoing)
      BY EmptySeq
    <3> QED BY <3>1 DEF FreshNode, NodeRecord
  <2>3. NodesOK' /\ \A n \in DOMAIN nodes' : nodes'[n].tasks \subseteq DOMAIN tasks
    <3>1. \A n \in DOMAIN nodes' :
            \/ nodes'[n] = FreshNode
            \/ n \in DOMAIN nodes /\ nodes'[n] = nodes[n]
      OBVIOUS
    <3>2. FreshNode.tasks = {}
      BY DEF FreshNode
    <3>3. nodes' = [n \in DOMAIN nodes' |-> nodes'[n]]
      OBVIOUS
    <3> QED BY <2>1, <2>2, <3>1, <3>2, <3>3 DEF NodesOK, Base, TypeOK, Linked
  <2>4. /\ pc' \in [Thread -> {"off", "run", "balance", "create", "insert", "check"}]
        /\ pc'[Main] = "create" => pc[Main] = "create"
        /\ pc'[Acceptor] # "insert"
    BY <2>1, ThreadsDiffer DEF Base, TypeOK
  <2>5. nextNode' \in 1..MaxNode + 1
    BY <2>1, BoundsAssumption DEF NodeId
  <2>6. TypeOK'
    BY <2>3, <2>4, <2>5 DEF Base, TypeOK, NodesOK, peerVars
  <2>7. Linked'
    BY <2>3, <2>4 DEF Base, Linked
  <2> QED BY <2>6, <2>7 DEF Base
<1> QED BY <1>1, <1>2

\* The maintenance thread goes on after its scan.
LEMMA CheckBase ==
    ASSUME Base, Check, UNCHANGED peerVars
    PROVE  Base'
<1>1. /\ pc' \in [Thread -> {"off", "run", "balance", "create", "insert", "check"}]
      /\ pc'[Main] = "create" => pc[Main] = "create"
      /\ pc'[Acceptor] = "insert" => pc[Acceptor] = "insert"
  <2>1. \E label \in {"off", "run", "balance", "check"} : Goto(Maintenance, label)
    BY DEF Check
  <2> QED BY <2>1, ThreadsDiffer, GotoKeepsType DEF Base
<1>2. TypeOK'
  BY <1>1 DEF Base, TypeOK, peerVars, Check
<1>3. Linked'
  BY <1>1 DEF Base, Linked, Check
<1> QED BY <1>2, <1>3 DEF Base

\* What the handler takes out of the queue was put in by some node.
LEMMA TakeKeepsType ==
    ASSUME TypeOK, NEW type, Take(type)
    PROVE  /\ recvMessageQueue' \in Seq(Incoming)
           /\ Head(recvMessageQueue) \in Incoming
           /\ Head(recvMessageQueue).type = type
BY HeadTailProperties DEF Take, TypeOK

\* Counting the result of a task whose group is not DONE keeps the shape of
\* the group, and its counter reaches zero when it becomes DONE.
LEMMA MergedKeepsType ==
    ASSUME NEW group \in GroupRecord, NEW t \in TaskId,
           group.status # "DONE", group.remaining # 0
    PROVE  /\ Merged(group, t) \in GroupRecord
           /\ (Merged(group, t).status = "DONE") <=> (Merged(group, t).remaining = 0)
<1>1. Append(group.aggregate, t) \in Seq(TaskId)
  BY AppendProperties DEF GroupRecord
<1>2. group.remaining \in Nat /\ group.remaining - 1 \in Nat
  BY DEF GroupRecord
<1> QED BY <1>1, <1>2 DEF Merged, GroupRecord

\* What handling a result does: nothing, or one running task becomes DONE and
\* its group, not DONE before, counts it.
LEMMA ResultFacts ==
    ASSUME Base, HandleResult
    PROVE  \/ UNCHANGED <<tasks, groups>>
           \/ \E t \in DOMAIN tasks :
                LET g == tasks[t].group
                IN  /\ tasks[t].status = "RUNNING" /\ t \in TaskId
                    /\ g \in DOMAIN groups /\ groups[g] \in GroupRecord
                    /\ groups[g].status # "DONE" /\ groups[g].remaining # 0
                    /\ tasks' = [s \in DOMAIN tasks |->
                                   IF s \in {t} THEN [tasks[s] EXCEPT !.status = "DONE"]
                                   ELSE tasks[s]]
                    /\ DOMAIN groups' = DOMAIN groups
                    /\ groups'[g] = Merged(groups[g], t)
                    /\ \A h \in DOMAIN groups : h # g => groups'[h] = groups[h]
<1> DEFINE t == Head(recvMessageQueue).task
           g == tasks[t].group
<1>1. CASE t \in DOMAIN tasks /\ Counts(t)
  <2>1. /\ tasks' = [tasks EXCEPT ![t].status = "DONE"]
        /\ groups' = [groups EXCEPT ![g] = Merged(@, t)]
    BY <1>1 DEF HandleResult
  <2>2. tasks[t].status = "RUNNING" /\ groups[g].status # "DONE"
    BY <1>1 DEF Counts
  <2>3. t \in DOMAIN tasks /\ g \in DOMAIN groups
    BY <1>1 DEF Base, Linked
  <2>4. t \in TaskId
    BY <2>3, FinitelyManyTasks DEF Base
  <2>5. groups[g] \in GroupRecord /\ groups[g].remaining # 0
    BY <2>2, <2>3, ElementOfSeq, LenProperties DEF Base, TypeOK, Linked
  <2> HIDE DEF t
  <2>6. tasks' = [s \in DOMAIN tasks |->
                    IF s \in {t} THEN [tasks[s] EXCEPT !.status = "DONE"] ELSE tasks[s]]
    BY <2>1, <2>3
  <2>7. /\ DOMAIN groups' = DOMAIN groups /\ groups'[g] = Merged(groups[g], t)
        /\ \A h \in DOMAIN groups : h # g => groups'[h] = groups[h]
    BY <2>1, <2>3
  <2> QED BY <2>2, <2>3, <2>4, <2>5, <2>6, <2>7
<1>2. CASE ~(t \in DOMAIN tasks /\ Counts(t))
  BY <1>2 DEF HandleResult
<1> QED BY <1>1, <1>2

\* A result is counted for a group that waits for one.
LEMMA ResultBase ==
    ASSUME Base, HandleResult, UNCHANGED peerVars
    PROVE  Base'
<1>1. recvMessageQueue' \in Seq(Incoming) /\ crashed' \in BOOLEAN
  BY TakeKeepsType DEF HandleResult, Base
<1>2. CASE UNCHANGED <<tasks, groups>>
  <2>1. TypeOK'
    BY <1>1, <1>2 DEF Base, TypeOK, peerVars, HandleResult
  <2>2. Linked'
    BY <1>2 DEF Base, Linked, HandleResult
  <2> QED BY <2>1, <2>2 DEF Base
<1>3. CASE ~UNCHANGED <<tasks, groups>>
  <2>1. PICK t \in DOMAIN tasks :
          LET g == tasks[t].group
          IN  /\ tasks[t].status = "RUNNING" /\ t \in TaskId
              /\ g \in DOMAIN groups /\ groups[g] \in GroupRecord
              /\ groups[g].status # "DONE" /\ groups[g].remaining # 0
              /\ tasks' = [s \in DOMAIN tasks |->
                             IF s \in {t} THEN [tasks[s] EXCEPT !.status = "DONE"]
                             ELSE tasks[s]]
              /\ DOMAIN groups' = DOMAIN groups
              /\ groups'[g] = Merged(groups[g], t)
              /\ \A h \in DOMAIN groups : h # g => groups'[h] = groups[h]
    BY <1>3, ResultFacts
  <2> DEFINE g == tasks[t].group
  <2>2. /\ tasks' \in Seq(TaskRecord) /\ DOMAIN tasks' = DOMAIN tasks
        /\ \A s \in DOMAIN tasks : tasks'[s].group = tasks[s].group
    BY <2>1, StatusPass DEF Base
  <2>3. /\ groups'[g] \in GroupRecord
        /\ (groups'[g].status = "DONE") <=> (groups'[g].remaining = 0)
    BY <2>1, MergedKeepsType
  <2>4. groups' \in Seq(GroupRecord)
    <3>1. /\ DOMAIN groups = 1..Len(groups) /\ Len(groups) \in Nat
          /\ \A h \in DOMAIN groups : groups[h] \in GroupRecord
      BY LenProperties, ElementOfSeq DEF Base, TypeOK
    <3>2. groups' = [h \in DOMAIN groups |-> groups'[h]]
      BY <1>3, <2>1 DEF HandleResult
    <3>3. groups' \in [1..Len(groups) -> GroupRecord]
      BY <2>1, <2>3, <3>1, <3>2
    <3> QED BY <3>1, <3>3, SeqDef
  <2>5. TypeOK'
    BY <1>1, <2>2, <2>4 DEF Base, TypeOK, peerVars, HandleResult
  <2>6. Linked'
    BY <2>1, <2>2, <2>3 DEF Base, Linked, HandleResult
  <2> QED BY <2>5, <2>6 DEF Base
<1> QED BY <1>2, <1>3

\* A greeting registers its node, if that is still there.
LEMMA HelloBase ==
    ASSUME Base, HandleHello, UNCHANGED peerVars
    PROVE  Base'
<1> DEFINE msg == Head(recvMessageQueue)
           n == msg.from
           node == [nodes[n] EXCEPT !.registered = TRUE, !.gamelist = msg.gamelist]
           answer == Msg(IF msg.compatible THEN "ACCEPT" ELSE "REJECT", TASK_ID_NONE)
<1>1. /\ recvMessageQueue' \in Seq(Incoming)
      /\ msg \in [from : NodeId, type : {"HELLO"}, gamelist : SUBSET Kinds,
                  compatible : BOOLEAN]
  <2>1. recvMessageQueue' \in Seq(Incoming) /\ msg \in Incoming /\ msg.type = "HELLO"
    BY TakeKeepsType DEF HandleHello, Base
  <2> QED BY <2>1 DEF Incoming
<1>2. CASE n \in DOMAIN nodes
  <2>1. node \in NodeRecord /\ node.tasks = nodes[n].tasks
    <3>1. nodes[n] \in NodeRecord /\ msg.gamelist \in SUBSET Kinds
      BY <1>1, <1>2, NodeShape DEF Base
    <3> HIDE DEF msg
    <3> QED BY <3>1 DEF NodeRecord
  <2>2. answer \in Outgoing
    BY DEF Msg, Outgoing
  <2>3. Send(node, answer) \in NodeRecord /\ Send(node, answer).tasks = nodes[n].tasks
    <3> HIDE DEF node, answer
    <3> QED BY <2>1, <2>2, SendKeepsType
  <2>4. nodes' = [nodes EXCEPT ![n] = Send(node, answer)]
    BY <1>2 DEF HandleHello
  <2> HIDE DEF node, answer
  <2>5. NodesOK' /\ \A m \in DOMAIN nodes' : nodes'[m].tasks \subseteq DOMAIN tasks
    BY <1>2, <2>3, <2>4 DEF NodesOK, Base, TypeOK, Linked
  <2> QED BY <1>1, <2>5, QuietStep DEF Base, TypeOK, peerVars, HandleHello
<1>3. CASE n \notin DOMAIN nodes
  <2>1. NodesOK' /\ \A m \in DOMAIN nodes' : nodes'[m].tasks \subseteq DOMAIN tasks
    BY <1>3 DEF NodesOK, Base, TypeOK, Linked, HandleHello
  <2> QED BY <1>1, <2>1, QuietStep DEF Base, TypeOK, peerVars, HandleHello
<1> QED BY <1>2, <1>3

\* A notification answers the ping of its node, if that is still there.
LEMMA NotifyBase ==
    ASSUME Base, HandleNotify, UNCHANGED peerVars
    PROVE  Base'
<1> DEFINE msg == Head(recvMessageQueue)
           n == msg.from
           lookup == nodes[n].registered /\ msg.status = "RUNNING"
           active == IF lookup /\ msg.task \in DOMAIN tasks
                     THEN tasks[msg.task].group ELSE TASK_ID_NONE
<1>1. recvMessageQueue' \in Seq(Incoming) /\ crashed' \in BOOLEAN
  BY TakeKeepsType DEF HandleNotify, Base
<1>2. CASE n \in DOMAIN nodes /\ nodes[n].registered
  <2>1. active \in GroupId \cup {TASK_ID_NONE}
    <3>1. \A t \in DOMAIN tasks : tasks[t] \in TaskRecord
      BY ElementOfSeq, LenProperties DEF Base, TypeOK
    <3>2. \A t \in DOMAIN tasks : tasks[t].group \in GroupId
      BY <3>1 DEF TaskRecord
    <3> QED BY <3>2
  <2>2. nodes' = [nodes EXCEPT ![n].ping = "answered", ![n].activeTaskGroup = active]
    BY <1>2 DEF HandleNotify
  <2> HIDE DEF active
  <2>3. /\ nodes'[n] \in NodeRecord /\ nodes'[n].tasks = nodes[n].tasks
        /\ DOMAIN nodes' = DOMAIN nodes
        /\ \A m \in DOMAIN nodes : m # n => nodes'[m] = nodes[m]
    BY <1>2, <2>1, <2>2, NodeShape DEF Base, NodeRecord
  <2>4. NodesOK' /\ \A m \in DOMAIN nodes' : nodes'[m].tasks \subseteq DOMAIN tasks
    <3>1. nodes' = [m \in DOMAIN nodes |-> nodes'[m]]
      BY <2>2
    <3> QED BY <2>3, <3>1 DEF NodesOK, Base, TypeOK, Linked
  <2> QED BY <1>1, <2>4, QuietStep DEF Base, TypeOK, peerVars, HandleNotify
<1>3. CASE ~(n \in DOMAIN nodes /\ nodes[n].registered)
  <2>1. nodes' = nodes
    BY <1>3 DEF HandleNotify
  <2>2. NodesOK' /\ \A m \in DOMAIN nodes' : nodes'[m].tasks \subseteq DOMAIN tasks
    BY <2>1 DEF NodesOK, Base, TypeOK, Linked
  <2> QED BY <1>1, <2>2, QuietStep DEF Base, TypeOK, peerVars, HandleNotify
<1> QED BY <1>2, <1>3

\* The sender of a message that does not parse is erased.
LEMMA InvalidBase ==
    ASSUME Base, HandleInvalid, UNCHANGED peerVars
    PROVE  Base'
<1>1. /\ recvMessageQueue' \in Seq(Incoming)
      /\ Head(recvMessageQueue).from \in NodeId
  BY TakeKeepsType DEF HandleInvalid, Base, Incoming
<1> QED BY <1>1, TerminateBase, ThreadsDiffer DEF HandleInvalid

\* The reader adds one message to the queue of the handler.
LEMMA ReadKeepsType ==
    ASSUME TypeOK, NEW n \in NodeId, NEW msg \in Incoming, ReadMessage(n, msg)
    PROVE  recvMessageQueue' \in Seq(Incoming)
BY AppendProperties DEF ReadMessage, TypeOK

\* The messages of a node have the shape of messages.
LEMMA MessageTypes ==
    ASSUME NEW n \in NodeId
    PROVE  /\ \A t \in TaskId : Result(n, t) \in Incoming
           /\ \A gl \in SUBSET Kinds, v \in BOOLEAN : Hello(n, gl, v) \in Incoming
           /\ \A t \in TaskId \cup {TASK_ID_NONE}, st \in {"RUNNING", "NONE"} :
                Notify(n, t, st) \in Incoming
           /\ Invalid(n) \in Incoming
BY DEF Result, Hello, Notify, Invalid, Incoming

\* A step of a peer alone: nothing of the coordinator changes but the queue
\* of received messages.
LEMMA PeerOnly ==
    ASSUME Base,
           UNCHANGED <<nodes, tasks, groups, suspectedBalancing, pc, plan,
                       nextNode, crashed, lates>>,
           recvMessageQueue' \in Seq(Incoming),
           peer' \in [NodeId -> PeerState],
           taskQueue' \in [NodeId -> Seq(TaskId)]
    PROVE  Base'
<1>1. NodesOK' /\ \A n \in DOMAIN nodes' : nodes'[n].tasks \subseteq DOMAIN tasks
  BY DEF NodesOK, Base, TypeOK, Linked
<1> QED BY <1>1, QuietStep DEF Base, TypeOK

\* What a node sends of its own accord keeps Base.
LEMMA PeerBase ==
    ASSUME Base, NEW n \in NodeId, PeerStep(n)
    PROVE  Base'
<1> USE DEF coordVars
<1>1. CASE PeerHello(n)
  <2>1. PICK gl \in GameLists, v \in Versions : ReadMessage(n, Hello(n, gl, v))
    BY <1>1 DEF PeerHello
  <2>2. recvMessageQueue' \in Seq(Incoming)
    BY <2>1, PeerAssumption, MessageTypes, ReadKeepsType DEF Base
  <2>3. peer' \in [NodeId -> PeerState]
    BY <1>1 DEF PeerHello, Base, TypeOK, PeerState
  <2> QED BY <1>1, <2>2, <2>3, PeerOnly DEF PeerHello, Base, TypeOK
<1>2. CASE PeerFinish(n)
  <2>1. taskQueue[n] \in Seq(TaskId) /\ taskQueue[n] # <<>>
    BY <1>2 DEF PeerFinish, Base, TypeOK
  <2>2. Head(taskQueue[n]) \in TaskId /\ Tail(taskQueue[n]) \in Seq(TaskId)
    BY <2>1, HeadTailProperties
  <2>3. recvMessageQueue' \in Seq(Incoming)
    BY <1>2, <2>2, MessageTypes, ReadKeepsType DEF PeerFinish, Base
  <2>4. taskQueue' \in [NodeId -> Seq(TaskId)]
    BY <1>2, <2>2 DEF PeerFinish, Base, TypeOK
  <2> QED BY <1>2, <2>3, <2>4, PeerOnly DEF PeerFinish, Base, TypeOK
<1>3. CASE PeerLeave(n)
  <2>1. peer' \in [NodeId -> PeerState]
    BY <1>3 DEF PeerLeave, Base, TypeOK, PeerState
  <2> QED BY <1>3, <2>1, PeerOnly DEF PeerLeave, Base, TypeOK
<1>4. CASE PeerHang(n)
  <2>1. peer' \in [NodeId -> PeerState]
    BY <1>4 DEF PeerHang, Base, TypeOK, PeerState
  <2> QED BY <1>4, <2>1, PeerOnly DEF PeerHang, Base, TypeOK
<1>5. CASE PeerStray(n)
  <2>1. recvMessageQueue' \in Seq(Incoming)
    BY <1>5, MessageTypes, ReadKeepsType DEF PeerStray, Base
  <2>2. peer' \in [NodeId -> PeerState]
    BY <1>5 DEF PeerStray, Base, TypeOK, PeerState
  <2> QED BY <1>5, <2>1, <2>2, PeerOnly DEF PeerStray, Base, TypeOK
<1> QED BY <1>1, <1>2, <1>3, <1>4, <1>5 DEF PeerStep

\* A sequence of two elements or more has an element after the first.
LEMMA TailNotEmpty ==
    ASSUME NEW S, NEW s \in Seq(S), Len(s) > 1
    PROVE  s # <<>> /\ Tail(s) # <<>>
<1>1. s # <<>>
  BY EmptySeq
<1>2. Len(Tail(s)) = Len(s) - 1 /\ Tail(s) \in Seq(S)
  BY <1>1, HeadTailProperties
<1>3. Len(s) \in Nat
  BY LenProperties
<1>4. \A a, b \in Nat : a > 1 /\ b = a - 1 => b # 0
  OBVIOUS
<1>5. Len(Tail(s)) \in Nat
  BY <1>2, LenProperties
<1>6. Len(Tail(s)) # 0
  BY <1>2, <1>3, <1>4, <1>5, Zenon
<1>7. Tail(s) # <<>>
  BY <1>6, EmptySeq
<1> QED BY <1>1, <1>7

\* What the writer takes out of the queue of a node was put in by some thread.
LEMMA WriteFacts ==
    ASSUME Base, NEW n \in NodeId, WriteMessage(n)
    PROVE  /\ NodesOK' /\ DOMAIN nodes' = DOMAIN nodes
           /\ \A m \in DOMAIN nodes : nodes'[m].tasks = nodes[m].tasks
           /\ Head(nodes[n].queue) \in Outgoing
<1>1. n \in DOMAIN nodes /\ nodes[n] \in NodeRecord /\ nodes[n].queue # <<>>
      /\ nodes' = [nodes EXCEPT ![n].queue = Tail(@)]
  BY NodeShape DEF WriteMessage, Base
<1>2. nodes[n].queue \in Seq(Outgoing)
  BY <1>1 DEF NodeRecord
<1>3. Head(nodes[n].queue) \in Outgoing /\ Tail(nodes[n].queue) \in Seq(Outgoing)
  BY <1>1, <1>2, HeadTailProperties
<1>4. nodes'[n] \in NodeRecord /\ nodes'[n].tasks = nodes[n].tasks
  BY <1>1, <1>3 DEF NodeRecord
<1> QED BY <1>1, <1>3, <1>4 DEF NodesOK, Base, TypeOK

\* What a node receives keeps Base: the ids it puts into its queue were sent
\* to it, and those it sends back were in its queue.
LEMMA DeliverBase ==
    ASSUME Base, NEW n \in NodeId, Deliver(n)
    PROVE  Base'
<1> DEFINE msg == Head(nodes[n].queue)
<1>1. WriteMessage(n)
      /\ (\/ ReceiveGreeting(n, msg) \/ ReceiveTask(n, msg)
          \/ ReceivePing(n, msg) \/ ReceiveCancel(n, msg) \/ Discard(n))
      /\ lates' = lates
  BY DEF Deliver
<1>2. /\ NodesOK' /\ msg \in Outgoing
      /\ \A m \in DOMAIN nodes' : nodes'[m].tasks \subseteq DOMAIN tasks
  BY <1>1, WriteFacts DEF Base, Linked
<1>3. UNCHANGED <<tasks, groups, suspectedBalancing, pc, plan, nextNode, crashed>>
  BY <1>1 DEF WriteMessage
<1> HIDE DEF msg
<1>4. TypeOK
  BY DEF Base
<1>5. taskQueue[n] \in Seq(TaskId)
      /\ (taskQueue[n] # <<>> => /\ Head(taskQueue[n]) \in TaskId
                                 /\ Tail(taskQueue[n]) \in Seq(TaskId))
  BY <1>4, HeadTailProperties DEF TypeOK
<1>6. recvMessageQueue' \in Seq(Incoming) /\ peer' \in [NodeId -> PeerState]
      /\ taskQueue' \in [NodeId -> Seq(TaskId)]
  <2>1. CASE ReceiveGreeting(n, msg)
    BY <1>4, <2>1 DEF ReceiveGreeting, TypeOK, PeerState
  <2>2. CASE ReceiveTask(n, msg)
    <3>1. msg.task \in TaskId
      BY <1>2, <2>2 DEF ReceiveTask, Outgoing
    <3>2. Append(taskQueue[n], msg.task) \in Seq(TaskId)
      BY <1>5, <3>1, AppendProperties
    <3> QED BY <1>4, <2>2, <3>2 DEF ReceiveTask, TypeOK
  <2>3. CASE ReceivePing(n, msg)
    <3>1. recvMessageQueue' \in Seq(Incoming)
      BY <1>4, <1>5, <2>3, MessageTypes, ReadKeepsType DEF ReceivePing
    <3> QED BY <1>4, <2>3, <3>1 DEF ReceivePing, TypeOK
  <2>4. CASE ReceiveCancel(n, msg)
    <3>1. peer' = peer
      BY <2>4 DEF ReceiveCancel
    <3>2. CASE UNCHANGED <<taskQueue, recvMessageQueue>>
      BY <1>4, <3>1, <3>2 DEF TypeOK
    <3>3. CASE /\ taskQueue[n] # <<>>
               /\ taskQueue' = [taskQueue EXCEPT ![n] = Tail(@)]
               /\ UNCHANGED recvMessageQueue
      BY <1>4, <1>5, <3>1, <3>3 DEF TypeOK
    <3>4. CASE /\ Len(taskQueue[n]) > 1
               /\ Head(taskQueue[n]) = msg.task
               /\ taskQueue' = [taskQueue EXCEPT ![n] = Tail(Tail(@))]
               /\ ReadMessage(n, Result(n, msg.task))
      <4>1. taskQueue[n] # <<>> /\ Tail(taskQueue[n]) # <<>>
        <5>1. taskQueue[n] \in Seq(TaskId) /\ Len(taskQueue[n]) > 1
          BY <1>5, <3>4
        <5> QED BY <5>1, TailNotEmpty
      <4>2. Tail(Tail(taskQueue[n])) \in Seq(TaskId)
        BY <1>5, <4>1, HeadTailProperties
      <4>3. recvMessageQueue' \in Seq(Incoming)
        BY <1>4, <1>5, <3>4, <4>1, MessageTypes, ReadKeepsType
      <4>4. taskQueue' \in [NodeId -> Seq(TaskId)]
        BY <1>4, <3>4, <4>2 DEF TypeOK
      <4> QED BY <1>4, <3>1, <4>3, <4>4 DEF TypeOK
    <3> QED BY <2>4, <3>2, <3>3, <3>4 DEF ReceiveCancel
  <2>5. CASE Discard(n)
    BY <1>4, <2>5 DEF Discard, TypeOK
  <2> QED BY <1>1, <2>1, <2>2, <2>3, <2>4, <2>5
<1> QED BY <1>1, <1>2, <1>3, <1>4, <1>6, QuietStep DEF TypeOK

\* The threads of a node end it and nothing else.
LEMMA ConnectionLostBase ==
    ASSUME Base, NEW n \in NodeId, ConnectionLost(n)
    PROVE  Base'
<1>1. \E th \in Thread : TerminateNode(n, th)
  BY ThreadsDiffer DEF ConnectionLost, ReadEof, WriteFail
<1>2. recvMessageQueue' \in Seq(Incoming) /\ UNCHANGED peerVars
  BY DEF ConnectionLost, ReadEof, WriteFail, Base, TypeOK
<1> QED BY <1>1, <1>2, TerminateBase

\* Time passes for one node.
LEMMA LateBase ==
    ASSUME Base, NEW n \in NodeId, Late(n)
    PROVE  Base'
<1>1. n \in DOMAIN nodes /\ nodes' = [nodes EXCEPT ![n].ping = "overdue"]
  BY DEF Late, Elapse
<1>2. NodesOK' /\ \A m \in DOMAIN nodes' : nodes'[m].tasks \subseteq DOMAIN tasks
  <2>1. [nodes[n] EXCEPT !.ping = "overdue"] \in NodeRecord
    BY <1>1, NodeShape DEF Base, NodeRecord
  <2> QED BY <1>1, <2>1 DEF NodesOK, Base, TypeOK, Linked
<1>3. /\ UNCHANGED <<tasks, groups, suspectedBalancing, pc, plan, nextNode>>
      /\ UNCHANGED <<recvMessageQueue, crashed, peer, taskQueue>>
  BY DEF Late, Elapse
<1>4. lates' \in Nat
  BY DEF Late, Base, TypeOK
<1> QED BY <1>2, <1>3, <1>4, QuietStep DEF Base, TypeOK

\* The ids of groups given to command_cancel, and of nodes given to
\* command_terminate, are those of groups and nodes that exist.
LEMMA OperatorBase ==
    ASSUME Base, Operator
    PROVE  Base'
<1>1. UNCHANGED peerVars
  BY DEF Operator
<1>2. CASE \E kind \in Kinds, games \in GameCounts : RequestTask(kind, games)
  BY <1>1, <1>2, RequestBase
<1>3. CASE \E g \in DOMAIN groups : CancelGroup(g)
  BY <1>1, <1>3, CancelBase
<1>4. CASE \E n \in NodeId : CommandTerminate(n)
  BY <1>1, <1>4, TerminateBase, ThreadsDiffer DEF CommandTerminate, Base, TypeOK
<1> QED BY <1>2, <1>3, <1>4 DEF Operator

\* Every step keeps Base.
LEMMA NextBase == Base /\ [Next]_vars => Base'
<1> SUFFICES ASSUME Base, [Next]_vars PROVE Base'
  OBVIOUS
<1>1. CASE Operator
  BY <1>1, OperatorBase
<1>2. CASE CreateStep
  BY <1>2, CreateBase DEF CreateStep
<1>3. CASE AcceptorStep
  BY <1>3, AcceptBase DEF AcceptorStep
<1>4. CASE HandlerStep
  BY <1>4, ResultBase, HelloBase, NotifyBase, InvalidBase DEF HandlerStep
<1>5. CASE ScanStep
  BY <1>5, ScanBase DEF ScanStep
<1>6. CASE CheckStep
  BY <1>6, CheckBase DEF CheckStep
<1>7. CASE \E th \in Thread : BalanceStep(th)
  BY <1>7, BalanceBase DEF BalanceStep
<1>8. CASE \E n \in NodeId : PeerStep(n) \/ Deliver(n) \/ ConnectionLost(n) \/ Late(n)
  BY <1>8, PeerBase, DeliverBase, ConnectionLostBase, LateBase
<1>9. CASE UNCHANGED vars
  BY <1>9 DEF vars, Base, TypeOK, Linked
<1> QED BY <1>1, <1>2, <1>3, <1>4, <1>5, <1>6, <1>7, <1>8, <1>9 DEF Next

\* In every behaviour the state keeps its shape: in particular
\* remaining_tasks never wraps, and every id that is looked up is there.
THEOREM BaseHolds == Spec => []Base
BY InitBase, NextBase, PTL DEF Spec

\* In every behaviour, for any number of nodes, tasks and groups and any
\* faults and races of the peers, the state keeps its shape; remaining_tasks
\* never wraps below zero.
THEOREM TypeCorrect == Spec => []TypeOK
<1>1. Base => TypeOK
  BY DEF Base
<1> QED BY <1>1, BaseHolds, PTL
==========================================================================
