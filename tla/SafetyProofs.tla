--------------------------- MODULE SafetyProofs ---------------------------
(***************************************************************************)
(* The safety properties of Cluster, for every value of its constants.     *)
(***************************************************************************)
EXTENDS ClusterProofs

\* A node keeps the tasks it has, or is the one just accepted and has none.
OwnersKeptOrNew ==
    \A n \in DOMAIN nodes' :
        \/ n \in DOMAIN nodes /\ nodes'[n].tasks = nodes[n].tasks
        \/ n = nextNode /\ nodes'[n].tasks = {}

\* The steps that touch tasks, groups or the lists of the nodes are five; all
\* others keep what a node has, or let it go together with its tasks.
LEMMA StepKinds ==
    ASSUME Base, [Next]_vars
    PROVE  \/ CreateGroup /\ ~ \E i \in Parts(plan) : plan.ids[i] \notin DOMAIN nodes
           \/ HandleResult
           \/ \E th \in Thread : BalanceTasks(th)
           \/ Scan
           \/ \E g \in DOMAIN groups : CancelGroup(g)
           \/ UNCHANGED <<tasks, groups>> /\ OwnersKeptOrNew
<1> USE DEF OwnersKeptOrNew
<1>1. CASE Operator
  <2>1. CASE \E kind \in Kinds, games \in GameCounts : RequestTask(kind, games)
    BY <2>1 DEF RequestTask
  <2>2. CASE \E n \in NodeId : CommandTerminate(n)
    BY <2>2 DEF CommandTerminate, TerminateNode
  <2> QED BY <1>1, <2>1, <2>2 DEF Operator
<1>2. CASE CreateStep
  BY <1>2 DEF CreateStep, CreateGroup
<1>3. CASE AcceptorStep
  BY <1>3 DEF AcceptorStep, Accept, AcceptInsert, FreshNode
<1>4. CASE HandlerStep
  <2>1. CASE HandleHello
    <3> DEFINE n == Head(recvMessageQueue).from
    <3>1. UNCHANGED <<tasks, groups>>
      BY <2>1 DEF HandleHello
    <3>2. CASE n \in DOMAIN nodes
      <4>1. PICK gl, answer : nodes' = [nodes EXCEPT ![n] =
              Send([@ EXCEPT !.registered = TRUE, !.gamelist = gl], answer)]
        BY <2>1, <3>2 DEF HandleHello
      <4>2. nodes[n] \in NodeRecord
        BY <3>2, NodeShape DEF Base
      <4>3. nodes'[n].tasks = nodes[n].tasks
        BY <3>2, <4>1, <4>2 DEF Send, NodeRecord
      <4> QED BY <3>1, <4>1, <4>3
    <3>3. CASE n \notin DOMAIN nodes
      BY <2>1, <3>1, <3>3 DEF HandleHello
    <3> QED BY <3>2, <3>3
  <2>2. CASE HandleNotify
    <3> DEFINE n == Head(recvMessageQueue).from
    <3>1. UNCHANGED <<tasks, groups>>
      BY <2>2 DEF HandleNotify
    <3>2. CASE n \in DOMAIN nodes /\ nodes[n].registered
      <4>1. PICK active : nodes' = [nodes EXCEPT ![n].ping = "answered",
                                                 ![n].activeTaskGroup = active]
        BY <2>2, <3>2 DEF HandleNotify
      <4>2. nodes[n] \in NodeRecord
        BY <3>2, NodeShape DEF Base
      <4>3. nodes'[n].tasks = nodes[n].tasks
        BY <3>2, <4>1, <4>2 DEF NodeRecord
      <4> QED BY <3>1, <4>1, <4>3
    <3>3. CASE ~(n \in DOMAIN nodes /\ nodes[n].registered)
      BY <2>2, <3>1, <3>3 DEF HandleNotify
    <3> QED BY <3>2, <3>3
  <2>3. CASE HandleInvalid
    BY <2>3 DEF HandleInvalid, TerminateNode
  <2> QED BY <1>4, <2>1, <2>2, <2>3 DEF HandlerStep
<1>5. CASE ScanStep
  BY <1>5 DEF ScanStep
<1>6. CASE CheckStep
  BY <1>6 DEF CheckStep, Check
<1>7. CASE \E th \in Thread : BalanceStep(th)
  BY <1>7 DEF BalanceStep
<1>8. CASE \E n \in NodeId : PeerStep(n)
  BY <1>8 DEF PeerStep, PeerHello, PeerFinish, PeerLeave, PeerHang, PeerStray, coordVars
<1>9. CASE \E n \in NodeId : Deliver(n)
  <2>1. PICK n \in NodeId : WriteMessage(n)
    BY <1>9 DEF Deliver
  <2>2. UNCHANGED <<tasks, groups>>
    BY <2>1 DEF WriteMessage
  <2> QED BY <2>1, <2>2, WriteFacts
<1>10. CASE \E n \in NodeId : ConnectionLost(n)
  BY <1>10 DEF ConnectionLost, ReadEof, WriteFail, TerminateNode
<1>11. CASE \E n \in NodeId : Late(n)
  <2>1. PICK n \in NodeId : Elapse(n)
    BY <1>11 DEF Late
  <2>2. UNCHANGED <<tasks, groups>> /\ nodes[n] \in NodeRecord
        /\ nodes' = [nodes EXCEPT ![n].ping = "overdue"]
    BY <2>1, NodeShape DEF Elapse, Base
  <2> QED BY <2>2 DEF NodeRecord
<1>12. CASE UNCHANGED vars
  BY <1>12 DEF vars
<1> QED BY <1>1, <1>2, <1>3, <1>4, <1>5, <1>6, <1>7, <1>8, <1>9, <1>10, <1>11, <1>12
        DEF Next

--------------------------------------------------------------------------
(* A sub-task has at most one owner *)

\* Every step keeps SoleOwner: a sub-task is only given away when it is free,
\* to one node, and it becomes free only when its owner loses it.
LEMMA NextSoleOwner == Base /\ SoleOwner /\ [Next]_vars => SoleOwner'
<1> SUFFICES ASSUME Base, SoleOwner, [Next]_vars PROVE SoleOwner'
  OBVIOUS
<1>0. /\ \A t \in DOMAIN tasks : \A m, n \in DOMAIN nodes :
            t \in nodes[m].tasks /\ t \in nodes[n].tasks => m = n
      /\ \A t \in DOMAIN tasks : \A n \in DOMAIN nodes :
            t \in nodes[n].tasks => tasks[t].status # "NONE"
  BY DEF SoleOwner, Owners
<1>00. SUFFICES /\ \A t \in DOMAIN tasks' : \A m, n \in DOMAIN nodes' :
                     t \in nodes'[m].tasks /\ t \in nodes'[n].tasks => m = n
                /\ \A t \in DOMAIN tasks' : \A n \in DOMAIN nodes' :
                     t \in nodes'[n].tasks => tasks'[t].status # "NONE"
  BY DEF SoleOwner, Owners
<1>1. CASE CreateGroup /\ ~ \E i \in Parts(plan) : plan.ids[i] \notin DOMAIN nodes
  <2> DEFINE k == NumParts(plan.games, Len(plan.ids))
  <2>1. /\ IsInjective(plan.ids) /\ DOMAIN plan.ids = 1..Len(plan.ids)
        /\ Len(plan.ids) \in Nat /\ k \in 0..Len(plan.ids)
        /\ DOMAIN tasks = 1..Len(tasks) /\ Len(tasks) \in Nat
        /\ DOMAIN tasks' = 1..(Len(tasks) + k)
        /\ \A t \in DOMAIN tasks : tasks'[t] = tasks[t]
        /\ \A t \in DOMAIN tasks' \ DOMAIN tasks :
             tasks'[t] = NewTask(Len(groups) + 1, plan.kind)
        /\ DOMAIN nodes' = DOMAIN nodes
        /\ \A n \in DOMAIN nodes : nodes'[n].tasks = nodes[n].tasks \cup
                {Len(tasks) + i : i \in {j \in 1..k : plan.ids[j] = n}}
    BY <1>1, CreateFacts
  <2> HIDE DEF k
  <2>2. \A n \in DOMAIN nodes : nodes[n].tasks \subseteq 1..Len(tasks)
    BY <2>1 DEF Base, Linked
  <2>3. ASSUME NEW t \in DOMAIN tasks, NEW n \in DOMAIN nodes', t \in nodes'[n].tasks
        PROVE  n \in DOMAIN nodes /\ t \in nodes[n].tasks
    <3>1. \A j \in 1..k : t # Len(tasks) + j
      BY <2>1
    <3> QED BY <2>1, <2>3, <3>1
  <2>4. ASSUME NEW t \in DOMAIN tasks' \ DOMAIN tasks, NEW n \in DOMAIN nodes',
               t \in nodes'[n].tasks
        PROVE  t - Len(tasks) \in 1..k /\ plan.ids[t - Len(tasks)] = n
    <3>1. t \notin nodes[n].tasks
      BY <2>1, <2>2
    <3>2. PICK j \in 1..k : t = Len(tasks) + j /\ plan.ids[j] = n
      BY <2>1, <2>4, <3>1
    <3>3. t - Len(tasks) = j
      BY <2>1, <3>2
    <3> QED BY <3>2, <3>3
  <2>5. \A t \in DOMAIN tasks' \ DOMAIN tasks : tasks'[t].status = "RUNNING"
    BY <2>1 DEF NewTask
  <2>6. ASSUME NEW t \in DOMAIN tasks', NEW m \in DOMAIN nodes', NEW n \in DOMAIN nodes',
               t \in nodes'[m].tasks, t \in nodes'[n].tasks
        PROVE  m = n /\ tasks'[t].status # "NONE"
    <3>1. CASE t \in DOMAIN tasks
      BY <1>0, <2>1, <2>3, <2>6, <3>1
    <3>2. CASE t \notin DOMAIN tasks
      BY <2>4, <2>5, <2>6, <3>2
    <3> QED BY <3>1, <3>2
  <2> QED BY <2>6
<1>2. CASE HandleResult
  <2>1. nodes' = nodes
    BY <1>2 DEF HandleResult
  <2>2. /\ DOMAIN tasks' = DOMAIN tasks
        /\ \A t \in DOMAIN tasks : tasks'[t].status = "NONE" => tasks[t].status = "NONE"
    <3>1. CASE UNCHANGED <<tasks, groups>>
      BY <3>1
    <3>2. CASE \E t \in DOMAIN tasks :
                 tasks' = [s \in DOMAIN tasks |->
                             IF s \in {t} THEN [tasks[s] EXCEPT !.status = "DONE"]
                             ELSE tasks[s]]
      <4>1. \A s \in DOMAIN tasks : tasks[s] \in TaskRecord
        BY ElementOfSeq, LenProperties DEF Base, TypeOK
      <4> QED BY <3>2, <4>1 DEF TaskRecord
    <3> QED BY <1>2, <3>1, <3>2, ResultFacts
  <2> QED BY <1>0, <2>1, <2>2
<1>3. CASE \E th \in Thread : BalanceTasks(th)
  <2>1. PICK pending \in SUBSET DOMAIN tasks :
          /\ \A t \in pending : tasks[t].status = "NONE"
          /\ tasks' = [t \in DOMAIN tasks |->
                         IF t \in pending THEN [tasks[t] EXCEPT !.status = "RUNNING"]
                         ELSE tasks[t]]
          /\ \E given \in [DOMAIN nodes -> SUBSET pending] :
               /\ \A m, n \in DOMAIN nodes : m # n => given[m] \cap given[n] = {}
               /\ \A n \in DOMAIN nodes :
                    nodes'[n].tasks = nodes[n].tasks \cup given[n]
    BY <1>3, BalanceFacts
  <2>2. PICK given \in [DOMAIN nodes -> SUBSET pending] :
          /\ \A m, n \in DOMAIN nodes : m # n => given[m] \cap given[n] = {}
          /\ \A n \in DOMAIN nodes : nodes'[n].tasks = nodes[n].tasks \cup given[n]
    BY <2>1
  <2>3. DOMAIN nodes' = DOMAIN nodes /\ DOMAIN tasks' = DOMAIN tasks
    BY <1>3, <2>1, BalanceFacts
  <2>4. \A s \in DOMAIN tasks : tasks[s] \in TaskRecord
    BY ElementOfSeq, LenProperties DEF Base, TypeOK
  <2>5. \A t \in DOMAIN tasks :
          IF t \in pending THEN tasks'[t].status = "RUNNING" ELSE tasks'[t] = tasks[t]
    BY <2>1, <2>4 DEF TaskRecord
  <2>6. \A t \in pending : \A n \in DOMAIN nodes : t \notin nodes[n].tasks
    BY <1>0, <2>1
  <2> QED BY <1>0, <2>2, <2>3, <2>5, <2>6
<1>4. CASE Scan
  <2>1. PICK lost \in SUBSET DOMAIN nodes :
          /\ \A n \in DOMAIN nodes :
               nodes'[n].tasks = IF n \in lost THEN nodes[n].tasks \ RunningTasks(n)
                                 ELSE nodes[n].tasks
          /\ tasks' = [t \in DOMAIN tasks |->
                         IF t \in UNION {RunningTasks(n) : n \in lost}
                         THEN [tasks[t] EXCEPT !.status = "NONE"]
                         ELSE tasks[t]]
    BY <1>4, ScanFacts
  <2>2. DOMAIN nodes' = DOMAIN nodes /\ DOMAIN tasks' = DOMAIN tasks
    BY <1>4, <2>1, ScanFacts
  <2>3. \A n \in DOMAIN nodes : nodes'[n].tasks \subseteq nodes[n].tasks
    BY <2>1
  <2>4. ASSUME NEW t \in DOMAIN tasks, NEW n \in DOMAIN nodes, t \in nodes'[n].tasks
        PROVE  tasks'[t] = tasks[t]
    <3>1. SUFFICES ASSUME NEW m \in lost, t \in RunningTasks(m) PROVE FALSE
      BY <2>1
    <3>2. t \in nodes[m].tasks /\ t \in nodes[n].tasks
      BY <2>3, <2>4, <3>1 DEF RunningTasks
    <3>3. m = n
      BY <1>0, <3>2
    <3> QED BY <2>1, <2>4, <3>1, <3>3
  <2> QED BY <1>0, <2>2, <2>3, <2>4
<1>5. CASE \E g \in DOMAIN groups : CancelGroup(g)
  <2>1. PICK g \in DOMAIN groups : CancelGroup(g)
    BY <1>5
  <2>2. tasks' = tasks /\ DOMAIN nodes' = DOMAIN nodes
        /\ \A n \in DOMAIN nodes : nodes'[n].tasks \subseteq nodes[n].tasks
    <3>1. tasks' = tasks
      BY <2>1 DEF CancelGroup
    <3> QED BY <2>1, <3>1, CancelFacts
  <2> QED BY <1>0, <2>2
<1>6. CASE UNCHANGED <<tasks, groups>> /\ OwnersKeptOrNew
  BY <1>0, <1>6 DEF OwnersKeptOrNew
<1> QED BY <1>1, <1>2, <1>3, <1>4, <1>5, <1>6, StepKinds

\* However the threads that scan, balance, cancel and create are interleaved,
\* no sub-task is ever on the lists of two nodes, nor on one while it is free.
THEOREM OneOwner == Spec => []SoleOwner
<1>1. Init => SoleOwner
  BY DEF Init, CoordInit, SoleOwner
<1> QED BY <1>1, NextSoleOwner, BaseHolds, PTL DEF Spec

--------------------------------------------------------------------------
(* What a group counts *)

\* A step that neither creates nor counts anything: sub-tasks become free or
\* running, a group may be cancelled, no result is added.
NothingCounted ==
    /\ DOMAIN tasks' = DOMAIN tasks
    /\ \A t \in DOMAIN tasks :
         /\ tasks'[t].group = tasks[t].group
         /\ (tasks'[t].status = "DONE") <=> (tasks[t].status = "DONE")
         /\ tasks[t].status = "DONE" => tasks'[t] = tasks[t]
    /\ DOMAIN groups' = DOMAIN groups
    /\ \A g \in DOMAIN groups :
         /\ groups'[g].aggregate = groups[g].aggregate
         /\ groups'[g].remaining = groups[g].remaining
         /\ groups[g].status = "DONE" => groups'[g] = groups[g]

\* A task and a group of the state have the shapes of tasks and groups.
LEMMA TaskShape ==
    ASSUME TypeOK
    PROVE  /\ DOMAIN tasks = 1..Len(tasks) /\ Len(tasks) \in Nat
           /\ DOMAIN groups = 1..Len(groups) /\ Len(groups) \in Nat
           /\ \A t \in DOMAIN tasks : tasks[t] \in TaskRecord
           /\ \A g \in DOMAIN groups : groups[g] \in GroupRecord
BY ElementOfSeq, LenProperties DEF TypeOK

\* Only command_task and the handling of a result change what is counted.
LEMMA CountingSteps ==
    ASSUME Base, [Next]_vars
    PROVE  \/ CreateGroup /\ ~ \E i \in Parts(plan) : plan.ids[i] \notin DOMAIN nodes
           \/ HandleResult
           \/ NothingCounted
<1> USE DEF NothingCounted
<1>0. /\ \A t \in DOMAIN tasks : tasks[t] \in TaskRecord
      /\ \A g \in DOMAIN groups : groups[g] \in GroupRecord
  BY TaskShape DEF Base
<1>1. CASE \E th \in Thread : BalanceTasks(th)
  <2>1. PICK pending \in SUBSET DOMAIN tasks :
          /\ \A t \in pending : tasks[t].status = "NONE"
          /\ tasks' = [t \in DOMAIN tasks |->
                         IF t \in pending THEN [tasks[t] EXCEPT !.status = "RUNNING"]
                         ELSE tasks[t]]
    BY <1>1, BalanceFacts
  <2>2. groups' = groups
    BY <1>1 DEF BalanceTasks
  <2> QED BY <1>0, <2>1, <2>2 DEF TaskRecord
<1>2. CASE Scan
  <2>1. PICK lost \in SUBSET DOMAIN nodes :
          tasks' = [t \in DOMAIN tasks |->
                      IF t \in UNION {RunningTasks(n) : n \in lost}
                      THEN [tasks[t] EXCEPT !.status = "NONE"] ELSE tasks[t]]
    BY <1>2, ScanFacts
  <2>2. \A t \in UNION {RunningTasks(n) : n \in lost} : tasks[t].status = "RUNNING"
    BY DEF RunningTasks
  <2>3. groups' = groups
    BY <1>2 DEF Scan
  <2> QED BY <1>0, <2>1, <2>2, <2>3 DEF TaskRecord
<1>3. CASE \E g \in DOMAIN groups : CancelGroup(g)
  <2>1. PICK g \in DOMAIN groups :
          /\ groups[g].status = "RUNNING"
          /\ groups' = [groups EXCEPT ![g].status = "CANCELLED"]
          /\ tasks' = tasks
    BY <1>3 DEF CancelGroup
  <2> QED BY <1>0, <2>1 DEF GroupRecord
<1>4. CASE UNCHANGED <<tasks, groups>> /\ OwnersKeptOrNew
  BY <1>4
<1> QED BY <1>1, <1>2, <1>3, <1>4, StepKinds

\* Where nothing is counted, every group owes what it owed.
LEMMA UndoneKept ==
    ASSUME NothingCounted
    PROVE  \A g : TasksOf(g)' = TasksOf(g) /\ Undone(g)' = Undone(g)
BY DEF NothingCounted, TasksOf, Undone

\* The new group owes all of its sub-tasks; the others owe what they owed.
LEMMA CreateCounts ==
    ASSUME Base, CreateGroup,
           ~ \E i \in Parts(plan) : plan.ids[i] \notin DOMAIN nodes
    PROVE  \E G, k \in Nat :
             /\ DOMAIN groups' = DOMAIN groups \cup {G} /\ G \notin DOMAIN groups
             /\ \A g \in DOMAIN groups : groups'[g] = groups[g]
             /\ groups'[G] = NewGroup(Len(plan.ids))
             /\ \A g \in DOMAIN groups :
                  TasksOf(g)' = TasksOf(g) /\ Undone(g)' = Undone(g)
             /\ TasksOf(G)' = (Len(tasks) + 1)..(Len(tasks) + k)
             /\ Undone(G)' = TasksOf(G)'
             /\ Len(tasks) \in Nat /\ Len(plan.ids) \in Nat /\ k <= Len(plan.ids)
             /\ \A t \in DOMAIN tasks : t \in DOMAIN tasks' /\ tasks'[t] = tasks[t]
<1>1. PICK G, k \in Nat : G = Len(groups) + 1 /\ k = NumParts(plan.games, Len(plan.ids))
  <2>1. Len(groups) + 1 \in Nat
    BY TaskShape DEF Base
  <2>2. NumParts(plan.games, Len(plan.ids)) \in Nat
    BY CreateFacts
  <2> QED BY <2>1, <2>2
<1>2. /\ Len(plan.ids) \in Nat /\ k <= Len(plan.ids)
      /\ DOMAIN tasks = 1..Len(tasks) /\ Len(tasks) \in Nat
      /\ DOMAIN tasks' = 1..(Len(tasks) + k)
      /\ \A t \in DOMAIN tasks : tasks'[t] = tasks[t]
      /\ \A t \in DOMAIN tasks' \ DOMAIN tasks : tasks'[t] = NewTask(G, plan.kind)
  BY <1>1, CreateFacts
<1>3. /\ DOMAIN groups = 1..Len(groups) /\ Len(groups) \in Nat
      /\ groups' = Append(groups, NewGroup(Len(plan.ids)))
  BY TaskShape DEF Base, CreateGroup
<1>4. /\ DOMAIN groups' = DOMAIN groups \cup {G} /\ G \notin DOMAIN groups
      /\ \A g \in DOMAIN groups : groups'[g] = groups[g]
      /\ groups'[G] = NewGroup(Len(plan.ids))
  BY <1>1, <1>3
<1>5. \A t \in DOMAIN tasks : tasks[t].group \in DOMAIN groups
  BY DEF Base, Linked
<1>6. \A t \in DOMAIN tasks' \ DOMAIN tasks :
        tasks'[t].group = G /\ tasks'[t].status = "RUNNING"
  BY <1>2 DEF NewTask
<1>7. DOMAIN tasks \subseteq DOMAIN tasks'
      /\ DOMAIN tasks' \ DOMAIN tasks = (Len(tasks) + 1)..(Len(tasks) + k)
  BY <1>2
<1>8. \A g \in DOMAIN groups : TasksOf(g)' = TasksOf(g) /\ Undone(g)' = Undone(g)
  BY <1>2, <1>4, <1>6, <1>7 DEF TasksOf, Undone
<1>9. TasksOf(G)' = DOMAIN tasks' \ DOMAIN tasks /\ Undone(G)' = TasksOf(G)'
  BY <1>2, <1>4, <1>5, <1>6, <1>7 DEF TasksOf, Undone
<1> QED BY <1>2, <1>4, <1>7, <1>8, <1>9

\* A counted result moves one sub-task from what its group owes to what it
\* has counted.
LEMMA ResultCounts ==
    ASSUME Base, HandleResult, ~UNCHANGED <<tasks, groups>>
    PROVE  \E t \in DOMAIN tasks : \E g \in DOMAIN groups :
             /\ t \in TaskId /\ groups[g] \in GroupRecord
             /\ groups[g].status # "DONE" /\ groups[g].remaining # 0
             /\ DOMAIN groups' = DOMAIN groups
             /\ groups'[g] = Merged(groups[g], t)
             /\ \A h \in DOMAIN groups : h # g =>
                  /\ groups'[h] = groups[h]
                  /\ TasksOf(h)' = TasksOf(h) /\ Undone(h)' = Undone(h)
             /\ t \in Undone(g) /\ TasksOf(g)' = TasksOf(g)
             /\ Undone(g)' = Undone(g) \ {t}
             /\ DOMAIN tasks' = DOMAIN tasks /\ tasks[t].status # "DONE"
             /\ \A s \in DOMAIN tasks : s # t => tasks'[s] = tasks[s]
<1>1. PICK t \in DOMAIN tasks :
        LET g == tasks[t].group
        IN  /\ tasks[t].status = "RUNNING" /\ t \in TaskId
            /\ g \in DOMAIN groups /\ groups[g] \in GroupRecord
            /\ groups[g].status # "DONE" /\ groups[g].remaining # 0
            /\ tasks' = [s \in DOMAIN tasks |->
                           IF s \in {t} THEN [tasks[s] EXCEPT !.status = "DONE"]
                           ELSE tasks[s]]
            /\ DOMAIN groups' = DOMAIN groups
            /\ groups'[g] = Merged(groups[g], t)
            /\ \A h \in DOMAIN groups : h # g => groups'[h] = groups[h]
  BY ResultFacts
<1>2. PICK g \in DOMAIN groups : g = tasks[t].group
  BY <1>1
<1>3. /\ DOMAIN tasks' = DOMAIN tasks
      /\ \A s \in DOMAIN tasks : s # t => tasks'[s] = tasks[s]
      /\ tasks'[t].group = g /\ tasks'[t].status = "DONE"
  <2>1. tasks[t] \in TaskRecord
    BY TaskShape DEF Base
  <2> QED BY <1>1, <1>2, <2>1 DEF TaskRecord
<1>4. \A h : TasksOf(h)' = TasksOf(h)
  BY <1>2, <1>3 DEF TasksOf
<1>5. \A h : h # g => Undone(h)' = Undone(h)
  BY <1>2, <1>3 DEF TasksOf, Undone
<1>6. t \in Undone(g) /\ Undone(g)' = Undone(g) \ {t}
  BY <1>1, <1>2, <1>3 DEF TasksOf, Undone
<1> QED BY <1>1, <1>2, <1>3, <1>4, <1>5, <1>6

\* Appending to a sequence an element it does not have.
LEMMA AppendNew ==
    ASSUME NEW S, NEW s \in Seq(S), NEW e \in S, IsInjective(s), e \notin Range(s)
    PROVE  IsInjective(Append(s, e)) /\ Range(Append(s, e)) = Range(s) \cup {e}
<1>1. /\ Append(s, e) \in Seq(S) /\ Len(Append(s, e)) = Len(s) + 1
      /\ \A i \in 1..Len(s) : Append(s, e)[i] = s[i]
      /\ Append(s, e)[Len(s) + 1] = e
  BY AppendProperties
<1>2. /\ Len(s) \in Nat /\ DOMAIN s = 1..Len(s)
      /\ DOMAIN Append(s, e) = 1..(Len(s) + 1)
  BY <1>1, LenProperties
<1>3. DOMAIN Append(s, e) = DOMAIN s \cup {Len(s) + 1} /\ Len(s) + 1 \notin DOMAIN s
  BY <1>2
<1>4. \A i \in DOMAIN s : Append(s, e)[i] = s[i] /\ s[i] # e
  BY <1>1, <1>2 DEF Range
<1>5. IsInjective(Append(s, e))
  BY <1>1, <1>3, <1>4 DEF IsInjective
<1>6. Range(Append(s, e)) = Range(s) \cup {e}
  BY <1>1, <1>3, <1>4 DEF Range
<1> QED BY <1>5, <1>6

\* Every step keeps CountedOnce: only a running sub-task is counted, and what
\* was counted is not running any more.
LEMMA NextCountedOnce == Base /\ CountedOnce /\ [Next]_vars => CountedOnce'
<1> SUFFICES ASSUME Base, CountedOnce, [Next]_vars PROVE CountedOnce'
  OBVIOUS
<1>1. CASE CreateGroup /\ ~ \E i \in Parts(plan) : plan.ids[i] \notin DOMAIN nodes
  <2>1. PICK G \in Nat :
          /\ DOMAIN groups' = DOMAIN groups \cup {G}
          /\ \A g \in DOMAIN groups : groups'[g] = groups[g]
          /\ groups'[G] = NewGroup(Len(plan.ids))
          /\ \A g \in DOMAIN groups :
               TasksOf(g)' = TasksOf(g) /\ Undone(g)' = Undone(g)
          /\ Undone(G)' = TasksOf(G)'
    BY <1>1, CreateCounts
  <2>2. IsInjective(groups'[G].aggregate) /\ Range(groups'[G].aggregate) = {}
    BY <2>1 DEF NewGroup, IsInjective, Range
  <2> QED BY <2>1, <2>2 DEF CountedOnce
<1>2. CASE HandleResult /\ ~UNCHANGED <<tasks, groups>>
  <2>1. PICK t \in DOMAIN tasks, g \in DOMAIN groups :
          /\ t \in TaskId /\ groups[g] \in GroupRecord
          /\ DOMAIN groups' = DOMAIN groups
          /\ groups'[g] = Merged(groups[g], t)
          /\ \A h \in DOMAIN groups : h # g =>
               /\ groups'[h] = groups[h]
               /\ TasksOf(h)' = TasksOf(h) /\ Undone(h)' = Undone(h)
          /\ t \in Undone(g) /\ TasksOf(g)' = TasksOf(g)
          /\ Undone(g)' = Undone(g) \ {t}
    BY <1>2, ResultCounts
  <2>2. groups'[g].aggregate = Append(groups[g].aggregate, t)
    BY <2>1 DEF Merged
  <2>3. groups[g].aggregate \in Seq(TaskId)
    BY <2>1 DEF GroupRecord
  <2>4. IsInjective(groups[g].aggregate) /\ t \notin Range(groups[g].aggregate)
    BY <2>1 DEF CountedOnce
  <2>5. /\ IsInjective(groups'[g].aggregate)
        /\ Range(groups'[g].aggregate) = Range(groups[g].aggregate) \cup {t}
    BY <2>1, <2>2, <2>3, <2>4, AppendNew
  <2>6. Undone(g) \subseteq TasksOf(g)
    BY DEF Undone
  <2>7. Range(groups'[g].aggregate) = TasksOf(g)' \ Undone(g)'
    BY <2>1, <2>5, <2>6 DEF CountedOnce
  <2> QED BY <2>1, <2>5, <2>7 DEF CountedOnce
<1>3. CASE UNCHANGED <<tasks, groups>>
  BY <1>3 DEF CountedOnce, TasksOf, Undone
<1>4. CASE NothingCounted
  <2>1. \A g : TasksOf(g)' = TasksOf(g) /\ Undone(g)' = Undone(g)
    BY <1>4, UndoneKept
  <2> QED BY <1>4, <2>1 DEF CountedOnce, NothingCounted
<1> QED BY <1>1, <1>2, <1>3, <1>4, CountingSteps

\* However often a sub-task is taken from a late node, given to another and
\* answered by both, its result is in the aggregate of its group once.
THEOREM EachResultOnce == Spec => []CountedOnce
<1>1. Init => CountedOnce
  BY DEF Init, CoordInit, CountedOnce
<1> QED BY <1>1, NextCountedOnce, BaseHolds, PTL DEF Spec

\* What a group owes is a finite set.
LEMMA FinitelyManyOwed ==
    ASSUME TypeOK, NEW g
    PROVE  IsFiniteSet(Undone(g)) /\ Cardinality(Undone(g)) \in Nat
<1>1. Undone(g) \in SUBSET DOMAIN tasks
  BY DEF Undone, TasksOf
<1> QED BY <1>1, FinitelyManyTasks, FS_CardinalityType

\* Every step keeps RemainingCovers: the counter starts at the number of
\* nodes, which no group exceeds in sub-tasks, and goes down with them.
LEMMA NextRemainingCovers == Base /\ RemainingCovers /\ [Next]_vars => RemainingCovers'
<1> SUFFICES ASSUME Base, RemainingCovers, [Next]_vars PROVE RemainingCovers'
  OBVIOUS
<1>0. SUFFICES \A g \in DOMAIN groups' : groups'[g].remaining >= Cardinality(Undone(g)')
  BY NextBase DEF RemainingCovers, Base, Linked
<1>1. CASE CreateGroup /\ ~ \E i \in Parts(plan) : plan.ids[i] \notin DOMAIN nodes
  <2>1. PICK G, k \in Nat :
          /\ DOMAIN groups' = DOMAIN groups \cup {G}
          /\ \A g \in DOMAIN groups : groups'[g] = groups[g]
          /\ groups'[G] = NewGroup(Len(plan.ids))
          /\ \A g \in DOMAIN groups : Undone(g)' = Undone(g)
          /\ TasksOf(G)' = (Len(tasks) + 1)..(Len(tasks) + k)
          /\ Undone(G)' = TasksOf(G)'
          /\ Len(tasks) \in Nat /\ Len(plan.ids) \in Nat /\ k <= Len(plan.ids)
    BY <1>1, CreateCounts
  <2>2. Cardinality((Len(tasks) + 1)..(Len(tasks) + k)) = k
    <3>1. /\ Len(tasks) + 1 \in Int /\ Len(tasks) + k \in Int
          /\ (Len(tasks) + k) - (Len(tasks) + 1) + 1 = k
          /\ (Len(tasks) + 1 > Len(tasks) + k) => k = 0
      BY <2>1
    <3> QED BY <3>1, FS_Interval
  <2>3. groups'[G].remaining = Len(plan.ids)
    BY <2>1 DEF NewGroup
  <2>4. groups'[G].remaining >= Cardinality(Undone(G)')
    BY <2>1, <2>2, <2>3
  <2> QED BY <2>1, <2>4 DEF RemainingCovers
<1>2. CASE HandleResult /\ ~UNCHANGED <<tasks, groups>>
  <2>1. PICK t \in DOMAIN tasks, g \in DOMAIN groups :
          /\ t \in TaskId /\ groups[g] \in GroupRecord
          /\ DOMAIN groups' = DOMAIN groups
          /\ groups'[g] = Merged(groups[g], t)
          /\ \A h \in DOMAIN groups : h # g =>
               groups'[h] = groups[h] /\ Undone(h)' = Undone(h)
          /\ t \in Undone(g)
          /\ Undone(g)' = Undone(g) \ {t}
    BY <1>2, ResultCounts
  <2>2. groups'[g].remaining = groups[g].remaining - 1 /\ groups[g].remaining \in Nat
    BY <2>1 DEF Merged, GroupRecord
  <2>3. /\ Cardinality(Undone(g)') = Cardinality(Undone(g)) - 1
        /\ Cardinality(Undone(g)) \in Nat
    BY <2>1, FinitelyManyOwed, FS_RemoveElement DEF Base
  <2>4. groups'[g].remaining >= Cardinality(Undone(g)')
    BY <2>2, <2>3 DEF RemainingCovers
  <2> QED BY <2>1, <2>4 DEF RemainingCovers
<1>3. CASE UNCHANGED <<tasks, groups>>
  BY <1>3 DEF RemainingCovers, TasksOf, Undone
<1>4. CASE NothingCounted
  <2>1. \A g : Undone(g)' = Undone(g)
    BY <1>4, UndoneKept
  <2> QED BY <1>4, <2>1 DEF RemainingCovers, NothingCounted
<1> QED BY <1>1, <1>2, <1>3, <1>4, CountingSteps

\* remaining_tasks never falls below the results still to come, and a group
\* is DONE exactly when it is zero: it never wraps, and no group is reported
\* as finished while a sub-task of it is outstanding.
THEOREM RemainingIsEnough == Spec => []RemainingCovers
<1>1. Init => RemainingCovers
  BY DEF Init, CoordInit, RemainingCovers
<1> QED BY <1>1, NextRemainingCovers, BaseHolds, PTL DEF Spec

\* No step changes a finished sub-task or a finished group.
THEOREM FinishedStays == Spec => ResultsAreFinal
<1>1. ASSUME Base, [Next]_vars
      PROVE  /\ \A t \in DOMAIN tasks : tasks[t].status = "DONE" => tasks'[t] = tasks[t]
             /\ \A g \in DOMAIN groups : groups[g].status = "DONE" => groups'[g] = groups[g]
  <2>1. CASE CreateGroup /\ ~ \E i \in Parts(plan) : plan.ids[i] \notin DOMAIN nodes
    BY <1>1, <2>1, CreateCounts
  <2>2. CASE HandleResult /\ ~UNCHANGED <<tasks, groups>>
    BY <1>1, <2>2, ResultCounts
  <2>3. CASE UNCHANGED <<tasks, groups>>
    BY <2>3
  <2>4. CASE NothingCounted
    BY <2>4 DEF NothingCounted
  <2> QED BY <1>1, <2>1, <2>2, <2>3, <2>4, CountingSteps
<1> QED BY <1>1, BaseHolds, PTL DEF Spec, ResultsAreFinal

--------------------------------------------------------------------------
(* Queues *)

\* What is left of a queue when its first message is taken was there before.
LEMMA TailKeeps ==
    ASSUME NEW S, NEW s \in Seq(S), s # <<>>
    PROVE  /\ Head(s) = s[1] /\ 1 \in DOMAIN s
           /\ \A i \in DOMAIN Tail(s) : i + 1 \in DOMAIN s /\ Tail(s)[i] = s[i + 1]
           /\ \A i \in DOMAIN s : i # 1 => i - 1 \in DOMAIN Tail(s)
           /\ \A i \in DOMAIN s : i \in Nat \ {0}
<1>1. /\ Tail(s) \in Seq(S) /\ Len(Tail(s)) = Len(s) - 1
      /\ \A i \in 1..Len(Tail(s)) : Tail(s)[i] = s[i + 1]
  BY HeadTailProperties
<1>2. /\ DOMAIN s = 1..Len(s) /\ Len(s) \in Nat \ {0}
      /\ DOMAIN Tail(s) = 1..Len(Tail(s))
  BY <1>1, LenProperties, EmptySeq
<1> QED BY <1>1, <1>2

\* A queue to which a message was added has that one, last, and its old ones.
LEMMA AppendAdds ==
    ASSUME NEW S, NEW s \in Seq(S), NEW e \in S
    PROVE  /\ DOMAIN Append(s, e) = DOMAIN s \cup {Len(s) + 1}
           /\ Append(s, e)[Len(s) + 1] = e
           /\ \A i \in DOMAIN s : i < Len(s) + 1 /\ Append(s, e)[i] = s[i]
<1>1. /\ Append(s, e) \in Seq(S) /\ Len(Append(s, e)) = Len(s) + 1
      /\ \A i \in 1..Len(s) : Append(s, e)[i] = s[i]
      /\ Append(s, e)[Len(s) + 1] = e
  BY AppendProperties
<1>2. /\ Len(s) \in Nat /\ DOMAIN s = 1..Len(s)
      /\ DOMAIN Append(s, e) = 1..(Len(s) + 1)
  BY <1>1, LenProperties
<1> QED BY <1>1, <1>2

--------------------------------------------------------------------------
(* The ids of nodes *)

\* Ids are given out once: whatever has to do with a node, the node itself,
\* its reader and its messages, bears an id that was given out.
Numbered ==
    /\ \A n \in DOMAIN nodes : n < nextNode
    /\ \A n \in NodeId : pc[Reader(n)] = "run" => n < nextNode
    /\ \A i \in DOMAIN recvMessageQueue : recvMessageQueue[i].from < nextNode

\* A thread that goes elsewhere starts no reader.
LEMMA GotoStartsNoReader ==
    ASSUME TypeOK, NEW th \in Thread, NEW label, Goto(th, label),
           label # "run" \/ \A n \in NodeId : th # Reader(n)
    PROVE  \A n \in NodeId : pc'[Reader(n)] = "run" => pc[Reader(n)] = "run"
BY ThreadsDiffer DEF TypeOK, Goto

\* A thread of the coordinator itself is not a reader; one that has balanced
\* is where Resume says, and for a reader that is its end.
LEMMA ResumeStartsNoReader ==
    ASSUME NEW th \in Thread
    PROVE  /\ Resume(th) # "run" \/ \A n \in NodeId : th # Reader(n)
           /\ th \in {Main, Acceptor, Handler, Maintenance} =>
                \A n \in NodeId : th # Reader(n)
BY DEF Resume, Reader, Main, Acceptor, Handler, Maintenance

\* Who starts a reader and who makes a node: the accepting thread only.
NoNewNode ==
    /\ DOMAIN nodes' \subseteq DOMAIN nodes
    /\ nextNode' = nextNode
    /\ \A n \in NodeId : pc'[Reader(n)] = "run" => pc[Reader(n)] = "run"

\* Erasing a node starts nothing.
LEMMA TerminateStartsNothing ==
    ASSUME TypeOK, NEW n, NEW th \in Thread, TerminateNode(n, th)
    PROVE  NoNewNode
<1>1. /\ DOMAIN nodes' \subseteq DOMAIN nodes /\ nextNode' = nextNode
      /\ Goto(th, "balance") \/ Goto(th, Resume(th))
  BY DEF TerminateNode
<1>2. \A m \in NodeId : pc'[Reader(m)] = "run" => pc[Reader(m)] = "run"
  BY <1>1, GotoStartsNoReader, ResumeStartsNoReader
<1> QED BY <1>1, <1>2 DEF NoNewNode

\* Every step but the insertion of a node.
LEMMA NodeSteps ==
    ASSUME Base, [Next]_vars
    PROVE  AcceptInsert \/ NoNewNode
<1> USE DEF Base
<1>1. CASE Operator
  <2>1. CASE \E kind \in Kinds, games \in GameCounts : RequestTask(kind, games)
    <3>1. Goto(Main, "create") /\ UNCHANGED <<nodes, nextNode>>
      BY <2>1 DEF RequestTask
    <3> QED BY <3>1, GotoStartsNoReader, ThreadsDiffer DEF NoNewNode
  <2>2. CASE \E g \in DOMAIN groups : CancelGroup(g)
    BY <2>2 DEF CancelGroup, NoNewNode
  <2>3. CASE \E n \in NodeId : CommandTerminate(n)
    BY <2>3, TerminateStartsNothing, ThreadsDiffer DEF CommandTerminate
  <2> QED BY <1>1, <2>1, <2>2, <2>3 DEF Operator
<1>2. CASE CreateStep
  <2>1. Goto(Main, "run") /\ DOMAIN nodes' \subseteq DOMAIN nodes /\ nextNode' = nextNode
    BY <1>2 DEF CreateStep, CreateGroup
  <2> QED BY <2>1, GotoStartsNoReader, ResumeStartsNoReader, ThreadsDiffer DEF NoNewNode
<1>3. CASE Accept
  <2>1. Goto(Acceptor, "insert") /\ UNCHANGED <<nodes, nextNode>>
    BY <1>3 DEF Accept
  <2> QED BY <2>1, GotoStartsNoReader, ThreadsDiffer DEF NoNewNode
<1>4. CASE HandlerStep
  <2>1. CASE HandleResult
    BY <2>1 DEF HandleResult, NoNewNode
  <2>2. CASE HandleHello
    BY <2>2 DEF HandleHello, NoNewNode
  <2>3. CASE HandleNotify
    BY <2>3 DEF HandleNotify, NoNewNode
  <2>4. CASE HandleInvalid
    BY <2>4, TerminateStartsNothing, ThreadsDiffer DEF HandleInvalid
  <2> QED BY <1>4, <2>1, <2>2, <2>3, <2>4 DEF HandlerStep
<1>5. CASE ScanStep
  <2>1. Goto(Maintenance, "check") /\ DOMAIN nodes' \subseteq DOMAIN nodes /\ nextNode' = nextNode
    BY <1>5, ScanFacts DEF ScanStep, Scan
  <2> QED BY <2>1, GotoStartsNoReader, ThreadsDiffer DEF NoNewNode
<1>6. CASE CheckStep
  <2>1. /\ Goto(Maintenance, "balance") \/ Goto(Maintenance, "run")
        /\ UNCHANGED <<nodes, nextNode>>
    BY <1>6 DEF CheckStep, Check
  <2> QED BY <2>1, GotoStartsNoReader, ResumeStartsNoReader, ThreadsDiffer DEF NoNewNode
<1>7. CASE \E th \in Thread : BalanceStep(th)
  <2>1. PICK th \in Thread : BalanceTasks(th)
    BY <1>7 DEF BalanceStep
  <2>2. Goto(th, Resume(th)) /\ DOMAIN nodes' \subseteq DOMAIN nodes /\ nextNode' = nextNode
    BY <2>1, BalanceFacts DEF BalanceTasks
  <2> QED BY <2>2, GotoStartsNoReader, ResumeStartsNoReader DEF NoNewNode
<1>8. CASE \E n \in NodeId : PeerStep(n) \/ Deliver(n) \/ ConnectionLost(n) \/ Late(n)
  <2>1. PICK n \in NodeId : PeerStep(n) \/ Deliver(n) \/ ConnectionLost(n) \/ Late(n)
    BY <1>8
  <2>2. CASE PeerStep(n)
    BY <2>2 DEF PeerStep, PeerHello, PeerFinish, PeerLeave, PeerHang, PeerStray,
                coordVars, NoNewNode
  <2>3. CASE Deliver(n)
    BY <2>3 DEF Deliver, WriteMessage, NoNewNode
  <2>4. CASE ConnectionLost(n)
    BY <2>4, TerminateStartsNothing, ThreadsDiffer DEF ConnectionLost, ReadEof, WriteFail
  <2>5. CASE Late(n)
    BY <2>5 DEF Late, Elapse, NoNewNode
  <2> QED BY <2>1, <2>2, <2>3, <2>4, <2>5
<1>9. CASE UNCHANGED vars
  BY <1>9 DEF vars, NoNewNode
<1> QED BY <1>1, <1>2, <1>3, <1>4, <1>5, <1>6, <1>7, <1>8, <1>9 DEF Next, AcceptorStep

\* What a node may send is a message the coordinator knows, from that node.
LEMMA PeerMessages ==
    ASSUME TypeOK, NEW n \in NodeId
    PROVE  /\ \A t \in TaskId : /\ Result(n, t) \in Incoming /\ Result(n, t).from = n
                                /\ Result(n, t).type # "NOTIFY"
           /\ \A gl \in GameLists, v \in Versions :
                /\ Hello(n, gl, v) \in Incoming /\ Hello(n, gl, v).from = n
                /\ Hello(n, gl, v).type # "NOTIFY"
           /\ \A t \in TaskId \cup {TASK_ID_NONE}, st \in {"RUNNING", "NONE"} :
                Notify(n, t, st) \in Incoming /\ Notify(n, t, st).from = n
           /\ Invalid(n) \in Incoming /\ Invalid(n).from = n
           /\ Invalid(n).type # "NOTIFY"
           /\ taskQueue[n] # <<>> => Head(taskQueue[n]) \in TaskId
<1>1. taskQueue[n] \in Seq(TaskId)
  BY DEF TypeOK
<1>2. taskQueue[n] # <<>> => Head(taskQueue[n]) \in TaskId
  BY <1>1, HeadTailProperties
<1> QED BY <1>2, MessageTypes, PeerAssumption DEF Result, Hello, Notify, Invalid

\* Of its own accord a node answers no ping.
LEMMA PeerSpeaks ==
    ASSUME TypeOK, NEW n \in NodeId, PeerStep(n)
    PROVE  \/ recvMessageQueue' = recvMessageQueue
           \/ \E msg \in Incoming :
                /\ msg.from = n /\ msg.type # "NOTIFY" /\ pc[Reader(n)] = "run"
                /\ recvMessageQueue' = Append(recvMessageQueue, msg)
<1>1. CASE PeerHello(n)
  BY <1>1, PeerMessages DEF PeerHello, ReadMessage
<1>2. CASE PeerFinish(n)
  BY <1>2, PeerMessages DEF PeerFinish, ReadMessage
<1>3. CASE PeerStray(n)
  BY <1>3, PeerMessages DEF PeerStray, ReadMessage
<1> QED BY <1>1, <1>2, <1>3 DEF PeerStep, PeerLeave, PeerHang, coordVars

\* What a node answers to a ping, it answers when it gets the ping.
LEMMA DeliverAnswers ==
    ASSUME TypeOK, NEW n \in NodeId, Deliver(n)
    PROVE  \/ recvMessageQueue' = recvMessageQueue
           \/ \E msg \in Incoming :
                /\ msg.from = n /\ pc[Reader(n)] = "run"
                /\ msg.type = "NOTIFY" => Head(nodes[n].queue).type = "PING"
                /\ recvMessageQueue' = Append(recvMessageQueue, msg)
<1> DEFINE m == Head(nodes[n].queue)
<1>0. \/ ReceiveGreeting(n, m) \/ ReceiveTask(n, m)
      \/ ReceivePing(n, m) \/ ReceiveCancel(n, m) \/ Discard(n)
  BY DEF Deliver
<1> HIDE DEF m
<1>1. CASE ReceivePing(n, m)
  <2>1. PICK t \in TaskId \cup {TASK_ID_NONE}, st \in {"RUNNING", "NONE"} :
          ReadMessage(n, Notify(n, t, st))
    BY <1>1, PeerMessages DEF ReceivePing
  <2>2. m.type = "PING"
    BY <1>1 DEF ReceivePing
  <2> QED BY <2>1, <2>2, PeerMessages DEF m, ReadMessage
<1>2. CASE ReceiveCancel(n, m) /\ recvMessageQueue' # recvMessageQueue
  <2>1. /\ ReadMessage(n, Result(n, m.task)) /\ Head(taskQueue[n]) = m.task
        /\ Len(taskQueue[n]) > 1
    BY <1>2 DEF ReceiveCancel
  <2>2. taskQueue[n] \in Seq(TaskId)
    BY DEF TypeOK
  <2>3. taskQueue[n] # <<>>
    BY <2>1, <2>2, TailNotEmpty
  <2> QED BY <2>1, <2>3, PeerMessages DEF ReadMessage
<1> QED BY <1>0, <1>1, <1>2 DEF ReceiveGreeting, ReceiveTask, Discard

\* How the queue of received messages changes: nothing, the handler takes the
\* first message, or a reader that runs adds one of its own node.
LEMMA RecvSteps ==
    ASSUME Base, [Next]_vars
    PROVE  \/ recvMessageQueue' = recvMessageQueue
           \/ HandlerStep /\ recvMessageQueue # <<>>
              /\ recvMessageQueue' = Tail(recvMessageQueue)
           \/ \E n \in NodeId : \E msg \in Incoming :
                /\ msg.from = n /\ pc[Reader(n)] = "run"
                /\ recvMessageQueue' = Append(recvMessageQueue, msg)
<1> USE DEF Base
<1>1. CASE HandlerStep
  BY <1>1 DEF HandlerStep, HandleResult, HandleHello, HandleNotify, HandleInvalid, Take
<1>2. CASE \E n \in NodeId : PeerStep(n)
  BY <1>2, PeerSpeaks
<1>3. CASE \E n \in NodeId : Deliver(n)
  BY <1>3, DeliverAnswers
<1>4. CASE Operator
  BY <1>4 DEF Operator, RequestTask, CancelGroup, CommandTerminate
<1>5. CASE CreateStep \/ AcceptorStep \/ ScanStep \/ CheckStep
  BY <1>5 DEF CreateStep, CreateGroup, AcceptorStep, Accept, AcceptInsert, ScanStep,
              Scan, CheckStep, Check
<1>6. CASE \E th \in Thread : BalanceStep(th)
  BY <1>6 DEF BalanceStep, BalanceTasks
<1>7. CASE \E n \in NodeId : ConnectionLost(n) \/ Late(n)
  BY <1>7 DEF ConnectionLost, ReadEof, WriteFail, Late, Elapse
<1>8. CASE UNCHANGED vars
  BY <1>8 DEF vars
<1> QED BY <1>1, <1>2, <1>3, <1>4, <1>5, <1>6, <1>7, <1>8 DEF Next

\* Every step keeps Numbered.
LEMMA NextNumbered == Base /\ Numbered /\ [Next]_vars => Numbered'
<1> SUFFICES ASSUME Base, Numbered, [Next]_vars PROVE Numbered'
  OBVIOUS
<1>1. /\ recvMessageQueue \in Seq(Incoming)
      /\ \A i \in DOMAIN recvMessageQueue : recvMessageQueue[i].from < nextNode
  BY DEF Base, TypeOK, Numbered
<1>2. /\ nextNode \in Nat
      /\ \A n \in NodeId : n < nextNode => n < nextNode'
  <2>1. nextNode \in Nat
    BY BoundsAssumption DEF Base, TypeOK
  <2>2. nextNode' = nextNode \/ nextNode' = nextNode + 1
    BY NodeSteps DEF AcceptInsert, NoNewNode
  <2> QED BY <2>1, <2>2 DEF NodeId
<1>3. /\ \A n \in DOMAIN nodes' : n < nextNode'
      /\ \A n \in NodeId : pc'[Reader(n)] = "run" => n < nextNode'
  <2>1. CASE NoNewNode
    BY <2>1 DEF NoNewNode, Numbered
  <2>2. CASE AcceptInsert
    <3>1. /\ \A n \in DOMAIN nodes' : n \in DOMAIN nodes \/ n = nextNode
          /\ nextNode' = nextNode + 1
          /\ \A n \in NodeId : pc'[Reader(n)] = "run" =>
                pc[Reader(n)] = "run" \/ n = nextNode
      BY <2>2, ThreadsDiffer DEF AcceptInsert, Base, TypeOK, Reader, Writer, Acceptor
    <3>2. \A n \in NodeId : n < nextNode \/ n = nextNode => n < nextNode'
      BY <1>2, <3>1 DEF NodeId
    <3>3. DOMAIN nodes \subseteq NodeId /\ nextNode \in NodeId
      BY <2>2, BoundsAssumption DEF Base, TypeOK, Linked, AcceptInsert, NodeId
    <3> QED BY <3>1, <3>2, <3>3 DEF Numbered
  <2> QED BY <2>1, <2>2, NodeSteps
<1>4. \A i \in DOMAIN recvMessageQueue : recvMessageQueue[i].from < nextNode'
  <2>1. \A i \in DOMAIN recvMessageQueue : recvMessageQueue[i].from \in NodeId
    BY <1>1, ElementOfSeq, LenProperties DEF Incoming
  <2> QED BY <1>1, <1>2, <2>1
<1>5. \A i \in DOMAIN recvMessageQueue' : recvMessageQueue'[i].from < nextNode'
  <2>1. CASE recvMessageQueue' = recvMessageQueue
    BY <1>4, <2>1
  <2>2. CASE recvMessageQueue # <<>> /\ recvMessageQueue' = Tail(recvMessageQueue)
    BY <1>1, <1>4, <2>2, TailKeeps
  <2>3. CASE \E n \in NodeId : \E msg \in Incoming :
               /\ msg.from = n /\ pc[Reader(n)] = "run"
               /\ recvMessageQueue' = Append(recvMessageQueue, msg)
    <3>1. PICK n \in NodeId, msg \in Incoming :
            /\ msg.from = n /\ pc[Reader(n)] = "run"
            /\ recvMessageQueue' = Append(recvMessageQueue, msg)
      BY <2>3
    <3>2. msg.from < nextNode'
      BY <1>2, <3>1 DEF Numbered
    <3> QED BY <1>1, <1>4, <3>1, <3>2, AppendAdds
  <2> QED BY <2>1, <2>2, <2>3, RecvSteps
<1> QED BY <1>3, <1>5 DEF Numbered

\* In every behaviour ids of nodes are given out once.
THEOREM IdsGivenOnce == Spec => []Numbered
<1>1. Init => Numbered
  <2> SUFFICES ASSUME Init PROVE Numbered
    OBVIOUS
  <2>1. \A n \in NodeId : pc[Reader(n)] = "off"
    BY ThreadsDiffer DEF Init, CoordInit, Reader
  <2> QED BY <2>1 DEF Init, CoordInit, Numbered
<1> QED BY <1>1, NextNumbered, BaseHolds, PTL DEF Spec

--------------------------------------------------------------------------
(* How a sub-task leaves its node *)

\* A sub-task that leaves the list of a node that stays was freed by a scan or
\* cancelled in that step; a new node never takes the place of an old one.
THEOREM OwnerKeptAlways == Spec => OwnerKept
<1>1. ASSUME Base, Numbered, [Next]_vars,
             NEW n \in DOMAIN nodes \cap DOMAIN nodes',
             NEW t \in nodes[n].tasks \ nodes'[n].tasks
      PROVE  \/ tasks'[t].status = "NONE"
             \/ groups[tasks[t].group].status = "RUNNING"
                /\ groups'[tasks[t].group].status = "CANCELLED"
  <2> USE <1>1
  <2>1. t \in DOMAIN tasks /\ tasks[t] \in TaskRecord /\ tasks[t].group \in DOMAIN groups
    BY TaskShape DEF Base, Linked
  <2>2. CASE CreateGroup /\ ~ \E i \in Parts(plan) : plan.ids[i] \notin DOMAIN nodes
    <3>1. nodes[n].tasks \subseteq nodes'[n].tasks
      BY <2>2, CreateFacts
    <3> QED BY <3>1
  <2>3. CASE HandleResult
    BY <2>3 DEF HandleResult
  <2>4. CASE \E th \in Thread : BalanceTasks(th)
    <3>1. nodes[n].tasks \subseteq nodes'[n].tasks
      BY <2>4, BalanceFacts
    <3> QED BY <3>1
  <2>5. CASE Scan
    <3>1. PICK lost \in SUBSET DOMAIN nodes :
            /\ \A m \in DOMAIN nodes :
                 nodes'[m].tasks = IF m \in lost THEN nodes[m].tasks \ RunningTasks(m)
                                   ELSE nodes[m].tasks
            /\ tasks' = [s \in DOMAIN tasks |->
                           IF s \in UNION {RunningTasks(m) : m \in lost}
                           THEN [tasks[s] EXCEPT !.status = "NONE"]
                           ELSE tasks[s]]
      BY <2>5, ScanFacts
    <3>2. n \in lost /\ t \in RunningTasks(n)
      BY <3>1
    <3> QED BY <2>1, <3>1, <3>2 DEF TaskRecord
  <2>6. CASE \E g \in DOMAIN groups : CancelGroup(g)
    <3>1. PICK g \in DOMAIN groups : CancelGroup(g)
      BY <2>6
    <3>2. t \in Victims(g)
      BY <3>1, CancelFacts
    <3>3. /\ tasks[t].group = g /\ groups[g].status = "RUNNING"
          /\ groups' = [groups EXCEPT ![g].status = "CANCELLED"]
      BY <3>1, <3>2 DEF Victims, CancelGroup
    <3>4. groups[g] \in GroupRecord
      BY TaskShape DEF Base
    <3> QED BY <3>3, <3>4 DEF GroupRecord
  <2>7. CASE OwnersKeptOrNew
    <3>1. n # nextNode
      BY BoundsAssumption DEF Numbered, Base, TypeOK
    <3> QED BY <2>7, <3>1 DEF OwnersKeptOrNew
  <2> QED BY <2>2, <2>3, <2>4, <2>5, <2>6, <2>7, StepKinds
<1>2. Base /\ Numbered /\ [Next]_vars
        => \A n \in DOMAIN nodes \cap DOMAIN nodes' :
             \A t \in nodes[n].tasks \ nodes'[n].tasks :
               \/ tasks'[t].status = "NONE"
               \/ groups[tasks[t].group].status = "RUNNING"
                  /\ groups'[tasks[t].group].status = "CANCELLED"
  BY <1>1
<1> QED BY <1>2, BaseHolds, IdsGivenOnce, PTL DEF Spec, OwnerKept

--------------------------------------------------------------------------
(* The coordinator keeps the books of Ledger *)

\* The ids of sub-tasks are within the bound, and those the plan of
\* command_task will take are so too.
PlanFits ==
    /\ Len(tasks) <= MaxTask
    /\ pc[Main] = "create" =>
         /\ Len(tasks) + NumParts(plan.games, Len(plan.ids)) <= MaxTask
         /\ Len(plan.ids) <= MaxNode

\* Only command_task makes and uses a plan.
PlanKept == plan' = plan /\ (pc'[Main] = "create" => pc[Main] = "create")

\* A thread that goes anywhere but to the second half of command_task.
LEMMA GotoKeepsPlan ==
    ASSUME TypeOK, NEW th \in Thread, NEW label, label # "create", Goto(th, label)
    PROVE  pc'[Main] = "create" => pc[Main] = "create"
BY ThreadsDiffer DEF TypeOK, Goto

\* Erasing a node leaves the plan of command_task as it is.
LEMMA TerminateKeepsPlan ==
    ASSUME TypeOK, NEW n, NEW th \in Thread, TerminateNode(n, th)
    PROVE  PlanKept
<1>1. plan' = plan /\ \E label : label # "create" /\ Goto(th, label)
  BY DEF TerminateNode, Resume
<1> QED BY <1>1, GotoKeepsPlan DEF PlanKept

\* Every step but the two halves of command_task.
LEMMA PlanSteps ==
    ASSUME Base, [Next]_vars
    PROVE  \/ \E kind \in Kinds, games \in GameCounts : RequestTask(kind, games)
           \/ CreateGroup
           \/ PlanKept
<1> USE DEF Base
<1>1. CASE Operator
  <2>1. CASE \E g \in DOMAIN groups : CancelGroup(g)
    BY <2>1 DEF CancelGroup, PlanKept
  <2>2. CASE \E n \in NodeId : CommandTerminate(n)
    BY <2>2, TerminateKeepsPlan, ThreadsDiffer DEF CommandTerminate
  <2> QED BY <1>1, <2>1, <2>2 DEF Operator
<1>2. CASE CreateStep
  BY <1>2 DEF CreateStep
<1>3. CASE AcceptorStep
  <2>1. CASE Accept
    <3>1. plan' = plan /\ Goto(Acceptor, "insert")
      BY <2>1 DEF Accept
    <3> QED BY <3>1, GotoKeepsPlan, ThreadsDiffer DEF PlanKept
  <2>2. CASE AcceptInsert
    BY <2>2, ThreadsDiffer DEF AcceptInsert, PlanKept, TypeOK, Reader, Writer, Main, Acceptor
  <2> QED BY <1>3, <2>1, <2>2 DEF AcceptorStep
<1>4. CASE HandlerStep
  <2>1. CASE HandleInvalid
    BY <2>1, TerminateKeepsPlan, ThreadsDiffer DEF HandleInvalid
  <2> QED BY <1>4, <2>1 DEF HandlerStep, HandleResult, HandleHello, HandleNotify, PlanKept
<1>5. CASE ScanStep
  <2>1. plan' = plan /\ Goto(Maintenance, "check")
    BY <1>5 DEF ScanStep, Scan
  <2> QED BY <2>1, GotoKeepsPlan, ThreadsDiffer DEF PlanKept
<1>6. CASE CheckStep
  <2>1. plan' = plan /\ (Goto(Maintenance, "balance") \/ Goto(Maintenance, "run"))
    BY <1>6 DEF CheckStep, Check
  <2> QED BY <2>1, GotoKeepsPlan, ThreadsDiffer DEF PlanKept
<1>7. CASE \E th \in Thread : BalanceStep(th)
  <2>1. PICK th \in Thread : plan' = plan /\ Goto(th, Resume(th))
    BY <1>7 DEF BalanceStep, BalanceTasks
  <2>2. Resume(th) # "create"
    BY DEF Resume
  <2> QED BY <2>1, <2>2, GotoKeepsPlan DEF PlanKept
<1>8. CASE \E n \in NodeId : PeerStep(n) \/ Deliver(n) \/ ConnectionLost(n) \/ Late(n)
  <2>1. PICK n \in NodeId : PeerStep(n) \/ Deliver(n) \/ ConnectionLost(n) \/ Late(n)
    BY <1>8
  <2>2. CASE ConnectionLost(n)
    BY <2>2, TerminateKeepsPlan, ThreadsDiffer DEF ConnectionLost, ReadEof, WriteFail
  <2> QED BY <2>1, <2>2 DEF PeerStep, PeerHello, PeerFinish, PeerLeave, PeerHang,
        PeerStray, coordVars, Deliver, WriteMessage, Late, Elapse, PlanKept
<1>9. CASE UNCHANGED vars
  BY <1>9 DEF vars, PlanKept
<1> QED BY <1>1, <1>2, <1>3, <1>4, <1>5, <1>6, <1>7, <1>8, <1>9 DEF Next

\* command_task makes as many sub-tasks as its plan says; no other step makes
\* one.
LEMMA TasksGrow ==
    ASSUME Base, [Next]_vars
    PROVE  \/ Len(tasks') = Len(tasks)
           \/ /\ pc[Main] = "create" /\ pc'[Main] = "run"
              /\ Len(tasks') = Len(tasks) + NumParts(plan.games, Len(plan.ids))
<1>0. /\ DOMAIN tasks = 1..Len(tasks) /\ Len(tasks) \in Nat
      /\ DOMAIN tasks' = 1..Len(tasks') /\ Len(tasks') \in Nat
  BY NextBase, LenProperties DEF Base, TypeOK
<1>1. \A a, b \in Nat : 1..a = 1..b => a = b
  <2> SUFFICES ASSUME NEW a \in Nat, NEW b \in Nat, 1..a = 1..b PROVE a = b
    OBVIOUS
  <2>1. (a \in 1..a \/ a = 0) /\ (b \in 1..b \/ b = 0)
    OBVIOUS
  <2>2. (a \in 1..b \/ a = 0) /\ (b \in 1..a \/ b = 0)
    BY <2>1
  <2> QED BY <2>2
<1>2. CASE CreateGroup /\ ~ \E i \in Parts(plan) : plan.ids[i] \notin DOMAIN nodes
  <2>1. /\ DOMAIN tasks' = 1..(Len(tasks) + NumParts(plan.games, Len(plan.ids)))
        /\ NumParts(plan.games, Len(plan.ids)) \in Nat
    BY <1>2, CreateFacts
  <2>2. pc[Main] = "create" /\ pc'[Main] = "run"
    BY <1>2, ThreadsDiffer DEF CreateGroup, Goto, Base, TypeOK
  <2>3. Len(tasks) + NumParts(plan.games, Len(plan.ids)) \in Nat
    BY <1>0, <2>1
  <2> QED BY <1>0, <1>1, <2>1, <2>2, <2>3
<1>3. CASE DOMAIN tasks' = DOMAIN tasks
  BY <1>0, <1>1, <1>3
<1>4. HandleResult => DOMAIN tasks' = DOMAIN tasks
  BY ResultFacts
<1> QED BY <1>2, <1>3, <1>4, CountingSteps DEF NothingCounted

\* Every step keeps PlanFits.
LEMMA NextPlanFits == Base /\ PlanFits /\ [Next]_vars => PlanFits'
<1> SUFFICES ASSUME Base, PlanFits, [Next]_vars PROVE PlanFits'
  OBVIOUS
<1>1. Len(tasks') <= MaxTask
  BY TasksGrow DEF PlanFits
<1>2. CASE \E kind \in Kinds, games \in GameCounts : RequestTask(kind, games)
  <2>1. PICK kind \in Kinds, games \in GameCounts : RequestTask(kind, games)
    BY <1>2
  <2>2. PICK ids \in SetToSeqs(Eligible(kind)) :
          plan' = [ids |-> ids, kind |-> kind, games |-> games]
    BY <2>1 DEF RequestTask
  <2>3. /\ Cardinality(Eligible(kind)) \in Nat
        /\ Cardinality(Eligible(kind)) <= MaxNode
    <3>1. Eligible(kind) \in SUBSET NodeId
      BY DEF Eligible, Base, TypeOK
    <3>2. IsFiniteSet(NodeId) /\ Cardinality(NodeId) = MaxNode
      BY BoundsAssumption, FS_Interval DEF NodeId
    <3> QED BY <3>1, <3>2, FS_Subset, FS_CardinalityType
  <2>4. Len(ids) = Cardinality(Eligible(kind))
    <3>1. ids \in [1..Cardinality(Eligible(kind)) -> Eligible(kind)]
      BY DEF SetToSeqs
    <3>2. ids \in Seq(Eligible(kind))
      BY <2>3, <3>1, SeqDef
    <3> QED BY <2>3, <3>1, <3>2, LenProperties
  <2>5. Len(tasks) + NumParts(games, Len(ids)) <= MaxTask /\ tasks' = tasks
    BY <2>1, <2>4 DEF RequestTask
  <2> QED BY <1>1, <2>2, <2>3, <2>4, <2>5 DEF PlanFits
<1>3. CASE CreateGroup
  <2>1. pc'[Main] = "run"
    BY <1>3, ThreadsDiffer DEF CreateGroup, Goto, Base, TypeOK
  <2> QED BY <1>1, <2>1 DEF PlanFits
<1>4. CASE PlanKept
  <2>1. pc'[Main] = "create" => Len(tasks') = Len(tasks)
    BY TasksGrow
  <2> QED BY <1>1, <1>4, <2>1 DEF PlanKept, PlanFits
<1> QED BY <1>2, <1>3, <1>4, PlanSteps

\* What is settled and what is owed are sub-tasks that exist.
LEMMA KnownExists ==
    ASSUME CountedOnce
    PROVE  Books!Known \subseteq DOMAIN tasks
<1>1. \A g \in DOMAIN groups :
        /\ Account[g].owed \subseteq DOMAIN tasks
        /\ Account[g].settled \subseteq DOMAIN tasks
  BY DEF Account, Entry, CountedOnce, TasksOf, Undone
<1>2. DOMAIN Account = DOMAIN groups
  BY DEF Account
<1> QED BY <1>1, <1>2 DEF Books!Known

\* command_task opens a group: its sub-tasks are new, and a node of the plan
\* without a share is an empty slot.
LEMMA CreateOpens ==
    ASSUME Base, CountedOnce, PlanFits, CreateGroup,
           ~ \E i \in Parts(plan) : plan.ids[i] \notin DOMAIN nodes
    PROVE  Books!LedgerNext
<1>1. /\ \A t \in DOMAIN tasks' \ DOMAIN tasks :
           tasks'[t].group = Len(groups) + 1 /\ tasks'[t].status = "RUNNING"
      /\ \A t \in DOMAIN tasks : tasks'[t] = tasks[t]
      /\ DOMAIN tasks = 1..Len(tasks) /\ Len(tasks) \in Nat
      /\ Len(plan.ids) \in Nat
  BY CreateFacts DEF NewTask
<1>0. PICK G \in Nat : G = Len(groups) + 1
  BY <1>1, TaskShape DEF Base
<1> DEFINE k == NumParts(plan.games, Len(plan.ids))
           new == [owed |-> (Len(tasks) + 1)..(Len(tasks) + k), settled |-> {},
                   empty |-> Len(plan.ids) - k, status |-> "RUNNING"]
<1>2. /\ DOMAIN tasks' = 1..(Len(tasks) + k) /\ k \in 0..Len(plan.ids)
      /\ Len(tasks) + k <= MaxTask /\ Len(plan.ids) <= MaxNode
  BY CreateFacts DEF PlanFits, CreateGroup
<1> HIDE DEF k
<1>3. /\ groups' = Append(groups, NewGroup(Len(plan.ids))) /\ Len(groups) \in Nat
      /\ DOMAIN groups = 1..Len(groups)
  BY TaskShape DEF CreateGroup, Base
<1>4. /\ DOMAIN groups' = 1..G /\ groups'[G] = NewGroup(Len(plan.ids))
      /\ \A g \in 1..Len(groups) : groups'[g] = groups[g]
  BY <1>0, <1>3
<1>5. /\ Undone(G)' = (Len(tasks) + 1)..(Len(tasks) + k)
      /\ \A g \in 1..Len(groups) : Undone(g)' = Undone(g)
  <2>1. \A t \in DOMAIN tasks : tasks[t].group \in 1..Len(groups)
    BY <1>3 DEF Base, Linked
  <2>2. G \notin 1..Len(groups)
    BY <1>0, <1>3
  <2>3. DOMAIN tasks' \ DOMAIN tasks = (Len(tasks) + 1)..(Len(tasks) + k)
        /\ DOMAIN tasks \subseteq DOMAIN tasks'
    BY <1>1, <1>2
  <2>4. \A t \in DOMAIN tasks' \ DOMAIN tasks :
          tasks'[t].group = G /\ tasks'[t].status = "RUNNING"
    BY <1>0, <1>1
  <2>5. \A g \in 1..Len(groups) : Undone(g)' = Undone(g)
    BY <1>1, <2>2, <2>3, <2>4 DEF Undone, TasksOf
  <2>6. Undone(G)' = DOMAIN tasks' \ DOMAIN tasks
    BY <1>1, <2>1, <2>2, <2>3, <2>4 DEF Undone, TasksOf
  <2> QED BY <2>3, <2>5, <2>6
<1>6. Cardinality((Len(tasks) + 1)..(Len(tasks) + k)) = k
  <2>1. /\ Len(tasks) + 1 \in Int /\ Len(tasks) + k \in Int
        /\ (Len(tasks) + k) - (Len(tasks) + 1) + 1 = k
        /\ (Len(tasks) + 1 > Len(tasks) + k) => k = 0
    BY <1>1, <1>2
  <2> QED BY <2>1, FS_Interval
<1>7. Entry(G)' = new
  <2>1. Range(groups'[G].aggregate) = {}
    BY <1>4 DEF NewGroup, Range
  <2>2. groups'[G].remaining = Len(plan.ids) /\ groups'[G].status = "RUNNING"
    BY <1>4 DEF NewGroup
  <2>3. Undone(G)' = (Len(tasks) + 1)..(Len(tasks) + k) /\ Cardinality(Undone(G)') = k
    BY <1>5, <1>6
  <2>4. Cardinality(Undone(G))' = k
    BY <2>3
  <2> QED BY <2>1, <2>2, <2>3, <2>4 DEF Entry
<1>8. \A g \in 1..Len(groups) : Entry(g)' = Entry(g)
  BY <1>4, <1>5 DEF Entry
<1>9. Account' = Append(Account, new)
  <2> DEFINE X == {Entry(g) : g \in 1..Len(groups)} \cup {new}
  <2>1. Account = [g \in 1..Len(groups) |-> Entry(g)] /\ Account \in [1..Len(groups) -> X]
    BY <1>3 DEF Account
  <2>2. Account \in Seq(X) /\ Len(Account) = Len(groups)
    BY <1>3, <2>1, SeqDef, LenProperties
  <2>3. /\ Append(Account, new) \in Seq(X) /\ Len(Append(Account, new)) = G
        /\ \A i \in 1..Len(groups) : Append(Account, new)[i] = Entry(i)
        /\ Append(Account, new)[G] = new
    <3> HIDE DEF X
    <3>1. new \in X
      BY DEF X
    <3> HIDE DEF new
    <3> QED BY <1>0, <2>1, <2>2, <3>1, AppendProperties
  <2>4. DOMAIN Append(Account, new) = 1..G
        /\ Append(Account, new) = [g \in 1..G |-> Append(Account, new)[g]]
    BY <2>3, LenProperties
  <2>5. Account' = [g \in 1..G |-> Entry(g)']
    BY <1>4 DEF Account
  <2>6. \A g \in 1..G : g \in 1..Len(groups) \/ g = G
    BY <1>0, <1>3
  <2>7. \A g \in 1..G : Append(Account, new)[g] = Entry(g)'
    BY <1>7, <1>8, <2>3, <2>6
  <2> HIDE DEF new
  <2> QED BY <2>4, <2>5, <2>7
<1>10. ((Len(tasks) + 1)..(Len(tasks) + k)) \cap Books!Known = {}
  <2>1. ((Len(tasks) + 1)..(Len(tasks) + k)) \cap DOMAIN tasks = {}
    BY <1>1
  <2> QED BY <2>1, KnownExists
<1>11. /\ (Len(tasks) + 1)..(Len(tasks) + k) \in SUBSET (1..MaxTask)
       /\ Len(plan.ids) - k \in 0..MaxNode
  BY <1>1, <1>2, BoundsAssumption
<1>12. Books!Open((Len(tasks) + 1)..(Len(tasks) + k), Len(plan.ids) - k)
  BY <1>9, <1>10 DEF Books!Open
<1> QED BY <1>11, <1>12 DEF Books!LedgerNext

\* A counted result settles one sub-task; its group is DONE if it was the last
\* one owed and there is no empty slot.
LEMMA ResultSettles ==
    ASSUME Base, CountedOnce, RemainingCovers, PlanFits, HandleResult,
           ~UNCHANGED <<tasks, groups>>
    PROVE  Books!LedgerNext
<1>1. PICK t \in DOMAIN tasks, g \in DOMAIN groups :
        /\ t \in TaskId /\ groups[g] \in GroupRecord
        /\ groups[g].status # "DONE" /\ groups[g].remaining # 0
        /\ DOMAIN groups' = DOMAIN groups
        /\ groups'[g] = Merged(groups[g], t)
        /\ \A h \in DOMAIN groups : h # g =>
             groups'[h] = groups[h] /\ Undone(h)' = Undone(h)
        /\ t \in Undone(g)
        /\ Undone(g)' = Undone(g) \ {t}
  BY ResultCounts
<1>2. /\ Cardinality(Undone(g)) \in Nat /\ IsFiniteSet(Undone(g))
      /\ Cardinality(Undone(g) \ {t}) = Cardinality(Undone(g)) - 1
      /\ groups[g].remaining \in Nat
      /\ groups[g].remaining >= Cardinality(Undone(g))
  BY <1>1, FinitelyManyOwed, FS_RemoveElement DEF Base, RemainingCovers, GroupRecord
<1>3. groups[g].remaining = 1 <=>
        Undone(g) = {t} /\ groups[g].remaining - Cardinality(Undone(g)) = 0
  <2>1. Cardinality(Undone(g)) # 0
    BY <1>1, <1>2, FS_EmptySet
  <2>2. Undone(g) = {t} => Cardinality(Undone(g)) = 1
    BY FS_Singleton
  <2>3. ASSUME Cardinality(Undone(g)) = 1 PROVE Undone(g) = {t}
    <3>1. IsFiniteSet(Undone(g) \ {t}) /\ Cardinality(Undone(g) \ {t}) = 0
      BY <1>2, <2>3, FS_Subset
    <3>2. Undone(g) \ {t} = {}
      BY <3>1, FS_EmptySet
    <3> QED BY <1>1, <3>2
  <2> QED BY <1>2, <2>1, <2>2, <2>3
<1>4. Range(groups'[g].aggregate) = Range(groups[g].aggregate) \cup {t}
  <2>1. IsInjective(groups[g].aggregate) /\ t \notin Range(groups[g].aggregate)
    BY <1>1 DEF CountedOnce
  <2>2. groups[g].aggregate \in Seq(TaskId)
    BY <1>1 DEF GroupRecord
  <2>3. groups'[g].aggregate = Append(groups[g].aggregate, t)
    BY <1>1 DEF Merged
  <2> QED BY <1>1, <2>1, <2>2, <2>3, AppendNew
<1>5. Entry(g)' =
        [owed |-> Entry(g).owed \ {t},
         settled |-> Entry(g).settled \cup {t},
         empty |-> Entry(g).empty,
         status |-> IF Entry(g).owed = {t} /\ Entry(g).empty = 0
                    THEN "DONE" ELSE Entry(g).status]
  <2>1. /\ groups'[g].remaining = groups[g].remaining - 1
        /\ groups'[g].status = IF groups[g].remaining = 1 THEN "DONE"
                               ELSE groups[g].status
    BY <1>1 DEF Merged
  <2>2. groups'[g].remaining - Cardinality(Undone(g)')
          = groups[g].remaining - Cardinality(Undone(g))
    BY <1>1, <1>2, <2>1
  <2> QED BY <1>1, <1>3, <1>4, <2>1, <2>2 DEF Entry
<1>6. \A h \in DOMAIN groups : h # g => Entry(h)' = Entry(h)
  BY <1>1 DEF Entry
<1>7. /\ Account = [h \in DOMAIN groups |-> Entry(h)]
      /\ Account' = [h \in DOMAIN groups |-> Entry(h)']
  BY <1>1 DEF Account
<1>8. Account' = [Account EXCEPT ![g] =
        [owed |-> @.owed \ {t},
         settled |-> @.settled \cup {t},
         empty |-> @.empty,
         status |-> IF @.owed = {t} /\ @.empty = 0 THEN "DONE" ELSE @.status]]
  BY <1>5, <1>6, <1>7
<1>9. g \in DOMAIN Account /\ Account[g].status # "DONE" /\ t \in Account[g].owed
  BY <1>1, <1>7 DEF Entry
<1>10. t \in 1..MaxTask
  BY TaskShape, BoundsAssumption DEF Base, PlanFits
<1>11. Books!Settle(g, t)
  BY <1>8, <1>9 DEF Books!Settle
<1> QED BY <1>9, <1>10, <1>11 DEF Books!LedgerNext

\* command_cancel cancels a running group and settles nothing.
LEMMA CancelCancels ==
    ASSUME Base, NEW g \in DOMAIN groups, CancelGroup(g)
    PROVE  Books!LedgerNext
<1>1. /\ groups[g].status = "RUNNING" /\ tasks' = tasks
      /\ groups' = [groups EXCEPT ![g].status = "CANCELLED"]
      /\ groups[g] \in GroupRecord
  BY TaskShape DEF CancelGroup, Base
<1>2. \A h : Undone(h)' = Undone(h)
  BY <1>1 DEF Undone, TasksOf
<1>3. Entry(g)' = [Entry(g) EXCEPT !.status = "CANCELLED"]
  BY <1>1, <1>2 DEF Entry, GroupRecord
<1>4. \A h \in DOMAIN groups : h # g => Entry(h)' = Entry(h)
  BY <1>1, <1>2 DEF Entry
<1>5. /\ Account = [h \in DOMAIN groups |-> Entry(h)]
      /\ Account' = [h \in DOMAIN groups |-> Entry(h)']
  BY <1>1 DEF Account
<1>6. Account' = [Account EXCEPT ![g].status = "CANCELLED"]
  BY <1>3, <1>4, <1>5
<1>7. g \in DOMAIN Account /\ Account[g].status = "RUNNING"
  BY <1>1, <1>5 DEF Entry
<1>8. Books!Cancel(g)
  BY <1>6, <1>7 DEF Books!Cancel
<1> QED BY <1>7, <1>8 DEF Books!LedgerNext

\* Every step opens, settles or cancels, or leaves the books alone.
LEMMA StepBooks ==
    ASSUME Base, CountedOnce, RemainingCovers, PlanFits, [Next]_vars
    PROVE  [Books!LedgerNext]_Account
<1>1. CASE CreateGroup /\ ~ \E i \in Parts(plan) : plan.ids[i] \notin DOMAIN nodes
  BY <1>1, CreateOpens
<1>2. CASE HandleResult /\ ~UNCHANGED <<tasks, groups>>
  BY <1>2, ResultSettles
<1>3. CASE \E g \in DOMAIN groups : CancelGroup(g)
  BY <1>3, CancelCancels
<1>4. CASE groups' = groups /\ \A g : Undone(g)' = Undone(g)
  <2>1. \A g : Entry(g)' = Entry(g)
    BY <1>4 DEF Entry
  <2>2. Account' = Account
    BY <1>4, <2>1 DEF Account
  <2> QED BY <2>2
<1>5. CASE UNCHANGED <<tasks, groups>>
  BY <1>4, <1>5 DEF Undone, TasksOf
<1>6. CASE NothingCounted /\ groups' = groups
  BY <1>4, <1>6, UndoneKept
<1>7. groups' = groups \/ CreateGroup \/ HandleResult \/ \E g \in DOMAIN groups : CancelGroup(g)
  BY StepKinds DEF BalanceTasks, Scan
<1>8. CASE CreateGroup /\ \E i \in Parts(plan) : plan.ids[i] \notin DOMAIN nodes
  <2>1. UNCHANGED <<tasks, groups>>
    BY <1>8 DEF CreateGroup
  <2> QED BY <1>5, <2>1
<1> QED BY <1>1, <1>2, <1>3, <1>5, <1>6, <1>7, <1>8, CountingSteps

\* The coordinator implements Ledger for any number of nodes, sub-tasks and
\* groups: whatever is lost, late or answered twice, a sub-task is settled at
\* most once and a group is DONE exactly when nothing is owed to it.
THEOREM CoordinatorKeepsBooks == Spec => KeepsBooks
<1>1. Init => Books!LedgerInit
  <2>1. Init => groups = <<>>
    BY DEF Init, CoordInit
  <2>2. groups = <<>> => Account = <<>>
    BY DEF Account
  <2> QED BY <2>1, <2>2 DEF Books!LedgerInit
<1>2. Init => PlanFits
  BY BoundsAssumption, ThreadsDiffer DEF Init, CoordInit, PlanFits, Main
<1>3. Spec => []PlanFits
  BY <1>2, NextPlanFits, BaseHolds, PTL DEF Spec
<1>4. Base /\ CountedOnce /\ RemainingCovers /\ PlanFits /\ [Next]_vars
        => [Books!LedgerNext]_Account
  BY StepBooks
<1> QED BY <1>1, <1>3, <1>4, BaseHolds, EachResultOnce, RemainingIsEnough, PTL
        DEF Spec, KeepsBooks, Books!LedgerSpec
==========================================================================
