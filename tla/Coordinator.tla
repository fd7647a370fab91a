--------------------------- MODULE Coordinator ---------------------------
(***************************************************************************)
(* The coordinator of the Bot Evaluation Machine: struct State of state.h  *)
(* and the threads that share it.  Each action is one critical section, or *)
(* one step between two of them:                                           *)
(*   main         the commands task, cancel and terminate                  *)
(*   accept       a connection becomes a node                              *)
(*   handler      one message of recvMessageQueue                          *)
(*   maintenance  the scan every two seconds, and the balancing after it   *)
(*   read, write  a pair per node                                          *)
(* A mutex is held for the whole of an action and all of them are taken in *)
(* one order, so the mutexes themselves are not part of the state.  What a *)
(* peer sends and how it reads is left to the module that extends this one.*)
(* Definitions marked "Mistake:" are not part of the model: each is a bug   *)
(* the definition after it could have, used to test the properties.        *)
(***************************************************************************)
EXTENDS Integers, FiniteSets, SequencesExt, GameSplit

CONSTANTS
    MaxNode,    \* bound: connections ever accepted
    MaxTask,    \* bound: sub-tasks ever created
    MaxGroup,   \* bound: groups ever created
    Kinds,      \* what a task plays: a game and two agents
    GameCounts, \* the values of NUM_GAMES given to the command task
    Commands    \* the commands the operator may give

ASSUME BoundsAssumption ==
    /\ MaxNode \in Nat /\ MaxTask \in Nat /\ MaxGroup \in Nat
    /\ GameCounts \subseteq Nat
    /\ Commands \subseteq {"task", "cancel", "terminate"}

TASK_ID_NONE == 0
NodeId == 1..MaxNode
TaskId == Nat \ {TASK_ID_NONE}
GroupId == Nat \ {TASK_ID_NONE}

Main == <<"main", 0>>
Acceptor == <<"accept", 0>>
Handler == <<"handler", 0>>
Maintenance == <<"maintenance", 0>>
Reader(n) == <<"read", n>>
Writer(n) == <<"write", n>>
Thread ==
    {Main, Acceptor, Handler, Maintenance}
        \cup {Reader(n) : n \in NodeId} \cup {Writer(n) : n \in NodeId}

VARIABLES
    nodes,              \* State.nodes, without the socket and the address
    tasks,              \* State.tasks; ids are given out in order
    groups,             \* State.groups; ids are given out in order
    recvMessageQueue,   \* messages of all nodes, with the id of the sender
    suspectedBalancing,
    pc,                 \* where each thread is
    plan,               \* node_ids, kind and games of main's command_task
    nextNode,           \* next_node_id of the accepting thread
    crashed             \* a null pointer was dereferenced

coordVars == <<nodes, tasks, groups, recvMessageQueue, suspectedBalancing,
               pc, plan, nextNode, crashed>>

NoPlan == [ids |-> <<>>, games |-> 0]

FreshNode ==
    [registered |-> FALSE,      \* NodeFlag::REGISTERED
     broken |-> FALSE,          \* NodeFlag::CONN_BROKEN
     gamelist |-> {},           \* the kinds it can play
     tasks |-> {},              \* Node::tasks, its order left out
     activeTaskGroup |-> TASK_ID_NONE,
     ping |-> "answered",       \* response_ts against request_ts, see Elapse
     queue |-> <<>>]            \* Node::messageQueue

CoordInit ==
    /\ nodes = [n \in {} |-> FreshNode]
    /\ tasks = <<>>
    /\ groups = <<>>
    /\ recvMessageQueue = <<>>
    /\ suspectedBalancing = FALSE
    /\ pc = [th \in Thread |->
                IF th[1] \in {"read", "write"} THEN "off" ELSE "run"]
    /\ plan = NoPlan
    /\ nextNode = 1
    /\ crashed = FALSE

Goto(th, label) == pc' = [pc EXCEPT ![th] = label]

\* A thread of a node ends after it has terminated the node; the others loop.
Resume(th) == IF th[1] \in {"read", "write"} THEN "off" ELSE "run"

--------------------------------------------------------------------------
(* Nodes *)

Msg(type, t) == [type |-> type, task |-> t]

\* Node::Send
Send(node, msg) == [node EXCEPT !.queue = Append(@, msg)]

\* Node::AssignTask for each of a sequence of tasks the node does not have.
Assign(node, ts) ==
    [node EXCEPT
        !.tasks = @ \cup Range(ts),
        !.queue = @ \o [i \in DOMAIN ts |-> Msg("TASK", ts[i])]]

\* Mistake: the task stays on the list of the node.
UnassignOnlyNotifies(node, ts) ==
    [node EXCEPT !.queue = @ \o [i \in DOMAIN ts |-> Msg("CANCEL", ts[i])]]

\* Node::UnassignTask for each of a sequence of tasks the node has.
Unassign(node, ts) ==
    [node EXCEPT
        !.tasks = @ \ Range(ts),
        !.queue = @ \o [i \in DOMAIN ts |-> Msg("CANCEL", ts[i])]]

\* get_eligible_nodes_for_task; its result is in the order of an unordered
\* map, so callers choose one of the orders of this set.
Eligible(kind) ==
    {n \in DOMAIN nodes : /\ nodes[n].registered
                          /\ ~nodes[n].broken
                          /\ kind \in nodes[n].gamelist}

\* Loops over the unordered map of tasks that send to several nodes: for
\* each node, any order of the tasks it is told about.
OrderEach(given) ==
    {f \in [DOMAIN given -> UNION {SetToSeqs(given[n]) : n \in DOMAIN given}] :
        \A n \in DOMAIN given : f[n] \in SetToSeqs(given[n])}

\* The first eligible node of each kind when the map of nodes is iterated in
\* the given order, TASK_ID_NONE where no node is eligible.
Firsts(order) ==
    {f \in [Kinds -> NodeId \cup {0}] :
        \A k \in Kinds :
            IF Eligible(k) = {} THEN f[k] = 0
            ELSE /\ f[k] \in Eligible(k)
                 /\ \A i, j \in DOMAIN order :
                        order[i] = f[k] /\ order[j] \in Eligible(k) => i <= j}

--------------------------------------------------------------------------
(* Steps shared by several threads *)

\* State::terminateNode up to the release of mtx_nodes: the socket is shut
\* down and the node erased; its tasks keep their status.  Without the node
\* it returns before balanceTasks.
TerminateNode(n, th) ==
    /\ nodes' = [m \in DOMAIN nodes \ {n} |-> nodes[m]]
    /\ Goto(th, IF n \in DOMAIN nodes THEN "balance" ELSE Resume(th))
    /\ UNCHANGED <<tasks, groups, suspectedBalancing, plan, nextNode, crashed>>

\* balanceTasks: every task nobody has goes to the first node that can run it.
BalanceTasks(th) ==
    /\ pc[th] = "balance"
    /\ \E order \in SetToSeqs(DOMAIN nodes) : \E first \in Firsts(order) :
         LET pending == {t \in DOMAIN tasks :
                            /\ tasks[t].status = "NONE"
                            /\ first[tasks[t].kind] # 0}
             given == [n \in DOMAIN nodes |->
                         {t \in pending : first[tasks[t].kind] = n} \ nodes[n].tasks]
         IN  /\ \E ts \in OrderEach(given) :
                  nodes' = [n \in DOMAIN nodes |-> Assign(nodes[n], ts[n])]
             /\ tasks' = [t \in DOMAIN tasks |->
                            IF t \in pending
                            THEN [tasks[t] EXCEPT !.status = "RUNNING"]
                            ELSE tasks[t]]
    /\ suspectedBalancing' = FALSE
    /\ Goto(th, Resume(th))
    /\ UNCHANGED <<groups, recvMessageQueue, plan, nextNode, crashed>>

--------------------------------------------------------------------------
(* accept: acceptConnections *)

\* A connection is accepted; a balancing is asked for before the node exists.
Accept ==
    /\ pc[Acceptor] = "run"
    /\ nextNode <= MaxNode
    /\ suspectedBalancing' = TRUE
    /\ Goto(Acceptor, "insert")
    /\ UNCHANGED <<nodes, tasks, groups, recvMessageQueue, plan, nextNode, crashed>>

\* The node enters the map and its two threads start.
AcceptInsert ==
    /\ pc[Acceptor] = "insert"
    /\ nodes' = [m \in DOMAIN nodes \cup {nextNode} |->
                    IF m = nextNode THEN FreshNode ELSE nodes[m]]
    /\ nextNode' = nextNode + 1
    /\ pc' = [pc EXCEPT ![Acceptor] = "run",
                        ![Reader(nextNode)] = "run",
                        ![Writer(nextNode)] = "run"]
    /\ UNCHANGED <<tasks, groups, recvMessageQueue, suspectedBalancing, plan, crashed>>

--------------------------------------------------------------------------
(* main: the commands *)

\* command_task up to the release of mtx_nodes: the eligible nodes are copied.
\* With no eligible node the command gives up; zero games are reported as
\* invalid but not refused.
RequestTask(kind, games) ==
    /\ "task" \in Commands
    /\ pc[Main] = "run"
    /\ Len(groups) < MaxGroup
    /\ Len(tasks) + NumParts(games, Cardinality(Eligible(kind))) <= MaxTask
    /\ Eligible(kind) # {}
    /\ \E ids \in SetToSeqs(Eligible(kind)) :
         plan' = [ids |-> ids, kind |-> kind, games |-> games]
    /\ Goto(Main, "create")
    /\ UNCHANGED <<nodes, tasks, groups, recvMessageQueue, suspectedBalancing,
                   nextNode, crashed>>

\* Mistake: the first sub-task is taken for already handed out.
GroupOneShort(n) == [remaining |-> n - 1, aggregate |-> <<>>, status |-> "RUNNING"]

\* TaskGroup of a task divided among n nodes
NewGroup(n) == [remaining |-> n, aggregate |-> <<>>, status |-> "RUNNING"]

\* The sub-tasks of the plan and the id each will get, by its place in ids.
NewTask(g, kind) == [group |-> g, kind |-> kind, status |-> "RUNNING"]
Parts(p) == 1..NumParts(p.games, Len(p.ids))

\* The rest of command_task: one group, and one sub-task per non-empty share,
\* assigned to the node of the copied list.  A node erased in between is
\* looked up with operator[] and yields a null pointer.
CreateGroup ==
    /\ pc[Main] = "create"
    /\ IF \E i \in Parts(plan) : plan.ids[i] \notin DOMAIN nodes
       THEN /\ crashed' = TRUE
            /\ UNCHANGED <<nodes, tasks, groups>>
       ELSE /\ groups' = Append(groups, NewGroup(Len(plan.ids)))
            /\ tasks' = tasks \o [i \in Parts(plan) |->
                                    NewTask(Len(groups) + 1, plan.kind)]
            /\ nodes' = [n \in DOMAIN nodes |->
                            IF \E i \in Parts(plan) : plan.ids[i] = n
                            THEN LET i == CHOOSE i \in Parts(plan) : plan.ids[i] = n
                                 IN  Assign(nodes[n], <<Len(tasks) + i>>)
                            ELSE nodes[n]]
            /\ UNCHANGED crashed
    /\ plan' = NoPlan
    /\ Goto(Main, "run")
    /\ UNCHANGED <<recvMessageQueue, suspectedBalancing, nextNode>>

\* Mistake: the group of the task is not looked at.
VictimsOfAnyGroup(g) == {t \in DOMAIN tasks : tasks[t].status = "RUNNING"}

Victims(g) ==
    {t \in DOMAIN tasks : tasks[t].group = g /\ tasks[t].status = "RUNNING"}

\* command_cancel for a running group; otherwise it only prints a message.
\* The status of the sub-tasks does not change.
CancelGroup(g) ==
    /\ "cancel" \in Commands
    /\ pc[Main] = "run"
    /\ g \in DOMAIN groups
    /\ groups[g].status = "RUNNING"
    /\ groups' = [groups EXCEPT ![g].status = "CANCELLED"]
    /\ LET taken == [n \in DOMAIN nodes |-> Victims(g) \cap nodes[n].tasks]
       IN  \E ts \in OrderEach(taken) :
             nodes' = [n \in DOMAIN nodes |-> Unassign(nodes[n], ts[n])]
    /\ UNCHANGED <<tasks, recvMessageQueue, suspectedBalancing, pc, plan,
                   nextNode, crashed>>

\* command_terminate of a node the operator sees in the list of nodes
CommandTerminate(n) ==
    /\ "terminate" \in Commands
    /\ pc[Main] = "run"
    /\ n \in DOMAIN nodes
    /\ TerminateNode(n, Main)
    /\ UNCHANGED recvMessageQueue

--------------------------------------------------------------------------
(* maintenance: doMaintenance *)

\* The clock passes node_broken_seconds since the last unanswered ping.
\* "answered" stands for response_ts >= request_ts, "awaiting" and "overdue"
\* for response_ts < request_ts before and after the threshold.
Elapse(n) ==
    /\ n \in DOMAIN nodes
    /\ nodes[n].ping = "awaiting"
    /\ nodes' = [nodes EXCEPT ![n].ping = "overdue"]
    /\ UNCHANGED <<tasks, groups, recvMessageQueue, suspectedBalancing, pc,
                   plan, nextNode, crashed>>

\* Mistake: a node is pinged again before it is overdue.
NotOverdue(n) == nodes[n].ping # "overdue"

Answered(n) == nodes[n].ping = "answered"

\* Mistake: no balancing is asked for when a connection is restored.
NothingRestored == {}

Restored == {n \in DOMAIN nodes : Answered(n) /\ nodes[n].broken}

\* Mistake: finished tasks are taken from the node too.
AllTasks(n) == nodes[n].tasks

RunningTasks(n) == {t \in nodes[n].tasks : tasks[t].status = "RUNNING"}

\* One scan: nodes that answered are pinged again (and restored, if they were
\* broken); those newly overdue are broken and lose their running tasks.
Scan ==
    /\ pc[Maintenance] = "run"
    /\ LET lost == {n \in DOMAIN nodes : nodes[n].ping = "overdue" /\ ~nodes[n].broken}
           taken == [n \in lost |-> RunningTasks(n)]
           freed == UNION {taken[n] : n \in lost}
       IN  /\ \E ts \in OrderEach(taken) :
                nodes' = [n \in DOMAIN nodes |->
                    IF Answered(n)
                    THEN Send([nodes[n] EXCEPT !.ping = "awaiting", !.broken = FALSE],
                              Msg("PING", TASK_ID_NONE))
                    ELSE IF n \in lost
                    THEN Unassign([nodes[n] EXCEPT !.broken = TRUE], ts[n])
                    ELSE nodes[n]]
           /\ tasks' = [t \in DOMAIN tasks |->
                          IF t \in freed THEN [tasks[t] EXCEPT !.status = "NONE"]
                                         ELSE tasks[t]]
           /\ suspectedBalancing' =
                (suspectedBalancing \/ Restored # {} \/ freed # {})
    /\ Goto(Maintenance, "check")
    /\ UNCHANGED <<groups, recvMessageQueue, plan, nextNode, crashed>>

\* suspectedBalancing is read after the mutexes are released.
Check ==
    /\ pc[Maintenance] = "check"
    /\ Goto(Maintenance, IF suspectedBalancing THEN "balance" ELSE "run")
    /\ UNCHANGED <<nodes, tasks, groups, recvMessageQueue, suspectedBalancing,
                   plan, nextNode, crashed>>

--------------------------------------------------------------------------
(* handler: handleCoordinatorMessages, one action per type of message *)

\* The handler takes the first message of the queue, if it is of this type.
Take(type) ==
    /\ pc[Handler] = "run"
    /\ recvMessageQueue # <<>>
    /\ Head(recvMessageQueue).type = type
    /\ recvMessageQueue' = Tail(recvMessageQueue)

\* Mistake: a second result of the same task counts again.
CountsAgain(t) == groups[tasks[t].group].status # "DONE"

\* A result counts once per task, and not for a group that is finished.
Counts(t) ==
    /\ tasks[t].status = "RUNNING"
    /\ groups[tasks[t].group].status # "DONE"

\* Mistake: the counter is tested before it is decremented.
MergedLate(group, t) ==
    [remaining |-> group.remaining - 1,
     aggregate |-> Append(group.aggregate, t),
     status |-> IF group.remaining = 0 THEN "DONE" ELSE group.status]

\* The group after the result of t: a group that was cancelled becomes DONE
\* like any other.
Merged(group, t) ==
    [remaining |-> group.remaining - 1,
     aggregate |-> Append(group.aggregate, t),
     status |-> IF group.remaining = 1 THEN "DONE" ELSE group.status]

\* handleResultMessage; it does not ask whether the sender still exists.
HandleResult ==
    LET t == Head(recvMessageQueue).task
    IN  /\ Take("RESULT")
        /\ crashed' = (t \notin DOMAIN tasks)
        /\ IF t \in DOMAIN tasks /\ Counts(t)
           THEN /\ tasks' = [tasks EXCEPT ![t].status = "DONE"]
                /\ groups' = [groups EXCEPT ![tasks[t].group] = Merged(@, t)]
           ELSE UNCHANGED <<tasks, groups>>
        /\ UNCHANGED <<nodes, suspectedBalancing, pc, plan, nextNode>>

\* handleHelloMessage; the node is registered whatever the answer.
HandleHello ==
    LET msg == Head(recvMessageQueue)
        n == msg.from
    IN  /\ Take("HELLO")
        /\ nodes' = IF n \in DOMAIN nodes
                    THEN [nodes EXCEPT ![n] =
                            Send([@ EXCEPT !.registered = TRUE,
                                           !.gamelist = msg.gamelist],
                                 Msg(IF msg.compatible THEN "ACCEPT" ELSE "REJECT",
                                     TASK_ID_NONE))]
                    ELSE nodes
        /\ UNCHANGED <<tasks, groups, suspectedBalancing, pc, plan, nextNode, crashed>>

\* handleNotifyTaskMessage; a running task the coordinator does not know is
\* looked up with operator[] and yields a null pointer.
HandleNotify ==
    LET msg == Head(recvMessageQueue)
        n == msg.from
        known == n \in DOMAIN nodes /\ nodes[n].registered
        lookup == known /\ msg.status = "RUNNING"
    IN  /\ Take("NOTIFY")
        /\ crashed' = (lookup /\ msg.task \notin DOMAIN tasks)
        /\ nodes' = IF known
                    THEN [nodes EXCEPT
                            ![n].ping = "answered",
                            ![n].activeTaskGroup =
                                IF lookup /\ msg.task \in DOMAIN tasks
                                THEN tasks[msg.task].group ELSE TASK_ID_NONE]
                    ELSE nodes
        /\ UNCHANGED <<tasks, groups, suspectedBalancing, pc, plan, nextNode>>

\* A message that does not parse ends the connection.
HandleInvalid ==
    /\ Take("NONE")
    /\ TerminateNode(Head(recvMessageQueue).from, Handler)

--------------------------------------------------------------------------
(* readNode and writeNode *)

\* The reader has decoded a message.
ReadMessage(n, msg) ==
    /\ pc[Reader(n)] = "run"
    /\ recvMessageQueue' = Append(recvMessageQueue, msg)

\* read returns zero or an error: the reader terminates the node and ends.
ReadEof(n) ==
    /\ pc[Reader(n)] = "run"
    /\ TerminateNode(n, Reader(n))
    /\ UNCHANGED recvMessageQueue

\* The writer takes the first message of the queue and writes all of it.
WriteMessage(n) ==
    /\ pc[Writer(n)] = "run"
    /\ n \in DOMAIN nodes
    /\ nodes[n].queue # <<>>
    /\ nodes' = [nodes EXCEPT ![n].queue = Tail(@)]
    /\ UNCHANGED <<tasks, groups, suspectedBalancing, pc, plan, nextNode, crashed>>

\* A write fails: the writer terminates the node and ends.  The writer of a
\* node that was erased has a queue nobody else sees and no step of its own.
WriteFail(n) ==
    /\ pc[Writer(n)] = "run"
    /\ n \in DOMAIN nodes
    /\ nodes[n].queue # <<>>
    /\ TerminateNode(n, Writer(n))
    /\ UNCHANGED recvMessageQueue
==========================================================================
