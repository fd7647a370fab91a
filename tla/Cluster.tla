----------------------------- MODULE Cluster -----------------------------
(***************************************************************************)
(* The coordinator together with the processes that connect to it.  A node *)
(* is seen from outside: it greets, executes its queue of tasks one after  *)
(* the other, answers notifications, and may leave, hang or not be a node  *)
(* at all.  What its own threads do inside is collected in the choices of  *)
(* Receive.  A message counts as on the wire while it is in the queue      *)
(* before the wire: both ways are first in, first out, nothing else reads  *)
(* them, and a delay of the wire is a delay of the step that takes the     *)
(* message out of that queue.                                              *)
(***************************************************************************)
EXTENDS Coordinator

CONSTANTS
    GameLists,  \* the game lists nodes are configured with
    Versions,   \* whether a node speaks the coordinator's protocol version
    Faults,     \* what may happen to a peer: "leave", "hang", "stray"
    Races,      \* races inside a node: "torn", "lateCancel"
    MaxLate     \* bound: answers of live nodes that come after the threshold

ASSUME PeerAssumption ==
    /\ GameLists \subseteq SUBSET Kinds
    /\ Versions \subseteq BOOLEAN
    /\ Faults \subseteq {"leave", "hang", "stray"}
    /\ Races \subseteq {"torn", "lateCancel"}
    /\ MaxLate \in Nat

VARIABLES
    peer,       \* what the process behind each connection is doing
    taskQueue,  \* its tasks: the one being executed first, then State::taskQueue
    lates       \* late answers so far

peerVars == <<peer, taskQueue, lates>>
vars == <<nodes, tasks, groups, recvMessageQueue, suspectedBalancing, pc,
          plan, nextNode, crashed, peer, taskQueue, lates>>

PeerState == {"connected", "greeting", "ready", "gone", "hung"}

Init ==
    /\ CoordInit
    /\ peer = [n \in NodeId |-> "connected"]
    /\ taskQueue = [n \in NodeId |-> <<>>]
    /\ lates = 0

Result(n, t) == [from |-> n, type |-> "RESULT", task |-> t]
Hello(n, gl, v) ==
    [from |-> n, type |-> "HELLO", gamelist |-> gl, compatible |-> v]
Notify(n, t, status) ==
    [from |-> n, type |-> "NOTIFY", task |-> t, status |-> status]
Invalid(n) == [from |-> n, type |-> "NONE"]

--------------------------------------------------------------------------
(* What a node sends of its own accord *)

\* register_to_coordinator sends HELLO and waits for the answer.
PeerHello(n) ==
    /\ peer[n] = "connected"
    /\ \E gl \in GameLists, v \in Versions : ReadMessage(n, Hello(n, gl, v))
    /\ peer' = [peer EXCEPT ![n] = "greeting"]
    /\ UNCHANGED <<nodes, tasks, groups, suspectedBalancing, pc, plan,
                   nextNode, crashed, taskQueue, lates>>

\* execute_tasks_in_loop finishes the current task and sends its result.
PeerFinish(n) ==
    /\ peer[n] = "ready"
    /\ taskQueue[n] # <<>>
    /\ ReadMessage(n, Result(n, Head(taskQueue[n])))
    /\ taskQueue' = [taskQueue EXCEPT ![n] = Tail(@)]
    /\ UNCHANGED <<nodes, tasks, groups, suspectedBalancing, pc, plan,
                   nextNode, crashed, peer, lates>>

\* The node terminates, by SIGINT or because its connection was shut down.
PeerLeave(n) ==
    /\ "leave" \in Faults \/ n \notin DOMAIN nodes
    /\ peer[n] \in {"greeting", "ready"}
    /\ peer' = [peer EXCEPT ![n] = "gone"]
    /\ UNCHANGED coordVars
    /\ UNCHANGED <<taskQueue, lates>>

\* The node stops answering and its connection stays open.
PeerHang(n) ==
    /\ "hang" \in Faults
    /\ peer[n] = "ready"
    /\ peer' = [peer EXCEPT ![n] = "hung"]
    /\ UNCHANGED coordVars
    /\ UNCHANGED <<taskQueue, lates>>

\* The other end is not a node; what it sends does not parse.
PeerStray(n) ==
    /\ "stray" \in Faults
    /\ peer[n] = "connected"
    /\ ReadMessage(n, Invalid(n))
    /\ peer' = [peer EXCEPT ![n] = "hung"]
    /\ UNCHANGED <<nodes, tasks, groups, suspectedBalancing, pc, plan,
                   nextNode, crashed, taskQueue, lates>>

--------------------------------------------------------------------------
(* What a node does with a message *)

\* register_to_coordinator: the first message must be the answer to HELLO.
ReceiveGreeting(n, msg) ==
    /\ peer[n] = "greeting"
    /\ peer' = [peer EXCEPT ![n] = IF msg.type = "ACCEPT" THEN "ready" ELSE "gone"]
    /\ UNCHANGED <<recvMessageQueue, taskQueue>>

ReceiveTask(n, msg) ==
    /\ peer[n] = "ready"
    /\ msg.type = "TASK"
    /\ taskQueue' = [taskQueue EXCEPT ![n] = Append(@, msg.task)]
    /\ UNCHANGED <<recvMessageQueue, peer>>

\* TS_QUESTION: the current task, or none while the executing thread is
\* between two tasks.  current_task_id is read twice: if a task starts in
\* between, the reply says RUNNING with no task.  Left out is a task that is
\* still named after its result was queued: that changes activeTaskGroup only,
\* which nothing but the list of nodes reads.
ReceivePing(n, msg) ==
    /\ peer[n] = "ready"
    /\ msg.type = "PING"
    /\ \/ ReadMessage(n, Notify(n, TASK_ID_NONE, "NONE"))
       \/ /\ taskQueue[n] # <<>>
          /\ ReadMessage(n, Notify(n, Head(taskQueue[n]), "RUNNING"))
       \/ /\ "torn" \in Races
          /\ taskQueue[n] # <<>>
          /\ ReadMessage(n, Notify(n, TASK_ID_NONE, "RUNNING"))
    /\ UNCHANGED <<peer, taskQueue>>

\* TS_CANCELLED: the current task is dropped; a task that is only queued, or
\* has just been finished, is not.  current_task_id is tested and then
\* cleared: if the task finishes in between and the next one starts, it is
\* the next one that is dropped.
ReceiveCancel(n, msg) ==
    /\ peer[n] = "ready"
    /\ msg.type = "CANCEL"
    /\ \/ /\ taskQueue[n] # <<>>
          /\ Head(taskQueue[n]) = msg.task
          /\ taskQueue' = [taskQueue EXCEPT ![n] = Tail(@)]
          /\ UNCHANGED recvMessageQueue
       \/ UNCHANGED <<taskQueue, recvMessageQueue>>
       \/ /\ "lateCancel" \in Races
          /\ Len(taskQueue[n]) > 1
          /\ Head(taskQueue[n]) = msg.task
          /\ taskQueue' = [taskQueue EXCEPT ![n] = Tail(Tail(@))]
          /\ ReadMessage(n, Result(n, msg.task))
    /\ UNCHANGED peer

\* Written into the socket of a peer that does not read it.
Discard(n) ==
    /\ peer[n] \in {"gone", "hung"}
    /\ UNCHANGED <<recvMessageQueue, peer, taskQueue>>

\* The writer writes a message and the other end acts on it.
Deliver(n) ==
    /\ WriteMessage(n)
    /\ LET msg == Head(nodes[n].queue)
       IN  \/ ReceiveGreeting(n, msg)
           \/ ReceiveTask(n, msg)
           \/ ReceivePing(n, msg)
           \/ ReceiveCancel(n, msg)
           \/ Discard(n)
    /\ UNCHANGED lates

\* The socket of a peer that is gone ends the threads of its node.
ConnectionLost(n) ==
    /\ \/ ReadEof(n) /\ (peer[n] = "gone" \/ n \notin DOMAIN nodes)
       \/ WriteFail(n) /\ peer[n] = "gone"
    /\ UNCHANGED peerVars

--------------------------------------------------------------------------
Late(n) ==
    /\ Elapse(n)
    /\ IF peer[n] = "hung" THEN UNCHANGED lates
       ELSE lates < MaxLate /\ lates' = lates + 1
    /\ UNCHANGED <<peer, taskQueue>>

Operator ==
    /\ \/ \E kind \in Kinds, games \in GameCounts : RequestTask(kind, games)
       \/ \E g \in DOMAIN groups : CancelGroup(g)
       \/ \E n \in NodeId : CommandTerminate(n)
    /\ UNCHANGED peerVars

\* The steps the coordinator's threads take without waiting for anybody.
HandlerStep ==
    /\ HandleResult \/ HandleHello \/ HandleNotify \/ HandleInvalid
    /\ UNCHANGED peerVars
AcceptorStep == (Accept \/ AcceptInsert) /\ UNCHANGED peerVars
CreateStep == CreateGroup /\ UNCHANGED peerVars
ScanStep == Scan /\ UNCHANGED peerVars
CheckStep == Check /\ UNCHANGED peerVars
BalanceStep(th) == BalanceTasks(th) /\ UNCHANGED peerVars

PeerStep(n) ==
    \/ PeerHello(n) \/ PeerFinish(n) \/ PeerLeave(n) \/ PeerHang(n)
    \/ PeerStray(n)

Next ==
    /\ ~crashed
    /\ \/ Operator \/ CreateStep
       \/ AcceptorStep
       \/ HandlerStep
       \/ ScanStep \/ CheckStep
       \/ \E th \in Thread : BalanceStep(th)
       \/ \E n \in NodeId : PeerStep(n) \/ Deliver(n) \/ ConnectionLost(n) \/ Late(n)

Spec == Init /\ [][Next]_vars

(* Fairness: every thread of the coordinator that can take a step does,     *)
(* a live node greets, finishes its games and reads its socket, and time    *)
(* passes.  Nothing forces a connection, a command or a fault to happen.    *)
Running == ~crashed
Fairness ==
    /\ WF_vars(Running /\ HandlerStep)
    /\ WF_vars(Running /\ AcceptInsert /\ UNCHANGED peerVars)
    /\ WF_vars(Running /\ CreateStep)
    /\ WF_vars(Running /\ ScanStep)
    /\ WF_vars(Running /\ CheckStep)
    /\ \A th \in Thread : WF_vars(Running /\ BalanceStep(th))
    /\ \A n \in NodeId :
         /\ WF_vars(Running /\ PeerHello(n))
         /\ WF_vars(Running /\ PeerFinish(n))
         /\ WF_vars(Running /\ Deliver(n))
         /\ WF_vars(Running /\ ConnectionLost(n))
         /\ WF_vars(Running /\ Late(n))
FairSpec == Spec /\ Fairness

--------------------------------------------------------------------------
(* Types *)

Outgoing ==
    [type : {"TASK", "CANCEL"}, task : TaskId]
    \cup [type : {"PING", "ACCEPT", "REJECT"}, task : {TASK_ID_NONE}]

Incoming ==
    [from : NodeId, type : {"RESULT"}, task : TaskId]
    \cup [from : NodeId, type : {"HELLO"}, gamelist : SUBSET Kinds, compatible : BOOLEAN]
    \cup [from : NodeId, type : {"NOTIFY"}, task : TaskId \cup {TASK_ID_NONE},
          status : {"RUNNING", "NONE"}]
    \cup [from : NodeId, type : {"NONE"}]

NodeRecord ==
    [registered : BOOLEAN, broken : BOOLEAN, gamelist : SUBSET Kinds,
     tasks : SUBSET TaskId, activeTaskGroup : GroupId \cup {TASK_ID_NONE},
     ping : {"answered", "awaiting", "overdue"}, queue : Seq(Outgoing)]

TaskRecord == [group : GroupId, kind : Kinds, status : {"NONE", "RUNNING", "DONE"}]

GroupRecord == [remaining : Nat, aggregate : Seq(TaskId),
                status : {"RUNNING", "CANCELLED", "DONE"}]

Plan == [ids : Seq(NodeId), kind : Kinds, games : Nat]

(* The shape of the state.  remaining_tasks is a uint32_t: that it never     *)
(* wraps below zero is part of the type.                                    *)
TypeOK ==
    /\ DOMAIN nodes \subseteq NodeId
    /\ nodes \in [DOMAIN nodes -> NodeRecord]
    /\ tasks \in Seq(TaskRecord)
    /\ groups \in Seq(GroupRecord)
    /\ recvMessageQueue \in Seq(Incoming)
    /\ suspectedBalancing \in BOOLEAN
    /\ pc \in [Thread -> {"off", "run", "balance", "create", "insert", "check"}]
    /\ plan \in Plan \cup {NoPlan}
    /\ nextNode \in 1..MaxNode + 1
    /\ crashed \in BOOLEAN
    /\ peer \in [NodeId -> PeerState]
    /\ taskQueue \in [NodeId -> Seq(TaskId)]
    /\ lates \in Nat

--------------------------------------------------------------------------
(* Safety *)

TasksOf(g) == {t \in DOMAIN tasks : tasks[t].group = g}
Undone(g) == {t \in TasksOf(g) : tasks[t].status # "DONE"}

(* The aggregate of a group holds the result of every finished sub-task and  *)
(* of each of them once, however often a sub-task was taken away from a     *)
(* node that was only late, given to another, and answered by both          *)
(* (handler.cpp:17-33, maintenance.cpp:52-62).                              *)
CountedOnce ==
    \A g \in DOMAIN groups :
        /\ IsInjective(groups[g].aggregate)
        /\ Range(groups[g].aggregate) = TasksOf(g) \ Undone(g)

(* remaining_tasks is never less than the sub-tasks still to come, so that   *)
(* it does not wrap, and a group is DONE exactly when it has reached zero,   *)
(* with no sub-task outstanding (handler.cpp:20-32, commands.cpp:183-185).   *)
RemainingCovers ==
    \A g \in DOMAIN groups :
        /\ groups[g].remaining >= Cardinality(Undone(g))
        /\ (groups[g].status = "DONE") <=> (groups[g].remaining = 0)

(* A sub-task is on the list of at most one node, and on none while it waits *)
(* to be assigned, whatever the interleaving of the maintenance thread, the  *)
(* command thread and the threads of the nodes that each balance             *)
(* (node.cpp:15-49, maintenance.cpp:45-62, commands.cpp:85-94).              *)
Owners(t) == {n \in DOMAIN nodes : t \in nodes[n].tasks}
SoleOwner ==
    \A t \in DOMAIN tasks :
        /\ \A m, n \in Owners(t) : m = n
        /\ tasks[t].status = "NONE" => Owners(t) = {}

(* One ping at a time: when the coordinator takes a node's answer for the    *)
(* answer to its last ping there is no older answer it could be, in no queue *)
(* (maintenance.cpp:21-29, handler.cpp:82, protocol.cpp:96-108).             *)
Outstanding(n) ==
    {i \in DOMAIN nodes[n].queue : nodes[n].queue[i].type = "PING"}
        \X {"sent"}
    \cup {i \in DOMAIN recvMessageQueue :
            recvMessageQueue[i].type = "NOTIFY" /\ recvMessageQueue[i].from = n}
        \X {"answered"}
NoStaleReply ==
    \A n \in DOMAIN nodes :
        Cardinality(Outstanding(n)) <=
            (IF nodes[n].ping = "answered" THEN 0 ELSE 1)

(* A sub-task the coordinator believes to run on a live node is really there *)
(* or on its way: in the node's message queue, among the node's tasks, or in *)
(* a result not handled yet. A cancellation sent earlier for the same        *)
(* sub-task must not catch the assignment that follows it                    *)
(* (maintenance.cpp:47-62, node.cpp:101-102, protocol.cpp:109-117). Where    *)
(* the command cancel meets the race "lateCancel" this is not so;            *)
(* LostOnlyLate says what is.                                                *)
Believed(n, t) ==
    /\ peer[n] \notin {"gone", "hung"}
    /\ t \in nodes[n].tasks
    /\ tasks[t].status = "RUNNING"
Holds(n, t) ==
    \/ Msg("TASK", t) \in Range(nodes[n].queue)
    \/ t \in Range(taskQueue[n])
    \/ Result(n, t) \in Range(recvMessageQueue)
TaskOnItsWay ==
    \A n \in DOMAIN nodes : \A t \in nodes[n].tasks : Believed(n, t) => Holds(n, t)

--------------------------------------------------------------------------
(* What a step may never do *)

(* A sub-task that a live node is believed to run is lost in one way only:   *)
(* the node finishes another sub-task, of a group the operator has           *)
(* cancelled, just when its cancellation arrives, and the one it starts next *)
(* is dropped instead. Scans, balancing, restored nodes, late answers and    *)
(* cancellations that come in time lose none (protocol.cpp:109-117,          *)
(* execute.cpp:46-50, commands.cpp:83-94, maintenance.cpp:52-62,             *)
(* node.cpp:101-102).                                                        *)
Stopped(s) ==
    /\ "cancel" \in Commands
    /\ s \in DOMAIN tasks
    /\ groups[tasks[s].group].status # "RUNNING"
DroppedFor(s, n) ==
    /\ "lateCancel" \in Races
    /\ nodes[n].queue # <<>>
    /\ Head(nodes[n].queue) = Msg("CANCEL", s)
    /\ recvMessageQueue' = Append(recvMessageQueue, Result(n, s))
LostOnlyLate ==
    [][\A n \in DOMAIN nodes' : \A t \in nodes'[n].tasks :
         Believed(n, t)' /\ ~Holds(n, t)' =>
           /\ n \in DOMAIN nodes
           /\ Believed(n, t)
           /\ ~Holds(n, t) \/ \E s \in DOMAIN tasks \ {t} : Stopped(s) /\ DroppedFor(s, n)]_vars

(* A result that was reported stays as it was: a finished sub-task is never  *)
(* run again and a finished group never changes (handler.cpp:17-21,          *)
(* maintenance.cpp:53, node.cpp:95).                                         *)
ResultsAreFinal ==
    [][/\ \A t \in DOMAIN tasks : tasks[t].status = "DONE" => tasks'[t] = tasks[t]
       /\ \A g \in DOMAIN groups : groups[g].status = "DONE" => groups'[g] = groups[g]
      ]_vars

(* A running sub-task leaves its node in three ways only: the node is        *)
(* erased, the sub-task becomes free to be assigned again, or its group was  *)
(* cancelled in that very step (maintenance.cpp:52-62, commands.cpp:83-94).  *)
OwnerKept ==
    [][\A n \in DOMAIN nodes \cap DOMAIN nodes' :
        \A t \in nodes[n].tasks \ nodes'[n].tasks :
            \/ tasks'[t].status = "NONE"
            \/ groups[tasks[t].group].status = "RUNNING"
               /\ groups'[tasks[t].group].status = "CANCELLED"
      ]_vars

(* What the books of Ledger say of a group.                                  *)
Entry(g) ==
    [owed |-> Undone(g),
     settled |-> Range(groups[g].aggregate),
     empty |-> groups[g].remaining - Cardinality(Undone(g)),
     status |-> groups[g].status]
Account == [g \in DOMAIN groups |-> Entry(g)]
Books == INSTANCE Ledger WITH
    SubTasks <- 1..MaxTask, MaxSlots <- MaxNode, account <- Account

(* The coordinator keeps the books of Ledger: whatever is lost, repeated or  *)
(* late on the way, a sub-task is settled once, a group is DONE exactly when *)
(* nothing is owed to it, and then never changes (handler.cpp:12-35,         *)
(* commands.cpp:82-83, commands.cpp:183-205).                                *)
KeepsBooks == Books!LedgerSpec

--------------------------------------------------------------------------
(* Liveness *)

(* No connection ends and nothing crashes.                                   *)
Calm == ~crashed /\ \A n \in NodeId : peer[n] # "gone"

(* While the nodes stay, a running group is finished or cancelled in the     *)
(* end, even if nodes are late and their sub-tasks move                      *)
(* (commands.cpp:27-29, maintenance.cpp:14-87, node.cpp:79-113).             *)
GroupRunning(g) == g \in DOMAIN groups /\ groups[g].status = "RUNNING"
GroupsFinish ==
    []Calm => \A g \in 1..MaxGroup : GroupRunning(g) ~> ~GroupRunning(g)

(* While the nodes stay, a sub-task that has been taken from a node is given *)
(* to one again: the request to balance is not lost between the threads that *)
(* set suspectedBalancing and those that clear it (node.cpp:81-108,          *)
(* maintenance.cpp:64-82, accept.cpp:70-72).                                 *)
Pending(t) == t \in DOMAIN tasks /\ tasks[t].status = "NONE"
PendingPlaced ==
    []Calm => \A t \in 1..MaxTask : Pending(t) ~> ~Pending(t)
--------------------------------------------------------------------------
(* What the documentation and the comments say and the code does not do     *)

Placed(t) == Owners(t) # {} \/ \E n \in NodeId : Result(n, t) \in Range(recvMessageQueue)

(* balanceTasks is there to find new nodes for the sub-tasks of a connection *)
(* that broke (node.cpp:81-84), and terminateNode calls it after erasing a   *)
(* node (state.h:54-59): once it has, every sub-task a running group waits   *)
(* for is on the list of a node, if any node could take it.                  *)
NoOrphan ==
    (\A th \in Thread : pc[th] # "balance") =>
        \A t \in DOMAIN tasks :
            /\ tasks[t].status = "RUNNING"
            /\ GroupRunning(tasks[t].group)
            /\ Eligible(tasks[t].kind) # {}
                => Placed(t)

(* The tasks are balanced when a new node registers (node.cpp:81-84): a      *)
(* sub-task does not wait for ever while a registered node could take it.    *)
NewNodeTakesPending ==
    []Calm => \A t \in 1..MaxTask :
        ~<>[](Pending(t) /\ Eligible(tasks[t].kind) # {})

(* The command task creates a task (commands.cpp:27-29); it does not end the *)
(* coordinator.                                                              *)
NoCrash == ~crashed
==========================================================================
