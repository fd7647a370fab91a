# A TLA+ verification of the Bot Evaluation Machine

The Bot Evaluation Machine (bem) plays large numbers of games between bots. One
*coordinator* (`src/coordinator`) takes commands from an operator, divides the
games among *nodes* (`src/node`) that connect to it over TCP, and merges their
results. Both sides share the message and task types of `src/common`.

This directory holds TLA+ models of the system, the TLC runs that check them on
small instances, and proofs, checked by TLAPS, for every value of the constants.

## 1. The system

### Components

| Component | State | Operations | What makes it correct |
|---|---|---|---|
| Coordinator state (`state.h`, `node.h`, `node.cpp`) | `State::nodes`, `tasks`, `groups`, `recvMessageQueue`, `suspectedBalancing`; per node the flags REGISTERED and CONN_BROKEN, game list, list of tasks, ping timestamps, outgoing queue | `terminateNode`, `AssignTask`, `UnassignTask`, `Send`, `get_eligible_nodes_for_task`, `balanceTasks` | a sub-task is on one list at most; a sub-task thought to run is really on its way |
| Acceptor (`accept.cpp`) | `next_node_id` | accept a connection, insert the node, start its two threads | a new node is considered when tasks are balanced |
| Message handler (`handler.cpp`) | none of its own | result, greeting, notification, message that did not parse | a result counts once, the counter of a group does not wrap, a finished group does not change |
| Maintenance (`maintenance.cpp`) | none of its own | scan every two seconds: ping, restore, declare broken, take tasks away; then balance | one ping at a time; no request to balance is lost |
| Reader and writer of a node (`readNode.cpp`, `writeNode.cpp`) | the node's socket | receive, send, terminate the node when the socket fails | order is kept |
| Commands (`commands.cpp`) | `next_group_id`, `next_task_id` | `task`, `cancel`, `terminate`, `quit`, and four that only print | the split deals the games asked for; `cancel` touches one group |
| Node: instructions (`protocol.cpp`) | `recvMessageQueue`, `sendMessageQueue`, `taskQueue` | register, take a task, answer a ping, obey a cancellation | a cancellation reaches the task it names; a push wakes who waits |
| Node: execution (`execute.cpp`) | `current_task_id`, the result under way | play the games of a task, report or drop it | tasks are done in order, each reported once or dropped; only whole results are sent |
| Node: socket and end (`communication.cpp`, `graceful.cpp`, `main.cpp`) | `should_quit`, `mtx_terminate`, the socket | read, write, `terminate_program`, SIGINT, joins | once `should_quit` is set the process ends |
| Messages (`src/common`) | the bytes received so far (`MessageFactory`) | serialise, deserialise, cut a stream into messages | the stream is cut where it was joined, and nothing waits in the factory |
| Results (`result.h`, `result.cpp`) | six `uint32_t` counters per sub-task and group | score, merge, percentages | every game played is in one column or a draw; no wrap |

### How they interact

* **Shared state.** In the coordinator six kinds of threads (main, acceptor,
  handler, maintenance, and a reader and a writer per node) share one `State`
  under the mutexes `mtx_nodes`, `mtx_tasks`, `mtx_groups`, `mtx_taskBalancing`
  and those of the queues. `suspectedBalancing` and `shouldQuit` are atomics,
  read outside every mutex.
* **Queues.** Readers append to the one `recvMessageQueue`, with the sender's id;
  everybody who has something to say to a node appends to that node's queue, and
  its writer takes from it.
* **Messages.** A node sends HELLO and waits for an answer; then TASK,
  TASK_NOTIFY (ping, cancellation, answer to a ping) and RESULT pass, with no
  acknowledgement and no resend.

### What is hard about it

* a node that is only late loses its sub-tasks, another gets them, and both
  answer;
* cancellations, reassignments and results of one sub-task overtake one another;
* five kinds of threads balance, and two ask for it through one flag that the
  balancing clears;
* `command_task` and `terminateNode` leave a mutex and take it again;
* the counters `remaining_tasks`, the shares of the games and the sums of the
  results at their limits;
* nodes that leave, hang or are not nodes at all;
* inside a node, four threads share three queues and one atomic, and a signal
  may interrupt any of them to end the process;
* a stream is cut into reads of 32 bytes wherever the network likes.

`PROJECT.json` lists each of these hazards at its line, with the properties that
cover it.

## 2. The modules

```
GameSplit      how NUM_GAMES is divided: pure operators
  SplitLoop    the loop of command_task that deals the shares
    Job        + the games of the sub-tasks, their results, merge, percentages
      SplitProofs -> JobProofs
  Coordinator  State and the coordinator's threads
    Cluster    + the processes that connect; properties
      MCCluster            instances for TLC
      CoordinatorProofs -> ClusterProofs -> SafetyProofs -> DeliveryProofs
Ledger         what the coordinator promises (abstract); Cluster refines it
Node           the threads of one node
      NodeProofs
Worker         what a node promises about its work (abstract); Node refines it
Framing        one direction of a connection, byte by byte
      FramingProofs
```

`SplitProofs` is about `SplitLoop`, `JobProofs` extends it for `Job`.
`Coordinator`, `Node` and `Framing` look at the same system at three scales: the
coordinator with nodes seen from outside, one node with a coordinator seen from
outside, and one connection between the two.

### Coordinator

One action is one critical section, or one step between two of them. The
mutexes are not variables: every action holds its mutexes from its first to its
last line, and where the code releases a mutex and takes it again there are two
actions and a label in `pc`:

| Label | Between |
|---|---|
| `pc[Main] = "create"` | the copy of the eligible ids (commands.cpp:159) and their use (commands.cpp:171-205) |
| `pc[Acceptor] = "insert"` | `suspectedBalancing = true` (accept.cpp:71) and the insertion of the node |
| `pc[Maintenance] = "check"` | the release of the scan's mutexes and the test of `suspectedBalancing` (maintenance.cpp:80) |
| `pc[th] = "balance"` | `terminateNode`'s erasure, or the test above, and `balanceTasks` |

| Action | Code |
|---|---|
| `Accept`, `AcceptInsert` | accept.cpp, `acceptConnections` |
| `RequestTask`, `CreateGroup` | commands.cpp, `command_task` |
| `CancelGroup` | commands.cpp, `command_cancel` |
| `CommandTerminate`, `TerminateNode` | commands.cpp, `command_terminate`; state.h, `terminateNode` |
| `Scan`, `Check` | maintenance.cpp, `doMaintenance` |
| `BalanceTasks(th)` | node.cpp, `balanceTasks` |
| `HandleResult`, `HandleHello`, `HandleNotify`, `HandleInvalid` | handler.cpp |
| `ReadMessage`, `ReadEof`, `WriteMessage`, `WriteFail` | readNode.cpp, writeNode.cpp |
| `Elapse(n)` | the clock passes `node_broken_seconds` since the last ping |

What is abstracted:

* *Time.* Only `response_ts >= request_ts` and the comparison with
  `node_broken_seconds` matter: `ping` is `"answered"`, `"awaiting"` or
  `"overdue"`.
* *Order of unordered maps.* Where the order is visible (who is first eligible,
  in which order messages are queued) every order is a choice; where it is not
  (the order of `Node::tasks`) a set is used.
* *Ids.* Tasks and groups are numbered from 1 without gaps, so they are
  sequences; 0 is `TASK_ID_NONE`. `operator[]` of a missing id yields a null
  pointer that is then dereferenced; in the model this sets `crashed`, after
  which nothing happens.
* *Kinds.* A game and two agents are one value; a game list is a set of kinds.
* *Reading.* A read that fails and the message it might have completed are left
  to `Framing`.

### Cluster

A node is seen from outside: it greets, gets an answer to the greeting or gives
up, executes its tasks in order, answers pings and obeys cancellations. Two
races between its own threads that are visible outside are choices in
`ReceivePing` (`"torn"`) and `ReceiveCancel` (`"lateCancel"`), switched by the
constant `Races`. `Node` has the same two races between steps of its threads;
there the comparison and the assignment of a cancellation are two steps, and a
task remains current for a moment after its result was queued, which `Cluster`
leaves out.

A message counts as on the wire while it is in the queue in front of the wire:
the writer's step and the node's reaction are one action, `Deliver`, and the
node's sending and the reader's step are one action as well. Both ways are first
in, first out and nothing else reads them, so a delay on the wire is a delay of
that step, with one exception: a result that is on the wire when the connection
breaks is lost in the code. In the model the process may leave before it sends.

`PeerLeave` is a node that terminates (or whose connection the coordinator shut
down), `PeerHang` one that stops while its connection stays open, `PeerStray` a
client that sends something that does not parse.

### Ledger

The abstract specification: a group is opened with the sub-tasks it owes and the
empty slots counted in; each sub-task is settled at most once; the group is DONE
at the moment nothing is owed and no slot is empty; a DONE group never changes;
a running group may be cancelled. `Cluster` refines it under the mapping of
`Account`, which has an `Entry` per group: owed are the sub-tasks not DONE,
settled those in the aggregate, empty what the counter has beyond the owed.

### Node

One process: `main` (register, then obey instructions), `exec` (execute tasks),
`reader` and `writer`, all in one `pc`, with `recvQueue`, `sendQueue` and
`taskQueue` between them. One action is one access to what the threads share, a
queue under its mutex or an atomic:

| Actions | Code |
|---|---|
| `Hesitate`, `Sleep` | `cv.wait` of receive_message, of execute_tasks_in_loop and of write_to_server_in_loop: the predicate is false, and then the thread sleeps |
| `Register`, `GiveUp`, `NullMessage` | protocol.cpp, `register_to_coordinator`; main.cpp:56-60 |
| `TakeTask`, `PrepareReply`, `SendReply`, `CompareCancelled`, `ClearCancelled`, `LeaveLoop` | protocol.cpp, `wait_for_instructions_in_loop` |
| `PopTask`, `Start`, `PlayGame`, `EndGames`, `AbandonTask`, `DropTask`, `PassToReport`, `SendResult`, `ClearDone` | execute.cpp, `execute_tasks_in_loop`, `execute_task` |
| `PopMessage`, `Write`, `WriteFails`, `BrokenPipe` | communication.cpp, `write_to_server_in_loop` |
| `Receive`, `StopReading` | communication.cpp, `read_from_server_in_loop` |
| `Lock`, `SetQuit`, `NotifyAll`, `AlreadyQuit` | graceful.cpp, `terminate_program`, of each of its callers |
| `Sigint(th)` | the signal interrupts thread `th`, which stands still until the handler returns |
| `Join` | main.cpp:63-65 |

The gap between the test of a wait and the sleep is a step because
`terminate_program` does not take the mutexes of the queues. A push does: while a
thread is in the gap, nobody can push to its queue (`Free`). `played` and `cut`
are the games of the task and whether one was cut short or left out; what the
games yield belongs to `Job`. The variable `missed` (history) records that one of
the two ways to hang has happened: a notification fell into the gap, or the
handler interrupted the holder of `mtx_terminate`.

Of the coordinator it is assumed that it answers a greeting once and after it
was written, assigns a task it has not assigned already or has cancelled since,
and pings at any time.

### Worker

The abstract specification of a node: tasks are taken, and the oldest one that
is left is reported or dropped. `Node` refines it: `todo` is the task in
execution, until its result is queued or `current_task_id` is cleared, and the
queue behind it.

### Job

The games of one group, from NUM_GAMES to the numbers the operator reads.
`SplitLoop` deals the shares; `PlayGame(k)` is one turn of the loop of
`execute_task` for sub-task `k`, with any outcome that the parsing of the
launcher's output can yield (`Outcomes`) and the counters it increments
(`Scored`); `Report(k)` merges a finished result into the aggregate, modulo
2^32. That a result is merged once is the business of `Coordinator`
(`CountedOnce`), that it is whole that of `Node` (`ResultsWhole`).

### Framing

One direction of a connection. `direction` says which, and with it what is sent
and by which writer:

| | `"toNode"` | `"toCoordinator"` |
|---|---|---|
| what is sent (`Send`) | `CoordinatorSays`: one greeting, with anything before and behind it | `NodeSays`: the greeting first, nothing else until it was received, then anything but tasks |
| a short write | `WriteOn`: the loop goes on with the rest (writeNode.cpp:22-32) | `WriteOnce`: the rest is never sent, the next message follows (communication.cpp:100-111) |

A message is its type and the position where it ends in the stream; after a short
write of a node it ends where that write ended. `Whole(i)` says that all bytes of
message `i` are sent or will be, `Unbroken(i)` that this is so of all up to `i`. The
reader's `Read(n)` takes any number of bytes; `LearnSize`, `Interpret` and
`HandOver` are the turns of the loop of `MessageFactory::Fill` and what the reader
does after it.

Behind a cut message the factory may take bytes of a body for a header. Such a
header is any type with any length of `GarbageSizes`, a length below the header's
among them (`InvalidMessage`, and `Fill` returns from the middle of its loop with
`messageSize` as it is). `Interpret` takes out of the buffer what the `Deserialize`
of that type takes, whatever length the header gives; for a greeting that is all
there is. It throws where `ByteBuffer` throws; where it depends on the bytes
whether the BSON parser does, both are possible. `made` holds, for each message
the factory has made, the number of the message sent that it is, or 0 if it never
was one.

## 3. The runs

| Run | Instance | Properties |
|---|---|---|
| `job` | 0..24 games, 1..7 nodes; groups of up to 5 games are played with every outcome; counters modulo 256 | `PartsArePrefix`, `Loss`, `Balanced`, `NothingLost`, `PercentagesFit` |
| `late` | two registered nodes, one of which may be unable to play; one task; one late answer; nodes leave; late-cancel race | `CountedOnce`, `RemainingCovers`, `SoleOwner`, `NoStaleReply`, `TaskOnItsWay`, `ResultsAreFinal` |
| `groups` | from the empty coordinator: one connection, both versions, strays, all commands, two groups of 0 or 1 games, one late answer, hang, both races | `TypeOK`, `RemainingCovers`, `OwnerKept`, `LostOnlyLate`, `KeepsBooks` |
| `live` | from the empty coordinator: two nodes, one group of two sub-tasks, one late answer, fair scheduling | `GroupsFinish`, `PendingPlaced` |
| `framing` | both directions, four messages, fair scheduling | `TypeOK`, `Delivered`, `NoneHeldBack`, `ExceptionCause`, `AllArrive` |
| `node` | two tasks of one game, three messages, both answers to the greeting, SIGINT and a lost connection, fair scheduling | `TypeOK`, `ResultsWhole`, `NoneForgotten`, `WorksInOrder`, `QuitEnds`, `AllHandled` |
| `orphans`, `new_node`, `stale_plan`, `node_cancel`, `node_quit`, `hello_tail` | small instances | one property each, which the code violates (section 5) |

What the properties say:

* `PartsArePrefix`: the loop over the shares deals a sub-task to the first
  `NumParts` nodes and to no other. `Coordinator` uses this closed form.
  `Loss`: how many games the split loses, exactly.
* `CountedOnce`: the aggregate of a group has the result of every finished
  sub-task, once, although a late node and its replacement both answer.
* `RemainingCovers`: the counter never falls below the sub-tasks still to come,
  and the group is DONE exactly at zero.
* `SoleOwner`: a sub-task is on at most one node's list, and on none while it
  waits to be assigned.
* `NoStaleReply`: when an answer is taken for the answer to the last ping, there
  is no older answer in any queue.
* `TaskOnItsWay`: a sub-task the coordinator believes to run on a live node is
  in the node's queue, at the node, or in a result not yet handled; an old
  cancellation never catches a new assignment. `late` shows it for the
  cancellations of the scans, with the race `"lateCancel"`. Where that race meets the
  command `cancel` it does not hold (finding 4), and `LostOnlyLate` says, in
  `groups`, how much of it is left: a step after which such a sub-task is nowhere
  delivers the cancellation of another sub-task, of a group that runs no more, to a
  node that has just finished that one. Nothing else loses a sub-task.
* `ResultsAreFinal`, `OwnerKept`: what a step may not do to a finished sub-task
  or group, and for which reasons a sub-task may leave a node's list.
* `KeepsBooks`: `Cluster` implements `Ledger`.
* `GroupsFinish`: while nobody's connection ends, a running group ends.
  `PendingPlaced`: a free sub-task is assigned again; a request to balance is
  not lost between those who set the flag and those who clear it.
* `Balanced`: a failed game is not won, a timeout comes with a win of the other
  agent, in every result and through every merge. `NothingLost`: when all
  sub-tasks have reported, every game that was dealt is in the aggregate, in one
  column or a draw. `PercentagesFit`: the two percentages never sum to more than
  100, as long as `win_agent1 * 100` fits.
* `Delivered`: however the stream is cut into reads, the factory makes the
  messages that were sent, in order, up to the first one the node's writer has
  cut; behind it, whatever it makes of the bytes, it makes no message twice and
  none before an earlier one. `NoneHeldBack`: no whole message waits in it for
  bytes of a later one. `AllArrive`: all arrive that are not cut or behind a cut
  one, unless an exception ends the process. `ExceptionCause`: that happens for two
  reasons only, a cut message (to the coordinator), or bytes behind the greeting in
  the buffer (to the node).
* `ResultsWhole`: a result that is sent has all the games of its task.
  `WorksInOrder`: `Node` implements `Worker`.
* `NoneForgotten`: a thread that waits, or is about to, although it has something
  to do: then `should_quit` came, and the thread that set it is about to notify
  and can go on, unless one of the two ways to hang was taken. A push never leaves
  anybody waiting.
* `QuitEnds`: once `should_quit` is set the process ends, unless one of the two
  ways to hang was taken; there is no third. `AllHandled`: if the process does
  not end first, everything in the queues is dealt with, so no push fails to wake
  the thread that waits.

### Bounds, and why they are enough

* `MaxNode` (2): a sub-task needs a node it leaves and one it goes to. Ids are
  never reused, so a node that returns is another node. `groups` has one node,
  whose messages may still be queued when it is gone.
* `MaxTask` (2), `MaxGroup` (1 or 2): two sub-tasks of one group to move, to
  finish in either order and to race a cancellation; two groups where a
  property relates one group to another (`OwnerKept`, `KeepsBooks`).
* `MaxLate` (1): each late answer makes a sub-task move once. One suffices for
  the double answer, and one move back to a restored node. Answers of hung nodes
  are late without bound.
* `GameCounts`: 2 games on two nodes have no empty share, 1 and 0 have.
* `late` starts from `ReadyInit`, in which all nodes have greeted and
  nothing was pinged. It is reachable from `Init`; `NotReady` of `MCCluster`,
  its negation, is violated when it is checked as an invariant. `groups` and
  `live` cover the way there.
* `job`: 24 games on 7 nodes have every remainder and every number of empty
  shares. With counters modulo 256 the product with 100 wraps at three games, so
  that `PercentagesFit` is tried on both sides of its condition; the sums cannot
  wrap, as in the code, because no more games are dealt than NUM_GAMES, which is
  a `uint32_t` itself (`JobAssumption`).
* `framing`: the sizes are the real ones divided by about 5.3, rounded (header 9
  bytes, notification 14, result 37, a greeting without games 43, task 49, a read
  32, are 2, 3, 7, 8, 9 and 6): a read holds two notifications, and no other
  message fits in one read. Four messages of any type have every neighbourhood of
  three. The lengths read from bytes that are no header are 0 and 1 (below the
  header's), 4 (shorter than most messages) and 30 (more than is ever sent behind
  it, so that the factory waits for ever).
* `node`: two tasks, so that one waits while the other is played, dropped or
  reported; three messages after any interleaving (an answer, a task and a
  second task, cancellation or ping); one game, which may be played, cut short
  or left out. One SIGINT. `node_cancel` needs four messages: an answer, two
  tasks, a cancellation.
* `CHECK_DEADLOCK FALSE` in all: the operator may give no more commands, the
  process of a node ends, and the bounds end everything else.

The proofs below do not depend on any of these bounds.

## 4. Fairness

`FairSpec` assumes weak fairness of the handler, of the acceptor's insertion, of
the second phase of `command_task`, of the scan, of the test after it, of each
thread's balancing, and per node of the greeting, of finishing a task, of a
delivery, of noticing a dead connection and of the passing of time. Each is a
thread that, once its condition holds, waits for nothing but a mutex that others
hold for a bounded time, or, for a node, a game that ends and a socket that is
read. Weak fairness is enough because no other thread can withdraw what makes
such a step possible for ever. Nothing forces a connection, a command, a leave,
a hang or a stray.

The handler is one fair thread, not one per type of message: it takes messages
in the order of the queue.

`GroupsFinish` and `PendingPlaced` are conditional on `Calm`, no connection ends
and nothing crashes, because with a node that leaves the code fails
(`orphans`). The `live` instance has neither hung nodes nor empty shares: a hung
node is never restored and its sub-tasks need another node, and a group with
empty shares never ends (hazard at commands.cpp:192).

`FairSpec` of `Node` assumes weak fairness of each thread and of the signal
handler once it runs: a thread waits for nothing but a condition variable or
`mtx_terminate`, a game ends, and a write is accepted. Nothing makes the
coordinator send, the connection end or the operator press Ctrl-C. The fairness
of the reader is that of its end (`StopReading`): it is not assumed that a message
comes. `FairSpec` of `Framing` assumes weak fairness of the writing, of the reading
and of the factory: the peer's socket buffer empties, and a read returns when
there are bytes. Nothing makes the sender send.

## 5. Where the code and its documentation disagree

Each is a run that TLC finds violated; the counterexample is the scenario.

1. **Sub-tasks of an erased node are orphaned** (`orphans`). `terminateNode`
   leaves their status TS_RUNNING, `balanceTasks` looks only at TS_NONE
   (state.h:55, node.cpp:95).
2. **A new node is not considered** (`new_node`). The request to balance is set
   before the node exists; balancing may clear it before the node has greeted,
   and the greeting does not set it again (accept.cpp:71, handler.cpp:46-66).
3. **Null pointer in `command_task`** (`stale_plan`). A node of the copied list
   may be erased before the list is used (commands.cpp:159-203).
4. **A cancellation drops the wrong task** (`node_cancel`). `current_task_id` is
   compared and cleared in two accesses; in between the cancelled task may end and
   the next one start, which is then dropped (protocol.cpp:110-112). If it is of
   another group, the coordinator goes on believing that it runs, and since the node
   answers its pings nothing ever takes it away: the instance of `groups` violates
   `TaskOnItsWay`. `LostOnlyLate` says that this is the only way.
5. **A node does not end** (`node_quit`). The notifications of `terminate_program`
   fall between a thread's test and its wait, or SIGINT interrupts the thread
   that holds `mtx_terminate` (graceful.cpp:10-28, 32-35). `QuitEnds` says that
   these are the only ways.
6. **A message behind a greeting ends the process** (`hello_tail`). The greeting
   takes all the bytes of the buffer, and the BSON parser throws at what follows
   the document; the coordinator's first ping may be there
   (helloMessage.cpp:44-48).

Three more are stated by properties that hold, because what the code does can be
said exactly:

* **Games are lost in the split.** The help text promises NUM_GAMES battles
  (commands.cpp:28-29) and a comment says that the first share is rounded up
  "because otherwise we lose one game" (commands.cpp:174), but 5 games on 3 nodes
  are dealt as 2 + 1 + 1. `Loss` says how many are lost: one less than the
  remainder.
* **A short write of a node garbles the stream.** The node's writer never sends the
  rest of a message that one `write` has not taken (communication.cpp:100-111), as
  the coordinator's does (writeNode.cpp:22-32). The next message completes the cut
  one, and what is behind is taken for headers, although the repository's
  README.md:14 says that the bytes are deserialised to the right messages. `Delivered`,
  `ExceptionCause` and `AllArrive` say what is left of the promises then.
* **A cancelled group may become DONE.** Its sub-tasks stay TS_RUNNING, so results
  under way still count (handler.cpp:17-31). `Ledger` allows it; `KeepsBooks` says
  that the books are right all the same.

## 6. The proofs

The proofs are about `Spec` of `Cluster`, of `Node` and of `Framing`, `SplitSpec`
of `SplitLoop` and `JobSpec` of `Job`, under the assumptions the modules state on
their constants (`BoundsAssumption`, `PeerAssumption`, `SplitBounds`,
`JobAssumption`, `NodeAssumption`, `FramingSizes`: bounds and sizes are natural
numbers, the switches are among those named, NUM_GAMES is below the modulus, and
0 is no task's id). `Kinds` and `GameLists` are arbitrary.

| Theorem | States | Module |
|---|---|---|
| `TypeCorrect` | `Spec => []TypeOK` | ClusterProofs |
| `BaseHolds` | `Spec => []Base`, the inductive invariant | ClusterProofs |
| `OneOwner` | `Spec => []SoleOwner` | SafetyProofs |
| `EachResultOnce` | `Spec => []CountedOnce` | SafetyProofs |
| `RemainingIsEnough` | `Spec => []RemainingCovers` | SafetyProofs |
| `FinishedStays` | `Spec => ResultsAreFinal` | SafetyProofs |
| `IdsGivenOnce` | `Spec => []Numbered`: ids of nodes are given out once | SafetyProofs |
| `OwnerKeptAlways` | `Spec => OwnerKept` | SafetyProofs |
| `CoordinatorKeepsBooks` | `Spec => KeepsBooks`: `Cluster` refines `Ledger` | SafetyProofs |
| `NoAnswerIsStale` | `Spec => []NoStaleReply` | DeliveryProofs |
| `LostToCancelOnly` | `Spec => LostOnlyLate` | DeliveryProofs |
| `NoTaskIsLost` | `Spec => []TaskOnItsWay`, if `"lateCancel" \notin Races` or `"cancel" \notin Commands` | DeliveryProofs |
| `PrefixAlways`, `LossExactly` | `PartsArePrefix`, `Loss` | SplitProofs |
| `BalancedAlways`, `NothingIsLost`, `PercentagesAlwaysFit` | `Balanced`, `NothingLost`, `PercentagesFit` | JobProofs |
| `NodeTypes`, `OnlyWholeResults` | `TypeOK`, `ResultsWhole` | NodeProofs |
| `NobodyIsForgotten` | `Spec => []NoneForgotten` | NodeProofs |
| `NodeIsWorker` | `Spec => WorksInOrder`: `Node` refines `Worker` | NodeProofs |
| `FramingTypes`, `DeliveredAlways`, `NoneIsHeldBack` | `TypeOK`, `Delivered`, `NoneHeldBack` | FramingProofs |
| `ExceptionsExplained` | `Spec => []ExceptionCause` | FramingProofs |

**The inductive invariant.** `TypeOK` is not inductive: `HandleResult` indexes
`groups` with the group of a task, and decrements a counter that must not be
zero; `Scan` reads the status of the tasks on a node's list; `CreateGroup` uses
a plan made in an earlier step. `Linked` (CoordinatorProofs) adds what these
steps rely on: every group and task that is looked up without a test exists; a
group is DONE exactly when its counter is zero; while main is in the second
phase, its plan is a non-empty list of different nodes; while the acceptor
inserts, ids are left. `Base == TypeOK /\ Linked` is inductive; ClusterProofs has
a lemma per action. CoordinatorProofs has the lemmas about the operators
(`OrderEach` lists each set exactly; `Assign`, `Unassign` and `Send` keep the
shape of a node and change its tasks as they say) and, per large action, what it
does to the tasks and the lists, so that later proofs never open the orderings.

**Safety.** `StepKinds` shows that only five kinds of steps touch tasks, groups
or lists in a way that matters; all others keep what a node has, or drop the
node. `OneOwner` then goes through the five. For the counting theorems
`CountingSteps` reduces them to two: `CreateGroup`, whose new group has a counter
of `Len(plan.ids)`, at least the number of parts (`NumPartsBound`), and a
`HandleResult` that counts, which moves one task from undone to the aggregate and
takes one from the counter. `Counts` requires the task to be running, so it is
not in the aggregate yet; this is where a second answer stops.

**Ids.** `OwnerKept` compares what a node has before and after a step, so it
needs that a new node is not an old one. `Numbered` says that everything that has
to do with a node, its entry, its reader and its messages, bears an id below the
next one. It is an invariant of all three together: a reader passes its id to a
message, and a message to what the handler does.

**The books.** `StepBooks` maps every step to a step of `Ledger` or a stutter:
`CreateOpens` (new sub-tasks, and the nodes of the plan without a share as empty
slots), `ResultSettles` (by `CountedOnce` the sub-task is not settled yet; by
`RemainingCovers` the group is DONE exactly when it was the last one owed and no
slot is empty) and `CancelCancels`. `PlanFits` is the one addition: the plan that
main carries from the first to the second phase of `command_task` fits in the
ids that are left, whatever happens in between.

**Pings.** `NoStaleReply` counts the pings and answers of a node. `OnePing` says
it by places: at most one ping in the queue to the node, at most one answer in the
queue to the handler, never both, and none of either once `ping` is `"answered"`.
`PingStep` lists what a step may do about it: nothing, send a ping when none is
under way, turn the ping into an answer, take the answer, or lose one of them. A
node that is erased may leave its answer behind; by `Numbered` no later node has
its id.

**Sub-tasks on their way.** `TaskOnItsWay` is not inductive: a sub-task may be
cancelled on a node and assigned to it again before the cancellation is read.
`OnItsWay` adds the order: a running sub-task of a live node is *safe*, which means
that the order to play it stands behind every cancellation it has to fear
(`Fatal`), or that its result is on its way, or that no such cancellation is. To be
feared are its own cancellations and, with the race `"lateCancel"`, those of other
sub-tasks, except of groups that run no more: those are what `LostOnlyLate` allows.
`StoppedStays` says that there are never more to fear than before, because no
group runs again. `Grows` describes what the coordinator adds to a queue without
opening the orderings: the old messages keep their places and the new ones, known
as a set, come behind. Every step `Keeps` a sub-task safe, and held unless it is
`Dropped` with another group (`KeepsSafe`), or orders it anew (`OrderSecures`), or it
is no longer believed to run; that the handler's taking of its result ends the
latter is `RunningCounts`, from `RemainingCovers`. That a scan's cancellations do no
harm to others is part of this: a scan takes from a node everything it runs.
`LostToCancelOnly` has no assumption on races or commands; where there is no such
race or no `cancel`, `TaskOnItsWay` follows by induction (`NoTaskIsLost`).

**The split.** `SplitInv` says what has been dealt and how many games that is
after `i - 1` iterations; `Shares` and `SharesNotEmpty` are the arithmetic of
rounded division.

**Results.** The invariant `JobInv` says that every result and the aggregate add up
(`AddsUp`), that nothing is merged before the split is over, and that the games of
the sub-tasks not yet merged (`Unreported`) and those of the aggregate are together
the games dealt. Games dealt are at most NUM_GAMES (`DealtBound`, from `SplitInv`
and `SplitLoses`), which is below the modulus, so an addition never wraps
(`MergeAdds`). `QuotientsSum` is the arithmetic of the percentages.

**The node.** `Inv` of NodeProofs adds three facts to `TypeOK` and `ResultsWhole`: a
thread inside `terminate_program` does nothing else; `exec` has a task during a
turn; and the games are cut off only when `exec` will find the reason again and
not send the result (`Careful`), because nothing but `exec` sets `current_task_id`
to an id and nothing resets `should_quit`. `StepWork` maps each action to `Take`,
`Report`, `Drop` or a stutter of `Worker`; dropping is the step that clears
`current_task_id` while the games are played, or `AbandonTask` after `should_quit`;
`DropTask` itself comes later and is a stutter.

**Waiting threads.** For `NoneForgotten` the invariant `Held` is added: who is
between the lock and the unlock of `mtx_terminate` holds it, and no handler has
interrupted it there unless that was recorded as a miss. A step of the other kinds
is `Harmless`: it sends nobody to sleep and gives nobody who sleeps something to
do, since a push finds its waiter neither in the gap (the mutex) nor, afterwards,
asleep (the notification). So the first to leave `terminate_program` has woken
every thread that sleeps, and those in the gap are the missed ones. What remains
of `QuitEnds` and `AllHandled` is fairness.

**Framing.** `Aligned` is the heart of it: as long as none of the messages made so
far was cut, the buffer starts where the message after them starts, and the size
the factory remembers is that message's. It holds even though a greeting takes
what follows it, since then the parser throws before the buffer moves. `Ordered`
says that messages end where the next ones start, also when they were cut;
`Drained` that no whole message is in the buffer while the reader waits; `Passed`
that the messages made lie before the buffer, which is why none is made twice
behind a cut one, where `Aligned` says nothing any more; `Alone` that a node's
greeting is alone in the stream until it was handed over, so that in that direction
only a cut message leaves the factory with an exception.

**Only model-checked:** `GroupsFinish`, `PendingPlaced`, `QuitEnds`, `AllHandled`
and `AllArrive`, because liveness under fairness is outside what TLAPS proves. All
other properties of passing runs are theorems.

## 7. Not modelled, and the plan

Left to do, in this order:

1. **Proof** of the safety part of `PendingPlaced`, as `NoneForgotten` is that of
   `QuitEnds` and `AllHandled`: a sub-task is free only while a request to balance
   is pending, or since the last balancing no node that can take it was there. It
   has to except the nodes that greet after the request their connection made
   (finding 2), and so needs a history variable.
2. **Cluster from Worker**: a version of `Cluster` whose nodes are instances of
   `Node` itself; its state space is out of TLC's reach, so the peer of `Cluster`
   is written by hand and the two differ as section 2 says.

Not modelled:

* `quit` of the coordinator and its joins (main.cpp:66-75): the acceptor stays in
  `accept` and the handler in a wait that does not look at `shouldQuit`, so the
  joins never return; a model would only restate it.
* The mutexes of the coordinator one by one. They are taken in one order
  everywhere, which was read off the code; the access to the map that holds
  none (accept.cpp:63) is a listed hazard.
* Clients that are not nodes, but for `PeerStray`, which sends something that does
  not parse; a greeting with a broken BSON document would leave the coordinator's
  reader with an exception, as in `Framing`.
* Short writes outside `Framing`: `Write` of `Node` and the deliveries of `Cluster`
  pass messages whole.
* That Ctrl-C also reaches the game a node is playing, whose launcher is a child in
  the same foreground group. The game then counts as failed, and if it was the last
  one and the handler comes late, its result is still sent. `Node` does not tell
  how a game ended; in `Job` a failed game is one of the outcomes.
* The configuration files (read once, constants of the models), the printing
  commands, the strings of `prepare_command`, the checks of the game files at the
  start, the launcher scripts in `src/games` and the build files.
* The JSON library `src/common/src/json.hpp`: third-party code, and nine tenths of
  all lines of the repository. Only its refusal of trailing bytes is in `Framing`.

`PROJECT.json` lists every component with its status.

## 8. Running it

```
tlc -workers 2 -config Late.cfg MCCluster.tla     # likewise Groups, Live, Orphans, NewNode, StalePlan
tlc -workers 2 -config Job.cfg Job.tla
tlc -workers 2 -config Node.cfg Node.tla          # likewise NodeCancel, NodeQuit
tlc -workers 2 -config Framing.cfg Framing.tla    # likewise HelloTail
tlapm CoordinatorProofs.tla                       # then ClusterProofs, SafetyProofs, DeliveryProofs,
                                                  # SplitProofs, JobProofs, NodeProofs, FramingProofs
```

Definitions under a comment that starts with "Mistake" are plausible bugs of the
definition that follows them. They are used by no specification; replacing the
definition by its mistake makes TLC violate the property that `PROJECT.json`
names with it.
