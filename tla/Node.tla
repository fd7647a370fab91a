-------------------------------- MODULE Node --------------------------------
(***************************************************************************)
(* The process of a node (src/node): its four threads, the three queues    *)
(* between them with their condition variables, the atomics                *)
(* current_task_id and should_quit, and the end of the process.            *)
(***************************************************************************)
EXTENDS Integers, Sequences, FiniteSets

CONSTANTS Tasks,        \* the ids of the tasks the coordinator may assign
          Games,        \* the games of a task
          MaxMessages,  \* bound on the messages of the coordinator
          Answers,      \* the answers to the greeting, of HELLO's flags
          Ends          \* what may end the process: "sigint", "lost"

ASSUME NodeAssumption ==
    /\ 0 \notin Tasks
    /\ Games \in Nat
    /\ MaxMessages \in Nat
    /\ Answers \subseteq {"ACCEPT", "REJECT"}
    /\ Ends \subseteq {"sigint", "lost"}

NONE == 0  \* TASK_ID_NONE

Threads == {"main", "exec", "reader", "writer"}

\* The threads that wait for a condition variable, each for one of its own.
Waiters == {"main", "exec", "writer"}

VARIABLES
    recvQueue, sendQueue, taskQueue,
    current,      \* current_task_id
    quit,         \* should_quit
    pc,           \* where each thread is
    terminating,  \* how far each thread is in terminate_program
    mutex,        \* who holds mtx_terminate
    victim,       \* the thread the handler of SIGINT interrupts
    shut,         \* the socket is shut down
    lost,         \* the connection is lost
    dead,         \* the process has ended by a signal
    phase,        \* of main: "greeting", "working", "leaving"
    asked,        \* of main: the task_id of the reply it prepares
    task,         \* of exec: the task it executes
    played,       \* of exec: result.games
    cut,          \* of exec: a game was cut off, or left out
    greeted,      \* the greeting was written to the socket
    answered,     \* of the coordinator: it has answered the greeting
    assigned,     \* of the coordinator: what it has assigned to this node
    arrived,      \* how many of its messages were read (history)
    results,      \* the results sent, with their completeness (history)
    taken,        \* the tasks main has put in the queue (history)
    cancelled,    \* the ids main has seen a cancellation of (history)
    dropped,      \* the ids exec has dropped (history)
    missed        \* a wake-up was lost or the handler blocked (history)

queues == <<recvQueue, sendQueue, taskQueue>>
ending == <<quit, terminating, mutex, victim, shut, missed>>
execution == <<task, played, cut, results, dropped>>
messages == <<greeted, answered, assigned, arrived, taken, cancelled>>
vars == <<queues, current, ending, pc, lost, dead, phase, asked, execution, messages>>

Hello(flag) == [type |-> "HELLO", flag |-> flag]
Assignment(t) == [type |-> "TASK", task |-> t]
Ping == [type |-> "TASK_NOTIFY", status |-> "QUESTION", task |-> NONE]
Cancellation(t) == [type |-> "TASK_NOTIFY", status |-> "CANCELLED", task |-> t]
Reply(t, status) == [type |-> "TASK_NOTIFY", status |-> status, task |-> t]
Result(t) == [type |-> "RESULT", task |-> t]

Init ==
    /\ recvQueue = <<>> /\ taskQueue = <<>>
    /\ sendQueue = <<[type |-> "HELLO", flag |-> "NONE"]>>
    /\ current = NONE /\ quit = FALSE
    /\ pc = [th \in Threads |-> IF th = "reader" THEN "read" ELSE "test"]
    /\ terminating = [th \in Threads \union {"handler"} |-> "out"]
    /\ mutex = "nobody" /\ victim = "nobody"
    /\ shut = FALSE /\ lost = FALSE /\ dead = FALSE
    /\ phase = "greeting" /\ asked = NONE
    /\ task = NONE /\ played = 0 /\ cut = FALSE
    /\ greeted = FALSE /\ answered = FALSE /\ assigned = {} /\ arrived = 0
    /\ results = <<>> /\ taken = <<>> /\ cancelled = {} /\ dropped = {} /\ missed = FALSE

--------------------------------------------------------------------------
\* Threads, queues and condition variables.

\* A thread runs while the process does and no handler has interrupted it.
Runs(th) == ~dead /\ victim # th

\* What a thread waits for (the predicates of the waits).
Ready(th) ==
    \/ quit
    \/ th = "main" /\ recvQueue # <<>>
    \/ th = "exec" /\ taskQueue # <<>>
    \/ th = "writer" /\ sendQueue # <<>>

\* Mistake, for testing the properties: a push does not take the mutex.
FreeAlways(th) == TRUE

\* A thread in the gap has found its predicate false and holds the mutex of
\* its queue until it sleeps: nobody can push to the queue meanwhile.
Free(th) == pc[th] # "gap"

\* Mistake, for testing the properties: a push does not notify.
Unwoken(th) == pc

\* notify_one after a push: the one waiter tests its predicate again.
Woken(th) == IF pc[th] = "asleep" THEN [pc EXCEPT ![th] = "test"] ELSE pc

\* cv.wait: the predicate is false.
Hesitate(th) ==
    /\ Runs(th)
    /\ pc[th] = "test"
    /\ ~Ready(th)
    /\ pc' = [pc EXCEPT ![th] = "gap"]
    /\ UNCHANGED <<queues, current, ending, lost, dead, phase, asked, execution, messages>>

Sleep(th) ==
    /\ Runs(th)
    /\ pc[th] = "gap"
    /\ pc' = [pc EXCEPT ![th] = "asleep"]
    /\ UNCHANGED <<queues, current, ending, lost, dead, phase, asked, execution, messages>>

--------------------------------------------------------------------------
\* terminate_program, called by each thread at its end, by main after a
\* failed registration, and by the handler of SIGINT in whatever thread the
\* signal interrupts.

\* The thread whose execution a call belongs to.
Caller(th) == IF th = "handler" THEN ~dead ELSE Runs(th)

Lock(th) ==
    /\ Caller(th)
    /\ terminating[th] = "lock"
    /\ mutex = "nobody"
    /\ mutex' = th
    /\ terminating' = [terminating EXCEPT ![th] = "locked"]
    /\ UNCHANGED <<queues, current, quit, victim, shut, missed, pc, lost, dead,
                   phase, asked, execution, messages>>

SetQuit(th) ==
    /\ Caller(th)
    /\ terminating[th] = "locked"
    /\ ~quit
    /\ quit' = TRUE
    /\ terminating' = [terminating EXCEPT ![th] = "notify"]
    /\ UNCHANGED <<queues, current, mutex, victim, shut, missed, pc, lost, dead,
                   phase, asked, execution, messages>>

\* Where a thread goes on after terminate_program.
AfterTerminate(th) ==
    CASE th = "main" -> IF phase = "greeting" THEN "test" ELSE "join"
      [] OTHER -> "end"

\* Return from terminate_program; awake are the threads it has woken.
Return(th, awake) ==
    /\ mutex' = "nobody"
    /\ terminating' = [terminating EXCEPT ![th] = IF th = "handler" THEN "done" ELSE "out"]
    /\ pc' = [p \in Threads |-> IF p = th THEN AfterTerminate(th)
                                ELSE IF p \in awake THEN "test" ELSE pc[p]]
    /\ victim' = IF th = "handler" THEN "nobody" ELSE victim
    /\ phase' = IF th = "main" /\ phase = "greeting" THEN "working" ELSE phase

\* Mistake, for testing the properties: the writer is not notified.
SleepersButWriter == {th \in {"main", "exec"} : pc[th] = "asleep"}

Sleepers == {th \in Waiters : pc[th] = "asleep"}

\* The queues' mutexes are not held: a thread in the gap is not woken.
NotifyAll(th) ==
    /\ Caller(th)
    /\ terminating[th] = "notify"
    /\ Return(th, Sleepers)
    /\ shut' = TRUE
    /\ missed' = (missed \/ \E p \in Waiters : pc[p] = "gap")
    /\ UNCHANGED <<queues, current, quit, lost, dead, asked, execution, messages>>

AlreadyQuit(th) ==
    /\ Caller(th)
    /\ terminating[th] = "locked"
    /\ quit
    /\ Return(th, {})
    /\ UNCHANGED <<queues, current, quit, shut, missed, lost, dead, asked,
                   execution, messages>>

Terminate(th) == Lock(th) \/ SetQuit(th) \/ NotifyAll(th) \/ AlreadyQuit(th)

\* SIGINT interrupts any thread of the process, in whatever it does (once: the
\* bound of the model).
Sigint(th) ==
    /\ "sigint" \in Ends
    /\ ~dead
    /\ terminating["handler"] = "out"
    /\ pc[th] # "end" /\ pc["main"] # "end"
    /\ victim' = th
    /\ terminating' = [terminating EXCEPT !["handler"] = "lock"]
    /\ missed' = (missed \/ mutex = th)
    /\ UNCHANGED <<queues, current, quit, mutex, shut, pc, lost, dead, phase,
                   asked, execution, messages>>

--------------------------------------------------------------------------
\* A thread enters terminate_program.
Enter(th) ==
    /\ pc' = [pc EXCEPT ![th] = "terminate"]
    /\ terminating' = [terminating EXCEPT ![th] = "lock"]
    /\ UNCHANGED <<quit, mutex, victim, shut, missed>>

\* exec and writer find should_quit set.
Break(th) ==
    /\ Runs(th)
    /\ pc[th] = "test"
    /\ quit
    /\ Enter(th)
    /\ UNCHANGED <<queues, current, lost, dead, phase, asked, execution, messages>>

--------------------------------------------------------------------------
\* main: register_to_coordinator and wait_for_instructions_in_loop.

\* The node terminates during the registration: receive_message returns a null
\* pointer, and GetType is called on it.
NullMessage ==
    /\ Runs("main")
    /\ pc["main"] = "test"
    /\ quit
    /\ phase = "greeting"
    /\ dead' = TRUE
    /\ UNCHANGED <<queues, current, ending, pc, lost, phase, asked, execution, messages>>

LeaveLoop ==
    /\ Runs("main")
    /\ pc["main"] = "test"
    /\ quit
    /\ phase = "working"
    /\ phase' = "leaving"
    /\ Enter("main")
    /\ UNCHANGED <<queues, current, lost, dead, asked, execution, messages>>

\* receive_message returns the oldest message.
Received(m) ==
    /\ Runs("main")
    /\ pc["main"] = "test"
    /\ ~quit
    /\ recvQueue # <<>>
    /\ m = Head(recvQueue)
    /\ recvQueue' = Tail(recvQueue)

Accepted(m) == m.type = "HELLO" /\ m.flag = "ACCEPT"

Register ==
    /\ phase = "greeting"
    /\ recvQueue # <<>>
    /\ Received(Head(recvQueue))
    /\ Accepted(Head(recvQueue))
    /\ phase' = "working"
    /\ UNCHANGED <<sendQueue, taskQueue, current, ending, pc, lost, dead, asked,
                   execution, messages>>

GiveUp ==
    /\ phase = "greeting"
    /\ recvQueue # <<>>
    /\ Received(Head(recvQueue))
    /\ ~Accepted(Head(recvQueue))
    /\ Enter("main")
    /\ UNCHANGED <<sendQueue, taskQueue, current, lost, dead, phase, asked,
                   execution, messages>>

TakeTask ==
    /\ phase = "working"
    /\ Free("exec")
    /\ \E t \in Tasks :
        /\ Received(Assignment(t))
        /\ taskQueue' = Append(taskQueue, t)
        /\ taken' = Append(taken, t)
    /\ pc' = Woken("exec")
    /\ UNCHANGED <<sendQueue, current, ending, lost, dead, phase, asked, execution,
                   greeted, answered, assigned, arrived, cancelled>>

\* The reply to a ping reads current_task_id twice.
PrepareReply ==
    /\ phase = "working"
    /\ Received(Ping)
    /\ asked' = current
    /\ pc' = [pc EXCEPT !["main"] = "reply"]
    /\ UNCHANGED <<sendQueue, taskQueue, current, ending, lost, dead, phase,
                   execution, messages>>

SendReply ==
    /\ Runs("main")
    /\ pc["main"] = "reply"
    /\ Free("writer")
    /\ LET status == IF current = NONE THEN "NONE" ELSE "RUNNING"
       IN  sendQueue' = Append(sendQueue, Reply(asked, status))
    /\ asked' = NONE
    /\ pc' = [Woken("writer") EXCEPT !["main"] = "test"]
    /\ UNCHANGED <<recvQueue, taskQueue, current, ending, lost, dead, phase, execution,
                   messages>>

\* A cancellation is for the task in execution or for nobody; the comparison
\* and the assignment are two accesses of current_task_id.
CompareCancelled ==
    /\ phase = "working"
    /\ \E t \in Tasks :
        /\ Received(Cancellation(t))
        /\ cancelled' = cancelled \union {t}
        /\ pc' = [pc EXCEPT !["main"] = IF t = current THEN "clear" ELSE "test"]
    /\ UNCHANGED <<sendQueue, taskQueue, current, ending, lost, dead, phase, asked,
                   execution, greeted, answered, assigned, arrived, taken>>

ClearCancelled ==
    /\ Runs("main")
    /\ pc["main"] = "clear"
    /\ current' = NONE
    /\ pc' = [pc EXCEPT !["main"] = "test"]
    /\ UNCHANGED <<queues, ending, lost, dead, phase, asked, execution, messages>>

Join ==
    /\ Runs("main")
    /\ pc["main"] = "join"
    /\ \A th \in Threads \ {"main"} : pc[th] = "end"
    /\ pc' = [pc EXCEPT !["main"] = "end"]
    /\ UNCHANGED <<queues, current, ending, lost, dead, phase, asked, execution, messages>>

Main ==
    \/ NullMessage \/ LeaveLoop \/ Register \/ GiveUp \/ TakeTask \/ PrepareReply
    \/ SendReply \/ CompareCancelled \/ ClearCancelled \/ Join

--------------------------------------------------------------------------
\* exec: execute_tasks_in_loop and execute_task.

PopTask ==
    /\ Runs("exec")
    /\ pc["exec"] = "test"
    /\ ~quit
    /\ taskQueue # <<>>
    /\ task' = Head(taskQueue)
    /\ taskQueue' = Tail(taskQueue)
    /\ pc' = [pc EXCEPT !["exec"] = "start"]
    /\ UNCHANGED <<recvQueue, sendQueue, current, ending, lost, dead, phase, asked,
                   played, cut, results, dropped, messages>>

Start ==
    /\ Runs("exec")
    /\ pc["exec"] = "start"
    /\ current' = task
    /\ pc' = [pc EXCEPT !["exec"] = "play"]
    /\ UNCHANGED <<queues, ending, lost, dead, phase, asked, execution, messages>>

\* The locals of one turn of the loop are gone.
NextTurn ==
    /\ task' = NONE
    /\ played' = 0
    /\ cut' = FALSE
    /\ pc' = [pc EXCEPT !["exec"] = "test"]

\* What ends the games of a task early.
Stopped == quit \/ current = NONE

\* Mistake, for testing the properties: one game too many.
PlayOneMore ==
    /\ Runs("exec")
    /\ pc["exec"] = "play"
    /\ played <= Games
    /\ ~cut
    /\ played' = played + 1
    /\ cut' = Stopped
    /\ UNCHANGED <<queues, current, ending, pc, lost, dead, phase, asked, task,
                   results, dropped, messages>>

\* A game ends, or the loop of launch_subprocess is left and it counts as
\* failed.
PlayGame ==
    /\ Runs("exec")
    /\ pc["exec"] = "play"
    /\ played < Games
    /\ ~cut
    /\ played' = played + 1
    /\ cut' = Stopped
    /\ UNCHANGED <<queues, current, ending, pc, lost, dead, phase, asked, task,
                   results, dropped, messages>>

EndGames ==
    /\ Runs("exec")
    /\ pc["exec"] = "play"
    /\ played = Games \/ Stopped
    /\ cut' = (cut \/ played < Games)
    /\ pc' = [pc EXCEPT !["exec"] = "ended"]
    /\ UNCHANGED <<queues, current, ending, lost, dead, phase, asked, task, played,
                   results, dropped, messages>>

AbandonTask ==
    /\ Runs("exec")
    /\ pc["exec"] = "ended"
    /\ quit
    /\ Enter("exec")
    /\ UNCHANGED <<queues, current, lost, dead, phase, asked, execution, messages>>

DropTask ==
    /\ Runs("exec")
    /\ pc["exec"] = "ended"
    /\ ~quit
    /\ current = NONE
    /\ dropped' = dropped \union {task}
    /\ NextTurn
    /\ UNCHANGED <<queues, current, ending, lost, dead, phase, asked, results, messages>>

\* Mistake, for testing the properties: should_quit is not tested again.
PassToReportAnyway ==
    /\ Runs("exec")
    /\ pc["exec"] = "ended"
    /\ current # NONE
    /\ pc' = [pc EXCEPT !["exec"] = "report"]
    /\ UNCHANGED <<queues, current, ending, lost, dead, phase, asked, execution, messages>>

\* Mistake, for testing the properties: a cancelled task's result is sent.
PassCancelled ==
    /\ Runs("exec")
    /\ pc["exec"] = "ended"
    /\ ~quit
    /\ pc' = [pc EXCEPT !["exec"] = "report"]
    /\ UNCHANGED <<queues, current, ending, lost, dead, phase, asked, execution, messages>>

\* The result will be sent, whatever happens to current_task_id now.
PassToReport ==
    /\ Runs("exec")
    /\ pc["exec"] = "ended"
    /\ ~quit
    /\ current # NONE
    /\ pc' = [pc EXCEPT !["exec"] = "report"]
    /\ UNCHANGED <<queues, current, ending, lost, dead, phase, asked, execution, messages>>

SendResult ==
    /\ Runs("exec")
    /\ pc["exec"] = "report"
    /\ Free("writer")
    /\ sendQueue' = Append(sendQueue, Result(task))
    /\ results' = Append(results, [task |-> task, whole |-> ~cut])
    /\ pc' = [Woken("writer") EXCEPT !["exec"] = "done"]
    /\ UNCHANGED <<recvQueue, taskQueue, current, ending, lost, dead, phase, asked,
                   task, played, cut, dropped, messages>>

ClearDone ==
    /\ Runs("exec")
    /\ pc["exec"] = "done"
    /\ current' = NONE
    /\ NextTurn
    /\ UNCHANGED <<queues, ending, lost, dead, phase, asked, results, dropped, messages>>

Exec ==
    \/ Break("exec") \/ PopTask \/ Start \/ PlayGame \/ EndGames \/ AbandonTask
    \/ DropTask \/ PassToReport \/ SendResult \/ ClearDone

--------------------------------------------------------------------------
\* writer: write_to_server_in_loop.  The message in its hands stays at the head
\* of the model's queue until it is written.

PopMessage ==
    /\ Runs("writer")
    /\ pc["writer"] = "test"
    /\ ~quit
    /\ sendQueue # <<>>
    /\ pc' = [pc EXCEPT !["writer"] = "write"]
    /\ UNCHANGED <<queues, current, ending, lost, dead, phase, asked, execution, messages>>

Write ==
    /\ Runs("writer")
    /\ pc["writer"] = "write"
    /\ ~shut
    /\ sendQueue' = Tail(sendQueue)
    /\ greeted' = TRUE
    /\ pc' = [pc EXCEPT !["writer"] = "test"]
    /\ UNCHANGED <<recvQueue, taskQueue, current, ending, lost, dead, phase, asked,
                   execution, answered, assigned, arrived, taken, cancelled>>

WriteFails ==
    /\ Runs("writer")
    /\ pc["writer"] = "write"
    /\ lost
    /\ ~shut
    /\ sendQueue' = Tail(sendQueue)
    /\ Enter("writer")
    /\ UNCHANGED <<recvQueue, taskQueue, current, lost, dead, phase, asked,
                   execution, messages>>

\* A node does not ignore SIGPIPE: a write to a socket that is shut down, or
\* that the peer has closed, ends the process.
BrokenPipe ==
    /\ Runs("writer")
    /\ pc["writer"] = "write"
    /\ shut \/ lost
    /\ dead' = TRUE
    /\ UNCHANGED <<queues, current, ending, pc, lost, phase, asked, execution, messages>>

Writer == Break("writer") \/ PopMessage \/ Write \/ WriteFails \/ BrokenPipe

--------------------------------------------------------------------------
\* reader: read_from_server_in_loop, and what the coordinator may send.

FromCoordinator ==
    {Ping}
    \union {Hello(flag) : flag \in {f \in Answers : greeted /\ ~answered}}
    \union {Assignment(t) : t \in {u \in Tasks : answered /\ u \notin assigned}}
    \union {Cancellation(t) : t \in assigned}

\* A message is complete: it goes to main's queue.
Receive(m) ==
    /\ Runs("reader")
    /\ pc["reader"] = "read"
    /\ ~shut /\ ~lost
    /\ Free("main")
    /\ arrived < MaxMessages
    /\ arrived' = arrived + 1
    /\ recvQueue' = Append(recvQueue, m)
    /\ answered' = (answered \/ m.type = "HELLO")
    /\ assigned' = {t \in Tasks : m = Assignment(t) \/ (t \in assigned /\ m # Cancellation(t))}
    /\ pc' = Woken("main")
    /\ UNCHANGED <<sendQueue, taskQueue, current, ending, lost, dead, phase, asked,
                   execution, greeted, taken, cancelled>>

\* read fails or returns nothing, or should_quit is found set.
StopReading ==
    /\ Runs("reader")
    /\ pc["reader"] = "read"
    /\ quit \/ shut \/ lost
    /\ Enter("reader")
    /\ UNCHANGED <<queues, current, lost, dead, phase, asked, execution, messages>>

\* After the shutdown it makes no difference.
LoseConnection ==
    /\ "lost" \in Ends
    /\ ~dead /\ ~shut /\ ~lost
    /\ lost' = TRUE
    /\ UNCHANGED <<queues, current, ending, pc, dead, phase, asked, execution, messages>>

--------------------------------------------------------------------------
Waits == \E th \in Waiters : Hesitate(th) \/ Sleep(th)

Interrupt == \E th \in Threads : Sigint(th)

ReceiveAny == \E m \in FromCoordinator : Receive(m)

Next ==
    \/ Main \/ Exec \/ Writer \/ StopReading \/ ReceiveAny
    \/ Waits \/ LoseConnection \/ Interrupt
    \/ \E th \in Threads \union {"handler"} : Terminate(th)

Spec == Init /\ [][Next]_vars

\* Each thread goes on when it can: a game ends, a write is accepted, and
\* nothing but mtx_terminate is waited for.  Nothing makes the coordinator
\* send, the connection end or the operator press Ctrl-C.
ThreadStep(th) ==
    \/ th = "main" /\ Main
    \/ th = "exec" /\ Exec
    \/ th = "writer" /\ Writer
    \/ th = "reader" /\ StopReading
    \/ th \in Waiters /\ (Hesitate(th) \/ Sleep(th))
    \/ Terminate(th)

FairSpec ==
    /\ Spec
    /\ \A th \in Threads \union {"handler"} : WF_vars(ThreadStep(th))

--------------------------------------------------------------------------
Places ==
    {"test", "gap", "asleep", "terminate", "end", "join", "reply", "clear", "start",
     "play", "ended", "report", "done", "write", "read"}

\* The shape of the state.
TypeOK ==
    /\ taskQueue \in Seq(Tasks)
    /\ current \in Tasks \union {NONE}
    /\ task \in Tasks \union {NONE}
    /\ asked \in Tasks \union {NONE}
    /\ quit \in BOOLEAN /\ shut \in BOOLEAN /\ lost \in BOOLEAN /\ dead \in BOOLEAN
    /\ pc \in [Threads -> Places]
    /\ terminating \in [Threads \union {"handler"} ->
                           {"out", "lock", "locked", "notify", "done"}]
    /\ mutex \in Threads \union {"handler", "nobody"}
    /\ victim \in Threads \union {"nobody"}
    /\ phase \in {"greeting", "working", "leaving"}
    /\ played \in 0..Games
    /\ cut \in BOOLEAN
    /\ results \in Seq([task : Tasks, whole : BOOLEAN])
    /\ taken \in Seq(Tasks)

\* A result that is sent has all the games of its task, none of them cut off:
\* cancellation and termination leave the games early, at any moment, and such
\* results are thrown away ("dont sent incorrect results", execute.cpp:45-49).
ResultsWhole == \A i \in 1..Len(results) : results[i].whole

\* A thread that waits although it has something to do is woken: it was
\* should_quit that came, and the one that set it is about to notify and can go
\* on, unless it did so already while the thread was in the gap, or was
\* interrupted by the handler.  A push never comes between a test and its wait
\* (graceful.cpp:7-35, protocol.cpp:7-18, communication.cpp:68-73).
NoneForgotten ==
    \A th \in Waiters : pc[th] \in {"gap", "asleep"} /\ Ready(th) =>
        /\ quit
        /\ missed \/ dead \/ \E p \in Threads \union {"handler"} :
                                 terminating[p] = "notify" /\ Caller(p)

\* A node is a Worker: the task exec has taken, until its result is sent or
\* current_task_id is cleared, and those in the queue are yet to be done.
Executing ==
    \/ pc["exec"] \in {"start", "report"}
    \/ pc["exec"] \in {"play", "ended"} /\ current # NONE

Todo == (IF Executing THEN <<task>> ELSE <<>>) \o taskQueue

Reported == [i \in 1..Len(results) |-> results[i].task]

Work == INSTANCE Worker WITH taken <- taken, todo <- Todo, reported <- Reported

\* Tasks are done in order, each is reported once or dropped, whatever main
\* does to current_task_id meanwhile (execute.cpp:28-57, protocol.cpp:109-117).
WorksInOrder == Work!Spec

Over == dead \/ pc["main"] = "end"

\* Once should_quit is set, the process ends (graceful.cpp:7-31,
\* main.cpp:51-67), unless a wake-up falls into the gap between the test and
\* the wait of a thread, or SIGINT interrupts the thread that holds
\* mtx_terminate: those are the only two ways to hang.
QuitEnds == []~missed => (quit ~> Over)

\* Every message is acted on, every task executed and every answer written, if
\* the process does not end first: no push to a queue fails to wake the thread
\* that waits for it.
Idle ==
    /\ recvQueue = <<>> /\ taskQueue = <<>> /\ sendQueue = <<>>
    /\ \A th \in Waiters : pc[th] = "asleep"

AllHandled == []~missed => <>[](quit \/ dead \/ Idle)

\* What the code says of cancellations: the task whose result is dropped is the
\* one that was cancelled (execute.cpp:49, protocol.cpp:111-115).
DropsOnlyCancelled == dropped \subseteq cancelled

\* What the comments of terminate_program and of its callers say: the waiting
\* threads are told, and the process ends (graceful.cpp:14-25,
\* protocol.cpp:75).
TerminationEnds == quit ~> Over

==========================================================================
