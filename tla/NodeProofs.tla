----------------------------- MODULE NodeProofs -----------------------------
(***************************************************************************)
(* Node for any tasks, games and messages, and for a process that may end  *)
(* at any moment: a result that is sent is complete, and the node is a     *)
(* Worker.                                                                 *)
(***************************************************************************)
EXTENDS Node, TLAPS

\* A thread inside terminate_program does nothing else.
Ending == \A th \in Threads : terminating[th] # "out" => pc[th] = "terminate"

\* exec has a task from the moment it takes one until its turn is over.
Holding ==
    pc["exec"] \in {"start", "play", "ended", "report", "done"} => task \in Tasks

\* The games are only cut off when exec will not send the result.
Careful ==
    /\ pc["exec"] \in {"test", "gap", "asleep", "start", "report"} => ~cut
    /\ pc["exec"] \in {"play", "ended"} /\ cut => Stopped

Inv == TypeOK /\ Ending /\ Holding /\ Careful /\ ResultsWhole

LEMMA InitInv == Init => Inv
<1> SUFFICES ASSUME Init PROVE Inv
    OBVIOUS
<1>1. results \in Seq([task : Tasks, whole : BOOLEAN]) /\ taskQueue \in Seq(Tasks)
      /\ Len(results) = 0
    BY DEF Init
<1>2. TypeOK
  <2>1. pc \in [Threads -> Places]
      BY DEF Init, Threads, Places
  <2>2. terminating \in [Threads \union {"handler"} ->
                             {"out", "lock", "locked", "notify", "done"}]
      BY DEF Init
  <2>3. played \in 0..Games
      BY NodeAssumption DEF Init
  <2>4. taken \in Seq(Tasks)
      BY DEF Init
  <2> QED
      BY <1>1, <2>1, <2>2, <2>3, <2>4 DEF Init, TypeOK
<1>3. Ending /\ Holding /\ Careful
    BY DEF Init, Ending, Holding, Careful, Threads
<1>4. ResultsWhole
    BY <1>1 DEF ResultsWhole
<1> QED
    BY <1>2, <1>3, <1>4 DEF Inv

--------------------------------------------------------------------------
\* Steps that leave what exec works on alone, and let it only wake up.

Kept ==
    /\ UNCHANGED <<task, played, cut, results, dropped>>
    /\ quit => quit'
    /\ \/ pc'["exec"] = pc["exec"]
       \/ pc["exec"] = "asleep" /\ pc'["exec"] = "test"

LEMMA KeptKeeps ==
    ASSUME Inv, Kept, UNCHANGED current \/ current' = NONE
    PROVE  Holding' /\ Careful' /\ ResultsWhole'
<1>1. Holding'
    BY DEF Inv, Kept, Holding
<1>2. Careful'
    BY DEF Inv, Kept, Careful, Stopped
<1>3. ResultsWhole'
    BY DEF Inv, Kept, ResultsWhole
<1> QED
    BY <1>1, <1>2, <1>3

\* Waking a thread changes its place from "asleep" to "test" at most.
LEMMA Wakes ==
    ASSUME TypeOK, NEW th \in Threads
    PROVE  /\ Woken(th) \in [Threads -> Places]
           /\ \A p \in Threads \ {th} : Woken(th)[p] = pc[p]
           /\ \/ Woken(th)[th] = pc[th]
              \/ pc[th] = "asleep" /\ Woken(th)[th] = "test"
BY DEF TypeOK, Woken, Places

--------------------------------------------------------------------------
LEMMA WaitsKeep ==
    ASSUME Inv, NEW th \in Waiters, Hesitate(th) \/ Sleep(th)
    PROVE  Inv'
<1>1. th \in Threads
    BY DEF Waiters, Threads
<1> USE <1>1 DEF Inv, queues, ending, execution, messages
<1>2. TypeOK'
    BY DEF TypeOK, Hesitate, Sleep, Places
<1>3. Ending'
    BY DEF TypeOK, Ending, Hesitate, Sleep
<1>4. Holding' /\ Careful' /\ ResultsWhole'
    BY DEF TypeOK, Threads, Holding, Careful, Stopped, ResultsWhole, Hesitate, Sleep
<1> QED
    BY <1>2, <1>3, <1>4

\* What returning from terminate_program does.
LEMMA Returns ==
    ASSUME TypeOK, Ending, NEW th \in Threads \union {"handler"}, NEW awake,
           \A p \in awake : p \in Threads /\ pc[p] = "asleep",
           terminating[th] # "out", Return(th, awake)
    PROVE  /\ pc' \in [Threads -> Places]
           /\ terminating' \in [Threads \union {"handler"} ->
                                  {"out", "lock", "locked", "notify", "done"}]
           /\ mutex' = "nobody" /\ victim' \in Threads \union {"nobody"}
           /\ phase' \in {"greeting", "working", "leaving"}
           /\ Ending'
           /\ \A p \in Threads \ {th} :
                 pc'[p] = pc[p] \/ (pc[p] = "asleep" /\ pc'[p] = "test")
<1> USE DEF Return
<1>1. \A p \in Threads : pc'[p] = IF p = th THEN AfterTerminate(th)
                                 ELSE IF p \in awake THEN "test" ELSE pc[p]
    OBVIOUS
<1>2. AfterTerminate(th) \in Places
    BY DEF AfterTerminate, Places
<1>3. pc' \in [Threads -> Places]
  <2>1. \A p \in Threads : (IF p = th THEN AfterTerminate(th)
                            ELSE IF p \in awake THEN "test" ELSE pc[p]) \in Places
      BY <1>2 DEF TypeOK, Places
  <2> QED
      BY <2>1
<1>4. Ending'
  <2> SUFFICES ASSUME NEW p \in Threads, terminating'[p] # "out"
               PROVE  pc'[p] = "terminate"
      BY DEF Ending
  <2>1. p # th
      BY DEF TypeOK, Threads
  <2>2. terminating[p] # "out"
      BY <2>1 DEF TypeOK
  <2>3. pc[p] = "terminate"
      BY <2>2 DEF Ending
  <2> QED
      BY <1>1, <2>1, <2>3
<1>5. \A p \in Threads \ {th} : pc'[p] = pc[p] \/ (pc[p] = "asleep" /\ pc'[p] = "test")
    BY <1>1
<1>6. terminating' \in [Threads \union {"handler"} ->
                           {"out", "lock", "locked", "notify", "done"}]
    BY DEF TypeOK
<1> QED
    BY <1>3, <1>4, <1>5, <1>6 DEF TypeOK

LEMMA TerminateKeeps ==
    ASSUME Inv, NEW th \in Threads \union {"handler"}, Terminate(th)
    PROVE  Inv'
<1> USE DEF Inv, queues, ending, execution, messages
<1>0. CASE Lock(th) \/ SetQuit(th)
  <2>1. TypeOK' /\ Ending'
      BY <1>0 DEF TypeOK, Ending, Lock, SetQuit
  <2>2. Kept /\ UNCHANGED current
      BY <1>0 DEF Kept, Lock, SetQuit
  <2> QED
      BY <2>1, <2>2, KeptKeeps
<1>1. CASE NotifyAll(th) \/ AlreadyQuit(th)
  <2> DEFINE awake == IF NotifyAll(th) THEN Sleepers ELSE {}
  <2>1. /\ \A p \in awake : p \in Threads /\ pc[p] = "asleep"
        /\ terminating[th] # "out"
        /\ UNCHANGED <<queues, current, quit, lost, dead, asked, execution, messages>>
        /\ shut' \in BOOLEAN
      BY <1>1 DEF NotifyAll, AlreadyQuit, Sleepers, Waiters, Threads, TypeOK
  <2>2. Return(th, awake)
      BY <1>1 DEF NotifyAll, AlreadyQuit
  <2> HIDE DEF awake
  <2>3. /\ pc' \in [Threads -> Places]
        /\ terminating' \in [Threads \union {"handler"} ->
                               {"out", "lock", "locked", "notify", "done"}]
        /\ mutex' = "nobody" /\ victim' \in Threads \union {"nobody"}
        /\ phase' \in {"greeting", "working", "leaving"}
        /\ Ending'
        /\ \A p \in Threads \ {th} :
              pc'[p] = pc[p] \/ (pc[p] = "asleep" /\ pc'[p] = "test")
      BY <2>1, <2>2, Returns
  <2>4. TypeOK'
      BY <2>1, <2>3 DEF TypeOK
  <2>5. CASE th # "exec"
    <3>1. Kept
        BY <2>1, <2>3, <2>5 DEF Kept, Threads
    <3> QED
        BY <2>1, <2>3, <2>4, <3>1, KeptKeeps
  <2>6. CASE th = "exec"
    <3>1. pc'["exec"] = "end"
        BY <2>2, <2>6 DEF Return, AfterTerminate, Threads
    <3>2. Holding' /\ Careful' /\ ResultsWhole'
        BY <2>1, <3>1 DEF Holding, Careful, ResultsWhole
    <3> QED
        BY <2>3, <2>4, <3>2
  <2> QED
      BY <2>5, <2>6
<1> QED
    BY <1>0, <1>1 DEF Terminate

--------------------------------------------------------------------------
LEMMA MainKeeps ==
    ASSUME Inv, Main
    PROVE  Inv'
<1> USE DEF Inv, queues, ending, execution, messages, Threads
<1>1. /\ UNCHANGED <<quit, mutex, victim, shut, missed, lost, execution>>
      /\ UNCHANGED current \/ current' = NONE
    BY DEF Main, NullMessage, LeaveLoop, Register, GiveUp, TakeTask, PrepareReply,
           SendReply, CompareCancelled, ClearCancelled, Join, Enter
<1>2. taskQueue' \in Seq(Tasks) /\ taken' \in Seq(Tasks)
  <2>1. CASE TakeTask
    <3>1. PICK t \in Tasks : taskQueue' = Append(taskQueue, t) /\ taken' = Append(taken, t)
        BY <2>1 DEF TakeTask
    <3> QED
        BY <3>1 DEF TypeOK
  <2>2. CASE ~TakeTask
    <3>1. UNCHANGED <<taskQueue, taken>>
        BY <2>2 DEF Main, NullMessage, LeaveLoop, Register, GiveUp, PrepareReply,
                    SendReply, CompareCancelled, ClearCancelled, Join
    <3> QED
        BY <3>1 DEF TypeOK
  <2> QED
      BY <2>1, <2>2
<1>3. dead' \in BOOLEAN /\ asked' \in Tasks \union {NONE}
      /\ phase' \in {"greeting", "working", "leaving"}
    BY DEF TypeOK, Main, NullMessage, LeaveLoop, Register, GiveUp, TakeTask,
           PrepareReply, SendReply, CompareCancelled, ClearCancelled, Join
<1>4. /\ pc' \in [Threads -> Places]
      /\ \A p \in Threads \ {"main"} :
            pc'[p] = pc[p] \/ (pc[p] = "asleep" /\ pc'[p] = "test")
  <2>1. CASE TakeTask
      BY <2>1, Wakes DEF TakeTask
  <2>2. CASE SendReply
      BY <2>2, Wakes DEF SendReply, Places
  <2>3. CASE ~TakeTask /\ ~SendReply
      BY <2>3 DEF TypeOK, Main, NullMessage, LeaveLoop, Register, GiveUp, PrepareReply,
                  CompareCancelled, ClearCancelled, Join, Enter, Places
  <2> QED
      BY <2>1, <2>2, <2>3
<1>5. /\ pc["main"] # "terminate"
      /\ \/ UNCHANGED terminating
         \/ /\ terminating' = [terminating EXCEPT !["main"] = "lock"]
            /\ pc'["main"] = "terminate"
    BY DEF TypeOK, Main, NullMessage, LeaveLoop, Register, GiveUp, TakeTask, PrepareReply,
           SendReply, CompareCancelled, ClearCancelled, Join, Enter, Received
<1>6. TypeOK'
    BY <1>1, <1>2, <1>3, <1>4, <1>5 DEF TypeOK
<1>7. Ending'
    BY <1>4, <1>5 DEF TypeOK, Ending
<1>8. Kept
    BY <1>1, <1>4 DEF Kept
<1> QED
    BY <1>1, <1>6, <1>7, <1>8, KeptKeeps

--------------------------------------------------------------------------
LEMMA ExecKeeps ==
    ASSUME Inv, Exec
    PROVE  Inv'
<1> USE DEF Inv, queues, ending, execution, messages, Threads
<1>1. CASE Break("exec") \/ AbandonTask
    BY <1>1 DEF Break, AbandonTask, Enter, Places, TypeOK, Ending, Holding, Careful, ResultsWhole
<1>2. CASE PopTask
  <2>1. Head(taskQueue) \in Tasks /\ Tail(taskQueue) \in Seq(Tasks)
      BY <1>2 DEF PopTask, TypeOK
  <2> QED
      BY <1>2, <2>1 DEF PopTask, Places, TypeOK, Ending, Holding, Careful, ResultsWhole
<1>3. CASE Start
    BY <1>3 DEF Start, Places, TypeOK, Ending, Holding, Careful, ResultsWhole
<1>4. CASE PlayGame
    BY <1>4, NodeAssumption DEF PlayGame, Stopped, TypeOK, Ending, Holding, Careful, ResultsWhole, NONE
<1>5. CASE EndGames
    BY <1>5, NodeAssumption DEF EndGames, Stopped, Places, TypeOK, Ending, Holding, Careful, ResultsWhole, NONE
<1>6. CASE DropTask \/ ClearDone
  <2>1. 0 \in 0..Games
      BY NodeAssumption
  <2>2. TypeOK' /\ Ending'
    <3>1. /\ pc' \in [Threads -> Places]
          /\ \A p \in Threads \ {"exec"} : pc'[p] = pc[p]
          /\ pc["exec"] # "terminate" /\ terminating["exec"] = "out"
        BY <1>6 DEF DropTask, ClearDone, NextTurn, TypeOK, Places, Ending
    <3>2. current' \in Tasks \union {NONE} /\ played' = 0 /\ task' = NONE /\ cut' = FALSE
        BY <1>6 DEF DropTask, ClearDone, NextTurn, TypeOK
    <3>3. UNCHANGED <<queues, ending, lost, dead, phase, asked, results, messages>>
        BY <1>6 DEF DropTask, ClearDone
    <3> QED
        BY <2>1, <3>1, <3>2, <3>3 DEF TypeOK, Ending
  <2>3. Holding' /\ Careful' /\ ResultsWhole'
      BY <1>6 DEF DropTask, ClearDone, NextTurn, TypeOK, Holding, Careful, ResultsWhole
  <2> QED
      BY <2>2, <2>3
<1>7. CASE PassToReport
    BY <1>7 DEF PassToReport, Stopped, Places, TypeOK, Ending, Holding, Careful, ResultsWhole
<1>8. CASE SendResult
  <2>1. ~cut /\ task \in Tasks
      BY <1>8 DEF SendResult, Holding, Careful
  <2>2. /\ results' \in Seq([task : Tasks, whole : BOOLEAN])
        /\ Len(results') = Len(results) + 1
        /\ \A i \in 1..Len(results) : results'[i] = results[i]
        /\ results'[Len(results) + 1] = [task |-> task, whole |-> TRUE]
    <3>1. [task |-> task, whole |-> ~cut] \in [task : Tasks, whole : BOOLEAN]
        BY <2>1
    <3>2. [task |-> task, whole |-> ~cut] = [task |-> task, whole |-> TRUE]
        BY <2>1
    <3> QED
        BY <1>8, <3>1, <3>2 DEF SendResult, TypeOK
  <2>3. ResultsWhole'
    <3> SUFFICES ASSUME NEW i \in 1..Len(results') PROVE results'[i].whole
        BY DEF ResultsWhole
    <3>1. CASE i = Len(results) + 1
        BY <2>2, <3>1
    <3>2. CASE i # Len(results) + 1
      <4>1. i \in 1..Len(results)
          BY <2>2, <3>2 DEF TypeOK
      <4> QED
          BY <2>2, <4>1 DEF ResultsWhole
    <3> QED
        BY <3>1, <3>2
  <2>4. /\ pc' \in [Threads -> Places]
        /\ pc'["exec"] = "done"
        /\ \A p \in Threads \ {"exec"} :
              pc'[p] = pc[p] \/ (pc[p] = "asleep" /\ pc'[p] = "test")
      BY <1>8, Wakes DEF SendResult, Places
  <2>5. TypeOK'
      BY <1>8, <2>2, <2>4 DEF SendResult, TypeOK
  <2>6. Ending'
      BY <1>8, <2>4 DEF SendResult, Ending
  <2>7. Holding' /\ Careful'
      BY <1>8, <2>1, <2>4 DEF SendResult, Holding, Careful
  <2> QED
      BY <2>3, <2>5, <2>6, <2>7
<1> QED
    BY <1>1, <1>2, <1>3, <1>4, <1>5, <1>6, <1>7, <1>8 DEF Exec

--------------------------------------------------------------------------
\* The other threads, the socket and the signal.
LEMMA OthersKeep ==
    ASSUME Inv,
           Writer \/ StopReading \/ ReceiveAny \/ LoseConnection \/ Interrupt
    PROVE  Inv'
<1> USE DEF Inv, queues, ending, execution, messages, Threads
<1>1. CASE Writer
  <2>1. Kept /\ UNCHANGED current
      BY <1>1 DEF TypeOK, Kept, Writer, Break, PopMessage, Write, WriteFails, BrokenPipe, Enter
  <2>2. CASE Break("writer") \/ WriteFails
    <3>1. TypeOK' /\ Ending'
        BY <2>2 DEF TypeOK, Ending, Break, WriteFails, Enter, Places
    <3> QED
        BY <2>1, <3>1, KeptKeeps
  <2>3. CASE PopMessage \/ Write \/ BrokenPipe
    <3>1. /\ pc' \in [Threads -> Places]
          /\ \A p \in Threads : pc'[p] = pc[p] \/ pc[p] # "terminate"
          /\ dead' \in BOOLEAN
        BY <2>3 DEF TypeOK, PopMessage, Write, BrokenPipe, Places
    <3>2. UNCHANGED <<taskQueue, current, ending, lost, phase, asked, execution, taken>>
        BY <2>3 DEF PopMessage, Write, BrokenPipe
    <3>3. TypeOK' /\ Ending'
        BY <3>1, <3>2 DEF TypeOK, Ending
    <3> QED
        BY <2>1, <3>3, KeptKeeps
  <2> QED
      BY <1>1, <2>2, <2>3 DEF Writer
<1>2. CASE StopReading
  <2>1. Kept /\ UNCHANGED current
      BY <1>2 DEF TypeOK, Kept, StopReading, Enter
  <2>2. TypeOK' /\ Ending'
      BY <1>2 DEF TypeOK, Ending, StopReading, Enter, Places
  <2> QED
      BY <2>1, <2>2, KeptKeeps
<1>3. CASE ReceiveAny
  <2>1. Kept /\ UNCHANGED current
      BY <1>3, Wakes DEF Kept, ReceiveAny, Receive
  <2>2. TypeOK' /\ Ending'
      BY <1>3, Wakes DEF TypeOK, Ending, ReceiveAny, Receive
  <2> QED
      BY <2>1, <2>2, KeptKeeps
<1>4. CASE LoseConnection
    BY <1>4, KeptKeeps DEF LoseConnection, Kept, TypeOK, Ending
<1>5. CASE Interrupt
    BY <1>5, KeptKeeps DEF Interrupt, Sigint, Kept, TypeOK, Ending
<1> QED
    BY <1>1, <1>2, <1>3, <1>4, <1>5

\* The invariant holds for any tasks, games and messages.
THEOREM NodeInvariant == Spec => []Inv
<1>1. Inv /\ [Next]_vars => Inv'
  <2> SUFFICES ASSUME Inv, [Next]_vars PROVE Inv'
      OBVIOUS
  <2>1. CASE Main
      BY <2>1, MainKeeps
  <2>2. CASE Exec
      BY <2>2, ExecKeeps
  <2>3. CASE Writer \/ StopReading \/ ReceiveAny \/ LoseConnection \/ Interrupt
      BY <2>3, OthersKeep
  <2>4. CASE Waits
      BY <2>4, WaitsKeep DEF Waits
  <2>5. ASSUME NEW th \in Threads \union {"handler"}, Terminate(th) PROVE Inv'
      BY <2>5, TerminateKeeps
  <2>6. CASE UNCHANGED vars
      BY <2>6 DEF vars, queues, ending, execution, messages, Inv, TypeOK, Ending,
                  Holding, Careful, Stopped, ResultsWhole
  <2> QED
      BY <2>1, <2>2, <2>3, <2>4, <2>5, <2>6 DEF Next
<1> QED
    BY <1>1, InitInv, PTL DEF Spec

\* The state keeps its shape.
THEOREM NodeTypes == Spec => []TypeOK
BY NodeInvariant, PTL DEF Inv

\* Whatever main, a signal or a lost connection do while a task is executed, a
\* result that is sent is complete (execute.cpp:42-49).
THEOREM OnlyWholeResults == Spec => []ResultsWhole
BY NodeInvariant, PTL DEF Inv

--------------------------------------------------------------------------
(* No thread that waits is forgotten. *)

Callers == Threads \union {"handler"}

\* Who is between the lock and the unlock of mtx_terminate holds it, and the
\* handler did not interrupt it there.
Held ==
    \A p \in Callers : terminating[p] \in {"locked", "notify"} =>
        mutex = p /\ (missed \/ dead \/ Caller(p))

\* A step that sends no thread to sleep and gives none that sleeps something to
\* do; at most, a thread that runs enters terminate_program.
Harmless ==
    /\ UNCHANGED <<quit, mutex, victim, missed>> /\ (dead => dead')
    /\ \/ UNCHANGED terminating
       \/ \E p \in Threads : /\ terminating[p] = "out"
                             /\ terminating' = [terminating EXCEPT ![p] = "lock"]
    /\ \A th \in Waiters : pc'[th] \in {"gap", "asleep"} =>
          pc[th] = pc'[th] /\ (Ready(th)' => Ready(th))

\* Such a step keeps both.
LEMMA HarmlessKeeps ==
    ASSUME TypeOK, Harmless, Held, NoneForgotten
    PROVE  Held' /\ NoneForgotten'
<1>1. \A p \in Callers : terminating'[p] \in {"locked", "notify"} => terminating'[p] = terminating[p]
  BY DEF Harmless, TypeOK, Callers
<1>2. \A p \in Callers : Caller(p) /\ ~dead' => Caller(p)'
  BY DEF Harmless, Caller, Runs
<1>3. \A p \in Callers : terminating[p] \in {"notify"} => terminating'[p] = terminating[p]
  BY DEF Harmless, TypeOK, Callers
<1>4. Held'
  BY <1>1, <1>2 DEF Harmless, Held
<1>5. NoneForgotten'
  BY <1>2, <1>3 DEF Harmless, NoneForgotten, Callers
<1> QED BY <1>4, <1>5

\* What a push does: nobody is in the gap of its queue, and whoever sleeps is
\* woken.
LEMMA PushWakes ==
    ASSUME TypeOK, NEW th \in Waiters, Free(th)
    PROVE  /\ Woken(th)[th] \notin {"gap", "asleep"}
           /\ \A p \in Threads \ {th} : Woken(th)[p] = pc[p]
BY DEF TypeOK, Free, Woken, Waiters, Threads

\* main wakes whom it pushes to, and enters terminate_program at its ends.
LEMMA MainHarmless == Inv /\ Main => Harmless
<1> SUFFICES ASSUME Inv, Main PROVE Harmless
  OBVIOUS
<1> USE DEF Inv, queues, ending, Threads, Waiters
<1>1. UNCHANGED <<quit, mutex, victim, missed>> /\ (dead => dead')
  BY DEF Main, NullMessage, LeaveLoop, Register, GiveUp, TakeTask, PrepareReply,
         SendReply, CompareCancelled, ClearCancelled, Join, Enter
<1>2. /\ pc["main"] \notin {"gap", "asleep", "terminate"}
      /\ pc'["main"] \notin {"gap", "asleep"}
      /\ \/ UNCHANGED terminating
         \/ terminating' = [terminating EXCEPT !["main"] = "lock"]
  <2>1. CASE TakeTask
    BY <2>1, PushWakes DEF TakeTask, Received
  <2>2. CASE SendReply
    BY <2>2, PushWakes DEF SendReply, TypeOK
  <2>3. CASE ~TakeTask /\ ~SendReply
    BY <2>3 DEF TypeOK, Main, NullMessage, LeaveLoop, Register, GiveUp, PrepareReply,
           CompareCancelled, ClearCancelled, Join, Received, Enter
  <2> QED BY <2>1, <2>2, <2>3
<1>3. terminating["main"] = "out"
  BY <1>2 DEF Ending
<1>4. ASSUME pc'["exec"] \in {"gap", "asleep"}
      PROVE  pc'["exec"] = pc["exec"] /\ taskQueue' = taskQueue
  <2>1. ~TakeTask
    BY <1>4, PushWakes DEF TakeTask
  <2>2. CASE SendReply
    BY <2>2, PushWakes DEF SendReply
  <2>3. CASE ~SendReply
    BY <2>1, <2>3 DEF TypeOK, Main, NullMessage, LeaveLoop, Register, GiveUp, PrepareReply,
           CompareCancelled, ClearCancelled, Join, Enter
  <2> QED BY <2>2, <2>3
<1>5. ASSUME pc'["writer"] \in {"gap", "asleep"}
      PROVE  pc'["writer"] = pc["writer"] /\ sendQueue' = sendQueue
  <2>1. ~SendReply
    <3> SUFFICES ASSUME SendReply PROVE FALSE
      OBVIOUS
    <3>1. Woken("writer") \in [Threads -> Places]
      BY Wakes
    <3>2. pc'["writer"] = Woken("writer")["writer"]
      BY <3>1 DEF SendReply
    <3> QED BY <1>5, <3>2, PushWakes DEF SendReply
  <2>2. CASE TakeTask
    BY <2>2, PushWakes DEF TakeTask
  <2>3. CASE ~TakeTask
    BY <2>1, <2>3 DEF TypeOK, Main, NullMessage, LeaveLoop, Register, GiveUp, PrepareReply,
           CompareCancelled, ClearCancelled, Join, Enter
  <2> QED BY <2>2, <2>3
<1> QED BY <1>1, <1>2, <1>3, <1>4, <1>5 DEF Harmless, Ready

\* exec does likewise.
LEMMA ExecHarmless == Inv /\ Exec => Harmless
<1> SUFFICES ASSUME Inv, Exec PROVE Harmless
  OBVIOUS
<1> USE DEF Inv, queues, ending, Threads, Waiters
<1>1. UNCHANGED <<quit, mutex, victim, missed, recvQueue>> /\ (dead => dead')
  BY DEF Exec, Break, PopTask, Start, PlayGame, EndGames, AbandonTask, DropTask,
         PassToReport, SendResult, ClearDone, Enter
<1>2. /\ pc["exec"] # "terminate" /\ pc'["exec"] \notin {"gap", "asleep"}
      /\ \/ UNCHANGED terminating
         \/ terminating' = [terminating EXCEPT !["exec"] = "lock"]
  <2>1. CASE SendResult
    BY <2>1, PushWakes DEF SendResult, TypeOK
  <2>2. CASE ~SendResult
    BY <2>2 DEF TypeOK, Exec, Break, PopTask, Start, PlayGame, EndGames, AbandonTask,
           DropTask, PassToReport, ClearDone, Enter, NextTurn
  <2> QED BY <2>1, <2>2
<1>3. terminating["exec"] = "out"
  BY <1>2 DEF Ending
<1>4. pc'["main"] = pc["main"]
      /\ (pc'["writer"] \in {"gap", "asleep"} =>
            pc'["writer"] = pc["writer"] /\ sendQueue' = sendQueue)
  <2>1. CASE SendResult
    BY <2>1, PushWakes DEF SendResult, TypeOK
  <2>2. CASE ~SendResult
    BY <2>2 DEF TypeOK, Exec, Break, PopTask, Start, PlayGame, EndGames, AbandonTask,
           DropTask, PassToReport, ClearDone, Enter, NextTurn
  <2> QED BY <2>1, <2>2
<1> QED BY <1>1, <1>2, <1>3, <1>4 DEF Harmless, Ready

\* So do the writer, the reader and the connection.
LEMMA OthersHarmless ==
    Inv /\ (Writer \/ StopReading \/ ReceiveAny \/ LoseConnection) => Harmless
<1> USE DEF Inv, queues, ending, Threads, Waiters
<1>1. ASSUME Inv, Writer PROVE Harmless
  <2>1. /\ UNCHANGED <<quit, mutex, victim, missed, recvQueue, taskQueue>> /\ (dead => dead')
        /\ pc["writer"] # "terminate" /\ pc'["writer"] \notin {"gap", "asleep"}
        /\ pc'["main"] = pc["main"] /\ pc'["exec"] = pc["exec"]
        /\ \/ UNCHANGED terminating
           \/ terminating' = [terminating EXCEPT !["writer"] = "lock"]
    BY <1>1 DEF TypeOK, Writer, Break, PopMessage, Write, WriteFails, BrokenPipe, Enter
  <2>2. terminating["writer"] = "out"
    BY <1>1, <2>1 DEF Ending
  <2> QED BY <2>1, <2>2 DEF Harmless, Ready
<1>2. ASSUME Inv, StopReading PROVE Harmless
  <2>1. terminating["reader"] = "out"
    BY <1>2 DEF StopReading, Ending
  <2> QED BY <1>2, <2>1 DEF TypeOK, Harmless, Ready, StopReading, Enter
<1>3. ASSUME Inv, ReceiveAny PROVE Harmless
  BY <1>3, PushWakes DEF Harmless, Ready, ReceiveAny, Receive
<1>4. ASSUME Inv, LoseConnection PROVE Harmless
  BY <1>4 DEF Harmless, Ready, LoseConnection
<1> QED BY <1>1, <1>2, <1>3, <1>4

\* A thread goes to the gap and to sleep only with nothing to do.
LEMMA WaitsForget ==
    ASSUME Inv, Held, NoneForgotten, NEW th \in Waiters, Hesitate(th) \/ Sleep(th)
    PROVE  Held' /\ NoneForgotten'
<1> USE DEF Inv, queues, ending
<1>1. /\ UNCHANGED <<queues, quit, terminating, mutex, victim, missed, dead>>
      /\ \A p \in Waiters : Ready(p)' <=> Ready(p)
      /\ \A p \in Waiters : p # th => pc'[p] = pc[p]
      /\ Ready(th) => pc[th] = "gap"
  BY DEF Hesitate, Sleep, Ready, TypeOK, Waiters, Threads
<1>2. Held'
  BY <1>1 DEF Held, Caller, Runs
<1>3. NoneForgotten'
  BY <1>1 DEF NoneForgotten, Caller, Runs
<1> QED BY <1>2, <1>3

\* Nobody leaves terminate_program as the first one without having notified
\* every thread that sleeps.
LEMMA TerminateForgets ==
    ASSUME Inv, Held, NoneForgotten, NEW th \in Callers, Terminate(th)
    PROVE  Held' /\ NoneForgotten'
<1> USE DEF Inv, queues, ending, Callers
<1>1. CASE Lock(th)
  <2>1. /\ UNCHANGED <<queues, quit, victim, missed, dead, pc>> /\ mutex' = th /\ Caller(th)
        /\ \A p \in Callers : p # th => terminating'[p] = terminating[p]
        /\ terminating[th] = "lock" /\ mutex = "nobody"
    BY <1>1 DEF Lock, TypeOK
  <2>2. \A p \in Callers : Caller(p)' <=> Caller(p)
    BY <2>1 DEF Caller, Runs
  <2>3. "nobody" \notin Callers
    BY DEF Threads
  <2>4. Held'
    BY <2>1, <2>2, <2>3 DEF Held
  <2>5. NoneForgotten'
    BY <2>1, <2>2 DEF NoneForgotten, Ready
  <2> QED BY <2>4, <2>5
<1>2. CASE SetQuit(th)
  <2>1. /\ UNCHANGED <<queues, mutex, victim, missed, dead, pc>> /\ quit' /\ Caller(th)
        /\ terminating' = [terminating EXCEPT ![th] = "notify"]
        /\ terminating[th] = "locked"
    BY <1>2 DEF SetQuit
  <2>2. \A p \in Callers : Caller(p)' <=> Caller(p)
    BY <2>1 DEF Caller, Runs
  <2>3. terminating'[th] = "notify"
    BY <2>1 DEF TypeOK
  <2>4. Held'
    BY <2>1, <2>2 DEF Held, TypeOK
  <2>5. NoneForgotten'
    BY <2>1, <2>2, <2>3 DEF NoneForgotten
  <2> QED BY <2>4, <2>5
<1>3. CASE NotifyAll(th) \/ AlreadyQuit(th)
  <2>1. terminating[th] \in {"locked", "notify"} /\ quit' = quit
        /\ recvQueue' = recvQueue /\ sendQueue' = sendQueue /\ taskQueue' = taskQueue
        /\ dead' = dead
    BY <1>3 DEF NotifyAll, AlreadyQuit
  <2>0. missed => missed'
    BY <1>3, Zenon DEF NotifyAll, AlreadyQuit
  <2>2. mutex = th
    BY <2>1 DEF Held
  <2>3. \A p \in Callers : p # th =>
          terminating'[p] = terminating[p] /\ terminating[p] \notin {"locked", "notify"}
    BY <1>3, <2>2 DEF NotifyAll, AlreadyQuit, Return, Held, TypeOK
  <2>4. terminating'[th] \in {"out", "done"}
    BY <1>3 DEF NotifyAll, AlreadyQuit, Return, TypeOK
  <2>5. Held'
    BY <2>3, <2>4 DEF Held
  <2>6. ASSUME NEW p \in Waiters, pc'[p] \in {"gap", "asleep"}
        PROVE  pc'[p] = pc[p] /\ (NotifyAll(th) => pc[p] = "gap" /\ missed')
    BY <1>3, <2>6 DEF NotifyAll, AlreadyQuit, Return, AfterTerminate, Sleepers,
          Waiters, Threads
  <2>7. \A p \in Waiters : Ready(p)' <=> Ready(p)
    BY <2>1 DEF Ready
  <2>8. CASE NotifyAll(th)
    <3>1. ASSUME NEW p \in Waiters, pc'[p] \in {"gap", "asleep"}, Ready(p)'
          PROVE  quit' /\ missed'
      <4>1. pc[p] \in {"gap", "asleep"} /\ Ready(p)
        BY <2>6, <2>7, <3>1
      <4> QED BY <2>1, <2>6, <2>8, <3>1, <4>1 DEF NoneForgotten
    <3>2. NoneForgotten'
      BY <3>1 DEF NoneForgotten
    <3> QED BY <2>5, <3>2
  <2>9. CASE AlreadyQuit(th)
    <3>1. \A p \in Callers : terminating[p] # "notify"
      BY <2>3, <2>9 DEF AlreadyQuit
    <3>2. ASSUME NEW p \in Waiters, pc'[p] \in {"gap", "asleep"}, Ready(p)'
          PROVE  quit' /\ (missed' \/ dead')
      <4>1. pc[p] \in {"gap", "asleep"} /\ Ready(p)
        BY <2>6, <2>7, <3>2
      <4>2. quit /\ (missed \/ dead)
        BY <3>1, <4>1 DEF NoneForgotten
      <4> QED BY <2>0, <2>1, <4>2, Zenon
    <3>3. NoneForgotten'
      BY <3>2 DEF NoneForgotten
    <3> QED BY <2>5, <3>3
  <2> QED BY <1>3, <2>5, <2>8, <2>9
<1> QED BY <1>1, <1>2, <1>3 DEF Terminate

\* A signal that comes to the holder of mtx_terminate is a miss.
LEMMA InterruptForgets ==
    ASSUME Inv, Held, NoneForgotten, NEW th \in Threads, Sigint(th)
    PROVE  Held' /\ NoneForgotten'
<1> USE DEF Inv, Callers
<1>1. /\ UNCHANGED <<queues, quit, mutex, dead, pc>> /\ victim' = th
      /\ missed' = (missed \/ mutex = th)
      /\ terminating["handler"] = "out"
      /\ terminating' = [terminating EXCEPT !["handler"] = "lock"]
  BY DEF Sigint
<1>2. \A p \in Callers :
        terminating'[p] = (IF p = "handler" THEN "lock" ELSE terminating[p])
  BY <1>1 DEF TypeOK
<1>3. \A p \in Threads : p # th /\ Caller(p) => Caller(p)'
  BY <1>1 DEF Caller, Runs, Threads
<1>4. Held'
  <2> SUFFICES ASSUME NEW p \in Callers, terminating'[p] \in {"locked", "notify"}
               PROVE  mutex' = p /\ (missed' \/ dead' \/ Caller(p)')
    BY DEF Held
  <2>1. p \in Threads /\ mutex = p /\ (missed \/ dead \/ Caller(p))
    BY <1>2 DEF Held
  <2>2. mutex' = p /\ dead' = dead
    BY <1>1, <2>1
  <2>3. p = th => missed'
    BY <1>1, <2>1
  <2>4. missed => missed'
    BY <1>1, Zenon
  <2> QED BY <1>3, <2>1, <2>2, <2>3, <2>4, Zenon
<1>5. NoneForgotten'
  BY <1>1, <1>2, <1>3 DEF NoneForgotten, Held, Ready, queues
<1> QED BY <1>4, <1>5

\* However often a thread tests, waits and is interrupted, one that waits with
\* something to do is about to be woken, or was missed in one of two known ways.
THEOREM NobodyIsForgotten == Spec => []NoneForgotten
<1>1. Init => Held /\ NoneForgotten
  BY DEF Init, Held, NoneForgotten, Callers, Waiters, Threads
<1>2. Inv /\ Held /\ NoneForgotten /\ [Next]_vars => Held' /\ NoneForgotten'
  <2> SUFFICES ASSUME Inv, Held, NoneForgotten, [Next]_vars
               PROVE  Held' /\ NoneForgotten'
    OBVIOUS
  <2>1. CASE Main \/ Exec \/ Writer \/ StopReading \/ ReceiveAny \/ LoseConnection
    BY <2>1, MainHarmless, ExecHarmless, OthersHarmless, HarmlessKeeps DEF Inv
  <2>2. CASE Waits
    BY <2>2, WaitsForget DEF Waits
  <2>3. CASE Interrupt
    BY <2>3, InterruptForgets DEF Interrupt
  <2>4. CASE \E th \in Callers : Terminate(th)
    BY <2>4, TerminateForgets
  <2>5. CASE UNCHANGED vars
    BY <2>5 DEF vars, queues, ending, Held, NoneForgotten, Caller, Runs, Ready
  <2> QED BY <2>1, <2>2, <2>3, <2>4, <2>5 DEF Next, Callers
<1> QED BY <1>1, <1>2, NodeInvariant, PTL DEF Spec

--------------------------------------------------------------------------
(* A node is a Worker. *)

LEMMA Sequence ==
    ASSUME NEW q \in Seq(Tasks), NEW t \in Tasks
    PROVE  /\ <<>> \o q = q
           /\ Tail(<<t>> \o q) = q /\ Head(<<t>> \o q) = t /\ <<t>> \o q # <<>>
           /\ \A u \in Tasks : /\ <<t>> \o Append(q, u) = Append(<<t>> \o q, u)
                              /\ <<>> \o Append(q, u) = Append(<<>> \o q, u)
           /\ q # <<>> => /\ <<Head(q)>> \o Tail(q) = q
                         /\ Head(q) \in Tasks /\ Tail(q) \in Seq(Tasks)
OBVIOUS

LEMMA InitWork == Init => Work!Init
<1> SUFFICES ASSUME Init PROVE Work!Init
    OBVIOUS
<1>1. taken = <<>> /\ taskQueue = <<>> /\ results = <<>> /\ ~Executing
    BY DEF Init, Threads, Executing
<1>2. Todo = <<>>
    BY <1>1 DEF Todo
<1>3. Reported = <<>>
    BY <1>1 DEF Reported
<1> QED
    BY <1>1, <1>2, <1>3 DEF Work!Init

\* Steps that a Worker does not see.
LEMMA Quiet ==
    ASSUME UNCHANGED <<taken, taskQueue, results>>,
           Executing' <=> Executing, Executing => task' = task
    PROVE  UNCHANGED Work!vars
BY DEF Todo, Reported, Work!vars

\* The task exec has goes, without a result.
LEMMA Dropping ==
    ASSUME Inv, Executing, ~Executing', UNCHANGED <<taken, taskQueue, results>>
    PROVE  Work!Drop
<1>1. task \in Tasks /\ taskQueue \in Seq(Tasks)
    BY DEF Inv, TypeOK, Holding, Executing
<1>2. Todo = <<task>> \o taskQueue /\ Todo' = <<>> \o taskQueue
    BY DEF Todo
<1>3. Todo # <<>> /\ Todo' = Tail(Todo)
    BY <1>1, <1>2, Sequence
<1>4. UNCHANGED Reported
    BY DEF Reported
<1> QED
    BY <1>3, <1>4 DEF Work!Drop

LEMMA TakeWork ==
    ASSUME Inv, TakeTask
    PROVE  Work!Next
<1>1. PICK t \in Tasks : taskQueue' = Append(taskQueue, t) /\ taken' = Append(taken, t)
    BY DEF TakeTask
<1>2. (Executing' <=> Executing) /\ UNCHANGED <<task, results>>
    BY DEF TakeTask, execution, Executing, Woken, Inv, TypeOK, Threads
<1>3. Executing => task \in Tasks
    BY DEF Inv, Holding, Executing
<1>4. taskQueue \in Seq(Tasks)
    BY DEF Inv, TypeOK
<1>5. Todo' = Append(Todo, t)
  <2>1. CASE Executing
    <3>1. Todo = <<task>> \o taskQueue /\ Todo' = <<task>> \o Append(taskQueue, t)
        BY <2>1, <1>1, <1>2 DEF Todo
    <3> QED
        BY <3>1, <2>1, <1>3, <1>4, Sequence
  <2>2. CASE ~Executing
    <3>1. Todo = <<>> \o taskQueue /\ Todo' = <<>> \o Append(taskQueue, t)
        BY <2>2, <1>1, <1>2 DEF Todo
    <3> QED
        BY <3>1, <1>4, Sequence
  <2> QED
      BY <2>1, <2>2
<1>6. UNCHANGED Reported
    BY <1>2 DEF Reported
<1> QED
    BY <1>1, <1>5, <1>6 DEF Work!Next, Work!Take

LEMMA ReportWork ==
    ASSUME Inv, SendResult
    PROVE  Work!Next
<1>1. Executing /\ ~Executing' /\ UNCHANGED <<taken, taskQueue>>
    BY DEF SendResult, Executing, messages, Inv, TypeOK, Threads, Woken
<1>2. task \in Tasks /\ taskQueue \in Seq(Tasks)
    BY <1>1 DEF Inv, TypeOK, Holding, Executing
<1>3. Todo = <<task>> \o taskQueue /\ Todo' = <<>> \o taskQueue
    BY <1>1 DEF Todo
<1>4. Todo # <<>> /\ Todo' = Tail(Todo) /\ Head(Todo) = task
    BY <1>2, <1>3, Sequence
<1>5. Reported' = Append(Reported, task)
    BY DEF SendResult, Inv, TypeOK, Reported
<1> QED
    BY <1>1, <1>4, <1>5 DEF Work!Next, Work!Report

LEMMA PopWork ==
    ASSUME Inv, PopTask
    PROVE  UNCHANGED Work!vars
<1>1. ~Executing /\ Executing' /\ task' = Head(taskQueue) /\ taskQueue' = Tail(taskQueue)
      /\ taskQueue # <<>> /\ UNCHANGED <<taken, results>>
    BY DEF PopTask, Executing, messages, Inv, TypeOK, Threads
<1>2. Todo = <<>> \o taskQueue /\ Todo' = <<Head(taskQueue)>> \o Tail(taskQueue)
    BY <1>1 DEF Todo
<1>3. Todo' = Todo
  <2>1. taskQueue \in Seq(Tasks) /\ Head(taskQueue) \in Tasks
      BY <1>1 DEF Inv, TypeOK
  <2> QED
      BY <1>1, <1>2, <2>1, Sequence
<1> QED
    BY <1>1, <1>3 DEF Reported, Work!vars

LEMMA StepWork == Inv /\ [Next]_vars => [Work!Next]_Work!vars
<1> SUFFICES ASSUME Inv, [Next]_vars PROVE [Work!Next]_Work!vars
    OBVIOUS
<1> USE DEF queues, ending, execution, messages, Threads
<1>1. CASE Main
  <2>1. CASE TakeTask
      BY <2>1, TakeWork
  <2>2. CASE ClearCancelled
    <3>1. UNCHANGED <<taken, taskQueue, results, task>> /\ pc'["exec"] = pc["exec"]
          /\ current' = NONE
        BY <2>2 DEF ClearCancelled, Inv, TypeOK
    <3>2. CASE Executing /\ ~Executing'
        BY <3>1, <3>2, Dropping DEF Work!Next
    <3>3. CASE Executing' <=> Executing
        BY <3>1, <3>3, Quiet
    <3>4. Executing' => Executing
        BY <3>1 DEF Executing
    <3> QED
        BY <3>2, <3>3, <3>4
  <2>3. CASE ~TakeTask /\ ~ClearCancelled
    <3>1. UNCHANGED <<taken, taskQueue, results, task, current>>
        BY <1>1, <2>3 DEF Main, NullMessage, LeaveLoop, Register, GiveUp, PrepareReply,
                          SendReply, CompareCancelled, Join
    <3>2. pc'["exec"] = pc["exec"]
        BY <1>1, <2>3 DEF Main, NullMessage, LeaveLoop, Register, GiveUp, PrepareReply,
                          SendReply, CompareCancelled, Join, Enter, Woken, Inv, TypeOK
    <3> QED
        BY <3>1, <3>2, Quiet DEF Executing
  <2> QED
      BY <2>1, <2>2, <2>3
<1>2. CASE Exec
  <2>1. CASE PopTask
      BY <2>1, PopWork
  <2>2. CASE SendResult
      BY <2>2, ReportWork
  <2>3. CASE AbandonTask
    <3>1. UNCHANGED <<taken, taskQueue, results, task>> /\ pc'["exec"] = "terminate"
        BY <2>3 DEF AbandonTask, Enter, Inv, TypeOK
    <3>2. ~Executing'
        BY <3>1 DEF Executing
    <3> QED
        BY <3>1, <3>2, Dropping, Quiet DEF Work!Next
  <2>4. CASE Break("exec") \/ Start \/ PlayGame \/ EndGames \/ DropTask
             \/ PassToReport \/ ClearDone
    <3>1. UNCHANGED <<taken, taskQueue, results>>
        BY <2>4 DEF Break, Start, PlayGame, EndGames, DropTask, PassToReport, ClearDone
    <3>2. Executing' <=> Executing
      <4>1. CASE Break("exec") \/ ClearDone \/ DropTask
          BY <4>1 DEF Break, ClearDone, DropTask, NextTurn, Enter, Executing, Inv, TypeOK
      <4>2. CASE Start
        <5>1. current' # NONE
            BY <4>2, NodeAssumption DEF Start, Inv, Holding, NONE
        <5> QED
            BY <4>2, <5>1 DEF Start, Executing, Inv, TypeOK
      <4>3. CASE PlayGame \/ EndGames \/ PassToReport
          BY <4>3 DEF PlayGame, EndGames, PassToReport, Executing, Inv, TypeOK
      <4> QED
          BY <2>4, <4>1, <4>2, <4>3
    <3>3. Executing => task' = task
        BY <2>4 DEF Break, Start, PlayGame, EndGames, DropTask, PassToReport, ClearDone,
                    Executing
    <3> QED
        BY <3>1, <3>2, <3>3, Quiet
  <2> QED
      BY <1>2, <2>1, <2>2, <2>3, <2>4 DEF Exec
<1>3. CASE Writer \/ StopReading \/ ReceiveAny \/ LoseConnection \/ Interrupt \/ Waits
  <2>1. UNCHANGED <<taken, taskQueue, results, task, current>>
      BY <1>3 DEF Writer, Break, PopMessage, Write, WriteFails, BrokenPipe, StopReading,
                  ReceiveAny, Receive, LoseConnection, Interrupt, Sigint, Waits,
                  Hesitate, Sleep
  <2>2. \/ pc'["exec"] = pc["exec"]
        \/ {pc["exec"], pc'["exec"]} \subseteq {"test", "gap", "asleep"}
    <3>1. CASE Writer \/ StopReading \/ LoseConnection \/ Interrupt
        BY <3>1 DEF Writer, Break, PopMessage, Write, WriteFails, BrokenPipe, StopReading,
                    LoseConnection, Interrupt, Sigint, Enter, Inv, TypeOK
    <3>2. CASE ReceiveAny
        BY <3>2 DEF ReceiveAny, Receive, Woken, Inv, TypeOK
    <3>3. CASE Waits
        BY <3>3 DEF Waits, Hesitate, Sleep, Inv, TypeOK, Waiters
    <3> QED
        BY <1>3, <3>1, <3>2, <3>3
  <2> QED
      BY <2>1, <2>2, Quiet DEF Executing
<1>4. ASSUME NEW th \in Threads \union {"handler"}, Terminate(th)
      PROVE  UNCHANGED Work!vars
  <2>1. UNCHANGED <<taken, taskQueue, results, task, current>>
      BY <1>4 DEF Terminate, Lock, SetQuit, NotifyAll, AlreadyQuit
  <2>2. \/ pc'["exec"] = pc["exec"]
        \/ {pc["exec"], pc'["exec"]} \subseteq {"test", "asleep", "terminate", "end"}
    <3>1. th = "exec" => pc["exec"] = "terminate"
        BY <1>4 DEF Terminate, Lock, SetQuit, NotifyAll, AlreadyQuit, Inv, Ending
    <3> QED
        BY <1>4, <3>1 DEF Terminate, Lock, SetQuit, NotifyAll, AlreadyQuit, Return,
                          AfterTerminate, Sleepers, Inv, TypeOK
  <2> QED
      BY <2>1, <2>2, Quiet DEF Executing
<1>5. CASE UNCHANGED vars
    BY <1>5, Quiet DEF vars, Executing
<1> QED
    BY <1>1, <1>2, <1>3, <1>4, <1>5 DEF Next

\* Tasks are done in their order and reported at most once each, and only the
\* task in execution can be dropped (execute.cpp:28-57, protocol.cpp:109-117).
THEOREM NodeIsWorker == Spec => WorksInOrder
<1>1. Init => Work!Init
    BY InitWork
<1>2. Inv /\ [Next]_vars => [Work!Next]_Work!vars
    BY StepWork
<1> QED
    BY <1>1, <1>2, NodeInvariant, PTL DEF Spec, WorksInOrder, Work!Spec

==========================================================================
