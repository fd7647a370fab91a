------------------------------- MODULE Worker -------------------------------
(***************************************************************************)
(* What a node promises about its work (abstract): the tasks it has taken  *)
(* are done in their order, each is reported once or dropped, and only the *)
(* oldest one can be dropped.                                              *)
(***************************************************************************)
EXTENDS Sequences

CONSTANT Tasks

VARIABLES taken,    \* the tasks taken so far
          todo,     \* the tasks taken and neither reported nor dropped
          reported  \* the tasks whose results were sent

vars == <<taken, todo, reported>>

Init == taken = <<>> /\ todo = <<>> /\ reported = <<>>

Take(task) ==
    /\ taken' = Append(taken, task)
    /\ todo' = Append(todo, task)
    /\ UNCHANGED reported

Report ==
    /\ todo # <<>>
    /\ todo' = Tail(todo)
    /\ reported' = Append(reported, Head(todo))
    /\ UNCHANGED taken

Drop ==
    /\ todo # <<>>
    /\ todo' = Tail(todo)
    /\ UNCHANGED <<taken, reported>>

Next == (\E task \in Tasks : Take(task)) \/ Report \/ Drop

Spec == Init /\ [][Next]_vars

==========================================================================
