------------------------------ MODULE Ledger ------------------------------
(***************************************************************************)
(* What the coordinator promises about the groups of sub-tasks, whatever   *)
(* happens between it and the nodes: a group is opened with the sub-tasks  *)
(* it owes, every sub-task is settled at most once, a group is DONE in the *)
(* moment nothing is owed and no empty slot was counted in, and a DONE     *)
(* group never changes.  A group may also be cancelled while it runs.      *)
(***************************************************************************)
EXTENDS Integers, Sequences

CONSTANTS SubTasks,     \* the ids sub-tasks may have
          MaxSlots      \* bound on the nodes a group is divided among

VARIABLE account    \* one record per group

LedgerInit == account = <<>>

Known == UNION {account[g].owed \cup account[g].settled : g \in DOMAIN account}

\* A group with the sub-tasks `owed`, none of which was ever used, and
\* `empty` slots that get no games and no sub-task but are waited for.
Open(owed, empty) ==
    /\ owed \cap Known = {}
    /\ account' = Append(account, [owed |-> owed, settled |-> {},
                                   empty |-> empty, status |-> "RUNNING"])

Settle(g, t) ==
    /\ account[g].status # "DONE"
    /\ t \in account[g].owed
    /\ account' = [account EXCEPT ![g] =
         [owed |-> @.owed \ {t},
          settled |-> @.settled \cup {t},
          empty |-> @.empty,
          status |-> IF @.owed = {t} /\ @.empty = 0 THEN "DONE" ELSE @.status]]

Cancel(g) ==
    /\ account[g].status = "RUNNING"
    /\ account' = [account EXCEPT ![g].status = "CANCELLED"]

LedgerNext ==
    \/ \E owed \in SUBSET SubTasks, empty \in 0..MaxSlots : Open(owed, empty)
    \/ \E g \in DOMAIN account :
         Cancel(g) \/ \E t \in SubTasks : Settle(g, t)

LedgerSpec == LedgerInit /\ [][LedgerNext]_account
==========================================================================
