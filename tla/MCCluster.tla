---------------------------- MODULE MCCluster ----------------------------
(* Instances of Cluster for TLC. *)
EXTENDS Cluster

\* The state of Cluster in which all MaxNode nodes have greeted and nothing
\* has been pinged or commanded yet, for the runs about what comes after.  It
\* is reachable from Init: every node connects, greets and is answered before
\* the first scan.
Greeted(gl) == [FreshNode EXCEPT !.registered = TRUE, !.gamelist = gl]
ReadyInit ==
    /\ \E gls \in [NodeId -> GameLists] :
         nodes = [n \in NodeId |-> Greeted(gls[n])]
    /\ tasks = <<>>
    /\ groups = <<>>
    /\ recvMessageQueue = <<>>
    /\ suspectedBalancing = TRUE
    /\ pc = [th \in Thread |-> "run"]
    /\ plan = NoPlan
    /\ nextNode = MaxNode + 1
    /\ crashed = FALSE
    /\ peer = [n \in NodeId |-> "ready"]
    /\ taskQueue = [n \in NodeId |-> <<>>]
    /\ lates = 0
ReadySpec == ReadyInit /\ [][Next]_vars
ReadyFairSpec == ReadyInit /\ [][Next]_vars /\ Fairness

\* ReadyInit is reached (checked as an invariant that fails).
NotReady == ~ReadyInit
==========================================================================
