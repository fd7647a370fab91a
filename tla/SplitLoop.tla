---------------------------- MODULE SplitLoop ----------------------------
(***************************************************************************)
(* The loop of command_task that turns the shares of GameSplit into        *)
(* sub-tasks, for every number of games and of eligible nodes up to a      *)
(* bound: one iteration per step.                                          *)
(***************************************************************************)
EXTENDS GameSplit, Sequences

CONSTANTS MaxGames,     \* bound on NUM_GAMES
          MaxEligible   \* bound on the number of eligible nodes

ASSUME SplitBounds == MaxGames \in Nat /\ MaxEligible \in Nat \ {0}

VARIABLES
    games,      \* NUM_GAMES of the command
    n_nodes,    \* the number of eligible nodes, at least one
    n_games,    \* the share of each node
    i,          \* the next iteration, n_nodes + 1 when the loop is over
    dealt,      \* the sizes of the sub-tasks made so far, in order
    total       \* the games in them (history variable)

splitVars == <<games, n_nodes, n_games, i, dealt, total>>

SplitInit ==
    /\ games \in 0..MaxGames
    /\ n_nodes \in 1..MaxEligible
    /\ n_games = [k \in 1..n_nodes |-> Share(k, games, n_nodes)]
    /\ i = 1
    /\ dealt = <<>>
    /\ total = 0

Skip ==
    /\ n_games[i] = 0
    /\ UNCHANGED <<dealt, total>>

\* Mistake, for testing the properties: an empty share makes a sub-task too.
DealEmptyToo ==
    /\ dealt' = Append(dealt, n_games[i])
    /\ total' = total + n_games[i]

Deal ==
    /\ n_games[i] # 0
    /\ dealt' = Append(dealt, n_games[i])
    /\ total' = total + n_games[i]

SplitNext ==
    /\ i <= n_nodes
    /\ i' = i + 1
    /\ Skip \/ Deal
    /\ UNCHANGED <<games, n_nodes, n_games>>

SplitSpec == SplitInit /\ [][SplitNext]_splitVars /\ WF_splitVars(SplitNext)

--------------------------------------------------------------------------
Over == i > n_nodes

\* The closed form the coordinator's model uses is what the loop computes:
\* the sub-tasks are exactly those of the first NumParts nodes, so that the
\* k-th sub-task of a group always goes to the k-th eligible node
\* (commands.cpp:190-205).
PartsArePrefix ==
    Over => dealt = [k \in 1..NumParts(games, n_nodes) |-> n_games[k]]

\* How many games the split loses: none when the nodes divide them evenly,
\* else one less than the remainder, because only the first share is rounded
\* up.  Never more games than asked are played (commands.cpp:173-175).
Loss ==
    LET rest == games % n_nodes
    IN  Over => total = games - (IF rest = 0 THEN 0 ELSE rest - 1)

==========================================================================
