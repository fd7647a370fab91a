-------------------------------- MODULE Job --------------------------------
(***************************************************************************)
(* The games of one group, from NUM_GAMES to the aggregate the operator    *)
(* reads: the split of command_task (SplitLoop), the loop of execute_task  *)
(* on each node with the outcome of every game, and the sums and           *)
(* percentages of result.h.  Who executes a sub-task and whether a result  *)
(* counts belong to Coordinator; here each sub-task is counted once.       *)
(***************************************************************************)
EXTENDS SplitLoop, FiniteSets

CONSTANTS Modulus,  \* 2^32, the numbers of a uint32_t
          MaxPlay   \* bound on the games of a group that is played

ASSUME JobAssumption ==
    /\ Modulus \in Nat
    /\ MaxGames < Modulus
    /\ MaxPlay \in Nat

VARIABLES
    result,     \* the result of each sub-task, as far as it is played
    merged,     \* the sub-tasks whose results are in the aggregate
    aggregate,  \* aggregate_result of the group
    draws       \* the games merged that nobody has won (history variable)

playVars == <<result, merged, aggregate, draws>>
jobVars == <<splitVars, playVars>>

Field == {"games", "failed_games", "win_agent1", "win_agent2",
          "timeout_agent1", "timeout_agent2"}

NoResult == [f \in Field |-> 0]

JobInit ==
    /\ SplitInit
    /\ result = [k \in 1..MaxEligible |-> NoResult]
    /\ merged = {}
    /\ aggregate = NoResult
    /\ draws = 0

--------------------------------------------------------------------------
\* What launch_subprocess makes of the output and the exit status of a game.
Outcomes ==
    {{"GAME_EXCEPTION"}}
    \union {reason \union winner : reason \in {{}, {"REASON_TIMEOUT"}},
                                   winner \in {{}, {"PLAYER1_WINNER"}, {"PLAYER2_WINNER"}}}

\* Mistake, for testing the properties: the winner is charged with the timeout.
ScoredSwapped(flags) ==
    {"games"}
    \union (IF "GAME_EXCEPTION" \in flags THEN {"failed_games"} ELSE {})
    \union (IF "PLAYER1_WINNER" \in flags THEN {"win_agent1"} ELSE {})
    \union (IF "PLAYER2_WINNER" \in flags THEN {"win_agent2"} ELSE {})
    \union (IF {"PLAYER1_WINNER", "REASON_TIMEOUT"} \subseteq flags THEN {"timeout_agent1"} ELSE {})
    \union (IF {"PLAYER2_WINNER", "REASON_TIMEOUT"} \subseteq flags THEN {"timeout_agent2"} ELSE {})

\* The counters execute_task increments for a game; a game that failed has no
\* winner.
Scored(flags) ==
    {"games"}
    \union (IF "GAME_EXCEPTION" \in flags THEN {"failed_games"} ELSE {})
    \union (IF "PLAYER1_WINNER" \in flags THEN {"win_agent1"} ELSE {})
    \union (IF "PLAYER2_WINNER" \in flags THEN {"win_agent2"} ELSE {})
    \union (IF {"PLAYER1_WINNER", "REASON_TIMEOUT"} \subseteq flags THEN {"timeout_agent2"} ELSE {})
    \union (IF {"PLAYER2_WINNER", "REASON_TIMEOUT"} \subseteq flags THEN {"timeout_agent1"} ELSE {})

\* One turn of the loop of execute_task for sub-task k.
PlayGame(k) ==
    /\ games <= MaxPlay
    /\ result[k]["games"] < dealt[k]
    /\ \E flags \in Outcomes :
        result' = [result EXCEPT ![k] =
            [f \in Field |-> @[f] + IF f \in Scored(flags) THEN 1 ELSE 0]]
    /\ UNCHANGED <<splitVars, merged, aggregate, draws>>

\* Mistake, for testing the properties: the failed games are not added up.
MergeWon(a, b) ==
    [f \in Field |-> IF f = "failed_games" THEN a[f] ELSE (a[f] + b[f]) % Modulus]

\* Result::merge.
Merge(a, b) == [f \in Field |-> (a[f] + b[f]) % Modulus]

\* The games of a result that are neither won nor failed.
Undecided(r) == r["games"] - r["failed_games"] - r["win_agent1"] - r["win_agent2"]

\* The loop of sub-task k is over, and the handler merges its result: it gets
\* the mutexes when command_task has released them.
Report(k) ==
    /\ i > n_nodes
    /\ k \notin merged
    /\ result[k]["games"] = dealt[k]
    /\ aggregate' = Merge(aggregate, result[k])
    /\ merged' = merged \union {k}
    /\ draws' = draws + Undecided(result[k])
    /\ UNCHANGED <<splitVars, result>>

DealStep == SplitNext /\ UNCHANGED playVars

JobNext == DealStep \/ \E k \in 1..Len(dealt) : PlayGame(k) \/ Report(k)

JobSpec == JobInit /\ [][JobNext]_jobVars

--------------------------------------------------------------------------
\* Mistake, for testing the properties: rounded up.
PercentUp(won, played) ==
    IF played > 0 THEN (((won * 100) % Modulus) + played - 1) \div played ELSE 0

\* The percentage of games won, as operator<< computes it.
Percent(won, played) ==
    IF played > 0 THEN ((won * 100) % Modulus) \div played ELSE 0

\* A result adds up: a game is failed, won by one agent or a draw, and an agent
\* that timed out has lost that game ("implies other player has won the game",
\* result.h:12).
AddsUp(r) ==
    /\ r["failed_games"] + r["win_agent1"] + r["win_agent2"] <= r["games"]
    /\ r["timeout_agent1"] <= r["win_agent2"]
    /\ r["timeout_agent2"] <= r["win_agent1"]

\* What nodes send and the operator reads adds up, through every game and
\* every addition modulo 2^32 (execute.cpp:92-120, result.h:23-32).
Balanced == AddsUp(aggregate) /\ \A k \in 1..Len(dealt) : AddsUp(result[k])

\* When all sub-tasks have reported, the aggregate has every game that was
\* dealt, each in one column or a draw: nothing wraps, because no more games
\* are dealt than NUM_GAMES (commands.cpp:171-205, result.h:23-32).
NothingLost ==
    Over /\ merged = 1..Len(dealt) =>
        /\ aggregate["games"] = total
        /\ aggregate["failed_games"] + aggregate["win_agent1"]
              + aggregate["win_agent2"] + draws = total

\* The percentages the operator reads never sum to more than 100, as long as
\* win_agent1 * 100 fits in a uint32_t; beyond it they mean nothing
\* (result.h:17-18).
PercentagesFit ==
    LET played == aggregate["games"]
        won1 == aggregate["win_agent1"]
        won2 == aggregate["win_agent2"]
    IN  won1 * 100 < Modulus /\ won2 * 100 < Modulus =>
            Percent(won1, played) + Percent(won2, played) <= 100

==========================================================================
