---------------------------- MODULE GameSplit ----------------------------
(***************************************************************************)
(* How the coordinator's command `task` divides NUM_GAMES games among the  *)
(* eligible nodes (commands.cpp, command_task).  The sizes are computed in *)
(* size_t, so no sum of a uint32_t count and a number of nodes wraps.      *)
(***************************************************************************)
EXTENDS Integers

\* Mistake, for testing the properties: the first share is rounded down too.
ShareRoundedDown(i, games, n) == games \div n

\* n_games[i]: the first node's share is rounded up, every other one down.
Share(i, games, n) ==
    IF i = 1 THEN (games + n - 1) \div n ELSE games \div n

\* The number of sub-tasks made for n nodes: the loop skips empty shares.
NumParts(games, n) ==
    IF games = 0 THEN 0 ELSE IF games < n THEN 1 ELSE n

==========================================================================
