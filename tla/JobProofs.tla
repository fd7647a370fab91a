----------------------------- MODULE JobProofs -----------------------------
(***************************************************************************)
(* Proofs about the results of a group, for every number of games and of   *)
(* nodes and every width of the counters.                                  *)
(***************************************************************************)
EXTENDS Job, SplitProofs, FiniteSetTheorems

--------------------------------------------------------------------------
(* Lemmas about results *)

\* A failed game has no winner, and no game has two.
LEMMA OneOutcome ==
    ASSUME NEW flags \in Outcomes
    PROVE  /\ ~{"GAME_EXCEPTION", "PLAYER1_WINNER"} \subseteq flags
           /\ ~{"GAME_EXCEPTION", "PLAYER2_WINNER"} \subseteq flags
           /\ ~{"PLAYER1_WINNER", "PLAYER2_WINNER"} \subseteq flags
<1>1. CASE flags = {"GAME_EXCEPTION"}
  BY <1>1
<1>2. ASSUME NEW reason \in {{}, {"REASON_TIMEOUT"}},
             NEW winner \in {{}, {"PLAYER1_WINNER"}, {"PLAYER2_WINNER"}},
             flags = reason \union winner
      PROVE  /\ "GAME_EXCEPTION" \notin flags
             /\ "PLAYER1_WINNER" \in flags => "PLAYER2_WINNER" \notin flags
  BY <1>2
<1> QED BY <1>1, <1>2 DEF Outcomes

\* A game scores for at most one of failed, won and lost, and a timeout only
\* with a win of the other agent.
LEMMA ScoredOnce ==
    ASSUME NEW flags \in Outcomes
    PROVE  /\ "games" \in Scored(flags)
           /\ "failed_games" \in Scored(flags) =>
                "win_agent1" \notin Scored(flags) /\ "win_agent2" \notin Scored(flags)
           /\ "win_agent1" \in Scored(flags) => "win_agent2" \notin Scored(flags)
           /\ "timeout_agent1" \in Scored(flags) => "win_agent2" \in Scored(flags)
           /\ "timeout_agent2" \in Scored(flags) => "win_agent1" \in Scored(flags)
<1>1. /\ "games" \in Scored(flags)
      /\ ("failed_games" \in Scored(flags)) <=> ("GAME_EXCEPTION" \in flags)
      /\ ("win_agent1" \in Scored(flags)) <=> ("PLAYER1_WINNER" \in flags)
      /\ ("win_agent2" \in Scored(flags)) <=> ("PLAYER2_WINNER" \in flags)
      /\ ("timeout_agent2" \in Scored(flags)) => ("PLAYER1_WINNER" \in flags)
      /\ ("timeout_agent1" \in Scored(flags)) => ("PLAYER2_WINNER" \in flags)
  BY DEF Scored
<1> QED BY <1>1, OneOutcome

\* Scoring a game keeps a result balanced.
LEMMA GameAddsUp ==
    ASSUME NEW r \in [Field -> Nat], AddsUp(r), NEW flags \in Outcomes,
           NEW s, s = [f \in Field |-> r[f] + IF f \in Scored(flags) THEN 1 ELSE 0]
    PROVE  /\ s \in [Field -> Nat]
           /\ AddsUp(s)
           /\ s["games"] = r["games"] + 1
<1> DEFINE S == Scored(flags)
<1>1. /\ "games" \in S
      /\ "failed_games" \in S => "win_agent1" \notin S /\ "win_agent2" \notin S
      /\ "win_agent1" \in S => "win_agent2" \notin S
      /\ "timeout_agent1" \in S => "win_agent2" \in S
      /\ "timeout_agent2" \in S => "win_agent1" \in S
  BY ScoredOnce
<1>2. s = [f \in Field |-> r[f] + IF f \in S THEN 1 ELSE 0]
  OBVIOUS
<1> HIDE DEF S
<1>3. s \in [Field -> Nat]
  BY <1>2
<1>4. /\ s["games"] = r["games"] + IF "games" \in S THEN 1 ELSE 0
      /\ s["failed_games"] = r["failed_games"] + IF "failed_games" \in S THEN 1 ELSE 0
      /\ s["win_agent1"] = r["win_agent1"] + IF "win_agent1" \in S THEN 1 ELSE 0
      /\ s["win_agent2"] = r["win_agent2"] + IF "win_agent2" \in S THEN 1 ELSE 0
      /\ s["timeout_agent1"] = r["timeout_agent1"] + IF "timeout_agent1" \in S THEN 1 ELSE 0
      /\ s["timeout_agent2"] = r["timeout_agent2"] + IF "timeout_agent2" \in S THEN 1 ELSE 0
  BY <1>2 DEF Field
<1>5. \A f \in Field : r[f] \in Nat
  OBVIOUS
<1> QED BY <1>1, <1>3, <1>4, <1>5 DEF AddsUp, Field

\* Adding two balanced results whose games fit wraps in no field.
LEMMA MergeAdds ==
    ASSUME NEW a \in [Field -> Nat], AddsUp(a), NEW b \in [Field -> Nat], AddsUp(b),
           a["games"] + b["games"] < Modulus
    PROVE  /\ Merge(a, b) \in [Field -> Nat]
           /\ \A f \in Field : Merge(a, b)[f] = a[f] + b[f]
           /\ AddsUp(Merge(a, b))
<1>1. \A f \in Field : a[f] \in Nat /\ b[f] \in Nat
  OBVIOUS
<1>2. \A f \in Field : a[f] <= a["games"] /\ b[f] <= b["games"]
  BY <1>1 DEF AddsUp, Field
<1>3. \A f \in Field : a[f] + b[f] \in Nat /\ a[f] + b[f] < Modulus
  <2>1. a["games"] \in Nat /\ b["games"] \in Nat /\ Modulus \in Nat
    BY <1>1, JobAssumption DEF Field
  <2> QED BY <1>1, <1>2, <2>1
<1>4. \A f \in Field : (a[f] + b[f]) % Modulus = a[f] + b[f]
  <2> TAKE f \in Field
  <2> DEFINE c == a[f] + b[f]
  <2>1. c \in Nat /\ c < Modulus /\ Modulus \in Nat
    BY <1>3, JobAssumption
  <2> HIDE DEF c
  <2>2. c % Modulus = c
    BY <2>1
  <2> QED BY <2>2 DEF c
<1>5. Merge(a, b) = [f \in Field |-> a[f] + b[f]]
  BY <1>4 DEF Merge
<1>6. \A f \in Field : Merge(a, b)[f] = a[f] + b[f]
  BY <1>5
<1>7. AddsUp(Merge(a, b))
  <2> DEFINE m == Merge(a, b)
  <2>1. \A f \in Field : m[f] = a[f] + b[f]
    BY <1>6
  <2> HIDE DEF m
  <2>2. AddsUp(m)
    BY <1>1, <2>1 DEF AddsUp, Field
  <2> QED BY <2>2 DEF m
<1>8. Merge(a, b) \in [Field -> Nat]
  BY <1>1, <1>5
<1> QED BY <1>6, <1>7, <1>8

\* Two quotients rounded down do not exceed the quotient of the sum.
LEMMA QuotientsSum ==
    ASSUME NEW a \in Nat, NEW b \in Nat, NEW n \in Nat \ {0}, a + b <= 100 * n
    PROVE  a \div n + b \div n <= 100
<1> DEFINE qa == a \div n
           qb == b \div n
<1>1. qa \in Nat /\ a >= n * qa
  BY DivMod
<1>2. qb \in Nat /\ b >= n * qb
  BY DivMod
<1> HIDE DEF qa, qb
<1>3. n * (qa + qb) <= 100 * n
  BY <1>1, <1>2
<1>4. ASSUME qa + qb >= 101 PROVE FALSE
  <2>1. n * (qa + qb) >= n * 101
    BY <1>1, <1>2, <1>4
  <2> QED BY <1>1, <1>2, <1>3, <2>1
<1>5. qa + qb <= 100
  BY <1>1, <1>2, <1>4
<1> QED BY <1>5 DEF qa, qb

--------------------------------------------------------------------------
(* The inductive invariant *)

\* The games of the sub-tasks not yet merged: the first has a share of its
\* own, the others have games \div n_nodes each.
Rest == (2..NumParts(games, n_nodes)) \ merged
Unreported ==
    (IF 1 \in merged THEN 0 ELSE Share(1, games, n_nodes))
        + Cardinality(Rest) * (games \div n_nodes)

\* The results, played and merged, are balanced; nothing is merged before the
\* split is over, and from then on the games merged and those to come are the
\* games dealt.
ResultsInv ==
    /\ games <= MaxGames /\ n_nodes <= MaxEligible
    /\ result \in [1..MaxEligible -> [Field -> Nat]]
    /\ \A k \in 1..MaxEligible : AddsUp(result[k])
    /\ merged \subseteq 1..Len(dealt)
    /\ aggregate \in [Field -> Nat]
    /\ AddsUp(aggregate)
    /\ draws \in Nat
    /\ aggregate["games"] = aggregate["failed_games"] + aggregate["win_agent1"]
                               + aggregate["win_agent2"] + draws
    /\ ~Over => merged = {} /\ aggregate = NoResult
    /\ Over => aggregate["games"] + Unreported = total

JobInv == SplitInv /\ ResultsInv

\* No result yet, nothing dealt.
LEMMA InitJobInv == JobInit => JobInv
<1> SUFFICES ASSUME JobInit PROVE JobInv
  OBVIOUS
<1>1. SplitInv
  BY InitSplitInv DEF JobInit
<1>2. games \in 0..MaxGames /\ n_nodes \in 1..MaxEligible /\ i = 1 /\ dealt = <<>>
  BY DEF JobInit, SplitInit
<1>3. NoResult \in [Field -> Nat] /\ AddsUp(NoResult) /\ \A f \in Field : NoResult[f] = 0
  BY DEF NoResult, AddsUp, Field
<1>4. ~Over
  BY <1>2, SplitBounds DEF Over
<1> QED BY <1>1, <1>2, <1>3, <1>4, SplitBounds DEF JobInit, JobInv, ResultsInv, Field

\* When the split ends, what is unreported is all that was dealt.
LEMMA AllUnreported == SplitInv /\ Over /\ merged = {} => Unreported = total
<1> SUFFICES ASSUME SplitInv, Over, merged = {} PROVE Unreported = total
  OBVIOUS
<1> DEFINE N == NumParts(games, n_nodes)
           q == games \div n_nodes
           s == Share(1, games, n_nodes)
           c == Cardinality(2..N)
<1>1. games \in Nat /\ n_nodes \in Nat \ {0} /\ i = n_nodes + 1
  BY DEF SplitInv, Over
<1>2. total = s + (n_nodes - 1) * q
  <2>1. i # 1 /\ i - 2 = n_nodes - 1
    BY <1>1
  <2> QED BY <2>1 DEF SplitInv
<1>3. Unreported = s + c * q
  BY DEF Unreported, Rest
<1>4. q \in Nat
  BY <1>1, DivMod
<1>5. s \in Nat
  <2>1. 1 \in 1..n_nodes
    BY <1>1
  <2> QED BY <1>1, <2>1, Shares
<1>6. CASE games >= n_nodes
  <2>1. N = n_nodes
    BY <1>1, <1>6 DEF NumParts
  <2>2. c = n_nodes - 1
    BY <1>1, <2>1, FS_Interval
  <2> QED BY <1>2, <1>3, <2>2
<1>7. CASE games < n_nodes
  <2>1. games = n_nodes * 0 + games /\ games \in 0..(n_nodes - 1)
    BY <1>1, <1>7
  <2>2. q = 0
    BY <1>1, <2>1, DivUnique
  <2>3. N \in Nat
    BY <1>1 DEF NumParts
  <2>4. c \in Nat
    BY <2>3, FS_Interval, FS_CardinalityType
  <2> HIDE DEF N, q, s, c
  <2>5. c * q = 0 /\ (n_nodes - 1) * q = 0
    BY <1>1, <2>2, <2>4
  <2> QED BY <1>2, <1>3, <1>5, <2>5
<1> QED BY <1>1, <1>6, <1>7

\* A turn of the split's loop.
LEMMA DealKeeps ==
    ASSUME JobInv, DealStep
    PROVE  JobInv'
<1>1. SplitInv'
  BY NextSplitInv DEF JobInv, DealStep
<1>2. /\ i \in Nat /\ i' = i + 1 /\ i <= n_nodes /\ n_nodes \in Nat
      /\ UNCHANGED <<games, n_nodes>> /\ UNCHANGED <<result, merged, aggregate, draws>>
  BY DEF JobInv, SplitInv, DealStep, SplitNext, playVars
<1>3. ~Over /\ merged = {} /\ aggregate = NoResult
  BY <1>2 DEF JobInv, ResultsInv, Over
<1>4. (SplitInv /\ Over /\ merged = {} => Unreported = total)'
  BY AllUnreported, PTL
<1>5. Over' => aggregate'["games"] + Unreported' = total'
  <2> SUFFICES ASSUME Over' PROVE aggregate'["games"] + Unreported' = total'
    OBVIOUS
  <2>1. Unreported' = total'
    BY <1>1, <1>2, <1>3, <1>4
  <2>2. total' \in Int
    <3>1. Share(1, games, n_nodes) \in Nat /\ games \div n_nodes \in Nat
      <4>1. games \in Nat /\ n_nodes \in Nat \ {0} /\ 1 \in 1..n_nodes
        BY <1>2 DEF JobInv, SplitInv
      <4> QED BY <4>1, Shares, DivMod
    <3> QED BY <1>1, <1>2, <3>1 DEF SplitInv
  <2>3. aggregate'["games"] = 0
    BY <1>2, <1>3 DEF NoResult, Field
  <2>4. \A t \in Int : 0 + t = t
    OBVIOUS
  <2> QED BY <2>1, <2>2, <2>3, <2>4
<1>6. /\ games <= MaxGames /\ n_nodes <= MaxEligible
      /\ result \in [1..MaxEligible -> [Field -> Nat]]
      /\ \A k \in 1..MaxEligible : AddsUp(result[k])
      /\ aggregate \in [Field -> Nat] /\ AddsUp(aggregate) /\ draws \in Nat
      /\ aggregate["games"] = aggregate["failed_games"] + aggregate["win_agent1"]
                               + aggregate["win_agent2"] + draws
  BY DEF JobInv, ResultsInv
<1>7. /\ games' <= MaxGames /\ n_nodes' <= MaxEligible
      /\ result' \in [1..MaxEligible -> [Field -> Nat]]
      /\ \A k \in 1..MaxEligible : AddsUp(result'[k])
      /\ aggregate' \in [Field -> Nat] /\ AddsUp(aggregate') /\ draws' \in Nat
      /\ aggregate'["games"] = aggregate'["failed_games"] + aggregate'["win_agent1"]
                               + aggregate'["win_agent2"] + draws'
  BY <1>2, <1>6
<1> QED BY <1>1, <1>2, <1>3, <1>5, <1>7 DEF JobInv, ResultsInv

\* There is no sub-task beyond the last eligible node.
LEMMA DealtBound ==
    ASSUME SplitInv, n_nodes <= MaxEligible
    PROVE  Len(dealt) \in Nat /\ 1..Len(dealt) \subseteq 1..MaxEligible
<1> DEFINE N == NumParts(games, n_nodes)
           m == IF i <= N THEN i - 1 ELSE N
<1>1. games \in Nat /\ n_nodes \in Nat \ {0} /\ i \in Nat \ {0}
  BY DEF SplitInv
<1>2. N \in 0..n_nodes
  BY <1>1, SharesNotEmpty
<1>3. dealt = [j \in 1..m |-> n_games[j]]
  BY DEF SplitInv
<1> HIDE DEF N
<1>4. m \in Nat /\ m <= N
  BY <1>1, <1>2
<1> HIDE DEF m
<1>5. Len(dealt) = m
  BY <1>3, <1>4
<1> QED BY <1>1, <1>2, <1>4, <1>5, SplitBounds

\* The split deals no more games than asked for (from SplitInv).
LEMMA DealtFits ==
    ASSUME SplitInv, Over
    PROVE  total <= games
<1>1. Loss
  BY SplitLoses
<1>2. games \in Nat /\ n_nodes \in Nat \ {0}
  BY DEF SplitInv
<1>3. games % n_nodes \in Nat
  BY <1>2, DivMod
<1> QED BY <1>1, <1>2, <1>3 DEF Loss

\* Once all sub-tasks are merged nothing is unreported.
LEMMA NoneUnreported ==
    ASSUME SplitInv, Over, merged = 1..Len(dealt)
    PROVE  Unreported = 0
<1> DEFINE N == NumParts(games, n_nodes)
           q == games \div n_nodes
           s == Share(1, games, n_nodes)
<1>1. games \in Nat /\ n_nodes \in Nat \ {0} /\ i = n_nodes + 1 /\ 1 \in 1..n_nodes
  BY DEF SplitInv, Over
<1>2. N \in 0..n_nodes /\ (s # 0 <=> 1 <= N)
  BY <1>1, SharesNotEmpty
<1>3. Len(dealt) = N
  <2>1. ~(i <= N)
    BY <1>1, <1>2
  <2>2. dealt = [j \in 1..N |-> n_games[j]]
    BY <2>1 DEF SplitInv
  <2> QED BY <1>2, <2>2
<1>4. Rest = {}
  BY <1>2, <1>3 DEF Rest
<1>5. Cardinality(Rest) = 0
  BY <1>4, FS_EmptySet
<1>6. (IF 1 \in merged THEN 0 ELSE s) = 0
  BY <1>2, <1>3
<1>7. q \in Nat
  BY <1>1, DivMod
<1> QED BY <1>5, <1>6, <1>7 DEF Unreported

\* A game of a sub-task.
LEMMA PlayKeeps ==
    ASSUME JobInv, NEW k \in 1..Len(dealt), PlayGame(k)
    PROVE  JobInv'
<1>1. SplitInv' /\ SplitInv
  BY DEF JobInv, PlayGame, SplitInv, splitVars
<1>2. k \in 1..MaxEligible
  BY <1>1, DealtBound DEF JobInv, ResultsInv
<1>3. PICK flags \in Outcomes :
        result' = [result EXCEPT ![k] =
            [f \in Field |-> result[k][f] + IF f \in Scored(flags) THEN 1 ELSE 0]]
  BY DEF PlayGame
<1>4. result[k] \in [Field -> Nat] /\ AddsUp(result[k])
  BY <1>2 DEF JobInv, ResultsInv
<1>5. /\ result'[k] = [f \in Field |-> result[k][f] + IF f \in Scored(flags) THEN 1 ELSE 0]
      /\ \A j \in 1..MaxEligible : j # k => result'[j] = result[j]
      /\ result' = [result EXCEPT ![k] = result'[k]]
  BY <1>2, <1>3 DEF JobInv, ResultsInv
<1>6. result'[k] \in [Field -> Nat] /\ AddsUp(result'[k])
  BY <1>4, <1>5, GameAddsUp
<1>7. /\ result' \in [1..MaxEligible -> [Field -> Nat]]
      /\ \A j \in 1..MaxEligible : AddsUp(result'[j])
  BY <1>2, <1>5, <1>6 DEF JobInv, ResultsInv
<1>8. UNCHANGED <<games, n_nodes, n_games, i, dealt, total, merged, aggregate, draws>>
  BY DEF PlayGame, splitVars
<1>9. /\ Over' = Over /\ Unreported' = Unreported
  BY <1>8 DEF Over, Unreported, Rest
<1> QED BY <1>1, <1>7, <1>8, <1>9 DEF JobInv, ResultsInv

\* What merging sub-task k takes from the games not yet reported.
LEMMA ReportTakes ==
    ASSUME JobInv, NEW k \in 1..Len(dealt), Report(k)
    PROVE  /\ dealt[k] \in Nat /\ Unreported \in Nat /\ Unreported' \in Nat
           /\ Unreported = Unreported' + dealt[k]
<1> DEFINE N == NumParts(games, n_nodes)
           q == games \div n_nodes
           s == Share(1, games, n_nodes)
<1>1. /\ games \in Nat /\ n_nodes \in Nat \ {0} /\ Over
      /\ UNCHANGED <<games, n_nodes>> /\ k \notin merged /\ merged' = merged \union {k}
  BY DEF JobInv, SplitInv, Report, splitVars, Over
<1>2. N \in 0..n_nodes
  BY <1>1, SharesNotEmpty
<1>3. dealt = [j \in 1..N |-> n_games[j]] /\ Len(dealt) = N
  <2>1. ~(i <= N)
    BY <1>1, <1>2 DEF Over, JobInv, SplitInv
  <2>2. dealt = [j \in 1..N |-> n_games[j]]
    BY <2>1 DEF JobInv, SplitInv
  <2> QED BY <1>2, <2>2
<1>4. q \in Nat /\ s \in Nat
  <2>1. 1 \in 1..n_nodes
    BY <1>1
  <2> QED BY <1>1, <2>1, DivMod, Shares
<1>5. dealt[k] = Share(k, games, n_nodes)
  <2>1. k \in 1..N /\ k \in 1..n_nodes
    BY <1>1, <1>2, <1>3
  <2> QED BY <1>3, <2>1 DEF JobInv, SplitInv
<1>6. IsFiniteSet(Rest) /\ Cardinality(Rest) \in Nat
  <2>1. IsFiniteSet(2..N)
    BY <1>2, FS_Interval
  <2>2. Rest \subseteq 2..N
    BY DEF Rest
  <2> QED BY <2>1, <2>2, FS_Subset, FS_CardinalityType
<1>7. Rest' = Rest \ {k}
  BY <1>1 DEF Rest
<1>8. /\ IsFiniteSet(Rest')
      /\ Cardinality(Rest') = IF k \in Rest THEN Cardinality(Rest) - 1 ELSE Cardinality(Rest)
  BY <1>6, <1>7, FS_RemoveElement
<1>9. /\ Unreported = (IF 1 \in merged THEN 0 ELSE s) + Cardinality(Rest) * q
      /\ Unreported' = (IF 1 \in merged \union {k} THEN 0 ELSE s) + Cardinality(Rest') * q
  BY <1>1 DEF Unreported
<1>10. k = 1 \/ k \in 2..N
  BY <1>2, <1>3
<1>11. /\ Cardinality(Rest') \in Nat
  BY <1>8, FS_CardinalityType
<1>12. CASE k = 1
  <2>1. k \notin Rest
    BY <1>12 DEF Rest
  <2>2. dealt[k] = s
    BY <1>5, <1>12
  <2> DEFINE c == Cardinality(Rest)
  <2>3. c \in Nat /\ c * q \in Nat
    BY <1>4, <1>6
  <2>4. Unreported = s + c * q /\ Unreported' = 0 + c * q
    BY <1>1, <1>8, <1>9, <1>12, <2>1
  <2> HIDE DEF c, q, s
  <2> QED BY <1>4, <2>2, <2>3, <2>4
<1>13. CASE k \in 2..N
  <2>1. k \in Rest /\ k # 1
    BY <1>1, <1>13 DEF Rest
  <2>2. dealt[k] = q
    <3>1. k \in 2..n_nodes
      BY <1>1, <1>2, <1>13
    <3> QED BY <1>1, <1>5, <3>1, Shares
  <2> DEFINE c == Cardinality(Rest)
             c1 == Cardinality(Rest')
             t == IF 1 \in merged THEN 0 ELSE s
  <2>3. c = c1 + 1 /\ c1 \in Nat /\ c \in Nat
    BY <1>6, <1>8, <1>11, <2>1
  <2>4. Unreported = t + c * q /\ Unreported' = t + c1 * q
    BY <1>9, <2>1
  <2>5. t \in Nat
    BY <1>4
  <2> HIDE DEF c, c1, q, s, t
  <2>6. c * q = c1 * q + q /\ c1 * q \in Nat
    BY <1>4, <2>3
  <2> QED BY <1>4, <2>2, <2>4, <2>5, <2>6
<1> QED BY <1>10, <1>12, <1>13

\* Two results in which every game has one column, added column by column.
LEMMA ColumnsAdd ==
    ASSUME NEW a \in [Field -> Nat], NEW b \in [Field -> Nat], AddsUp(b), NEW d \in Nat,
           a["games"] = a["failed_games"] + a["win_agent1"] + a["win_agent2"] + d,
           NEW m, \A f \in Field : m[f] = a[f] + b[f]
    PROVE  /\ d + Undecided(b) \in Nat
           /\ m["games"] = m["failed_games"] + m["win_agent1"] + m["win_agent2"]
                              + (d + Undecided(b))
<1> DEFINE u == b["games"] - b["failed_games"] - b["win_agent1"] - b["win_agent2"]
<1>1. \A f \in Field : a[f] \in Nat /\ b[f] \in Nat
  OBVIOUS
<1>2. /\ m["games"] = a["games"] + b["games"]
      /\ m["failed_games"] = a["failed_games"] + b["failed_games"]
      /\ m["win_agent1"] = a["win_agent1"] + b["win_agent1"]
      /\ m["win_agent2"] = a["win_agent2"] + b["win_agent2"]
  BY DEF Field
<1>3. u \in Nat
  BY <1>1 DEF AddsUp, Field
<1>4. m["games"] = m["failed_games"] + m["win_agent1"] + m["win_agent2"] + (d + u)
  BY <1>1, <1>2 DEF Field
<1> QED BY <1>3, <1>4 DEF Undecided

\* A sub-task is merged.
LEMMA ReportKeeps ==
    ASSUME JobInv, NEW k \in 1..Len(dealt), Report(k)
    PROVE  JobInv'
<1>1. SplitInv /\ SplitInv' /\ ResultsInv
  BY DEF JobInv, Report, SplitInv, splitVars
<1>2. /\ UNCHANGED <<games, n_nodes, n_games, i, dealt, total, result>>
      /\ Over /\ Over'
      /\ result[k]["games"] = dealt[k]
      /\ aggregate' = Merge(aggregate, result[k])
      /\ merged' = merged \union {k}
      /\ draws' = draws + Undecided(result[k])
  BY DEF Report, splitVars, Over, JobInv, SplitInv
<1>3. k \in 1..MaxEligible
  BY <1>1, DealtBound DEF ResultsInv
<1>4. result[k] \in [Field -> Nat] /\ AddsUp(result[k])
  BY <1>1, <1>3 DEF ResultsInv
<1>5. aggregate \in [Field -> Nat] /\ AddsUp(aggregate)
  BY <1>1 DEF ResultsInv
<1>6. /\ dealt[k] \in Nat /\ Unreported \in Nat /\ Unreported' \in Nat
      /\ Unreported = Unreported' + dealt[k]
      /\ aggregate["games"] + Unreported = total
  BY <1>1, <1>2, ReportTakes DEF ResultsInv
<1>7. total <= games
  BY <1>1, <1>2, DealtFits
<1>8. aggregate["games"] + result[k]["games"] < Modulus
  <2>1. aggregate["games"] \in Nat
    BY <1>5 DEF Field
  <2>2. /\ games \in Nat /\ games <= MaxGames /\ MaxGames \in Nat /\ Modulus \in Nat
        /\ MaxGames < Modulus
    BY <1>1, SplitBounds, JobAssumption DEF ResultsInv, SplitInv
  <2> QED BY <1>2, <1>6, <1>7, <2>1, <2>2
<1>9. /\ aggregate' \in [Field -> Nat]
      /\ \A f \in Field : aggregate'[f] = aggregate[f] + result[k][f]
      /\ AddsUp(aggregate')
  BY <1>2, <1>4, <1>5, <1>8, MergeAdds
<1>10. \A f \in Field : aggregate[f] \in Nat /\ result[k][f] \in Nat
  BY <1>4, <1>5
<1>11. /\ draws' \in Nat
       /\ aggregate'["games"] = aggregate'["failed_games"] + aggregate'["win_agent1"]
                                   + aggregate'["win_agent2"] + draws'
  <2>1. draws \in Nat /\ aggregate["games"] = aggregate["failed_games"]
           + aggregate["win_agent1"] + aggregate["win_agent2"] + draws
    BY <1>1 DEF ResultsInv
  <2> DEFINE m == aggregate'
             r == result[k]
  <2>2. \A f \in Field : m[f] = aggregate[f] + r[f]
    BY <1>9
  <2>3. aggregate \in [Field -> Nat] /\ r \in [Field -> Nat] /\ AddsUp(r)
    BY <1>4, <1>5
  <2> HIDE DEF m, r
  <2>4. /\ draws + Undecided(r) \in Nat
        /\ m["games"] = m["failed_games"] + m["win_agent1"] + m["win_agent2"]
                           + (draws + Undecided(r))
    BY <2>1, <2>2, <2>3, ColumnsAdd, ZenonT(60)
  <2>5. draws' = draws + Undecided(r)
    BY <1>2 DEF r
  <2> QED BY <2>4, <2>5 DEF m
<1>12. aggregate'["games"] + Unreported' = total
  <2>1. aggregate'["games"] = aggregate["games"] + dealt[k] /\ aggregate["games"] \in Nat
    BY <1>2, <1>9, <1>10 DEF Field
  <2> QED BY <1>6, <2>1
<1>13. merged' \subseteq 1..Len(dealt)
  BY <1>1, <1>2 DEF ResultsInv
<1>14. ResultsInv'
  BY <1>1, <1>2, <1>9, <1>11, <1>12, <1>13 DEF ResultsInv
<1> QED BY <1>1, <1>14 DEF JobInv

\* The invariant holds in every state.
THEOREM JobInvariant == JobSpec => []JobInv
<1>1. JobInv /\ [JobNext]_jobVars => JobInv'
  <2> SUFFICES ASSUME JobInv, [JobNext]_jobVars PROVE JobInv'
    OBVIOUS
  <2>1. CASE UNCHANGED jobVars
    <3>1. UNCHANGED splitVars /\ UNCHANGED playVars
      BY <2>1 DEF jobVars
    <3>2. SplitInv'
      BY <3>1 DEF splitVars, JobInv, SplitInv
    <3>3. Over' = Over /\ Unreported' = Unreported
      BY <3>1 DEF splitVars, playVars, Over, Unreported, Rest
    <3>4. ResultsInv'
      BY <3>1, <3>3 DEF splitVars, playVars, JobInv, ResultsInv
    <3> QED BY <3>2, <3>4 DEF JobInv
  <2>2. CASE JobNext
    BY <2>2, DealKeeps, PlayKeeps, ReportKeeps DEF JobNext
  <2> QED BY <2>1, <2>2
<1> QED BY <1>1, InitJobInv, PTL DEF JobSpec

\* Every result a node sends and the operator reads adds up, for any number of
\* games and nodes.
THEOREM BalancedAlways == JobSpec => []Balanced
<1>1. JobInv => Balanced
  <2> SUFFICES ASSUME JobInv PROVE Balanced
    OBVIOUS
  <2>1. 1..Len(dealt) \subseteq 1..MaxEligible
    BY DealtBound DEF JobInv, ResultsInv
  <2> QED BY <2>1 DEF Balanced, JobInv, ResultsInv
<1> QED BY <1>1, JobInvariant, PTL

\* No game is lost, counted twice or wrapped on the way to the aggregate.
THEOREM NothingIsLost == JobSpec => []NothingLost
<1>1. JobInv => NothingLost
  <2> SUFFICES ASSUME JobInv, Over, merged = 1..Len(dealt)
               PROVE  /\ aggregate["games"] = total
                      /\ aggregate["failed_games"] + aggregate["win_agent1"]
                            + aggregate["win_agent2"] + draws = total
    BY DEF NothingLost
  <2>1. Unreported = 0 
    BY NoneUnreported DEF JobInv
  <2>2. \A f \in Field : aggregate[f] \in Nat
    BY DEF JobInv, ResultsInv
  <2>3. aggregate["games"] = total
    BY <2>1, <2>2 DEF JobInv, ResultsInv, Field
  <2> QED BY <2>3 DEF JobInv, ResultsInv
<1> QED BY <1>1, JobInvariant, PTL

\* The two percentages sum to at most 100 while the products fit in a uint32_t.
THEOREM PercentagesAlwaysFit == JobSpec => []PercentagesFit
<1>1. JobInv => PercentagesFit
  <2> SUFFICES ASSUME JobInv, aggregate["win_agent1"] * 100 < Modulus,
                      aggregate["win_agent2"] * 100 < Modulus
               PROVE  Percent(aggregate["win_agent1"], aggregate["games"])
                        + Percent(aggregate["win_agent2"], aggregate["games"]) <= 100
    BY DEF PercentagesFit
  <2> DEFINE g == aggregate["games"]
             a == aggregate["win_agent1"]
             b == aggregate["win_agent2"]
  <2>1. \A f \in Field : aggregate[f] \in Nat
    BY DEF JobInv, ResultsInv
  <2>2. g \in Nat /\ a \in Nat /\ b \in Nat /\ a + b <= g
    BY <2>1 DEF JobInv, ResultsInv, AddsUp, Field
  <2>3. a * 100 \in Nat /\ b * 100 \in Nat /\ Modulus \in Nat
    BY <2>2, JobAssumption
  <2>4. (a * 100) % Modulus = a * 100 /\ (b * 100) % Modulus = b * 100
    BY <2>3
  <2> HIDE DEF g, a, b
  <2>5. CASE g = 0
    BY <2>5 DEF Percent, g, a, b
  <2>6. CASE g > 0
    <3>1. a * 100 + b * 100 <= 100 * g
      BY <2>2
    <3>2. (a * 100) \div g + (b * 100) \div g <= 100
      BY <2>2, <2>3, <2>6, <3>1, QuotientsSum
    <3>3. Percent(a, g) + Percent(b, g) <= 100
      BY <2>4, <2>6, <3>2 DEF Percent
    <3> QED BY <3>3 DEF g, a, b
  <2> QED BY <2>2, <2>5, <2>6
<1> QED BY <1>1, JobInvariant, PTL

==========================================================================
