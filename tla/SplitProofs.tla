---------------------------- MODULE SplitProofs ----------------------------
(***************************************************************************)
(* Proofs about the split of command_task, for every number of games and   *)
(* of eligible nodes.                                                      *)
(***************************************************************************)
EXTENDS SplitLoop, TLAPS

--------------------------------------------------------------------------
(* Lemmas about the shares *)

\* Division with remainder.
LEMMA DivMod ==
    ASSUME NEW a \in Nat, NEW n \in Nat \ {0}
    PROVE  /\ a \div n \in Nat /\ a % n \in 0..(n - 1)
           /\ a = n * (a \div n) + (a % n)
OBVIOUS

\* The quotient of a division is the only one with a remainder below n.
LEMMA DivUnique ==
    ASSUME NEW a \in Nat, NEW n \in Nat \ {0}, NEW q \in Nat, NEW r \in 0..(n - 1),
           a = n * q + r
    PROVE  a \div n = q
<1> DEFINE q1 == a \div n
           r1 == a % n
<1>1. q1 \in Nat /\ r1 \in 0..(n - 1) /\ a = n * q1 + r1
  BY DivMod
<1> HIDE DEF q1, r1
<1>2. n * (q1 - q) = r - r1
  BY <1>1
<1>3. ASSUME q1 >= q + 1 PROVE FALSE
  <2>1. n * (q1 - q) >= n
    BY <1>1, <1>3
  <2> QED BY <1>1, <1>2, <2>1
<1>4. ASSUME q >= q1 + 1 PROVE FALSE
  <2>1. n * (q - q1) >= n
    BY <1>1, <1>4
  <2>2. n * (q - q1) = r1 - r
    BY <1>1
  <2> QED BY <1>1, <2>1, <2>2
<1>5. q1 = q
  BY <1>1, <1>3, <1>4
<1> QED BY <1>5 DEF q1

\* The first share is the quotient rounded up, every other one down.
LEMMA Shares ==
    ASSUME NEW a \in Nat, NEW n \in Nat \ {0}
    PROVE  /\ Share(1, a, n) = a \div n + (IF a % n = 0 THEN 0 ELSE 1)
           /\ \A k \in 2..n : Share(k, a, n) = a \div n
           /\ \A k \in 1..n : Share(k, a, n) \in Nat
<1> DEFINE q == a \div n
           r == a % n
<1>1. q \in Nat /\ r \in 0..(n - 1) /\ a = n * q + r
  BY DivMod
<1> HIDE DEF q, r
<1>2. CASE r = 0
  <2>1. a + n - 1 = n * q + (n - 1) /\ a + n - 1 \in Nat /\ n - 1 \in 0..(n - 1)
    BY <1>1, <1>2
  <2>2. (a + n - 1) \div n = q
    BY <1>1, <2>1, DivUnique
  <2> QED BY <1>1, <1>2, <2>2 DEF Share, q, r
<1>3. CASE r # 0
  <2>1. /\ a + n - 1 = n * (q + 1) + (r - 1) /\ a + n - 1 \in Nat
        /\ r - 1 \in 0..(n - 1) /\ q + 1 \in Nat
    BY <1>1, <1>3
  <2>2. (a + n - 1) \div n = q + 1
    BY <2>1, DivUnique
  <2> QED BY <1>1, <1>3, <2>2 DEF Share, q, r
<1> QED BY <1>2, <1>3

\* Exactly the first NumParts nodes get a game.
LEMMA SharesNotEmpty ==
    ASSUME NEW a \in Nat, NEW n \in Nat \ {0}
    PROVE  /\ NumParts(a, n) \in 0..n
           /\ \A k \in 1..n : (Share(k, a, n) # 0) <=> (k <= NumParts(a, n))
<1> DEFINE q == a \div n
           r == a % n
<1>1. q \in Nat /\ r \in 0..(n - 1) /\ a = n * q + r
  BY DivMod
<1>2. /\ Share(1, a, n) = q + (IF r = 0 THEN 0 ELSE 1)
      /\ \A k \in 2..n : Share(k, a, n) = q
  BY Shares
<1> HIDE DEF q, r
<1>3. CASE a >= n
  <2>1. q # 0
    BY <1>1, <1>3
  <2>2. NumParts(a, n) = n
    BY <1>3 DEF NumParts
  <2>3. \A k \in 1..n : Share(k, a, n) # 0
    <3> TAKE k \in 1..n
    <3>1. k = 1 \/ k \in 2..n
      OBVIOUS
    <3> QED BY <1>1, <1>2, <2>1, <3>1
  <2> QED BY <2>2, <2>3
<1>4. CASE a < n
  <2>1. q = 0
    <3>1. a = n * 0 + a /\ a \in 0..(n - 1)
      BY <1>4
    <3> QED BY <3>1, DivUnique DEF q
  <2>2. r = a
    BY <1>1, <2>1
  <2>3. NumParts(a, n) = IF a = 0 THEN 0 ELSE 1
    BY <1>4 DEF NumParts
  <2>4. \A k \in 1..n : Share(k, a, n) = IF k = 1 /\ a # 0 THEN 1 ELSE 0
    <3> TAKE k \in 1..n
    <3>1. k = 1 \/ k \in 2..n
      OBVIOUS
    <3> QED BY <1>2, <2>1, <2>2, <3>1
  <2> QED BY <2>3, <2>4
<1> QED BY <1>3, <1>4

--------------------------------------------------------------------------
(* The loop *)

\* The sub-tasks made so far are those of the first nodes, as far as their
\* shares are not empty, and total is the sum of the shares passed.
SplitInv ==
    /\ games \in Nat /\ n_nodes \in Nat \ {0} /\ i \in 1..(n_nodes + 1)
    /\ n_games = [k \in 1..n_nodes |-> Share(k, games, n_nodes)]
    /\ dealt = [k \in 1..(IF i <= NumParts(games, n_nodes) THEN i - 1
                          ELSE NumParts(games, n_nodes)) |-> n_games[k]]
    /\ total = IF i = 1 THEN 0
               ELSE Share(1, games, n_nodes) + (i - 2) * (games \div n_nodes)

\* The loop starts at the first node with nothing dealt.
LEMMA InitSplitInv == SplitInit => SplitInv
<1> SUFFICES ASSUME SplitInit PROVE SplitInv
  OBVIOUS
<1>1. games \in Nat /\ n_nodes \in Nat \ {0} /\ i = 1
  BY SplitBounds DEF SplitInit
<1>2. NumParts(games, n_nodes) \in 0..n_nodes
  BY <1>1, SharesNotEmpty
<1>3. dealt = [k \in 1..0 |-> n_games[k]]
  BY DEF SplitInit
<1>4. (IF i <= NumParts(games, n_nodes) THEN i - 1 ELSE NumParts(games, n_nodes)) = 0
  BY <1>1, <1>2
<1> QED BY <1>1, <1>3, <1>4 DEF SplitInit, SplitInv

\* An iteration deals the share of its node, unless that is empty.
LEMMA NextSplitInv == SplitInv /\ [SplitNext]_splitVars => SplitInv'
<1> SUFFICES ASSUME SplitInv, [SplitNext]_splitVars PROVE SplitInv'
  OBVIOUS
<1> DEFINE N == NumParts(games, n_nodes)
           q == games \div n_nodes
<1>1. CASE UNCHANGED splitVars
  BY <1>1 DEF splitVars, SplitInv
<1>2. CASE SplitNext
  <2>1. /\ games \in Nat /\ n_nodes \in Nat \ {0} /\ i \in 1..n_nodes /\ i' = i + 1
        /\ n_games = [k \in 1..n_nodes |-> Share(k, games, n_nodes)]
        /\ UNCHANGED <<games, n_nodes, n_games>>
    BY <1>2 DEF SplitInv, SplitNext
  <2>2. /\ N \in 0..n_nodes
        /\ (n_games[i] # 0) <=> (i <= N)
        /\ n_games[i] = Share(i, games, n_nodes)
        /\ n_games[i] \in Nat
    BY <2>1, SharesNotEmpty, Shares
  <2>3. /\ q \in Nat /\ Share(1, games, n_nodes) \in Nat
        /\ \A k \in 2..n_nodes : Share(k, games, n_nodes) = q
    <3>1. q \in Nat
      BY <2>1, DivMod
    <3>2. 1 \in 1..n_nodes
      BY <2>1
    <3> HIDE DEF q
    <3>3. /\ Share(1, games, n_nodes) \in Nat
          /\ \A k \in 2..n_nodes : Share(k, games, n_nodes) = q
      BY <2>1, <3>2, Shares DEF q
    <3> QED BY <3>1, <3>3
  <2>4. N' = N /\ q' = q
    BY <2>1
  <2>5. dealt = [k \in 1..(IF i <= N THEN i - 1 ELSE N) |-> n_games[k]]
        /\ total = IF i = 1 THEN 0 ELSE Share(1, games, n_nodes) + (i - 2) * q
    BY DEF SplitInv
  <2> HIDE DEF N, q
  <2>6. total' = total + n_games[i]
    <3>1. total \in Int /\ (n_games[i] = 0 => total + n_games[i] = total)
      BY <2>1, <2>2, <2>3, <2>5
    <3> QED BY <1>2, <3>1 DEF SplitNext, Skip, Deal
  <2>7. total' = Share(1, games, n_nodes) + (i' - 2) * q
    <3>1. CASE i = 1
      BY <2>1, <2>2, <2>3, <2>5, <2>6, <3>1, Shares
    <3>2. CASE i # 1
      <4>1. n_games[i] = q /\ (i - 1) * q = (i - 2) * q + q
        BY <2>1, <2>2, <2>3, <3>2
      <4> QED BY <2>1, <2>3, <2>5, <2>6, <3>2, <4>1, Shares
    <3> QED BY <3>1, <3>2
  <2>8. dealt' = [k \in 1..(IF i' <= N THEN i' - 1 ELSE N) |-> n_games[k]]
    <3>1. CASE i <= N
      <4>1. dealt' = Append(dealt, n_games[i])
        BY <1>2, <2>2, <3>1 DEF SplitNext, Skip, Deal
      <4>2. dealt = [k \in 1..(i - 1) |-> n_games[k]] /\ Len(dealt) = i - 1
        BY <2>1, <2>5, <3>1
      <4>3. (IF i' <= N THEN i' - 1 ELSE N) = i
        BY <2>1, <2>2, <3>1
      <4>4. Append(dealt, n_games[i]) = [k \in 1..i |-> n_games[k]]
        BY <2>1, <4>2
      <4> QED BY <4>1, <4>3, <4>4
    <3>2. CASE ~(i <= N)
      <4>1. dealt' = dealt
        BY <1>2, <2>2, <3>2 DEF SplitNext, Skip, Deal
      <4>2. (IF i' <= N THEN i' - 1 ELSE N) = N
        BY <2>1, <2>2, <3>2
      <4> QED BY <2>5, <3>2, <4>1, <4>2
    <3> QED BY <3>1, <3>2
  <2> QED BY <2>1, <2>4, <2>7, <2>8 DEF SplitInv, N, q
<1> QED BY <1>1, <1>2

\* The loop computes an invariant sum for any number of games and nodes.
THEOREM SplitInvariant == SplitSpec => []SplitInv
BY InitSplitInv, NextSplitInv, PTL DEF SplitSpec

\* For any number of games and nodes the k-th sub-task of a group is the one
\* of the k-th eligible node, as the model of the coordinator has it.
THEOREM PrefixAlways == SplitSpec => []PartsArePrefix
<1>1. SplitInv => PartsArePrefix
  <2> SUFFICES ASSUME SplitInv, Over PROVE PartsArePrefix
    BY DEF PartsArePrefix
  <2>1. games \in Nat /\ n_nodes \in Nat \ {0} /\ i = n_nodes + 1
    BY DEF SplitInv, Over
  <2>2. NumParts(games, n_nodes) \in 0..n_nodes
    BY <2>1, SharesNotEmpty
  <2>3. ~(i <= NumParts(games, n_nodes))
    BY <2>1, <2>2
  <2> QED BY <2>3 DEF SplitInv, PartsArePrefix
<1> QED BY <1>1, SplitInvariant, PTL

\* What the invariant says when the loop is over.
LEMMA SplitLoses == SplitInv => Loss
<1> SUFFICES ASSUME SplitInv, Over PROVE Loss
  BY DEF Loss
<1> DEFINE q == games \div n_nodes
           r == games % n_nodes
<1>1. games \in Nat /\ n_nodes \in Nat \ {0} /\ i = n_nodes + 1
  BY DEF SplitInv, Over
<1>2. q \in Nat /\ r \in 0..(n_nodes - 1) /\ games = n_nodes * q + r
  BY <1>1, DivMod
<1>3. Share(1, games, n_nodes) = q + (IF r = 0 THEN 0 ELSE 1)
  BY <1>1, Shares
<1>4. total = Share(1, games, n_nodes) + (i - 2) * q
  BY <1>1 DEF SplitInv
<1> HIDE DEF q, r
<1>5. (n_nodes - 1) * q = n_nodes * q - q
  BY <1>1, <1>2
<1>6. total = games - (IF r = 0 THEN 0 ELSE r - 1)
  BY <1>1, <1>2, <1>3, <1>4, <1>5
<1> QED BY <1>6 DEF Loss, r

\* The split never deals more games than asked for, and loses one less than
\* the remainder of the division when there is one.
THEOREM LossExactly == SplitSpec => []Loss
BY SplitLoses, SplitInvariant, PTL
==========================================================================
