--------------------------- MODULE BRNVaultProofs ---------------------------
(***************************************************************************)
(* Proofs about the BRN vault, for any accounts, pools, tokens, terms and  *)
(* settings.  Booked is inductive: the types, queues in the order in which *)
(* they unlock that hold what is pending, points that add up, and records  *)
(* of the votes with one entry per block that agree with the history.  It  *)
(* gives the types, the queue and the past votes; with the vault's         *)
(* balances it gives HoldsStakes, with the support of each delegate the    *)
(* votes.  With what the pools have credited and what they wait for, and   *)
(* with HoldsStakes, it gives the schedule of the rewards.                 *)
(***************************************************************************)
EXTENDS BRNVault, Sums, SequenceTheorems, TLAPS

\* A set of numbers up to a bound has a largest one.
LEMMA Largest ==
  ASSUME NEW n \in Nat, NEW S \in SUBSET (0..n), S # {}
  PROVE  Max(S) \in S /\ \A x \in S : x <= Max(S)
<1> DEFINE T == {n - x : x \in S}
<1>1. T \in SUBSET Nat /\ T # {}
  OBVIOUS
<1> HIDE DEF T
<1>2. PICK m \in T : \A y \in T : m <= y
  BY <1>1, SmallestNumber
<1>3. PICK x \in S : m = n - x
  BY DEF T
<1>4. \A y \in S : n - y \in T
  BY DEF T
<1>5. \A y \in S : x >= y
  BY <1>2, <1>3, <1>4
<1>6. \E z \in S : \A y \in S : z >= y
  BY <1>5
<1>7. Max(S) \in S /\ \A y \in S : Max(S) >= y
  BY <1>6 DEF Max
<1> QED
  BY <1>7

-----------------------------------------------------------------------------
(* The search for the votes at a past block.                               *)

\* One entry per block, in the order of the blocks.
Rising(cps) == \A i, j \in DOMAIN cps : i < j => cps[i].fromBlock < cps[j].fromBlock

\* What the votes were at the end of a block: those of the last entry up to it.
VotedAt(cps, b, votes) ==
  \/ votes = 0 /\ \A i \in DOMAIN cps : cps[i].fromBlock > b
  \/ \E i \in DOMAIN cps :
       /\ votes = cps[i].votes /\ cps[i].fromBlock <= b
       /\ \A j \in DOMAIN cps : j > i => cps[j].fromBlock > b

Halved(lower, upper) == upper - (upper - lower) \div 2

\* One step of the search, f being the search in what remains.
Looked(cps, b, f, lower, upper) ==
  LET c == Halved(lower, upper)
  IN  IF upper <= lower THEN cps[lower].votes
      ELSE IF cps[c].fromBlock = b THEN cps[c].votes
      ELSE IF cps[c].fromBlock < b THEN f[c][upper]
      ELSE f[lower][c - 1]

Searched(cps, b, f) ==
  [lower \in DOMAIN cps |-> [upper \in DOMAIN cps |-> Looked(cps, b, f, lower, upper)]]

LEMMA SearchIs ==
  ASSUME NEW cps, NEW b
  PROVE  GetPriorVotes(cps, b) =
           IF cps = <<>> THEN 0
           ELSE IF cps[Len(cps)].fromBlock <= b THEN cps[Len(cps)].votes
           ELSE IF cps[1].fromBlock > b THEN 0
           ELSE (CHOOSE f : f = Searched(cps, b, f))[1][Len(cps)]
BY DEF GetPriorVotes, Searched, Looked, Halved

LEMMA SearchStep ==
  ASSUME NEW cps, NEW b, NEW f, f = Searched(cps, b, f),
         NEW lower \in DOMAIN cps, NEW upper \in DOMAIN cps
  PROVE  f[lower][upper] = Looked(cps, b, f, lower, upper)
<1>1. Searched(cps, b, f)[lower][upper] = Looked(cps, b, f, lower, upper)
  BY DEF Searched
<1> QED
  BY <1>1

LEMMA HalvedIs ==
  ASSUME NEW l \in Nat, NEW u \in Nat, l < u
  PROVE  Halved(l, u) \in Nat /\ l < Halved(l, u) /\ Halved(l, u) <= u
BY DEF Halved

LEMMA CpsShape ==
  ASSUME NEW cps \in Seq(Checkpoint)
  PROVE  /\ Len(cps) \in Nat /\ DOMAIN cps = 1..Len(cps)
         /\ \A i \in 1..Len(cps) : /\ cps[i] \in Checkpoint
                                   /\ cps[i].fromBlock \in Nat /\ cps[i].votes \in Nat
         /\ cps = <<>> <=> Len(cps) = 0
<1>1. Len(cps) \in Nat /\ DOMAIN cps = 1..Len(cps) /\ cps \in [1..Len(cps) -> Checkpoint]
  BY LenProperties
<1>2. \A i \in 1..Len(cps) : cps[i] \in Checkpoint
  BY <1>1
<1>3. cps = <<>> <=> Len(cps) = 0
  BY EmptySeq
<1> QED
  BY <1>1, <1>2, <1>3 DEF Checkpoint

\* The entry the search ends at, between two others.
Upto(cps, b, l, u) == {l} \cup {i \in (l + 1)..u : cps[i].fromBlock <= b}
Found(cps, b) ==
  [l \in DOMAIN cps |-> [u \in DOMAIN cps |-> cps[Max(Upto(cps, b, l, u))].votes]]

LEMMA UptoIs ==
  ASSUME NEW cps \in Seq(Checkpoint), NEW b \in Nat,
         NEW l \in 1..Len(cps), NEW u \in 1..Len(cps)
  PROVE  /\ Max(Upto(cps, b, l, u)) \in Upto(cps, b, l, u)
         /\ \A i \in Upto(cps, b, l, u) : i <= Max(Upto(cps, b, l, u))
         /\ Upto(cps, b, l, u) \subseteq 1..Len(cps)
<1>1. Len(cps) \in Nat
  BY CpsShape
<1>2. /\ Upto(cps, b, l, u) \in SUBSET (0..Len(cps)) /\ Upto(cps, b, l, u) # {}
      /\ Upto(cps, b, l, u) \subseteq 1..Len(cps)
  BY <1>1 DEF Upto
<1> QED
  BY <1>1, <1>2, Largest

LEMMA UptoMax ==
  ASSUME NEW cps \in Seq(Checkpoint), NEW b \in Nat,
         NEW l \in 1..Len(cps), NEW u \in 1..Len(cps),
         NEW m \in Upto(cps, b, l, u), \A i \in Upto(cps, b, l, u) : i <= m
  PROVE  Max(Upto(cps, b, l, u)) = m
<1>1. Max(Upto(cps, b, l, u)) \in 1..Len(cps) /\ m \in 1..Len(cps)
  BY UptoIs
<1>2. m <= Max(Upto(cps, b, l, u)) /\ Max(Upto(cps, b, l, u)) <= m
  BY UptoIs
<1> HIDE DEF Upto
<1> QED
  BY <1>1, <1>2

\* The search has a solution: the votes of the last entry in reach.
LEMMA FoundSolves ==
  ASSUME NEW cps \in Seq(Checkpoint), Rising(cps), NEW b \in Nat
  PROVE  Found(cps, b) = Searched(cps, b, Found(cps, b))
<1>1. /\ Len(cps) \in Nat /\ DOMAIN cps = 1..Len(cps)
      /\ \A i \in 1..Len(cps) : cps[i].fromBlock \in Nat
  BY CpsShape
<1> DEFINE g == Found(cps, b)
<1>2. \A l, u \in 1..Len(cps) : g[l][u] = cps[Max(Upto(cps, b, l, u))].votes
  BY <1>1 DEF Found
<1> HIDE DEF g
<1>3. ASSUME NEW l \in 1..Len(cps), NEW u \in 1..Len(cps)
      PROVE  g[l][u] = Looked(cps, b, g, l, u)
  <2> DEFINE c == Halved(l, u)
             m == Max(Upto(cps, b, l, u))
  <2>1. CASE u <= l
    <3>1. Upto(cps, b, l, u) = {l}
      BY <2>1 DEF Upto
    <3>3. l \in Upto(cps, b, l, u) /\ \A i \in Upto(cps, b, l, u) : i <= l
      BY <1>1, <3>1
    <3>2. Max(Upto(cps, b, l, u)) = l
      BY <3>3, UptoMax
    <3> QED
      BY <1>2, <2>1, <3>2 DEF Looked
  <2>2. CASE l < u
    <3>1. c \in 1..Len(cps) /\ l < c /\ c <= u
      <4>1. l \in Nat /\ u \in Nat
        BY <1>1
      <4>2. Halved(l, u) \in Nat /\ l < Halved(l, u) /\ Halved(l, u) <= u
        BY <2>2, <4>1, HalvedIs
      <4> QED
        BY <1>1, <4>2
    <3>2. /\ m \in Upto(cps, b, l, u)
          /\ \A i \in Upto(cps, b, l, u) : i <= m
          /\ m \in 1..Len(cps)
      BY UptoIs
    <3>3. Looked(cps, b, g, l, u)
            = IF cps[c].fromBlock = b THEN cps[c].votes
              ELSE IF cps[c].fromBlock < b THEN g[c][u]
              ELSE g[l][c - 1]
      BY <1>1, <2>2 DEF Looked
    <3>4. g[l][u] = cps[m].votes
      BY <1>2
    <3> HIDE DEF c, m
    <3>5. CASE cps[c].fromBlock = b
      <4>1. c \in Upto(cps, b, l, u)
        BY <1>1, <3>1, <3>5 DEF Upto
      <4>2. m = c
        <5>1. c <= m /\ cps[m].fromBlock <= b
          BY <1>1, <3>1, <3>2, <4>1 DEF Upto
        <5> QED
          BY <1>1, <3>1, <3>2, <3>5, <5>1, SMTT(30) DEF Rising
      <4> QED
        BY <3>3, <3>4, <3>5, <4>2
    <3>6. CASE cps[c].fromBlock < b
      <4>1. c \in Upto(cps, b, l, u) /\ c <= m
        BY <1>1, <3>1, <3>2, <3>6 DEF Upto
      <4>2. m \in Upto(cps, b, c, u)
        BY <1>1, <3>1, <3>2, <4>1 DEF Upto
      <4>3. \A i \in Upto(cps, b, c, u) : i \in Upto(cps, b, l, u)
        BY <1>1, <3>1, <4>1 DEF Upto
      <4>4. Max(Upto(cps, b, c, u)) = m
        BY <3>1, <3>2, <4>2, <4>3, UptoMax
      <4>5. ~ (cps[c].fromBlock = b)
        BY <1>1, <3>1, <3>6
      <4> QED
        BY <1>2, <3>1, <3>3, <3>4, <3>6, <4>4, <4>5
    <3>7. CASE cps[c].fromBlock > b
      <4>1. c - 1 \in 1..Len(cps)
        BY <1>1, <3>1
      <4>2. \A i \in Upto(cps, b, l, u) : i <= c - 1
        <5>1. l <= c - 1
          BY <1>1, <3>1
        <5>2. ASSUME NEW i \in (l + 1)..u, cps[i].fromBlock <= b
              PROVE  i <= c - 1
          <6>1. i \in 1..Len(cps)
            BY <1>1
          <6>2. i # c /\ ~ (c < i)
            <7>1. c < i => cps[c].fromBlock < cps[i].fromBlock
              BY <1>1, <3>1, <6>1 DEF Rising
            <7>2. /\ cps[i].fromBlock \in Nat /\ cps[c].fromBlock \in Nat
              BY <1>1, <3>1, <6>1
            <7> QED
              BY <3>7, <5>2, <7>1, <7>2
          <6> QED
            BY <1>1, <3>1, <6>1, <6>2
        <5> QED
          BY <5>1, <5>2 DEF Upto
      <4>3. Upto(cps, b, l, c - 1) = Upto(cps, b, l, u)
        BY <1>1, <3>1, <4>2 DEF Upto
      <4>5. ~ (cps[c].fromBlock = b) /\ ~ (cps[c].fromBlock < b)
        BY <1>1, <3>1, <3>7
      <4> QED
        BY <1>2, <3>3, <3>4, <4>1, <4>3, <4>5 DEF m
    <3> QED
      BY <1>1, <3>1, <3>5, <3>6, <3>7
  <2> QED
    BY <1>1, <2>1, <2>2
<1>4. g = Searched(cps, b, g)
  <2>1. g = [l \in DOMAIN cps |-> [u \in DOMAIN cps |-> g[l][u]]]
    BY DEF Found, g
  <2> QED
    BY <1>1, <1>3, <2>1 DEF Searched
<1> QED
  BY <1>4 DEF g

\* And only that one.
LEMMA SearchFinds ==
  ASSUME NEW cps \in Seq(Checkpoint), Rising(cps), NEW b \in Nat,
         NEW f, f = Searched(cps, b, f),
         NEW l \in 1..Len(cps), NEW u \in 1..Len(cps)
  PROVE  f[l][u] = Found(cps, b)[l][u]
<1> DEFINE g == Found(cps, b)
           n == Len(cps)
           D == {d \in Nat : \E x, y \in 1..n : y - x = d /\ f[x][y] # g[x][y]}
<1>1. n \in Nat /\ DOMAIN cps = 1..n /\ \A i \in 1..n : cps[i].fromBlock \in Nat
  BY CpsShape
<1>2. g = Searched(cps, b, g)
  BY FoundSolves
<1> HIDE DEF g, n
<1>3. \A x, y \in 1..n : /\ f[x][y] = Looked(cps, b, f, x, y)
                         /\ g[x][y] = Looked(cps, b, g, x, y)
  <2>1. \A x, y \in DOMAIN cps : f[x][y] = Looked(cps, b, f, x, y)
    BY SearchStep
  <2>2. \A x, y \in DOMAIN cps : g[x][y] = Looked(cps, b, g, x, y)
    BY <1>2, SearchStep
  <2> QED
    BY <1>1, <2>1, <2>2
<1>4. \A x, y \in 1..n : y <= x => f[x][y] = g[x][y]
  BY <1>3 DEF Looked
<1>5. D = {}
  <2> SUFFICES ASSUME D # {} PROVE FALSE
    OBVIOUS
  <2>1. PICK d \in D : \A e \in D : d <= e
    BY SmallestNumber
  <2>2. PICK x \in 1..n, y \in 1..n : y - x = d /\ f[x][y] # g[x][y]
    BY <2>1
  <2>3. \A v, w \in 1..n : v < w /\ w - v < d => f[v][w] = g[v][w]
    <3> SUFFICES ASSUME NEW v \in 1..n, NEW w \in 1..n, v < w, w - v < d, f[v][w] # g[v][w]
                 PROVE  FALSE
      OBVIOUS
    <3>1. w - v \in Nat
      BY <1>1
    <3>2. w - v \in D
      BY <3>1
    <3>3. d <= w - v /\ d \in Nat
      BY <2>1, <3>2
    <3> HIDE DEF D
    <3> QED
      BY <3>1, <3>3
  <2>4. x < y
    <3>1. ~ (y <= x)
      BY <1>4, <2>2
    <3>2. x \in Nat /\ y \in Nat
      BY <1>1
    <3> HIDE DEF D
    <3> QED
      BY <3>1, <3>2
  <2> DEFINE c == Halved(x, y)
  <2>5. c \in 1..n /\ x < c /\ c <= y
    <3>1. x \in Nat /\ y \in Nat
      BY <1>1
    <3>2. Halved(x, y) \in Nat /\ x < Halved(x, y) /\ Halved(x, y) <= y
      BY <2>4, <3>1, HalvedIs
    <3> QED
      BY <1>1, <3>2
  <2>6. ~ (y <= x)
    BY <1>1, <2>4
  <2>7. /\ f[x][y] = IF cps[c].fromBlock = b THEN cps[c].votes
                     ELSE IF cps[c].fromBlock < b THEN f[c][y] ELSE f[x][c - 1]
        /\ g[x][y] = IF cps[c].fromBlock = b THEN cps[c].votes
                     ELSE IF cps[c].fromBlock < b THEN g[c][y] ELSE g[x][c - 1]
    BY <1>3, <2>6 DEF Looked
  <2> HIDE DEF c, D
  <2>8. f[c][y] = g[c][y]
    <3>1. y <= c \/ (c < y /\ y - c < d)
      BY <1>1, <2>2, <2>5
    <3> QED
      BY <1>4, <2>3, <2>5, <3>1
  <2>9. f[x][c - 1] = g[x][c - 1]
    <3>1. c - 1 \in 1..n /\ (c - 1 <= x \/ (x < c - 1 /\ (c - 1) - x < d))
      BY <1>1, <2>2, <2>5
    <3> QED
      BY <1>4, <2>3, <3>1
  <2> QED
    BY <2>2, <2>7, <2>8, <2>9
<1>6. l \in 1..n /\ u \in 1..n
  BY DEF n
<1>8. u - l \in Nat => f[l][u] = g[l][u]
  BY <1>5, <1>6
<1>9. u <= l => f[l][u] = g[l][u]
  BY <1>4, <1>6
<1>10. u <= l \/ u - l \in Nat
  BY <1>1, <1>6
<1> QED
  BY <1>8, <1>9, <1>10 DEF g

\* getPriorVotes finds the last entry up to the block.
LEMMA PriorVotes ==
  ASSUME NEW cps \in Seq(Checkpoint), Rising(cps), NEW b \in Nat,
         NEW votes, VotedAt(cps, b, votes)
  PROVE  GetPriorVotes(cps, b) = votes
<1> DEFINE n == Len(cps)
           f == CHOOSE f : f = Searched(cps, b, f)
           m == Max(Upto(cps, b, 1, n))
<1>1. /\ n \in Nat /\ DOMAIN cps = 1..n /\ \A i \in 1..n : cps[i].fromBlock \in Nat
      /\ (cps = <<>> <=> n = 0)
  BY CpsShape
<1>2. GetPriorVotes(cps, b) =
        IF cps = <<>> THEN 0
        ELSE IF cps[n].fromBlock <= b THEN cps[n].votes
        ELSE IF cps[1].fromBlock > b THEN 0
        ELSE f[1][n]
  BY SearchIs
<1>3. f = Searched(cps, b, f)
  BY FoundSolves
<1> HIDE DEF f, n
<1>4. CASE cps = <<>>
  BY <1>1, <1>2, <1>4 DEF VotedAt
<1>5. CASE cps # <<>> /\ cps[n].fromBlock <= b
  BY <1>1, <1>2, <1>5 DEF VotedAt
<1>6. CASE cps # <<>> /\ cps[1].fromBlock > b
  <2>1. \A i \in 1..n : cps[i].fromBlock > b
    BY <1>1, <1>6 DEF Rising
  <2> QED
    BY <1>1, <1>2, <1>6, <2>1 DEF VotedAt
<1>7. CASE cps # <<>> /\ ~ (cps[n].fromBlock <= b) /\ ~ (cps[1].fromBlock > b)
  <2>1. 1 \in 1..n /\ n \in 1..n /\ cps[1].fromBlock <= b
    BY <1>1, <1>7
  <2>2. f[1][n] = cps[m].votes
    <3>1. f[1][n] = Found(cps, b)[1][n]
      BY <1>3, <2>1, SearchFinds DEF n
    <3> QED
      BY <1>1, <2>1, <3>1 DEF Found
  <2>3. PICK i \in 1..n : /\ votes = cps[i].votes /\ cps[i].fromBlock <= b
                          /\ \A j \in 1..n : j > i => cps[j].fromBlock > b
    BY <1>1, <2>1 DEF VotedAt
  <2>4. i \in Upto(cps, b, 1, n) /\ \A j \in Upto(cps, b, 1, n) : j <= i
    BY <1>1, <2>1, <2>3, SMTT(30) DEF Upto
  <2>5. m = i
    BY <2>1, <2>4, UptoMax DEF n
  <2> QED
    BY <1>2, <1>7, <2>2, <2>3, <2>5
<1> QED
  BY <1>4, <1>5, <1>6, <1>7

-----------------------------------------------------------------------------
(* Writing the votes.                                                      *)

\* A record that ends no later than a block.
Kept(cps, b) ==
  /\ cps \in Seq(Checkpoint) /\ Rising(cps)
  /\ \A i \in DOMAIN cps : cps[i].fromBlock <= b

LEMMA CurrentVotesType ==
  ASSUME NEW cps \in Seq(Checkpoint)
  PROVE  CurrentVotes(cps) \in Nat
BY CpsShape DEF CurrentVotes

\* At the end of a block the last entry counts.
LEMMA VotedNow ==
  ASSUME NEW b \in Nat, NEW cps, Kept(cps, b)
  PROVE  VotedAt(cps, b, CurrentVotes(cps))
<1>1. /\ Len(cps) \in Nat /\ DOMAIN cps = 1..Len(cps)
      /\ (cps = <<>> <=> Len(cps) = 0)
      /\ \A i \in DOMAIN cps : cps[i].fromBlock <= b
  BY CpsShape DEF Kept
<1> QED
  BY <1>1 DEF VotedAt, CurrentVotes

\* What a record says of the blocks before b, another says too.
SamePast(old, new, b) ==
  \A past \in Nat : \A v : past < b /\ VotedAt(old, past, v) => VotedAt(new, past, v)

\* A change of the votes leaves what they were at earlier blocks.
LEMMA Written ==
  ASSUME NEW b \in Nat, NEW cps, Kept(cps, b), NEW votes \in Nat
  PROVE  /\ Kept(WriteCheckpoint(cps, b, votes), b)
         /\ CurrentVotes(WriteCheckpoint(cps, b, votes)) = votes
         /\ \A past \in Nat : \A v : past < b /\ VotedAt(cps, past, v) =>
              VotedAt(WriteCheckpoint(cps, b, votes), past, v)
<1> DEFINE n == Len(cps)
           entry == [fromBlock |-> b, votes |-> votes]
           new == WriteCheckpoint(cps, b, votes)
<1>1. /\ n \in Nat /\ DOMAIN cps = 1..n /\ cps \in Seq(Checkpoint)
      /\ (cps = <<>> <=> n = 0)
      /\ \A i \in 1..n : cps[i].fromBlock <= b /\ cps[i].fromBlock \in Nat
      /\ \A i, j \in 1..n : i < j => cps[i].fromBlock < cps[j].fromBlock
  BY CpsShape DEF Kept, Rising
<1>2. entry \in Checkpoint /\ entry.fromBlock = b /\ entry.votes = votes
  BY DEF Checkpoint
<1> HIDE DEF entry, n
<1>3. CASE cps # <<>> /\ cps[n].fromBlock = b
  <2>1. new = [cps EXCEPT ![n] = entry]
    BY <1>3 DEF WriteCheckpoint, entry, n
  <2>2. /\ new \in Seq(Checkpoint) /\ Len(new) = n
        /\ \A i \in 1..n : new[i] = IF i = n THEN entry ELSE cps[i]
    <3>1. n \in 1..Len(cps) /\ Len(cps) = n
      BY <1>1, <1>3 DEF n
    <3>2. /\ [cps EXCEPT ![n] = entry] \in Seq(Checkpoint)
          /\ Len([cps EXCEPT ![n] = entry]) = Len(cps)
          /\ \A j \in 1 .. Len(cps) : [cps EXCEPT ![n] = entry][j] = IF j = n THEN entry ELSE cps[j]
      BY <1>1, <1>2, <3>1, ExceptSeq
    <3> QED
      BY <2>1, <3>1, <3>2
  <2> HIDE DEF new
  <2>3. DOMAIN new = 1..n /\ (new = <<>> <=> n = 0) /\ n \in 1..n
    BY <1>1, <1>3, <2>2, CpsShape
  <2>4. Kept(new, b)
    BY <1>1, <1>2, <1>3, <2>2, <2>3 DEF Kept, Rising
  <2>5. CurrentVotes(new) = votes
    BY <1>2, <2>2, <2>3 DEF CurrentVotes
  <2>6. ASSUME NEW past \in Nat, NEW v, past < b, VotedAt(cps, past, v)
        PROVE  VotedAt(new, past, v)
    <3>1. CASE v = 0 /\ \A i \in DOMAIN cps : cps[i].fromBlock > past
      BY <1>1, <1>2, <2>2, <2>3, <2>6, <3>1 DEF VotedAt
    <3>2. CASE \E i \in DOMAIN cps :
                 /\ v = cps[i].votes /\ cps[i].fromBlock <= past
                 /\ \A j \in DOMAIN cps : j > i => cps[j].fromBlock > past
      <4>1. PICK i \in 1..n : /\ v = cps[i].votes /\ cps[i].fromBlock <= past
                              /\ \A j \in 1..n : j > i => cps[j].fromBlock > past
        BY <1>1, <3>2
      <4>2. i # n
        BY <1>1, <1>3, <2>6, <4>1
      <4>3. new[i] = cps[i] /\ \A j \in 1..n : j > i => new[j].fromBlock > past
        BY <1>1, <1>2, <2>2, <2>6, <4>1, <4>2
      <4> QED
        BY <2>3, <4>1, <4>3 DEF VotedAt
    <3> QED
      BY <2>6, <3>1, <3>2 DEF VotedAt
  <2> QED
    BY <2>4, <2>5, <2>6 DEF new
<1>4. CASE ~ (cps # <<>> /\ cps[n].fromBlock = b)
  <2>1. new = Append(cps, entry)
    BY <1>4 DEF WriteCheckpoint, entry, n
  <2>2. /\ new \in Seq(Checkpoint) /\ Len(new) = n + 1
        /\ \A i \in 1..n : new[i] = cps[i]
        /\ new[n + 1] = entry
    <3>1. /\ Append(cps, entry) \in Seq(Checkpoint)
          /\ Len(Append(cps, entry)) = Len(cps) + 1
          /\ \A i \in 1..Len(cps) : Append(cps, entry)[i] = cps[i]
          /\ Append(cps, entry)[Len(cps) + 1] = entry
      BY <1>1, <1>2, AppendProperties
    <3> QED
      BY <2>1, <3>1 DEF n
  <2> HIDE DEF new
  <2>3. DOMAIN new = 1..(n + 1) /\ new # <<>>
    BY <1>1, <2>2, CpsShape
  <2>7. \A i \in 1..n : cps[i].fromBlock < b
    <3>1. n \in 1..n => cps[n].fromBlock < b
      BY <1>1, <1>4
    <3>2. ASSUME NEW i \in 1..n
          PROVE  cps[i].fromBlock < b
      <4>1. CASE i = n
        BY <3>1, <4>1
      <4>2. CASE i < n
        <5>1. n \in 1..n /\ cps[i].fromBlock < cps[n].fromBlock
          BY <1>1, <4>2
        <5> QED
          BY <1>1, <3>1, <5>1
      <4> QED
        BY <1>1, <4>1, <4>2
    <3> QED
      BY <3>2
  <2>4. Kept(new, b)
    <3>1. \A i \in 1..(n + 1) : i \in 1..n \/ i = n + 1
      BY <1>1
    <3>2. \A i \in 1..(n + 1) : new[i].fromBlock <= b
      BY <1>1, <1>2, <2>2, <3>1
    <3>3. ASSUME NEW i \in 1..(n + 1), NEW j \in 1..(n + 1), i < j
          PROVE  new[i].fromBlock < new[j].fromBlock
      <4>1. i \in 1..n
        BY <1>1, <3>3
      <4> QED
        BY <1>1, <1>2, <2>2, <2>7, <3>1, <3>3, <4>1
    <3> QED
      BY <2>2, <2>3, <3>2, <3>3 DEF Kept, Rising
  <2>5. CurrentVotes(new) = votes
    BY <1>2, <2>2, <2>3 DEF CurrentVotes
  <2>6. ASSUME NEW past \in Nat, NEW v, past < b, VotedAt(cps, past, v)
        PROVE  VotedAt(new, past, v)
    <3>1. CASE v = 0 /\ \A i \in DOMAIN cps : cps[i].fromBlock > past
      <4>1. \A i \in 1..(n + 1) : new[i].fromBlock > past
        BY <1>1, <1>2, <2>2, <2>6, <3>1
      <4> QED
        BY <2>3, <3>1, <4>1 DEF VotedAt
    <3>2. CASE \E i \in DOMAIN cps :
                 /\ v = cps[i].votes /\ cps[i].fromBlock <= past
                 /\ \A j \in DOMAIN cps : j > i => cps[j].fromBlock > past
      <4>1. PICK i \in 1..n : /\ v = cps[i].votes /\ cps[i].fromBlock <= past
                              /\ \A j \in 1..n : j > i => cps[j].fromBlock > past
        BY <1>1, <3>2
      <4>2. new[i] = cps[i] /\ i \in 1..(n + 1)
        BY <1>1, <2>2
      <4>3. \A j \in 1..(n + 1) : j > i => new[j].fromBlock > past
        BY <1>1, <1>2, <2>2, <2>6, <4>1, SMTT(30)
      <4> QED
        BY <2>3, <4>1, <4>2, <4>3 DEF VotedAt
    <3> QED
      BY <2>6, <3>1, <3>2 DEF VotedAt
  <2> QED
    BY <2>4, <2>5, <2>6 DEF new
<1> QED
  BY <1>3, <1>4

\* All the records end no later than a block.
AllKept(cs, b) ==
  /\ cs \in [Account -> Seq(Checkpoint)]
  /\ \A a \in Account : Kept(cs[a], b)

\* What a delegate has after an amount has moved from one to another.
VotesAfter(votes, d, src, dst, amount) ==
  votes - (IF d = src /\ src # dst THEN amount ELSE 0)
        + (IF d = dst /\ src # dst THEN amount ELSE 0)

\* Votes that move: what the two delegates have then.
LEMMA Moved ==
  ASSUME NEW cs, NEW b \in Nat, AllKept(cs, b),
         NEW src \in Account \cup {Nobody}, NEW dst \in Account \cup {Nobody},
         NEW amount \in Nat, CanMoveDelegates(cs, src, dst, amount),
         NEW ms, ms = MovedDelegates(cs, b, src, dst, amount)
  PROVE  /\ AllKept(ms, b)
         /\ \A d \in Account :
              /\ CurrentVotes(ms[d]) = VotesAfter(CurrentVotes(cs[d]), d, src, dst, amount)
              /\ SamePast(cs[d], ms[d], b)
<1>1. ASSUME NEW d \in Account
      PROVE  /\ ms[d] \in Seq(Checkpoint) /\ Kept(ms[d], b)
             /\ CurrentVotes(ms[d]) = VotesAfter(CurrentVotes(cs[d]), d, src, dst, amount)
             /\ SamePast(cs[d], ms[d], b)
  <2> DEFINE votes == CurrentVotes(cs[d])
  <2>1. votes \in Nat /\ Kept(cs[d], b) /\ cs[d] \in Seq(Checkpoint)
    BY CurrentVotesType DEF AllKept
  <2>2. ms[d] = IF src = dst \/ amount = 0 \/ d \notin {src, dst} THEN cs[d]
                ELSE IF d = src THEN WriteCheckpoint(cs[d], b, votes - amount)
                ELSE WriteCheckpoint(cs[d], b, votes + amount)
    BY DEF MovedDelegates, AllKept
  <2>3. CASE src = dst \/ amount = 0 \/ d \notin {src, dst}
    BY <2>1, <2>2, <2>3 DEF VotesAfter, SamePast
  <2>4. CASE src # dst /\ amount # 0 /\ d = src
    <3>1. d # Nobody
      BY VaultAssumption
    <3>2. votes - amount \in Nat
      BY <2>1, <2>4, <3>1 DEF CanMoveDelegates
    <3>3. ms[d] = WriteCheckpoint(cs[d], b, votes - amount)
      BY <2>2, <2>4
    <3>4. /\ Kept(ms[d], b) /\ CurrentVotes(ms[d]) = votes - amount
          /\ SamePast(cs[d], ms[d], b)
      <4> HIDE DEF votes
      <4> QED
        BY <2>1, <3>2, <3>3, Written DEF SamePast
    <3>5. ms[d] \in Seq(Checkpoint)
      BY <3>4 DEF Kept
    <3> HIDE DEF votes
    <3>6. CurrentVotes(ms[d]) = VotesAfter(votes, d, src, dst, amount)
      BY <2>1, <2>4, <3>4 DEF VotesAfter
    <3> QED
      BY <3>4, <3>5, <3>6 DEF votes
  <2>5. CASE src # dst /\ amount # 0 /\ d = dst
    <3>2. votes + amount \in Nat
      BY <2>1
    <3>3. ms[d] = WriteCheckpoint(cs[d], b, votes + amount)
      BY <2>2, <2>5
    <3>4. /\ Kept(ms[d], b) /\ CurrentVotes(ms[d]) = votes + amount
          /\ SamePast(cs[d], ms[d], b)
      <4> HIDE DEF votes
      <4> QED
        BY <2>1, <3>2, <3>3, Written DEF SamePast
    <3>5. ms[d] \in Seq(Checkpoint)
      BY <3>4 DEF Kept
    <3> HIDE DEF votes
    <3>6. CurrentVotes(ms[d]) = VotesAfter(votes, d, src, dst, amount)
      BY <2>1, <2>5, <3>4 DEF VotesAfter
    <3> QED
      BY <3>4, <3>5, <3>6 DEF votes
  <2> QED
    BY <2>3, <2>4, <2>5
<1>2. ms \in [Account -> Seq(Checkpoint)]
  <2>1. ms = [d \in Account |-> ms[d]]
    BY DEF MovedDelegates, AllKept
  <2> QED
    BY <1>1, <2>1
<1> QED
  BY <1>1, <1>2 DEF AllKept

-----------------------------------------------------------------------------
(* The withdrawal queue.                                                   *)

Request == [amount : Nat \ {0}, lockedUntil : Nat]

\* The first to unlock is at the end.
Falling(rs) ==
  \A i, j \in DOMAIN rs : i < j => rs[j].lockedUntil <= rs[i].lockedUntil

LEMMA RequestsShape ==
  ASSUME NEW rs \in Seq(Request)
  PROVE  /\ Len(rs) \in Nat /\ DOMAIN rs = 1..Len(rs)
         /\ \A i \in 1..Len(rs) : /\ rs[i] \in Request
                                  /\ rs[i].amount \in Nat \ {0} /\ rs[i].lockedUntil \in Nat
                                  /\ Requested(rs)[i] = rs[i].amount
                                  /\ Requested(rs)[i] \in Nat
         /\ DOMAIN Requested(rs) = 1..Len(rs)
         /\ \A P \in SUBSET (1..Len(rs)) : IsFiniteSet(P)
<1>1. Len(rs) \in Nat /\ DOMAIN rs = 1..Len(rs) /\ rs \in [1..Len(rs) -> Request]
  BY LenProperties
<1>2. \A i \in 1..Len(rs) : rs[i] \in Request
  BY <1>1
<1>3. IsFiniteSet(1..Len(rs))
  BY <1>1, FS_Interval
<1>4. \A P \in SUBSET (1..Len(rs)) : IsFiniteSet(P)
  BY <1>3, FS_Subset
<1> QED
  BY <1>1, <1>2, <1>4 DEF Request, Requested

LEMMA TotalOfIs ==
  ASSUME NEW rs \in Seq(Request)
  PROVE  /\ TotalOf(rs) = SumFunctionOnSet(Requested(rs), 1..Len(rs))
         /\ TotalOf(rs) \in Nat
<1>1. TotalOf(rs) = SumFunctionOnSet(Requested(rs), 1..Len(rs))
  BY RequestsShape DEF TotalOf, SumFunction
<1>2. 1..Len(rs) \in SUBSET (1..Len(rs))
  OBVIOUS
<1>3. IsFiniteSet(1..Len(rs)) /\ \A i \in 1..Len(rs) : Requested(rs)[i] \in Nat
  BY <1>2, RequestsShape
<1> QED
  BY <1>1, <1>3, SumNat

LEMMA NoRequests == <<>> \in Seq(Request) /\ TotalOf(<<>>) = 0 /\ Falling(<<>>)
<1>1. <<>> \in Seq(Request) /\ Len(<<>>) = 0
  BY EmptySeq
<1>2. 1..0 = {}
  OBVIOUS
<1>3. TotalOf(<<>>) = 0
  BY <1>1, <1>2, TotalOfIs, SumEmpty
<1>4. Falling(<<>>)
  BY DEF Falling
<1> QED
  BY <1>1, <1>3, <1>4

\* The place of a request: behind the last one that unlocks after a time.
Place(rs, t) == Max({i \in DOMAIN rs : rs[i].lockedUntil > t} \cup {0})

LEMMA PlaceIs ==
  ASSUME NEW rs \in Seq(Request), Falling(rs), NEW t \in Nat
  PROVE  /\ Place(rs, t) \in 0..Len(rs)
         /\ \A i \in 1..Place(rs, t) : rs[i].lockedUntil > t
         /\ \A i \in (Place(rs, t) + 1)..Len(rs) : rs[i].lockedUntil <= t
<1> DEFINE S == {i \in DOMAIN rs : rs[i].lockedUntil > t} \cup {0}
           k == Place(rs, t)
<1>1. /\ Len(rs) \in Nat /\ DOMAIN rs = 1..Len(rs)
      /\ \A i \in 1..Len(rs) : rs[i].lockedUntil \in Nat
  BY RequestsShape
<1>2. S \in SUBSET (0..Len(rs)) /\ S # {}
  BY <1>1
<1>3. k \in S /\ \A i \in S : i <= k
  <2> HIDE DEF S
  <2>1. Max(S) \in S /\ \A i \in S : i <= Max(S)
    BY <1>1, <1>2, Largest
  <2> QED
    BY <2>1 DEF Place, S
<1> HIDE DEF k
<1>4. k \in 0..Len(rs)
  BY <1>2, <1>3
<1>5. ASSUME NEW i \in 1..k PROVE rs[i].lockedUntil > t
  <2>1. k \in 1..Len(rs) /\ i \in 1..Len(rs) /\ rs[k].lockedUntil > t
    BY <1>1, <1>3, <1>4
  <2>2. i = k \/ i < k
    BY <1>4
  <2> QED
    BY <1>1, <2>1, <2>2, SMTT(30) DEF Falling
<1>6. ASSUME NEW i \in (k + 1)..Len(rs) PROVE rs[i].lockedUntil <= t
  <2>1. i \in 1..Len(rs) /\ ~ (i <= k)
    BY <1>1, <1>4
  <2>2. i \notin S
    BY <1>3, <2>1
  <2> QED
    BY <1>1, <2>1, <2>2
<1> QED
  BY <1>4, <1>5, <1>6 DEF k

\* A request that is put in its place keeps the order and adds its amount.
LEMMA Pushed ==
  ASSUME NEW rs \in Seq(Request), Falling(rs), NEW amount \in Nat \ {0}, NEW t \in Nat
  PROVE  /\ PushedRequest(rs, amount, t) \in Seq(Request)
         /\ Falling(PushedRequest(rs, amount, t))
         /\ TotalOf(PushedRequest(rs, amount, t)) = TotalOf(rs) + amount
<1> DEFINE n == Len(rs)
           k == Place(rs, t)
           r == [amount |-> amount, lockedUntil |-> t]
           front == SubSeq(rs, 1, k)
           back == SubSeq(rs, k + 1, n)
           new == PushedRequest(rs, amount, t)
<1>1. /\ n \in Nat /\ DOMAIN rs = 1..n
      /\ \A i \in 1..n : /\ rs[i] \in Request /\ rs[i].lockedUntil \in Nat
                         /\ Requested(rs)[i] = rs[i].amount /\ Requested(rs)[i] \in Nat
  BY RequestsShape
<1>2. /\ k \in 0..n
      /\ \A i \in 1..k : rs[i].lockedUntil > t
      /\ \A i \in (k + 1)..n : rs[i].lockedUntil <= t
  BY PlaceIs
<1>3. new = front \o <<r>> \o back
  <2>1. new = InsertAt(rs, k + 1, r)
    BY DEF PushedRequest, Place
  <2>2. (k + 1) - 1 = k
    BY <1>1, <1>2
  <2> QED
    BY <2>1, <2>2 DEF InsertAt
<1>4. r \in Request /\ r.amount = amount /\ r.lockedUntil = t
  BY DEF Request
<1> HIDE DEF n, k, r
<1>5. /\ front \in Seq(Request) /\ Len(front) = k
      /\ \A i \in 1..k : front[i] = rs[i]
  <2>1. k \in Int /\ \A i \in 1..k : rs[i] \in Request
    BY <1>1, <1>2
  <2>2. /\ front \in Seq(Request) /\ Len(front) = IF 1 <= k THEN k - 1 + 1 ELSE 0
        /\ \A i \in 1..(k - 1 + 1) : front[i] = rs[1 + i - 1]
    BY <2>1, SubSeqProperties
  <2> QED
    BY <1>1, <1>2, <2>2
<1>6. /\ back \in Seq(Request) /\ Len(back) = n - k
      /\ \A i \in 1..(n - k) : back[i] = rs[k + i]
  <2>1. k + 1 \in Int /\ n \in Int /\ \A i \in (k + 1)..n : rs[i] \in Request
    BY <1>1, <1>2
  <2>2. /\ back \in Seq(Request) /\ Len(back) = IF k + 1 <= n THEN n - (k + 1) + 1 ELSE 0
        /\ \A i \in 1..(n - (k + 1) + 1) : back[i] = rs[(k + 1) + i - 1]
    BY <2>1, SubSeqProperties
  <2>3. \A i \in 1..(n - k) : (k + 1) + i - 1 = k + i /\ i \in 1..(n - (k + 1) + 1)
    BY <1>1, <1>2
  <2> QED
    BY <1>1, <1>2, <2>2, <2>3
<1> HIDE DEF front, back, new
<1>7. /\ new \in Seq(Request) /\ Len(new) = n + 1
      /\ \A i \in 1..k : new[i] = rs[i]
      /\ new[k + 1] = r
      /\ \A i \in (k + 1)..n : new[i + 1] = rs[i]
  <2> DEFINE one == <<r>>
             mid == front \o one
  <2>1. one \in Seq(Request) /\ Len(one) = 1 /\ one[1] = r
    BY <1>4
  <2> HIDE DEF one
  <2>2. /\ mid \in Seq(Request) /\ Len(mid) = k + 1
        /\ \A i \in 1..(k + 1) : mid[i] = IF i <= k THEN front[i] ELSE one[i - k]
    <3>1. /\ mid \in Seq(Request) /\ Len(mid) = Len(front) + Len(one)
          /\ \A i \in 1..(Len(front) + Len(one)) :
               mid[i] = IF i <= Len(front) THEN front[i] ELSE one[i - Len(front)]
      BY <1>5, <2>1, ConcatProperties
    <3> QED
      BY <1>5, <2>1, <3>1
  <2> HIDE DEF mid
  <2>3. new = mid \o back
    BY <1>3 DEF mid, one
  <2>4. /\ new \in Seq(Request) /\ Len(new) = Len(mid) + Len(back)
        /\ \A i \in 1..(Len(mid) + Len(back)) :
             new[i] = IF i <= Len(mid) THEN mid[i] ELSE back[i - Len(mid)]
    BY <1>6, <2>2, <2>3, ConcatProperties
  <2>5. Len(mid) + Len(back) = n + 1
    BY <1>1, <1>2, <1>6, <2>2
  <2>6. \A i \in 1..(n + 1) : new[i] = IF i <= k + 1 THEN mid[i] ELSE back[i - (k + 1)]
    BY <2>2, <2>4, <2>5
  <2>7. \A i \in 1..k : new[i] = rs[i]
    BY <1>1, <1>2, <1>5, <2>2, <2>6
  <2>8. new[k + 1] = r
    <3>1. k + 1 \in 1..(n + 1) /\ k + 1 \in 1..(k + 1) /\ ~ (k + 1 <= k) /\ (k + 1) - k = 1
      BY <1>1, <1>2
    <3> QED
      BY <2>1, <2>2, <2>6, <3>1
  <2>9. ASSUME NEW i \in (k + 1)..n PROVE new[i + 1] = rs[i]
    <3>1. /\ i + 1 \in 1..(n + 1) /\ ~ (i + 1 <= k + 1)
          /\ (i + 1) - (k + 1) = i - k /\ i - k \in 1..(n - k) /\ k + (i - k) = i
      BY <1>1, <1>2
    <3> QED
      BY <1>6, <2>6, <3>1
  <2> QED
    BY <2>4, <2>5, <2>7, <2>8, <2>9
<1>8. Falling(new)
  <2>1. DOMAIN new = 1..(n + 1)
    BY <1>7, RequestsShape
  <2>2. \A i, j \in 1..n : i < j => rs[j].lockedUntil <= rs[i].lockedUntil
    BY <1>1 DEF Falling
  <2>3. ASSUME NEW i \in 1..(n + 1), NEW j \in 1..(n + 1), i < j
        PROVE  new[j].lockedUntil <= new[i].lockedUntil
    <3>1. CASE j <= k
      <4>1. i \in 1..k /\ j \in 1..k /\ i \in 1..n /\ j \in 1..n
        BY <1>1, <1>2, <2>3, <3>1
      <4> QED
        BY <1>7, <2>2, <2>3, <4>1
    <3>2. CASE j = k + 1
      <4>1. i \in 1..k /\ i \in 1..n
        BY <1>1, <1>2, <2>3, <3>2
      <4> QED
        BY <1>1, <1>2, <1>4, <1>7, <3>2, <4>1
    <3>3. CASE j > k + 1
      <4> DEFINE q == j - 1
      <4>1. q \in (k + 1)..n /\ q + 1 = j /\ q \in 1..n
        BY <1>1, <1>2, <3>3
      <4> HIDE DEF q
      <4>2. new[j] = rs[q] /\ rs[q].lockedUntil <= t
        BY <1>2, <1>7, <4>1
      <4>3. CASE i <= k
        <5>1. i \in 1..k /\ i \in 1..n /\ i < q
          BY <1>1, <1>2, <4>1, <4>3
        <5> QED
          BY <1>7, <2>2, <4>1, <4>2, <5>1
      <4>4. CASE i = k + 1
        BY <1>4, <1>7, <4>2, <4>4
      <4>5. CASE i > k + 1
        <5> DEFINE p == i - 1
        <5>1. p \in (k + 1)..n /\ p + 1 = i /\ p \in 1..n /\ p < q
          BY <1>1, <1>2, <2>3, <4>1, <4>5
        <5> HIDE DEF p
        <5> QED
          BY <1>7, <2>2, <4>1, <4>2, <5>1
      <4> QED
        BY <1>1, <1>2, <4>3, <4>4, <4>5
    <3> QED
      BY <1>1, <1>2, <3>1, <3>2, <3>3
  <2> QED
    BY <2>1, <2>3 DEF Falling
<1>9. TotalOf(new) = TotalOf(rs) + amount
  <2> DEFINE h == [i \in 1..n |-> IF i <= k THEN i ELSE i + 1]
             C == {h[i] : i \in 1..n}
             f == Requested(rs)
             g == Requested(new)
  <2>1. \A i \in 1..(n + 1) : g[i] = new[i].amount /\ g[i] \in Nat
    BY <1>7, RequestsShape
  <2>2. \A i \in 1..n : f[i] \in Int /\ f[i] = rs[i].amount
    BY <1>1
  <2>3. \A i \in 1..n : h[i] = IF i <= k THEN i ELSE i + 1
    OBVIOUS
  <2>4. \A i, j \in 1..n : h[i] = h[j] => i = j
    BY <1>1, <1>2, <2>3
  <2>5. /\ C \cup {k + 1} = 1..(n + 1) /\ k + 1 \notin C /\ C \in SUBSET (1..(n + 1))
    <3> HIDE DEF h
    <3>1. \A x \in 1..(n + 1) : x # k + 1 => \E i \in 1..n : h[i] = x
      <4> SUFFICES ASSUME NEW x \in 1..(n + 1), x # k + 1 PROVE \E i \in 1..n : h[i] = x
        OBVIOUS
      <4>1. CASE x <= k
        <5>1. x \in 1..n /\ h[x] = x
          BY <1>1, <1>2, <2>3, <4>1
        <5> QED
          BY <5>1
      <4>2. CASE x > k + 1
        <5>1. x - 1 \in 1..n /\ ~ (x - 1 <= k) /\ (x - 1) + 1 = x
          BY <1>1, <1>2, <4>2
        <5> QED
          BY <2>3, <5>1
      <4> QED
        BY <1>1, <1>2, <4>1, <4>2
    <3>2. \A i \in 1..n : h[i] \in 1..(n + 1) /\ h[i] # k + 1
      BY <1>1, <1>2, <2>3
    <3>3. k + 1 \in 1..(n + 1)
      BY <1>1, <1>2
    <3> QED
      BY <3>1, <3>2, <3>3
  <2> HIDE DEF h
  <2>6. \A i \in 1..n : g[h[i]] = f[i]
    <3> SUFFICES ASSUME NEW i \in 1..n PROVE g[h[i]] = f[i]
      OBVIOUS
    <3>1. CASE i <= k
      <4>1. h[i] = i /\ i \in 1..k /\ i \in 1..(n + 1)
        BY <1>1, <1>2, <2>3, <3>1
      <4> QED
        BY <1>7, <2>1, <2>2, <4>1
    <3>2. CASE ~ (i <= k)
      <4>1. h[i] = i + 1 /\ i \in (k + 1)..n /\ i + 1 \in 1..(n + 1)
        BY <1>1, <1>2, <2>3, <3>2
      <4> QED
        BY <1>7, <2>1, <2>2, <4>1
    <3> QED
      BY <3>1, <3>2
  <2>7. IsFiniteSet(1..n) /\ IsFiniteSet(C)
    <3>1. IsFiniteSet(1..n)
      BY <1>1, FS_Interval
    <3>2. IsFiniteSet(1..(n + 1))
      BY <1>1, FS_Interval
    <3>3. IsFiniteSet(C)
      BY <2>5, <3>2, FS_Subset
    <3> QED
      BY <3>1, <3>3
  <2>8. TotalOf(rs) = SumFunctionOnSet(f, 1..n) /\ TotalOf(rs) \in Nat
    BY TotalOfIs DEF n
  <2>9. TotalOf(new) = SumFunctionOnSet(g, 1..(n + 1))
    BY <1>7, TotalOfIs
  <2>10. g[k + 1] = amount
    <3>1. k + 1 \in 1..(n + 1)
      BY <1>1, <1>2
    <3> QED
      BY <1>4, <1>7, <2>1, <3>1
  <2>11. \A y \in C \cup {k + 1} : g[y] \in Int
    BY <2>1, <2>5
  <2> HIDE DEF f, g
  <2>12. SumFunctionOnSet(g, C) = SumFunctionOnSet(f, 1..n)
    <3> DEFINE D == 1..n
    <3>1. IsFiniteSet(D) /\ C = {h[i] : i \in D}
      BY <2>7
    <3>2. /\ \A x \in D : f[x] \in Int /\ g[h[x]] = f[x]
          /\ \A x, y \in D : h[x] = h[y] => x = y
      BY <2>2, <2>4, <2>6
    <3> HIDE DEF D
    <3>3. SumFunctionOnSet(g, {h[i] : i \in D}) = SumFunctionOnSet(f, D)
      BY <3>1, <3>2, SumRenamed, SMTT(30)
    <3> QED
      BY <3>1, <3>3 DEF D
  <2> HIDE DEF C
  <2>13. SumFunctionOnSet(g, C \cup {k + 1}) = g[k + 1] + SumFunctionOnSet(g, C)
    BY <2>5, <2>7, <2>11, SumInsert
  <2>14. /\ SumFunctionOnSet(g, C \cup {k + 1}) = TotalOf(new)
         /\ SumFunctionOnSet(g, C) = TotalOf(rs)
    BY <2>5, <2>8, <2>9, <2>12
  <2>15. TotalOf(new) = amount + TotalOf(rs) /\ TotalOf(rs) \in Nat /\ amount \in Nat
    BY <2>8, <2>10, <2>13, <2>14
  <2> QED
    BY ONLY <2>15
<1> QED
  BY <1>7, <1>8, <1>9 DEF new

\* What is popped is what is due, and the rest is still in order.
LEMMA Popped ==
  ASSUME NEW rs \in Seq(Request), Falling(rs), now \in Nat
  PROVE  /\ KeptRequests(rs) \in Seq(Request) /\ Falling(KeptRequests(rs))
         /\ TotalOf(KeptRequests(rs)) \in Nat
         /\ SumFunctionOnSet(Requested(rs), Unlocked(rs)) \in Nat
         /\ TotalOf(rs) = TotalOf(KeptRequests(rs))
                            + SumFunctionOnSet(Requested(rs), Unlocked(rs))
<1> DEFINE n == Len(rs)
           k == Place(rs, now)
           new == KeptRequests(rs)
           f == Requested(rs)
<1>1. /\ n \in Nat /\ DOMAIN rs = 1..n
      /\ \A i \in 1..n : /\ rs[i] \in Request /\ rs[i].lockedUntil \in Nat
                         /\ f[i] = rs[i].amount /\ f[i] \in Nat
      /\ \A P \in SUBSET (1..n) : IsFiniteSet(P)
  BY RequestsShape
<1>2. /\ k \in 0..n
      /\ \A i \in 1..k : rs[i].lockedUntil > now
      /\ \A i \in (k + 1)..n : rs[i].lockedUntil <= now
  BY PlaceIs
<1>3. new = SubSeq(rs, 1, k)
  BY DEF KeptRequests, Place
<1> HIDE DEF n, k
<1>4. /\ new \in Seq(Request) /\ Len(new) = k
      /\ \A i \in 1..k : new[i] = rs[i]
  <2>1. k \in Int /\ \A i \in 1..k : rs[i] \in Request
    BY <1>1, <1>2
  <2>2. /\ SubSeq(rs, 1, k) \in Seq(Request)
        /\ Len(SubSeq(rs, 1, k)) = IF 1 <= k THEN k - 1 + 1 ELSE 0
        /\ \A i \in 1..(k - 1 + 1) : SubSeq(rs, 1, k)[i] = rs[1 + i - 1]
    BY <2>1, SubSeqProperties
  <2> QED
    BY <1>1, <1>2, <1>3, <2>2
<1> HIDE DEF new
<1>5. Falling(new)
  <2>1. DOMAIN new = 1..k /\ \A i \in 1..k : i \in 1..n
    BY <1>1, <1>2, <1>4, RequestsShape
  <2> QED
    BY <1>1, <1>4, <2>1 DEF Falling
<1>6. TotalOf(new) = SumFunctionOnSet(f, 1..k) /\ TotalOf(new) \in Nat
  <2>1. TotalOf(new) = SumFunctionOnSet(Requested(new), 1..k) /\ TotalOf(new) \in Nat
    BY <1>4, TotalOfIs
  <2>2. \A i \in 1..k : Requested(new)[i] = f[i]
    <3>1. \A i \in 1..k : Requested(new)[i] = new[i].amount /\ i \in 1..n
      BY <1>1, <1>2, <1>4, RequestsShape
    <3> QED
      BY <1>1, <1>4, <3>1
  <2>3. IsFiniteSet(1..k)
    BY <1>2, FS_Interval
  <2> HIDE DEF f
  <2> QED
    BY <2>1, <2>2, <2>3, SumAgree
<1>7. Unlocked(rs) = (k + 1)..n
  <2>1. \A i \in 1..n : rs[i].lockedUntil <= now <=> i \in (k + 1)..n
    <3> SUFFICES ASSUME NEW i \in 1..n PROVE rs[i].lockedUntil <= now <=> i \in (k + 1)..n
      OBVIOUS
    <3>1. i \in 1..k \/ i \in (k + 1)..n
      BY <1>1, <1>2
    <3>2. i \in 1..k => i \notin (k + 1)..n /\ ~ (rs[i].lockedUntil <= now)
      BY <1>1, <1>2
    <3> QED
      BY <1>2, <3>1, <3>2
  <2>2. (k + 1)..n \subseteq 1..n
    BY <1>1, <1>2
  <2> QED
    BY <1>1, <2>1, <2>2 DEF Unlocked
<1>8. /\ 1..n = (1..k) \cup ((k + 1)..n) /\ (1..k) \cap ((k + 1)..n) = {}
      /\ 1..k \in SUBSET (1..n) /\ (k + 1)..n \in SUBSET (1..n)
  BY <1>1, <1>2
<1>9. TotalOf(rs) = SumFunctionOnSet(f, 1..n)
  BY TotalOfIs DEF n
<1> DEFINE A == 1..k
           B == (k + 1)..n
<1>10. /\ IsFiniteSet(A) /\ IsFiniteSet(B) /\ A \cap B = {}
       /\ \A x \in A \cup B : f[x] \in Int /\ f[x] \in Nat
  <2>1. IsFiniteSet(A) /\ IsFiniteSet(B)
    BY <1>1, <1>8
  <2>2. A \cap B = {} /\ A \cup B = 1..n
    BY <1>8
  <2>3. \A x \in 1..n : f[x] \in Int /\ f[x] \in Nat
    BY <1>1
  <2> HIDE DEF A, B, f
  <2> QED
    BY <2>1, <2>2, <2>3
<1>11. Unlocked(rs) = B /\ TotalOf(new) = SumFunctionOnSet(f, A)
       /\ TotalOf(rs) = SumFunctionOnSet(f, A \cup B)
  BY <1>6, <1>7, <1>8, <1>9
<1> HIDE DEF A, B, f
<1>12. SumFunctionOnSet(f, A \cup B) = SumFunctionOnSet(f, A) + SumFunctionOnSet(f, B)
  BY <1>10, SumUnion
<1>13. SumFunctionOnSet(f, B) \in Nat
  BY <1>10, SumNat
<1> QED
  BY <1>4, <1>5, <1>6, <1>11, <1>12, <1>13 DEF new, f

-----------------------------------------------------------------------------
(* The inductive invariant.                                                *)

Types ==
  /\ block \in Nat /\ 1 <= block /\ block <= MaxBlock /\ now \in Nat
  /\ Added \subseteq Pools /\ poolInfos \in [Added -> PoolInfo]
  /\ totalAllocPoints \in [Token -> Nat] /\ rewardTokenAmountsPerBlock \in [Token -> Nat]
  /\ userInfos \in [Pools -> [Account -> UserInfo]]
  /\ delegates \in [Account -> Account \cup {Nobody}]
  /\ wallets \in [Token -> [Account -> Nat]]
  /\ vaultBalance \in [Token -> Nat] /\ storeBalance \in [Token -> Nat]

\* The queues are in order, and hold what is pending of the stakes.
Queued ==
  /\ withdrawalRequests \in [Pools -> [Account -> Seq(Request)]]
  /\ \A p \in Pools, a \in Account :
       /\ Falling(withdrawalRequests[p][a])
       /\ TotalOf(withdrawalRequests[p][a]) = userInfos[p][a].pendingWithdrawals
       /\ userInfos[p][a].pendingWithdrawals <= userInfos[p][a].amount

\* The points of the pools that pay a token.
Points(t) ==
  [p \in Pools |-> IF p \in Added /\ Reward(p) = t THEN poolInfos[p].allocPoint ELSE 0]

Pointed == \A t \in Token : totalAllocPoints[t] = SumFunction(Points(t))

\* The records of the votes, and what the history says of the past.
Recorded ==
  /\ checkpoints \in [Account -> Seq(Checkpoint)]
  /\ \A a \in Account : Kept(checkpoints[a], block)
  /\ votesAt \in Seq([Account -> Nat]) /\ Len(votesAt) = block - 1
  /\ \A a \in Account, b \in 1..(block - 1) : VotedAt(checkpoints[a], b, votesAt[b][a])

Booked == Types /\ Queued /\ Pointed /\ Recorded

LEMMA Inputs ==
  /\ \A p \in Pools : Reward(p) \in Token /\ Staked(p) \in Token
  /\ \A p \in Pools : Terms[p] \subseteq Nat \X Nat \X Nat
  /\ \A x \in AllocPoints : x \in Nat
  /\ \A x \in RewardRates : x \in Nat
  /\ \A x \in Gifts : x \in Nat
  /\ \A x \in LockPeriods : x \in Nat
  /\ \A x \in Amounts : x \in Nat
  /\ \A p \in Pools : \A a \in Users[p] : a \in Account
  /\ \A a \in Delegators : a \in Account
  /\ \A d \in Delegatees : d \in Account \cup {Nobody}
  /\ AccScale \in Nat /\ AccScale > 0
  /\ MaxSeconds \in Nat /\ MaxBlock \in Nat /\ MaxBlock >= 1
  /\ Nobody \notin Account
BY VaultAssumption DEF Reward, Staked

LEMMA NatTimes == ASSUME NEW x \in Nat, NEW y \in Nat PROVE x * y \in Nat
BY SMT

LEMMA NatDiv ==
  ASSUME NEW x \in Nat, NEW y \in Nat, y > 0
  PROVE  x \div y \in Nat
BY SMT

LEMMA MinIs ==
  ASSUME NEW x \in Nat, NEW y \in Nat
  PROVE  Min({x, y}) \in Nat /\ Min({x, y}) <= x /\ Min({x, y}) <= y
<1>1. \E m \in {x, y} : \A z \in {x, y} : m <= z
  OBVIOUS
<1>2. Min({x, y}) \in {x, y} /\ \A z \in {x, y} : Min({x, y}) <= z
  BY <1>1 DEF Min
<1> QED
  BY <1>2

\* What an update does to a pool: time and shares, never its points.
LEMMA UpdatedIs ==
  ASSUME Types, NEW p \in Added, CanUpdate(p)
  PROVE  Updated(p) \in PoolInfo /\ Updated(p).allocPoint = poolInfos[p].allocPoint
<1> DEFINE pool == poolInfos[p]
           supply == vaultBalance[Staked(p)]
           total == totalAllocPoints[Reward(p)]
           rate == rewardTokenAmountsPerBlock[Reward(p)]
           blocks == block - pool.lastRewardBlock
           reward == (blocks * rate * pool.allocPoint) \div total
           acc == pool.accRewardPerShare + (reward * AccScale) \div supply
<1>1. /\ pool \in PoolInfo /\ supply \in Nat /\ total \in Nat /\ rate \in Nat
      /\ pool.allocPoint \in Nat /\ pool.lastRewardBlock \in Nat
      /\ pool.accRewardPerShare \in Nat /\ pool.lockPeriod \in Nat /\ block \in Nat
      /\ AccScale \in Nat
  BY Inputs DEF Types, PoolInfo
<1>2. \/ block <= pool.lastRewardBlock \/ supply = 0 \/ total > 0
  BY DEF CanUpdate
<1>3. Updated(p) = IF block <= pool.lastRewardBlock THEN pool
                   ELSE IF supply = 0 THEN [pool EXCEPT !.lastRewardBlock = block]
                   ELSE [pool EXCEPT !.accRewardPerShare = acc, !.lastRewardBlock = block]
  BY DEF Updated
<1>4. CASE block <= pool.lastRewardBlock \/ supply = 0
  BY <1>1, <1>3, <1>4 DEF PoolInfo
<1>5. CASE ~ (block <= pool.lastRewardBlock \/ supply = 0)
  <2>1. blocks \in Nat /\ supply > 0 /\ total > 0
    BY <1>1, <1>2, <1>5
  <2>2. reward \in Nat
    <3> HIDE DEF blocks, rate, pool, total
    <3>1. blocks * rate \in Nat
      BY <1>1, <2>1, NatTimes
    <3>2. blocks * rate * pool.allocPoint \in Nat
      BY <1>1, <3>1, NatTimes
    <3> QED
      BY <1>1, <2>1, <3>2, NatDiv
  <2>3. (reward * AccScale) \div supply \in Nat
    <3> HIDE DEF reward, supply
    <3>1. reward * AccScale \in Nat
      BY <1>1, <2>2, NatTimes
    <3> QED
      BY <1>1, <2>1, <3>1, NatDiv
  <2>4. acc \in Nat
    <3> DEFINE more == (reward * AccScale) \div supply
    <3> HIDE DEF more, pool
    <3>1. more \in Nat
      BY <2>3 DEF more
    <3> QED
      BY <1>1, <3>1 DEF more
  <2>5. Updated(p) = [pool EXCEPT !.accRewardPerShare = acc, !.lastRewardBlock = block]
    BY <1>3, <1>5
  <2> HIDE DEF acc, pool
  <2>6. Updated(p) \in PoolInfo /\ Updated(p).allocPoint = pool.allocPoint
    BY <1>1, <2>4, <2>5 DEF PoolInfo
  <2> QED
    BY <2>6 DEF pool
<1> QED
  BY <1>4, <1>5

LEMMA MassUpdatedIs ==
  ASSUME Types, NEW t, CanMassUpdate(t)
  PROVE  /\ MassUpdated(t) \in [Added -> PoolInfo]
         /\ \A p \in Added : MassUpdated(t)[p].allocPoint = poolInfos[p].allocPoint
<1>1. \A p \in Added : poolInfos[p] \in PoolInfo
  BY DEF Types
<1>2. ASSUME NEW p \in Added
      PROVE  /\ MassUpdated(t)[p] \in PoolInfo
             /\ MassUpdated(t)[p].allocPoint = poolInfos[p].allocPoint
  <2>1. MassUpdated(t)[p] = IF Reward(p) = t THEN Updated(p) ELSE poolInfos[p]
    BY DEF MassUpdated
  <2>2. CASE Reward(p) = t
    <3>1. CanUpdate(p)
      BY <2>2 DEF CanMassUpdate
    <3> QED
      BY <2>1, <2>2, <3>1, UpdatedIs
  <2>3. CASE Reward(p) # t
    BY <1>1, <2>1, <2>3
  <2> QED
    BY <2>2, <2>3
<1>3. MassUpdated(t) \in [Added -> PoolInfo]
  <2>1. MassUpdated(t) = [p \in Added |-> MassUpdated(t)[p]]
    BY DEF MassUpdated
  <2> QED
    BY <1>2, <2>1
<1> QED
  BY <1>2, <1>3

LEMMA PointsType ==
  ASSUME Types, NEW t \in Token
  PROVE  Points(t) \in [Pools -> Nat]
BY DEF Points, Types, PoolInfo

\* A change of pools that leaves their points.
LEMMA PointsKept ==
  ASSUME Pointed, DOMAIN poolInfos' = DOMAIN poolInfos,
         \A p \in Added : poolInfos'[p].allocPoint = poolInfos[p].allocPoint,
         totalAllocPoints' = totalAllocPoints
  PROVE  Pointed'
<1>1. \A t \in Token : Points(t)' = Points(t)
  BY DEF Points, Added
<1> QED
  BY <1>1 DEF Pointed

\* A change of the points of one pool.
LEMMA PointsMove ==
  ASSUME Types, Pointed, NEW p \in Pools,
         DOMAIN poolInfos' = DOMAIN poolInfos \cup {p},
         poolInfos'[p].allocPoint \in Nat,
         \A q \in Added \ {p} : poolInfos'[q].allocPoint = poolInfos[q].allocPoint,
         totalAllocPoints' = [totalAllocPoints EXCEPT ![Reward(p)] =
           @ - (IF p \in Added THEN poolInfos[p].allocPoint ELSE 0) + poolInfos'[p].allocPoint]
  PROVE  Pointed' /\ totalAllocPoints' \in [Token -> Nat]
<1> DEFINE old == IF p \in Added THEN poolInfos[p].allocPoint ELSE 0
           alloc == poolInfos'[p].allocPoint
<1>1. Reward(p) \in Token /\ IsFiniteSet(Pools) /\ old \in Nat /\ alloc \in Nat
  BY Inputs, VaultAssumption DEF Types, PoolInfo
<1>2. ASSUME NEW t \in Token
      PROVE  /\ totalAllocPoints'[t] = SumFunction(Points(t)')
             /\ totalAllocPoints'[t] \in Nat
  <2> DEFINE f == Points(t)
             g == Points(t)'
  <2>1. f \in [Pools -> Nat] /\ f \in [Pools -> Int]
    BY PointsType
  <2>2. g = [q \in Pools |-> IF q \in Added \cup {p} /\ Reward(q) = t
                             THEN poolInfos'[q].allocPoint ELSE 0]
    BY DEF Points, Added
  <2>3. \A q \in Pools \ {p} : g[q] = f[q]
    BY <2>2 DEF Points
  <2>4. /\ f[p] = IF Reward(p) = t THEN old ELSE 0
        /\ g[p] = IF Reward(p) = t THEN alloc ELSE 0
    BY <2>2 DEF Points
  <2>5. g \in [Pools -> Nat] /\ g \in [Pools -> Int]
    <3>1. g = [q \in Pools |-> g[q]]
      BY <2>2
    <3>2. \A q \in Pools : g[q] \in Nat
      BY <1>1, <2>1, <2>3, <2>4
    <3> HIDE DEF g
    <3> QED
      BY <3>1, <3>2
  <2>6. totalAllocPoints[t] = SumFunction(f)
    BY DEF Pointed
  <2>7. totalAllocPoints'[t] = IF Reward(p) = t THEN totalAllocPoints[t] - old + alloc
                               ELSE totalAllocPoints[t]
    BY <1>1 DEF Types
  <2> HIDE DEF f, g, old, alloc
  <2>8. SumFunction(g) = SumFunction(f) - f[p] + g[p]
    BY <1>1, <2>1, <2>3, <2>5, SumFunctionUpdate
  <2>9. SumFunction(f) \in Nat /\ SumFunction(g) \in Nat
    BY <1>1, <2>1, <2>5, SumFunctionNat
  <2>10. totalAllocPoints'[t] = SumFunction(g)
    BY <1>1, <2>4, <2>6, <2>7, <2>8, <2>9
  <2> QED
    BY <2>9, <2>10 DEF g
<1>3. Pointed'
  BY <1>2 DEF Pointed
<1>4. totalAllocPoints' = [t \in Token |-> totalAllocPoints'[t]]
  BY DEF Types
<1> QED
  BY <1>2, <1>3, <1>4

LEMMA InitBooked == Init => Booked
<1> SUFFICES ASSUME Init PROVE Booked
  OBVIOUS
<1>1. Types
  <2>1. NewUser \in UserInfo
    BY DEF NewUser, UserInfo
  <2>2. /\ poolInfos = <<>> /\ DOMAIN poolInfos = {}
    BY DEF Init
  <2>3. poolInfos \in [Added -> PoolInfo] /\ Added \subseteq Pools
    BY <2>2 DEF Added
  <2> QED
    BY <2>1, <2>3, Inputs, VaultAssumption DEF Init, Types
<1>2. Queued
  BY NoRequests, Inputs DEF Init, Queued, NewUser
<1>3. Pointed
  <2>1. \A t \in Token : Points(t) = [p \in Pools |-> 0]
    BY DEF Init, Points, Added
  <2>2. SumFunction([p \in Pools |-> 0]) = 0
    BY VaultAssumption, SumFunctionZero
  <2> QED
    BY <2>1, <2>2 DEF Init, Pointed
<1>4. Recorded
  <2>1. <<>> \in Seq(Checkpoint) /\ <<>> \in Seq([Account -> Nat]) /\ Len(<<>>) = 0
    BY EmptySeq
  <2>2. Kept(<<>>, 1)
    BY <2>1 DEF Kept, Rising
  <2> QED
    BY <2>1, <2>2 DEF Init, Recorded
<1> QED
  BY <1>1, <1>2, <1>3, <1>4 DEF Booked

-----------------------------------------------------------------------------
(* The admin's calls.                                                      *)

\* The books of the users and the votes are not touched.
LEMMA SameBooks ==
  ASSUME Booked, UNCHANGED <<block, now, userVars, voteVars, tokenVars, votesAt>>
  PROVE  Queued' /\ Recorded'
<1>1. Queued'
  BY DEF Booked, Queued, userVars
<1>2. Recorded'
  BY DEF Booked, Recorded, voteVars
<1> QED
  BY <1>1, <1>2

LEMMA AddBooked ==
  ASSUME Booked, NEW p \in Pools, NEW alloc \in Nat, NEW rate \in Nat, NEW period \in Nat,
         Add(p, alloc, rate, period)
  PROVE  Booked'
<1> DEFINE t == Reward(p)
           new == [allocPoint |-> alloc, lastRewardBlock |-> block,
                   accRewardPerShare |-> 0, lockPeriod |-> period]
<1>1. /\ Types /\ Pointed /\ p \notin Added /\ t \in Token
      /\ new \in PoolInfo /\ new.allocPoint = alloc
  BY Inputs DEF Booked, Add, Types, PoolInfo
<1>2. /\ MassUpdated(t) \in [Added -> PoolInfo]
      /\ \A q \in Added : MassUpdated(t)[q].allocPoint = poolInfos[q].allocPoint
  BY <1>1, MassUpdatedIs DEF Add
<1>3. /\ poolInfos' = [q \in Added \cup {p} |-> IF q = p THEN new ELSE MassUpdated(t)[q]]
      /\ totalAllocPoints' = [totalAllocPoints EXCEPT ![t] = @ + alloc]
      /\ rewardTokenAmountsPerBlock' = [rewardTokenAmountsPerBlock EXCEPT ![t] = rate]
      /\ UNCHANGED <<block, now, userVars, voteVars, tokenVars, votesAt>>
  BY DEF Add
<1> HIDE DEF new
<1>4. /\ DOMAIN poolInfos' = DOMAIN poolInfos \cup {p}
      /\ poolInfos'[p] = new
      /\ \A q \in Added \ {p} : poolInfos'[q].allocPoint = poolInfos[q].allocPoint
      /\ poolInfos' \in [Added \cup {p} -> PoolInfo]
  BY <1>1, <1>2, <1>3 DEF Added
<1>5. totalAllocPoints' = [totalAllocPoints EXCEPT ![t] =
           @ - (IF p \in Added THEN poolInfos[p].allocPoint ELSE 0) + poolInfos'[p].allocPoint]
  <2>1. totalAllocPoints[t] \in Nat
    BY <1>1 DEF Types
  <2>2. poolInfos'[p].allocPoint = alloc
    BY <1>1, <1>4
  <2>3. totalAllocPoints[t] - 0 + alloc = totalAllocPoints[t] + alloc
    BY <2>1
  <2>4. (IF p \in Added THEN poolInfos[p].allocPoint ELSE 0) = 0
    BY <1>1
  <2> QED
    BY <1>3, <2>2, <2>3, <2>4
<1>6. Pointed' /\ totalAllocPoints' \in [Token -> Nat]
  BY <1>1, <1>4, <1>5, PointsMove
<1>7. Added' = Added \cup {p}
  BY <1>4 DEF Added
<1>8. rewardTokenAmountsPerBlock' \in [Token -> Nat]
  BY <1>1, <1>3 DEF Types
<1>9. Types'
  BY <1>1, <1>3, <1>4, <1>6, <1>7, <1>8 DEF Types, userVars, voteVars, tokenVars
<1> QED
  BY <1>3, <1>6, <1>9, SameBooks DEF Booked

LEMMA SetBooked ==
  ASSUME Booked, NEW p \in Added, NEW alloc \in Nat, Set(p, alloc)
  PROVE  Booked'
<1> DEFINE t == Reward(p)
<1>1. Types /\ Pointed /\ p \in Pools /\ t \in Token /\ poolInfos[p].allocPoint \in Nat
  BY Inputs DEF Booked, Types, PoolInfo
<1>2. /\ MassUpdated(t) \in [Added -> PoolInfo]
      /\ \A q \in Added : MassUpdated(t)[q].allocPoint = poolInfos[q].allocPoint
  BY <1>1, MassUpdatedIs DEF Set
<1>3. /\ poolInfos' = [MassUpdated(t) EXCEPT ![p].allocPoint = alloc]
      /\ totalAllocPoints' = [totalAllocPoints EXCEPT ![t] = @ - poolInfos[p].allocPoint + alloc]
      /\ UNCHANGED <<block, now, rewardTokenAmountsPerBlock, userVars, voteVars, tokenVars,
                     votesAt>>
  BY DEF Set
<1>4. /\ DOMAIN poolInfos' = DOMAIN poolInfos \cup {p}
      /\ poolInfos'[p].allocPoint = alloc
      /\ \A q \in Added \ {p} : poolInfos'[q].allocPoint = poolInfos[q].allocPoint
      /\ poolInfos' \in [Added -> PoolInfo]
  BY <1>2, <1>3 DEF Added, PoolInfo
<1>5. totalAllocPoints' = [totalAllocPoints EXCEPT ![t] =
           @ - (IF p \in Added THEN poolInfos[p].allocPoint ELSE 0) + poolInfos'[p].allocPoint]
  BY <1>3, <1>4
<1>6. Pointed' /\ totalAllocPoints' \in [Token -> Nat]
  BY <1>1, <1>4, <1>5, PointsMove
<1>7. Added' = Added
  BY <1>4 DEF Added
<1>9. Types'
  BY <1>1, <1>3, <1>4, <1>6, <1>7 DEF Types, userVars, voteVars, tokenVars
<1> QED
  BY <1>3, <1>6, <1>9, SameBooks DEF Booked

LEMMA RateBooked ==
  ASSUME Booked, NEW t \in Token, NEW rate \in Nat, SetRewardAmountPerBlock(t, rate)
  PROVE  Booked'
<1>1. Types /\ Pointed
  BY DEF Booked
<1>2. /\ MassUpdated(t) \in [Added -> PoolInfo]
      /\ \A q \in Added : MassUpdated(t)[q].allocPoint = poolInfos[q].allocPoint
  BY <1>1, MassUpdatedIs DEF SetRewardAmountPerBlock
<1>3. /\ poolInfos' = MassUpdated(t)
      /\ rewardTokenAmountsPerBlock' = [rewardTokenAmountsPerBlock EXCEPT ![t] = rate]
      /\ UNCHANGED <<block, now, totalAllocPoints, userVars, voteVars, tokenVars, votesAt>>
  BY DEF SetRewardAmountPerBlock
<1>4. DOMAIN poolInfos' = DOMAIN poolInfos /\ Added' = Added
  BY <1>2, <1>3 DEF Added
<1>5. Pointed'
  BY <1>1, <1>2, <1>3, <1>4, PointsKept
<1>6. rewardTokenAmountsPerBlock' \in [Token -> Nat]
  BY <1>1, <1>3 DEF Types
<1>7. Types'
  BY <1>1, <1>2, <1>3, <1>4, <1>6 DEF Types, userVars, voteVars, tokenVars
<1> QED
  BY <1>3, <1>5, <1>7, SameBooks DEF Booked

\* One pool is written, its points are not.
LEMMA OnePool ==
  ASSUME Types, Pointed, NEW p \in Added, NEW pool \in PoolInfo,
         pool.allocPoint = poolInfos[p].allocPoint,
         poolInfos' = [poolInfos EXCEPT ![p] = pool], totalAllocPoints' = totalAllocPoints
  PROVE  Pointed' /\ Added' = Added /\ poolInfos' \in [Added -> PoolInfo]
<1>1. DOMAIN poolInfos' = DOMAIN poolInfos /\ Added' = Added
  BY DEF Added
<1>2. \A q \in Added : poolInfos'[q].allocPoint = poolInfos[q].allocPoint
  BY DEF Added
<1>3. poolInfos' \in [Added -> PoolInfo]
  BY DEF Types
<1> QED
  BY <1>1, <1>2, <1>3, PointsKept

LEMMA PeriodBooked ==
  ASSUME Booked, NEW p \in Added, NEW period \in Nat, SetWithdrawalLockingPeriod(p, period)
  PROVE  Booked'
<1> DEFINE pool == [poolInfos[p] EXCEPT !.lockPeriod = period]
<1>1. /\ Types /\ Pointed /\ pool \in PoolInfo /\ pool.allocPoint = poolInfos[p].allocPoint
  BY DEF Booked, Types, PoolInfo
<1>2. /\ poolInfos' = [poolInfos EXCEPT ![p] = pool]
      /\ UNCHANGED <<block, now, totalAllocPoints, rewardTokenAmountsPerBlock, userVars,
                     voteVars, tokenVars, votesAt>>
  BY DEF SetWithdrawalLockingPeriod
<1> HIDE DEF pool
<1>3. Pointed' /\ Added' = Added /\ poolInfos' \in [Added -> PoolInfo]
  BY <1>1, <1>2, OnePool
<1>4. Types'
  BY <1>1, <1>2, <1>3 DEF Types, userVars, voteVars, tokenVars
<1> QED
  BY <1>2, <1>3, <1>4, SameBooks DEF Booked

LEMMA UpdateBooked ==
  ASSUME Booked, NEW p \in Added, UpdatePool(p)
  PROVE  Booked'
<1>1. Types /\ Pointed
  BY DEF Booked
<1>2. Updated(p) \in PoolInfo /\ Updated(p).allocPoint = poolInfos[p].allocPoint
  BY <1>1, UpdatedIs DEF UpdatePool
<1>3. /\ poolInfos' = [poolInfos EXCEPT ![p] = Updated(p)]
      /\ UNCHANGED <<block, now, totalAllocPoints, rewardTokenAmountsPerBlock, userVars,
                     voteVars, tokenVars, votesAt>>
  BY DEF UpdatePool
<1>4. Pointed' /\ Added' = Added /\ poolInfos' \in [Added -> PoolInfo]
  BY <1>1, <1>2, <1>3, OnePool
<1>5. Types'
  BY <1>1, <1>3, <1>4 DEF Types, userVars, voteVars, tokenVars
<1> QED
  BY <1>3, <1>4, <1>5, SameBooks DEF Booked

LEMMA AdminBooked ==
  ASSUME Booked, AdminCall
  PROVE  Booked'
<1>1. CASE \E p \in Pools : \E terms \in Terms[p] : Add(p, terms[1], terms[2], terms[3])
  <2>3. PICK p \in Pools : \E terms \in Terms[p] : Add(p, terms[1], terms[2], terms[3])
    BY <1>1
  <2>1. PICK terms \in Terms[p] : Add(p, terms[1], terms[2], terms[3])
    BY <2>3
  <2>2. terms[1] \in Nat /\ terms[2] \in Nat /\ terms[3] \in Nat
    BY Inputs
  <2> QED
    BY <2>1, <2>2, AddBooked
<1>2. CASE \E p \in Added, alloc \in AllocPoints : Set(p, alloc)
  BY <1>2, Inputs, SetBooked
<1>3. CASE \E t \in {Reward(p) : p \in Pools}, rate \in RewardRates :
             SetRewardAmountPerBlock(t, rate)
  BY <1>3, Inputs, RateBooked
<1>4. CASE \E p \in Added, period \in LockPeriods : SetWithdrawalLockingPeriod(p, period)
  BY <1>4, Inputs, PeriodBooked
<1> QED
  BY <1>1, <1>2, <1>3, <1>4 DEF AdminCall

-----------------------------------------------------------------------------
(* The users' calls.                                                       *)

\* The records of the votes after votes have moved in this block.
LEMMA MovedRecorded ==
  ASSUME Booked, NEW src \in Account \cup {Nobody}, NEW dst \in Account \cup {Nobody},
         NEW amount \in Nat, CanMoveDelegates(checkpoints, src, dst, amount),
         checkpoints' = MovedDelegates(checkpoints, block, src, dst, amount),
         UNCHANGED <<block, votesAt>>
  PROVE  Recorded'
<1>1. AllKept(checkpoints, block) /\ block \in Nat
  BY DEF Booked, Recorded, Types, AllKept
<1>2. /\ AllKept(checkpoints', block)
      /\ \A d \in Account : SamePast(checkpoints[d], checkpoints'[d], block)
  BY <1>1, Moved
<1>3. ASSUME NEW a \in Account, NEW b \in 1..(block - 1)
      PROVE  VotedAt(checkpoints'[a], b, votesAt[b][a])
  <2>1. VotedAt(checkpoints[a], b, votesAt[b][a]) /\ b \in Nat /\ b < block
    BY <1>1 DEF Booked, Recorded
  <2> QED
    BY <1>2, <2>1 DEF SamePast
<1> QED
  BY <1>2, <1>3 DEF Booked, Recorded, AllKept

\* Rewards that are paid to a user leave the store, no more than it has.
LEMMA PaidType ==
  ASSUME Types, NEW t \in Token, NEW due \in Nat
  PROVE  /\ RewardPaid(t, due) \in Nat
         /\ RewardPaid(t, due) <= storeBalance[t]
         /\ storeBalance[t] - RewardPaid(t, due) \in Nat
<1>1. storeBalance[t] \in Nat
  BY DEF Types
<1> QED
  BY <1>1, MinIs DEF RewardPaid

LEMMA EarnedType ==
  ASSUME NEW amount \in Nat, NEW acc \in Nat
  PROVE  Earned(amount, acc) \in Nat
BY Inputs, NatTimes, NatDiv DEF Earned

LEMMA PendingType ==
  ASSUME NEW user \in UserInfo, NEW acc \in Nat
  PROVE  Pending(user, acc) \in Int
<1>1. user.amount \in Nat /\ user.rewardDebt \in Nat
  BY DEF UserInfo
<1>2. Earned(user.amount, acc) \in Nat
  BY <1>1, EarnedType
<1> QED
  BY <1>1, <1>2 DEF Pending

\* The books of a user after a payment.
LEMMA SettledIs ==
  ASSUME NEW user \in UserInfo, NEW amount \in Nat, NEW acc \in Nat
  PROVE  /\ Settled(user, amount, acc) \in UserInfo
         /\ Settled(user, amount, acc).amount = amount
         /\ Settled(user, amount, acc).pendingWithdrawals = user.pendingWithdrawals
<1>1. Earned(amount, acc) \in Nat
  BY EarnedType
<1>2. user.amount \in Nat /\ user.rewardDebt \in Nat /\ user.pendingWithdrawals \in Nat
  BY DEF UserInfo
<1> DEFINE debt == Earned(amount, acc)
           new == Settled(user, amount, acc)
<1>5. new = [user EXCEPT !.amount = amount, !.rewardDebt = debt]
  BY DEF Settled
<1>6. debt \in Nat
  BY <1>1
<1> HIDE DEF debt, new
<1>7. /\ new \in UserInfo /\ new.amount = amount
      /\ new.pendingWithdrawals = user.pendingWithdrawals
  BY <1>5, <1>6 DEF UserInfo
<1> QED
  BY <1>7 DEF new

\* What a deposit does.
LEMMA DepositIs ==
  ASSUME Booked, NEW p \in Added, NEW a \in Account, NEW amount \in Nat, Deposit(a, p, amount)
  PROVE  /\ p \in Pools /\ poolInfos' \in [Added -> PoolInfo] /\ Added' = Added
         /\ Pointed'
         /\ \E user \in UserInfo :
              /\ user.amount = userInfos[p][a].amount + amount
              /\ user.pendingWithdrawals = userInfos[p][a].pendingWithdrawals
              /\ userInfos' = [userInfos EXCEPT ![p][a] = user]
         /\ wallets' \in [Token -> [Account -> Nat]]
         /\ vaultBalance' = [vaultBalance EXCEPT ![Staked(p)] = @ + amount]
         /\ storeBalance' \in [Token -> Nat]
         /\ checkpoints' = IF Staked(p) = BRN
                           THEN MovedDelegates(checkpoints, block, Nobody, delegates[a], amount)
                           ELSE checkpoints
         /\ UNCHANGED <<block, now, totalAllocPoints, rewardTokenAmountsPerBlock,
                        withdrawalRequests, delegates, votesAt>>
<1> DEFINE r == Reward(p)
           s == Staked(p)
           pool == Updated(p)
           user == userInfos[p][a]
           due  == IF user.amount > 0 THEN Pending(user, pool.accRewardPerShare) ELSE 0
           gain == RewardPaid(r, due)
           rich == [wallets EXCEPT ![r][a] = @ + gain]
           new  == Settled(user, user.amount + amount, pool.accRewardPerShare)
<1>1. /\ Types /\ Pointed /\ p \in Pools /\ r \in Token /\ s \in Token
      /\ user \in UserInfo /\ user.amount \in Nat
  BY Inputs DEF Booked, Types, UserInfo
<1>2. /\ CanUpdate(p) /\ due >= 0 /\ amount <= rich[s][a]
      /\ poolInfos' = [poolInfos EXCEPT ![p] = pool]
      /\ userInfos' = [userInfos EXCEPT ![p][a] = new]
      /\ wallets' = [rich EXCEPT ![s][a] = @ - amount]
      /\ vaultBalance' = [vaultBalance EXCEPT ![s] = @ + amount]
      /\ storeBalance' = [storeBalance EXCEPT ![r] = @ - gain]
      /\ checkpoints' = IF s = BRN
                        THEN MovedDelegates(checkpoints, block, Nobody, delegates[a], amount)
                        ELSE checkpoints
      /\ UNCHANGED <<block, now, totalAllocPoints, rewardTokenAmountsPerBlock,
                     withdrawalRequests, delegates, votesAt>>
  BY DEF Deposit
<1>3. pool \in PoolInfo /\ pool.allocPoint = poolInfos[p].allocPoint
  BY <1>1, <1>2, UpdatedIs
<1>4. pool.accRewardPerShare \in Nat
  BY <1>3 DEF PoolInfo
<1> HIDE DEF pool, user, r, s
<1>5. user.amount + amount \in Nat
  BY <1>1
<1>6. /\ new \in UserInfo /\ new.amount = user.amount + amount
      /\ new.pendingWithdrawals = user.pendingWithdrawals
  BY <1>1, <1>4, <1>5, SettledIs, ZenonT(40)
<1> HIDE DEF new
<1>7. due \in Nat
  <2>1. Pending(user, pool.accRewardPerShare) \in Int
    BY <1>1, <1>4, PendingType
  <2> QED
    BY <1>2, <2>1
<1> HIDE DEF due
<1>8. gain \in Nat /\ storeBalance[r] - gain \in Nat
  BY <1>1, <1>7, PaidType
<1> HIDE DEF gain
<1>9. rich \in [Token -> [Account -> Nat]]
  BY <1>1, <1>8 DEF Types
<1> HIDE DEF rich
<1>10. wallets' \in [Token -> [Account -> Nat]]
  <2>1. rich[s][a] - amount \in Nat
    BY <1>1, <1>2, <1>9
  <2> QED
    BY <1>1, <1>2, <1>9, <2>1
<1>11. storeBalance' \in [Token -> Nat]
  BY <1>1, <1>2, <1>8 DEF Types
<1>12. Pointed' /\ Added' = Added /\ poolInfos' \in [Added -> PoolInfo]
  BY <1>1, <1>2, <1>3, OnePool
<1>13. /\ new.amount = userInfos[p][a].amount + amount
       /\ new.pendingWithdrawals = userInfos[p][a].pendingWithdrawals
  BY <1>6 DEF user
<1> QED
  BY <1>1, <1>2, <1>6, <1>10, <1>11, <1>12, <1>13 DEF s

\* One user's books and queue are written.
LEMMA OneQueue ==
  ASSUME Booked, NEW p \in Pools, NEW a \in Account, NEW user \in UserInfo,
         NEW rs \in Seq(Request), Falling(rs), TotalOf(rs) = user.pendingWithdrawals,
         user.pendingWithdrawals <= user.amount,
         userInfos' = [userInfos EXCEPT ![p][a] = user],
         withdrawalRequests' = [withdrawalRequests EXCEPT ![p][a] = rs]
  PROVE  Queued' /\ userInfos' \in [Pools -> [Account -> UserInfo]]
<1>1. /\ userInfos \in [Pools -> [Account -> UserInfo]]
      /\ withdrawalRequests \in [Pools -> [Account -> Seq(Request)]]
      /\ \A q \in Pools, b \in Account :
           /\ Falling(withdrawalRequests[q][b])
           /\ TotalOf(withdrawalRequests[q][b]) = userInfos[q][b].pendingWithdrawals
           /\ userInfos[q][b].pendingWithdrawals <= userInfos[q][b].amount
  BY DEF Booked, Types, Queued
<1>2. /\ userInfos' \in [Pools -> [Account -> UserInfo]]
      /\ withdrawalRequests' \in [Pools -> [Account -> Seq(Request)]]
  BY <1>1
<1>3. ASSUME NEW q \in Pools, NEW b \in Account
      PROVE  /\ Falling(withdrawalRequests'[q][b])
             /\ TotalOf(withdrawalRequests'[q][b]) = userInfos'[q][b].pendingWithdrawals
             /\ userInfos'[q][b].pendingWithdrawals <= userInfos'[q][b].amount
  <2>1. CASE q = p /\ b = a
    <3>1. withdrawalRequests'[q][b] = rs /\ userInfos'[q][b] = user
      BY <1>1, <2>1
    <3> QED
      BY <3>1
  <2>2. CASE ~ (q = p /\ b = a)
    <3>1. /\ withdrawalRequests'[q][b] = withdrawalRequests[q][b]
          /\ userInfos'[q][b] = userInfos[q][b]
      BY <1>1, <2>2
    <3> QED
      BY <1>1, <3>1
  <2> QED
    BY <2>1, <2>2
<1> QED
  BY <1>2, <1>3 DEF Queued

LEMMA DepositBooked ==
  ASSUME Booked, NEW p \in Added, NEW a \in Account, NEW amount \in Nat, Deposit(a, p, amount)
  PROVE  Booked'
<1>1. /\ p \in Pools /\ poolInfos' \in [Added -> PoolInfo] /\ Added' = Added
      /\ Pointed'
      /\ wallets' \in [Token -> [Account -> Nat]]
      /\ vaultBalance' = [vaultBalance EXCEPT ![Staked(p)] = @ + amount]
      /\ storeBalance' \in [Token -> Nat]
      /\ checkpoints' = IF Staked(p) = BRN
                        THEN MovedDelegates(checkpoints, block, Nobody, delegates[a], amount)
                        ELSE checkpoints
      /\ UNCHANGED <<block, now, totalAllocPoints, rewardTokenAmountsPerBlock,
                     withdrawalRequests, delegates, votesAt>>
  BY DepositIs
<1>2. PICK user \in UserInfo :
        /\ user.amount = userInfos[p][a].amount + amount
        /\ user.pendingWithdrawals = userInfos[p][a].pendingWithdrawals
        /\ userInfos' = [userInfos EXCEPT ![p][a] = user]
  BY DepositIs
<1>3. Queued' /\ userInfos' \in [Pools -> [Account -> UserInfo]]
  <2> DEFINE rs == withdrawalRequests[p][a]
  <2>1. /\ rs \in Seq(Request) /\ Falling(rs) /\ TotalOf(rs) = user.pendingWithdrawals
        /\ withdrawalRequests' = [withdrawalRequests EXCEPT ![p][a] = rs]
    BY <1>1, <1>2 DEF Booked, Queued
  <2>2. user.pendingWithdrawals <= user.amount
    <3>1. /\ userInfos[p][a].pendingWithdrawals <= userInfos[p][a].amount
          /\ userInfos[p][a] \in UserInfo
      BY <1>1 DEF Booked, Queued, Types
    <3> QED
      BY <1>2, <3>1 DEF UserInfo
  <2> HIDE DEF rs
  <2> QED
    BY <1>1, <1>2, <2>1, <2>2, OneQueue
<1>4. Recorded'
  <2>1. delegates[a] \in Account \cup {Nobody}
    BY DEF Booked, Types
  <2>2. CanMoveDelegates(checkpoints, Nobody, delegates[a], amount)
    BY DEF CanMoveDelegates
  <2>3. CASE Staked(p) = BRN
    <3>1. checkpoints' = MovedDelegates(checkpoints, block, Nobody, delegates[a], amount)
      BY <1>1, <2>3
    <3> QED
      BY <1>1, <2>1, <2>2, <3>1, MovedRecorded
  <2>4. CASE Staked(p) # BRN
    BY <1>1, <2>4 DEF Booked, Recorded
  <2> QED
    BY <2>3, <2>4
<1>5. vaultBalance' \in [Token -> Nat]
  BY <1>1, Inputs DEF Booked, Types
<1>6. Types'
  BY <1>1, <1>3, <1>5 DEF Booked, Types
<1> QED
  BY <1>1, <1>3, <1>4, <1>6 DEF Booked

\* What a request does.
LEMMA RequestIs ==
  ASSUME Booked, NEW p \in Added, NEW a \in Account, NEW amount \in Nat,
         RequestWithdrawal(a, p, amount)
  PROVE  /\ p \in Pools /\ amount > 0
         /\ VotesLeave(p) => CanMoveDelegates(checkpoints, delegates[a], Nobody, amount)
         /\ checkpoints' = IF VotesLeave(p)
                           THEN MovedDelegates(checkpoints, block, delegates[a], Nobody, amount)
                           ELSE checkpoints
         /\ \E user \in UserInfo, rs \in Seq(Request) :
              /\ user.amount = userInfos[p][a].amount
              /\ user.pendingWithdrawals = userInfos[p][a].pendingWithdrawals + amount
              /\ user.pendingWithdrawals <= user.amount
              /\ Falling(rs) /\ TotalOf(rs) = user.pendingWithdrawals
              /\ userInfos' = [userInfos EXCEPT ![p][a] = user]
              /\ withdrawalRequests' = [withdrawalRequests EXCEPT ![p][a] = rs]
         /\ UNCHANGED <<block, now, poolVars, delegates, tokenVars, votesAt>>
<1> DEFINE old == userInfos[p][a]
           before == withdrawalRequests[p][a]
           until == now + poolInfos[p].lockPeriod
           user == [old EXCEPT !.pendingWithdrawals = @ + amount]
           rs == PushedRequest(before, amount, until)
<1>1. /\ p \in Pools /\ old \in UserInfo /\ before \in Seq(Request) /\ Falling(before)
      /\ TotalOf(before) = old.pendingWithdrawals /\ until \in Nat
  BY DEF Booked, Types, Queued, PoolInfo
<1>2. /\ CanRequest(old, amount)
      /\ VotesLeave(p) => CanMoveDelegates(checkpoints, delegates[a], Nobody, amount)
      /\ withdrawalRequests' = [withdrawalRequests EXCEPT ![p][a] = rs]
      /\ userInfos' = [userInfos EXCEPT ![p][a] = user]
      /\ checkpoints' = IF VotesLeave(p)
                        THEN MovedDelegates(checkpoints, block, delegates[a], Nobody, amount)
                        ELSE checkpoints
      /\ UNCHANGED <<block, now, poolVars, delegates, tokenVars, votesAt>>
  <2>1. RequestWithdrawal(a, p, amount)
    OBVIOUS
  <2>2. userInfos' = [userInfos EXCEPT ![p][a] = user]
    BY <2>1 DEF RequestWithdrawal, Booked, Types
  <2>3. withdrawalRequests' = [withdrawalRequests EXCEPT ![p][a] = rs]
    BY <2>1 DEF RequestWithdrawal, Booked, Queued
  <2> QED
    BY <2>1, <2>2, <2>3 DEF RequestWithdrawal
<1> HIDE DEF old, before, until
<1>3. amount > 0 /\ amount \in Nat \ {0} /\ old.amount >= old.pendingWithdrawals + amount
  BY <1>2 DEF CanRequest
<1>4. /\ user \in UserInfo /\ user.amount = old.amount
      /\ user.pendingWithdrawals = old.pendingWithdrawals + amount
      /\ user.pendingWithdrawals <= user.amount
  BY <1>1, <1>3 DEF UserInfo
<1>5. rs \in Seq(Request) /\ Falling(rs) /\ TotalOf(rs) = old.pendingWithdrawals + amount
  BY <1>1, <1>3, Pushed
<1> HIDE DEF user, rs
<1> QED
  BY <1>1, <1>2, <1>3, <1>4, <1>5 DEF old

LEMMA RequestBooked ==
  ASSUME Booked, NEW p \in Added, NEW a \in Account, NEW amount \in Nat,
         RequestWithdrawal(a, p, amount)
  PROVE  Booked'
<1>1. /\ p \in Pools
      /\ VotesLeave(p) => CanMoveDelegates(checkpoints, delegates[a], Nobody, amount)
      /\ checkpoints' = IF VotesLeave(p)
                        THEN MovedDelegates(checkpoints, block, delegates[a], Nobody, amount)
                        ELSE checkpoints
      /\ UNCHANGED <<block, now, poolVars, delegates, tokenVars, votesAt>>
  BY RequestIs
<1>2. PICK user \in UserInfo, rs \in Seq(Request) :
              /\ user.pendingWithdrawals <= user.amount
              /\ Falling(rs) /\ TotalOf(rs) = user.pendingWithdrawals
              /\ userInfos' = [userInfos EXCEPT ![p][a] = user]
              /\ withdrawalRequests' = [withdrawalRequests EXCEPT ![p][a] = rs]
  BY RequestIs
<1>3. Queued' /\ userInfos' \in [Pools -> [Account -> UserInfo]]
  BY <1>1, <1>2, OneQueue
<1>4. Recorded'
  <2>1. delegates[a] \in Account \cup {Nobody} /\ UNCHANGED <<block, votesAt>>
    BY <1>1 DEF Booked, Types
  <2>3. CASE VotesLeave(p)
    BY <1>1, <2>1, <2>3, MovedRecorded
  <2>4. CASE ~ VotesLeave(p)
    BY <1>1, <2>4 DEF Booked, Recorded
  <2> QED
    BY <2>3, <2>4
<1>5. Pointed'
  BY <1>1, PointsKept DEF Booked, poolVars
<1>6. Types'
  BY <1>1, <1>3 DEF Booked, Types, poolVars, tokenVars, Added
<1> QED
  BY <1>3, <1>4, <1>5, <1>6 DEF Booked

\* What the execution of a withdrawal does.
LEMMA ExecuteIs ==
  ASSUME Booked, NEW p \in Added, NEW a \in Account, ExecuteWithdrawal(a, p)
  PROVE  /\ p \in Pools /\ poolInfos' \in [Added -> PoolInfo] /\ Added' = Added
         /\ Pointed'
         /\ \E user \in UserInfo, rs \in Seq(Request), amount \in Nat :
              /\ user.amount = userInfos[p][a].amount - amount
              /\ user.pendingWithdrawals = userInfos[p][a].pendingWithdrawals - amount
              /\ Falling(rs) /\ TotalOf(rs) = user.pendingWithdrawals
              /\ userInfos' = [userInfos EXCEPT ![p][a] = user]
              /\ withdrawalRequests' = [withdrawalRequests EXCEPT ![p][a] = rs]
              /\ vaultBalance' = [vaultBalance EXCEPT ![Staked(p)] = @ - amount]
              /\ amount <= vaultBalance[Staked(p)]
         /\ wallets' \in [Token -> [Account -> Nat]]
         /\ storeBalance' \in [Token -> Nat]
         /\ UNCHANGED <<block, now, totalAllocPoints, rewardTokenAmountsPerBlock,
                        voteVars, votesAt>>
<1> DEFINE r == Reward(p)
           s == Staked(p)
           pool == Updated(p)
           user == userInfos[p][a]
           before == withdrawalRequests[p][a]
           kept == KeptRequests(before)
           amount == TotalOf(before) - TotalOf(kept)
           due  == Pending(user, pool.accRewardPerShare)
           gain == RewardPaid(r, due)
           rich == [wallets EXCEPT ![r][a] = @ + gain]
           popped == [user EXCEPT !.pendingWithdrawals = @ - amount]
           new  == Settled(popped, user.amount - amount, pool.accRewardPerShare)
<1>1. /\ Types /\ Pointed /\ p \in Pools /\ r \in Token /\ s \in Token
      /\ user \in UserInfo /\ user.amount \in Nat /\ user.pendingWithdrawals \in Nat
      /\ before \in Seq(Request) /\ Falling(before) /\ now \in Nat
      /\ TotalOf(before) = user.pendingWithdrawals
  BY Inputs, SMTT(30) DEF Booked, Types, Queued, UserInfo
<1>2. /\ amount > 0 /\ CanUpdate(p) /\ due >= 0 /\ amount <= user.amount
      /\ amount <= vaultBalance[s]
      /\ poolInfos' = [poolInfos EXCEPT ![p] = pool]
      /\ withdrawalRequests' = [withdrawalRequests EXCEPT ![p][a] = kept]
      /\ userInfos' = [userInfos EXCEPT ![p][a] = new]
      /\ wallets' = [rich EXCEPT ![s][a] = @ + amount]
      /\ vaultBalance' = [vaultBalance EXCEPT ![s] = @ - amount]
      /\ storeBalance' = [storeBalance EXCEPT ![r] = @ - gain]
      /\ UNCHANGED <<block, now, totalAllocPoints, rewardTokenAmountsPerBlock,
                     voteVars, votesAt>>
  BY DEF ExecuteWithdrawal
<1>3. pool \in PoolInfo /\ pool.allocPoint = poolInfos[p].allocPoint
  BY <1>1, <1>2, UpdatedIs
<1>4. pool.accRewardPerShare \in Nat
  BY <1>3 DEF PoolInfo
<1> HIDE DEF pool, user, r, s, before
<1>5. /\ kept \in Seq(Request) /\ Falling(kept) /\ TotalOf(kept) \in Nat
  BY <1>1, Popped
<1> HIDE DEF kept
<1>6. amount \in Nat /\ user.amount - amount \in Nat /\ user.pendingWithdrawals - amount \in Nat
      /\ user.pendingWithdrawals - amount = TotalOf(kept)
  BY <1>1, <1>2, <1>5
<1> HIDE DEF amount
<1>7. popped \in UserInfo /\ popped.pendingWithdrawals = user.pendingWithdrawals - amount
  BY <1>1, <1>6 DEF UserInfo
<1> HIDE DEF popped
<1>8. /\ new \in UserInfo /\ new.amount = user.amount - amount
      /\ new.pendingWithdrawals = user.pendingWithdrawals - amount
  BY <1>4, <1>6, <1>7, SettledIs, ZenonT(40)
<1>9. due \in Nat
  <2>1. Pending(user, pool.accRewardPerShare) \in Int
    BY <1>1, <1>4, PendingType
  <2> QED
    BY <1>2, <2>1
<1> HIDE DEF due, new
<1>10. gain \in Nat /\ storeBalance[r] - gain \in Nat
  BY <1>1, <1>9, PaidType
<1> HIDE DEF gain
<1>11. rich \in [Token -> [Account -> Nat]]
  BY <1>1, <1>10, SMTT(30) DEF Types
<1> HIDE DEF rich
<1>12. wallets' \in [Token -> [Account -> Nat]]
  BY <1>1, <1>2, <1>6, <1>11
<1>13. storeBalance' \in [Token -> Nat]
  BY <1>1, <1>2, <1>10 DEF Types
<1>14. Pointed' /\ Added' = Added /\ poolInfos' \in [Added -> PoolInfo]
  BY <1>1, <1>2, <1>3, OnePool
<1>15. /\ new.amount = userInfos[p][a].amount - amount
       /\ new.pendingWithdrawals = userInfos[p][a].pendingWithdrawals - amount
       /\ TotalOf(kept) = new.pendingWithdrawals
  BY <1>6, <1>8 DEF user
<1> QED
  BY <1>1, <1>2, <1>5, <1>6, <1>8, <1>12, <1>13, <1>14, <1>15 DEF s

LEMMA ExecuteBooked ==
  ASSUME Booked, NEW p \in Added, NEW a \in Account, ExecuteWithdrawal(a, p)
  PROVE  Booked'
<1>1. /\ p \in Pools /\ poolInfos' \in [Added -> PoolInfo] /\ Added' = Added
      /\ Pointed'
      /\ wallets' \in [Token -> [Account -> Nat]]
      /\ storeBalance' \in [Token -> Nat]
      /\ UNCHANGED <<block, now, totalAllocPoints, rewardTokenAmountsPerBlock,
                     voteVars, votesAt>>
  BY ExecuteIs
<1>2. PICK user \in UserInfo, rs \in Seq(Request), amount \in Nat :
        /\ user.amount = userInfos[p][a].amount - amount
        /\ user.pendingWithdrawals = userInfos[p][a].pendingWithdrawals - amount
        /\ Falling(rs) /\ TotalOf(rs) = user.pendingWithdrawals
        /\ userInfos' = [userInfos EXCEPT ![p][a] = user]
        /\ withdrawalRequests' = [withdrawalRequests EXCEPT ![p][a] = rs]
        /\ vaultBalance' = [vaultBalance EXCEPT ![Staked(p)] = @ - amount]
        /\ amount <= vaultBalance[Staked(p)]
  BY ExecuteIs
<1>3. user.pendingWithdrawals <= user.amount
  <2>1. /\ userInfos[p][a].pendingWithdrawals <= userInfos[p][a].amount
        /\ userInfos[p][a].pendingWithdrawals \in Nat /\ userInfos[p][a].amount \in Nat
    BY <1>1 DEF Booked, Queued, Types, UserInfo
  <2> QED
    BY <1>2, <2>1
<1>4. Queued' /\ userInfos' \in [Pools -> [Account -> UserInfo]]
  BY <1>1, <1>2, <1>3, OneQueue
<1>5. vaultBalance' \in [Token -> Nat]
  <2>1. Staked(p) \in Token /\ vaultBalance \in [Token -> Nat]
    BY <1>1, Inputs DEF Booked, Types
  <2>2. vaultBalance[Staked(p)] - amount \in Nat
    BY <1>2, <2>1
  <2> QED
    BY <1>2, <2>1, <2>2
<1>6. Recorded'
  BY <1>1 DEF Booked, Recorded, voteVars
<1>7. Types'
  BY <1>1, <1>4, <1>5 DEF Booked, Types, voteVars
<1> QED
  BY <1>1, <1>4, <1>6, <1>7 DEF Booked

LEMMA StakeAmountType ==
  ASSUME Booked, NEW a \in Account
  PROVE  StakeAmount(a) \in Nat
<1>1. CASE <<BRN, BRN>> \in Added
  <2>1. <<BRN, BRN>> \in Pools
    BY <1>1 DEF Booked, Types
  <2> DEFINE user == userInfos[<<BRN, BRN>>][a]
  <2>2. /\ user.amount \in Nat /\ user.pendingWithdrawals \in Nat
        /\ user.pendingWithdrawals <= user.amount
    BY <2>1 DEF Booked, Types, Queued, UserInfo
  <2>3. StakeAmount(a) = user.amount - user.pendingWithdrawals
    BY <1>1 DEF StakeAmount
  <2> HIDE DEF user
  <2> QED
    BY <2>2, <2>3
<1> QED
  BY <1>1 DEF StakeAmount

LEMMA DelegateBooked ==
  ASSUME Booked, NEW a \in Account, NEW d \in Account \cup {Nobody}, Delegate(a, d)
  PROVE  Booked'
<1>1. /\ CanMoveDelegates(checkpoints, delegates[a], d, StakeAmount(a))
      /\ checkpoints' = MovedDelegates(checkpoints, block, delegates[a], d, StakeAmount(a))
      /\ delegates' = [delegates EXCEPT ![a] = d]
      /\ UNCHANGED <<block, now, poolVars, userVars, tokenVars, votesAt>>
  BY DEF Delegate
<1>2. StakeAmount(a) \in Nat /\ delegates[a] \in Account \cup {Nobody}
      /\ UNCHANGED <<block, votesAt>>
  BY <1>1, StakeAmountType DEF Booked, Types
<1>3. Recorded'
  BY <1>1, <1>2, MovedRecorded
<1>4. Queued'
  BY <1>1 DEF Booked, Queued, userVars
<1>5. Pointed'
  BY <1>1, PointsKept DEF Booked, poolVars
<1>6. Types'
  BY <1>1 DEF Booked, Types, poolVars, userVars, tokenVars, Added
<1> QED
  BY <1>3, <1>4, <1>5, <1>6 DEF Booked

LEMMA DonateBooked ==
  ASSUME Booked, NEW a \in Account, NEW t \in Token, NEW amount \in Nat, Donate(a, t, amount)
  PROVE  Booked'
<1>1. /\ amount <= wallets[t][a]
      /\ wallets' = [wallets EXCEPT ![t][a] = @ - amount]
      /\ vaultBalance' = [vaultBalance EXCEPT ![t] = @ + amount]
      /\ UNCHANGED <<block, now, poolVars, userVars, voteVars, storeBalance, votesAt>>
  BY DEF Donate
<1>2. wallets' \in [Token -> [Account -> Nat]] /\ vaultBalance' \in [Token -> Nat]
  <2>1. wallets \in [Token -> [Account -> Nat]] /\ vaultBalance \in [Token -> Nat]
    BY DEF Booked, Types
  <2>2. wallets[t][a] - amount \in Nat
    BY <1>1, <2>1
  <2> QED
    BY <1>1, <2>1, <2>2
<1>3. Recorded'
  BY <1>1 DEF Booked, Recorded, voteVars
<1>4. Queued'
  BY <1>1 DEF Booked, Queued, userVars
<1>5. Pointed'
  BY <1>1, PointsKept DEF Booked, poolVars
<1>6. Types'
  BY <1>1, <1>2 DEF Booked, Types, poolVars, userVars, voteVars, Added
<1> QED
  BY <1>3, <1>4, <1>5, <1>6 DEF Booked

LEMMA MineBooked ==
  ASSUME Booked, NEW seconds \in Nat, Mine(seconds)
  PROVE  Booked'
<1> DEFINE now_votes == [a \in Account |-> CurrentVotes(checkpoints[a])]
<1>1. /\ block < MaxBlock /\ block' = block + 1 /\ now' = now + seconds
      /\ votesAt' = Append(votesAt, now_votes)
      /\ UNCHANGED <<poolVars, userVars, voteVars, tokenVars>>
  BY DEF Mine
<1>2. /\ checkpoints \in [Account -> Seq(Checkpoint)] /\ block \in Nat /\ block >= 1
      /\ \A a \in Account : Kept(checkpoints[a], block)
      /\ votesAt \in Seq([Account -> Nat]) /\ Len(votesAt) = block - 1
      /\ \A a \in Account, b \in 1..(block - 1) : VotedAt(checkpoints[a], b, votesAt[b][a])
  BY DEF Booked, Types, Recorded
<1>3. now_votes \in [Account -> Nat] /\ \A a \in Account : now_votes[a] = CurrentVotes(checkpoints[a])
  BY <1>2, CurrentVotesType
<1> HIDE DEF now_votes
<1>4. /\ votesAt' \in Seq([Account -> Nat]) /\ Len(votesAt') = block
      /\ \A b \in 1..(block - 1) : votesAt'[b] = votesAt[b]
      /\ votesAt'[block] = now_votes
  <2> DEFINE vs == votesAt
             b0 == block
  <2>1. /\ Append(vs, now_votes) \in Seq([Account -> Nat])
        /\ Len(Append(vs, now_votes)) = Len(vs) + 1
        /\ \A i \in 1..Len(vs) : Append(vs, now_votes)[i] = vs[i]
        /\ Append(vs, now_votes)[Len(vs) + 1] = now_votes
    BY <1>2, <1>3, AppendProperties
  <2>2. Len(vs) = b0 - 1 /\ Len(vs) + 1 = b0
    BY <1>2
  <2> QED
    BY <1>1, <2>1, <2>2
<1>5. Recorded'
  <2>1. \A a \in Account : Kept(checkpoints[a], block + 1)
    <3> SUFFICES ASSUME NEW a \in Account PROVE Kept(checkpoints[a], block + 1)
      OBVIOUS
    <3>1. Kept(checkpoints[a], block) /\ \A i \in DOMAIN checkpoints[a] :
             checkpoints[a][i].fromBlock \in Nat
      BY <1>2, CpsShape DEF Kept
    <3> QED
      BY <1>2, <3>1 DEF Kept
  <2>2. ASSUME NEW a \in Account, NEW b \in 1..block
        PROVE  VotedAt(checkpoints[a], b, votesAt'[b][a])
    <3>1. CASE b = block
      BY <1>2, <1>3, <1>4, <3>1, VotedNow
    <3>2. CASE b # block
      <4>1. b \in 1..(block - 1)
        BY <1>2, <3>2
      <4> QED
        BY <1>2, <1>4, <4>1
    <3> QED
      BY <3>1, <3>2
  <2>3. checkpoints' = checkpoints /\ block' - 1 = block
    BY <1>1, <1>2 DEF voteVars
  <2> QED
    BY <1>1, <1>2, <1>4, <2>1, <2>2, <2>3 DEF Recorded
<1>6. Queued'
  BY <1>1 DEF Booked, Queued, userVars
<1>7. Pointed'
  BY <1>1, PointsKept DEF Booked, poolVars
<1>8. Types'
  BY <1>1, Inputs, SMTT(30) DEF Booked, Types, poolVars, userVars, voteVars, tokenVars, Added
<1> QED
  BY <1>5, <1>6, <1>7, <1>8 DEF Booked

LEMMA StepBooked == Booked /\ [Next]_vars => Booked'
<1> SUFFICES ASSUME Booked, [Next]_vars PROVE Booked'
  OBVIOUS
<1>1. CASE \E p \in Added : UpdatePool(p)
  BY <1>1, UpdateBooked
<1>2. CASE \E p \in Added : \E a \in Users[p], amount \in Amounts : Deposit(a, p, amount)
  BY <1>2, Inputs, DepositBooked DEF Booked, Types
<1>3. CASE \E p \in Added : \E a \in Users[p], amount \in Amounts :
             RequestWithdrawal(a, p, amount)
  BY <1>3, Inputs, RequestBooked DEF Booked, Types
<1>4. CASE \E p \in Added : \E a \in Users[p] : ExecuteWithdrawal(a, p)
  BY <1>4, Inputs, ExecuteBooked DEF Booked, Types
<1>5. CASE \E a \in Delegators, d \in Delegatees : Delegate(a, d)
  BY <1>5, Inputs, DelegateBooked
<1>6. CASE \E a \in Account, t \in Token, amount \in Gifts : Donate(a, t, amount)
  BY <1>6, Inputs, DonateBooked
<1>7. CASE \E seconds \in 1..MaxSeconds : Mine(seconds)
  BY <1>7, Inputs, MineBooked
<1>8. CASE UNCHANGED vars
  <2>1. UNCHANGED <<block, now, poolVars, userVars, voteVars, tokenVars, votesAt>>
    BY <1>8 DEF vars
  <2>2. Types'
    BY <2>1 DEF Booked, Types, poolVars, userVars, voteVars, tokenVars, Added
  <2>3. Pointed'
    BY <2>1, PointsKept DEF Booked, poolVars
  <2> QED
    BY <2>1, <2>2, <2>3, SameBooks DEF Booked
<1> QED
  BY <1>1, <1>2, <1>3, <1>4, <1>5, <1>6, <1>7, <1>8, AdminBooked DEF Next, UserCall

\* The pools, their points, the users' books, the tokens and the records of the
\* votes are what their types say: no balance, stake or vote goes below zero.
THEOREM VaultTypes == Spec => []VaultTypeOK
<1>1. Booked => VaultTypeOK
  <2> SUFFICES ASSUME Booked PROVE VaultTypeOK
    OBVIOUS
  <2>1. block \in 1..MaxBlock
    BY Inputs DEF Booked, Types
  <2>2. ASSUME NEW p \in Pools, NEW a \in Account
        PROVE  \A i \in DOMAIN withdrawalRequests[p][a] :
                 withdrawalRequests[p][a][i].amount \in Nat \ {0}
    <3>1. withdrawalRequests[p][a] \in Seq(Request)
      BY DEF Booked, Queued
    <3> QED
      BY <3>1, RequestsShape
  <2>3. ASSUME NEW d \in Account
        PROVE  \A i \in DOMAIN checkpoints[d] : checkpoints[d][i] \in Checkpoint
    <3>1. checkpoints[d] \in Seq(Checkpoint)
      BY DEF Booked, Recorded
    <3> QED
      BY <3>1, CpsShape
  <2>4. \A p \in Added : poolInfos[p] \in PoolInfo
    BY DEF Booked, Types
  <2> QED
    BY <2>1, <2>2, <2>3, <2>4 DEF Booked, Types, Queued, VaultTypeOK
<1> QED
  BY <1>1, InitBooked, StepBooked, PTL DEF Spec

\* Popping from the end finds every request whose time has come, whatever the
\* periods were, and what is pending is what is in the queue.
THEOREM QueuePopsWhatIsDue == Spec => []PopsWhatIsDue
<1>1. Booked => PopsWhatIsDue
  <2> SUFFICES ASSUME Booked, NEW p \in Pools, NEW a \in Account
               PROVE  LET requests == withdrawalRequests[p][a]
                      IN  /\ TotalOf(requests) - TotalOf(KeptRequests(requests))
                               = SumFunctionOnSet(Requested(requests), Unlocked(requests))
                          /\ TotalOf(requests) = userInfos[p][a].pendingWithdrawals
    BY DEF PopsWhatIsDue
  <2> DEFINE rs == withdrawalRequests[p][a]
  <2>1. /\ rs \in Seq(Request) /\ Falling(rs) /\ now \in Nat
        /\ TotalOf(rs) = userInfos[p][a].pendingWithdrawals
    BY DEF Booked, Queued, Types
  <2> HIDE DEF rs
  <2>2. /\ TotalOf(KeptRequests(rs)) \in Nat
        /\ SumFunctionOnSet(Requested(rs), Unlocked(rs)) \in Nat
        /\ TotalOf(rs) = TotalOf(KeptRequests(rs))
                           + SumFunctionOnSet(Requested(rs), Unlocked(rs))
    BY <2>1, Popped
  <2>3. TotalOf(rs) - TotalOf(KeptRequests(rs))
          = SumFunctionOnSet(Requested(rs), Unlocked(rs))
    BY <2>2
  <2> QED
    BY <2>1, <2>3 DEF rs
<1> QED
  BY <1>1, InitBooked, StepBooked, PTL DEF Spec

\* getPriorVotes finds what the votes were at the end of any past block: the
\* halving search is right, and no call rewrites the past.
THEOREM PastVotesStay == Spec => []PastVotesFixed
<1>1. Booked => PastVotesFixed
  <2> SUFFICES ASSUME Booked, NEW a \in Account, NEW b \in 1..(block - 1)
               PROVE  GetPriorVotes(checkpoints[a], b) = votesAt[b][a]
    BY DEF PastVotesFixed
  <2>1. /\ checkpoints[a] \in Seq(Checkpoint) /\ Rising(checkpoints[a]) /\ b \in Nat
        /\ VotedAt(checkpoints[a], b, votesAt[b][a])
    BY DEF Booked, Recorded, Kept, Types
  <2> QED
    BY <2>1, PriorVotes
<1> QED
  BY <1>1, InitBooked, StepBooked, PTL DEF Spec

-----------------------------------------------------------------------------
(* The vault's balance covers the stakes.                                  *)

AmountsIn(p) == [a \in Account |-> userInfos[p][a].amount]
StakesOf(t) == [p \in {q \in Pools : Staked(q) = t} |-> SumFunction(AmountsIn(p))]

LEMMA StakesType ==
  ASSUME Types
  PROVE  /\ \A p \in Pools : /\ AmountsIn(p) \in [Account -> Nat]
                             /\ SumFunction(AmountsIn(p)) \in Nat
         /\ \A t \in Token : /\ StakesOf(t) \in [{q \in Pools : Staked(q) = t} -> Nat]
                             /\ SumFunction(StakesOf(t)) \in Nat
                             /\ IsFiniteSet({q \in Pools : Staked(q) = t})
<1>1. IsFiniteSet(Account) /\ IsFiniteSet(Pools)
  BY VaultAssumption
<1>2. \A p \in Pools : AmountsIn(p) \in [Account -> Nat]
  BY DEF AmountsIn, Types, UserInfo
<1>3. \A p \in Pools : SumFunction(AmountsIn(p)) \in Nat
  BY <1>1, <1>2, SumFunctionNat
<1>4. ASSUME NEW t \in Token
      PROVE  /\ StakesOf(t) \in [{q \in Pools : Staked(q) = t} -> Nat]
             /\ SumFunction(StakesOf(t)) \in Nat
             /\ IsFiniteSet({q \in Pools : Staked(q) = t})
  <2> DEFINE S == {q \in Pools : Staked(q) = t}
  <2>1. IsFiniteSet(S)
    BY <1>1, FS_Subset
  <2>2. StakesOf(t) \in [S -> Nat]
    BY <1>3 DEF StakesOf
  <2> HIDE DEF S
  <2>3. SumFunction(StakesOf(t)) \in Nat
    BY <2>1, <2>2, SumFunctionNat
  <2> QED
    BY <2>1, <2>2, <2>3 DEF S
<1> QED
  BY <1>2, <1>3, <1>4

LEMMA HoldsIs ==
  /\ HoldsStakes <=> \A t \in Token : SumFunction(StakesOf(t)) <= vaultBalance[t]
  /\ HoldsStakes' <=> \A t \in Token : SumFunction(StakesOf(t)') <= vaultBalance'[t]
BY DEF HoldsStakes, StakesOf, AmountsIn

\* The books are not written, and the vault pays nothing out.
LEMMA StakesSame ==
  ASSUME Types, Types', HoldsStakes, userInfos' = userInfos,
         \A t \in Token : vaultBalance[t] <= vaultBalance'[t]
  PROVE  HoldsStakes'
<1>1. ASSUME NEW t \in Token
      PROVE  SumFunction(StakesOf(t)') <= vaultBalance'[t]
  <2>1. StakesOf(t)' = StakesOf(t)
    BY DEF StakesOf, AmountsIn
  <2>2. SumFunction(StakesOf(t)) \in Nat /\ SumFunction(StakesOf(t)) <= vaultBalance[t]
    BY StakesType, HoldsIs
  <2>3. vaultBalance[t] \in Nat /\ vaultBalance'[t] \in Nat /\ vaultBalance[t] <= vaultBalance'[t]
    BY DEF Types
  <2> QED
    BY <2>1, <2>2, <2>3
<1> QED
  BY <1>1, HoldsIs

\* A stake changes by as much as the vault's balance.
LEMMA StakesMove ==
  ASSUME Types, Types', HoldsStakes, NEW p \in Pools, NEW a \in Account, NEW d \in Int,
         NEW user \in UserInfo, user.amount = userInfos[p][a].amount + d,
         userInfos' = [userInfos EXCEPT ![p][a] = user],
         vaultBalance' = [vaultBalance EXCEPT ![Staked(p)] = @ + d]
  PROVE  HoldsStakes'
<1>1. /\ IsFiniteSet(Account) /\ Staked(p) \in Token
      /\ \A q \in Pools : AmountsIn(q) \in [Account -> Nat] /\ SumFunction(AmountsIn(q)) \in Nat
      /\ \A q \in Pools : AmountsIn(q)' \in [Account -> Nat] /\ SumFunction(AmountsIn(q)') \in Nat
  <2>1. \A q \in Pools : AmountsIn(q)' \in [Account -> Nat]
    BY DEF AmountsIn, Types, UserInfo
  <2>2. \A q \in Pools : SumFunction(AmountsIn(q)') \in Nat
    BY <2>1, VaultAssumption, SumFunctionNat
  <2> QED
    BY <2>1, <2>2, VaultAssumption, Inputs, StakesType
<1>2. \A q \in Pools \ {p} : AmountsIn(q)' = AmountsIn(q)
  BY DEF AmountsIn, Types
<1>3. SumFunction(AmountsIn(p)') = SumFunction(AmountsIn(p)) + d
  <2> DEFINE f == AmountsIn(p)
             g == AmountsIn(p)'
  <2>1. /\ \A b \in Account \ {a} : g[b] = f[b]
        /\ g[a] = f[a] + d
    BY DEF AmountsIn, Types
  <2>2. /\ f \in [Account -> Int] /\ g \in [Account -> Int] /\ f[a] \in Nat
        /\ SumFunction(f) \in Nat
    BY <1>1
  <2> HIDE DEF f, g
  <2>3. SumFunction(g) = SumFunction(f) - f[a] + g[a]
    BY <1>1, <2>1, <2>2, SumFunctionUpdate
  <2>4. SumFunction(g) = SumFunction(f) + d
    BY <2>1, <2>2, <2>3
  <2> QED
    BY <2>4 DEF f, g
<1>4. ASSUME NEW t \in Token
      PROVE  SumFunction(StakesOf(t)') <= vaultBalance'[t]
  <2> DEFINE S == {q \in Pools : Staked(q) = t}
             f == StakesOf(t)
             g == StakesOf(t)'
  <2>1. /\ IsFiniteSet(S) /\ f \in [S -> Nat] /\ SumFunction(f) \in Nat
        /\ SumFunction(f) <= vaultBalance[t]
    BY StakesType, HoldsIs
  <2>2. g = [q \in S |-> SumFunction(AmountsIn(q)')]
    BY DEF StakesOf
  <2>3. vaultBalance[t] \in Nat
    BY DEF Types
  <2>4. CASE Staked(p) = t
    <3>1. /\ p \in S /\ \A q \in S \ {p} : g[q] = f[q]
          /\ g[p] = f[p] + d
          /\ \A q \in S : g[q] \in Nat
      BY <1>1, <1>2, <1>3, <2>2, <2>4 DEF StakesOf
    <3>2. g \in [S -> Int] /\ f \in [S -> Int] /\ f[p] \in Nat
      <4>1. g = [q \in S |-> g[q]]
        BY <2>2
      <4> HIDE DEF S, f, g
      <4> QED
        BY <2>1, <3>1, <4>1
    <3>3. vaultBalance'[t] = vaultBalance[t] + d
      BY <1>1, <2>4 DEF Types
    <3> HIDE DEF S, f, g
    <3>4. SumFunction(g) = SumFunction(f) - f[p] + g[p]
      BY <2>1, <3>1, <3>2, SumFunctionUpdate
    <3>5. SumFunction(g) = SumFunction(f) + d
      BY <2>1, <3>1, <3>2, <3>4
    <3>6. SumFunction(g) <= vaultBalance'[t]
      BY <2>1, <2>3, <3>3, <3>5
    <3> QED
      BY <3>6 DEF g
  <2>5. CASE Staked(p) # t
    <3>1. g = f
      BY <1>2, <2>2, <2>5 DEF StakesOf
    <3>2. vaultBalance'[t] = vaultBalance[t]
      BY <1>1, <2>5 DEF Types
    <3> QED
      BY <2>1, <3>1, <3>2
  <2> QED
    BY <2>4, <2>5
<1> QED
  BY <1>4, HoldsIs

LEMMA InitHolds == Init => HoldsStakes
<1> SUFFICES ASSUME Init PROVE HoldsStakes
  OBVIOUS
<1>1. IsFiniteSet(Account) /\ \A p \in Pools : AmountsIn(p) = [a \in Account |-> 0]
  BY VaultAssumption DEF Init, AmountsIn, NewUser
<1>2. \A p \in Pools : SumFunction(AmountsIn(p)) = 0
  BY <1>1, SumFunctionZero
<1>3. ASSUME NEW t \in Token
      PROVE  SumFunction(StakesOf(t)) <= vaultBalance[t]
  <2> DEFINE S == {q \in Pools : Staked(q) = t}
  <2>1. IsFiniteSet(S)
    BY VaultAssumption, FS_Subset
  <2>2. StakesOf(t) = [q \in S |-> 0]
    BY <1>2 DEF StakesOf
  <2> HIDE DEF S
  <2>3. SumFunction([q \in S |-> 0]) = 0
    BY <2>1, SumFunctionZero
  <2> QED
    BY <2>2, <2>3 DEF Init
<1> QED
  BY <1>3, HoldsIs

LEMMA StepHolds == Booked /\ HoldsStakes /\ [Next]_vars => HoldsStakes'
<1> SUFFICES ASSUME Booked, HoldsStakes, [Next]_vars PROVE HoldsStakes'
  OBVIOUS
<1>1. Types /\ Types' /\ Added \subseteq Pools
  BY StepBooked DEF Booked, Types
<1>2. CASE UNCHANGED <<userInfos, vaultBalance>>
  BY <1>1, <1>2, StakesSame DEF Types
<1>3. CASE AdminCall
  BY <1>2, <1>3 DEF AdminCall, Add, Set, SetRewardAmountPerBlock, SetWithdrawalLockingPeriod,
    userVars, tokenVars
<1>4. CASE \E p \in Added : UpdatePool(p)
  BY <1>2, <1>4 DEF UpdatePool, userVars, tokenVars
<1>5. CASE \E p \in Added : \E a \in Users[p], amount \in Amounts : Deposit(a, p, amount)
  <2>1. PICK p \in Added : \E a \in Users[p], amount \in Amounts : Deposit(a, p, amount)
    BY <1>5
  <2>2. PICK a \in Users[p], amount \in Amounts : Deposit(a, p, amount)
    BY <2>1
  <2>3. a \in Account /\ amount \in Nat /\ amount \in Int /\ p \in Pools
    BY <1>1, Inputs
  <2>4. vaultBalance' = [vaultBalance EXCEPT ![Staked(p)] = @ + amount]
    BY <2>2, <2>3, DepositIs
  <2>5. PICK user \in UserInfo : /\ user.amount = userInfos[p][a].amount + amount
                                 /\ userInfos' = [userInfos EXCEPT ![p][a] = user]
    BY <2>2, <2>3, DepositIs
  <2> QED
    BY <1>1, <2>3, <2>4, <2>5, StakesMove
<1>6. CASE \E p \in Added : \E a \in Users[p], amount \in Amounts :
             RequestWithdrawal(a, p, amount)
  <2>1. PICK p \in Added : \E a \in Users[p], amount \in Amounts : RequestWithdrawal(a, p, amount)
    BY <1>6
  <2>2. PICK a \in Users[p], amount \in Amounts : RequestWithdrawal(a, p, amount)
    BY <2>1
  <2>3. a \in Account /\ amount \in Nat /\ p \in Pools /\ Staked(p) \in Token
    BY <1>1, Inputs
  <2>4. vaultBalance' = vaultBalance
    BY <2>2, <2>3, RequestIs DEF tokenVars
  <2>5. PICK user \in UserInfo, rs \in Seq(Request) :
          /\ user.amount = userInfos[p][a].amount
          /\ userInfos' = [userInfos EXCEPT ![p][a] = user]
    BY <2>2, <2>3, RequestIs
  <2> DEFINE d == 0
  <2>6. /\ vaultBalance' = [vaultBalance EXCEPT ![Staked(p)] = @ + d]
        /\ user.amount = userInfos[p][a].amount + d
        /\ d \in Int
    <3>1. vaultBalance[Staked(p)] \in Nat /\ vaultBalance \in [Token -> Nat]
      BY <1>1, <2>3 DEF Types
    <3>2. userInfos[p][a].amount \in Nat
      BY <1>1, <2>3 DEF Types, UserInfo
    <3>3. vaultBalance[Staked(p)] + 0 = vaultBalance[Staked(p)]
      BY <3>1
    <3> QED
      BY <2>4, <2>5, <3>1, <3>2, <3>3
  <2> HIDE DEF d
  <2> QED
    BY <1>1, <2>3, <2>5, <2>6, StakesMove
<1>7. CASE \E p \in Added : \E a \in Users[p] : ExecuteWithdrawal(a, p)
  <2>1. PICK p \in Added : \E a \in Users[p] : ExecuteWithdrawal(a, p)
    BY <1>7
  <2>2. PICK a \in Users[p] : ExecuteWithdrawal(a, p)
    BY <2>1
  <2>3. a \in Account /\ p \in Pools /\ Staked(p) \in Token
    BY <1>1, Inputs
  <2>4. PICK user \in UserInfo, rs \in Seq(Request), amount \in Nat :
          /\ user.amount = userInfos[p][a].amount - amount
          /\ user.pendingWithdrawals = userInfos[p][a].pendingWithdrawals - amount
          /\ Falling(rs) /\ TotalOf(rs) = user.pendingWithdrawals
          /\ userInfos' = [userInfos EXCEPT ![p][a] = user]
          /\ withdrawalRequests' = [withdrawalRequests EXCEPT ![p][a] = rs]
          /\ vaultBalance' = [vaultBalance EXCEPT ![Staked(p)] = @ - amount]
          /\ amount <= vaultBalance[Staked(p)]
    BY <2>2, <2>3, ExecuteIs
  <2> DEFINE d == 0 - amount
  <2>5. /\ d \in Int
        /\ vaultBalance' = [vaultBalance EXCEPT ![Staked(p)] = @ + d]
        /\ user.amount = userInfos[p][a].amount + d
    <3>1. vaultBalance[Staked(p)] \in Nat /\ userInfos[p][a].amount \in Nat
      BY <1>1, <2>3 DEF Types, UserInfo
    <3>2. vaultBalance[Staked(p)] - amount = vaultBalance[Staked(p)] + d
      BY <3>1
    <3>3. userInfos[p][a].amount - amount = userInfos[p][a].amount + d
      BY <3>1
    <3>4. d \in Int
      OBVIOUS
    <3> HIDE DEF d
    <3>5. vaultBalance' = [vaultBalance EXCEPT ![Staked(p)] = @ + d]
      BY <2>4, <3>2
    <3>6. user.amount = userInfos[p][a].amount + d
      BY <2>4, <3>3
    <3> QED
      BY <3>4, <3>5, <3>6
  <2> HIDE DEF d
  <2> QED
    BY <1>1, <2>3, <2>4, <2>5, StakesMove
<1>8. CASE \E a \in Delegators, d \in Delegatees : Delegate(a, d)
  BY <1>2, <1>8 DEF Delegate, userVars, tokenVars
<1>9. CASE \E a \in Account, t \in Token, amount \in Gifts : Donate(a, t, amount)
  <2>1. PICK a \in Account, t \in Token, amount \in Gifts : Donate(a, t, amount)
    BY <1>9
  <2>2. amount \in Nat /\ userInfos' = userInfos
        /\ vaultBalance' = [vaultBalance EXCEPT ![t] = @ + amount]
    BY <2>1, Inputs DEF Donate, userVars
  <2>3. \A u \in Token : vaultBalance[u] <= vaultBalance'[u]
    BY <1>1, <2>2 DEF Types
  <2> QED
    BY <1>1, <2>2, <2>3, StakesSame
<1>10. CASE (\E seconds \in 1..MaxSeconds : Mine(seconds)) \/ UNCHANGED vars
  BY <1>2, <1>10 DEF Mine, vars, userVars, tokenVars
<1> QED
  BY <1>3, <1>4, <1>5, <1>6, <1>7, <1>8, <1>9, <1>10 DEF Next, UserCall

\* Through any deposits, withdrawals and transfers, also when pools share a token or
\* pay in it, the vault's balance of a token covers every stake of it.
THEOREM VaultHoldsStakes == Spec => []HoldsStakes
<1>1. Init => Booked /\ HoldsStakes
  BY InitBooked, InitHolds
<1>2. Booked /\ HoldsStakes /\ [Next]_vars => Booked' /\ HoldsStakes'
  BY StepBooked, StepHolds
<1> QED
  BY <1>1, <1>2, PTL DEF Spec

-----------------------------------------------------------------------------
(* The votes.                                                              *)

\* Who uses a pool that takes BRN and pays something else, or the other way round,
\* does not vote.
ApartFromVotes ==
  \A p \in Pools : (Staked(p) = BRN) # (Reward(p) = BRN) => Users[p] \cap Delegators = {}

Backing(d) == [a \in Account |-> IF delegates[a] = d THEN StakeAmount(a) ELSE 0]

Backed ==
  /\ \A p \in Pools \ Added, a \in Account :
       userInfos[p][a].amount = 0 /\ userInfos[p][a].pendingWithdrawals = 0
  /\ \A a \in Account \ Delegators : delegates[a] = Nobody
  /\ \A d \in Account : CurrentVotes(checkpoints[d]) = SumFunction(Backing(d))

LEMMA BackingType ==
  ASSUME Booked, NEW d
  PROVE  Backing(d) \in [Account -> Nat] /\ SumFunction(Backing(d)) \in Nat
<1>1. Backing(d) \in [Account -> Nat]
  BY StakeAmountType DEF Backing
<1> QED
  BY <1>1, VaultAssumption, SumFunctionNat

LEMMA BackingTypeNext ==
  ASSUME Booked', NEW d
  PROVE  Backing(d)' \in [Account -> Nat]
<1>1. \A a \in Account : StakeAmount(a)' \in Nat
  <2> SUFFICES ASSUME NEW a \in Account PROVE StakeAmount(a)' \in Nat
    OBVIOUS
  <2>1. CASE <<BRN, BRN>> \in Added'
    <3>1. <<BRN, BRN>> \in Pools
      BY <2>1 DEF Booked, Types
    <3> DEFINE user == userInfos'[<<BRN, BRN>>][a]
    <3>2. /\ user.amount \in Nat /\ user.pendingWithdrawals \in Nat
          /\ user.pendingWithdrawals <= user.amount
      BY <3>1 DEF Booked, Types, Queued, UserInfo
    <3>3. StakeAmount(a)' = user.amount - user.pendingWithdrawals
      BY <2>1 DEF StakeAmount
    <3> HIDE DEF user
    <3> QED
      BY <3>2, <3>3
  <2> QED
    BY <2>1 DEF StakeAmount
<1> QED
  BY <1>1 DEF Backing

LEMMA VotesAre == Booked /\ Backed => VotesMatchStake
<1> SUFFICES ASSUME Booked, Backed, NEW d \in Account
             PROVE  CurrentVotes(checkpoints[d]) =
                      SumFunction([a \in {b \in Account : delegates[b] = d} |-> StakeAmount(a)])
  BY DEF VotesMatchStake
<1> DEFINE S == {b \in Account : delegates[b] = d}
           f == [a \in S |-> StakeAmount(a)]
           g == Backing(d)
<1>1. /\ S \in SUBSET Account /\ IsFiniteSet(Account)
      /\ \A a \in S : f[a] \in Int /\ g[a] = f[a]
      /\ \A a \in Account \ S : g[a] = 0
  BY StakeAmountType, VaultAssumption DEF Backing
<1>2. SumFunction(f) = SumFunctionOnSet(f, S)
  BY DEF SumFunction
<1>3. SumFunction(g) = SumFunctionOnSet(g, Account)
  BY DEF SumFunction, Backing
<1> HIDE DEF S, f, g
<1>4. SumFunctionOnSet(g, Account) = SumFunctionOnSet(f, S)
  BY <1>1, SumWithoutZeros
<1>5. CurrentVotes(checkpoints[d]) = SumFunction(f)
  BY <1>2, <1>3, <1>4 DEF Backed, g
<1> QED
  BY <1>5 DEF f, S

\* Only one account's support changes: the sums change by as much.
LEMMA BackingMoves ==
  ASSUME Booked, Booked', Backed, NEW a \in Account,
         \A d \in Account :
           /\ \A b \in Account \ {a} : Backing(d)'[b] = Backing(d)[b]
           /\ CurrentVotes(checkpoints'[d])
                = CurrentVotes(checkpoints[d]) - Backing(d)[a] + Backing(d)'[a]
  PROVE  \A d \in Account : CurrentVotes(checkpoints'[d]) = SumFunction(Backing(d)')
<1> SUFFICES ASSUME NEW d \in Account
             PROVE  CurrentVotes(checkpoints'[d]) = SumFunction(Backing(d)')
  OBVIOUS
<1> DEFINE f == Backing(d)
           g == Backing(d)'
<1>1. f \in [Account -> Int] /\ g \in [Account -> Int] /\ IsFiniteSet(Account)
  BY BackingType, BackingTypeNext, VaultAssumption
<1>2. \A b \in Account \ {a} : g[b] = f[b]
  OBVIOUS
<1>3. CurrentVotes(checkpoints'[d]) = SumFunction(f) - f[a] + g[a]
  BY DEF Backed
<1> HIDE DEF f, g
<1>4. SumFunction(g) = SumFunction(f) - f[a] + g[a]
  BY <1>1, <1>2, SumFunctionUpdate
<1> QED
  BY <1>3, <1>4 DEF g

\* Nobody's support changes, and no votes are written.
LEMMA BackingSame ==
  ASSUME Booked, Backed, \A a \in Account : StakeAmount(a)' = StakeAmount(a),
         UNCHANGED <<delegates, checkpoints>>
  PROVE  \A d \in Account : CurrentVotes(checkpoints'[d]) = SumFunction(Backing(d)')
<1>1. \A d \in Account : Backing(d)' = Backing(d)
  BY DEF Backing
<1> QED
  BY <1>1 DEF Backed

\* The votes of the delegates after some have moved.
LEMMA MovedVotes ==
  ASSUME Booked, NEW src \in Account \cup {Nobody}, NEW dst \in Account \cup {Nobody},
         NEW amount \in Nat, CanMoveDelegates(checkpoints, src, dst, amount),
         checkpoints' = MovedDelegates(checkpoints, block, src, dst, amount)
  PROVE  \A d \in Account :
           /\ CurrentVotes(checkpoints'[d])
                = VotesAfter(CurrentVotes(checkpoints[d]), d, src, dst, amount)
           /\ CurrentVotes(checkpoints[d]) \in Nat
<1> DEFINE cs == checkpoints
           ms == checkpoints'
           b == block
<1>1. AllKept(cs, b) /\ b \in Nat /\ CanMoveDelegates(cs, src, dst, amount)
      /\ ms = MovedDelegates(cs, b, src, dst, amount)
  BY DEF Booked, Recorded, Types, AllKept
<1> HIDE DEF cs, ms, b
<1>2. /\ AllKept(ms, b)
      /\ \A d \in Account :
           /\ CurrentVotes(ms[d]) = VotesAfter(CurrentVotes(cs[d]), d, src, dst, amount)
           /\ SamePast(cs[d], ms[d], b)
  BY <1>1, Moved
<1>3. \A d \in Account : CurrentVotes(cs[d]) \in Nat
  BY <1>1, CurrentVotesType DEF AllKept
<1> QED
  BY <1>2, <1>3 DEF cs, ms

LEMMA NobodyMoves ==
  ASSUME Booked, NEW amount
  PROVE  MovedDelegates(checkpoints, block, Nobody, Nobody, amount) = checkpoints
BY DEF MovedDelegates, Booked, Recorded

LEMMA InitBacked == Init => Backed
<1> SUFFICES ASSUME Init PROVE Backed
  OBVIOUS
<1>1. \A d \in Account : Backing(d) = [a \in Account |-> 0]
  BY Inputs DEF Init, Backing
<1>2. SumFunction([a \in Account |-> 0]) = 0
  BY VaultAssumption, SumFunctionZero
<1>3. \A d \in Account : CurrentVotes(checkpoints[d]) = 0
  BY DEF Init, CurrentVotes
<1> QED
  BY <1>1, <1>2, <1>3 DEF Init, Backed, NewUser

\* One user's books in one pool are written: what votes of it.
LEMMA StakeWritten ==
  ASSUME Booked, Booked', NEW p \in Added, NEW a \in Account, NEW user \in UserInfo,
         Added' = Added, userInfos' = [userInfos EXCEPT ![p][a] = user],
         NEW delta \in Int,
         user.amount - user.pendingWithdrawals
           = userInfos[p][a].amount - userInfos[p][a].pendingWithdrawals + delta
  PROVE  /\ p = <<BRN, BRN>> =>
              \A b \in Account : StakeAmount(b)' = StakeAmount(b) + (IF b = a THEN delta ELSE 0)
         /\ p # <<BRN, BRN>> => \A b \in Account : StakeAmount(b)' = StakeAmount(b)
<1>1. p \in Pools /\ userInfos \in [Pools -> [Account -> UserInfo]]
  BY DEF Booked, Types
<1>2. ASSUME p = <<BRN, BRN>>, NEW b \in Account
      PROVE  StakeAmount(b)' = StakeAmount(b) + (IF b = a THEN delta ELSE 0)
  <2>1. /\ StakeAmount(b) = userInfos[p][b].amount - userInfos[p][b].pendingWithdrawals
        /\ StakeAmount(b)' = userInfos'[p][b].amount - userInfos'[p][b].pendingWithdrawals
    BY <1>2 DEF StakeAmount
  <2>2. userInfos'[p][b] = IF b = a THEN user ELSE userInfos[p][b]
    BY <1>1
  <2>3. StakeAmount(b) \in Nat
    BY StakeAmountType
  <2>4. CASE b = a
    BY <2>1, <2>2, <2>4
  <2>5. CASE b # a
    <3>1. StakeAmount(b)' = StakeAmount(b)
      BY <2>1, <2>2, <2>5
    <3> QED
      BY <2>3, <2>5, <3>1
  <2> QED
    BY <2>4, <2>5
<1>3. ASSUME p # <<BRN, BRN>>, NEW b \in Account
      PROVE  StakeAmount(b)' = StakeAmount(b)
  <2>1. <<BRN, BRN>> \in Added => userInfos'[<<BRN, BRN>>] = userInfos[<<BRN, BRN>>]
    BY <1>1, <1>3 DEF Booked, Types
  <2> QED
    BY <2>1 DEF StakeAmount
<1> QED
  BY <1>2, <1>3

\* The stake of one account and the votes of its delegate change by as much.
LEMMA StakeBacked ==
  ASSUME Booked, Booked', Backed, NEW a \in Account, NEW delta \in Int,
         delegates' = delegates,
         \A b \in Account : StakeAmount(b)' = StakeAmount(b) + (IF b = a THEN delta ELSE 0),
         \A d \in Account :
           /\ CurrentVotes(checkpoints'[d])
                = CurrentVotes(checkpoints[d]) + (IF d = delegates[a] THEN delta ELSE 0)
           /\ CurrentVotes(checkpoints[d]) \in Nat
  PROVE  \A d \in Account : CurrentVotes(checkpoints'[d]) = SumFunction(Backing(d)')
<1>1. ASSUME NEW d \in Account
      PROVE  /\ \A b \in Account \ {a} : Backing(d)'[b] = Backing(d)[b]
             /\ CurrentVotes(checkpoints'[d])
                  = CurrentVotes(checkpoints[d]) - Backing(d)[a] + Backing(d)'[a]
  <2>1. \A b \in Account : /\ Backing(d)[b] = IF delegates[b] = d THEN StakeAmount(b) ELSE 0
                           /\ Backing(d)'[b] = IF delegates[b] = d THEN StakeAmount(b)' ELSE 0
                           /\ StakeAmount(b) \in Nat
    BY StakeAmountType DEF Backing
  <2>2. \A b \in Account \ {a} : Backing(d)'[b] = Backing(d)[b]
    BY <2>1
  <2>3. Backing(d)'[a] = Backing(d)[a] + (IF d = delegates[a] THEN delta ELSE 0)
        /\ Backing(d)[a] \in Nat
    BY <2>1
  <2>4. /\ CurrentVotes(checkpoints'[d])
             = CurrentVotes(checkpoints[d]) + (IF d = delegates[a] THEN delta ELSE 0)
        /\ CurrentVotes(checkpoints[d]) \in Nat
    OBVIOUS
  <2>5. CurrentVotes(checkpoints'[d])
          = CurrentVotes(checkpoints[d]) - Backing(d)[a] + Backing(d)'[a]
    BY <2>3, <2>4
  <2> QED
    BY <2>2, <2>5
<1> QED
  BY <1>1, BackingMoves

\* Who names nobody, and which pools are empty, when books of a pool in use change.
LEMMA IdleStays ==
  ASSUME Booked, Backed, NEW p \in Added, NEW a \in Account, NEW user,
         Added' = Added, delegates' = delegates, userInfos' = [userInfos EXCEPT ![p][a] = user]
  PROVE  /\ \A q \in Pools \ Added', b \in Account :
              userInfos'[q][b].amount = 0 /\ userInfos'[q][b].pendingWithdrawals = 0
         /\ \A b \in Account \ Delegators : delegates'[b] = Nobody
<1>1. \A q \in Pools \ Added : userInfos'[q] = userInfos[q]
  BY DEF Booked, Types
<1> QED
  BY <1>1 DEF Backed

\* A user of a pool that takes BRN or pays it, but not both, has no delegate.
LEMMA NoDelegate ==
  ASSUME Booked, Backed, ApartFromVotes, NEW p \in Added, NEW a \in Users[p],
         p # <<BRN, BRN>>, Staked(p) = BRN \/ Reward(p) = BRN
  PROVE  delegates[a] = Nobody
<1>1. p \in Pools /\ a \in Account /\ p = <<Reward(p), Staked(p)>>
  BY Inputs, VaultAssumption DEF Booked, Types, Reward, Staked
<1>2. a \notin Delegators
  BY <1>1 DEF ApartFromVotes
<1> QED
  BY <1>1, <1>2 DEF Backed

LEMMA DepositBacked ==
  ASSUME Booked, Booked', Backed, ApartFromVotes, NEW p \in Added, NEW a \in Users[p],
         NEW amount \in Nat, Deposit(a, p, amount)
  PROVE  Backed'
<1>1. /\ p \in Pools /\ a \in Account /\ Added' = Added
      /\ checkpoints' = IF Staked(p) = BRN
                        THEN MovedDelegates(checkpoints, block, Nobody, delegates[a], amount)
                        ELSE checkpoints
      /\ delegates' = delegates
  BY Inputs, DepositIs DEF Booked, Types
<1>2. PICK user \in UserInfo :
        /\ user.amount = userInfos[p][a].amount + amount
        /\ user.pendingWithdrawals = userInfos[p][a].pendingWithdrawals
        /\ userInfos' = [userInfos EXCEPT ![p][a] = user]
  BY <1>1, DepositIs
<1>3. /\ \A q \in Pools \ Added', b \in Account :
           userInfos'[q][b].amount = 0 /\ userInfos'[q][b].pendingWithdrawals = 0
      /\ \A b \in Account \ Delegators : delegates'[b] = Nobody
  BY <1>1, <1>2, IdleStays
<1>4. /\ amount \in Int
      /\ user.amount - user.pendingWithdrawals
           = userInfos[p][a].amount - userInfos[p][a].pendingWithdrawals + amount
  <2>1. userInfos[p][a].amount \in Nat /\ userInfos[p][a].pendingWithdrawals \in Nat
    BY <1>1 DEF Booked, Types, UserInfo
  <2> QED
    BY <1>2, <2>1
<1>5. /\ p = <<BRN, BRN>> =>
           \A b \in Account : StakeAmount(b)' = StakeAmount(b) + (IF b = a THEN amount ELSE 0)
      /\ p # <<BRN, BRN>> => \A b \in Account : StakeAmount(b)' = StakeAmount(b)
  BY <1>1, <1>2, <1>4, StakeWritten
<1>6. ASSUME p = <<BRN, BRN>>
      PROVE  \A d \in Account : CurrentVotes(checkpoints'[d]) = SumFunction(Backing(d)')
  <2> DEFINE dst == delegates[a]
  <2>1. /\ dst \in Account \cup {Nobody} /\ Staked(p) = BRN
        /\ CanMoveDelegates(checkpoints, Nobody, dst, amount)
        /\ checkpoints' = MovedDelegates(checkpoints, block, Nobody, dst, amount)
    BY <1>1, <1>6 DEF Booked, Types, CanMoveDelegates, Staked
  <2> HIDE DEF dst
  <2>2. \A d \in Account :
          /\ CurrentVotes(checkpoints'[d])
               = VotesAfter(CurrentVotes(checkpoints[d]), d, Nobody, dst, amount)
          /\ CurrentVotes(checkpoints[d]) \in Nat
    BY <2>1, MovedVotes
  <2>3. \A d \in Account :
          /\ CurrentVotes(checkpoints'[d])
               = CurrentVotes(checkpoints[d]) + (IF d = dst THEN amount ELSE 0)
          /\ CurrentVotes(checkpoints[d]) \in Nat
    BY <2>2, Inputs DEF VotesAfter
  <2>4. \A d \in Account :
          /\ CurrentVotes(checkpoints'[d])
               = CurrentVotes(checkpoints[d]) + (IF d = delegates[a] THEN amount ELSE 0)
          /\ CurrentVotes(checkpoints[d]) \in Nat
    BY <2>3 DEF dst
  <2> QED
    BY <1>1, <1>4, <1>5, <1>6, <2>4, StakeBacked
<1>7. ASSUME p # <<BRN, BRN>>
      PROVE  \A d \in Account : CurrentVotes(checkpoints'[d]) = SumFunction(Backing(d)')
  <2>1. checkpoints' = checkpoints
    BY <1>1, <1>7, NoDelegate, NobodyMoves
  <2> QED
    BY <1>1, <1>5, <1>7, <2>1, BackingSame
<1> QED
  BY <1>3, <1>6, <1>7 DEF Backed

LEMMA RequestBacked ==
  ASSUME Booked, Booked', Backed, ApartFromVotes, NEW p \in Added, NEW a \in Users[p],
         NEW amount \in Nat, RequestWithdrawal(a, p, amount)
  PROVE  Backed'
<1>1. /\ p \in Pools /\ a \in Account /\ Added' = Added
      /\ VotesLeave(p) => CanMoveDelegates(checkpoints, delegates[a], Nobody, amount)
      /\ checkpoints' = IF VotesLeave(p)
                        THEN MovedDelegates(checkpoints, block, delegates[a], Nobody, amount)
                        ELSE checkpoints
      /\ delegates' = delegates
  BY Inputs, RequestIs DEF Booked, Types, poolVars, Added
<1>2. PICK user \in UserInfo, rs \in Seq(Request) :
        /\ user.amount = userInfos[p][a].amount
        /\ user.pendingWithdrawals = userInfos[p][a].pendingWithdrawals + amount
        /\ userInfos' = [userInfos EXCEPT ![p][a] = user]
  BY <1>1, RequestIs
<1>3. /\ \A q \in Pools \ Added', b \in Account :
           userInfos'[q][b].amount = 0 /\ userInfos'[q][b].pendingWithdrawals = 0
      /\ \A b \in Account \ Delegators : delegates'[b] = Nobody
  BY <1>1, <1>2, IdleStays
<1> DEFINE delta == 0 - amount
<1>4. /\ delta \in Int
      /\ user.amount - user.pendingWithdrawals
           = userInfos[p][a].amount - userInfos[p][a].pendingWithdrawals + delta
  <2>1. userInfos[p][a].amount \in Nat /\ userInfos[p][a].pendingWithdrawals \in Nat
    BY <1>1 DEF Booked, Types, UserInfo
  <2> QED
    BY <1>2, <2>1
<1>5. \A votes \in Nat : \A d : votes - (IF d = delegates[a] THEN amount ELSE 0) + 0
                              = votes + (IF d = delegates[a] THEN delta ELSE 0)
  OBVIOUS
<1> HIDE DEF delta
<1>6. /\ p = <<BRN, BRN>> =>
           \A b \in Account : StakeAmount(b)' = StakeAmount(b) + (IF b = a THEN delta ELSE 0)
      /\ p # <<BRN, BRN>> => \A b \in Account : StakeAmount(b)' = StakeAmount(b)
  BY <1>1, <1>2, <1>4, StakeWritten
<1>7. ASSUME p = <<BRN, BRN>>
      PROVE  \A d \in Account : CurrentVotes(checkpoints'[d]) = SumFunction(Backing(d)')
  <2> DEFINE src == delegates[a]
  <2>1. /\ src \in Account \cup {Nobody} /\ VotesLeave(p)
        /\ CanMoveDelegates(checkpoints, src, Nobody, amount)
        /\ checkpoints' = MovedDelegates(checkpoints, block, src, Nobody, amount)
    BY <1>1, <1>7 DEF Booked, Types, VotesLeave, Reward
  <2> HIDE DEF src
  <2>2. \A d \in Account :
          /\ CurrentVotes(checkpoints'[d])
               = VotesAfter(CurrentVotes(checkpoints[d]), d, src, Nobody, amount)
          /\ CurrentVotes(checkpoints[d]) \in Nat
    BY <2>1, MovedVotes
  <2>3. \A d \in Account :
          VotesAfter(CurrentVotes(checkpoints[d]), d, src, Nobody, amount)
            = CurrentVotes(checkpoints[d]) - (IF d = src THEN amount ELSE 0) + 0
    BY Inputs DEF VotesAfter
  <2>4. \A d \in Account :
          /\ CurrentVotes(checkpoints'[d])
               = CurrentVotes(checkpoints[d]) + (IF d = delegates[a] THEN delta ELSE 0)
          /\ CurrentVotes(checkpoints[d]) \in Nat
    BY <1>5, <2>2, <2>3 DEF src
  <2> QED
    BY <1>1, <1>4, <1>6, <1>7, <2>4, StakeBacked
<1>8. ASSUME p # <<BRN, BRN>>
      PROVE  \A d \in Account : CurrentVotes(checkpoints'[d]) = SumFunction(Backing(d)')
  <2>1. checkpoints' = checkpoints
    BY <1>1, <1>8, NoDelegate, NobodyMoves DEF VotesLeave
  <2> QED
    BY <1>1, <1>6, <1>8, <2>1, BackingSame
<1> QED
  BY <1>3, <1>7, <1>8 DEF Backed

\* What is paid out was asked back, and does not vote any more.
LEMMA ExecuteBacked ==
  ASSUME Booked, Booked', Backed, NEW p \in Added, NEW a \in Account, ExecuteWithdrawal(a, p)
  PROVE  Backed'
<1>1. /\ p \in Pools /\ Added' = Added /\ delegates' = delegates /\ checkpoints' = checkpoints
  BY ExecuteIs DEF voteVars
<1>2. PICK user \in UserInfo, rs \in Seq(Request), amount \in Nat :
        /\ user.amount = userInfos[p][a].amount - amount
        /\ user.pendingWithdrawals = userInfos[p][a].pendingWithdrawals - amount
        /\ Falling(rs) /\ TotalOf(rs) = user.pendingWithdrawals
        /\ userInfos' = [userInfos EXCEPT ![p][a] = user]
        /\ withdrawalRequests' = [withdrawalRequests EXCEPT ![p][a] = rs]
        /\ vaultBalance' = [vaultBalance EXCEPT ![Staked(p)] = @ - amount]
        /\ amount <= vaultBalance[Staked(p)]
  BY ExecuteIs
<1>3. /\ \A q \in Pools \ Added', b \in Account :
           userInfos'[q][b].amount = 0 /\ userInfos'[q][b].pendingWithdrawals = 0
      /\ \A b \in Account \ Delegators : delegates'[b] = Nobody
  BY <1>1, <1>2, IdleStays
<1> DEFINE delta == 0
<1>4. /\ delta \in Int
      /\ user.amount - user.pendingWithdrawals
           = userInfos[p][a].amount - userInfos[p][a].pendingWithdrawals + delta
  <2>1. userInfos[p][a].amount \in Nat /\ userInfos[p][a].pendingWithdrawals \in Nat
    BY <1>1 DEF Booked, Types, UserInfo
  <2> QED
    BY <1>2, <2>1
<1> HIDE DEF delta
<1>6. /\ p = <<BRN, BRN>> =>
           \A b \in Account : StakeAmount(b)' = StakeAmount(b) + (IF b = a THEN delta ELSE 0)
      /\ p # <<BRN, BRN>> => \A b \in Account : StakeAmount(b)' = StakeAmount(b)
  BY <1>1, <1>2, <1>4, StakeWritten
<1>7. \A b \in Account : StakeAmount(b)' = StakeAmount(b)
  BY <1>6, StakeAmountType DEF delta
<1>8. \A d \in Account : CurrentVotes(checkpoints'[d]) = SumFunction(Backing(d)')
  BY <1>1, <1>7, BackingSame
<1> QED
  BY <1>3, <1>8 DEF Backed

\* The votes of the stake go from the delegate that was named to the new one.
LEMMA DelegateBacked ==
  ASSUME Booked, Booked', Backed, NEW a \in Delegators, NEW d \in Delegatees, Delegate(a, d)
  PROVE  Backed'
<1> DEFINE src == delegates[a]
           stake == StakeAmount(a)
<1>1. /\ CanMoveDelegates(checkpoints, src, d, stake)
      /\ checkpoints' = MovedDelegates(checkpoints, block, src, d, stake)
      /\ delegates' = [delegates EXCEPT ![a] = d]
      /\ userInfos' = userInfos /\ poolInfos' = poolInfos
  BY DEF Delegate, poolVars, userVars
<1>2. a \in Account /\ stake \in Nat /\ src \in Account \cup {Nobody} /\ d \in Account \cup {Nobody}
  BY Inputs, StakeAmountType DEF Booked, Types
<1>3. \A b \in Account : StakeAmount(b)' = StakeAmount(b)
  BY <1>1 DEF StakeAmount, Added
<1>4. /\ delegates'[a] = d /\ delegates[a] = src /\ StakeAmount(a) = stake
      /\ \A b \in Account \ {a} : delegates'[b] = delegates[b]
  BY <1>1, <1>2 DEF Booked, Types
<1> HIDE DEF src, stake
<1>5. \A e \in Account :
        /\ CurrentVotes(checkpoints'[e]) = VotesAfter(CurrentVotes(checkpoints[e]), e, src, d, stake)
        /\ CurrentVotes(checkpoints[e]) \in Nat
  BY <1>1, <1>2, MovedVotes
<1>6. ASSUME NEW e \in Account
      PROVE  /\ \A b \in Account \ {a} : Backing(e)'[b] = Backing(e)[b]
             /\ CurrentVotes(checkpoints'[e])
                  = CurrentVotes(checkpoints[e]) - Backing(e)[a] + Backing(e)'[a]
  <2>1. /\ \A b \in Account : Backing(e)[b] = IF delegates[b] = e THEN StakeAmount(b) ELSE 0
        /\ \A b \in Account : Backing(e)'[b] = IF delegates'[b] = e THEN StakeAmount(b) ELSE 0
    BY <1>3 DEF Backing
  <2>2. \A b \in Account \ {a} : Backing(e)'[b] = Backing(e)[b]
    BY <1>4, <2>1
  <2>3. /\ Backing(e)[a] = IF e = src THEN stake ELSE 0
        /\ Backing(e)'[a] = IF e = d THEN stake ELSE 0
    BY <1>2, <1>4, <2>1
  <2> DEFINE votes == CurrentVotes(checkpoints[e])
  <2>4. /\ votes \in Nat
        /\ CurrentVotes(checkpoints'[e])
             = votes - (IF e = src /\ src # d THEN stake ELSE 0)
                     + (IF e = d /\ src # d THEN stake ELSE 0)
    BY <1>5 DEF VotesAfter
  <2> HIDE DEF votes
  <2>5. CurrentVotes(checkpoints'[e]) = votes - Backing(e)[a] + Backing(e)'[a]
    BY <1>2, <2>3, <2>4
  <2> QED
    BY <2>2, <2>5 DEF votes
<1>7. \A e \in Account : CurrentVotes(checkpoints'[e]) = SumFunction(Backing(e)')
  BY <1>2, <1>6, BackingMoves
<1>8. \A b \in Account \ Delegators : delegates'[b] = Nobody
  BY <1>4 DEF Backed
<1>9. Added' = Added
  BY <1>1 DEF Added
<1> QED
  BY <1>1, <1>7, <1>8, <1>9 DEF Backed

\* A pool that is added is empty: it gives nobody a vote.
LEMMA AddBacked ==
  ASSUME Booked, Booked', Backed, NEW p \in Pools, Added' = Added \cup {p},
         UNCHANGED <<userInfos, delegates, checkpoints>>
  PROVE  Backed'
<1>1. \A a \in Account : StakeAmount(a)' = StakeAmount(a)
  <2> SUFFICES ASSUME NEW a \in Account PROVE StakeAmount(a)' = StakeAmount(a)
    OBVIOUS
  <2>1. CASE <<BRN, BRN>> \in Added \/ <<BRN, BRN>> \notin Added'
    BY <2>1 DEF StakeAmount
  <2>2. CASE <<BRN, BRN>> \notin Added /\ <<BRN, BRN>> \in Added'
    <3>1. /\ userInfos[<<BRN, BRN>>][a].amount = 0
          /\ userInfos[<<BRN, BRN>>][a].pendingWithdrawals = 0
      BY <2>2 DEF Backed
    <3>2. StakeAmount(a)' = 0 - 0 /\ StakeAmount(a) = 0
      BY <2>2, <3>1 DEF StakeAmount
    <3> QED
      BY <3>2
  <2> QED
    BY <2>1, <2>2
<1>2. \A d \in Account : CurrentVotes(checkpoints'[d]) = SumFunction(Backing(d)')
  BY <1>1, BackingSame
<1> QED
  BY <1>2 DEF Backed

\* Neither stakes, delegates nor records of votes are written.
LEMMA SameBacked ==
  ASSUME Booked, Backed, Added' = Added, UNCHANGED <<userInfos, delegates, checkpoints>>
  PROVE  Backed'
<1>1. \A a \in Account : StakeAmount(a)' = StakeAmount(a)
  BY DEF StakeAmount
<1>2. \A d \in Account : CurrentVotes(checkpoints'[d]) = SumFunction(Backing(d)')
  BY <1>1, BackingSame
<1> QED
  BY <1>2 DEF Backed

LEMMA StepBacked == ApartFromVotes /\ Booked /\ Backed /\ [Next]_vars => Backed'
<1> SUFFICES ASSUME ApartFromVotes, Booked, Backed, [Next]_vars PROVE Backed'
  OBVIOUS
<1>1. Booked' /\ Added \subseteq Pools
  BY StepBooked DEF Booked, Types
<1>2. CASE \E p \in Pools : \E terms \in Terms[p] : Add(p, terms[1], terms[2], terms[3])
  <2>1. PICK p \in Pools : \E terms \in Terms[p] : Add(p, terms[1], terms[2], terms[3])
    BY <1>2
  <2>2. PICK terms \in Terms[p] : Add(p, terms[1], terms[2], terms[3])
    BY <2>1
  <2>3. Added' = Added \cup {p} /\ UNCHANGED <<userInfos, delegates, checkpoints>>
    BY <2>2 DEF Add, Added, userVars, voteVars
  <2> QED
    BY <1>1, <2>3, AddBacked
<1>3. CASE /\ ~ \E p \in Pools : \E terms \in Terms[p] : Add(p, terms[1], terms[2], terms[3])
           /\ AdminCall
  <2>1. Added' = Added /\ UNCHANGED <<userInfos, delegates, checkpoints>>
    BY <1>3 DEF AdminCall, Set, SetRewardAmountPerBlock, SetWithdrawalLockingPeriod,
      MassUpdated, Added, userVars, voteVars
  <2> QED
    BY <2>1, SameBacked
<1>4. CASE (\E p \in Added : UpdatePool(p))
           \/ (\E a \in Account, t \in Token, amount \in Gifts : Donate(a, t, amount))
           \/ (\E seconds \in 1..MaxSeconds : Mine(seconds)) \/ UNCHANGED vars
  <2>1. Added' = Added /\ UNCHANGED <<userInfos, delegates, checkpoints>>
    BY <1>4 DEF UpdatePool, Donate, Mine, vars, poolVars, Added, userVars, voteVars
  <2> QED
    BY <2>1, SameBacked
<1>5. CASE \E p \in Added : \E a \in Users[p], amount \in Amounts : Deposit(a, p, amount)
  BY <1>1, <1>5, Inputs, DepositBacked
<1>6. CASE \E p \in Added : \E a \in Users[p], amount \in Amounts :
             RequestWithdrawal(a, p, amount)
  BY <1>1, <1>6, Inputs, RequestBacked
<1>7. CASE \E p \in Added : \E a \in Users[p] : ExecuteWithdrawal(a, p)
  BY <1>1, <1>7, Inputs, ExecuteBacked
<1>8. CASE \E a \in Delegators, d \in Delegatees : Delegate(a, d)
  BY <1>1, <1>8, DelegateBacked
<1> QED
  BY <1>2, <1>3, <1>4, <1>5, <1>6, <1>7, <1>8 DEF Next, UserCall

\* The votes of a delegate are the stakes of those who named it, less what they have
\* asked back: no order of deposits, requests, withdrawals and delegations makes a vote
\* of nothing, counts a stake twice or leaves a revert behind.  It needs that nobody who
\* names a delegate uses a pool in which BRN is only the stake or only the reward: a
\* deposit asks what the pool takes, a request what it pays.
THEOREM VotesAreStakes == (Spec /\ ApartFromVotes) => []VotesMatchStake
<1> SUFFICES ASSUME ApartFromVotes PROVE Spec => []VotesMatchStake
  OBVIOUS
<1>1. Init => Booked /\ Backed
  BY InitBooked, InitBacked
<1>2. Booked /\ Backed /\ [Next]_vars => Booked' /\ Backed'
  BY StepBooked, StepBacked
<1>3. Booked /\ Backed => VotesMatchStake
  BY VotesAre
<1> QED
  BY <1>1, <1>2, <1>3, PTL DEF Spec

\* The revert of the votes is never reached: whoever may ask a stake back, or name
\* another delegate, is not stopped by the votes.
VotesNeverBlock ==
  /\ \A p \in Added : \A a \in Users[p], amount \in Nat :
       CanRequest(userInfos[p][a], amount) /\ VotesLeave(p) =>
         CanMoveDelegates(checkpoints, delegates[a], Nobody, amount)
  /\ \A a \in Account, d \in Account :
       CanMoveDelegates(checkpoints, delegates[a], d, StakeAmount(a))

LEMMA StakeVotes ==
  ASSUME Booked, Backed, NEW a \in Account, delegates[a] # Nobody
  PROVE  /\ delegates[a] \in Account
         /\ CurrentVotes(checkpoints[delegates[a]]) \in Nat
         /\ StakeAmount(a) <= CurrentVotes(checkpoints[delegates[a]])
<1> DEFINE d == delegates[a]
<1>1. d \in Account
  BY DEF Booked, Types
<1>2. Backing(d)[a] = StakeAmount(a)
  BY DEF Backing
<1> HIDE DEF d
<1>3. IsFiniteSet(Account) /\ Backing(d) \in [Account -> Nat]
  BY BackingType, VaultAssumption
<1>4. SumFunction(Backing(d)) \in Nat /\ Backing(d)[a] <= SumFunction(Backing(d))
  BY <1>3, SumFunctionNat
<1>5. CurrentVotes(checkpoints[d]) = SumFunction(Backing(d))
  BY <1>1 DEF Backed
<1> QED
  BY <1>1, <1>2, <1>4, <1>5 DEF d

\* No withdrawal request and no change of a delegate reverts for want of votes: a
\* stake can always be asked back.
THEOREM VotesDoNotBlock == (Spec /\ ApartFromVotes) => []VotesNeverBlock
<1> SUFFICES ASSUME ApartFromVotes PROVE Spec => []VotesNeverBlock
  OBVIOUS
<1>1. Init => Booked /\ Backed
  BY InitBooked, InitBacked
<1>2. Booked /\ Backed /\ [Next]_vars => Booked' /\ Backed'
  BY StepBooked, StepBacked
<1>3. Booked /\ Backed => VotesNeverBlock
  <2> SUFFICES ASSUME Booked, Backed PROVE VotesNeverBlock
    OBVIOUS
  <2>1. ASSUME NEW p \in Added, NEW a \in Users[p], NEW amount \in Nat,
               CanRequest(userInfos[p][a], amount), VotesLeave(p)
        PROVE  CanMoveDelegates(checkpoints, delegates[a], Nobody, amount)
    <3>1. p \in Pools /\ a \in Account
      BY Inputs DEF Booked, Types
    <3>2. CASE delegates[a] = Nobody
      BY <3>2 DEF CanMoveDelegates
    <3>3. CASE delegates[a] # Nobody
      <4>1. p = <<BRN, BRN>>
        BY <2>1, <3>3, NoDelegate DEF VotesLeave
      <4>2. /\ userInfos[p][a].amount \in Nat /\ userInfos[p][a].pendingWithdrawals \in Nat
            /\ userInfos[p][a].amount >= userInfos[p][a].pendingWithdrawals + amount
        BY <2>1, <3>1 DEF Booked, Types, UserInfo, CanRequest
      <4>3. StakeAmount(a) = userInfos[p][a].amount - userInfos[p][a].pendingWithdrawals
        BY <4>1 DEF StakeAmount
      <4>4. amount <= StakeAmount(a) /\ StakeAmount(a) \in Nat
        BY <4>2, <4>3
      <4>5. /\ CurrentVotes(checkpoints[delegates[a]]) \in Nat
            /\ StakeAmount(a) <= CurrentVotes(checkpoints[delegates[a]])
        BY <3>1, <3>3, StakeVotes
      <4>6. amount <= CurrentVotes(checkpoints[delegates[a]])
        BY <4>4, <4>5
      <4> QED
        BY <4>6 DEF CanMoveDelegates
    <3> QED
      BY <3>2, <3>3
  <2>2. ASSUME NEW a \in Account, NEW d \in Account
        PROVE  CanMoveDelegates(checkpoints, delegates[a], d, StakeAmount(a))
    BY StakeVotes DEF CanMoveDelegates
  <2> QED
    BY <2>1, <2>2 DEF VotesNeverBlock
<1> QED
  BY <1>1, <1>2, <1>3, PTL DEF Spec

-----------------------------------------------------------------------------
(* The rewards stay within the schedule.                                   *)

\* What a user's stake has earned beyond its reward debt, in AccScale-ths; what
\* the users of a pool have; and the points a pool has been waiting with, per block.
Lead(user, acc) == user.amount * acc - AccScale * user.rewardDebt
Leads(users, acc) == [a \in Account |-> Lead(users[a], acc)]
Credit(users, pool) == SumFunction(Leads(users, pool.accRewardPerShare))
Waiting(pool, at) == (at - pool.lastRewardBlock) * pool.allocPoint

Credits(t, pools, users) ==
  [p \in Pools |-> IF p \in DOMAIN pools /\ Reward(p) = t THEN Credit(users[p], pools[p]) ELSE 0]
Waits(t, pools, at) ==
  [p \in Pools |-> IF p \in DOMAIN pools /\ Reward(p) = t THEN Waiting(pools[p], at) ELSE 0]

Spending(due, given, lost) == AccScale * due - AccScale * given - lost
Spent(t) == Spending(paid[t], emitted[t], truncated[t])

\* x is what was paid and is credited beyond the schedule so far, w the points that
\* wait for the blocks since the pools were updated.
Within(x, w, total, rate) == x <= 0 /\ total * x + (AccScale * rate) * w <= 0

Budgeted ==
  \A t \in Token :
    Within(Spent(t) + SumFunction(Credits(t, poolInfos, userInfos)),
           SumFunction(Waits(t, poolInfos, block)),
           totalAllocPoints[t], rewardTokenAmountsPerBlock[t])

\* No reward debt is ahead of its pool, and no pool of the blocks.
Covered ==
  /\ \A p \in Added :
       /\ poolInfos[p].lastRewardBlock <= block
       /\ \A a \in Account : Lead(userInfos[p][a], poolInfos[p].accRewardPerShare) >= 0
  /\ \A p \in Pools \ Added, a \in Account : userInfos[p][a].rewardDebt = 0

Metered ==
  /\ paid \in [Token -> Nat] /\ emitted \in [Token -> Nat] /\ truncated \in [Token -> Nat]

Scheduled == Metered /\ Covered /\ Budgeted

LEMMA LeadType ==
  ASSUME NEW user \in UserInfo, NEW acc \in Nat
  PROVE  Lead(user, acc) \in Int
<1>1. user.amount \in Nat /\ user.rewardDebt \in Nat
  BY DEF UserInfo
<1>2. user.amount * acc \in Nat /\ AccScale * user.rewardDebt \in Nat
  BY <1>1, Inputs, NatTimes
<1> QED
  BY <1>2 DEF Lead

LEMMA CreditType ==
  ASSUME NEW users \in [Account -> UserInfo], NEW pool \in PoolInfo
  PROVE  /\ Leads(users, pool.accRewardPerShare) \in [Account -> Int]
         /\ Credit(users, pool) \in Int
<1>1. pool.accRewardPerShare \in Nat
  BY DEF PoolInfo
<1>2. Leads(users, pool.accRewardPerShare) \in [Account -> Int]
  BY <1>1, LeadType DEF Leads
<1> QED
  BY <1>2, VaultAssumption, SumFunctionInt DEF Credit

\* A rise of the share credits every stake.
LEMMA CreditGrows ==
  ASSUME NEW users \in [Account -> UserInfo], NEW acc \in Nat, NEW d \in Nat
  PROVE  SumFunction(Leads(users, acc + d))
           = SumFunction(Leads(users, acc)) + d * SumFunction([a \in Account |-> users[a].amount])
<1> DEFINE h == Leads(users, acc + d)
           f == Leads(users, acc)
           g == [a \in Account |-> users[a].amount]
<1>1. ASSUME NEW a \in Account
      PROVE  f[a] \in Int /\ g[a] \in Int /\ h[a] = f[a] + d * g[a]
  <2> DEFINE n == users[a].amount
             z == AccScale * users[a].rewardDebt
  <2>1. users[a] \in UserInfo /\ n \in Nat /\ users[a].rewardDebt \in Nat
    BY DEF UserInfo
  <2>2. z \in Nat
    BY <2>1, Inputs, NatTimes
  <2>3. f[a] = n * acc - z /\ h[a] = n * (acc + d) - z /\ g[a] = n
    BY DEF Leads, Lead
  <2> HIDE DEF n, z, f, g, h
  <2>4. n * (acc + d) = n * acc + d * n /\ n * acc \in Nat /\ d * n \in Nat
    BY <2>1, NatTimes, SMT
  <2> QED
    BY <2>1, <2>2, <2>3, <2>4
<1>2. /\ DOMAIN h = Account /\ DOMAIN f = Account /\ DOMAIN g = Account
      /\ IsFiniteSet(Account) /\ d \in Int
  BY VaultAssumption DEF Leads
<1> HIDE DEF f, g, h
<1>3. SumFunctionOnSet(h, Account) = SumFunctionOnSet(f, Account) + d * SumFunctionOnSet(g, Account)
  BY <1>1, <1>2, SumTimes
<1>4. SumFunction(h) = SumFunction(f) + d * SumFunction(g)
  BY <1>2, <1>3 DEF SumFunction
<1> QED
  BY <1>4 DEF f, g, h

-----------------------------------------------------------------------------
(* Arithmetic.                                                             *)

LEMMA DivBelow ==
  ASSUME NEW x \in Nat, NEW y \in Nat, y > 0
  PROVE  y * (x \div y) <= x
BY SMT

LEMMA TimesUp ==
  ASSUME NEW x \in Int, NEW y \in Int, NEW k \in Nat, x <= y
  PROVE  k * x <= k * y
BY SMT

LEMMA SpendingType ==
  ASSUME NEW n \in Nat, NEW k \in Nat, NEW c \in Nat
  PROVE  Spending(n, k, c) \in Int
<1>1. AccScale * n \in Nat /\ AccScale * k \in Nat
  BY Inputs, NatTimes
<1> QED
  BY <1>1 DEF Spending

\* A payment and what it leaves truncated.
LEMMA SpendingPaid ==
  ASSUME NEW n \in Nat, NEW k \in Nat, NEW c \in Nat, NEW d \in Nat, NEW r \in Nat
  PROVE  Spending(n + d, k, c + r) = Spending(n, k, c) + AccScale * d - r
<1>1. AccScale * n \in Nat /\ AccScale * k \in Nat /\ AccScale * d \in Nat
  BY Inputs, NatTimes
<1>2. AccScale \in Int /\ n \in Int /\ d \in Int
  BY Inputs
<1>3. AccScale * (n + d) = AccScale * n + AccScale * d
  BY <1>2, Distribute
<1> QED
  BY <1>1, <1>3 DEF Spending

\* What another block is worth.
LEMMA SpendingGiven ==
  ASSUME NEW n \in Nat, NEW k \in Nat, NEW c \in Nat, NEW d \in Nat
  PROVE  Spending(n, k + d, c) = Spending(n, k, c) - AccScale * d
<1>1. AccScale * n \in Nat /\ AccScale * k \in Nat /\ AccScale * d \in Nat
  BY Inputs, NatTimes
<1>2. AccScale \in Int /\ k \in Int /\ d \in Int
  BY Inputs
<1>3. AccScale * (k + d) = AccScale * k + AccScale * d
  BY <1>2, Distribute
<1> QED
  BY <1>1, <1>3 DEF Spending

\* What a pool is given for its blocks, and what that is worth to its stakes.
LEMMA ShareWorth ==
  ASSUME NEW scale \in Nat, NEW total \in Nat, total > 0, NEW supply \in Nat, supply > 0,
         NEW stakes \in Nat, stakes <= supply, NEW given \in Nat
  PROVE  total * ((((given \div total) * scale) \div supply) * stakes) <= scale * given
<1> DEFINE reward == given \div total
           share == (reward * scale) \div supply
<1>1. reward \in Nat /\ total * reward <= given
  BY NatDiv, DivBelow
<1>2. reward * scale \in Nat
  BY <1>1, NatTimes
<1>3. share \in Nat /\ supply * share <= reward * scale
  <2> HIDE DEF reward
  <2>1. reward * scale \in Nat
    BY <1>2
  <2> QED
    BY <2>1, NatDiv, DivBelow
<1> HIDE DEF reward, share
<1>4. share * stakes \in Nat /\ share * stakes <= share * supply /\ share * supply = supply * share
  BY <1>3, TimesUp, NatTimes, SMT
<1>5. share * stakes <= reward * scale
  <2>1. supply * share \in Nat
    BY <1>3, NatTimes
  <2> QED
    BY <1>2, <1>3, <1>4, <2>1
<1>6. total * (share * stakes) <= total * (reward * scale)
  BY <1>2, <1>4, <1>5, TimesUp
<1>7. total * (reward * scale) = scale * (total * reward)
  BY <1>1, SMT
<1>8. scale * (total * reward) <= scale * given
  BY <1>1, NatTimes, TimesUp
<1>9. /\ total * (share * stakes) \in Nat /\ total * (reward * scale) \in Nat
      /\ scale * given \in Nat
  BY <1>2, <1>4, NatTimes
<1>10. total * (share * stakes) <= scale * given
  BY <1>6, <1>7, <1>8, <1>9
<1> QED
  BY <1>10 DEF reward, share

\* Credit grows by no more than the wait that ends is worth.
LEMMA WithinMoves ==
  ASSUME NEW s \in Int, NEW x \in Int, NEW y \in Int, NEW v \in Nat, NEW w \in Int,
         NEW total \in Nat, NEW rate \in Nat, Within(s + x, w, total, rate),
         total * y + (AccScale * rate) * v <= total * x + (AccScale * rate) * w,
         total = 0 => y <= x
  PROVE  Within(s + y, v, total, rate)
<1> DEFINE r == AccScale * rate
<1>1. r \in Nat
  BY Inputs, NatTimes
<1>2. /\ s + x <= 0 /\ total * (s + x) + r * w <= 0
      /\ total * y + r * v <= total * x + r * w
  BY DEF Within
<1> HIDE DEF r
<1>3. /\ total * (s + x) = total * s + total * x
      /\ total * (s + y) = total * s + total * y
      /\ total * s \in Int /\ total * x \in Int /\ total * y \in Int /\ r * w \in Int
      /\ r * v \in Nat
  BY <1>1, Distribute, TimesInt, NatTimes
<1>4. total * (s + y) + r * v <= 0
  BY <1>2, <1>3
<1>5. s + y <= 0
  <2>1. CASE total = 0
    BY <1>2, <2>1
  <2>2. CASE total > 0
    <3>1. total * (s + y) <= 0
      BY <1>3, <1>4
    <3>2. SUFFICES ASSUME s + y >= 1 PROVE FALSE
      OBVIOUS
    <3>3. total * 1 <= total * (s + y)
      BY <3>2, TimesUp
    <3> QED
      BY <2>2, <3>1, <3>3, <1>3
  <2> QED
    BY <2>1, <2>2
<1> QED
  BY <1>4, <1>5 DEF Within, r

\* Sums of pools that each keep to that.
LEMMA SumsMove ==
  ASSUME NEW C \in [Pools -> Int], NEW D \in [Pools -> Int], NEW W \in [Pools -> Int],
         NEW V \in [Pools -> Int], NEW total \in Nat, NEW r \in Nat,
         \A p \in Pools : /\ total * D[p] + r * V[p] <= total * C[p] + r * W[p]
                          /\ total = 0 => D[p] <= C[p]
  PROVE  /\ total * SumFunction(D) + r * SumFunction(V)
              <= total * SumFunction(C) + r * SumFunction(W)
         /\ total = 0 => SumFunction(D) <= SumFunction(C)
<1>1. IsFiniteSet(Pools) /\ total \in Int /\ r \in Int
  BY VaultAssumption
<1>2. ASSUME NEW F \in [Pools -> Int], NEW G \in [Pools -> Int]
      PROVE  LET both == [p \in Pools |-> total * F[p] + r * G[p]]
             IN  /\ both \in [Pools -> Int]
                 /\ SumFunction(both) = total * SumFunction(F) + r * SumFunction(G)
  <2> DEFINE zero == [p \in Pools |-> 0]
             some == [p \in Pools |-> total * F[p]]
             both == [p \in Pools |-> total * F[p] + r * G[p]]
  <2>1. \A p \in Pools : total * F[p] \in Int /\ r * G[p] \in Int
    BY <1>1, TimesInt
  <2>2. both \in [Pools -> Int] /\ some \in [Pools -> Int]
    BY <2>1
  <2>3. /\ \A p \in Pools : zero[p] \in Int /\ F[p] \in Int /\ some[p] = zero[p] + total * F[p]
        /\ DOMAIN zero = Pools /\ DOMAIN some = Pools /\ DOMAIN both = Pools
        /\ DOMAIN F = Pools /\ DOMAIN G = Pools
    BY <2>1
  <2>4. \A p \in Pools : some[p] \in Int /\ G[p] \in Int /\ both[p] = some[p] + r * G[p]
    BY <2>1
  <2>5. SumFunction(zero) = 0
    BY <1>1, SumFunctionZero
  <2> HIDE DEF zero, some, both
  <2>6. SumFunctionOnSet(some, Pools) = SumFunctionOnSet(zero, Pools) + total * SumFunctionOnSet(F, Pools)
    BY <1>1, <2>3, SumTimes
  <2>7. SumFunctionOnSet(both, Pools) = SumFunctionOnSet(some, Pools) + r * SumFunctionOnSet(G, Pools)
    BY <1>1, <2>4, SumTimes
  <2>8. /\ SumFunction(some) = SumFunction(zero) + total * SumFunction(F)
        /\ SumFunction(both) = SumFunction(some) + r * SumFunction(G)
    BY <2>3, <2>6, <2>7 DEF SumFunction
  <2>9. total * SumFunction(F) \in Int
    BY <1>1, SumFunctionInt, TimesInt
  <2>10. SumFunction(both) = total * SumFunction(F) + r * SumFunction(G)
    BY <2>5, <2>8, <2>9
  <2> QED
    BY <2>2, <2>10 DEF both
<1> DEFINE before == [p \in Pools |-> total * C[p] + r * W[p]]
           after == [p \in Pools |-> total * D[p] + r * V[p]]
<1>3. /\ before \in [Pools -> Int]
      /\ SumFunction(before) = total * SumFunction(C) + r * SumFunction(W)
  BY <1>2
<1>4. /\ after \in [Pools -> Int]
      /\ SumFunction(after) = total * SumFunction(D) + r * SumFunction(V)
  BY <1>2
<1>5. \A p \in Pools : after[p] <= before[p]
  OBVIOUS
<1> HIDE DEF before, after
<1>6. SumFunction(after) <= SumFunction(before)
  BY <1>1, <1>3, <1>4, <1>5, SumFunctionLeq
<1>7. total = 0 => SumFunction(D) <= SumFunction(C)
  BY <1>1, SumFunctionLeq
<1> QED
  BY <1>3, <1>4, <1>6, <1>7

-----------------------------------------------------------------------------
(* Updates.                                                                *)

\* An update ends a pool's wait, and credits its stakes with no more than their
\* share of the blocks it waited for; the stakes are no more than what it divides by.
LEMMA UpdateGains ==
  ASSUME Types, HoldsStakes, NEW p \in Added, CanUpdate(p), poolInfos[p].lastRewardBlock <= block
  PROVE  LET old == poolInfos[p]
             new == Updated(p)
             users == userInfos[p]
             total == totalAllocPoints[Reward(p)]
             r == AccScale * rewardTokenAmountsPerBlock[Reward(p)]
         IN  /\ new.lastRewardBlock = block
             /\ new.accRewardPerShare >= old.accRewardPerShare
             /\ Waiting(old, block) \in Nat /\ Waiting(new, block) = 0
             /\ total * Credit(users, new) <= total * Credit(users, old) + r * Waiting(old, block)
             /\ total = 0 => Credit(users, new) = Credit(users, old)
<1> DEFINE old == poolInfos[p]
           new == Updated(p)
           users == userInfos[p]
           amounts == [a \in Account |-> users[a].amount]
           stakes == SumFunction(amounts)
           supply == vaultBalance[Staked(p)]
           total == totalAllocPoints[Reward(p)]
           rate == rewardTokenAmountsPerBlock[Reward(p)]
           r == AccScale * rate
           blocks == block - old.lastRewardBlock
           given == blocks * rate * old.allocPoint
           reward == given \div total
           share == (reward * AccScale) \div supply
           acc == old.accRewardPerShare
           w == Waiting(old, block)
<1>1. /\ p \in Pools /\ Reward(p) \in Token /\ Staked(p) \in Token
      /\ old \in PoolInfo /\ users \in [Account -> UserInfo]
  BY Inputs DEF Types
<1>2. /\ supply \in Nat /\ total \in Nat /\ rate \in Nat /\ block \in Nat /\ blocks \in Nat
      /\ old.allocPoint \in Nat /\ old.lastRewardBlock \in Nat /\ acc \in Nat
      /\ AccScale \in Nat
  BY <1>1, Inputs DEF Types, PoolInfo
<1>3. stakes \in Nat /\ stakes <= supply
  <2>1. amounts = AmountsIn(p)
    BY DEF AmountsIn
  <2>2. /\ StakesOf(Staked(p)) \in [{q \in Pools : Staked(q) = Staked(p)} -> Nat]
        /\ IsFiniteSet({q \in Pools : Staked(q) = Staked(p)})
        /\ SumFunction(StakesOf(Staked(p))) \in Nat
        /\ SumFunction(StakesOf(Staked(p))) <= supply
    BY <1>1, StakesType, HoldsIs
  <2>3. StakesOf(Staked(p))[p] <= SumFunction(StakesOf(Staked(p)))
    BY <1>1, <2>2, SumFunctionNat
  <2>4. StakesOf(Staked(p))[p] = SumFunction(AmountsIn(p))
    BY <1>1 DEF StakesOf
  <2>5. SumFunction(AmountsIn(p)) \in Nat
    BY <1>1, StakesType
  <2> HIDE DEF amounts, supply
  <2> QED
    BY <1>2, <2>1, <2>2, <2>3, <2>4, <2>5
<1>4. new = IF block <= old.lastRewardBlock THEN old
            ELSE IF supply = 0 THEN [old EXCEPT !.lastRewardBlock = block]
            ELSE [old EXCEPT !.accRewardPerShare = acc + share, !.lastRewardBlock = block]
  BY DEF Updated
<1>5. block <= old.lastRewardBlock \/ supply = 0 \/ total > 0
  BY DEF CanUpdate
<1>6. /\ new \in PoolInfo /\ new.allocPoint = old.allocPoint
      /\ Credit(users, new) \in Int /\ Credit(users, old) \in Int
  BY <1>1, UpdatedIs, CreditType
<1>7. w = blocks * old.allocPoint /\ w \in Nat
  BY <1>2, NatTimes DEF Waiting
<1>8. r \in Nat /\ r * w \in Nat
  BY <1>2, <1>7, NatTimes
<1>9. new.lastRewardBlock = block
  BY <1>1, <1>2, <1>4 DEF PoolInfo
<1>10. Waiting(new, block) = 0
  <2>1. new.allocPoint \in Nat /\ (block - block) * new.allocPoint = 0
    BY <1>2, <1>6
  <2> QED
    BY <1>9, <2>1 DEF Waiting
<1>11. CASE new.accRewardPerShare = acc
  <2>1. Credit(users, new) = Credit(users, old)
    BY <1>11 DEF Credit
  <2> HIDE DEF new, old, users, total, r, w, acc
  <2>2. total * Credit(users, old) \in Int
    BY <1>2, <1>6, TimesInt
  <2>3. /\ total * Credit(users, new) <= total * Credit(users, old) + r * w
        /\ new.accRewardPerShare >= acc
    BY <1>2, <1>8, <1>11, <2>1, <2>2
  <2>4. r * w = r * Waiting(old, block)
    BY DEF w
  <2> QED
    BY <1>7, <1>9, <1>10, <2>1, <2>3, <2>4 DEF new, old, users, total, r, w, acc
<1>12. CASE new.accRewardPerShare # acc
  <2>1. /\ new = [old EXCEPT !.accRewardPerShare = acc + share, !.lastRewardBlock = block]
        /\ supply > 0 /\ total > 0
    BY <1>1, <1>2, <1>4, <1>5, <1>12 DEF PoolInfo
  <2>2. new.accRewardPerShare = acc + share
    BY <1>1, <2>1 DEF PoolInfo
  <2>3. given \in Nat /\ r * w = AccScale * given
    <3>1. blocks * rate \in Nat
      BY <1>2, NatTimes
    <3>2. given \in Nat
      BY <1>2, <3>1, NatTimes
    <3> HIDE DEF rate, blocks, old
    <3>3. (AccScale * rate) * (blocks * old.allocPoint) = AccScale * ((blocks * rate) * old.allocPoint)
      BY <1>2, SMT
    <3> QED
      BY <1>7, <3>2, <3>3
  <2>4. share \in Nat
    <3> HIDE DEF given, supply, total
    <3>1. reward \in Nat
      BY <1>2, <2>1, <2>3, NatDiv
    <3> HIDE DEF reward
    <3>2. reward * AccScale \in Nat
      BY <1>2, <3>1, NatTimes
    <3> QED
      BY <1>2, <2>1, <3>2, NatDiv
  <2>5. total * (share * stakes) <= AccScale * given
    <3> HIDE DEF given, supply, total, stakes
    <3> QED
      BY <1>2, <1>3, <2>1, <2>3, ShareWorth
  <2>6. Credit(users, new) = Credit(users, old) + share * stakes
    <3> HIDE DEF share, users, new, old
    <3>1. acc \in Nat
      BY <1>2
    <3>2. SumFunction(Leads(users, acc + share)) = SumFunction(Leads(users, acc)) + share * stakes
      BY <1>1, <2>4, <3>1, CreditGrows
    <3> QED
      BY <2>2, <3>2 DEF Credit
  <2> HIDE DEF new, old, users, total, r, w, acc, share, given, stakes
  <2>7. share * stakes \in Nat
    BY <1>3, <2>4, NatTimes
  <2>8. total * Credit(users, new) = total * Credit(users, old) + total * (share * stakes)
    BY <1>2, <1>6, <2>6, <2>7, Distribute
  <2>9. /\ total * Credit(users, old) \in Int /\ total * (share * stakes) \in Nat
        /\ AccScale * given \in Nat
    BY <1>2, <1>6, <2>3, <2>7, TimesInt, NatTimes
  <2>10. total * Credit(users, new) <= total * Credit(users, old) + r * w
    BY <2>3, <2>5, <2>8, <2>9
  <2>11. new.accRewardPerShare >= acc
    BY <1>2, <2>2, <2>4
  <2>12. total # 0 /\ r * w = r * Waiting(old, block)
    BY <1>2, <2>1 DEF w
  <2> QED
    BY <1>7, <1>9, <1>10, <2>10, <2>11, <2>12 DEF new, old, users, total, r, w, acc
<1> QED
  BY <1>11, <1>12

\* Pools some of which were updated.
Advanced(pools) ==
  /\ pools \in [Added -> PoolInfo]
  /\ \A p \in Added : \/ pools[p] = poolInfos[p]
                      \/ CanUpdate(p) /\ pools[p] = Updated(p)

LEMMA CreditsType ==
  ASSUME NEW users \in [Pools -> [Account -> UserInfo]], NEW A \in SUBSET Pools,
         NEW pools \in [A -> PoolInfo], NEW t, NEW at \in Int
  PROVE  /\ Credits(t, pools, users) \in [Pools -> Int]
         /\ Waits(t, pools, at) \in [Pools -> Int]
<1>1. ASSUME NEW p \in A
      PROVE  Credit(users[p], pools[p]) \in Int /\ Waiting(pools[p], at) \in Int
  <2>1. pools[p] \in PoolInfo /\ users[p] \in [Account -> UserInfo]
    OBVIOUS
  <2>2. pools[p].lastRewardBlock \in Nat /\ pools[p].allocPoint \in Nat
    BY <2>1 DEF PoolInfo
  <2>3. at - pools[p].lastRewardBlock \in Int
    BY <2>2
  <2> QED
    BY <2>1, <2>2, <2>3, CreditType, TimesInt DEF Waiting
<1> QED
  BY <1>1 DEF Credits, Waits

\* Nobody has to wait a negative time.
LEMMA WaitsNat ==
  ASSUME NEW A \in SUBSET Pools, NEW pools \in [A -> PoolInfo], NEW t, NEW at \in Nat,
         \A p \in A : pools[p].lastRewardBlock <= at
  PROVE  Waits(t, pools, at) \in [Pools -> Nat] /\ SumFunction(Waits(t, pools, at)) \in Nat
<1>1. ASSUME NEW p \in A
      PROVE  Waiting(pools[p], at) \in Nat
  <2>1. pools[p].lastRewardBlock \in Nat /\ pools[p].allocPoint \in Nat
    BY DEF PoolInfo
  <2>2. at - pools[p].lastRewardBlock \in Nat
    BY <2>1
  <2> QED
    BY <2>1, <2>2, NatTimes DEF Waiting
<1>2. Waits(t, pools, at) \in [Pools -> Nat]
  BY <1>1 DEF Waits
<1> QED
  BY <1>2, VaultAssumption, SumFunctionNat

\* However many pools were updated, the credits stay within the schedule.
LEMMA AdvancedWithin ==
  ASSUME Types, HoldsStakes, Scheduled, NEW pools, Advanced(pools), NEW t \in Token
  PROVE  /\ Within(Spent(t) + SumFunction(Credits(t, pools, userInfos)),
                   SumFunction(Waits(t, pools, block)),
                   totalAllocPoints[t], rewardTokenAmountsPerBlock[t])
         /\ \A p \in Added :
              /\ pools[p].lastRewardBlock <= block
              /\ \A a \in Account : Lead(userInfos[p][a], pools[p].accRewardPerShare) >= 0
<1> DEFINE total == totalAllocPoints[t]
           rate == rewardTokenAmountsPerBlock[t]
           r == AccScale * rate
           C == Credits(t, poolInfos, userInfos)
           D == Credits(t, pools, userInfos)
           W == Waits(t, poolInfos, block)
           V == Waits(t, pools, block)
<1>1. /\ Added \in SUBSET Pools /\ poolInfos \in [Added -> PoolInfo]
      /\ pools \in [Added -> PoolInfo] /\ userInfos \in [Pools -> [Account -> UserInfo]]
      /\ block \in Nat /\ block \in Int /\ total \in Nat /\ rate \in Nat /\ r \in Nat
      /\ \A p \in Added : poolInfos[p].lastRewardBlock <= block
  BY Inputs, NatTimes DEF Types, Advanced, Scheduled, Covered
<1>2. C \in [Pools -> Int] /\ D \in [Pools -> Int] /\ W \in [Pools -> Int] /\ V \in [Pools -> Int]
  BY <1>1, CreditsType
<1>3. ASSUME NEW p \in Added
      PROVE  /\ pools[p].lastRewardBlock <= block
             /\ pools[p].accRewardPerShare >= poolInfos[p].accRewardPerShare
  <2>1. poolInfos[p].accRewardPerShare \in Nat /\ block <= block
    BY <1>1 DEF PoolInfo
  <2>2. CASE pools[p] = poolInfos[p]
    BY <1>1, <2>1, <2>2
  <2>3. CASE CanUpdate(p) /\ pools[p] = Updated(p)
    BY <1>1, <2>1, <2>3, UpdateGains
  <2> QED
    BY <2>2, <2>3 DEF Advanced
<1>4. ASSUME NEW p \in Pools
      PROVE  /\ total * D[p] + r * V[p] <= total * C[p] + r * W[p]
             /\ total = 0 => D[p] <= C[p]
  <2>1. /\ C[p] \in Int /\ W[p] \in Int /\ total * C[p] \in Int /\ r * W[p] \in Int
    BY <1>1, <1>2, TimesInt
  <2>2. CASE D[p] = C[p] /\ V[p] = W[p]
    <3> HIDE DEF C, D, V, W, total, r
    <3> QED
      BY <2>1, <2>2
  <2>3. CASE ~ (D[p] = C[p] /\ V[p] = W[p])
    <3>1. /\ p \in Added /\ Reward(p) = t /\ pools[p] # poolInfos[p]
          /\ DOMAIN pools = Added
      BY <1>1, <2>3 DEF Credits, Waits, Added
    <3>2. CanUpdate(p) /\ pools[p] = Updated(p)
      BY <3>1 DEF Advanced
    <3>3. /\ C[p] = Credit(userInfos[p], poolInfos[p]) /\ D[p] = Credit(userInfos[p], Updated(p))
          /\ W[p] = Waiting(poolInfos[p], block) /\ V[p] = Waiting(Updated(p), block)
      BY <3>1, <3>2 DEF Credits, Waits, Added
    <3>4. /\ V[p] = 0
          /\ total * D[p] <= total * C[p] + r * W[p]
          /\ total = 0 => D[p] = C[p]
      BY <1>1, <3>1, <3>2, <3>3, UpdateGains
    <3>5. D[p] \in Int /\ total * D[p] \in Int /\ r * 0 = 0
      BY <1>1, <1>2, TimesInt
    <3> HIDE DEF C, D, V, W, total, r
    <3> QED
      BY <2>1, <3>4, <3>5
  <2> QED
    BY <2>2, <2>3
<1>5. ASSUME NEW p \in Added, NEW a \in Account
      PROVE  Lead(userInfos[p][a], pools[p].accRewardPerShare) >= 0
  <2> DEFINE user == userInfos[p][a]
             old == poolInfos[p].accRewardPerShare
             new == pools[p].accRewardPerShare
  <2>1. /\ user \in UserInfo /\ user.amount \in Nat /\ user.rewardDebt \in Nat
        /\ old \in Nat /\ new \in Nat /\ old <= new
    BY <1>1, <1>3 DEF UserInfo, PoolInfo
  <2>2. Lead(user, old) >= 0
    BY DEF Scheduled, Covered
  <2> HIDE DEF user, old, new
  <2>3. user.amount * old <= user.amount * new
    BY <2>1, TimesUp
  <2>4. user.amount * old \in Nat /\ user.amount * new \in Nat /\ AccScale * user.rewardDebt \in Nat
    BY <2>1, Inputs, NatTimes
  <2>5. Lead(user, new) >= 0
    BY <2>2, <2>3, <2>4 DEF Lead
  <2> QED
    BY <2>5 DEF user, new
<1>6. SumFunction(V) \in Nat
  BY <1>1, <1>3, WaitsNat
<1>7. /\ SumFunction(C) \in Int /\ SumFunction(D) \in Int /\ SumFunction(W) \in Int
  BY <1>2, VaultAssumption, SumFunctionInt
<1>8. Spent(t) \in Int
  BY SpendingType DEF Scheduled, Metered, Spent
<1>9. Within(Spent(t) + SumFunction(C), SumFunction(W), total, rate)
  BY DEF Scheduled, Budgeted
<1> HIDE DEF C, D, V, W, total, rate, r
<1>10. /\ total * SumFunction(D) + r * SumFunction(V) <= total * SumFunction(C) + r * SumFunction(W)
       /\ total = 0 => SumFunction(D) <= SumFunction(C)
  BY <1>1, <1>2, <1>4, SumsMove
<1>11. Within(Spent(t) + SumFunction(D), SumFunction(V), total, rate)
  BY <1>1, <1>6, <1>7, <1>8, <1>9, <1>10, WithinMoves DEF r
<1> QED
  BY <1>3, <1>5, <1>11 DEF D, V, total, rate

-----------------------------------------------------------------------------
(* Every call.                                                             *)

LEMMA Finite == IsFiniteSet(Account) /\ IsFiniteSet(Pools)
BY VaultAssumption

LEMMA SpentType == Metered => \A t \in Token : Spent(t) \in Int
BY SpendingType DEF Metered, Spent

\* Only an index matters for what is credited.
LEMMA CreditSame ==
  ASSUME NEW users, NEW users2, NEW pool, NEW pool2,
         pool2.accRewardPerShare = pool.accRewardPerShare,
         \A a \in Account : /\ users2[a].amount = users[a].amount
                            /\ users2[a].rewardDebt = users[a].rewardDebt
  PROVE  Credit(users2, pool2) = Credit(users, pool)
<1>1. Leads(users2, pool2.accRewardPerShare) = Leads(users, pool.accRewardPerShare)
  BY DEF Leads, Lead
<1> QED
  BY <1>1 DEF Credit

\* Nobody's stake, debt or pool is touched.
LEMMA IdleScheduled ==
  ASSUME Scheduled, Types, DOMAIN poolInfos' = DOMAIN poolInfos,
         \A p \in Added : /\ poolInfos'[p].accRewardPerShare = poolInfos[p].accRewardPerShare
                          /\ poolInfos'[p].lastRewardBlock = poolInfos[p].lastRewardBlock
                          /\ poolInfos'[p].allocPoint = poolInfos[p].allocPoint,
         \A p \in Pools, a \in Account :
           /\ userInfos'[p][a].amount = userInfos[p][a].amount
           /\ userInfos'[p][a].rewardDebt = userInfos[p][a].rewardDebt,
         UNCHANGED <<block, totalAllocPoints, rewardTokenAmountsPerBlock, paid, emitted, truncated>>
  PROVE  Scheduled'
<1>1. Added' = Added /\ Added \subseteq Pools
  BY DEF Added, Types
<1>2. ASSUME NEW t \in Token
      PROVE  /\ Credits(t, poolInfos', userInfos') = Credits(t, poolInfos, userInfos)
             /\ Waits(t, poolInfos', block') = Waits(t, poolInfos, block)
             /\ Spent(t)' = Spent(t)
  <2>1. \A p \in Added : Credit(userInfos'[p], poolInfos'[p]) = Credit(userInfos[p], poolInfos[p])
    BY <1>1, CreditSame
  <2>2. \A p \in Added : Waiting(poolInfos'[p], block') = Waiting(poolInfos[p], block)
    BY DEF Waiting
  <2> QED
    BY <1>1, <2>1, <2>2 DEF Credits, Waits, Added, Spent
<1>3. Budgeted'
  BY <1>2 DEF Scheduled, Budgeted
<1>4. Covered'
  BY <1>1 DEF Scheduled, Covered, Lead
<1> QED
  BY <1>3, <1>4 DEF Scheduled, Metered

\* Pools are updated, and nothing else.
LEMMA UpdateScheduled ==
  ASSUME Types, HoldsStakes, Scheduled, NEW p \in Added, UpdatePool(p)
  PROVE  Scheduled'
<1> DEFINE pools == [poolInfos EXCEPT ![p] = Updated(p)]
<1>1. Updated(p) \in PoolInfo
  BY UpdatedIs DEF UpdatePool
<1>2. Advanced(pools) /\ poolInfos' = pools /\ Added' = Added
  BY <1>1 DEF Advanced, UpdatePool, Types, Added
<1>3. UNCHANGED <<block, totalAllocPoints, rewardTokenAmountsPerBlock, userInfos, paid, emitted,
                  truncated>>
  BY DEF UpdatePool, userVars
<1> HIDE DEF pools
<1>4. Covered'
  <2>1. Reward(p) \in Token
    BY Inputs DEF Types
  <2>2. \A q \in Added : /\ pools[q].lastRewardBlock <= block
                         /\ \A a \in Account :
                              Lead(userInfos[q][a], pools[q].accRewardPerShare) >= 0
    BY <1>2, <2>1, AdvancedWithin
  <2>3. \A q \in Pools \ Added, a \in Account : userInfos[q][a].rewardDebt = 0
    BY DEF Scheduled, Covered
  <2> QED
    BY <1>2, <1>3, <2>2, <2>3 DEF Covered, Lead
<1>5. Budgeted'
  <2>1. \A t \in Token : Spent(t)' = Spent(t)
    BY <1>3 DEF Spent
  <2> QED
    BY <1>2, <1>3, <2>1, AdvancedWithin DEF Budgeted
<1> QED
  BY <1>3, <1>4, <1>5 DEF Scheduled, Metered

\* What a settlement leaves of a user's lead.
LEMMA SettledLead ==
  ASSUME NEW amount \in Nat, NEW acc \in Nat, NEW user,
         user.amount = amount, user.rewardDebt = Earned(amount, acc)
  PROVE  Lead(user, acc) = Remainder(amount, acc) /\ Remainder(amount, acc) \in Nat
<1> DEFINE n == amount * acc
<1>1. n \in Nat /\ AccScale \in Nat /\ AccScale > 0
  BY Inputs, NatTimes
<1>2. Lead(user, acc) = n - AccScale * (n \div AccScale) /\ Remainder(amount, acc) = n % AccScale
  BY DEF Lead, Earned, Remainder
<1> HIDE DEF n
<1>3. n - AccScale * (n \div AccScale) = n % AccScale /\ n % AccScale \in Nat
  BY <1>1, SMT
<1> QED
  BY <1>2, <1>3

\* What a user can be paid is no more than its lead.
LEMMA PendingLead ==
  ASSUME NEW user \in UserInfo, NEW acc \in Nat
  PROVE  AccScale * Pending(user, acc) <= Lead(user, acc)
<1> DEFINE n == user.amount * acc
           d == user.rewardDebt
           e == n \div AccScale
<1>1. n \in Nat /\ d \in Nat /\ AccScale \in Nat /\ AccScale > 0
  BY Inputs, NatTimes DEF UserInfo
<1>2. Pending(user, acc) = e - d /\ Lead(user, acc) = n - AccScale * d
  BY DEF Pending, Earned, Lead
<1>3. e \in Nat /\ AccScale * e <= n
  <2> HIDE DEF n
  <2> QED
    BY <1>1, NatDiv, DivBelow
<1> HIDE DEF n, d, e
<1>4. AccScale * (e - d) = AccScale * e - AccScale * d
  BY <1>1, <1>3, SMT
<1>5. AccScale * e \in Nat /\ AccScale * d \in Nat
  BY <1>1, <1>3, NatTimes
<1> QED
  BY <1>1, <1>2, <1>3, <1>4, <1>5

\* A user is paid and settled in a pool that has just been updated.
LEMMA SettleScheduled ==
  ASSUME Types, Types', HoldsStakes, Scheduled, NEW p \in Added, CanUpdate(p), NEW a \in Account,
         NEW amount \in Nat, NEW due \in Nat, NEW user \in UserInfo,
         user.amount = amount, user.rewardDebt = Earned(amount, Updated(p).accRewardPerShare),
         AccScale * due <= Lead(userInfos[p][a], Updated(p).accRewardPerShare),
         poolInfos' = [poolInfos EXCEPT ![p] = Updated(p)],
         userInfos' = [userInfos EXCEPT ![p][a] = user],
         paid' = [paid EXCEPT ![Reward(p)] = @ + due],
         truncated' = [truncated EXCEPT
           ![Reward(p)] = @ + Remainder(amount, Updated(p).accRewardPerShare)],
         UNCHANGED <<block, totalAllocPoints, rewardTokenAmountsPerBlock, emitted>>
  PROVE  Scheduled'
<1> DEFINE pools == [poolInfos EXCEPT ![p] = Updated(p)]
           r == Reward(p)
           acc == Updated(p).accRewardPerShare
           old == userInfos[p][a]
           rest == Remainder(amount, acc)
<1>1. /\ Updated(p) \in PoolInfo /\ p \in Pools /\ r \in Token /\ acc \in Nat
      /\ old \in UserInfo
  BY UpdatedIs, Inputs DEF Types, PoolInfo
<1>2. /\ Advanced(pools) /\ pools \in [Added -> PoolInfo] /\ poolInfos' = pools
      /\ Added' = Added /\ pools[p] = Updated(p) /\ Added \in SUBSET Pools
      /\ pools[p].accRewardPerShare = acc
  BY <1>1 DEF Advanced, Types, Added
<1>3. Lead(user, acc) = rest /\ rest \in Nat
  BY <1>1, SettledLead
<1>4. /\ userInfos' = [userInfos EXCEPT ![p][a] = user]
      /\ userInfos \in [Pools -> [Account -> UserInfo]]
      /\ userInfos' \in [Pools -> [Account -> UserInfo]]
  BY DEF Types
<1>5. Metered'
  BY <1>1, <1>3 DEF Scheduled, Metered
<1> HIDE DEF pools, acc, rest
<1>6. Covered'
  <2>1. ASSUME NEW q \in Added', NEW b \in Account
        PROVE  Lead(userInfos'[q][b], poolInfos'[q].accRewardPerShare) >= 0
    <3>1. CASE q = p /\ b = a
      <4>1. userInfos'[q][b] = user
        BY <1>1, <1>4, <3>1
      <4> QED
        BY <1>2, <1>3, <3>1, <4>1
    <3>2. CASE ~ (q = p /\ b = a)
      <4>1. userInfos'[q][b] = userInfos[q][b]
        BY <1>2, <1>4, <3>2
      <4> QED
        BY <1>1, <1>2, <4>1, AdvancedWithin
    <3> QED
      BY <3>1, <3>2
  <2>2. \A q \in Added' : poolInfos'[q].lastRewardBlock <= block'
    BY <1>1, <1>2, AdvancedWithin
  <2>3. \A q \in Pools \ Added', b \in Account : userInfos'[q][b].rewardDebt = 0
    <3>1. \A q \in Pools \ Added : userInfos'[q] = userInfos[q]
      BY <1>4
    <3> QED
      BY <1>2, <3>1 DEF Scheduled, Covered
  <2> QED
    BY <2>1, <2>2, <2>3 DEF Covered
<1>7. ASSUME NEW t \in Token
      PROVE  Within(Spent(t)' + SumFunction(Credits(t, poolInfos', userInfos')),
                    SumFunction(Waits(t, poolInfos', block')),
                    totalAllocPoints'[t], rewardTokenAmountsPerBlock'[t])
  <2> DEFINE C == Credits(t, pools, userInfos)
             D == Credits(t, pools, userInfos')
             V == SumFunction(Waits(t, pools, block))
             total == totalAllocPoints[t]
             rate == rewardTokenAmountsPerBlock[t]
  <2>1. Within(Spent(t) + SumFunction(C), V, total, rate)
    BY <1>2, AdvancedWithin
  <2>2. block \in Nat /\ block \in Int /\ total \in Nat /\ rate \in Nat
    BY DEF Types
  <2>3. C \in [Pools -> Int] /\ D \in [Pools -> Int]
    BY <1>2, <1>4, <2>2, CreditsType
  <2>4. V \in Nat
    BY <1>2, <2>2, AdvancedWithin, WaitsNat
  <2>5. \A q \in Pools \ {p} : D[q] = C[q]
    BY <1>4 DEF Credits
  <2>6. CASE t # r
    <3>1. D[p] = C[p]
      BY <1>1, <2>6 DEF Credits
    <3>2. D = C
      <4> HIDE DEF C, D
      <4>1. \A q \in Pools : D[q] = C[q]
        BY <2>5, <3>1
      <4> QED
        BY <2>3, <4>1
    <3>3. Spent(t)' = Spent(t)
      BY <1>1, <2>6 DEF Spent, Scheduled, Metered
    <3> QED
      BY <1>2, <2>1, <3>2, <3>3
  <2>7. CASE t = r
    <3> DEFINE f == Leads(userInfos[p], acc)
               g == Leads(userInfos'[p], acc)
    <3>1. /\ C[p] = SumFunction(f) /\ D[p] = SumFunction(g)
      BY <1>1, <1>2, <2>7 DEF Credits, Credit
    <3>2. f \in [Account -> Int] /\ g \in [Account -> Int]
      BY <1>1, <1>2, <1>4, CreditType
    <3>3. /\ \A b \in Account \ {a} : g[b] = f[b]
          /\ f[a] = Lead(old, acc) /\ g[a] = rest
      BY <1>1, <1>3, <1>4 DEF Leads
    <3> HIDE DEF f, g
    <3>4. SumFunction(g) = SumFunction(f) - f[a] + g[a]
      BY <3>2, <3>3, Finite, SumFunctionUpdate
    <3>5. SumFunction(D) = SumFunction(C) - C[p] + D[p]
      <4> HIDE DEF C, D
      <4> QED
        BY <1>1, <2>3, <2>5, Finite, SumFunctionUpdate
    <3>6. Spent(t)' = Spent(t) + AccScale * due - rest
      <4>1. paid'[t] = paid[t] + due /\ truncated'[t] = truncated[t] + rest /\ emitted'[t] = emitted[t]
        BY <1>1, <2>7 DEF Scheduled, Metered, rest, acc
      <4>2. paid[t] \in Nat /\ emitted[t] \in Nat /\ truncated[t] \in Nat
        BY DEF Scheduled, Metered
      <4>3. Spent(t)' = Spending(paid[t] + due, emitted[t], truncated[t] + rest)
        BY <4>1 DEF Spent
      <4>4. Spending(paid[t] + due, emitted[t], truncated[t] + rest)
              = Spending(paid[t], emitted[t], truncated[t]) + AccScale * due - rest
        BY <1>3, <4>2, SpendingPaid, SMTT(30)
      <4>5. Spent(t) = Spending(paid[t], emitted[t], truncated[t])
        BY DEF Spent
      <4> QED
        BY <4>3, <4>4, <4>5
    <3>7. Spent(t) \in Int /\ Spent(t)' \in Int
      <4>1. Spent(t) \in Int
        BY SpentType DEF Scheduled
      <4>2. AccScale * due \in Nat
        BY Inputs, NatTimes
      <4> QED
        BY <1>3, <3>6, <4>1, <4>2
    <3>8. /\ SumFunction(C) \in Int /\ SumFunction(D) \in Int
      BY <2>3, Finite, SumFunctionInt
    <3>9. SumFunction(f) \in Int /\ SumFunction(g) \in Int /\ f[a] \in Int
      BY <3>2, Finite, SumFunctionInt
    <3>10. AccScale * due <= f[a] /\ AccScale * due \in Nat
      BY <3>3, Inputs, NatTimes DEF acc
    <3>11. Spent(t)' + SumFunction(D) <= Spent(t) + SumFunction(C)
      <4> HIDE DEF C, D
      <4> QED
        BY <1>3, <3>1, <3>3, <3>4, <3>5, <3>6, <3>7, <3>8, <3>9, <3>10
    <3> DEFINE x == Spent(t) + SumFunction(C)
               y == Spent(t)' + SumFunction(D)
               k == (AccScale * rate) * V
    <3>12. x \in Int /\ y \in Int /\ y <= x /\ k \in Nat
      BY <2>2, <2>4, <3>7, <3>8, <3>11, Inputs, NatTimes
    <3>13. x <= 0 /\ total * x + k <= 0
      BY <2>1 DEF Within
    <3> HIDE DEF C, D, V, x, y, k, total, rate
    <3>14. total * y <= total * x /\ total * y \in Int /\ total * x \in Int
      BY <2>2, <3>12, TimesUp, TimesInt
    <3>15. y <= 0 /\ total * y + k <= 0
      BY <3>12, <3>13, <3>14
    <3> QED
      BY <1>2, <3>15 DEF Within, D, V, y, k, total, rate
  <2> QED
    BY <2>6, <2>7
<1>8. Budgeted'
  BY <1>7 DEF Budgeted
<1> QED
  BY <1>5, <1>6, <1>8 DEF Scheduled

\* A deposit pays what is due, nothing while there was no stake.
LEMMA SettledDebt ==
  ASSUME NEW user \in UserInfo, NEW amount \in Nat, NEW acc \in Nat
  PROVE  Settled(user, amount, acc).rewardDebt = Earned(amount, acc)
<1> DEFINE debt == Earned(amount, acc)
<1>1. Settled(user, amount, acc) = [user EXCEPT !.amount = amount, !.rewardDebt = debt]
  BY DEF Settled
<1> HIDE DEF debt
<1>2. Settled(user, amount, acc).rewardDebt = debt
  BY <1>1 DEF UserInfo
<1> QED
  BY <1>2 DEF debt

LEMMA DepositScheduled ==
  ASSUME Types, Types', HoldsStakes, Scheduled, NEW p \in Added, NEW a \in Account,
         NEW amount \in Nat, Deposit(a, p, amount)
  PROVE  Scheduled'
<1> DEFINE pool == Updated(p)
           acc == pool.accRewardPerShare
           user == userInfos[p][a]
           due == IF user.amount > 0 THEN Pending(user, acc) ELSE 0
           n == user.amount + amount
           new == Settled(user, n, acc)
<1>1. /\ CanUpdate(p) /\ due >= 0
      /\ poolInfos' = [poolInfos EXCEPT ![p] = pool]
      /\ userInfos' = [userInfos EXCEPT ![p][a] = new]
      /\ paid' = [paid EXCEPT ![Reward(p)] = @ + due]
      /\ truncated' = [truncated EXCEPT ![Reward(p)] = @ + Remainder(n, acc)]
      /\ UNCHANGED <<block, totalAllocPoints, rewardTokenAmountsPerBlock, emitted>>
  BY DEF Deposit
<1>2. /\ p \in Pools /\ Reward(p) \in Token /\ pool \in PoolInfo
      /\ user \in UserInfo
  BY <1>1, Inputs, UpdatedIs DEF Types
<1>3. acc \in Nat /\ user.amount \in Nat /\ n \in Nat
  BY <1>2 DEF PoolInfo, UserInfo
<1>4. new \in UserInfo /\ new.amount = n /\ new.rewardDebt = Earned(n, acc)
  BY <1>2, <1>3, SettledIs, SettledDebt, ZenonT(40)
<1>5. due \in Nat /\ AccScale * due <= Lead(user, acc)
  <2>1. Pending(user, acc) \in Int /\ AccScale * Pending(user, acc) <= Lead(user, acc)
    BY <1>2, <1>3, PendingType, PendingLead
  <2>2. Lead(user, acc) >= 0
    <3> DEFINE pools == [poolInfos EXCEPT ![p] = Updated(p)]
    <3>1. Advanced(pools) /\ pools[p] = Updated(p)
      BY <1>1, <1>2 DEF Advanced, Types, Added
    <3> HIDE DEF pools
    <3>2. Lead(userInfos[p][a], pools[p].accRewardPerShare) >= 0
      BY <1>2, <3>1, AdvancedWithin
    <3> QED
      BY <3>1, <3>2
  <2>3. AccScale * 0 = 0
    BY Inputs
  <2> HIDE DEF user, acc
  <2> QED
    BY <1>1, <2>1, <2>2, <2>3
<1> HIDE DEF due, n, new, user
<1>6. AccScale * due <= Lead(userInfos[p][a], Updated(p).accRewardPerShare)
  BY <1>5 DEF user
<1> QED
  BY <1>1, <1>3, <1>4, <1>5, <1>6, SettleScheduled

\* A withdrawal pays what is due on the stake as it was.
LEMMA ExecuteScheduled ==
  ASSUME Booked, Types', HoldsStakes, Scheduled, NEW p \in Added, NEW a \in Account,
         ExecuteWithdrawal(a, p)
  PROVE  Scheduled'
<1> DEFINE pool == Updated(p)
           acc == pool.accRewardPerShare
           user == userInfos[p][a]
           before == withdrawalRequests[p][a]
           kept == KeptRequests(before)
           amount == TotalOf(before) - TotalOf(kept)
           due == Pending(user, acc)
           popped == [user EXCEPT !.pendingWithdrawals = @ - amount]
           n == user.amount - amount
           new == Settled(popped, n, acc)
<1>1. /\ CanUpdate(p) /\ due >= 0 /\ amount > 0 /\ amount <= user.amount
      /\ poolInfos' = [poolInfos EXCEPT ![p] = pool]
      /\ userInfos' = [userInfos EXCEPT ![p][a] = new]
      /\ paid' = [paid EXCEPT ![Reward(p)] = @ + due]
      /\ truncated' = [truncated EXCEPT ![Reward(p)] = @ + Remainder(n, acc)]
      /\ UNCHANGED <<block, totalAllocPoints, rewardTokenAmountsPerBlock, emitted>>
  BY DEF ExecuteWithdrawal
<1>2. /\ p \in Pools /\ Reward(p) \in Token /\ pool \in PoolInfo
      /\ user \in UserInfo /\ user.amount \in Nat /\ user.pendingWithdrawals \in Nat
      /\ before \in Seq(Request) /\ Falling(before) /\ now \in Nat
      /\ TotalOf(before) = user.pendingWithdrawals
  BY <1>1, Inputs, UpdatedIs, SMTT(30) DEF Booked, Types, Queued, UserInfo
<1>3. acc \in Nat
  BY <1>2 DEF PoolInfo
<1> HIDE DEF pool, acc, user, before
<1>4. TotalOf(kept) \in Nat
  BY <1>2, Popped
<1> HIDE DEF kept
<1>5. n \in Nat /\ user.pendingWithdrawals - amount \in Nat
  BY <1>1, <1>2, <1>4
<1> HIDE DEF amount, n
<1>6. popped \in UserInfo
  BY <1>2, <1>5 DEF UserInfo
<1> HIDE DEF popped
<1>7. new \in UserInfo /\ new.amount = n /\ new.rewardDebt = Earned(n, acc)
  BY <1>3, <1>5, <1>6, SettledIs, SettledDebt
<1>8. due \in Nat /\ AccScale * due <= Lead(user, acc)
  <2>1. Pending(user, acc) \in Int /\ AccScale * Pending(user, acc) <= Lead(user, acc)
    BY <1>2, <1>3, PendingType, PendingLead
  <2> QED
    BY <1>1, <2>1
<1> HIDE DEF due, new
<1>9. Types
  BY DEF Booked
<1>10. AccScale * due <= Lead(userInfos[p][a], Updated(p).accRewardPerShare)
  BY <1>8 DEF user, acc, pool
<1> QED
  BY <1>1, <1>5, <1>7, <1>8, <1>9, <1>10, SettleScheduled DEF acc, pool

\* Nothing is promised, credited or paid at the start.
LEMMA InitScheduled == Init => Scheduled
<1> SUFFICES ASSUME Init PROVE Scheduled
  OBVIOUS
<1>1. /\ poolInfos = <<>> /\ Added = {}
      /\ paid = [t \in Token |-> 0] /\ emitted = [t \in Token |-> 0]
      /\ truncated = [t \in Token |-> 0]
      /\ totalAllocPoints = [t \in Token |-> 0]
      /\ rewardTokenAmountsPerBlock = [t \in Token |-> 0]
      /\ \A p \in Pools, a \in Account : userInfos[p][a].rewardDebt = 0
  BY DEF Init, Added, NewUser
<1>2. ASSUME NEW t \in Token
      PROVE  Within(Spent(t) + SumFunction(Credits(t, poolInfos, userInfos)),
                    SumFunction(Waits(t, poolInfos, block)),
                    totalAllocPoints[t], rewardTokenAmountsPerBlock[t])
  <2>1. /\ Credits(t, poolInfos, userInfos) = [p \in Pools |-> 0]
        /\ Waits(t, poolInfos, block) = [p \in Pools |-> 0]
    BY <1>1 DEF Credits, Waits, Added
  <2>2. /\ SumFunction(Credits(t, poolInfos, userInfos)) = 0
        /\ SumFunction(Waits(t, poolInfos, block)) = 0
    BY <2>1, Finite, SumFunctionZero
  <2>3. Spent(t) = 0
    <3>1. AccScale * 0 = 0
      BY Inputs
    <3> QED
      BY <1>1, <3>1 DEF Spent, Spending
  <2>4. totalAllocPoints[t] = 0 /\ rewardTokenAmountsPerBlock[t] = 0
    BY <1>1
  <2>5. Within(0 + 0, 0, 0, 0)
    <3>1. (AccScale * 0) * 0 = 0
      BY Inputs
    <3> QED
      BY <3>1 DEF Within
  <2> QED
    BY <2>2, <2>3, <2>4, <2>5
<1> QED
  BY <1>1, <1>2 DEF Scheduled, Metered, Covered, Budgeted

\* Pools, points or the rate of a token change after all its pools were updated: what
\* the new terms weigh has not waited for any block.
LEMMA TermsScheduled ==
  ASSUME Types, HoldsStakes, Scheduled, NEW t \in Token, CanMassUpdate(t),
         Added \subseteq Added',
         \A p \in Added :
           /\ poolInfos'[p].accRewardPerShare = MassUpdated(t)[p].accRewardPerShare
           /\ poolInfos'[p].lastRewardBlock = MassUpdated(t)[p].lastRewardBlock
           /\ Reward(p) # t => poolInfos'[p].allocPoint = MassUpdated(t)[p].allocPoint,
         \A p \in Added' \ Added :
           /\ Reward(p) = t /\ poolInfos'[p].lastRewardBlock = block
           /\ poolInfos'[p].accRewardPerShare = 0,
         Types',
         \A u \in Token \ {t} :
           /\ totalAllocPoints'[u] = totalAllocPoints[u]
           /\ rewardTokenAmountsPerBlock'[u] = rewardTokenAmountsPerBlock[u],
         UNCHANGED <<block, userInfos, paid, emitted, truncated>>
  PROVE  Scheduled'
<1> DEFINE pools == MassUpdated(t)
<1>1. /\ Added \in SUBSET Pools /\ Added' \in SUBSET Pools /\ block \in Nat /\ block \in Int
      /\ poolInfos' \in [Added' -> PoolInfo] /\ DOMAIN poolInfos' = Added'
      /\ userInfos \in [Pools -> [Account -> UserInfo]]
  BY DEF Types, Added
<1>2. \A p \in Added : pools[p] = IF Reward(p) = t THEN Updated(p) ELSE poolInfos[p]
  BY DEF MassUpdated
<1>3. Advanced(pools) /\ DOMAIN pools = Added
  BY <1>2, MassUpdatedIs DEF Advanced, CanMassUpdate
<1>4. \A p \in Added : Reward(p) = t => pools[p].lastRewardBlock = block
  BY <1>2, UpdateGains DEF CanMassUpdate, Scheduled, Covered
<1> HIDE DEF pools
<1>5. ASSUME NEW p \in Added' \ Added, NEW a \in Account
      PROVE  Lead(userInfos[p][a], poolInfos'[p].accRewardPerShare) = 0
  <2>1. /\ userInfos[p][a].amount \in Nat /\ userInfos[p][a].rewardDebt = 0
    BY <1>1 DEF UserInfo, Scheduled, Covered
  <2>2. userInfos[p][a].amount * 0 = 0 /\ AccScale * 0 = 0
    BY <2>1, Inputs
  <2> QED
    BY <2>1, <2>2 DEF Lead
<1>6. ASSUME NEW u \in Token
      PROVE  Credits(u, poolInfos', userInfos) = Credits(u, pools, userInfos)
  <2> SUFFICES ASSUME NEW p \in Pools
               PROVE  Credits(u, poolInfos', userInfos)[p] = Credits(u, pools, userInfos)[p]
    BY DEF Credits
  <2>1. CASE p \in Added
    <3>1. Credit(userInfos[p], poolInfos'[p]) = Credit(userInfos[p], pools[p])
      BY <2>1 DEF Credit, pools
    <3> QED
      BY <1>1, <1>3, <2>1, <3>1 DEF Credits
  <2>2. CASE p \in Added' \ Added
    <3>1. Leads(userInfos[p], poolInfos'[p].accRewardPerShare) = [a \in Account |-> 0]
      BY <1>5, <2>2 DEF Leads
    <3>2. Credit(userInfos[p], poolInfos'[p]) = 0
      BY <3>1, Finite, SumFunctionZero DEF Credit
    <3> QED
      BY <1>1, <1>3, <2>2, <3>2 DEF Credits
  <2>3. CASE p \notin Added'
    BY <1>1, <1>3, <2>3 DEF Credits
  <2> QED
    BY <2>1, <2>2, <2>3
<1>7. ASSUME NEW u \in Token
      PROVE  Within(Spent(u) + SumFunction(Credits(u, pools, userInfos)),
                    SumFunction(Waits(u, poolInfos', block)),
                    totalAllocPoints'[u], rewardTokenAmountsPerBlock'[u])
  <2>1. Within(Spent(u) + SumFunction(Credits(u, pools, userInfos)),
               SumFunction(Waits(u, pools, block)),
               totalAllocPoints[u], rewardTokenAmountsPerBlock[u])
    BY <1>3, AdvancedWithin
  <2>2. CASE u # t
    <3>1. \A p \in Added : Reward(p) = u => Waiting(poolInfos'[p], block) = Waiting(pools[p], block)
      BY <2>2 DEF Waiting, pools
    <3>2. Waits(u, poolInfos', block) = Waits(u, pools, block)
      BY <1>1, <1>3, <2>2, <3>1 DEF Waits
    <3> QED
      BY <2>1, <2>2, <3>2
  <2>3. CASE u = t
    <3>1. ASSUME NEW p \in Added', Reward(p) = t
          PROVE  Waiting(poolInfos'[p], block) = 0
      <4>1. poolInfos'[p].lastRewardBlock = block
        BY <1>4, <3>1 DEF pools
      <4>2. poolInfos'[p].allocPoint \in Nat
        BY <1>1 DEF PoolInfo
      <4>3. (block - block) * poolInfos'[p].allocPoint = 0
        BY <1>1, <4>2
      <4> QED
        BY <4>1, <4>3 DEF Waiting
    <3>2. Waits(u, poolInfos', block) = [p \in Pools |-> 0]
      BY <1>1, <2>3, <3>1 DEF Waits
    <3>3. SumFunction(Waits(u, poolInfos', block)) = 0
      BY <3>2, Finite, SumFunctionZero
    <3> DEFINE x == Spent(u) + SumFunction(Credits(u, pools, userInfos))
               total == totalAllocPoints'[u]
               rate == rewardTokenAmountsPerBlock'[u]
    <3>4. x \in Int
      <4>1. Credits(u, pools, userInfos) \in [Pools -> Int]
        BY <1>1, <1>3, CreditsType DEF Advanced
      <4>2. SumFunction(Credits(u, pools, userInfos)) \in Int /\ Spent(u) \in Int
        BY <4>1, Finite, SumFunctionInt, SpentType DEF Scheduled
      <4> QED
        BY <4>2
    <3>5. total \in Nat /\ rate \in Nat
      BY DEF Types
    <3>6. x <= 0
      BY <2>1 DEF Within
    <3> HIDE DEF x, total, rate
    <3>7. total * x <= total * 0 /\ total * 0 = 0 /\ total * x \in Int
      BY <3>4, <3>5, <3>6, TimesUp, TimesInt
    <3>8. AccScale * rate \in Nat
      BY <3>5, Inputs, NatTimes
    <3>9. (AccScale * rate) * 0 = 0
      BY <3>8
    <3>10. Within(x, 0, total, rate)
      BY <3>6, <3>7, <3>9 DEF Within
    <3> QED
      BY <3>3, <3>10 DEF x, total, rate
  <2> QED
    BY <2>2, <2>3
<1>8. Budgeted'
  <2>1. \A u \in Token : Spent(u)' = Spent(u)
    BY DEF Spent
  <2> QED
    BY <1>6, <1>7, <2>1 DEF Budgeted
<1>9. Covered'
  <2>1. ASSUME NEW p \in Added'
        PROVE  /\ poolInfos'[p].lastRewardBlock <= block
               /\ \A a \in Account : Lead(userInfos[p][a], poolInfos'[p].accRewardPerShare) >= 0
    <3>1. CASE p \in Added
      <4>1. /\ pools[p].lastRewardBlock <= block
            /\ \A a \in Account : Lead(userInfos[p][a], pools[p].accRewardPerShare) >= 0
        BY <1>3, <3>1, AdvancedWithin
      <4> QED
        BY <3>1, <4>1 DEF pools
    <3>2. CASE p \notin Added
      BY <1>1, <1>5, <3>2
    <3> QED
      BY <3>1, <3>2
  <2>2. \A p \in Pools \ Added', a \in Account : userInfos[p][a].rewardDebt = 0
    BY DEF Scheduled, Covered
  <2> QED
    BY <2>1, <2>2 DEF Covered
<1> QED
  BY <1>8, <1>9 DEF Scheduled, Metered

\* The admin's calls update every pool of the token before its terms change.
LEMMA AdminScheduled ==
  ASSUME Types, Types', HoldsStakes, Scheduled, AdminCall
  PROVE  Scheduled'
<1>1. ASSUME NEW p \in Pools, NEW alloc, NEW rate, NEW period, Add(p, alloc, rate, period)
      PROVE  Scheduled'
  <2> DEFINE t == Reward(p)
  <2>1. /\ t \in Token /\ p \notin Added /\ CanMassUpdate(t)
        /\ totalAllocPoints' = [totalAllocPoints EXCEPT ![t] = @ + alloc]
        /\ rewardTokenAmountsPerBlock' = [rewardTokenAmountsPerBlock EXCEPT ![t] = rate]
        /\ poolInfos' = [q \in Added \cup {p} |->
             IF q = p THEN [allocPoint |-> alloc, lastRewardBlock |-> block,
                            accRewardPerShare |-> 0, lockPeriod |-> period]
             ELSE MassUpdated(t)[q]]
        /\ UNCHANGED <<block, userInfos, paid, emitted, truncated>>
    BY <1>1, Inputs DEF Add, userVars
  <2>2. Added' = Added \cup {p}
    BY <2>1 DEF Added
  <2>3. \A q \in Added : poolInfos'[q] = MassUpdated(t)[q]
    BY <2>1
  <2>4. \A q \in Added' \ Added : /\ Reward(q) = t /\ poolInfos'[q].lastRewardBlock = block
                                  /\ poolInfos'[q].accRewardPerShare = 0
    BY <2>1, <2>2
  <2>5. \A u \in Token \ {t} :
          /\ totalAllocPoints'[u] = totalAllocPoints[u]
          /\ rewardTokenAmountsPerBlock'[u] = rewardTokenAmountsPerBlock[u]
    BY <2>1 DEF Types
  <2> HIDE DEF t
  <2> QED
    BY <2>1, <2>2, <2>3, <2>4, <2>5, TermsScheduled
<1>2. ASSUME NEW p \in Added, NEW alloc, Set(p, alloc)
      PROVE  Scheduled'
  <2> DEFINE t == Reward(p)
  <2>1. /\ t \in Token /\ CanMassUpdate(t)
        /\ totalAllocPoints' = [totalAllocPoints EXCEPT ![t] = @ - poolInfos[p].allocPoint + alloc]
        /\ poolInfos' = [MassUpdated(t) EXCEPT ![p].allocPoint = alloc]
        /\ UNCHANGED <<block, rewardTokenAmountsPerBlock, userInfos, paid, emitted, truncated>>
    BY <1>2, Inputs DEF Set, userVars, Types
  <2>2. Added' = Added /\ MassUpdated(t) \in [Added -> PoolInfo]
    <3>1. MassUpdated(t) \in [Added -> PoolInfo]
      BY <2>1, MassUpdatedIs
    <3> QED
      BY <2>1, <3>1 DEF Added
  <2>3. \A q \in Added :
          /\ poolInfos'[q].accRewardPerShare = MassUpdated(t)[q].accRewardPerShare
          /\ poolInfos'[q].lastRewardBlock = MassUpdated(t)[q].lastRewardBlock
          /\ Reward(q) # t => poolInfos'[q].allocPoint = MassUpdated(t)[q].allocPoint
    <3> DEFINE pools == MassUpdated(t)
    <3>1. poolInfos' = [pools EXCEPT ![p].allocPoint = alloc] /\ pools \in [Added -> PoolInfo]
      BY <2>1, <2>2
    <3> HIDE DEF pools
    <3>2. ASSUME NEW q \in Added
          PROVE  /\ poolInfos'[q].accRewardPerShare = pools[q].accRewardPerShare
                 /\ poolInfos'[q].lastRewardBlock = pools[q].lastRewardBlock
                 /\ q # p => poolInfos'[q].allocPoint = pools[q].allocPoint
      BY <3>1 DEF PoolInfo
    <3> QED
      BY <3>2 DEF pools
  <2>4. \A u \in Token \ {t} :
          /\ totalAllocPoints'[u] = totalAllocPoints[u]
          /\ rewardTokenAmountsPerBlock'[u] = rewardTokenAmountsPerBlock[u]
    BY <2>1 DEF Types
  <2> HIDE DEF t
  <2> QED
    BY <2>1, <2>2, <2>3, <2>4, TermsScheduled
<1>3. ASSUME NEW t \in Token, NEW rate, SetRewardAmountPerBlock(t, rate)
      PROVE  Scheduled'
  <2>1. /\ CanMassUpdate(t) /\ poolInfos' = MassUpdated(t)
        /\ rewardTokenAmountsPerBlock' = [rewardTokenAmountsPerBlock EXCEPT ![t] = rate]
        /\ UNCHANGED <<block, totalAllocPoints, userInfos, paid, emitted, truncated>>
    BY <1>3 DEF SetRewardAmountPerBlock, userVars
  <2>2. Added' = Added
    BY <2>1 DEF Added, MassUpdated
  <2>3. \A u \in Token \ {t} : rewardTokenAmountsPerBlock'[u] = rewardTokenAmountsPerBlock[u]
    BY <2>1 DEF Types
  <2> QED
    BY <2>1, <2>2, <2>3, TermsScheduled
<1>4. ASSUME NEW p \in Added, NEW period, SetWithdrawalLockingPeriod(p, period)
      PROVE  Scheduled'
  <2>1. /\ poolInfos' = [poolInfos EXCEPT ![p].lockPeriod = period]
        /\ UNCHANGED <<block, totalAllocPoints, rewardTokenAmountsPerBlock, userInfos,
                       paid, emitted, truncated>>
    BY <1>4 DEF SetWithdrawalLockingPeriod, userVars
  <2>2. /\ DOMAIN poolInfos' = DOMAIN poolInfos
        /\ \A q \in Added : /\ poolInfos'[q].accRewardPerShare = poolInfos[q].accRewardPerShare
                            /\ poolInfos'[q].lastRewardBlock = poolInfos[q].lastRewardBlock
                            /\ poolInfos'[q].allocPoint = poolInfos[q].allocPoint
    BY <2>1 DEF Types, PoolInfo
  <2> QED
    BY <2>1, <2>2, IdleScheduled
<1> QED
  BY <1>1, <1>2, <1>3, <1>4, Inputs DEF AdminCall, Types

\* A block adds to what is promised, and to the wait of every pool its points, which
\* add up to what the token's updates divide by.
LEMMA MineScheduled ==
  ASSUME Types, Pointed, Scheduled, NEW seconds, Mine(seconds)
  PROVE  Scheduled'
<1>1. /\ block' = block + 1 /\ block \in Nat /\ block \in Int /\ block + 1 \in Int
      /\ emitted' = [t \in Token |-> emitted[t] + rewardTokenAmountsPerBlock[t]]
      /\ UNCHANGED <<poolInfos, totalAllocPoints, rewardTokenAmountsPerBlock, userInfos,
                     paid, truncated>>
  BY DEF Mine, poolVars, userVars, Types
<1>2. /\ Added \in SUBSET Pools /\ poolInfos \in [Added -> PoolInfo] /\ Added' = Added
      /\ userInfos \in [Pools -> [Account -> UserInfo]]
  BY <1>1 DEF Types, Added
<1>3. Metered'
  BY <1>1 DEF Scheduled, Metered, Types
<1>4. Covered'
  <2>1. \A p \in Added : poolInfos[p].lastRewardBlock <= block + 1
    BY <1>1, <1>2 DEF Scheduled, Covered, PoolInfo
  <2> QED
    BY <1>1, <1>2, <2>1 DEF Scheduled, Covered, Lead
<1>5. ASSUME NEW t \in Token
      PROVE  Within(Spent(t)' + SumFunction(Credits(t, poolInfos, userInfos)),
                    SumFunction(Waits(t, poolInfos, block + 1)),
                    totalAllocPoints[t], rewardTokenAmountsPerBlock[t])
  <2> DEFINE total == totalAllocPoints[t]
             rate == rewardTokenAmountsPerBlock[t]
             r == AccScale * rate
             x == Spent(t) + SumFunction(Credits(t, poolInfos, userInfos))
             f == Waits(t, poolInfos, block)
             g == Points(t)
             h == Waits(t, poolInfos, block + 1)
             w == SumFunction(f)
  <2>1. total \in Nat /\ rate \in Nat /\ r \in Nat /\ Spent(t) \in Int
    <3>1. total \in Nat /\ rate \in Nat
      BY DEF Types
    <3>2. r \in Nat
      BY <3>1, Inputs, NatTimes
    <3>3. Spent(t) \in Int
      BY SpentType DEF Scheduled
    <3> QED
      BY <3>1, <3>2, <3>3
  <2>2. Spent(t)' = Spent(t) - r
    <3>1. paid[t] \in Nat /\ emitted[t] \in Nat /\ truncated[t] \in Nat
      BY DEF Scheduled, Metered
    <3>2. Spent(t)' = Spending(paid[t], emitted[t] + rate, truncated[t])
      BY <1>1 DEF Spent
    <3>3. Spending(paid[t], emitted[t] + rate, truncated[t])
            = Spending(paid[t], emitted[t], truncated[t]) - r
      BY <2>1, <3>1, SpendingGiven
    <3> QED
      BY <3>2, <3>3 DEF Spent
  <2>3. /\ Credits(t, poolInfos, userInfos) \in [Pools -> Int]
        /\ f \in [Pools -> Int] /\ h \in [Pools -> Int] /\ g \in [Pools -> Int]
    <3>1. Credits(t, poolInfos, userInfos) \in [Pools -> Int] /\ f \in [Pools -> Int]
      BY <1>1, <1>2, CreditsType
    <3>2. h \in [Pools -> Int]
      BY <1>1, <1>2, CreditsType
    <3>3. g \in [Pools -> Nat]
      BY PointsType
    <3> HIDE DEF g
    <3>4. g \in [Pools -> Int]
      BY <3>3
    <3> QED
      BY <3>1, <3>2, <3>4
  <2>4. ASSUME NEW p \in Pools
        PROVE  f[p] \in Int /\ g[p] \in Int /\ h[p] = f[p] + 1 * g[p]
    <3>1. CASE p \in Added /\ Reward(p) = t
      <4> DEFINE last == poolInfos[p].lastRewardBlock
                 alloc == poolInfos[p].allocPoint
      <4>1. last \in Nat /\ alloc \in Nat
        BY <1>2, <3>1 DEF PoolInfo
      <4>2. /\ f[p] = (block - last) * alloc /\ g[p] = alloc
            /\ h[p] = ((block + 1) - last) * alloc
        BY <3>1 DEF Waits, Waiting, Points, Added
      <4> HIDE DEF f, g, h, last, alloc
      <4>3. ((block + 1) - last) * alloc = (block - last) * alloc + alloc
        BY <1>1, <4>1, SMT
      <4>4. (block - last) * alloc \in Int
        BY <1>1, <4>1, TimesInt
      <4> QED
        BY <4>1, <4>2, <4>3, <4>4
    <3>2. CASE ~ (p \in Added /\ Reward(p) = t)
      BY <3>2 DEF Waits, Points, Added
    <3> QED
      BY <3>1, <3>2
  <2>5. total = SumFunction(g)
    BY DEF Pointed
  <2>6. DOMAIN f = Pools /\ DOMAIN g = Pools /\ DOMAIN h = Pools
    BY DEF Waits, Points
  <2> HIDE DEF f, g, h, total, rate, r
  <2>7. SumFunctionOnSet(h, Pools) = SumFunctionOnSet(f, Pools) + 1 * SumFunctionOnSet(g, Pools)
    BY <2>4, Finite, SumTimes
  <2>8. SumFunction(h) = SumFunction(f) + 1 * SumFunction(g)
    BY <2>6, <2>7 DEF SumFunction
  <2>9. SumFunction(h) = w + total
    BY <2>1, <2>5, <2>8
  <2>10. w \in Int /\ x \in Int
    BY <2>1, <2>3, Finite, SumFunctionInt
  <2>11. Within(x, w, total, rate)
    BY DEF Scheduled, Budgeted, f, total, rate
  <2>12. x <= 0 /\ total * x + r * w <= 0
    BY <2>11 DEF Within, r
  <2>13. Spent(t)' + SumFunction(Credits(t, poolInfos, userInfos)) = x - r
    <3>1. SumFunction(Credits(t, poolInfos, userInfos)) \in Int
      BY <2>3, Finite, SumFunctionInt
    <3> QED
      BY <2>1, <2>2, <3>1
  <2> HIDE DEF w, x
  <2>14. x - r <= 0
    BY <2>1, <2>10, <2>12
  <2>15. total * (x - r) + r * (w + total) = total * x + r * w
    BY <2>1, <2>10, SMT
  <2>16. Within(x - r, w + total, total, rate)
    BY <2>12, <2>14, <2>15 DEF Within, r
  <2> QED
    BY <2>9, <2>13, <2>16 DEF h, total, rate
<1>6. Budgeted'
  BY <1>1, <1>5 DEF Budgeted
<1> QED
  BY <1>3, <1>4, <1>6 DEF Scheduled

LEMMA StepScheduled == Booked /\ HoldsStakes /\ Scheduled /\ [Next]_vars => Scheduled'
<1> SUFFICES ASSUME Booked, HoldsStakes, Scheduled, [Next]_vars PROVE Scheduled'
  OBVIOUS
<1>1. Types /\ Pointed /\ Types' /\ Added \subseteq Pools
  BY StepBooked DEF Booked, Types
<1>2. CASE AdminCall
  BY <1>1, <1>2, AdminScheduled
<1>3. CASE \E p \in Added : UpdatePool(p)
  BY <1>1, <1>3, UpdateScheduled
<1>4. CASE \E p \in Added : \E a \in Users[p], amount \in Amounts : Deposit(a, p, amount)
  BY <1>1, <1>4, Inputs, DepositScheduled
<1>5. CASE \E p \in Added : \E a \in Users[p] : ExecuteWithdrawal(a, p)
  BY <1>1, <1>5, Inputs, ExecuteScheduled
<1>6. CASE \E seconds \in 1..MaxSeconds : Mine(seconds)
  BY <1>1, <1>6, MineScheduled
<1>7. CASE \E p \in Added : \E a \in Users[p], amount \in Amounts :
             RequestWithdrawal(a, p, amount)
  <2>1. PICK p \in Added, a \in Account, amount \in Nat : RequestWithdrawal(a, p, amount)
    BY <1>1, <1>7, Inputs
  <2>2. /\ p \in Pools /\ userInfos \in [Pools -> [Account -> UserInfo]]
        /\ userInfos' = [userInfos EXCEPT ![p][a].pendingWithdrawals = @ + amount]
        /\ UNCHANGED <<block, poolInfos, totalAllocPoints, rewardTokenAmountsPerBlock,
                       paid, emitted, truncated>>
    BY <1>1, <2>1 DEF RequestWithdrawal, poolVars, Types
  <2>3. \A q \in Pools, b \in Account :
          /\ userInfos'[q][b].amount = userInfos[q][b].amount
          /\ userInfos'[q][b].rewardDebt = userInfos[q][b].rewardDebt
    <3> SUFFICES ASSUME NEW q \in Pools, NEW b \in Account
                 PROVE  /\ userInfos'[q][b].amount = userInfos[q][b].amount
                        /\ userInfos'[q][b].rewardDebt = userInfos[q][b].rewardDebt
      OBVIOUS
    <3>1. CASE q = p /\ b = a
      <4>1. userInfos[p][a] \in UserInfo
        BY <2>2
      <4>2. userInfos'[q][b] = [userInfos[p][a] EXCEPT !.pendingWithdrawals = @ + amount]
        BY <2>2, <3>1
      <4> QED
        BY <3>1, <4>1, <4>2 DEF UserInfo
    <3>2. CASE ~ (q = p /\ b = a)
      BY <2>2, <3>2
    <3> QED
      BY <3>1, <3>2
  <2> QED
    BY <1>1, <2>2, <2>3, IdleScheduled
<1>8. CASE (\E a \in Delegators, d \in Delegatees : Delegate(a, d))
           \/ (\E a \in Account, t \in Token, amount \in Gifts : Donate(a, t, amount))
           \/ UNCHANGED vars
  <2>1. UNCHANGED <<block, poolInfos, totalAllocPoints, rewardTokenAmountsPerBlock, userInfos,
                    paid, emitted, truncated>>
    BY <1>8 DEF Delegate, Donate, vars, poolVars, userVars
  <2> QED
    BY <1>1, <2>1, IdleScheduled
<1> QED
  BY <1>2, <1>3, <1>4, <1>5, <1>6, <1>7, <1>8 DEF Next, UserCall

\* Sums that keep a bound of every summand.
LEMMA ScaledSums ==
  ASSUME NEW S, IsFiniteSet(S), NEW f \in [S -> Int], NEW g \in [S -> Int], NEW c \in Nat,
         \A x \in S : c * f[x] <= g[x]
  PROVE  c * SumFunction(f) <= SumFunction(g)
<1> DEFINE zero == [x \in S |-> 0]
           h == [x \in S |-> c * f[x]]
<1>1. h \in [S -> Int] /\ \A x \in S : h[x] <= g[x]
  BY TimesInt
<1>2. /\ \A x \in S : zero[x] \in Int /\ f[x] \in Int /\ h[x] = zero[x] + c * f[x]
      /\ DOMAIN zero = S /\ DOMAIN h = S /\ DOMAIN f = S /\ c \in Int
  BY TimesInt
<1>3. SumFunction(zero) = 0
  BY SumFunctionZero
<1> HIDE DEF zero, h
<1>4. SumFunctionOnSet(h, S) = SumFunctionOnSet(zero, S) + c * SumFunctionOnSet(f, S)
  BY <1>2, SumTimes
<1>5. SumFunction(h) = SumFunction(zero) + c * SumFunction(f)
  BY <1>2, <1>4 DEF SumFunction
<1>6. SumFunction(f) \in Int /\ c * SumFunction(f) \in Int
  BY <1>2, SumFunctionInt, TimesInt
<1>7. SumFunction(h) <= SumFunction(g)
  BY <1>1, SumFunctionLeq
<1> QED
  BY <1>3, <1>5, <1>6, <1>7

\* What could be claimed now is within the credits once the pools that can be updated
\* are.
LEMMA ScheduledIs == Types /\ HoldsStakes /\ Scheduled => WithinSchedule
<1> SUFFICES ASSUME Types, HoldsStakes, Scheduled, NEW t \in Token
             PROVE  AccScale * (paid[t]
                      + SumFunction([p \in {q \in Added : Reward(q) = t} |-> Claimable(p)]))
                    <= AccScale * emitted[t] + truncated[t]
  BY DEF WithinSchedule
<1> DEFINE R == {q \in Added : Reward(q) = t}
           pools == [p \in Added |-> IF CanUpdate(p) THEN Updated(p) ELSE poolInfos[p]]
           claims == [p \in R |-> Claimable(p)]
           f == [p \in Pools |-> IF p \in R THEN Claimable(p) ELSE 0]
           C == Credits(t, pools, userInfos)
<1>1. /\ Added \in SUBSET Pools /\ userInfos \in [Pools -> [Account -> UserInfo]]
      /\ block \in Nat /\ block \in Int /\ R \in SUBSET Pools
  BY DEF Types
<1>2. /\ Advanced(pools) /\ DOMAIN pools = Added /\ pools \in [Added -> PoolInfo]
      /\ \A p \in Added : CanUpdate(p) => pools[p] = Updated(p)
  BY UpdatedIs DEF Advanced, Types
<1> HIDE DEF pools
<1>3. /\ Within(Spent(t) + SumFunction(C), SumFunction(Waits(t, pools, block)),
                totalAllocPoints[t], rewardTokenAmountsPerBlock[t])
      /\ \A p \in Added, a \in Account : Lead(userInfos[p][a], pools[p].accRewardPerShare) >= 0
  BY <1>2, AdvancedWithin
<1>4. C \in [Pools -> Int]
  BY <1>1, <1>2, CreditsType
<1>5. ASSUME NEW p \in R
      PROVE  Claimable(p) \in Int /\ AccScale * Claimable(p) <= C[p]
  <2> DEFINE acc == pools[p].accRewardPerShare
             users == userInfos[p]
             leads == Leads(users, acc)
             due == [a \in Account |-> Pending(users[a], acc)]
  <2>1. /\ p \in Added /\ p \in Pools /\ pools[p] \in PoolInfo
        /\ users \in [Account -> UserInfo]
    BY <1>1, <1>2
  <2>2. C[p] = SumFunction(leads)
    BY <1>2, <2>1 DEF Credits, Credit
  <2>3. leads \in [Account -> Int] /\ acc \in Nat
    BY <2>1, CreditType DEF PoolInfo
  <2>4. CASE CanUpdate(p)
    <3>1. Claimable(p) = SumFunction(due)
      BY <1>2, <2>1, <2>4 DEF Claimable
    <3>2. ASSUME NEW a \in Account
          PROVE  Pending(users[a], acc) \in Int /\ AccScale * Pending(users[a], acc) <= leads[a]
      <4>1. users[a] \in UserInfo
        BY <2>1
      <4>2. leads[a] = Lead(users[a], acc)
        BY DEF Leads
      <4> HIDE DEF leads, users, acc
      <4> QED
        BY <2>3, <4>1, <4>2, PendingType, PendingLead
    <3>3. due \in [Account -> Int] /\ \A a \in Account : AccScale * due[a] <= leads[a]
      BY <3>2
    <3> HIDE DEF due, leads
    <3>4. SumFunction(due) \in Int /\ AccScale * SumFunction(due) <= SumFunction(leads)
      BY <2>3, <3>3, Finite, Inputs, ScaledSums, SumFunctionInt
    <3> QED
      BY <2>2, <3>1, <3>4
  <2>5. CASE ~ CanUpdate(p)
    <3>1. Claimable(p) = 0 /\ AccScale * 0 = 0
      BY <2>5, Inputs DEF Claimable
    <3>2. \A a \in Account : leads[a] >= 0
      BY <1>3, <2>1 DEF Leads
    <3> HIDE DEF leads
    <3>3. leads \in [Account -> Nat]
      BY <2>3, <3>2
    <3>4. SumFunction(leads) \in Nat
      BY <3>3, Finite, SumFunctionNat
    <3> QED
      BY <2>2, <3>1, <3>4
  <2> QED
    BY <2>4, <2>5
<1>6. f \in [Pools -> Int]
  BY <1>5
<1>7. ASSUME NEW p \in Pools
      PROVE  AccScale * f[p] <= C[p]
  <2>1. CASE p \in R
    BY <1>5, <2>1
  <2>2. CASE p \notin R
    <3>1. C[p] = 0
      BY <1>2, <2>2 DEF Credits
    <3> QED
      BY <2>2, <3>1, Inputs
  <2> QED
    BY <2>1, <2>2
<1>8. /\ \A p \in R : claims[p] \in Int /\ f[p] = claims[p]
      /\ \A p \in Pools \ R : f[p] = 0
      /\ DOMAIN claims = R /\ DOMAIN f = Pools
  BY <1>1, <1>5
<1> HIDE DEF f, C, R
<1>9. AccScale * SumFunction(f) <= SumFunction(C)
  BY <1>4, <1>6, <1>7, Finite, Inputs, ScaledSums
<1>10. SumFunction(claims) = SumFunction(f)
  <2> HIDE DEF claims
  <2>1. SumFunctionOnSet(f, Pools) = SumFunctionOnSet(claims, R)
    BY <1>1, <1>8, Finite, SumWithoutZeros
  <2> QED
    BY <1>8, <2>1 DEF SumFunction
<1>11. /\ SumFunction(f) \in Int /\ SumFunction(C) \in Int /\ Spent(t) \in Int
  BY <1>4, <1>6, Finite, SumFunctionInt, SpentType DEF Scheduled
<1>12. /\ paid[t] \in Nat /\ emitted[t] \in Nat /\ truncated[t] \in Nat
       /\ AccScale \in Int
  BY Inputs DEF Scheduled, Metered
<1>13. /\ AccScale * paid[t] \in Nat /\ AccScale * emitted[t] \in Nat
       /\ AccScale * SumFunction(f) \in Int
  BY <1>11, <1>12, Inputs, NatTimes, TimesInt
<1>14. AccScale * (paid[t] + SumFunction(f)) = AccScale * paid[t] + AccScale * SumFunction(f)
  <2>1. paid[t] \in Int
    BY <1>12
  <2> QED
    BY <1>11, <1>12, <2>1, Distribute
<1>15. Spent(t) + SumFunction(C) <= 0
  BY <1>3 DEF Within
<1>16. Spent(t) = AccScale * paid[t] - AccScale * emitted[t] - truncated[t]
  BY DEF Spent, Spending
<1> HIDE DEF claims
<1>17. AccScale * (paid[t] + SumFunction(claims)) <= AccScale * emitted[t] + truncated[t]
  BY <1>9, <1>10, <1>11, <1>12, <1>13, <1>14, <1>15, <1>16
<1> QED
  BY <1>17 DEF claims, R

\* However rates, points, stakes and pools change and whoever calls when: all that was
\* paid out, and all that could be claimed now, stays within what the rates in force in
\* each block promised for it.  The one leak is the rounding down of reward debts, and
\* it is no more than that.
THEOREM RewardsWithinSchedule == Spec => []WithinSchedule
<1>1. Init => Booked /\ HoldsStakes /\ Scheduled
  BY InitBooked, InitHolds, InitScheduled
<1>2. Booked /\ HoldsStakes /\ Scheduled /\ [Next]_vars => Booked' /\ HoldsStakes' /\ Scheduled'
  BY StepBooked, StepHolds, StepScheduled
<1>3. Booked /\ HoldsStakes /\ Scheduled => WithinSchedule
  BY ScheduledIs DEF Booked
<1> QED
  BY <1>1, <1>2, <1>3, PTL DEF Spec
=============================================================================
