------------------------ MODULE LockedStakingProofs ------------------------
(***************************************************************************)
(* What is proved of LockedStaking for any accounts, tokens, durations,    *)
(* penalties, rewards and order of calls: every token is accounted for,    *)
(* the staked one included where rewards are paid in it; a stake is what   *)
(* is unlocked and its locks; nobody redeems what has not matured; and, if *)
(* the admin only adds reward tokens, no more is paid than the speeds      *)
(* promised.                                                               *)
(***************************************************************************)
EXTENDS LockedStaking, Sums, SequenceTheorems

-----------------------------------------------------------------------------
(* Sums of locks.                                                          *)

\* What of the locks is due at a time.
Due(locks, t) ==
  SumFunctionOnSet(Stakes(locks), {i \in DOMAIN locks : locks[i].unlockTime <= t})

LEMMA LocksShape ==
  ASSUME NEW locks \in Seq(LockType)
  PROVE  /\ Len(locks) \in Nat /\ DOMAIN locks = 1..Len(locks)
         /\ \A i \in 1..Len(locks) :
              /\ locks[i] \in LockType
              /\ locks[i].stakedTokenAmount \in Nat /\ locks[i].unlockTime \in Nat
              /\ Stakes(locks)[i] = locks[i].stakedTokenAmount
              /\ Stakes(locks)[i] \in Nat
         /\ \A t : {i \in DOMAIN locks : locks[i].unlockTime <= t} \in SUBSET (1..Len(locks))
         /\ IsFiniteSet(1..Len(locks))
         /\ \A P \in SUBSET (1..Len(locks)) : IsFiniteSet(P)
<1>1. Len(locks) \in Nat /\ DOMAIN locks = 1..Len(locks)
  BY LenProperties
<1>2. \A i \in 1..Len(locks) : locks[i] \in LockType
  BY LenProperties
<1>4. IsFiniteSet(1..Len(locks))
  BY <1>1, FS_Interval
<1>3. IsFiniteSet(1..Len(locks)) /\ \A P \in SUBSET (1..Len(locks)) : IsFiniteSet(P)
  BY <1>4, FS_Subset
<1> QED
  BY <1>1, <1>2, <1>3 DEF Stakes, LockType

LEMMA TotalIs ==
  ASSUME NEW locks \in Seq(LockType)
  PROVE  /\ Total(locks) = SumFunctionOnSet(Stakes(locks), 1..Len(locks))
         /\ Total(locks) \in Nat
         /\ \A t : Due(locks, t) \in Nat
<1>1. Total(locks) = SumFunctionOnSet(Stakes(locks), 1..Len(locks))
  BY LocksShape DEF Total, SumFunction, Stakes
<1>2. \A P \in SUBSET (1..Len(locks)) : SumFunctionOnSet(Stakes(locks), P) \in Nat
  BY LocksShape, SumNat
<1> QED
  BY <1>1, <1>2, LocksShape DEF Due

\* A new lock at the end.
LEMMA AppendSum ==
  ASSUME NEW locks \in Seq(LockType), NEW lock \in LockType
  PROVE  /\ Append(locks, lock) \in Seq(LockType)
         /\ Total(Append(locks, lock)) = Total(locks) + lock.stakedTokenAmount
         /\ \A t : Due(Append(locks, lock), t) =
              IF lock.unlockTime <= t THEN Due(locks, t) + lock.stakedTokenAmount
              ELSE Due(locks, t)
<1> DEFINE more == Append(locks, lock)
           n == Len(locks)
<1>1. /\ more \in Seq(LockType) /\ Len(more) = n + 1 /\ n \in Nat
      /\ \A i \in 1..n : more[i] = locks[i]
      /\ more[n + 1] = lock
  BY AppendProperties, LocksShape
<1> HIDE DEF more
<1>2. ASSUME NEW P \in SUBSET (1..n)
      PROVE  /\ SumFunctionOnSet(Stakes(more), P) = SumFunctionOnSet(Stakes(locks), P)
             /\ SumFunctionOnSet(Stakes(more), P \cup {n + 1})
                  = SumFunctionOnSet(Stakes(locks), P) + lock.stakedTokenAmount
  <2>1. IsFiniteSet(P) /\ n + 1 \notin P
    BY <1>1, <1>2, LocksShape
  <2>2. \A i \in P : Stakes(more)[i] = Stakes(locks)[i] /\ Stakes(more)[i] \in Int
    BY <1>1, <1>2, LocksShape, SMTT(30)
  <2>7. n + 1 \in 1..Len(more)
    BY <1>1
  <2>8. Stakes(more)[n + 1] = more[n + 1].stakedTokenAmount
    BY <1>1, <2>7, LocksShape
  <2>3. Stakes(more)[n + 1] = lock.stakedTokenAmount /\ lock.stakedTokenAmount \in Int
    BY <1>1, <2>8 DEF LockType
  <2>4. SumFunctionOnSet(Stakes(more), P) = SumFunctionOnSet(Stakes(locks), P)
    BY <2>1, <2>2, SumAgree
  <2>5. SumFunctionOnSet(Stakes(more), P \cup {n + 1})
          = Stakes(more)[n + 1] + SumFunctionOnSet(Stakes(more), P)
    BY <2>1, <2>2, <2>3, SumInsert
  <2>6. SumFunctionOnSet(Stakes(locks), P) \in Int
    BY <2>1, <2>2, SumInt
  <2> QED
    BY <2>3, <2>4, <2>5, <2>6
<1>3. Total(more) = Total(locks) + lock.stakedTokenAmount
  <2>1. 1..(n + 1) = (1..n) \cup {n + 1} /\ 1..n \in SUBSET (1..n)
    BY <1>1
  <2> QED
    BY <1>1, <1>2, <2>1, TotalIs
<1>4. ASSUME NEW t
      PROVE  Due(more, t) = IF lock.unlockTime <= t THEN Due(locks, t) + lock.stakedTokenAmount
                            ELSE Due(locks, t)
  <2> DEFINE P == {i \in 1..n : locks[i].unlockTime <= t}
  <2>1. /\ DOMAIN more = 1..(n + 1) /\ DOMAIN locks = 1..n
    BY <1>1, LocksShape
  <2>2. {i \in DOMAIN more : more[i].unlockTime <= t}
           = IF lock.unlockTime <= t THEN P \cup {n + 1} ELSE P
    BY <1>1, <2>1
  <2>3. P \in SUBSET (1..n) /\ {i \in DOMAIN locks : locks[i].unlockTime <= t} = P
    BY <2>1
  <2> HIDE DEF P
  <2> QED
    BY <1>2, <2>2, <2>3 DEF Due
<1> QED
  BY <1>1, <1>3, <1>4 DEF more

\* A sequence of locks cut in two.
LEMMA SplitShape ==
  ASSUME NEW locks \in Seq(LockType), NEW k \in 0..Len(locks)
  PROVE  /\ SubSeq(locks, 1, k) \in Seq(LockType)
         /\ Len(SubSeq(locks, 1, k)) = k
         /\ \A i \in 1..k : SubSeq(locks, 1, k)[i] = locks[i]
         /\ SubSeq(locks, k + 1, Len(locks)) \in Seq(LockType)
         /\ Len(SubSeq(locks, k + 1, Len(locks))) = Len(locks) - k
         /\ \A i \in 1..(Len(locks) - k) :
              SubSeq(locks, k + 1, Len(locks))[i] = locks[k + i]
<1> DEFINE n == Len(locks)
<1>1. n \in Nat /\ \A i \in 1..n : locks[i] \in LockType
  BY LocksShape
<1> HIDE DEF n
<1>2. k \in 0..n
  BY DEF n
<1>3. /\ \A i \in 1..k : locks[i] \in LockType
      /\ \A i \in (k + 1)..n : locks[i] \in LockType
  BY <1>1, <1>2
<1>4. /\ SubSeq(locks, 1, k) \in Seq(LockType)
      /\ Len(SubSeq(locks, 1, k)) = IF 1 <= k THEN k - 1 + 1 ELSE 0
      /\ \A i \in 1..(k - 1 + 1) : SubSeq(locks, 1, k)[i] = locks[1 + i - 1]
  BY <1>2, <1>3, SubSeqProperties
<1>5. /\ SubSeq(locks, k + 1, n) \in Seq(LockType)
      /\ Len(SubSeq(locks, k + 1, n)) = IF k + 1 <= n THEN n - (k + 1) + 1 ELSE 0
      /\ \A i \in 1..(n - (k + 1) + 1) : SubSeq(locks, k + 1, n)[i] = locks[(k + 1) + i - 1]
  <2>1. k + 1 \in Int /\ n \in Int
    BY <1>1, <1>2
  <2> QED
    BY <1>3, <2>1, SubSeqProperties
<1>6. /\ Len(SubSeq(locks, 1, k)) = k
      /\ \A i \in 1..k : SubSeq(locks, 1, k)[i] = locks[i]
  BY <1>2, <1>4
<1>7. /\ Len(SubSeq(locks, k + 1, n)) = n - k
      /\ \A i \in 1..(n - k) : SubSeq(locks, k + 1, n)[i] = locks[k + i]
  <2>1. \A i \in 1..(n - k) : (k + 1) + i - 1 = k + i /\ i \in 1..(n - (k + 1) + 1)
    BY <1>1, <1>2
  <2> QED
    BY <1>1, <1>2, <1>5, <2>1
<1> QED
  BY <1>4, <1>5, <1>6, <1>7 DEF n

LEMMA SplitSum ==
  ASSUME NEW locks \in Seq(LockType), NEW k \in 0..Len(locks), NEW P \in SUBSET (1..Len(locks))
  PROVE  SumFunctionOnSet(Stakes(locks), P)
           = SumFunctionOnSet(Stakes(SubSeq(locks, 1, k)), P \cap (1..k))
             + SumFunctionOnSet(Stakes(SubSeq(locks, k + 1, Len(locks))),
                                {i \in 1..(Len(locks) - k) : k + i \in P})
<1> DEFINE n == Len(locks)
           front == SubSeq(locks, 1, k)
           back == SubSeq(locks, k + 1, n)
           A == P \cap (1..k)
           B == {i \in 1..(n - k) : k + i \in P}
           h == [i \in B |-> k + i]
           C == {h[i] : i \in B}
<1>1. /\ front \in Seq(LockType) /\ Len(front) = k
      /\ \A i \in 1..k : front[i] = locks[i]
      /\ back \in Seq(LockType) /\ Len(back) = n - k
      /\ \A i \in 1..(n - k) : back[i] = locks[k + i]
  BY SplitShape
<1>2. n \in Nat /\ k \in Nat /\ k <= n
  BY LocksShape
<1> HIDE DEF front, back
<1>3. /\ A \in SUBSET (1..k) /\ B \in SUBSET (1..(n - k))
      /\ A \cup C = P /\ A \cap C = {} /\ C \in SUBSET (1..n)
  <2>1. \A i \in P : i \notin A => i - k \in B /\ h[i - k] = i
    BY <1>2
  <2>2. \A i \in B : h[i] \in P /\ h[i] \notin A
    BY <1>2
  <2> HIDE DEF h
  <2> QED
    BY <2>1, <2>2
<1>4. \A i \in B : h[i] = k + i /\ k + i \in 1..n
  BY <1>2
<1> HIDE DEF A, B, h
<1>5. /\ IsFiniteSet(A) /\ IsFiniteSet(B) /\ IsFiniteSet(C)
      /\ \A i \in A : Stakes(front)[i] = Stakes(locks)[i] /\ Stakes(locks)[i] \in Int
      /\ \A i \in C : Stakes(locks)[i] \in Int
  <2>1. IsFiniteSet(A)
    BY <1>1, <1>3, LocksShape
  <2>2. IsFiniteSet(B)
    BY <1>1, <1>3, LocksShape
  <2>3. IsFiniteSet(C)
    BY <1>3, LocksShape
  <2>4. \A i \in 1..k : /\ Stakes(front)[i] = front[i].stakedTokenAmount
                        /\ i \in 1..n
    BY <1>1, <1>2, LocksShape, SMTT(30)
  <2>5. \A i \in 1..n : /\ Stakes(locks)[i] = locks[i].stakedTokenAmount
                        /\ Stakes(locks)[i] \in Int
    BY LocksShape
  <2> QED
    BY <1>1, <1>3, <2>1, <2>2, <2>3, <2>4, <2>5
<1>6. \A i \in B : Stakes(back)[i] \in Int /\ Stakes(locks)[h[i]] = Stakes(back)[i]
  <2>1. \A i \in 1..(n - k) : /\ Stakes(back)[i] = back[i].stakedTokenAmount
                              /\ Stakes(back)[i] \in Int
    BY <1>1, LocksShape
  <2>2. \A i \in 1..n : Stakes(locks)[i] = locks[i].stakedTokenAmount
    BY LocksShape
  <2> QED
    BY <1>1, <1>3, <1>4, <2>1, <2>2
<1>7. \A i, j \in B : h[i] = h[j] => i = j
  BY <1>2, <1>3, <1>4
<1>8. SumFunctionOnSet(Stakes(locks), C) = SumFunctionOnSet(Stakes(back), B)
  BY <1>5, <1>6, <1>7, SumRenamed, SMTT(30)
<1>9. SumFunctionOnSet(Stakes(front), A) = SumFunctionOnSet(Stakes(locks), A)
  BY <1>5, SumAgree
<1> HIDE DEF C
<1>10. SumFunctionOnSet(Stakes(locks), A \cup C)
         = SumFunctionOnSet(Stakes(locks), A) + SumFunctionOnSet(Stakes(locks), C)
  BY <1>3, <1>5, SumUnion
<1> QED
  BY <1>3, <1>8, <1>9, <1>10 DEF A, B, front, back

\* The sweep stops at the first lock that has not expired.
LEMMA FirstLockedIs ==
  ASSUME NEW locks \in Seq(LockType), now \in Nat
  PROVE  /\ FirstLocked(locks) \in 1..(Len(locks) + 1)
         /\ \A i \in 1..(FirstLocked(locks) - 1) : locks[i].unlockTime <= now
<1> DEFINE S == {i \in DOMAIN locks : locks[i].unlockTime > now} \cup {Len(locks) + 1}
<1>1. /\ Len(locks) \in Nat /\ DOMAIN locks = 1..Len(locks)
      /\ \A i \in 1..Len(locks) : locks[i].unlockTime \in Nat
  BY LocksShape
<1>2. S \in SUBSET Nat /\ S # {} /\ S \subseteq 1..(Len(locks) + 1)
  BY <1>1
<1>3. FirstLocked(locks) \in S /\ \A i \in S : FirstLocked(locks) <= i
  <2> HIDE DEF S
  <2>1. \E m \in S : \A i \in S : m <= i
    BY <1>2, SmallestNumber
  <2>2. FirstLocked(locks) = CHOOSE m \in S : \A i \in S : m <= i
    BY DEF FirstLocked, Min, S
  <2> QED
    BY <2>1, <2>2
<1>4. ASSUME NEW i \in 1..(FirstLocked(locks) - 1)
      PROVE  locks[i].unlockTime <= now
  <2>1. i \notin S /\ i \in 1..Len(locks)
    BY <1>1, <1>2, <1>3, SMTT(30)
  <2> QED
    BY <1>1, <2>1
<1> QED
  BY <1>2, <1>3, <1>4

\* What the sweep takes out of the locks is due, now and later.
LEMMA SweepSum ==
  ASSUME NEW locks \in Seq(LockType), now \in Nat
  PROVE  /\ Swept(locks) \in Seq(LockType)
         /\ Total(Sweepable(locks)) \in Nat
         /\ Total(locks) = Total(Sweepable(locks)) + Total(Swept(locks))
         /\ \A t \in Nat : t >= now =>
              Due(locks, t) = Total(Sweepable(locks)) + Due(Swept(locks), t)
<1> DEFINE n == Len(locks)
           k == FirstLocked(locks) - 1
           front == SubSeq(locks, 1, k)
           back == SubSeq(locks, k + 1, n)
<1>1. /\ n \in Nat /\ k \in 0..n /\ k + 1 = FirstLocked(locks)
      /\ \A i \in 1..k : locks[i].unlockTime <= now
  BY FirstLockedIs, LocksShape
<1>2. Sweepable(locks) = front /\ Swept(locks) = back
  BY <1>1 DEF Sweepable, Swept
<1> HIDE DEF k
<1>3. /\ front \in Seq(LockType) /\ Len(front) = k
      /\ \A i \in 1..k : front[i] = locks[i]
      /\ back \in Seq(LockType) /\ Len(back) = n - k
      /\ \A i \in 1..(n - k) : back[i] = locks[k + i]
  BY <1>1, SplitShape
<1>4. \A P \in SUBSET (1..n) :
        SumFunctionOnSet(Stakes(locks), P)
          = SumFunctionOnSet(Stakes(front), P \cap (1..k))
            + SumFunctionOnSet(Stakes(back), {i \in 1..(n - k) : k + i \in P})
  BY <1>1, SplitSum
<1> HIDE DEF front, back
<1>5. Total(front) = SumFunctionOnSet(Stakes(front), 1..k) /\ Total(front) \in Nat
  BY <1>3, TotalIs
<1>6. Total(locks) = Total(front) + Total(back)
  <2> DEFINE P == 1..n
  <2>1. P \cap (1..k) = 1..k /\ {i \in 1..(n - k) : k + i \in P} = 1..(n - k)
    BY <1>1
  <2>2. SumFunctionOnSet(Stakes(locks), P)
          = SumFunctionOnSet(Stakes(front), P \cap (1..k))
            + SumFunctionOnSet(Stakes(back), {i \in 1..(n - k) : k + i \in P})
    BY <1>4
  <2>3. Total(back) = SumFunctionOnSet(Stakes(back), 1..(n - k))
    BY <1>3, TotalIs
  <2>4. Total(locks) = SumFunctionOnSet(Stakes(locks), P)
    BY TotalIs
  <2> QED
    BY <1>5, <2>1, <2>2, <2>3, <2>4
<1>7. ASSUME NEW t \in Nat, t >= now
      PROVE  Due(locks, t) = Total(front) + Due(back, t)
  <2> DEFINE P == {i \in 1..n : locks[i].unlockTime <= t}
             Q == {i \in 1..(n - k) : back[i].unlockTime <= t}
  <2>1. \A i \in 1..n : locks[i].unlockTime \in Nat
    BY LocksShape
  <2>2. P \cap (1..k) = 1..k
    BY <1>1, <1>7, <2>1
  <2>3. {i \in 1..(n - k) : k + i \in P} = Q
    BY <1>1, <1>3, SMTT(30)
  <2>4. SumFunctionOnSet(Stakes(locks), P)
          = SumFunctionOnSet(Stakes(front), P \cap (1..k))
            + SumFunctionOnSet(Stakes(back), {i \in 1..(n - k) : k + i \in P})
    BY <1>4
  <2>5. /\ {i \in DOMAIN locks : locks[i].unlockTime <= t} = P
        /\ {i \in DOMAIN back : back[i].unlockTime <= t} = Q
    BY <1>3, LocksShape
  <2> HIDE DEF P, Q
  <2> QED
    BY <1>5, <2>2, <2>3, <2>4, <2>5 DEF Due
<1> QED
  BY <1>2, <1>3, <1>5, <1>6, <1>7

\* The stakes of the first k locks together.
Partial(locks, k) == SumFunctionOnSet(Stakes(locks), 1..k)

LEMMA FrontSum ==
  ASSUME NEW locks \in Seq(LockType)
  PROVE  /\ \A k \in 0..Len(locks) : /\ Partial(locks, k) \in Nat
                                     /\ Total(SubSeq(locks, 1, k)) = Partial(locks, k)
         /\ Partial(locks, 0) = 0
         /\ \A k \in 1..Len(locks) :
              Partial(locks, k) = Partial(locks, k - 1) + locks[k].stakedTokenAmount
         /\ Partial(locks, Len(locks)) = Total(locks)
<1> DEFINE n == Len(locks)
<1>1. /\ n \in Nat /\ IsFiniteSet(1..n) /\ \A P \in SUBSET (1..n) : IsFiniteSet(P)
      /\ \A i \in 1..n : /\ Stakes(locks)[i] = locks[i].stakedTokenAmount
                         /\ Stakes(locks)[i] \in Nat
  BY LocksShape
<1> HIDE DEF n
<1>2. ASSUME NEW k \in 0..n
      PROVE  /\ Partial(locks, k) \in Nat
             /\ Total(SubSeq(locks, 1, k)) = Partial(locks, k)
  <2> DEFINE front == SubSeq(locks, 1, k)
  <2>1. /\ front \in Seq(LockType) /\ Len(front) = k
        /\ \A i \in 1..k : front[i] = locks[i]
    BY <1>2, SplitShape DEF n
  <2> HIDE DEF front
  <2>2. \A i \in 1..k : /\ Stakes(front)[i] = front[i].stakedTokenAmount
                        /\ i \in 1..n
    BY <1>1, <1>2, <2>1, LocksShape
  <2>3. \A i \in 1..k : Stakes(front)[i] = Stakes(locks)[i] /\ Stakes(locks)[i] \in Nat
    BY <1>1, <2>1, <2>2
  <2>4. IsFiniteSet(1..k)
    BY <1>1, <2>2
  <2>5. SumFunctionOnSet(Stakes(front), 1..k) = SumFunctionOnSet(Stakes(locks), 1..k)
    BY <2>3, <2>4, SumAgree
  <2>6. SumFunctionOnSet(Stakes(locks), 1..k) \in Nat
    BY <2>3, <2>4, SumNat
  <2>7. Total(front) = SumFunctionOnSet(Stakes(front), 1..k)
    BY <2>1, TotalIs
  <2> QED
    BY <2>5, <2>6, <2>7 DEF Partial, front
<1>3. Partial(locks, 0) = 0
  <2>1. 1..0 = {}
    OBVIOUS
  <2> QED
    BY <2>1, SumEmpty DEF Partial
<1>4. ASSUME NEW k \in 1..n
      PROVE  Partial(locks, k) = Partial(locks, k - 1) + locks[k].stakedTokenAmount
  <2> DEFINE P == 1..(k - 1)
  <2>1. 1..k = P \cup {k} /\ k \notin P /\ P \in SUBSET (1..n)
    BY <1>1, <1>4
  <2>2. IsFiniteSet(P) /\ \A i \in P \cup {k} : Stakes(locks)[i] \in Int
    BY <1>1, <1>4, <2>1
  <2>5. Partial(locks, k - 1) = SumFunctionOnSet(Stakes(locks), P)
    BY DEF Partial
  <2> HIDE DEF P
  <2>3. SumFunctionOnSet(Stakes(locks), P \cup {k})
          = Stakes(locks)[k] + SumFunctionOnSet(Stakes(locks), P)
    BY <2>1, <2>2, SumInsert
  <2>4. k - 1 \in 0..n /\ Stakes(locks)[k] = locks[k].stakedTokenAmount
        /\ Stakes(locks)[k] \in Nat
    BY <1>1, <1>4
  <2>6. Partial(locks, k - 1) \in Nat
    BY <1>2, <2>4
  <2>7. Partial(locks, k) = SumFunctionOnSet(Stakes(locks), P \cup {k})
    BY <2>1 DEF Partial
  <2> QED
    BY <2>3, <2>4, <2>5, <2>6, <2>7
<1>5. Partial(locks, n) = Total(locks)
  BY TotalIs DEF Partial, n
<1> QED
  BY <1>2, <1>3, <1>4, <1>5 DEF n

\* What each lock keeps when an amount is taken from the front.
LEMMA EarlyTakenShape ==
  ASSUME NEW locks \in Seq(LockType), NEW amount \in Nat
  PROVE  /\ EarlyTaken(locks, amount) \in Seq(LockType)
         /\ Len(EarlyTaken(locks, amount)) = Len(locks)
         /\ \A i \in 1..Len(locks) :
              LET left == amount - Partial(locks, i - 1)
                  had == locks[i].stakedTokenAmount
                  kept == EarlyTaken(locks, amount)[i]
              IN  /\ kept.stakedTokenAmount =
                       IF left <= 0 THEN had ELSE IF had <= left THEN 0 ELSE had - left
                  /\ kept.stakedTokenAmount = 0 \/ kept.unlockTime = locks[i].unlockTime
<1> DEFINE n == Len(locks)
           E == EarlyTaken(locks, amount)
           left(i) == amount - Partial(locks, i - 1)
<1>1. /\ n \in Nat /\ DOMAIN locks = 1..n
      /\ \A i \in 1..n : /\ locks[i] \in LockType
                         /\ locks[i].stakedTokenAmount \in Nat /\ locks[i].unlockTime \in Nat
  BY LocksShape
<1>2. \A i \in 1..n : /\ left(i) \in Int
                     /\ amount - Total(SubSeq(locks, 1, i - 1)) = left(i)
  <2> TAKE i \in 1..n
  <2>1. i - 1 \in 0..n
    BY <1>1
  <2> QED
    BY <2>1, FrontSum
<1>3. E = [i \in 1..n |->
             IF left(i) <= 0 THEN locks[i]
             ELSE IF locks[i].stakedTokenAmount <= left(i) THEN Locked(0, 0)
             ELSE Locked(locks[i].stakedTokenAmount - left(i), locks[i].unlockTime)]
  BY <1>1, <1>2 DEF EarlyTaken
<1> HIDE DEF E, left, n
<1>4. \A i \in 1..n :
        /\ E[i] \in LockType
        /\ E[i].stakedTokenAmount =
             IF left(i) <= 0 THEN locks[i].stakedTokenAmount
             ELSE IF locks[i].stakedTokenAmount <= left(i) THEN 0
             ELSE locks[i].stakedTokenAmount - left(i)
        /\ E[i].stakedTokenAmount = 0 \/ E[i].unlockTime = locks[i].unlockTime
  <2> TAKE i \in 1..n
  <2>1. /\ locks[i] \in LockType /\ locks[i].stakedTokenAmount \in Nat
        /\ locks[i].unlockTime \in Nat /\ left(i) \in Int
    BY <1>1, <1>2
  <2>2. E[i] = IF left(i) <= 0 THEN locks[i]
               ELSE IF locks[i].stakedTokenAmount <= left(i) THEN Locked(0, 0)
               ELSE Locked(locks[i].stakedTokenAmount - left(i), locks[i].unlockTime)
    BY <1>3
  <2>3. CASE left(i) <= 0
    BY <2>1, <2>2, <2>3
  <2>4. CASE ~ (left(i) <= 0) /\ locks[i].stakedTokenAmount <= left(i)
    BY <2>1, <2>2, <2>4 DEF Locked, LockType
  <2>5. CASE ~ (left(i) <= 0) /\ ~ (locks[i].stakedTokenAmount <= left(i))
    <3>1. locks[i].stakedTokenAmount - left(i) \in Nat
      BY <2>1, <2>5
    <3> QED
      BY <2>1, <2>2, <2>5, <3>1 DEF Locked, LockType
  <2> QED
    BY <2>3, <2>4, <2>5
<1>5. E \in [1..n -> LockType]
  BY <1>3, <1>4
<1>6. E \in Seq(LockType) /\ Len(E) = n
  BY <1>1, <1>5
<1> QED
  BY <1>4, <1>6 DEF E, n, left

\* Taking an amount early takes that much from the locks, and none of them has
\* more due afterwards, at any time.
LEMMA EarlyTakenSum ==
  ASSUME NEW locks \in Seq(LockType), NEW amount \in Nat, amount <= Total(locks)
  PROVE  /\ Total(EarlyTaken(locks, amount)) = Total(locks) - amount
         /\ \A t \in Nat : Due(EarlyTaken(locks, amount), t) <= Due(locks, t)
<1> DEFINE n == Len(locks)
           E == EarlyTaken(locks, amount)
           had(i) == locks[i].stakedTokenAmount
           kept(i) == E[i].stakedTokenAmount
<1>1. /\ n \in Nat /\ E \in Seq(LockType) /\ Len(E) = n
      /\ \A i \in 1..n :
           /\ kept(i) = IF amount - Partial(locks, i - 1) <= 0 THEN had(i)
                        ELSE IF had(i) <= amount - Partial(locks, i - 1) THEN 0
                        ELSE had(i) - (amount - Partial(locks, i - 1))
           /\ kept(i) = 0 \/ E[i].unlockTime = locks[i].unlockTime
           /\ had(i) \in Nat
  BY EarlyTakenShape, LocksShape
<1> HIDE DEF E
<1>2. /\ \A k \in 0..n : Partial(locks, k) \in Nat /\ Partial(E, k) \in Nat
      /\ \A k \in 1..n : /\ Partial(locks, k) = Partial(locks, k - 1) + had(k)
                         /\ Partial(E, k) = Partial(E, k - 1) + kept(k)
      /\ Partial(locks, 0) = 0 /\ Partial(E, 0) = 0
      /\ Partial(locks, n) = Total(locks) /\ Partial(E, n) = Total(E)
  <2>1. /\ \A k \in 0..n : Partial(locks, k) \in Nat
        /\ \A k \in 1..n : Partial(locks, k) = Partial(locks, k - 1) + had(k)
        /\ Partial(locks, 0) = 0 /\ Partial(locks, n) = Total(locks)
    BY FrontSum
  <2>2. /\ \A k \in 0..n : Partial(E, k) \in Nat
        /\ \A k \in 1..n : Partial(E, k) = Partial(E, k - 1) + kept(k)
        /\ Partial(E, 0) = 0 /\ Partial(E, n) = Total(E)
    BY <1>1, FrontSum
  <2> QED
    BY <2>1, <2>2
<1> DEFINE Fine(k) == Partial(E, k) = IF Partial(locks, k) <= amount THEN 0
                                    ELSE Partial(locks, k) - amount
<1> HIDE DEF n, had, kept
<1>3. \A k \in 0..n : Fine(k)
  <2> DEFINE T == {k \in 0..n : ~ Fine(k)}
  <2>1. SUFFICES ASSUME T # {} PROVE FALSE
    OBVIOUS
  <2>2. PICK k \in T : \A j \in T : k <= j
    <3>1. T \in SUBSET Nat
      BY <1>1
    <3> HIDE DEF T
    <3> QED
      BY <2>1, <3>1, SmallestNumber
  <2>3. k \in 0..n /\ ~ Fine(k)
    BY <2>2
  <2>4. k # 0
    BY <1>2, <2>3
  <2>5. k \in 1..n /\ k - 1 \in 0..n
    BY <1>1, <2>3, <2>4
  <2>6. Fine(k - 1)
    BY <1>1, <2>2, <2>5
  <2>7. /\ Partial(locks, k - 1) \in Nat /\ Partial(E, k - 1) \in Nat
        /\ Partial(locks, k) = Partial(locks, k - 1) + had(k)
        /\ Partial(E, k) = Partial(E, k - 1) + kept(k)
    BY <1>2, <2>5
  <2>8. /\ had(k) \in Nat
        /\ kept(k) = IF amount - Partial(locks, k - 1) <= 0 THEN had(k)
                     ELSE IF had(k) <= amount - Partial(locks, k - 1) THEN 0
                     ELSE had(k) - (amount - Partial(locks, k - 1))
    BY <1>1, <2>5
  <2> DEFINE W == Partial(locks, k - 1)
             V == Partial(E, k - 1)
             x == had(k)
             y == kept(k)
  <2>9. V = IF W <= amount THEN 0 ELSE W - amount
    BY <2>6
  <2>10. /\ W \in Nat /\ V \in Nat /\ x \in Nat
         /\ y = IF amount - W <= 0 THEN x ELSE IF x <= amount - W THEN 0 ELSE x - (amount - W)
         /\ ~ (V + y = IF W + x <= amount THEN 0 ELSE W + x - amount)
    BY <2>3, <2>7, <2>8
  <2> HIDE DEF T, W, V, x, y
  <2> QED
    BY ONLY <2>9, <2>10, amount \in Nat
<1>4. Total(E) = Total(locks) - amount
  BY <1>1, <1>2, <1>3
<1>5. ASSUME NEW t \in Nat
      PROVE  Due(E, t) <= Due(locks, t)
  <2> DEFINE all == 1..n
             f == [i \in all |-> IF E[i].unlockTime <= t THEN kept(i) ELSE 0]
             g == [i \in all |-> IF locks[i].unlockTime <= t THEN had(i) ELSE 0]
             P == {i \in all : E[i].unlockTime <= t}
             Q == {i \in all : locks[i].unlockTime <= t}
  <2>1. /\ \A i \in all : /\ E[i].unlockTime \in Nat /\ kept(i) \in Nat
                          /\ Stakes(E)[i] = kept(i)
        /\ {i \in DOMAIN E : E[i].unlockTime <= t} = P
    BY <1>1, LocksShape DEF kept
  <2>2. /\ \A i \in all : /\ locks[i].unlockTime \in Nat /\ had(i) \in Nat
                          /\ Stakes(locks)[i] = had(i)
        /\ {i \in DOMAIN locks : locks[i].unlockTime <= t} = Q
    BY LocksShape DEF had, n
  <2>3. \A i \in all : kept(i) <= had(i) /\ (kept(i) = 0 \/ E[i].unlockTime = locks[i].unlockTime)
    <3> TAKE i \in all
    <3>1. i - 1 \in 0..n
      BY <1>1
    <3>2. Partial(locks, i - 1) \in Nat
      BY <1>2, <3>1
    <3> QED
      BY <1>1, <3>2, SMTT(30)
  <2>4. IsFiniteSet(all) /\ P \in SUBSET all /\ Q \in SUBSET all
    BY LocksShape DEF n
  <2>5. \A i \in all : f[i] \in Int /\ g[i] \in Int /\ f[i] <= g[i]
    <3> TAKE i \in all
    <3>1. f[i] = IF E[i].unlockTime <= t THEN kept(i) ELSE 0
      OBVIOUS
    <3>2. g[i] = IF locks[i].unlockTime <= t THEN had(i) ELSE 0
      OBVIOUS
    <3> HIDE DEF f, g, all
    <3> QED
      BY <2>1, <2>2, <2>3, <3>1, <3>2
  <2>9. /\ \A i \in P : Stakes(E)[i] \in Int /\ f[i] = Stakes(E)[i]
        /\ \A i \in all \ P : f[i] = 0
    BY <2>1
  <2>10. /\ \A i \in Q : Stakes(locks)[i] \in Int /\ g[i] = Stakes(locks)[i]
         /\ \A i \in all \ Q : g[i] = 0
    BY <2>2
  <2> HIDE DEF f, g, P, Q, all
  <2>6. SumFunctionOnSet(f, all) <= SumFunctionOnSet(g, all)
    BY <2>4, <2>5, SumLeq
  <2>7. SumFunctionOnSet(f, all) = Due(E, t)
    <3>1. SumFunctionOnSet(f, all) = SumFunctionOnSet(Stakes(E), P)
      BY <2>4, <2>9, SumWithoutZeros
    <3> QED
      BY <2>1, <3>1 DEF Due
  <2>8. SumFunctionOnSet(g, all) = Due(locks, t)
    <3>1. SumFunctionOnSet(g, all) = SumFunctionOnSet(Stakes(locks), Q)
      BY <2>4, <2>10, SumWithoutZeros
    <3> QED
      BY <2>2, <3>1 DEF Due
  <2> QED
    BY <2>6, <2>7, <2>8
<1> QED
  BY <1>4, <1>5 DEF E

-----------------------------------------------------------------------------
(* The stakes of every account.                                            *)

StakeTypes ==
  /\ now \in Nat /\ lockDuration \in Nat /\ earlyRedeemPenalty \in Nat
  /\ supplyAmount \in [Account -> Nat] /\ unlockedSupplyAmount \in [Account -> Nat]
  /\ wallets \in [Account -> Nat] /\ redeemed \in [Account -> Nat]
  /\ totalSupplies \in Nat /\ slashedTokenAmount \in Nat /\ balance \in [Token -> Nat]
  /\ lockedSupplies \in [Account -> Seq(LockType)] /\ deposits \in [Account -> Seq(LockType)]

\* At every time from now on, what an account has redeemed, may redeem and will
\* have due by then comes from deposits due by then.
Matched ==
  \A a \in Account : \A t \in Nat : t >= now =>
    redeemed[a] + unlockedSupplyAmount[a] + Due(lockedSupplies[a], t) <= Due(deposits[a], t)

\* No call makes more of the staked token than there is.  It is why a payment
\* that wrapped around, at a penalty beyond the amount, is never made.
SupplyBounds == SumFunction(wallets) + balance[StakedToken] <= Supply

StakeInv == StakeTypes /\ SupplyIsUnlockedAndLocks /\ Matched /\ SupplyBounds

LEMMA SupplyFacts ==
  ASSUME StakeTypes
  PROVE  /\ Supply \in Nat /\ StakedToken \in Token /\ IsFiniteSet(Account)
         /\ SumFunction(wallets) \in Nat /\ balance[StakedToken] \in Nat
         /\ WordSize \in Nat /\ 2 * Supply <= WordSize
<1>1. /\ IsFiniteSet(Account) /\ StakedToken \in Token
      /\ FirstWallet \in [Account -> Nat] /\ FirstBalance \in [Token -> Nat]
      /\ WordSize \in Nat /\ 2 * Supply <= WordSize
  BY StakingAssumption
<1>2. SumFunction(FirstWallet) \in Nat
  BY <1>1, SumFunctionNat
<1>3. wallets \in [Account -> Nat] /\ balance[StakedToken] \in Nat
  BY <1>1 DEF StakeTypes
<1>4. SumFunction(wallets) \in Nat
  BY <1>1, <1>3, SumFunctionNat
<1>5. Supply \in Nat
  BY <1>1, <1>2 DEF Supply
<1> QED
  BY <1>1, <1>3, <1>4, <1>5

\* What one account receives of the staked token, or gives, the contract has less
\* or more.
LEMMA WalletStep ==
  ASSUME StakeInv, NEW a \in Account, NEW m \in Int, wallets[a] + m \in Nat,
         wallets' = [wallets EXCEPT ![a] = @ + m],
         balance' \in [Token -> Nat],
         balance'[StakedToken] <= balance[StakedToken] - m
  PROVE  wallets' \in [Account -> Nat] /\ balance' \in [Token -> Nat] /\ SupplyBounds'
<1>1. StakeTypes /\ SupplyBounds
  BY DEF StakeInv
<1>2. /\ wallets' \in [Account -> Nat] /\ wallets \in [Account -> Nat]
      /\ wallets'[a] = wallets[a] + m /\ wallets[a] \in Nat
      /\ \A b \in Account \ {a} : wallets'[b] = wallets[b]
  BY <1>1 DEF StakeTypes
<1>3. SumFunction(wallets') = SumFunction(wallets) - wallets[a] + wallets'[a]
  <2>1. \A f, g \in [Account -> Int] :
          (\A b \in Account \ {a} : g[b] = f[b])
            => SumFunction(g) = SumFunction(f) - f[a] + g[a]
    BY <1>1, SupplyFacts, SumFunctionUpdate
  <2>2. wallets' \in [Account -> Int] /\ wallets \in [Account -> Int]
    BY <1>2
  <2> QED
    BY <1>2, <2>1, <2>2
<1>4. /\ Supply \in Nat /\ SumFunction(wallets) \in Nat /\ balance[StakedToken] \in Nat
      /\ balance'[StakedToken] \in Nat
  BY <1>1, SupplyFacts
<1>5. SumFunction(wallets') = SumFunction(wallets) + m
  BY <1>2, <1>3, <1>4
<1>6. SumFunction(wallets') + balance'[StakedToken] <= Supply
  BY <1>1, <1>4, <1>5 DEF SupplyBounds
<1> QED
  BY <1>2, <1>6 DEF SupplyBounds

LEMMA MoveStep ==
  ASSUME StakeInv, NEW a \in Account, NEW m \in Int, MoveStakedToken(a, m),
         m <= balance[StakedToken], -m <= wallets[a]
  PROVE  wallets' \in [Account -> Nat] /\ balance' \in [Token -> Nat] /\ SupplyBounds'
<1>1. /\ wallets' = [wallets EXCEPT ![a] = @ + m]
      /\ balance' = [balance EXCEPT ![StakedToken] = @ - m]
  BY DEF MoveStakedToken
<1>2. /\ StakedToken \in Token /\ balance \in [Token -> Nat] /\ wallets[a] \in Nat
      /\ balance[StakedToken] \in Nat
  BY SupplyFacts DEF StakeInv, StakeTypes
<1>3. wallets[a] + m \in Nat /\ balance[StakedToken] - m \in Nat
  BY <1>2
<1>4. balance' \in [Token -> Nat] /\ balance'[StakedToken] = balance[StakedToken] - m
  BY <1>1, <1>2, <1>3
<1>5. balance'[StakedToken] <= balance[StakedToken] - m
  BY <1>3, <1>4
<1> QED
  BY <1>1, <1>3, <1>4, <1>5, WalletStep

\* A call of one account that keeps its own books together keeps those of all.
LEMMA AccountStep ==
  ASSUME StakeInv, NEW a \in Account,
         NEW supply \in Nat, NEW unlocked \in Nat, NEW paid \in Nat,
         NEW locks \in Seq(LockType), NEW made \in Seq(LockType),
         supplyAmount' = [supplyAmount EXCEPT ![a] = supply],
         unlockedSupplyAmount' = [unlockedSupplyAmount EXCEPT ![a] = unlocked],
         lockedSupplies' = [lockedSupplies EXCEPT ![a] = locks],
         redeemed' = [redeemed EXCEPT ![a] = paid],
         deposits' = [deposits EXCEPT ![a] = made],
         totalSupplies' = totalSupplies - supplyAmount[a] + supply,
         now' = now,
         supply = unlocked + Total(locks),
         \A t \in Nat : t >= now => paid + unlocked + Due(locks, t) <= Due(made, t)
  PROVE  /\ supplyAmount' \in [Account -> Nat] /\ unlockedSupplyAmount' \in [Account -> Nat]
         /\ redeemed' \in [Account -> Nat] /\ totalSupplies' \in Nat
         /\ lockedSupplies' \in [Account -> Seq(LockType)]
         /\ deposits' \in [Account -> Seq(LockType)]
         /\ SupplyIsUnlockedAndLocks' /\ Matched'
<1>1. /\ supplyAmount' \in [Account -> Nat] /\ unlockedSupplyAmount' \in [Account -> Nat]
      /\ redeemed' \in [Account -> Nat]
      /\ lockedSupplies' \in [Account -> Seq(LockType)]
      /\ deposits' \in [Account -> Seq(LockType)]
  BY DEF StakeInv, StakeTypes
<1>2. /\ supplyAmount'[a] = supply /\ unlockedSupplyAmount'[a] = unlocked
      /\ lockedSupplies'[a] = locks /\ redeemed'[a] = paid /\ deposits'[a] = made
      /\ \A b \in Account \ {a} :
           /\ supplyAmount'[b] = supplyAmount[b]
           /\ unlockedSupplyAmount'[b] = unlockedSupplyAmount[b]
           /\ lockedSupplies'[b] = lockedSupplies[b]
           /\ redeemed'[b] = redeemed[b] /\ deposits'[b] = deposits[b]
  BY DEF StakeInv, StakeTypes
<1>3. totalSupplies' = SumFunction(supplyAmount') /\ totalSupplies' \in Nat
  <2>0. IsFiniteSet(Account)
    BY StakingAssumption
  <2>1. IsFiniteSet(Account) /\ supplyAmount \in [Account -> Int]
        /\ supplyAmount' \in [Account -> Int]
        /\ \A b \in Account \ {a} : supplyAmount'[b] = supplyAmount[b]
    BY <1>1, <1>2, StakingAssumption, SMTT(30) DEF StakeInv, StakeTypes
  <2>2. SumFunction(supplyAmount')
          = SumFunction(supplyAmount) - supplyAmount[a] + supplyAmount'[a]
    <3>1. \A f, g \in [Account -> Int] :
            (\A b \in Account \ {a} : g[b] = f[b])
              => SumFunction(g) = SumFunction(f) - f[a] + g[a]
      BY <2>0, SumFunctionUpdate
    <3> QED
      BY ONLY <2>1, <3>1
  <2>3. SumFunction(supplyAmount') \in Nat
    BY <1>1, <2>1, SumFunctionNat
  <2> QED
    BY <1>2, <2>2, <2>3 DEF StakeInv, SupplyIsUnlockedAndLocks
<1>4. \A b \in Account :
        supplyAmount'[b] = unlockedSupplyAmount'[b] + Total(lockedSupplies'[b])
  BY <1>2 DEF StakeInv, SupplyIsUnlockedAndLocks
<1>5. SupplyIsUnlockedAndLocks'
  BY <1>3, <1>4 DEF SupplyIsUnlockedAndLocks
<1>6. ASSUME NEW b \in Account, NEW t \in Nat, t >= now
      PROVE  redeemed'[b] + unlockedSupplyAmount'[b] + Due(lockedSupplies'[b], t)
               <= Due(deposits'[b], t)
  <2>1. CASE b = a
    BY <1>2, <1>6, <2>1
  <2>2. CASE b # a
    BY <1>2, <1>6, <2>2 DEF StakeInv, Matched
  <2> QED
    BY <2>1, <2>2
<1>7. Matched'
  BY <1>6 DEF Matched
<1> QED
  BY <1>1, <1>3, <1>5, <1>7

\* What an account's books say before its call.
LEMMA AccountFacts ==
  ASSUME StakeInv, NEW a \in Account
  PROVE  /\ now \in Nat /\ lockDuration \in Nat
         /\ supplyAmount[a] \in Nat /\ unlockedSupplyAmount[a] \in Nat
         /\ wallets[a] \in Nat /\ redeemed[a] \in Nat
         /\ lockedSupplies[a] \in Seq(LockType) /\ deposits[a] \in Seq(LockType)
         /\ supplyAmount[a] = unlockedSupplyAmount[a] + Total(lockedSupplies[a])
         /\ \A t \in Nat : t >= now =>
              redeemed[a] + unlockedSupplyAmount[a] + Due(lockedSupplies[a], t)
                <= Due(deposits[a], t)
  BY DEF StakeInv, StakeTypes, SupplyIsUnlockedAndLocks, Matched

(* Amounts of the reward tokens, added up by token.                        *)

LEMMA TokenRewards ==
  ASSUME NEW t
  PROVE  IsFiniteSet({i \in Rewards : RewardToken[i] = t})
<1>1. IsFiniteSet(Rewards)
  BY FS_Interval, StakingAssumption DEF Rewards
<1> QED
  BY <1>1, FS_Subset

LEMMA AmountType ==
  ASSUME NEW t, NEW f, \A i \in Rewards : f[i] \in Nat
  PROVE  AmountIn(t, f) \in Nat
BY TokenRewards, SumNat DEF AmountIn

LEMMA AmountZero ==
  ASSUME NEW t, NEW f, \A i \in Rewards : f[i] = 0
  PROVE  AmountIn(t, f) = 0
BY TokenRewards, SumZero DEF AmountIn

LEMMA AmountAdds ==
  ASSUME NEW t, NEW f, NEW g, NEW h,
         \A i \in Rewards : f[i] \in Nat /\ g[i] \in Nat /\ h[i] = f[i] + g[i]
  PROVE  AmountIn(t, h) = AmountIn(t, f) + AmountIn(t, g)
<1> DEFINE S == {i \in Rewards : RewardToken[i] = t}
<1>1. IsFiniteSet(S)
  BY TokenRewards
<1>2. \A i \in S : f[i] \in Int /\ g[i] \in Int /\ h[i] = f[i] + 1 * g[i]
  OBVIOUS
<1> HIDE DEF S
<1>3. SumFunctionOnSet(h, S) = SumFunctionOnSet(f, S) + 1 * SumFunctionOnSet(g, S)
  BY <1>1, <1>2, SumTimes
<1>4. SumFunctionOnSet(g, S) \in Int
  BY <1>1, <1>2, SumInt
<1>5. SumFunctionOnSet(h, S) = SumFunctionOnSet(f, S) + SumFunctionOnSet(g, S)
  BY <1>3, <1>4
<1> QED
  BY <1>5 DEF S, AmountIn

-----------------------------------------------------------------------------
(* The types of the rewards.                                               *)

RewardTypes ==
  /\ rewardTokenCount \in 0..MaxRewards /\ accrualTime \in 0..now
  /\ rewardSpeeds \in [Rewards -> Nat] /\ rewardIndex \in [Rewards -> Nat]
  /\ accruedReward \in [Account -> [Rewards -> Nat]]
  /\ supplierRewardIndex \in [Account -> [Rewards -> Nat]]
  /\ \A a \in Account, i \in Rewards : supplierRewardIndex[a][i] <= rewardIndex[i]

LEMMA NatTimes ==
  ASSUME NEW x \in Nat, NEW y \in Nat
  PROVE  x * y \in Nat
  BY SMT

LEMMA NatDiv ==
  ASSUME NEW n \in Nat, NEW d \in Nat, d > 0
  PROVE  n \div d \in Nat
  BY SMT

\* Indices only grow.
LEMMA IndexGrows ==
  ASSUME StakeInv, RewardTypes
  PROVE  /\ IndexNow \in [Rewards -> Nat]
         /\ \A i \in Rewards : rewardIndex[i] <= IndexNow[i]
<1> DEFINE delta == now - accrualTime
           growth(i) == (rewardSpeeds[i] * delta * IndexScale) \div totalSupplies
<1>1. /\ now \in Nat /\ accrualTime \in 0..now /\ totalSupplies \in Nat
      /\ IndexScale \in Nat
  BY StakingAssumption DEF StakeInv, StakeTypes, RewardTypes
<1>2. delta \in Nat
  BY <1>1
<1>3. ASSUME NEW i \in Rewards, totalSupplies # 0
      PROVE  growth(i) \in Nat
  <2>1. rewardSpeeds[i] * delta \in Nat
    BY <1>2, NatTimes DEF RewardTypes
  <2>2. rewardSpeeds[i] * delta * IndexScale \in Nat
    BY <1>1, <2>1, NatTimes
  <2> QED
    BY <1>1, <1>3, <2>2, NatDiv
<1>4. IndexNow = [i \in Rewards |-> IF totalSupplies = 0 \/ i \notin Paying THEN rewardIndex[i]
                                  ELSE rewardIndex[i] + growth(i)]
  BY DEF IndexNow
<1> HIDE DEF growth
<1>5. \A i \in Rewards : rewardIndex[i] \in Nat
  BY DEF RewardTypes
<1> QED
  BY <1>3, <1>4, <1>5

LEMMA AccruedType ==
  ASSUME StakeInv, RewardTypes, NEW a \in Account
  PROVE  /\ AccruedNow(a) \in [Rewards -> Nat]
         /\ \A i \in Rewards : Earned(a, i) \in Nat
<1>1. ASSUME NEW i \in Rewards
      PROVE  Earned(a, i) \in Nat /\ accruedReward[a][i] \in Nat
  <2>1. /\ IndexNow[i] - supplierRewardIndex[a][i] \in Nat
        /\ supplyAmount[a] \in Nat /\ accruedReward[a][i] \in Nat
    <3>1. /\ supplierRewardIndex[a][i] \in Nat /\ rewardIndex[i] \in Nat
          /\ supplierRewardIndex[a][i] <= rewardIndex[i]
          /\ supplyAmount[a] \in Nat /\ accruedReward[a][i] \in Nat
      BY DEF RewardTypes, StakeInv, StakeTypes
    <3>2. IndexNow[i] \in Nat /\ rewardIndex[i] <= IndexNow[i]
      BY IndexGrows
    <3> QED
      BY <3>1, <3>2
  <2>2. (IndexNow[i] - supplierRewardIndex[a][i]) * supplyAmount[a] \in Nat
    BY <2>1, NatTimes
  <2>3. RewardScale[i] \in Nat /\ RewardScale[i] > 0
    BY StakingAssumption
  <2> QED
    BY <2>1, <2>2, <2>3, NatDiv DEF Earned
<1> HIDE DEF RewardTypes
<1> QED
  BY <1>1 DEF AccruedNow

\* What a claim pays of each reward.
Pay(a) == [i \in Rewards |-> IF i \in Paying THEN AccruedNow(a)[i] ELSE 0]

LEMMA PayType ==
  ASSUME StakeInv, RewardTypes, NEW a \in Account
  PROVE  \A i \in Rewards : /\ AccruedNow(a)[i] \in Nat /\ Pay(a)[i] \in Nat
                            /\ AccruedNow(a)[i] - Pay(a)[i] \in Nat
<1>1. \A i \in Rewards : AccruedNow(a)[i] \in Nat
  BY AccruedType
<1> QED
  BY <1>1 DEF Pay

-----------------------------------------------------------------------------
(* The calls of the users.                                                 *)

LEMMA DepositKeeps ==
  ASSUME StakeInv, NEW a \in Account, NEW amount \in Amounts, Deposit(a, amount)
  PROVE  StakeInv'
<1> DEFINE lock == Locked(amount, now + lockDuration)
           old  == lockedSupplies[a]
           all  == Append(old, lock)
           made == Append(deposits[a], lock)
           unlocked == unlockedSupplyAmount[a] + Total(Sweepable(all))
<1>1. amount \in Nat
  BY StakingAssumption
<1>2. /\ now' = now /\ UNCHANGED <<lockDuration, earlyRedeemPenalty, slashedTokenAmount, redeemed>>
      /\ amount <= wallets[a]
      /\ totalSupplies' = totalSupplies + amount
      /\ supplyAmount' = [supplyAmount EXCEPT ![a] = supplyAmount[a] + amount]
      /\ lockedSupplies' = [lockedSupplies EXCEPT ![a] = Swept(all)]
      /\ unlockedSupplyAmount' = [unlockedSupplyAmount EXCEPT ![a] = unlocked]
      /\ MoveStakedToken(a, -amount)
      /\ deposits' = [deposits EXCEPT ![a] = made]
  BY DEF Deposit, UpdateExpiredLocks, settingVars
<1>3. lock \in LockType /\ lock.stakedTokenAmount = amount
  BY <1>1, AccountFacts DEF Locked, LockType
<1> HIDE DEF lock
<1>4. /\ all \in Seq(LockType) /\ made \in Seq(LockType)
      /\ Total(all) = Total(old) + amount
      /\ \A t : /\ Due(all, t) - Due(old, t) = Due(made, t) - Due(deposits[a], t)
               /\ Due(all, t) \in Nat /\ Due(made, t) \in Nat
               /\ Due(old, t) \in Nat /\ Due(deposits[a], t) \in Nat
      /\ Total(old) \in Nat /\ Total(all) \in Nat
  <2>1. old \in Seq(LockType) /\ deposits[a] \in Seq(LockType)
    BY AccountFacts
  <2>2. /\ all \in Seq(LockType) /\ Total(all) = Total(old) + amount
        /\ \A t : Due(all, t) = IF lock.unlockTime <= t THEN Due(old, t) + amount
                                 ELSE Due(old, t)
    BY <1>3, <2>1, AppendSum
  <2>3. /\ made \in Seq(LockType)
        /\ \A t : Due(made, t) = IF lock.unlockTime <= t THEN Due(deposits[a], t) + amount
                                  ELSE Due(deposits[a], t)
    BY <1>3, <2>1, AppendSum
  <2>4. \A t : Due(old, t) \in Nat /\ Due(deposits[a], t) \in Nat
    BY <2>1, TotalIs
  <2>5. \A t : Due(all, t) \in Nat /\ Due(made, t) \in Nat
    BY <2>2, <2>3, TotalIs
  <2>6. Total(old) \in Nat /\ Total(all) \in Nat
    BY <2>1, <2>2, TotalIs
  <2>7. \A t : Due(all, t) - Due(old, t) = Due(made, t) - Due(deposits[a], t)
    BY <1>1, <2>2, <2>3, <2>4
  <2> QED
    BY <2>2, <2>3, <2>4, <2>5, <2>6, <2>7
<1> HIDE DEF all, made
<1>5. /\ Swept(all) \in Seq(LockType) /\ Total(Sweepable(all)) \in Nat
      /\ Total(Swept(all)) \in Nat
      /\ Total(all) = Total(Sweepable(all)) + Total(Swept(all))
      /\ \A t : Due(Swept(all), t) \in Nat
      /\ \A t \in Nat : t >= now => Due(all, t) = Total(Sweepable(all)) + Due(Swept(all), t)
  BY <1>4, AccountFacts, SweepSum, TotalIs
<1>6. /\ supplyAmount[a] + amount \in Nat /\ unlocked \in Nat
      /\ supplyAmount[a] + amount = unlocked + Total(Swept(all))
  <2>1. /\ supplyAmount[a] \in Nat /\ unlockedSupplyAmount[a] \in Nat
        /\ supplyAmount[a] = unlockedSupplyAmount[a] + Total(old)
    BY AccountFacts
  <2>2. /\ Total(old) \in Nat /\ Total(all) = Total(old) + amount
        /\ Total(Sweepable(all)) \in Nat /\ Total(Swept(all)) \in Nat
        /\ Total(all) = Total(Sweepable(all)) + Total(Swept(all))
    BY <1>4, <1>5
  <2>3. supplyAmount[a] + amount \in Nat /\ unlocked \in Nat
    BY <1>1, <2>1, <2>2
  <2>4. supplyAmount[a] + amount
          = unlockedSupplyAmount[a] + Total(Sweepable(all)) + Total(Swept(all))
    BY ONLY amount \in Nat, <2>1, <2>2
  <2> QED
    BY <2>3, <2>4
<1>7. ASSUME NEW t \in Nat, t >= now
      PROVE  redeemed[a] + unlocked + Due(Swept(all), t) <= Due(made, t)
  <2>1. /\ redeemed[a] \in Nat /\ unlockedSupplyAmount[a] \in Nat
        /\ redeemed[a] + unlockedSupplyAmount[a] + Due(old, t) <= Due(deposits[a], t)
    BY <1>7, AccountFacts
  <2>2. /\ Due(all, t) = Total(Sweepable(all)) + Due(Swept(all), t)
        /\ Due(Swept(all), t) \in Nat /\ Total(Sweepable(all)) \in Nat
    BY <1>5, <1>7
  <2>3. /\ Due(all, t) - Due(old, t) = Due(made, t) - Due(deposits[a], t)
        /\ Due(all, t) \in Nat /\ Due(made, t) \in Nat
        /\ Due(old, t) \in Nat /\ Due(deposits[a], t) \in Nat
    BY <1>4
  <2> QED
    BY <2>1, <2>2, <2>3
<1> HIDE DEF unlocked
<1>8. /\ redeemed' = [redeemed EXCEPT ![a] = redeemed[a]]
      /\ totalSupplies' = totalSupplies - supplyAmount[a] + (supplyAmount[a] + amount)
      /\ redeemed[a] \in Nat
  BY <1>1, <1>2, AccountFacts DEF StakeInv, StakeTypes
<1>9. /\ supplyAmount' \in [Account -> Nat] /\ unlockedSupplyAmount' \in [Account -> Nat]
      /\ redeemed' \in [Account -> Nat] /\ totalSupplies' \in Nat
      /\ lockedSupplies' \in [Account -> Seq(LockType)]
      /\ deposits' \in [Account -> Seq(LockType)]
      /\ SupplyIsUnlockedAndLocks' /\ Matched'
  <2> DEFINE supply == supplyAmount[a] + amount
             locks == Swept(all)
             paid == redeemed[a]
  <2>1. /\ supply \in Nat /\ unlocked \in Nat /\ paid \in Nat
        /\ locks \in Seq(LockType) /\ made \in Seq(LockType)
        /\ supplyAmount' = [supplyAmount EXCEPT ![a] = supply]
        /\ lockedSupplies' = [lockedSupplies EXCEPT ![a] = locks]
        /\ redeemed' = [redeemed EXCEPT ![a] = paid]
        /\ totalSupplies' = totalSupplies - supplyAmount[a] + supply
        /\ supply = unlocked + Total(locks)
        /\ \A t \in Nat : t >= now => paid + unlocked + Due(locks, t) <= Due(made, t)
    BY <1>2, <1>4, <1>5, <1>6, <1>7, <1>8
  <2> HIDE DEF supply, locks, paid
  <2> QED
    BY <1>2, <2>1, AccountStep
<1>10. /\ slashedTokenAmount' \in Nat /\ now' \in Nat /\ lockDuration' \in Nat
       /\ earlyRedeemPenalty' \in Nat
  BY <1>1, <1>2 DEF StakeInv, StakeTypes
<1>11. wallets' \in [Account -> Nat] /\ balance' \in [Token -> Nat] /\ SupplyBounds'
  <2>1. /\ -amount \in Int /\ -amount <= balance[StakedToken]
        /\ -(-amount) <= wallets[a]
    BY <1>1, <1>2, SupplyFacts, AccountFacts DEF StakeInv
  <2> QED
    BY <1>2, <2>1, MoveStep
<1> QED
  BY <1>9, <1>10, <1>11 DEF StakeInv, StakeTypes

LEMMA RedeemKeeps ==
  ASSUME StakeInv, NEW a \in Account, NEW amount \in Amounts, Redeem(a, amount)
  PROVE  StakeInv'
<1> DEFINE old   == lockedSupplies[a]
           locks == Swept(old)
           supply == supplyAmount[a] - amount
           unlocked == Redeemable(a) - amount
           paid == redeemed[a] + amount
<1>1. amount \in Nat /\ amount <= supplyAmount[a] /\ amount <= Redeemable(a)
      /\ amount <= balance[StakedToken]
  BY StakingAssumption DEF Redeem
<1>2. /\ now' = now
      /\ UNCHANGED <<lockDuration, earlyRedeemPenalty, slashedTokenAmount, deposits>>
      /\ totalSupplies' = totalSupplies - amount
      /\ supplyAmount' = [supplyAmount EXCEPT ![a] = supply]
      /\ lockedSupplies' = [lockedSupplies EXCEPT ![a] = locks]
      /\ unlockedSupplyAmount' = [unlockedSupplyAmount EXCEPT ![a] = unlocked]
      /\ MoveStakedToken(a, amount)
      /\ redeemed' = [redeemed EXCEPT ![a] = paid]
  BY DEF Redeem, settingVars
<1>3. /\ now \in Nat /\ old \in Seq(LockType) /\ deposits[a] \in Seq(LockType)
      /\ supplyAmount[a] \in Nat /\ unlockedSupplyAmount[a] \in Nat
      /\ wallets[a] \in Nat /\ redeemed[a] \in Nat
      /\ supplyAmount[a] = unlockedSupplyAmount[a] + Total(old)
  BY AccountFacts
<1>4. /\ locks \in Seq(LockType) /\ Total(Sweepable(old)) \in Nat /\ Total(locks) \in Nat
      /\ Total(old) = Total(Sweepable(old)) + Total(locks)
      /\ \A t : Due(locks, t) \in Nat
      /\ \A t \in Nat : t >= now => Due(old, t) = Total(Sweepable(old)) + Due(locks, t)
  BY <1>3, SweepSum, TotalIs
<1>5. Redeemable(a) = unlockedSupplyAmount[a] + Total(Sweepable(old))
  BY DEF Redeemable
<1>6. /\ supply \in Nat /\ unlocked \in Nat /\ paid \in Nat
      /\ supply = unlocked + Total(locks)
  <2>1. /\ Total(Sweepable(old)) \in Nat /\ Total(locks) \in Nat
        /\ Total(old) = Total(Sweepable(old)) + Total(locks)
    BY <1>4
  <2> DEFINE able == Redeemable(a)
  <2>2. able \in Nat /\ able + Total(locks) = supplyAmount[a]
    BY <1>3, <1>5, <2>1
  <2>3. amount <= able
    BY <1>1
  <2>4. unlocked = able - amount
    OBVIOUS
  <2>5. unlocked \in Nat /\ paid \in Nat
    <3> HIDE DEF able, unlocked, locks
    <3> QED
      BY <1>1, <1>3, <2>2, <2>3, <2>4
  <2>6. supply \in Nat
    BY <1>1, <1>3
  <2>7. supply = able - amount + Total(locks)
    <3> DEFINE rest == Total(locks)
    <3>1. rest \in Nat /\ able + rest = supplyAmount[a]
      BY <2>1, <2>2
    <3> HIDE DEF able, rest
    <3>2. supplyAmount[a] - amount = able - amount + rest
      BY <1>1, <2>2, <3>1
    <3> QED
      BY <3>2 DEF rest
  <2> QED
    BY <2>4, <2>5, <2>6, <2>7
<1>7. ASSUME NEW t \in Nat, t >= now
      PROVE  paid + unlocked + Due(locks, t) <= Due(deposits[a], t)
  <2>1. redeemed[a] + unlockedSupplyAmount[a] + Due(old, t) <= Due(deposits[a], t)
    BY <1>7, AccountFacts
  <2>2. Due(old, t) = Total(Sweepable(old)) + Due(locks, t) /\ Due(locks, t) \in Nat
    BY <1>4, <1>7
  <2>3. Due(deposits[a], t) \in Nat
    BY <1>3, TotalIs
  <2> QED
    BY <1>1, <1>3, <1>4, <1>5, <2>1, <2>2, <2>3, SMTT(30)
<1>8. /\ deposits' = [deposits EXCEPT ![a] = deposits[a]]
      /\ totalSupplies' = totalSupplies - supplyAmount[a] + supply
  BY <1>1, <1>2, <1>3 DEF StakeInv, StakeTypes
<1>9. /\ slashedTokenAmount' \in Nat /\ now' \in Nat /\ lockDuration' \in Nat
      /\ earlyRedeemPenalty' \in Nat
      /\ wallets' \in [Account -> Nat] /\ balance' \in [Token -> Nat] /\ SupplyBounds'
  <2>1. amount \in Int /\ -amount <= wallets[a] /\ amount <= balance[StakedToken]
    BY <1>1, <1>3
  <2>2. wallets' \in [Account -> Nat] /\ balance' \in [Token -> Nat] /\ SupplyBounds'
    BY <1>2, <2>1, MoveStep
  <2> QED
    BY <1>1, <1>2, <2>2 DEF StakeInv, StakeTypes
<1> HIDE DEF supply, locks, paid, unlocked
<1>10. /\ supplyAmount' \in [Account -> Nat] /\ unlockedSupplyAmount' \in [Account -> Nat]
       /\ redeemed' \in [Account -> Nat] /\ totalSupplies' \in Nat
       /\ lockedSupplies' \in [Account -> Seq(LockType)]
       /\ deposits' \in [Account -> Seq(LockType)]
       /\ SupplyIsUnlockedAndLocks' /\ Matched'
  BY <1>2, <1>3, <1>4, <1>6, <1>7, <1>8, AccountStep
<1> QED
  BY <1>9, <1>10 DEF StakeInv, StakeTypes

\* A penalty beyond the amount makes the payment wrap around, to more than there
\* is of the token: whatever the penalty, what is paid is what is left of the amount.
LEMMA PaidIsLeft ==
  ASSUME StakeInv, NEW amount \in Nat, amount * earlyRedeemPenalty < WordSize,
         AfterPenalty(amount) <= balance[StakedToken]
  PROVE  /\ Penalty(amount) \in Nat
         /\ AfterPenalty(amount) = amount - Penalty(amount)
         /\ AfterPenalty(amount) \in Nat
<1> DEFINE S == PenaltyScale
           x == amount * earlyRedeemPenalty
           p == x \div S
<1>1. S \in Nat /\ S >= 2 /\ earlyRedeemPenalty \in Nat /\ WordSize \in Nat
  BY StakingAssumption DEF StakeInv, StakeTypes
<1>2. x \in Nat /\ x < WordSize
  BY <1>1, NatTimes
<1>3. Penalty(amount) = p
  BY DEF Penalty
<1>4. AfterPenalty(amount) = IF amount - p < 0 THEN amount - p + WordSize ELSE amount - p
  BY DEF AfterPenalty
<1> HIDE DEF S, x
<1>5. p \in Nat /\ S * p <= x
  BY <1>1, <1>2, SMT
<1>6. 2 * p <= S * p
  BY <1>1, <1>5, SMT
<1> HIDE DEF p
<1>7. S * p \in Int
  BY <1>1, <1>5, TimesInt
<1> DEFINE y == S * p
<1>8. y \in Int /\ y <= x /\ 2 * p <= y
  BY <1>5, <1>6, <1>7
<1> HIDE DEF y
<1>9. 2 * p < WordSize
  BY <1>1, <1>2, <1>5, <1>8
<1>10. 2 * balance[StakedToken] <= WordSize
  BY SupplyFacts DEF StakeInv, SupplyBounds
<1>11. balance[StakedToken] \in Nat
  BY SupplyFacts DEF StakeInv
<1>12. ~ (amount - p < 0)
  BY <1>1, <1>4, <1>5, <1>9, <1>10, <1>11
<1> QED
  BY <1>3, <1>4, <1>5, <1>12

LEMMA RedeemEarlyKeeps ==
  ASSUME StakeInv, NEW a \in Account, NEW amount \in Amounts, RedeemEarly(a, amount)
  PROVE  StakeInv'
<1> DEFINE old   == lockedSupplies[a]
           left  == EarlyTaken(old, amount)
           locks == Swept(left)
           supply == supplyAmount[a] - amount
           unlocked == unlockedSupplyAmount[a] + Total(Sweepable(left))
           paid == redeemed[a]
           payment == AfterPenalty(amount)
<1>1. amount \in Nat /\ amount <= supplyAmount[a] /\ amount <= LockedBalance(a)
      /\ payment <= balance[StakedToken] /\ amount * earlyRedeemPenalty < WordSize
  BY StakingAssumption DEF RedeemEarly
<1>2. /\ now' = now
      /\ UNCHANGED <<lockDuration, earlyRedeemPenalty, deposits, redeemed>>
      /\ totalSupplies' = totalSupplies - amount
      /\ supplyAmount' = [supplyAmount EXCEPT ![a] = supply]
      /\ lockedSupplies' = [lockedSupplies EXCEPT ![a] = locks]
      /\ unlockedSupplyAmount' = [unlockedSupplyAmount EXCEPT ![a] = unlocked]
      /\ slashedTokenAmount' = slashedTokenAmount + Penalty(amount)
      /\ MoveStakedToken(a, payment)
  BY DEF RedeemEarly, UpdateExpiredLocks, settingVars
<1>3. /\ now \in Nat /\ old \in Seq(LockType) /\ deposits[a] \in Seq(LockType)
      /\ supplyAmount[a] \in Nat /\ unlockedSupplyAmount[a] \in Nat
      /\ wallets[a] \in Nat /\ redeemed[a] \in Nat
      /\ supplyAmount[a] = unlockedSupplyAmount[a] + Total(old)
  BY AccountFacts
<1>4. amount <= Total(old)
  <2>1. LockedBalance(a) = supplyAmount[a] - (unlockedSupplyAmount[a] + Due(old, now))
    BY DEF LockedBalance, UnlockedBalance, Expired, Due
  <2>2. Due(old, now) \in Nat /\ Total(old) \in Nat
    BY <1>3, TotalIs
  <2> QED
    BY <1>1, <1>3, <2>1, <2>2
<1>5. /\ left \in Seq(LockType) /\ Total(left) = Total(old) - amount
      /\ \A t \in Nat : Due(left, t) <= Due(old, t)
  BY <1>1, <1>3, <1>4, EarlyTakenShape, EarlyTakenSum
<1> HIDE DEF left
<1>6. /\ locks \in Seq(LockType) /\ Total(Sweepable(left)) \in Nat /\ Total(locks) \in Nat
      /\ Total(left) = Total(Sweepable(left)) + Total(locks)
      /\ \A t : Due(locks, t) \in Nat
      /\ \A t \in Nat : t >= now => Due(left, t) = Total(Sweepable(left)) + Due(locks, t)
  BY <1>3, <1>5, SweepSum, TotalIs
<1>7. /\ supply \in Nat /\ unlocked \in Nat /\ paid \in Nat
      /\ supply = unlocked + Total(locks)
  <2>1. Total(old) \in Nat
    BY <1>3, TotalIs
  <2>2. /\ Total(Sweepable(left)) \in Nat /\ Total(locks) \in Nat
        /\ Total(old) - amount = Total(Sweepable(left)) + Total(locks)
    BY <1>5, <1>6
  <2>3. supply \in Nat /\ unlocked \in Nat /\ paid \in Nat
    BY <1>1, <1>3, <2>1, <2>2, SMTT(30)
  <2>4. supply = (unlockedSupplyAmount[a] + Total(Sweepable(left))) + Total(locks)
    BY <1>1, <1>3, <2>1, <2>2
  <2> QED
    BY <2>3, <2>4
<1>8. ASSUME NEW t \in Nat, t >= now
      PROVE  paid + unlocked + Due(locks, t) <= Due(deposits[a], t)
  <2>1. redeemed[a] + unlockedSupplyAmount[a] + Due(old, t) <= Due(deposits[a], t)
    BY <1>8, AccountFacts
  <2>2. Due(left, t) = Total(Sweepable(left)) + Due(locks, t) /\ Due(locks, t) \in Nat
        /\ Due(left, t) <= Due(old, t)
    BY <1>5, <1>6, <1>8
  <2>3. Due(deposits[a], t) \in Nat /\ Due(old, t) \in Nat
    BY <1>3, TotalIs
  <2> QED
    BY <1>3, <1>6, <2>1, <2>2, <2>3, SMTT(30)
<1>9. /\ deposits' = [deposits EXCEPT ![a] = deposits[a]]
      /\ redeemed' = [redeemed EXCEPT ![a] = paid]
      /\ totalSupplies' = totalSupplies - supplyAmount[a] + supply
  BY <1>1, <1>2, <1>3 DEF StakeInv, StakeTypes
<1>10. /\ slashedTokenAmount' \in Nat /\ now' \in Nat /\ lockDuration' \in Nat
       /\ earlyRedeemPenalty' \in Nat
       /\ wallets' \in [Account -> Nat] /\ balance' \in [Token -> Nat] /\ SupplyBounds'
  <2>1. Penalty(amount) \in Nat /\ payment \in Nat
    BY <1>1, PaidIsLeft
  <2> HIDE DEF payment
  <2>2. wallets' \in [Account -> Nat] /\ balance' \in [Token -> Nat] /\ SupplyBounds'
    <3>1. payment \in Int /\ -payment <= wallets[a]
      BY <1>3, <2>1
    <3> QED
      BY <1>1, <1>2, <3>1, MoveStep
  <2>3. slashedTokenAmount' \in Nat
    BY <1>2, <2>1 DEF StakeInv, StakeTypes
  <2> QED
    BY <1>2, <2>2, <2>3 DEF StakeInv, StakeTypes
<1> HIDE DEF supply, locks, paid, unlocked, payment
<1>11. /\ supplyAmount' \in [Account -> Nat] /\ unlockedSupplyAmount' \in [Account -> Nat]
       /\ redeemed' \in [Account -> Nat] /\ totalSupplies' \in Nat
       /\ lockedSupplies' \in [Account -> Seq(LockType)]
       /\ deposits' \in [Account -> Seq(LockType)]
       /\ SupplyIsUnlockedAndLocks' /\ Matched'
  BY <1>2, <1>3, <1>6, <1>7, <1>8, <1>9, AccountStep
<1> QED
  BY <1>10, <1>11 DEF StakeInv, StakeTypes

LEMMA ClaimKeeps ==
  ASSUME StakeInv, RewardTypes, NEW a \in Account, ClaimRewards(a)
  PROVE  StakeInv'
<1> DEFINE old   == lockedSupplies[a]
           locks == Swept(old)
           supply == supplyAmount[a]
           unlocked == unlockedSupplyAmount[a] + Total(Sweepable(old))
           paid == redeemed[a]
<1>1. /\ now' = now
      /\ UNCHANGED <<lockDuration, earlyRedeemPenalty, slashedTokenAmount, deposits, redeemed,
                     totalSupplies, supplyAmount>>
      /\ lockedSupplies' = [lockedSupplies EXCEPT ![a] = locks]
      /\ unlockedSupplyAmount' = [unlockedSupplyAmount EXCEPT ![a] = unlocked]
      /\ \A t \in Token : AmountIn(t, Pay(a)) <= balance[t]
      /\ balance' = [t \in Token |-> balance[t] - AmountIn(t, Pay(a))]
      /\ wallets' = [wallets EXCEPT ![a] = @ + AmountIn(StakedToken, Pay(a))]
  BY DEF ClaimRewards, UpdateExpiredLocks, settingVars, Pay
<1>2. /\ now \in Nat /\ old \in Seq(LockType) /\ deposits[a] \in Seq(LockType)
      /\ supplyAmount[a] \in Nat /\ unlockedSupplyAmount[a] \in Nat
      /\ redeemed[a] \in Nat
      /\ supplyAmount[a] = unlockedSupplyAmount[a] + Total(old)
  BY AccountFacts
<1>3. /\ locks \in Seq(LockType) /\ Total(Sweepable(old)) \in Nat /\ Total(locks) \in Nat
      /\ Total(old) = Total(Sweepable(old)) + Total(locks)
      /\ \A t : Due(locks, t) \in Nat
      /\ \A t \in Nat : t >= now => Due(old, t) = Total(Sweepable(old)) + Due(locks, t)
  BY <1>2, SweepSum, TotalIs
<1>4. /\ supply \in Nat /\ unlocked \in Nat /\ paid \in Nat
      /\ supply = unlocked + Total(locks)
  BY <1>2, <1>3
<1>5. ASSUME NEW t \in Nat, t >= now
      PROVE  paid + unlocked + Due(locks, t) <= Due(deposits[a], t)
  <2>1. redeemed[a] + unlockedSupplyAmount[a] + Due(old, t) <= Due(deposits[a], t)
    BY <1>5, AccountFacts
  <2>2. Due(old, t) = Total(Sweepable(old)) + Due(locks, t) /\ Due(locks, t) \in Nat
    BY <1>3, <1>5
  <2> QED
    BY <1>2, <1>3, <2>1, <2>2
<1>6. /\ deposits' = [deposits EXCEPT ![a] = deposits[a]]
      /\ redeemed' = [redeemed EXCEPT ![a] = paid]
      /\ supplyAmount' = [supplyAmount EXCEPT ![a] = supply]
      /\ totalSupplies' = totalSupplies - supplyAmount[a] + supply
  BY <1>1, <1>2 DEF StakeInv, StakeTypes
<1>7. /\ slashedTokenAmount' \in Nat /\ now' \in Nat /\ lockDuration' \in Nat
      /\ earlyRedeemPenalty' \in Nat
  BY <1>1 DEF StakeInv, StakeTypes
<1>9. wallets' \in [Account -> Nat] /\ balance' \in [Token -> Nat] /\ SupplyBounds'
  <2> DEFINE m == AmountIn(StakedToken, Pay(a))
  <2>1. \A t \in Token : AmountIn(t, Pay(a)) \in Nat
    BY PayType, AmountType
  <2>2. \A t \in Token : balance[t] - AmountIn(t, Pay(a)) \in Nat
    BY <1>1, <2>1 DEF StakeInv, StakeTypes
  <2>3. balance' \in [Token -> Nat]
    BY <1>1, <2>2
  <2>4. balance'[StakedToken] = balance[StakedToken] - m /\ m \in Nat
    BY <1>1, <2>1, StakingAssumption
  <2>5. wallets' = [wallets EXCEPT ![a] = @ + m]
    BY <1>1
  <2> HIDE DEF m
  <2>6. m \in Int /\ wallets[a] + m \in Nat
    BY <2>4, AccountFacts
  <2>7. balance'[StakedToken] <= balance[StakedToken] - m
    BY <2>4, SupplyFacts DEF StakeInv
  <2> QED
    BY <2>3, <2>5, <2>6, <2>7, WalletStep
<1> HIDE DEF supply, locks, paid, unlocked
<1>8. /\ supplyAmount' \in [Account -> Nat] /\ unlockedSupplyAmount' \in [Account -> Nat]
      /\ redeemed' \in [Account -> Nat] /\ totalSupplies' \in Nat
      /\ lockedSupplies' \in [Account -> Seq(LockType)]
      /\ deposits' \in [Account -> Seq(LockType)]
      /\ SupplyIsUnlockedAndLocks' /\ Matched'
  BY <1>1, <1>2, <1>3, <1>4, <1>5, <1>6, AccountStep
<1> QED
  BY <1>7, <1>8, <1>9 DEF StakeInv, StakeTypes

LEMMA StakeInit == Init => StakeInv
<1> SUFFICES ASSUME Init PROVE StakeInv
  OBVIOUS
<1>1. IsFiniteSet(Account) /\ FirstWallet \in [Account -> Nat]
      /\ FirstDuration \in Nat /\ FirstPenalty \in Nat
      /\ FirstBalance \in [Token -> Nat]
  BY StakingAssumption
<1>2. << >> \in Seq(LockType) /\ Len(<< >>) = 0
  BY EmptySeq
<1>3. StakeTypes
  BY <1>1, <1>2 DEF Init, StakeTypes, Zero
<1>4. Total(<< >>) = 0 /\ \A t : Due(<< >>, t) = 0
  <2>1. DOMAIN Stakes(<< >>) = {} /\ \A t : {i \in DOMAIN << >> : << >>[i].unlockTime <= t} = {}
    BY DEF Stakes
  <2> QED
    BY <2>1, SumEmpty DEF Total, Due, SumFunction
<1>5. SumFunction(supplyAmount) = 0
  BY <1>1, SumFunctionZero DEF Init, Zero
<1>6. SupplyIsUnlockedAndLocks
  BY <1>4, <1>5 DEF SupplyIsUnlockedAndLocks, Init, Zero
<1>7. Matched
  BY <1>4 DEF Matched, Init, Zero
<1>8. SupplyBounds
  <2>1. Supply \in Nat
    BY <1>3, SupplyFacts
  <2> QED
    BY <2>1 DEF Init, SupplyBounds, Supply
<1> QED
  BY <1>3, <1>6, <1>7, <1>8 DEF StakeInv

\* Nothing but the calls of the users changes an account's books; later, fewer
\* times are left for a mismatch.
LEMMA StakeQuiet ==
  ASSUME StakeInv,
         UNCHANGED <<supplyAmount, totalSupplies, unlockedSupplyAmount, lockedSupplies,
                     wallets, deposits, redeemed>>,
         now' \in Nat, now' >= now, lockDuration' \in Nat,
         earlyRedeemPenalty' \in Nat, slashedTokenAmount' \in Nat,
         balance' \in [Token -> Nat], balance'[StakedToken] <= balance[StakedToken]
  PROVE  StakeInv'
<1>1. StakeTypes'
  BY DEF StakeInv, StakeTypes
<1>4. SupplyBounds'
  <2>1. /\ Supply \in Nat /\ SumFunction(wallets) \in Nat /\ balance[StakedToken] \in Nat
        /\ balance'[StakedToken] \in Nat
    BY SupplyFacts DEF StakeInv
  <2> QED
    BY <2>1 DEF StakeInv, SupplyBounds
<1>2. SupplyIsUnlockedAndLocks'
  BY DEF StakeInv, SupplyIsUnlockedAndLocks
<1>3. Matched'
  <2>1. \A t \in Nat : t >= now' => t >= now
    BY DEF StakeInv, StakeTypes
  <2> QED
    BY <2>1 DEF StakeInv, Matched
<1> QED
  BY <1>1, <1>2, <1>3, <1>4 DEF StakeInv

LEMMA StakeStep == StakeInv /\ RewardTypes /\ [Next]_vars => StakeInv'
<1> SUFFICES ASSUME StakeInv, RewardTypes, [Next]_vars PROVE StakeInv'
  OBVIOUS
<1>1. CASE UserCall
  BY <1>1, DepositKeeps, RedeemKeeps, RedeemEarlyKeeps, ClaimKeeps DEF UserCall
<1> DEFINE Books == <<supplyAmount, totalSupplies, unlockedSupplyAmount, lockedSupplies,
                      wallets, deposits, redeemed>>
<1>0. /\ now \in Nat /\ lockDuration \in Nat /\ earlyRedeemPenalty \in Nat
      /\ slashedTokenAmount \in Nat /\ balance \in [Token -> Nat]
      /\ StakedToken \in Token /\ balance[StakedToken] \in Nat
      /\ balance[StakedToken] <= balance[StakedToken]
  BY SupplyFacts DEF StakeInv, StakeTypes
<1>2. CASE AdminCall
  <2>1. CASE \/ \E count \in RewardCounts : SetRewardTokenCount(count)
             \/ \E i \in Rewards, speed \in Speeds : SetRewardSpeed(i, speed)
    <3>1. /\ UNCHANGED Books
          /\ UNCHANGED <<now, lockDuration, earlyRedeemPenalty, slashedTokenAmount, balance>>
      BY <2>1 DEF SetRewardTokenCount, SetRewardSpeed, settingVars, stakeVars, tokenVars,
                  historyVars
    <3> QED
      BY <1>0, <3>1, StakeQuiet
  <2>2. CASE \E duration \in Durations : SetLockDuration(duration)
    <3>1. /\ UNCHANGED Books
          /\ UNCHANGED <<now, earlyRedeemPenalty, slashedTokenAmount, balance>>
          /\ lockDuration' \in Durations
      BY <2>2 DEF SetLockDuration, stakeVars, tokenVars, historyVars
    <3>2. lockDuration' \in Nat
      BY <3>1, StakingAssumption
    <3> QED
      BY <1>0, <3>1, <3>2, StakeQuiet
  <2>3. CASE \E penalty \in Penalties : SetEarlyRedeemPenalty(penalty)
    <3>1. /\ UNCHANGED Books
          /\ UNCHANGED <<now, lockDuration, slashedTokenAmount, balance>>
          /\ earlyRedeemPenalty' \in Penalties
      BY <2>3 DEF SetEarlyRedeemPenalty, stakeVars, tokenVars, historyVars
    <3>2. earlyRedeemPenalty' \in Nat
      BY <3>1, StakingAssumption
    <3> QED
      BY <1>0, <3>1, <3>2, StakeQuiet
  <2>4. CASE \E amount \in AdminAmounts : WithdrawSlashedTokens(amount)
    <3>1. PICK amount \in AdminAmounts : WithdrawSlashedTokens(amount)
      BY <2>4
    <3>2. amount \in Nat
      BY StakingAssumption
    <3>3. /\ UNCHANGED Books
          /\ UNCHANGED <<now, lockDuration, earlyRedeemPenalty>>
          /\ amount <= slashedTokenAmount /\ amount <= balance[StakedToken]
          /\ slashedTokenAmount' = slashedTokenAmount - amount
          /\ balance' = [balance EXCEPT ![StakedToken] = @ - amount]
      BY <3>1 DEF WithdrawSlashedTokens, settingVars, historyVars
    <3>4. slashedTokenAmount' \in Nat /\ balance[StakedToken] - amount \in Nat
      BY <1>0, <3>2, <3>3
    <3>5. balance' \in [Token -> Nat] /\ balance'[StakedToken] <= balance[StakedToken]
      BY <1>0, <3>2, <3>3, <3>4
    <3> QED
      BY <1>0, <3>3, <3>4, <3>5, StakeQuiet
  <2>5. CASE \E t \in Token, amount \in AdminAmounts : EmergencyWithdraw(t, amount)
    <3>1. PICK t \in Token, amount \in AdminAmounts : EmergencyWithdraw(t, amount)
      BY <2>5
    <3>2. amount \in Nat
      BY StakingAssumption
    <3>3. /\ UNCHANGED Books
          /\ UNCHANGED <<now, lockDuration, earlyRedeemPenalty, slashedTokenAmount>>
          /\ amount <= balance[t] /\ balance' = [balance EXCEPT ![t] = @ - amount]
      BY <3>1 DEF EmergencyWithdraw, settingVars, stakeVars
    <3>5. balance[t] \in Nat /\ balance[t] - amount \in Nat
      BY <1>0, <3>2, <3>3
    <3>4. balance' \in [Token -> Nat] /\ balance'[StakedToken] <= balance[StakedToken]
      BY <1>0, <3>2, <3>3, <3>5
    <3> QED
      BY <1>0, <3>3, <3>4, StakeQuiet
  <2> QED
    BY <1>2, <2>1, <2>2, <2>3, <2>4, <2>5 DEF AdminCall
<1>3. CASE AdvanceTime \/ UNCHANGED vars
  <2>1. /\ UNCHANGED Books
        /\ UNCHANGED <<lockDuration, earlyRedeemPenalty, slashedTokenAmount, balance>>
        /\ now' = now \/ now' = now + 1
    BY <1>3 DEF AdvanceTime, vars, settingVars, stakeVars, tokenVars, historyVars
  <2> QED
    BY <1>0, <2>1, StakeQuiet
<1> QED
  BY <1>1, <1>2, <1>3 DEF Next

-----------------------------------------------------------------------------
(* The rewards.                                                            *)

LEMMA SettleTypes ==
  ASSUME StakeInv, RewardTypes, NEW a \in Account, SettleIndex(a), now' = now
  PROVE  /\ accrualTime' \in 0..now' /\ rewardIndex' \in [Rewards -> Nat]
         /\ supplierRewardIndex' \in [Account -> [Rewards -> Nat]]
         /\ \A b \in Account, i \in Rewards : supplierRewardIndex'[b][i] <= rewardIndex'[i]
<1> DEFINE old  == supplierRewardIndex[a]
           mine == [i \in Rewards |-> IF i \in Paying THEN IndexAfter(a, i) ELSE old[i]]
<1>1. /\ accrualTime' = now /\ rewardIndex' = IndexNow
      /\ supplierRewardIndex' = [supplierRewardIndex EXCEPT ![a] = mine]
  BY DEF SettleIndex, Accrue
<1>2. /\ IndexNow \in [Rewards -> Nat]
      /\ \A i \in Rewards : rewardIndex[i] <= IndexNow[i]
      /\ \A i \in Rewards : rewardIndex[i] \in Nat
      /\ now \in Nat
  BY IndexGrows DEF RewardTypes, StakeInv, StakeTypes
<1>3. mine \in [Rewards -> Nat] /\ \A i \in Rewards : mine[i] <= IndexNow[i]
  <2>1. \A i \in Rewards : old[i] \in Nat /\ old[i] <= rewardIndex[i]
    BY DEF RewardTypes
  <2> QED
    BY <1>2, <2>1 DEF IndexAfter
<1> HIDE DEF mine
<1>4. supplierRewardIndex' \in [Account -> [Rewards -> Nat]]
  BY <1>1, <1>3 DEF RewardTypes
<1>5. ASSUME NEW b \in Account, NEW i \in Rewards
      PROVE  supplierRewardIndex'[b][i] <= rewardIndex'[i]
  <2>1. CASE b = a
    BY <1>1, <1>3, <2>1 DEF RewardTypes
  <2>2. CASE b # a
    <3>1. supplierRewardIndex'[b] = supplierRewardIndex[b]
      BY <1>1, <2>2 DEF RewardTypes
    <3>2. supplierRewardIndex[b][i] \in Nat /\ supplierRewardIndex[b][i] <= rewardIndex[i]
      BY DEF RewardTypes
    <3> QED
      BY <1>1, <1>2, <3>1, <3>2
  <2> QED
    BY <2>1, <2>2
<1> QED
  BY <1>1, <1>2, <1>4, <1>5

LEMMA RewardInit == Init => RewardTypes
BY StakingAssumption DEF Init, RewardTypes, NoRewards

LEMMA RewardStep == StakeInv /\ RewardTypes /\ [Next]_vars => RewardTypes'
<1> SUFFICES ASSUME StakeInv, RewardTypes, [Next]_vars PROVE RewardTypes'
  OBVIOUS
<1>0. now \in Nat /\ rewardTokenCount \in 0..MaxRewards /\ MaxRewards \in Nat
  BY StakingAssumption DEF StakeInv, StakeTypes, RewardTypes
<1>1. ASSUME NEW a \in Account, NEW amount \in Amounts,
             Deposit(a, amount) \/ Redeem(a, amount) \/ RedeemEarly(a, amount)
      PROVE  RewardTypes'
  <2>1. /\ SettleIndex(a) /\ accruedReward' = [accruedReward EXCEPT ![a] = AccruedNow(a)]
        /\ UNCHANGED <<now, rewardTokenCount, rewardSpeeds>>
    BY <1>1 DEF Deposit, Redeem, RedeemEarly, DistributeReward, settingVars
  <2>2. accruedReward' \in [Account -> [Rewards -> Nat]]
    BY <2>1, AccruedType DEF RewardTypes
  <2>3. /\ accrualTime' \in 0..now' /\ rewardIndex' \in [Rewards -> Nat]
        /\ supplierRewardIndex' \in [Account -> [Rewards -> Nat]]
        /\ \A b \in Account, i \in Rewards : supplierRewardIndex'[b][i] <= rewardIndex'[i]
    BY <2>1, SettleTypes
  <2> QED
    BY <2>1, <2>2, <2>3 DEF RewardTypes
<1>2. ASSUME NEW a \in Account, ClaimRewards(a)
      PROVE  RewardTypes'
  <2> DEFINE rest == [i \in Rewards |-> AccruedNow(a)[i] - Pay(a)[i]]
  <2>1. /\ SettleIndex(a) /\ accruedReward' = [accruedReward EXCEPT ![a] = rest]
        /\ UNCHANGED <<now, rewardTokenCount, rewardSpeeds>>
    BY <1>2 DEF ClaimRewards, settingVars, Pay
  <2>3. rest \in [Rewards -> Nat]
    BY PayType
  <2> HIDE DEF rest
  <2>4. accruedReward' \in [Account -> [Rewards -> Nat]]
    BY <2>1, <2>3 DEF RewardTypes
  <2>5. /\ accrualTime' \in 0..now' /\ rewardIndex' \in [Rewards -> Nat]
        /\ supplierRewardIndex' \in [Account -> [Rewards -> Nat]]
        /\ \A b \in Account, i \in Rewards : supplierRewardIndex'[b][i] <= rewardIndex'[i]
    BY <2>1, SettleTypes
  <2> QED
    BY <2>1, <2>4, <2>5 DEF RewardTypes
<1>3. CASE \E count \in RewardCounts : SetRewardTokenCount(count)
  <2>1. rewardTokenCount' \in 0..MaxRewards
    BY <1>3, StakingAssumption DEF SetRewardTokenCount
  <2> QED
    BY <1>3, <2>1 DEF SetRewardTokenCount, RewardTypes, indexVars, rewardVars, tokenVars
<1>4. ASSUME NEW i \in Rewards, NEW speed \in Speeds, SetRewardSpeed(i, speed)
      PROVE  RewardTypes'
  <2>1. /\ rewardSpeeds' = [rewardSpeeds EXCEPT ![i] = speed]
        /\ UNCHANGED <<now, rewardTokenCount, accruedReward, supplierRewardIndex>>
        /\ \/ accrualTime' = now /\ rewardIndex' = IndexNow
           \/ accrualTime' = accrualTime /\ rewardIndex' = rewardIndex
    BY <1>4 DEF SetRewardSpeed, Accrue, settingVars, rewardVars, tokenVars
  <2>2. rewardSpeeds' \in [Rewards -> Nat]
    BY <2>1, StakingAssumption DEF RewardTypes
  <2>3. /\ rewardIndex' \in [Rewards -> Nat] /\ accrualTime' \in 0..now'
        /\ \A j \in Rewards : rewardIndex[j] <= rewardIndex'[j]
    BY <1>0, <2>1, IndexGrows DEF RewardTypes
  <2>4. \A a \in Account, j \in Rewards : supplierRewardIndex[a][j] <= rewardIndex'[j]
    <3> TAKE a \in Account, j \in Rewards
    <3>1. /\ supplierRewardIndex[a][j] \in Nat /\ rewardIndex[j] \in Nat
          /\ supplierRewardIndex[a][j] <= rewardIndex[j]
      BY DEF RewardTypes
    <3> QED
      BY <2>3, <3>1
  <2> QED
    BY <2>1, <2>2, <2>3, <2>4 DEF RewardTypes
<1>5. CASE \/ \E duration \in Durations : SetLockDuration(duration)
           \/ \E penalty \in Penalties : SetEarlyRedeemPenalty(penalty)
           \/ \E amount \in AdminAmounts : WithdrawSlashedTokens(amount)
           \/ \E t \in Token, amount \in AdminAmounts : EmergencyWithdraw(t, amount)
           \/ UNCHANGED vars
  BY <1>5 DEF SetLockDuration, SetEarlyRedeemPenalty, WithdrawSlashedTokens, EmergencyWithdraw,
              vars, settingVars, indexVars, rewardVars, tokenVars, RewardTypes
<1>6. CASE AdvanceTime
  <2>1. now' = now + 1 /\ UNCHANGED <<settingVars, indexVars, rewardVars, tokenVars>>
    BY <1>6 DEF AdvanceTime
  <2> QED
    BY <1>0, <2>1 DEF settingVars, indexVars, rewardVars, tokenVars, RewardTypes
<1> QED
  BY <1>1, <1>2, <1>3, <1>4, <1>5, <1>6 DEF Next, UserCall, AdminCall

StakingInv == StakeInv /\ RewardTypes

LEMMA StakingInit == Init => StakingInv
BY StakeInit, RewardInit DEF StakingInv

LEMMA StakingStep == StakingInv /\ [Next]_vars => StakingInv'
BY StakeStep, RewardStep DEF StakingInv

\* Every stake is what is unlocked and what is locked, however deposits, partial
\* early redemptions and sweeps follow each other, and the stakes are the total.
THEOREM StakesAddUp == Spec => []SupplyIsUnlockedAndLocks
<1>1. StakingInv => SupplyIsUnlockedAndLocks
  BY DEF StakingInv, StakeInv
<1> QED
  BY <1>1, StakingInit, StakingStep, PTL DEF Spec

\* redeem never pays more than the deposits of the account whose time has come,
\* though it looks only at the front of the queue of locks.
THEOREM RedeemsAreMatured == Spec => []MaturedOnly
<1>1. StakingInv => MaturedOnly
  <2> SUFFICES ASSUME StakingInv, NEW a \in Account
               PROVE  redeemed[a] <= Expired(deposits[a])
    BY DEF MaturedOnly
  <2>1. /\ now \in Nat /\ redeemed[a] \in Nat /\ unlockedSupplyAmount[a] \in Nat
        /\ lockedSupplies[a] \in Seq(LockType) /\ deposits[a] \in Seq(LockType)
        /\ redeemed[a] + unlockedSupplyAmount[a] + Due(lockedSupplies[a], now)
             <= Due(deposits[a], now)
    BY AccountFacts DEF StakingInv
  <2>2. Due(lockedSupplies[a], now) \in Nat /\ Due(deposits[a], now) \in Nat
    BY <2>1, TotalIs
  <2>3. Expired(deposits[a]) = Due(deposits[a], now)
    BY DEF Expired, Due
  <2> QED
    BY <2>1, <2>2, <2>3
<1> QED
  BY <1>1, StakingInit, StakingStep, PTL DEF Spec

\* No amount ever goes below zero, whatever the penalty: not a stake, a lock taken
\* in part, a balance paid from, or an index behind the one it is measured from.
THEOREM StakingTypes == Spec => []StakingTypeOK
<1>1. StakingInv => StakingTypeOK
  <2> SUFFICES ASSUME StakeInv, RewardTypes PROVE StakingTypeOK
    BY DEF StakingInv
  <2>1. \A a \in Account : \A i \in DOMAIN lockedSupplies[a] : lockedSupplies[a][i] \in LockType
    BY LenProperties DEF StakeInv, StakeTypes
  <2> QED
    BY <2>1 DEF StakeInv, StakeTypes, RewardTypes, StakingTypeOK
<1> QED
  BY <1>1, StakingInit, StakingStep, PTL DEF Spec

-----------------------------------------------------------------------------
(* Where every token is.                                                   *)

Accounted ==
  /\ taken \in [Token -> Nat] /\ claimed \in [Rewards -> Nat]
  /\ TokensAccounted

LEMMA AccountedInit == Init => Accounted
<1> SUFFICES ASSUME Init PROVE Accounted
  OBVIOUS
<1>1. /\ taken = [t \in Token |-> 0] /\ claimed = [i \in Rewards |-> 0]
      /\ balance = FirstBalance /\ totalSupplies = 0 /\ slashedTokenAmount = 0
  BY DEF Init, NoRewards
<1>2. \A t \in Token : FirstBalance[t] \in Nat
  BY StakingAssumption
<1>3. \A t \in Token : AmountIn(t, claimed) = 0
  BY <1>1, AmountZero
<1> QED
  BY <1>1, <1>2, <1>3 DEF Accounted, TokensAccounted

\* A call that moves as much of the staked token as it takes off the books.
LEMMA AccountedMove ==
  ASSUME StakeInv, Accounted, NEW m \in Int,
         balance' = [balance EXCEPT ![StakedToken] = @ - m],
         totalSupplies' + slashedTokenAmount' = totalSupplies + slashedTokenAmount - m,
         UNCHANGED <<taken, claimed>>
  PROVE  Accounted'
<1>1. ASSUME NEW t \in Token
      PROVE  balance'[t] + taken'[t] + AmountIn(t, claimed')
               = FirstBalance[t] + IF t = StakedToken THEN totalSupplies' + slashedTokenAmount'
                                   ELSE 0
  <2>1. /\ balance[t] \in Nat /\ taken[t] \in Nat /\ AmountIn(t, claimed) \in Nat
        /\ totalSupplies \in Nat /\ slashedTokenAmount \in Nat /\ FirstBalance[t] \in Nat
    BY AmountType, StakingAssumption DEF StakeInv, StakeTypes, Accounted
  <2>2. balance[t] + taken[t] + AmountIn(t, claimed)
          = FirstBalance[t] + IF t = StakedToken THEN totalSupplies + slashedTokenAmount ELSE 0
    BY DEF Accounted, TokensAccounted
  <2>3. balance'[t] = IF t = StakedToken THEN balance[t] - m ELSE balance[t]
    BY DEF StakeInv, StakeTypes
  <2>4. AmountIn(t, claimed') = AmountIn(t, claimed) /\ taken'[t] = taken[t]
    OBVIOUS
  <2> QED
    BY <2>1, <2>2, <2>3, <2>4
<1> QED
  BY <1>1 DEF Accounted, TokensAccounted

LEMMA AccountedStep == StakingInv /\ Accounted /\ [Next]_vars => Accounted'
<1> SUFFICES ASSUME StakeInv, RewardTypes, Accounted, [Next]_vars PROVE Accounted'
  BY DEF StakingInv
<1>0. /\ totalSupplies \in Nat /\ slashedTokenAmount \in Nat
      /\ balance \in [Token -> Nat] /\ taken \in [Token -> Nat] /\ claimed \in [Rewards -> Nat]
  BY DEF StakeInv, StakeTypes, Accounted
<1>1. ASSUME NEW a \in Account, NEW amount \in Amounts,
             Deposit(a, amount) \/ Redeem(a, amount) \/ RedeemEarly(a, amount)
      PROVE  Accounted'
  <2>1. amount \in Nat
    BY StakingAssumption
  <2>2. CASE Deposit(a, amount)
    <3>1. /\ balance' = [balance EXCEPT ![StakedToken] = @ - (-amount)]
          /\ totalSupplies' = totalSupplies + amount
          /\ UNCHANGED <<taken, claimed, slashedTokenAmount>>
      BY <2>2 DEF Deposit, MoveStakedToken
    <3> DEFINE m == -amount
    <3>2. m \in Int /\ totalSupplies' + slashedTokenAmount' = totalSupplies + slashedTokenAmount - m
      BY <1>0, <2>1, <3>1
    <3>3. balance' = [balance EXCEPT ![StakedToken] = @ - m]
      BY <3>1
    <3> HIDE DEF m
    <3> QED
      BY <3>1, <3>2, <3>3, AccountedMove
  <2>3. CASE Redeem(a, amount)
    <3>1. /\ balance' = [balance EXCEPT ![StakedToken] = @ - amount]
          /\ totalSupplies' = totalSupplies - amount
          /\ UNCHANGED <<taken, claimed, slashedTokenAmount>>
      BY <2>3 DEF Redeem, MoveStakedToken
    <3>2. amount \in Int
          /\ totalSupplies' + slashedTokenAmount' = totalSupplies + slashedTokenAmount - amount
      BY <1>0, <2>1, <3>1
    <3> QED
      BY <3>1, <3>2, AccountedMove
  <2>4. CASE RedeemEarly(a, amount)
    <3> DEFINE payment == AfterPenalty(amount)
    <3>1. /\ balance' = [balance EXCEPT ![StakedToken] = @ - payment]
          /\ totalSupplies' = totalSupplies - amount
          /\ slashedTokenAmount' = slashedTokenAmount + Penalty(amount)
          /\ payment <= balance[StakedToken] /\ amount * earlyRedeemPenalty < WordSize
          /\ UNCHANGED <<taken, claimed>>
      BY <2>4 DEF RedeemEarly, MoveStakedToken
    <3>2. /\ payment = amount - Penalty(amount) /\ payment \in Nat
          /\ Penalty(amount) \in Nat
      BY <2>1, <3>1, PaidIsLeft
    <3> HIDE DEF payment
    <3>3. payment \in Int
          /\ totalSupplies' + slashedTokenAmount' = totalSupplies + slashedTokenAmount - payment
      BY <1>0, <2>1, <3>1, <3>2
    <3> QED
      BY <3>1, <3>3, AccountedMove
  <2> QED
    BY <1>1, <2>2, <2>3, <2>4
<1>2. ASSUME NEW a \in Account, ClaimRewards(a)
      PROVE  Accounted'
  <2>1. /\ balance' = [t \in Token |-> balance[t] - AmountIn(t, Pay(a))]
        /\ claimed' = [i \in Rewards |-> claimed[i] + Pay(a)[i]]
        /\ UNCHANGED <<taken, totalSupplies, slashedTokenAmount>>
    BY <1>2 DEF ClaimRewards, Pay
  <2>2. \A i \in Rewards : Pay(a)[i] \in Nat /\ claimed[i] \in Nat
    BY <1>0, PayType
  <2>3. claimed' \in [Rewards -> Nat]
    BY <2>1, <2>2
  <2>4. ASSUME NEW t \in Token
        PROVE  balance'[t] + taken'[t] + AmountIn(t, claimed')
                 = balance[t] + taken[t] + AmountIn(t, claimed)
    <3>1. AmountIn(t, claimed') = AmountIn(t, claimed) + AmountIn(t, Pay(a))
      BY <2>1, <2>2, AmountAdds
    <3>2. AmountIn(t, claimed) \in Nat /\ AmountIn(t, Pay(a)) \in Nat
      BY <2>2, AmountType
    <3>3. balance'[t] = balance[t] - AmountIn(t, Pay(a)) /\ taken'[t] = taken[t]
          /\ balance[t] \in Nat /\ taken[t] \in Nat
      BY <1>0, <2>1
    <3> QED
      BY <3>1, <3>2, <3>3
  <2>5. TokensAccounted'
    BY <2>1, <2>4 DEF Accounted, TokensAccounted
  <2> QED
    BY <1>0, <2>1, <2>3, <2>5 DEF Accounted
<1>3. ASSUME NEW amount \in AdminAmounts, WithdrawSlashedTokens(amount)
      PROVE  Accounted'
  <2>1. /\ balance' = [balance EXCEPT ![StakedToken] = @ - amount]
        /\ slashedTokenAmount' = slashedTokenAmount - amount
        /\ UNCHANGED <<taken, claimed, totalSupplies>>
    BY <1>3 DEF WithdrawSlashedTokens, historyVars
  <2>2. amount \in Int
        /\ totalSupplies' + slashedTokenAmount' = totalSupplies + slashedTokenAmount - amount
    BY <1>0, <2>1, StakingAssumption
  <2> QED
    BY <2>1, <2>2, AccountedMove
<1>4. ASSUME NEW t \in Token, NEW amount \in AdminAmounts, EmergencyWithdraw(t, amount)
      PROVE  Accounted'
  <2>1. /\ balance' = [balance EXCEPT ![t] = @ - amount]
        /\ taken' = [taken EXCEPT ![t] = @ + amount]
        /\ UNCHANGED <<claimed, totalSupplies, slashedTokenAmount>>
    BY <1>4 DEF EmergencyWithdraw, stakeVars
  <2>2. amount \in Nat
    BY StakingAssumption
  <2>3. taken' \in [Token -> Nat]
    BY <1>0, <2>1, <2>2
  <2>4. \A u \in Token : balance'[u] + taken'[u] = balance[u] + taken[u]
    BY <1>0, <2>1, <2>2
  <2>5. TokensAccounted'
    BY <2>1, <2>4 DEF Accounted, TokensAccounted
  <2> QED
    BY <1>0, <2>1, <2>3, <2>5 DEF Accounted
<1>5. CASE \/ \E count \in RewardCounts : SetRewardTokenCount(count)
           \/ \E duration \in Durations : SetLockDuration(duration)
           \/ \E penalty \in Penalties : SetEarlyRedeemPenalty(penalty)
           \/ \E i \in Rewards, speed \in Speeds : SetRewardSpeed(i, speed)
           \/ AdvanceTime \/ UNCHANGED vars
  <2>1. UNCHANGED <<balance, taken, claimed, totalSupplies, slashedTokenAmount>>
    BY <1>5 DEF SetRewardTokenCount, SetLockDuration, SetEarlyRedeemPenalty, SetRewardSpeed,
                AdvanceTime, vars, stakeVars, tokenVars, historyVars
  <2> QED
    BY <2>1 DEF Accounted, TokensAccounted
<1> QED
  BY <1>1, <1>2, <1>3, <1>4, <1>5 DEF Next, UserCall, AdminCall

\* Through any order of deposits, redemptions, penalties, claims and emergencies,
\* with rewards in any tokens: of each token the contract has what it was given,
\* the stakes and the slashed tokens, less what was claimed in it and what the
\* admin took.
THEOREM TokensAreAccounted == Spec => []TokensAccounted
<1>1. Accounted => TokensAccounted
  BY DEF Accounted
<1> QED
  BY <1>1, StakingInit, StakingStep, AccountedInit, AccountedStep, PTL DEF Spec

-----------------------------------------------------------------------------
(* The emission of the rewards, for an admin that never lowers the number  *)
(* of reward tokens.  (Lowering it and raising it again leaves indices     *)
(* behind, and stake made meanwhile is paid from them.)                    *)

CountOnlyRises == [][rewardTokenCount' >= rewardTokenCount]_vars

\* What an account has earned of a reward when its index is x, at the scale of the
\* indices: nothing is truncated.
Credit(i, x) ==
  [a \in Account |-> RewardScale[i] * accruedReward[a][i]
                     + (x - supplierRewardIndex[a][i]) * supplyAmount[a]]

\* What the speed in force promised since the last accrual, if anybody has a stake.
Pending(i) ==
  IF totalSupplies = 0 THEN 0 ELSE IndexScale * (rewardSpeeds[i] * (now - accrualTime))

\* Rewards that are not paid yet have no indices; the first deposit accrues.
Idle ==
  /\ \A i \in Rewards \ Paying : \A a \in Account : supplierRewardIndex[a][i] = rewardIndex[i]
  /\ totalSupplies # 0 => accrualTime # 0
  /\ now # 0

Emitting ==
  \A i \in Rewards :
    RewardScale[i] * claimed[i] + SumFunction(Credit(i, rewardIndex[i])) + Pending(i)
      <= IndexScale * emitted[i]

EmissionInv ==
  /\ claimed \in [Rewards -> Nat] /\ emitted \in [Rewards -> Nat]
  /\ Idle /\ Emitting

LEMMA ScaleNat ==
  /\ IndexScale \in Nat /\ IndexScale > 0 /\ IsFiniteSet(Account)
  /\ \A i \in Rewards : RewardScale[i] \in Nat /\ RewardScale[i] > 0
BY StakingAssumption

LEMMA RewardFacts ==
  ASSUME StakeInv, RewardTypes, NEW i \in Rewards
  PROVE  /\ rewardIndex[i] \in Nat /\ rewardSpeeds[i] \in Nat
         /\ now \in Nat /\ accrualTime \in Nat /\ accrualTime <= now
         /\ totalSupplies \in Nat /\ totalSupplies = SumFunction(supplyAmount)
         /\ supplyAmount \in [Account -> Nat]
         /\ \A a \in Account : /\ supplierRewardIndex[a][i] \in Nat
                               /\ accruedReward[a][i] \in Nat
                               /\ supplyAmount[a] \in Nat
                               /\ supplierRewardIndex[a][i] <= rewardIndex[i]
  BY DEF StakeInv, StakeTypes, RewardTypes, SupplyIsUnlockedAndLocks

LEMMA CreditType ==
  ASSUME StakeInv, RewardTypes, NEW i \in Rewards, NEW x \in Int
  PROVE  /\ Credit(i, x) \in [Account -> Int]
         /\ SumFunction(Credit(i, x)) \in Int
<1>1. ASSUME NEW a \in Account
      PROVE  RewardScale[i] * accruedReward[a][i]
               + (x - supplierRewardIndex[a][i]) * supplyAmount[a] \in Int
  <2>1. /\ RewardScale[i] \in Int /\ accruedReward[a][i] \in Int
        /\ x - supplierRewardIndex[a][i] \in Int /\ supplyAmount[a] \in Int
    BY ScaleNat, RewardFacts
  <2>2. /\ RewardScale[i] * accruedReward[a][i] \in Int
        /\ (x - supplierRewardIndex[a][i]) * supplyAmount[a] \in Int
    BY <2>1, TimesInt
  <2> QED
    BY <2>2
<1>2. Credit(i, x) \in [Account -> Int]
  BY <1>1 DEF Credit
<1> QED
  BY <1>2, ScaleNat, SumFunctionInt

\* Raising the index by d credits every stake with d.
LEMMA CreditRises ==
  ASSUME StakeInv, RewardTypes, NEW i \in Rewards, NEW x \in Int, NEW d \in Int
  PROVE  SumFunction(Credit(i, x + d)) = SumFunction(Credit(i, x)) + d * totalSupplies
<1> DEFINE f == Credit(i, x)
           h == Credit(i, x + d)
<1>1. ASSUME NEW a \in Account
      PROVE  h[a] = f[a] + d * supplyAmount[a] /\ f[a] \in Int /\ supplyAmount[a] \in Int
  <2> DEFINE p == x - supplierRewardIndex[a][i]
             q == supplyAmount[a]
             r == RewardScale[i] * accruedReward[a][i]
  <2>1. p \in Int /\ q \in Int /\ (x + d) - supplierRewardIndex[a][i] = p + d
    BY RewardFacts
  <2>2. r \in Int
    BY ScaleNat, RewardFacts, TimesInt
  <2>3. h[a] = r + (p + d) * q /\ f[a] = r + p * q
    BY <2>1 DEF Credit
  <2> HIDE DEF p, q, r, f, h
  <2>4. (p + d) * q = p * q + d * q
    BY <2>1, SMT
  <2>5. p * q \in Int /\ d * q \in Int
    BY <2>1, TimesInt
  <2>6. h[a] = f[a] + d * q /\ f[a] \in Int
    BY <2>2, <2>3, <2>4, <2>5
  <2> QED
    BY <2>1, <2>6 DEF q
<1>2. DOMAIN f = Account /\ DOMAIN h = Account
  BY DEF Credit
<1> HIDE DEF f, h
<1>3. SumFunctionOnSet(h, Account)
        = SumFunctionOnSet(f, Account) + d * SumFunctionOnSet(supplyAmount, Account)
  BY <1>1, ScaleNat, SumTimes
<1>4. DOMAIN supplyAmount = Account /\ totalSupplies = SumFunction(supplyAmount)
  BY RewardFacts
<1> QED
  BY <1>2, <1>3, <1>4 DEF SumFunction, f, h

\* An accrual credits no more than the speed promised.
LEMMA AccrualWithin ==
  ASSUME StakeInv, RewardTypes, NEW i \in Rewards
  PROVE  SumFunction(Credit(i, IndexNow[i])) <= SumFunction(Credit(i, rewardIndex[i])) + Pending(i)
<1> DEFINE x == rewardIndex[i]
           total == totalSupplies
           owed == rewardSpeeds[i] * (now - accrualTime)
           d == IndexNow[i] - x
<1>1. /\ x \in Nat /\ total \in Nat /\ IndexNow[i] \in Nat /\ x <= IndexNow[i]
      /\ now - accrualTime \in Nat /\ rewardSpeeds[i] \in Nat
  BY RewardFacts, IndexGrows
<1>2. d \in Nat /\ IndexNow[i] = x + d
  BY <1>1
<1>3. owed \in Nat /\ owed * IndexScale \in Nat /\ owed * IndexScale = IndexScale * owed
  <2>1. owed \in Nat
    BY <1>1, NatTimes
  <2> HIDE DEF owed
  <2> QED
    BY <2>1, ScaleNat, NatTimes, SMT
<1>4. Pending(i) = IF total = 0 THEN 0 ELSE IndexScale * owed
  BY DEF Pending
<1>5. d * total <= Pending(i) /\ d * total \in Int
  <2>1. CASE total = 0
    <3>1. d * total = 0
      BY <1>2, <2>1, SMT
    <3> QED
      BY <1>4, <2>1, <3>1
  <2>2. CASE total # 0 /\ i \notin Paying
    <3>1. d = 0
      BY <1>1, <2>2 DEF IndexNow
    <3>2. d * total = 0
      BY <1>1, <3>1, SMT
    <3>3. IndexScale * owed \in Nat
      BY <1>3
    <3> QED
      BY <1>4, <2>2, <3>2, <3>3
  <2>3. CASE total # 0 /\ i \in Paying
    <3> DEFINE g == (owed * IndexScale) \div total
    <3>1. IndexNow[i] = x + g
      BY <2>3 DEF IndexNow
    <3> DEFINE w == owed * IndexScale
    <3>2. w \in Nat /\ g = w \div total
      BY <1>3
    <3> HIDE DEF w, owed
    <3>3. g * total <= w /\ g \in Nat
      BY <1>1, <2>3, <3>2, SMT
    <3>4. d = g
      BY <1>1, <3>1, <3>3
    <3>5. d * total \in Int
      BY <1>1, <3>3, <3>4, TimesInt
    <3>6. w = IndexScale * owed
      BY <1>3 DEF w
    <3> QED
      BY <1>4, <2>3, <3>3, <3>4, <3>5, <3>6
  <2> QED
    BY <2>1, <2>2, <2>3
<1>6. SumFunction(Credit(i, x + d)) = SumFunction(Credit(i, x)) + d * total
  BY <1>1, <1>2, CreditRises
<1>7. SumFunction(Credit(i, x)) \in Int /\ Pending(i) \in Int
  <2>1. Pending(i) \in Int
    BY <1>3, <1>4
  <2> QED
    BY <1>1, <2>1, CreditType
<1>8. SumFunction(Credit(i, IndexNow[i])) = SumFunction(Credit(i, x)) + d * total
  BY <1>2, <1>6
<1> DEFINE dt == d * total
<1>9. dt \in Int /\ dt <= Pending(i) /\ SumFunction(Credit(i, IndexNow[i])) = SumFunction(Credit(i, x)) + dt
  BY <1>5, <1>8
<1> HIDE DEF dt, d, x
<1> QED
  BY <1>7, <1>9 DEF x

\* What a settlement makes of an account's credit: never more than it is.
LEMMA EarnedWithin ==
  ASSUME StakeInv, RewardTypes, NEW i \in Rewards, NEW a \in Account
  PROVE  /\ AccruedNow(a)[i] \in Nat
         /\ RewardScale[i] * AccruedNow(a)[i] \in Nat
         /\ RewardScale[i] * AccruedNow(a)[i] <= Credit(i, IndexNow[i])[a]
<1> DEFINE had == accruedReward[a][i]
           p == IndexNow[i] - supplierRewardIndex[a][i]
           q == supplyAmount[a]
           w == p * q
           e == w \div RewardScale[i]
<1>1. /\ had \in Nat /\ q \in Nat /\ rewardIndex[i] \in Nat
      /\ supplierRewardIndex[a][i] \in Nat /\ supplierRewardIndex[a][i] <= rewardIndex[i]
      /\ IndexNow[i] \in Nat /\ rewardIndex[i] <= IndexNow[i]
  BY RewardFacts, IndexGrows
<1>2. p \in Nat
  BY <1>1
<1>3. w \in Nat
  BY <1>1, <1>2, NatTimes
<1>4. Earned(a, i) = e
  BY DEF Earned
<1>5. Credit(i, IndexNow[i])[a] = RewardScale[i] * had + w
  BY DEF Credit
<1>6. AccruedNow(a)[i] = had + IF i \in Paying THEN e ELSE 0
  BY <1>4 DEF AccruedNow
<1> HIDE DEF had, p, q, w
<1>7. e \in Nat /\ RewardScale[i] * e <= w /\ RewardScale[i] * e \in Nat
  <2> DEFINE scale == RewardScale[i]
  <2>1. scale \in Nat /\ scale > 0
    BY ScaleNat
  <2> HIDE DEF scale
  <2>2. w \div scale \in Nat /\ scale * (w \div scale) <= w /\ scale * (w \div scale) \in Nat
    BY <1>3, <2>1, SMT
  <2> QED
    BY <2>2 DEF scale
<1> HIDE DEF e
<1>8. RewardScale[i] * had \in Nat /\ RewardScale[i] * (had + e) = RewardScale[i] * had + RewardScale[i] * e
  BY <1>1, <1>7, ScaleNat, NatTimes, Distribute
<1>9. CASE i \in Paying
  <2>1. AccruedNow(a)[i] = had + e
    BY <1>6, <1>9
  <2>2. had + e \in Nat /\ RewardScale[i] * (had + e) \in Nat
    BY <1>1, <1>7, ScaleNat, NatTimes
  <2> DEFINE l == RewardScale[i] * had
             r == RewardScale[i] * e
  <2>3. RewardScale[i] * (had + e) = l + r /\ l \in Nat /\ r \in Nat /\ r <= w
        /\ Credit(i, IndexNow[i])[a] = l + w
    BY <1>5, <1>7, <1>8
  <2> HIDE DEF l, r
  <2>4. l + r <= l + w
    BY <1>3, <2>3
  <2> QED
    BY <2>1, <2>2, <2>3, <2>4
<1>10. CASE i \notin Paying
  <2>1. AccruedNow(a)[i] = had
    BY <1>1, <1>6, <1>10
  <2> DEFINE l == RewardScale[i] * had
  <2>2. l \in Nat /\ Credit(i, IndexNow[i])[a] = l + w
    BY <1>5, <1>8
  <2>3. l <= l + w
    BY <1>3, <2>2
  <2> QED
    BY <1>1, <2>1, <2>2, <2>3
<1> QED
  BY <1>9, <1>10

LEMMA EmittedFacts ==
  ASSUME StakeInv, RewardTypes, EmissionInv, NEW i \in Rewards
  PROVE  /\ claimed[i] \in Nat /\ emitted[i] \in Nat
         /\ RewardScale[i] * claimed[i] \in Nat /\ IndexScale * emitted[i] \in Nat
         /\ SumFunction(Credit(i, rewardIndex[i])) \in Int
         /\ SumFunction(Credit(i, IndexNow[i])) \in Int
         /\ Pending(i) \in Nat
         /\ RewardScale[i] * claimed[i] + SumFunction(Credit(i, IndexNow[i])) <= IndexScale * emitted[i]
<1>1. claimed[i] \in Nat /\ emitted[i] \in Nat
  BY DEF EmissionInv
<1>2. RewardScale[i] * claimed[i] \in Nat /\ IndexScale * emitted[i] \in Nat
  BY <1>1, ScaleNat, NatTimes
<1>3. /\ SumFunction(Credit(i, rewardIndex[i])) \in Int
      /\ SumFunction(Credit(i, IndexNow[i])) \in Int
  <2>1. rewardIndex[i] \in Int /\ IndexNow[i] \in Int
    BY RewardFacts, IndexGrows
  <2> QED
    BY <2>1, CreditType
<1>4. Pending(i) \in Nat
  <2>1. now - accrualTime \in Nat /\ rewardSpeeds[i] \in Nat
    BY RewardFacts
  <2>2. rewardSpeeds[i] * (now - accrualTime) \in Nat
    BY <2>1, NatTimes
  <2>3. IndexScale * (rewardSpeeds[i] * (now - accrualTime)) \in Nat
    BY <2>2, ScaleNat, NatTimes
  <2> QED
    BY <2>3 DEF Pending
<1>5. RewardScale[i] * claimed[i] + SumFunction(Credit(i, rewardIndex[i])) + Pending(i)
        <= IndexScale * emitted[i]
  BY DEF EmissionInv, Emitting
<1>6. SumFunction(Credit(i, IndexNow[i])) <= SumFunction(Credit(i, rewardIndex[i])) + Pending(i)
  BY AccrualWithin
<1> DEFINE A == SumFunction(Credit(i, rewardIndex[i]))
           B == SumFunction(Credit(i, IndexNow[i]))
           C == RewardScale[i] * claimed[i]
           D == IndexScale * emitted[i]
<1>7. /\ A \in Int /\ B \in Int /\ C \in Nat /\ D \in Nat /\ Pending(i) \in Nat
      /\ C + A + Pending(i) <= D /\ B <= A + Pending(i)
  BY <1>2, <1>3, <1>4, <1>5, <1>6
<1> HIDE DEF A, B, C, D
<1>8. C + B <= D
  BY <1>7
<1> QED
  BY <1>1, <1>2, <1>3, <1>4, <1>8 DEF B, C, D

\* A call that settles an account and pays it what it claims keeps the emission.
LEMMA SettleEmits ==
  ASSUME StakeInv, RewardTypes, EmissionInv, StakeInv', RewardTypes',
         NEW a \in Account, SettleIndex(a),
         UNCHANGED <<now, rewardTokenCount, rewardSpeeds, emitted>>,
         claimed' \in [Rewards -> Nat],
         \A b \in Account \ {a} : /\ supplyAmount'[b] = supplyAmount[b]
                                  /\ accruedReward'[b] = accruedReward[b],
         \A i \in Rewards : accruedReward'[a][i] + claimed'[i] = AccruedNow(a)[i] + claimed[i]
  PROVE  EmissionInv'
<1>1. /\ accrualTime' = now /\ rewardIndex' = IndexNow /\ Paying' = Paying
      /\ now # 0 /\ now \in Nat
  BY DEF SettleIndex, Accrue, Paying, EmissionInv, Idle, StakeInv, StakeTypes
<1>2. /\ \A b \in Account \ {a} : supplierRewardIndex'[b] = supplierRewardIndex[b]
      /\ \A i \in Rewards : supplierRewardIndex'[a][i] =
           IF i \in Paying THEN IndexNow[i] ELSE supplierRewardIndex[a][i]
  BY DEF SettleIndex, IndexAfter, RewardTypes
<1>3. \A i \in Rewards \ Paying : /\ IndexNow[i] = rewardIndex[i]
                                  /\ \A b \in Account : supplierRewardIndex[b][i] = rewardIndex[i]
  BY DEF EmissionInv, Idle, IndexNow
<1>4. Idle'
  <2>1. ASSUME NEW i \in Rewards \ Paying, NEW b \in Account
        PROVE  supplierRewardIndex'[b][i] = rewardIndex'[i]
    BY <1>1, <1>2, <1>3
  <2> QED
    BY <1>1, <2>1 DEF Idle
<1>5. ASSUME NEW i \in Rewards
      PROVE  (RewardScale[i] * claimed[i] + SumFunction(Credit(i, rewardIndex[i])) + Pending(i)
                <= IndexScale * emitted[i])'
  <2> DEFINE f == Credit(i, IndexNow[i])
             g == Credit(i, rewardIndex[i])'
             due == AccruedNow(a)[i]
  <2>1. \A b \in Account \ {a} : g[b] = f[b]
    BY <1>1, <1>2 DEF Credit
  <2>2. supplierRewardIndex'[a][i] = rewardIndex'[i] /\ rewardIndex'[i] \in Nat
    BY <1>1, <1>2, <1>3 DEF RewardTypes
  <2>3. accruedReward'[a][i] \in Nat /\ supplyAmount'[a] \in Nat
    BY DEF RewardTypes, StakeInv, StakeTypes
  <2>4. g[a] = RewardScale[i] * accruedReward'[a][i]
    <3>1. g[a] = RewardScale[i] * accruedReward'[a][i]
                  + (rewardIndex'[i] - supplierRewardIndex'[a][i]) * supplyAmount'[a]
      BY DEF Credit
    <3>2. rewardIndex'[i] - supplierRewardIndex'[a][i] = 0
      BY <2>2
    <3>3. 0 * supplyAmount'[a] = 0
      BY <2>3, SMT
    <3>4. RewardScale[i] * accruedReward'[a][i] \in Nat
      BY <2>3, ScaleNat, NatTimes
    <3> QED
      BY <3>1, <3>2, <3>3, <3>4
  <2>5. f \in [Account -> Int] /\ g \in [Account -> Int]
    <3>1. IndexNow[i] \in Int
      BY IndexGrows
    <3>2. f \in [Account -> Int]
      BY <3>1, CreditType
    <3>3. \A b \in Account \ {a} : g[b] \in Int
      BY <2>1, <3>2
    <3>4. g[a] \in Int
      BY <2>3, <2>4, ScaleNat, NatTimes
    <3>5. g = [b \in Account |-> g[b]]
      BY DEF Credit
    <3> HIDE DEF f, g
    <3>6. \A b \in Account : g[b] \in Int
      BY <3>3, <3>4
    <3> QED
      BY <3>2, <3>5, <3>6
  <2>6. due \in Nat /\ RewardScale[i] * due \in Nat /\ RewardScale[i] * due <= f[a]
    BY EarnedWithin
  <2>7. /\ claimed[i] \in Nat /\ claimed'[i] \in Nat
        /\ accruedReward'[a][i] + claimed'[i] = due + claimed[i]
    BY EmittedFacts
  <2>8. RewardScale[i] * accruedReward'[a][i] + RewardScale[i] * claimed'[i]
          = RewardScale[i] * due + RewardScale[i] * claimed[i]
    <3>1. /\ RewardScale[i] * (accruedReward'[a][i] + claimed'[i])
               = RewardScale[i] * accruedReward'[a][i] + RewardScale[i] * claimed'[i]
          /\ RewardScale[i] * (due + claimed[i]) = RewardScale[i] * due + RewardScale[i] * claimed[i]
      BY <2>3, <2>6, <2>7, ScaleNat, Distribute
    <3> QED
      BY <2>7, <3>1
  <2>9. Pending(i)' = 0
    <3>1. rewardSpeeds'[i] \in Nat /\ now' - accrualTime' = 0
      BY <1>1 DEF RewardTypes
    <3>2. IndexScale * (rewardSpeeds'[i] * 0) = 0
      BY <3>1, ScaleNat, SMT
    <3> QED
      BY <3>1, <3>2 DEF Pending
  <2> HIDE DEF f, g, due
  <2>10. SumFunction(g) = SumFunction(f) - f[a] + g[a]
    BY <2>1, <2>5, ScaleNat, SumFunctionUpdate
  <2> DEFINE F == SumFunction(f)
             G == SumFunction(g)
             C == RewardScale[i] * claimed[i]
             K == RewardScale[i] * claimed'[i]
             E == IndexScale * emitted[i]
             Q == RewardScale[i] * due
             R == RewardScale[i] * accruedReward'[a][i]
  <2>11. /\ F \in Int /\ C \in Nat /\ E \in Nat /\ C + F <= E
    BY EmittedFacts DEF f
  <2>12. /\ G = F - f[a] + R /\ R + K = Q + C /\ Q <= f[a] /\ Q \in Nat
         /\ f[a] \in Int
    BY <2>4, <2>5, <2>6, <2>8, <2>10
  <2>13. K \in Nat /\ R \in Nat
    BY <2>3, <2>7, ScaleNat, NatTimes
  <2>14. E = IndexScale * emitted'[i]
    OBVIOUS
  <2> HIDE DEF F, G, C, K, E, Q, R
  <2>15. K + G + 0 <= E
    BY <2>11, <2>12, <2>13
  <2> QED
    BY <2>9, <2>14, <2>15 DEF K, G, g
<1>6. Emitting'
  BY <1>5 DEF Emitting
<1> QED
  BY <1>4, <1>6 DEF EmissionInv

LEMMA EmissionInit == Init => EmissionInv
<1> SUFFICES ASSUME Init PROVE EmissionInv
  OBVIOUS
<1>1. /\ claimed \in [Rewards -> Nat] /\ emitted \in [Rewards -> Nat] /\ Idle
  BY DEF Init, NoRewards, Idle
<1>2. ASSUME NEW i \in Rewards
      PROVE  RewardScale[i] * claimed[i] + SumFunction(Credit(i, rewardIndex[i])) + Pending(i)
               <= IndexScale * emitted[i]
  <2>1. claimed[i] = 0 /\ emitted[i] = 0 /\ Pending(i) = 0 /\ rewardIndex[i] = 0
    BY DEF Init, NoRewards, Pending
  <2>2. IndexScale * 0 = 0 /\ RewardScale[i] * 0 = 0 /\ (0 - 0) * 0 = 0
    BY ScaleNat, SMT
  <2>3. Credit(i, 0) = [a \in Account |-> 0]
    BY <2>2 DEF Init, NoRewards, Zero, Credit
  <2>4. SumFunction(Credit(i, 0)) = 0
    BY <2>3, ScaleNat, SumFunctionZero
  <2> QED
    BY <2>1, <2>2, <2>4
<1> QED
  BY <1>1, <1>2 DEF EmissionInv, Emitting

LEMMA EmissionStep ==
  ASSUME StakeInv, RewardTypes, EmissionInv, StakeInv', RewardTypes',
         [Next]_vars, [rewardTokenCount' >= rewardTokenCount]_vars
  PROVE  EmissionInv'
<1>1. ASSUME NEW a \in Account, NEW amount \in Amounts,
             Deposit(a, amount) \/ Redeem(a, amount) \/ RedeemEarly(a, amount)
      PROVE  EmissionInv'
  <2>1. /\ SettleIndex(a) /\ accruedReward' = [accruedReward EXCEPT ![a] = AccruedNow(a)]
        /\ UNCHANGED <<now, rewardTokenCount, rewardSpeeds, emitted, claimed>>
    BY <1>1 DEF Deposit, Redeem, RedeemEarly, DistributeReward, settingVars
  <2>2. \E supply : supplyAmount' = [supplyAmount EXCEPT ![a] = supply]
    BY <1>1 DEF Deposit, Redeem, RedeemEarly
  <2>3. \A b \in Account \ {a} : /\ supplyAmount'[b] = supplyAmount[b]
                                 /\ accruedReward'[b] = accruedReward[b]
    BY <2>1, <2>2 DEF StakeInv, StakeTypes, RewardTypes
  <2>4. \A i \in Rewards : accruedReward'[a][i] + claimed'[i] = AccruedNow(a)[i] + claimed[i]
    BY <2>1 DEF RewardTypes
  <2>5. claimed' \in [Rewards -> Nat]
    BY <2>1 DEF EmissionInv
  <2> QED
    BY <2>1, <2>3, <2>4, <2>5, SettleEmits
<1>2. ASSUME NEW a \in Account, ClaimRewards(a)
      PROVE  EmissionInv'
  <2> DEFINE due == AccruedNow(a)
             pay == [i \in Rewards |-> IF i \in Paying THEN due[i] ELSE 0]
             rest == [i \in Rewards |-> due[i] - pay[i]]
  <2>1. /\ SettleIndex(a) /\ accruedReward' = [accruedReward EXCEPT ![a] = rest]
        /\ claimed' = [i \in Rewards |-> claimed[i] + pay[i]]
        /\ UNCHANGED <<now, rewardTokenCount, rewardSpeeds, emitted, supplyAmount>>
    BY <1>2 DEF ClaimRewards, settingVars
  <2>2. \A b \in Account \ {a} : /\ supplyAmount'[b] = supplyAmount[b]
                                 /\ accruedReward'[b] = accruedReward[b]
    BY <2>1 DEF RewardTypes
  <2>3. ASSUME NEW i \in Rewards
        PROVE  /\ claimed'[i] \in Nat
               /\ accruedReward'[a][i] + claimed'[i] = due[i] + claimed[i]
    <3>1. due[i] \in Nat /\ claimed[i] \in Nat
      BY AccruedType, EmittedFacts
    <3>2. accruedReward'[a] = rest
      BY <2>1 DEF RewardTypes
    <3>3. accruedReward'[a][i] = due[i] - pay[i] /\ claimed'[i] = claimed[i] + pay[i]
      BY <2>1, <3>2
    <3>4. pay[i] \in Nat
      BY <3>1
    <3> HIDE DEF due, pay, rest
    <3> QED
      BY <3>1, <3>3, <3>4
  <2>4. claimed' \in [Rewards -> Nat]
    BY <2>1, <2>3
  <2> HIDE DEF pay, rest
  <2>5. \A i \in Rewards : accruedReward'[a][i] + claimed'[i] = AccruedNow(a)[i] + claimed[i]
    BY <2>3
  <2> QED
    BY <2>1, <2>2, <2>4, <2>5, SettleEmits
<1>3. CASE \E count \in RewardCounts : SetRewardTokenCount(count)
  <2>1. /\ UNCHANGED <<now, totalSupplies, supplyAmount, accruedReward, supplierRewardIndex,
                       rewardIndex, rewardSpeeds, accrualTime, claimed, emitted>>
    BY <1>3 DEF SetRewardTokenCount, indexVars, stakeVars, rewardVars, historyVars
  <2>2. rewardTokenCount' >= rewardTokenCount
    <3>1. rewardTokenCount \in Int
      BY StakingAssumption DEF RewardTypes
    <3> QED
      BY <3>1 DEF vars, settingVars
  <2>3. Rewards \ Paying' \subseteq Rewards \ Paying
    <3>1. /\ rewardTokenCount \in Nat /\ rewardTokenCount' \in Nat
          /\ \A i \in Rewards : i \in Int
      BY StakingAssumption DEF RewardTypes, Rewards
    <3> QED
      BY <2>2, <3>1 DEF Paying
  <2>4. Idle'
    BY <2>1, <2>3 DEF Idle, EmissionInv
  <2>5. Emitting'
    BY <2>1 DEF Emitting, EmissionInv, Credit, Pending
  <2> QED
    BY <2>1, <2>4, <2>5 DEF EmissionInv
<1>4. ASSUME NEW j \in Rewards, NEW speed \in Speeds, SetRewardSpeed(j, speed)
      PROVE  EmissionInv'
  <2>1. /\ UNCHANGED <<now, rewardTokenCount, totalSupplies, supplyAmount, accruedReward,
                       supplierRewardIndex, claimed, emitted>>
        /\ IF accrualTime # 0 THEN accrualTime' = now /\ rewardIndex' = IndexNow
           ELSE UNCHANGED <<accrualTime, rewardIndex>>
    BY <1>4 DEF SetRewardSpeed, Accrue, settingVars, stakeVars, rewardVars, historyVars
  <2>2. Paying' = Paying /\ \A i \in Rewards \ Paying : IndexNow[i] = rewardIndex[i]
    BY <2>1 DEF Paying, IndexNow
  <2>3. Idle'
    <3>1. \A i \in Rewards \ Paying : rewardIndex'[i] = rewardIndex[i]
      BY <2>1, <2>2
    <3> QED
      BY <2>1, <2>2, <3>1 DEF Idle, EmissionInv
  <2>4. ASSUME NEW i \in Rewards
        PROVE  (RewardScale[i] * claimed[i] + SumFunction(Credit(i, rewardIndex[i])) + Pending(i)
                  <= IndexScale * emitted[i])'
    <3>1. CASE accrualTime # 0
      <4>1. Credit(i, rewardIndex[i])' = Credit(i, IndexNow[i])
        BY <2>1, <3>1 DEF Credit
      <4>2. Pending(i)' = 0
        <5>1. rewardSpeeds'[i] \in Nat /\ now' - accrualTime' = 0
          BY <2>1, <3>1 DEF RewardTypes, StakeInv, StakeTypes
        <5>2. IndexScale * (rewardSpeeds'[i] * 0) = 0
          BY <5>1, ScaleNat, SMT
        <5> QED
          BY <5>1, <5>2 DEF Pending
      <4>3. /\ RewardScale[i] * claimed[i] \in Nat /\ SumFunction(Credit(i, IndexNow[i])) \in Int
            /\ RewardScale[i] * claimed[i] + SumFunction(Credit(i, IndexNow[i]))
                 <= IndexScale * emitted[i]
        BY EmittedFacts
      <4>4. claimed' = claimed /\ emitted' = emitted
        BY <2>1
      <4> DEFINE B == SumFunction(Credit(i, IndexNow[i]))
                 C == RewardScale[i] * claimed[i]
                 D == IndexScale * emitted[i]
      <4>5. C \in Nat /\ B \in Int /\ C + B <= D
        BY <4>3
      <4>6. /\ (RewardScale[i] * claimed[i])' = C /\ (IndexScale * emitted[i])' = D
            /\ SumFunction(Credit(i, rewardIndex[i]))' = B
        BY <4>1, <4>4
      <4> HIDE DEF B, C, D
      <4>7. C + B + 0 <= D
        BY <4>5
      <4> QED
        BY <4>2, <4>6, <4>7
    <3>2. CASE accrualTime = 0
      <4>1. totalSupplies = 0
        BY <3>2 DEF EmissionInv, Idle
      <4>2. Pending(i)' = 0 /\ Pending(i) = 0
        BY <2>1, <4>1 DEF Pending
      <4>3. Credit(i, rewardIndex[i])' = Credit(i, rewardIndex[i])
        BY <2>1, <3>2 DEF Credit
      <4>4. RewardScale[i] * claimed[i] + SumFunction(Credit(i, rewardIndex[i])) + Pending(i)
              <= IndexScale * emitted[i]
        BY DEF EmissionInv, Emitting
      <4> QED
        BY <2>1, <4>2, <4>3, <4>4
    <3> QED
      BY <3>1, <3>2
  <2>5. Emitting'
    BY <2>4 DEF Emitting
  <2> QED
    BY <2>1, <2>3, <2>5 DEF EmissionInv
<1>5. CASE \/ \E duration \in Durations : SetLockDuration(duration)
           \/ \E penalty \in Penalties : SetEarlyRedeemPenalty(penalty)
           \/ \E amount \in AdminAmounts : WithdrawSlashedTokens(amount)
           \/ \E t \in Token, amount \in AdminAmounts : EmergencyWithdraw(t, amount)
           \/ UNCHANGED vars
  <2>1. UNCHANGED <<now, rewardTokenCount, totalSupplies, supplyAmount, accruedReward,
                    supplierRewardIndex, rewardIndex, rewardSpeeds, accrualTime, claimed, emitted>>
    BY <1>5 DEF SetLockDuration, SetEarlyRedeemPenalty, WithdrawSlashedTokens, EmergencyWithdraw,
                vars, settingVars, indexVars, stakeVars, rewardVars, historyVars
  <2>2. Idle'
    BY <2>1 DEF Idle, Paying, EmissionInv
  <2>3. Emitting'
    BY <2>1 DEF Emitting, EmissionInv, Credit, Pending
  <2> QED
    BY <2>1, <2>2, <2>3 DEF EmissionInv
<1>6. CASE AdvanceTime
  <2>1. /\ now' = now + 1 /\ emitted' = [i \in Rewards |-> emitted[i] + rewardSpeeds[i]]
        /\ UNCHANGED <<rewardTokenCount, totalSupplies, supplyAmount, accruedReward,
                       supplierRewardIndex, rewardIndex, rewardSpeeds, accrualTime, claimed>>
    BY <1>6 DEF AdvanceTime, settingVars, indexVars, stakeVars, rewardVars
  <2>2. Idle'
    BY <2>1 DEF Idle, Paying, EmissionInv, StakeInv, StakeTypes
  <2>3. emitted' \in [Rewards -> Nat]
    BY <2>1 DEF EmissionInv, RewardTypes
  <2>4. ASSUME NEW i \in Rewards
        PROVE  (RewardScale[i] * claimed[i] + SumFunction(Credit(i, rewardIndex[i])) + Pending(i)
                  <= IndexScale * emitted[i])'
    <3> DEFINE d == now - accrualTime
               v == rewardSpeeds[i]
               A == SumFunction(Credit(i, rewardIndex[i]))
               C == RewardScale[i] * claimed[i]
               D == IndexScale * emitted[i]
               p == IndexScale * (v * d)
               sv == IndexScale * v
    <3>1. d \in Nat /\ v \in Nat /\ now' - accrualTime' = d + 1 /\ rewardSpeeds'[i] = v
      BY <2>1, RewardFacts
    <3>2. emitted'[i] = emitted[i] + v /\ emitted[i] \in Nat
      BY <2>1, EmittedFacts
    <3> HIDE DEF d, v
    <3>3. v * (d + 1) = v * d + v /\ v * d \in Nat
      BY <3>1, SMT
    <3>4. IndexScale * (v * d + v) = p + sv /\ p \in Nat /\ sv \in Nat
      BY <3>1, <3>3, ScaleNat, NatTimes, Distribute
    <3>5. IndexScale * emitted'[i] = D + sv
      BY <3>1, <3>2, ScaleNat, Distribute
    <3>6. Pending(i) = IF totalSupplies = 0 THEN 0 ELSE p
      BY DEF Pending, d, v
    <3>7. Pending(i)' = IF totalSupplies = 0 THEN 0 ELSE p + sv
      BY <2>1, <3>1, <3>3, <3>4 DEF Pending
    <3>8. Credit(i, rewardIndex[i])' = Credit(i, rewardIndex[i])
      BY <2>1 DEF Credit
    <3>9. A \in Int /\ C \in Nat /\ D \in Nat
      BY EmittedFacts
    <3>10. C + A + Pending(i) <= D
      BY DEF EmissionInv, Emitting
    <3>11. (RewardScale[i] * claimed[i])' = C /\ SumFunction(Credit(i, rewardIndex[i]))' = A
      BY <2>1, <3>8
    <3> HIDE DEF A, C, D, p, sv
    <3>12. C + A + Pending(i)' <= D + sv
      BY <3>4, <3>6, <3>7, <3>9, <3>10
    <3> QED
      BY <3>5, <3>11, <3>12
  <2>5. Emitting'
    BY <2>4 DEF Emitting
  <2> QED
    BY <2>1, <2>2, <2>3, <2>5 DEF EmissionInv
<1> QED
  BY <1>1, <1>2, <1>3, <1>4, <1>5, <1>6 DEF Next, UserCall, AdminCall

LEMMA EmissionEnough ==
  ASSUME StakeInv, RewardTypes, EmissionInv
  PROVE  WithinEmission
<1> SUFFICES ASSUME NEW i \in Rewards
             PROVE  RewardScale[i] * (claimed[i] + SumFunction([a \in Account |-> AccruedNow(a)[i]]))
                      <= IndexScale * emitted[i]
  BY DEF WithinEmission
<1> DEFINE e == [a \in Account |-> AccruedNow(a)[i]]
           z == [a \in Account |-> 0]
           h == [a \in Account |-> RewardScale[i] * AccruedNow(a)[i]]
           f == Credit(i, IndexNow[i])
<1>1. IsFiniteSet(Account) /\ RewardScale[i] \in Nat /\ RewardScale[i] > 0 /\ IndexScale \in Nat
  BY ScaleNat
<1>2. \A a \in Account : /\ AccruedNow(a)[i] \in Nat
                        /\ RewardScale[i] * AccruedNow(a)[i] \in Nat
                        /\ RewardScale[i] * AccruedNow(a)[i] <= f[a]
  BY EarnedWithin
<1>3. f \in [Account -> Int]
  <2>1. IndexNow[i] \in Int
    BY IndexGrows
  <2> QED
    BY <2>1, CreditType
<1> HIDE DEF f
<1>4. /\ e \in [Account -> Nat] /\ h \in [Account -> Int]
      /\ \A a \in Account : h[a] <= f[a]
      /\ \A a \in Account : z[a] \in Int /\ e[a] \in Int /\ h[a] = z[a] + RewardScale[i] * e[a]
      /\ DOMAIN e = Account /\ DOMAIN h = Account /\ DOMAIN f = Account
      /\ \A a \in Account : z[a] = 0
  BY <1>2, <1>3
<1> HIDE DEF e, h, z
<1>5. SumFunction(h) <= SumFunction(f)
  BY <1>1, <1>3, <1>4, SumFunctionLeq
<1>6. SumFunctionOnSet(h, Account)
        = SumFunctionOnSet(z, Account) + RewardScale[i] * SumFunctionOnSet(e, Account)
  BY <1>1, <1>4, SumTimes
<1>7. SumFunctionOnSet(z, Account) = 0
  BY <1>1, <1>4, SumZero
<1> DEFINE T == SumFunction(e)
<1>8. T \in Nat /\ RewardScale[i] * T \in Nat
  <2>1. T \in Nat
    BY <1>1, <1>4, SumFunctionNat
  <2> QED
    BY <1>1, <2>1, NatTimes
<1>9. SumFunction(h) = RewardScale[i] * T
  <2>1. SumFunction(h) = 0 + RewardScale[i] * SumFunction(e)
    BY <1>4, <1>6, <1>7 DEF SumFunction
  <2> QED
    BY <1>8, <2>1
<1>10. /\ claimed[i] \in Nat /\ emitted[i] \in Nat /\ SumFunction(f) \in Int
       /\ RewardScale[i] * claimed[i] \in Nat /\ IndexScale * emitted[i] \in Nat
       /\ RewardScale[i] * claimed[i] + SumFunction(f) <= IndexScale * emitted[i]
  BY EmittedFacts DEF f
<1>11. RewardScale[i] * (claimed[i] + T) = RewardScale[i] * claimed[i] + RewardScale[i] * T
  BY <1>1, <1>8, <1>10, Distribute
<1> HIDE DEF T
<1>12. RewardScale[i] * (claimed[i] + T) <= IndexScale * emitted[i]
  <2> DEFINE x == RewardScale[i] * claimed[i]
             y == RewardScale[i] * T
             w == IndexScale * emitted[i]
  <2>1. /\ x \in Nat /\ y \in Nat /\ w \in Nat /\ SumFunction(f) \in Int
        /\ x + SumFunction(f) <= w /\ y <= SumFunction(f)
    BY <1>5, <1>8, <1>9, <1>10
  <2> HIDE DEF x, y, w
  <2>2. x + y <= w
    BY <2>1
  <2> QED
    BY <1>11, <2>2 DEF x, y, w
<1> QED
  BY <1>12 DEF T, e

\* While the admin only ever adds reward tokens, what was claimed and what is
\* accrued or due never exceeds what the speeds in force promised, whatever the
\* order of deposits, redemptions, claims and speed changes.
THEOREM RewardsWithinEmission == Spec /\ CountOnlyRises => []WithinEmission
<1> DEFINE All == StakeInv /\ RewardTypes /\ EmissionInv
<1>1. Init => All
  BY StakeInit, RewardInit, EmissionInit
<1>2. All /\ [Next]_vars /\ [rewardTokenCount' >= rewardTokenCount]_vars => All'
  BY StakeStep, RewardStep, EmissionStep
<1>3. All => WithinEmission
  BY EmissionEnough
<1> HIDE DEF All
<1> QED
  BY <1>1, <1>2, <1>3, PTL DEF Spec, CountOnlyRises
=============================================================================
