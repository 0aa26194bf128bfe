------------------------------- MODULE Sums -------------------------------
(* What the proofs need to know of SumFunction, the sum of the values of a  *)
(* function with a finite domain: balances over accounts, votes over        *)
(* voters, stakes over accounts and pools.  The community module defines    *)
(* the sum by a recursion over the subsets of the domain, so each fact is   *)
(* proved on the smallest subset on which it could fail.                    *)
EXTENDS Integers, FiniteSets, Functions, FiniteSetTheorems,
        WellFoundedInduction, TLAPS

(* A set of subsets of a finite set that is not empty has a member none of  *)
(* whose proper subsets is a member: the induction every proof here makes.  *)
LEMMA SmallestSubset ==
  ASSUME NEW S, IsFiniteSet(S), NEW T \in SUBSET (SUBSET S), T # {}
  PROVE  \E s \in T : \A t \in T : ~ (t \subseteq s /\ t # s)
<1>1. IsWellFoundedOn(StrictSubsetOrdering(S), SUBSET S)
  BY FS_StrictSubsetOrderingWellFounded, FS_FiniteSubsetsOfFinite
<1>2. PICK s \in T : \A t \in T : <<t, s>> \notin StrictSubsetOrdering(S)
  BY <1>1, WFMin
<1>3. \A t \in T : ~ (t \subseteq s /\ t # s)
  BY <1>2 DEF StrictSubsetOrdering
<1> QED BY <1>3

(* The element of a set that the recursion takes next.                      *)
Taken(s) == CHOOSE x \in s : TRUE

(* r sums f over every subset of S by the recursion.                        *)
SummedBy(f, S, r) ==
  r = [s \in SUBSET S |-> IF s = {} THEN 0 ELSE f[Taken(s)] + r[s \ {Taken(s)}]]

(* What the definition of SumFunctionOnSet comes to.                        *)
LEMMA SumIsChosen ==
  ASSUME NEW f, NEW S
  PROVE  SumFunctionOnSet(f, S) = (CHOOSE r : SummedBy(f, S, r))[S]
BY DEF SumFunctionOnSet, FoldFunctionOnSet, MapThenFoldSet, SummedBy, Taken

(* The recursion decides every value.                                       *)
LEMMA SumsAgree ==
  ASSUME NEW f, NEW S, NEW R, IsFiniteSet(S), S \subseteq R, NEW q, NEW r,
         SummedBy(f, S, q), SummedBy(f, R, r)
  PROVE  q[S] = r[S]
<1> DEFINE T == {s \in SUBSET S : q[s] # r[s]}
<1>1. SUFFICES ASSUME T # {} PROVE FALSE
  OBVIOUS
<1>2. PICK s \in T : \A t \in T : ~ (t \subseteq s /\ t # s)
  <2>1. T \in SUBSET (SUBSET S)
    OBVIOUS
  <2> HIDE DEF T
  <2> QED BY <1>1, <2>1, SmallestSubset
<1>3. s # {}
  BY <1>2 DEF SummedBy
<1>4. Taken(s) \in s
  BY <1>3 DEF Taken
<1>5. q[s \ {Taken(s)}] = r[s \ {Taken(s)}]
  BY <1>2, <1>4
<1>6. q[s] = f[Taken(s)] + q[s \ {Taken(s)}]
  <2>1. s \in SUBSET S
    OBVIOUS
  <2> QED BY <2>1, <1>3 DEF SummedBy
<1>7. r[s] = f[Taken(s)] + r[s \ {Taken(s)}]
  <2>1. s \in SUBSET R
    OBVIOUS
  <2> QED BY <2>1, <1>3 DEF SummedBy
<1> QED BY <1>2, <1>5, <1>6, <1>7

(* The recursion has a solution over every finite set.                      *)
LEMMA SumsExist ==
  ASSUME NEW f, NEW S, IsFiniteSet(S)
  PROVE  \E r : SummedBy(f, S, r)
<1> DEFINE T == {s \in SUBSET S : ~ \E r : SummedBy(f, s, r)}
<1>1. SUFFICES ASSUME T # {} PROVE FALSE
  OBVIOUS
<1>2. PICK s \in T : \A t \in T : ~ (t \subseteq s /\ t # s)
  <2>1. T \in SUBSET (SUBSET S)
    OBVIOUS
  <2> HIDE DEF T
  <2> QED BY <1>1, <2>1, SmallestSubset
<1> DEFINE sol(t) == CHOOSE r : SummedBy(f, t, r)
           v(t) == IF t = {} THEN 0 ELSE f[Taken(t)] + sol(t \ {Taken(t)})[t \ {Taken(t)}]
           g == [t \in SUBSET s |-> v(t)]
<1>3. ASSUME NEW t \in SUBSET s, t # s
      PROVE  SummedBy(f, t, sol(t))
  <2>1. t \notin T
    BY <1>2, <1>3
  <2>2. \E r : SummedBy(f, t, r)
    BY <2>1
  <2> QED BY <2>2
<1>4. ASSUME NEW t \in SUBSET s
      PROVE  v(t) = IF t = {} THEN 0 ELSE f[Taken(t)] + g[t \ {Taken(t)}]
  <2>1. CASE t = {}
    BY <2>1
  <2>2. CASE t # {}
    <3> DEFINE u == t \ {Taken(t)}
    <3>1. Taken(t) \in t
      BY <2>2 DEF Taken
    <3>2. u \in SUBSET s /\ u # s
      BY <3>1
    <3>3. SummedBy(f, u, sol(u)) /\ IsFiniteSet(u)
      BY <3>2, <1>3, FS_Subset
    <3>4. sol(u)[u] = v(u)
      <4>1. CASE u = {}
        BY <3>3, <4>1 DEF SummedBy
      <4>2. CASE u # {}
        <5> DEFINE w == u \ {Taken(u)}
        <5>1. Taken(u) \in u
          BY <4>2 DEF Taken
        <5>2. w \in SUBSET s /\ w # s /\ w \subseteq u
          BY <3>2, <5>1
        <5>3. SummedBy(f, w, sol(w)) /\ IsFiniteSet(w)
          BY <5>2, <1>3, FS_Subset
        <5> HIDE DEF w, u, sol
        <5>4. sol(w)[w] = sol(u)[w]
          BY <5>2, <5>3, <3>3, SumsAgree
        <5>5. sol(u)[u] = f[Taken(u)] + sol(u)[w]
          BY <3>3, <4>2 DEF SummedBy, w
        <5> QED BY <5>4, <5>5, <4>2 DEF w
      <4> QED BY <4>1, <4>2
    <3>5. g[u] = v(u)
      BY <3>2
    <3> QED BY <2>2, <3>4, <3>5
  <2> QED BY <2>1, <2>2
<1>5. SummedBy(f, s, g)
  <2> HIDE DEF v
  <2>1. g = [t \in SUBSET s |-> IF t = {} THEN 0 ELSE f[Taken(t)] + g[t \ {Taken(t)}]]
    BY <1>4
  <2> QED BY <2>1 DEF SummedBy
<1> QED BY <1>2, <1>5

(* The sum over the empty set is 0.                                         *)
LEMMA SumEmpty == ASSUME NEW f PROVE SumFunctionOnSet(f, {}) = 0
<1>1. \E r : SummedBy(f, {}, r)
  BY SumsExist, FS_EmptySet
<1>2. SummedBy(f, {}, CHOOSE r : SummedBy(f, {}, r))
  BY <1>1
<1> QED BY <1>2, SumIsChosen DEF SummedBy

(* The sum over a set that is not empty takes one element out.              *)
LEMMA SumNext ==
  ASSUME NEW f, NEW S, IsFiniteSet(S), S # {}
  PROVE  /\ Taken(S) \in S
         /\ SumFunctionOnSet(f, S)
              = f[Taken(S)] + SumFunctionOnSet(f, S \ {Taken(S)})
<1>1. Taken(S) \in S
  BY DEF Taken
<1> DEFINE U == S \ {Taken(S)}
<1>2. IsFiniteSet(U)
  BY FS_RemoveElement
<1>3. PICK q : q = (CHOOSE r : SummedBy(f, S, r))
  OBVIOUS
<1>4. PICK p : p = (CHOOSE r : SummedBy(f, U, r))
  OBVIOUS
<1>5. SummedBy(f, S, q)
  BY <1>3, SumsExist
<1>6. SummedBy(f, U, p)
  BY <1>2, <1>4, SumsExist
<1>7. p[U] = q[U]
  BY <1>2, <1>5, <1>6, SumsAgree
<1>8. q[S] = f[Taken(S)] + q[U]
  <2>1. S \in SUBSET S
    OBVIOUS
  <2> QED BY <2>1, <1>5 DEF SummedBy
<1>9. SumFunctionOnSet(f, S) = q[S]
  BY <1>3, SumIsChosen
<1>10. SumFunctionOnSet(f, U) = p[U]
  BY <1>4, SumIsChosen
<1> QED BY <1>1, <1>7, <1>8, <1>9, <1>10

(* A sum of integers is an integer.                                         *)
LEMMA SumInt ==
  ASSUME NEW f, NEW S, IsFiniteSet(S), \A x \in S : f[x] \in Int
  PROVE  SumFunctionOnSet(f, S) \in Int
<1> DEFINE T == {s \in SUBSET S : SumFunctionOnSet(f, s) \notin Int}
<1>1. SUFFICES ASSUME T # {} PROVE FALSE
  OBVIOUS
<1>2. PICK s \in T : \A t \in T : ~ (t \subseteq s /\ t # s)
  <2>1. T \in SUBSET (SUBSET S)
    OBVIOUS
  <2> HIDE DEF T
  <2> QED BY <1>1, <2>1, SmallestSubset
<1>3. IsFiniteSet(s) /\ s # {}
  <2>1. SumFunctionOnSet(f, {}) = 0
    BY SumEmpty
  <2>2. s # {}
    <3>1. SumFunctionOnSet(f, s) \notin Int
      OBVIOUS
    <3>2. 0 \in Int
      OBVIOUS
    <3> QED BY ONLY <2>1, <3>1, <3>2
  <2> QED BY <2>2, FS_Subset
<1>4. /\ Taken(s) \in s
      /\ SumFunctionOnSet(f, s) = f[Taken(s)] + SumFunctionOnSet(f, s \ {Taken(s)})
  BY <1>3, SumNext
<1>5. SumFunctionOnSet(f, s \ {Taken(s)}) \in Int
  BY <1>2, <1>4
<1> QED BY <1>2, <1>4, <1>5

(* The order in which the elements are taken does not matter: the sum takes *)
(* out any one of them.                                                     *)
LEMMA SumRemove ==
  ASSUME NEW f, NEW S, IsFiniteSet(S), \A y \in S : f[y] \in Int, NEW x \in S
  PROVE  SumFunctionOnSet(f, S) = f[x] + SumFunctionOnSet(f, S \ {x})
<1> DEFINE Splits(s) == \A y \in s :
             SumFunctionOnSet(f, s) = f[y] + SumFunctionOnSet(f, s \ {y})
           T == {s \in SUBSET S : ~ Splits(s)}
<1>1. SUFFICES ASSUME T # {} PROVE FALSE
  OBVIOUS
<1>2. PICK s \in T : \A t \in T : ~ (t \subseteq s /\ t # s)
  <2>1. T \in SUBSET (SUBSET S)
    OBVIOUS
  <2> HIDE DEF T
  <2> QED BY <1>1, <2>1, SmallestSubset
<1>3. IsFiniteSet(s)
  BY <1>2, FS_Subset
<1>4. PICK y \in s :
        SumFunctionOnSet(f, s) # f[y] + SumFunctionOnSet(f, s \ {y})
  BY <1>2
<1> DEFINE z == Taken(s)
           rest == (s \ {y}) \ {z}
<1>5. z \in s /\ SumFunctionOnSet(f, s) = f[z] + SumFunctionOnSet(f, s \ {z})
  BY <1>3, <1>4, SumNext
<1> HIDE DEF z
<1>6. y # z
  BY <1>4, <1>5
<1>7. Splits(s \ {z}) /\ Splits(s \ {y})
  BY <1>2, <1>4, <1>5
<1>8. SumFunctionOnSet(f, s \ {z}) = f[y] + SumFunctionOnSet(f, rest)
  <2>1. (s \ {z}) \ {y} = rest
    OBVIOUS
  <2> QED BY <1>6, <1>7, <2>1
<1>9. SumFunctionOnSet(f, s \ {y}) = f[z] + SumFunctionOnSet(f, rest)
  BY <1>5, <1>6, <1>7
<1>10. SumFunctionOnSet(f, rest) \in Int /\ f[y] \in Int /\ f[z] \in Int
  <2>1. IsFiniteSet(rest) /\ rest \subseteq S
    BY <1>3, FS_RemoveElement
  <2> QED BY <2>1, <1>5, SumInt
<1> HIDE DEF rest
<1> QED BY <1>4, <1>5, <1>8, <1>9, <1>10

(* An element that comes in adds its value.                                 *)
LEMMA SumInsert ==
  ASSUME NEW f, NEW S, IsFiniteSet(S), NEW x, x \notin S,
         \A y \in S \cup {x} : f[y] \in Int
  PROVE  SumFunctionOnSet(f, S \cup {x}) = f[x] + SumFunctionOnSet(f, S)
<1>1. IsFiniteSet(S \cup {x})
  BY FS_AddElement
<1>2. (S \cup {x}) \ {x} = S
  OBVIOUS
<1> QED BY <1>1, <1>2, SumRemove

(* Functions that agree on a set have the same sum over it.                 *)
LEMMA SumAgree ==
  ASSUME NEW f, NEW g, NEW S, IsFiniteSet(S), \A x \in S : f[x] = g[x]
  PROVE  SumFunctionOnSet(f, S) = SumFunctionOnSet(g, S)
<1> DEFINE T == {s \in SUBSET S : SumFunctionOnSet(f, s) # SumFunctionOnSet(g, s)}
<1>1. SUFFICES ASSUME T # {} PROVE FALSE
  OBVIOUS
<1>2. PICK s \in T : \A t \in T : ~ (t \subseteq s /\ t # s)
  <2>1. T \in SUBSET (SUBSET S)
    OBVIOUS
  <2> HIDE DEF T
  <2> QED BY <1>1, <2>1, SmallestSubset
<1>3. IsFiniteSet(s) /\ s # {}
  BY <1>2, FS_Subset, SumEmpty
<1>4. /\ Taken(s) \in s
      /\ SumFunctionOnSet(f, s) = f[Taken(s)] + SumFunctionOnSet(f, s \ {Taken(s)})
      /\ SumFunctionOnSet(g, s) = g[Taken(s)] + SumFunctionOnSet(g, s \ {Taken(s)})
  BY <1>3, SumNext
<1>5. SumFunctionOnSet(f, s \ {Taken(s)}) = SumFunctionOnSet(g, s \ {Taken(s)})
  BY <1>2, <1>4
<1> QED BY <1>2, <1>4, <1>5

(* A function that is nowhere larger has a sum that is not larger.          *)
LEMMA SumLeq ==
  ASSUME NEW f, NEW g, NEW S, IsFiniteSet(S),
         \A x \in S : f[x] \in Int /\ g[x] \in Int /\ f[x] <= g[x]
  PROVE  SumFunctionOnSet(f, S) <= SumFunctionOnSet(g, S)
<1> DEFINE T == {s \in SUBSET S :
             ~ (SumFunctionOnSet(f, s) <= SumFunctionOnSet(g, s))}
<1>1. SUFFICES ASSUME T # {} PROVE FALSE
  OBVIOUS
<1>2. PICK s \in T : \A t \in T : ~ (t \subseteq s /\ t # s)
  <2>1. T \in SUBSET (SUBSET S)
    OBVIOUS
  <2> HIDE DEF T
  <2> QED BY <1>1, <2>1, SmallestSubset
<1>3. IsFiniteSet(s) /\ s # {}
  <2>1. SumFunctionOnSet(f, {}) = 0 /\ SumFunctionOnSet(g, {}) = 0
    BY SumEmpty
  <2>2. s # {}
    <3>1. ~ (SumFunctionOnSet(f, s) <= SumFunctionOnSet(g, s))
      OBVIOUS
    <3>2. 0 <= 0
      OBVIOUS
    <3> QED BY ONLY <2>1, <3>1, <3>2
  <2> QED BY <2>2, FS_Subset
<1>4. /\ Taken(s) \in s
      /\ SumFunctionOnSet(f, s) = f[Taken(s)] + SumFunctionOnSet(f, s \ {Taken(s)})
      /\ SumFunctionOnSet(g, s) = g[Taken(s)] + SumFunctionOnSet(g, s \ {Taken(s)})
  BY <1>3, SumNext
<1>5. SumFunctionOnSet(f, s \ {Taken(s)}) <= SumFunctionOnSet(g, s \ {Taken(s)})
  BY <1>2, <1>4
<1>6. /\ SumFunctionOnSet(f, s \ {Taken(s)}) \in Int
      /\ SumFunctionOnSet(g, s \ {Taken(s)}) \in Int
  <2>1. IsFiniteSet(s \ {Taken(s)}) /\ s \ {Taken(s)} \subseteq S
    BY <1>3, FS_RemoveElement
  <2> QED BY <2>1, SumInt
<1>7. f[Taken(s)] \in Int /\ g[Taken(s)] \in Int /\ f[Taken(s)] <= g[Taken(s)]
  BY <1>4
<1>8. ~ (SumFunctionOnSet(f, s) <= SumFunctionOnSet(g, s))
  BY <1>2
<1> QED BY <1>4, <1>5, <1>6, <1>7, <1>8

(* The sum of a function that is 0 everywhere is 0.                         *)
LEMMA SumZero ==
  ASSUME NEW f, NEW S, IsFiniteSet(S), \A x \in S : f[x] = 0
  PROVE  SumFunctionOnSet(f, S) = 0
<1> DEFINE T == {s \in SUBSET S : SumFunctionOnSet(f, s) # 0}
<1>1. SUFFICES ASSUME T # {} PROVE FALSE
  OBVIOUS
<1>2. PICK s \in T : \A t \in T : ~ (t \subseteq s /\ t # s)
  <2>1. T \in SUBSET (SUBSET S)
    OBVIOUS
  <2> HIDE DEF T
  <2> QED BY <1>1, <2>1, SmallestSubset
<1>3. IsFiniteSet(s) /\ s # {}
  BY <1>2, FS_Subset, SumEmpty
<1>4. /\ Taken(s) \in s
      /\ SumFunctionOnSet(f, s) = f[Taken(s)] + SumFunctionOnSet(f, s \ {Taken(s)})
  BY <1>3, SumNext
<1>5. SumFunctionOnSet(f, s \ {Taken(s)}) = 0
  BY <1>2, <1>4
<1> QED BY <1>2, <1>4, <1>5

(* A sum of naturals is a natural, and no smaller than any of them.         *)
LEMMA SumNat ==
  ASSUME NEW f, NEW S, IsFiniteSet(S), \A x \in S : f[x] \in Nat
  PROVE  /\ SumFunctionOnSet(f, S) \in Nat
         /\ \A x \in S : f[x] <= SumFunctionOnSet(f, S)
<1> DEFINE zero == [x \in S |-> 0]
<1>1. ASSUME NEW s \in SUBSET S
      PROVE  SumFunctionOnSet(f, s) \in Nat
  <2>1. IsFiniteSet(s)
    BY FS_Subset
  <2>2. \A x \in s : zero[x] = 0
    OBVIOUS
  <2> HIDE DEF zero
  <2>3. SumFunctionOnSet(zero, s) = 0
    BY <2>1, <2>2, SumZero
  <2>4. \A x \in s : zero[x] \in Int /\ f[x] \in Int /\ zero[x] <= f[x]
    BY <2>2
  <2>5. SumFunctionOnSet(zero, s) <= SumFunctionOnSet(f, s)
    BY <2>1, <2>4, SumLeq
  <2>6. SumFunctionOnSet(f, s) \in Int
    BY <2>1, <2>4, SumInt
  <2> QED BY <2>3, <2>5, <2>6
<1>2. ASSUME NEW x \in S
      PROVE  f[x] <= SumFunctionOnSet(f, S)
  <2>1. SumFunctionOnSet(f, S) = f[x] + SumFunctionOnSet(f, S \ {x})
    BY SumRemove
  <2>2. SumFunctionOnSet(f, S \ {x}) \in Nat
    BY <1>1
  <2> QED BY <2>1, <2>2
<1> QED BY <1>1, <1>2

(* Two functions that differ at one element: the sums differ by as much.    *)
LEMMA SumOneChanged ==
  ASSUME NEW f, NEW g, NEW S, IsFiniteSet(S), NEW x \in S,
         \A y \in S : f[y] \in Int /\ g[y] \in Int,
         \A y \in S \ {x} : g[y] = f[y]
  PROVE  SumFunctionOnSet(g, S) = SumFunctionOnSet(f, S) - f[x] + g[x]
<1>1. IsFiniteSet(S \ {x})
  BY FS_RemoveElement
<1>2. SumFunctionOnSet(g, S \ {x}) = SumFunctionOnSet(f, S \ {x})
  BY <1>1, SumAgree
<1>3. SumFunctionOnSet(f, S) = f[x] + SumFunctionOnSet(f, S \ {x})
  BY SumRemove
<1>4. SumFunctionOnSet(g, S) = g[x] + SumFunctionOnSet(g, S \ {x})
  BY SumRemove
<1>5. SumFunctionOnSet(f, S \ {x}) \in Int /\ f[x] \in Int /\ g[x] \in Int
  BY <1>1, SumInt
<1> QED BY <1>2, <1>3, <1>4, <1>5

(* The same for SumFunction, the sum over the whole domain.                 *)
LEMMA SumFunctionInt ==
  ASSUME NEW S, IsFiniteSet(S), NEW f \in [S -> Int]
  PROVE  SumFunction(f) \in Int
BY SumInt DEF SumFunction

LEMMA SumFunctionNat ==
  ASSUME NEW S, IsFiniteSet(S), NEW f \in [S -> Nat]
  PROVE  /\ SumFunction(f) \in Nat
         /\ \A x \in S : f[x] <= SumFunction(f)
BY SumNat DEF SumFunction

LEMMA SumFunctionZero ==
  ASSUME NEW S, IsFiniteSet(S)
  PROVE  SumFunction([x \in S |-> 0]) = 0
<1> DEFINE f == [x \in S |-> 0]
<1>1. DOMAIN f = S /\ \A x \in S : f[x] = 0
  OBVIOUS
<1> HIDE DEF f
<1>2. SumFunctionOnSet(f, S) = 0
  BY <1>1, SumZero
<1>3. SumFunction(f) = 0
  BY <1>1, <1>2 DEF SumFunction
<1> QED BY <1>3 DEF f

LEMMA SumFunctionLeq ==
  ASSUME NEW S, IsFiniteSet(S), NEW f \in [S -> Int], NEW g \in [S -> Int],
         \A x \in S : f[x] <= g[x]
  PROVE  SumFunction(f) <= SumFunction(g)
BY SumLeq DEF SumFunction

LEMMA SumFunctionUpdate ==
  ASSUME NEW S, IsFiniteSet(S), NEW f \in [S -> Int], NEW g \in [S -> Int],
         NEW x \in S, \A y \in S \ {x} : g[y] = f[y]
  PROVE  SumFunction(g) = SumFunction(f) - f[x] + g[x]
BY SumOneChanged DEF SumFunction

(* A change at two elements: what a transfer between them does to the sum.  *)
LEMMA SumFunctionUpdateTwo ==
  ASSUME NEW S, IsFiniteSet(S), NEW f \in [S -> Int], NEW g \in [S -> Int],
         NEW x \in S, NEW y \in S, x # y,
         \A z \in S \ {x, y} : g[z] = f[z]
  PROVE  SumFunction(g) = SumFunction(f) - f[x] - f[y] + g[x] + g[y]
<1> DEFINE h == [f EXCEPT ![x] = g[x]]
<1>1. h \in [S -> Int] /\ h[x] = g[x] /\ h[y] = f[y]
  OBVIOUS
<1>2. \A z \in S \ {x} : h[z] = f[z]
  OBVIOUS
<1>3. \A z \in S \ {y} : g[z] = h[z]
  OBVIOUS
<1> HIDE DEF h
<1>4. SumFunction(h) = SumFunction(f) - f[x] + g[x]
  BY <1>1, <1>2, SumFunctionUpdate
<1>5. SumFunction(g) = SumFunction(h) - h[y] + g[y]
  BY <1>1, <1>3, SumFunctionUpdate
<1>6. SumFunction(f) \in Int
  BY SumFunctionInt
<1> QED BY <1>1, <1>4, <1>5, <1>6

(* Over one more element: what enlarging the domain adds.                   *)
LEMMA SumFunctionInsert ==
  ASSUME NEW S, IsFiniteSet(S), NEW x, x \notin S,
         NEW f \in [S -> Int], NEW g \in [S \cup {x} -> Int],
         \A y \in S : g[y] = f[y]
  PROVE  SumFunction(g) = g[x] + SumFunction(f)
<1>1. SumFunctionOnSet(g, S \cup {x}) = g[x] + SumFunctionOnSet(g, S)
  BY SumInsert
<1>2. SumFunctionOnSet(g, S) = SumFunctionOnSet(f, S)
  BY SumAgree
<1> QED BY <1>1, <1>2 DEF SumFunction

(* Renaming the elements does not change the sum: a queue that drops its    *)
(* first entries sums the others at new positions.                          *)
LEMMA SumRenamed ==
  ASSUME NEW f, NEW g, NEW S, IsFiniteSet(S), NEW h,
         \A x \in S : f[x] \in Int /\ g[h[x]] = f[x],
         \A x, y \in S : h[x] = h[y] => x = y
  PROVE  SumFunctionOnSet(g, {h[x] : x \in S}) = SumFunctionOnSet(f, S)
<1> DEFINE Image(s) == {h[x] : x \in s}
           Fine(s) == /\ IsFiniteSet(Image(s))
                      /\ SumFunctionOnSet(g, Image(s)) = SumFunctionOnSet(f, s)
           T == {s \in SUBSET S : ~ Fine(s)}
<1>1. SUFFICES ASSUME T # {} PROVE FALSE
  OBVIOUS
<1>2. PICK s \in T : \A t \in T : ~ (t \subseteq s /\ t # s)
  <2>1. T \in SUBSET (SUBSET S)
    OBVIOUS
  <2> HIDE DEF T
  <2> QED BY <1>1, <2>1, SmallestSubset
<1>3. s \subseteq S /\ IsFiniteSet(s)
  BY <1>2, FS_Subset
<1>4. CASE s = {}
  <2>1. Image(s) = {}
    BY <1>4
  <2> QED BY <1>2, <1>4, <2>1, SumEmpty, FS_EmptySet
<1>5. CASE s # {}
  <2>1. PICK x \in s : TRUE
    BY <1>5
  <2>2. Fine(s \ {x})
    BY <1>2, <1>3, <2>1
  <2>3. /\ Image(s) = Image(s \ {x}) \cup {h[x]}
        /\ h[x] \notin Image(s \ {x})
    BY <1>3, <2>1
  <2>4. \A y \in Image(s) : g[y] \in Int
    BY <1>3
  <2>5. SumFunctionOnSet(f, s) = f[x] + SumFunctionOnSet(f, s \ {x})
    BY <1>3, <2>1, SumRemove
  <2> DEFINE rest == Image(s \ {x})
  <2>6. IsFiniteSet(rest) /\ SumFunctionOnSet(g, rest) = SumFunctionOnSet(f, s \ {x})
    BY <2>2
  <2>7. Image(s) = rest \cup {h[x]} /\ h[x] \notin rest /\ g[h[x]] = f[x]
    BY <1>3, <2>1, <2>3
  <2>8. \A y \in rest \cup {h[x]} : g[y] \in Int
    BY <2>4, <2>7
  <2> HIDE DEF rest
  <2>9. SumFunctionOnSet(g, rest \cup {h[x]}) = g[h[x]] + SumFunctionOnSet(g, rest)
    BY <2>6, <2>7, <2>8, SumInsert
  <2>10. IsFiniteSet(rest \cup {h[x]})
    BY <2>6, FS_AddElement
  <2> QED BY <1>2, <2>5, <2>6, <2>7, <2>9, <2>10
<1> QED BY <1>4, <1>5

(* Two sets without a common element.                                       *)
LEMMA SumUnion ==
  ASSUME NEW f, NEW S, NEW R, IsFiniteSet(S), IsFiniteSet(R), S \cap R = {},
         \A x \in S \cup R : f[x] \in Int
  PROVE  SumFunctionOnSet(f, S \cup R)
           = SumFunctionOnSet(f, S) + SumFunctionOnSet(f, R)
<1> DEFINE T == {r \in SUBSET R : SumFunctionOnSet(f, S \cup r)
                    # SumFunctionOnSet(f, S) + SumFunctionOnSet(f, r)}
<1>1. SUFFICES ASSUME T # {} PROVE FALSE
  OBVIOUS
<1>2. PICK r \in T : \A t \in T : ~ (t \subseteq r /\ t # r)
  <2>1. T \in SUBSET (SUBSET R)
    OBVIOUS
  <2> HIDE DEF T
  <2> QED BY <1>1, <2>1, SmallestSubset
<1>3. r \subseteq R /\ IsFiniteSet(r) /\ IsFiniteSet(S \cup r)
  BY <1>2, FS_Subset, FS_Union
<1>4. SumFunctionOnSet(f, S) \in Int
  BY SumInt
<1>5. CASE r = {}
  BY <1>2, <1>4, <1>5, SumEmpty
<1>6. CASE r # {}
  <2>0. SumFunctionOnSet(f, S \cup r)
           # SumFunctionOnSet(f, S) + SumFunctionOnSet(f, r)
    BY <1>2
  <2>1. PICK x \in r : TRUE
    BY <1>6
  <2> DEFINE q == r \ {x}
  <2>2. SumFunctionOnSet(f, S \cup q) = SumFunctionOnSet(f, S) + SumFunctionOnSet(f, q)
    BY <1>2, <1>3, <2>1
  <2>3. SumFunctionOnSet(f, r) = f[x] + SumFunctionOnSet(f, q)
    BY <1>3, <2>1, SumRemove
  <2>4. (S \cup r) \ {x} = S \cup q
    BY <1>3, <2>1
  <2>5. SumFunctionOnSet(f, S \cup r) = f[x] + SumFunctionOnSet(f, (S \cup r) \ {x})
    <3> DEFINE all == S \cup r
    <3>1. IsFiniteSet(all) /\ x \in all /\ \A y \in all : f[y] \in Int
      BY <1>3, <2>1
    <3> HIDE DEF all
    <3>2. SumFunctionOnSet(f, all) = f[x] + SumFunctionOnSet(f, all \ {x})
      BY <3>1, SumRemove
    <3> QED BY <3>2 DEF all
  <2>6. /\ f[x] \in Int /\ SumFunctionOnSet(f, q) \in Int
    <3>1. IsFiniteSet(q) /\ q \subseteq R
      BY <1>3, FS_Subset
    <3> QED BY <1>3, <2>1, <3>1, SumInt
  <2>7. SumFunctionOnSet(f, S \cup r)
          = f[x] + (SumFunctionOnSet(f, S) + SumFunctionOnSet(f, q))
    BY <2>2, <2>4, <2>5
  <2> DEFINE A == SumFunctionOnSet(f, S \cup r)
             B == SumFunctionOnSet(f, S)
             C == SumFunctionOnSet(f, r)
             D == SumFunctionOnSet(f, q)
  <2>8. A # B + C /\ A = f[x] + (B + D) /\ C = f[x] + D
    BY <2>0, <2>3, <2>7
  <2>9. B \in Int /\ D \in Int /\ f[x] \in Int
    BY <1>4, <2>6
  <2> HIDE DEF A, B, C, D
  <2> QED BY ONLY <2>8, <2>9
<1> QED BY <1>5, <1>6

(* A set of natural numbers that is not empty has a smallest one.           *)
LEMMA SmallestNumber ==
  ASSUME NEW S \in SUBSET Nat, S # {}
  PROVE  \E m \in S : \A n \in S : m <= n
<1>1. PICK k \in S : TRUE
  OBVIOUS
<1> DEFINE T == {0..i : i \in {n \in S : n <= k}}
<1>2. T \in SUBSET (SUBSET (0..k)) /\ T # {} /\ IsFiniteSet(0..k)
  <2>1. 0..k \in T
    OBVIOUS
  <2>2. \A i \in Nat : i <= k => 0..i \subseteq 0..k
    OBVIOUS
  <2>3. T \subseteq SUBSET (0..k)
    BY <2>2
  <2>4. IsFiniteSet(0..k)
    BY FS_Interval
  <2> HIDE DEF T
  <2> QED BY <2>1, <2>3, <2>4
<1> DEFINE D == 0..k
<1>6. T \in SUBSET (SUBSET D) /\ T # {} /\ IsFiniteSet(D)
  BY <1>2
<1> HIDE DEF T, D
<1>3. PICK t \in T : \A u \in T : ~ (u \subseteq t /\ u # t)
  BY <1>6, SmallestSubset
<1>4. PICK m \in S : m <= k /\ t = 0..m
  BY <1>3 DEF T
<1>5. ASSUME NEW n \in S, n < m PROVE FALSE
  <2>1. 0..n \in T
    BY <1>4, <1>5, <1>1 DEF T
  <2>2. 0..n \subseteq t /\ m \notin 0..n /\ m \in t
    BY <1>4, <1>5
  <2> QED BY <1>3, <2>1, <2>2
<1> QED BY <1>5, <1>4

(* Elements whose value is zero may be left out.                            *)
LEMMA SumWithoutZeros ==
  ASSUME NEW f, NEW g, NEW S, IsFiniteSet(S), NEW R \in SUBSET S,
         \A x \in R : f[x] \in Int /\ g[x] = f[x],
         \A x \in S \ R : g[x] = 0
  PROVE  SumFunctionOnSet(g, S) = SumFunctionOnSet(f, R)
<1> DEFINE rest == S \ R
<1>1. /\ IsFiniteSet(R) /\ IsFiniteSet(rest)
      /\ S = R \cup rest /\ R \cap rest = {}
      /\ \A x \in R \cup rest : g[x] \in Int
      /\ \A x \in rest : g[x] = 0
  BY FS_Subset
<1> HIDE DEF rest
<1>2. SumFunctionOnSet(g, R \cup rest)
        = SumFunctionOnSet(g, R) + SumFunctionOnSet(g, rest)
  BY <1>1, SumUnion
<1>3. SumFunctionOnSet(g, rest) = 0
  BY <1>1, SumZero
<1>4. SumFunctionOnSet(g, R) = SumFunctionOnSet(f, R) /\ SumFunctionOnSet(g, R) \in Int
  BY <1>1, SumAgree, SumInt
<1>5. SumFunctionOnSet(g, R \cup rest) = SumFunctionOnSet(f, R)
  BY <1>2, <1>3, <1>4
<1> QED BY <1>1, <1>5

LEMMA Distribute ==
  ASSUME NEW c \in Int, NEW x \in Int, NEW y \in Int
  PROVE  c * (x + y) = c * x + c * y
BY SMT

LEMMA TimesInt ==
  ASSUME NEW x \in Int, NEW y \in Int
  PROVE  x * y \in Int
BY SMT

(* A sum of multiples is the multiple of the sum.                           *)
LEMMA SumTimes ==
  ASSUME NEW f, NEW g, NEW h, NEW S, IsFiniteSet(S), NEW c \in Int,
         \A x \in S : f[x] \in Int /\ g[x] \in Int /\ h[x] = f[x] + c * g[x]
  PROVE  SumFunctionOnSet(h, S)
           = SumFunctionOnSet(f, S) + c * SumFunctionOnSet(g, S)
<1> DEFINE Fine(s) == SumFunctionOnSet(h, s)
                        = SumFunctionOnSet(f, s) + c * SumFunctionOnSet(g, s)
           T == {s \in SUBSET S : ~ Fine(s)}
<1>1. SUFFICES ASSUME T # {} PROVE FALSE
  OBVIOUS
<1>2. PICK s \in T : \A t \in T : ~ (t \subseteq s /\ t # s)
  <2>1. T \in SUBSET (SUBSET S)
    OBVIOUS
  <2> HIDE DEF T
  <2> QED BY <1>1, <2>1, SmallestSubset
<1>3. s \subseteq S /\ IsFiniteSet(s) /\ ~ Fine(s)
  BY <1>2, FS_Subset
<1>4. s # {}
  <2>1. ASSUME s = {} PROVE FALSE
    <3>1. /\ SumFunctionOnSet(f, s) = 0 /\ SumFunctionOnSet(g, s) = 0
          /\ SumFunctionOnSet(h, s) = 0
      BY <2>1, SumEmpty
    <3>2. c * 0 = 0
      BY SMT
    <3>3. SumFunctionOnSet(f, s) + c * SumFunctionOnSet(g, s) = 0
      BY <3>1, <3>2
    <3> QED BY <1>3, <3>1, <3>3
  <2> QED BY <2>1
<1>5. PICK x \in s : TRUE
  BY <1>4
<1> DEFINE r == s \ {x}
<1>6. Fine(r) /\ r \subseteq S /\ IsFiniteSet(r)
  <2>1. r \subseteq S /\ IsFiniteSet(r)
    BY <1>3, FS_Subset
  <2>2. r \in SUBSET S /\ r \subseteq s /\ r # s
    BY <1>3, <1>5
  <2> QED BY <1>2, <2>1, <2>2
<1> DEFINE F == SumFunctionOnSet(f, r)
           G == SumFunctionOnSet(g, r)
           H == SumFunctionOnSet(h, r)
<1>7. F \in Int /\ G \in Int
  BY <1>6, SumInt
<1>8. /\ f[x] \in Int /\ g[x] \in Int /\ h[x] = f[x] + c * g[x]
      /\ c * g[x] \in Int /\ c * G \in Int
  BY <1>3, <1>5, <1>7, TimesInt
<1>9. \A y \in s : h[y] \in Int
  <2> TAKE y \in s
  <2>1. f[y] \in Int /\ g[y] \in Int /\ h[y] = f[y] + c * g[y]
    BY <1>3
  <2> QED BY <2>1, TimesInt
<1>10. /\ SumFunctionOnSet(f, s) = f[x] + F
       /\ SumFunctionOnSet(g, s) = g[x] + G
       /\ SumFunctionOnSet(h, s) = h[x] + H
  <2>1. SumFunctionOnSet(f, s) = f[x] + F
    BY <1>3, <1>5, SumRemove
  <2>2. SumFunctionOnSet(g, s) = g[x] + G
    BY <1>3, <1>5, SumRemove
  <2>3. SumFunctionOnSet(h, s) = h[x] + H
    BY <1>3, <1>5, <1>9, SumRemove
  <2> QED BY <2>1, <2>2, <2>3
<1>11. c * (g[x] + G) = c * g[x] + c * G
  BY <1>7, <1>8, Distribute
<1>12. H = F + c * G
  BY <1>6
<1> DEFINE cg == c * g[x]
           cG == c * G
<1>13. ~ (h[x] + H = (f[x] + F) + (cg + cG))
  BY <1>3, <1>10, <1>11
<1>14. /\ cg \in Int /\ cG \in Int /\ F \in Int /\ f[x] \in Int
       /\ h[x] = f[x] + cg /\ H = F + cG
  BY <1>7, <1>8, <1>12
<1> HIDE DEF cg, cG, F, G, H
<1> QED BY ONLY <1>13, <1>14

(* A sum of one number counts the elements.                                 *)
LEMMA SumConstant ==
  ASSUME NEW f, NEW S, IsFiniteSet(S), NEW c \in Int, \A x \in S : f[x] = c
  PROVE  SumFunctionOnSet(f, S) = c * Cardinality(S)
<1> DEFINE Fine(s) == SumFunctionOnSet(f, s) = c * Cardinality(s)
           T == {s \in SUBSET S : ~ Fine(s)}
<1>1. SUFFICES ASSUME T # {} PROVE FALSE
  OBVIOUS
<1>2. PICK s \in T : \A t \in T : ~ (t \subseteq s /\ t # s)
  <2>1. T \in SUBSET (SUBSET S)
    OBVIOUS
  <2> HIDE DEF T
  <2> QED BY <1>1, <2>1, SmallestSubset
<1>3. s \subseteq S /\ IsFiniteSet(s) /\ ~ Fine(s)
  BY <1>2, FS_Subset
<1>4. s # {}
  <2>1. ASSUME s = {} PROVE FALSE
    <3>1. SumFunctionOnSet(f, s) = 0 /\ Cardinality(s) = 0
      BY <2>1, SumEmpty, FS_EmptySet
    <3>2. c * 0 = 0
      BY SMT
    <3> QED BY <1>3, <3>1, <3>2
  <2> QED BY <2>1
<1>5. PICK x \in s : TRUE
  BY <1>4
<1> DEFINE r == s \ {x}
           k == Cardinality(r)
<1>6. Fine(r)
  <2>1. r \in SUBSET S /\ r \subseteq s /\ r # s
    BY <1>3, <1>5
  <2> QED BY <1>2, <2>1
<1>7. /\ IsFiniteSet(r) /\ k \in Nat /\ Cardinality(s) = k + 1
  <2>1. IsFiniteSet(r) /\ k = Cardinality(s) - 1
    BY <1>3, <1>5, FS_RemoveElement
  <2>2. k \in Nat /\ Cardinality(s) \in Nat
    BY <1>3, <2>1, FS_CardinalityType
  <2> QED BY <2>1, <2>2
<1>8. \A y \in s : f[y] \in Int
  BY <1>3
<1>9. SumFunctionOnSet(f, s) = f[x] + SumFunctionOnSet(f, r)
  BY <1>3, <1>5, <1>8, SumRemove
<1> HIDE DEF r, k
<1>10. f[x] = c /\ SumFunctionOnSet(f, r) = c * k
  BY <1>3, <1>5, <1>6 DEF k
<1>11. c * (k + 1) = c * k + c * 1
  BY <1>7, Distribute
<1>12. c * k \in Int /\ c * 1 = c
  BY <1>7, TimesInt
<1>13. SumFunctionOnSet(f, s) = c * Cardinality(s)
  BY <1>7, <1>9, <1>10, <1>11, <1>12
<1> QED BY <1>3, <1>13

LEMMA SumFunctionConstant ==
  ASSUME NEW S, IsFiniteSet(S), NEW c \in Int
  PROVE  SumFunction([x \in S |-> c]) = c * Cardinality(S)
<1> DEFINE f == [x \in S |-> c]
<1>1. DOMAIN f = S /\ \A x \in S : f[x] = c
  OBVIOUS
<1> HIDE DEF f
<1>2. SumFunctionOnSet(f, S) = c * Cardinality(S)
  BY <1>1, SumConstant
<1>3. SumFunction(f) = c * Cardinality(S)
  BY <1>1, <1>2 DEF SumFunction
<1> QED BY <1>3 DEF f
=============================================================================
