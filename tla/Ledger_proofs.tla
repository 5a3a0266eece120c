--------------------------- MODULE Ledger_proofs ---------------------------
(***************************************************************************)
(* Proofs about what the contracts' books add up to, for every set of      *)
(* wallets and every amount: the supply against the balances and against   *)
(* the logs, and what the rate limit lets through.  The sums are those of  *)
(* the Functions module, defined by recursion over the subsets of a set;   *)
(* the facts about them rest on every non-empty family of subsets of a     *)
(* finite set having a smallest member, so no induction rule is needed.    *)
(***************************************************************************)
EXTENDS MCGoldContracts, GoldContracts_proofs

-----------------------------------------------------------------------------
(* Sums over finite sets *)

First(s) == CHOOSE x \in s : TRUE

\* The function SumFunctionOnSet is defined by: the sums of v over the subsets of S.
IsSum(f, v, S) == f = [s \in SUBSET S |-> IF s = {} THEN 0 ELSE v[First(s)] + f[s \ {First(s)}]]

\* It is the one SumFunctionOnSet applies to S.
LEMMA SumIsSum == \A v, S : SumFunctionOnSet(v, S) = (CHOOSE f : IsSum(f, v, S))[S]
  BY DEF SumFunctionOnSet, FoldFunctionOnSet, MapThenFoldSet, IsSum, First

\* What is numbered up to some number is finite.
LEMMA FiniteUpTo == \A n \in Nat : IsFiniteSet(1..n)
  BY FS_Interval

\* Taking the first element out leaves a strictly smaller set.
LEMMA FirstIn == \A s : s # {} => First(s) \in s /\ s \ {First(s)} \subseteq s /\ s \ {First(s)} # s
  BY DEF First

\* Induction over the subsets of a finite set: what is false of some is false of one
\* whose strict subsets it is true of.
LEMMA SmallestSubset ==
    ASSUME NEW S, IsFiniteSet(S), NEW T \in SUBSET SUBSET S, T # {}
    PROVE  \E s \in T : \A t \in T : t \subseteq s => t = s
  <1>1. IsWellFoundedOn(StrictSubsetOrdering(S), SUBSET S)
    BY FS_StrictSubsetOrderingWellFounded, FS_FiniteSubsetsOfFinite
  <1>2. PICK s \in T : \A t \in T : ~(<<t, s>> \in StrictSubsetOrdering(S))
    BY <1>1, WFMin
  <1>3. ASSUME NEW t \in T, t \subseteq s PROVE t = s
    <2>1. <<t, s>> \in (SUBSET S) \X (SUBSET S) /\ <<t, s>>[1] = t /\ <<t, s>>[2] = s
      OBVIOUS
    <2> QED BY <1>2, <1>3, <2>1 DEF StrictSubsetOrdering
  <1> QED BY <1>3

\* Two such functions agree where both are defined.
LEMMA SumsAgree ==
    ASSUME NEW S, IsFiniteSet(S), NEW v, NEW A \in SUBSET S, NEW B \in SUBSET S,
           NEW f, NEW g, IsSum(f, v, A), IsSum(g, v, B)
    PROVE  \A s \in (SUBSET A) \cap (SUBSET B) : f[s] = g[s]
  <1> DEFINE T == {s \in (SUBSET A) \cap (SUBSET B) : f[s] # g[s]}
  <1> SUFFICES ASSUME T # {} PROVE FALSE
    OBVIOUS
  <1>1. T \in SUBSET SUBSET S
    OBVIOUS
  <1>2. PICK s \in T : \A t \in T : t \subseteq s => t = s
    <2> HIDE DEF T
    <2> QED BY <1>1, SmallestSubset
  <1>3. s \in SUBSET A /\ s \in SUBSET B /\ f[s] # g[s]
    BY <1>2
  <1>4. /\ f[s] = IF s = {} THEN 0 ELSE v[First(s)] + f[s \ {First(s)}]
        /\ g[s] = IF s = {} THEN 0 ELSE v[First(s)] + g[s \ {First(s)}]
    BY <1>3 DEF IsSum
  <1>5. s # {}
    BY <1>3, <1>4
  <1>6. s \ {First(s)} \notin T
    BY <1>2, <1>5, FirstIn
  <1>7. f[s \ {First(s)}] = g[s \ {First(s)}]
    BY <1>3, <1>6
  <1> QED BY <1>3, <1>4, <1>5, <1>7

\* Such a function exists over the subsets of every finite set.
LEMMA SumExists ==
    ASSUME NEW S, IsFiniteSet(S), NEW v, \A x \in S : v[x] \in Int
    PROVE  \E f \in [SUBSET S -> Int] : IsSum(f, v, S)
  <1> DEFINE T == {s \in SUBSET S : ~\E f \in [SUBSET s -> Int] : IsSum(f, v, s)}
  <1> SUFFICES ASSUME T # {} PROVE FALSE
    OBVIOUS
  <1>1. T \in SUBSET SUBSET S
    OBVIOUS
  <1>2. PICK s \in T : \A t \in T : t \subseteq s => t = s
    <2> HIDE DEF T
    <2> QED BY <1>1, SmallestSubset
  <1>3. s \in SUBSET S /\ ~\E f \in [SUBSET s -> Int] : IsSum(f, v, s)
    BY <1>2
  <1> DEFINE G(t) == CHOOSE f : f \in [SUBSET t -> Int] /\ IsSum(f, v, t)
  <1>4. ASSUME NEW t \in SUBSET s, t # s PROVE G(t) \in [SUBSET t -> Int] /\ IsSum(G(t), v, t)
    <2>1. t \notin T /\ t \in SUBSET S
      BY <1>2, <1>3, <1>4
    <2>2. \E f : f \in [SUBSET t -> Int] /\ IsSum(f, v, t)
      BY <2>1
    <2> QED BY <2>2
  <1> HIDE DEF T, G
  <1> DEFINE Rest(t) == t \ {First(t)}
             F == [t \in SUBSET s |-> IF t = {} THEN 0 ELSE v[First(t)] + G(Rest(t))[Rest(t)]]
  <1>5. ASSUME NEW t \in SUBSET s, t # {}
        PROVE  /\ Rest(t) \in SUBSET s /\ Rest(t) # s /\ Rest(t) \in SUBSET Rest(t)
               /\ First(t) \in S
    BY <1>3, <1>5, FirstIn
  <1>6. F \in [SUBSET s -> Int]
    <2>1. ASSUME NEW t \in SUBSET s, t # {} PROVE v[First(t)] + G(Rest(t))[Rest(t)] \in Int
      <3>1. Rest(t) \in SUBSET s /\ Rest(t) # s /\ Rest(t) \in SUBSET Rest(t)
        BY <1>5, <2>1
      <3>2. G(Rest(t)) \in [SUBSET Rest(t) -> Int]
        BY <1>4, <3>1
      <3>3. G(Rest(t))[Rest(t)] \in Int
        BY <3>1, <3>2
      <3> QED BY <1>5, <2>1, <3>3
    <2> QED BY <2>1
  <1>7. ASSUME NEW t \in SUBSET s, t # s PROVE F[t] = G(t)[t]
    <2>1. G(t)[t] = IF t = {} THEN 0 ELSE v[First(t)] + G(t)[Rest(t)]
      BY <1>4, <1>7 DEF IsSum
    <2>2. ASSUME t # {} PROVE G(t)[Rest(t)] = G(Rest(t))[Rest(t)]
      <3>1. IsSum(G(t), v, t) /\ IsSum(G(Rest(t)), v, Rest(t))
        BY <1>4, <1>5, <1>7, <2>2
      <3>2. t \in SUBSET S /\ Rest(t) \in SUBSET S /\ Rest(t) \in (SUBSET t) \cap (SUBSET Rest(t))
        BY <1>3
      <3> QED BY <3>1, <3>2, SumsAgree
    <2> QED BY <2>1, <2>2
  <1>8. IsSum(F, v, s)
    <2>1. ASSUME NEW t \in SUBSET s, t # {} PROVE F[Rest(t)] = G(Rest(t))[Rest(t)]
      BY <1>5, <1>7, <2>1
    <2>2. F = [t \in SUBSET s |-> IF t = {} THEN 0 ELSE v[First(t)] + F[Rest(t)]]
      BY <2>1
    <2> QED BY <2>2 DEF IsSum
  <1> QED BY <1>3, <1>6, <1>8

\* What the sum is: nothing over no element, and otherwise one value and the sum of
\* the rest.
LEMMA SumUnfolds ==
    ASSUME NEW S, IsFiniteSet(S), NEW v, \A x \in S : v[x] \in Int
    PROVE  /\ SumFunctionOnSet(v, S) \in Int
           /\ S = {} => SumFunctionOnSet(v, S) = 0
           /\ S # {} => SumFunctionOnSet(v, S) = v[First(S)] + SumFunctionOnSet(v, S \ {First(S)})
  <1> DEFINE Sums(s) == CHOOSE f : IsSum(f, v, s)
  <1>1. ASSUME NEW s \in SUBSET S
        PROVE  IsSum(Sums(s), v, s) /\ Sums(s)[s] \in Int
    <2>1. IsFiniteSet(s) /\ \A x \in s : v[x] \in Int
      BY FS_Subset
    <2>2. PICK f \in [SUBSET s -> Int] : IsSum(f, v, s)
      BY <2>1, SumExists
    <2>3. IsSum(Sums(s), v, s)
      BY <2>2
    <2> HIDE DEF Sums
    <2>4. Sums(s)[s] = f[s]
      BY <2>1, <2>2, <2>3, SumsAgree
    <2> QED BY <2>2, <2>3, <2>4
  <1>2. \A s : SumFunctionOnSet(v, s) = Sums(s)[s]
    BY SumIsSum
  <1> HIDE DEF Sums
  <1> DEFINE r == S \ {First(S)}
  <1>3. Sums(S)[S] = IF S = {} THEN 0 ELSE v[First(S)] + Sums(S)[r]
    BY <1>1 DEF IsSum
  <1>4. Sums(S)[r] = Sums(r)[r]
    <2>1. r \in SUBSET S /\ r \in (SUBSET S) \cap (SUBSET r) /\ S \in SUBSET S
      OBVIOUS
    <2>2. IsSum(Sums(S), v, S) /\ IsSum(Sums(r), v, r)
      BY <1>1, <2>1
    <2> HIDE DEF r
    <2> QED BY <2>1, <2>2, SumsAgree
  <1> QED BY <1>1, <1>2, <1>3, <1>4

\* The order of the elements does not matter.
LEMMA SumOfRest ==
    ASSUME NEW S, IsFiniteSet(S), NEW v, \A x \in S : v[x] \in Int, NEW x \in S
    PROVE  SumFunctionOnSet(v, S) = v[x] + SumFunctionOnSet(v, S \ {x})
  <1> DEFINE Sum(s) == SumFunctionOnSet(v, s)
             T == {s \in SUBSET S : \E y \in s : Sum(s) # v[y] + Sum(s \ {y})}
  <1>1. ASSUME NEW s \in SUBSET S
        PROVE  /\ Sum(s) \in Int
               /\ s # {} => First(s) \in s /\ Sum(s) = v[First(s)] + Sum(s \ {First(s)})
    <2>1. IsFiniteSet(s) /\ \A y \in s : v[y] \in Int
      BY FS_Subset
    <2> QED BY <2>1, SumUnfolds, FirstIn
  <1> HIDE DEF Sum
  <1>2. T = {}
    <2> SUFFICES ASSUME T # {} PROVE FALSE
      OBVIOUS
    <2>1. PICK s \in T : \A t \in T : t \subseteq s => t = s
      <3>1. T \in SUBSET SUBSET S
        OBVIOUS
      <3> HIDE DEF T
      <3> QED BY <3>1, SmallestSubset
    <2>2. PICK y \in s : Sum(s) # v[y] + Sum(s \ {y})
      BY <2>1
    <2>3. s \in SUBSET S
      BY <2>1
    <2> DEFINE z == First(s)
               r == (s \ {y}) \ {z}
    <2>4. z \in s /\ Sum(s) = v[z] + Sum(s \ {z})
      BY <1>1, <2>2, <2>3
    <2> HIDE DEF z
    <2>5. y # z
      BY <2>2, <2>4
    <2>6. s \ {y} \notin T /\ s \ {z} \notin T
      BY <2>1, <2>2, <2>4
    <2>7. s \ {y} \in SUBSET S /\ s \ {z} \in SUBSET S /\ z \in s \ {y} /\ y \in s \ {z}
      BY <2>2, <2>3, <2>4, <2>5
    <2>8. (s \ {z}) \ {y} = r
      OBVIOUS
    <2>9. Sum(s \ {y}) = v[z] + Sum(r)
      BY <2>6, <2>7
    <2>10. Sum(s \ {z}) = v[y] + Sum(r)
      BY <2>6, <2>7, <2>8
    <2>11. v[y] \in Int /\ v[z] \in Int /\ Sum(r) \in Int
      <3>1. r \in SUBSET S
        BY <2>3
      <3> QED BY <1>1, <2>2, <2>3, <2>4, <3>1
    <2> QED BY <2>2, <2>4, <2>9, <2>10, <2>11
  <1>3. S \notin T
    BY <1>2
  <1> QED BY <1>3 DEF Sum

\* One element more adds its value.
LEMMA SumOfOneMore ==
    ASSUME NEW S, IsFiniteSet(S), NEW x, x \notin S, NEW v, \A y \in S \cup {x} : v[y] \in Int
    PROVE  SumFunctionOnSet(v, S \cup {x}) = SumFunctionOnSet(v, S) + v[x]
  <1>1. IsFiniteSet(S \cup {x}) /\ x \in S \cup {x} /\ (S \cup {x}) \ {x} = S
    BY FS_AddElement
  <1>2. SumFunctionOnSet(v, S \cup {x}) = v[x] + SumFunctionOnSet(v, S)
    BY <1>1, SumOfRest
  <1>3. SumFunctionOnSet(v, S) \in Int /\ v[x] \in Int
    BY SumUnfolds
  <1> QED BY <1>2, <1>3

\* Only the values over the set count.
LEMMA SumOfSame ==
    ASSUME NEW S, IsFiniteSet(S), NEW u, NEW v, \A x \in S : u[x] = v[x] /\ v[x] \in Int
    PROVE  SumFunctionOnSet(u, S) = SumFunctionOnSet(v, S)
  <1> DEFINE T == {s \in SUBSET S : SumFunctionOnSet(u, s) # SumFunctionOnSet(v, s)}
  <1>1. T = {}
    <2> SUFFICES ASSUME T # {} PROVE FALSE
      OBVIOUS
    <2>1. PICK s \in T : \A t \in T : t \subseteq s => t = s
      <3>1. T \in SUBSET SUBSET S
        OBVIOUS
      <3> HIDE DEF T
      <3> QED BY <3>1, SmallestSubset
    <2>2. s \in SUBSET S /\ SumFunctionOnSet(u, s) # SumFunctionOnSet(v, s)
      BY <2>1
    <2>3. IsFiniteSet(s) /\ \A x \in s : v[x] \in Int /\ u[x] \in Int
      BY <2>2, FS_Subset
    <2>4. s # {}
      BY <2>2, <2>3, SumUnfolds
    <2> DEFINE r == s \ {First(s)}
    <2>5. First(s) \in s /\ r \subseteq s /\ r # s
      BY <2>4, FirstIn
    <2>6. SumFunctionOnSet(u, r) = SumFunctionOnSet(v, r)
      BY <2>1, <2>2, <2>5
    <2>7. /\ SumFunctionOnSet(u, s) = u[First(s)] + SumFunctionOnSet(u, r)
          /\ SumFunctionOnSet(v, s) = v[First(s)] + SumFunctionOnSet(v, r)
      BY <2>3, <2>4, SumUnfolds
    <2>8. u[First(s)] = v[First(s)]
      BY <2>2, <2>5
    <2> QED BY <2>2, <2>6, <2>7, <2>8
  <1>2. S \notin T
    BY <1>1
  <1> QED BY <1>2

\* Zeros add up to zero.
LEMMA SumOfNothing ==
    ASSUME NEW S, IsFiniteSet(S)
    PROVE  SumFunctionOnSet([x \in S |-> 0], S) = 0
  <1> DEFINE v == [x \in S |-> 0]
             T == {s \in SUBSET S : SumFunctionOnSet(v, s) # 0}
  <1>1. T = {}
    <2> SUFFICES ASSUME T # {} PROVE FALSE
      OBVIOUS
    <2>1. PICK s \in T : \A t \in T : t \subseteq s => t = s
      <3>1. T \in SUBSET SUBSET S
        OBVIOUS
      <3> HIDE DEF T
      <3> QED BY <3>1, SmallestSubset
    <2>2. s \in SUBSET S /\ SumFunctionOnSet(v, s) # 0
      BY <2>1
    <2>3. IsFiniteSet(s) /\ \A x \in s : v[x] \in Int
      BY <2>2, FS_Subset
    <2>4. s # {}
      BY <2>2, <2>3, SumUnfolds
    <2> DEFINE r == s \ {First(s)}
    <2>5. First(s) \in s /\ r \subseteq s /\ r # s /\ v[First(s)] = 0
      BY <2>2, <2>4, FirstIn
    <2>6. SumFunctionOnSet(v, r) = 0
      BY <2>1, <2>2, <2>5
    <2>7. SumFunctionOnSet(v, s) = v[First(s)] + SumFunctionOnSet(v, r)
      BY <2>3, <2>4, SumUnfolds
    <2> QED BY <2>2, <2>5, <2>6, <2>7
  <1>2. S \notin T
    BY <1>1
  <1> QED BY <1>2

\* A value is changed.
LEMMA SumOfChanged ==
    ASSUME NEW S, IsFiniteSet(S), NEW v \in [S -> Int], NEW x \in S, NEW n \in Int
    PROVE  SumFunctionOnSet([v EXCEPT ![x] = n], S) = SumFunctionOnSet(v, S) + n - v[x]
  <1> DEFINE u == [v EXCEPT ![x] = n]
             r == S \ {x}
  <1>1. u \in [S -> Int] /\ u[x] = n /\ \A y \in r : u[y] = v[y]
    OBVIOUS
  <1>2. IsFiniteSet(r) /\ r \subseteq S
    BY FS_Subset
  <1> HIDE DEF u
  <1>3. SumFunctionOnSet(u, S) = u[x] + SumFunctionOnSet(u, r)
    BY <1>1, SumOfRest
  <1>4. SumFunctionOnSet(v, S) = v[x] + SumFunctionOnSet(v, r)
    BY SumOfRest
  <1>5. SumFunctionOnSet(u, r) = SumFunctionOnSet(v, r) /\ SumFunctionOnSet(v, r) \in Int
    <2>1. \A y \in r : u[y] = v[y] /\ v[y] \in Int
      BY <1>1, <1>2
    <2> HIDE DEF r
    <2> QED BY <1>2, <2>1, SumOfSame, SumUnfolds
  <1> HIDE DEF r
  <1> QED BY <1>1, <1>3, <1>4, <1>5 DEF u

\* The sum over two disjoint sets.
LEMMA SumOfBoth ==
    ASSUME NEW A, NEW B, IsFiniteSet(A), IsFiniteSet(B), A \cap B = {},
           NEW v, \A x \in A \cup B : v[x] \in Int
    PROVE  SumFunctionOnSet(v, A \cup B) = SumFunctionOnSet(v, A) + SumFunctionOnSet(v, B)
  <1> DEFINE Sum(s) == SumFunctionOnSet(v, s)
             T == {s \in SUBSET B : Sum(A \cup s) # Sum(A) + Sum(s)}
  <1>1. ASSUME NEW s, s \subseteq A \cup B
        PROVE  /\ Sum(s) \in Int /\ (s = {} => Sum(s) = 0)
               /\ \A x \in s : Sum(s) = v[x] + Sum(s \ {x})
    <2>1. IsFiniteSet(s) /\ \A y \in s : v[y] \in Int
      BY <1>1, FS_Subset, FS_Union
    <2> QED BY <2>1, SumUnfolds, SumOfRest
  <1> HIDE DEF Sum
  <1>2. T = {}
    <2> SUFFICES ASSUME T # {} PROVE FALSE
      OBVIOUS
    <2>1. PICK s \in T : \A t \in T : t \subseteq s => t = s
      <3>1. T \in SUBSET SUBSET B
        OBVIOUS
      <3> HIDE DEF T
      <3> QED BY <3>1, SmallestSubset
    <2>2. s \in SUBSET B /\ Sum(A \cup s) # Sum(A) + Sum(s)
      BY <2>1
    <2>3. Sum(A) \in Int
      BY <1>1
    <2>4. s # {}
      <3>1. A \cup {} = A
        OBVIOUS
      <3>2. {} \subseteq A \cup B
        OBVIOUS
      <3>3. Sum({}) = 0
        BY <1>1, <3>2
      <3> SUFFICES ASSUME s = {} PROVE FALSE
        OBVIOUS
      <3>4. Sum(A) # Sum(A) + 0
        BY <2>2, <3>1, <3>3
      <3> QED BY <2>3, <3>4
    <2>5. PICK x \in s : TRUE
      BY <2>4
    <2> DEFINE r == s \ {x}
    <2>6. r \subseteq s /\ r # s /\ r \in SUBSET B
      BY <2>2
    <2>7. Sum(A \cup r) = Sum(A) + Sum(r)
      BY <2>1, <2>6
    <2>8. (A \cup s) \ {x} = A \cup r /\ A \cup s \subseteq A \cup B /\ x \in A \cup s /\ s \subseteq A \cup B
          /\ r \subseteq A \cup B
      BY <2>2
    <2>9. Sum(A \cup s) = v[x] + Sum(A \cup r) /\ Sum(s) = v[x] + Sum(r) /\ Sum(r) \in Int
      BY <1>1, <2>8
    <2>10. v[x] \in Int
      BY <2>2
    <2> QED BY <2>2, <2>3, <2>7, <2>9, <2>10
  <1>3. B \notin T
    BY <1>2
  <1> QED BY <1>3 DEF Sum

\* Natural numbers add up to a natural number, and a part of them to no more.
LEMMA SumIsNat ==
    ASSUME NEW S, IsFiniteSet(S), NEW v, \A x \in S : v[x] \in Nat
    PROVE  SumFunctionOnSet(v, S) \in Nat
  <1> DEFINE T == {s \in SUBSET S : SumFunctionOnSet(v, s) \notin Nat}
  <1>1. T = {}
    <2> SUFFICES ASSUME T # {} PROVE FALSE
      OBVIOUS
    <2>1. PICK s \in T : \A t \in T : t \subseteq s => t = s
      <3>1. T \in SUBSET SUBSET S
        OBVIOUS
      <3> HIDE DEF T
      <3> QED BY <3>1, SmallestSubset
    <2>2. s \in SUBSET S /\ SumFunctionOnSet(v, s) \notin Nat
      BY <2>1
    <2>3. IsFiniteSet(s) /\ \A x \in s : v[x] \in Int
      BY <2>2, FS_Subset
    <2>4. s # {}
      <3>1. s = {} => SumFunctionOnSet(v, s) = 0
        BY <2>3, SumUnfolds
      <3> QED BY <2>2, <3>1
    <2> DEFINE r == s \ {First(s)}
    <2>5. First(s) \in s /\ r \subseteq s /\ r # s
      BY <2>4, FirstIn
    <2>6. SumFunctionOnSet(v, r) \in Nat
      BY <2>1, <2>2, <2>5
    <2>7. SumFunctionOnSet(v, s) = v[First(s)] + SumFunctionOnSet(v, r)
      BY <2>3, <2>4, SumUnfolds
    <2>8. v[First(s)] \in Nat
      BY <2>2, <2>5
    <2> QED BY <2>2, <2>6, <2>7, <2>8
  <1>2. S \notin T
    BY <1>1
  <1> QED BY <1>2

LEMMA SumOfPart ==
    ASSUME NEW S, IsFiniteSet(S), NEW A \in SUBSET S, NEW v, \A x \in S : v[x] \in Nat
    PROVE  SumFunctionOnSet(v, A) <= SumFunctionOnSet(v, S)
  <1> DEFINE B == S \ A
  <1>1. IsFiniteSet(A) /\ IsFiniteSet(B) /\ A \cap B = {} /\ A \cup B = S
    BY FS_Subset
  <1> HIDE DEF B
  <1>2. \A x \in A \cup B : v[x] \in Int /\ v[x] \in Nat
    BY <1>1
  <1>3. SumFunctionOnSet(v, S) = SumFunctionOnSet(v, A) + SumFunctionOnSet(v, B)
    BY <1>1, <1>2, SumOfBoth
  <1>4. SumFunctionOnSet(v, A) \in Nat /\ SumFunctionOnSet(v, B) \in Nat
    BY <1>1, <1>2, SumIsNat
  <1> QED BY <1>3, <1>4

\* A sequence of values grows at its end.
LEMMA SumOfAppended ==
    ASSUME NEW n \in Nat, NEW u \in [1..n -> Int], NEW v \in [1..(n + 1) -> Int],
           \A i \in 1..n : v[i] = u[i]
    PROVE  SumFunction(v) = SumFunction(u) + v[n + 1]
  <1>1. /\ IsFiniteSet(1..n) /\ n + 1 \notin 1..n
        /\ 1..(n + 1) = (1..n) \cup {n + 1}
    <2>1. IsFiniteSet(1..n)
      BY FiniteUpTo, Zenon
    <2>2. \A i : i \in 1..(n + 1) <=> i \in 1..n \/ i = n + 1
      OBVIOUS
    <2> QED BY <2>1, <2>2
  <1>2. /\ \A i \in (1..n) \cup {n + 1} : v[i] \in Int
        /\ \A i \in 1..n : v[i] = u[i] /\ u[i] \in Int
    BY <1>1
  <1>3. SumFunctionOnSet(v, 1..n) = SumFunctionOnSet(u, 1..n)
    BY <1>1, <1>2, SumOfSame
  <1>4. SumFunctionOnSet(v, (1..n) \cup {n + 1}) = SumFunctionOnSet(v, 1..n) + v[n + 1]
    BY <1>1, <1>2, SumOfOneMore
  <1>5. DOMAIN u = 1..n /\ DOMAIN v = (1..n) \cup {n + 1}
    BY <1>1
  <1> QED BY <1>3, <1>4, <1>5 DEF SumFunction

-----------------------------------------------------------------------------
(* The supply *)

\* The books, on top of what GoldContracts_proofs shows of every state.
Accounted(issued) ==
    /\ IInv
    /\ IsFiniteSet(executed)
    /\ SupplyIsSumOfBalances
    /\ SupplyIsMintedLessBurned(issued)

\* The state's parts the sums are taken over.
LEMMA BooksFields ==
    ASSUME IInv
    PROVE  /\ ledger.balances \in [Wallets -> Nat] /\ ledger.totalSupply \in Int
           /\ IsFiniteSet(Wallets)
           /\ mintLog \in Seq(ExecutedMint) /\ clawbacks \in Seq(Authorization)
           /\ executed \subseteq RedemptionRequest
           /\ \A r \in RedemptionRequest : r.amount \in Nat
           /\ \A m \in ExecutedMint : m.req.amount \in Nat /\ m.at \in Nat
           /\ \A a \in Authorization : a.amount \in Nat
  BY RegistryAssumption, MintAssumption, BurnAssumption
  DEF IInv, TokenTypeOK, MintInv, MintTypeOK, BurnInv, BurnTypeOK, ExecutedMint, MintRequest,
      RedemptionRequest, Authorization

\* Crediting or debiting a wallet moves the sum of the balances by the amount.
LEMMA SumOfCredited ==
    ASSUME IsFiniteSet(Wallets), NEW b \in [Wallets -> Nat], NEW w \in Wallets, NEW n \in Nat
    PROVE  /\ SumFunctionOnSet([b EXCEPT ![w] = @ + n], Wallets) = SumFunctionOnSet(b, Wallets) + n
           /\ SumFunctionOnSet([b EXCEPT ![w] = @ - n], Wallets) = SumFunctionOnSet(b, Wallets) - n
           /\ SumFunctionOnSet(b, Wallets) \in Nat
  <1>1. b \in [Wallets -> Int] /\ b[w] \in Int /\ b[w] + n \in Int /\ b[w] - n \in Int
    OBVIOUS
  <1>2. /\ SumFunctionOnSet([b EXCEPT ![w] = b[w] + n], Wallets)
             = SumFunctionOnSet(b, Wallets) + (b[w] + n) - b[w]
        /\ SumFunctionOnSet([b EXCEPT ![w] = b[w] - n], Wallets)
             = SumFunctionOnSet(b, Wallets) + (b[w] - n) - b[w]
    BY <1>1, SumOfChanged, ZenonT(30)
  <1>3. SumFunctionOnSet(b, Wallets) \in Nat
    BY SumIsNat
  <1> QED BY <1>1, <1>2, <1>3

\* executeMint issues on both sides of the books what it logs.
LEMMA MintAddsUp ==
    ASSUME IInv, NEW req \in MintRequest
    PROVE  SumFunctionOnSet(MintSplit(req).balances, Wallets)
             = SumFunctionOnSet(ledger.balances, Wallets) + req.amount
  <1> DEFINE fee == Fee(req.amount)
             net == Minted(ledger, req.to, req.amount - fee)
             Sum(b) == SumFunctionOnSet(b, Wallets)
             Ledgers == [balances : [Wallets -> Nat], totalSupply : Int]
  <1>1. /\ req.to \in Wallets /\ req.amount \in Nat /\ feeRecipient \in Wallets
        /\ ledger \in Ledgers /\ IsFiniteSet(Wallets)
    BY MintAssumption, BooksFields
    DEF MintRequest, IInv, MintInv, MintTypeOK, TokenTypeOK
  <1>2. fee \in Nat /\ req.amount - fee \in Nat
    BY <1>1, FeeBounds
  <1>3. MintSplit(req) = IF fee > 0 THEN Minted(net, feeRecipient, fee) ELSE net
    BY DEF MintSplit
  <1> HIDE DEF fee
  <1>4. /\ net \in Ledgers
        /\ net.balances = [ledger.balances EXCEPT ![req.to] = @ + (req.amount - fee)]
    BY <1>1, <1>2, MintedType
  <1> HIDE DEF net
  <1>5. Minted(net, feeRecipient, fee).balances = [net.balances EXCEPT ![feeRecipient] = @ + fee]
    <2>1. net \in [balances : [Wallets -> Nat], totalSupply : Int]
      BY <1>4
    <2> QED BY <1>1, <1>2, <2>1, MintedType, SMTT(30)
  <1>6. /\ ledger.balances \in [Wallets -> Nat] /\ net.balances \in [Wallets -> Nat]
    BY <1>1, <1>4
  <1>7. /\ Sum(net.balances) = Sum(ledger.balances) + (req.amount - fee)
        /\ Sum(ledger.balances) \in Nat
    <2> HIDE DEF Sum, Ledgers
    <2>1. /\ Sum([ledger.balances EXCEPT ![req.to] = @ + (req.amount - fee)])
               = Sum(ledger.balances) + (req.amount - fee)
          /\ Sum(ledger.balances) \in Nat
      BY <1>1, <1>2, <1>6, SumOfCredited DEF Sum
    <2> QED BY <1>4, <2>1
  <1>8. Sum(Minted(net, feeRecipient, fee).balances) = Sum(net.balances) + fee
    <2> HIDE DEF Sum, Ledgers
    <2>1. Sum([net.balances EXCEPT ![feeRecipient] = @ + fee]) = Sum(net.balances) + fee
      BY <1>1, <1>2, <1>6, SumOfCredited DEF Sum
    <2> QED BY <1>5, <2>1
  <1>9. Sum(MintSplit(req).balances) = Sum(ledger.balances) + req.amount
    <2> HIDE DEF Sum, Ledgers
    <2>1. CASE fee > 0
      BY <1>1, <1>2, <1>3, <1>7, <1>8, <2>1
    <2>2. CASE fee = 0
      BY <1>1, <1>2, <1>3, <1>7, <2>2
    <2> QED BY <1>2, <2>1, <2>2
  <1> QED BY <1>9

\* The logs' amounts, as functions to the numbers the sums are over.
LEMMA AmountsTyped ==
    ASSUME IInv
    PROVE  /\ Len(mintLog) \in Nat /\ MintedAmounts \in [1..Len(mintLog) -> Nat]
           /\ Len(clawbacks) \in Nat /\ ClawedBackAmounts \in [1..Len(clawbacks) -> Nat]
           /\ RedeemedAmounts \in [executed -> Nat]
  <1>1. /\ Len(mintLog) \in Nat /\ DOMAIN mintLog = 1..Len(mintLog)
        /\ \A i \in 1..Len(mintLog) : mintLog[i] \in ExecutedMint
    BY BooksFields, LenProperties, ElementOfSeq
  <1>2. /\ Len(clawbacks) \in Nat /\ DOMAIN clawbacks = 1..Len(clawbacks)
        /\ \A i \in 1..Len(clawbacks) : clawbacks[i] \in Authorization
    BY BooksFields, LenProperties, ElementOfSeq
  <1>3. \A i \in 1..Len(mintLog) : mintLog[i].req.amount \in Nat
    BY <1>1, BooksFields
  <1>4. \A i \in 1..Len(clawbacks) : clawbacks[i].amount \in Nat
    BY <1>2, BooksFields
  <1>5. \A r \in executed : r.amount \in Nat
    BY BooksFields
  <1> QED BY <1>1, <1>2, <1>3, <1>4, <1>5 DEF MintedAmounts, ClawedBackAmounts, RedeemedAmounts

\* The sums over the logs are natural numbers.
LEMMA LogSums ==
    ASSUME IInv, IsFiniteSet(executed)
    PROVE  /\ SumFunction(MintedAmounts) \in Nat
           /\ SumFunction(RedeemedAmounts) \in Nat
           /\ SumFunction(ClawedBackAmounts) \in Nat
  <1>1. /\ DOMAIN MintedAmounts = 1..Len(mintLog)
        /\ DOMAIN ClawedBackAmounts = 1..Len(clawbacks)
        /\ DOMAIN RedeemedAmounts = executed
        /\ \A i \in 1..Len(mintLog) : MintedAmounts[i] \in Nat
        /\ \A i \in 1..Len(clawbacks) : ClawedBackAmounts[i] \in Nat
        /\ \A r \in executed : RedeemedAmounts[r] \in Nat
    BY AmountsTyped
  <1>2. IsFiniteSet(1..Len(mintLog)) /\ IsFiniteSet(1..Len(clawbacks))
    BY AmountsTyped, FS_Interval
  <1> QED BY <1>1, <1>2, SumIsNat DEF SumFunction

\* An entry more in a log adds its amount.
LEMMA MintLogged ==
    ASSUME IInv, NEW m \in ExecutedMint, mintLog' = Append(mintLog, m)
    PROVE  SumFunction(MintedAmounts') = SumFunction(MintedAmounts) + m.req.amount
  <1>1. PICK n \in Nat : n = Len(mintLog)
    BY AmountsTyped
  <1>2. /\ DOMAIN mintLog' = 1..(n + 1)
        /\ DOMAIN mintLog = 1..n
        /\ \A i \in 1..n : mintLog'[i] = mintLog[i]
        /\ mintLog'[n + 1] = m
    BY <1>1, BooksFields, AppendEntries
  <1>3. MintedAmounts \in [1..n -> Int] /\ m.req.amount \in Int
    <2>1. MintedAmounts \in [1..n -> Nat] /\ m.req.amount \in Nat
      BY <1>1, AmountsTyped, BooksFields
    <2> QED BY <2>1
  <1>4. /\ \A i \in 1..n : MintedAmounts'[i] = MintedAmounts[i]
        /\ MintedAmounts'[n + 1] = m.req.amount
    BY <1>2 DEF MintedAmounts
  <1>5. MintedAmounts' \in [1..(n + 1) -> Int]
    <2>1. \A i \in 1..(n + 1) : i \in 1..n \/ i = n + 1
      OBVIOUS
    <2>2. \A i \in 1..(n + 1) : MintedAmounts'[i] \in Int
      BY <1>3, <1>4, <2>1
    <2>3. MintedAmounts' = [i \in 1..(n + 1) |-> MintedAmounts'[i]]
      BY <1>2 DEF MintedAmounts
    <2> HIDE DEF MintedAmounts
    <2> QED BY <2>2, <2>3
  <1> QED BY <1>3, <1>4, <1>5, SumOfAppended

LEMMA ClawbackLogged ==
    ASSUME IInv, NEW a \in Authorization, clawbacks' = Append(clawbacks, a)
    PROVE  SumFunction(ClawedBackAmounts') = SumFunction(ClawedBackAmounts) + a.amount
  <1>1. PICK n \in Nat : n = Len(clawbacks)
    BY AmountsTyped
  <1>2. /\ DOMAIN clawbacks' = 1..(n + 1)
        /\ DOMAIN clawbacks = 1..n
        /\ \A i \in 1..n : clawbacks'[i] = clawbacks[i]
        /\ clawbacks'[n + 1] = a
    BY <1>1, BooksFields, AppendEntries
  <1>3. ClawedBackAmounts \in [1..n -> Int] /\ a.amount \in Int
    <2>1. ClawedBackAmounts \in [1..n -> Nat] /\ a.amount \in Nat
      BY <1>1, AmountsTyped, BooksFields
    <2> QED BY <2>1
  <1>4. /\ \A i \in 1..n : ClawedBackAmounts'[i] = ClawedBackAmounts[i]
        /\ ClawedBackAmounts'[n + 1] = a.amount
    BY <1>2 DEF ClawedBackAmounts
  <1>5. ClawedBackAmounts' \in [1..(n + 1) -> Int]
    <2>1. \A i \in 1..(n + 1) : i \in 1..n \/ i = n + 1
      OBVIOUS
    <2>2. \A i \in 1..(n + 1) : ClawedBackAmounts'[i] \in Int
      BY <1>3, <1>4, <2>1
    <2>3. ClawedBackAmounts' = [i \in 1..(n + 1) |-> ClawedBackAmounts'[i]]
      BY <1>2 DEF ClawedBackAmounts
    <2> HIDE DEF ClawedBackAmounts
    <2> QED BY <2>2, <2>3
  <1> QED BY <1>3, <1>4, <1>5, SumOfAppended

\* What executeMint logs is a well-typed entry for the proposal's request, at the
\* moment it executes.
LEMMA ExecutedMintLogged ==
    ASSUME IInv, NEW id \in Allocations, executeMint(id)
    PROVE  \E m \in ExecutedMint : /\ m.req = proposals[id].req /\ m.at = now
                                   /\ mintLog' = Append(mintLog, m)
  <1> DEFINE m == [id |-> id, req |-> proposals[id].req, at |-> now, needed |-> approvalThreshold,
                   approvers |-> Entries(proposals[id].approvers)]
  <1>1. mintLog' = Append(mintLog, m)
    BY DEF executeMint
  <1>2. proposals[id].req \in MintRequest /\ now \in Nat /\ approvalThreshold \in Nat
    BY ExecuteKeepsToken DEF IInv, RegistryTypeOK, MintInv, MintTypeOK
  <1>3. Entries(proposals[id].approvers) \in SUBSET ApproverAccounts
    BY DEF IInv, MintInv, MintTypeOK, ApprovalBookkeeping
  <1>4. m \in ExecutedMint
    BY <1>2, <1>3 DEF ExecutedMint
  <1> QED BY <1>1, <1>4

\* A redemption counts once, as only a new one is executed.
LEMMA RedemptionLogged ==
    ASSUME IInv, IsFiniteSet(executed), NEW req \in RedemptionRequest, req \notin executed,
           executed' = executed \cup {req}
    PROVE  /\ IsFiniteSet(executed')
           /\ SumFunction(RedeemedAmounts') = SumFunction(RedeemedAmounts) + req.amount
  <1> DEFINE E == executed \cup {req}
             v == [r \in E |-> r.amount]
  <1>1. IsFiniteSet(E)
    BY FS_AddElement
  <1>2. /\ \A r \in E : v[r] \in Int
        /\ \A r \in executed : v[r] = RedeemedAmounts[r] /\ RedeemedAmounts[r] \in Int
        /\ v[req] = req.amount
        /\ DOMAIN v = E /\ DOMAIN RedeemedAmounts = executed
    BY BooksFields DEF RedeemedAmounts
  <1>3. RedeemedAmounts' = v
    BY DEF RedeemedAmounts
  <1> HIDE DEF v
  <1>4. SumFunctionOnSet(v, executed) = SumFunctionOnSet(RedeemedAmounts, executed)
    BY <1>2, SumOfSame
  <1>5. SumFunctionOnSet(v, executed \cup {req}) = SumFunctionOnSet(v, executed) + v[req]
    BY <1>2, SumOfOneMore
  <1> QED BY <1>1, <1>2, <1>3, <1>4, <1>5 DEF SumFunction

-----------------------------------------------------------------------------
(* One step of the five contracts *)

LEMMA TransfersAddUp ==
    ASSUME NEW issued \in Int, Accounted(issued), TokenStep
    PROVE  SupplyIsSumOfBalances' /\ SupplyIsMintedLessBurned(issued)' /\ executed' = executed
  <1>1. UNCHANGED <<executed, mintLog, clawbacks>> /\ TokenNext
    BY DEF TokenStep, mintVars, burnVars
  <1>2. ledger'.totalSupply = ledger.totalSupply
    BY TokenStepMoves DEF Accounted
  <1>3. SumFunctionOnSet(ledger'.balances, Wallets) = SumFunctionOnSet(ledger.balances, Wallets)
    <2>1. ASSUME NEW from \in Wallets, NEW to \in Wallets, NEW amount \in TransferAmounts,
                 Transfer(from, to, amount)
          PROVE  SumFunctionOnSet(ledger'.balances, Wallets)
                   = SumFunctionOnSet(ledger.balances, Wallets)
      <3>1. PICK n \in Nat : n = amount
        BY RegistryAssumption
      <3>2. /\ ledger \in [balances : [Wallets -> Nat], totalSupply : Int]
            /\ ledger.balances[from] >= n
            /\ ledger' = Transferred(ledger, from, to, n)
        BY <2>1, <3>1 DEF Accounted, IInv, TokenTypeOK, Transfer
      <3>3. ledger'.balances = [[ledger.balances EXCEPT ![from] = @ - n] EXCEPT ![to] = @ + n]
        BY <3>2, TransferredType, SMTT(30)
      <3> DEFINE b == ledger.balances
                 d == [ledger.balances EXCEPT ![from] = @ - n]
      <3>4. b \in [Wallets -> Nat] /\ d \in [Wallets -> Nat] /\ IsFiniteSet(Wallets)
        BY <3>2, BooksFields DEF Accounted
      <3>5. /\ SumFunctionOnSet(d, Wallets) = SumFunctionOnSet(b, Wallets) - n
            /\ SumFunctionOnSet(b, Wallets) \in Nat
        BY <3>4, SumOfCredited, ZenonT(30)
      <3> HIDE DEF d
      <3>6. SumFunctionOnSet([d EXCEPT ![to] = @ + n], Wallets) = SumFunctionOnSet(d, Wallets) + n
        BY <3>4, SumOfCredited
      <3>7. ledger'.balances = [d EXCEPT ![to] = @ + n]
        BY <3>3 DEF d
      <3> HIDE DEF b
      <3> QED BY <3>5, <3>6, <3>7 DEF b
    <2>2. CASE ledger' = ledger
      BY <2>2
    <2> QED BY <1>1, <2>1, <2>2 DEF TokenNext, Approve, pause, unpause, setMintController, setBurnController
  <1> QED BY <1>1, <1>2, <1>3
      DEF Accounted, SupplyIsSumOfBalances, SupplyIsMintedLessBurned, MintedAmounts,
          RedeemedAmounts, ClawedBackAmounts

LEMMA MintsAddUp ==
    ASSUME NEW issued \in Int, Accounted(issued), NEW id \in Allocations, ExecuteStep(id)
    PROVE  SupplyIsSumOfBalances' /\ SupplyIsMintedLessBurned(issued)' /\ executed' = executed
  <1> DEFINE req == proposals[id].req
  <1>1. /\ executeMint(id) /\ UNCHANGED <<executed, clawbacks>>
        /\ RedeemedAmounts' = RedeemedAmounts /\ ClawedBackAmounts' = ClawedBackAmounts
    BY DEF ExecuteStep, burnVars, RedeemedAmounts, ClawedBackAmounts
  <1>2. /\ req \in MintRequest /\ ledger' = MintSplit(req)
        /\ ledger'.totalSupply = ledger.totalSupply + req.amount
    BY <1>1, ExecuteKeepsToken DEF Accounted, IInv
  <1>3. PICK m : m.req = req /\ mintLog' = Append(mintLog, m) /\ m \in ExecutedMint
    BY <1>1, ExecutedMintLogged DEF Accounted
  <1>4. SumFunction(MintedAmounts') = SumFunction(MintedAmounts) + req.amount
    BY <1>3, MintLogged DEF Accounted
  <1>5. SumFunctionOnSet(ledger'.balances, Wallets)
          = SumFunctionOnSet(ledger.balances, Wallets) + req.amount
    BY <1>2, MintAddsUp DEF Accounted
  <1>6. /\ SumFunction(MintedAmounts) \in Nat /\ SumFunction(RedeemedAmounts) \in Nat
        /\ SumFunction(ClawedBackAmounts) \in Nat
        /\ req.amount \in Nat
    BY <1>2, LogSums, MintAssumption DEF Accounted, MintRequest
  <1> HIDE DEF req
  <1>7. SupplyIsSumOfBalances'
    BY <1>2, <1>5 DEF Accounted, SupplyIsSumOfBalances
  <1>8. SupplyIsMintedLessBurned(issued)'
    BY <1>1, <1>2, <1>4, <1>6 DEF Accounted, SupplyIsMintedLessBurned
  <1> QED BY <1>1, <1>7, <1>8

LEMMA BurnsAddUp ==
    ASSUME NEW issued \in Int, Accounted(issued), BurnStep
    PROVE  SupplyIsSumOfBalances' /\ SupplyIsMintedLessBurned(issued)' /\ IsFiniteSet(executed')
  <1>1. /\ BurnNext /\ mintLog' = mintLog /\ MintedAmounts' = MintedAmounts
        /\ IInv /\ TokenTypeOK /\ IsFiniteSet(executed)
    BY DEF BurnStep, mintVars, MintedAmounts, Accounted, IInv
  <1>2. /\ SumFunction(MintedAmounts) \in Nat /\ SumFunction(RedeemedAmounts) \in Nat
        /\ SumFunction(ClawedBackAmounts) \in Nat
    BY <1>1, LogSums
  <1>3. ASSUME NEW from \in Wallets, NEW n \in Nat, burnFrom(from, n) \/ operatorBurnFrom(from, n)
        PROVE  SupplyIsSumOfBalances' /\ ledger'.totalSupply = ledger.totalSupply - n
    <2>1. /\ ledger'.totalSupply = ledger.totalSupply - n
          /\ ledger'.balances = [ledger.balances EXCEPT ![from] = @ - n]
      BY <1>1, <1>3, BurnKeepsToken
    <2>2. ledger.balances \in [Wallets -> Nat] /\ IsFiniteSet(Wallets)
      BY <1>1, BooksFields
    <2>3. SumFunctionOnSet(ledger'.balances, Wallets) = SumFunctionOnSet(ledger.balances, Wallets) - n
      <3> DEFINE b == ledger.balances
                 d == [b EXCEPT ![from] = @ - n]
      <3>1. b \in [Wallets -> Nat] /\ ledger'.balances = d
        BY <2>1, <2>2
      <3>2. SumFunctionOnSet(d, Wallets) = SumFunctionOnSet(b, Wallets) - n
        <4> HIDE DEF b
        <4> QED BY <2>2, <3>1, SumOfCredited
      <3> HIDE DEF d
      <3> QED BY <3>1, <3>2
    <2> QED BY <2>1, <2>3 DEF Accounted, SupplyIsSumOfBalances
  <1>4. ASSUME NEW req \in RedemptionRequest, requestRedemption(req)
        PROVE  SupplyIsSumOfBalances' /\ SupplyIsMintedLessBurned(issued)' /\ IsFiniteSet(executed')
    <2>1. /\ req \notin executed /\ executed' = executed \cup {req}
          /\ burnFrom(req.from, req.amount) /\ clawbacks' = clawbacks
      BY <1>4 DEF requestRedemption
    <2>2. req.from \in Wallets /\ req.amount \in Nat
      BY BurnAssumption DEF RedemptionRequest
    <2>3. SupplyIsSumOfBalances' /\ ledger'.totalSupply = ledger.totalSupply - req.amount
      BY <1>3, <2>1, <2>2
    <2>4. /\ IsFiniteSet(executed')
          /\ SumFunction(RedeemedAmounts') = SumFunction(RedeemedAmounts) + req.amount
      BY <1>1, <2>1, RedemptionLogged
    <2>5. ClawedBackAmounts' = ClawedBackAmounts
      BY <2>1 DEF ClawedBackAmounts
    <2>6. SupplyIsMintedLessBurned(issued)'
      BY <1>1, <1>2, <2>2, <2>3, <2>4, <2>5 DEF Accounted, SupplyIsMintedLessBurned
    <2> QED BY <2>3, <2>4, <2>6
  <1>5. ASSUME NEW sig \in authorizations, operatorBurn(sig.from, sig.amount, sig)
        PROVE  SupplyIsSumOfBalances' /\ SupplyIsMintedLessBurned(issued)' /\ IsFiniteSet(executed')
    <2>1. /\ operatorBurnFrom(sig.from, sig.amount) /\ clawbacks' = Append(clawbacks, sig)
          /\ executed' = executed
      BY <1>5 DEF operatorBurn
    <2>2. sig \in Authorization /\ sig.from \in Wallets /\ sig.amount \in Nat
      BY <1>1, BurnAssumption DEF IInv, BurnInv, BurnTypeOK, Authorization
    <2>3. SupplyIsSumOfBalances' /\ ledger'.totalSupply = ledger.totalSupply - sig.amount
      BY <1>3, <2>1, <2>2
    <2>4. SumFunction(ClawedBackAmounts') = SumFunction(ClawedBackAmounts) + sig.amount
      BY <1>1, <2>1, <2>2, ClawbackLogged
    <2>5. RedeemedAmounts' = RedeemedAmounts
      BY <2>1 DEF RedeemedAmounts
    <2>6. SupplyIsMintedLessBurned(issued)'
      BY <1>1, <1>2, <2>2, <2>3, <2>4, <2>5 DEF Accounted, SupplyIsMintedLessBurned
    <2> QED BY <1>1, <2>1, <2>3, <2>6
  <1> QED BY <1>1, <1>4, <1>5 DEF BurnNext

LEMMA AccountsPreserved ==
    ASSUME NEW issued \in Int, Accounted(issued), [Next]_vars
    PROVE  Accounted(issued)'
  <1>1. IInv'
    BY NextPreserves DEF Accounted
  <1>2. CASE TokenStep
    BY <1>1, <1>2, TransfersAddUp DEF Accounted
  <1>3. CASE \E id \in Allocations : ExecuteStep(id)
    BY <1>1, <1>3, MintsAddUp DEF Accounted
  <1>4. CASE BurnStep
    BY <1>1, <1>4, BurnsAddUp DEF Accounted
  <1>5. CASE UNCHANGED <<ledger, mintLog, executed, clawbacks>>
    BY <1>1, <1>5 DEF Accounted, SupplyIsSumOfBalances, SupplyIsMintedLessBurned, MintedAmounts,
                      RedeemedAmounts, ClawedBackAmounts
  <1> QED BY <1>2, <1>3, <1>4, <1>5, QuietSteps

LEMMA AccountedAtFirst == Init => Accounted(0)
  <1> SUFFICES ASSUME Init PROVE Accounted(0)
    OBVIOUS
  <1>1. IInv
    BY InitEstablishes
  <1>2. /\ executed = {} /\ DOMAIN mintLog = {} /\ DOMAIN clawbacks = {}
        /\ ledger.totalSupply = 0 /\ ledger.balances = [w \in Wallets |-> 0]
    BY DEF Init, BurnInit, MintInit, TokenInit
  <1>3. IsFiniteSet({}) /\ IsFiniteSet(Wallets)
    BY FS_EmptySet, RegistryAssumption
  <1>4. \A v : SumFunctionOnSet(v, {}) = 0
    BY <1>3, SumUnfolds
  <1>5. /\ SumFunction(MintedAmounts) = 0 /\ SumFunction(RedeemedAmounts) = 0
        /\ SumFunction(ClawedBackAmounts) = 0
    BY <1>2, <1>4 DEF SumFunction, MintedAmounts, RedeemedAmounts, ClawedBackAmounts
  <1>6. SumFunctionOnSet(ledger.balances, Wallets) = 0
    BY <1>2, <1>3, SumOfNothing
  <1> QED BY <1>1, <1>2, <1>3, <1>5, <1>6
      DEF Accounted, SupplyIsSumOfBalances, SupplyIsMintedLessBurned

\* For every set of wallets and all amounts, fees and histories: the supply is
\* the sum of the balances, and what was minted gross less what was redeemed and
\* clawed back.
THEOREM SupplyHolds == Spec => []SupplyIsAccounted
  <1>1. Accounted(0) /\ [Next]_vars => Accounted(0)'
    BY AccountsPreserved
  <1>2. Accounted(0) => SupplyIsAccounted
    BY DEF Accounted, SupplyIsAccounted
  <1> QED BY <1>1, <1>2, AccountedAtFirst, PTL DEF Spec

-----------------------------------------------------------------------------
(* The rate limit, over any amounts v minted at the times at, the n-th last *)

Sum(v, S) == SumFunctionOnSet(v, S)

\* The window of limit r opened at the s-th mint, the first after n where none has
\* happened in it: the counter is what was minted since, and of the mints before it,
\* back to the mint the limit was set after, those that are less than a window away
\* from its start amount to the maximum at most.
OpenedAt(s, v, at, n, from, r) ==
    /\ r.minted = Sum(v, s..n) /\ r.minted <= r.max
    /\ \A i \in (from + 1)..(s - 1) :
          /\ at[i] <= r.start
          /\ r.start < at[i] + r.window => Sum(v, i..(s - 1)) <= r.max

Doubled(v, at, n, from, r) ==
    \A i \in (from + 1)..n : Sum(v, {j \in i..n : at[j] - at[i] < r.window}) <= 2 * r.max

Limits == [window : Nat, max : Nat, start : Nat, minted : Nat]

LEMMA PartOfMints ==
    ASSUME NEW n \in Nat, NEW v \in [1..n -> Nat], NEW B \in SUBSET (1..n), NEW A \in SUBSET B
    PROVE  Sum(v, A) \in Nat /\ Sum(v, B) \in Nat /\ Sum(v, A) <= Sum(v, B)
  <1>1. IsFiniteSet(1..n)
    BY FiniteUpTo, Zenon
  <1>2. IsFiniteSet(B) /\ IsFiniteSet(A) /\ \A i \in B : v[i] \in Nat
    BY <1>1, FS_Subset
  <1>3. A \in SUBSET B /\ \A i \in A : v[i] \in Nat
    BY <1>2
  <1> QED BY <1>2, <1>3, SumIsNat, SumOfPart DEF Sum

\* Whatever was minted from a mint on that lies less than a window before the
\* start of the present one: what its own window let through, and the present one.
LEMMA TwoWindows ==
    ASSUME NEW n \in Nat, NEW v \in [1..n -> Nat], NEW at \in [1..n -> Nat],
           NEW from \in Nat, NEW r \in Limits,
           NEW s \in (from + 1)..(n + 1), OpenedAt(s, v, at, n, from, r),
           NEW i \in (from + 1)..n, r.start < at[i] + r.window,
           NEW A \in SUBSET (i..n)
    PROVE  Sum(v, A) <= 2 * r.max
  <1>1. /\ r.max \in Nat /\ i..n \in SUBSET (1..n) /\ s..n \in SUBSET (1..n)
        /\ i..(s - 1) \in SUBSET (1..n)
    BY DEF Limits
  <1>2. Sum(v, s..n) <= r.max
    BY DEF OpenedAt
  <1>3. CASE i >= s
    <2>1. A \in SUBSET (s..n)
      BY <1>3
    <2>2. Sum(v, A) \in Nat /\ Sum(v, s..n) \in Nat /\ Sum(v, A) <= Sum(v, s..n)
      BY <1>1, <2>1, PartOfMints
    <2> QED BY <1>1, <1>2, <2>2
  <1>4. CASE i < s
    <2>1. Sum(v, i..(s - 1)) <= r.max
      BY <1>4 DEF OpenedAt
    <2>2. i..n = (i..(s - 1)) \cup (s..n) /\ (i..(s - 1)) \cap (s..n) = {}
      BY <1>4
    <2>3. IsFiniteSet(i..(s - 1)) /\ IsFiniteSet(s..n)
      BY FS_Interval
    <2>4. \A x \in (i..(s - 1)) \cup (s..n) : v[x] \in Int
      BY <1>1
    <2>5. Sum(v, i..n) = Sum(v, i..(s - 1)) + Sum(v, s..n)
      BY <2>2, <2>3, <2>4, SumOfBoth, ZenonT(30) DEF Sum
    <2>6. /\ Sum(v, A) \in Nat /\ Sum(v, i..n) \in Nat /\ Sum(v, A) <= Sum(v, i..n)
          /\ Sum(v, i..(s - 1)) \in Nat /\ Sum(v, s..n) \in Nat
      BY <1>1, PartOfMints
    <2> QED BY <1>1, <1>2, <2>1, <2>5, <2>6
  <1> QED BY <1>3, <1>4

\* The window as executeMint leaves it.
Reopened(r, time, amount) ==
    LET over == time >= r.start + r.window
    IN  [window |-> r.window, max |-> r.max,
         start |-> IF over THEN time ELSE r.start,
         minted |-> (IF over THEN 0 ELSE r.minted) + amount]

\* One mint more, within the limit.
LEMMA WindowMoves ==
    ASSUME NEW n \in Nat, NEW u \in [1..n -> Nat], NEW v \in [1..(n + 1) -> Nat],
           NEW at \in [1..n -> Nat], NEW bt \in [1..(n + 1) -> Nat],
           \A i \in 1..n : v[i] = u[i] /\ bt[i] = at[i] /\ at[i] <= bt[n + 1],
           NEW from \in 0..n, NEW r \in Limits, r.start <= bt[n + 1],
           NEW s \in (from + 1)..(n + 1), OpenedAt(s, u, at, n, from, r),
           NEW q, q = Reopened(r, bt[n + 1], v[n + 1]), q.minted <= r.max
    PROVE  \E t \in (from + 1)..(n + 2) : OpenedAt(t, v, bt, n + 1, from, q)
  <1>1. /\ r.max \in Nat /\ r.start \in Nat /\ r.window \in Nat /\ r.minted \in Nat
        /\ bt[n + 1] \in Nat /\ v[n + 1] \in Nat
        /\ r = [window |-> r.window, max |-> r.max, start |-> r.start, minted |-> r.minted]
    <2>1. n + 1 \in 1..(n + 1)
      OBVIOUS
    <2> QED BY <2>1 DEF Limits
  <1>2. \A A \in SUBSET (1..n) : Sum(v, A) = Sum(u, A) /\ Sum(u, A) \in Nat /\ IsFiniteSet(A)
    <2> SUFFICES ASSUME NEW A \in SUBSET (1..n)
                 PROVE  Sum(v, A) = Sum(u, A) /\ Sum(u, A) \in Nat /\ IsFiniteSet(A)
      OBVIOUS
    <2>1. IsFiniteSet(A) /\ \A i \in A : v[i] = u[i] /\ u[i] \in Int /\ u[i] \in Nat
      <3>1. IsFiniteSet(1..n)
        BY FiniteUpTo, Zenon
      <3>2. IsFiniteSet(A)
        BY <3>1, FS_Subset
      <3>3. \A i \in A : v[i] = u[i] /\ u[i] \in Nat
        OBVIOUS
      <3> QED BY <3>2, <3>3
    <2> QED BY <2>1, SumOfSame, SumIsNat DEF Sum
  <1>3. ASSUME NEW A \in SUBSET (1..n)
        PROVE  Sum(v, A \cup {n + 1}) = Sum(u, A) + v[n + 1]
    <2>1. IsFiniteSet(A) /\ n + 1 \notin A /\ \A i \in A \cup {n + 1} : v[i] \in Int
      BY <1>2
    <2>2. SumFunctionOnSet(v, A \cup {n + 1}) = SumFunctionOnSet(v, A) + v[n + 1]
      BY <2>1, SumOfOneMore
    <2> QED BY <1>2, <2>2 DEF Sum
  <1>4. CASE bt[n + 1] >= r.start + r.window
    <2>1. /\ q.minted = v[n + 1] /\ q.start = bt[n + 1] /\ q.max = r.max
          /\ q.window = r.window
      BY <1>1, <1>4 DEF Reopened
    <2>2. Sum(v, (n + 1)..(n + 1)) = v[n + 1]
      <3>1. {} \in SUBSET (1..n) /\ (n + 1)..(n + 1) = {} \cup {n + 1}
        OBVIOUS
      <3>2. Sum(u, {}) = 0
        BY FS_EmptySet, SumUnfolds DEF Sum
      <3>3. Sum(v, {} \cup {n + 1}) = Sum(u, {}) + v[n + 1]
        BY <1>3, <3>1
      <3> QED BY <1>1, <3>1, <3>2, <3>3
    <2>3. ASSUME NEW i \in (from + 1)..n, q.start < bt[i] + q.window
          PROVE  Sum(v, i..n) <= q.max
      <3>1. i \in 1..n /\ bt[i] = at[i] /\ at[i] \in Nat
        OBVIOUS
      <3>2. i >= s
        <4> SUFFICES ASSUME i < s PROVE FALSE
          OBVIOUS
        <4>1. at[i] <= r.start
          BY DEF OpenedAt
        <4> QED BY <1>1, <1>4, <2>1, <2>3, <3>1, <4>1
      <3>3. i..n \in SUBSET (s..n) /\ s..n \in SUBSET (1..n) /\ i..n \in SUBSET (1..n)
        BY <3>2
      <3>4. Sum(u, i..n) <= Sum(u, s..n) /\ Sum(u, s..n) \in Nat /\ Sum(u, i..n) \in Nat
        BY <3>3, PartOfMints
      <3>5. Sum(u, s..n) <= r.max
        BY DEF OpenedAt
      <3>6. Sum(v, i..n) = Sum(u, i..n)
        BY <1>2, <3>3
      <3> QED BY <1>1, <2>1, <3>4, <3>5, <3>6
    <2>4. \A i \in (from + 1)..n : bt[i] <= q.start
      BY <2>1
    <2>5. OpenedAt(n + 1, v, bt, n + 1, from, q)
      <3>1. (n + 1) - 1 = n /\ q.minted <= q.max
        BY <2>1
      <3> QED BY <2>1, <2>2, <2>3, <2>4, <3>1 DEF OpenedAt
    <2> QED BY <2>5
  <1>5. CASE bt[n + 1] < r.start + r.window
    <2>1. /\ q.minted = r.minted + v[n + 1] /\ q.start = r.start /\ q.max = r.max
          /\ q.window = r.window
      BY <1>1, <1>5 DEF Reopened
    <2>2. Sum(v, s..(n + 1)) = Sum(u, s..n) + v[n + 1]
      <3>1. s..n \in SUBSET (1..n) /\ s..(n + 1) = (s..n) \cup {n + 1}
        OBVIOUS
      <3> QED BY <1>3, <3>1
    <2>3. ASSUME NEW i \in (from + 1)..(s - 1)
          PROVE  /\ bt[i] <= q.start
                 /\ q.start < bt[i] + q.window => Sum(v, i..(s - 1)) <= q.max
      <3>1. i \in 1..n /\ i..(s - 1) \in SUBSET (1..n)
        OBVIOUS
      <3>2. bt[i] = at[i] /\ Sum(v, i..(s - 1)) = Sum(u, i..(s - 1))
        BY <1>2, <3>1
      <3> QED BY <2>1, <3>2 DEF OpenedAt
    <2>4. OpenedAt(s, v, bt, n + 1, from, q)
      BY <2>1, <2>2, <2>3 DEF OpenedAt
    <2> QED BY <2>4
  <1> QED BY <1>1, <1>4, <1>5

\* So a mint within the limit keeps what every earlier mint's span amounts to.
LEMMA DoubledStays ==
    ASSUME NEW n \in Nat, NEW u \in [1..n -> Nat], NEW v \in [1..(n + 1) -> Nat],
           NEW at \in [1..n -> Nat], NEW bt \in [1..(n + 1) -> Nat],
           \A i \in 1..n : v[i] = u[i] /\ bt[i] = at[i],
           NEW from \in 0..n, NEW r, NEW q \in Limits, q.max = r.max, q.window = r.window,
           q.start <= bt[n + 1],
           NEW t \in (from + 1)..(n + 2), OpenedAt(t, v, bt, n + 1, from, q),
           Doubled(u, at, n, from, r)
    PROVE  Doubled(v, bt, n + 1, from, q)
  <1> SUFFICES ASSUME NEW i \in (from + 1)..(n + 1)
               PROVE  Sum(v, {j \in i..(n + 1) : bt[j] - bt[i] < q.window}) <= 2 * q.max
    BY DEF Doubled
  <1> DEFINE S == {j \in i..(n + 1) : bt[j] - bt[i] < q.window}
  <1>1. /\ q.window \in Nat /\ q.start \in Nat /\ q.max \in Nat
        /\ bt[n + 1] \in Nat /\ bt[i] \in Nat
    <2>1. n + 1 \in 1..(n + 1) /\ i \in 1..(n + 1)
      OBVIOUS
    <2> QED BY <2>1 DEF Limits
  <1>2. CASE q.start < bt[i] + q.window
    <2> HIDE DEF S
    <2>1. PICK m \in Nat : m = n + 1
      OBVIOUS
    <2>2. /\ v \in [1..m -> Nat] /\ bt \in [1..m -> Nat] /\ OpenedAt(t, v, bt, m, from, q)
          /\ i \in (from + 1)..m /\ from \in Nat
      BY <2>1
    <2>3. t \in (from + 1)..(m + 1)
      BY <2>1
    <2>4. S \in SUBSET (i..m)
      BY <2>1 DEF S
    <2>5. Sum(v, S) <= 2 * q.max
      BY <1>2, <2>2, <2>3, <2>4, TwoWindows
    <2> QED BY <2>5 DEF S
  <1>3. CASE ~(q.start < bt[i] + q.window)
    <2>1. ~(bt[n + 1] - bt[i] < q.window)
      BY <1>1, <1>3, SMTT(30)
    <2>2. CASE i = n + 1
      <3>1. S = {}
        <4>1. \A j \in i..(n + 1) : j = n + 1
          BY <2>2
        <4> QED BY <2>1, <4>1
      <3>2. Sum(v, {}) = 0
        BY FS_EmptySet, SumUnfolds DEF Sum
      <3> HIDE DEF S
      <3>3. Sum(v, S) <= 2 * q.max
        BY <1>1, <3>1, <3>2
      <3> QED BY <3>3 DEF S
    <2>3. CASE i \in (from + 1)..n
      <3> DEFINE R == {j \in i..n : at[j] - at[i] < r.window}
      <3>1. S = R
        <4>1. \A j : j \in i..(n + 1) <=> j \in i..n \/ j = n + 1
          OBVIOUS
        <4>2. \A j \in i..n : bt[j] = at[j]
          OBVIOUS
        <4>3. bt[i] = at[i]
          BY <2>3
        <4> QED BY <2>1, <4>1, <4>2, <4>3
      <3>2. Sum(u, R) <= 2 * r.max
        BY <2>3 DEF Doubled
      <3>3. Sum(v, R) = Sum(u, R)
        <4>1. IsFiniteSet(1..n)
          BY FiniteUpTo, Zenon
        <4>2. R \in SUBSET (1..n)
          OBVIOUS
        <4> HIDE DEF R
        <4>3. IsFiniteSet(R)
          BY <4>1, <4>2, FS_Subset
        <4>4. \A j \in R : v[j] = u[j] /\ u[j] \in Int
          BY <4>2
        <4> QED BY <4>3, <4>4, SumOfSame DEF Sum
      <3> HIDE DEF S, R
      <3>4. Sum(v, S) <= 2 * q.max
        BY <3>1, <3>2, <3>3
      <3> QED BY <3>4 DEF S
    <2>4. i = n + 1 \/ i \in (from + 1)..n
      OBVIOUS
    <2> QED BY <2>2, <2>3, <2>4
  <1> QED BY <1>2, <1>3

-----------------------------------------------------------------------------
(* The rate limit of the mint controller *)

MintTimes == [i \in DOMAIN mintLog |-> mintLog[i].at]

Window(s) == OpenedAt(s, MintedAmounts, MintTimes, Len(mintLog), limitedFrom, rateLimit)

\* The counter counts the mints of the present window, and the windows before it
\* kept the limit.
Limited ==
    rateLimit.max > 0 =>
        /\ \E s \in (limitedFrom + 1)..(Len(mintLog) + 1) : Window(s)
        /\ Doubled(MintedAmounts, MintTimes, Len(mintLog), limitedFrom, rateLimit)

\* The inductive invariant: with it, that no mint lies in the future.
LimitInv ==
    /\ IInv
    /\ limitedFrom <= Len(mintLog)
    /\ rateLimit.start <= now
    /\ \A i \in DOMAIN mintLog : mintLog[i].at <= now
    /\ Limited

LEMMA LimitFields ==
    ASSUME IInv
    PROVE  /\ Len(mintLog) \in Nat /\ DOMAIN mintLog = 1..Len(mintLog)
           /\ MintedAmounts \in [1..Len(mintLog) -> Nat]
           /\ MintTimes \in [1..Len(mintLog) -> Nat]
           /\ rateLimit \in Limits /\ now \in Nat /\ limitedFrom \in Nat
  <1>1. /\ DOMAIN mintLog = 1..Len(mintLog)
        /\ \A i \in 1..Len(mintLog) : mintLog[i] \in ExecutedMint
    BY BooksFields, LenProperties, ElementOfSeq
  <1>2. \A i \in 1..Len(mintLog) : mintLog[i].at \in Nat
    BY <1>1, BooksFields
  <1> QED BY <1>1, <1>2, AmountsTyped
      DEF MintTimes, IInv, MintInv, MintTypeOK, RegistryTypeOK, Limits

\* A step that leaves the limit and the log alone, time passing included.
LEMMA LimitUntouched ==
    ASSUME LimitInv, [Next]_vars, UNCHANGED <<rateLimit, mintLog, limitedFrom>>
    PROVE  LimitInv'
  <1>1. IInv' /\ IInv
    BY NextPreserves DEF LimitInv
  <1>2. now' = now \/ now' = now + 1
    BY DEF Next, OracleStep, RegistryStep, TokenStep, MintBookStep, ExecuteStep, BurnBookStep,
           BurnStep, TickStep, Tick, vars
  <1>3. Limited'
    <2>1. MintTimes' = MintTimes /\ MintedAmounts' = MintedAmounts
      BY DEF MintTimes, MintedAmounts
    <2> QED BY <2>1 DEF LimitInv, Limited, Window
  <1>4. /\ rateLimit'.start <= now'
        /\ \A i \in DOMAIN mintLog' : mintLog'[i].at <= now'
    <2>1. /\ now \in Nat /\ rateLimit.start \in Nat /\ rateLimit.start <= now
          /\ \A i \in DOMAIN mintLog : mintLog[i].at \in Nat /\ mintLog[i].at <= now
      <3>1. \A i \in DOMAIN mintLog : mintLog[i].at \in Nat
        BY <1>1, LimitFields DEF MintTimes
      <3> QED BY <1>1, <3>1, LimitFields DEF LimitInv, Limits
    <2> QED BY <1>2, <2>1
  <1> QED BY <1>1, <1>3, <1>4 DEF LimitInv

\* Setting the limit starts afresh.
LEMMA LimitSet ==
    ASSUME LimitInv, [Next]_vars, NEW l \in RateLimits, setRateLimit(l), now' = now
    PROVE  LimitInv'
  <1>1. /\ IInv' /\ IInv /\ mintLog' = mintLog
        /\ rateLimit' = [window |-> l.window, max |-> l.max, start |-> now, minted |-> 0]
        /\ limitedFrom' = Len(mintLog)
    BY NextPreserves DEF LimitInv, setRateLimit
  <1>2. Len(mintLog) \in Nat /\ now \in Nat
    BY <1>1, LimitFields
  <1>3. PICK n \in Nat : n = Len(mintLog)
    BY <1>2
  <1>4. l.max \in Nat
    BY MintAssumption
  <1>5. \A v : Sum(v, {}) = 0
    BY FS_EmptySet, SumUnfolds DEF Sum
  <1>6. (n + 1)..n = {} /\ (n + 1)..((n + 1) - 1) = {} /\ n + 1 \in (n + 1)..(n + 1)
    OBVIOUS
  <1>7. \A v, at : /\ OpenedAt(n + 1, v, at, n, n, rateLimit')
                   /\ Doubled(v, at, n, n, rateLimit')
    BY <1>1, <1>4, <1>5, <1>6 DEF OpenedAt, Doubled
  <1>8. Limited'
    BY <1>1, <1>3, <1>6, <1>7 DEF Limited, Window
  <1>9. rateLimit'.start <= now' /\ limitedFrom' <= Len(mintLog')
    BY <1>1, <1>2
  <1> QED BY <1>1, <1>8, <1>9 DEF LimitInv

\* The window executeMint counts the mint in, and its count.
LEMMA WindowRecords ==
    ASSUME rateLimit \in Limits, now \in Nat, NEW x \in Nat
    PROVE  /\ [RateWindow EXCEPT !.minted = @ + x] = Reopened(rateLimit, now, x)
           /\ Reopened(rateLimit, now, x).minted = RateWindow.minted + x
  <1>1. /\ RateWindow \in Limits
        /\ RateWindow.window = rateLimit.window /\ RateWindow.max = rateLimit.max
    BY DEF RateWindow, Limits
  <1>2. /\ RateWindow.start = IF now >= rateLimit.start + rateLimit.window THEN now ELSE rateLimit.start
        /\ RateWindow.minted = IF now >= rateLimit.start + rateLimit.window THEN 0 ELSE rateLimit.minted
    BY DEF RateWindow, Limits
  <1>3. ASSUME NEW r \in Limits
        PROVE  [r EXCEPT !.minted = @ + x]
                 = [window |-> r.window, max |-> r.max, start |-> r.start, minted |-> r.minted + x]
    BY DEF Limits
  <1>4. [RateWindow EXCEPT !.minted = @ + x]
          = [window |-> RateWindow.window, max |-> RateWindow.max,
             start |-> RateWindow.start, minted |-> RateWindow.minted + x]
    BY <1>1, <1>3
  <1> QED BY <1>1, <1>2, <1>4 DEF Reopened

\* A mint moves the window as Reopened says, and stays within the limit.
LEMMA LimitMinted ==
    ASSUME LimitInv, [Next]_vars, NEW id \in Allocations, executeMint(id), now' = now
    PROVE  LimitInv'
  <1>1. IInv' /\ IInv
    BY NextPreserves DEF LimitInv
  <1>2. PICK m \in ExecutedMint : /\ m.req = proposals[id].req /\ m.at = now
                                  /\ mintLog' = Append(mintLog, m)
    BY <1>1, ExecutedMintLogged
  <1>3. PICK n \in Nat : n = Len(mintLog)
    BY <1>1, LimitFields
  <1>4. /\ DOMAIN mintLog' = 1..(n + 1) /\ DOMAIN mintLog = 1..n
        /\ \A i \in 1..n : mintLog'[i] = mintLog[i]
        /\ mintLog'[n + 1] = m /\ Len(mintLog') = n + 1
    <2>1. mintLog \in Seq(ExecutedMint)
      BY <1>1, BooksFields
    <2> QED BY <1>2, <1>3, <2>1, AppendEntries, AppendProperties
  <1>5. m.req.amount \in Nat /\ now \in Nat /\ rateLimit \in Limits /\ limitedFrom \in 0..n
    BY <1>1, <1>3, BooksFields, LimitFields DEF LimitInv
  <1> DEFINE u == MintedAmounts
             v == [i \in 1..(n + 1) |-> mintLog'[i].req.amount]
             at == MintTimes
             bt == [i \in 1..(n + 1) |-> mintLog'[i].at]
             q == rateLimit'
  <1>6. /\ u \in [1..n -> Nat] /\ at \in [1..n -> Nat]
        /\ \A i \in 1..n : u[i] = mintLog[i].req.amount /\ at[i] = mintLog[i].at
    BY <1>1, <1>3, <1>4, LimitFields DEF MintTimes, MintedAmounts
  <1>7. /\ \A i \in 1..n : v[i] = u[i] /\ bt[i] = at[i]
        /\ v[n + 1] = m.req.amount /\ bt[n + 1] = now
    <2>1. n + 1 \in 1..(n + 1) /\ \A i \in 1..n : i \in 1..(n + 1)
      OBVIOUS
    <2> QED BY <1>2, <1>4, <1>6, <2>1
  <1>8. v \in [1..(n + 1) -> Nat] /\ bt \in [1..(n + 1) -> Nat]
    <2>1. \A i \in 1..(n + 1) : i \in 1..n \/ i = n + 1
      OBVIOUS
    <2>2. \A i \in 1..(n + 1) : v[i] \in Nat /\ bt[i] \in Nat
      BY <1>5, <1>6, <1>7, <2>1
    <2> QED BY <2>2
  <1>9. MintedAmounts' = v /\ MintTimes' = bt
    BY <1>4 DEF MintedAmounts, MintTimes
  <1>10. limitedFrom' = limitedFrom /\ q.window = rateLimit.window /\ q.max = rateLimit.max
    BY <1>5 DEF executeMint, RateWindow, Limits
  <1>11. \A i \in 1..n : at[i] <= now
    BY <1>4, <1>6 DEF LimitInv
  <1>12. ASSUME rateLimit.max > 0
         PROVE  /\ q = Reopened(rateLimit, now, m.req.amount)
                /\ q.minted <= rateLimit.max
    <2>1. /\ q = [RateWindow EXCEPT !.minted = @ + m.req.amount]
          /\ RateWindow.minted + m.req.amount <= rateLimit.max
      BY <1>2, <1>12 DEF executeMint, WithinRateLimit
    <2> QED BY <1>5, <2>1, WindowRecords
  <1>13. q.start <= now
    <2>1. rateLimit.start <= now /\ rateLimit.start \in Nat
      BY <1>5 DEF LimitInv, Limits
    <2>2. CASE rateLimit.max > 0
      <3>1. Reopened(rateLimit, now, m.req.amount).start \in {now, rateLimit.start}
        BY DEF Reopened
      <3>2. q.start = now \/ q.start = rateLimit.start
        BY <1>12, <2>2, <3>1
      <3> QED BY <1>5, <2>1, <3>2
    <2>3. CASE ~(rateLimit.max > 0)
      BY <2>1, <2>3 DEF executeMint
    <2> QED BY <2>2, <2>3
  <1>14. Limited'
    <2> SUFFICES ASSUME rateLimit.max > 0
                 PROVE  /\ \E t \in (limitedFrom + 1)..(n + 2) :
                              OpenedAt(t, v, bt, n + 1, limitedFrom, q)
                        /\ Doubled(v, bt, n + 1, limitedFrom, q)
      <3>1. (n + 1) + 1 = n + 2
        OBVIOUS
      <3> HIDE DEF v, bt
      <3> QED BY <1>4, <1>9, <1>10, <3>1 DEF Limited, Window
    <2>1. PICK s \in (limitedFrom + 1)..(n + 1) : OpenedAt(s, u, at, n, limitedFrom, rateLimit)
      BY <1>3 DEF LimitInv, Limited, Window
    <2>2. Doubled(u, at, n, limitedFrom, rateLimit)
      BY <1>3 DEF LimitInv, Limited
    <2>3. rateLimit.start <= now /\ q \in Limits
      BY <1>1, LimitFields, NextPreserves DEF LimitInv, IInv, MintInv, MintTypeOK, Limits
    <2> HIDE DEF u, v, at, bt, q
    <2>4. PICK t \in (limitedFrom + 1)..(n + 2) : OpenedAt(t, v, bt, n + 1, limitedFrom, q)
      <3>1. /\ \A i \in 1..n : v[i] = u[i] /\ bt[i] = at[i] /\ at[i] <= bt[n + 1]
            /\ rateLimit.start <= bt[n + 1]
            /\ q = Reopened(rateLimit, bt[n + 1], v[n + 1]) /\ q.minted <= rateLimit.max
        BY <1>7, <1>11, <1>12, <2>3
      <3> QED BY <1>5, <1>6, <1>8, <2>1, <3>1, WindowMoves
    <2>5. Doubled(v, bt, n + 1, limitedFrom, q)
      BY <1>5, <1>6, <1>7, <1>8, <1>10, <1>13, <2>2, <2>3, <2>4, DoubledStays
    <2> QED BY <2>4, <2>5
  <1>15. \A i \in DOMAIN mintLog' : mintLog'[i].at <= now
    <2>1. \A i \in 1..(n + 1) : i \in 1..n \/ i = n + 1
      OBVIOUS
    <2> QED BY <1>2, <1>4, <1>5, <2>1 DEF LimitInv
  <1> QED BY <1>1, <1>4, <1>5, <1>10, <1>13, <1>14, <1>15 DEF LimitInv

LEMMA LimitPreserved ==
    ASSUME LimitInv, [Next]_vars
    PROVE  LimitInv'
  <1>1. CASE \E l \in RateLimits : setRateLimit(l) /\ now' = now
    BY <1>1, LimitSet
  <1>2. CASE \E id \in Allocations : executeMint(id) /\ now' = now
    BY <1>2, LimitMinted
  <1>3. CASE UNCHANGED <<rateLimit, mintLog, limitedFrom>>
    BY <1>3, LimitUntouched
  <1> QED BY <1>1, <1>2, <1>3
      DEF Next, OracleStep, RegistryStep, TokenStep, MintBookStep, ExecuteStep, BurnBookStep,
          BurnStep, TickStep, vars, mintVars, MintBookNext, proposeMint, approveMint, cancelMint,
          MintConfigNext

\* For every window, maximum and history of mints and of settings of the limit:
\* any span shorter than the window holds at most twice the maximum.
THEOREM RateLimitHolds == Spec => []RateLimitDoubled
  <1>1. Init => LimitInv
    <2> SUFFICES ASSUME Init PROVE LimitInv
      OBVIOUS
    <2>1. mintLog = <<>> /\ limitedFrom = 0 /\ rateLimit.max = 0 /\ rateLimit.start = 0 /\ now = 1
      BY DEF Init, MintInit, TimeInit
    <2>2. Len(mintLog) = 0 /\ DOMAIN mintLog = {}
      BY <2>1
    <2> QED BY <2>1, <2>2, InitEstablishes DEF LimitInv, Limited
  <1>2. LimitInv /\ [Next]_vars => LimitInv'
    BY LimitPreserved
  <1>3. LimitInv => RateLimitDoubled
    <2> SUFFICES ASSUME LimitInv, rateLimit.max > 0, NEW i \in limitedFrom+1 .. Len(mintLog)
                 PROVE  SumFunctionOnSet(MintedAmounts,
                          {j \in i .. Len(mintLog) : mintLog[j].at - mintLog[i].at < rateLimit.window})
                          <= 2 * rateLimit.max
      BY DEF RateLimitDoubled
    <2>1. \A j \in i .. Len(mintLog) : MintTimes[j] = mintLog[j].at
      BY LimitFields DEF LimitInv, MintTimes
    <2>2. i \in i .. Len(mintLog)
      BY LimitFields DEF LimitInv
    <2>3. {j \in i .. Len(mintLog) : mintLog[j].at - mintLog[i].at < rateLimit.window}
            = {j \in i .. Len(mintLog) : MintTimes[j] - MintTimes[i] < rateLimit.window}
      BY <2>1, <2>2
    <2> QED BY <2>3 DEF LimitInv, Limited, Doubled, Sum
  <1> QED BY <1>1, <1>2, <1>3, PTL DEF Spec

-----------------------------------------------------------------------------
(* The scenarios *)

\* A scenario's steps are steps of the contracts.
LEMMA ScenarioSteps ==
    ASSUME scenario \in Scenarios, [MCNext]_mcVars
    PROVE  [Next]_vars /\ scenario' = scenario
  <1>1. "alice" \in Wallets /\ scenario.ids \subseteq Allocations
    BY ScenarioAssumption
  <1>2. AuditStep => OracleStep
    BY DEF AuditStep, OracleStep, OracleNext
  <1>3. ProposeStep => MintBookStep
    BY <1>1 DEF ProposeStep, MintBookStep, MintBookNext
  <1>4. LimitStep => MintBookStep
    BY DEF LimitStep, MintBookStep, MintBookNext
  <1>5. TransferStep \/ PauseStep \/ ApproveStep => TokenStep
    BY <1>1 DEF TransferStep, PauseStep, ApproveStep, TokenStep, TokenNext
  <1>6. RestrictStep => RegistryStep
    BY <1>1 DEF RestrictStep, RegistryStep, RegistryNext
  <1>7. SignStep => BurnBookStep
    BY DEF SignStep, BurnBookStep, BurnBookNext
  <1>8. CASE MCNext
    BY <1>2, <1>3, <1>4, <1>5, <1>6, <1>7, <1>8 DEF MCNext, Kind, Next
  <1>9. CASE UNCHANGED mcVars
    BY <1>9 DEF mcVars
  <1> QED BY <1>8, <1>9

\* A scenario starts in a state the contracts' invariant allows.
LEMMA ScenarioStarts ==
    ASSUME MCInit
    PROVE  IInv
  <1>1. scenario \in Scenarios /\ "TR" \in Jurisdictions
    BY ScenarioAssumption DEF MCInit
  <1>2. /\ scenario.issued \in Nat /\ scenario.onboardedUntil \in Nat
        /\ scenario.travel \subseteq Nat
    BY <1>1, ScenarioAssumption
  <1>3. OracleInv /\ MintInv /\ BurnInv
    BY OracleInitEstablishes, MintInitEstablishes, BurnInitEstablishes DEF MCInit
  <1>4. RegistryTypeOK
    <2>1. [jurisdiction |-> "TR", kycExpiresAt |-> scenario.onboardedUntil,
           frozen |-> FALSE, sanctioned |-> FALSE] \in WalletProfile
      BY <1>1, <1>2 DEF WalletProfile
    <2>2. profiles \in [Wallets -> WalletProfile]
      <3> HIDE DEF WalletProfile
      <3> QED BY <2>1 DEF MCInit
    <2>3. now \in Nat \ {0} /\ travelRuleThreshold \in Nat
      BY <1>2 DEF MCInit, TimeInit
    <2>4. jurisdictionBlocked = {} /\ travelRuleApproved = {}
      BY DEF MCInit
    <2> QED BY <2>2, <2>3, <2>4 DEF RegistryTypeOK
  <1>5. TokenTypeOK
    <2>1. ledger \in [balances : [Wallets -> Nat], totalSupply : Int]
      <3>1. [w \in Wallets |-> IF w = "alice" THEN scenario.issued ELSE 0] \in [Wallets -> Nat]
        BY <1>2
      <3> QED BY <1>2, <3>1 DEF MCInit
    <2>2. allowance \in [Wallets -> Nat]
      BY DEF MCInit
    <2> QED BY <2>1, <2>2 DEF MCInit, TokenTypeOK, ControllerSlots
  <1> QED BY <1>3, <1>4, <1>5 DEF IInv

\* And with its books balanced.
LEMMA ScenarioBooks ==
    ASSUME MCInit
    PROVE  Accounted(scenario.issued)
  <1>1. /\ scenario.issued \in Nat /\ "alice" \in Wallets
        /\ executed = {} /\ DOMAIN mintLog = {} /\ DOMAIN clawbacks = {}
        /\ ledger = [balances |-> [w \in Wallets |-> IF w = "alice" THEN scenario.issued ELSE 0],
                     totalSupply |-> scenario.issued]
    BY ScenarioAssumption DEF MCInit, BurnInit, MintInit
  <1>2. IsFiniteSet({}) /\ IsFiniteSet(Wallets)
    BY FS_EmptySet, RegistryAssumption
  <1>3. \A v : SumFunctionOnSet(v, {}) = 0
    BY <1>2, SumUnfolds
  <1>4. /\ SumFunction(MintedAmounts) = 0 /\ SumFunction(RedeemedAmounts) = 0
        /\ SumFunction(ClawedBackAmounts) = 0
    BY <1>1, <1>3 DEF SumFunction, MintedAmounts, RedeemedAmounts, ClawedBackAmounts
  <1>5. SumFunctionOnSet(ledger.balances, Wallets) = scenario.issued
    <2> DEFINE v == [w \in Wallets |-> 0]
    <2>0. PICK a \in Wallets, n \in Int : a = "alice" /\ n = scenario.issued
      BY <1>1
    <2>1. v \in [Wallets -> Int] /\ v[a] = 0
      OBVIOUS
    <2>2. SumFunctionOnSet(v, Wallets) = 0
      BY <1>2, SumOfNothing
    <2>3. ledger.balances = [v EXCEPT ![a] = n]
      BY <1>1, <2>0
    <2> HIDE DEF v
    <2>4. SumFunctionOnSet([v EXCEPT ![a] = n], Wallets) = SumFunctionOnSet(v, Wallets) + n - v[a]
      BY <1>2, <2>1, SumOfChanged
    <2> QED BY <2>0, <2>1, <2>2, <2>3, <2>4
  <1> QED BY <1>1, <1>2, <1>4, <1>5, ScenarioStarts
      DEF Accounted, SupplyIsSumOfBalances, SupplyIsMintedLessBurned

\* The same of every set of scenarios that start and act within the contracts'
\* constants, and in particular of those the runs check.
THEOREM ScenariosAccount == MCSpec => []SupplyIsAccountedFor
  <1> DEFINE MCInv == scenario \in Scenarios /\ Accounted(scenario.issued)
  <1>1. MCInit => MCInv
    BY ScenarioBooks DEF MCInit
  <1>2. MCInv /\ [MCNext]_mcVars => MCInv'
    <2> SUFFICES ASSUME MCInv, [MCNext]_mcVars PROVE MCInv'
      OBVIOUS
    <2>1. PICK issued \in Int : issued = scenario.issued
      BY ScenarioAssumption
    <2>2. Accounted(issued)' /\ scenario' = scenario
      BY <2>1, ScenarioSteps, AccountsPreserved
    <2>3. scenario'.issued = issued
      BY <2>1, <2>2
    <2> QED BY <2>2, <2>3 DEF Accounted, SupplyIsMintedLessBurned
  <1>3. MCInv => SupplyIsAccountedFor
    BY DEF Accounted, SupplyIsAccountedFor
  <1> QED BY <1>1, <1>2, <1>3, PTL DEF MCSpec
=============================================================================
