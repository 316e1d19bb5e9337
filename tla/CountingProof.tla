---------------------------- MODULE CountingProof ----------------------------
(***************************************************************************)
(* What the accounts of the queue and of the metrics are proved from: how a*)
(* sum changes when one counter does, and how the number of clients at some*)
(* labels changes when one of them moves.                                  *)
(***************************************************************************)
EXTENDS Counting, FiniteSetTheorems, TLAPS

(* The sum of a function that is zero everywhere.                          *)
LEMMA TotalZero ==
    ASSUME NEW S, NEW f \in [S -> Nat], \A x \in S : f[x] = 0
    PROVE  IsFiniteSet(Units(f)) /\ Total(f) = 0
<1>1. Units(f) = {}
  BY DEF Units
<1> QED
  BY <1>1, FS_EmptySet DEF Total

(* One value becomes one greater.                                          *)
LEMMA TotalUp ==
    ASSUME NEW S, NEW f \in [S -> Nat], NEW g \in [S -> Nat], NEW x \in S,
           IsFiniteSet(Units(f)), g[x] = f[x] + 1, \A y \in S : y # x => g[y] = f[y]
    PROVE  IsFiniteSet(Units(g)) /\ Total(g) = Total(f) + 1
<1> DEFINE e == <<x, f[x] + 1>>
<1>1. \A y \in S, i \in Nat : <<y, i>> \in Units(f) <=> 1 <= i /\ i <= f[y]
  BY DEF Units
<1>2. \A y \in S, i \in Nat : <<y, i>> \in Units(g) <=> 1 <= i /\ i <= g[y]
  BY DEF Units
<1>3. Units(f) \subseteq S \X Nat /\ Units(g) \subseteq S \X Nat
  BY DEF Units
<1>4. e \notin Units(f)
  BY <1>1
<1>5. \A y \in S, i \in Nat : <<y, i>> \in Units(g) <=> <<y, i>> \in Units(f) \/ <<y, i>> = e
  <2> SUFFICES ASSUME NEW y \in S, NEW i \in Nat
               PROVE  <<y, i>> \in Units(g) <=> <<y, i>> \in Units(f) \/ <<y, i>> = e
    OBVIOUS
  <2>1. <<y, i>> = e <=> y = x /\ i = f[x] + 1
    OBVIOUS
  <2>2. f[y] \in Nat /\ g[y] \in Nat /\ f[x] \in Nat
    OBVIOUS
  <2>3. 1 <= i /\ i <= g[y] <=> (1 <= i /\ i <= f[y]) \/ (y = x /\ i = f[x] + 1)
    BY <2>2
  <2> QED
    BY <1>1, <1>2, <2>1, <2>3
<1>6. Units(g) = Units(f) \cup {e}
  <2>1. e \in S \X Nat
    OBVIOUS
  <2>2. \A u \in S \X Nat : u \in Units(g) <=> u \in Units(f) \/ u = e
    BY <1>5
  <2> QED
    BY <1>3, <2>1, <2>2
<1> QED
  BY <1>4, <1>6, FS_AddElement DEF Total

(* One value becomes one less.                                             *)
LEMMA TotalDown ==
    ASSUME NEW S, NEW f \in [S -> Nat], NEW g \in [S -> Nat], NEW x \in S,
           IsFiniteSet(Units(f)), f[x] = g[x] + 1, \A y \in S : y # x => g[y] = f[y]
    PROVE  IsFiniteSet(Units(g)) /\ Total(f) = Total(g) + 1
<1>1. Units(g) \subseteq Units(f)
  BY DEF Units
<1>2. IsFiniteSet(Units(g))
  BY <1>1, FS_Subset
<1> QED
  BY <1>2, TotalUp
=============================================================================
