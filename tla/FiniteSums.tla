------------------------------ MODULE FiniteSums ------------------------------
(***************************************************************************)
(* Lemmas for the proofs about counters that are sums over a finite set    *)
(* (the bytes on disk, the lines on every socket): what SumFunction of the *)
(* community modules returns.  Induction over finite sets is done by a     *)
(* smallest counterexample, the order of strict inclusion being well       *)
(* founded.                                                                *)
(***************************************************************************)
EXTENDS Naturals, FiniteSets, Functions, FiniteSetTheorems, TLAPS

-----------------------------------------------------------------------------
(* The sum of a finite function                                            *)

\* A nonempty family of finite sets has a member that no other lies within.
LEMMA SmallestSet ==
    ASSUME NEW C, C # {}, \A B \in C : IsFiniteSet(B)
    PROVE  \E B \in C : \A A \in C : ~(A \subseteq B /\ A # B)
<1> DEFINE S == UNION C
           R == StrictSubsetOrdering(S)
           F == FiniteSubsetsOf(S)
<1>1. IsWellFoundedOn(R, F)
  BY FS_StrictSubsetOrderingWellFounded
<1>2. C \subseteq F
  BY DEF FiniteSubsetsOf
<1>3. PICK B \in C : \A A \in C : ~(<<A, B>> \in R)
  <2> HIDE DEF R, F
  <2> QED BY <1>1, <1>2, WFMin
<1> QED BY <1>3 DEF StrictSubsetOrdering

\* The element a fold takes first, and what is left then.
Chosen(s) == CHOOSE x \in s : TRUE
Unchosen(s) == s \ {Chosen(s)}

\* g sums w over every part of S.
Sums(g, w, S) ==
    g = [s \in SUBSET S |-> IF s = {} THEN 0 ELSE w[Chosen(s)] + g[Unchosen(s)]]

LEMMA ChosenFact ==
    ASSUME NEW s, s # {}
    PROVE  Chosen(s) \in s /\ Unchosen(s) \subseteq s /\ Unchosen(s) # s
BY DEF Chosen, Unchosen

LEMMA SumsStep ==
    ASSUME NEW S, NEW w, NEW g, Sums(g, w, S)
    PROVE  /\ g[{}] = 0
           /\ \A s \in SUBSET S : s # {} => g[s] = w[Chosen(s)] + g[Unchosen(s)]
BY DEF Sums

\* Functions that sum the same weights over a set and a part of it agree there.
LEMMA SumsAgree ==
    ASSUME NEW S, NEW w, NEW v, NEW g, NEW h, NEW U, U \subseteq S, IsFiniteSet(U),
           Sums(g, w, S), Sums(h, v, U), \A x \in U : w[x] = v[x]
    PROVE  g[U] = h[U]
<1> DEFINE Bad == {s \in SUBSET U : g[s] # h[s]}
<1>1. SUFFICES ASSUME Bad # {} PROVE FALSE
  OBVIOUS
<1>2. \A s \in Bad : IsFiniteSet(s)
  BY FS_Subset
<1>3. PICK s \in Bad : \A t \in Bad : ~(t \subseteq s /\ t # s)
  <2> HIDE DEF Bad
  <2> QED BY <1>1, <1>2, SmallestSet
<1>4. s \in SUBSET S /\ s \in SUBSET U
  OBVIOUS
<1>5. s # {}
  <2>1. g[{}] = 0 /\ h[{}] = 0
    BY SumsStep
  <2> QED BY <2>1
<1>6. /\ Chosen(s) \in s /\ Unchosen(s) \subseteq s /\ Unchosen(s) # s
      /\ g[s] = w[Chosen(s)] + g[Unchosen(s)] /\ h[s] = v[Chosen(s)] + h[Unchosen(s)]
  <2>1. /\ \A t \in SUBSET S : t # {} => g[t] = w[Chosen(t)] + g[Unchosen(t)]
        /\ \A t \in SUBSET U : t # {} => h[t] = v[Chosen(t)] + h[Unchosen(t)]
    BY SumsStep
  <2> HIDE DEF Bad
  <2> QED BY <1>4, <1>5, <2>1, ChosenFact
<1>7. Unchosen(s) \notin Bad
  <2> HIDE DEF Bad
  <2> QED BY <1>3, <1>6
<1> QED BY <1>6, <1>7

\* Every finite set has a function that sums over its parts.
LEMMA SumsExist ==
    ASSUME NEW S, IsFiniteSet(S), NEW w
    PROVE  \E g : Sums(g, w, S)
<1> DEFINE Bad == {T \in SUBSET S : ~ \E g : Sums(g, w, T)}
<1>1. SUFFICES ASSUME Bad # {} PROVE FALSE
  OBVIOUS
<1>2. \A T \in Bad : IsFiniteSet(T)
  BY FS_Subset
<1>3. PICK T \in Bad : \A U \in Bad : ~(U \subseteq T /\ U # T)
  <2> HIDE DEF Bad
  <2> QED BY <1>1, <1>2, SmallestSet
<1> DEFINE sum(U) == CHOOSE g : Sums(g, w, U)
           at(s) == IF s = {} THEN 0 ELSE w[Chosen(s)] + sum(Unchosen(s))[Unchosen(s)]
           f == [s \in SUBSET T |-> at(s)]
<1>4. ASSUME NEW U \in SUBSET T, U # T PROVE Sums(sum(U), w, U)
  BY <1>3, <1>4
<1>5. ASSUME NEW s \in SUBSET T, s # T PROVE sum(s)[s] = at(s)
  <2>1. Sums(sum(s), w, s)
    BY <1>4, <1>5
  <2>2. CASE s = {}
    <3>1. sum(s)[{}] = 0
      <4> HIDE DEF sum
      <4> QED BY <2>1, SumsStep
    <3> QED BY <2>2, <3>1
  <2>3. CASE s # {}
    <3> DEFINE r == Unchosen(s)
    <3>1. r \subseteq s /\ r # s
      BY <2>3, ChosenFact
    <3>2. Sums(sum(r), w, r)
      BY <1>4, <1>5, <3>1
    <3>3. IsFiniteSet(r)
      BY <1>2, <1>5, <3>1, FS_Subset
    <3> HIDE DEF sum, r
    <3>4. sum(s)[r] = sum(r)[r]
      BY <2>1, <3>1, <3>2, <3>3, SumsAgree
    <3>5. sum(s)[s] = w[Chosen(s)] + sum(s)[Unchosen(s)]
      <4>1. \A t \in SUBSET s : t # {} => sum(s)[t] = w[Chosen(t)] + sum(s)[Unchosen(t)]
        BY <2>1, SumsStep
      <4> QED BY <2>3, <4>1
    <3> QED BY <2>3, <3>4, <3>5 DEF r
  <2> QED BY <2>2, <2>3
<1>6. Sums(f, w, T)
  <2>1. ASSUME NEW s \in SUBSET T
        PROVE  at(s) = IF s = {} THEN 0 ELSE w[Chosen(s)] + f[Unchosen(s)]
    <3>1. CASE s = {}
      BY <3>1
    <3>2. CASE s # {}
      <4>1. Unchosen(s) \in SUBSET T /\ Unchosen(s) # T
        BY <3>2, ChosenFact
      <4>2. f[Unchosen(s)] = at(Unchosen(s))
        BY <4>1
      <4>3. at(Unchosen(s)) = sum(Unchosen(s))[Unchosen(s)]
        BY <1>5, <4>1
      <4> HIDE DEF sum
      <4>4. at(s) = w[Chosen(s)] + sum(Unchosen(s))[Unchosen(s)]
        BY <3>2
      <4> HIDE DEF at, f
      <4> QED BY <3>2, <4>2, <4>3, <4>4
    <3> QED BY <3>1, <3>2
  <2>2. f = [s \in SUBSET T |-> IF s = {} THEN 0 ELSE w[Chosen(s)] + f[Unchosen(s)]]
    <3> DEFINE e(s) == IF s = {} THEN 0 ELSE w[Chosen(s)] + f[Unchosen(s)]
    <3>1. \A s \in SUBSET T : at(s) = e(s)
      BY <2>1
    <3> HIDE DEF at, e
    <3>2. [s \in SUBSET T |-> at(s)] = [s \in SUBSET T |-> e(s)]
      BY <3>1
    <3> QED BY <3>2 DEF e
  <2> HIDE DEF f
  <2> QED BY <2>2 DEF Sums
<1> HIDE DEF f
<1> QED BY <1>3, <1>6

\* Taking any one element out of a sum of naturals.
LEMMA SumsTake ==
    ASSUME NEW S, IsFiniteSet(S), NEW w \in [S -> Nat], NEW g, Sums(g, w, S)
    PROVE  \A s \in SUBSET S : /\ g[s] \in Nat
                               /\ \A x \in s : g[s] = w[x] + g[s \ {x}]
<1> DEFINE Good(s) == g[s] \in Nat /\ \A x \in s : g[s] = w[x] + g[s \ {x}]
           Bad == {s \in SUBSET S : ~ Good(s)}
<1>1. SUFFICES ASSUME Bad # {} PROVE FALSE
  OBVIOUS
<1>2. \A s \in Bad : IsFiniteSet(s)
  BY FS_Subset
<1>3. PICK s \in Bad : \A t \in Bad : ~(t \subseteq s /\ t # s)
  <2> HIDE DEF Bad
  <2> QED BY <1>1, <1>2, SmallestSet
<1>4. \A t \in SUBSET s : t # s => Good(t)
  <2> SUFFICES ASSUME NEW t \in SUBSET s, t # s PROVE Good(t)
    OBVIOUS
  <2>1. t \in SUBSET S /\ t \notin Bad
    <3> HIDE DEF Good
    <3> QED BY <1>3
  <2> QED BY <2>1
<1>5. s \in SUBSET S /\ ~ Good(s)
  OBVIOUS
<1>6. s # {}
  <2> SUFFICES ASSUME s = {} PROVE FALSE
    OBVIOUS
  <2>1. g[{}] = 0
    BY SumsStep
  <2> QED BY <1>5, <2>1
<1> DEFINE c == Chosen(s)
<1>7. c \in s /\ s \ {c} \in SUBSET s /\ s \ {c} # s /\ g[s] = w[c] + g[s \ {c}]
  <2>1. \A t \in SUBSET S : t # {} => g[t] = w[Chosen(t)] + g[Unchosen(t)]
    BY SumsStep
  <2>2. g[s] = w[Chosen(s)] + g[Unchosen(s)]
    BY <1>6, <2>1
  <2> HIDE DEF Bad
  <2> QED BY <1>6, <2>2, ChosenFact DEF Unchosen
<1>8. \A x \in s : w[x] \in Nat
  BY <1>5
<1> HIDE DEF c, Bad
<1>9. Good(s \ {c})
  BY <1>4, <1>7
<1>10. g[s] \in Nat
  BY <1>7, <1>8, <1>9
<1>11. ASSUME NEW x \in s PROVE g[s] = w[x] + g[s \ {x}]
  <2>1. CASE x = c
    BY <1>7, <2>1
  <2>2. CASE x # c
    <3> DEFINE u == (s \ {c}) \ {x}
    <3>1. u = (s \ {x}) \ {c} /\ x \in s \ {c} /\ c \in s \ {x}
      BY <1>7, <2>2
    <3>2. g[s \ {c}] = w[x] + g[u]
      BY <1>9, <3>1
    <3>3. Good(s \ {x})
      BY <1>4
    <3>4. g[s \ {x}] = w[c] + g[u]
      BY <3>1, <3>3
    <3>5. g[u] \in Nat
      <4>1. Good(u)
        BY <1>4
      <4> QED BY <4>1
    <3> HIDE DEF u
    <3> QED BY <1>7, <1>8, <3>2, <3>4, <3>5
  <2> QED BY <2>1, <2>2
<1> QED BY <1>5, <1>10, <1>11

\* SumFunction sums over its domain.
LEMMA SumUnfolds ==
    ASSUME NEW S, IsFiniteSet(S), NEW w, DOMAIN w = S
    PROVE  \E g : Sums(g, w, S) /\ SumFunction(w) = g[S]
<1> DEFINE g == CHOOSE h : Sums(h, w, S)
<1>1. Sums(g, w, S)
  BY SumsExist
<1>2. SumFunction(w) = g[S]
  BY DEF SumFunction, SumFunctionOnSet, FoldFunctionOnSet, MapThenFoldSet, Sums,
         Chosen, Unchosen
<1> QED BY <1>1, <1>2

LEMMA SumNothing ==
    ASSUME NEW w, DOMAIN w = {}
    PROVE  SumFunction(w) = 0
<1>1. PICK g : Sums(g, w, {}) /\ SumFunction(w) = g[{}]
  BY SumUnfolds, FS_EmptySet
<1>2. g[{}] = 0
  BY <1>1, SumsStep
<1> QED BY <1>1, <1>2

\* A sum is one weight and the sum of the others.
LEMMA SumTakes ==
    ASSUME NEW S, IsFiniteSet(S), NEW w \in [S -> Nat], NEW x \in S,
           NEW v \in [S \ {x} -> Nat], \A y \in S \ {x} : v[y] = w[y]
    PROVE  /\ SumFunction(w) \in Nat /\ SumFunction(v) \in Nat
           /\ SumFunction(w) = w[x] + SumFunction(v)
<1> DEFINE U == S \ {x}
<1>1. IsFiniteSet(U) /\ U \in SUBSET S 
  BY FS_Subset
<1>2. PICK g : Sums(g, w, S) /\ SumFunction(w) = g[S]
  BY SumUnfolds
<1>3. PICK h : Sums(h, v, U) /\ SumFunction(v) = h[U]
  BY <1>1, SumUnfolds
<1>4. g[U] = h[U]
  <2>1. \A y \in U : w[y] = v[y]
    OBVIOUS
  <2> HIDE DEF U
  <2> QED BY <1>1, <1>2, <1>3, <2>1, SumsAgree
<1>5. /\ g[S] \in Nat /\ g[U] \in Nat
      /\ g[S] = w[x] + g[U]
  <2>1. \A s \in SUBSET S : g[s] \in Nat /\ \A y \in s : g[s] = w[y] + g[s \ {y}]
    BY <1>2, SumsTake
  <2> QED BY <1>1, <2>1
<1> QED BY <1>2, <1>3, <1>4, <1>5

LEMMA SumNat ==
    ASSUME NEW S, IsFiniteSet(S), NEW w \in [S -> Nat]
    PROVE  SumFunction(w) \in Nat
<1>1. PICK g : Sums(g, w, S) /\ SumFunction(w) = g[S]
  BY SumUnfolds
<1> QED BY <1>1, SumsTake

\* A part of a sum is at most the sum.
LEMMA SumOfPart ==
    ASSUME NEW S, IsFiniteSet(S), NEW w \in [S -> Nat], NEW T \in SUBSET S,
           NEW v \in [T -> Nat], \A y \in T : v[y] = w[y]
    PROVE  SumFunction(v) <= SumFunction(w)
<1>1. IsFiniteSet(T)
  BY FS_Subset
<1>2. PICK g : Sums(g, w, S) /\ SumFunction(w) = g[S]
  BY SumUnfolds
<1>3. PICK h : Sums(h, v, T) /\ SumFunction(v) = h[T]
  BY <1>1, SumUnfolds
<1>4. g[T] = h[T]
  BY <1>1, <1>2, <1>3, SumsAgree
<1>5. \A s \in SUBSET S : g[s] \in Nat /\ \A x \in s : g[s] = w[x] + g[s \ {x}]
  BY <1>2, SumsTake
<1> DEFINE Bad == {s \in SUBSET S : ~ (g[T] <= g[s \cup T])}
<1>6. SUFFICES Bad = {}
  <2>1. S \notin Bad /\ S \cup T = S
    BY <1>6
  <2>2. g[T] <= g[S]
    BY <2>1
  <2> QED BY <1>2, <1>3, <1>4, <2>2
<1>7. SUFFICES ASSUME Bad # {} PROVE FALSE
  OBVIOUS
<1>8. \A s \in Bad : IsFiniteSet(s)
  BY FS_Subset
<1>9. PICK s \in Bad : \A t \in Bad : ~(t \subseteq s /\ t # s)
  <2> HIDE DEF Bad
  <2> QED BY <1>7, <1>8, SmallestSet
<1>10. s \in SUBSET S /\ ~ (g[T] <= g[s \cup T]) /\ g[T] \in Nat /\ g[s \cup T] \in Nat
  BY <1>5
<1>11. s \cup T # T
  BY <1>10
<1>12. PICK x \in s : x \notin T
  BY <1>11
<1>13. g[T] <= g[(s \ {x}) \cup T]
  <2>1. s \ {x} \notin Bad
    <3> HIDE DEF Bad
    <3> QED BY <1>9, <1>12
  <2> QED BY <1>10, <2>1
<1>14. g[s \cup T] = w[x] + g[(s \ {x}) \cup T]
  <2>1. (s \cup T) \ {x} = (s \ {x}) \cup T /\ s \cup T \in SUBSET S /\ x \in s \cup T
    BY <1>10, <1>12
  <2> QED BY <1>5, <2>1
<1>15. w[x] \in Nat /\ g[(s \ {x}) \cup T] \in Nat
  BY <1>5, <1>10
<1> HIDE DEF Bad
<1> QED BY <1>10, <1>13, <1>14, <1>15

\* When one weight changes, so does the sum, by as much.
LEMMA SumChanges ==
    ASSUME NEW S, IsFiniteSet(S), NEW w \in [S -> Nat], NEW u \in [S -> Nat],
           NEW x \in S, \A y \in S \ {x} : u[y] = w[y]
    PROVE  /\ SumFunction(w) \in Nat /\ SumFunction(u) \in Nat
           /\ SumFunction(u) + w[x] = SumFunction(w) + u[x]
<1> DEFINE v == [y \in S \ {x} |-> w[y]]
<1>1. v \in [S \ {x} -> Nat] /\ \A y \in S \ {x} : v[y] = w[y]
  OBVIOUS
<1>2. \A y \in S \ {x} : v[y] = u[y]
  OBVIOUS
<1> HIDE DEF v
<1>3. /\ SumFunction(w) \in Nat /\ SumFunction(v) \in Nat
      /\ SumFunction(w) = w[x] + SumFunction(v)
  BY <1>1, SumTakes
<1>4. SumFunction(u) \in Nat /\ SumFunction(u) = u[x] + SumFunction(v)
  <2>1. v \in [S \ {x} -> Nat]
    BY <1>1
  <2> QED BY <1>2, <2>1, SumTakes
<1>5. w[x] \in Nat /\ u[x] \in Nat
  OBVIOUS
<1> QED BY <1>3, <1>4, <1>5

\* A sum of nothing but zeros.
LEMMA SumZeros ==
    ASSUME NEW S, IsFiniteSet(S), NEW w \in [S -> Nat], \A x \in S : w[x] = 0
    PROVE  SumFunction(w) = 0
<1>1. PICK g : Sums(g, w, S) /\ SumFunction(w) = g[S]
  BY SumUnfolds
<1>2. \A s \in SUBSET S : g[s] \in Nat /\ \A x \in s : g[s] = w[x] + g[s \ {x}]
  BY <1>1, SumsTake
<1> DEFINE Bad == {s \in SUBSET S : g[s] # 0}
<1>3. SUFFICES Bad = {}
  <2>1. S \in SUBSET S
    OBVIOUS
  <2> QED BY <1>1, <1>3, <2>1
<1>4. SUFFICES ASSUME Bad # {} PROVE FALSE
  OBVIOUS
<1>5. \A s \in Bad : IsFiniteSet(s)
  BY FS_Subset
<1>6. PICK s \in Bad : \A t \in Bad : ~(t \subseteq s /\ t # s)
  <2> HIDE DEF Bad
  <2> QED BY <1>4, <1>5, SmallestSet
<1>7. CASE s = {}
  BY <1>1, <1>6, <1>7, SumsStep, FS_EmptySet
<1>8. ASSUME NEW x \in s
      PROVE  FALSE
  <2>1. s \ {x} \in SUBSET S /\ s \ {x} \subseteq s /\ s \ {x} # s
    OBVIOUS
  <2>2. g[s \ {x}] = 0
    BY <1>6, <2>1
  <2>3. g[s] = w[x] + g[s \ {x}] /\ w[x] = 0
    BY <1>2, <1>6, <1>8
  <2> QED BY <1>6, <2>2, <2>3
<1> QED BY <1>7, <1>8
=============================================================================
