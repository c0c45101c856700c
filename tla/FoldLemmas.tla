------------------------------ MODULE FoldLemmas ------------------------------
(***************************************************************************)
(* Lemmas on recursion and folds, which the other proofs cite. A function  *)
(* that is defined by recursion, and the one that FoldLeft chooses, are    *)
(* known to the provers only as a choice: these lemmas say that what is    *)
(* chosen exists, and what a fold is on each beginning of its sequence.    *)
(***************************************************************************)
EXTENDS Integers, Sequences, FiniteSets, SequencesExt, WellFoundedInduction, TLAPS

\* A set of numbers has a smallest one.
LEMMA SmallestOne ==
  ASSUME NEW S \in SUBSET Nat, S # {}
  PROVE  \E m \in S : \A y \in S : m <= y
<1>1. PICK m \in S : \A y \in S : <<y, m>> \notin OpToRel(<, Nat)
  BY WFMin, NatLessThanWellFounded, Zenon
<1>2. \A y \in S : ~(y < m)
  BY <1>1 DEF OpToRel
<1> QED BY <1>2

\* A set of places has a last one.
LEMMA MaxIs ==
  ASSUME NEW n \in Nat, NEW S, S \subseteq 1..n, S # {}
  PROVE  Max(S) \in S /\ \A k \in S : k <= Max(S)
<1> DEFINE T == {n - x : x \in S}
<1>1. T \subseteq Nat /\ T # {}
  <2>1. \A x \in S : x \in 1..n /\ n - x \in Nat
    OBVIOUS
  <2>2. PICK x \in S : TRUE
    OBVIOUS
  <2>3. n - x \in T
    BY <2>2
  <2> QED BY <2>1, <2>3
<1>2. PICK m \in T : \A y \in T : <<y, m>> \notin OpToRel(<, Nat)
  <2> HIDE DEF T
  <2> QED BY <1>1, WFMin, NatLessThanWellFounded, Zenon
<1>3. \A y \in T : ~(y < m)
  BY <1>1, <1>2 DEF OpToRel
<1>4. PICK x \in S : m = n - x
  OBVIOUS
<1>5. \A k \in S : n - k \in T
  OBVIOUS
<1> HIDE DEF T
<1>6. \A k \in S : k \in Nat /\ k <= n
  OBVIOUS
<1>7. \A k \in S : x >= k
  BY <1>3, <1>4, <1>5, <1>6
<1> QED BY <1>6, <1>7 DEF Max
\* step takes each value in S on to the next one in S.
StepsIn(step, n, S) == step \in [1..n -> [S -> S]]
\* g has a value for each number up to n, each made of the one before.
Unrolls(g, step, n, S, base) ==
  g \in [0..n -> S] /\ g[0] = base /\ \A i \in 1..n : g[i] = step[i][g[i - 1]]

\* There is such a g.
LEMMA RecursionExists ==
  ASSUME NEW n \in Nat, NEW S, NEW base \in S, NEW step, StepsIn(step, n, S)
  PROVE  \E g : Unrolls(g, step, n, S, base)
<1> USE DEF StepsIn
<1> DEFINE P(m) == \E g \in [0..m -> S] : g[0] = base /\ \A i \in 1..m : g[i] = step[i][g[i - 1]]
           Bad == {m \in 0..n : ~P(m)}
<1>1. P(0)
  <2>1. [i \in 0..0 |-> base] \in [0..0 -> S] /\ [i \in 0..0 |-> base][0] = base
    OBVIOUS
  <2>2. 1..0 = {}
    OBVIOUS
  <2> QED BY <2>1, <2>2
<1>2. ASSUME NEW m \in 1..n, P(m - 1) PROVE P(m)
  <2>1. PICK g \in [0..(m - 1) -> S] : g[0] = base /\ \A i \in 1..(m - 1) : g[i] = step[i][g[i - 1]]
    BY <1>2
  <2> DEFINE h == [i \in 0..m |-> IF i = m THEN step[m][g[m - 1]] ELSE g[i]]
  <2>2. m - 1 \in 0..(m - 1) /\ step[m][g[m - 1]] \in S
    OBVIOUS
  <2>3. h \in [0..m -> S]
    <3>1. \A i \in 0..m : i # m => i \in 0..(m - 1)
      OBVIOUS
    <3> QED BY <2>2, <3>1
  <2>4. h[0] = base
    BY <2>1
  <2>5. ASSUME NEW i \in 1..m PROVE h[i] = step[i][h[i - 1]]
    <3>1. h[i - 1] = g[i - 1]
      OBVIOUS
    <3>2. CASE i = m
      <4>1. h[m] = step[m][g[m - 1]] /\ h[m - 1] = g[m - 1]
        BY <2>2, <3>1, <3>2
      <4> HIDE DEF h
      <4> QED BY <3>2, <4>1
    <3>3. CASE i # m
      <4>1. i \in 1..(m - 1) /\ h[i] = g[i]
        BY <3>3
      <4> QED BY <2>1, <3>1, <4>1
    <3> QED BY <3>2, <3>3
  <2> HIDE DEF h
  <2> QED BY <2>3, <2>4, <2>5
<1>3. Bad = {}
  <2> SUFFICES ASSUME Bad # {} PROVE FALSE
    OBVIOUS
  <2> HIDE DEF P
  <2>1. Bad \in SUBSET Nat
    OBVIOUS
  <2>2. PICK m \in Bad : \A y \in Bad : m <= y
    BY <2>1, SmallestOne
  <2>3. m \in 1..n /\ m - 1 \in 0..n /\ m - 1 \notin Bad
    BY <1>1, <2>2
  <2> QED BY <1>2, <2>3
<1> HIDE DEF P
<1>4. P(n)
  BY <1>3
<1> QED BY <1>4 DEF P, Unrolls

\* The fold of a sequence from the left is a function on the sets of its places:
\* the one that FoldLeft chooses, for an operator that is step on A and B.
Folds(it, step, n, A, base, seq) ==
  /\ it \in [SUBSET (1..n) -> A]
  /\ \A s \in SUBSET (1..n) : it[s] = IF s = {} THEN base ELSE step[it[s \ {Max(s)}]][seq[Max(s)]]
LEMMA FoldExists ==
  ASSUME NEW n \in Nat, NEW A, NEW B, NEW base \in A, NEW seq \in [1..n -> B],
         NEW step \in [A -> [B -> A]]
  PROVE  \E it : Folds(it, step, n, A, base, seq)
<1> DEFINE F == [SUBSET (1..n) -> A]
           first == [s \in SUBSET (1..n) |-> base]
           made(k, f) == [s \in SUBSET (1..n) |-> IF k \in s THEN step[f[s \ {k}]][seq[k]] ELSE f[s]]
           next == [k \in 1..n |-> [f \in F |-> made(k, f)]]
<1>1. first \in F
  OBVIOUS
<1>2. next \in [1..n -> [F -> F]]
  <2>1. ASSUME NEW k \in 1..n, NEW f \in F
        PROVE  made(k, f) \in F
    OBVIOUS
  <2> HIDE DEF made, F
  <2> QED BY <2>1
<1>3. PICK g \in [0..n -> F] : g[0] = first /\ \A k \in 1..n : g[k] = next[k][g[k - 1]]
  <2>1. StepsIn(next, n, F)
    BY <1>2 DEF StepsIn
  <2> HIDE DEF F, first, next
  <2>2. PICK g : Unrolls(g, next, n, F, first)
    BY <1>1, <2>1, RecursionExists
  <2> QED BY <2>2 DEF Unrolls
<1>4. ASSUME NEW k \in 1..n, NEW s \in SUBSET (1..n)
      PROVE  g[k][s] = IF k \in s THEN step[g[k - 1][s \ {k}]][seq[k]] ELSE g[k - 1][s]
  <2>1. g[k - 1] \in F
    <3> HIDE DEF F
    <3> QED BY k - 1 \in 0..n
  <2>2. g[k] = made(k, g[k - 1])
    <3> HIDE DEF F, made
    <3> QED BY <1>3, <2>1
  <2> QED BY <2>2
<1> HIDE DEF F, first, next, made
<1> DEFINE Low(s, j) == \A k \in s : k <= j
<1>5. ASSUME NEW s \in SUBSET (1..n), NEW j \in 0..n, Low(s, j)
      PROVE  g[n][s] = g[j][s]
  <2> DEFINE Bad == {k \in j..n : g[k][s] # g[j][s]}
  <2>1. Bad = {}
    <3> SUFFICES ASSUME Bad # {} PROVE FALSE
      OBVIOUS
    <3>1. Bad \in SUBSET Nat
      OBVIOUS
    <3>2. PICK k \in Bad : \A y \in Bad : k <= y
      BY <3>1, SmallestOne
    <3>3. k \in 1..n /\ k > j /\ k - 1 \in j..n /\ k - 1 \notin Bad
      BY <3>2
    <3>4. k \notin s
      BY <1>5, <3>3
    <3>5. g[k][s] = g[k - 1][s]
      BY <1>4, <3>3, <3>4
    <3> QED BY <3>2, <3>3, <3>5
  <2>2. n \in j..n
    OBVIOUS
  <2> QED BY <2>1, <2>2, Zenon
<1>6. g[n] \in F
  OBVIOUS
<1>7. ASSUME NEW s \in SUBSET (1..n)
      PROVE  g[n][s] = IF s = {} THEN base ELSE step[g[n][s \ {Max(s)}]][seq[Max(s)]]
  <2>1. CASE s = {}
    <3>1. g[n][s] = g[0][s]
      <4>1. Low(s, 0) /\ 0 \in 0..n
        BY <2>1
      <4> HIDE DEF Low
      <4> QED BY <1>5, <4>1
    <3> QED BY <1>3, <2>1, <3>1 DEF first
  <2>2. CASE s # {}
    <3>1. PICK x \in s : x = Max(s) /\ \A k \in s : k <= x
      BY <2>2, MaxIs
    <3>2. x \in 1..n /\ x - 1 \in 0..n /\ x \in 0..n /\ s \ {x} \in SUBSET (1..n)
      <4>1. x \in 1..n /\ s \ {x} \in SUBSET (1..n)
        OBVIOUS
      <4> QED BY <4>1
    <3>3. g[n][s] = g[x][s]
      BY <1>5, <3>1, <3>2
    <3>4. g[x][s] = step[g[x - 1][s \ {x}]][seq[x]]
      BY <1>4, <3>1, <3>2
    <3>5. g[n][s \ {x}] = g[x - 1][s \ {x}]
      <4>1. \A k \in s \ {x} : k <= x - 1
        BY <3>1
      <4> QED BY <1>5, <3>2, <4>1
    <3> QED BY <2>2, <3>1, <3>3, <3>4, <3>5
  <2> QED BY <2>1, <2>2
<1> QED BY <1>6, <1>7 DEF F, Folds

\* The same function on the beginnings of the sequence.
LEMMA FoldSteps ==
  ASSUME NEW n \in Nat, NEW k \in 1..n
  PROVE  /\ 1..k \in SUBSET (1..n) /\ 1..k # {} /\ Max(1..k) = k
         /\ (1..k) \ {Max(1..k)} = 1..(k - 1)
<1>1. 1..k \subseteq 1..n /\ 1..k # {} /\ k \in 1..k
  OBVIOUS
<1>2. Max(1..k) \in 1..k /\ k <= Max(1..k)
  BY <1>1, MaxIs
<1>3. Max(1..k) = k
  BY <1>2
<1> QED BY <1>1, <1>3

\* What each step of a fold keeps in A is in A at the end.
BegunIn(f, n, A) == f[1..0] \in A /\ \A k \in 1..n : f[1..(k - 1)] \in A => f[1..k] \in A
LEMMA FoldStays ==
  ASSUME NEW n \in Nat, NEW A, NEW f, BegunIn(f, n, A)
  PROVE  f[1..n] \in A
<1> DEFINE Bad == {k \in 0..n : f[1..k] \notin A}
<1>1. Bad = {}
  <2> SUFFICES ASSUME Bad # {} PROVE FALSE
    OBVIOUS
  <2>1. Bad \in SUBSET Nat
    OBVIOUS
  <2>2. PICK k \in Bad : \A y \in Bad : k <= y
    BY <2>1, SmallestOne
  <2>3. k \in 1..n /\ k - 1 \in 0..n /\ k - 1 \notin Bad
    BY <2>2 DEF BegunIn
  <2> QED BY <2>2, <2>3 DEF BegunIn
<1> QED BY <1>1

\* What holds at the beginning and is handed on by each step of a fold, in a form
\* that may differ from step to step, holds at the end.
Reaches(f, n, A) == f[1..0] \in A[0] /\ \A k \in 1..n : f[1..(k - 1)] \in A[k - 1] => f[1..k] \in A[k]
LEMMA FoldReaches ==
  ASSUME NEW n \in Nat, NEW A, NEW f, Reaches(f, n, A)
  PROVE  f[1..n] \in A[n]
<1> DEFINE Bad == {k \in 0..n : f[1..k] \notin A[k]}
<1>1. Bad = {}
  <2> SUFFICES ASSUME Bad # {} PROVE FALSE
    OBVIOUS
  <2>1. Bad \in SUBSET Nat
    OBVIOUS
  <2>2. PICK k \in Bad : \A y \in Bad : k <= y
    BY <2>1, SmallestOne
  <2>3. k \in 1..n /\ k - 1 \in 0..n /\ k - 1 \notin Bad
    BY <2>2 DEF Reaches
  <2> QED BY <2>2, <2>3 DEF Reaches
<1> QED BY <1>1
=============================================================================
