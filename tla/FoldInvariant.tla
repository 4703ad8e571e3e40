---------------------------- MODULE FoldInvariant -----------------------------
(***************************************************************************)
(* Induction over a left fold: what holds of the first value and is kept   *)
(* by every step holds of the result.  The parsers of the test executable, *)
(* its reporters and the sections an exception leaves are such folds.      *)
(*                                                                         *)
(* The step and the predicate are constants, to be given by an INSTANCE    *)
(* without parameters; what they depend on is handed to them as p.         *)
(***************************************************************************)
EXTENDS StepwiseFold, NaturalsInduction, WellFoundedInduction, TLAPS

CONSTANTS
    step(_, _, _),  \* a step of the fold: of a parameter, the value so far, an element
    Good(_, _)      \* a predicate on the parameter and the value

\* The fold in question.
Folded(p, base, seq) == Fold(LAMBDA u, e : step(p, u, e), base, seq)

\* The equation of the function inside Fold, up to n.
Folds(p, base, seq, f, n) ==
    f = [k \in 0..n |->
           IF k = 0 THEN base ELSE CHOOSE v \in {step(p, u, seq[k]) : u \in {f[k - 1]}} : TRUE]

\* One step of it.
LEMMA FoldStep ==
    ASSUME NEW p, NEW base, NEW seq, NEW n \in Nat, NEW f, Folds(p, base, seq, f, n)
    PROVE  f[0] = base /\ \A k \in 1..n : f[k] = step(p, f[k - 1], seq[k])
<1> DEFINE value(k) ==
             IF k = 0 THEN base ELSE CHOOSE v \in {step(p, u, seq[k]) : u \in {f[k - 1]}} : TRUE
<1>1. \A k \in 0..n : f[k] = value(k)
  <2>1. f = [k \in 0..n |-> value(k)]
    BY Zenon DEF Folds
  <2> HIDE DEF value
  <2> QED  BY <2>1
<1>2. 0 \in 0..n /\ \A k \in 1..n : k \in 0..n /\ k # 0
  OBVIOUS
<1>3. \A k \in 1..n : value(k) = step(p, f[k - 1], seq[k])
  <2> SUFFICES ASSUME NEW k \in 1..n PROVE value(k) = step(p, f[k - 1], seq[k])
    BY Zenon
  <2>1. {step(p, u, seq[k]) : u \in {f[k - 1]}} = {step(p, f[k - 1], seq[k])}
    BY Zenon
  <2>2. (CHOOSE v \in {step(p, f[k - 1], seq[k])} : TRUE) = step(p, f[k - 1], seq[k])
    BY Zenon
  <2> QED  BY <1>2, <2>1, <2>2, Zenon
<1> HIDE DEF value
<1>n. value(0) = base
  BY Zenon DEF value
<1> QED  BY <1>1, <1>2, <1>3, <1>n, Zenon

\* The function exists, whatever the length.
LEMMA FoldExists ==
    ASSUME NEW p, NEW base, NEW seq, NEW n \in Nat
    PROVE  \E f : Folds(p, base, seq, f, n)
<1> DEFINE missing == {k \in Nat : ~ \E f : Folds(p, base, seq, f, k)}
           less == OpToRel(<, Nat)
<1>1. 0 \notin missing
  <2> DEFINE f == [k \in 0..0 |-> base]
             g == [k \in 0..0 |->
                     IF k = 0 THEN base
                     ELSE CHOOSE v \in {step(p, u, seq[k]) : u \in {f[k - 1]}} : TRUE]
  <2>1. \A k \in 0..0 : k = 0
    OBVIOUS
  <2>2. \A k \in 0..0 : f[k] = base /\ g[k] = base
    BY <2>1, Zenon
  <2>3. f = [k \in DOMAIN f |-> f[k]] /\ DOMAIN f = 0..0
    BY Zenon
  <2>4. g = [k \in DOMAIN g |-> g[k]] /\ DOMAIN g = 0..0
    BY Zenon
  <2>5. f = g
    <3> HIDE DEF f, g
    <3> QED  BY <2>2, <2>3, <2>4
  <2>6. Folds(p, base, seq, f, 0)
    BY <2>5, Zenon DEF Folds
  <2> HIDE DEF f
  <2> QED  BY <2>6, Zenon
<1>2. ASSUME NEW n1 \in Nat \ {0}, n1 - 1 \notin missing
      PROVE  n1 \notin missing
  <2>1. n1 - 1 \in Nat /\ n1 \in Nat
    BY <1>2
  <2>2. PICK f : Folds(p, base, seq, f, n1 - 1)
    BY <1>2, <2>1, Zenon
  <2> DEFINE value(h, k) ==
               IF k = 0 THEN base ELSE CHOOSE v \in {step(p, u, seq[k]) : u \in {h[k - 1]}} : TRUE
             g == [k \in 0..n1 |-> IF k = n1 THEN value(f, n1) ELSE f[k]]
             new == [k \in 0..n1 |-> value(g, k)]
  <2>3. \A k \in 0..(n1 - 1) : f[k] = value(f, k)
    <3>1. f = [k \in 0..(n1 - 1) |-> value(f, k)]
      BY <2>2, Zenon DEF Folds
    <3> HIDE DEF value
    <3> QED  BY <3>1
  <2>4. \A k \in 0..(n1 - 1) : g[k] = f[k]
    <3>1. \A k \in 0..(n1 - 1) : k \in 0..n1 /\ k # n1
      BY <2>1
    <3> HIDE DEF value
    <3> QED  BY <3>1
  <2>5. g[n1] = value(f, n1)
    <3>1. n1 \in 0..n1
      BY <2>1
    <3> HIDE DEF value
    <3> QED  BY <3>1
  <2>6. ASSUME NEW k \in 0..n1
        PROVE  value(g, k) = value(f, k)
    <3>1. CASE k = 0
      BY <3>1, Zenon
    <3>2. CASE k # 0
      <4>1. k - 1 \in 0..(n1 - 1)
        BY <2>1, <3>2
      <4>2. g[k - 1] = f[k - 1]
        BY <2>4, <4>1
      <4> HIDE DEF g
      <4> QED  BY <4>2, Zenon
    <3> QED  BY <3>1, <3>2
  <2>7. \A k \in 0..n1 : g[k] = value(g, k)
    <3> SUFFICES ASSUME NEW k \in 0..n1 PROVE g[k] = value(g, k)
      BY Zenon
    <3>1. k = n1 \/ k \in 0..(n1 - 1)
      BY <2>1
    <3> HIDE DEF g, value
    <3> QED  BY <2>3, <2>4, <2>5, <2>6, <3>1
  <2>8. g = [k \in DOMAIN g |-> g[k]] /\ DOMAIN g = 0..n1
    <3> HIDE DEF value
    <3> QED  OBVIOUS
  <2>9. new = [k \in DOMAIN new |-> new[k]] /\ DOMAIN new = 0..n1
    <3> HIDE DEF value
    <3> QED  OBVIOUS
  <2>10. \A k \in 0..n1 : new[k] = value(g, k)
    <3> HIDE DEF value, g
    <3> QED  OBVIOUS
  <2>11. g = new
    <3> HIDE DEF g, new, value
    <3> QED  BY <2>7, <2>8, <2>9, <2>10
  <2>12. Folds(p, base, seq, g, n1)
    BY <2>11, Zenon DEF Folds
  <2> HIDE DEF g
  <2> QED  BY <2>12, Zenon
<1>3. IsWellFoundedOn(less, Nat)
  BY NatLessThanWellFounded
<1>n. \A x, y \in Nat : <<y, x>> \in less <=> y < x
  BY DEF OpToRel
<1>5. missing \subseteq Nat
  OBVIOUS
<1> HIDE DEF missing, less
<1>6. missing = {}
  <2> SUFFICES ASSUME missing # {} PROVE FALSE
    OBVIOUS
  <2>1. PICK k \in missing : \A y \in missing : ~ (<<y, k>> \in less)
    BY <1>3, <1>5, WFMin
  <2>2. \A y \in missing : ~ (y < k)
    BY <1>n, <1>5, <2>1, Zenon
  <2>3. k \in Nat \ {0} /\ k - 1 < k
    BY <1>1, <1>5
  <2>4. k - 1 \in missing
    BY <1>2, <2>3
  <2> QED  BY <2>2, <2>3, <2>4
<1> QED  BY <1>6, Zenon DEF missing

\* What holds at first and is kept by every step holds of every value.
LEMMA FoldValues ==
    ASSUME NEW p, NEW base, NEW seq, NEW n \in Nat, NEW f, Folds(p, base, seq, f, n),
           Good(p, base), \A u : \A k \in 1..n : Good(p, u) => Good(p, step(p, u, seq[k]))
    PROVE  Good(p, f[n])
<1> DEFINE bad == {k \in 0..n : ~ Good(p, f[k])}
           less == OpToRel(<, Nat)
<1>1. f[0] = base
  BY FoldStep
<1>2. \A k \in 1..n : f[k] = step(p, f[k - 1], seq[k])
  BY FoldStep
<1>3. 0 \notin bad
  BY <1>1, Zenon
<1>4. ASSUME NEW k \in 1..n, k - 1 \notin bad
      PROVE  k \notin bad
  <2>1. k - 1 \in 0..n
    OBVIOUS
  <2>2. Good(p, f[k - 1])
    BY <1>4, <2>1, Zenon
  <2>3. Good(p, step(p, f[k - 1], seq[k]))
    BY <2>2, Zenon
  <2> QED  BY <1>2, <2>3, Zenon
<1>5. IsWellFoundedOn(less, Nat)
  BY NatLessThanWellFounded
<1>6. \A x, y \in Nat : <<y, x>> \in less <=> y < x
  BY DEF OpToRel
<1>7. bad \subseteq 0..n /\ bad \subseteq Nat
  OBVIOUS
<1> HIDE DEF bad, less
<1>8. bad = {}
  <2> SUFFICES ASSUME bad # {} PROVE FALSE
    OBVIOUS
  <2>1. PICK k \in bad : \A y \in bad : ~ (<<y, k>> \in less)
    BY <1>5, <1>7, WFMin
  <2>2. \A y \in bad : ~ (y < k)
    BY <1>6, <1>7, <2>1, Zenon
  <2>3. k \in 1..n /\ k - 1 < k
    BY <1>3, <1>7
  <2>4. k - 1 \in bad
    BY <1>4, <2>3
  <2> QED  BY <2>2, <2>3, <2>4
<1>9. n \in 0..n
  OBVIOUS
<1> QED  BY <1>8, <1>9, Zenon DEF bad

\* The function inside Fold is the one of the equation.
LEMMA FoldedIsValue ==
    ASSUME NEW p, NEW base, NEW seq, NEW n \in Nat, n = Len(seq)
    PROVE  \E f : Folds(p, base, seq, f, n) /\ Folded(p, base, seq) = f[n]
<1> DEFINE f == CHOOSE g : Folds(p, base, seq, g, n)
<1>1. Folds(p, base, seq, f, n)
  BY FoldExists, Zenon
<1>2. Folded(p, base, seq) = f[n]
  BY Zenon DEF Folded, Fold, Folds
<1> HIDE DEF f
<1> QED  BY <1>1, <1>2, Zenon

\* What holds at first and is kept by every step of a fold holds of its result: Clara's
\* loops over tokens and MultipleReporters' loops over reporters preserve what each turn does.
LEMMA FoldKeeps ==
    ASSUME NEW p, NEW base, NEW seq, Len(seq) \in Nat, Good(p, base),
           \A u : \A k \in 1..Len(seq) : Good(p, u) => Good(p, step(p, u, seq[k]))
    PROVE  Good(p, Folded(p, base, seq))
<1> DEFINE n == Len(seq)
<1>1. n \in Nat /\ \A u : \A k \in 1..n : Good(p, u) => Good(p, step(p, u, seq[k]))
  OBVIOUS
<1>2. PICK f : Folds(p, base, seq, f, n) /\ Folded(p, base, seq) = f[n]
  BY <1>1, FoldedIsValue, Zenon
<1> HIDE DEF n
<1>3. Good(p, f[n])
  BY <1>1, <1>2, FoldValues
<1> QED  BY <1>2, <1>3, Zenon
=============================================================================
