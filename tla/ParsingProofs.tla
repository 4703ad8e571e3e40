---------------------------- MODULE ParsingProofs ---------------------------
(***************************************************************************)
(* What the parser of utils.cpp makes of a line that arrives whole, for    *)
(* every client key, every number and every width of int and size_t.       *)
(***************************************************************************)
EXTENDS SysInfoUtils, FiniteSetTheorems, SequenceTheorems, NaturalsInduction,
        WellFoundedInduction, TLAPS

\* A larger member of a finite set of numbers has more members below it.
LEMMA RankGrows ==
    ASSUME NEW S \in SUBSET Int, IsFiniteSet(S), NEW m \in S, NEW n \in S, m < n
    PROVE  /\ Cardinality({j \in S : j < m}) \in Nat
           /\ Cardinality({j \in S : j < n}) \in Nat
           /\ Cardinality({j \in S : j < m}) + 1 <= Cardinality({j \in S : j < n})
<1> DEFINE Below(i) == {j \in S : j < i}
<1>1. IsFiniteSet(Below(m)) /\ IsFiniteSet(Below(n))
  BY FS_Subset
<1>2. Cardinality(Below(m)) \in Nat /\ Cardinality(Below(n)) \in Nat
  BY <1>1, FS_CardinalityType
<1>3. m \notin Below(m) /\ Below(m) \cup {m} \subseteq Below(n)
  <2>1. \A j \in S : j < m => j < n
    OBVIOUS
  <2>2. Below(m) \subseteq Below(n)
    BY <2>1
  <2>3. m \in Below(n) /\ m \notin Below(m)
    OBVIOUS
  <2> HIDE DEF Below
  <2> QED  BY <2>2, <2>3
<1> HIDE DEF Below
<1>4. Cardinality(Below(m) \cup {m}) = Cardinality(Below(m)) + 1
  BY <1>1, <1>3, FS_AddElement
<1>5. Cardinality(Below(m) \cup {m}) <= Cardinality(Below(n))
  BY <1>1, <1>3, FS_Subset
<1> QED  BY <1>2, <1>4, <1>5 DEF Below

\* Two members of a finite set of numbers never have equally many below them, so
\* Nth finds the member that has k.
LEMMA NthIsUnique ==
    ASSUME NEW S \in SUBSET Int, IsFiniteSet(S), NEW i \in S, NEW k,
           Cardinality({j \in S : j < i}) = k
    PROVE  Nth(S, k) = i
<1> DEFINE Below(n) == {j \in S : j < n}
<1>1. ASSUME NEW m \in S, NEW n \in S, m < n
      PROVE  Cardinality(Below(m)) # Cardinality(Below(n))
  <2>1. /\ Cardinality(Below(m)) \in Nat /\ Cardinality(Below(n)) \in Nat
        /\ Cardinality(Below(m)) + 1 <= Cardinality(Below(n))
    BY <1>1, RankGrows
  <2> HIDE DEF Below
  <2> QED  BY <2>1
<1>2. \A n \in S : Cardinality(Below(n)) = k => n = i
  <2> SUFFICES ASSUME NEW n \in S, Cardinality(Below(n)) = k, n # i PROVE FALSE
    OBVIOUS
  <2>1. n < i \/ i < n
    OBVIOUS
  <2>2. Cardinality(Below(i)) = k
    OBVIOUS
  <2> HIDE DEF Below
  <2> QED  BY <1>1, <2>1, <2>2
<1> QED  BY <1>2 DEF Nth

\* Every number from 0 to one less than the size is the number of members below
\* some member: the members have different ones, and there are as many of them.
LEMMA NthIsFound ==
    ASSUME NEW S \in SUBSET Int, IsFiniteSet(S), NEW k \in 0..(Cardinality(S) - 1)
    PROVE  Nth(S, k) \in S /\ Cardinality({j \in S : j < Nth(S, k)}) = k
<1> DEFINE Below(i) == {j \in S : j < i}
           N == Cardinality(S)
           rank == [i \in S |-> Cardinality(Below(i))]
<1>1. N \in Nat
  BY FS_CardinalityType
<1>2. ASSUME NEW i \in S
      PROVE  Cardinality(Below(i)) \in 0..(N - 1)
  <2>1. Below(i) \in SUBSET S /\ Below(i) # S
    BY <1>2
  <2> HIDE DEF Below
  <2>2. IsFiniteSet(Below(i)) /\ Cardinality(Below(i)) <= N /\ N # Cardinality(Below(i))
    BY <2>1, FS_Subset
  <2>3. Cardinality(Below(i)) \in Nat
    BY <2>2, FS_CardinalityType
  <2> HIDE DEF N
  <2> QED  BY <1>1, <2>2, <2>3
<1>3. \A i, j \in S : Cardinality(Below(i)) = Cardinality(Below(j)) => i = j
  <2> SUFFICES ASSUME NEW i \in S, NEW j \in S, Cardinality(Below(i)) = Cardinality(Below(j))
               PROVE  i = j
    BY Zenon
  <2>1. Nth(S, Cardinality(Below(i))) = i
    BY NthIsUnique
  <2>2. Nth(S, Cardinality(Below(i))) = j
    BY NthIsUnique
  <2> QED  BY <2>1, <2>2, Zenon
<1>4. rank \in Injection(S, 0..(N - 1))
  <2> HIDE DEF Below, N
  <2> QED  BY <1>2, <1>3 DEF Injection, IsInjective
<1>5. IsFiniteSet(0..(N - 1)) /\ Cardinality(0..(N - 1)) = N
  <2> HIDE DEF N
  <2> QED  BY <1>1, FS_Interval
<1>6. rank \in Surjection(S, 0..(N - 1))
  <2> HIDE DEF rank
  <2> QED  BY <1>4, <1>5, FS_Injection
<1>7. PICK i \in S : rank[i] = k
  <2> HIDE DEF rank
  <2> QED  BY <1>6 DEF Surjection
<1>8. Cardinality(Below(i)) = k
  <2> HIDE DEF Below
  <2> QED  BY <1>7
<1>9. Nth(S, k) = i
  BY <1>8, NthIsUnique
<1> QED  BY <1>8, <1>9

\* Nth counts upwards and leaves no member out.
LEMMA NthInOrder ==
    ASSUME NEW S \in SUBSET Int, IsFiniteSet(S), NEW k \in 1..(Cardinality(S) - 1)
    PROVE  /\ Nth(S, k - 1) \in S /\ Nth(S, k) \in S
           /\ Nth(S, k - 1) < Nth(S, k)
           /\ \A i \in S : i <= Nth(S, k - 1) \/ Nth(S, k) <= i
<1> DEFINE Rank(i) == Cardinality({j \in S : j < i})
           a == Nth(S, k - 1)
           b == Nth(S, k)
<1>1. k \in Int /\ k \in 0..(Cardinality(S) - 1) /\ k - 1 \in 0..(Cardinality(S) - 1)
  BY FS_CardinalityType
<1>2. a \in S /\ b \in S /\ Rank(a) = k - 1 /\ Rank(b) = k
  BY <1>1, NthIsFound
<1>3. \A i, j \in S : i < j => Rank(i) \in Nat /\ Rank(j) \in Nat /\ Rank(i) + 1 <= Rank(j)
  BY RankGrows
<1> HIDE DEF Rank, a, b
<1>4. a < b
  <2> SUFFICES ASSUME ~ (a < b) PROVE FALSE
    OBVIOUS
  <2>1. a = b \/ b < a
    BY <1>2
  <2>2. a # b
    BY <1>1, <1>2
  <2>3. Rank(b) + 1 <= Rank(a)
    BY <1>2, <1>3, <2>1, <2>2
  <2> QED  BY <1>1, <1>2, <2>3
<1>5. ASSUME NEW i \in S, ~ (i <= a \/ b <= i)
      PROVE  FALSE
  <2>1. a < i /\ i < b
    BY <1>2, <1>5
  <2>2. Rank(a) + 1 <= Rank(i) /\ Rank(i) + 1 <= Rank(b) /\ Rank(i) \in Nat
    BY <1>2, <1>3, <2>1
  <2> QED  BY <1>1, <1>2, <2>2
<1> QED  BY <1>2, <1>4, <1>5 DEF a, b

\* The tokens of a line are distinct from the delimiter unless they are it.
LEMMA TokensDiffer ==
    ASSUME NEW x
    PROVE  /\ Number(x) # Bar /\ Word(x) # Bar /\ Newline # Bar
           /\ Number(x) # Newline /\ Word(x) # Newline
BY DEF Number, Word, Bar, Newline

\* The line of a report: the key, then the nine tokens that follow it.
LEMMA LineTokens ==
    ASSUME NEW T, NEW key \in Seq(T), NEW m, NEW c, NEW p, NEW t,
           NEW line, line = generate_random_sys_info_data(key, m, c, p, t)
    PROVE  /\ Len(key) \in Nat /\ Len(line) = Len(key) + 9
           /\ \E U : line \in Seq(U) /\ key \in Seq(U)
           /\ \A i \in 1..Len(key) : line[i] = key[i]
           /\ line[Len(key) + 1] = Bar /\ line[Len(key) + 2] = Number(m)
           /\ line[Len(key) + 3] = Bar /\ line[Len(key) + 4] = Number(c)
           /\ line[Len(key) + 5] = Bar /\ line[Len(key) + 6] = Number(p)
           /\ line[Len(key) + 7] = Bar /\ line[Len(key) + 8] = Word(t)
           /\ line[Len(key) + 9] = Newline
<1> DEFINE rest == << Bar, Number(m), Bar, Number(c), Bar, Number(p), Bar,
                     Word(t), Newline >>
           U == T \cup {Bar, Number(m), Number(c), Number(p), Word(t), Newline}
<1>1. rest \in Seq(U) /\ Len(rest) = 9
  OBVIOUS
<1>2. /\ rest[1] = Bar /\ rest[2] = Number(m) /\ rest[3] = Bar /\ rest[4] = Number(c)
      /\ rest[5] = Bar /\ rest[6] = Number(p) /\ rest[7] = Bar /\ rest[8] = Word(t)
      /\ rest[9] = Newline
  OBVIOUS
<1>3. line = key \o rest
  BY DEF generate_random_sys_info_data
<1>4. key \in Seq(U) /\ Len(key) \in Nat
  BY SeqMonotonic, LenProperties
<1> HIDE DEF rest, U
<1>5. /\ line \in Seq(U) /\ Len(line) = Len(key) + Len(rest)
      /\ \A i \in 1..(Len(key) + Len(rest)) :
            line[i] = IF i <= Len(key) THEN key[i] ELSE rest[i - Len(key)]
  <2>1. key \in Seq(U) /\ rest \in Seq(U)
    BY <1>1, <1>4
  <2>2. /\ (key \o rest) \in Seq(U) /\ Len(key \o rest) = Len(key) + Len(rest)
        /\ \A i \in 1..(Len(key) + Len(rest)) :
            (key \o rest)[i] = IF i <= Len(key) THEN key[i] ELSE rest[i - Len(key)]
    BY <2>1, ConcatProperties
  <2> QED  BY <1>3, <2>2
<1>6. \A i \in 1..Len(key) : line[i] = key[i]
  BY <1>1, <1>4, <1>5
<1>7. \A j \in 1..9 : line[Len(key) + j] = rest[j]
  <2> SUFFICES ASSUME NEW j \in 1..9 PROVE line[Len(key) + j] = rest[j]
    OBVIOUS
  <2>1. /\ Len(key) + j \in 1..(Len(key) + Len(rest))
        /\ ~ (Len(key) + j <= Len(key)) /\ (Len(key) + j) - Len(key) = j
    BY <1>1, <1>4
  <2> QED  BY <1>5, <2>1
<1> QED  BY <1>1, <1>2, <1>4, <1>5, <1>6, <1>7

\* Where split cuts a text.
Ends(line) == {i \in DOMAIN line : line[i] = Bar} \cup {0, Len(line) + 1}

\* A text is cut at finitely many places.
LEMMA EndsAreFinite ==
    ASSUME NEW U, NEW line \in Seq(U)
    PROVE  /\ IsFiniteSet(Ends(line)) /\ Cardinality(Ends(line)) \in Nat
           /\ Ends(line) \in SUBSET Nat
<1>1. Len(line) \in Nat /\ DOMAIN line = 1..Len(line)
  BY LenProperties
<1>2. Ends(line) \subseteq 0..(Len(line) + 1)
  BY <1>1 DEF Ends
<1>3. IsFiniteSet(0..(Len(line) + 1))
  BY <1>1, FS_Interval
<1>4. IsFiniteSet(Ends(line))
  BY <1>2, <1>3, FS_Subset
<1> QED  BY <1>1, <1>2, <1>4, FS_CardinalityType

\* The first cut is before the text and the last one behind it; between two cuts
\* that follow each other there is no delimiter, and at every other cut there is
\* one.
LEMMA CutsOfText ==
    ASSUME NEW U, NEW line \in Seq(U), NEW cuts, cuts = Ends(line)
    PROVE  /\ Cardinality(cuts) \in Nat /\ Cardinality(cuts) >= 2
           /\ Nth(cuts, 0) = 0 /\ Nth(cuts, Cardinality(cuts) - 1) = Len(line) + 1
           /\ \A k \in 1..(Cardinality(cuts) - 1) :
                 /\ Nth(cuts, k - 1) \in 0..Len(line)
                 /\ Nth(cuts, k) \in (Nth(cuts, k - 1) + 1)..(Len(line) + 1)
                 /\ \A i \in (Nth(cuts, k - 1) + 1)..(Nth(cuts, k) - 1) : line[i] # Bar
                 /\ Nth(cuts, k - 1) # 0 => line[Nth(cuts, k - 1)] = Bar
<1> DEFINE l == Len(line)
           N == Cardinality(cuts)
           Below(i) == {j \in cuts : j < i}
<1>1. l \in Nat /\ DOMAIN line = 1..l
  BY LenProperties
<1>2. IsFiniteSet(cuts) /\ N \in Nat /\ cuts \in SUBSET Nat /\ cuts \in SUBSET Int
  BY EndsAreFinite
<1>3. /\ 0 \in cuts /\ l + 1 \in cuts
      /\ \A i \in 1..l : i \in cuts <=> line[i] = Bar
      /\ \A i \in cuts : i \in 0..(l + 1)
  BY <1>1 DEF Ends
<1> HIDE DEF l
<1>4. Below(0) = {}
  BY <1>2
<1>5. Cardinality(Below(0)) = 0
  BY <1>4, FS_EmptySet
<1>6. Nth(cuts, 0) = 0
  BY <1>2, <1>3, <1>5, NthIsUnique
<1>7. Below(l + 1) = cuts \ {l + 1}
  BY <1>1, <1>3
<1>8. Cardinality(Below(l + 1)) = N - 1
  <2>0. IsFiniteSet(cuts) /\ l + 1 \in cuts
    BY <1>2, <1>3, Zenon
  <2>1. Cardinality(cuts \ {l + 1}) = N - 1
    BY <2>0, FS_RemoveElement, Zenon
  <2> QED  BY <1>7, <2>1, Zenon
<1>9. Nth(cuts, N - 1) = l + 1
  BY <1>2, <1>3, <1>8, NthIsUnique
<1>10. 0 < l + 1
  BY <1>1
<1>11. Cardinality(Below(0)) + 1 <= Cardinality(Below(l + 1))
  BY <1>2, <1>3, <1>10, RankGrows
<1> HIDE DEF N, Below
<1>12. N >= 2
  BY <1>2, <1>5, <1>8, <1>11
<1>13. ASSUME NEW k \in 1..(N - 1)
       PROVE  /\ Nth(cuts, k - 1) \in 0..l
              /\ Nth(cuts, k) \in (Nth(cuts, k - 1) + 1)..(l + 1)
              /\ \A i \in (Nth(cuts, k - 1) + 1)..(Nth(cuts, k) - 1) : line[i] # Bar
              /\ Nth(cuts, k - 1) # 0 => line[Nth(cuts, k - 1)] = Bar
  <2> DEFINE a == Nth(cuts, k - 1)
             b == Nth(cuts, k)
  <2>1. a \in cuts /\ b \in cuts /\ a < b /\ \A i \in cuts : i <= a \/ b <= i
    BY <1>2, NthInOrder DEF N
  <2> HIDE DEF a, b
  <2>2. a \in 0..l /\ b \in (a + 1)..(l + 1)
    BY <1>1, <1>3, <2>1
  <2>3. \A i \in (a + 1)..(b - 1) : line[i] # Bar
    BY <1>1, <1>3, <2>1, <2>2
  <2>4. a # 0 => line[a] = Bar
    BY <1>1, <1>3, <2>1, <2>2
  <2> QED  BY <2>2, <2>3, <2>4 DEF a, b
<1> QED  BY <1>2, <1>6, <1>9, <1>12, <1>13 DEF N, l

\* The six cuts of a line with a key of l tokens: they are a set of six, and each
\* has as many below it as come before it.
LEMMA CutsInOrder ==
    ASSUME NEW l \in Nat, NEW S, S = {0, l + 1, l + 3, l + 5, l + 7, l + 10}
    PROVE  /\ IsFiniteSet(S) /\ Cardinality(S) = 6
           /\ Nth(S, 0) = 0 /\ Nth(S, 1) = l + 1 /\ Nth(S, 2) = l + 3
           /\ Nth(S, 3) = l + 5 /\ Nth(S, 4) = l + 7 /\ Nth(S, 5) = l + 10
<1> DEFINE a == 0        b == l + 1   c == l + 3
           d == l + 5    e == l + 7   f == l + 10
<1>order. /\ a \in Int /\ b \in Int /\ c \in Int /\ d \in Int /\ e \in Int /\ f \in Int
          /\ a < b /\ b < c /\ c < d /\ d < e /\ e < f /\ S = {a, b, c, d, e, f}
  OBVIOUS
<1> HIDE DEF a, b, c, d, e, f
<1> USE <1>order
<1>0. IsFiniteSet({}) /\ Cardinality({}) = 0
  BY FS_EmptySet
<1>1. IsFiniteSet({a}) /\ Cardinality({a}) = 1
  BY FS_Singleton
<1>2. IsFiniteSet({a, b}) /\ Cardinality({a, b}) = 2
  <2>1. {a, b} = {a} \cup {b} /\ b \notin {a}
    OBVIOUS
  <2> QED  BY <1>1, <2>1, FS_AddElement
<1>3. IsFiniteSet({a, b, c}) /\ Cardinality({a, b, c}) = 3
  <2>1. {a, b, c} = {a, b} \cup {c} /\ c \notin {a, b}
    OBVIOUS
  <2> QED  BY <1>2, <2>1, FS_AddElement
<1>4. IsFiniteSet({a, b, c, d}) /\ Cardinality({a, b, c, d}) = 4
  <2>1. {a, b, c, d} = {a, b, c} \cup {d} /\ d \notin {a, b, c}
    OBVIOUS
  <2> QED  BY <1>3, <2>1, FS_AddElement
<1>5. IsFiniteSet({a, b, c, d, e}) /\ Cardinality({a, b, c, d, e}) = 5
  <2>1. {a, b, c, d, e} = {a, b, c, d} \cup {e} /\ e \notin {a, b, c, d}
    OBVIOUS
  <2> QED  BY <1>4, <2>1, FS_AddElement
<1>6. IsFiniteSet(S) /\ Cardinality(S) = 6
  <2>1. S = {a, b, c, d, e} \cup {f}
    BY Zenon
  <2>2. a # f /\ b # f /\ c # f /\ d # f /\ e # f
    OBVIOUS
  <2>3. f \notin {a, b, c, d, e}
    BY <2>2, Zenon
  <2> QED  BY <1>5, <2>1, <2>3, FS_AddElement
<1>7. /\ {j \in S : j < a} = {} /\ {j \in S : j < b} = {a}
      /\ {j \in S : j < c} = {a, b} /\ {j \in S : j < d} = {a, b, c}
  OBVIOUS
<1>8. {j \in S : j < e} = {a, b, c, d} /\ {j \in S : j < f} = {a, b, c, d, e}
  <2>1. {j \in S : j < e} = {a, b, c, d}
    OBVIOUS
  <2>2. {j \in S : j < f} = {a, b, c, d, e}
    <3> DEFINE five == {a, b, c, d, e}
    <3>1. (\A j \in S : j < f <=> j \in five) /\ five \subseteq S
      OBVIOUS
    <3> HIDE DEF five
    <3>2. {j \in S : j < f} = five
      BY <3>1
    <3> QED  BY <3>2 DEF five
  <2> QED  BY <2>1, <2>2
<1>9. S \in SUBSET Int /\ a \in S /\ b \in S /\ c \in S /\ d \in S /\ e \in S /\ f \in S
  OBVIOUS
<1>10. /\ Nth(S, 0) = a /\ Nth(S, 1) = b /\ Nth(S, 2) = c
       /\ Nth(S, 3) = d /\ Nth(S, 4) = e /\ Nth(S, 5) = f
  BY <1>0, <1>1, <1>2, <1>3, <1>4, <1>5, <1>6, <1>7, <1>8, <1>9, NthIsUnique
<1> QED  BY <1>6, <1>10 DEF a, b, c, d, e, f

\* A line whose key holds no delimiter is cut around its key, its three numbers
\* and its time.
LEMMA EndsOfLine ==
    ASSUME NEW T, NEW key \in Seq(T), ~ Contains(key, Bar),
           NEW m, NEW c, NEW p, NEW t,
           NEW line, line = generate_random_sys_info_data(key, m, c, p, t)
    PROVE  Ends(line) = {0, Len(key) + 1, Len(key) + 3, Len(key) + 5, Len(key) + 7,
                         Len(key) + 10}
<1> DEFINE l == Len(key)
<1>1. l \in Nat /\ Len(line) = l + 9 /\ DOMAIN line = 1..(l + 9)
  BY LineTokens, LenProperties
<1>2. \A i \in 1..l : line[i] # Bar
  BY LineTokens DEF Contains
<1>3. /\ line[l + 1] = Bar /\ line[l + 2] # Bar /\ line[l + 3] = Bar /\ line[l + 4] # Bar
      /\ line[l + 5] = Bar /\ line[l + 6] # Bar /\ line[l + 7] = Bar /\ line[l + 8] # Bar
      /\ line[l + 9] # Bar
  BY LineTokens, TokensDiffer
<1>4. \A i \in 1..(l + 9) : i \in 1..l \/ i = l + 1 \/ i = l + 2 \/ i = l + 3 \/ i = l + 4
            \/ i = l + 5 \/ i = l + 6 \/ i = l + 7 \/ i = l + 8 \/ i = l + 9
  BY <1>1
<1>5. {i \in 1..(l + 9) : line[i] = Bar} = {l + 1, l + 3, l + 5, l + 7}
  <2>1. \A i \in 1..(l + 9) :
           line[i] = Bar <=> i = l + 1 \/ i = l + 3 \/ i = l + 5 \/ i = l + 7
    BY <1>1, <1>2, <1>3, <1>4
  <2>2. {l + 1, l + 3, l + 5, l + 7} \subseteq 1..(l + 9)
    BY <1>1
  <2> QED  BY <2>1, <2>2
<1>6. Len(line) + 1 = l + 10
  BY <1>1
<1> HIDE DEF l
<1>7. Ends(line) = {0, l + 1, l + 3, l + 5, l + 7, l + 10}
  BY <1>1, <1>5, <1>6 DEF Ends
<1> QED  BY <1>7 DEF l

-----------------------------------------------------------------------------
(* The fields of a line.                                                   *)

\* A piece of one token.
LEMMA OneToken ==
    ASSUME NEW U, NEW s \in Seq(U), NEW i \in 1..Len(s)
    PROVE  SubSeq(s, i, i) = <<s[i]>>
<1>1. Len(s) \in Nat /\ i \in Int /\ i + 1 \in Int /\ i < i + 1 /\ i \in i..Len(s)
  BY LenProperties
<1>2. SubSeq(s, i, i) = <<s[i]>> \o SubSeq(s, i + 1, i)
  BY <1>1, SubSeqRecursiveFirst
<1>3. SubSeq(s, i + 1, i) = << >>
  BY <1>1, SubSeqEmpty
<1>4. <<s[i]>> \in Seq(U)
  BY ElementOfSeq
<1>5. <<s[i]>> \o << >> = <<s[i]>>
  BY <1>4, ConcatEmptySeq
<1> QED  BY <1>2, <1>3, <1>5

\* A piece of two tokens.
LEMMA TwoTokens ==
    ASSUME NEW U, NEW s \in Seq(U), NEW i \in 1..(Len(s) - 1)
    PROVE  SubSeq(s, i, i + 1) = <<s[i], s[i + 1]>>
<1> DEFINE piece == SubSeq(s, i, i + 1)
           pair  == <<s[i], s[i + 1]>>
<1>1. Len(s) \in Nat /\ i \in Int /\ i + 1 \in Int /\ \A j \in i..(i + 1) : j \in 1..Len(s)
  BY LenProperties
<1>2. \A j \in i..(i + 1) : s[j] \in U
  BY <1>1, ElementOfSeq
<1>3. piece \in Seq(U) /\ Len(piece) = 2 /\ piece[1] = s[i] /\ piece[2] = s[i + 1]
  BY <1>1, <1>2, SubSeqProperties
<1>4. pair \in Seq(U) /\ Len(pair) = 2 /\ pair[1] = s[i] /\ pair[2] = s[i + 1]
  BY <1>1, <1>2
<1> HIDE DEF piece, pair
<1>5. \A j \in 1..Len(piece) : piece[j] = pair[j]
  BY <1>3, <1>4
<1>6. piece = pair
  BY <1>3, <1>4, <1>5, SeqEqual
<1> QED  BY <1>6 DEF piece, pair

\* split gives the key, the numbers and the time with its newline.
LEMMA SplitOfLine ==
    ASSUME NEW T, NEW key \in Seq(T), ~ Contains(key, Bar),
           NEW m, NEW c, NEW p, NEW t,
           NEW line, line = generate_random_sys_info_data(key, m, c, p, t)
    PROVE  /\ Len(split(line)) = 5
           /\ split(line)[1] = key
           /\ split(line)[2] = <<Number(m)>> /\ split(line)[3] = <<Number(c)>>
           /\ split(line)[4] = <<Number(p)>> /\ split(line)[5] = <<Word(t), Newline>>
<1> DEFINE l    == Len(key)
           ends == Ends(line)
<1>1. l \in Nat /\ Len(line) = l + 9
  BY LineTokens
<1>2. ends = {0, l + 1, l + 3, l + 5, l + 7, l + 10}
  BY EndsOfLine
<1>3. /\ Cardinality(ends) = 6
      /\ Nth(ends, 0) = 0 /\ Nth(ends, 1) = l + 1 /\ Nth(ends, 2) = l + 3
      /\ Nth(ends, 3) = l + 5 /\ Nth(ends, 4) = l + 7 /\ Nth(ends, 5) = l + 10
  <2> HIDE DEF l, ends
  <2> QED  BY <1>1, <1>2, CutsInOrder
<1>4. split(line) = [k \in 1..5 |-> SubSeq(line, Nth(ends, k - 1) + 1, Nth(ends, k) - 1)]
  <2>1. split(line) = [k \in 1..(Cardinality(ends) - 1) |->
                          SubSeq(line, Nth(ends, k - 1) + 1, Nth(ends, k) - 1)]
    BY DEF split, Ends
  <2>2. 1..(Cardinality(ends) - 1) = 1..5
    BY <1>3
  <2> HIDE DEF ends
  <2> QED  BY <2>1, <2>2
<1>5. /\ split(line)[1] = SubSeq(line, 1, l)
      /\ split(line)[2] = SubSeq(line, l + 2, l + 2)
      /\ split(line)[3] = SubSeq(line, l + 4, l + 4)
      /\ split(line)[4] = SubSeq(line, l + 6, l + 6)
      /\ split(line)[5] = SubSeq(line, l + 8, l + 9)
  <2> HIDE DEF l, ends
  <2>1. /\ split(line)[1] = SubSeq(line, Nth(ends, 0) + 1, Nth(ends, 1) - 1)
        /\ split(line)[2] = SubSeq(line, Nth(ends, 1) + 1, Nth(ends, 2) - 1)
        /\ split(line)[3] = SubSeq(line, Nth(ends, 2) + 1, Nth(ends, 3) - 1)
        /\ split(line)[4] = SubSeq(line, Nth(ends, 3) + 1, Nth(ends, 4) - 1)
        /\ split(line)[5] = SubSeq(line, Nth(ends, 4) + 1, Nth(ends, 5) - 1)
    <3>1. \A k \in 1..5 :
             split(line)[k] = SubSeq(line, Nth(ends, k - 1) + 1, Nth(ends, k) - 1)
      BY <1>4
    <3>2. 1 - 1 = 0 /\ 2 - 1 = 1 /\ 3 - 1 = 2 /\ 4 - 1 = 3 /\ 5 - 1 = 4
      OBVIOUS
    <3>3. 1 \in 1..5 /\ 2 \in 1..5 /\ 3 \in 1..5 /\ 4 \in 1..5 /\ 5 \in 1..5
      OBVIOUS
    <3> QED  BY <3>1, <3>2, <3>3, Zenon
  <2>2. /\ (l + 1) - 1 = l /\ (l + 1) + 1 = l + 2 /\ (l + 3) - 1 = l + 2
        /\ (l + 3) + 1 = l + 4 /\ (l + 5) - 1 = l + 4 /\ (l + 5) + 1 = l + 6
        /\ (l + 7) - 1 = l + 6 /\ (l + 7) + 1 = l + 8 /\ (l + 10) - 1 = l + 9 /\ 0 + 1 = 1
    BY <1>1
  <2> QED  BY <1>3, <2>1, <2>2
<1>6. PICK U : line \in Seq(U) /\ key \in Seq(U)
  BY LineTokens
<1>7. SubSeq(line, 1, l) = key
  <2>1. \A i \in 1..l : line[i] \in U /\ line[i] = key[i]
    BY <1>6, ElementOfSeq, LineTokens
  <2>2. /\ SubSeq(line, 1, l) \in Seq(U) /\ Len(SubSeq(line, 1, l)) = l
        /\ \A i \in 1..l : SubSeq(line, 1, l)[i] = line[i]
    <3> HIDE DEF l
    <3> QED  BY <1>1, <2>1, SubSeqProperties
  <2> QED  BY <1>6, <2>1, <2>2, SeqEqual
<1>8. \A i \in 1..(l + 9) : SubSeq(line, i, i) = <<line[i]>>
  BY <1>1, <1>6, OneToken
<1>9. SubSeq(line, l + 8, l + 9) = <<line[l + 8], line[l + 9]>>
  <2> HIDE DEF l
  <2>1. l + 8 \in 1..(Len(line) - 1) /\ (l + 8) + 1 = l + 9
    BY <1>1
  <2>2. SubSeq(line, l + 8, (l + 8) + 1) = <<line[l + 8], line[(l + 8) + 1]>>
    BY <1>6, <2>1, TwoTokens
  <2> QED  BY <2>1, <2>2
<1>10. Len(split(line)) = 5
  BY <1>4
<1>11. l + 2 \in 1..(l + 9) /\ l + 4 \in 1..(l + 9) /\ l + 6 \in 1..(l + 9)
  BY <1>1
<1>12. /\ line[l + 2] = Number(m) /\ line[l + 4] = Number(c) /\ line[l + 6] = Number(p)
       /\ line[l + 8] = Word(t) /\ line[l + 9] = Newline
  BY LineTokens
<1> HIDE DEF l
<1> QED  BY <1>5, <1>7, <1>8, <1>9, <1>10, <1>11, <1>12

\* atoi reads the number of a field that consists of one.
LEMMA AtoiOfNumber ==
    ASSUME NEW n \in Int
    PROVE  atoi(<<Number(n)>>) = n
<1> DEFINE field == <<Number(n)>>
           I     == {i \in 1..Len(field) : field[i] # Newline}
<1>1. I = {1}
  BY TokensDiffer
<1>2. Min({1}) = 1
  BY DEF Min
<1>3. SelectInSeq(field, LAMBDA token : token # Newline) = 1
  BY <1>1, <1>2 DEF SelectInSeq
<1>4. field[1] = <<"number", n>> /\ field[1] \in {"number"} \X Int /\ field[1][2] = n
  BY DEF Number
<1> HIDE DEF field
<1> QED  BY <1>3, <1>4 DEF atoi, field

\* The newline that asctime() puts at the end of the time is removed.
LEMMA NewlineRemoved ==
    ASSUME NEW t
    PROVE  replace_all(<<Word(t), Newline>>, Newline) = <<Word(t)>>
<1> DEFINE field == <<Word(t), Newline>>
           kept  == {i \in DOMAIN field : field[i] # Newline}
<1>1. kept = {1}
  BY TokensDiffer
<1>2. IsFiniteSet({1}) /\ Cardinality({1}) = 1
  BY FS_Singleton
<1>3. {j \in {1} : j < 1} = {} /\ Cardinality({}) = 0
  BY FS_EmptySet
<1>4. Nth({1}, 0) = 1
  BY <1>2, <1>3, NthIsUnique
<1>5. replace_all(field, Newline) = [k \in 1..Cardinality(kept) |-> field[Nth(kept, k - 1)]]
  BY DEF replace_all
<1>6. replace_all(field, Newline) = [k \in 1..1 |-> field[Nth({1}, k - 1)]]
  <2> HIDE DEF kept, field
  <2> QED  BY <1>1, <1>2, <1>5
<1>7. \A k \in 1..1 : field[Nth({1}, k - 1)] = Word(t)
  BY <1>4
<1>8. replace_all(field, Newline) = [k \in 1..1 |-> Word(t)]
  <2> HIDE DEF field
  <2> QED  BY <1>6, <1>7
<1> QED  BY <1>8

-----------------------------------------------------------------------------
(* The parser on a whole line.                                             *)

\* An int converted to size_t: what is not below zero keeps its value, and what
\* is becomes larger than every int.
LEMMA SizeOfInt ==
    ASSUME NEW n \in (-(IntMax + 1))..IntMax
    PROVE  /\ n \in Int /\ to_size(n) \in Nat
           /\ n >= 0 => to_size(n) = n
           /\ n < 0 => to_size(n) = n + SizeMod /\ to_size(n) >= SizeMod - IntMax - 1
           /\ n < 0 => to_size(n) > IntMax
           /\ to_size(n) <= IntMax <=> n >= 0
<1>1. IntMax \in Nat /\ SizeMod \in Nat /\ SizeMod >= 2 * (IntMax + 1) /\ n \in Int
  BY WidthAssumption
<1>2. n >= 0 => n < SizeMod
  BY <1>1
<1>3. n < 0 => 0 - SizeMod <= n
  BY <1>1
<1>4. n >= 0 => n % SizeMod = n
  BY <1>1, <1>2
<1>5. n < 0 => n % SizeMod = n + SizeMod
  BY <1>1, <1>3
<1> QED  BY <1>1, <1>4, <1>5 DEF to_size

\* The struct that the parser returns for a whole line holds what was reported,
\* the numbers converted to size_t, whatever the client key is made of as long as
\* it holds no delimiter.
THEOREM LineIsParsed ==
    ASSUME NEW T, NEW key \in Seq(T), ~ Contains(key, Bar),
           NEW m \in Int, NEW c \in Int, NEW p \in Int, NEW t, NEW junk
    PROVE  parse_to_client_detail(generate_random_sys_info_data(key, m, c, p, t), junk)
             = [ client_key         |-> key,
                 curr_memory_pct    |-> to_size(m),
                 curr_cpu_pct       |-> to_size(c),
                 curr_processes_cnt |-> to_size(p),
                 str_dt_time        |-> <<Word(t)>> ]
<1> DEFINE line == generate_random_sys_info_data(key, m, c, p, t)
           info == split(line)
<1>1. /\ Len(info) = 5 /\ info[1] = key
      /\ info[2] = <<Number(m)>> /\ info[3] = <<Number(c)>>
      /\ info[4] = <<Number(p)>> /\ info[5] = <<Word(t), Newline>>
  BY SplitOfLine
<1>2. atoi(info[2]) = m /\ atoi(info[3]) = c /\ atoi(info[4]) = p
  BY <1>1, AtoiOfNumber
<1>3. replace_all(info[5], Newline) = <<Word(t)>>
  BY <1>1, NewlineRemoved
<1> HIDE DEF line
<1>4. parse_to_client_detail(line, junk)
        = [ client_key         |-> info[1],
            curr_memory_pct    |-> IF 2 <= Len(info) THEN to_size(atoi(info[2]))
                                   ELSE junk.curr_memory_pct,
            curr_cpu_pct       |-> IF 3 <= Len(info) THEN to_size(atoi(info[3]))
                                   ELSE junk.curr_cpu_pct,
            curr_processes_cnt |-> IF 4 <= Len(info) THEN to_size(atoi(info[4]))
                                   ELSE junk.curr_processes_cnt,
            str_dt_time        |-> IF 5 <= Len(info) THEN replace_all(info[5], Newline)
                                   ELSE junk.str_dt_time ]
  BY Zenon DEF parse_to_client_detail
<1> HIDE DEF info
<1>5. 2 <= Len(info) /\ 3 <= Len(info) /\ 4 <= Len(info) /\ 5 <= Len(info)
  BY <1>1
<1> QED  BY <1>1, <1>2, <1>3, <1>4, <1>5, Zenon DEF line

\* A whole line has a field for every index the parser uses, also when the key
\* itself holds delimiters.
THEOREM LineIsNotShort ==
    ASSUME NEW T, NEW key \in Seq(T), NEW m, NEW c, NEW p, NEW t
    PROVE  ~ IsShort(generate_random_sys_info_data(key, m, c, p, t))
<1> DEFINE line == generate_random_sys_info_data(key, m, c, p, t)
           l    == Len(key)
           cuts == {0, l + 1, l + 3, l + 5, l + 7, l + 10}
<1>1. l \in Nat /\ Len(line) = l + 9 /\ \E U : line \in Seq(U)
  BY LineTokens
<1>2. DOMAIN line = 1..(l + 9)
  BY <1>1, LenProperties
<1>3. line[l + 1] = Bar /\ line[l + 3] = Bar /\ line[l + 5] = Bar /\ line[l + 7] = Bar
  BY LineTokens
<1> HIDE DEF line, l
<1>4. cuts \subseteq Ends(line)
  <2>1. {l + 1, l + 3, l + 5, l + 7} \subseteq {i \in DOMAIN line : line[i] = Bar}
    BY <1>1, <1>2, <1>3
  <2>2. Len(line) + 1 = l + 10
    BY <1>1
  <2> QED  BY <2>1, <2>2 DEF Ends
<1>5. IsFiniteSet(Ends(line)) /\ Cardinality(Ends(line)) \in Nat
  BY <1>1, EndsAreFinite
<1>6. Cardinality(cuts) = 6
  BY <1>1, CutsInOrder
<1>7. Cardinality(Ends(line)) >= 6 /\ Cardinality(Ends(line)) \in Nat
  <2> HIDE DEF cuts
  <2>1. Cardinality(cuts) <= Cardinality(Ends(line))
    BY <1>4, <1>5, FS_Subset
  <2> QED  BY <1>5, <1>6, <2>1
<1>8. Len(split(line)) = Cardinality(Ends(line)) - 1
  BY <1>7 DEF split, Ends
<1>9. ~ IsShort(line)
  BY <1>7, <1>8 DEF IsShort, FieldCount
<1> QED  BY <1>9 DEF line

\* The first field of a line ends at the first delimiter: a key that holds one is
\* not what the server sees.
THEOREM BrokenKeyIsNotSeen ==
    ASSUME NEW T, NEW key \in Seq(T), Contains(key, Bar),
           NEW m, NEW c, NEW p, NEW t, NEW junk
    PROVE  parse_to_client_detail(generate_random_sys_info_data(key, m, c, p, t),
                                  junk).client_key # key
<1> DEFINE line == generate_random_sys_info_data(key, m, c, p, t)
           l    == Len(key)
           bars == {i \in 1..l : key[i] = Bar}
<1>1. l \in Nat /\ Len(line) = l + 9 /\ (\E U : line \in Seq(U))
      /\ \A i \in 1..l : line[i] = key[i]
  BY LineTokens
<1>2. DOMAIN line = 1..(l + 9)
  BY <1>1, LenProperties
<1>3. PICK b \in bars : \A i \in bars : b <= i
  <2>1. bars # {} /\ bars \subseteq Nat
    BY <1>1 DEF Contains
  <2> DEFINE less == OpToRel(<, Nat)
  <2>2. IsWellFoundedOn(less, Nat)
    BY NatLessThanWellFounded
  <2>3. \A x, y \in Nat : <<y, x>> \in less <=> y < x
    BY DEF OpToRel
  <2> HIDE DEF bars, less
  <2>4. PICK x \in bars : \A y \in bars : ~ (<<y, x>> \in less)
    BY <2>1, <2>2, WFMin
  <2>5. \A y \in bars : ~ (y < x)
    BY <2>1, <2>3, <2>4, Zenon
  <2> QED  BY <2>1, <2>5
<1> DEFINE ends == Ends(line)
<1>4. b \in 1..l /\ b \in ends /\ 0 \in ends /\ {j \in ends : j < b} = {0}
  BY <1>1, <1>2, <1>3 DEF Ends
<1> HIDE DEF line, l, bars
<1>5. IsFiniteSet(ends) /\ Cardinality(ends) \in Nat /\ ends \in SUBSET Int
  BY <1>1, EndsAreFinite
<1> HIDE DEF ends
<1>6. Nth(ends, 1) = b
  BY <1>4, <1>5, FS_Singleton, NthIsUnique
<1>7. Nth(ends, 0) = 0
  <2>1. {j \in ends : j < 0} = {}
    BY <1>2, <1>1 DEF ends, Ends
  <2> QED  BY <1>4, <1>5, <2>1, FS_EmptySet, NthIsUnique
<1>8. Cardinality(ends) >= 2
  <2>1. {0, b} \subseteq ends /\ 0 # b
    BY <1>1, <1>4
  <2>2. {0, b} = {0} \cup {b} /\ b \notin {0}
    BY <2>1
  <2>3. IsFiniteSet({0}) /\ Cardinality({0}) = 1
    BY FS_Singleton
  <2>4. Cardinality({0, b}) = Cardinality({0}) + 1
    BY <2>2, <2>3, FS_AddElement, Zenon
  <2>5. Cardinality({0, b}) = 2
    BY <2>3, <2>4
  <2>6. Cardinality({0, b}) <= Cardinality(ends)
    BY <1>5, <2>1, FS_Subset
  <2> QED  BY <1>5, <2>5, <2>6
<1>9. split(line)[1] = SubSeq(line, 1, b - 1)
  <2>1. split(line) = [k \in 1..(Cardinality(ends) - 1) |->
                          SubSeq(line, Nth(ends, k - 1) + 1, Nth(ends, k) - 1)]
    BY DEF split, ends, Ends
  <2>2. 1 \in 1..(Cardinality(ends) - 1) /\ 1 - 1 = 0 /\ 0 + 1 = 1
    BY <1>5, <1>8
  <2>3. split(line)[1] = SubSeq(line, Nth(ends, 1 - 1) + 1, Nth(ends, 1) - 1)
    BY <2>1, <2>2
  <2> QED  BY <1>6, <1>7, <2>2, <2>3
<1>10. Len(SubSeq(line, 1, b - 1)) = b - 1
  <2>1. PICK U : line \in Seq(U)
    BY <1>1
  <2>2. \A i \in 1..(b - 1) : line[i] \in U
    BY <1>1, <1>4, <2>1, ElementOfSeq
  <2>3. b - 1 \in Int /\ (1 <= b - 1 \/ b - 1 = 0)
    BY <1>1, <1>4
  <2> QED  BY <2>2, <2>3, SubSeqProperties
<1>11. split(line)[1] # key
  BY <1>1, <1>4, <1>9, <1>10 DEF l
<1> QED  BY <1>11 DEF parse_to_client_detail, line
=============================================================================
