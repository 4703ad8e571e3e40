---------------------------- MODULE TrackerProofs ----------------------------
(***************************************************************************)
(* That the tracker has every section of a test case entered, and none of  *)
(* the innermost ones twice: SectionsRunOnce, for every test body whose    *)
(* sections are nested as C++ scopes are, whatever it throws and wherever. *)
(***************************************************************************)
EXTENDS CatchProofs, FiniteSetTheorems

(***************************************************************************)
(* The sections of a body.  The test case itself is section 0, around all  *)
(* of them.                                                                *)
(***************************************************************************)
\* The sections that the instruction k is in, and the innermost of them.
Around(b, k) == IF k = 0 THEN {} ELSE {0} \cup {i \in SectionsOf(b) : i < k /\ k <= b[i].end}
Inner(b, k)  == Max(Around(b, k))

\* The sections that the test knows.
Known(b, st) == DOMAIN st \cap SectionsOf(b)

IsDone(s) == s = "CompletedSuccessfully" \/ s = "Failed"
States == {"NotStarted", "Executing", "ExecutingChildren", "NeedsAnotherRun", "CompletedSuccessfully", "Failed"}

\* What has been done of the sections: the tests' states by section, with the path of each.
Finished(b, st) == {i \in Known(b, st) : IsDone(st[i])}

(***************************************************************************)
(* What the tracker context t shows: the state st[i] of each known section *)
(* i of the body b of the test called name, under the path path[i].        *)
(***************************************************************************)
KnowsSections(b, st) ==
    /\ DOMAIN st \subseteq {0} \cup SectionsOf(b)
    /\ \A i \in DOMAIN st : st[i] \in States
    /\ \A i \in DOMAIN st : i # 0 => Inner(b, i) \in DOMAIN st

HasPaths(b, name, path, st) ==
    /\ DOMAIN path = DOMAIN st
    /\ \A i \in DOMAIN st : path[i] \in Seq({path[i][n] : n \in DOMAIN path[i]})
    /\ \A i \in DOMAIN st : path[i] = IF i = 0 THEN <<name>> ELSE Append(path[Inner(b, i)], SectionKey(b[i]))

\* The last child is the last one of the body that is known.
HasChildren(b, st, i, children) ==
    /\ children \in Seq({children[n] : n \in DOMAIN children})
    /\ children = << >> => \A j \in Known(b, st) : Inner(b, j) # i
    /\ children # << >> => \E j \in Known(b, st) : /\ Inner(b, j) = i /\ Last(children) = SectionKey(b[j])
                                                 /\ \A k \in Known(b, st) : Inner(b, k) = i => k <= j

HasNodes(b, path, st, nodes) ==
    /\ DOMAIN nodes = {Root} \cup {path[i] : i \in DOMAIN st}
    /\ \A p \in DOMAIN nodes : DOMAIN nodes[p] = {"state", "children"}
    /\ \A i \in DOMAIN st : nodes[path[i]].state = st[i] /\ HasChildren(b, st, i, nodes[path[i]].children)
    /\ nodes[Root].children \in Seq({nodes[Root].children[n] : n \in DOMAIN nodes[Root].children})

Shows(t, b, name, path, st) ==
    /\ DOMAIN t = {"nodes", "current", "run", "illogical"}
    /\ KnowsSections(b, st)
    /\ HasPaths(b, name, path, st)
    /\ HasNodes(b, path, st, t.nodes)
    /\ ~ t.illogical

(***************************************************************************)
(* Sections are known and started in the order of the body.                *)
(***************************************************************************)
Siblings(b, i, j) == i \in SectionsOf(b) /\ j \in SectionsOf(b) /\ i < j /\ Inner(b, i) = Inner(b, j)

InOrder(b, st) ==
    \A i, j \in SectionsOf(b) : Siblings(b, i, j) /\ j \in DOMAIN st =>
        i \in DOMAIN st /\ (st[j] # "NotStarted" => IsDone(st[i]))

\* The innermost sections: entered once, while c is the current one, and then done.
Visited(b, st, visits, c) ==
    /\ visits \in Seq(Leaves(b)) /\ IsInjective(visits)
    /\ \A n \in DOMAIN visits : visits[n] \in DOMAIN st /\ (IsDone(st[visits[n]]) \/ visits[n] = c)
    /\ \A l \in Leaves(b) \cap DOMAIN st :
          /\ st[l] # "ExecutingChildren" /\ st[l] # "NeedsAnotherRun"
          /\ st[l] # "NotStarted" => l \in ToSet(visits)

\* Everything in a section that is done has been entered.
Thorough(b, st, visits) ==
    \A i \in DOMAIN st : IsDone(st[i]) => \A l \in Leaves(b) : l = i \/ i \in Around(b, l) => l \in ToSet(visits)

(***************************************************************************)
(* The way down to the current section c.                                  *)
(***************************************************************************)
Way(t, b, path, st, c) ==
    /\ c \in DOMAIN st /\ t.current = path[c]
    /\ \A i \in Around(b, c) : i \in DOMAIN st /\ st[i] = "ExecutingChildren"
    /\ t.run = "Executing" \/ t.run = "CompletedCycle"
    /\ t.run = "Executing" <=> st[c] = "Executing"
    /\ t.run = "CompletedCycle" => st[c] = "ExecutingChildren" \/ st[c] = "NeedsAnotherRun"

\* The active sections are those on the path to the current one.
IsActive(active, current) ==
    /\ IsSequence(current) /\ current # << >>
    /\ IsSequence(active) /\ Len(active) = Len(current) - 1
    /\ \A n \in 1..Len(active) : active[n] = SubSeq(current, 1, n + 1)

\* What has been seen of the body before the instruction k.
Seen(t, b, st, k) ==
    /\ \A j \in SectionsOf(b) : j < k /\ Inner(b, j) \in Around(b, k) => j \in DOMAIN st
    /\ t.run = "Executing" =>
          \A j \in SectionsOf(b) : j < k /\ Inner(b, j) \in Around(b, k) /\ j \notin Around(b, k) => IsDone(st[j])

\* Once a section has ended, none that follows has been started.
Left(t, b, st, k) ==
    t.run = "CompletedCycle" =>
       \A j \in Known(b, st) : j >= k /\ Inner(b, j) \in Around(b, k) => st[j] = "NotStarted"

\* An exception left sections: c is not done in this pass.
Waits(t, b, st, c) ==
    /\ t.run = "CompletedCycle"
    /\ \/ st[c] = "NeedsAnotherRun"
       \/ st[c] = "ExecutingChildren" /\ \E j \in Known(b, st) : Inner(b, j) = c /\ st[j] # "NotStarted" /\ ~ IsDone(st[j])

-----------------------------------------------------------------------------
(***************************************************************************)
(* Lemmas about the nesting of sections.                                   *)
(***************************************************************************)
\* A set of numbers has a least element.
LEMMA HasLeast ==
    ASSUME NEW S \in SUBSET Nat, S # {}
    PROVE  \E x \in S : \A y \in S : x <= y
<1> DEFINE less == OpToRel(<, Nat)
<1>1. IsWellFoundedOn(less, Nat)
  BY NatLessThanWellFounded
<1>2. \A x, y \in Nat : <<y, x>> \in less <=> y < x
  BY DEF OpToRel
<1> HIDE DEF less
<1>3. PICK x \in S : \A y \in S : ~ (<<y, x>> \in less)
  BY <1>1, WFMin
<1>4. \A y \in S : ~ (y < x)
  BY <1>2, <1>3, Zenon
<1>5. \A y \in S : y \in Nat /\ x \in Nat
  OBVIOUS
<1>6. \A y \in S : x <= y
  BY <1>4, <1>5
<1> QED  BY <1>6, Zenon

\* A set of numbers below another one has a greatest element.
LEMMA MaxIsMember ==
    ASSUME NEW S \in SUBSET Nat, S # {}, NEW m \in Nat, \A x \in S : x <= m
    PROVE  Max(S) \in S /\ \A x \in S : x <= Max(S)
<1> DEFINE below == {m - x : x \in S}
<1>1. below \in SUBSET Nat /\ below # {}
  OBVIOUS
<1>2. PICK least \in below : \A y \in below : least <= y
  BY <1>1, HasLeast, Zenon
<1>3. PICK greatest \in S : least = m - greatest
  OBVIOUS
<1>4. \A x \in S : m - x \in below
  OBVIOUS
<1> HIDE DEF below
<1>5. \A x \in S : x \in Nat /\ least <= m - x
  BY <1>2, <1>4
<1>6. \A x \in S : greatest >= x
  BY <1>3, <1>5
<1>7. Max(S) \in S /\ \A x \in S : Max(S) >= x
  BY <1>6, Zenon DEF Max
<1> QED  BY <1>7

\* The numbers of a body.
LEMMA BodyFacts ==
    ASSUME NEW b, WellNested(b)
    PROVE  /\ Len(b) \in Nat /\ SectionsOf(b) \subseteq 1..Len(b)
           /\ \A i \in SectionsOf(b) : b[i].end \in (i + 1)..Len(b)
           /\ \A i, j \in SectionsOf(b) : i < j => b[i].end < j \/ b[j].end < b[i].end
           /\ \A i, j \in SectionsOf(b) : b[i].end # j
<1>1. \A i \in SectionsOf(b) : b[i].op = "section" /\ b[b[i].end].op = "end"
  BY Zenon DEF WellNested, SectionsOf
<1> QED  BY <1>1 DEF WellNested, SectionsOf

\* The sections around a place, from the outermost to the innermost.
LEMMA AroundFacts ==
    ASSUME NEW b, WellNested(b), NEW k \in 1..(Len(b) + 1)
    PROVE  /\ Inner(b, k) \in Around(b, k)
           /\ \A i \in Around(b, k) : i \in {0} \cup SectionsOf(b) /\ i \in 0..(k - 1) /\ i <= Inner(b, k)
           /\ Around(b, k) = Around(b, Inner(b, k)) \cup {Inner(b, k)}
           /\ Inner(b, k) \notin Around(b, Inner(b, k))
<1> DEFINE S == SectionsOf(b)
           m == Inner(b, k)
<1>1. /\ Len(b) \in Nat /\ S \subseteq 1..Len(b)
      /\ \A i \in S : b[i].end \in (i + 1)..Len(b)
      /\ \A i, j \in S : i < j => b[i].end < j \/ b[j].end < b[i].end
  BY BodyFacts
<1>2. Around(b, k) = {0} \cup {i \in S : i < k /\ k <= b[i].end}
  BY DEF Around
<1>3. \A i \in Around(b, k) : i \in {0} \cup S /\ i \in 0..(k - 1)
  BY <1>1, <1>2
<1>4. m \in Around(b, k) /\ \A i \in Around(b, k) : i <= m
  <2>1. Around(b, k) \in SUBSET Nat /\ Around(b, k) # {} /\ k \in Nat /\ \A i \in Around(b, k) : i <= k
    BY <1>1, <1>2, <1>3
  <2> QED  BY <2>1, MaxIsMember DEF Inner
<1> HIDE DEF m
<1>5. CASE m = 0
  <2>1. Around(b, m) = {}
    BY <1>5 DEF Around
  <2>2. \A i \in Around(b, k) : i = 0
    BY <1>1, <1>3, <1>4, <1>5
  <2>3. Around(b, k) = {0}
    BY <1>2, <2>2
  <2> QED  BY <1>3, <1>4, <1>5, <2>1, <2>3 DEF m
<1>6. CASE m # 0
  <2>1. m \in S /\ m < k /\ k <= b[m].end
    BY <1>2, <1>4, <1>6
  <2>2. Around(b, m) = {0} \cup {i \in S : i < m /\ m <= b[i].end}
    BY <1>6 DEF Around
  <2>3. \A i \in S : (i < k /\ k <= b[i].end) <=> (i < m /\ m <= b[i].end) \/ i = m
    <3> SUFFICES ASSUME NEW i \in S
                 PROVE  (i < k /\ k <= b[i].end) <=> (i < m /\ m <= b[i].end) \/ i = m
      OBVIOUS
    <3>1. i \in Nat /\ m \in Nat /\ k \in Nat /\ b[i].end \in Nat /\ b[m].end \in Nat
      BY <1>1, <2>1
    <3>2. i < k /\ k <= b[i].end => i <= m
      BY <1>2, <1>4
    <3>3. i < m => b[i].end < m \/ b[m].end < b[i].end
      BY <1>1, <2>1
    <3> QED  BY <2>1, <3>1, <3>2, <3>3
  <2>4. m \notin Around(b, m)
    BY <1>1, <2>1, <2>2
  <2>5. Around(b, k) = Around(b, m) \cup {m}
    BY <1>2, <2>1, <2>2, <2>3
  <2> QED  BY <1>3, <1>4, <2>4, <2>5 DEF m
<1> QED  BY <1>5, <1>6 DEF m

\* Two places with the same sections around them.
LEMMA SameInner ==
    ASSUME NEW b, NEW k, NEW l, Around(b, k) = Around(b, l)
    PROVE  Inner(b, k) = Inner(b, l)
BY Zenon DEF Inner

\* Into a section.
LEMMA AroundEntered ==
    ASSUME NEW b, WellNested(b), NEW k \in SectionsOf(b)
    PROVE  Around(b, k + 1) = Around(b, k) \cup {k} /\ Inner(b, k + 1) = k /\ k \notin Around(b, k)
<1>1. /\ Len(b) \in Nat /\ SectionsOf(b) \subseteq 1..Len(b)
      /\ \A i \in SectionsOf(b) : b[i].end \in (i + 1)..Len(b)
      /\ \A i \in SectionsOf(b) : b[i].end # k
  BY BodyFacts
<1>2. Around(b, k + 1) = {0} \cup {i \in SectionsOf(b) : i < k + 1 /\ k + 1 <= b[i].end}
  BY <1>1 DEF Around
<1>3. Around(b, k) = {0} \cup {i \in SectionsOf(b) : i < k /\ k <= b[i].end}
  BY <1>1 DEF Around
<1>4. \A i \in SectionsOf(b) : (i < k + 1 /\ k + 1 <= b[i].end) <=> (i < k /\ k <= b[i].end) \/ i = k
  BY <1>1
<1>5. Around(b, k + 1) = Around(b, k) \cup {k}
  BY <1>2, <1>3, <1>4
<1>6. k + 1 \in 1..(Len(b) + 1) /\ k \in 1..(Len(b) + 1)
  BY <1>1
<1>7. /\ \A i \in Around(b, k) : i <= k - 1
      /\ \A i \in Around(b, k + 1) : i <= Inner(b, k + 1)
      /\ Inner(b, k + 1) \in Around(b, k + 1)
  BY <1>6, AroundFacts
<1>8. k \notin Around(b, k)
  BY <1>1, <1>7
<1>9. \A i \in Around(b, k) : i \in Nat
  BY <1>1, <1>3
<1>10. Inner(b, k + 1) = k
  BY <1>1, <1>5, <1>7, <1>9
<1> QED  BY <1>5, <1>8, <1>10

\* Past a section.
LEMMA AroundPassed ==
    ASSUME NEW b, WellNested(b), NEW k \in SectionsOf(b)
    PROVE  Around(b, b[k].end + 1) = Around(b, k) /\ Inner(b, b[k].end + 1) = Inner(b, k)
<1> DEFINE e == b[k].end
<1>1. /\ Len(b) \in Nat /\ SectionsOf(b) \subseteq 1..Len(b)
      /\ \A i \in SectionsOf(b) : b[i].end \in (i + 1)..Len(b)
      /\ \A i, j \in SectionsOf(b) : i < j => b[i].end < j \/ b[j].end < b[i].end
      /\ \A i \in SectionsOf(b) : e # i
  BY BodyFacts
<1>2. e \in Nat /\ k < e
  BY <1>1
<1>3. Around(b, e + 1) = {0} \cup {i \in SectionsOf(b) : i < e + 1 /\ e + 1 <= b[i].end}
  BY <1>2 DEF Around
<1>4. Around(b, k) = {0} \cup {i \in SectionsOf(b) : i < k /\ k <= b[i].end}
  BY <1>1 DEF Around
<1>5. \A i \in SectionsOf(b) : (i < e + 1 /\ e + 1 <= b[i].end) <=> (i < k /\ k <= b[i].end)
  <2> SUFFICES ASSUME NEW i \in SectionsOf(b)
               PROVE  (i < e + 1 /\ e + 1 <= b[i].end) <=> (i < k /\ k <= b[i].end)
    OBVIOUS
  <2>1. i \in Nat /\ k \in Nat /\ b[i].end \in Nat
    BY <1>1
  <2>2. i < k => b[i].end < k \/ e < b[i].end
    BY <1>1
  <2>3. k < i => e < i \/ b[i].end < e
    BY <1>1
  <2>4. e # i
    BY <1>1
  <2> HIDE DEF e
  <2>5. i = k => b[i].end = e
    BY DEF e
  <2> QED  BY <1>2, <2>1, <2>2, <2>3, <2>4, <2>5
<1>6. Around(b, e + 1) = Around(b, k)
  BY <1>3, <1>4, <1>5
<1> QED  BY <1>6, SameInner

\* Past an instruction that neither starts nor ends a section.
LEMMA AroundStays ==
    ASSUME NEW b, WellNested(b), NEW k \in 1..Len(b), b[k].op # "section", b[k].op # "end"
    PROVE  Around(b, k + 1) = Around(b, k) /\ Inner(b, k + 1) = Inner(b, k)
<1>1. /\ Len(b) \in Nat /\ SectionsOf(b) \subseteq 1..Len(b)
      /\ \A i \in SectionsOf(b) : b[i].end \in (i + 1)..Len(b)
  BY BodyFacts
<1>2. \A i \in SectionsOf(b) : i # k /\ b[i].end # k
  <2>1. \A i \in SectionsOf(b) : b[i].op = "section" /\ b[b[i].end].op = "end"
    BY Zenon DEF WellNested, SectionsOf
  <2> QED  BY <2>1
<1>3. \A i \in SectionsOf(b) : (i < k + 1 /\ k + 1 <= b[i].end) <=> (i < k /\ k <= b[i].end)
  BY <1>1, <1>2
<1>4. Around(b, k + 1) = {0} \cup {i \in SectionsOf(b) : i < k + 1 /\ k + 1 <= b[i].end}
  BY <1>1 DEF Around
<1>5. Around(b, k) = {0} \cup {i \in SectionsOf(b) : i < k /\ k <= b[i].end}
  BY <1>1 DEF Around
<1>6. Around(b, k + 1) = Around(b, k)
  BY <1>3, <1>4, <1>5
<1> QED  BY <1>6, SameInner

\* Out of the innermost section, at its end.
LEMMA AroundEnded ==
    ASSUME NEW b, WellNested(b), NEW e \in 1..Len(b), b[e].op = "end"
    PROVE  /\ Inner(b, e) \in SectionsOf(b) /\ b[Inner(b, e)].end = e
           /\ Around(b, e + 1) = Around(b, Inner(b, e)) /\ Inner(b, e + 1) = Inner(b, Inner(b, e))
<1>1. /\ Len(b) \in Nat /\ SectionsOf(b) \subseteq 1..Len(b)
      /\ \A i \in SectionsOf(b) : b[i].end \in (i + 1)..Len(b)
      /\ \A i, j \in SectionsOf(b) : i < j => b[i].end < j \/ b[j].end < b[i].end
  BY BodyFacts
<1>2. PICK k \in SectionsOf(b) : b[k].end = e
  BY Zenon DEF WellNested
<1>3. k \in 1..Len(b) /\ k < e
  BY <1>1, <1>2
<1>4. Around(b, e) = {0} \cup {i \in SectionsOf(b) : i < e /\ e <= b[i].end}
  BY DEF Around
<1>5. k \in Around(b, e)
  BY <1>2, <1>3, <1>4
<1>6. \A i \in Around(b, e) : i <= k
  <2> SUFFICES ASSUME NEW i \in SectionsOf(b), i < e, e <= b[i].end, k < i PROVE FALSE
    BY <1>1, <1>3, <1>4
  <2>1. b[k].end < i \/ b[i].end < b[k].end
    BY <1>1
  <2> QED  BY <1>1, <1>2, <2>1
<1>7. /\ Inner(b, e) \in Around(b, e)
      /\ \A i \in Around(b, e) : i \in 0..(e - 1) /\ i <= Inner(b, e)
  BY <1>1, AroundFacts
<1>8. Inner(b, e) = k
  <2>1. Inner(b, e) <= k /\ k <= Inner(b, e)
    BY <1>5, <1>6, <1>7
  <2>2. Inner(b, e) \in 0..(e - 1)
    BY <1>7, Zenon
  <2> QED  BY <1>3, <2>1, <2>2
<1> QED  BY <1>2, <1>8, AroundPassed, Zenon

\* At the start and behind the end there is only the test case.
LEMMA AroundOutside ==
    ASSUME NEW b, WellNested(b)
    PROVE  /\ Around(b, 1) = {0} /\ Inner(b, 1) = 0
           /\ Around(b, Len(b) + 1) = {0} /\ Inner(b, Len(b) + 1) = 0
<1>1. /\ Len(b) \in Nat /\ SectionsOf(b) \subseteq 1..Len(b)
      /\ \A i \in SectionsOf(b) : b[i].end \in (i + 1)..Len(b)
  BY BodyFacts
<1>2. Around(b, 1) = {0} /\ Around(b, Len(b) + 1) = {0}
  BY <1>1 DEF Around
<1>3. Inner(b, 1) \in Around(b, 1) /\ Inner(b, Len(b) + 1) \in Around(b, Len(b) + 1)
  BY <1>1, AroundFacts
<1> QED  BY <1>2, <1>3

\* On the way from a section to one inside of it.
LEMMA NextInside ==
    ASSUME NEW b, WellNested(b), NEW l \in SectionsOf(b), NEW i \in Around(b, l)
    PROVE  \E j \in SectionsOf(b) : /\ j \in Around(b, l) \cup {l}
                                    /\ Inner(b, j) = i /\ i < j /\ j <= l
<1>1. /\ Len(b) \in Nat /\ SectionsOf(b) \subseteq 1..Len(b)
      /\ \A k \in SectionsOf(b) : b[k].end \in (k + 1)..Len(b)
      /\ \A k, j \in SectionsOf(b) : k < j => b[k].end < j \/ b[j].end < b[k].end
  BY BodyFacts
<1>2. Around(b, l) = {0} \cup {k \in SectionsOf(b) : k < l /\ l <= b[k].end}
  BY <1>1 DEF Around
<1> DEFINE inside == {k \in Around(b, l) \cup {l} : i < k}
<1>3. inside \in SUBSET Nat /\ l \in inside
  BY <1>1, <1>2
<1>5. PICK j \in inside : \A k \in inside : j <= k
  BY <1>3, HasLeast, Zenon
<1>6. j \in SectionsOf(b) /\ i < j /\ j <= l /\ j \in Around(b, l) \cup {l} /\ l <= b[j].end
  BY <1>1, <1>2, <1>3, <1>5
<1>7. Around(b, j) = {0} \cup {k \in SectionsOf(b) : k < j /\ j <= b[k].end}
  BY <1>1, <1>6 DEF Around
<1>8. \A k \in SectionsOf(b) : k < j /\ j <= b[k].end => k \in Around(b, l) /\ k <= i
  <2> SUFFICES ASSUME NEW k \in SectionsOf(b), k < j, j <= b[k].end PROVE k \in Around(b, l) /\ k <= i
    OBVIOUS
  <2>1. b[k].end < j \/ b[j].end < b[k].end
    BY <1>1, <1>6
  <2>2. k < l /\ l <= b[k].end
    BY <1>1, <1>6, <2>1
  <2>3. k \in Around(b, l)
    BY <1>2, <2>2
  <2>4. ~ (i < k)
    BY <1>1, <1>5, <1>6, <2>3
  <2> QED  BY <1>1, <1>2, <2>3, <2>4
<1>9. i \in Around(b, j)
  <2>1. CASE i = 0
    BY <1>7, <2>1
  <2>2. CASE i # 0
    <3>1. i \in SectionsOf(b) /\ l <= b[i].end
      BY <1>2, <2>2
    <3>2. j <= b[i].end
      BY <1>1, <1>6, <3>1
    <3> QED  BY <1>6, <1>7, <3>1, <3>2
  <2> QED  BY <2>1, <2>2
<1>10. j \in 1..(Len(b) + 1)
  BY <1>1, <1>6
<1>11. Inner(b, j) \in Around(b, j) /\ i <= Inner(b, j)
  BY <1>9, <1>10, AroundFacts
<1>12. Inner(b, j) <= i
  BY <1>1, <1>2, <1>7, <1>8, <1>11
<1>13. Inner(b, j) = i
  BY <1>1, <1>2, <1>7, <1>11, <1>12
<1> QED  BY <1>6, <1>13

\* Nothing is inside of an innermost section, and it is the innermost one around its code.
LEMMA LeafFacts ==
    ASSUME NEW b, WellNested(b), NEW l \in Leaves(b)
    PROVE  /\ l \in SectionsOf(b) /\ l # 0
           /\ \A k \in SectionsOf(b) : l \notin Around(b, k)
           /\ \A k \in 1..Len(b) : l < k /\ k < b[l].end => Inner(b, k) = l
<1>1. /\ Len(b) \in Nat /\ SectionsOf(b) \subseteq 1..Len(b)
      /\ \A k \in SectionsOf(b) : b[k].end \in (k + 1)..Len(b)
  BY BodyFacts
<1>2. l \in SectionsOf(b) /\ \A j \in (l + 1)..b[l].end : j \notin SectionsOf(b)
  BY Zenon DEF Leaves, SectionsOf
<1>3. ASSUME NEW k \in SectionsOf(b)
      PROVE  l \notin Around(b, k)
  <2>1. Around(b, k) = {0} \cup {i \in SectionsOf(b) : i < k /\ k <= b[i].end}
    BY <1>1 DEF Around
  <2> QED  BY <1>1, <1>2, <2>1
<1>4. ASSUME NEW k \in 1..Len(b), l < k, k < b[l].end
      PROVE  Inner(b, k) = l
  <2>1. Around(b, k) = {0} \cup {i \in SectionsOf(b) : i < k /\ k <= b[i].end}
    BY DEF Around
  <2>2. l \in Around(b, k)
    BY <1>1, <1>2, <1>4, <2>1
  <2>3. /\ Inner(b, k) \in Around(b, k) /\ l <= Inner(b, k)
        /\ Inner(b, k) \in 0..(k - 1) /\ Inner(b, k) \in {0} \cup SectionsOf(b)
    <3>1. k \in 1..(Len(b) + 1)
      BY <1>1
    <3> QED  BY <2>2, <3>1, AroundFacts
  <2>4. ~ (l < Inner(b, k))
    <3> SUFFICES ASSUME l < Inner(b, k) PROVE FALSE
      OBVIOUS
    <3>1. Inner(b, k) \in (l + 1)..b[l].end
      BY <1>1, <1>2, <1>4, <2>3
    <3>2. Inner(b, k) # 0
      BY <1>1, <1>2, <2>3
    <3> QED  BY <1>2, <2>3, <3>1, <3>2
  <2> QED  BY <1>1, <1>2, <2>3, <2>4
<1> QED  BY <1>1, <1>2, <1>3, <1>4

-----------------------------------------------------------------------------
(***************************************************************************)
(* What the steps of the tracker do to the states of the sections: a new   *)
(* one is found, one is entered from the section c, the current one ends.  *)
(***************************************************************************)
IsFound(st, s, k) ==
    /\ k \notin DOMAIN st /\ DOMAIN s = DOMAIN st \cup {k}
    /\ s[k] = "NotStarted" /\ \A i \in DOMAIN st : s[i] = st[i]

IsEntered(st, s, k, c) ==
    /\ k \in DOMAIN st /\ c \in DOMAIN st /\ DOMAIN s = DOMAIN st
    /\ ~ IsDone(st[k]) /\ st[c] = "Executing"
    /\ s[k] = "Executing" /\ s[c] = "ExecutingChildren"
    /\ \A i \in DOMAIN st : i # k /\ i # c => s[i] = st[i]

IsEnded(st, s, c, p) ==
    /\ c \in DOMAIN st /\ p \in DOMAIN st /\ DOMAIN s = DOMAIN st
    /\ st[c] # "NotStarted" /\ st[p] = "ExecutingChildren"
    /\ IsDone(s[c]) /\ (s[p] = "ExecutingChildren" \/ s[p] = "NeedsAnotherRun")
    /\ \A i \in DOMAIN st : i # c /\ i # p => s[i] = st[i]

\* A section is after the one it is directly in, and is not that one's sibling.
LEMMA InnerIsBefore ==
    ASSUME NEW b, WellNested(b), NEW k \in SectionsOf(b)
    PROVE  /\ Inner(b, k) \in {0} \cup SectionsOf(b) /\ Inner(b, k) < k /\ k \in Nat \ {0} /\ Inner(b, k) \in Nat
           /\ Inner(b, k) \in Around(b, k)
<1>1. Len(b) \in Nat /\ SectionsOf(b) \subseteq 1..Len(b)
  BY BodyFacts
<1>2. k \in 1..(Len(b) + 1)
  BY <1>1
<1>3. /\ Inner(b, k) \in Around(b, k) /\ Inner(b, k) \in {0} \cup SectionsOf(b)
      /\ Inner(b, k) \in 0..(k - 1)
  BY <1>2, AroundFacts
<1> QED  BY <1>1, <1>2, <1>3

\* The order is kept when a section is found after the ones before it.
LEMMA FoundInOrder ==
    ASSUME NEW b, WellNested(b), NEW st, InOrder(b, st), NEW s, NEW k \in SectionsOf(b), IsFound(st, s, k),
           \A j \in SectionsOf(b) : j < k /\ Inner(b, j) = Inner(b, k) => j \in DOMAIN st
    PROVE  InOrder(b, s)
<1> SUFFICES ASSUME NEW i \in SectionsOf(b), NEW j \in SectionsOf(b), Siblings(b, i, j), j \in DOMAIN s
             PROVE  i \in DOMAIN s /\ (s[j] # "NotStarted" => IsDone(s[i]))
  BY Zenon DEF InOrder
<1>1. i < j /\ Inner(b, i) = Inner(b, j)
  BY DEF Siblings
<1>2. CASE j = k
  BY <1>1, <1>2 DEF IsFound
<1>3. CASE j # k
  <2>1. j \in DOMAIN st /\ s[j] = st[j]
    BY <1>3, Zenon DEF IsFound
  <2>2. i \in DOMAIN st /\ (st[j] # "NotStarted" => IsDone(st[i]))
    BY <2>1, Zenon DEF InOrder
  <2> QED  BY <2>1, <2>2, Zenon DEF IsFound
<1> QED  BY <1>2, <1>3

\* And when one is entered after the ones before it are done.
LEMMA EnteredInOrder ==
    ASSUME NEW b, WellNested(b), NEW st, InOrder(b, st), NEW s, NEW k \in SectionsOf(b),
           IsEntered(st, s, k, Inner(b, k)),
           \A j \in SectionsOf(b) : j < k /\ Inner(b, j) = Inner(b, k) => IsDone(st[j])
    PROVE  InOrder(b, s)
<1> DEFINE c == Inner(b, k)
<1> SUFFICES ASSUME NEW i \in SectionsOf(b), NEW j \in SectionsOf(b), Siblings(b, i, j), j \in DOMAIN s
             PROVE  i \in DOMAIN s /\ (s[j] # "NotStarted" => IsDone(s[i]))
  BY Zenon DEF InOrder
<1>1. i < j /\ Inner(b, i) = Inner(b, j)
  BY DEF Siblings
<1>2. /\ c < k /\ c \in Nat /\ k \in Nat /\ i \in Nat /\ j \in Nat
      /\ Inner(b, i) < i /\ Inner(b, j) < j
  BY InnerIsBefore
<1> HIDE DEF c
<1>3. /\ j \in DOMAIN st /\ DOMAIN s = DOMAIN st /\ ~ IsDone(st[k]) /\ st[c] = "Executing"
      /\ \A n \in DOMAIN st : n # k /\ n # c => s[n] = st[n]
  BY Zenon DEF IsEntered, c
<1>4. i \in DOMAIN st /\ (st[j] # "NotStarted" => IsDone(st[i]))
  BY <1>3, Zenon DEF InOrder
<1>5. ~ IsDone(st[c]) /\ st[c] # "NotStarted"
  BY <1>3 DEF IsDone
<1>6. j = k \/ st[j] # "NotStarted" => IsDone(st[i])
  BY <1>1, <1>4, Zenon
<1>7. IsDone(st[i]) => i # k /\ i # c /\ s[i] = st[i]
  BY <1>3, <1>4, <1>5, Zenon
<1>8. s[j] # "NotStarted" => j = k \/ st[j] # "NotStarted"
  BY <1>3, <1>5, Zenon
<1> QED  BY <1>3, <1>4, <1>6, <1>7, <1>8, Zenon

\* And when the current one ends.
LEMMA EndedInOrder ==
    ASSUME NEW b, WellNested(b), NEW st, InOrder(b, st), NEW s, NEW c \in SectionsOf(b),
           IsEnded(st, s, c, Inner(b, c))
    PROVE  InOrder(b, s)
<1> DEFINE p == Inner(b, c)
<1> SUFFICES ASSUME NEW i \in SectionsOf(b), NEW j \in SectionsOf(b), Siblings(b, i, j), j \in DOMAIN s
             PROVE  i \in DOMAIN s /\ (s[j] # "NotStarted" => IsDone(s[i]))
  BY Zenon DEF InOrder
<1>2. /\ j \in DOMAIN st /\ DOMAIN s = DOMAIN st /\ IsDone(s[c])
      /\ st[c] # "NotStarted" /\ st[p] = "ExecutingChildren"
      /\ \A n \in DOMAIN st : n # c /\ n # p => s[n] = st[n]
  BY Zenon DEF IsEnded
<1> HIDE DEF p
<1>3. i \in DOMAIN st /\ (st[j] # "NotStarted" => IsDone(st[i]))
  BY <1>2, Zenon DEF InOrder
<1>4. ~ IsDone(st[p]) /\ st[p] # "NotStarted"
  BY <1>2 DEF IsDone
<1>5. s[j] # "NotStarted" => st[j] # "NotStarted"
  BY <1>2, <1>4, Zenon
<1>6. IsDone(st[i]) => IsDone(s[i])
  BY <1>2, <1>3, <1>4, Zenon
<1> QED  BY <1>2, <1>3, <1>5, <1>6, Zenon

\* What is known of the innermost sections.
LEMMA VisitedFacts ==
    ASSUME NEW b, NEW st, NEW visits, NEW c, Visited(b, st, visits, c)
    PROVE  /\ Len(visits) \in Nat /\ DOMAIN visits = 1..Len(visits)
           /\ \A n \in DOMAIN visits : visits[n] \in Leaves(b)
BY LenProperties, ElementOfSeq DEF Visited

\* Nothing changes for them when a section is found.
LEMMA FoundVisited ==
    ASSUME NEW b, NEW st, NEW visits, NEW c, Visited(b, st, visits, c), NEW s, NEW k, IsFound(st, s, k)
    PROVE  Visited(b, s, visits, c)
<1>1. /\ k \notin DOMAIN st /\ DOMAIN s = DOMAIN st \cup {k}
      /\ s[k] = "NotStarted" /\ \A i \in DOMAIN st : s[i] = st[i]
  BY Zenon DEF IsFound
<1>2. /\ visits \in Seq(Leaves(b)) /\ IsInjective(visits)
      /\ \A n \in DOMAIN visits : visits[n] \in DOMAIN st /\ (IsDone(st[visits[n]]) \/ visits[n] = c)
      /\ \A l \in Leaves(b) \cap DOMAIN st :
            /\ st[l] # "ExecutingChildren" /\ st[l] # "NeedsAnotherRun"
            /\ st[l] # "NotStarted" => l \in ToSet(visits)
  BY Zenon DEF Visited
<1>3. \A n \in DOMAIN visits : visits[n] \in DOMAIN s /\ (IsDone(s[visits[n]]) \/ visits[n] = c)
  BY <1>1, <1>2, Zenon
<1>4. ASSUME NEW l \in Leaves(b) \cap DOMAIN s
      PROVE  /\ s[l] # "ExecutingChildren" /\ s[l] # "NeedsAnotherRun"
             /\ s[l] # "NotStarted" => l \in ToSet(visits)
  <2>1. CASE l = k
    BY <1>1, <2>1
  <2>2. CASE l # k
    BY <1>1, <1>2, <2>2
  <2> QED  BY <2>1, <2>2
<1> QED  BY <1>2, <1>3, <1>4 DEF Visited

\* One more section in a sequence of different ones.
LEMMA AppendVisit ==
    ASSUME NEW S, NEW visits \in Seq(S), IsInjective(visits), NEW k \in S, k \notin ToSet(visits)
    PROVE  /\ Append(visits, k) \in Seq(S) /\ IsInjective(Append(visits, k))
           /\ ToSet(Append(visits, k)) = ToSet(visits) \cup {k}
           /\ \A n \in DOMAIN Append(visits, k) : (n \in DOMAIN visits /\ Append(visits, k)[n] = visits[n]) \/ Append(visits, k)[n] = k
<1> DEFINE more == Append(visits, k)
<1>1. /\ more \in Seq(S) /\ Len(more) = Len(visits) + 1 /\ Len(visits) \in Nat
      /\ DOMAIN more = 1..(Len(visits) + 1) /\ DOMAIN visits = 1..Len(visits)
      /\ \A n \in 1..Len(visits) : more[n] = visits[n]
      /\ more[Len(visits) + 1] = k
  BY AppendProperties, LenProperties
<1> HIDE DEF more
<1>2. \A n \in DOMAIN more : (n \in DOMAIN visits /\ more[n] = visits[n]) \/ (n = Len(visits) + 1 /\ more[n] = k)
  <2>1. \A n \in 1..(Len(visits) + 1) : n \in 1..Len(visits) \/ n = Len(visits) + 1
    BY <1>1
  <2> QED  BY <1>1, <2>1
<1>3. \A n \in DOMAIN visits : visits[n] # k /\ n \in DOMAIN more /\ more[n] = visits[n]
  BY <1>1 DEF ToSet
<1>4. IsInjective(more)
  BY <1>2, <1>3 DEF IsInjective
<1>5. Len(visits) + 1 \in DOMAIN more
  BY <1>1
<1>6. ToSet(more) = ToSet(visits) \cup {k}
  BY <1>1, <1>2, <1>3, <1>5 DEF ToSet
<1> QED  BY <1>1, <1>2, <1>4, <1>6 DEF more

\* An innermost section is entered for the first time.
LEMMA EnteredVisited ==
    ASSUME NEW b, WellNested(b), NEW st, NEW visits, NEW s, NEW k \in SectionsOf(b),
           Visited(b, st, visits, Inner(b, k)), IsEntered(st, s, k, Inner(b, k))
    PROVE  Visited(b, s, IF k \in Leaves(b) THEN Append(visits, k) ELSE visits, k)
<1> DEFINE c == Inner(b, k)
           now == IF k \in Leaves(b) THEN Append(visits, k) ELSE visits
<1>1. /\ c \in Around(b, k) /\ c < k /\ c \in Nat /\ k \in Nat
  BY InnerIsBefore
<1>2. \A l \in Leaves(b) : l # c
  BY <1>1, LeafFacts
<1>3. c # k
  BY <1>1
<1>4. /\ visits \in Seq(Leaves(b)) /\ IsInjective(visits)
      /\ \A n \in DOMAIN visits : visits[n] \in DOMAIN st /\ (IsDone(st[visits[n]]) \/ visits[n] = c)
      /\ \A l \in Leaves(b) \cap DOMAIN st :
            /\ st[l] # "ExecutingChildren" /\ st[l] # "NeedsAnotherRun"
            /\ st[l] # "NotStarted" => l \in ToSet(visits)
  BY Zenon DEF Visited
<1>5. /\ k \in DOMAIN st /\ c \in DOMAIN st /\ DOMAIN s = DOMAIN st
      /\ ~ IsDone(st[k]) /\ st[c] = "Executing"
      /\ s[k] = "Executing" /\ s[c] = "ExecutingChildren"
      /\ \A i \in DOMAIN st : i # k /\ i # c => s[i] = st[i]
  BY Zenon DEF IsEntered
<1>6. \A n \in DOMAIN visits : visits[n] \in Leaves(b)
  BY VisitedFacts
<1> HIDE DEF c
<1>7. \A n \in DOMAIN visits : visits[n] # k /\ visits[n] # c /\ IsDone(st[visits[n]])
  BY <1>2, <1>3, <1>4, <1>5, <1>6, Zenon
<1>8. k \notin ToSet(visits)
  BY <1>7 DEF ToSet
<1>9. /\ now \in Seq(Leaves(b)) /\ IsInjective(now) /\ ToSet(visits) \subseteq ToSet(now)
      /\ k \in Leaves(b) => k \in ToSet(now)
      /\ \A n \in DOMAIN now : (n \in DOMAIN visits /\ now[n] = visits[n]) \/ now[n] = k
  <2>1. CASE k \in Leaves(b)
    <3>1. now = Append(visits, k)
      BY <2>1
    <3> HIDE DEF now
    <3> QED  BY <1>4, <1>8, <2>1, <3>1, AppendVisit
  <2>2. CASE k \notin Leaves(b)
    <3>1. now = visits
      BY <2>2
    <3> HIDE DEF now
    <3> QED  BY <1>4, <2>2, <3>1
  <2> QED  BY <2>1, <2>2
<1> HIDE DEF now
<1>10. \A n \in DOMAIN now : now[n] \in DOMAIN s /\ (IsDone(s[now[n]]) \/ now[n] = k)
  BY <1>4, <1>5, <1>7, <1>9, Zenon
<1>11. ASSUME NEW l \in Leaves(b) \cap DOMAIN s
       PROVE  /\ s[l] # "ExecutingChildren" /\ s[l] # "NeedsAnotherRun"
              /\ s[l] # "NotStarted" => l \in ToSet(now)
  <2>1. CASE l = k
    BY <1>5, <1>9, <2>1
  <2>2. CASE l # k
    BY <1>2, <1>4, <1>5, <1>9, <2>2
  <2> QED  BY <2>1, <2>2
<1>12. Visited(b, s, now, k)
  BY <1>9, <1>10, <1>11 DEF Visited
<1> QED  BY <1>12 DEF now

\* The current section is done, and has been entered if it is an innermost one.
LEMMA EndedVisited ==
    ASSUME NEW b, WellNested(b), NEW st, NEW visits, NEW s, NEW c \in SectionsOf(b),
           Visited(b, st, visits, c), IsEnded(st, s, c, Inner(b, c))
    PROVE  Visited(b, s, visits, Inner(b, c)) /\ (c \in Leaves(b) => c \in ToSet(visits))
<1> DEFINE p == Inner(b, c)
<1>1. /\ p \in Around(b, c) /\ p < c /\ p \in Nat /\ c \in Nat
  BY InnerIsBefore
<1>2. \A l \in Leaves(b) : l # p
  BY <1>1, LeafFacts
<1>4. /\ visits \in Seq(Leaves(b)) /\ IsInjective(visits)
      /\ \A n \in DOMAIN visits : visits[n] \in DOMAIN st /\ (IsDone(st[visits[n]]) \/ visits[n] = c)
      /\ \A l \in Leaves(b) \cap DOMAIN st :
            /\ st[l] # "ExecutingChildren" /\ st[l] # "NeedsAnotherRun"
            /\ st[l] # "NotStarted" => l \in ToSet(visits)
  BY Zenon DEF Visited
<1>5. /\ c \in DOMAIN st /\ p \in DOMAIN st /\ DOMAIN s = DOMAIN st
      /\ st[c] # "NotStarted" /\ IsDone(s[c])
      /\ \A i \in DOMAIN st : i # c /\ i # p => s[i] = st[i]
  BY Zenon DEF IsEnded
<1>6. \A n \in DOMAIN visits : visits[n] \in Leaves(b)
  BY VisitedFacts
<1> HIDE DEF p
<1>7. \A n \in DOMAIN visits : visits[n] \in DOMAIN s /\ IsDone(s[visits[n]])
  BY <1>2, <1>4, <1>5, <1>6, Zenon
<1>8. c \in Leaves(b) => c \in ToSet(visits)
  BY <1>4, <1>5
<1>9. ASSUME NEW l \in Leaves(b) \cap DOMAIN s
      PROVE  /\ s[l] # "ExecutingChildren" /\ s[l] # "NeedsAnotherRun"
             /\ s[l] # "NotStarted" => l \in ToSet(visits)
  <2>1. CASE l = c
    BY <1>5, <1>8, <2>1 DEF IsDone
  <2>2. CASE l # c
    BY <1>2, <1>4, <1>5, <2>2
  <2> QED  BY <2>1, <2>2
<1>10. Visited(b, s, visits, p)
  BY <1>4, <1>7, <1>9 DEF Visited
<1> QED  BY <1>8, <1>10 DEF p

\* The current section is left as it is, and is not an innermost one.
LEMMA LeftVisited ==
    ASSUME NEW b, NEW st, NEW visits, NEW c, NEW p, Visited(b, st, visits, c),
           c \in DOMAIN st, st[c] = "ExecutingChildren" \/ st[c] = "NeedsAnotherRun"
    PROVE  Visited(b, st, visits, p)
<1>1. \A n \in DOMAIN visits : visits[n] \in Leaves(b)
  BY VisitedFacts
<1>2. c \notin Leaves(b)
  BY Zenon DEF Visited
<1>3. \A n \in DOMAIN visits : visits[n] \in DOMAIN st /\ IsDone(st[visits[n]])
  BY <1>1, <1>2, Zenon DEF Visited
<1> QED  BY <1>3, Zenon DEF Visited

\* When all that is directly in a section is done, so is all that is inside of it.
LEMMA ThoroughWithin ==
    ASSUME NEW b, WellNested(b), NEW st, NEW visits, Thorough(b, st, visits), NEW c,
           \A j \in SectionsOf(b) : Inner(b, j) = c => j \in DOMAIN st /\ IsDone(st[j]),
           c \in Leaves(b) => c \in ToSet(visits)
    PROVE  \A l \in Leaves(b) : l = c \/ c \in Around(b, l) => l \in ToSet(visits)
<1> SUFFICES ASSUME NEW l \in Leaves(b), c \in Around(b, l) PROVE l \in ToSet(visits)
  OBVIOUS
<1>1. l \in SectionsOf(b)
  BY LeafFacts
<1>2. PICK j \in SectionsOf(b) : j \in Around(b, l) \cup {l} /\ Inner(b, j) = c
  BY <1>1, NextInside
<1>3. j \in DOMAIN st /\ IsDone(st[j])
  BY <1>2
<1> QED  BY <1>2, <1>3, Zenon DEF Thorough

\* A section that is found or entered is not done.
LEMMA StillThorough ==
    ASSUME NEW b, NEW st, NEW visits, Thorough(b, st, visits), NEW s, NEW more,
           ToSet(visits) \subseteq ToSet(more),
           \A i \in DOMAIN s : IsDone(s[i]) => i \in DOMAIN st /\ IsDone(st[i])
    PROVE  Thorough(b, s, more)
BY DEF Thorough

\* The current section is done, and what is inside of it.
LEMMA EndedThorough ==
    ASSUME NEW b, NEW st, NEW visits, Thorough(b, st, visits), NEW s, NEW c, NEW p, IsEnded(st, s, c, p),
           \A l \in Leaves(b) : l = c \/ c \in Around(b, l) => l \in ToSet(visits)
    PROVE  Thorough(b, s, visits)
<1>1. /\ DOMAIN s = DOMAIN st /\ (s[p] = "ExecutingChildren" \/ s[p] = "NeedsAnotherRun")
      /\ \A i \in DOMAIN st : i # c /\ i # p => s[i] = st[i]
  BY Zenon DEF IsEnded
<1>2. ~ IsDone(s[p])
  BY <1>1 DEF IsDone
<1>3. \A i \in DOMAIN s : IsDone(s[i]) => i = c \/ (i \in DOMAIN st /\ IsDone(st[i]))
  BY <1>1, <1>2, Zenon
<1> QED  BY <1>3, Zenon DEF Thorough

-----------------------------------------------------------------------------
(***************************************************************************)
(* What has been seen of a body, from one instruction to the next.         *)
(***************************************************************************)
\* Where something is inside of a section.
LEMMA InsideFacts ==
    ASSUME NEW b, WellNested(b), NEW j \in SectionsOf(b), Inner(b, j) # 0
    PROVE  Inner(b, j) \in SectionsOf(b) /\ Inner(b, j) < j /\ j < b[Inner(b, j)].end
<1> DEFINE c == Inner(b, j)
<1>1. c \in Around(b, j) /\ c \in {0} \cup SectionsOf(b) /\ c < j /\ j \in Nat \ {0}
  BY InnerIsBefore
<1>2. c \in SectionsOf(b) /\ j <= b[c].end
  <2>1. Around(b, j) = {0} \cup {i \in SectionsOf(b) : i < j /\ j <= b[i].end}
    BY <1>1 DEF Around
  <2> HIDE DEF c
  <2>2. c # 0
    BY DEF c
  <2> QED  BY <1>1, <2>1, <2>2
<1>3. b[c].end # j /\ b[c].end \in Nat
  BY <1>2, BodyFacts
<1> QED  BY <1>1, <1>2, <1>3

\* Past an instruction that is no section's start or end.
LEMMA SeenOn ==
    ASSUME NEW b, WellNested(b), NEW t, NEW st, NEW k \in 1..Len(b), b[k].op # "section", b[k].op # "end",
           Seen(t, b, st, k), Left(t, b, st, k)
    PROVE  Seen(t, b, st, k + 1) /\ Left(t, b, st, k + 1)
<1>1. Around(b, k + 1) = Around(b, k)
  BY AroundStays
<1>2. SectionsOf(b) \subseteq 1..Len(b) /\ k \notin SectionsOf(b)
  BY BodyFacts DEF SectionsOf
<1>3. \A j \in SectionsOf(b) : (j < k + 1 => j < k) /\ (j >= k + 1 => j >= k)
  BY <1>2
<1>4. Seen(t, b, st, k + 1)
  BY <1>1, <1>3, Zenon DEF Seen
<1>5. Left(t, b, st, k + 1)
  BY <1>1, <1>3, Zenon DEF Left, Known
<1> QED  BY <1>4, <1>5

\* A section is found.
LEMMA SeenFound ==
    ASSUME NEW b, NEW t, NEW st, NEW s, NEW k, NEW n, IsFound(st, s, n), Seen(t, b, st, k), Left(t, b, st, k)
    PROVE  Seen(t, b, s, k) /\ Left(t, b, s, k)
<1>1. /\ DOMAIN s = DOMAIN st \cup {n} /\ s[n] = "NotStarted"
      /\ n \notin DOMAIN st /\ \A i \in DOMAIN st : s[i] = st[i]
  BY Zenon DEF IsFound
<1>2. Seen(t, b, s, k)
  BY <1>1, Zenon DEF Seen
<1>3. Left(t, b, s, k)
  <2> SUFFICES ASSUME t.run = "CompletedCycle", NEW j \in Known(b, s), j >= k, Inner(b, j) \in Around(b, k)
               PROVE  s[j] = "NotStarted"
    BY Zenon DEF Left
  <2>1. CASE j = n
    BY <1>1, <2>1
  <2>2. CASE j # n
    <3>1. j \in Known(b, st) /\ s[j] = st[j]
      BY <1>1, <2>2 DEF Known
    <3> QED  BY <3>1, Zenon DEF Left
  <2> QED  BY <2>1, <2>2
<1> QED  BY <1>2, <1>3

\* The section at hand is entered.
LEMMA SeenEntered ==
    ASSUME NEW b, WellNested(b), NEW t, NEW u, NEW st, NEW s, NEW k \in SectionsOf(b),
           IsEntered(st, s, k, Inner(b, k)), Seen(t, b, st, k), t.run = "Executing", u.run = "Executing"
    PROVE  Seen(u, b, s, k + 1) /\ Left(u, b, s, k + 1)
<1>1. Around(b, k + 1) = Around(b, k) \cup {k}
  BY AroundEntered
<1>2. SectionsOf(b) \subseteq 1..Len(b) /\ Len(b) \in Nat
  BY BodyFacts
<1>3. /\ k \in DOMAIN st /\ DOMAIN s = DOMAIN st /\ st[Inner(b, k)] = "Executing"
      /\ \A i \in DOMAIN st : i # k /\ i # Inner(b, k) => s[i] = st[i]
  BY Zenon DEF IsEntered
<1>4. ~ IsDone(st[Inner(b, k)])
  BY <1>3 DEF IsDone
<1>5. ASSUME NEW j \in SectionsOf(b), j < k + 1, Inner(b, j) \in Around(b, k + 1)
      PROVE  j \in DOMAIN s /\ (j \notin Around(b, k + 1) => IsDone(s[j]))
  <2>1. CASE j = k
    BY <1>1, <1>3, <2>1
  <2>2. CASE j # k
    <3>1. j < k
      BY <1>2, <1>5, <2>2
    <3>2. Inner(b, j) # k
      BY <1>2, <3>1, InnerIsBefore
    <3>3. Inner(b, j) \in Around(b, k)
      BY <1>1, <1>5, <3>2
    <3>4. j \in DOMAIN st /\ (j \notin Around(b, k) => IsDone(st[j]))
      BY <3>1, <3>3, Zenon DEF Seen
    <3>5. j \notin Around(b, k + 1) => s[j] = st[j]
      BY <1>1, <1>3, <1>4, <2>2, <3>4
    <3> QED  BY <1>1, <1>3, <3>4, <3>5
  <2> QED  BY <2>1, <2>2
<1>6. Seen(u, b, s, k + 1)
  BY <1>5, Zenon DEF Seen
<1>7. Left(u, b, s, k + 1)
  BY DEF Left
<1> QED  BY <1>6, <1>7

\* The section at hand is passed over.
LEMMA SeenPassed ==
    ASSUME NEW b, WellNested(b), NEW t, NEW st, NEW k \in SectionsOf(b), k \in DOMAIN st,
           Seen(t, b, st, k), Left(t, b, st, k), t.run = "Executing" => IsDone(st[k])
    PROVE  Seen(t, b, st, b[k].end + 1) /\ Left(t, b, st, b[k].end + 1)
<1> DEFINE e == b[k].end
<1>1. Around(b, e + 1) = Around(b, k)
  BY AroundPassed
<1>2. SectionsOf(b) \subseteq 1..Len(b) /\ Len(b) \in Nat /\ e \in (k + 1)..Len(b)
  BY BodyFacts
<1>3. ASSUME NEW j \in SectionsOf(b), j < e + 1, Inner(b, j) \in Around(b, k)
      PROVE  j < k \/ j = k
  <2> SUFFICES ASSUME k < j PROVE FALSE
    BY <1>2
  <2>1. j \in Nat /\ k \in Nat /\ j \in 1..(Len(b) + 1) /\ k \in 1..(Len(b) + 1)
    BY <1>2
  <2>2. Around(b, j) = {0} \cup {i \in SectionsOf(b) : i < j /\ j <= b[i].end}
    BY <1>2 DEF Around
  <2>3. k \in Around(b, j)
    BY <1>2, <1>3, <2>2
  <2>4. k <= Inner(b, j)
    BY <2>1, <2>3, AroundFacts
  <2>5. Inner(b, j) \in 0..(k - 1)
    BY <1>3, <2>1, AroundFacts
  <2> QED  BY <2>1, <2>4, <2>5
<1>4. Seen(t, b, st, e + 1)
  BY <1>1, <1>3, Zenon DEF Seen
<1>5. \A j \in SectionsOf(b) : j >= e + 1 => j >= k
  BY <1>2
<1>6. Left(t, b, st, e + 1)
  BY <1>1, <1>5, Zenon DEF Left, Known
<1> QED  BY <1>4, <1>6

\* The current section ends.
LEMMA SeenEnded ==
    ASSUME NEW b, WellNested(b), NEW t, NEW u, NEW st, NEW s, NEW e \in 1..Len(b), b[e].op = "end",
           Seen(t, b, st, e), Left(t, b, st, e), InOrder(b, st), u.run = "CompletedCycle",
           t.run = "Executing" \/ t.run = "CompletedCycle",
           DOMAIN s = DOMAIN st, \A i \in DOMAIN st : i # Inner(b, e) => s[i] = st[i],
           \A i \in Around(b, e) : i \in DOMAIN st /\ ~ IsDone(st[i])
    PROVE  Seen(u, b, s, e + 1) /\ Left(u, b, s, e + 1)
<1> DEFINE c == Inner(b, e)
<1>1. c \in SectionsOf(b) /\ b[c].end = e /\ Around(b, e + 1) = Around(b, c)
  BY AroundEnded
<1>2. /\ SectionsOf(b) \subseteq 1..Len(b) /\ Len(b) \in Nat /\ \A i \in SectionsOf(b) : b[i].end \in (i + 1)..Len(b)
      /\ e \notin SectionsOf(b)
  BY BodyFacts DEF SectionsOf
<1>3. Around(b, e) = Around(b, c) \cup {c} /\ e \in 1..(Len(b) + 1)
  <2>1. e \in 1..(Len(b) + 1)
    BY <1>2
  <2> QED  BY <2>1, AroundFacts
<1> HIDE DEF c
<1>4. \A j \in SectionsOf(b) : (j < e + 1 => j < e) /\ (j >= e + 1 => j >= e /\ c < j)
  BY <1>1, <1>2
<1>5. Seen(u, b, s, e + 1)
  <2>1. ASSUME NEW j \in SectionsOf(b), j < e + 1, Inner(b, j) \in Around(b, e + 1)
        PROVE  j \in DOMAIN s
    BY <1>1, <1>3, <1>4, <2>1 DEF Seen
  <2> QED  BY <2>1 DEF Seen
<1>6. ASSUME NEW j \in Known(b, s), j >= e + 1, Inner(b, j) \in Around(b, e + 1)
      PROVE  s[j] = "NotStarted"
  <2>1. j \in SectionsOf(b) /\ j \in DOMAIN st /\ j >= e /\ c < j /\ Inner(b, j) \in Around(b, c)
    BY <1>1, <1>4, <1>6 DEF Known
  <2>2. j # c
    BY <1>1, <1>2, <2>1
  <2>3. s[j] = st[j]
    BY <2>1, <2>2 DEF c
  <2>4. CASE t.run = "CompletedCycle"
    BY <1>3, <2>1, <2>3, <2>4 DEF Left, Known
  <2>5. CASE t.run = "Executing"
    <3>1. PICK i \in SectionsOf(b) : i \in Around(b, c) \cup {c} /\ Inner(b, i) = Inner(b, j) /\ i <= c
      BY <1>1, <2>1, NextInside
    <3>2. Siblings(b, i, j)
      BY <1>1, <1>2, <2>1, <3>1 DEF Siblings
    <3>3. ~ IsDone(st[i])
      BY <1>3, <3>1
    <3> QED  BY <2>1, <2>3, <3>2, <3>3, Zenon DEF InOrder
  <2> QED  BY <2>4, <2>5
<1>7. Left(u, b, s, e + 1)
  BY <1>6 DEF Left
<1> QED  BY <1>5, <1>7

\* Where everything directly in the section c has been seen, all of it is done if the
\* section has been run to its end now, or if the last one known is done.
LEMMA DirectlyDone ==
    ASSUME NEW b, WellNested(b), NEW t, NEW st, NEW k \in 1..(Len(b) + 1), NEW c, c = Inner(b, k),
           Seen(t, b, st, k), InOrder(b, st),
           \A j \in SectionsOf(b) : Inner(b, j) = c => j < k,
           \/ t.run = "Executing"
           \/ \A j \in Known(b, st) : Inner(b, j) # c
           \/ \E j \in Known(b, st) : /\ Inner(b, j) = c /\ IsDone(st[j])
                                      /\ \A i \in Known(b, st) : Inner(b, i) = c => i <= j
    PROVE  \A j \in SectionsOf(b) : Inner(b, j) = c => j \in DOMAIN st /\ IsDone(st[j])
<1> SUFFICES ASSUME NEW i \in SectionsOf(b), Inner(b, i) = c PROVE i \in DOMAIN st /\ IsDone(st[i])
  OBVIOUS
<1>1. c \in Around(b, k) /\ i < k /\ \A n \in Around(b, k) : n <= c /\ n \in Nat
  BY AroundFacts
<1>2. i \in DOMAIN st
  BY <1>1, Zenon DEF Seen
<1>3. i \in Known(b, st) /\ c < i /\ i \in Nat /\ c \in Nat
  BY <1>2, InnerIsBefore DEF Known
<1>4. CASE t.run = "Executing"
  <2>1. i \notin Around(b, k)
    BY <1>1, <1>3
  <2> QED  BY <1>1, <1>2, <1>4, <2>1, Zenon DEF Seen
<1>5. CASE \A j \in Known(b, st) : Inner(b, j) # c
  BY <1>3, <1>5
<1>6. CASE \E j \in Known(b, st) : /\ Inner(b, j) = c /\ IsDone(st[j])
                                   /\ \A n \in Known(b, st) : Inner(b, n) = c => n <= j
  <2>1. PICK j \in Known(b, st) : /\ Inner(b, j) = c /\ IsDone(st[j])
                                  /\ \A n \in Known(b, st) : Inner(b, n) = c => n <= j
    BY <1>6
  <2>2. j \in SectionsOf(b) /\ j \in DOMAIN st /\ j \in Nat /\ i <= j
    BY <1>3, <2>1, InnerIsBefore DEF Known
  <2>3. CASE i = j
    BY <1>2, <2>1, <2>3
  <2>n. CASE i # j
    <3>1. Siblings(b, i, j)
      BY <1>3, <2>1, <2>2, <2>n DEF Siblings
    <3>2. st[j] # "NotStarted"
      BY <2>1 DEF IsDone
    <3> QED  BY <1>2, <2>2, <3>1, <3>2, Zenon DEF InOrder
  <2> QED  BY <2>3, <2>n
<1> QED  BY <1>4, <1>5, <1>6

\* That is so at the end of a section, and at the end of the body.
LEMMA DirectlyBefore ==
    ASSUME NEW b, WellNested(b)
    PROVE  /\ \A j \in SectionsOf(b) : j < Len(b) + 1
           /\ \A e \in 1..Len(b) : b[e].op = "end" => \A j \in SectionsOf(b) : Inner(b, j) = Inner(b, e) => j < e
<1>1. SectionsOf(b) \subseteq 1..Len(b) /\ Len(b) \in Nat
  BY BodyFacts
<1>2. ASSUME NEW e \in 1..Len(b), b[e].op = "end", NEW j \in SectionsOf(b), Inner(b, j) = Inner(b, e)
      PROVE  j < e
  <2>1. Inner(b, e) \in SectionsOf(b) /\ b[Inner(b, e)].end = e
    BY <1>2, AroundEnded
  <2>2. Inner(b, j) # 0
    BY <1>1, <1>2, <2>1
  <2> QED  BY <1>2, <2>1, <2>2, InsideFacts
<1> QED  BY <1>1, <1>2

\* The sections that are done, counted.
LEMMA FinishedFacts ==
    ASSUME NEW b, WellNested(b), NEW st
    PROVE  /\ IsFiniteSet(SectionsOf(b)) /\ IsFiniteSet(Finished(b, st))
           /\ Cardinality(SectionsOf(b)) \in Nat /\ Cardinality(Finished(b, st)) \in Nat
           /\ Cardinality(Finished(b, st)) <= Cardinality(SectionsOf(b))
<1>1. Len(b) \in Nat /\ SectionsOf(b) \subseteq 1..Len(b)
  BY BodyFacts
<1>2. IsFiniteSet(1..Len(b))
  BY <1>1, FS_Interval
<1>3. IsFiniteSet(SectionsOf(b))
  BY <1>1, <1>2, FS_Subset
<1>4. Finished(b, st) \in SUBSET SectionsOf(b)
  BY DEF Finished, Known
<1> QED  BY <1>3, <1>4, FS_Subset, FS_CardinalityType

\* Nothing is done by a step that finds or enters a section, or leaves one undone.
LEMMA FinishedStays ==
    ASSUME NEW b, NEW st, NEW s,
           DOMAIN st \subseteq DOMAIN s, \A i \in DOMAIN s : IsDone(s[i]) <=> i \in DOMAIN st /\ IsDone(st[i])
    PROVE  Finished(b, s) = Finished(b, st)
BY DEF Finished, Known

\* One more is done.
LEMMA FinishedGrows ==
    ASSUME NEW b, WellNested(b), NEW st, NEW s, NEW c \in SectionsOf(b), NEW p, IsEnded(st, s, c, p), ~ IsDone(st[c])
    PROVE  Cardinality(Finished(b, s)) = Cardinality(Finished(b, st)) + 1
<1>1. /\ c \in DOMAIN st /\ DOMAIN s = DOMAIN st /\ IsDone(s[c])
      /\ st[p] = "ExecutingChildren" /\ (s[p] = "ExecutingChildren" \/ s[p] = "NeedsAnotherRun")
      /\ \A i \in DOMAIN st : i # c /\ i # p => s[i] = st[i]
  BY Zenon DEF IsEnded
<1>2. ~ IsDone(s[p]) /\ ~ IsDone(st[p])
  BY <1>1 DEF IsDone
<1>3. \A i \in DOMAIN st : IsDone(s[i]) <=> IsDone(st[i]) \/ i = c
  BY <1>1, <1>2, Zenon
<1>4. Finished(b, s) = Finished(b, st) \cup {c} /\ c \notin Finished(b, st)
  BY <1>1, <1>3 DEF Finished, Known
<1>5. IsFiniteSet(Finished(b, st))
  BY FinishedFacts
<1> QED  BY <1>4, <1>5, FS_AddElement

-----------------------------------------------------------------------------
(***************************************************************************)
(* What the operations of the tracker do, as shown by the sections.        *)
(***************************************************************************)
\* The last known section directly in c, if there is one, is done.
LastDone(b, st, c) ==
    \/ \A j \in Known(b, st) : Inner(b, j) # c
    \/ \E j \in Known(b, st) : /\ Inner(b, j) = c /\ IsDone(st[j])
                               /\ \A i \in Known(b, st) : Inner(b, i) = c => i <= j

\* The fields of a tracker context.
Fields == {"nodes", "current", "run", "illogical"}
Parts  == {"state", "children"}

\* A path starts with the test; a section's is that of the one around it and its key.
LEMMA PathFacts ==
    ASSUME NEW b, NEW name, NEW path, NEW st, KnowsSections(b, st), HasPaths(b, name, path, st), NEW i \in DOMAIN st
    PROVE  /\ IsSequence(path[i]) /\ Len(path[i]) \in Nat \ {0} /\ path[i] # Root
           /\ i = 0 => path[i] = <<name>> /\ Len(path[i]) = 1
           /\ i # 0 => /\ Inner(b, i) \in DOMAIN st
                       /\ path[i] = Append(path[Inner(b, i)], SectionKey(b[i]))
                       /\ Len(path[i]) = Len(path[Inner(b, i)]) + 1 /\ Len(path[i]) > 1
                       /\ Front(path[i]) = path[Inner(b, i)] /\ Last(path[i]) = SectionKey(b[i])
<1>1. \A j \in DOMAIN st : IsSequence(path[j])
  BY Zenon DEF HasPaths, IsSequence
<1>2. \A j \in DOMAIN st : path[j] = IF j = 0 THEN <<name>> ELSE Append(path[Inner(b, j)], SectionKey(b[j]))
  BY Zenon DEF HasPaths
<1>3. \A j \in DOMAIN st : j # 0 => Inner(b, j) \in DOMAIN st
  BY Zenon DEF KnowsSections
<1>4. ASSUME NEW s, IsSequence(s), NEW v
      PROVE  /\ Len(s) \in Nat /\ Len(Append(s, v)) = Len(s) + 1
             /\ Front(Append(s, v)) = s /\ Last(Append(s, v)) = v
  <2> DEFINE S == {s[n] : n \in DOMAIN s} \cup {v}
  <2>1. s \in Seq(S) /\ v \in S
    BY <1>4, SeqMonotonic DEF IsSequence
  <2> HIDE DEF S
  <2>2. Len(s) \in Nat /\ Len(Append(s, v)) = Len(s) + 1 /\ Last(Append(s, v)) = v
    BY <2>1, AppendProperties, LenProperties DEF Last
  <2>3. SubSeq(Append(s, v), 1, Len(s)) = s
    BY <2>1
  <2> QED  BY <2>2, <2>3 DEF Front
<1>5. \A j \in DOMAIN st : Len(path[j]) \in Nat \ {0}
  <2> SUFFICES ASSUME NEW j \in DOMAIN st PROVE Len(path[j]) \in Nat \ {0}
    OBVIOUS
  <2>1. CASE j = 0
    BY <1>2, <2>1
  <2>2. CASE j # 0
    <3>1. path[j] = Append(path[Inner(b, j)], SectionKey(b[j])) /\ IsSequence(path[Inner(b, j)])
      BY <1>1, <1>2, <1>3, <2>2, Zenon
    <3>2. Len(path[Inner(b, j)]) \in Nat /\ Len(path[j]) = Len(path[Inner(b, j)]) + 1
      BY <1>4, <3>1
    <3> QED  BY <3>2
  <2> QED  BY <2>1, <2>2
<1>6. path[i] # Root
  BY <1>5 DEF Root
<1>7. i = 0 => path[i] = <<name>> /\ Len(path[i]) = 1
  BY <1>2
<1>8. ASSUME i # 0
      PROVE  /\ Inner(b, i) \in DOMAIN st
             /\ path[i] = Append(path[Inner(b, i)], SectionKey(b[i]))
             /\ Len(path[i]) = Len(path[Inner(b, i)]) + 1 /\ Len(path[i]) > 1
             /\ Front(path[i]) = path[Inner(b, i)] /\ Last(path[i]) = SectionKey(b[i])
  <2>1. Inner(b, i) \in DOMAIN st /\ path[i] = Append(path[Inner(b, i)], SectionKey(b[i]))
    BY <1>2, <1>3, <1>8, Zenon
  <2>2. IsSequence(path[Inner(b, i)]) /\ Len(path[Inner(b, i)]) \in Nat \ {0}
    BY <1>1, <1>5, <2>1, Zenon
  <2>3. /\ Len(path[i]) = Len(path[Inner(b, i)]) + 1
        /\ Front(path[i]) = path[Inner(b, i)] /\ Last(path[i]) = SectionKey(b[i])
    BY <1>4, <2>1, <2>2
  <2> QED  BY <2>1, <2>2, <2>3
<1> QED  BY <1>1, <1>5, <1>6, <1>7, <1>8

\* Names and lines tell sections apart, so their keys do.
LEMMA KeysDiffer ==
    ASSUME NEW b, WellNested(b), NEW i \in SectionsOf(b), NEW j \in SectionsOf(b), SectionKey(b[i]) = SectionKey(b[j])
    PROVE  i = j
<1>1. b[i].name = b[j].name /\ b[i].line = b[j].line
  BY DEF SectionKey
<1>2. i \in Nat /\ j \in Nat
  BY BodyFacts
<1>3. ~ (i < j) /\ ~ (j < i)
  BY <1>1, Zenon DEF WellNested
<1> QED  BY <1>2, <1>3

\* A path leads to one section, known or not.
LEMMA PathIsOf ==
    ASSUME NEW b, WellNested(b), NEW name, NEW path, NEW st, KnowsSections(b, st), HasPaths(b, name, path, st),
           NEW i \in DOMAIN st
    PROVE  /\ \A j \in DOMAIN st : path[i] = path[j] => i = j
           /\ \A k \in SectionsOf(b) : \A c \in DOMAIN st : path[i] = Append(path[c], SectionKey(b[k])) => i = k
<1>1. ASSUME NEW k \in SectionsOf(b), NEW c \in DOMAIN st, path[i] = Append(path[c], SectionKey(b[k]))
      PROVE  i = k
  <2>1. IsSequence(path[c]) /\ Len(path[c]) \in Nat \ {0}
    BY PathFacts
  <2> DEFINE S == {path[c][n] : n \in DOMAIN path[c]} \cup {SectionKey(b[k])}
  <2>2. path[c] \in Seq(S) /\ SectionKey(b[k]) \in S
    BY <2>1, SeqMonotonic DEF IsSequence
  <2> HIDE DEF S
  <2>3. Len(path[i]) = Len(path[c]) + 1 /\ Last(path[i]) = SectionKey(b[k])
    BY <1>1, <2>2, AppendProperties, LenProperties DEF Last
  <2>4. i # 0
    BY <2>1, <2>3, PathFacts
  <2>5. i \in SectionsOf(b) /\ Last(path[i]) = SectionKey(b[i])
    BY <2>4, PathFacts DEF KnowsSections
  <2> QED  BY <2>3, <2>5, KeysDiffer
<1>2. ASSUME NEW j \in DOMAIN st, path[i] = path[j]
      PROVE  i = j
  <2>1. CASE j = 0
    <3>1. Len(path[i]) = 1
      BY <1>2, <2>1, PathFacts
    <3> QED  BY <2>1, <3>1, PathFacts
  <2>2. CASE j # 0
    <3>1. j \in SectionsOf(b) /\ Inner(b, j) \in DOMAIN st /\ path[j] = Append(path[Inner(b, j)], SectionKey(b[j]))
      BY <2>2, PathFacts DEF KnowsSections
    <3> QED  BY <1>1, <1>2, <3>1
  <2> QED  BY <2>1, <2>2
<1> QED  BY <1>1, <1>2

\* The tests known to the tracker are at the paths, and there is the root.
LEMMA ShowsFacts ==
    ASSUME NEW t, NEW b, NEW name, NEW path, NEW st, Shows(t, b, name, path, st)
    PROVE  /\ DOMAIN t = Fields /\ ~ t.illogical
           /\ KnowsSections(b, st) /\ HasPaths(b, name, path, st)
           /\ DOMAIN t.nodes = {Root} \cup {path[i] : i \in DOMAIN st}
           /\ \A p \in DOMAIN t.nodes : DOMAIN t.nodes[p] = Parts
           /\ \A i \in DOMAIN st : /\ path[i] \in DOMAIN t.nodes /\ t.nodes[path[i]].state = st[i]
                                   /\ HasChildren(b, st, i, t.nodes[path[i]].children)
           /\ IsSequence(t.nodes[Root].children)
<1>1. HasNodes(b, path, st, t.nodes)
  BY Zenon DEF Shows
<1>2. \A i \in DOMAIN st : path[i] \in DOMAIN t.nodes
  BY <1>1 DEF HasNodes
<1> QED  BY <1>1, <1>2, Zenon DEF Shows, HasNodes, Fields, Parts, IsSequence

\* Paths and children depend on which sections are known, not on their states.
LEMMA PathsStay ==
    ASSUME NEW b, NEW name, NEW path, NEW st, HasPaths(b, name, path, st), NEW s, DOMAIN s = DOMAIN st
    PROVE  HasPaths(b, name, path, s)
BY Zenon DEF HasPaths

LEMMA ChildrenStay ==
    ASSUME NEW b, NEW i, NEW children, NEW st, HasChildren(b, st, i, children), NEW s, DOMAIN s = DOMAIN st
    PROVE  HasChildren(b, s, i, children)
<1>1. Known(b, s) = Known(b, st)
  BY Zenon DEF Known
<1> QED  BY <1>1, Zenon DEF HasChildren

\* The states change, and nothing else of the nodes.
LEMMA ShowsStates ==
    ASSUME NEW t, NEW b, NEW name, NEW path, NEW st, Shows(t, b, name, path, st), NEW u, NEW s,
           DOMAIN s = DOMAIN st, \A i \in DOMAIN st : s[i] \in States,
           DOMAIN u = Fields, ~ u.illogical, DOMAIN u.nodes = DOMAIN t.nodes,
           \A p \in DOMAIN t.nodes : DOMAIN u.nodes[p] = Parts /\ u.nodes[p].children = t.nodes[p].children,
           \A i \in DOMAIN st : u.nodes[path[i]].state = s[i]
    PROVE  Shows(u, b, name, path, s)
<1>1. /\ KnowsSections(b, st) /\ HasPaths(b, name, path, st)
      /\ DOMAIN t.nodes = {Root} \cup {path[i] : i \in DOMAIN st}
      /\ \A i \in DOMAIN st : path[i] \in DOMAIN t.nodes /\ HasChildren(b, st, i, t.nodes[path[i]].children)
      /\ IsSequence(t.nodes[Root].children)
  BY ShowsFacts
<1>2. KnowsSections(b, s)
  BY <1>1, Zenon DEF KnowsSections
<1>3. HasPaths(b, name, path, s)
  BY <1>1, PathsStay, Zenon
<1>4. \A i \in DOMAIN s : HasChildren(b, s, i, u.nodes[path[i]].children)
  <2> SUFFICES ASSUME NEW i \in DOMAIN s PROVE HasChildren(b, s, i, u.nodes[path[i]].children)
    BY Zenon
  <2>1. HasChildren(b, st, i, t.nodes[path[i]].children) /\ u.nodes[path[i]].children = t.nodes[path[i]].children
    BY <1>1, Zenon
  <2> QED  BY <2>1, ChildrenStay, Zenon
<1>5. Root \in DOMAIN t.nodes
  BY <1>1
<1>6. HasNodes(b, path, s, u.nodes)
  <2>1. DOMAIN u.nodes = {Root} \cup {path[i] : i \in DOMAIN s}
    BY <1>1, Zenon
  <2>2. IsSequence(u.nodes[Root].children)
    BY <1>1, <1>5, Zenon
  <2> QED  BY <1>4, <2>1, <2>2, Zenon DEF HasNodes, Parts, IsSequence
<1> QED  BY <1>2, <1>3, <1>6, Zenon DEF Shows, Fields

\* In u the tracker at p has the state v, and all else is as it is in t.
StateIsSet(t, u, p, v) ==
    /\ DOMAIN u = Fields /\ u.current = t.current /\ u.run = t.run /\ u.illogical = t.illogical
    /\ DOMAIN u.nodes = DOMAIN t.nodes
    /\ \A q \in DOMAIN t.nodes : q # p => u.nodes[q] = t.nodes[q]
    /\ DOMAIN u.nodes[p] = Parts /\ u.nodes[p].children = t.nodes[p].children /\ u.nodes[p].state = v

\* What SetState leaves alone.
LEMMA SetStateFacts ==
    ASSUME NEW t, DOMAIN t = Fields, NEW p \in DOMAIN t.nodes, NEW v, DOMAIN t.nodes[p] = Parts
    PROVE  StateIsSet(t, SetState(t, p, v), p, v)
<1> DEFINE node == [t.nodes[p] EXCEPT !.state = v]
           nodes == [t.nodes EXCEPT ![p] = node]
           u == [t EXCEPT !.nodes = nodes]
<1>1. SetState(t, p, v) = u
  BY Zenon DEF SetState
<1>2. DOMAIN node = Parts /\ node.children = t.nodes[p].children /\ node.state = v
  BY Zenon DEF Parts
<1> HIDE DEF node
<1>3. DOMAIN nodes = DOMAIN t.nodes /\ nodes[p] = node /\ \A q \in DOMAIN t.nodes : q # p => nodes[q] = t.nodes[q]
  BY Zenon
<1> HIDE DEF nodes
<1>4. /\ DOMAIN u = Fields /\ u.current = t.current /\ u.run = t.run /\ u.illogical = t.illogical
      /\ u.nodes = nodes
  BY Zenon DEF Fields
<1> HIDE DEF u
<1> QED  BY <1>1, <1>2, <1>3, <1>4, Zenon DEF StateIsSet

\* Closing c is to end it: it was run to its end now, or the last section known in it is done.
MayEnd(b, st, c) == st[c] = "Executing" \/ (st[c] = "ExecutingChildren" /\ LastDone(b, st, c))

\* The section c ended, with the state v.
EndsAs(st, s, c, v) ==
    /\ DOMAIN s = DOMAIN st /\ s[c] = v
    /\ \A i \in DOMAIN st : i # c => s[i] = st[i]

\* Closing the current section: it ends if it may, or stays as it is.
LEMMA CloseShows ==
    ASSUME NEW t, NEW b, WellNested(b), NEW name, NEW path, NEW st, NEW c,
           Shows(t, b, name, path, st), Way(t, b, path, st, c), NEW u, u = close(t, path[c])
    PROVE  /\ u.run = "CompletedCycle" /\ u.current = Front(path[c])
           /\ IF MayEnd(b, st, c)
              THEN \E s : Shows(u, b, name, path, s) /\ EndsAs(st, s, c, "CompletedSuccessfully")
              ELSE Shows(u, b, name, path, st)
<1> DEFINE p == path[c]
           last == Append(p, Last(t.nodes[p].children))
           done == \/ t.nodes[p].state = "Executing"
                   \/ t.nodes[p].state = "ExecutingChildren" /\ (t.nodes[p].children = << >> \/ isComplete(t, last))
           closed == IF done THEN SetState(t, p, "CompletedSuccessfully") ELSE t
           up == [closed EXCEPT !.current = Front(p)]
           v == [up EXCEPT !.run = "CompletedCycle"]
           s == [st EXCEPT ![c] = "CompletedSuccessfully"]
<1>1. /\ c \in DOMAIN st /\ t.current = p
      /\ st[c] = "Executing" \/ st[c] = "ExecutingChildren" \/ st[c] = "NeedsAnotherRun"
  BY Zenon DEF Way
<1>2. /\ DOMAIN t = Fields /\ KnowsSections(b, st) /\ HasPaths(b, name, path, st)
      /\ \A q \in DOMAIN t.nodes : DOMAIN t.nodes[q] = Parts
      /\ \A i \in DOMAIN st : path[i] \in DOMAIN t.nodes /\ t.nodes[path[i]].state = st[i]
      /\ HasChildren(b, st, c, t.nodes[p].children)
      /\ ~ t.illogical
  BY <1>1, ShowsFacts
<1>3. u = v
  <2>1. t.nodes[p].state # "NotStarted" /\ t.nodes[p].state # "CompletedSuccessfully" /\ t.nodes[p].state # "Failed"
    BY <1>1, <1>2
  <2> QED  BY <1>1, <2>1, Zenon DEF close, completeCycle
<1>4. t.nodes[p].children # << >> => (isComplete(t, last) <=> LastDone(b, st, c))
  <2> SUFFICES ASSUME t.nodes[p].children # << >> PROVE isComplete(t, last) <=> LastDone(b, st, c)
    OBVIOUS
  <2>1. PICK j \in Known(b, st) : /\ Inner(b, j) = c /\ Last(t.nodes[p].children) = SectionKey(b[j])
                                  /\ \A k \in Known(b, st) : Inner(b, k) = c => k <= j
    BY <1>2, Zenon DEF HasChildren
  <2>2. j \in DOMAIN st /\ j \in SectionsOf(b) /\ j # 0 /\ j \in Nat
    BY <2>1, InnerIsBefore DEF Known
  <2>3. path[j] = last
    BY <1>2, <2>1, <2>2, PathFacts
  <2>4. isComplete(t, last) <=> IsDone(st[j])
    BY <1>2, <2>2, <2>3 DEF isComplete, IsDone
  <2>5. \A i \in Known(b, st) : i \in Nat
    BY InnerIsBefore DEF Known
  <2>6. ASSUME NEW i \in Known(b, st), Inner(b, i) = c, \A k \in Known(b, st) : Inner(b, k) = c => k <= i
        PROVE  i = j
    BY <2>1, <2>2, <2>5, <2>6
  <2> HIDE DEF last
  <2> QED  BY <2>1, <2>4, <2>6, Zenon DEF LastDone
<1>5. t.nodes[p].children = << >> => LastDone(b, st, c)
  BY <1>2, Zenon DEF HasChildren, LastDone
<1>6. done <=> MayEnd(b, st, c)
  <2>1. t.nodes[p].state = st[c]
    BY <1>1, <1>2, Zenon
  <2> HIDE DEF last, p
  <2> QED  BY <1>4, <1>5, <2>1, Zenon DEF MayEnd
<1> HIDE DEF done, last
<1>7. p \in DOMAIN t.nodes /\ DOMAIN t.nodes[p] = Parts
  BY <1>1, <1>2
<1>8. DOMAIN closed = Fields /\ closed.illogical = t.illogical
  <2>1. CASE done
    <3>1. closed = SetState(t, p, "CompletedSuccessfully")
      BY <2>1
    <3> HIDE DEF closed, p
    <3>2. StateIsSet(t, closed, p, "CompletedSuccessfully")
      BY <1>2, <1>7, <3>1, SetStateFacts, Zenon
    <3> QED  BY <3>2, Zenon DEF StateIsSet
  <2>2. CASE ~ done
    BY <1>2, <2>2
  <2> QED  BY <2>1, <2>2
<1> HIDE DEF closed
<1>9. /\ DOMAIN v = Fields /\ v.illogical = closed.illogical /\ v.nodes = closed.nodes
      /\ v.run = "CompletedCycle" /\ v.current = Front(p)
  BY <1>8, Zenon DEF Fields
<1> HIDE DEF v
<1>10. CASE done
  <2>1. closed = SetState(t, p, "CompletedSuccessfully")
    BY <1>10 DEF closed
  <2>2. StateIsSet(t, closed, p, "CompletedSuccessfully")
    <3> HIDE DEF p
    <3> QED  BY <1>2, <1>7, <2>1, SetStateFacts, Zenon
  <2>3. EndsAs(st, s, c, "CompletedSuccessfully")
    BY <1>1, Zenon DEF EndsAs
  <2> HIDE DEF s
  <2>4. \A i \in DOMAIN st : s[i] \in States
    <3>1. \A i \in DOMAIN st : st[i] \in States
      BY <1>2, Zenon DEF KnowsSections
    <3> QED  BY <2>3, <3>1 DEF States, EndsAs
  <2>5. \A i \in DOMAIN st : v.nodes[path[i]].state = s[i]
    <3>1. \A i \in DOMAIN st : i # c => path[i] # p
      BY <1>1, <1>2, PathIsOf
    <3> HIDE DEF p
    <3>2. p = path[c]
      BY DEF p
    <3>3. v.nodes[p].state = "CompletedSuccessfully" /\ \A q \in DOMAIN t.nodes : q # p => v.nodes[q] = t.nodes[q]
      BY <1>9, <2>2, Zenon DEF StateIsSet
    <3>4. s[c] = "CompletedSuccessfully" /\ \A i \in DOMAIN st : i # c => s[i] = st[i]
      BY <2>3, Zenon DEF EndsAs
    <3> SUFFICES ASSUME NEW i \in DOMAIN st PROVE v.nodes[path[i]].state = s[i]
      BY Zenon
    <3>5. CASE i = c
      BY <3>2, <3>3, <3>4, <3>5, Zenon
    <3>6. CASE i # c
      <4>1. path[i] \in DOMAIN t.nodes /\ t.nodes[path[i]].state = st[i] /\ path[i] # p
        BY <1>2, <3>1, <3>6, Zenon
      <4> QED  BY <3>3, <3>4, <3>6, <4>1, Zenon
    <3> QED  BY <3>5, <3>6, Zenon
  <2>6. \A q \in DOMAIN t.nodes : DOMAIN v.nodes[q] = Parts /\ v.nodes[q].children = t.nodes[q].children
    BY <1>2, <1>9, <2>2, Zenon DEF StateIsSet
  <2>7. DOMAIN v = Fields /\ ~ v.illogical /\ DOMAIN v.nodes = DOMAIN t.nodes /\ DOMAIN s = DOMAIN st
    BY <1>2, <1>8, <1>9, <2>2, <2>3, Zenon DEF StateIsSet, EndsAs
  <2>8. Shows(v, b, name, path, s)
    BY <2>4, <2>5, <2>6, <2>7, ShowsStates
  <2> QED  BY <1>3, <1>6, <1>9, <1>10, <2>3, <2>8, Zenon
<1>11. CASE ~ done
  <2>1. closed = t
    BY <1>11 DEF closed
  <2>2. \A i \in DOMAIN st : st[i] \in States
    BY <1>2, Zenon DEF KnowsSections
  <2>3. Shows(v, b, name, path, st)
    BY <1>2, <1>8, <1>9, <2>1, <2>2, ShowsStates
  <2> QED  BY <1>3, <1>6, <1>9, <1>11, <2>3, Zenon
<1> QED  BY <1>10, <1>11

\* A section fails, and the one around it needs another run.
FailsAs(st, s, c, p) ==
    /\ DOMAIN s = DOMAIN st /\ s[c] = "Failed" /\ s[p] = "NeedsAnotherRun"
    /\ \A i \in DOMAIN st : i # c /\ i # p => s[i] = st[i]

\* The innermost section fails on the way of an exception.
LEMMA FailShows ==
    ASSUME NEW t, NEW b, WellNested(b), NEW name, NEW path, NEW st, NEW c \in SectionsOf(b), c \in DOMAIN st,
           Shows(t, b, name, path, st), NEW u, u = fail(t, path[c])
    PROVE  /\ u.run = "CompletedCycle" /\ u.current = path[Inner(b, c)]
           /\ \E s : Shows(u, b, name, path, s) /\ FailsAs(st, s, c, Inner(b, c))
<1> DEFINE d == Inner(b, c)
           p == path[c]
           q == path[d]
           one == SetState(t, p, "Failed")
           two == SetState(one, q, "NeedsAnotherRun")
           v == [[two EXCEPT !.current = Front(p)] EXCEPT !.run = "CompletedCycle"]
           s == [[st EXCEPT ![c] = "Failed"] EXCEPT ![d] = "NeedsAnotherRun"]
<1>1. c # 0 /\ c \in Nat /\ d # c
  BY InnerIsBefore
<1>2. /\ DOMAIN t = Fields /\ KnowsSections(b, st) /\ HasPaths(b, name, path, st)
      /\ \A r \in DOMAIN t.nodes : DOMAIN t.nodes[r] = Parts
      /\ \A i \in DOMAIN st : path[i] \in DOMAIN t.nodes /\ t.nodes[path[i]].state = st[i]
      /\ ~ t.illogical
  BY ShowsFacts
<1>3. d \in DOMAIN st /\ Front(p) = q
  BY <1>1, <1>2, PathFacts
<1>4. \A i \in DOMAIN st : (i # c => path[i] # p) /\ (i # d => path[i] # q)
  BY <1>2, <1>3, PathIsOf
<1>5. p \in DOMAIN t.nodes /\ q \in DOMAIN t.nodes /\ p # q
  BY <1>1, <1>2, <1>3, <1>4
<1> HIDE DEF d
<1>6. u = v
  BY <1>3, Zenon DEF fail, completeCycle
<1>7. p = path[c] /\ q = path[d]
  BY DEF p, q
<1> HIDE DEF p, q
<1>8. StateIsSet(t, one, p, "Failed")
  BY <1>2, <1>5, SetStateFacts, Zenon
<1> HIDE DEF one
<1>9. DOMAIN one = Fields /\ q \in DOMAIN one.nodes /\ DOMAIN one.nodes[q] = Parts
  BY <1>2, <1>5, <1>8, Zenon DEF StateIsSet
<1>10. StateIsSet(one, two, q, "NeedsAnotherRun")
  BY <1>9, SetStateFacts, Zenon
<1> HIDE DEF two
<1>11. /\ DOMAIN v = Fields /\ v.illogical = two.illogical /\ v.nodes = two.nodes
       /\ v.run = "CompletedCycle" /\ v.current = q
  <2>1. DOMAIN two = Fields
    BY <1>10, Zenon DEF StateIsSet
  <2> QED  BY <1>3, <2>1, Zenon DEF Fields
<1> HIDE DEF v
<1>12. FailsAs(st, s, c, d)
  BY <1>1, <1>3, Zenon DEF FailsAs
<1> HIDE DEF s
<1>13. \A i \in DOMAIN st : s[i] \in States
  <2>1. \A i \in DOMAIN st : st[i] \in States
    BY <1>2, Zenon DEF KnowsSections
  <2> QED  BY <1>12, <2>1 DEF States, FailsAs
<1>14. \A i \in DOMAIN st : v.nodes[path[i]].state = s[i]
  <2> SUFFICES ASSUME NEW i \in DOMAIN st PROVE v.nodes[path[i]].state = s[i]
    BY Zenon
  <2>1. CASE i = c
    <3>1. one.nodes[p].state = "Failed" /\ two.nodes[p] = one.nodes[p]
      BY <1>5, <1>8, <1>10, Zenon DEF StateIsSet
    <3>2. s[c] = "Failed"
      BY <1>12, Zenon DEF FailsAs
    <3> QED  BY <1>7, <1>11, <2>1, <3>1, <3>2, Zenon
  <2>2. CASE i = d
    BY <1>7, <1>10, <1>11, <1>12, <2>2, Zenon DEF StateIsSet, FailsAs
  <2>3. CASE i # c /\ i # d
    <3>1. path[i] \in DOMAIN t.nodes /\ path[i] # p /\ path[i] # q
      BY <1>2, <1>4, <2>3, Zenon
    <3>2. two.nodes[path[i]] = t.nodes[path[i]]
      BY <1>8, <1>10, <3>1, Zenon DEF StateIsSet
    <3> QED  BY <1>2, <1>11, <1>12, <2>3, <3>2, Zenon DEF FailsAs
  <2> QED  BY <2>1, <2>2, <2>3
<1>15. \A r \in DOMAIN t.nodes : DOMAIN v.nodes[r] = Parts /\ v.nodes[r].children = t.nodes[r].children
  <2> SUFFICES ASSUME NEW r \in DOMAIN t.nodes
               PROVE  DOMAIN v.nodes[r] = Parts /\ v.nodes[r].children = t.nodes[r].children
    BY Zenon
  <2>1. DOMAIN one.nodes[r] = Parts /\ one.nodes[r].children = t.nodes[r].children /\ r \in DOMAIN one.nodes
    BY <1>2, <1>8, Zenon DEF StateIsSet
  <2>2. DOMAIN two.nodes[r] = Parts /\ two.nodes[r].children = one.nodes[r].children
    BY <1>10, <2>1, Zenon DEF StateIsSet
  <2> QED  BY <1>11, <2>1, <2>2, Zenon
<1>16. DOMAIN v = Fields /\ ~ v.illogical /\ DOMAIN v.nodes = DOMAIN t.nodes /\ DOMAIN s = DOMAIN st
  BY <1>2, <1>8, <1>10, <1>11, <1>12, Zenon DEF StateIsSet, FailsAs
<1>17. Shows(v, b, name, path, s)
  BY <1>13, <1>14, <1>15, <1>16, ShowsStates
<1> QED  BY <1>6, <1>7, <1>11, <1>12, <1>17, Zenon DEF d

\* The prefixes of a section's path are the paths of the sections around it.
LEMMA PrefixIsPath ==
    ASSUME NEW b, WellNested(b), NEW name, NEW path, NEW st, KnowsSections(b, st), HasPaths(b, name, path, st),
           NEW c \in DOMAIN st
    PROVE  \A n \in 1..Len(path[c]) :
              \E i \in Around(b, c) \cup {c} : i \in DOMAIN st /\ path[i] = SubSeq(path[c], 1, n)
<1> DEFINE Good(k) == \A n \in 1..Len(path[k]) :
                         \E i \in Around(b, k) \cup {k} : i \in DOMAIN st /\ path[i] = SubSeq(path[k], 1, n)
           bad == {k \in DOMAIN st : ~ Good(k)}
<1>1. DOMAIN st \subseteq {0} \cup SectionsOf(b) /\ SectionsOf(b) \subseteq 1..Len(b) /\ Len(b) \in Nat
  BY BodyFacts, Zenon DEF KnowsSections
<1>2. bad \in SUBSET Nat
  BY <1>1
<1>3. bad = {}
  <2> SUFFICES ASSUME bad # {} PROVE FALSE
    OBVIOUS
  <2>1. PICK k \in bad : \A j \in bad : k <= j
    BY <1>2, HasLeast, Zenon
  <2>2. k \in DOMAIN st /\ ~ Good(k)
    BY <2>1
  <2>3. PICK n \in 1..Len(path[k]) : ~ \E i \in Around(b, k) \cup {k} : i \in DOMAIN st /\ path[i] = SubSeq(path[k], 1, n)
    BY <2>2
  <2>4. IsSequence(path[k]) /\ Len(path[k]) \in Nat \ {0}
    BY <2>2, PathFacts
  <2>5. SubSeq(path[k], 1, Len(path[k])) = path[k]
    BY <2>4 DEF IsSequence
  <2>6. n # Len(path[k])
    BY <2>2, <2>3, <2>5
  <2>7. k # 0
    <3> SUFFICES ASSUME k = 0 PROVE FALSE
      OBVIOUS
    <3>1. Len(path[k]) = 1
      BY <2>2, PathFacts
    <3> QED  BY <2>6, <3>1
  <2> DEFINE d == Inner(b, k)
  <2>8. d \in DOMAIN st /\ path[k] = Append(path[d], SectionKey(b[k])) /\ Len(path[k]) = Len(path[d]) + 1
    BY <2>2, <2>7, PathFacts
  <2>9. k \in SectionsOf(b) /\ d < k /\ d \in Nat /\ k \in Nat /\ k \in 1..(Len(b) + 1)
    <3>1. k \in SectionsOf(b)
      BY <1>1, <2>2, <2>7
    <3> QED  BY <1>1, <3>1, InnerIsBefore
  <2>10. Around(b, k) = Around(b, d) \cup {d}
    BY <2>9, AroundFacts
  <2> HIDE DEF d
  <2>11. IsSequence(path[d]) /\ Len(path[d]) \in Nat \ {0}
    BY <2>8, PathFacts
  <2>12. n \in 1..Len(path[d])
    BY <2>6, <2>8, <2>11
  <2>13. SubSeq(path[k], 1, n) = SubSeq(path[d], 1, n)
    <3>1. path[d] \in Seq({path[d][m] : m \in DOMAIN path[d]} \cup {SectionKey(b[k])})
      BY <2>11, SeqMonotonic DEF IsSequence
    <3> QED  BY <2>8, <2>12, <3>1
  <2>14. d \notin bad
    <3> SUFFICES ASSUME d \in bad PROVE FALSE
      OBVIOUS
    <3> HIDE DEF bad
    <3>1. k <= d
      BY <2>1
    <3> QED  BY <2>9, <3>1
  <2>15. Good(d)
    BY <2>8, <2>14
  <2>16. PICK i \in Around(b, d) \cup {d} : i \in DOMAIN st /\ path[i] = SubSeq(path[d], 1, n)
    BY <2>12, <2>15
  <2> QED  BY <2>3, <2>10, <2>13, <2>16
<1> QED  BY <1>3

\* The first part of acquire: the child of that key is found, or added.
Found(t, p, key) ==
    IF p \in DOMAIN t.nodes THEN t
    ELSE [t EXCEPT !.nodes = [q \in DOMAIN @ \cup {p} |->
             IF q = p THEN NewTracker ELSE IF q = t.current THEN addChild(@[q], key) ELSE @[q]]]

LEMMA AcquireIs ==
    ASSUME NEW t, NEW key, NEW p, p = Append(t.current, key), NEW f, f = Found(t, p, key)
    PROVE  acquire(t, key) = IF completedCycle(f) \/ isComplete(f, p) THEN f ELSE open(f, p)
BY Zenon DEF acquire, Found

\* What the addition leaves alone.
IsAdded(t, f, p, key) ==
    /\ DOMAIN f = Fields /\ f.current = t.current /\ f.run = t.run /\ f.illogical = t.illogical
    /\ DOMAIN f.nodes = DOMAIN t.nodes \cup {p}
    /\ DOMAIN f.nodes[p] = Parts /\ f.nodes[p].state = "NotStarted" /\ f.nodes[p].children = << >>
    /\ \A q \in DOMAIN t.nodes : /\ DOMAIN f.nodes[q] = Parts /\ f.nodes[q].state = t.nodes[q].state
                                 /\ q # t.current => f.nodes[q].children = t.nodes[q].children
    /\ f.nodes[t.current].children = Append(t.nodes[t.current].children, key)

LEMMA FoundIsAdded ==
    ASSUME NEW t, DOMAIN t = Fields, \A q \in DOMAIN t.nodes : DOMAIN t.nodes[q] = Parts,
           t.current \in DOMAIN t.nodes, NEW p, p \notin DOMAIN t.nodes, NEW key
    PROVE  IsAdded(t, Found(t, p, key), p, key)
<1> DEFINE old(q) == IF q = t.current THEN addChild(t.nodes[q], key) ELSE t.nodes[q]
           nodes == [q \in DOMAIN t.nodes \cup {p} |-> IF q = p THEN NewTracker ELSE old(q)]
           f == [t EXCEPT !.nodes = nodes]
<1>1. Found(t, p, key) = f
  BY Zenon DEF Found
<1>2. DOMAIN NewTracker = Parts /\ NewTracker.state = "NotStarted" /\ NewTracker.children = << >>
  BY Zenon DEF NewTracker, Parts
<1>3. ASSUME NEW q \in DOMAIN t.nodes
      PROVE  /\ DOMAIN old(q) = Parts /\ old(q).state = t.nodes[q].state
             /\ q # t.current => old(q).children = t.nodes[q].children
             /\ q = t.current => old(q).children = Append(t.nodes[q].children, key)
  <2>1. DOMAIN t.nodes[q] = Parts
    BY Zenon
  <2> QED  BY <2>1, Zenon DEF Parts, addChild
<1> HIDE DEF old
<1>4. DOMAIN nodes = DOMAIN t.nodes \cup {p} /\ nodes[p] = NewTracker /\ \A q \in DOMAIN t.nodes : nodes[q] = old(q)
  <2>1. \A q \in DOMAIN t.nodes : q # p
    BY Zenon
  <2> QED  BY <2>1
<1> HIDE DEF nodes
<1>5. DOMAIN f = Fields /\ f.current = t.current /\ f.run = t.run /\ f.illogical = t.illogical /\ f.nodes = nodes
  BY Zenon DEF Fields
<1> HIDE DEF f
<1> QED  BY <1>1, <1>2, <1>3, <1>4, <1>5, Zenon DEF IsAdded

\* All but the last element of a sequence.
LEMMA FrontFacts ==
    ASSUME NEW s, IsSequence(s), s # << >>
    PROVE  /\ IsSequence(Front(s)) /\ Len(Front(s)) \in Nat /\ Len(s) = Len(Front(s)) + 1
           /\ \A n \in 0..Len(Front(s)) : SubSeq(Front(s), 1, n) = SubSeq(s, 1, n)
           /\ \A n \in 1..Len(Front(s)) : Front(s)[n] = s[n]
<1> DEFINE S == {s[n] : n \in DOMAIN s}
<1>1. s \in Seq(S)
  BY DEF IsSequence
<1> HIDE DEF S
<1>2. Len(s) \in Nat \ {0}
  BY <1>1, EmptySeq
<1>3. PICK m \in Nat : m + 1 = Len(s)
  BY <1>2
<1>4. Front(s) = SubSeq(s, 1, m)
  BY <1>2, <1>3 DEF Front
<1>5. SubSeq(s, 1, m) \in Seq(S) /\ Len(SubSeq(s, 1, m)) = m
  BY <1>1, <1>3
<1>6. \A n \in 0..m : SubSeq(SubSeq(s, 1, m), 1, n) = SubSeq(s, 1, n)
  BY <1>1, <1>3
<1>7. \A n \in 1..m : SubSeq(s, 1, m)[n] = s[n]
  BY <1>1, <1>3
<1>8. IsSequence(SubSeq(s, 1, m))
  BY <1>5, SequenceOfAny
<1> QED  BY <1>3, <1>4, <1>5, <1>6, <1>7, <1>8, Zenon

\* In u the tracker at p is open: those of R, which its parent is in, execute children.
IsOpened(t, u, p, R) ==
    /\ DOMAIN u = Fields /\ u.current = p /\ u.run = t.run /\ u.illogical = t.illogical
    /\ DOMAIN u.nodes = DOMAIN t.nodes
    /\ R \subseteq Prefixes(Front(p)) /\ Front(p) \in R /\ p \notin R
    /\ \A q \in DOMAIN t.nodes :
          /\ DOMAIN u.nodes[q] = Parts /\ u.nodes[q].children = t.nodes[q].children
          /\ q \in R => u.nodes[q].state = "ExecutingChildren"
          /\ q = p => u.nodes[q].state = "Executing"
          /\ q \notin R /\ q # p => u.nodes[q].state = t.nodes[q].state

LEMMA OpenFacts ==
    ASSUME NEW t, DOMAIN t = Fields, \A q \in DOMAIN t.nodes : DOMAIN t.nodes[q] = Parts,
           NEW p \in DOMAIN t.nodes, IsSequence(p), p # << >>
    PROVE  \E R : IsOpened(t, open(t, p), p, R)
<1> DEFINE one == SetState(t, p, "Executing")
           two == [one EXCEPT !.current = p]
           parent == Front(p)
           R == {q \in Prefixes(parent) :
                   \A r \in Prefixes(parent) : Len(r) > Len(q) => two.nodes[r].state # "ExecutingChildren"}
           nodes == [q \in DOMAIN two.nodes |->
                       IF q \in R THEN [two.nodes[q] EXCEPT !.state = "ExecutingChildren"] ELSE two.nodes[q]]
           u == [two EXCEPT !.nodes = nodes]
<1>1. open(t, p) = u
  BY Zenon DEF open, openChild
<1>2. StateIsSet(t, one, p, "Executing")
  BY SetStateFacts, Zenon
<1> HIDE DEF one
<1>3. DOMAIN two = Fields /\ two.current = p /\ two.run = t.run /\ two.illogical = t.illogical /\ two.nodes = one.nodes
  <2>1. DOMAIN one = Fields /\ one.run = t.run /\ one.illogical = t.illogical
    BY <1>2, Zenon DEF StateIsSet
  <2> QED  BY <2>1, Zenon DEF Fields
<1> HIDE DEF two
<1>4. /\ parent \in Prefixes(parent) /\ Len(parent) \in Nat /\ Len(p) = Len(parent) + 1
      /\ \A r \in Prefixes(parent) : Len(r) \in Nat /\ Len(r) <= Len(parent)
  <2> DEFINE S == {parent[n] : n \in DOMAIN parent}
  <2>1. IsSequence(parent) /\ Len(p) = Len(parent) + 1
    BY FrontFacts, Zenon
  <2>2. parent \in Seq(S)
    BY <2>1, Zenon DEF IsSequence
  <2> HIDE DEF parent, S
  <2>3. Len(parent) \in Nat /\ SubSeq(parent, 1, Len(parent)) = parent
    BY <2>2
  <2>4. \A l \in 0..Len(parent) : Len(SubSeq(parent, 1, l)) = l
    BY <2>2, <2>3
  <2>5. Len(parent) \in 0..Len(parent)
    BY <2>3
  <2>6. parent \in Prefixes(parent)
    BY <2>3, <2>5 DEF Prefixes
  <2>7. \A r \in Prefixes(parent) : Len(r) \in Nat /\ Len(r) <= Len(parent)
    <3> SUFFICES ASSUME NEW l \in 0..Len(parent)
                 PROVE  Len(SubSeq(parent, 1, l)) \in Nat /\ Len(SubSeq(parent, 1, l)) <= Len(parent)
      BY Zenon DEF Prefixes
    <3> QED  BY <2>3, <2>4
  <2> QED  BY <2>1, <2>3, <2>6, <2>7
<1>5. parent \in R /\ p \notin R
  <2>1. \A r \in Prefixes(parent) : ~ (Len(r) > Len(parent))
    BY <1>4
  <2>2. p \notin Prefixes(parent)
    BY <1>4
  <2> HIDE DEF parent
  <2> QED  BY <1>4, <2>1, <2>2, Zenon
<1>6. R \subseteq Prefixes(parent)
  OBVIOUS
<1> HIDE DEF R, parent
<1>7. /\ DOMAIN nodes = DOMAIN two.nodes
      /\ \A q \in DOMAIN two.nodes : nodes[q] = IF q \in R THEN [two.nodes[q] EXCEPT !.state = "ExecutingChildren"] ELSE two.nodes[q]
  BY Zenon
<1> HIDE DEF nodes
<1>8. /\ DOMAIN u = Fields /\ u.current = p /\ u.run = t.run /\ u.illogical = t.illogical /\ u.nodes = nodes
  BY <1>3, Zenon DEF Fields
<1> HIDE DEF u
<1>9. ASSUME NEW q \in DOMAIN t.nodes
      PROVE  /\ DOMAIN u.nodes[q] = Parts /\ u.nodes[q].children = t.nodes[q].children
             /\ q \in R => u.nodes[q].state = "ExecutingChildren"
             /\ q = p => u.nodes[q].state = "Executing"
             /\ q \notin R /\ q # p => u.nodes[q].state = t.nodes[q].state
  <2>1. /\ q \in DOMAIN two.nodes /\ DOMAIN two.nodes[q] = Parts /\ two.nodes[q].children = t.nodes[q].children
        /\ q = p => two.nodes[q].state = "Executing"
        /\ q # p => two.nodes[q].state = t.nodes[q].state
    BY <1>2, <1>3, Zenon DEF StateIsSet
  <2>2. CASE q \in R
    <3>1. u.nodes[q] = [two.nodes[q] EXCEPT !.state = "ExecutingChildren"]
      BY <1>7, <1>8, <2>1, <2>2, Zenon
    <3>2. /\ DOMAIN u.nodes[q] = Parts /\ u.nodes[q].children = two.nodes[q].children
          /\ u.nodes[q].state = "ExecutingChildren"
      BY <2>1, <3>1, Zenon DEF Parts
    <3> QED  BY <1>5, <2>1, <2>2, <3>2, Zenon
  <2>3. CASE q \notin R
    BY <1>7, <1>8, <2>1, <2>3, Zenon
  <2> QED  BY <2>2, <2>3
<1>10. DOMAIN u.nodes = DOMAIN t.nodes
  BY <1>2, <1>3, <1>7, <1>8, Zenon DEF StateIsSet
<1>11. IsOpened(t, u, p, R)
  BY <1>5, <1>6, <1>8, <1>9, <1>10, Zenon DEF IsOpened, parent
<1> QED  BY <1>1, <1>11, Zenon

\* Whoever prefixes the path of c, and is known, is c or around it.
LEMMA PrefixesOfPath ==
    ASSUME NEW b, WellNested(b), NEW name, NEW path, NEW st, KnowsSections(b, st), HasPaths(b, name, path, st),
           NEW c \in DOMAIN st, NEW i \in DOMAIN st, path[i] \in Prefixes(path[c])
    PROVE  i = c \/ i \in Around(b, c)
<1>1. IsSequence(path[c]) /\ Len(path[c]) \in Nat /\ Len(path[i]) \in Nat \ {0}
  BY PathFacts
<1>2. PICK n \in 0..Len(path[c]) : path[i] = SubSeq(path[c], 1, n)
  BY Zenon DEF Prefixes
<1>3. Len(path[i]) = n
  <2>1. path[c] \in Seq({path[c][m] : m \in DOMAIN path[c]})
    BY <1>1 DEF IsSequence
  <2>2. Len(SubSeq(path[c], 1, n)) = n
    BY <1>1, <2>1
  <2> QED  BY <1>2, <2>2
<1>4. n \in 1..Len(path[c])
  BY <1>1, <1>2, <1>3
<1>5. PICK j \in Around(b, c) \cup {c} : j \in DOMAIN st /\ path[j] = SubSeq(path[c], 1, n)
  BY <1>4, PrefixIsPath
<1>6. i = j
  BY <1>2, <1>5, PathIsOf
<1> QED  BY <1>5, <1>6

\* A sequence and one more element.
LEMMA AppendFacts ==
    ASSUME NEW s, IsSequence(s), NEW v
    PROVE  /\ IsSequence(Append(s, v)) /\ Len(s) \in Nat /\ Len(Append(s, v)) = Len(s) + 1
           /\ Last(Append(s, v)) = v /\ Append(s, v) # << >>
           /\ \A n \in 0..Len(s) : SubSeq(Append(s, v), 1, n) = SubSeq(s, 1, n)
           /\ \A n \in 1..Len(s) : Append(s, v)[n] = s[n]
<1> DEFINE S == {s[n] : n \in DOMAIN s} \cup {v}
<1>1. s \in Seq(S) /\ v \in S
  BY SeqMonotonic DEF IsSequence
<1> HIDE DEF S
<1>2. Len(s) \in Nat /\ Len(Append(s, v)) = Len(s) + 1 /\ Last(Append(s, v)) = v
  BY <1>1, AppendProperties, LenProperties DEF Last
<1>3. Append(s, v) # << >>
  <2>1. Len(Append(s, v)) # 0
    BY <1>2
  <2>2. Len(<< >>) = 0
    OBVIOUS
  <2> QED  BY <2>1, <2>2, Zenon
<1>4. \A n \in 0..Len(s) : SubSeq(Append(s, v), 1, n) = SubSeq(s, 1, n)
  BY <1>1, <1>2
<1>5. \A n \in 1..Len(s) : Append(s, v)[n] = s[n]
  BY <1>1, <1>2
<1> QED  BY <1>2, <1>3, <1>4, <1>5, AppendKeepsSequence

\* More is known, under the paths it had.
Extends(st, path, s, w) == DOMAIN st \subseteq DOMAIN s /\ \A i \in DOMAIN st : s[i] = st[i] /\ w[i] = path[i]

\* The section k gets the path p.
PathAdded(st, path, w, k, p) ==
    DOMAIN w = DOMAIN st \cup {k} /\ w[k] = p /\ \A i \in DOMAIN st : w[i] = path[i]

\* A section that is not known is added behind the others in the one around it.
LEMMA AddedShows ==
    ASSUME NEW t, NEW b, WellNested(b), NEW name, NEW path, NEW st, Shows(t, b, name, path, st), InOrder(b, st),
           NEW k \in SectionsOf(b), k \notin DOMAIN st, Inner(b, k) \in DOMAIN st, t.current = path[Inner(b, k)],
           NEW p, p = Append(t.current, SectionKey(b[k])), NEW f, IsAdded(t, f, p, SectionKey(b[k])),
           NEW s, IsFound(st, s, k),
           NEW w, PathAdded(st, path, w, k, p)
    PROVE  Shows(f, b, name, w, s)
<1> DEFINE c == Inner(b, k)
           key == SectionKey(b[k])
<1>1. /\ DOMAIN t = Fields /\ KnowsSections(b, st) /\ HasPaths(b, name, path, st)
      /\ DOMAIN t.nodes = {Root} \cup {path[i] : i \in DOMAIN st}
      /\ \A i \in DOMAIN st : /\ path[i] \in DOMAIN t.nodes /\ t.nodes[path[i]].state = st[i]
                              /\ HasChildren(b, st, i, t.nodes[path[i]].children)
      /\ IsSequence(t.nodes[Root].children) /\ ~ t.illogical
  BY ShowsFacts
<1>2. k # 0 /\ c # k /\ c \in DOMAIN st
  BY InnerIsBefore
<1>3. /\ DOMAIN s = DOMAIN st \cup {k} /\ s[k] = "NotStarted" /\ \A i \in DOMAIN st : s[i] = st[i]
      /\ DOMAIN w = DOMAIN st \cup {k} /\ w[k] = p /\ \A i \in DOMAIN st : w[i] = path[i]
  BY Zenon DEF IsFound, PathAdded
<1>4. /\ DOMAIN f = Fields /\ f.illogical = t.illogical
      /\ DOMAIN f.nodes = DOMAIN t.nodes \cup {p}
      /\ DOMAIN f.nodes[p] = Parts /\ f.nodes[p].state = "NotStarted" /\ f.nodes[p].children = << >>
      /\ \A q \in DOMAIN t.nodes : /\ DOMAIN f.nodes[q] = Parts /\ f.nodes[q].state = t.nodes[q].state
                                   /\ q # t.current => f.nodes[q].children = t.nodes[q].children
      /\ f.nodes[t.current].children = Append(t.nodes[t.current].children, key)
  BY Zenon DEF IsAdded
<1> HIDE DEF key
<1>5. KnowsSections(b, s)
  <2>1. DOMAIN s \subseteq {0} \cup SectionsOf(b)
    BY <1>1, <1>3 DEF KnowsSections
  <2>2. \A i \in DOMAIN s : s[i] \in States
    BY <1>1, <1>3 DEF KnowsSections, States
  <2>3. \A i \in DOMAIN s : i # 0 => Inner(b, i) \in DOMAIN s
    BY <1>1, <1>2, <1>3 DEF KnowsSections
  <2> QED  BY <2>1, <2>2, <2>3 DEF KnowsSections
<1>6. IsSequence(p) /\ p = Append(path[c], key)
  <2>1. IsSequence(path[c])
    BY <1>1, <1>2, PathFacts
  <2> QED  BY <2>1, AppendKeepsSequence, Zenon DEF key
<1>7. HasPaths(b, name, w, s)
  <2>1. \A i \in DOMAIN s : IsSequence(w[i])
    <3>1. \A i \in DOMAIN st : IsSequence(path[i])
      BY <1>1, Zenon DEF HasPaths, IsSequence
    <3> QED  BY <1>3, <1>6, <3>1, Zenon
  <2>2. ASSUME NEW i \in DOMAIN s
        PROVE  w[i] = IF i = 0 THEN <<name>> ELSE Append(w[Inner(b, i)], SectionKey(b[i]))
    <3>1. CASE i = k
      BY <1>2, <1>3, <1>6, <3>1, Zenon DEF key
    <3>2. CASE i # k
      <4>1. i \in DOMAIN st /\ w[i] = path[i] /\ (i # 0 => Inner(b, i) \in DOMAIN st)
        BY <1>1, <1>3, <3>2, Zenon DEF KnowsSections
      <4>2. path[i] = IF i = 0 THEN <<name>> ELSE Append(path[Inner(b, i)], SectionKey(b[i]))
        BY <1>1, <4>1, Zenon DEF HasPaths
      <4> QED  BY <1>3, <4>1, <4>2, Zenon
    <3> QED  BY <3>1, <3>2
  <2> QED  BY <1>3, <2>1, <2>2, Zenon DEF HasPaths, IsSequence
<1>8. \A i \in DOMAIN st : i # c => path[i] # path[c]
  BY <1>1, <1>2, PathIsOf
<1>9. path[c] # Root
  BY <1>1, <1>2, PathFacts
<1>10. DOMAIN f.nodes = {Root} \cup {w[i] : i \in DOMAIN s}
  <2>1. \A q : q \in {w[i] : i \in DOMAIN s} <=> q \in {path[i] : i \in DOMAIN st} \cup {p}
    <3>1. \A i \in DOMAIN s : i = k \/ i \in DOMAIN st
      BY <1>3
    <3>2. k \in DOMAIN s /\ \A i \in DOMAIN st : i \in DOMAIN s
      BY <1>3
    <3> QED  BY <1>3, <3>1, <3>2, Zenon
  <2> QED  BY <1>1, <1>4, <2>1
<1>11. \A q \in DOMAIN f.nodes : DOMAIN f.nodes[q] = Parts
  BY <1>4
<1>12. Known(b, s) = Known(b, st) \cup {k} /\ k \notin Known(b, st)
  BY <1>3 DEF Known
<1>13. ASSUME NEW i \in DOMAIN s
       PROVE  f.nodes[w[i]].state = s[i] /\ HasChildren(b, s, i, f.nodes[w[i]].children)
  <2>1. CASE i = k
    <3>1. w[i] = p /\ s[i] = "NotStarted" /\ f.nodes[w[i]].state = "NotStarted" /\ f.nodes[w[i]].children = << >>
      BY <1>3, <1>4, <2>1, Zenon
    <3>2. \A j \in Known(b, s) : Inner(b, j) # i
      <4> SUFFICES ASSUME NEW j \in Known(b, s), Inner(b, j) = k PROVE FALSE
        BY <2>1
      <4>1. j # k
        BY <1>2
      <4>2. j \in DOMAIN st /\ j \in SectionsOf(b)
        BY <1>12, <4>1 DEF Known
      <4>3. j # 0
        BY <4>2, InnerIsBefore
      <4> QED  BY <1>1, <4>2, <4>3, Zenon DEF KnowsSections
    <3>3. IsSequence(<< >>)
      BY EmptySeq, SequenceOfAny
    <3> QED  BY <3>1, <3>2, <3>3, Zenon DEF HasChildren, IsSequence
  <2>2. CASE i = c
    <3>1. w[i] = path[c] /\ s[i] = st[c] /\ t.current = path[c] /\ path[c] \in DOMAIN t.nodes
      BY <1>1, <1>2, <1>3, <2>2, Zenon
    <3>2. f.nodes[w[i]].state = s[i] /\ f.nodes[w[i]].children = Append(t.nodes[path[c]].children, key)
      BY <1>1, <1>2, <1>4, <3>1, Zenon
    <3>3. IsSequence(t.nodes[path[c]].children)
      BY <1>1, <1>2, Zenon DEF HasChildren, IsSequence
    <3> DEFINE more == Append(t.nodes[path[c]].children, key)
    <3>4. IsSequence(more)
      BY <3>3, AppendKeepsSequence
    <3>5. Last(more) = key /\ more # << >>
      BY <3>3, AppendFacts, Zenon
    <3> HIDE DEF more
    <3>6. k \in Known(b, s) /\ Inner(b, k) = i /\ Last(more) = SectionKey(b[k])
      BY <1>12, <2>2, <3>5 DEF key
    <3>7. \A j \in Known(b, s) : Inner(b, j) = i => j <= k
      <4> SUFFICES ASSUME NEW j \in Known(b, s), Inner(b, j) = i PROVE j <= k
        OBVIOUS
      <4>1. k \in Nat
        BY InnerIsBefore
      <4>2. CASE j = k
        BY <4>1, <4>2
      <4>3. CASE j # k
        <5>1. j \in SectionsOf(b) /\ j \in DOMAIN st
          BY <1>12, <4>3 DEF Known
        <5>2. j \in Nat
          BY <5>1, InnerIsBefore
        <5>3. ~ (k < j)
          <6> SUFFICES ASSUME k < j PROVE FALSE
            OBVIOUS
          <6>1. Siblings(b, k, j)
            BY <2>2, <5>1 DEF Siblings
          <6> QED  BY <5>1, <6>1, Zenon DEF InOrder
        <5> QED  BY <4>1, <5>2, <5>3
      <4> QED  BY <4>2, <4>3
    <3>8. f.nodes[w[i]].children = more
      BY <3>2 DEF more
    <3>9. HasChildren(b, s, i, more)
      BY <3>4, <3>5, <3>6, <3>7, Zenon DEF HasChildren, IsSequence
    <3> QED  BY <3>2, <3>8, <3>9, Zenon
  <2>3. CASE i # k /\ i # c
    <3>1. i \in DOMAIN st /\ w[i] = path[i] /\ s[i] = st[i]
      BY <1>3, <2>3, Zenon
    <3>2. path[i] \in DOMAIN t.nodes /\ path[i] # t.current
      BY <1>1, <1>8, <2>3, <3>1, Zenon
    <3>3. f.nodes[w[i]].state = s[i] /\ f.nodes[w[i]].children = t.nodes[path[i]].children
      BY <1>1, <1>4, <3>1, <3>2, Zenon
    <3>4. HasChildren(b, st, i, t.nodes[path[i]].children)
      BY <1>1, <3>1, Zenon
    <3>5. \A j \in Known(b, s) : Inner(b, j) = i <=> j \in Known(b, st) /\ Inner(b, j) = i
      BY <1>12, <2>3
    <3>6. \A j \in Known(b, st) : j \in Known(b, s)
      BY <1>12
    <3> QED  BY <3>3, <3>4, <3>5, <3>6, Zenon DEF HasChildren
  <2> QED  BY <2>1, <2>2, <2>3
<1>14. IsSequence(f.nodes[Root].children)
  <2>1. Root \in DOMAIN t.nodes /\ Root # t.current
    BY <1>1, <1>9
  <2> QED  BY <1>1, <1>4, <2>1, Zenon
<1>15. HasNodes(b, w, s, f.nodes)
  BY <1>10, <1>11, <1>13, <1>14, Zenon DEF HasNodes, Parts, IsSequence
<1> QED  BY <1>1, <1>4, <1>5, <1>7, <1>15, Zenon DEF Shows, Fields

\* The key is looked for below the current tracker.
IsAskedFor(t, f, p, key) == p = Append(t.current, key) /\ f = Found(t, p, key)

\* The section asked for is known after it has been looked for.
LEMMA FindShows ==
    ASSUME NEW t, NEW b, WellNested(b), NEW name, NEW path, NEW st, Shows(t, b, name, path, st), InOrder(b, st),
           NEW k \in SectionsOf(b), Inner(b, k) \in DOMAIN st, t.current = path[Inner(b, k)],
           NEW p, NEW f, IsAskedFor(t, f, p, SectionKey(b[k]))
    PROVE  /\ f.current = t.current /\ f.run = t.run
           /\ \E s, w : /\ Shows(f, b, name, w, s) /\ Extends(st, path, s, w) /\ k \in DOMAIN s /\ w[k] = p
                        /\ s = st \/ IsFound(st, s, k)
<1> p = Append(t.current, SectionKey(b[k])) /\ f = Found(t, p, SectionKey(b[k]))
  BY DEF IsAskedFor
<1> DEFINE c == Inner(b, k)
<1>1. /\ DOMAIN t = Fields /\ KnowsSections(b, st) /\ HasPaths(b, name, path, st)
      /\ DOMAIN t.nodes = {Root} \cup {path[i] : i \in DOMAIN st}
      /\ \A q \in DOMAIN t.nodes : DOMAIN t.nodes[q] = Parts
      /\ path[c] \in DOMAIN t.nodes
  BY ShowsFacts
<1>2. k # 0 /\ p # Root
  <2>1. IsSequence(path[c])
    BY <1>1, PathFacts
  <2>2. p # << >>
    BY <2>1, AppendFacts, Zenon
  <2> QED  BY <2>2, InnerIsBefore DEF Root
<1>3. CASE p \in DOMAIN t.nodes
  <2>1. PICK i \in DOMAIN st : p = path[i]
    BY <1>1, <1>2, <1>3
  <2>2. i = k
    <3>1. \A j \in SectionsOf(b) : \A n \in DOMAIN st : path[i] = Append(path[n], SectionKey(b[j])) => i = j
      BY <1>1, PathIsOf
    <3>2. path[i] = Append(path[Inner(b, k)], SectionKey(b[k]))
      BY <2>1, Zenon
    <3> QED  BY <3>1, <3>2, Zenon
  <2>3. f = t
    BY <1>3, Zenon DEF Found
  <2> QED  BY <2>1, <2>2, <2>3, Zenon DEF Extends
<1>4. CASE p \notin DOMAIN t.nodes
  <2>1. k \notin DOMAIN st
    <3> SUFFICES ASSUME k \in DOMAIN st PROVE FALSE
      OBVIOUS
    <3>1. path[k] = p
      BY <1>1, <1>2, PathFacts
    <3> QED  BY <1>1, <1>4, <3>1
  <2>2. IsAdded(t, f, p, SectionKey(b[k]))
    BY <1>1, <1>4, FoundIsAdded, Zenon
  <2> DEFINE s == [i \in DOMAIN st \cup {k} |-> IF i = k THEN "NotStarted" ELSE st[i]]
             w == [i \in DOMAIN st \cup {k} |-> IF i = k THEN p ELSE path[i]]
  <2>3. IsFound(st, s, k) /\ Extends(st, path, s, w) /\ k \in DOMAIN s /\ w[k] = p /\ PathAdded(st, path, w, k, p)
    BY <2>1, Zenon DEF IsFound, Extends, PathAdded
  <2> HIDE DEF s, w, c
  <2>4. Shows(f, b, name, w, s)
    BY <2>1, <2>2, <2>3, AddedShows
  <2>5. f.current = t.current /\ f.run = t.run
    BY <2>2, Zenon DEF IsAdded
  <2> QED  BY <2>3, <2>4, <2>5, Zenon
<1> QED  BY <1>3, <1>4

\* The section is entered from the one around it.
LEMMA EnterShows ==
    ASSUME NEW t, NEW b, WellNested(b), NEW name, NEW path, NEW st, Shows(t, b, name, path, st),
           NEW k \in SectionsOf(b), k \in DOMAIN st, ~ IsDone(st[k]),
           Way(t, b, path, st, Inner(b, k)), t.run = "Executing", NEW u, u = open(t, path[k])
    PROVE  /\ u.run = "Executing" /\ u.current = path[k]
           /\ \E s : Shows(u, b, name, path, s) /\ IsEntered(st, s, k, Inner(b, k))
<1> DEFINE c == Inner(b, k)
<1>1. /\ DOMAIN t = Fields /\ KnowsSections(b, st) /\ HasPaths(b, name, path, st) /\ ~ t.illogical
      /\ \A q \in DOMAIN t.nodes : DOMAIN t.nodes[q] = Parts
      /\ \A i \in DOMAIN st : path[i] \in DOMAIN t.nodes /\ t.nodes[path[i]].state = st[i]
  BY ShowsFacts
<1>2. c \in DOMAIN st /\ (\A i \in Around(b, c) : st[i] = "ExecutingChildren") /\ st[c] = "Executing"
  BY Zenon DEF Way
<1>3. k # 0 /\ c # k
  BY InnerIsBefore
<1>4. IsSequence(path[k]) /\ path[k] # << >> /\ Front(path[k]) = path[c]
  BY <1>1, <1>3, PathFacts DEF Root
<1>5. PICK R : IsOpened(t, u, path[k], R)
  BY <1>1, <1>4, OpenFacts
<1>6. path[c] \in R /\ path[k] \notin R /\ R \subseteq Prefixes(path[c])
  BY <1>4, <1>5, Zenon DEF IsOpened
<1>7. \A i \in DOMAIN st : path[i] \in R => i = c \/ st[i] = "ExecutingChildren"
  <2> SUFFICES ASSUME NEW i \in DOMAIN st, path[i] \in R PROVE i = c \/ st[i] = "ExecutingChildren"
    OBVIOUS
  <2>1. path[i] \in Prefixes(path[c])
    BY <1>6
  <2>2. i = c \/ i \in Around(b, c)
    BY <1>1, <1>2, <2>1, PrefixesOfPath
  <2> QED  BY <1>2, <2>2
<1>8. \A i \in DOMAIN st : i # k => path[i] # path[k]
  BY <1>1, PathIsOf
<1> DEFINE s == [i \in DOMAIN st |-> IF i = k THEN "Executing" ELSE IF i = c THEN "ExecutingChildren" ELSE st[i]]
<1> HIDE DEF c
<1>9. /\ DOMAIN s = DOMAIN st /\ s[k] = "Executing" /\ s[c] = "ExecutingChildren"
      /\ \A i \in DOMAIN st : i # k /\ i # c => s[i] = st[i]
  BY <1>2, <1>3, Zenon
<1> HIDE DEF s
<1>10. IsEntered(st, s, k, c)
  BY <1>2, <1>9, Zenon DEF IsEntered
<1>11. \A i \in DOMAIN st : s[i] \in States
  <2>1. \A i \in DOMAIN st : st[i] \in States
    BY <1>1, Zenon DEF KnowsSections
  <2> QED  BY <1>9, <2>1 DEF States
<1>12. \A i \in DOMAIN st : u.nodes[path[i]].state = s[i]
  <2> SUFFICES ASSUME NEW i \in DOMAIN st PROVE u.nodes[path[i]].state = s[i]
    BY Zenon
  <2>1. /\ path[i] \in R => u.nodes[path[i]].state = "ExecutingChildren"
        /\ path[i] = path[k] => u.nodes[path[i]].state = "Executing"
        /\ path[i] \notin R /\ path[i] # path[k] => u.nodes[path[i]].state = st[i]
    <3>1. path[i] \in DOMAIN t.nodes /\ t.nodes[path[i]].state = st[i]
      BY <1>1, Zenon
    <3>2. \A q \in DOMAIN t.nodes : /\ q \in R => u.nodes[q].state = "ExecutingChildren"
                                    /\ q = path[k] => u.nodes[q].state = "Executing"
                                    /\ q \notin R /\ q # path[k] => u.nodes[q].state = t.nodes[q].state
      BY <1>5, Zenon DEF IsOpened
    <3> QED  BY <3>1, <3>2, Zenon
  <2> QED  BY <1>6, <1>7, <1>8, <1>9, <2>1, Zenon
<1>13. /\ DOMAIN u = Fields /\ ~ u.illogical /\ DOMAIN u.nodes = DOMAIN t.nodes
       /\ u.run = "Executing" /\ u.current = path[k]
       /\ \A q \in DOMAIN t.nodes : DOMAIN u.nodes[q] = Parts /\ u.nodes[q].children = t.nodes[q].children
  BY <1>1, <1>5, Zenon DEF IsOpened
<1>14. Shows(u, b, name, path, s)
  BY <1>9, <1>11, <1>12, <1>13, ShowsStates
<1> QED  BY <1>10, <1>13, <1>14, Zenon DEF c

\* The test case is started, and all else known of it is as it was.
TestStarted(st, s) ==
    /\ DOMAIN s = DOMAIN st \cup {0} /\ s[0] = "Executing"
    /\ \A i \in DOMAIN st : i # 0 => s[i] = st[i]

\* The test case's own tracker is opened.
LEMMA OpenTestShows ==
    ASSUME NEW t, NEW b, WellNested(b), NEW name, NEW path, NEW st, Shows(t, b, name, path, st), 0 \in DOMAIN st,
           NEW u, u = open(t, path[0])
    PROVE  /\ u.run = t.run /\ u.current = path[0]
           /\ \E s : Shows(u, b, name, path, s) /\ TestStarted(st, s)
<1> DEFINE s == [st EXCEPT ![0] = "Executing"]
<1>1. /\ DOMAIN t = Fields /\ KnowsSections(b, st) /\ HasPaths(b, name, path, st) /\ ~ t.illogical
      /\ \A q \in DOMAIN t.nodes : DOMAIN t.nodes[q] = Parts
      /\ \A i \in DOMAIN st : path[i] \in DOMAIN t.nodes /\ t.nodes[path[i]].state = st[i]
  BY ShowsFacts
<1>2. IsSequence(path[0]) /\ path[0] # << >> /\ Len(path[0]) = 1
  BY <1>1, PathFacts DEF Root
<1>3. PICK R : IsOpened(t, u, path[0], R)
  BY <1>1, <1>2, OpenFacts
<1>4. \A i \in DOMAIN st : path[i] \notin R
  <2> SUFFICES ASSUME NEW i \in DOMAIN st, path[i] \in R PROVE FALSE
    OBVIOUS
  <2>1. IsSequence(Front(path[0])) /\ Len(Front(path[0])) = 0
    <3> DEFINE q    == path[0]
               rest == Front(q)
    <3>1. IsSequence(q) /\ q # << >> /\ Len(q) = 1
      BY <1>2
    <3> HIDE DEF q
    <3>2. IsSequence(rest) /\ Len(rest) \in Nat /\ Len(q) = Len(rest) + 1
      BY <3>1, FrontFacts
    <3> HIDE DEF rest
    <3>3. IsSequence(rest) /\ Len(rest) = 0
      BY <3>1, <3>2
    <3> QED  BY <3>3 DEF rest, q
  <2>2. path[i] \in Prefixes(Front(path[0]))
    BY <1>3, Zenon DEF IsOpened
  <2>3. PICK n \in 0..Len(Front(path[0])) : path[i] = SubSeq(Front(path[0]), 1, n)
    BY <2>2, Zenon DEF Prefixes
  <2>4. n = 0
    BY <2>1, <2>3
  <2>5. path[i] = << >>
    BY <2>3, <2>4, SubSeqEmpty
  <2> QED  BY <1>1, <2>5, PathFacts DEF Root
<1>5. \A i \in DOMAIN st : i # 0 => path[i] # path[0]
  BY <1>1, PathIsOf
<1>6. DOMAIN s = DOMAIN st /\ s[0] = "Executing" /\ \A i \in DOMAIN st : i # 0 => s[i] = st[i]
  BY Zenon
<1> HIDE DEF s
<1>7. \A i \in DOMAIN st : s[i] \in States
  <2>1. \A i \in DOMAIN st : st[i] \in States
    BY <1>1, Zenon DEF KnowsSections
  <2> QED  BY <1>6, <2>1 DEF States
<1>8. \A i \in DOMAIN st : u.nodes[path[i]].state = s[i]
  <2> SUFFICES ASSUME NEW i \in DOMAIN st PROVE u.nodes[path[i]].state = s[i]
    BY Zenon
  <2>1. /\ path[i] = path[0] => u.nodes[path[i]].state = "Executing"
        /\ path[i] # path[0] => u.nodes[path[i]].state = st[i]
    <3>1. path[i] \in DOMAIN t.nodes /\ t.nodes[path[i]].state = st[i] /\ path[i] \notin R
      BY <1>1, <1>4, Zenon
    <3>2. \A q \in DOMAIN t.nodes : /\ q \in R => u.nodes[q].state = "ExecutingChildren"
                                    /\ q = path[0] => u.nodes[q].state = "Executing"
                                    /\ q \notin R /\ q # path[0] => u.nodes[q].state = t.nodes[q].state
      BY <1>3, Zenon DEF IsOpened
    <3> QED  BY <3>1, <3>2, Zenon
  <2> QED  BY <1>5, <1>6, <2>1, Zenon
<1>9. /\ DOMAIN u = Fields /\ ~ u.illogical /\ DOMAIN u.nodes = DOMAIN t.nodes
      /\ u.run = t.run /\ u.current = path[0]
      /\ \A q \in DOMAIN t.nodes : DOMAIN u.nodes[q] = Parts /\ u.nodes[q].children = t.nodes[q].children
  BY <1>1, <1>3, Zenon DEF IsOpened
<1>10. Shows(u, b, name, path, s)
  BY <1>6, <1>7, <1>8, <1>9, ShowsStates
<1>11. TestStarted(st, s)
  <2>1. DOMAIN st \cup {0} = DOMAIN st
    OBVIOUS
  <2> QED  BY <1>6, <2>1, Zenon DEF TestStarted
<1> QED  BY <1>9, <1>10, <1>11, Zenon

\* Nothing is known before the test case itself is.
LEMMA TestIsFirst ==
    ASSUME NEW b, WellNested(b), NEW st, KnowsSections(b, st), 0 \notin DOMAIN st
    PROVE  DOMAIN st = {}
<1>1. DOMAIN st \subseteq {0} \cup SectionsOf(b) /\ SectionsOf(b) \subseteq 1..Len(b) /\ Len(b) \in Nat
  BY BodyFacts, Zenon DEF KnowsSections
<1> SUFFICES ASSUME DOMAIN st # {} PROVE FALSE
  OBVIOUS
<1>2. DOMAIN st \in SUBSET Nat
  BY <1>1
<1>3. PICK i \in DOMAIN st : \A j \in DOMAIN st : i <= j
  BY <1>2, HasLeast, Zenon
<1>4. i \in SectionsOf(b) /\ i # 0
  BY <1>1
<1>5. Inner(b, i) \in DOMAIN st
  BY <1>4, Zenon DEF KnowsSections
<1>6. Inner(b, i) < i /\ i \in Nat /\ Inner(b, i) \in Nat
  BY <1>4, InnerIsBefore
<1> QED  BY <1>3, <1>5, <1>6

\* The first tracker of a test case.
LEMMA FirstShows ==
    ASSUME NEW t, NEW b, WellNested(b), NEW name, NEW path, NEW st, Shows(t, b, name, path, st), 0 \notin DOMAIN st,
           t.current = Root, NEW f, IsAdded(t, f, <<name>>, name)
    PROVE  \E s, w : Shows(f, b, name, w, s) /\ DOMAIN s = {0} /\ s[0] = "NotStarted" /\ w[0] = <<name>>
<1> DEFINE s == [i \in {0} |-> "NotStarted"]
           w == [i \in {0} |-> <<name>>]
           p == <<name>>
<1>1. /\ DOMAIN s = {0} /\ s[0] = "NotStarted" /\ DOMAIN w = {0} /\ w[0] = p
  BY Zenon
<1> HIDE DEF s, w
<1>2. /\ KnowsSections(b, st) /\ DOMAIN t.nodes = {Root} \cup {path[i] : i \in DOMAIN st}
      /\ IsSequence(t.nodes[Root].children) /\ ~ t.illogical
  BY ShowsFacts
<1>3. DOMAIN t.nodes = {Root}
  <2>1. DOMAIN st = {}
    BY <1>2, TestIsFirst
  <2> QED  BY <1>2, <2>1
<1>4. IsSequence(p)
  <2>1. p \in Seq({name})
    OBVIOUS
  <2> QED  BY <2>1, SequenceOfAny
<1> HIDE DEF p
<1>5. /\ DOMAIN f = Fields /\ f.illogical = t.illogical
      /\ DOMAIN f.nodes = {Root} \cup {p}
      /\ DOMAIN f.nodes[p] = Parts /\ f.nodes[p].state = "NotStarted" /\ f.nodes[p].children = << >>
      /\ DOMAIN f.nodes[Root] = Parts
      /\ f.nodes[Root].children = Append(t.nodes[Root].children, name)
  BY <1>3 DEF IsAdded, p
<1>6. 0 \notin SectionsOf(b)
  BY BodyFacts
<1>7. Known(b, s) = {}
  BY <1>1, <1>6 DEF Known
<1>8. KnowsSections(b, s)
  BY <1>1 DEF KnowsSections, States
<1>9. HasPaths(b, name, w, s)
  <2>1. \A i \in DOMAIN s : i = 0
    BY <1>1
  <2> QED  BY <1>1, <1>4, <2>1, Zenon DEF HasPaths, IsSequence, p
<1>10. HasChildren(b, s, 0, f.nodes[p].children)
  <2>1. IsSequence(<< >>)
    BY EmptySeq, SequenceOfAny
  <2>2. \A j : j \notin Known(b, s)
    BY <1>7
  <2>3. HasChildren(b, s, 0, << >>)
    BY <2>1, <2>2, Zenon DEF HasChildren, IsSequence
  <2> QED  BY <1>5, <2>3, Zenon
<1>11. HasNodes(b, w, s, f.nodes)
  <2>1. {w[i] : i \in DOMAIN s} = {p}
    BY <1>1
  <2>2. IsSequence(f.nodes[Root].children)
    <3> DEFINE c == t.nodes[Root].children
    <3>1. IsSequence(c)
      BY <1>2
    <3> HIDE DEF c
    <3>2. IsSequence(Append(c, name))
      BY <3>1, AppendKeepsSequence
    <3> QED  BY <1>5, <3>2, Zenon DEF c
  <2>3. \A i \in DOMAIN s : w[i] = p /\ i = 0
    BY <1>1
  <2>4. DOMAIN f.nodes = {Root} \cup {w[i] : i \in DOMAIN s}
    BY <1>5, <2>1, Zenon
  <2>5. \A q \in DOMAIN f.nodes : DOMAIN f.nodes[q] = Parts
    BY <1>5
  <2>6. \A i \in DOMAIN s : f.nodes[w[i]].state = s[i] /\ HasChildren(b, s, i, f.nodes[w[i]].children)
    BY <1>1, <1>5, <1>10, <2>3, Zenon
  <2> QED  BY <2>2, <2>4, <2>5, <2>6, Zenon DEF HasNodes, Parts, IsSequence
<1>12. Shows(f, b, name, w, s)
  BY <1>2, <1>5, <1>8, <1>9, <1>11, Zenon DEF Shows, Fields
<1> QED  BY <1>1, <1>12, Zenon DEF p

\* A new cycle starts at the root and goes into the test case.
LEMMA AcquireTest ==
    ASSUME NEW t, NEW b, WellNested(b), NEW name, NEW path, NEW st, Shows(t, b, name, path, st),
           0 \in DOMAIN st => ~ IsDone(st[0]), NEW u, u = acquire(startCycle(t), name)
    PROVE  \E s, w : /\ Shows(u, b, name, w, s) /\ TestStarted(st, s)
                     /\ u.run = "Executing" /\ u.current = w[0]
<1> DEFINE r == startCycle(t)
           p == Append(r.current, name)
           f == Found(r, p, name)
<1>1. /\ DOMAIN t = Fields /\ KnowsSections(b, st) /\ HasPaths(b, name, path, st) /\ ~ t.illogical
      /\ DOMAIN t.nodes = {Root} \cup {path[i] : i \in DOMAIN st}
      /\ \A q \in DOMAIN t.nodes : DOMAIN t.nodes[q] = Parts
      /\ \A i \in DOMAIN st : path[i] \in DOMAIN t.nodes /\ t.nodes[path[i]].state = st[i] /\ st[i] \in States
  BY ShowsFacts DEF KnowsSections
<1>2. /\ DOMAIN r = Fields /\ r.current = Root /\ r.run = "Executing" /\ r.illogical = t.illogical /\ r.nodes = t.nodes
  BY <1>1, Zenon DEF startCycle, Fields
<1> HIDE DEF r
<1>3. Shows(r, b, name, path, st)
  BY <1>1, <1>2, ShowsStates
<1>4. p = <<name>>
  BY <1>2 DEF Root
<1>5. acquire(r, name) = IF completedCycle(f) \/ isComplete(f, p) THEN f ELSE open(f, p)
  BY AcquireIs, Zenon
<1>6. f.run = "Executing" /\ \E s, w : /\ Shows(f, b, name, w, s) /\ 0 \in DOMAIN s /\ ~ IsDone(s[0]) /\ w[0] = p
                                        /\ \A z : TestStarted(s, z) => TestStarted(st, z)
  <2>1. CASE 0 \in DOMAIN st
    <3>1. path[0] = p
      BY <1>1, <1>4, <2>1, PathFacts
    <3>2. f = r
      BY <1>1, <1>2, <2>1, <3>1, Zenon DEF Found
    <3> QED  BY <1>2, <1>3, <2>1, <3>1, <3>2, Zenon
  <2>2. CASE 0 \notin DOMAIN st
    <3>1. DOMAIN st = {}
      BY <1>1, <2>2, TestIsFirst
    <3>2. p \notin DOMAIN r.nodes
      <4>1. p # << >>
        BY <1>4
      <4> HIDE DEF p
      <4>2. {path[i] : i \in DOMAIN st} = {}
        BY <3>1
      <4>3. DOMAIN r.nodes = {Root}
        BY <1>1, <1>2, <4>2
      <4> QED  BY <4>1, <4>3 DEF Root
    <3> HIDE DEF p
    <3>3. IsAdded(r, f, p, name)
      BY <1>1, <1>2, <3>2, FoundIsAdded
    <3> HIDE DEF f
    <3>4. PICK s, w : Shows(f, b, name, w, s) /\ DOMAIN s = {0} /\ s[0] = "NotStarted" /\ w[0] = p
      <4>1. r.current = Root /\ IsAdded(r, f, <<name>>, name)
        BY <1>2, <1>4, <3>3
      <4>2. PICK s, w : Shows(f, b, name, w, s) /\ DOMAIN s = {0} /\ s[0] = "NotStarted" /\ w[0] = <<name>>
        BY <1>3, <2>2, <4>1, FirstShows
      <4> QED  BY <1>4, <4>2
    <3>5. ~ IsDone(s[0]) /\ 0 \in DOMAIN s
      BY <3>4 DEF IsDone
    <3>6. \A z : TestStarted(s, z) => TestStarted(st, z)
      BY <3>1, <3>4 DEF TestStarted
    <3>7. f.run = "Executing"
      BY <1>2, <3>3, Zenon DEF IsAdded
    <3> QED  BY <3>4, <3>5, <3>6, <3>7, Zenon
  <2> QED  BY <2>1, <2>2
<1> HIDE DEF f, p
<1>7. PICK s, w : /\ Shows(f, b, name, w, s) /\ 0 \in DOMAIN s /\ ~ IsDone(s[0]) /\ w[0] = p
                  /\ \A z : TestStarted(s, z) => TestStarted(st, z)
  BY <1>6, Zenon
<1>8. u = open(f, p)
  <2>1. \A i \in DOMAIN s : f.nodes[w[i]].state = s[i]
    BY <1>7, ShowsFacts
  <2>2. ~ isComplete(f, p) /\ ~ completedCycle(f)
    BY <1>6, <1>7, <2>1 DEF isComplete, IsDone, completedCycle
  <2> QED  BY <1>5, <2>2, Zenon DEF r
<1>9. u.run = f.run /\ u.current = w[0] /\ \E z : Shows(u, b, name, w, z) /\ TestStarted(s, z)
  BY <1>7, <1>8, OpenTestShows
<1> QED  BY <1>6, <1>7, <1>9, Zenon

-----------------------------------------------------------------------------
(***************************************************************************)
(* The active sections, and what RunContext makes of them.                 *)
(***************************************************************************)
\* A section is entered.
LEMMA ActivePush ==
    ASSUME NEW active, NEW current, IsActive(active, current), NEW key
    PROVE  IsActive(Append(active, Append(current, key)), Append(current, key))
<1> DEFINE p == Append(current, key)
<1>1. /\ IsSequence(current) /\ IsSequence(active) /\ Len(active) = Len(current) - 1
      /\ \A n \in 1..Len(active) : active[n] = SubSeq(current, 1, n + 1)
  BY DEF IsActive
<1>2. /\ IsSequence(p) /\ Len(current) \in Nat /\ Len(p) = Len(current) + 1 /\ p # << >>
      /\ \A n \in 0..Len(current) : SubSeq(p, 1, n) = SubSeq(current, 1, n)
  BY <1>1, AppendFacts
<1>3. SubSeq(p, 1, Len(p)) = p
  <2> DEFINE S == {p[n] : n \in DOMAIN p}
  <2>1. p \in Seq(S)
    BY <1>2 DEF IsSequence
  <2> HIDE DEF S, p
  <2> QED  BY <2>1
<1> HIDE DEF p
<1> DEFINE more == Append(active, p)
<1>4. /\ IsSequence(more) /\ Len(active) \in Nat /\ Len(more) = Len(active) + 1 /\ Last(more) = p
      /\ \A n \in 1..Len(active) : more[n] = active[n]
  BY <1>1, AppendFacts
<1>5. more[Len(active) + 1] = p
  BY <1>4 DEF Last
<1> HIDE DEF more
<1>6. \A n \in 1..Len(more) : more[n] = SubSeq(p, 1, n + 1)
  <2> SUFFICES ASSUME NEW n \in 1..Len(more) PROVE more[n] = SubSeq(p, 1, n + 1)
    OBVIOUS
  <2>1. CASE n \in 1..Len(active)
    <3>1. n + 1 \in 0..Len(current)
      BY <1>1, <1>2, <2>1
    <3> QED  BY <1>1, <1>2, <1>4, <2>1, <3>1
  <2>2. CASE n = Len(active) + 1
    BY <1>1, <1>2, <1>3, <1>4, <1>5, <2>2
  <2> QED  BY <1>4, <2>1, <2>2
<1>7. Len(more) = Len(p) - 1
  BY <1>1, <1>2, <1>4
<1> QED  BY <1>2, <1>4, <1>6, <1>7 DEF IsActive, more, p

\* The innermost section is left.
LEMMA ActivePop ==
    ASSUME NEW active, NEW current, IsActive(active, current), active # << >>
    PROVE  Last(active) = current /\ IsActive(Front(active), Front(current))
<1>1. /\ IsSequence(current) /\ current # << >> /\ IsSequence(active) /\ Len(active) = Len(current) - 1
      /\ \A n \in 1..Len(active) : active[n] = SubSeq(current, 1, n + 1)
  BY DEF IsActive
<1>2. /\ IsSequence(Front(current)) /\ Len(Front(current)) \in Nat /\ Len(current) = Len(Front(current)) + 1
      /\ \A n \in 0..Len(Front(current)) : SubSeq(Front(current), 1, n) = SubSeq(current, 1, n)
  BY <1>1, FrontFacts
<1>3. /\ IsSequence(Front(active)) /\ Len(Front(active)) \in Nat /\ Len(active) = Len(Front(active)) + 1
      /\ \A n \in 1..Len(Front(active)) : Front(active)[n] = active[n]
  BY <1>1, FrontFacts
<1>4. Last(active) = current
  <2> DEFINE S == {current[n] : n \in DOMAIN current}
  <2>1. current \in Seq(S)
    BY <1>1 DEF IsSequence
  <2> HIDE DEF S
  <2>2. SubSeq(current, 1, Len(current)) = current
    BY <2>1
  <2>3. Len(active) \in 1..Len(active) /\ Len(active) + 1 = Len(current)
    BY <1>1, <1>2, <1>3
  <2> QED  BY <1>1, <2>2, <2>3 DEF Last
<1> DEFINE front == Front(current)
           rest  == Front(active)
<1>5. front # << >>
  <2>1. Len(front) # 0 /\ Len(<< >>) = 0
    BY <1>1, <1>2, <1>3
  <2> QED  BY <2>1
<1>6. \A n \in 1..Len(rest) : rest[n] = SubSeq(front, 1, n + 1)
  <2> SUFFICES ASSUME NEW n \in 1..Len(rest) PROVE rest[n] = SubSeq(front, 1, n + 1)
    OBVIOUS
  <2> HIDE DEF rest, front
  <2>1. n \in 1..Len(active) /\ n + 1 \in 0..Len(front)
    BY <1>1, <1>2, <1>3 DEF rest, front
  <2> QED  BY <1>1, <1>2, <1>3, <2>1 DEF rest, front
<1>7. Len(rest) = Len(front) - 1
  BY <1>1, <1>2, <1>3
<1> HIDE DEF rest, front
<1>8. IsActive(rest, front)
  BY <1>2, <1>3, <1>5, <1>6, <1>7 DEF IsActive, rest, front
<1> QED  BY <1>4, <1>8 DEF rest, front

\* No section is active where the test case itself is the current one.
LEMMA ActiveEmpty ==
    ASSUME NEW active, NEW current, IsActive(active, current)
    PROVE  active = << >> <=> Len(current) = 1
<1>1. IsSequence(active) /\ Len(active) = Len(current) - 1 /\ IsSequence(current)
  BY DEF IsActive
<1>2. Len(active) \in Nat /\ Len(current) \in Nat /\ (active = << >> <=> Len(active) = 0)
  BY <1>1, EmptySeq DEF IsSequence
<1> QED  BY <1>1, <1>2

\* The members of RunContext.
ContextFields == {"totals", "messages", "tracker", "active", "unfinished", "reporters", "failing", "suppressed", "missing"}

\* The sections are where they were.
SameSections(c, d) ==
    DOMAIN d = ContextFields /\ d.tracker = c.tracker /\ d.active = c.active /\ d.unfinished = c.unfinished

\* An event of the run.
LEMMA ReportSame ==
    ASSUME NEW c, DOMAIN c = ContextFields, NEW e
    PROVE  SameSections(c, Report(c, e))
BY Zenon DEF ContextFields, SameSections, Report

\* An assertion.
LEMMA AssertionSame ==
    ASSUME NEW c, DOMAIN c = ContextFields, NEW result
    PROVE  SameSections(c, assertionEnded(c, result))
<1> DEFINE counted == [c EXCEPT !.totals.assertions = CountResult(@, result),
                                !.failing    = IF isOk(result) THEN @ ELSE @ + 1,
                                !.suppressed = IF isOk(result) /\ ~IsOkResult(result.type) THEN @ + 1 ELSE @]
           e == [type |-> "assertionEnded", result |-> result, messages |-> c.messages, totals |-> counted.totals]
           told == Report(counted, e)
<1>1. SameSections(c, counted)
  BY Zenon DEF ContextFields, SameSections
<1>2. assertionEnded(c, result) = [told EXCEPT !.messages = IF ClearsMessages(c.reporters, result, config) THEN 0 ELSE @]
  BY Zenon DEF assertionEnded
<1> HIDE DEF counted, e
<1>3. SameSections(counted, told)
  BY <1>1, ReportSame, Zenon DEF SameSections
<1> HIDE DEF told
<1> QED  BY <1>1, <1>2, <1>3, Zenon DEF ContextFields, SameSections

\* A missing assertion.
LEMMA MissingSame ==
    ASSUME NEW c, DOMAIN c = ContextFields, NEW a
    PROVE  SameSections(c, testForMissingAssertions(c, a))
BY Zenon DEF ContextFields, SameSections, testForMissingAssertions

\* RunContext::sectionEnded closes the innermost of the active sections, if there is one.
LEMMA SectionEndedIs ==
    ASSUME NEW c, DOMAIN c = ContextFields, NEW ended, NEW d, d = sectionEnded(c, ended)
    PROVE  /\ DOMAIN d = ContextFields /\ d.unfinished = c.unfinished
           /\ c.active = << >> => d.tracker = c.tracker /\ d.active = c.active
           /\ c.active # << >> => d.tracker = close(c.tracker, Last(c.active)) /\ d.active = Front(c.active)
<1> DEFINE assertions == Minus(c.totals.assertions, ended.prev)
           counted == testForMissingAssertions(c, assertions)
           closed  == IF c.active = << >> THEN counted
                      ELSE [counted EXCEPT !.tracker = close(@, Last(c.active)), !.active = Front(@)]
           e == [type |-> "sectionEnded", missing |-> MissingAssertions(c, assertions)]
           told == Report(closed, e)
<1>1. SameSections(c, counted)
  BY MissingSame, Zenon
<1>2. d = [told EXCEPT !.messages = 0]
  BY Zenon DEF sectionEnded
<1> HIDE DEF counted, e
<1>3. /\ DOMAIN closed = ContextFields /\ closed.unfinished = c.unfinished
      /\ c.active = << >> => closed.tracker = c.tracker /\ closed.active = c.active
      /\ c.active # << >> => closed.tracker = close(c.tracker, Last(c.active)) /\ closed.active = Front(c.active)
  BY <1>1, Zenon DEF ContextFields, SameSections
<1> HIDE DEF closed
<1>4. SameSections(closed, told)
  BY <1>3, ReportSame, Zenon
<1> HIDE DEF told
<1>5. SameSections(told, d)
  BY <1>2, <1>4, Zenon DEF ContextFields, SameSections
<1> QED  BY <1>3, <1>4, <1>5, Zenon DEF SameSections

\* RunContext::sectionEndedEarly.
LEMMA SectionEndedEarlyIs ==
    ASSUME NEW c, DOMAIN c = ContextFields, NEW ended, NEW d, d = sectionEndedEarly(c, ended)
    PROVE  /\ DOMAIN d = ContextFields /\ d.active = Front(c.active) /\ d.unfinished = Append(c.unfinished, ended)
           /\ c.unfinished = << >> => d.tracker = fail(c.tracker, Last(c.active))
           /\ c.unfinished # << >> => d.tracker = close(c.tracker, Last(c.active))
BY Zenon DEF ContextFields, sectionEndedEarly

\* The sections an exception left are ended where no section is active any more: the
\* tracker is not touched.
KeepsSections == INSTANCE FoldInvariant WITH step <- UnfinishedStep, Good <- SameSections

LEMMA UnfinishedSame ==
    ASSUME NEW c, DOMAIN c = ContextFields, IsSequence(c.unfinished), c.active = << >>,
           NEW d, d = handleUnfinishedSections(c)
    PROVE  /\ DOMAIN d = ContextFields /\ d.tracker = c.tracker /\ d.active = << >> /\ d.unfinished = << >>
<1> DEFINE sections == Reverse(c.unfinished)
           told == KeepsSections!Folded(c, c, sections)
<1>1. Len(sections) \in Nat
  <2>1. Len(c.unfinished) \in Nat
    BY SequenceFacts
  <2> QED  BY <2>1 DEF Reverse
<1>2. Fold(sectionEnded, c, sections) = told
  BY Zenon DEF KeepsSections!Folded, KeepsSections!Fold, Fold, UnfinishedStep
<1> HIDE DEF sections
<1>3. SameSections(c, c)
  BY Zenon DEF SameSections
<1>4. \A u : \A k \in 1..Len(sections) : SameSections(c, u) => SameSections(c, UnfinishedStep(c, u, sections[k]))
  <2> SUFFICES ASSUME NEW u, NEW k \in 1..Len(sections), SameSections(c, u)
               PROVE  SameSections(c, sectionEnded(u, sections[k]))
    BY Zenon DEF UnfinishedStep
  <2> DEFINE v == sectionEnded(u, sections[k])
  <2>1. /\ DOMAIN v = ContextFields /\ v.unfinished = u.unfinished
        /\ u.active = << >> => v.tracker = u.tracker /\ v.active = u.active
    BY SectionEndedIs, Zenon DEF SameSections
  <2> HIDE DEF v
  <2>2. SameSections(c, v)
    BY <2>1, Zenon DEF SameSections
  <2> QED  BY <2>2 DEF v
<1>5. SameSections(c, told)
  BY <1>1, <1>3, <1>4, KeepsSections!FoldKeeps
<1>6. d = [told EXCEPT !.unfinished = << >>]
  BY <1>2, Zenon DEF handleUnfinishedSections, sections
<1> HIDE DEF told
<1> QED  BY <1>5, <1>6, Zenon DEF SameSections, ContextFields

\* The active sections of the context c can be closed, innermost first.
Closable(t, active) ==
    /\ ~ t.illogical
    /\ active # << >> =>
          /\ DOMAIN t = Fields
          /\ IsActive(active, t.current)
          /\ \A n \in 2..Len(t.current) : /\ SubSeq(t.current, 1, n) \in DOMAIN t.nodes
                                          /\ DOMAIN t.nodes[SubSeq(t.current, 1, n)] = Parts
                                          /\ isOpen(t, SubSeq(t.current, 1, n))

IsClosable(p, c) == DOMAIN c = ContextFields /\ Closable(c.tracker, c.active)

\* The innermost one is closed.
LEMMA CloseStays ==
    ASSUME NEW t, NEW active, Closable(t, active), active # << >>, NEW u, u = close(t, Last(active))
    PROVE  Closable(u, Front(active))
<1> DEFINE p == t.current
           rest == Front(p)
<1>1. /\ DOMAIN t = Fields /\ IsActive(active, p) /\ ~ t.illogical
      /\ \A n \in 2..Len(p) : /\ SubSeq(p, 1, n) \in DOMAIN t.nodes
                              /\ DOMAIN t.nodes[SubSeq(p, 1, n)] = Parts
                              /\ isOpen(t, SubSeq(p, 1, n))
  BY DEF Closable
<1>2. Last(active) = p /\ IsActive(Front(active), rest) /\ IsSequence(p) /\ p # << >>
  <2>1. IsSequence(p) /\ p # << >>
    BY <1>1, Zenon DEF IsActive
  <2> HIDE DEF p
  <2>2. Last(active) = p /\ IsActive(Front(active), Front(p))
    BY <1>1, ActivePop, Zenon
  <2> QED  BY <2>1, <2>2, Zenon
<1>3. /\ Len(rest) \in Nat /\ Len(p) = Len(rest) + 1
      /\ \A n \in 0..Len(rest) : SubSeq(rest, 1, n) = SubSeq(p, 1, n)
  BY <1>2, FrontFacts
<1> HIDE DEF rest
<1>4. Len(p) # 1
  BY <1>1, ActiveEmpty
<1>5. /\ SubSeq(p, 1, Len(p)) = p
      /\ \A n \in 2..Len(rest) : SubSeq(p, 1, n) # p
  <2> DEFINE S == {p[n] : n \in DOMAIN p}
  <2>1. p \in Seq(S)
    BY <1>2 DEF IsSequence
  <2> HIDE DEF S, p
  <2>2. \A n \in 2..Len(rest) : Len(SubSeq(p, 1, n)) = n /\ n # Len(p)
    BY <1>3, <2>1
  <2>3. SubSeq(p, 1, Len(p)) = p
    BY <2>1
  <2> QED  BY <2>2, <2>3
<1>6. p \in DOMAIN t.nodes /\ DOMAIN t.nodes[p] = Parts /\ isOpen(t, p)
  <2>1. Len(p) \in 2..Len(p)
    BY <1>3, <1>4
  <2> QED  BY <1>1, <1>5, <2>1
<1> DEFINE node == t.nodes[p]
           last == Append(p, Last(node.children))
           done == \/ node.state = "Executing"
                   \/ node.state = "ExecutingChildren" /\ (node.children = << >> \/ isComplete(t, last))
           ended == SetState(t, p, "CompletedSuccessfully")
           closed == IF done THEN ended ELSE t
<1>7. ~ (t.current # p \/ node.state \in {"NotStarted", "CompletedSuccessfully", "Failed"})
  BY <1>6 DEF isOpen, isComplete
<1>8. u = completeCycle([closed EXCEPT !.current = rest])
  BY <1>2, <1>7, Zenon DEF close, rest
<1>9. StateIsSet(t, ended, p, "CompletedSuccessfully")
  BY <1>1, <1>6, SetStateFacts
<1> HIDE DEF ended, done
<1>10. /\ DOMAIN closed = Fields /\ closed.illogical = t.illogical
       /\ DOMAIN closed.nodes = DOMAIN t.nodes
       /\ \A q \in DOMAIN t.nodes : q # p => closed.nodes[q] = t.nodes[q]
  BY <1>1, <1>9, Zenon DEF StateIsSet
<1> HIDE DEF closed, node
<1>11. /\ DOMAIN u = Fields /\ u.illogical = t.illogical /\ u.current = rest /\ u.nodes = closed.nodes
  BY <1>8, <1>10, Zenon DEF completeCycle, Fields
<1>12. ASSUME NEW n \in 2..Len(rest)
       PROVE  LET q == SubSeq(rest, 1, n)
              IN  q \in DOMAIN u.nodes /\ DOMAIN u.nodes[q] = Parts /\ isOpen(u, q)
  <2> DEFINE q == SubSeq(rest, 1, n)
  <2>1. n \in 2..Len(p) /\ n \in 0..Len(rest)
    BY <1>3
  <2>2. q = SubSeq(p, 1, n) /\ q # p
    BY <1>3, <1>5, <2>1
  <2>3. q \in DOMAIN t.nodes /\ DOMAIN t.nodes[q] = Parts /\ isOpen(t, q)
    BY <1>1, <2>1, <2>2
  <2> HIDE DEF q, p
  <2>4. u.nodes[q] = t.nodes[q] /\ q \in DOMAIN u.nodes
    BY <1>10, <1>11, <2>2, <2>3, Zenon
  <2>5. isOpen(u, q)
    BY <2>3, <2>4, Zenon DEF isOpen, isComplete
  <2> QED  BY <2>3, <2>4, <2>5, Zenon DEF q
<1> QED  BY <1>1, <1>2, <1>11, <1>12, Zenon DEF Closable

\* The way to the current section is one of open ones.
LEMMA WayIsClosable ==
    ASSUME NEW t, NEW b, WellNested(b), NEW name, NEW path, NEW st, Shows(t, b, name, path, st),
           NEW i, Way(t, b, path, st, i), NEW active, IsActive(active, t.current)
    PROVE  Closable(t, active)
<1>1. /\ DOMAIN t = Fields /\ ~ t.illogical /\ KnowsSections(b, st) /\ HasPaths(b, name, path, st)
      /\ \A q \in DOMAIN t.nodes : DOMAIN t.nodes[q] = Parts
      /\ \A j \in DOMAIN st : path[j] \in DOMAIN t.nodes /\ t.nodes[path[j]].state = st[j]
  BY ShowsFacts
<1>2. /\ i \in DOMAIN st /\ t.current = path[i]
      /\ \A j \in Around(b, i) : st[j] = "ExecutingChildren"
      /\ st[i] = "Executing" \/ st[i] = "ExecutingChildren" \/ st[i] = "NeedsAnotherRun"
  BY DEF Way
<1>3. ASSUME NEW n \in 2..Len(t.current)
      PROVE  /\ SubSeq(t.current, 1, n) \in DOMAIN t.nodes
             /\ DOMAIN t.nodes[SubSeq(t.current, 1, n)] = Parts
             /\ isOpen(t, SubSeq(t.current, 1, n))
  <2>1. n \in 1..Len(path[i])
    BY <1>2
  <2>2. PICK j \in Around(b, i) \cup {i} : j \in DOMAIN st /\ path[j] = SubSeq(path[i], 1, n)
    BY <1>1, <1>2, <2>1, PrefixIsPath
  <2>3. st[j] = "Executing" \/ st[j] = "ExecutingChildren" \/ st[j] = "NeedsAnotherRun"
    BY <1>2
  <2>4. isOpen(t, path[j])
    BY <1>1, <2>2, <2>3 DEF isOpen, isComplete
  <2> QED  BY <1>1, <1>2, <2>2, <2>4
<1> QED  BY <1>1, <1>3, Zenon DEF Closable

\* The sections a signal found open can be closed, one after the other.
KeepsClosable == INSTANCE FoldInvariant WITH step <- UnfinishedStep, Good <- IsClosable

LEMMA UnfinishedClosable ==
    ASSUME NEW c, IsClosable(c, c), IsSequence(c.unfinished), NEW d, d = handleUnfinishedSections(c)
    PROVE  IsClosable(d, d) /\ d.unfinished = << >>
<1> DEFINE sections == Reverse(c.unfinished)
           told == KeepsClosable!Folded(c, c, sections)
<1>1. Len(sections) \in Nat
  <2>1. Len(c.unfinished) \in Nat
    BY SequenceFacts
  <2> QED  BY <2>1 DEF Reverse
<1>2. Fold(sectionEnded, c, sections) = told
  BY Zenon DEF KeepsClosable!Folded, KeepsClosable!Fold, Fold, UnfinishedStep
<1> HIDE DEF sections
<1>3. \A u : \A k \in 1..Len(sections) : IsClosable(c, u) => IsClosable(c, UnfinishedStep(c, u, sections[k]))
  <2> SUFFICES ASSUME NEW u, NEW k \in 1..Len(sections), IsClosable(c, u)
               PROVE  IsClosable(c, sectionEnded(u, sections[k]))
    BY Zenon DEF UnfinishedStep
  <2> DEFINE v == sectionEnded(u, sections[k])
  <2>1. /\ DOMAIN v = ContextFields
        /\ u.active = << >> => v.tracker = u.tracker /\ v.active = u.active
        /\ u.active # << >> => v.tracker = close(u.tracker, Last(u.active)) /\ v.active = Front(u.active)
    BY SectionEndedIs, Zenon DEF IsClosable
  <2> HIDE DEF v
  <2>2. Closable(v.tracker, v.active)
    BY <2>1, CloseStays DEF IsClosable
  <2> QED  BY <2>1, <2>2, Zenon DEF IsClosable, v
<1>4. IsClosable(c, told)
  BY <1>1, <1>3, KeepsClosable!FoldKeeps
<1>5. d = [told EXCEPT !.unfinished = << >>]
  BY <1>2, Zenon DEF handleUnfinishedSections, sections
<1> HIDE DEF told
<1>6. DOMAIN d = ContextFields /\ d.tracker = told.tracker /\ d.active = told.active /\ d.unfinished = << >>
  BY <1>4, <1>5, Zenon DEF IsClosable, ContextFields
<1> QED  BY <1>4, <1>6, Zenon DEF IsClosable

-----------------------------------------------------------------------------
(***************************************************************************)
(* The invariant of a test case: what the context c, the frame f and the   *)
(* history h say of the sections of the body b, while i is the current one *)
(***************************************************************************)
TestInv(t, h, b, name, path, st, i) ==
    /\ Shows(t, b, name, path, st)
    /\ InOrder(b, st)
    /\ Visited(b, st, h.visits, i)
    /\ ~ h.unwound => Thorough(b, st, h.visits)

\* Between two passes.
CycleInv(c, h, b, st) ==
    /\ 0 \in DOMAIN st => ~ IsDone(st[0])
    /\ h.cycles <= Cardinality(Finished(b, st))
    /\ c.active = << >> /\ c.unfinished = << >>

PassInv(c, f, h, b, path, st, i) ==
    /\ Way(c.tracker, b, path, st, i)
    /\ IsActive(c.active, c.tracker.current)
    /\ IsSequence(f.open) /\ Len(f.open) = Len(c.active)
    /\ h.cycles <= Cardinality(Finished(b, st)) + (IF c.tracker.run = "Executing" THEN 1 ELSE 0)

BodyInv(c, f, b, st, i) ==
    /\ f.ip \in 1..(Len(b) + 1) /\ i = Inner(b, f.ip)
    /\ c.unfinished = << >>
    /\ Seen(c.tracker, b, st, f.ip)
    /\ Left(c.tracker, b, st, f.ip)

UnwindingInv(c, h, b, st, i) ==
    /\ c.unfinished = << >> /\ ~ h.unwound => i \in Leaves(b)
    /\ c.unfinished # << >> => Waits(c.tracker, b, st, i)

ReturnInv(c, h, b, st, i) ==
    /\ i = 0
    /\ \/ h.unwound
       \/ Waits(c.tracker, b, st, i)
       \/ Seen(c.tracker, b, st, Len(b) + 1)

\* The same at the places of the process.
AtCycle(c, h, b, name)        == \E path, st    : TestInv(c.tracker, h, b, name, path, st, 0) /\ CycleInv(c, h, b, st)
AtBody(c, f, h, b, name)      == \E path, st, i : /\ TestInv(c.tracker, h, b, name, path, st, i)
                                                  /\ PassInv(c, f, h, b, path, st, i) /\ BodyInv(c, f, b, st, i)
AtUnwinding(c, f, h, b, name) == \E path, st, i : /\ TestInv(c.tracker, h, b, name, path, st, i)
                                                  /\ PassInv(c, f, h, b, path, st, i) /\ UnwindingInv(c, h, b, st, i)
AtReturn(c, f, h, b, name)    == \E path, st, i : /\ TestInv(c.tracker, h, b, name, path, st, i)
                                                  /\ PassInv(c, f, h, b, path, st, i) /\ ReturnInv(c, h, b, st, i)

\* From st to s sections may have become known or have been entered, but none has ended.
NoneEnded(st, s) ==
    /\ DOMAIN st \subseteq DOMAIN s
    /\ \A i \in DOMAIN s : IsDone(s[i]) <=> i \in DOMAIN st /\ IsDone(st[i])

LEMMA FoundEndsNone ==
    ASSUME NEW st, NEW s, NEW k, s = st \/ IsFound(st, s, k)
    PROVE  NoneEnded(st, s)
<1>1. CASE s = st
  BY <1>1, Zenon DEF NoneEnded
<1>2. CASE IsFound(st, s, k)
  <2>1. ~ IsDone(s[k])
    BY <1>2 DEF IsFound, IsDone
  <2> QED  BY <1>2, <2>1 DEF IsFound, NoneEnded
<1> QED  BY <1>1, <1>2

LEMMA EnteredEndsNone ==
    ASSUME NEW st, NEW s, NEW k, NEW c, IsEntered(st, s, k, c)
    PROVE  NoneEnded(st, s)
<1>1. ~ IsDone(s[k]) /\ ~ IsDone(s[c]) /\ ~ IsDone(st[c])
  BY DEF IsEntered, IsDone
<1> QED  BY <1>1 DEF IsEntered, NoneEnded

(***************************************************************************)
(* A section is asked for: the tracker finds it or adds it, and enters it  *)
(* or leaves it for another pass.                                          *)
(***************************************************************************)
\* The tracker f of t shows the section k at p.
Finds(t, h, b, name, st, k, p, f) ==
    /\ f.run = t.run /\ f.current = t.current
    /\ \E s, w : /\ TestInv(f, h, b, name, w, s, Inner(b, k)) /\ Way(f, b, w, s, Inner(b, k))
                 /\ Seen(f, b, s, k) /\ Left(f, b, s, k)
                 /\ NoneEnded(st, s) /\ k \in DOMAIN s /\ w[k] = p

\* The section k, found in the order of the body.
LEMMA FindWalk ==
    ASSUME NEW t, NEW h, NEW b, WellNested(b), NEW name, NEW path, NEW st, NEW k \in SectionsOf(b),
           TestInv(t, h, b, name, path, st, Inner(b, k)), Way(t, b, path, st, Inner(b, k)),
           Seen(t, b, st, k), Left(t, b, st, k),
           NEW p, NEW f, IsAskedFor(t, f, p, SectionKey(b[k]))
    PROVE  Finds(t, h, b, name, st, k, p, f)
<1> DEFINE c == Inner(b, k)
<1>1. /\ Shows(t, b, name, path, st) /\ InOrder(b, st) /\ Visited(b, st, h.visits, c)
      /\ ~ h.unwound => Thorough(b, st, h.visits)
  BY DEF TestInv
<1>2. /\ c \in DOMAIN st /\ t.current = path[c]
      /\ \A i \in Around(b, c) : i \in DOMAIN st /\ st[i] = "ExecutingChildren"
      /\ t.run = "Executing" \/ t.run = "CompletedCycle"
      /\ t.run = "Executing" <=> st[c] = "Executing"
      /\ t.run = "CompletedCycle" => st[c] = "ExecutingChildren" \/ st[c] = "NeedsAnotherRun"
  BY DEF Way
<1>3. /\ f.current = t.current /\ f.run = t.run
      /\ \E s, w : /\ Shows(f, b, name, w, s) /\ Extends(st, path, s, w) /\ k \in DOMAIN s /\ w[k] = p
                   /\ s = st \/ IsFound(st, s, k)
  <2>1. Shows(t, b, name, path, st) /\ InOrder(b, st) /\ Inner(b, k) \in DOMAIN st /\ t.current = path[Inner(b, k)]
    BY <1>1, <1>2, Zenon
  <2> QED  BY <2>1, FindShows
<1>4. PICK s, w : /\ Shows(f, b, name, w, s) /\ Extends(st, path, s, w) /\ k \in DOMAIN s /\ w[k] = p
                  /\ s = st \/ IsFound(st, s, k)
  BY <1>3, Zenon
<1>5. NoneEnded(st, s)
  BY <1>4, FoundEndsNone
<1>6. InOrder(b, s) /\ Visited(b, s, h.visits, c) /\ Seen(t, b, s, k) /\ Left(t, b, s, k)
  <2>1. CASE s = st
    BY <1>1, <2>1
  <2>2. CASE IsFound(st, s, k)
    <3>1. \A j \in SectionsOf(b) : j < k /\ Inner(b, j) = Inner(b, k) => j \in DOMAIN st
      BY InnerIsBefore DEF Seen
    <3> QED  BY <1>1, <2>2, <3>1, FoundInOrder, FoundVisited, SeenFound
  <2> QED  BY <1>4, <2>1, <2>2
<1>7. ~ h.unwound => Thorough(b, s, h.visits)
  BY <1>1, <1>5, StillThorough DEF NoneEnded
<1>8. Seen(f, b, s, k) /\ Left(f, b, s, k)
  BY <1>3, <1>6, Zenon DEF Seen, Left
<1>9. Way(f, b, w, s, c)
  <2>1. /\ c \in DOMAIN s /\ s[c] = st[c] /\ w[c] = path[c]
        /\ \A i \in Around(b, c) : i \in DOMAIN s /\ s[i] = "ExecutingChildren"
    BY <1>2, <1>4 DEF Extends
  <2> QED  BY <1>2, <1>3, <2>1, Zenon DEF Way
<1>10. TestInv(f, h, b, name, w, s, c)
  BY <1>4, <1>6, <1>7, Zenon DEF TestInv
<1> QED  BY <1>3, <1>4, <1>5, <1>8, <1>9, <1>10, Zenon DEF c, Finds

\* It is entered.
LEMMA EnterWalk ==
    ASSUME NEW t, NEW h, NEW b, WellNested(b), NEW name, NEW path, NEW st, NEW k \in SectionsOf(b),
           TestInv(t, h, b, name, path, st, Inner(b, k)), Way(t, b, path, st, Inner(b, k)),
           Seen(t, b, st, k), Left(t, b, st, k), k \in DOMAIN st, ~ IsDone(st[k]), t.run = "Executing",
           NEW u, u = open(t, path[k]),
           NEW g, g.unwound = h.unwound, g.visits = IF k \in Leaves(b) THEN Append(h.visits, k) ELSE h.visits
    PROVE  /\ u.run = "Executing" /\ u.current = path[k]
           /\ \E s : /\ TestInv(u, g, b, name, path, s, k) /\ Way(u, b, path, s, k)
                     /\ Seen(u, b, s, k + 1) /\ Left(u, b, s, k + 1)
                     /\ NoneEnded(st, s) /\ s[k] = "Executing"
<1> DEFINE c == Inner(b, k)
<1>1. /\ Shows(t, b, name, path, st) /\ InOrder(b, st) /\ Visited(b, st, h.visits, c)
      /\ ~ h.unwound => Thorough(b, st, h.visits)
  BY DEF TestInv
<1>2. /\ u.run = "Executing" /\ u.current = path[k]
      /\ \E s : Shows(u, b, name, path, s) /\ IsEntered(st, s, k, c)
  BY <1>1, EnterShows
<1>3. PICK s : Shows(u, b, name, path, s) /\ IsEntered(st, s, k, c)
  BY <1>2, Zenon
<1>4. NoneEnded(st, s)
  BY <1>3, EnteredEndsNone
<1>5. c \in Around(b, k) /\ c < k /\ c \in Nat /\ k \in Nat
  BY InnerIsBefore
<1>6. \A j \in SectionsOf(b) : j < k /\ Inner(b, j) = c => IsDone(st[j])
  <2> SUFFICES ASSUME NEW j \in SectionsOf(b), j < k, Inner(b, j) = c PROVE IsDone(st[j])
    OBVIOUS
  <2>1. c < j
    BY InnerIsBefore
  <2>2. j \notin Around(b, k)
    <3>1. k \in 1..(Len(b) + 1)
      BY BodyFacts
    <3>2. \A i \in Around(b, k) : i <= c /\ i \in 0..(k - 1)
      BY <3>1, AroundFacts
    <3> QED  BY <1>5, <2>1, <3>2
  <2> QED  BY <1>5, <2>2 DEF Seen
<1>7. InOrder(b, s)
  BY <1>1, <1>3, <1>6, EnteredInOrder
<1>8. Visited(b, s, g.visits, k)
  BY <1>1, <1>3, EnteredVisited
<1>9. ~ g.unwound => Thorough(b, s, g.visits)
  <2>1. ToSet(h.visits) \subseteq ToSet(g.visits)
    <3>1. k \notin Leaves(b) => g.visits = h.visits
      OBVIOUS
    <3>2. k \in Leaves(b) => g.visits = Append(h.visits, k)
      OBVIOUS
    <3>3. h.visits \in Seq(Leaves(b))
      BY <1>1 DEF Visited
    <3>4. ToSet(h.visits) \subseteq ToSet(Append(h.visits, k))
      <4> DEFINE v == h.visits
      <4>1. v \in Seq(Leaves(b))
        BY <3>3
      <4> HIDE DEF v
      <4>2. /\ DOMAIN v = 1..Len(v) /\ Len(v) \in Nat /\ DOMAIN Append(v, k) = 1..(Len(v) + 1)
            /\ \A n \in 1..Len(v) : Append(v, k)[n] = v[n]
        BY <4>1
      <4>3. \A n \in DOMAIN v : n \in DOMAIN Append(v, k) /\ Append(v, k)[n] = v[n]
        BY <4>2
      <4>4. \A x \in ToSet(v) : x \in ToSet(Append(v, k))
        BY <4>3, Zenon DEF ToSet
      <4> QED  BY <4>4 DEF v
    <3> QED  BY <3>1, <3>2, <3>4
  <2> QED  BY <1>1, <1>4, <2>1, StillThorough DEF NoneEnded
<1>10. Seen(u, b, s, k + 1) /\ Left(u, b, s, k + 1)
  BY <1>2, <1>3, SeenEntered
<1>11. s[k] = "Executing" /\ k \in DOMAIN s
  BY <1>3 DEF IsEntered
<1>12. \A i \in Around(b, k) : i \in DOMAIN s /\ s[i] = "ExecutingChildren"
  <2> SUFFICES ASSUME NEW i \in Around(b, k) PROVE i \in DOMAIN s /\ s[i] = "ExecutingChildren"
    OBVIOUS
  <2>1. CASE i = c
    BY <1>3, <2>1 DEF IsEntered
  <2>2. CASE i # c
    <3>1. k \in 1..(Len(b) + 1)
      BY BodyFacts
    <3>2. i \in Around(b, c) /\ i \in 0..(k - 1)
      BY <2>2, <3>1, AroundFacts
    <3>3. i # k
      BY <1>5, <3>2
    <3> QED  BY <1>3, <2>2, <3>2, <3>3 DEF Way, IsEntered
  <2> QED  BY <2>1, <2>2
<1>13. Way(u, b, path, s, k)
  BY <1>2, <1>11, <1>12, Zenon DEF Way
<1>14. TestInv(u, g, b, name, path, s, k)
  BY <1>3, <1>7, <1>8, <1>9, Zenon DEF TestInv
<1> QED  BY <1>2, <1>4, <1>10, <1>11, <1>13, <1>14, Zenon

\* RunContext::sectionStarted: the tracker u at p is asked whether it is open.
IsAsked(c, info, u, p, d) ==
    /\ u = acquire(c.tracker, SectionKey(info)) /\ p = Append(c.tracker.current, SectionKey(info))
    /\ d = sectionStarted(c, info).context

LEMMA SectionStartedIs ==
    ASSUME NEW c, DOMAIN c = ContextFields, NEW info, NEW u, NEW p, NEW d, IsAsked(c, info, u, p, d)
    PROVE  /\ sectionStarted(c, info).entered <=> isOpen(u, p)
           /\ DOMAIN d = ContextFields /\ d.tracker = u /\ d.unfinished = c.unfinished
           /\ d.active = IF isOpen(u, p) THEN Append(c.active, p) ELSE c.active
<1> /\ u = acquire(c.tracker, SectionKey(info)) /\ p = Append(c.tracker.current, SectionKey(info))
    /\ d = sectionStarted(c, info).context
  BY Zenon DEF IsAsked
<1> DEFINE asked == [c EXCEPT !.tracker = acquire(@, SectionKey(info))]
           noted == [asked EXCEPT !.active = Append(@, p)]
           e     == [type |-> "sectionStarting", line |-> info.line]
<1>1. /\ DOMAIN asked = ContextFields /\ asked.tracker = u /\ asked.unfinished = c.unfinished /\ asked.active = c.active
  BY Zenon DEF ContextFields
<1>2. sectionStarted(c, info) = IF ~ isOpen(asked.tracker, p) THEN [entered |-> FALSE, context |-> asked]
                                ELSE [entered |-> TRUE, context |-> Report(noted, e)]
  BY Zenon DEF sectionStarted
<1> HIDE DEF asked, e
<1>3. /\ DOMAIN noted = ContextFields /\ noted.tracker = u /\ noted.unfinished = c.unfinished
      /\ noted.active = Append(c.active, p)
  BY <1>1, Zenon DEF ContextFields
<1> HIDE DEF noted
<1>4. SameSections(noted, Report(noted, e))
  BY <1>3, ReportSame, Zenon
<1>5. CASE ~ isOpen(u, p)
  <2>1. sectionStarted(c, info) = [entered |-> FALSE, context |-> asked]
    BY <1>1, <1>2, <1>5, Zenon
  <2> DEFINE r == sectionStarted(c, info)
  <2>2. ~ r.entered /\ d = asked
    <3>1. r = [entered |-> FALSE, context |-> asked] /\ d = r.context
      BY <2>1
    <3> HIDE DEF r
    <3> QED  BY <3>1
  <2> QED  BY <1>1, <1>5, <2>2, Zenon
<1>6. CASE isOpen(u, p)
  <2>1. sectionStarted(c, info) = [entered |-> TRUE, context |-> Report(noted, e)]
    BY <1>1, <1>2, <1>6, Zenon
  <2> DEFINE r   == sectionStarted(c, info)
             out == Report(noted, e)
  <2>2. r.entered /\ d = Report(noted, e)
    <3>1. r = [entered |-> TRUE, context |-> out] /\ d = r.context
      BY <2>1
    <3> HIDE DEF r, out
    <3>2. r.entered /\ d = out
      BY <3>1
    <3> QED  BY <3>2 DEF out
  <2> QED  BY <1>3, <1>4, <1>6, <2>2, Zenon DEF SameSections
<1> QED  BY <1>5, <1>6

\* What Section does to the context, the frame and the history.
SectionStep(c, f, h, b, d, g, o) ==
    LET s == sectionStarted(c, b[f.ip])
    IN  /\ d = s.context
        /\ g = IF s.entered
               THEN [f EXCEPT !.ip = @ + 1,
                              !.open = Append(@, [line |-> b[f.ip].line, prev |-> c.totals.assertions])]
               ELSE [f EXCEPT !.ip = b[f.ip].end + 1]
        /\ o = IF s.entered /\ f.ip \in Leaves(b) THEN [h EXCEPT !.visits = Append(@, f.ip)] ELSE h

FrameFields   == {"ip", "open", "prev", "thrown", "armed"}
HistoryFields == {"visits", "cycles", "unwound", "before", "bad", "depth"}

Shaped(c, f, h) ==
    /\ DOMAIN c = ContextFields /\ DOMAIN f = FrameFields /\ DOMAIN h = HistoryFields
    /\ IsSequence(c.unfinished) /\ h.cycles \in Nat

LEMMA SectionWalk ==
    ASSUME NEW c, NEW f, NEW h, Shaped(c, f, h), NEW b, WellNested(b), NEW name, AtBody(c, f, h, b, name),
           f.ip \in SectionsOf(b), NEW d, NEW g, NEW o, SectionStep(c, f, h, b, d, g, o)
    PROVE  Shaped(d, g, o) /\ AtBody(d, g, o, b, name)
<1> DEFINE k == f.ip
           t == c.tracker
           key == SectionKey(b[k])
           p == Append(t.current, key)
           u == acquire(t, key)
           q == Found(t, p, key)
           i == Inner(b, k)
<1>1. PICK path, st, j : /\ TestInv(t, h, b, name, path, st, j)
                         /\ PassInv(c, f, h, b, path, st, j) /\ BodyInv(c, f, b, st, j)
  BY Zenon DEF AtBody
<1>2. /\ TestInv(t, h, b, name, path, st, i) /\ Way(t, b, path, st, i) /\ Seen(t, b, st, k) /\ Left(t, b, st, k)
      /\ IsActive(c.active, t.current) /\ IsSequence(f.open) /\ Len(f.open) = Len(c.active)
      /\ h.cycles <= Cardinality(Finished(b, st)) + (IF t.run = "Executing" THEN 1 ELSE 0)
      /\ c.unfinished = << >>
  BY <1>1, Zenon DEF PassInv, BodyInv
<1>3. IsAskedFor(t, q, p, key)
  BY Zenon DEF IsAskedFor
<1>4. u = IF completedCycle(q) \/ isComplete(q, p) THEN q ELSE open(q, p)
  BY AcquireIs, Zenon
<1>5. /\ DOMAIN c = ContextFields /\ DOMAIN f = FrameFields /\ DOMAIN h = HistoryFields /\ h.cycles \in Nat
      /\ IsSequence(c.unfinished)
  BY DEF Shaped
<1>6. /\ sectionStarted(c, b[k]).entered <=> isOpen(u, p)
      /\ DOMAIN d = ContextFields /\ d.tracker = u /\ d.unfinished = c.unfinished
      /\ d.active = IF isOpen(u, p) THEN Append(c.active, p) ELSE c.active
  <2>1. IsAsked(c, b[k], u, p, d)
    BY Zenon DEF IsAsked, SectionStep
  <2> HIDE DEF u, p, k
  <2> QED  BY <1>5, <2>1, SectionStartedIs, Zenon
<1> HIDE DEF u, q, p, key
<1>7. /\ q.run = t.run /\ q.current = t.current
      /\ \E s, w : /\ TestInv(q, h, b, name, w, s, i) /\ Way(q, b, w, s, i) /\ Seen(q, b, s, k) /\ Left(q, b, s, k)
                   /\ NoneEnded(st, s) /\ k \in DOMAIN s /\ w[k] = p
  <2> HIDE DEF t, i, k
  <2>1. /\ TestInv(t, h, b, name, path, st, Inner(b, k)) /\ Way(t, b, path, st, Inner(b, k))
        /\ Seen(t, b, st, k) /\ Left(t, b, st, k)
        /\ IsAskedFor(t, q, p, SectionKey(b[k])) /\ k \in SectionsOf(b)
    BY <1>2, <1>3, Zenon DEF key, i, k
  <2>2. Finds(t, h, b, name, st, k, p, q)
    BY <2>1, FindWalk
  <2> QED  BY <2>2, Zenon DEF Finds, i
<1>8. PICK s, w : /\ TestInv(q, h, b, name, w, s, i) /\ Way(q, b, w, s, i) /\ Seen(q, b, s, k) /\ Left(q, b, s, k)
                  /\ NoneEnded(st, s) /\ k \in DOMAIN s /\ w[k] = p
  BY <1>7, Zenon
<1>9. q.nodes[p].state = s[k]
  <2>1. Shows(q, b, name, w, s)
    BY <1>8, Zenon DEF TestInv
  <2>2. \A n \in DOMAIN s : q.nodes[w[n]].state = s[n]
    BY <2>1, ShowsFacts
  <2> QED  BY <1>8, <2>2, Zenon
<1>10. /\ completedCycle(q) <=> t.run = "CompletedCycle"
       /\ isComplete(q, p) <=> IsDone(s[k])
  BY <1>7, <1>9 DEF completedCycle, isComplete, IsDone
<1>11. t.run = "Executing" \/ t.run = "CompletedCycle"
  BY <1>2, Zenon DEF Way
<1>12. /\ i \in Around(b, k) /\ i < k /\ k \in Nat /\ k + 1 \in 1..(Len(b) + 1)
       /\ b[k].end + 1 \in 1..(Len(b) + 1) /\ k \in 1..Len(b)
  <2>1. i \in Around(b, k) /\ i < k
    BY InnerIsBefore
  <2>2. k \in 1..Len(b) /\ b[k].end \in (k + 1)..Len(b) /\ Len(b) \in Nat
    BY BodyFacts
  <2> QED  BY <2>1, <2>2
<1>13. CASE t.run = "Executing" /\ ~ IsDone(s[k])
  <2>1. u = open(q, w[k])
    BY <1>4, <1>8, <1>10, <1>13, Zenon
  <2> DEFINE more == IF k \in Leaves(b) THEN [h EXCEPT !.visits = Append(@, k)] ELSE h
  <2>2. /\ DOMAIN more = HistoryFields /\ more.unwound = h.unwound /\ more.cycles = h.cycles
        /\ more.visits = IF k \in Leaves(b) THEN Append(h.visits, k) ELSE h.visits
    BY <1>5, Zenon DEF HistoryFields
  <2> HIDE DEF more
  <2>3. /\ u.run = "Executing" /\ u.current = w[k]
        /\ \E z : /\ TestInv(u, more, b, name, w, z, k) /\ Way(u, b, w, z, k)
                  /\ Seen(u, b, z, k + 1) /\ Left(u, b, z, k + 1)
                  /\ NoneEnded(s, z) /\ z[k] = "Executing"
    BY <1>7, <1>8, <1>13, <2>1, <2>2, EnterWalk
  <2>4. PICK z : /\ TestInv(u, more, b, name, w, z, k) /\ Way(u, b, w, z, k)
                 /\ Seen(u, b, z, k + 1) /\ Left(u, b, z, k + 1)
                 /\ NoneEnded(s, z) /\ z[k] = "Executing"
    BY <2>3, Zenon
  <2>5. isOpen(u, p)
    <3>1. Shows(u, b, name, w, z) /\ k \in DOMAIN z
      BY <2>4, Zenon DEF TestInv, Way
    <3>2. u.nodes[w[k]].state = z[k]
      BY <3>1, ShowsFacts
    <3> QED  BY <1>8, <2>4, <3>2 DEF isOpen, isComplete
  <2> DEFINE mark == [line |-> b[k].line, prev |-> c.totals.assertions]
  <2>6. g = [f EXCEPT !.ip = @ + 1, !.open = Append(@, mark)] /\ o = more
    BY <1>6, <2>5, Zenon DEF SectionStep, more
  <2> HIDE DEF mark
  <2>7. DOMAIN g = FrameFields /\ g.ip = k + 1 /\ g.open = Append(f.open, mark)
    BY <1>5, <2>6, Zenon DEF FrameFields
  <2>8. d.active = Append(c.active, p) /\ IsActive(d.active, d.tracker.current)
    <3>1. d.active = Append(c.active, p)
      BY <1>6, <2>5, Zenon
    <3>2. IsActive(Append(c.active, p), p)
      BY <1>2, ActivePush DEF p
    <3> QED  BY <1>6, <1>8, <2>3, <3>1, <3>2, Zenon
  <2>9. IsSequence(g.open) /\ Len(g.open) = Len(d.active)
    <3>1. IsSequence(c.active)
      BY <1>2 DEF IsActive
    <3>2. /\ IsSequence(Append(f.open, mark)) /\ Len(Append(f.open, mark)) = Len(f.open) + 1
      BY <1>2, AppendFacts
    <3>3. Len(Append(c.active, p)) = Len(c.active) + 1
      BY <3>1, AppendFacts
    <3> QED  BY <1>2, <2>7, <2>8, <3>2, <3>3, Zenon
  <2>10. h.cycles <= Cardinality(Finished(b, z)) + 1
    <3>1. NoneEnded(st, z)
      BY <1>8, <2>4 DEF NoneEnded
    <3>2. Finished(b, z) = Finished(b, st)
      BY <3>1, FinishedStays DEF NoneEnded
    <3> QED  BY <1>2, <1>13, <3>2
  <2>11. PassInv(d, g, o, b, w, z, k)
    <3>1. (IF d.tracker.run = "Executing" THEN 1 ELSE 0) = 1
      BY <1>6, <2>3, Zenon
    <3> QED  BY <1>6, <2>2, <2>4, <2>6, <2>8, <2>9, <2>10, <3>1, Zenon DEF PassInv
  <2>12. BodyInv(d, g, b, z, k)
    <3>1. Inner(b, k + 1) = k
      BY AroundEntered
    <3> QED  BY <1>2, <1>6, <1>12, <2>4, <2>7, <3>1, Zenon DEF BodyInv
  <2>13. TestInv(d.tracker, o, b, name, w, z, k)
    BY <1>6, <2>4, <2>6, Zenon
  <2>14. Shaped(d, g, o)
    BY <1>5, <1>6, <2>2, <2>6, <2>7, Zenon DEF Shaped
  <2> QED  BY <2>11, <2>12, <2>13, <2>14, Zenon DEF AtBody
<1>14. CASE ~ (t.run = "Executing" /\ ~ IsDone(s[k]))
  <2>1. u = q
    BY <1>4, <1>10, <1>11, <1>14, Zenon
  <2>2. ~ isOpen(u, p)
    <3>1. CASE IsDone(s[k])
      BY <1>10, <2>1, <3>1, Zenon DEF isOpen
    <3>2. CASE ~ IsDone(s[k])
      <4>1. q.run = "CompletedCycle"
        BY <1>7, <1>11, <1>14, <3>2, Zenon
      <4>2. k \in Known(b, s) /\ k >= k
        BY <1>8, <1>12 DEF Known
      <4>3. s[k] = "NotStarted"
        BY <1>8, <1>12, <4>1, <4>2 DEF Left
      <4> QED  BY <1>9, <2>1, <4>3, Zenon DEF isOpen
    <3> QED  BY <3>1, <3>2
  <2>3. g = [f EXCEPT !.ip = b[k].end + 1] /\ o = h
    BY <1>6, <2>2, Zenon DEF SectionStep
  <2>4. DOMAIN g = FrameFields /\ g.ip = b[k].end + 1 /\ g.open = f.open
    BY <1>5, <2>3, Zenon DEF FrameFields
  <2>5. d.active = c.active /\ d.tracker = q
    BY <1>6, <2>1, <2>2, Zenon
  <2>6. Seen(q, b, s, b[k].end + 1) /\ Left(q, b, s, b[k].end + 1)
    <3>1. q.run = "Executing" => IsDone(s[k])
      BY <1>7, <1>14, Zenon
    <3> QED  BY <1>8, <3>1, SeenPassed
  <2>7. h.cycles <= Cardinality(Finished(b, s)) + (IF q.run = "Executing" THEN 1 ELSE 0)
    <3>1. Finished(b, s) = Finished(b, st)
      BY <1>8, FinishedStays DEF NoneEnded
    <3> QED  BY <1>2, <1>7, <3>1, Zenon
  <2>8. PassInv(d, g, o, b, w, s, i)
    BY <1>2, <1>7, <1>8, <2>3, <2>4, <2>5, <2>7, Zenon DEF PassInv
  <2>9. BodyInv(d, g, b, s, i)
    <3>1. Inner(b, b[k].end + 1) = i
      BY AroundPassed
    <3> QED  BY <1>2, <1>6, <1>12, <2>4, <2>5, <2>6, <3>1, Zenon DEF BodyInv
  <2>10. TestInv(d.tracker, o, b, name, w, s, i)
    BY <1>8, <2>3, <2>5, Zenon
  <2>11. Shaped(d, g, o)
    BY <1>5, <1>6, <2>3, <2>4, Zenon DEF Shaped
  <2> QED  BY <2>8, <2>9, <2>10, <2>11, Zenon DEF AtBody
<1> QED  BY <1>13, <1>14

(***************************************************************************)
(* A pass starts at the first instruction of the body.                     *)
(***************************************************************************)
StartStep(c, h, name, d, g, o) ==
    /\ d = Report([c EXCEPT !.tracker = acquire(startCycle(@), name)], [type |-> "sectionStarting", line |-> 0])
    /\ g = [NoFrame EXCEPT !.prev = c.totals.assertions]
    /\ o = [h EXCEPT !.cycles = @ + 1]

LEMMA StartWalk ==
    ASSUME NEW c, NEW f, NEW h, Shaped(c, f, h), NEW b, WellNested(b), NEW name, AtCycle(c, h, b, name),
           NEW d, NEW g, NEW o, StartStep(c, h, name, d, g, o)
    PROVE  Shaped(d, g, o) /\ AtBody(d, g, o, b, name)
<1> DEFINE t == c.tracker
           u == acquire(startCycle(t), name)
           e == [type |-> "sectionStarting", line |-> 0]
           r == [c EXCEPT !.tracker = u]
<1>1. PICK path, st : TestInv(t, h, b, name, path, st, 0) /\ CycleInv(c, h, b, st)
  BY Zenon DEF AtCycle
<1>2. /\ Shows(t, b, name, path, st) /\ InOrder(b, st) /\ Visited(b, st, h.visits, 0)
      /\ ~ h.unwound => Thorough(b, st, h.visits)
  BY <1>1, Zenon DEF TestInv
<1>3. /\ 0 \in DOMAIN st => ~ IsDone(st[0])
      /\ h.cycles <= Cardinality(Finished(b, st)) /\ c.active = << >> /\ c.unfinished = << >>
  BY <1>1, Zenon DEF CycleInv
<1>4. /\ DOMAIN c = ContextFields /\ DOMAIN h = HistoryFields /\ h.cycles \in Nat
  BY DEF Shaped
<1>5. /\ DOMAIN d = ContextFields /\ d.tracker = u /\ d.active = << >> /\ d.unfinished = << >>
  <2>1. /\ DOMAIN r = ContextFields /\ r.tracker = u /\ r.active = << >> /\ r.unfinished = << >>
    BY <1>3, <1>4, Zenon DEF ContextFields
  <2>2. d = Report(r, e)
    BY Zenon DEF StartStep
  <2> HIDE DEF r, e, u
  <2>3. SameSections(r, d)
    BY <2>1, <2>2, ReportSame, Zenon
  <2> QED  BY <2>1, <2>3, Zenon DEF SameSections
<1>6. /\ DOMAIN g = FrameFields /\ g.ip = 1 /\ g.open = << >>
  BY Zenon DEF StartStep, NoFrame, FrameFields
<1>7. /\ DOMAIN o = HistoryFields /\ o.visits = h.visits /\ o.unwound = h.unwound /\ o.cycles = h.cycles + 1
  BY <1>4, Zenon DEF StartStep, HistoryFields
<1>8. PICK s, w : /\ Shows(u, b, name, w, s) /\ TestStarted(st, s)
                  /\ u.run = "Executing" /\ u.current = w[0]
  <2>1. \E s, w : /\ Shows(u, b, name, w, s) /\ TestStarted(st, s)
                  /\ u.run = "Executing" /\ u.current = w[0]
    <3>1. u = acquire(startCycle(t), name)
      OBVIOUS
    <3> HIDE DEF u, t
    <3> QED  BY <1>2, <1>3, <3>1, AcquireTest
  <2> QED  BY <2>1, Zenon
<1> HIDE DEF u, t, r, e
<1>9. /\ DOMAIN s = DOMAIN st \cup {0} /\ s[0] = "Executing" /\ ~ IsDone(s[0])
      /\ \A i \in DOMAIN st : i # 0 => s[i] = st[i]
  BY <1>8 DEF TestStarted, IsDone
<1>10. /\ SectionsOf(b) \subseteq 1..Len(b) /\ Len(b) \in Nat
       /\ \A k \in SectionsOf(b) : k # 0 /\ k >= 1
       /\ \A l \in Leaves(b) : l # 0 /\ l \in SectionsOf(b)
  <2>1. SectionsOf(b) \subseteq 1..Len(b) /\ Len(b) \in Nat
    BY BodyFacts
  <2>2. \A l \in Leaves(b) : l \in SectionsOf(b)
    BY LeafFacts
  <2> QED  BY <2>1, <2>2
<1>11. \A k \in SectionsOf(b) : (k \in DOMAIN s <=> k \in DOMAIN st) /\ (k \in DOMAIN st => s[k] = st[k])
  BY <1>9, <1>10
<1>12. InOrder(b, s)
  BY <1>2, <1>11, Zenon DEF InOrder, Siblings
<1>13. Visited(b, s, h.visits, 0)
  <2>1. /\ h.visits \in Seq(Leaves(b)) /\ IsInjective(h.visits)
        /\ \A n \in DOMAIN h.visits : h.visits[n] \in DOMAIN st /\ (IsDone(st[h.visits[n]]) \/ h.visits[n] = 0)
        /\ \A l \in Leaves(b) \cap DOMAIN st :
              /\ st[l] # "ExecutingChildren" /\ st[l] # "NeedsAnotherRun"
              /\ st[l] # "NotStarted" => l \in ToSet(h.visits)
    BY <1>2, Zenon DEF Visited
  <2>2. \A n \in DOMAIN h.visits : h.visits[n] \in Leaves(b)
    BY <1>2, VisitedFacts
  <2>3. \A n \in DOMAIN h.visits : h.visits[n] \in DOMAIN s /\ (IsDone(s[h.visits[n]]) \/ h.visits[n] = 0)
    BY <1>10, <1>11, <2>1, <2>2, Zenon
  <2>4. \A l \in Leaves(b) \cap DOMAIN s :
              /\ s[l] # "ExecutingChildren" /\ s[l] # "NeedsAnotherRun"
              /\ s[l] # "NotStarted" => l \in ToSet(h.visits)
    BY <1>10, <1>11, <2>1, Zenon
  <2> QED  BY <2>1, <2>3, <2>4, Zenon DEF Visited
<1>14. ~ o.unwound => Thorough(b, s, o.visits)
  <2>1. \A i \in DOMAIN s : IsDone(s[i]) => i \in DOMAIN st /\ IsDone(st[i])
    BY <1>9
  <2> QED  BY <1>2, <1>7, <2>1, StillThorough
<1>15. TestInv(d.tracker, o, b, name, w, s, 0)
  BY <1>5, <1>7, <1>8, <1>12, <1>13, <1>14, Zenon DEF TestInv
<1>16. Way(d.tracker, b, w, s, 0)
  <2>1. Around(b, 0) = {} /\ 0 \in DOMAIN s
    BY <1>9 DEF Around
  <2>2. "Executing" # "CompletedCycle"
    OBVIOUS
  <2> QED  BY <1>5, <1>8, <1>9, <2>1, <2>2, Zenon DEF Way
<1>17. IsActive(d.active, d.tracker.current)
  <2>1. KnowsSections(b, s) /\ HasPaths(b, name, w, s) /\ 0 \in DOMAIN s
    BY <1>8, <1>9, ShowsFacts
  <2>2. IsSequence(w[0]) /\ w[0] # Root /\ Len(w[0]) = 1
    BY <2>1, PathFacts
  <2>3. IsActive(<< >>, w[0])
    BY <2>2 DEF IsActive, IsSequence, Root
  <2> QED  BY <1>5, <1>8, <2>3, Zenon
<1>18. o.cycles <= Cardinality(Finished(b, s)) + 1
  <2>1. Finished(b, s) = Finished(b, st)
    <3>1. Known(b, s) = Known(b, st)
      BY <1>11 DEF Known
    <3>2. \A k \in Known(b, st) : s[k] = st[k]
      BY <1>11 DEF Known
    <3> QED  BY <3>1, <3>2, Zenon DEF Finished
  <2>2. Cardinality(Finished(b, st)) \in Nat
    BY FinishedFacts
  <2> QED  BY <1>3, <1>4, <1>7, <2>1, <2>2
<1>19. IsSequence(g.open) /\ Len(g.open) = Len(d.active)
  <2>1. IsSequence(<< >>)
    BY DEF IsSequence
  <2> QED  BY <1>5, <1>6, <2>1
<1>20. PassInv(d, g, o, b, w, s, 0)
  <2>1. (IF d.tracker.run = "Executing" THEN 1 ELSE 0) = 1
    BY <1>5, <1>8, Zenon
  <2> QED  BY <1>16, <1>17, <1>18, <1>19, <2>1, Zenon DEF PassInv
<1>21. BodyInv(d, g, b, s, 0)
  <2>1. Seen(d.tracker, b, s, 1) /\ Left(d.tracker, b, s, 1)
    <3>1. \A j \in SectionsOf(b) : ~ (j < 1)
      BY <1>10
    <3> QED  BY <1>5, <1>8, <3>1 DEF Seen, Left
  <2>2. Inner(b, 1) = 0 /\ 1 \in 1..(Len(b) + 1)
    BY <1>10, AroundOutside
  <2> QED  BY <1>5, <1>6, <2>1, <2>2, Zenon DEF BodyInv
<1>22. Shaped(d, g, o)
  <2>1. IsSequence(<< >>) /\ h.cycles + 1 \in Nat
    BY <1>4 DEF IsSequence
  <2> QED  BY <1>5, <1>6, <1>7, <2>1, Zenon DEF Shaped
<1> QED  BY <1>15, <1>20, <1>21, <1>22, Zenon DEF AtBody

(***************************************************************************)
(* A section is left at its end.                                           *)
(***************************************************************************)
\* What closing the section k makes of the test: s is st, or k is done.
Closes(t, u, h, b, name, path, st, s, k) ==
    /\ u.run = "CompletedCycle" /\ u.current = path[Inner(b, k)]
    /\ TestInv(u, h, b, name, path, s, Inner(b, k))
    /\ Way(u, b, path, s, Inner(b, k))
    /\ DOMAIN s = DOMAIN st /\ \A i \in DOMAIN st : i # k => s[i] = st[i]
    /\ Cardinality(Finished(b, s)) >= Cardinality(Finished(b, st)) + (IF t.run = "Executing" THEN 1 ELSE 0)

LEMMA CloseWalk ==
    ASSUME NEW t, NEW h, NEW b, WellNested(b), NEW name, NEW path, NEW st, NEW k \in SectionsOf(b),
           TestInv(t, h, b, name, path, st, k), Way(t, b, path, st, k),
           NEW e \in 1..(Len(b) + 1), k = Inner(b, e), Seen(t, b, st, e),
           \A j \in SectionsOf(b) : Inner(b, j) = k => j < e,
           NEW u, u = close(t, path[k])
    PROVE  \E s : Closes(t, u, h, b, name, path, st, s, k)
<1> DEFINE p == Inner(b, k)
<1>1. /\ Shows(t, b, name, path, st) /\ InOrder(b, st) /\ Visited(b, st, h.visits, k)
      /\ ~ h.unwound => Thorough(b, st, h.visits)
  BY Zenon DEF TestInv
<1>2. /\ k \in DOMAIN st /\ t.current = path[k]
      /\ \A i \in Around(b, k) : i \in DOMAIN st /\ st[i] = "ExecutingChildren"
      /\ t.run = "Executing" \/ t.run = "CompletedCycle"
      /\ t.run = "Executing" <=> st[k] = "Executing"
      /\ t.run = "CompletedCycle" => st[k] = "ExecutingChildren" \/ st[k] = "NeedsAnotherRun"
  BY DEF Way
<1>3. /\ KnowsSections(b, st) /\ HasPaths(b, name, path, st)
  BY <1>1, ShowsFacts
<1>4. /\ p \in Around(b, k) /\ p < k /\ k \in Nat \ {0} /\ p \in Nat
  BY InnerIsBefore
<1>5. /\ Around(b, k) = Around(b, p) \cup {p} /\ \A i \in Around(b, k) : i # k
  <2>1. k \in 1..(Len(b) + 1)
    BY BodyFacts
  <2>2. \A i \in Around(b, k) : i \in 0..(k - 1)
    BY <2>1, AroundFacts
  <2> QED  BY <1>4, <2>1, <2>2, AroundFacts
<1>6. Front(path[k]) = path[p]
  BY <1>2, <1>3, <1>4, PathFacts
<1>7. /\ u.run = "CompletedCycle" /\ u.current = path[p]
      /\ MayEnd(b, st, k) => \E s : Shows(u, b, name, path, s) /\ EndsAs(st, s, k, "CompletedSuccessfully")
      /\ ~ MayEnd(b, st, k) => Shows(u, b, name, path, st)
  BY <1>1, <1>6, CloseShows
<1>8. /\ Cardinality(Finished(b, st)) \in Nat
  BY FinishedFacts
<1>9. ASSUME NEW s, DOMAIN s = DOMAIN st, \A i \in DOMAIN st : i # k => s[i] = st[i]
      PROVE  Way(u, b, path, s, p)
  <2>1. p \in DOMAIN s /\ s[p] = "ExecutingChildren" /\ s[p] # "Executing"
    BY <1>2, <1>4, <1>9
  <2>2. \A i \in Around(b, p) : i \in DOMAIN s /\ s[i] = "ExecutingChildren"
    BY <1>2, <1>5, <1>9
  <2>3. u.run # "Executing"
    BY <1>7
  <2> QED  BY <1>7, <2>1, <2>2, <2>3, Zenon DEF Way
<1>10. CASE MayEnd(b, st, k)
  <2>1. PICK s : Shows(u, b, name, path, s) /\ EndsAs(st, s, k, "CompletedSuccessfully")
    BY <1>7, <1>10, Zenon
  <2>2. DOMAIN s = DOMAIN st /\ s[k] = "CompletedSuccessfully" /\ \A i \in DOMAIN st : i # k => s[i] = st[i]
    BY <2>1, Zenon DEF EndsAs
  <2>3. st[k] # "NotStarted" /\ ~ IsDone(st[k])
    BY <1>10 DEF MayEnd, IsDone
  <2>4. IsEnded(st, s, k, p)
    <3>1. IsDone(s[k])
      BY <2>2 DEF IsDone
    <3>2. p \in DOMAIN st /\ st[p] = "ExecutingChildren" /\ s[p] = st[p]
      BY <1>2, <1>4, <2>2
    <3> QED  BY <1>2, <2>2, <2>3, <3>1, <3>2 DEF IsEnded
  <2>5. InOrder(b, s)
    BY <1>1, <2>4, EndedInOrder
  <2>6. Visited(b, s, h.visits, p) /\ (k \in Leaves(b) => k \in ToSet(h.visits))
    BY <1>1, <2>4, EndedVisited
  <2>7. ASSUME ~ h.unwound PROVE Thorough(b, s, h.visits)
    <3>1. \A j \in SectionsOf(b) : Inner(b, j) = k => j \in DOMAIN st /\ IsDone(st[j])
      BY <1>1, <1>2, <1>10, DirectlyDone DEF MayEnd, LastDone
    <3>2. \A l \in Leaves(b) : l = k \/ k \in Around(b, l) => l \in ToSet(h.visits)
      BY <1>1, <2>6, <2>7, <3>1, ThoroughWithin
    <3> QED  BY <1>1, <2>4, <2>7, <3>2, EndedThorough
  <2>8. Cardinality(Finished(b, s)) = Cardinality(Finished(b, st)) + 1
    BY <2>3, <2>4, FinishedGrows
  <2>9. Cardinality(Finished(b, s)) >= Cardinality(Finished(b, st)) + (IF t.run = "Executing" THEN 1 ELSE 0)
    BY <1>8, <2>8
  <2>10. TestInv(u, h, b, name, path, s, p)
    BY <2>1, <2>5, <2>6, <2>7, Zenon DEF TestInv
  <2> QED  BY <1>7, <1>9, <2>2, <2>9, <2>10, Zenon DEF Closes
<1>11. CASE ~ MayEnd(b, st, k)
  <2>1. t.run # "Executing" /\ (st[k] = "ExecutingChildren" \/ st[k] = "NeedsAnotherRun")
    BY <1>2, <1>11, Zenon DEF MayEnd
  <2>2. Visited(b, st, h.visits, p)
    BY <1>1, <1>2, <2>1, LeftVisited
  <2>3. TestInv(u, h, b, name, path, st, p)
    BY <1>1, <1>7, <1>11, <2>2, Zenon DEF TestInv
  <2>4. Cardinality(Finished(b, st)) >= Cardinality(Finished(b, st)) + (IF t.run = "Executing" THEN 1 ELSE 0)
    BY <1>8, <2>1
  <2> QED  BY <1>7, <1>9, <2>3, <2>4, Zenon DEF Closes
<1> QED  BY <1>10, <1>11

EndStep(c, f, d, g) ==
    /\ d = sectionEnded(c, Last(f.open))
    /\ g = [f EXCEPT !.ip = @ + 1, !.open = Front(@)]

LEMMA EndWalk ==
    ASSUME NEW c, NEW f, NEW h, Shaped(c, f, h), NEW b, WellNested(b), NEW name, AtBody(c, f, h, b, name),
           f.ip \in 1..Len(b), b[f.ip].op = "end", NEW d, NEW g, EndStep(c, f, d, g)
    PROVE  Shaped(d, g, h) /\ AtBody(d, g, h, b, name)
<1> DEFINE e == f.ip
           t == c.tracker
           k == Inner(b, e)
           p == Inner(b, k)
<1>1. PICK path, st, j : /\ TestInv(t, h, b, name, path, st, j)
                         /\ PassInv(c, f, h, b, path, st, j) /\ BodyInv(c, f, b, st, j)
  BY Zenon DEF AtBody
<1>2. /\ TestInv(t, h, b, name, path, st, k) /\ Way(t, b, path, st, k) /\ Seen(t, b, st, e) /\ Left(t, b, st, e)
      /\ IsActive(c.active, t.current) /\ IsSequence(f.open) /\ Len(f.open) = Len(c.active)
      /\ h.cycles <= Cardinality(Finished(b, st)) + (IF t.run = "Executing" THEN 1 ELSE 0)
      /\ c.unfinished = << >>
  BY <1>1, Zenon DEF PassInv, BodyInv
<1>3. /\ DOMAIN c = ContextFields /\ DOMAIN f = FrameFields /\ DOMAIN h = HistoryFields /\ h.cycles \in Nat
      /\ IsSequence(c.unfinished)
  BY DEF Shaped
<1>4. /\ k \in SectionsOf(b) /\ Around(b, e + 1) = Around(b, k) /\ Inner(b, e + 1) = p
      /\ Len(b) \in Nat /\ e \in 1..(Len(b) + 1) /\ e + 1 \in 1..(Len(b) + 1)
  BY AroundEnded, BodyFacts
<1>5. /\ Shows(t, b, name, path, st) /\ InOrder(b, st) /\ KnowsSections(b, st) /\ HasPaths(b, name, path, st)
      /\ k \in DOMAIN st /\ t.current = path[k]
      /\ t.run = "Executing" \/ t.run = "CompletedCycle"
  <2>1. /\ Shows(t, b, name, path, st) /\ InOrder(b, st) /\ k \in DOMAIN st /\ t.current = path[k]
        /\ t.run = "Executing" \/ t.run = "CompletedCycle"
    BY <1>2, Zenon DEF TestInv, Way
  <2> QED  BY <2>1, ShowsFacts
<1>6. /\ Front(path[k]) = path[p] /\ Len(path[k]) # 1
  <2>1. k # 0
    BY <1>4, BodyFacts
  <2>2. Len(path[k]) > 1 /\ Front(path[k]) = path[p] /\ Len(path[k]) \in Nat
    BY <1>5, <2>1, PathFacts
  <2> DEFINE m == Len(path[k])
  <2>3. m > 1 /\ m \in Nat
    BY <2>2
  <2> HIDE DEF m
  <2>4. m # 1
    BY <2>3
  <2> QED  BY <2>2, <2>4, Zenon DEF m
<1>7. c.active # << >> /\ Last(c.active) = path[k] /\ IsActive(Front(c.active), path[p])
  BY <1>2, <1>5, <1>6, ActiveEmpty, ActivePop
<1> DEFINE u == close(t, path[k])
<1>8. /\ DOMAIN d = ContextFields /\ d.unfinished = << >> /\ d.tracker = u /\ d.active = Front(c.active)
  <2>1. d = sectionEnded(c, Last(f.open))
    BY DEF EndStep
  <2> HIDE DEF u, t
  <2>2. /\ DOMAIN d = ContextFields /\ d.unfinished = c.unfinished
        /\ c.active = << >> => d.tracker = c.tracker /\ d.active = c.active
        /\ c.active # << >> => d.tracker = close(c.tracker, Last(c.active)) /\ d.active = Front(c.active)
    BY <1>3, <2>1, SectionEndedIs, Zenon
  <2> QED  BY <1>2, <1>7, <2>2, Zenon DEF u, t
<1>9. DOMAIN g = FrameFields /\ g.ip = e + 1 /\ g.open = Front(f.open)
  BY <1>3, Zenon DEF EndStep, FrameFields
<1>10. PICK s : Closes(t, u, h, b, name, path, st, s, k)
  <2>1. u = close(t, path[k]) /\ \A i \in SectionsOf(b) : Inner(b, i) = k => i < e
    BY DirectlyBefore
  <2> HIDE DEF u, t, k, e
  <2>2. \E s : Closes(t, u, h, b, name, path, st, s, k)
    BY <1>2, <1>4, <2>1, CloseWalk DEF k
  <2> QED  BY <2>2, Zenon
<1> HIDE DEF u, t
<1>11. /\ u.run = "CompletedCycle" /\ u.current = path[p]
       /\ TestInv(u, h, b, name, path, s, p) /\ Way(u, b, path, s, p)
       /\ DOMAIN s = DOMAIN st /\ \A i \in DOMAIN st : i # k => s[i] = st[i]
       /\ Cardinality(Finished(b, s)) >= Cardinality(Finished(b, st)) + (IF t.run = "Executing" THEN 1 ELSE 0)
  BY <1>10, Zenon DEF Closes
<1>12. h.cycles <= Cardinality(Finished(b, s)) + (IF u.run = "Executing" THEN 1 ELSE 0)
  <2>1. Cardinality(Finished(b, s)) \in Nat /\ Cardinality(Finished(b, st)) \in Nat
    BY FinishedFacts
  <2> QED  BY <1>2, <1>3, <1>11, <2>1
<1>13. Seen(u, b, s, e + 1) /\ Left(u, b, s, e + 1)
  <2>1. \A i \in Around(b, e) : i \in DOMAIN st /\ ~ IsDone(st[i])
    <3>1. Around(b, e) = Around(b, k) \cup {k}
      BY <1>4, AroundFacts
    <3>2. \A i \in Around(b, k) : i \in DOMAIN st /\ st[i] = "ExecutingChildren"
      BY <1>2, Zenon DEF Way
    <3>3. st[k] = "Executing" \/ st[k] = "ExecutingChildren" \/ st[k] = "NeedsAnotherRun"
      BY <1>2, Zenon DEF Way
    <3> QED  BY <1>5, <3>1, <3>2, <3>3 DEF IsDone
  <2> QED  BY <1>2, <1>5, <1>11, <2>1, SeenEnded
<1>14. IsSequence(g.open) /\ Len(g.open) = Len(d.active)
  <2>1. IsSequence(c.active) /\ Len(c.active) \in Nat
    BY <1>2, SequenceFacts DEF IsActive
  <2>2. Len(c.active) # 0
    BY <1>7, <2>1, SequenceFacts
  <2>3. f.open # << >>
    BY <1>2, <2>2, SequenceFacts
  <2>4. IsSequence(Front(f.open)) /\ Len(Front(f.open)) \in Nat /\ Len(f.open) = Len(Front(f.open)) + 1
    BY <1>2, <2>3, FrontFacts
  <2>5. Len(c.active) = Len(Front(c.active)) + 1 /\ Len(Front(c.active)) \in Nat
    BY <1>7, <2>1, FrontFacts
  <2>6. Len(Front(f.open)) = Len(Front(c.active))
    <3> DEFINE m == Len(Front(f.open))
               n == Len(Front(c.active))
    <3>1. m \in Nat /\ n \in Nat /\ m + 1 = n + 1
      BY <1>2, <2>4, <2>5, Zenon
    <3> HIDE DEF m, n
    <3>2. m = n
      BY <3>1
    <3> QED  BY <3>2 DEF m, n
  <2> QED  BY <1>8, <1>9, <2>4, <2>6, Zenon
<1>15. PassInv(d, g, h, b, path, s, p)
  BY <1>7, <1>8, <1>11, <1>12, <1>14, Zenon DEF PassInv
<1>16. BodyInv(d, g, b, s, p)
  BY <1>4, <1>8, <1>9, <1>13, Zenon DEF BodyInv
<1>17. TestInv(d.tracker, h, b, name, path, s, p)
  BY <1>8, <1>11, Zenon
<1>18. Shaped(d, g, h)
  BY <1>2, <1>3, <1>8, <1>9, Zenon DEF Shaped
<1> QED  BY <1>15, <1>16, <1>17, <1>18, Zenon DEF AtBody

(***************************************************************************)
(* The rest of the body: an instruction that goes on or throws, and the    *)
(* end of the body.                                                        *)
(***************************************************************************)
\* Nothing is done to the sections.
Stays(c, f, h, d, g, o) ==
    /\ SameSections(c, d)
    /\ DOMAIN g = FrameFields /\ g.open = f.open
    /\ DOMAIN o = HistoryFields /\ o.visits = h.visits /\ o.cycles = h.cycles

LEMMA StaysFacts ==
    ASSUME NEW c, NEW f, NEW h, Shaped(c, f, h), NEW d, NEW g, NEW o, Stays(c, f, h, d, g, o)
    PROVE  /\ Shaped(d, g, o)
           /\ d.tracker = c.tracker /\ d.active = c.active /\ d.unfinished = c.unfinished
           /\ g.open = f.open /\ o.visits = h.visits /\ o.cycles = h.cycles
BY Zenon DEF Shaped, Stays, SameSections

LEMMA StayWalk ==
    ASSUME NEW c, NEW f, NEW h, Shaped(c, f, h), NEW b, WellNested(b), NEW name, AtBody(c, f, h, b, name),
           f.ip \in 1..Len(b), b[f.ip].op # "section", b[f.ip].op # "end",
           NEW d, NEW g, NEW o, Stays(c, f, h, d, g, o), g.ip = f.ip + 1, o.unwound <=> h.unwound
    PROVE  Shaped(d, g, o) /\ AtBody(d, g, o, b, name)
<1> DEFINE k == f.ip
           t == c.tracker
<1>1. PICK path, st, i : /\ TestInv(t, h, b, name, path, st, i)
                         /\ PassInv(c, f, h, b, path, st, i) /\ BodyInv(c, f, b, st, i)
  BY Zenon DEF AtBody
<1>2. /\ Shaped(d, g, o) /\ d.tracker = t /\ d.active = c.active /\ d.unfinished = c.unfinished
      /\ g.open = f.open /\ o.visits = h.visits /\ o.cycles = h.cycles
  BY StaysFacts
<1>3. TestInv(d.tracker, o, b, name, path, st, i)
  BY <1>1, <1>2, Zenon DEF TestInv
<1>4. PassInv(d, g, o, b, path, st, i)
  BY <1>1, <1>2, Zenon DEF PassInv
<1>5. i = Inner(b, k) /\ c.unfinished = << >> /\ Seen(t, b, st, k) /\ Left(t, b, st, k)
  BY <1>1, Zenon DEF BodyInv
<1>6. Inner(b, k + 1) = Inner(b, k) /\ Seen(t, b, st, k + 1) /\ Left(t, b, st, k + 1)
  BY <1>5, AroundStays, SeenOn
<1>7. k + 1 \in 1..(Len(b) + 1)
  BY BodyFacts
<1> HIDE DEF t
<1>8. BodyInv(d, g, b, st, i)
  BY <1>2, <1>5, <1>6, <1>7, Zenon DEF BodyInv
<1> QED  BY <1>2, <1>3, <1>4, <1>8, Zenon DEF AtBody

\* An exception is thrown in an innermost section, or it is remembered that one was thrown elsewhere.
LEMMA ThrowWalk ==
    ASSUME NEW c, NEW f, NEW h, Shaped(c, f, h), NEW b, WellNested(b), NEW name, AtBody(c, f, h, b, name),
           f.ip \in 1..Len(b),
           NEW d, NEW g, NEW o, Stays(c, f, h, d, g, o),
           ~ o.unwound => ~ h.unwound /\ \E l \in Leaves(b) : l < f.ip /\ f.ip < b[l].end
    PROVE  Shaped(d, g, o) /\ AtUnwinding(d, g, o, b, name)
<1> DEFINE k == f.ip
           t == c.tracker
<1>1. PICK path, st, i : /\ TestInv(t, h, b, name, path, st, i)
                         /\ PassInv(c, f, h, b, path, st, i) /\ BodyInv(c, f, b, st, i)
  BY Zenon DEF AtBody
<1>2. /\ Shaped(d, g, o) /\ d.tracker = t /\ d.active = c.active /\ d.unfinished = c.unfinished
      /\ g.open = f.open /\ o.visits = h.visits /\ o.cycles = h.cycles
  BY StaysFacts
<1>3. TestInv(d.tracker, o, b, name, path, st, i)
  BY <1>1, <1>2, Zenon DEF TestInv
<1>4. PassInv(d, g, o, b, path, st, i)
  BY <1>1, <1>2, Zenon DEF PassInv
<1>5. i = Inner(b, k) /\ c.unfinished = << >>
  BY <1>1, Zenon DEF BodyInv
<1>6. ~ o.unwound => i \in Leaves(b)
  BY <1>5, LeafFacts
<1>7. UnwindingInv(d, o, b, st, i)
  BY <1>2, <1>5, <1>6, Zenon DEF UnwindingInv
<1> QED  BY <1>2, <1>3, <1>4, <1>7, Zenon DEF AtUnwinding

LEMMA BodyEndWalk ==
    ASSUME NEW c, NEW f, NEW h, NEW b, WellNested(b), NEW name, AtBody(c, f, h, b, name), f.ip > Len(b)
    PROVE  AtReturn(c, f, h, b, name)
<1> DEFINE k == f.ip
           t == c.tracker
<1>1. PICK path, st, i : /\ TestInv(t, h, b, name, path, st, i)
                         /\ PassInv(c, f, h, b, path, st, i) /\ BodyInv(c, f, b, st, i)
  BY Zenon DEF AtBody
<1>2. i = Inner(b, k) /\ k \in 1..(Len(b) + 1) /\ Seen(t, b, st, k)
  BY <1>1, Zenon DEF BodyInv
<1>3. k = Len(b) + 1
  BY <1>2, BodyFacts
<1>4. i = 0
  BY <1>2, <1>3, AroundOutside
<1>5. ReturnInv(c, h, b, st, i)
  BY <1>2, <1>3, <1>4, Zenon DEF ReturnInv
<1> QED  BY <1>1, <1>5, Zenon DEF AtReturn

\* The exception has left all sections.
LEMMA UnwoundWalk ==
    ASSUME NEW c, NEW f, NEW h, NEW b, WellNested(b), NEW name, AtUnwinding(c, f, h, b, name), f.open = << >>
    PROVE  AtReturn(c, f, h, b, name)
<1> DEFINE t == c.tracker
<1>1. PICK path, st, i : /\ TestInv(t, h, b, name, path, st, i)
                         /\ PassInv(c, f, h, b, path, st, i) /\ UnwindingInv(c, h, b, st, i)
  BY Zenon DEF AtUnwinding
<1>2. /\ Way(t, b, path, st, i) /\ IsActive(c.active, t.current) /\ Len(f.open) = Len(c.active)
  BY <1>1, Zenon DEF PassInv
<1>3. i = 0
  <2>1. KnowsSections(b, st) /\ HasPaths(b, name, path, st) /\ i \in DOMAIN st /\ t.current = path[i]
    <3>1. Shows(t, b, name, path, st) /\ i \in DOMAIN st /\ t.current = path[i]
      BY <1>1, <1>2, Zenon DEF TestInv, Way
    <3> QED  BY <3>1, ShowsFacts
  <2>2. Len(path[i]) = 1
    <3>1. Len(c.active) = 0 /\ Len(c.active) = Len(t.current) - 1
      BY <1>2 DEF IsActive
    <3>2. Len(path[i]) \in Nat
      BY <2>1, PathFacts
    <3> DEFINE m == Len(path[i])
    <3>3. m \in Nat /\ m - 1 = 0
      BY <2>1, <3>1, <3>2, Zenon
    <3> HIDE DEF m
    <3>4. m = 1
      BY <3>3
    <3> QED  BY <3>4 DEF m
  <2> QED  BY <2>1, <2>2, PathFacts
<1>4. ReturnInv(c, h, b, st, i)
  <2>1. 0 \notin Leaves(b)
    BY LeafFacts
  <2> QED  BY <1>1, <1>3, <2>1, Zenon DEF ReturnInv, UnwindingInv
<1> QED  BY <1>1, <1>4, Zenon DEF AtReturn

(***************************************************************************)
(* An exception leaves a section.                                          *)
(***************************************************************************)
\* A section that waits for another pass does not end in this one.
LEMMA WaitsStays ==
    ASSUME NEW t, NEW b, NEW st, InOrder(b, st), WellNested(b), NEW k, Waits(t, b, st, k)
    PROVE  ~ MayEnd(b, st, k)
<1>1. CASE st[k] = "NeedsAnotherRun"
  BY <1>1 DEF MayEnd
<1>2. CASE st[k] = "ExecutingChildren" /\ \E j \in Known(b, st) : Inner(b, j) = k /\ st[j] # "NotStarted" /\ ~ IsDone(st[j])
  <2>1. PICK j \in Known(b, st) : Inner(b, j) = k /\ st[j] # "NotStarted" /\ ~ IsDone(st[j])
    BY <1>2
  <2>2. ~ LastDone(b, st, k)
    <3> SUFFICES ASSUME NEW i \in Known(b, st), Inner(b, i) = k, IsDone(st[i]),
                        \A n \in Known(b, st) : Inner(b, n) = k => n <= i
                 PROVE  FALSE
      BY <2>1 DEF LastDone
    <3>1. i \in SectionsOf(b) /\ j \in SectionsOf(b) /\ i \in DOMAIN st /\ j \in DOMAIN st
      BY <2>1 DEF Known
    <3>2. j <= i /\ i # j
      BY <2>1
    <3>3. j < i
      BY <3>1, <3>2, BodyFacts
    <3>4. st[i] # "NotStarted"
      BY DEF IsDone
    <3> QED  BY <2>1, <3>1, <3>3, <3>4 DEF InOrder, Siblings
  <2> QED  BY <1>2, <2>2 DEF MayEnd
<1> QED  BY <1>1, <1>2 DEF Waits

\* The way to the section around the current one.
LEMMA ParentWay ==
    ASSUME NEW t, NEW b, WellNested(b), NEW path, NEW st, NEW k \in SectionsOf(b), Way(t, b, path, st, k),
           NEW u, NEW s, u.run = "CompletedCycle", u.current = path[Inner(b, k)], DOMAIN s = DOMAIN st,
           s[Inner(b, k)] = "ExecutingChildren" \/ s[Inner(b, k)] = "NeedsAnotherRun",
           \A i \in DOMAIN st : i # k /\ i # Inner(b, k) => s[i] = st[i]
    PROVE  /\ Way(u, b, path, s, Inner(b, k))
           /\ k \in DOMAIN st /\ Inner(b, k) \in DOMAIN st /\ Inner(b, k) # k /\ st[Inner(b, k)] = "ExecutingChildren"
           /\ st[k] # "NotStarted" /\ ~ IsDone(st[k])
<1> DEFINE p == Inner(b, k)
<1>1. /\ k \in DOMAIN st /\ \A i \in Around(b, k) : i \in DOMAIN st /\ st[i] = "ExecutingChildren"
      /\ st[k] = "Executing" \/ st[k] = "ExecutingChildren" \/ st[k] = "NeedsAnotherRun"
  BY Zenon DEF Way
<1>2. p \in Around(b, k) /\ p < k /\ k \in Nat /\ p \in Nat
  BY InnerIsBefore
<1>3. Around(b, k) = Around(b, p) \cup {p} /\ p \notin Around(b, p) /\ k \notin Around(b, k)
  <2>1. k \in 1..(Len(b) + 1)
    BY BodyFacts
  <2>2. \A i \in Around(b, k) : i \in 0..(k - 1)
    BY <2>1, AroundFacts
  <2>3. k \notin 0..(k - 1)
    BY <1>2
  <2> QED  BY <2>1, <2>2, <2>3, AroundFacts
<1>4. \A i \in Around(b, p) : i \in DOMAIN s /\ s[i] = "ExecutingChildren"
  BY <1>1, <1>3
<1>5. p \in DOMAIN s /\ s[p] # "Executing" /\ u.run # "Executing"
  BY <1>1, <1>2
<1>6. Way(u, b, path, s, p)
  BY <1>4, <1>5, Zenon DEF Way
<1>7. st[k] # "NotStarted" /\ ~ IsDone(st[k])
  BY <1>1 DEF IsDone
<1> QED  BY <1>1, <1>2, <1>6, <1>7

\* What leaving the section k by an exception makes of the test.
ThrowsOut(t, u, h, b, name, path, st, s, k) ==
    /\ u.run = "CompletedCycle" /\ u.current = path[Inner(b, k)]
    /\ TestInv(u, h, b, name, path, s, Inner(b, k))
    /\ Way(u, b, path, s, Inner(b, k))
    /\ Waits(u, b, s, Inner(b, k))
    /\ Cardinality(Finished(b, s)) >= Cardinality(Finished(b, st)) + (IF t.run = "Executing" THEN 1 ELSE 0)

\* The section the exception was thrown in fails.
LEMMA FailWalk ==
    ASSUME NEW t, NEW h, NEW b, WellNested(b), NEW name, NEW path, NEW st, NEW k \in SectionsOf(b),
           TestInv(t, h, b, name, path, st, k), Way(t, b, path, st, k), ~ h.unwound => k \in Leaves(b),
           NEW u, u = fail(t, path[k])
    PROVE  \E s : ThrowsOut(t, u, h, b, name, path, st, s, k)
<1> DEFINE p == Inner(b, k)
<1>1. /\ Shows(t, b, name, path, st) /\ InOrder(b, st) /\ Visited(b, st, h.visits, k)
      /\ ~ h.unwound => Thorough(b, st, h.visits)
  BY Zenon DEF TestInv
<1>2. k \in DOMAIN st
  BY DEF Way
<1>3. /\ u.run = "CompletedCycle" /\ u.current = path[p]
      /\ \E s : Shows(u, b, name, path, s) /\ FailsAs(st, s, k, p)
  BY <1>1, <1>2, FailShows
<1>4. PICK s : Shows(u, b, name, path, s) /\ FailsAs(st, s, k, p)
  BY <1>3, Zenon
<1>5. /\ DOMAIN s = DOMAIN st /\ s[k] = "Failed" /\ s[p] = "NeedsAnotherRun"
      /\ \A i \in DOMAIN st : i # k /\ i # p => s[i] = st[i]
  BY <1>4, Zenon DEF FailsAs
<1>6. /\ Way(u, b, path, s, p)
      /\ p \in DOMAIN st /\ p # k /\ st[p] = "ExecutingChildren" /\ st[k] # "NotStarted" /\ ~ IsDone(st[k])
  BY <1>3, <1>5, ParentWay
<1>7. IsEnded(st, s, k, p)
  <2>1. IsDone(s[k])
    BY <1>5 DEF IsDone
  <2> QED  BY <1>2, <1>5, <1>6, <2>1 DEF IsEnded
<1>8. InOrder(b, s)
  BY <1>1, <1>7, EndedInOrder
<1>9. Visited(b, s, h.visits, p) /\ (k \in Leaves(b) => k \in ToSet(h.visits))
  BY <1>1, <1>7, EndedVisited
<1>10. ASSUME ~ h.unwound PROVE Thorough(b, s, h.visits)
  <2>1. k \in Leaves(b)
    BY <1>10
  <2>2. \A l \in Leaves(b) : k \notin Around(b, l)
    BY <2>1, LeafFacts
  <2>3. \A l \in Leaves(b) : l = k \/ k \in Around(b, l) => l \in ToSet(h.visits)
    BY <1>9, <2>1, <2>2
  <2> QED  BY <1>1, <1>7, <1>10, <2>3, EndedThorough
<1>11. TestInv(u, h, b, name, path, s, p)
  BY <1>4, <1>8, <1>9, <1>10, Zenon DEF TestInv
<1>12. Waits(u, b, s, p)
  BY <1>3, <1>5, Zenon DEF Waits
<1>13. Cardinality(Finished(b, s)) >= Cardinality(Finished(b, st)) + (IF t.run = "Executing" THEN 1 ELSE 0)
  <2>1. Cardinality(Finished(b, s)) = Cardinality(Finished(b, st)) + 1
    BY <1>6, <1>7, FinishedGrows
  <2>2. Cardinality(Finished(b, st)) \in Nat
    BY FinishedFacts
  <2> QED  BY <2>1, <2>2
<1> QED  BY <1>3, <1>6, <1>11, <1>12, <1>13, Zenon DEF ThrowsOut

\* The sections around it are closed, and wait.
LEMMA PassThroughWalk ==
    ASSUME NEW t, NEW h, NEW b, WellNested(b), NEW name, NEW path, NEW st, NEW k \in SectionsOf(b),
           TestInv(t, h, b, name, path, st, k), Way(t, b, path, st, k), Waits(t, b, st, k),
           NEW u, u = close(t, path[k])
    PROVE  \E s : ThrowsOut(t, u, h, b, name, path, st, s, k)
<1> DEFINE p == Inner(b, k)
<1>1. /\ Shows(t, b, name, path, st) /\ InOrder(b, st) /\ Visited(b, st, h.visits, k)
      /\ ~ h.unwound => Thorough(b, st, h.visits)
  BY Zenon DEF TestInv
<1>2. ~ MayEnd(b, st, k)
  BY <1>1, WaitsStays
<1>3. u.run = "CompletedCycle" /\ u.current = Front(path[k]) /\ Shows(u, b, name, path, st)
  BY <1>1, <1>2, CloseShows
<1>4. k \in DOMAIN st /\ p \in DOMAIN st /\ st[p] = "ExecutingChildren"
  BY InnerIsBefore DEF Way
<1>5. u.current = path[p]
  <2>1. KnowsSections(b, st) /\ HasPaths(b, name, path, st) /\ k # 0
    BY <1>1, ShowsFacts, InnerIsBefore
  <2>2. Front(path[k]) = path[p]
    BY <1>4, <2>1, PathFacts
  <2> QED  BY <1>3, <2>2, Zenon
<1>6. /\ Way(u, b, path, st, p) /\ p # k /\ st[k] # "NotStarted" /\ ~ IsDone(st[k])
  BY <1>3, <1>4, <1>5, ParentWay
<1>7. /\ t.run = "CompletedCycle" /\ (st[k] = "ExecutingChildren" \/ st[k] = "NeedsAnotherRun")
  BY DEF Waits
<1>8. Visited(b, st, h.visits, p)
  BY <1>1, <1>4, <1>7, LeftVisited
<1>9. TestInv(u, h, b, name, path, st, p)
  BY <1>1, <1>3, <1>8, Zenon DEF TestInv
<1>10. Waits(u, b, st, p)
  <2>1. k \in Known(b, st)
    BY <1>4 DEF Known
  <2> QED  BY <1>3, <1>4, <1>6, <2>1 DEF Waits
<1>11. Cardinality(Finished(b, st)) >= Cardinality(Finished(b, st)) + (IF t.run = "Executing" THEN 1 ELSE 0)
  <2>1. Cardinality(Finished(b, st)) \in Nat
    BY FinishedFacts
  <2>2. t.run # "Executing"
    BY <1>7
  <2> QED  BY <2>1, <2>2
<1> QED  BY <1>3, <1>5, <1>6, <1>9, <1>10, <1>11, Zenon DEF ThrowsOut

EarlyStep(c, f, d, g) ==
    /\ d = sectionEndedEarly(c, Last(f.open))
    /\ g = [f EXCEPT !.open = Front(@)]

LEMMA EarlyWalk ==
    ASSUME NEW c, NEW f, NEW h, Shaped(c, f, h), NEW b, WellNested(b), NEW name, AtUnwinding(c, f, h, b, name),
           f.open # << >>, NEW d, NEW g, EarlyStep(c, f, d, g)
    PROVE  Shaped(d, g, h) /\ AtUnwinding(d, g, h, b, name)
<1> DEFINE t == c.tracker
<1>1. PICK path, st, k : /\ TestInv(t, h, b, name, path, st, k)
                         /\ PassInv(c, f, h, b, path, st, k) /\ UnwindingInv(c, h, b, st, k)
  BY Zenon DEF AtUnwinding
<1> DEFINE p == Inner(b, k)
<1>2. /\ Way(t, b, path, st, k) /\ IsActive(c.active, t.current) /\ IsSequence(f.open) /\ Len(f.open) = Len(c.active)
      /\ h.cycles <= Cardinality(Finished(b, st)) + (IF t.run = "Executing" THEN 1 ELSE 0)
  BY <1>1, Zenon DEF PassInv
<1>3. /\ DOMAIN c = ContextFields /\ DOMAIN f = FrameFields /\ DOMAIN h = HistoryFields /\ h.cycles \in Nat
      /\ IsSequence(c.unfinished)
  BY DEF Shaped
<1>4. /\ KnowsSections(b, st) /\ HasPaths(b, name, path, st) /\ k \in DOMAIN st /\ t.current = path[k]
  <2>1. Shows(t, b, name, path, st) /\ k \in DOMAIN st /\ t.current = path[k]
    BY <1>1, <1>2, Zenon DEF TestInv, Way
  <2> QED  BY <2>1, ShowsFacts
<1>5. /\ Len(f.open) \in Nat /\ Len(f.open) # 0 /\ IsSequence(c.active) /\ c.active # << >>
      /\ IsSequence(Front(f.open)) /\ Len(Front(f.open)) = Len(Front(c.active))
  <2>1. Len(f.open) \in Nat /\ IsSequence(c.active)
    BY <1>2, SequenceFacts DEF IsActive
  <2>2. IsSequence(Front(f.open)) /\ Len(Front(f.open)) \in Nat /\ Len(f.open) = Len(Front(f.open)) + 1
    BY <1>2, FrontFacts
  <2>3. Len(f.open) # 0
    BY <2>2
  <2>4. c.active # << >>
    BY <1>2, <2>3, SequenceFacts
  <2>5. Len(c.active) = Len(Front(c.active)) + 1 /\ Len(Front(c.active)) \in Nat
    BY <2>1, <2>4, FrontFacts
  <2> DEFINE m == Len(Front(f.open))
             n == Len(Front(c.active))
  <2>6. m \in Nat /\ n \in Nat /\ m + 1 = n + 1
    BY <1>2, <2>2, <2>5, Zenon
  <2> HIDE DEF m, n
  <2>7. m = n
    BY <2>6
  <2> QED  BY <2>1, <2>2, <2>3, <2>4, <2>7 DEF m, n
<1>6. k \in SectionsOf(b)
  <2>1. Len(path[k]) # 1
    BY <1>2, <1>4, <1>5, ActiveEmpty
  <2>2. k # 0
    BY <1>4, <2>1, PathFacts
  <2> QED  BY <1>4, <2>2 DEF KnowsSections
<1>7. Front(path[k]) = path[p]
  <2>1. k # 0
    BY <1>6, InnerIsBefore
  <2> QED  BY <1>4, <2>1, PathFacts
<1>8. Last(c.active) = path[k] /\ IsActive(Front(c.active), path[p])
  BY <1>2, <1>4, <1>5, <1>7, ActivePop
<1> DEFINE u == IF c.unfinished = << >> THEN fail(t, path[k]) ELSE close(t, path[k])
<1>9. /\ DOMAIN d = ContextFields /\ d.active = Front(c.active) /\ d.unfinished = Append(c.unfinished, Last(f.open))
      /\ d.tracker = u
  <2>1. d = sectionEndedEarly(c, Last(f.open))
    BY DEF EarlyStep
  <2> QED  BY <1>3, <1>8, <2>1, SectionEndedEarlyIs, Zenon
<1>10. DOMAIN g = FrameFields /\ g.open = Front(f.open)
  BY <1>3, Zenon DEF EarlyStep, FrameFields
<1>11. \E s : ThrowsOut(t, u, h, b, name, path, st, s, k)
  <2>1. CASE c.unfinished = << >>
    <3>1. u = fail(t, path[k])
      BY <2>1
    <3>2. ~ h.unwound => k \in Leaves(b)
      BY <1>1, <2>1, Zenon DEF UnwindingInv
    <3> HIDE DEF u, t
    <3> QED  BY <1>1, <1>2, <1>6, <3>1, <3>2, FailWalk
  <2>2. CASE c.unfinished # << >>
    <3>1. u = close(t, path[k])
      BY <2>2
    <3>2. Waits(t, b, st, k)
      BY <1>1, <2>2, Zenon DEF UnwindingInv
    <3> HIDE DEF u, t
    <3> QED  BY <1>1, <1>2, <1>6, <3>1, <3>2, PassThroughWalk
  <2> QED  BY <2>1, <2>2
<1>12. PICK s : ThrowsOut(t, u, h, b, name, path, st, s, k)
  BY <1>11, Zenon
<1> HIDE DEF u, t
<1>13. /\ u.run = "CompletedCycle" /\ u.current = path[p]
       /\ TestInv(u, h, b, name, path, s, p) /\ Way(u, b, path, s, p) /\ Waits(u, b, s, p)
       /\ Cardinality(Finished(b, s)) >= Cardinality(Finished(b, st)) + (IF t.run = "Executing" THEN 1 ELSE 0)
  BY <1>12, Zenon DEF ThrowsOut
<1>14. h.cycles <= Cardinality(Finished(b, s)) + (IF u.run = "Executing" THEN 1 ELSE 0)
  <2>1. Cardinality(Finished(b, s)) \in Nat /\ Cardinality(Finished(b, st)) \in Nat
    BY FinishedFacts
  <2> QED  BY <1>2, <1>3, <1>13, <2>1 DEF t
<1>15. PassInv(d, g, h, b, path, s, p)
  BY <1>5, <1>8, <1>9, <1>10, <1>13, <1>14, Zenon DEF PassInv
<1>16. d.unfinished # << >> /\ IsSequence(d.unfinished)
  BY <1>3, <1>9, AppendFacts
<1>17. UnwindingInv(d, h, b, s, p)
  BY <1>9, <1>13, <1>16, Zenon DEF UnwindingInv
<1>18. Shaped(d, g, h)
  BY <1>3, <1>9, <1>10, <1>16, Zenon DEF Shaped
<1> QED  BY <1>9, <1>13, <1>15, <1>17, <1>18, Zenon DEF AtUnwinding

(***************************************************************************)
(* The end of a pass.                                                      *)
(***************************************************************************)
LEMMA SwapSame ==
    ASSUME NEW c, DOMAIN c = ContextFields, NEW failed
    PROVE  SameSections(c, okToFailSwap(c, failed))
BY Zenon DEF ContextFields, SameSections, okToFailSwap

\* The test's tracker is closed, and that is all that happens to the sections.
ClosesTest(c, path, d) ==
    /\ DOMAIN d = ContextFields /\ d.tracker = close(c.tracker, path)
    /\ d.active = << >> /\ d.unfinished = << >>

LEMMA EndPassIs ==
    ASSUME endPass, DOMAIN context = ContextFields, IsSequence(context.unfinished), context.active = << >>
    PROVE  ClosesTest(context, TestPath, context')
<1> DEFINE left    == [context EXCEPT !.messages = 0]
           caught  == IF frame.thrown = "other" THEN assertionEnded(left, useActiveException({"Normal"})) ELSE left
           shut    == [caught EXCEPT !.tracker = close(@, TestPath)]
           closed  == handleUnfinishedSections(shut)
           missing == MissingAssertions(closed, Minus(closed.totals.assertions, frame.prev))
           counted == testForMissingAssertions(closed, Minus(closed.totals.assertions, frame.prev))
           swapped == okToFailSwap(counted, counted.totals.assertions.failed - frame.prev.failed)
           e       == [type |-> "sectionEnded", missing |-> missing]
           ended   == Report(swapped, e)
<1>1. context' = ended
  BY Zenon DEF endPass
<1>2. SameSections(context, left) /\ DOMAIN left = ContextFields
  BY Zenon DEF SameSections, ContextFields
<1> HIDE DEF left
<1>3. SameSections(left, caught)
  <2>1. SameSections(left, left)
    BY <1>2, Zenon DEF SameSections
  <2>2. SameSections(left, assertionEnded(left, useActiveException({"Normal"})))
    BY <1>2, AssertionSame, Zenon
  <2> QED  BY <2>1, <2>2, Zenon
<1> HIDE DEF caught
<1>4. /\ DOMAIN shut = ContextFields /\ shut.tracker = close(context.tracker, TestPath)
      /\ shut.active = << >> /\ shut.unfinished = context.unfinished
  BY <1>2, <1>3, Zenon DEF SameSections, ContextFields
<1> HIDE DEF shut
<1>5. /\ DOMAIN closed = ContextFields /\ closed.tracker = close(context.tracker, TestPath)
      /\ closed.active = << >> /\ closed.unfinished = << >>
  BY <1>4, UnfinishedSame
<1> HIDE DEF closed
<1>6. SameSections(closed, counted)
  BY <1>5, MissingSame, Zenon
<1> HIDE DEF counted
<1>7. SameSections(counted, swapped)
  BY <1>6, SwapSame, Zenon DEF SameSections
<1> HIDE DEF swapped, e
<1>8. SameSections(swapped, ended)
  BY <1>7, ReportSame, Zenon DEF SameSections
<1> QED  BY <1>1, <1>5, <1>6, <1>7, <1>8, Zenon DEF SameSections, ClosesTest

\* What is true of a test case when no section is left to be entered.
Completed(h, b) ==
    /\ h.cycles <= Cardinality(SectionsOf(b)) + 1
    /\ ~ h.unwound => ToSet(h.visits) = Leaves(b)

\* Either the test has another pass, or it is complete.
AfterPass(h, b, name, d) ==
    /\ h.cycles <= Cardinality(SectionsOf(b)) + 1
    /\ ~ d.tracker.illogical /\ IsInjective(h.visits)
    /\ isSuccessfullyCompleted(d.tracker, <<name>>) => Completed(h, b)
    /\ ~ isSuccessfullyCompleted(d.tracker, <<name>>) => AtCycle(d, h, b, name)

LEMMA AfterPassWalk ==
    ASSUME NEW c, NEW f, NEW h, Shaped(c, f, h), NEW b, WellNested(b), NEW name, AtReturn(c, f, h, b, name),
           NEW d, ClosesTest(c, <<name>>, d)
    PROVE  AfterPass(h, b, name, d)
<1> DEFINE t == c.tracker
           u == d.tracker
<1>1. PICK path, st, i : /\ TestInv(t, h, b, name, path, st, i)
                         /\ PassInv(c, f, h, b, path, st, i) /\ ReturnInv(c, h, b, st, i)
  BY Zenon DEF AtReturn
<1>2. i = 0 /\ (h.unwound \/ Waits(t, b, st, 0) \/ Seen(t, b, st, Len(b) + 1))
  BY <1>1, Zenon DEF ReturnInv
<1>3. /\ Way(t, b, path, st, 0)
      /\ h.cycles <= Cardinality(Finished(b, st)) + (IF t.run = "Executing" THEN 1 ELSE 0)
  BY <1>1, <1>2, Zenon DEF PassInv
<1>4. /\ Shows(t, b, name, path, st) /\ InOrder(b, st) /\ Visited(b, st, h.visits, 0)
      /\ ~ h.unwound => Thorough(b, st, h.visits)
  BY <1>1, <1>2, Zenon DEF TestInv
<1>5. /\ 0 \in DOMAIN st
      /\ t.run = "Executing" \/ t.run = "CompletedCycle"
      /\ t.run = "Executing" <=> st[0] = "Executing"
      /\ t.run = "CompletedCycle" => st[0] = "ExecutingChildren" \/ st[0] = "NeedsAnotherRun"
  BY <1>3, Zenon DEF Way
<1>6. path[0] = <<name>>
  <2>1. KnowsSections(b, st) /\ HasPaths(b, name, path, st)
    BY <1>4, ShowsFacts
  <2> QED  BY <1>5, <2>1, PathFacts
<1>7. d.active = << >> /\ d.unfinished = << >> /\ u = close(t, path[0])
  BY <1>6, Zenon DEF ClosesTest
<1> HIDE DEF t, u
<1>8. /\ MayEnd(b, st, 0) => \E s : Shows(u, b, name, path, s) /\ EndsAs(st, s, 0, "CompletedSuccessfully")
      /\ ~ MayEnd(b, st, 0) => Shows(u, b, name, path, st)
  BY <1>3, <1>4, <1>7, CloseShows
<1>9. /\ h.cycles \in Nat /\ Cardinality(Finished(b, st)) \in Nat /\ Cardinality(SectionsOf(b)) \in Nat
      /\ Cardinality(Finished(b, st)) <= Cardinality(SectionsOf(b))
  BY FinishedFacts DEF Shaped
<1>10. h.cycles <= Cardinality(SectionsOf(b)) + 1
  BY <1>3, <1>9
<1>11. IsInjective(h.visits)
  BY <1>4, Zenon DEF Visited
<1>12. CASE MayEnd(b, st, 0)
  <2>1. PICK s : Shows(u, b, name, path, s) /\ EndsAs(st, s, 0, "CompletedSuccessfully")
    BY <1>8, <1>12, Zenon
  <2>2. ~ u.illogical /\ isSuccessfullyCompleted(u, <<name>>)
    <3>1. DOMAIN s = DOMAIN st /\ s[0] = "CompletedSuccessfully"
      BY <2>1, Zenon DEF EndsAs
    <3>2. ~ u.illogical /\ u.nodes[path[0]].state = s[0]
      BY <1>5, <2>1, <3>1, ShowsFacts
    <3> QED  BY <1>6, <3>1, <3>2, Zenon DEF isSuccessfullyCompleted
  <2>3. ASSUME ~ h.unwound PROVE ToSet(h.visits) = Leaves(b)
    <3>1. Seen(t, b, st, Len(b) + 1)
      BY <1>2, <1>4, <1>12, <2>3, WaitsStays
    <3>2. /\ Len(b) + 1 \in 1..(Len(b) + 1) /\ 0 = Inner(b, Len(b) + 1)
          /\ \A j \in SectionsOf(b) : j < Len(b) + 1
      BY BodyFacts, AroundOutside, DirectlyBefore
    <3>3. \A j \in SectionsOf(b) : Inner(b, j) = 0 => j \in DOMAIN st /\ IsDone(st[j])
      <4> DEFINE n == Len(b) + 1
      <4>1. n \in 1..(Len(b) + 1) /\ 0 = Inner(b, n) /\ Seen(t, b, st, n) /\ \A j \in SectionsOf(b) : Inner(b, j) = 0 => j < n
        BY <3>1, <3>2
      <4> HIDE DEF n
      <4> QED  BY <1>4, <1>5, <1>12, <4>1, DirectlyDone DEF MayEnd, LastDone
    <3>4. 0 \notin Leaves(b)
      BY LeafFacts
    <3>5. \A l \in Leaves(b) : l = 0 \/ 0 \in Around(b, l) => l \in ToSet(h.visits)
      BY <1>4, <2>3, <3>3, <3>4, ThoroughWithin
    <3>6. \A l \in Leaves(b) : 0 \in Around(b, l)
      BY LeafFacts DEF Around
    <3>7. \A n \in DOMAIN h.visits : h.visits[n] \in Leaves(b)
      BY <1>4, VisitedFacts
    <3>8. ToSet(h.visits) \subseteq Leaves(b)
      BY <3>7 DEF ToSet
    <3>9. Leaves(b) \subseteq ToSet(h.visits)
      BY <3>5, <3>6
    <3> QED  BY <3>8, <3>9
  <2> QED  BY <1>10, <1>11, <2>2, <2>3, Zenon DEF AfterPass, Completed, u
<1>13. CASE ~ MayEnd(b, st, 0)
  <2>1. st[0] # "Executing" /\ t.run # "Executing"
    BY <1>5, <1>13, Zenon DEF MayEnd
  <2>2. st[0] = "ExecutingChildren" \/ st[0] = "NeedsAnotherRun"
    BY <1>5, <2>1
  <2>3. ~ u.illogical /\ ~ isSuccessfullyCompleted(u, <<name>>)
    <3>1. ~ u.illogical /\ u.nodes[path[0]].state = st[0]
      BY <1>5, <1>8, <1>13, ShowsFacts
    <3> QED  BY <1>6, <2>2, <3>1 DEF isSuccessfullyCompleted
  <2>4. ~ IsDone(st[0])
    BY <2>2 DEF IsDone
  <2>5. h.cycles <= Cardinality(Finished(b, st))
    BY <1>3, <1>9, <2>1
  <2>6. TestInv(u, h, b, name, path, st, 0)
    BY <1>4, <1>8, <1>13, Zenon DEF TestInv
  <2>7. CycleInv(d, h, b, st)
    BY <1>7, <2>4, <2>5, Zenon DEF CycleInv
  <2>8. AtCycle(d, h, b, name)
    BY <2>6, <2>7, Zenon DEF AtCycle, u
  <2> QED  BY <1>10, <1>11, <2>3, <2>8, Zenon DEF AfterPass, u
<1> QED  BY <1>12, <1>13

-----------------------------------------------------------------------------
(***************************************************************************)
(* The registered test cases keep the bodies they were declared with.      *)
(***************************************************************************)
TestFields == {"name", "tags", "lcaseTags", "properties", "file", "body"}

IsTest(test)    == DOMAIN test = TestFields /\ WellNested(test.body)
AreTests(decls) == IsSequence(decls) /\ \A i \in 1..Len(decls) : IsTest(decls[i])

LEMMA SetTagsKeeps ==
    ASSUME NEW test, IsTest(test), NEW tags
    PROVE  IsTest(setTags(test, tags))
BY Zenon DEF IsTest, TestFields, setTags

LEMMA TestCaseIsTest ==
    ASSUME NEW decl, WellNested(decl.body)
    PROVE  IsTest(makeTestCase(decl))
<1> DEFINE written == ParsedTags(decl.tags)
           hidden  == \/ startsWith(decl.name, <<".", "/">>)
                      \/ \E t \in written : parseSpecialTag(t) = "IsHidden"
           tags    == written \cup (IF hidden THEN {<<"hide">>, <<".">>} ELSE {})
           bare    == [name |-> decl.name, tags |-> {}, lcaseTags |-> {}, properties |-> {},
                       file |-> decl.file, body |-> decl.body]
<1>1. makeTestCase(decl) = setTags(bare, tags)
  BY Zenon DEF makeTestCase
<1>2. IsTest(bare)
  BY Zenon DEF IsTest, TestFields
<1> HIDE DEF bare, tags
<1> QED  BY <1>1, <1>2, SetTagsKeeps, Zenon

LEMMA AppendTest ==
    ASSUME NEW decls, AreTests(decls), NEW test, IsTest(test)
    PROVE  AreTests(Append(decls, test))
<1>1. /\ IsSequence(Append(decls, test)) /\ Len(decls) \in Nat /\ Len(Append(decls, test)) = Len(decls) + 1
      /\ Last(Append(decls, test)) = test
      /\ \A n \in 1..Len(decls) : Append(decls, test)[n] = decls[n]
  BY AppendFacts DEF AreTests
<1>2. Append(decls, test)[Len(decls) + 1] = test
  BY <1>1 DEF Last
<1>3. ASSUME NEW n \in 1..(Len(decls) + 1) PROVE IsTest(Append(decls, test)[n])
  <2>1. CASE n = Len(decls) + 1
    BY <1>2, <2>1
  <2>2. CASE n # Len(decls) + 1
    <3>1. n \in 1..Len(decls)
      BY <1>1, <2>2
    <3> QED  BY <1>1, <3>1 DEF AreTests
  <2> QED  BY <2>1, <2>2
<1> QED  BY <1>1, <1>3, Zenon DEF AreTests

\* The fold over the declarations.
TestStep(p, st, decl) ==
    LET test == makeTestCase(decl)
    IN  IF test.name = << >>
        THEN [tests |-> Append(st.tests, [test EXCEPT !.name = <<"Anonymous test case", ToString(st.unnamed + 1)>>]),
              unnamed |-> st.unnamed + 1]
        ELSE [st EXCEPT !.tests = Append(@, test)]

TestsGood(p, st) == DOMAIN st = {"tests", "unnamed"} /\ AreTests(st.tests)

Registered == INSTANCE FoldInvariant WITH step <- TestStep, Good <- TestsGood

LEMMA TestsAreRegistered ==
    ASSUME NEW decls, Len(decls) \in Nat, \A i \in 1..Len(decls) : WellNested(decls[i].body)
    PROVE  AreTests(registerTests(decls))
<1> DEFINE base == [tests |-> << >>, unnamed |-> 0]
           told == Registered!Folded(0, base, decls)
<1>1. registerTests(decls) = told.tests
  BY Zenon DEF registerTests, Registered!Folded, Registered!Fold, Fold, TestStep
<1>2. TestsGood(0, base)
  <2>1. AreTests(<< >>)
    BY DEF AreTests, IsSequence
  <2> QED  BY <2>1, Zenon DEF TestsGood
<1>3. ASSUME NEW u, NEW k \in 1..Len(decls), TestsGood(0, u)
      PROVE  TestsGood(0, TestStep(0, u, decls[k]))
  <2> DEFINE test  == makeTestCase(decls[k])
             named == [test EXCEPT !.name = <<"Anonymous test case", ToString(u.unnamed + 1)>>]
  <2>1. IsTest(test) /\ DOMAIN u = {"tests", "unnamed"} /\ AreTests(u.tests)
    BY <1>3, TestCaseIsTest, Zenon DEF TestsGood
  <2>2. TestStep(0, u, decls[k]) = IF test.name = << >> THEN [tests |-> Append(u.tests, named), unnamed |-> u.unnamed + 1]
                                   ELSE [u EXCEPT !.tests = Append(@, test)]
    BY Zenon DEF TestStep
  <2> HIDE DEF test
  <2>3. IsTest(named)
    BY <2>1, Zenon DEF IsTest, TestFields
  <2> HIDE DEF named
  <2>4. AreTests(Append(u.tests, named)) /\ AreTests(Append(u.tests, test))
    BY <2>1, <2>3, AppendTest
  <2> HIDE DEF named
  <2> DEFINE first  == [tests |-> Append(u.tests, named), unnamed |-> u.unnamed + 1]
             second == [u EXCEPT !.tests = Append(@, test)]
  <2>5. TestsGood(0, first)
    BY <2>4, Zenon DEF TestsGood
  <2>6. TestsGood(0, second)
    BY <2>1, <2>4, Zenon DEF TestsGood
  <2> HIDE DEF first, second
  <2> QED  BY <2>2, <2>5, <2>6, Zenon DEF first, second
<1> HIDE DEF base
<1>4. TestsGood(0, told)
  BY <1>2, <1>3, Registered!FoldKeeps
<1> QED  BY <1>1, <1>4, Zenon DEF TestsGood

\* They are put in another order, and tagged with their files.
LEMMA TestsAreSorted ==
    ASSUME NEW decls, AreTests(decls), NEW order, NEW sorted \in sortTests(order, decls)
    PROVE  AreTests(sorted)
<1>1. IsSequence(decls) /\ Len(decls) \in Nat /\ DOMAIN decls = 1..Len(decls) /\ \A i \in 1..Len(decls) : IsTest(decls[i])
  BY SequenceFacts DEF AreTests
<1>2. ASSUME sorted \in Orders(decls) PROVE AreTests(sorted)
  <2>1. PICK p \in Bijection(DOMAIN decls, DOMAIN decls) : sorted = [i \in DOMAIN decls |-> decls[p[i]]]
    BY <1>2, Zenon DEF Orders
  <2>2. p \in [DOMAIN decls -> DOMAIN decls]
    BY <2>1, Zenon DEF Bijection, Injection
  <2> DEFINE n == Len(decls)
  <2>3. n \in Nat /\ DOMAIN sorted = 1..n /\ \A i \in 1..n : p[i] \in 1..n /\ sorted[i] = decls[p[i]]
    BY <1>1, <2>1, <2>2, Zenon
  <2>4. sorted = [i \in 1..n |-> decls[p[i]]]
    BY <1>1, <2>1, Zenon
  <2> HIDE DEF n
  <2>5. IsSequence(sorted)
    BY <2>3, <2>4, FunctionIsSequence
  <2>6. Len(sorted) = n
    BY <2>3, <2>5, SequenceFacts
  <2> QED  BY <1>1, <2>3, <2>5, <2>6, Zenon DEF AreTests, n
<1>3. sorted \in Orders(decls) \/ sorted = decls
  <2>1. CASE order = "InLexicographicalOrder"
    BY <2>1, Zenon DEF sortTests
  <2>2. CASE order = "InRandomOrder"
    BY <2>2 DEF sortTests
  <2>3. CASE order # "InLexicographicalOrder" /\ order # "InRandomOrder"
    BY <2>3 DEF sortTests
  <2> QED  BY <2>1, <2>2, <2>3
<1> QED  BY <1>2, <1>3

LEMMA TestsAreTagged ==
    ASSUME NEW decls, AreTests(decls)
    PROVE  AreTests(applyFilenamesAsTags(decls))
<1> DEFINE tagged == applyFilenamesAsTags(decls)
           n      == Len(decls)
           v(i)   == setTags(decls[i], decls[i].tags \cup {<<"#", decls[i].file>>})
<1>1. n \in Nat /\ DOMAIN decls = 1..n /\ \A i \in 1..n : IsTest(decls[i])
  BY SequenceFacts DEF AreTests
<1>2. tagged = [i \in 1..n |-> v(i)]
  BY <1>1, Zenon DEF applyFilenamesAsTags
<1>3. \A i \in 1..n : IsTest(v(i))
  BY <1>1, SetTagsKeeps, Zenon
<1> HIDE DEF tagged, v, n
<1>4. IsSequence(tagged)
  BY <1>1, <1>2, FunctionIsSequence
<1>5. Len(tagged) = n /\ \A i \in 1..n : tagged[i] = v(i)
  BY <1>1, <1>2, <1>4, SequenceFacts
<1> QED  BY <1>3, <1>4, <1>5, Zenon DEF AreTests, tagged

-----------------------------------------------------------------------------
(***************************************************************************)
(* The invariant of the process.                                           *)
(***************************************************************************)
TestName == <<Test.name>>

Declared(decls) == Len(decls) \in Nat /\ \A i \in 1..Len(decls) : WellNested(decls[i].body)

\* The test cases have nested bodies, and the one at hand is one of them.
TestsAreNested ==
    /\ Declared(suite.tests)
    /\ AreTests(tests)
    /\ next \in Nat \ {0}
    /\ InTest => next <= Len(tests)

\* Between two test cases no section is active or left.
NoSections(c) == c.active = << >> /\ c.unfinished = << >>

\* What is known of the sections at every place of the process.
SectionsPlaced ==
    /\ Unstarted \/ pc = "Selecting" => NoSections(context)
    /\ pc = "Cycle"     => AtCycle(context, history, Body, TestName)
    /\ pc = "Body"      => AtBody(context, frame, history, Body, TestName)
    /\ pc = "Unwinding" => AtUnwinding(context, frame, history, Body, TestName)
    /\ pc = "Return"    => AtReturn(context, frame, history, Body, TestName)
    /\ pc = "TestEnd"   => /\ NoSections(context)
                           /\ history.cycles <= Cardinality(SectionsOf(Body)) + 1
                           /\ ~ history.unwound /\ ~ aborting(context) => ToSet(history.visits) = Leaves(Body)
    /\ pc = "Fatal"     => Closable(context.tracker, context.active)

\* The inductive invariant.
SectionsInv ==
    /\ Shaped(context, frame, history)
    /\ TestsAreNested
    /\ ~ context.tracker.illogical
    /\ IsInjective(history.visits)
    /\ SectionsPlaced

\* In a pass the tracker has met no state it cannot have, and no innermost section was entered twice.
LEMMA WalkIsSound ==
    ASSUME NEW c, NEW f, NEW h, NEW b, NEW name,
           \/ AtCycle(c, h, b, name) \/ AtBody(c, f, h, b, name)
           \/ AtUnwinding(c, f, h, b, name) \/ AtReturn(c, f, h, b, name)
    PROVE  ~ c.tracker.illogical /\ IsInjective(h.visits)
<1>1. PICK path, st, i : TestInv(c.tracker, h, b, name, path, st, i)
  BY Zenon DEF AtCycle, AtBody, AtUnwinding, AtReturn
<1> QED  BY <1>1, Zenon DEF TestInv, Shows, Visited

\* The sections that are active in a pass can be closed.
LEMMA WalkIsClosable ==
    ASSUME NEW c, NEW f, NEW h, NEW b, WellNested(b), NEW name,
           AtBody(c, f, h, b, name) \/ AtUnwinding(c, f, h, b, name) \/ AtReturn(c, f, h, b, name)
    PROVE  Closable(c.tracker, c.active)
<1>1. PICK path, st, i : TestInv(c.tracker, h, b, name, path, st, i) /\ PassInv(c, f, h, b, path, st, i)
  BY Zenon DEF AtBody, AtUnwinding, AtReturn
<1>2. /\ Shows(c.tracker, b, name, path, st)
      /\ Way(c.tracker, b, path, st, i) /\ IsActive(c.active, c.tracker.current)
  BY <1>1, Zenon DEF TestInv, PassInv
<1> QED  BY <1>2, WayIsClosable

\* The passes are at most one more than the sections.
LEMMA WalkIsBounded ==
    ASSUME NEW c, NEW f, NEW h, Shaped(c, f, h), NEW b, WellNested(b), NEW name,
           AtCycle(c, h, b, name) \/ AtBody(c, f, h, b, name)
    PROVE  h.cycles <= Cardinality(SectionsOf(b)) + 1
<1>1. PICK st : h.cycles <= Cardinality(Finished(b, st)) + 1
  <2>1. CASE AtCycle(c, h, b, name)
    <3>1. PICK st : h.cycles <= Cardinality(Finished(b, st))
      BY <2>1, Zenon DEF AtCycle, CycleInv
    <3>2. Cardinality(Finished(b, st)) \in Nat /\ h.cycles \in Nat
      BY FinishedFacts DEF Shaped
    <3> QED  BY <3>1, <3>2
  <2>2. CASE AtBody(c, f, h, b, name)
    <3>1. PICK st : h.cycles <= Cardinality(Finished(b, st)) + (IF c.tracker.run = "Executing" THEN 1 ELSE 0)
      BY <2>2, Zenon DEF AtBody, PassInv
    <3>2. Cardinality(Finished(b, st)) \in Nat /\ h.cycles \in Nat
      BY FinishedFacts DEF Shaped
    <3> QED  BY <3>1, <3>2
  <2> QED  BY <2>1, <2>2
<1>2. /\ Cardinality(Finished(b, st)) \in Nat /\ h.cycles \in Nat /\ Cardinality(SectionsOf(b)) \in Nat
      /\ Cardinality(Finished(b, st)) <= Cardinality(SectionsOf(b))
  BY FinishedFacts DEF Shaped
<1> QED  BY <1>1, <1>2

\* The body of the test at hand.
LEMMA BodyIsNested ==
    ASSUME SectionsInv, InTest
    PROVE  WellNested(Body)
<1>1. AreTests(tests) /\ next \in Nat \ {0} /\ next <= Len(tests)
  BY Zenon DEF SectionsInv, TestsAreNested
<1>2. next \in 1..Len(tests)
  <2>1. Len(tests) \in Nat
    BY <1>1, SequenceFacts DEF AreTests
  <2> QED  BY <1>1, <2>1
<1> QED  BY <1>1, <1>2, Zenon DEF AreTests, IsTest, Body, Test

LEMMA SectionsInvImplies == SectionsInv => SectionsRunOnce
<1> SUFFICES ASSUME SectionsInv PROVE SectionsRunOnce
  OBVIOUS
<1>1. ~ context.tracker.illogical /\ IsInjective(history.visits)
  BY Zenon DEF SectionsInv
<1>2. CASE pc = "TestEnd"
  <2>1. /\ history.cycles <= Cardinality(SectionsOf(Body)) + 1
        /\ ~ history.unwound /\ ~ aborting(context) => ToSet(history.visits) = Leaves(Body)
    BY <1>2, Zenon DEF SectionsInv, SectionsPlaced
  <2> QED  BY <1>1, <1>2, <2>1, Zenon DEF SectionsRunOnce
<1>3. CASE pc = "Cycle" \/ pc = "Body"
  <2>1. Shaped(context, frame, history) /\ (AtCycle(context, history, Body, TestName) \/ AtBody(context, frame, history, Body, TestName))
    BY <1>3, Zenon DEF SectionsInv, SectionsPlaced
  <2>2. WellNested(Body)
    BY <1>3, BodyIsNested DEF InTest
  <2>3. history.cycles <= Cardinality(SectionsOf(Body)) + 1
    BY <2>1, <2>2, WalkIsBounded
  <2>4. pc # "TestEnd"
    BY <1>3
  <2> QED  BY <1>1, <2>3, <2>4, Zenon DEF SectionsRunOnce
<1>4. CASE pc \notin {"Cycle", "Body", "TestEnd"}
  BY <1>1, <1>4, Zenon DEF SectionsRunOnce
<1> QED  BY <1>2, <1>3, <1>4

-----------------------------------------------------------------------------
(***************************************************************************)
(* Every step keeps it.                                                    *)
(***************************************************************************)
\* The test cases stay as they are.
LEMMA TestsStay ==
    ASSUME SectionsInv, suite' = suite, tests' = tests, next' = next, InTest' => InTest
    PROVE  TestsAreNested' /\ Body' = Body /\ TestName' = TestName
<1>1. TestsAreNested
  BY Zenon DEF SectionsInv
<1>2. TestsAreNested'
  BY <1>1, Zenon DEF TestsAreNested
<1> QED  BY <1>2, Zenon DEF Body, Test, TestName

\* A step to another place of the same test case.
LEMMA WalkKeeps ==
    ASSUME SectionsInv, InTest, suite' = suite, tests' = tests, next' = next,
           Shaped(context', frame', history'),
           NEW p, pc' = p \/ pc' = "Hung" \/ pc' = "Aborted",
           \/ p = "Cycle"     /\ AtCycle(context', history', Body, TestName)
           \/ p = "Body"      /\ AtBody(context', frame', history', Body, TestName)
           \/ p = "Unwinding" /\ AtUnwinding(context', frame', history', Body, TestName)
           \/ p = "Return"    /\ AtReturn(context', frame', history', Body, TestName)
    PROVE  SectionsInv'
<1>1. TestsAreNested' /\ Body' = Body /\ TestName' = TestName
  BY TestsStay
<1>2. ~ context'.tracker.illogical /\ IsInjective(history'.visits)
  BY WalkIsSound
<1>3. /\ pc' = "Cycle"     => AtCycle(context', history', Body, TestName)
      /\ pc' = "Body"      => AtBody(context', frame', history', Body, TestName)
      /\ pc' = "Unwinding" => AtUnwinding(context', frame', history', Body, TestName)
      /\ pc' = "Return"    => AtReturn(context', frame', history', Body, TestName)
      /\ pc' # "TestEnd" /\ pc' # "Fatal" /\ pc' # "Selecting" /\ ~ Unstarted'
  BY DEF Unstarted
<1>4. SectionsPlaced'
  BY <1>1, <1>3, Zenon DEF SectionsPlaced
<1> QED  BY <1>1, <1>2, <1>4, Zenon DEF SectionsInv

\* A step to a place where nothing is known of the sections but that none is active.
LEMMA QuietKeeps ==
    ASSUME TestsAreNested', Shaped(context', frame', history'), IsInjective(history'.visits),
           NoSections(context'), ~ context'.tracker.illogical,
           Unstarted' \/ pc' = "Selecting" \/ pc' = "Exited" \/ pc' = "Hung" \/ pc' = "Aborted"
    PROVE  SectionsInv'
<1>3. /\ pc' # "Cycle" /\ pc' # "Body" /\ pc' # "Unwinding" /\ pc' # "Return"
      /\ pc' # "TestEnd" /\ pc' # "Fatal"
  BY DEF Unstarted
<1>4. SectionsPlaced'
  BY <1>3, Zenon DEF SectionsPlaced
<1> QED  BY <1>4, Zenon DEF SectionsInv

\* Without sections the context keeps its shape.
LEMMA QuietShape ==
    ASSUME NEW c, NEW f, NEW h, Shaped(c, f, h), NEW d, DOMAIN d = ContextFields, NoSections(d)
    PROVE  Shaped(d, f, h)
<1>1. IsSequence(d.unfinished)
  BY DEF NoSections, IsSequence
<1> QED  BY <1>1, Zenon DEF Shaped

\* Before the tests are run: registration, the command line, the order of the tests.
LEMMA PrepareSections ==
    ASSUME SectionsInv, Prepare
    PROVE  SectionsInv'
<1>1. /\ Shaped(context, frame, history) /\ TestsAreNested /\ ~ context.tracker.illogical /\ SectionsPlaced
  BY Zenon DEF SectionsInv
<1>2. /\ Unstarted /\ suite' = suite /\ next' = next /\ context' = context /\ frame' = frame /\ history' = history
      /\ Unstarted' \/ pc' = "Exited"
  <2>1. CASE Register
    BY <2>1 DEF Register, Unstarted, Exit
  <2>2. CASE applyCommandLine
    <3>1. pc = "Main" /\ suite' = suite /\ next' = next /\ context' = context /\ frame' = frame /\ history' = history
      BY <2>2, Zenon DEF applyCommandLine
    <3>2. pc' = "Configured" \/ pc' = "Exited"
      <4>1. CASE config'.error
        BY <2>2, <4>1, Zenon DEF applyCommandLine, Exit
      <4>2. CASE ~ config'.error /\ config'.showHelp
        BY <2>2, <4>2, Zenon DEF applyCommandLine, Exit
      <4>3. CASE ~ config'.error /\ ~ config'.showHelp
        BY <2>2, <4>3, Zenon DEF applyCommandLine, Exit
      <4> QED  BY <4>1, <4>2, <4>3, Zenon
    <3> QED  BY <3>1, <3>2, Zenon DEF Unstarted
  <2>3. CASE run
    <3>1. pc = "Configured" /\ suite' = suite /\ next' = next /\ context' = context /\ frame' = frame /\ history' = history
      BY <2>3, Zenon DEF run
    <3>2. pc' = "RunTests" \/ pc' = "Exited"
      BY <2>3, Zenon DEF run, Exit
    <3> QED  BY <3>1, <3>2, Zenon DEF Unstarted
  <2> QED  BY <2>1, <2>2, <2>3, Zenon DEF Prepare
<1>3. AreTests(tests')
  <2>1. AreTests(tests)
    BY <1>1, Zenon DEF TestsAreNested
  <2>2. CASE tests' = tests
    BY <2>1, <2>2
  <2>3. CASE tests' = registerTests(suite.tests)
    <3>1. Len(suite.tests) \in Nat /\ \A i \in 1..Len(suite.tests) : WellNested(suite.tests[i].body)
      BY <1>1, Zenon DEF TestsAreNested, Declared
    <3>2. AreTests(registerTests(suite.tests))
      BY <3>1, TestsAreRegistered
    <3> QED  BY <2>3, <3>2
  <2>4. CASE \E sorted \in sortTests(config.runOrder, tests) :
               tests' = IF config.filenamesAsTags THEN applyFilenamesAsTags(sorted) ELSE sorted
    <3>1. PICK sorted \in sortTests(config.runOrder, tests) :
                 tests' = IF config.filenamesAsTags THEN applyFilenamesAsTags(sorted) ELSE sorted
      BY <2>4
    <3>2. AreTests(sorted)
      BY <2>1, TestsAreSorted
    <3> QED  BY <3>1, <3>2, TestsAreTagged, Zenon
  <2> QED  BY <2>2, <2>3, <2>4, Zenon DEF Prepare, Register, applyCommandLine, run
<1>4. TestsAreNested'
  <2>1. ~ InTest'
    BY <1>2 DEF InTest, Unstarted
  <2> QED  BY <1>1, <1>2, <1>3, <2>1, Zenon DEF TestsAreNested
<1>5. NoSections(context')
  BY <1>1, <1>2, Zenon DEF SectionsPlaced
<1>6. Shaped(context', frame', history') /\ IsInjective(history'.visits)
  BY <1>1, <1>2, Zenon DEF SectionsInv
<1> QED  BY <1>1, <1>2, <1>4, <1>5, <1>6, QuietKeeps, Zenon

(***************************************************************************)
(* The steps of runTests.                                                  *)
(***************************************************************************)
LEMMA FreshSections ==
    ASSUME NEW reporters
    PROVE  LET c == RunContext(reporters)
           IN  DOMAIN c = ContextFields /\ NoSections(c) /\ ~ c.tracker.illogical
<1>1. ~ startRun.illogical
  BY DEF startRun
<1> QED  BY <1>1, Zenon DEF RunContext, ContextFields, NoSections

\* A report, or the end of the run, changes nothing about the sections.
LEMMA ReportQuiet ==
    ASSUME NEW c, DOMAIN c = ContextFields, NoSections(c), ~ c.tracker.illogical, NEW e
    PROVE  /\ DOMAIN Report(c, e) = ContextFields /\ NoSections(Report(c, e)) /\ ~ Report(c, e).tracker.illogical
BY ReportSame, Zenon DEF SameSections, NoSections

LEMMA EndRunQuiet ==
    ASSUME NEW c, DOMAIN c = ContextFields, NoSections(c), ~ c.tracker.illogical
    PROVE  /\ DOMAIN EndRun(c) = ContextFields /\ NoSections(EndRun(c)) /\ ~ EndRun(c).tracker.illogical
<1> DEFINE ended == Report(c, [type |-> "testRunEnded", totals |-> c.totals])
<1>1. DOMAIN ended = ContextFields /\ NoSections(ended) /\ ~ ended.tracker.illogical
  BY ReportQuiet, Zenon
<1>2. EndRun(c) = [ended EXCEPT !.reporters = [i \in DOMAIN @ |-> CloseTags(@[i])]]
  BY Zenon DEF EndRun
<1> HIDE DEF ended
<1> QED  BY <1>1, <1>2, Zenon DEF NoSections, ContextFields

LEMMA RunTestsSections ==
    ASSUME SectionsInv, runTests
    PROVE  SectionsInv'
<1> DEFINE fresh  == RunContext(makeReporter(config.reporterNames))
           start  == Report(fresh, [type |-> "testRunStarting"])
           opened == Report(start, [type |-> "testGroupStarting"])
<1>1. /\ Shaped(context, frame, history) /\ TestsAreNested /\ ~ context.tracker.illogical /\ SectionsPlaced
      /\ IsInjective(history.visits)
  BY Zenon DEF SectionsInv
<1>2. /\ pc = "RunTests" /\ suite' = suite /\ tests' = tests /\ next' = next /\ frame' = frame /\ history' = history
      /\ context' = context \/ context' = opened \/ context' = EndRun(opened)
      /\ pc' = "Selecting" \/ pc' = "Exited"
  BY Zenon DEF runTests, Exit
<1>3. DOMAIN fresh = ContextFields /\ NoSections(fresh) /\ ~ fresh.tracker.illogical
  BY FreshSections, Zenon
<1> HIDE DEF fresh
<1>4. DOMAIN start = ContextFields /\ NoSections(start) /\ ~ start.tracker.illogical
  BY <1>3, ReportQuiet, Zenon
<1> HIDE DEF start
<1>5. DOMAIN opened = ContextFields /\ NoSections(opened) /\ ~ opened.tracker.illogical
  BY <1>4, ReportQuiet, Zenon
<1> HIDE DEF opened
<1>6. DOMAIN context' = ContextFields /\ NoSections(context') /\ ~ context'.tracker.illogical
  <2>1. DOMAIN context = ContextFields /\ NoSections(context)
    BY <1>1, <1>2, Zenon DEF Shaped, SectionsPlaced, Unstarted
  <2> QED  BY <1>1, <1>2, <1>5, <2>1, EndRunQuiet, Zenon
<1>7. Shaped(context', frame', history') /\ IsInjective(history'.visits)
  BY <1>1, <1>2, <1>6, QuietShape, Zenon
<1>8. TestsAreNested'
  <2>1. ~ InTest'
    BY <1>2 DEF InTest
  <2> QED  BY <1>1, <1>2, <2>1, Zenon DEF TestsAreNested
<1> QED  BY <1>2, <1>6, <1>7, <1>8, QuietKeeps, Zenon

\* A test that is skipped, and the end of the tests.
LEMMA SkipSections ==
    ASSUME SectionsInv, skipTest \/ endTests
    PROVE  SectionsInv'
<1>1. /\ Shaped(context, frame, history) /\ TestsAreNested /\ ~ context.tracker.illogical /\ SectionsPlaced
      /\ IsInjective(history.visits)
  BY Zenon DEF SectionsInv
<1>2. /\ pc = "Selecting" /\ suite' = suite /\ tests' = tests /\ frame' = frame /\ history' = history
      /\ next' = next \/ next' = next + 1
      /\ \/ context' = Report(context, [type |-> "skipTest"])
         \/ context' = EndRun(Report(context, [type |-> "testGroupEnded", totals |-> sum]))
      /\ pc' = "Selecting" \/ pc' = "Exited"
  BY Zenon DEF skipTest, endTests, Exit
<1>3. DOMAIN context = ContextFields /\ NoSections(context) /\ ~ context.tracker.illogical
  BY <1>1, <1>2, Zenon DEF Shaped, SectionsPlaced
<1>4. DOMAIN context' = ContextFields /\ NoSections(context') /\ ~ context'.tracker.illogical
  <2>1. CASE context' = Report(context, [type |-> "skipTest"])
    BY <1>3, <2>1, ReportQuiet, Zenon
  <2>2. CASE context' = EndRun(Report(context, [type |-> "testGroupEnded", totals |-> sum]))
    <3> DEFINE told == Report(context, [type |-> "testGroupEnded", totals |-> sum])
    <3>1. DOMAIN told = ContextFields /\ NoSections(told) /\ ~ told.tracker.illogical
      BY <1>3, ReportQuiet, Zenon
    <3> QED  BY <2>2, <3>1, EndRunQuiet, Zenon
  <2> QED  BY <1>2, <2>1, <2>2
<1>5. Shaped(context', frame', history') /\ IsInjective(history'.visits)
  BY <1>1, <1>2, <1>4, QuietShape, Zenon
<1>6. TestsAreNested'
  <2>1. ~ InTest' /\ next' \in Nat \ {0}
    BY <1>1, <1>2 DEF InTest, TestsAreNested
  <2> QED  BY <1>1, <1>2, <2>1, Zenon DEF TestsAreNested
<1> QED  BY <1>2, <1>4, <1>5, <1>6, QuietKeeps, Zenon

\* A test case is started with a tracker that knows no sections.
LEMMA FreshWalk ==
    ASSUME NEW c, NEW h, NEW b, WellNested(b), NEW name,
           c.tracker = startRun, NoSections(c), h.visits = << >>, h.cycles = 0
    PROVE  AtCycle(c, h, b, name)
<1> DEFINE st == << >>
<1>1. DOMAIN st = {}
  OBVIOUS
<1> HIDE DEF st
<1>2. /\ DOMAIN startRun = {"nodes", "current", "run", "illogical"} /\ ~ startRun.illogical
      /\ DOMAIN startRun.nodes = {Root} /\ startRun.nodes[Root] = NewTracker
  <2>1. Root \in {Root}
    OBVIOUS
  <2> QED  BY <2>1, Zenon DEF startRun
<1>3. KnowsSections(b, st) /\ HasPaths(b, name, st, st)
  BY <1>1, Zenon DEF KnowsSections, HasPaths
<1>4. HasNodes(b, st, st, startRun.nodes)
  <2>1. DOMAIN NewTracker = {"state", "children"} /\ NewTracker.children = << >>
    BY DEF NewTracker
  <2>2. \A S : << >> \in Seq(S)
    OBVIOUS
  <2>3. {st[i] : i \in DOMAIN st} = {}
    BY <1>1
  <2>4. DOMAIN startRun.nodes = {Root} \cup {st[i] : i \in DOMAIN st}
    BY <1>2, <2>3
  <2>5. startRun.nodes[Root].children \in Seq({startRun.nodes[Root].children[n] : n \in DOMAIN startRun.nodes[Root].children})
    BY <1>2, <2>1, <2>2, Zenon
  <2> QED  BY <1>1, <1>2, <2>1, <2>4, <2>5, Zenon DEF HasNodes
<1>5. Shows(startRun, b, name, st, st)
  BY <1>2, <1>3, <1>4, Zenon DEF Shows
<1>6. InOrder(b, st)
  BY <1>1, Zenon DEF InOrder
<1>7. Visited(b, st, h.visits, 0)
  <2>1. << >> \in Seq(Leaves(b)) /\ DOMAIN << >> = {} /\ IsInjective(<< >>)
    BY DEF IsInjective
  <2> QED  BY <1>1, <2>1 DEF Visited
<1>8. Thorough(b, st, h.visits)
  BY <1>1, Zenon DEF Thorough
<1>9. CycleInv(c, h, b, st)
  <2>1. Cardinality(Finished(b, st)) \in Nat
    BY FinishedFacts
  <2>2. 0 <= Cardinality(Finished(b, st))
    BY <2>1
  <2> QED  BY <1>1, <2>2, Zenon DEF CycleInv, NoSections
<1>10. TestInv(c.tracker, h, b, name, st, st, 0)
  BY <1>5, <1>6, <1>7, <1>8, Zenon DEF TestInv
<1> QED  BY <1>9, <1>10, Zenon DEF AtCycle

LEMMA RunTestSections ==
    ASSUME SectionsInv, runTest
    PROVE  SectionsInv'
<1>1. /\ Shaped(context, frame, history) /\ TestsAreNested /\ SectionsPlaced
  BY Zenon DEF SectionsInv
<1>2. /\ pc = "Selecting" /\ next <= Len(tests) /\ suite' = suite /\ tests' = tests /\ next' = next /\ frame' = frame
      /\ context' = Report([context EXCEPT !.tracker = startRun], [type |-> "testCaseStarting"])
      /\ history' = [history EXCEPT !.visits = << >>, !.cycles = 0, !.unwound = FALSE,
                                    !.before = context.failing + context.missing]
      /\ pc' = "Cycle"
  BY Zenon DEF runTest
<1>3. DOMAIN context = ContextFields /\ DOMAIN frame = FrameFields /\ DOMAIN history = HistoryFields /\ NoSections(context)
  BY <1>1, <1>2, Zenon DEF Shaped, SectionsPlaced
<1>4. DOMAIN context' = ContextFields /\ context'.tracker = startRun /\ NoSections(context')
  <2> DEFINE set == [context EXCEPT !.tracker = startRun]
             e   == [type |-> "testCaseStarting"]
  <2>1. DOMAIN set = ContextFields /\ set.tracker = startRun /\ NoSections(set)
    BY <1>3, Zenon DEF ContextFields, NoSections
  <2>2. context' = Report(set, e)
    BY <1>2, Zenon
  <2> HIDE DEF set, e
  <2> QED  BY <2>1, <2>2, ReportSame, Zenon DEF SameSections, NoSections
<1>5. DOMAIN history' = HistoryFields /\ history'.visits = << >> /\ history'.cycles = 0
  BY <1>2, <1>3, Zenon DEF HistoryFields
<1>6. Shaped(context', frame', history')
  <2>1. 0 \in Nat /\ IsSequence(<< >>)
    BY DEF IsSequence
  <2> QED  BY <1>2, <1>3, <1>4, <1>5, <2>1, Zenon DEF Shaped, NoSections
<1>7. TestsAreNested'
  BY <1>1, <1>2, Zenon DEF TestsAreNested
<1>8. WellNested(Body)'
  <2>1. next' \in 1..Len(tests')
    <3>1. Len(tests') \in Nat
      BY <1>7, SequenceFacts DEF TestsAreNested, AreTests
    <3>2. next' \in Nat \ {0} /\ next' <= Len(tests')
      BY <1>2, <1>7, Zenon DEF TestsAreNested
    <3> QED  BY <3>1, <3>2
  <2> QED  BY <1>7, <2>1, Zenon DEF TestsAreNested, AreTests, IsTest, Body, Test
<1>9. AtCycle(context', history', Body', TestName')
  BY <1>4, <1>5, <1>8, FreshWalk
<1>10. ~ context'.tracker.illogical /\ IsInjective(history'.visits)
  BY <1>9, WalkIsSound
<1>11. SectionsPlaced'
  <2>1. /\ pc' # "Body" /\ pc' # "Unwinding" /\ pc' # "Return"
        /\ pc' # "TestEnd" /\ pc' # "Fatal" /\ pc' # "Selecting" /\ ~ Unstarted'
    BY <1>2 DEF Unstarted
  <2> QED  BY <1>9, <2>1, Zenon DEF SectionsPlaced
<1> QED  BY <1>6, <1>7, <1>10, <1>11, Zenon DEF SectionsInv

LEMMA StartPassSections ==
    ASSUME SectionsInv, startPass
    PROVE  SectionsInv'
<1>1. Shaped(context, frame, history) /\ SectionsPlaced
  BY Zenon DEF SectionsInv
<1>2. /\ pc = "Cycle" /\ suite' = suite /\ tests' = tests /\ next' = next /\ pc' = "Body"
      /\ StartStep(context, history, TestName, context', frame', history')
  BY Zenon DEF startPass, StartStep, TestName
<1>3. InTest /\ AtCycle(context, history, Body, TestName)
  BY <1>1, <1>2, Zenon DEF InTest, SectionsPlaced
<1>4. WellNested(Body)
  BY <1>3, BodyIsNested
<1>5. Shaped(context', frame', history') /\ AtBody(context', frame', history', Body, TestName)
  BY <1>1, <1>2, <1>3, <1>4, StartWalk
<1> QED  BY <1>2, <1>3, <1>5, WalkKeeps

\* The end of a pass: another one, or the end of the test case.
LEMMA EndPassSections ==
    ASSUME SectionsInv, endPass
    PROVE  SectionsInv'
<1>1. Shaped(context, frame, history) /\ TestsAreNested /\ SectionsPlaced
  BY Zenon DEF SectionsInv
<1>2. /\ pc = "Return" /\ suite' = suite /\ tests' = tests /\ next' = next /\ config' = config
      /\ history' = history /\ frame' = NoFrame
  BY Zenon DEF endPass
<1>3. InTest /\ AtReturn(context, frame, history, Body, TestName)
  BY <1>1, <1>2, Zenon DEF InTest, SectionsPlaced
<1>4. WellNested(Body)
  BY <1>3, BodyIsNested
<1>5. DOMAIN context = ContextFields /\ IsSequence(context.unfinished) /\ DOMAIN history = HistoryFields
  BY <1>1, Zenon DEF Shaped
<1>6. context.active = << >>
  <2>1. PICK path, st, i : /\ TestInv(context.tracker, history, Body, TestName, path, st, i)
                           /\ PassInv(context, frame, history, Body, path, st, i)
                           /\ ReturnInv(context, history, Body, st, i)
    BY <1>3, Zenon DEF AtReturn
  <2>2. /\ i = 0 /\ i \in DOMAIN st /\ context.tracker.current = path[i] /\ IsActive(context.active, path[i])
        /\ Shows(context.tracker, Body, TestName, path, st)
    BY <2>1, Zenon DEF ReturnInv, PassInv, Way, TestInv
  <2>3. KnowsSections(Body, st) /\ HasPaths(Body, TestName, path, st)
    BY <2>2, ShowsFacts
  <2>4. Len(path[i]) = 1
    BY <2>2, <2>3, PathFacts
  <2> QED  BY <2>2, <2>4, ActiveEmpty
<1>7. ClosesTest(context, TestPath, context')
  BY <1>5, <1>6, EndPassIs
<1>8. TestPath = <<TestName>>
  BY Zenon DEF TestPath, TestName
<1>9. AfterPass(history, Body, TestName, context')
  <2>1. ClosesTest(context, <<TestName>>, context')
    BY <1>7, <1>8, Zenon
  <2> QED  BY <1>1, <1>3, <1>4, <2>1, AfterPassWalk
<1>10. DOMAIN context' = ContextFields /\ NoSections(context')
  BY <1>7, Zenon DEF ClosesTest, NoSections
<1>11. Shaped(context', frame', history')
  <2>1. DOMAIN NoFrame = FrameFields
    BY Zenon DEF NoFrame, FrameFields
  <2>2. Shaped(context, NoFrame, history)
    BY <1>1, <2>1, Zenon DEF Shaped
  <2> QED  BY <1>2, <1>10, <2>2, QuietShape, Zenon
<1> DEFINE label == IF ~ isSuccessfullyCompleted(context'.tracker, <<TestName>>) /\ ~ aborting(context') THEN "Cycle" ELSE "TestEnd"
<1>12. pc' = label \/ pc' = "Hung" \/ pc' = "Aborted"
  <2>1. Goto(context', label)
    BY <1>8, Zenon DEF endPass
  <2> HIDE DEF label
  <2> QED  BY <2>1, GotoTargets, Zenon
<1>13. CASE pc' = "Cycle"
  <2>1. ~ isSuccessfullyCompleted(context'.tracker, <<TestName>>)
    BY <1>12, <1>13
  <2>2. AtCycle(context', history', Body, TestName)
    BY <1>2, <1>9, <2>1, Zenon DEF AfterPass
  <2> QED  BY <1>2, <1>3, <1>11, <1>13, <2>2, WalkKeeps
<1>14. CASE pc' # "Cycle"
  <2>1. TestsAreNested' /\ Body' = Body /\ TestName' = TestName
    BY <1>2, <1>3, TestsStay
  <2>2. ~ context'.tracker.illogical /\ IsInjective(history'.visits)
    BY <1>2, <1>9, Zenon DEF AfterPass
  <2>3. SectionsPlaced'
    <3>1. pc' = "TestEnd" => isSuccessfullyCompleted(context'.tracker, <<TestName>>) \/ aborting(context')
      BY <1>12
    <3>2. /\ history.cycles <= Cardinality(SectionsOf(Body)) + 1
          /\ isSuccessfullyCompleted(context'.tracker, <<TestName>>) /\ ~ history.unwound => ToSet(history.visits) = Leaves(Body)
      BY <1>9, Zenon DEF AfterPass, Completed
    <3>3. /\ pc' # "Body" /\ pc' # "Unwinding" /\ pc' # "Return"
          /\ pc' # "Fatal" /\ pc' # "Selecting" /\ ~ Unstarted'
      BY <1>12 DEF Unstarted
    <3>4. aborting(context)' <=> aborting(context')
      BY <1>2, Zenon DEF aborting
    <3> QED  BY <1>2, <1>10, <1>14, <2>1, <3>1, <3>2, <3>3, <3>4, Zenon DEF SectionsPlaced
  <2> QED  BY <1>11, <2>1, <2>2, <2>3, Zenon DEF SectionsInv
<1> QED  BY <1>13, <1>14

\* The end of a test case.
LEMMA EndTestSections ==
    ASSUME SectionsInv, endTest
    PROVE  SectionsInv'
<1>1. /\ Shaped(context, frame, history) /\ TestsAreNested /\ SectionsPlaced /\ ~ context.tracker.illogical
      /\ IsInjective(history.visits)
  BY Zenon DEF SectionsInv
<1> DEFINE done  == delta(context.totals, before)
           final == IF expectedToFail(Test) /\ done.testCases.passed > 0
                    THEN [done EXCEPT !.assertions.failed = @ + 1,
                                      !.testCases.passed = @ - 1, !.testCases.failed = @ + 1] ELSE done
           told  == [context EXCEPT !.totals.testCases = Plus(@, final.testCases)]
           e     == [type |-> "testCaseEnded"]
           ended == Report(told, e)
           failed == context.failing + context.missing > history.before
<1>2. /\ pc = "TestEnd" /\ suite' = suite /\ tests' = tests /\ next' = next + 1 /\ frame' = frame /\ context' = ended
      /\ history' = [history EXCEPT !.bad = @ \/ (failed /\ ~okToFail(Test)) \/ (~failed /\ expectedToFail(Test))]
      /\ Goto(ended, "Selecting")
  BY Zenon DEF endTest
<1>3. DOMAIN context = ContextFields /\ DOMAIN history = HistoryFields /\ NoSections(context)
  BY <1>1, <1>2, Zenon DEF Shaped, SectionsPlaced
<1>4. DOMAIN told = ContextFields /\ NoSections(told) /\ ~ told.tracker.illogical
  BY <1>1, <1>3, Zenon DEF ContextFields, NoSections
<1> HIDE DEF told, e, failed
<1>5. DOMAIN ended = ContextFields /\ NoSections(ended) /\ ~ ended.tracker.illogical
  BY <1>4, ReportQuiet, Zenon
<1>6. pc' = "Selecting" \/ pc' = "Hung" \/ pc' = "Aborted"
  BY <1>2, GotoTargets, Zenon
<1> HIDE DEF ended
<1>7. DOMAIN history' = HistoryFields /\ history'.visits = history.visits /\ history'.cycles = history.cycles
  BY <1>2, <1>3, Zenon DEF HistoryFields
<1>8. Shaped(context', frame', history') /\ IsInjective(history'.visits)
  <2>1. Shaped(context, frame, history')
    BY <1>1, <1>7, Zenon DEF Shaped
  <2> QED  BY <1>1, <1>2, <1>5, <1>7, <2>1, QuietShape, Zenon
<1>9. TestsAreNested'
  <2>1. ~ InTest' /\ next' \in Nat \ {0}
    BY <1>1, <1>2, <1>6 DEF InTest, TestsAreNested
  <2> QED  BY <1>1, <1>2, <2>1, Zenon DEF TestsAreNested
<1> QED  BY <1>2, <1>5, <1>6, <1>8, <1>9, QuietKeeps, Zenon

(***************************************************************************)
(* The steps of the body.                                                  *)
(***************************************************************************)
\* What is known before each of them.
LEMMA InBody ==
    ASSUME SectionsInv, pc = "Body"
    PROVE  /\ Shaped(context, frame, history) /\ InTest /\ WellNested(Body)
           /\ AtBody(context, frame, history, Body, TestName)
<1>1. InTest
  BY Zenon DEF InTest
<1> QED  BY <1>1, BodyIsNested, Zenon DEF SectionsInv, SectionsPlaced

LEMMA InUnwinding ==
    ASSUME SectionsInv, pc = "Unwinding"
    PROVE  /\ Shaped(context, frame, history) /\ InTest /\ WellNested(Body)
           /\ AtUnwinding(context, frame, history, Body, TestName)
<1>1. InTest
  BY Zenon DEF InTest
<1> QED  BY <1>1, BodyIsNested, Zenon DEF SectionsInv, SectionsPlaced

\* The instruction at hand is one of the body.
LEMMA AtInstruction ==
    ASSUME SectionsInv, NEW op, At(op)
    PROVE  pc = "Body" /\ frame.ip \in 1..Len(Body) /\ DOMAIN Body = 1..Len(Body) /\ Body[frame.ip].op = op
<1>1. pc = "Body" /\ frame.ip <= Len(Body) /\ Body[frame.ip].op = op
  BY Zenon DEF At, Instr
<1>2. WellNested(Body) /\ AtBody(context, frame, history, Body, TestName)
  BY <1>1, InBody
<1>3. frame.ip \in 1..(Len(Body) + 1)
  BY <1>2, Zenon DEF AtBody, BodyInv
<1>4. Len(Body) \in Nat /\ DOMAIN Body = 1..Len(Body)
  BY <1>2, Zenon DEF WellNested
<1> QED  BY <1>1, <1>3, <1>4

LEMMA SectionSections ==
    ASSUME SectionsInv, Section
    PROVE  SectionsInv'
<1>1. At("section")
  BY Zenon DEF Section
<1>2. pc = "Body" /\ frame.ip \in 1..Len(Body) /\ DOMAIN Body = 1..Len(Body) /\ Body[frame.ip].op = "section"
  BY <1>1, AtInstruction
<1>3. /\ Shaped(context, frame, history) /\ InTest /\ WellNested(Body)
      /\ AtBody(context, frame, history, Body, TestName)
  BY <1>2, InBody
<1>4. frame.ip \in SectionsOf(Body)
  BY <1>2, Zenon DEF SectionsOf
<1>5. SectionStep(context, frame, history, Body, context', frame', history')
  BY Zenon DEF Section, SectionStep, Instr
<1>6. Shaped(context', frame', history') /\ AtBody(context', frame', history', Body, TestName)
  BY <1>3, <1>4, <1>5, SectionWalk
<1>7. pc' = "Body" \/ pc' = "Hung" \/ pc' = "Aborted"
  <2>1. Goto(sectionStarted(context, Instr).context, pc)
    BY Zenon DEF Section
  <2> QED  BY <1>2, <2>1, GotoTargets, Zenon
<1>8. suite' = suite /\ tests' = tests /\ next' = next
  BY Zenon DEF Section, BodyUnchanged
<1> QED  BY <1>3, <1>6, <1>7, <1>8, WalkKeeps

LEMMA SectionEndSections ==
    ASSUME SectionsInv, SectionEnd
    PROVE  SectionsInv'
<1>1. At("end")
  BY Zenon DEF SectionEnd
<1>2. pc = "Body" /\ frame.ip \in 1..Len(Body) /\ Body[frame.ip].op = "end"
  BY <1>1, AtInstruction
<1>3. /\ Shaped(context, frame, history) /\ InTest /\ WellNested(Body)
      /\ AtBody(context, frame, history, Body, TestName)
  BY <1>2, InBody
<1>4. EndStep(context, frame, context', frame') /\ history' = history
  BY Zenon DEF SectionEnd, EndStep
<1>5. Shaped(context', frame', history') /\ AtBody(context', frame', history', Body, TestName)
  <2>1. Shaped(context', frame', history) /\ AtBody(context', frame', history, Body, TestName)
    BY <1>2, <1>3, <1>4, EndWalk
  <2> QED  BY <1>4, <2>1, Zenon
<1>6. pc' = "Body" \/ pc' = "Hung" \/ pc' = "Aborted"
  <2>1. Goto(context', pc)
    BY Zenon DEF SectionEnd
  <2> QED  BY <1>2, <2>1, GotoTargets, Zenon
<1>7. suite' = suite /\ tests' = tests /\ next' = next
  BY Zenon DEF SectionEnd, BodyUnchanged
<1> QED  BY <1>3, <1>5, <1>6, <1>7, WalkKeeps

\* The two ways a step of the body leaves its instruction: to the next one, or by an exception.
LEMMA InstructionKeeps ==
    ASSUME SectionsInv, NEW op, At(op), op # "section", op # "end", BodyUnchanged,
           Stays(context, frame, history, context', frame', history'),
           \/ /\ pc' = "Body" \/ pc' = "Hung" \/ pc' = "Aborted"
              /\ frame'.ip = frame.ip + 1 /\ (history'.unwound <=> history.unwound)
           \/ /\ pc' = "Unwinding" \/ pc' = "Hung" \/ pc' = "Aborted"
              /\ ~ history'.unwound => ~ history.unwound /\ InLeaf
    PROVE  SectionsInv'
<1>1. pc = "Body" /\ frame.ip \in 1..Len(Body) /\ Body[frame.ip].op = op
  BY AtInstruction
<1>2. /\ Shaped(context, frame, history) /\ InTest /\ WellNested(Body)
      /\ AtBody(context, frame, history, Body, TestName)
  BY <1>1, InBody
<1>3. suite' = suite /\ tests' = tests /\ next' = next
  BY Zenon DEF BodyUnchanged
<1>4. CASE /\ pc' = "Body" \/ pc' = "Hung" \/ pc' = "Aborted"
           /\ frame'.ip = frame.ip + 1 /\ (history'.unwound <=> history.unwound)
  <2>1. Shaped(context', frame', history') /\ AtBody(context', frame', history', Body, TestName)
    BY <1>1, <1>2, <1>4, StayWalk
  <2> QED  BY <1>2, <1>3, <1>4, <2>1, WalkKeeps
<1>5. CASE /\ pc' = "Unwinding" \/ pc' = "Hung" \/ pc' = "Aborted"
           /\ ~ history'.unwound => ~ history.unwound /\ InLeaf
  <2>1. ~ history'.unwound => ~ history.unwound /\ \E l \in Leaves(Body) : l < frame.ip /\ frame.ip < Body[l].end
    BY <1>5, Zenon DEF InLeaf
  <2>2. Shaped(context', frame', history') /\ AtUnwinding(context', frame', history', Body, TestName)
    BY <1>1, <1>2, <2>1, ThrowWalk
  <2> QED  BY <1>2, <1>3, <1>5, <2>2, WalkKeeps
<1> QED  BY <1>4, <1>5

LEMMA AssertionSections ==
    ASSUME SectionsInv, Assertion
    PROVE  SectionsInv'
<1>1. At("assert") /\ BodyUnchanged
  BY Zenon DEF Assertion
<1>2. pc = "Body" /\ Shaped(context, frame, history)
  BY <1>1, Zenon DEF At, SectionsInv
<1>3. PICK outcome \in Instr.outcomes :
         LET result == Asserted(Instr.macro, Instr.disposition, outcome, ~config.noThrow)
             ended  == assertionEnded(context, result)
             throwing == handleResult(ended, result)
         IN  /\ context' = ended
             /\ frame' = [frame EXCEPT !.ip = @ + 1, !.thrown = IF throwing THEN "TestFailureException" ELSE @]
             /\ history' = [history EXCEPT !.unwound = @ \/ (throwing /\ ~InLeaf)]
             /\ Goto(ended, IF throwing THEN "Unwinding" ELSE pc)
  BY Zenon DEF Assertion
<1> DEFINE result == Asserted(Instr.macro, Instr.disposition, outcome, ~config.noThrow)
           ended  == assertionEnded(context, result)
           throwing == handleResult(ended, result)
           label  == IF throwing THEN "Unwinding" ELSE pc
<1>4. /\ context' = ended
      /\ frame' = [frame EXCEPT !.ip = @ + 1, !.thrown = IF throwing THEN "TestFailureException" ELSE @]
      /\ history' = [history EXCEPT !.unwound = @ \/ (throwing /\ ~InLeaf)]
      /\ Goto(ended, label)
  BY <1>3, Zenon
<1>5. SameSections(context, context')
  <2>1. DOMAIN context = ContextFields
    BY <1>2, Zenon DEF Shaped
  <2> HIDE DEF result
  <2> QED  BY <1>4, <2>1, AssertionSame, Zenon
<1> HIDE DEF result, ended, throwing
<1>6. pc' = label \/ pc' = "Hung" \/ pc' = "Aborted"
  BY <1>4, GotoTargets, Zenon
<1>7. DOMAIN frame' = FrameFields /\ frame'.open = frame.open /\ frame'.ip = frame.ip + 1
  BY <1>2, <1>4, Zenon DEF Shaped, FrameFields
<1>8. /\ DOMAIN history' = HistoryFields /\ history'.visits = history.visits /\ history'.cycles = history.cycles
      /\ history'.unwound = (history.unwound \/ (throwing /\ ~InLeaf))
  BY <1>2, <1>4, Zenon DEF Shaped, HistoryFields
<1>9. Stays(context, frame, history, context', frame', history')
  BY <1>5, <1>7, <1>8, Zenon DEF Stays
<1>10. CASE throwing
  <2>1. pc' = "Unwinding" \/ pc' = "Hung" \/ pc' = "Aborted"
    BY <1>6, <1>10, Zenon
  <2>2. ~ history'.unwound => ~ history.unwound /\ InLeaf
    BY <1>8, <1>10, Zenon
  <2>3. "assert" # "section" /\ "assert" # "end"
    OBVIOUS
  <2> QED  BY <1>1, <1>9, <2>1, <2>2, <2>3, InstructionKeeps
<1>11. CASE ~ throwing
  <2>1. pc' = "Body" \/ pc' = "Hung" \/ pc' = "Aborted"
    BY <1>2, <1>6, <1>11, Zenon
  <2>2. history'.unwound <=> history.unwound
    BY <1>8, <1>11, Zenon
  <2>3. "assert" # "section" /\ "assert" # "end"
    OBVIOUS
  <2> QED  BY <1>1, <1>7, <1>9, <2>1, <2>2, <2>3, InstructionKeeps
<1> QED  BY <1>10, <1>11

\* A message, a thread that is started or joined.
LEMMA SilentSections ==
    ASSUME SectionsInv, ScopedMessage \/ Spawn \/ Join
    PROVE  SectionsInv'
<1>1. PICK op : At(op) /\ op # "section" /\ op # "end"
  <2>1. At("info") \/ At("spawn") \/ At("join")
    BY Zenon DEF ScopedMessage, Spawn, Join
  <2> QED  BY <2>1
<1>2. Shaped(context, frame, history) /\ pc = "Body"
  BY <1>1, Zenon DEF SectionsInv, At
<1>3. /\ BodyUnchanged /\ pc' = pc /\ history' = history
      /\ context' = context \/ context' = [context EXCEPT !.messages = @ + 1]
      /\ \/ frame' = [frame EXCEPT !.ip = @ + 1]
         \/ frame' = [frame EXCEPT !.ip = @ + 1, !.armed = Len(frame.open)]
         \/ frame' = [frame EXCEPT !.ip = @ + 1, !.armed = -1]
  BY Zenon DEF ScopedMessage, Spawn, Join
<1>4. SameSections(context, context')
  <2>1. DOMAIN context = ContextFields
    BY <1>2, Zenon DEF Shaped
  <2> QED  BY <1>3, <2>1, Zenon DEF SameSections, ContextFields
<1>5. DOMAIN frame' = FrameFields /\ frame'.open = frame.open /\ frame'.ip = frame.ip + 1
  BY <1>2, <1>3, Zenon DEF Shaped, FrameFields
<1>6. Stays(context, frame, history, context', frame', history')
  BY <1>2, <1>3, <1>4, <1>5, Zenon DEF Stays, Shaped
<1> QED  BY <1>1, <1>2, <1>3, <1>5, <1>6, InstructionKeeps

\* A signal strikes in a pass.
LEMMA StrikeSections ==
    ASSUME SectionsInv, pc = "Body" \/ pc = "Unwinding", NEW sig, Strike(sig), BodyUnchanged,
           context' = context, frame' = frame
    PROVE  SectionsInv'
<1>1. /\ Shaped(context, frame, history) /\ ~ context.tracker.illogical /\ IsInjective(history.visits)
  BY Zenon DEF SectionsInv
<1>2. /\ InTest /\ WellNested(Body)
      /\ AtBody(context, frame, history, Body, TestName) \/ AtUnwinding(context, frame, history, Body, TestName)
  BY InBody, InUnwinding
<1>3. Closable(context.tracker, context.active)
  BY <1>2, WalkIsClosable
<1>4. /\ pc' = "Fatal" /\ history' = [history EXCEPT !.depth = OpenSections]
      /\ suite' = suite /\ tests' = tests /\ next' = next
  BY Zenon DEF Strike, BodyUnchanged
<1>5. /\ DOMAIN history' = HistoryFields /\ history'.visits = history.visits /\ history'.cycles = history.cycles
  BY <1>1, <1>4, Zenon DEF Shaped, HistoryFields
<1>6. Shaped(context', frame', history')
  BY <1>1, <1>5, Zenon DEF Shaped
<1>7. TestsAreNested'
  BY <1>2, <1>4, TestsStay
<1>8. SectionsPlaced'
  <2>1. /\ pc' # "Cycle" /\ pc' # "Body" /\ pc' # "Unwinding" /\ pc' # "Return" /\ pc' # "TestEnd"
        /\ pc' # "Selecting" /\ ~ Unstarted'
    BY <1>4 DEF Unstarted
  <2> QED  BY <1>3, <2>1, Zenon DEF SectionsPlaced
<1> QED  BY <1>1, <1>5, <1>6, <1>7, <1>8, Zenon DEF SectionsInv

LEMMA CodeSections ==
    ASSUME SectionsInv, Code
    PROVE  SectionsInv'
<1>1. At("code") /\ BodyUnchanged /\ context' = context
  BY Zenon DEF Code
<1>2. pc = "Body" /\ Shaped(context, frame, history)
  BY <1>1, Zenon DEF At, SectionsInv
<1>3. \/ frame' = [frame EXCEPT !.ip = @ + 1] /\ pc' = pc /\ history' = history
      \/ /\ frame' = [frame EXCEPT !.thrown = "other"] /\ pc' = "Unwinding"
         /\ history' = [history EXCEPT !.unwound = @ \/ ~InLeaf]
      \/ Strike(SIGSEGV) /\ frame' = frame
  BY Zenon DEF Code
<1>4. SameSections(context, context')
  BY <1>1, <1>2, Zenon DEF SameSections, Shaped
<1>5. "code" # "section" /\ "code" # "end"
  OBVIOUS
<1>6. CASE frame' = [frame EXCEPT !.ip = @ + 1] /\ pc' = pc /\ history' = history
  <2>1. DOMAIN frame' = FrameFields /\ frame'.open = frame.open /\ frame'.ip = frame.ip + 1
    BY <1>2, <1>6, Zenon DEF Shaped, FrameFields
  <2>2. Stays(context, frame, history, context', frame', history')
    BY <1>2, <1>4, <1>6, <2>1, Zenon DEF Stays, Shaped
  <2> QED  BY <1>1, <1>2, <1>5, <1>6, <2>1, <2>2, InstructionKeeps
<1>7. CASE /\ frame' = [frame EXCEPT !.thrown = "other"] /\ pc' = "Unwinding"
           /\ history' = [history EXCEPT !.unwound = @ \/ ~InLeaf]
  <2>1. DOMAIN frame' = FrameFields /\ frame'.open = frame.open
    BY <1>2, <1>7, Zenon DEF Shaped, FrameFields
  <2>2. /\ DOMAIN history' = HistoryFields /\ history'.visits = history.visits /\ history'.cycles = history.cycles
        /\ history'.unwound = (history.unwound \/ ~InLeaf)
    BY <1>2, <1>7, Zenon DEF Shaped, HistoryFields
  <2>3. Stays(context, frame, history, context', frame', history')
    BY <1>4, <2>1, <2>2, Zenon DEF Stays
  <2>4. ~ history'.unwound => ~ history.unwound /\ InLeaf
    BY <2>2, Zenon
  <2> QED  BY <1>1, <1>5, <1>7, <2>3, <2>4, InstructionKeeps
<1>8. CASE Strike(SIGSEGV) /\ frame' = frame
  BY <1>1, <1>2, <1>8, StrikeSections
<1> QED  BY <1>3, <1>6, <1>7, <1>8

LEMMA BodyEndSections ==
    ASSUME SectionsInv, BodyEnd
    PROVE  SectionsInv'
<1>1. /\ pc = "Body" /\ frame.ip > Len(Body) /\ pc' = "Return"
      /\ context' = context /\ frame' = frame /\ history' = history
      /\ suite' = suite /\ tests' = tests /\ next' = next
  BY Zenon DEF BodyEnd, BodyUnchanged
<1>2. /\ Shaped(context, frame, history) /\ InTest /\ WellNested(Body)
      /\ AtBody(context, frame, history, Body, TestName)
  BY <1>1, InBody
<1>3. AtReturn(context, frame, history, Body, TestName)
  BY <1>1, <1>2, BodyEndWalk
<1>4. Shaped(context', frame', history') /\ AtReturn(context', frame', history', Body, TestName)
  BY <1>1, <1>2, <1>3, Zenon
<1> QED  BY <1>1, <1>2, <1>4, WalkKeeps

LEMMA UnwindSections ==
    ASSUME SectionsInv, Unwind
    PROVE  SectionsInv'
<1>1. pc = "Unwinding" /\ BodyUnchanged /\ suite' = suite /\ tests' = tests /\ next' = next
  BY Zenon DEF Unwind, BodyUnchanged
<1>2. /\ Shaped(context, frame, history) /\ InTest /\ WellNested(Body)
      /\ AtUnwinding(context, frame, history, Body, TestName)
  BY <1>1, InUnwinding
<1>3. \/ Strike(SIGABRT) /\ context' = context /\ frame' = frame
      \/ /\ frame.open # << >> /\ EarlyStep(context, frame, context', frame')
         /\ pc' = pc /\ history' = history
      \/ /\ frame.open = << >> /\ pc' = "Return" /\ context' = context /\ frame' = frame /\ history' = history
  BY Zenon DEF Unwind, EarlyStep
<1>4. CASE Strike(SIGABRT) /\ context' = context /\ frame' = frame
  BY <1>1, <1>4, StrikeSections
<1>5. CASE /\ frame.open # << >> /\ EarlyStep(context, frame, context', frame')
           /\ pc' = pc /\ history' = history
  <2>1. Shaped(context', frame', history) /\ AtUnwinding(context', frame', history, Body, TestName)
    BY <1>2, <1>5, EarlyWalk
  <2>2. Shaped(context', frame', history') /\ AtUnwinding(context', frame', history', Body, TestName)
    BY <1>5, <2>1, Zenon
  <2> QED  BY <1>1, <1>2, <1>5, <2>2, WalkKeeps
<1>6. CASE frame.open = << >> /\ pc' = "Return" /\ context' = context /\ frame' = frame /\ history' = history
  <2>1. AtReturn(context, frame, history, Body, TestName)
    BY <1>2, <1>6, UnwoundWalk
  <2>2. Shaped(context', frame', history') /\ AtReturn(context', frame', history', Body, TestName)
    BY <1>2, <1>6, <2>1, Zenon
  <2> QED  BY <1>1, <1>2, <1>6, <2>2, WalkKeeps
<1> QED  BY <1>3, <1>4, <1>5, <1>6

\* What the handler of a signal does to the sections: those that were left are ended,
\* which closes what is still active, and the rest are reports.
LEMMA FatalSections ==
    ASSUME NEW c, IsClosable(c, c), IsSequence(c.unfinished), NEW d, d = handleFatalErrorCondition(c)
    PROVE  IsClosable(d, d) /\ d.unfinished = << >>
<1> DEFINE result == Result("FatalErrorCondition", {"Normal"})
           hit  == assertionEnded(c, result)
           told == handleUnfinishedSections(hit)
           e1   == [type |-> "sectionEnded", missing |-> FALSE]
           e2   == [type |-> "testCaseEnded"]
           half == Report(told, e1)
           left == Report(half, e2)
           last == [left EXCEPT !.totals.testCases.failed = @ + 1]
           e3   == [type |-> "testGroupEnded", totals |-> last.totals]
           e4   == [type |-> "testRunEnded", totals |-> last.totals]
           near == Report(last, e3)
           over == Report(near, e4)
<1>1. d = left \/ d = over
  <2>1. d = IF Stopped(left.reporters) THEN left ELSE over
    BY Zenon DEF handleFatalErrorCondition
  <2> QED  BY <2>1, Zenon
<1> HIDE DEF result, e1, e2, e3, e4
<1>2. IsClosable(hit, hit) /\ hit.unfinished = c.unfinished
  <2>1. SameSections(c, hit)
    BY AssertionSame, Zenon DEF IsClosable
  <2> HIDE DEF hit
  <2> QED  BY <2>1, Zenon DEF IsClosable, SameSections
<1> HIDE DEF hit
<1>3. IsClosable(told, told) /\ told.unfinished = << >>
  BY <1>2, UnfinishedClosable
<1> HIDE DEF told
<1>4. SameSections(told, half)
  BY <1>3, ReportSame, Zenon DEF IsClosable
<1> HIDE DEF half
<1>5. SameSections(half, left)
  BY <1>4, ReportSame, Zenon DEF SameSections
<1> HIDE DEF left
<1>6. SameSections(left, last)
  BY <1>5, Zenon DEF SameSections, ContextFields
<1> HIDE DEF last
<1>7. SameSections(last, near)
  BY <1>6, ReportSame, Zenon DEF SameSections
<1> HIDE DEF near
<1>8. SameSections(near, over)
  BY <1>7, ReportSame, Zenon DEF SameSections
<1> HIDE DEF over
<1> QED  BY <1>1, <1>3, <1>4, <1>5, <1>6, <1>7, <1>8, Zenon DEF SameSections, IsClosable

LEMMA HandleSignalSections ==
    ASSUME SectionsInv, handleSignal
    PROVE  SectionsInv'
<1> DEFINE told == handleFatalErrorCondition(context)
<1>1. /\ Shaped(context, frame, history) /\ TestsAreNested /\ IsInjective(history.visits) /\ SectionsPlaced
  BY Zenon DEF SectionsInv
<1>2. /\ pc = "Fatal" /\ suite' = suite /\ tests' = tests /\ next' = next /\ frame' = frame /\ history' = history
      /\ \/ context' = [told EXCEPT !.reporters = [i \in DOMAIN @ |-> [@[i] EXCEPT !.broken = FALSE]]] /\ pc' = pc
         \/ context' = told /\ pc' = "Exited"
  <2>1. /\ pc = "Fatal" /\ suite' = suite /\ tests' = tests /\ next' = next /\ frame' = frame /\ history' = history
    BY Zenon DEF handleSignal
  <2>2. CASE Stopped(told.reporters)
    BY <2>1, <2>2, Zenon DEF handleSignal
  <2>3. CASE ~ Stopped(told.reporters)
    BY <2>1, <2>3, Zenon DEF handleSignal, Exit
  <2> QED  BY <2>2, <2>3
<1>3. IsClosable(context, context) /\ IsSequence(context.unfinished)
  BY <1>1, <1>2, Zenon DEF IsClosable, Shaped, SectionsPlaced
<1>4. IsClosable(told, told) /\ told.unfinished = << >>
  BY <1>3, FatalSections
<1> HIDE DEF told
<1>5. IsClosable(context', context') /\ context'.unfinished = << >>
  BY <1>2, <1>4, Zenon DEF IsClosable, ContextFields
<1>6. Shaped(context', frame', history')
  <2>1. IsSequence(<< >>)
    BY DEF IsSequence
  <2> QED  BY <1>1, <1>2, <1>5, <2>1, Zenon DEF Shaped, IsClosable
<1>7. ~ InTest'
  BY <1>2 DEF InTest
<1>8. TestsAreNested'
  BY <1>1, <1>2, <1>7, Zenon DEF TestsAreNested
<1>9. ~ context'.tracker.illogical /\ Closable(context'.tracker, context'.active)
  BY <1>5, Zenon DEF IsClosable, Closable
<1>10. SectionsPlaced'
  <2>1. /\ pc' # "Cycle" /\ pc' # "Body" /\ pc' # "Unwinding" /\ pc' # "Return" /\ pc' # "TestEnd"
        /\ pc' # "Selecting" /\ ~ Unstarted'
    BY <1>2 DEF Unstarted
  <2> QED  BY <1>9, <2>1, Zenon DEF SectionsPlaced
<1> QED  BY <1>1, <1>2, <1>6, <1>8, <1>9, <1>10, Zenon DEF SectionsInv

-----------------------------------------------------------------------------
(***************************************************************************)
(* The theorem.                                                            *)
(***************************************************************************)
LEMMA SectionsInitially == RunInit => SectionsInv
<1> SUFFICES ASSUME RunInit PROVE SectionsInv
  OBVIOUS
<1>1. PICK r \in Runs : Init({r.suite}, {Written(r.request)})
  BY Zenon DEF RunInit
<1>2. /\ suite = r.suite /\ pc = "Registering" /\ tests = << >> /\ next = 1 /\ context = RunContext(<< >>)
      /\ frame = NoFrame
      /\ history = [visits |-> << >>, cycles |-> 0, unwound |-> FALSE, before |-> 0, bad |-> FALSE, depth |-> 0]
  BY <1>1, Zenon DEF Init
<1>3. DOMAIN context = ContextFields /\ NoSections(context) /\ ~ context.tracker.illogical
  BY <1>2, FreshSections, Zenon
<1>4. DOMAIN frame = FrameFields
  BY <1>2, Zenon DEF NoFrame, FrameFields
<1>5. DOMAIN history = HistoryFields /\ history.visits = << >> /\ history.cycles = 0
  BY <1>2, Zenon DEF HistoryFields
<1>6. Shaped(context, frame, history)
  <2>1. IsSequence(<< >>) /\ 0 \in Nat
    BY DEF IsSequence
  <2> QED  BY <1>3, <1>4, <1>5, <2>1, Zenon DEF Shaped, NoSections
<1>7. IsInjective(history.visits)
  BY <1>5 DEF IsInjective
<1>8. TestsAreNested
  <2>1. Declared(suite.tests)
    BY <1>2, BodiesAssumption, Zenon DEF Declared
  <2>2. AreTests(<< >>)
    BY DEF AreTests, IsSequence
  <2>3. 1 \in Nat \ {0} /\ ~ InTest
    BY <1>2 DEF InTest
  <2> QED  BY <1>2, <2>1, <2>2, <2>3, Zenon DEF TestsAreNested
<1>9. SectionsPlaced
  <2>1. /\ pc # "Cycle" /\ pc # "Body" /\ pc # "Unwinding" /\ pc # "Return" /\ pc # "TestEnd" /\ pc # "Fatal"
    BY <1>2
  <2> QED  BY <1>3, <2>1, Zenon DEF SectionsPlaced
<1> QED  BY <1>3, <1>6, <1>7, <1>8, <1>9, Zenon DEF SectionsInv

LEMMA SectionsNext ==
    ASSUME SectionsInv, [RunNext]_<<vars, request>>
    PROVE  SectionsInv'
<1>1. CASE Prepare
  BY <1>1, PrepareSections
<1>2. CASE Execute
  BY <1>2, RunTestsSections, RunTestSections, SkipSections, StartPassSections, EndPassSections,
     EndTestSections, SectionSections, SectionEndSections, AssertionSections, SilentSections, CodeSections,
     BodyEndSections, UnwindSections, HandleSignalSections, Zenon DEF Execute
<1>3. CASE UNCHANGED vars
  <2>1. /\ suite' = suite /\ pc' = pc /\ config' = config /\ tests' = tests /\ next' = next
        /\ context' = context /\ frame' = frame /\ history' = history
    BY <1>3, Zenon DEF vars
  <2>2. InTest' => InTest
    BY <2>1, Zenon DEF InTest
  <2>3. TestsAreNested' /\ Body' = Body /\ TestName' = TestName
    BY <2>1, <2>2, TestsStay
  <2>4. SectionsPlaced'
    <3>1. aborting(context)' <=> aborting(context)
      BY <2>1, Zenon DEF aborting
    <3>2. Unstarted' <=> Unstarted
      BY <2>1, Zenon DEF Unstarted
    <3>3. SectionsPlaced
      BY Zenon DEF SectionsInv
    <3> QED  BY <2>1, <2>3, <3>1, <3>2, <3>3, Zenon DEF SectionsPlaced
  <2> QED  BY <2>1, <2>3, <2>4, Zenon DEF SectionsInv
<1> QED  BY <1>1, <1>2, <1>3, Zenon DEF RunNext, Next

\* Whatever the test cases are, throw and fail, no innermost section is entered twice and
\* the tracker never meets a state it cannot have; the passes over a test case are at most
\* one more than its sections; and when it is over, every innermost section has been
\* entered, unless an exception was thrown outside of them or the limit was reached.
THEOREM SectionsAreRunOnce == RunSpec => []SectionsRunOnce
<1>1. RunInit => SectionsInv
  BY SectionsInitially
<1>2. SectionsInv /\ [RunNext]_<<vars, request>> => SectionsInv'
  BY SectionsNext
<1>3. SectionsInv => SectionsRunOnce
  BY SectionsInvImplies
<1> QED  BY <1>1, <1>2, <1>3, PTL DEF RunSpec

=============================================================================
