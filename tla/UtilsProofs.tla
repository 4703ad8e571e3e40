----------------------------- MODULE UtilsProofs ----------------------------
(***************************************************************************)
(* The conversions of utils.cpp, for every text that serves as a client    *)
(* key, every configuration file, every int and every width.               *)
(***************************************************************************)
EXTENDS UtilsCorrectness, ParsingProofs

\* The machine holds a text and a file.
UtilsTypeOK == text \in Seq(Tokens) /\ xml \in Seq(Elements)

\* It goes on holding a text and a file.
LEMMA UtilsTypes == Spec => []UtilsTypeOK
<1>1. Init => UtilsTypeOK
  BY EmptySeq DEF Init, UtilsTypeOK
<1>2. UtilsTypeOK /\ [Next]_vars => UtilsTypeOK'
  <2> SUFFICES ASSUME UtilsTypeOK, [Next]_vars PROVE UtilsTypeOK'
    OBVIOUS
  <2>1. CASE GrowText
    BY <2>1, AppendProperties DEF GrowText, UtilsTypeOK
  <2>2. CASE GrowFile
    BY <2>2, AppendProperties DEF GrowFile, UtilsTypeOK
  <2>3. CASE UNCHANGED vars
    BY <2>3 DEF vars, UtilsTypeOK
  <2> QED  BY <2>1, <2>2, <2>3 DEF Next
<1> QED  BY <1>1, <1>2, PTL DEF Spec

\* The ints that survive the conversion are those that Fits names.
LEMMA FittingInt ==
    ASSUME NEW n \in (-(IntMax + 1))..IntMax
    PROVE  (Fits(n) <=> n >= 0) /\ (to_size(n) <= IntMax <=> Fits(n))
<1>1. n \in Int /\ n <= IntMax /\ IntMax \in Int
  BY WidthAssumption
<1> QED  BY <1>1, SizeOfInt DEF Fits

\* The numbers of a line, and the 1 that stands for the cpu, are ints.
LEMMA NumbersAreInts ==
    /\ Numbers \subseteq (-(IntMax + 1))..IntMax
    /\ 1 \in (-(IntMax + 1))..IntMax
BY WidthAssumption, UtilsAssumption

\* Whatever the key and whatever the numbers, what the table accepts of a line is
\* what was reported.
THEOREM WireKeepsRows == Spec => []RowsSurviveTheWire
<1>1. UtilsTypeOK => RowsSurviveTheWire
  <2> SUFFICES ASSUME UtilsTypeOK, NEW m \in Numbers, NEW p \in Numbers
               PROVE
        LET line == generate_random_sys_info_data(text, m, 1, p, "noon")
            row  == generate_insert_str_for(parse_to_client_detail(line, NoJunk))
        IN  /\ ~ IsShort(line)
            /\ Contains(text, Bar) <=> row.CLIENT_KEY # text
            /\ ~ Contains(text, Bar) =>
                  /\ FitsColumns(row) <=> Fits(m) /\ Fits(p)
                  /\ FitsColumns(row) =>
                        row = [CLIENT_KEY |-> text, MEMORY_PCT |-> m, CPU_PCT |-> 1,
                               NO_PROCESSES |-> p, DT_TIME |-> <<Word("noon")>>]
    BY Zenon DEF RowsSurviveTheWire
  <2> DEFINE line == generate_random_sys_info_data(text, m, 1, p, "noon")
             d    == parse_to_client_detail(line, NoJunk)
             row  == generate_insert_str_for(d)
  <2>1. text \in Seq(Tokens)
    BY DEF UtilsTypeOK
  <2>2. ~ IsShort(line)
    BY <2>1, LineIsNotShort
  <2>3. /\ m \in (-(IntMax + 1))..IntMax /\ p \in (-(IntMax + 1))..IntMax
        /\ 1 \in (-(IntMax + 1))..IntMax
    BY NumbersAreInts
  <2>4. m \in Int /\ p \in Int /\ 1 \in Int
    BY <2>3, SizeOfInt, FittingInt
  <2>5. row.CLIENT_KEY = d.client_key
    <3> HIDE DEF d
    <3> QED  BY DEF generate_insert_str_for
  <2>6. CASE Contains(text, Bar)
    <3>1. d.client_key # text
      BY <2>1, <2>6, BrokenKeyIsNotSeen
    <3> HIDE DEF d, row, line
    <3>2. row.CLIENT_KEY # text
      BY <2>5, <3>1
    <3> QED  BY <2>2, <2>6, <3>2 DEF d, row, line
  <2>7. CASE ~ Contains(text, Bar)
    <3>1. d = [ client_key         |-> text,
                curr_memory_pct    |-> to_size(m),
                curr_cpu_pct       |-> to_size(1),
                curr_processes_cnt |-> to_size(p),
                str_dt_time        |-> <<Word("noon")>> ]
      BY <2>1, <2>4, <2>7, LineIsParsed
    <3> HIDE DEF d
    <3>2. row = [ CLIENT_KEY |-> text, MEMORY_PCT |-> to_size(m), CPU_PCT |-> to_size(1),
                  NO_PROCESSES |-> to_size(p), DT_TIME |-> <<Word("noon")>> ]
      BY <3>1 DEF generate_insert_str_for
    <3> HIDE DEF row
    <3>3. FitsColumns(row) <=> /\ to_size(m) <= IntMax /\ to_size(1) <= IntMax
                               /\ to_size(p) <= IntMax
      BY <3>2 DEF FitsColumns
    <3>4. to_size(1) = 1 /\ to_size(1) <= IntMax
      BY <2>3, SizeOfInt, FittingInt, UtilsAssumption
    <3>5. FitsColumns(row) <=> Fits(m) /\ Fits(p)
      BY <2>3, <3>3, <3>4, SizeOfInt, FittingInt
    <3>6. FitsColumns(row) => to_size(m) = m /\ to_size(p) = p
      BY <2>3, <3>5, SizeOfInt, FittingInt
    <3>7. FitsColumns(row) =>
             row = [CLIENT_KEY |-> text, MEMORY_PCT |-> m, CPU_PCT |-> 1,
                    NO_PROCESSES |-> p, DT_TIME |-> <<Word("noon")>>]
      BY <3>2, <3>4, <3>6
    <3>8. row.CLIENT_KEY = text
      BY <3>2
    <3> HIDE DEF line
    <3> QED  BY <2>2, <2>7, <3>5, <3>7, <3>8 DEF d, row, line
  <2> QED  BY <2>6, <2>7
<1> QED  BY <1>1, UtilsTypes, PTL

-----------------------------------------------------------------------------
(* The configuration.                                                      *)

\* A set of positions that is not empty has a last one.
LEMMA LastPosition ==
    ASSUME NEW n \in Nat, NEW S \in SUBSET (1..n), S # {}
    PROVE  Max(S) \in S /\ \A i \in S : i <= Max(S)
<1> DEFINE back == {n - i : i \in S}
           less == OpToRel(<, Nat)
<1>1. back # {} /\ back \subseteq Nat
  <2>1. \A i \in S : i \in 1..n
    OBVIOUS
  <2>2. \A i \in S : n - i \in Nat
    BY <2>1
  <2> QED  BY <2>2
<1>2. IsWellFoundedOn(less, Nat)
  BY NatLessThanWellFounded
<1>3. \A x, y \in Nat : <<y, x>> \in less <=> y < x
  BY DEF OpToRel
<1> HIDE DEF less
<1>4. PICK x \in back : \A y \in back : ~ (<<y, x>> \in less)
  <2> HIDE DEF back
  <2> QED  BY <1>1, <1>2, WFMin
<1>5. \A y \in back : ~ (y < x)
  <2> HIDE DEF back
  <2> QED  BY <1>1, <1>3, <1>4, Zenon
<1>6. PICK last \in S : x = n - last
  OBVIOUS
<1>7. \A i \in S : n - i \in back /\ i \in Int
  OBVIOUS
<1>8. \A i \in S : last >= i
  <2> HIDE DEF back
  <2> QED  BY <1>5, <1>6, <1>7
<1> QED  BY <1>7, <1>8 DEF Max

\* The limits that the map holds for a key are those of a client element with
\* that key, and no later element has the key.
LEMMA LimitsComeFromElement ==
    ASSUME NEW file \in Seq(Elements),
           NEW key \in DOMAIN get_authorized_clients_and_details(file)
    PROVE  \E i \in DOMAIN file :
              /\ file[i].name = "client" /\ file[i].key = key /\ file[i] \in Elements
              /\ get_authorized_clients_and_details(file)[key] = file[i].limits
              /\ \A j \in DOMAIN file :
                    file[j].name = "client" /\ file[j].key = key => j <= i
<1> DEFINE clients == {i \in DOMAIN file : file[i].name = "client"}
           same    == {i \in clients : file[i].key = key}
           keys    == {file[i].key : i \in clients}
<1>1. get_authorized_clients_and_details(file)
        = [k \in keys |-> file[Max({i \in clients : file[i].key = k})].limits]
  BY DEF get_authorized_clients_and_details
<1>2. key \in keys
  BY <1>1
<1>3. get_authorized_clients_and_details(file)[key] = file[Max(same)].limits
  <2> HIDE DEF keys, clients
  <2> QED  BY <1>1, <1>2
<1>4. Len(file) \in Nat /\ DOMAIN file = 1..Len(file)
  BY LenProperties
<1>5. same # {} /\ same \in SUBSET (1..Len(file))
  BY <1>2, <1>4
<1>6. Max(same) \in same /\ \A i \in same : i <= Max(same)
  <2> HIDE DEF same
  <2> QED  BY <1>4, <1>5, LastPosition
<1>7. Max(same) \in DOMAIN file /\ file[Max(same)].name = "client" /\ file[Max(same)].key = key
  BY <1>6
<1>8. file[Max(same)] \in Elements
  BY <1>4, <1>7, ElementOfSeq
<1>9. \A j \in DOMAIN file : file[j].name = "client" /\ file[j].key = key => j <= Max(same)
  BY <1>6
<1> HIDE DEF same
<1> QED  BY <1>3, <1>7, <1>8, <1>9

\* A converted number is above a limit exactly when the reported one is above it
\* or below zero.
LEMMA AboveLimit ==
    ASSUME NEW n \in (-(IntMax + 1))..IntMax, NEW limit \in 0..(SizeMod - IntMax - 2)
    PROVE  to_size(n) > limit <=> n < 0 \/ n > limit
<1>1. IntMax \in Nat /\ SizeMod \in Nat /\ limit \in Int /\ n \in Int /\ to_size(n) \in Int
  BY WidthAssumption, SizeOfInt, FittingInt
<1>2. CASE n < 0
  <2>1. to_size(n) >= SizeMod - IntMax - 1
    BY <1>2, SizeOfInt, FittingInt
  <2> QED  BY <1>1, <1>2, <2>1
<1>3. CASE n >= 0
  <2>1. to_size(n) = n
    BY <1>3, SizeOfInt, FittingInt
  <2> QED  BY <1>1, <1>3, <2>1
<1> QED  BY <1>1, <1>2, <1>3

\* Whatever the file and the numbers, an email is due exactly when a number is
\* above the limit in the file, or below zero.
THEOREM EmailIsExact == Spec => []EmailIffLimitCrossed
<1>1. UtilsTypeOK => EmailIffLimitCrossed
  <2> DEFINE clients == get_authorized_clients_and_details(xml)
             line(key, m, p) == generate_random_sys_info_data(key, m, 1, p, "noon")
             above(n, limit) == n < 0 \/ n > limit
  <2>1. ASSUME UtilsTypeOK, NEW key \in DOMAIN clients, NEW m \in Numbers, NEW p \in Numbers
        PROVE  should_send_email(clients, key, parse_to_client_detail(line(key, m, p), NoJunk))
                 <=> \/ above(m, clients[key].memory_limit)
                     \/ above(1, clients[key].cpu_limit)
                     \/ above(p, clients[key].processes_limit)
    <3>1. xml \in Seq(Elements)
      BY <2>1 DEF UtilsTypeOK
    <3>2. PICK i \in DOMAIN xml :
             /\ xml[i].name = "client" /\ xml[i].key = key /\ xml[i] \in Elements
             /\ clients[key] = xml[i].limits
      BY <2>1, <3>1, LimitsComeFromElement
    <3> HIDE DEF clients
    <3>3. /\ key \in Seq(Range(key)) /\ ~ Contains(key, Bar)
          /\ clients[key].memory_limit \in 0..(SizeMod - IntMax - 2)
          /\ clients[key].cpu_limit \in 0..(SizeMod - IntMax - 2)
          /\ clients[key].processes_limit \in 0..(SizeMod - IntMax - 2)
      BY <3>2, UtilsAssumption
    <3>4. /\ m \in (-(IntMax + 1))..IntMax /\ p \in (-(IntMax + 1))..IntMax
          /\ 1 \in (-(IntMax + 1))..IntMax
      BY <2>1, NumbersAreInts
    <3>5. m \in Int /\ p \in Int /\ 1 \in Int
      BY <3>4, SizeOfInt, FittingInt
    <3> DEFINE d == parse_to_client_detail(line(key, m, p), NoJunk)
    <3>6. d = [ client_key         |-> key,
                curr_memory_pct    |-> to_size(m),
                curr_cpu_pct       |-> to_size(1),
                curr_processes_cnt |-> to_size(p),
                str_dt_time        |-> <<Word("noon")>> ]
      BY <3>3, <3>5, LineIsParsed
    <3>7. Subscripted(clients, key)[key] = clients[key]
      BY <2>1 DEF Subscripted
    <3> HIDE DEF d
    <3>8. should_send_email(clients, key, d)
            <=> \/ to_size(m) > clients[key].memory_limit
                \/ to_size(1) > clients[key].cpu_limit
                \/ to_size(p) > clients[key].processes_limit
      BY <3>6, <3>7 DEF should_send_email
    <3>9. /\ to_size(m) > clients[key].memory_limit <=> above(m, clients[key].memory_limit)
          /\ to_size(1) > clients[key].cpu_limit <=> above(1, clients[key].cpu_limit)
          /\ to_size(p) > clients[key].processes_limit
               <=> above(p, clients[key].processes_limit)
      BY <3>3, <3>4, AboveLimit
    <3> HIDE DEF above
    <3> QED  BY <3>8, <3>9 DEF d
  <2> QED  BY <2>1, Zenon DEF EmailIffLimitCrossed
<1> QED  BY <1>1, UtilsTypes, PTL

-----------------------------------------------------------------------------
(* The loop over the elements of the file.  FoldLeft is a function of the  *)
(* sets of positions; it is found by giving a function that satisfies its  *)
(* equation, and it is the only one since a smallest set on which another  *)
(* one differed would have a smaller one.                                  *)

\* The map that the elements at the positions s leave.
MapOf(file, s) ==
    LET clients == {i \in s : file[i].name = "client"}
    IN  [k \in {file[i].key : i \in clients} |->
            file[Max({i \in clients : file[i].key = k})].limits]

\* The equation of FoldLeft.
Assigns(file, f) ==
    f = [s \in SUBSET (DOMAIN file) |->
            IF s = {} THEN << >> ELSE Assigned(f[s \ {Max(s)}], file[Max(s)])]

\* The last of some positions adds the assignment of its element.
LEMMA MapOfStep ==
    ASSUME NEW file \in Seq(Elements), NEW s \in SUBSET (DOMAIN file), s # {}
    PROVE  MapOf(file, s) = Assigned(MapOf(file, s \ {Max(s)}), file[Max(s)])
<1> DEFINE x == Max(s)
           e == file[x]
           clients(u) == {i \in u : file[i].name = "client"}
           same(u, k) == {i \in clients(u) : file[i].key = k}
           keys(u) == {file[i].key : i \in clients(u)}
<1>1. Len(file) \in Nat /\ DOMAIN file = 1..Len(file)
  BY LenProperties
<1>2. x \in s /\ \A i \in s : i <= x
  BY <1>1, LastPosition
<1>3. \A u : MapOf(file, u) = [k \in keys(u) |-> file[Max(same(u, k))].limits]
  BY DEF MapOf
<1> HIDE DEF x
<1>4. CASE e.name # "client"
  <2>1. clients(s \ {x}) = clients(s)
    BY <1>4
  <2>2. MapOf(file, s \ {x}) = MapOf(file, s)
    <3> HIDE DEF clients
    <3> QED  BY <1>3, <2>1
  <2> QED  BY <1>4, <2>2 DEF Assigned, x
<1>5. CASE e.name = "client"
  <2>1. keys(s) = keys(s \ {x}) \cup {e.key}
    BY <1>2, <1>5
  <2>2. ASSUME NEW k \in keys(s), k # e.key
        PROVE  same(s, k) = same(s \ {x}, k)
    BY <2>2
  <2>3. Max(same(s, e.key)) = x
    <3>1. x \in same(s, e.key) /\ \A i \in same(s, e.key) : x >= i /\ i \in Int
      BY <1>1, <1>2, <1>5
    <3> HIDE DEF same
    <3> QED  BY <3>1 DEF Max
  <2>4. DOMAIN MapOf(file, s \ {x}) = keys(s \ {x})
    BY <1>3
  <2>5. \A k \in keys(s \ {x}) :
           MapOf(file, s \ {x})[k] = file[Max(same(s \ {x}, k))].limits
    <3> HIDE DEF keys, same
    <3> QED  BY <1>3
  <2>6. \A k \in keys(s) :
           file[Max(same(s, k))].limits
             = IF k = e.key THEN e.limits ELSE MapOf(file, s \ {x})[k]
    <3> HIDE DEF keys, same
    <3> QED  BY <2>1, <2>2, <2>3, <2>5
  <2>7. Assigned(MapOf(file, s \ {x}), e)
          = [k \in keys(s) |-> IF k = e.key THEN e.limits ELSE MapOf(file, s \ {x})[k]]
    <3> HIDE DEF keys, e
    <3> QED  BY <1>5, <2>1, <2>4 DEF Assigned
  <2> DEFINE limits(k) == file[Max(same(s, k))].limits
             assigned(k) == IF k = e.key THEN e.limits ELSE MapOf(file, s \ {x})[k]
             all == keys(s)
  <2>8. MapOf(file, s) = [k \in all |-> limits(k)]
    <3> HIDE DEF keys, same
    <3> QED  BY <1>3
  <2>9. Assigned(MapOf(file, s \ {x}), e) = [k \in all |-> assigned(k)]
    BY <2>7
  <2>10. \A k \in all : limits(k) = assigned(k)
    BY <2>6
  <2>11. [k \in all |-> limits(k)] = [k \in all |-> assigned(k)]
    <3> HIDE DEF all, limits, assigned
    <3> QED  BY <2>10
  <2> QED  BY <2>8, <2>9, <2>11, Zenon DEF x
<1> QED  BY <1>4, <1>5

\* MapOf satisfies the equation, so FoldLeft's function does.
LEMMA FoldIsAssigning ==
    ASSUME NEW file \in Seq(Elements)
    PROVE  /\ Assigns(file, CHOOSE f : Assigns(file, f))
           /\ FoldLeft(Assigned, << >>, file) = (CHOOSE f : Assigns(file, f))[DOMAIN file]
<1> DEFINE g == [s \in SUBSET (DOMAIN file) |-> MapOf(file, s)]
<1>1. MapOf(file, {}) = << >>
  BY DEF MapOf
<1>2. ASSUME NEW s \in SUBSET (DOMAIN file)
      PROVE  g[s] = IF s = {} THEN << >> ELSE Assigned(g[s \ {Max(s)}], file[Max(s)])
  <2>1. CASE s = {}
    BY <1>1, <2>1
  <2>2. CASE s # {}
    <3>1. s \ {Max(s)} \in SUBSET (DOMAIN file)
      OBVIOUS
    <3>2. g[s] = MapOf(file, s) /\ g[s \ {Max(s)}] = MapOf(file, s \ {Max(s)})
      BY <3>1
    <3> QED  BY <2>2, <3>2, MapOfStep, Zenon
  <2> QED  BY <2>1, <2>2
<1>3. Assigns(file, g)
  <2> DEFINE h == [s \in SUBSET (DOMAIN file) |->
                     IF s = {} THEN << >> ELSE Assigned(g[s \ {Max(s)}], file[Max(s)])]
  <2>1. \A s \in SUBSET (DOMAIN file) : g[s] = h[s]
    BY <1>2, Zenon
  <2>2. g = [s \in DOMAIN g |-> g[s]] /\ DOMAIN g = SUBSET (DOMAIN file)
    OBVIOUS
  <2>3. h = [s \in DOMAIN h |-> h[s]] /\ DOMAIN h = SUBSET (DOMAIN file)
    OBVIOUS
  <2>4. g = h
    <3> HIDE DEF g, h
    <3> QED  BY <2>1, <2>2, <2>3
  <2> QED  BY <2>4, Zenon DEF Assigns
<1>4. Assigns(file, CHOOSE f : Assigns(file, f))
  <2> HIDE DEF g
  <2> QED  BY <1>3, Zenon
<1>5. FoldLeft(Assigned, << >>, file) = (CHOOSE f : Assigns(file, f))[DOMAIN file]
  BY DEF FoldLeft, MapThenFoldSet, Assigns
<1> QED  BY <1>4, <1>5

\* Reading a file and assigning its elements one by one agree after every
\* element: the first one after which they did not would follow one after
\* which they did.
LEMMA AssigningIsMapOf ==
    ASSUME NEW file \in Seq(Elements), NEW f, Assigns(file, f)
    PROVE  f[DOMAIN file] = MapOf(file, DOMAIN file)
<1> DEFINE l == Len(file)
           differ == {n \in 0..l : f[1..n] # MapOf(file, 1..n)}
           less == OpToRel(<, Nat)
<1>1. l \in Nat /\ DOMAIN file = 1..l
  BY LenProperties
<1>2. MapOf(file, {}) = << >>
  BY DEF MapOf
<1>3. \A s \in SUBSET (DOMAIN file) :
         f[s] = IF s = {} THEN << >> ELSE Assigned(f[s \ {Max(s)}], file[Max(s)])
  <2> DEFINE h(s) == IF s = {} THEN << >> ELSE Assigned(f[s \ {Max(s)}], file[Max(s)])
  <2>1. f = [s \in SUBSET (DOMAIN file) |-> h(s)]
    BY Zenon DEF Assigns
  <2>2. \A s \in SUBSET (DOMAIN file) : f[s] = h(s)
    <3> HIDE DEF h
    <3> QED  BY <2>1
  <2> QED  BY <2>2
<1>4. ASSUME NEW n \in 1..l, n - 1 \notin differ
      PROVE  n \notin differ
  <2>1. n \in Nat /\ 1 <= n /\ n <= l /\ n - 1 \in 0..l
    BY <1>1
  <2>2. 1..n # {} /\ 1..n \in SUBSET (DOMAIN file)
    BY <1>1, <2>1
  <2>3. Max(1..n) = n
    <3>1. n \in 1..n /\ \A i \in 1..n : n >= i /\ i \in Int
      BY <2>1
    <3> DEFINE S == 1..n
    <3> HIDE DEF S
    <3>2. \A y \in S : (\A i \in S : y >= i) => y = n
      BY <2>1, <3>1 DEF S
    <3> QED  BY <3>1, <3>2 DEF Max, S
  <2>4. (1..n) \ {n} = 1..(n - 1)
    BY <2>1
  <2>5. f[1..(n - 1)] = MapOf(file, 1..(n - 1))
    BY <1>4, <2>1
  <2>6. f[1..n] = Assigned(f[1..(n - 1)], file[n])
    BY <1>3, <2>2, <2>3, <2>4, Zenon
  <2>7. MapOf(file, 1..n) = Assigned(MapOf(file, 1..(n - 1)), file[n])
    BY <2>2, <2>3, <2>4, MapOfStep, Zenon
  <2> QED  BY <2>5, <2>6, <2>7, Zenon
<1>5. 0 \notin differ
  <2>1. 1..0 = {}
    OBVIOUS
  <2>2. f[{}] = << >>
    BY <1>3
  <2> QED  BY <1>2, <2>1, <2>2, Zenon
<1>6. IsWellFoundedOn(less, Nat)
  BY NatLessThanWellFounded
<1>7. \A x, y \in Nat : <<y, x>> \in less <=> y < x
  BY DEF OpToRel
<1>8. differ \subseteq 0..l /\ differ \subseteq Nat
  BY <1>1
<1> HIDE DEF differ, less
<1>9. differ = {}
  <2> SUFFICES ASSUME differ # {} PROVE FALSE
    OBVIOUS
  <2>1. PICK n \in differ : \A y \in differ : ~ (<<y, n>> \in less)
    BY <1>6, <1>8, WFMin
  <2>2. \A y \in differ : ~ (y < n)
    BY <1>7, <1>8, <2>1, Zenon
  <2>3. n \in 0..l /\ n # 0
    BY <1>5, <1>8
  <2>4. n \in 1..l /\ n - 1 < n
    BY <1>1, <2>3
  <2>5. n - 1 \in differ
    BY <1>4, <2>4
  <2> QED  BY <2>2, <2>4, <2>5
<1>10. l \in 0..l /\ l \notin differ
  BY <1>1, <1>9
<1> QED  BY <1>1, <1>10, Zenon DEF differ

\* get_authorized_clients_and_details returns, for every file, what its
\* elements leave when they are assigned one after the other.
THEOREM LastElementCounts == Spec => []ConfigIsLastAssignment
<1>1. UtilsTypeOK => ConfigIsLastAssignment
  <2> SUFFICES ASSUME UtilsTypeOK PROVE ConfigIsLastAssignment
    OBVIOUS
  <2>1. xml \in Seq(Elements)
    BY DEF UtilsTypeOK
  <2>2. get_authorized_clients_and_details(xml) = MapOf(xml, DOMAIN xml)
    BY DEF get_authorized_clients_and_details, MapOf
  <2> QED  BY <2>1, <2>2, FoldIsAssigning, AssigningIsMapOf, Zenon DEF ConfigIsLastAssignment
<1> QED  BY <1>1, UtilsTypes, PTL

-----------------------------------------------------------------------------
(* Joining the fields of a text.  The function behind FoldLeft exists for  *)
(* every number of fields: the smallest number for which it did not would  *)
(* follow one for which it does.                                           *)

\* The equation of FoldLeft over the fields at 1..n.
Joins(base, fields, n, f) ==
    f = [s \in SUBSET (1..n) |->
            IF s = {} THEN base ELSE Joined(f[s \ {Max(s)}], fields[Max(s)])]

\* A set of numbers up to n that holds n has n as its largest.
LEMMA LargestOf ==
    ASSUME NEW n \in Nat, NEW s \in SUBSET (1..n), n \in s
    PROVE  Max(s) = n /\ s \ {n} \in SUBSET (1..(n - 1))
<1>1. \A i \in s : n >= i /\ i \in Int
  OBVIOUS
<1>2. \A y \in s : (\A i \in s : y >= i) => y = n
  BY <1>1
<1>3. Max(s) = n
  BY <1>1, <1>2 DEF Max
<1>4. \A i \in s : i # n => i \in 1..(n - 1)
  OBVIOUS
<1> QED  BY <1>3, <1>4

\* A function for one field less gives one for the fields.
LEMMA JoinsStep ==
    ASSUME NEW base, NEW fields, NEW n \in Nat \ {0}, NEW f, Joins(base, fields, n - 1, f)
    PROVE  \E g : Joins(base, fields, n, g)
<1> DEFINE g == [s \in SUBSET (1..n) |->
                   IF n \in s THEN Joined(f[s \ {n}], fields[n]) ELSE f[s]]
           value(h, s) == IF s = {} THEN base ELSE Joined(h[s \ {Max(s)}], fields[Max(s)])
           new == [s \in SUBSET (1..n) |-> value(g, s)]
<1>1. n \in Nat /\ n - 1 \in Nat
  OBVIOUS
<1>2. \A s \in SUBSET (1..(n - 1)) : f[s] = value(f, s)
  <2>1. f = [s \in SUBSET (1..(n - 1)) |-> value(f, s)]
    BY Zenon DEF Joins
  <2> HIDE DEF value
  <2> QED  BY <2>1
<1>3. \A s \in SUBSET (1..(n - 1)) : s \in SUBSET (1..n) /\ n \notin s
  BY <1>1
<1>4. \A s \in SUBSET (1..(n - 1)) : g[s] = f[s]
  BY <1>3
<1>5. ASSUME NEW s \in SUBSET (1..n)
      PROVE  g[s] = value(g, s)
  <2>1. CASE n \in s
    <3>1. Max(s) = n /\ s \ {n} \in SUBSET (1..(n - 1)) /\ s # {}
      BY <1>1, <2>1, LargestOf
    <3>2. g[s] = Joined(f[s \ {n}], fields[n])
      BY <2>1
    <3>3. g[s \ {n}] = f[s \ {n}]
      BY <1>4, <3>1
    <3> HIDE DEF g
    <3> QED  BY <3>1, <3>2, <3>3, Zenon
  <2>2. CASE n \notin s
    <3>1. s \in SUBSET (1..(n - 1))
      <4>1. \A i \in s : i \in 1..n /\ i # n
        BY <2>2
      <4>2. \A i \in s : i \in 1..(n - 1)
        BY <1>1, <4>1
      <4> QED  BY <4>2
    <3>2. s \ {Max(s)} \in SUBSET (1..(n - 1))
      BY <3>1
    <3>3. g[s] = f[s] /\ g[s \ {Max(s)}] = f[s \ {Max(s)}]
      BY <1>4, <3>1, <3>2
    <3>4. f[s] = value(f, s)
      BY <1>2, <3>1
    <3> HIDE DEF g
    <3> QED  BY <3>3, <3>4, Zenon
  <2> QED  BY <2>1, <2>2
<1>6. g = [s \in DOMAIN g |-> g[s]] /\ DOMAIN g = SUBSET (1..n)
  OBVIOUS
<1>7. new = [s \in DOMAIN new |-> new[s]] /\ DOMAIN new = SUBSET (1..n)
  OBVIOUS
<1>8. \A s \in SUBSET (1..n) : new[s] = value(g, s)
  <2> HIDE DEF value
  <2> QED  OBVIOUS
<1>9. g = new
  <2> HIDE DEF g, new, value
  <2> QED  BY <1>5, <1>6, <1>7, <1>8
<1>10. Joins(base, fields, n, g)
  BY <1>9, Zenon DEF Joins
<1> HIDE DEF g
<1> QED  BY <1>10, Zenon

\* The function behind FoldLeft exists for every number of fields.
LEMMA JoinsExists ==
    ASSUME NEW base, NEW fields, NEW n \in Nat
    PROVE  Joins(base, fields, n, CHOOSE f : Joins(base, fields, n, f))
<1> DEFINE missing == {k \in Nat : ~ \E f : Joins(base, fields, k, f)}
           less == OpToRel(<, Nat)
<1>1. 0 \notin missing
  <2> DEFINE f == [s \in SUBSET (1..0) |-> base]
             g == [s \in SUBSET (1..0) |->
                     IF s = {} THEN base ELSE Joined(f[s \ {Max(s)}], fields[Max(s)])]
  <2>1. \A s \in SUBSET (1..0) : s = {}
    OBVIOUS
  <2>2. \A s \in SUBSET (1..0) : f[s] = base /\ g[s] = base
    BY <2>1, Zenon
  <2>3. f = [s \in DOMAIN f |-> f[s]] /\ DOMAIN f = SUBSET (1..0)
    OBVIOUS
  <2>4. g = [s \in DOMAIN g |-> g[s]] /\ DOMAIN g = SUBSET (1..0)
    OBVIOUS
  <2>5. f = g
    <3> HIDE DEF f, g
    <3> QED  BY <2>2, <2>3, <2>4
  <2>6. Joins(base, fields, 0, f)
    BY <2>5, Zenon DEF Joins
  <2> HIDE DEF f
  <2> QED  BY <2>6, Zenon
<1>2. ASSUME NEW k \in Nat \ {0}, k - 1 \notin missing
      PROVE  k \notin missing
  <2>1. k - 1 \in Nat
    OBVIOUS
  <2>2. PICK f : Joins(base, fields, k - 1, f)
    BY <1>2, <2>1, Zenon
  <2>3. \E g : Joins(base, fields, k, g)
    BY <2>2, JoinsStep
  <2> QED  BY <2>3, Zenon
<1>3. IsWellFoundedOn(less, Nat)
  BY NatLessThanWellFounded
<1>4. \A x, y \in Nat : <<y, x>> \in less <=> y < x
  BY DEF OpToRel
<1>5. missing \subseteq Nat
  OBVIOUS
<1> HIDE DEF missing, less
<1>6. missing = {}
  <2> SUFFICES ASSUME missing # {} PROVE FALSE
    OBVIOUS
  <2>1. PICK k \in missing : \A y \in missing : ~ (<<y, k>> \in less)
    BY <1>3, <1>5, WFMin
  <2>2. \A y \in missing : ~ (y < k)
    BY <1>4, <1>5, <2>1, Zenon
  <2>3. k \in Nat \ {0} /\ k - 1 < k
    BY <1>1, <1>5
  <2>4. k - 1 \in missing
    BY <1>2, <2>3
  <2> QED  BY <2>2, <2>3, <2>4
<1>7. \E f : Joins(base, fields, n, f)
  BY <1>6, Zenon DEF missing
<1> QED  BY <1>7, Zenon

\* What was joined, a delimiter that the text has there, and the next field are
\* the text up to the next cut.
LEMMA JoinedPieces ==
    ASSUME NEW U, NEW line \in Seq(U), NEW a \in 1..Len(line), line[a] = Bar,
           NEW b \in (a + 1)..(Len(line) + 1)
    PROVE  Joined(SubSeq(line, 1, a - 1), SubSeq(line, a + 1, b - 1))
             = SubSeq(line, 1, b - 1)
<1> DEFINE l == Len(line)
<1>1. l \in Nat
  BY LenProperties
<1>2. SubSeq(line, a, a) = <<Bar>>
  BY OneToken
<1>3. /\ 1 \in 1..(l + 1) /\ a - 1 \in (1 - 1)..l /\ a \in (a - 1)..l /\ (a - 1) + 1 = a
      /\ a \in (1 - 1)..l /\ b - 1 \in a..l
  BY <1>1
<1>4. SubSeq(line, 1, a - 1) \o SubSeq(line, (a - 1) + 1, a) = SubSeq(line, 1, a)
  BY <1>3, ConcatAdjacentSubSeq
<1>5. SubSeq(line, 1, a) \o SubSeq(line, a + 1, b - 1) = SubSeq(line, 1, b - 1)
  BY <1>3, ConcatAdjacentSubSeq
<1>6. (a - 1) + 1 = a
  BY <1>3
<1> QED  BY <1>2, <1>4, <1>5, <1>6, Zenon DEF Joined

\* The fields of a text, and its pieces between two cuts.
LEMMA FieldsOfText ==
    ASSUME NEW U, NEW line \in Seq(U), NEW cuts, cuts = Ends(line)
    PROVE  /\ split(line) \in Seq(Seq(U)) /\ Len(split(line)) = Cardinality(cuts) - 1
           /\ DOMAIN split(line) = 1..(Cardinality(cuts) - 1)
           /\ \A k \in 1..(Cardinality(cuts) - 1) :
                 /\ split(line)[k] = SubSeq(line, Nth(cuts, k - 1) + 1, Nth(cuts, k) - 1)
                 /\ ~ Contains(split(line)[k], Bar)
<1> DEFINE l == Len(line)
           N == Cardinality(cuts)
           piece(k) == SubSeq(line, Nth(cuts, k - 1) + 1, Nth(cuts, k) - 1)
<1>1. l \in Nat /\ N \in Nat /\ N >= 2
  BY LenProperties, CutsOfText
<1>2. split(line) = [k \in 1..(N - 1) |-> piece(k)]
  BY Zenon DEF split, Ends
<1>3. ASSUME NEW k \in 1..(N - 1)
      PROVE  piece(k) \in Seq(U) /\ ~ Contains(piece(k), Bar)
  <2> DEFINE a == Nth(cuts, k - 1)
             b == Nth(cuts, k)
  <2>1. a \in 0..l /\ b \in (a + 1)..(l + 1) /\ \A i \in (a + 1)..(b - 1) : line[i] # Bar
    BY CutsOfText
  <2> HIDE DEF a, b, l, N
  <2>2. a + 1 \in Int /\ b - 1 \in Int /\ a \in Int /\ b \in Int
    BY <1>1, <2>1
  <2>3. \A i \in (a + 1)..(b - 1) : i \in 1..l
    BY <1>1, <2>1
  <2>4. \A i \in (a + 1)..(b - 1) : line[i] \in U
    BY <2>3, ElementOfSeq DEF l
  <2> DEFINE field == SubSeq(line, a + 1, b - 1)
  <2>5. /\ field \in Seq(U)
        /\ Len(field) = IF a + 1 <= b - 1 THEN (b - 1) - (a + 1) + 1 ELSE 0
        /\ \A i \in 1..((b - 1) - (a + 1) + 1) : field[i] = line[(a + 1) + i - 1]
    BY <2>2, <2>4, SubSeqProperties
  <2> HIDE DEF field
  <2>6. ASSUME NEW i \in 1..Len(field)
        PROVE  field[i] # Bar
    <3>1. i \in 1..((b - 1) - (a + 1) + 1) /\ (a + 1) + i - 1 \in (a + 1)..(b - 1)
      BY <2>2, <2>5
    <3> QED  BY <2>1, <2>5, <3>1
  <2>7. ~ Contains(field, Bar)
    BY <2>6 DEF Contains
  <2> QED  BY <2>5, <2>7 DEF a, b, field
<1> HIDE DEF piece, N
<1>4. \A k \in 1..(N - 1) : split(line)[k] = piece(k)
  BY <1>2
<1>5. /\ split(line) \in [1..(N - 1) -> Seq(U)] /\ DOMAIN split(line) = 1..(N - 1)
      /\ N - 1 \in Nat
  BY <1>1, <1>2, <1>3
<1> DEFINE fields == split(line)
<1> HIDE DEF fields
<1>6. fields \in Seq(Seq(U)) /\ Len(fields) = N - 1
  BY <1>5, IsASeq, LenProperties DEF fields
<1> QED  BY <1>3, <1>4, <1>5, <1>6 DEF fields, N, piece

\* Joining the fields of a text from the left gives, after every field, the text
\* up to the cut behind it.
LEMMA JoiningIsPrefix ==
    ASSUME NEW U, NEW line \in Seq(U), NEW cuts, cuts = Ends(line),
           NEW f, Joins(split(line)[1], Tail(split(line)), Cardinality(cuts) - 2, f)
    PROVE  f[1..(Cardinality(cuts) - 2)] = line
<1> DEFINE fields == split(line)
           rest == Tail(fields)
           l == Len(line)
           N == Cardinality(cuts)
           prefix(n) == SubSeq(line, 1, Nth(cuts, n + 1) - 1)
           differ == {n \in 0..(N - 2) : f[1..n] # prefix(n)}
           less == OpToRel(<, Nat)
<1>1. /\ l \in Nat /\ N \in Nat /\ N >= 2
      /\ Nth(cuts, 0) = 0 /\ Nth(cuts, N - 1) = l + 1
  BY LenProperties, CutsOfText
<1>2. /\ fields \in Seq(Seq(U)) /\ Len(fields) = N - 1
      /\ \A k \in 1..(N - 1) :
            fields[k] = SubSeq(line, Nth(cuts, k - 1) + 1, Nth(cuts, k) - 1)
  BY FieldsOfText
<1>3. \A k \in 1..(N - 1) :
         /\ Nth(cuts, k - 1) \in 0..l
         /\ Nth(cuts, k) \in (Nth(cuts, k - 1) + 1)..(l + 1)
         /\ Nth(cuts, k - 1) # 0 => line[Nth(cuts, k - 1)] = Bar
  BY CutsOfText
<1> HIDE DEF fields, N, l
<1>4. \A n \in 1..(N - 2) : rest[n] = fields[n + 1]
  <2>1. fields # << >>
    BY <1>1, <1>2
  <2>2. Len(rest) = N - 2 /\ \A n \in 1..Len(rest) : rest[n] = fields[n + 1]
    BY <1>1, <1>2, <2>1, HeadTailProperties
  <2> QED  BY <2>2
<1>5. \A s \in SUBSET (1..(N - 2)) :
         f[s] = IF s = {} THEN fields[1] ELSE Joined(f[s \ {Max(s)}], rest[Max(s)])
  <2> DEFINE value(s) == IF s = {} THEN fields[1] ELSE Joined(f[s \ {Max(s)}], rest[Max(s)])
  <2>1. f = [s \in SUBSET (1..(N - 2)) |-> value(s)]
    BY Zenon DEF Joins, fields, N
  <2>2. \A s \in SUBSET (1..(N - 2)) : f[s] = value(s)
    <3> HIDE DEF value
    <3> QED  BY <2>1
  <2> QED  BY <2>2
<1> HIDE DEF rest
<1>6. 0 \notin differ
  <2>1. 1..0 = {} /\ 1 \in 1..(N - 1) /\ 1 - 1 = 0 /\ 0 + 1 = 1
    BY <1>1
  <2>2. f[{}] = fields[1]
    BY <1>5, Zenon
  <2>3. fields[1] = SubSeq(line, Nth(cuts, 0) + 1, Nth(cuts, 1) - 1)
    BY <1>2, <2>1
  <2>4. fields[1] = SubSeq(line, 1, Nth(cuts, 1) - 1)
    BY <1>1, <2>1, <2>3, Zenon
  <2> QED  BY <2>1, <2>2, <2>4, Zenon
<1>7. ASSUME NEW n \in 1..(N - 2), n - 1 \notin differ
      PROVE  n \notin differ
  <2> DEFINE a == Nth(cuts, n)
             b == Nth(cuts, n + 1)
             z == Nth(cuts, n - 1)
  <2>1. /\ n \in Nat /\ n - 1 \in 0..(N - 2) /\ (n - 1) + 1 = n /\ (n + 1) - 1 = n
        /\ n + 1 \in 1..(N - 1) /\ n \in 1..(N - 1)
    BY <1>1
  <2>2. /\ z \in 0..l /\ a \in (z + 1)..(l + 1) /\ a \in 0..l /\ b \in (a + 1)..(l + 1)
        /\ a # 0 => line[a] = Bar
    BY <1>3, <2>1
  <2>3. fields[n + 1] = SubSeq(line, a + 1, b - 1)
    BY <1>2, <2>1
  <2> HIDE DEF a, b, z
  <2>4. a \in 1..l /\ line[a] = Bar
    BY <1>1, <2>2
  <2>5. 1..n \in SUBSET (1..(N - 2)) /\ 1..n \in SUBSET (1..n) /\ n \in 1..n /\ 1..n # {}
    <3>1. n \in 1..n /\ \A i \in 1..n : i \in 1..(N - 2)
      BY <1>1, <2>1
    <3>2. 1..n # {}
      BY <3>1, Zenon
    <3> QED  BY <3>1, <3>2
  <2>6. Max(1..n) = n /\ (1..n) \ {n} = 1..(n - 1)
    <3>1. Max(1..n) = n
      BY <2>1, <2>5, LargestOf
    <3> QED  BY <2>1, <3>1
  <2>7. f[1..n] = Joined(f[1..(n - 1)], rest[n])
    BY <1>5, <2>5, <2>6, Zenon
  <2>8. f[1..(n - 1)] = SubSeq(line, 1, a - 1)
    <3>1. f[1..(n - 1)] = prefix(n - 1)
      BY <1>7, <2>1
    <3> QED  BY <2>1, <3>1, Zenon DEF a
  <2>9. rest[n] = SubSeq(line, a + 1, b - 1)
    BY <1>4, <2>3
  <2>10. Joined(SubSeq(line, 1, a - 1), SubSeq(line, a + 1, b - 1)) = SubSeq(line, 1, b - 1)
    BY <2>2, <2>4, JoinedPieces DEF l
  <2>11. f[1..n] = prefix(n)
    BY <2>7, <2>8, <2>9, <2>10, Zenon DEF b
  <2> QED  BY <2>11, Zenon
<1>8. IsWellFoundedOn(less, Nat)
  BY NatLessThanWellFounded
<1>9. \A x, y \in Nat : <<y, x>> \in less <=> y < x
  BY DEF OpToRel
<1>10. differ \subseteq 0..(N - 2) /\ differ \subseteq Nat
  BY <1>1
<1> HIDE DEF differ, less
<1>11. differ = {}
  <2> SUFFICES ASSUME differ # {} PROVE FALSE
    OBVIOUS
  <2>1. PICK n \in differ : \A y \in differ : ~ (<<y, n>> \in less)
    BY <1>8, <1>10, WFMin
  <2>2. \A y \in differ : ~ (y < n)
    BY <1>9, <1>10, <2>1, Zenon
  <2>3. n \in 0..(N - 2) /\ n # 0
    BY <1>6, <1>10
  <2>4. n \in 1..(N - 2) /\ n - 1 < n
    BY <1>1, <2>3
  <2>5. n - 1 \in differ
    BY <1>7, <2>4
  <2> QED  BY <2>2, <2>4, <2>5
<1>12. N - 2 \in 0..(N - 2) /\ (N - 2) + 1 = N - 1 /\ (l + 1) - 1 = l
  BY <1>1
<1>13. f[1..(N - 2)] = prefix(N - 2)
  BY <1>11, <1>12, Zenon DEF differ
<1>14. prefix(N - 2) = SubSeq(line, 1, l)
  BY <1>1, <1>12, Zenon
<1>15. SubSeq(line, 1, l) = line
  BY SubSeqFull DEF l
<1> QED  BY <1>13, <1>14, <1>15, Zenon DEF N

\* Whatever the text, the fields of split hold no delimiter and, joined with it,
\* give the text back.
THEOREM SplitCutsAtDelimiters == Spec => []SplitIsInverseOfJoin
<1>1. UtilsTypeOK => SplitIsInverseOfJoin
  <2> SUFFICES ASSUME UtilsTypeOK PROVE SplitIsInverseOfJoin
    OBVIOUS
  <2> DEFINE cuts == Ends(text)
             N == Cardinality(cuts)
             fields == split(text)
             rest == Tail(fields)
  <2>1. text \in Seq(Tokens)
    BY DEF UtilsTypeOK
  <2>2. N \in Nat /\ N >= 2
    BY <2>1, CutsOfText
  <2>3. /\ fields \in Seq(Seq(Tokens)) /\ Len(fields) = N - 1 /\ DOMAIN fields = 1..(N - 1)
        /\ \A k \in 1..(N - 1) : ~ Contains(fields[k], Bar)
    BY <2>1, FieldsOfText
  <2>4. \A i \in DOMAIN fields : ~ Contains(fields[i], Bar)
    <3> HIDE DEF fields, N
    <3> QED  BY <2>3
  <2>5. DOMAIN rest = 1..(N - 2) /\ N - 2 \in Nat
    <3> HIDE DEF fields, N
    <3>1. fields # << >>
      BY <2>2, <2>3
    <3>2. rest \in Seq(Seq(Tokens)) /\ Len(rest) = N - 2
      BY <2>2, <2>3, <3>1, HeadTailProperties
    <3> HIDE DEF rest
    <3> QED  BY <2>2, <3>2, LenProperties
  <2> DEFINE fold == CHOOSE f : Joins(fields[1], rest, N - 2, f)
  <2>6. Joins(fields[1], rest, N - 2, fold)
    <3> HIDE DEF fields, rest, N
    <3> QED  BY <2>5, JoinsExists
  <2>7. FoldLeft(Joined, fields[1], rest) = fold[1..(N - 2)]
    <3> HIDE DEF fields, rest, N
    <3>1. FoldLeft(Joined, fields[1], rest)
            = (CHOOSE f : f = [s \in SUBSET (DOMAIN rest) |->
                  IF s = {} THEN fields[1]
                  ELSE Joined(f[s \ {Max(s)}], rest[Max(s)])])[DOMAIN rest]
      BY DEF FoldLeft, MapThenFoldSet
    <3> QED  BY <2>5, <3>1, Zenon DEF Joins
  <2>8. fold[1..(N - 2)] = text
    <3> HIDE DEF fold
    <3> QED  BY <2>1, <2>6, JoiningIsPrefix
  <2> HIDE DEF fold, N, cuts
  <2> QED  BY <2>4, <2>7, <2>8, Zenon DEF SplitIsInverseOfJoin
<1> QED  BY <1>1, UtilsTypes, PTL
=============================================================================
