-------------------------- MODULE ScoreTablesProofs --------------------------
(***************************************************************************)
(* Proofs about the tables for every list of challenges and every number   *)
(* of teams.  Loops are recursive functions on prefixes; a property of a   *)
(* loop is shown by PrefixInduction from the equations of the function.    *)
(***************************************************************************)
EXTENDS ScoreTables, FiniteSetTheorems, TLAPS

-----------------------------------------------------------------------------
(* Induction and recursion along 0..n. *)

(* A set of positions that holds 0 and with every position the next one    *)
(* holds all of them.                                                      *)
LEMMA PrefixInduction ==
  ASSUME NEW n \in Nat, NEW T,
         0 \in T, \A i \in 1..n : i - 1 \in T => i \in T
  PROVE  \A i \in 0..n : i \in T
<1> DEFINE Bad == {i \in 0..n : i \notin T}
<1> SUFFICES ASSUME Bad # {} PROVE FALSE
  OBVIOUS
<1>1. Bad \subseteq Nat
  OBVIOUS
<1>2. IsWellFoundedOn(OpToRel(<, Nat), Nat)
  BY NatLessThanWellFounded
<1> HIDE DEF Bad
<1>3. PICK x \in Bad : \A y \in Bad : ~(<<y, x>> \in OpToRel(<, Nat))
  BY <1>1, <1>2, WFMin
<1>4. \A y \in Bad : ~(y < x)
  BY <1>1, <1>3 DEF OpToRel
<1>5. x \in 1..n /\ x - 1 \in 0..n /\ x \notin T
  BY DEF Bad
<1>6. x - 1 \notin Bad
  BY <1>4, <1>5
<1> QED
  BY <1>5, <1>6 DEF Bad

(* The values of a loop of n rounds that starts with a and makes           *)
(* step[i][v] of v in its i-th round.                                      *)
Loop(f, n, S, a, step) ==
    f \in [0..n -> S] /\ f[0] = a /\ \A i \in 1..n : f[i] = step[i][f[i-1]]

(* Every loop has values. *)
LEMMA PrefixRecursion ==
  ASSUME NEW n \in Nat, NEW S, NEW a \in S, NEW step \in [1..n -> [S -> S]]
  PROVE  \E f : Loop(f, n, S, a, step)
<1> DEFINE Upto(m, f) == f[0] = a /\ \A i \in 1..m : f[i] = step[i][f[i-1]]
           T == {m \in 0..n : \E f \in [0..m -> S] : Upto(m, f)}
<1>1. 0 \in T
  <2> DEFINE f == [i \in 0..0 |-> a]
  <2>1. f \in [0..0 -> S] /\ Upto(0, f)
    OBVIOUS
  <2> HIDE DEF f, Upto
  <2>2. \E h \in [0..0 -> S] : Upto(0, h)
    BY <2>1
  <2> QED
    BY <2>2
<1>2. ASSUME NEW i \in 1..n, i - 1 \in T
      PROVE  i \in T
  <2>1. PICK f \in [0..i-1 -> S] : Upto(i-1, f)
    BY <1>2
  <2> DEFINE g == [j \in 0..i |-> IF j = i THEN step[i][f[i-1]] ELSE f[j]]
  <2>2. step[i][f[i-1]] \in S
    OBVIOUS
  <2>3. g \in [0..i -> S]
    BY <2>2
  <2>4. g[0] = a
    BY <2>1
  <2>5. ASSUME NEW j \in 1..i
        PROVE  g[j] = step[j][g[j-1]]
    <3>1. CASE j = i
      BY <3>1
    <3>2. CASE j # i
      BY <3>2, <2>1
    <3> QED
      BY <3>1, <3>2
  <2> HIDE DEF g
  <2>6. Upto(i, g)
    BY <2>4, <2>5
  <2> HIDE DEF Upto
  <2>7. \E h \in [0..i -> S] : Upto(i, h)
    BY <2>3, <2>6
  <2> QED
    BY <2>7
<1>3. n \in T
  <2> HIDE DEF T
  <2>1. \A i \in 0..n : i \in T
    BY <1>1, <1>2, PrefixInduction
  <2> QED
    BY <2>1
<1> QED
  BY <1>3 DEF Loop

(* What starts with a and takes the steps of the loop is the loop.         *)
LEMMA LoopByRounds ==
  ASSUME NEW n \in Nat, NEW S, NEW a \in S, NEW step \in [1..n -> [S -> S]],
         NEW g, g = [i \in 0..n |-> g[i]], g[0] = a,
         \A i \in 1..n : g[i-1] \in S => g[i] = step[i][g[i-1]]
  PROVE  Loop(g, n, S, a, step)
<1> DEFINE T == {i \in 0..n : g[i] \in S}
<1>1. 0 \in T
  OBVIOUS
<1>2. ASSUME NEW i \in 1..n, i - 1 \in T
      PROVE  i \in T
  <2>1. g[i-1] \in S
    BY <1>2
  <2>2. step[i][g[i-1]] \in S
    BY <2>1
  <2>3. g[i] = step[i][g[i-1]]
    BY <2>1
  <2>4. i \in 0..n
    OBVIOUS
  <2> QED
    BY <2>2, <2>3, <2>4
<1> HIDE DEF T
<1>3. \A i \in 0..n : i \in T
  BY <1>1, <1>2, PrefixInduction
<1>4. \A i \in 0..n : g[i] \in S
  BY <1>3 DEF T
<1>5. \A i \in 1..n : i - 1 \in 0..n
  OBVIOUS
<1>6. g \in [0..n -> S]
  BY <1>4
<1> QED
  BY <1>4, <1>5, <1>6 DEF Loop

-----------------------------------------------------------------------------
(* The loops of the tables. *)

(* SumOf adds one element after the other. *)
LEMMA SumEquations ==
  ASSUME NEW s \in Seq(Nat)
  PROVE  /\ PrefixSums(s) \in [0..Len(s) -> Nat]
         /\ PrefixSums(s)[0] = 0
         /\ \A i \in 1..Len(s) : PrefixSums(s)[i] = PrefixSums(s)[i-1] + s[i]
<1> DEFINE n == Len(s)
           Eq(f) == f = [i \in 0..n |-> IF i = 0 THEN 0 ELSE f[i-1] + s[i]]
           step == [i \in 1..n |-> [v \in Nat |-> v + s[i]]]
           g == PrefixSums(s)
<1>1. n \in Nat /\ 0 \in Nat /\ \A i \in 1..n : i - 1 \in 0..n /\ s[i] \in Nat
  OBVIOUS
<1>2. \A i \in 1..n : \A v \in Nat : step[i][v] = v + s[i]
  OBVIOUS
<1>3. step \in [1..n -> [Nat -> Nat]]
  BY <1>1
<1>4. g = CHOOSE f : Eq(f)
  BY DEF PrefixSums
<1> HIDE DEF n, step, g
<1>5. PICK f : Loop(f, n, Nat, 0, step)
  BY <1>1, <1>3, PrefixRecursion
<1>6. f \in [0..n -> Nat] /\ f[0] = 0 /\ \A i \in 1..n : f[i] = f[i-1] + s[i]
  BY <1>1, <1>2, <1>5 DEF Loop
<1>7. Eq(f)
  BY <1>1, <1>6
<1>8. Eq(g)
  BY <1>4, <1>7
<1>9. g[0] = 0 /\ g = [i \in 0..n |-> g[i]]
  BY <1>1, <1>8
<1>10. \A i \in 1..n : g[i] = g[i-1] + s[i]
  BY <1>1, <1>8
<1>11. Loop(g, n, Nat, 0, step)
  BY <1>1, <1>2, <1>3, <1>9, <1>10, LoopByRounds
<1>12. g \in [0..n -> Nat]
  BY <1>11 DEF Loop
<1> QED
  BY <1>9, <1>10, <1>12 DEF n, g

(* Pick appends the elements whose positions are in I. *)
LEMMA PickEquations ==
  ASSUME NEW X, NEW s \in Seq(X), NEW I
  PROVE  /\ PickPrefixes(s, I) \in [0..Len(s) -> Seq(X)]
         /\ PickPrefixes(s, I)[0] = <<>>
         /\ \A i \in 1..Len(s) :
              PickPrefixes(s, I)[i] = IF i \in I
                                      THEN Append(PickPrefixes(s, I)[i-1], s[i])
                                      ELSE PickPrefixes(s, I)[i-1]
<1> DEFINE n == Len(s)
           S == Seq(X)
           Do(i, v) == IF i \in I THEN Append(v, s[i]) ELSE v
           Eq(f) == f = [i \in 0..n |-> IF i = 0 THEN <<>> ELSE Do(i, f[i-1])]
           step == [i \in 1..n |-> [v \in S |-> Do(i, v)]]
           g == PickPrefixes(s, I)
<1>1. n \in Nat /\ <<>> \in S /\ \A i \in 1..n : i - 1 \in 0..n /\ s[i] \in X
  OBVIOUS
<1>2. \A i \in 1..n : \A v \in S : Do(i, v) \in S
  BY <1>1
<1>3. g = CHOOSE f : Eq(f)
  BY DEF PickPrefixes
<1> HIDE DEF n, S, Do, g
<1>4. \A i \in 1..n : \A v \in S : step[i][v] = Do(i, v)
  OBVIOUS
<1>5. step \in [1..n -> [S -> S]]
  BY <1>2
<1> HIDE DEF step
<1>6. PICK f : Loop(f, n, S, <<>>, step)
  BY <1>1, <1>5, PrefixRecursion
<1>7. f \in [0..n -> S] /\ f[0] = <<>> /\ \A i \in 1..n : f[i] = Do(i, f[i-1])
  BY <1>1, <1>4, <1>6 DEF Loop
<1>8. Eq(f)
  BY <1>1, <1>7
<1>9. Eq(g)
  BY <1>3, <1>8
<1>10. g[0] = <<>> /\ g = [i \in 0..n |-> g[i]]
  BY <1>1, <1>9
<1>11. \A i \in 1..n : g[i] = Do(i, g[i-1])
  BY <1>1, <1>9
<1>12. Loop(g, n, S, <<>>, step)
  BY <1>1, <1>4, <1>5, <1>10, <1>11, LoopByRounds
<1>13. g \in [0..n -> S]
  BY <1>12 DEF Loop
<1> QED
  BY <1>10, <1>11, <1>13 DEF n, S, Do, g

(* getChallengeCategories appends the categories it has not met. *)
LEMMA CategoryEquations ==
  ASSUME NEW X, NEW list \in Seq(X), NEW Y, \A i \in 1..Len(list) : CategoryOf[list[i]] \in Y
  PROVE  /\ CategoryPrefixes(list) \in [0..Len(list) -> Seq(Y)]
         /\ CategoryPrefixes(list)[0] = <<>>
         /\ \A i \in 1..Len(list) :
              CategoryPrefixes(list)[i] =
                IF Contains(CategoryPrefixes(list)[i-1], CategoryOf[list[i]])
                THEN CategoryPrefixes(list)[i-1]
                ELSE Append(CategoryPrefixes(list)[i-1], CategoryOf[list[i]])
<1> DEFINE n == Len(list)
           S == Seq(Y)
           Do(i, v) == IF Contains(v, CategoryOf[list[i]]) THEN v ELSE Append(v, CategoryOf[list[i]])
           Eq(f) == f = [i \in 0..n |-> IF i = 0 THEN <<>> ELSE Do(i, f[i-1])]
           step == [i \in 1..n |-> [v \in S |-> Do(i, v)]]
           g == CategoryPrefixes(list)
<1>1. n \in Nat /\ <<>> \in S /\ \A i \in 1..n : i - 1 \in 0..n /\ CategoryOf[list[i]] \in Y
  OBVIOUS
<1>2. \A i \in 1..n : \A v \in S : Do(i, v) \in S
  BY <1>1
<1>3. g = CHOOSE f : Eq(f)
  BY DEF CategoryPrefixes
<1> HIDE DEF n, S, Do, g
<1>4. \A i \in 1..n : \A v \in S : step[i][v] = Do(i, v)
  OBVIOUS
<1>5. step \in [1..n -> [S -> S]]
  BY <1>2
<1> HIDE DEF step
<1>6. PICK f : Loop(f, n, S, <<>>, step)
  BY <1>1, <1>5, PrefixRecursion
<1>7. f \in [0..n -> S] /\ f[0] = <<>> /\ \A i \in 1..n : f[i] = Do(i, f[i-1])
  BY <1>1, <1>4, <1>6 DEF Loop
<1>8. Eq(f)
  BY <1>1, <1>7
<1>9. Eq(g)
  BY <1>3, <1>8
<1>10. g[0] = <<>> /\ g = [i \in 0..n |-> g[i]]
  BY <1>1, <1>9
<1>11. \A i \in 1..n : g[i] = Do(i, g[i-1])
  BY <1>1, <1>9
<1>12. Loop(g, n, S, <<>>, step)
  BY <1>1, <1>4, <1>5, <1>10, <1>11, LoopByRounds
<1>13. g \in [0..n -> S]
  BY <1>12 DEF Loop
<1> QED
  BY <1>10, <1>11, <1>13 DEF n, S, Do, g

(* get_challenges puts the columns of one category after the other. *)
LEMMA RowEquations ==
  ASSUME NEW X, NEW Z, NEW full \in Seq(Z), \A i \in 1..Len(full) : full[i].chals \in Seq(X)
  PROVE  /\ RowPrefixes(full) \in [0..Len(full) -> Seq(X)]
         /\ RowPrefixes(full)[0] = <<>>
         /\ \A i \in 1..Len(full) :
              RowPrefixes(full)[i] = RowPrefixes(full)[i-1] \o full[i].chals
<1> DEFINE n == Len(full)
           S == Seq(X)
           Do(i, v) == v \o full[i].chals
           Eq(f) == f = [i \in 0..n |-> IF i = 0 THEN <<>> ELSE Do(i, f[i-1])]
           step == [i \in 1..n |-> [v \in S |-> Do(i, v)]]
           g == RowPrefixes(full)
<1>1. n \in Nat /\ <<>> \in S /\ \A i \in 1..n : i - 1 \in 0..n /\ full[i].chals \in Seq(X)
  OBVIOUS
<1>2. \A i \in 1..n : \A v \in S : Do(i, v) \in S
  BY <1>1
<1>3. g = CHOOSE f : Eq(f)
  BY DEF RowPrefixes
<1> HIDE DEF n, S, Do, g
<1>4. \A i \in 1..n : \A v \in S : step[i][v] = Do(i, v)
  OBVIOUS
<1>5. step \in [1..n -> [S -> S]]
  BY <1>2
<1> HIDE DEF step
<1>6. PICK f : Loop(f, n, S, <<>>, step)
  BY <1>1, <1>5, PrefixRecursion
<1>7. f \in [0..n -> S] /\ f[0] = <<>> /\ \A i \in 1..n : f[i] = Do(i, f[i-1])
  BY <1>1, <1>4, <1>6 DEF Loop
<1>8. Eq(f)
  BY <1>1, <1>7
<1>9. Eq(g)
  BY <1>3, <1>8
<1>10. g[0] = <<>> /\ g = [i \in 0..n |-> g[i]]
  BY <1>1, <1>9
<1>11. \A i \in 1..n : g[i] = Do(i, g[i-1])
  BY <1>1, <1>9
<1>12. Loop(g, n, S, <<>>, step)
  BY <1>1, <1>4, <1>5, <1>10, <1>11, LoopByRounds
<1>13. g \in [0..n -> S]
  BY <1>12 DEF Loop
<1> QED
  BY <1>10, <1>11, <1>13 DEF n, S, Do, g

(* Adding a challenge to groups gives groups. *)
LEMMA AddToGroupType ==
  ASSUME NEW X, NEW Y, NEW c \in X, CategoryOf[c] \in Y,
         NEW gs \in Seq([category : Y, chals : Seq(X)])
  PROVE  AddToGroup(gs, c) \in Seq([category : Y, chals : Seq(X)])
<1> DEFINE G == [category : Y, chals : Seq(X)]
           both == [i \in DOMAIN gs |->
                      IF gs[i].category = CategoryOf[c]
                      THEN [category |-> gs[i].category, chals |-> Append(gs[i].chals, c)]
                      ELSE gs[i]]
           new == [category |-> CategoryOf[c], chals |-> <<c>>]
<1>1. DOMAIN gs = 1..Len(gs) /\ Len(gs) \in Nat /\ \A i \in 1..Len(gs) : gs[i] \in G
  <2> HIDE DEF G
  <2>1. gs \in Seq(G)
    BY DEF G
  <2> QED
    BY <2>1
<1>2. new \in G
  OBVIOUS
<1>3. ASSUME NEW i \in 1..Len(gs)
      PROVE  both[i] \in G
  <2>1. gs[i].category \in Y /\ gs[i].chals \in Seq(X)
    BY <1>1
  <2>2. Append(gs[i].chals, c) \in Seq(X)
    BY <2>1
  <2> QED
    BY <1>1, <2>1, <2>2
<1>4. both \in [1..Len(gs) -> G]
  BY <1>1, <1>3
<1> HIDE DEF G, new, both
<1>5. both \in Seq(G)
  BY <1>1, <1>4
<1>6. Append(gs, new) \in Seq(G)
  BY <1>2 DEF G
<1>7. AddToGroup(gs, c) = both \/ AddToGroup(gs, c) = Append(gs, new)
  BY DEF AddToGroup, both, new
<1> QED
  BY <1>5, <1>6, <1>7 DEF G

(* sortChallenges adds one challenge after the other to its group. *)
LEMMA GroupEquations ==
  ASSUME NEW X, NEW values \in Seq(X), NEW Y, \A i \in 1..Len(values) : CategoryOf[values[i]] \in Y
  PROVE  /\ GroupPrefixes(values) \in [0..Len(values) -> Seq([category : Y, chals : Seq(X)])]
         /\ GroupPrefixes(values)[0] = <<>>
         /\ \A i \in 1..Len(values) :
              GroupPrefixes(values)[i] = AddToGroup(GroupPrefixes(values)[i-1], values[i])
<1> DEFINE n == Len(values)
           S == Seq([category : Y, chals : Seq(X)])
           Do(i, v) == AddToGroup(v, values[i])
           Eq(f) == f = [i \in 0..n |-> IF i = 0 THEN <<>> ELSE Do(i, f[i-1])]
           step == [i \in 1..n |-> [v \in S |-> Do(i, v)]]
           g == GroupPrefixes(values)
<1>1. n \in Nat /\ <<>> \in S /\ \A i \in 1..n : i - 1 \in 0..n /\ values[i] \in X /\ CategoryOf[values[i]] \in Y
  OBVIOUS
<1>2. \A i \in 1..n : \A v \in S : Do(i, v) \in S
  BY <1>1, AddToGroupType
<1>3. g = CHOOSE f : Eq(f)
  BY DEF GroupPrefixes
<1> HIDE DEF n, S, Do, g
<1>4. \A i \in 1..n : \A v \in S : step[i][v] = Do(i, v)
  OBVIOUS
<1>5. step \in [1..n -> [S -> S]]
  BY <1>2
<1> HIDE DEF step
<1>6. PICK f : Loop(f, n, S, <<>>, step)
  BY <1>1, <1>5, PrefixRecursion
<1>7. f \in [0..n -> S] /\ f[0] = <<>> /\ \A i \in 1..n : f[i] = Do(i, f[i-1])
  BY <1>1, <1>4, <1>6 DEF Loop
<1>8. Eq(f)
  BY <1>1, <1>7
<1>9. Eq(g)
  BY <1>3, <1>8
<1>10. g[0] = <<>> /\ g = [i \in 0..n |-> g[i]]
  BY <1>1, <1>9
<1>11. \A i \in 1..n : g[i] = Do(i, g[i-1])
  BY <1>1, <1>9
<1>12. Loop(g, n, S, <<>>, step)
  BY <1>1, <1>4, <1>5, <1>10, <1>11, LoopByRounds
<1>13. g \in [0..n -> S]
  BY <1>12 DEF Loop
<1> QED
  BY <1>10, <1>11, <1>13 DEF n, S, Do, g

-----------------------------------------------------------------------------
(* Sorting. *)

(* What a stable sort puts at place k comes from position p[k]. *)
IsSorting(p, n, key) ==
    /\ p \in [1..n -> 1..n]
    /\ \A i \in 1..n : \E k \in 1..n : p[k] = i
    /\ \A k, l \in 1..n : k < l => \/ key[p[k]] < key[p[l]]
                                   \/ key[p[k]] = key[p[l]] /\ p[k] < p[l]

(* Counting what comes before a position gives each position a place of    *)
(* its own, in the order of the keys.                                      *)
LEMMA SortingFacts ==
  ASSUME NEW n \in Nat, NEW key \in [1..n -> Int]
  PROVE  IsSorting(Sorting(key), n, key)
<1> DEFINE D == 1..n
           Prec(i, j) == key[i] < key[j] \/ (key[i] = key[j] /\ i < j)
           place == [i \in D |-> Cardinality(Before(key, i))]
           p == Sorting(key)
<1>1. IsFiniteSet(D) /\ Cardinality(D) = n
  BY FS_Interval
<1>2. ASSUME NEW i \in D
      PROVE  /\ Before(key, i) \subseteq D /\ i \in Before(key, i)
             /\ IsFiniteSet(Before(key, i)) /\ place[i] \in D
  <2>1. Before(key, i) \subseteq D /\ i \in Before(key, i)
    BY DEF Before
  <2>2. /\ IsFiniteSet(Before(key, i)) /\ Cardinality(Before(key, i)) <= n
        /\ Cardinality(Before(key, i)) \in Nat
    BY <1>1, <2>1, FS_Subset, FS_CardinalityType
  <2>3. Cardinality(Before(key, i)) # 0
    BY <2>1, <2>2, FS_EmptySet
  <2> QED
    BY <2>1, <2>2, <2>3
<1>3. ASSUME NEW i \in D, NEW j \in D, Prec(i, j)
      PROVE  place[i] < place[j]
  <2>1. Before(key, i) \subseteq Before(key, j) /\ j \notin Before(key, i)
    BY <1>3 DEF Before
  <2>2. Cardinality(Before(key, i)) <= Cardinality(Before(key, j))
    BY <1>2, <2>1, FS_Subset
  <2>3. Cardinality(Before(key, i)) # Cardinality(Before(key, j))
    BY <1>2, <2>1, FS_Subset
  <2> QED
    BY <1>2, <2>2, <2>3
<1>4. \A i, j \in D : Prec(i, j) \/ Prec(j, i) \/ i = j
  OBVIOUS
<1>5. place \in [D -> D]
  BY <1>2
<1>6. p = [k \in D |-> CHOOSE i \in D : place[i] = k]
  BY DEF Sorting
<1> HIDE DEF place, p
<1>7. \A i, j \in D : place[i] = place[j] => i = j
  BY <1>3, <1>4, <1>5
<1> HIDE DEF D, Prec
<1>8. place \in Injection(D, D)
  BY <1>5, <1>7 DEF Injection, IsInjective
<1>9. \A k \in D : \E i \in D : place[i] = k
  <2>1. place \in Surjection(D, D)
    BY <1>1, <1>8, FS_Injection
  <2> QED
    BY <2>1 DEF Surjection
<1>10. \A k \in D : p[k] \in D /\ place[p[k]] = k
  BY <1>6, <1>9
<1>11. p \in [D -> D]
  BY <1>6, <1>10
<1>12. \A i \in D : \E k \in D : p[k] = i
  BY <1>5, <1>7, <1>10
<1>13. ASSUME NEW k \in D, NEW l \in D, k < l
       PROVE  Prec(p[k], p[l])
  <2>1. p[k] \in D /\ p[l] \in D /\ place[p[k]] = k /\ place[p[l]] = l
    BY <1>10
  <2>2. k \in Int /\ l \in Int
    BY DEF D
  <2>3. p[k] # p[l]
    BY <1>13, <2>1, <2>2
  <2>4. ASSUME Prec(p[l], p[k]) PROVE FALSE
    <3>1. place[p[l]] < place[p[k]]
      BY <1>3, <2>1, <2>4
    <3> QED
      BY <1>13, <2>1, <2>2, <3>1
  <2> QED
    BY <1>4, <2>1, <2>3, <2>4
<1> QED
  BY <1>11, <1>12, <1>13 DEF IsSorting, D, Prec, p

(* A sorting takes no position twice. *)
LEMMA SortingOnce ==
  ASSUME NEW n \in Nat, NEW key \in [1..n -> Int], NEW p, IsSorting(p, n, key),
         NEW k \in 1..n, NEW l \in 1..n, p[k] = p[l]
  PROVE  k = l
<1>1. key[p[k]] \in Int /\ p[k] \in Int
  BY DEF IsSorting
<1>2. ASSUME k < l PROVE FALSE
  <2>1. key[p[k]] < key[p[l]] \/ p[k] < p[l]
    BY <1>2 DEF IsSorting
  <2> QED
    BY <1>1, <2>1
<1>3. ASSUME l < k PROVE FALSE
  <2>1. key[p[l]] < key[p[k]] \/ p[l] < p[k]
    BY <1>3 DEF IsSorting
  <2> QED
    BY <1>1, <2>1
<1> QED
  BY <1>2, <1>3

-----------------------------------------------------------------------------
(* Picking. *)

(* h lists the positions up to n that are in I, in their order. *)
Enumerates(h, n, I) ==
    /\ h \in Seq(1..n)
    /\ \A k \in 1..Len(h) : h[k] \in I
    /\ \A k, l \in 1..Len(h) : k < l => h[k] < h[l]
    /\ \A j \in 1..n : j \in I => \E k \in 1..Len(h) : h[k] = j

Positions(n, I) == PickPrefixes([i \in 1..n |-> i], I)

(* One more position that is in I comes last. *)
LEMMA EnumeratesMore ==
  ASSUME NEW i \in Nat, i > 0, NEW I, NEW h, Enumerates(h, i - 1, I), i \in I
  PROVE  Enumerates(Append(h, i), i, I)
<1> DEFINE g == Append(h, i)
           m == Len(h)
<1>1. h \in Seq(1..i-1) /\ m \in Nat /\ \A k \in 1..m : h[k] \in 1..i-1
  BY DEF Enumerates
<1>2. /\ g \in Seq(1..i) /\ Len(g) = m + 1
      /\ \A k \in 1..m : g[k] = h[k]
      /\ g[m + 1] = i
  <2>1. h \in Seq(1..i)
    BY <1>1
  <2> QED
    BY <1>1, <2>1
<1> HIDE DEF g, m
<1>3. \A k \in 1..m+1 : k = m + 1 \/ k \in 1..m
  BY <1>1
<1>4. \A k \in 1..m+1 : g[k] \in I
  BY <1>2, <1>3 DEF Enumerates, m
<1>5. ASSUME NEW k \in 1..m+1, NEW l \in 1..m+1, k < l
      PROVE  g[k] < g[l]
  <2>1. k \in 1..m
    BY <1>1, <1>5
  <2>2. CASE l = m + 1
    BY <1>1, <1>2, <2>1, <2>2
  <2>3. CASE l \in 1..m
    BY <1>2, <1>5, <2>1, <2>3 DEF Enumerates, m
  <2> QED
    BY <1>3, <2>2, <2>3
<1>6. ASSUME NEW j \in 1..i, j \in I
      PROVE  \E k \in 1..m+1 : g[k] = j
  <2>1. CASE j = i
    BY <1>1, <1>2, <2>1
  <2>2. CASE j # i
    <3>1. j \in 1..i-1
      BY <2>2
    <3>2. PICK k \in 1..m : h[k] = j
      BY <1>6, <3>1 DEF Enumerates, m
    <3>3. k \in 1..m+1
      BY <1>1
    <3> QED
      BY <1>2, <3>2, <3>3
  <2> QED
    BY <2>1, <2>2
<1>7. Enumerates(g, i, I)
  BY <1>2, <1>4, <1>5, <1>6 DEF Enumerates
<1> QED
  BY <1>7 DEF g

(* A position that is not in I changes nothing. *)
LEMMA EnumeratesSame ==
  ASSUME NEW i \in Nat, i > 0, NEW I, NEW h, Enumerates(h, i - 1, I), i \notin I
  PROVE  Enumerates(h, i, I)
<1>1. h \in Seq(1..i)
  BY DEF Enumerates
<1>2. \A j \in 1..i : j \in I => j \in 1..i-1
  OBVIOUS
<1> QED
  BY <1>1, <1>2 DEF Enumerates

(* Picking from the positions themselves lists those in I. *)
LEMMA PositionsFacts ==
  ASSUME NEW n \in Nat, NEW I
  PROVE  \A i \in 0..n : Enumerates(Positions(n, I)[i], i, I)
<1> DEFINE id == [i \in 1..n |-> i]
           H == Positions(n, I)
           T == {i \in 0..n : Enumerates(H[i], i, I)}
<1>1. id \in Seq(1..n) /\ Len(id) = n /\ \A i \in 1..n : id[i] = i
  OBVIOUS
<1>2. /\ H[0] = <<>>
      /\ \A i \in 1..n : H[i] = IF i \in I THEN Append(H[i-1], i) ELSE H[i-1]
  <2> HIDE DEF id
  <2>1. H = PickPrefixes(id, I)
    BY DEF Positions, id
  <2> HIDE DEF H
  <2> QED
    BY <1>1, <2>1, PickEquations
<1> HIDE DEF H
<1>3. 0 \in T
  <2>1. Enumerates(<<>>, 0, I)
    BY DEF Enumerates
  <2> QED
    BY <1>2, <2>1
<1>4. ASSUME NEW i \in 1..n, i - 1 \in T
      PROVE  i \in T
  <2>1. Enumerates(H[i-1], i - 1, I) /\ i \in Nat /\ i > 0
    BY <1>4
  <2>2. Enumerates(H[i], i, I)
    BY <1>2, <2>1, EnumeratesMore, EnumeratesSame
  <2> QED
    BY <2>2
<1> HIDE DEF T
<1>5. \A i \in 0..n : i \in T
  BY <1>3, <1>4, PrefixInduction
<1> QED
  BY <1>5 DEF T, H

(* r has the elements of s at the positions h lists. *)
Takes(r, s, h) == Len(r) = Len(h) /\ \A k \in 1..Len(h) : r[k] = s[h[k]]

(* Pick takes the elements at the positions in I. *)
LEMMA PickFacts ==
  ASSUME NEW X, NEW n \in Nat, NEW s \in Seq(X), Len(s) = n, NEW I
  PROVE  \A i \in 0..n : /\ PickPrefixes(s, I)[i] \in Seq(X)
                         /\ Takes(PickPrefixes(s, I)[i], s, Positions(n, I)[i])
<1> DEFINE id == [i \in 1..n |-> i]
           H == Positions(n, I)
           P == PickPrefixes(s, I)
           Same(i) == /\ P[i] \in Seq(X) /\ H[i] \in Seq(1..n)
                      /\ Len(P[i]) = Len(H[i])
                      /\ \A k \in 1..Len(H[i]) : P[i][k] = s[H[i][k]]
           T == {i \in 0..n : Same(i)}
<1>1. id \in Seq(1..n) /\ Len(id) = n /\ \A i \in 1..n : id[i] = i
  OBVIOUS
<1>2. /\ H[0] = <<>>
      /\ \A i \in 1..n : H[i] = IF i \in I THEN Append(H[i-1], i) ELSE H[i-1]
  <2> HIDE DEF id
  <2>1. H = PickPrefixes(id, I)
    BY DEF Positions, id
  <2> HIDE DEF H
  <2> QED
    BY <1>1, <2>1, PickEquations
<1>3. /\ P[0] = <<>>
      /\ \A i \in 1..n : P[i] = IF i \in I THEN Append(P[i-1], s[i]) ELSE P[i-1]
  BY PickEquations
<1> HIDE DEF H, P
<1>4. 0 \in T
  <2>1. <<>> \in Seq(X) /\ <<>> \in Seq(1..n) /\ 1..Len(<<>>) = {}
    OBVIOUS
  <2>2. Same(0)
    BY <1>2, <1>3, <2>1
  <2> QED
    BY <2>2
<1>5. ASSUME NEW i \in 1..n, i - 1 \in T
      PROVE  i \in T
  <2>1. CASE i \notin I
    BY <1>2, <1>3, <1>5, <2>1
  <2>2. CASE i \in I
    <3> DEFINE m == Len(H[i-1])
    <3>1. /\ P[i-1] \in Seq(X) /\ H[i-1] \in Seq(1..n) /\ Len(P[i-1]) = m /\ m \in Nat
          /\ \A k \in 1..m : P[i-1][k] = s[H[i-1][k]]
      BY <1>5
    <3>2. H[i] = Append(H[i-1], i) /\ P[i] = Append(P[i-1], s[i]) /\ s[i] \in X
      <4>1. s[i] \in X
        OBVIOUS
      <4> QED
        BY <1>2, <1>3, <2>2, <4>1
    <3>3. /\ P[i] \in Seq(X) /\ Len(P[i]) = m + 1 /\ P[i][m+1] = s[i]
          /\ \A k \in 1..m : P[i][k] = P[i-1][k]
      BY <3>1, <3>2
    <3>4. /\ H[i] \in Seq(1..n) /\ Len(H[i]) = m + 1 /\ H[i][m+1] = i
          /\ \A k \in 1..m : H[i][k] = H[i-1][k]
      BY <3>1, <3>2
    <3> HIDE DEF m
    <3>5. ASSUME NEW k \in 1..m+1
          PROVE  P[i][k] = s[H[i][k]]
      <4>1. CASE k = m + 1
        BY <3>3, <3>4, <4>1
      <4>2. CASE k # m + 1
        <5>1. k \in 1..m
          BY <3>1, <4>2
        <5> QED
          BY <3>1, <3>3, <3>4, <5>1
      <4> QED
        BY <4>1, <4>2
    <3> QED
      BY <3>3, <3>4, <3>5
  <2> QED
    BY <2>1, <2>2
<1> HIDE DEF T
<1>6. \A i \in 0..n : i \in T
  BY <1>4, <1>5, PrefixInduction
<1> QED
  BY <1>6 DEF T, H, P, Takes

-----------------------------------------------------------------------------
(* Sequences that hold each element of a set once. *)

ListsOnce(s, S) ==
    /\ s \in Seq(S)
    /\ \A i, j \in 1..Len(s) : s[i] = s[j] => i = j
    /\ \A x \in S : \E i \in 1..Len(s) : s[i] = x

(* Sorting keeps the elements. *)
LEMMA SortListsOnce ==
  ASSUME NEW S, NEW s, ListsOnce(s, S), NEW key \in [1..Len(s) -> Int]
  PROVE  ListsOnce(StableSort(s, key), S)
<1> DEFINE n == Len(s)
           p == Sorting(key)
           r == StableSort(s, key)
<1>1. /\ n \in Nat /\ DOMAIN s = 1..n /\ \A k \in 1..n : s[k] \in S
      /\ \A i, j \in 1..n : s[i] = s[j] => i = j
  BY DEF ListsOnce
<1>2. IsSorting(p, n, key)
  BY <1>1, SortingFacts
<1>3. r = [k \in 1..n |-> s[p[k]]]
  BY <1>1 DEF StableSort
<1> HIDE DEF n, p, r
<1>4. \A k \in 1..n : p[k] \in 1..n /\ r[k] = s[p[k]]
  BY <1>2, <1>3 DEF IsSorting
<1>5. r \in Seq(S) /\ Len(r) = n
  BY <1>1, <1>3, <1>4
<1>6. ASSUME NEW k \in 1..n, NEW l \in 1..n, r[k] = r[l]
      PROVE  k = l
  <2>1. p[k] = p[l]
    BY <1>1, <1>4, <1>6
  <2>2. key \in [1..n -> Int]
    BY DEF n
  <2> QED
    BY <1>1, <1>2, <2>1, <2>2, SortingOnce
<1>7. ASSUME NEW x \in S
      PROVE  \E k \in 1..n : r[k] = x
  <2>1. PICK i \in 1..n : s[i] = x
    BY DEF ListsOnce, n
  <2>2. PICK k \in 1..n : p[k] = i
    BY <1>2 DEF IsSorting
  <2> QED
    BY <1>4, <2>1, <2>2
<1>8. ListsOnce(r, S)
  BY <1>5, <1>6, <1>7 DEF ListsOnce
<1> QED
  BY <1>8 DEF r

(* Picking keeps the elements at the positions in I. *)
LEMMA PickListsOnce ==
  ASSUME NEW S, NEW s, ListsOnce(s, S), NEW I
  PROVE  ListsOnce(Pick(s, I), {s[i] : i \in {j \in 1..Len(s) : j \in I}})
<1> DEFINE n == Len(s)
           h == Positions(n, I)[n]
           r == Pick(s, I)
           R == {s[i] : i \in {j \in 1..n : j \in I}}
<1>1. n \in Nat /\ s \in Seq(S) /\ \A i, j \in 1..n : s[i] = s[j] => i = j
  BY DEF ListsOnce
<1>2. Enumerates(h, n, I)
  BY <1>1, PositionsFacts
<1>3. r \in Seq(S) /\ Len(r) = Len(h) /\ \A k \in 1..Len(h) : r[k] = s[h[k]]
  BY <1>1, PickFacts DEF Pick, Takes
<1> HIDE DEF n, h, r
<1>4. \A k \in 1..Len(h) : h[k] \in 1..n /\ h[k] \in I
  <2> DEFINE N == 1..n
  <2>1. h \in Seq(N)
    BY <1>2 DEF Enumerates
  <2> HIDE DEF N
  <2>2. \A k \in 1..Len(h) : h[k] \in N
    BY <2>1
  <2> QED
    BY <1>2, <2>2 DEF Enumerates, N
<1>5. \A k \in 1..Len(r) : r[k] \in R
  BY <1>3, <1>4
<1>6. r \in Seq(R)
  BY <1>3, <1>5
<1>7. ASSUME NEW k \in 1..Len(r), NEW l \in 1..Len(r), r[k] = r[l]
      PROVE  k = l
  <2>1. h[k] = h[l]
    BY <1>1, <1>3, <1>4, <1>7
  <2>2. h[k] \in Int /\ Len(h) \in Nat
    BY <1>2, <1>3, <1>4 DEF Enumerates
  <2>3. ~(k < l) /\ ~(l < k)
    BY <1>2, <1>3, <2>1, <2>2 DEF Enumerates
  <2> QED
    BY <1>3, <2>2, <2>3
<1>8. ASSUME NEW x \in R
      PROVE  \E k \in 1..Len(r) : r[k] = x
  <2>1. PICK i \in 1..n : i \in I /\ x = s[i]
    OBVIOUS
  <2>2. PICK k \in 1..Len(h) : h[k] = i
    BY <1>2, <2>1 DEF Enumerates
  <2> QED
    BY <1>3, <2>1, <2>2
<1> HIDE DEF R
<1>9. ListsOnce(r, R)
  BY <1>6, <1>7, <1>8 DEF ListsOnce
<1> QED
  BY <1>9 DEF r, R, n

(* One after the other, two such sequences without a common element hold   *)
(* the elements of both.                                                   *)
LEMMA ConcatListsOnce ==
  ASSUME NEW S, NEW T, NEW s, NEW t, ListsOnce(s, S), ListsOnce(t, T), S \cap T = {}
  PROVE  ListsOnce(s \o t, S \cup T)
<1> DEFINE r == s \o t
           m == Len(s)
           n == Len(t)
<1>1. /\ m \in Nat /\ n \in Nat /\ s \in Seq(S \cup T) /\ t \in Seq(S \cup T)
      /\ (\A i \in 1..m : s[i] \in S) /\ (\A i \in 1..n : t[i] \in T)
  BY DEF ListsOnce
<1>2. /\ r \in Seq(S \cup T) /\ Len(r) = m + n
      /\ \A i \in 1..m+n : r[i] = IF i <= m THEN s[i] ELSE t[i-m]
  BY <1>1
<1> HIDE DEF r, m, n
<1>3. \A i \in 1..m+n : IF i <= m THEN i \in 1..m ELSE i - m \in 1..n
  BY <1>1
<1>4. ASSUME NEW i \in 1..m+n, NEW j \in 1..m+n, r[i] = r[j]
      PROVE  i = j
  <2>1. CASE i <= m /\ j <= m
    BY <1>2, <1>3, <1>4, <2>1 DEF ListsOnce, m
  <2>2. CASE ~(i <= m) /\ ~(j <= m)
    <3>1. i - m \in 1..n /\ j - m \in 1..n /\ t[i-m] = t[j-m]
      BY <1>2, <1>3, <1>4, <2>2
    <3>2. i - m = j - m
      BY <3>1 DEF ListsOnce, n
    <3> QED
      BY <1>1, <3>2
  <2>3. CASE (i <= m) # (j <= m)
    BY <1>1, <1>2, <1>3, <1>4, <2>3
  <2> QED
    BY <2>1, <2>2, <2>3
<1>5. ASSUME NEW x \in S \cup T
      PROVE  \E i \in 1..m+n : r[i] = x
  <2>1. CASE x \in S
    <3>1. PICK i \in 1..m : s[i] = x
      BY <2>1 DEF ListsOnce, m
    <3>2. i \in 1..m+n /\ i <= m
      BY <1>1
    <3> QED
      BY <1>2, <3>1, <3>2
  <2>2. CASE x \in T
    <3>1. PICK i \in 1..n : t[i] = x
      BY <2>2 DEF ListsOnce, n
    <3>2. i + m \in 1..m+n /\ ~(i + m <= m) /\ (i + m) - m = i
      BY <1>1
    <3> QED
      BY <1>2, <3>1, <3>2
  <2> QED
    BY <2>1, <2>2
<1>6. ListsOnce(r, S \cup T)
  BY <1>2, <1>4, <1>5 DEF ListsOnce
<1> QED
  BY <1>6 DEF r

-----------------------------------------------------------------------------
(* Categories and columns. *)

Categories == {CategoryOf[c] : c \in Entries}

(* cats has every category of the first i challenges, once. *)
CategoriesMet(cats, list, i) ==
    /\ cats \in Seq(Categories)
    /\ \A k, l \in 1..Len(cats) : cats[k] = cats[l] => k = l
    /\ \A j \in 1..i : \E k \in 1..Len(cats) : cats[k] = CategoryOf[list[j]]

(* getChallengeCategories keeps to that in each round. *)
LEMMA CategoryFacts ==
  ASSUME NEW list \in Seq(Entries)
  PROVE  \A i \in 0..Len(list) : CategoriesMet(CategoryPrefixes(list)[i], list, i)
<1> DEFINE n == Len(list)
           C == CategoryPrefixes(list)
           Good(i, cats) == CategoriesMet(cats, list, i)
           T == {i \in 0..n : Good(i, C[i])}
<1>1. n \in Nat /\ \A i \in 1..n : CategoryOf[list[i]] \in Categories
  <2>1. \A i \in 1..n : list[i] \in Entries
    OBVIOUS
  <2> QED
    BY <2>1 DEF Categories
<1>2. /\ C[0] = <<>>
      /\ \A i \in 1..n : C[i] = IF Contains(C[i-1], CategoryOf[list[i]]) THEN C[i-1]
                                ELSE Append(C[i-1], CategoryOf[list[i]])
  BY <1>1, CategoryEquations
<1> HIDE DEF n, C
<1>3. 0 \in T
  <2>1. Good(0, <<>>)
    BY DEF CategoriesMet
  <2>2. 0 \in 0..n
    BY <1>1
  <2> HIDE DEF Good
  <2> QED
    BY <1>2, <2>1, <2>2
<1>4. ASSUME NEW i \in 1..n, i - 1 \in T
      PROVE  i \in T
  <2> DEFINE old == C[i-1]
             cat == CategoryOf[list[i]]
             m == Len(old)
  <2>1. Good(i - 1, old) /\ cat \in Categories /\ m \in Nat
    BY <1>1, <1>4 DEF CategoriesMet
  <2>2. \A j \in 1..i : j = i \/ j \in 1..i-1
    BY <1>1
  <2>3. CASE Contains(old, cat)
    <3>1. C[i] = old
      BY <1>2, <2>3
    <3>2. \E k \in 1..Len(old) : old[k] = cat
      BY <2>3 DEF Contains
    <3> HIDE DEF old
    <3>3. Good(i, old)
      BY <2>1, <2>2, <3>2 DEF CategoriesMet
    <3> HIDE DEF Good
    <3> QED
      BY <3>1, <3>3
  <2>4. CASE ~Contains(old, cat)
    <3> DEFINE new == Append(old, cat)
    <3>1. C[i] = new
      BY <1>2, <2>4
    <3>2. \A k \in 1..m : old[k] # cat
      BY <2>4 DEF Contains
    <3> HIDE DEF old, cat
    <3>3. /\ new \in Seq(Categories) /\ Len(new) = m + 1 /\ new[m+1] = cat
          /\ \A k \in 1..m : new[k] = old[k]
      BY <2>1 DEF CategoriesMet
    <3> HIDE DEF new
    <3>4. \A k \in 1..m+1 : k = m + 1 \/ k \in 1..m
      BY <2>1
    <3>5. \A k \in 1..m : k \in 1..m+1
      BY <2>1
    <3>6. m + 1 \in 1..m+1
      BY <2>1
    <3>7. \A k, l \in 1..m+1 : new[k] = new[l] => k = l
      BY <2>1, <3>2, <3>3, <3>4 DEF CategoriesMet
    <3>8. ASSUME NEW j \in 1..i
          PROVE  \E k \in 1..m+1 : new[k] = CategoryOf[list[j]]
      <4>1. CASE j = i
        BY <3>3, <3>6, <4>1 DEF cat
      <4>2. CASE j \in 1..i-1
        <5>1. PICK k \in 1..m : old[k] = CategoryOf[list[j]]
          BY <2>1, <4>2 DEF CategoriesMet
        <5> QED
          BY <3>3, <3>5, <5>1
      <4> QED
        BY <2>2, <4>1, <4>2
    <3>9. Good(i, new)
      BY <3>3, <3>7, <3>8 DEF CategoriesMet
    <3> HIDE DEF Good
    <3> QED
      BY <3>1, <3>9
  <2> QED
    BY <2>3, <2>4
<1> HIDE DEF T
<1>5. \A i \in 0..n : i \in T
  BY <1>1, <1>3, <1>4, PrefixInduction
<1> QED
  BY <1>5 DEF T, n, C

(* The challenges of S in category cat. *)
InCategory(S, cat) == {c \in S : CategoryOf[c] = cat}

(* cols has a group for each of the categories of S. *)
GroupsOf(cols, cats, S) ==
    /\ Len(cats) \in Nat
    /\ cols \in Seq(Range(cols)) /\ Len(cols) = Len(cats)
    /\ \A k, l \in 1..Len(cats) : cats[k] = cats[l] => k = l
    /\ \A c \in S : \E k \in 1..Len(cats) : cats[k] = CategoryOf[c]
    /\ \A k \in 1..Len(cats) : ListsOnce(cols[k].chals, InCategory(S, cats[k]))

(* A group of columns holds the challenges of its category. *)
LEMMA ColumnFacts ==
  ASSUME NEW S, S \subseteq Entries, NEW list, ListsOnce(list, S)
  PROVE  GroupsOf(Columns(list), GetChallengeCategories(list), S)
<1> DEFINE cats == GetChallengeCategories(list)
           cols == Columns(list)
           m == Len(cats)
<1>1. list \in Seq(S) /\ list \in Seq(Entries) /\ Len(list) \in Nat
  BY DEF ListsOnce
<1>2. /\ cats \in Seq(Categories)
      /\ \A k, l \in 1..m : cats[k] = cats[l] => k = l
      /\ \A j \in 1..Len(list) : \E k \in 1..m : cats[k] = CategoryOf[list[j]]
  <2>1. Len(list) \in 0..Len(list)
    BY <1>1
  <2>2. CategoriesMet(cats, list, Len(list))
    BY <1>1, <2>1, CategoryFacts DEF GetChallengeCategories
  <2> QED
    BY <2>2 DEF CategoriesMet
<1>3. m \in Nat /\ DOMAIN cats = 1..m
  BY <1>2
<1>4. /\ cols = [k \in 1..m |-> [category |-> cats[k],
                    chals |-> ByPoints(Pick(list, OfCategory(list, cats[k])))]]
  BY <1>3 DEF Columns
<1> HIDE DEF cats, cols, m
<1>5. ASSUME NEW c \in S
      PROVE  \E k \in 1..m : cats[k] = CategoryOf[c]
  <2>1. PICK j \in 1..Len(list) : list[j] = c
    BY DEF ListsOnce
  <2> QED
    BY <1>2, <2>1
<1>6. ASSUME NEW k \in 1..m
      PROVE  ListsOnce(cols[k].chals, InCategory(S, cats[k]))
  <2> DEFINE I == OfCategory(list, cats[k])
             q == Pick(list, I)
             R == {list[i] : i \in {j \in 1..Len(list) : j \in I}}
  <2>1. cols[k].chals = ByPoints(q)
    BY <1>4
  <2>2. ListsOnce(q, R)
    BY PickListsOnce
  <2>3. R = InCategory(S, cats[k])
    <3>1. DOMAIN list = 1..Len(list) /\ \A i \in 1..Len(list) : list[i] \in S
      BY <1>1
    <3>2. \A i \in 1..Len(list) : i \in I <=> CategoryOf[list[i]] = cats[k]
      BY <3>1 DEF OfCategory
    <3>3. \A c \in S : \E i \in 1..Len(list) : list[i] = c
      BY DEF ListsOnce
    <3> HIDE DEF I
    <3>4. R \subseteq InCategory(S, cats[k])
      BY <3>1, <3>2 DEF InCategory
    <3>5. ASSUME NEW c \in InCategory(S, cats[k])
          PROVE  c \in R
      <4>1. c \in S /\ CategoryOf[c] = cats[k]
        BY DEF InCategory
      <4>2. PICK i \in 1..Len(list) : list[i] = c
        BY <3>3, <4>1
      <4> QED
        BY <3>2, <4>1, <4>2
    <3> QED
      BY <3>4, <3>5
  <2> HIDE DEF q, R
  <2>4. Len(q) \in Nat /\ DOMAIN q = 1..Len(q) /\ \A i \in 1..Len(q) : q[i] \in Entries
    BY <2>2, <2>3 DEF ListsOnce, InCategory
  <2>5. [i \in DOMAIN q |-> PointsOf[q[i]]] \in [1..Len(q) -> Int]
    BY <2>4, PointsAssumption
  <2>6. ListsOnce(ByPoints(q), R)
    BY <2>2, <2>5, SortListsOnce DEF ByPoints
  <2> QED
    BY <2>1, <2>3, <2>6
<1>7. cols \in Seq(Range(cols)) /\ Len(cols) = m
  <2>1. cols \in [1..m -> Range(cols)]
    BY <1>4 DEF Range
  <2> HIDE DEF m
  <2> QED
    BY <1>3, <2>1
<1> QED
  BY <1>2, <1>3, <1>5, <1>6, <1>7 DEF GroupsOf, cats, cols, m

(* The row of all columns holds each challenge once. *)
LEMMA HeaderFacts ==
  ASSUME NEW S, S \subseteq Entries, NEW list, ListsOnce(list, S)
  PROVE  ListsOnce(GetChallenges(Columns(list)), S)
<1> DEFINE cats == GetChallengeCategories(list)
           cols == Columns(list)
           m == Len(cats)
           R == RowPrefixes(cols)
           Upto(i) == {c \in S : \E k \in 1..i : cats[k] = CategoryOf[c]}
           T == {i \in 0..m : ListsOnce(R[i], Upto(i))}
<1>1. /\ m \in Nat /\ cols \in Seq(Range(cols)) /\ Len(cols) = m
      /\ \A k, l \in 1..m : cats[k] = cats[l] => k = l
      /\ \A c \in S : \E k \in 1..m : cats[k] = CategoryOf[c]
      /\ \A k \in 1..m : ListsOnce(cols[k].chals, InCategory(S, cats[k]))
  BY ColumnFacts DEF GroupsOf
<1> HIDE DEF cats, cols, m
<1>2. ASSUME NEW k \in 1..m
      PROVE  cols[k].chals \in Seq(S)
  <2> DEFINE s == cols[k].chals
             C == InCategory(S, cats[k])
  <2>1. s \in Seq(C) /\ C \subseteq S
    BY <1>1 DEF ListsOnce, InCategory
  <2> HIDE DEF s, C
  <2>2. s \in Seq(S)
    BY <2>1
  <2> QED
    BY <2>2 DEF s
<1>3. R[0] = <<>> /\ \A i \in 1..m : R[i] = R[i-1] \o cols[i].chals
  <2> DEFINE Z == Range(cols)
  <2>1. cols \in Seq(Z) /\ \A i \in 1..Len(cols) : cols[i].chals \in Seq(S)
    BY <1>1, <1>2
  <2> HIDE DEF Z
  <2>2. R[0] = <<>> /\ \A i \in 1..Len(cols) : R[i] = R[i-1] \o cols[i].chals
    BY <2>1, RowEquations
  <2> QED
    BY <1>1, <2>2
<1> HIDE DEF R
<1>4. 0 \in T
  <2>1. Upto(0) = {}
    OBVIOUS
  <2>2. ListsOnce(<<>>, {})
    BY DEF ListsOnce
  <2>3. 0 \in 0..m
    BY <1>1
  <2> HIDE DEF Upto
  <2> QED
    BY <1>3, <2>1, <2>2, <2>3
<1>5. ASSUME NEW i \in 1..m, i - 1 \in T
      PROVE  i \in T
  <2>1. ListsOnce(R[i-1], Upto(i-1))
    BY <1>5
  <2>2. \A k \in 1..i : k = i \/ k \in 1..i-1
    BY <1>1
  <2>3. \A k \in 1..i-1 : k \in 1..m /\ k # i /\ k \in 1..i
    BY <1>1
  <2>4. Upto(i-1) \cap InCategory(S, cats[i]) = {}
    BY <1>1, <2>3 DEF InCategory
  <2>5. Upto(i) = Upto(i-1) \cup InCategory(S, cats[i])
    <3>1. i \in 1..i
      BY <1>1
    <3> QED
      BY <2>2, <2>3, <3>1 DEF InCategory
  <2>6. R[i] = R[i-1] \o cols[i].chals
    BY <1>3
  <2>7. ListsOnce(cols[i].chals, InCategory(S, cats[i]))
    BY <1>1
  <2> HIDE DEF Upto
  <2>8. ListsOnce(R[i], Upto(i))
    BY <2>1, <2>4, <2>5, <2>6, <2>7, ConcatListsOnce
  <2> QED
    BY <1>1, <2>8
<1>6. ListsOnce(R[m], Upto(m))
  <2> HIDE DEF T
  <2>1. \A i \in 0..m : i \in T
    BY <1>1, <1>4, <1>5, PrefixInduction
  <2>2. m \in T
    BY <1>1, <2>1
  <2> HIDE DEF Upto
  <2> QED
    BY <2>2 DEF T
<1>7. Upto(m) = S
  BY <1>1
<1> HIDE DEF Upto
<1> QED
  BY <1>1, <1>6, <1>7 DEF GetChallenges, R, cols

-----------------------------------------------------------------------------
(* Sums of points. *)

PointSet(S) == UNION {{c} \X (1..PointsOf[c]) : c \in S}

(* The elements at the positions up to n that are in J. *)
ElementsAt(s, n, J) == {s[i] : i \in {k \in 1..n : k \in J}}

(* A further challenge adds its points. *)
LEMMA PointsInMore ==
  ASSUME NEW S, IsFiniteSet(PointSet(S)), NEW c, c \notin S, PointsOf[c] \in Nat
  PROVE  /\ IsFiniteSet(PointSet(S \cup {c}))
         /\ PointsIn(S \cup {c}) = PointsIn(S) + PointsOf[c]
<1> DEFINE P == PointSet(S)
           Q == {c} \X (1..PointsOf[c])
<1>1. IsFiniteSet(Q) /\ Cardinality(Q) = PointsOf[c]
  <2>1. IsFiniteSet({c}) /\ Cardinality({c}) = 1
    BY FS_Singleton
  <2>2. IsFiniteSet(1..PointsOf[c]) /\ Cardinality(1..PointsOf[c]) = PointsOf[c]
    BY FS_Interval
  <2> DEFINE A == {c}
             B == 1..PointsOf[c]
  <2> HIDE DEF A, B
  <2>3. IsFiniteSet(A \X B) /\ Cardinality(A \X B) = Cardinality(A) * Cardinality(B)
    BY <2>1, <2>2, FS_Product DEF A, B
  <2>4. Cardinality(A \X B) = PointsOf[c]
    BY <2>1, <2>2, <2>3 DEF A, B
  <2> QED
    BY <2>3, <2>4 DEF A, B
<1>2. PointSet(S \cup {c}) = P \cup Q
  BY DEF PointSet
<1>3. P \cap Q = {}
  BY DEF PointSet
<1> HIDE DEF P, Q
<1>4. IsFiniteSet(P) /\ Cardinality(P) \in Nat
  BY FS_CardinalityType DEF P
<1>5. Cardinality(P \cap Q) = 0
  BY <1>3, FS_EmptySet
<1>6. /\ IsFiniteSet(P \cup Q)
      /\ Cardinality(P \cup Q) = Cardinality(P) + Cardinality(Q) - Cardinality(P \cap Q)
  BY <1>1, <1>4, FS_Union
<1>7. Cardinality(P \cup Q) = Cardinality(P) + PointsOf[c]
  BY <1>1, <1>4, <1>5, <1>6
<1> QED
  BY <1>2, <1>6, <1>7 DEF PointsIn, PointSet, P

(* v has the points of the challenges at the positions in J of cs, which   *)
(* has no challenge twice, and 0 for the others.                           *)
CountsPoints(v, cs, n, J) ==
    /\ n \in Nat /\ v \in Seq(Nat) /\ Len(v) = n
    /\ \A i \in 1..n : cs[i] \in Entries
    /\ \A i, j \in 1..n : cs[i] = cs[j] => i = j
    /\ \A i \in 1..n : v[i] = IF i \in J THEN PointsOf[cs[i]] ELSE 0

(* The sums of v are the points of the challenges at the positions in J.   *)
LEMMA SumFacts ==
  ASSUME NEW n, NEW cs, NEW J, NEW v, CountsPoints(v, cs, n, J)
  PROVE  \A i \in 0..n : PrefixSums(v)[i] = PointsIn(ElementsAt(cs, i, J))
<1> DEFINE F == PrefixSums(v)
           U(i) == ElementsAt(cs, i, J)
           T == {i \in 0..n : IsFiniteSet(PointSet(U(i))) /\ F[i] = PointsIn(U(i))}
<1>0. /\ n \in Nat /\ v \in Seq(Nat) /\ Len(v) = n
      /\ \A i \in 1..n : cs[i] \in Entries
      /\ \A i, j \in 1..n : cs[i] = cs[j] => i = j
      /\ \A i \in 1..n : v[i] = IF i \in J THEN PointsOf[cs[i]] ELSE 0
  BY DEF CountsPoints
<1> USE <1>0
<1>1. F \in [0..n -> Nat] /\ F[0] = 0 /\ \A i \in 1..n : F[i] = F[i-1] + v[i]
  BY SumEquations
<1> HIDE DEF F
<1>2. 0 \in T
  <2>1. U(0) = {}
    BY DEF ElementsAt
  <2>2. PointSet({}) = {} /\ PointsIn({}) = Cardinality(PointSet({}))
    BY DEF PointSet, PointsIn
  <2>3. IsFiniteSet(PointSet({})) /\ PointsIn({}) = 0
    BY <2>2, FS_EmptySet
  <2>4. 0 \in 0..n
    OBVIOUS
  <2> HIDE DEF U
  <2> QED
    BY <1>1, <2>1, <2>3, <2>4
<1>3. ASSUME NEW i \in 1..n, i - 1 \in T
      PROVE  i \in T
  <2>1. IsFiniteSet(PointSet(U(i-1))) /\ F[i-1] = PointsIn(U(i-1)) /\ i \in 0..n
    BY <1>3
  <2>2. \A k \in 1..i : k = i \/ k \in 1..i-1
    OBVIOUS
  <2>3. \A k \in 1..i-1 : k \in 1..i /\ k \in 1..n /\ k # i
    OBVIOUS
  <2>4. i \in 1..i
    OBVIOUS
  <2>5. CASE i \in J
    <3>1. U(i) = U(i-1) \cup {cs[i]}
      BY <2>2, <2>3, <2>4, <2>5 DEF ElementsAt
    <3>2. cs[i] \notin U(i-1)
      BY <2>3 DEF ElementsAt
    <3>3. PointsOf[cs[i]] \in Nat
      BY PointsAssumption
    <3>4. F[i] = F[i-1] + PointsOf[cs[i]]
      BY <1>1, <2>5
    <3> HIDE DEF U
    <3>5. /\ IsFiniteSet(PointSet(U(i-1) \cup {cs[i]}))
          /\ PointsIn(U(i-1) \cup {cs[i]}) = PointsIn(U(i-1)) + PointsOf[cs[i]]
      BY <2>1, <3>2, <3>3, PointsInMore
    <3> QED
      BY <2>1, <3>1, <3>4, <3>5
  <2>6. CASE i \notin J
    <3>1. U(i) = U(i-1)
      BY <2>2, <2>3, <2>6 DEF ElementsAt
    <3>2. F[i] = F[i-1]
      <4>1. F[i-1] \in Nat
        BY <1>1
      <4>2. F[i] = F[i-1] + 0
        BY <1>1, <2>6
      <4> QED
        BY <4>1, <4>2
    <3> HIDE DEF U
    <3> QED
      BY <2>1, <3>1, <3>2
  <2> QED
    BY <2>5, <2>6
<1> HIDE DEF T
<1>4. \A i \in 0..n : i \in T
  BY <1>2, <1>3, PrefixInduction
<1> QED
  BY <1>4 DEF T, F

(* The sum of the first i elements is what SumOf has reached by then. *)
LEMMA SumOfPrefix ==
  ASSUME NEW s \in Seq(Nat), NEW i \in 0..Len(s)
  PROVE  SumOf(SubSeq(s, 1, i)) = PrefixSums(s)[i]
<1> DEFINE t == SubSeq(s, 1, i)
           F == PrefixSums(s)
           G == PrefixSums(t)
           T == {j \in 0..i : G[j] = F[j]}
<1>1. t \in Seq(Nat) /\ Len(t) = i /\ \A j \in 1..i : t[j] = s[j]
  OBVIOUS
<1>2. F[0] = 0 /\ \A j \in 1..Len(s) : F[j] = F[j-1] + s[j]
  BY SumEquations
<1> HIDE DEF t
<1>3. G[0] = 0 /\ \A j \in 1..i : G[j] = G[j-1] + t[j]
  BY <1>1, SumEquations
<1> HIDE DEF F, G
<1>4. 0 \in T
  BY <1>2, <1>3
<1>5. ASSUME NEW j \in 1..i, j - 1 \in T
      PROVE  j \in T
  <2>1. G[j-1] = F[j-1] /\ j \in 0..i /\ j \in 1..Len(s)
    BY <1>5
  <2>2. G[j] = F[j]
    BY <1>1, <1>2, <1>3, <2>1
  <2> QED
    BY <2>1, <2>2
<1> HIDE DEF T
<1>6. \A j \in 0..i : j \in T
  <2>1. i \in Nat
    OBVIOUS
  <2> QED
    BY <1>4, <1>5, <2>1, PrefixInduction
<1>7. G[i] = F[i]
  BY <1>6 DEF T
<1> QED
  BY <1>1, <1>7 DEF SumOf, F, G, t

-----------------------------------------------------------------------------
(* Rows, ranking and graph. *)

(* As many elements as positions. *)
LEMMA ListsOnceCardinality ==
  ASSUME NEW S, NEW s, ListsOnce(s, S)
  PROVE  IsFiniteSet(S) /\ Cardinality(S) = Len(s)
<1> DEFINE n == Len(s)
           D == 1..n
<1>1. n \in Nat /\ s \in [D -> S]
  BY DEF ListsOnce
<1>2. IsFiniteSet(D) /\ Cardinality(D) = n
  BY <1>1, FS_Interval
<1>3. /\ \A i, j \in D : s[i] = s[j] => i = j
      /\ \A x \in S : \E i \in D : s[i] = x
  BY DEF ListsOnce
<1> HIDE DEF n, D
<1>4. s \in Bijection(D, S)
  BY <1>1, <1>3 DEF Bijection, Injection, Surjection, IsInjective
<1>5. ExistsBijection(D, S)
  BY <1>4 DEF ExistsBijection
<1> QED
  BY <1>2, <1>5, FS_Bijection DEF n

(* The list has each of its entries once. *)
LEMMA ListedFacts ==
  ASSUME NEW n \in 0..MaxEntries
  PROVE  /\ ListsOnce(Listed(n), 1..n)
         /\ 1..n \subseteq Entries
         /\ Listed(n) \in Seq(Entries)
<1>1. n \in Nat /\ 1..n \subseteq Entries
  BY ListAssumption DEF Entries
<1>2. /\ Listed(n) \in Seq(1..n) /\ Len(Listed(n)) = n
      /\ \A i \in 1..n : Listed(n)[i] = i
  BY <1>1 DEF Listed
<1>3. ListsOnce(Listed(n), 1..n)
  BY <1>2 DEF ListsOnce
<1>4. Listed(n) \in Seq(Entries)
  BY <1>1 DEF Listed
<1> QED
  BY <1>1, <1>3, <1>4

(* What a team has found, by entry. *)
ByEntry(found) == [c \in Entries |-> found[TagOf[c]]]

(* Dates by challenge give dates by entry. *)
LEMMA ByEntryFacts ==
  ASSUME NEW found \in [Tags -> Nat]
  PROVE  /\ ByEntry(found) \in [Entries -> Nat]
         /\ \A c \in Entries : ByEntry(found)[c] = found[TagOf[c]]
<1>1. \A c \in Entries : found[TagOf[c]] \in Nat
  BY DEF Tags
<1> QED
  BY <1>1 DEF ByEntry

(* The row of team t with the dates, when cs are the columns and S their   *)
(* challenges.                                                             *)
FoundIn(S, dates) == {c \in S : dates[c] # 0}
CellDates(cs, dates) == [j \in 1..Len(cs) |-> dates[cs[j]]]
CellPoints(cs) == [j \in 1..Len(cs) |-> PointsOf[cs[j]]]
IsRow(row, t, S, cs, dates) ==
    /\ S \subseteq Entries /\ ListsOnce(cs, S)
    /\ row = [id |-> t, tpoints |-> PointsIn(FoundIn(S, dates)),
              completions |-> CellDates(cs, dates), points |-> CellPoints(cs)]
    /\ PointsIn(FoundIn(S, dates)) \in Nat

(* A row has a cell for each column and the points of the team. *)
LEMMA RowFacts ==
  ASSUME NEW S, S \subseteq Entries, NEW cs, ListsOnce(cs, S),
         NEW cols, GetChallenges(cols) = cs,
         NEW t, NEW found \in [Tags -> Nat]
  PROVE  IsRow(TeamInfo(t, found, cols), t, S, cs, ByEntry(found))
<1> DEFINE n == Len(cs)
           dates == ByEntry(found)
           v == [j \in 1..n |-> IF dates[cs[j]] = 0 THEN 0 ELSE PointsOf[cs[j]]]
           J == {j \in 1..n : dates[cs[j]] # 0}
           r == TeamInfo(t, found, cols)
<1>0. dates \in [Entries -> Nat] /\ \A c \in Entries : dates[c] = found[TagOf[c]]
  BY ByEntryFacts
<1> HIDE DEF dates
<1>1. /\ n \in Nat /\ DOMAIN cs = 1..n
      /\ \A i \in 1..n : cs[i] \in S /\ cs[i] \in Entries
      /\ \A i, j \in 1..n : cs[i] = cs[j] => i = j
  BY DEF ListsOnce
<1>2. r = [id |-> t, tpoints |-> SumOf(v),
           completions |-> [j \in 1..n |-> dates[cs[j]]],
           points |-> [j \in 1..n |-> PointsOf[cs[j]]]]
  <2>1. \A j \in 1..n : found[TagOf[cs[j]]] = dates[cs[j]]
    BY <1>0, <1>1
  <2>2. [j \in 1..n |-> IF found[TagOf[cs[j]]] = 0 THEN 0 ELSE PointsOf[cs[j]]] = v
    BY <2>1
  <2>3. [j \in 1..n |-> found[TagOf[cs[j]]]] = [j \in 1..n |-> dates[cs[j]]]
    BY <2>1
  <2> HIDE DEF v, n
  <2> QED
    BY <1>1, <2>2, <2>3 DEF TeamInfo, n
<1>3. \A i \in 1..n : v[i] \in Nat
  BY <1>1, PointsAssumption
<1>4. v \in Seq(Nat) /\ Len(v) = n
  BY <1>1, <1>3
<1>5. \A i \in 1..n : v[i] = IF i \in J THEN PointsOf[cs[i]] ELSE 0
  OBVIOUS
<1>6. ElementsAt(cs, n, J) = FoundIn(S, dates)
  BY <1>1 DEF ListsOnce, ElementsAt, FoundIn
<1> HIDE DEF v, J, n, r
<1>7. SumOf(v) = PointsIn(FoundIn(S, dates)) /\ SumOf(v) \in Nat
  <2>0. CountsPoints(v, cs, n, J)
    BY <1>1, <1>4, <1>5 DEF CountsPoints
  <2>1. n \in 0..n
    BY <1>1
  <2>2. PrefixSums(v)[n] = PointsIn(ElementsAt(cs, n, J))
    BY <2>0, <2>1, SumFacts
  <2>3. PrefixSums(v)[n] \in Nat
    BY <1>4, <2>1, SumEquations
  <2> QED
    BY <1>4, <1>6, <2>2, <2>3 DEF SumOf
<1> QED
  BY <1>2, <1>7 DEF IsRow, CellDates, CellPoints, n, r, dates

(* rows has the row of each team once, more points first. *)
Ranking(rows, rowOf) ==
    /\ \A k \in DOMAIN rows : rows[k].id \in Teams /\ rows[k] = rowOf[rows[k].id]
    /\ \A k, l \in DOMAIN rows :
          k < l => rows[k].id # rows[l].id /\ rows[k].tpoints >= rows[l].tpoints
    /\ \A t \in Teams : \E k \in DOMAIN rows : rows[k].id = t

(* The sort of the pages ranks the rows, in whatever order they come.      *)
LEMMA RankFacts ==
  ASSUME NEW order \in SetToSeqs(Teams), NEW rowOf,
         \A t \in Teams : rowOf[t].id = t /\ rowOf[t].tpoints \in Nat
  PROVE  Ranking(ByScore([i \in DOMAIN order |-> rowOf[order[i]]]), rowOf)
<1> DEFINE n == Cardinality(Teams)
           D == 1..n
           rows == [i \in DOMAIN order |-> rowOf[order[i]]]
           key == [i \in DOMAIN rows |-> -rows[i].tpoints]
           p == Sorting(key)
           r == ByScore(rows)
<1>1. n \in Nat /\ IsFiniteSet(D) /\ Cardinality(D) = n
  <2>1. n \in Nat
    BY TeamsAssumption, FS_CardinalityType
  <2> QED
    BY <2>1, FS_Interval
<1>2. /\ order \in [D -> Teams]
      /\ \A i, j \in D : order[i] = order[j] => i = j
  BY DEF SetToSeqs
<1>3. \A t \in Teams : \E i \in D : order[i] = t
  <2> HIDE DEF D, n
  <2>1. order \in Injection(D, Teams)
    BY <1>2 DEF Injection, IsInjective
  <2>2. order \in Surjection(D, Teams)
    BY <1>1, <2>1, TeamsAssumption, FS_Injection DEF n
  <2> QED
    BY <2>2 DEF Surjection
<1>4. DOMAIN rows = D /\ \A i \in D : rows[i] = rowOf[order[i]]
  BY <1>2
<1>5. \A i \in D : /\ order[i] \in Teams /\ rows[i].id = order[i]
                   /\ rows[i].tpoints \in Nat
  BY <1>2, <1>4
<1> HIDE DEF rows
<1>6. key \in [D -> Int] /\ \A i \in D : key[i] = -rows[i].tpoints
  BY <1>4, <1>5
<1>7. r = [k \in D |-> rows[p[k]]]
  BY <1>4 DEF ByScore, StableSort
<1> HIDE DEF key, p, r
<1>8. IsSorting(p, n, key)
  BY <1>1, <1>6, SortingFacts DEF p
<1>9. \A k \in D : p[k] \in D /\ r[k] = rows[p[k]]
  BY <1>7, <1>8 DEF IsSorting
<1>10. \A k \in D : r[k].id = order[p[k]] /\ r[k].id \in Teams /\ r[k] = rowOf[r[k].id]
  BY <1>4, <1>5, <1>9
<1>11. ASSUME NEW k \in D, NEW l \in D, k < l
       PROVE  r[k].id # r[l].id /\ r[k].tpoints >= r[l].tpoints
  <2>1. p[k] # p[l]
    BY <1>1, <1>6, <1>8, <1>11, SortingOnce
  <2>2. key[p[k]] <= key[p[l]]
    <3>1. key[p[k]] \in Int /\ key[p[l]] \in Int
      BY <1>6, <1>9
    <3>2. key[p[k]] < key[p[l]] \/ key[p[k]] = key[p[l]]
      BY <1>8, <1>11 DEF IsSorting
    <3> QED
      BY <3>1, <3>2
  <2>3. r[k].id # r[l].id
    BY <1>2, <1>9, <1>10, <2>1
  <2>4. /\ key[p[k]] = -r[k].tpoints /\ key[p[l]] = -r[l].tpoints
        /\ r[k].tpoints \in Nat /\ r[l].tpoints \in Nat
    BY <1>5, <1>6, <1>9
  <2> QED
    BY <2>2, <2>3, <2>4
<1>12. ASSUME NEW t \in Teams
       PROVE  \E k \in D : r[k].id = t
  <2>1. PICK i \in D : order[i] = t
    BY <1>3
  <2>2. PICK k \in D : p[k] = i
    BY <1>8 DEF IsSorting
  <2> QED
    BY <1>10, <2>1, <2>2
<1>13. DOMAIN r = D
  BY <1>7
<1>14. Ranking(r, rowOf)
  BY <1>10, <1>11, <1>12, <1>13 DEF Ranking
<1> QED
  BY <1>14 DEF r, rows

(* x[j] is the last of its date. *)
LastOf(x, j) == \A k \in DOMAIN x : j < k => x[j] # x[k]

(* The line of a team: its flags by date, with the points up to each date. *)
LineOf(tr, t, S, dates) ==
    LET F == {c \in S : dates[c] # 0} IN
    /\ tr.name = t
    /\ tr.x \in Seq(Nat) /\ Len(tr.x) = Cardinality(F)
    /\ \A j, k \in DOMAIN tr.x : j < k => tr.x[j] <= tr.x[k]
    /\ \A j \in DOMAIN tr.x :
          LastOf(tr.x, j) => tr.y[j] = PointsIn({c \in F : dates[c] <= tr.x[j]})

(* The teams page draws it. *)
LEMMA LineFacts ==
  ASSUME NEW S, S \subseteq Entries, NEW cs, ListsOnce(cs, S),
         NEW dates \in [Entries -> Nat],
         NEW t, NEW tp
  PROVE  LineOf(Trace(SortSolvedData(
                  [id |-> t, tpoints |-> tp,
                   completions |-> [j \in 1..Len(cs) |-> dates[cs[j]]],
                   points |-> [j \in 1..Len(cs) |-> PointsOf[cs[j]]]])),
                t, S, dates)
<1> DEFINE n == Len(cs)
           D == 1..n
           key == [j \in D |-> dates[cs[j]]]
           pts == [j \in D |-> PointsOf[cs[j]]]
           row == [id |-> t, tpoints |-> tp, completions |-> key, points |-> pts]
           p == Sorting(key)
           sc == StableSort(cs, key)
           comp == [k \in D |-> dates[sc[k]]]
           spts == [k \in D |-> PointsOf[sc[k]]]
           row2 == SortSolvedData(row)
           I == {j \in D : comp[j] # 0}
           F == {c \in S : dates[c] # 0}
           h == Positions(n, I)[n]
           m == Len(h)
           d == Pick(sc, I)
           tr == Trace(row2)
<1>1. /\ n \in Nat /\ DOMAIN cs = D
      /\ \A i \in D : cs[i] \in S /\ cs[i] \in Entries
  BY DEF ListsOnce
<1>2. key \in [D -> Int] /\ \A i \in D : key[i] = dates[cs[i]]
  BY <1>1
<1>3. IsSorting(p, n, key) /\ \A k \in D : p[k] \in D
  <2>1. IsSorting(p, n, key)
    BY <1>1, <1>2, SortingFacts
  <2> QED
    BY <2>1 DEF IsSorting
<1>4. sc = [k \in D |-> cs[p[k]]] /\ ListsOnce(sc, S)
  BY <1>1, <1>2, SortListsOnce DEF StableSort
<1>5. row2.id = t /\ row2.completions = comp /\ row2.points = spts
  <2> DEFINE pairs == [j \in D |-> [date |-> key[j], points |-> pts[j]]]
             list == StableSort(pairs, key)
  <2> HIDE DEF key, pts, D
  <2>1. row2 = [row EXCEPT !.completions = [j \in DOMAIN list |-> list[j].date],
                           !.points = [j \in DOMAIN list |-> list[j].points]]
    <3>1. DOMAIN row.completions = D /\ row.completions = key /\ row.points = pts
      BY <1>2
    <3> QED
      BY <3>1 DEF SortSolvedData
  <2>2. list = [k \in D |-> [date |-> key[p[k]], points |-> pts[p[k]]]]
    BY <1>3 DEF StableSort
  <2>3. \A k \in D : key[p[k]] = comp[k] /\ pts[p[k]] = spts[k]
    BY <1>3, <1>4 DEF key, pts
  <2> HIDE DEF comp, spts, list
  <2>4. /\ [j \in DOMAIN list |-> list[j].date] = [j \in D |-> comp[j]]
        /\ [j \in DOMAIN list |-> list[j].points] = [j \in D |-> spts[j]]
    BY <2>2, <2>3
  <2>5. [j \in D |-> comp[j]] = comp /\ [j \in D |-> spts[j]] = spts
    BY DEF comp, spts
  <2> QED
    BY <2>1, <2>4, <2>5
<1>6. \A k \in D : sc[k] \in S /\ sc[k] \in Entries
  BY <1>1, <1>3, <1>4
<1>7. /\ comp \in Seq(Nat) /\ Len(comp) = n /\ DOMAIN comp = D
      /\ spts \in Seq(Nat) /\ Len(spts) = n
  <2>1. \A k \in D : comp[k] \in Nat /\ spts[k] \in Nat
    BY <1>6, PointsAssumption
  <2> QED
    BY <1>1, <2>1
<1>8. tr.name = t /\ tr.x = Pick(comp, I) /\ tr.y = CumulativeSum(Pick(spts, I))
  <2> HIDE DEF row2, comp, spts
  <2>1. Found(row2) = I
    BY <1>5, <1>7 DEF Found
  <2> QED
    BY <1>5, <2>1 DEF Trace
<1>9. /\ \A k \in D : /\ comp[k] = dates[sc[k]] /\ spts[k] = PointsOf[sc[k]]
                     /\ key[p[k]] = comp[k] /\ (k \in I <=> comp[k] # 0)
      /\ \A c : c \in F <=> c \in S /\ dates[c] # 0
      /\ sc \in Seq(S) /\ Len(sc) = n
  <2>1. ASSUME NEW k \in D
        PROVE  /\ comp[k] = dates[sc[k]] /\ spts[k] = PointsOf[sc[k]]
               /\ key[p[k]] = comp[k] /\ (k \in I <=> comp[k] # 0)
    BY <1>3, <1>4
  <2>2. sc \in Seq(S) /\ Len(sc) = n
    <3>1. DOMAIN sc = 1..n
      BY <1>4
    <3> HIDE DEF sc, n
    <3> QED
      BY <1>1, <1>4, <3>1 DEF ListsOnce
  <2> QED
    BY <2>1, <2>2
<1> DEFINE xs == Pick(comp, I)
           ps == Pick(spts, I)
<1> HIDE DEF key, pts, row, p, sc, comp, spts, row2, I, F, h, m, d, tr, xs, ps
<1>10. Enumerates(h, n, I) /\ m \in Nat
  <2>1. Enumerates(h, n, I)
    BY <1>1, PositionsFacts DEF h
  <2>2. h \in Seq(1..n)
    BY <2>1 DEF Enumerates
  <2> HIDE DEF n
  <2> QED
    BY <2>1, <2>2 DEF m
<1>11. ListsOnce(d, F)
  <2> DEFINE R == {sc[i] : i \in {j \in 1..Len(sc) : j \in I}}
  <2>1. ListsOnce(d, R)
    <3>1. ListsOnce(Pick(sc, I), R)
      <4> HIDE DEF D, n
      <4> QED
        BY <1>4, PickListsOnce
    <3> HIDE DEF R
    <3> QED
      BY <3>1 DEF d
  <2>2. ASSUME NEW c \in S, dates[c] # 0
        PROVE  \E i \in D : i \in I /\ sc[i] = c
    <3>0. PICK i \in 1..Len(sc) : sc[i] = c
      BY <1>4 DEF ListsOnce
    <3>1. i \in D /\ sc[i] = c
      BY <1>9, <3>0
    <3> QED
      BY <1>9, <2>2, <3>1
  <2>3. R = F
    <3>1. Len(sc) = n
      BY <1>9
    <3>2. ASSUME NEW x \in R
          PROVE  x \in F
      <4>1. PICK i \in D : i \in I /\ x = sc[i]
        BY <3>1
      <4> QED
        BY <1>6, <1>9, <4>1
    <3>3. ASSUME NEW x \in F
          PROVE  x \in R
      <4>1. x \in S /\ dates[x] # 0
        BY <1>9
      <4>2. PICK i \in D : i \in I /\ sc[i] = x
        BY <2>2, <4>1
      <4> QED
        BY <3>1, <4>2
    <3> QED
      BY <3>2, <3>3
  <2> QED
    BY <2>1, <2>3
<1>12. /\ Len(d) = m /\ \A k \in 1..m : d[k] = sc[h[k]]
       /\ xs \in Seq(Nat) /\ Len(xs) = m /\ \A k \in 1..m : xs[k] = comp[h[k]]
       /\ ps \in Seq(Nat) /\ Len(ps) = m /\ \A k \in 1..m : ps[k] = spts[h[k]]
  <2>1. n \in 0..n
    BY <1>1
  <2> HIDE DEF n
  <2>2. Takes(d, sc, h)
    BY <1>1, <1>9, <2>1, PickFacts DEF Pick, d, h
  <2>3. xs \in Seq(Nat) /\ Takes(xs, comp, h)
    BY <1>1, <1>7, <2>1, PickFacts DEF Pick, xs, h
  <2>4. ps \in Seq(Nat) /\ Takes(ps, spts, h)
    BY <1>1, <1>7, <2>1, PickFacts DEF Pick, ps, h
  <2> QED
    BY <2>2, <2>3, <2>4 DEF Takes, m
<1>13. ASSUME NEW k \in 1..m
       PROVE  /\ xs[k] = dates[d[k]] /\ ps[k] = PointsOf[d[k]]
              /\ d[k] \in F /\ d[k] \in Entries /\ xs[k] # 0 /\ xs[k] \in Nat
  <2>1. h[k] \in D
    <3>1. h \in Seq(D)
      BY <1>10 DEF Enumerates
    <3> HIDE DEF D
    <3> QED
      BY <3>1 DEF m
  <2>2. d[k] \in F
    BY <1>11, <1>12 DEF ListsOnce
  <2>3. d[k] \in Entries /\ dates[d[k]] \in Nat /\ dates[d[k]] # 0
    BY <1>9, <2>2
  <2>4. xs[k] = dates[d[k]] /\ ps[k] = PointsOf[d[k]]
    <3>1. PICK i \in D : i = h[k]
      BY <2>1
    <3>2. d[k] = sc[i] /\ xs[k] = comp[i] /\ ps[k] = spts[i]
      BY <1>12, <3>1
    <3>3. comp[i] = dates[sc[i]] /\ spts[i] = PointsOf[sc[i]]
      BY <1>9
    <3> QED
      BY <3>2, <3>3
  <2> QED
    BY <2>2, <2>3, <2>4
<1>14. ASSUME NEW j \in 1..m, NEW k \in 1..m, j < k
       PROVE  xs[j] <= xs[k]
  <2>1. h[j] < h[k]
    BY <1>10, <1>14 DEF Enumerates, m
  <2>2. h[j] \in D /\ h[k] \in D
    <3>1. h \in Seq(D)
      BY <1>10 DEF Enumerates
    <3> HIDE DEF D
    <3> QED
      BY <3>1 DEF m
  <2>3. key[p[h[j]]] = xs[j] /\ key[p[h[k]]] = xs[k]
    BY <1>9, <1>12, <2>2
  <2>4. xs[j] < xs[k] \/ xs[j] = xs[k]
    <3>1. key[p[h[j]]] < key[p[h[k]]] \/ key[p[h[j]]] = key[p[h[k]]]
      BY <1>3, <2>1, <2>2 DEF IsSorting
    <3> QED
      BY <2>3, <3>1
  <2>5. xs[j] \in Nat /\ xs[k] \in Nat
    BY <1>13
  <2> QED
    BY <2>4, <2>5
<1>15. ASSUME NEW k \in 1..m, \A l \in 1..m : k < l => xs[k] # xs[l]
       PROVE  tr.y[k] = PointsIn({c \in F : dates[c] <= xs[k]})
  <2>1. CountsPoints(ps, d, m, 1..m)
    BY <1>10, <1>11, <1>12, <1>13 DEF CountsPoints, ListsOnce
  <2>2. PrefixSums(ps)[k] = PointsIn(ElementsAt(d, k, 1..m))
    <3>1. k \in 0..m
      BY <1>10
    <3> QED
      BY <2>1, <3>1, SumFacts
  <2>3. tr.y[k] = PrefixSums(ps)[k]
    <3>1. DOMAIN ps = 1..m /\ k \in 0..Len(ps)
      BY <1>10, <1>12
    <3>2. tr.y[k] = SumOf(SubSeq(ps, 1, k))
      BY <1>8, <3>1 DEF CumulativeSum, ps
    <3> QED
      BY <1>12, <3>1, <3>2, SumOfPrefix
  <2>4. ElementsAt(d, k, 1..m) = {c \in F : dates[c] <= xs[k]}
    <3>1. ASSUME NEW c \in ElementsAt(d, k, 1..m)
          PROVE  c \in F /\ dates[c] <= xs[k]
      <4>1. PICK j \in 1..k : j \in 1..m /\ c = d[j]
        BY DEF ElementsAt
      <4>2. j = k \/ j < k
        BY <1>10
      <4>3. xs[j] <= xs[k]
        BY <1>13, <1>14, <4>1, <4>2
      <4> QED
        BY <1>13, <4>1, <4>3
    <3>2. ASSUME NEW c \in F, dates[c] <= xs[k]
          PROVE  c \in ElementsAt(d, k, 1..m)
      <4>1. PICK j \in 1..m : d[j] = c
        BY <1>11, <1>12 DEF ListsOnce
      <4>2. xs[j] <= xs[k] /\ xs[j] \in Nat /\ xs[k] \in Nat
        BY <1>13, <3>2, <4>1
      <4>3. ~(k < j)
        BY <1>14, <1>15, <4>2
      <4>4. j \in 1..k
        BY <1>10, <4>3
      <4> QED
        BY <4>1, <4>4 DEF ElementsAt
    <3> QED
      BY <3>1, <3>2
  <2> QED
    BY <2>2, <2>3, <2>4
<1>16. tr.x = xs
  BY <1>8 DEF xs
<1>17. DOMAIN xs = 1..m /\ Len(xs) = Cardinality(F)
  <2>1. Cardinality(F) = Len(d)
    BY <1>11, ListsOnceCardinality
  <2> QED
    BY <1>12, <2>1
<1>18. \A k \in 1..m : LastOf(xs, k) => tr.y[k] = PointsIn({c \in F : dates[c] <= xs[k]})
  BY <1>15, <1>17 DEF LastOf
<1>19. LineOf(tr, t, S, dates)
  BY <1>8, <1>12, <1>14, <1>16, <1>17, <1>18 DEF LineOf, F
<1> QED
  BY <1>19 DEF tr, row2, row, key, pts

-----------------------------------------------------------------------------
(* The groups of the challenges page. *)

(* Nothing is picked as long as no position is in I. *)
LEMMA PickNone ==
  ASSUME NEW X, NEW s \in Seq(X), NEW I, NEW i \in 0..Len(s),
         \A j \in 1..i : j \notin I
  PROVE  PickPrefixes(s, I)[i] = <<>>
<1> DEFINE n == Len(s)
           h == Positions(n, I)[i]
           q == PickPrefixes(s, I)[i]
<1>1. n \in Nat /\ i \in 0..n
  OBVIOUS
<1>2. Enumerates(h, i, I)
  BY <1>1, PositionsFacts
<1>3. q \in Seq(X) /\ Takes(q, s, h)
  BY <1>1, PickFacts
<1> HIDE DEF n, h, q
<1>4. Len(h) \in Nat /\ \A k \in 1..Len(h) : h[k] \in 1..i /\ h[k] \in I
  <2> DEFINE D == 1..i
  <2>1. h \in Seq(D)
    BY <1>2 DEF Enumerates
  <2> HIDE DEF D
  <2>2. Len(h) \in Nat /\ \A k \in 1..Len(h) : h[k] \in D
    BY <2>1
  <2> QED
    BY <1>2, <2>2 DEF Enumerates, D
<1>5. Len(h) = 0
  <2> SUFFICES ASSUME Len(h) # 0 PROVE FALSE
    OBVIOUS
  <2>1. 1 \in 1..Len(h)
    BY <1>4
  <2> QED
    BY <1>4, <2>1
<1>6. Len(q) = 0
  BY <1>3, <1>5 DEF Takes
<1>7. q = <<>>
  BY <1>3, <1>6
<1> QED
  BY <1>7 DEF q

(* Groups with the first i challenges of each category that was met. *)
GroupsAt(list, i) ==
    LET cats == CategoryPrefixes(list)[i] IN
    [k \in 1..Len(cats) |->
       [category |-> cats[k],
        chals |-> PickPrefixes(list, OfCategory(list, cats[k]))[i]]]

(* One round of sortChallenges. *)
LEMMA GroupsAtStep ==
  ASSUME NEW list \in Seq(Entries), NEW i \in 1..Len(list)
  PROVE  AddToGroup(GroupsAt(list, i - 1), list[i]) = GroupsAt(list, i)
<1> DEFINE n == Len(list)
           c == list[i]
           cat == CategoryOf[c]
           C == CategoryPrefixes(list)
           old == C[i-1]
           m == Len(old)
           Q(a) == PickPrefixes(list, OfCategory(list, a))
           gs == GroupsAt(list, i - 1)
<1>1. n \in Nat /\ i \in 1..n /\ i - 1 \in 0..n /\ DOMAIN list = 1..n
  OBVIOUS
<1>2. \A j \in 1..n : list[j] \in Entries /\ CategoryOf[list[j]] \in Categories
  <2>1. \A j \in 1..n : list[j] \in Entries
    OBVIOUS
  <2> QED
    BY <2>1 DEF Categories
<1>3. C[i] = IF Contains(old, cat) THEN old ELSE Append(old, cat)
  BY <1>1, <1>2, CategoryEquations
<1>4. CategoriesMet(old, list, i - 1)
  BY <1>1, CategoryFacts
<1>5. ASSUME NEW a
      PROVE  /\ Q(a)[i-1] \in Seq(Entries)
             /\ Q(a)[i] = IF cat = a THEN Append(Q(a)[i-1], c) ELSE Q(a)[i-1]
  <2>1. i \in OfCategory(list, a) <=> cat = a
    BY <1>1 DEF OfCategory
  <2> DEFINE I == OfCategory(list, a)
             P == PickPrefixes(list, I)
  <2> HIDE DEF I
  <2>2. /\ P \in [0..n -> Seq(Entries)]
        /\ \A j \in 1..n : P[j] = IF j \in I THEN Append(P[j-1], list[j]) ELSE P[j-1]
    BY PickEquations
  <2> HIDE DEF P
  <2>3. /\ P[i-1] \in Seq(Entries)
        /\ P[i] = IF i \in I THEN Append(P[i-1], c) ELSE P[i-1]
    BY <1>1, <2>2
  <2> QED
    BY <2>1, <2>3 DEF I, P
<1>6. gs = [k \in 1..m |-> [category |-> old[k], chals |-> Q(old[k])[i-1]]]
  BY DEF GroupsAt
<1>7. old \in Seq(Categories) /\ m \in Nat /\ DOMAIN gs = 1..m
  BY <1>4, <1>6 DEF CategoriesMet
<1> HIDE DEF n, c, cat, C, old, m, Q, gs
<1>8. \A k \in 1..m : gs[k].category = old[k] /\ gs[k].chals = Q(old[k])[i-1]
  BY <1>6
<1>9. CASE Contains(old, cat)
  <2>1. \E k \in 1..m : old[k] = cat
    BY <1>9 DEF Contains, m
  <2>2. AddToGroup(gs, c) =
          [k \in 1..m |->
             IF gs[k].category = cat
             THEN [category |-> gs[k].category, chals |-> Append(gs[k].chals, c)]
             ELSE gs[k]]
    BY <1>7, <1>8, <2>1 DEF AddToGroup, cat
  <2>3. ASSUME NEW k \in 1..m
        PROVE  (IF gs[k].category = cat
                THEN [category |-> gs[k].category, chals |-> Append(gs[k].chals, c)]
                ELSE gs[k])
               = [category |-> old[k], chals |-> Q(old[k])[i]]
    BY <1>5, <1>6, <1>8
  <2>4. AddToGroup(gs, c) = [k \in 1..m |-> [category |-> old[k], chals |-> Q(old[k])[i]]]
    BY <2>2, <2>3
  <2>5. C[i] = old
    BY <1>3, <1>9
  <2> QED
    BY <2>4, <2>5 DEF GroupsAt, C, Q, m, gs, c
<1>10. CASE ~Contains(old, cat)
  <2> DEFINE new == Append(old, cat)
             g == [category |-> cat, chals |-> <<c>>]
             N(k) == [category |-> new[k], chals |-> Q(new[k])[i]]
  <2>1. \A k \in 1..m : old[k] # cat
    BY <1>10 DEF Contains, m
  <2>2. AddToGroup(gs, c) = Append(gs, g)
    BY <1>7, <1>8, <2>1 DEF AddToGroup, cat
  <2>3. Append(gs, g) = [k \in 1..m+1 |-> IF k = m + 1 THEN g ELSE gs[k]]
    <3> DEFINE Z == Range(gs) \cup {g}
    <3> HIDE DEF g
    <3>1. gs \in [1..m -> Z]
      BY <1>6 DEF Range
    <3> HIDE DEF Z
    <3>2. gs \in Seq(Z) /\ Len(gs) = m
      BY <1>7, <3>1
    <3> DEFINE r == Append(gs, g)
    <3>3. g \in Z
      BY DEF Z
    <3>4. r \in Seq(Z) /\ Len(r) = m + 1 /\ r[m+1] = g /\ \A k \in 1..m : r[k] = gs[k]
      BY <1>7, <3>2, <3>3
    <3> HIDE DEF r
    <3>5. \A k \in 1..m+1 : r[k] = IF k = m + 1 THEN g ELSE gs[k]
      BY <1>7, <3>4
    <3>6. r = [k \in 1..m+1 |-> IF k = m + 1 THEN g ELSE gs[k]]
      BY <3>4, <3>5
    <3> QED
      BY <3>6 DEF r
  <2>4. /\ Len(new) = m + 1 /\ new[m+1] = cat
        /\ \A k \in 1..m : new[k] = old[k]
    BY <1>7 DEF m
  <2>5. Q(cat)[i] = <<c>>
    <3>1. \A j \in 1..i-1 : j \notin OfCategory(list, cat)
      <4> SUFFICES ASSUME NEW j \in 1..i-1 PROVE CategoryOf[list[j]] # cat
        BY DEF OfCategory
      <4>1. PICK k \in 1..Len(old) : old[k] = CategoryOf[list[j]]
        BY <1>4 DEF CategoriesMet
      <4> QED
        BY <2>1, <4>1 DEF m
    <3>2. Q(cat)[i-1] = <<>>
      BY <1>1, <3>1, PickNone DEF Q, n
    <3>3. Append(<<>>, c) = <<c>>
      OBVIOUS
    <3> QED
      BY <1>5, <3>2, <3>3
  <2> HIDE DEF new
  <2>6. ASSUME NEW k \in 1..m+1
        PROVE  (IF k = m + 1 THEN g ELSE gs[k]) = N(k)
    <3>1. CASE k = m + 1
      BY <2>4, <2>5, <3>1
    <3>2. CASE k # m + 1
      <4>1. k \in 1..m
        BY <1>7, <3>2
      <4>2. Q(old[k])[i] = Q(old[k])[i-1]
        BY <1>5, <2>1, <4>1
      <4> QED
        BY <1>6, <2>4, <3>2, <4>1, <4>2
    <3> QED
      BY <3>1, <3>2
  <2>7. AddToGroup(gs, c) = [k \in 1..m+1 |-> N(k)]
    <3> HIDE DEF g, N
    <3> QED
      BY <2>2, <2>3, <2>6
  <2>8. C[i] = new
    BY <1>3, <1>10 DEF new
  <2> QED
    BY <2>4, <2>7, <2>8 DEF GroupsAt, C, Q, gs, c
<1> QED
  BY <1>9, <1>10

(* The page makes of any list of challenges the groups the server makes.   *)
LEMMA GroupsFacts ==
  ASSUME NEW list \in Seq(Entries)
  PROVE  SortChallenges(list) = Columns(list)
<1> DEFINE n == Len(list)
           G == GroupPrefixes(list)
           T == {i \in 0..n : G[i] = GroupsAt(list, i)}
           cats == CategoryPrefixes(list)[n]
<1>1. n \in Nat /\ n \in 0..n
  OBVIOUS
<1>2. \A j \in 1..n : CategoryOf[list[j]] \in Categories
  <2>1. \A j \in 1..n : list[j] \in Entries
    OBVIOUS
  <2> QED
    BY <2>1 DEF Categories
<1>3. G[0] = <<>> /\ \A i \in 1..n : G[i] = AddToGroup(G[i-1], list[i])
  BY <1>2, GroupEquations
<1>4. CategoryPrefixes(list)[0] = <<>>
  BY <1>2, CategoryEquations
<1>5. cats \in Seq(Categories)
  BY <1>1, CategoryFacts DEF CategoriesMet
<1> HIDE DEF G, n
<1>6. 0 \in T
  <2>1. GroupsAt(list, 0) = <<>>
    BY <1>4 DEF GroupsAt
  <2> QED
    BY <1>1, <1>3, <2>1
<1>7. ASSUME NEW i \in 1..n, i - 1 \in T
      PROVE  i \in T
  <2>1. G[i-1] = GroupsAt(list, i - 1)
    BY <1>7
  <2>2. G[i] = GroupsAt(list, i)
    BY <1>3, <2>1, GroupsAtStep DEF n
  <2> QED
    BY <1>1, <2>2
<1> HIDE DEF T
<1>8. G[n] = GroupsAt(list, n)
  <2>1. \A i \in 0..n : i \in T
    BY <1>1, <1>6, <1>7, PrefixInduction
  <2> QED
    BY <1>1, <2>1 DEF T
<1>9. G[n] = [k \in 1..Len(cats) |->
                [category |-> cats[k], chals |-> Pick(list, OfCategory(list, cats[k]))]]
  BY <1>8 DEF GroupsAt, Pick, n
<1> HIDE DEF cats
<1>10. SortChallenges(list) =
         [k \in 1..Len(cats) |->
            [category |-> cats[k], chals |-> ByPoints(Pick(list, OfCategory(list, cats[k])))]]
  BY <1>9 DEF SortChallenges, G, n
<1>11. DOMAIN cats = 1..Len(cats)
  BY <1>5
<1> QED
  BY <1>10, <1>11 DEF Columns, GetChallengeCategories, cats, n

-----------------------------------------------------------------------------
(* The window. *)

(* The rows the pages make for the teams. *)
RowOf(dates, n) == [t \in Teams |-> TeamInfo(t, dates[t], Columns(Listed(n)))]
SortedRowOf(dates, n) == [t \in Teams |-> SortSolvedData(RowOf(dates, n)[t])]

(* Dates are numbers, 0 for none. *)
Dates == [Teams -> [Tags -> Nat]]

Dated ==
    /\ clock \in Nat /\ solvedAt \in Dates
    /\ size \in 0..MaxEntries

Seen == seen.size \in 0..MaxEntries /\ seen.dates \in Dates

(* The pages show what they make of the dates and challenges seen. *)
ShowsScoreboard ==
    page = "scoreboard" =>
        \/ teams = <<>>
        \/ /\ challenges = Columns(Listed(seen.size))
           /\ Ranking(teams, RowOf(seen.dates, seen.size))
ShowsTeams ==
    page = "teams" =>
        \/ teams = <<>>
        \/ /\ Ranking(teams, SortedRowOf(seen.dates, seen.size))
           /\ \A k \in DOMAIN teams : Trace(teams[k]) \in traces
ShowsChallenges ==
    page = "challenges" => teams = <<>> /\ groups = Columns(Listed(seen.size))

TablesInv ==
    /\ page \in {"scoreboard", "teams", "challenges"}
    /\ Dated /\ Seen /\ ShowsScoreboard /\ ShowsTeams /\ ShowsChallenges

(* Rows have their team, the points of its challenges, and their cells in  *)
(* the order of the columns.                                               *)
LEMMA RowOfFacts ==
  ASSUME NEW n \in 0..MaxEntries, NEW dates \in Dates,
         NEW t \in Teams
  PROVE  IsRow(RowOf(dates, n)[t], t, 1..n,
               GetChallenges(Columns(Listed(n))), ByEntry(dates[t]))
<1> DEFINE S == 1..n
           cols == Columns(Listed(n))
           cs == GetChallenges(cols)
           d == dates[t]
           r == RowOf(dates, n)[t]
<1>1. S \subseteq Entries /\ ListsOnce(Listed(n), S)
  BY ListedFacts
<1>2. ListsOnce(cs, S)
  BY <1>1, HeaderFacts
<1>3. d \in [Tags -> Nat]
  BY DEF Dates
<1>4. r = TeamInfo(t, d, cols)
  BY DEF RowOf
<1>5. GetChallenges(cols) = cs
  OBVIOUS
<1> HIDE DEF S, cols, cs, d, r
<1>6. IsRow(TeamInfo(t, d, cols), t, S, cs, ByEntry(d))
  BY <1>1, <1>2, <1>3, <1>5, RowFacts
<1>7. IsRow(r, t, S, cs, ByEntry(d))
  BY <1>4, <1>6
<1> QED
  BY <1>7 DEF r, S, cs, cols, d

(* The fields of a row. *)
LEMMA RowFields ==
  ASSUME NEW row, NEW t, NEW S, NEW cs, NEW dates, IsRow(row, t, S, cs, dates)
  PROVE  /\ row.id = t /\ row.tpoints \in Nat
         /\ row.tpoints = PointsIn(FoundIn(S, dates))
         /\ row.completions = CellDates(cs, dates)
         /\ SortSolvedData(row).id = t
         /\ SortSolvedData(row).tpoints = row.tpoints
<1>1. PICK tp, co, po :
        /\ row = [id |-> t, tpoints |-> tp, completions |-> co, points |-> po]
        /\ tp = PointsIn(FoundIn(S, dates)) /\ tp \in Nat
        /\ co = CellDates(cs, dates)
  BY DEF IsRow
<1> QED
  BY <1>1 DEF SortSolvedData

(* The scoreboard ranks the rows of the message. *)
LEMMA RankedRows ==
  ASSUME NEW n \in 0..MaxEntries, NEW dates \in Dates,
         NEW order \in SetToSeqs(Teams)
  PROVE  Ranking(ByScore(Rows(order, dates, Columns(Listed(n)))), RowOf(dates, n))
<1> DEFINE rowOf == RowOf(dates, n)
<1>1. \A i \in DOMAIN order : order[i] \in Teams
  BY DEF SetToSeqs
<1>2. Rows(order, dates, Columns(Listed(n))) = [i \in DOMAIN order |-> rowOf[order[i]]]
  BY <1>1 DEF Rows, RowOf
<1>3. ASSUME NEW t \in Teams
      PROVE  rowOf[t].id = t /\ rowOf[t].tpoints \in Nat
  BY RowOfFacts, RowFields
<1> HIDE DEF rowOf
<1>4. Ranking(ByScore([i \in DOMAIN order |-> rowOf[order[i]]]), rowOf)
  BY <1>3, RankFacts
<1> QED
  BY <1>2, <1>4 DEF rowOf

(* Sorting the cells of each row leaves the ranking. *)
LEMMA SortedRows ==
  ASSUME NEW n \in 0..MaxEntries, NEW dates \in Dates,
         NEW rows, Ranking(rows, RowOf(dates, n))
  PROVE  Ranking([i \in DOMAIN rows |-> SortSolvedData(rows[i])], SortedRowOf(dates, n))
<1> DEFINE rowOf == RowOf(dates, n)
           s == [i \in DOMAIN rows |-> SortSolvedData(rows[i])]
<1>1. ASSUME NEW t \in Teams
      PROVE  /\ rowOf[t].id = t /\ SortSolvedData(rowOf[t]).id = t
             /\ SortSolvedData(rowOf[t]).tpoints = rowOf[t].tpoints
  <2>1. PICK S, cs, d : IsRow(rowOf[t], t, S, cs, d)
    BY RowOfFacts
  <2> HIDE DEF rowOf
  <2> QED
    BY <2>1, RowFields
<1>2. \A k \in DOMAIN rows : rows[k].id \in Teams /\ rows[k] = rowOf[rows[k].id]
  BY DEF Ranking
<1>3. \A k \in DOMAIN rows : s[k].id = rows[k].id /\ s[k].tpoints = rows[k].tpoints
  BY <1>1, <1>2
<1>4. \A k \in DOMAIN rows : s[k] = SortedRowOf(dates, n)[rows[k].id]
  BY <1>2 DEF SortedRowOf
<1>5. DOMAIN s = DOMAIN rows
  OBVIOUS
<1> HIDE DEF s, rowOf
<1>6. Ranking(s, SortedRowOf(dates, n))
  BY <1>2, <1>3, <1>4, <1>5 DEF Ranking
<1> QED
  BY <1>6 DEF s

(* An open page shows nothing. *)
LEMMA TablesInvInit == Init => TablesInv
<1> SUFFICES ASSUME Init PROVE TablesInv
  OBVIOUS
<1>1. solvedAt \in Dates
  BY DEF Init, Dates
<1>2. MaxEntries \in Nat
  BY ListAssumption
<1>3. Dated /\ Seen
  BY <1>1, <1>2 DEF Init, Dated, Seen, Entries
<1>4. Columns(Listed(0)) = <<>>
  <2>1. PICK e : e = Listed(0)
    OBVIOUS
  <2>2. e \in Seq(Entries) /\ Len(e) = 0 /\ e = <<>>
    BY <2>1 DEF Listed
  <2>3. \A i \in 1..Len(e) : CategoryOf[e[i]] \in Categories
    BY <2>2
  <2>4. CategoryPrefixes(e)[0] = <<>>
    BY <2>2, <2>3, CategoryEquations
  <2>5. GetChallengeCategories(e) = <<>>
    BY <2>2, <2>4 DEF GetChallengeCategories
  <2>6. Columns(e) = [i \in DOMAIN <<>> |->
                        [category |-> <<>>[i],
                         chals |-> ByPoints(Pick(e, OfCategory(e, <<>>[i])))]]
    BY <2>5 DEF Columns
  <2> QED
    BY <2>1, <2>6
<1>5. ShowsScoreboard /\ ShowsTeams
  BY DEF Init, ShowsScoreboard, ShowsTeams
<1>6. ShowsChallenges
  BY <1>4 DEF Init, ShowsChallenges
<1> QED
  BY <1>3, <1>5, <1>6 DEF Init, TablesInv

(* A flag gets a date. *)
LEMMA SolveDated ==
  ASSUME Dated, NEW t \in Teams, NEW tag \in Tags, Solve(t, tag)
  PROVE  Dated'
<1>1. clock \in Nat /\ solvedAt \in [Teams -> [Tags -> Nat]]
  BY DEF Dated, Dates
<1>2. /\ clock' \in {clock, clock + 1} /\ size' = size
      /\ solvedAt' = [solvedAt EXCEPT ![t][tag] = clock']
  BY DEF Solve
<1>3. clock' \in Nat
  BY <1>1, <1>2
<1>4. solvedAt' \in [Teams -> [Tags -> Nat]]
  BY <1>1, <1>2, <1>3
<1> QED
  BY <1>2, <1>3, <1>4 DEF Dated, Dates

(* Every step keeps the invariant. *)
LEMMA TablesInvStep ==
  ASSUME TablesInv, [Next]_vars
  PROVE  TablesInv'
<1>1. /\ page \in {"scoreboard", "teams", "challenges"}
      /\ Dated /\ Seen /\ ShowsScoreboard /\ ShowsTeams /\ ShowsChallenges
  BY DEF TablesInv
<1>2. size \in 0..MaxEntries /\ solvedAt \in Dates
  BY <1>1 DEF Dated
<1>3. ASSUME NEW t \in Teams, NEW tag \in Tags, Solve(t, tag)
      PROVE  TablesInv'
  <2>1. Dated'
    BY <1>1, <1>3, SolveDated
  <2>2. UNCHANGED <<page, challenges, teams, traces, groups, seen>>
    BY <1>3 DEF Solve, viewVars
  <2>3. Seen' /\ ShowsScoreboard' /\ ShowsTeams' /\ ShowsChallenges'
    BY <1>1, <2>2 DEF Seen, ShowsScoreboard, ShowsTeams, ShowsChallenges
  <2> QED
    BY <1>1, <2>1, <2>2, <2>3 DEF TablesInv
<1>4. CASE AddChallenges
  <2>1. UNCHANGED <<clock, solvedAt, page, challenges, teams, traces, groups, seen>>
    BY <1>4 DEF AddChallenges, viewVars
  <2>2. size' \in 0..MaxEntries
    BY <1>2, <1>4, ListAssumption DEF AddChallenges
  <2>4. Dated' /\ Seen'
    BY <1>1, <2>1, <2>2 DEF Dated, Seen
  <2>5. ShowsScoreboard' /\ ShowsTeams' /\ ShowsChallenges'
    BY <1>1, <2>1 DEF ShowsScoreboard, ShowsTeams, ShowsChallenges
  <2> QED
    BY <1>1, <2>1, <2>4, <2>5 DEF TablesInv
<1>5. ASSUME NEW order \in SetToSeqs(Teams), ReceiveScoreboard(order)
      PROVE  TablesInv'
  <2>1. /\ page = "scoreboard" /\ page' = page /\ seen' = Now
        /\ UNCHANGED <<clock, solvedAt, size>>
        /\ challenges' = Columns(Listed(size))
        /\ teams' = ByScore(Rows(order, solvedAt, Columns(Listed(size))))
    BY <1>5 DEF ReceiveScoreboard
  <2>2. seen'.dates = solvedAt /\ Dated' /\ Seen' /\ seen'.size = size
    BY <1>1, <2>1 DEF Now, Dated, Seen
  <2>3. Ranking(teams', RowOf(solvedAt, size))
    BY <1>2, <2>1, RankedRows
  <2>4. ShowsScoreboard' /\ ShowsTeams' /\ ShowsChallenges'
    BY <2>1, <2>2, <2>3 DEF ShowsScoreboard, ShowsTeams, ShowsChallenges
  <2> QED
    BY <1>1, <2>1, <2>2, <2>4 DEF TablesInv
<1>6. ASSUME NEW order \in SetToSeqs(Teams), ReceiveTeams(order)
      PROVE  TablesInv'
  <2> DEFINE rows == ByScore(Rows(order, solvedAt, Columns(Listed(size))))
             sorted == [i \in DOMAIN rows |-> SortSolvedData(rows[i])]
  <2>1. /\ page = "teams" /\ page' = page /\ seen' = Now
        /\ UNCHANGED <<clock, solvedAt, size>>
        /\ teams' = sorted
        /\ traces' = traces \cup {Trace(sorted[i]) : i \in DOMAIN sorted}
    BY <1>6 DEF ReceiveTeams
  <2>2. seen'.dates = solvedAt /\ Dated' /\ Seen' /\ seen'.size = size
    BY <1>1, <2>1 DEF Now, Dated, Seen
  <2>3. Ranking(rows, RowOf(solvedAt, size))
    BY <1>2, RankedRows
  <2>4. Ranking(sorted, SortedRowOf(solvedAt, size))
    <3> HIDE DEF rows
    <3> QED
      BY <1>2, <2>3, SortedRows
  <2> HIDE DEF sorted
  <2>5. \A k \in DOMAIN teams' : Trace(teams'[k]) \in traces'
    BY <2>1
  <2>6. ShowsScoreboard' /\ ShowsTeams' /\ ShowsChallenges'
    BY <2>1, <2>2, <2>4, <2>5 DEF ShowsScoreboard, ShowsTeams, ShowsChallenges
  <2> QED
    BY <1>1, <2>1, <2>2, <2>6 DEF TablesInv
<1>7. CASE ReceiveChallenges
  <2>1. /\ page = "challenges" /\ page' = page /\ seen' = Now /\ teams' = teams
        /\ UNCHANGED <<clock, solvedAt, size>>
        /\ groups' = SortChallenges(Listed(size))
    BY <1>7 DEF ReceiveChallenges
  <2>2. Dated' /\ Seen' /\ seen'.size = size
    BY <1>1, <2>1 DEF Now, Dated, Seen
  <2>3. Listed(size) \in Seq(Entries)
    BY <1>2, ListedFacts
  <2>4. groups' = Columns(Listed(size))
    BY <2>1, <2>3, GroupsFacts
  <2>5. ShowsScoreboard' /\ ShowsTeams' /\ ShowsChallenges'
    BY <1>1, <2>1, <2>2, <2>4 DEF ShowsScoreboard, ShowsTeams, ShowsChallenges
  <2> QED
    BY <1>1, <2>1, <2>2, <2>5 DEF TablesInv
<1>8. CASE UNCHANGED vars
  <2>1. UNCHANGED <<clock, solvedAt, size, page, challenges, teams, traces, groups, seen>>
    BY <1>8 DEF vars
  <2> QED
    BY <1>1, <2>1
    DEF TablesInv, Dated, Seen, ShowsScoreboard, ShowsTeams, ShowsChallenges
<1> QED
  BY <1>3, <1>4, <1>5, <1>6, <1>7, <1>8 DEF Next

(* What the window shows is always what its page makes of one message. *)
THEOREM TablesInvariant == Spec => []TablesInv
<1>1. TablesInv /\ [Next]_vars => TablesInv'
  BY TablesInvStep
<1> QED
  BY <1>1, TablesInvInit, PTL DEF Spec

-----------------------------------------------------------------------------
(* The properties. *)

(* The entries solved are those with a date in the message. *)
LEMMA SolvedSeen ==
  ASSUME TablesInv, NEW t \in Teams
  PROVE  /\ Solved(t) = FoundIn(1..seen.size, ByEntry(seen.dates[t]))
         /\ \A c \in Solved(t) : DateOf(t, c) = ByEntry(seen.dates[t])[c]
<1>1. seen.size \in 0..MaxEntries
  BY DEF TablesInv, Seen
<1>2. 1..seen.size \subseteq Entries
  BY <1>1, ListedFacts
<1>3. \A c \in 1..seen.size : ByEntry(seen.dates[t])[c] = DateOf(t, c)
  BY <1>2 DEF ByEntry, DateOf
<1> QED
  BY <1>3 DEF Solved, FoundIn

(* The row a page has for a team. *)
LEMMA RowSeen ==
  ASSUME TablesInv, NEW t \in Teams
  PROVE  IsRow(RowOf(seen.dates, seen.size)[t], t, 1..seen.size,
               GetChallenges(Columns(Listed(seen.size))), ByEntry(seen.dates[t]))
<1>1. PICK n, dates : n = seen.size /\ dates = seen.dates
  OBVIOUS
<1>2. n \in 0..MaxEntries /\ dates \in Dates
  BY <1>1 DEF TablesInv, Seen
<1>3. IsRow(RowOf(dates, n)[t], t, 1..n,
            GetChallenges(Columns(Listed(n))), ByEntry(dates[t]))
  BY <1>2, RowOfFacts
<1> QED
  BY <1>1, <1>3

(* The ranking a page shows is by the points of the challenges solved. *)
LEMMA ShownRanking ==
  ASSUME TablesInv
  PROVE  \/ teams = <<>>
         \/ Ranking(teams, RowOf(seen.dates, seen.size)) /\ page = "scoreboard"
         \/ Ranking(teams, SortedRowOf(seen.dates, seen.size)) /\ page = "teams"
BY DEF TablesInv, ShowsScoreboard, ShowsTeams, ShowsChallenges

(* The j-th cell of a row of the scoreboard is about the entry of the      *)
(* j-th column, for all lists of challenges, categories and points: the    *)
(* server builds the cells along the columns it sends.                     *)
THEOREM AlignedColumns == Spec => []ColumnsAligned
<1>1. TablesInv => ColumnsAligned
  <2> SUFFICES ASSUME TablesInv, page = "scoreboard", NEW i \in DOMAIN teams
               PROVE  Cells(teams[i]) =
                        [j \in DOMAIN Header(challenges) |->
                           Header(challenges)[j] \in Solved(teams[i].id)]
    BY DEF ColumnsAligned
  <2>1. /\ challenges = Columns(Listed(seen.size))
        /\ Ranking(teams, RowOf(seen.dates, seen.size))
    BY DEF TablesInv, ShowsScoreboard
  <2>2. PICK t \in Teams : t = teams[i].id /\ teams[i] = RowOf(seen.dates, seen.size)[t]
    BY <2>1 DEF Ranking
  <2> DEFINE S == 1..seen.size
             cs == GetChallenges(Columns(Listed(seen.size)))
             d == ByEntry(seen.dates[t])
  <2>3. Header(challenges) = cs
    BY <2>1 DEF Header
  <2>4. IsRow(teams[i], t, S, cs, d)
    BY <2>2, RowSeen
  <2>5. Solved(t) = {c \in S : d[c] # 0}
    BY SolvedSeen DEF FoundIn
  <2> HIDE DEF S, cs, d
  <2>6. teams[i].completions = CellDates(cs, d)
    BY <2>4, RowFields
  <2>7. DOMAIN cs = 1..Len(cs) /\ \A j \in 1..Len(cs) : cs[j] \in S
    BY <2>4 DEF IsRow, ListsOnce
  <2>8. Cells(teams[i]) = [j \in 1..Len(cs) |-> d[cs[j]] # 0]
    BY <2>6 DEF Cells, CellDates
  <2>9. \A j \in 1..Len(cs) : (d[cs[j]] # 0) = (cs[j] \in Solved(t))
    BY <2>5, <2>7
  <2> QED
    BY <2>2, <2>3, <2>7, <2>8, <2>9
<1> QED
  BY <1>1, TablesInvariant, PTL

(* Scoreboard and teams page list every team once, by the points of the    *)
(* entries it has solved, in whatever order GetTeams ranges over its map,  *)
(* also when challenges were added twice.                                  *)
THEOREM RankingByScore == Spec => []RankedByScore
<1>1. TablesInv => RankedByScore
  <2> SUFFICES ASSUME TablesInv PROVE RankedByScore
    OBVIOUS
  <2>1. CASE teams = <<>>
    BY <2>1 DEF RankedByScore
  <2>2. CASE teams # <<>>
    <3>1. ASSUME NEW t \in Teams
          PROVE  /\ RowOf(seen.dates, seen.size)[t].tpoints = Score(t)
                 /\ SortedRowOf(seen.dates, seen.size)[t].tpoints = Score(t)
      <4> DEFINE S == 1..seen.size
                 cs == GetChallenges(Columns(Listed(seen.size)))
                 d == ByEntry(seen.dates[t])
                 r == RowOf(seen.dates, seen.size)[t]
      <4>1. IsRow(r, t, S, cs, d)
        BY RowSeen
      <4>2. Score(t) = PointsIn(FoundIn(S, d))
        BY SolvedSeen DEF Score
      <4>3. SortedRowOf(seen.dates, seen.size)[t] = SortSolvedData(r)
        BY DEF SortedRowOf
      <4> HIDE DEF S, cs, d, r
      <4>4. r.tpoints = Score(t) /\ SortSolvedData(r).tpoints = Score(t)
        BY <4>1, <4>2, RowFields
      <4> QED
        BY <4>3, <4>4 DEF r
    <3>2. PICK rowOf : Ranking(teams, rowOf) /\ \A t \in Teams : rowOf[t].tpoints = Score(t)
      BY <2>2, <3>1, ShownRanking
    <3>3. \A i \in DOMAIN teams :
            teams[i].id \in Teams /\ teams[i].tpoints = Score(teams[i].id)
      BY <3>2 DEF Ranking
    <3>4. \A i, j \in DOMAIN teams :
            i < j => /\ teams[i].id # teams[j].id
                     /\ Score(teams[i].id) >= Score(teams[j].id)
      BY <3>2, <3>3 DEF Ranking
    <3>5. {teams[i].id : i \in DOMAIN teams} = Teams
      BY <3>2 DEF Ranking
    <3> QED
      BY <3>4, <3>5 DEF RankedByScore
  <2> QED
    BY <2>1, <2>2
<1> QED
  BY <1>1, TablesInvariant, PTL

(* Every team listed on the teams page has a line in the graph that goes   *)
(* forward in time and is, at the end of each date, at the points of the   *)
(* entries solved so far: sortSolvedData moves dates and points together, and the  *)
(* flags not found, which the sort brings to the front, are left out.      *)
THEOREM GraphAtScore == Spec => []GraphEndsAtScore
<1>1. TablesInv => GraphEndsAtScore
  <2> SUFFICES ASSUME TablesInv, page = "teams", NEW i \in DOMAIN teams
               PROVE  \E tr \in traces :
                        /\ tr.name = teams[i].id
                        /\ Len(tr.x) = Cardinality(Solved(tr.name))
                        /\ \A j, k \in DOMAIN tr.x : j < k => tr.x[j] <= tr.x[k]
                        /\ \A j \in DOMAIN tr.x :
                              LastOf(tr.x, j)
                                => tr.y[j] = PointsIn({c \in Solved(tr.name) :
                                                         DateOf(tr.name, c) <= tr.x[j]})
    BY DEF GraphEndsAtScore, LastOf
  <2>1. Ranking(teams, SortedRowOf(seen.dates, seen.size)) /\ Trace(teams[i]) \in traces
    BY DEF TablesInv, ShowsTeams
  <2>2. PICK t \in Teams : /\ t = teams[i].id
                           /\ teams[i] = SortSolvedData(RowOf(seen.dates, seen.size)[t])
    BY <2>1 DEF Ranking, SortedRowOf
  <2> DEFINE S == 1..seen.size
             cs == GetChallenges(Columns(Listed(seen.size)))
             d == ByEntry(seen.dates[t])
             r == RowOf(seen.dates, seen.size)[t]
             tr == Trace(teams[i])
  <2>3. IsRow(r, t, S, cs, d)
    BY RowSeen
  <2>4. Solved(t) = {c \in S : d[c] # 0} /\ \A c \in Solved(t) : d[c] = DateOf(t, c)
    BY SolvedSeen DEF FoundIn
  <2>5. d \in [Entries -> Nat]
    <3>1. seen.dates[t] \in [Tags -> Nat]
      BY DEF TablesInv, Seen, Dates
    <3> QED
      BY <3>1, ByEntryFacts
  <2>6. tr = Trace(SortSolvedData(r)) /\ tr \in traces
    BY <2>1, <2>2
  <2> HIDE DEF S, cs, d, r, tr
  <2>7. LineOf(tr, t, S, d)
    <3>1. PICK tp :
            r = [id |-> t, tpoints |-> tp,
                 completions |-> [j \in 1..Len(cs) |-> d[cs[j]]],
                 points |-> [j \in 1..Len(cs) |-> PointsOf[cs[j]]]]
      BY <2>3 DEF IsRow, CellDates, CellPoints
    <3>2. S \subseteq Entries /\ ListsOnce(cs, S)
      BY <2>3 DEF IsRow
    <3> QED
      BY <2>5, <2>6, <3>1, <3>2, LineFacts
  <2>8. /\ tr.name = t /\ Len(tr.x) = Cardinality(Solved(t))
        /\ \A j, k \in DOMAIN tr.x : j < k => tr.x[j] <= tr.x[k]
        /\ \A j \in DOMAIN tr.x :
              LastOf(tr.x, j) => tr.y[j] = PointsIn({c \in Solved(t) : d[c] <= tr.x[j]})
    BY <2>4, <2>7 DEF LineOf
  <2>9. ASSUME NEW j \in DOMAIN tr.x
        PROVE  {c \in Solved(t) : d[c] <= tr.x[j]} =
                 {c \in Solved(t) : DateOf(t, c) <= tr.x[j]}
    BY <2>4
  <2>10. \A j \in DOMAIN tr.x :
           LastOf(tr.x, j) => tr.y[j] = PointsIn({c \in Solved(t) : DateOf(t, c) <= tr.x[j]})
    BY <2>8, <2>9
  <2> QED
    BY <2>2, <2>6, <2>8, <2>10
<1> QED
  BY <1>1, TablesInvariant, PTL

(* The groups of the challenges page, which the page sorts, are the groups *)
(* of columns of the scoreboard, which the server sorts.                   *)
THEOREM AgreeingGroups == Spec => []GroupsAgree
<1>1. TablesInv => GroupsAgree
  BY DEF TablesInv, ShowsChallenges, GroupsAgree
<1> QED
  BY <1>1, TablesInvariant, PTL

=============================================================================
