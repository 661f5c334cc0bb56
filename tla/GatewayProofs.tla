---------------------------- MODULE GatewayProofs ----------------------------
(***************************************************************************)
(* Proofs that what the client tells is what the gateway did and charged   *)
(* (GatewayIsTold of ClientParts), for every value of the constants.       *)
(*                                                                         *)
(* The parts share no state, so each has an invariant of its own:          *)
(* receipts, private models, sandpits and deployments, in this order. What *)
(* is recursive is reasoned about by the least counterexample: the levels  *)
(* of a tree are numbered, and a sum over a set is that over a smaller one *)
(* and an element.                                                         *)
(***************************************************************************)
EXTENDS ClientPartsProofs

\* A step is one of a part's, or leaves the part alone.
LEMMA GatewaySteps ==
    ASSUME [Next]_vars
    PROVE  /\ [Provision!ProvisionNext]_provisionVars
           /\ [Sandpit!SandpitNext]_sandpitsVars
           /\ [Model!ModelNext]_modelsVars
           /\ [Receipts!ReceiptNext]_receiptsVars
<1>1. CASE UNCHANGED vars
  BY <1>1 DEF vars
<1>2. CASE Next
  BY <1>2 DEF Next, Rest
<1> QED
  BY <1>1, <1>2

\* The cardinality that the modules mean is that of the theorems.
LEMMA CardinalityIs ==
    ASSUME NEW S
    PROVE  Receipts!Cardinality(S) = Cardinality(S) /\ Model!Cardinality(S) = Cardinality(S)
BY DEF Receipts!Cardinality, Model!Cardinality, Cardinality

-----------------------------------------------------------------------------
(***************************************************************************)
(* The receipts: a root is the top of a tree of levels.                    *)
(***************************************************************************)

\* f are the first N levels of the tree over the leaves.
AreLevels(f, leaves, N) ==
    f = [h \in 0..N |-> IF h = 0 THEN leaves ELSE Receipts!NextLevel(f[h - 1])]

\* There are as many levels as are asked for.
LEMMA LevelsExist ==
    ASSUME NEW leaves, NEW N \in Nat
    PROVE  \E f : AreLevels(f, leaves, N)
<1> DEFINE Bad == {n \in Nat : ~ \E f : AreLevels(f, leaves, n)}
<1>1. SUFFICES ASSUME Bad # {}
               PROVE  FALSE
  OBVIOUS
<1>2. PICK m \in Bad : \A n \in Bad : m <= n
  BY <1>1, LeastNumber, Zenon
<1>3. m \in Nat /\ ~ \E f : AreLevels(f, leaves, m)
  BY <1>2
<1>4. CASE m = 0
  <2> DEFINE g == [h \in 0..0 |-> leaves]
  <2>1. 0..0 = {0}
    OBVIOUS
  <2>2. AreLevels(g, leaves, 0)
    BY <2>1 DEF AreLevels
  <2> QED
    BY <1>3, <1>4, <2>2
<1>5. CASE m # 0
  <2>1. m - 1 \in Nat /\ m - 1 \notin Bad
    <3> HIDE DEF Bad
    <3> QED
      BY <1>2, <1>3, <1>5
  <2>2. PICK f : AreLevels(f, leaves, m - 1)
    BY <2>1
  <2> DEFINE g == [h \in 0..m |-> IF h = m THEN Receipts!NextLevel(f[m - 1]) ELSE f[h]]
  <2>3. \A h \in 0..(m - 1) : f[h] = IF h = 0 THEN leaves ELSE Receipts!NextLevel(f[h - 1])
    BY <2>2 DEF AreLevels
  <2>4. \A h \in 0..m : g[h] = IF h = 0 THEN leaves ELSE Receipts!NextLevel(g[h - 1])
    <3>1. \A h \in 0..(m - 1) : g[h] = f[h] /\ h \in 0..m
      BY <1>3, <1>5, <2>1
    <3>2. g[m] = Receipts!NextLevel(f[m - 1])
      BY <1>3
    <3>3. m - 1 \in 0..(m - 1)
      BY <1>3, <1>5, <2>1
    <3> HIDE DEF g
    <3>4. ASSUME NEW h \in 0..m
          PROVE  g[h] = IF h = 0 THEN leaves ELSE Receipts!NextLevel(g[h - 1])
      <4>1. CASE h = m
        BY <1>5, <3>1, <3>2, <3>3, <4>1
      <4>2. CASE h # m
        <5>1. h \in 0..(m - 1) /\ (h # 0 => h - 1 \in 0..(m - 1))
          BY <1>3, <4>2
        <5> QED
          BY <2>3, <3>1, <5>1
      <4> QED
        BY <4>1, <4>2
    <3> QED
      BY <3>4
  <2>5. AreLevels(g, leaves, m)
    <3>1. g = [h \in 0..m |-> g[h]]
      OBVIOUS
    <3> HIDE DEF g
    <3> QED
      BY <2>4, <3>1 DEF AreLevels
  <2> QED
    BY <1>3, <2>5
<1> QED
  BY <1>4, <1>5

LEMMA LevelsAre ==
    ASSUME NEW S, Cardinality(S) \in Nat
    PROVE  AreLevels(Receipts!Levels(S), Receipts!SetToSeq(S), Cardinality(S))
<1> DEFINE f == CHOOSE level : level = [h \in 0..Receipts!Cardinality(S) |->
                                        IF h = 0 THEN Receipts!SetToSeq(S)
                                        ELSE Receipts!NextLevel(level[h - 1])]
<1>1. Receipts!Cardinality(S) = Cardinality(S)
  BY CardinalityIs
<1>2. PICK g : AreLevels(g, Receipts!SetToSeq(S), Receipts!Cardinality(S))
  BY <1>1, LevelsExist
<1>3. Receipts!Levels(S) = f
  BY DEF Receipts!Levels
<1>4. AreLevels(f, Receipts!SetToSeq(S), Receipts!Cardinality(S))
  BY <1>2 DEF AreLevels
<1> QED
  BY <1>1, <1>3, <1>4

\* A row of hashes, of any kind, and what is in it.
In(row) == {row[i] : i \in DOMAIN row}
IsRow(row) == row \in Seq(In(row)) /\ Len(row) # 0

LEMMA RowIs ==
    ASSUME NEW row, NEW n \in Nat \ {0}, DOMAIN row = 1..n, row = [k \in 1..n |-> row[k]]
    PROVE  IsRow(row) /\ Len(row) = n
<1>1. \A k \in 1..n : row[k] \in In(row)
  BY DEF In
<1>2. row \in [1..n -> In(row)]
  BY <1>1
<1>3. row \in Seq(In(row))
  BY <1>2, SeqBuilt
<1> QED
  BY <1>2, <1>3, LenProperties DEF IsRow

\* A level has half the hashes of the one below, and is made of nothing else.
LEMMA LevelAbove ==
    ASSUME NEW row, IsRow(row), NEW next, next = Receipts!NextLevel(row)
    PROVE  /\ IsRow(next)
           /\ Len(row) > 1 => Len(next) < Len(row)
           /\ Len(row) = 1 => Len(next) = 1
           /\ \A x \in In(row) : \E a, b \in In(row) :
                  Receipts!Hashed(a, b) \in In(next) /\ x \in {a, b}
           /\ \A y \in In(next) : \E a, b \in In(row) : y = Receipts!Hashed(a, b)
<1> DEFINE n == Len(row)
           m == (n + 1) \div 2
           second(k) == IF 2 * k <= n THEN row[2 * k] ELSE row[2 * k - 1]
<1>1. n \in Nat \ {0} /\ DOMAIN row = 1..n
  BY LenProperties DEF IsRow
<1>2. m \in Nat \ {0} /\ 2 * m <= n + 1 /\ n <= 2 * m
  BY <1>1
<1>3. next = [k \in 1..m |-> Receipts!Hashed(row[2 * k - 1], second(k))]
  BY DEF Receipts!NextLevel
<1>4. \A k \in 1..m : row[2 * k - 1] \in In(row) /\ second(k) \in In(row)
  <2> SUFFICES ASSUME NEW k \in 1..m
               PROVE  row[2 * k - 1] \in In(row) /\ second(k) \in In(row)
    OBVIOUS
  <2>1. 2 * k - 1 \in DOMAIN row /\ (2 * k <= n => 2 * k \in DOMAIN row)
    <3> HIDE DEF n, m
    <3> QED
      BY <1>1, <1>2
  <2> QED
    BY <2>1 DEF In
<1>5. \A i \in 1..n : \E k \in 1..m : row[i] \in {row[2 * k - 1], second(k)}
  <2> SUFFICES ASSUME NEW i \in 1..n
               PROVE  \E k \in 1..m : row[i] \in {row[2 * k - 1], second(k)}
    OBVIOUS
  <2> HIDE DEF n, m
  <2>1. PICK k \in 1..m : i = 2 * k - 1 \/ i = 2 * k
    <3>1. (i + 1) \div 2 \in 1..m /\ (i = 2 * ((i + 1) \div 2) - 1 \/ i = 2 * ((i + 1) \div 2))
      BY <1>1, <1>2
    <3> QED
      BY <3>1
  <2> QED
    BY <2>1
<1> HIDE DEF n, m, second
<1>6. DOMAIN next = 1..m /\ \A k \in 1..m : next[k] = Receipts!Hashed(row[2 * k - 1], second(k))
  BY <1>3
<1>7. next = [k \in 1..m |-> next[k]]
  BY <1>3, <1>6
<1>8. IsRow(next) /\ Len(next) = m
  BY <1>2, <1>6, <1>7, RowIs
<1>9. (n > 1 => m < n) /\ (n = 1 => m = 1)
  BY <1>1, <1>2
<1>10. ASSUME NEW x \in In(row)
       PROVE  \E a, b \in In(row) : Receipts!Hashed(a, b) \in In(next) /\ x \in {a, b}
  <2>1. PICK i \in 1..n : x = row[i]
    BY <1>1 DEF In
  <2>2. PICK k \in 1..m : x \in {row[2 * k - 1], second(k)}
    BY <1>5, <2>1
  <2>3. Receipts!Hashed(row[2 * k - 1], second(k)) \in In(next)
    BY <1>6 DEF In
  <2> QED
    BY <1>4, <2>2, <2>3
<1>11. ASSUME NEW y \in In(next)
       PROVE  \E a, b \in In(row) : y = Receipts!Hashed(a, b)
  BY <1>4, <1>6 DEF In
<1> QED
  BY <1>8, <1>9, <1>10, <1>11 DEF n

\* The leaves are in a row.
LEMMA LeavesAre ==
    ASSUME NEW S, IsFiniteSet(S), S # {}
    PROVE  /\ Cardinality(S) \in Nat \ {0}
           /\ IsRow(Receipts!SetToSeq(S)) /\ Len(Receipts!SetToSeq(S)) = Cardinality(S)
           /\ In(Receipts!SetToSeq(S)) = S
<1> DEFINE n == Cardinality(S)
           row == Receipts!SetToSeq(S)
<1>1. n \in Nat \ {0} /\ ExistsBijection(1..n, S)
  BY FS_CardinalityType, FS_EmptySet
<1>2. PICK f \in Bijection(1..n, S) : TRUE
  BY <1>1 DEF ExistsBijection
<1>3. f \in [1..n -> S] /\ \A a, b \in DOMAIN f : f[a] = f[b] => a = b
  BY <1>2 DEF Bijection, Injection, IsInjective
<1>4. row \in [1..n -> S] /\ \A a, b \in DOMAIN row : row[a] = row[b] => a = b
  <2> DEFINE Fits(g) == \A a, b \in DOMAIN g : g[a] = g[b] => a = b
  <2>1. n = Receipts!Cardinality(S)
    BY CardinalityIs
  <2>2. row = CHOOSE g \in [1..Receipts!Cardinality(S) -> S] : Fits(g)
    BY DEF Receipts!SetToSeq, Receipts!IsInjective
  <2>3. \E g \in [1..Receipts!Cardinality(S) -> S] : Fits(g)
    BY <1>3, <2>1
  <2>4. row \in [1..Receipts!Cardinality(S) -> S] /\ Fits(row)
    <3> HIDE DEF Fits, row
    <3> QED
      BY <2>2, <2>3
  <2> QED
    BY <2>1, <2>4
<1>5. IsFiniteSet(1..n) /\ Cardinality(1..n) = n
  BY <1>1, FS_Interval
<1> HIDE DEF n, row
<1>6. row \in Injection(1..n, S)
  BY <1>4 DEF Injection, IsInjective
<1>7. row \in Surjection(1..n, S)
  BY <1>5, <1>6, FS_Injection DEF n
<1>8. In(row) = S
  BY <1>4, <1>7 DEF Surjection, In
<1>9. IsRow(row) /\ Len(row) = n
  BY <1>1, <1>4, RowIs
<1> QED
  BY <1>1, <1>8, <1>9 DEF n, row

\* Every level is a row, and has one hash less than the one below as long as it has several.
LEMMA LevelsShrink ==
    ASSUME NEW S, IsFiniteSet(S), S # {}
    PROVE  \A h \in 0..Cardinality(S) :
               /\ IsRow(Receipts!Levels(S)[h])
               /\ Len(Receipts!Levels(S)[h]) > 1 => Len(Receipts!Levels(S)[h]) <= Cardinality(S) - h
<1> DEFINE n == Cardinality(S)
           t == Receipts!Levels(S)
           OK(h) == IsRow(t[h]) /\ (Len(t[h]) > 1 => Len(t[h]) <= n - h)
           Bad == {h \in 0..n : ~OK(h)}
<1>1. n \in Nat \ {0} /\ \A h \in 0..n : t[h] = IF h = 0 THEN Receipts!SetToSeq(S) ELSE Receipts!NextLevel(t[h - 1])
  BY LeavesAre, LevelsAre DEF AreLevels
<1>2. OK(0)
  BY <1>1, LeavesAre
<1>3. SUFFICES ASSUME Bad # {}
               PROVE  FALSE
  OBVIOUS
<1>4. PICK h \in Bad : \A g \in Bad : h <= g
  <2>1. Bad \in SUBSET Nat
    BY <1>1
  <2> HIDE DEF Bad
  <2> QED
    BY <1>3, <2>1, LeastNumber
<1>5. h \in 0..n /\ ~OK(h) /\ h # 0
  BY <1>2, <1>4
<1> HIDE DEF OK, n, t
<1>6. h - 1 \in 0..n /\ h - 1 \notin Bad
  <2>1. h - 1 \in 0..n /\ ~(h <= h - 1)
    BY <1>1, <1>5
  <2> QED
    BY <1>4, <2>1
<1>7. OK(h - 1)
  BY <1>6
<1>8. t[h] = Receipts!NextLevel(t[h - 1])
  BY <1>1, <1>5
<1>9. /\ IsRow(t[h - 1]) /\ IsRow(t[h]) /\ Len(t[h - 1]) \in Nat /\ Len(t[h]) \in Nat /\ Len(t[h - 1]) # 0
      /\ Len(t[h - 1]) > 1 => Len(t[h]) < Len(t[h - 1])
      /\ Len(t[h - 1]) = 1 => Len(t[h]) = 1
      /\ Len(t[h - 1]) > 1 => Len(t[h - 1]) <= n - (h - 1)
  <2>1. IsRow(t[h - 1]) /\ (Len(t[h - 1]) > 1 => Len(t[h - 1]) <= n - (h - 1))
    BY <1>7 DEF OK
  <2>2. IsRow(t[h]) /\ (Len(t[h - 1]) > 1 => Len(t[h]) < Len(t[h - 1])) /\ (Len(t[h - 1]) = 1 => Len(t[h]) = 1)
    BY <1>8, <2>1, LevelAbove
  <2>3. Len(t[h - 1]) \in Nat /\ Len(t[h]) \in Nat /\ Len(t[h - 1]) # 0
    BY <2>1, <2>2, LenProperties DEF IsRow
  <2> QED
    BY <2>1, <2>2, <2>3
<1>10. OK(h)
  <2> DEFINE a == Len(t[h - 1])
             b == Len(t[h])
  <2>1. /\ a \in Nat /\ b \in Nat /\ a # 0 /\ (a > 1 => b < a) /\ (a = 1 => b = 1)
        /\ a > 1 => a <= n - (h - 1)
    BY <1>9
  <2>2. n \in Nat /\ h \in Nat
    BY <1>1, <1>5
  <2> HIDE DEF a, b
  <2>3. b > 1 => b <= n - h
    BY <2>1, <2>2
  <2> QED
    BY <1>9, <2>3 DEF OK, b
<1> QED
  BY <1>5, <1>10

\* So there is a level of one hash, and the root is all of it.
LEMMA TopIs ==
    ASSUME NEW S, IsFiniteSet(S), S # {}
    PROVE  /\ Receipts!Height(S) \in 0..Cardinality(S)
           /\ In(Receipts!Levels(S)[Receipts!Height(S)]) = {Receipts!MerkleRoot(S)}
<1> DEFINE n == Cardinality(S)
           t == Receipts!Levels(S)
           Single == {h \in 0..n : Len(t[h]) = 1}
<1>1. n \in Nat \ {0} /\ \A h \in 0..n : IsRow(t[h]) /\ (Len(t[h]) > 1 => Len(t[h]) <= n - h)
  BY LeavesAre, LevelsShrink
<1>2. Single # {} /\ Single \in SUBSET Nat
  <2>1. n \in 0..n /\ IsRow(t[n]) /\ (Len(t[n]) > 1 => Len(t[n]) <= 0)
    BY <1>1
  <2>2. Len(t[n]) \in Nat \ {0}
    BY <2>1, LenProperties DEF IsRow
  <2>3. Len(t[n]) = 1
    <3> DEFINE x == Len(t[n])
    <3>1. x \in Nat \ {0} /\ (x > 1 => x <= 0)
      BY <2>1, <2>2
    <3> HIDE DEF x
    <3>2. x = 1
      BY <3>1
    <3> QED
      BY <3>2 DEF x
  <2> QED
    BY <1>1, <2>1, <2>3
<1> HIDE DEF Single
<1>3. PICK h \in Single : \A g \in Single : h <= g
  BY <1>2, LeastNumber
<1>4. h \in 0..n /\ Len(t[h]) = 1
  BY <1>3 DEF Single
<1>5. \A g \in 0..(h - 1) : Len(t[g]) # 1
  <2>1. \A g \in 0..(h - 1) : g \in 0..n /\ ~(h <= g)
    <3> HIDE DEF n
    <3> QED
      BY <1>1, <1>4
  <2> QED
    BY <1>3, <2>1 DEF Single
<1>6. \E k \in 0..n : Len(t[k]) = 1 /\ \A g \in 0..(k - 1) : Len(t[g]) # 1
  BY <1>4, <1>5
<1>7. Receipts!Height(S) \in 0..n /\ Len(t[Receipts!Height(S)]) = 1
  <2> DEFINE OK(k) == Len(t[k]) = 1 /\ \A g \in 0..(k - 1) : Len(t[g]) # 1
           N == Receipts!Cardinality(S)
  <2>1. Receipts!Height(S) = CHOOSE j \in 0..N : OK(j)
    BY DEF Receipts!Height
  <2>2. N = n /\ \E k \in 0..N : OK(k)
    BY <1>6, CardinalityIs
  <2>3. Receipts!Height(S) \in 0..n /\ OK(Receipts!Height(S))
    <3> HIDE DEF OK, N, n
    <3> QED
      BY <2>1, <2>2
  <2> QED
    BY <2>3
<1> DEFINE top == t[Receipts!Height(S)]
<1>8. IsRow(top) /\ Len(top) = 1
  BY <1>1, <1>7
<1>9. Receipts!MerkleRoot(S) = top[1]
  BY DEF Receipts!MerkleRoot
<1>10. DOMAIN top = 1..1 /\ 1..1 = {1}
  <2> HIDE DEF top
  <2> QED
    BY <1>8, LenProperties DEF IsRow
<1> QED
  BY <1>7, <1>9, <1>10 DEF In

\* What is in the level above tells what is in a level.
LEMMA LevelTells ==
    ASSUME NEW r, IsRow(r), NEW s, IsRow(s),
           In(Receipts!NextLevel(r)) \subseteq In(Receipts!NextLevel(s))
    PROVE  In(r) \subseteq In(s)
<1> SUFFICES ASSUME NEW x \in In(r)
             PROVE  x \in In(s)
  OBVIOUS
<1>1. PICK a, b \in In(r) : Receipts!Hashed(a, b) \in In(Receipts!NextLevel(r)) /\ x \in {a, b}
  BY LevelAbove
<1>2. Receipts!Hashed(a, b) \in In(Receipts!NextLevel(s))
  BY <1>1
<1>3. PICK c, d \in In(s) : Receipts!Hashed(a, b) = Receipts!Hashed(c, d)
  BY <1>2, LevelAbove
<1>4. a = c /\ b = d
  BY <1>3 DEF Receipts!Hashed
<1> QED
  BY <1>1, <1>3, <1>4

\* A leaf holds a text; a hash of two does not.
Text == Seq(Nat \cup Amounts \cup STRING \cup {Receipts!Bar})
IsLeaf(x) == \E c \in Text : c # <<>> /\ x = [leaf |-> c]

LEMMA LeafIsNoNode ==
    ASSUME NEW x, IsLeaf(x), NEW a, NEW b
    PROVE  x # Receipts!Hashed(a, b) /\ x # Receipts!NoRoot /\ Receipts!NoRoot # Receipts!Hashed(a, b)
<1>1. PICK c \in Text : c # <<>> /\ x = [leaf |-> c]
  BY DEF IsLeaf
<1>2. x.leaf = c /\ Receipts!NoRoot.leaf = <<>>
  BY <1>1 DEF Receipts!NoRoot
<1>3. DOMAIN x = {"leaf"} /\ DOMAIN Receipts!NoRoot = {"leaf"}
  BY <1>1 DEF Receipts!NoRoot
<1>4. DOMAIN Receipts!Hashed(a, b) = {"left", "right"}
  BY DEF Receipts!Hashed
<1> QED
  BY <1>1, <1>2, <1>3, <1>4

\* What is known of the levels.
LEMMA LevelsGrow ==
    ASSUME NEW S, IsFiniteSet(S), S # {}
    PROVE  /\ Receipts!Levels(S)[0] = Receipts!SetToSeq(S)
           /\ \A h \in 0..Cardinality(S) :
                 /\ IsRow(Receipts!Levels(S)[h])
                 /\ h # 0 => Receipts!Levels(S)[h] = Receipts!NextLevel(Receipts!Levels(S)[h - 1])
<1> DEFINE t == Receipts!Levels(S)
           n == Cardinality(S)
<1>1. n \in Nat /\ AreLevels(t, Receipts!SetToSeq(S), n) /\ \A h \in 0..n : IsRow(t[h])
  BY LeavesAre, LevelsAre, LevelsShrink
<1> HIDE DEF t, n
<1>2. \A h \in 0..n : t[h] = IF h = 0 THEN Receipts!SetToSeq(S) ELSE Receipts!NextLevel(t[h - 1])
  BY <1>1 DEF AreLevels
<1> QED
  BY <1>1, <1>2 DEF t, n

\* The same top, the higher tree second: level by level they are the same.
LEMMA TreesAgree ==
    ASSUME NEW S, IsFiniteSet(S), S # {}, NEW T, IsFiniteSet(T), T # {},
           Receipts!MerkleRoot(S) = Receipts!MerkleRoot(T), Receipts!Height(S) <= Receipts!Height(T)
    PROVE  S = In(Receipts!Levels(T)[Receipts!Height(T) - Receipts!Height(S)])
<1> DEFINE n == Cardinality(S)
           m == Cardinality(T)
           s == Receipts!Levels(S)
           t == Receipts!Levels(T)
           a == Receipts!Height(S)
           b == Receipts!Height(T)
           Same(k) == In(s[a - k]) = In(t[b - k])
           Bad == {k \in 0..a : ~Same(k)}
<1>1. /\ n \in Nat /\ m \in Nat /\ a \in 0..n /\ b \in 0..m /\ a <= b
      /\ In(s[a]) = {Receipts!MerkleRoot(S)} /\ In(t[b]) = {Receipts!MerkleRoot(T)}
  BY LeavesAre, TopIs
<1>2. /\ \A h \in 0..n : IsRow(s[h]) /\ (h # 0 => s[h] = Receipts!NextLevel(s[h - 1]))
      /\ \A h \in 0..m : IsRow(t[h]) /\ (h # 0 => t[h] = Receipts!NextLevel(t[h - 1]))
      /\ s[0] = Receipts!SetToSeq(S)
  BY LevelsGrow
<1> HIDE DEF n, m, s, t, a, b
<1>3. Same(0)
  <2>1. a - 0 = a /\ b - 0 = b
    BY <1>1
  <2> QED
    BY <1>1, <2>1
<1>4. Bad = {}
  <2>1. SUFFICES ASSUME Bad # {}
                 PROVE  FALSE
    OBVIOUS
  <2>2. Bad \in SUBSET Nat
    BY <1>1
  <2>3. PICK k \in Bad : \A j \in Bad : k <= j
    <3> HIDE DEF Bad
    <3> QED
      BY <2>1, <2>2, LeastNumber
  <2>4. k \in 0..a /\ ~Same(k) /\ k # 0
    BY <1>3, <2>3
  <2>5. k - 1 \in 0..a /\ ~(k <= k - 1)
    BY <1>1, <2>4
  <2>6. Same(k - 1)
    BY <2>3, <2>5
  <2> DEFINE p == a - k
             q == b - k
  <2>7. /\ p \in 0..n /\ q \in 0..m /\ p + 1 \in 0..n /\ q + 1 \in 0..m
        /\ p + 1 # 0 /\ q + 1 # 0 /\ (p + 1) - 1 = p /\ (q + 1) - 1 = q
        /\ a - (k - 1) = p + 1 /\ b - (k - 1) = q + 1
    BY <1>1, <2>4
  <2>8. In(s[p + 1]) = In(t[q + 1])
    BY <2>6, <2>7
  <2> HIDE DEF p, q
  <2>9. /\ IsRow(s[p]) /\ IsRow(t[q])
        /\ s[p + 1] = Receipts!NextLevel(s[p]) /\ t[q + 1] = Receipts!NextLevel(t[q])
    BY <1>2, <2>7
  <2>10. In(s[p]) \subseteq In(t[q]) /\ In(t[q]) \subseteq In(s[p])
    BY <2>8, <2>9, LevelTells
  <2> QED
    BY <2>4, <2>10 DEF p, q
<1>5. Same(a)
  <2>1. a \in 0..a
    BY <1>1
  <2> HIDE DEF Same
  <2> QED
    BY <1>4, <2>1
<1>6. a - a = 0
  BY <1>1
<1>7. In(s[0]) = S
  BY <1>2, LeavesAre
<1> QED
  BY <1>5, <1>6, <1>7 DEF t, b, a

LEMMA HigherTells ==
    ASSUME NEW S, IsFiniteSet(S), S # {}, NEW T, IsFiniteSet(T), T # {},
           \A x \in S : IsLeaf(x),
           Receipts!MerkleRoot(S) = Receipts!MerkleRoot(T), Receipts!Height(S) <= Receipts!Height(T)
    PROVE  S = T
<1> DEFINE d == Receipts!Height(T) - Receipts!Height(S)
           t == Receipts!Levels(T)
<1>1. S = In(t[d])
  BY TreesAgree
<1>2. Cardinality(T) \in Nat /\ d \in 0..Cardinality(T)
  <2>1. /\ Receipts!Height(S) \in 0..Cardinality(S) /\ Cardinality(S) \in Nat
        /\ Receipts!Height(T) \in 0..Cardinality(T) /\ Cardinality(T) \in Nat
    BY TopIs, LeavesAre
  <2> QED
    BY <2>1
<1>3. /\ t[0] = Receipts!SetToSeq(T)
      /\ d # 0 => t[d] = Receipts!NextLevel(t[d - 1]) /\ d - 1 \in 0..Cardinality(T)
  <2> HIDE DEF d
  <2>1. 0 \in 0..Cardinality(T) /\ (d # 0 => d - 1 \in 0..Cardinality(T))
    BY <1>2
  <2> QED
    BY <1>2, <2>1, LevelsGrow
<1>4. CASE d = 0
  BY <1>1, <1>3, <1>4, LeavesAre
<1>5. CASE d # 0
  <2>1. IsRow(t[d - 1]) /\ t[d] = Receipts!NextLevel(t[d - 1])
    BY <1>3, <1>5, LevelsGrow
  <2>2. PICK x : x \in S
    OBVIOUS
  <2> HIDE DEF t, d
  <2>3. x \in In(t[d])
    BY <1>1, <2>2
  <2>4. PICK e, f \in In(t[d - 1]) : x = Receipts!Hashed(e, f)
    BY <2>1, <2>3, LevelAbove
  <2> QED
    BY <2>2, <2>4, LeafIsNoNode
<1> QED
  BY <1>4, <1>5

\* The root of a tree over leaves is not that of no receipts.
LEMMA RootOfSome ==
    ASSUME NEW S, IsFiniteSet(S), S # {}, \A x \in S : IsLeaf(x)
    PROVE  Receipts!MerkleRoot(S) # Receipts!NoRoot
<1> DEFINE h == Receipts!Height(S)
           t == Receipts!Levels(S)
<1>1. h \in 0..Cardinality(S) /\ Cardinality(S) \in Nat /\ Receipts!MerkleRoot(S) \in In(t[h])
  BY TopIs, LeavesAre
<1> HIDE DEF h
<1>2. /\ t[0] = Receipts!SetToSeq(S)
      /\ h # 0 => t[h] = Receipts!NextLevel(t[h - 1]) /\ h - 1 \in 0..Cardinality(S)
  <2>1. 0 \in 0..Cardinality(S) /\ (h # 0 => h - 1 \in 0..Cardinality(S))
    BY <1>1
  <2> QED
    BY <1>1, <2>1, LevelsGrow
<1>3. CASE h = 0
  <2>1. Receipts!MerkleRoot(S) \in S
    BY <1>1, <1>2, <1>3, LeavesAre
  <2> QED
    BY <2>1, LeafIsNoNode
<1>4. CASE h # 0
  <2>1. IsRow(t[h - 1]) /\ t[h] = Receipts!NextLevel(t[h - 1])
    BY <1>2, <1>4, LevelsGrow
  <2> HIDE DEF t
  <2>2. PICK e, f \in In(t[h - 1]) : Receipts!MerkleRoot(S) = Receipts!Hashed(e, f)
    BY <1>1, <2>1, LevelAbove
  <2>3. PICK x \in S : IsLeaf(x)
    OBVIOUS
  <2> QED
    BY <2>2, <2>3, LeafIsNoNode
<1> QED
  BY <1>3, <1>4

\* A root is that of one set of leaves.
LEMMA RootsTell ==
    ASSUME NEW S, IsFiniteSet(S), \A x \in S : IsLeaf(x),
           NEW T, IsFiniteSet(T), \A x \in T : IsLeaf(x),
           Receipts!MerkleRoot(S) = Receipts!MerkleRoot(T)
    PROVE  S = T
<1>1. CASE S # {} /\ T # {}
  <2>1. Receipts!Height(S) \in Nat /\ Receipts!Height(T) \in Nat
    BY <1>1, TopIs, LeavesAre
  <2>2. Receipts!Height(S) <= Receipts!Height(T) \/ Receipts!Height(T) <= Receipts!Height(S)
    BY <2>1
  <2> QED
    BY <1>1, <2>2, HigherTells
<1>2. CASE S = {} \/ T = {}
  <2>1. \A U : U = {} => Receipts!MerkleRoot(U) = Receipts!NoRoot
    BY DEF Receipts!MerkleRoot
  <2> QED
    BY <1>2, <2>1, RootOfSome
<1> QED
  BY <1>1, <1>2

LeafType == {[leaf |-> c] : c \in Text \ {<<>>}}
ReceiptType == [id : Nat, cost : Amounts, summary : Texts, outcome : Texts]
ReceiptRowType == [id : Nat, cost : Amounts, summary : Texts, outcome : Texts, leafHash : LeafType]

\* A row has the id of its receipt, and some leaf for a hash, whatever columns were changed.
RowsTyped ==
    /\ receipts \in Seq(ReceiptRowType) /\ recorded \in Seq(ReceiptType)
    /\ Len(recorded) = Len(receipts)
    /\ \A k \in DOMAIN receipts : receipts[k].id = k /\ recorded[k].id = k

\* A root that was given is that of its leaves, and where the rows were as recorded the leaves are
\* the hashes of what was recorded.
RootsAreOfLeaves ==
    \A s \in settled :
        /\ IsFiniteSet(s.leaves) /\ \A x \in s.leaves : IsLeaf(x)
        /\ s.root = Receipts!MerkleRoot(s.leaves)
        /\ s.asRecorded =>
               \A x \in s.leaves : \E k \in DOMAIN recorded : x = Receipts!ReceiptLeafHash(recorded[k])

\* A row that was checked is under the root that was given with it; it was found right when its own
\* hash is the one under the root.
CheckedIsUnderRoot ==
    checked # Receipts!NotChecked =>
        /\ checked.id \in DOMAIN recorded /\ checked.row.id = checked.id
        /\ checked.row \in ReceiptRowType
        /\ checked.verified => Receipts!ReceiptLeafHash(checked.row) = checked.row.leafHash
        /\ \E leaves : /\ IsFiniteSet(leaves) /\ \A x \in leaves : IsLeaf(x)
                       /\ checked.row.leafHash \in leaves
                       /\ checked.root = Receipts!MerkleRoot(leaves)

ReceiptInv == RowsTyped /\ RootsAreOfLeaves /\ CheckedIsUnderRoot

LEMMA WiderSeq ==
    ASSUME NEW A, NEW B, A \subseteq B, NEW s \in Seq(A)
    PROVE  s \in Seq(B)
<1>1. Len(s) \in Nat /\ s \in [1..Len(s) -> A]
  OBVIOUS
<1>2. s \in [1..Len(s) -> B]
  BY <1>1
<1> QED
  BY <1>1, <1>2, SeqBuilt

LEMMA Joined ==
    ASSUME NEW E, NEW a \in Seq(E), NEW b \in Seq(E)
    PROVE  a \o b \in Seq(E) /\ Len(a \o b) = Len(a) + Len(b) /\ Len(a) \in Nat /\ Len(b) \in Nat
OBVIOUS

\* A sequence with another one behind it begins as it did.
LEMMA Longer ==
    ASSUME NEW E, NEW a \in Seq(E), NEW b \in Seq(E), Len(a) >= 4
    PROVE  a \o b \in Seq(E) /\ Len(a \o b) >= 4 /\ Len(a \o b) \in Nat /\ (a \o b)[1] = a[1]
OBVIOUS

LEMMA HeadIs ==
    ASSUME NEW E, NEW a \in E, NEW b \in E, NEW c \in E
    PROVE  /\ <<a, b, c, b>> \in Seq(E) /\ Len(<<a, b, c, b>>) = 4 /\ <<a, b, c, b>>[1] = a
           /\ <<b>> \in Seq(E)
OBVIOUS

LEMMA SingleIs ==
    ASSUME NEW E, NEW k \in E
    PROVE  <<k>> \in Seq(E) /\ <<k>> # <<>>
OBVIOUS

LEMMA LeafHashIs ==
    ASSUME NEW r, r.id \in Nat, r.cost \in Amounts, r.summary \in Texts, r.outcome \in Texts
    PROVE  /\ Receipts!ReceiptLeafHash(r) \in LeafType
           /\ Receipts!ReceiptLeafHash(r) = [leaf |-> Receipts!CanonicalReceipt(r)]
           /\ Receipts!CanonicalReceipt(r)[1] = r.id
<1> DEFINE E == Nat \cup Amounts \cup STRING \cup {Receipts!Bar}
           c == Receipts!CanonicalReceipt(r)
           head == <<r.id, Receipts!Bar, r.cost, Receipts!Bar>>
           bar == <<Receipts!Bar>>
           first == head \o r.summary
           second == first \o bar
<1>1. r.summary \in Seq(E) /\ r.outcome \in Seq(E)
  <2>1. r.summary \in Seq(STRING) /\ r.outcome \in Seq(STRING)
    BY TextsAssumption
  <2>2. STRING \subseteq E
    OBVIOUS
  <2> HIDE DEF E
  <2> QED
    BY <2>1, <2>2, WiderSeq
<1>2. r.id \in E /\ r.cost \in E /\ Receipts!Bar \in E
  OBVIOUS
<1>3. c = second \o r.outcome
  BY DEF Receipts!CanonicalReceipt
<1>4. Text = Seq(E)
  BY DEF Text
<1> HIDE DEF E
<1>5. head \in Seq(E) /\ Len(head) = 4 /\ head[1] = r.id /\ bar \in Seq(E)
  BY <1>2, HeadIs
<1> HIDE DEF head, bar
<1>6. first \in Seq(E) /\ Len(first) >= 4 /\ Len(first) \in Nat /\ first[1] = r.id
  <2>1. head \in Seq(E) /\ r.summary \in Seq(E) /\ Len(head) >= 4 /\ head[1] = r.id
    BY <1>1, <1>5
  <2> HIDE DEF first
  <2>2. first = head \o r.summary
    BY DEF first
  <2>3. /\ head \o r.summary \in Seq(E) /\ Len(head \o r.summary) >= 4 /\ Len(head \o r.summary) \in Nat
        /\ (head \o r.summary)[1] = head[1]
    BY <2>1, Longer
  <2> QED
    BY <2>1, <2>2, <2>3
<1> HIDE DEF first
<1>7. second \in Seq(E) /\ Len(second) >= 4 /\ Len(second) \in Nat /\ second[1] = r.id
  <2>1. first \in Seq(E) /\ bar \in Seq(E) /\ Len(first) >= 4 /\ first[1] = r.id
    BY <1>5, <1>6
  <2> HIDE DEF second
  <2>2. second = first \o bar
    BY DEF second
  <2>3. /\ first \o bar \in Seq(E) /\ Len(first \o bar) >= 4 /\ Len(first \o bar) \in Nat
        /\ (first \o bar)[1] = first[1]
    BY <2>1, Longer
  <2> QED
    BY <2>1, <2>2, <2>3
<1> HIDE DEF second
<1>8. c \in Seq(E) /\ Len(c) >= 4 /\ Len(c) \in Nat /\ c[1] = r.id
  BY <1>1, <1>3, <1>7, Longer
<1> HIDE DEF c
<1>9. c # <<>>
  BY <1>8
<1>10. Receipts!ReceiptLeafHash(r) = [leaf |-> c]
  BY DEF Receipts!ReceiptLeafHash, c
<1> QED
  BY <1>4, <1>8, <1>9, <1>10 DEF LeafType, c

\* A leaf is that of one text.
LEMMA SameLeaf ==
    ASSUME NEW c, NEW d, [leaf |-> c] = [leaf |-> d]
    PROVE  c = d
<1>1. [leaf |-> c].leaf = [leaf |-> d].leaf
  OBVIOUS
<1> QED
  BY <1>1

LEMMA ReceiptStarts ==
    ASSUME Receipts!ReceiptInit
    PROVE  ReceiptInv
<1>1. receipts = <<>> /\ recorded = <<>> /\ settled = {} /\ checked = Receipts!NotChecked
  BY DEF Receipts!ReceiptInit
<1> QED
  BY <1>1 DEF ReceiptInv, RowsTyped, RootsAreOfLeaves, CheckedIsUnderRoot

\* The hashes of the rows are finitely many leaves.
LEMMA HashesAre ==
    ASSUME RowsTyped, NEW S, S = {receipts[k].leafHash : k \in DOMAIN receipts}
    PROVE  IsFiniteSet(S) /\ \A x \in S : IsLeaf(x)
<1> DEFINE n == Len(receipts)
           f == [k \in 1..n |-> receipts[k].leafHash]
<1>1. n \in Nat /\ DOMAIN receipts = 1..n /\ \A k \in 1..n : receipts[k].leafHash \in LeafType
  <2>1. receipts \in Seq(ReceiptRowType)
    BY DEF RowsTyped
  <2>2. n \in Nat /\ DOMAIN receipts = 1..n /\ \A k \in 1..n : receipts[k] \in ReceiptRowType
    BY <2>1
  <2> QED
    BY <2>2 DEF ReceiptRowType
<1> HIDE DEF n
<1>2. f \in Surjection(1..n, S)
  <2>1. f \in [1..n -> S] /\ \A x \in S : \E k \in 1..n : f[k] = x
    BY <1>1
  <2> HIDE DEF f
  <2> QED
    BY <2>1 DEF Surjection
<1>3. IsFiniteSet(S)
  BY <1>1, <1>2, FS_Interval, FS_Surjection
<1>4. ASSUME NEW x \in S
      PROVE  IsLeaf(x)
  BY <1>1 DEF LeafType, IsLeaf
<1> QED
  BY <1>3, <1>4

LEMMA ReceiptStep ==
    ASSUME ReceiptInv, [Receipts!ReceiptNext]_receiptsVars
    PROVE  ReceiptInv'
<1>1. RowsTyped /\ RootsAreOfLeaves /\ CheckedIsUnderRoot
  BY DEF ReceiptInv
<1>2. CASE UNCHANGED receiptsVars
  BY <1>1, <1>2 DEF receiptsVars, ReceiptInv, RowsTyped, RootsAreOfLeaves, CheckedIsUnderRoot
<1>3. ASSUME NEW cost \in Amounts, NEW s \in Texts, NEW o \in Texts, Receipts!RecordReceipt(cost, s, o)
      PROVE  ReceiptInv'
  <2> DEFINE r == [id |-> Len(receipts) + 1, cost |-> cost, summary |-> s, outcome |-> o]
             row == [id |-> Len(receipts) + 1, cost |-> cost, summary |-> s, outcome |-> o,
                     leafHash |-> Receipts!ReceiptLeafHash(r)]
  <2>1. /\ receipts' = Append(receipts, row) /\ recorded' = Append(recorded, r)
        /\ settled' = settled /\ checked' = checked
    BY <1>3 DEF Receipts!RecordReceipt
  <2>2. /\ receipts \in Seq(ReceiptRowType) /\ recorded \in Seq(ReceiptType)
        /\ Len(recorded) = Len(receipts) /\ Len(receipts) \in Nat
        /\ \A k \in DOMAIN receipts : receipts[k].id = k /\ recorded[k].id = k
    BY <1>1 DEF RowsTyped
  <2>3. r \in ReceiptType /\ row \in ReceiptRowType /\ r.id = Len(receipts) + 1 /\ row.id = Len(receipts) + 1
    <3>1. r.id \in Nat /\ r.cost \in Amounts /\ r.summary \in Texts /\ r.outcome \in Texts
      BY <2>2
    <3>2. Receipts!ReceiptLeafHash(r) \in LeafType
      BY <3>1, LeafHashIs
    <3> QED
      BY <2>2, <3>2 DEF ReceiptType, ReceiptRowType
  <2> HIDE DEF r, row
  <2>4. /\ receipts' \in Seq(ReceiptRowType) /\ recorded' \in Seq(ReceiptType)
        /\ Len(recorded') = Len(receipts') /\ Len(receipts') = Len(receipts) + 1
        /\ \A k \in 1..Len(receipts) : receipts'[k] = receipts[k] /\ recorded'[k] = recorded[k]
        /\ receipts'[Len(receipts) + 1] = row /\ recorded'[Len(receipts) + 1] = r
    BY <2>1, <2>2, <2>3
  <2>5. ASSUME NEW k \in DOMAIN receipts'
        PROVE  receipts'[k].id = k /\ recorded'[k].id = k
    <3>1. k = Len(receipts) + 1 \/ (k \in 1..Len(receipts) /\ k \in DOMAIN receipts)
      BY <2>2, <2>4
    <3> QED
      BY <2>2, <2>3, <2>4, <3>1
  <2>6. RowsTyped'
    BY <2>4, <2>5 DEF RowsTyped
  <2>7. \A k \in DOMAIN recorded : k \in DOMAIN recorded' /\ recorded'[k] = recorded[k]
    BY <2>2, <2>4
  <2>8. CheckedIsUnderRoot'
    BY <1>1, <2>1, <2>7 DEF CheckedIsUnderRoot
  <2>9. RootsAreOfLeaves'
    <3> SUFFICES ASSUME NEW t \in settled, t.asRecorded, NEW x \in t.leaves
                 PROVE  \E k \in DOMAIN recorded' : x = Receipts!ReceiptLeafHash(recorded'[k])
      BY <1>1, <2>1 DEF RootsAreOfLeaves
    <3>1. PICK k \in DOMAIN recorded : x = Receipts!ReceiptLeafHash(recorded[k])
      BY <1>1 DEF RootsAreOfLeaves
    <3> QED
      BY <2>7, <3>1
  <2> QED
    BY <2>6, <2>8, <2>9 DEF ReceiptInv
<1>4. ASSUME NEW k \in 1..MaxReceipts, NEW cost \in Amounts, NEW s \in Texts, NEW o \in Texts,
             Receipts!EditRow(k, cost, s, o)
      PROVE  ReceiptInv'
  <2> DEFINE r == [id |-> k, cost |-> cost, summary |-> s, outcome |-> o]
             odd == [leaf |-> <<k>>]
  <2>1. PICK hash \in {receipts[k].leafHash, Receipts!ReceiptLeafHash(r), odd} :
            receipts' = [receipts EXCEPT ![k] = [id |-> k, cost |-> cost, summary |-> s,
                                                 outcome |-> o, leafHash |-> hash]]
    BY <1>4 DEF Receipts!EditRow
  <2>2. k \in DOMAIN receipts /\ recorded' = recorded /\ settled' = settled /\ checked' = checked
    BY <1>4 DEF Receipts!EditRow
  <2>3. receipts \in Seq(ReceiptRowType) /\ receipts[k] \in ReceiptRowType /\ k \in Nat
    BY <1>1, <2>2 DEF RowsTyped
  <2>4. hash \in LeafType
    <3>1. receipts[k].leafHash \in LeafType
      BY <2>3 DEF ReceiptRowType
    <3>2. Receipts!ReceiptLeafHash(r) \in LeafType
      <4>1. r.id \in Nat /\ r.cost \in Amounts /\ r.summary \in Texts /\ r.outcome \in Texts
        BY <2>3
      <4> QED
        BY <4>1, LeafHashIs
    <3>3. odd \in LeafType
      <4> DEFINE E == Nat \cup Amounts \cup STRING \cup {Receipts!Bar}
      <4>1. k \in E
        BY <2>3
      <4> HIDE DEF E
      <4>2. <<k>> \in Seq(E) /\ <<k>> # <<>>
        BY <4>1, SingleIs
      <4>3. <<k>> \in Text
        BY <4>2 DEF Text, E
      <4> QED
        BY <4>2, <4>3 DEF LeafType
    <3> QED
      BY <2>1, <3>1, <3>2, <3>3
  <2> DEFINE row == [id |-> k, cost |-> cost, summary |-> s, outcome |-> o, leafHash |-> hash]
  <2>5. row \in ReceiptRowType /\ row.id = k /\ receipts' = [receipts EXCEPT ![k] = row]
    BY <2>1, <2>3, <2>4 DEF ReceiptRowType
  <2> HIDE DEF row
  <2>6. /\ receipts' \in Seq(ReceiptRowType) /\ Len(receipts') = Len(receipts)
        /\ DOMAIN receipts' = DOMAIN receipts
        /\ \A j \in DOMAIN receipts : receipts'[j].id = receipts[j].id
    <3>1. receipts[k].id = k
      BY <1>1, <2>2 DEF RowsTyped
    <3> QED
      BY <2>2, <2>3, <2>5, <3>1, SeqExcept
  <2>7. RowsTyped'
    BY <1>1, <2>2, <2>6 DEF RowsTyped
  <2> QED
    BY <1>1, <2>2, <2>7 DEF ReceiptInv, RootsAreOfLeaves, CheckedIsUnderRoot
<1>5. ASSUME Receipts!GetEpoch
      PROVE  ReceiptInv'
  <2> DEFINE leaves == {receipts[k].leafHash : k \in DOMAIN receipts}
             same == \A k \in DOMAIN receipts :
                         receipts[k].leafHash = Receipts!ReceiptLeafHash(recorded[k])
             new == [root |-> Receipts!MerkleRoot(leaves), leaves |-> leaves, asRecorded |-> same]
  <2>1. receipts' = receipts /\ recorded' = recorded /\ checked' = checked
    BY <1>5 DEF Receipts!GetEpoch
  <2>2. {r.leafHash : r \in Receipts!Range(receipts)} = leaves
    BY DEF Receipts!Range
  <2>3. settled' = settled \cup {new}
    BY <1>5, <2>2 DEF Receipts!GetEpoch, Receipts!SessionReceiptRoot
  <2>4. new.leaves = leaves /\ new.root = Receipts!MerkleRoot(leaves)
    OBVIOUS
  <2>5. new.asRecorded = same
    BY Zenon
  <2>6. IsFiniteSet(leaves) /\ \A x \in leaves : IsLeaf(x)
    BY <1>1, HashesAre
  <2>7. same => \A x \in leaves : \E k \in DOMAIN recorded : x = Receipts!ReceiptLeafHash(recorded[k])
    <3>1. DOMAIN receipts = DOMAIN recorded
      BY <1>1 DEF RowsTyped
    <3> QED
      BY <3>1
  <2> HIDE DEF new, same
  <2>8. RootsAreOfLeaves'
    BY <1>1, <2>1, <2>3, <2>4, <2>5, <2>6, <2>7 DEF RootsAreOfLeaves
  <2> QED
    BY <1>1, <2>1, <2>8 DEF ReceiptInv, RowsTyped, CheckedIsUnderRoot
<1>6. ASSUME NEW k \in 1..MaxReceipts, Receipts!VerifyReceipt(k)
      PROVE  ReceiptInv'
  <2> DEFINE leaves == {receipts[j].leafHash : j \in DOMAIN receipts}
             right == Receipts!ReceiptLeafHash(receipts[k]) = receipts[k].leafHash
  <2>1. /\ k \in DOMAIN receipts /\ receipts' = receipts /\ recorded' = recorded /\ settled' = settled
        /\ checked' = [id |-> k, verified |-> right, row |-> receipts[k],
                       root |-> Receipts!SessionReceiptRoot]
    BY <1>6 DEF Receipts!VerifyReceipt
  <2>2. /\ checked'.id = k /\ checked'.row = receipts[k] /\ checked'.verified = right
        /\ checked'.root = Receipts!MerkleRoot(leaves)
    BY <2>1, Zenon DEF Receipts!SessionReceiptRoot
  <2>3. k \in DOMAIN recorded /\ receipts[k].id = k /\ receipts[k] \in ReceiptRowType
    BY <1>1, <2>1 DEF RowsTyped
  <2>4. IsFiniteSet(leaves) /\ \A x \in leaves : IsLeaf(x)
    BY <1>1, HashesAre
  <2>5. receipts[k].leafHash \in leaves
    BY <2>1
  <2> HIDE DEF leaves
  <2>6. \E L : /\ IsFiniteSet(L) /\ \A x \in L : IsLeaf(x)
               /\ checked'.row.leafHash \in L /\ checked'.root = Receipts!MerkleRoot(L)
    BY <2>2, <2>4, <2>5
  <2>7. checked'.verified => Receipts!ReceiptLeafHash(checked'.row) = checked'.row.leafHash
    BY <2>2
  <2>8. CheckedIsUnderRoot'
    BY <2>1, <2>2, <2>3, <2>6, <2>7 DEF CheckedIsUnderRoot
  <2> QED
    BY <1>1, <2>1, <2>8 DEF ReceiptInv, RowsTyped, RootsAreOfLeaves
<1>7. CASE Receipts!ReceiptNext
  BY <1>3, <1>4, <1>5, <1>6, <1>7, Zenon DEF Receipts!ReceiptNext
<1> QED
  BY <1>2, <1>7

\* The row that was checked is under a root given for what was recorded: the same root is of the
\* same leaves, and its own is that of a receipt as recorded, of this one, as the id is part of it.
LEMMA ReceiptsHold ==
    ASSUME ReceiptInv
    PROVE  Receipts!RootsTellReceipts
<1>1. ASSUME NEW s \in settled, NEW t \in settled, s.root = t.root
      PROVE  s.leaves = t.leaves
  BY <1>1, RootsTell DEF ReceiptInv, RootsAreOfLeaves
<1>2. ASSUME checked # Receipts!NotChecked, checked.verified,
             NEW s \in settled, s.asRecorded, s.root = checked.root
      PROVE  Receipts!CanonicalReceipt(checked.row) = Receipts!CanonicalReceipt(recorded[checked.id])
  <2> DEFINE row == checked.row
             id == checked.id
  <2>1. /\ id \in DOMAIN recorded /\ row.id = id /\ row \in ReceiptRowType
        /\ Receipts!ReceiptLeafHash(row) = row.leafHash
    BY <1>2 DEF ReceiptInv, CheckedIsUnderRoot
  <2>2. PICK L : /\ IsFiniteSet(L) /\ \A x \in L : IsLeaf(x)
                 /\ row.leafHash \in L /\ checked.root = Receipts!MerkleRoot(L)
    BY <1>2 DEF ReceiptInv, CheckedIsUnderRoot
  <2>3. /\ IsFiniteSet(s.leaves) /\ \A x \in s.leaves : IsLeaf(x)
        /\ s.root = Receipts!MerkleRoot(s.leaves)
        /\ \A x \in s.leaves : \E k \in DOMAIN recorded : x = Receipts!ReceiptLeafHash(recorded[k])
    BY <1>2 DEF ReceiptInv, RootsAreOfLeaves
  <2>4. L = s.leaves
    BY <1>2, <2>2, <2>3, RootsTell
  <2>5. PICK k \in DOMAIN recorded : row.leafHash = Receipts!ReceiptLeafHash(recorded[k])
    BY <2>2, <2>3, <2>4
  <2>6. Receipts!CanonicalReceipt(row) = Receipts!CanonicalReceipt(recorded[k])
    BY <2>1, <2>5, SameLeaf DEF Receipts!ReceiptLeafHash
  <2>7. recorded[k].id = k /\ recorded[k] \in ReceiptType
    <3>1. /\ recorded \in Seq(ReceiptType) /\ receipts \in Seq(ReceiptRowType)
          /\ Len(recorded) = Len(receipts)
          /\ \A j \in DOMAIN receipts : receipts[j].id = j /\ recorded[j].id = j
      BY DEF ReceiptInv, RowsTyped
    <3> QED
      BY <2>5, <3>1
  <2>8. Receipts!CanonicalReceipt(row)[1] = row.id
    <3>1. row.id \in Nat /\ row.cost \in Amounts /\ row.summary \in Texts /\ row.outcome \in Texts
      BY <2>1 DEF ReceiptRowType
    <3> QED
      BY <3>1, LeafHashIs
  <2>9. Receipts!CanonicalReceipt(recorded[k])[1] = recorded[k].id
    <3> DEFINE r == recorded[k]
    <3>1. r.id \in Nat /\ r.cost \in Amounts /\ r.summary \in Texts /\ r.outcome \in Texts
      BY <2>7 DEF ReceiptType
    <3> HIDE DEF r
    <3>2. Receipts!CanonicalReceipt(r)[1] = r.id
      BY <3>1, LeafHashIs
    <3> QED
      BY <3>2 DEF r
  <2> QED
    BY <2>1, <2>6, <2>7, <2>8, <2>9
<1> QED
  BY <1>1, <1>2 DEF Receipts!RootsTellReceipts

-----------------------------------------------------------------------------
(***************************************************************************)
(* Private models: what a training tells are the first checkpoints of its  *)
(* job, one after another, and what a deploy hands out is listed.          *)
(***************************************************************************)

JobType == [status : {"queued"} \cup Model!TrainingTerminal, checkpoints : Nat]
InstanceType == [state : {"provisioning"} \cup Model!InstanceTerminal, listed : BOOLEAN]
ModelCallType ==
    [kind : {"train", "deploy"}, base : Nat,
     at : {"resolving", "covenant", "submitting", "monitoring", "listing", "deployed"} \cup
          Model!TrainingTerminal,
     id : Nat, told : Seq(Nat), model : Nat]

\* A call has told the first checkpoints of its job, or is handed the instance it made.
CallRight(x, js, is) ==
    /\ x.at \in {"resolving", "covenant", "submitting"} => x.told = <<>>
    /\ x.at = "monitoring" => x.id # 0
    /\ x.kind = "train" /\ x.id # 0 =>
          /\ x.id \in DOMAIN js
          /\ \A k \in DOMAIN x.told : x.told[k] = k
          /\ Len(x.told) <= js[x.id].checkpoints
          /\ x.at \in {"ready", "cancelled"} =>
                /\ js[x.id].status \in Model!TrainingTerminal
                /\ Len(x.told) = js[x.id].checkpoints
    /\ x.at = "deployed" => x.model = x.id /\ x.id \in DOMAIN is /\ is[x.id].listed = TRUE

\* A job that is over stays as it is, and one that goes on loses no checkpoint.
Grown(js, js2, is, is2) ==
    /\ DOMAIN js \subseteq DOMAIN js2 /\ DOMAIN is \subseteq DOMAIN is2
    /\ \A j \in DOMAIN js :
          /\ js[j].checkpoints <= js2[j].checkpoints
          /\ js[j].status \in Model!TrainingTerminal =>
                js2[j].status \in Model!TrainingTerminal /\ js2[j].checkpoints = js[j].checkpoints
    /\ \A i \in DOMAIN is : is[i].listed = TRUE => is2[i].listed = TRUE

ModelTyped ==
    /\ modelCalls \in Seq(ModelCallType) /\ jobs \in Seq(JobType) /\ instances \in Seq(InstanceType)
    /\ \A i \in DOMAIN instances : instances[i].listed = TRUE => instances[i].state = "running"

CallsRight == \A c \in DOMAIN modelCalls : CallRight(modelCalls[c], jobs, instances)

ModelInv == ModelTyped /\ CallsRight

LEMMA ModelStarts ==
    ASSUME Model!ModelInit
    PROVE  ModelInv
BY DEF Model!ModelInit, ModelInv, ModelTyped, CallsRight

LEMMA StaysRight ==
    ASSUME NEW x \in ModelCallType, NEW js \in Seq(JobType), NEW js2 \in Seq(JobType), NEW is, NEW is2,
           CallRight(x, js, is), Grown(js, js2, is, is2)
    PROVE  CallRight(x, js2, is2)
<1>1. ASSUME x.kind = "train", x.id # 0
      PROVE  /\ x.id \in DOMAIN js2
             /\ \A k \in DOMAIN x.told : x.told[k] = k
             /\ Len(x.told) <= js2[x.id].checkpoints
             /\ x.at \in {"ready", "cancelled"} =>
                   /\ js2[x.id].status \in Model!TrainingTerminal
                   /\ Len(x.told) = js2[x.id].checkpoints
  <2>1. /\ x.id \in DOMAIN js
        /\ \A k \in DOMAIN x.told : x.told[k] = k
        /\ Len(x.told) <= js[x.id].checkpoints
        /\ x.at \in {"ready", "cancelled"} =>
              /\ js[x.id].status \in Model!TrainingTerminal
              /\ Len(x.told) = js[x.id].checkpoints
    BY <1>1 DEF CallRight
  <2>2. x.told \in Seq(Nat)
    BY DEF ModelCallType
  <2>3. js[x.id] \in JobType /\ x.id \in DOMAIN js2 /\ js2[x.id] \in JobType
    BY <2>1 DEF Grown
  <2> DEFINE n == Len(x.told)
             p == js[x.id].checkpoints
             q == js2[x.id].checkpoints
  <2>4. n \in Nat /\ p \in Nat /\ q \in Nat
    BY <2>2, <2>3 DEF JobType
  <2>5. n <= p /\ p <= q
    BY <2>1 DEF Grown
  <2>6. n <= q
    <3> HIDE DEF n, p, q
    <3> QED
      BY <2>4, <2>5
  <2>7. x.at \in {"ready", "cancelled"} => js2[x.id].status \in Model!TrainingTerminal /\ n = q
    BY <2>1 DEF Grown
  <2> QED
    BY <2>1, <2>3, <2>6, <2>7
<1>2. ASSUME x.at = "deployed"
      PROVE  x.model = x.id /\ x.id \in DOMAIN is2 /\ is2[x.id].listed = TRUE
  BY <1>2 DEF CallRight, Grown
<1>3. /\ x.at \in {"resolving", "covenant", "submitting"} => x.told = <<>>
      /\ x.at = "monitoring" => x.id # 0
  BY DEF CallRight
<1> QED
  BY <1>1, <1>2, <1>3 DEF CallRight

\* Every call but the one that moves stays as it is.
LEMMA OneCallMoves ==
    ASSUME ModelInv, ModelTyped', Grown(jobs, jobs', instances, instances'),
           NEW c, NEW y, CallRight(y, jobs', instances'),
           DOMAIN modelCalls' = DOMAIN modelCalls \cup {c},
           modelCalls'[c] = y,
           \A d \in DOMAIN modelCalls \ {c} : modelCalls'[d] = modelCalls[d]
    PROVE  ModelInv'
<1>1. ASSUME NEW d \in DOMAIN modelCalls', d # c
      PROVE  CallRight(modelCalls'[d], jobs', instances')
  <2>1. d \in DOMAIN modelCalls \ {c} /\ modelCalls'[d] = modelCalls[d]
    BY <1>1
  <2>2. CallRight(modelCalls[d], jobs, instances)
    BY <2>1 DEF ModelInv, CallsRight
  <2>3. modelCalls[d] \in ModelCallType /\ jobs \in Seq(JobType) /\ jobs' \in Seq(JobType)
    BY <2>1 DEF ModelInv, ModelTyped
  <2>4. CallRight(modelCalls[d], jobs', instances')
    BY <2>2, <2>3, StaysRight
  <2> QED
    BY <2>1, <2>4
<1>2. CallsRight'
  <2>1. \A d \in DOMAIN modelCalls' : CallRight(modelCalls'[d], jobs', instances')
    BY <1>1
  <2> QED
    BY <2>1 DEF CallsRight
<1> QED
  BY <1>2 DEF ModelInv

\* Nothing grows in no time.
LEMMA GrownStays ==
    ASSUME ModelTyped
    PROVE  Grown(jobs, jobs, instances, instances)
<1>1. \A j \in DOMAIN jobs : jobs[j].checkpoints \in Nat
  <2>1. \A j \in DOMAIN jobs : jobs[j] \in JobType
    BY DEF ModelTyped
  <2> QED
    BY <2>1 DEF JobType
<1> QED
  BY <1>1 DEF Grown

\* A call moves, and the service does not.
LEMMA ModelCallGoes ==
    ASSUME ModelInv, NEW c \in DOMAIN modelCalls, NEW y \in ModelCallType,
           CallRight(y, jobs, instances),
           modelCalls' = [modelCalls EXCEPT ![c] = y], UNCHANGED <<jobs, instances>>
    PROVE  ModelInv'
<1>1. /\ modelCalls' \in Seq(ModelCallType) /\ DOMAIN modelCalls' = DOMAIN modelCalls
      /\ modelCalls'[c] = y
      /\ \A d \in DOMAIN modelCalls \ {c} : modelCalls'[d] = modelCalls[d]
  BY SeqExcept DEF ModelInv, ModelTyped
<1>2. ModelTyped'
  BY <1>1 DEF ModelInv, ModelTyped
<1>3. Grown(jobs, jobs', instances, instances')
  BY GrownStays DEF ModelInv
<1> QED
  BY <1>1, <1>2, <1>3, OneCallMoves

\* A call begins.
LEMMA CallBegins ==
    ASSUME ModelInv, NEW kind \in {"train", "deploy"}, NEW base \in Nat,
           NEW at \in {"resolving", "covenant"}, Model!ModelCall(kind, base, at)
    PROVE  ModelInv'
<1> DEFINE y == [kind |-> kind, base |-> base, at |-> at, id |-> 0, told |-> <<>>, model |-> Model!Public]
           c == Len(modelCalls) + 1
<1>1. modelCalls' = Append(modelCalls, y) /\ UNCHANGED <<jobs, instances>>
  BY DEF Model!ModelCall
<1>2. y \in ModelCallType
  BY DEF ModelCallType, Model!Public
<1>3. CallRight(y, jobs', instances')
  BY DEF CallRight
<1> HIDE DEF y
<1>4. modelCalls \in Seq(ModelCallType)
  BY DEF ModelInv, ModelTyped
<1>5. /\ modelCalls' \in Seq(ModelCallType) /\ DOMAIN modelCalls' = DOMAIN modelCalls \cup {c}
      /\ modelCalls'[c] = y
      /\ \A d \in DOMAIN modelCalls \ {c} : modelCalls'[d] = modelCalls[d]
  BY <1>1, <1>2, <1>4
<1> HIDE DEF c
<1>6. ModelTyped'
  BY <1>1, <1>5 DEF ModelInv, ModelTyped
<1>7. Grown(jobs, jobs', instances, instances')
  BY <1>1, GrownStays DEF ModelInv
<1> QED
  BY <1>3, <1>5, <1>6, <1>7, OneCallMoves

\* The service moves, and no call does.
LEMMA ServiceMoves ==
    ASSUME ModelInv, ModelTyped', UNCHANGED modelCalls, Grown(jobs, jobs', instances, instances')
    PROVE  ModelInv'
<1>1. ASSUME NEW d \in DOMAIN modelCalls
      PROVE  CallRight(modelCalls[d], jobs', instances')
  <2>1. /\ CallRight(modelCalls[d], jobs, instances) /\ modelCalls[d] \in ModelCallType
        /\ jobs \in Seq(JobType) /\ jobs' \in Seq(JobType)
    BY DEF ModelInv, ModelTyped, CallsRight
  <2> QED
    BY <2>1, StaysRight
<1> QED
  BY <1>1 DEF ModelInv, CallsRight

\* What is told anew continues what was told, up to the last checkpoint.
LEMMA TellsTheRest ==
    ASSUME NEW told \in Seq(Nat), \A k \in DOMAIN told : told[k] = k,
           NEW n \in Nat, Len(told) <= n
    PROVE  /\ Model!TellNew(told, n) \in Seq(Nat)
           /\ Len(Model!TellNew(told, n)) = n
           /\ \A k \in DOMAIN Model!TellNew(told, n) : Model!TellNew(told, n)[k] = k
<1> DEFINE l == Len(told)
           new == {k \in 1..n : \A j \in DOMAIN told : told[j] # k}
           nth(m) == CHOOSE k \in new : Model!Cardinality({j \in new : j <= k}) = m
           rest == [m \in 1..Model!Cardinality(new) |-> nth(m)]
<1>1. l \in Nat /\ l <= n /\ DOMAIN told = 1..l
  OBVIOUS
<1>2. new = (l + 1)..n
  <2>1. \A k \in 1..n : (\A j \in 1..l : j # k) <=> k > l
    <3> HIDE DEF l
    <3> QED
      BY <1>1
  <2>2. new = {k \in 1..n : k > l}
    BY <1>1, <2>1
  <2> HIDE DEF l, new
  <2> QED
    BY <1>1, <2>2
<1>3. Model!Cardinality(new) = n - l
  <2> HIDE DEF l, new
  <2>1. Cardinality((l + 1)..n) = IF l + 1 > n THEN 0 ELSE n - (l + 1) + 1
    BY <1>1, FS_Interval
  <2> QED
    BY <1>1, <1>2, <2>1, CardinalityIs
<1>4. ASSUME NEW m \in 1..(n - l)
      PROVE  nth(m) = l + m
  <2>1. ASSUME NEW k \in new
        PROVE  Model!Cardinality({j \in new : j <= k}) = k - l
    <3> HIDE DEF l, new
    <3>1. k \in Nat /\ l < k /\ k <= n
      BY <1>1, <1>2
    <3>2. {j \in new : j <= k} = (l + 1)..k
      BY <1>1, <1>2, <3>1
    <3>3. Cardinality((l + 1)..k) = IF l + 1 > k THEN 0 ELSE k - (l + 1) + 1
      BY <1>1, <3>1, FS_Interval
    <3>4. Model!Cardinality({j \in new : j <= k}) = Cardinality((l + 1)..k)
      BY <3>2, CardinalityIs
    <3>5. (IF l + 1 > k THEN 0 ELSE k - (l + 1) + 1) = k - l
      BY <1>1, <3>1
    <3> QED
      BY <3>3, <3>4, <3>5
  <2> HIDE DEF l, new
  <2>2. l + m \in new
    BY <1>1, <1>2
  <2>3. \A k \in new : (k - l = m) <=> (k = l + m)
    BY <1>1, <1>2
  <2>4. \A k \in new : (Model!Cardinality({j \in new : j <= k}) = m) <=> (k = l + m)
    BY <2>1, <2>3
  <2> QED
    BY <2>2, <2>4
<1>5. Model!TellNew(told, n) = told \o rest
  BY DEF Model!TellNew
<1>6. rest = [m \in 1..(n - l) |-> l + m]
  <2> HIDE DEF l, new, nth
  <2> QED
    BY <1>3, <1>4
<1> HIDE DEF rest, nth, new
<1>7. n - l \in Nat /\ rest \in Seq(Nat) /\ Len(rest) = n - l
  <2>1. n - l \in Nat /\ \A m \in 1..(n - l) : l + m \in Nat
    <3> HIDE DEF l
    <3> QED
      BY <1>1
  <2> HIDE DEF l
  <2>2. rest \in [1..(n - l) -> Nat]
    BY <1>6, <2>1
  <2> QED
    BY <2>1, <2>2, SeqBuilt
<1>8. told \o rest \in Seq(Nat) /\ Len(told \o rest) = l + Len(rest)
  BY <1>7, Joined
<1>9. l + (n - l) = n
  <2> HIDE DEF l
  <2> QED
    BY <1>1
<1>10. ASSUME NEW k \in 1..n
       PROVE  (told \o rest)[k] = k
  <2>1. CASE k <= l
    BY <1>1, <1>7, <2>1
  <2>2. CASE k > l
    <3>1. k - l \in 1..(n - l)
      <4> HIDE DEF l
      <4> QED
        BY <1>1, <2>2
    <3>2. (told \o rest)[k] = rest[k - l]
      BY <1>1, <1>7, <1>9, <2>2
    <3> HIDE DEF l
    <3> QED
      BY <1>1, <1>6, <3>1, <3>2
  <2>3. k <= l \/ k > l
    <3> HIDE DEF l
    <3> QED
      BY <1>1
  <2> HIDE DEF l
  <2> QED
    BY <2>1, <2>2, <2>3
<1>11. Len(told \o rest) = n
  BY <1>7, <1>8, <1>9
<1> QED
  BY <1>5, <1>8, <1>10, <1>11

LEMMA ModelStep ==
    ASSUME ModelInv, [Model!ModelNext]_modelsVars
    PROVE  ModelInv'
<1>1. ModelTyped /\ CallsRight /\ Grown(jobs, jobs, instances, instances)
  BY GrownStays DEF ModelInv
<1>2. CASE UNCHANGED modelsVars
  BY <1>2 DEF modelsVars, ModelInv, ModelTyped, CallsRight
<1>3. CASE Model!Train
  BY <1>3, CallBegins DEF Model!Train, Model!Public
<1>4. CASE Model!DeployModel
  BY <1>4, CallBegins DEF Model!DeployModel, Model!Public
<1>5. ASSUME NEW i \in DOMAIN instances, Model!FineTune(i)
      PROVE  ModelInv'
  <2>1. i \in Nat
    BY <1>1 DEF ModelTyped
  <2> QED
    BY <1>5, <2>1, CallBegins DEF Model!FineTune
\* A call goes to another place and tells nothing more.
<1>6. ASSUME NEW c \in DOMAIN modelCalls,
             NEW at \in {"covenant", "submitting", "listing", "failed"},
             at \in {"covenant", "submitting"} => modelCalls[c].told = <<>>,
             modelCalls' = Model!Reaches(c, at), UNCHANGED <<jobs, instances>>
      PROVE  ModelInv'
  <2> DEFINE x == modelCalls[c]
             y == [x EXCEPT !.at = at]
  <2>1. x \in ModelCallType /\ CallRight(x, jobs, instances)
    BY <1>1 DEF ModelTyped, CallsRight
  <2>2. modelCalls' = [modelCalls EXCEPT ![c] = y]
    BY <1>6 DEF Model!Reaches
  <2>3. /\ y \in ModelCallType /\ y.at = at /\ y.kind = x.kind /\ y.id = x.id /\ y.told = x.told
        /\ at \in {"covenant", "submitting"} => x.told = <<>>
    <3> HIDE DEF x
    <3>1. y \in ModelCallType /\ y.at = at /\ y.kind = x.kind /\ y.id = x.id /\ y.told = x.told
      BY <2>1 DEF ModelCallType, Model!TrainingTerminal
    <3> QED
      BY <1>6, <3>1 DEF x
  <2> HIDE DEF x, y
  <2>4. CallRight(y, jobs, instances)
    BY <2>1, <2>3 DEF CallRight
  <2> QED
    BY <1>6, <2>2, <2>3, <2>4, ModelCallGoes
<1>7. ASSUME NEW c \in DOMAIN modelCalls, Model!ResolveModel(c)
      PROVE  ModelInv'
  <2>1. /\ modelCalls[c].told = <<>> /\ UNCHANGED <<jobs, instances>>
        /\ modelCalls' = Model!Reaches(c, "covenant") \/ modelCalls' = Model!Reaches(c, "failed")
    BY <1>1, <1>7 DEF Model!ResolveModel, CallsRight, CallRight
  <2> QED
    BY <1>6, <2>1
<1>8. ASSUME NEW c \in DOMAIN modelCalls, Model!AskCovenant(c)
      PROVE  ModelInv'
  <2>1. /\ modelCalls[c].told = <<>> /\ UNCHANGED <<jobs, instances>>
        /\ modelCalls' = Model!Reaches(c, "submitting") \/ modelCalls' = Model!Reaches(c, "failed")
    BY <1>1, <1>8 DEF Model!AskCovenant, CallsRight, CallRight
  <2> QED
    BY <1>6, <2>1
<1>9. ASSUME NEW c \in DOMAIN modelCalls,
             Model!SubmitFails(c) \/ Model!WatchFails(c) \/ Model!PollInstance(c)
      PROVE  ModelInv'
  <2>1. /\ UNCHANGED <<jobs, instances>>
        /\ modelCalls' = Model!Reaches(c, "listing") \/ modelCalls' = Model!Reaches(c, "failed")
    BY <1>9 DEF Model!SubmitFails, Model!WatchFails, Model!PollInstance
  <2> QED
    BY <1>6, <2>1
<1>10. ASSUME NEW c \in DOMAIN modelCalls, NEW answered \in BOOLEAN, Model!Submit(c, answered)
       PROVE  ModelInv'
  <2> DEFINE x == modelCalls[c]
             trains == x.kind = "train"
             id == Len(IF trains THEN jobs ELSE instances) + 1
             mid == [x EXCEPT !.at = "monitoring"]
             y == IF answered THEN [mid EXCEPT !.id = id] ELSE [x EXCEPT !.at = "failed"]
  <2>1. /\ x \in ModelCallType /\ CallRight(x, jobs, instances)
        /\ jobs \in Seq(JobType) /\ instances \in Seq(InstanceType) /\ modelCalls \in Seq(ModelCallType)
    BY <1>1 DEF ModelTyped, CallsRight
  <2>2. /\ x.told = <<>>
        /\ jobs' = IF trains THEN Append(jobs, Model!NewJob) ELSE jobs
        /\ instances' = IF trains THEN instances ELSE Append(instances, Model!NewInstance)
    BY <1>10, <2>1 DEF Model!Submit, CallRight
  <2>3. modelCalls' = [modelCalls EXCEPT ![c] = y]
    <3>1. CASE answered
      <4> DEFINE part1 == [modelCalls EXCEPT ![c] = mid]
      <4>1. modelCalls' = [part1 EXCEPT ![c] = [part1[c] EXCEPT !.id = id]]
        BY <1>10, <3>1 DEF Model!Submit
      <4>2. part1[c] = mid
        OBVIOUS
      <4>3. y = [mid EXCEPT !.id = id]
        BY <3>1
      <4> HIDE DEF mid, id, y
      <4>4. modelCalls' = [part1 EXCEPT ![c] = y]
        BY <4>1, <4>2, <4>3
      <4> QED
        BY <4>4
    <3>2. CASE ~answered
      BY <1>10, <3>2 DEF Model!Submit, Model!Reaches
    <3> QED
      BY <3>1, <3>2
  <2>4. id \in Nat /\ id # 0
    BY <2>1
  <2>5. /\ y \in ModelCallType /\ y.kind = x.kind /\ y.told = x.told
        /\ IF answered THEN y.at = "monitoring" /\ y.id = id ELSE y.at = "failed" /\ y.id = x.id
    <3> HIDE DEF x, id
    <3> QED
      BY <2>1, <2>4 DEF ModelCallType, Model!TrainingTerminal
  <2>6. /\ jobs' \in Seq(JobType) /\ instances' \in Seq(InstanceType)
        /\ DOMAIN jobs \subseteq DOMAIN jobs' /\ DOMAIN instances \subseteq DOMAIN instances'
        /\ \A j \in DOMAIN jobs : jobs'[j] = jobs[j]
        /\ \A i \in DOMAIN instances : instances'[i] = instances[i]
        /\ \A i \in DOMAIN instances' \ DOMAIN instances : instances'[i] = Model!NewInstance
        /\ trains => id \in DOMAIN jobs' /\ jobs'[id] = Model!NewJob
    <3>1. Model!NewJob \in JobType /\ Model!NewInstance \in InstanceType
      BY DEF Model!NewJob, Model!NewInstance, JobType, InstanceType
    <3>2. CASE trains
      <4>1. jobs' = Append(jobs, Model!NewJob) /\ instances' = instances /\ id = Len(jobs) + 1
        BY <2>2, <3>2
      <4> HIDE DEF id
      <4> QED
        BY <2>1, <3>1, <4>1
    <3>3. CASE ~trains
      <4>1. jobs' = jobs /\ instances' = Append(instances, Model!NewInstance)
        BY <2>2, <3>3
      <4> HIDE DEF id, trains
      <4> QED
        BY <2>1, <3>1, <3>3, <4>1
    <3> QED
      BY <3>2, <3>3
  <2>7. /\ modelCalls' \in Seq(ModelCallType) /\ DOMAIN modelCalls' = DOMAIN modelCalls
        /\ modelCalls'[c] = y
        /\ \A d \in DOMAIN modelCalls \ {c} : modelCalls'[d] = modelCalls[d]
    <3> HIDE DEF y
    <3> QED
      BY <2>1, <2>3, <2>5, SeqExcept
  <2>8. ModelTyped'
    <3>1. Model!NewInstance.listed = FALSE
      BY DEF Model!NewInstance
    <3>2. ASSUME NEW i \in DOMAIN instances', instances'[i].listed = TRUE
          PROVE  instances'[i].state = "running"
      BY <1>1, <2>6, <3>1, <3>2 DEF ModelTyped
    <3> QED
      BY <2>6, <2>7, <3>2 DEF ModelTyped
  <2>9. Grown(jobs, jobs', instances, instances')
    BY <1>1, <2>6 DEF Grown
  <2>10. CallRight(y, jobs', instances')
    <3> HIDE DEF x, y, id, trains
    <3>1. CASE answered
      <4>1. x.kind = "train" <=> trains
        BY DEF trains
      <4>2. Model!NewJob.checkpoints = 0
        BY DEF Model!NewJob
      <4>3. y.at = "monitoring" /\ y.id = id /\ y.told = <<>> /\ y.kind = x.kind
        BY <2>2, <2>5, <3>1
      <4>4. y.kind = "train" => y.id \in DOMAIN jobs' /\ jobs'[y.id].checkpoints = 0
        BY <2>6, <4>1, <4>2, <4>3
      <4>5. Len(y.told) = 0 /\ DOMAIN y.told = {}
        BY <4>3
      <4>6. y.kind = "train" => Len(y.told) <= jobs'[y.id].checkpoints
        BY <4>4, <4>5
      <4> QED
        BY <2>4, <4>3, <4>4, <4>5, <4>6 DEF CallRight
    <3>2. CASE ~answered
      <4>1. CallRight(x, jobs', instances')
        BY <2>1, <2>6, <2>9, StaysRight
      <4>2. y.at = "failed" /\ y.id = x.id /\ y.told = x.told /\ y.kind = x.kind
        BY <2>5, <3>2
      <4> QED
        BY <4>1, <4>2 DEF CallRight
    <3> QED
      BY <3>1, <3>2
  <2> HIDE DEF y
  <2> QED
    BY <2>7, <2>8, <2>9, <2>10, OneCallMoves
<1>11. ASSUME NEW c \in DOMAIN modelCalls, Model!PollJob(c)
       PROVE  ModelInv'
  <2> DEFINE x == modelCalls[c]
             job == jobs[x.id]
             told == Model!TellNew(x.told, job.checkpoints)
             at == IF job.status \in Model!TrainingTerminal THEN job.status ELSE x.at
             mid == [x EXCEPT !.told = told]
             y == [mid EXCEPT !.at = at]
  <2>1. x \in ModelCallType /\ CallRight(x, jobs, instances) /\ jobs \in Seq(JobType)
    BY <1>1 DEF ModelTyped, CallsRight
  <2>2. x.kind = "train" /\ x.at = "monitoring" /\ UNCHANGED <<jobs, instances>>
    BY <1>11 DEF Model!PollJob
  <2>3. /\ x.id # 0 /\ x.id \in DOMAIN jobs
        /\ \A k \in DOMAIN x.told : x.told[k] = k
        /\ Len(x.told) <= job.checkpoints
    BY <2>1, <2>2 DEF CallRight
  <2>4. x.told \in Seq(Nat) /\ job.checkpoints \in Nat
        /\ job.status \in {"queued"} \cup Model!TrainingTerminal
    <3>1. job \in JobType
      BY <2>1, <2>3
    <3> QED
      BY <2>1, <3>1 DEF ModelCallType, JobType
  <2>5. modelCalls' = [modelCalls EXCEPT ![c] = y]
    <3> DEFINE part1 == [modelCalls EXCEPT ![c] = mid]
    <3>1. mid.at = x.at
      <4> HIDE DEF x, told
      <4> QED
        BY <2>1 DEF ModelCallType
    <3>2. modelCalls' = [part1 EXCEPT ![c] = [part1[c] EXCEPT !.at =
                             IF job.status \in Model!TrainingTerminal THEN job.status ELSE part1[c].at]]
      BY <1>11 DEF Model!PollJob
    <3>3. part1[c] = mid
      OBVIOUS
    <3>4. [part1[c] EXCEPT !.at = IF job.status \in Model!TrainingTerminal THEN job.status ELSE part1[c].at] = y
      BY <3>1, <3>3
    <3> HIDE DEF mid, y, job
    <3>5. modelCalls' = [part1 EXCEPT ![c] = y]
      BY <3>2, <3>4
    <3> QED
      BY <3>5
  <2> HIDE DEF job
  <2>6. told \in Seq(Nat) /\ Len(told) = job.checkpoints /\ \A k \in DOMAIN told : told[k] = k
    BY <2>3, <2>4, TellsTheRest
  <2>7. at \in {"monitoring"} \cup Model!TrainingTerminal
    BY <2>2
  <2> HIDE DEF told, at, x
  <2>8. /\ y \in ModelCallType /\ y.at = at /\ y.kind = x.kind /\ y.id = x.id /\ y.told = told
    BY <2>1, <2>6, <2>7 DEF ModelCallType
  <2> HIDE DEF y
  <2>9. CallRight(y, jobs, instances)
    <3>1. at \in {"ready", "cancelled"} => job.status \in Model!TrainingTerminal
      BY <2>2 DEF at
    <3>2. at # "deployed" /\ at \notin {"resolving", "covenant", "submitting"}
      BY <2>7 DEF Model!TrainingTerminal
    <3>3. Len(told) <= job.checkpoints
      BY <2>4, <2>6
    <3> QED
      BY <2>3, <2>6, <2>8, <3>1, <3>2, <3>3 DEF CallRight, job
  <2> QED
    BY <2>2, <2>5, <2>8, <2>9, ModelCallGoes
<1>12. ASSUME NEW c \in DOMAIN modelCalls, Model!PollCatalog(c)
       PROVE  ModelInv'
  <2>1. PICK i \in Model!CatalogEntry(c) :
            modelCalls' = [modelCalls EXCEPT ![c].at = "deployed", ![c].model = i]
    BY <1>12 DEF Model!PollCatalog
  <2> DEFINE x == modelCalls[c]
             mid == [x EXCEPT !.at = "deployed"]
             y == [mid EXCEPT !.model = i]
  <2>2. /\ x \in ModelCallType /\ CallRight(x, jobs, instances)
        /\ instances \in Seq(InstanceType) /\ x.at = "listing" /\ UNCHANGED <<jobs, instances>>
    BY <1>1, <1>12 DEF ModelTyped, CallsRight, Model!PollCatalog
  <2>3. i \in DOMAIN instances /\ instances[i].listed = TRUE /\ i = x.id /\ i \in Nat
    <3>1. i \in DOMAIN instances /\ instances[i].listed /\ i = x.id
      BY <2>1 DEF Model!CatalogEntry
    <3>2. instances[i] \in InstanceType
      BY <2>2, <3>1
    <3>3. instances[i].listed \in BOOLEAN
      BY <3>2 DEF InstanceType
    <3>4. instances[i].listed = TRUE
      BY <3>1, <3>3, Zenon
    <3> QED
      BY <2>2, <3>1, <3>4
  <2>4. modelCalls' = [modelCalls EXCEPT ![c] = y]
    <3> DEFINE part1 == [modelCalls EXCEPT ![c] = mid]
    <3>1. modelCalls' = [part1 EXCEPT ![c] = [part1[c] EXCEPT !.model = i]]
      BY <2>1
    <3>2. part1[c] = mid
      OBVIOUS
    <3> HIDE DEF mid
    <3>3. modelCalls' = [part1 EXCEPT ![c] = y]
      BY <3>1, <3>2
    <3> QED
      BY <3>3
  <2> HIDE DEF x
  <2>5. /\ y \in ModelCallType /\ y.at = "deployed" /\ y.model = i
        /\ y.kind = x.kind /\ y.id = x.id /\ y.told = x.told
    BY <2>2, <2>3 DEF ModelCallType
  <2> HIDE DEF y
  <2>6. CallRight(y, jobs, instances)
    BY <2>2, <2>3, <2>5 DEF CallRight
  <2> QED
    BY <2>2, <2>4, <2>5, <2>6, ModelCallGoes
<1>13. ASSUME NEW i \in DOMAIN instances, NEW y \in InstanceType,
              instances' = [instances EXCEPT ![i] = y], UNCHANGED <<modelCalls, jobs>>,
              instances[i].listed = TRUE => y.listed = TRUE,
              y.listed = TRUE => y.state = "running"
       PROVE  ModelInv'
  <2>1. /\ instances' \in Seq(InstanceType) /\ DOMAIN instances' = DOMAIN instances
        /\ instances'[i] = y
        /\ \A k \in DOMAIN instances \ {i} : instances'[k] = instances[k]
    BY <1>1, <1>13, SeqExcept DEF ModelTyped
  <2>2. ModelTyped'
    BY <1>1, <1>13, <2>1 DEF ModelTyped
  <2>3. Grown(jobs, jobs', instances, instances')
    BY <1>1, <1>13, <2>1 DEF Grown
  <2> QED
    BY <1>13, <2>2, <2>3, ServiceMoves
<1>14. ASSUME NEW i \in DOMAIN instances, NEW state \in Model!InstanceTerminal, Model!InstanceMoves(i, state)
       PROVE  ModelInv'
  <2> DEFINE y == [instances[i] EXCEPT !.state = state]
  <2>1. instances[i] \in InstanceType
    BY <1>1 DEF ModelTyped
  <2>2. instances' = [instances EXCEPT ![i] = y] /\ UNCHANGED <<modelCalls, jobs>>
    BY <1>14 DEF Model!InstanceMoves
  <2>3. y \in InstanceType /\ y.listed = instances[i].listed
    BY <2>1 DEF InstanceType
  <2>4. instances[i].listed # TRUE
    BY <1>1, <1>14 DEF ModelTyped, Model!InstanceMoves
  <2> HIDE DEF y
  <2> QED
    BY <1>13, <2>2, <2>3, <2>4
<1>15. ASSUME NEW i \in DOMAIN instances, Model!InstanceListed(i)
       PROVE  ModelInv'
  <2> DEFINE y == [instances[i] EXCEPT !.listed = TRUE]
  <2>1. instances[i] \in InstanceType
    BY <1>1 DEF ModelTyped
  <2>2. instances' = [instances EXCEPT ![i] = y] /\ UNCHANGED <<modelCalls, jobs>>
    BY <1>15 DEF Model!InstanceListed
  <2>3. y \in InstanceType /\ y.listed = TRUE /\ y.state = instances[i].state
    BY <2>1 DEF InstanceType
  <2>4. instances[i].state = "running"
    BY <1>15 DEF Model!InstanceListed
  <2> HIDE DEF y
  <2> QED
    BY <1>13, <2>2, <2>3, <2>4
<1>16. ASSUME NEW j \in DOMAIN jobs, NEW y \in JobType,
              jobs' = [jobs EXCEPT ![j] = y], UNCHANGED <<modelCalls, instances>>,
              jobs[j].status \notin Model!TrainingTerminal,
              jobs[j].checkpoints <= y.checkpoints
       PROVE  ModelInv'
  <2>1. /\ jobs' \in Seq(JobType) /\ DOMAIN jobs' = DOMAIN jobs
        /\ jobs'[j] = y
        /\ \A k \in DOMAIN jobs \ {j} : jobs'[k] = jobs[k]
    BY <1>1, <1>16, SeqExcept DEF ModelTyped
  <2>2. ModelTyped'
    BY <1>1, <1>16, <2>1 DEF ModelTyped
  <2>3. Grown(jobs, jobs', instances, instances')
    BY <1>1, <1>16, <2>1 DEF Grown
  <2> QED
    BY <1>16, <2>2, <2>3, ServiceMoves
<1>17. ASSUME NEW j \in DOMAIN jobs, NEW status \in Model!TrainingTerminal, Model!JobMoves(j, status)
       PROVE  ModelInv'
  <2> DEFINE y == [jobs[j] EXCEPT !.status = status]
  <2>1. jobs[j] \in JobType
    BY <1>1 DEF ModelTyped
  <2>2. /\ jobs' = [jobs EXCEPT ![j] = y] /\ UNCHANGED <<modelCalls, instances>>
        /\ jobs[j].status \notin Model!TrainingTerminal
    BY <1>17 DEF Model!JobMoves
  <2>3. y \in JobType /\ y.checkpoints = jobs[j].checkpoints /\ jobs[j].checkpoints \in Nat
    BY <2>1 DEF JobType
  <2> HIDE DEF y
  <2>4. jobs[j].checkpoints <= y.checkpoints
    BY <2>3
  <2> QED
    BY <1>16, <2>2, <2>3, <2>4
<1>18. ASSUME NEW j \in DOMAIN jobs, Model!JobCheckpoint(j)
       PROVE  ModelInv'
  <2> DEFINE y == [jobs[j] EXCEPT !.checkpoints = jobs[j].checkpoints + 1]
  <2>1. jobs[j] \in JobType
    BY <1>1 DEF ModelTyped
  <2>2. /\ jobs' = [jobs EXCEPT ![j] = y] /\ UNCHANGED <<modelCalls, instances>>
        /\ jobs[j].status = "queued"
    BY <1>18 DEF Model!JobCheckpoint
  <2>3. y \in JobType /\ y.checkpoints = jobs[j].checkpoints + 1 /\ jobs[j].checkpoints \in Nat
    BY <2>1 DEF JobType
  <2> HIDE DEF y
  <2>4. jobs[j].checkpoints <= y.checkpoints
    BY <2>3
  <2>5. jobs[j].status \notin Model!TrainingTerminal
    BY <2>2 DEF Model!TrainingTerminal
  <2> QED
    BY <1>16, <2>2, <2>3, <2>4, <2>5
<1>19. CASE Model!ModelNext
  BY <1>3, <1>4, <1>5, <1>7, <1>8, <1>9, <1>10, <1>11, <1>12, <1>14, <1>15, <1>17, <1>18, <1>19, Zenon
  DEF Model!ModelNext
<1> QED
  BY <1>2, <1>19

LEMMA ModelsHold ==
    ASSUME ModelInv
    PROVE  Model!FollowedToTheEnd
<1>1. SUFFICES ASSUME NEW c \in DOMAIN modelCalls
               PROVE  LET call == modelCalls[c] IN
                      /\ call.kind = "train" /\ call.id # 0 =>
                            /\ \A k \in DOMAIN call.told : call.told[k] = k
                            /\ Len(call.told) <= jobs[call.id].checkpoints
                            /\ call.at \in {"ready", "cancelled"} => Len(call.told) = jobs[call.id].checkpoints
                      /\ call.at = "deployed" => call.model = call.id /\ instances[call.model].state = "running"
  BY DEF Model!FollowedToTheEnd
<1>2. CallRight(modelCalls[c], jobs, instances)
  BY DEF ModelInv, CallsRight
<1> QED
  BY <1>2 DEF CallRight, ModelInv, ModelTyped

-----------------------------------------------------------------------------
(***************************************************************************)
(* Sandpits: what the jobs of a session cost is a sum over the finite set  *)
(* of their deployments, whose spend no longer moves. A sum is defined by  *)
(* recursion on the subsets; a fact about all of them holds because the    *)
(* smallest one it fails for would be preceded by another.                 *)
(***************************************************************************)

\* The deployment that the fold takes out of a set next.
TakenNext(T) == CHOOSE x \in T : TRUE

\* One step of the fold over a set T, given the sums g of its subsets.
CostStep(m, g, T) == IF T = {} THEN 0 ELSE m[TakenNext(T)].spend + g[T \ {TakenNext(T)}]

\* The costs of the subsets of S.
Costs(m, S) == CHOOSE g : g = [T \in SUBSET S |-> CostStep(m, g, T)]
Cost(m, S) == Costs(m, S)[S]

\* What the costs of the subsets of S are, when every cost in it is a number.
AreCosts(m, g, S) ==
    /\ \A x \in S : m[x].spend \in Nat
    /\ g \in [SUBSET S -> Nat]
    /\ \A T \in SUBSET S : g[T] = CostStep(m, g, T)

LEMMA SumIsCost ==
    ASSUME NEW S
    PROVE  Sandpit!MapThenSumSet(LAMBDA id : metered[id].spend, S) = Cost(metered, S)
BY DEF Sandpit!MapThenSumSet, Sandpit!MapThenFoldSet, Cost, Costs, CostStep, TakenNext

\* Without an element a finite set is smaller.
LEMMA SmallerWithout ==
    ASSUME NEW S, IsFiniteSet(S), NEW T \in SUBSET S, NEW t \in T
    PROVE  /\ T \ {t} \in SUBSET S /\ Cardinality(T) \in Nat \ {0}
           /\ Cardinality(T \ {t}) = Cardinality(T) - 1
           /\ Cardinality(T \ {t}) \in Nat /\ Cardinality(T \ {t}) < Cardinality(T)
<1>1. IsFiniteSet(T) /\ Cardinality(T) \in Nat
  BY FS_Subset, FS_CardinalityType
<1>2. Cardinality(T) # 0
  BY <1>1, FS_EmptySet
<1>3. Cardinality(T \ {t}) = Cardinality(T) - 1
  BY <1>1, FS_RemoveElement
<1> DEFINE n == Cardinality(T)
<1> HIDE DEF n
<1>4. n \in Nat \ {0} => n - 1 \in Nat /\ n - 1 < n
  OBVIOUS
<1> QED
  BY <1>1, <1>2, <1>3, <1>4 DEF n

LEMMA TakenIs ==
    ASSUME NEW T, T # {}
    PROVE  TakenNext(T) \in T
BY DEF TakenNext

\* The costs of all subsets exist.
LEMMA CostsExist ==
    ASSUME NEW S, IsFiniteSet(S), NEW m, \A x \in S : m[x].spend \in Nat
    PROVE  AreCosts(m, Costs(m, S), S)
<1> DEFINE Upto(n) == {T \in SUBSET S : Cardinality(T) <= n}
           Solves(g, n) == \A T \in Upto(n) : g[T] = CostStep(m, g, T)
           Bad == {n \in Nat : ~ \E g \in [Upto(n) -> Nat] : Solves(g, n)}
<1>1. Bad = {}
  <2>1. SUFFICES ASSUME Bad # {}
                 PROVE  FALSE
    OBVIOUS
  <2>2. PICK n \in Bad : \A k \in Bad : n <= k
    BY <2>1, LeastNumber
  <2>3. n \in Nat
    OBVIOUS
  <2>4. n # 0 => n - 1 \in Nat /\ n - 1 \notin Bad
    <3> HIDE DEF Bad
    <3> QED
      BY <2>2, <2>3
  <2>5. CASE n = 0
    <3> DEFINE g == [T \in Upto(0) |-> 0]
    <3>1. ASSUME NEW T \in Upto(0)
          PROVE  T = {}
      <4>1. T \in SUBSET S /\ Cardinality(T) <= 0
        OBVIOUS
      <4>2. T # {} => Cardinality(T) \in Nat \ {0}
        BY <4>1, SmallerWithout, TakenIs
      <4> HIDE DEF Upto
      <4> QED
        BY <4>1, <4>2
    <3>2. g \in [Upto(0) -> Nat] /\ Solves(g, 0)
      BY <3>1 DEF CostStep
    <3> HIDE DEF g
    <3> QED
      BY <2>2, <2>5, <3>2
  <2>6. CASE n # 0
    <3>1. PICK g \in [Upto(n - 1) -> Nat] : Solves(g, n - 1)
      BY <2>3, <2>4, <2>6
    <3> DEFINE h == [T \in Upto(n) |-> CostStep(m, g, T)]
    <3>2. ASSUME NEW T \in Upto(n), T # {}
          PROVE  /\ TakenNext(T) \in S
                 /\ T \ {TakenNext(T)} \in Upto(n - 1)
                 /\ T \ {TakenNext(T)} \in Upto(n)
      BY <2>3, <3>2, SmallerWithout, TakenIs
    <3>3. \A T \in Upto(n) : h[T] \in Nat
      BY <3>1, <3>2 DEF CostStep
    <3>4. h \in [Upto(n) -> Nat]
      BY <3>3
    <3>5. \A U \in Upto(n - 1) : U \in Upto(n) => h[U] = g[U]
      BY <3>1
    <3>6. Solves(h, n)
      <4> SUFFICES ASSUME NEW T \in Upto(n)
                   PROVE  h[T] = CostStep(m, h, T)
        OBVIOUS
      <4>1. h[T] = CostStep(m, g, T)
        OBVIOUS
      <4>2. T # {} => h[T \ {TakenNext(T)}] = g[T \ {TakenNext(T)}]
        BY <3>2, <3>5
      <4> HIDE DEF h
      <4> QED
        BY <4>1, <4>2 DEF CostStep
    <3> HIDE DEF h
    <3> QED
      BY <2>2, <3>4, <3>6
  <2> QED
    BY <2>5, <2>6
<1>2. IsFiniteSet(S) /\ Cardinality(S) \in Nat
  BY FS_CardinalityType
<1>3. Upto(Cardinality(S)) = SUBSET S
  BY <1>2, FS_Subset
<1>4. PICK g \in [SUBSET S -> Nat] : \A T \in SUBSET S : g[T] = CostStep(m, g, T)
  BY <1>1, <1>2, <1>3
<1>5. g = [T \in SUBSET S |-> CostStep(m, g, T)]
  BY <1>4
<1>6. Costs(m, S) = [T \in SUBSET S |-> CostStep(m, Costs(m, S), T)]
  BY <1>5 DEF Costs
<1> DEFINE c == Costs(m, S)
<1> HIDE DEF c
<1>7. c = [T \in SUBSET S |-> CostStep(m, c, T)]
  BY <1>6 DEF c
<1>8. \A T \in SUBSET S : c[T] = CostStep(m, c, T)
  BY <1>7
<1> DEFINE Wrong == {n \in Nat : \E T \in SUBSET S : Cardinality(T) = n /\ c[T] \notin Nat}
<1>9. Wrong = {}
  <2>1. SUFFICES ASSUME Wrong # {}
                 PROVE  FALSE
    OBVIOUS
  <2>2. PICK n \in Wrong : \A k \in Wrong : n <= k
    BY <2>1, LeastNumber
  <2>3. PICK T \in SUBSET S : Cardinality(T) = n /\ c[T] \notin Nat
    BY <2>2
  <2>4. T # {}
    <3>1. {} \in SUBSET S
      OBVIOUS
    <3>2. c[{}] = 0
      BY <1>8, <3>1 DEF CostStep
    <3>3. c[{}] \in Nat
      BY <3>2
    <3> QED
      BY <2>3, <3>3, Zenon
  <2> DEFINE t == TakenNext(T)
  <2>5. t \in T /\ t \in S /\ T \ {t} \in SUBSET S /\ Cardinality(T \ {t}) \in Nat /\ Cardinality(T \ {t}) < n
    BY <2>3, <2>4, SmallerWithout, TakenIs
  <2>6. c[T] = m[t].spend + c[T \ {t}]
    BY <1>8, <2>4 DEF CostStep
  <2> HIDE DEF t
  <2>7. c[T \ {t}] \notin Nat
    BY <2>3, <2>5, <2>6
  <2>8. Cardinality(T \ {t}) \in Wrong
    BY <2>5, <2>7
  <2> HIDE DEF Wrong
  <2>9. n \in Nat /\ n <= Cardinality(T \ {t})
    BY <2>2, <2>8 DEF Wrong
  <2> QED
    BY <2>5, <2>9
<1>10. \A T \in SUBSET S : c[T] \in Nat
  <2>1. \A T \in SUBSET S : Cardinality(T) \in Nat
    BY FS_Subset, FS_CardinalityType
  <2> QED
    BY <1>9, <2>1
<1>11. c \in [SUBSET S -> Nat]
  BY <1>7, <1>10
<1> QED
  BY <1>8, <1>11 DEF AreCosts, c

\* Costs that are the same add up to the same, whatever set they were added up in.
LEMMA SameCosts ==
    ASSUME NEW J, IsFiniteSet(J), NEW S, J \subseteq S, NEW R, J \subseteq R,
           NEW m, NEW g, AreCosts(m, g, S), NEW m2, NEW h, AreCosts(m2, h, R),
           \A x \in J : m[x].spend = m2[x].spend
    PROVE  g[J] = h[J]
<1> DEFINE Bad == {n \in Nat : \E T \in SUBSET J : Cardinality(T) = n /\ g[T] # h[T]}
<1>1. \A T \in SUBSET J : g[T] = CostStep(m, g, T) /\ h[T] = CostStep(m2, h, T)
  BY DEF AreCosts
<1>2. Bad = {}
  <2>1. SUFFICES ASSUME Bad # {}
                 PROVE  FALSE
    OBVIOUS
  <2>2. PICK n \in Bad : \A k \in Bad : n <= k
    BY <2>1, LeastNumber
  <2>3. PICK T \in SUBSET J : Cardinality(T) = n /\ g[T] # h[T]
    BY <2>2
  <2>4. T # {}
    BY <1>1, <2>3 DEF CostStep
  <2> DEFINE t == TakenNext(T)
  <2>5. t \in J /\ T \ {t} \in SUBSET J /\ Cardinality(T \ {t}) \in Nat /\ Cardinality(T \ {t}) < n
    BY <2>3, <2>4, SmallerWithout, TakenIs
  <2>6. g[T] = m[t].spend + g[T \ {t}] /\ h[T] = m2[t].spend + h[T \ {t}]
    BY <1>1, <2>4 DEF CostStep
  <2>7. m[t].spend = m2[t].spend
    BY <2>5
  <2> HIDE DEF t
  <2>8. g[T \ {t}] # h[T \ {t}]
    BY <2>3, <2>6, <2>7
  <2>9. Cardinality(T \ {t}) \in Bad
    BY <2>5, <2>8
  <2> HIDE DEF Bad
  <2>10. n \in Nat /\ n <= Cardinality(T \ {t})
    BY <2>2, <2>9 DEF Bad
  <2> QED
    BY <2>5, <2>10
<1> QED
  BY <1>2, FS_CardinalityType

\* The cost of a set is that of any of its elements and that of the others.
LEMMA CostAdds ==
    ASSUME NEW S, IsFiniteSet(S), NEW m, NEW g, AreCosts(m, g, S), NEW t \in S
    PROVE  g[S] = m[t].spend + g[S \ {t}]
<1> DEFINE Splits(T) == \A x \in T : g[T] = m[x].spend + g[T \ {x}]
           Bad == {n \in Nat : \E T \in SUBSET S : Cardinality(T) = n /\ ~Splits(T)}
<1>1. /\ \A T \in SUBSET S : g[T] = CostStep(m, g, T) /\ g[T] \in Nat
      /\ \A x \in S : m[x].spend \in Nat
  BY DEF AreCosts
<1>2. Bad = {}
  <2>1. SUFFICES ASSUME Bad # {}
                 PROVE  FALSE
    OBVIOUS
  <2>2. PICK n \in Bad : \A k \in Bad : n <= k
    BY <2>1, LeastNumber
  <2>3. PICK T \in SUBSET S : Cardinality(T) = n /\ ~Splits(T)
    BY <2>2
  <2>4. PICK x \in T : g[T] # m[x].spend + g[T \ {x}]
    BY <2>3
  <2> DEFINE e == TakenNext(T)
  <2>5. e \in T /\ g[T] = m[e].spend + g[T \ {e}]
    BY <1>1, <2>4, TakenIs DEF CostStep
  <2> HIDE DEF e
  <2>6. e # x
    BY <2>4, <2>5
  <2>7. ASSUME NEW y \in T
        PROVE  T \ {y} \in SUBSET S /\ Splits(T \ {y})
    <3>1. T \ {y} \in SUBSET S /\ Cardinality(T \ {y}) \in Nat /\ Cardinality(T \ {y}) < n
      BY <2>3, SmallerWithout
    <3>2. ~Splits(T \ {y}) => Cardinality(T \ {y}) \in Bad
      BY <3>1
    <3> HIDE DEF Bad, Splits
    <3>3. n \in Nat
      BY <2>2 DEF Bad
    <3> QED
      BY <2>2, <3>1, <3>2, <3>3
  <2>8. g[T \ {e}] = m[x].spend + g[(T \ {e}) \ {x}]
    BY <2>5, <2>6, <2>7
  <2>9. g[T \ {x}] = m[e].spend + g[(T \ {x}) \ {e}]
    BY <2>5, <2>6, <2>7
  <2>10. (T \ {e}) \ {x} = (T \ {x}) \ {e}
    OBVIOUS
  <2> DEFINE a == m[x].spend
             b == m[e].spend
             r == g[(T \ {x}) \ {e}]
  <2>11. a \in Nat /\ b \in Nat /\ r \in Nat
    BY <1>1, <2>5
  <2>12. g[T] = b + (a + r) /\ g[T] # a + (b + r)
    BY <2>4, <2>5, <2>8, <2>9, <2>10
  <2> HIDE DEF a, b, r
  <2> QED
    BY <2>11, <2>12
<1>3. Cardinality(S) \in Nat
  BY FS_CardinalityType
<1>4. Splits(S)
  BY <1>2, <1>3
<1> QED
  BY <1>4

\* A finite set of numbered costs, and what it costs.
Priced(m, S) == IsFiniteSet(S) /\ \A x \in S : m[x].spend \in Nat

\* What happens to other deployments changes nothing.
LEMMA CostStays ==
    ASSUME NEW m, NEW m2, NEW J, Priced(m, J), \A x \in J : m2[x].spend = m[x].spend
    PROVE  Cost(m2, J) = Cost(m, J) /\ Cost(m, J) \in Nat
<1>1. Priced(m2, J)
  BY DEF Priced
<1>2. AreCosts(m, Costs(m, J), J) /\ AreCosts(m2, Costs(m2, J), J)
  BY <1>1, CostsExist DEF Priced
<1>3. Costs(m, J)[J] = Costs(m2, J)[J]
  BY <1>2, SameCosts DEF Priced
<1>4. Costs(m, J)[J] \in Nat
  BY <1>2 DEF AreCosts
<1> QED
  BY <1>3, <1>4 DEF Cost

\* Another deployment adds what it cost.
LEMMA CostGrows ==
    ASSUME NEW m, NEW J, Priced(m, J), NEW t, t \notin J, m[t].spend \in Nat
    PROVE  Priced(m, J \cup {t}) /\ Cost(m, J \cup {t}) = Cost(m, J) + m[t].spend
<1> DEFINE S == J \cup {t}
<1>1. Priced(m, S) /\ t \in S
  BY FS_AddElement DEF Priced
<1>2. S \ {t} = J
  OBVIOUS
<1> HIDE DEF S
<1>3. AreCosts(m, Costs(m, J), J) /\ AreCosts(m, Costs(m, S), S)
  BY <1>1, CostsExist DEF Priced
<1>4. Costs(m, S)[S] = m[t].spend + Costs(m, S)[J]
  BY <1>1, <1>2, <1>3, CostAdds DEF Priced
<1>5. J \subseteq S
  BY <1>2
<1>6. Costs(m, S)[J] = Costs(m, J)[J]
  BY <1>3, <1>5, SameCosts DEF Priced
<1>7. Costs(m, J)[J] \in Nat
  BY <1>3 DEF AreCosts
<1> DEFINE a == Costs(m, J)[J]
           b == m[t].spend
<1>8. Cost(m, S) = b + a /\ Cost(m, J) = a /\ a \in Nat /\ b \in Nat
  BY <1>4, <1>6, <1>7 DEF Cost
<1> HIDE DEF a, b
<1>9. Cost(m, S) = Cost(m, J) + b
  BY <1>8
<1> QED
  BY <1>1, <1>9 DEF S, b

LEMMA NothingCosts ==
    ASSUME NEW m
    PROVE  Cost(m, {}) = 0
<1>1. IsFiniteSet({}) /\ \A x \in {} : m[x].spend \in Nat
  BY FS_EmptySet
<1>2. AreCosts(m, Costs(m, {}), {})
  BY <1>1, CostsExist
<1>3. Costs(m, {})[{}] = CostStep(m, Costs(m, {}), {})
  BY <1>2 DEF AreCosts
<1> QED
  BY <1>3 DEF Cost, CostStep

MeteredType == [state : {"provisioning", "running", "stopped", "failed", "destroyed"}, spend : Nat]
SandpitType == [container : Nat, created : Nat, spend : Nat, jobs : SUBSET Nat, known : BOOLEAN]
SandpitCallType ==
    [kind : {"create", "job", "destroy"}, session : Nat,
     at : {"covenant", "placing", "destroying", "monitoring", "done", "failed"},
     id : Nat, before : Nat, total : Nat]

\* A call is for a session there is, and follows a deployment there is.
CallPlaced(x, pits, meters) ==
    /\ x.kind # "create" => x.session \in DOMAIN pits
    /\ x.at = "destroying" => x.kind = "destroy"
    /\ x.at = "monitoring" => x.id \in DOMAIN meters

SandpitTyped ==
    /\ metered \in Seq(MeteredType) /\ sandpits \in Seq(SandpitType)
    /\ sandpitCalls \in Seq(SandpitCallType)
    /\ \A s \in DOMAIN sandpits : sandpits[s].container \in DOMAIN metered
    /\ \A c \in DOMAIN sandpitCalls : CallPlaced(sandpitCalls[c], sandpits, metered)

Moving(meters, id) == meters[id].state \in {"provisioning", "running"}
FollowsJob(x) == x.kind = "job" /\ x.at = "monitoring"

\* A job that was counted costs no more than it did, and one that is followed was not counted
\* and is followed by one call.
JobsApart ==
    /\ \A s \in DOMAIN sandpits :
          /\ IsFiniteSet(sandpits[s].jobs)
          /\ \A id \in sandpits[s].jobs : id \in DOMAIN metered /\ ~Moving(metered, id)
    /\ \A c \in DOMAIN sandpitCalls : FollowsJob(sandpitCalls[c]) =>
          /\ \A s \in DOMAIN sandpits : sandpitCalls[c].id \notin sandpits[s].jobs
          /\ \A d \in DOMAIN sandpitCalls \ {c} : FollowsJob(sandpitCalls[d]) =>
                sandpitCalls[d].id # sandpitCalls[c].id

JobsCounted ==
    \A s \in DOMAIN sandpits : sandpits[s].spend = Cost(metered, sandpits[s].jobs) + sandpits[s].created

SandpitInv == SandpitTyped /\ JobsApart /\ JobsCounted

LEMMA SandpitStarts ==
    ASSUME Sandpit!SandpitInit
    PROVE  SandpitInv
BY DEF Sandpit!SandpitInit, SandpitInv, SandpitTyped, JobsApart, JobsCounted

\* What a deployment that no longer moves cost stays as it is.
MetersKeep ==
    \A id \in DOMAIN metered :
        /\ id \in DOMAIN metered'
        /\ ~Moving(metered, id) => ~Moving(metered', id) /\ metered'[id].spend = metered[id].spend

\* No session counts another job, and a new one has none.
PitsKeep ==
    /\ \A s \in DOMAIN sandpits :
          /\ s \in DOMAIN sandpits'
          /\ sandpits'[s].jobs = sandpits[s].jobs
          /\ sandpits'[s].spend = sandpits[s].spend
          /\ sandpits'[s].created = sandpits[s].created
    /\ \A s \in DOMAIN sandpits' \ DOMAIN sandpits :
          sandpits'[s].jobs = {} /\ sandpits'[s].spend = sandpits'[s].created

\* A call that comes to follow a job follows a new deployment.
FollowsNew ==
    \A c \in DOMAIN sandpitCalls' : FollowsJob(sandpitCalls'[c]) =>
        \/ /\ c \in DOMAIN sandpitCalls /\ FollowsJob(sandpitCalls[c])
           /\ sandpitCalls'[c].id = sandpitCalls[c].id
        \/ /\ sandpitCalls'[c].id \notin DOMAIN metered
           /\ \A d \in DOMAIN sandpitCalls' \ {c} : FollowsJob(sandpitCalls'[d]) =>
                 d \in DOMAIN sandpitCalls /\ FollowsJob(sandpitCalls[d])
                 /\ sandpitCalls'[d].id = sandpitCalls[d].id

LEMMA PricedJobs ==
    ASSUME SandpitInv, NEW s \in DOMAIN sandpits
    PROVE  Priced(metered, sandpits[s].jobs)
<1>1. IsFiniteSet(sandpits[s].jobs) /\ \A id \in sandpits[s].jobs : id \in DOMAIN metered
  BY DEF SandpitInv, JobsApart
<1>2. \A id \in DOMAIN metered : metered[id] \in MeteredType
  BY DEF SandpitInv, SandpitTyped
<1>3. \A id \in DOMAIN metered : metered[id].spend \in Nat
  BY <1>2 DEF MeteredType
<1> QED
  BY <1>1, <1>3 DEF Priced

LEMMA SandpitKeeps ==
    ASSUME SandpitInv, SandpitTyped', MetersKeep, PitsKeep, FollowsNew
    PROVE  SandpitInv'
<1>1. SandpitTyped /\ JobsApart /\ JobsCounted
  BY DEF SandpitInv
<1>2. \A c \in DOMAIN sandpitCalls : FollowsJob(sandpitCalls[c]) => sandpitCalls[c].id \in DOMAIN metered
  BY <1>1 DEF SandpitTyped, CallPlaced, FollowsJob
<1>3. ASSUME NEW s \in DOMAIN sandpits'
      PROVE  /\ IsFiniteSet(sandpits'[s].jobs)
             /\ \A id \in sandpits'[s].jobs : id \in DOMAIN metered' /\ ~Moving(metered', id)
             /\ sandpits'[s].spend = Cost(metered', sandpits'[s].jobs) + sandpits'[s].created
  <2>1. CASE s \in DOMAIN sandpits
    <3>1. /\ sandpits'[s].jobs = sandpits[s].jobs /\ sandpits'[s].spend = sandpits[s].spend
          /\ sandpits'[s].created = sandpits[s].created
      BY <2>1 DEF PitsKeep
    <3>2. /\ IsFiniteSet(sandpits[s].jobs)
          /\ \A id \in sandpits[s].jobs : id \in DOMAIN metered /\ ~Moving(metered, id)
          /\ sandpits[s].spend = Cost(metered, sandpits[s].jobs) + sandpits[s].created
      BY <1>1, <2>1 DEF JobsApart, JobsCounted
    <3>3. \A id \in sandpits[s].jobs : /\ id \in DOMAIN metered' /\ ~Moving(metered', id)
                                       /\ metered'[id].spend = metered[id].spend
      BY <3>2 DEF MetersKeep
    <3>4. Cost(metered', sandpits[s].jobs) = Cost(metered, sandpits[s].jobs)
      BY <2>1, <3>3, PricedJobs, CostStays
    <3> QED
      BY <3>1, <3>2, <3>3, <3>4
  <2>2. CASE s \notin DOMAIN sandpits
    <3>1. sandpits'[s].jobs = {} /\ sandpits'[s].spend = sandpits'[s].created
      BY <2>2 DEF PitsKeep
    <3>2. sandpits'[s] \in SandpitType
      BY DEF SandpitTyped
    <3>3. sandpits'[s].created \in Nat
      BY <3>2 DEF SandpitType
    <3>4. Cost(metered', {}) = 0
      BY NothingCosts
    <3> QED
      BY <3>1, <3>3, <3>4, FS_EmptySet
  <2> QED
    BY <2>1, <2>2
<1>4. ASSUME NEW s \in DOMAIN sandpits', NEW id \in sandpits'[s].jobs
      PROVE  s \in DOMAIN sandpits /\ id \in sandpits[s].jobs /\ id \in DOMAIN metered
  BY <1>1, <1>4 DEF PitsKeep, JobsApart
<1>5. ASSUME NEW c \in DOMAIN sandpitCalls', FollowsJob(sandpitCalls'[c])
      PROVE  /\ \A s \in DOMAIN sandpits' : sandpitCalls'[c].id \notin sandpits'[s].jobs
             /\ \A d \in DOMAIN sandpitCalls' \ {c} : FollowsJob(sandpitCalls'[d]) =>
                   sandpitCalls'[d].id # sandpitCalls'[c].id
  <2>1. CASE sandpitCalls'[c].id \notin DOMAIN metered
    <3>1. ASSUME NEW d \in DOMAIN sandpitCalls' \ {c}, FollowsJob(sandpitCalls'[d])
          PROVE  sandpitCalls'[d].id # sandpitCalls'[c].id
      <4>1. \/ sandpitCalls'[d].id \in DOMAIN metered
            \/ /\ sandpitCalls'[d].id \notin DOMAIN metered
               /\ c \in DOMAIN sandpitCalls /\ FollowsJob(sandpitCalls[c])
               /\ sandpitCalls'[c].id = sandpitCalls[c].id
        BY <1>2, <1>5, <3>1 DEF FollowsNew
      <4> QED
        BY <1>2, <2>1, <4>1
    <3> QED
      BY <1>4, <2>1, <3>1
  <2>2. CASE sandpitCalls'[c].id \in DOMAIN metered
    <3>1. /\ c \in DOMAIN sandpitCalls /\ FollowsJob(sandpitCalls[c])
          /\ sandpitCalls'[c].id = sandpitCalls[c].id
      BY <1>5, <2>2 DEF FollowsNew
    <3>2. /\ \A s \in DOMAIN sandpits : sandpitCalls[c].id \notin sandpits[s].jobs
          /\ \A d \in DOMAIN sandpitCalls \ {c} : FollowsJob(sandpitCalls[d]) =>
                sandpitCalls[d].id # sandpitCalls[c].id
      BY <1>1, <3>1 DEF JobsApart
    <3>3. ASSUME NEW d \in DOMAIN sandpitCalls' \ {c}, FollowsJob(sandpitCalls'[d])
          PROVE  sandpitCalls'[d].id # sandpitCalls'[c].id
      <4>1. CASE sandpitCalls'[d].id \notin DOMAIN metered
        BY <2>2, <4>1
      <4>2. CASE sandpitCalls'[d].id \in DOMAIN metered
        <5>1. /\ d \in DOMAIN sandpitCalls /\ FollowsJob(sandpitCalls[d])
              /\ sandpitCalls'[d].id = sandpitCalls[d].id
          BY <3>3, <4>2 DEF FollowsNew
        <5> QED
          BY <3>1, <3>2, <5>1
      <4> QED
        BY <4>1, <4>2
    <3> QED
      BY <1>4, <3>1, <3>2, <3>3
  <2> QED
    BY <2>1, <2>2
<1>6. JobsApart'
  <2>1. \A s \in DOMAIN sandpits' :
           /\ IsFiniteSet(sandpits'[s].jobs)
           /\ \A id \in sandpits'[s].jobs : id \in DOMAIN metered' /\ ~Moving(metered', id)
    BY <1>3
  <2>2. \A c \in DOMAIN sandpitCalls' : FollowsJob(sandpitCalls'[c]) =>
           /\ \A s \in DOMAIN sandpits' : sandpitCalls'[c].id \notin sandpits'[s].jobs
           /\ \A d \in DOMAIN sandpitCalls' \ {c} : FollowsJob(sandpitCalls'[d]) =>
                 sandpitCalls'[d].id # sandpitCalls'[c].id
    BY <1>5
  <2> QED
    BY <2>1, <2>2 DEF JobsApart
<1>7. JobsCounted'
  BY <1>3 DEF JobsCounted
<1> QED
  BY <1>6, <1>7 DEF SandpitInv

\* A call moves on, or begins: it is at another place, and follows nothing old.
LEMMA SandpitCallGoes ==
    ASSUME SandpitInv, NEW c, NEW y \in SandpitCallType,
           sandpitCalls' \in Seq(SandpitCallType),
           DOMAIN sandpitCalls' = DOMAIN sandpitCalls \cup {c}, sandpitCalls'[c] = y,
           \A d \in DOMAIN sandpitCalls \ {c} : sandpitCalls'[d] = sandpitCalls[d],
           CallPlaced(y, sandpits', metered'), FollowsJob(y) => y.id \notin DOMAIN metered,
           metered' \in Seq(MeteredType), sandpits' \in Seq(SandpitType),
           \A s \in DOMAIN sandpits' : sandpits'[s].container \in DOMAIN metered',
           MetersKeep, PitsKeep
    PROVE  SandpitInv'
<1>1. \A d \in DOMAIN sandpitCalls : CallPlaced(sandpitCalls[d], sandpits, metered)
  BY DEF SandpitInv, SandpitTyped
<1>2. DOMAIN sandpits \subseteq DOMAIN sandpits' /\ DOMAIN metered \subseteq DOMAIN metered'
  BY DEF PitsKeep, MetersKeep
<1>3. ASSUME NEW d \in DOMAIN sandpitCalls'
      PROVE  CallPlaced(sandpitCalls'[d], sandpits', metered')
  BY <1>1, <1>2 DEF CallPlaced
<1>4. SandpitTyped'
  BY <1>3 DEF SandpitTyped
<1>5. FollowsNew
  BY DEF FollowsNew
<1> QED
  BY <1>4, <1>5, SandpitKeeps

\* Nothing else moves.
LEMMA SandpitsRest ==
    ASSUME SandpitTyped
    PROVE  /\ metered' = metered => MetersKeep
           /\ sandpits' = sandpits => PitsKeep
BY DEF MetersKeep, PitsKeep, Moving

\* A deployment is made.
LEMMA MetersAppend ==
    ASSUME SandpitTyped, NEW m \in MeteredType, metered' = Append(metered, m)
    PROVE  /\ metered' \in Seq(MeteredType) /\ MetersKeep
           /\ DOMAIN metered' = DOMAIN metered \cup {Len(metered) + 1}
           /\ Len(metered) + 1 \notin DOMAIN metered /\ Len(metered) + 1 \in Nat
           /\ DOMAIN metered \subseteq DOMAIN metered'
<1>1. metered \in Seq(MeteredType)
  BY DEF SandpitTyped
<1>2. /\ metered' \in Seq(MeteredType) /\ DOMAIN metered' = DOMAIN metered \cup {Len(metered) + 1}
      /\ Len(metered) + 1 \notin DOMAIN metered /\ Len(metered) + 1 \in Nat
      /\ \A id \in DOMAIN metered : metered'[id] = metered[id]
  BY <1>1
<1>3. MetersKeep
  BY <1>2 DEF MetersKeep, Moving
<1> QED
  BY <1>2, <1>3

\* A call goes to another place, where it follows nothing.
LEMMA SandpitCallMoves ==
    ASSUME SandpitInv, NEW c \in DOMAIN sandpitCalls,
           NEW at \in {"placing", "destroying", "done", "failed"},
           at = "destroying" => sandpitCalls[c].kind = "destroy",
           sandpitCalls' = Sandpit!Goes(c, at), sandpits' = sandpits,
           metered' \in Seq(MeteredType), DOMAIN metered \subseteq DOMAIN metered', MetersKeep
    PROVE  SandpitInv'
<1> DEFINE x == sandpitCalls[c]
           y == [x EXCEPT !.at = at]
<1>1. /\ SandpitTyped /\ sandpitCalls \in Seq(SandpitCallType) /\ x \in SandpitCallType
      /\ CallPlaced(x, sandpits, metered)
  BY DEF SandpitInv, SandpitTyped
<1>2. sandpitCalls' = [sandpitCalls EXCEPT ![c] = y]
  BY DEF Sandpit!Goes
<1>3. x.kind = sandpitCalls[c].kind
  OBVIOUS
<1> HIDE DEF x
<1>4. y \in SandpitCallType /\ y.at = at /\ y.kind = x.kind /\ y.session = x.session
  BY <1>1 DEF SandpitCallType
<1> HIDE DEF y
<1>5. /\ sandpitCalls' \in Seq(SandpitCallType) /\ DOMAIN sandpitCalls' = DOMAIN sandpitCalls \cup {c}
      /\ sandpitCalls'[c] = y
      /\ \A d \in DOMAIN sandpitCalls \ {c} : sandpitCalls'[d] = sandpitCalls[d]
  <2>1. /\ sandpitCalls' \in Seq(SandpitCallType) /\ DOMAIN sandpitCalls' = DOMAIN sandpitCalls
        /\ sandpitCalls'[c] = y
        /\ \A d \in DOMAIN sandpitCalls \ {c} : sandpitCalls'[d] = sandpitCalls[d]
    BY <1>1, <1>2, <1>4, SeqExcept
  <2> QED
    BY <2>1
<1>6. CallPlaced(y, sandpits', metered') /\ ~FollowsJob(y)
  BY <1>1, <1>3, <1>4 DEF CallPlaced, FollowsJob
<1>7. PitsKeep /\ sandpits' \in Seq(SandpitType) /\ \A s \in DOMAIN sandpits' : sandpits'[s].container \in DOMAIN metered'
  BY <1>1, SandpitsRest DEF SandpitTyped
<1> QED
  BY <1>4, <1>5, <1>6, <1>7, SandpitCallGoes

LEMMA SandpitCallBegins ==
    ASSUME SandpitInv, NEW kind \in {"create", "job", "destroy"}, NEW s \in Nat,
           (kind = "create" /\ s = 0) \/ s \in DOMAIN sandpits, Sandpit!SandpitCall(kind, s)
    PROVE  SandpitInv'
<1> DEFINE before == IF s = 0 THEN 0 ELSE sandpits[s].spend
           y == [kind |-> kind, session |-> s, at |-> "covenant", id |-> 0, before |-> before, total |-> 0]
           c == Len(sandpitCalls) + 1
<1>1. SandpitTyped /\ sandpitCalls \in Seq(SandpitCallType) /\ sandpits \in Seq(SandpitType)
  BY DEF SandpitInv, SandpitTyped
<1>2. sandpitCalls' = Append(sandpitCalls, y) /\ UNCHANGED <<sandpits, metered>>
  BY DEF Sandpit!SandpitCall
<1>3. before \in Nat
  <2>1. CASE s # 0
    <3>1. sandpits[s] \in SandpitType
      BY <1>1, <2>1
    <3> QED
      BY <2>1, <3>1 DEF SandpitType
  <2> QED
    BY <2>1
<1> HIDE DEF before
<1>4. y \in SandpitCallType /\ y.at = "covenant" /\ y.kind = kind /\ y.session = s
  BY <1>3 DEF SandpitCallType
<1> HIDE DEF y
<1>5. /\ sandpitCalls' \in Seq(SandpitCallType) /\ DOMAIN sandpitCalls' = DOMAIN sandpitCalls \cup {c}
      /\ sandpitCalls'[c] = y
      /\ \A d \in DOMAIN sandpitCalls \ {c} : sandpitCalls'[d] = sandpitCalls[d]
  BY <1>1, <1>2, <1>4
<1> HIDE DEF c
<1>6. CallPlaced(y, sandpits', metered') /\ ~FollowsJob(y)
  BY <1>2, <1>4 DEF CallPlaced, FollowsJob
<1>7. /\ PitsKeep /\ MetersKeep /\ metered' \in Seq(MeteredType) /\ sandpits' \in Seq(SandpitType)
      /\ \A t \in DOMAIN sandpits' : sandpits'[t].container \in DOMAIN metered'
  BY <1>1, <1>2, SandpitsRest DEF SandpitTyped
<1> QED
  BY <1>4, <1>5, <1>6, <1>7, SandpitCallGoes

\* A deployment moves, and nothing else does.
LEMMA MeterGoes ==
    ASSUME SandpitInv, NEW id \in DOMAIN metered, NEW m \in MeteredType, Moving(metered, id),
           metered' = [metered EXCEPT ![id] = m], UNCHANGED <<sandpits, sandpitCalls>>
    PROVE  SandpitInv'
<1>1. SandpitTyped /\ metered \in Seq(MeteredType)
  BY DEF SandpitInv, SandpitTyped
<1>2. /\ metered' \in Seq(MeteredType) /\ DOMAIN metered' = DOMAIN metered
      /\ \A k \in DOMAIN metered \ {id} : metered'[k] = metered[k]
  BY <1>1, SeqExcept
<1>3. MetersKeep
  BY <1>2 DEF MetersKeep, Moving
<1>4. SandpitTyped'
  BY <1>1, <1>2 DEF SandpitTyped, CallPlaced
<1>5. FollowsNew
  BY DEF FollowsNew
<1> QED
  BY <1>1, <1>3, <1>4, <1>5, SandpitsRest, SandpitKeeps

\* The job that ends is counted.
LEMMA JobEnds ==
    ASSUME SandpitInv, NEW c \in DOMAIN sandpitCalls, Sandpit!JobFinishes(c)
    PROVE  SandpitInv'
<1> DEFINE x == sandpitCalls[c]
           id == x.id
           s == x.session
           was == sandpits[s]
           y == [x EXCEPT !.at = "done"]
           mid == [was EXCEPT !.jobs = was.jobs \cup {id}]
           is == [mid EXCEPT !.spend = was.spend + metered[id].spend]
<1>1. SandpitTyped /\ JobsApart /\ JobsCounted
  BY DEF SandpitInv
<1>2. /\ sandpitCalls \in Seq(SandpitCallType) /\ x \in SandpitCallType
      /\ CallPlaced(x, sandpits, metered)
      /\ metered \in Seq(MeteredType) /\ sandpits \in Seq(SandpitType)
  BY <1>1 DEF SandpitTyped
<1>3. x.kind = "job" /\ x.at = "monitoring" /\ metered[id].state = "stopped" /\ metered' = metered
  BY DEF Sandpit!JobFinishes, Sandpit!Monitored
<1>4. FollowsJob(x) /\ s \in DOMAIN sandpits /\ id \in DOMAIN metered
  BY <1>2, <1>3 DEF CallPlaced, FollowsJob
<1>5. was \in SandpitType /\ metered[id] \in MeteredType /\ id \in Nat
  BY <1>2, <1>4
<1>6. metered[id].spend \in Nat /\ was.spend \in Nat /\ was.created \in Nat /\ was.jobs \in SUBSET Nat
  BY <1>5 DEF MeteredType, SandpitType
<1>7. sandpitCalls' = [sandpitCalls EXCEPT ![c] = y]
  BY DEF Sandpit!JobFinishes, Sandpit!Goes
<1>8. sandpits' = [sandpits EXCEPT ![s] = is]
  <2> DEFINE part1 == [sandpits EXCEPT ![s] = mid]
  <2>1. mid.spend = was.spend
    <3> HIDE DEF was, id
    <3> QED
      BY <1>5 DEF SandpitType
  <2>2. part1[s] = mid
    BY <1>4
  <2>3. sandpits' = [part1 EXCEPT ![s] = [part1[s] EXCEPT !.spend = part1[s].spend + metered[id].spend]]
    BY DEF Sandpit!JobFinishes
  <2>4. [part1[s] EXCEPT !.spend = part1[s].spend + metered[id].spend] = is
    BY <2>1, <2>2
  <2> HIDE DEF is, mid
  <2>5. sandpits' = [part1 EXCEPT ![s] = is]
    BY <2>3, <2>4
  <2> QED
    BY <2>5
<1>9. /\ \A id2 \in {id} : \A t \in DOMAIN sandpits : id2 \notin sandpits[t].jobs
      /\ \A d \in DOMAIN sandpitCalls \ {c} : FollowsJob(sandpitCalls[d]) => sandpitCalls[d].id # id
  BY <1>1, <1>4 DEF JobsApart
<1>10. was.spend = Cost(metered, was.jobs) + was.created /\ Priced(metered, was.jobs) /\ id \notin was.jobs
  BY <1>1, <1>4, <1>9, PricedJobs DEF JobsCounted
<1>11. y \in SandpitCallType /\ y.at = "done" /\ y.kind = x.kind /\ y.session = x.session
  <2> HIDE DEF x
  <2> QED
    BY <1>2 DEF SandpitCallType
<1>12. /\ is \in SandpitType /\ is.jobs = was.jobs \cup {id} /\ is.created = was.created
       /\ is.spend = was.spend + metered[id].spend /\ is.container = was.container
  <2> DEFINE n == was.spend + metered[id].spend
             j == was.jobs \cup {id}
  <2>1. n \in Nat /\ j \in SUBSET Nat
    BY <1>5, <1>6
  <2> HIDE DEF was, id, n, j
  <2>2. /\ [[was EXCEPT !.jobs = j] EXCEPT !.spend = n] \in SandpitType
        /\ [[was EXCEPT !.jobs = j] EXCEPT !.spend = n].jobs = j
        /\ [[was EXCEPT !.jobs = j] EXCEPT !.spend = n].created = was.created
        /\ [[was EXCEPT !.jobs = j] EXCEPT !.spend = n].spend = n
        /\ [[was EXCEPT !.jobs = j] EXCEPT !.spend = n].container = was.container
    BY <1>5, <2>1 DEF SandpitType
  <2> QED
    BY <2>2 DEF n, j
<1>13. is.spend = Cost(metered, is.jobs) + is.created
  <2> DEFINE a == Cost(metered, was.jobs)
             b == metered[id].spend
             k == was.created
  <2>1. Cost(metered, was.jobs \cup {id}) = a + b
    BY <1>6, <1>10, CostGrows
  <2>2. a \in Nat
    BY <1>10, CostStays
  <2>3. b \in Nat /\ k \in Nat /\ is.spend = (a + k) + b /\ is.created = k /\ Cost(metered, is.jobs) = a + b
    BY <1>6, <1>10, <1>12, <2>1
  <2> HIDE DEF a, b, k, is
  <2> QED
    BY <2>2, <2>3
<1> HIDE DEF y, is, mid
<1>14. /\ sandpits' \in Seq(SandpitType) /\ DOMAIN sandpits' = DOMAIN sandpits
       /\ sandpits'[s] = is /\ \A t \in DOMAIN sandpits \ {s} : sandpits'[t] = sandpits[t]
  BY <1>2, <1>4, <1>8, <1>12, SeqExcept
<1>15. /\ sandpitCalls' \in Seq(SandpitCallType) /\ DOMAIN sandpitCalls' = DOMAIN sandpitCalls
       /\ sandpitCalls'[c] = y
       /\ \A d \in DOMAIN sandpitCalls \ {c} : sandpitCalls'[d] = sandpitCalls[d]
  BY <1>2, <1>7, <1>11, SeqExcept
<1> HIDE DEF x, id, s, was
<1>16. SandpitTyped'
  <2>1. \A t \in DOMAIN sandpits' : sandpits'[t].container \in DOMAIN metered'
    BY <1>1, <1>3, <1>12, <1>14 DEF SandpitTyped, was
  <2>2. CallPlaced(y, sandpits', metered')
    BY <1>2, <1>11, <1>14 DEF CallPlaced
  <2>3. \A d \in DOMAIN sandpitCalls \ {c} : CallPlaced(sandpitCalls'[d], sandpits', metered')
    BY <1>1, <1>3, <1>14, <1>15 DEF SandpitTyped, CallPlaced
  <2> QED
    BY <1>2, <1>3, <1>14, <1>15, <2>1, <2>2, <2>3 DEF SandpitTyped
<1>17. ~FollowsJob(y)
  BY <1>11 DEF FollowsJob
<1>18. JobsApart'
  <2>1. ~Moving(metered, id)
    BY <1>3 DEF Moving
  <2>2. ASSUME NEW t \in DOMAIN sandpits'
        PROVE  /\ IsFiniteSet(sandpits'[t].jobs)
               /\ \A k \in sandpits'[t].jobs : k \in DOMAIN metered' /\ ~Moving(metered', k)
    <3>1. /\ IsFiniteSet(sandpits[t].jobs)
          /\ \A k \in sandpits[t].jobs : k \in DOMAIN metered /\ ~Moving(metered, k)
      BY <1>1, <1>14 DEF JobsApart
    <3>2. CASE t = s
      <4>1. sandpits'[t].jobs = sandpits[t].jobs \cup {id}
        BY <1>12, <1>14, <3>2 DEF was
      <4> QED
        BY <1>3, <1>4, <2>1, <3>1, <4>1, FS_AddElement
    <3>3. CASE t # s
      BY <1>3, <1>14, <3>1, <3>3
    <3> QED
      BY <3>2, <3>3
  <2>3. ASSUME NEW d \in DOMAIN sandpitCalls', FollowsJob(sandpitCalls'[d])
        PROVE  /\ \A t \in DOMAIN sandpits' : sandpitCalls'[d].id \notin sandpits'[t].jobs
               /\ \A e \in DOMAIN sandpitCalls' \ {d} : FollowsJob(sandpitCalls'[e]) =>
                     sandpitCalls'[e].id # sandpitCalls'[d].id
    <3>1. d # c /\ d \in DOMAIN sandpitCalls \ {c} /\ sandpitCalls'[d] = sandpitCalls[d] /\ sandpitCalls[d].id # id
      BY <1>9, <1>15, <1>17, <2>3
    <3>2. /\ \A t \in DOMAIN sandpits : sandpitCalls[d].id \notin sandpits[t].jobs
          /\ \A e \in DOMAIN sandpitCalls \ {d} : FollowsJob(sandpitCalls[e]) =>
                sandpitCalls[e].id # sandpitCalls[d].id
      BY <1>1, <2>3, <3>1 DEF JobsApart
    <3>3. \A t \in DOMAIN sandpits' : sandpitCalls[d].id \notin sandpits'[t].jobs
      BY <1>12, <1>14, <3>1, <3>2 DEF was
    <3>4. \A e \in DOMAIN sandpitCalls' \ {d} : FollowsJob(sandpitCalls'[e]) =>
              e \in DOMAIN sandpitCalls \ {d} /\ sandpitCalls'[e] = sandpitCalls[e]
      BY <1>15, <1>17
    <3> QED
      BY <3>1, <3>2, <3>3, <3>4
  <2> QED
    BY <2>2, <2>3 DEF JobsApart
<1>19. JobsCounted'
  <2>1. ASSUME NEW t \in DOMAIN sandpits'
        PROVE  sandpits'[t].spend = Cost(metered', sandpits'[t].jobs) + sandpits'[t].created
    BY <1>1, <1>3, <1>13, <1>14 DEF JobsCounted
  <2> QED
    BY <2>1 DEF JobsCounted
<1> QED
  BY <1>16, <1>18, <1>19 DEF SandpitInv

LEMMA SandpitStep ==
    ASSUME SandpitInv, [Sandpit!SandpitNext]_sandpitsVars
    PROVE  SandpitInv'
<1>1. /\ SandpitTyped /\ metered \in Seq(MeteredType) /\ sandpits \in Seq(SandpitType)
      /\ sandpitCalls \in Seq(SandpitCallType)
  BY DEF SandpitInv, SandpitTyped
<1>2. CASE UNCHANGED sandpitsVars
  <2>1. UNCHANGED <<sandpits, sandpitCalls, metered>>
    BY <1>2 DEF sandpitsVars
  <2>2. SandpitTyped' /\ FollowsNew
    BY <1>1, <2>1 DEF SandpitTyped, FollowsNew
  <2> QED
    BY <1>1, <2>1, <2>2, SandpitsRest, SandpitKeeps
<1>3. CASE Sandpit!CreateSandpit
  BY <1>3, SandpitCallBegins DEF Sandpit!CreateSandpit
<1>4. ASSUME NEW s \in DOMAIN sandpits, Sandpit!StartJob(s) \/ Sandpit!DestroySandpit(s)
      PROVE  SandpitInv'
  <2>1. s \in Nat
    BY <1>1
  <2> QED
    BY <1>4, <2>1, SandpitCallBegins DEF Sandpit!StartJob, Sandpit!DestroySandpit
\* A call that goes elsewhere while nothing else moves.
<1>5. ASSUME NEW c \in DOMAIN sandpitCalls, NEW at \in {"placing", "destroying", "done", "failed"},
             at = "destroying" => sandpitCalls[c].kind = "destroy",
             sandpitCalls' = Sandpit!Goes(c, at), UNCHANGED <<sandpits, metered>>
      PROVE  SandpitInv'
  <2>1. metered' \in Seq(MeteredType) /\ DOMAIN metered \subseteq DOMAIN metered' /\ MetersKeep
    BY <1>1, <1>5, SandpitsRest
  <2> QED
    BY <1>5, <2>1, SandpitCallMoves
<1>6. ASSUME NEW c \in DOMAIN sandpitCalls, Sandpit!SandpitAllowed(c)
      PROVE  SandpitInv'
  <2>1. UNCHANGED <<sandpits, metered>> /\ sandpitCalls' =
            Sandpit!Goes(c, IF sandpitCalls[c].kind = "destroy" THEN "destroying" ELSE "placing")
    BY <1>6 DEF Sandpit!SandpitAllowed
  <2>2. CASE sandpitCalls[c].kind = "destroy"
    BY <1>5, <2>1, <2>2
  <2>3. CASE sandpitCalls[c].kind # "destroy"
    BY <1>5, <2>1, <2>3
  <2> QED
    BY <2>2, <2>3
<1>7. ASSUME NEW c \in DOMAIN sandpitCalls,
             Sandpit!SandpitDenied(c) \/ Sandpit!SandpitMonitorFails(c) \/ Sandpit!DestroyFails(c)
      PROVE  SandpitInv'
  <2>1. UNCHANGED <<sandpits, metered>> /\ sandpitCalls' = Sandpit!Goes(c, "failed")
    BY <1>7 DEF Sandpit!SandpitDenied, Sandpit!SandpitMonitorFails, Sandpit!DestroyFails
  <2> QED
    BY <1>5, <2>1
<1> DEFINE new == [state |-> "provisioning", spend |-> 0]
<1>8. new \in MeteredType
  BY DEF MeteredType
<1>9. ASSUME NEW c \in DOMAIN sandpitCalls, NEW placed \in BOOLEAN, Sandpit!PlaceFails(c, placed)
      PROVE  SandpitInv'
  <2>1. /\ sandpits' = sandpits /\ sandpitCalls' = Sandpit!Goes(c, "failed")
        /\ metered' = IF placed THEN Append(metered, new) ELSE metered
    BY <1>9 DEF Sandpit!PlaceFails
  <2> HIDE DEF new
  <2>2. metered' \in Seq(MeteredType) /\ DOMAIN metered \subseteq DOMAIN metered' /\ MetersKeep
    BY <1>1, <1>8, <2>1, MetersAppend, SandpitsRest
  <2> QED
    BY <2>1, <2>2, SandpitCallMoves
<1>10. ASSUME NEW c \in DOMAIN sandpitCalls, Sandpit!Place(c)
       PROVE  SandpitInv'
  <2> DEFINE x == sandpitCalls[c]
             id == Len(metered) + 1
             mid == [x EXCEPT !.at = "monitoring"]
             y == [mid EXCEPT !.id = id]
  <2>1. sandpits' = sandpits /\ metered' = Append(metered, new)
    BY <1>10 DEF Sandpit!Place
  <2>2. sandpitCalls' = [sandpitCalls EXCEPT ![c] = y]
    <3> DEFINE part1 == [sandpitCalls EXCEPT ![c] = mid]
    <3>1. sandpitCalls' = [part1 EXCEPT ![c] = [part1[c] EXCEPT !.id = id]]
      BY <1>10 DEF Sandpit!Place
    <3>2. part1[c] = mid
      OBVIOUS
    <3> HIDE DEF mid, id
    <3> QED
      BY <3>1, <3>2
  <2> HIDE DEF new
  <2>3. /\ metered' \in Seq(MeteredType) /\ MetersKeep
        /\ id \in DOMAIN metered' /\ id \notin DOMAIN metered /\ id \in Nat
        /\ DOMAIN metered \subseteq DOMAIN metered'
    BY <1>1, <1>8, <2>1, MetersAppend
  <2>4. x \in SandpitCallType /\ CallPlaced(x, sandpits, metered)
    BY <1>1 DEF SandpitTyped
  <2> HIDE DEF x, id
  <2>5. y \in SandpitCallType /\ y.at = "monitoring" /\ y.id = id /\ y.kind = x.kind /\ y.session = x.session
    BY <2>3, <2>4 DEF SandpitCallType
  <2> HIDE DEF y
  <2>6. /\ sandpitCalls' \in Seq(SandpitCallType) /\ DOMAIN sandpitCalls' = DOMAIN sandpitCalls
        /\ sandpitCalls'[c] = y
        /\ \A d \in DOMAIN sandpitCalls \ {c} : sandpitCalls'[d] = sandpitCalls[d]
    BY <1>1, <2>2, <2>5, SeqExcept
  <2>7. DOMAIN sandpitCalls' = DOMAIN sandpitCalls \cup {c}
    BY <2>6
  <2>8. CallPlaced(y, sandpits', metered') /\ y.id \notin DOMAIN metered
    BY <2>1, <2>3, <2>4, <2>5 DEF CallPlaced
  <2>9. PitsKeep /\ sandpits' \in Seq(SandpitType) /\ \A s \in DOMAIN sandpits' : sandpits'[s].container \in DOMAIN metered'
    BY <1>1, <2>1, <2>3, SandpitsRest DEF SandpitTyped
  <2> QED
    BY <2>3, <2>5, <2>6, <2>7, <2>8, <2>9, SandpitCallGoes
<1>11. ASSUME NEW c \in DOMAIN sandpitCalls, Sandpit!SandpitReady(c)
       PROVE  SandpitInv'
  <2> DEFINE x == sandpitCalls[c]
             spend == metered[x.id].spend
             pit == [container |-> x.id, created |-> spend, spend |-> spend, jobs |-> {}, known |-> TRUE]
             y == [x EXCEPT !.at = "done"]
  <2>1. /\ sandpits' = Append(sandpits, pit) /\ metered' = metered /\ x.at = "monitoring"
        /\ sandpitCalls' = [sandpitCalls EXCEPT ![c] = y]
    BY <1>11 DEF Sandpit!SandpitReady, Sandpit!Monitored, Sandpit!Goes
  <2>2. x \in SandpitCallType /\ CallPlaced(x, sandpits, metered)
    BY <1>1 DEF SandpitTyped
  <2>3. x.id \in DOMAIN metered /\ x.id \in Nat /\ metered[x.id] \in MeteredType
    BY <1>1, <2>1, <2>2 DEF CallPlaced
  <2>4. spend \in Nat
    BY <2>3 DEF MeteredType
  <2> HIDE DEF spend
  <2>5. pit \in SandpitType /\ pit.jobs = {} /\ pit.spend = pit.created /\ pit.container = x.id
    BY <2>3, <2>4 DEF SandpitType
  <2> HIDE DEF pit, x
  <2>6. y \in SandpitCallType /\ y.at = "done" /\ y.kind = x.kind /\ y.session = x.session
    BY <2>2 DEF SandpitCallType
  <2> HIDE DEF y
  <2>7. /\ sandpitCalls' \in Seq(SandpitCallType) /\ DOMAIN sandpitCalls' = DOMAIN sandpitCalls
        /\ sandpitCalls'[c] = y
        /\ \A d \in DOMAIN sandpitCalls \ {c} : sandpitCalls'[d] = sandpitCalls[d]
    BY <1>1, <2>1, <2>6, SeqExcept
  <2>8. DOMAIN sandpitCalls' = DOMAIN sandpitCalls \cup {c}
    BY <2>7
  <2>9. /\ sandpits' \in Seq(SandpitType) /\ DOMAIN sandpits' = DOMAIN sandpits \cup {Len(sandpits) + 1}
        /\ sandpits'[Len(sandpits) + 1] = pit
        /\ \A s \in DOMAIN sandpits : sandpits'[s] = sandpits[s]
    BY <1>1, <2>1, <2>5
  <2>10. PitsKeep
    BY <2>5, <2>9 DEF PitsKeep
  <2>11. CallPlaced(y, sandpits', metered') /\ ~FollowsJob(y)
    BY <2>2, <2>6, <2>9 DEF CallPlaced, FollowsJob
  <2>12. \A s \in DOMAIN sandpits' : sandpits'[s].container \in DOMAIN metered'
    BY <1>1, <2>1, <2>3, <2>5, <2>9 DEF SandpitTyped
  <2>13. MetersKeep /\ metered' \in Seq(MeteredType)
    BY <1>1, <2>1, SandpitsRest
  <2> QED
    BY <2>6, <2>7, <2>8, <2>9, <2>10, <2>11, <2>12, <2>13, SandpitCallGoes
<1>12. ASSUME NEW c \in DOMAIN sandpitCalls, NEW yes \in BOOLEAN, Sandpit!Destroyed(c, yes)
       PROVE  SandpitInv'
  <2> DEFINE x == sandpitCalls[c]
             id == sandpits[x.session].container
             m == [metered[id] EXCEPT !.state = "destroyed"]
             at == IF yes THEN "monitoring" ELSE "failed"
             mid == [x EXCEPT !.at = at]
             y == [mid EXCEPT !.id = id]
  <2>1. /\ sandpits' = sandpits /\ x.at = "destroying"
        /\ metered' = [metered EXCEPT ![id] = m]
    BY <1>12 DEF Sandpit!Destroyed
  <2>2. sandpitCalls' = [sandpitCalls EXCEPT ![c] = y]
    <3> DEFINE part1 == [sandpitCalls EXCEPT ![c] = mid]
    <3>1. sandpitCalls' = [part1 EXCEPT ![c] = [part1[c] EXCEPT !.id = id]]
      BY <1>12 DEF Sandpit!Destroyed
    <3>2. part1[c] = mid
      OBVIOUS
    <3> HIDE DEF mid, id
    <3> QED
      BY <3>1, <3>2
  <2>3. x \in SandpitCallType /\ CallPlaced(x, sandpits, metered)
    BY <1>1 DEF SandpitTyped
  <2>4. x.kind = "destroy" /\ x.session \in DOMAIN sandpits
    BY <2>1, <2>3 DEF CallPlaced
  <2>5. id \in DOMAIN metered /\ id \in Nat /\ metered[id] \in MeteredType
    BY <1>1, <2>4 DEF SandpitTyped
  <2>6. m \in MeteredType /\ m.state = "destroyed" /\ m.spend = metered[id].spend
    <3> DEFINE was == metered[id]
    <3>1. was \in MeteredType
      BY <2>5
    <3> HIDE DEF was
    <3>2. /\ [was EXCEPT !.state = "destroyed"] \in MeteredType
          /\ [was EXCEPT !.state = "destroyed"].state = "destroyed"
          /\ [was EXCEPT !.state = "destroyed"].spend = was.spend
      BY <3>1 DEF MeteredType
    <3> QED
      BY <3>2 DEF was
  <2> HIDE DEF m
  <2>7. /\ metered' \in Seq(MeteredType) /\ DOMAIN metered' = DOMAIN metered /\ metered'[id] = m
        /\ \A k \in DOMAIN metered \ {id} : metered'[k] = metered[k]
    BY <1>1, <2>1, <2>5, <2>6, SeqExcept
  <2> HIDE DEF x, id
  <2>8. MetersKeep
    <3>1. \A k \in DOMAIN metered : k = id \/ k \in DOMAIN metered \ {id}
      OBVIOUS
    <3> QED
      BY <2>6, <2>7, <3>1 DEF MetersKeep, Moving
  <2>9. y \in SandpitCallType /\ y.at \in {"monitoring", "failed"} /\ y.id = id /\ y.kind = x.kind /\ y.session = x.session
    BY <2>3, <2>5 DEF SandpitCallType
  <2> HIDE DEF y
  <2>10. /\ sandpitCalls' \in Seq(SandpitCallType) /\ DOMAIN sandpitCalls' = DOMAIN sandpitCalls
         /\ sandpitCalls'[c] = y
         /\ \A d \in DOMAIN sandpitCalls \ {c} : sandpitCalls'[d] = sandpitCalls[d]
    BY <1>1, <2>2, <2>9, SeqExcept
  <2>11. DOMAIN sandpitCalls' = DOMAIN sandpitCalls \cup {c}
    BY <2>10
  <2>12. CallPlaced(y, sandpits', metered') /\ ~FollowsJob(y)
    BY <2>1, <2>4, <2>5, <2>7, <2>9 DEF CallPlaced, FollowsJob
  <2>13. PitsKeep /\ sandpits' \in Seq(SandpitType) /\ \A s \in DOMAIN sandpits' : sandpits'[s].container \in DOMAIN metered'
    BY <1>1, <2>1, <2>7, SandpitsRest DEF SandpitTyped
  <2> QED
    BY <2>7, <2>8, <2>9, <2>10, <2>11, <2>12, <2>13, SandpitCallGoes
<1>13. ASSUME NEW c \in DOMAIN sandpitCalls, Sandpit!SandpitDestroyed(c)
       PROVE  SandpitInv'
  <2> DEFINE x == sandpitCalls[c]
             s == x.session
             total == sandpits[s].spend + metered[x.id].spend
             mid == [x EXCEPT !.at = "done"]
             y == [mid EXCEPT !.total = total]
             pit == [sandpits[s] EXCEPT !.known = FALSE]
  <2>1. /\ metered' = metered /\ x.at = "monitoring" /\ x.kind = "destroy"
        /\ sandpits' = [sandpits EXCEPT ![s] = pit]
    BY <1>13 DEF Sandpit!SandpitDestroyed, Sandpit!Monitored
  <2>2. sandpitCalls' = [sandpitCalls EXCEPT ![c] = y]
    <3> DEFINE part1 == [sandpitCalls EXCEPT ![c] = mid]
    <3>1. sandpitCalls' = [part1 EXCEPT ![c] = [part1[c] EXCEPT !.total = total]]
      BY <1>13 DEF Sandpit!SandpitDestroyed
    <3>2. part1[c] = mid
      OBVIOUS
    <3> HIDE DEF mid, total
    <3> QED
      BY <3>1, <3>2
  <2>3. x \in SandpitCallType /\ CallPlaced(x, sandpits, metered)
    BY <1>1 DEF SandpitTyped
  <2>4. s \in DOMAIN sandpits /\ x.id \in DOMAIN metered
    BY <2>1, <2>3 DEF CallPlaced
  <2>5. sandpits[s] \in SandpitType /\ metered[x.id] \in MeteredType
    BY <1>1, <2>4
  <2>6. total \in Nat
    <3>1. sandpits[s].spend \in Nat /\ metered[x.id].spend \in Nat
      BY <2>5 DEF SandpitType, MeteredType
    <3> QED
      BY <3>1
  <2>7. /\ pit \in SandpitType /\ pit.container = sandpits[s].container /\ pit.jobs = sandpits[s].jobs
        /\ pit.spend = sandpits[s].spend /\ pit.created = sandpits[s].created
    <3> DEFINE was == sandpits[s]
    <3>1. was \in SandpitType
      BY <2>5
    <3> HIDE DEF was
    <3>2. /\ [was EXCEPT !.known = FALSE] \in SandpitType
          /\ [was EXCEPT !.known = FALSE].container = was.container
          /\ [was EXCEPT !.known = FALSE].jobs = was.jobs
          /\ [was EXCEPT !.known = FALSE].spend = was.spend
          /\ [was EXCEPT !.known = FALSE].created = was.created
      BY <3>1 DEF SandpitType
    <3> QED
      BY <3>2 DEF was
  <2> HIDE DEF pit, total, x, s
  <2>8. y \in SandpitCallType /\ y.at = "done" /\ y.kind = x.kind /\ y.session = x.session
    BY <2>3, <2>6 DEF SandpitCallType
  <2> HIDE DEF y
  <2>9. /\ sandpitCalls' \in Seq(SandpitCallType) /\ DOMAIN sandpitCalls' = DOMAIN sandpitCalls
        /\ sandpitCalls'[c] = y
        /\ \A d \in DOMAIN sandpitCalls \ {c} : sandpitCalls'[d] = sandpitCalls[d]
    BY <1>1, <2>2, <2>8, SeqExcept
  <2>10. DOMAIN sandpitCalls' = DOMAIN sandpitCalls \cup {c}
    BY <2>9
  <2>11. /\ sandpits' \in Seq(SandpitType) /\ DOMAIN sandpits' = DOMAIN sandpits /\ sandpits'[s] = pit
         /\ \A t \in DOMAIN sandpits \ {s} : sandpits'[t] = sandpits[t]
    BY <1>1, <2>1, <2>4, <2>7, SeqExcept
  <2>12. PitsKeep
    <3>1. \A t \in DOMAIN sandpits : t = s \/ t \in DOMAIN sandpits \ {s}
      OBVIOUS
    <3> QED
      BY <2>7, <2>11, <3>1 DEF PitsKeep
  <2>13. CallPlaced(y, sandpits', metered') /\ ~FollowsJob(y)
    BY <2>3, <2>8, <2>11 DEF CallPlaced, FollowsJob
  <2>14. \A t \in DOMAIN sandpits' : sandpits'[t].container \in DOMAIN metered'
    BY <1>1, <2>1, <2>7, <2>11 DEF SandpitTyped
  <2>15. MetersKeep /\ metered' \in Seq(MeteredType)
    BY <1>1, <2>1, SandpitsRest
  <2> QED
    BY <2>8, <2>9, <2>10, <2>11, <2>12, <2>13, <2>14, <2>15, SandpitCallGoes
<1>14. ASSUME NEW id \in DOMAIN metered, Sandpit!Meter(id)
       PROVE  SandpitInv'
  <2> DEFINE was == metered[id]
             m == [was EXCEPT !.spend = was.spend + 1]
  <2>1. /\ was.state = "running" /\ UNCHANGED <<sandpits, sandpitCalls>>
        /\ metered' = [metered EXCEPT ![id] = m]
    BY <1>14 DEF Sandpit!Meter
  <2>2. was \in MeteredType
    BY <1>1
  <2>3. Moving(metered, id)
    BY <2>1 DEF Moving
  <2> HIDE DEF was
  <2>4. m \in MeteredType
    BY <2>2 DEF MeteredType
  <2> HIDE DEF m
  <2> QED
    BY <2>1, <2>3, <2>4, MeterGoes
<1>15. ASSUME NEW id \in DOMAIN metered, NEW state \in {"running", "stopped", "failed"},
              NEW spend \in 0..MaxMetered, Sandpit!MeteredMoves(id, state, spend)
       PROVE  SandpitInv'
  <2> DEFINE m == [state |-> state, spend |-> spend]
  <2>1. /\ metered[id].state = "provisioning" /\ UNCHANGED <<sandpits, sandpitCalls>>
        /\ metered' = [metered EXCEPT ![id] = m]
    BY <1>15 DEF Sandpit!MeteredMoves
  <2>2. Moving(metered, id)
    BY <2>1 DEF Moving
  <2>3. m \in MeteredType
    BY MaxMeteredAssumption DEF MeteredType
  <2> HIDE DEF m
  <2> QED
    BY <2>1, <2>2, <2>3, MeterGoes
<1>16. CASE Sandpit!SandpitNext
  BY <1>3, <1>4, <1>6, <1>7, <1>9, <1>10, <1>11, <1>12, <1>13, <1>14, <1>15, <1>16, JobEnds, Zenon
  DEF Sandpit!SandpitNext
<1> QED
  BY <1>2, <1>16

LEMMA SandpitsHold ==
    ASSUME SandpitInv
    PROVE  Sandpit!JobsCountOnce
<1>1. ASSUME NEW s \in DOMAIN sandpits
      PROVE  sandpits[s].spend = Sandpit!MapThenSumSet(LAMBDA id : metered[id].spend, sandpits[s].jobs)
                                     + sandpits[s].created
  <2>1. sandpits[s].spend = Cost(metered, sandpits[s].jobs) + sandpits[s].created
    BY DEF SandpitInv, JobsCounted
  <2>2. Sandpit!MapThenSumSet(LAMBDA id : metered[id].spend, sandpits[s].jobs) = Cost(metered, sandpits[s].jobs)
    BY SumIsCost
  <2> QED
    BY <2>1, <2>2
<1> QED
  BY <1>1, Zenon DEF Sandpit!JobsCountOnce

-----------------------------------------------------------------------------
(***************************************************************************)
(* Deployments: every deployment whose commit was answered is in the       *)
(* result of its workload, or is the one that its deploy follows; and a    *)
(* plan that was deployed from is not designed or approved again.          *)
(***************************************************************************)

Approved == {"approved", "deployed", "failed"}
Spending == {"covenant", "quoting", "committed", "monitoring"}
Following == {"committed", "monitoring"}

DesignType ==
    [planner : Planners, status : {"drafting", "awaiting-approval"} \cup Approved, workloads : Nat]
ResultType == [deployment : Nat, state : {"running", "failed"}]
DeployType ==
    [plan : Nat, at : Spending \cup {"denied", "finishing", "ended"}, results : Seq(ResultType),
     deployment : Nat, status : {"none", "deployed", "partial", "failed"}]
DeploymentType ==
    [deploy : Nat, workload : Nat, state : {"provisioning", "running", "failed"}, lost : BOOLEAN]

ProvisionTyped ==
    /\ designs \in Seq(DesignType) /\ current \in [Planners -> Nat]
    /\ deploys \in Seq(DeployType) /\ deployments \in Seq(DeploymentType)

\* A plan that is ready has a workload, and the current one of a planner is ready and its own.
DesignsRight ==
    /\ \A p \in DOMAIN designs : designs[p].status # "drafting" => designs[p].workloads # 0
    /\ \A k \in Planners : current[k] # 0 =>
          /\ current[k] \in DOMAIN designs
          /\ designs[current[k]].planner = k /\ designs[current[k]].status # "drafting"

\* A deploy x goes through the workloads of an approved plan, what it calls running came up,
\* and the plan it spent is over, or replaced.
DeployRight(x, ds, cur, ms) ==
    /\ x.plan \in DOMAIN ds /\ ds[x.plan].status \in Approved
    /\ x.at \in Spending => Len(x.results) < ds[x.plan].workloads
    /\ x.at \in {"finishing", "ended"} => Len(x.results) = ds[x.plan].workloads
    /\ x.at \in Following => x.deployment \in DOMAIN ms
    /\ \A k \in DOMAIN x.results : x.results[k].state = "running" =>
          x.results[k].deployment \in DOMAIN ms /\ ms[x.results[k].deployment].state # "provisioning"
    /\ x.at = "ended" /\ cur[ds[x.plan].planner] = x.plan => ds[x.plan].status \in {"deployed", "failed"}

DeploysRight == \A d \in DOMAIN deploys : DeployRight(deploys[d], designs, current, deployments)

\* The deployment id, m at the gateway, is known to its deploy x.
Told(id, m, x) ==
    \/ m.lost = TRUE
    \/ m.workload \in DOMAIN x.results /\ x.results[m.workload].deployment = id
    \/ x.at \in Following /\ x.deployment = id /\ m.workload = Len(x.results) + 1

DeploymentsTold ==
    \A id \in DOMAIN deployments :
        /\ deployments[id].deploy \in DOMAIN deploys
        /\ Told(id, deployments[id], deploys[deployments[id].deploy])

ProvisionInv == ProvisionTyped /\ DesignsRight /\ DeploysRight /\ DeploymentsTold

LEMMA ProvisionStarts ==
    ASSUME Provision!ProvisionInit
    PROVE  ProvisionInv
<1>1. /\ designs = <<>> /\ deploys = <<>> /\ deployments = <<>>
      /\ current = [k \in Planners |-> 0]
  BY DEF Provision!ProvisionInit, Provision!NoDesign
<1>2. ProvisionTyped /\ DesignsRight
  BY <1>1 DEF ProvisionTyped, DesignsRight
<1>3. DeploysRight /\ DeploymentsTold
  BY <1>1 DEF DeploysRight, DeploymentsTold
<1> QED
  BY <1>2, <1>3 DEF ProvisionInv

\* A plan that was approved stays so, with its workloads, and becomes current no more; a
\* deployment that came up or failed does not go back.
Steady(ds, cur, ms, ds2, cur2, ms2) ==
    /\ \A p \in DOMAIN ds : ds[p].status \in Approved =>
          /\ p \in DOMAIN ds2 /\ ds2[p].status \in Approved
          /\ ds2[p].workloads = ds[p].workloads /\ ds2[p].planner = ds[p].planner
          /\ cur2[ds[p].planner] = p => cur[ds[p].planner] = p
          /\ ds[p].status \in {"deployed", "failed"} => ds2[p].status \in {"deployed", "failed"}
    /\ \A id \in DOMAIN ms :
          /\ id \in DOMAIN ms2
          /\ ms[id].state # "provisioning" => ms2[id].state # "provisioning"

LEMMA DeployStays ==
    ASSUME NEW x, NEW ds, NEW cur, NEW ms, NEW ds2, NEW cur2, NEW ms2,
           DeployRight(x, ds, cur, ms), Steady(ds, cur, ms, ds2, cur2, ms2)
    PROVE  DeployRight(x, ds2, cur2, ms2)
<1> DEFINE p == x.plan
<1>1. p \in DOMAIN ds /\ ds[p].status \in Approved
  BY DEF DeployRight
<1>2. /\ p \in DOMAIN ds2 /\ ds2[p].status \in Approved
      /\ ds2[p].workloads = ds[p].workloads /\ ds2[p].planner = ds[p].planner
      /\ cur2[ds[p].planner] = p => cur[ds[p].planner] = p
      /\ ds[p].status \in {"deployed", "failed"} => ds2[p].status \in {"deployed", "failed"}
  BY <1>1 DEF Steady
<1>3. /\ x.at \in Spending => Len(x.results) < ds2[p].workloads
      /\ x.at \in {"finishing", "ended"} => Len(x.results) = ds2[p].workloads
  BY <1>2 DEF DeployRight
<1>4. x.at \in Following => x.deployment \in DOMAIN ms2
  BY DEF DeployRight, Steady
<1>5. \A k \in DOMAIN x.results : x.results[k].state = "running" =>
         x.results[k].deployment \in DOMAIN ms2 /\ ms2[x.results[k].deployment].state # "provisioning"
  BY DEF DeployRight, Steady
<1>6. x.at = "ended" /\ cur2[ds2[p].planner] = p => ds2[p].status \in {"deployed", "failed"}
  BY <1>2 DEF DeployRight
<1> QED
  BY <1>2, <1>3, <1>4, <1>5, <1>6 DEF DeployRight

\* The deploy x becomes y: it knows no less, but for the commit whose answer was lost.
Continues(x, y, ms) ==
    \/ /\ y.results = x.results
       /\ x.at \in Following => y.at \in Following /\ y.deployment = x.deployment
    \/ \E r \in ResultType :
          /\ y.results = Append(x.results, r)
          /\ x.at \in Following => r.deployment = x.deployment \/ ms[x.deployment].lost = TRUE

LEMMA ToldStays ==
    ASSUME NEW x \in DeployType, NEW y, NEW id, NEW m, NEW ms, Told(id, m, x), Continues(x, y, ms),
           ms[id].workload = m.workload, m.lost = TRUE => ms[id].lost = TRUE
    PROVE  Told(id, ms[id], y)
<1>1. x.results \in Seq(ResultType)
  BY DEF DeployType
<1>2. CASE /\ y.results = x.results
           /\ x.at \in Following => y.at \in Following /\ y.deployment = x.deployment
  BY <1>2 DEF Told
<1>3. ASSUME NEW r \in ResultType, y.results = Append(x.results, r),
             x.at \in Following => r.deployment = x.deployment \/ ms[x.deployment].lost = TRUE
      PROVE  Told(id, ms[id], y)
  <2>1. /\ \A k \in DOMAIN x.results : k \in DOMAIN y.results /\ y.results[k] = x.results[k]
        /\ Len(x.results) + 1 \in DOMAIN y.results /\ y.results[Len(x.results) + 1] = r
    BY <1>1, <1>3
  <2>2. CASE m.lost = TRUE
    BY <2>2 DEF Told
  <2>3. CASE m.workload \in DOMAIN x.results /\ x.results[m.workload].deployment = id
    BY <2>1, <2>3 DEF Told
  <2>4. CASE x.at \in Following /\ x.deployment = id /\ m.workload = Len(x.results) + 1
    BY <1>3, <2>1, <2>4 DEF Told
  <2> QED
    BY <2>2, <2>3, <2>4 DEF Told
<1> QED
  BY <1>2, <1>3 DEF Continues

\* The deploys but one stay as they are, and so does what the gateway knows of the others.
LEMMA DeployGoes ==
    ASSUME ProvisionInv, ProvisionTyped', DesignsRight',
           NEW d \in DOMAIN deploys, NEW y, DOMAIN deploys' = DOMAIN deploys, deploys'[d] = y,
           \A e \in DOMAIN deploys \ {d} : deploys'[e] = deploys[e],
           Steady(designs, current, deployments, designs', current', deployments'),
           DeployRight(y, designs', current', deployments'), Continues(deploys[d], y, deployments'),
           \A id \in DOMAIN deployments :
              /\ deployments'[id].deploy = deployments[id].deploy
              /\ deployments'[id].workload = deployments[id].workload
              /\ deployments[id].lost = TRUE => deployments'[id].lost = TRUE,
           \A id \in DOMAIN deployments' \ DOMAIN deployments :
              deployments'[id].deploy = d /\ Told(id, deployments'[id], y)
    PROVE  ProvisionInv'
<1>1. /\ \A e \in DOMAIN deploys : DeployRight(deploys[e], designs, current, deployments)
      /\ \A e \in DOMAIN deploys : deploys[e] \in DeployType
  BY DEF ProvisionInv, DeploysRight, ProvisionTyped
<1>2. ASSUME NEW e \in DOMAIN deploys'
      PROVE  DeployRight(deploys'[e], designs', current', deployments')
  <2>1. CASE e # d
    <3>1. DeployRight(deploys[e], designs', current', deployments')
      BY <1>1, DeployStays
    <3> QED
      BY <2>1, <3>1
  <2> QED
    BY <2>1
<1>3. DeploysRight'
  BY <1>2 DEF DeploysRight
<1>4. ASSUME NEW id \in DOMAIN deployments'
      PROVE  /\ deployments'[id].deploy \in DOMAIN deploys'
             /\ Told(id, deployments'[id], deploys'[deployments'[id].deploy])
  <2>1. CASE id \notin DOMAIN deployments
    BY <2>1
  <2>2. CASE id \in DOMAIN deployments
    <3> DEFINE m == deployments[id]
               e == m.deploy
    <3>1. e \in DOMAIN deploys /\ Told(id, m, deploys[e])
      BY <2>2 DEF ProvisionInv, DeploymentsTold
    <3>2. deployments'[id].deploy = e /\ deployments'[id].workload = m.workload
      BY <2>2
    <3>3. m.lost = TRUE => deployments'[id].lost = TRUE
      BY <2>2
    <3> HIDE DEF m, e
    <3>4. CASE e = d
      <4>1. deploys[d] \in DeployType /\ Told(id, m, deploys[d])
        BY <1>1, <3>1, <3>4
      <4>2. Told(id, deployments'[id], y)
        BY <3>2, <3>3, <4>1, ToldStays
      <4> QED
        BY <3>2, <3>4, <4>2
    <3>5. CASE e # d
      BY <3>1, <3>2, <3>3, <3>5 DEF Told
    <3> QED
      BY <3>4, <3>5
  <2> QED
    BY <2>1, <2>2
<1>5. DeploymentsTold'
  BY <1>4 DEF DeploymentsTold
<1> QED
  BY <1>3, <1>5 DEF ProvisionInv

\* Nothing moves, but for deploys.
LEMMA SteadyRest ==
    ASSUME UNCHANGED <<designs, current, deployments>>
    PROVE  /\ Steady(designs, current, deployments, designs', current', deployments')
           /\ \A id \in DOMAIN deployments :
                 /\ deployments'[id].deploy = deployments[id].deploy
                 /\ deployments'[id].workload = deployments[id].workload
                 /\ deployments[id].lost = TRUE => deployments'[id].lost = TRUE
           /\ DOMAIN deployments' \ DOMAIN deployments = {}
BY DEF Steady

\* A deploy moves, and nothing else does.
LEMMA OnlyDeployGoes ==
    ASSUME ProvisionInv, NEW d \in DOMAIN deploys, NEW y \in DeployType, deploys' = [deploys EXCEPT ![d] = y],
           UNCHANGED <<designs, current, deployments>>,
           DeployRight(y, designs, current, deployments), Continues(deploys[d], y, deployments)
    PROVE  ProvisionInv'
<1>1. /\ deploys' \in Seq(DeployType) /\ DOMAIN deploys' = DOMAIN deploys /\ deploys'[d] = y
      /\ \A e \in DOMAIN deploys \ {d} : deploys'[e] = deploys[e]
  BY SeqExcept DEF ProvisionInv, ProvisionTyped
<1>2. ProvisionTyped'
  BY <1>1 DEF ProvisionInv, ProvisionTyped
<1>3. DesignsRight'
  BY DEF ProvisionInv, DesignsRight
<1>4. DeployRight(y, designs', current', deployments') /\ Continues(deploys[d], y, deployments')
  OBVIOUS
<1> QED
  BY <1>1, <1>2, <1>3, <1>4, SteadyRest, DeployGoes

\* The loop over the workloads goes on.
LEMMA WithResultIs ==
    ASSUME NEW x \in DeployType, DeployRight(x, designs, current, deployments), x.at \in Spending,
           designs \in Seq(DesignType), NEW id \in Nat, NEW state \in {"running", "failed"}
    PROVE  LET y == Provision!WithResult(x, id, state)
               r == [deployment |-> id, state |-> state]
           IN  /\ y \in DeployType /\ y.plan = x.plan /\ y.results = Append(x.results, r)
               /\ r \in ResultType /\ r.deployment = id /\ r.state = state
               /\ \/ y.at = "quoting" /\ Len(y.results) < designs[x.plan].workloads
                  \/ y.at = "finishing" /\ Len(y.results) = designs[x.plan].workloads
<1> DEFINE r == [deployment |-> id, state |-> state]
           results == Append(x.results, r)
           n == designs[x.plan].workloads
           l == Len(results)
           at == IF l < n THEN "quoting" ELSE "finishing"
           y == [x EXCEPT !.results = results, !.deployment = 0, !.at = at]
<1>1. r \in ResultType /\ r.deployment = id /\ r.state = state
  BY DEF ResultType
<1>2. Provision!WithResult(x, id, state) = y
  BY DEF Provision!WithResult, Provision!NoDeployment
<1>3. x.plan \in DOMAIN designs /\ Len(x.results) < n /\ x.results \in Seq(ResultType)
  BY DEF DeployRight, DeployType
<1>4. n \in Nat
  <2>1. designs[x.plan] \in DesignType
    BY <1>3
  <2> QED
    BY <2>1 DEF DesignType
<1> HIDE DEF r
<1>5. results \in Seq(ResultType) /\ l = Len(x.results) + 1 /\ Len(x.results) \in Nat
  BY <1>1, <1>3
<1>6. \/ at = "quoting" /\ l < n
      \/ at = "finishing" /\ l = n
  <2> DEFINE k == Len(x.results)
  <2>1. k \in Nat /\ k < n /\ l = k + 1
    BY <1>3, <1>5
  <2> HIDE DEF k, n, l
  <2> QED
    BY <1>4, <2>1
<1> HIDE DEF n, l, at
<1>7. y \in DeployType /\ y.plan = x.plan /\ y.results = results /\ y.at = at
  <2> DEFINE x1 == [x EXCEPT !.results = results]
             x2 == [x1 EXCEPT !.deployment = 0]
  <2>1. at \in Spending \cup {"denied", "finishing", "ended"}
    BY <1>6 DEF Spending
  <2> HIDE DEF results
  <2>2. x1 \in DeployType /\ x1.plan = x.plan /\ x1.results = results
    BY <1>5 DEF DeployType
  <2> HIDE DEF x1
  <2>3. x2 \in DeployType /\ x2.plan = x.plan /\ x2.results = results
    BY <2>2 DEF DeployType
  <2>4. y = [x2 EXCEPT !.at = at]
    BY DEF x1
  <2> HIDE DEF x2, y
  <2> QED
    BY <2>1, <2>3, <2>4 DEF DeployType
<1> HIDE DEF y
<1> QED
  BY <1>1, <1>2, <1>6, <1>7 DEF r, n, l

\* A deploy that goes on with a result is right, when a result that runs came up.
LEMMA ResultRight ==
    ASSUME NEW x \in DeployType, NEW ms, DeployRight(x, designs, current, ms),
           NEW y, NEW r \in ResultType, y.plan = x.plan, y.results = Append(x.results, r),
           \/ y.at = "quoting" /\ Len(y.results) < designs[x.plan].workloads
           \/ y.at = "finishing" /\ Len(y.results) = designs[x.plan].workloads,
           r.state = "running" => r.deployment \in DOMAIN ms /\ ms[r.deployment].state # "provisioning"
    PROVE  DeployRight(y, designs, current, ms)
<1>1. x.results \in Seq(ResultType)
  BY DEF DeployType
<1>2. ASSUME NEW k \in DOMAIN y.results, y.results[k].state = "running"
      PROVE  y.results[k].deployment \in DOMAIN ms /\ ms[y.results[k].deployment].state # "provisioning"
  <2>1. (k \in DOMAIN x.results /\ y.results[k] = x.results[k]) \/ y.results[k] = r
    BY <1>1
  <2> QED
    BY <1>2, <2>1 DEF DeployRight
<1>3. y.at \notin Following /\ y.at # "ended"
  BY DEF Following
<1>4. /\ y.at \in Spending => Len(y.results) < designs[x.plan].workloads
      /\ y.at \in {"finishing", "ended"} => Len(y.results) = designs[x.plan].workloads
  BY DEF Spending
<1>5. x.plan \in DOMAIN designs /\ designs[x.plan].status \in Approved
  BY DEF DeployRight
<1> QED
  BY <1>2, <1>3, <1>4, <1>5 DEF DeployRight

\* Designing moves no deploy.
LEMMA DesignGoes ==
    ASSUME ProvisionInv, designs' \in Seq(DesignType), current' \in [Planners -> Nat], DesignsRight',
           UNCHANGED <<deploys, deployments>>,
           Steady(designs, current, deployments, designs', current', deployments)
    PROVE  ProvisionInv'
<1>1. \A d \in DOMAIN deploys : DeployRight(deploys[d], designs', current', deployments)
  BY DeployStays DEF ProvisionInv, DeploysRight
<1>2. DeploysRight' /\ DeploymentsTold'
  BY <1>1 DEF ProvisionInv, DeploysRight, DeploymentsTold
<1> QED
  BY <1>2 DEF ProvisionInv, ProvisionTyped

LEMMA ProvisionStep ==
    ASSUME ProvisionInv, [Provision!ProvisionNext]_provisionVars
    PROVE  ProvisionInv'
<1>1. /\ designs \in Seq(DesignType) /\ current \in [Planners -> Nat]
      /\ deploys \in Seq(DeployType) /\ deployments \in Seq(DeploymentType)
      /\ DesignsRight /\ DeploysRight /\ DeploymentsTold
      /\ \A d \in DOMAIN deploys :
            deploys[d] \in DeployType /\ DeployRight(deploys[d], designs, current, deployments)
      /\ \A p \in DOMAIN designs : designs[p] \in DesignType
  BY DEF ProvisionInv, ProvisionTyped, DeploysRight
<1>2. CASE UNCHANGED provisionVars
  BY <1>2 DEF provisionVars, ProvisionInv, ProvisionTyped, DesignsRight, DeploysRight, DeploymentsTold
<1>3. ASSUME NEW k \in Planners, Provision!Design(k)
      PROVE  ProvisionInv'
  <2> DEFINE new == [planner |-> k, status |-> "drafting", workloads |-> 0]
             n == Len(designs) + 1
  <2>1. designs' = Append(designs, new) /\ UNCHANGED <<current, deploys, deployments>>
    BY <1>3 DEF Provision!Design
  <2>2. new \in DesignType /\ new.status = "drafting"
    BY DEF DesignType
  <2> HIDE DEF new
  <2>3. /\ designs' \in Seq(DesignType) /\ DOMAIN designs' = DOMAIN designs \cup {n}
        /\ designs'[n] = new /\ \A p \in DOMAIN designs : designs'[p] = designs[p]
    BY <1>1, <2>1, <2>2
  <2>4. DesignsRight'
    BY <1>1, <2>1, <2>2, <2>3 DEF DesignsRight
  <2>5. Steady(designs, current, deployments, designs', current', deployments)
    BY <2>1, <2>3 DEF Steady
  <2> QED
    BY <1>1, <2>1, <2>3, <2>4, <2>5, DesignGoes
<1>4. ASSUME NEW p \in DOMAIN designs, NEW workloads \in Provision!WorkloadCounts, Provision!Designed(p, workloads)
      PROVE  ProvisionInv'
  <2> DEFINE was == designs[p]
             mid == [was EXCEPT !.status = "awaiting-approval"]
             is == [mid EXCEPT !.workloads = workloads]
             k == was.planner
  <2>1. was.status = "drafting" /\ UNCHANGED <<deploys, deployments>>
    BY <1>4 DEF Provision!Designed
  <2>2. designs' = [designs EXCEPT ![p] = is]
    <3> DEFINE part1 == [designs EXCEPT ![p] = mid]
    <3>1. designs' = [part1 EXCEPT ![p] = [part1[p] EXCEPT !.workloads = workloads]]
      BY <1>4 DEF Provision!Designed
    <3>2. part1[p] = mid
      OBVIOUS
    <3> HIDE DEF mid
    <3> QED
      BY <3>1, <3>2
  <2>3. current' = [current EXCEPT ![k] = p]
    BY <1>4 DEF Provision!Designed
  <2>4. was \in DesignType /\ p \in Nat /\ workloads \in Nat /\ workloads # 0
    BY <1>1, MaxWorkloadsAssumption DEF Provision!WorkloadCounts
  <2>5. k \in Planners
    BY <2>4 DEF DesignType
  <2>6. is \in DesignType /\ is.planner = k /\ is.status = "awaiting-approval" /\ is.workloads = workloads
    <3> HIDE DEF was
    <3> QED
      BY <2>4 DEF DesignType
  <2> HIDE DEF is
  <2>7. /\ designs' \in Seq(DesignType) /\ DOMAIN designs' = DOMAIN designs /\ designs'[p] = is
        /\ \A q \in DOMAIN designs \ {p} : designs'[q] = designs[q]
    BY <1>1, <2>2, <2>6, SeqExcept
  <2> HIDE DEF k
  <2>8. /\ current' \in [Planners -> Nat] /\ current'[k] = p
        /\ \A j \in Planners \ {k} : current'[j] = current[j]
    BY <1>1, <2>3, <2>4, <2>5
  <2>9. p \notin {current[j] : j \in Planners} \ {0}
    BY <1>1, <2>1 DEF DesignsRight
  <2>10. DesignsRight'
    <3>1. \A q \in DOMAIN designs' : designs'[q].status # "drafting" => designs'[q].workloads # 0
      BY <1>1, <2>4, <2>6, <2>7 DEF DesignsRight
    <3>2. ASSUME NEW j \in Planners, current'[j] # 0
          PROVE  /\ current'[j] \in DOMAIN designs'
                 /\ designs'[current'[j]].planner = j /\ designs'[current'[j]].status # "drafting"
      <4>1. CASE j = k
        BY <2>6, <2>7, <2>8, <4>1
      <4>2. CASE j # k
        <5>1. current'[j] = current[j] /\ current[j] # p
          BY <2>8, <2>9, <3>2, <4>2
        <5>2. /\ current[j] \in DOMAIN designs
              /\ designs[current[j]].planner = j /\ designs[current[j]].status # "drafting"
          BY <1>1, <3>2, <5>1 DEF DesignsRight
        <5> QED
          BY <2>7, <5>1, <5>2
      <4> QED
        BY <4>1, <4>2
    <3> QED
      BY <3>1, <3>2 DEF DesignsRight
  <2>11. Steady(designs, current, deployments, designs', current', deployments)
    <3>1. ASSUME NEW q \in DOMAIN designs, designs[q].status \in Approved
          PROVE  /\ q \in DOMAIN designs' /\ designs'[q] = designs[q]
                 /\ current'[designs[q].planner] = q => current[designs[q].planner] = q
      <4>1. q # p
        BY <2>1, <3>1 DEF Approved
      <4>2. designs[q] \in DesignType
        BY <1>1
      <4>3. designs[q].planner \in Planners
        BY <4>2 DEF DesignType
      <4> QED
        BY <2>7, <2>8, <4>1, <4>3
    <3> QED
      BY <3>1 DEF Steady
  <2> QED
    BY <2>1, <2>7, <2>8, <2>10, <2>11, DesignGoes
<1>5. ASSUME NEW k \in Planners, Provision!Approve(k)
      PROVE  ProvisionInv'
  <2> DEFINE p == current[k]
             was == designs[p]
             is == [was EXCEPT !.status = "approved"]
  <2>1. /\ p # 0 /\ was.status = "awaiting-approval" /\ UNCHANGED <<current, deploys, deployments>>
        /\ designs' = [designs EXCEPT ![p] = is]
    BY <1>5 DEF Provision!Approve, Provision!NoDesign
  <2>2. p \in DOMAIN designs /\ was \in DesignType
    BY <1>1, <2>1 DEF DesignsRight
  <2>3. is \in DesignType /\ is.planner = was.planner /\ is.status = "approved" /\ is.workloads = was.workloads
    <3> HIDE DEF was
    <3> QED
      BY <2>2 DEF DesignType, Approved
  <2> HIDE DEF is
  <2>4. /\ designs' \in Seq(DesignType) /\ DOMAIN designs' = DOMAIN designs /\ designs'[p] = is
        /\ \A q \in DOMAIN designs \ {p} : designs'[q] = designs[q]
    BY <1>1, <2>1, <2>2, <2>3, SeqExcept
  <2>5. \A q \in DOMAIN designs : /\ designs'[q].planner = designs[q].planner
                                  /\ designs'[q].workloads = designs[q].workloads
                                  /\ designs[q].status # "drafting" => designs'[q].status # "drafting"
                                  /\ designs'[q].status # "drafting" => designs[q].status # "drafting"
                                  /\ designs[q].status \in Approved => designs'[q] = designs[q]
    <3>1. ASSUME NEW q \in DOMAIN designs, q = p
          PROVE  /\ designs'[q].planner = designs[q].planner
                 /\ designs'[q].workloads = designs[q].workloads
                 /\ designs'[q].status # "drafting" /\ designs[q].status # "drafting"
                 /\ designs[q].status \notin Approved
      BY <2>1, <2>3, <2>4, <3>1 DEF Approved
    <3>2. ASSUME NEW q \in DOMAIN designs, q # p
          PROVE  designs'[q] = designs[q]
      BY <2>4, <3>2
    <3> QED
      BY <3>1, <3>2
  <2>6. DesignsRight'
    BY <1>1, <2>1, <2>4, <2>5 DEF DesignsRight
  <2>7. Steady(designs, current, deployments, designs', current', deployments)
    BY <2>1, <2>4, <2>5 DEF Steady
  <2> QED
    BY <1>1, <2>1, <2>4, <2>6, <2>7, DesignGoes
<1>6. ASSUME NEW k \in Planners, Provision!Deploy(k)
      PROVE  ProvisionInv'
  <2> DEFINE p == current[k]
             y == [plan |-> p, at |-> "covenant", results |-> <<>>, deployment |-> 0, status |-> "none"]
             n == Len(deploys) + 1
  <2>1. /\ p # 0 /\ designs[p].status = "approved" /\ UNCHANGED <<designs, current, deployments>>
        /\ deploys' = Append(deploys, y)
    BY <1>6 DEF Provision!Deploy, Provision!NoDesign, Provision!NoDeployment
  <2>2. p \in DOMAIN designs /\ p \in Nat
    BY <1>1, <2>1 DEF DesignsRight
  <2>3. designs[p].workloads \in Nat /\ designs[p].workloads # 0
    <3>1. designs[p] \in DesignType
      BY <1>1, <2>2
    <3>2. designs[p].workloads # 0
      BY <1>1, <2>1, <2>2 DEF DesignsRight
    <3> QED
      BY <3>1, <3>2 DEF DesignType
  <2>4. y \in DeployType
    BY <2>2 DEF DeployType, Spending
  <2>5. DeployRight(y, designs, current, deployments)
    <3>1. y.plan = p /\ y.at = "covenant" /\ y.results = <<>>
      OBVIOUS
    <3> HIDE DEF y
    <3>2. Len(y.results) = 0 /\ DOMAIN y.results = {}
      BY <3>1
    <3>3. 0 < designs[p].workloads
      BY <2>3
    <3> QED
      BY <2>1, <2>2, <3>1, <3>2, <3>3 DEF DeployRight, Approved, Following, Spending
  <2> HIDE DEF y
  <2>6. /\ deploys' \in Seq(DeployType) /\ DOMAIN deploys' = DOMAIN deploys \cup {n}
        /\ deploys'[n] = y /\ \A d \in DOMAIN deploys : deploys'[d] = deploys[d]
    BY <1>1, <2>1, <2>4
  <2> HIDE DEF n
  <2>7. DeploysRight'
    BY <1>1, <2>1, <2>5, <2>6 DEF DeploysRight
  <2>8. DeploymentsTold'
    BY <1>1, <2>1, <2>6 DEF DeploymentsTold
  <2>9. ProvisionTyped' /\ DesignsRight'
    BY <1>1, <2>1, <2>6 DEF ProvisionTyped, DesignsRight
  <2> QED
    BY <2>7, <2>8, <2>9 DEF ProvisionInv
<1>7. ASSUME NEW d \in DOMAIN deploys,
             Provision!CovenantAllows(d) \/ Provision!CovenantDenies(d) \/ Provision!CommitAnswered(d)
      PROVE  ProvisionInv'
  <2> DEFINE x == deploys[d]
  <2>1. PICK at \in {"quoting", "denied", "monitoring"} :
           /\ deploys' = [deploys EXCEPT ![d] = [x EXCEPT !.at = at]]
           /\ UNCHANGED <<designs, current, deployments>>
           /\ x.at \in Spending /\ (at = "monitoring" <=> x.at \in Following)
    BY <1>7 DEF Provision!CovenantAllows, Provision!CovenantDenies, Provision!CommitAnswered, Spending, Following
  <2> DEFINE y == [x EXCEPT !.at = at]
  <2>2. x \in DeployType /\ DeployRight(x, designs, current, deployments)
    BY <1>1
  <2> HIDE DEF x
  <2>3. /\ y \in DeployType /\ y.plan = x.plan /\ y.at = at /\ y.results = x.results
        /\ y.deployment = x.deployment
    BY <2>2 DEF DeployType, Spending
  <2> HIDE DEF y
  <2>4. DeployRight(y, designs, current, deployments)
    BY <2>1, <2>2, <2>3 DEF DeployRight, Following
  <2>5. Continues(x, y, deployments)
    BY <2>1, <2>3 DEF Continues, Following
  <2> QED
    BY <2>1, <2>3, <2>4, <2>5, OnlyDeployGoes DEF x, y
<1>8. ASSUME NEW d \in DOMAIN deploys,
             Provision!NotCommitted(d) \/ Provision!PollEnds(d) \/ Provision!MonitorFails(d)
      PROVE  ProvisionInv'
  <2> DEFINE x == deploys[d]
  <2>1. x \in DeployType /\ DeployRight(x, designs, current, deployments)
    BY <1>1
  <2>2. x.deployment \in Nat /\ 0 \in Nat
    <3> HIDE DEF x
    <3> QED
      BY <2>1 DEF DeployType
  <2>3. PICK id \in Nat, state \in {"running", "failed"} :
           /\ deploys' = [deploys EXCEPT ![d] = Provision!WithResult(x, id, state)]
           /\ UNCHANGED <<designs, current, deployments>>
           /\ x.at \in Spending /\ (x.at \in Following => id = x.deployment)
           /\ state = "running" => id = x.deployment /\ x.at \in Following /\ deployments[id].state # "provisioning"
    <3>1. CASE Provision!NotCommitted(d)
      BY <2>2, <3>1 DEF Provision!NotCommitted, Provision!NoDeployment, Spending, Following
    <3>2. CASE Provision!PollEnds(d)
      BY <2>2, <3>2 DEF Provision!PollEnds, Provision!Terminal, Spending, Following
    <3>3. CASE Provision!MonitorFails(d)
      BY <2>2, <3>3 DEF Provision!MonitorFails, Spending, Following
    <3> QED
      BY <1>8, <3>1, <3>2, <3>3
  <2> DEFINE y == Provision!WithResult(x, id, state)
             r == [deployment |-> id, state |-> state]
  <2> HIDE DEF x
  <2>4. /\ y \in DeployType /\ y.plan = x.plan /\ y.results = Append(x.results, r)
        /\ r \in ResultType /\ r.deployment = id /\ r.state = state
        /\ \/ y.at = "quoting" /\ Len(y.results) < designs[x.plan].workloads
           \/ y.at = "finishing" /\ Len(y.results) = designs[x.plan].workloads
    <3>1. id \in Nat /\ state \in {"running", "failed"} /\ x.at \in Spending
      BY <2>3
    <3> QED
      BY <1>1, <2>1, <3>1, WithResultIs, Zenon
  <2> HIDE DEF y, r
  <2>5. r.state = "running" => r.deployment \in DOMAIN deployments /\ deployments[r.deployment].state # "provisioning"
    BY <2>1, <2>3, <2>4 DEF DeployRight
  <2>6. DeployRight(y, designs, current, deployments)
    BY <2>1, <2>4, <2>5, ResultRight
  <2>7. Continues(x, y, deployments)
    BY <2>3, <2>4 DEF Continues
  <2> QED
    BY <2>3, <2>4, <2>6, <2>7, OnlyDeployGoes DEF x, y
<1>9. ASSUME NEW d \in DOMAIN deploys, Provision!Commit(d)
      PROVE  ProvisionInv'
  <2> DEFINE x == deploys[d]
             id == Len(deployments) + 1
             mid == [x EXCEPT !.at = "committed"]
             y == [mid EXCEPT !.deployment = id]
             m == [deploy |-> d, workload |-> Len(x.results) + 1, state |-> "provisioning", lost |-> FALSE]
  <2>1. /\ x.at = "quoting" /\ deployments' = Append(deployments, m) /\ UNCHANGED <<designs, current>>
    BY <1>9 DEF Provision!Commit
  <2>2. deploys' = [deploys EXCEPT ![d] = y]
    <3> DEFINE part1 == [deploys EXCEPT ![d] = mid]
    <3>1. deploys' = [part1 EXCEPT ![d] = [part1[d] EXCEPT !.deployment = id]]
      BY <1>9 DEF Provision!Commit
    <3>2. part1[d] = mid
      OBVIOUS
    <3> HIDE DEF mid
    <3> QED
      BY <3>1, <3>2
  <2>3. /\ x \in DeployType /\ DeployRight(x, designs, current, deployments)
        /\ d \in Nat /\ id \in Nat
    BY <1>1
  <2> HIDE DEF x, id
  <2>4. Len(x.results) + 1 \in Nat
    BY <2>3 DEF DeployType
  <2>5. mid \in DeployType /\ mid.plan = x.plan /\ mid.at = "committed" /\ mid.results = x.results
    BY <2>3 DEF DeployType, Spending
  <2> HIDE DEF mid
  <2>6. y \in DeployType /\ y.plan = x.plan /\ y.at = "committed" /\ y.results = x.results /\ y.deployment = id
    BY <2>3, <2>5 DEF DeployType
  <2>7. /\ m \in DeploymentType /\ m.deploy = d /\ m.workload = Len(x.results) + 1
        /\ m.state = "provisioning"
    BY <2>3, <2>4 DEF DeploymentType
  <2> HIDE DEF y, m
  <2>8. /\ deployments' \in Seq(DeploymentType) /\ DOMAIN deployments' = DOMAIN deployments \cup {id}
        /\ deployments'[id] = m /\ \A i \in DOMAIN deployments : deployments'[i] = deployments[i]
    BY <1>1, <2>1, <2>7 DEF id
  <2>9. /\ deploys' \in Seq(DeployType) /\ DOMAIN deploys' = DOMAIN deploys /\ deploys'[d] = y
        /\ \A e \in DOMAIN deploys \ {d} : deploys'[e] = deploys[e]
    BY <1>1, <2>2, <2>6, SeqExcept
  <2>10. ProvisionTyped' /\ DesignsRight'
    BY <1>1, <2>1, <2>8, <2>9 DEF ProvisionTyped, DesignsRight
  <2>11. Steady(designs, current, deployments, designs', current', deployments')
    BY <2>1, <2>8 DEF Steady
  <2>12. DeployRight(x, designs', current', deployments')
    BY <2>3, <2>11, DeployStays
  <2>13. DeployRight(y, designs', current', deployments')
    BY <2>1, <2>6, <2>8, <2>12 DEF DeployRight, Spending
  <2>14. Continues(x, y, deployments')
    BY <2>1, <2>6 DEF Continues, Following
  <2>15. Told(id, m, y)
    BY <2>6, <2>7 DEF Told, Following
  <2>16. \A i \in DOMAIN deployments' \ DOMAIN deployments :
            deployments'[i].deploy = d /\ Told(i, deployments'[i], y)
    BY <2>7, <2>8, <2>15
  <2>17. Continues(deploys[d], y, deployments')
    BY <2>14 DEF x
  <2> QED
    BY <2>8, <2>9, <2>10, <2>11, <2>13, <2>16, <2>17, DeployGoes
<1>10. ASSUME NEW d \in DOMAIN deploys, Provision!CommitLost(d)
       PROVE  ProvisionInv'
  <2> DEFINE x == deploys[d]
             id == x.deployment
             m == [deployments[id] EXCEPT !.lost = TRUE]
             y == Provision!WithResult(x, 0, "failed")
             r == [deployment |-> 0, state |-> "failed"]
  <2>1. /\ x.at = "committed" /\ deploys' = [deploys EXCEPT ![d] = y]
        /\ deployments' = [deployments EXCEPT ![id] = m] /\ UNCHANGED <<designs, current>>
    BY <1>10 DEF Provision!CommitLost, Provision!NoDeployment
  <2>2. x \in DeployType /\ DeployRight(x, designs, current, deployments)
    BY <1>1
  <2> HIDE DEF x
  <2>3. x.at \in Spending /\ x.at \in Following
    BY <2>1 DEF Spending, Following
  <2>4. /\ y \in DeployType /\ y.plan = x.plan /\ y.results = Append(x.results, r)
        /\ r \in ResultType /\ r.deployment = 0 /\ r.state = "failed"
        /\ \/ y.at = "quoting" /\ Len(y.results) < designs[x.plan].workloads
           \/ y.at = "finishing" /\ Len(y.results) = designs[x.plan].workloads
    <3>1. 0 \in Nat /\ "failed" \in {"running", "failed"}
      OBVIOUS
    <3> QED
      BY <1>1, <2>2, <2>3, <3>1, WithResultIs, Zenon
  <2>5. id \in DOMAIN deployments
    BY <2>2, <2>3 DEF DeployRight
  <2> HIDE DEF id, y, r
  <2>6. /\ m \in DeploymentType /\ m.lost = TRUE /\ m.deploy = deployments[id].deploy
        /\ m.workload = deployments[id].workload /\ m.state = deployments[id].state
    <3> DEFINE was == deployments[id]
    <3>1. was \in DeploymentType
      BY <1>1, <2>5
    <3> HIDE DEF was
    <3>2. [was EXCEPT !.lost = TRUE] \in DeploymentType /\ [was EXCEPT !.lost = TRUE].lost = TRUE
      BY <3>1, Zenon DEF DeploymentType
    <3>3. /\ [was EXCEPT !.lost = TRUE].deploy = was.deploy
          /\ [was EXCEPT !.lost = TRUE].workload = was.workload
          /\ [was EXCEPT !.lost = TRUE].state = was.state
      BY <3>1 DEF DeploymentType
    <3> QED
      BY <3>2, <3>3, Zenon DEF was
  <2> HIDE DEF m
  <2>7. /\ deployments' \in Seq(DeploymentType) /\ DOMAIN deployments' = DOMAIN deployments
        /\ deployments'[id] = m /\ \A i \in DOMAIN deployments \ {id} : deployments'[i] = deployments[i]
    BY <1>1, <2>1, <2>5, <2>6, SeqExcept
  <2>8. /\ deploys' \in Seq(DeployType) /\ DOMAIN deploys' = DOMAIN deploys /\ deploys'[d] = y
        /\ \A e \in DOMAIN deploys \ {d} : deploys'[e] = deploys[e]
    BY <1>1, <2>1, <2>4, SeqExcept
  <2>9. ProvisionTyped' /\ DesignsRight'
    BY <1>1, <2>1, <2>7, <2>8 DEF ProvisionTyped, DesignsRight
  <2>10. Steady(designs, current, deployments, designs', current', deployments')
    BY <2>1, <2>6, <2>7 DEF Steady
  <2>11. UNCHANGED designs /\ DeployRight(x, designs', current', deployments')
    BY <2>1, <2>2, <2>10, DeployStays
  <2>12. DeployRight(y, designs, current, deployments')
    <3>1. DeployRight(x, designs, current, deployments') /\ r.state # "running"
      BY <2>1, <2>4, <2>11
    <3> QED
      BY <2>2, <2>4, <3>1, ResultRight
  <2>13. DeployRight(y, designs', current', deployments')
    BY <2>1, <2>12
  <2>14. deployments'[x.deployment].lost = TRUE
    BY <2>6, <2>7 DEF id
  <2>15. Continues(deploys[d], y, deployments')
    BY <2>4, <2>14 DEF Continues, x
  <2>16. \A i \in DOMAIN deployments :
            /\ deployments'[i].deploy = deployments[i].deploy
            /\ deployments'[i].workload = deployments[i].workload
            /\ deployments[i].lost = TRUE => deployments'[i].lost = TRUE
    BY <2>6, <2>7
  <2>17. DOMAIN deployments' \ DOMAIN deployments = {}
    BY <2>7
  <2> QED
    BY <2>8, <2>9, <2>10, <2>13, <2>15, <2>16, <2>17, DeployGoes
<1>11. ASSUME NEW d \in DOMAIN deploys, Provision!Finish(d)
       PROVE  ProvisionInv'
  <2> DEFINE x == deploys[d]
             p == x.plan
  <2>1. PICK status \in {"deployed", "partial", "failed"} :
           /\ x.at = "finishing" /\ UNCHANGED <<current, deployments>>
           /\ deploys' = [deploys EXCEPT ![d].at = "ended", ![d].status = status]
           /\ designs' = Provision!Marked(p, IF status = "failed" THEN "failed" ELSE "deployed")
    BY <1>11, Zenon DEF Provision!Finish
  <2> DEFINE mark == IF status = "failed" THEN "failed" ELSE "deployed"
             mid == [x EXCEPT !.at = "ended"]
             y == [mid EXCEPT !.status = status]
             is == [designs[p] EXCEPT !.status = mark]
  <2>2. deploys' = [deploys EXCEPT ![d] = y]
    <3> DEFINE part1 == [deploys EXCEPT ![d] = mid]
    <3>1. deploys' = [part1 EXCEPT ![d] = [part1[d] EXCEPT !.status = status]]
      BY <2>1
    <3>2. part1[d] = mid
      OBVIOUS
    <3> HIDE DEF mid
    <3> QED
      BY <3>1, <3>2
  <2>3. mark \in {"deployed", "failed"}
    OBVIOUS
  <2>4. \/ designs' = designs /\ designs[p].planner = "architect" /\ p # current["architect"]
        \/ designs' = [designs EXCEPT ![p] = is]
    BY <2>1 DEF Provision!Marked
  <2> HIDE DEF mark
  <2>5. x \in DeployType /\ DeployRight(x, designs, current, deployments)
    BY <1>1
  <2> HIDE DEF x
  <2>6. mid \in DeployType /\ mid.plan = p /\ mid.results = x.results /\ mid.at = "ended"
    BY <2>5 DEF DeployType
  <2> HIDE DEF mid
  <2>7. y \in DeployType /\ y.plan = p /\ y.results = x.results /\ y.at = "ended"
    BY <2>6 DEF DeployType
  <2> HIDE DEF y
  <2>8. p \in DOMAIN designs /\ designs[p].status \in Approved
    BY <2>5 DEF DeployRight
  <2>9. /\ is \in DesignType /\ is.planner = designs[p].planner /\ is.workloads = designs[p].workloads
        /\ is.status = mark
    <3> DEFINE was == designs[p]
    <3>1. was \in DesignType
      BY <1>1, <2>8
    <3> HIDE DEF was
    <3>2. /\ [was EXCEPT !.status = mark] \in DesignType /\ [was EXCEPT !.status = mark].planner = was.planner
          /\ [was EXCEPT !.status = mark].workloads = was.workloads /\ [was EXCEPT !.status = mark].status = mark
      BY <2>3, <3>1 DEF DesignType, Approved
    <3> QED
      BY <3>2 DEF was
  <2> HIDE DEF is, p
  <2>10. /\ designs' \in Seq(DesignType) /\ DOMAIN designs' = DOMAIN designs
         /\ \A q \in DOMAIN designs \ {p} : designs'[q] = designs[q]
         /\ \/ designs'[p] = designs[p] /\ designs[p].planner = "architect" /\ p # current["architect"]
            \/ designs'[p] = is
    <3>1. CASE designs' = [designs EXCEPT ![p] = is]
      BY <1>1, <2>8, <2>9, <3>1, SeqExcept
    <3>2. CASE designs' = designs /\ designs[p].planner = "architect" /\ p # current["architect"]
      BY <1>1, <3>2
    <3> QED
      BY <2>4, <3>1, <3>2
  <2>11. \A q \in DOMAIN designs : /\ designs'[q].planner = designs[q].planner
                                   /\ designs'[q].workloads = designs[q].workloads
                                   /\ designs[q].status # "drafting" <=> designs'[q].status # "drafting"
                                   /\ designs[q].status \in Approved => designs'[q].status \in Approved
                                   /\ designs[q].status \in {"deployed", "failed"} =>
                                         designs'[q].status \in {"deployed", "failed"}
    <3>1. CASE designs'[p] = is
      <4>1. ASSUME NEW q \in DOMAIN designs, q # p
            PROVE  designs'[q] = designs[q]
        BY <2>10, <4>1
      <4>2. /\ designs'[p].planner = designs[p].planner /\ designs'[p].workloads = designs[p].workloads
            /\ designs[p].status # "drafting" /\ designs'[p].status # "drafting"
            /\ designs'[p].status \in Approved /\ designs'[p].status \in {"deployed", "failed"}
        BY <2>3, <2>8, <2>9, <3>1 DEF Approved
      <4> QED
        BY <4>1, <4>2
    <3>2. CASE designs'[p] = designs[p]
      BY <2>10, <3>2
    <3> QED
      BY <2>10, <3>1, <3>2
  <2>12. DesignsRight'
    <3>1. ASSUME NEW q \in DOMAIN designs', designs'[q].status # "drafting"
          PROVE  designs'[q].workloads # 0
      <4>1. q \in DOMAIN designs /\ designs[q].status # "drafting" /\ designs'[q].workloads = designs[q].workloads
        BY <2>10, <2>11, <3>1
      <4> QED
        BY <1>1, <4>1 DEF DesignsRight
    <3>2. ASSUME NEW k \in Planners, current'[k] # 0
          PROVE  /\ current'[k] \in DOMAIN designs'
                 /\ designs'[current'[k]].planner = k /\ designs'[current'[k]].status # "drafting"
      <4> DEFINE c == current[k]
      <4>1. current'[k] = c
        BY <2>1
      <4>2. c \in DOMAIN designs /\ designs[c].planner = k /\ designs[c].status # "drafting"
        BY <1>1, <3>2, <4>1 DEF DesignsRight
      <4> HIDE DEF c
      <4>3. c \in DOMAIN designs' /\ designs'[c].planner = k /\ designs'[c].status # "drafting"
        BY <2>10, <2>11, <4>2
      <4> QED
        BY <4>1, <4>3
    <3> QED
      BY <3>1, <3>2 DEF DesignsRight
  <2>13. Steady(designs, current, deployments, designs', current', deployments')
    BY <2>1, <2>10, <2>11 DEF Steady
  <2>14. /\ deploys' \in Seq(DeployType) /\ DOMAIN deploys' = DOMAIN deploys /\ deploys'[d] = y
         /\ \A e \in DOMAIN deploys \ {d} : deploys'[e] = deploys[e]
    BY <1>1, <2>2, <2>7, SeqExcept
  <2>15. ProvisionTyped'
    BY <1>1, <2>1, <2>10, <2>14 DEF ProvisionTyped
  <2>16. DeployRight(x, designs', current', deployments')
    BY <2>5, <2>13, DeployStays
  <2>17. current'[designs'[p].planner] = p => designs'[p].status \in {"deployed", "failed"}
    <3>1. designs'[p].planner = designs[p].planner /\ current' = current
      BY <2>1, <2>8, <2>11
    <3> QED
      BY <2>3, <2>9, <2>10, <3>1
  <2>18. DeployRight(y, designs', current', deployments')
    <3>1. y.at \notin Spending /\ y.at \notin Following
      BY <2>7 DEF Spending, Following
    <3>2. x.plan = p /\ Len(x.results) = designs'[p].workloads
      BY <2>1, <2>16 DEF DeployRight, p
    <3> QED
      BY <2>7, <2>16, <2>17, <3>1, <3>2 DEF DeployRight
  <2>19. Continues(deploys[d], y, deployments')
    <3>1. x.at \notin Following
      BY <2>1 DEF Following
    <3> QED
      BY <2>7, <3>1 DEF Continues, x
  <2>20. /\ \A i \in DOMAIN deployments :
            /\ deployments'[i].deploy = deployments[i].deploy
            /\ deployments'[i].workload = deployments[i].workload
            /\ deployments[i].lost = TRUE => deployments'[i].lost = TRUE
         /\ DOMAIN deployments' \ DOMAIN deployments = {}
    BY <2>1
  <2> QED
    BY <2>12, <2>13, <2>14, <2>15, <2>18, <2>19, <2>20, DeployGoes
<1>12. ASSUME NEW id \in DOMAIN deployments, NEW state \in Provision!Terminal, Provision!DeploymentMoves(id, state)
       PROVE  ProvisionInv'
  <2> DEFINE was == deployments[id]
             m == [was EXCEPT !.state = state]
  <2>1. deployments' = [deployments EXCEPT ![id] = m] /\ UNCHANGED <<designs, current, deploys>>
    BY <1>12 DEF Provision!DeploymentMoves
  <2>2. was \in DeploymentType
    BY <1>1
  <2>3. state \in {"running", "failed"}
    BY DEF Provision!Terminal
  <2> HIDE DEF was
  <2>4. m \in DeploymentType /\ m.deploy = was.deploy /\ m.workload = was.workload /\ m.state = state
    BY <2>2, <2>3 DEF DeploymentType
  <2>5. m.lost = was.lost
    BY <2>2, Zenon DEF DeploymentType
  <2> HIDE DEF m
  <2>6. /\ deployments' \in Seq(DeploymentType) /\ DOMAIN deployments' = DOMAIN deployments
        /\ deployments'[id] = m /\ \A i \in DOMAIN deployments \ {id} : deployments'[i] = deployments[i]
    BY <1>1, <2>1, <2>4, SeqExcept
  <2>7. Steady(designs, current, deployments, designs', current', deployments')
    BY <2>1, <2>3, <2>4, <2>6 DEF Steady
  <2>8. DeploysRight'
    <3>1. \A d \in DOMAIN deploys : DeployRight(deploys[d], designs', current', deployments')
      BY <1>1, <2>7, DeployStays
    <3> QED
      BY <2>1, <3>1 DEF DeploysRight
  <2>9. ASSUME NEW i \in DOMAIN deployments'
        PROVE  /\ deployments'[i].deploy = deployments[i].deploy
               /\ deployments'[i].workload = deployments[i].workload
               /\ deployments'[i].lost = deployments[i].lost
    <3>1. CASE i = id
      BY <2>4, <2>5, <2>6, <3>1, Zenon DEF was
    <3>2. CASE i # id
      BY <2>6, <3>2
    <3> QED
      BY <3>1, <3>2
  <2>10. DeploymentsTold'
    <3>1. ASSUME NEW i \in DOMAIN deployments'
          PROVE  /\ deployments'[i].deploy \in DOMAIN deploys'
                 /\ Told(i, deployments'[i], deploys'[deployments'[i].deploy])
      <4> DEFINE d == deployments[i].deploy
      <4>1. d \in DOMAIN deploys /\ Told(i, deployments[i], deploys[d])
        BY <1>1, <2>6 DEF DeploymentsTold
      <4>2. deployments'[i].deploy = d /\ deploys' = deploys
        BY <2>1, <2>9
      <4> HIDE DEF d
      <4>3. Told(i, deployments'[i], deploys[d])
        BY <2>9, <4>1, Zenon DEF Told
      <4> QED
        BY <4>1, <4>2, <4>3, Zenon
    <3> QED
      BY <3>1, Zenon DEF DeploymentsTold
  <2> QED
    BY <1>1, <2>1, <2>6, <2>8, <2>10 DEF ProvisionInv, ProvisionTyped, DesignsRight
<1>13. CASE Provision!ProvisionNext
  BY <1>3, <1>4, <1>5, <1>6, <1>7, <1>8, <1>9, <1>10, <1>11, <1>12, <1>13, Zenon DEF Provision!ProvisionNext
<1> QED
  BY <1>2, <1>13

\* Where a deploy has ended, what is told is in its results.
LEMMA ProvisionsHold ==
    ASSUME ProvisionInv
    PROVE  Provision!ResultsTellGateway
<1> SUFFICES ASSUME NEW d \in DOMAIN deploys, deploys[d].at = "ended"
             PROVE  LET results == deploys[d].results
                        p == deploys[d].plan
                    IN  /\ Len(results) = designs[p].workloads
                        /\ \A id \in DOMAIN deployments :
                              deployments[id].deploy = d /\ ~deployments[id].lost =>
                                  results[deployments[id].workload].deployment = id
                        /\ \A k \in DOMAIN results : results[k].state = "running" =>
                              /\ results[k].deployment # 0
                              /\ deployments[results[k].deployment].state # "provisioning"
                        /\ current[designs[p].planner] = p => designs[p].status \in {"deployed", "failed"}
  BY Zenon DEF Provision!ResultsTellGateway, Provision!NoDeployment
<1> DEFINE x == deploys[d]
<1>1. DeployRight(x, designs, current, deployments) /\ deployments \in Seq(DeploymentType)
  BY DEF ProvisionInv, ProvisionTyped, DeploysRight
<1>2. x.at = "ended" /\ x.at \notin Following
  BY DEF Following
<1>3. \A id \in DOMAIN deployments :
         deployments[id].deploy = d => Told(id, deployments[id], x)
  BY DEF ProvisionInv, DeploymentsTold
<1> HIDE DEF x
<1>4. Len(x.results) = designs[x.plan].workloads
  BY <1>1, <1>2 DEF DeployRight
<1>5. ASSUME NEW id \in DOMAIN deployments, deployments[id].deploy = d, ~deployments[id].lost
      PROVE  x.results[deployments[id].workload].deployment = id
  BY <1>2, <1>3, <1>5, Zenon DEF Told
<1>6. ASSUME NEW k \in DOMAIN x.results, x.results[k].state = "running"
      PROVE  x.results[k].deployment # 0 /\ deployments[x.results[k].deployment].state # "provisioning"
  <2>1. 0 \notin DOMAIN deployments
    BY <1>1
  <2> QED
    BY <1>1, <1>6, <2>1 DEF DeployRight
<1>7. current[designs[x.plan].planner] = x.plan => designs[x.plan].status \in {"deployed", "failed"}
  BY <1>1, <1>2 DEF DeployRight
<1> QED
  BY <1>4, <1>5, <1>6, <1>7, Zenon DEF x

-----------------------------------------------------------------------------
\* What is kept of the four parts that tell what the gateway did.
GatewayInv == ReceiptInv /\ ModelInv /\ SandpitInv /\ ProvisionInv

\* What the client tells is what the gateway did and charged: every deployment whose commit
\* was answered is in the results of the deploy that ended (planner/deploy.ts), a sandpit
\* counts the cost of every job once (sandpit.ts), a training tells every checkpoint in order
\* (train.ts), two roots of a session are the same only if they were made of the same leaves,
\* and a receipt that is verified under a root given for the receipts as recorded reads as
\* recorded, whatever columns of the rows were changed (receipts.ts).
THEOREM GatewaysAreTold == Spec => []GatewayIsTold
<1>1. Init => GatewayInv
  BY ReceiptStarts, ModelStarts, SandpitStarts, ProvisionStarts DEF Init, GatewayInv
<1>2. GatewayInv /\ [Next]_vars => GatewayInv'
  BY GatewaySteps, ReceiptStep, ModelStep, SandpitStep, ProvisionStep DEF GatewayInv
<1>3. GatewayInv => GatewayIsTold
  BY ReceiptsHold, ModelsHold, SandpitsHold, ProvisionsHold DEF GatewayInv, GatewayIsTold
<1> QED
  BY <1>1, <1>2, <1>3, PTL DEF Spec
=============================================================================
