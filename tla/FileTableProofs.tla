-------------------------- MODULE FileTableProofs ---------------------------
(***************************************************************************)
(* The functions of the file service, for all directories, paths and       *)
(* numbers of descriptors: FindName() finds what a path stands for, and    *)
(* what a read leaves to be read is what was left before, without the      *)
(* piece that it returned.                                                 *)
(***************************************************************************)
EXTENDS FileTable, TLAPS, WellFoundedInduction, FiniteSetTheorems, SequenceTheorems

-----------------------------------------------------------------------------
(***************************************************************************)
(* Least elements; induction is an argument about the least counterexample.*)
(***************************************************************************)
LEMMA LeastExists ==
  ASSUME NEW S \in SUBSET Nat, S # {}
  PROVE  \E i \in S : \A j \in S : i <= j
<1> DEFINE R == OpToRel(<, Nat)
<1>1. IsWellFoundedOn(R, Nat)
  BY NatLessThanWellFounded
<1>2. PICK i \in S : \A j \in S : ~(<<j, i>> \in R)
  <2> HIDE DEF R
  <2>1. QED
    BY <1>1, WFMin
<1>3. \A j \in S : ~(j < i)
  BY <1>2 DEF OpToRel
<1>4. QED
  BY <1>3

LEMMA LeastIs ==
  ASSUME NEW S \in SUBSET Nat, S # {}
  PROVE  Least(S) \in S /\ \A j \in S : Least(S) <= j
BY LeastExists DEF Least

LEMMA LeastUnique ==
  ASSUME NEW S \in SUBSET Nat, NEW i \in S, \A j \in S : i <= j
  PROVE  Least(S) = i
<1>1. Least(S) \in S /\ Least(S) <= i
  BY LeastIs
<1>2. i \in Nat /\ Least(S) \in Nat /\ i <= Least(S)
  BY <1>1
<1>3. QED
  BY <1>1, <1>2

(***************************************************************************)
(* Sorted(): the least number first, then the others in their order.       *)
(***************************************************************************)
LEMMA SortedSteps ==
  ASSUME NEW S \in SUBSET Nat, IsFiniteSet(S), S # {},
         NEW R, R = S \ {Least(S)}
  PROVE  /\ Cardinality(R) \in Nat /\ Cardinality(S) = Cardinality(R) + 1
         /\ Sorted(S)[1] = Least(S)
         /\ \A k \in 1 .. Cardinality(R) : Sorted(S)[k + 1] = Sorted(R)[k]
<1> DEFINE l == Least(S)
           Below(i) == {j \in S : j < i}
           BelowR(i) == {j \in R : j < i}
           At(k) == {i \in S : Cardinality(Below(i)) = k - 1}
           AtR(k) == {i \in R : Cardinality(BelowR(i)) = k - 1}
<1>1. l \in S /\ l \in Nat /\ \A j \in S : l <= j
  BY LeastIs
<1>2. /\ IsFiniteSet(R) /\ Cardinality(R) \in Nat
      /\ Cardinality(S) = Cardinality(R) + 1
  <2>1. IsFiniteSet(R) /\ Cardinality(R) = Cardinality(S) - 1
    BY <1>1, FS_RemoveElement
  <2>2. Cardinality(R) \in Nat /\ Cardinality(S) \in Nat
    BY <2>1, FS_CardinalityType
  <2>3. QED
    BY <2>1, <2>2
<1>3. Cardinality(Below(l)) = 0
  <2>1. \A j \in S : ~(j < l)
    <3>1. \A j \in S : j \in Nat
      OBVIOUS
    <3> HIDE DEF l
    <3>2. QED
      BY <1>1, <3>1
  <2>2. Below(l) = {}
    BY <2>1
  <2>3. QED
    BY <2>2, FS_EmptySet
<1>4. \A i \in R : /\ Cardinality(BelowR(i)) \in Nat
                   /\ Cardinality(Below(i)) = Cardinality(BelowR(i)) + 1
  <2> TAKE i \in R
  <2>1. i \in S /\ i # l /\ l < i
    BY <1>1
  <2>2. Below(i) = BelowR(i) \cup {l} /\ l \notin BelowR(i)
    BY <1>1, <2>1
  <2>3. BelowR(i) \subseteq R
    OBVIOUS
  <2>4. IsFiniteSet(BelowR(i))
    BY <1>2, <2>3, FS_Subset
  <2>5. QED
    BY <2>2, <2>4, FS_AddElement, FS_CardinalityType
<1>5. At(1) = {l}
  <2>1. \A i \in R : Cardinality(Below(i)) # 0
    <3> TAKE i \in R
    <3> DEFINE n == Cardinality(BelowR(i))
    <3>1. n \in Nat /\ Cardinality(Below(i)) = n + 1
      BY <1>4
    <3> HIDE DEF n
    <3>2. QED
      BY <3>1
  <2>2. \A i \in S : i = l \/ i \in R
    OBVIOUS
  <2>3. At(1) = {i \in S : Cardinality(Below(i)) = 0}
    OBVIOUS
  <2> HIDE DEF Below, l, At
  <2>4. QED
    BY <1>1, <1>3, <2>1, <2>2, <2>3
<1>6. Sorted(S)[1] = l
  <2>1. Least({l}) = l
    BY <1>1, LeastUnique
  <2>2. 1 \in 1 .. Cardinality(S)
    BY <1>2
  <2>3. Sorted(S)[1] = Least(At(1))
    BY <2>2 DEF Sorted
  <2>4. QED
    BY <1>5, <2>1, <2>3
<1>7. \A k \in 1 .. Cardinality(R) : At(k + 1) = AtR(k)
  <2> TAKE k \in 1 .. Cardinality(R)
  <2>0. (k + 1) - 1 = k /\ k # 0 /\ k \in Nat
    BY <1>2
  <2>1. \A i \in R : Cardinality(Below(i)) = (k + 1) - 1 <=> Cardinality(BelowR(i)) = k - 1
    BY <1>4, <2>0
  <2>2. l \notin At(k + 1)
    BY <1>3, <2>0
  <2>3. \A i \in S : i = l \/ i \in R
    OBVIOUS
  <2>4. R \subseteq S
    OBVIOUS
  <2> HIDE DEF Below, BelowR, l
  <2>5. QED
    BY <2>1, <2>2, <2>3, <2>4
<1>8. \A k \in 1 .. Cardinality(R) : Sorted(S)[k + 1] = Sorted(R)[k]
  <2> TAKE k \in 1 .. Cardinality(R)
  <2>1. k + 1 \in 1 .. Cardinality(S)
    BY <1>2
  <2>2. Sorted(S)[k + 1] = Least(At(k + 1))
    BY <2>1 DEF Sorted
  <2>3. Sorted(R)[k] = Least(AtR(k))
    BY DEF Sorted
  <2>4. QED
    BY <1>7, <2>2, <2>3
<1>9. QED
  BY <1>2, <1>6, <1>8

(* The numbers it lists are those of the set.                               *)
LEMMA SortedLists ==
  ASSUME NEW S \in SUBSET Nat, IsFiniteSet(S)
  PROVE  /\ Cardinality(S) \in Nat
         /\ DOMAIN Sorted(S) = 1 .. Cardinality(S)
         /\ S # {} <=> Cardinality(S) > 0
<1>1. Cardinality(S) \in Nat /\ (Cardinality(S) = 0 <=> S = {})
  BY FS_CardinalityType, FS_EmptySet
<1>2. DOMAIN Sorted(S) = 1 .. Cardinality(S)
  BY DEF Sorted
<1>3. \A n \in Nat : n > 0 <=> n # 0
  OBVIOUS
<1>4. QED
  BY <1>1, <1>2, <1>3

-----------------------------------------------------------------------------
(***************************************************************************)
(* The directories and the names of a path.                                *)
(***************************************************************************)
LEMMA SequenceIs ==
  ASSUME NEW s, IsSequence(s)
  PROVE  Len(s) \in Nat /\ DOMAIN s = 1 .. Len(s)
BY LenProperties DEF IsSequence

LEMMA DirsAre ==
  ASSUME NEW d \in DOMAIN dirs
  PROVE  /\ Len(dirs[d]) \in Nat /\ Len(dirs[d]) > 0
         /\ DOMAIN dirs[d] = 1 .. Len(dirs[d])
<1>1. IsSequence(dirs[d]) /\ dirs[d] # <<>>
  BY FileAssumption
<1>2. dirs[d] \in Seq({dirs[d][i] : i \in DOMAIN dirs[d]})
  BY <1>1 DEF IsSequence
<1>3. Len(dirs[d]) \in Nat \ {0}
  BY <1>1, <1>2, EmptySeq
<1>4. QED
  BY <1>1, <1>3, SequenceIs

LEMMA ItemIs ==
  /\ \A d \in DOMAIN dirs : \A i \in DOMAIN dirs[d] : <<d, i>> \in Item
  /\ \A item \in Item : /\ item[1] \in DOMAIN dirs /\ item[2] \in DOMAIN dirs[item[1]]
                        /\ item = <<item[1], item[2]>>
BY DEF Item

LEMMA NamesAre ==
  ASSUME NEW path, IsSequence(path), NEW k \in Nat \ {0}
  PROVE  /\ NamesFrom(path, k) \in SUBSET Nat /\ IsFiniteSet(NamesFrom(path, k))
         /\ NamesFrom(path, k) \subseteq DOMAIN path
<1>1. Len(path) \in Nat /\ DOMAIN path = 1 .. Len(path)
  BY SequenceIs
<1>2. IsFiniteSet(k .. Len(path))
  BY <1>1, FS_Interval
<1>3. NamesFrom(path, k) \subseteq k .. Len(path)
  BY DEF NamesFrom
<1>4. IsFiniteSet(NamesFrom(path, k))
  BY <1>2, <1>3, FS_Subset
<1>5. \A i \in k .. Len(path) : i \in Nat /\ i \in DOMAIN path
  BY <1>1
<1>6. QED
  BY <1>3, <1>4, <1>5

(* The names of a path from place j on: that at j, whatever it is, and      *)
(* those behind it.                                                         *)
Places(path, j) == NamesFrom(path, j + 1) \cup {j}

LEMMA PlacesStep ==
  ASSUME NEW path, IsSequence(path), NEW j \in DOMAIN path,
         NEW names, names = NamesAt(path, Places(path, j)),
         NEW later, later = NamesAt(path, NamesFrom(path, j + 1))
  PROVE  /\ names[1] = path[j] /\ Len(names) = Len(later) + 1 /\ Len(later) \in Nat
         /\ DOMAIN names = 1 .. Len(names) /\ DOMAIN later = 1 .. Len(later)
         /\ \A k \in 1 .. Len(later) : names[k + 1] = later[k]
         /\ NamesFrom(path, j + 1) # {} <=> Len(later) > 0
<1> DEFINE S == Places(path, j)
           R == NamesFrom(path, j + 1)
<1>1. j \in Nat /\ j + 1 \in Nat \ {0}
  BY SequenceIs
<1>2. R \in SUBSET Nat /\ IsFiniteSet(R)
  BY <1>1, NamesAre
<1>3. \A i \in R : j < i
  BY <1>1 DEF NamesFrom
<1>4. S \in SUBSET Nat /\ IsFiniteSet(S) /\ S # {} /\ Least(S) = j /\ R = S \ {j}
  <2>1. IsFiniteSet(S)
    BY <1>2, FS_AddElement DEF Places
  <2>2. S \in SUBSET Nat /\ j \in S /\ R = S \ {j}
    BY <1>1, <1>2, <1>3 DEF Places
  <2>3. \A i \in S : j <= i
    <3>1. \A i \in S : i \in R \/ i = j
      BY DEF Places
    <3>2. \A i \in R : i \in Nat
      BY <1>2
    <3> HIDE DEF S, R
    <3>3. QED
      BY <1>1, <1>3, <3>1, <3>2
  <2> HIDE DEF S, R
  <2>4. QED
    BY <2>1, <2>2, <2>3, LeastUnique
<1> DEFINE n == Cardinality(R)
<1>5. /\ n \in Nat /\ Cardinality(S) = n + 1 /\ Sorted(S)[1] = j
      /\ \A k \in 1 .. n : Sorted(S)[k + 1] = Sorted(R)[k]
  <2> HIDE DEF S, R
  <2>1. QED
    BY <1>4, SortedSteps
<1>6. /\ DOMAIN Sorted(S) = 1 .. n + 1 /\ DOMAIN Sorted(R) = 1 .. n
      /\ R # {} <=> n > 0
  <2> HIDE DEF S, R
  <2>1. QED
    BY <1>2, <1>4, <1>5, SortedLists
<1>7. /\ names = [k \in 1 .. n + 1 |-> path[Sorted(S)[k]]]
      /\ later = [k \in 1 .. n |-> path[Sorted(R)[k]]]
  BY <1>6 DEF NamesAt
<1> HIDE DEF n, S, R
<1>8. Len(names) = n + 1 /\ Len(later) = n
  BY <1>5, <1>7
<1>9. names[1] = path[j]
  <2>1. 1 \in 1 .. n + 1
    BY <1>5
  <2>2. QED
    BY <1>5, <1>7, <2>1
<1>10. \A k \in 1 .. n : names[k + 1] = later[k]
  <2> TAKE k \in 1 .. n
  <2>1. k + 1 \in 1 .. n + 1
    BY <1>5
  <2>2. QED
    BY <1>5, <1>7, <2>1
<1>11. QED
  BY <1>5, <1>6, <1>7, <1>8, <1>9, <1>10 DEF n, R

-----------------------------------------------------------------------------
(***************************************************************************)
(* Routes: at most one entry of a directory is the first that a name       *)
(* begins, so names lead along one route or along none.                    *)
(***************************************************************************)
LEMMA FirstIs ==
  ASSUME NEW item \in Item, NEW name
  PROVE  FirstBegun(item, name) <=>
           /\ Begun(name, item[1]) # {}
           /\ item[2] = Least(Begun(name, item[1]))
<1> DEFINE d == item[1]
           i == item[2]
           B == Begun(name, d)
           names == [j \in 1 .. i |-> dirs[d][j].name]
<1>1. /\ d \in DOMAIN dirs /\ i \in DOMAIN dirs[d] /\ Len(dirs[d]) \in Nat
      /\ DOMAIN dirs[d] = 1 .. Len(dirs[d])
  BY ItemIs, DirsAre
<1>2. i \in Nat /\ i >= 1 /\ \A j \in 1 .. i : j \in DOMAIN dirs[d]
  BY <1>1
<1>3. B \in SUBSET Nat /\ B \subseteq DOMAIN dirs[d]
  BY <1>1 DEF Begun
<1>4. ASSUME FirstBegun(item, name)
      PROVE  B # {} /\ i = Least(B)
  <2>1. /\ \A j \in 1 .. i : dirs[d][j].name # NULL
        /\ \A j \in 1 .. i : name \in Prefixes[dirs[d][j].name] <=> j = i
    BY <1>4 DEF FirstBegun
  <2>2. i \in 1 .. i
    BY <1>2
  <2>3. i \in B
    BY <1>1, <2>1, <2>2 DEF Begun
  <2>4. \A j \in B : i <= j
    <3> SUFFICES ASSUME NEW j \in B, ~(i <= j) PROVE FALSE
      OBVIOUS
    <3>1. j \in Nat /\ j >= 1 /\ j \in 1 .. i /\ j # i
      BY <1>1, <1>2, <1>3
    <3>2. name \in Prefixes[dirs[d][j].name]
      BY DEF Begun
    <3>3. QED
      BY <2>1, <3>1, <3>2
  <2> HIDE DEF B, i
  <2>5. QED
    BY <1>3, <2>3, <2>4, LeastUnique
<1>5. ASSUME B # {}, i = Least(B)
      PROVE  FirstBegun(item, name)
  <2>1. i \in B /\ \A j \in B : i <= j
    <3> HIDE DEF B, i
    <3>1. QED
      BY <1>3, <1>5, LeastIs
  <2>2. /\ \A j \in 1 .. i : dirs[d][j].name # NULL
        /\ name \in Prefixes[dirs[d][i].name]
    BY <2>1 DEF Begun
  <2>3. \A j \in 1 .. i : name \in Prefixes[dirs[d][j].name] => j = i
    <3> SUFFICES ASSUME NEW j \in 1 .. i, name \in Prefixes[dirs[d][j].name]
                 PROVE  j = i
      OBVIOUS
    <3>1. \A k \in 1 .. j : k \in 1 .. i
      BY <1>2
    <3>2. j \in B
      BY <1>2, <2>2, <3>1 DEF Begun
    <3>3. QED
      BY <1>2, <2>1, <3>2
  <2>4. QED
    BY <2>2, <2>3 DEF FirstBegun
<1>6. QED
  BY <1>4, <1>5

LEMMA RouteIs ==
  ASSUME NEW names, NEW n \in Nat, DOMAIN names = 1 .. n, n > 0,
         NEW d \in DOMAIN dirs, NEW t \in Routes(names, d)
  PROVE  /\ t \in [1 .. n -> Item] /\ t[1][1] = d
         /\ \A k \in 1 .. n : /\ Begun(names[k], t[k][1]) # {}
                             /\ t[k] = <<t[k][1], Least(Begun(names[k], t[k][1]))>>
         /\ \A k \in 1 .. n : k > 1 =>
              A_ISDIR(t[k - 1]) /\ t[k][1] = Entry(t[k - 1]).data
<1>1. /\ t \in [1 .. n -> Item] /\ t[1][1] = d
      /\ \A k \in 1 .. n : FirstBegun(t[k], names[k])
      /\ \A k \in (1 .. n) \ {1} : A_ISDIR(t[k - 1]) /\ t[k][1] = Entry(t[k - 1]).data
  BY DEF Routes
<1>2. \A k \in 1 .. n : t[k] \in Item
  BY <1>1
<1>3. \A k \in 1 .. n : /\ Begun(names[k], t[k][1]) # {}
                        /\ t[k][2] = Least(Begun(names[k], t[k][1]))
                        /\ t[k] = <<t[k][1], t[k][2]>>
  BY <1>1, <1>2, FirstIs, ItemIs
<1>4. \A k \in 1 .. n : k > 1 => k \in (1 .. n) \ {1}
  OBVIOUS
<1>5. QED
  BY <1>1, <1>3, <1>4

LEMMA OneRoute ==
  ASSUME NEW names, NEW n \in Nat, DOMAIN names = 1 .. n, n > 0,
         NEW d \in DOMAIN dirs, NEW t \in Routes(names, d), NEW u \in Routes(names, d)
  PROVE  t = u
<1> DEFINE Differ == {k \in 1 .. n : t[k] # u[k]}
<1>1. SUFFICES ASSUME Differ # {} PROVE FALSE
  <2>1. t \in [1 .. n -> Item] /\ u \in [1 .. n -> Item]
    BY DEF Routes
  <2>2. \A k \in 1 .. n : t[k] = u[k] => t = u
    BY <1>1, <2>1
  <2>3. QED
    BY <1>1, <2>1
<1>2. Differ \in SUBSET Nat
  OBVIOUS
<1> DEFINE k == Least(Differ)
<1>3. k \in Differ /\ \A j \in Differ : k <= j
  BY <1>1, <1>2, LeastIs
<1>4. k \in 1 .. n /\ t[k] # u[k]
  BY <1>3
<1> HIDE DEF k
<1>5. t[k][1] = u[k][1]
  <2>1. CASE k = 1
    BY <1>4, <2>1, RouteIs
  <2>2. CASE k > 1
    <3>1. k - 1 \in 1 .. n /\ ~(k <= k - 1)
      BY <1>4, <2>2
    <3>2. t[k - 1] = u[k - 1]
      BY <1>3, <3>1
    <3>3. t[k][1] = Entry(t[k - 1]).data /\ u[k][1] = Entry(u[k - 1]).data
      BY <1>4, <2>2, RouteIs
    <3>4. QED
      BY <3>2, <3>3
  <2>3. QED
    BY <1>4, <2>1, <2>2
<1>6. t[k] = u[k]
  <2>1. /\ t[k] = <<t[k][1], Least(Begun(names[k], t[k][1]))>>
        /\ u[k] = <<u[k][1], Least(Begun(names[k], u[k][1]))>>
    BY <1>4, RouteIs
  <2>2. QED
    BY <1>5, <2>1
<1>7. QED
  BY <1>4, <1>6

(***************************************************************************)
(* Where names lead from a directory: to the first entry that the first    *)
(* name begins, and on from its directory.                                 *)
(***************************************************************************)
Behind(later, n, names) ==
  /\ DOMAIN names = 1 .. n + 1 /\ Len(names) = n + 1
  /\ DOMAIN later = 1 .. n /\ Len(later) = n
  /\ \A k \in 1 .. n : names[k + 1] = later[k]

LEMMA TargetStep ==
  ASSUME NEW names, NEW later, NEW n \in Nat, Behind(later, n, names),
         NEW d \in DOMAIN dirs
  PROVE  Target(names, d) =
           IF Begun(names[1], d) = {} THEN NULL
           ELSE IF n = 0 THEN <<d, Least(Begun(names[1], d))>>
           ELSE IF dirs[d][Least(Begun(names[1], d))].data \notin DOMAIN dirs THEN NULL
           ELSE Target(later, dirs[d][Least(Begun(names[1], d))].data)
<1> USE DEF Behind
<1> DEFINE begun == Begun(names[1], d)
           below == dirs[d][Least(begun)].data
           first == Least(begun)
           routes == Routes(names, d)
<1>1. /\ begun \in SUBSET Nat /\ begun \subseteq DOMAIN dirs[d]
      /\ 1 \in 1 .. n + 1 /\ n + 1 \in Nat /\ n + 1 > 0
  BY DirsAre DEF Begun
<1>2. \A t \in routes : begun # {} /\ t[1] = <<d, first>>
  BY <1>1, RouteIs
<1>3. CASE begun = {}
  BY <1>2, <1>3 DEF Target
<1>4. ASSUME begun # {}
      PROVE  first \in DOMAIN dirs[d] /\ <<d, first>> \in Item /\ FirstBegun(<<d, first>>, names[1])
  <2>1. first \in begun
    BY <1>1, <1>4, LeastIs
  <2>2. <<d, first>> \in Item
    BY <1>1, <2>1, ItemIs
  <2>3. QED
    BY <1>1, <1>4, <2>1, <2>2, FirstIs
<1>5. CASE begun # {} /\ n = 0
  <2> DEFINE t == [k \in 1 .. 1 |-> <<d, first>>]
  <2>1. DOMAIN names = 1 .. 1 /\ Len(names) = 1
    BY <1>5
  <2>2. t \in [DOMAIN names -> Item] /\ t[1] = <<d, first>>
    BY <1>4, <1>5, <2>1
  <2>3. \A k \in DOMAIN names : k = 1
    <3>1. \A k \in 1 .. 1 : k = 1
      OBVIOUS
    <3> HIDE DEF t
    <3>2. QED
      BY <2>1, <3>1
  <2>4. t \in routes
    <3> HIDE DEF t
    <3>1. /\ t[1][1] = d
          /\ \A k \in DOMAIN names : FirstBegun(t[k], names[k])
      BY <1>4, <1>5, <2>2, <2>3
    <3>2. \A k \in DOMAIN names \ {1} :
             A_ISDIR(t[k - 1]) /\ t[k][1] = Entry(t[k - 1]).data
      BY <2>3
    <3>3. QED
      BY <2>2, <3>1, <3>2 DEF Routes
  <2> DEFINE u == CHOOSE u \in routes : TRUE
  <2>5. u \in routes
    BY <2>4
  <2>6. u[1] = <<d, first>>
    BY <1>2, <2>5
  <2>7. Target(names, d) = u[1]
    BY <2>1, <2>4 DEF Target
  <2>8. QED
    BY <1>5, <2>6, <2>7
<1>6. CASE begun # {} /\ n # 0 /\ below \notin DOMAIN dirs
  <2>1. ~A_ISDIR(<<d, first>>)
    BY <1>4, <1>6, FileAssumption DEF Entry
  <2>2. \A t \in routes : FALSE
    <3> TAKE t \in routes
    <3>1. 2 \in 1 .. n + 1 /\ 2 > 1 /\ 2 - 1 = 1
      BY <1>6
    <3>2. A_ISDIR(t[2 - 1])
      BY <1>1, <3>1, RouteIs
    <3>3. QED
      BY <1>2, <2>1, <3>1, <3>2
  <2>3. QED
    BY <1>6, <2>2 DEF Target
<1>7. CASE begun # {} /\ n # 0 /\ below \in DOMAIN dirs
  <2> DEFINE behind == Routes(later, below)
             Shifted(t) == [k \in 1 .. n |-> t[k + 1]]
             Longer(u) == [k \in 1 .. n + 1 |-> IF k = 1 THEN <<d, first>> ELSE u[k - 1]]
  <2>0. n > 0 /\ A_ISDIR(<<d, first>>) /\ Entry(<<d, first>>).data = below
    BY <1>4, <1>7, FileAssumption DEF Entry
  <2>1. ASSUME NEW t \in routes
        PROVE  Shifted(t) \in behind
    <3>1. /\ t \in [1 .. n + 1 -> Item]
          /\ \A k \in 1 .. n + 1 : FirstBegun(t[k], names[k])
          /\ \A k \in (1 .. n + 1) \ {1} :
                A_ISDIR(t[k - 1]) /\ t[k][1] = Entry(t[k - 1]).data
      BY DEF Routes
    <3>2. \A k \in 1 .. n : k + 1 \in (1 .. n + 1) \ {1} /\ (k + 1) - 1 = k
      OBVIOUS
    <3>3. Shifted(t) \in [DOMAIN later -> Item]
      BY <3>1, <3>2
    <3>4. 1 \in 1 .. n /\ t[1 + 1][1] = below
      <4>1. 1 \in 1 .. n
        BY <2>0
      <4>2. t[1 + 1][1] = Entry(t[1]).data
        BY <3>1, <3>2, <4>1
      <4>3. QED
        BY <1>2, <2>0, <4>1, <4>2
    <3>5. \A k \in DOMAIN later : FirstBegun(Shifted(t)[k], later[k])
      BY <3>1, <3>2
    <3>6. \A k \in (DOMAIN later) \ {1} :
             A_ISDIR(Shifted(t)[k - 1]) /\ Shifted(t)[k][1] = Entry(Shifted(t)[k - 1]).data
      <4> TAKE k \in (DOMAIN later) \ {1}
      <4>1. k - 1 \in 1 .. n /\ (k - 1) + 1 = k /\ k \in 1 .. n
        OBVIOUS
      <4>2. Shifted(t)[k - 1] = t[k] /\ Shifted(t)[k] = t[k + 1]
        BY <4>1
      <4>3. A_ISDIR(t[k]) /\ t[k + 1][1] = Entry(t[k]).data
        BY <3>1, <3>2, <4>1
      <4>4. QED
        BY <4>2, <4>3
    <3> HIDE DEF Shifted
    <3>7. Shifted(t)[1][1] = below
      BY <3>4 DEF Shifted
    <3>8. QED
      BY <3>3, <3>5, <3>6, <3>7 DEF Routes
  <2>2. ASSUME NEW u \in behind
        PROVE  Longer(u) \in routes
    <3>1. /\ u \in [1 .. n -> Item] /\ u[1][1] = below
          /\ \A k \in 1 .. n : FirstBegun(u[k], later[k])
          /\ \A k \in (1 .. n) \ {1} :
                A_ISDIR(u[k - 1]) /\ u[k][1] = Entry(u[k - 1]).data
      BY DEF Routes
    <3>2. \A k \in 1 .. n + 1 : k = 1 \/ (k - 1 \in 1 .. n /\ (k - 1) + 1 = k)
      OBVIOUS
    <3>3. Longer(u) \in [DOMAIN names -> Item]
      BY <1>4, <1>7, <3>1, <3>2
    <3>4. Longer(u)[1] = <<d, first>>
      BY <1>1
    <3>5. \A k \in 1 .. n + 1 : k # 1 => Longer(u)[k] = u[k - 1]
      OBVIOUS
    <3> HIDE DEF Longer
    <3>6. \A k \in DOMAIN names : FirstBegun(Longer(u)[k], names[k])
      <4> TAKE k \in DOMAIN names
      <4>1. CASE k = 1
        BY <1>4, <1>7, <3>4, <4>1
      <4>2. CASE k # 1
        <5>1. k - 1 \in 1 .. n /\ names[k] = later[k - 1]
          BY <3>2, <4>2
        <5>2. QED
          BY <3>1, <3>5, <4>2, <5>1
      <4>3. QED
        BY <4>1, <4>2
    <3>7. \A k \in DOMAIN names \ {1} :
             A_ISDIR(Longer(u)[k - 1]) /\ Longer(u)[k][1] = Entry(Longer(u)[k - 1]).data
      <4> TAKE k \in DOMAIN names \ {1}
      <4>1. k - 1 \in 1 .. n /\ Longer(u)[k] = u[k - 1]
        BY <3>2, <3>5
      <4>2. CASE k - 1 = 1
        BY <2>0, <3>1, <3>4, <4>1, <4>2
      <4>3. CASE k - 1 # 1
        <5>1. k - 1 \in (1 .. n) \ {1} /\ k - 1 \in 1 .. n + 1
          BY <4>1, <4>3
        <5>2. Longer(u)[k - 1] = u[(k - 1) - 1]
          BY <3>5, <5>1
        <5>3. QED
          BY <3>1, <4>1, <5>1, <5>2
      <4>4. QED
        BY <4>2, <4>3
    <3>8. Longer(u)[1][1] = d
      BY <3>4
    <3>9. QED
      BY <3>3, <3>6, <3>7, <3>8 DEF Routes
  <2>3. CASE routes = {}
    <3>1. behind = {}
      BY <2>2, <2>3
    <3>2. QED
      BY <1>7, <2>3, <3>1 DEF Target
  <2>4. CASE routes # {}
    <3> DEFINE t == CHOOSE t \in routes : TRUE
               u == CHOOSE u \in behind : TRUE
    <3>1. t \in routes /\ Shifted(t) \in behind
      BY <2>1, <2>4
    <3>2. u \in behind
      BY <3>1
    <3>3. u = Shifted(t)
      <4> HIDE DEF u, t, Shifted
      <4>1. QED
        BY <1>7, <2>0, <3>1, <3>2, OneRoute
    <3>4. n \in 1 .. n
      BY <2>0
    <3>5. u[n] = t[n + 1]
      <4> HIDE DEF u, t
      <4>1. QED
        BY <3>3, <3>4
    <3>6. Target(names, d) = t[n + 1]
      BY <2>4 DEF Target
    <3>7. Target(later, below) = u[n]
      BY <3>1 DEF Target
    <3>8. QED
      BY <1>7, <3>5, <3>6, <3>7
  <2>5. QED
    BY <2>3, <2>4
<1>8. QED
  BY <1>3, <1>5, <1>6, <1>7

-----------------------------------------------------------------------------
(***************************************************************************)
(* FindName() finds what a path stands for.  The function in FindNameSub() *)
(* is the only one with its equation: what it gives for a place of the     *)
(* path depends on later places only.                                      *)
(***************************************************************************)
Finds(path) ==
  LET find[j \in 1 .. Len(path)] ==
        [d \in DOMAIN dirs |->
           LET begun == Begun(path[j], d)
               later == NamesFrom(path, j + 1)
               first == Least(begun)
           IN  IF begun = {} THEN NULL
               ELSE IF later = {} THEN <<d, first>>
               ELSE IF dirs[d][first].data \notin DOMAIN dirs THEN NULL
               ELSE find[Least(later)][dirs[d][first].data]]
  IN  find

Leads(path) ==
  [j \in 1 .. Len(path) |->
     [d \in DOMAIN dirs |-> Target(NamesAt(path, Places(path, j)), d)]]

(* The place at which the search goes on.                                   *)
LEMMA NextPlace ==
  ASSUME NEW path, IsSequence(path), NEW j \in Nat \ {0}, NamesFrom(path, j) # {},
         NEW next, next = Least(NamesFrom(path, j))
  PROVE  /\ next \in DOMAIN path /\ next \in Nat /\ next >= j
         /\ Places(path, next) = NamesFrom(path, j)
<1> DEFINE S == NamesFrom(path, j)
<1>1. S \in SUBSET Nat /\ S \subseteq DOMAIN path
  BY NamesAre
<1>2. next \in S /\ \A i \in S : next <= i
  <2> HIDE DEF S
  <2>1. QED
    BY <1>1, LeastIs DEF S
<1>3. next \in DOMAIN path /\ next \in Nat
  BY <1>1, <1>2
<1>4. Len(path) \in Nat /\ DOMAIN path = 1 .. Len(path)
  BY SequenceIs
<1>5. next >= j /\ path[next] # SLASH
  BY <1>2, <1>3, <1>4 DEF NamesFrom
<1>6. ASSUME NEW i \in S PROVE i \in Places(path, next)
  <2>1. i \in Nat /\ next <= i /\ i <= Len(path) /\ path[i] # SLASH
    BY <1>1, <1>2, <1>4 DEF NamesFrom
  <2>2. i = next \/ i \in next + 1 .. Len(path)
    BY <1>3, <1>4, <2>1
  <2>3. QED
    BY <2>1, <2>2 DEF Places, NamesFrom
<1>7. ASSUME NEW i \in Places(path, next) PROVE i \in S
  <2>1. CASE i = next
    BY <1>2, <2>1
  <2>2. CASE i \in next + 1 .. Len(path) /\ path[i] # SLASH
    <3>1. i \in j .. Len(path)
      BY <1>3, <1>4, <1>5, <2>2
    <3>2. QED
      BY <2>2, <3>1 DEF NamesFrom
  <2>3. QED
    BY <2>1, <2>2 DEF Places, NamesFrom
<1>8. QED
  BY <1>3, <1>5, <1>6, <1>7

LEMMA LeadsOn ==
  ASSUME NEW path, IsSequence(path), NEW j \in 1 .. Len(path), NEW d \in DOMAIN dirs
  PROVE  Leads(path)[j][d] =
           LET begun == Begun(path[j], d)
               later == NamesFrom(path, j + 1)
               first == Least(begun)
           IN  IF begun = {} THEN NULL
               ELSE IF later = {} THEN <<d, first>>
               ELSE IF dirs[d][first].data \notin DOMAIN dirs THEN NULL
               ELSE Leads(path)[Least(later)][dirs[d][first].data]
<1> DEFINE names == NamesAt(path, Places(path, j))
           later == NamesFrom(path, j + 1)
           rest == NamesAt(path, later)
           n == Len(rest)
           begun == Begun(path[j], d)
           below == dirs[d][Least(begun)].data
<1>1. j \in DOMAIN path /\ j \in Nat /\ j + 1 \in Nat \ {0}
  BY SequenceIs
<1>2. /\ names[1] = path[j] /\ Len(names) = n + 1 /\ n \in Nat
      /\ DOMAIN names = 1 .. n + 1 /\ DOMAIN rest = 1 .. n
      /\ \A k \in 1 .. n : names[k + 1] = rest[k]
      /\ later # {} <=> n > 0
  <2> HIDE DEF names, rest
  <2>1. QED
    BY <1>1, PlacesStep DEF names, rest
<1>3. Leads(path)[j][d] = Target(names, d)
  BY DEF Leads
<1>4. Target(names, d) =
        IF begun = {} THEN NULL
        ELSE IF n = 0 THEN <<d, Least(begun)>>
        ELSE IF below \notin DOMAIN dirs THEN NULL
        ELSE Target(rest, below)
  <2> HIDE DEF names, rest, n
  <2>1. n \in Nat /\ Behind(rest, n, names)
    BY <1>2 DEF n, Behind
  <2>2. Target(names, d) =
          IF Begun(names[1], d) = {} THEN NULL
          ELSE IF n = 0 THEN <<d, Least(Begun(names[1], d))>>
          ELSE IF dirs[d][Least(Begun(names[1], d))].data \notin DOMAIN dirs THEN NULL
          ELSE Target(rest, dirs[d][Least(Begun(names[1], d))].data)
    BY <2>1, TargetStep
  <2>3. QED
    BY <1>2, <2>2
<1>5. later = {} <=> n = 0
  BY <1>2
<1>6. ASSUME later # {}, below \in DOMAIN dirs
      PROVE  Leads(path)[Least(later)][below] = Target(rest, below)
  <2> DEFINE next == Least(later)
  <2>1. next \in DOMAIN path /\ Places(path, next) = later
    BY <1>1, <1>6, NextPlace
  <2>2. next \in 1 .. Len(path)
    BY <2>1, SequenceIs
  <2>3. Leads(path)[next][below] = Target(NamesAt(path, Places(path, next)), below)
    BY <1>6, <2>2 DEF Leads
  <2>4. QED
    BY <2>1, <2>3
<1> HIDE DEF names, rest, n, later, begun, below
<1>7. Leads(path)[j][d] =
        IF begun = {} THEN NULL
        ELSE IF later = {} THEN <<d, Least(begun)>>
        ELSE IF below \notin DOMAIN dirs THEN NULL
        ELSE Leads(path)[Least(later)][below]
  BY <1>3, <1>4, <1>5, <1>6
<1>8. QED
  BY <1>7 DEF begun, later, below

LEMMA FindsLeads ==
  ASSUME NEW path, IsSequence(path)
  PROVE  Finds(path) = Leads(path)
<1> DEFINE n == Len(path)
           Body(f, j, d) ==
             LET begun == Begun(path[j], d)
                 later == NamesFrom(path, j + 1)
                 first == Least(begun)
             IN  IF begun = {} THEN NULL
                 ELSE IF later = {} THEN <<d, first>>
                 ELSE IF dirs[d][first].data \notin DOMAIN dirs THEN NULL
                 ELSE f[Least(later)][dirs[d][first].data]
           Solves(f) == f = [j \in 1 .. n |-> [d \in DOMAIN dirs |-> Body(f, j, d)]]
           f == Finds(path)
           g == Leads(path)
<1>1. Solves(g)
  <2>1. ASSUME NEW j \in 1 .. n, NEW d \in DOMAIN dirs PROVE g[j][d] = Body(g, j, d)
    BY LeadsOn
  <2>2. g = [j \in 1 .. n |-> [d \in DOMAIN dirs |-> g[j][d]]]
    BY DEF Leads
  <2> HIDE DEF g, Body
  <2>3. QED
    BY <2>1, <2>2
<1>2. f = CHOOSE h : Solves(h)
  BY DEF Finds
<1>3. Solves(f)
  <2> HIDE DEF Solves, f, g
  <2>1. QED
    BY <1>1, <1>2
<1>4. ASSUME NEW j \in 1 .. n, \A k \in 1 .. n : k > j => f[k] = g[k]
      PROVE  f[j] = g[j]
  <2>1. ASSUME NEW d \in DOMAIN dirs PROVE Body(f, j, d) = Body(g, j, d)
    <3> DEFINE later == NamesFrom(path, j + 1)
    <3>1. j \in Nat /\ j + 1 \in Nat \ {0} /\ DOMAIN path = 1 .. n
      BY SequenceIs
    <3>2. later # {} => Least(later) \in 1 .. n /\ Least(later) > j
      <4> SUFFICES ASSUME later # {} PROVE Least(later) \in 1 .. n /\ Least(later) > j
        OBVIOUS
      <4>1. /\ Least(later) \in DOMAIN path /\ Least(later) \in Nat
            /\ Least(later) >= j + 1
        BY <3>1, NextPlace
      <4> HIDE DEF later
      <4>2. QED
        BY <3>1, <4>1
    <3>3. later # {} => f[Least(later)] = g[Least(later)]
      BY <1>4, <3>2
    <3> HIDE DEF f, g
    <3>4. QED
      BY <3>3
  <2>2. /\ f[j] = [d \in DOMAIN dirs |-> Body(f, j, d)]
        /\ g[j] = [d \in DOMAIN dirs |-> Body(g, j, d)]
    <3> HIDE DEF f, g, Body
    <3>1. QED
      BY <1>1, <1>3
  <2> HIDE DEF f, g, Body
  <2>3. QED
    BY <2>1, <2>2
<1>5. n \in Nat
  BY SequenceIs
<1> HIDE DEF f, g
<1> DEFINE Differ == {i \in Nat : i < n /\ f[n - i] # g[n - i]}
<1>6. Differ = {}
  <2> SUFFICES ASSUME Differ # {} PROVE FALSE
    OBVIOUS
  <2>1. PICK i \in Differ : \A k \in Differ : i <= k
    BY LeastExists
  <2>2. i \in Nat /\ i < n /\ n - i \in 1 .. n
    BY <1>5, <2>1
  <2>3. \A k \in 1 .. n : k > n - i => f[k] = g[k]
    <3> SUFFICES ASSUME NEW k \in 1 .. n, k > n - i, f[k] # g[k] PROVE FALSE
      OBVIOUS
    <3>1. n - k \in Nat /\ n - k < n /\ n - (n - k) = k /\ ~(i <= n - k)
      BY <1>5, <2>2
    <3>2. n - k \in Differ
      BY <3>1
    <3>3. QED
      BY <2>1, <3>1, <3>2
  <2>4. f[n - i] = g[n - i]
    BY <1>4, <2>2, <2>3
  <2>5. QED
    BY <2>1, <2>4
<1>7. \A j \in 1 .. n : f[j] = g[j]
  <2> TAKE j \in 1 .. n
  <2>1. n - j \in Nat /\ n - j < n /\ n - (n - j) = j
    BY <1>5
  <2>2. QED
    BY <1>6, <2>1
<1>8. f = [j \in 1 .. n |-> f[j]] /\ g = [j \in 1 .. n |-> g[j]]
  BY <1>1, <1>3
<1>9. f = g
  <2> HIDE DEF n
  <2>1. QED
    BY <1>7, <1>8
<1>10. QED
  BY <1>9 DEF f, g

(* FindName(), which searches directory by directory and goes on with the   *)
(* rest of the path, returns what the path stands for as a whole.           *)
THEOREM FindsWhatIsMeant ==
  ASSUME NEW path, IsSequence(path)
  PROVE  FindName(path) = Resolve(path)
<1>1. CASE path # <<>> /\ NamesFrom(path, 1) # {}
  <2> DEFINE k == Least(NamesFrom(path, 1))
  <2>1. k \in DOMAIN path /\ Places(path, k) = NamesFrom(path, 1)
    BY <1>1, NextPlace
  <2>2. k \in 1 .. Len(path) /\ root_dir \in DOMAIN dirs
    BY <2>1, SequenceIs, FileAssumption
  <2>3. FindName(path) = FindNameSub(path, k, root_dir)
    BY <1>1 DEF FindName
  <2>4. FindNameSub(path, k, root_dir) = Finds(path)[k][root_dir]
    BY DEF FindNameSub, Finds
  <2>5. Leads(path)[k][root_dir] = Target(NamesAt(path, Places(path, k)), root_dir)
    BY <2>2 DEF Leads
  <2>6. Resolve(path) = Target(NamesAt(path, NamesFrom(path, 1)), root_dir)
    BY <1>1 DEF Resolve
  <2>7. QED
    BY <2>1, <2>3, <2>4, <2>5, <2>6, FindsLeads
<1>2. CASE ~(path # <<>> /\ NamesFrom(path, 1) # {})
  BY <1>2 DEF FindName, Resolve
<1>3. QED
  BY <1>1, <1>2

LEMMA ResolveType ==
  ASSUME NEW path, IsSequence(path)
  PROVE  Resolve(path) \in Item \cup {NULL}
<1>1. <<root_dir, 1>> \in Item
  BY FileAssumption, DirsAre, ItemIs
<1>2. CASE path # <<>> /\ NamesFrom(path, 1) # {}
  <2> DEFINE k == Least(NamesFrom(path, 1))
             names == NamesAt(path, NamesFrom(path, 1))
             n == Len(names)
             routes == Routes(names, root_dir)
  <2>1. k \in DOMAIN path /\ Places(path, k) = NamesFrom(path, 1)
    BY <1>2, NextPlace
  <2>2. DOMAIN names = 1 .. n /\ n \in 1 .. n
    <3> DEFINE later == NamesAt(path, NamesFrom(path, k + 1))
    <3>1. n = Len(later) + 1 /\ Len(later) \in Nat /\ DOMAIN names = 1 .. n
      <4> HIDE DEF k, later
      <4>1. QED
        BY <2>1, PlacesStep DEF later
    <3> HIDE DEF later, names
    <3>2. QED
      BY <3>1
  <2>3. ASSUME NEW t \in routes PROVE t[n] \in Item
    <3>1. t \in [1 .. n -> Item]
      BY <2>2 DEF Routes
    <3>2. QED
      BY <2>2, <3>1
  <2>4. Resolve(path) = IF routes = {} THEN NULL ELSE (CHOOSE t \in routes : TRUE)[n]
    BY <1>2 DEF Resolve, Target
  <2> HIDE DEF n, names, routes
  <2>5. QED
    BY <2>3, <2>4
<1>3. CASE ~(path # <<>> /\ NamesFrom(path, 1) # {})
  BY <1>1, <1>3 DEF Resolve
<1>4. QED
  BY <1>2, <1>3

-----------------------------------------------------------------------------
(***************************************************************************)
(* What is left to read, piece by piece.                                   *)
(***************************************************************************)
LEMMA EmptyIs ==
  ASSUME NEW s, s = [k \in 1 .. 0 |-> s[k]]
  PROVE  s = <<>>
<1>1. s \in [1 .. 0 -> {}] /\ 0 \in Nat
  OBVIOUS
<1>2. s \in Seq({}) /\ DOMAIN s = {}
  BY <1>1, SeqDef
<1>3. Len(s) \in Nat /\ 1 .. Len(s) = {}
  BY <1>2, LenProperties
<1>4. Len(s) \notin Nat \ {0}
  BY <1>3
<1>5. QED
  BY <1>2, <1>4, EmptySeq

LEMMA TailIs ==
  ASSUME NEW s, NEW t, NEW n \in Nat,
         s = [k \in 1 .. n + 1 |-> s[k]], t = [k \in 1 .. n |-> t[k]],
         \A k \in 1 .. n : s[k + 1] = t[k]
  PROVE  s # <<>> /\ Head(s) = s[1] /\ Tail(s) = t
<1> DEFINE X == {s[k] : k \in 1 .. n + 1}
<1>1. s \in [1 .. n + 1 -> X] /\ n + 1 \in Nat
  OBVIOUS
<1> HIDE DEF X
<1>2. s \in Seq(X) /\ Len(s) = n + 1
  <2>1. s \in Seq(X)
    BY <1>1, SeqDef
  <2>2. Len(s) \in Nat /\ 1 .. Len(s) = 1 .. n + 1
    BY <1>1, <2>1, LenProperties
  <2>3. QED
    BY <2>1, <2>2
<1>3. s # <<>>
  BY <1>2, EmptySeq
<1>4. /\ Head(s) = s[1] /\ Tail(s) \in Seq(X) /\ Len(Tail(s)) = n
      /\ \A k \in 1 .. n : Tail(s)[k] = s[k + 1]
  BY <1>2, <1>3, HeadTailProperties
<1>5. Tail(s) \in [1 .. n -> X]
  BY <1>4, LenProperties
<1>6. \A k \in 1 .. n : Tail(s)[k] = t[k]
  BY <1>4
<1>7. [k \in 1 .. n |-> Tail(s)[k]] = [k \in 1 .. n |-> t[k]]
  BY <1>6
<1>8. Tail(s) = [k \in 1 .. n |-> Tail(s)[k]]
  BY <1>5
<1>9. Tail(s) = t
  BY <1>7, <1>8
<1>10. QED
  BY <1>3, <1>4, <1>9

LEMMA NamedSteps ==
  ASSUME NEW d \in DOMAIN dirs, NEW from \in Nat
  PROVE  /\ NamedFrom(d, from) = {} => Named(d, from) = <<>>
         /\ NamedFrom(d, from) # {} =>
              LET next == Least(NamedFrom(d, from))
              IN  /\ next \in Nat /\ next <= Len(dirs[d])
                  /\ Named(d, from) # <<>>
                  /\ Head(Named(d, from)) = <<d, next>>
                  /\ Tail(Named(d, from)) = Named(d, next)
<1> DEFINE S == NamedFrom(d, from)
           next == Least(S)
           R == NamedFrom(d, next)
<1>1. DOMAIN dirs[d] = 1 .. Len(dirs[d]) /\ Len(dirs[d]) \in Nat
  BY DirsAre
<1>2. \A k \in Nat : NamedFrom(d, k) \in SUBSET Nat /\ IsFiniteSet(NamedFrom(d, k))
  <2> TAKE k \in Nat
  <2>1. NamedFrom(d, k) \subseteq 1 .. Len(dirs[d])
    BY <1>1 DEF NamedFrom
  <2>2. IsFiniteSet(1 .. Len(dirs[d]))
    BY <1>1, FS_Interval
  <2>3. IsFiniteSet(NamedFrom(d, k))
    BY <2>1, <2>2, FS_Subset
  <2>4. \A i \in 1 .. Len(dirs[d]) : i \in Nat
    OBVIOUS
  <2>5. QED
    BY <2>1, <2>3, <2>4
<1>3. ASSUME S = {} PROVE Named(d, from) = <<>>
  <2>1. DOMAIN Sorted(S) = 1 .. 0
    <3>1. Cardinality(S) = 0
      BY <1>3, FS_EmptySet
    <3>2. QED
      BY <3>1 DEF Sorted
  <2>2. Named(d, from) = [k \in 1 .. 0 |-> <<d, Sorted(S)[k]>>]
    BY <2>1 DEF Named
  <2>3. Named(d, from) = [k \in 1 .. 0 |-> Named(d, from)[k]]
    BY <2>2
  <2>4. QED
    BY <2>3, EmptyIs
<1>4. ASSUME S # {}
      PROVE  /\ next \in Nat /\ next <= Len(dirs[d]) /\ Named(d, from) # <<>>
             /\ Head(Named(d, from)) = <<d, next>> /\ Tail(Named(d, from)) = Named(d, next)
  <2>1. next \in S /\ \A i \in S : next <= i
    BY <1>2, <1>4, LeastIs
  <2>2. next \in 1 .. Len(dirs[d]) /\ next \in Nat /\ next > from
    <3> HIDE DEF next
    <3>1. QED
      BY <1>1, <2>1 DEF NamedFrom
  <2>3. R = S \ {next}
    <3> HIDE DEF next
    <3>1. ASSUME NEW i \in Nat PROVE i > next <=> i > from /\ i # next /\ next <= i
      BY <2>2
    <3>2. R \in SUBSET Nat /\ S \in SUBSET Nat
      BY <1>2, <2>2
    <3>3. ASSUME NEW i \in R PROVE i \in S \ {next}
      BY <3>1, <3>2 DEF NamedFrom
    <3>4. ASSUME NEW i \in S \ {next} PROVE i \in R
      BY <2>1, <3>1, <3>2 DEF NamedFrom
    <3>5. QED
      BY <3>3, <3>4
  <2> DEFINE n == Cardinality(R)
  <2>4. /\ n \in Nat /\ Cardinality(S) = n + 1 /\ Sorted(S)[1] = next
        /\ \A k \in 1 .. n : Sorted(S)[k + 1] = Sorted(R)[k]
    <3>1. S \in SUBSET Nat /\ IsFiniteSet(S)
      BY <1>2
    <3> HIDE DEF S, R
    <3>2. QED
      BY <1>4, <2>3, <3>1, SortedSteps
  <2>5. DOMAIN Sorted(S) = 1 .. n + 1 /\ DOMAIN Sorted(R) = 1 .. n
    BY <2>4 DEF Sorted
  <2> DEFINE s == Named(d, from)
             t == Named(d, next)
  <2>6. /\ s = [k \in 1 .. n + 1 |-> <<d, Sorted(S)[k]>>]
        /\ t = [k \in 1 .. n |-> <<d, Sorted(R)[k]>>]
    BY <2>5 DEF Named
  <2>7. 1 \in 1 .. n + 1 /\ \A k \in 1 .. n : k + 1 \in 1 .. n + 1
    BY <2>4
  <2> HIDE DEF n, s, t, S, R, next
  <2>8. s[1] = <<d, next>> /\ \A k \in 1 .. n : s[k + 1] = t[k]
    BY <2>4, <2>6, <2>7
  <2>9. s = [k \in 1 .. n + 1 |-> s[k]] /\ t = [k \in 1 .. n |-> t[k]]
    BY <2>6
  <2>10. s # <<>> /\ Head(s) = s[1] /\ Tail(s) = t
    BY <2>4, <2>8, <2>9, TailIs
  <2>11. QED
    BY <2>2, <2>8, <2>10 DEF s, t
<1>5. QED
  BY <1>3, <1>4

(* How many slices there are: none for nothing, one for less than a message *)
(* carries, one more for every message.                                     *)
LEMMA SliceCount ==
  ASSUME NEW r \in Nat
  PROVE  /\ r = 0 => (r + CHUNK - 1) \div CHUNK = 0
         /\ 0 < r /\ r < CHUNK => (r + CHUNK - 1) \div CHUNK = 1
         /\ r >= CHUNK =>
              /\ (r - CHUNK + CHUNK - 1) \div CHUNK \in Nat
              /\ (r + CHUNK - 1) \div CHUNK = (r - CHUNK + CHUNK - 1) \div CHUNK + 1
<1>1. CHUNK \in Nat /\ CHUNK > 0
  BY FileAssumption
<1>2. \A c \in Nat : c > 0 => \A a \in 0 .. c - 1 : a \div c = 0
  OBVIOUS
<1>3. \A c \in Nat : c > 0 => \A a \in Nat : (a + c) \div c = a \div c + 1
  OBVIOUS
<1>4. \A c \in Nat : c > 0 => \A a \in Nat : a \div c \in Nat
  OBVIOUS
<1>5. r = 0 => (r + CHUNK - 1) \div CHUNK = 0
  BY <1>1, <1>2
<1>6. 0 < r /\ r < CHUNK => (r + CHUNK - 1) \div CHUNK = 1
  BY <1>1, <1>2, <1>3
<1>7. ASSUME r >= CHUNK
      PROVE /\ (r - CHUNK + CHUNK - 1) \div CHUNK \in Nat
            /\ (r + CHUNK - 1) \div CHUNK = (r - CHUNK + CHUNK - 1) \div CHUNK + 1
  BY <1>1, <1>3, <1>4, <1>7
<1>8. QED
  BY <1>5, <1>6, <1>7

LEMMA SliceSteps ==
  ASSUME NEW item, Entry(item).size \in Nat, NEW from \in Nat, from <= Entry(item).size
  PROVE  LET size  == Entry(item).size
             count == Transferred(size - from)
         IN  /\ size - from = 0 => Slices(item, from) = <<>>
             /\ size - from # 0 =>
                  /\ from + count \in Nat /\ from + count <= size
                  /\ Slices(item, from) # <<>>
                  /\ Head(Slices(item, from)) = <<item, from, from + count>>
                  /\ Tail(Slices(item, from)) = Slices(item, from + count)
<1> DEFINE size == Entry(item).size
           r == size - from
           count == Transferred(r)
           Number(k) == (k + CHUNK - 1) \div CHUNK
           Slice(k) == LET start == from + (k - 1) * CHUNK
                       IN  <<item, start, IF start + CHUNK < size THEN start + CHUNK ELSE size>>
           s == Slices(item, from)
           t == Slices(item, from + count)
<1>1. CHUNK \in Nat /\ CHUNK > 0
  BY FileAssumption
<1>2. size \in Nat /\ r \in Nat /\ from <= size
  OBVIOUS
<1>3. s = [k \in 1 .. Number(r) |-> Slice(k)]
  BY DEF Slices
<1>4. CASE r = 0
  <2>1. Number(r) = 0
    BY <1>2, <1>4, SliceCount
  <2>2. s = [k \in 1 .. 0 |-> Slice(k)]
    BY <1>3, <2>1
  <2> HIDE DEF s, Slice
  <2>3. s = [k \in 1 .. 0 |-> s[k]]
    BY <2>2
  <2>4. s = <<>>
    BY <2>3, EmptyIs
  <2>5. QED
    BY <1>4, <2>4 DEF s
<1>5. CASE r # 0
  <2> DEFINE n == Number(r - count)
             Later(k) == LET start == from + count + (k - 1) * CHUNK
                         IN  <<item, start,
                               IF start + CHUNK < size THEN start + CHUNK ELSE size>>
  <2>1. /\ count \in Nat /\ r - count \in Nat /\ from + count \in Nat /\ from + count <= size
        /\ size - (from + count) = r - count
    BY <1>1, <1>2, <1>5 DEF Transferred
  <2>2. n \in Nat /\ Number(r) = n + 1
    <3>1. CASE r < CHUNK
      <4>1. count = r
        BY <3>1 DEF Transferred
      <4>2. r - count = 0 /\ 0 \in Nat /\ 0 < r
        BY <1>2, <1>5, <4>1
      <4>3. n = 0
        <5> HIDE DEF count, r
        <5>1. n = (0 + CHUNK - 1) \div CHUNK
          BY <4>2
        <5>2. QED
          BY <5>1, <4>2, SliceCount
      <4>4. Number(r) = 1
        BY <1>2, <3>1, <4>2, SliceCount
      <4>5. QED
        BY <4>3, <4>4
    <3>2. CASE ~(r < CHUNK)
      <4>1. count = CHUNK /\ r >= CHUNK
        BY <1>1, <1>2, <3>2 DEF Transferred
      <4>2. QED
        BY <1>2, <4>1, SliceCount
    <3>3. QED
      BY <3>1, <3>2
  <2>3. t = [k \in 1 .. n |-> Later(k)]
    <3>1. t = [k \in 1 .. Number(size - (from + count)) |-> Later(k)]
      BY DEF Slices
    <3>2. QED
      BY <2>1, <3>1
  <2>4. Slice(1) = <<item, from, from + count>>
    <3>1. from + (1 - 1) * CHUNK = from
      BY <1>1
    <3>2. (IF from + CHUNK < size THEN from + CHUNK ELSE size) = from + count
      BY <1>1, <1>2 DEF Transferred
    <3>3. QED
      BY <3>1, <3>2
  <2>5. ASSUME NEW k \in 1 .. n PROVE Slice(k + 1) = Later(k)
    <3>1. count = CHUNK
      <4>1. CASE r < CHUNK
        <5>1. count = r
          BY <4>1 DEF Transferred
        <5>2. r - count = 0 /\ 0 \in Nat
          BY <1>2, <5>1
        <5>3. n = 0
          <6> HIDE DEF count, r
          <6>1. n = (0 + CHUNK - 1) \div CHUNK
            BY <5>2
          <6>2. QED
            BY <6>1, <5>2, SliceCount
        <5>4. QED
          BY <2>5, <5>3
      <4>2. CASE ~(r < CHUNK)
        BY <4>2 DEF Transferred
      <4>3. QED
        BY <4>1, <4>2
    <3>2. k \in Int
      BY <2>2
    <3>3. \A a, b, c \in Int : a + ((b + 1) - 1) * c = (a + c) + (b - 1) * c
      OBVIOUS
    <3>4. from + ((k + 1) - 1) * CHUNK = (from + count) + (k - 1) * CHUNK
      BY <1>1, <3>1, <3>2, <3>3
    <3> HIDE DEF count, size
    <3>5. QED
      BY <3>4
  <2>6. 1 \in 1 .. n + 1 /\ \A k \in 1 .. n : k + 1 \in 1 .. n + 1
    BY <2>2
  <2>7. s = [k \in 1 .. n + 1 |-> Slice(k)]
    BY <1>3, <2>2
  <2> HIDE DEF s, t, n, Slice, Later
  <2>8. s[1] = Slice(1) /\ \A k \in 1 .. n : s[k + 1] = t[k]
    BY <2>3, <2>5, <2>6, <2>7
  <2>9. s = [k \in 1 .. n + 1 |-> s[k]] /\ t = [k \in 1 .. n |-> t[k]]
    BY <2>3, <2>7
  <2>10. s # <<>> /\ Head(s) = s[1] /\ Tail(s) = t
    <3>1. n \in Nat
      BY <2>2
    <3>2. s = [k \in 1 .. n + 1 |-> s[k]]
      BY <2>9
    <3>3. t = [k \in 1 .. n |-> t[k]]
      BY <2>9
    <3>4. \A k \in 1 .. n : s[k + 1] = t[k]
      BY <2>8
    <3>5. QED
      BY <3>1, <3>2, <3>3, <3>4, TailIs
  <2>11. QED
    BY <1>5, <2>1, <2>4, <2>8, <2>10 DEF s, t
<1>6. QED
  BY <1>4, <1>5

LEMMA ExtentIs ==
  ASSUME NEW item \in Item
  PROVE  /\ Extent(item) \in Nat
         /\ A_ISDIR(item) => /\ Entry(item).data \in DOMAIN dirs
                             /\ Extent(item) = Len(dirs[Entry(item).data])
         /\ ~A_ISDIR(item) => Entry(item).size \in Nat /\ Extent(item) = Entry(item).size
<1>1. CASE A_ISDIR(item)
  <2>1. Entry(item).data \in DOMAIN dirs
    BY <1>1, FileAssumption
  <2>2. Len(dirs[Entry(item).data]) \in Nat
    BY <2>1, DirsAre
  <2>3. QED
    BY <1>1, <2>1, <2>2 DEF Extent
<1>2. CASE ~A_ISDIR(item)
  BY <1>2, FileAssumption DEF Extent
<1>3. QED
  BY <1>1, <1>2

-----------------------------------------------------------------------------
(***************************************************************************)
(* The requests.                                                           *)
(***************************************************************************)
LEMMA FoundIsItem ==
  ASSUME NEW path, IsSequence(path)
  PROVE  FindName(path) \in Item \cup {NULL}
BY FindsWhatIsMeant, ResolveType

LEMMA LeastUnused ==
  ASSUME NEW fds, Unused(fds) # {}
  PROVE  Least(Unused(fds)) \in FD /\ fds[Least(Unused(fds))].owner = UNUSED
<1>1. Unused(fds) \in SUBSET Nat
  BY FileAssumption DEF Unused, FD
<1>2. Least(Unused(fds)) \in Unused(fds)
  BY <1>1, LeastIs
<1>3. QED
  BY <1>2 DEF Unused

(* A descriptor that one of Holders may have.                               *)
Descriptor(Holders) == [owner : Holders, offset : Nat, item : Item \cup {NULL}]

WithinExtent(f, Holders) ==
  f \in Descriptor(Holders) /\ (f.item # NULL => f.offset <= Extent(f.item))

(* An open takes the first descriptor that nobody uses.                     *)
LEMMA OpenGives ==
  ASSUME NEW fds, DOMAIN fds = FD, NEW path, NEW c
  PROVE  LET fd == Least(Unused(fds))
             r  == OpenObj(fds, path, c)
             f  == [owner |-> c, offset |-> 0, item |-> FindName(path)]
         IN  /\ Unused(fds) = {} => r.code = NO_FD /\ r.fd = NULL /\ r.fds = fds
             /\ Unused(fds) # {} =>
                  /\ fd \in FD /\ fds[fd].owner = UNUSED
                  /\ r.fds = [fds EXCEPT ![fd] = f]
                  /\ FindName(path) = NULL => r.code = UNFOUND /\ r.fd = NULL
                  /\ FindName(path) # NULL => r.code = GOOD /\ r.fd = fd
<1> DEFINE fd == Least(Unused(fds))
           r == OpenObj(fds, path, c)
           f == [owner |-> c, offset |-> 0, item |-> FindName(path)]
           taken == AllocFD(fds, c)
<1>1. CASE Unused(fds) = {}
  BY <1>1 DEF OpenObj
<1>2. CASE Unused(fds) # {}
  <2>1. fd \in FD /\ fds[fd].owner = UNUSED
    BY <1>2, LeastUnused
  <2> HIDE DEF fd
  <2>2. taken = [fds EXCEPT ![fd] = [owner |-> c, offset |-> 0, item |-> NULL]]
    BY DEF AllocFD, fd
  <2>3. CASE FindName(path) = NULL
    <3>1. r = [code |-> UNFOUND, fd |-> NULL, fds |-> taken]
      BY <1>2, <2>3 DEF OpenObj
    <3>2. QED
      BY <1>2, <2>1, <2>2, <2>3, <3>1 DEF fd
  <2>4. CASE FindName(path) # NULL
    <3>1. r = [code |-> GOOD, fd |-> fd,
               fds |-> [taken EXCEPT ![fd].item = FindName(path)]]
      BY <1>2, <2>4 DEF OpenObj, fd
    <3>2. [taken EXCEPT ![fd].item = FindName(path)] = [fds EXCEPT ![fd] = f]
      <4> DEFINE blank == [owner |-> c, offset |-> 0, item |-> NULL]
      <4>1. [blank EXCEPT !.item = FindName(path)] = f
        OBVIOUS
      <4> HIDE DEF blank, f, taken
      <4>2. taken = [fds EXCEPT ![fd] = blank]
        BY <2>2 DEF blank
      <4>3. [taken EXCEPT ![fd].item = FindName(path)]
              = [fds EXCEPT ![fd] = [blank EXCEPT !.item = FindName(path)]]
        BY <2>1, <4>2
      <4>4. QED
        BY <4>1, <4>3
    <3>3. r.code = GOOD /\ r.fd = fd /\ r.fds = [fds EXCEPT ![fd] = f]
      BY <3>1, <3>2
    <3> HIDE DEF r, f
    <3>4. QED
      BY <1>2, <2>1, <2>4, <3>3 DEF fd, r, f
  <2>5. QED
    BY <2>3, <2>4
<1>3. QED
  BY <1>1, <1>2

MovedTo(fds, fd, o) == [fds EXCEPT ![fd].offset = o]
Freed(fds, fd) == [fds EXCEPT ![fd].owner = UNUSED]

(* A read moves the offset to where the rest is what it did not return.     *)
Returned(r, before, after) ==
  \/ before # <<>> /\ r.code = GOOD /\ r.data = Head(before) /\ after = Tail(before)
  \/ before = <<>> /\ r.code = FM_EOF /\ r.data = NULL /\ after = <<>>

Reads(r, fds, fd) ==
  LET item == fds[fd].item
  IN  \E o \in 0 .. Extent(item) :
        r.fds = MovedTo(fds, fd, o) /\ Returned(r, Rest(item, fds[fd].offset), Rest(item, o))

LEMMA ReadsTo ==
  ASSUME NEW r, NEW fds, NEW fd, NEW o \in 0 .. Extent(fds[fd].item), r.fds = MovedTo(fds, fd, o),
         Returned(r, Rest(fds[fd].item, fds[fd].offset), Rest(fds[fd].item, o))
  PROVE  Reads(r, fds, fd)
BY DEF Reads

LEMMA ReadDirIs ==
  ASSUME NEW fds, NEW fd, fds[fd].item \in Item, A_ISDIR(fds[fd].item),
         fds[fd].offset \in 0 .. Extent(fds[fd].item)
  PROVE  Reads(ReadDir(fds, fd), fds, fd)
<1> DEFINE item == fds[fd].item
           d == Entry(item).data
           from == fds[fd].offset
           next == Least(NamedFrom(d, from))
           r == ReadDir(fds, fd)
<1>1. d \in DOMAIN dirs /\ Extent(item) = Len(dirs[d]) /\ Extent(item) \in Nat
  BY ExtentIs
<1>2. from \in Nat
  BY <1>1
<1>3. \A o : Rest(item, o) = Named(d, o)
  BY DEF Rest
<1>4. CASE NamedFrom(d, from) = {}
  <2> DEFINE o == Len(dirs[d])
  <2>1. r = [code |-> FM_EOF, data |-> NULL, fds |-> MovedTo(fds, fd, o)]
    BY <1>4 DEF ReadDir, NamedFrom, MovedTo
  <2>2. NamedFrom(d, o) = {}
    <3>1. DOMAIN dirs[d] = 1 .. o /\ o \in Nat
      BY <1>1, DirsAre
    <3>2. \A i \in 1 .. o : ~(i > o)
      BY <3>1
    <3>3. QED
      BY <3>1, <3>2 DEF NamedFrom
  <2>3. Named(d, from) = <<>> /\ Named(d, o) = <<>>
    BY <1>1, <1>2, <1>4, <2>2, NamedSteps
  <2>4. o \in 0 .. Extent(item)
    BY <1>1
  <2>5. Returned(r, Rest(item, from), Rest(item, o))
    <3> HIDE DEF r, o, from
    <3>1. QED
      BY <1>3, <2>1, <2>3 DEF Returned
  <2>6. r.fds = MovedTo(fds, fd, o)
    BY <2>1
  <2> HIDE DEF o, from, item, r
  <2>7. QED
    BY <2>4, <2>5, <2>6, ReadsTo DEF r, from, item
<1>5. CASE NamedFrom(d, from) # {}
  <2>1. r = [code |-> GOOD, data |-> <<d, next>>, fds |-> MovedTo(fds, fd, next)]
    BY <1>5 DEF ReadDir, NamedFrom, MovedTo
  <2>2. /\ next \in Nat /\ next <= Len(dirs[d]) /\ Named(d, from) # <<>>
        /\ Head(Named(d, from)) = <<d, next>> /\ Tail(Named(d, from)) = Named(d, next)
    BY <1>1, <1>2, <1>5, NamedSteps
  <2>3. next \in 0 .. Extent(item)
    BY <1>1, <2>2
  <2>4. Returned(r, Rest(item, from), Rest(item, next))
    <3> HIDE DEF r, next, from
    <3>1. QED
      BY <1>3, <2>1, <2>2 DEF Returned
  <2>5. r.fds = MovedTo(fds, fd, next)
    BY <2>1
  <2> HIDE DEF next, from, item, r
  <2>6. QED
    BY <2>3, <2>4, <2>5, ReadsTo DEF r, from, item
<1>6. QED
  BY <1>4, <1>5

LEMMA ReadFileIs ==
  ASSUME NEW fds, NEW fd \in DOMAIN fds, fds = [h \in DOMAIN fds |-> fds[h]],
         NEW Holders, fds[fd] \in Descriptor(Holders), fds[fd].item \in Item, ~A_ISDIR(fds[fd].item),
         fds[fd].offset \in 0 .. Extent(fds[fd].item)
  PROVE  Reads(ReadFile(fds, fd), fds, fd)
<1> DEFINE item == fds[fd].item
           size == Entry(item).size
           from == fds[fd].offset
           count == Transferred(size - from)
           r == ReadFile(fds, fd)
<1>1. size \in Nat /\ Extent(item) = size
  BY ExtentIs
<1>2. from \in Nat /\ from <= size
  BY <1>1
<1>3. \A o : Rest(item, o) = Slices(item, o)
  BY DEF Rest
<1>4. CASE size - from = 0
  <2>1. r = [code |-> FM_EOF, data |-> NULL, fds |-> fds]
    BY <1>4 DEF ReadFile
  <2>2. fds = MovedTo(fds, fd, from)
    <3>1. [fds[fd] EXCEPT !.offset = from] = fds[fd]
      BY DEF Descriptor
    <3>2. QED
      BY <3>1 DEF MovedTo
  <2>3. Slices(item, from) = <<>>
    BY <1>1, <1>2, <1>4, SliceSteps
  <2>4. Returned(r, Rest(item, from), Rest(item, from))
    <3> HIDE DEF r, from
    <3>1. QED
      BY <1>3, <2>1, <2>3 DEF Returned
  <2>5. r.fds = MovedTo(fds, fd, from)
    BY <2>1, <2>2
  <2>6. from \in 0 .. Extent(item)
    OBVIOUS
  <2> HIDE DEF from, item, r
  <2>7. QED
    BY <2>4, <2>5, <2>6, ReadsTo DEF r, from, item
<1>5. CASE size - from # 0
  <2> DEFINE o == from + count
  <2>1. r = [code |-> GOOD, data |-> <<item, from, o>>, fds |-> MovedTo(fds, fd, o)]
    BY <1>5 DEF ReadFile, MovedTo
  <2>2. /\ o \in Nat /\ o <= size /\ Slices(item, from) # <<>>
        /\ Head(Slices(item, from)) = <<item, from, o>>
        /\ Tail(Slices(item, from)) = Slices(item, o)
    BY <1>1, <1>2, <1>5, SliceSteps
  <2>3. o \in 0 .. Extent(item)
    BY <1>1, <2>2
  <2>4. Returned(r, Rest(item, from), Rest(item, o))
    <3> HIDE DEF r, o, from
    <3>1. QED
      BY <1>3, <2>1, <2>2 DEF Returned
  <2>5. r.fds = MovedTo(fds, fd, o)
    BY <2>1
  <2> HIDE DEF o, from, item, r
  <2>6. QED
    BY <2>3, <2>4, <2>5, ReadsTo DEF r, from, item
<1>6. QED
  BY <1>4, <1>5

LEMMA ReadObjIs ==
  ASSUME NEW fds, DOMAIN fds = FD, fds = [h \in FD |-> fds[h]], NEW Holders,
         NEW c, NEW fd \in FD, fds[fd].owner = c, fds[fd].item # NULL,
         WithinExtent(fds[fd], Holders)
  PROVE  Reads(ReadObj(fds, fd, c), fds, fd)
<1> DEFINE f == fds[fd]
<1>1. f \in Descriptor(Holders)
  BY DEF WithinExtent
<1>2. f.item \in Item /\ f.offset \in Nat /\ f.offset <= Extent(f.item)
  BY <1>1 DEF WithinExtent, Descriptor
<1>3. f.offset \in 0 .. Extent(f.item)
  BY <1>2, ExtentIs
<1>4. CanAccessFD(fds, fd, c)
  BY DEF CanAccessFD
<1>5. CASE A_ISDIR(f.item)
  <2>1. ReadObj(fds, fd, c) = ReadDir(fds, fd)
    BY <1>4, <1>5 DEF ReadObj
  <2>2. Reads(ReadDir(fds, fd), fds, fd)
    BY <1>2, <1>3, <1>5, ReadDirIs
  <2>3. QED
    BY <2>1, <2>2
<1>6. CASE ~A_ISDIR(f.item)
  <2>1. ReadObj(fds, fd, c) = ReadFile(fds, fd)
    BY <1>4, <1>6 DEF ReadObj
  <2>2. Reads(ReadFile(fds, fd), fds, fd)
    BY <1>1, <1>2, <1>3, <1>6, ReadFileIs
  <2>3. QED
    BY <2>1, <2>2
<1>7. QED
  BY <1>5, <1>6

LEMMA CloseIs ==
  ASSUME NEW fds, NEW c, NEW fd
  PROVE  LET r == CloseObj(fds, fd, c)
         IN  /\ CanAccessFD(fds, fd, c) =>
                  r.code = GOOD /\ r.fds = Freed(fds, fd)
             /\ ~CanAccessFD(fds, fd, c) => r.code = ILL_PARAM /\ r.fds = fds
BY DEF CloseObj, Freed
=============================================================================
