-------------------------- MODULE ExpertBytesProofs --------------------------
(***************************************************************************)
(* The byte sum of a set of experts behaves like a sum, whatever the       *)
(* experts and their sizes: the facts every proof about capacity rests on. *)
(***************************************************************************)
EXTENDS ExpertBytes, FunctionTheorems, FiniteSetTheorems, WellFoundedInduction, TLAPS

\* The experts of any set are finitely many, and so are their bytes.
LEMMA CellsFinite ==
  ASSUME NEW S \in SUBSET Experts
  PROVE  /\ IsFiniteSet(S)
         /\ IsFiniteSet(Cells(S))
         /\ Bytes(S) \in Nat
<1>1. IsFiniteSet(S)
  BY ExpertsAssumption, FS_Subset
<1>2. IsFiniteSet(1 .. MaxSize)
  BY SizeAssumption, FS_Interval
<1>3. IsFiniteSet(S \X (1 .. MaxSize))
  BY <1>1, <1>2, FS_Product
<1>4. Cells(S) \in SUBSET (S \X (1 .. MaxSize))
  BY DEF Cells
<1>5. IsFiniteSet(Cells(S))
  BY <1>3, <1>4, FS_Subset
<1> QED
  BY <1>1, <1>5, FS_CardinalityType DEF Bytes

\* No experts, no bytes.
LEMMA BytesOfNone == Bytes({}) = 0
<1>1. Cells({}) = {}
  BY DEF Cells
<1> QED
  BY <1>1, FS_EmptySet DEF Bytes

\* The bytes of two sets without a common expert add up.
LEMMA BytesOfUnion ==
  ASSUME NEW S \in SUBSET Experts, NEW T \in SUBSET Experts, S \cap T = {}
  PROVE  Bytes(S \cup T) = Bytes(S) + Bytes(T)
<1>1. Cells(S \cup T) = Cells(S) \cup Cells(T)
  BY DEF Cells
<1>2. Cells(S) \cap Cells(T) = {}
  BY DEF Cells
<1>3. IsFiniteSet(Cells(S)) /\ IsFiniteSet(Cells(T))
  BY CellsFinite
<1>4. Cardinality(Cells(S) \cup Cells(T)) =
        Cardinality(Cells(S)) + Cardinality(Cells(T))
          - Cardinality(Cells(S) \cap Cells(T))
  BY <1>3, FS_Union
<1>5. Cardinality(Cells(S) \cap Cells(T)) = 0
  BY <1>2, FS_EmptySet
<1>6. Cardinality(Cells(S)) \in Nat /\ Cardinality(Cells(T)) \in Nat
  BY CellsFinite DEF Bytes
<1>7. Cardinality(Cells(S) \cup Cells(T)) =
        Cardinality(Cells(S)) + Cardinality(Cells(T))
  BY <1>4, <1>5, <1>6
<1> QED
  BY <1>1, <1>7 DEF Bytes

\* More experts never hold fewer bytes.
LEMMA BytesMonotone ==
  ASSUME NEW T \in SUBSET Experts, NEW S \in SUBSET T
  PROVE  Bytes(S) <= Bytes(T)
<1>1. Cells(S) \in SUBSET Cells(T)
  BY DEF Cells
<1> QED
  BY <1>1, CellsFinite, FS_Subset DEF Bytes

\* One expert holds the bytes its size says.
LEMMA BytesOfOne ==
  ASSUME NEW k \in Experts
  PROVE  Bytes({k}) = Size[k]
<1> DEFINE f == [i \in 1 .. Size[k] |-> <<k, i>>]
<1>1. Size[k] \in Nat /\ Size[k] \in 1 .. MaxSize
  BY SizeAssumption
<1>2. Cells({k}) = {c \in {k} \X (1 .. MaxSize) : c[2] <= Size[k]}
  BY DEF Cells
<1>3. f \in [1 .. Size[k] -> Cells({k})]
  <2>1. ASSUME NEW i \in 1 .. Size[k]
        PROVE  <<k, i>> \in Cells({k})
    <3>1. i \in 1 .. MaxSize /\ i <= Size[k]
      BY <1>1, SizeAssumption
    <3> QED
      BY <3>1, <1>2
  <2> QED
    BY <2>1
<1>4. \A a, b \in 1 .. Size[k] : f[a] = f[b] => a = b
  OBVIOUS
<1>5. \A c \in Cells({k}) : \E i \in 1 .. Size[k] : f[i] = c
  <2> SUFFICES ASSUME NEW c \in Cells({k})
               PROVE  \E i \in 1 .. Size[k] : f[i] = c
    OBVIOUS
  <2>1. c = <<k, c[2]>> /\ c[2] \in 1 .. MaxSize /\ c[2] <= Size[k]
    BY <1>2
  <2>2. c[2] \in 1 .. Size[k]
    BY <2>1, <1>1, SizeAssumption
  <2>3. f[c[2]] = c
    BY <2>1, <2>2
  <2> QED
    BY <2>2, <2>3
<1>6. f \in Bijection(1 .. Size[k], Cells({k}))
  BY <1>3, <1>4, <1>5, Fun_IsBij
<1>7. ExistsBijection(1 .. Size[k], Cells({k}))
  BY <1>6 DEF ExistsBijection
<1> QED
  BY <1>1, <1>7, FS_CountingElements DEF Bytes

\* Giving up one expert frees its size.
LEMMA BytesOfRemoval ==
  ASSUME NEW S \in SUBSET Experts, NEW k \in S
  PROVE  Bytes(S \ {k}) = Bytes(S) - Size[k]
<1>1. S = (S \ {k}) \cup {k} /\ (S \ {k}) \cap {k} = {}
  OBVIOUS
<1>2. Bytes(S) = Bytes(S \ {k}) + Bytes({k})
  BY <1>1, BytesOfUnion
<1>3. Bytes(S \ {k}) \in Nat /\ Size[k] \in Nat /\ Bytes({k}) = Size[k]
  BY CellsFinite, BytesOfOne, SizeAssumption
<1> QED
  BY <1>2, <1>3

\* A set of experts splits into those that are in another set and the rest.
LEMMA CountSplits ==
  ASSUME NEW S \in SUBSET Experts, NEW T
  PROVE  /\ Cardinality(S) = Cardinality(S \cap T) + Cardinality(S \ T)
         /\ Cardinality(S) \in Nat
         /\ Cardinality(S \cap T) \in Nat
         /\ Cardinality(S \ T) \in Nat
<1>1. /\ IsFiniteSet(S) /\ IsFiniteSet(S \cap T) /\ IsFiniteSet(S \ T)
  BY CellsFinite
<1>2. S = (S \cap T) \cup (S \ T) /\ (S \cap T) \cap (S \ T) = {}
  OBVIOUS
<1>3. Cardinality((S \cap T) \cup (S \ T)) =
        Cardinality(S \cap T) + Cardinality(S \ T)
          - Cardinality((S \cap T) \cap (S \ T))
  BY <1>1, FS_Union
<1>4. Cardinality((S \cap T) \cap (S \ T)) = 0
  BY <1>2, FS_EmptySet
<1>5. /\ Cardinality(S) \in Nat
      /\ Cardinality(S \cap T) \in Nat
      /\ Cardinality(S \ T) \in Nat
  BY <1>1, FS_CardinalityType
<1> QED
  BY <1>2, <1>3, <1>4, <1>5

\* One record per expert of a set: as many records as experts.
LEMMA OneRecordPerExpert ==
  ASSUME NEW S \in SUBSET Experts, NEW T, NEW f,
         f \in [S -> T],
         \A a, b \in S : f[a] = f[b] => a = b,
         \A t \in T : \E k \in S : f[k] = t
  PROVE  IsFiniteSet(T) /\ Cardinality(T) = Cardinality(S)
<1>1. f \in Bijection(S, T)
  BY Fun_IsBij
<1>2. ExistsBijection(S, T)
  BY <1>1 DEF ExistsBijection
<1>3. IsFiniteSet(S)
  BY CellsFinite
<1> QED
  BY <1>2, <1>3, FS_Bijection

\* Some natural number of a nonempty set is the least.
LEMMA LeastNatural ==
  ASSUME NEW S \in SUBSET Nat, S # {}
  PROVE  \E n \in S : \A m \in S : n <= m
<1> DEFINE R == {pair \in Nat \X Nat : pair[1] < pair[2]}
<1>1. R = OpToRel(<, Nat)
  BY Zenon DEF OpToRel
<1>2. IsWellFoundedOn(R, Nat)
  BY <1>1, NatLessThanWellFounded
<1>3. PICK n \in S : \A m \in S : ~ (<<m, n>> \in R)
  <2> HIDE DEF R
  <2> QED
    BY <1>2, WFMin
<1>4. ASSUME NEW m \in S PROVE n <= m
  <2>1. m \in Nat /\ n \in Nat /\ ~ (m < n)
    BY <1>3
  <2> QED
    BY <2>1
<1> QED
  BY <1>4

(***************************************************************************)
(* The elements of C that fewer than n of C come before: what a sorted     *)
(* list cut off after n elements holds.                                    *)
(***************************************************************************)
Before(C, R, k) == {j \in C : <<j, k>> \in R}

FirstOf(C, R, n) == {k \in C : Cardinality(Before(C, R, k)) < n}

\* In a strict total order they are n, or all if there are not as many.
LEMMA FirstOfOrder ==
  ASSUME NEW C, IsFiniteSet(C), NEW R, NEW n \in Nat,
         \A k \in C : <<k, k>> \notin R,
         \A i, j, k \in C : <<i, j>> \in R /\ <<j, k>> \in R => <<i, k>> \in R,
         \A j, k \in C : j # k => <<j, k>> \in R \/ <<k, j>> \in R
  PROVE  /\ FirstOf(C, R, n) \in SUBSET C
         /\ Cardinality(FirstOf(C, R, n)) <= n
         /\ FirstOf(C, R, n) # C => Cardinality(FirstOf(C, R, n)) = n
         /\ \A j \in C, k \in FirstOf(C, R, n) :
              <<j, k>> \in R => j \in FirstOf(C, R, n)
<1> DEFINE rank(k) == Cardinality(Before(C, R, k))
           first == FirstOf(C, R, n)
<1>1. ASSUME NEW k \in C
      PROVE  IsFiniteSet(Before(C, R, k)) /\ rank(k) \in Nat
  <2>1. Before(C, R, k) \in SUBSET C
    BY DEF Before
  <2>2. IsFiniteSet(Before(C, R, k))
    BY <2>1, FS_Subset
  <2> QED
    BY <2>2, FS_CardinalityType
<1>2. ASSUME NEW j \in C, NEW k \in C, <<j, k>> \in R
      PROVE  rank(j) < rank(k)
  <2>1. Before(C, R, j) \in SUBSET Before(C, R, k)
    BY <1>2 DEF Before
  <2>2. j \in Before(C, R, k) /\ j \notin Before(C, R, j)
    BY <1>2 DEF Before
  <2>3. rank(j) <= rank(k) /\ rank(j) # rank(k)
    BY <1>1, <2>1, <2>2, FS_Subset
  <2> QED
    BY <1>1, <2>3
<1>3. first \in SUBSET C /\ \A k \in C : k \in first <=> rank(k) < n
  BY DEF FirstOf
<1>4. IsFiniteSet(first) /\ Cardinality(first) \in Nat
  BY <1>3, FS_Subset, FS_CardinalityType
<1>5. \A j \in C, k \in first : <<j, k>> \in R => j \in first
  <2> SUFFICES ASSUME NEW j \in C, NEW k \in first, <<j, k>> \in R PROVE j \in first
    OBVIOUS
  <2>1. rank(j) < rank(k) /\ rank(k) < n /\ rank(j) \in Nat /\ rank(k) \in Nat
    BY <1>1, <1>2, <1>3
  <2>2. rank(j) < n
    BY <2>1
  <2> QED
    BY <1>3, <2>2
<1>6. Cardinality(first) <= n
  <2>1. CASE first = {}
    BY <2>1, FS_EmptySet
  <2>2. CASE first # {}
    <3> DEFINE rest == {n - rank(k) : k \in first}
    <3>1. rest \in SUBSET Nat /\ rest # {}
      BY <1>1, <1>3, <2>2
    <3>2. PICK least \in rest : \A m \in rest : least <= m
      <4> HIDE DEF rest
      <4> QED
        BY <3>1, LeastNatural
    <3>3. PICK last \in first : least = n - rank(last)
      BY <3>2
    <3>4. ASSUME NEW j \in first PROVE j \in Before(C, R, last) \cup {last}
      <4>1. n - rank(last) <= n - rank(j)
        BY <3>2, <3>3
      <4>2. ~ (rank(last) < rank(j))
        BY <1>1, <1>3, <4>1
      <4>3. <<last, j>> \notin R
        BY <1>2, <1>3, <4>2
      <4> QED
        BY <1>3, <4>3 DEF Before
    <3>5. first \in SUBSET (Before(C, R, last) \cup {last})
      BY <3>4
    <3>6. /\ IsFiniteSet(Before(C, R, last) \cup {last})
          /\ Cardinality(Before(C, R, last) \cup {last}) <= rank(last) + 1
      <4>1. IsFiniteSet(Before(C, R, last)) /\ rank(last) \in Nat
        BY <1>1, <1>3
      <4>2. last \notin Before(C, R, last)
        BY <1>3 DEF Before
      <4>3. /\ IsFiniteSet(Before(C, R, last) \cup {last})
            /\ Cardinality(Before(C, R, last) \cup {last}) = rank(last) + 1
        BY <4>1, <4>2, FS_AddElement
      <4> QED
        BY <4>1, <4>3
    <3>7. Cardinality(first) <= Cardinality(Before(C, R, last) \cup {last})
      BY <3>5, <3>6, FS_Subset
    <3>8. Cardinality(Before(C, R, last) \cup {last}) \in Nat
      BY <3>6, FS_CardinalityType
    <3>9. rank(last) < n /\ rank(last) \in Nat
      BY <1>1, <1>3
    <3> HIDE DEF rank, first
    <3> QED
      BY <1>4, <3>6, <3>7, <3>8, <3>9
  <2> QED
    BY <2>1, <2>2
<1>7. ASSUME first # C PROVE n <= Cardinality(first)
  <2> DEFINE ranks == {rank(k) : k \in C \ first}
  <2>1. ranks \in SUBSET Nat /\ ranks # {}
    BY <1>1, <1>3, <1>7
  <2>2. PICK least \in ranks : \A m \in ranks : least <= m
    <3> HIDE DEF ranks
    <3> QED
      BY <2>1, LeastNatural
  <2>3. PICK next \in C \ first : least = rank(next)
    BY <2>2
  <2>4. Before(C, R, next) \in SUBSET first
    <3> SUFFICES ASSUME NEW j \in C, <<j, next>> \in R, j \notin first PROVE FALSE
      BY DEF Before
    <3>1. rank(j) < rank(next) /\ rank(j) \in Nat /\ rank(next) \in Nat
      BY <1>1, <1>2
    <3>2. rank(next) <= rank(j)
      BY <2>2, <2>3
    <3> QED
      BY <3>1, <3>2
  <2>5. rank(next) <= Cardinality(first)
    BY <1>4, <2>4, FS_Subset
  <2>6. ~ (rank(next) < n) /\ rank(next) \in Nat
    BY <1>1, <1>3
  <2> HIDE DEF rank, first
  <2> QED
    BY <1>4, <2>5, <2>6
<1>8. first # C => Cardinality(first) = n
  <2> HIDE DEF first
  <2> QED
    BY <1>4, <1>6, <1>7
<1> QED
  BY <1>3, <1>5, <1>6, <1>8

=============================================================================
