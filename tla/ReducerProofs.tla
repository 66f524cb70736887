---------------------------- MODULE ReducerProofs ----------------------------
(***************************************************************************)
(* Proofs about Reducer: type correctness, and that the search settles on  *)
(* an irreducible set of units, for every project and every command.       *)
(***************************************************************************)
EXTENDS Reducer, FiniteSetTheorems, TLAPS

(***************************************************************************)
(* Positions.                                                              *)
(***************************************************************************)
LEMMA ActiveFinite ==
  ASSUME Parameters, active \subseteq Unit
  PROVE  IsFiniteSet(active) /\ Size \in Nat
BY FS_Subset, FS_CardinalityType DEF Parameters, Size

Below(u) == {v \in active : v < u}

LEMMA BelowFinite ==
  ASSUME Parameters, active \subseteq Unit, NEW u
  PROVE  /\ IsFiniteSet(Below(u)) /\ Below(u) \subseteq active
         /\ Position(u) = Cardinality(Below(u)) /\ Position(u) \in Nat
<1>1. IsFiniteSet(active)
  BY ActiveFinite
<1>2. Below(u) \in SUBSET active /\ Position(u) = Cardinality(Below(u))
  BY DEF Below, Position
<1>3. IsFiniteSet(Below(u))
  BY <1>1, <1>2, FS_Subset
<1> QED
  BY <1>2, <1>3, FS_CardinalityType

LEMMA PositionOrder ==
  ASSUME Parameters, active \subseteq Unit, NEW u \in active, NEW w \in active, u < w
  PROVE  Position(u) < Position(w)
<1>1. Below(u) \in SUBSET Below(w) /\ Below(u) # Below(w)
  <2>1. \A v \in active : v \in Nat
    BY DEF Parameters
  <2>2. \A v \in active : v < u => v < w
    BY <2>1
  <2>3. u \in Below(w) /\ u \notin Below(u)
    BY <2>1 DEF Below
  <2> QED
    BY <2>2, <2>3 DEF Below
<1>2. Cardinality(Below(u)) <= Cardinality(Below(w)) /\ Cardinality(Below(w)) # Cardinality(Below(u))
  BY <1>1, BelowFinite, FS_Subset
<1>3. /\ Position(u) = Cardinality(Below(u)) /\ Position(u) \in Nat
      /\ Position(w) = Cardinality(Below(w)) /\ Position(w) \in Nat
  BY BelowFinite
<1> QED
  BY <1>2, <1>3

LEMMA PositionInjective ==
  ASSUME Parameters, active \subseteq Unit, NEW u \in active
  PROVE  /\ Position(u) \in Nat /\ Position(u) < Size
         /\ {v \in active : Position(v) = Position(u)} = {u}
<1>1. IsFiniteSet(active) /\ Size \in Nat /\ active \subseteq Nat
  BY ActiveFinite DEF Parameters
<1>2. \A v \in active : Position(v) \in Nat
  BY BelowFinite
<1>3. Position(u) < Size
  <2>1. Below(u) \in SUBSET active /\ Below(u) # active
    BY <1>1 DEF Below
  <2>2. Cardinality(Below(u)) <= Cardinality(active) /\ Cardinality(active) # Cardinality(Below(u))
    BY <1>1, <2>1, FS_Subset
  <2>3. Position(u) = Cardinality(Below(u)) /\ Size = Cardinality(active)
    BY BelowFinite DEF Size
  <2> QED
    BY <1>1, <1>2, <2>2, <2>3
<1>4. ASSUME NEW v \in active, v # u PROVE Position(v) # Position(u)
  <2>1. Position(u) \in Nat /\ Position(v) \in Nat
    BY <1>2
  <2>2. v < u => Position(v) < Position(u)
    BY PositionOrder
  <2>3. u < v => Position(u) < Position(v)
    BY PositionOrder
  <2>4. v < u \/ u < v
    BY <1>1, <1>4
  <2> QED
    BY <2>1, <2>2, <2>3, <2>4
<1> QED
  BY <1>2, <1>3, <1>4

\* The unit the sweep leaves out is a single one, if it is there.
LEMMA SweepRemovesOne ==
  ASSUME Parameters, active \subseteq Unit
  PROVE  WithoutPosition = active \/ \E u \in active : Position(u) = position /\ WithoutPosition = active \ {u}
<1>1. CASE \E u \in active : Position(u) = position
  <2>1. PICK u \in active : Position(u) = position
    BY <1>1
  <2>2. {v \in active : Position(v) = position} = {u}
    BY <2>1, PositionInjective
  <2> QED
    BY <2>1, <2>2 DEF WithoutPosition
<1>2. CASE ~\E u \in active : Position(u) = position
  BY <1>2 DEF WithoutPosition
<1> QED
  BY <1>1, <1>2

(***************************************************************************)
(* The ordered frontier.                                                   *)
(***************************************************************************)
LEMMA CeilDivNat ==
  ASSUME NEW a \in Nat, NEW b \in Nat \ {0}
  PROVE  CeilDiv(a, b) \in Nat /\ (a > 0 => CeilDiv(a, b) > 0)
<1>1. CeilDiv(a, b) \in Nat
  BY DEF CeilDiv
<1>2. ASSUME a > 0 PROVE CeilDiv(a, b) > 0
  <2>1. a + b - 1 >= b /\ a + b - 1 \in Nat
    BY <1>2
  <2> QED
    BY <2>1 DEF CeilDiv
<1> QED
  BY <1>1, <1>2

LEMMA CeilDivUnits ==
  ASSUME NEW a \in Nat \ {0}
  PROVE  CeilDiv(a, a) = 1 /\ CeilDiv(a, 1) = a
<1>1. CeilDiv(a, 1) = a
  BY DEF CeilDiv
<1>2. CeilDiv(a, a) = 1
  <2>1. a + a - 1 >= a /\ a + a - 1 < 2 * a
    OBVIOUS
  <2> QED
    BY <2>1 DEF CeilDiv
<1> QED
  BY <1>1, <1>2

LEMMA ChunkSizeType ==
  ASSUME Parameters, TypeOK, Size >= 2
  PROVE  ChunkSize \in Nat \ {0}
<1>1. Size \in Nat /\ granularity \in Nat /\ granularity >= 2
  BY ActiveFinite DEF TypeOK
<1>2. ASSUME NEW b \in Nat \ {0} PROVE CeilDiv(Size, b) \in Nat \ {0}
  <2>1. CeilDiv(Size, b) \in Nat /\ (Size > 0 => CeilDiv(Size, b) > 0)
    BY <1>1, CeilDivNat
  <2> QED
    BY <1>1, <2>1
<1>3. CASE granularity > Size
  BY <1>1, <1>2, <1>3 DEF ChunkSize
<1>4. CASE ~(granularity > Size)
  BY <1>1, <1>2, <1>4 DEF ChunkSize
<1> QED
  BY <1>3, <1>4

LEMMA FrontierType ==
  ASSUME Parameters, TypeOK, Size >= 2
  PROVE  /\ Parts \in Nat /\ Len(OrderedFrontier) = 2 * Parts
         /\ \A i \in 1..Len(OrderedFrontier) : OrderedFrontier[i] \subseteq active
<1>0. active \subseteq Unit /\ granularity \in Nat /\ granularity >= 2
  BY DEF TypeOK
<1>1. Size \in Nat \ {0} /\ granularity \in Nat \ {0}
  <2>1. Size \in Nat
    BY <1>0, ActiveFinite
  <2> QED
    BY <1>0, <2>1
<1>2. ChunkSize \in Nat \ {0}
  BY ChunkSizeType
<1>3. Parts \in Nat
  BY <1>1, <1>2, CeilDivNat DEF Parts
<1>4. Len(OrderedFrontier) = 2 * Parts
  BY <1>3 DEF OrderedFrontier
<1>5. \A i \in 1..(2 * Parts) : OrderedFrontier[i] \subseteq active
  BY DEF OrderedFrontier, Part
<1> QED
  BY <1>3, <1>4, <1>5

\* At the finest granularity the complements are the removals of single units.
LEMMA FinestFrontier ==
  ASSUME Parameters, TypeOK, Size >= 2, granularity >= Size, NEW u \in active
  PROVE  \E i \in 1..Len(OrderedFrontier) : OrderedFrontier[i] = active \ {u}
<1>0. active \subseteq Unit /\ granularity \in Nat
  BY DEF TypeOK
<1>1. Size \in Nat \ {0}
  <2>1. Size \in Nat
    BY <1>0, ActiveFinite
  <2> QED
    BY <2>1
<1>2. ChunkSize = 1
  <2>1. (IF granularity > Size THEN Size ELSE granularity) = Size
    BY <1>0, <1>1
  <2> QED
    BY <1>1, <2>1, CeilDivUnits DEF ChunkSize
<1>3. Parts = Size
  BY <1>1, <1>2, CeilDivUnits DEF Parts
<1>4. Position(u) \in Nat /\ Position(u) < Size /\ {v \in active : Position(v) = Position(u)} = {u}
  BY PositionInjective DEF TypeOK
<1> DEFINE p == Position(u) + 1
<1>5. Part(p) = {u}
  <2>1. \A v \in active : Position(v) \in Nat
    BY PositionInjective DEF TypeOK
  <2>2. \A v \in active : Position(v) \div ChunkSize = Position(v)
    BY <1>2, <2>1
  <2>3. p - 1 = Position(u)
    BY <1>4
  <2> QED
    BY <1>4, <2>2, <2>3 DEF Part
<1>6. Len(OrderedFrontier) = 2 * Size
  BY <1>3, FrontierType
<1>7. p + Size \in 1..(2 * Size) /\ ~(p + Size <= Size) /\ (p + Size) - Size = p
  BY <1>1, <1>4
<1>8. OrderedFrontier[p + Size] = active \ {u}
  BY <1>3, <1>5, <1>7 DEF OrderedFrontier
<1> QED
  BY <1>6, <1>7, <1>8

\* A part has no more units than a chunk.
LEMMA PartBounded ==
  ASSUME Parameters, active \subseteq Unit, ChunkSize \in Nat \ {0}, NEW j \in Nat \ {0}
  PROVE  Cardinality(Part(j)) <= ChunkSize
<1> DEFINE first == (j - 1) * ChunkSize
           interval == first..(first + ChunkSize - 1)
           f == [u \in Part(j) |-> Position(u)]
<1>1. first \in Nat
  BY SMTT(30)
<1>2. ASSUME NEW u \in Part(j) PROVE u \in active /\ Position(u) \in interval
  <2>1. u \in active /\ Position(u) \div ChunkSize = j - 1
    BY <1>2 DEF Part
  <2>2. Position(u) \in Nat
    BY <2>1, PositionInjective
  <2> DEFINE p == Position(u)
             c == ChunkSize
             q == p \div c
  <2>3. p \in Nat /\ c \in Nat \ {0}
    BY <2>2
  <2> HIDE DEF p, c
  <2>4. q \in Nat /\ q * c <= p /\ p < q * c + c
    BY <2>3, SMTT(30)
  <2> QED
    BY <1>1, <2>1, <2>3, <2>4 DEF p, c
<1>3. \A u, v \in Part(j) : Position(u) = Position(v) => u = v
  BY <1>2, PositionInjective
<1>4. f \in Injection(Part(j), interval)
  <2>1. f \in [Part(j) -> interval]
    BY <1>2
  <2>2. DOMAIN f = Part(j) /\ \A u, v \in Part(j) : f[u] = f[v] => u = v
    BY <1>3
  <2> HIDE DEF f, interval
  <2> QED
    BY <2>1, <2>2, Zenon DEF Injection, IsInjective
<1>5. IsFiniteSet(interval) /\ Cardinality(interval) = ChunkSize
  <2>1. first \in Int /\ first + ChunkSize - 1 \in Int /\ ~(first > first + ChunkSize - 1)
    BY <1>1
  <2>2. IsFiniteSet(interval) /\ Cardinality(interval) = (first + ChunkSize - 1) - first + 1
    BY <2>1, FS_Interval
  <2> QED
    BY <1>1, <2>2
<1> QED
  BY <1>4, <1>5, FS_Injection

\* A chunk less leaves as many units as there are parts less one.
LEMMA ChunkLeaves ==
  ASSUME NEW a \in Nat, NEW b \in Nat, b >= 2, b <= a
  PROVE  CeilDiv(a, b) \in Nat /\ a - CeilDiv(a, b) >= b - 1
<1> DEFINE q == (a + b - 1) \div b
           d == a - b
<1>1. q \in Nat /\ q * b <= a + b - 1 /\ d \in Nat
  OBVIOUS
<1>2. SUFFICES ASSUME q >= d + 2 PROVE FALSE
  BY <1>1 DEF CeilDiv
<1> HIDE DEF q, d
<1>3. (d + 2) * b <= q * b
  BY <1>1, <1>2, SMTT(30)
<1>4. (d + 2) * b = d * b + 2 * b /\ d * b >= d /\ d * b \in Nat
  BY <1>1, SMTT(30)
<1>5. d + 2 * b - 1 = a + b - 1
  BY DEF d
<1> QED
  BY <1>1, <1>3, <1>4, <1>5

\* What a preserved complement leaves is enough for one part less.
LEMMA ComplementLeaves ==
  ASSUME Parameters, TypeOK, stage = "ddmin", Size >= 2, granularity <= Size,
         NEW i \in Nat, i <= Len(OrderedFrontier), ~(2 * i <= Len(OrderedFrontier))
  PROVE  Cardinality(OrderedFrontier[i]) >= granularity - 1
<1>1. /\ active \subseteq Unit /\ granularity \in Nat /\ granularity >= 2
      /\ IsFiniteSet(active) /\ Size \in Nat
  BY ActiveFinite DEF TypeOK
<1>2. Parts \in Nat /\ Len(OrderedFrontier) = 2 * Parts
  BY FrontierType
<1>3. i - Parts \in Nat \ {0} /\ i \in 1..(2 * Parts) /\ ~(i <= Parts)
  BY <1>2
<1> DEFINE part == Part(i - Parts)
<1>4. OrderedFrontier[i] = active \ part
  BY <1>3 DEF OrderedFrontier
<1>5. Cardinality(part) <= ChunkSize /\ ChunkSize \in Nat \ {0}
  BY <1>1, <1>3, ChunkSizeType, PartBounded
<1>6. part \in SUBSET active
  BY DEF Part
<1> HIDE DEF part
<1>7. active \cap part = part /\ IsFiniteSet(part)
  BY <1>1, <1>6, FS_Subset
<1>8. Cardinality(active \ part) = Size - Cardinality(part) /\ Cardinality(part) \in Nat
  BY <1>1, <1>7, FS_Difference, FS_CardinalityType DEF Size
<1>9. ChunkSize = CeilDiv(Size, granularity)
  BY <1>1 DEF ChunkSize
<1>10. Size - ChunkSize >= granularity - 1
  BY <1>1, <1>9, ChunkLeaves
<1> QED
  BY <1>1, <1>4, <1>5, <1>8, <1>10

(***************************************************************************)
(* Type correctness.                                                       *)
(***************************************************************************)
LEMMA EvaluatedType ==
  ASSUME failed \in BOOLEAN, NEW i, Evaluated(i)
  PROVE  failed' \in BOOLEAN
BY DEF Evaluated

\* An answer never adds a unit, and what it keeps instead was preserved.
LEMMA AcceptedSmaller ==
  ASSUME Parameters, TypeOK, NEW i \in Ranks, Evaluated(i)
  PROVE  /\ Accepted(i) \subseteq active
         /\ Accepted(i) = active \/ "preserved" \in outcome[Accepted(i)]
<1>1. CASE i = 0
  BY <1>1 DEF Accepted
<1>2. CASE i # 0
  <2>1. i \in 1..Len(Frontier) /\ "preserved" \in outcome[Frontier[i]]
    <3>1. i \in Nat /\ i \in 0..Len(Frontier)
      BY DEF Evaluated, Ranks
    <3> QED
      BY <1>2, <3>1 DEF Evaluated
  <2>2. Frontier[i] \subseteq active
    <3>1. CASE stage = "ddmin"
      <4>1. Size >= 2 /\ Frontier = OrderedFrontier
        BY <3>1 DEF Evaluated, Asking, Frontier
      <4> QED
        BY <2>1, <4>1, FrontierType
    <3>2. CASE stage = "directories"
      <4>1. Frontier = <<WithoutGroup>>
        BY <3>2 DEF Frontier
      <4>2. Frontier[i] = WithoutGroup
        BY <2>1, <4>1
      <4> QED
        BY <4>2 DEF WithoutGroup
    <3>3. CASE stage # "ddmin" /\ stage # "directories"
      <4>1. Frontier = <<WithoutPosition>>
        BY <3>3 DEF Frontier
      <4>2. Frontier[i] = WithoutPosition
        BY <2>1, <4>1
      <4> QED
        BY <4>2 DEF WithoutPosition
    <3> QED
      BY <3>1, <3>2, <3>3
  <2> QED
    BY <1>2, <2>1, <2>2 DEF Accepted
<1> QED
  BY <1>1, <1>2

\* The sweep asks about one candidate.
LEMMA SweepAnswer ==
  ASSUME NEW i \in Ranks, SweepUnit(i)
  PROVE  /\ stage = "sweep" /\ position < Size /\ Frontier = <<WithoutPosition>> /\ i \in {0, 1}
         /\ active' = IF i = 1 THEN WithoutPosition ELSE active
         /\ position' = IF i = 1 THEN position ELSE position + 1
<1>1. stage = "sweep" /\ position < Size /\ Frontier = <<WithoutPosition>>
  BY DEF SweepUnit, Evaluated, Asking, Frontier
<1>2. i \in {0, 1}
  BY <1>1 DEF SweepUnit, Evaluated
<1> QED
  BY <1>1, <1>2 DEF SweepUnit, Accepted

LEMMA InitType == ASSUME Parameters, Init PROVE TypeOK
<1>1. active \subseteq Unit /\ Len(Groups) \in Nat
  BY DEF Init, Parameters
<1>2. Size \in Nat
  BY <1>1, ActiveFinite
<1>3. outcome \in [SUBSET Unit -> SUBSET Verdict]
  BY DEF Init, Parameters
<1>4. group \in 1..(Len(Groups) + 1)
  BY <1>1 DEF Init
<1>5. /\ stage = "directories" /\ granularity \in Nat /\ granularity >= 2 /\ granularity = 2
      /\ position = 0 /\ failed = FALSE
  BY DEF Init
<1> QED
  BY <1>1, <1>3, <1>4, <1>5, Zenon DEF TypeOK

\* A cut moves no position out of the retained units.
LEMMA SweepPosition ==
  ASSUME Parameters, TypeOK, NEW i \in Ranks, SweepUnit(i)
  PROVE  active' \subseteq active /\ position' \in 0..Size' /\ failed' \in BOOLEAN
<1>0. /\ active \subseteq Unit /\ position \in Nat /\ position < Size /\ Size \in Nat
      /\ failed' \in BOOLEAN /\ IsFiniteSet(active)
  <2>1. stage = "sweep" /\ position < Size
    BY SweepAnswer
  <2>2. active \subseteq Unit /\ failed \in BOOLEAN /\ position \in 0..Size
    BY <2>1 DEF TypeOK
  <2>3. Size \in Nat /\ IsFiniteSet(active)
    BY <2>2, ActiveFinite
  <2>4. failed' \in BOOLEAN
    BY <2>2, EvaluatedType DEF SweepUnit
  <2> QED
    BY <2>1, <2>2, <2>3, <2>4
<1>1. CASE active' = active /\ position' \in {position, position + 1}
  BY <1>0, <1>1 DEF Size
<1>2. CASE active' = WithoutPosition /\ active' # active /\ position' = position
  <2>1. PICK u \in active : active' = active \ {u}
    BY <1>0, <1>2, SweepRemovesOne
  <2>2. Size' = Size - 1
    BY <1>0, <2>1, FS_RemoveElement DEF Size
  <2> QED
    BY <1>0, <1>2, <2>1, <2>2
<1>3. i \in {0, 1} /\ active' = (IF i = 1 THEN WithoutPosition ELSE active)
      /\ position' = IF i = 1 THEN position ELSE position + 1
  BY SweepAnswer
<1> QED
  BY <1>1, <1>2, <1>3

LEMMA TypeInduction == ASSUME Parameters, TypeOK, [Next]_vars PROVE TypeOK'
<1>0. /\ outcome \in [SUBSET Unit -> SUBSET Verdict] /\ active \subseteq Unit
      /\ stage \in {"directories", "ddmin", "sweep", "done"} /\ failed \in BOOLEAN
      /\ group \in 1..(Len(Groups) + 1) /\ granularity \in Nat /\ granularity >= 2
      /\ stage = "directories" => granularity = 2
      /\ stage = "ddmin" => granularity = 2 \/ granularity <= Size
      /\ stage \in {"directories", "ddmin"} => position = 0
      /\ stage \in {"sweep", "done"} => position \in 0..Size
      /\ Len(Groups) \in Nat /\ Size \in Nat
  <2>1. Len(Groups) \in Nat
    BY DEF Parameters
  <2>2. Size \in Nat
    BY ActiveFinite DEF TypeOK
  <2> QED
    BY <2>1, <2>2 DEF TypeOK
<1>0a. ASSUME NEW i \in Ranks, Evaluated(i) PROVE failed' \in BOOLEAN /\ Accepted(i) \subseteq active
  BY <1>0, <1>0a, EvaluatedType, AcceptedSmaller
<1>1. ASSUME NEW i \in Ranks, TryGroup(i) PROVE TypeOK'
  <2>1. /\ active' \subseteq active /\ failed' \in BOOLEAN /\ group' = group + 1
        /\ UNCHANGED <<outcome, stage, granularity, position>>
    BY <1>0a, <1>1 DEF TryGroup
  <2>2. group <= Len(Groups) /\ stage = "directories"
    BY <1>1 DEF TryGroup, Evaluated, Asking
  <2> QED
    BY <1>0, <2>1, <2>2 DEF TypeOK
<1>1a. CASE SkipGroup
  BY <1>0, <1>1a DEF SkipGroup, TypeOK
<1>2. CASE StartDdmin
  BY <1>0, <1>2 DEF StartDdmin, TypeOK
<1>3. ASSUME NEW i \in Ranks, AcceptCandidate(i) PROVE TypeOK'
  <2>1. /\ active' \subseteq active /\ failed' \in BOOLEAN /\ stage = "ddmin"
        /\ granularity' = IF 2 * i <= Len(Frontier) \/ granularity <= 3 THEN 2 ELSE granularity - 1
        /\ UNCHANGED <<outcome, stage, group, position>>
    BY <1>0a, <1>3 DEF AcceptCandidate
  <2>2. granularity' \in Nat /\ granularity' >= 2
    <3>1. granularity' = 2 \/ (granularity > 3 /\ granularity' = granularity - 1)
      BY <1>0, <2>1
    <3> QED
      BY <1>0, <3>1
  <2>3. granularity' = 2 \/ granularity' <= Size'
    <3>1. SUFFICES ASSUME ~(2 * i <= Len(Frontier)), granularity > 3
                   PROVE  granularity - 1 <= Size'
      BY <1>0, <2>1
    <3>2. Frontier = OrderedFrontier /\ Size >= 2 /\ i \in Nat /\ i <= Len(Frontier) /\ i # 0
      BY <1>3, <2>1 DEF AcceptCandidate, Evaluated, Asking, Frontier, Ranks
    <3>3. Size' = Cardinality(OrderedFrontier[i])
      BY <1>3, <3>2 DEF AcceptCandidate, Accepted, Size
    <3>4. active' \subseteq Unit /\ Size' \in Nat
      BY <1>0, <2>1, ActiveFinite, FS_Subset, FS_CardinalityType DEF Size, Parameters
    <3>5. Cardinality(OrderedFrontier[i]) >= granularity - 1
      BY <1>0, <2>1, <3>1, <3>2, ComplementLeaves
    <3> QED
      BY <1>0, <3>3, <3>4, <3>5
  <2> QED
    BY <1>0, <2>1, <2>2, <2>3 DEF TypeOK
<1>4. ASSUME NEW i \in Ranks, RefinePartition(i) PROVE TypeOK'
  <2>1. /\ failed' \in BOOLEAN /\ stage' \in {"ddmin", "sweep"} /\ stage = "ddmin"
        /\ UNCHANGED <<outcome, active, group, position>>
    BY <1>0a, <1>4 DEF RefinePartition
  <2>1a. Size >= 2
    BY <1>4 DEF RefinePartition, Evaluated, Asking
  <2>2. granularity' \in Nat /\ granularity' >= 2
    <3>1. granularity' \in {granularity, 2 * granularity, Size}
      BY <1>4 DEF RefinePartition, Min2
    <3> QED
      BY <1>0, <2>1a, <3>1
  <2>3. Size' = Size /\ position = 0
    BY <1>0, <2>1 DEF Size
  <2>4. stage' = "ddmin" => granularity' <= Size
    BY <1>0, <1>4, <2>1a DEF RefinePartition, Min2
  <2> QED
    BY <1>0, <2>1, <2>2, <2>3, <2>4 DEF TypeOK
<1>5. CASE StartSweep
  <2>1. Size' = Size /\ position = 0
    BY <1>0, <1>5 DEF StartSweep, Size
  <2> QED
    BY <1>0, <1>5, <2>1 DEF StartSweep, TypeOK
<1>6. ASSUME NEW i \in Ranks, SweepUnit(i) PROVE TypeOK'
  <2>1. active' \subseteq active /\ position' \in 0..Size' /\ failed' \in BOOLEAN
    BY <1>6, SweepPosition
  <2>2. stage = "sweep" /\ UNCHANGED <<outcome, stage, group, granularity>>
    BY <1>6 DEF SweepUnit
  <2> QED
    BY <1>0, <2>1, <2>2 DEF TypeOK
<1>7. CASE Finish
  <2>1. Size' = Size
    BY <1>7 DEF Finish, Size
  <2> QED
    BY <1>0, <1>7, <2>1 DEF Finish, TypeOK
<1>8. CASE UNCHANGED vars
  <2>1. Size' = Size
    BY <1>8 DEF vars, Size
  <2> QED
    BY <1>0, <1>8, <2>1 DEF vars, TypeOK
<1> QED
  BY <1>1, <1>1a, <1>2, <1>3, <1>4, <1>5, <1>6, <1>7, <1>8 DEF Next, Answered, Advance, Finished

\* The type invariant holds throughout the search, for any project.
THEOREM TypeCorrect == Spec => []TypeOK
<1>1. Init => TypeOK
  BY InitType, ReducerAssumption
<1>2. TypeOK /\ [Next]_vars => TypeOK'
  BY TypeInduction, ReducerAssumption
<1> QED
  BY <1>1, <1>2, PTL DEF Spec

(***************************************************************************)
(* The end of ddmin has ruled out every single unit, so the sweep changes  *)
(* nothing; with one unit left, the sweep is what rules it out.            *)
(***************************************************************************)
SweepSettled ==
  /\ stage \in {"sweep", "done"} /\ ~failed /\ Promise!Deterministic =>
       \/ Promise!Irreducible
       \/ stage = "sweep" /\ Size = 1 /\ position = 0

LEMMA SettledInduction ==
  ASSUME Parameters, TypeOK, SweepSettled, [Next]_vars
  PROVE  SweepSettled'
<1> SUFFICES ASSUME stage' \in {"sweep", "done"}, ~failed', Promise!Deterministic'
             PROVE  \/ Promise!Irreducible'
                    \/ stage' = "sweep" /\ Size' = 1 /\ position' = 0
  BY DEF SweepSettled
<1>0. /\ active \subseteq Unit /\ outcome' = outcome /\ failed \in BOOLEAN /\ ~failed
      /\ Size \in Nat /\ Promise!Deterministic /\ IsFiniteSet(active)
  <2>1. active \subseteq Unit /\ failed \in BOOLEAN
    BY DEF TypeOK
  <2>2. outcome' = outcome /\ (failed => failed')
    BY <2>1 DEF Next, Answered, Advance, SkipGroup, TryGroup, StartDdmin, AcceptCandidate,
                RefinePartition, StartSweep, SweepUnit, Finish, Finished, vars, Evaluated
  <2>3. Size \in Nat /\ IsFiniteSet(active)
    BY <2>1, ActiveFinite
  <2> QED
    BY <2>1, <2>2, <2>3 DEF Promise!Deterministic
<1>1. ASSUME NEW i \in Ranks, RefinePartition(i)
      PROVE  Promise!Irreducible'
  <2>1. /\ granularity >= Size /\ Size >= 2 /\ active' = active
        /\ \A j \in 1..Len(OrderedFrontier) : outcome[OrderedFrontier[j]] # {"preserved"}
    <3>1. stage = "ddmin" /\ i = 0 /\ Evaluated(i) /\ active' = active
      BY <1>1 DEF RefinePartition
    <3>2. granularity >= Size
      BY <1>1 DEF RefinePartition
    <3>3. Size >= 2 /\ Frontier = OrderedFrontier
      BY <3>1 DEF Evaluated, Asking, Frontier
    <3> QED
      BY <1>0, <3>1, <3>2, <3>3 DEF Evaluated
  <2>2. ASSUME NEW u \in active PROVE outcome[active \ {u}] # {"preserved"}
    <3>1. PICK j \in 1..Len(OrderedFrontier) : OrderedFrontier[j] = active \ {u}
      BY <2>1, FinestFrontier
    <3> QED
      BY <2>1, <3>1
  <2> QED
    BY <1>0, <2>1, <2>2 DEF Promise!Irreducible
<1>2. CASE StartSweep
  <2>1. Size < 2 /\ active' = active /\ stage' = "sweep" /\ position' = 0 /\ Size' = Size
    BY <1>2 DEF StartSweep, TypeOK, Size
  <2>2. CASE Size = 1
    BY <2>1, <2>2
  <2>3. CASE Size = 0
    <3>1. active = {}
      BY <1>0, <2>3, FS_EmptySet DEF Size
    <3> QED
      BY <2>1, <3>1 DEF Promise!Irreducible
  <2> QED
    BY <1>0, <2>1, <2>2, <2>3
<1>3. ASSUME NEW i \in Ranks, SweepUnit(i)
      PROVE  Promise!Irreducible'
  <2>1. /\ stage = "sweep" /\ position < Size
        /\ \/ active' = WithoutPosition /\ outcome[WithoutPosition] = {"preserved"}
           \/ active' = active /\ outcome[WithoutPosition] # {"preserved"}
    <3>1. WithoutPosition \in SUBSET Unit
      BY <1>0 DEF WithoutPosition
    <3>2. \E v \in Verdict : outcome[WithoutPosition] = {v}
      BY <1>0, <3>1 DEF Promise!Deterministic, Promise!Verdict, Verdict
    <3>3. /\ stage = "sweep" /\ position < Size /\ Frontier = <<WithoutPosition>> /\ i \in {0, 1}
          /\ active' = IF i = 1 THEN WithoutPosition ELSE active
      BY <1>3, SweepAnswer
    <3>4. Evaluated(i)
      BY <1>3 DEF SweepUnit
    <3>5. i = 1 => "preserved" \in outcome[WithoutPosition]
      BY <3>3, <3>4 DEF Evaluated
    <3>6. i = 0 => outcome[WithoutPosition] # {"preserved"}
      BY <1>0, <3>3, <3>4 DEF Evaluated
    <3> QED
      BY <3>2, <3>3, <3>5, <3>6
  <2>2. WithoutPosition = active \/ \E u \in active : Position(u) = position /\ WithoutPosition = active \ {u}
    BY <1>0, SweepRemovesOne
  <2>3. CASE Promise!Irreducible
    <3>1. active' = active
      BY <2>1, <2>2, <2>3 DEF Promise!Irreducible
    <3> QED
      BY <1>0, <2>3, <3>1 DEF Promise!Irreducible
  <2>4. CASE Size = 1 /\ position = 0
    <3>1. PICK u : active = {u}
      BY <1>0, <2>4, FS_Singleton DEF Size
    <3>2. Position(u) = 0
      <4>1. Position(u) \in Nat /\ Position(u) < 1
        BY <1>0, <2>4, <3>1, PositionInjective
      <4> QED
        BY <4>1
    <3>3. WithoutPosition = {} /\ active \ {u} = {}
      BY <2>4, <3>1, <3>2 DEF WithoutPosition
    <3> QED
      BY <1>0, <2>1, <3>1, <3>3 DEF Promise!Irreducible
  <2> QED
    BY <1>0, <2>1, <2>3, <2>4 DEF SweepSettled
<1>4. CASE Finish
  <2>1. active' = active /\ stage = "sweep" /\ position >= Size
    BY <1>4 DEF Finish
  <2>2. Promise!Irreducible
    BY <1>0, <2>1 DEF SweepSettled
  <2> QED
    BY <1>0, <2>1, <2>2 DEF Promise!Irreducible
<1>5. CASE UNCHANGED vars
  BY <1>0, <1>5 DEF vars, SweepSettled, Promise!Irreducible, Size
<1>6. CASE SkipGroup \/ StartDdmin \/ \E i \in Ranks : TryGroup(i) \/ AcceptCandidate(i)
  BY <1>6 DEF SkipGroup, TryGroup, StartDdmin, AcceptCandidate
<1> QED
  BY <1>1, <1>2, <1>3, <1>4, <1>5, <1>6 DEF Next, Answered, Advance, Finished

\* The search only ever cuts to preserved candidates and settles on an
\* irreducible project, for every set of units, every directory tree and every
\* command (reduce_hierarchical_frontiers, reducer.rs:130-233).
THEOREM ReducerImplementsReduction == Spec => ImplementsReduction
<1>1. Init => Promise!ReductionInit /\ SweepSettled
  BY ReducerAssumption
     DEF Init, Promise!ReductionInit, Status, Parameters, SweepSettled, Verdict, Promise!Verdict
<1>2. ASSUME TypeOK, TypeOK', SweepSettled, [Next]_vars
      PROVE  [Promise!ReductionNext]_(Promise!reductionVars)
  <2>1. ASSUME NEW i \in Ranks, TryGroup(i) \/ AcceptCandidate(i) \/ SweepUnit(i)
        PROVE  [Promise!ReductionNext]_(Promise!reductionVars)
    <3>1. Evaluated(i) /\ active' = Accepted(i) /\ stage' = stage /\ outcome' = outcome
      BY <2>1 DEF TryGroup, AcceptCandidate, SweepUnit
    <3>2. active' = active \/ ("preserved" \in outcome[active'] /\ active' \subseteq active)
      BY <1>2, <3>1, AcceptedSmaller, ReducerAssumption
    <3>3. stage # "done"
      BY <3>1 DEF Evaluated, Asking
    <3>4. Status = "searching" /\ Status' = "searching"
      BY <3>1, <3>3 DEF Status
    <3> QED
      BY <3>1, <3>2, <3>4 DEF Promise!ReductionNext, Promise!Shrink, Promise!reductionVars
  <2>2. CASE SkipGroup \/ StartDdmin \/ StartSweep \/ \E i \in Ranks : RefinePartition(i)
    <3>1. active' = active /\ outcome' = outcome /\ stage # "done" /\ stage' # "done"
      BY <2>2 DEF SkipGroup, StartDdmin, RefinePartition, StartSweep
    <3> QED
      BY <3>1 DEF Status, Promise!reductionVars
  <2>3. CASE Finish
    <3>1. /\ stage = "sweep" /\ stage' = "done" /\ UNCHANGED <<outcome, active, failed>>
          /\ position >= Size /\ Size \in Nat /\ failed \in BOOLEAN
      BY <1>2, <2>3, ActiveFinite, ReducerAssumption DEF Finish, TypeOK
    <3>2. CASE failed
      BY <3>1, <3>2 DEF Status, Promise!ReductionNext, Promise!Abandon
    <3>3. CASE ~failed
      <4>1. Promise!Deterministic => Promise!Irreducible
        BY <1>2, <3>1, <3>3 DEF SweepSettled
      <4> QED
        BY <3>1, <3>3, <4>1 DEF Status, Promise!ReductionNext, Promise!Settle
    <3> QED
      BY <3>1, <3>2, <3>3
  <2>4. CASE UNCHANGED vars
    BY <2>4 DEF vars, Status, Promise!reductionVars
  <2> QED
    BY <1>2, <2>1, <2>2, <2>3, <2>4 DEF Next, Answered, Advance, Finished
<1>3. TypeOK /\ SweepSettled /\ [Next]_vars => SweepSettled'
  BY SettledInduction, ReducerAssumption
<1> QED
  BY <1>1, <1>2, <1>3, TypeCorrect, PTL DEF Spec, ImplementsReduction, Promise!ReductionSpec

(***************************************************************************)
(* Candidates are proper subsets of the retained units.                    *)
(***************************************************************************)
LEMMA PositionOnto ==
  ASSUME Parameters, active \subseteq Unit, NEW k \in 0..(Size - 1)
  PROVE  \E u \in active : Position(u) = k
<1> DEFINE f == [u \in active |-> Position(u)]
<1>1. IsFiniteSet(active) /\ Size \in Nat /\ Size = Cardinality(active)
  BY ActiveFinite DEF Size
<1>2. \A u \in active : Position(u) \in 0..(Size - 1)
  BY <1>1, PositionInjective
<1>3. ASSUME NEW u \in active, NEW w \in active, Position(u) = Position(w) PROVE u = w
  BY <1>3, PositionInjective
<1>4. f \in Injection(active, 0..(Size - 1))
  BY <1>2, <1>3, Zenon DEF Injection, IsInjective
<1>5. IsFiniteSet(0..(Size - 1)) /\ Cardinality(0..(Size - 1)) = Size
  BY <1>1, FS_Interval
<1>6. f \in Surjection(active, 0..(Size - 1))
  BY <1>1, <1>4, <1>5, FS_Injection
<1> QED
  BY <1>6 DEF Surjection

\* b goes into a + b - 1 at least as often as is needed to cover a.
LEMMA CeilDivCovers ==
  ASSUME NEW a \in Nat, NEW b \in Nat \ {0}, NEW i \in 1..CeilDiv(a, b)
  PROVE  (i - 1) * b \in Nat /\ (i - 1) * b < a /\ ((i - 1) * b) \div b = i - 1
<1> DEFINE q == (a + b - 1) \div b
<1>1. q \in Nat /\ q * b <= a + b - 1
  OBVIOUS
<1>2. i \in Nat /\ i >= 1 /\ i <= q
  BY <1>1 DEF CeilDiv
<1>3. i * b <= q * b
  BY <1>1, <1>2, SMTT(30)
<1>4. (i - 1) * b = i * b - b /\ i - 1 \in Nat
  BY <1>2, SMTT(30)
<1>5. (i - 1) * b \in Nat
  BY <1>4, SMTT(30)
<1>6. i * b \in Nat /\ q * b \in Nat
  BY <1>1, <1>2, SMTT(30)
<1>7. (i - 1) * b < a
  BY <1>1, <1>3, <1>4, <1>6
<1>8. ((i - 1) * b) \div b = i - 1
  <2> DEFINE j == i - 1
  <2>1. j \in Nat
    BY <1>4
  <2> HIDE DEF j
  <2>2. (j * b) \div b = j
    BY <2>1, SMTT(30)
  <2> QED
    BY <2>2 DEF j
<1> QED
  BY <1>5, <1>7, <1>8

\* Two parts or more make each smaller than the whole.
LEMMA CeilDivSmaller ==
  ASSUME NEW a \in Nat, NEW b \in Nat, a >= 2, b >= 2
  PROVE  CeilDiv(a, b) < a
<1> DEFINE q == (a + b - 1) \div b
<1>1. q \in Nat /\ q * b <= a + b - 1
  OBVIOUS
<1>2. SUFFICES ASSUME q >= a PROVE FALSE
  BY <1>1 DEF CeilDiv
<1>3. a * b <= q * b
  BY <1>1, <1>2, SMTT(30)
<1>4. (a - 1) * (b - 1) = a * b - a - b + 1
  BY SMTT(30)
<1>5. (a - 1) * (b - 1) >= 1
  BY SMTT(30)
<1> QED
  BY <1>1, <1>3, <1>4, <1>5, SMTT(30)

LEMMA FrontierProper ==
  ASSUME Parameters, TypeOK, Asking, NEW i \in 1..Len(Frontier)
  PROVE  Frontier[i] \subseteq active /\ Frontier[i] # active
<1>0. /\ active \subseteq Unit /\ granularity \in Nat /\ granularity >= 2 /\ Size \in Nat
      /\ stage \in {"directories", "ddmin", "sweep", "done"}
      /\ stage = "sweep" => position \in 0..Size
  BY ActiveFinite DEF TypeOK
<1>1. CASE stage = "directories"
  <2>1. Frontier = <<WithoutGroup>> /\ WithoutGroup # active
    BY <1>1 DEF Frontier, Asking
  <2> QED
    BY <2>1 DEF WithoutGroup
<1>2. CASE stage = "sweep"
  <2>1. Frontier = <<WithoutPosition>> /\ position \in 0..(Size - 1)
    BY <1>0, <1>2 DEF Frontier, Asking
  <2>2. \E u \in active : Position(u) = position
    BY <1>0, <2>1, PositionOnto
  <2> QED
    BY <2>1, <2>2 DEF WithoutPosition
<1>3. CASE stage = "ddmin"
  <2>1. Frontier = OrderedFrontier /\ Size >= 2
    BY <1>3 DEF Frontier, Asking
  <2>2. /\ Parts \in Nat /\ Len(OrderedFrontier) = 2 * Parts
        /\ OrderedFrontier[i] \subseteq active
    BY <2>1, FrontierType
  <2>3. ChunkSize \in Nat \ {0} /\ ChunkSize < Size
    <3> DEFINE g == IF granularity > Size THEN Size ELSE granularity
    <3>1. g \in Nat \ {0} /\ g >= 2
      BY <1>0, <2>1
    <3> HIDE DEF g
    <3>2. CeilDiv(Size, g) \in Nat /\ CeilDiv(Size, g) > 0
      <4>1. CeilDiv(Size, g) \in Nat /\ (Size > 0 => CeilDiv(Size, g) > 0)
        BY <1>0, <3>1, CeilDivNat
      <4> QED
        BY <1>0, <2>1, <4>1
    <3>3. CeilDiv(Size, g) < Size
      BY <1>0, <2>1, <3>1, CeilDivSmaller
    <3> QED
      BY <3>2, <3>3 DEF ChunkSize, g
  <2>4. ASSUME NEW j \in 1..Parts PROVE Part(j) # {} /\ Part(j) # active
    <3>1. /\ (j - 1) * ChunkSize \in 0..(Size - 1)
          /\ ((j - 1) * ChunkSize) \div ChunkSize = j - 1
      BY <1>0, <2>3, CeilDivCovers DEF Parts
    <3>2. PICK u \in active : Position(u) = (j - 1) * ChunkSize
      BY <1>0, <3>1, PositionOnto
    <3>3. u \in Part(j)
      BY <3>1, <3>2 DEF Part
    <3>4. PICK v \in active : Position(v) = 0
      BY <1>0, <2>1, PositionOnto
    <3>5. PICK w \in active : Position(w) = ChunkSize
      BY <1>0, <2>3, PositionOnto
    <3>6. 0 \div ChunkSize = 0 /\ ChunkSize \div ChunkSize = 1
      BY <2>3, SMTT(30)
    <3>7. ~(v \in Part(j) /\ w \in Part(j))
      BY <3>4, <3>5, <3>6 DEF Part
    <3> QED
      BY <3>3, <3>4, <3>5, <3>7
  <2>5. OrderedFrontier[i] = IF i <= Parts THEN Part(i) ELSE active \ Part(i - Parts)
    BY <2>1, <2>2 DEF OrderedFrontier
  <2>6. i \in 1..(2 * Parts)
    BY <2>1, <2>2
  <2>7. CASE i <= Parts
    BY <2>1, <2>2, <2>4, <2>5, <2>6, <2>7
  <2>8. CASE ~(i <= Parts)
    <3>1. i - Parts \in 1..Parts
      BY <2>2, <2>6, <2>8
    <3>2. Part(i - Parts) # {} /\ Part(i - Parts) \subseteq active
      BY <2>4, <3>1 DEF Part
    <3> QED
      BY <2>1, <2>2, <2>5, <2>8, <3>2
  <2> QED
    BY <2>7, <2>8
<1> QED
  BY <1>0, <1>1, <1>2, <1>3 DEF Asking

\* A frontier has at most two candidates for each unit.
LEMMA FrontierLength ==
  ASSUME Parameters, TypeOK, Asking
  PROVE  Len(Frontier) \in Nat \ {0} /\ 0..Len(Frontier) \subseteq Ranks
<1>0. /\ active \subseteq Unit /\ granularity \in Nat /\ granularity >= 2 /\ Size \in Nat
      /\ stage \in {"directories", "ddmin", "sweep", "done"}
  BY ActiveFinite DEF TypeOK
<1>1. Cardinality(Unit) \in Nat /\ Size <= Cardinality(Unit)
  BY <1>0, FS_CardinalityType, FS_Subset DEF Parameters, Size
<1> SUFFICES Len(Frontier) \in Nat \ {0} /\ Len(Frontier) <= 2 * Size
  BY <1>0, <1>1 DEF Ranks
<1>2. CASE stage = "directories"
  <2>1. Len(Frontier) = 1 /\ WithoutGroup # active
    BY <1>2 DEF Frontier, Asking
  <2>2. active # {}
    BY <2>1 DEF WithoutGroup
  <2>3. Size # 0
    BY <1>0, <2>2, ActiveFinite, FS_EmptySet DEF Size
  <2> QED
    BY <1>0, <2>1, <2>3
<1>3. CASE stage = "sweep"
  <2>1. Len(Frontier) = 1 /\ position < Size /\ position \in 0..Size
    BY <1>0, <1>3 DEF Frontier, Asking, TypeOK
  <2> QED
    BY <1>0, <2>1
<1>4. CASE stage = "ddmin"
  <2>1. Frontier = OrderedFrontier /\ Size >= 2
    BY <1>4 DEF Frontier, Asking
  <2>2. Parts \in Nat /\ Len(OrderedFrontier) = 2 * Parts
    BY <2>1, FrontierType
  <2>3. ChunkSize \in Nat \ {0} /\ Parts > 0
    <3>1. \A b \in Nat \ {0} : CeilDiv(Size, b) \in Nat /\ (Size > 0 => CeilDiv(Size, b) > 0)
      BY <1>0, CeilDivNat
    <3>2. ChunkSize \in Nat \ {0}
      <4>1. CASE granularity > Size
        BY <1>0, <2>1, <3>1, <4>1 DEF ChunkSize
      <4>2. CASE ~(granularity > Size)
        BY <1>0, <2>1, <3>1, <4>2 DEF ChunkSize
      <4> QED
        BY <4>1, <4>2
    <3> QED
      BY <1>0, <2>1, <3>1, <3>2 DEF Parts
  <2>4. Parts <= Size
    <3> DEFINE a == Size
               b == ChunkSize
    <3>1. a \in Nat /\ b \in Nat \ {0}
      BY <1>0, <2>3
    <3> HIDE DEF a, b
    <3>2. (a + b - 1) \div b <= a
      <4>1. (a + b - 1) \div b \in Nat /\ ((a + b - 1) \div b) * b <= a + b - 1
        BY <3>1
      <4>2. SUFFICES ASSUME (a + b - 1) \div b >= a + 1 PROVE FALSE
        BY <3>1, <4>1
      <4>3. (a + 1) * b <= ((a + b - 1) \div b) * b
        BY <3>1, <4>1, <4>2, SMTT(30)
      <4>4. (a + 1) * b = a * b + b /\ a * b >= a /\ a * b \in Nat
        BY <3>1, SMTT(30)
      <4> QED
        BY <3>1, <4>1, <4>3, <4>4, SMTT(30)
    <3> QED
      BY <3>2 DEF a, b, Parts, CeilDiv
  <2> QED
    BY <1>0, <2>1, <2>2, <2>3, <2>4
<1> QED
  BY <1>0, <1>2, <1>3, <1>4 DEF Asking

=============================================================================
