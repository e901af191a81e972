--------------------------- MODULE SlugOrderProofs ---------------------------
(***************************************************************************)
(* Lemmas about the row orders of SlugOrder, for any rows: what the        *)
(* resolution of an order returns, and what a repacked section keeps.      *)
(***************************************************************************)
EXTENDS SlugOrder, FiniteSetTheorems, SequenceTheorems, NaturalsInduction,
        WellFoundedInduction, TLAPS

-----------------------------------------------------------------------------
(* Numbers and finite sets.                                                *)

\* Every set of naturals that is not empty has a least element.
LEMMA LeastNat ==
  ASSUME NEW T, T \subseteq Nat, T # {}
  PROVE  \E m \in T : \A k \in T : ~(k < m)
<1>1. IsWellFoundedOn(OpToRel(<, Nat), Nat)
  BY NatLessThanWellFounded
<1>2. \E x \in T : \A y \in T : ~(<<y, x>> \in OpToRel(<, Nat))
  BY <1>1, WFMin
<1> QED
  BY <1>2 DEF OpToRel

\* A part of a finite set that is not all of it has fewer elements.
LEMMA FewerElements ==
  ASSUME NEW S, IsFiniteSet(S), NEW T, T \subseteq S, NEW x \in S, x \notin T
  PROVE  /\ Cardinality(S) \in Nat /\ Cardinality(T) \in Nat
         /\ Cardinality(T) < Cardinality(S)
BY FS_Subset, FS_CardinalityType

\* A finite set of integers has a greatest and a least element.
LEMMA LargestIs ==
  ASSUME NEW S, S \subseteq Int, S # {}, IsFiniteSet(S)
  PROVE  Largest(S) \in S /\ \A m \in S : m <= Largest(S)
<1>1. PICK above : above = [n \in S |-> Cardinality({m \in S : n < m})]
  OBVIOUS
<1>2. \A n \in S : above[n] \in Nat
  <2> TAKE n \in S
  <2>1. {m \in S : n < m} \subseteq S
    OBVIOUS
  <2> QED
    BY <1>1, <2>1, FS_Subset, FS_CardinalityType
<1>3. PICK k \in {above[n] : n \in S} : \A j \in {above[n] : n \in S} : ~(j < k)
  <2>1. {above[n] : n \in S} \subseteq Nat /\ {above[n] : n \in S} # {}
    BY <1>2
  <2> QED
    BY <2>1, LeastNat
<1>4. PICK n \in S : k = above[n]
  BY <1>3
<1>5. ASSUME NEW m \in S, ~(m <= n) PROVE FALSE
  <2>1. PICK A, B : A = {l \in S : n < l} /\ B = {l \in S : m < l}
    OBVIOUS
  <2>2. B \subseteq A /\ m \in A /\ m \notin B /\ A \subseteq S
    <3>1. n \in Int /\ m \in Int /\ \A l \in S : l \in Int
      OBVIOUS
    <3>2. n < m
      BY <1>5, <3>1
    <3>3. \A l \in S : m < l => n < l
      BY <3>1, <3>2
    <3>4. B \subseteq A
      BY <2>1, <3>3
    <3>5. m \in A /\ m \notin B
      BY <2>1, <3>1, <3>2
    <3>6. A \subseteq S
      BY <2>1
    <3> QED
      BY <3>4, <3>5, <3>6
  <2>3. Cardinality(B) < Cardinality(A)
    <3>1. IsFiniteSet(A)
      BY <2>2, FS_Subset
    <3> QED
      BY <2>2, <3>1, FewerElements
  <2>4. above[m] = Cardinality(B) /\ above[n] = Cardinality(A)
    BY <1>1, <2>1
  <2> QED
    BY <1>3, <1>4, <2>3, <2>4
<1>6. \E l \in S : \A m \in S : m <= l
  BY <1>5
<1> QED
  BY <1>6 DEF Largest

\* The same for the least element.
LEMMA SmallestIs ==
  ASSUME NEW S, S \subseteq Int, S # {}, IsFiniteSet(S)
  PROVE  Smallest(S) \in S /\ \A m \in S : Smallest(S) <= m
<1>1. PICK below : below = [n \in S |-> Cardinality({m \in S : m < n})]
  OBVIOUS
<1>2. \A n \in S : below[n] \in Nat
  <2> TAKE n \in S
  <2>1. {m \in S : m < n} \subseteq S
    OBVIOUS
  <2> QED
    BY <1>1, <2>1, FS_Subset, FS_CardinalityType
<1>3. PICK k \in {below[n] : n \in S} : \A j \in {below[n] : n \in S} : ~(j < k)
  <2>1. {below[n] : n \in S} \subseteq Nat /\ {below[n] : n \in S} # {}
    BY <1>2
  <2> QED
    BY <2>1, LeastNat
<1>4. PICK n \in S : k = below[n]
  BY <1>3
<1>5. ASSUME NEW m \in S, ~(n <= m) PROVE FALSE
  <2>1. PICK A, B : A = {l \in S : l < n} /\ B = {l \in S : l < m}
    OBVIOUS
  <2>2. B \subseteq A /\ m \in A /\ m \notin B /\ A \subseteq S
    <3>1. n \in Int /\ m \in Int /\ \A l \in S : l \in Int
      OBVIOUS
    <3>2. m < n
      BY <1>5, <3>1
    <3>3. \A l \in S : l < m => l < n
      BY <3>1, <3>2
    <3>4. B \subseteq A
      BY <2>1, <3>3
    <3>5. m \in A /\ m \notin B
      BY <2>1, <3>1, <3>2
    <3>6. A \subseteq S
      BY <2>1
    <3> QED
      BY <3>4, <3>5, <3>6
  <2>3. Cardinality(B) < Cardinality(A)
    <3>1. IsFiniteSet(A)
      BY <2>2, FS_Subset
    <3> QED
      BY <2>2, <3>1, FewerElements
  <2>4. below[m] = Cardinality(B) /\ below[n] = Cardinality(A)
    BY <1>1, <2>1
  <2> QED
    BY <1>3, <1>4, <2>3, <2>4
<1>6. \E l \in S : \A m \in S : l <= m
  BY <1>5
<1> QED
  BY <1>6 DEF Smallest

\* Division by a stride or by a number of rows.
LEMMA Quotient ==
  ASSUME NEW x \in Nat, NEW y \in Nat \ {0}
  PROVE  x \div y \in Nat
OBVIOUS

\* A product of a natural and a larger one.
LEMMA Multiples ==
  ASSUME NEW g \in Nat \ {0}, NEW p \in Nat, NEW q \in Nat, p < q
  PROVE  g * p \in Nat /\ g * q \in Nat /\ g * p < g * q
OBVIOUS

-----------------------------------------------------------------------------
(* Tables of orders.                                                       *)

\* A table of orders of finitely many rows, each at least 1.
Orders(ord) ==
  /\ ord \in [DOMAIN ord -> Nat \ {0}]
  /\ IsFiniteSet(DOMAIN ord)
  /\ DOMAIN ord \subseteq Slugs \X Instances

\* The orders of some rows.
LEMMA ValuesFinite ==
  ASSUME NEW ord, Orders(ord), NEW as, as \subseteq DOMAIN ord
  PROVE  IsFiniteSet(Values(ord, as)) /\ Values(ord, as) \subseteq Nat \ {0}
<1>1. PICK f : f = [a \in as |-> ord[a]]
  OBVIOUS
<1>2. f \in Surjection(as, Values(ord, as))
  BY <1>1 DEF Surjection, Values
<1>3. IsFiniteSet(as)
  BY FS_Subset DEF Orders
<1> QED
  BY <1>2, <1>3, FS_Surjection DEF Values, Orders

\* The rows of a section.
LEMMA SectionFinite ==
  ASSUME NEW ord, Orders(ord), NEW inst, NEW section
  PROVE  /\ SectionRows(ord, inst, section) \subseteq DOMAIN ord
         /\ IsFiniteSet(SectionRows(ord, inst, section))
         /\ Cardinality(SectionRows(ord, inst, section)) \in Nat
<1>1. SectionRows(ord, inst, section) \subseteq DOMAIN ord
  BY DEF SectionRows
<1> QED
  BY <1>1, FS_Subset, FS_CardinalityType DEF Orders

\* The first order of a section's band.
LEMMA BaseType ==
  ASSUME NEW ord, Orders(ord), NEW rows, rows \subseteq DOMAIN ord, rows # {}
  PROVE  SectionBase(ord, rows) \in Nat
<1>1. PICK S : S = Values(ord, rows)
  OBVIOUS
<1>2. IsFiniteSet(S) /\ S \subseteq Nat \ {0} /\ S # {}
  BY <1>1, ValuesFinite DEF Values
<1>3. S \subseteq Int
  BY <1>2
<1>4. Smallest(S) \in Nat
  BY <1>2, <1>3, SmallestIs
<1>5. Smallest(S) \div Stride \in Nat
  BY <1>4, Quotient, StrideAssumption
<1> QED
  BY <1>1, <1>5, StrideAssumption DEF SectionBase

\* The distance a full section is repacked with.
LEMMA GapType ==
  ASSUME NEW rows, IsFiniteSet(rows)
  PROVE  TightGap(rows) \in Nat \ {0}
<1>1. Cardinality(rows) \in Nat
  BY FS_CardinalityType
<1>2. Cardinality(rows) + 1 \in Nat \ {0}
  BY <1>1
<1>3. Stride \div (Cardinality(rows) + 1) \in Nat
  BY <1>2, Quotient, StrideAssumption
<1> QED
  BY <1>3 DEF TightGap

\* ComesBefore is an order: two rows of an instance never share a place.
LEMMA PlaceBounds ==
  ASSUME NEW ord, Orders(ord), NEW rows, rows \subseteq DOMAIN ord, NEW a \in rows
  PROVE  Place(ord, rows, a) \in 1 .. Cardinality(rows)
<1>1. PICK before : before = {b \in rows : ComesBefore(ord, b, a)}
  OBVIOUS
<1>2. a \notin before /\ before \subseteq rows
  <2>1. ord[a] \in Nat /\ RankOf[a[1]] \in Int
    BY RankAssumption DEF Orders
  <2>2. ~ComesBefore(ord, a, a)
    BY <2>1 DEF ComesBefore
  <2> QED
    BY <1>1, <2>2
<1>3. IsFiniteSet(rows)
  BY FS_Subset DEF Orders
<1>4. Cardinality(before) \in Nat /\ Cardinality(rows) \in Nat
      /\ Cardinality(before) < Cardinality(rows)
  BY <1>2, <1>3, FewerElements
<1> QED
  BY <1>1, <1>4 DEF Place

\* An earlier row has an earlier place.
LEMMA PlaceStrict ==
  ASSUME NEW ord, Orders(ord), NEW rows, rows \subseteq DOMAIN ord,
         NEW a \in rows, NEW b \in rows, ComesBefore(ord, a, b)
  PROVE  Place(ord, rows, a) < Place(ord, rows, b)
<1>1. PICK A, B : /\ A = {c \in rows : ComesBefore(ord, c, a)}
                  /\ B = {c \in rows : ComesBefore(ord, c, b)}
  OBVIOUS
<1>2. \A c \in rows : ord[c] \in Nat /\ RankOf[c[1]] \in Int
  BY RankAssumption DEF Orders
<1>3. A \subseteq B /\ a \in B /\ a \notin A /\ B \subseteq rows
  BY <1>1, <1>2 DEF ComesBefore
<1>4. IsFiniteSet(rows)
  BY FS_Subset DEF Orders
<1>5. IsFiniteSet(B)
  BY <1>3, <1>4, FS_Subset
<1>6. Cardinality(A) \in Nat /\ Cardinality(B) \in Nat /\ Cardinality(A) < Cardinality(B)
  BY <1>3, <1>5, FewerElements
<1> QED
  BY <1>1, <1>6 DEF Place

\* Repacking, whole or cut off, gives orders to the same rows.
LEMMA RepackType ==
  ASSUME NEW ord, Orders(ord), NEW rows, rows \subseteq DOMAIN ord,
         NEW base \in Nat, NEW gap \in Nat \ {0}, NEW n
  PROVE  /\ DOMAIN RepackedTo(ord, rows, base, gap, n) = DOMAIN ord
         /\ Orders(RepackedTo(ord, rows, base, gap, n))
<1>1. ASSUME NEW a \in rows PROVE base + gap * Place(ord, rows, a) \in Nat \ {0}
  <2>1. PICK p : p = Place(ord, rows, a)
    OBVIOUS
  <2>2. p \in Nat \ {0}
    <3>1. Cardinality(rows) \in Nat
      BY FS_Subset, FS_CardinalityType DEF Orders
    <3> QED
      BY <2>1, <3>1, PlaceBounds
  <2>3. gap * 0 < gap * p /\ gap * p \in Nat
    BY <2>2, Multiples
  <2> QED
    BY <2>1, <2>3
<1> QED
  BY <1>1 DEF RepackedTo, Orders

\* What the resolution of an order returns: an order of at least 1, and a
\* table of the same rows.
LEMMA ResolveType ==
  ASSUME NEW ord, Orders(ord), NEW a \in Slugs \X Instances, NEW requested \in Int
  PROVE  /\ ResolveAddressOrder(ord, a, requested).next \in Nat \ {0}
         /\ DOMAIN ResolveAddressOrder(ord, a, requested).ord = DOMAIN ord
         /\ Orders(ResolveAddressOrder(ord, a, requested).ord)
<1>1. CASE requested > 0
  BY <1>1 DEF ResolveAddressOrder
<1>2. CASE ~(requested > 0) /\ a \in DOMAIN ord /\ ord[a] > 0
  BY <1>2 DEF ResolveAddressOrder, Orders
<1>3. CASE /\ ~(requested > 0) /\ ~(a \in DOMAIN ord /\ ord[a] > 0)
           /\ TemplateOrder(ord, a[1]) > 0
  BY <1>3 DEF ResolveAddressOrder, TemplateOrder, Orders
<1>4. CASE /\ ~(requested > 0) /\ ~(a \in DOMAIN ord /\ ord[a] > 0)
           /\ ~(TemplateOrder(ord, a[1]) > 0)
  <2>1. PICK rows, base, gap : /\ rows = SectionRows(ord, a[2], SectionOf[a[1]])
                               /\ base = SectionBase(ord, rows) /\ gap = TightGap(rows)
    OBVIOUS
  <2>2. ResolveAddressOrder(ord, a, requested) =
          ResolveSectionOrder(ord, a[2], SectionOf[a[1]])
    BY <1>4 DEF ResolveAddressOrder
  <2>3. rows \subseteq DOMAIN ord /\ IsFiniteSet(rows) /\ Cardinality(rows) \in Nat
    BY <2>1, SectionFinite
  <2>4. CASE rows = {}
    <3>1. ResolveAddressOrder(ord, a, requested) = [next |-> NewSectionOrder(ord, a[2]), ord |-> ord]
      BY <2>1, <2>2, <2>4 DEF ResolveSectionOrder
    <3>2. MaxOrder(ord, a[2]) \in Nat
      <4>1. PICK as : as = {b \in DOMAIN ord : b[2] = a[2]}
        OBVIOUS
      <4>2. as \subseteq DOMAIN ord
        BY <4>1
      <4>3. PICK S : S = {0} \cup Values(ord, as)
        OBVIOUS
      <4>4. IsFiniteSet(S) /\ S \subseteq Nat /\ S # {}
        <5>1. IsFiniteSet(Values(ord, as)) /\ Values(ord, as) \subseteq Nat \ {0}
          BY <4>2, ValuesFinite
        <5>2. IsFiniteSet(Values(ord, as) \cup {0})
          BY <5>1, FS_AddElement
        <5>3. S = Values(ord, as) \cup {0}
          BY <4>3
        <5>4. IsFiniteSet(S)
          BY <5>2, <5>3
        <5>5. S \subseteq Nat
          <6>1. PICK V : V = Values(ord, as)
            OBVIOUS
          <6>2. V \subseteq Nat \ {0} /\ S = V \cup {0}
            BY <5>1, <5>3, <6>1
          <6> QED
            BY <6>2
        <5>6. 0 \in S
          BY <5>3
        <5> QED
          BY <5>4, <5>5, <5>6
      <4>5. S \subseteq Int
        BY <4>4
      <4>6. Largest(S) \in Nat
        BY <4>4, <4>5, LargestIs
      <4> QED
        BY <4>1, <4>3, <4>6 DEF MaxOrder, Values
    <3>3. NewSectionOrder(ord, a[2]) \in Nat \ {0}
      <4>1. PICK max : max = MaxOrder(ord, a[2])
        OBVIOUS
      <4>2. max \div Stride \in Nat
        BY <3>2, <4>1, Quotient, StrideAssumption
      <4>3. (max \div Stride + 1) * Stride \in Nat
        BY <4>2, StrideAssumption
      <4> QED
        BY <4>1, <4>3, StrideAssumption DEF NewSectionOrder
    <3> QED
      BY <3>1, <3>3
  <2>5. CASE rows # {}
    <3>1. base \in Nat /\ gap \in Nat \ {0}
      BY <2>1, <2>3, <2>5, BaseType, GapType
    <3>2. CASE BandIsFull(ord, rows)
      <4>1. ResolveAddressOrder(ord, a, requested) =
              [next |-> base + gap * (Cardinality(rows) + 1),
               ord  |-> RepackedTo(ord, rows, base, gap, Cardinality(rows))]
        BY <2>1, <2>2, <2>5, <3>2 DEF ResolveSectionOrder, Repack
      <4>2. gap * 0 < gap * (Cardinality(rows) + 1) /\ gap * (Cardinality(rows) + 1) \in Nat
        BY <2>3, <3>1, Multiples
      <4> QED
        BY <2>3, <3>1, <4>1, <4>2, RepackType
    <3>3. CASE ~BandIsFull(ord, rows)
      <4>1. ResolveAddressOrder(ord, a, requested) =
              [next |-> Largest(Values(ord, rows)) + OrderGap, ord |-> ord]
        BY <2>1, <2>2, <2>5, <3>3 DEF ResolveSectionOrder
      <4>2. PICK S : S = Values(ord, rows)
        OBVIOUS
      <4>3. IsFiniteSet(S) /\ S \subseteq Nat /\ S # {}
        BY <2>3, <2>5, <4>2, ValuesFinite DEF Values
      <4>4. S \subseteq Int
        BY <4>3
      <4>5. Largest(S) \in Nat
        BY <4>3, <4>4, LargestIs
      <4> QED
        BY <4>1, <4>2, <4>5, StrideAssumption
    <3> QED
      BY <3>2, <3>3
  <2> QED
    BY <2>4, <2>5
<1> QED
  BY <1>1, <1>2, <1>3, <1>4

\* UpsertSlugOrder of a row.
LEMMA WithOrderType ==
  ASSUME NEW ord, Orders(ord), NEW a \in Slugs \X Instances, NEW n \in Nat \ {0}
  PROVE  /\ DOMAIN WithOrder(ord, a, n) = DOMAIN ord \cup {a}
         /\ Orders(WithOrder(ord, a, n))
BY FS_AddElement DEF WithOrder, Orders

-----------------------------------------------------------------------------
(* What a restart fills in.                                                *)

\* The recursion of BackfillMissing, unfolded.
LEMMA Filling ==
  ASSUME NEW ord, NEW query
  PROVE  \E filled :
           /\ filled[0] = ord
           /\ \A n \in Nat \ {0} :
                filled[n] =
                  IF query[n] \in DOMAIN ord THEN filled[n - 1]
                  ELSE LET r == ResolveAddressOrder(filled[n - 1], query[n], 0)
                       IN  WithOrder(r.ord, query[n], r.next)
           /\ BackfillMissing(ord, query) = filled[Len(query)]
<1> DEFINE Step(o, n) == IF query[n] \in DOMAIN ord THEN o
                         ELSE LET r == ResolveAddressOrder(o, query[n], 0)
                              IN  WithOrder(r.ord, query[n], r.next)
           filled[n \in Nat] == IF n = 0 THEN ord ELSE Step(filled[n - 1], n)
<1>1. NatInductiveDefHypothesis(filled, ord, Step)
  BY DEF NatInductiveDefHypothesis
<1>2. NatInductiveDefConclusion(filled, ord, Step)
  BY <1>1, NatInductiveDef
<1>3. filled[0] = ord
  BY <1>2 DEF NatInductiveDefConclusion
<1>4. BackfillMissing(ord, query) = filled[Len(query)]
  BY DEF BackfillMissing
<1> HIDE DEF filled
<1>5. \A n \in Nat \ {0} : filled[n] = Step(filled[n - 1], n)
  BY <1>2 DEF NatInductiveDefConclusion
<1> QED
  BY <1>3, <1>4, <1>5

\* A restart gives an order to the one row that a crash left without: as a
\* request that names no order would.
LEMMA BackfillOne ==
  ASSUME NEW ord, Orders(ord), NEW a \in Slugs \X Instances, a \notin DOMAIN ord,
         NEW len \in Nat, NEW query \in [1 .. len -> DOMAIN ord \cup {a}],
         NEW at \in 1 .. len, query[at] = a
  PROVE  LET r == ResolveAddressOrder(ord, a, 0)
         IN  BackfillMissing(ord, query) = WithOrder(r.ord, a, r.next)
<1>1. PICK filled :
        /\ filled[0] = ord
        /\ \A n \in Nat \ {0} :
             filled[n] =
               IF query[n] \in DOMAIN ord THEN filled[n - 1]
               ELSE LET r == ResolveAddressOrder(filled[n - 1], query[n], 0)
                    IN  WithOrder(r.ord, query[n], r.next)
        /\ BackfillMissing(ord, query) = filled[Len(query)]
  BY Filling
<1>2. PICK r, next : /\ r = ResolveAddressOrder(ord, a, 0)
                     /\ next = WithOrder(r.ord, a, r.next)
  OBVIOUS
<1>3. Len(query) = len
  BY LenProperties
<1>4. /\ r.next \in Nat \ {0} /\ DOMAIN r.ord = DOMAIN ord /\ Orders(r.ord)
  BY <1>2, ResolveType
<1>5. DOMAIN next = DOMAIN ord \cup {a} /\ Orders(next) /\ next[a] = r.next
  <2>1. PICK o, k : o = r.ord /\ k = r.next
    OBVIOUS
  <2>2. next = WithOrder(o, a, k) /\ Orders(o) /\ k \in Nat \ {0}
    BY <1>2, <1>4, <2>1
  <2>3. DOMAIN next = DOMAIN o \cup {a} /\ Orders(next)
    BY <2>2, WithOrderType
  <2>4. next[a] = k
    BY <2>2 DEF WithOrder
  <2> QED
    BY <1>4, <2>1, <2>3, <2>4
\* A row that has an order keeps it.
<1>6. WithOrder(ResolveAddressOrder(next, a, 0).ord, a, ResolveAddressOrder(next, a, 0).next)
        = next
  <2>1. ResolveAddressOrder(next, a, 0) = [next |-> next[a], ord |-> next]
    BY <1>4, <1>5 DEF ResolveAddressOrder
  <2>2. WithOrder(next, a, next[a]) = next
    BY <1>5 DEF WithOrder, Orders
  <2> QED
    BY <2>1, <2>2
<1> DEFINE Right(n) == filled[n] \in {ord, next} /\ (at <= n => filled[n] = next)
<1>7. PICK Wrong : Wrong = {n \in 0 .. len : ~Right(n)}
  OBVIOUS
<1>8. \A n \in 0 .. len : n \notin Wrong => Right(n)
  BY <1>7
<1>9. \A n \in Wrong : n \in 0 .. len /\ ~Right(n)
  BY <1>7
<1>10. Wrong = {}
  <2> SUFFICES ASSUME Wrong # {} PROVE FALSE
    OBVIOUS
  <2>1. Wrong \subseteq Nat
    BY <1>9
  <2>2. PICK n \in Wrong : \A k \in Wrong : ~(k < n)
    BY <2>1, LeastNat
  <2>3. n # 0
    BY <1>1, <1>9
  <2>4. n \in 1 .. len /\ n - 1 \in 0 .. len /\ n - 1 \notin Wrong
    BY <1>9, <2>2, <2>3
  <2>5. Right(n - 1)
    BY <1>8, <2>4
  <2>6. filled[n] = IF query[n] \in DOMAIN ord THEN filled[n - 1]
               ELSE LET s == ResolveAddressOrder(filled[n - 1], query[n], 0)
                    IN  WithOrder(s.ord, query[n], s.next)
    BY <1>1, <2>4
  <2>7. CASE query[n] \in DOMAIN ord
    <3>1. filled[n] = filled[n - 1]
      BY <2>6, <2>7
    <3>2. at # n
      BY <2>7
    <3>3. Right(n)
      BY <2>4, <2>5, <3>1, <3>2
    <3> QED
      BY <1>9, <3>3
  <2>8. CASE query[n] = a
    <3>1. filled[n] = LET s == ResolveAddressOrder(filled[n - 1], a, 0)
                      IN  WithOrder(s.ord, a, s.next)
      BY <2>6, <2>8
    <3>2. filled[n] = next
      BY <1>2, <1>6, <2>5, <3>1
    <3> QED
      BY <1>9, <3>2
  <2> QED
    BY <2>4, <2>7, <2>8
<1>11. filled[len] = next
  <2>1. Right(len)
    BY <1>8, <1>10
  <2> QED
    BY <2>1
<1> QED
  BY <1>1, <1>2, <1>3, <1>11

\* A restart leaves a complete table alone.
LEMMA BackfillNone ==
  ASSUME NEW ord, NEW len \in Nat, NEW query \in [1 .. len -> DOMAIN ord]
  PROVE  BackfillMissing(ord, query) = ord
<1>1. PICK filled :
        /\ filled[0] = ord
        /\ \A n \in Nat \ {0} :
             filled[n] =
               IF query[n] \in DOMAIN ord THEN filled[n - 1]
               ELSE LET r == ResolveAddressOrder(filled[n - 1], query[n], 0)
                    IN  WithOrder(r.ord, query[n], r.next)
        /\ BackfillMissing(ord, query) = filled[Len(query)]
  BY Filling
<1>2. Len(query) = len
  BY LenProperties
<1>4. PICK Wrong : Wrong = {n \in 0 .. len : filled[n] # ord}
  OBVIOUS
<1>3. Wrong = {}
  <2> SUFFICES ASSUME Wrong # {} PROVE FALSE
    OBVIOUS
  <2>4. Wrong \subseteq Nat
    BY <1>4
  <2>1. PICK n \in Wrong : \A k \in Wrong : ~(k < n)
    BY <2>4, LeastNat
  <2>2. n \in 1 .. len /\ n - 1 \in 0 .. len /\ n - 1 \notin Wrong
    BY <1>1, <1>4, <2>1
  <2>3. filled[n] = filled[n - 1]
    BY <1>1, <2>2
  <2> QED
    BY <1>4, <2>1, <2>2, <2>3
<1> QED
  BY <1>1, <1>2, <1>3, <1>4

\* An empty table is filled from 1 on.
LEMMA BackfillAllType ==
  ASSUME NEW len \in Nat, NEW query \in [1 .. len -> Slugs \X Instances]
  PROVE  /\ DOMAIN BackfillAll(query) = {query[n] : n \in 1 .. len}
         /\ Orders(BackfillAll(query))
<1>1. ToSet(query) = {query[n] : n \in 1 .. len}
  BY DEF ToSet
<1>2. DOMAIN BackfillAll(query) = {query[n] : n \in 1 .. len}
  BY <1>1 DEF BackfillAll
<1>3. IsFiniteSet(1 .. len)
  BY FS_Interval
<1>4. ASSUME NEW T, T \subseteq 1 .. len, NEW f
      PROVE  IsFiniteSet({f[n] : n \in T})
  <2>1. IsFiniteSet(T)
    BY <1>3, <1>4, FS_Subset
  <2>2. PICK g, S : g = [n \in T |-> f[n]] /\ S = {f[n] : n \in T}
    OBVIOUS
  <2>3. g \in Surjection(T, S)
    BY <2>2 DEF Surjection
  <2> QED
    BY <2>1, <2>2, <2>3, FS_Surjection
<1>5. IsFiniteSet({query[n] : n \in 1 .. len})
  BY <1>4
<1>6. ASSUME NEW a \in ToSet(query) PROVE BackfillAll(query)[a] \in Nat \ {0}
  <2>1. PICK at : at = CHOOSE n \in DOMAIN query : query[n] = a
    OBVIOUS
  <2>2. at \in 1 .. len /\ query[at] = a
    BY <1>1, <2>1
  <2>3. PICK before, upTo :
          /\ before = {query[m] : m \in {m \in 1 .. at : query[m][2] = a[2]}}
          /\ upTo = {query[m] : m \in {m \in 1 .. at :
                       query[m][2] = a[2] /\ SectionOf[query[m][1]] = SectionOf[a[1]]}}
    OBVIOUS
  <2>4. PICK sections : sections = {SectionOf[b[1]] : b \in before}
    OBVIOUS
  <2>5. BackfillAll(query)[a] =
          (Cardinality(sections) - 1) * Stride + Cardinality(upTo) * OrderGap
    BY <2>1, <2>3, <2>4 DEF BackfillAll
  <2>6. IsFiniteSet(before) /\ IsFiniteSet(upTo)
    <3>1. PICK T, U : /\ T = {m \in 1 .. at : query[m][2] = a[2]}
                      /\ U = {m \in 1 .. at :
                               query[m][2] = a[2] /\ SectionOf[query[m][1]] = SectionOf[a[1]]}
      OBVIOUS
    <3>2. T \subseteq 1 .. len /\ U \subseteq 1 .. len
      BY <2>2, <3>1
    <3>3. IsFiniteSet({query[m] : m \in T}) /\ IsFiniteSet({query[m] : m \in U})
      BY <1>4, <3>2
    <3> QED
      BY <2>3, <3>1, <3>3
  <2>7. IsFiniteSet(sections)
    <3>1. PICK g : g = [b \in before |-> SectionOf[b[1]]]
      OBVIOUS
    <3>2. g \in Surjection(before, sections)
      BY <2>4, <3>1 DEF Surjection
    <3> QED
      BY <2>6, <3>2, FS_Surjection
  <2>8. a \in upTo /\ SectionOf[a[1]] \in sections
    BY <2>2, <2>3, <2>4
  <2>9. Cardinality(sections) \in Nat \ {0} /\ Cardinality(upTo) \in Nat \ {0}
    BY <2>6, <2>7, <2>8, FS_CardinalityType, FS_EmptySet
  <2>10. PICK m, k : m = Cardinality(sections) - 1 /\ k = Cardinality(upTo)
    OBVIOUS
  <2>11. m \in Nat /\ k \in Nat \ {0} /\ OrderGap \in Nat \ {0}
    BY <2>9, <2>10, StrideAssumption
  <2>12. m * Stride \in Nat /\ k * OrderGap \in Nat \ {0}
    <3>1. OrderGap * 0 < OrderGap * k /\ OrderGap * k \in Nat
      BY <2>11, Multiples
    <3>2. m * Stride \in Nat
      BY <2>11, StrideAssumption
    <3> QED
      BY <2>11, <3>1, <3>2
  <2> QED
    BY <2>5, <2>10, <2>12
<1>7. BackfillAll(query) = [a \in ToSet(query) |-> BackfillAll(query)[a]]
  BY DEF BackfillAll
<1> QED
  BY <1>1, <1>2, <1>5, <1>6, <1>7 DEF Orders

-----------------------------------------------------------------------------
(* Rows keep their order.                                                  *)

\* The table of orders after a row was given its place.
OrderedRow(ord, a, n) ==
  WithOrder(ResolveAddressOrder(ord, a, n).ord, a, ResolveAddressOrder(ord, a, n).next)

\* It holds an order for the row, of at least 1.
LEMMA OrderedRowType ==
  ASSUME NEW ord, Orders(ord), NEW a \in Slugs \X Instances, NEW n \in Int
  PROVE  DOMAIN OrderedRow(ord, a, n) = DOMAIN ord \cup {a} /\ Orders(OrderedRow(ord, a, n))
<1>1. PICK o, k : o = ResolveAddressOrder(ord, a, n).ord /\ k = ResolveAddressOrder(ord, a, n).next
  OBVIOUS
<1>2. DOMAIN o = DOMAIN ord /\ Orders(o) /\ k \in Nat \ {0}
  BY <1>1, ResolveType
<1>3. DOMAIN WithOrder(o, a, k) = DOMAIN o \cup {a} /\ Orders(WithOrder(o, a, k))
  BY <1>2, WithOrderType
<1> QED
  BY <1>1, <1>2, <1>3 DEF OrderedRow

\* When the resolution of an order changes the table it has repacked the
\* section of the row, and the row has none yet.
LEMMA ResolveRepacks ==
  ASSUME NEW ord, Orders(ord), NEW a \in Slugs \X Instances, NEW requested \in Int,
         NEW rows, rows = SectionRows(ord, a[2], SectionOf[a[1]]),
         ResolveAddressOrder(ord, a, requested).ord # ord
  PROVE  /\ rows # {} /\ rows \subseteq DOMAIN ord /\ IsFiniteSet(rows)
         /\ a \notin DOMAIN ord /\ ~(requested > 0) /\ ~(TemplateOrder(ord, a[1]) > 0)
         /\ SectionBase(ord, rows) \in Nat /\ TightGap(rows) \in Nat \ {0}
         /\ ResolveAddressOrder(ord, a, requested).ord
              = Repack(ord, rows, SectionBase(ord, rows), TightGap(rows))
         /\ ResolveAddressOrder(ord, a, requested).next
              = SectionBase(ord, rows) + TightGap(rows) * (Cardinality(rows) + 1)
<1>1. ~(requested > 0) /\ ~(a \in DOMAIN ord /\ ord[a] > 0) /\ ~(TemplateOrder(ord, a[1]) > 0)
  BY DEF ResolveAddressOrder
<1>2. a \notin DOMAIN ord
  BY <1>1 DEF Orders
<1>3. ResolveAddressOrder(ord, a, requested) = ResolveSectionOrder(ord, a[2], SectionOf[a[1]])
  BY <1>1 DEF ResolveAddressOrder
<1>4. rows # {}
  BY <1>3 DEF ResolveSectionOrder
<1>5. rows \subseteq DOMAIN ord /\ IsFiniteSet(rows)
  BY SectionFinite
<1>6. SectionBase(ord, rows) \in Nat /\ TightGap(rows) \in Nat \ {0}
  BY <1>4, <1>5, BaseType, GapType
<1>7. BandIsFull(ord, rows)
  BY <1>3, <1>4 DEF ResolveSectionOrder
<1>8. ResolveSectionOrder(ord, a[2], SectionOf[a[1]]) =
        [next |-> SectionBase(ord, rows) + TightGap(rows) * (Cardinality(rows) + 1),
         ord  |-> Repack(ord, rows, SectionBase(ord, rows), TightGap(rows))]
  BY <1>4, <1>7 DEF ResolveSectionOrder
<1> QED
  BY <1>1, <1>2, <1>3, <1>4, <1>5, <1>6, <1>8

\* Rows that stand in one sequence.
SameSection(a, b) == a[2] = b[2] /\ SectionOf[a[1]] = SectionOf[b[1]]

\* A repack that was not cut off between two rows keeps their order; one
\* that was keeps it where the later row stands behind the new place of the
\* earlier one.
LEMMA RepackKeepsOrder ==
  ASSUME NEW ord, Orders(ord), NEW rows, rows \subseteq DOMAIN ord,
         NEW base \in Nat, NEW gap \in Nat \ {0}, NEW k \in Nat,
         NEW x \in rows, NEW y \in rows, ord[x] < ord[y],
         k = Cardinality(rows) \/ base + gap * Place(ord, rows, x) < ord[y]
  PROVE  RepackedTo(ord, rows, base, gap, k)[x] < RepackedTo(ord, rows, base, gap, k)[y]
<1>1. PICK p, q, new : /\ p = Place(ord, rows, x) /\ q = Place(ord, rows, y)
                       /\ new = RepackedTo(ord, rows, base, gap, k)
  OBVIOUS
<1>2. Cardinality(rows) \in Nat
  BY FS_Subset, FS_CardinalityType DEF Orders
<1>3. p \in 1 .. Cardinality(rows) /\ q \in 1 .. Cardinality(rows)
  BY <1>1, PlaceBounds
<1>4. p < q
  BY <1>1, PlaceStrict DEF ComesBefore
<1>5. gap * p \in Nat /\ gap * q \in Nat /\ gap * p < gap * q
  BY <1>2, <1>3, <1>4, Multiples
<1>6. /\ new[x] = IF p <= k THEN base + gap * p ELSE ord[x]
      /\ new[y] = IF q <= k THEN base + gap * q ELSE ord[y]
  BY <1>1 DEF RepackedTo
<1>7. k = Cardinality(rows) \/ base + gap * p < ord[y]
  BY <1>1
<1>8. ord[x] \in Nat /\ ord[y] \in Nat
  BY DEF Orders
<1>9. p <= k \/ ~(q <= k)
  BY <1>2, <1>3, <1>4
<1>10. new[x] < new[y]
  <2>1. CASE p <= k /\ q <= k
    BY <1>5, <1>6, <2>1
  <2>2. CASE p <= k /\ ~(q <= k)
    BY <1>2, <1>3, <1>6, <1>7, <2>2
  <2>3. CASE ~(p <= k) /\ ~(q <= k)
    BY <1>6, <2>3
  <2> QED
    BY <1>9, <2>1, <2>2, <2>3
<1> QED
  BY <1>1, <1>10

\* Rows of other sections keep their orders in a repack.
LEMMA RepackLeavesOthers ==
  ASSUME NEW ord, NEW rows, NEW base, NEW gap, NEW k, NEW x \in DOMAIN ord, x \notin rows
  PROVE  RepackedTo(ord, rows, base, gap, k)[x] = ord[x]
BY DEF RepackedTo

\* The resolution of an order keeps the order of the rows of a section.
LEMMA ResolveKeepsOrder ==
  ASSUME NEW ord, Orders(ord), NEW a \in Slugs \X Instances, NEW n \in Int,
         NEW x \in DOMAIN ord, NEW y \in DOMAIN ord, SameSection(x, y), ord[x] < ord[y]
  PROVE  LET o == ResolveAddressOrder(ord, a, n).ord IN o[x] < o[y]
<1>1. PICK o, rows, base, gap :
        /\ o = ResolveAddressOrder(ord, a, n).ord
        /\ rows = SectionRows(ord, a[2], SectionOf[a[1]])
        /\ base = SectionBase(ord, rows) /\ gap = TightGap(rows)
  OBVIOUS
<1>2. CASE o = ord
  BY <1>1, <1>2
<1>3. CASE o # ord
  <2>1. /\ rows \subseteq DOMAIN ord /\ IsFiniteSet(rows)
        /\ base \in Nat /\ gap \in Nat \ {0}
        /\ o = Repack(ord, rows, base, gap)
    BY <1>1, <1>3, ResolveRepacks
  <2>2. Cardinality(rows) \in Nat
    BY <2>1, FS_CardinalityType
  <2>3. o = RepackedTo(ord, rows, base, gap, Cardinality(rows))
    BY <2>1 DEF Repack
  <2>4. x \in rows <=> y \in rows
    BY <1>1 DEF SectionRows, SameSection
  <2>5. CASE x \in rows
    BY <1>1, <2>1, <2>2, <2>3, <2>4, <2>5, RepackKeepsOrder
  <2>6. CASE x \notin rows
    BY <1>1, <2>3, <2>4, <2>6, RepackLeavesOthers
  <2> QED
    BY <2>5, <2>6
<1> QED
  BY <1>2, <1>3

\* So does the whole operation, for all rows but that one.
LEMMA OrderedRowKeeps ==
  ASSUME NEW ord, Orders(ord), NEW a \in Slugs \X Instances, NEW n \in Int,
         NEW x \in DOMAIN ord, NEW y \in DOMAIN ord, SameSection(x, y), ord[x] < ord[y],
         x = a \/ y = a => ~(n > 0)
  PROVE  OrderedRow(ord, a, n)[x] < OrderedRow(ord, a, n)[y]
<1>1. PICK r, o, next : /\ r = ResolveAddressOrder(ord, a, n)
                        /\ o = r.ord /\ next = r.next
  OBVIOUS
<1>2. DOMAIN o = DOMAIN ord /\ o[x] < o[y]
  BY <1>1, ResolveType, ResolveKeepsOrder
<1>3. PICK new : new = OrderedRow(ord, a, n)
  OBVIOUS
<1>4. \A b \in DOMAIN ord : new[b] = IF b = a THEN next ELSE o[b]
  BY <1>1, <1>2, <1>3 DEF OrderedRow, WithOrder
<1>5. CASE x = a \/ y = a
  <2>1. a \in DOMAIN ord /\ ord[a] > 0 /\ ~(n > 0)
    BY <1>5 DEF Orders
  <2>2. o = ord /\ next = ord[a]
    BY <1>1, <2>1 DEF ResolveAddressOrder
  <2> QED
    BY <1>3, <1>4, <2>2
<1>6. CASE x # a /\ y # a
  BY <1>2, <1>3, <1>4, <1>6
<1> QED
  BY <1>5, <1>6

\* A row whose order neither the request nor the template says goes behind
\* the rows of its section.
LEMMA OrderedRowLast ==
  ASSUME NEW ord, Orders(ord), NEW a \in Slugs \X Instances, NEW n \in Int, ~(n > 0),
         a \notin DOMAIN ord, NEW y \in DOMAIN ord, SameSection(a, y)
  PROVE  \/ TemplateOrder(ord, a[1]) = OrderedRow(ord, a, n)[a]
         \/ OrderedRow(ord, a, n)[y] < OrderedRow(ord, a, n)[a]
<1>1. PICK r, rows, base, gap, card :
        /\ r = ResolveAddressOrder(ord, a, n)
        /\ rows = SectionRows(ord, a[2], SectionOf[a[1]])
        /\ base = SectionBase(ord, rows) /\ gap = TightGap(rows)
        /\ card = Cardinality(rows)
  OBVIOUS
<1>2. PICK new : new = OrderedRow(ord, a, n)
  OBVIOUS
<1>3. DOMAIN r.ord = DOMAIN ord
  BY <1>1, ResolveType
<1>4. new[a] = r.next /\ new[y] = r.ord[y]
  BY <1>1, <1>2, <1>3 DEF OrderedRow, WithOrder
<1>5. CASE TemplateOrder(ord, a[1]) > 0
  BY <1>1, <1>2, <1>4, <1>5 DEF ResolveAddressOrder
<1>6. CASE ~(TemplateOrder(ord, a[1]) > 0)
  <2>1. r = ResolveSectionOrder(ord, a[2], SectionOf[a[1]])
    BY <1>1, <1>6 DEF ResolveAddressOrder
  <2>2. y \in rows
    BY <1>1 DEF SectionRows, SameSection
  <2>3. rows \subseteq DOMAIN ord /\ IsFiniteSet(rows) /\ card \in Nat
    BY <1>1, SectionFinite
  <2>4. base \in Nat /\ gap \in Nat \ {0}
    BY <1>1, <2>2, <2>3, BaseType, GapType
  <2>5. CASE BandIsFull(ord, rows)
    <3>1. r = [next |-> base + gap * (card + 1), ord |-> Repack(ord, rows, base, gap)]
      BY <1>1, <2>1, <2>2, <2>5 DEF ResolveSectionOrder
    <3>2. PICK q : q = Place(ord, rows, y)
      OBVIOUS
    <3>3. q \in 1 .. card
      BY <1>1, <2>2, <2>3, <3>2, PlaceBounds
    <3>4. r.ord[y] = base + gap * q
      BY <1>1, <2>2, <2>3, <3>1, <3>2, <3>3 DEF Repack, RepackedTo
    <3>5. gap * q \in Nat /\ gap * (card + 1) \in Nat /\ gap * q < gap * (card + 1)
      BY <2>3, <2>4, <3>3, Multiples
    <3>6. r.next = base + gap * (card + 1)
      BY <3>1
    <3>7. r.ord[y] < r.next
      BY <2>4, <3>4, <3>5, <3>6
    <3> QED
      BY <1>2, <1>4, <3>7
  <2>6. CASE ~BandIsFull(ord, rows)
    <3>1. r = [next |-> Largest(Values(ord, rows)) + OrderGap, ord |-> ord]
      BY <1>1, <2>1, <2>2, <2>6 DEF ResolveSectionOrder
    <3>2. PICK S : S = Values(ord, rows)
      OBVIOUS
    <3>3. IsFiniteSet(S) /\ S \subseteq Nat \ {0} /\ ord[y] \in S
      BY <2>2, <2>3, <3>2, ValuesFinite DEF Values
    <3>4. S \subseteq Int /\ S # {}
      BY <3>3
    <3>5. Largest(S) \in S /\ ord[y] <= Largest(S)
      BY <3>3, <3>4, LargestIs
    <3>6. Largest(S) \in Nat /\ ord[y] \in Nat
      BY <3>3, <3>5
    <3>7. r.next = Largest(S) + OrderGap /\ r.ord[y] = ord[y]
      BY <3>1, <3>2
    <3>8. r.ord[y] < r.next
      BY <3>5, <3>6, <3>7, StrideAssumption
    <3> QED
      BY <1>2, <1>4, <3>8
  <2> QED
    BY <2>5, <2>6
<1> QED
  BY <1>5, <1>6
=============================================================================
