-------------------------- MODULE VerifySpecsProofs --------------------------
(***************************************************************************)
(* What VerifySpecs promises, for every spec, reading and unit table:      *)
(*   VerdictSurvives   the verdict a row carries is that of the reading as *)
(*                     it is stored and, off the bounds, as it was typed;  *)
(*   UnitGivenOnce     a range whose unit is written once decides as the   *)
(*                     range that repeats it;                              *)
(*   UnitFree          a quantity decides alike in whatever unit it is     *)
(*                     written, as far as the arithmetic is exact.         *)
(*                                                                         *)
(* One invariant serves all three (StoredInv): what is stored is the entry *)
(* in the unit of the spec and the verdict is that of what is stored.  The *)
(* rest is about the operators.  Two numbers whose units are known compare *)
(* as their canonical values do (ComparedInCanonical), and rewriting a     *)
(* number in the unit of the spec keeps its canonical value (RewrittenIs). *)
(***************************************************************************)
EXTENDS VerifySpecs, SequenceTheorems, FiniteSetTheorems, NaturalsInduction,
        WellFoundedInduction, TLAPS

-----------------------------------------------------------------------------
(* Decimals.                                                               *)

LEMMA LeastNat ==
  ASSUME NEW T, T \subseteq Nat, T # {}
  PROVE  \E m \in T : \A k \in T : ~(k < m)
<1>1. IsWellFoundedOn(OpToRel(<, Nat), Nat)
  BY NatLessThanWellFounded
<1>2. \E x \in T : \A y \in T : ~(<<y, x>> \in OpToRel(<, Nat))
  BY <1>1, WFMin
<1> QED
  BY <1>2 DEF OpToRel

\* The powers of ten.
LEMMA PowerIs ==
  /\ PowerOfTen[0] = 1
  /\ \A k \in Nat \ {0} : PowerOfTen[k] = 10 * PowerOfTen[k - 1]
<1> DEFINE Tenfold(v, n) == 10 * v
<1>1. NatInductiveDefHypothesis(PowerOfTen, 1, Tenfold)
  BY DEF NatInductiveDefHypothesis, PowerOfTen
<1>2. NatInductiveDefConclusion(PowerOfTen, 1, Tenfold)
  BY <1>1, NatInductiveDef
<1> QED
  BY <1>2 DEF NatInductiveDefConclusion

LEMMA PowerType ==
  ASSUME NEW k \in Nat
  PROVE  PowerOfTen[k] \in Nat \ {0}
<1>1. PICK Wrong : Wrong = {n \in Nat : PowerOfTen[n] \notin Nat \ {0}}
  OBVIOUS
<1> SUFFICES ASSUME Wrong # {} PROVE FALSE
  BY <1>1
<1>2. PICK n \in Wrong : \A m \in Wrong : ~(m < n)
  BY <1>1, LeastNat
<1>3. n \in Nat /\ PowerOfTen[n] \notin Nat \ {0}
  BY <1>1
<1>4. n # 0
  BY <1>3, PowerIs
<1>5. n - 1 \in Nat /\ PowerOfTen[n - 1] \in Nat \ {0}
  BY <1>1, <1>2, <1>3, <1>4
<1>6. PowerOfTen[n] = 10 * PowerOfTen[n - 1]
  BY <1>3, <1>4, PowerIs
<1> QED
  BY <1>3, <1>5, <1>6

LEMMA PowerGrows ==
  ASSUME NEW k \in Nat, NEW l \in Nat, k <= l
  PROVE  PowerOfTen[k] <= PowerOfTen[l]
<1>1. PICK Wrong : Wrong = {n \in Nat : k <= n /\ ~(PowerOfTen[k] <= PowerOfTen[n])}
  OBVIOUS
<1> SUFFICES ASSUME Wrong # {} PROVE FALSE
  BY <1>1
<1>2. PICK n \in Wrong : \A m \in Wrong : ~(m < n)
  BY <1>1, LeastNat
<1>3. n \in Nat /\ k <= n /\ ~(PowerOfTen[k] <= PowerOfTen[n])
  BY <1>1
<1>4. n # k
  BY <1>3, PowerType
<1>5. n - 1 \in Nat /\ PowerOfTen[k] <= PowerOfTen[n - 1] /\ n # 0
  BY <1>1, <1>2, <1>3, <1>4
<1>6. PowerOfTen[n] = 10 * PowerOfTen[n - 1]
  BY <1>3, <1>5, PowerIs
<1>7. PowerOfTen[k] \in Nat /\ PowerOfTen[n - 1] \in Nat
  BY <1>5, PowerType
<1> QED
  BY <1>3, <1>5, <1>6, <1>7

\* A decimal moved by k places.
Moved(a, b, k) == b.n = a.n /\ b.x = a.x + k
Decimal(a) == a.n \in Int /\ a.x \in Int

\* The order of two decimals does not change when both are moved.
LEMMA MovedOrder ==
  ASSUME NEW a, Decimal(a), NEW b, Decimal(b), NEW k \in Int,
         NEW c, Moved(a, c, k), NEW d, Moved(b, d, k)
  PROVE  Leq(a, b) <=> Leq(c, d)
<1>1. PICK x, y : x = Lower(a.x, b.x) /\ y = Lower(c.x, d.x)
  OBVIOUS
<1>2. y = x + k /\ x \in Int
  BY <1>1 DEF Lower, Moved, Decimal
<1>3. c.x - y = a.x - x /\ d.x - y = b.x - x
  BY <1>2 DEF Moved, Decimal
<1>4. Scaled(c, y) = Scaled(a, x) /\ Scaled(d, y) = Scaled(b, x)
  BY <1>3 DEF Scaled, Moved
<1> QED
  BY <1>1, <1>4 DEF Leq

LEMMA ScaledType ==
  ASSUME NEW a, Decimal(a), NEW x \in Int, x <= a.x
  PROVE  Scaled(a, x) \in Int
<1>1. Lower(a.x - x, Digits) \in Nat
  BY TextAssumption DEF Lower, Decimal
<1>2. PowerOfTen[Lower(a.x - x, Digits)] \in Int
  BY <1>1, PowerType
<1> QED
  BY <1>2 DEF Scaled, Decimal

\* Nor does their distance.
LEMMA MovedDistance ==
  ASSUME NEW a, Decimal(a), NEW b, Decimal(b), NEW k \in Int,
         NEW c, Moved(a, c, k), NEW d, Moved(b, d, k)
  PROVE  /\ Moved(Distance(a, b), Distance(c, d), k)
         /\ Decimal(Distance(a, b))
<1>1. PICK x, y : x = Lower(a.x, b.x) /\ y = Lower(c.x, d.x)
  OBVIOUS
<1>2. y = x + k /\ x \in Int /\ x <= a.x /\ x <= b.x
  BY <1>1 DEF Lower, Moved, Decimal
<1>3. c.x - y = a.x - x /\ d.x - y = b.x - x
  BY <1>2 DEF Moved, Decimal
<1>4. Scaled(c, y) = Scaled(a, x) /\ Scaled(d, y) = Scaled(b, x)
  BY <1>3 DEF Scaled, Moved
<1>5. Scaled(a, x) \in Int /\ Scaled(b, x) \in Int
  BY <1>2, ScaledType
<1>6. PICK n : n = Magnitude(Scaled(a, x) - Scaled(b, x))
  OBVIOUS
<1>7. n \in Int
  BY <1>5, <1>6 DEF Magnitude
<1>8. Distance(a, b) = [n |-> n, x |-> x] /\ Distance(c, d) = [n |-> n, x |-> y]
  BY <1>1, <1>4, <1>6 DEF Distance
<1> QED
  BY <1>2, <1>7, <1>8 DEF Moved, Decimal

LEMMA TimesIs ==
  ASSUME NEW a, Decimal(a), NEW k \in Int
  PROVE  Decimal(Times(a, k)) /\ Moved(a, Times(a, k), k) /\ Moved(Times(a, k), a, -k)
BY DEF Times, Moved, Decimal

-----------------------------------------------------------------------------
(* Tolerances.                                                             *)

\* The tolerance of a number in its own unit.
Own(s) == IF s.precise THEN Larger(ExactEpsilon, QuarterStep(s)) ELSE ExactEpsilon

LEMMA EpsilonIs ==
  Decimal(ExactEpsilon) /\ ExactEpsilon.n = 1 /\ ExactEpsilon.x = -9
BY DEF ExactEpsilon, Decimal

\* The decimals that tolerances are: one or a quarter of a hundred of a place.
Step(a) == Decimal(a) /\ a.n \in {1, 25}

LEMMA LargerIs ==
  ASSUME NEW a, Step(a)
  PROVE  /\ Step(Larger(ExactEpsilon, a)) /\ Leq(ExactEpsilon, Larger(ExactEpsilon, a))
         /\ Leq(ExactEpsilon, a) => Larger(ExactEpsilon, a) = a
         /\ ~Leq(ExactEpsilon, a) => Larger(ExactEpsilon, a) = ExactEpsilon
<1>1. Leq(ExactEpsilon, ExactEpsilon) /\ Step(ExactEpsilon)
  <2>1. Scaled(ExactEpsilon, -9) \in Int
    BY EpsilonIs, ScaledType
  <2>2. Lower(ExactEpsilon.x, ExactEpsilon.x) = -9
    BY EpsilonIs DEF Lower
  <2> QED
    BY <2>1, <2>2, EpsilonIs DEF Leq, Step
<1> QED
  BY <1>1 DEF Larger

LEMMA OwnIs ==
  ASSUME NEW s, s.x \in Int
  PROVE  Step(Own(s)) /\ Leq(ExactEpsilon, Own(s))
<1>1. Step(QuarterStep(s)) /\ Step(ExactEpsilon)
  BY EpsilonIs DEF QuarterStep, Step, Decimal
<1>2. Larger(ExactEpsilon, ExactEpsilon) = ExactEpsilon
  BY DEF Larger
<1> QED
  BY <1>1, <1>2, LargerIs DEF Own

\* A tolerance above the smallest stays above it in a smaller unit.
LEMMA StepStaysAbove ==
  ASSUME NEW a, Step(a), NEW b, NEW k \in Nat, Moved(a, b, k), Leq(ExactEpsilon, a)
  PROVE  Leq(ExactEpsilon, b)
<1>1. PICK e, x, y, n : /\ e = ExactEpsilon /\ x = Lower(-9, a.x) /\ y = Lower(-9, b.x)
                        /\ n = a.n
  OBVIOUS
<1>2. /\ a.x \in Int /\ b.x = a.x + k /\ b.n = n /\ n \in Int /\ n >= 1
      /\ e.n = 1 /\ e.x = -9 /\ Digits \in Nat
  BY <1>1, EpsilonIs, TextAssumption DEF Step, Decimal, Moved
<1>3. Scaled(e, x) <= Scaled(a, x)
  BY <1>1, <1>2 DEF Leq
<1>4. Scaled(e, y) <= Scaled(b, y)
  <2>1. CASE b.x >= -9
    <3>1. y = -9 /\ Lower(-9 - y, Digits) = 0
      BY <1>1, <1>2, <2>1 DEF Lower
    <3>2. Scaled(e, y) = 1
      BY <1>2, <3>1, PowerIs DEF Scaled
    <3>3. Lower(b.x - y, Digits) \in Nat
      BY <1>2, <2>1, <3>1 DEF Lower
    <3>4. PICK p : p = PowerOfTen[Lower(b.x - y, Digits)]
      OBVIOUS
    <3>5. p \in Nat \ {0} /\ Scaled(b, y) = n * p
      BY <1>2, <3>3, <3>4, PowerType DEF Scaled
    <3>6. n = 1 \/ n = 25
      BY <1>1 DEF Step
    <3> QED
      BY <3>2, <3>5, <3>6
  <2>2. CASE b.x < -9
    <3>1. x = a.x /\ y = b.x /\ Lower(a.x - x, Digits) = 0 /\ Lower(b.x - y, Digits) = 0
      BY <1>1, <1>2, <2>2 DEF Lower
    <3>2. PICK m, l : m = Lower(-9 - x, Digits) /\ l = Lower(-9 - y, Digits)
      OBVIOUS
    <3>3. m \in Nat /\ l \in Nat /\ l <= m
      BY <1>2, <2>2, <3>1, <3>2 DEF Lower
    <3>4. PICK p, q : p = PowerOfTen[m] /\ q = PowerOfTen[l]
      OBVIOUS
    <3>5. p \in Nat /\ q \in Nat /\ q <= p
      BY <3>3, <3>4, PowerType, PowerGrows
    <3>6. Scaled(e, x) = 1 * p /\ Scaled(e, y) = 1 * q
      BY <1>2, <3>2, <3>4 DEF Scaled
    <3>7. Scaled(a, x) = n * 1 /\ Scaled(b, y) = n * 1
      BY <1>1, <1>2, <3>1, PowerIs DEF Scaled
    <3> QED
      BY <1>2, <1>3, <3>5, <3>6, <3>7
  <2> QED
    BY <1>2, <2>1, <2>2
<1> QED
  BY <1>1, <1>2, <1>4 DEF Leq

\* Comparing in canonical units or in the unit of the spec: the distance is
\* within the tolerance of the one when it is within that of the other.
LEMMA ToleranceAligns ==
  ASSUME NEW o, Step(o), Leq(ExactEpsilon, o), NEW k \in Int,
         NEW here, Decimal(here), NEW there, Moved(here, there, k),
         NEW tolerance, tolerance = Larger(ExactEpsilon, Times(o, k))
  PROVE  Leq(here, Larger(ExactEpsilon, Times(tolerance, -k))) <=> Leq(there, tolerance)
<1>1. PICK e, far : e = ExactEpsilon /\ far = Times(o, k)
  OBVIOUS
<1>2. /\ Step(far) /\ Moved(o, far, k) /\ Moved(far, o, -k) /\ Step(e)
      /\ Decimal(o) /\ Decimal(far) /\ Decimal(e)
  <2>1. Decimal(far) /\ Moved(o, far, k) /\ Moved(far, o, -k)
    BY <1>1, TimesIs DEF Step
  <2> QED
    BY <1>1, <2>1, EpsilonIs DEF Step, Moved
<1>3. CASE Leq(e, far)
  <2>1. tolerance = far
    BY <1>1, <1>2, <1>3, LargerIs
  <2>2. PICK back : back = Times(far, -k)
    OBVIOUS
  <2>3. Moved(far, back, -k) /\ Decimal(back)
    BY <1>2, <2>2, TimesIs
  <2>4. back.n = o.n /\ back.x = o.x
    BY <1>2, <2>3 DEF Moved, Decimal
  <2>5. Moved(o, back, 0) /\ Step(back)
    BY <1>2, <2>3, <2>4 DEF Moved, Decimal, Step
  <2>6. Leq(e, back)
    BY <1>1, <2>5, StepStaysAbove
  <2>7. Larger(e, back) = back
    BY <1>1, <2>5, <2>6, LargerIs
  <2>8. Moved(back, far, k)
    BY <1>2, <2>4 DEF Moved
  <2>9. Leq(here, back) <=> Leq(there, far)
    BY <2>3, <2>8, <1>2, MovedOrder
  <2> QED
    BY <1>1, <2>1, <2>2, <2>7, <2>9
<1>4. CASE ~Leq(e, far)
  <2>1. tolerance = e
    BY <1>1, <1>2, <1>4, LargerIs
  <2>2. k < 0
    BY <1>1, <1>2, <1>4, StepStaysAbove
  <2>3. PICK back : back = Times(e, -k)
    OBVIOUS
  <2>4. -k \in Nat /\ Moved(e, back, -k) /\ Decimal(back) /\ Moved(back, e, k)
    <3>1. -k \in Nat /\ -k \in Int
      BY <2>2
    <3>2. Moved(e, back, -k) /\ Decimal(back)
      BY <1>2, <2>3, <3>1, TimesIs
    <3> QED
      BY <1>2, <3>1, <3>2 DEF Moved, Decimal
  <2>5. Leq(e, e)
    <3>1. Larger(e, e) = e
      BY DEF Larger
    <3> QED
      BY <1>1, <1>2, <3>1, LargerIs
  <2>6. Step(back) /\ Leq(e, back)
    BY <1>1, <1>2, <2>4, <2>5, StepStaysAbove DEF Step, Moved
  <2>7. Larger(e, back) = back
    BY <1>1, <2>6, LargerIs
  <2>8. Leq(here, back) <=> Leq(there, e)
    BY <2>4, MovedOrder
  <2> QED
    BY <1>1, <2>1, <2>3, <2>7, <2>8
<1> QED
  BY <1>3, <1>4

-----------------------------------------------------------------------------
(* Numbers and units.                                                      *)

LEMMA NumberIs ==
  ASSUME NEW s \in Number
  PROVE  /\ s.t = "num" /\ s.precise \in BOOLEAN /\ s.unit \in STRING
         /\ s.n \in Int /\ s.x \in Int /\ Decimal(s)
         /\ s # None
         /\ \A u \in STRING :
              /\ [s EXCEPT !.unit = u] \in Number
              /\ [s EXCEPT !.unit = u].unit = u
              /\ [s EXCEPT !.unit = u].n = s.n /\ [s EXCEPT !.unit = u].x = s.x
BY TextAssumption DEF Number, Decimal

LEMMA UnitIs ==
  ASSUME NEW unit, Known(unit)
  PROVE  /\ unit \in STRING /\ unit # NoUnit
         /\ Scale[unit].canonical \in STRING /\ Scale[unit].x \in Int
BY ScaleAssumption DEF Known

\* What a number stands for in canonical units.
Canon(s) == [n |-> s.n, x |-> s.x + Scale[s.unit].x]
CanonicalUnit(s) == Scale[s.unit].canonical

LEMMA CanonicalIs ==
  ASSUME NEW s \in Number, Known(s.unit)
  PROVE  /\ NormalizeScalarToCanonical(s) \in Number
         /\ NormalizeScalarToCanonical(s) # None
         /\ NormalizeScalarToCanonical(s).n = s.n
         /\ NormalizeScalarToCanonical(s).x = s.x + Scale[s.unit].x
         /\ NormalizeScalarToCanonical(s).unit = CanonicalUnit(s)
<1>1. PICK k, c : k = Scale[s.unit].x /\ c = Scale[s.unit].canonical
  OBVIOUS
<1>2. k \in Int /\ c \in STRING /\ s.unit # NoUnit
  BY <1>1, UnitIs
<1>3. NormalizeScalarToCanonical(s) = [s EXCEPT !.x = @ + k, !.unit = c]
  BY <1>1, <1>2 DEF NormalizeScalarToCanonical
<1>4. PICK d : d = [s EXCEPT !.x = @ + k, !.unit = c]
  OBVIOUS
<1>5. d \in Number /\ d.n = s.n /\ d.x = s.x + k /\ d.unit = c
  <2>1. s \in [t : {"num"}, n : Int, x : Int, precise : BOOLEAN, unit : STRING]
    BY DEF Number
  <2>2. PICK y : y = s.x + k
    OBVIOUS
  <2>3. y \in Int
    BY <1>2, <2>1, <2>2
  <2>4. d = [s EXCEPT !.x = y, !.unit = c]
    BY <1>4, <2>2
  <2>5. d \in [t : {"num"}, n : Int, x : Int, precise : BOOLEAN, unit : STRING]
    BY <1>2, <2>1, <2>3, <2>4
  <2>6. d.n = s.n /\ d.x = y /\ d.unit = c
    BY <2>1, <2>4
  <2> QED
    BY <2>2, <2>5, <2>6 DEF Number
<1> QED
  BY <1>1, <1>3, <1>4, <1>5, NumberIs DEF CanonicalUnit

\* Two numbers with known units are compared in the unit they share, or in
\* canonical units, or not at all.
LEMMA PairIs ==
  ASSUME NEW p \in Number, NEW r \in Number, Known(r.unit), NEW s \in Number,
         s = Adopt(p, r), Known(s.unit),
         NEW pair, pair = NormalizeScalarPairForCompare(p, r)
  PROVE  /\ CanonicalUnit(s) # CanonicalUnit(r) => pair = None
         /\ CanonicalUnit(s) = CanonicalUnit(r) =>
              /\ pair # None
              /\ pair = IF s.unit = r.unit THEN <<s, r>>
                        ELSE <<NormalizeScalarToCanonical(s), NormalizeScalarToCanonical(r)>>
<1>1. r.unit # NoUnit
  BY UnitIs
<1>2. Adopt(r, p) = r
  BY <1>1 DEF Adopt
<1>3. PICK cs, cr : cs = NormalizeScalarToCanonical(s) /\ cr = NormalizeScalarToCanonical(r)
  OBVIOUS
<1>4. /\ cs \in Number /\ cr \in Number /\ cs # None /\ cr # None
      /\ cs.unit = CanonicalUnit(s) /\ cr.unit = CanonicalUnit(r)
  BY <1>3, CanonicalIs
<1>5. pair = IF s.unit = r.unit THEN <<s, r>>
             ELSE IF cs = None \/ cr = None THEN None
             ELSE IF cs.unit = cr.unit THEN <<cs, cr>> ELSE None
  BY <1>2, <1>3 DEF NormalizeScalarPairForCompare
<1>6. <<s, r>> # None /\ <<cs, cr>> # None
  BY <1>4, TextAssumption
<1>7. s.unit = r.unit => CanonicalUnit(s) = CanonicalUnit(r)
  BY DEF CanonicalUnit
<1> QED
  BY <1>3, <1>4, <1>5, <1>6, <1>7

\* What an operator says of two decimals in canonical units.
Says(op, l, r, tolerance) ==
  CASE op = "<=" -> Leq(l, r)
    [] op = ">=" -> Leq(r, l)
    [] op = "<" -> ~Leq(r, l)
    [] op = ">" -> ~Leq(l, r)
    [] op \in {"=", "=="} -> Leq(Distance(l, r), tolerance)
    [] op = "!=" -> ~Leq(Distance(l, r), tolerance)

\* A pair moved from canonical units to others is matched as it was there.
LEMMA MatchedAlike ==
  ASSUME NEW l, Decimal(l), NEW r, Decimal(r), NEW c, Decimal(c), NEW d, Decimal(d),
         NEW k \in Int, Moved(l, c, k), Moved(r, d, k),
         NEW op \in Comparators, NEW tolerance, NEW s,
         Within(l, r, s) <=> Leq(Distance(c, d), tolerance)
  PROVE  Matched(op, l, r, s) <=> Says(op, c, d, tolerance)
<1>1. (Leq(l, r) <=> Leq(c, d)) /\ (Leq(r, l) <=> Leq(d, c))
  BY MovedOrder
<1> QED
  BY <1>1 DEF Matched, Says, Comparators

\* The tolerance does not depend on the unit compared in.
LEMMA WithinAlike ==
  ASSUME NEW s \in Number, Known(s.unit), NEW k, k = Scale[s.unit].x,
         NEW l, Decimal(l), NEW c, Decimal(c), NEW d, Decimal(d),
         Moved(l, c, k), Moved(s, d, k)
  PROVE  Within(l, s, s) <=> Leq(Distance(c, d), ResolveScalarEqualityTolerance(s))
<1>1. k \in Int /\ Decimal(s) /\ s.x \in Int
  BY UnitIs, NumberIs
<1>2. Step(Own(s)) /\ Leq(ExactEpsilon, Own(s))
  BY <1>1, OwnIs
<1>3. PICK tolerance : tolerance = ResolveScalarEqualityTolerance(s)
  OBVIOUS
<1>4. tolerance = Larger(ExactEpsilon, Times(Own(s), k))
  BY <1>3 DEF ResolveScalarEqualityTolerance, Own
<1>5. Moved(Distance(l, s), Distance(c, d), k) /\ Decimal(Distance(l, s))
  BY <1>1, MovedDistance
<1>6. Leq(Distance(l, s), Larger(ExactEpsilon, Times(tolerance, -k)))
        <=> Leq(Distance(c, d), tolerance)
  BY <1>1, <1>2, <1>4, <1>5, ToleranceAligns
<1>7. AlignScalarToleranceToComparisonUnit(tolerance, s, s)
        = Larger(ExactEpsilon, Times(tolerance, -k))
  BY DEF AlignScalarToleranceToComparisonUnit
<1> QED
  BY <1>3, <1>6, <1>7 DEF Within

\* In canonical units the tolerance is not converted, or by a factor of one.
LEMMA WithinCanonical ==
  ASSUME NEW s \in Number, Known(s.unit), NEW l, Decimal(l),
         NEW r \in Number, r.unit = CanonicalUnit(s)
  PROVE  Within(l, r, s) <=> Leq(Distance(l, r), ResolveScalarEqualityTolerance(s))
<1>1. PICK tolerance : tolerance = ResolveScalarEqualityTolerance(s)
  OBVIOUS
<1>2. CASE r.unit # s.unit
  BY <1>1, <1>2 DEF Within, AlignScalarToleranceToComparisonUnit
<1>3. CASE r.unit = s.unit
  <2>1. Scale[s.unit].x = 0
    <3>1. PICK u, c : u = s.unit /\ c = Scale[u].canonical
      OBVIOUS
    <3>2. u \in DOMAIN Scale /\ c = u
      BY <1>3, <3>1 DEF Known, CanonicalUnit
    <3>3. Scale[c] = [canonical |-> c, x |-> 0]
      BY <3>1, <3>2, ScaleAssumption
    <3> QED
      BY <3>1, <3>2, <3>3
  <2>2. Decimal(s) /\ Decimal(r) /\ s.x \in Int
    BY NumberIs
  <2>3. Step(Own(s)) /\ Leq(ExactEpsilon, Own(s))
    BY <2>2, OwnIs
  <2>4. tolerance = Larger(ExactEpsilon, Times(Own(s), 0))
    BY <1>1, <2>1 DEF ResolveScalarEqualityTolerance, Own
  <2>5. Moved(l, l, 0) /\ Moved(r, r, 0)
    BY <2>2 DEF Moved, Decimal
  <2>6. Moved(Distance(l, r), Distance(l, r), 0) /\ Decimal(Distance(l, r))
    BY <2>2, <2>5, MovedDistance
  <2>7. Leq(Distance(l, r), Larger(ExactEpsilon, Times(tolerance, -0)))
          <=> Leq(Distance(l, r), tolerance)
    BY <2>3, <2>4, <2>6, ToleranceAligns
  <2>8. AlignScalarToleranceToComparisonUnit(tolerance, s, r)
          = Larger(ExactEpsilon, Times(tolerance, -0))
    BY <1>3, <2>1 DEF AlignScalarToleranceToComparisonUnit
  <2> QED
    BY <1>1, <2>7, <2>8 DEF Within
<1> QED
  BY <1>2, <1>3

LEMMA CanonIs ==
  ASSUME NEW s \in Number, Known(s.unit)
  PROVE  /\ Decimal(Canon(s)) /\ Moved(s, Canon(s), Scale[s.unit].x)
         /\ Canon(s).n = s.n /\ Canon(s).x = s.x + Scale[s.unit].x
<1>1. s.n \in Int /\ s.x \in Int /\ Scale[s.unit].x \in Int
  BY NumberIs, UnitIs
<1> QED
  BY <1>1 DEF Canon, Decimal, Moved

\* A reading compared to a number of the spec, both with known units: by what
\* they stand for, whatever units they are written in.
LEMMA ComparedInCanonical ==
  ASSUME NEW op \in Comparators, NEW res, NEW rhs, NEW p \in Number, NEW r \in Number,
         ParseScalarToken(res) = p, ParseScalarToken(rhs) = r, Known(r.unit),
         NEW s \in Number, s = Adopt(p, r), Known(s.unit)
  PROVE  Compare(op, res, rhs) =
           IF CanonicalUnit(s) # CanonicalUnit(r) THEN "INDETERMINATE"
           ELSE AsVerdict(Says(op, Canon(s), Canon(r), ResolveScalarEqualityTolerance(r)))
<1>1. p # None /\ r # None
  BY NumberIs
<1>2. PICK pair : pair = NormalizeScalarPairForCompare(p, r)
  OBVIOUS
<1>3. Compare(op, res, rhs) = IF pair = None THEN "INDETERMINATE"
                              ELSE AsVerdict(Matched(op, pair[1], pair[2], r))
  BY <1>1, <1>2 DEF Compare
<1>4. CASE CanonicalUnit(s) # CanonicalUnit(r)
  BY <1>2, <1>3, <1>4, PairIs
<1>5. CASE CanonicalUnit(s) = CanonicalUnit(r)
  <2>1. PICK l, b : pair = <<l, b>> /\ pair # None
                    /\ IF s.unit = r.unit THEN l = s /\ b = r
                       ELSE l = NormalizeScalarToCanonical(s) /\ b = NormalizeScalarToCanonical(r)
    BY <1>2, <1>5, PairIs
  <2>2. Decimal(Canon(s)) /\ Decimal(Canon(r)) /\ Decimal(s) /\ Decimal(r)
    BY CanonIs, NumberIs
  <2>3. Matched(op, l, b, r)
          <=> Says(op, Canon(s), Canon(r), ResolveScalarEqualityTolerance(r))
    <3>1. CASE s.unit = r.unit
      <4>1. PICK k : k = Scale[r.unit].x
        OBVIOUS
      <4>2. k \in Int /\ Moved(l, Canon(s), k) /\ Moved(b, Canon(r), k)
        BY <2>1, <3>1, <4>1, CanonIs, UnitIs
      <4>3. Within(l, b, r)
              <=> Leq(Distance(Canon(s), Canon(r)), ResolveScalarEqualityTolerance(r))
        BY <2>1, <2>2, <3>1, <4>1, <4>2, WithinAlike
      <4> QED
        BY <2>1, <2>2, <3>1, <4>2, <4>3, MatchedAlike
    <3>2. CASE s.unit # r.unit
      <4>1. /\ l \in Number /\ b \in Number /\ b.unit = CanonicalUnit(r)
            /\ l.n = s.n /\ l.x = s.x + Scale[s.unit].x
            /\ b.n = r.n /\ b.x = r.x + Scale[r.unit].x
        BY <2>1, <3>2, CanonicalIs
      <4>2. Decimal(l) /\ Decimal(b)
        BY <4>1, NumberIs
      <4>3. Moved(l, Canon(s), 0) /\ Moved(b, Canon(r), 0)
        BY <4>1, <4>2, CanonIs DEF Moved, Decimal
      <4>4. Within(l, b, r) <=> Leq(Distance(l, b), ResolveScalarEqualityTolerance(r))
        BY <4>1, <4>2, WithinCanonical
      <4>5. Distance(l, b) = Distance(Canon(s), Canon(r))
        <5>1. /\ l.n = Canon(s).n /\ l.x = Canon(s).x
              /\ b.n = Canon(r).n /\ b.x = Canon(r).x
          BY <4>1, CanonIs
        <5> QED
          BY <5>1 DEF Distance, Scaled
      <4> QED
        BY <2>2, <4>2, <4>3, <4>4, <4>5, MatchedAlike
    <3> QED
      BY <3>1, <3>2
  <2>4. pair[1] = l /\ pair[2] = b
    BY <2>1
  <2> QED
    BY <1>3, <1>5, <2>1, <2>3, <2>4 DEF AsVerdict
<1> QED
  BY <1>4, <1>5

-----------------------------------------------------------------------------
(* What the recognisers find.                                              *)

LEMMA LexemeIs ==
  ASSUME NEW text \in Text, NEW i \in 1 .. Len(text)
  PROVE  text[i] \in Lexeme
BY ElementOfSeq DEF Text

LEMMA NumberLexeme ==
  ASSUME NEW e \in Lexeme
  PROVE  e.t = "num" <=> e \in Number
BY DEF Lexeme, Number

LEMMA ScalarIs ==
  ASSUME NEW text \in Text
  PROVE  /\ ParseScalarToken(text) \in Number \cup {None}
         /\ ParseScalarToken(text) # None =>
              /\ Len(text) = 1 /\ text[1] = ParseScalarToken(text) /\ text[1].t = "num"
         /\ Len(text) = 1 /\ text[1].t = "num" => ParseScalarToken(text) = text[1]
<1>1. CASE Len(text) = 1 /\ text[1].t = "num"
  <2>1. text[1] \in Number
    <3>1. 1 \in 1 .. Len(text)
      BY <1>1
    <3> QED
      BY <1>1, <3>1, LexemeIs, NumberLexeme
  <2> QED
    BY <1>1, <2>1 DEF ParseScalarToken
<1>2. CASE ~(Len(text) = 1 /\ text[1].t = "num")
  BY <1>2 DEF ParseScalarToken
<1> QED
  BY <1>1, <1>2

LEMMA OneNumber ==
  ASSUME NEW s \in Number
  PROVE  <<s>> \in Text /\ ParseScalarToken(<<s>>) = s
<1>1. s \in Lexeme /\ s.t = "num"
  BY NumberIs DEF Lexeme
<1>2. <<s>> \in Text
  BY <1>1 DEF Text
<1> QED
  BY <1>1, <1>2 DEF ParseScalarToken

LEMMA FirstIs ==
  ASSUME NEW S, S \subseteq Nat, S # {}
  PROVE  FirstOf(S) \in S /\ \A j \in S : FirstOf(S) <= j
<1>1. PICK m \in S : \A j \in S : ~(j < m)
  BY LeastNat
<1>2. ASSUME NEW j \in S PROVE m <= j
  <2>1. m \in Nat /\ j \in Nat /\ ~(j < m)
    BY <1>1
  <2> QED
    BY <2>1
<1>3. FirstOf(S) = CHOOSE i \in S : \A j \in S : i <= j
  BY DEF FirstOf
<1> QED
  BY <1>1, <1>2, <1>3

LEMMA LastIs ==
  ASSUME NEW n \in Nat, NEW S, S \subseteq 1 .. n, S # {}
  PROVE  LastOf(S) \in S /\ \A j \in S : j <= LastOf(S)
<1>1. PICK T : T = {n - j : j \in S}
  OBVIOUS
<1>2. T \subseteq Nat /\ T # {}
  <2>1. \A j \in S : n - j \in Nat
    OBVIOUS
  <2> QED
    BY <1>1, <2>1
<1>3. PICK m \in T : \A j \in T : ~(j < m)
  BY <1>2, LeastNat
<1>4. PICK i \in S : m = n - i
  BY <1>1, <1>3
<1>5. ASSUME NEW j \in S PROVE j <= i
  <2>1. n - j \in T
    BY <1>1
  <2>2. ~(n - j < n - i) /\ j \in 1 .. n /\ i \in 1 .. n
    BY <1>3, <1>4, <2>1
  <2> QED
    BY <2>2
<1>6. LastOf(S) = CHOOSE k \in S : \A j \in S : j <= k
  BY DEF LastOf
<1> QED
  BY <1>5, <1>6

LEMMA PlacesIn ==
  ASSUME NEW text \in Text, NEW lexeme
  PROVE  /\ Places(text, lexeme) \subseteq 1 .. Len(text) /\ Places(text, lexeme) \subseteq Nat
         /\ Len(text) \in Nat
<1>1. DOMAIN text = 1 .. Len(text) /\ Len(text) \in Nat
  BY LenProperties DEF Text
<1> QED
  BY <1>1 DEF Places

LEMMA PartIs ==
  ASSUME NEW text \in Text, NEW m \in Nat \ {0}, NEW n \in Nat, n <= Len(text)
  PROVE  SubSeq(text, m, n) \in Text
<1>1. Len(text) \in Nat
  BY LenProperties DEF Text
<1>2. \A i \in m .. n : text[i] \in Lexeme
  BY <1>1, LexemeIs
<1>3. SubSeq(text, m, n) \in Seq(Lexeme)
  BY <1>2, SubSeqProperties
<1> QED
  BY <1>3 DEF Text

LEMMA SplitIs ==
  ASSUME NEW text \in Text, NEW lexeme, SplitAt(text, lexeme) # None
  PROVE  \E i \in 1 .. Len(text) :
           /\ i = FirstOf(Places(text, lexeme)) /\ 1 < i /\ i < Len(text)
           /\ SplitAt(text, lexeme) = [low |-> SubSeq(text, 1, i - 1),
                                       high |-> SubSeq(text, i + 1, Len(text))]
           /\ SubSeq(text, 1, i - 1) \in Text /\ SubSeq(text, i + 1, Len(text)) \in Text
<1>1. Places(text, lexeme) # {}
  BY DEF SplitAt
<1>2. PICK i : i = FirstOf(Places(text, lexeme))
  OBVIOUS
<1>3. i \in 1 .. Len(text) /\ Len(text) \in Nat
  BY <1>1, <1>2, PlacesIn, FirstIs
<1>4. i # 1 /\ i # Len(text)
  BY <1>1, <1>2 DEF SplitAt
<1>7. 1 < i /\ i < Len(text)
  BY <1>3, <1>4
<1>5. SplitAt(text, lexeme) = [low |-> SubSeq(text, 1, i - 1),
                               high |-> SubSeq(text, i + 1, Len(text))]
  BY <1>1, <1>2 DEF SplitAt
<1>6. SubSeq(text, 1, i - 1) \in Text /\ SubSeq(text, i + 1, Len(text)) \in Text
  <2>1. PICK a, b, n : a = i - 1 /\ b = i + 1 /\ n = Len(text)
    OBVIOUS
  <2>2. a \in Nat /\ b \in Nat \ {0} /\ a <= n /\ n \in Nat /\ 1 \in Nat \ {0}
    BY <1>3, <2>1
  <2>3. SubSeq(text, 1, a) \in Text /\ SubSeq(text, b, n) \in Text
    BY <2>1, <2>2, PartIs
  <2> QED
    BY <2>1, <2>3
<1> QED
  BY <1>2, <1>3, <1>5, <1>6, <1>7

LEMMA ComparatorIs ==
  ASSUME NEW req \in Text, ParseComparatorSpec(req) # None
  PROVE  /\ Len(req) > 1 /\ req[1].t = "op"
         /\ ParseComparatorSpec(req) \in [op : Comparators, rhs : Text]
         /\ ParseComparatorSpec(req).op = req[1].v /\ ParseComparatorSpec(req).rhs = Tail(req)
<1>1. Len(req) > 1 /\ Head(req).t = "op"
  BY DEF ParseComparatorSpec
<1>2. req \in Seq(Lexeme) /\ req # <<>>
  BY <1>1 DEF Text
<1>3. Head(req) = req[1] /\ Head(req) \in Lexeme /\ Tail(req) \in Seq(Lexeme)
  BY <1>2, HeadTailProperties
<1>4. req[1].v \in Comparators
  BY <1>1, <1>3 DEF Lexeme, Number
<1>5. ParseComparatorSpec(req) = [op |-> req[1].v, rhs |-> Tail(req)]
  BY <1>1, <1>3 DEF ParseComparatorSpec
<1> QED
  BY <1>1, <1>3, <1>4, <1>5 DEF Text

\* A text with or without the unit behind its bracket.
LEMMA SuffixIs ==
  ASSUME NEW text \in Text, NEW unit \in Text,
         Len(unit) <= 1, unit # <<>> => unit[1].t = "word"
  PROVE  /\ ApplyTrailingUnitSuffix(text, unit) \in Text
         /\ unit = <<>> => ApplyTrailingUnitSuffix(text, unit) = text
         /\ unit # <<>> =>
              /\ unit[1].v \in STRING \ {NoUnit}
              /\ \/ /\ ParseScalarToken(text) # None /\ ParseScalarToken(text).unit = NoUnit
                    /\ ApplyTrailingUnitSuffix(text, unit)
                         = <<[ParseScalarToken(text) EXCEPT !.unit = unit[1].v]>>
                 \/ /\ ParseScalarToken(text) # None => ParseScalarToken(text).unit # NoUnit
                    /\ ApplyTrailingUnitSuffix(text, unit) = text
<1>1. CASE unit = <<>>
  BY <1>1 DEF ApplyTrailingUnitSuffix
<1>2. CASE unit # <<>>
  <2>1. PICK w : w = unit[1].v
    OBVIOUS
  <2>2. w \in STRING \ {NoUnit}
    <3>1. Len(unit) \in Nat /\ Len(unit) # 0
      BY <1>2, LenProperties, EmptySeq DEF Text
    <3>2. unit[1] \in Lexeme /\ unit[1].t = "word"
      BY <1>2, <3>1, LexemeIs
    <3> QED
      BY <2>1, <3>2 DEF Lexeme, Number
  <2>3. PICK s : s = ParseScalarToken(text)
    OBVIOUS
  <2>4. CASE s # None /\ s.unit = NoUnit
    <3>1. s \in Number
      BY <2>3, <2>4, ScalarIs
    <3>2. PICK g : g = [s EXCEPT !.unit = w]
      OBVIOUS
    <3>3. g \in Number
      BY <2>2, <3>1, <3>2, NumberIs
    <3>4. ApplyTrailingUnitSuffix(text, unit) = <<g>>
      BY <1>2, <2>1, <2>3, <2>4, <3>2 DEF ApplyTrailingUnitSuffix
    <3>5. <<g>> \in Text
      BY <3>3, OneNumber
    <3> QED
      BY <1>2, <2>1, <2>2, <2>3, <2>4, <3>2, <3>4, <3>5
  <2>5. CASE ~(s # None /\ s.unit = NoUnit)
    <3>1. ApplyTrailingUnitSuffix(text, unit) = text
      BY <2>3, <2>5 DEF ApplyTrailingUnitSuffix
    <3> QED
      BY <1>2, <2>1, <2>2, <2>3, <2>5, <3>1
  <2> QED
    BY <2>4, <2>5
<1> QED
  BY <1>1, <1>2

\* What is between brackets, and behind them.
Closes(req) == {i \in DOMAIN req : req[i] \in Closing}
Inner(req) == SubSeq(req, 2, LastOf(Closes(req)) - 1)
Behind(req) == SubSeq(req, LastOf(Closes(req)) + 1, Len(req))
Separator(inner) == IF Places(inner, Mark(",")) # {} THEN Mark(",") ELSE Mark(" - ")
Parts(req) == SplitAt(Inner(req), Separator(Inner(req)))

\* The conditions under which the code reads a bracketed range.
Bracketed(req) ==
  /\ req[1] \in Opening /\ Closes(req) # {}
  /\ Len(Behind(req)) <= 1 /\ (Behind(req) # <<>> => Behind(req)[1].t = "word")
  /\ Parts(req) # None

LEMMA BehindIs ==
  ASSUME NEW req \in Text, Closes(req) # {}
  PROVE  /\ LastOf(Closes(req)) \in 1 .. Len(req) /\ Len(req) \in Nat
         /\ req[LastOf(Closes(req))] \in Closing
         /\ Inner(req) \in Text /\ Behind(req) \in Text
<1>1. DOMAIN req = 1 .. Len(req) /\ Len(req) \in Nat
  BY LenProperties DEF Text
<1>2. Closes(req) \subseteq 1 .. Len(req)
  BY <1>1 DEF Closes
<1>3. PICK c : c = LastOf(Closes(req))
  OBVIOUS
<1>4. c \in Closes(req)
  BY <1>1, <1>2, <1>3, LastIs
<1>5. c \in 1 .. Len(req) /\ req[c] \in Closing
  BY <1>2, <1>4 DEF Closes
<1>6. c - 1 \in Nat /\ c - 1 <= Len(req) /\ c + 1 \in Nat \ {0}
  BY <1>1, <1>5
<1>7. Inner(req) \in Text /\ Behind(req) \in Text
  BY <1>1, <1>3, <1>6, PartIs DEF Inner, Behind
<1> QED
  BY <1>1, <1>3, <1>5, <1>7

LEMMA BracketIs ==
  ASSUME NEW req \in Text
  PROVE  ParseBracketRangeSpec(req) =
           IF ~Bracketed(req) THEN None
           ELSE [low |-> ApplyTrailingUnitSuffix(Parts(req).low, Behind(req)),
                 high |-> ApplyTrailingUnitSuffix(Parts(req).high, Behind(req)),
                 over |-> IF req[1].v = "[" THEN ">=" ELSE ">",
                 under |-> IF req[LastOf(Closes(req))].v = "]" THEN "<=" ELSE "<"]
<1>1. PICK closes, close : closes = Closes(req) /\ close = LastOf(closes)
  OBVIOUS
<1>2. closes = {i \in DOMAIN req : req[i] \in Closing}
  BY <1>1 DEF Closes
<1>3. /\ Behind(req) = SubSeq(req, close + 1, Len(req))
      /\ Inner(req) = SubSeq(req, 2, close - 1)
  BY <1>1 DEF Behind, Inner
<1>4. closes # {} => Len(Behind(req)) \in Nat
  BY <1>1, BehindIs, LenProperties DEF Text
<1>5. closes # {} => (Len(Behind(req)) > 1 <=> ~(Len(Behind(req)) <= 1))
  BY <1>4
<1> QED
  BY <1>1, <1>2, <1>3, <1>5 DEF ParseBracketRangeSpec, Bracketed, Parts, Separator

LEMMA BracketType ==
  ASSUME NEW req \in Text, ParseBracketRangeSpec(req) # None
  PROVE  /\ Bracketed(req)
         /\ Parts(req).low \in Text /\ Parts(req).high \in Text
         /\ Behind(req) \in Text
         /\ ParseBracketRangeSpec(req)
              \in [low : Text, high : Text, over : {">=", ">"}, under : {"<=", "<"}]
<1>1. Bracketed(req)
  BY BracketIs
<1>2. Inner(req) \in Text /\ Behind(req) \in Text
  BY <1>1, BehindIs DEF Bracketed
<1>3. Parts(req).low \in Text /\ Parts(req).high \in Text
  <2>1. PICK inner, separator : inner = Inner(req) /\ separator = Separator(inner)
    OBVIOUS
  <2>2. Parts(req) = SplitAt(inner, separator) /\ Parts(req) # None
    BY <1>1, <2>1 DEF Bracketed, Parts
  <2>3. PICK i : /\ SplitAt(inner, separator) = [low |-> SubSeq(inner, 1, i - 1),
                                                high |-> SubSeq(inner, i + 1, Len(inner))]
                 /\ SubSeq(inner, 1, i - 1) \in Text
                 /\ SubSeq(inner, i + 1, Len(inner)) \in Text
    BY <1>2, <2>1, <2>2, SplitIs
  <2> QED
    BY <2>2, <2>3
<1>4. /\ ApplyTrailingUnitSuffix(Parts(req).low, Behind(req)) \in Text
      /\ ApplyTrailingUnitSuffix(Parts(req).high, Behind(req)) \in Text
  BY <1>1, <1>2, <1>3, SuffixIs DEF Bracketed
<1> QED
  BY <1>1, <1>2, <1>3, <1>4, BracketIs

-----------------------------------------------------------------------------
(* A result that is stored.                                                *)

LEMMA BlankIs ==
  /\ <<>> \in Text /\ ParseScalarToken(<<>>) = None
  /\ \A req : NormalizeResultToSpecUnit(req, <<>>) = <<>>
<1>1. <<>> \in Text /\ ParseScalarToken(<<>>) = None
  BY EmptySeq DEF Text, ParseScalarToken
<1> QED
  BY <1>1 DEF NormalizeResultToSpecUnit

\* The number q is the reading p, taken in the unit of the spec where it has
\* none, written in the unit of the spec.
Rewrites(p, s, q, unit) ==
  /\ p \in Number /\ s \in Number /\ q \in Number
  /\ s = IF p.unit = NoUnit THEN [p EXCEPT !.unit = unit] ELSE p
  /\ Known(unit) /\ Known(s.unit) /\ Scale[s.unit].canonical = Scale[unit].canonical
  /\ q = InUnit(s, unit)

LEMMA RewrittenIs ==
  ASSUME NEW s \in Number, Known(s.unit), NEW unit, Known(unit),
         NEW q, q = InUnit(s, unit)
  PROVE  /\ q \in Number /\ q.unit = unit /\ q.n = s.n
         /\ q.x = s.x + Scale[s.unit].x - Scale[unit].x /\ q.precise = (q.x < 0)
         /\ Canon(q) = Canon(s)
<1>1. PICK x : x = s.x + Scale[s.unit].x - Scale[unit].x
  OBVIOUS
<1>2. /\ unit \in STRING /\ s.n \in Int /\ s.x \in Int /\ Scale[s.unit].x \in Int
      /\ Scale[unit].x \in Int
  BY NumberIs, UnitIs
<1>3. x \in Int
  BY <1>1, <1>2
<1>4. NormalizeScalarToCanonical(s).x - Scale[unit].x = x
  BY <1>1, <1>2, CanonicalIs
<1>5. q = [t |-> "num", n |-> s.n, x |-> x, precise |-> x < 0, unit |-> unit]
  BY <1>4 DEF InUnit, Num
<1>6. q \in Number /\ q.unit = unit /\ q.n = s.n /\ q.x = x /\ q.precise = (q.x < 0)
  BY <1>2, <1>3, <1>5 DEF Number
<1>7. q.x + Scale[q.unit].x = s.x + Scale[s.unit].x
  BY <1>1, <1>2, <1>6
<1> QED
  BY <1>1, <1>6, <1>7 DEF Canon

\* A result is stored as it is, or rewritten in the unit of the spec.
LEMMA NormalizedIs ==
  ASSUME NEW req, NEW res \in Text, NEW unit, unit = ResolveSpecScalarUnit(req)
  PROVE  \/ /\ NormalizeResultToSpecUnit(req, res) = res
            /\ ParseScalarToken(res) # None /\ unit # NoUnit =>
                 LET p == ParseScalarToken(res)
                 IN p.unit # NoUnit =>
                      ~(Known(unit) /\ Known(p.unit)
                        /\ Scale[p.unit].canonical = Scale[unit].canonical)
         \/ \E p, s, q : /\ p = ParseScalarToken(res) /\ Rewrites(p, s, q, unit)
                         /\ unit # NoUnit /\ p # None /\ q \in Number
                         /\ NormalizeResultToSpecUnit(req, res) = <<q>>
<1>1. PICK p : p = ParseScalarToken(res) /\ p \in Number \cup {None}
  BY ScalarIs
<1>2. PICK s : s = IF p # None /\ p.unit = NoUnit THEN [p EXCEPT !.unit = unit] ELSE p
  OBVIOUS
<1>3. NormalizeResultToSpecUnit(req, res) =
        IF unit = NoUnit \/ s = None THEN res
        ELSE IF ~Known(s.unit) \/ ~Known(unit) THEN res
        ELSE IF Scale[s.unit].canonical # Scale[unit].canonical THEN res
        ELSE <<InUnit(s, unit)>>
  BY <1>1, <1>2 DEF NormalizeResultToSpecUnit
<1>4. CASE /\ unit # NoUnit /\ s # None /\ Known(s.unit) /\ Known(unit)
           /\ Scale[s.unit].canonical = Scale[unit].canonical
  <2>1. unit \in STRING
    BY <1>4, UnitIs
  <2>2. p # None /\ p \in Number
    BY <1>1, <1>2, <1>4
  <2>3. s \in Number /\ s = IF p.unit = NoUnit THEN [p EXCEPT !.unit = unit] ELSE p
    BY <1>2, <2>1, <2>2, NumberIs
  <2>4. PICK q : q = InUnit(s, unit)
    OBVIOUS
  <2>5. q \in Number
    BY <1>4, <2>3, <2>4, RewrittenIs
  <2>6. Rewrites(p, s, q, unit)
    BY <1>4, <2>2, <2>3, <2>4, <2>5 DEF Rewrites
  <2> QED
    BY <1>1, <1>3, <1>4, <2>2, <2>4, <2>5, <2>6
<1>5. CASE ~(/\ unit # NoUnit /\ s # None /\ Known(s.unit) /\ Known(unit)
             /\ Scale[s.unit].canonical = Scale[unit].canonical)
  <2>1. NormalizeResultToSpecUnit(req, res) = res
    BY <1>3, <1>5
  <2>2. p # None /\ p.unit # NoUnit => s = p
    BY <1>2
  <2> QED
    BY <1>1, <1>5, <2>1, <2>2
<1> QED
  BY <1>4, <1>5

\* Storing what is stored changes nothing.
LEMMA NormalizeTwice ==
  ASSUME NEW req, NEW res \in Text
  PROVE  /\ NormalizeResultToSpecUnit(req, res) \in Text
         /\ NormalizeResultToSpecUnit(req, NormalizeResultToSpecUnit(req, res))
              = NormalizeResultToSpecUnit(req, res)
<1>1. PICK unit : unit = ResolveSpecScalarUnit(req)
  OBVIOUS
<1>2. CASE NormalizeResultToSpecUnit(req, res) = res
  BY <1>2
<1>3. CASE \E p, s, q : /\ p = ParseScalarToken(res) /\ Rewrites(p, s, q, unit)
                        /\ unit # NoUnit /\ p # None /\ q \in Number
                        /\ NormalizeResultToSpecUnit(req, res) = <<q>>
  <2>1. PICK p, s, q : /\ p = ParseScalarToken(res) /\ Rewrites(p, s, q, unit)
                       /\ unit # NoUnit /\ NormalizeResultToSpecUnit(req, res) = <<q>>
    BY <1>3
  <2>2. s \in Number /\ Known(s.unit) /\ Known(unit) /\ q = InUnit(s, unit)
    BY <2>1 DEF Rewrites
  <2>3. /\ q \in Number /\ q.unit = unit /\ q.n = s.n /\ q.precise = (q.x < 0)
        /\ q.x = s.x + Scale[s.unit].x - Scale[unit].x
    BY <2>2, RewrittenIs
  <2>4. <<q>> \in Text /\ ParseScalarToken(<<q>>) = q
    BY <2>3, OneNumber
  <2>5. q.x \in Int /\ q # None
    BY <2>3, NumberIs
  <2>6. NormalizeResultToSpecUnit(req, <<q>>) = <<InUnit(q, unit)>>
    BY <1>1, <2>1, <2>2, <2>3, <2>4, <2>5 DEF NormalizeResultToSpecUnit
  <2>7. InUnit(q, unit) = q
    <3>1. PICK again : again = InUnit(q, unit)
      OBVIOUS
    <3>2. /\ again \in Number /\ again.unit = unit /\ again.n = q.n
          /\ again.precise = (again.x < 0)
          /\ again.x = q.x + Scale[unit].x - Scale[unit].x
      BY <2>2, <2>3, <3>1, RewrittenIs
    <3>3. Scale[unit].x \in Int
      BY <2>2, UnitIs
    <3>4. again.x = q.x
      BY <2>5, <3>2, <3>3
    <3>5. again.t = q.t /\ again.n = q.n /\ again.precise = q.precise /\ again.unit = q.unit
      BY <2>3, <3>2, <3>4, NumberIs
    <3> QED
      BY <2>3, <3>1, <3>2, <3>4, <3>5 DEF Number
  <2> QED
    BY <2>1, <2>4, <2>6, <2>7
<1> QED
  BY <1>1, <1>2, <1>3, NormalizedIs

-----------------------------------------------------------------------------
(* Evaluating what was typed and what was stored.                          *)

\* Compared to a number of the spec the rewritten reading is the reading.
LEMMA ComparesAlike ==
  ASSUME NEW op \in Comparators, NEW res, NEW rhs, NEW p, NEW s, NEW q, NEW unit,
         Rewrites(p, s, q, unit), ParseScalarToken(res) = p,
         NEW r \in Number, ParseScalarToken(rhs) = r, Known(r.unit),
         p.unit = NoUnit => r.unit = unit
  PROVE  Compare(op, <<q>>, rhs) = Compare(op, res, rhs)
<1>1. /\ p \in Number /\ s \in Number /\ q \in Number /\ Known(s.unit) /\ Known(unit)
      /\ Scale[s.unit].canonical = Scale[unit].canonical /\ q = InUnit(s, unit)
  BY DEF Rewrites
<1>2. q.unit = unit /\ Canon(q) = Canon(s)
  BY <1>1, RewrittenIs
<1>3. s = Adopt(p, r)
  BY DEF Adopt, Rewrites
<1>4. unit # NoUnit
  BY <1>1, UnitIs
<1>5. q = Adopt(q, r)
  BY <1>2, <1>4 DEF Adopt
<1>6. ParseScalarToken(<<q>>) = q
  BY <1>1, OneNumber
<1>7. CanonicalUnit(q) = CanonicalUnit(s)
  BY <1>1, <1>2 DEF CanonicalUnit
<1>8. Compare(op, res, rhs) =
        IF CanonicalUnit(s) # CanonicalUnit(r) THEN "INDETERMINATE"
        ELSE AsVerdict(Says(op, Canon(s), Canon(r), ResolveScalarEqualityTolerance(r)))
  BY <1>1, <1>3, ComparedInCanonical
<1>9. Known(q.unit)
  BY <1>1, <1>2
<1>10. Compare(op, <<q>>, rhs) =
         IF CanonicalUnit(q) # CanonicalUnit(r) THEN "INDETERMINATE"
         ELSE AsVerdict(Says(op, Canon(q), Canon(r), ResolveScalarEqualityTolerance(r)))
  BY <1>1, <1>5, <1>6, <1>9, ComparedInCanonical
<1> QED
  BY <1>2, <1>7, <1>8, <1>10

\* So compared to a number of a spec whose units are given.
LEMMA GivenCompares ==
  ASSUME NEW req, NEW res, UnitsGiven(req, res),
         NEW p, NEW s, NEW q, NEW unit, Rewrites(p, s, q, unit), p # None,
         ParseScalarToken(res) = p,
         unit \in {b.unit : b \in Bounds(req)}, IsFiniteSet({b.unit : b \in Bounds(req)}),
         NEW op \in Comparators, NEW rhs \in Text, ParseScalarToken(rhs) \in Bounds(req)
  PROVE  Compare(op, <<q>>, rhs) = Compare(op, res, rhs)
<1>1. PICK r : r = ParseScalarToken(rhs) /\ r \in Bounds(req)
  OBVIOUS
<1>2. r # None /\ Known(r.unit)
  BY <1>1 DEF UnitsGiven
<1>3. r \in Number
  BY <1>1, <1>2, ScalarIs
<1>4. ASSUME p.unit = NoUnit PROVE r.unit = unit
  <2>1. PICK units : units = {b.unit : b \in Bounds(req)}
    OBVIOUS
  <2>2. UnitOf(res) = NoUnit
    BY <1>4 DEF UnitOf
  <2>3. Cardinality(units) = 1
    BY <2>1, <2>2 DEF UnitsGiven
  <2>4. IsFiniteSet(units)
    BY <2>1
  <2>5. PICK u : units = {u}
    BY <2>3, <2>4, FS_Singleton
  <2>6. r.unit \in units /\ unit \in units
    BY <1>1, <2>1
  <2> QED
    BY <2>5, <2>6
<1> QED
  BY <1>1, <1>2, <1>3, <1>4, ComparesAlike

LEMMA BoundUnits ==
  ASSUME NEW req
  PROVE  IsFiniteSet({b.unit : b \in Bounds(req)})
<1>1. PICK x, y, z, parts :
         /\ parts = {x} \/ parts = {y, z}
         /\ Bounds(req) = {ParseScalarToken(part) : part \in parts}
  BY DEF Bounds
<1>2. PICK units : units = {s.unit : s \in Bounds(req)}
  OBVIOUS
<1>3. CASE parts = {x}
  <2>1. PICK d : d = ParseScalarToken(x).unit
    OBVIOUS
  <2>2. units = {d}
    BY <1>1, <1>2, <1>3, <2>1
  <2> QED
    BY <1>2, <2>2, FS_Singleton
<1>4. CASE parts = {y, z}
  <2>1. PICK d, e : d = ParseScalarToken(y).unit /\ e = ParseScalarToken(z).unit
    OBVIOUS
  <2>2. PICK D, E : D = {d} /\ E = {e}
    OBVIOUS
  <2>3. IsFiniteSet(D) /\ IsFiniteSet(E)
    BY <2>2, FS_Singleton
  <2>4. IsFiniteSet(D \cup E)
    BY <2>3, FS_Union
  <2>5. units = D \cup E
    BY <1>1, <1>2, <1>4, <2>1, <2>2
  <2> QED
    BY <1>2, <2>4, <2>5
<1> QED
  BY <1>1, <1>3, <1>4

\* The two bounds of a range.
Range2(req) ==
  IF ParseDotDotRangeSpec(req) # None THEN ParseDotDotRangeSpec(req)
  ELSE ParseBracketRangeSpec(req)

LEMMA RangeIs ==
  ASSUME NEW req \in Text, Range2(req) # None
  PROVE  Range2(req).low \in Text /\ Range2(req).high \in Text
<1>1. CASE ParseDotDotRangeSpec(req) # None
  <2>1. PICK i : /\ SplitAt(req, Dots) = [low |-> SubSeq(req, 1, i - 1),
                                          high |-> SubSeq(req, i + 1, Len(req))]
                 /\ SubSeq(req, 1, i - 1) \in Text /\ SubSeq(req, i + 1, Len(req)) \in Text
    BY <1>1, SplitIs DEF ParseDotDotRangeSpec
  <2> QED
    BY <1>1, <2>1 DEF Range2, ParseDotDotRangeSpec
<1>2. CASE ParseDotDotRangeSpec(req) = None
  BY <1>2, BracketType DEF Range2
<1> QED
  BY <1>1, <1>2

LEMMA BoundsAre ==
  ASSUME NEW req
  PROVE  /\ ParseComparatorSpec(req) # None =>
              Bounds(req) = {ParseScalarToken(ParseComparatorSpec(req).rhs)}
         /\ ParseComparatorSpec(req) = None /\ Range2(req) # None =>
              Bounds(req) = {ParseScalarToken(Range2(req).low),
                             ParseScalarToken(Range2(req).high)}
         /\ ParseComparatorSpec(req) = None /\ Range2(req) = None =>
              Bounds(req) = {ParseScalarToken(req)}
BY DEF Bounds, Range2

LEMMA SpecUnitIs ==
  ASSUME NEW req, req # <<>>, NEW res, UnitsGiven(req, res)
  PROVE  ResolveSpecScalarUnit(req) \in {b.unit : b \in Bounds(req)}
<1>1. \A b \in Bounds(req) : b # None /\ Known(b.unit) /\ b.unit # NoUnit
  BY UnitIs DEF UnitsGiven
<1>2. CASE ParseComparatorSpec(req) # None
  <2>1. ParseScalarToken(ParseComparatorSpec(req).rhs) \in Bounds(req)
    BY <1>2, BoundsAre
  <2>2. ResolveSpecScalarUnit(req) = ParseScalarToken(ParseComparatorSpec(req).rhs).unit
    BY <1>1, <1>2, <2>1 DEF ResolveSpecScalarUnit, UnitOf
  <2> QED
    BY <2>1, <2>2
<1>3. CASE ParseComparatorSpec(req) = None /\ Range2(req) # None
  <2>1. ParseScalarToken(Range2(req).low) \in Bounds(req)
    BY <1>3, BoundsAre
  <2>2. ResolveSpecScalarUnit(req) = SelectSpecUnit(Range2(req))
    BY <1>3 DEF ResolveSpecScalarUnit, Range2
  <2>3. SelectSpecUnit(Range2(req)) = ParseScalarToken(Range2(req).low).unit
    BY <1>1, <2>1 DEF SelectSpecUnit, UnitOf
  <2> QED
    BY <2>1, <2>2, <2>3
<1>4. CASE ParseComparatorSpec(req) = None /\ Range2(req) = None
  <2>1. ParseScalarToken(req) \in Bounds(req)
    BY <1>4, BoundsAre
  <2>2. ResolveSpecScalarUnit(req) = ParseScalarToken(req).unit
    BY <1>1, <1>4, <2>1 DEF ResolveSpecScalarUnit, Range2, UnitOf
  <2> QED
    BY <2>1, <2>2
<1> QED
  BY <1>2, <1>3, <1>4

\* The verdict of the result as it is stored is the verdict of the result as it
\* was typed.
LEMMA StorageKeeps ==
  ASSUME NEW req \in Text, NEW res \in Text, UnitsGiven(req, res)
  PROVE  EvaluateSpecResultVerify(req, NormalizeResultToSpecUnit(req, res))
           = EvaluateSpecResultVerify(req, res)
<1>1. PICK unit : unit = ResolveSpecScalarUnit(req)
  OBVIOUS
<1>2. CASE NormalizeResultToSpecUnit(req, res) = res
  BY <1>2
<1>3. CASE \E p, s, q : /\ p = ParseScalarToken(res) /\ Rewrites(p, s, q, unit)
                        /\ unit # NoUnit /\ p # None /\ q \in Number
                        /\ NormalizeResultToSpecUnit(req, res) = <<q>>
  <2>1. PICK p, s, q : /\ p = ParseScalarToken(res) /\ Rewrites(p, s, q, unit)
                       /\ p # None /\ NormalizeResultToSpecUnit(req, res) = <<q>>
    BY <1>3
  <2>2. req # <<>> /\ \A b \in Bounds(req) : b # None
    BY DEF UnitsGiven
  <2>3. unit \in {b.unit : b \in Bounds(req)}
    BY <1>1, <2>2, SpecUnitIs
  <2>4. IsFiniteSet({b.unit : b \in Bounds(req)})
    BY BoundUnits
  <2>5. ASSUME NEW op \in Comparators, NEW rhs \in Text, ParseScalarToken(rhs) \in Bounds(req)
        PROVE  Compare(op, <<q>>, rhs) = Compare(op, res, rhs)
    BY <2>1, <2>3, <2>4, <2>5, GivenCompares
  <2>6. res # <<>> /\ <<q>> # <<>>
    BY <2>1, BlankIs
  <2>7. CASE ParseComparatorSpec(req) # None
    <3>1. PICK op, rhs : op = ParseComparatorSpec(req).op /\ rhs = ParseComparatorSpec(req).rhs
      OBVIOUS
    <3>2. op \in Comparators /\ rhs \in Text /\ ParseScalarToken(rhs) \in Bounds(req)
      BY <2>7, <3>1, ComparatorIs, BoundsAre
    <3>3. Compare(op, <<q>>, rhs) = Compare(op, res, rhs)
      BY <2>5, <3>2
    <3> QED
      BY <2>1, <2>2, <2>6, <2>7, <3>1, <3>3 DEF EvaluateSpecResultVerify
  <2>8. CASE ParseComparatorSpec(req) = None /\ Range2(req) # None
    <3>1. PICK low, high : low = Range2(req).low /\ high = Range2(req).high
      OBVIOUS
    <3>2. /\ low \in Text /\ high \in Text
          /\ ParseScalarToken(low) \in Bounds(req) /\ ParseScalarToken(high) \in Bounds(req)
      BY <2>8, <3>1, RangeIs, BoundsAre
    <3>3. ASSUME NEW over \in Comparators, NEW under \in Comparators
          PROVE  Inside(<<q>>, low, high, over, under) = Inside(res, low, high, over, under)
      <4>1. /\ Compare(over, <<q>>, low) = Compare(over, res, low)
            /\ Compare(under, <<q>>, high) = Compare(under, res, high)
        BY <2>5, <3>2
      <4> QED
        BY <4>1 DEF Inside
    <3>4. CASE ParseDotDotRangeSpec(req) # None
      <4>1. Inside(<<q>>, low, high, ">=", "<=") = Inside(res, low, high, ">=", "<=")
        BY <3>3 DEF Comparators
      <4>2. low = ParseDotDotRangeSpec(req).low /\ high = ParseDotDotRangeSpec(req).high
        BY <3>1, <3>4 DEF Range2
      <4> QED
        BY <2>1, <2>2, <2>6, <2>8, <3>4, <4>1, <4>2 DEF EvaluateSpecResultVerify
    <3>5. CASE ParseDotDotRangeSpec(req) = None
      <4>1. PICK bracket : bracket = ParseBracketRangeSpec(req)
        OBVIOUS
      <4>2. bracket = Range2(req) /\ bracket # None
        BY <2>8, <3>5, <4>1 DEF Range2
      <4>3. bracket.over \in Comparators /\ bracket.under \in Comparators
        BY <4>1, <4>2, BracketType DEF Comparators
      <4>4. Inside(<<q>>, low, high, bracket.over, bracket.under)
              = Inside(res, low, high, bracket.over, bracket.under)
        BY <3>3, <4>3
      <4> QED
        BY <2>1, <2>2, <2>6, <2>8, <3>1, <3>5, <4>1, <4>2, <4>4 DEF EvaluateSpecResultVerify
    <3> QED
      BY <3>4, <3>5
  <2>9. CASE ParseComparatorSpec(req) = None /\ Range2(req) = None
    <3>1. ParseScalarToken(req) \in Bounds(req) /\ ParseScalarToken(req) # None
      BY <2>2, <2>9, BoundsAre
    <3>2. Compare("=", <<q>>, req) = Compare("=", res, req)
      BY <2>5, <3>1 DEF Comparators
    <3>3. ParseBooleanToken(req) = None
      <4>1. req[1].t # "word"
        BY <3>1, ScalarIs
      <4> QED
        BY <4>1 DEF ParseBooleanToken
    <3>4. ParseDotDotRangeSpec(req) = None /\ ParseBracketRangeSpec(req) = None
      BY <2>9 DEF Range2
    <3> QED
      BY <2>1, <2>2, <2>6, <2>9, <3>1, <3>2, <3>3, <3>4 DEF EvaluateSpecResultVerify
  <2> QED
    BY <2>7, <2>8, <2>9
<1> QED
  BY <1>1, <1>2, <1>3, NormalizedIs

-----------------------------------------------------------------------------
(* The row.                                                                *)

\* What is stored is the entry in the unit of the spec, and the verdict is its.
StoredInv ==
  /\ spec \in Specs /\ typed \in Results \cup {<<>>}
  /\ result = NormalizeResultToSpecUnit(spec, typed)
  /\ verdict = EvaluateSpecResultVerify(spec, result)

LEMMA EntryIs ==
  /\ Specs \subseteq Text
  /\ \A text \in Results \cup {<<>>} : text \in Text
BY TextAssumption, BlankIs

LEMMA StoredInit == Init => StoredInv
<1> SUFFICES ASSUME Init PROVE StoredInv
  OBVIOUS
<1>1. spec \in Specs /\ typed = <<>> /\ result = <<>> /\ verdict = "INDETERMINATE"
  BY DEF Init
<1>2. result = NormalizeResultToSpecUnit(spec, typed)
  BY <1>1, BlankIs
<1>3. verdict = EvaluateSpecResultVerify(spec, result)
  BY <1>1 DEF EvaluateSpecResultVerify
<1> QED
  BY <1>1, <1>2, <1>3 DEF StoredInv

LEMMA StoredNext == StoredInv /\ [Next]_vars => StoredInv'
<1> SUFFICES ASSUME StoredInv, [Next]_vars PROVE StoredInv'
  OBVIOUS
<1>1. ASSUME NEW text \in Results, Enter(text) PROVE StoredInv'
  BY <1>1 DEF StoredInv, Enter
<1>2. CASE Upsert
  <2>1. /\ spec' = spec /\ typed' = typed /\ verdict' = verdict
        /\ result' = NormalizeResultToSpecUnit(spec, result)
    BY <1>2 DEF Upsert
  <2>2. typed \in Text
    BY EntryIs DEF StoredInv
  <2>3. result' = result
    BY <2>1, <2>2, NormalizeTwice DEF StoredInv
  <2> QED
    BY <2>1, <2>3 DEF StoredInv
<1>3. CASE UNCHANGED vars
  BY <1>3 DEF StoredInv, vars
<1> QED
  BY <1>1, <1>2, <1>3 DEF Next

LEMMA StoredSurvives == StoredInv => VerdictSurvivesStorage
<1> SUFFICES ASSUME StoredInv PROVE VerdictSurvivesStorage
  OBVIOUS
<1>1. spec \in Text /\ typed \in Text
  BY EntryIs DEF StoredInv
<1>2. /\ verdict = EvaluateSpecResultVerify(spec, result)
      /\ result = NormalizeResultToSpecUnit(spec, typed)
  BY DEF StoredInv
<1>3. UnitsGiven(spec, typed) => verdict = EvaluateSpecResultVerify(spec, typed)
  BY <1>1, <1>2, StorageKeeps
<1> QED
  BY <1>2, <1>3 DEF VerdictSurvivesStorage

LEMMA RowStored == Spec => []StoredInv
BY StoredInit, StoredNext, PTL DEF Spec

\* Whatever specs, readings and unit table: the verdict a row carries is that of the
\* reading as it is stored, however often it is stored again, and off the bounds of
\* the spec, where rounding may decide, that of the reading as it was typed
\* (NormalizeResultToSpecUnit, EvaluateSpecResultVerify).
THEOREM VerdictSurvives == Spec => []VerdictSurvivesStorage
BY RowStored, StoredSurvives, PTL

-----------------------------------------------------------------------------
(* A spec whose numbers are given a unit.                                  *)

LEMMA WithUnitIs ==
  ASSUME NEW e \in Lexeme, NEW unit \in STRING
  PROVE  /\ WithUnit(e, unit) \in Lexeme /\ WithUnit(e, unit).t = e.t
         /\ e.t # "num" => WithUnit(e, unit) = e
         /\ e.t = "num" =>
              /\ e \in Number /\ WithUnit(e, unit) \in Number
              /\ WithUnit(e, unit).n = e.n /\ WithUnit(e, unit).x = e.x
              /\ WithUnit(e, unit).unit = IF e.unit = NoUnit THEN unit ELSE e.unit
<1>1. CASE e.t = "num"
  <2>1. e \in Number
    BY <1>1, NumberLexeme
  <2>2. CASE e.unit = NoUnit
    <3>1. WithUnit(e, unit) = [e EXCEPT !.unit = unit]
      BY <1>1, <2>2 DEF WithUnit
    <3>2. PICK g : g = [e EXCEPT !.unit = unit]
      OBVIOUS
    <3>3. g \in Number /\ g.n = e.n /\ g.x = e.x /\ g.unit = unit /\ g.t = "num"
      BY <2>1, <3>2, NumberIs
    <3> QED
      BY <1>1, <2>1, <2>2, <3>1, <3>2, <3>3 DEF Lexeme
  <2>3. CASE e.unit # NoUnit
    BY <1>1, <2>1, <2>3 DEF WithUnit
  <2> QED
    BY <2>2, <2>3
<1>2. CASE e.t # "num"
  BY <1>2 DEF WithUnit
<1> QED
  BY <1>1, <1>2

LEMMA GivenIs ==
  ASSUME NEW text \in Text, NEW unit \in STRING
  PROVE  /\ Given(text, unit) \in Text /\ Len(Given(text, unit)) = Len(text)
         /\ DOMAIN Given(text, unit) = DOMAIN text
         /\ \A i \in 1 .. Len(text) : Given(text, unit)[i] = WithUnit(text[i], unit)
<1>1. DOMAIN text = 1 .. Len(text) /\ Len(text) \in Nat
  BY LenProperties DEF Text
<1>2. PICK n : n = Len(text)
  OBVIOUS
<1>3. \A i \in 1 .. n : WithUnit(text[i], unit) \in Lexeme
  BY <1>2, LexemeIs, WithUnitIs
<1>4. Given(text, unit) = [i \in 1 .. n |-> WithUnit(text[i], unit)]
  BY <1>1, <1>2 DEF Given
<1>5. Given(text, unit) \in [1 .. n -> Lexeme]
  BY <1>3, <1>4
<1>6. Given(text, unit) \in Seq(Lexeme)
  BY <1>1, <1>2, <1>5, SeqDef
<1>7. DOMAIN Given(text, unit) = 1 .. Len(Given(text, unit)) /\ Len(Given(text, unit)) \in Nat
  BY <1>6, LenProperties
<1>8. DOMAIN Given(text, unit) = 1 .. n
  BY <1>4
<1>9. Len(Given(text, unit)) = n
  <2>1. PICK m : m = Len(Given(text, unit))
    OBVIOUS
  <2>2. m \in Nat /\ n \in Nat /\ 1 .. m = 1 .. n
    BY <1>1, <1>2, <1>7, <1>8, <2>1
  <2>3. m = n
    <3>1. CASE m < n
      <4>1. n \in 1 .. n /\ n \notin 1 .. m
        BY <2>2, <3>1
      <4> QED
        BY <2>2, <4>1
    <3>2. CASE n < m
      <4>1. m \in 1 .. m /\ m \notin 1 .. n
        BY <2>2, <3>2
      <4> QED
        BY <2>2, <4>1
    <3> QED
      BY <2>2, <3>1, <3>2
  <2> QED
    BY <2>1, <2>3
<1> QED
  BY <1>1, <1>2, <1>4, <1>6, <1>8, <1>9 DEF Text

\* A part of the spec with its numbers given a unit.
LEMMA GivenPart ==
  ASSUME NEW text \in Text, NEW unit \in STRING,
         NEW m \in Nat \ {0}, NEW n \in Nat, n <= Len(text)
  PROVE  SubSeq(Given(text, unit), m, n) = Given(SubSeq(text, m, n), unit)
<1>1. /\ Given(text, unit) \in Text /\ Len(Given(text, unit)) = Len(text) /\ Len(text) \in Nat
      /\ \A i \in 1 .. Len(text) : Given(text, unit)[i] = WithUnit(text[i], unit)
  BY GivenIs, LenProperties DEF Text
<1>2. PICK given, here, there, part : /\ given = Given(text, unit)
                                      /\ here = SubSeq(given, m, n)
                                      /\ part = SubSeq(text, m, n)
                                      /\ there = Given(part, unit)
  OBVIOUS
<1>3. ASSUME NEW i \in m .. n PROVE i \in 1 .. Len(text) /\ text[i] \in Lexeme
  <2>1. i \in 1 .. Len(text)
    BY <1>1
  <2> QED
    BY <2>1, LexemeIs
<1>4. \A i \in m .. n : given[i] \in Lexeme
  BY <1>1, <1>2, <1>3, WithUnitIs
<1>5. /\ part \in Text /\ Len(part) = IF m <= n THEN n - m + 1 ELSE 0
      /\ \A i \in 1 .. n - m + 1 : part[i] = text[m + i - 1]
  BY <1>2, <1>3, SubSeqProperties DEF Text
<1>6. /\ here \in Seq(Lexeme) /\ Len(here) = IF m <= n THEN n - m + 1 ELSE 0
      /\ \A i \in 1 .. n - m + 1 : here[i] = given[m + i - 1]
  <2>1. m \in Int /\ n \in Int
    OBVIOUS
  <2>2. /\ SubSeq(given, m, n) \in Seq(Lexeme)
        /\ Len(SubSeq(given, m, n)) = IF m <= n THEN n - m + 1 ELSE 0
        /\ \A i \in 1 .. n - m + 1 : SubSeq(given, m, n)[i] = given[m + i - 1]
    BY ONLY <1>4, <2>1, SubSeqProperties
  <2> QED
    BY <1>2, <2>2
<1>7. /\ there \in Seq(Lexeme) /\ Len(there) = Len(part)
      /\ \A i \in 1 .. Len(part) : there[i] = WithUnit(part[i], unit)
  BY <1>2, <1>5, GivenIs DEF Text
<1>8. ASSUME NEW i \in 1 .. Len(here) PROVE here[i] = there[i]
  <2>1. i \in 1 .. n - m + 1 /\ i \in 1 .. Len(part)
    BY <1>5, <1>6
  <2>2. m + i - 1 \in m .. n
    BY <2>1
  <2>3. given[m + i - 1] = WithUnit(text[m + i - 1], unit)
    BY <1>1, <1>2, <1>3, <2>2
  <2> QED
    BY <1>5, <1>6, <1>7, <2>1, <2>3
<1>9. here = there
  BY <1>5, <1>6, <1>7, <1>8, SeqEqual
<1> QED
  BY <1>2, <1>9

LEMMA GivenScalar ==
  ASSUME NEW text \in Text, NEW unit \in STRING
  PROVE  /\ ParseScalarToken(text) = None => ParseScalarToken(Given(text, unit)) = None
         /\ ParseScalarToken(text) # None =>
              ParseScalarToken(Given(text, unit)) = WithUnit(ParseScalarToken(text), unit)
<1>1. /\ Given(text, unit) \in Text /\ Len(Given(text, unit)) = Len(text)
      /\ \A i \in 1 .. Len(text) : Given(text, unit)[i] = WithUnit(text[i], unit)
  BY GivenIs
<1>2. CASE Len(text) = 1
  <2>1. 1 \in 1 .. Len(text)
    BY <1>2
  <2>2. text[1] \in Lexeme /\ Given(text, unit)[1] = WithUnit(text[1], unit)
    BY <1>1, <2>1, LexemeIs
  <2>3. Given(text, unit)[1].t = text[1].t
    BY <2>2, WithUnitIs
  <2>4. text[1].t = "num" => text[1] # None
    BY <2>2, NumberLexeme, NumberIs
  <2> QED
    BY <1>1, <1>2, <2>2, <2>3, <2>4 DEF ParseScalarToken
<1>3. CASE Len(text) # 1
  BY <1>1, <1>3 DEF ParseScalarToken
<1> QED
  BY <1>2, <1>3

LEMMA GivenPlaces ==
  ASSUME NEW text \in Text, NEW unit \in STRING, NEW lexeme, lexeme.t # "num"
  PROVE  Places(Given(text, unit), lexeme) = Places(text, lexeme)
<1>1. /\ DOMAIN Given(text, unit) = DOMAIN text /\ DOMAIN text = 1 .. Len(text)
      /\ \A i \in 1 .. Len(text) : Given(text, unit)[i] = WithUnit(text[i], unit)
  BY GivenIs, LenProperties DEF Text
<1>2. ASSUME NEW i \in 1 .. Len(text)
      PROVE  Given(text, unit)[i] = lexeme <=> text[i] = lexeme
  <2>1. text[i] \in Lexeme /\ Given(text, unit)[i] = WithUnit(text[i], unit)
    BY <1>1, LexemeIs
  <2> QED
    BY <2>1, WithUnitIs
<1> QED
  BY <1>1, <1>2 DEF Places

LEMMA GivenSplit ==
  ASSUME NEW text \in Text, NEW unit \in STRING, NEW lexeme, lexeme.t # "num"
  PROVE  /\ SplitAt(text, lexeme) = None => SplitAt(Given(text, unit), lexeme) = None
         /\ SplitAt(text, lexeme) # None =>
              /\ SplitAt(Given(text, unit), lexeme) # None
              /\ SplitAt(text, lexeme).low \in Text /\ SplitAt(text, lexeme).high \in Text
              /\ SplitAt(Given(text, unit), lexeme).low = Given(SplitAt(text, lexeme).low, unit)
              /\ SplitAt(Given(text, unit), lexeme).high = Given(SplitAt(text, lexeme).high, unit)
<1>1. PICK given : given = Given(text, unit)
  OBVIOUS
<1>2. given \in Text /\ Len(given) = Len(text) /\ Len(text) \in Nat
  BY <1>1, GivenIs, LenProperties DEF Text
<1>3. Places(given, lexeme) = Places(text, lexeme)
  BY <1>1, GivenPlaces
<1>4. PICK i : i = FirstOf(Places(text, lexeme))
  OBVIOUS
<1>5. CASE Places(text, lexeme) = {} \/ i = 1 \/ i = Len(text)
  BY <1>1, <1>2, <1>3, <1>4, <1>5 DEF SplitAt
<1>6. CASE Places(text, lexeme) # {} /\ i # 1 /\ i # Len(text)
  <2>1. i \in 1 .. Len(text)
    BY <1>4, <1>6, PlacesIn, FirstIs
  <2>2. PICK a, b, n : a = i - 1 /\ b = i + 1 /\ n = Len(text)
    OBVIOUS
  <2>3. a \in Nat /\ b \in Nat \ {0} /\ a <= n /\ n \in Nat /\ 1 \in Nat \ {0}
    BY <1>2, <2>1, <2>2
  <2>4. PICK l, h, gl, gh : /\ l = SubSeq(text, 1, a) /\ h = SubSeq(text, b, n)
                            /\ gl = SubSeq(given, 1, a) /\ gh = SubSeq(given, b, n)
    OBVIOUS
  <2>5. l \in Text /\ h \in Text /\ gl \in Text /\ gh \in Text
    BY <1>2, <2>2, <2>3, <2>4, PartIs
  <2>6. SplitAt(text, lexeme) = [low |-> l, high |-> h]
    BY <1>4, <1>6, <2>2, <2>4 DEF SplitAt
  <2>7. SplitAt(given, lexeme) = [low |-> gl, high |-> gh]
    BY <1>2, <1>3, <1>4, <1>6, <2>2, <2>4 DEF SplitAt
  <2>8. [low |-> l, high |-> h] # None /\ [low |-> gl, high |-> gh] # None
    <3>1. /\ [low |-> l, high |-> h] \in [low : Text, high : Text]
          /\ [low |-> gl, high |-> gh] \in [low : Text, high : Text]
      BY <2>5
    <3> QED
      BY <3>1, TextAssumption
  <2>9. gl = Given(l, unit)
    BY <1>1, <2>2, <2>3, <2>4, GivenPart
  <2>10. gh = Given(h, unit)
    <3>1. n <= Len(text)
      BY <2>2, <2>3
    <3> QED
      BY <1>1, <2>3, <2>4, <3>1, GivenPart
  <2> QED
    BY <1>1, <2>5, <2>6, <2>7, <2>8, <2>9, <2>10
<1> QED
  BY <1>5, <1>6

-----------------------------------------------------------------------------
(* The range it is then.                                                   *)

\* Two texts are one bound with and without its unit, or neither is a number.
Alike(a, b, unit) ==
  /\ a \in Text /\ b \in Text
  /\ ParseScalarToken(a) = None => ParseScalarToken(b) = None
  /\ ParseScalarToken(a) # None =>
       /\ ParseScalarToken(b) \in Number
       /\ ParseScalarToken(b).n = ParseScalarToken(a).n
       /\ ParseScalarToken(b).x = ParseScalarToken(a).x
       /\ ParseScalarToken(b).unit =
            IF ParseScalarToken(a).unit = NoUnit THEN unit ELSE ParseScalarToken(a).unit
       /\ ParseScalarToken(a).unit # NoUnit => ParseScalarToken(b) = ParseScalarToken(a)

LEMMA GivenAlike ==
  ASSUME NEW text \in Text, NEW unit \in STRING
  PROVE  Alike(text, Given(text, unit), unit)
<1>1. Given(text, unit) \in Text
  BY GivenIs
<1>2. CASE ParseScalarToken(text) = None
  BY <1>1, <1>2, GivenScalar DEF Alike
<1>3. CASE ParseScalarToken(text) # None
  <2>1. PICK s : s = ParseScalarToken(text)
    OBVIOUS
  <2>2. s \in Number /\ s \in Lexeme /\ s.t = "num"
    BY <1>3, <2>1, ScalarIs, NumberIs DEF Lexeme
  <2>3. ParseScalarToken(Given(text, unit)) = WithUnit(s, unit)
    BY <1>3, <2>1, GivenScalar
  <2>4. /\ WithUnit(s, unit) \in Number
        /\ WithUnit(s, unit).n = s.n /\ WithUnit(s, unit).x = s.x
        /\ WithUnit(s, unit).unit = IF s.unit = NoUnit THEN unit ELSE s.unit
    BY <2>2, WithUnitIs
  <2>5. s.unit # NoUnit => WithUnit(s, unit) = s
    BY DEF WithUnit
  <2> QED
    BY <1>1, <1>3, <2>1, <2>3, <2>4, <2>5 DEF Alike
<1> QED
  BY <1>2, <1>3

\* No lexeme but a number is changed, or becomes another.
LEMMA SameSign ==
  ASSUME NEW e \in Lexeme, NEW unit \in STRING, NEW S, \A sign \in S : sign.t # "num"
  PROVE  /\ WithUnit(e, unit) \in S <=> e \in S
         /\ e \in S => WithUnit(e, unit) = e
BY WithUnitIs

LEMMA SuffixAlike ==
  ASSUME NEW text \in Text, NEW unit \in STRING \ {NoUnit}, NEW behind \in Text,
         Len(behind) <= 1, behind # <<>> => behind[1].t = "word",
         (/\ behind # <<>> /\ ParseScalarToken(text) # None
          /\ ParseScalarToken(text).unit = NoUnit) => behind[1].v = unit
  PROVE  Alike(ApplyTrailingUnitSuffix(text, behind),
               ApplyTrailingUnitSuffix(Given(text, unit), behind), unit)
<1>1. PICK given : given = Given(text, unit)
  OBVIOUS
<1>2. given \in Text /\ Alike(text, given, unit)
  BY <1>1, GivenIs, GivenAlike
<1>3. CASE behind = <<>>
  <2>1. /\ ApplyTrailingUnitSuffix(text, behind) = text
        /\ ApplyTrailingUnitSuffix(given, behind) = given
    BY <1>2, <1>3, SuffixIs
  <2> QED
    BY <1>1, <1>2, <2>1
<1>4. CASE behind # <<>>
  <2>1. ParseScalarToken(given) # None => ParseScalarToken(given).unit # NoUnit
    BY <1>2 DEF Alike
  <2>2. ApplyTrailingUnitSuffix(given, behind) = given
    BY <1>2, <1>4, <2>1, SuffixIs
  <2>3. CASE ParseScalarToken(text) # None /\ ParseScalarToken(text).unit = NoUnit
    <3>1. PICK s, g : s = ParseScalarToken(text) /\ g = [s EXCEPT !.unit = unit]
      OBVIOUS
    <3>2. s \in Number
      BY <2>3, <3>1, ScalarIs
    <3>3. g \in Number /\ g.unit = unit
      BY <3>1, <3>2, NumberIs
    <3>4. ApplyTrailingUnitSuffix(text, behind) = <<g>>
      BY <1>4, <2>3, <3>1, SuffixIs
    <3>5. <<g>> \in Text /\ ParseScalarToken(<<g>>) = g
      BY <3>3, OneNumber
    <3>6. s.t = "num"
      BY <3>2, NumberIs
    <3>7. WithUnit(s, unit) = g
      BY <2>3, <3>1, <3>6 DEF WithUnit
    <3>8. ParseScalarToken(given) = g
      BY <1>1, <2>3, <3>1, <3>7, GivenScalar
    <3>9. g # None
      BY <3>3, NumberIs
    <3>10. Alike(<<g>>, given, unit)
      BY <1>2, <3>3, <3>5, <3>8, <3>9 DEF Alike
    <3> QED
      BY <1>1, <2>2, <3>4, <3>10
  <2>4. CASE ~(ParseScalarToken(text) # None /\ ParseScalarToken(text).unit = NoUnit)
    <3>1. ApplyTrailingUnitSuffix(text, behind) = text
      BY <1>4, <2>4, SuffixIs
    <3> QED
      BY <1>1, <1>2, <2>2, <3>1
  <2> QED
    BY <2>3, <2>4
<1> QED
  BY <1>3, <1>4

LEMMA GivenFirst ==
  ASSUME NEW text \in Text, NEW unit \in STRING, text # <<>>
  PROVE  /\ Given(text, unit) # <<>> /\ Len(text) \in Nat /\ 1 \in 1 .. Len(text)
         /\ text[1] \in Lexeme /\ Given(text, unit)[1] = WithUnit(text[1], unit)
         /\ Given(text, unit)[1].t = text[1].t
<1>1. Len(text) \in Nat /\ Len(text) # 0
  BY LenProperties, EmptySeq DEF Text
<1>2. 1 \in 1 .. Len(text)
  BY <1>1
<1>3. Len(Given(text, unit)) = Len(text) /\ Given(text, unit)[1] = WithUnit(text[1], unit)
  BY <1>2, GivenIs
<1>4. Given(text, unit) # <<>>
  BY <1>1, <1>3, EmptySeq
<1>5. text[1] \in Lexeme
  BY <1>2, LexemeIs
<1> QED
  BY <1>1, <1>2, <1>3, <1>4, <1>5, WithUnitIs

\* The unit behind a bracket is not a number.
LEMMA GivenBehind ==
  ASSUME NEW text \in Text, NEW unit \in STRING,
         Len(text) <= 1, text # <<>> => text[1].t = "word"
  PROVE  Given(text, unit) = text
<1>1. PICK n : n = Len(text)
  OBVIOUS
<1>2. /\ n \in Nat /\ Given(text, unit) \in Seq(Lexeme) /\ text \in Seq(Lexeme)
      /\ Len(Given(text, unit)) = n
  BY <1>1, GivenIs, LenProperties DEF Text
<1>3. ASSUME NEW i \in 1 .. n PROVE Given(text, unit)[i] = text[i]
  <2>1. i = 1 /\ text # <<>>
    BY <1>1, <1>2, EmptySeq
  <2>2. text[1] \in Lexeme /\ Given(text, unit)[1] = WithUnit(text[1], unit) /\ text[1].t = "word"
    BY <2>1, GivenFirst
  <2> QED
    BY <2>1, <2>2, WithUnitIs
<1> QED
  BY <1>1, <1>2, <1>3, SeqEqual

LEMMA SignsAre ==
  /\ \A sign \in Opening : sign.t # "num"
  /\ \A sign \in Closing : sign.t # "num"
  /\ Mark(",").t # "num" /\ Mark(" - ").t # "num" /\ Dots.t # "num"
BY DEF Opening, Closing, Bracket, Mark, Dots

LEMMA GivenCloses ==
  ASSUME NEW req \in Text, NEW unit \in STRING
  PROVE  /\ Closes(Given(req, unit)) = Closes(req)
         /\ Closes(req) # {} =>
              /\ Given(req, unit)[LastOf(Closes(req))] = req[LastOf(Closes(req))]
              /\ Inner(Given(req, unit)) = Given(Inner(req), unit)
              /\ Behind(Given(req, unit)) = Given(Behind(req), unit)
              /\ Inner(req) \in Text /\ Behind(req) \in Text
<1>1. PICK given, n : given = Given(req, unit) /\ n = Len(req)
  OBVIOUS
<1>2. /\ DOMAIN given = 1 .. n /\ DOMAIN req = 1 .. n /\ n \in Nat /\ Len(given) = n
      /\ \A i \in 1 .. n : given[i] = WithUnit(req[i], unit) /\ req[i] \in Lexeme
  BY <1>1, GivenIs, LenProperties, LexemeIs DEF Text
<1>3. ASSUME NEW i \in 1 .. n
      PROVE  /\ given[i] \in Closing <=> req[i] \in Closing
             /\ req[i] \in Closing => given[i] = req[i]
  <2>1. PICK S : S = Closing
    OBVIOUS
  <2>2. /\ req[i] \in Lexeme /\ given[i] = WithUnit(req[i], unit)
        /\ \A sign \in S : sign.t # "num"
    BY <1>2, <2>1, SignsAre
  <2>3. (WithUnit(req[i], unit) \in S <=> req[i] \in S)
          /\ (req[i] \in S => WithUnit(req[i], unit) = req[i])
    BY <2>2, SameSign
  <2> QED
    BY <2>1, <2>2, <2>3
<1>4. Closes(given) = Closes(req)
  BY <1>2, <1>3 DEF Closes
<1>5. ASSUME Closes(req) # {}
      PROVE  /\ given[LastOf(Closes(req))] = req[LastOf(Closes(req))]
             /\ Inner(given) = Given(Inner(req), unit)
             /\ Behind(given) = Given(Behind(req), unit)
             /\ Inner(req) \in Text /\ Behind(req) \in Text
  <2>1. PICK c, a, b : c = LastOf(Closes(req)) /\ a = c - 1 /\ b = c + 1
    OBVIOUS
  <2>2. /\ c \in 1 .. n /\ req[c] \in Closing /\ Inner(req) \in Text /\ Behind(req) \in Text
    BY <1>1, <1>5, <2>1, BehindIs
  <2>3. a \in Nat /\ b \in Nat \ {0} /\ a <= n /\ 2 \in Nat \ {0} /\ n <= n
    BY <1>2, <2>1, <2>2
  <2>4. Inner(req) = SubSeq(req, 2, a) /\ Inner(given) = SubSeq(given, 2, a)
    BY <1>4, <2>1 DEF Inner
  <2>5. Behind(req) = SubSeq(req, b, n) /\ Behind(given) = SubSeq(given, b, n)
    BY <1>1, <1>2, <1>4, <2>1 DEF Behind
  <2>6. SubSeq(given, 2, a) = Given(SubSeq(req, 2, a), unit)
    BY <1>1, <2>3, GivenPart
  <2>7. SubSeq(given, b, n) = Given(SubSeq(req, b, n), unit)
    <3>1. n \in Nat /\ n <= Len(req)
      BY <1>1, <1>2
    <3> QED
      BY <1>1, <2>3, <3>1, GivenPart
  <2>8. given[c] = req[c]
    BY <1>3, <2>2, Zenon
  <2>9. Inner(given) = Given(Inner(req), unit)
    BY <2>4, <2>6
  <2>10. Behind(given) = Given(Behind(req), unit)
    BY <2>5, <2>7
  <2> QED
    BY <2>1, <2>2, <2>8, <2>9, <2>10
<1> QED
  BY <1>1, <1>4, <1>5

\* A bracketed range stays one: the same bounds, with their unit.
LEMMA GivenBracket ==
  ASSUME NEW req \in Text, NEW unit \in STRING \ {NoUnit}, req # <<>>
  PROVE  /\ Bracketed(Given(req, unit)) <=> Bracketed(req)
         /\ Bracketed(req) =>
              /\ Behind(Given(req, unit)) = Behind(req) /\ Behind(req) \in Text
              /\ Parts(req).low \in Text /\ Parts(req).high \in Text
              /\ Parts(Given(req, unit)).low = Given(Parts(req).low, unit)
              /\ Parts(Given(req, unit)).high = Given(Parts(req).high, unit)
              /\ Given(req, unit)[1] = req[1]
              /\ Closes(Given(req, unit)) = Closes(req)
              /\ Given(req, unit)[LastOf(Closes(req))] = req[LastOf(Closes(req))]
<1>1. PICK given : given = Given(req, unit)
  OBVIOUS
<1>2. /\ req[1] \in Lexeme /\ given[1] = WithUnit(req[1], unit)
  BY <1>1, GivenFirst
<1>3. (given[1] \in Opening <=> req[1] \in Opening) /\ (req[1] \in Opening => given[1] = req[1])
  <2>1. PICK S : S = Opening
    OBVIOUS
  <2>2. \A sign \in S : sign.t # "num"
    BY <2>1, SignsAre
  <2>3. (WithUnit(req[1], unit) \in S <=> req[1] \in S)
          /\ (req[1] \in S => WithUnit(req[1], unit) = req[1])
    BY <1>2, <2>2, SameSign
  <2> QED
    BY <1>2, <2>1, <2>3
<1>4. Closes(given) = Closes(req)
  BY <1>1, GivenCloses
<1>5. CASE Closes(req) = {}
  BY <1>1, <1>4, <1>5 DEF Bracketed
<1>6. CASE Closes(req) # {}
  <2>1. /\ given[LastOf(Closes(req))] = req[LastOf(Closes(req))]
        /\ Inner(given) = Given(Inner(req), unit)
        /\ Behind(given) = Given(Behind(req), unit)
        /\ Inner(req) \in Text /\ Behind(req) \in Text
    BY <1>1, <1>6, GivenCloses
  <2>2. PICK inner, behind : inner = Inner(req) /\ behind = Behind(req)
    OBVIOUS
  <2>3. /\ Behind(given) = Given(behind, unit) /\ Len(Given(behind, unit)) = Len(behind)
        /\ behind # <<>> => Given(behind, unit) # <<>> /\ Given(behind, unit)[1].t = behind[1].t
        /\ behind = <<>> => Given(behind, unit) = <<>>
    <3>1. Len(Given(behind, unit)) = Len(behind)
      BY <2>1, <2>2, GivenIs
    <3>2. behind = <<>> => Given(behind, unit) = <<>>
      <4>1. Len(<<>>) <= 1
        BY EmptySeq
      <4> QED
        BY <4>1, <2>1, <2>2, GivenBehind
    <3> QED
      BY <2>1, <2>2, <3>1, <3>2, GivenFirst
  <2>4. Len(behind) <= 1 /\ (behind # <<>> => behind[1].t = "word")
          <=> Len(Behind(given)) <= 1 /\ (Behind(given) # <<>> => Behind(given)[1].t = "word")
    BY <2>3
  <2>5. Len(behind) <= 1 /\ (behind # <<>> => behind[1].t = "word") => Behind(given) = behind
    BY <2>1, <2>2, GivenBehind
  <2>6. Separator(Inner(given)) = Separator(inner)
    <3>1. PICK comma : comma = Mark(",")
      OBVIOUS
    <3>2. inner \in Text /\ comma.t # "num"
      BY <2>1, <2>2, <3>1, SignsAre
    <3>3. Places(Given(inner, unit), comma) = Places(inner, comma)
      BY <3>2, GivenPlaces
    <3> QED
      BY <2>1, <2>2, <3>1, <3>3 DEF Separator
  <2>7. Separator(inner).t # "num"
    BY SignsAre DEF Separator
  <2>8. /\ Parts(req) = SplitAt(inner, Separator(inner))
        /\ Parts(given) = SplitAt(Given(inner, unit), Separator(inner))
    BY <2>1, <2>2, <2>6 DEF Parts
  <2>9. /\ Parts(given) = None <=> Parts(req) = None
        /\ Parts(req) # None =>
             /\ Parts(req).low \in Text /\ Parts(req).high \in Text
             /\ Parts(given).low = Given(Parts(req).low, unit)
             /\ Parts(given).high = Given(Parts(req).high, unit)
    BY <2>1, <2>2, <2>7, <2>8, GivenSplit
  <2>10. Bracketed(given) <=> Bracketed(req)
    BY <1>3, <1>4, <2>2, <2>4, <2>9 DEF Bracketed
  <2>11. ASSUME Bracketed(req)
         PROVE  /\ Behind(given) = Behind(req) /\ Behind(req) \in Text
                /\ Parts(req) # None /\ req[1] \in Opening
    BY <2>1, <2>2, <2>5, <2>11 DEF Bracketed
  <2> QED
    BY <1>1, <1>3, <1>4, <2>1, <2>9, <2>10, <2>11
<1> QED
  BY <1>5, <1>6

\* A range whose units, where its bounds have any, are one: the bounds of the
\* range that repeats it are alike.
LEMMA GivenRange ==
  ASSUME NEW req \in Text, NEW unit \in STRING \ {NoUnit}, req # <<>>, Range2(req) # None,
         ParseComparatorSpec(req) = None,
         \A s \in Bounds(req) : s # None /\ s.unit # NoUnit => s.unit = unit
  PROVE  /\ Range2(Given(req, unit)) # None
         /\ ParseDotDotRangeSpec(Given(req, unit)) = None <=> ParseDotDotRangeSpec(req) = None
         /\ Alike(Range2(req).low, Range2(Given(req, unit)).low, unit)
         /\ Alike(Range2(req).high, Range2(Given(req, unit)).high, unit)
         /\ ParseDotDotRangeSpec(req) = None =>
              /\ Range2(Given(req, unit)).over = Range2(req).over
              /\ Range2(Given(req, unit)).under = Range2(req).under
<1>1. PICK given : given = Given(req, unit)
  OBVIOUS
<1>2. given \in Text
  BY <1>1, GivenIs
<1>3. Dots.t # "num"
  BY SignsAre
<1>4. CASE ParseDotDotRangeSpec(req) # None
  <2>1. PICK split : split = SplitAt(req, Dots)
    OBVIOUS
  <2>2. Range2(req) = split /\ split # None
    BY <1>4, <2>1 DEF Range2, ParseDotDotRangeSpec
  <2>3. /\ SplitAt(given, Dots) # None /\ split.low \in Text /\ split.high \in Text
        /\ SplitAt(given, Dots).low = Given(split.low, unit)
        /\ SplitAt(given, Dots).high = Given(split.high, unit)
    BY <1>1, <1>3, <2>1, <2>2, GivenSplit
  <2>4. Range2(given) = SplitAt(given, Dots) /\ ParseDotDotRangeSpec(given) # None
    BY <2>3 DEF Range2, ParseDotDotRangeSpec
  <2>5. /\ Alike(split.low, Given(split.low, unit), unit)
        /\ Alike(split.high, Given(split.high, unit), unit)
    BY <2>3, GivenAlike
  <2> QED
    BY <1>1, <1>4, <2>2, <2>3, <2>4, <2>5
<1>5. CASE ParseDotDotRangeSpec(req) = None
  <2>1. Range2(req) = ParseBracketRangeSpec(req) /\ ParseBracketRangeSpec(req) # None
    BY <1>5 DEF Range2
  <2>2. ParseDotDotRangeSpec(given) = None
    BY <1>1, <1>3, <1>5, GivenSplit DEF ParseDotDotRangeSpec
  <2>3. /\ Bracketed(req) /\ Parts(req).low \in Text /\ Parts(req).high \in Text
    BY <2>1, BracketType
  <2>4. PICK low, high, behind, close : /\ low = Parts(req).low /\ high = Parts(req).high
                                        /\ behind = Behind(req) /\ close = LastOf(Closes(req))
    OBVIOUS
  <2>5. /\ Bracketed(given) /\ Behind(given) = behind /\ behind \in Text
        /\ Parts(given).low = Given(low, unit) /\ Parts(given).high = Given(high, unit)
        /\ given[1] = req[1] /\ LastOf(Closes(given)) = close /\ given[close] = req[close]
    BY <1>1, <2>3, <2>4, GivenBracket
  <2>6. PICK over, under : /\ over = IF req[1].v = "[" THEN ">=" ELSE ">"
                           /\ under = IF req[close].v = "]" THEN "<=" ELSE "<"
    OBVIOUS
  <2>7. ParseBracketRangeSpec(req) =
          [low |-> ApplyTrailingUnitSuffix(low, behind),
           high |-> ApplyTrailingUnitSuffix(high, behind), over |-> over, under |-> under]
    BY <2>3, <2>4, <2>6, BracketIs
  <2>8. ParseBracketRangeSpec(given) =
          [low |-> ApplyTrailingUnitSuffix(Given(low, unit), behind),
           high |-> ApplyTrailingUnitSuffix(Given(high, unit), behind),
           over |-> over, under |-> under]
    BY <1>2, <2>5, <2>6, BracketIs
  <2>9. Len(behind) <= 1 /\ (behind # <<>> => behind[1].t = "word")
    BY <2>3, <2>4 DEF Bracketed
  <2>10. Bounds(req) = {ParseScalarToken(ApplyTrailingUnitSuffix(low, behind)),
                        ParseScalarToken(ApplyTrailingUnitSuffix(high, behind))}
    BY <2>1, <2>7, BoundsAre
  <2>11. ASSUME NEW bound \in {low, high}, behind # <<>>, ParseScalarToken(bound) # None,
                ParseScalarToken(bound).unit = NoUnit
         PROVE  behind[1].v = unit
    <3>1. PICK s, w : s = ParseScalarToken(bound) /\ w = behind[1].v
      OBVIOUS
    <3>2. bound \in Text
      BY <2>3, <2>4
    <3>3. /\ w \in STRING \ {NoUnit}
          /\ ApplyTrailingUnitSuffix(bound, behind) = <<[s EXCEPT !.unit = w]>>
      BY <2>5, <2>9, <2>11, <3>1, <3>2, SuffixIs
    <3>4. s \in Number
      BY <2>11, <3>1, <3>2, ScalarIs
    <3>5. PICK g : g = [s EXCEPT !.unit = w]
      OBVIOUS
    <3>6. g \in Number /\ g.unit = w /\ g # None
      BY <3>3, <3>4, <3>5, NumberIs
    <3>7. ParseScalarToken(<<g>>) = g
      BY <3>6, OneNumber
    <3>8. g \in Bounds(req)
      BY <2>10, <2>11, <3>3, <3>5, <3>7
    <3> QED
      BY <3>1, <3>3, <3>6, <3>8
  <2>12. ASSUME NEW bound \in {low, high}
         PROVE  Alike(ApplyTrailingUnitSuffix(bound, behind),
                      ApplyTrailingUnitSuffix(Given(bound, unit), behind), unit)
    <3>1. bound \in Text
      BY <2>3, <2>4
    <3>2. (/\ behind # <<>> /\ ParseScalarToken(bound) # None
           /\ ParseScalarToken(bound).unit = NoUnit) => behind[1].v = unit
      BY <2>11
    <3> QED
      BY <2>5, <2>9, <3>1, <3>2, SuffixAlike
  <2>13. ParseBracketRangeSpec(given) # None
    <3>1. PICK l, h : /\ l = ApplyTrailingUnitSuffix(Given(low, unit), behind)
                      /\ h = ApplyTrailingUnitSuffix(Given(high, unit), behind)
      OBVIOUS
    <3>2. l \in Text /\ h \in Text
      BY <2>12, <3>1 DEF Alike
    <3>3. over \in Comparators /\ under \in Comparators
      BY <2>6 DEF Comparators
    <3>4. [low |-> l, high |-> h, over |-> over, under |-> under]
            \in [low : Text, high : Text, over : Comparators, under : Comparators]
      BY <3>2, <3>3
    <3> QED
      BY <2>8, <3>1, <3>4, TextAssumption
  <2>14. Range2(given) = ParseBracketRangeSpec(given)
    BY <2>2 DEF Range2
  <2>15. /\ Alike(ParseBracketRangeSpec(req).low, ParseBracketRangeSpec(given).low, unit)
         /\ Alike(ParseBracketRangeSpec(req).high, ParseBracketRangeSpec(given).high, unit)
    BY <2>7, <2>8, <2>12
  <2> QED
    BY <1>1, <1>5, <2>1, <2>2, <2>7, <2>8, <2>13, <2>14, <2>15
<1> QED
  BY <1>4, <1>5

\* A bound compared to a reading that has its unit, or none.
LEMMA OnceAlike ==
  ASSUME NEW unit \in STRING \ {NoUnit}, NEW p \in Number, p.unit \in {NoUnit, unit},
         NEW res, ParseScalarToken(res) = p,
         NEW a, NEW b, Alike(a, b, unit), NEW op \in {"<=", "<", ">=", ">"}
  PROVE  Compare(op, res, b) = Compare(op, res, a)
<1>1. PICK r, g : r = ParseScalarToken(a) /\ g = ParseScalarToken(b)
  OBVIOUS
<1>2. CASE r = None
  BY <1>1, <1>2 DEF Alike, Compare
<1>3. CASE r # None
  <2>1. /\ r \in Number /\ g \in Number /\ g.n = r.n /\ g.x = r.x /\ r # None /\ g # None
        /\ g.unit = IF r.unit = NoUnit THEN unit ELSE r.unit
        /\ r.unit # NoUnit => g = r
    BY <1>1, <1>3, ScalarIs, NumberIs DEF Alike
  <2>2. CASE r.unit # NoUnit
    BY <1>1, <1>3, <2>1, <2>2 DEF Compare
  <2>3. CASE r.unit = NoUnit
    <3>1. PICK l, h, d : /\ l = Adopt(p, g) /\ h = Adopt(r, p) /\ d = Adopt(p, r)
      OBVIOUS
    <3>2. g.unit = unit /\ Adopt(g, p) = g
      BY <2>1, <2>3 DEF Adopt
    <3>3. d = p
      <4>1. p.unit = NoUnit => [p EXCEPT !.unit = r.unit] = p
        BY <2>3 DEF Number
      <4> QED
        BY <3>1, <4>1 DEF Adopt
    <3>4. l.n = p.n /\ l.x = p.x /\ l.unit = unit /\ l \in Number
      BY <3>1, <3>2, NumberIs DEF Adopt
    <3>5. h.n = r.n /\ h.x = r.x /\ h.unit = p.unit /\ h \in Number
      <4>1. p.unit \in STRING
        BY NumberIs
      <4>2. h = [r EXCEPT !.unit = p.unit]
        BY <2>3, <3>1 DEF Adopt
      <4> QED
        BY <2>1, <4>1, <4>2, NumberIs
    <3>6. NormalizeScalarPairForCompare(p, g) = <<l, g>>
      BY <3>1, <3>2, <3>4 DEF NormalizeScalarPairForCompare
    <3>7. NormalizeScalarPairForCompare(p, r) = <<p, h>>
      BY <3>1, <3>3, <3>5 DEF NormalizeScalarPairForCompare
    <3>8. <<l, g>> # None /\ <<p, h>> # None
      BY <2>1, <3>4, <3>5, TextAssumption
    <3>9. (Leq(l, g) <=> Leq(p, h)) /\ (Leq(g, l) <=> Leq(h, p))
      BY <2>1, <3>4, <3>5 DEF Leq, Scaled
    <3>10. Matched(op, l, g, g) <=> Matched(op, p, h, r)
      BY <3>9 DEF Matched
    <3>11. p # None
      BY NumberIs
    <3>12. /\ Compare(op, res, b) = AsVerdict(Matched(op, l, g, g))
           /\ Compare(op, res, a) = AsVerdict(Matched(op, p, h, r))
      BY <1>1, <2>1, <3>6, <3>7, <3>8, <3>11 DEF Compare
    <3> QED
      BY <3>10, <3>12 DEF AsVerdict
  <2> QED
    BY <2>2, <2>3
<1> QED
  BY <1>2, <1>3

\* A bound with the unit compared to a reading in a unit that is no other form
\* of it.
LEMMA OnceApart ==
  ASSUME NEW unit \in STRING \ {NoUnit}, NEW p \in Number, p.unit \notin {NoUnit, unit},
         ~(Known(unit) /\ Known(p.unit) /\ Scale[p.unit].canonical = Scale[unit].canonical),
         NEW res, ParseScalarToken(res) = p,
         NEW b, NEW r \in Number, ParseScalarToken(b) = r, r.unit = unit, NEW op
  PROVE  Compare(op, res, b) = "INDETERMINATE"
<1>1. Adopt(p, r) = p /\ Adopt(r, p) = r
  BY DEF Adopt
<1>2. PICK cp, cr : cp = NormalizeScalarToCanonical(p) /\ cr = NormalizeScalarToCanonical(r)
  OBVIOUS
<1>3. cp = None \/ cr = None \/ cp.unit # cr.unit
  <2>1. ~Known(p.unit) => cp = None
    BY <1>2 DEF NormalizeScalarToCanonical
  <2>2. ~Known(r.unit) => cr = None
    BY <1>2 DEF NormalizeScalarToCanonical
  <2>3. Known(p.unit) /\ Known(r.unit) =>
          cp.unit = Scale[p.unit].canonical /\ cr.unit = Scale[r.unit].canonical
    BY <1>2, CanonicalIs DEF CanonicalUnit
  <2> QED
    BY <2>1, <2>2, <2>3
<1>4. NormalizeScalarPairForCompare(p, r) = None
  BY <1>1, <1>2, <1>3 DEF NormalizeScalarPairForCompare
<1> QED
  BY <1>4 DEF Compare

\* A stored reading has the unit of the spec, none, or one that is no other form
\* of it.
LEMMA StoredUnit ==
  ASSUME NEW req, NEW typing \in Text, NEW unit, unit = ResolveSpecScalarUnit(req),
         unit # NoUnit,
         NEW p \in Number, p = ParseScalarToken(NormalizeResultToSpecUnit(req, typing))
  PROVE  \/ p.unit \in {NoUnit, unit}
         \/ ~(Known(unit) /\ Known(p.unit) /\ Scale[p.unit].canonical = Scale[unit].canonical)
<1>1. p # None
  BY NumberIs
<1>2. CASE \E o, s, q : /\ o = ParseScalarToken(typing) /\ Rewrites(o, s, q, unit)
                        /\ unit # NoUnit /\ o # None /\ q \in Number
                        /\ NormalizeResultToSpecUnit(req, typing) = <<q>>
  <2>1. PICK o, s, q : /\ Rewrites(o, s, q, unit) /\ q \in Number
                       /\ NormalizeResultToSpecUnit(req, typing) = <<q>>
    BY <1>2
  <2>2. p = q
    BY <2>1, OneNumber
  <2>3. s \in Number /\ Known(s.unit) /\ Known(unit) /\ q = InUnit(s, unit)
    BY <2>1 DEF Rewrites
  <2>4. q.unit = unit
    BY <2>3, RewrittenIs
  <2> QED
    BY <2>2, <2>4
<1>3. CASE /\ NormalizeResultToSpecUnit(req, typing) = typing
           /\ ParseScalarToken(typing) # None /\ unit # NoUnit =>
                LET o == ParseScalarToken(typing)
                IN o.unit # NoUnit =>
                     ~(Known(unit) /\ Known(o.unit)
                       /\ Scale[o.unit].canonical = Scale[unit].canonical)
  BY <1>1, <1>3
<1> QED
  BY <1>2, <1>3, NormalizedIs

\* So a range decides it as the range that repeats its unit.
LEMMA OnceInside ==
  ASSUME NEW unit \in STRING \ {NoUnit}, NEW res \in Text,
         ParseScalarToken(res) # None =>
           LET p == ParseScalarToken(res)
           IN p.unit \in {NoUnit, unit}
                \/ ~(Known(unit) /\ Known(p.unit)
                     /\ Scale[p.unit].canonical = Scale[unit].canonical),
         NEW low, NEW high, NEW low2, NEW high2,
         Alike(low, low2, unit), Alike(high, high2, unit),
         \/ ParseScalarToken(low) # None /\ ParseScalarToken(low).unit = unit
         \/ ParseScalarToken(high) # None /\ ParseScalarToken(high).unit = unit,
         NEW over \in {">=", ">"}, NEW under \in {"<=", "<"}
  PROVE  Inside(res, low2, high2, over, under) = Inside(res, low, high, over, under)
<1>1. PICK p : p = ParseScalarToken(res) /\ p \in Number \cup {None}
  BY ScalarIs
<1>2. CASE p = None
  <2>1. \A op, rhs : Compare(op, res, rhs) = "INDETERMINATE"
    BY <1>1, <1>2 DEF Compare
  <2> QED
    BY <2>1 DEF Inside
<1>3. CASE p # None /\ p.unit \in {NoUnit, unit}
  <2>1. p \in Number
    BY <1>1, <1>3
  <2>2. /\ Compare(over, res, low2) = Compare(over, res, low)
        /\ Compare(under, res, high2) = Compare(under, res, high)
    BY <1>1, <1>3, <2>1, OnceAlike
  <2> QED
    BY <2>2 DEF Inside
<1>4. CASE p # None /\ p.unit \notin {NoUnit, unit}
  <2>1. /\ p \in Number
        /\ ~(Known(unit) /\ Known(p.unit) /\ Scale[p.unit].canonical = Scale[unit].canonical)
    BY <1>1, <1>4
  <2>2. ASSUME NEW a, NEW b, Alike(a, b, unit), NEW op,
               ParseScalarToken(a) # None, ParseScalarToken(a).unit = unit
        PROVE  Compare(op, res, a) = "INDETERMINATE" /\ Compare(op, res, b) = "INDETERMINATE"
    <3>1. PICK r : r = ParseScalarToken(a)
      OBVIOUS
    <3>2. r \in Number /\ r.unit = unit /\ ParseScalarToken(b) = r
      BY <2>2, <3>1, ScalarIs DEF Alike
    <3> QED
      BY <1>1, <1>4, <2>1, <3>1, <3>2, OnceApart
  <2>3. CASE ParseScalarToken(low) # None /\ ParseScalarToken(low).unit = unit
    <3>1. Compare(over, res, low) = "INDETERMINATE" /\ Compare(over, res, low2) = "INDETERMINATE"
      BY <2>2, <2>3
    <3> QED
      BY <3>1 DEF Inside
  <2>4. CASE ParseScalarToken(high) # None /\ ParseScalarToken(high).unit = unit
    <3>1. /\ Compare(under, res, high) = "INDETERMINATE"
          /\ Compare(under, res, high2) = "INDETERMINATE"
      BY <2>2, <2>4
    <3> QED
      BY <3>1 DEF Inside
  <2> QED
    BY <2>3, <2>4
<1> QED
  BY <1>1, <1>2, <1>3, <1>4

LEMMA BoundText ==
  ASSUME NEW req \in Text, NEW s \in Bounds(req)
  PROVE  s \in Number \cup {None}
<1>1. CASE ParseComparatorSpec(req) # None
  <2>1. ParseComparatorSpec(req).rhs \in Text
    BY <1>1, ComparatorIs
  <2> QED
    BY <1>1, <2>1, BoundsAre, ScalarIs
<1>2. CASE ParseComparatorSpec(req) = None /\ Range2(req) # None
  BY <1>2, BoundsAre, RangeIs, ScalarIs
<1>3. CASE ParseComparatorSpec(req) = None /\ Range2(req) = None
  BY <1>3, BoundsAre, ScalarIs
<1> QED
  BY <1>1, <1>2, <1>3

\* The one unit a spec is written in.
LEMMA OneUnit ==
  ASSUME NEW req \in Text, Cardinality(UnitsWritten(req)) = 1
  PROVE  \E unit \in STRING \ {NoUnit} :
           /\ UnitsWritten(req) = {unit}
           /\ \E s \in Bounds(req) : s # None /\ s.unit = unit
           /\ \A s \in Bounds(req) : s # None /\ s.unit # NoUnit => s.unit = unit
           /\ Spelled(req) = Given(req, unit)
<1>1. PICK units, all : units = UnitsWritten(req) /\ all = {s.unit : s \in Bounds(req)}
  OBVIOUS
<1>2. units = {s.unit : s \in Bounds(req) \ {None}} \ {NoUnit}
  BY <1>1 DEF UnitsWritten
<1>3. IsFiniteSet(all) /\ units \subseteq all
  BY <1>1, <1>2, BoundUnits
<1>4. IsFiniteSet(units)
  BY <1>3, FS_Subset
<1>5. PICK unit : units = {unit}
  BY <1>1, <1>4, FS_Singleton
<1>6. PICK s \in Bounds(req) : s # None /\ s.unit = unit /\ unit # NoUnit
  BY <1>2, <1>5
<1>7. unit \in STRING
  BY <1>6, BoundText, NumberIs
<1>8. \A b \in Bounds(req) : b # None /\ b.unit # NoUnit => b.unit = unit
  BY <1>2, <1>5
<1>9. (CHOOSE u \in UnitsWritten(req) : TRUE) = unit
  BY <1>1, <1>5
<1>10. Spelled(req) = Given(req, unit)
  BY <1>9 DEF Spelled
<1> QED
  BY <1>1, <1>5, <1>6, <1>7, <1>8, <1>10

\* A spec of one number has its unit already.
LEMMA GivenAlready ==
  ASSUME NEW req \in Text, NEW unit \in STRING,
         \A i \in 1 .. Len(req) :
           req[i].t = "num" => req[i].unit # NoUnit
  PROVE  Given(req, unit) = req
<1>1. /\ Given(req, unit) \in Seq(Lexeme) /\ req \in Seq(Lexeme)
      /\ Len(Given(req, unit)) = Len(req)
      /\ \A i \in 1 .. Len(req) : Given(req, unit)[i] = WithUnit(req[i], unit)
  BY GivenIs DEF Text
<1>2. \A i \in 1 .. Len(req) : Given(req, unit)[i] = req[i]
  BY <1>1 DEF WithUnit
<1> QED
  BY <1>1, <1>2, SeqEqual

LEMMA SingleGiven ==
  ASSUME NEW req \in Text, req # <<>>, NEW unit \in STRING \ {NoUnit},
         ParseComparatorSpec(req) # None \/ Range2(req) = None,
         NEW s \in Bounds(req), s # None, s.unit = unit
  PROVE  Given(req, unit) = req
<1>1. CASE ParseComparatorSpec(req) # None
  <2>1. s = ParseScalarToken(Tail(req)) /\ Tail(req) \in Text /\ req[1].t = "op" /\ Len(req) > 1
    <3>1. PICK rhs : rhs = ParseComparatorSpec(req).rhs
      OBVIOUS
    <3>2. rhs = Tail(req) /\ rhs \in Text /\ req[1].t = "op" /\ Len(req) > 1
      BY <1>1, <3>1, ComparatorIs
    <3>3. Bounds(req) = {ParseScalarToken(rhs)}
      BY <1>1, <3>1, BoundsAre
    <3> QED
      BY <3>2, <3>3
  <2>2. Len(Tail(req)) = 1 /\ Tail(req)[1] = s
    BY <2>1, ScalarIs
  <2>3. req \in Seq(Lexeme)
    BY DEF Text
  <2>4. /\ Len(Tail(req)) = Len(req) - 1 /\ Len(req) \in Nat
        /\ \A i \in 1 .. Len(Tail(req)) : Tail(req)[i] = req[i + 1]
    BY <2>3, HeadTailProperties, LenProperties
  <2>5. Len(req) = 2
    BY ONLY <2>2, <2>4
  <2>6. req[2] = s
    <3>1. 1 \in 1 .. Len(Tail(req))
      BY ONLY <2>2
    <3>2. PICK two : two = 1 + 1
      OBVIOUS
    <3>3. Tail(req)[1] = req[two]
      BY <2>4, <3>1, <3>2
    <3>4. two = 2
      BY <3>2
    <3> QED
      BY <2>2, <3>3, <3>4
  <2>7. \A i \in 1 .. Len(req) : i = 1 \/ i = 2
    BY <2>5
  <2> QED
    BY <2>1, <2>6, <2>7, GivenAlready
<1>2. CASE ParseComparatorSpec(req) = None /\ Range2(req) = None
  <2>1. s = ParseScalarToken(req)
    BY <1>2, BoundsAre
  <2>2. Len(req) = 1 /\ req[1] = s
    BY <2>1, ScalarIs
  <2>3. \A i \in 1 .. Len(req) : i = 1
    BY <2>2
  <2> QED
    BY <2>2, <2>3, GivenAlready
<1> QED
  BY <1>1, <1>2

\* The range that repeats the unit decides every entry alike.
LEMMA RangeDecides ==
  ASSUME NEW req \in Text, req # <<>>, NEW unit \in STRING \ {NoUnit},
         ParseComparatorSpec(req) = None, Range2(req) # None,
         \A s \in Bounds(req) : s # None /\ s.unit # NoUnit => s.unit = unit,
         \E s \in Bounds(req) : s # None /\ s.unit = unit,
         NEW typing \in Text
  PROVE  EvaluateSpecResultVerify(Given(req, unit),
                                  NormalizeResultToSpecUnit(Given(req, unit), typing))
           = EvaluateSpecResultVerify(req, NormalizeResultToSpecUnit(req, typing))
<1>1. PICK given, range, grange : /\ given = Given(req, unit) /\ range = Range2(req)
                                  /\ grange = Range2(given)
  OBVIOUS
<1>2. PICK low, high, glow, ghigh : /\ low = range.low /\ high = range.high
                                    /\ glow = grange.low /\ ghigh = grange.high
  OBVIOUS
<1>3. /\ grange # None /\ Alike(low, glow, unit) /\ Alike(high, ghigh, unit)
      /\ ParseDotDotRangeSpec(given) = None <=> ParseDotDotRangeSpec(req) = None
      /\ ParseDotDotRangeSpec(req) = None =>
           grange.over = range.over /\ grange.under = range.under
  BY <1>1, <1>2, GivenRange
<1>4. given # <<>> /\ given[1].t = req[1].t /\ given \in Text /\ Len(given) = Len(req)
  BY <1>1, GivenFirst, GivenIs
<1>5. ParseComparatorSpec(given) = None
  <2>1. Head(given) = given[1] /\ Head(req) = req[1]
    BY <1>4, HeadTailProperties DEF Text
  <2>2. req[1].t = "op" /\ Len(req) > 1 => ParseComparatorSpec(req) # None
    <3>1. ASSUME req[1].t = "op", Len(req) > 1 PROVE ParseComparatorSpec(req) # None
      <4>1. ParseComparatorSpec(req) = [op |-> req[1].v, rhs |-> Tail(req)]
        BY <2>1, <3>1 DEF ParseComparatorSpec
      <4>2. Tail(req) \in Text
        BY HeadTailProperties DEF Text
      <4>3. req[1].v \in Comparators
        <5>1. req[1] \in Lexeme
          BY GivenFirst
        <5> QED
          BY <3>1, <5>1 DEF Lexeme, Number
      <4>4. [op |-> req[1].v, rhs |-> Tail(req)] \in [op : Comparators, rhs : Text]
        BY <4>2, <4>3
      <4> QED
        BY <4>1, <4>4, TextAssumption
    <3> QED
      BY <3>1
  <2> QED
    BY <1>4, <2>1, <2>2 DEF ParseComparatorSpec
<1>6. \/ ParseScalarToken(low) # None /\ ParseScalarToken(low).unit = unit
      \/ ParseScalarToken(high) # None /\ ParseScalarToken(high).unit = unit
  <2>1. Bounds(req) = {ParseScalarToken(low), ParseScalarToken(high)}
    BY <1>1, <1>2, BoundsAre
  <2> QED
    BY <2>1
<1>7. \A s \in {ParseScalarToken(low), ParseScalarToken(high)} :
        s # None /\ s.unit # NoUnit => s.unit = unit
  BY <1>1, <1>2, BoundsAre
<1>8. SelectSpecUnit(range) = unit
  BY <1>2, <1>6, <1>7 DEF SelectSpecUnit, UnitOf
<1>9. SelectSpecUnit(grange) = unit
  <2>1. /\ ParseScalarToken(low) = None => ParseScalarToken(glow) = None
        /\ ParseScalarToken(low) # None =>
             /\ ParseScalarToken(glow).unit = IF ParseScalarToken(low).unit = NoUnit
                                              THEN unit ELSE ParseScalarToken(low).unit
             /\ ParseScalarToken(glow) # None
    BY <1>3, NumberIs DEF Alike
  <2>2. /\ ParseScalarToken(high) # None =>
             /\ ParseScalarToken(ghigh).unit = IF ParseScalarToken(high).unit = NoUnit
                                               THEN unit ELSE ParseScalarToken(high).unit
             /\ ParseScalarToken(ghigh) # None
    BY <1>3, NumberIs DEF Alike
  <2>3. ParseScalarToken(low) # None => ParseScalarToken(glow).unit = unit
    BY <1>7, <2>1
  <2>4. ParseScalarToken(low) = None =>
          ParseScalarToken(ghigh).unit = unit /\ ParseScalarToken(ghigh) # None
    BY <1>6, <1>7, <2>2
  <2> QED
    BY <1>2, <2>1, <2>3, <2>4 DEF SelectSpecUnit, UnitOf
<1>10. ResolveSpecScalarUnit(req) = unit
  BY <1>1, <1>8 DEF ResolveSpecScalarUnit, Range2
<1>11. ResolveSpecScalarUnit(given) = unit
  BY <1>1, <1>3, <1>4, <1>5, <1>9 DEF ResolveSpecScalarUnit, Range2
<1>12. PICK res : res = NormalizeResultToSpecUnit(req, typing)
  OBVIOUS
<1>13. NormalizeResultToSpecUnit(given, typing) = res
  BY <1>10, <1>11, <1>12 DEF NormalizeResultToSpecUnit
<1>14. res \in Text
  BY <1>12, NormalizeTwice
<1>15. ParseScalarToken(res) # None =>
         LET p == ParseScalarToken(res)
         IN p.unit \in {NoUnit, unit}
              \/ ~(Known(unit) /\ Known(p.unit)
                   /\ Scale[p.unit].canonical = Scale[unit].canonical)
  <2>1. PICK p : p = ParseScalarToken(res) /\ p \in Number \cup {None}
    BY <1>14, ScalarIs
  <2>2. CASE p # None
    BY <1>10, <1>12, <2>1, <2>2, StoredUnit
  <2> QED
    BY <2>1, <2>2
<1>16. ASSUME NEW over \in {">=", ">"}, NEW under \in {"<=", "<"}
       PROVE  Inside(res, glow, ghigh, over, under) = Inside(res, low, high, over, under)
  BY <1>3, <1>6, <1>14, <1>15, OnceInside
<1>17. EvaluateSpecResultVerify(given, res) = EvaluateSpecResultVerify(req, res)
  <2>1. CASE res = <<>>
    BY <2>1 DEF EvaluateSpecResultVerify
  <2>2. CASE res # <<>> /\ ParseDotDotRangeSpec(req) # None
    <3>1. range = ParseDotDotRangeSpec(req) /\ grange = ParseDotDotRangeSpec(given)
      BY <1>1, <1>3, <2>2 DEF Range2
    <3>2. EvaluateSpecResultVerify(req, res) = Inside(res, low, high, ">=", "<=")
      BY <1>2, <2>2, <3>1 DEF EvaluateSpecResultVerify
    <3>3. EvaluateSpecResultVerify(given, res) = Inside(res, glow, ghigh, ">=", "<=")
      BY <1>2, <1>3, <1>4, <1>5, <2>2, <3>1 DEF EvaluateSpecResultVerify
    <3> QED
      BY <1>16, <3>2, <3>3
  <2>3. CASE res # <<>> /\ ParseDotDotRangeSpec(req) = None
    <3>1. range = ParseBracketRangeSpec(req) /\ grange = ParseBracketRangeSpec(given)
      BY <1>1, <1>3, <2>3 DEF Range2
    <3>2. PICK over, under : over = range.over /\ under = range.under
      OBVIOUS
    <3>3. over \in {">=", ">"} /\ under \in {"<=", "<"}
      BY <1>1, <3>1, <3>2, BracketType
    <3>4. EvaluateSpecResultVerify(req, res) = Inside(res, low, high, over, under)
      BY <1>1, <1>2, <2>3, <3>1, <3>2 DEF EvaluateSpecResultVerify
    <3>5. EvaluateSpecResultVerify(given, res) = Inside(res, glow, ghigh, over, under)
      BY <1>2, <1>3, <1>4, <1>5, <2>3, <3>1, <3>2 DEF EvaluateSpecResultVerify
    <3> QED
      BY <1>16, <3>3, <3>4, <3>5
  <2> QED
    BY <2>1, <2>2, <2>3
<1> QED
  BY <1>1, <1>12, <1>13, <1>17

LEMMA StoredOnce == StoredInv => UnitMayBeGivenOnce
<1> SUFFICES ASSUME StoredInv, spec # <<>>, Cardinality(UnitsWritten(spec)) = 1
             PROVE  verdict = EvaluateSpecResultVerify(
                                Spelled(spec), NormalizeResultToSpecUnit(Spelled(spec), typed))
  BY DEF UnitMayBeGivenOnce
<1>1. spec \in Text /\ typed \in Text
  BY EntryIs DEF StoredInv
<1>2. verdict = EvaluateSpecResultVerify(spec, NormalizeResultToSpecUnit(spec, typed))
  BY DEF StoredInv
<1>3. PICK unit \in STRING \ {NoUnit} :
        /\ \E s \in Bounds(spec) : s # None /\ s.unit = unit
        /\ \A s \in Bounds(spec) : s # None /\ s.unit # NoUnit => s.unit = unit
        /\ Spelled(spec) = Given(spec, unit)
  BY <1>1, OneUnit
<1>4. CASE ParseComparatorSpec(spec) # None \/ Range2(spec) = None
  <2>1. Given(spec, unit) = spec
    BY <1>1, <1>3, <1>4, SingleGiven
  <2> QED
    BY <1>2, <1>3, <2>1
<1>5. CASE ParseComparatorSpec(spec) = None /\ Range2(spec) # None
  BY <1>1, <1>2, <1>3, <1>5, RangeDecides
<1> QED
  BY <1>4, <1>5

\* A range whose unit is written once decides every entry as the range that
\* repeats it, whatever its bounds and however the entry is written.
THEOREM UnitGivenOnce == Spec => []UnitMayBeGivenOnce
BY RowStored, StoredOnce, PTL

-----------------------------------------------------------------------------
(* Exact decimals.                                                         *)

LEMMA PowerAdds ==
  ASSUME NEW k \in Nat, NEW l \in Nat
  PROVE  PowerOfTen[k + l] = PowerOfTen[k] * PowerOfTen[l]
<1>1. PICK Wrong : Wrong = {n \in Nat : PowerOfTen[k + n] # PowerOfTen[k] * PowerOfTen[n]}
  OBVIOUS
<1> SUFFICES ASSUME Wrong # {} PROVE FALSE
  BY <1>1
<1>2. PICK n \in Wrong : \A m \in Wrong : ~(m < n)
  BY <1>1, LeastNat
<1>3. n \in Nat /\ PowerOfTen[k + n] # PowerOfTen[k] * PowerOfTen[n]
  BY <1>1
<1>4. n # 0
  <2>1. ASSUME n = 0 PROVE FALSE
    <3>1. PICK j : j = k + n
      OBVIOUS
    <3>2. j = k /\ PowerOfTen[n] = 1 /\ PowerOfTen[k] \in Nat
      BY <2>1, <3>1, PowerIs, PowerType
    <3> QED
      BY <1>3, <3>1, <3>2
  <2> QED
    BY <2>1
<1>5. PICK m : m = n - 1
  OBVIOUS
<1>6. m \in Nat /\ m < n
  BY <1>3, <1>4, <1>5
<1>7. PowerOfTen[k + m] = PowerOfTen[k] * PowerOfTen[m]
  BY <1>1, <1>2, <1>6
<1>8. PICK p, q, a, b : /\ p = PowerOfTen[k] /\ q = PowerOfTen[m]
                        /\ a = PowerOfTen[k + m] /\ b = PowerOfTen[n]
  OBVIOUS
<1>9. p \in Nat /\ q \in Nat /\ a = p * q
  BY <1>6, <1>7, <1>8, PowerType
<1>10. b = 10 * q
  BY <1>3, <1>4, <1>5, <1>8, PowerIs
<1>11. PowerOfTen[k + n] = 10 * a
  <2>1. PICK j : j = k + n
    OBVIOUS
  <2>2. j \in Nat \ {0} /\ j - 1 = k + m
    BY <1>3, <1>4, <1>5, <2>1
  <2>3. PowerOfTen[j] = 10 * PowerOfTen[j - 1]
    BY <2>2, PowerIs
  <2> QED
    BY <1>8, <2>1, <2>2, <2>3
<1>12. 10 * (p * q) = p * (10 * q)
  BY <1>9
<1> QED
  BY <1>3, <1>8, <1>9, <1>10, <1>11, <1>12

\* A decimal counted in units of the place m.
Value(a, m) == a.n * PowerOfTen[a.x - m]

LEMMA ValueDown ==
  ASSUME NEW a, Decimal(a), NEW l \in Int, NEW m \in Int, m <= l, l <= a.x
  PROVE  /\ Value(a, l) \in Int /\ Value(a, m) \in Int
         /\ PowerOfTen[l - m] \in Nat \ {0}
         /\ Value(a, m) = Value(a, l) * PowerOfTen[l - m]
<1>1. PICK i, j, k, n : i = a.x - l /\ j = l - m /\ k = a.x - m /\ n = a.n
  OBVIOUS
<1>2. i \in Nat /\ j \in Nat /\ k = i + j /\ n \in Int
  BY <1>1 DEF Decimal
<1>3. PICK p, q, r : p = PowerOfTen[i] /\ q = PowerOfTen[j] /\ r = PowerOfTen[k]
  OBVIOUS
<1>4. p \in Nat \ {0} /\ q \in Nat \ {0} /\ r = p * q
  BY <1>2, <1>3, PowerType, PowerAdds
<1>5. Value(a, l) = n * p /\ Value(a, m) = n * r
  BY <1>1, <1>3 DEF Value
<1>6. n * (p * q) = (n * p) * q
  BY <1>2, <1>4
<1>7. n * p \in Int /\ n * r \in Int
  BY <1>2, <1>4
<1> QED
  BY <1>1, <1>3, <1>4, <1>5, <1>6, <1>7

LEMMA Multiplied ==
  ASSUME NEW i \in Int, NEW j \in Int, NEW p \in Nat \ {0}
  PROVE  (i <= j <=> i * p <= j * p) /\ i * p \in Int
OBVIOUS

\* The place is at most h from the point.
Near(a, h) == Decimal(a) /\ -h <= a.x /\ a.x <= h

\* Within Digits places nothing is cut off: the order is that of the values, at
\* any place below both.
LEMMA LeqValue ==
  ASSUME NEW h \in Nat, 2 * h <= Digits, NEW a, Near(a, h), NEW b, Near(b, h),
         NEW m \in Int, m <= a.x, m <= b.x
  PROVE  Leq(a, b) <=> Value(a, m) <= Value(b, m)
<1>1. PICK x : x = Lower(a.x, b.x)
  OBVIOUS
<1>2. /\ x \in Int /\ x <= a.x /\ x <= b.x /\ m <= x /\ a.x - x <= Digits /\ b.x - x <= Digits
      /\ Decimal(a) /\ Decimal(b)
  BY <1>1, TextAssumption DEF Lower, Near, Decimal
<1>3. Lower(a.x - x, Digits) = a.x - x /\ Lower(b.x - x, Digits) = b.x - x
  BY <1>2, TextAssumption DEF Lower, Decimal
<1>4. Scaled(a, x) = Value(a, x) /\ Scaled(b, x) = Value(b, x)
  BY <1>3 DEF Scaled, Value
<1>5. PICK p : p = PowerOfTen[x - m]
  OBVIOUS
<1>6. /\ p \in Nat \ {0} /\ Value(a, x) \in Int /\ Value(b, x) \in Int
      /\ Value(a, m) = Value(a, x) * p /\ Value(b, m) = Value(b, x) * p
  BY <1>2, <1>5, ValueDown
<1>7. Value(a, x) <= Value(b, x) <=> Value(a, x) * p <= Value(b, x) * p
  BY <1>6, Multiplied
<1> QED
  BY <1>1, <1>4, <1>6, <1>7 DEF Leq

LEMMA DistanceValue ==
  ASSUME NEW h \in Nat, 2 * h <= Digits, NEW a, Near(a, h), NEW b, Near(b, h),
         NEW m \in Int, m <= a.x, m <= b.x
  PROVE  /\ Near(Distance(a, b), h) /\ m <= Distance(a, b).x
         /\ Value(Distance(a, b), m) = Magnitude(Value(a, m) - Value(b, m))
<1>1. PICK x : x = Lower(a.x, b.x)
  OBVIOUS
<1>2. /\ x \in Int /\ x <= a.x /\ x <= b.x /\ m <= x /\ a.x - x <= Digits /\ b.x - x <= Digits
      /\ Decimal(a) /\ Decimal(b) /\ -h <= x /\ x <= h
  BY <1>1, TextAssumption DEF Lower, Near, Decimal
<1>3. Lower(a.x - x, Digits) = a.x - x /\ Lower(b.x - x, Digits) = b.x - x
  BY <1>2, TextAssumption DEF Lower, Decimal
<1>4. Scaled(a, x) = Value(a, x) /\ Scaled(b, x) = Value(b, x)
  BY <1>3 DEF Scaled, Value
<1>5. PICK p, i, j, n : /\ p = PowerOfTen[x - m] /\ i = Value(a, x) /\ j = Value(b, x)
                        /\ n = Magnitude(i - j)
  OBVIOUS
<1>6. /\ p \in Nat \ {0} /\ i \in Int /\ j \in Int
      /\ Value(a, m) = i * p /\ Value(b, m) = j * p
  BY <1>2, <1>5, ValueDown
<1>7. Distance(a, b) = [n |-> n, x |-> x]
  BY <1>1, <1>4, <1>5 DEF Distance
<1>8. n \in Int
  BY <1>5, <1>6 DEF Magnitude
<1>9. Value(Distance(a, b), m) = n * p
  BY <1>5, <1>7 DEF Value
<1>10. n * p = Magnitude(i * p - j * p)
  <2>1. i * p - j * p = (i - j) * p
    BY <1>6
  <2>2. PICK d : d = i - j /\ d \in Int
    BY <1>6
  <2>3. d < 0 <=> d * p < 0
    BY <1>6, <2>2
  <2>4. (-d) * p = -(d * p) /\ d * p \in Int
    BY <1>6, <2>2
  <2> QED
    BY <1>5, <2>1, <2>2, <2>3, <2>4 DEF Magnitude
<1> QED
  BY <1>2, <1>6, <1>7, <1>8, <1>9, <1>10 DEF Near, Decimal

\* Two decimals of one value.
Same(a, b) == Leq(a, b) /\ Leq(b, a)

LEMMA SameCompares ==
  ASSUME NEW h \in Nat, 2 * h <= Digits, NEW a, Near(a, h), NEW b, Near(b, h), Same(a, b),
         NEW c, Near(c, h), NEW t, Near(t, h)
  PROVE  /\ Leq(a, c) <=> Leq(b, c)
         /\ Leq(c, a) <=> Leq(c, b)
         /\ Leq(Distance(a, c), t) <=> Leq(Distance(b, c), t)
<1>1. PICK m : m = -h
  OBVIOUS
<1>2. m \in Int /\ m <= a.x /\ m <= b.x /\ m <= c.x /\ m <= t.x
  BY <1>1 DEF Near
<1>3. Value(a, m) \in Int /\ Value(b, m) \in Int
  BY <1>2, ValueDown DEF Near, Decimal
<1>4. Value(a, m) = Value(b, m)
  <2>1. Value(a, m) <= Value(b, m) /\ Value(b, m) <= Value(a, m)
    BY <1>2, LeqValue DEF Same
  <2> QED
    BY <1>3, <2>1
<1>5. /\ Leq(a, c) <=> Value(a, m) <= Value(c, m)
      /\ Leq(b, c) <=> Value(b, m) <= Value(c, m)
      /\ Leq(c, a) <=> Value(c, m) <= Value(a, m)
      /\ Leq(c, b) <=> Value(c, m) <= Value(b, m)
  BY <1>2, LeqValue
<1>6. PICK d, e : d = Distance(a, c) /\ e = Distance(b, c)
  OBVIOUS
<1>7. /\ Near(d, h) /\ m <= d.x /\ Near(e, h) /\ m <= e.x
      /\ Value(d, m) = Magnitude(Value(a, m) - Value(c, m))
      /\ Value(e, m) = Magnitude(Value(b, m) - Value(c, m))
  BY <1>2, <1>6, DistanceValue
<1>8. /\ Leq(d, t) <=> Value(d, m) <= Value(t, m)
      /\ Leq(e, t) <=> Value(e, m) <= Value(t, m)
  BY <1>2, <1>7, LeqValue
<1> QED
  BY <1>4, <1>5, <1>6, <1>7, <1>8

\* Every number and every factor is at most b places from the point, and the
\* arithmetic goes far enough that no comparison cuts any of them off.
Placed(s, b) == s # None => -b <= s.x /\ s.x <= b
ExactArithmetic(b) ==
  /\ \A req \in Specs : \A s \in Bounds(req) : Placed(s, b)
  /\ \A text \in Results : Placed(ParseScalarToken(text), b)
  /\ \A unit \in DOMAIN Scale : -b <= Scale[unit].x /\ Scale[unit].x <= b
  /\ 6 * b + 22 <= Digits

LEMMA ToleranceNear ==
  ASSUME NEW b \in Nat, NEW r \in Number, Known(r.unit), -b <= r.x, r.x <= b,
         -b <= Scale[r.unit].x, Scale[r.unit].x <= b, NEW h, h = 3 * b + 11
  PROVE  Near(ResolveScalarEqualityTolerance(r), h)
<1>1. PICK own, far, k : /\ own = Own(r) /\ k = Scale[r.unit].x /\ far = Times(own, k)
  OBVIOUS
<1>2. r.x \in Int /\ k \in Int /\ -b <= k /\ k <= b
  BY <1>1, NumberIs, UnitIs
<1>3. Decimal(own) /\ -b - 9 <= own.x /\ own.x <= b
  <2>1. ExactEpsilon.x = -9 /\ Decimal(ExactEpsilon)
    BY EpsilonIs
  <2>2. QuarterStep(r).x = r.x - 2 /\ Decimal(QuarterStep(r))
    BY <1>2 DEF QuarterStep, Decimal
  <2>3. own \in {ExactEpsilon, QuarterStep(r)}
    BY <1>1 DEF Own, Larger
  <2> QED
    BY <1>2, <2>1, <2>2, <2>3
<1>4. Decimal(far) /\ far.x = own.x + k
  BY <1>1, <1>2, <1>3, TimesIs DEF Moved
<1>5. ResolveScalarEqualityTolerance(r) = Larger(ExactEpsilon, far)
  BY <1>1 DEF ResolveScalarEqualityTolerance, Own
<1>6. ResolveScalarEqualityTolerance(r) \in {ExactEpsilon, far}
  BY <1>5 DEF Larger
<1>7. ExactEpsilon.x = -9 /\ Decimal(ExactEpsilon)
  BY EpsilonIs
<1>8. Near(ExactEpsilon, h)
  BY <1>7 DEF Near
<1>9. Near(far, h)
  BY <1>2, <1>3, <1>4 DEF Near, Decimal
<1> QED
  BY <1>6, <1>8, <1>9

\* Two readings in the unit of the spec that stand for one value.
LEMMA ReadingsCompare ==
  ASSUME NEW b \in Nat, ExactArithmetic(b),
         NEW p \in Number, NEW q \in Number, NEW unit, Known(unit),
         p.unit = unit, q.unit = unit, Near(p, 3 * b), Near(q, 3 * b),
         Near(Canon(p), 2 * b), Near(Canon(q), 2 * b), Same(Canon(p), Canon(q)),
         NEW rhs \in Text, Placed(ParseScalarToken(rhs), b), NEW op \in Comparators,
         op \in {"<=", "<", ">=", ">"} \/ UnitOf(rhs) # NoUnit
  PROVE  Compare(op, <<p>>, rhs) = Compare(op, <<q>>, rhs)
<1> DEFINE h == 3 * b + 11
<1>1. PICK r : r = ParseScalarToken(rhs) /\ r \in Number \cup {None}
  BY ScalarIs
<1>e. /\ h \in Nat /\ 2 * h <= Digits
      /\ \A u \in DOMAIN Scale : -b <= Scale[u].x /\ Scale[u].x <= b
  BY DEF ExactArithmetic
<1>p. r # None => -b <= r.x /\ r.x <= b
  BY <1>1 DEF Placed
<1>2. /\ ParseScalarToken(<<p>>) = p /\ ParseScalarToken(<<q>>) = q /\ p # None /\ q # None
      /\ unit \in STRING /\ unit # NoUnit
  BY OneNumber, NumberIs, UnitIs
<1>3. CASE r = None
  BY <1>1, <1>3 DEF Compare
<1>4. CASE r # None /\ Known(r.unit)
  <2>1. /\ r \in Number /\ -b <= r.x /\ r.x <= b /\ Scale[r.unit].x \in Int
        /\ -b <= Scale[r.unit].x /\ Scale[r.unit].x <= b
    BY <1>1, <1>4, <1>e, <1>p, UnitIs DEF Known
  <2>2. p = Adopt(p, r) /\ q = Adopt(q, r)
    BY <1>2 DEF Adopt
  <2>3. PICK t, c, cp, cq : /\ t = ResolveScalarEqualityTolerance(r) /\ c = Canon(r)
                            /\ cp = Canon(p) /\ cq = Canon(q)
    OBVIOUS
  <2>4. Near(t, h)
    BY <1>4, <2>1, <2>3, ToleranceNear
  <2>5. Near(c, h)
    <3>1. Decimal(c) /\ c.x = r.x + Scale[r.unit].x /\ r.x \in Int
      BY <1>4, <2>1, <2>3, CanonIs, NumberIs
    <3> QED
      BY <2>1, <3>1 DEF Near
  <2>6. Near(cp, h) /\ Near(cq, h)
    BY <2>3 DEF Near, Decimal
  <2>7. Says(op, cp, c, t) <=> Says(op, cq, c, t)
    <3>1. /\ Leq(cp, c) <=> Leq(cq, c)
          /\ Leq(c, cp) <=> Leq(c, cq)
          /\ Leq(Distance(cp, c), t) <=> Leq(Distance(cq, c), t)
      <4> HIDE DEF h
      <4> QED
        BY <1>e, <2>3, <2>4, <2>5, <2>6, SameCompares
    <3> QED
      BY <3>1 DEF Says, Comparators
  <2>8. Compare(op, <<p>>, rhs) =
          IF CanonicalUnit(p) # CanonicalUnit(r) THEN "INDETERMINATE"
          ELSE AsVerdict(Says(op, cp, c, t))
    BY <1>1, <1>2, <1>4, <2>1, <2>2, <2>3, ComparedInCanonical
  <2>9. Compare(op, <<q>>, rhs) =
          IF CanonicalUnit(q) # CanonicalUnit(r) THEN "INDETERMINATE"
          ELSE AsVerdict(Says(op, cq, c, t))
    BY <1>1, <1>2, <1>4, <2>1, <2>2, <2>3, ComparedInCanonical
  <2>10. CanonicalUnit(p) = CanonicalUnit(q)
    BY DEF CanonicalUnit
  <2> QED
    BY <2>7, <2>8, <2>9, <2>10 DEF AsVerdict
<1>5. CASE r # None /\ ~Known(r.unit) /\ r.unit # NoUnit
  <2>1. r \in Number /\ r.unit \in STRING \ {NoUnit} /\ unit \notin {NoUnit, r.unit}
    BY <1>1, <1>2, <1>5, NumberIs
  <2>2. Compare(op, <<p>>, rhs) = "INDETERMINATE"
    BY <1>1, <1>2, <1>5, <2>1, OnceApart
  <2>3. Compare(op, <<q>>, rhs) = "INDETERMINATE"
    BY <1>1, <1>2, <1>5, <2>1, OnceApart
  <2> QED
    BY <2>2, <2>3
<1>6. CASE r # None /\ r.unit = NoUnit
  <2>1. r \in Number /\ -b <= r.x /\ r.x <= b /\ r.x \in Int
    BY <1>1, <1>6, <1>p, NumberIs
  <2>2. op \in {"<=", "<", ">=", ">"}
    BY <1>1, <1>6 DEF UnitOf
  <2>3. PICK g : g = [r EXCEPT !.unit = unit]
    OBVIOUS
  <2>4. g \in Number /\ g.unit = unit /\ g.n = r.n /\ g.x = r.x
    BY <1>2, <2>1, <2>3, NumberIs
  <2>5. Adopt(r, p) = g /\ Adopt(r, q) = g /\ Adopt(p, r) = p /\ Adopt(q, r) = q
    BY <1>2, <1>6, <2>3 DEF Adopt
  <2>6. /\ NormalizeScalarPairForCompare(p, r) = <<p, g>>
        /\ NormalizeScalarPairForCompare(q, r) = <<q, g>>
    BY <2>4, <2>5 DEF NormalizeScalarPairForCompare
  <2>7. <<p, g>> # None /\ <<q, g>> # None
    BY <2>4, TextAssumption
  <2>8. /\ Compare(op, <<p>>, rhs) = AsVerdict(Matched(op, p, g, r))
        /\ Compare(op, <<q>>, rhs) = AsVerdict(Matched(op, q, g, r))
    BY <1>1, <1>2, <1>6, <2>6, <2>7 DEF Compare
  <2>9. Same(p, q)
    <3>1. Decimal(p) /\ Decimal(q) /\ Decimal(Canon(p)) /\ Decimal(Canon(q))
      BY CanonIs, NumberIs
    <3>2. PICK k : k = Scale[unit].x
      OBVIOUS
    <3>3. k \in Int /\ Moved(p, Canon(p), k) /\ Moved(q, Canon(q), k)
      BY <3>2, CanonIs, UnitIs
    <3> QED
      BY <3>1, <3>3, MovedOrder DEF Same
  <2>10. Near(p, h) /\ Near(q, h)
    BY DEF Near, Decimal
  <2>11. Near(g, h)
    <3>1. Decimal(g)
      BY <2>4, NumberIs
    <3> QED
      BY <2>1, <2>4, <3>1 DEF Near
  <2>12. (Leq(p, g) <=> Leq(q, g)) /\ (Leq(g, p) <=> Leq(g, q))
    <3> HIDE DEF h
    <3> QED
      BY <1>e, <2>9, <2>10, <2>11, SameCompares
  <2>13. Matched(op, p, g, r) <=> Matched(op, q, g, r)
    BY <2>2, <2>12 DEF Matched
  <2> QED
    BY <2>8, <2>13 DEF AsVerdict
<1> QED
  BY <1>1, <1>3, <1>4, <1>5, <1>6

\* Two readings decide a spec with a unit alike when they compare alike to the
\* numbers that have one and order alike against the others, or when neither
\* compares to a number in that unit.
LEMMA DecidedAlike ==
  ASSUME NEW req \in Text, NEW unit, unit = ResolveSpecScalarUnit(req), unit # NoUnit,
         NEW l \in Text, NEW r \in Text, l # <<>>, r # <<>>,
         \/ \A op \in Comparators, rhs \in Text :
              ParseScalarToken(rhs) \in Bounds(req)
                /\ (op \in {"<=", "<", ">=", ">"} \/ UnitOf(rhs) # NoUnit)
              => Compare(op, l, rhs) = Compare(op, r, rhs)
         \/ \A op \in Comparators, rhs \in Text :
              UnitOf(rhs) = unit =>
                /\ Compare(op, l, rhs) = "INDETERMINATE"
                /\ Compare(op, r, rhs) = "INDETERMINATE"
  PROVE  EvaluateSpecResultVerify(req, l) = EvaluateSpecResultVerify(req, r)
<1>1. req # <<>>
  BY DEF ResolveSpecScalarUnit
<1>2. CASE ParseComparatorSpec(req) # None
  <2>1. PICK op, rhs : op = ParseComparatorSpec(req).op /\ rhs = ParseComparatorSpec(req).rhs
    OBVIOUS
  <2>2. op \in Comparators /\ rhs \in Text /\ ParseScalarToken(rhs) \in Bounds(req)
    BY <1>2, <2>1, ComparatorIs, BoundsAre
  <2>3. UnitOf(rhs) = unit
    BY <1>1, <1>2, <2>1 DEF ResolveSpecScalarUnit
  <2>4. Compare(op, l, rhs) = Compare(op, r, rhs)
    BY <2>2, <2>3
  <2> QED
    BY <1>1, <1>2, <2>1, <2>4 DEF EvaluateSpecResultVerify
<1>3. CASE ParseComparatorSpec(req) = None /\ Range2(req) # None
  <2>1. PICK low, high : low = Range2(req).low /\ high = Range2(req).high
    OBVIOUS
  <2>2. /\ low \in Text /\ high \in Text
        /\ ParseScalarToken(low) \in Bounds(req) /\ ParseScalarToken(high) \in Bounds(req)
    BY <1>3, <2>1, RangeIs, BoundsAre
  <2>3. UnitOf(low) = unit \/ UnitOf(high) = unit
    BY <1>1, <1>3, <2>1 DEF ResolveSpecScalarUnit, Range2, SelectSpecUnit
  <2>4. ASSUME NEW over \in {">=", ">"}, NEW under \in {"<=", "<"}
        PROVE  Inside(l, low, high, over, under) = Inside(r, low, high, over, under)
    <3>1. over \in Comparators /\ under \in Comparators
      BY DEF Comparators
    <3>2. \/ /\ Compare(over, l, low) = Compare(over, r, low)
             /\ Compare(under, l, high) = Compare(under, r, high)
          \/ /\ UnitOf(low) = unit
             /\ Compare(over, l, low) = "INDETERMINATE" /\ Compare(over, r, low) = "INDETERMINATE"
          \/ /\ UnitOf(high) = unit
             /\ Compare(under, l, high) = "INDETERMINATE"
             /\ Compare(under, r, high) = "INDETERMINATE"
      BY <2>2, <2>3, <3>1
    <3> QED
      BY <3>2 DEF Inside
  <2>5. CASE ParseDotDotRangeSpec(req) # None
    <3>1. Range2(req) = ParseDotDotRangeSpec(req)
      BY <2>5 DEF Range2
    <3>2. Inside(l, low, high, ">=", "<=") = Inside(r, low, high, ">=", "<=")
      BY <2>4
    <3> QED
      BY <1>1, <1>3, <2>1, <2>5, <3>1, <3>2 DEF EvaluateSpecResultVerify
  <2>6. CASE ParseDotDotRangeSpec(req) = None
    <3>1. Range2(req) = ParseBracketRangeSpec(req)
      BY <2>6 DEF Range2
    <3>2. PICK over, under : over = Range2(req).over /\ under = Range2(req).under
      OBVIOUS
    <3>3. over \in {">=", ">"} /\ under \in {"<=", "<"}
      BY <1>3, <3>1, <3>2, BracketType
    <3>4. Inside(l, low, high, over, under) = Inside(r, low, high, over, under)
      BY <2>4, <3>3
    <3> QED
      BY <1>1, <1>3, <2>1, <2>6, <3>1, <3>2, <3>4 DEF EvaluateSpecResultVerify
  <2> QED
    BY <2>5, <2>6
<1>4. CASE ParseComparatorSpec(req) = None /\ Range2(req) = None
  <2>1. ParseDotDotRangeSpec(req) = None /\ ParseBracketRangeSpec(req) = None
    BY <1>4 DEF Range2
  <2>2. UnitOf(req) = unit
    BY <1>1, <1>4, <2>1 DEF ResolveSpecScalarUnit
  <2>3. ParseScalarToken(req) # None
    BY <2>2 DEF UnitOf
  <2>4. ParseScalarToken(req) \in Bounds(req)
    BY <1>4, BoundsAre
  <2>5. Compare("=", l, req) = Compare("=", r, req)
    <3>1. "=" \in Comparators
      BY DEF Comparators
    <3> QED
      BY <2>2, <2>4, <3>1
  <2>6. ParseBooleanToken(req) = None
    <3>1. req[1].t # "word"
      BY <2>3, ScalarIs
    <3> QED
      BY <3>1 DEF ParseBooleanToken
  <2> QED
    BY <1>1, <1>4, <2>1, <2>3, <2>5, <2>6 DEF EvaluateSpecResultVerify
<1> QED
  BY <1>2, <1>3, <1>4

\* A reading in a known unit: as it was typed, and in the unit of the spec.
LEMMA ReadingNear ==
  ASSUME NEW b \in Nat, ExactArithmetic(b), NEW text \in Results,
         NEW s, s = ParseScalarToken(text), s # None, Known(s.unit),
         NEW unit, Known(unit), NEW q, q = InUnit(s, unit)
  PROVE  /\ q \in Number /\ q.unit = unit /\ Canon(q) = Canon(s)
         /\ Near(q, 3 * b) /\ Near(Canon(q), 2 * b)
<1>1. text \in Text
  BY EntryIs
<1>2. s \in Number
  BY <1>1, ScalarIs
<1>3. PICK x, k, l : x = s.x /\ k = Scale[s.unit].x /\ l = Scale[unit].x
  OBVIOUS
<1>4. x \in Int /\ k \in Int /\ l \in Int
  BY <1>2, <1>3, NumberIs, UnitIs
<1>5. -b <= x /\ x <= b /\ -b <= k /\ k <= b /\ -b <= l /\ l <= b
  BY <1>3 DEF ExactArithmetic, Placed, Known
<1>6. q \in Number /\ q.unit = unit /\ q.x = x + k - l /\ Canon(q) = Canon(s)
  BY <1>2, <1>3, RewrittenIs
<1>7. Decimal(q) /\ Decimal(Canon(s)) /\ Canon(s).x = x + k
  BY <1>2, <1>3, <1>6, CanonIs, NumberIs
<1> QED
  BY <1>4, <1>5, <1>6, <1>7 DEF Near

\* It is stored in the unit of the spec, or as it was typed.
LEMMA ReadingStored ==
  ASSUME NEW req, NEW unit, unit = ResolveSpecScalarUnit(req), unit # NoUnit,
         NEW res \in Text, NEW s \in Number, s = ParseScalarToken(res), Known(s.unit)
  PROVE  NormalizeResultToSpecUnit(req, res) =
           IF Known(unit) /\ Scale[s.unit].canonical = Scale[unit].canonical
           THEN <<InUnit(s, unit)>> ELSE res
<1>1. s # None /\ s.unit # NoUnit
  BY NumberIs, UnitIs
<1> QED
  BY <1>1 DEF NormalizeResultToSpecUnit

LEMMA SameQuantityIs ==
  ASSUME NEW l \in Text, NEW r \in Text, SameQuantity(l, r)
  PROVE  \E p \in Number, q \in Number :
           /\ p = ParseScalarToken(l) /\ q = ParseScalarToken(r)
           /\ Known(p.unit) /\ Known(q.unit)
           /\ Scale[p.unit].canonical = Scale[q.unit].canonical
           /\ Same(Canon(p), Canon(q))
<1>1. PICK p, q : p = ParseScalarToken(l) /\ q = ParseScalarToken(r)
  OBVIOUS
<1>2. p \in Number /\ q \in Number /\ Known(p.unit) /\ Known(q.unit)
  BY <1>1, ScalarIs DEF SameQuantity
<1>3. PICK c, d : c = NormalizeScalarToCanonical(p) /\ d = NormalizeScalarToCanonical(q)
  OBVIOUS
<1>4. c.unit = d.unit /\ Leq(c, d) /\ Leq(d, c)
  BY <1>1, <1>3 DEF SameQuantity
<1>5. /\ c.unit = Scale[p.unit].canonical /\ d.unit = Scale[q.unit].canonical
      /\ c.n = Canon(p).n /\ c.x = Canon(p).x /\ d.n = Canon(q).n /\ d.x = Canon(q).x
  BY <1>2, <1>3, CanonicalIs, CanonIs DEF CanonicalUnit
<1>6. Same(Canon(p), Canon(q))
  BY <1>4, <1>5 DEF Same, Leq, Scaled
<1> QED
  BY <1>1, <1>2, <1>4, <1>5, <1>6

\* Two readings of one quantity decide the spec alike once they are stored.
LEMMA QuantityDecides ==
  ASSUME NEW b \in Nat, ExactArithmetic(b), NEW req \in Specs, req # <<>>,
         ResolveSpecScalarUnit(req) # NoUnit,
         NEW l \in Results, NEW r \in Results, SameQuantity(l, r)
  PROVE  EvaluateSpecResultVerify(req, NormalizeResultToSpecUnit(req, l))
           = EvaluateSpecResultVerify(req, NormalizeResultToSpecUnit(req, r))
<1>1. PICK unit : unit = ResolveSpecScalarUnit(req)
  OBVIOUS
<1>2. req \in Text /\ l \in Text /\ r \in Text
  BY EntryIs
<1>3. PICK p \in Number, q \in Number :
        /\ p = ParseScalarToken(l) /\ q = ParseScalarToken(r)
        /\ Known(p.unit) /\ Known(q.unit)
        /\ Scale[p.unit].canonical = Scale[q.unit].canonical
        /\ Same(Canon(p), Canon(q))
  BY <1>2, SameQuantityIs
<1>4. p # None /\ q # None
  BY NumberIs
<1>5. CASE Known(unit) /\ Scale[p.unit].canonical = Scale[unit].canonical
  <2>1. PICK pu, qu : pu = InUnit(p, unit) /\ qu = InUnit(q, unit)
    OBVIOUS
  <2>2. /\ NormalizeResultToSpecUnit(req, l) = <<pu>>
        /\ NormalizeResultToSpecUnit(req, r) = <<qu>>
    <3>1. unit # NoUnit
      BY <1>1
    <3>2. NormalizeResultToSpecUnit(req, l) = <<InUnit(p, unit)>>
      BY <1>1, <1>2, <1>3, <1>5, <3>1, ReadingStored
    <3>3. /\ q = ParseScalarToken(r) /\ Known(q.unit) /\ Known(unit)
          /\ Scale[q.unit].canonical = Scale[unit].canonical
      BY <1>3, <1>5
    <3>4. NormalizeResultToSpecUnit(req, r) = <<InUnit(q, unit)>>
      BY <1>1, <1>2, <3>1, <3>3, ReadingStored
    <3> QED
      BY <2>1, <3>2, <3>4
  <2>3. /\ pu \in Number /\ pu.unit = unit /\ Canon(pu) = Canon(p)
        /\ Near(pu, 3 * b) /\ Near(Canon(pu), 2 * b)
    BY <1>3, <1>4, <1>5, <2>1, ReadingNear
  <2>4. /\ qu \in Number /\ qu.unit = unit /\ Canon(qu) = Canon(q)
        /\ Near(qu, 3 * b) /\ Near(Canon(qu), 2 * b)
    BY <1>3, <1>4, <1>5, <2>1, ReadingNear
  <2>5. Same(Canon(pu), Canon(qu))
    BY <1>3, <2>3, <2>4
  <2>8. ASSUME NEW op \in Comparators, NEW rhs \in Text,
               ParseScalarToken(rhs) \in Bounds(req),
               op \in {"<=", "<", ">=", ">"} \/ UnitOf(rhs) # NoUnit
        PROVE  Compare(op, <<pu>>, rhs) = Compare(op, <<qu>>, rhs)
    <3>1. Placed(ParseScalarToken(rhs), b)
      BY <2>8 DEF ExactArithmetic
    <3> QED
      BY <1>5, <2>3, <2>4, <2>5, <2>8, <3>1, ReadingsCompare
  <2>9. <<pu>> \in Text /\ <<qu>> \in Text /\ <<pu>> # <<>> /\ <<qu>> # <<>>
    BY <2>3, <2>4, OneNumber
  <2>10. EvaluateSpecResultVerify(req, <<pu>>) = EvaluateSpecResultVerify(req, <<qu>>)
    BY <1>1, <1>2, <2>8, <2>9, DecidedAlike
  <2> QED
    BY <2>2, <2>10
<1>6. CASE ~(Known(unit) /\ Scale[p.unit].canonical = Scale[unit].canonical)
  <2>1. NormalizeResultToSpecUnit(req, l) = l /\ NormalizeResultToSpecUnit(req, r) = r
    BY <1>1, <1>2, <1>3, <1>6, ReadingStored
  <2>2. /\ p.unit \notin {NoUnit, unit} /\ q.unit \notin {NoUnit, unit}
    BY <1>3, <1>6, UnitIs
  <2>3. ASSUME NEW op \in Comparators, NEW rhs \in Text, UnitOf(rhs) = unit
        PROVE  Compare(op, l, rhs) = "INDETERMINATE" /\ Compare(op, r, rhs) = "INDETERMINATE"
    <3>1. PICK c : c = ParseScalarToken(rhs)
      OBVIOUS
    <3>2. c \in Number /\ c.unit = unit
      BY <1>1, <2>3, <3>1, ScalarIs DEF UnitOf
    <3>3. unit \in STRING \ {NoUnit}
      BY <1>1, <3>2, NumberIs
    <3> QED
      BY <1>3, <1>6, <2>2, <3>1, <3>2, <3>3, OnceApart
  <2>4. l # <<>> /\ r # <<>>
    BY <1>3, <1>4, BlankIs
  <2>5. EvaluateSpecResultVerify(req, l) = EvaluateSpecResultVerify(req, r)
    BY <1>1, <1>2, <2>3, <2>4, DecidedAlike
  <2> QED
    BY <2>1, <2>5
<1> QED
  BY <1>5, <1>6

LEMMA StoredUnitFree ==
  ASSUME NEW b \in Nat, ExactArithmetic(b)
  PROVE  StoredInv => VerdictIsUnitFree
<1> SUFFICES ASSUME StoredInv, spec # <<>>, ResolveSpecScalarUnit(spec) # NoUnit,
                    NEW text \in Results, SameQuantity(typed, text)
             PROVE  verdict =
                      EvaluateSpecResultVerify(spec, NormalizeResultToSpecUnit(spec, text))
  BY DEF VerdictIsUnitFree
<1>1. spec \in Specs /\ typed \in Results \cup {<<>>}
  BY DEF StoredInv
<1>2. typed # <<>>
  <2>1. ParseScalarToken(<<>>) = None
    BY BlankIs
  <2> QED
    BY <2>1 DEF SameQuantity
<1>3. verdict = EvaluateSpecResultVerify(spec, NormalizeResultToSpecUnit(spec, typed))
  BY DEF StoredInv
<1> QED
  BY <1>1, <1>2, <1>3, QuantityDecides

\* However a quantity is written, in whatever known unit and at whatever place,
\* the verdict is the same: for every table, spec and reading whose exponents
\* stay within the digits the arithmetic carries.
THEOREM UnitFree ==
  ASSUME NEW b \in Nat, ExactArithmetic(b)
  PROVE  Spec => []VerdictIsUnitFree
<1>1. StoredInv => VerdictIsUnitFree
  BY StoredUnitFree
<1> QED
  BY <1>1, RowStored, PTL
==============================================================================
