---------------------------- MODULE VerifySpecs ----------------------------
(***************************************************************************)
(* How a row's result is measured against its spec: the deterministic      *)
(* grammar, the unit table and the tolerances of                           *)
(* src/core/checklist_store.cpp (NormalizeResultToSpecUnit, applied to     *)
(* every result that is stored, and EvaluateSpecResultVerify, applied to   *)
(* what is stored).                                                        *)
(*                                                                         *)
(* A text is a sequence of lexemes, blanks left out.  A number is a        *)
(* lexeme together with the unit that follows it and stands for the        *)
(* decimal n * 10^x; `precise' says that it was written with fractional    *)
(* digits or an exponent, so that 10^x is its last place.                  *)
(*                                                                         *)
(* The code computes in doubles and writes what it stores with twelve      *)
(* digits.  The model computes with the decimals.  Under                   *)
(* PrecisionAssumption the two agree on every text that is stored, since   *)
(* twelve digits give back the decimal that the multiplications missed by  *)
(* a rounding error, and on every comparison but one: a number that is     *)
(* converted to be compared and lies exactly on the bound, or exactly a    *)
(* tolerance away from it, falls on the side that the rounding chooses.    *)
(* `0.7 cm' is 0.006999999999999999 m and `7 mm' is 0.007 m, yet `0.7 cm'  *)
(* is stored as `7 mm'.  AtBound names that case, and what is claimed      *)
(* about a reading before it is converted leaves it out.  Units whose      *)
(* factor is not a power of ten (psi, in, min, ...) are not in the         *)
(* instances.                                                              *)
(***************************************************************************)
EXTENDS Predicates, Sequences

CONSTANTS Specs,      \* texts rows have as their spec
          Results,    \* texts users enter as a result
          Scale,      \* unit -> its canonical unit and factor 10^x: the known units
          NoUnit,     \* no unit written
          Digits,     \* places a number is moved by at most when it is compared
          Significant \* digits that a number is written with at most

Number == [t : {"num"}, n : Int, x : Int, precise : BOOLEAN, unit : STRING]
Comparators == {"<=", ">=", "<", ">", "=", "==", "!="}
Lexeme == Number \cup [t : {"op"}, v : Comparators]
                 \cup [t : {"word"}, v : STRING \ {NoUnit}]
                 \cup [t : {"bracket", "mark"}, v : STRING]
Text == Seq(Lexeme)

\* None is none of the things a recogniser may find.
ASSUME TextAssumption ==
  /\ Specs \subseteq Text /\ Results \subseteq Text
  /\ NoUnit \in STRING
  /\ Digits \in Nat
  /\ None \notin Number /\ None \notin Number \X Number
  /\ None \notin [op : Comparators, rhs : Text] /\ None \notin [low : Text, high : Text]
  /\ None \notin [low : Text, high : Text, over : Comparators, under : Comparators]

\* A canonical unit that is itself in the table stands for itself.
ASSUME ScaleAssumption ==
  /\ DOMAIN Scale \subseteq STRING \ {NoUnit}
  /\ \A unit \in DOMAIN Scale :
       /\ Scale[unit].canonical \in STRING /\ Scale[unit].x \in Int
       /\ Scale[unit].canonical \in DOMAIN Scale =>
            Scale[Scale[unit].canonical] = [canonical |-> Scale[unit].canonical, x |-> 0]

VARIABLES spec,       \* the row's spec, which never changes: it is part of its id
          typed,      \* the result as it was last entered
          result,     \* the result as it is stored
          verdict     \* what the Verify bridge last made of it

vars == <<spec, typed, result, verdict>>

Word(w) == [t |-> "word", v |-> w]
Num(n, x, unit) == [t |-> "num", n |-> n, x |-> x, precise |-> x < 0, unit |-> unit]
Op(o) == [t |-> "op", v |-> o]
Bracket(b) == [t |-> "bracket", v |-> b]
Mark(m) == [t |-> "mark", v |-> m]

-----------------------------------------------------------------------------
(* Decimals.  Exact while the last places of the two numbers are at most   *)
(* Digits apart; beyond that the coarser one is moved by Digits places     *)
(* only: TLC's integers carry no more.                                     *)

PowerOfTen[k \in Nat] == IF k = 0 THEN 1 ELSE 10 * PowerOfTen[k - 1]

Lower(a, b) == IF a < b THEN a ELSE b
Scaled(a, x) == a.n * PowerOfTen[Lower(a.x - x, Digits)]

Leq(a, b) ==
  LET x == Lower(a.x, b.x) IN Scaled(a, x) <= Scaled(b, x)

Magnitude(i) == IF i < 0 THEN -i ELSE i

Distance(a, b) ==
  LET x == Lower(a.x, b.x)
  IN [n |-> Magnitude(Scaled(a, x) - Scaled(b, x)), x |-> x]

Larger(a, b) == IF Leq(a, b) THEN b ELSE a
Times(a, x) == [n |-> a.n, x |-> a.x + x]

-----------------------------------------------------------------------------
(* Units.                                                                  *)

\* ResolveScalarUnitScale finds the unit.
Known(unit) == unit \in DOMAIN Scale

NormalizeScalarToCanonical(s) ==
  IF s.unit = NoUnit THEN s
  ELSE IF ~Known(s.unit) THEN None
  ELSE [s EXCEPT !.x = @ + Scale[s.unit].x, !.unit = Scale[s.unit].canonical]

\* A number without a unit takes the unit of the other.
Adopt(s, other) == IF s.unit = NoUnit THEN [s EXCEPT !.unit = other.unit] ELSE s

NormalizeScalarPairForCompare(l, r) ==
  LET lhs == Adopt(l, r)
      rhs == Adopt(r, l)
      cl == NormalizeScalarToCanonical(lhs)
      cr == NormalizeScalarToCanonical(rhs)
  IN IF lhs.unit = rhs.unit THEN <<lhs, rhs>>
     ELSE IF cl = None \/ cr = None THEN None
     ELSE IF cl.unit = cr.unit THEN <<cl, cr>> ELSE None

-----------------------------------------------------------------------------
(* Tolerance of an equality.                                               *)

ExactEpsilon == [n |-> 1, x |-> -9]

\* A quarter of the last place written: kVerifyPrecisionToleranceFactor.
QuarterStep(s) == [n |-> 25, x |-> s.x - 2]

\* In canonical units if the unit is known.
ResolveScalarEqualityTolerance(s) ==
  LET own == IF s.precise THEN Larger(ExactEpsilon, QuarterStep(s)) ELSE ExactEpsilon
  IN IF Known(s.unit) THEN Larger(ExactEpsilon, Times(own, Scale[s.unit].x)) ELSE own

\* Mutant: the tolerance stays in canonical units.
ToleranceUnaligned(tolerance, s, compared) == tolerance

\* Back in the spec's own unit when that is the one compared in.
AlignScalarToleranceToComparisonUnit(tolerance, s, compared) ==
  IF Known(s.unit) /\ compared.unit = s.unit
  THEN Larger(ExactEpsilon, Times(tolerance, -Scale[s.unit].x))
  ELSE tolerance

Within(l, r, s) ==
  Leq(Distance(l, r), AlignScalarToleranceToComparisonUnit(
                        ResolveScalarEqualityTolerance(s), s, r))

\* The doubles of the code keep such numbers apart: twelve digits write them, and in
\* canonical units they are below a million, whose last place is far below the
\* smallest tolerance.
PrecisionAssumption ==
  /\ Significant \in 1..12
  /\ \A text \in Specs \cup Results : \A i \in DOMAIN text : text[i].t = "num" =>
       /\ Magnitude(text[i].n) < PowerOfTen[Significant]
       /\ Known(text[i].unit) =>
            LET room == 6 - (text[i].x + Scale[text[i].unit].x)
            IN room >= 0 /\ Magnitude(text[i].n) < PowerOfTen[Lower(room, Significant)]
ASSUME PrecisionAssumption

-----------------------------------------------------------------------------
(* The grammar.  Each recogniser yields its parts or None.                 *)

ParseScalarToken(text) ==
  IF Len(text) = 1 /\ text[1].t = "num" THEN text[1] ELSE None

Truths == {"true", "yes", "y", "pass"}
Falsehoods == {"false", "no", "n", "fail"}

ParseBooleanToken(text) ==
  IF Len(text) = 1 /\ text[1].t = "word" /\ text[1].v \in Truths \cup Falsehoods
  THEN IF text[1].v \in Truths THEN "TRUE" ELSE "FALSE"
  ELSE None

ParseComparatorSpec(req) ==
  IF Len(req) > 1 /\ Head(req).t = "op"
  THEN [op |-> Head(req).v, rhs |-> Tail(req)] ELSE None

Places(text, lexeme) == {i \in DOMAIN text : text[i] = lexeme}
FirstOf(S) == CHOOSE i \in S : \A j \in S : i <= j
LastOf(S) == CHOOSE i \in S : \A j \in S : j <= i

\* text before and after its first lexeme of that kind, neither empty.
SplitAt(text, lexeme) ==
  LET at == Places(text, lexeme)
  IN IF at = {} THEN None
     ELSE LET i == FirstOf(at)
          IN IF i = 1 \/ i = Len(text) THEN None
             ELSE [low |-> SubSeq(text, 1, i - 1),
                   high |-> SubSeq(text, i + 1, Len(text))]

Dots == Mark("..")
ParseDotDotRangeSpec(req) == SplitAt(req, Dots)

\* A unit after the closing bracket goes to the bounds that have none.
ApplyTrailingUnitSuffix(text, unit) ==
  LET s == ParseScalarToken(text)
  IN IF unit = <<>> \/ s = None \/ (s # None /\ s.unit # NoUnit) THEN text
     ELSE <<[s EXCEPT !.unit = unit[1].v]>>

Opening == {Bracket("["), Bracket("(")}
Closing == {Bracket("]"), Bracket(")")}

ParseBracketRangeSpec(req) ==
  LET opens == req[1] \in Opening
      closes == {i \in DOMAIN req : req[i] \in Closing}
      close == LastOf(closes)
      unit == SubSeq(req, close + 1, Len(req))
      inner == SubSeq(req, 2, close - 1)
      comma == Mark(",")
      parts == SplitAt(inner, IF Places(inner, comma) # {} THEN comma ELSE Mark(" - "))
  IN IF ~opens \/ closes = {} THEN None
     ELSE IF Len(unit) > 1 \/ (unit # <<>> /\ unit[1].t # "word") THEN None
     ELSE IF parts = None THEN None
     ELSE [low |-> ApplyTrailingUnitSuffix(parts.low, unit),
           high |-> ApplyTrailingUnitSuffix(parts.high, unit),
           over |-> IF req[1].v = "[" THEN ">=" ELSE ">",
           under |-> IF req[close].v = "]" THEN "<=" ELSE "<"]

\* It contains < or > or .., or is bracketed, and nothing above took it.
LooksStructured(req) ==
  \/ Places(req, Dots) # {}
  \/ \E o \in {"<", "<=", ">", ">="} : Places(req, Op(o)) # {}
  \/ req[1] \in Opening /\ req[Len(req)] \in Closing

-----------------------------------------------------------------------------
(* Storing a result: it is rewritten in the unit of the spec.              *)

UnitOf(text) == LET s == ParseScalarToken(text) IN IF s = None THEN NoUnit ELSE s.unit

\* Mutant: only the lower bound is looked at.
SelectLowUnit(range) == UnitOf(range.low)

SelectSpecUnit(range) ==
  IF UnitOf(range.low) # NoUnit THEN UnitOf(range.low) ELSE UnitOf(range.high)

ResolveSpecScalarUnit(req) ==
  IF req = <<>> THEN NoUnit
  ELSE IF ParseComparatorSpec(req) # None THEN UnitOf(ParseComparatorSpec(req).rhs)
  ELSE IF ParseDotDotRangeSpec(req) # None THEN SelectSpecUnit(ParseDotDotRangeSpec(req))
  ELSE IF ParseBracketRangeSpec(req) # None
       THEN SelectSpecUnit(ParseBracketRangeSpec(req))
  ELSE UnitOf(req)

\* Mutant: the number is left as it is and only its unit replaced.
InUnitRelabelled(s, unit) == Num(s.n, s.x, unit)

\* The value in canonical units divided by the factor of the spec's unit: the decimal
\* that the twelve digits of the text have under PrecisionAssumption.
InUnit(s, unit) ==
  Num(s.n, NormalizeScalarToCanonical(s).x - Scale[unit].x, unit)

NormalizeResultToSpecUnit(req, res) ==
  LET unit == ResolveSpecScalarUnit(req)
      parsed == ParseScalarToken(res)
      s == IF parsed # None /\ parsed.unit = NoUnit THEN [parsed EXCEPT !.unit = unit]
           ELSE parsed
  IN IF unit = NoUnit \/ s = None THEN res
     ELSE IF ~Known(s.unit) \/ ~Known(unit) THEN res
     ELSE IF Scale[s.unit].canonical # Scale[unit].canonical THEN res
     ELSE <<InUnit(s, unit)>>

-----------------------------------------------------------------------------
(* Evaluating it.                                                          *)

AsVerdict(b) == IF b THEN "TRUE" ELSE "FALSE"

Matched(op, l, r, s) ==
  CASE op = "<=" -> Leq(l, r)
    [] op = ">=" -> Leq(r, l)
    [] op = "<" -> ~Leq(r, l)
    [] op = ">" -> ~Leq(l, r)
    [] op \in {"=", "=="} -> Within(l, r, s)
    [] op = "!=" -> ~Within(l, r, s)

Compare(op, res, rhs) ==
  LET l == ParseScalarToken(res)
      r == ParseScalarToken(rhs)
      pair == NormalizeScalarPairForCompare(l, r)
  IN IF l = None \/ r = None THEN "INDETERMINATE"
     ELSE IF pair = None THEN "INDETERMINATE"
     ELSE AsVerdict(Matched(op, pair[1], pair[2], r))

Inside(res, low, high, over, under) ==
  LET bounds == {Compare(over, res, low), Compare(under, res, high)}
  IN IF "INDETERMINATE" \in bounds THEN "INDETERMINATE" ELSE AsVerdict(bounds = {"TRUE"})

EvaluateSpecResultVerify(req, res) ==
  IF req = <<>> \/ res = <<>> THEN "INDETERMINATE"
  ELSE LET comparator == ParseComparatorSpec(req)
           dots == ParseDotDotRangeSpec(req)
           bracket == ParseBracketRangeSpec(req)
           boolean == ParseBooleanToken(req)
       IN IF comparator # None THEN Compare(comparator.op, res, comparator.rhs)
          ELSE IF dots # None THEN Inside(res, dots.low, dots.high, ">=", "<=")
          ELSE IF bracket # None
               THEN Inside(res, bracket.low, bracket.high, bracket.over, bracket.under)
          ELSE IF boolean # None
               THEN IF ParseBooleanToken(res) = None THEN "INDETERMINATE"
                    ELSE AsVerdict(ParseBooleanToken(res) = boolean)
          ELSE IF ParseScalarToken(req) # None THEN Compare("=", res, req)
          ELSE IF LooksStructured(req) THEN "INDETERMINATE"
          ELSE AsVerdict(res = req)

-----------------------------------------------------------------------------
(* A row.                                                                  *)

Init ==
  /\ spec \in Specs
  /\ typed = <<>> /\ result = <<>> /\ verdict = "INDETERMINATE"

\* ApplyUpdate with a result: stored in the unit of the spec, then evaluated
\* as stored.
Enter(text) ==
  /\ typed' = text
  /\ result' = NormalizeResultToSpecUnit(spec, text)
  /\ verdict' = EvaluateSpecResultVerify(spec, result')
  /\ UNCHANGED spec

\* UpsertSlug of the row as it is, by an import of its own export: the stored
\* result is normalised again and not evaluated.
Upsert ==
  /\ result' = NormalizeResultToSpecUnit(spec, result)
  /\ UNCHANGED <<spec, typed, verdict>>

Next == (\E text \in Results : Enter(text)) \/ Upsert

Spec == Init /\ [][Next]_vars

-----------------------------------------------------------------------------
\* The numbers of a spec, with their units as they are compared: those of a
\* bracket have been given the unit behind it.
Bounds(req) ==
  LET range == IF ParseDotDotRangeSpec(req) # None THEN ParseDotDotRangeSpec(req)
               ELSE ParseBracketRangeSpec(req)
      parts == IF ParseComparatorSpec(req) # None THEN {ParseComparatorSpec(req).rhs}
               ELSE IF range # None THEN {range.low, range.high} ELSE {req}
  IN {ParseScalarToken(p) : p \in parts}

UnitsGiven(req, res) ==
  /\ req # <<>> /\ \A s \in Bounds(req) : s # None /\ Known(s.unit)
  /\ UnitOf(res) # NoUnit \/ Cardinality({s.unit : s \in Bounds(req)}) = 1

\* What a result is compared to, and how.
Compared(req) ==
  LET comparator == ParseComparatorSpec(req)
      dots == ParseDotDotRangeSpec(req)
      bracket == ParseBracketRangeSpec(req)
  IN IF comparator # None THEN {comparator}
     ELSE IF dots # None THEN {[op |-> ">=", rhs |-> dots.low], [op |-> "<=", rhs |-> dots.high]}
     ELSE IF bracket # None
          THEN {[op |-> bracket.over, rhs |-> bracket.low],
                [op |-> bracket.under, rhs |-> bracket.high]}
     ELSE {[op |-> "=", rhs |-> req]}

Equal(a, b) == Leq(a, b) /\ Leq(b, a)

\* Two numbers as they are compared, s being the one in the spec: rounding decides.
Tied(op, l, r, s) ==
  IF op \in {"<=", ">=", "<", ">"} THEN Equal(l, r)
  ELSE Equal(Distance(l, r), AlignScalarToleranceToComparisonUnit(
                               ResolveScalarEqualityTolerance(s), s, r))

\* The reading is converted, now or when it is stored, and is tied with what it is
\* compared to.
AtBound(req, res) ==
  \E c \in Compared(req) :
    LET l == ParseScalarToken(res)
        r == ParseScalarToken(c.rhs)
        pair == NormalizeScalarPairForCompare(l, r)
    IN /\ l # None /\ r # None
       /\ Cardinality({l.unit, r.unit, ResolveSpecScalarUnit(req)} \ {NoUnit}) > 1
       /\ pair # None /\ Tied(c.op, pair[1], pair[2], r)

\* Two readings of one quantity: unit and place may differ.
SameQuantity(r1, r2) ==
  LET s1 == ParseScalarToken(r1)
      s2 == ParseScalarToken(r2)
  IN /\ s1 # None /\ s2 # None
     /\ Known(s1.unit) /\ Known(s2.unit)
     /\ LET c1 == NormalizeScalarToCanonical(s1)
            c2 == NormalizeScalarToCanonical(s2)
        IN c1.unit = c2.unit /\ Leq(c1, c2) /\ Leq(c2, c1)

\* The verdict the bridge acted on is the verdict of the result as it is stored,
\* however often it was stored again: it does not drift.  And it is the verdict of the
\* result as it was entered: converting the reading to the spec's unit, the tolerance
\* to the unit compared in, and evaluating at another time change nothing, unless the
\* reading is at a bound.  (Of a spec that mixes units, only for a reading that has
\* one.)  At a bound the code decides by what it stored: `0.7 cm' passes `>= 7 mm',
\* and would not if it were compared as it was entered (NormalizeResultToSpecUnit,
\* EvaluateSpecResultVerify).
VerdictSurvivesStorage ==
  /\ verdict = EvaluateSpecResultVerify(spec, result)
  /\ UnitsGiven(spec, typed) /\ ~AtBound(spec, typed)
       => verdict = EvaluateSpecResultVerify(spec, typed)

\* The verdict depends on the quantity measured and not on the unit it was
\* written in, also for a spec that gives the unit once for two bounds.
VerdictIsUnitFree ==
  spec # <<>> /\ ResolveSpecScalarUnit(spec) # NoUnit =>
    \A text \in Results :
      SameQuantity(typed, text) =>
        verdict = EvaluateSpecResultVerify(spec, NormalizeResultToSpecUnit(spec, text))

UnitsWritten(req) == {s.unit : s \in Bounds(req) \ {None}} \ {NoUnit}

\* Every number without a unit given this one.
WithUnit(e, unit) == IF e.t = "num" /\ e.unit = NoUnit THEN [e EXCEPT !.unit = unit] ELSE e
Given(text, unit) == [i \in DOMAIN text |-> WithUnit(text[i], unit)]

\* The spec with the one unit there is behind every number.
Spelled(req) == Given(req, CHOOSE u \in UnitsWritten(req) : TRUE)

\* "10..12 mm" means "10 mm..12 mm": a range whose unit is written once decides
\* every entry as the range that repeats it, although a bound without a unit
\* takes the unit of whatever reading it is compared to.
UnitMayBeGivenOnce ==
  spec # <<>> /\ typed # <<>> /\ Cardinality(UnitsWritten(spec)) = 1 =>
    verdict = EvaluateSpecResultVerify(
                Spelled(spec), NormalizeResultToSpecUnit(Spelled(spec), typed))
=============================================================================
