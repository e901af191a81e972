--------------------------- MODULE MCVerifySpecs ---------------------------
(* Specs of every shape of the grammar and readings in several units.  A   *)
(* number Num(n, x, unit) is n * 10^x.                                   *)
EXTENDS VerifySpecs

Unit(canonical, x) == [canonical |-> canonical, x |-> x]

MCScale ==
  [m |-> Unit("m", 0), cm |-> Unit("m", -2), mm |-> Unit("m", -3), nm |-> Unit("m", -9),
   Pa |-> Unit("Pa", 0), kPa |-> Unit("Pa", 3), bar |-> Unit("Pa", 5),
   A |-> Unit("A", 0), amp |-> Unit("A", 0), mA |-> Unit("A", -3)]

Comparisons ==
  {<<Op("<="), Num(12, 0, "mm")>>, <<Op(">="), Num(7, 0, "mm")>>, <<Op(">"), Num(25, -1, "bar")>>,
   <<Op("="), Num(50, -1, "mm")>>, <<Op("!="), Num(5, 0, "mA")>>,
   <<Op("=="), Num(5, 0, "none")>>, <<Op("<"), Word("warm")>>, <<Op("<")>>}

Ranges ==
  {<<Num(10, 0, "none"), Dots, Num(12, 0, "mm")>>,
   <<Num(1, 0, "cm"), Dots, Num(12, 0, "mm")>>,
   <<Num(5, 0, "mm"), Dots, Num(12, 0, "none")>>,
   <<Num(10, 0, "none"), Dots, Num(12, 0, "furlong")>>,
   <<Num(10, 0, "none"), Dots>>}

Brackets ==
  {<<Bracket("["), Num(10, 0, "none"), Mark(" - "), Num(12, 0, "none"), Bracket("]"), Word("mm")>>,
   <<Bracket("("), Num(1, 0, "cm"), Mark(","), Num(12, 0, "mm"), Bracket(")")>>,
   <<Bracket("["), Num(200, 0, "none"), Mark(","), Num(25, -1, "bar"), Bracket(")")>>,
   <<Bracket("["), Num(5, 0, "none"), Bracket("]")>>}

Plain ==
  {<<>>, <<Word("yes")>>, <<Word("fail")>>, <<Word("steel")>>, <<Num(25, -1, "bar")>>,
   <<Num(5, 0, "A")>>, <<Num(50, -1, "none")>>, <<Num(10, 0, "furlong")>>}

MCSpecs == Comparisons \cup Ranges \cup Brackets \cup Plain

MCResults ==
  {<<>>, <<Word("yes")>>, <<Word("no")>>, <<Word("steel")>>, <<Num(5, 0, "none")>>,
   <<Num(10, 0, "mm")>>, <<Num(7, -1, "cm")>>, <<Num(11, -1, "cm")>>, <<Num(11, 0, "mm")>>, <<Num(12, -1, "cm")>>,
   <<Num(12, 0, "none")>>, <<Num(50, -2, "cm")>>, <<Num(501, -2, "mm")>>, <<Num(501, -3, "cm")>>,
   <<Num(5, -3, "m")>>, <<Num(51, -1, "mm")>>, <<Num(250, 0, "kPa")>>,
   <<Num(252, -2, "bar")>>, <<Num(26, -1, "bar")>>, <<Num(5, 0, "amp")>>,
   <<Num(5, -3, "A")>>, <<Num(5, 0, "mA")>>, <<Num(10, 0, "furlong")>>}
=============================================================================
