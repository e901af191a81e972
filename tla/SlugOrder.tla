----------------------------- MODULE SlugOrder -----------------------------
(***************************************************************************)
(* Row order (table slug_order, checklist_store.cpp).  A row is an address *)
(* <<slug, instance>>; the table is a function from the addresses that     *)
(* have an order to integers.  Each section of an instance has a band of   *)
(* Stride values; a new row goes OrderGap after the last row of its        *)
(* section, and a section that reaches the end of its band is repacked.    *)
(***************************************************************************)
EXTENDS Integers, FiniteSets, SequencesExt

CONSTANTS
  Slugs,       \* slug ids of the template rows
  Instances,   \* instance ids
  Template,    \* the instance of the principal "template||default"
  SectionOf,   \* the section of a slug (part of the text its id hashes)
  RankOf,      \* place of a slug by procedure, action and address id
  Stride,      \* kSectionStride, 10,000,000 in the code
  OrderGap     \* kOrderGap, 1,000 in the code

ASSUME TemplateAssumption == Template \in Instances
ASSUME RankAssumption ==
  /\ \A x \in Slugs \cup Instances : RankOf[x] \in Int
  /\ \A x, y \in Slugs : RankOf[x] = RankOf[y] => x = y
  /\ \A x, y \in Instances : RankOf[x] = RankOf[y] => x = y
ASSUME StrideAssumption ==
  /\ Stride \in Nat \ {0}
  /\ OrderGap \in 1 .. Stride

SectionRows(ord, inst, section) ==
  {a \in DOMAIN ord : a[2] = inst /\ SectionOf[a[1]] = section}

Values(ord, as) == {ord[a] : a \in as}
Largest(S) == CHOOSE n \in S : \A m \in S : m <= n
Smallest(S) == CHOOSE n \in S : \A m \in S : n <= m

\* LookupSectionOrderInfo: the band is the one of the section's first row.
SectionBase(ord, rows) == (Smallest(Values(ord, rows)) \div Stride) * Stride

\* LookupMaxOrderForInstance, 0 for an instance without rows
MaxOrder(ord, inst) ==
  Largest({0} \cup {ord[a] : a \in {a \in DOMAIN ord : a[2] = inst}})

\* ORDER BY address_order, procedure, action, address_id
ComesBefore(ord, a, b) ==
  \/ ord[a] < ord[b]
  \/ ord[a] = ord[b] /\ RankOf[a[1]] < RankOf[b[1]]

\* Mutant: the query that repacks forgets ORDER BY address_order.
PlaceByText(ord, rows, a) ==
  1 + Cardinality({b \in rows : RankOf[b[1]] < RankOf[a[1]]})

Place(ord, rows, a) == 1 + Cardinality({b \in rows : ComesBefore(ord, b, a)})

\* RepackSectionOrders, stopped after the first n rows; the whole of it
\* when n is the number of rows.
RepackedTo(ord, rows, base, gap, n) ==
  [a \in DOMAIN ord |->
     IF a \in rows /\ Place(ord, rows, a) <= n
     THEN base + gap * Place(ord, rows, a)
     ELSE ord[a]]

Repack(ord, rows, base, gap) ==
  RepackedTo(ord, rows, base, gap, Cardinality(rows))

\* ResolveSectionOrder: the band of a section that is new in the instance
NewSectionOrder(ord, inst) ==
  LET max == MaxOrder(ord, inst)
  IN  (IF max > 0 THEN (max \div Stride + 1) * Stride ELSE 0) + OrderGap

\* The gap a full section is repacked with.
TightGap(rows) ==
  LET gap == Stride \div (Cardinality(rows) + 1)
  IN  IF gap >= 1 THEN gap ELSE 1

\* ResolveSectionOrder: must the section be repacked before it takes a row?
BandIsFull(ord, rows) ==
  Largest(Values(ord, rows)) + OrderGap >= SectionBase(ord, rows) + Stride

\* ResolveSectionOrder: the order of the next row and the table after it;
\* [next |-> , ord |-> ].
ResolveSectionOrder(ord, inst, section) ==
  LET rows == SectionRows(ord, inst, section)
      base == SectionBase(ord, rows)
      gap  == TightGap(rows)
  IN  IF rows = {}
      THEN [next |-> NewSectionOrder(ord, inst), ord |-> ord]
      ELSE IF BandIsFull(ord, rows)
      THEN [next |-> base + gap * (Cardinality(rows) + 1),
            ord  |-> Repack(ord, rows, base, gap)]
      ELSE [next |-> Largest(Values(ord, rows)) + OrderGap, ord |-> ord]

\* LookupTemplateOrder, 0 when the template has no such row
TemplateOrder(ord, slug) ==
  IF <<slug, Template>> \in DOMAIN ord THEN ord[<<slug, Template>>] ELSE 0

\* ResolveAddressOrder: the order of the request, the row's own, the
\* template's, and only then the end of the section.
ResolveAddressOrder(ord, a, requested) ==
  IF requested > 0 THEN [next |-> requested, ord |-> ord]
  ELSE IF a \in DOMAIN ord /\ ord[a] > 0 THEN [next |-> ord[a], ord |-> ord]
  ELSE IF TemplateOrder(ord, a[1]) > 0
  THEN [next |-> TemplateOrder(ord, a[1]), ord |-> ord]
  ELSE ResolveSectionOrder(ord, a[2], SectionOf[a[1]])

\* UpsertSlugOrder
WithOrder(ord, a, n) ==
  [b \in DOMAIN ord \cup {a} |-> IF b = a THEN n ELSE ord[b]]

(***************************************************************************)
(* BackfillSlugOrder, at every start.  With an empty table the sections of *)
(* each instance are numbered in the order of the query; otherwise each    *)
(* row without an order is resolved in turn.  The query order is by        *)
(* instance, section and rank; `query` is that sequence of addresses.      *)
(***************************************************************************)
BackfillAll(query) ==
  LET at(a) == CHOOSE n \in DOMAIN query : query[n] = a
      before(a, P(_)) == {query[m] : m \in {m \in 1 .. at(a) : P(query[m])}}
      sectionsUpTo(a) ==
        {SectionOf[b[1]] : b \in before(a, LAMBDA b : b[2] = a[2])}
      upTo(a) ==
        before(a, LAMBDA b : b[2] = a[2] /\ SectionOf[b[1]] = SectionOf[a[1]])
  IN  [a \in ToSet(query) |->
         (Cardinality(sectionsUpTo(a)) - 1) * Stride
           + Cardinality(upTo(a)) * OrderGap]

BackfillMissing(ord, query) ==
  LET resolved(o, a) == LET r == ResolveAddressOrder(o, a, 0)
                        IN  WithOrder(r.ord, a, r.next)
      filled[n \in Nat] ==
        IF n = 0 THEN ord
        ELSE IF query[n] \in DOMAIN ord THEN filled[n - 1]
        ELSE resolved(filled[n - 1], query[n])
  IN  filled[Len(query)]

Backfill(ord, query) ==
  IF DOMAIN ord = {} THEN BackfillAll(query) ELSE BackfillMissing(ord, query)

\* AssignImportOrder (app.cpp): the order of the rows of an imported file,
\* one band per section in the order they appear.
ImportOrder(doc, n) ==
  LET sections(k) == {SectionOf[doc[m]] : m \in 1 .. k}
      first == CHOOSE k \in 1 .. n : /\ SectionOf[doc[k]] = SectionOf[doc[n]]
                                     /\ \A m \in 1 .. k - 1 :
                                          SectionOf[doc[m]] # SectionOf[doc[n]]
  IN  (Cardinality(sections(first)) - 1) * Stride
        + Cardinality({m \in 1 .. n : SectionOf[doc[m]] = SectionOf[doc[n]]})
            * OrderGap
============================================================================
