--------------------------- MODULE MCChecklistRows --------------------------
(***************************************************************************)
(* Instances for TLC: a template T and an instance I; sOld was edited into  *)
(* sNew; source P holds the file before and after the edit, source Q shares *)
(* the row A with it and lists it twice.  An import of P may also declare   *)
(* sNew the successor of sOld, so that the instance's own edges say so.    *)
(***************************************************************************)
EXTENDS ChecklistRows

CONSTANTS A, sOld, sNew, T, I, P, Q, w1, w2

Rel(s, p, t) == [subject |-> s, predicate |-> p, target |-> t]

\* All rows in one section, so that the third one fills its band.
OneSection == [s \in {A, sOld, sNew} |-> 1]
Ranks == sOld :> 1 @@ A :> 2 @@ sNew :> 3 @@ T :> 1 @@ I :> 2

Before == [owner |-> P, rows |-> <<A, sOld>>, rels |-> {Rel(A, "dependsOn", sOld)}]
After  == [owner |-> P, rows |-> <<A, sNew>>,
           rels |-> {Rel(A, "dependsOn", sOld), Rel(sNew, Predecessor, sOld)}]
Other  == [owner |-> Q, rows |-> <<A, A>>, rels |-> {}]

Handed == [owner |-> P, rows |-> <<sOld, sNew>>, rels |-> {Rel(sOld, Successor, sNew)}]

\* The lines of an export: the addresses of the rows, the order of one.
Lines(doc, addressed, orders) ==
  [owner |-> doc.owner, rows |-> doc.rows, rels |-> {},
   addressed |-> addressed, orders |-> orders]

Edit == {Rel(sNew, Predecessor, sOld)}

Create(s, i, o) == [slug |-> s, inst |-> i, owner |-> o, ord |-> 0]
InInstance == {Create(s, I, None) : s \in {A, sOld, sNew}}
CreatedHere == InInstance \cup {Create(A, T, Q)}

Import(kind, inst, docs) == {[kind |-> kind, inst |-> inst, doc |-> d] : d \in docs}
AllImports == Import("replace", T, {Before, After, Other})
              \cup Import("keep", T, {Handed})
              \cup Import("markdown", T, {Before})
              \cup Import("jsonl", I, {Lines(Before, {}, <<None, None>>),
                                     Lines(After, {}, <<5, None>>)})
              \cup Import("jsonl", T, {Lines(Before, {1, 2}, <<None, None>>)})
Everyone == {w1, w2}
Threads == Permutations(Everyone)
Sources == {P, Q}
=============================================================================
