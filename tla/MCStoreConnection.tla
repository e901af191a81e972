------------------------- MODULE MCStoreConnection -------------------------
(***************************************************************************)
(* Small instances of StoreConnection: two workers, two rows that exist    *)
(* (a and b), one that does not (c).                                       *)
(***************************************************************************)
EXTENDS StoreConnection

CONSTANTS a, b, c

MCAddress == {a, b, c}
MCRows == {a, b}
MCEdges == {[subject |-> a, target |-> b], [subject |-> b, target |-> b]}

E(x, y) == [subject |-> x, target |-> y]
Asks(op, subjects, items, edges, instance) ==
  [op |-> op, subjects |-> subjects, items |-> items, edges |-> edges,
   instance |-> instance]

update(x) == Asks("update", <<>>, <<x>>, {}, {})
bulk(items) == Asks("bulk", <<>>, items, {}, {})
relate(x, y) == Asks("relate", <<>>, <<>>, {E(x, y)}, {})
delete(instance) == Asks("delete", <<>>, <<>>, {}, instance)
import(subjects, edges, items) == Asks("import", subjects, items, edges, {})

AllCalls == {update(a), relate(a, b), bulk(<<a, b>>), bulk(<<b, c>>), delete({b}),
             import(<<a, c>>, {E(a, c), E(c, b), E(a, a)}, <<c, a>>),
             import(<<a>>, {E(a, b)}, <<>>)}

\* Calls of the counterexample.
UpdateAndBatch == {update(a), bulk(<<b, c>>)}
=============================================================================
