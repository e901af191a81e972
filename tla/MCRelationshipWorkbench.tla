---------------------- MODULE MCRelationshipWorkbench ----------------------
(* Three rows, of which a request shows some, and a slug of an earlier     *)
(* edition that b replaced; c may have replaced it too, or b replace itself. *)
EXTENDS RelationshipWorkbench

Rel(s, p, t) == [subject |-> s, predicate |-> p, target |-> t]

MCRows == {{"a"}, {"a", "b"}, {"a", "b", "c"}, {"b", "c"}}

MCLinks ==
  {{}, {Rel("a", "passPropagateImpliedPass", "a")},
   {Rel("a", "copy", "b"), Rel("b", "copy", "b")},
   {Rel("b", "copy", "old"), Rel("a", L!Predecessor, "old")},
   {Rel("a", "copy", "a"), Rel("a", "addressSuccessor", "b"), Rel("c", L!Predecessor, "c")}}

Replaced == Rel("b", L!Predecessor, "old")
MCFiles ==
  {None, {Replaced}, {Replaced, Rel("old", L!Successor, "b")},
   {Replaced, Rel("b", L!Predecessor, "b")}, {Replaced, Rel("c", L!Predecessor, "old")},
   {Rel("old", L!Successor, "b"), Rel("b", L!Successor, "c"), Rel("a", "copy", "gone")}}

Entry(slug, complete) == [slug |-> slug, complete |-> complete]
MCTerminals == {None, Entry("a", TRUE), Entry("a", FALSE), Entry("old", TRUE)}
MCSources == {None, Entry("a", TRUE), Entry("old", TRUE), Entry("c", TRUE)}

Header(binds, cells) == [binds |-> binds, cells |-> cells]
MCDatasets ==
  {[lookup |-> Entry("a", TRUE), derived |-> TRUE,
    columns |-> <<Header("a", <<"x", "x">>), Header("old", <<"x", "">>),
                  Header("b", <<"x", "y">>)>>],
   [lookup |-> None, derived |-> FALSE, columns |-> <<Header("a", <<"x", "x", "">>)>>],
   [lookup |-> Entry("gone", TRUE), derived |-> TRUE,
    columns |-> <<Header("gone", <<>>), Header(None, <<"", "x">>)>>],
   [lookup |-> Entry("old", TRUE), derived |-> FALSE, columns |-> <<Header("c", <<"y">>)>>]}
=============================================================================
