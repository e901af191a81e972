-------------------------- MODULE MCPredicateDaemon --------------------------
(***************************************************************************)
(* Small instances of PredicateDaemon: four rows, graphs with chains       *)
(* longer than the chain depth, forks, gates, cycles, self-loops and       *)
(* duplicate edges.                                                        *)
(***************************************************************************)
EXTENDS PredicateDaemon

CONSTANTS a, b, c, d, ann

MCAddress == {a, b, c, d}
MCUser == {ann}

\* 5cm is 50mm in the unit of row b; a result of "off" is out of spec.
cm == <<"typed", "5cm">>
mm == <<"typed", "50mm">>
off == <<"typed", "off">>
MCTyped == {cm, mm, off}

MCToSpecUnit(x, t) == IF x = b /\ t = cm THEN mm ELSE t
MCSpecVerdict(x, t) ==
  CASE t \in {cm, mm} -> "TRUE" [] t = off -> "FALSE" [] OTHER -> "INDETERMINATE"
MCTemplateText(x) == off

\* The lookup table beside the checklist: one line per subject value.
MCDataset(e, t) ==
  CASE t = StatusText("Pass") -> cm
    [] t = cm -> TimeText(0)
    [] t = off -> StatusText("Fail")
    [] OTHER -> Blank

-----------------------------------------------------------------------------
Propagates(when, gate, target) ==
  [kind |-> "propagate", when |-> when, gate |-> gate, target |-> target]
Verifies(gate, object) == [kind |-> "verify", gate |-> gate, object |-> object]
Copies(from, only, to) == [kind |-> "copy", from |-> from, only |-> only, to |-> to]
Prefills(from, only, to) == [kind |-> "prefill", from |-> from, only |-> only, to |-> to]

passPass == Propagates("Pass", "None", "Pass")
passFail == Propagates("Pass", "None", "Fail")
failPass == Propagates("Fail", "None", "Pass")
failFail == Propagates("Fail", "None", "Fail")
allPass == Propagates("Pass", "And", "Pass")
anyFail == Propagates("Fail", "Or", "Fail")
verified == Verifies("None", "Status")
allVerified == Verifies("And", "Status")
anyVerifiedNote == Verifies("Or", "Comment")
verifiedNA == Verifies("None", "NA")
resultToResult == Copies("Result", None, "Result")
resultToComment == Copies("Result", None, "Comment")
templateToResult == Copies("Template", "Pass", "Result")
commentToStatus == Copies("Comment", None, "Status")
stampToComment == Copies("Timestamp", None, "Comment")
searchResult == Prefills("Status", "Pass", "Result")
searchStamp == Prefills("Result", None, "Timestamp")
searchStatus == Prefills("Result", None, "Status")
sync == [kind |-> "inert"]

MCPredicate ==
  {passPass, passFail, failPass, failFail, allPass, anyFail, verified, allVerified,
   anyVerifiedNote, verifiedNA, resultToResult, resultToComment, templateToResult,
   commentToStatus, stampToComment, searchResult, searchStamp, searchStatus, sync}

\* An edge as the clients write it.
E(x, p, y) == [subject |-> x, predicate |-> p, target |-> y]

-----------------------------------------------------------------------------
\* A row nobody has worked on yet, and a store of such rows.
Fresh == [result |-> Blank, status |-> "Unknown", comment |-> Blank,
          timestamp |-> 0, entity |-> ann]
FreshRows == [x \in Address |-> Fresh]

\* The table that holds the edges of sequence `s'.
Table(s) == [i \in Slot |-> IF i <= Len(s) THEN s[i] ELSE None]
Stores(graphs) == {[rows |-> FreshRows, edges |-> Table(g)] : g \in graphs}

\* Chains, forks, gates, a cycle of opposite statuses, self-loops, duplicates.
MixedGraphs ==
  {<<E(a, passFail, b), E(b, failPass, a), E(b, failPass, c), E(c, passFail, d)>>,
   <<E(a, passPass, b), E(a, passPass, b), E(b, passPass, c), E(c, passPass, a)>>,
   <<E(a, allPass, c), E(a, passFail, b), E(b, allPass, c), E(b, anyFail, c)>>,
   <<E(a, verified, a), E(a, resultToResult, b), E(b, allVerified, c), E(a, allVerified, c)>>,
   <<E(a, resultToResult, b), E(b, resultToResult, a), E(a, anyVerifiedNote, c)>>,
   <<E(a, searchResult, b), E(b, searchStamp, a), E(b, verifiedNA, c), E(a, sync, b)>>,
   <<E(a, commentToStatus, b), E(b, stampToComment, c), E(a, searchStatus, a)>>,
   <<E(a, passFail, b), E(b, failFail, a), E(a, failPass, b), E(b, passPass, a)>>,
   <<E(a, templateToResult, b), E(b, verified, c), E(c, failFail, a), E(a, passPass, a)>>}

Asks(x, result, status, comment, timestamp) ==
  [address |-> x, result |-> result, status |-> status, comment |-> comment,
   timestamp |-> timestamp, entity |-> ann]

MixedRequests ==
  {Asks(a, None, "Pass", None, None),
   Asks(a, cm, None, None, None),
   Asks(b, off, "Fail", None, None),
   Asks(a, None, None, StatusText("Pass"), None),
   Asks(b, None, "Pass", None, 1)}

MixedStores == Stores(MixedGraphs)

-----------------------------------------------------------------------------
\* Layered graphs: a is the root, all paths between two rows are equally long.
LayeredGraphs ==
  {<<E(a, passPass, b), E(b, passPass, c)>>,
   <<E(a, passPass, b), E(a, failFail, b), E(b, passFail, c), E(b, failPass, c)>>,
   <<E(a, resultToResult, b), E(b, verified, c)>>,
   <<E(a, verified, b), E(b, anyFail, c), E(b, passPass, c)>>,
   <<E(a, allPass, c), E(b, allPass, c)>>,
   <<E(a, resultToComment, b), E(a, verified, c)>>}

LayeredRequests ==
  {Asks(a, None, "Pass", None, None), Asks(a, None, "Fail", None, None),
   Asks(a, mm, None, None, None), Asks(a, off, None, None, None),
   Asks(a, None, None, off, None)}

\* The second root of the gate graph is as good as the first; it must not be
\* written on the graphs where b has a parent.
LayeredStores ==
  {[rows |-> FreshRows, edges |-> Table(g)] : g \in LayeredGraphs}
  \cup {[rows |-> [FreshRows EXCEPT ![b].status = "Pass"],
         edges |-> Table(<<E(a, allPass, c), E(b, allPass, c)>>)]}

ASSUME GraphsAreLayered ==
  EffectiveDepth >= 2 => LayeredFor(LayeredStores, LayeredRequests)

-----------------------------------------------------------------------------
NoEdges == {}
NoInstances == {}
NewEdges == {E(c, passPass, b)}
Instances == {{b}, {a, c}}
=============================================================================
