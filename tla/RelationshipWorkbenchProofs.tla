-------------------- MODULE RelationshipWorkbenchProofs --------------------
(***************************************************************************)
(* Theorems about RelationshipWorkbench, for any rows, relationships,      *)
(* declarations and datasets, however many there are.                      *)
(*                                                                         *)
(* The three invariants share one argument: what is drawn for a            *)
(* declaration is its node, the alias it was resolved through, and edges   *)
(* to exactly the rows it is counted for (lemma DeclarationDrawn).         *)
(***************************************************************************)
EXTENDS RelationshipWorkbench, FiniteSetTheorems, NaturalsInduction,
        WellFoundedInduction, TLAPS

Joined == \A e \in edges : e.source \in nodes /\ e.target \in nodes

RowsDrawn == phase # "graph" => \A s \in present : Row(s) \in nodes

DatasetDrawn == phase \in {"lookup", "columns"} => DatasetNode \in nodes

\* Nothing is drawn before the rows and their predicates were.
GraphOfRows ==
  /\ \A r \in graph : r.subject \in present
  /\ phase \in {"graph", "predicates"} => edges = {} /\ connected = {} /\ support = {}

\* The sets kept beside the edges are those the edges imply.
ConnectedIsTouched == connected = {s \in present : At(s) # {}}
SupportIsDeclared == support = {s \in present : \E e \in At(s) : e.class # "predicate"}

DrawnInv ==
  /\ RowsDrawn /\ DatasetDrawn /\ GraphOfRows
  /\ Joined /\ ConnectedIsTouched /\ SupportIsDeclared

\* No finding of these two kinds before its time, and then of the right rows.
Reported ==
  /\ phase \notin {"self", "done"} => \A f \in findings : f.code # "ORPHAN_ROW"
  /\ phase # "done" => \A f \in findings : f.code # "SELF_ONLY_RELATIONSHIP"
  /\ phase \in {"self", "done"} => Flagged("ORPHAN_ROW") = present \ connected
  /\ phase = "done" => Flagged("SELF_ONLY_RELATIONSHIP")
                         = (present \cap SelfPredicated) \ (NonSelfPredicated \cup support)

-----------------------------------------------------------------------------
\* The id of a row is the id of nothing else.
LEMMA RowIds ==
  ASSUME NEW s, NEW t, NEW i, NEW k, NEW kind \in {"external", "legacy_alias", "terminal",
           "mutation", "evidence", "dataset", "unresolved"}
  PROVE  /\ Row(s) = Row(t) => s = t
         /\ Row(s) # <<kind, i>>
         /\ Row(s) # <<"column", i, k>>
  BY DEF Row

LEMMA ResolvedArePresent == ASSUME NEW slug PROVE Resolved(slug) \subseteq present
  BY DEF Resolved

\* Drawing a declaration keeps the edges joined to nodes, and the two sets of
\* rows equal to what the edges say.
LEMMA DeclarationDrawn ==
  ASSUME NEW id, NEW slug, NEW class, NEW extra, NEW joining,
         phase # "graph", RowsDrawn, Joined, ConnectedIsTouched, SupportIsDeclared,
         present' = present, nodes \subseteq nodes',
         id \in nodes', AliasNodes(slug) \subseteq nodes',
         \A s : id # Row(s),
         class # "predicate",
         \A e \in extra : /\ e.source \in nodes' /\ e.target \in nodes'
                          /\ \A s : Row(s) # e.source /\ Row(s) # e.target,
         joining = From(id, slug, class) \/ joining = To(id, slug, class),
         edges' = edges \cup extra \cup AliasEdges(slug) \cup joining,
         connected' = connected \cup Resolved(slug),
         support' = support \cup Resolved(slug)
  PROVE  Joined' /\ ConnectedIsTouched' /\ SupportIsDeclared'
<1>1. Resolved(slug) \subseteq present BY ResolvedArePresent
<1>2. \A s \in present : Row(s) \in nodes' BY DEF RowsDrawn
<1>3. ASSUME NEW e \in joining
      PROVE  /\ e.source \in nodes' /\ e.target \in nodes' /\ e.class = class
             /\ \E s \in Resolved(slug) : \/ e.source = id /\ e.target = Row(s)
                                          \/ e.source = Row(s) /\ e.target = id
  BY <1>1, <1>2 DEF From, To, Edge
<1>4. ASSUME NEW e \in AliasEdges(slug)
      PROVE  /\ e.source \in nodes' /\ e.target \in nodes' /\ e.class = "legacy_alias"
             /\ e.source = <<"legacy_alias", slug>>
             /\ \E s \in Resolved(slug) : e.target = Row(s)
  BY <1>1, <1>2 DEF AliasEdges, AliasNodes, Edge
<1>5. ASSUME NEW s \in Resolved(slug)
      PROVE  \E e \in joining : e.class = class /\ Row(s) \in {e.source, e.target}
  <2>1. CASE joining = From(id, slug, class)
    <3>1. Edge(id, Row(s), class) \in joining BY <2>1 DEF From
    <3> QED BY <3>1 DEF Edge
  <2>2. CASE joining = To(id, slug, class)
    <3>1. Edge(Row(s), id, class) \in joining BY <2>2 DEF To
    <3> QED BY <3>1 DEF Edge
  <2> QED BY <2>1, <2>2
<1>6. Joined' BY <1>3, <1>4 DEF Joined
<1>7. ASSUME NEW s \in present, NEW e \in edges', Row(s) \in {e.source, e.target}
      PROVE  e \in edges \/ s \in Resolved(slug)
  <2>1. CASE e \in joining
    BY <1>3, <1>7, <2>1, RowIds
  <2>2. CASE e \in AliasEdges(slug)
    BY <1>4, <1>7, <2>2, RowIds
  <2> QED BY <1>7, <2>1, <2>2
<1>8. ConnectedIsTouched'
  <2>1. \A s \in present : s \in connected' => \E e \in edges' : Row(s) \in {e.source, e.target}
    BY <1>5 DEF ConnectedIsTouched, At
  <2>2. \A s \in present : (\E e \in edges' : Row(s) \in {e.source, e.target}) => s \in connected'
    BY <1>7 DEF ConnectedIsTouched, At
  <2>3. connected' \subseteq present BY <1>1 DEF ConnectedIsTouched
  <2> QED BY <2>1, <2>2, <2>3 DEF ConnectedIsTouched, At
<1>9. SupportIsDeclared'
  <2>1. \A s \in present : s \in support' =>
          \E e \in edges' : Row(s) \in {e.source, e.target} /\ e.class # "predicate"
    BY <1>5 DEF SupportIsDeclared, At
  <2>2. \A s \in present :
          (\E e \in edges' : Row(s) \in {e.source, e.target} /\ e.class # "predicate")
            => s \in support'
    BY <1>7 DEF SupportIsDeclared, At
  <2>3. support' \subseteq present BY <1>1 DEF SupportIsDeclared
  <2> QED BY <2>1, <2>2, <2>3 DEF SupportIsDeclared, At
<1> QED BY <1>6, <1>8, <1>9

-----------------------------------------------------------------------------
\* Steps that draw nothing.
LEMMA NothingDrawn ==
  ASSUME DrawnInv, UNCHANGED <<present, graph, nodes, edges, connected, support>>,
         phase # "graph", phase' \notin {"graph", "predicates"},
         phase' \in {"lookup", "columns"} => DatasetNode' \in nodes
  PROVE  DrawnInv'
BY DEF DrawnInv, RowsDrawn, DatasetDrawn, GraphOfRows, Joined, ConnectedIsTouched,
       SupportIsDeclared, At

\* Drawing a declaration that needs no node but its own and its alias.
LEMMA DrawKeeps ==
  ASSUME NEW id, NEW slug, NEW class, NEW joining,
         DrawnInv, Draw(id, slug, joining),
         joining = From(id, slug, class) \/ joining = To(id, slug, class),
         \A s : id # Row(s), class # "predicate",
         phase \notin {"graph", "predicates"}, phase' \notin {"graph", "predicates"},
         phase' \in {"lookup", "columns"} => DatasetNode' \in nodes
  PROVE  DrawnInv'
<1>1. Joined' /\ ConnectedIsTouched' /\ SupportIsDeclared'
  <2> DEFINE extra == {}
  <2>1. /\ phase # "graph" /\ RowsDrawn /\ Joined /\ ConnectedIsTouched /\ SupportIsDeclared
        /\ present' = present /\ nodes \subseteq nodes' /\ id \in nodes'
        /\ AliasNodes(slug) \subseteq nodes'
        /\ edges' = edges \cup extra \cup AliasEdges(slug) \cup joining
        /\ connected' = connected \cup Resolved(slug)
        /\ support' = support \cup Resolved(slug)
    BY DEF DrawnInv, Draw, inputs
  <2>2. \A e \in extra : /\ e.source \in nodes' /\ e.target \in nodes'
                         /\ \A s : Row(s) # e.source /\ Row(s) # e.target
    OBVIOUS
  <2> HIDE DEF extra
  <2> QED BY <2>1, <2>2, DeclarationDrawn
<1>2. RowsDrawn' /\ DatasetDrawn' /\ GraphOfRows'
  BY DEF DrawnInv, Draw, inputs, RowsDrawn, DatasetDrawn, GraphOfRows
<1> QED BY <1>1, <1>2 DEF DrawnInv

LEMMA SectionsFollow ==
  ASSUME NEW section \in Sections
  PROVE  /\ section \in {"terminals", "mutations", "evidence", "datasets"}
         /\ After[section] \in {"mutations", "evidence", "datasets", "orphans"}
  BY DEF Sections, After

LEMMA DrawnInit == Init => DrawnInv
  BY DEF Init, DrawnInv, RowsDrawn, DatasetDrawn, GraphOfRows, Joined, ConnectedIsTouched,
         SupportIsDeclared, At

LEMMA DrawnStep == DrawnInv /\ [Next]_vars => DrawnInv'
<1> SUFFICES ASSUME DrawnInv, [Next]_vars PROVE DrawnInv'
  OBVIOUS
<1>1. CASE BuildChecklistGraph
  BY <1>1 DEF BuildChecklistGraph, DrawnInv, RowsDrawn, DatasetDrawn, GraphOfRows, Joined,
              ConnectedIsTouched, SupportIsDeclared, At
<1>2. CASE PredicateEdges
  <2>1. edges = {} /\ connected = {} /\ support = {} /\ support' = {} /\ present' = present
        /\ graph' = graph /\ phase = "predicates" /\ phase' = "markdown"
    BY <1>2 DEF PredicateEdges, DrawnInv, GraphOfRows, inputs
  <2>2. ASSUME NEW e \in edges'
        PROVE  \E r \in graph : /\ e.source = Row(r.subject) /\ e.target = End(r.target)
                                /\ e.class = "predicate"
    BY <1>2 DEF PredicateEdges, Edge
  <2>3. ASSUME NEW r \in graph
        PROVE  \E e \in edges' : e.source = Row(r.subject) /\ e.target = End(r.target)
    <3>1. Edge(Row(r.subject), End(r.target), "predicate") \in edges'
      BY <1>2 DEF PredicateEdges
    <3> QED BY <3>1 DEF Edge
  <2>4. \A s, t : s \in present => (End(t) = Row(s) <=> s = t)
    BY RowIds DEF End
  <2>5. \A r \in graph : r.subject \in present BY DEF DrawnInv, GraphOfRows
  <2>6. RowsDrawn' BY <1>2 DEF PredicateEdges, DrawnInv, RowsDrawn, inputs
  <2>7. DatasetDrawn' /\ GraphOfRows'
    BY <2>1, <2>5 DEF DatasetDrawn, GraphOfRows
  <2>8. Joined'
    <3>1. \A r \in graph : Row(r.subject) \in nodes' /\ End(r.target) \in nodes'
      BY <1>2, <2>1, <2>5, <2>6 DEF PredicateEdges, RowsDrawn
    <3> QED BY <2>2, <3>1 DEF Joined
  <2>9. ConnectedIsTouched'
    <3>1. connected' = present \cap UNION {{r.subject, r.target} : r \in graph}
      BY <1>2 DEF PredicateEdges
    <3>2. \A s \in present : (\E r \in graph : s = r.subject \/ s = r.target)
                              <=> (\E e \in edges' : Row(s) \in {e.source, e.target})
      BY <2>2, <2>3, <2>4, RowIds
    <3> QED BY <2>1, <3>1, <3>2 DEF ConnectedIsTouched, At
  <2>10. SupportIsDeclared'
    BY <2>1, <2>2 DEF SupportIsDeclared, At
  <2> QED BY <2>6, <2>7, <2>8, <2>9, <2>10 DEF DrawnInv
<1>3. CASE MarkdownFails
  BY <1>3, NothingDrawn DEF MarkdownFails, inputs
<1>4. CASE ReadMarkdown
  BY <1>4, NothingDrawn DEF ReadMarkdown, drawn
<1>5. CASE ReadBindings
  BY <1>5, NothingDrawn DEF ReadBindings, inputs
<1>6. CASE Mistyped
  BY <1>6, NothingDrawn, SectionsFollow DEF Mistyped, inputs, drawn
<1>7. ASSUME NEW section \in Sections, SectionDone(section) \/ SectionInvalid(section)
      PROVE  DrawnInv'
  BY <1>7, NothingDrawn, SectionsFollow DEF SectionDone, SectionInvalid, inputs, drawn
<1>8. ASSUME NEW entry \in TerminalEntries, Terminal(entry)
      PROVE  DrawnInv'
  <2>1. phase = "terminals" /\ phase' = "terminals" BY <1>8 DEF Terminal, Reading
  <2>2. CASE \E code : Report(code)
    BY <2>1, <2>2, NothingDrawn DEF Report, inputs
  <2>3. CASE ~ \E code : Report(code)
    <3> DEFINE id == <<"terminal", entry.slug>>
    <3>1. Draw(id, entry.slug, To(id, entry.slug, "declared_terminal"))
      BY <1>8, <2>3 DEF Terminal
    <3>2. \A s : id # Row(s) BY RowIds
    <3> HIDE DEF id
    <3> QED BY <2>1, <3>1, <3>2, DrawKeeps
  <2> QED BY <2>2, <2>3
<1>9. ASSUME NEW kind \in {"mutation", "evidence"}, NEW slug, NEW class,
             Numbered(kind, slug, class), class # "predicate",
             phase \notin {"graph", "predicates", "lookup", "columns"}, phase' = phase
      PROVE  DrawnInv'
  <2> DEFINE id == <<kind, numbered[kind]>>
  <2>1. Draw(id, slug, From(id, slug, class)) BY <1>9 DEF Numbered
  <2>2. \A s : id # Row(s) BY RowIds
  <2> HIDE DEF id
  <2> QED BY <1>9, <2>1, <2>2, DrawKeeps
<1>10. ASSUME NEW entry \in MutationEntries, MutationSource(entry)
       PROVE  DrawnInv'
  <2>1. phase = "mutations" /\ phase' = "mutations" BY <1>10 DEF MutationSource, Reading
  <2>2. CASE \E code : Report(code)
    BY <2>1, <2>2, NothingDrawn DEF Report, inputs
  <2>3. CASE Numbered("mutation", entry.slug, "direct_write")
    BY <1>9, <2>1, <2>3
  <2> QED BY <1>10, <2>2, <2>3 DEF MutationSource
<1>11. ASSUME NEW entry \in EvidenceEntries, EvidenceSource(entry)
       PROVE  DrawnInv'
  <2>1. phase = "evidence" /\ phase' = "evidence" BY <1>11 DEF EvidenceSource, Reading
  <2>2. CASE \E code : Report(code)
    BY <2>1, <2>2, NothingDrawn DEF Report, inputs
  <2>3. CASE Numbered("evidence", entry.slug, "evidence_capture")
    BY <1>9, <2>1, <2>3
  <2> QED BY <1>11, <2>2, <2>3 DEF EvidenceSource
<1>12. CASE RejectDataset
  BY <1>12, NothingDrawn DEF RejectDataset, Reading, Report, inputs
<1>13. ASSUME NEW decl \in Datasets, OpenDataset(decl)
       PROVE  DrawnInv'
  <2>1. /\ phase = "datasets" /\ phase' = "lookup" /\ nodes' = nodes \cup {DatasetNode}
        /\ UNCHANGED <<present, graph, edges, connected, support>>
    BY <1>13 DEF OpenDataset, Reading, inputs
  <2>2. DatasetNode' = DatasetNode
    <3>1. dataset' = [dataset EXCEPT !.decl = decl, !.column = 1, !.bound = 0, !.looked = FALSE]
      BY <1>13 DEF OpenDataset
    <3> QED BY <3>1 DEF DatasetNode
  <2> QED BY <2>1, <2>2 DEF DrawnInv, RowsDrawn, DatasetDrawn, GraphOfRows, Joined,
                            ConnectedIsTouched, SupportIsDeclared, At
<1>14. CASE Lookup
  <2>1. phase = "lookup" /\ phase' = "columns" BY <1>14 DEF Lookup
  <2>2. DatasetNode' = DatasetNode
    <3>1. dataset' = dataset \/ dataset' = [dataset EXCEPT !.looked = TRUE]
      BY <1>14 DEF Lookup
    <3>2. CASE dataset' = dataset BY <3>2 DEF DatasetNode
    <3>3. CASE dataset' = [dataset EXCEPT !.looked = TRUE] BY <3>3 DEF DatasetNode
    <3> QED BY <3>1, <3>2, <3>3
  <2>3. DatasetNode \in nodes BY <2>1 DEF DrawnInv, DatasetDrawn
  <2>4. CASE \E code : Report(code)
    BY <2>1, <2>2, <2>3, <2>4, NothingDrawn DEF Report, inputs
  <2>5. CASE \E slug : Draw(DatasetNode, slug, To(DatasetNode, slug, "lookup_key"))
    <3>1. PICK slug : Draw(DatasetNode, slug, To(DatasetNode, slug, "lookup_key")) BY <2>5
    <3>2. \A s : DatasetNode # Row(s) BY RowIds DEF DatasetNode
    <3> QED BY <2>1, <2>2, <2>3, <3>1, <3>2, DrawKeeps
  <2> QED BY <1>14, <2>4, <2>5 DEF Lookup
<1>15. CASE Column
  <2> DEFINE c == dataset.column
             header == dataset.decl.columns[c]
             id == ColumnNode(c)
             binds == IF dataset.decl.derived THEN header.binds ELSE None
             contains == Edge(DatasetNode, id, "contains_column")
             missing == <<"unresolved", binds>>
  <2>1. /\ phase = "columns" /\ phase' = "columns" /\ present' = present /\ graph' = graph
    BY <1>15 DEF Column, inputs
  <2>2. DatasetNode \in nodes BY <2>1 DEF DrawnInv, DatasetDrawn
  <2>3. DatasetNode' = DatasetNode BY <1>15, SMTT(30) DEF Column, DatasetNode
  <2>4. /\ contains.source = DatasetNode /\ contains.target = id
        /\ contains.class = "contains_column"
    BY DEF Edge
  <2>5. \A s : id # Row(s) /\ DatasetNode # Row(s) /\ missing # Row(s)
    BY RowIds DEF ColumnNode, DatasetNode
  <2>6. /\ Edge(id, missing, "column_binding").source = id
        /\ Edge(id, missing, "column_binding").target = missing
    BY DEF Edge
  <2>7. CASE /\ nodes' = nodes \cup {id} /\ edges' = edges \cup {contains}
             /\ UNCHANGED <<connected, support>>
    <3> HIDE DEF id, contains
    <3> QED BY <2>1, <2>2, <2>3, <2>4, <2>5, <2>7
        DEF DrawnInv, RowsDrawn, DatasetDrawn, GraphOfRows, Joined,
            ConnectedIsTouched, SupportIsDeclared, At
  <2>8. CASE /\ nodes' = nodes \cup {id, missing}
             /\ edges' = edges \cup {contains, Edge(id, missing, "column_binding")}
             /\ UNCHANGED <<connected, support>>
    <3> DEFINE loose == Edge(id, missing, "column_binding")
    <3>1. edges' = edges \cup {contains, loose} BY <2>8
    <3>2. loose.source = id /\ loose.target = missing BY <2>6
    <3> HIDE DEF id, contains, missing, loose
    <3> QED BY <2>1, <2>2, <2>3, <2>4, <2>5, <2>8, <3>1, <3>2
        DEF DrawnInv, RowsDrawn, DatasetDrawn, GraphOfRows, Joined,
            ConnectedIsTouched, SupportIsDeclared, At
  <2>9. CASE /\ nodes' = nodes \cup {id} \cup AliasNodes(binds)
             /\ edges' = edges \cup {contains} \cup AliasEdges(binds)
                               \cup From(id, binds, "column_binding")
             /\ connected' = connected \cup Resolved(binds)
             /\ support' = support \cup Resolved(binds)
    <3> HIDE DEF id, contains, binds
    <3>1. Joined' /\ ConnectedIsTouched' /\ SupportIsDeclared'
      <4> DEFINE extra == {contains}
                 joining == From(id, binds, "column_binding")
      <4>1. /\ phase # "graph" /\ RowsDrawn /\ Joined /\ ConnectedIsTouched /\ SupportIsDeclared
            /\ nodes \subseteq nodes' /\ id \in nodes' /\ AliasNodes(binds) \subseteq nodes'
        BY <2>1, <2>9 DEF DrawnInv
      <4>2. \A e \in extra : /\ e.source \in nodes' /\ e.target \in nodes'
                                  /\ \A s : Row(s) # e.source /\ Row(s) # e.target
        BY <2>2, <2>4, <2>5, <4>1
      <4>3. edges' = edges \cup extra \cup AliasEdges(binds) \cup joining
        BY <2>9
      <4>4. joining = From(id, binds, "column_binding") OBVIOUS
      <4>5. connected' = connected \cup Resolved(binds) /\ support' = support \cup Resolved(binds)
        BY <2>9
      <4> HIDE DEF extra, joining
      <4> QED BY <2>1, <2>5, <4>1, <4>2, <4>3, <4>4, <4>5, DeclarationDrawn
    <3>2. RowsDrawn' /\ DatasetDrawn' /\ GraphOfRows'
      BY <2>1, <2>2, <2>3, <2>9 DEF DrawnInv, RowsDrawn, DatasetDrawn, GraphOfRows
    <3> QED BY <3>1, <3>2 DEF DrawnInv
  <2> QED BY <1>15, <2>7, <2>8, <2>9 DEF Column, BoundRows
<1>16. CASE DatasetDone
  BY <1>16, NothingDrawn DEF DatasetDone, inputs
<1>17. CASE Orphans
  BY <1>17, NothingDrawn DEF Orphans, inputs
<1>18. CASE SelfOnly
  BY <1>18, NothingDrawn DEF SelfOnly, inputs
<1>19. CASE UNCHANGED vars
  BY <1>19 DEF vars, inputs, drawn, DrawnInv, RowsDrawn, DatasetDrawn, DatasetNode, GraphOfRows,
               Joined, ConnectedIsTouched, SupportIsDeclared, At
<1> QED
  BY <1>1, <1>2, <1>3, <1>4, <1>5, <1>6, <1>7, <1>8, <1>10, <1>11, <1>12, <1>13, <1>14, <1>15,
     <1>16, <1>17, <1>18, <1>19 DEF Next

-----------------------------------------------------------------------------
LEMMA ReportedInit == Init => Reported
  BY DEF Init, Reported

\* The findings of the last two sections.
Own == {"ORPHAN_ROW", "SELF_ONLY_RELATIONSHIP"}

\* A step of an earlier section adds findings of other kinds only.
OthersFound == \E extra : /\ findings' = findings \cup extra
                          /\ \A f \in extra : f.code \notin Own

LEMMA StillUnreported ==
  ASSUME Reported, phase \notin {"orphans", "self", "done"}, phase' \notin {"self", "done"},
         OthersFound
  PROVE  Reported'
BY DEF Reported, OthersFound, Own

LEMMA OneFinding ==
  ASSUME NEW code, code \notin Own, NEW at,
         findings' = findings \/ findings' = findings \cup {Finding(code, at)}
  PROVE  OthersFound
<1>1. \A f \in {Finding(code, at)} : f.code \notin Own BY DEF Finding
<1> DEFINE none == {}
<1>2. findings' = findings \cup none \/ findings' = findings \cup {Finding(code, at)} OBVIOUS
<1>3. \A f \in none : f.code \notin Own OBVIOUS
<1> HIDE DEF none
<1> QED BY <1>1, <1>2, <1>3 DEF OthersFound

LEMMA ColumnFinds ==
  ASSUME NEW cells, NEW c
  PROVE  \A f \in ColumnFindings(cells, c) : f.code \notin Own
<1> DEFINE constant == Finding("CONSTANT_COLUMN", ColumnNode(c))
           repeated == Finding("REPEATED_LITERAL", ColumnNode(c))
<1>1. constant.code \notin Own /\ repeated.code \notin Own BY DEF Finding, Own
<1>2. ColumnFindings(cells, c) \subseteq {constant, repeated} BY DEF ColumnFindings
<1> HIDE DEF constant, repeated
<1> QED BY <1>1, <1>2

LEMMA ReportedStep == Reported /\ [Next]_vars => Reported'
<1> SUFFICES ASSUME Reported, [Next]_vars PROVE Reported'
  OBVIOUS
<1>1. CASE UNCHANGED vars
  BY <1>1 DEF vars, inputs, drawn, Reported, Flagged, SelfPredicated, NonSelfPredicated
<1>2. CASE Orphans
  <2> DEFINE orphan(s) == [code |-> "ORPHAN_ROW", at |-> Row(s), unresolved |-> Unresolved(s)]
             S == present \ connected
             extra == {orphan(s) : s \in S}
  <2>1. /\ phase = "orphans" /\ phase' = "self" /\ findings' = findings \cup extra
        /\ UNCHANGED <<present, connected>>
    BY <1>2 DEF Orphans, inputs
  <2>2. \A s : orphan(s).code = "ORPHAN_ROW" /\ orphan(s).at = Row(s) OBVIOUS
  <2> HIDE DEF orphan
  <2>3. /\ \A f \in extra : f.code = "ORPHAN_ROW" /\ \E s \in S : f.at = Row(s)
        /\ \A s \in S : \E f \in extra : f.at = Row(s)
    BY <2>2
  <2>4. S \subseteq present OBVIOUS
  <2> HIDE DEF extra, S
  <2>5. Flagged("ORPHAN_ROW")' = S
    <3>1. PICK T, more : T = S /\ more = extra OBVIOUS
    <3>2. PICK P, old, all : P = present /\ old = findings /\ all = findings' OBVIOUS
    <3>3. \A f \in old : f.code # "ORPHAN_ROW" BY <2>1, <3>2 DEF Reported
    <3>4. T \subseteq P BY <2>4, <3>1, <3>2
    <3>5. all = old \cup more BY <2>1, <3>1, <3>2
    <3>6. \A f \in more : f.code = "ORPHAN_ROW" /\ \E s \in T : f.at = Row(s)
      BY <2>3, <3>1
    <3>7. \A s \in T : \E f \in more : f.at = Row(s) BY <2>3, <3>1
    <3>8. \A s \in P : s \in T <=> \E f \in all : f.code = "ORPHAN_ROW" /\ f.at = Row(s)
      BY <3>3, <3>4, <3>5, <3>6, <3>7, RowIds
    <3>9. T = {s \in P : \E f \in all : f.code = "ORPHAN_ROW" /\ f.at = Row(s)}
      BY <3>4, <3>8
    <3>10. Flagged("ORPHAN_ROW")'
           = {s \in P : \E f \in all : f.code = "ORPHAN_ROW" /\ f.at = Row(s)}
      BY <2>1, <3>2 DEF Flagged
    <3> QED BY <3>1, <3>9, <3>10
  <2>6. \A f \in findings' : f.code # "SELF_ONLY_RELATIONSHIP"
    <3>1. \A f \in findings : f.code # "SELF_ONLY_RELATIONSHIP" BY <2>1 DEF Reported
    <3> QED BY <2>1, <2>3, <3>1
  <2> QED BY <2>1, <2>5, <2>6 DEF Reported, S
<1>3. CASE SelfOnly
  <2> DEFINE only(s) == Finding("SELF_ONLY_RELATIONSHIP", Row(s))
             S == (present \cap SelfPredicated) \ (NonSelfPredicated \cup support)
             extra == {only(s) : s \in S}
  <2>1. /\ phase = "self" /\ phase' = "done" /\ findings' = findings \cup extra
        /\ UNCHANGED <<present, graph, connected, support>>
    BY <1>3 DEF SelfOnly, inputs
  <2>2. \A s : only(s).code = "SELF_ONLY_RELATIONSHIP" /\ only(s).at = Row(s) BY DEF Finding
  <2> HIDE DEF only
  <2>3. S' = S BY <2>1 DEF SelfPredicated, NonSelfPredicated
  <2>4. S \subseteq present OBVIOUS
  <2>5. /\ \A f \in extra : f.code = "SELF_ONLY_RELATIONSHIP" /\ \E s \in S : f.at = Row(s)
        /\ \A s \in S : \E f \in extra : f.at = Row(s)
    BY <2>2
  <2> HIDE DEF extra, S
  <2>6. Flagged("SELF_ONLY_RELATIONSHIP")' = S
    <3>1. PICK T, more : T = S /\ more = extra OBVIOUS
    <3>2. PICK P, old, all : P = present /\ old = findings /\ all = findings' OBVIOUS
    <3>3. \A f \in old : f.code # "SELF_ONLY_RELATIONSHIP" BY <2>1, <3>2 DEF Reported
    <3>4. T \subseteq P BY <2>4, <3>1, <3>2
    <3>5. all = old \cup more BY <2>1, <3>1, <3>2
    <3>6. \A f \in more : f.code = "SELF_ONLY_RELATIONSHIP" /\ \E s \in T : f.at = Row(s)
      BY <2>5, <3>1
    <3>7. \A s \in T : \E f \in more : f.at = Row(s) BY <2>5, <3>1
    <3>8. \A s \in P : s \in T <=> \E f \in all : f.code = "SELF_ONLY_RELATIONSHIP" /\ f.at = Row(s)
      BY <3>3, <3>4, <3>5, <3>6, <3>7, RowIds
    <3>9. T = {s \in P : \E f \in all : f.code = "SELF_ONLY_RELATIONSHIP" /\ f.at = Row(s)}
      BY <3>4, <3>8
    <3>10. Flagged("SELF_ONLY_RELATIONSHIP")'
           = {s \in P : \E f \in all : f.code = "SELF_ONLY_RELATIONSHIP" /\ f.at = Row(s)}
      BY <2>1, <3>2 DEF Flagged
    <3> QED BY <3>1, <3>9, <3>10
  <2>7. Flagged("ORPHAN_ROW")' = Flagged("ORPHAN_ROW")
    BY <2>1, <2>5 DEF Flagged
  <2>8. Flagged("ORPHAN_ROW") = present \ connected BY <2>1 DEF Reported
  <2> QED BY <2>1, <2>3, <2>6, <2>7, <2>8 DEF Reported, S
<1>4. CASE Column
  <2>1. phase = "columns" /\ phase' = "columns" BY <1>4 DEF Column
  <2> DEFINE header == dataset.decl.columns[dataset.column]
             cellsFound == ColumnFindings(header.cells, dataset.column)
             missing == Finding("COLUMN_BINDING_TARGET_MISSING", ColumnNode(dataset.column))
  <2>2. findings' = findings \cup cellsFound \/ findings' = findings \cup (cellsFound \cup {missing})
    BY <1>4 DEF Column
  <2>3. missing.code \notin Own BY DEF Finding, Own
  <2>4. \A f \in cellsFound : f.code \notin Own BY ColumnFinds
  <2> HIDE DEF cellsFound, missing
  <2>5. \A f \in cellsFound \cup {missing} : f.code \notin Own BY <2>3, <2>4
  <2>6. OthersFound BY <2>2, <2>4, <2>5 DEF OthersFound
  <2> QED BY <2>1, <2>6, StillUnreported
<1>5. ASSUME phase \notin {"orphans", "self", "done"}, phase' \notin {"self", "done"},
             \/ findings' = findings
             \/ \E code : code \notin Own /\ Report(code)
      PROVE  Reported'
  <2>1. \E code : /\ code \notin Own
                  /\ findings' = findings \/ findings' = findings \cup {Finding(code, None)}
    BY <1>5 DEF Report, Own
  <2>2. OthersFound BY <2>1, OneFinding
  <2> QED BY <1>5, <2>2, StillUnreported
<1>6. CASE BuildChecklistGraph BY <1>5, <1>6 DEF BuildChecklistGraph
<1>7. CASE PredicateEdges BY <1>5, <1>7 DEF PredicateEdges
<1>8. CASE ReadMarkdown BY <1>5, <1>8 DEF ReadMarkdown, drawn
<1>9. CASE Mistyped BY <1>5, <1>9, SectionsFollow DEF Mistyped, drawn
<1>10. CASE /\ OthersFound /\ phase \notin {"orphans", "self", "done"}
            /\ phase' \notin {"self", "done"}
  BY <1>10, StillUnreported
<1>11. CASE MarkdownFails
  <2>1. OthersFound BY <1>11, OneFinding DEF MarkdownFails, Own
  <2> QED BY <1>10, <1>11, <2>1 DEF MarkdownFails
<1>12. CASE ReadBindings
  <2>1. OthersFound BY <1>12, OneFinding DEF ReadBindings, Own
  <2> QED BY <1>10, <1>12, <2>1 DEF ReadBindings
<1>13. ASSUME NEW section \in Sections, SectionDone(section) \/ SectionInvalid(section)
       PROVE  Reported'
  <2>1. phase \notin {"orphans", "self", "done"} /\ phase' \notin {"self", "done"}
    BY <1>13, SectionsFollow DEF SectionDone, SectionInvalid
  <2>2. findings' = findings \/ findings' = findings \cup {Finding("SECTION_INVALID", section)}
    BY <1>13 DEF SectionDone, SectionInvalid, drawn
  <2>3. OthersFound BY <2>2, OneFinding DEF Own
  <2> QED BY <1>10, <2>1, <2>3
<1>14. ASSUME NEW entry \in TerminalEntries, Terminal(entry)
       PROVE  Reported'
  BY <1>5, <1>14 DEF Terminal, Reading, Draw, Own
<1>15. ASSUME NEW entry \in MutationEntries, MutationSource(entry)
       PROVE  Reported'
  <2>1. findings' = findings \/ \E code : code \notin Own /\ Report(code)
    BY <1>15 DEF MutationSource, Numbered, Draw, Report, Own
  <2> QED BY <1>5, <1>15, <2>1 DEF MutationSource, Reading
<1>16. ASSUME NEW entry \in EvidenceEntries, EvidenceSource(entry)
       PROVE  Reported'
  <2>1. findings' = findings \/ \E code : code \notin Own /\ Report(code)
    BY <1>16 DEF EvidenceSource, Numbered, Draw, Report, Own
  <2> QED BY <1>5, <1>16, <2>1 DEF EvidenceSource, Reading
<1>17. CASE RejectDataset BY <1>5, <1>17 DEF RejectDataset, Reading, Own
<1>18. ASSUME NEW decl \in Datasets, OpenDataset(decl)
       PROVE  Reported'
  BY <1>5, <1>18 DEF OpenDataset, Reading
<1>19. CASE Lookup
  <2>1. CASE dataset.decl.lookup = None BY <1>5, <1>19, <2>1 DEF Lookup, Report
  <2>2. CASE Report("LOOKUP_KEY_INVALID") BY <1>5, <1>19, <2>2 DEF Lookup, Own
  <2>3. CASE findings' = findings BY <1>5, <1>19, <2>3 DEF Lookup
  <2> QED BY <1>19, <2>1, <2>2, <2>3 DEF Lookup, Draw
<1>20. CASE DatasetDone
  <2>1. /\ phase = "columns" /\ phase' = "datasets"
        /\ \/ findings' = findings
           \/ findings' = findings \cup {Finding("HIGH_FAN_OUT_LOOKUP_KEY", DatasetNode)}
    BY <1>20 DEF DatasetDone
  <2>2. OthersFound BY <2>1, OneFinding DEF Own
  <2> QED BY <1>10, <2>1, <2>2
<1> QED
  BY <1>1, <1>2, <1>3, <1>4, <1>6, <1>7, <1>8, <1>9, <1>11, <1>12, <1>13, <1>14, <1>15, <1>16,
     <1>17, <1>18, <1>19, <1>20 DEF Next

-----------------------------------------------------------------------------
LEMMA Invariants == Spec => [](DrawnInv /\ Reported)
<1>1. Init => DrawnInv /\ Reported BY DrawnInit, ReportedInit
<1>2. DrawnInv /\ Reported /\ [Next]_vars => (DrawnInv /\ Reported)' BY DrawnStep, ReportedStep
<1> QED BY <1>1, <1>2, PTL DEF Spec

\* Whatever rows are selected and whatever a package declares, every edge ends
\* in nodes of the workbench: the DOT file leaves none of them out.
THEOREM EveryEdgeIsDrawn == Spec => []NothingIsDropped
<1>1. DrawnInv => NothingIsDropped BY DEF DrawnInv, Joined, NothingIsDropped, RenderedEdges
<1> QED BY <1>1, Invariants, PTL

\* ORPHAN_ROW is reported of exactly the rows that no edge touches: the loops
\* that emit edges keep connected_addresses in step with them.  And
\* SELF_ONLY_RELATIONSHIP is reported of exactly the rows whose operational
\* predicates lead to themselves and that no declaration reaches.
THEOREM WarningsAreTrue == Spec => []WarningsMatchEdges
<1>1. DrawnInv /\ Reported => WarningsMatchEdges
  <2> SUFFICES ASSUME DrawnInv, Reported, phase = "done" PROVE WarningsMatchEdges
    BY DEF WarningsMatchEdges
  <2>1. Flagged("ORPHAN_ROW") = {s \in present : Untouched(s)}
    BY DEF DrawnInv, ConnectedIsTouched, Reported, Untouched
  <2>2. \A s \in present : s \in support <=> ~ \A e \in At(s) : e.class = "predicate"
    BY DEF DrawnInv, SupportIsDeclared
  <2>3. \A s : s \in SelfPredicated
               <=> \E r \in graph : r.subject = s /\ ~IsLineage(r) /\ r.subject = r.target
    BY DEF SelfPredicated
  <2>4. \A s \in present :
          s \in NonSelfPredicated
          <=> \E r \in graph : s \in {r.subject, r.target} /\ ~IsLineage(r) /\ r.subject # r.target
    BY DEF NonSelfPredicated
  <2>5. Flagged("SELF_ONLY_RELATIONSHIP") = {s \in present : StandsAlone(s)}
    BY <2>2, <2>3, <2>4 DEF Reported, StandsAlone
  <2> QED BY <2>1, <2>5 DEF WarningsMatchEdges
<1> QED BY <1>1, Invariants, PTL
-----------------------------------------------------------------------------
(* Aliases.                                                                *)

LEMMA LeastNat ==
  ASSUME NEW T, T \subseteq Nat, T # {}
  PROVE  \E m \in T : \A k \in T : ~(k < m)
<1>1. IsWellFoundedOn(OpToRel(<, Nat), Nat)
  BY NatLessThanWellFounded
<1>2. \E x \in T : \A y \in T : ~(<<y, x>> \in OpToRel(<, Nat))
  BY <1>1, WFMin
<1> QED
  BY <1>2 DEF OpToRel

\* The ids that a finite set of declarations leads to, and one more.
LEMMA FiniteIds ==
  ASSUME NEW index, IsFiniteSet(index), NEW start
  PROVE  /\ IsFiniteSet({start} \cup {e[2] : e \in index})
         /\ Cardinality({start} \cup {e[2] : e \in index}) \in Nat \ {0}
<1>1. PICK ends : ends = {e[2] : e \in index}
  OBVIOUS
<1>2. PICK f : f = [e \in index |-> e[2]]
  OBVIOUS
<1>3. f \in Surjection(index, ends)
  BY <1>1, <1>2 DEF Surjection
<1>4. IsFiniteSet(ends)
  BY <1>3, FS_Surjection
<1>5. PICK ids : ids = {start} \cup ends
  OBVIOUS
<1>6. IsFiniteSet(ids)
  BY <1>4, <1>5, FS_Singleton, FS_Union
<1>7. Cardinality(ids) \in Nat
  BY <1>6, FS_CardinalityType
<1>8. Cardinality(ids) # 0
  BY <1>5, <1>6, FS_EmptySet
<1> QED
  BY <1>1, <1>5, <1>6, <1>7, <1>8

\* Lineage counts as this module does.
LEMMA SameCardinality == \A S : L!Cardinality(S) = Cardinality(S)
  BY DEF L!Cardinality, Cardinality

\* The walk of ResolveLatestSlugId from an id with one successor, which has
\* none itself, ends there.
LEMMA LatestAfterOne ==
  ASSUME NEW index, IsFiniteSet(index), NEW old, NEW new,
         L!NextOf(index, old) = {new}, L!NextOf(index, new) = {}
  PROVE  L!Latest(index, old) = new
<1> DEFINE ids == {old} \cup {e[2] : e \in index}
           Further(id) == LET next == L!NextOf(index, id)
                          IN  IF Cardinality(next) = 1 THEN CHOOSE s \in next : TRUE ELSE id
           Walked(id, n) == Further(id)
           walk[n \in Nat] ==
             IF n = 0 THEN old
             ELSE LET next == L!NextOf(index, walk[n - 1])
                  IN  IF L!Cardinality(next) = 1 THEN CHOOSE id \in next : TRUE
                      ELSE walk[n - 1]
           end == walk[L!Cardinality(ids)]
<1>1. L!Latest(index, old) = IF L!NextOf(index, end) = {} THEN end ELSE None
  BY DEF L!Latest
<1>2. NatInductiveDefHypothesis(walk, old, Walked)
  BY SameCardinality DEF NatInductiveDefHypothesis
<1>3. NatInductiveDefConclusion(walk, old, Walked)
  BY <1>2, NatInductiveDef
<1>4. L!Cardinality(ids) \in Nat \ {0}
  BY FiniteIds, SameCardinality
<1> HIDE DEF walk, ids
<1>5. walk[0] = old /\ \A n \in Nat \ {0} : walk[n] = Further(walk[n - 1])
  BY <1>3 DEF NatInductiveDefConclusion
<1>6. Further(old) = new
  <2>1. Cardinality({new}) = 1
    BY FS_Singleton
  <2> QED
    BY <2>1
<1>7. Further(new) = new
  <2>1. Cardinality({}) = 0
    BY FS_EmptySet
  <2> QED
    BY <2>1
<1> HIDE DEF Further
<1>8. PICK Wrong : Wrong = {n \in Nat \ {0} : walk[n] # new}
  OBVIOUS
<1>9. Wrong = {}
  <2> SUFFICES ASSUME Wrong # {} PROVE FALSE
    OBVIOUS
  <2>1. PICK n \in Wrong : \A k \in Wrong : ~(k < n)
    BY <1>8, LeastNat
  <2>2. n \in Nat \ {0} /\ walk[n] = Further(walk[n - 1])
    BY <1>5, <1>8
  <2>3. CASE n = 1
    BY <1>5, <1>6, <1>8, <2>2, <2>3
  <2>4. CASE n # 1
    <3>1. n - 1 \in Nat \ {0} /\ n - 1 < n
      BY <2>2, <2>4
    <3>2. walk[n - 1] = new
      BY <1>8, <2>1, <3>1
    <3> QED
      BY <1>7, <1>8, <2>2, <3>2
  <2> QED
    BY <2>3, <2>4
<1>10. end = new
  BY <1>4, <1>8, <1>9
<1> QED
  BY <1>1, <1>10

\* Finitely many relationships declare finitely many replacements.
LEMMA FinitelyDeclared ==
  ASSUME NEW rels, IsFiniteSet(rels)
  PROVE  IsFiniteSet(L!Declared(rels))
<1>1. PICK S, P : /\ S = {r \in rels : r.predicate = L!Successor}
                  /\ P = {r \in rels : r.predicate = L!Predecessor}
  OBVIOUS
<1>2. IsFiniteSet(S) /\ IsFiniteSet(P)
  BY <1>1, FS_Subset
<1>3. PICK after, before : /\ after = {<<r.subject, r.target>> : r \in S}
                           /\ before = {<<r.target, r.subject>> : r \in P}
  OBVIOUS
<1>4. PICK f, g : /\ f = [r \in S |-> <<r.subject, r.target>>]
                  /\ g = [r \in P |-> <<r.target, r.subject>>]
  OBVIOUS
<1>5. f \in Surjection(S, after) /\ g \in Surjection(P, before)
  BY <1>3, <1>4 DEF Surjection
<1>6. IsFiniteSet(after) /\ IsFiniteSet(before)
  BY <1>2, <1>5, FS_Surjection
<1>7. IsFiniteSet(after \cup before)
  BY <1>6, FS_Union
<1> QED
  BY <1>1, <1>3, <1>7 DEF L!Declared

\* The two readings of the lineage, of graph_projection.cpp and of app.cpp, agree.
LEMMA AliasesAgree ==
  ASSUME IsFiniteSet(md), None \notin present
  PROVE  AliasFollowsImport
<1> DEFINE index == L!Declared(md)
<1> SUFFICES ASSUME NEW old \in {e[1] : e \in index} \ present, NEW new \in present,
                    L!NextOf(index, old) = {new}, L!NextOf(index, new) = {}
             PROVE  Resolved(old) = {new} /\ L!Aliases(present, md)[old] = new
  BY DEF AliasFollowsImport
<1>1. AliasSlugs(old) = L!NextOf(index, old)
  <2>1. PICK S, P : /\ S = {r \in md : r.predicate = L!Successor /\ r.subject = old}
                    /\ P = {r \in md : r.predicate = L!Predecessor /\ r.target = old}
    OBVIOUS
  <2>2. \A id : id \in AliasSlugs(old)
               <=> (\E r \in P : id = r.subject) \/ (\E r \in S : id = r.target)
    BY <2>1 DEF AliasSlugs
  <2>3. \A e : e \in index <=>
          \/ \E r \in md : r.predicate = L!Successor /\ e = <<r.subject, r.target>>
          \/ \E r \in md : r.predicate = L!Predecessor /\ e = <<r.target, r.subject>>
    BY DEF L!Declared
  <2> HIDE DEF index
  <2>4. \A id : id \in L!NextOf(index, old) <=> \E e \in index : e[1] = old /\ id = e[2]
    BY DEF L!NextOf
  <2>5. ASSUME NEW id \in AliasSlugs(old) PROVE id \in L!NextOf(index, old)
    <3>1. CASE \E r \in P : id = r.subject
      <4>1. PICK r \in P : id = r.subject
        BY <3>1
      <4>2. <<old, id>> \in index
        BY <2>1, <2>3, <4>1
      <4> QED
        BY <2>4, <4>2
    <3>2. CASE \E r \in S : id = r.target
      <4>1. PICK r \in S : id = r.target
        BY <3>2
      <4>2. <<old, id>> \in index
        BY <2>1, <2>3, <4>1
      <4> QED
        BY <2>4, <4>2
    <3> QED
      BY <2>2, <3>1, <3>2
  <2>6. ASSUME NEW id \in L!NextOf(index, old) PROVE id \in AliasSlugs(old)
    <3>1. PICK e \in index : e[1] = old /\ id = e[2]
      BY <2>4
    <3> QED
      BY <2>1, <2>2, <2>3, <3>1
  <2> QED
    BY <2>5, <2>6
<1>2. Resolved(old) = {new}
  BY <1>1 DEF Resolved
<1>3. L!Latest(index, old) = new
  BY FinitelyDeclared, LatestAfterOne
<1>4. PICK ids : ids = {e[1] : e \in index} \cup {e[2] : e \in index}
  OBVIOUS
<1>5. old \in ids /\ new \notin {None, old}
  BY <1>4
<1>6. old \in {id \in ids : /\ L!Latest(index, id) \notin {None, id}
                           /\ L!Latest(index, id) \in present}
  BY <1>3, <1>5
<1>7. L!Aliases(present, md) = [id \in {id \in ids : /\ L!Latest(index, id) \notin {None, id}
                                                    /\ L!Latest(index, id) \in present}
                                 |-> L!Latest(index, id)]
  BY <1>4 DEF L!Aliases
<1> QED
  BY <1>2, <1>3, <1>6, <1>7

\* Only ReadMarkdown brings relationships, those of a file; the rows stay.
LEMMA FileIsFinite == Spec => [](IsFiniteSet(md) /\ None \notin present)
<1>1. Init => IsFiniteSet(md) /\ None \notin present
  BY FilesAssumption, FS_EmptySet DEF Init
<1>2. IsFiniteSet(md) /\ None \notin present /\ [Next]_vars
        => IsFiniteSet(md)' /\ (None \notin present)'
  <2> SUFFICES ASSUME IsFiniteSet(md), None \notin present, [Next]_vars
               PROVE  IsFiniteSet(md)' /\ (None \notin present)'
    OBVIOUS
  <2>1. CASE ReadMarkdown
    <3>1. PICK file \in Files : md' = IF file = None THEN {} ELSE file
      BY <2>1 DEF ReadMarkdown
    <3> QED
      BY <2>1, <3>1, FilesAssumption, FS_EmptySet DEF ReadMarkdown
  <2>2. CASE ~ReadMarkdown
    <3>1. UNCHANGED <<md, present>>
      BY <2>2 DEF Next, vars, inputs, BuildChecklistGraph, PredicateEdges, MarkdownFails,
         ReadBindings, Mistyped, SectionDone, SectionInvalid, Terminal, MutationSource,
         EvidenceSource, RejectDataset, OpenDataset, Lookup, Column, DatasetDone, Orphans,
         SelfOnly, Report, Draw, Numbered
    <3> QED
      BY <2>2, <3>1
  <2> QED
    BY <2>1, <2>2
<1> QED
  BY <1>1, <1>2, PTL DEF Spec

\* A replaced slug id leads the workbench to the row to which an import
\* redirects the relationships of the same file: the two programs that read
\* the lineage, of graph_projection.cpp and of app.cpp, agree on it.
THEOREM AliasesFollowImports == Spec => []AliasFollowsImport
<1>1. IsFiniteSet(md) /\ None \notin present => AliasFollowsImport BY AliasesAgree
<1> QED BY <1>1, FileIsFinite, PTL
=============================================================================
