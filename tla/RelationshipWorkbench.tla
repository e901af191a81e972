----------------------- MODULE RelationshipWorkbench -----------------------
(***************************************************************************)
(* The relationship workbench of src/core/graph_projection.cpp: one graph  *)
(* of a checklist's rows, of the predicates stored between them and of     *)
(* what its package declares about them (terminals, mutation and evidence  *)
(* sources, datasets), with the findings an author is to act on.  It is    *)
(* built in one pass over its inputs, section by section and declaration   *)
(* by declaration: an action is one body of those loops, and the inputs    *)
(* are chosen when they are read.                                          *)
(*                                                                         *)
(* All rows belong to one instance, so that a slug id stands for its       *)
(* address too.  Node ids, strings in the code, are tuples; titles and     *)
(* details are left out.  The arrays of the result are sets: their order,  *)
(* and an edge that two declarations of one alias double, are left out.    *)
(***************************************************************************)
EXTENDS Integers, FiniteSets, Sequences

CONSTANTS None,
          Rows,         \* the sets of slugs a request may select by owner
          Links,        \* the sets of stored relationships [subject, predicate, target]
          Files,        \* contents of checklist.md: its relationships, None if it has no file
          TerminalEntries, MutationEntries, EvidenceEntries,
          Datasets,
          MaxEntries    \* bound: declarations in bindings.json

ASSUME FilesAssumption ==
  /\ \A rows \in Rows : None \notin rows
  /\ \A file \in Files : file # None => IsFiniteSet(file)

VARIABLES phase,        \* the section being worked on; "done" or "failed" at the end
          entries,      \* declarations read so far
          present,      \* rows selected
          graph,        \* relationship edges of BuildChecklistGraph
          md,           \* relationships of checklist.md
          nodes, edges, findings,
          connected,    \* connected_addresses
          support,      \* declared_support_addresses
          numbered,     \* mutation_index and evidence_index
          dataset       \* the dataset at hand: index, declaration, column, bound columns

inputs == <<present, graph, md>>
drawn == <<nodes, edges, findings, connected, support>>
vars == <<phase, entries, inputs, drawn, numbered, dataset>>

L == INSTANCE Lineage

\* The sections of bindings.json in the order they are read.
After == [terminals |-> "mutations", mutations |-> "evidence", evidence |-> "datasets",
          datasets |-> "orphans"]
Sections == DOMAIN After

Row(slug) == <<"row", slug>>
Edge(source, target, class) == [source |-> source, target |-> target, class |-> class]
Finding(code, at) == [code |-> code, at |-> at, unresolved |-> {}]

-----------------------------------------------------------------------------
(* BuildChecklistGraph.                                                    *)

\* The edges checklistOrder between neighbours are left out: the workbench
\* skips them.
BuildChecklistGraph ==
  /\ phase = "graph"
  /\ \E links \in Links :
       graph' = {r \in links : r.subject \in present}
  /\ nodes' = {Row(slug) : slug \in present}
  /\ phase' = "predicates"
  /\ UNCHANGED <<entries, present, md, edges, findings, connected, support, numbered, dataset>>

IsLineage(r) ==
  r.predicate \in L!LineagePredicates \cup {"addressSuccessor", "addressPredecessor"}

\* The keys of self_predicates_by_address and non_self_predicate_addresses.
SelfPredicated == {r.subject : r \in {r \in graph : ~IsLineage(r) /\ r.subject = r.target}}
NonSelfPredicated ==
  UNION {{r.subject, r.target} \cap present :
           r \in {r \in graph : ~IsLineage(r) /\ r.subject # r.target}}

End(slug) == IF slug \in present THEN Row(slug) ELSE <<"external", slug>>

PredicateEdges ==
  /\ phase = "predicates"
  /\ nodes' = nodes \cup {End(r.target) : r \in graph}
  /\ edges' = {Edge(Row(r.subject), End(r.target), "predicate") : r \in graph}
  /\ connected' = present \cap UNION {{r.subject, r.target} : r \in graph}
  /\ phase' = "markdown"
  /\ UNCHANGED <<entries, inputs, findings, support, numbered, dataset>>

-----------------------------------------------------------------------------
(* checklist.md: which current rows a slug id of the past stands for.      *)

\* The file does not parse: the rows are drawn without its aliases.
MarkdownFails ==
  /\ phase = "markdown"
  /\ findings' = findings \cup {Finding("RELATIONSHIP_ALIAS_PARSE_FAILED", None)}
  /\ phase' = "bindings"
  /\ UNCHANGED <<entries, inputs, nodes, edges, connected, support, numbered, dataset>>

ReadMarkdown ==
  /\ phase = "markdown"
  /\ \E file \in Files : md' = IF file = None THEN {} ELSE file
  /\ phase' = "bindings"
  /\ UNCHANGED <<entries, present, graph, drawn, numbered, dataset>>

\* Mutant: the declarations are read from the new row to the old.
AliasBackwards(slug) ==
  {r.target : r \in {r \in md : r.predicate = L!Predecessor /\ r.subject = slug}}

\* legacy_alias_slugs
AliasSlugs(slug) ==
  {r.subject : r \in {r \in md : r.predicate = L!Predecessor /\ r.target = slug}}
  \cup {r.target : r \in {r \in md : r.predicate = L!Successor /\ r.subject = slug}}

\* resolve_addresses: the row itself, else the rows one declaration away.
Resolved(slug) == IF slug \in present THEN {slug} ELSE AliasSlugs(slug) \cap present

\* unresolved_markdown_relationships: they are shown with an orphan.
Unresolved(slug) ==
  {r \in md : /\ r.subject = slug /\ Resolved(r.target) = {}
              /\ r.predicate \notin {L!Predecessor, L!Successor}}

\* Mutant: the alias gets no node of its own.
AliasUnnamed(slug) == {}

\* render_legacy_alias
AliasNodes(slug) == IF slug \in present THEN {} ELSE {<<"legacy_alias", slug>>}

AliasEdges(slug) ==
  IF slug \in present THEN {}
  ELSE {Edge(<<"legacy_alias", slug>>, Row(s), "legacy_alias") : s \in Resolved(slug)}

-----------------------------------------------------------------------------
(* relationships/bindings.json.                                            *)

ReadBindings ==
  /\ phase = "bindings"
  /\ \/ \E code \in {"RELATIONSHIP_PACKAGE_MISSING", "RELATIONSHIP_DECLARATIONS_INVALID"} :
          findings' = findings \cup {Finding(code, None)} /\ phase' = "orphans"
     \/ findings' \in {findings, findings \cup {Finding("RELATIONSHIP_SCHEMA_UNSUPPORTED", None)}}
        /\ phase' = "terminals"
  /\ UNCHANGED <<entries, inputs, nodes, edges, connected, support, numbered, dataset>>

SectionDone(section) ==
  /\ phase = section /\ phase' = After[section]
  /\ UNCHANGED <<entries, inputs, drawn, numbered, dataset>>

\* The section is not an array.
SectionInvalid(section) ==
  /\ phase = section /\ phase' = After[section]
  /\ findings' = findings \cup {Finding("SECTION_INVALID", section)}
  /\ UNCHANGED <<entries, inputs, nodes, edges, connected, support, numbered, dataset>>

\* json::value throws on a field of another type: the request fails.
Mistyped ==
  /\ phase \in {"bindings", "lookup"} \cup Sections
  /\ phase' = "failed"
  /\ UNCHANGED <<entries, inputs, drawn, numbered, dataset>>

Reading(section) ==
  /\ phase = section /\ entries < MaxEntries
  /\ entries' = entries + 1

\* A declaration that cannot be drawn is reported, or passed over.
Report(code) ==
  /\ findings' = IF code = None THEN findings ELSE findings \cup {Finding(code, None)}
  /\ UNCHANGED <<inputs, nodes, edges, connected, support, numbered>>

\* Node `id' is joined by `joining' to the rows that slug stands for.
Draw(id, slug, joining) ==
  /\ nodes' = nodes \cup {id} \cup AliasNodes(slug)
  /\ edges' = edges \cup AliasEdges(slug) \cup joining
  /\ connected' = connected \cup Resolved(slug)
  /\ support' = support \cup Resolved(slug)
  /\ UNCHANGED <<inputs, findings>>

From(id, slug, class) == {Edge(id, Row(s), class) : s \in Resolved(slug)}
To(id, slug, class) == {Edge(Row(s), id, class) : s \in Resolved(slug)}

Terminal(entry) ==
  /\ Reading("terminals")
  /\ IF entry = None THEN Report("TERMINAL_ROW_INVALID")
     ELSE IF ~entry.complete \/ Resolved(entry.slug) = {} THEN Report("TERMINAL_ROW_UNKNOWN")
     ELSE /\ LET id == <<"terminal", entry.slug>>
             IN Draw(id, entry.slug, To(id, entry.slug, "declared_terminal"))
          /\ UNCHANGED numbered
  /\ UNCHANGED <<phase, dataset>>

\* mutation:0, mutation:1, ... only what is drawn is counted.
Numbered(kind, slug, class) ==
  LET id == <<kind, numbered[kind]>>
  IN /\ Draw(id, slug, From(id, slug, class))
     /\ numbered' = [numbered EXCEPT ![kind] = @ + 1]

MutationSource(entry) ==
  /\ Reading("mutations")
  /\ IF entry = None THEN Report(None)
     ELSE IF Resolved(entry.slug) = {} THEN Report("MUTATION_SOURCE_TARGET_MISSING")
     ELSE Numbered("mutation", entry.slug, "direct_write")
  /\ UNCHANGED <<phase, dataset>>

\* Mutant: evidence is drawn but does not count as support.
EvidenceUnsupported(entry) ==
  /\ Reading("evidence")
  /\ IF entry = None THEN Report(None)
     ELSE IF Resolved(entry.slug) = {} THEN Report("EVIDENCE_SOURCE_TARGET_MISSING")
     ELSE LET id == <<"evidence", numbered["evidence"]>>
          IN /\ nodes' = nodes \cup {id} \cup AliasNodes(entry.slug)
             /\ edges' = edges \cup AliasEdges(entry.slug)
                               \cup From(id, entry.slug, "evidence_capture")
             /\ connected' = connected \cup Resolved(entry.slug)
             /\ UNCHANGED <<inputs, findings, support, numbered>>
  /\ UNCHANGED <<phase, dataset>>

EvidenceSource(entry) ==
  /\ Reading("evidence")
  /\ IF entry = None THEN Report(None)
     ELSE IF Resolved(entry.slug) = {} THEN Report("EVIDENCE_SOURCE_TARGET_MISSING")
     ELSE Numbered("evidence", entry.slug, "evidence_capture")
  /\ UNCHANGED <<phase, dataset>>

-----------------------------------------------------------------------------
(* A dataset: opened, its lookup, its columns one by one, its fan-out.     *)

DatasetNode == <<"dataset", dataset.index>>
ColumnNode(c) == <<"column", dataset.index, c>>

\* Everything short of a readable file with a header is a finding.
RejectDataset ==
  /\ Reading("datasets")
  /\ \E code \in {"DATASET_INVALID", "DATASET_PATH_INVALID", "DATASET_MISSING", "DATASET_EMPTY"} :
       Report(code)
  /\ dataset' = [dataset EXCEPT !.index = @ + 1]
  /\ UNCHANGED phase

OpenDataset(decl) ==
  /\ Reading("datasets")
  /\ nodes' = nodes \cup {DatasetNode}
  /\ dataset' = [dataset EXCEPT !.decl = decl, !.column = 1, !.bound = 0, !.looked = FALSE]
  /\ phase' = "lookup"
  /\ UNCHANGED <<inputs, edges, findings, connected, support, numbered>>

\* lookup.slug None: it is not an object and is passed over.
Lookup ==
  LET lookup == dataset.decl.lookup
  IN /\ phase = "lookup" /\ phase' = "columns"
     /\ IF lookup = None THEN Report(None) /\ UNCHANGED dataset
        ELSE IF ~lookup.complete \/ Resolved(lookup.slug) = {}
             THEN Report("LOOKUP_KEY_INVALID") /\ UNCHANGED dataset
        ELSE /\ Draw(DatasetNode, lookup.slug, To(DatasetNode, lookup.slug, "lookup_key"))
             /\ dataset' = [dataset EXCEPT !.looked = TRUE]
             /\ UNCHANGED numbered
     /\ UNCHANGED entries

\* CONSTANT_COLUMN and REPEATED_LITERAL, over the cells below the header.
ColumnFindings(cells, c) ==
  LET filled == {i \in DOMAIN cells : cells[i] # ""}
  IN IF Cardinality({cells[i] : i \in filled}) # 1 THEN {}
     ELSE IF filled = DOMAIN cells THEN {Finding("CONSTANT_COLUMN", ColumnNode(c))}
     ELSE IF Cardinality(filled) > 1 THEN {Finding("REPEATED_LITERAL", ColumnNode(c))} ELSE {}

\* The rows a column's binding connects.
BoundRows(slug) == Resolved(slug)

\* binds: what ParseHeaderDerivedBinding makes of the header.
Column ==
  LET c == dataset.column
      header == dataset.decl.columns[c]
      id == ColumnNode(c)
      binds == IF dataset.decl.derived THEN header.binds ELSE None
      contains == Edge(DatasetNode, id, "contains_column")
      shown == findings \cup ColumnFindings(header.cells, c)
      missing == <<"unresolved", binds>>
  IN /\ phase = "columns" /\ c <= Len(dataset.decl.columns)
     /\ dataset' = [dataset EXCEPT !.column = @ + 1,
                    !.bound = IF binds = None THEN @
                              ELSE IF Resolved(binds) = {} THEN @ ELSE @ + 1]
     /\ IF binds = None
        THEN /\ nodes' = nodes \cup {id} /\ edges' = edges \cup {contains}
             /\ findings' = shown /\ UNCHANGED <<connected, support>>
        ELSE IF Resolved(binds) = {}
        THEN /\ nodes' = nodes \cup {id, missing}
             /\ edges' = edges \cup {contains, Edge(id, missing, "column_binding")}
             /\ findings' = shown \cup {Finding("COLUMN_BINDING_TARGET_MISSING", id)}
             /\ UNCHANGED <<connected, support>>
        ELSE /\ nodes' = nodes \cup {id} \cup AliasNodes(binds)
             /\ edges' = edges \cup {contains} \cup AliasEdges(binds)
                               \cup From(id, binds, "column_binding")
             /\ connected' = connected \cup BoundRows(binds)
             /\ support' = support \cup BoundRows(binds)
             /\ findings' = shown
     /\ UNCHANGED <<phase, entries, inputs, numbered>>

\* bound_row_count, from the edges drawn for this dataset.
BoundRowCount ==
  Cardinality({e.target : e \in {e \in edges :
                 /\ e.class = "column_binding" /\ e.target[1] = "row"
                 /\ e.source[2] = dataset.index}})

\* Three bound columns that reach a quarter of the rows.
DatasetDone ==
  /\ phase = "columns" /\ dataset.column > Len(dataset.decl.columns)
  /\ findings' = IF dataset.looked /\ dataset.bound >= 3
                      /\ 4 * BoundRowCount >= Cardinality(present)
                 THEN findings \cup {Finding("HIGH_FAN_OUT_LOOKUP_KEY", DatasetNode)}
                 ELSE findings
  /\ dataset' = [dataset EXCEPT !.index = @ + 1]
  /\ phase' = "datasets"
  /\ UNCHANGED <<entries, inputs, nodes, edges, connected, support, numbered>>

-----------------------------------------------------------------------------
(* What no declaration accounts for.                                       *)

Orphans ==
  /\ phase = "orphans" /\ phase' = "self"
  /\ findings' = findings \cup
       {[code |-> "ORPHAN_ROW", at |-> Row(s), unresolved |-> Unresolved(s)] :
          s \in present \ connected}
  /\ UNCHANGED <<entries, inputs, nodes, edges, connected, support, numbered, dataset>>

SelfOnly ==
  /\ phase = "self" /\ phase' = "done"
  /\ findings' = findings \cup
       {Finding("SELF_ONLY_RELATIONSHIP", Row(s)) :
          s \in (present \cap SelfPredicated) \ (NonSelfPredicated \cup support)}
  /\ UNCHANGED <<entries, inputs, nodes, edges, connected, support, numbered, dataset>>

\* RenderRelationshipWorkbenchDot: an edge without its nodes is not drawn.
RenderedEdges == {e \in edges : e.source \in nodes /\ e.target \in nodes}

-----------------------------------------------------------------------------
\* The rows of the request's owner, never none: the handler answers 404.
Init ==
  /\ phase = "graph" /\ entries = 0
  /\ present \in Rows /\ graph = {} /\ md = {}
  /\ nodes = {} /\ edges = {} /\ findings = {}
  /\ connected = {} /\ support = {}
  /\ numbered = [mutation |-> 0, evidence |-> 0]
  /\ dataset = [index |-> 0, decl |-> None, column |-> 1, bound |-> 0, looked |-> FALSE]

Next ==
  \/ BuildChecklistGraph \/ PredicateEdges
  \/ MarkdownFails \/ ReadMarkdown \/ ReadBindings \/ Mistyped
  \/ \E section \in Sections : SectionDone(section) \/ SectionInvalid(section)
  \/ \E entry \in TerminalEntries : Terminal(entry)
  \/ \E entry \in MutationEntries : MutationSource(entry)
  \/ \E entry \in EvidenceEntries : EvidenceSource(entry)
  \/ RejectDataset \/ (\E decl \in Datasets : OpenDataset(decl))
  \/ Lookup \/ Column \/ DatasetDone
  \/ Orphans \/ SelfOnly

Spec == Init /\ [][Next]_vars

-----------------------------------------------------------------------------
Flagged(code) == {s \in present : \E f \in findings : f.code = code /\ f.at = Row(s)}
At(s) == {e \in edges : Row(s) \in {e.source, e.target}}

\* Whatever is declared, every edge of the workbench ends in nodes of it, so
\* that the DOT file, which drops other edges without a word, shows what the
\* JSON says.
NothingIsDropped == RenderedEdges = edges

\* No edge that was emitted touches the row, of whatever class.  The contract of the
\* workbench lists "predicate, lookup, declared mutation source, or declared terminal"
\* edges only (docs/relationship_workbench_contract.md:194): by it a row with nothing
\* but an evidence source would be an orphan, and in the code it is none.
Untouched(s) == At(s) = {}

\* The operational predicates of the row all lead to itself, and nothing else than
\* lineage and predicates ends at it: evidence and what comes through an alias count.
StandsAlone(s) ==
  /\ \A e \in At(s) : e.class = "predicate"
  /\ \E r \in graph : r.subject = s /\ ~IsLineage(r)
  /\ \A r \in graph : s \in {r.subject, r.target} /\ ~IsLineage(r) => r.subject = r.target

\* ORPHAN_ROW and SELF_ONLY_RELATIONSHIP are said of exactly the rows of which the
\* emitted edges show it, although they are decided from sets that seven separate
\* loops keep beside the edges (BuildRelationshipWorkbench).
WarningsMatchEdges ==
  phase = "done" =>
    /\ Flagged("ORPHAN_ROW") = {s \in present : Untouched(s)}
    /\ Flagged("SELF_ONLY_RELATIONSHIP") = {s \in present : StandsAlone(s)}

\* A slug id that was replaced once, by a row that is shown and was not
\* replaced itself, not even by itself, is drawn to the row to which an import
\* redirects the relationships of the same file.
AliasFollowsImport ==
  LET index == L!Declared(md)
  IN \A old \in {e[1] : e \in index} \ present :
       \A new \in present :
         L!NextOf(index, old) = {new} /\ L!NextOf(index, new) = {} =>
           /\ Resolved(old) = {new}
           /\ L!Aliases(present, md)[old] = new
=============================================================================
