------------------------------ MODULE Lineage ------------------------------
(***************************************************************************)
(* Lineage of template rows: a slug id is a hash of the row's text, so an  *)
(* edited row is a new slug, and the template relationships slugSuccessor  *)
(* and slugPredecessor say which slug replaces which.  These are the pure  *)
(* helpers of checklist_store.cpp and app.cpp that read them; they work    *)
(* alike on slug ids and on address ids.  A relationship is a record       *)
(* [subject, predicate, target].                                           *)
(***************************************************************************)
EXTENDS Integers, FiniteSets

CONSTANT None                      \* std::nullopt

Successor   == "slugSuccessor"     \* kSlugSuccessorPredicate
Predecessor == "slugPredecessor"   \* kSlugPredecessorPredicate
LineagePredicates == {Successor, Predecessor}

\* <<old, new>> for every declaration that `new` replaces `old`.
Declared(rels) ==
  {<<r.subject, r.target>> : r \in {r \in rels : r.predicate = Successor}}
  \cup {<<r.target, r.subject>> : r \in {r \in rels : r.predicate = Predecessor}}

\* BuildSlugSuccessorIndex: a slug that replaces itself is ignored.
SuccessorIndex(rels) == {e \in Declared(rels) : e[1] # e[2]}

NextOf(index, id) == {e[2] : e \in {e \in index : e[1] = id}}

(***************************************************************************)
(* ResolveLatestSlugId: the end of the chain of single successors.  None   *)
(* when a slug on the way has two successors or the chain is a cycle: then *)
(* the walk, as long as there are ids, still stands on an id with one.     *)
(***************************************************************************)
Latest(index, start) ==
  LET ids == {start} \cup {e[2] : e \in index}
      walk[n \in Nat] ==
        IF n = 0 THEN start
        ELSE LET next == NextOf(index, walk[n - 1])
             IN  IF Cardinality(next) = 1 THEN CHOOSE id \in next : TRUE
                 ELSE walk[n - 1]
      end == walk[Cardinality(ids)]
  IN  IF NextOf(index, end) = {} THEN end ELSE None

\* BuildSlugLineageAliases, BuildAddressLineageAliases: what an id that the
\* lineage mentions stands for, when its latest successor is present.
Aliases(present, rels) ==
  LET index == Declared(rels)
      ids   == {e[1] : e \in index} \cup {e[2] : e \in index}
  IN  [id \in {id \in ids : /\ Latest(index, id) \notin {None, id}
                            /\ Latest(index, id) \in present}
         |-> Latest(index, id)]

\* ResolveTemplateTargetForInstance
ResolvedTarget(rel, aliases) ==
  IF rel.target \notin DOMAIN aliases THEN rel.target
  ELSE IF rel.predicate \in LineagePredicates THEN None
  ELSE aliases[rel.target]

\* Mutant: the lineage that is stored is replaced with the rest.
MergedFileOnly(subjects, incoming, loaded, stored) ==
  {r \in incoming : r.subject \in subjects}

(***************************************************************************)
(* MergeTemplateRelationshipsWithLineage: the relationships an import      *)
(* stores for the subjects it brings.  Those of the file, the lineage that *)
(* is stored already for rows that exist (`loaded`), and for a slug the    *)
(* file gives a predecessor, the older ones the store knows (`stored`).    *)
(***************************************************************************)
Merged(subjects, incoming, loaded, stored) ==
  LET direct(s) == {e[1] : e \in {e \in Declared(incoming) : e[2] = s}} \ {s}
      older(ids) == {r.target : r \in {r \in stored :
                       r.predicate = Predecessor /\ r.subject \in ids}}
      reach(s) ==
        LET grow[n \in Nat] ==
              IF n = 0 THEN direct(s)
              ELSE LET ids == grow[n - 1] IN ids \cup (older(ids) \ {s})
        IN  UNION {grow[n] : n \in 0 .. Cardinality(stored)}
      ancestors ==
        UNION {{[subject |-> s, predicate |-> Predecessor, target |-> id] :
                   id \in reach(s) \ direct(s)} : s \in subjects}
  IN  {r \in incoming : r.subject \in subjects}
      \cup {r \in loaded : /\ r.predicate \in LineagePredicates
                           /\ r.subject \in subjects}
      \cup ancestors
============================================================================
