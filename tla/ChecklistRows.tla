--------------------------- MODULE ChecklistRows ---------------------------
(***************************************************************************)
(* The rows of a checklist as the requests that create, import and delete  *)
(* them leave them: the tables slugs, slug_order, address_ownership,       *)
(* slug_ownership, template_relationships and address_relationships of     *)
(* checklist_store.cpp, and the handlers of app.cpp that write them.       *)
(* Each step is one call of the store, which holds its mutex; between two  *)
(* calls of a handler the calls of other requests go on.  One checklist;   *)
(* results and history are those of StoreConnection.                       *)
(***************************************************************************)
EXTENDS SlugOrder, Lineage

CONSTANTS
  Owners,      \* workspace sources (source, pack, directory)
  Workers,     \* threads of the HTTP server
  Links,       \* the template relationships a client may add
  Creates,     \* [slug, inst, owner, ord]: the rows a client may create
  Imports,     \* [kind, inst, doc]: the imports clients ask for, of parsed
               \* files [owner, rows, rels]; of a JSONL file also which
               \* lines carry an address_id and an address_order
  MaxCalls     \* bound: requests of a behaviour

\* Requests are well formed; imported files without rows are left out.
ASSUME RequestAssumption ==
  /\ None \notin Owners \cup Slugs
  /\ MaxCalls \in Nat
  /\ \A r \in Links : {r.subject, r.target} \subseteq Slugs
  /\ Creates \subseteq [slug : Slugs, inst : Instances, owner : Owners \cup {None},
                       ord : Int]
  /\ \A m \in Imports :
       /\ m.inst \in Instances
       /\ m.doc.owner \in Owners
       /\ m.doc.rows \in Seq(Slugs) /\ m.doc.rows # <<>>
       /\ IsFiniteSet(m.doc.rels)
       /\ \A r \in m.doc.rels : {r.subject, r.target} \subseteq Slugs
       /\ m.kind = "jsonl" =>
            /\ m.doc.addressed \subseteq DOMAIN m.doc.rows
            /\ m.doc.orders \in [DOMAIN m.doc.rows -> Int \cup {None}]

VARIABLES
  db,          \* the tables
  wk,          \* worker -> the request it serves
  calls,       \* requests still to come
  stuck,       \* a failed ReplaceRelationships left its transaction open
  fresh        \* history: instances whose rows were all created by
               \* UpsertSlug under the relationships as they stand

vars == <<db, wk, calls, stuck, fresh>>

Addresses == Slugs \X Instances

Idle == [pc |-> "idle", kind |-> "none", inst |-> Template, owner |-> None,
         items |-> <<>>, i |-> 1, rels |-> {}, read |-> {}, edges |-> {},
         left |-> {}, calm |-> TRUE, undone |-> FALSE]

Ended(result) == [Idle EXCEPT !.pc = result]
Free(w) == wk[w].pc \in {"idle", "ok", "failed"}

Item(w) == wk[w].items[wk[w].i]
Here(w) == <<Item(w).slug, wk[w].inst>>
RowsOf(rec) == {rec.items[n].slug : n \in DOMAIN rec.items}
AtLast(w) == wk[w].i = Len(wk[w].items)

Has(d, slug, inst) == <<slug, inst>> \in d.rows
Present(d, inst) == {a[1] : a \in {a \in d.rows : a[2] = inst}}

----------------------------------------------------------------------------
(* The store.                                                              *)

\* DELETE FROM slugs: the order, the owners and the edges of a row go with
\* it (ON DELETE CASCADE).
WithoutRows(d, gone) ==
  [d EXCEPT !.rows = @ \ gone,
            !.ord  = Restrict(@, DOMAIN @ \ gone),
            !.aown = {o \in @ : o[1] \notin gone},
            !.erel = {e \in @ : e.subject \notin gone /\ e.target \notin gone}]

Backed(d, s) == \E o \in d.aown : o[1][1] = s[1] /\ o[2] = s[2]


\* Mutant: the slug owners are not pruned.
DeleteOwnedUnpruned(d, inst, owner) ==
  LET disowned == [d EXCEPT !.aown = {o \in @ : o[1][2] # inst \/ o[2] # owner}]
  IN  WithoutRows(disowned, {a \in d.rows : /\ a[2] = inst
                               /\ ~ \E o \in disowned.aown : o[1] = a})

DeleteOwnedInstance(d, inst, owner) ==
  LET disowned == [d EXCEPT !.aown = {o \in @ : o[1][2] # inst \/ o[2] # owner}]
      pruned   == [disowned EXCEPT !.sown =
                     {s \in @ : s[2] = owner => Backed(disowned, s)}]
      orphans  == {a \in d.rows : a[2] = inst /\ ~ \E o \in pruned.aown : o[1] = a}
  IN  WithoutRows(pruned, orphans)

DeleteInstance(d, inst) ==
  LET e == WithoutRows(d, {a \in d.rows : a[2] = inst})
  IN  [e EXCEPT !.sown = {s \in @ : Backed(e, s)}]

DeleteChecklist(d) ==
  LET slugs == {a[1] : a \in d.rows}
      e == WithoutRows(d, d.rows)
  IN  IF d.rows = {} THEN d
      ELSE [e EXCEPT !.sown = {}, !.aown = {},
                     !.trel = {r \in @ : {r.subject, r.target} \cap slugs = {}}]

\* InheritTemplateOwnership
Inherited(d, a) ==
  IF a[2] = Template THEN d
  ELSE [d EXCEPT !.aown =
          @ \cup {<<a, o[2]>> : o \in {o \in @ : o[1] = <<a[1], Template>>}}]

\* LoadTemplateRelationshipsForChecklist: the subject has a row somewhere.
Loaded(d) == {r \in d.trel : \E a \in d.rows : a[1] = r.subject}

\* UpsertSlugUnlocked, resolve_for_instance
ResolvedHere(d, slug, inst) ==
  LET latest == Latest(SuccessorIndex(Loaded(d)), slug)
  IN  IF Has(d, slug, inst) THEN slug
      ELSE IF latest # None /\ Has(d, latest, inst) THEN latest ELSE None

Edge(s, predicate, t, inst) ==
  [subject |-> <<s, inst>>, predicate |-> predicate, target |-> <<t, inst>>]


\* Mutant: only the relationships whose subject the new row is.
MaterialisedForward(d, a) ==
  LET self(slug) == Latest(SuccessorIndex(Loaded(d)), slug) = a[1]
      at(slug)   == ResolvedHere(d, slug, a[2])
  IN  {Edge(a[1], r.predicate, at(r.target), a[2]) :
         r \in {r \in Loaded(d) : self(r.subject) /\ at(r.target) # None}}

\* UpsertSlugUnlocked, subject_rels and target_rels: the edges that the
\* template gives a new row and those that other rows wait for it with.
Materialised(d, a) ==
  LET self(slug) == Latest(SuccessorIndex(Loaded(d)), slug) = a[1]
      at(slug)   == ResolvedHere(d, slug, a[2])
  IN  {Edge(a[1], r.predicate, at(r.target), a[2]) :
         r \in {r \in Loaded(d) : self(r.subject) /\ at(r.target) # None}}
      \cup
      {Edge(at(r.subject), r.predicate, a[1], a[2]) :
         r \in {r \in Loaded(d) : self(r.target) /\ at(r.subject) # None}}

WithRow(d, a) == [d EXCEPT !.rows = @ \cup {a}]

\* UpsertSlugUnlocked up to the edges
Placed(d, a, requested) ==
  LET r == ResolveAddressOrder(d.ord, a, requested)
  IN  Inherited([WithRow(d, a) EXCEPT !.ord = WithOrder(r.ord, a, r.next)], a)

NewEdges(d, a) ==
  IF a \in DOMAIN d.ord \/ a[2] = Template THEN {}
  ELSE Materialised(WithRow(d, a), a)

UpsertSlug(d, a, requested) ==
  [Placed(d, a, requested) EXCEPT !.erel = @ \cup NewEdges(d, a)]

\* CreateSlugIfMissing: an existing row keeps its text and takes the order
\* of the request; no edges are materialised.
CreateSlugIfMissing(d, a, requested) ==
  LET r == ResolveAddressOrder(d.ord, a, requested)
      sets == a \notin d.rows \/ requested > 0 \/ a \notin DOMAIN d.ord
      ord  == IF sets THEN WithOrder(r.ord, a, r.next) ELSE r.ord
  IN  Inherited([WithRow(d, a) EXCEPT !.ord = ord], a)

\* What a crash inside UpsertSlug leaves: each of its statements commits by
\* itself.  The rows of a full section are repacked one by one, then come
\* the row, its order, its owners and its edges one by one.
Torn(d, a, requested) ==
  LET r    == ResolveAddressOrder(d.ord, a, requested)
      rows == SectionRows(d.ord, a[2], SectionOf[a[1]])
      row  == [WithRow(d, a) EXCEPT !.ord = r.ord]
  IN  (IF r.ord = d.ord THEN {d}
       ELSE {[d EXCEPT !.ord = RepackedTo(@, rows, SectionBase(@, rows),
                                          TightGap(rows), n)] :
               n \in 0 .. Cardinality(rows)})
      \cup {row, [row EXCEPT !.ord = WithOrder(@, a, r.next)]}
      \cup {[Placed(d, a, requested) EXCEPT !.erel = @ \cup some] :
              some \in SUBSET NewEdges(d, a)}

\* UpsertOwnership: the second INSERT fails when the row is gone, and the
\* first stays.
Claimed(d, a, owner) ==
  [d EXCEPT !.sown = @ \cup {<<a[1], owner>>},
            !.aown = IF a \in d.rows THEN @ \cup {<<a, owner>>} ELSE @]

\* ReplaceTemplateRelationshipsForSubjects
WithTemplate(d, subjects, rels) ==
  [d EXCEPT !.trel = {r \in @ : r.subject \notin subjects} \cup rels]

\* ReplaceRelationships for one subject
WithEdges(d, a, edges) ==
  [d EXCEPT !.erel = {e \in @ : e.subject # a} \cup edges]

\* ORDER BY instance_id, section, procedure, action
QueryOrder(d) ==
  LET rank(a) == Cardinality({b \in d.rows :
                   \/ RankOf[b[2]] < RankOf[a[2]]
                   \/ b[2] = a[2] /\ RankOf[b[1]] < RankOf[a[1]]})
  IN  [n \in 1 .. Cardinality(d.rows) |->
         CHOOSE a \in d.rows : rank(a) = n - 1]


\* Mutant: rows without an order are left so.
OpenedWithoutBackfill(d) == d

\* EnsureSchema at the start of the server
Opened(d) == [d EXCEPT !.ord = Backfill(@, QueryOrder(d))]

----------------------------------------------------------------------------
Init ==
  /\ db = [rows |-> {}, ord |-> [a \in {} |-> 0], aown |-> {}, sown |-> {},
           trel |-> {}, erel |-> {}]
  /\ wk = [w \in Workers |-> Idle]
  /\ calls = MaxCalls
  /\ stuck = FALSE
  /\ fresh = Instances \ {Template}

\* The row that stands for a slug under the relationships that are loaded.
Now(d, slug) == Latest(SuccessorIndex(Loaded(d)), slug)

\* No superseded row is in the instance.
AllCurrent(d, inst) == \A s \in Present(d, inst) : Now(d, s) = s

\* Between db and d the relationships that are loaded stand still for an
\* instance: they change at most as a row of its own comes, and no row that
\* a superseded one may hide goes.
Steady(d, inst) ==
  /\ d.trel = db.trel
  /\ \/ /\ Present(d, inst) # Present(db, inst)
        /\ Present(db, inst) \subseteq Present(d, inst)
     \/ /\ Loaded(d) = Loaded(db)
        /\ Present(d, inst) = Present(db, inst) \/ AllCurrent(db, inst)

\* The instances that are fresh after a step to table contents d; `spoiled`
\* are those whose rows or edges came some other way.
FreshIn(d, spoiled) ==
  {i \in Instances \ {Template} :
     Present(d, i) = {} \/ (i \in fresh \ spoiled /\ Steady(d, i))}

\* The step of worker w to record `rec` and tables d; `undo` are the
\* requests whose rows the step deletes on purpose.
Write(w, rec, d, spoiled, undo) ==
  /\ db' = d
  /\ wk' = [u \in Workers |->
              IF u = w THEN rec
              ELSE IF Free(u) THEN wk[u]
              ELSE [wk[u] EXCEPT !.calm = @ /\ d = db,
                                 !.undone = @ \/ u \in undo]]
  /\ fresh' = FreshIn(d, spoiled)
  /\ UNCHANGED stuck

Begin(w) ==
  /\ ~stuck
  /\ Free(w)
  /\ calls > 0
  /\ calls' = calls - 1

At(w, pc) == ~stuck /\ wk[w].pc = pc /\ UNCHANGED calls

In(inst) == {u \in Workers : wk[u].inst = inst}

----------------------------------------------------------------------------
(* Requests of one call, or of a check and a call.                         *)

\* handle_create_slug: UpsertSlug, then UpsertOwnership when the payload
\* names a pack.
HandleCreateSlug(w) ==
  \E c \in Creates :
    LET a == <<c.slug, c.inst>>
    IN  /\ Begin(w)
        /\ Write(w,
             IF c.owner = None THEN Ended("ok")
             ELSE [Idle EXCEPT !.pc = "own", !.kind = "create", !.inst = c.inst,
                     !.owner = c.owner,
                     !.items = <<[slug |-> c.slug, ord |-> c.ord]>>],
             UpsertSlug(db, a, c.ord), {}, {})

\* handle_delete_instance
HandleDeleteInstance(w) ==
  \E inst \in Instances :
    /\ Begin(w)
    /\ Write(w, Ended("ok"), DeleteInstance(db, inst), {}, In(inst))

\* handle_delete_checklist
HandleDeleteChecklist(w) ==
  /\ Begin(w)
  /\ Write(w, Ended("ok"), DeleteChecklist(db), {}, Workers)

\* handle_relationships_template_create: HasSlugById for both ends ...
CheckLink(w) ==
  \E r \in Links :
    /\ Begin(w)
    /\ Write(w,
         IF \A s \in {r.subject, r.target} : \E a \in db.rows : a[1] = s
         THEN [Idle EXCEPT !.pc = "link", !.kind = "link", !.rels = {r}]
         ELSE Ended("failed"),
         db, {}, {})

\* ... then InsertTemplateRelationship.
InsertTemplateRelationship(w) ==
  /\ At(w, "link")
  /\ Write(w, Ended("ok"), [db EXCEPT !.trel = @ \cup wk[w].rels], {}, {})

----------------------------------------------------------------------------
(* Imports.                                                                *)

Items(doc) == [n \in DOMAIN doc.rows |->
                 [slug |-> doc.rows[n], ord |-> ImportOrder(doc.rows, n)]]

Importing(m) ==
  [Idle EXCEPT !.pc = "row", !.kind = m.kind, !.inst = m.inst,
               !.owner = IF m.kind = "markdown" THEN None ELSE m.doc.owner,
               !.items = Items(m.doc), !.rels = m.doc.rels]

\* handle_workspace_markdown_import, import_workspace_markdown_file (kinds
\* "replace" and "keep") and handle_import_markdown (kind "markdown") up to
\* the first row.
BeginImport(w) ==
  \E m \in Imports :
    /\ m.kind \in {"replace", "keep", "markdown"}
    /\ Begin(w)
    /\ IF m.kind = "replace"
       THEN Write(w, Importing(m), DeleteOwnedInstance(db, m.inst, m.doc.owner), {},
                  {u \in In(m.inst) : wk[u].owner = m.doc.owner})
       ELSE Write(w, Importing(m), db, {}, {})

\* The record once the current row is done.
NextRow(w) == IF AtLast(w) THEN [wk[w] EXCEPT !.pc = "merge"]
              ELSE [wk[w] EXCEPT !.pc = "row", !.i = @ + 1]

\* One row of an import: UpsertSlug, or for handle_import_markdown
\* CreateSlugIfMissing.  UpdateTemplateFieldsForSlug writes what the slug
\* id hashes, so it changes nothing here.
ImportRow(w) ==
  /\ At(w, "row")
  /\ CASE wk[w].kind = "markdown" ->
            Write(w, NextRow(w), CreateSlugIfMissing(db, Here(w), Item(w).ord),
                  {wk[w].inst}, {})
       [] wk[w].kind = "jsonl" ->
            Write(w, IF AtLast(w) THEN Ended("ok") ELSE NextRow(w),
                  UpsertSlug(db, Here(w), Item(w).ord), {}, {})
       [] OTHER ->
            Write(w, [wk[w] EXCEPT !.pc = "own"],
                  UpsertSlug(db, Here(w), Item(w).ord), {}, {})


\* Mutant: a failing INSERT is not noticed.
ClaimRowUnchecked(w) ==
  /\ At(w, "own")
  /\ Write(w, IF wk[w].kind = "create" THEN Ended("ok") ELSE NextRow(w),
           Claimed(db, Here(w), wk[w].owner), {}, {})

\* UpsertOwnership of the row just stored
ClaimRow(w) ==
  /\ At(w, "own")
  /\ LET kept == Here(w) \in db.rows
         next == IF ~kept THEN Ended("failed")
                 ELSE IF wk[w].kind = "create" THEN Ended("ok")
                 ELSE NextRow(w)
     IN  Write(w, next, Claimed(db, Here(w), wk[w].owner), {}, {})

\* MergeTemplateRelationshipsWithLineage: what the store knows of lineage is
\* read here (as one step; the handler reads slug by slug).
MergeLineage(w) ==
  /\ At(w, "merge")
  /\ Write(w, [wk[w] EXCEPT !.pc = "template", !.read = Loaded(db),
                 !.rels = Merged(RowsOf(wk[w]), @, Loaded(db), db.trel)],
           db, {}, {})

ReplaceTemplate(w) ==
  /\ At(w, "template")
  /\ Write(w, [wk[w] EXCEPT !.pc = "check"],
           WithTemplate(db, RowsOf(wk[w]), wk[w].rels), {}, {})

\* The relationships become edges of the imported instance as far as both
\* ends have rows there (HasSlugForInstance).
CheckEdges(w) ==
  /\ At(w, "check")
  /\ LET inst    == wk[w].inst
         aliases == Aliases(RowsOf(wk[w]), wk[w].rels)
         goal(r) == ResolvedTarget(r, aliases)
         kept == {r \in wk[w].rels : /\ goal(r) # None
                                     /\ Has(db, r.subject, inst)
                                     /\ Has(db, goal(r), inst)}
     IN  Write(w, [wk[w] EXCEPT !.pc = "edges", !.left = RowsOf(wk[w]),
                     !.edges = {Edge(r.subject, r.predicate, goal(r), inst) :
                                  r \in kept}],
               db, {}, {})

\* ReplaceRelationships of one imported row; the rows come in the order of
\* a hash map.
ReplaceEdges(w) ==
  \E slug \in wk[w].left :
    LET a     == <<slug, wk[w].inst>>
        edges == {e \in wk[w].edges : e.subject = a}
        done  == wk[w].left = {slug}
    IN  /\ At(w, "edges")
        /\ edges = {} \/ \A e \in edges : {a, e.target} \subseteq db.rows
        /\ Write(w, IF done THEN Ended("ok")
                    ELSE [wk[w] EXCEPT !.left = @ \ {slug}],
                 WithEdges(db, a, edges), {wk[w].inst}, {})

\* A row of an edge is gone: StepOrThrow leaves ReplaceRelationships with
\* its transaction open.  What the connection does then is StoreConnection's
\* matter; here the server has to be restarted.
ReplaceEdgesFails(w) ==
  /\ At(w, "edges")
  /\ \E e \in wk[w].edges :
       /\ e.subject[1] \in wk[w].left
       /\ ~({e.subject, e.target} \subseteq db.rows)
  /\ stuck' = TRUE
  /\ wk' = [wk EXCEPT ![w] = Ended("failed")]
  /\ UNCHANGED <<db, fresh>>

\* The row a line means: a line that carries the address of its row in this
\* instance means the latest successor of that address by the instance's own
\* edges, any other the latest successor of its slug.
Meant(inst, doc, n) ==
  LET slug      == doc.rows[n]
      aliases   == Aliases(Present(db, inst), Loaded(db))
      addresses == Aliases({a \in db.rows : a[2] = inst},
                           {e \in db.erel : /\ e.predicate = Successor
                                            /\ {e.subject[2], e.target[2]} = {inst}})
  IN  IF n \in doc.addressed /\ <<slug, inst>> \in DOMAIN addresses
      THEN addresses[<<slug, inst>>][1]
      ELSE IF slug \in DOMAIN aliases THEN aliases[slug] ELSE slug

\* The order a line gives; else a row that exists keeps its order by passing
\* the one it has when it is looked up.
MeantOrder(inst, doc, n) ==
  LET a == <<Meant(inst, doc, n), inst>>
  IN  IF doc.orders[n] # None THEN doc.orders[n]
      ELSE IF a \in DOMAIN db.ord THEN db.ord[a] ELSE 0

\* handle_import_jsonl with resolve_lineage: every line is looked up before
\* the first is written.  Rows that do not exist are inserted with
\* allow_new, from lines that carry the template's fields.
BeginJsonl(w) ==
  \E m \in Imports, allowNew \in BOOLEAN :
    LET items == [n \in DOMAIN m.doc.rows |-> [slug |-> Meant(m.inst, m.doc, n),
                                              ord |-> MeantOrder(m.inst, m.doc, n)]]
    IN  /\ m.kind = "jsonl"
        /\ Begin(w)
        /\ Write(w,
             IF allowNew \/ \A n \in DOMAIN items : Has(db, items[n].slug, m.inst)
             THEN [Idle EXCEPT !.pc = "row", !.kind = "jsonl", !.inst = m.inst,
                               !.items = items]
             ELSE Ended("failed"),
             db, {}, {})

----------------------------------------------------------------------------
\* The process ends anywhere, also inside a call, and starts again.
CrashRestart ==
  /\ \E w \in Workers : ~Free(w) \/ stuck
  /\ \E d \in {db} \cup UNION {Torn(db, Here(w), Item(w).ord) :
                 w \in {w \in Workers : wk[w].pc = "row" /\ wk[w].kind # "markdown"}} :
       /\ db' = Opened(d)
       /\ fresh' = FreshIn(db', IF d = db THEN {} ELSE Instances)
  /\ wk' = [w \in Workers |-> Idle]
  /\ stuck' = FALSE
  /\ UNCHANGED calls

Next ==
  \/ \E w \in Workers :
       \/ HandleCreateSlug(w) \/ HandleDeleteInstance(w)
       \/ HandleDeleteChecklist(w)
       \/ CheckLink(w) \/ InsertTemplateRelationship(w)
       \/ BeginImport(w) \/ ImportRow(w) \/ ClaimRow(w)
       \/ MergeLineage(w) \/ ReplaceTemplate(w)
       \/ CheckEdges(w) \/ ReplaceEdges(w) \/ ReplaceEdgesFails(w)
       \/ BeginJsonl(w)
  \/ CrashRestart

Spec == Init /\ [][Next]_vars

----------------------------------------------------------------------------
(* Properties.                                                             *)

\* The tables refer to each other as their foreign keys say: orders, owners
\* and edges only of rows that exist; and outside a crash every row has an
\* order.
TypeOK ==
  /\ db.rows \subseteq Addresses
  /\ DOMAIN db.ord = db.rows
  /\ \A a \in db.rows : db.ord[a] \in Nat \ {0}
  /\ db.aown \subseteq db.rows \X Owners
  /\ db.sown \subseteq Slugs \X Owners
  /\ \A r \in db.trel : {r.subject, r.target} \subseteq Slugs
  /\ \A e \in db.erel : {e.subject, e.target} \subseteq db.rows
  /\ \A w \in Workers : wk[w].pc \in {"idle", "ok", "failed", "link", "row",
                                      "own", "merge", "template", "check", "edges"}
  /\ calls \in 0 .. MaxCalls

Succeeds(w) == wk[w].pc \notin {"ok", "idle", "failed"} /\ wk'[w].pc = "ok"

\* A request that stores rows for a workspace source and is answered with
\* success has stored them and made the source their owner, whatever other
\* requests did meanwhile, unless one of them deleted the instance or
\* replaced the rows of the same source: another source's replacing import
\* may remove a row between UpsertSlug and UpsertOwnership, but then the
\* request fails.
SuccessMeansStored ==
  [][\A w \in Workers :
       Succeeds(w) /\ wk[w].owner # None /\ ~wk[w].undone =>
         \A s \in RowsOf(wk[w]) : <<<<s, wk[w].inst>>, wk[w].owner>> \in db'.aown]_vars

\* A replacing import that runs alone heals whatever earlier requests and
\* crashes left: the source owns the rows of its file and no others, its
\* slug owners are those of its rows, the rows stand in the order in which
\* the file names them last, and every relationship of the file leads to the
\* row of the file that its target stands for in the end.
ImportHeals ==
  [][\A w \in Workers :
       LET inst  == wk[w].inst
           items == wk[w].items
           mine  == {o[1] : o \in {o \in db'.aown : o[2] = wk[w].owner}}
           at(n) == db'.ord[<<items[n].slug, inst>>]
           now(s) == LET latest == Latest(Declared(wk[w].rels), s)
                     IN  IF latest \in RowsOf(wk[w]) THEN latest ELSE s
       IN  Succeeds(w) /\ wk[w].kind = "replace" /\ wk[w].calm =>
             /\ {a \in mine : a[2] = inst} = {<<s, inst>> : s \in RowsOf(wk[w])}
             /\ {s \in db'.sown : s[2] = wk[w].owner}
                  = {<<a[1], wk[w].owner>> : a \in mine}
             /\ \A m, n \in DOMAIN items :
                  /\ m < n /\ SectionOf[items[m].slug] = SectionOf[items[n].slug]
                  /\ \A k \in DOMAIN items : m < k => items[k].slug # items[m].slug
                  => at(m) < at(n)
             /\ \A r \in wk[w].rels :
                  /\ r.predicate \notin LineagePredicates
                  /\ now(r.target) \in RowsOf(wk[w])
                  => Edge(r.subject, r.predicate, now(r.target), inst) \in db'.erel]_vars

\* What the store knows of the lineage of a row is lost only with the whole
\* checklist, or by an import that read the relationships before this one
\* was declared (or while its row was gone).
LineageKept ==
  [][\A r \in db.trel \ db'.trel :
       r.predicate \in LineagePredicates =>
         \/ db'.rows = {}
         \/ \E w \in Workers : wk[w].pc = "template" /\ wk[w] # wk'[w]
                                /\ r \notin wk[w].read]_vars

\* No slug is replaced by two.
Unbranched(rels) == \A s \in Slugs : Cardinality(NextOf(SuccessorIndex(rels), s)) <= 1

\* The edges of an instance do not depend on the order in which its rows
\* were created and others deleted: while the relationships stand still and
\* UpsertSlug creates the rows, they are the template's ordinary
\* relationships between the current rows (where no superseded row is
\* present and no slug is replaced by two).
MaterialisedWhole ==
  \A i \in fresh :
    Unbranched(Loaded(db)) /\ AllCurrent(db, i) =>
      {e \in db.erel : e.subject[2] = i /\ e.predicate \notin LineagePredicates}
        = {Edge(Now(db, r.subject), r.predicate, Now(db, r.target), i) :
             r \in {r \in Loaded(db) : /\ r.predicate \notin LineagePredicates
                                      /\ Now(db, r.subject) \in Present(db, i)
                                      /\ Now(db, r.target) \in Present(db, i)}}

\* The request that gives the address an order of its own, if one does.
Ordered(a) ==
  \/ \E w \in Workers : /\ wk[w].pc = "row" /\ wk[w] # wk'[w]
                        /\ Here(w) = a /\ Item(w).ord > 0
  \/ \E c \in Creates : <<c.slug, c.inst>> = a /\ c.ord > 0

\* Where a repack puts a row.
RepackPlace(ord, a) ==
  LET rows == SectionRows(ord, a[2], SectionOf[a[1]])
  IN  SectionBase(ord, rows) + TightGap(rows) * Place(ord, rows, a)

Crashed == wk' = [w \in Workers |-> Idle]

\* Rows of a section keep their relative order, however often the section is
\* repacked, and also where the process dies in the middle of a repack, as
\* long as the later row stands after the place of the earlier one; a new
\* row whose order neither the request nor the template says comes after the
\* rows of its section.
SectionOrderKept ==
  [][\A a \in DOMAIN db'.ord : ~Ordered(a) =>
       \A b \in DOMAIN db.ord \cap DOMAIN db'.ord :
         /\ a[2] = b[2] /\ SectionOf[a[1]] = SectionOf[b[1]] /\ ~Ordered(b)
         => IF a \in DOMAIN db.ord
            THEN /\ db.ord[a] < db.ord[b]
                 /\ Crashed => RepackPlace(db.ord, a) < db.ord[b]
                 => db'.ord[a] < db'.ord[b]
            ELSE \/ TemplateOrder(db.ord, a[1]) = db'.ord[a]
                 \/ db'.ord[b] < db'.ord[a]]_vars

\* docs/relationship_workbench_contract.md: a lineage declaration itself is
\* not turned into a resolved self-edge.
NoLineageSelfEdge ==
  \A e \in db.erel : e.predicate \in LineagePredicates => e.subject # e.target
============================================================================
