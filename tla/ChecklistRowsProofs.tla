------------------------ MODULE ChecklistRowsProofs ------------------------
(***************************************************************************)
(* Theorems about ChecklistRows, for any slugs, instances, imports and     *)
(* workers.                                                                *)
(*                                                                         *)
(* Lineage (first part): template relationships are written by four kinds  *)
(* of steps only; the one that takes some away without taking the rows is  *)
(* the replacement of an import, and what it puts in their place was       *)
(* merged from what it read.                                               *)
(*                                                                         *)
(* Rows (second part): what each operation of the store leaves in each     *)
(* table, what a crash inside UpsertSlug leaves and a restart completes,   *)
(* and from these one invariant, RowsInv, with one lemma per action.  The  *)
(* types of the tables, SuccessMeansStored and SectionOrderKept follow.    *)
(*                                                                         *)
(* Healing (third part): what a replacing import that runs alone has       *)
(* established after each of its steps (HealInv), from the deletion of its *)
(* source's rows to its last ReplaceRelationships.  ImportHeals follows.   *)
(*                                                                         *)
(* Edges (fourth part): the walk of ResolveLatestSlugId finds the end of   *)
(* a chain; a row that nothing replaces leaves what every other slug       *)
(* stands for as it was; so UpsertSlug of a new row adds exactly the edges *)
(* that now are wanted, and the deletes take exactly those that no longer  *)
(* are.  MaterialisedWhole follows.                                        *)
(***************************************************************************)
EXTENDS ChecklistRows, SlugOrderProofs

\* The tables are a record of the six tables, whatever is in them.
IsTables(d) ==
  d = [rows |-> d.rows, ord |-> d.ord, aown |-> d.aown, sown |-> d.sown,
       trel |-> d.trel, erel |-> d.erel]

IsJob(rec) ==
  rec = [pc |-> rec.pc, kind |-> rec.kind, inst |-> rec.inst, owner |-> rec.owner,
         items |-> rec.items, i |-> rec.i, rels |-> rec.rels, read |-> rec.read,
         edges |-> rec.edges, left |-> rec.left, calm |-> rec.calm, undone |-> rec.undone]

\* An import about to replace the relationships of its rows will put the
\* lineage back that it read.
PutsBack(rec) ==
  rec.pc = "template" =>
    \A r \in rec.read : r.predicate \in LineagePredicates /\ r.subject \in RowsOf(rec)
                          => r \in rec.rels

JobOK(rec) == IsJob(rec) /\ PutsBack(rec)

Inv ==
  /\ IsTables(db)
  /\ wk = [w \in Workers |-> wk[w]]
  /\ \A w \in Workers : JobOK(wk[w])

\* Tables with at least the template relationships of d, or with no rows.
Keeps(d, e) == IsTables(e) /\ (d.trel \subseteq e.trel \/ e.rows = {})

LostOnlyByImport ==
  \A r \in db.trel \ db'.trel :
    r.predicate \in LineagePredicates =>
      \/ db'.rows = {}
      \/ \E w \in Workers : wk[w].pc = "template" /\ wk[w] # wk'[w] /\ r \notin wk[w].read

-----------------------------------------------------------------------------
(* The operations of the store.                                            *)

\* Tables of the same template relationships.
Same(d, e) == IsTables(e) /\ e.trel = d.trel

\* The tables change field by field.
LEMMA FieldWritten ==
  ASSUME NEW d, IsTables(d), NEW v
  PROVE  /\ Same(d, [d EXCEPT !.rows = v]) /\ [d EXCEPT !.rows = v].rows = v
         /\ Same(d, [d EXCEPT !.ord = v])  /\ [d EXCEPT !.ord = v].rows = d.rows
         /\ Same(d, [d EXCEPT !.aown = v]) /\ [d EXCEPT !.aown = v].rows = d.rows
         /\ Same(d, [d EXCEPT !.sown = v]) /\ [d EXCEPT !.sown = v].rows = d.rows
         /\ Same(d, [d EXCEPT !.erel = v]) /\ [d EXCEPT !.erel = v].rows = d.rows
         /\ IsTables([d EXCEPT !.trel = v]) /\ [d EXCEPT !.trel = v].rows = d.rows
         /\ [d EXCEPT !.trel = v].trel = v
BY DEF IsTables, Same

\* DELETE FROM slugs leaves the template relationships.
LEMMA RowsRemoved ==
  ASSUME NEW d, IsTables(d), NEW gone
  PROVE  Same(d, WithoutRows(d, gone)) /\ WithoutRows(d, gone).rows = d.rows \ gone
<1>1. PICK e1 : e1 = [d EXCEPT !.rows = d.rows \ gone] OBVIOUS
<1>2. PICK e2 : e2 = [e1 EXCEPT !.ord = Restrict(d.ord, DOMAIN d.ord \ gone)] OBVIOUS
<1>3. PICK e3 : e3 = [e2 EXCEPT !.aown = {o \in d.aown : o[1] \notin gone}] OBVIOUS
<1>4. PICK e4 : e4 = [e3 EXCEPT !.erel =
                        {e \in d.erel : e.subject \notin gone /\ e.target \notin gone}]
  OBVIOUS
<1>5. WithoutRows(d, gone) = e4
  BY <1>1, <1>2, <1>3, <1>4 DEF WithoutRows
<1>6. Same(d, e1) /\ e1.rows = d.rows \ gone
  <2>1. PICK rest : rest = d.rows \ gone OBVIOUS
  <2>2. Same(d, [d EXCEPT !.rows = rest]) /\ [d EXCEPT !.rows = rest].rows = rest
    BY FieldWritten, ZenonT(60)
  <2> QED BY <1>1, <2>1, <2>2
<1>7. Same(e1, e2) /\ e2.rows = e1.rows BY <1>2, <1>6, FieldWritten DEF Same
<1>8. Same(e2, e3) /\ e3.rows = e2.rows BY <1>3, <1>7, FieldWritten, ZenonT(60) DEF Same
<1>9. Same(e3, e4) /\ e4.rows = e3.rows BY <1>4, <1>8, FieldWritten, ZenonT(60) DEF Same
<1> QED BY <1>5, <1>6, <1>7, <1>8, <1>9 DEF Same

\* Only DeleteChecklist takes template relationships, with every row.
LEMMA DeletesKeep ==
  ASSUME NEW d, IsTables(d), NEW inst, NEW owner
  PROVE  /\ Keeps(d, DeleteOwnedInstance(d, inst, owner))
         /\ Keeps(d, DeleteInstance(d, inst))
         /\ Keeps(d, DeleteChecklist(d))
<1>1. Keeps(d, DeleteOwnedInstance(d, inst, owner))
  <2>1. PICK e1 : e1 = [d EXCEPT !.aown = {o \in d.aown : o[1][2] # inst \/ o[2] # owner}]
    OBVIOUS
  <2>2. PICK e2 : e2 = [e1 EXCEPT !.sown = {s \in e1.sown : s[2] = owner => Backed(e1, s)}]
    OBVIOUS
  <2>3. DeleteOwnedInstance(d, inst, owner) =
          WithoutRows(e2, {a \in d.rows : a[2] = inst /\ ~ \E o \in e2.aown : o[1] = a})
    BY <2>1, <2>2 DEF DeleteOwnedInstance
  <2>4. Same(d, e1) BY <2>1, FieldWritten
  <2>5. Same(e1, e2) BY <2>2, <2>4, FieldWritten DEF Same
  <2> QED BY <2>3, <2>4, <2>5, RowsRemoved DEF Keeps, Same
<1>2. Keeps(d, DeleteInstance(d, inst))
  <2>1. PICK e : e = WithoutRows(d, {a \in d.rows : a[2] = inst}) OBVIOUS
  <2>2. PICK v : v = {s \in e.sown : Backed(e, s)} OBVIOUS
  <2>3. DeleteInstance(d, inst) = [e EXCEPT !.sown = v]
    BY <2>1, <2>2 DEF DeleteInstance
  <2>4. Same(d, e) BY <2>1, RowsRemoved
  <2>5. Same(e, [e EXCEPT !.sown = v]) BY <2>4, FieldWritten DEF Same
  <2> QED BY <2>3, <2>4, <2>5 DEF Keeps, Same
<1>3. Keeps(d, DeleteChecklist(d))
  <2>1. CASE d.rows = {} BY <2>1 DEF DeleteChecklist, Keeps
  <2>2. CASE d.rows # {}
    <3>1. PICK gone : gone = {a[1] : a \in d.rows} OBVIOUS
    <3>2. PICK e : e = WithoutRows(d, d.rows) OBVIOUS
    <3>3. PICK e1 : e1 = [e EXCEPT !.sown = {}] OBVIOUS
    <3>4. PICK e2 : e2 = [e1 EXCEPT !.aown = {}] OBVIOUS
    <3>5. PICK left : left = {r \in e.trel : {r.subject, r.target} \cap gone = {}} OBVIOUS
    <3>6. DeleteChecklist(d) = [e2 EXCEPT !.trel = left]
      BY <2>2, <3>1, <3>2, <3>3, <3>4, <3>5 DEF DeleteChecklist
    <3>7. IsTables(e) /\ e.rows = {} BY <3>2, RowsRemoved DEF Same
    <3>8. IsTables(e1) /\ e1.rows = {} BY <3>3, <3>7, FieldWritten, ZenonT(60) DEF Same
    <3>9. IsTables(e2) /\ e2.rows = {} BY <3>4, <3>8, FieldWritten, ZenonT(60) DEF Same
    <3>10. IsTables([e2 EXCEPT !.trel = left]) /\ [e2 EXCEPT !.trel = left].rows = {}
      BY <3>9, FieldWritten
    <3> QED BY <3>6, <3>10 DEF Keeps
  <2> QED BY <2>1, <2>2
<1> QED BY <1>1, <1>2, <1>3

\* Storing a row, whole or cut off by a crash, its owner or its edges
\* leaves the template relationships.
LEMMA InsertsKeep ==
  ASSUME NEW d, IsTables(d), NEW a, NEW n, NEW owner, NEW edges
  PROVE  /\ Keeps(d, UpsertSlug(d, a, n))
         /\ Keeps(d, CreateSlugIfMissing(d, a, n))
         /\ Keeps(d, Claimed(d, a, owner))
         /\ Keeps(d, WithEdges(d, a, edges))
         /\ \A e \in Torn(d, a, n) : Keeps(d, e)
<1>1. PICK row : row = WithRow(d, a) OBVIOUS
<1>2. Same(d, row)
  <2>1. PICK rows : rows = d.rows \cup {a} OBVIOUS
  <2>2. Same(d, [d EXCEPT !.rows = rows]) BY FieldWritten
  <2> QED BY <1>1, <2>1, <2>2 DEF WithRow
<1>3. ASSUME NEW ord PROVE Same(d, [row EXCEPT !.ord = ord])
  BY <1>2, FieldWritten, ZenonT(60) DEF Same
<1>4. ASSUME NEW e, Same(d, e) PROVE Same(d, Inherited(e, a))
  <2>1. PICK own : own = e.aown \cup {<<a, o[2]>> : o \in {o \in e.aown : o[1] = <<a[1], Template>>}}
    OBVIOUS
  <2>2. Same(e, [e EXCEPT !.aown = own]) BY <1>4, FieldWritten DEF Same
  <2> QED BY <1>4, <2>1, <2>2 DEF Inherited, Same
<1>5. PICK placed : placed = Placed(d, a, n) OBVIOUS
<1>6. Same(d, placed) BY <1>1, <1>3, <1>4, <1>5 DEF Placed
<1>7. ASSUME NEW some PROVE Same(d, [placed EXCEPT !.erel = some])
  BY <1>6, FieldWritten, ZenonT(60) DEF Same
<1>8. Same(d, UpsertSlug(d, a, n)) BY <1>5, <1>7 DEF UpsertSlug
<1>9. Same(d, CreateSlugIfMissing(d, a, n))
  BY <1>1, <1>3, <1>4 DEF CreateSlugIfMissing
<1>10. Same(d, Claimed(d, a, owner))
  <2>1. PICK v : v = d.sown \cup {<<a[1], owner>>} OBVIOUS
  <2>2. PICK u : u = IF a \in d.rows THEN d.aown \cup {<<a, owner>>} ELSE d.aown OBVIOUS
  <2>3. PICK e : e = [d EXCEPT !.sown = v] OBVIOUS
  <2>4. Same(d, e) BY <2>3, FieldWritten
  <2>5. Same(e, [e EXCEPT !.aown = u]) BY <2>4, FieldWritten DEF Same
  <2>6. Claimed(d, a, owner) = [e EXCEPT !.aown = u]
    BY <2>1, <2>2, <2>3 DEF Claimed
  <2> QED BY <2>4, <2>5, <2>6 DEF Same
<1>11. Same(d, WithEdges(d, a, edges))
  BY FieldWritten DEF WithEdges
<1>12. \A e \in Torn(d, a, n) : Same(d, e)
  <2>1. Same(d, d) BY DEF Same
  <2>2. ASSUME NEW ord PROVE Same(d, [d EXCEPT !.ord = ord]) BY FieldWritten
  <2>3. ASSUME NEW ord, NEW later
        PROVE  Same(d, [[row EXCEPT !.ord = ord] EXCEPT !.ord = later])
    BY <1>3, FieldWritten, ZenonT(60) DEF Same
  <2> QED BY <1>1, <1>3, <1>5, <1>7, <2>1, <2>2, <2>3, ZenonT(60) DEF Torn
<1> QED BY <1>8, <1>9, <1>10, <1>11, <1>12 DEF Keeps, Same

-----------------------------------------------------------------------------
(* Requests.                                                               *)

\* The records of requests change field by field.
LEMMA JobWritten ==
  ASSUME NEW rec, IsJob(rec), NEW v
  PROVE  /\ IsJob([rec EXCEPT !.pc = v])   /\ [rec EXCEPT !.pc = v].pc = v
         /\ [rec EXCEPT !.pc = v].items = rec.items /\ [rec EXCEPT !.pc = v].rels = rec.rels
         /\ [rec EXCEPT !.pc = v].read = rec.read
         /\ IsJob([rec EXCEPT !.read = v]) /\ [rec EXCEPT !.read = v].read = v
         /\ [rec EXCEPT !.read = v].items = rec.items /\ [rec EXCEPT !.read = v].pc = rec.pc
         /\ IsJob([rec EXCEPT !.rels = v]) /\ [rec EXCEPT !.rels = v].rels = v
         /\ [rec EXCEPT !.rels = v].items = rec.items /\ [rec EXCEPT !.rels = v].pc = rec.pc
         /\ [rec EXCEPT !.rels = v].read = rec.read
BY DEF IsJob

\* Fields PutsBack does not speak of.
LEMMA JobAside ==
  ASSUME NEW rec, JobOK(rec), NEW v
  PROVE  /\ JobOK([rec EXCEPT !.calm = v])  /\ [rec EXCEPT !.calm = v].pc = rec.pc
         /\ JobOK([rec EXCEPT !.undone = v]) /\ [rec EXCEPT !.undone = v].pc = rec.pc
BY DEF IsJob, JobOK, PutsBack, RowsOf

\* A step of Write between tables.
LEMMA WriteInv ==
  ASSUME Inv, NEW w \in Workers, NEW rec, NEW d, NEW spoiled, NEW undo,
         Write(w, rec, d, spoiled, undo), JobOK(rec), IsTables(d)
  PROVE  Inv'
<1>1. db' = d /\ wk' = [u \in Workers |->
              IF u = w THEN rec
              ELSE IF Free(u) THEN wk[u]
              ELSE [wk[u] EXCEPT !.calm = @ /\ d = db, !.undone = @ \/ u \in undo]]
  BY DEF Write
<1>2. ASSUME NEW u \in Workers PROVE JobOK(wk'[u])
  <2>1. JobOK(wk[u]) BY DEF Inv
  <2>2. PICK rec0, calm, undone : /\ rec0 = wk[u] /\ calm = (wk[u].calm /\ d = db)
                                  /\ undone = (wk[u].undone \/ u \in undo)
    OBVIOUS
  <2>3. JobOK([[rec0 EXCEPT !.calm = calm] EXCEPT !.undone = undone])
    BY <2>1, <2>2, JobAside
  <2> QED BY <1>1, <2>1, <2>2, <2>3
<1> QED BY <1>1, <1>2 DEF Inv

\* A step of Write from tables to tables that keep them.
LEMMA WriteKeeps ==
  ASSUME Inv, NEW w \in Workers, NEW rec, NEW d, NEW spoiled, NEW undo,
         Write(w, rec, d, spoiled, undo), JobOK(rec), Keeps(db, d)
  PROVE  Inv' /\ LostOnlyByImport
<1>1. Inv' BY WriteInv DEF Keeps
<1>2. LostOnlyByImport BY DEF Write, Keeps, LostOnlyByImport
<1> QED BY <1>1, <1>2

\* A request that has just begun or has ended puts nothing back.
LEMMA IdleJob ==
  /\ IsJob(Idle) /\ Idle.read = {}
  /\ \A pc : JobOK(Ended(pc))
<1>1. IsJob(Idle) /\ Idle.read = {} BY DEF IsJob, Idle
<1>2. ASSUME NEW pc PROVE JobOK(Ended(pc))
  <2>1. PICK rec : rec = Ended(pc) OBVIOUS
  <2>2. rec = [pc |-> pc, kind |-> "none", inst |-> Template, owner |-> None,
               items |-> <<>>, i |-> 1, rels |-> {}, read |-> {}, edges |-> {},
               left |-> {}, calm |-> TRUE, undone |-> FALSE]
    BY <2>1 DEF Ended, Idle
  <2>3. IsJob(rec) /\ rec.read = {} BY <2>2 DEF IsJob
  <2> QED BY <2>1, <2>3 DEF JobOK, PutsBack
<1> QED BY <1>1, <1>2

\* The requests of one call, or of a check and a call.
LEMMA SimpleStep ==
  ASSUME Inv, NEW w \in Workers,
         \/ HandleCreateSlug(w) \/ HandleDeleteInstance(w) \/ HandleDeleteChecklist(w)
         \/ CheckLink(w) \/ InsertTemplateRelationship(w)
  PROVE  Inv' /\ LostOnlyByImport
<1>1. IsTables(db) /\ Keeps(db, db) BY DEF Inv, Keeps
<1>2. CASE HandleCreateSlug(w)
  <2>1. PICK c \in Creates : Write(w,
             IF c.owner = None THEN Ended("ok")
             ELSE [Idle EXCEPT !.pc = "own", !.kind = "create", !.inst = c.inst,
                     !.owner = c.owner,
                     !.items = <<[slug |-> c.slug, ord |-> c.ord]>>],
             UpsertSlug(db, <<c.slug, c.inst>>, c.ord), {}, {})
    BY <1>2 DEF HandleCreateSlug
  <2>2. PICK rec : rec = IF c.owner = None THEN Ended("ok")
             ELSE [Idle EXCEPT !.pc = "own", !.kind = "create", !.inst = c.inst,
                     !.owner = c.owner,
                     !.items = <<[slug |-> c.slug, ord |-> c.ord]>>]
    OBVIOUS
  <2>3. JobOK(rec)
    <3>1. CASE c.owner = None BY <2>2, <3>1, IdleJob
    <3>2. CASE c.owner # None
      BY <2>2, <3>2 DEF Idle, JobOK, IsJob, PutsBack
    <3> QED BY <3>1, <3>2
  <2>4. PICK d : d = UpsertSlug(db, <<c.slug, c.inst>>, c.ord) OBVIOUS
  <2>5. Keeps(db, d) BY <1>1, <2>4, InsertsKeep
  <2> QED BY <2>1, <2>2, <2>3, <2>4, <2>5, WriteKeeps
<1>3. CASE HandleDeleteInstance(w)
  <2>1. PICK inst \in Instances :
          Write(w, Ended("ok"), DeleteInstance(db, inst), {}, In(inst))
    BY <1>3 DEF HandleDeleteInstance
  <2>2. PICK rec, d, undo : rec = Ended("ok") /\ d = DeleteInstance(db, inst) /\ undo = In(inst)
    OBVIOUS
  <2>3. JobOK(rec) /\ Keeps(db, d) BY <1>1, <2>2, IdleJob, DeletesKeep
  <2> QED BY <2>1, <2>2, <2>3, WriteKeeps
<1>4. CASE HandleDeleteChecklist(w)
  <2>1. PICK rec, d : rec = Ended("ok") /\ d = DeleteChecklist(db) OBVIOUS
  <2>2. JobOK(rec) /\ Keeps(db, d) BY <1>1, <2>1, IdleJob, DeletesKeep
  <2> QED BY <1>4, <2>1, <2>2, WriteKeeps DEF HandleDeleteChecklist
<1>5. CASE CheckLink(w)
  <2>1. PICK r \in Links : \E rec :
          /\ Write(w, rec, db, {}, {})
          /\ \/ rec = Ended("failed")
             \/ rec = [Idle EXCEPT !.pc = "link", !.kind = "link", !.rels = {r}]
    BY <1>5 DEF CheckLink
  <2>2. PICK rec : /\ Write(w, rec, db, {}, {})
                   /\ \/ rec = Ended("failed")
                      \/ rec = [Idle EXCEPT !.pc = "link", !.kind = "link", !.rels = {r}]
    BY <2>1
  <2>3. JobOK(rec)
    <3>1. CASE rec = Ended("failed") BY <3>1, IdleJob
    <3>2. CASE rec = [Idle EXCEPT !.pc = "link", !.kind = "link", !.rels = {r}]
      BY <3>2 DEF Idle, JobOK, IsJob, PutsBack
    <3> QED BY <2>2, <3>1, <3>2
  <2>4. PICK d : d = db OBVIOUS
  <2> QED BY <1>1, <2>2, <2>3, <2>4, WriteKeeps
<1>6. CASE InsertTemplateRelationship(w)
  <2>1. PICK rec, d : rec = Ended("ok") /\ d = [db EXCEPT !.trel = @ \cup wk[w].rels] OBVIOUS
  <2>2. JobOK(rec) BY <2>1, IdleJob
  <2>3. Keeps(db, d)
    <3>1. PICK trel : trel = db.trel \cup wk[w].rels OBVIOUS
    <3>2. IsTables([db EXCEPT !.trel = trel]) /\ [db EXCEPT !.trel = trel].trel = trel
      BY <1>1, FieldWritten
    <3> QED BY <2>1, <3>1, <3>2 DEF Keeps
  <2> QED BY <1>6, <2>1, <2>2, <2>3, WriteKeeps DEF InsertTemplateRelationship
<1> QED BY <1>2, <1>3, <1>4, <1>5, <1>6

-----------------------------------------------------------------------------
(* Imports.                                                                *)

\* What an import that goes on changes of its record.
LEMMA JobGoesOn ==
  ASSUME NEW rec, IsJob(rec), NEW pc, pc # "template", NEW v, NEW u
  PROVE  /\ JobOK([rec EXCEPT !.pc = pc])
         /\ JobOK([rec EXCEPT !.pc = pc, !.i = v])
         /\ JobOK([rec EXCEPT !.pc = pc, !.left = v, !.edges = u])
<1>1. IsJob([rec EXCEPT !.pc = pc]) /\ [rec EXCEPT !.pc = pc].pc = pc BY DEF IsJob
<1>2. PICK on, then, left :
        /\ on = [rec EXCEPT !.pc = pc] /\ then = [on EXCEPT !.i = v]
        /\ left = [on EXCEPT !.left = v]
  OBVIOUS
<1>3. IsJob(then) /\ then.pc = pc BY <1>1, <1>2 DEF IsJob
<1>4. IsJob(left) /\ left.pc = pc BY <1>1, <1>2 DEF IsJob
<1>5. IsJob([left EXCEPT !.edges = u]) /\ [left EXCEPT !.edges = u].pc = pc
  BY <1>4 DEF IsJob
<1>6. JobOK(on) /\ JobOK(then) /\ JobOK([left EXCEPT !.edges = u])
  BY <1>1, <1>2, <1>3, <1>5 DEF JobOK, PutsBack
<1> QED BY <1>2, <1>6

\* An import that has stored a row is not about to replace anything.
LEMMA RowDone ==
  ASSUME Inv, NEW w \in Workers
  PROVE  JobOK(NextRow(w))
<1>1. IsJob(wk[w]) BY DEF Inv, JobOK
<1>2. PICK rec, next : rec = wk[w] /\ next = wk[w].i + 1 OBVIOUS
<1>3. JobOK([rec EXCEPT !.pc = "merge"]) BY <1>1, <1>2, JobGoesOn
<1>4. JobOK([rec EXCEPT !.pc = "row", !.i = next]) BY <1>1, <1>2, JobGoesOn
<1> QED BY <1>2, <1>3, <1>4 DEF NextRow

\* The rows of an import.
LEMMA RowStep ==
  ASSUME Inv, NEW w \in Workers, BeginImport(w) \/ ImportRow(w) \/ ClaimRow(w)
  PROVE  Inv' /\ LostOnlyByImport
<1>1. IsTables(db) /\ Keeps(db, db) BY DEF Inv, Keeps
<1>2. IsJob(wk[w]) BY DEF Inv, JobOK
<1>3. CASE BeginImport(w)
  <2>1. PICK m \in Imports :
          IF m.kind = "replace"
          THEN Write(w, Importing(m), DeleteOwnedInstance(db, m.inst, m.doc.owner), {},
                     {u \in In(m.inst) : wk[u].owner = m.doc.owner})
          ELSE Write(w, Importing(m), db, {}, {})
    BY <1>3 DEF BeginImport
  <2>2. PICK rec, d, e, undo :
          /\ rec = Importing(m) /\ d = db
          /\ e = DeleteOwnedInstance(db, m.inst, m.doc.owner)
          /\ undo = {u \in In(m.inst) : wk[u].owner = m.doc.owner}
    OBVIOUS
  <2>3. JobOK(rec) BY <2>2 DEF Importing, Idle, JobOK, IsJob, PutsBack
  <2>4. Keeps(db, e) BY <1>1, <2>2, DeletesKeep
  <2>5. Write(w, rec, e, {}, undo) \/ Write(w, rec, d, {}, {}) BY <2>1, <2>2
  <2> QED BY <1>1, <2>2, <2>3, <2>4, <2>5, WriteKeeps
<1>4. CASE ImportRow(w)
  <2>1. PICK d, e, next, own, over, inst :
          /\ d = CreateSlugIfMissing(db, Here(w), Item(w).ord)
          /\ e = UpsertSlug(db, Here(w), Item(w).ord)
          /\ next = NextRow(w)
          /\ over = IF AtLast(w) THEN Ended("ok") ELSE NextRow(w)
          /\ own = [wk[w] EXCEPT !.pc = "own"]
          /\ inst = {wk[w].inst}
    OBVIOUS
  <2>2. JobOK(next) /\ JobOK(over) BY <2>1, RowDone, IdleJob
  <2>3. JobOK(own)
    <3>1. PICK rec : rec = wk[w] OBVIOUS
    <3>2. JobOK([rec EXCEPT !.pc = "own"]) BY <1>2, <3>1, JobGoesOn
    <3> QED BY <2>1, <3>1, <3>2
  <2>4. Keeps(db, d) /\ Keeps(db, e) BY <1>1, <2>1, InsertsKeep
  <2>5. \/ Write(w, next, d, inst, {})
        \/ Write(w, over, e, {}, {})
        \/ Write(w, own, e, {}, {})
    BY <1>4, <2>1 DEF ImportRow
  <2> QED BY <2>2, <2>3, <2>4, <2>5, WriteKeeps
<1>5. CASE ClaimRow(w)
  <2>1. PICK d, next :
          /\ d = Claimed(db, Here(w), wk[w].owner)
          /\ next = IF Here(w) \notin db.rows THEN Ended("failed")
                    ELSE IF wk[w].kind = "create" THEN Ended("ok") ELSE NextRow(w)
    OBVIOUS
  <2>2. JobOK(next) BY <2>1, RowDone, IdleJob
  <2>3. Keeps(db, d) BY <1>1, <2>1, InsertsKeep
  <2>4. Write(w, next, d, {}, {}) BY <1>5, <2>1 DEF ClaimRow
  <2> QED BY <2>2, <2>3, <2>4, WriteKeeps
<1> QED BY <1>3, <1>4, <1>5

\* The merged relationships hold the lineage that was read for the rows of
\* the import.
LEMMA MergedKeepsLineage ==
  ASSUME NEW subjects, NEW incoming, NEW loaded, NEW stored,
         NEW r \in loaded, r.predicate \in LineagePredicates, r.subject \in subjects
  PROVE  r \in Merged(subjects, incoming, loaded, stored)
BY DEF Merged

\* MergeTemplateRelationshipsWithLineage makes what PutsBack says true.
LEMMA MergeStep ==
  ASSUME Inv, NEW w \in Workers, MergeLineage(w)
  PROVE  Inv' /\ LostOnlyByImport
<1>1. IsTables(db) /\ Keeps(db, db) BY DEF Inv, Keeps
<1>2. PICK rec, loaded, merged, d :
        /\ rec = wk[w] /\ loaded = Loaded(db) /\ d = db
        /\ merged = Merged(RowsOf(wk[w]), wk[w].rels, Loaded(db), db.trel)
  OBVIOUS
<1>3. PICK next : next = [rec EXCEPT !.pc = "template", !.read = loaded, !.rels = merged]
  OBVIOUS
<1>4. IsJob(rec) BY <1>2 DEF Inv, JobOK
<1>5. IsJob(next) /\ next.read = loaded /\ next.rels = merged /\ next.items = rec.items
  BY <1>3, <1>4 DEF IsJob
<1>6. RowsOf(next) = RowsOf(rec) BY <1>5 DEF RowsOf
<1>7. PutsBack(next) BY <1>2, <1>5, <1>6, MergedKeepsLineage DEF PutsBack
<1>8. Write(w, next, d, {}, {}) BY <1>2, <1>3 DEF MergeLineage
<1> QED BY <1>1, <1>2, <1>5, <1>7, <1>8, WriteKeeps DEF JobOK

\* The one step that takes relationships away from rows that stay.
LEMMA ReplaceStep ==
  ASSUME Inv, NEW w \in Workers, ReplaceTemplate(w)
  PROVE  Inv' /\ LostOnlyByImport
<1>1. PICK rec, trel : rec = wk[w] /\ trel = {r \in db.trel : r.subject \notin RowsOf(wk[w])}
                                            \cup wk[w].rels
  OBVIOUS
<1>2. PICK next, d : next = [rec EXCEPT !.pc = "check"] /\ d = [db EXCEPT !.trel = trel]
  OBVIOUS
<1>3. IsTables(d) /\ d.trel = trel BY <1>2, FieldWritten DEF Inv
<1>4. JobOK(rec) BY <1>1 DEF Inv
<1>5. JobOK(next) /\ next.pc = "check" BY <1>2, <1>4, JobGoesOn, JobWritten DEF JobOK
<1>6. Write(w, next, d, {}, {}) BY <1>1, <1>2 DEF ReplaceTemplate, WithTemplate
<1>7. Inv' BY <1>3, <1>5, <1>6, WriteInv
<1>8. rec.pc = "template" BY <1>1 DEF ReplaceTemplate, At
<1>9. db' = d /\ wk'[w] = next BY <1>6 DEF Write
<1>10. LostOnlyByImport
  <2> SUFFICES ASSUME NEW r \in db.trel \ db'.trel, r.predicate \in LineagePredicates
               PROVE  wk[w].pc = "template" /\ wk[w] # wk'[w] /\ r \notin wk[w].read
    BY DEF LostOnlyByImport
  <2>1. r.subject \in RowsOf(rec) /\ r \notin rec.rels BY <1>1, <1>3, <1>9
  <2>2. r \notin rec.read BY <1>4, <1>8, <2>1 DEF JobOK, PutsBack
  <2> QED BY <1>1, <1>5, <1>8, <1>9, <2>2
<1> QED BY <1>7, <1>10

\* The edges of an import, and the first step of a JSONL import.
LEMMA EdgeStep ==
  ASSUME Inv, NEW w \in Workers,
         CheckEdges(w) \/ ReplaceEdges(w) \/ ReplaceEdgesFails(w) \/ BeginJsonl(w)
  PROVE  Inv' /\ LostOnlyByImport
<1>1. IsTables(db) /\ Keeps(db, db) BY DEF Inv, Keeps
<1>2. PICK rec : rec = wk[w] OBVIOUS
<1>3. JobOK(rec) BY <1>2 DEF Inv
<1>4. CASE CheckEdges(w)
  <2>1. \E edges : Write(w, [wk[w] EXCEPT !.pc = "edges", !.left = RowsOf(wk[w]),
                                          !.edges = edges], db, {}, {})
    BY <1>4 DEF CheckEdges
  <2>2. PICK edges : Write(w, [rec EXCEPT !.pc = "edges", !.left = RowsOf(rec),
                                          !.edges = edges], db, {}, {})
    BY <1>2, <2>1
  <2>3. PICK next, d : /\ next = [rec EXCEPT !.pc = "edges", !.left = RowsOf(rec),
                                             !.edges = edges]
                       /\ d = db
    OBVIOUS
  <2>4. JobOK(next) BY <1>3, <2>3, JobGoesOn DEF JobOK
  <2>5. Write(w, next, d, {}, {}) BY <2>2, <2>3
  <2> QED BY <1>1, <2>3, <2>4, <2>5, WriteKeeps
<1>5. CASE ReplaceEdges(w)
  <2>1. PICK slug \in wk[w].left : \E a, edges :
          Write(w, IF wk[w].left = {slug} THEN Ended("ok")
                   ELSE [wk[w] EXCEPT !.left = @ \ {slug}],
                WithEdges(db, a, edges), {wk[w].inst}, {})
    BY <1>5 DEF ReplaceEdges
  <2>2. PICK a, edges :
          Write(w, IF wk[w].left = {slug} THEN Ended("ok")
                   ELSE [wk[w] EXCEPT !.left = @ \ {slug}],
                WithEdges(db, a, edges), {wk[w].inst}, {})
    BY <2>1
  <2>3. PICK next, d, inst, left :
          /\ left = rec.left \ {slug}
          /\ next = IF wk[w].left = {slug} THEN Ended("ok") ELSE [rec EXCEPT !.left = left]
          /\ d = WithEdges(db, a, edges)
          /\ inst = {wk[w].inst}
    OBVIOUS
  <2>4. JobOK([rec EXCEPT !.left = left])
    BY <1>3 DEF JobOK, IsJob, PutsBack, RowsOf
  <2>5. JobOK(next) BY <2>3, <2>4, IdleJob
  <2>6. Keeps(db, d) BY <1>1, <2>3, InsertsKeep
  <2>7. Write(w, next, d, inst, {}) BY <1>2, <2>2, <2>3
  <2> QED BY <2>5, <2>6, <2>7, WriteKeeps
<1>6. CASE ReplaceEdgesFails(w)
  <2>1. db' = db /\ wk' = [wk EXCEPT ![w] = Ended("failed")] BY <1>6 DEF ReplaceEdgesFails
  <2>2. wk' = [u \in Workers |-> wk'[u]] BY <2>1 DEF Inv
  <2>3. ASSUME NEW u \in Workers PROVE JobOK(wk'[u])
    <3>1. wk'[u] = IF u = w THEN Ended("failed") ELSE wk[u] BY <2>1 DEF Inv
    <3> QED BY <3>1, IdleJob DEF Inv
  <2> QED BY <2>1, <2>2, <2>3 DEF Inv, LostOnlyByImport
<1>7. CASE BeginJsonl(w)
  <2>1. PICK m \in Imports : \E next, items :
          /\ Write(w, next, db, {}, {})
          /\ \/ next = Ended("failed")
             \/ next = [Idle EXCEPT !.pc = "row", !.kind = "jsonl", !.inst = m.inst,
                                    !.items = items]
    BY <1>7 DEF BeginJsonl
  <2>2. PICK next, items :
          /\ Write(w, next, db, {}, {})
          /\ \/ next = Ended("failed")
             \/ next = [Idle EXCEPT !.pc = "row", !.kind = "jsonl", !.inst = m.inst,
                                    !.items = items]
    BY <2>1
  <2>3. JobOK(next)
    <3>1. PICK rec2 : rec2 = [Idle EXCEPT !.pc = "row", !.kind = "jsonl",
                                         !.inst = m.inst, !.items = items]
      OBVIOUS
    <3>2. IsJob(rec2) /\ rec2.read = {} BY <3>1 DEF Idle, IsJob
    <3>3. JobOK(rec2) BY <3>2 DEF JobOK, PutsBack
    <3> QED BY <2>2, <3>1, <3>3, IdleJob
  <2>4. PICK d : d = db OBVIOUS
  <2> QED BY <1>1, <2>2, <2>3, <2>4, WriteKeeps
<1> QED BY <1>4, <1>5, <1>6, <1>7

-----------------------------------------------------------------------------
(* The behaviour.                                                          *)

\* A restart keeps the tables a crash left, and forgets the requests.
LEMMA RestartStep ==
  ASSUME Inv, CrashRestart
  PROVE  Inv' /\ LostOnlyByImport
<1>1. PICK d \in {db} \cup UNION {Torn(db, Here(w), Item(w).ord) :
            w \in {w \in Workers : wk[w].pc = "row" /\ wk[w].kind # "markdown"}} :
        db' = Opened(d)
  BY DEF CrashRestart
<1>2. IsTables(db) BY DEF Inv
<1>3. Keeps(db, d)
  <2>1. CASE d = db BY <1>2, <2>1 DEF Keeps
  <2>2. CASE \E w \in Workers : d \in Torn(db, Here(w), Item(w).ord)
    BY <1>2, <2>2, InsertsKeep
  <2> QED BY <1>1, <2>1, <2>2
<1>4. PICK ord : ord = Backfill(d.ord, QueryOrder(d)) OBVIOUS
<1>5. Same(d, [d EXCEPT !.ord = ord]) /\ [d EXCEPT !.ord = ord].rows = d.rows
  BY <1>3, FieldWritten DEF Keeps
<1>6. Keeps(db, db') BY <1>1, <1>3, <1>4, <1>5 DEF Opened, Keeps, Same
<1>7. wk' = [w \in Workers |-> Idle] BY DEF CrashRestart
<1>8. JobOK(Idle) BY DEF Idle, JobOK, IsJob, PutsBack
<1> QED BY <1>6, <1>7, <1>8 DEF Inv, Keeps, LostOnlyByImport

\* A store without rows.
LEMMA InvInit == Init => Inv
<1> SUFFICES ASSUME Init PROVE Inv OBVIOUS
<1>1. IsTables(db) BY DEF Init, IsTables
<1>2. JobOK(Idle) BY IdleJob DEF JobOK, PutsBack
<1> QED BY <1>1, <1>2 DEF Init, Inv

\* Every step keeps the invariant and forgets no lineage unread.
LEMMA InvNext == Inv /\ [Next]_vars => Inv' /\ (LostOnlyByImport \/ UNCHANGED vars)
<1> SUFFICES ASSUME Inv, [Next]_vars
             PROVE  Inv' /\ (LostOnlyByImport \/ UNCHANGED vars)
  OBVIOUS
<1>1. CASE UNCHANGED vars BY <1>1 DEF vars, Inv
<1>2. CASE CrashRestart BY <1>2, RestartStep
<1>3. ASSUME NEW w \in Workers,
             \/ HandleCreateSlug(w) \/ HandleDeleteInstance(w)
             \/ HandleDeleteChecklist(w)
             \/ CheckLink(w) \/ InsertTemplateRelationship(w)
             \/ BeginImport(w) \/ ImportRow(w) \/ ClaimRow(w)
             \/ MergeLineage(w) \/ ReplaceTemplate(w)
             \/ CheckEdges(w) \/ ReplaceEdges(w) \/ ReplaceEdgesFails(w)
             \/ BeginJsonl(w)
      PROVE  Inv' /\ LostOnlyByImport
  BY <1>3, SimpleStep, RowStep, MergeStep, ReplaceStep, EdgeStep
<1> QED BY <1>1, <1>2, <1>3 DEF Next

\* Lineage is forgotten only with the whole checklist, or by an import that
\* had not read it: handle_import_markdown and the workspace import put
\* back what MergeTemplateRelationshipsWithLineage found, and no other
\* request, crash or restart takes a template relationship away while the
\* checklist has rows.
THEOREM LineageIsKept == Spec => LineageKept
<1>1. Inv /\ [Next]_vars => [LostOnlyByImport]_vars BY InvNext
<1>2. Inv /\ [Next]_vars => Inv' BY InvNext
<1> QED BY <1>1, <1>2, InvInit, PTL DEF Spec, LineageKept, LostOnlyByImport

-----------------------------------------------------------------------------
(* What each operation of the store leaves in each table.                  *)

Tables(rows, ord, aown, sown, trel, erel) ==
  [rows |-> rows, ord |-> ord, aown |-> aown, sown |-> sown, trel |-> trel, erel |-> erel]

\* One table written.
LEMMA TableWritten ==
  ASSUME NEW rows, NEW ord, NEW aown, NEW sown, NEW trel, NEW erel, NEW v
  PROVE  /\ IsTables(Tables(rows, ord, aown, sown, trel, erel))
         /\ [Tables(rows, ord, aown, sown, trel, erel) EXCEPT !.rows = v]
              = Tables(v, ord, aown, sown, trel, erel)
         /\ [Tables(rows, ord, aown, sown, trel, erel) EXCEPT !.ord = v]
              = Tables(rows, v, aown, sown, trel, erel)
         /\ [Tables(rows, ord, aown, sown, trel, erel) EXCEPT !.aown = v]
              = Tables(rows, ord, v, sown, trel, erel)
         /\ [Tables(rows, ord, aown, sown, trel, erel) EXCEPT !.sown = v]
              = Tables(rows, ord, aown, v, trel, erel)
         /\ [Tables(rows, ord, aown, sown, trel, erel) EXCEPT !.trel = v]
              = Tables(rows, ord, aown, sown, v, erel)
         /\ [Tables(rows, ord, aown, sown, trel, erel) EXCEPT !.erel = v]
              = Tables(rows, ord, aown, sown, trel, v)
BY DEF Tables, IsTables

\* DELETE FROM slugs.
LEMMA WithoutRowsIs ==
  ASSUME NEW d, IsTables(d), NEW gone
  PROVE  WithoutRows(d, gone) =
           Tables(d.rows \ gone, Restrict(d.ord, DOMAIN d.ord \ gone),
                  {o \in d.aown : o[1] \notin gone}, d.sown, d.trel,
                  {e \in d.erel : e.subject \notin gone /\ e.target \notin gone})
<1>1. PICK rows, ord, aown, erel :
        /\ rows = d.rows \ gone /\ ord = Restrict(d.ord, DOMAIN d.ord \ gone)
        /\ aown = {o \in d.aown : o[1] \notin gone}
        /\ erel = {e \in d.erel : e.subject \notin gone /\ e.target \notin gone}
  OBVIOUS
<1>2. PICK e1 : e1 = [d EXCEPT !.rows = rows]
  OBVIOUS
<1>3. PICK e2 : e2 = [e1 EXCEPT !.ord = ord]
  OBVIOUS
<1>4. PICK e3 : e3 = [e2 EXCEPT !.aown = aown]
  OBVIOUS
<1>5. PICK e4 : e4 = [e3 EXCEPT !.erel = erel]
  OBVIOUS
<1>6. e1 = Tables(rows, d.ord, d.aown, d.sown, d.trel, d.erel)
  BY <1>2 DEF IsTables, Tables
<1>7. e2 = Tables(rows, ord, d.aown, d.sown, d.trel, d.erel)
  BY <1>3, <1>6 DEF Tables
<1>8. e3 = Tables(rows, ord, aown, d.sown, d.trel, d.erel)
  BY <1>4, <1>7 DEF Tables
<1>9. e4 = Tables(rows, ord, aown, d.sown, d.trel, erel)
  BY <1>5, <1>8 DEF Tables
<1>10. WithoutRows(d, gone) = e4
  BY <1>1, <1>2, <1>3, <1>4, <1>5, <1>6, <1>7, <1>8 DEF WithoutRows
<1> QED
  BY <1>1, <1>9, <1>10

\* Relationships between slugs, finitely many.
Related(rels) ==
  IsFiniteSet(rels) /\ \A r \in rels : r.subject \in Slugs /\ r.target \in Slugs

\* The image of a finite set under a function.
LEMMA ImageFinite ==
  ASSUME NEW S, IsFiniteSet(S), NEW f
  PROVE  IsFiniteSet({f[x] : x \in S})
<1>1. PICK T, g : T = {f[x] : x \in S} /\ g = [x \in S |-> f[x]]
  OBVIOUS
<1>2. g \in Surjection(S, T)
  BY <1>1 DEF Surjection
<1> QED
  BY <1>1, <1>2, FS_Surjection

\* Related sets joined, and a part of one.
LEMMA RelatedTogether ==
  ASSUME NEW rels, Related(rels), NEW more, Related(more)
  PROVE  Related(rels \cup more) /\ \A some \in SUBSET rels : Related(some)
BY FS_Union, FS_Subset DEF Related

\* Tables whose references are those of their foreign keys.
TablesTyped(d) ==
  /\ IsTables(d)
  /\ Orders(d.ord)
  /\ DOMAIN d.ord = d.rows
  /\ d.aown \subseteq d.rows \X Owners
  /\ d.sown \subseteq Slugs \X Owners
  /\ Related(d.trel)
  /\ \A e \in d.erel : e.subject \in d.rows /\ e.target \in d.rows

\* DELETE FROM slugs takes all that refers to the rows.
LEMMA WithoutRowsTyped ==
  ASSUME NEW d, TablesTyped(d), NEW gone
  PROVE  /\ TablesTyped(WithoutRows(d, gone))
         /\ WithoutRows(d, gone).sown = d.sown
         /\ WithoutRows(d, gone).aown = {o \in d.aown : o[1] \notin gone}
         /\ \A a \in DOMAIN WithoutRows(d, gone).ord :
              a \in DOMAIN d.ord /\ WithoutRows(d, gone).ord[a] = d.ord[a]
<1>1. PICK e : e = WithoutRows(d, gone)
  OBVIOUS
<1>9. e = Tables(d.rows \ gone, Restrict(d.ord, DOMAIN d.ord \ gone),
                  {o \in d.aown : o[1] \notin gone}, d.sown, d.trel,
                  {x \in d.erel : x.subject \notin gone /\ x.target \notin gone})
  BY <1>1, WithoutRowsIs DEF TablesTyped
<1>2. /\ e.rows = d.rows \ gone /\ e.ord = Restrict(d.ord, DOMAIN d.ord \ gone)
      /\ e.aown = {o \in d.aown : o[1] \notin gone}
      /\ e.sown = d.sown /\ e.trel = d.trel
      /\ e.erel = {x \in d.erel : x.subject \notin gone /\ x.target \notin gone}
      /\ IsTables(e)
  BY <1>9 DEF IsTables, Tables
<1>3. e.ord = [a \in DOMAIN d.ord \ gone |-> d.ord[a]]
  BY <1>2 DEF Restrict
<1>4. Orders(e.ord)
  <2>1. IsFiniteSet(DOMAIN d.ord \ gone)
    BY FS_Subset DEF TablesTyped, Orders
  <2> QED
    BY <1>3, <2>1 DEF TablesTyped, Orders
<1>5. DOMAIN e.ord = e.rows
  BY <1>2, <1>3 DEF TablesTyped
<1>6. e.aown \subseteq e.rows \X Owners
  <2> SUFFICES ASSUME NEW o \in e.aown PROVE o \in e.rows \X Owners
    OBVIOUS
  <2>1. o \in d.rows \X Owners /\ o[1] \notin gone
    BY <1>2 DEF TablesTyped
  <2> QED
    BY <1>2, <2>1
<1>7. \A x \in e.erel : x.subject \in e.rows /\ x.target \in e.rows
  BY <1>2 DEF TablesTyped
<1> QED
  BY <1>1, <1>2, <1>3, <1>4, <1>5, <1>6, <1>7 DEF TablesTyped

\* What the deletes leave of owners and orders.
LEMMA DeletesTyped ==
  ASSUME NEW d, TablesTyped(d), NEW inst, NEW owner,
         NEW e \in {DeleteOwnedInstance(d, inst, owner), DeleteInstance(d, inst),
                    DeleteChecklist(d)}
  PROVE  /\ TablesTyped(e)
         /\ \A a \in DOMAIN e.ord : a \in DOMAIN d.ord /\ e.ord[a] = d.ord[a]
<1>1. CASE e = DeleteOwnedInstance(d, inst, owner)
  <2>1. PICK aown, e1 : /\ aown = {o \in d.aown : o[1][2] # inst \/ o[2] # owner}
                        /\ e1 = [d EXCEPT !.aown = aown]
    OBVIOUS
  <2>2. PICK sown, e2 : /\ sown = {s \in e1.sown : s[2] = owner => Backed(e1, s)}
                        /\ e2 = [e1 EXCEPT !.sown = sown]
    OBVIOUS
  <2>3. PICK gone : gone = {a \in d.rows : a[2] = inst /\ ~ \E o \in e2.aown : o[1] = a}
    OBVIOUS
  <2>4. e = WithoutRows(e2, gone)
    BY <1>1, <2>1, <2>2, <2>3 DEF DeleteOwnedInstance
  <2>5. e1 = Tables(d.rows, d.ord, aown, d.sown, d.trel, d.erel)
    BY <2>1 DEF TablesTyped, IsTables, Tables
  <2>6. e2 = Tables(d.rows, d.ord, aown, sown, d.trel, d.erel)
    BY <2>2, <2>5 DEF Tables
  <2>7. TablesTyped(e2) /\ e2.ord = d.ord
    <3>1. IsTables(e2) /\ e2.rows = d.rows /\ e2.ord = d.ord /\ e2.aown = aown
          /\ e2.sown = sown /\ e2.trel = d.trel /\ e2.erel = d.erel
      BY <2>6, TableWritten DEF Tables
    <3>2. aown \subseteq d.aown /\ sown \subseteq d.sown
      BY <2>1, <2>2, <2>5 DEF Tables
    <3> QED
      BY <3>1, <3>2 DEF TablesTyped
  <2> QED
    BY <2>4, <2>7, WithoutRowsTyped
<1>2. CASE e = DeleteInstance(d, inst)
  <2>1. PICK gone, e1 : /\ gone = {a \in d.rows : a[2] = inst}
                        /\ e1 = WithoutRows(d, gone)
    OBVIOUS
  <2>2. PICK sown : sown = {s \in e1.sown : Backed(e1, s)}
    OBVIOUS
  <2>3. e = [e1 EXCEPT !.sown = sown]
    BY <1>2, <2>1, <2>2 DEF DeleteInstance
  <2>4. TablesTyped(e1) /\ \A a \in DOMAIN e1.ord : a \in DOMAIN d.ord /\ e1.ord[a] = d.ord[a]
    BY <2>1, WithoutRowsTyped
  <2>5. e = Tables(e1.rows, e1.ord, e1.aown, sown, e1.trel, e1.erel)
    BY <2>3, <2>4 DEF TablesTyped, IsTables, Tables
  <2>6. IsTables(e) /\ e.rows = e1.rows /\ e.ord = e1.ord /\ e.aown = e1.aown
        /\ e.sown = sown /\ e.trel = e1.trel /\ e.erel = e1.erel
    BY <2>5, TableWritten DEF Tables
  <2>7. sown \subseteq e1.sown
    BY <2>2
  <2> QED
    BY <2>4, <2>6, <2>7 DEF TablesTyped
<1>3. CASE e = DeleteChecklist(d) /\ d.rows # {}
  <2>1. PICK slugs, e1 : slugs = {a[1] : a \in d.rows} /\ e1 = WithoutRows(d, d.rows)
    OBVIOUS
  <2>2. PICK e2 : e2 = [e1 EXCEPT !.sown = {}]
    OBVIOUS
  <2>3. PICK e3 : e3 = [e2 EXCEPT !.aown = {}]
    OBVIOUS
  <2>4. PICK trel : trel = {r \in e1.trel : {r.subject, r.target} \cap slugs = {}}
    OBVIOUS
  <2>5. e = [e3 EXCEPT !.trel = trel]
    BY <1>3, <2>1, <2>2, <2>3, <2>4 DEF DeleteChecklist
  <2>6. TablesTyped(e1) /\ \A a \in DOMAIN e1.ord : a \in DOMAIN d.ord /\ e1.ord[a] = d.ord[a]
    BY <2>1, WithoutRowsTyped
  <2>7. e2 = Tables(e1.rows, e1.ord, e1.aown, {}, e1.trel, e1.erel)
    BY <2>2, <2>6 DEF TablesTyped, IsTables, Tables
  <2>8. e3 = Tables(e1.rows, e1.ord, {}, {}, e1.trel, e1.erel)
    BY <2>3, <2>7 DEF Tables
  <2>9. e = Tables(e1.rows, e1.ord, {}, {}, trel, e1.erel)
    BY <2>5, <2>8 DEF Tables
  <2>10. IsTables(e) /\ e.rows = e1.rows /\ e.ord = e1.ord /\ e.aown = {}
        /\ e.sown = {} /\ e.trel = trel /\ e.erel = e1.erel
    BY <2>9, TableWritten DEF Tables
  <2>11. trel \subseteq e1.trel
    BY <2>4
  <2>12. Related(trel)
    BY <2>6, <2>11, RelatedTogether DEF TablesTyped
  <2> QED
    BY <2>6, <2>10, <2>12 DEF TablesTyped
<1>4. CASE e = DeleteChecklist(d) /\ d.rows = {}
  BY <1>4 DEF DeleteChecklist
<1> QED
  BY <1>1, <1>2, <1>3, <1>4

\* The edges UpsertSlug gives a row join rows of its instance.
LEMMA NewEdgesJoinRows ==
  ASSUME NEW d, TablesTyped(d), NEW a \in Addresses, NEW x \in NewEdges(d, a)
  PROVE  x.subject \in d.rows \cup {a} /\ x.target \in d.rows \cup {a}
<1>1. PICK e : e = WithRow(d, a)
  OBVIOUS
<1>2. e.rows = d.rows \cup {a}
  BY <1>1 DEF WithRow, TablesTyped, IsTables
<1>3. ASSUME NEW slug, ResolvedHere(e, slug, a[2]) # None
      PROVE  <<ResolvedHere(e, slug, a[2]), a[2]>> \in e.rows
  BY <1>3 DEF ResolvedHere, Has
<1>4. <<a[1], a[2]>> = a
  BY DEF Addresses
<1>5. x \in Materialised(e, a)
  BY <1>1 DEF NewEdges
<1>6. CASE \E r \in Loaded(e) : /\ ResolvedHere(e, r.target, a[2]) # None
                                /\ x = Edge(a[1], r.predicate, ResolvedHere(e, r.target, a[2]), a[2])
  BY <1>2, <1>3, <1>4, <1>6 DEF Edge
<1>7. CASE \E r \in Loaded(e) : /\ ResolvedHere(e, r.subject, a[2]) # None
                                /\ x = Edge(ResolvedHere(e, r.subject, a[2]), r.predicate, a[1], a[2])
  BY <1>2, <1>3, <1>4, <1>7 DEF Edge
<1> QED
  BY <1>5, <1>6, <1>7 DEF Materialised

\* The owners a row takes over from its template row.
Heirs(d, a) ==
  IF a[2] = Template THEN d.aown
  ELSE d.aown \cup {<<a, o[2]>> : o \in {o \in d.aown : o[1] = <<a[1], Template>>}}

\* A row put into the tables with its order and inherited owners.
LEMMA RowPlaced ==
  ASSUME NEW d, IsTables(d), NEW a, NEW ord
  PROVE  Inherited([WithRow(d, a) EXCEPT !.ord = ord], a) =
           Tables(d.rows \cup {a}, ord, Heirs(d, a), d.sown, d.trel, d.erel)
<1>1. PICK rows, e1 : rows = d.rows \cup {a} /\ e1 = [d EXCEPT !.rows = rows]
  OBVIOUS
<1>2. PICK e2 : e2 = [e1 EXCEPT !.ord = ord]
  OBVIOUS
<1>3. PICK e3 : e3 = [e2 EXCEPT !.aown = Heirs(d, a)]
  OBVIOUS
<1>4. e1 = Tables(rows, d.ord, d.aown, d.sown, d.trel, d.erel)
  BY <1>1 DEF IsTables, Tables
<1>5. e2 = Tables(rows, ord, d.aown, d.sown, d.trel, d.erel)
  BY <1>2, <1>4 DEF Tables
<1>6. e2.aown = d.aown
  BY <1>5 DEF Tables
<1>7. e3 = Tables(rows, ord, Heirs(d, a), d.sown, d.trel, d.erel)
  BY <1>3, <1>5 DEF Tables
<1>8. Inherited(e2, a) = Tables(rows, ord, Heirs(d, a), d.sown, d.trel, d.erel)
  <2>1. CASE a[2] = Template
    BY <1>5, <2>1 DEF Inherited, Heirs
  <2>2. CASE a[2] # Template
    BY <1>3, <1>6, <1>7, <2>2 DEF Inherited, Heirs
  <2> QED
    BY <2>1, <2>2
<1> QED
  BY <1>1, <1>2, <1>8 DEF WithRow

\* Heirs are owners of the row.
LEMMA HeirsTyped ==
  ASSUME NEW d, TablesTyped(d), NEW a \in Addresses
  PROVE  d.aown \subseteq Heirs(d, a) /\ Heirs(d, a) \subseteq (d.rows \cup {a}) \X Owners
BY DEF TablesTyped, Heirs

\* UpsertSlug: the row, its order, its owners and its edges.
LEMMA UpsertIs ==
  ASSUME NEW d, TablesTyped(d), NEW a \in Addresses, NEW n \in Int,
         NEW some, some \subseteq NewEdges(d, a),
         NEW f, f = [Placed(d, a, n) EXCEPT !.erel = @ \cup some]
  PROVE  /\ f = Tables(d.rows \cup {a}, OrderedRow(d.ord, a, n), Heirs(d, a), d.sown,
                       d.trel, d.erel \cup some)
         /\ TablesTyped(f)
<1>1. PICK p, ord, erel, e :
        /\ p = Placed(d, a, n) /\ ord = OrderedRow(d.ord, a, n) /\ erel = d.erel \cup some
        /\ e = [p EXCEPT !.erel = erel]
  OBVIOUS
<1>2. p = Tables(d.rows \cup {a}, ord, Heirs(d, a), d.sown, d.trel, d.erel)
  BY <1>1, RowPlaced DEF Placed, OrderedRow, TablesTyped
<1>3. e = Tables(d.rows \cup {a}, ord, Heirs(d, a), d.sown, d.trel, erel)
  BY <1>1, <1>2 DEF Tables
<1>4. p.erel = d.erel
  BY <1>2 DEF Tables
<1>5. f = e
  BY <1>1, <1>4
<1>6. IsTables(e) /\ e.rows = d.rows \cup {a} /\ e.ord = ord /\ e.aown = Heirs(d, a)
      /\ e.sown = d.sown /\ e.trel = d.trel /\ e.erel = erel
  BY <1>3 DEF Tables, IsTables
<1>7. DOMAIN ord = d.rows \cup {a} /\ Orders(ord)
  BY <1>1, OrderedRowType, ZenonT(60) DEF TablesTyped, Addresses
<1>8. \A x \in erel : x.subject \in e.rows /\ x.target \in e.rows
  <2> SUFFICES ASSUME NEW x \in erel PROVE x.subject \in e.rows /\ x.target \in e.rows
    OBVIOUS
  <2>1. CASE x \in d.erel
    BY <1>6, <2>1 DEF TablesTyped
  <2>2. CASE x \in some
    BY <1>6, <2>2, NewEdgesJoinRows
  <2> QED
    BY <1>1, <2>1, <2>2
<1>9. TablesTyped(e)
  BY <1>6, <1>7, <1>8, HeirsTyped DEF TablesTyped
<1> QED
  BY <1>1, <1>3, <1>5, <1>9

\* All of it keeps the foreign keys.
LEMMA UpsertTyped ==
  ASSUME NEW d, TablesTyped(d), NEW a \in Addresses, NEW n \in Int
  PROVE  /\ TablesTyped(UpsertSlug(d, a, n))
         /\ UpsertSlug(d, a, n).aown = Heirs(d, a)
         /\ UpsertSlug(d, a, n).sown = d.sown
         /\ UpsertSlug(d, a, n).ord = OrderedRow(d.ord, a, n)
<1>1. PICK some, e : /\ some = NewEdges(d, a) /\ e = UpsertSlug(d, a, n)
  OBVIOUS
<1>2. some \subseteq NewEdges(d, a) /\ e = [Placed(d, a, n) EXCEPT !.erel = @ \cup some]
  BY <1>1 DEF UpsertSlug
<1>3. /\ e = Tables(d.rows \cup {a}, OrderedRow(d.ord, a, n), Heirs(d, a), d.sown,
                    d.trel, d.erel \cup some)
      /\ TablesTyped(e)
  BY <1>2, UpsertIs
<1> QED
  BY <1>1, <1>3 DEF Tables

\* CreateSlugIfMissing: the same without edges; an existing row keeps its
\* order unless the request names one.
LEMMA CreateTyped ==
  ASSUME NEW d, TablesTyped(d), NEW a \in Addresses, NEW n \in Int
  PROVE  LET e == CreateSlugIfMissing(d, a, n)
         IN  /\ TablesTyped(e)
             /\ e.aown = Heirs(d, a)
             /\ e.sown = d.sown
             /\ e.ord \in {d.ord, OrderedRow(d.ord, a, n)}
<1>1. PICK r, sets, ord :
        /\ r = ResolveAddressOrder(d.ord, a, n)
        /\ sets <=> (a \notin d.rows \/ n > 0 \/ a \notin DOMAIN d.ord)
        /\ ord = IF sets THEN WithOrder(r.ord, a, r.next) ELSE r.ord
  OBVIOUS
<1>2. CreateSlugIfMissing(d, a, n) = Inherited([WithRow(d, a) EXCEPT !.ord = ord], a)
  BY <1>1 DEF CreateSlugIfMissing
<1>3. PICK e : e = CreateSlugIfMissing(d, a, n)
  OBVIOUS
<1>4. e = Tables(d.rows \cup {a}, ord, Heirs(d, a), d.sown, d.trel, d.erel)
  BY <1>2, <1>3, RowPlaced DEF TablesTyped
<1>5. IsTables(e) /\ e.rows = d.rows \cup {a} /\ e.ord = ord /\ e.aown = Heirs(d, a)
      /\ e.sown = d.sown /\ e.trel = d.trel /\ e.erel = d.erel
  BY <1>4 DEF Tables, IsTables
<1>6. CASE sets
  <2>1. ord = OrderedRow(d.ord, a, n)
    BY <1>1, <1>6 DEF OrderedRow
  <2>2. DOMAIN ord = d.rows \cup {a} /\ Orders(ord)
    BY <2>1, OrderedRowType, ZenonT(60) DEF TablesTyped, Addresses
  <2>3. TablesTyped(e)
    BY <1>5, <2>2, HeirsTyped DEF TablesTyped
  <2> QED
    BY <1>3, <1>5, <2>1, <2>3
<1>7. CASE ~sets
  <2>1. a \in DOMAIN d.ord /\ d.ord[a] > 0 /\ ~(n > 0)
    <3>1. a \in DOMAIN d.ord /\ ~(n > 0)
      BY <1>1, <1>7
    <3> QED
      BY <3>1 DEF TablesTyped, Orders
  <2>2. ord = d.ord
    BY <1>1, <1>7, <2>1 DEF ResolveAddressOrder
  <2>3. d.rows \cup {a} = d.rows
    BY <1>1, <1>7
  <2>4. TablesTyped(e)
    BY <1>5, <2>2, <2>3, HeirsTyped DEF TablesTyped
  <2> QED
    BY <1>3, <1>5, <2>2, <2>4
<1> QED
  BY <1>6, <1>7

\* UpsertOwnership.
LEMMA ClaimedTyped ==
  ASSUME NEW d, TablesTyped(d), NEW a \in Addresses, NEW owner \in Owners
  PROVE  LET e == Claimed(d, a, owner)
         IN  /\ TablesTyped(e)
             /\ e.ord = d.ord
             /\ e.aown = IF a \in d.rows THEN d.aown \cup {<<a, owner>>} ELSE d.aown
<1>1. PICK aown, sown, e1, e :
        /\ aown = IF a \in d.rows THEN d.aown \cup {<<a, owner>>} ELSE d.aown
        /\ sown = d.sown \cup {<<a[1], owner>>}
        /\ e1 = [d EXCEPT !.sown = sown]
        /\ e = [e1 EXCEPT !.aown = aown]
  OBVIOUS
<1>2. e1 = Tables(d.rows, d.ord, d.aown, sown, d.trel, d.erel)
  BY <1>1 DEF TablesTyped, IsTables, Tables
<1>3. e = Tables(d.rows, d.ord, aown, sown, d.trel, d.erel)
  BY <1>1, <1>2 DEF Tables
<1>4. IsTables(e) /\ e.rows = d.rows /\ e.ord = d.ord /\ e.aown = aown
      /\ e.sown = sown /\ e.trel = d.trel /\ e.erel = d.erel
  BY <1>3 DEF Tables, IsTables
<1>5. sown \subseteq Slugs \X Owners /\ aown \subseteq d.rows \X Owners
  BY <1>1 DEF TablesTyped, Addresses
<1>6. TablesTyped(e)
  BY <1>4, <1>5 DEF TablesTyped
<1>7. Claimed(d, a, owner) = e
  BY <1>1, <1>2 DEF Claimed, Tables
<1> QED
  BY <1>1, <1>4, <1>6, <1>7

\* The relationships written.
LEMMA RelationshipsTyped ==
  ASSUME NEW d, TablesTyped(d), NEW v
  PROVE  /\ Related(v) => TablesTyped([d EXCEPT !.trel = v])
         /\ (\A x \in v : x.subject \in d.rows /\ x.target \in d.rows)
              => TablesTyped([d EXCEPT !.erel = v])
         /\ [d EXCEPT !.trel = v].ord = d.ord /\ [d EXCEPT !.trel = v].aown = d.aown
         /\ [d EXCEPT !.erel = v].ord = d.ord /\ [d EXCEPT !.erel = v].aown = d.aown
<1>1. PICK e, f : e = [d EXCEPT !.trel = v] /\ f = [d EXCEPT !.erel = v]
  OBVIOUS
<1>2. IsTables(e) /\ e.rows = d.rows /\ e.ord = d.ord /\ e.aown = d.aown
      /\ e.sown = d.sown /\ e.trel = v /\ e.erel = d.erel
  BY <1>1 DEF TablesTyped, IsTables
<1>3. IsTables(f) /\ f.rows = d.rows /\ f.ord = d.ord /\ f.aown = d.aown
      /\ f.sown = d.sown /\ f.trel = d.trel /\ f.erel = v
  BY <1>1 DEF TablesTyped, IsTables
<1> QED
  BY <1>1, <1>2, <1>3 DEF TablesTyped

-----------------------------------------------------------------------------
(* A crash inside UpsertSlug, and the restart.                             *)

\* The query of a restart lists every row.
LEMMA QueryListsRows ==
  ASSUME NEW d, IsFiniteSet(d.rows), d.rows \subseteq Addresses
  PROVE  \E len \in Nat : /\ QueryOrder(d) \in [1 .. len -> d.rows]
                          /\ \A a \in d.rows : \E n \in 1 .. len : QueryOrder(d)[n] = a
<1> DEFINE Less(b, a) == \/ RankOf[b[2]] < RankOf[a[2]]
                         \/ b[2] = a[2] /\ RankOf[b[1]] < RankOf[a[1]]
<1>1. PICK rank : rank = [a \in d.rows |-> Cardinality({b \in d.rows : Less(b, a)})]
  OBVIOUS
<1>2. PICK len : len = Cardinality(d.rows)
  OBVIOUS
<1>3. len \in Nat
  BY <1>2, FS_CardinalityType
<1>4. \A a \in d.rows : /\ a = <<a[1], a[2]>> /\ a[1] \in Slugs /\ a[2] \in Instances
                        /\ RankOf[a[1]] \in Int /\ RankOf[a[2]] \in Int
  BY RankAssumption DEF Addresses
<1>5. ASSUME NEW a \in d.rows, NEW b \in d.rows, Less(a, b)
      PROVE  rank[a] \in Nat /\ rank[b] \in Nat /\ rank[a] < rank[b]
  <2>1. PICK A, B : A = {c \in d.rows : Less(c, a)} /\ B = {c \in d.rows : Less(c, b)}
    OBVIOUS
  <2>2. A \subseteq B
    <3> SUFFICES ASSUME NEW c \in d.rows, Less(c, a) PROVE Less(c, b)
      BY <2>1
    <3> QED
      BY <1>4, <1>5
  <2>3. a \in B /\ a \notin A /\ B \subseteq d.rows
    BY <1>4, <1>5, <2>1
  <2>4. IsFiniteSet(B)
    BY <2>3, FS_Subset
  <2>5. Cardinality(B) \in Nat /\ Cardinality(A) \in Nat /\ Cardinality(A) < Cardinality(B)
    BY <2>2, <2>3, <2>4, FewerElements
  <2> QED
    BY <1>1, <2>1, <2>5
<1>6. ASSUME NEW a \in d.rows PROVE rank[a] \in 0 .. len - 1
  <2>1. PICK A : A = {c \in d.rows : Less(c, a)}
    OBVIOUS
  <2>2. A \subseteq d.rows /\ a \notin A
    BY <1>4, <2>1
  <2>3. Cardinality(A) \in Nat /\ Cardinality(A) < len
    BY <1>2, <2>2, FewerElements
  <2> QED
    BY <1>1, <1>3, <2>1, <2>3
<1>7. ASSUME NEW a \in d.rows, NEW b \in d.rows, a # b
      PROVE  rank[a] # rank[b]
  <2>1. Less(a, b) \/ Less(b, a)
    <3>1. CASE a[2] = b[2]
      <4>1. RankOf[a[1]] # RankOf[b[1]]
        BY <1>4, <1>7, <3>1, RankAssumption
      <4> QED
        BY <1>4, <3>1, <4>1
    <3>2. CASE a[2] # b[2]
      <4>1. RankOf[a[2]] # RankOf[b[2]]
        BY <1>4, <3>2, RankAssumption
      <4> QED
        BY <1>4, <4>1
    <3> QED
      BY <3>1, <3>2
  <2> QED
    BY <1>5, <2>1
<1>8. \A n \in 0 .. len - 1 : \E a \in d.rows : rank[a] = n
  <2>1. PICK T : T = 0 .. len - 1
    OBVIOUS
  <2>2. IsFiniteSet(T) /\ Cardinality(T) = len
    <3>1. PICK top : top = len - 1
      OBVIOUS
    <3>2. top \in Int /\ T = 0 .. top
      BY <1>3, <2>1, <3>1
    <3>3. IsFiniteSet(0 .. top) /\ Cardinality(0 .. top) = IF 0 > top THEN 0 ELSE top - 0 + 1
      BY <3>2, FS_Interval
    <3> QED
      BY <1>3, <3>1, <3>2, <3>3
  <2>3. rank \in Injection(d.rows, T)
    BY <1>1, <1>6, <1>7, <2>1, ZenonT(60) DEF Injection, IsInjective
  <2>4. rank \in Surjection(d.rows, T)
    BY <1>2, <2>2, <2>3, FS_Injection
  <2> QED
    BY <2>1, <2>4 DEF Surjection
<1>9. ASSUME NEW n \in 1 .. len
      PROVE  /\ QueryOrder(d)[n] \in d.rows
             /\ rank[QueryOrder(d)[n]] = n - 1
  <2>1. PICK a \in d.rows : rank[a] = n - 1
    BY <1>3, <1>8
  <2>2. PICK first : first = CHOOSE b \in d.rows : Cardinality({c \in d.rows : Less(c, b)}) = n - 1
    OBVIOUS
  <2>3. first \in d.rows /\ Cardinality({c \in d.rows : Less(c, first)}) = n - 1
    BY <1>1, <2>1, <2>2
  <2>4. QueryOrder(d)[n] = first
    BY <1>2, <2>2 DEF QueryOrder
  <2> QED
    BY <1>1, <2>3, <2>4
<1>10. QueryOrder(d) \in [1 .. len -> d.rows]
  <2> DEFINE Nth(n) == CHOOSE b \in d.rows : Cardinality({c \in d.rows : Less(c, b)}) = n - 1
  <2>1. QueryOrder(d) = [n \in 1 .. Cardinality(d.rows) |-> Nth(n)]
    BY DEF QueryOrder
  <2> HIDE DEF Nth
  <2>2. QueryOrder(d) = [n \in 1 .. Cardinality(d.rows) |-> QueryOrder(d)[n]]
    BY <2>1
  <2> QED
    BY <1>2, <1>9, <2>2
<1>11. ASSUME NEW a \in d.rows PROVE \E n \in 1 .. len : QueryOrder(d)[n] = a
  <2>1. rank[a] + 1 \in 1 .. len
    BY <1>3, <1>6
  <2>2. PICK n \in 1 .. len : n = rank[a] + 1
    BY <2>1
  <2>3. rank[QueryOrder(d)[n]] = rank[a]
    BY <1>6, <1>9, <2>2
  <2> QED
    BY <1>7, <1>9, <2>3
<1> QED
  BY <1>3, <1>10, <1>11

\* Tables in which the row a may still be without its order.
HalfTyped(d, a) ==
  /\ IsTables(d)
  /\ Orders(d.ord)
  /\ DOMAIN d.ord \subseteq d.rows /\ d.rows \subseteq DOMAIN d.ord \cup {a}
  /\ d.aown \subseteq d.rows \X Owners
  /\ d.sown \subseteq Slugs \X Owners
  /\ Related(d.trel)
  /\ \A e \in d.erel : e.subject \in d.rows /\ e.target \in d.rows

\* A restart completes the table of orders.
LEMMA OpenedTyped ==
  ASSUME NEW a, NEW d, HalfTyped(d, a), a \in Addresses \/ DOMAIN d.ord = d.rows
  PROVE  /\ TablesTyped(Opened(d))
         /\ DOMAIN d.ord = d.rows => Opened(d).ord = d.ord
         /\ DOMAIN d.ord # d.rows /\ DOMAIN d.ord # {}
              => Opened(d).ord = OrderedRow(d.ord, a, 0)
<1>1. PICK query, ord, e : /\ query = QueryOrder(d) /\ ord = Backfill(d.ord, query)
                           /\ e = [d EXCEPT !.ord = ord]
  OBVIOUS
<1>2. Opened(d) = e
  BY <1>1 DEF Opened
<1>3. IsTables(e) /\ e.rows = d.rows /\ e.ord = ord /\ e.aown = d.aown
      /\ e.sown = d.sown /\ e.trel = d.trel /\ e.erel = d.erel
  BY <1>1 DEF HalfTyped, IsTables
<1>4. IsFiniteSet(d.rows) /\ d.rows \subseteq Addresses
  <2>1. CASE DOMAIN d.ord = d.rows
    BY <2>1 DEF HalfTyped, Orders, Addresses
  <2>2. CASE a \in Addresses
    <3>1. IsFiniteSet(DOMAIN d.ord \cup {a})
      BY FS_AddElement DEF HalfTyped, Orders
    <3>2. d.rows \subseteq DOMAIN d.ord \cup {a} /\ DOMAIN d.ord \subseteq Addresses
      BY DEF HalfTyped, Orders, Addresses
    <3>3. IsFiniteSet(d.rows)
      BY <3>1, <3>2, FS_Subset
    <3>4. d.rows \subseteq Addresses
      BY <2>2, <3>2
    <3> QED
      BY <3>3, <3>4
  <2> QED
    BY <2>1, <2>2
<1>5. PICK len \in Nat : /\ query \in [1 .. len -> d.rows]
                         /\ \A b \in d.rows : \E n \in 1 .. len : query[n] = b
  <2>1. \E len \in Nat : /\ QueryOrder(d) \in [1 .. len -> d.rows]
                         /\ \A b \in d.rows : \E n \in 1 .. len : QueryOrder(d)[n] = b
    BY <1>4, QueryListsRows
  <2> QED
    BY <1>1, <2>1
<1>6. CASE DOMAIN d.ord = {}
  <2>1. ord = BackfillAll(query)
    BY <1>1, <1>6 DEF Backfill
  <2>2. query \in [1 .. len -> Slugs \X Instances]
    BY <1>4, <1>5 DEF Addresses
  <2>3. DOMAIN ord = {query[n] : n \in 1 .. len} /\ Orders(ord)
    BY <2>1, <2>2, BackfillAllType
  <2>4. DOMAIN ord = d.rows
    BY <1>5, <2>3
  <2>5. TablesTyped(e)
    BY <1>3, <2>3, <2>4 DEF TablesTyped, HalfTyped
  <2>6. DOMAIN d.ord = d.rows => ord = d.ord
    BY <1>6, <2>3, <2>4 DEF Orders, HalfTyped
  <2> QED
    BY <1>2, <1>3, <1>6, <2>5, <2>6
<1>7. CASE DOMAIN d.ord # {} /\ DOMAIN d.ord = d.rows
  <2>1. ord = BackfillMissing(d.ord, query)
    BY <1>1, <1>7 DEF Backfill
  <2>2. PICK old : old = d.ord
    OBVIOUS
  <2>3. query \in [1 .. len -> DOMAIN old]
    BY <1>5, <1>7, <2>2
  <2>4. BackfillMissing(old, query) = old
    BY <2>3, BackfillNone
  <2>5. ord = d.ord
    BY <2>1, <2>2, <2>4
  <2> QED
    BY <1>2, <1>3, <1>7, <2>5 DEF TablesTyped, HalfTyped
<1>8. CASE DOMAIN d.ord # {} /\ DOMAIN d.ord # d.rows
  <2>1. ord = BackfillMissing(d.ord, query)
    BY <1>1, <1>8 DEF Backfill
  <2>2. PICK old : old = d.ord
    OBVIOUS
  <2>3. a \notin DOMAIN old /\ d.rows = DOMAIN old \cup {a}
    BY <1>8, <2>2 DEF HalfTyped
  <2>4. query \in [1 .. len -> DOMAIN old \cup {a}]
    BY <1>5, <2>3
  <2>5. PICK at \in 1 .. len : query[at] = a
    BY <1>5, <2>3
  <2>6. a \in Slugs \X Instances /\ Orders(old)
    BY <1>8, <2>2 DEF Addresses, HalfTyped
  <2>7. BackfillMissing(old, query) = OrderedRow(old, a, 0)
    BY <2>3, <2>4, <2>5, <2>6, BackfillOne DEF OrderedRow
  <2>8. DOMAIN ord = d.rows /\ Orders(ord)
    BY <2>1, <2>2, <2>3, <2>6, <2>7, OrderedRowType
  <2>9. TablesTyped(e)
    BY <1>3, <2>8 DEF TablesTyped, HalfTyped
  <2> QED
    BY <1>2, <1>3, <1>8, <2>1, <2>2, <2>7, <2>9
<1> QED
  BY <1>6, <1>7, <1>8

\* The orders of a section that a crash stopped being repacked.
HalfRepacked(d, a, n) ==
  LET rows == SectionRows(d.ord, a[2], SectionOf[a[1]])
  IN  RepackedTo(d.ord, rows, SectionBase(d.ord, rows), TightGap(rows), n)

\* What a crash inside UpsertSlug may leave.
LEMMA TornTyped ==
  ASSUME NEW d, TablesTyped(d), NEW a \in Addresses, NEW n \in Int, NEW e \in Torn(d, a, n)
  PROVE  /\ HalfTyped(e, a)
         /\ \/ DOMAIN e.ord = e.rows /\ e.ord = d.ord
            \/ /\ DOMAIN e.ord = e.rows
               /\ ResolveAddressOrder(d.ord, a, n).ord # d.ord
               /\ \E k \in Nat : e.ord = HalfRepacked(d, a, k)
            \/ DOMAIN e.ord = e.rows /\ e.ord = OrderedRow(d.ord, a, n)
            \/ e.rows = d.rows \cup {a} /\ e.ord = ResolveAddressOrder(d.ord, a, n).ord
<1>1. PICK r, rows : /\ r = ResolveAddressOrder(d.ord, a, n)
                     /\ rows = SectionRows(d.ord, a[2], SectionOf[a[1]])
  OBVIOUS
<1>2. PICK row, place, later :
        /\ row = [WithRow(d, a) EXCEPT !.ord = r.ord]
        /\ place = WithOrder(r.ord, a, r.next)
        /\ later = [row EXCEPT !.ord = place]
  OBVIOUS
<1>3. a \in Slugs \X Instances /\ Orders(d.ord) /\ DOMAIN d.ord = d.rows
  BY DEF Addresses, TablesTyped
<1>4. row = Tables(d.rows \cup {a}, r.ord, d.aown, d.sown, d.trel, d.erel)
  <2>1. PICK all, e1, o : all = d.rows \cup {a} /\ e1 = [d EXCEPT !.rows = all] /\ o = r.ord
    OBVIOUS
  <2>2. e1 = Tables(all, d.ord, d.aown, d.sown, d.trel, d.erel)
    BY <2>1 DEF TablesTyped, IsTables, Tables
  <2>3. [e1 EXCEPT !.ord = o] = Tables(all, o, d.aown, d.sown, d.trel, d.erel)
    BY <2>2 DEF Tables
  <2> QED
    BY <1>2, <2>1, <2>3 DEF WithRow
<1>5. later = Tables(d.rows \cup {a}, place, d.aown, d.sown, d.trel, d.erel)
  <2>1. PICK all, o : all = d.rows \cup {a} /\ o = r.ord
    OBVIOUS
  <2>2. row = Tables(all, o, d.aown, d.sown, d.trel, d.erel)
    BY <1>4, <2>1
  <2>3. [row EXCEPT !.ord = place] = Tables(all, place, d.aown, d.sown, d.trel, d.erel)
    BY <2>2 DEF Tables
  <2> QED
    BY <1>2, <2>1, <2>3
<1>6. CASE e = row
  <2>1. IsTables(e) /\ e.rows = d.rows \cup {a} /\ e.ord = r.ord /\ e.aown = d.aown
        /\ e.sown = d.sown /\ e.trel = d.trel /\ e.erel = d.erel
    BY <1>4, <1>6 DEF Tables, IsTables
  <2>2. DOMAIN r.ord = DOMAIN d.ord /\ Orders(r.ord)
    BY <1>1, <1>3, ResolveType
  <2>3. HalfTyped(e, a)
    BY <1>3, <2>1, <2>2 DEF HalfTyped, TablesTyped
  <2> QED
    BY <1>1, <2>1, <2>3
<1>7. ASSUME TablesTyped(e) PROVE HalfTyped(e, a) /\ DOMAIN e.ord = e.rows
  BY <1>7 DEF HalfTyped, TablesTyped
<1>8. CASE e = later
  <2>1. IsTables(e) /\ e.rows = d.rows \cup {a} /\ e.ord = place /\ e.aown = d.aown
        /\ e.sown = d.sown /\ e.trel = d.trel /\ e.erel = d.erel
    BY <1>5, <1>8 DEF Tables, IsTables
  <2>2. place = OrderedRow(d.ord, a, n)
    BY <1>1, <1>2 DEF OrderedRow
  <2>3. DOMAIN place = d.rows \cup {a} /\ Orders(place)
    BY <1>3, <2>2, OrderedRowType
  <2>4. TablesTyped(e)
    BY <2>1, <2>3 DEF TablesTyped
  <2> QED
    BY <1>7, <2>1, <2>2, <2>4
<1>9. CASE \E some \in SUBSET NewEdges(d, a) : e = [Placed(d, a, n) EXCEPT !.erel = @ \cup some]
  <2>1. PICK some : /\ some \subseteq NewEdges(d, a)
                    /\ e = [Placed(d, a, n) EXCEPT !.erel = @ \cup some]
    BY <1>9
  <2>2. /\ e = Tables(d.rows \cup {a}, OrderedRow(d.ord, a, n), Heirs(d, a), d.sown,
                      d.trel, d.erel \cup some)
        /\ TablesTyped(e)
    BY <2>1, UpsertIs
  <2>3. e.ord = OrderedRow(d.ord, a, n)
    BY <2>2 DEF Tables
  <2> QED
    BY <1>7, <2>2, <2>3
<1>10. CASE e = d
  BY <1>7, <1>10
<1>11. CASE /\ r.ord # d.ord
            /\ \E k \in 0 .. Cardinality(rows) :
                 e = [d EXCEPT !.ord = RepackedTo(@, rows, SectionBase(@, rows),
                                                  TightGap(rows), k)]
  <2>1. PICK k \in Nat :
          e = [d EXCEPT !.ord = RepackedTo(d.ord, rows, SectionBase(d.ord, rows),
                                           TightGap(rows), k)]
    <3>1. Cardinality(rows) \in Nat
      BY <1>1, <1>3, SectionFinite
    <3> QED
      BY <1>11, <3>1
  <2>2. PICK ord : ord = RepackedTo(d.ord, rows, SectionBase(d.ord, rows), TightGap(rows), k)
    OBVIOUS
  <2>3. e = [d EXCEPT !.ord = ord]
    BY <2>1, <2>2
  <2>4. IsTables(e) /\ e.rows = d.rows /\ e.ord = ord /\ e.aown = d.aown
        /\ e.sown = d.sown /\ e.trel = d.trel /\ e.erel = d.erel
    BY <2>3 DEF TablesTyped, IsTables
  <2>5. PICK old, base, gap : old = d.ord /\ base = SectionBase(d.ord, rows) /\ gap = TightGap(rows)
    OBVIOUS
  <2>6. /\ rows \subseteq DOMAIN old /\ base \in Nat /\ gap \in Nat \ {0}
    BY <1>1, <1>3, <1>11, <2>5, ResolveRepacks
  <2>7. DOMAIN ord = DOMAIN d.ord /\ Orders(ord)
    BY <1>3, <2>2, <2>5, <2>6, RepackType
  <2>8. TablesTyped(e)
    BY <1>3, <2>4, <2>7 DEF TablesTyped
  <2>9. e.ord = HalfRepacked(d, a, k)
    BY <1>1, <2>2, <2>4 DEF HalfRepacked
  <2> QED
    BY <1>1, <1>7, <1>11, <2>8, <2>9
<1>12. \/ e = d \/ e = row \/ e = later
       \/ \E some \in SUBSET NewEdges(d, a) : e = [Placed(d, a, n) EXCEPT !.erel = @ \cup some]
       \/ /\ r.ord # d.ord
          /\ \E k \in 0 .. Cardinality(rows) :
                 e = [d EXCEPT !.ord = RepackedTo(@, rows, SectionBase(@, rows),
                                                  TightGap(rows), k)]
  <2>1. row.ord = r.ord
    BY <1>4 DEF Tables
  <2> QED
    BY <1>1, <1>2, <2>1 DEF Torn
<1> QED
  BY <1>6, <1>8, <1>9, <1>10, <1>11, <1>12

-----------------------------------------------------------------------------
(* What imports read and bring.                                            *)

\* AssignImportOrder: the band of a section is that of its first row in the
\* file, the place in it the number of its rows so far.
SectionsTo(doc, k) == {SectionOf[doc[m]] : m \in 1 .. k}
RowsTo(doc, n) == {m \in 1 .. n : SectionOf[doc[m]] = SectionOf[doc[n]]}

LEMMA ImportOrderIs ==
  ASSUME NEW doc, doc \in Seq(Slugs), NEW n \in DOMAIN doc
  PROVE  \E first \in 1 .. n :
           /\ SectionOf[doc[first]] = SectionOf[doc[n]]
           /\ \A m \in 1 .. first - 1 : SectionOf[doc[m]] # SectionOf[doc[n]]
           /\ ImportOrder(doc, n) = (Cardinality(SectionsTo(doc, first)) - 1) * Stride
                                      + Cardinality(RowsTo(doc, n)) * OrderGap
<1>1. n \in 1 .. n /\ n \in Nat
  BY LenProperties
<1>2. PICK T : T = {k \in 1 .. n : SectionOf[doc[k]] = SectionOf[doc[n]]}
  OBVIOUS
<1>3. n \in T /\ T \subseteq Nat
  BY <1>1, <1>2
<1>4. PICK k \in T : \A j \in T : ~(j < k)
  BY <1>3, LeastNat
<1>5. PICK first : first = CHOOSE j \in 1 .. n :
                             /\ SectionOf[doc[j]] = SectionOf[doc[n]]
                             /\ \A m \in 1 .. j - 1 : SectionOf[doc[m]] # SectionOf[doc[n]]
  OBVIOUS
<1>6. /\ first \in 1 .. n
      /\ SectionOf[doc[first]] = SectionOf[doc[n]]
      /\ \A m \in 1 .. first - 1 : SectionOf[doc[m]] # SectionOf[doc[n]]
  <2>1. k \in 1 .. n /\ SectionOf[doc[k]] = SectionOf[doc[n]]
    BY <1>2
  <2>2. ASSUME NEW m \in 1 .. k - 1 PROVE SectionOf[doc[m]] # SectionOf[doc[n]]
    BY <1>1, <1>2, <1>4, <2>1
  <2> QED
    BY <1>5, <2>1, <2>2
<1>7. ImportOrder(doc, n) = (Cardinality(SectionsTo(doc, first)) - 1) * Stride
                              + Cardinality(RowsTo(doc, n)) * OrderGap
  BY <1>5 DEF ImportOrder, SectionsTo, RowsTo
<1> QED
  BY <1>6, <1>7

\* Both are numbers of something.
LEMMA ImportCounts ==
  ASSUME NEW doc, doc \in Seq(Slugs), NEW n \in DOMAIN doc, NEW first \in 1 .. n
  PROVE  /\ Cardinality(SectionsTo(doc, first)) \in Nat \ {0}
         /\ IsFiniteSet(RowsTo(doc, n)) /\ Cardinality(RowsTo(doc, n)) \in Nat \ {0}
<1>1. n \in 1 .. n /\ n \in Nat /\ first \in Nat /\ first >= 1
  BY LenProperties
<1>2. PICK sections, rows : sections = SectionsTo(doc, first) /\ rows = RowsTo(doc, n)
  OBVIOUS
<1>3. IsFiniteSet(sections) /\ sections # {}
  <2>1. IsFiniteSet(1 .. first)
    BY <1>1, FS_Interval
  <2>2. PICK f : f = [m \in 1 .. first |-> SectionOf[doc[m]]]
    OBVIOUS
  <2>3. f \in Surjection(1 .. first, sections)
    BY <1>2, <2>2 DEF Surjection, SectionsTo
  <2>4. first \in 1 .. first
    BY <1>1
  <2> QED
    BY <1>2, <2>1, <2>3, <2>4, FS_Surjection DEF SectionsTo
<1>4. IsFiniteSet(rows) /\ rows # {}
  <2>1. IsFiniteSet(1 .. n) /\ rows \subseteq 1 .. n /\ n \in rows
    BY <1>1, <1>2, FS_Interval DEF RowsTo
  <2> QED
    BY <2>1, FS_Subset
<1>5. /\ Cardinality(sections) \in Nat /\ Cardinality(sections) # 0
      /\ Cardinality(rows) \in Nat /\ Cardinality(rows) # 0
  BY <1>3, <1>4, FS_CardinalityType, FS_EmptySet
<1> QED
  BY <1>2, <1>4, <1>5

\* AssignImportOrder gives each row of a file a number of at least 1.
LEMMA ImportOrderType ==
  ASSUME NEW doc, doc \in Seq(Slugs), NEW n \in DOMAIN doc
  PROVE  ImportOrder(doc, n) \in Nat \ {0}
<1>1. PICK first \in 1 .. n :
        ImportOrder(doc, n) = (Cardinality(SectionsTo(doc, first)) - 1) * Stride
                                + Cardinality(RowsTo(doc, n)) * OrderGap
  BY ImportOrderIs
<1>2. PICK bands, rows : /\ bands = Cardinality(SectionsTo(doc, first)) - 1
                         /\ rows = Cardinality(RowsTo(doc, n))
  OBVIOUS
<1>3. bands \in Nat /\ rows \in Nat \ {0}
  BY <1>2, ImportCounts
<1>4. bands * Stride \in Nat
  BY <1>3, StrideAssumption
<1>5. rows * OrderGap \in Nat \ {0}
  BY <1>3, StrideAssumption
<1> QED
  BY <1>1, <1>2, <1>4, <1>5

\* The rows of a section are numbered in the order of the file.
LEMMA ImportOrderGrows ==
  ASSUME NEW doc, doc \in Seq(Slugs), NEW m \in DOMAIN doc, NEW n \in DOMAIN doc, m < n,
         SectionOf[doc[m]] = SectionOf[doc[n]]
  PROVE  ImportOrder(doc, m) < ImportOrder(doc, n)
<1>1. PICK j \in 1 .. m :
        /\ SectionOf[doc[j]] = SectionOf[doc[m]]
        /\ \A i \in 1 .. j - 1 : SectionOf[doc[i]] # SectionOf[doc[m]]
        /\ ImportOrder(doc, m) = (Cardinality(SectionsTo(doc, j)) - 1) * Stride
                                   + Cardinality(RowsTo(doc, m)) * OrderGap
  BY ImportOrderIs
<1>2. PICK k \in 1 .. n :
        /\ SectionOf[doc[k]] = SectionOf[doc[n]]
        /\ \A i \in 1 .. k - 1 : SectionOf[doc[i]] # SectionOf[doc[n]]
        /\ ImportOrder(doc, n) = (Cardinality(SectionsTo(doc, k)) - 1) * Stride
                                   + Cardinality(RowsTo(doc, n)) * OrderGap
  BY ImportOrderIs
<1>3. m \in Nat /\ n \in Nat /\ j \in Nat /\ k \in Nat /\ m >= 1 /\ n >= 1
  BY LenProperties
<1>4. j = k
  <2>1. ~(j < k)
    BY <1>1, <1>2, <1>3
  <2>2. ~(k < j)
    BY <1>1, <1>2, <1>3
  <2> QED
    BY <1>3, <2>1, <2>2
<1>5. PICK band, p, q : /\ band = (Cardinality(SectionsTo(doc, k)) - 1) * Stride
                        /\ p = Cardinality(RowsTo(doc, m)) /\ q = Cardinality(RowsTo(doc, n))
  OBVIOUS
<1>6. band \in Nat
  <2>1. PICK c : c = Cardinality(SectionsTo(doc, k)) - 1
    OBVIOUS
  <2>2. c \in Nat
    BY <2>1, ImportCounts
  <2> QED
    BY <1>5, <2>1, <2>2, StrideAssumption
<1>7. p \in Nat /\ q \in Nat /\ p < q
  <2>1. PICK P, Q : P = RowsTo(doc, m) /\ Q = RowsTo(doc, n)
    OBVIOUS
  <2>2. P \subseteq Q /\ n \in Q /\ n \notin P
    BY <1>3, <2>1 DEF RowsTo
  <2>3. IsFiniteSet(Q)
    BY <1>2, <2>1, ImportCounts
  <2> QED
    BY <1>5, <2>1, <2>2, <2>3, FewerElements
<1>8. p * OrderGap \in Nat /\ q * OrderGap \in Nat /\ p * OrderGap < q * OrderGap
  <2>1. PICK g \in Nat \ {0} : g = OrderGap
    BY StrideAssumption
  <2>2. g * p \in Nat /\ g * q \in Nat /\ g * p < g * q
    BY <1>7, <2>1, Multiples
  <2>3. g * p = p * g /\ g * q = q * g
    BY <1>7, <2>1
  <2> QED
    BY <2>1, <2>2, <2>3
<1>9. ImportOrder(doc, m) = band + p * OrderGap /\ ImportOrder(doc, n) = band + q * OrderGap
  BY <1>1, <1>2, <1>4, <1>5
<1> QED
  BY <1>6, <1>8, <1>9

\* MergeTemplateRelationshipsWithLineage makes relationships between slugs.
LEMMA MergedTyped ==
  ASSUME NEW subjects, subjects \subseteq Slugs, IsFiniteSet(subjects),
         NEW incoming, Related(incoming), NEW loaded, Related(loaded),
         NEW stored, Related(stored)
  PROVE  Related(Merged(subjects, incoming, loaded, stored))
<1> DEFINE direct(s) == {e[1] : e \in {e \in Declared(incoming) : e[2] = s}} \ {s}
           older(ids) == {r.target : r \in {r \in stored :
                            r.predicate = Predecessor /\ r.subject \in ids}}
           Step(s, ids) == ids \cup (older(ids) \ {s})
           reach(s) ==
             LET grow[n \in Nat] ==
                   IF n = 0 THEN direct(s)
                   ELSE LET ids == grow[n - 1] IN ids \cup (older(ids) \ {s})
             IN  UNION {grow[n] : n \in 0 .. Cardinality(stored)}
           ancestors ==
             UNION {{[subject |-> s, predicate |-> Predecessor, target |-> id] :
                        id \in reach(s) \ direct(s)} : s \in subjects}
           Targets == {r.target : r \in stored}
<1>1. Merged(subjects, incoming, loaded, stored) =
        {r \in incoming : r.subject \in subjects}
        \cup {r \in loaded : /\ r.predicate \in LineagePredicates
                             /\ r.subject \in subjects}
        \cup ancestors
  BY DEF Merged
<1>2. ASSUME NEW s PROVE direct(s) \subseteq Slugs
  BY DEF Declared, Related
<1>3. ASSUME NEW s, NEW ids, ids \subseteq direct(s) \cup Targets
      PROVE  Step(s, ids) \subseteq direct(s) \cup Targets
  BY <1>3
<1>4. ASSUME NEW s PROVE reach(s) \subseteq direct(s) \cup Targets
  <2> DEFINE Grown(ids, n) == Step(s, ids)
             grow[n \in Nat] == IF n = 0 THEN direct(s) ELSE Grown(grow[n - 1], n)
  <2>1. NatInductiveDefHypothesis(grow, direct(s), Grown)
    BY DEF NatInductiveDefHypothesis
  <2>2. NatInductiveDefConclusion(grow, direct(s), Grown)
    BY <2>1, NatInductiveDef
  <2>3. reach(s) = UNION {grow[n] : n \in 0 .. Cardinality(stored)}
    OBVIOUS
  <2> HIDE DEF grow
  <2>4. grow[0] = direct(s) /\ \A n \in Nat \ {0} : grow[n] = Step(s, grow[n - 1])
    BY <2>2 DEF NatInductiveDefConclusion
  <2> HIDE DEF reach, direct, Step, Targets
  <2>5. PICK Wrong : Wrong = {n \in Nat : ~(grow[n] \subseteq direct(s) \cup Targets)}
    OBVIOUS
  <2>6. Wrong = {}
    <3> SUFFICES ASSUME Wrong # {} PROVE FALSE
      OBVIOUS
    <3>1. PICK n \in Wrong : \A k \in Wrong : ~(k < n)
      BY <2>5, LeastNat
    <3>2. n # 0 /\ n \in Nat
      BY <2>4, <2>5, <3>1
    <3>3. n - 1 \in Nat /\ n - 1 \notin Wrong
      BY <3>1, <3>2
    <3>4. PICK ids : ids = grow[n - 1]
      OBVIOUS
    <3>5. ids \subseteq direct(s) \cup Targets
      BY <2>5, <3>3, <3>4
    <3>6. grow[n] = Step(s, ids)
      BY <2>4, <3>2, <3>4
    <3> QED
      BY <1>3, <2>5, <3>1, <3>5, <3>6
  <2>7. \A n \in 0 .. Cardinality(stored) : grow[n] \subseteq direct(s) \cup Targets
    BY <2>5, <2>6
  <2> QED
    BY <2>3, <2>7
<1>5. Targets \subseteq Slugs /\ IsFiniteSet(Targets)
  <2>1. PICK f : f = [r \in stored |-> r.target]
    OBVIOUS
  <2>2. IsFiniteSet({f[r] : r \in stored})
    BY ImageFinite DEF Related
  <2>3. {f[r] : r \in stored} = Targets
    BY <2>1
  <2> QED
    BY <2>2, <2>3 DEF Related
<1> HIDE DEF reach, direct, Step, Targets
<1>6. \A r \in ancestors : r.subject \in Slugs /\ r.target \in Slugs
  BY <1>2, <1>4, <1>5
<1>7. IsFiniteSet(ancestors)
  <2>1. PICK pairs : pairs = subjects \X Targets
    OBVIOUS
  <2>2. PICK f : f = [p \in pairs |->
                        [subject |-> p[1], predicate |-> Predecessor, target |-> p[2]]]
    OBVIOUS
  <2>3. PICK lines : lines = {f[p] : p \in pairs}
    OBVIOUS
  <2>4. IsFiniteSet(pairs)
    BY <1>5, <2>1, FS_Product
  <2>5. IsFiniteSet(lines)
    BY <2>3, <2>4, ImageFinite
  <2>6. ancestors \subseteq lines
    <3> SUFFICES ASSUME NEW s \in subjects, NEW id \in reach(s) \ direct(s)
                 PROVE  [subject |-> s, predicate |-> Predecessor, target |-> id] \in lines
      OBVIOUS
    <3>1. PICK p \in pairs : p = <<s, id>>
      BY <1>4, <2>1
    <3>2. f[p] = [subject |-> s, predicate |-> Predecessor, target |-> id]
      BY <2>2, <3>1
    <3> QED
      BY <2>3, <3>1, <3>2
  <2> QED
    BY <2>5, <2>6, FS_Subset
<1> HIDE DEF ancestors
<1>8. Related(ancestors)
  BY <1>6, <1>7 DEF Related
<1>9. PICK new, old : /\ new = {r \in incoming : r.subject \in subjects}
                      /\ old = {r \in loaded : /\ r.predicate \in LineagePredicates
                                               /\ r.subject \in subjects}
  OBVIOUS
<1>10. Related(new) /\ Related(old)
  BY <1>9, RelatedTogether
<1>11. Related(new \cup old)
  BY <1>10, RelatedTogether
<1> QED
  BY <1>1, <1>8, <1>9, <1>11, RelatedTogether

-----------------------------------------------------------------------------
(* Requests and the rows they have stored.                                 *)

\* A request between two of its calls.
JobTyped(rec) ==
  /\ IsJob(rec)
  /\ rec.pc \in {"idle", "ok", "failed", "link", "row", "own", "merge", "template",
                 "check", "edges"}
  /\ rec.inst \in Instances
  /\ Related(rec.rels)
  /\ rec.items \in Seq([slug : Slugs, ord : Int])
  /\ rec.pc \in {"row", "own"} => rec.i \in 1 .. Len(rec.items)
  /\ rec.pc = "own" => rec.owner \in Owners
  /\ rec.pc = "row" /\ rec.kind \notin {"markdown", "jsonl"} => rec.owner \in Owners

Over(rec) == rec.pc \in {"idle", "ok", "failed"}

\* The rows of its items that a request has stored and claimed.
ClaimedItems(rec) ==
  {n \in DOMAIN rec.items : rec.pc \in {"row", "own"} => n < rec.i}

\* A request for a workspace source that is under way has its owner on the
\* rows it has passed, in the owners aown.
Owned(rec, aown) ==
  ~Over(rec) /\ rec.owner # None =>
    /\ rec.kind \in {"create", "replace", "keep"}
    /\ rec.kind = "create" => Len(rec.items) = 1
    /\ rec.pc = "row" => rec.kind # "create"
    /\ ~rec.undone => \A n \in ClaimedItems(rec) :
                        <<<<rec.items[n].slug, rec.inst>>, rec.owner>> \in aown

RowsInv ==
  /\ TablesTyped(db)
  /\ wk = [w \in Workers |-> wk[w]]
  /\ \A w \in Workers : JobTyped(wk[w]) /\ Owned(wk[w], db.aown)
  /\ calls \in 0 .. MaxCalls

\* Owners that a step takes away are those of requests it undoes.
UndoesOnly(d, undo) ==
  \A o \in db.aown \ d.aown : \A u \in Workers :
    wk[u].inst = o[1][2] /\ wk[u].owner = o[2] => u \in undo

\* What SuccessMeansStored says of the step of one request.
StoresAll(rec, next, d) ==
  ~Over(rec) /\ next.pc = "ok" /\ rec.owner # None /\ ~rec.undone =>
    \A n \in DOMAIN rec.items : <<<<rec.items[n].slug, rec.inst>>, rec.owner>> \in d.aown

\* A step of a request: the tables and the other requests stay in order.
LEMMA WriteRows ==
  ASSUME RowsInv, NEW w \in Workers, NEW rec, NEW d, NEW spoiled, NEW undo,
         Write(w, rec, d, spoiled, undo), calls' \in 0 .. MaxCalls,
         JobTyped(rec), Owned(rec, d.aown), TablesTyped(d), UndoesOnly(d, undo),
         StoresAll(wk[w], rec, d)
  PROVE  /\ RowsInv'
         /\ \A u \in Workers : StoresAll(wk[u], wk'[u], db')
<1>1. db' = d /\ wk' = [u \in Workers |->
              IF u = w THEN rec
              ELSE IF Free(u) THEN wk[u]
              ELSE [wk[u] EXCEPT !.calm = @ /\ d = db, !.undone = @ \/ u \in undo]]
  BY DEF Write
<1>2. ASSUME NEW u \in Workers
      PROVE  /\ JobTyped(wk'[u]) /\ Owned(wk'[u], d.aown)
             /\ StoresAll(wk[u], wk'[u], d)
  <2>1. CASE u = w
    BY <1>1, <2>1
  <2>2. CASE u # w /\ Free(u)
    <3>1. wk'[u] = wk[u]
      BY <1>1, <2>2
    <3> QED
      BY <2>2, <3>1 DEF RowsInv, Free, Owned, StoresAll, Over
  <2>3. CASE u # w /\ ~Free(u)
    <3>1. PICK rec0, calm, undone : /\ rec0 = wk[u] /\ calm = (wk[u].calm /\ d = db)
                                    /\ undone = (wk[u].undone \/ u \in undo)
      OBVIOUS
    <3>2. JobTyped(rec0) /\ Owned(rec0, db.aown) /\ ~Over(rec0)
      BY <2>3, <3>1 DEF RowsInv, Free, Over
    <3>3. PICK rec1, rec2 : rec1 = [rec0 EXCEPT !.calm = calm] /\ rec2 = [rec1 EXCEPT !.undone = undone]
      OBVIOUS
    <3>4. /\ rec1.pc = rec0.pc /\ rec1.kind = rec0.kind /\ rec1.inst = rec0.inst
          /\ rec1.owner = rec0.owner /\ rec1.items = rec0.items /\ rec1.i = rec0.i
          /\ rec1.rels = rec0.rels /\ IsJob(rec1)
      BY <3>2, <3>3 DEF JobTyped, IsJob
    <3>5. /\ rec2.pc = rec0.pc /\ rec2.kind = rec0.kind /\ rec2.inst = rec0.inst
          /\ rec2.owner = rec0.owner /\ rec2.items = rec0.items /\ rec2.i = rec0.i
          /\ rec2.rels = rec0.rels /\ IsJob(rec2) /\ rec2.undone = undone
      BY <3>3, <3>4 DEF IsJob
    <3>6. wk'[u] = rec2
      BY <1>1, <2>3, <3>1, <3>3
    <3>7. JobTyped(rec2)
      BY <3>2, <3>5 DEF JobTyped
    <3>8. ClaimedItems(rec2) = ClaimedItems(rec0)
      BY <3>5 DEF ClaimedItems
    <3>9. ASSUME ~undone, rec0.owner # None, NEW n \in ClaimedItems(rec0)
          PROVE  <<<<rec0.items[n].slug, rec0.inst>>, rec0.owner>> \in d.aown
      <4>1. PICK o : o = <<<<rec0.items[n].slug, rec0.inst>>, rec0.owner>>
        OBVIOUS
      <4>2. ~wk[u].undone /\ u \notin undo
        BY <3>1, <3>9
      <4>3. o \in db.aown
        BY <3>1, <3>2, <3>9, <4>1, <4>2 DEF Owned
      <4>4. o[1][2] = wk[u].inst /\ o[2] = wk[u].owner
        BY <3>1, <4>1
      <4> QED
        BY <4>1, <4>2, <4>3, <4>4 DEF UndoesOnly
    <3>10. Owned(rec2, d.aown)
      BY <3>2, <3>5, <3>8, <3>9 DEF Owned, Over
    <3>11. StoresAll(rec0, rec2, d)
      BY <3>2, <3>5 DEF StoresAll, Over
    <3> QED
      BY <3>1, <3>6, <3>7, <3>10, <3>11
  <2> QED
    BY <2>1, <2>2, <2>3
<1>3. wk' = [u \in Workers |-> wk'[u]]
  BY <1>1
<1> QED
  BY <1>1, <1>2, <1>3 DEF RowsInv

\* What a step without a crash does to the orders: rows go, or a request
\* stores one row.
OrdersKept(ord, new) == \A a \in DOMAIN new : a \in DOMAIN ord /\ new[a] = ord[a]

OrderStep ==
  \/ OrdersKept(db.ord, db'.ord)
  \/ \E a \in Addresses, n \in Int : /\ db'.ord = OrderedRow(db.ord, a, n)
                                     /\ n > 0 => Ordered(a)

RowStepOK == RowsInv' /\ (\A u \in Workers : StoresAll(wk[u], wk'[u], db')) /\ OrderStep

\* A request that is done or not begun.
LEMMA EndedTyped ==
  ASSUME NEW pc \in {"idle", "ok", "failed"}, NEW aown
  PROVE  JobTyped(Ended(pc)) /\ Owned(Ended(pc), aown) /\ Ended(pc).pc = pc
<1>1. PICK rec : rec = Ended(pc)
  OBVIOUS
<1>2. rec = [pc |-> pc, kind |-> "none", inst |-> Template, owner |-> None,
             items |-> <<>>, i |-> 1, rels |-> {}, read |-> {}, edges |-> {},
             left |-> {}, calm |-> TRUE, undone |-> FALSE]
  BY <1>1 DEF Ended, Idle
<1>3. rec.items \in Seq([slug : Slugs, ord : Int])
  BY <1>2, EmptySeq
<1>4. IsJob(rec) /\ rec.pc = pc /\ rec.inst \in Instances /\ rec.rels = {}
  BY <1>2, TemplateAssumption DEF IsJob
<1> QED
  BY <1>1, <1>3, <1>4, FS_EmptySet DEF JobTyped, Owned, Over, Related

\* A request that has just begun with a record of these fields.
LEMMA BegunTyped ==
  ASSUME NEW rec, NEW pc \in {"link", "row", "own"}, NEW kind, NEW inst \in Instances,
         NEW owner, NEW items \in Seq([slug : Slugs, ord : Int]), NEW rels, Related(rels),
         rec = [pc |-> pc, kind |-> kind, inst |-> inst, owner |-> owner,
                items |-> items, i |-> 1, rels |-> rels, read |-> {}, edges |-> {},
                left |-> {}, calm |-> TRUE, undone |-> FALSE],
         pc \in {"row", "own"} => Len(items) >= 1,
         pc = "own" => owner \in Owners /\ kind = "create" /\ Len(items) = 1,
         pc = "row" /\ kind \notin {"markdown", "jsonl"} =>
           owner \in Owners /\ kind \in {"replace", "keep"},
         pc = "link" \/ kind \in {"markdown", "jsonl"} => owner = None,
         NEW aown
  PROVE  JobTyped(rec) /\ Owned(rec, aown) /\ rec.pc # "ok"
<1>1. /\ IsJob(rec) /\ rec.pc = pc /\ rec.inst = inst /\ rec.rels = rels
      /\ rec.items = items /\ rec.i = 1 /\ rec.owner = owner /\ rec.kind = kind
  BY DEF IsJob
<1>2. Len(items) \in Nat /\ DOMAIN items = 1 .. Len(items)
  BY LenProperties
<1>3. JobTyped(rec)
  BY <1>1, <1>2 DEF JobTyped
<1>4. pc \in {"row", "own"} => ClaimedItems(rec) = {}
  BY <1>1, <1>2 DEF ClaimedItems
<1>5. Owned(rec, aown)
  BY <1>1, <1>4 DEF Owned, Over
<1> QED
  BY <1>1, <1>3, <1>5

\* Tables that lose no owner undo nothing.
LEMMA KeepsOwners ==
  ASSUME NEW d, db.aown \subseteq d.aown
  PROVE  UndoesOnly(d, {})
BY DEF UndoesOnly

\* Deletes take the owners of the instance, of one of its sources, or all.
LEMMA DeletesUndo ==
  ASSUME RowsInv, NEW inst, NEW owner
  PROVE  /\ UndoesOnly(DeleteInstance(db, inst), In(inst))
         /\ UndoesOnly(DeleteChecklist(db), Workers)
         /\ UndoesOnly(DeleteOwnedInstance(db, inst, owner),
                       {u \in In(inst) : wk[u].owner = owner})
<1>1. TablesTyped(db)
  BY DEF RowsInv
<1>2. UndoesOnly(DeleteChecklist(db), Workers)
  BY DEF UndoesOnly
<1>3. UndoesOnly(DeleteInstance(db, inst), In(inst))
  <2>1. PICK gone, e1 : /\ gone = {a \in db.rows : a[2] = inst}
                        /\ e1 = WithoutRows(db, gone)
    OBVIOUS
  <2>2. PICK sown, e : /\ sown = {s \in e1.sown : Backed(e1, s)}
                       /\ e = [e1 EXCEPT !.sown = sown]
    OBVIOUS
  <2>3. DeleteInstance(db, inst) = e
    BY <2>1, <2>2 DEF DeleteInstance
  <2>4. TablesTyped(e1) /\ e1.aown = {o \in db.aown : o[1] \notin gone}
    BY <1>1, <2>1, WithoutRowsTyped
  <2>5. e.aown = e1.aown
    BY <2>2, <2>4 DEF TablesTyped, IsTables
  <2>6. \A o \in db.aown \ e.aown : o[1] \in gone
    BY <2>4, <2>5
  <2> QED
    BY <2>1, <2>3, <2>6 DEF UndoesOnly, In
<1>4. UndoesOnly(DeleteOwnedInstance(db, inst, owner), {u \in In(inst) : wk[u].owner = owner})
  <2>1. PICK aown, e1 : /\ aown = {o \in db.aown : o[1][2] # inst \/ o[2] # owner}
                        /\ e1 = [db EXCEPT !.aown = aown]
    OBVIOUS
  <2>2. PICK sown, e2 : /\ sown = {s \in e1.sown : s[2] = owner => Backed(e1, s)}
                        /\ e2 = [e1 EXCEPT !.sown = sown]
    OBVIOUS
  <2>3. PICK gone, e : /\ gone = {a \in db.rows : a[2] = inst /\ ~ \E o \in e2.aown : o[1] = a}
                       /\ e = WithoutRows(e2, gone)
    OBVIOUS
  <2>4. DeleteOwnedInstance(db, inst, owner) = e
    BY <2>1, <2>2, <2>3 DEF DeleteOwnedInstance
  <2>5. e1 = Tables(db.rows, db.ord, aown, db.sown, db.trel, db.erel)
    BY <1>1, <2>1 DEF TablesTyped, IsTables, Tables
  <2>6. e2 = Tables(db.rows, db.ord, aown, sown, db.trel, db.erel)
    BY <2>2, <2>5 DEF Tables
  <2>7. IsTables(e2) /\ e2.aown = aown
    BY <2>6 DEF Tables, IsTables
  <2>8. e.aown = {o \in aown : o[1] \notin gone}
    <3>1. WithoutRows(e2, gone) =
            Tables(e2.rows \ gone, Restrict(e2.ord, DOMAIN e2.ord \ gone),
                   {o \in e2.aown : o[1] \notin gone}, e2.sown, e2.trel,
                   {x \in e2.erel : x.subject \notin gone /\ x.target \notin gone})
      BY <2>7, WithoutRowsIs
    <3>2. WithoutRows(e2, gone).aown = {o \in e2.aown : o[1] \notin gone}
      BY <3>1 DEF Tables
    <3> QED
      BY <2>3, <2>7, <3>2
  <2>9. \A o \in aown : o[1] \notin gone
    BY <2>3, <2>7
  <2>10. \A o \in db.aown \ e.aown : o[1][2] = inst /\ o[2] = owner
    BY <2>1, <2>8, <2>9
  <2> QED
    BY <2>4, <2>10 DEF UndoesOnly, In
<1> QED
  BY <1>2, <1>3, <1>4

\* A step that leaves the tables alone.
LEMMA DbUnchanged ==
  ASSUME RowsInv
  PROVE  TablesTyped(db) /\ UndoesOnly(db, {}) /\ OrdersKept(db.ord, db.ord)
BY DEF RowsInv, UndoesOnly, OrdersKept

\* A step that stores one row.
LEMMA StoresRow ==
  ASSUME RowsInv, NEW a \in Addresses, NEW n \in Int,
         NEW d \in {UpsertSlug(db, a, n), CreateSlugIfMissing(db, a, n)}
  PROVE  /\ TablesTyped(d) /\ UndoesOnly(d, {}) /\ db.aown \subseteq d.aown
         /\ d.ord \in {db.ord, OrderedRow(db.ord, a, n)}
<1>1. TablesTyped(db)
  BY DEF RowsInv
<1>2. TablesTyped(d) /\ d.aown = Heirs(db, a) /\ d.ord \in {db.ord, OrderedRow(db.ord, a, n)}
  BY <1>1, UpsertTyped, CreateTyped
<1>3. db.aown \subseteq d.aown
  BY <1>1, <1>2, HeirsTyped
<1> QED
  BY <1>2, <1>3, KeepsOwners

\* The requests still to come.
LEMMA BeginsTyped ==
  ASSUME RowsInv, NEW w \in Workers
  PROVE  /\ Begin(w) => calls' \in 0 .. MaxCalls
         /\ UNCHANGED calls => calls' \in 0 .. MaxCalls
BY RequestAssumption DEF RowsInv, Begin

\* The deletes.
LEMMA DeleteRows ==
  ASSUME RowsInv, NEW w \in Workers, HandleDeleteInstance(w) \/ HandleDeleteChecklist(w)
  PROVE  RowStepOK
<1>1. TablesTyped(db) /\ calls' \in 0 .. MaxCalls
  BY BeginsTyped DEF RowsInv, HandleDeleteInstance, HandleDeleteChecklist
<1>2. PICK rec : rec = Ended("ok")
  OBVIOUS
<1>3. \A aown : JobTyped(rec) /\ Owned(rec, aown)
  BY <1>2, EndedTyped
<1>4. Free(w)
  BY DEF HandleDeleteInstance, HandleDeleteChecklist, Begin
<1>5. ASSUME NEW d, NEW undo, Write(w, rec, d, {}, undo), TablesTyped(d), UndoesOnly(d, undo),
             OrdersKept(db.ord, d.ord)
      PROVE  RowStepOK
  <2>1. StoresAll(wk[w], rec, d)
    BY <1>4 DEF StoresAll, Free, Over
  <2>2. RowsInv' /\ \A u \in Workers : StoresAll(wk[u], wk'[u], db')
    BY <1>1, <1>3, <1>5, <2>1, WriteRows
  <2>3. db' = d
    BY <1>5 DEF Write
  <2> QED
    BY <1>5, <2>2, <2>3 DEF RowStepOK, OrderStep
<1>6. CASE HandleDeleteInstance(w)
  <2>1. PICK inst \in Instances : Write(w, Ended("ok"), DeleteInstance(db, inst), {}, In(inst))
    BY <1>6 DEF HandleDeleteInstance
  <2>2. PICK d, undo : d = DeleteInstance(db, inst) /\ undo = In(inst)
    OBVIOUS
  <2>3. TablesTyped(d) /\ OrdersKept(db.ord, d.ord)
    BY <1>1, <2>2, DeletesTyped, ZenonT(60) DEF OrdersKept
  <2>4. UndoesOnly(d, undo)
    BY <2>2, DeletesUndo
  <2> QED
    BY <1>2, <1>5, <2>1, <2>2, <2>3, <2>4
<1>7. CASE HandleDeleteChecklist(w)
  <2>1. PICK d, undo : d = DeleteChecklist(db) /\ undo = Workers
    OBVIOUS
  <2>2. TablesTyped(d) /\ OrdersKept(db.ord, d.ord)
    BY <1>1, <2>1, DeletesTyped DEF OrdersKept
  <2>3. UndoesOnly(d, undo)
    BY <2>1, DeletesUndo
  <2>4. Write(w, rec, d, {}, undo)
    BY <1>2, <1>7, <2>1 DEF HandleDeleteChecklist
  <2> QED
    BY <1>5, <2>2, <2>3, <2>4
<1> QED
  BY <1>6, <1>7

\* A step of Write, once its record and its tables are known to be in order.
LEMMA RowWrite ==
  ASSUME RowsInv, NEW w \in Workers, NEW rec, NEW d, NEW spoiled, NEW undo,
         Write(w, rec, d, spoiled, undo), Begin(w) \/ UNCHANGED calls,
         JobTyped(rec), Owned(rec, d.aown), TablesTyped(d), UndoesOnly(d, undo),
         StoresAll(wk[w], rec, d),
         \/ OrdersKept(db.ord, d.ord)
         \/ \E a \in Addresses, n \in Int : /\ d.ord = OrderedRow(db.ord, a, n)
                                            /\ n > 0 => Ordered(a)
  PROVE  RowStepOK
<1>1. calls' \in 0 .. MaxCalls
  BY BeginsTyped
<1>2. RowsInv' /\ \A u \in Workers : StoresAll(wk[u], wk'[u], db')
  BY <1>1, WriteRows
<1>3. db' = d
  BY DEF Write
<1> QED
  BY <1>2, <1>3 DEF RowStepOK, OrderStep

\* The record of a request that goes on to the place pc.
LEMMA MovedOn ==
  ASSUME NEW rec, JobTyped(rec), NEW pc, NEW next, next = [rec EXCEPT !.pc = pc]
  PROVE  /\ IsJob(next) /\ next.pc = pc /\ next.kind = rec.kind /\ next.inst = rec.inst
         /\ next.owner = rec.owner /\ next.items = rec.items /\ next.i = rec.i
         /\ next.rels = rec.rels /\ next.undone = rec.undone
BY DEF JobTyped, IsJob

\* handle_create_slug.
LEMMA CreateRows ==
  ASSUME RowsInv, NEW w \in Workers, HandleCreateSlug(w)
  PROVE  RowStepOK
<1>1. PICK c \in Creates :
        /\ Begin(w)
        /\ Write(w,
             IF c.owner = None THEN Ended("ok")
             ELSE [Idle EXCEPT !.pc = "own", !.kind = "create", !.inst = c.inst,
                     !.owner = c.owner,
                     !.items = <<[slug |-> c.slug, ord |-> c.ord]>>],
             UpsertSlug(db, <<c.slug, c.inst>>, c.ord), {}, {})
  BY DEF HandleCreateSlug
<1>2. /\ c.slug \in Slugs /\ c.inst \in Instances /\ c.owner \in Owners \cup {None}
      /\ c.ord \in Int
  BY RequestAssumption
<1>3. PICK a, n, d : a = <<c.slug, c.inst>> /\ n = c.ord /\ d = UpsertSlug(db, a, n)
  OBVIOUS
<1>4. a \in Addresses /\ n \in Int
  BY <1>2, <1>3 DEF Addresses
<1>5. TablesTyped(d) /\ UndoesOnly(d, {}) /\ d.ord \in {db.ord, OrderedRow(db.ord, a, n)}
  BY <1>3, <1>4, StoresRow
<1>6. \/ OrdersKept(db.ord, d.ord)
      \/ \E b \in Addresses, m \in Int : /\ d.ord = OrderedRow(db.ord, b, m)
                                         /\ m > 0 => Ordered(b)
  <2>1. n > 0 => Ordered(a)
    BY <1>3 DEF Ordered
  <2> QED
    BY <1>4, <1>5, <2>1 DEF OrdersKept
<1>7. PICK rec : rec = IF c.owner = None THEN Ended("ok")
             ELSE [Idle EXCEPT !.pc = "own", !.kind = "create", !.inst = c.inst,
                     !.owner = c.owner,
                     !.items = <<[slug |-> c.slug, ord |-> c.ord]>>]
  OBVIOUS
<1>8. JobTyped(rec) /\ Owned(rec, d.aown)
  <2>1. CASE c.owner = None
    BY <1>7, <2>1, EndedTyped
  <2>2. CASE c.owner # None
    <3>1. PICK items, owner, inst : /\ items = <<[slug |-> c.slug, ord |-> c.ord]>>
                                    /\ owner = c.owner /\ inst = c.inst
      OBVIOUS
    <3>2. items \in Seq([slug : Slugs, ord : Int]) /\ Len(items) = 1
      BY <1>2, <3>1
    <3>3. owner \in Owners /\ inst \in Instances
      BY <1>2, <2>2, <3>1
    <3>4. rec = [pc |-> "own", kind |-> "create", inst |-> inst, owner |-> owner,
                 items |-> items, i |-> 1, rels |-> {}, read |-> {}, edges |-> {},
                 left |-> {}, calm |-> TRUE, undone |-> FALSE]
      BY <1>7, <2>2, <3>1 DEF Idle
    <3>5. PICK pc, kind, rels, aown : /\ pc = "own" /\ kind = "create" /\ rels = {}
                                      /\ aown = d.aown
      OBVIOUS
    <3>6. rec = [pc |-> pc, kind |-> kind, inst |-> inst, owner |-> owner,
                 items |-> items, i |-> 1, rels |-> rels, read |-> {}, edges |-> {},
                 left |-> {}, calm |-> TRUE, undone |-> FALSE]
      BY <3>4, <3>5
    <3>7. /\ Related(rels) /\ pc \in {"link", "row", "own"}
          /\ pc \in {"row", "own"} => Len(items) >= 1
          /\ pc = "own" => owner \in Owners /\ kind = "create" /\ Len(items) = 1
          /\ pc = "row" /\ kind \notin {"markdown", "jsonl"} =>
               owner \in Owners /\ kind \in {"replace", "keep"}
          /\ pc = "link" \/ kind \in {"markdown", "jsonl"} => owner = None
      BY <3>2, <3>3, <3>5, FS_EmptySet DEF Related
    <3>8. JobTyped(rec) /\ Owned(rec, aown)
      BY <3>2, <3>3, <3>6, <3>7, BegunTyped, ZenonT(60)
    <3> QED
      BY <3>5, <3>8
  <2> QED
    BY <2>1, <2>2
<1>9. StoresAll(wk[w], rec, d)
  BY <1>1 DEF Begin, StoresAll, Free, Over
<1>10. Write(w, rec, d, {}, {})
  BY <1>1, <1>3, <1>7
<1> QED
  BY <1>1, <1>5, <1>6, <1>8, <1>9, <1>10, RowWrite

\* handle_relationships_template_create.
LEMMA LinkRows ==
  ASSUME RowsInv, NEW w \in Workers, CheckLink(w) \/ InsertTemplateRelationship(w)
  PROVE  RowStepOK
<1>1. CASE CheckLink(w)
  <2>1. PICK r \in Links : \E rec :
          /\ Begin(w)
          /\ Write(w, rec, db, {}, {})
          /\ \/ rec = Ended("failed")
             \/ rec = [Idle EXCEPT !.pc = "link", !.kind = "link", !.rels = {r}]
    BY <1>1 DEF CheckLink
  <2>2. PICK rec : /\ Begin(w)
                   /\ Write(w, rec, db, {}, {})
                   /\ \/ rec = Ended("failed")
                      \/ rec = [Idle EXCEPT !.pc = "link", !.kind = "link", !.rels = {r}]
    BY <2>1
  <2>3. PICK d : d = db
    OBVIOUS
  <2>4. JobTyped(rec) /\ Owned(rec, d.aown)
    <3>1. CASE rec = Ended("failed")
      BY <3>1, EndedTyped
    <3>2. CASE rec = [Idle EXCEPT !.pc = "link", !.kind = "link", !.rels = {r}]
      <4>1. PICK rels, inst, items : rels = {r} /\ inst = Template /\ items = <<>>
        OBVIOUS
      <4>2. rec = [pc |-> "link", kind |-> "link", inst |-> inst, owner |-> None,
                   items |-> items, i |-> 1, rels |-> rels, read |-> {}, edges |-> {},
                   left |-> {}, calm |-> TRUE, undone |-> FALSE]
        BY <3>2, <4>1 DEF Idle
      <4>3. r.subject \in Slugs /\ r.target \in Slugs
        BY RequestAssumption
      <4>4. Related(rels) /\ inst \in Instances /\ items \in Seq([slug : Slugs, ord : Int])
        BY <4>1, <4>3, TemplateAssumption, EmptySeq, FS_Singleton DEF Related
      <4> QED
        BY <4>2, <4>4, BegunTyped
    <3> QED
      BY <2>2, <3>1, <3>2
  <2>5. StoresAll(wk[w], rec, d)
    BY <2>2 DEF Begin, StoresAll, Free, Over
  <2>6. TablesTyped(d) /\ UndoesOnly(d, {}) /\ OrdersKept(db.ord, d.ord)
    BY <2>3, DbUnchanged
  <2>7. Write(w, rec, d, {}, {})
    BY <2>2, <2>3
  <2> QED
    BY <2>2, <2>4, <2>5, <2>6, <2>7, RowWrite
<1>2. CASE InsertTemplateRelationship(w)
  <2>1. PICK rec, rels, d : /\ rec = Ended("ok") /\ rels = db.trel \cup wk[w].rels
                            /\ d = [db EXCEPT !.trel = rels]
    OBVIOUS
  <2>2. UNCHANGED calls /\ wk[w].pc = "link" /\ Write(w, rec, d, {}, {})
    BY <1>2, <2>1 DEF InsertTemplateRelationship, At
  <2>3. TablesTyped(db) /\ JobTyped(wk[w]) /\ Owned(wk[w], db.aown)
    BY DEF RowsInv
  <2>4. TablesTyped(d) /\ d.ord = db.ord /\ d.aown = db.aown
    <3>1. Related(rels)
      BY <2>1, <2>3, RelatedTogether DEF TablesTyped, JobTyped
    <3> QED
      BY <2>1, <2>3, <3>1, RelationshipsTyped
  <2>5. UndoesOnly(d, {}) /\ OrdersKept(db.ord, d.ord)
    BY <2>4, KeepsOwners DEF OrdersKept
  <2>6. JobTyped(rec) /\ Owned(rec, d.aown)
    BY <2>1, EndedTyped
  <2>7. ClaimedItems(wk[w]) = DOMAIN wk[w].items
    BY <2>2 DEF ClaimedItems
  <2>8. StoresAll(wk[w], rec, d)
    BY <2>2, <2>3, <2>4, <2>7 DEF StoresAll, Owned
  <2> QED
    BY <2>2, <2>4, <2>5, <2>6, <2>8, RowWrite
<1> QED
  BY <1>1, <1>2

\* The row that an import has come to.
LEMMA HereTyped ==
  ASSUME RowsInv, NEW w \in Workers, wk[w].pc \in {"row", "own"}
  PROVE  /\ Here(w) \in Addresses /\ Item(w).ord \in Int /\ Item(w).slug \in Slugs
         /\ wk[w].i \in Nat /\ wk[w].i \in DOMAIN wk[w].items
         /\ DOMAIN wk[w].items = 1 .. Len(wk[w].items) /\ Len(wk[w].items) \in Nat
<1>1. PICK items, i : items = wk[w].items /\ i = wk[w].i
  OBVIOUS
<1>2. items \in Seq([slug : Slugs, ord : Int]) /\ i \in 1 .. Len(items) /\ wk[w].inst \in Instances
  BY <1>1 DEF RowsInv, JobTyped
<1>3. Len(items) \in Nat /\ DOMAIN items = 1 .. Len(items) /\ items[i] \in [slug : Slugs, ord : Int]
  BY <1>2, LenProperties
<1> QED
  BY <1>1, <1>2, <1>3 DEF Here, Item, Addresses

\* A request that has done its row goes on to the next one, or to merge.
LEMMA NextRowTyped ==
  ASSUME RowsInv, NEW w \in Workers, wk[w].pc \in {"row", "own"},
         NEW aown, db.aown \subseteq aown, wk[w].kind # "create" \/ wk[w].owner = None,
         wk[w].owner # None /\ ~wk[w].undone => <<Here(w), wk[w].owner>> \in aown,
         wk[w].kind \notin {"markdown", "jsonl"} => wk[w].owner \in Owners
  PROVE  /\ JobTyped(NextRow(w)) /\ Owned(NextRow(w), aown)
         /\ NextRow(w).pc # "ok" /\ NextRow(w) # wk[w]
<1>1. JobTyped(wk[w]) /\ Owned(wk[w], db.aown)
  BY DEF RowsInv
<1>2. PICK rec, next, on, then :
        /\ rec = wk[w] /\ next = rec.i + 1
        /\ then = [rec EXCEPT !.pc = "row"] /\ on = [then EXCEPT !.i = next]
  OBVIOUS
<1>3. /\ rec.i \in Nat /\ rec.i \in DOMAIN rec.items /\ DOMAIN rec.items = 1 .. Len(rec.items)
      /\ Len(rec.items) \in Nat /\ Here(w) = <<rec.items[rec.i].slug, rec.inst>>
  BY <1>2, HereTyped DEF Here, Item
<1>4. ASSUME rec.owner # None, ~rec.undone, NEW n \in 1 .. rec.i
      PROVE  <<<<rec.items[n].slug, rec.inst>>, rec.owner>> \in aown
  <2>1. CASE n = rec.i
    BY <1>2, <1>3, <1>4, <2>1
  <2>2. CASE n < rec.i
    <3>1. n \in ClaimedItems(rec)
      BY <1>3, <2>2 DEF ClaimedItems
    <3>2. ~Over(rec)
      BY <1>2 DEF Over
    <3> QED
      BY <1>1, <1>2, <1>4, <3>1, <3>2 DEF Owned
  <2> QED
    BY <1>3, <2>1, <2>2
<1>5. CASE AtLast(w)
  <2>1. PICK merge : merge = [rec EXCEPT !.pc = "merge"]
    OBVIOUS
  <2>2. NextRow(w) = merge
    BY <1>2, <1>5, <2>1 DEF NextRow
  <2>3. /\ IsJob(merge) /\ merge.pc = "merge" /\ merge.kind = rec.kind /\ merge.inst = rec.inst
        /\ merge.owner = rec.owner /\ merge.items = rec.items /\ merge.i = rec.i
        /\ merge.rels = rec.rels /\ merge.undone = rec.undone
    BY <1>1, <1>2, <2>1, MovedOn
  <2>4. JobTyped(merge)
    BY <1>1, <1>2, <2>3 DEF JobTyped
  <2>5. ClaimedItems(merge) = 1 .. rec.i
    BY <1>2, <1>3, <1>5, <2>3 DEF ClaimedItems, AtLast
  <2>6. Owned(merge, aown)
    BY <1>1, <1>2, <1>4, <2>3, <2>5 DEF Owned, Over
  <2> QED
    BY <1>2, <2>2, <2>3, <2>4, <2>6
<1>6. CASE ~AtLast(w)
  <2>1. NextRow(w) = on
    BY <1>2, <1>6 DEF NextRow
  <2>2. /\ IsJob(then) /\ then.pc = "row" /\ then.kind = rec.kind /\ then.inst = rec.inst
        /\ then.owner = rec.owner /\ then.items = rec.items
        /\ then.rels = rec.rels /\ then.undone = rec.undone
    BY <1>1, <1>2, MovedOn
  <2>3. /\ IsJob(on) /\ on.pc = "row" /\ on.kind = rec.kind /\ on.inst = rec.inst
        /\ on.owner = rec.owner /\ on.items = rec.items /\ on.i = rec.i + 1
        /\ on.rels = rec.rels /\ on.undone = rec.undone
    BY <1>2, <2>2 DEF IsJob
  <2>4. rec.i + 1 \in 1 .. Len(rec.items)
    BY <1>2, <1>3, <1>6 DEF AtLast
  <2>5. JobTyped(on)
    BY <1>1, <1>2, <2>3, <2>4 DEF JobTyped
  <2>6. ClaimedItems(on) \subseteq 1 .. rec.i
    BY <1>3, <2>3 DEF ClaimedItems
  <2>7. Owned(on, aown)
    BY <1>1, <1>2, <1>4, <2>3, <2>6 DEF Owned, Over
  <2>8. on # rec
    BY <1>3, <2>3
  <2>9. on.pc # "ok"
    BY <2>3
  <2> QED
    BY <1>2, <2>1, <2>5, <2>7, <2>8, <2>9
<1> QED
  BY <1>5, <1>6

\* One row of an import.
LEMMA ImportRows ==
  ASSUME RowsInv, NEW w \in Workers, ImportRow(w)
  PROVE  RowStepOK
<1>1. UNCHANGED calls /\ wk[w].pc = "row"
  BY DEF ImportRow, At
<1>2. JobTyped(wk[w]) /\ Owned(wk[w], db.aown) /\ ~Over(wk[w])
  BY <1>1 DEF RowsInv, Over
<1>3. PICK a, n, d, e : /\ a = Here(w) /\ n = Item(w).ord
                        /\ d = CreateSlugIfMissing(db, a, n) /\ e = UpsertSlug(db, a, n)
  OBVIOUS
<1>4. a \in Addresses /\ n \in Int
  BY <1>1, <1>3, HereTyped
<1>5. /\ TablesTyped(d) /\ UndoesOnly(d, {}) /\ db.aown \subseteq d.aown
      /\ d.ord \in {db.ord, OrderedRow(db.ord, a, n)}
  BY <1>3, <1>4, StoresRow
<1>6. /\ TablesTyped(e) /\ UndoesOnly(e, {}) /\ db.aown \subseteq e.aown
      /\ e.ord \in {db.ord, OrderedRow(db.ord, a, n)}
  BY <1>3, <1>4, StoresRow
<1>7. wk[w].kind \in {"markdown", "jsonl"} => wk[w].owner = None
  BY <1>2 DEF Owned
<1>8. wk[w].kind \notin {"markdown", "jsonl"} => wk[w].owner \in Owners /\ wk[w].kind # "create"
  BY <1>1, <1>2, RequestAssumption DEF JobTyped, Owned
<1>9. ASSUME NEW rec, NEW f \in {d, e}, NEW spoiled, Write(w, rec, f, spoiled, {}),
             JobTyped(rec), Owned(rec, f.aown), rec # wk[w],
             rec.pc = "ok" => wk[w].owner = None
      PROVE  RowStepOK
  <2>1. wk'[w] = rec
    BY <1>9 DEF Write
  <2>2. n > 0 => Ordered(a)
    BY <1>1, <1>3, <1>9, <2>1 DEF Ordered
  <2>3. \/ OrdersKept(db.ord, f.ord)
        \/ \E b \in Addresses, m \in Int : /\ f.ord = OrderedRow(db.ord, b, m)
                                           /\ m > 0 => Ordered(b)
    BY <1>4, <1>5, <1>6, <2>2 DEF OrdersKept
  <2>4. StoresAll(wk[w], rec, f)
    BY <1>9 DEF StoresAll
  <2>5. TablesTyped(f) /\ UndoesOnly(f, {})
    BY <1>5, <1>6
  <2> QED
    BY <1>1, <1>9, <2>3, <2>4, <2>5, RowWrite
<1>10. ASSUME wk[w].kind \in {"markdown", "jsonl"}, NEW f \in {d, e}
       PROVE  JobTyped(NextRow(w)) /\ Owned(NextRow(w), f.aown) /\ NextRow(w).pc # "ok"
              /\ NextRow(w) # wk[w]
  <2>1. PICK aown : aown = f.aown
    OBVIOUS
  <2>2. db.aown \subseteq aown
    BY <1>5, <1>6, <2>1
  <2> QED
    BY <1>1, <1>7, <1>10, <2>1, <2>2, NextRowTyped
<1>11. CASE wk[w].kind = "markdown"
  <2>1. PICK inst, next : inst = {wk[w].inst} /\ next = NextRow(w)
    OBVIOUS
  <2>2. Write(w, next, d, inst, {})
    BY <1>3, <1>11, <2>1 DEF ImportRow
  <2> QED
    BY <1>9, <1>10, <1>11, <2>1, <2>2
<1>12. CASE wk[w].kind = "jsonl"
  <2>1. PICK next : next = IF AtLast(w) THEN Ended("ok") ELSE NextRow(w)
    OBVIOUS
  <2>2. Write(w, next, e, {}, {})
    BY <1>3, <1>12, <2>1 DEF ImportRow
  <2>3. JobTyped(next) /\ Owned(next, e.aown)
    BY <1>10, <1>12, <2>1, EndedTyped
  <2>4. next # wk[w]
    BY <1>1, <1>10, <1>12, <2>1, EndedTyped
  <2> QED
    BY <1>7, <1>9, <1>12, <2>2, <2>3, <2>4
<1>13. CASE wk[w].kind \notin {"markdown", "jsonl"}
  <2>1. PICK rec, next : rec = wk[w] /\ next = [rec EXCEPT !.pc = "own"]
    OBVIOUS
  <2>2. Write(w, next, e, {}, {})
    BY <1>3, <1>13, <2>1 DEF ImportRow
  <2>3. /\ IsJob(next) /\ next.pc = "own" /\ next.kind = rec.kind /\ next.inst = rec.inst
        /\ next.owner = rec.owner /\ next.items = rec.items /\ next.i = rec.i
        /\ next.rels = rec.rels /\ next.undone = rec.undone
    BY <1>2, <2>1, MovedOn
  <2>4. JobTyped(next)
    BY <1>1, <1>2, <1>8, <1>13, <2>1, <2>3 DEF JobTyped
  <2>5. ClaimedItems(next) = ClaimedItems(rec)
    BY <1>1, <2>1, <2>3 DEF ClaimedItems
  <2>6. Owned(next, e.aown)
    BY <1>2, <1>6, <1>8, <1>13, <2>1, <2>3, <2>5 DEF Owned, Over
  <2>7. next # wk[w] /\ next.pc # "ok"
    BY <1>1, <2>3
  <2> QED
    BY <1>9, <2>2, <2>4, <2>6, <2>7
<1> QED
  BY <1>11, <1>12, <1>13

\* UpsertOwnership of that row.
LEMMA ClaimRows ==
  ASSUME RowsInv, NEW w \in Workers, ClaimRow(w)
  PROVE  RowStepOK
<1>1. UNCHANGED calls /\ wk[w].pc = "own"
  BY DEF ClaimRow, At
<1>2. TablesTyped(db) /\ JobTyped(wk[w]) /\ Owned(wk[w], db.aown) /\ ~Over(wk[w])
  BY <1>1 DEF RowsInv, Over
<1>3. PICK a, owner, d : a = Here(w) /\ owner = wk[w].owner /\ d = Claimed(db, a, owner)
  OBVIOUS
<1>4. a \in Addresses /\ owner \in Owners /\ owner # None
  BY <1>1, <1>2, <1>3, HereTyped, RequestAssumption DEF JobTyped
<1>5. /\ TablesTyped(d) /\ d.ord = db.ord
      /\ d.aown = IF a \in db.rows THEN db.aown \cup {<<a, owner>>} ELSE db.aown
  BY <1>2, <1>3, <1>4, ClaimedTyped
<1>6. db.aown \subseteq d.aown /\ UndoesOnly(d, {}) /\ OrdersKept(db.ord, d.ord)
  BY <1>5, KeepsOwners DEF OrdersKept
<1>7. PICK next : next = IF a \notin db.rows THEN Ended("failed")
                         ELSE IF wk[w].kind = "create" THEN Ended("ok") ELSE NextRow(w)
  OBVIOUS
<1>8. Write(w, next, d, {}, {})
  BY <1>3, <1>7 DEF ClaimRow
<1>9. CASE a \notin db.rows
  <2>1. next = Ended("failed")
    BY <1>7, <1>9
  <2>2. JobTyped(next) /\ Owned(next, d.aown) /\ next.pc = "failed"
    BY <2>1, EndedTyped
  <2>3. StoresAll(wk[w], next, d)
    BY <2>2 DEF StoresAll
  <2> QED
    BY <1>1, <1>5, <1>6, <1>8, <2>2, <2>3, RowWrite
<1>10. CASE a \in db.rows /\ wk[w].kind = "create"
  <2>1. JobTyped(next) /\ Owned(next, d.aown)
    BY <1>7, <1>10, EndedTyped
  <2>2. DOMAIN wk[w].items = {1} /\ wk[w].i = 1
    BY <1>1, <1>2, <1>3, <1>4, <1>10, HereTyped DEF Owned
  <2>3. <<a, owner>> \in d.aown /\ a = <<wk[w].items[1].slug, wk[w].inst>>
    BY <1>3, <1>5, <1>10, <2>2 DEF Here, Item
  <2>4. StoresAll(wk[w], next, d)
    BY <1>3, <2>2, <2>3 DEF StoresAll
  <2> QED
    BY <1>1, <1>5, <1>6, <1>8, <2>1, <2>4, RowWrite
<1>11. CASE a \in db.rows /\ wk[w].kind # "create"
  <2>1. PICK aown : aown = d.aown
    OBVIOUS
  <2>2. <<a, owner>> \in aown /\ db.aown \subseteq aown
    BY <1>5, <1>6, <1>11, <2>1
  <2>3. JobTyped(NextRow(w)) /\ Owned(NextRow(w), aown) /\ NextRow(w).pc # "ok"
    BY <1>1, <1>3, <1>4, <1>11, <2>2, NextRowTyped
  <2>4. next = NextRow(w)
    BY <1>7, <1>11
  <2>5. StoresAll(wk[w], next, d)
    BY <2>3, <2>4 DEF StoresAll
  <2> QED
    BY <1>1, <1>5, <1>6, <1>8, <2>1, <2>3, <2>4, <2>5, RowWrite
<1> QED
  BY <1>9, <1>10, <1>11

\* A function on 1 .. n is a sequence of length n.
LEMMA TabulatedSeq ==
  ASSUME NEW S, NEW n \in Nat, NEW f \in [1 .. n -> S]
  PROVE  f \in Seq(S) /\ Len(f) = n
OBVIOUS

\* The first step of an import of a file: its rows with their orders.
LEMMA ImportBegins ==
  ASSUME RowsInv, NEW w \in Workers, BeginImport(w)
  PROVE  RowStepOK
<1>1. PICK m \in Imports :
        /\ m.kind \in {"replace", "keep", "markdown"}
        /\ Begin(w)
        /\ IF m.kind = "replace"
           THEN Write(w, Importing(m), DeleteOwnedInstance(db, m.inst, m.doc.owner), {},
                      {u \in In(m.inst) : wk[u].owner = m.doc.owner})
           ELSE Write(w, Importing(m), db, {}, {})
  BY DEF BeginImport
<1>2. /\ m.inst \in Instances /\ m.doc.owner \in Owners
      /\ m.doc.rows \in Seq(Slugs) /\ m.doc.rows # <<>>
      /\ IsFiniteSet(m.doc.rels)
      /\ \A r \in m.doc.rels : {r.subject, r.target} \subseteq Slugs
  BY RequestAssumption
<1>3. PICK rows, items : rows = m.doc.rows /\ items = Items(m.doc)
  OBVIOUS
<1>4. items = [n \in DOMAIN rows |-> [slug |-> rows[n], ord |-> ImportOrder(rows, n)]]
  BY <1>3 DEF Items
<1>5. rows \in Seq(Slugs) /\ Len(rows) \in Nat \ {0} /\ DOMAIN rows = 1 .. Len(rows)
  BY <1>2, <1>3, EmptySeq, LenProperties
<1>6. \A n \in DOMAIN rows : rows[n] \in Slugs /\ ImportOrder(rows, n) \in Int
  BY <1>5, ImportOrderType
<1>7. items \in [1 .. Len(rows) -> [slug : Slugs, ord : Int]]
  BY <1>4, <1>5, <1>6
<1>8. items \in Seq([slug : Slugs, ord : Int]) /\ Len(items) >= 1
  <2>1. PICK len, S : len = Len(rows) /\ S = [slug : Slugs, ord : Int]
    OBVIOUS
  <2>2. len \in Nat /\ len >= 1 /\ items \in [1 .. len -> S]
    BY <1>5, <1>7, <2>1
  <2>3. items \in Seq(S) /\ Len(items) = len
    BY <2>2, TabulatedSeq
  <2> QED
    BY <2>1, <2>2, <2>3
<1>9. PICK rec, owner, inst, rels, kind :
        /\ rec = Importing(m) /\ inst = m.inst /\ rels = m.doc.rels /\ kind = m.kind
        /\ owner = IF m.kind = "markdown" THEN None ELSE m.doc.owner
  OBVIOUS
<1>10. PICK pc : pc = "row"
  OBVIOUS
<1>11. rec = [pc |-> pc, kind |-> kind, inst |-> inst, owner |-> owner,
              items |-> items, i |-> 1, rels |-> rels, read |-> {}, edges |-> {},
              left |-> {}, calm |-> TRUE, undone |-> FALSE]
  BY <1>3, <1>9, <1>10 DEF Importing, Idle
<1>12. /\ Related(rels) /\ inst \in Instances /\ pc \in {"link", "row", "own"}
       /\ pc \in {"row", "own"} => Len(items) >= 1
       /\ pc = "own" => owner \in Owners /\ kind = "create" /\ Len(items) = 1
       /\ pc = "row" /\ kind \notin {"markdown", "jsonl"} =>
            owner \in Owners /\ kind \in {"replace", "keep"}
       /\ pc = "link" \/ kind \in {"markdown", "jsonl"} => owner = None
  BY <1>1, <1>2, <1>8, <1>9, <1>10 DEF Related
<1>13. \A aown : JobTyped(rec) /\ Owned(rec, aown) /\ rec.pc # "ok"
  BY <1>8, <1>11, <1>12, BegunTyped, ZenonT(60)
<1>14. ASSUME NEW d PROVE StoresAll(wk[w], rec, d)
  BY <1>13 DEF StoresAll
<1>15. CASE m.kind = "replace"
  <2>1. PICK src, d, undo : /\ src = m.doc.owner /\ d = DeleteOwnedInstance(db, inst, src)
                            /\ undo = {u \in In(inst) : wk[u].owner = src}
    OBVIOUS
  <2>2. Write(w, rec, d, {}, undo)
    BY <1>1, <1>9, <1>15, <2>1
  <2>3. TablesTyped(d) /\ OrdersKept(db.ord, d.ord)
    BY <2>1, DeletesTyped DEF RowsInv, OrdersKept
  <2>4. UndoesOnly(d, undo)
    BY <2>1, DeletesUndo
  <2> QED
    BY <1>1, <1>13, <1>14, <2>2, <2>3, <2>4, RowWrite
<1>16. CASE m.kind # "replace"
  <2>1. PICK d : d = db
    OBVIOUS
  <2>2. Write(w, rec, d, {}, {})
    BY <1>1, <1>9, <1>16, <2>1
  <2>3. TablesTyped(d) /\ UndoesOnly(d, {}) /\ OrdersKept(db.ord, d.ord)
    BY <2>1, DbUnchanged
  <2> QED
    BY <1>1, <1>13, <1>14, <2>2, <2>3, RowWrite
<1> QED
  BY <1>15, <1>16

\* A line of a JSONL file means a slug and an order.
LEMMA LineTyped ==
  ASSUME RowsInv, NEW inst, NEW doc, NEW n,
         doc.rows[n] \in Slugs, doc.orders[n] \in Int \cup {None}
  PROVE  Meant(inst, doc, n) \in Slugs /\ MeantOrder(inst, doc, n) \in Int
<1> DEFINE slug      == doc.rows[n]
           aliases   == Aliases(Present(db, inst), Loaded(db))
           rows      == {a \in db.rows : a[2] = inst}
           edges     == {e \in db.erel : /\ e.predicate = Successor
                                         /\ {e.subject[2], e.target[2]} = {inst}}
           addresses == Aliases(rows, edges)
<1>1. TablesTyped(db) /\ db.rows \subseteq Slugs \X Instances
  BY DEF RowsInv, TablesTyped, Orders
<1>2. \A present, rels : \A id \in DOMAIN Aliases(present, rels) :
        Aliases(present, rels)[id] \in present
  BY DEF Aliases
<1>3. slug \in DOMAIN aliases => aliases[slug] \in Slugs
  <2>1. Present(db, inst) \subseteq Slugs
    BY <1>1 DEF Present
  <2> QED
    BY <1>2, <2>1
<1>4. <<slug, inst>> \in DOMAIN addresses => addresses[<<slug, inst>>][1] \in Slugs
  <2>1. <<slug, inst>> \in DOMAIN addresses => addresses[<<slug, inst>>] \in rows
    BY <1>2
  <2> QED
    BY <1>1, <2>1
<1>5. Meant(inst, doc, n) \in Slugs
  <2> HIDE DEF aliases, addresses
  <2>1. Meant(inst, doc, n)
          = IF n \in doc.addressed /\ <<slug, inst>> \in DOMAIN addresses
            THEN addresses[<<slug, inst>>][1]
            ELSE IF slug \in DOMAIN aliases THEN aliases[slug] ELSE slug
    BY DEF Meant, aliases, addresses
  <2> QED
    BY <1>3, <1>4, <2>1
<1>6. \A a \in DOMAIN db.ord : db.ord[a] \in Int
  BY <1>1 DEF TablesTyped, Orders
<1>7. MeantOrder(inst, doc, n) \in Int
  BY <1>6 DEF MeantOrder
<1> QED
  BY <1>5, <1>7

\* The first step of a JSONL import: the rows its lines mean now.
LEMMA JsonlBegins ==
  ASSUME RowsInv, NEW w \in Workers, BeginJsonl(w)
  PROVE  RowStepOK
<1> DEFINE items(m) == [n \in DOMAIN m.doc.rows |->
                          [slug |-> Meant(m.inst, m.doc, n),
                           ord |-> MeantOrder(m.inst, m.doc, n)]]
<1>1. PICK m \in Imports : \E rec :
        /\ m.kind = "jsonl"
        /\ Begin(w)
        /\ Write(w, rec, db, {}, {})
        /\ \/ rec = Ended("failed")
           \/ rec = [Idle EXCEPT !.pc = "row", !.kind = "jsonl", !.inst = m.inst,
                                 !.items = items(m)]
  BY DEF BeginJsonl
<1>2. PICK rec :
        /\ m.kind = "jsonl"
        /\ Begin(w)
        /\ Write(w, rec, db, {}, {})
        /\ \/ rec = Ended("failed")
           \/ rec = [Idle EXCEPT !.pc = "row", !.kind = "jsonl", !.inst = m.inst,
                                 !.items = items(m)]
  BY <1>1
<1>3. /\ m.inst \in Instances /\ m.doc.rows \in Seq(Slugs) /\ m.doc.rows # <<>>
      /\ m.doc.orders \in [DOMAIN m.doc.rows -> Int \cup {None}]
  BY <1>2, RequestAssumption
<1>4. PICK rows, list : rows = m.doc.rows /\ list = items(m)
  OBVIOUS
<1>5. rows \in Seq(Slugs) /\ Len(rows) \in Nat \ {0} /\ DOMAIN rows = 1 .. Len(rows)
  BY <1>3, <1>4, EmptySeq, LenProperties
<1>6. ASSUME NEW n \in DOMAIN rows
      PROVE  Meant(m.inst, m.doc, n) \in Slugs /\ MeantOrder(m.inst, m.doc, n) \in Int
  <2>1. m.doc.rows[n] \in Slugs /\ m.doc.orders[n] \in Int \cup {None}
    BY <1>3, <1>4, <1>5, <1>6, ElementOfSeq
  <2> QED
    BY <1>3, <2>1, LineTyped
<1>11. list \in [1 .. Len(rows) -> [slug : Slugs, ord : Int]]
  BY <1>4, <1>5, <1>6
<1>12. list \in Seq([slug : Slugs, ord : Int]) /\ Len(list) >= 1
  <2>1. PICK len, S : len = Len(rows) /\ S = [slug : Slugs, ord : Int]
    OBVIOUS
  <2>2. len \in Nat /\ len >= 1 /\ list \in [1 .. len -> S]
    BY <1>5, <1>11, <2>1
  <2>3. list \in Seq(S) /\ Len(list) = len
    BY <2>2, TabulatedSeq
  <2> QED
    BY <2>1, <2>2, <2>3
<1>13. PICK d : d = db
  OBVIOUS
<1>14. JobTyped(rec) /\ Owned(rec, d.aown)
  <2>1. CASE rec = Ended("failed")
    BY <2>1, EndedTyped
  <2>2. CASE rec = [Idle EXCEPT !.pc = "row", !.kind = "jsonl", !.inst = m.inst,
                                !.items = items(m)]
    <3>1. PICK pc, kind, inst, rels, owner, aown :
            /\ pc = "row" /\ kind = "jsonl" /\ inst = m.inst /\ rels = {}
            /\ owner = None /\ aown = d.aown
      OBVIOUS
    <3>2. rec = [pc |-> pc, kind |-> kind, inst |-> inst, owner |-> owner,
                 items |-> list, i |-> 1, rels |-> rels, read |-> {}, edges |-> {},
                 left |-> {}, calm |-> TRUE, undone |-> FALSE]
      <4> HIDE DEF items
      <4> QED
        BY <1>4, <2>2, <3>1 DEF Idle
    <3>3. /\ Related(rels) /\ inst \in Instances /\ pc \in {"link", "row", "own"}
          /\ pc \in {"row", "own"} => Len(list) >= 1
          /\ pc = "own" => owner \in Owners /\ kind = "create" /\ Len(list) = 1
          /\ pc = "row" /\ kind \notin {"markdown", "jsonl"} =>
               owner \in Owners /\ kind \in {"replace", "keep"}
          /\ pc = "link" \/ kind \in {"markdown", "jsonl"} => owner = None
      BY <1>3, <1>12, <3>1, FS_EmptySet DEF Related
    <3>4. JobTyped(rec) /\ Owned(rec, aown)
      BY <1>12, <3>2, <3>3, BegunTyped, ZenonT(60)
    <3> QED
      BY <3>1, <3>4
  <2> QED
    BY <1>2, <2>1, <2>2
<1>15. StoresAll(wk[w], rec, d)
  BY <1>2 DEF Begin, StoresAll, Free, Over
<1>16. TablesTyped(d) /\ UndoesOnly(d, {}) /\ OrdersKept(db.ord, d.ord)
  BY <1>13, DbUnchanged
<1>17. Write(w, rec, d, {}, {})
  BY <1>2, <1>13
<1> QED
  BY <1>2, <1>14, <1>15, <1>16, <1>17, RowWrite

\* The rows of a request that is past its rows.
LEMMA PastRows ==
  ASSUME RowsInv, NEW w \in Workers, wk[w].pc \in {"merge", "template", "check", "edges"}
  PROVE  /\ JobTyped(wk[w]) /\ Owned(wk[w], db.aown) /\ ~Over(wk[w])
         /\ ClaimedItems(wk[w]) = DOMAIN wk[w].items
         /\ RowsOf(wk[w]) \subseteq Slugs /\ IsFiniteSet(RowsOf(wk[w]))
<1>1. JobTyped(wk[w]) /\ Owned(wk[w], db.aown) /\ ~Over(wk[w])
  BY DEF RowsInv, Over
<1>2. ClaimedItems(wk[w]) = DOMAIN wk[w].items
  BY DEF ClaimedItems
<1>3. PICK items : items = wk[w].items
  OBVIOUS
<1>4. items \in Seq([slug : Slugs, ord : Int])
  BY <1>1, <1>3 DEF JobTyped
<1>5. PICK S : S = [slug : Slugs, ord : Int]
  OBVIOUS
<1>6. items \in Seq(S)
  BY <1>4, <1>5
<1>7. DOMAIN items = 1 .. Len(items) /\ items \in [1 .. Len(items) -> S]
  BY <1>6, LenProperties
<1>8. \A n \in DOMAIN items : items[n] \in S
  BY <1>7
<1>9. \A n \in DOMAIN items : items[n].slug \in Slugs
  BY <1>8, <1>5
<1>10. IsFiniteSet({items[n].slug : n \in DOMAIN items})
  <2>1. PICK nums : nums = DOMAIN items
    OBVIOUS
  <2>2. Len(items) \in Nat /\ nums = 1 .. Len(items)
    BY <1>6, <1>7, <2>1, LenProperties
  <2>3. IsFiniteSet(nums)
    BY <2>2, FS_Interval
  <2>4. PICK f : f = [n \in nums |-> items[n].slug]
    OBVIOUS
  <2>5. IsFiniteSet({f[n] : n \in nums})
    BY <2>3, ImageFinite
  <2>6. {f[n] : n \in nums} = {items[n].slug : n \in nums}
    BY <2>4
  <2> QED
    BY <2>1, <2>5, <2>6
<1> QED
  BY <1>1, <1>2, <1>3, <1>9, <1>10 DEF RowsOf

\* Such a request goes on with the same rows.
LEMMA OnwardTyped ==
  ASSUME NEW rec, JobTyped(rec), NEW aown, Owned(rec, aown), ~Over(rec),
         ClaimedItems(rec) = DOMAIN rec.items,
         NEW next, IsJob(next), next.pc \in {"template", "check", "edges"},
         next.kind = rec.kind, next.inst = rec.inst, next.owner = rec.owner,
         next.items = rec.items, Related(next.rels), next.undone = rec.undone
  PROVE  JobTyped(next) /\ Owned(next, aown) /\ next.pc # "ok"
<1>1. JobTyped(next)
  BY DEF JobTyped
<1>2. ClaimedItems(next) = DOMAIN rec.items
  BY DEF ClaimedItems
<1>3. Owned(next, aown)
  BY <1>2 DEF Owned
<1> QED
  BY <1>1, <1>3

\* The relationships of an import.
LEMMA MergeRows ==
  ASSUME RowsInv, NEW w \in Workers, MergeLineage(w) \/ ReplaceTemplate(w)
  PROVE  RowStepOK
<1>1. UNCHANGED calls /\ wk[w].pc \in {"merge", "template"}
  BY DEF MergeLineage, ReplaceTemplate, At
<1>2. PICK rec : rec = wk[w]
  OBVIOUS
<1>3. /\ JobTyped(rec) /\ Owned(rec, db.aown) /\ ~Over(rec)
      /\ ClaimedItems(rec) = DOMAIN rec.items
      /\ RowsOf(rec) \subseteq Slugs /\ IsFiniteSet(RowsOf(rec))
  BY <1>1, <1>2, PastRows
<1>4. TablesTyped(db)
  BY DEF RowsInv
<1>5. CASE MergeLineage(w)
  <2>1. PICK loaded, merged, d :
          /\ loaded = Loaded(db) /\ merged = Merged(RowsOf(rec), rec.rels, Loaded(db), db.trel)
          /\ d = db
    OBVIOUS
  <2>2. PICK e1, e2, next : /\ e1 = [rec EXCEPT !.pc = "template"]
                            /\ e2 = [e1 EXCEPT !.read = loaded]
                            /\ next = [e2 EXCEPT !.rels = merged]
    OBVIOUS
  <2>3. e1.rels = rec.rels /\ IsJob(e1) /\ e1.pc = "template" /\ e1.kind = rec.kind
        /\ e1.inst = rec.inst /\ e1.owner = rec.owner /\ e1.items = rec.items
        /\ e1.undone = rec.undone
    BY <1>3, <2>2, MovedOn
  <2>4. e2.rels = rec.rels /\ IsJob(e2) /\ e2.pc = "template" /\ e2.kind = rec.kind
        /\ e2.inst = rec.inst /\ e2.owner = rec.owner /\ e2.items = rec.items
        /\ e2.undone = rec.undone
    BY <2>2, <2>3 DEF IsJob
  <2>5. next.rels = merged /\ IsJob(next) /\ next.pc = "template" /\ next.kind = rec.kind
        /\ next.inst = rec.inst /\ next.owner = rec.owner /\ next.items = rec.items
        /\ next.undone = rec.undone
    BY <2>2, <2>4 DEF IsJob
  <2>6. Write(w, next, d, {}, {})
    BY <1>2, <1>5, <2>1, <2>2, <2>4 DEF MergeLineage
  <2>7. Related(merged)
    <3>1. PICK subjects, incoming, stored :
            subjects = RowsOf(rec) /\ incoming = rec.rels /\ stored = db.trel
      OBVIOUS
    <3>2. /\ Related(incoming) /\ Related(stored) /\ Related(loaded)
          /\ subjects \subseteq Slugs /\ IsFiniteSet(subjects)
      BY <1>3, <1>4, <2>1, <3>1, RelatedTogether DEF JobTyped, TablesTyped, Loaded
    <3>3. Related(Merged(subjects, incoming, loaded, stored))
      BY <3>2, MergedTyped
    <3> QED
      BY <2>1, <3>1, <3>3
  <2>8. PICK aown : aown = d.aown
    OBVIOUS
  <2>9. JobTyped(next) /\ Owned(next, aown) /\ next.pc # "ok"
    BY <1>3, <2>1, <2>5, <2>7, <2>8, OnwardTyped
  <2>10. TablesTyped(d) /\ UndoesOnly(d, {}) /\ OrdersKept(db.ord, d.ord)
    BY <2>1, DbUnchanged
  <2>11. StoresAll(wk[w], next, d)
    BY <2>9 DEF StoresAll
  <2> QED
    BY <1>1, <2>6, <2>8, <2>9, <2>10, <2>11, RowWrite
<1>6. CASE ReplaceTemplate(w)
  <2>1. PICK trel, next, d :
          /\ trel = {r \in db.trel : r.subject \notin RowsOf(rec)} \cup rec.rels
          /\ next = [rec EXCEPT !.pc = "check"] /\ d = [db EXCEPT !.trel = trel]
    OBVIOUS
  <2>2. Write(w, next, d, {}, {})
    BY <1>2, <1>6, <2>1 DEF ReplaceTemplate, WithTemplate
  <2>3. next.rels = rec.rels /\ IsJob(next) /\ next.pc = "check" /\ next.kind = rec.kind
        /\ next.inst = rec.inst /\ next.owner = rec.owner /\ next.items = rec.items
        /\ next.undone = rec.undone
    BY <1>3, <2>1, MovedOn
  <2>4. TablesTyped(d) /\ d.ord = db.ord /\ d.aown = db.aown
    <3>1. Related(trel)
      <4>1. PICK old : old = {r \in db.trel : r.subject \notin RowsOf(rec)}
        OBVIOUS
      <4>2. Related(old) /\ Related(rec.rels)
        BY <1>3, <1>4, <4>1, RelatedTogether DEF TablesTyped, JobTyped
      <4> QED
        BY <2>1, <4>1, <4>2, RelatedTogether
    <3> QED
      BY <1>4, <2>1, <3>1, RelationshipsTyped
  <2>5. UndoesOnly(d, {}) /\ OrdersKept(db.ord, d.ord)
    BY <2>4, KeepsOwners DEF OrdersKept
  <2>6. PICK aown : aown = d.aown
    OBVIOUS
  <2>7. Related(rec.rels)
    BY <1>3 DEF JobTyped
  <2>8. JobTyped(next) /\ Owned(next, aown) /\ next.pc # "ok"
    BY <1>3, <2>3, <2>4, <2>6, <2>7, OnwardTyped
  <2>9. StoresAll(wk[w], next, d)
    BY <2>8 DEF StoresAll
  <2> QED
    BY <1>1, <2>2, <2>4, <2>5, <2>6, <2>8, <2>9, RowWrite
<1> QED
  BY <1>5, <1>6

\* The edges of an import.
LEMMA EdgeRows ==
  ASSUME RowsInv, NEW w \in Workers, CheckEdges(w) \/ ReplaceEdges(w)
  PROVE  RowStepOK
<1>1. PICK rec : rec = wk[w]
  OBVIOUS
<1>2. TablesTyped(db)
  BY DEF RowsInv
<1>3. CASE CheckEdges(w)
  <2>1. UNCHANGED calls /\ wk[w].pc = "check"
    BY <1>3 DEF CheckEdges, At
  <2>2. \E edges : Write(w, [wk[w] EXCEPT !.pc = "edges", !.left = RowsOf(wk[w]),
                                          !.edges = edges], db, {}, {})
    BY <1>3 DEF CheckEdges
  <2>3. PICK edges : Write(w, [rec EXCEPT !.pc = "edges", !.left = RowsOf(rec),
                                          !.edges = edges], db, {}, {})
    BY <1>1, <2>2
  <2>4. /\ JobTyped(rec) /\ Owned(rec, db.aown) /\ ~Over(rec)
        /\ ClaimedItems(rec) = DOMAIN rec.items
    BY <1>1, <2>1, PastRows
  <2>5. PICK left, e1, e2, next, d :
          /\ left = RowsOf(rec) /\ e1 = [rec EXCEPT !.pc = "edges"]
          /\ e2 = [e1 EXCEPT !.left = left] /\ next = [e2 EXCEPT !.edges = edges] /\ d = db
    OBVIOUS
  <2>6. e1.rels = rec.rels /\ IsJob(e1) /\ e1.pc = "edges" /\ e1.kind = rec.kind
        /\ e1.inst = rec.inst /\ e1.owner = rec.owner /\ e1.items = rec.items
        /\ e1.undone = rec.undone
    BY <2>4, <2>5, MovedOn
  <2>7. e2.rels = rec.rels /\ IsJob(e2) /\ e2.pc = "edges" /\ e2.kind = rec.kind
        /\ e2.inst = rec.inst /\ e2.owner = rec.owner /\ e2.items = rec.items
        /\ e2.undone = rec.undone
    BY <2>5, <2>6 DEF IsJob
  <2>8. next.rels = rec.rels /\ IsJob(next) /\ next.pc = "edges" /\ next.kind = rec.kind
        /\ next.inst = rec.inst /\ next.owner = rec.owner /\ next.items = rec.items
        /\ next.undone = rec.undone
    BY <2>5, <2>7 DEF IsJob
  <2>9. Write(w, next, d, {}, {})
    BY <2>3, <2>5
  <2>10. PICK aown : aown = d.aown
    OBVIOUS
  <2>11. Related(rec.rels)
    BY <2>4 DEF JobTyped
  <2>12. JobTyped(next) /\ Owned(next, aown) /\ next.pc # "ok"
    BY <2>4, <2>5, <2>8, <2>10, <2>11, OnwardTyped
  <2>13. TablesTyped(d) /\ UndoesOnly(d, {}) /\ OrdersKept(db.ord, d.ord)
    BY <2>5, DbUnchanged
  <2>14. StoresAll(wk[w], next, d)
    BY <2>12 DEF StoresAll
  <2> QED
    BY <2>1, <2>9, <2>10, <2>12, <2>13, <2>14, RowWrite
<1>4. CASE ReplaceEdges(w)
  <2>1. PICK slug \in wk[w].left : \E edges :
          LET a == <<slug, wk[w].inst>>
          IN  /\ At(w, "edges")
              /\ \A e \in edges : e.subject = a
              /\ edges = {} \/ \A e \in edges : {a, e.target} \subseteq db.rows
              /\ Write(w, IF wk[w].left = {slug} THEN Ended("ok")
                          ELSE [wk[w] EXCEPT !.left = @ \ {slug}],
                       WithEdges(db, a, edges), {wk[w].inst}, {})
    BY <1>4 DEF ReplaceEdges
  <2>2. PICK edges, a :
          /\ a = <<slug, wk[w].inst>>
          /\ At(w, "edges")
          /\ \A e \in edges : e.subject = a
          /\ edges = {} \/ \A e \in edges : {a, e.target} \subseteq db.rows
          /\ Write(w, IF wk[w].left = {slug} THEN Ended("ok")
                      ELSE [wk[w] EXCEPT !.left = @ \ {slug}],
                   WithEdges(db, a, edges), {wk[w].inst}, {})
    BY <2>1
  <2>3. UNCHANGED calls /\ rec.pc = "edges"
    BY <1>1, <2>2 DEF At
  <2>4. /\ JobTyped(rec) /\ Owned(rec, db.aown) /\ ~Over(rec)
        /\ ClaimedItems(rec) = DOMAIN rec.items
    BY <1>1, <2>3, PastRows
  <2>5. PICK erel, d, left, on, next, inst :
          /\ erel = {e \in db.erel : e.subject # a} \cup edges
          /\ d = [db EXCEPT !.erel = erel]
          /\ left = rec.left \ {slug} /\ on = [rec EXCEPT !.left = left]
          /\ next = IF rec.left = {slug} THEN Ended("ok") ELSE on
          /\ inst = {rec.inst}
    OBVIOUS
  <2>6. Write(w, next, d, inst, {})
    BY <1>1, <2>2, <2>5 DEF WithEdges
  <2>7. TablesTyped(d) /\ d.ord = db.ord /\ d.aown = db.aown
    <3>1. \A e \in erel : e.subject \in db.rows /\ e.target \in db.rows
      BY <1>2, <2>2, <2>5 DEF TablesTyped
    <3> QED
      BY <1>2, <2>5, <3>1, RelationshipsTyped
  <2>8. UndoesOnly(d, {}) /\ OrdersKept(db.ord, d.ord)
    BY <2>7, KeepsOwners DEF OrdersKept
  <2>9. on.rels = rec.rels /\ IsJob(on) /\ on.pc = "edges" /\ on.kind = rec.kind
        /\ on.inst = rec.inst /\ on.owner = rec.owner /\ on.items = rec.items
        /\ on.undone = rec.undone
    BY <2>3, <2>4, <2>5 DEF JobTyped, IsJob
  <2>10. PICK aown : aown = d.aown
    OBVIOUS
  <2>11. Related(rec.rels)
    BY <2>4 DEF JobTyped
  <2>12. JobTyped(on) /\ Owned(on, aown)
    BY <2>4, <2>7, <2>9, <2>10, <2>11, OnwardTyped
  <2>13. JobTyped(next) /\ Owned(next, aown)
    BY <2>5, <2>12, EndedTyped
  <2>14. StoresAll(rec, next, d)
    BY <2>4, <2>7 DEF StoresAll, Owned
  <2> QED
    BY <1>1, <2>3, <2>6, <2>7, <2>8, <2>10, <2>13, <2>14, RowWrite
<1> QED
  BY <1>3, <1>4

\* A failing ReplaceRelationships ends the request.
LEMMA EdgeFailRows ==
  ASSUME RowsInv, NEW w \in Workers, ReplaceEdgesFails(w)
  PROVE  RowStepOK
<1>1. /\ db' = db /\ wk' = [wk EXCEPT ![w] = Ended("failed")] /\ UNCHANGED calls
  BY DEF ReplaceEdgesFails, At
<1>2. ASSUME NEW u \in Workers
      PROVE  /\ JobTyped(wk'[u]) /\ Owned(wk'[u], db.aown) /\ StoresAll(wk[u], wk'[u], db)
  <2>1. CASE u = w
    <3>1. wk'[u] = Ended("failed")
      BY <1>1, <2>1 DEF RowsInv
    <3> QED
      BY <3>1, EndedTyped DEF StoresAll
  <2>2. CASE u # w
    <3>1. wk'[u] = wk[u]
      BY <1>1, <2>2 DEF RowsInv
    <3> QED
      BY <3>1 DEF RowsInv, StoresAll, Over
  <2> QED
    BY <2>1, <2>2
<1>3. wk' = [u \in Workers |-> wk'[u]]
  BY <1>1 DEF RowsInv
<1>4. RowsInv'
  BY <1>1, <1>2, <1>3 DEF RowsInv
<1>5. OrderStep
  BY <1>1 DEF OrderStep, OrdersKept
<1> QED
  BY <1>1, <1>2, <1>4, <1>5 DEF RowStepOK

-----------------------------------------------------------------------------
(* The behaviour: types and success.                                       *)

\* What a crash and the restart do to the orders: nothing, or they leave the
\* section of a row half repacked, or the row has got its order, in the call
\* or at the restart.
RestartOrders ==
  \/ db'.ord = db.ord
  \/ DOMAIN db.ord = {}
  \/ \E a \in Addresses, n \in Int :
       /\ n > 0 => Ordered(a)
       /\ \/ ResolveAddressOrder(db.ord, a, n).ord # db.ord
             /\ \E k \in Nat : db'.ord = HalfRepacked(db, a, k)
          \/ db'.ord = OrderedRow(db.ord, a, n)
          \/ a \notin DOMAIN db.ord
             /\ db'.ord = OrderedRow(ResolveAddressOrder(db.ord, a, n).ord, a, 0)

\* A crash inside UpsertSlug of a row, and the restart.
LEMMA TornOpened ==
  ASSUME NEW d, TablesTyped(d), NEW a \in Addresses, NEW n \in Int, NEW e \in Torn(d, a, n)
  PROVE  /\ TablesTyped(Opened(e))
         /\ \/ Opened(e).ord = d.ord
            \/ DOMAIN d.ord = {}
            \/ /\ ResolveAddressOrder(d.ord, a, n).ord # d.ord
               /\ \E k \in Nat : Opened(e).ord = HalfRepacked(d, a, k)
            \/ Opened(e).ord = OrderedRow(d.ord, a, n)
            \/ /\ a \notin DOMAIN d.ord
               /\ Opened(e).ord = OrderedRow(ResolveAddressOrder(d.ord, a, n).ord, a, 0)
<1>1. PICK o : o = ResolveAddressOrder(d.ord, a, n).ord
  OBVIOUS
<1>2. /\ HalfTyped(e, a)
      /\ \/ DOMAIN e.ord = e.rows /\ e.ord = d.ord
         \/ /\ DOMAIN e.ord = e.rows
            /\ o # d.ord
            /\ \E k \in Nat : e.ord = HalfRepacked(d, a, k)
         \/ DOMAIN e.ord = e.rows /\ e.ord = OrderedRow(d.ord, a, n)
         \/ e.rows = d.rows \cup {a} /\ e.ord = o
  BY <1>1, TornTyped
<1>3. PICK f : f = Opened(e)
  OBVIOUS
<1>4. /\ TablesTyped(f)
      /\ DOMAIN e.ord = e.rows => f.ord = e.ord
      /\ DOMAIN e.ord # e.rows /\ DOMAIN e.ord # {} => f.ord = OrderedRow(e.ord, a, 0)
  BY <1>2, <1>3, OpenedTyped
<1>5. DOMAIN o = DOMAIN d.ord
  BY <1>1, ResolveType DEF TablesTyped, Addresses
<1>6. CASE DOMAIN e.ord = e.rows /\ ~(e.rows = d.rows \cup {a} /\ e.ord = o)
  BY <1>1, <1>2, <1>3, <1>4, <1>6
<1>7. CASE e.rows = d.rows \cup {a} /\ e.ord = o
  <2>1. DOMAIN d.ord = d.rows
    BY DEF TablesTyped
  <2>2. CASE a \notin DOMAIN d.ord
    BY <1>1, <1>3, <1>4, <1>5, <1>7, <2>1, <2>2
  <2>3. CASE a \in DOMAIN d.ord
    <3>1. o = d.ord
      BY <1>1, <2>3 DEF ResolveAddressOrder, TablesTyped, Orders
    <3> QED
      BY <1>3, <1>4, <1>7, <2>1, <2>3, <3>1
  <2> QED
    BY <2>2, <2>3
<1> QED
  BY <1>2, <1>6, <1>7

\* A restart.
LEMMA RestartRows ==
  ASSUME RowsInv, CrashRestart
  PROVE  /\ RowsInv' /\ (\A u \in Workers : StoresAll(wk[u], wk'[u], db'))
         /\ RestartOrders /\ Crashed
<1>1. TablesTyped(db)
  BY DEF RowsInv
<1>2. wk' = [w \in Workers |-> Idle] /\ calls' = calls
  BY DEF CrashRestart
<1>3. PICK rec : rec = Ended("idle")
  OBVIOUS
<1>4. rec = Idle
  BY <1>3 DEF Ended, Idle
<1>5. \A aown : JobTyped(rec) /\ Owned(rec, aown) /\ rec.pc = "idle"
  BY <1>3, EndedTyped
<1>6. ASSUME NEW u \in Workers
      PROVE  JobTyped(wk'[u]) /\ Owned(wk'[u], db'.aown) /\ StoresAll(wk[u], wk'[u], db')
  <2>1. wk'[u] = rec
    BY <1>2, <1>4
  <2> QED
    BY <1>5, <2>1 DEF StoresAll
<1>7. TablesTyped(db') /\ RestartOrders
  <2>1. PICK d \in {db} \cup UNION {Torn(db, Here(w), Item(w).ord) :
               w \in {w \in Workers : wk[w].pc = "row" /\ wk[w].kind # "markdown"}} :
          db' = Opened(d)
    BY DEF CrashRestart
  <2>2. CASE d = db
    <3>1. PICK a, e : e = db /\ a = Template
      OBVIOUS
    <3>2. HalfTyped(e, a) /\ DOMAIN e.ord = e.rows
      BY <1>1, <3>1 DEF HalfTyped, TablesTyped
    <3>3. TablesTyped(Opened(e)) /\ Opened(e).ord = e.ord
      BY <3>2, OpenedTyped
    <3> QED
      BY <2>1, <2>2, <3>1, <3>3 DEF RestartOrders
  <2>3. CASE \E w \in Workers : /\ wk[w].pc = "row"
                                /\ d \in Torn(db, Here(w), Item(w).ord)
    <3>1. PICK w \in Workers : wk[w].pc = "row" /\ d \in Torn(db, Here(w), Item(w).ord)
      BY <2>3
    <3>2. PICK a, n, e, ord : a = Here(w) /\ n = Item(w).ord /\ e = d /\ ord = db
      OBVIOUS
    <3>3. a \in Addresses /\ n \in Int
      BY <3>1, <3>2, HereTyped
    <3>4. n > 0 => Ordered(a)
      <4>1. wk'[w].pc = "idle"
        BY <1>2, <1>4, <1>5
      <4>2. wk[w] # wk'[w]
        BY <3>1, <4>1
      <4> QED
        BY <3>1, <3>2, <4>2 DEF Ordered
    <3>5. /\ TablesTyped(Opened(e))
          /\ \/ Opened(e).ord = ord.ord
             \/ DOMAIN ord.ord = {}
             \/ /\ ResolveAddressOrder(ord.ord, a, n).ord # ord.ord
                /\ \E k \in Nat : Opened(e).ord = HalfRepacked(ord, a, k)
             \/ Opened(e).ord = OrderedRow(ord.ord, a, n)
             \/ /\ a \notin DOMAIN ord.ord
                /\ Opened(e).ord = OrderedRow(ResolveAddressOrder(ord.ord, a, n).ord, a, 0)
      BY <1>1, <3>1, <3>2, <3>3, TornOpened
    <3>6. db' = Opened(e)
      BY <2>1, <3>2
    <3> QED
      BY <3>2, <3>3, <3>4, <3>5, <3>6 DEF RestartOrders
  <2> QED
    BY <2>1, <2>2, <2>3
<1>8. wk' = [u \in Workers |-> wk'[u]] /\ calls' \in 0 .. MaxCalls
  BY <1>2 DEF RowsInv
<1> QED
  BY <1>2, <1>6, <1>7, <1>8 DEF RowsInv, Crashed
\* A store without rows.
LEMMA RowsInit == Init => RowsInv
<1> SUFFICES ASSUME Init PROVE RowsInv
  OBVIOUS
<1>1. PICK d : d = [rows |-> {}, ord |-> [a \in {} |-> 0], aown |-> {}, sown |-> {},
                    trel |-> {}, erel |-> {}]
  OBVIOUS
<1>2. PICK ord : ord = [a \in {} |-> 0]
  OBVIOUS
<1>3. DOMAIN ord = {} /\ Orders(ord)
  BY <1>2, FS_EmptySet DEF Orders
<1>4. IsTables(d) /\ d.rows = {} /\ d.ord = ord /\ d.aown = {} /\ d.sown = {}
      /\ d.trel = {} /\ d.erel = {}
  BY <1>1, <1>2 DEF IsTables
<1>5. TablesTyped(d)
  BY <1>3, <1>4, FS_EmptySet DEF TablesTyped, Related
<1>6. PICK rec : rec = Ended("idle")
  OBVIOUS
<1>7. rec = Idle
  BY <1>6 DEF Ended, Idle
<1>8. \A aown : JobTyped(rec) /\ Owned(rec, aown)
  BY <1>6, EndedTyped
<1>9. db = d /\ wk = [w \in Workers |-> rec] /\ calls = MaxCalls
  BY <1>1, <1>7 DEF Init
<1>10. wk = [w \in Workers |-> wk[w]] /\ \A w \in Workers : wk[w] = rec
  BY <1>9
<1>11. calls \in 0 .. MaxCalls
  BY <1>9, RequestAssumption
<1> QED
  BY <1>5, <1>8, <1>9, <1>10, <1>11 DEF RowsInv

\* Every step keeps the invariant, stores what it answers with success, and
\* writes the orders in one of the ways above.
LEMMA RowsNext ==
  ASSUME RowsInv, [Next]_vars
  PROVE  /\ RowsInv'
         /\ \/ UNCHANGED vars
            \/ RowStepOK
            \/ /\ \A u \in Workers : StoresAll(wk[u], wk'[u], db')
               /\ RestartOrders /\ Crashed
<1>1. CASE UNCHANGED vars
  BY <1>1 DEF vars, RowsInv
<1>2. CASE CrashRestart
  BY <1>2, RestartRows
<1>3. ASSUME NEW w \in Workers,
             \/ HandleCreateSlug(w) \/ HandleDeleteInstance(w)
             \/ HandleDeleteChecklist(w)
             \/ CheckLink(w) \/ InsertTemplateRelationship(w)
             \/ BeginImport(w) \/ ImportRow(w) \/ ClaimRow(w)
             \/ MergeLineage(w) \/ ReplaceTemplate(w)
             \/ CheckEdges(w) \/ ReplaceEdges(w) \/ ReplaceEdgesFails(w)
             \/ BeginJsonl(w)
      PROVE  RowStepOK
  BY <1>3, CreateRows, DeleteRows, LinkRows, ImportBegins, ImportRows, ClaimRows,
     MergeRows, EdgeRows, EdgeFailRows, JsonlBegins
<1>4. RowStepOK => RowsInv'
  BY DEF RowStepOK
<1> QED
  BY <1>1, <1>2, <1>3, <1>4 DEF Next

\* The tables always refer to each other as their foreign keys say, whatever
\* requests interleave and wherever the process dies; after a restart every
\* row has an order again.
THEOREM RowsAreTyped == Spec => []TypeOK
<1>1. RowsInv => TypeOK
  <2> SUFFICES ASSUME RowsInv PROVE TypeOK
    OBVIOUS
  <2>1. TablesTyped(db) /\ calls \in 0 .. MaxCalls /\ \A w \in Workers : JobTyped(wk[w])
    BY DEF RowsInv
  <2>2. db.rows \subseteq Addresses
    BY <2>1 DEF TablesTyped, Orders, Addresses
  <2>3. \A a \in db.rows : db.ord[a] \in Nat \ {0}
    BY <2>1 DEF TablesTyped, Orders
  <2>4. \A w \in Workers : wk[w].pc \in {"idle", "ok", "failed", "link", "row",
                                      "own", "merge", "template", "check", "edges"}
    BY <2>1 DEF JobTyped
  <2> QED
    BY <2>1, <2>2, <2>3, <2>4 DEF TypeOK, TablesTyped, Related
<1>2. RowsInv /\ [Next]_vars => RowsInv'
  BY RowsNext
<1> QED
  BY <1>1, <1>2, RowsInit, PTL DEF Spec

\* A request that is answered with success has its rows, and its source owns
\* them: handle_create_slug with a pack and the workspace imports, whatever
\* other requests did between UpsertSlug and UpsertOwnership, but for those
\* that delete the rows of the instance or source on purpose.
THEOREM SuccessIsStored == Spec => SuccessMeansStored
<1> DEFINE Stored ==
      \A w \in Workers :
        Succeeds(w) /\ wk[w].owner # None /\ ~wk[w].undone =>
          \A s \in RowsOf(wk[w]) : <<<<s, wk[w].inst>>, wk[w].owner>> \in db'.aown
<1>1. ASSUME RowsInv, [Next]_vars PROVE Stored \/ UNCHANGED vars
  <2>1. CASE \A u \in Workers : StoresAll(wk[u], wk'[u], db')
    <3> SUFFICES ASSUME NEW w \in Workers, Succeeds(w), wk[w].owner # None, ~wk[w].undone,
                        NEW s \in RowsOf(wk[w])
                 PROVE  <<<<s, wk[w].inst>>, wk[w].owner>> \in db'.aown
      BY DEF Stored
    <3>1. PICK n \in DOMAIN wk[w].items : s = wk[w].items[n].slug
      BY DEF RowsOf
    <3> QED
      BY <2>1, <3>1 DEF StoresAll, Succeeds, Over
  <2> QED
    BY <1>1, <2>1, RowsNext DEF RowStepOK
<1>2. RowsInv /\ [Next]_vars => RowsInv'
  BY RowsNext
<1>3. RowsInv /\ [Next]_vars => [Stored]_vars
  BY <1>1
<1> QED
  BY <1>2, <1>3, RowsInit, PTL DEF Spec, SuccessMeansStored, Stored

-----------------------------------------------------------------------------
(* The behaviour: the order of the rows of a section.                      *)

\* What SectionOrderKept says of the orders before and after a step, where
\* `loose` are the rows the step may order as it is told.
SectionsKept(ord, new, loose, cut) ==
  \A a \in DOMAIN new \ loose : \A b \in (DOMAIN ord \cap DOMAIN new) \ loose :
    SameSection(a, b) =>
      IF a \in DOMAIN ord
      THEN ord[a] < ord[b] /\ (cut => RepackPlace(ord, a) < ord[b]) => new[a] < new[b]
      ELSE TemplateOrder(ord, a[1]) = new[a] \/ new[b] < new[a]

\* A row is stored.
LEMMA StoredInOrder ==
  ASSUME NEW ord, Orders(ord), NEW c \in Slugs \X Instances, NEW n \in Int,
         NEW loose, n > 0 => c \in loose, NEW cut
  PROVE  SectionsKept(ord, OrderedRow(ord, c, n), loose, cut)
<1>1. PICK new : new = OrderedRow(ord, c, n)
  OBVIOUS
<1>2. DOMAIN new = DOMAIN ord \cup {c}
  BY <1>1, OrderedRowType
<1>3. ASSUME NEW a \in DOMAIN new \ loose, NEW b \in (DOMAIN ord \cap DOMAIN new) \ loose,
             SameSection(a, b)
      PROVE  IF a \in DOMAIN ord
             THEN ord[a] < ord[b] => new[a] < new[b]
             ELSE TemplateOrder(ord, a[1]) = new[a] \/ new[b] < new[a]
  <2>1. CASE a \in DOMAIN ord
    <3>1. a = c \/ b = c => ~(n > 0)
      OBVIOUS
    <3>2. ord[a] < ord[b] => new[a] < new[b]
      BY <1>1, <1>3, <2>1, <3>1, OrderedRowKeeps
    <3> QED
      BY <2>1, <3>2
  <2>2. CASE a \notin DOMAIN ord
    <3>1. a = c /\ ~(n > 0)
      BY <1>2, <2>2
    <3>2. TemplateOrder(ord, a[1]) = new[a] \/ new[b] < new[a]
      BY <1>1, <1>3, <2>2, <3>1, OrderedRowLast
    <3> QED
      BY <2>2, <3>2
  <2> QED
    BY <2>1, <2>2
<1> QED
  BY <1>1, <1>3 DEF SectionsKept

\* A crash leaves a section half repacked.
LEMMA CutInOrder ==
  ASSUME NEW ord, Orders(ord), NEW c \in Slugs \X Instances, NEW n \in Int,
         ResolveAddressOrder(ord, c, n).ord # ord, NEW k \in Nat, NEW rows, NEW new,
         rows = SectionRows(ord, c[2], SectionOf[c[1]]),
         new = RepackedTo(ord, rows, SectionBase(ord, rows), TightGap(rows), k), NEW loose
  PROVE  SectionsKept(ord, new, loose, TRUE)
<1>1. PICK base, gap : base = SectionBase(ord, rows) /\ gap = TightGap(rows)
  OBVIOUS
<1>2. /\ rows \subseteq DOMAIN ord /\ IsFiniteSet(rows)
      /\ base \in Nat /\ gap \in Nat \ {0}
  BY <1>1, ResolveRepacks
<1>3. new = RepackedTo(ord, rows, base, gap, k) /\ DOMAIN new = DOMAIN ord
  BY <1>1, <1>2, RepackType
<1>4. ASSUME NEW a \in DOMAIN ord, NEW b \in DOMAIN ord, SameSection(a, b), ord[a] < ord[b],
             RepackPlace(ord, a) < ord[b]
      PROVE  new[a] < new[b]
  <2>1. a \in rows <=> b \in rows
    BY <1>4 DEF SectionRows, SameSection
  <2>2. CASE a \in rows
    <3>1. SectionRows(ord, a[2], SectionOf[a[1]]) = rows
      BY <2>2 DEF SectionRows
    <3>2. RepackPlace(ord, a) = base + gap * Place(ord, rows, a)
      BY <1>1, <3>1 DEF RepackPlace
    <3> QED
      BY <1>2, <1>3, <1>4, <2>1, <2>2, <3>2, RepackKeepsOrder
  <2>3. CASE a \notin rows
    BY <1>3, <1>4, <2>1, <2>3, RepackLeavesOthers
  <2> QED
    BY <2>2, <2>3
<1> QED
  BY <1>3, <1>4 DEF SectionsKept

\* A restart gives the row its order that a crash kept from it.
LEMMA FilledInOrder ==
  ASSUME NEW ord, Orders(ord), NEW c \in Slugs \X Instances, NEW n \in Int, c \notin DOMAIN ord,
         NEW loose, NEW cut
  PROVE  SectionsKept(ord, OrderedRow(ResolveAddressOrder(ord, c, n).ord, c, 0), loose, cut)
<1>1. PICK o, new : o = ResolveAddressOrder(ord, c, n).ord /\ new = OrderedRow(o, c, 0)
  OBVIOUS
<1>2. DOMAIN o = DOMAIN ord /\ Orders(o)
  BY <1>1, ResolveType
<1>3. DOMAIN new = DOMAIN ord \cup {c}
  BY <1>1, <1>2, OrderedRowType
<1>4. ASSUME NEW a \in DOMAIN ord, NEW b \in DOMAIN ord, SameSection(a, b), ord[a] < ord[b]
      PROVE  new[a] < new[b]
  <2>1. o[a] < o[b]
    BY <1>1, <1>4, ResolveKeepsOrder
  <2> QED
    BY <1>1, <1>2, <1>4, <2>1, OrderedRowKeeps
<1>5. ASSUME NEW b \in DOMAIN ord, SameSection(c, b)
      PROVE  TemplateOrder(ord, c[1]) = new[c] \/ new[b] < new[c]
  <2>1. TemplateOrder(o, c[1]) = new[c] \/ new[b] < new[c]
    BY <1>1, <1>2, <1>5, OrderedRowLast
  <2>2. CASE o = ord
    BY <2>1, <2>2
  <2>3. CASE o # ord
    <3>1. PICK rows : rows = SectionRows(ord, c[2], SectionOf[c[1]])
      OBVIOUS
    <3>2. ~(TemplateOrder(ord, c[1]) > 0)
      BY <1>1, <2>3, <3>1, ResolveRepacks
    <3>3. <<c[1], Template>> \notin DOMAIN ord
      BY <3>2 DEF TemplateOrder, Orders
    <3>4. TemplateOrder(o, c[1]) = TemplateOrder(ord, c[1])
      BY <1>2, <3>3 DEF TemplateOrder
    <3> QED
      BY <2>1, <3>4
  <2> QED
    BY <2>2, <2>3
<1> QED
  BY <1>1, <1>3, <1>4, <1>5 DEF SectionsKept

\* Where no row is stored the orders stay.
LEMMA OrdersKeptInOrder ==
  ASSUME NEW ord, NEW new, OrdersKept(ord, new), NEW loose, NEW cut
  PROVE  SectionsKept(ord, new, loose, cut)
BY DEF OrdersKept, SectionsKept

\* The rows of a section keep their order through every request, repack,
\* crash and restart, and a new row comes behind them, unless the request or
\* the template says where a row stands (ResolveAddressOrder,
\* RepackSectionOrders, BackfillSlugOrder).  A crash in the middle of
\* RepackSectionOrders is the one step that needs a condition: rows that are
\* already repacked must not have passed rows that are not.
THEOREM SectionOrderIsKept == Spec => SectionOrderKept
<1> DEFINE Kept ==
      \A a \in DOMAIN db'.ord : ~Ordered(a) =>
        \A b \in DOMAIN db.ord \cap DOMAIN db'.ord :
          /\ a[2] = b[2] /\ SectionOf[a[1]] = SectionOf[b[1]] /\ ~Ordered(b)
          => IF a \in DOMAIN db.ord
             THEN /\ db.ord[a] < db.ord[b]
                  /\ Crashed => RepackPlace(db.ord, a) < db.ord[b]
                  => db'.ord[a] < db'.ord[b]
             ELSE \/ TemplateOrder(db.ord, a[1]) = db'.ord[a]
                  \/ db'.ord[b] < db'.ord[a]
<1> HIDE DEF Kept
<1>1. ASSUME RowsInv, [Next]_vars PROVE Kept \/ UNCHANGED vars
  <2>1. PICK ord, new, loose, cut :
          /\ ord = db.ord /\ new = db'.ord /\ loose = {a \in Addresses : Ordered(a)}
          /\ cut <=> Crashed
    OBVIOUS
  <2>2. Orders(ord)
    BY <1>1, <2>1 DEF RowsInv, TablesTyped
  <2>3. SectionsKept(ord, new, loose, cut) => Kept
    BY <2>1 DEF Kept, SectionsKept, SameSection
  <2>4. CASE OrderStep
    <3>1. CASE OrdersKept(db.ord, db'.ord)
      BY <2>1, <2>3, <3>1, OrdersKeptInOrder
    <3>2. CASE \E c \in Addresses, n \in Int :
                 /\ db'.ord = OrderedRow(db.ord, c, n)
                 /\ n > 0 => Ordered(c)
      <4>1. PICK c \in Addresses, n \in Int :
              /\ new = OrderedRow(ord, c, n)
              /\ n > 0 => c \in loose
        BY <2>1, <3>2
      <4>2. c \in Slugs \X Instances
        BY DEF Addresses
      <4>3. SectionsKept(ord, OrderedRow(ord, c, n), loose, cut)
        BY <2>2, <4>1, <4>2, StoredInOrder
      <4> QED
        BY <2>3, <4>1, <4>3
    <3> QED
      BY <2>4, <3>1, <3>2 DEF OrderStep
  <2>5. CASE RestartOrders /\ Crashed
    <3>1. CASE db'.ord = db.ord
      <4>1. OrdersKept(ord, new)
        BY <2>1, <3>1 DEF OrdersKept
      <4> QED
        BY <2>3, <4>1, OrdersKeptInOrder
    <3>2. CASE DOMAIN db.ord = {}
      BY <3>2 DEF Kept
    <3>3. CASE \E c \in Addresses, n \in Int :
                 /\ n > 0 => Ordered(c)
                 /\ \/ ResolveAddressOrder(db.ord, c, n).ord # db.ord
                       /\ \E k \in Nat : db'.ord = HalfRepacked(db, c, k)
                    \/ db'.ord = OrderedRow(db.ord, c, n)
                    \/ c \notin DOMAIN db.ord
                       /\ db'.ord = OrderedRow(ResolveAddressOrder(db.ord, c, n).ord, c, 0)
      <4>1. PICK c \in Addresses, n \in Int :
              /\ n > 0 => c \in loose
              /\ \/ ResolveAddressOrder(ord, c, n).ord # ord
                    /\ \E k \in Nat : new = HalfRepacked(db, c, k)
                 \/ new = OrderedRow(ord, c, n)
                 \/ c \notin DOMAIN ord
                    /\ new = OrderedRow(ResolveAddressOrder(ord, c, n).ord, c, 0)
        BY <2>1, <3>3
      <4>2. c \in Slugs \X Instances
        BY DEF Addresses
      <4>3. CASE ResolveAddressOrder(ord, c, n).ord # ord
                 /\ \E k \in Nat : new = HalfRepacked(db, c, k)
        <5>1. PICK k \in Nat : new = HalfRepacked(db, c, k)
          BY <4>3
        <5>2. PICK rows : rows = SectionRows(ord, c[2], SectionOf[c[1]])
          OBVIOUS
        <5>3. new = RepackedTo(ord, rows, SectionBase(ord, rows), TightGap(rows), k)
          BY <2>1, <5>1, <5>2 DEF HalfRepacked
        <5>4. SectionsKept(ord, new, loose, TRUE)
          BY <2>2, <4>2, <4>3, <5>2, <5>3, CutInOrder
        <5>5. SectionsKept(ord, new, loose, cut)
          BY <2>1, <2>5, <5>4 DEF SectionsKept
        <5> QED
          BY <2>3, <5>5
      <4>4. CASE new = OrderedRow(ord, c, n)
        <5>1. SectionsKept(ord, new, loose, cut)
          BY <2>2, <4>1, <4>2, <4>4, StoredInOrder
        <5> QED
          BY <2>3, <5>1
      <4>5. CASE c \notin DOMAIN ord
                 /\ new = OrderedRow(ResolveAddressOrder(ord, c, n).ord, c, 0)
        <5>1. SectionsKept(ord, new, loose, cut)
          BY <2>2, <4>2, <4>5, FilledInOrder
        <5> QED
          BY <2>3, <5>1
      <4> QED
        BY <4>1, <4>3, <4>4, <4>5
    <3> QED
      BY <2>5, <3>1, <3>2, <3>3 DEF RestartOrders
  <2> QED
    BY <1>1, <2>3, <2>4, <2>5, RowsNext DEF RowStepOK
<1>2. RowsInv /\ [Next]_vars => RowsInv'
  BY RowsNext
<1>3. RowsInv /\ [Next]_vars => [Kept]_vars
  BY <1>1
<1> QED
  BY <1>2, <1>3, RowsInit, PTL DEF Spec, SectionOrderKept, Kept

-----------------------------------------------------------------------------
(* A replacing import that runs alone.                                     *)

\* Every owner of a row is an owner of its slug.
OwnersBacked(d) == \A o \in d.aown : <<o[1][1], o[2]>> \in d.sown

\* The rows of its file that an import has stored.
StoredItems(rec) ==
  {n \in DOMAIN rec.items : /\ rec.pc = "row" => n < rec.i
                            /\ rec.pc = "own" => n <= rec.i}

AddressAt(rec, n) == <<rec.items[n].slug, rec.inst>>

\* Items in the order of a file: AssignImportOrder has numbered them.
InFileOrder(items) ==
  /\ \A n \in DOMAIN items : items[n].ord > 0
  /\ \A m, n \in DOMAIN items :
       m < n /\ SectionOf[items[m].slug] = SectionOf[items[n].slug]
       => items[m].ord < items[n].ord

\* The source owns the rows of the file that are stored and no others.
OwnsItsRows(d, rec) ==
  /\ \A n \in ClaimedItems(rec) : <<AddressAt(rec, n), rec.owner>> \in d.aown
  /\ \A o \in d.aown : o[2] = rec.owner /\ o[1][2] = rec.inst =>
       \E n \in StoredItems(rec) : o[1] = AddressAt(rec, n)
  /\ \A s \in d.sown : s[2] = rec.owner => Backed(d, s)

\* Each of them stands where the file mentions it last.
OrdersItsRows(d, rec) ==
  /\ InFileOrder(rec.items)
  /\ \A n \in StoredItems(rec) :
       /\ AddressAt(rec, n) \in DOMAIN d.ord
       /\ \E k \in StoredItems(rec) : /\ k >= n
                                      /\ rec.items[k].slug = rec.items[n].slug
                                      /\ d.ord[AddressAt(rec, n)] = rec.items[k].ord

\* What the target of a relationship stands for in the end.
StandsFor(rec, s) ==
  LET latest == Latest(Declared(rec.rels), s)
  IN  IF latest \in RowsOf(rec) THEN latest ELSE s

\* An ordinary relationship that leads to a row of the file.
Leads(rec, r) ==
  r.predicate \notin LineagePredicates /\ StandsFor(rec, r.target) \in RowsOf(rec)

EdgeOf(rec, r) == Edge(r.subject, r.predicate, StandsFor(rec, r.target), rec.inst)

\* The relationships are between rows of the file, and those whose subject
\* is done are edges.
JoinsItsRows(d, rec) ==
  /\ rec.pc \in {"template", "check", "edges"} =>
       \A r \in rec.rels : r.subject \in RowsOf(rec)
  /\ rec.pc = "edges" =>
       \A r \in rec.rels : Leads(rec, r) =>
         /\ EdgeOf(rec, r) \in rec.edges
         /\ r.subject \notin rec.left => EdgeOf(rec, r) \in d.erel

Heals(d, rec) ==
  /\ rec.pc # "link"
  /\ OwnsItsRows(d, rec)
  /\ OrdersItsRows(d, rec)
  /\ JoinsItsRows(d, rec)

Healing(d, rec) == rec.kind = "replace" /\ rec.calm /\ ~Over(rec) => Heals(d, rec)

HealInv ==
  /\ RowsInv
  /\ OwnersBacked(db)
  /\ \A w \in Workers : Healing(db, wk[w])

\* What the deletes leave of owners.
LEMMA DisownedIs ==
  ASSUME NEW d, TablesTyped(d), NEW inst, NEW owner,
         NEW e, e = DeleteOwnedInstance(d, inst, owner)
  PROVE  /\ e.aown = {o \in d.aown : o[1][2] # inst \/ o[2] # owner}
         /\ e.sown = {s \in d.sown : s[2] = owner => Backed(e, s)}
<1>1. PICK aown, e1 : /\ aown = {o \in d.aown : o[1][2] # inst \/ o[2] # owner}
                      /\ e1 = [d EXCEPT !.aown = aown]
  OBVIOUS
<1>2. PICK sown, e2 : /\ sown = {s \in d.sown : s[2] = owner => Backed(e1, s)}
                      /\ e2 = [e1 EXCEPT !.sown = sown]
  OBVIOUS
<1>3. PICK gone : gone = {a \in d.rows : a[2] = inst /\ ~ \E o \in e2.aown : o[1] = a}
  OBVIOUS
<1>4. e1 = Tables(d.rows, d.ord, aown, d.sown, d.trel, d.erel)
  BY <1>1 DEF TablesTyped, IsTables, Tables
<1>5. e2 = Tables(d.rows, d.ord, aown, sown, d.trel, d.erel)
  BY <1>2, <1>4 DEF Tables
<1>6. e = WithoutRows(e2, gone)
  BY <1>1, <1>2, <1>3, <1>4 DEF DeleteOwnedInstance, Tables
<1>7. /\ IsTables(e2) /\ e2.rows = d.rows /\ e2.ord = d.ord /\ e2.aown = aown
      /\ e2.sown = sown /\ e2.trel = d.trel /\ e2.erel = d.erel
  BY <1>5, TableWritten DEF Tables
<1>8. aown \subseteq d.aown /\ sown \subseteq d.sown
  BY <1>1, <1>2
<1>9. TablesTyped(e2)
  BY <1>7, <1>8 DEF TablesTyped
<1>10. e.sown = sown /\ e.aown = {o \in aown : o[1] \notin gone}
  BY <1>6, <1>7, <1>9, WithoutRowsTyped
<1>11. e.aown = aown
  BY <1>3, <1>7, <1>10
<1>12. \A s : Backed(e1, s) <=> Backed(e, s)
  BY <1>4, <1>11 DEF Backed, Tables
<1> QED
  BY <1>1, <1>2, <1>10, <1>11, <1>12

\* Deletes leave owners of rows owners of slugs.
LEMMA DeletesBacked ==
  ASSUME NEW d, TablesTyped(d), OwnersBacked(d), NEW inst, NEW owner,
         NEW e \in {DeleteOwnedInstance(d, inst, owner), DeleteInstance(d, inst),
                    DeleteChecklist(d)}
  PROVE  OwnersBacked(e)
<1>1. CASE e = DeleteOwnedInstance(d, inst, owner)
  <2>1. /\ e.aown = {o \in d.aown : o[1][2] # inst \/ o[2] # owner}
        /\ e.sown = {s \in d.sown : s[2] = owner => Backed(e, s)}
    BY <1>1, DisownedIs
  <2> SUFFICES ASSUME NEW o \in e.aown PROVE <<o[1][1], o[2]>> \in e.sown
    BY DEF OwnersBacked
  <2>2. PICK s : s = <<o[1][1], o[2]>>
    OBVIOUS
  <2>3. s \in d.sown
    BY <2>1, <2>2 DEF OwnersBacked
  <2>4. s[1] = o[1][1] /\ s[2] = o[2]
    BY <2>2
  <2>5. Backed(e, s)
    BY <2>4 DEF Backed
  <2> QED
    BY <2>1, <2>2, <2>3, <2>5
<1>2. CASE e = DeleteInstance(d, inst)
  <2>1. PICK gone, e1 : /\ gone = {a \in d.rows : a[2] = inst}
                        /\ e1 = WithoutRows(d, gone)
    OBVIOUS
  <2>2. PICK sown : sown = {s \in e1.sown : Backed(e1, s)}
    OBVIOUS
  <2>3. e = [e1 EXCEPT !.sown = sown]
    BY <1>2, <2>1, <2>2 DEF DeleteInstance
  <2>4. /\ TablesTyped(e1) /\ e1.sown = d.sown
        /\ e1.aown = {o \in d.aown : o[1] \notin gone}
    BY <2>1, WithoutRowsTyped
  <2>5. e.sown = sown /\ e.aown = e1.aown
    BY <2>3, <2>4 DEF TablesTyped, IsTables
  <2> SUFFICES ASSUME NEW o \in e.aown PROVE <<o[1][1], o[2]>> \in e.sown
    BY DEF OwnersBacked
  <2>6. PICK s : s = <<o[1][1], o[2]>>
    OBVIOUS
  <2>7. s \in e1.sown
    BY <2>4, <2>5, <2>6 DEF OwnersBacked
  <2>8. s[1] = o[1][1] /\ s[2] = o[2]
    BY <2>6
  <2>9. Backed(e1, s)
    BY <2>5, <2>8 DEF Backed
  <2> QED
    BY <2>2, <2>5, <2>6, <2>7, <2>9
<1>3. CASE e = DeleteChecklist(d) /\ d.rows # {}
  <2>1. PICK slugs, e1 : slugs = {a[1] : a \in d.rows} /\ e1 = WithoutRows(d, d.rows)
    OBVIOUS
  <2>2. PICK e2 : e2 = [e1 EXCEPT !.sown = {}]
    OBVIOUS
  <2>3. PICK e3 : e3 = [e2 EXCEPT !.aown = {}]
    OBVIOUS
  <2>4. PICK trel : trel = {r \in e1.trel : {r.subject, r.target} \cap slugs = {}}
    OBVIOUS
  <2>5. e = [e3 EXCEPT !.trel = trel]
    BY <1>3, <2>1, <2>2, <2>3, <2>4 DEF DeleteChecklist
  <2>6. TablesTyped(e1)
    BY <2>1, WithoutRowsTyped
  <2>7. e2 = Tables(e1.rows, e1.ord, e1.aown, {}, e1.trel, e1.erel)
    BY <2>2, <2>6 DEF TablesTyped, IsTables, Tables
  <2>8. e3 = Tables(e1.rows, e1.ord, {}, {}, e1.trel, e1.erel)
    BY <2>3, <2>7 DEF Tables
  <2>9. e = Tables(e1.rows, e1.ord, {}, {}, trel, e1.erel)
    BY <2>5, <2>8 DEF Tables
  <2>10. e.aown = {}
    BY <2>9 DEF Tables
  <2> QED
    BY <2>10 DEF OwnersBacked
<1>4. CASE e = DeleteChecklist(d) /\ d.rows = {}
  BY <1>4 DEF DeleteChecklist
<1> QED
  BY <1>1, <1>2, <1>3, <1>4

\* So do inherited owners.
LEMMA HeirsBacked ==
  ASSUME NEW d, OwnersBacked(d), NEW a, NEW o \in Heirs(d, a)
  PROVE  <<o[1][1], o[2]>> \in d.sown
<1>1. CASE o \in d.aown
  BY <1>1 DEF OwnersBacked
<1>2. CASE \E p \in d.aown : p[1] = <<a[1], Template>> /\ o = <<a, p[2]>>
  <2>1. PICK p \in d.aown : p[1] = <<a[1], Template>> /\ o = <<a, p[2]>>
    BY <1>2
  <2>2. <<p[1][1], p[2]>> \in d.sown
    BY DEF OwnersBacked
  <2> QED
    BY <2>1, <2>2
<1> QED
  BY <1>1, <1>2 DEF Heirs

\* The owners and the edges of tables in which one other field is written.
LEMMA FieldAside ==
  ASSUME NEW d, TablesTyped(d), NEW v
  PROVE  /\ [d EXCEPT !.trel = v].aown = d.aown /\ [d EXCEPT !.trel = v].sown = d.sown
         /\ [d EXCEPT !.trel = v].ord = d.ord
         /\ [d EXCEPT !.erel = v].aown = d.aown /\ [d EXCEPT !.erel = v].sown = d.sown
         /\ [d EXCEPT !.erel = v].ord = d.ord /\ [d EXCEPT !.erel = v].erel = v
         /\ [d EXCEPT !.ord = v].aown = d.aown /\ [d EXCEPT !.ord = v].sown = d.sown
BY DEF TablesTyped, IsTables

\* UpsertOwnership makes the owner of the row the owner of its slug.
LEMMA OwnershipWritten ==
  ASSUME NEW d, TablesTyped(d), NEW a \in Addresses, NEW owner \in Owners
  PROVE  LET e == Claimed(d, a, owner)
         IN  /\ e.sown = d.sown \cup {<<a[1], owner>>}
             /\ e.aown = IF a \in d.rows THEN d.aown \cup {<<a, owner>>} ELSE d.aown
             /\ e.ord = d.ord
<1> PICK e : e = Claimed(d, a, owner)
  OBVIOUS
<1>1. PICK aown, sown, e1 :
        /\ aown = IF a \in d.rows THEN d.aown \cup {<<a, owner>>} ELSE d.aown
        /\ sown = d.sown \cup {<<a[1], owner>>}
        /\ e1 = [d EXCEPT !.sown = sown]
  OBVIOUS
<1>2. e1 = Tables(d.rows, d.ord, d.aown, sown, d.trel, d.erel)
  BY <1>1 DEF TablesTyped, IsTables, Tables
<1>3. e = [e1 EXCEPT !.aown = aown]
  BY <1>1, <1>2 DEF Claimed, Tables
<1>4. e = Tables(d.rows, d.ord, aown, sown, d.trel, d.erel)
  BY <1>2, <1>3 DEF Tables
<1> QED
  BY <1>1, <1>4 DEF Tables

LEMMA ClaimedBacked ==
  ASSUME NEW d, TablesTyped(d), OwnersBacked(d), NEW a \in Addresses, NEW owner \in Owners
  PROVE  OwnersBacked(Claimed(d, a, owner))
<1>1. LET e == Claimed(d, a, owner)
      IN  /\ e.sown = d.sown \cup {<<a[1], owner>>}
          /\ e.aown = IF a \in d.rows THEN d.aown \cup {<<a, owner>>} ELSE d.aown
          /\ e.ord = d.ord
  BY OwnershipWritten
<1>2. PICK sown, aown : /\ sown = Claimed(d, a, owner).sown
                        /\ aown = Claimed(d, a, owner).aown
  OBVIOUS
<1>3. ASSUME NEW o \in aown PROVE <<o[1][1], o[2]>> \in sown
  <2>1. CASE o \in d.aown
    BY <1>1, <1>2, <2>1 DEF OwnersBacked
  <2>2. CASE o = <<a, owner>>
    BY <1>1, <1>2, <2>2
  <2> QED
    BY <1>1, <1>2, <1>3, <2>1, <2>2
<1> QED
  BY <1>2, <1>3 DEF OwnersBacked

\* A stored row, whole or cut off by a crash and completed by the restart.
LEMMA StoredBacked ==
  ASSUME NEW d, TablesTyped(d), OwnersBacked(d), NEW a \in Addresses, NEW n \in Int
  PROVE  /\ OwnersBacked(UpsertSlug(d, a, n))
         /\ OwnersBacked(CreateSlugIfMissing(d, a, n))
         /\ \A e \in Torn(d, a, n) : OwnersBacked(Opened(e))
<1>1. ASSUME NEW e, e.sown = d.sown, e.aown \in {d.aown, Heirs(d, a)}
      PROVE  OwnersBacked(e)
  <2> SUFFICES ASSUME NEW o \in e.aown PROVE <<o[1][1], o[2]>> \in d.sown
    BY <1>1 DEF OwnersBacked
  <2>1. CASE o \in d.aown
    BY <2>1 DEF OwnersBacked
  <2>2. CASE o \in Heirs(d, a)
    BY <2>2, HeirsBacked
  <2> QED
    BY <1>1, <2>1, <2>2
<1>2. OwnersBacked(UpsertSlug(d, a, n))
  <2>1. PICK e : e = UpsertSlug(d, a, n)
    OBVIOUS
  <2>2. e.aown = Heirs(d, a) /\ e.sown = d.sown
    BY <2>1, UpsertTyped
  <2> QED
    BY <1>1, <2>1, <2>2
<1>3. OwnersBacked(CreateSlugIfMissing(d, a, n))
  <2>1. PICK e : e = CreateSlugIfMissing(d, a, n)
    OBVIOUS
  <2>2. e.aown = Heirs(d, a) /\ e.sown = d.sown
    BY <2>1, CreateTyped
  <2> QED
    BY <1>1, <2>1, <2>2
<1>4. ASSUME NEW e \in Torn(d, a, n)
      PROVE  IsTables(e) /\ e.sown = d.sown /\ e.aown \in {d.aown, Heirs(d, a)}
  <2>1. CASE e = d
    BY <2>1 DEF TablesTyped
  <2>2. CASE \E ord : e = [d EXCEPT !.ord = ord]
    <3>1. PICK ord : e = [d EXCEPT !.ord = ord]
      BY <2>2
    <3> QED
      BY <3>1 DEF TablesTyped, IsTables
  <2>3. CASE \E ord : e = [WithRow(d, a) EXCEPT !.ord = ord]
    <3>1. PICK ord, rows, e1 : /\ e = [WithRow(d, a) EXCEPT !.ord = ord]
                               /\ rows = d.rows \cup {a} /\ e1 = [d EXCEPT !.rows = rows]
      BY <2>3
    <3>2. e1 = Tables(rows, d.ord, d.aown, d.sown, d.trel, d.erel)
      BY <3>1 DEF TablesTyped, IsTables, Tables
    <3>3. e = [e1 EXCEPT !.ord = ord]
      BY <3>1 DEF WithRow
    <3>4. e = Tables(rows, ord, d.aown, d.sown, d.trel, d.erel)
      BY <3>2, <3>3 DEF Tables
    <3> QED
      BY <3>4 DEF Tables, IsTables
  <2>4. CASE \E some \in SUBSET NewEdges(d, a) :
               e = [Placed(d, a, n) EXCEPT !.erel = @ \cup some]
    <3>1. PICK some : /\ some \subseteq NewEdges(d, a)
                      /\ e = [Placed(d, a, n) EXCEPT !.erel = @ \cup some]
      BY <2>4
    <3>2. /\ e = Tables(d.rows \cup {a}, OrderedRow(d.ord, a, n), Heirs(d, a), d.sown,
                        d.trel, d.erel \cup some)
      BY <3>1, UpsertIs
    <3> QED
      BY <3>2 DEF Tables, IsTables
  <2>5. PICK r, row : /\ r = ResolveAddressOrder(d.ord, a, n)
                      /\ row = [WithRow(d, a) EXCEPT !.ord = r.ord]
    OBVIOUS
  <2>6. CASE e = row
    BY <2>3, <2>5, <2>6
  <2>7. CASE e = [row EXCEPT !.ord = WithOrder(@, a, r.next)]
    <3>1. PICK e1 : e1 = WithRow(d, a)
      OBVIOUS
    <3>2. \E ord : e = [[e1 EXCEPT !.ord = r.ord] EXCEPT !.ord = ord]
      BY <2>5, <2>7, <3>1
    <3>3. PICK ord : e = [[e1 EXCEPT !.ord = r.ord] EXCEPT !.ord = ord]
      BY <3>2
    <3>4. IsTables(e1)
      BY <3>1, FieldWritten DEF WithRow, Same, TablesTyped
    <3>5. [[e1 EXCEPT !.ord = r.ord] EXCEPT !.ord = ord] = [e1 EXCEPT !.ord = ord]
      BY <3>4 DEF IsTables
    <3> QED
      BY <2>3, <3>1, <3>3, <3>5
  <2> QED
    BY <2>1, <2>2, <2>4, <2>5, <2>6, <2>7 DEF Torn
<1>5. ASSUME NEW e \in Torn(d, a, n) PROVE OwnersBacked(Opened(e))
  <2>1. IsTables(e) /\ e.sown = d.sown /\ e.aown \in {d.aown, Heirs(d, a)}
    BY <1>4
  <2>2. PICK f : f = Opened(e)
    OBVIOUS
  <2>3. f.sown = e.sown /\ f.aown = e.aown
    BY <2>1, <2>2 DEF Opened, IsTables
  <2> QED
    BY <1>1, <2>1, <2>2, <2>3
<1> QED
  BY <1>2, <1>3, <1>5

\* Requests that differ in calm and undone heal alike.
LEMMA HealsAlike ==
  ASSUME NEW d, NEW rec, NEW next,
         next.pc = rec.pc, next.inst = rec.inst, next.owner = rec.owner,
         next.items = rec.items, next.i = rec.i, next.rels = rec.rels,
         next.edges = rec.edges, next.left = rec.left,
         Heals(d, rec)
  PROVE  Heals(d, next)
<1>1. /\ StoredItems(next) = StoredItems(rec) /\ ClaimedItems(next) = ClaimedItems(rec)
      /\ RowsOf(next) = RowsOf(rec)
  BY DEF StoredItems, ClaimedItems, RowsOf
<1>2. \A n : AddressAt(next, n) = AddressAt(rec, n)
  BY DEF AddressAt
<1>3. \A s : StandsFor(next, s) = StandsFor(rec, s)
  BY <1>1 DEF StandsFor
<1>4. \A r : /\ Leads(next, r) <=> Leads(rec, r)
             /\ EdgeOf(next, r) = EdgeOf(rec, r)
  BY <1>1, <1>3 DEF Leads, EdgeOf
<1>5. OwnsItsRows(d, next)
  BY <1>1, <1>2 DEF Heals, OwnsItsRows
<1>6. OrdersItsRows(d, next)
  BY <1>1, <1>2 DEF Heals, OrdersItsRows
<1>7. JoinsItsRows(d, next)
  BY <1>1, <1>4 DEF Heals, JoinsItsRows
<1> QED
  BY <1>5, <1>6, <1>7 DEF Heals

\* A step of one request keeps what the others heal: those of which a table
\* changed under them are no longer calm.
LEMMA HealWrite ==
  ASSUME HealInv, RowsInv', NEW w \in Workers, NEW rec, NEW d, NEW spoiled, NEW undo,
         Write(w, rec, d, spoiled, undo), OwnersBacked(d), Healing(d, rec)
  PROVE  HealInv'
<1>1. db' = d /\ wk' = [u \in Workers |->
              IF u = w THEN rec
              ELSE IF Free(u) THEN wk[u]
              ELSE [wk[u] EXCEPT !.calm = @ /\ d = db, !.undone = @ \/ u \in undo]]
  BY DEF Write
<1>2. ASSUME NEW u \in Workers PROVE Healing(d, wk'[u])
  <2>1. CASE u = w
    BY <1>1, <2>1
  <2>2. CASE u # w /\ Free(u)
    BY <1>1, <2>2 DEF Free, Healing, Over
  <2>3. CASE u # w /\ ~Free(u)
    <3>1. PICK rec0, calm, undone : /\ rec0 = wk[u] /\ calm = (wk[u].calm /\ d = db)
                                    /\ undone = (wk[u].undone \/ u \in undo)
      OBVIOUS
    <3>2. PICK rec1, rec2 : rec1 = [rec0 EXCEPT !.calm = calm] /\ rec2 = [rec1 EXCEPT !.undone = undone]
      OBVIOUS
    <3>3. IsJob(rec0) /\ Healing(db, rec0)
      BY <3>1 DEF HealInv, RowsInv, JobTyped
    <3>4. /\ rec1.pc = rec0.pc /\ rec1.kind = rec0.kind /\ rec1.inst = rec0.inst
          /\ rec1.owner = rec0.owner /\ rec1.items = rec0.items /\ rec1.i = rec0.i
          /\ rec1.rels = rec0.rels /\ rec1.edges = rec0.edges /\ rec1.left = rec0.left
          /\ rec1.calm = calm /\ IsJob(rec1)
      BY <3>2, <3>3 DEF IsJob
    <3>5. /\ rec2.pc = rec0.pc /\ rec2.kind = rec0.kind /\ rec2.inst = rec0.inst
          /\ rec2.owner = rec0.owner /\ rec2.items = rec0.items /\ rec2.i = rec0.i
          /\ rec2.rels = rec0.rels /\ rec2.edges = rec0.edges /\ rec2.left = rec0.left
          /\ rec2.calm = calm
      BY <3>2, <3>4 DEF IsJob
    <3>6. wk'[u] = rec2
      BY <1>1, <2>3, <3>1, <3>2
    <3>7. ASSUME rec2.kind = "replace", rec2.calm, ~Over(rec2)
          PROVE  Heals(d, rec2)
      <4>1. d = db /\ rec0.calm
        BY <3>1, <3>5, <3>7
      <4>2. Heals(d, rec0)
        BY <3>3, <3>5, <3>7, <4>1 DEF Healing, Over
      <4> QED
        BY <3>5, <4>2, HealsAlike
    <3> QED
      BY <3>6, <3>7 DEF Healing
  <2> QED
    BY <2>1, <2>2, <2>3
<1> QED
  BY <1>1, <1>2 DEF HealInv

\* The walk of ResolveLatestSlugId from an id without a successor stays there.
LEMMA LatestOfLast ==
  ASSUME NEW index, IsFiniteSet(index), NEW id, NextOf(index, id) = {}
  PROVE  Latest(index, id) = id
<1> DEFINE ids == {id} \cup {e[2] : e \in index}
           Further(s) == LET next == NextOf(index, s)
                         IN  IF Cardinality(next) = 1 THEN CHOOSE t \in next : TRUE ELSE s
           Walked(s, n) == Further(s)
           walk[n \in Nat] ==
             IF n = 0 THEN id
             ELSE LET next == NextOf(index, walk[n - 1])
                  IN  IF Cardinality(next) = 1 THEN CHOOSE t \in next : TRUE
                      ELSE walk[n - 1]
           end == walk[Cardinality(ids)]
<1>1. Latest(index, id) = IF NextOf(index, end) = {} THEN end ELSE None
  BY DEF Latest
<1>2. NatInductiveDefHypothesis(walk, id, Walked)
  BY DEF NatInductiveDefHypothesis
<1>3. NatInductiveDefConclusion(walk, id, Walked)
  BY <1>2, NatInductiveDef
<1>4. Cardinality(ids) \in Nat
  <2>1. PICK f : f = [e \in index |-> e[2]]
    OBVIOUS
  <2>2. IsFiniteSet({f[e] : e \in index})
    BY ImageFinite
  <2>3. {f[e] : e \in index} = {e[2] : e \in index}
    BY <2>1
  <2>4. IsFiniteSet({id} \cup {e[2] : e \in index})
    BY <2>2, <2>3, FS_Union, FS_Singleton
  <2> QED
    BY <2>4, FS_CardinalityType
<1> HIDE DEF walk, ids
<1>5. walk[0] = id /\ \A n \in Nat \ {0} : walk[n] = Further(walk[n - 1])
  BY <1>3 DEF NatInductiveDefConclusion
<1>6. Further(id) = id
  <2>1. Cardinality({}) = 0
    BY FS_EmptySet
  <2> QED
    BY <2>1
<1> HIDE DEF Further
<1>7. PICK Wrong : Wrong = {n \in Nat : walk[n] # id}
  OBVIOUS
<1>8. Wrong = {}
  <2> SUFFICES ASSUME Wrong # {} PROVE FALSE
    OBVIOUS
  <2>1. PICK n \in Wrong : \A k \in Wrong : ~(k < n)
    BY <1>7, LeastNat
  <2>2. n \in Nat \ {0} /\ walk[n] = Further(walk[n - 1])
    BY <1>5, <1>7
  <2>3. n - 1 \in Nat /\ n - 1 \notin Wrong
    BY <2>1, <2>2
  <2>4. walk[n - 1] = id
    BY <1>7, <2>3
  <2> QED
    BY <1>6, <1>7, <2>2, <2>4
<1>9. end = id
  BY <1>4, <1>7, <1>8
<1> QED
  BY <1>1, <1>9

\* Finitely many relationships declare finitely much lineage.
LEMMA FinitelyDeclared ==
  ASSUME NEW rels, IsFiniteSet(rels)
  PROVE  IsFiniteSet(Declared(rels))
<1>1. PICK to, from : /\ to = {r \in rels : r.predicate = Successor}
                      /\ from = {r \in rels : r.predicate = Predecessor}
  OBVIOUS
<1>2. IsFiniteSet(to) /\ IsFiniteSet(from)
  BY <1>1, FS_Subset
<1>3. PICK f, g : /\ f = [r \in to |-> <<r.subject, r.target>>]
                  /\ g = [r \in from |-> <<r.target, r.subject>>]
  OBVIOUS
<1>4. IsFiniteSet({f[r] : r \in to}) /\ IsFiniteSet({g[r] : r \in from})
  BY <1>2, ImageFinite
<1>5. Declared(rels) = {f[r] : r \in to} \cup {g[r] : r \in from}
  BY <1>1, <1>3 DEF Declared
<1> QED
  BY <1>4, <1>5, FS_Union

\* The aliases of the rows of a file take an ordinary relationship that
\* leads to one of them to the row its target stands for.
LEMMA GoalStands ==
  ASSUME NEW rec, IsFiniteSet(rec.rels), None \notin RowsOf(rec),
         NEW r \in rec.rels, Leads(rec, r)
  PROVE  ResolvedTarget(r, Aliases(RowsOf(rec), rec.rels)) = StandsFor(rec, r.target)
<1>1. PICK index, s, latest, rows :
        /\ index = Declared(rec.rels) /\ s = r.target /\ latest = Latest(index, s)
        /\ rows = RowsOf(rec)
  OBVIOUS
<1>2. PICK ids : ids = {e[1] : e \in index} \cup {e[2] : e \in index}
  OBVIOUS
<1>3. PICK moved : moved = {id \in ids : /\ Latest(index, id) \notin {None, id}
                                         /\ Latest(index, id) \in rows}
  OBVIOUS
<1>4. Aliases(RowsOf(rec), rec.rels) = [id \in moved |-> Latest(index, id)]
  BY <1>1, <1>2, <1>3 DEF Aliases
<1>5. StandsFor(rec, s) = IF latest \in rows THEN latest ELSE s
  BY <1>1 DEF StandsFor
<1>6. CASE latest \in rows /\ latest # s
  <2>1. s \in ids
    <3>1. NextOf(index, s) # {}
      BY <1>1, <1>6, FinitelyDeclared, LatestOfLast
    <3> QED
      BY <1>2, <3>1 DEF NextOf
  <2>2. s \in moved
    BY <1>1, <1>3, <1>6, <2>1
  <2> QED
    BY <1>1, <1>4, <1>5, <1>6, <2>2 DEF ResolvedTarget, Leads
<1>7. CASE ~(latest \in rows /\ latest # s)
  <2>1. s \notin moved
    BY <1>1, <1>3, <1>7
  <2> QED
    BY <1>1, <1>4, <1>5, <1>7, <2>1 DEF ResolvedTarget
<1> QED
  BY <1>6, <1>7

\* A request that is over, or of another kind, has nothing to heal.
LEMMA NothingToHeal ==
  ASSUME NEW d
  PROVE  /\ \A pc \in {"idle", "ok", "failed"} : Healing(d, Ended(pc))
         /\ \A rec : rec.kind # "replace" => Healing(d, rec)
<1>1. ASSUME NEW pc \in {"idle", "ok", "failed"} PROVE Healing(d, Ended(pc))
  <2>1. Ended(pc).pc = pc
    BY EndedTyped
  <2> QED
    BY <2>1 DEF Healing, Over
<1> QED
  BY <1>1 DEF Healing

\* Requests of one call, or of a check and a call, and JSONL imports.
LEMMA SimpleHeal ==
  ASSUME HealInv, RowsInv', NEW w \in Workers,
         \/ HandleCreateSlug(w) \/ HandleDeleteInstance(w) \/ HandleDeleteChecklist(w)
         \/ CheckLink(w) \/ InsertTemplateRelationship(w) \/ BeginJsonl(w)
  PROVE  HealInv'
<1>1. RowsInv /\ TablesTyped(db) /\ OwnersBacked(db)
  BY DEF HealInv, RowsInv
<1>2. CASE HandleCreateSlug(w)
  <2>1. PICK c \in Creates : Write(w,
             IF c.owner = None THEN Ended("ok")
             ELSE [Idle EXCEPT !.pc = "own", !.kind = "create", !.inst = c.inst,
                     !.owner = c.owner,
                     !.items = <<[slug |-> c.slug, ord |-> c.ord]>>],
             UpsertSlug(db, <<c.slug, c.inst>>, c.ord), {}, {})
    BY <1>2 DEF HandleCreateSlug
  <2>2. PICK rec, a, n, d :
          /\ rec = IF c.owner = None THEN Ended("ok")
                   ELSE [Idle EXCEPT !.pc = "own", !.kind = "create", !.inst = c.inst,
                           !.owner = c.owner,
                           !.items = <<[slug |-> c.slug, ord |-> c.ord]>>]
          /\ a = <<c.slug, c.inst>> /\ n = c.ord /\ d = UpsertSlug(db, a, n)
    OBVIOUS
  <2>3. a \in Addresses /\ n \in Int
    BY <2>2, RequestAssumption DEF Addresses
  <2>4. OwnersBacked(d)
    BY <1>1, <2>2, <2>3, StoredBacked
  <2>5. Healing(d, rec)
    <3>1. CASE c.owner = None
      BY <2>2, <3>1, NothingToHeal
    <3>2. CASE c.owner # None
      <4>1. rec.kind = "create"
        BY <2>2, <3>2 DEF Idle
      <4> QED
        BY <4>1, NothingToHeal
    <3> QED
      BY <3>1, <3>2
  <2>6. Write(w, rec, d, {}, {})
    BY <2>1, <2>2
  <2> QED
    BY <2>4, <2>5, <2>6, HealWrite
<1>3. CASE HandleDeleteInstance(w)
  <2>1. PICK inst \in Instances : Write(w, Ended("ok"), DeleteInstance(db, inst), {}, In(inst))
    BY <1>3 DEF HandleDeleteInstance
  <2>2. PICK rec, d, undo : rec = Ended("ok") /\ d = DeleteInstance(db, inst) /\ undo = In(inst)
    OBVIOUS
  <2>3. OwnersBacked(d)
    BY <1>1, <2>2, DeletesBacked
  <2>4. Healing(d, rec)
    BY <2>2, NothingToHeal
  <2> QED
    BY <2>1, <2>2, <2>3, <2>4, HealWrite
<1>4. CASE HandleDeleteChecklist(w)
  <2>1. PICK rec, d, undo : rec = Ended("ok") /\ d = DeleteChecklist(db) /\ undo = Workers
    OBVIOUS
  <2>2. OwnersBacked(d)
    BY <1>1, <2>1, DeletesBacked
  <2>3. Healing(d, rec)
    BY <2>1, NothingToHeal
  <2>4. Write(w, rec, d, {}, undo)
    BY <1>4, <2>1 DEF HandleDeleteChecklist
  <2> QED
    BY <2>2, <2>3, <2>4, HealWrite
<1>5. CASE CheckLink(w)
  <2>1. PICK r \in Links : \E rec :
          /\ Write(w, rec, db, {}, {})
          /\ \/ rec = Ended("failed")
             \/ rec = [Idle EXCEPT !.pc = "link", !.kind = "link", !.rels = {r}]
    BY <1>5 DEF CheckLink
  <2>2. PICK rec : /\ Write(w, rec, db, {}, {})
                   /\ \/ rec = Ended("failed")
                      \/ rec = [Idle EXCEPT !.pc = "link", !.kind = "link", !.rels = {r}]
    BY <2>1
  <2>3. PICK d : d = db
    OBVIOUS
  <2>4. Healing(d, rec)
    <3>1. CASE rec = Ended("failed")
      BY <3>1, NothingToHeal
    <3>2. CASE rec = [Idle EXCEPT !.pc = "link", !.kind = "link", !.rels = {r}]
      <4>1. rec.kind = "link"
        BY <3>2 DEF Idle
      <4> QED
        BY <4>1, NothingToHeal
    <3> QED
      BY <2>2, <3>1, <3>2
  <2> QED
    BY <1>1, <2>2, <2>3, <2>4, HealWrite
<1>6. CASE InsertTemplateRelationship(w)
  <2>1. PICK rec, rels, d : /\ rec = Ended("ok") /\ rels = db.trel \cup wk[w].rels
                            /\ d = [db EXCEPT !.trel = rels]
    OBVIOUS
  <2>2. Write(w, rec, d, {}, {})
    BY <1>6, <2>1 DEF InsertTemplateRelationship
  <2>3. d.aown = db.aown /\ d.sown = db.sown
    BY <1>1, <2>1, FieldAside
  <2>4. OwnersBacked(d)
    BY <1>1, <2>3 DEF OwnersBacked
  <2>5. Healing(d, rec)
    BY <2>1, NothingToHeal
  <2> QED
    BY <2>2, <2>4, <2>5, HealWrite
<1>7. CASE BeginJsonl(w)
  <2>1. PICK m \in Imports : \E rec, items :
          /\ Write(w, rec, db, {}, {})
          /\ \/ rec = Ended("failed")
             \/ rec = [Idle EXCEPT !.pc = "row", !.kind = "jsonl", !.inst = m.inst,
                                   !.items = items]
    BY <1>7 DEF BeginJsonl
  <2>2. PICK rec, items :
          /\ Write(w, rec, db, {}, {})
          /\ \/ rec = Ended("failed")
             \/ rec = [Idle EXCEPT !.pc = "row", !.kind = "jsonl", !.inst = m.inst,
                                   !.items = items]
    BY <2>1
  <2>3. PICK d : d = db
    OBVIOUS
  <2>4. Healing(d, rec)
    <3>1. CASE rec = Ended("failed")
      BY <3>1, NothingToHeal
    <3>2. CASE rec = [Idle EXCEPT !.pc = "row", !.kind = "jsonl", !.inst = m.inst,
                                  !.items = items]
      <4>1. rec.kind = "jsonl"
        BY <3>2 DEF Idle
      <4> QED
        BY <4>1, NothingToHeal
    <3> QED
      BY <2>2, <3>1, <3>2
  <2> QED
    BY <1>1, <2>2, <2>3, <2>4, HealWrite
<1> QED
  BY <1>2, <1>3, <1>4, <1>5, <1>6, <1>7

\* A replacing import begins with none of its source's rows.
LEMMA BeginHeals ==
  ASSUME HealInv, RowsInv', NEW w \in Workers, BeginImport(w)
  PROVE  HealInv'
<1>1. TablesTyped(db) /\ OwnersBacked(db)
  BY DEF HealInv, RowsInv
<1>2. PICK m \in Imports :
        IF m.kind = "replace"
        THEN Write(w, Importing(m), DeleteOwnedInstance(db, m.inst, m.doc.owner), {},
                   {u \in In(m.inst) : wk[u].owner = m.doc.owner})
        ELSE Write(w, Importing(m), db, {}, {})
  BY DEF BeginImport
<1>3. PICK rec, rows, items : /\ rec = Importing(m) /\ rows = m.doc.rows
                              /\ items = Items(m.doc)
  OBVIOUS
<1>4. /\ rec.pc = "row" /\ rec.kind = m.kind /\ rec.inst = m.inst /\ rec.i = 1
      /\ rec.items = items /\ (m.kind # "markdown" => rec.owner = m.doc.owner)
  BY <1>3 DEF Importing, Idle
<1>5. CASE m.kind # "replace"
  <2>1. PICK d : d = db
    OBVIOUS
  <2>2. Write(w, rec, d, {}, {})
    BY <1>2, <1>3, <1>5, <2>1
  <2>3. Healing(d, rec)
    BY <1>4, <1>5, NothingToHeal
  <2> QED
    BY <1>1, <2>1, <2>2, <2>3, HealWrite
<1>6. CASE m.kind = "replace"
  <2>1. PICK inst, src, d, undo :
          /\ inst = m.inst /\ src = m.doc.owner /\ d = DeleteOwnedInstance(db, inst, src)
          /\ undo = {u \in In(inst) : wk[u].owner = src}
    OBVIOUS
  <2>2. Write(w, rec, d, {}, undo)
    BY <1>2, <1>3, <1>6, <2>1
  <2>3. OwnersBacked(d)
    BY <1>1, <2>1, DeletesBacked
  <2>4. /\ d.aown = {o \in db.aown : o[1][2] # inst \/ o[2] # src}
        /\ d.sown = {s \in db.sown : s[2] = src => Backed(d, s)}
    BY <1>1, <2>1, DisownedIs
  <2>5. rows \in Seq(Slugs) /\ DOMAIN rows = 1 .. Len(rows) /\ Len(rows) \in Nat
    BY <1>3, RequestAssumption, LenProperties
  <2>6. items = [n \in DOMAIN rows |-> [slug |-> rows[n], ord |-> ImportOrder(rows, n)]]
    BY <1>3 DEF Items
  <2>7. ClaimedItems(rec) = {} /\ StoredItems(rec) = {}
    BY <1>4, <2>5, <2>6 DEF ClaimedItems, StoredItems
  <2>8. OwnsItsRows(d, rec)
    BY <1>4, <1>6, <2>1, <2>4, <2>7 DEF OwnsItsRows
  <2>9. InFileOrder(items)
    <3>1. ASSUME NEW n \in DOMAIN rows PROVE ImportOrder(rows, n) > 0
      <4>1. ImportOrder(rows, n) \in Nat \ {0}
        BY <2>5, ImportOrderType
      <4> QED
        BY <4>1
    <3>2. ASSUME NEW k \in DOMAIN rows, NEW n \in DOMAIN rows, k < n,
                 SectionOf[rows[k]] = SectionOf[rows[n]]
          PROVE  ImportOrder(rows, k) < ImportOrder(rows, n)
      BY <2>5, <3>2, ImportOrderGrows
    <3> QED
      BY <2>6, <3>1, <3>2 DEF InFileOrder
  <2>10. OrdersItsRows(d, rec)
    BY <1>4, <2>7, <2>9 DEF OrdersItsRows
  <2>11. Heals(d, rec)
    BY <1>4, <2>8, <2>10 DEF Heals, JoinsItsRows
  <2> QED
    BY <2>2, <2>3, <2>11, HealWrite DEF Healing
<1> QED
  BY <1>5, <1>6

\* A row of the file that is stored stands where the file mentions it.
LEMMA StoredHeals ==
  ASSUME NEW d, NEW rec, rec.pc = "row", Heals(d, rec), NEW i, i = rec.i,
         DOMAIN rec.items \subseteq Nat, i \in DOMAIN rec.items,
         NEW a, a = AddressAt(rec, i),
         NEW e, e.aown = Heirs(d, a), e.sown = d.sown,
         e.ord = WithOrder(d.ord, a, rec.items[i].ord),
         NEW next, next.pc = "own", next.inst = rec.inst, next.owner = rec.owner,
         next.items = rec.items, next.i = i
  PROVE  Heals(e, next)
<1>1. StoredItems(rec) = {n \in DOMAIN rec.items : n < i}
  BY DEF StoredItems
<1>2. StoredItems(next) = {n \in DOMAIN rec.items : n <= i}
  BY DEF StoredItems
<1>3. ClaimedItems(next) = ClaimedItems(rec)
  BY DEF ClaimedItems
<1>4. \A n : AddressAt(next, n) = AddressAt(rec, n)
  BY DEF AddressAt
<1>5. OwnsItsRows(d, rec) /\ OrdersItsRows(d, rec)
  BY DEF Heals
<1>6. d.aown \subseteq e.aown /\ \A o \in e.aown \ d.aown : o[1] = a
  BY DEF Heirs
<1>7. OwnsItsRows(e, next)
  <2>1. ASSUME NEW n \in ClaimedItems(next)
        PROVE  <<AddressAt(next, n), next.owner>> \in e.aown
    BY <1>3, <1>4, <1>5, <1>6 DEF OwnsItsRows
  <2>2. ASSUME NEW o \in e.aown, o[2] = next.owner, o[1][2] = next.inst
        PROVE  \E n \in StoredItems(next) : o[1] = AddressAt(next, n)
    <3>1. CASE o \in d.aown
      <4>1. PICK n \in StoredItems(rec) : o[1] = AddressAt(rec, n)
        BY <1>5, <2>2, <3>1 DEF OwnsItsRows
      <4> QED
        BY <1>1, <1>2, <1>4, <4>1
    <3>2. CASE o \notin d.aown
      <4>1. i \in StoredItems(next) /\ o[1] = AddressAt(next, i)
        BY <1>2, <1>4, <1>6, <3>2
      <4> QED
        BY <4>1
    <3> QED
      BY <3>1, <3>2
  <2>3. ASSUME NEW s \in e.sown, s[2] = next.owner PROVE Backed(e, s)
    BY <1>5, <1>6, <2>3 DEF OwnsItsRows, Backed
  <2> QED
    BY <2>1, <2>2, <2>3 DEF OwnsItsRows
<1>8. OrdersItsRows(e, next)
  <2> SUFFICES ASSUME NEW n \in StoredItems(next)
               PROVE  /\ AddressAt(next, n) \in DOMAIN e.ord
                      /\ \E k \in StoredItems(next) :
                           /\ k >= n
                           /\ next.items[k].slug = next.items[n].slug
                           /\ e.ord[AddressAt(next, n)] = next.items[k].ord
    BY <1>5 DEF OrdersItsRows
  <2>1. CASE rec.items[n].slug = rec.items[i].slug
    <3>1. AddressAt(next, n) = a /\ i \in StoredItems(next) /\ i >= n
      BY <1>2, <2>1 DEF AddressAt
    <3>2. a \in DOMAIN e.ord /\ e.ord[a] = rec.items[i].ord
      BY DEF WithOrder
    <3> QED
      BY <2>1, <3>1, <3>2
  <2>2. CASE rec.items[n].slug # rec.items[i].slug
    <3>1. n \in StoredItems(rec) /\ AddressAt(rec, n) # a
      BY <1>1, <1>2, <2>2 DEF AddressAt
    <3>2. PICK k \in StoredItems(rec) : /\ k >= n
                                        /\ rec.items[k].slug = rec.items[n].slug
                                        /\ d.ord[AddressAt(rec, n)] = rec.items[k].ord
      BY <1>5, <3>1 DEF OrdersItsRows
    <3>3. AddressAt(rec, n) \in DOMAIN d.ord
      BY <1>5, <3>1 DEF OrdersItsRows
    <3>4. /\ AddressAt(rec, n) \in DOMAIN e.ord
          /\ e.ord[AddressAt(rec, n)] = d.ord[AddressAt(rec, n)]
      BY <3>1, <3>3 DEF WithOrder
    <3> QED
      BY <1>1, <1>2, <1>4, <3>2, <3>4
  <2> QED
    BY <2>1, <2>2
<1> QED
  BY <1>7, <1>8 DEF Heals, JoinsItsRows

\* The source claims it and goes on.
LEMMA ClaimedHeals ==
  ASSUME NEW d, NEW rec, rec.pc = "own", Heals(d, rec), NEW i, i = rec.i,
         DOMAIN rec.items \subseteq Nat, i \in DOMAIN rec.items,
         NEW a, a = AddressAt(rec, i), NEW owner, owner = rec.owner,
         NEW e, e.aown = d.aown \cup {<<a, owner>>}, e.sown = d.sown \cup {<<a[1], owner>>},
         e.ord = d.ord,
         NEW next, next.inst = rec.inst, next.owner = rec.owner, next.items = rec.items,
         \/ next.pc = "row" /\ next.i = i + 1
         \/ next.pc = "merge" /\ \A n \in DOMAIN rec.items : n <= i
  PROVE  Heals(e, next)
<1>1. ClaimedItems(rec) = {n \in DOMAIN rec.items : n < i}
  BY DEF ClaimedItems
<1>2. StoredItems(rec) = {n \in DOMAIN rec.items : n <= i}
  BY DEF StoredItems
<1>3. StoredItems(next) = StoredItems(rec) /\ ClaimedItems(next) = StoredItems(rec)
  BY <1>2 DEF StoredItems, ClaimedItems
<1>4. \A n : AddressAt(next, n) = AddressAt(rec, n)
  BY DEF AddressAt
<1>5. OwnsItsRows(d, rec) /\ OrdersItsRows(d, rec)
  BY DEF Heals
<1>6. OwnsItsRows(e, next)
  <2>1. ASSUME NEW n \in ClaimedItems(next)
        PROVE  <<AddressAt(next, n), next.owner>> \in e.aown
    <3>1. CASE n = i
      BY <1>4, <3>1
    <3>2. CASE n # i
      <4>1. n \in ClaimedItems(rec)
        BY <1>1, <1>2, <1>3, <3>2
      <4> QED
        BY <1>4, <1>5, <4>1 DEF OwnsItsRows
    <3> QED
      BY <3>1, <3>2
  <2>2. ASSUME NEW o \in e.aown, o[2] = next.owner, o[1][2] = next.inst
        PROVE  \E n \in StoredItems(next) : o[1] = AddressAt(next, n)
    <3>1. CASE o \in d.aown
      BY <1>3, <1>4, <1>5, <2>2, <3>1 DEF OwnsItsRows
    <3>2. CASE o = <<a, owner>>
      <4>1. i \in StoredItems(next)
        BY <1>2, <1>3
      <4> QED
        BY <1>4, <3>2, <4>1
    <3> QED
      BY <3>1, <3>2
  <2>3. ASSUME NEW s \in e.sown, s[2] = next.owner PROVE Backed(e, s)
    <3>1. CASE s \in d.sown
      BY <1>5, <2>3, <3>1 DEF OwnsItsRows, Backed
    <3>2. CASE s = <<a[1], owner>>
      <4>1. PICK o : o = <<a, owner>>
        OBVIOUS
      <4>2. o \in e.aown /\ o[1][1] = s[1] /\ o[2] = s[2]
        BY <3>2, <4>1
      <4> QED
        BY <4>2 DEF Backed
    <3> QED
      BY <3>1, <3>2
  <2> QED
    BY <2>1, <2>2, <2>3 DEF OwnsItsRows
<1>7. OrdersItsRows(e, next)
  BY <1>3, <1>4, <1>5 DEF OrdersItsRows
<1> QED
  BY <1>6, <1>7 DEF Heals, JoinsItsRows

\* A request that goes on to its next row is the same request.
LEMMA NextKind ==
  ASSUME RowsInv, NEW w \in Workers, wk[w].pc \in {"row", "own"}
  PROVE  LET rec == wk[w]
             next == NextRow(w)
         IN  /\ next.kind = rec.kind /\ next.inst = rec.inst /\ next.owner = rec.owner
             /\ next.items = rec.items /\ next.calm = rec.calm
             /\ \/ next.pc = "row" /\ next.i = rec.i + 1
                \/ next.pc = "merge" /\ \A n \in DOMAIN rec.items : n <= rec.i
<1>1. PICK rec, i : rec = wk[w] /\ i = rec.i + 1
  OBVIOUS
<1>2. IsJob(rec)
  BY <1>1 DEF RowsInv, JobTyped
<1>3. CASE AtLast(w)
  <2>1. PICK next : next = [rec EXCEPT !.pc = "merge"]
    OBVIOUS
  <2>2. /\ next.kind = rec.kind /\ next.inst = rec.inst /\ next.owner = rec.owner
        /\ next.items = rec.items /\ next.calm = rec.calm /\ next.pc = "merge"
    BY <1>2, <2>1 DEF IsJob
  <2>3. NextRow(w) = next
    BY <1>1, <1>3, <2>1 DEF NextRow
  <2>4. \A n \in DOMAIN rec.items : n <= rec.i
    BY <1>1, <1>3, HereTyped DEF AtLast
  <2> QED
    BY <1>1, <2>2, <2>3, <2>4
<1>4. CASE ~AtLast(w)
  <2>1. PICK then, next : then = [rec EXCEPT !.pc = "row"] /\ next = [then EXCEPT !.i = i]
    OBVIOUS
  <2>2. /\ then.kind = rec.kind /\ then.inst = rec.inst /\ then.owner = rec.owner
        /\ then.items = rec.items /\ then.calm = rec.calm /\ then.pc = "row"
        /\ then.i = rec.i /\ IsJob(then)
    BY <1>2, <2>1 DEF IsJob
  <2>3. /\ next.kind = rec.kind /\ next.inst = rec.inst /\ next.owner = rec.owner
        /\ next.items = rec.items /\ next.calm = rec.calm /\ next.pc = "row"
        /\ next.i = i
    BY <2>1, <2>2 DEF IsJob
  <2>4. NextRow(w) = next
    BY <1>1, <1>4, <2>1, <2>2 DEF NextRow
  <2> QED
    BY <1>1, <2>3, <2>4
<1> QED
  BY <1>3, <1>4

\* One row of an import.
LEMMA RowHeals ==
  ASSUME HealInv, RowsInv', NEW w \in Workers, ImportRow(w)
  PROVE  HealInv'
<1>1. RowsInv /\ TablesTyped(db) /\ OwnersBacked(db) /\ wk[w].pc = "row"
  BY DEF HealInv, RowsInv, ImportRow, At
<1>2. PICK a, n, d, e : /\ a = Here(w) /\ n = Item(w).ord
                        /\ d = CreateSlugIfMissing(db, a, n) /\ e = UpsertSlug(db, a, n)
  OBVIOUS
<1>3. a \in Addresses /\ n \in Int
  BY <1>1, <1>2, HereTyped
<1>4. OwnersBacked(d) /\ OwnersBacked(e)
  BY <1>1, <1>2, <1>3, StoredBacked
<1>5. PICK rec, i : rec = wk[w] /\ i = wk[w].i
  OBVIOUS
<1>6. JobTyped(rec) /\ rec.pc = "row" /\ ~Over(rec)
  BY <1>1, <1>5 DEF RowsInv, Over
<1>7. CASE rec.kind = "markdown"
  <2>1. PICK inst, next : inst = {wk[w].inst} /\ next = NextRow(w)
    OBVIOUS
  <2>2. Write(w, next, d, inst, {})
    BY <1>2, <1>5, <1>7, <2>1 DEF ImportRow
  <2>3. Healing(d, next)
    <3>1. next.kind # "replace"
      BY <1>1, <1>5, <1>7, <2>1, NextKind
    <3> QED
      BY <3>1, NothingToHeal
  <2> QED
    BY <1>4, <2>2, <2>3, HealWrite
<1>8. CASE rec.kind = "jsonl"
  <2>1. PICK next : next = IF AtLast(w) THEN Ended("ok") ELSE NextRow(w)
    OBVIOUS
  <2>2. Write(w, next, e, {}, {})
    BY <1>2, <1>5, <1>8, <2>1 DEF ImportRow
  <2>3. Healing(e, next)
    <3>1. CASE AtLast(w)
      BY <2>1, <3>1, NothingToHeal
    <3>2. CASE ~AtLast(w)
      <4>1. next.kind # "replace"
        BY <1>1, <1>5, <1>8, <2>1, <3>2, NextKind
      <4> QED
        BY <4>1, NothingToHeal
    <3> QED
      BY <3>1, <3>2
  <2> QED
    BY <1>4, <2>2, <2>3, HealWrite
<1>9. CASE rec.kind \notin {"markdown", "jsonl"}
  <2>1. PICK next : next = [rec EXCEPT !.pc = "own"]
    OBVIOUS
  <2>2. Write(w, next, e, {}, {})
    BY <1>2, <1>5, <1>9, <2>1 DEF ImportRow
  <2>3. /\ next.pc = "own" /\ next.kind = rec.kind /\ next.inst = rec.inst
        /\ next.owner = rec.owner /\ next.items = rec.items /\ next.i = i
        /\ next.calm = rec.calm
    BY <1>5, <1>6, <2>1 DEF JobTyped, IsJob
  <2>4. ASSUME next.kind = "replace", next.calm PROVE Heals(e, next)
    <3>1. PICK f : f = db
      OBVIOUS
    <3>2. Heals(f, rec)
      BY <1>5, <1>6, <2>3, <2>4, <3>1 DEF HealInv, Healing
    <3>3. DOMAIN rec.items \subseteq Nat /\ i \in DOMAIN rec.items
      BY <1>1, <1>5, HereTyped
    <3>4. a = AddressAt(rec, i) /\ n = rec.items[i].ord
      BY <1>2, <1>5 DEF Here, Item, AddressAt
    <3>5. e.aown = Heirs(f, a) /\ e.sown = f.sown /\ e.ord = OrderedRow(f.ord, a, n)
      BY <1>1, <1>2, <1>3, <3>1, UpsertTyped
    <3>6. n > 0
      BY <3>2, <3>3, <3>4 DEF Heals, OrdersItsRows, InFileOrder
    <3>7. e.ord = WithOrder(f.ord, a, n)
      BY <3>5, <3>6 DEF OrderedRow, ResolveAddressOrder
    <3> QED
      BY <1>6, <2>3, <3>2, <3>3, <3>4, <3>5, <3>7, <1>5, StoredHeals
  <2>5. Healing(e, next)
    BY <2>4 DEF Healing
  <2> QED
    BY <1>4, <2>2, <2>5, HealWrite
<1> QED
  BY <1>7, <1>8, <1>9

\* UpsertOwnership of that row.
LEMMA ClaimHeals ==
  ASSUME HealInv, RowsInv', NEW w \in Workers, ClaimRow(w)
  PROVE  HealInv'
<1>1. RowsInv /\ TablesTyped(db) /\ OwnersBacked(db) /\ wk[w].pc = "own"
  BY DEF HealInv, RowsInv, ClaimRow, At
<1>2. PICK rec, i, a, owner : rec = wk[w] /\ i = wk[w].i /\ a = Here(w) /\ owner = wk[w].owner
  OBVIOUS
<1>3. JobTyped(rec) /\ rec.pc = "own" /\ ~Over(rec)
  BY <1>1, <1>2 DEF RowsInv, Over
<1>4. a \in Addresses /\ owner \in Owners
  BY <1>1, <1>2, <1>3, HereTyped DEF JobTyped
<1>5. PICK d, next : /\ d = Claimed(db, a, owner)
                     /\ next = IF a \notin db.rows THEN Ended("failed")
                               ELSE IF rec.kind = "create" THEN Ended("ok") ELSE NextRow(w)
  OBVIOUS
<1>6. Write(w, next, d, {}, {})
  BY <1>2, <1>5 DEF ClaimRow
<1>7. OwnersBacked(d)
  BY <1>1, <1>4, <1>5, ClaimedBacked
<1>8. CASE a \notin db.rows \/ rec.kind = "create"
  <2>1. Healing(d, next)
    BY <1>5, <1>8, NothingToHeal
  <2> QED
    BY <1>6, <1>7, <2>1, HealWrite
<1>9. CASE a \in db.rows /\ rec.kind # "create"
  <2>1. next = NextRow(w)
    BY <1>5, <1>9
  <2>2. /\ next.kind = rec.kind /\ next.inst = rec.inst /\ next.owner = rec.owner
        /\ next.items = rec.items /\ next.calm = rec.calm
        /\ \/ next.pc = "row" /\ next.i = rec.i + 1
           \/ next.pc = "merge" /\ \A n \in DOMAIN rec.items : n <= rec.i
    BY <1>1, <1>2, <2>1, NextKind
  <2>3. ASSUME next.kind = "replace", next.calm PROVE Heals(d, next)
    <3>1. PICK f : f = db
      OBVIOUS
    <3>2. Heals(f, rec)
      BY <1>2, <1>3, <2>2, <2>3, <3>1 DEF HealInv, Healing
    <3>3. DOMAIN rec.items \subseteq Nat /\ i \in DOMAIN rec.items
      BY <1>1, <1>2, HereTyped
    <3>4. a = AddressAt(rec, i)
      BY <1>2 DEF Here, Item, AddressAt
    <3>5. /\ d.sown = f.sown \cup {<<a[1], owner>>}
          /\ d.aown = f.aown \cup {<<a, owner>>} /\ d.ord = f.ord
      BY <1>1, <1>4, <1>5, <1>9, <3>1, OwnershipWritten
    <3> QED
      BY <1>2, <1>3, <2>2, <3>2, <3>3, <3>4, <3>5, ClaimedHeals
  <2>4. Healing(d, next)
    BY <2>3 DEF Healing
  <2> QED
    BY <1>6, <1>7, <2>4, HealWrite
<1> QED
  BY <1>8, <1>9

\* Past its rows an import keeps them and their owners.
LEMMA OnwardHeals ==
  ASSUME NEW d, NEW rec, rec.pc \in {"merge", "template", "check", "edges"}, Heals(d, rec),
         NEW e, e.aown = d.aown, e.sown = d.sown, e.ord = d.ord,
         NEW next, next.pc \in {"template", "check", "edges"}, next.inst = rec.inst,
         next.owner = rec.owner, next.items = rec.items, JoinsItsRows(e, next)
  PROVE  Heals(e, next)
<1>1. /\ StoredItems(next) = StoredItems(rec) /\ ClaimedItems(next) = ClaimedItems(rec)
  BY DEF StoredItems, ClaimedItems
<1>2. \A n : AddressAt(next, n) = AddressAt(rec, n)
  BY DEF AddressAt
<1>3. OwnsItsRows(e, next)
  BY <1>1, <1>2 DEF Heals, OwnsItsRows, Backed
<1>4. OrdersItsRows(e, next)
  BY <1>1, <1>2 DEF Heals, OrdersItsRows
<1> QED
  BY <1>3, <1>4 DEF Heals

\* The relationships an import stores are those of its rows.
LEMMA MergeHeals ==
  ASSUME HealInv, RowsInv', NEW w \in Workers, MergeLineage(w) \/ ReplaceTemplate(w)
  PROVE  HealInv'
<1>1. /\ RowsInv /\ TablesTyped(db) /\ OwnersBacked(db)
      /\ wk[w].pc \in {"merge", "template"}
  BY DEF HealInv, RowsInv, MergeLineage, ReplaceTemplate, At
<1>2. PICK rec, f : rec = wk[w] /\ f = db
  OBVIOUS
<1>3. IsJob(rec) /\ Healing(f, rec) /\ rec.pc \in {"merge", "template"} /\ ~Over(rec)
  BY <1>1, <1>2 DEF HealInv, RowsInv, JobTyped, Over
<1>4. CASE MergeLineage(w)
  <2>1. PICK rows, rels, loaded, merged :
          /\ rows = RowsOf(rec) /\ rels = rec.rels /\ loaded = Loaded(f)
          /\ merged = Merged(rows, rels, loaded, f.trel)
    OBVIOUS
  <2>2. PICK e1, e2, next : /\ e1 = [rec EXCEPT !.pc = "template"]
                            /\ e2 = [e1 EXCEPT !.read = loaded]
                            /\ next = [e2 EXCEPT !.rels = merged]
    OBVIOUS
  <2>3. e1.rels = rec.rels /\ IsJob(e1) /\ e1.pc = "template" /\ e1.kind = rec.kind
        /\ e1.inst = rec.inst /\ e1.owner = rec.owner /\ e1.items = rec.items
        /\ e1.calm = rec.calm
    BY <1>3, <2>2 DEF IsJob
  <2>4. e2.rels = rec.rels /\ IsJob(e2) /\ e2.pc = "template" /\ e2.kind = rec.kind
        /\ e2.inst = rec.inst /\ e2.owner = rec.owner /\ e2.items = rec.items
        /\ e2.calm = rec.calm
    BY <2>2, <2>3 DEF IsJob
  <2>5. next.rels = merged /\ next.pc = "template" /\ next.kind = rec.kind
        /\ next.inst = rec.inst /\ next.owner = rec.owner /\ next.items = rec.items
        /\ next.calm = rec.calm
    BY <2>2, <2>4 DEF IsJob
  <2>6. Write(w, next, f, {}, {})
    BY <1>2, <1>4, <2>1, <2>2, <2>4 DEF MergeLineage
  <2>7. \A r \in merged : r.subject \in rows
    BY <2>1 DEF Merged
  <2>8. JoinsItsRows(f, next)
    BY <2>1, <2>5, <2>7 DEF JoinsItsRows, RowsOf
  <2>9. ASSUME next.kind = "replace", next.calm PROVE Heals(f, next)
    <3>1. Heals(f, rec)
      BY <1>3, <2>5, <2>9 DEF Healing
    <3> QED
      BY <1>3, <2>5, <2>8, <3>1, OnwardHeals
  <2>10. Healing(f, next)
    BY <2>9 DEF Healing
  <2> QED
    BY <1>1, <1>2, <2>6, <2>10, HealWrite
<1>5. CASE ReplaceTemplate(w)
  <2>1. PICK trel, next, d :
          /\ trel = {r \in f.trel : r.subject \notin RowsOf(rec)} \cup rec.rels
          /\ next = [rec EXCEPT !.pc = "check"] /\ d = [f EXCEPT !.trel = trel]
    OBVIOUS
  <2>2. Write(w, next, d, {}, {})
    BY <1>2, <1>5, <2>1 DEF ReplaceTemplate, WithTemplate
  <2>3. next.rels = rec.rels /\ next.pc = "check" /\ next.kind = rec.kind
        /\ next.inst = rec.inst /\ next.owner = rec.owner /\ next.items = rec.items
        /\ next.calm = rec.calm
    BY <1>3, <2>1 DEF IsJob
  <2>4. d.aown = f.aown /\ d.sown = f.sown /\ d.ord = f.ord
    BY <1>1, <1>2, <2>1, FieldAside
  <2>5. OwnersBacked(d)
    BY <1>1, <1>2, <2>4 DEF OwnersBacked
  <2>6. ASSUME next.kind = "replace", next.calm PROVE Heals(d, next)
    <3>1. Heals(f, rec)
      BY <1>3, <2>3, <2>6 DEF Healing
    <3>2. rec.pc = "template"
      BY <1>2, <1>5 DEF ReplaceTemplate, At
    <3>3. JoinsItsRows(d, next)
      BY <2>3, <3>1, <3>2 DEF Heals, JoinsItsRows, RowsOf
    <3> QED
      BY <1>3, <2>3, <2>4, <3>1, <3>3, OnwardHeals
  <2>7. Healing(d, next)
    BY <2>6 DEF Healing
  <2> QED
    BY <2>2, <2>5, <2>7, HealWrite
<1> QED
  BY <1>4, <1>5

\* The edges an import plans are those its relationships need: both ends
\* have rows by then.
LEMMA PlannedEdges ==
  ASSUME NEW d, DOMAIN d.ord = d.rows, NEW rec, rec.pc = "check", Heals(d, rec),
         IsFiniteSet(rec.rels), RowsOf(rec) \subseteq Slugs,
         NEW goals,
         \A r \in rec.rels : goals[r] = ResolvedTarget(r, Aliases(RowsOf(rec), rec.rels)),
         NEW next, next.pc = "edges", next.inst = rec.inst, next.items = rec.items,
         next.rels = rec.rels, next.left = RowsOf(rec),
         \A r \in rec.rels :
           goals[r] # None /\ Has(d, r.subject, rec.inst) /\ Has(d, goals[r], rec.inst)
           => Edge(r.subject, r.predicate, goals[r], rec.inst) \in next.edges
  PROVE  JoinsItsRows(d, next)
<1>1. RowsOf(next) = RowsOf(rec) /\ None \notin RowsOf(rec)
  BY RequestAssumption DEF RowsOf
<1>2. \A s : StandsFor(next, s) = StandsFor(rec, s)
  BY <1>1 DEF StandsFor
<1>3. \A r \in rec.rels : r.subject \in RowsOf(rec)
  BY DEF Heals, JoinsItsRows
<1>4. ASSUME NEW s \in RowsOf(rec) PROVE Has(d, s, rec.inst)
  <2>1. PICK n \in DOMAIN rec.items : s = rec.items[n].slug
    BY <1>4 DEF RowsOf
  <2>2. n \in StoredItems(rec)
    BY DEF StoredItems
  <2> QED
    BY <2>1, <2>2 DEF Heals, OrdersItsRows, AddressAt, Has
<1>5. ASSUME NEW r \in rec.rels, Leads(next, r) PROVE EdgeOf(next, r) \in next.edges
  <2>1. Leads(rec, r)
    BY <1>1, <1>2, <1>5 DEF Leads
  <2>2. goals[r] = StandsFor(rec, r.target)
    BY <1>1, <2>1, GoalStands
  <2>3. goals[r] \in RowsOf(rec) /\ goals[r] # None
    BY <1>1, <2>1, <2>2 DEF Leads
  <2> QED
    BY <1>2, <1>3, <1>4, <2>2, <2>3 DEF EdgeOf
<1> QED
  BY <1>1, <1>3, <1>5 DEF JoinsItsRows

\* The edges of one more subject are written.
LEMMA EdgesWritten ==
  ASSUME NEW d, NEW rec, rec.pc = "edges", Heals(d, rec), NEW slug, NEW a,
         a = <<slug, rec.inst>>, NEW erel,
         \A x \in d.erel : x.subject # a => x \in erel,
         \A x \in rec.edges : x.subject = a => x \in erel
  PROVE  \A r \in rec.rels : Leads(rec, r) =>
           /\ EdgeOf(rec, r) \in rec.edges
           /\ r.subject \notin rec.left \ {slug} => EdgeOf(rec, r) \in erel
<1> SUFFICES ASSUME NEW r \in rec.rels, Leads(rec, r)
             PROVE  /\ EdgeOf(rec, r) \in rec.edges
                    /\ r.subject \notin rec.left \ {slug} => EdgeOf(rec, r) \in erel
  OBVIOUS
<1>1. PICK x : x = EdgeOf(rec, r)
  OBVIOUS
<1>2. x \in rec.edges /\ (r.subject \notin rec.left => x \in d.erel)
  BY <1>1 DEF Heals, JoinsItsRows
<1>3. x.subject = <<r.subject, rec.inst>>
  BY <1>1 DEF EdgeOf, Edge
<1>4. CASE r.subject = slug
  BY <1>1, <1>2, <1>3, <1>4
<1>5. CASE r.subject # slug
  <2>1. x.subject # a
    BY <1>3, <1>5
  <2> QED
    BY <1>1, <1>2, <1>5, <2>1
<1> QED
  BY <1>4, <1>5

\* The edges of an import.
LEMMA EdgesHeal ==
  ASSUME HealInv, RowsInv', NEW w \in Workers, CheckEdges(w) \/ ReplaceEdges(w)
  PROVE  HealInv'
<1>1. /\ RowsInv /\ TablesTyped(db) /\ OwnersBacked(db) /\ wk[w].pc \in {"check", "edges"}
  BY DEF HealInv, RowsInv, CheckEdges, ReplaceEdges, At
<1>2. PICK rec, f : rec = wk[w] /\ f = db
  OBVIOUS
<1>3. /\ IsJob(rec) /\ JobTyped(rec) /\ Healing(f, rec) /\ ~Over(rec)
      /\ RowsOf(rec) \subseteq Slugs /\ IsFiniteSet(rec.rels)
  BY <1>1, <1>2, PastRows DEF HealInv, RowsInv, JobTyped, Related
<1>4. CASE CheckEdges(w)
  <2>1. rec.pc = "check"
    BY <1>2, <1>4 DEF CheckEdges, At
  <2>2. PICK rels, rows, inst, goals :
          /\ rels = rec.rels /\ rows = RowsOf(rec) /\ inst = rec.inst
          /\ goals = [r \in rels |-> ResolvedTarget(r, Aliases(rows, rels))]
    OBVIOUS
  <2>3. PICK kept, edges :
          /\ kept = {r \in rels : /\ goals[r] # None
                                  /\ Has(f, r.subject, inst)
                                  /\ Has(f, goals[r], inst)}
          /\ edges = {Edge(r.subject, r.predicate, goals[r], inst) : r \in kept}
    OBVIOUS
  <2>4. PICK e1, e2, next : /\ e1 = [rec EXCEPT !.pc = "edges"]
                            /\ e2 = [e1 EXCEPT !.left = rows]
                            /\ next = [e2 EXCEPT !.edges = edges]
    OBVIOUS
  <2>5. e1.rels = rec.rels /\ IsJob(e1) /\ e1.pc = "edges" /\ e1.kind = rec.kind
        /\ e1.inst = rec.inst /\ e1.owner = rec.owner /\ e1.items = rec.items
        /\ e1.calm = rec.calm
    BY <1>3, <2>4 DEF IsJob
  <2>6. e2.rels = rec.rels /\ IsJob(e2) /\ e2.pc = "edges" /\ e2.kind = rec.kind
        /\ e2.inst = rec.inst /\ e2.owner = rec.owner /\ e2.items = rec.items
        /\ e2.calm = rec.calm /\ e2.left = rows
    BY <2>4, <2>5 DEF IsJob
  <2>7. next.rels = rec.rels /\ next.pc = "edges" /\ next.kind = rec.kind
        /\ next.inst = rec.inst /\ next.owner = rec.owner /\ next.items = rec.items
        /\ next.calm = rec.calm /\ next.left = rows /\ next.edges = edges
    BY <2>4, <2>6 DEF IsJob
  <2>8. Write(w, next, f, {}, {})
    <3>1. {Edge(r.subject, r.predicate, ResolvedTarget(r, Aliases(rows, rels)), inst) :
             r \in {r \in rels : /\ ResolvedTarget(r, Aliases(rows, rels)) # None
                                 /\ Has(f, r.subject, inst)
                                 /\ Has(f, ResolvedTarget(r, Aliases(rows, rels)), inst)}}
            = edges
      BY <2>2, <2>3
    <3>2. Write(w, [rec EXCEPT !.pc = "edges", !.left = rows, !.edges = edges], f, {}, {})
      BY <1>2, <1>4, <2>2, <3>1 DEF CheckEdges
    <3> QED
      BY <2>4, <3>2
  <2>9. ASSUME next.kind = "replace", next.calm PROVE Heals(f, next)
    <3>1. Heals(f, rec)
      BY <1>3, <2>7, <2>9 DEF Healing
    <3>2. DOMAIN f.ord = f.rows
      BY <1>1, <1>2 DEF TablesTyped
    <3>3. \A r \in rec.rels : goals[r] = ResolvedTarget(r, Aliases(RowsOf(rec), rec.rels))
      BY <2>2
    <3>4. \A r \in rec.rels :
            goals[r] # None /\ Has(f, r.subject, rec.inst) /\ Has(f, goals[r], rec.inst)
            => Edge(r.subject, r.predicate, goals[r], rec.inst) \in next.edges
      BY <2>2, <2>3, <2>7
    <3>5. JoinsItsRows(f, next)
      BY <1>3, <2>1, <2>2, <2>7, <3>1, <3>2, <3>3, <3>4, PlannedEdges
    <3> QED
      BY <2>1, <2>7, <3>1, <3>5, OnwardHeals
  <2>10. Healing(f, next)
    BY <2>9 DEF Healing
  <2> QED
    BY <1>1, <1>2, <2>8, <2>10, HealWrite
<1>5. CASE ReplaceEdges(w)
  <2>1. PICK slug \in wk[w].left : \E a, edges :
          /\ a = <<slug, wk[w].inst>> /\ edges = {e \in wk[w].edges : e.subject = a}
          /\ Write(w, IF wk[w].left = {slug} THEN Ended("ok")
                      ELSE [wk[w] EXCEPT !.left = @ \ {slug}],
                   WithEdges(db, a, edges), {wk[w].inst}, {})
    BY <1>5 DEF ReplaceEdges
  <2>2. PICK a, edges :
          /\ a = <<slug, wk[w].inst>> /\ edges = {e \in wk[w].edges : e.subject = a}
          /\ Write(w, IF wk[w].left = {slug} THEN Ended("ok")
                      ELSE [wk[w] EXCEPT !.left = @ \ {slug}],
                   WithEdges(db, a, edges), {wk[w].inst}, {})
    BY <2>1
  <2>3. PICK erel, d, left, on, next, inst :
          /\ erel = {e \in f.erel : e.subject # a} \cup edges
          /\ d = [f EXCEPT !.erel = erel]
          /\ left = rec.left \ {slug} /\ on = [rec EXCEPT !.left = left]
          /\ next = IF rec.left = {slug} THEN Ended("ok") ELSE on
          /\ inst = {rec.inst}
    OBVIOUS
  <2>4. Write(w, next, d, inst, {})
    BY <1>2, <2>2, <2>3 DEF WithEdges
  <2>5. d.aown = f.aown /\ d.sown = f.sown /\ d.ord = f.ord /\ d.erel = erel
    BY <1>1, <1>2, <2>3, FieldAside
  <2>6. OwnersBacked(d)
    BY <1>1, <1>2, <2>5 DEF OwnersBacked
  <2>7. rec.pc = "edges"
    BY <1>2, <1>5 DEF ReplaceEdges, At
  <2>8. on.rels = rec.rels /\ on.pc = "edges" /\ on.kind = rec.kind
        /\ on.inst = rec.inst /\ on.owner = rec.owner /\ on.items = rec.items
        /\ on.calm = rec.calm /\ on.left = left /\ on.edges = rec.edges
    BY <1>3, <2>3, <2>7 DEF IsJob
  <2>9. ASSUME on.kind = "replace", on.calm PROVE Heals(d, on)
    <3>1. Heals(f, rec)
      BY <1>3, <2>8, <2>9 DEF Healing
    <3>2. RowsOf(on) = RowsOf(rec)
      BY <2>8 DEF RowsOf
    <3>3. \A r : /\ Leads(on, r) <=> Leads(rec, r)
                 /\ EdgeOf(on, r) = EdgeOf(rec, r)
      BY <2>8, <3>2 DEF Leads, EdgeOf, StandsFor
    <3>4. \A r \in rec.rels : Leads(rec, r) =>
             /\ EdgeOf(rec, r) \in rec.edges
             /\ r.subject \notin rec.left \ {slug} => EdgeOf(rec, r) \in erel
      <4>1. /\ \A x \in f.erel : x.subject # a => x \in erel
            /\ \A x \in rec.edges : x.subject = a => x \in erel
        BY <1>2, <2>2, <2>3
      <4>2. a = <<slug, rec.inst>>
        BY <1>2, <2>2
      <4> QED
        BY <2>7, <3>1, <4>1, <4>2, EdgesWritten
    <3>5. JoinsItsRows(d, on)
      <4>1. \A r \in rec.rels : r.subject \in RowsOf(rec)
        BY <2>7, <3>1 DEF Heals, JoinsItsRows
      <4> QED
        BY <2>3, <2>5, <2>8, <3>2, <3>3, <3>4, <4>1 DEF JoinsItsRows
    <3> QED
      BY <2>5, <2>7, <2>8, <3>1, <3>5, OnwardHeals
  <2>10. Healing(d, next)
    <3>1. Healing(d, on)
      BY <2>9 DEF Healing
    <3> QED
      BY <2>3, <3>1, NothingToHeal
  <2> QED
    BY <2>4, <2>6, <2>10, HealWrite
<1> QED
  BY <1>4, <1>5

\* A request that fails at its edges is over, and the others are as before.
LEMMA EdgeFailHeals ==
  ASSUME HealInv, RowsInv', NEW w \in Workers, ReplaceEdgesFails(w)
  PROVE  HealInv'
<1>1. db' = db /\ wk' = [wk EXCEPT ![w] = Ended("failed")]
  BY DEF ReplaceEdgesFails
<1>2. wk = [u \in Workers |-> wk[u]]
  BY DEF HealInv, RowsInv
<1>3. ASSUME NEW u \in Workers PROVE Healing(db, wk'[u])
  <2>1. CASE u = w
    BY <1>1, <1>2, <2>1, NothingToHeal
  <2>2. CASE u # w
    BY <1>1, <1>2, <2>2 DEF HealInv
  <2> QED
    BY <2>1, <2>2
<1> QED
  BY <1>1, <1>3 DEF HealInv

\* A restart ends every request; the owners of a half stored row are those
\* of its template row.
LEMMA RestartHeals ==
  ASSUME HealInv, RowsInv', CrashRestart
  PROVE  HealInv'
<1>1. RowsInv /\ TablesTyped(db) /\ OwnersBacked(db)
  BY DEF HealInv, RowsInv
<1>2. wk' = [w \in Workers |-> Idle]
  BY DEF CrashRestart
<1>3. PICK rec : rec = Ended("idle")
  OBVIOUS
<1>4. rec = Idle
  BY <1>3 DEF Ended, Idle
<1>5. \A d : Healing(d, rec)
  BY <1>3, NothingToHeal
<1>6. PICK d \in {db} \cup UNION {Torn(db, Here(w), Item(w).ord) :
             w \in {w \in Workers : wk[w].pc = "row" /\ wk[w].kind # "markdown"}} :
        db' = Opened(d)
  BY DEF CrashRestart
<1>7. CASE d = db
  <2>1. PICK e, f, ord : e = db /\ ord = Backfill(db.ord, QueryOrder(db))
                         /\ f = [e EXCEPT !.ord = ord]
    OBVIOUS
  <2>2. f.aown = e.aown /\ f.sown = e.sown
    BY <1>1, <2>1, FieldAside
  <2>3. db' = f
    BY <1>6, <1>7, <2>1 DEF Opened
  <2>4. OwnersBacked(f)
    BY <1>1, <2>1, <2>2 DEF OwnersBacked
  <2> QED
    BY <1>2, <1>4, <1>5, <2>3, <2>4 DEF HealInv
<1>8. CASE \E w \in Workers : wk[w].pc = "row" /\ d \in Torn(db, Here(w), Item(w).ord)
  <2>1. PICK w \in Workers : wk[w].pc = "row" /\ d \in Torn(db, Here(w), Item(w).ord)
    BY <1>8
  <2>2. PICK a, n, e, f : a = Here(w) /\ n = Item(w).ord /\ e = d /\ f = db
    OBVIOUS
  <2>3. a \in Addresses /\ n \in Int
    BY <1>1, <2>1, <2>2, HereTyped
  <2>4. OwnersBacked(Opened(e))
    BY <1>1, <2>1, <2>2, <2>3, StoredBacked
  <2>5. db' = Opened(e)
    BY <1>6, <2>2
  <2>6. PICK g : g = Opened(e)
    OBVIOUS
  <2> QED
    BY <1>2, <1>4, <1>5, <2>4, <2>5, <2>6 DEF HealInv
<1> QED
  BY <1>6, <1>7, <1>8

LEMMA HealInit == Init => HealInv
<1> SUFFICES ASSUME Init PROVE HealInv
  OBVIOUS
<1>1. db.aown = {} /\ wk = [w \in Workers |-> Idle]
  BY DEF Init
<1>2. PICK rec : rec = Ended("idle")
  OBVIOUS
<1>3. rec = Idle
  BY <1>2 DEF Ended, Idle
<1>4. \A d : Healing(d, rec)
  BY <1>2, NothingToHeal
<1> QED
  BY <1>1, <1>3, <1>4, RowsInit DEF HealInv, OwnersBacked

LEMMA HealNext == HealInv /\ [Next]_vars => HealInv'
<1> SUFFICES ASSUME HealInv, [Next]_vars PROVE HealInv'
  OBVIOUS
<1>1. RowsInv'
  BY RowsNext DEF HealInv
<1>2. CASE UNCHANGED vars
  BY <1>1, <1>2 DEF vars, HealInv
<1>3. CASE CrashRestart
  BY <1>1, <1>3, RestartHeals
<1>4. ASSUME NEW w \in Workers,
             \/ HandleCreateSlug(w) \/ HandleDeleteInstance(w)
             \/ HandleDeleteChecklist(w)
             \/ CheckLink(w) \/ InsertTemplateRelationship(w)
             \/ BeginImport(w) \/ ImportRow(w) \/ ClaimRow(w)
             \/ MergeLineage(w) \/ ReplaceTemplate(w)
             \/ CheckEdges(w) \/ ReplaceEdges(w) \/ ReplaceEdgesFails(w)
             \/ BeginJsonl(w)
      PROVE  HealInv'
  BY <1>1, <1>4, SimpleHeal, BeginHeals, RowHeals, ClaimHeals, MergeHeals, EdgesHeal,
     EdgeFailHeals
<1> QED
  BY <1>2, <1>3, <1>4 DEF Next

\* What ImportHeals says of the last step of an import.
HealedBy(rec, e) ==
  LET inst  == rec.inst
      items == rec.items
      mine  == {o[1] : o \in {o \in e.aown : o[2] = rec.owner}}
      at(n) == e.ord[<<items[n].slug, inst>>]
  IN  /\ {a \in mine : a[2] = inst} = {<<s, inst>> : s \in RowsOf(rec)}
      /\ {s \in e.sown : s[2] = rec.owner} = {<<a[1], rec.owner>> : a \in mine}
      /\ \A m, n \in DOMAIN items :
           /\ m < n /\ SectionOf[items[m].slug] = SectionOf[items[n].slug]
           /\ \A k \in DOMAIN items : m < k => items[k].slug # items[m].slug
           => at(m) < at(n)
      /\ \A r \in rec.rels : Leads(rec, r) => EdgeOf(rec, r) \in e.erel

\* The last edges written, the import has healed its source.
LEMMA LastEdges ==
  ASSUME NEW d, TablesTyped(d), OwnersBacked(d), NEW rec, rec.pc = "edges", Heals(d, rec),
         DOMAIN rec.items \subseteq Nat, NEW slug, rec.left = {slug},
         NEW e, e.aown = d.aown, e.sown = d.sown, e.ord = d.ord,
         \A x \in d.erel : x.subject # <<slug, rec.inst>> => x \in e.erel,
         \A x \in rec.edges : x.subject = <<slug, rec.inst>> => x \in e.erel
  PROVE  HealedBy(rec, e)
<1>1. PICK inst, items, owner, mine, erel, a :
        /\ inst = rec.inst /\ items = rec.items /\ owner = rec.owner
        /\ mine = {o[1] : o \in {o \in d.aown : o[2] = owner}}
        /\ erel = e.erel /\ a = <<slug, inst>>
  OBVIOUS
<1>2. ClaimedItems(rec) = DOMAIN items /\ StoredItems(rec) = DOMAIN items
  BY <1>1 DEF ClaimedItems, StoredItems
<1>3. OwnsItsRows(d, rec) /\ OrdersItsRows(d, rec)
  BY DEF Heals
<1>4. \A n : AddressAt(rec, n) = <<items[n].slug, inst>>
  BY <1>1 DEF AddressAt
<1>5. {b \in mine : b[2] = inst} = {<<s, inst>> : s \in RowsOf(rec)}
  <2>1. ASSUME NEW b \in mine, b[2] = inst PROVE \E s \in RowsOf(rec) : b = <<s, inst>>
    <3>1. PICK o \in d.aown : o[2] = owner /\ b = o[1]
      BY <1>1, <2>1
    <3>2. PICK n \in DOMAIN items : o[1] = AddressAt(rec, n)
      BY <1>1, <1>2, <1>3, <2>1, <3>1 DEF OwnsItsRows
    <3> QED
      BY <1>1, <1>4, <3>1, <3>2 DEF RowsOf
  <2>2. ASSUME NEW s \in RowsOf(rec) PROVE <<s, inst>> \in mine
    <3>1. PICK n \in DOMAIN items : s = items[n].slug
      BY <1>1, <2>2 DEF RowsOf
    <3>2. PICK o : o = <<AddressAt(rec, n), owner>>
      OBVIOUS
    <3>3. o \in d.aown
      BY <1>1, <1>2, <1>3, <3>2 DEF OwnsItsRows
    <3>4. o[2] = owner /\ o[1] = <<s, inst>>
      BY <1>4, <3>1, <3>2
    <3> QED
      BY <1>1, <3>3, <3>4
  <2> QED
    BY <2>1, <2>2
<1>6. {s \in d.sown : s[2] = owner} = {<<b[1], owner>> : b \in mine}
  <2>1. ASSUME NEW s \in d.sown, s[2] = owner PROVE \E b \in mine : s = <<b[1], owner>>
    <3>1. Backed(d, s)
      BY <1>1, <1>3, <2>1 DEF OwnsItsRows
    <3>2. PICK o \in d.aown : o[1][1] = s[1] /\ o[2] = s[2]
      BY <3>1 DEF Backed
    <3>3. o[1] \in mine
      BY <1>1, <2>1, <3>2
    <3>4. s = <<s[1], s[2]>>
      BY DEF TablesTyped
    <3> QED
      BY <2>1, <3>2, <3>3, <3>4
  <2>2. ASSUME NEW b \in mine PROVE <<b[1], owner>> \in d.sown
    <3>1. PICK o \in d.aown : o[2] = owner /\ b = o[1]
      BY <1>1
    <3> QED
      BY <3>1 DEF OwnersBacked
  <2> QED
    BY <2>1, <2>2
<1>7. ASSUME NEW m \in DOMAIN items, NEW n \in DOMAIN items, m < n,
             SectionOf[items[m].slug] = SectionOf[items[n].slug],
             \A k \in DOMAIN items : m < k => items[k].slug # items[m].slug
      PROVE  d.ord[<<items[m].slug, inst>>] < d.ord[<<items[n].slug, inst>>]
  <2>1. PICK k \in DOMAIN items : /\ k >= m /\ items[k].slug = items[m].slug
                                  /\ d.ord[AddressAt(rec, m)] = items[k].ord
    BY <1>1, <1>2, <1>3 DEF OrdersItsRows
  <2>2. PICK l \in DOMAIN items : /\ l >= n /\ items[l].slug = items[n].slug
                                  /\ d.ord[AddressAt(rec, n)] = items[l].ord
    BY <1>1, <1>2, <1>3 DEF OrdersItsRows
  <2>3. k = m /\ m < l
    BY <1>1, <1>7, <2>1, <2>2
  <2>4. items[m].ord < items[l].ord
    BY <1>1, <1>3, <1>7, <2>2, <2>3 DEF OrdersItsRows, InFileOrder
  <2> QED
    BY <1>4, <2>1, <2>2, <2>3, <2>4
<1>8. \A r \in rec.rels : Leads(rec, r) => EdgeOf(rec, r) \in erel
  <2>1. /\ \A x \in d.erel : x.subject # a => x \in erel
        /\ \A x \in rec.edges : x.subject = a => x \in erel
    BY <1>1
  <2>2. \A r \in rec.rels : Leads(rec, r) =>
           /\ EdgeOf(rec, r) \in rec.edges
           /\ r.subject \notin rec.left \ {slug} => EdgeOf(rec, r) \in erel
    BY <1>1, <2>1, EdgesWritten
  <2> QED
    BY <2>2
<1> QED
  BY <1>1, <1>5, <1>6, <1>7, <1>8 DEF HealedBy

\* A step leaves other requests where they are.
LEMMA OthersStay ==
  ASSUME RowsInv, NEW u \in Workers, NEW rec, NEW d, NEW spoiled, NEW undo,
         Write(u, rec, d, spoiled, undo), NEW w \in Workers, w # u
  PROVE  wk'[w].pc = wk[w].pc
<1>1. PICK rec0, calm, undone : /\ rec0 = wk[w] /\ calm = (wk[w].calm /\ d = db)
                                /\ undone = (wk[w].undone \/ w \in undo)
  OBVIOUS
<1>2. wk'[w] = IF Free(w) THEN rec0
               ELSE [rec0 EXCEPT !.calm = calm, !.undone = undone]
  BY <1>1 DEF Write
<1>3. IsJob(rec0)
  BY <1>1 DEF RowsInv, JobTyped
<1> QED
  BY <1>1, <1>2, <1>3 DEF IsJob

\* Only its last ReplaceRelationships lets a replacing import succeed.
LEMMA LastStep ==
  ASSUME HealInv, Next, NEW w \in Workers, Succeeds(w), wk[w].kind = "replace", wk[w].calm
  PROVE  /\ wk[w].pc = "edges"
         /\ \E slug \in wk[w].left :
              LET a == <<slug, wk[w].inst>>
              IN  /\ wk[w].left = {slug}
                  /\ db' = WithEdges(db, a, {e \in wk[w].edges : e.subject = a})
<1>1. RowsInv /\ wk = [u \in Workers |-> wk[u]]
  BY DEF HealInv, RowsInv
<1>2. /\ ~Free(w) /\ wk'[w].pc = "ok" /\ wk[w].pc # "link"
  BY DEF Succeeds, Free, HealInv, Healing, Over, Heals
<1>3. ~CrashRestart
  BY <1>2 DEF CrashRestart, Idle
<1>4. PICK u \in Workers :
        \/ HandleCreateSlug(u) \/ HandleDeleteInstance(u)
        \/ HandleDeleteChecklist(u)
        \/ CheckLink(u) \/ InsertTemplateRelationship(u)
        \/ BeginImport(u) \/ ImportRow(u) \/ ClaimRow(u)
        \/ MergeLineage(u) \/ ReplaceTemplate(u)
        \/ CheckEdges(u) \/ ReplaceEdges(u) \/ ReplaceEdgesFails(u)
        \/ BeginJsonl(u)
  BY <1>3 DEF Next
<1>5. ~ReplaceEdgesFails(u)
  <2> SUFFICES ASSUME ReplaceEdgesFails(u) PROVE FALSE
    OBVIOUS
  <2>1. wk' = [wk EXCEPT ![u] = Ended("failed")]
    BY DEF ReplaceEdgesFails
  <2>2. Ended("failed").pc = "failed"
    BY EndedTyped
  <2> QED
    BY <1>1, <1>2, <2>1, <2>2 DEF Free
<1>6. \E rec, d, spoiled, undo : Write(u, rec, d, spoiled, undo)
  BY <1>4, <1>5 DEF HandleCreateSlug, HandleDeleteInstance, HandleDeleteChecklist,
     CheckLink, InsertTemplateRelationship, BeginImport, ImportRow, ClaimRow, MergeLineage,
     ReplaceTemplate, CheckEdges, ReplaceEdges, BeginJsonl
<1>7. u = w
  <2> SUFFICES ASSUME u # w PROVE FALSE
    OBVIOUS
  <2>1. PICK rec, d, spoiled, undo : Write(u, rec, d, spoiled, undo)
    BY <1>6
  <2>2. wk'[w].pc = wk[w].pc
    BY <1>1, <2>1, OthersStay
  <2> QED
    BY <1>2, <2>2 DEF Free
<1>8. InsertTemplateRelationship(w) \/ ImportRow(w) \/ ClaimRow(w) \/ MergeLineage(w)
      \/ ReplaceTemplate(w) \/ CheckEdges(w) \/ ReplaceEdges(w)
  BY <1>2, <1>4, <1>5, <1>7 DEF HandleCreateSlug, HandleDeleteInstance,
     HandleDeleteChecklist, CheckLink, BeginImport, BeginJsonl, Begin
<1>9. IsJob(wk[w])
  BY <1>1 DEF RowsInv, JobTyped
<1>10. PICK rec : rec = wk[w] /\ IsJob(rec)
  BY <1>9
<1>11. ~InsertTemplateRelationship(w)
  BY <1>2 DEF InsertTemplateRelationship, At
<1>12. ~ImportRow(w)
  <2> SUFFICES ASSUME ImportRow(w) PROVE FALSE
    OBVIOUS
  <2>1. wk'[w] = [rec EXCEPT !.pc = "own"]
    BY <1>10 DEF ImportRow, Write
  <2> QED
    BY <1>2, <1>10, <2>1 DEF IsJob
<1>13. ~ClaimRow(w)
  <2> SUFFICES ASSUME ClaimRow(w) PROVE FALSE
    OBVIOUS
  <2>1. wk'[w] \in {Ended("failed"), NextRow(w)}
    BY DEF ClaimRow, Write
  <2>2. Ended("failed").pc = "failed"
    BY EndedTyped
  <2>3. NextRow(w).pc \in {"row", "merge"}
    BY <1>1, NextKind DEF ClaimRow, At
  <2> QED
    BY <1>2, <2>1, <2>2, <2>3
<1>14. ~MergeLineage(w) /\ ~CheckEdges(w)
  <2>1. ASSUME NEW pc, pc # "ok", NEW f, NEW g
        PROVE  /\ wk'[w] # [rec EXCEPT !.pc = pc, !.read = f, !.rels = g]
               /\ wk'[w] # [rec EXCEPT !.pc = pc, !.left = f, !.edges = g]
    <3>1. PICK e : e = [rec EXCEPT !.pc = pc]
      OBVIOUS
    <3>2. IsJob(e) /\ e.pc = pc
      BY <1>10, <3>1 DEF IsJob
    <3>3. PICK e1, e2 : e1 = [e EXCEPT !.read = f] /\ e2 = [e EXCEPT !.left = f]
      OBVIOUS
    <3>4. IsJob(e1) /\ e1.pc = pc /\ IsJob(e2) /\ e2.pc = pc
      BY <3>2, <3>3 DEF IsJob
    <3>5. PICK next1, next2 :
            next1 = [e1 EXCEPT !.rels = g] /\ next2 = [e2 EXCEPT !.edges = g]
      OBVIOUS
    <3>6. next1.pc = pc /\ next2.pc = pc
      BY <3>4, <3>5 DEF IsJob
    <3>7. /\ [rec EXCEPT !.pc = pc, !.read = f, !.rels = g] = next1
          /\ [rec EXCEPT !.pc = pc, !.left = f, !.edges = g] = next2
      BY <3>1, <3>3, <3>5
    <3> QED
      BY <1>2, <2>1, <3>6, <3>7
  <2>2. ASSUME MergeLineage(w) PROVE FALSE
    <3>1. \E f, g : wk'[w] = [rec EXCEPT !.pc = "template", !.read = f, !.rels = g]
      BY <1>10, <2>2 DEF MergeLineage, Write
    <3> QED
      BY <2>1, <3>1
  <2>3. ASSUME CheckEdges(w) PROVE FALSE
    <3>1. \E f, g : wk'[w] = [rec EXCEPT !.pc = "edges", !.left = f, !.edges = g]
      BY <1>10, <2>3 DEF CheckEdges, Write
    <3> QED
      BY <2>1, <3>1
  <2> QED
    BY <2>2, <2>3
<1>15. ~ReplaceTemplate(w)
  <2> SUFFICES ASSUME ReplaceTemplate(w) PROVE FALSE
    OBVIOUS
  <2>1. wk'[w] = [rec EXCEPT !.pc = "check"]
    BY <1>10 DEF ReplaceTemplate, Write
  <2> QED
    BY <1>2, <1>10, <2>1 DEF IsJob
<1>16. ReplaceEdges(w)
  BY <1>8, <1>11, <1>12, <1>13, <1>14, <1>15
<1>17. PICK slug \in wk[w].left :
         LET a     == <<slug, wk[w].inst>>
             edges == {e \in wk[w].edges : e.subject = a}
         IN  /\ wk[w].pc = "edges"
             /\ Write(w, IF wk[w].left = {slug} THEN Ended("ok")
                         ELSE [wk[w] EXCEPT !.left = @ \ {slug}],
                      WithEdges(db, a, edges), {wk[w].inst}, {})
  BY <1>16 DEF ReplaceEdges, At
<1>18. wk[w].left = {slug}
  <2> SUFFICES ASSUME wk[w].left # {slug} PROVE FALSE
    OBVIOUS
  <2>1. PICK left : left = rec.left \ {slug}
    OBVIOUS
  <2>2. wk'[w] = [rec EXCEPT !.left = left]
    BY <1>10, <1>17, <2>1 DEF Write
  <2>3. wk'[w].pc = rec.pc
    BY <1>10, <2>2 DEF IsJob
  <2> QED
    BY <1>2, <1>10, <1>17, <2>3
<1> QED
  BY <1>17, <1>18 DEF Write

\* A replacing import that runs alone leaves its source with the rows of its
\* file, in the order of the file and joined as the file says, whatever
\* earlier requests and crashes left.
THEOREM ImportsHeal == Spec => ImportHeals
<1> DEFINE Healed ==
      \A w \in Workers : Succeeds(w) /\ wk[w].kind = "replace" /\ wk[w].calm
                         => HealedBy(wk[w], db')
<1>1. ASSUME HealInv, Next PROVE Healed
  <2> SUFFICES ASSUME NEW w \in Workers, Succeeds(w), wk[w].kind = "replace", wk[w].calm
               PROVE  HealedBy(wk[w], db')
    OBVIOUS
  <2>1. /\ wk[w].pc = "edges"
        /\ \E slug \in wk[w].left :
             LET a == <<slug, wk[w].inst>>
             IN  /\ wk[w].left = {slug}
                 /\ db' = WithEdges(db, a, {e \in wk[w].edges : e.subject = a})
    BY <1>1, LastStep
  <2>2. PICK slug : LET a == <<slug, wk[w].inst>>
                    IN  /\ wk[w].left = {slug}
                        /\ db' = WithEdges(db, a, {e \in wk[w].edges : e.subject = a})
    BY <2>1
  <2>3. PICK rec, d, a : rec = wk[w] /\ d = db /\ a = <<slug, wk[w].inst>>
    OBVIOUS
  <2>4. PICK erel, e : /\ erel = {x \in d.erel : x.subject # a}
                                   \cup {x \in rec.edges : x.subject = a}
                       /\ e = [d EXCEPT !.erel = erel]
    OBVIOUS
  <2>5. db' = e
    BY <2>2, <2>3, <2>4 DEF WithEdges
  <2>6. TablesTyped(d) /\ OwnersBacked(d)
    BY <1>1, <2>3 DEF HealInv, RowsInv
  <2>7. e.aown = d.aown /\ e.sown = d.sown /\ e.ord = d.ord /\ e.erel = erel
    BY <2>4, <2>6, FieldAside
  <2>8. Heals(d, rec)
    BY <1>1, <2>1, <2>3 DEF HealInv, Healing, Over
  <2>9. DOMAIN rec.items \subseteq Nat
    <3>1. PICK items, S : items = rec.items /\ S = [slug : Slugs, ord : Int]
      OBVIOUS
    <3>2. items \in Seq(S)
      BY <1>1, <2>3, <3>1 DEF HealInv, RowsInv, JobTyped
    <3> QED
      BY <3>1, <3>2, LenProperties
  <2>10. /\ \A x \in d.erel : x.subject # <<slug, rec.inst>> => x \in e.erel
         /\ \A x \in rec.edges : x.subject = <<slug, rec.inst>> => x \in e.erel
    BY <2>3, <2>4, <2>7
  <2>11. HealedBy(rec, e)
    BY <2>1, <2>2, <2>3, <2>6, <2>7, <2>8, <2>9, <2>10, LastEdges, ZenonT(60)
  <2> QED
    BY <2>3, <2>5, <2>11
<1>2. Healed => \A w \in Workers :
       LET inst  == wk[w].inst
           items == wk[w].items
           mine  == {o[1] : o \in {o \in db'.aown : o[2] = wk[w].owner}}
           at(n) == db'.ord[<<items[n].slug, inst>>]
           now(s) == LET latest == Latest(Declared(wk[w].rels), s)
                     IN  IF latest \in RowsOf(wk[w]) THEN latest ELSE s
       IN  Succeeds(w) /\ wk[w].kind = "replace" /\ wk[w].calm =>
             /\ {a \in mine : a[2] = inst} = {<<s, inst>> : s \in RowsOf(wk[w])}
             /\ {s \in db'.sown : s[2] = wk[w].owner}
                  = {<<a[1], wk[w].owner>> : a \in mine}
             /\ \A m, n \in DOMAIN items :
                  /\ m < n /\ SectionOf[items[m].slug] = SectionOf[items[n].slug]
                  /\ \A k \in DOMAIN items : m < k => items[k].slug # items[m].slug
                  => at(m) < at(n)
             /\ \A r \in wk[w].rels :
                  /\ r.predicate \notin LineagePredicates
                  /\ now(r.target) \in RowsOf(wk[w])
                  => Edge(r.subject, r.predicate, now(r.target), inst) \in db'.erel
  BY DEF HealedBy, Leads, EdgeOf, StandsFor
<1>3. HealInv /\ [Next]_vars => [Healed]_vars
  BY <1>1
<1>4. HealInv /\ [Next]_vars => HealInv'
  BY HealNext
<1> HIDE DEF Healed
<1> QED
  BY <1>2, <1>3, <1>4, HealInit, PTL DEF Spec, ImportHeals

-----------------------------------------------------------------------------
(* The walk of ResolveLatestSlugId.                                        *)

\* The id the walk stands on after n steps.
WalkOf(index, start) ==
  LET walk[n \in Nat] ==
        IF n = 0 THEN start
        ELSE LET next == NextOf(index, walk[n - 1])
             IN  IF Cardinality(next) = 1 THEN CHOOSE id \in next : TRUE
                 ELSE walk[n - 1]
  IN  walk

\* One step of it.
Further(index, id) ==
  LET next == NextOf(index, id)
  IN  IF Cardinality(next) = 1 THEN CHOOSE t \in next : TRUE ELSE id

\* The ids a walk may stand on.
Walkable(index, start) == {start} \cup {e[2] : e \in index}

\* The walk begins at its id and goes on step by step.
LEMMA WalkSteps ==
  ASSUME NEW index, NEW start, NEW walk, walk = WalkOf(index, start)
  PROVE  walk[0] = start /\ \A n \in Nat \ {0} : walk[n] = Further(index, walk[n - 1])
<1> DEFINE Walked(s, n) == Further(index, s)
           w[n \in Nat] ==
             IF n = 0 THEN start
             ELSE LET next == NextOf(index, w[n - 1])
                  IN  IF Cardinality(next) = 1 THEN CHOOSE id \in next : TRUE
                      ELSE w[n - 1]
<1>1. walk = w
  BY DEF WalkOf
<1>2. NatInductiveDefHypothesis(w, start, Walked)
  BY DEF NatInductiveDefHypothesis, Further
<1>3. NatInductiveDefConclusion(w, start, Walked)
  BY <1>2, NatInductiveDef
<1> HIDE DEF w
<1>4. w[0] = start /\ \A n \in Nat \ {0} : w[n] = Further(index, w[n - 1])
  BY <1>3 DEF NatInductiveDefConclusion
<1> QED
  BY <1>1, <1>4

\* It is the walk of ResolveLatestSlugId.
LEMMA LatestIs ==
  ASSUME NEW index, NEW start, NEW walk, walk = WalkOf(index, start),
         NEW end, end = walk[Cardinality(Walkable(index, start))]
  PROVE  Latest(index, start) = IF NextOf(index, end) = {} THEN end ELSE None
BY DEF Latest, WalkOf, Walkable

\* It stands on finitely many ids.
LEMMA WalkFinite ==
  ASSUME NEW index, IsFiniteSet(index), NEW start
  PROVE  /\ IsFiniteSet(Walkable(index, start))
         /\ Cardinality(Walkable(index, start)) \in Nat
         /\ \A id : IsFiniteSet(NextOf(index, id))
<1>1. PICK f : f = [e \in index |-> e[2]]
  OBVIOUS
<1>2. IsFiniteSet({f[e] : e \in index})
  BY ImageFinite
<1>3. {f[e] : e \in index} = {e[2] : e \in index}
  BY <1>1
<1>4. IsFiniteSet(Walkable(index, start))
  BY <1>2, <1>3, FS_Union, FS_Singleton DEF Walkable
<1>5. ASSUME NEW id PROVE IsFiniteSet(NextOf(index, id))
  <2>1. NextOf(index, id) \in SUBSET {f[e] : e \in index}
    BY <1>1 DEF NextOf
  <2> QED
    BY <1>2, <2>1, FS_Subset
<1> QED
  BY <1>4, <1>5, FS_CardinalityType

\* A step goes to a successor, or nowhere.
LEMMA FurtherIs ==
  ASSUME NEW index, IsFiniteSet(index), NEW id
  PROVE  /\ NextOf(index, id) = {} => Further(index, id) = id
         /\ Further(index, id) = id \/ NextOf(index, id) = {Further(index, id)}
         /\ \A next : NextOf(index, id) = {next} => Further(index, id) = next
<1>1. PICK next : next = NextOf(index, id)
  OBVIOUS
<1>2. IsFiniteSet(next)
  BY <1>1, WalkFinite
<1>3. Cardinality({}) = 0
  BY FS_EmptySet
<1>4. Further(index, id) = IF Cardinality(next) = 1 THEN CHOOSE t \in next : TRUE ELSE id
  BY <1>1 DEF Further
<1>5. CASE Cardinality(next) = 1
  <2>1. PICK t : next = {t}
    BY <1>2, <1>5, FS_Singleton
  <2>2. Further(index, id) = t
    BY <1>4, <1>5, <2>1
  <2> QED
    BY <1>1, <2>1, <2>2
<1>6. CASE Cardinality(next) # 1
  <2>1. \A t : next # {t}
    BY <1>6, FS_Singleton
  <2> QED
    BY <1>1, <1>4, <1>6, <2>1
<1> QED
  BY <1>5, <1>6

\* From an id without a successor the walk goes nowhere.
LEMMA WalkStays ==
  ASSUME NEW index, IsFiniteSet(index), NEW start, NEW walk, walk = WalkOf(index, start),
         NEW n \in Nat, NextOf(index, walk[n]) = {}
  PROVE  \A m \in Nat : m >= n => walk[m] = walk[n]
<1>1. PICK Wrong : Wrong = {m \in Nat : m >= n /\ walk[m] # walk[n]}
  OBVIOUS
<1> SUFFICES ASSUME Wrong # {} PROVE FALSE
  BY <1>1
<1>2. PICK m \in Wrong : \A k \in Wrong : ~(k < m)
  BY <1>1, LeastNat
<1>3. m \in Nat \ {0} /\ m > n /\ m - 1 \in Nat /\ m - 1 >= n
  BY <1>1, <1>2
<1>4. walk[m - 1] = walk[n]
  BY <1>1, <1>2, <1>3
<1>5. walk[m] = Further(index, walk[n])
  BY <1>3, <1>4, WalkSteps
<1>6. walk[m] = walk[n]
  BY <1>5, FurtherIs
<1> QED
  BY <1>1, <1>2, <1>6

\* It stands on its first id and on successors.
LEMMA WalkInside ==
  ASSUME NEW index, IsFiniteSet(index), NEW start, NEW walk, walk = WalkOf(index, start)
  PROVE  \A n \in Nat : walk[n] \in Walkable(index, start)
<1>1. PICK Wrong : Wrong = {n \in Nat : walk[n] \notin Walkable(index, start)}
  OBVIOUS
<1> SUFFICES ASSUME Wrong # {} PROVE FALSE
  BY <1>1
<1>2. PICK n \in Wrong : \A k \in Wrong : ~(k < n)
  BY <1>1, LeastNat
<1>3. n \in Nat \ {0}
  BY <1>1, <1>2, WalkSteps DEF Walkable
<1>4. n - 1 \in Nat /\ walk[n - 1] \in Walkable(index, start)
  BY <1>1, <1>2, <1>3
<1>5. walk[n] = Further(index, walk[n - 1])
  BY <1>3, WalkSteps
<1>6. walk[n] = walk[n - 1] \/ walk[n] \in NextOf(index, walk[n - 1])
  BY <1>5, FurtherIs
<1>7. walk[n] \in Walkable(index, start)
  BY <1>4, <1>6 DEF NextOf, Walkable
<1> QED
  BY <1>1, <1>2, <1>7

\* A walk that meets an id again walks in a circle.
LEMMA WalkRepeats ==
  ASSUME NEW index, NEW start, NEW walk, walk = WalkOf(index, start),
         NEW k \in Nat, NEW l \in Nat, walk[k] = walk[l]
  PROVE  \A j \in Nat : walk[k + j] = walk[l + j]
<1>1. PICK Wrong : Wrong = {j \in Nat : walk[k + j] # walk[l + j]}
  OBVIOUS
<1> SUFFICES ASSUME Wrong # {} PROVE FALSE
  BY <1>1
<1>2. PICK j \in Wrong : \A i \in Wrong : ~(i < j)
  BY <1>1, LeastNat
<1>3. j \in Nat \ {0}
  BY <1>1, <1>2
<1>4. walk[k + (j - 1)] = walk[l + (j - 1)]
  BY <1>1, <1>2, <1>3
<1>5. /\ walk[k + j] = Further(index, walk[k + (j - 1)])
      /\ walk[l + j] = Further(index, walk[l + (j - 1)])
  <2>1. \A n \in Nat \ {0} : walk[n] = Further(index, walk[n - 1])
    BY WalkSteps
  <2>2. /\ k + j \in Nat \ {0} /\ (k + j) - 1 = k + (j - 1)
        /\ l + j \in Nat \ {0} /\ (l + j) - 1 = l + (j - 1)
    BY <1>3
  <2> QED
    BY <2>1, <2>2
<1> QED
  BY <1>1, <1>2, <1>4, <1>5

\* ResolveLatestSlugId, which walks as many steps as there are ids, finds
\* the last slug of a chain however long it is.
LEMMA LatestReached ==
  ASSUME NEW index, IsFiniteSet(index), NEW start, NEW walk, walk = WalkOf(index, start),
         NEW n \in Nat, NextOf(index, walk[n]) = {}
  PROVE  Latest(index, start) = walk[n]
<1>1. PICK ids, count : ids = Walkable(index, start) /\ count = Cardinality(ids)
  OBVIOUS
<1>2. IsFiniteSet(ids) /\ count \in Nat
  BY <1>1, WalkFinite
<1>3. PICK Ends : Ends = {m \in Nat : NextOf(index, walk[m]) = {}}
  OBVIOUS
<1>4. PICK m \in Ends : \A k \in Ends : ~(k < m)
  BY <1>3, LeastNat
<1>5. m \in Nat /\ m <= n /\ NextOf(index, walk[m]) = {}
  BY <1>3, <1>4
<1>6. m <= count
  <2> SUFFICES ASSUME m > count PROVE FALSE
    BY <1>2, <1>5
  <2>1. PICK steps : steps = 0 .. m
    OBVIOUS
  <2>2. IsFiniteSet(steps) /\ Cardinality(steps) = m + 1
    BY <1>5, <2>1, FS_Interval
  <2>3. PICK f : f = [k \in steps |-> walk[k]]
    OBVIOUS
  <2>4. f \in [steps -> ids]
    BY <1>1, <1>5, <2>1, <2>3, WalkInside
  <2>5. \E k, l \in steps : k # l /\ f[k] = f[l]
    BY <1>1, <1>2, <1>5, <2>2, <2>4, FS_PigeonHole
  <2>6. ASSUME NEW k1 \in 0 .. m, NEW l1 \in 0 .. m, k1 < l1, walk[k1] = walk[l1] PROVE FALSE
    <3>1. m - l1 \in Nat /\ l1 + (m - l1) = m /\ k1 + (m - l1) \in Nat /\ k1 + (m - l1) < m
          /\ k1 \in Nat /\ l1 \in Nat
      BY <1>5, <2>6
    <3>2. walk[k1 + (m - l1)] = walk[l1 + (m - l1)]
      BY <2>6, <3>1, WalkRepeats
    <3>3. k1 + (m - l1) \in Ends
      BY <1>3, <1>5, <3>1, <3>2
    <3> QED
      BY <1>4, <3>1, <3>3
  <2>7. PICK k \in steps, l \in steps : k # l /\ f[k] = f[l]
    BY <2>5
  <2>8. walk[k] = walk[l] /\ (k < l \/ l < k) /\ k \in 0 .. m /\ l \in 0 .. m
    BY <1>5, <2>1, <2>3, <2>7
  <2> QED
    BY <2>6, <2>8
<1>7. walk[n] = walk[m] /\ walk[count] = walk[m]
  BY <1>2, <1>5, <1>6, WalkStays
<1>8. Latest(index, start) = IF NextOf(index, walk[count]) = {} THEN walk[count] ELSE None
  BY <1>1, LatestIs
<1> QED
  BY <1>5, <1>7, <1>8

-----------------------------------------------------------------------------
(* The lineage as it grows with a row.                                     *)

\* No id is replaced by two.
Functional(index) == \A id : Cardinality(NextOf(index, id)) <= 1

\* The one successor of an id.
LEMMA OneNext ==
  ASSUME NEW index, IsFiniteSet(index), Functional(index), NEW id, NEW next,
         <<id, next>> \in index
  PROVE  NextOf(index, id) = {next} /\ Further(index, id) = next
<1>1. PICK nexts : nexts = NextOf(index, id)
  OBVIOUS
<1>2. next \in nexts /\ IsFiniteSet(nexts) /\ Cardinality(nexts) <= 1
  <2>1. PICK e \in index : e[1] = id /\ e[2] = next
    OBVIOUS
  <2>2. next \in nexts
    BY <1>1, <2>1 DEF NextOf
  <2>3. IsFiniteSet(nexts)
    BY <1>1, WalkFinite
  <2>4. Cardinality(nexts) <= 1
    BY <1>1 DEF Functional
  <2> QED
    BY <2>2, <2>3, <2>4
<1>3. Cardinality(nexts) \in Nat /\ Cardinality(nexts) # 0
  BY <1>2, FS_CardinalityType, FS_EmptySet
<1>4. Cardinality(nexts) = 1
  BY <1>2, <1>3
<1>5. PICK t : nexts = {t}
  BY <1>2, <1>4, FS_Singleton
<1>6. nexts = {next}
  BY <1>2, <1>5
<1> QED
  BY <1>1, <1>6, FurtherIs

\* An index that ends at an id whose walk ends there.
LEMMA LatestEnds ==
  ASSUME NEW index, IsFiniteSet(index), NEW start, NEW last, last # None,
         Latest(index, start) = last
  PROVE  /\ NextOf(index, last) = {}
         /\ \E n \in Nat : WalkOf(index, start)[n] = last
<1>1. PICK walk, n : walk = WalkOf(index, start) /\ n = Cardinality(Walkable(index, start))
  OBVIOUS
<1>2. n \in Nat
  BY <1>1, WalkFinite
<1>3. PICK end : end = walk[n]
  OBVIOUS
<1>4. Latest(index, start) = IF NextOf(index, end) = {} THEN end ELSE None
  BY <1>1, <1>3, LatestIs
<1> QED
  BY <1>1, <1>2, <1>3, <1>4

\* Two walks of the same length, one of which ends where neither goes on:
\* they agree, as long as an edge that only one of them has would lead to
\* another id where both stop.
LEMMA WalksAgree ==
  ASSUME NEW index, IsFiniteSet(index), NEW more, IsFiniteSet(more), index \subseteq more,
         Functional(index), Functional(more), \A e \in more : e = <<e[1], e[2]>>,
         NEW s, NextOf(more, s) = {}, \A e \in more \ index : e[2] = s,
         NEW start, NEW old, old = WalkOf(index, start), NEW new, new = WalkOf(more, start),
         NEW n \in Nat, NEW last, last # s, NextOf(more, last) = {},
         old[n] = last \/ new[n] = last
  PROVE  old[n] = new[n]
<1>1. PICK Wrong : Wrong = {m \in 0 .. n : old[m] # new[m]}
  OBVIOUS
<1> SUFFICES ASSUME Wrong # {} PROVE FALSE
  BY <1>1
<1>2. PICK m \in Wrong : \A k \in Wrong : ~(k < m)
  <2>1. Wrong \subseteq Nat
    BY <1>1
  <2> QED
    BY <2>1, LeastNat
<1>3. m \in Nat \ {0} /\ m - 1 \in Nat /\ m - 1 < m /\ m <= n
  BY <1>1, <1>2, WalkSteps
<1>4. PICK id : id = old[m - 1]
  OBVIOUS
<1>5. new[m - 1] = id
  BY <1>1, <1>2, <1>3, <1>4
<1>6. old[m] = Further(index, id) /\ new[m] = Further(more, id)
  BY <1>3, <1>4, <1>5, WalkSteps
<1>7. PICK e \in more : e[1] = id
  <2> SUFFICES ASSUME NextOf(more, id) = {} PROVE FALSE
    BY DEF NextOf
  <2>1. NextOf(index, id) = {}
    BY DEF NextOf
  <2>2. Further(index, id) = id /\ Further(more, id) = id
    BY <2>1, FurtherIs
  <2> QED
    BY <1>1, <1>2, <1>6, <2>2
<1>8. PICK t : t = e[2]
  OBVIOUS
<1>9. <<id, t>> \in more /\ e = <<id, t>>
  BY <1>7, <1>8
<1>10. NextOf(more, id) = {t} /\ new[m] = t
  BY <1>6, <1>9, OneNext
<1>11. e \notin index
  <2> SUFFICES ASSUME e \in index PROVE FALSE
    OBVIOUS
  <2>1. old[m] = t
    BY <1>6, <1>9, OneNext
  <2> QED
    BY <1>1, <1>2, <1>10, <2>1
<1>12. t = s
  BY <1>7, <1>8, <1>11
<1>13. NextOf(index, id) = {}
  <2> SUFFICES ASSUME NEW f \in index, f[1] = id PROVE FALSE
    BY DEF NextOf
  <2>1. f = <<id, f[2]>> /\ f[2] \in NextOf(more, id)
    BY DEF NextOf
  <2>2. f = e
    BY <1>9, <1>10, <2>1
  <2> QED
    BY <1>11, <2>2
<1>14. old[n] = id
  BY <1>3, <1>4, <1>13, WalkStays
<1>15. new[n] = s
  BY <1>3, <1>10, <1>12, WalkStays
<1>16. NextOf(more, id) # {}
  BY <1>10
<1> QED
  BY <1>14, <1>15, <1>16

\* A row that nothing replaces may only lengthen the walks that now end at
\* it: what else stands last stands last as before.
LEMMA GrownLineage ==
  ASSUME NEW index, IsFiniteSet(index), NEW more, IsFiniteSet(more), index \subseteq more,
         Functional(index), Functional(more), \A e \in more : e = <<e[1], e[2]>>,
         NEW s, NextOf(more, s) = {}, \A e \in more \ index : e[2] = s,
         NEW start, NEW last, last # s, last # None, NextOf(more, last) = {}
  PROVE  Latest(more, start) = last <=> Latest(index, start) = last
<1>1. PICK old, new : old = WalkOf(index, start) /\ new = WalkOf(more, start)
  OBVIOUS
<1>2. NextOf(index, last) = {}
  BY DEF NextOf
<1>3. ASSUME Latest(more, start) = last
      PROVE  Latest(index, start) = last
  <2>1. PICK n \in Nat : new[n] = last
    BY <1>1, <1>3, LatestEnds
  <2>2. old[n] = last
    BY <1>1, <2>1, WalksAgree
  <2> QED
    BY <1>1, <1>2, <2>2, LatestReached
<1>4. ASSUME Latest(index, start) = last
      PROVE  Latest(more, start) = last
  <2>1. PICK n \in Nat : old[n] = last
    BY <1>1, <1>4, LatestEnds
  <2>2. new[n] = last
    BY <1>1, <2>1, WalksAgree
  <2> QED
    BY <1>1, <2>2, LatestReached
<1> QED
  BY <1>3, <1>4

-----------------------------------------------------------------------------
(* The relationships that are loaded, and the edges they ask for.          *)

\* The ordinary edges of an instance, and those that MaterialisedWhole asks
\* for.
EdgesIn(d, inst) ==
  {x \in d.erel : x.subject[2] = inst /\ x.predicate \notin LineagePredicates}

Wanted(d, inst) ==
  {Edge(Now(d, r.subject), r.predicate, Now(d, r.target), inst) :
     r \in {r \in Loaded(d) : /\ r.predicate \notin LineagePredicates
                              /\ Now(d, r.subject) \in Present(d, inst)
                              /\ Now(d, r.target) \in Present(d, inst)}}

WholeIn(d, inst) ==
  Unbranched(Loaded(d)) /\ AllCurrent(d, inst) => EdgesIn(d, inst) = Wanted(d, inst)

\* The rows of an instance are those at its addresses.
LEMMA PresentIs ==
  ASSUME NEW d, d.rows \subseteq Addresses, NEW inst
  PROVE  /\ \A s : s \in Present(d, inst) <=> <<s, inst>> \in d.rows
         /\ Present(d, inst) \subseteq Slugs /\ None \notin Present(d, inst)
<1>1. ASSUME NEW s, s \in Present(d, inst) PROVE <<s, inst>> \in d.rows /\ s \in Slugs
  <2>1. PICK a \in d.rows : a[2] = inst /\ a[1] = s
    BY <1>1 DEF Present
  <2>2. a = <<s, inst>> /\ s \in Slugs
    BY <2>1 DEF Addresses
  <2> QED
    BY <2>1, <2>2
<1>2. ASSUME NEW s, <<s, inst>> \in d.rows PROVE s \in Present(d, inst)
  <2>1. PICK a \in d.rows : a = <<s, inst>>
    BY <1>2
  <2>2. a[2] = inst /\ a[1] = s
    BY <2>1
  <2> QED
    BY <2>1, <2>2 DEF Present
<1> QED
  BY <1>1, <1>2, RequestAssumption

\* What TablesTyped says of the rows and the relationships.
LEMMA LoadedIs ==
  ASSUME NEW d, TablesTyped(d)
  PROVE  /\ d.rows \subseteq Addresses
         /\ Loaded(d) \subseteq d.trel /\ Related(Loaded(d))
<1>1. d.rows \subseteq Addresses
  BY DEF TablesTyped, Orders, Addresses
<1>2. Loaded(d) \subseteq d.trel
  BY DEF Loaded
<1> QED
  BY <1>1, <1>2, RelatedTogether DEF TablesTyped

\* The index of replacements joins slugs, finitely many.
LEMMA IndexIs ==
  ASSUME NEW rels, Related(rels), NEW index, index = SuccessorIndex(rels)
  PROVE  /\ IsFiniteSet(index)
         /\ \A e \in index : e = <<e[1], e[2]>> /\ e[1] \in Slugs /\ e[2] \in Slugs
         /\ Unbranched(rels) => Functional(index)
<1>1. IsFiniteSet(index)
  <2>1. index \in SUBSET Declared(rels)
    BY DEF SuccessorIndex
  <2> QED
    BY <2>1, FinitelyDeclared, FS_Subset DEF Related
<1>2. ASSUME NEW e \in index PROVE e = <<e[1], e[2]>> /\ e[1] \in Slugs /\ e[2] \in Slugs
  <2>1. PICK r \in rels : e = <<r.subject, r.target>> \/ e = <<r.target, r.subject>>
    BY DEF SuccessorIndex, Declared
  <2> QED
    BY <2>1 DEF Related
<1>3. ASSUME Unbranched(rels), NEW id PROVE Cardinality(NextOf(index, id)) <= 1
  <2>1. CASE id \in Slugs
    BY <1>3, <2>1 DEF Unbranched
  <2>2. CASE id \notin Slugs
    <3>1. NextOf(index, id) = {}
      BY <1>2, <2>2 DEF NextOf
    <3> QED
      BY <3>1, FS_EmptySet
  <2> QED
    BY <2>1, <2>2
<1> QED
  BY <1>1, <1>2, <1>3 DEF Functional

\* A slug stands for itself when nothing replaces it.
LEMMA StandsForItself ==
  ASSUME NEW rels, Related(rels), NEW index, index = SuccessorIndex(rels), NEW s \in Slugs
  PROVE  Latest(index, s) = s <=> NextOf(index, s) = {}
<1>1. IsFiniteSet(index) /\ s # None
  BY IndexIs, RequestAssumption
<1> QED
  BY <1>1, LatestOfLast, LatestEnds

\* A new row loads the relationships whose subject it is.
LEMMA RowLoads ==
  ASSUME NEW d, NEW a \in Addresses, NEW e, e.rows = d.rows \cup {a}, e.trel = d.trel
  PROVE  /\ Loaded(d) \subseteq Loaded(e)
         /\ \A r \in Loaded(e) \ Loaded(d) : r.subject = a[1]
BY DEF Loaded

\* A new row that nothing replaces adds replacements by it, and no others.
LEMMA RowReplaces ==
  ASSUME NEW few, NEW rels, few \subseteq rels, NEW s,
         \A r \in rels \ few : r.subject = s,
         NEW index, index = SuccessorIndex(few), NEW more, more = SuccessorIndex(rels),
         NextOf(more, s) = {}
  PROVE  /\ index \subseteq more
         /\ \A e \in more \ index : e[2] = s
<1>1. index \subseteq more
  BY DEF SuccessorIndex, Declared
<1>2. ASSUME NEW e \in more \ index PROVE e[2] = s
  <2>1. e[1] # s
    BY DEF NextOf
  <2>2. PICK r \in rels : \/ e = <<r.subject, r.target>> /\ r.predicate = Successor
                          \/ e = <<r.target, r.subject>> /\ r.predicate = Predecessor
    BY DEF SuccessorIndex, Declared
  <2>3. r \notin few
    <3> SUFFICES ASSUME r \in few PROVE FALSE
      OBVIOUS
    <3>1. e \in Declared(few)
      BY <2>2 DEF Declared
    <3>2. e[1] # e[2]
      BY DEF SuccessorIndex
    <3> QED
      BY <3>1, <3>2 DEF SuccessorIndex
  <2>4. r.subject = s
    BY <2>3
  <2>5. e = <<r.target, s>>
    BY <2>1, <2>2, <2>4
  <2> QED
    BY <2>5
<1> QED
  BY <1>1, <1>2

\* Fewer relationships branch no more.
LEMMA FewerUnbranched ==
  ASSUME NEW rels, Related(rels), NEW few, few \subseteq rels, Unbranched(rels)
  PROVE  Unbranched(few)
<1>1. ASSUME NEW s \in Slugs PROVE Cardinality(NextOf(SuccessorIndex(few), s)) <= 1
  <2>1. PICK N, M : N = NextOf(SuccessorIndex(few), s) /\ M = NextOf(SuccessorIndex(rels), s)
    OBVIOUS
  <2>2. N \subseteq M
    BY <2>1 DEF NextOf, SuccessorIndex, Declared
  <2>3. IsFiniteSet(M) /\ Cardinality(M) <= 1
    BY <2>1, IndexIs, WalkFinite DEF Unbranched
  <2>4. Cardinality(N) \in Nat /\ Cardinality(M) \in Nat /\ Cardinality(N) <= Cardinality(M)
    BY <2>2, <2>3, FS_Subset, FS_CardinalityType
  <2> QED
    BY <2>1, <2>3, <2>4
<1> QED
  BY <1>1 DEF Unbranched

\* Where no superseded row is present, resolve_for_instance is the lineage.
LEMMA ResolvedIs ==
  ASSUME NEW d, d.rows \subseteq Addresses, NEW inst, AllCurrent(d, inst), NEW slug
  PROVE  ResolvedHere(d, slug, inst) =
           IF Now(d, slug) \in Present(d, inst) THEN Now(d, slug) ELSE None
<1>1. PICK now : now = Now(d, slug)
  OBVIOUS
<1>2. ResolvedHere(d, slug, inst) =
        IF slug \in Present(d, inst) THEN slug
        ELSE IF now # None /\ now \in Present(d, inst) THEN now ELSE None
  BY <1>1, PresentIs DEF ResolvedHere, Has, Now
<1>3. slug \in Present(d, inst) => now = slug
  BY <1>1 DEF AllCurrent
<1>4. None \notin Present(d, inst)
  BY PresentIs
<1> QED
  BY <1>1, <1>2, <1>3, <1>4

-----------------------------------------------------------------------------
(* The edges that UpsertSlug gives a new row.                              *)

\* An edge of the kind MaterialisedWhole asks for.
LEMMA WantedIs ==
  ASSUME NEW d, NEW inst, NEW x
  PROVE  x \in Wanted(d, inst) <=>
           \E r \in Loaded(d) :
             /\ r.predicate \notin LineagePredicates
             /\ Now(d, r.subject) \in Present(d, inst)
             /\ Now(d, r.target) \in Present(d, inst)
             /\ x = Edge(Now(d, r.subject), r.predicate, Now(d, r.target), inst)
BY DEF Wanted

LEMMA EdgeIs ==
  ASSUME NEW s, NEW p, NEW t, NEW inst
  PROVE  /\ Edge(s, p, t, inst).subject = <<s, inst>>
         /\ Edge(s, p, t, inst).predicate = p
         /\ Edge(s, p, t, inst).target = <<t, inst>>
BY DEF Edge

\* They are those of the template between current rows, as far as the new
\* row is one of the two.
LEMMA NewEdgesWanted ==
  ASSUME NEW d, d.rows \subseteq Addresses, NEW a \in d.rows, AllCurrent(d, a[2]),
         NEW x, x.predicate \notin LineagePredicates
  PROVE  x \in Materialised(d, a) <=>
           x \in Wanted(d, a[2]) /\ (x.subject = a \/ x.target = a)
<1>1. PICK s, inst : a = <<s, inst>> /\ s \in Slugs
  BY DEF Addresses
<1>2. s \in Present(d, inst) /\ None \notin Present(d, inst)
  BY <1>1, PresentIs
<1>3. \A slug : ResolvedHere(d, slug, inst) =
                  IF Now(d, slug) \in Present(d, inst) THEN Now(d, slug) ELSE None
  BY <1>1, ResolvedIs
<1>4. x \in Materialised(d, a) <=>
        \E r \in Loaded(d) :
          \/ /\ Now(d, r.subject) = s /\ ResolvedHere(d, r.target, inst) # None
             /\ x = Edge(s, r.predicate, ResolvedHere(d, r.target, inst), inst)
          \/ /\ Now(d, r.target) = s /\ ResolvedHere(d, r.subject, inst) # None
             /\ x = Edge(ResolvedHere(d, r.subject, inst), r.predicate, s, inst)
  BY <1>1 DEF Materialised, Now
<1>5. x \in Materialised(d, a) <=>
        \E r \in Loaded(d) :
          \/ /\ Now(d, r.subject) = s /\ Now(d, r.target) \in Present(d, inst)
             /\ x = Edge(s, r.predicate, Now(d, r.target), inst)
          \/ /\ Now(d, r.target) = s /\ Now(d, r.subject) \in Present(d, inst)
             /\ x = Edge(Now(d, r.subject), r.predicate, s, inst)
  BY <1>2, <1>3, <1>4
<1>6. ASSUME NEW r \in Loaded(d), x = Edge(Now(d, r.subject), r.predicate, Now(d, r.target), inst)
      PROVE  /\ r.predicate \notin LineagePredicates
             /\ x.subject = a <=> Now(d, r.subject) = s
             /\ x.target = a <=> Now(d, r.target) = s
  BY <1>1, <1>6, EdgeIs
<1> QED
  BY <1>1, <1>2, <1>5, <1>6, WantedIs

\* The relationships between other rows ask for the same edges as before.
LEMMA OthersWanted ==
  ASSUME NEW d, TablesTyped(d), NEW a \in Addresses, a \notin d.rows,
         NEW e, TablesTyped(e), e.rows = d.rows \cup {a}, e.trel = d.trel,
         Unbranched(Loaded(e)), AllCurrent(e, a[2]), NEW x
  PROVE  x \in Wanted(d, a[2]) <=>
           x \in Wanted(e, a[2]) /\ x.subject # a /\ x.target # a
<1>1. PICK s, inst : a = <<s, inst>> /\ s \in Slugs
  BY DEF Addresses
<1>2. PICK index, more : /\ index = SuccessorIndex(Loaded(d))
                         /\ more = SuccessorIndex(Loaded(e))
  OBVIOUS
<1>3. /\ d.rows \subseteq Addresses /\ e.rows \subseteq Addresses
      /\ Related(Loaded(d)) /\ Related(Loaded(e))
      /\ Loaded(d) \subseteq Loaded(e)
      /\ \A r \in Loaded(e) \ Loaded(d) : r.subject = s
  BY <1>1, LoadedIs, RowLoads
<1>4. /\ Present(e, inst) = Present(d, inst) \cup {s} /\ s \notin Present(d, inst)
      /\ Present(e, inst) \subseteq Slugs /\ None \notin Present(e, inst)
  <2>1. \A t : <<t, inst>> = a <=> t = s
    BY <1>1
  <2> QED
    BY <1>1, <1>3, <2>1, PresentIs
<1>5. \A p \in Present(e, inst) : NextOf(more, p) = {}
  <2> SUFFICES ASSUME NEW p \in Present(e, inst) PROVE NextOf(more, p) = {}
    OBVIOUS
  <2>1. Latest(more, p) = p /\ p \in Slugs
    BY <1>1, <1>2, <1>4 DEF AllCurrent, Now
  <2> QED
    BY <1>2, <1>3, <2>1, StandsForItself
<1>6. /\ index \subseteq more /\ \A y \in more \ index : y[2] = s
      /\ IsFiniteSet(index) /\ IsFiniteSet(more) /\ Functional(index) /\ Functional(more)
      /\ \A y \in more : y = <<y[1], y[2]>>
  <2>1. index \subseteq more /\ \A y \in more \ index : y[2] = s
    BY <1>2, <1>3, <1>4, <1>5, RowReplaces
  <2>2. Unbranched(Loaded(d))
    BY <1>3, FewerUnbranched
  <2> QED
    BY <1>2, <1>3, <2>1, <2>2, IndexIs
<1>7. ASSUME NEW slug, NEW p \in Present(d, inst)
      PROVE  Now(e, slug) = p <=> Now(d, slug) = p
  <2>1. p # s /\ p # None /\ NextOf(more, p) = {} /\ NextOf(more, s) = {}
    BY <1>4, <1>5
  <2>2. Latest(more, slug) = p <=> Latest(index, slug) = p
    BY <1>6, <2>1, GrownLineage
  <2> QED
    BY <1>2, <2>2 DEF Now
<1>8. Now(e, s) = s
  BY <1>1, <1>4 DEF AllCurrent
<1>9. ASSUME x \in Wanted(d, inst)
      PROVE  x \in Wanted(e, inst) /\ x.subject # a /\ x.target # a
  <2>1. PICK r \in Loaded(d) :
          /\ r.predicate \notin LineagePredicates
          /\ Now(d, r.subject) \in Present(d, inst)
          /\ Now(d, r.target) \in Present(d, inst)
          /\ x = Edge(Now(d, r.subject), r.predicate, Now(d, r.target), inst)
    BY <1>9, WantedIs
  <2>2. Now(e, r.subject) = Now(d, r.subject) /\ Now(e, r.target) = Now(d, r.target)
    BY <1>7, <2>1
  <2>3. x \in Wanted(e, inst)
    BY <1>3, <1>4, <2>1, <2>2, WantedIs
  <2>4. /\ x.subject = <<Now(d, r.subject), inst>> /\ x.target = <<Now(d, r.target), inst>>
        /\ Now(d, r.subject) # s /\ Now(d, r.target) # s
    BY <1>4, <2>1, EdgeIs
  <2> QED
    BY <1>1, <2>3, <2>4
<1>10. ASSUME x \in Wanted(e, inst), x.subject # a, x.target # a
       PROVE  x \in Wanted(d, inst)
  <2>1. PICK r \in Loaded(e) :
          /\ r.predicate \notin LineagePredicates
          /\ Now(e, r.subject) \in Present(e, inst)
          /\ Now(e, r.target) \in Present(e, inst)
          /\ x = Edge(Now(e, r.subject), r.predicate, Now(e, r.target), inst)
    BY <1>10, WantedIs
  <2>2. x.subject = <<Now(e, r.subject), inst>> /\ x.target = <<Now(e, r.target), inst>>
    BY <2>1, EdgeIs
  <2>3. Now(e, r.subject) \in Present(d, inst) /\ Now(e, r.target) \in Present(d, inst)
    BY <1>1, <1>4, <1>10, <2>1, <2>2
  <2>4. Now(d, r.subject) = Now(e, r.subject) /\ Now(d, r.target) = Now(e, r.target)
    BY <1>7, <2>3
  <2>5. r \in Loaded(d)
    BY <1>3, <1>4, <1>8, <2>1, <2>3
  <2> QED
    BY <2>1, <2>3, <2>4, <2>5, WantedIs
<1> QED
  BY <1>1, <1>9, <1>10

\* What UpsertSlug writes of rows, relationships and edges.
LEMMA UpsertWrites ==
  ASSUME NEW d, TablesTyped(d), NEW a \in Addresses, NEW n \in Int
  PROVE  LET e == UpsertSlug(d, a, n)
         IN  /\ TablesTyped(e) /\ e.rows = d.rows \cup {a} /\ e.trel = d.trel
             /\ e.erel = d.erel \cup NewEdges(d, a)
<1>1. PICK some, e : some = NewEdges(d, a) /\ e = UpsertSlug(d, a, n)
  OBVIOUS
<1>2. some \subseteq NewEdges(d, a) /\ e = [Placed(d, a, n) EXCEPT !.erel = @ \cup some]
  BY <1>1 DEF UpsertSlug
<1>3. /\ e = Tables(d.rows \cup {a}, OrderedRow(d.ord, a, n), Heirs(d, a), d.sown,
                    d.trel, d.erel \cup some)
      /\ TablesTyped(e)
  BY <1>2, UpsertIs
<1> QED
  BY <1>1, <1>3 DEF Tables

\* UpsertSlug of a new row keeps the edges of its instance whole.
LEMMA UpsertWhole ==
  ASSUME NEW d, TablesTyped(d), NEW a \in Addresses, a \notin d.rows, a[2] # Template,
         WholeIn(d, a[2]), NEW n \in Int, NEW e, e = UpsertSlug(d, a, n)
  PROVE  WholeIn(e, a[2])
<1>1. PICK inst, some, f : inst = a[2] /\ some = NewEdges(d, a) /\ f = WithRow(d, a)
  OBVIOUS
<1>2. /\ TablesTyped(e) /\ e.rows = d.rows \cup {a} /\ e.trel = d.trel
      /\ e.erel = d.erel \cup some
  BY <1>1, UpsertWrites
<1>3. f.rows = e.rows /\ f.trel = e.trel
  BY <1>1, <1>2 DEF WithRow, TablesTyped, IsTables
<1>4. some = Materialised(f, a)
  BY <1>1 DEF NewEdges, TablesTyped
<1> SUFFICES ASSUME Unbranched(Loaded(e)), AllCurrent(e, inst), NEW x
             PROVE  x \in EdgesIn(e, inst) <=> x \in Wanted(e, inst)
  BY <1>1 DEF WholeIn
<1>5. Loaded(f) = Loaded(e) /\ Present(f, inst) = Present(e, inst)
  BY <1>3 DEF Loaded, Present
<1>6. AllCurrent(f, inst) /\ Wanted(f, inst) = Wanted(e, inst)
  BY <1>5 DEF AllCurrent, Wanted, Now
<1>7. Unbranched(Loaded(d)) /\ AllCurrent(d, inst)
  <2>1. /\ Related(Loaded(d)) /\ Related(Loaded(e)) /\ Loaded(d) \subseteq Loaded(e)
        /\ d.rows \subseteq Addresses
    BY <1>2, LoadedIs, RowLoads
  <2>2. ASSUME NEW p \in Present(d, inst) PROVE Now(d, p) = p
    <3>1. p \in Present(e, inst) /\ p \in Slugs
      BY <1>2, <2>1, PresentIs DEF Present
    <3>2. NextOf(SuccessorIndex(Loaded(e)), p) = {}
      BY <2>1, <3>1, StandsForItself DEF AllCurrent, Now
    <3>3. NextOf(SuccessorIndex(Loaded(d)), p) = {}
      BY <2>1, <3>2 DEF NextOf, SuccessorIndex, Declared
    <3> QED
      BY <2>1, <3>1, <3>3, StandsForItself DEF Now
  <2> QED
    BY <2>1, <2>2, FewerUnbranched DEF AllCurrent
<1>8. EdgesIn(d, inst) = Wanted(d, inst)
  BY <1>1, <1>7 DEF WholeIn
<1>9. ASSUME x.predicate \notin LineagePredicates
      PROVE  x \in some <=> x \in Wanted(e, inst) /\ (x.subject = a \/ x.target = a)
  <2>1. f.rows \subseteq Addresses /\ a \in f.rows
    BY <1>2, <1>3, LoadedIs
  <2> QED
    BY <1>1, <1>4, <1>6, <1>9, <2>1, NewEdgesWanted
<1>10. x \in Wanted(d, inst) <=> x \in Wanted(e, inst) /\ x.subject # a /\ x.target # a
  BY <1>1, <1>2, OthersWanted
<1>11. x \in Wanted(e, inst) => x.predicate \notin LineagePredicates /\ x.subject[2] = inst
  <2> SUFFICES ASSUME x \in Wanted(e, inst)
               PROVE  x.predicate \notin LineagePredicates /\ x.subject[2] = inst
    OBVIOUS
  <2>1. PICK r \in Loaded(e) :
          /\ r.predicate \notin LineagePredicates
          /\ x = Edge(Now(e, r.subject), r.predicate, Now(e, r.target), inst)
    BY WantedIs
  <2>2. x.predicate = r.predicate /\ x.subject = <<Now(e, r.subject), inst>>
    BY <2>1, EdgeIs
  <2> QED
    BY <2>1, <2>2
<1>12. x \in EdgesIn(e, inst) <=>
         x \in EdgesIn(d, inst) \/ (x \in some /\ x.subject[2] = inst
                                              /\ x.predicate \notin LineagePredicates)
  BY <1>2 DEF EdgesIn
<1> QED
  BY <1>8, <1>9, <1>10, <1>11, <1>12

-----------------------------------------------------------------------------
(* The edges of an instance whose rows do not come.                        *)

\* No row of the instance comes and its edges go only with their rows.
Untouched(d, e, inst) ==
  /\ Present(e, inst) \subseteq Present(d, inst)
  /\ \A x : x \in EdgesIn(e, inst) <=>
              x \in EdgesIn(d, inst) /\ x.subject \in e.rows /\ x.target \in e.rows

\* The ends of its edges are rows of the instance.
LEMMA WantedEnds ==
  ASSUME NEW d, NEW inst, NEW x \in Wanted(d, inst)
  PROVE  \E s, t \in Present(d, inst) : x.subject = <<s, inst>> /\ x.target = <<t, inst>>
<1>1. PICK r \in Loaded(d) :
        /\ Now(d, r.subject) \in Present(d, inst)
        /\ Now(d, r.target) \in Present(d, inst)
        /\ x = Edge(Now(d, r.subject), r.predicate, Now(d, r.target), inst)
  BY WantedIs
<1>2. x.subject = <<Now(d, r.subject), inst>> /\ x.target = <<Now(d, r.target), inst>>
  BY <1>1, EdgeIs
<1> QED
  BY <1>1, <1>2

\* An empty instance has no edges and wants none.
LEMMA EmptyWhole ==
  ASSUME NEW d, TablesTyped(d), NEW inst, Present(d, inst) = {}
  PROVE  WholeIn(d, inst)
<1>1. Wanted(d, inst) = {}
  BY WantedEnds
<1>2. EdgesIn(d, inst) = {}
  BY DEF EdgesIn, TablesTyped, Present
<1> QED
  BY <1>1, <1>2 DEF WholeIn

\* An instance that nothing touches stays whole while the relationships
\* that are loaded stand still.
LEMMA UntouchedWhole ==
  ASSUME NEW d, TablesTyped(d), NEW e, TablesTyped(e), NEW inst, WholeIn(d, inst),
         Untouched(d, e, inst), Loaded(e) = Loaded(d),
         Present(e, inst) = Present(d, inst) \/ AllCurrent(d, inst)
  PROVE  WholeIn(e, inst)
<1> SUFFICES ASSUME Unbranched(Loaded(e)), AllCurrent(e, inst), NEW x
             PROVE  x \in EdgesIn(e, inst) <=> x \in Wanted(e, inst)
  BY DEF WholeIn
<1>1. \A s : Now(e, s) = Now(d, s)
  BY DEF Now
<1>2. EdgesIn(d, inst) = Wanted(d, inst)
  BY <1>1 DEF WholeIn, AllCurrent
<1>3. x \in EdgesIn(e, inst) <=>
        x \in Wanted(d, inst) /\ x.subject \in e.rows /\ x.target \in e.rows
  BY <1>2 DEF Untouched
<1>4. \A s : s \in Present(e, inst) <=> <<s, inst>> \in e.rows
  BY LoadedIs, PresentIs
<1>5. ASSUME x \in Wanted(e, inst)
      PROVE  x \in Wanted(d, inst) /\ x.subject \in e.rows /\ x.target \in e.rows
  <2>1. x \in Wanted(d, inst)
    BY <1>1, <1>5, WantedIs DEF Untouched
  <2>2. PICK s \in Present(e, inst), u \in Present(e, inst) :
          x.subject = <<s, inst>> /\ x.target = <<u, inst>>
    BY <1>5, WantedEnds
  <2> QED
    BY <1>4, <2>1, <2>2
<1>6. ASSUME x \in Wanted(d, inst), x.subject \in e.rows, x.target \in e.rows
      PROVE  x \in Wanted(e, inst)
  <2>1. PICK r \in Loaded(d) :
          /\ r.predicate \notin LineagePredicates
          /\ x = Edge(Now(d, r.subject), r.predicate, Now(d, r.target), inst)
    BY <1>6, WantedIs
  <2>2. <<Now(d, r.subject), inst>> \in e.rows /\ <<Now(d, r.target), inst>> \in e.rows
    BY <1>6, <2>1, EdgeIs
  <2> QED
    BY <1>1, <1>4, <2>1, <2>2, WantedIs
<1> QED
  BY <1>3, <1>5, <1>6

\* Tables with the same rows and edges.
LEMMA SameUntouched ==
  ASSUME NEW d, TablesTyped(d), NEW e, e.rows = d.rows, e.erel = d.erel, NEW inst
  PROVE  Untouched(d, e, inst)
BY DEF Untouched, Present, EdgesIn, TablesTyped

\* A row of another instance with its edges, and other edges of other
\* instances.
LEMMA OthersUntouched ==
  ASSUME NEW d, TablesTyped(d), NEW a, NEW inst, inst # a[2],
         NEW e, e.rows = d.rows \/ e.rows = d.rows \cup {a},
         \A x : x.subject[2] = inst => (x \in e.erel <=> x \in d.erel)
  PROVE  Untouched(d, e, inst)
<1>1. Present(e, inst) = Present(d, inst)
  BY DEF Present
<1>2. EdgesIn(e, inst) = EdgesIn(d, inst)
  BY DEF EdgesIn
<1>3. \A x \in EdgesIn(d, inst) : x.subject \in e.rows /\ x.target \in e.rows
  BY DEF EdgesIn, TablesTyped
<1> QED
  BY <1>1, <1>2, <1>3 DEF Untouched

\* Rows that go with their edges.
LEMMA GoneUntouched ==
  ASSUME NEW d, TablesTyped(d), NEW e, e.rows \subseteq d.rows,
         \A x : x \in e.erel <=> x \in d.erel /\ x.subject \in e.rows /\ x.target \in e.rows,
         NEW inst
  PROVE  Untouched(d, e, inst)
BY DEF Untouched, Present, EdgesIn

-----------------------------------------------------------------------------
(* The operations of the store.                                            *)

LEMMA WithoutRowsEdges ==
  ASSUME NEW d, TablesTyped(d), NEW gone, NEW e, e = WithoutRows(d, gone)
  PROVE  /\ e.rows \subseteq d.rows
         /\ \A x : x \in e.erel <=> x \in d.erel /\ x.subject \in e.rows /\ x.target \in e.rows
<1>1. e = Tables(d.rows \ gone, Restrict(d.ord, DOMAIN d.ord \ gone),
                 {o \in d.aown : o[1] \notin gone}, d.sown, d.trel,
                 {x \in d.erel : x.subject \notin gone /\ x.target \notin gone})
  BY WithoutRowsIs DEF TablesTyped
<1>2. /\ e.rows = d.rows \ gone
      /\ e.erel = {x \in d.erel : x.subject \notin gone /\ x.target \notin gone}
  BY <1>1 DEF Tables
<1> QED
  BY <1>2 DEF TablesTyped

\* The deletes.
LEMMA DeletesUntouched ==
  ASSUME NEW d, TablesTyped(d), NEW inst, NEW owner,
         NEW e \in {DeleteOwnedInstance(d, inst, owner), DeleteInstance(d, inst),
                    DeleteChecklist(d)},
         NEW i
  PROVE  Untouched(d, e, i)
<1>1. CASE e = DeleteOwnedInstance(d, inst, owner)
  <2>1. PICK aown, e1 : /\ aown = {o \in d.aown : o[1][2] # inst \/ o[2] # owner}
                        /\ e1 = [d EXCEPT !.aown = aown]
    OBVIOUS
  <2>2. PICK sown, e2 : /\ sown = {s \in e1.sown : s[2] = owner => Backed(e1, s)}
                        /\ e2 = [e1 EXCEPT !.sown = sown]
    OBVIOUS
  <2>3. PICK gone : gone = {a \in d.rows : a[2] = inst /\ ~ \E o \in e2.aown : o[1] = a}
    OBVIOUS
  <2>4. e = WithoutRows(e2, gone)
    BY <1>1, <2>1, <2>2, <2>3 DEF DeleteOwnedInstance
  <2>5. e1 = Tables(d.rows, d.ord, aown, d.sown, d.trel, d.erel)
    BY <2>1 DEF TablesTyped, IsTables, Tables
  <2>6. e2 = Tables(d.rows, d.ord, aown, sown, d.trel, d.erel)
    BY <2>2, <2>5 DEF Tables
  <2>7. TablesTyped(e2) /\ e2.rows = d.rows /\ e2.erel = d.erel
    <3>1. IsTables(e2) /\ e2.rows = d.rows /\ e2.ord = d.ord /\ e2.aown = aown
          /\ e2.sown = sown /\ e2.trel = d.trel /\ e2.erel = d.erel
      BY <2>6, TableWritten DEF Tables
    <3>2. aown \subseteq d.aown /\ sown \subseteq d.sown
      BY <2>1, <2>2, <2>5 DEF Tables
    <3> QED
      BY <3>1, <3>2 DEF TablesTyped
  <2> QED
    BY <2>4, <2>7, WithoutRowsEdges, GoneUntouched
<1>2. CASE e = DeleteInstance(d, inst)
  <2>1. PICK gone, e1 : /\ gone = {a \in d.rows : a[2] = inst}
                        /\ e1 = WithoutRows(d, gone)
    OBVIOUS
  <2>2. PICK sown : sown = {s \in e1.sown : Backed(e1, s)}
    OBVIOUS
  <2>3. e = [e1 EXCEPT !.sown = sown]
    BY <1>2, <2>1, <2>2 DEF DeleteInstance
  <2>4. TablesTyped(e1)
    BY <2>1, WithoutRowsTyped
  <2>5. e.rows = e1.rows /\ e.erel = e1.erel
    BY <2>3, <2>4 DEF TablesTyped, IsTables
  <2> QED
    BY <2>1, <2>5, WithoutRowsEdges, GoneUntouched
<1>3. CASE e = DeleteChecklist(d) /\ d.rows # {}
  <2>1. PICK slugs, e1 : slugs = {a[1] : a \in d.rows} /\ e1 = WithoutRows(d, d.rows)
    OBVIOUS
  <2>2. PICK trel : trel = {r \in e1.trel : {r.subject, r.target} \cap slugs = {}}
    OBVIOUS
  <2>3. e = [e1 EXCEPT !.sown = {}, !.aown = {}, !.trel = trel]
    BY <1>3, <2>1, <2>2 DEF DeleteChecklist
  <2>4. TablesTyped(e1)
    BY <2>1, WithoutRowsTyped
  <2>5. e.rows = e1.rows /\ e.erel = e1.erel
    BY <2>3, <2>4 DEF TablesTyped, IsTables
  <2> QED
    BY <2>1, <2>5, WithoutRowsEdges, GoneUntouched
<1>4. CASE e = DeleteChecklist(d) /\ d.rows = {}
  <2>1. e = d
    BY <1>4 DEF DeleteChecklist
  <2> QED
    BY <2>1, SameUntouched
<1> QED
  BY <1>1, <1>2, <1>3, <1>4

\* UpsertSlug elsewhere, or of a row that exists.
LEMMA UpsertUntouched ==
  ASSUME NEW d, TablesTyped(d), NEW a \in Addresses, NEW n \in Int,
         NEW e, e = UpsertSlug(d, a, n), NEW inst, inst # a[2] \/ a \in d.rows
  PROVE  Untouched(d, e, inst)
<1>1. e.rows = d.rows \cup {a} /\ e.erel = d.erel \cup NewEdges(d, a)
  BY UpsertWrites
<1>2. CASE a \in d.rows
  <2>1. NewEdges(d, a) = {}
    BY <1>2 DEF NewEdges, TablesTyped
  <2>2. e.rows = d.rows /\ e.erel = d.erel
    BY <1>1, <1>2, <2>1
  <2> QED
    BY <2>2, SameUntouched
<1>3. CASE inst # a[2]
  <2>1. \A x \in NewEdges(d, a) : x.subject[2] = a[2]
    BY EdgeIs DEF NewEdges, Materialised
  <2> QED
    BY <1>1, <1>3, <2>1, OthersUntouched
<1> QED
  BY <1>2, <1>3

\* CreateSlugIfMissing.
LEMMA CreateWrites ==
  ASSUME NEW d, TablesTyped(d), NEW a \in Addresses, NEW n \in Int,
         NEW e, e = CreateSlugIfMissing(d, a, n)
  PROVE  e.rows = d.rows \cup {a} /\ e.erel = d.erel
<1>1. PICK r, sets, ord :
        /\ r = ResolveAddressOrder(d.ord, a, n)
        /\ sets <=> (a \notin d.rows \/ n > 0 \/ a \notin DOMAIN d.ord)
        /\ ord = IF sets THEN WithOrder(r.ord, a, r.next) ELSE r.ord
  OBVIOUS
<1>2. e = Inherited([WithRow(d, a) EXCEPT !.ord = ord], a)
  BY <1>1 DEF CreateSlugIfMissing
<1>3. e = Tables(d.rows \cup {a}, ord, Heirs(d, a), d.sown, d.trel, d.erel)
  BY <1>2, RowPlaced DEF TablesTyped
<1> QED
  BY <1>3 DEF Tables

-----------------------------------------------------------------------------
(* The behaviour: the edges of fresh instances.                            *)

EdgesInv ==
  /\ RowsInv
  /\ fresh \subseteq Instances \ {Template}
  /\ \A i \in fresh : WholeIn(db, i)

\* What a step does to an instance: it is spoiled, nothing of it comes, or
\* it stays whole.
LeavesWhole(d, spoiled, i) ==
  i \in spoiled \/ Untouched(db, d, i) \/ (WholeIn(db, i) => WholeIn(d, i))

LEMMA EdgesKept ==
  ASSUME EdgesInv, RowsInv', NEW d, db' = d, NEW spoiled, fresh' = FreshIn(d, spoiled),
         \A i \in Instances \ {Template} : LeavesWhole(d, spoiled, i)
  PROVE  EdgesInv'
<1>1. TablesTyped(db) /\ TablesTyped(d)
  <2>1. TablesTyped(db)
    BY DEF EdgesInv, RowsInv
  <2>2. TablesTyped(db')
    BY DEF RowsInv
  <2> QED
    BY <2>1, <2>2
<1>2. fresh' \subseteq Instances \ {Template}
  BY DEF FreshIn
<1>3. ASSUME NEW i \in fresh' PROVE WholeIn(d, i)
  <2>1. CASE Present(d, i) = {}
    BY <1>1, <2>1, EmptyWhole
  <2>2. CASE i \in fresh \ spoiled /\ Steady(d, i)
    <3>1. WholeIn(db, i) /\ (Untouched(db, d, i) \/ (WholeIn(db, i) => WholeIn(d, i)))
      BY <2>2 DEF EdgesInv, LeavesWhole
    <3>2. CASE Untouched(db, d, i)
      <4>1. /\ Loaded(d) = Loaded(db)
            /\ Present(d, i) = Present(db, i) \/ AllCurrent(db, i)
        BY <2>2, <3>2 DEF Steady, Untouched
      <4> QED
        BY <1>1, <3>1, <3>2, <4>1, UntouchedWhole
    <3> QED
      BY <3>1, <3>2
  <2> QED
    BY <2>1, <2>2 DEF FreshIn
<1>4. \A i \in fresh' : WholeIn(db', i)
  BY <1>3
<1> QED
  BY <1>2, <1>4 DEF EdgesInv

\* A step of a request that writes tables d.
LEMMA EdgesWrite ==
  ASSUME EdgesInv, RowsInv', NEW w, NEW rec, NEW d, NEW spoiled, NEW undo,
         Write(w, rec, d, spoiled, undo),
         \A i \in Instances \ {Template} : LeavesWhole(d, spoiled, i)
  PROVE  EdgesInv'
BY EdgesKept DEF Write

\* A step that leaves rows and edges alone.
LEMMA SameEdges ==
  ASSUME EdgesInv, RowsInv', NEW w, NEW rec, NEW d, NEW spoiled, NEW undo,
         Write(w, rec, d, spoiled, undo), d.rows = db.rows, d.erel = db.erel
  PROVE  EdgesInv'
<1>1. \A i : Untouched(db, d, i)
  BY SameUntouched DEF EdgesInv, RowsInv
<1> QED
  BY <1>1, EdgesWrite DEF LeavesWhole

\* A step that stores a row by UpsertSlug.
LEMMA UpsertEdges ==
  ASSUME EdgesInv, RowsInv', NEW w, NEW rec, NEW a \in Addresses, NEW n \in Int,
         NEW spoiled, NEW undo, Write(w, rec, UpsertSlug(db, a, n), spoiled, undo)
  PROVE  EdgesInv'
<1>1. TablesTyped(db)
  BY DEF EdgesInv, RowsInv
<1>2. PICK d : d = UpsertSlug(db, a, n)
  OBVIOUS
<1>3. ASSUME NEW i \in Instances \ {Template} PROVE LeavesWhole(d, spoiled, i)
  <2>1. CASE i # a[2] \/ a \in db.rows
    <3>1. Untouched(db, d, i)
      BY <1>1, <1>2, <2>1, UpsertUntouched
    <3> QED
      BY <3>1 DEF LeavesWhole
  <2>2. CASE i = a[2] /\ a \notin db.rows
    <3>1. WholeIn(db, i) => WholeIn(d, i)
      BY <1>1, <1>2, <2>2, UpsertWhole
    <3> QED
      BY <3>1 DEF LeavesWhole
  <2> QED
    BY <2>1, <2>2
<1>4. Write(w, rec, d, spoiled, undo)
  BY <1>2
<1> QED
  BY <1>3, <1>4, EdgesWrite

\* A step that deletes.
LEMMA DeleteEdges ==
  ASSUME EdgesInv, RowsInv', NEW w, NEW rec, NEW inst, NEW owner,
         NEW d \in {DeleteOwnedInstance(db, inst, owner), DeleteInstance(db, inst),
                    DeleteChecklist(db)},
         NEW spoiled, NEW undo, Write(w, rec, d, spoiled, undo)
  PROVE  EdgesInv'
<1>1. \A i : Untouched(db, d, i)
  BY DeletesUntouched DEF EdgesInv, RowsInv
<1> QED
  BY <1>1, EdgesWrite DEF LeavesWhole

\* The requests of one call, and the checks.
LEMMA SimpleEdges ==
  ASSUME EdgesInv, RowsInv', NEW w \in Workers,
         \/ HandleCreateSlug(w) \/ HandleDeleteInstance(w) \/ HandleDeleteChecklist(w)
         \/ CheckLink(w) \/ InsertTemplateRelationship(w) \/ BeginJsonl(w)
  PROVE  EdgesInv'
<1>1. IsTables(db)
  BY DEF EdgesInv, RowsInv, TablesTyped
<1>2. CASE HandleCreateSlug(w)
  <2>1. PICK c \in Creates : \E rec : Write(w, rec, UpsertSlug(db, <<c.slug, c.inst>>, c.ord), {}, {})
    BY <1>2 DEF HandleCreateSlug
  <2>2. <<c.slug, c.inst>> \in Addresses /\ c.ord \in Int
    BY RequestAssumption DEF Addresses
  <2> QED
    BY <2>1, <2>2, UpsertEdges
<1>3. CASE HandleDeleteInstance(w)
  <2>1. PICK inst \in Instances : Write(w, Ended("ok"), DeleteInstance(db, inst), {}, In(inst))
    BY <1>3 DEF HandleDeleteInstance
  <2> QED
    BY <2>1, DeleteEdges
<1>4. CASE HandleDeleteChecklist(w)
  <2>1. Write(w, Ended("ok"), DeleteChecklist(db), {}, Workers)
    BY <1>4 DEF HandleDeleteChecklist
  <2> QED
    BY <2>1, DeleteEdges
<1>5. CASE CheckLink(w)
  <2>1. \E rec : Write(w, rec, db, {}, {})
    BY <1>5 DEF CheckLink
  <2> QED
    BY <2>1, SameEdges
<1>6. CASE InsertTemplateRelationship(w)
  <2>1. PICK d : d = [db EXCEPT !.trel = @ \cup wk[w].rels]
    OBVIOUS
  <2>2. d.rows = db.rows /\ d.erel = db.erel
    BY <1>1, <2>1 DEF IsTables
  <2>3. Write(w, Ended("ok"), d, {}, {})
    BY <1>6, <2>1 DEF InsertTemplateRelationship
  <2> QED
    BY <2>2, <2>3, SameEdges
<1>7. CASE BeginJsonl(w)
  <2>1. \E rec : Write(w, rec, db, {}, {})
    BY <1>7 DEF BeginJsonl
  <2> QED
    BY <2>1, SameEdges
<1> QED
  BY <1>2, <1>3, <1>4, <1>5, <1>6, <1>7

\* The first steps of an import, and its rows.
LEMMA ImportEdges ==
  ASSUME EdgesInv, RowsInv', NEW w \in Workers,
         BeginImport(w) \/ ImportRow(w) \/ ClaimRow(w)
  PROVE  EdgesInv'
<1>1. RowsInv /\ TablesTyped(db) /\ IsTables(db)
  BY DEF EdgesInv, RowsInv, TablesTyped
<1>2. CASE BeginImport(w)
  <2>1. PICK m \in Imports :
          \/ \E undo : Write(w, Importing(m), DeleteOwnedInstance(db, m.inst, m.doc.owner),
                             {}, undo)
          \/ Write(w, Importing(m), db, {}, {})
    BY <1>2 DEF BeginImport
  <2> QED
    BY <2>1, SameEdges, DeleteEdges
<1>3. CASE ImportRow(w)
  <2>1. PICK a, n : a = Here(w) /\ n = Item(w).ord
    OBVIOUS
  <2>2. wk[w].pc = "row"
    BY <1>3 DEF ImportRow, At
  <2>3. a \in Addresses /\ n \in Int
    BY <1>1, <2>1, <2>2, HereTyped
  <2>4. \/ \E rec : Write(w, rec, UpsertSlug(db, a, n), {}, {})
        \/ Write(w, NextRow(w), CreateSlugIfMissing(db, a, n), {wk[w].inst}, {})
    BY <1>3, <2>1 DEF ImportRow
  <2>5. ASSUME Write(w, NextRow(w), CreateSlugIfMissing(db, a, n), {wk[w].inst}, {})
        PROVE  EdgesInv'
    <3>1. PICK d : d = CreateSlugIfMissing(db, a, n)
      OBVIOUS
    <3>2. d.rows = db.rows \cup {a} /\ d.erel = db.erel
      BY <1>1, <2>3, <3>1, CreateWrites
    <3>3. a[2] = wk[w].inst
      BY <2>1 DEF Here
    <3>4. \A i : i # a[2] => Untouched(db, d, i)
      BY <1>1, <3>2, OthersUntouched
    <3>5. \A i : LeavesWhole(d, {wk[w].inst}, i)
      BY <3>3, <3>4 DEF LeavesWhole
    <3> QED
      BY <2>5, <3>1, <3>5, EdgesWrite
  <2> QED
    BY <2>3, <2>4, <2>5, UpsertEdges
<1>4. CASE ClaimRow(w)
  <2>1. PICK d, a, owner : d = Claimed(db, a, owner) /\ \E rec : Write(w, rec, d, {}, {})
    BY <1>4 DEF ClaimRow
  <2>2. d.rows = db.rows /\ d.erel = db.erel
    BY <1>1, <2>1 DEF Claimed, IsTables
  <2> QED
    BY <2>1, <2>2, SameEdges
<1> QED
  BY <1>2, <1>3, <1>4

\* The last steps of an import.
LEMMA LateEdges ==
  ASSUME EdgesInv, RowsInv', NEW w \in Workers,
         MergeLineage(w) \/ ReplaceTemplate(w) \/ CheckEdges(w) \/ ReplaceEdges(w)
  PROVE  EdgesInv'
<1>1. RowsInv /\ TablesTyped(db) /\ IsTables(db)
  BY DEF EdgesInv, RowsInv, TablesTyped
<1>2. CASE MergeLineage(w)
  <2>1. \E rec : Write(w, rec, db, {}, {})
    BY <1>2 DEF MergeLineage
  <2> QED
    BY <2>1, SameEdges
<1>3. CASE ReplaceTemplate(w)
  <2>1. PICK d, subjects, rels : /\ d = WithTemplate(db, subjects, rels)
                                 /\ \E rec : Write(w, rec, d, {}, {})
    BY <1>3 DEF ReplaceTemplate
  <2>2. d.rows = db.rows /\ d.erel = db.erel
    BY <1>1, <2>1 DEF WithTemplate, IsTables
  <2> QED
    BY <2>1, <2>2, SameEdges
<1>4. CASE CheckEdges(w)
  <2>1. \E rec : Write(w, rec, db, {}, {})
    BY <1>4 DEF CheckEdges
  <2> QED
    BY <2>1, SameEdges
<1>5. CASE ReplaceEdges(w)
  <2>1. PICK slug \in wk[w].left : \E edges, rec :
          LET a == <<slug, wk[w].inst>>
          IN  /\ \A e \in edges : e.subject = a
              /\ Write(w, rec, WithEdges(db, a, edges), {wk[w].inst}, {})
    BY <1>5 DEF ReplaceEdges
  <2>2. PICK inst, a : inst = wk[w].inst /\ a = <<slug, inst>>
    OBVIOUS
  <2>3. PICK edges, rec : /\ \A e \in edges : e.subject = a
                          /\ Write(w, rec, WithEdges(db, a, edges), {inst}, {})
    BY <2>1, <2>2
  <2>4. PICK d : d = WithEdges(db, a, edges)
    OBVIOUS
  <2>5. d.rows = db.rows /\ d.erel = {e \in db.erel : e.subject # a} \cup edges
    BY <1>1, <2>4 DEF WithEdges, IsTables
  <2>6. \A x : x.subject[2] # inst => (x \in d.erel <=> x \in db.erel)
    BY <2>2, <2>3, <2>5
  <2>7. \A i : i # inst => Untouched(db, d, i)
    BY <1>1, <2>2, <2>5, <2>6, OthersUntouched
  <2>8. \A i : LeavesWhole(d, {inst}, i)
    BY <2>7 DEF LeavesWhole
  <2> QED
    BY <2>3, <2>4, <2>8, EdgesWrite
<1> QED
  BY <1>2, <1>3, <1>4, <1>5

\* The restart: either the tables are as they were but for the orders, or
\* no instance but an empty one is fresh.
LEMMA RestartEdges ==
  ASSUME EdgesInv, RowsInv', CrashRestart
  PROVE  EdgesInv'
<1>1. TablesTyped(db)
  BY DEF EdgesInv, RowsInv
<1>2. PICK d, e, spoiled :
        /\ e = Opened(d) /\ db' = e /\ fresh' = FreshIn(e, spoiled)
        /\ spoiled = IF d = db THEN {} ELSE Instances
  BY DEF CrashRestart
<1>3. CASE d = db
  <2>1. e.rows = db.rows /\ e.erel = db.erel
    BY <1>1, <1>2, <1>3 DEF Opened, TablesTyped, IsTables
  <2>2. \A i : Untouched(db, e, i)
    BY <1>1, <2>1, SameUntouched
  <2> QED
    BY <1>2, <2>2, EdgesKept DEF LeavesWhole
<1>4. CASE d # db
  <2>1. \A i \in Instances \ {Template} : LeavesWhole(e, spoiled, i)
    BY <1>2, <1>4 DEF LeavesWhole
  <2> QED
    BY <1>2, <2>1, EdgesKept
<1> QED
  BY <1>3, <1>4

LEMMA EdgesNext ==
  ASSUME EdgesInv, [Next]_vars
  PROVE  EdgesInv'
<1>1. RowsInv'
  BY RowsNext DEF EdgesInv
<1>2. CASE UNCHANGED vars
  BY <1>1, <1>2 DEF vars, EdgesInv
<1>3. CASE CrashRestart
  BY <1>1, <1>3, RestartEdges
<1>4. ASSUME NEW w \in Workers, ReplaceEdgesFails(w) PROVE EdgesInv'
  BY <1>1, <1>4 DEF ReplaceEdgesFails, EdgesInv
<1> QED
  BY <1>1, <1>2, <1>3, <1>4, SimpleEdges, ImportEdges, LateEdges DEF Next

LEMMA EdgesInit ==
  ASSUME Init
  PROVE  EdgesInv
<1>1. RowsInv
  BY RowsInit
<1>2. \A i : Present(db, i) = {}
  BY DEF Init, Present
<1>3. fresh = Instances \ {Template}
  BY DEF Init
<1> QED
  BY <1>1, <1>2, <1>3, EmptyWhole DEF EdgesInv, RowsInv

\* The edges of an instance whose rows all came from UpsertSlug, under the
\* relationships as they stand, are the template's relationships between its
\* rows.
THEOREM EdgesMaterialise == Spec => []MaterialisedWhole
<1>1. EdgesInv => MaterialisedWhole
  BY DEF EdgesInv, MaterialisedWhole, WholeIn, EdgesIn, Wanted
<1>2. EdgesInv /\ [Next]_vars => EdgesInv'
  BY EdgesNext
<1> QED
  BY <1>1, <1>2, EdgesInit, PTL DEF Spec
============================================================================
