--------------------------- MODULE StoreConnection ---------------------------
(***************************************************************************)
(* The one SQLite connection of ChecklistStore and the HTTP worker threads *)
(* that share it.                                                          *)
(*                                                                         *)
(* Every method of the store takes mutex_ for as long as it runs, except   *)
(* ApplyBulkUpdates: its BEGIN, COMMIT and ROLLBACK run outside the mutex, *)
(* and only the ApplyUpdate calls between them take it.  A transaction     *)
(* belongs to the connection, not to a thread: a statement that another    *)
(* thread executes while one is open becomes part of it.                   *)
(*                                                                         *)
(* The database is modelled by what tells lost work from kept work: which  *)
(* rows exist, which UPDATEs and which history INSERTs took effect, and    *)
(* the edges of address_relationships.  PredicateDaemon models what is     *)
(* inside one ApplyUpdate; here its cascade is folded into its first row,  *)
(* and the tables of owners, orders, entities and templates are left out.  *)
(***************************************************************************)
EXTENDS Integers, FiniteSets, Sequences

CONSTANTS
  None,
  Thread,       \* the worker threads of the HTTP server
  Address,      \* the row addresses clients name
  InitialRows,  \* the rows that exist at the start
  InitialEdges, \* the edges between them
  Call,         \* the requests clients send
  MaxCalls,     \* bound: requests
  MaxCrashes    \* bound: process crashes

\* An edge: predicates do not matter here.
Edge == [subject : Address, target : Address]

\* The write of a row by a request, as a new row or as an update of it.
Write == [address : Address, call : 1..MaxCalls, kind : {"create", "update"}]

Db == [rows : SUBSET Address, applied : SUBSET Write, history : SUBSET Write,
       edges : SUBSET Edge]

ASSUME ConnectionAssumption ==
  /\ None \notin Thread \cup Edge
  /\ MaxCalls \in Nat /\ MaxCrashes \in Nat
  /\ InitialRows \subseteq Address
  /\ InitialEdges \subseteq [subject : InitialRows, target : InitialRows]
  /\ Call \subseteq [op : {"update", "bulk", "import", "relate", "delete"},
                     subjects : Seq(Address), items : Seq(Address),
                     edges : SUBSET Edge, instance : SUBSET Address]
  /\ \A c \in Call : c.op \in {"update", "bulk"} => c.items # <<>>
  /\ \A c \in Call : c.op = "update" => Len(c.items) = 1

VARIABLES
  disk,     \* what has been committed
  view,     \* what the connection reads: disk, and the open transaction
  tx,       \* the thread whose BEGIN opened the transaction, None for autocommit
  mutex,    \* the holder of mutex_
  pc,       \* where each thread is in its handler
  job,      \* the request of each thread and how far it got
  calls,    \* requests received so far (bound, and source of write ids)
  crashes,  \* crashes so far (bound)
  acked,    \* the writes that clients were told had succeeded (for properties)
  purged    \* the addresses that were ever deleted (for properties)

db == <<disk, view, tx>>
ghosts == <<calls, crashes, acked, purged>>
vars == <<disk, view, tx, mutex, pc, job, calls, crashes, acked, purged>>

Init ==
  /\ disk = [rows |-> InitialRows, applied |-> {}, history |-> {}, edges |-> InitialEdges]
  /\ view = disk
  /\ tx = None
  /\ mutex = None
  /\ pc = [t \in Thread |-> "idle"]
  /\ job = [t \in Thread |-> None]
  /\ calls = 0
  /\ crashes = 0
  /\ acked = {}
  /\ purged = {}

-----------------------------------------------------------------------------
(* SQLite.                                                                 *)

\* A data statement: its effect is on disk at once unless a transaction is open.
Exec(new) ==
  /\ view' = new
  /\ disk' = IF tx = None THEN new ELSE disk
  /\ UNCHANGED tx

\* BEGIN IMMEDIATE of thread `t' and the data statements up to `new'.
Begin(t, new) ==
  /\ tx = None
  /\ tx' = t
  /\ view' = new
  /\ UNCHANGED disk

Commit == disk' = view /\ tx' = None /\ UNCHANGED view
Rollback == view' = disk /\ tx' = None /\ UNCHANGED disk

\* The foreign keys of address_relationships.
Joins(e) == e.subject \in view.rows /\ e.target \in view.rows

-----------------------------------------------------------------------------
(* The handlers.                                                           *)

Free == mutex = None

Go(t, place, j) ==
  /\ pc' = [pc EXCEPT ![t] = place]
  /\ job' = [job EXCEPT ![t] = j]

\* The handler catches an exception and answers with an error.
Fail(t) == Go(t, "idle", None)

Left(t) == Head(job[t].left)
Rest(t) == Tail(job[t].left)
Mark(t, kind) == [address |-> Left(t), call |-> job[t].id, kind |-> kind]

\* A request arrives at an idle worker.
Receive(t, c) ==
  /\ pc[t] = "idle"
  /\ calls < MaxCalls
  /\ calls' = calls + 1
  /\ Go(t,
        IF c.op = "update" THEN "item"
        ELSE IF c.op = "bulk" THEN "begin"
        ELSE IF c.op = "delete" THEN "delete"
        ELSE IF c.op = "import" /\ c.subjects # <<>> THEN "create"
        ELSE "check",
        [call |-> c, id |-> calls + 1, edge |-> None, edges |-> c.edges,
         left |-> IF c.op = "import" THEN c.subjects ELSE c.items,
         found |-> {}, done |-> {}])
  /\ UNCHANGED <<db, mutex, crashes, acked, purged>>

\* BEGIN fails inside the transaction of another thread, and so does the request.
Refused(t) ==
  /\ pc[t] \in {"begin", "templates", "replace", "delete"}
  /\ pc[t] # "begin" => Free
  /\ tx # None
  /\ Fail(t)
  /\ UNCHANGED <<db, mutex, ghosts>>

\* (faulty) A batch in autocommit mode.
BatchUnstarted(t) ==
  /\ pc[t] = "begin"
  /\ Go(t, "item", [job[t] EXCEPT !.left = job[t].call.items])
  /\ UNCHANGED <<db, mutex, ghosts>>

\* ApplyBulkUpdates opens its transaction; it does not take the mutex.
BatchBegin(t) ==
  /\ pc[t] = "begin"
  /\ Begin(t, view)
  /\ Go(t, "item", [job[t] EXCEPT !.left = job[t].call.items])
  /\ UNCHANGED <<mutex, ghosts>>

\* ApplyUpdate, first statement: UPDATE of the row.
UpdateItem(t) ==
  /\ pc[t] = "item" /\ Free
  /\ Left(t) \in view.rows
  /\ Exec([view EXCEPT !.applied = @ \cup {Mark(t, "update")}])
  /\ mutex' = t
  /\ Go(t, "itemlog", job[t])
  /\ UNCHANGED ghosts

\* (faulty) A batch does not roll back when one of its updates throws.
ThrownThrough(t) == Fail(t)

\* An exception inside ApplyUpdate: a batch goes on to roll back.
Thrown(t) ==
  IF job[t].call.op = "update" THEN Fail(t) ELSE Go(t, "rollback", job[t])

\* GetSlugOrThrow finds no row.
ItemMissing(t) ==
  /\ pc[t] = "item" /\ Free
  /\ Left(t) \notin view.rows
  /\ Thrown(t)
  /\ UNCHANGED <<db, mutex, ghosts>>

\* The handler's next place once `rest' is left of the list it works through.
After(t, rest) ==
  IF pc[t] \in {"create", "createlog"} THEN IF rest = <<>> THEN "templates" ELSE "create"
  ELSE IF rest # <<>> THEN "item"
  ELSE IF job[t].call.op = "update" THEN "reread"
  ELSE "commit"

\* The job after the write at the head of its list: what is re-read at the
\* end, or imported after the rows, starts the list anew.
Logged(t, kind) ==
  [job[t] EXCEPT
     !.done = @ \cup {Mark(t, kind)},
     !.left = IF After(t, Rest(t)) \in {"item", "create"} THEN Rest(t)
              ELSE IF pc[t] = "createlog" THEN job[t].call.subjects
              ELSE job[t].call.items]

\* (faulty) Leaves without releasing the mutex.
LogItemHolding(t, kind) ==
  /\ pc[t] = IF kind = "create" THEN "createlog" ELSE "itemlog"
  /\ Left(t) \in view.rows
  /\ Exec([view EXCEPT !.history = @ \cup {Mark(t, kind)}])
  /\ Go(t, After(t, Rest(t)), Logged(t, kind))
  /\ UNCHANGED <<mutex, ghosts>>

\* The second statement, for an update and for a new row: INSERT INTO
\* history; the mutex is released when the method returns.
LogItem(t, kind) ==
  /\ pc[t] = IF kind = "create" THEN "createlog" ELSE "itemlog"
  /\ Left(t) \in view.rows
  /\ Exec([view EXCEPT !.history = @ \cup {Mark(t, kind)}])
  /\ mutex' = None
  /\ Go(t, After(t, Rest(t)), Logged(t, kind))
  /\ UNCHANGED ghosts

\* The row was rolled back between the two statements: the INSERT violates
\* its foreign key and the method throws.
LogViolation(t) ==
  /\ pc[t] \in {"itemlog", "createlog"}
  /\ Left(t) \notin view.rows
  /\ mutex' = None
  /\ IF pc[t] = "createlog" THEN Fail(t) ELSE Thrown(t)
  /\ UNCHANGED <<db, ghosts>>

\* ApplyBulkUpdates ends its transaction, again without the mutex.
BatchCommit(t) ==
  /\ pc[t] = "commit"
  /\ Commit
  /\ Go(t, IF job[t].call.op = "bulk" THEN "reread" ELSE "answer", job[t])
  /\ UNCHANGED <<mutex, ghosts>>

BatchRollback(t) ==
  /\ pc[t] = "rollback"
  /\ Rollback
  /\ Fail(t)
  /\ UNCHANGED <<mutex, ghosts>>

\* The handlers of updates read back each row they answer with.
Reread(t) ==
  /\ pc[t] = "reread" /\ Free
  /\ IF Left(t) \notin view.rows THEN Fail(t)
     ELSE Go(t, IF Rest(t) = <<>> THEN "answer" ELSE "reread",
             [job[t] EXCEPT !.left = Rest(t)])
  /\ UNCHANGED <<db, mutex, ghosts>>

\* The answer says success.
Answer(t) ==
  /\ pc[t] = "answer"
  /\ acked' = acked \cup job[t].done
  /\ Go(t, "idle", None)
  /\ UNCHANGED <<db, mutex, calls, crashes, purged>>

-----------------------------------------------------------------------------
(* handle_import_markdown: new rows, template relationships, checks, edges *)
(* subject by subject, and with apply_data a batch of updates.             *)

\* CreateSlugIfMissing: ON CONFLICT DO NOTHING.
KeepRow(t) ==
  /\ pc[t] = "create" /\ Free
  /\ Left(t) \in view.rows
  /\ Go(t, After(t, Rest(t)),
        [job[t] EXCEPT !.left = IF Rest(t) = <<>> THEN job[t].call.subjects ELSE Rest(t)])
  /\ UNCHANGED <<db, mutex, ghosts>>

CreateRow(t) ==
  /\ pc[t] = "create" /\ Free
  /\ Left(t) \notin view.rows
  /\ Exec([view EXCEPT !.rows = @ \cup {Left(t)},
                       !.applied = @ \cup {Mark(t, "create")}])
  /\ mutex' = t
  /\ Go(t, "createlog", job[t])
  /\ UNCHANGED ghosts

\* ReplaceTemplateRelationshipsForSubjects: a transaction on a table of its own.
TemplatesBegin(t) ==
  /\ pc[t] = "templates" /\ Free
  /\ Begin(t, view)
  /\ mutex' = t
  /\ Go(t, "templated", job[t])
  /\ UNCHANGED ghosts

TemplatesCommit(t) ==
  /\ pc[t] = "templated"
  /\ Commit
  /\ mutex' = None
  /\ Go(t, "check", job[t])
  /\ UNCHANGED ghosts

\* Each end of an edge is looked up in a locked read of its own.
CheckSubject(t) ==
  /\ pc[t] = "check" /\ Free
  /\ \E e \in job[t].edges :
       IF e.subject \in view.rows
       THEN Go(t, "checktarget", [job[t] EXCEPT !.edge = e, !.edges = @ \ {e}])
       ELSE IF job[t].call.op = "relate" THEN Fail(t)
       ELSE Go(t, "check", [job[t] EXCEPT !.edges = @ \ {e}])
  /\ UNCHANGED <<db, mutex, ghosts>>

CheckTarget(t) ==
  /\ pc[t] = "checktarget" /\ Free
  /\ IF job[t].edge.target \in view.rows
     THEN Go(t, IF job[t].call.op = "relate" THEN "relate" ELSE "check",
             [job[t] EXCEPT !.found = @ \cup {job[t].edge}, !.edge = None])
     ELSE IF job[t].call.op = "relate" THEN Fail(t)
     ELSE Go(t, "check", [job[t] EXCEPT !.edge = None])
  /\ UNCHANGED <<db, mutex, ghosts>>

\* All edges of the import are checked, or a subject's edges are stored: on
\* to the next subject, the batch or the answer.
NextSubject(t, left) ==
  IF left # <<>> THEN "replace"
  ELSE IF job[t].call.items # <<>> THEN "begin" ELSE "answer"

Checked(t) ==
  /\ pc[t] = "check"
  /\ job[t].edges = {}
  /\ Go(t, NextSubject(t, job[t].left), job[t])
  /\ UNCHANGED <<db, mutex, ghosts>>

Own(t) == {e \in job[t].found : e.subject = Left(t)}
Cleared(a) == [view EXCEPT !.edges = {e \in @ : e.subject # a}]

\* (faulty) The DELETE runs in autocommit mode.
ReplaceUnstarted(t) ==
  /\ pc[t] = "replace" /\ Free
  /\ Exec(Cleared(Left(t)))
  /\ mutex' = t
  /\ Go(t, "insert", [job[t] EXCEPT !.edges = Own(t)])
  /\ UNCHANGED ghosts

\* ReplaceRelationships: BEGIN, then DELETE of the subject's edges.
ReplaceBegin(t) ==
  /\ pc[t] = "replace" /\ Free
  /\ Begin(t, Cleared(Left(t)))
  /\ mutex' = t
  /\ Go(t, "insert", [job[t] EXCEPT !.edges = Own(t)])
  /\ UNCHANGED ghosts

InsertEdge(t) ==
  /\ pc[t] = "insert"
  /\ \E e \in job[t].edges :
       /\ Joins(e)
       /\ Exec([view EXCEPT !.edges = @ \cup {e}])
       /\ Go(t, "insert", [job[t] EXCEPT !.edges = @ \ {e}])
  /\ UNCHANGED <<mutex, ghosts>>

\* An INSERT violates its foreign key: StepOrThrow leaves the method, which
\* has no handler for the exception.  The mutex is released and the
\* transaction is not.
InsertViolation(t) ==
  /\ pc[t] = "insert"
  /\ \E e \in job[t].edges : ~Joins(e)
  /\ mutex' = None
  /\ Fail(t)
  /\ UNCHANGED <<db, ghosts>>

ReplaceCommit(t) ==
  /\ pc[t] = "insert"
  /\ job[t].edges = {}
  /\ Commit
  /\ mutex' = None
  /\ Go(t, NextSubject(t, Rest(t)), [job[t] EXCEPT !.left = Rest(t)])
  /\ UNCHANGED ghosts

-----------------------------------------------------------------------------
(* The other requests.                                                     *)

\* POST /relationships/address, after its two lookups: one INSERT.
InsertAddressRelationship(t) ==
  /\ pc[t] = "relate" /\ Free
  /\ \E e \in job[t].found :
       IF Joins(e)
       THEN /\ Exec([view EXCEPT !.edges = @ \cup {e}])
            /\ Go(t, "answer", job[t])
       ELSE Fail(t) /\ UNCHANGED db
  /\ UNCHANGED <<mutex, ghosts>>

\* (faulty) ON DELETE SET NULL instead of ON DELETE CASCADE.
WithoutNulling(instance) ==
  [rows |-> view.rows \ instance,
   applied |-> {w \in view.applied : w.address \notin instance},
   history |-> {w \in view.history : w.address \notin instance},
   edges |-> {[subject |-> IF e.subject \in instance THEN None ELSE e.subject,
               target |-> IF e.target \in instance THEN None ELSE e.target] :
                e \in view.edges}]

\* The database once the foreign keys have followed the deleted rows.
Without(instance) ==
  [rows |-> view.rows \ instance,
   applied |-> {w \in view.applied : w.address \notin instance},
   history |-> {w \in view.history : w.address \notin instance},
   edges |-> {e \in view.edges : {e.subject, e.target} \cap instance = {}}]

\* DeleteInstance: BEGIN and the DELETEs, whose foreign keys cascade.
DeleteBegin(t) ==
  /\ pc[t] = "delete" /\ Free
  /\ Begin(t, Without(job[t].call.instance))
  /\ mutex' = t
  /\ Go(t, "deleted", job[t])
  /\ UNCHANGED ghosts

\* (faulty) Answers without a COMMIT.
DeleteUncommitted(t) ==
  /\ pc[t] = "deleted"
  /\ mutex' = None
  /\ purged' = purged \cup job[t].call.instance
  /\ Go(t, "answer", job[t])
  /\ UNCHANGED <<db, calls, crashes, acked>>

DeleteCommit(t) ==
  /\ pc[t] = "deleted"
  /\ Commit
  /\ mutex' = None
  /\ purged' = purged \cup job[t].call.instance
  /\ Go(t, "answer", job[t])
  /\ UNCHANGED <<calls, crashes, acked>>

\* The process dies, with the open transaction, and is started again.
Crash ==
  /\ crashes < MaxCrashes
  /\ \E t \in Thread : pc[t] # "idle" \/ tx # None
  /\ crashes' = crashes + 1
  /\ Rollback
  /\ mutex' = None
  /\ pc' = [t \in Thread |-> "idle"]
  /\ job' = [t \in Thread |-> None]
  /\ UNCHANGED <<calls, acked, purged>>

-----------------------------------------------------------------------------
Batch(t) ==
  \/ BatchBegin(t) \/ UpdateItem(t) \/ ItemMissing(t) \/ LogItem(t, "update")
  \/ LogViolation(t) \/ BatchCommit(t) \/ BatchRollback(t) \/ Reread(t)

Import(t) ==
  \/ KeepRow(t) \/ CreateRow(t) \/ LogItem(t, "create") \/ TemplatesBegin(t)
  \/ TemplatesCommit(t) \/ Checked(t) \/ ReplaceBegin(t) \/ InsertEdge(t)
  \/ InsertViolation(t) \/ ReplaceCommit(t)

Step(t) ==
  \/ Refused(t) \/ Batch(t) \/ Import(t) \/ CheckSubject(t) \/ CheckTarget(t)
  \/ InsertAddressRelationship(t) \/ DeleteBegin(t) \/ DeleteCommit(t) \/ Answer(t)

Next ==
  \/ \E t \in Thread, c \in Call : Receive(t, c)
  \/ \E t \in Thread : Step(t)
  \/ Crash

Spec == Init /\ [][Next]_vars

\* A worker thread that can go on does; a blocked one gets the mutex when it
\* stays free.
FairSpec == Spec /\ \A t \in Thread : WF_vars(Step(t))
-----------------------------------------------------------------------------
(* Properties.                                                             *)

Place ==
  {"idle", "begin", "item", "itemlog", "commit", "rollback", "reread", "answer",
   "create", "createlog", "templates", "templated", "check", "checktarget",
   "replace", "insert", "relate", "delete", "deleted"}

Job == [call : Call, id : 1..MaxCalls, edge : Edge \cup {None}, edges : SUBSET Edge,
        left : Seq(Address), found : SUBSET Edge, done : SUBSET Write]

TypeOK ==
  /\ disk \in Db /\ view \in Db
  /\ tx \in Thread \cup {None}
  /\ mutex \in Thread \cup {None}
  /\ pc \in [Thread -> Place]
  /\ job \in [Thread -> Job \cup {None}]
  /\ calls \in 0..MaxCalls
  /\ crashes \in 0..MaxCrashes
  /\ acked \subseteq Write
  /\ purged \subseteq Address

\* The thread is between its BEGIN and its COMMIT or ROLLBACK.
Transacting(t) ==
  \/ pc[t] \in {"templated", "insert", "deleted", "commit", "rollback"}
  \/ pc[t] \in {"item", "itemlog"} /\ job[t].call.op # "update"

\* A thread only ever commits or rolls back what it began itself, although
\* batches begin and end without the mutex: as long as a thread is inside its
\* transaction, the open transaction is that one, and there is no other.
OwnTransaction == \A t \in Thread : Transacting(t) => tx = t

\* The updates of the call `id' that the database holds.
Updated(base, id) ==
  {w.address : w \in {x \in base.history : x.call = id /\ x.kind = "update"}}

\* A batch reaches the disk in one piece, whatever other threads do
\* meanwhile: with its first update come all of them.
BatchAllOrNothing ==
  [][\A t \in Thread :
       (job[t] # None /\ ~(Updated(disk', job[t].id) \subseteq Updated(disk, job[t].id)))
         => Updated(disk', job[t].id)
              = {job[t].call.items[i] : i \in DOMAIN job[t].call.items}]_vars

Out(base, a) == {e \in base.edges : e.subject = a}

\* On disk the edges of a row are replaced as a whole: edges only disappear
\* together with a row they touch, or when an import puts all the edges it
\* found for their subject in their place.
EdgesReplacedWhole ==
  [][\A a \in Address :
       ~(Out(disk, a) \subseteq Out(disk', a)) =>
         \/ \A e \in Out(disk, a) \ Out(disk', a) : ~({e.subject, e.target} \subseteq disk'.rows)
         \/ \E t \in Thread : /\ pc[t] = "insert"
                             /\ Out(disk', a) = {e \in job[t].found : e.subject = a}]_vars

\* An update that was answered with success is in the database, with its
\* history, until its row is deleted - not only before, but also after a
\* restart.  "All slug data ... and state histories are persisted here"
\* (spec/checklist-assistant-spec.md, 6, of SQLite).
AcknowledgedStored ==
  tx = None =>
    \A w \in acked : w.address \notin purged => w \in disk.applied /\ w \in disk.history

\* An INSERT of ReplaceRelationships is about to violate its foreign key.
BrokenInsert ==
  \E t \in Thread : pc[t] = "insert" /\ \E e \in job[t].edges : ~Joins(e)

\* No transaction stays open, whatever fails: nothing but the INSERT that
\* violates its foreign key in ReplaceRelationships ever leaves one behind.
TransactionEnds == (tx # None ~> tx = None) \/ <>BrokenInsert

\* Every request gets an answer, or dies with the process: no thread waits
\* for ever on the mutex, and no failure leaves it locked.
EveryCallAnswered == \A t \in Thread : pc[t] # "idle" ~> pc[t] = "idle"
=============================================================================
