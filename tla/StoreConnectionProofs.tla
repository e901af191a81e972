------------------------ MODULE StoreConnectionProofs ------------------------
(***************************************************************************)
(* Proofs about StoreConnection, for any number of worker threads and any  *)
(* requests: its types, that each transaction is ended by its owner, and   *)
(* what other threads can make of a transaction that is open.  A batch     *)
(* reaches the disk whole although it begins and ends without the mutex,   *)
(* and so do the edges of a row.                                           *)
(*                                                                         *)
(* The last two rest on the ownership of transactions.  For batches the    *)
(* invariant adds, place by place, how much of the request's updates the   *)
(* connection reads and how much is on disk; for edges, what the open      *)
(* transaction has made of them, and that the methods of several           *)
(* statements hold mutex_.                                                 *)
(***************************************************************************)
EXTENDS StoreConnection, SequenceTheorems, TLAPS

-----------------------------------------------------------------------------
(* Jobs and places.                                                        *)

\* What a thread has in hand at a place: a job, the rest of its list where it
\* works one off, the edge whose target it is about to look up.
JobOK(place, j) ==
  /\ place \in Place
  /\ j \in Job \cup {None}
  /\ place # "idle" => j \in Job
  /\ place \in {"item", "itemlog", "commit", "reread", "create", "createlog",
                "replace", "insert"} => j.left # <<>>
  /\ place \in {"begin", "item", "itemlog"} => j.call.items # <<>>
  /\ place = "checktarget" => j.edge \in Edge

Threads == /\ pc \in [Thread -> Place]
           /\ job \in [Thread -> Job \cup {None}]
           /\ \A t \in Thread : JobOK(pc[t], job[t])

\* The types of the parts of a job.
LEMMA JobParts ==
  ASSUME NEW j \in Job
  PROVE  /\ j.call \in Call
         /\ j.call.items \in Seq(Address) /\ j.call.subjects \in Seq(Address)
         /\ j.call.edges \subseteq Edge /\ j.call.instance \subseteq Address
         /\ j.id \in 1..MaxCalls
         /\ j.edges \subseteq Edge /\ j.found \subseteq Edge /\ j.done \subseteq Write
         /\ j.left \in Seq(Address)
         /\ j.left # <<>> => Head(j.left) \in Address /\ Tail(j.left) \in Seq(Address)
<1>1. j.call \in Call /\ j.left \in Seq(Address)
  BY DEF Job
<1>2. /\ j.call.items \in Seq(Address) /\ j.call.subjects \in Seq(Address)
      /\ j.call.edges \subseteq Edge /\ j.call.instance \subseteq Address
  BY <1>1, ConnectionAssumption
<1> QED
  BY <1>1, <1>2, HeadTailProperties DEF Job

\* A job whose list was cut or started anew is a job of the same call.
LEMMA JobWithLeft ==
  ASSUME NEW j \in Job, NEW l \in Seq(Address)
  PROVE  /\ [j EXCEPT !.left = l] \in Job
         /\ [j EXCEPT !.left = l].left = l
         /\ [j EXCEPT !.left = l].call = j.call
BY DEF Job

\* The same with a write that is done.
LEMMA JobWithDone ==
  ASSUME NEW j \in Job, NEW l \in Seq(Address), NEW w \in Write
  PROVE  /\ [j EXCEPT !.done = @ \cup {w}, !.left = l] \in Job
         /\ [j EXCEPT !.done = @ \cup {w}, !.left = l].left = l
         /\ [j EXCEPT !.done = @ \cup {w}, !.left = l].call = j.call
BY DEF Job

\* A job with other edges left to insert or to look up.
LEMMA JobWithEdges ==
  ASSUME NEW j \in Job, NEW E \in SUBSET Edge
  PROVE  /\ [j EXCEPT !.edges = E] \in Job
         /\ [j EXCEPT !.edges = E].left = j.left
         /\ [j EXCEPT !.edges = E].call = j.call
BY DEF Job

\* A job about to look up the target of an edge.
LEMMA JobWithEdge ==
  ASSUME NEW j \in Job, NEW e \in Edge
  PROVE  /\ [j EXCEPT !.edge = e, !.edges = @ \ {e}] \in Job
         /\ [j EXCEPT !.edge = e, !.edges = @ \ {e}].edge = e
BY DEF Job

\* A job that found an edge, or did not.
LEMMA JobWithoutEdge ==
  ASSUME NEW j \in Job, NEW e \in Edge
  PROVE  /\ [j EXCEPT !.found = @ \cup {e}, !.edge = None] \in Job
         /\ [j EXCEPT !.edge = None] \in Job
BY DEF Job

\* Moving one thread to a place with a job that fits it keeps the threads in order.
LEMMA GoKeeps ==
  ASSUME Threads, NEW t \in Thread, NEW place, NEW j,
         JobOK(place, j), Go(t, place, j)
  PROVE  Threads'
<1>1. place \in Place /\ j \in Job \cup {None}
  BY DEF JobOK
<1>2. pc' \in [Thread -> Place] /\ job' \in [Thread -> Job \cup {None}]
  BY <1>1 DEF Threads, Go
<1>3. ASSUME NEW s \in Thread PROVE JobOK(pc'[s], job'[s])
  BY <1>3 DEF Threads, Go
<1> QED
  BY <1>2, <1>3 DEF Threads

\* An error answer leaves the thread idle.
LEMMA FailKeeps ==
  ASSUME Threads, NEW t \in Thread, Fail(t)
  PROVE  Threads'
<1>1. JobOK("idle", None)
  BY DEF JobOK, Place
<1> QED
  BY <1>1, GoKeeps DEF Fail

\* A thread that is not idle has a job that fits its place.
LEMMA Busy ==
  ASSUME Threads, NEW t \in Thread, pc[t] # "idle"
  PROVE  job[t] \in Job /\ JobOK(pc[t], job[t])
BY DEF Threads, JobOK

\* A mark of a thread with a list is a write.
LEMMA MarkType ==
  ASSUME NEW t \in Thread, job[t] \in Job, job[t].left # <<>>, NEW kind \in {"create", "update"}
  PROVE  Mark(t, kind) \in Write
BY JobParts DEF Mark, Left, Write

-----------------------------------------------------------------------------
(* Types.                                                                  *)

Data == /\ disk \in Db /\ view \in Db
        /\ tx \in Thread \cup {None}
        /\ mutex \in Thread \cup {None}
        /\ calls \in 0..MaxCalls
        /\ crashes \in 0..MaxCrashes
        /\ acked \subseteq Write
        /\ purged \subseteq Address

\* The type invariant with the thread that each job is in order for its place.
TypeInv == Data /\ Threads

LEMMA TypeInvIsTyped == TypeInv => TypeOK
BY DEF TypeInv, Data, Threads, TypeOK

\* The database changed by a statement, a transaction begun and ended.
LEMMA DbKept ==
  ASSUME disk \in Db, view \in Db, tx \in Thread \cup {None}
  PROVE  /\ \A new \in Db : Exec(new) => disk' \in Db /\ view' \in Db /\ tx' \in Thread \cup {None}
         /\ \A t \in Thread, new \in Db :
              Begin(t, new) => disk' \in Db /\ view' \in Db /\ tx' \in Thread \cup {None}
         /\ Commit \/ Rollback => disk' \in Db /\ view' \in Db /\ tx' \in Thread \cup {None}
BY DEF Exec, Begin, Commit, Rollback

\* What the statements make of a database is a database.
LEMMA DbStatements ==
  ASSUME view \in Db, NEW w \in Write, NEW a \in Address, NEW e \in Edge,
         NEW I \in SUBSET Address
  PROVE  /\ [view EXCEPT !.applied = @ \cup {w}] \in Db
         /\ [view EXCEPT !.history = @ \cup {w}] \in Db
         /\ [view EXCEPT !.rows = @ \cup {a}, !.applied = @ \cup {w}] \in Db
         /\ [view EXCEPT !.edges = @ \cup {e}] \in Db
         /\ Cleared(a) \in Db
         /\ Without(I) \in Db
BY DEF Db, Cleared, Without

\* A request arrives.
LEMMA ReceiveTyped ==
  ASSUME TypeInv, NEW t \in Thread, NEW c \in Call, Receive(t, c)
  PROVE  TypeInv'
<1> DEFINE place == IF c.op = "update" THEN "item"
                    ELSE IF c.op = "bulk" THEN "begin"
                    ELSE IF c.op = "delete" THEN "delete"
                    ELSE IF c.op = "import" /\ c.subjects # <<>> THEN "create"
                    ELSE "check"
           j == [call |-> c, id |-> calls + 1, edge |-> None, edges |-> c.edges,
                 left |-> IF c.op = "import" THEN c.subjects ELSE c.items,
                 found |-> {}, done |-> {}]
<1>1. calls \in 0..MaxCalls /\ calls < MaxCalls /\ MaxCalls \in Nat
  BY ConnectionAssumption DEF TypeInv, Data, Receive
<1>2. calls + 1 \in 0..MaxCalls /\ calls + 1 \in 1..MaxCalls
  BY <1>1
<1>3. /\ c.subjects \in Seq(Address) /\ c.items \in Seq(Address)
      /\ c.edges \in SUBSET Edge
      /\ c.op \in {"update", "bulk"} => c.items # <<>>
  BY ConnectionAssumption
<1>4. j \in Job
  BY <1>2, <1>3 DEF Job
<1>5. JobOK(place, j)
  BY <1>3, <1>4 DEF JobOK, Place
<1>6. Go(t, place, j)
  BY DEF Receive
<1>7. Threads'
  BY <1>5, <1>6, GoKeeps DEF TypeInv
<1>8. Data'
  BY <1>2 DEF TypeInv, Data, Receive, db
<1> QED
  BY <1>7, <1>8 DEF TypeInv

\* The steps of ApplyBulkUpdates and ApplyUpdate, and of the answers.
LEMMA BatchTyped ==
  ASSUME TypeInv, NEW t \in Thread, Refused(t) \/ Batch(t) \/ LogItem(t, "create") \/ Answer(t)
  PROVE  TypeInv'
<1>0. Threads /\ Data
  BY DEF TypeInv
<1>1. CASE Refused(t)
  <2>1. Threads'
    BY <1>0, <1>1, FailKeeps DEF Refused
  <2> QED
    BY <1>0, <1>1, <2>1 DEF TypeInv, Data, Refused, db, ghosts
<1>2. CASE BatchBegin(t)
  <2>1. job[t] \in Job /\ job[t].call.items # <<>> /\ job[t].call.items \in Seq(Address)
    BY <1>0, <1>2, Busy, JobParts DEF BatchBegin, JobOK
  <2>2. JobOK("item", [job[t] EXCEPT !.left = job[t].call.items])
    BY <2>1, JobWithLeft DEF JobOK, Place
  <2>3. Threads'
    BY <1>0, <1>2, <2>2, GoKeeps DEF BatchBegin
  <2> QED
    BY <1>0, <1>2, <2>3, DbKept DEF TypeInv, Data, BatchBegin, ghosts
<1>3. CASE UpdateItem(t)
  <2>1. job[t] \in Job /\ job[t].left # <<>> /\ JobOK("item", job[t])
    BY <1>0, <1>3, Busy DEF UpdateItem, JobOK
  <2>2. JobOK("itemlog", job[t])
    BY <2>1 DEF JobOK, Place
  <2>3. Threads'
    BY <1>0, <1>3, <2>2, GoKeeps DEF UpdateItem
  <2>4. [view EXCEPT !.applied = @ \cup {Mark(t, "update")}] \in Db
    BY <1>0, <2>1, MarkType DEF Db, Data
  <2> QED
    BY <1>0, <1>3, <2>3, <2>4, DbKept DEF TypeInv, Data, UpdateItem, ghosts
<1>4. ASSUME pc[t] \in {"item", "itemlog"}, Thrown(t) PROVE Threads'
  <2>1. JobOK("rollback", job[t])
    BY <1>0, <1>4, Busy DEF JobOK, Place
  <2> QED
    BY <1>0, <1>4, <2>1, GoKeeps, FailKeeps DEF Thrown
<1>5. CASE ItemMissing(t)
  BY <1>0, <1>4, <1>5 DEF ItemMissing, TypeInv, Data, db, ghosts
<1>6. ASSUME NEW kind \in {"create", "update"}, LogItem(t, kind) PROVE TypeInv'
  <2>1. pc[t] = IF kind = "create" THEN "createlog" ELSE "itemlog"
    BY <1>6 DEF LogItem
  <2>2. job[t] \in Job /\ job[t].left # <<>> /\ (kind = "update" => job[t].call.items # <<>>)
    BY <1>0, <2>1, Busy DEF JobOK
  <2>3. /\ Rest(t) \in Seq(Address)
        /\ job[t].call.items \in Seq(Address) /\ job[t].call.subjects \in Seq(Address)
        /\ Mark(t, kind) \in Write
    BY <2>2, JobParts, MarkType DEF Rest
  <2> DEFINE rest == Rest(t)
             left == IF After(t, rest) \in {"item", "create"} THEN rest
                     ELSE IF pc[t] = "createlog" THEN job[t].call.subjects
                     ELSE job[t].call.items
  <2>4. left \in Seq(Address)
    BY <2>3
  <2>5. Logged(t, kind) = [job[t] EXCEPT !.done = @ \cup {Mark(t, kind)}, !.left = left]
    BY DEF Logged
  <2>6. /\ Logged(t, kind) \in Job /\ Logged(t, kind).left = left
        /\ Logged(t, kind).call = job[t].call
    <3> DEFINE w == Mark(t, kind)
               j == [job[t] EXCEPT !.done = @ \cup {w}, !.left = left]
    <3>1. job[t] \in Job /\ left \in Seq(Address) /\ w \in Write
      BY <2>2, <2>3, <2>4
    <3> HIDE DEF w, left
    <3>2. j \in Job /\ j.left = left /\ j.call = job[t].call
      BY <3>1, JobWithDone
    <3>3. Logged(t, kind) = j
      BY <2>5 DEF w
    <3> QED
      BY <3>2, <3>3
  <2>7. CASE kind = "create"
    <3>1. After(t, rest) = IF rest = <<>> THEN "templates" ELSE "create"
      BY <2>1, <2>7 DEF After
    <3> QED
      <4>1. JobOK(After(t, rest), Logged(t, kind))
        BY <2>6, <3>1 DEF JobOK, Place
      <4>2. Threads'
        BY <1>0, <1>6, <4>1, GoKeeps DEF LogItem
      <4>3. [view EXCEPT !.history = @ \cup {Mark(t, kind)}] \in Db
        BY <1>0, <2>3 DEF Db, Data
      <4> QED
        BY <1>0, <1>6, <4>2, <4>3, DbKept DEF TypeInv, Data, LogItem, ghosts
  <2>8. CASE kind = "update"
    <3>1. /\ pc[t] = "itemlog"
          /\ After(t, rest) = IF rest # <<>> THEN "item"
                              ELSE IF job[t].call.op = "update" THEN "reread" ELSE "commit"
      BY <2>1, <2>8 DEF After
    <3> QED
      <4>1. JobOK(After(t, rest), Logged(t, kind))
        BY <2>2, <2>6, <2>8, <3>1 DEF JobOK, Place
      <4>2. Threads'
        BY <1>0, <1>6, <4>1, GoKeeps DEF LogItem
      <4>3. [view EXCEPT !.history = @ \cup {Mark(t, kind)}] \in Db
        BY <1>0, <2>3 DEF Db, Data
      <4> QED
        BY <1>0, <1>6, <4>2, <4>3, DbKept DEF TypeInv, Data, LogItem, ghosts
  <2> QED
    BY <2>7, <2>8
<1>7. CASE LogViolation(t)
  <2>1. Threads'
    BY <1>0, <1>4, <1>7, FailKeeps DEF LogViolation
  <2> QED
    BY <1>0, <1>7, <2>1 DEF TypeInv, Data, LogViolation, db, ghosts
<1>8. CASE BatchCommit(t)
  <2>1. JobOK("reread", job[t]) /\ JobOK("answer", job[t])
    BY <1>0, <1>8, Busy DEF BatchCommit, JobOK, Place
  <2>2. Threads'
    BY <1>0, <1>8, <2>1, GoKeeps DEF BatchCommit
  <2> QED
    BY <1>0, <1>8, <2>2, DbKept DEF TypeInv, Data, BatchCommit, ghosts
<1>9. CASE BatchRollback(t)
  <2>1. Threads'
    BY <1>0, <1>9, FailKeeps DEF BatchRollback
  <2> QED
    BY <1>0, <1>9, <2>1, DbKept DEF TypeInv, Data, BatchRollback, ghosts
<1>10. CASE Reread(t)
  <2>1. job[t] \in Job /\ Rest(t) \in Seq(Address)
    BY <1>0, <1>10, Busy, JobParts DEF Reread, JobOK, Rest
  <2> DEFINE j == [job[t] EXCEPT !.left = Rest(t)]
  <2>2. j \in Job /\ j.left = Rest(t)
    BY <2>1, JobWithLeft
  <2>3. JobOK(IF Rest(t) = <<>> THEN "answer" ELSE "reread", j)
    BY <2>2 DEF JobOK, Place
  <2>4. Threads'
    BY <1>0, <1>10, <2>3, GoKeeps, FailKeeps DEF Reread
  <2> QED
    BY <1>0, <1>10, <2>4 DEF TypeInv, Data, Reread, db, ghosts
<1>11. CASE Answer(t)
  <2>1. job[t] \in Job /\ job[t].done \subseteq Write
    BY <1>0, <1>11, Busy, JobParts DEF Answer
  <2>2. JobOK("idle", None)
    BY DEF JobOK, Place
  <2>3. Threads'
    BY <1>0, <1>11, <2>2, GoKeeps DEF Answer
  <2> QED
    BY <1>0, <1>11, <2>1, <2>3 DEF TypeInv, Data, Answer, db
<1> QED
  BY <1>1, <1>2, <1>3, <1>5, <1>6, <1>7, <1>8, <1>9, <1>10, <1>11 DEF Batch

\* The steps of the import that create rows and replace their templates.
LEMMA RowsTyped ==
  ASSUME TypeInv, NEW t \in Thread,
         KeepRow(t) \/ CreateRow(t) \/ TemplatesBegin(t) \/ TemplatesCommit(t)
  PROVE  TypeInv'
<1>0. Threads /\ Data
  BY DEF TypeInv
<1>1. CASE KeepRow(t)
  <2> DEFINE left == IF Rest(t) = <<>> THEN job[t].call.subjects ELSE Rest(t)
             j == [job[t] EXCEPT !.left = left]
  <2>1. job[t] \in Job /\ left \in Seq(Address)
    BY <1>0, <1>1, Busy, JobParts DEF KeepRow, JobOK, Rest
  <2>2. j \in Job /\ j.left = left
    <3> HIDE DEF left
    <3> QED
      BY <2>1, JobWithLeft
  <2>3. After(t, Rest(t)) = IF Rest(t) = <<>> THEN "templates" ELSE "create"
    BY <1>1 DEF KeepRow, After
  <2>4. JobOK(After(t, Rest(t)), j)
    BY <2>2, <2>3 DEF JobOK, Place
  <2>5. Go(t, After(t, Rest(t)), j)
    BY <1>1 DEF KeepRow
  <2>6. Threads'
    BY <1>0, <2>4, <2>5, GoKeeps
  <2> QED
    BY <1>0, <1>1, <2>6 DEF TypeInv, Data, KeepRow, db, ghosts
<1>2. CASE CreateRow(t)
  <2>1. job[t] \in Job /\ job[t].left # <<>> /\ JobOK("createlog", job[t])
    BY <1>0, <1>2, Busy DEF CreateRow, JobOK, Place
  <2>2. Threads'
    BY <1>0, <1>2, <2>1, GoKeeps DEF CreateRow
  <2>3. Left(t) \in Address /\ Mark(t, "create") \in Write
    BY <2>1, MarkType, JobParts DEF Left
  <2>4. [view EXCEPT !.rows = @ \cup {Left(t)},
                     !.applied = @ \cup {Mark(t, "create")}] \in Db
    BY <1>0, <2>3 DEF Db, Data
  <2> QED
    BY <1>0, <1>2, <2>2, <2>4, DbKept DEF TypeInv, Data, CreateRow, ghosts
<1>3. CASE TemplatesBegin(t)
  <2>1. JobOK("templated", job[t])
    BY <1>0, <1>3, Busy DEF TemplatesBegin, JobOK, Place
  <2>2. Threads'
    BY <1>0, <1>3, <2>1, GoKeeps DEF TemplatesBegin
  <2> QED
    BY <1>0, <1>3, <2>2, DbKept DEF TypeInv, Data, TemplatesBegin, ghosts
<1>4. CASE TemplatesCommit(t)
  <2>1. JobOK("check", job[t])
    BY <1>0, <1>4, Busy DEF TemplatesCommit, JobOK, Place
  <2>2. Threads'
    BY <1>0, <1>4, <2>1, GoKeeps DEF TemplatesCommit
  <2> QED
    BY <1>0, <1>4, <2>2, DbKept DEF TypeInv, Data, TemplatesCommit, ghosts
<1> QED
  BY <1>1, <1>2, <1>3, <1>4

\* What NextSubject leads to is a place whose job may be the present one with
\* the list `left'.
LEMMA NextSubjectOK ==
  ASSUME NEW t \in Thread, job[t] \in Job, NEW j \in Job, j.call = job[t].call
  PROVE  JobOK(NextSubject(t, j.left), j)
BY DEF NextSubject, JobOK, Place

\* The lookups of the ends of the edges.
LEMMA ChecksTyped ==
  ASSUME TypeInv, NEW t \in Thread, CheckSubject(t) \/ CheckTarget(t) \/ Checked(t)
  PROVE  TypeInv'
<1>0. Threads /\ Data
  BY DEF TypeInv
<1>d. CheckSubject(t) \/ CheckTarget(t) \/ Checked(t) => (Threads' => TypeInv')
  BY <1>0 DEF TypeInv, Data, CheckSubject, CheckTarget, Checked, db, ghosts
<1>1. CASE CheckSubject(t)
  <2>1. job[t] \in Job
    BY <1>0, <1>1, Busy DEF CheckSubject
  <2>2. PICK e \in job[t].edges :
          IF e.subject \in view.rows
          THEN Go(t, "checktarget", [job[t] EXCEPT !.edge = e, !.edges = @ \ {e}])
          ELSE IF job[t].call.op = "relate" THEN Fail(t)
          ELSE Go(t, "check", [job[t] EXCEPT !.edges = @ \ {e}])
    BY <1>1 DEF CheckSubject
  <2>3. e \in Edge /\ job[t].edges \ {e} \in SUBSET Edge
    BY <2>1, JobParts
  <2>4. JobOK("checktarget", [job[t] EXCEPT !.edge = e, !.edges = @ \ {e}])
    BY <2>1, <2>3, JobWithEdge DEF JobOK, Place
  <2>5. JobOK("check", [job[t] EXCEPT !.edges = @ \ {e}])
    <3>1. [job[t] EXCEPT !.edges = @ \ {e}] \in Job
      BY <2>1, <2>3 DEF Job
    <3> QED
      BY <3>1 DEF JobOK, Place
  <2>6. Threads'
    BY <1>0, <2>2, <2>4, <2>5, GoKeeps, FailKeeps
  <2> QED
    BY <1>1, <1>d, <2>6
<1>2. CASE CheckTarget(t)
  <2>1. job[t] \in Job /\ job[t].edge \in Edge
    BY <1>0, <1>2, Busy DEF CheckTarget, JobOK
  <2>2. /\ [job[t] EXCEPT !.found = @ \cup {job[t].edge}, !.edge = None] \in Job
        /\ [job[t] EXCEPT !.edge = None] \in Job
    BY <2>1, JobWithoutEdge
  <2>3. /\ JobOK("relate", [job[t] EXCEPT !.found = @ \cup {job[t].edge}, !.edge = None])
        /\ JobOK("check", [job[t] EXCEPT !.found = @ \cup {job[t].edge}, !.edge = None])
        /\ JobOK("check", [job[t] EXCEPT !.edge = None])
    BY <2>2 DEF JobOK, Place
  <2>4. Threads'
    BY <1>0, <1>2, <2>3, GoKeeps, FailKeeps DEF CheckTarget
  <2> QED
    BY <1>2, <1>d, <2>4
<1>3. CASE Checked(t)
  <2>1. job[t] \in Job
    BY <1>0, <1>3, Busy DEF Checked
  <2>2. JobOK(NextSubject(t, job[t].left), job[t])
    BY <2>1, NextSubjectOK
  <2>3. Threads'
    BY <1>0, <1>3, <2>2, GoKeeps DEF Checked
  <2> QED
    BY <1>3, <1>d, <2>3
<1> QED
  BY <1>1, <1>2, <1>3

\* The steps that store edges.
LEMMA EdgesTyped ==
  ASSUME TypeInv, NEW t \in Thread,
         \/ ReplaceBegin(t) \/ InsertEdge(t) \/ InsertViolation(t) \/ ReplaceCommit(t)
         \/ InsertAddressRelationship(t)
  PROVE  TypeInv'
<1>0. Threads /\ Data
  BY DEF TypeInv
<1>1. CASE ReplaceBegin(t)
  <2>1. job[t] \in Job /\ job[t].left # <<>> /\ Own(t) \in SUBSET Edge /\ Left(t) \in Address
    BY <1>0, <1>1, Busy, JobParts DEF ReplaceBegin, JobOK, Own, Left
  <2>2. JobOK("insert", [job[t] EXCEPT !.edges = Own(t)])
    BY <2>1, JobWithEdges DEF JobOK, Place
  <2>3. Threads'
    BY <1>0, <1>1, <2>2, GoKeeps DEF ReplaceBegin
  <2>4. Cleared(Left(t)) \in Db
    BY <1>0, <2>1 DEF Data, Db, Cleared
  <2> QED
    BY <1>0, <1>1, <2>3, <2>4, DbKept DEF TypeInv, Data, ReplaceBegin, ghosts
<1>2. CASE InsertEdge(t)
  <2>1. job[t] \in Job /\ job[t].left # <<>>
    BY <1>0, <1>2, Busy DEF InsertEdge, JobOK
  <2>2. PICK e \in job[t].edges :
          /\ Joins(e)
          /\ Exec([view EXCEPT !.edges = @ \cup {e}])
          /\ Go(t, "insert", [job[t] EXCEPT !.edges = @ \ {e}])
    BY <1>2 DEF InsertEdge
  <2>3. e \in Edge
    BY <2>1, JobParts
  <2>4. /\ [job[t] EXCEPT !.edges = @ \ {e}] \in Job
        /\ [job[t] EXCEPT !.edges = @ \ {e}].left = job[t].left
    BY <2>1 DEF Job
  <2>5. JobOK("insert", [job[t] EXCEPT !.edges = @ \ {e}])
    BY <2>1, <2>4 DEF JobOK, Place
  <2>6. Threads'
    BY <1>0, <2>2, <2>5, GoKeeps
  <2>7. [view EXCEPT !.edges = @ \cup {e}] \in Db
    BY <1>0, <2>3 DEF Data, Db
  <2> QED
    BY <1>0, <1>2, <2>2, <2>6, <2>7, DbKept DEF TypeInv, Data, InsertEdge, ghosts
<1>3. CASE InsertViolation(t)
  <2>1. Threads'
    BY <1>0, <1>3, FailKeeps DEF InsertViolation
  <2> QED
    BY <1>0, <1>3, <2>1 DEF TypeInv, Data, InsertViolation, db, ghosts
<1>4. CASE ReplaceCommit(t)
  <2>1. job[t] \in Job /\ Rest(t) \in Seq(Address)
    BY <1>0, <1>4, Busy, JobParts DEF ReplaceCommit, JobOK, Rest
  <2> DEFINE j == [job[t] EXCEPT !.left = Rest(t)]
  <2>2. j \in Job /\ j.left = Rest(t) /\ j.call = job[t].call
    BY <2>1, JobWithLeft
  <2>3. JobOK(NextSubject(t, Rest(t)), j)
    <3>1. JobOK(NextSubject(t, j.left), j)
      BY <2>1, <2>2, NextSubjectOK
    <3> QED
      BY <2>2, <3>1
  <2>4. Threads'
    BY <1>0, <1>4, <2>3, GoKeeps DEF ReplaceCommit
  <2> QED
    BY <1>0, <1>4, <2>4, DbKept DEF TypeInv, Data, ReplaceCommit, ghosts
<1>5. CASE InsertAddressRelationship(t)
  <2>1. job[t] \in Job /\ JobOK("answer", job[t])
    BY <1>0, <1>5, Busy DEF InsertAddressRelationship, JobOK, Place
  <2>2. PICK e \in job[t].found :
          IF Joins(e)
          THEN /\ Exec([view EXCEPT !.edges = @ \cup {e}])
               /\ Go(t, "answer", job[t])
          ELSE Fail(t) /\ UNCHANGED db
    BY <1>5 DEF InsertAddressRelationship
  <2>3. Threads'
    BY <1>0, <2>1, <2>2, GoKeeps, FailKeeps
  <2>4. e \in Edge
    BY <2>1, JobParts
  <2>5. [view EXCEPT !.edges = @ \cup {e}] \in Db
    BY <1>0, <2>4 DEF Data, Db
  <2>6. disk' \in Db /\ view' \in Db /\ tx' \in Thread \cup {None}
    BY <1>0, <2>2, <2>5, DbKept DEF Data, db
  <2> QED
    BY <1>0, <1>5, <2>3, <2>6 DEF TypeInv, Data, InsertAddressRelationship, ghosts
<1> QED
  BY <1>1, <1>2, <1>3, <1>4, <1>5

\* Deleting an instance.
LEMMA DeleteTyped ==
  ASSUME TypeInv, NEW t \in Thread, DeleteBegin(t) \/ DeleteCommit(t)
  PROVE  TypeInv'
<1>0. Threads /\ Data
  BY DEF TypeInv
<1>1. CASE DeleteBegin(t)
  <2>1. job[t] \in Job /\ JobOK("deleted", job[t])
    BY <1>0, <1>1, Busy DEF DeleteBegin, JobOK, Place
  <2>2. Threads'
    BY <1>0, <1>1, <2>1, GoKeeps DEF DeleteBegin
  <2>3. job[t].call.instance \subseteq Address
    BY <2>1, JobParts
  <2>4. Without(job[t].call.instance) \in Db
    BY <1>0, <2>3 DEF Data, Db, Without
  <2> QED
    BY <1>0, <1>1, <2>2, <2>4, DbKept DEF TypeInv, Data, DeleteBegin, ghosts
<1>2. CASE DeleteCommit(t)
  <2>1. job[t] \in Job /\ JobOK("answer", job[t])
    BY <1>0, <1>2, Busy DEF DeleteCommit, JobOK, Place
  <2>2. Threads'
    BY <1>0, <1>2, <2>1, GoKeeps DEF DeleteCommit
  <2>3. job[t].call.instance \subseteq Address
    BY <2>1, JobParts
  <2> QED
    BY <1>0, <1>2, <2>2, <2>3, DbKept DEF TypeInv, Data, DeleteCommit
<1> QED
  BY <1>1, <1>2

\* The process dies and is started again.
LEMMA CrashTyped ==
  ASSUME TypeInv, Crash
  PROVE  TypeInv'
<1>0. Threads /\ Data
  BY DEF TypeInv
<1>1. Threads'
  BY DEF Crash, Threads, JobOK, Place
<1>2. crashes' \in 0..MaxCrashes
  BY <1>0, ConnectionAssumption DEF Crash, Data
<1> QED
  BY <1>0, <1>1, <1>2, DbKept DEF TypeInv, Data, Crash

\* The invariant is inductive.
LEMMA TypeInvInductive == TypeInv /\ [Next]_vars => TypeInv'
<1> SUFFICES ASSUME TypeInv, [Next]_vars PROVE TypeInv'
  OBVIOUS
<1>1. CASE UNCHANGED vars
  BY <1>1 DEF TypeInv, Data, Threads, vars
<1>2. ASSUME NEW t \in Thread, NEW c \in Call, Receive(t, c) PROVE TypeInv'
  BY <1>2, ReceiveTyped
<1>3. ASSUME NEW t \in Thread, Step(t) PROVE TypeInv'
  BY <1>3, BatchTyped, RowsTyped, ChecksTyped, EdgesTyped, DeleteTyped DEF Step, Import
<1>4. CASE Crash
  BY <1>4, CrashTyped
<1> QED
  BY <1>1, <1>2, <1>3, <1>4 DEF Next

LEMMA TypeInvInit == Init => TypeInv
<1> SUFFICES ASSUME Init PROVE TypeInv
  OBVIOUS
<1>1. disk \in Db
  BY ConnectionAssumption DEF Init, Db, Edge
<1>2. Threads
  BY DEF Init, Threads, JobOK, Place
<1>3. Data
  BY <1>1, ConnectionAssumption DEF Init, Data
<1> QED
  BY <1>2, <1>3 DEF TypeInv

\* The variables keep their types in every run, with any number of workers
\* and whatever lists of rows and edges the requests name.
THEOREM ConnectionTypeCorrect == Spec => []TypeOK
<1>1. Spec => []TypeInv
  BY TypeInvInit, TypeInvInductive, PTL DEF Spec
<1> QED
  BY <1>1, TypeInvIsTyped, PTL

-----------------------------------------------------------------------------
(* Owners of transactions.                                                 *)

\* A thread at this place with this job is inside a transaction of its own.
Inside(place, j) ==
  \/ place \in {"templated", "insert", "deleted", "commit", "rollback"}
  \/ place \in {"item", "itemlog"} /\ j.call.op # "update"

\* A step of one thread disturbs no other: the transaction it begins is the
\* only one, and the one it ends is its own.
LEMMA OwnKeeps ==
  ASSUME Threads, OwnTransaction, NEW t \in Thread, NEW place, NEW j, Go(t, place, j),
         tx' = tx \/ tx = None \/ tx = t,
         Inside(place, j) => tx' = t
  PROVE  OwnTransaction'
<1>1. ASSUME NEW s \in Thread, Transacting(s)' PROVE tx' = s
  <2>1. CASE s = t
    <3>1. pc'[t] = place /\ job'[t] = j
      BY DEF Threads, Go
    <3> QED
      BY <1>1, <2>1, <3>1 DEF Transacting, Inside
  <2>2. CASE s # t
    <3>1. pc'[s] = pc[s] /\ job'[s] = job[s]
      BY <2>2 DEF Threads, Go
    <3>2. tx = s
      BY <1>1, <3>1 DEF Transacting, OwnTransaction
    <3> QED
      BY <2>2, <3>2, ConnectionAssumption
  <2> QED
    BY <2>1, <2>2
<1> QED
  BY <1>1 DEF OwnTransaction

\* The handler's answer with an error ends no transaction of another thread.
LEMMA OwnFails ==
  ASSUME Threads, OwnTransaction, NEW t \in Thread, Fail(t),
         tx' = tx \/ tx = None \/ tx = t
  PROVE  OwnTransaction'
<1>1. ~Inside("idle", None)
  BY DEF Inside
<1> QED
  BY <1>1, OwnKeeps DEF Fail

\* A request is inside no transaction when it arrives or is refused one.
LEMMA OwnArrives ==
  ASSUME Threads, OwnTransaction, NEW t \in Thread,
         Refused(t) \/ \E c \in Call : Receive(t, c)
  PROVE  OwnTransaction'
<1>1. CASE Refused(t)
  BY <1>1, OwnFails DEF Refused, db
<1>2. ASSUME NEW c \in Call, Receive(t, c) PROVE OwnTransaction'
  <2> DEFINE place == IF c.op = "update" THEN "item"
                      ELSE IF c.op = "bulk" THEN "begin"
                      ELSE IF c.op = "delete" THEN "delete"
                      ELSE IF c.op = "import" /\ c.subjects # <<>> THEN "create"
                      ELSE "check"
             j == [call |-> c, id |-> calls + 1, edge |-> None, edges |-> c.edges,
                   left |-> IF c.op = "import" THEN c.subjects ELSE c.items,
                   found |-> {}, done |-> {}]
  <2>1. Go(t, place, j) /\ tx' = tx
    BY <1>2 DEF Receive, db
  <2>2. ~Inside(place, j)
    BY DEF Inside
  <2> HIDE DEF place, j
  <2> QED
    BY <2>1, <2>2, OwnKeeps
<1> QED
  BY <1>1, <1>2

\* The steps of batches and of single updates.
LEMMA OwnBatch ==
  ASSUME TypeInv, OwnTransaction, NEW t \in Thread,
         Batch(t) \/ LogItem(t, "create") \/ Answer(t)
  PROVE  OwnTransaction'
<1>0. Threads
  BY DEF TypeInv
<1>a. Inside(pc[t], job[t]) => tx = t
  BY DEF OwnTransaction, Transacting, Inside
<1>t. ASSUME pc[t] \in {"item", "itemlog"}, Thrown(t), tx' = tx PROVE OwnTransaction'
  <2>1. CASE job[t].call.op = "update"
    BY <1>0, <1>t, <2>1, OwnFails DEF Thrown
  <2>2. CASE job[t].call.op # "update"
    <3>1. tx' = t
      BY <1>a, <1>t, <2>2 DEF Inside
    <3> QED
      BY <1>0, <1>t, <2>2, <3>1, OwnKeeps DEF Thrown
  <2> QED
    BY <2>1, <2>2
<1>1. CASE BatchBegin(t)
  BY <1>0, <1>1, OwnKeeps DEF BatchBegin, Begin
<1>2. CASE UpdateItem(t)
  <2>1. tx' = tx /\ Go(t, "itemlog", job[t]) /\ pc[t] = "item"
    BY <1>2 DEF UpdateItem, Exec
  <2>2. Inside("itemlog", job[t]) => tx' = t
    BY <1>a, <2>1 DEF Inside
  <2> QED
    BY <1>0, <2>1, <2>2, OwnKeeps
<1>3. CASE ItemMissing(t)
  BY <1>3, <1>t DEF ItemMissing, db
<1>4. ASSUME NEW kind \in {"create", "update"}, LogItem(t, kind) PROVE OwnTransaction'
  <2>1. /\ tx' = tx /\ Go(t, After(t, Rest(t)), Logged(t, kind))
        /\ pc[t] = IF kind = "create" THEN "createlog" ELSE "itemlog"
    BY <1>4 DEF LogItem, Exec
  <2>2. job[t] \in Job
    BY <1>0, <2>1, Busy
  <2>3. Logged(t, kind).call = job[t].call
    BY <2>2 DEF Logged, Job
  <2>4. Inside(After(t, Rest(t)), Logged(t, kind)) => tx' = t
    BY <1>a, <2>1, <2>3 DEF Inside, After
  <2> QED
    BY <1>0, <2>1, <2>4, OwnKeeps
<1>5. CASE LogViolation(t)
  <2>1. tx' = tx
    BY <1>5 DEF LogViolation, db
  <2>2. CASE pc[t] = "createlog"
    BY <1>0, <1>5, <2>1, <2>2, OwnFails DEF LogViolation
  <2>3. CASE pc[t] = "itemlog"
    BY <1>5, <1>t, <2>1, <2>3 DEF LogViolation
  <2> QED
    BY <1>5, <2>2, <2>3 DEF LogViolation
<1>6. CASE BatchCommit(t)
  <2>1. tx = t
    BY <1>6, <1>a DEF BatchCommit, Inside
  <2>2. ~Inside("reread", job[t]) /\ ~Inside("answer", job[t])
    BY DEF Inside
  <2> QED
    BY <1>0, <1>6, <2>1, <2>2, OwnKeeps DEF BatchCommit
<1>7. CASE BatchRollback(t)
  <2>1. tx = t
    BY <1>7, <1>a DEF BatchRollback, Inside
  <2> QED
    BY <1>0, <1>7, <2>1, OwnFails DEF BatchRollback
<1>8. CASE Reread(t)
  <2> DEFINE j == [job[t] EXCEPT !.left = Rest(t)]
  <2>1. ~Inside("answer", j) /\ ~Inside("reread", j) /\ tx' = tx
    BY <1>8 DEF Inside, Reread, db
  <2> QED
    BY <1>0, <1>8, <2>1, OwnKeeps, OwnFails DEF Reread
<1>9. CASE Answer(t)
  <2>1. ~Inside("idle", None) /\ tx' = tx
    BY <1>9 DEF Inside, Answer, db
  <2> QED
    BY <1>0, <1>9, <2>1, OwnKeeps DEF Answer
<1> QED
  BY <1>1, <1>2, <1>3, <1>4, <1>5, <1>6, <1>7, <1>8, <1>9 DEF Batch

\* The steps of the import, of new relationships and of deletions.
LEMMA OwnOthers ==
  ASSUME TypeInv, OwnTransaction, NEW t \in Thread,
         \/ KeepRow(t) \/ CreateRow(t) \/ TemplatesBegin(t) \/ TemplatesCommit(t)
         \/ CheckSubject(t) \/ CheckTarget(t) \/ Checked(t)
         \/ ReplaceBegin(t) \/ InsertEdge(t) \/ InsertViolation(t) \/ ReplaceCommit(t)
         \/ InsertAddressRelationship(t) \/ DeleteBegin(t) \/ DeleteCommit(t)
  PROVE  OwnTransaction'
<1>0. Threads
  BY DEF TypeInv
<1>a. Inside(pc[t], job[t]) => tx = t
  BY DEF OwnTransaction, Transacting, Inside
<1>b. \A place, j : place \in {"create", "createlog", "templates", "check", "checktarget",
                             "relate", "replace", "begin", "answer"} => ~Inside(place, j)
  BY DEF Inside
<1>1. CASE KeepRow(t)
  <2>1. After(t, Rest(t)) \in {"create", "templates"} /\ tx' = tx
    BY <1>1 DEF KeepRow, After, db
  <2> QED
    BY <1>0, <1>1, <1>b, <2>1, OwnKeeps DEF KeepRow
<1>2. CASE CreateRow(t)
  BY <1>0, <1>2, <1>b, OwnKeeps DEF CreateRow, Exec
<1>3. CASE TemplatesBegin(t)
  BY <1>0, <1>3, OwnKeeps DEF TemplatesBegin, Begin
<1>4. CASE TemplatesCommit(t)
  <2>1. tx = t
    BY <1>4, <1>a DEF TemplatesCommit, Inside
  <2> QED
    BY <1>0, <1>4, <1>b, <2>1, OwnKeeps DEF TemplatesCommit
<1>5. CASE CheckSubject(t)
  <2>1. tx' = tx
    BY <1>5 DEF CheckSubject, db
  <2>2. PICK e \in job[t].edges :
          IF e.subject \in view.rows
          THEN Go(t, "checktarget", [job[t] EXCEPT !.edge = e, !.edges = @ \ {e}])
          ELSE IF job[t].call.op = "relate" THEN Fail(t)
          ELSE Go(t, "check", [job[t] EXCEPT !.edges = @ \ {e}])
    BY <1>5 DEF CheckSubject
  <2> QED
    BY <1>0, <1>b, <2>1, <2>2, OwnKeeps, OwnFails
<1>6. CASE CheckTarget(t)
  <2>1. tx' = tx
    BY <1>6 DEF CheckTarget, db
  <2> QED
    BY <1>0, <1>6, <1>b, <2>1, OwnKeeps, OwnFails DEF CheckTarget
<1>n. \A left : NextSubject(t, left) \in {"replace", "begin", "answer"}
  BY DEF NextSubject
<1>7. CASE Checked(t)
  BY <1>0, <1>7, <1>b, <1>n, OwnKeeps DEF Checked, db
<1>8. CASE ReplaceBegin(t)
  BY <1>0, <1>8, OwnKeeps DEF ReplaceBegin, Begin
<1>9. CASE InsertEdge(t)
  <2>1. tx' = tx /\ tx = t
    BY <1>9, <1>a DEF InsertEdge, Exec, Inside
  <2>2. PICK e \in job[t].edges : Go(t, "insert", [job[t] EXCEPT !.edges = @ \ {e}])
    BY <1>9 DEF InsertEdge
  <2> QED
    BY <1>0, <2>1, <2>2, OwnKeeps
<1>10. CASE InsertViolation(t)
  BY <1>0, <1>10, OwnFails DEF InsertViolation, db
<1>11. CASE ReplaceCommit(t)
  <2>1. tx = t
    BY <1>11, <1>a DEF ReplaceCommit, Inside
  <2> QED
    BY <1>0, <1>11, <1>b, <1>n, <2>1, OwnKeeps DEF ReplaceCommit
<1>12. CASE InsertAddressRelationship(t)
  <2>1. tx' = tx /\ (Go(t, "answer", job[t]) \/ Fail(t))
    BY <1>12 DEF InsertAddressRelationship, Exec, db
  <2> QED
    BY <1>0, <1>b, <2>1, OwnKeeps, OwnFails
<1>13. CASE DeleteBegin(t)
  BY <1>0, <1>13, OwnKeeps DEF DeleteBegin, Begin
<1>14. CASE DeleteCommit(t)
  <2>1. tx = t
    BY <1>14, <1>a DEF DeleteCommit, Inside
  <2> QED
    BY <1>0, <1>14, <1>b, <2>1, OwnKeeps DEF DeleteCommit
<1> QED
  BY <1>1, <1>2, <1>3, <1>4, <1>5, <1>6, <1>7, <1>8, <1>9, <1>10, <1>11, <1>12, <1>13, <1>14

\* Whatever the interleaving, a transaction is committed or rolled back by the
\* thread that began it, and by no other (ApplyBulkUpdates begins and ends
\* its own without the mutex).
THEOREM TransactionsAreOwned == Spec => []OwnTransaction
<1>1. Init => OwnTransaction
  BY DEF Init, OwnTransaction, Transacting
<1>2. TypeInv /\ OwnTransaction /\ [Next]_vars => OwnTransaction'
  <2> SUFFICES ASSUME TypeInv, OwnTransaction, [Next]_vars PROVE OwnTransaction'
    OBVIOUS
  <2>0. Threads
    BY DEF TypeInv
  <2>1. CASE UNCHANGED vars
    BY <2>1 DEF OwnTransaction, Transacting, vars
  <2>2. ASSUME NEW t \in Thread, NEW c \in Call, Receive(t, c) PROVE OwnTransaction'
    BY <2>0, <2>2, OwnArrives
  <2>3. ASSUME NEW t \in Thread, Step(t) PROVE OwnTransaction'
    BY <2>0, <2>3, OwnArrives, OwnBatch, OwnOthers DEF Step, Import
  <2>4. CASE Crash
    BY <2>4 DEF Crash, OwnTransaction, Transacting
  <2> QED
    BY <2>1, <2>2, <2>3, <2>4 DEF Next
<1>3. Spec => []TypeInv
  BY TypeInvInit, TypeInvInductive, PTL DEF Spec
<1> QED
  BY <1>1, <1>2, <1>3, PTL DEF Spec

-----------------------------------------------------------------------------
(* What a step of a thread does to the database.                           *)

\* Statements of a thread add to the history only what its own call did.
Grown(t, new) ==
  /\ view.history \subseteq new.history
  /\ \A w \in new.history \ view.history : w.call = job[t].id

\* One step of the connection.
Effect(t) ==
  \/ UNCHANGED db
  \/ \E new : Exec(new) /\ Grown(t, new)
  \/ \E new : Begin(t, new) /\ new.history \subseteq view.history
  \/ Commit /\ tx = t
  \/ Rollback /\ tx = t

\* A step takes its own thread on to one of these places with the same call,
\* or ends it.
Onward(t) ==
  \E place, j : /\ Go(t, place, j)
                /\ \/ place = "idle" /\ j = None
                   \/ /\ place # "idle"
                      /\ j \in Job /\ j.id = job[t].id /\ j.call = job[t].call

\* The places of a request before its batch, if it has one.
Earlier == {"begin", "create", "createlog", "templates", "templated", "check",
            "checktarget", "replace", "insert", "relate", "delete", "deleted"}

\* No update of a row is in the history that was not there before.
Calm ==
  \A w \in view'.history \cup disk'.history :
    w \in view.history \cup disk.history \/ w.kind = "create"

\* The batches: each of their steps has such an effect.
LEMMA BatchEffect ==
  ASSUME TypeInv, OwnTransaction, NEW t \in Thread,
         Refused(t) \/ Batch(t) \/ LogItem(t, "create") \/ Answer(t)
  PROVE  Effect(t) /\ Onward(t) /\ calls' = calls /\ pc[t] # "idle"
<1>0. Threads
  BY DEF TypeInv
<1>j. ASSUME pc[t] # "idle" PROVE job[t] \in Job
  BY <1>0, <1>j, Busy
<1>a. Inside(pc[t], job[t]) => tx = t
  BY DEF OwnTransaction, Transacting, Inside
<1>f. Fail(t) => Onward(t)
  BY DEF Fail, Onward
<1>g. ASSUME NEW place, place # "idle", Go(t, place, job[t]), job[t] \in Job PROVE Onward(t)
  BY <1>g DEF Onward
<1>h. ASSUME NEW place, place # "idle", NEW l \in Seq(Address),
             Go(t, place, [job[t] EXCEPT !.left = l]), job[t] \in Job
      PROVE  Onward(t)
  <2>1. [job[t] EXCEPT !.left = l] \in Job /\ [job[t] EXCEPT !.left = l].id = job[t].id
        /\ [job[t] EXCEPT !.left = l].call = job[t].call
    BY <1>h DEF Job
  <2> QED
    BY <1>h, <2>1 DEF Onward
<1>r. After(t, Rest(t)) # "idle"
  BY DEF After
<1>t. ASSUME Thrown(t), job[t] \in Job PROVE Onward(t)
  BY <1>f, <1>g, <1>t DEF Thrown
<1>1. CASE Refused(t)
  BY <1>1, <1>f DEF Refused, Effect, ghosts
<1>2. CASE BatchBegin(t)
  <2>1. job[t] \in Job /\ job[t].call.items \in Seq(Address) /\ pc[t] # "idle"
    BY <1>2, <1>j, JobParts DEF BatchBegin
  <2>2. Begin(t, view) /\ view.history \subseteq view.history
    BY <1>2 DEF BatchBegin
  <2>3. Effect(t)
    BY <2>2 DEF Effect
  <2> QED
    BY <1>2, <1>h, <2>1, <2>3 DEF BatchBegin, ghosts
<1>3. CASE UpdateItem(t)
  <2>1. job[t] \in Job /\ pc[t] # "idle" /\ view \in Db
    BY <1>3, <1>j DEF UpdateItem, TypeInv, Data
  <2>2. PICK new : new = [view EXCEPT !.applied = @ \cup {Mark(t, "update")}]
    OBVIOUS
  <2>3. new.history = view.history
    BY <2>1, <2>2 DEF Db
  <2>4. Exec(new)
    BY <1>3, <2>2 DEF UpdateItem
  <2>5. Effect(t)
    BY <2>3, <2>4 DEF Effect, Grown
  <2> QED
    BY <1>3, <1>g, <2>1, <2>5 DEF UpdateItem, ghosts
<1>4. CASE ItemMissing(t)
  BY <1>4, <1>j, <1>t DEF ItemMissing, Effect, ghosts
<1>5. ASSUME NEW kind \in {"create", "update"}, LogItem(t, kind)
      PROVE  Effect(t) /\ Onward(t) /\ calls' = calls /\ pc[t] # "idle"
  <2>1. pc[t] # "idle" /\ view \in Db /\ job[t] \in Job /\ job[t].left # <<>>
    <3>1. pc[t] = IF kind = "create" THEN "createlog" ELSE "itemlog"
      BY <1>5 DEF LogItem
    <3> QED
      BY <1>0, <3>1, Busy DEF TypeInv, Data, JobOK
  <2>2. PICK new, w : w = Mark(t, kind) /\ new = [view EXCEPT !.history = @ \cup {w}]
    OBVIOUS
  <2>3. new.history = view.history \cup {w} /\ w.call = job[t].id /\ w \in Write
    BY <2>1, <2>2, MarkType DEF Db, Mark
  <2>4. Exec(new)
    BY <1>5, <2>2 DEF LogItem
  <2>5. Effect(t)
    BY <2>3, <2>4 DEF Effect, Grown
  <2>6. PICK left : /\ left \in Seq(Address)
                    /\ Logged(t, kind) = [job[t] EXCEPT !.done = @ \cup {w}, !.left = left]
    BY <2>1, <2>2, JobParts DEF Logged, Rest
  <2>7. Logged(t, kind) \in Job /\ Logged(t, kind).id = job[t].id
        /\ Logged(t, kind).call = job[t].call
    BY <2>1, <2>3, <2>6, ZenonT(60) DEF Job
  <2>8. Onward(t)
    BY <1>5, <2>7, <1>r DEF LogItem, Onward
  <2> QED
    BY <1>5, <2>1, <2>5, <2>8 DEF LogItem, ghosts
<1>6. CASE LogViolation(t)
  BY <1>6, <1>f, <1>j, <1>t DEF LogViolation, Effect, ghosts
<1>7. CASE BatchCommit(t)
  BY <1>7, <1>a, <1>g, <1>j DEF BatchCommit, Effect, Inside, ghosts
<1>8. CASE BatchRollback(t)
  BY <1>8, <1>a, <1>f, <1>j DEF BatchRollback, Effect, Inside, ghosts
<1>9. CASE Reread(t)
  <2>1. job[t] \in Job /\ pc[t] # "idle" /\ Rest(t) \in Seq(Address)
    BY <1>0, <1>9, Busy, JobParts DEF Reread, JobOK, Rest
  <2>2. Onward(t)
    BY <1>9, <1>f, <1>h, <2>1 DEF Reread
  <2> QED
    BY <1>9, <2>1, <2>2 DEF Reread, Effect, ghosts
<1>10. CASE Answer(t)
  <2>1. Onward(t)
    BY <1>10 DEF Answer, Onward
  <2> QED
    BY <1>10, <2>1 DEF Answer, Effect
<1> QED
  BY <1>1, <1>2, <1>3, <1>4, <1>5, <1>6, <1>7, <1>8, <1>9, <1>10 DEF Batch

\* The import, new relationships and deletions.
LEMMA OtherEffect ==
  ASSUME TypeInv, OwnTransaction, NEW t \in Thread,
         \/ KeepRow(t) \/ CreateRow(t) \/ TemplatesBegin(t) \/ TemplatesCommit(t)
         \/ CheckSubject(t) \/ CheckTarget(t) \/ Checked(t)
         \/ ReplaceBegin(t) \/ InsertEdge(t) \/ InsertViolation(t) \/ ReplaceCommit(t)
         \/ InsertAddressRelationship(t) \/ DeleteBegin(t) \/ DeleteCommit(t)
  PROVE  Effect(t) /\ Onward(t) /\ calls' = calls /\ pc[t] # "idle"
<1>0. Threads /\ view \in Db
  BY DEF TypeInv, Data
<1>1. pc[t] # "idle"
  BY DEF KeepRow, CreateRow, TemplatesBegin, TemplatesCommit, CheckSubject, CheckTarget,
         Checked, ReplaceBegin, InsertEdge, InsertViolation, ReplaceCommit,
         InsertAddressRelationship, DeleteBegin, DeleteCommit
<1>2. calls' = calls
  BY DEF KeepRow, CreateRow, TemplatesBegin, TemplatesCommit, CheckSubject, CheckTarget,
         Checked, ReplaceBegin, InsertEdge, InsertViolation, ReplaceCommit,
         InsertAddressRelationship, DeleteBegin, DeleteCommit, ghosts
<1>3. job[t] \in Job /\ JobOK(pc[t], job[t])
  BY <1>0, <1>1, Busy
<1>a. Inside(pc[t], job[t]) => tx = t
  BY DEF OwnTransaction, Transacting, Inside
<1>f. Fail(t) => Onward(t)
  BY DEF Fail, Onward
<1>g. ASSUME NEW place, place # "idle", Go(t, place, job[t]) PROVE Onward(t)
  BY <1>3, <1>g DEF Onward
<1>h. ASSUME NEW place, place # "idle", NEW l \in Seq(Address),
             Go(t, place, [job[t] EXCEPT !.left = l])
      PROVE  Onward(t)
  <2>1. [job[t] EXCEPT !.left = l] \in Job /\ [job[t] EXCEPT !.left = l].id = job[t].id
        /\ [job[t] EXCEPT !.left = l].call = job[t].call
    BY <1>3 DEF Job
  <2> QED
    BY <1>h, <2>1 DEF Onward
<1>e. ASSUME NEW place, place # "idle", NEW E \in SUBSET Edge,
             Go(t, place, [job[t] EXCEPT !.edges = E])
      PROVE  Onward(t)
  <2>1. [job[t] EXCEPT !.edges = E] \in Job /\ [job[t] EXCEPT !.edges = E].id = job[t].id
        /\ [job[t] EXCEPT !.edges = E].call = job[t].call
    BY <1>3 DEF Job
  <2> QED
    BY <1>e, <2>1 DEF Onward
<1>r. After(t, Rest(t)) # "idle" /\ \A left : NextSubject(t, left) # "idle"
  BY DEF After, NextSubject
<1>x. ASSUME NEW new, Exec(new), new.history = view.history PROVE Effect(t)
  BY <1>x DEF Effect, Grown
<1>b. ASSUME NEW new, Begin(t, new), new.history \subseteq view.history PROVE Effect(t)
  BY <1>b DEF Effect
<1>4. CASE KeepRow(t)
  <2>1. Effect(t)
    BY <1>4 DEF KeepRow, Effect
  <2>2. job[t].left # <<>> /\ Rest(t) \in Seq(Address) /\ job[t].call.subjects \in Seq(Address)
    BY <1>3, <1>4, JobParts DEF KeepRow, JobOK, Rest
  <2>3. PICK l \in Seq(Address) : Go(t, After(t, Rest(t)), [job[t] EXCEPT !.left = l])
    BY <1>4, <2>2 DEF KeepRow
  <2> QED
    BY <1>1, <1>2, <1>h, <1>r, <2>1, <2>3
<1>5. CASE CreateRow(t)
  <2>1. PICK new : new = [view EXCEPT !.rows = @ \cup {Left(t)},
                                      !.applied = @ \cup {Mark(t, "create")}]
    OBVIOUS
  <2>2. Exec(new) /\ new.history = view.history
    BY <1>0, <1>5, <2>1 DEF CreateRow, Db
  <2> QED
    BY <1>1, <1>2, <1>5, <1>g, <1>x, <2>2 DEF CreateRow
<1>6. CASE TemplatesBegin(t)
  BY <1>1, <1>2, <1>6, <1>g, <1>b DEF TemplatesBegin
<1>7. CASE TemplatesCommit(t)
  BY <1>1, <1>2, <1>7, <1>g, <1>a DEF TemplatesCommit, Effect, Inside
<1>8. CASE CheckSubject(t)
  <2>1. PICK e \in job[t].edges :
          IF e.subject \in view.rows
          THEN Go(t, "checktarget", [job[t] EXCEPT !.edge = e, !.edges = @ \ {e}])
          ELSE IF job[t].call.op = "relate" THEN Fail(t)
          ELSE Go(t, "check", [job[t] EXCEPT !.edges = @ \ {e}])
    BY <1>8 DEF CheckSubject
  <2>2. e \in Edge /\ job[t].edges \subseteq Edge
    BY <1>3, JobParts
  <2>3. PICK j : j = [job[t] EXCEPT !.edge = e, !.edges = @ \ {e}]
    OBVIOUS
  <2>4. j \in Job /\ j.id = job[t].id /\ j.call = job[t].call
    BY <1>3, <2>2, <2>3 DEF Job
  <2>5. Onward(t)
    <3>1. CASE Go(t, "checktarget", [job[t] EXCEPT !.edge = e, !.edges = @ \ {e}])
      BY <2>3, <2>4, <3>1 DEF Onward
    <3>2. CASE Go(t, "check", [job[t] EXCEPT !.edges = @ \ {e}])
      <4>1. PICK E \in SUBSET Edge : E = job[t].edges \ {e}
        BY <2>2
      <4> QED
        BY <1>e, <3>2, <4>1
    <3> QED
      BY <2>1, <1>f, <3>1, <3>2
  <2> QED
    BY <1>1, <1>2, <1>8, <2>5 DEF CheckSubject, Effect
<1>9. CASE CheckTarget(t)
  <2>1. job[t].edge \in Edge
    BY <1>3, <1>9 DEF CheckTarget, JobOK
  <2>2. PICK j, k : /\ j = [job[t] EXCEPT !.found = @ \cup {job[t].edge}, !.edge = None]
                    /\ k = [job[t] EXCEPT !.edge = None]
    OBVIOUS
  <2>3. /\ j \in Job /\ j.id = job[t].id /\ j.call = job[t].call
        /\ k \in Job /\ k.id = job[t].id /\ k.call = job[t].call
    BY <1>3, <2>1, <2>2 DEF Job
  <2>4. Fail(t) \/ (\E place : place # "idle" /\ Go(t, place, j)) \/ Go(t, "check", k)
    BY <1>9, <2>2 DEF CheckTarget
  <2>5. Onward(t)
    BY <1>f, <2>3, <2>4 DEF Onward
  <2> QED
    BY <1>1, <1>2, <1>9, <2>5 DEF CheckTarget, Effect
<1>10. CASE Checked(t)
  BY <1>1, <1>2, <1>10, <1>g, <1>r DEF Checked, Effect
<1>11. CASE ReplaceBegin(t)
  <2>1. Cleared(Left(t)).history = view.history
    BY <1>0 DEF Cleared, Db
  <2>2. Own(t) \in SUBSET Edge
    BY <1>3, JobParts DEF Own
  <2> QED
    BY <1>1, <1>2, <1>11, <1>b, <1>e, <2>1, <2>2 DEF ReplaceBegin
<1>12. CASE InsertEdge(t)
  <2>1. PICK e \in job[t].edges : /\ Exec([view EXCEPT !.edges = @ \cup {e}])
                                  /\ Go(t, "insert", [job[t] EXCEPT !.edges = @ \ {e}])
    BY <1>12 DEF InsertEdge
  <2>2. [view EXCEPT !.edges = @ \cup {e}].history = view.history
    BY <1>0 DEF Db
  <2>3. PICK E \in SUBSET Edge : E = job[t].edges \ {e}
    BY <1>3, JobParts
  <2>4. Onward(t)
    BY <1>e, <2>1, <2>3
  <2> QED
    BY <1>1, <1>2, <1>x, <2>1, <2>2, <2>4
<1>13. CASE InsertViolation(t)
  BY <1>1, <1>2, <1>13, <1>f DEF InsertViolation, Effect
<1>14. CASE ReplaceCommit(t)
  <2>1. Rest(t) \in Seq(Address)
    BY <1>3, <1>14, JobParts DEF ReplaceCommit, JobOK, Rest
  <2> QED
    BY <1>1, <1>2, <1>14, <1>a, <1>h, <1>r, <2>1 DEF ReplaceCommit, Effect, Inside
<1>15. CASE InsertAddressRelationship(t)
  <2>1. PICK e \in job[t].found :
          IF Joins(e)
          THEN Exec([view EXCEPT !.edges = @ \cup {e}]) /\ Go(t, "answer", job[t])
          ELSE Fail(t) /\ UNCHANGED db
    BY <1>15 DEF InsertAddressRelationship
  <2>2. [view EXCEPT !.edges = @ \cup {e}].history = view.history
    BY <1>0 DEF Db
  <2>3. Effect(t)
    BY <1>x, <2>1, <2>2 DEF Effect
  <2>4. Onward(t)
    BY <1>f, <1>g, <2>1
  <2> QED
    BY <1>1, <1>2, <2>3, <2>4
<1>16. CASE DeleteBegin(t)
  <2>1. Without(job[t].call.instance).history \subseteq view.history
    BY DEF Without
  <2> QED
    BY <1>1, <1>2, <1>16, <1>b, <1>g, <2>1 DEF DeleteBegin
<1>17. CASE DeleteCommit(t)
  BY <1>1, <1>2, <1>17, <1>a, <1>g DEF DeleteCommit, Effect, Inside
<1> QED
  BY <1>4, <1>5, <1>6, <1>7, <1>8, <1>9, <1>10, <1>11, <1>12, <1>13, <1>14, <1>15, <1>16, <1>17

\* Every step of a thread.
LEMMA StepEffect ==
  ASSUME TypeInv, OwnTransaction, NEW t \in Thread, Step(t)
  PROVE  Effect(t) /\ Onward(t) /\ calls' = calls /\ pc[t] # "idle"
BY BatchEffect, OtherEffect DEF Step, Import

-----------------------------------------------------------------------------
(* Batches.                                                                *)

Elements(l) == {l[i] : i \in DOMAIN l}

\* Without a transaction the connection reads what is on disk.
Settled == tx = None => view = disk

\* No two requests share an id, and the history has marks of past ids only.
IdsApart ==
  /\ \A w \in view.history \cup disk.history : w.call <= calls
  /\ \A t \in Thread : pc[t] # "idle" => job[t].id <= calls
  /\ \A s, t \in Thread :
       pc[s] # "idle" /\ pc[t] # "idle" /\ job[s].id = job[t].id => s = t
  /\ \A t \in Thread : pc[t] = "idle" => job[t] = None

\* How far the updates of a request have come: what the connection reads of
\* them and what is on disk.
Progress(place, j, V, D) ==
  /\ V \subseteq Elements(j.call.items) /\ D \subseteq Elements(j.call.items)
  /\ place \in {"item", "itemlog"} => Elements(j.left) \subseteq Elements(j.call.items)
  /\ j.call.op # "update" =>
       /\ place \in Earlier => V = {} /\ D = {}
       /\ place \in {"item", "itemlog"} =>
            D = {} /\ Elements(j.call.items) \subseteq V \cup Elements(j.left)
       /\ place = "commit" => D = {} /\ V = Elements(j.call.items)
       /\ place = "rollback" => D = {}
       /\ place \in {"reread", "answer"} => V \subseteq D

BatchOK(t) ==
  pc[t] # "idle" =>
    Progress(pc[t], job[t], Updated(view, job[t].id), Updated(disk, job[t].id))

BatchInv == Settled /\ IdsApart /\ \A t \in Thread : BatchOK(t)

\* The property of one thread's batch in one step.
Whole(t) ==
  (job[t] # None /\ ~(Updated(disk', job[t].id) \subseteq Updated(disk, job[t].id)))
    => Updated(disk', job[t].id)
         = {job[t].call.items[i] : i \in DOMAIN job[t].call.items}

\* An update of one row is whole as soon as it is there.
LEMMA SingleUpdate ==
  ASSUME NEW j \in Job, j.call.op = "update", NEW D, D \subseteq Elements(j.call.items), D # {}
  PROVE  D = Elements(j.call.items)
<1>1. j.call \in Call /\ j.call.items \in Seq(Address) /\ Len(j.call.items) = 1
  BY JobParts, ConnectionAssumption
<1>2. Elements(j.call.items) = {j.call.items[1]}
  BY <1>1 DEF Elements
<1> QED
  BY <1>2

\* The marks of a call that statements of another thread leave alone.
LEMMA UpdatedSame ==
  ASSUME NEW v, NEW new, NEW id,
         v.history \subseteq new.history,
         \A w \in new.history \ v.history : w.call # id
  PROVE  Updated(new, id) = Updated(v, id)
<1>1. {x \in new.history : x.call = id /\ x.kind = "update"}
        = {x \in v.history : x.call = id /\ x.kind = "update"}
  OBVIOUS
<1> QED
  BY <1>1 DEF Updated

\* Deletions leave no more marks than there were.
LEMMA UpdatedLess ==
  ASSUME NEW v, NEW new, NEW id, new.history \subseteq v.history
  PROVE  Updated(new, id) \subseteq Updated(v, id)
BY DEF Updated

\* While a thread works, the others' batches stay as they are.
LEMMA OthersKeep ==
  ASSUME TypeInv, OwnTransaction, BatchInv, NEW t \in Thread, Step(t),
         NEW s \in Thread, s # t
  PROVE  BatchOK(s)' /\ Whole(s)
<1>0. Effect(t) /\ Onward(t) /\ calls' = calls /\ pc[t] # "idle"
  BY StepEffect
<1>1. Threads
  BY DEF TypeInv
<1>2. pc'[s] = pc[s] /\ job'[s] = job[s]
  BY <1>0, <1>1 DEF Onward, Go, Threads
<1>3. CASE pc[s] = "idle"
  BY <1>2, <1>3 DEF BatchOK, Whole, BatchInv, IdsApart
<1>4. CASE pc[s] # "idle"
  <2>1. job[s] \in Job /\ job[t] \in Job /\ job[s].id # job[t].id
    BY <1>0, <1>1, <1>4, Busy DEF BatchInv, IdsApart
  <2>2. PICK j, V, D : /\ j = job[s] /\ V = Updated(view, j.id) /\ D = Updated(disk, j.id)
    OBVIOUS
  <2>3. Progress(pc[s], j, V, D)
    BY <1>4, <2>2 DEF BatchInv, BatchOK
  <2>4. Inside(pc[s], j) => tx = s
    BY <2>2 DEF OwnTransaction, Transacting, Inside
  <2>5. ASSUME NEW W, NEW E, W = Updated(view', j.id), E = Updated(disk', j.id),
               Progress(pc[s], j, W, E),
               ~(E \subseteq D) => E = Elements(j.call.items)
        PROVE  BatchOK(s)' /\ Whole(s)
    BY <1>2, <2>2, <2>5 DEF BatchOK, Whole, Elements
  <2>6. CASE UNCHANGED db
    BY <2>2, <2>3, <2>5, <2>6 DEF db
  <2>7. ASSUME NEW new, Exec(new), Grown(t, new) PROVE BatchOK(s)' /\ Whole(s)
    <3>1. Updated(new, j.id) = V
      BY <2>1, <2>2, <2>7, UpdatedSame DEF Grown
    <3>2. CASE tx = None
      <4>1. view = disk /\ view' = new /\ disk' = new
        BY <2>7, <3>2 DEF Exec, BatchInv, Settled
      <4> QED
        BY <2>2, <2>3, <2>5, <3>1, <4>1
    <3>3. CASE tx # None
      <4>1. view' = new /\ disk' = disk
        BY <2>7, <3>3 DEF Exec
      <4> QED
        BY <2>2, <2>3, <2>5, <3>1, <4>1
    <3> QED
      BY <3>2, <3>3
  <2>8. ASSUME NEW new, Begin(t, new), new.history \subseteq view.history
        PROVE  BatchOK(s)' /\ Whole(s)
    <3>1. PICK W : W = Updated(new, j.id)
      OBVIOUS
    <3>2. W \subseteq V
      BY <2>2, <2>8, <3>1, UpdatedLess
    <3>3. view' = new /\ disk' = disk /\ ~Inside(pc[s], j)
      BY <2>4, <2>8, ConnectionAssumption DEF Begin
    <3>4. Progress(pc[s], j, W, D)
      BY <2>3, <3>2, <3>3 DEF Progress, Inside
    <3> QED
      BY <2>2, <2>5, <3>1, <3>3, <3>4
  <2>9. CASE Commit /\ tx = t
    <3>1. view' = view /\ disk' = view /\ ~Inside(pc[s], j)
      BY <2>4, <2>9 DEF Commit
    <3>2. Progress(pc[s], j, V, V)
      BY <2>3, <3>1 DEF Progress, Inside
    <3>3. ~(V \subseteq D) => V = Elements(j.call.items)
      <4>1. CASE j.call.op = "update"
        BY <2>1, <2>2, <2>3, <4>1, SingleUpdate DEF Progress
      <4>2. CASE j.call.op # "update"
        <5>1. pc[s] \in Earlier \cup {"reread", "answer"}
          BY <1>1, <1>4, <3>1, <4>2 DEF Inside, Earlier, Threads, Place
        <5> QED
          BY <2>3, <4>2, <5>1 DEF Progress
      <4> QED
        BY <4>1, <4>2
    <3> QED
      BY <2>2, <2>5, <3>1, <3>2, <3>3
  <2>10. CASE Rollback /\ tx = t
    <3>1. view' = disk /\ disk' = disk /\ ~Inside(pc[s], j)
      BY <2>4, <2>10 DEF Rollback
    <3>2. Progress(pc[s], j, D, D)
      BY <2>3, <3>1 DEF Progress, Inside
    <3> QED
      BY <2>2, <2>5, <3>1, <3>2
  <2> QED
    BY <1>0, <2>6, <2>7, <2>8, <2>9, <2>10 DEF Effect
<1> QED
  BY <1>3, <1>4

\* The thread's own step, once it is known what it leaves.
LEMMA StepLeaves ==
  ASSUME Threads, NEW t \in Thread, NEW place, NEW k, Go(t, place, k),
         NEW W, NEW E, W = Updated(view', job[t].id), E = Updated(disk', job[t].id),
         \/ place = "idle"
         \/ k.id = job[t].id /\ k.call = job[t].call /\ Progress(place, k, W, E),
         \/ E \subseteq Updated(disk, job[t].id)
         \/ E = Elements(job[t].call.items)
  PROVE  BatchOK(t)' /\ Whole(t)
<1>1. pc'[t] = place /\ job'[t] = k
  BY DEF Go, Threads
<1> QED
  BY <1>1 DEF BatchOK, Whole, Elements

\* Before its batch a request leaves no updates.
LEMMA EarlierKeeps ==
  ASSUME TypeInv, BatchInv, NEW t \in Thread, pc[t] \in Earlier, Calm,
         NEW place, NEW k, Go(t, place, k),
         \/ place = "idle"
         \/ place \in Earlier \cup {"answer"} /\ k.id = job[t].id /\ k.call = job[t].call
  PROVE  BatchOK(t)' /\ Whole(t)
<1>1. Threads /\ pc[t] # "idle"
  BY DEF TypeInv, Earlier
<1>2. job[t] \in Job
  BY <1>1, Busy
<1>3. PICK V, D : V = Updated(view, job[t].id) /\ D = Updated(disk, job[t].id)
  OBVIOUS
<1>4. PICK W, E : W = Updated(view', job[t].id) /\ E = Updated(disk', job[t].id)
  OBVIOUS
<1>5. Progress(pc[t], job[t], V, D)
  BY <1>1, <1>3 DEF BatchInv, BatchOK
<1>6. W \subseteq V \cup D /\ E \subseteq V \cup D
  BY <1>3, <1>4 DEF Calm, Updated
<1>7. W \subseteq Elements(job[t].call.items) /\ E \subseteq Elements(job[t].call.items)
  BY <1>5, <1>6 DEF Progress
<1>8. job[t].call.op # "update" => W = {} /\ E = {}
  BY <1>5, <1>6 DEF Progress
<1>9. E \subseteq D \/ E = Elements(job[t].call.items)
  BY <1>2, <1>7, <1>8, SingleUpdate
<1>10. place # "idle" => Progress(place, k, W, E)
  BY <1>7, <1>8 DEF Progress, Earlier
<1> QED
  BY <1>1, <1>3, <1>4, <1>9, <1>10, StepLeaves

\* What is said of a list is said of its parts.
LEMMA ElementsSplit ==
  ASSUME NEW l \in Seq(Address), l # <<>>
  PROVE  Elements(l) = {Head(l)} \cup Elements(Tail(l))
<1>1. /\ Len(l) \in Nat \ {0} /\ DOMAIN l = 1..Len(l) /\ Head(l) = l[1]
      /\ Len(Tail(l)) = Len(l) - 1 /\ DOMAIN Tail(l) = 1..(Len(l) - 1)
      /\ \A i \in 1..(Len(l) - 1) : Tail(l)[i] = l[i + 1]
  OBVIOUS
<1>2. ASSUME NEW i \in 1..Len(l) PROVE l[i] \in {Head(l)} \cup Elements(Tail(l))
  <2>1. CASE i = 1
    BY <1>1, <2>1
  <2>2. CASE i # 1
    <3>1. i - 1 \in 1..(Len(l) - 1) /\ Tail(l)[i - 1] = l[i]
      BY <1>1, <1>2, <2>2
    <3> QED
      BY <1>1, <3>1 DEF Elements
  <2> QED
    BY <2>1, <2>2
<1>3. ASSUME NEW i \in 1..(Len(l) - 1) PROVE Tail(l)[i] \in Elements(l)
  <2>1. i + 1 \in 1..Len(l) /\ Tail(l)[i] = l[i + 1]
    BY <1>1, <1>3
  <2> QED
    BY <1>1, <2>1 DEF Elements
<1>4. Head(l) \in Elements(l)
  BY <1>1 DEF Elements
<1> QED
  BY <1>1, <1>2, <1>3, <1>4 DEF Elements

\* Logging an update adds its row to what the connection reads.
LEMMA UpdatedMore ==
  ASSUME NEW v, NEW new, NEW w \in Write, w.kind = "update",
         new.history = v.history \cup {w}
  PROVE  Updated(new, w.call) = Updated(v, w.call) \cup {w.address}
<1>1. {x \in new.history : x.call = w.call /\ x.kind = "update"}
        = {x \in v.history : x.call = w.call /\ x.kind = "update"} \cup {w}
  OBVIOUS
<1> QED
  BY <1>1 DEF Updated

\* A step of a thread before its batch.
LEMMA EarlierStep ==
  ASSUME TypeInv, OwnTransaction, NEW t \in Thread, pc[t] \in Earlier, Step(t),
         ~BatchBegin(t)
  PROVE  /\ Calm
         /\ \E place, k : Go(t, place, k) /\ (place = "idle" \/ place \in Earlier \cup {"answer"})
<1>0. Threads /\ view \in Db
  BY DEF TypeInv, Data
<1>n. \A left : NextSubject(t, left) \in Earlier \cup {"answer"}
  BY DEF NextSubject, Earlier
<1>a. pc[t] \in {"create", "createlog"} => \A rest : After(t, rest) \in Earlier
  BY DEF After, Earlier
<1>s. UNCHANGED db => Calm
  BY DEF Calm, db
<1>x. ASSUME NEW new, Exec(new) \/ Begin(t, new),
             \A w \in new.history : w \in view.history \/ w.kind = "create"
      PROVE  Calm
  BY <1>x DEF Calm, Exec, Begin
<1>c. Commit => Calm
  BY DEF Calm, Commit
<1>1. CASE Refused(t)
  BY <1>1, <1>s DEF Refused, Fail
<1>2. CASE LogItem(t, "create")
  <2>1. PICK new, w : w = Mark(t, "create") /\ new = [view EXCEPT !.history = @ \cup {w}]
    OBVIOUS
  <2>2. new.history = view.history \cup {w} /\ w.kind = "create"
    BY <1>0, <2>1 DEF Db, Mark
  <2>3. Calm
    BY <1>2, <1>x, <2>1, <2>2 DEF LogItem
  <2> QED
    BY <1>2, <1>a, <2>3 DEF LogItem
<1>3. CASE LogViolation(t) /\ pc[t] = "createlog"
  BY <1>3, <1>s DEF LogViolation, Fail
<1>4. CASE KeepRow(t)
  BY <1>4, <1>a, <1>s DEF KeepRow
<1>5. CASE CreateRow(t)
  <2>1. PICK new : new = [view EXCEPT !.rows = @ \cup {Left(t)},
                                      !.applied = @ \cup {Mark(t, "create")}]
    OBVIOUS
  <2>2. Exec(new) /\ new.history = view.history
    BY <1>0, <1>5, <2>1 DEF CreateRow, Db
  <2>3. Calm
    BY <1>x, <2>2
  <2> QED
    BY <1>5, <2>3 DEF CreateRow, Earlier
<1>6. CASE TemplatesBegin(t)
  BY <1>6, <1>x DEF TemplatesBegin, Earlier
<1>7. CASE TemplatesCommit(t)
  BY <1>7, <1>c DEF TemplatesCommit, Earlier
<1>8. CASE CheckSubject(t)
  BY <1>8, <1>s DEF CheckSubject, Fail, Earlier
<1>9. CASE CheckTarget(t)
  BY <1>9, <1>s DEF CheckTarget, Fail, Earlier
<1>10. CASE Checked(t)
  BY <1>10, <1>n, <1>s DEF Checked
<1>11. CASE ReplaceBegin(t)
  <2>1. Cleared(Left(t)).history = view.history
    BY <1>0 DEF Cleared, Db
  <2>2. Calm
    BY <1>11, <1>x, <2>1 DEF ReplaceBegin
  <2> QED
    BY <1>11, <2>2 DEF ReplaceBegin, Earlier
<1>12. CASE InsertEdge(t)
  <2>1. PICK e \in job[t].edges : /\ Exec([view EXCEPT !.edges = @ \cup {e}])
                                  /\ Go(t, "insert", [job[t] EXCEPT !.edges = @ \ {e}])
    BY <1>12 DEF InsertEdge
  <2>2. [view EXCEPT !.edges = @ \cup {e}].history = view.history
    BY <1>0 DEF Db
  <2>3. Calm
    BY <1>x, <2>1, <2>2
  <2> QED
    BY <2>1, <2>3 DEF Earlier
<1>13. CASE InsertViolation(t)
  BY <1>13, <1>s DEF InsertViolation, Fail
<1>14. CASE ReplaceCommit(t)
  BY <1>14, <1>c, <1>n DEF ReplaceCommit
<1>15. CASE InsertAddressRelationship(t)
  <2>1. PICK e \in job[t].found :
          IF Joins(e)
          THEN Exec([view EXCEPT !.edges = @ \cup {e}]) /\ Go(t, "answer", job[t])
          ELSE Fail(t) /\ UNCHANGED db
    BY <1>15 DEF InsertAddressRelationship
  <2>2. [view EXCEPT !.edges = @ \cup {e}].history = view.history
    BY <1>0 DEF Db
  <2>3. Calm
    BY <1>s, <1>x, <2>1, <2>2
  <2> QED
    BY <2>1, <2>3 DEF Fail
<1>16. CASE DeleteBegin(t)
  <2>1. Without(job[t].call.instance).history \subseteq view.history
    BY DEF Without
  <2>2. Calm
    BY <1>16, <1>x, <2>1 DEF DeleteBegin
  <2> QED
    BY <1>16, <2>2 DEF DeleteBegin, Earlier
<1>17. CASE DeleteCommit(t)
  BY <1>17, <1>c DEF DeleteCommit
<1>18. ASSUME UpdateItem(t) \/ ItemMissing(t) \/ LogItem(t, "update") \/ BatchCommit(t)
              \/ BatchRollback(t) \/ Reread(t) \/ Answer(t)
              \/ (LogViolation(t) /\ pc[t] # "createlog")
       PROVE  FALSE
  BY <1>18 DEF UpdateItem, ItemMissing, LogItem, BatchCommit, BatchRollback, Reread,
               Answer, LogViolation, Earlier
<1> QED
  BY <1>1, <1>2, <1>3, <1>4, <1>5, <1>6, <1>7, <1>8, <1>9, <1>10, <1>11, <1>12, <1>13,
     <1>14, <1>15, <1>16, <1>17, <1>18 DEF Step, Batch, Import

\* The steps of a batch, and of the updates after it.
LEMMA LaterStep ==
  ASSUME TypeInv, OwnTransaction, BatchInv, NEW t \in Thread, Step(t),
         pc[t] \notin Earlier \/ BatchBegin(t)
  PROVE  BatchOK(t)' /\ Whole(t)
<1>0. Threads /\ view \in Db
  BY DEF TypeInv, Data
<1>1. pc[t] # "idle"
  BY StepEffect
<1>2. job[t] \in Job /\ JobOK(pc[t], job[t])
  BY <1>0, <1>1, Busy
<1>3. PICK p, j, V, D : /\ p = pc[t] /\ j = job[t]
                        /\ V = Updated(view, j.id) /\ D = Updated(disk, j.id)
  OBVIOUS
<1>4. PICK W, E : W = Updated(view', j.id) /\ E = Updated(disk', j.id)
  OBVIOUS
<1>5. Progress(p, j, V, D)
  BY <1>1, <1>3 DEF BatchInv, BatchOK
<1>6. ASSUME NEW place, NEW k, Go(t, place, k),
             place = "idle" \/ (k.id = j.id /\ k.call = j.call /\ Progress(place, k, W, E)),
             E \subseteq D \/ E = Elements(j.call.items)
      PROVE  BatchOK(t)' /\ Whole(t)
  BY <1>0, <1>3, <1>4, <1>6, StepLeaves
<1>7. UNCHANGED db => W = V /\ E = D
  BY <1>3, <1>4 DEF db
<1>8. CASE BatchBegin(t)
  <2>1. W = V /\ E = D /\ p = "begin"
    BY <1>3, <1>4, <1>8 DEF BatchBegin, Begin
  <2>2. PICK k : k = [j EXCEPT !.left = j.call.items]
    OBVIOUS
  <2>3. k.id = j.id /\ k.call = j.call /\ k.left = j.call.items
    BY <1>2, <1>3, <2>2 DEF Job
  <2>4. Progress("item", k, W, E)
    BY <1>5, <2>1, <2>3 DEF Progress, Earlier
  <2>5. Go(t, "item", k)
    BY <1>3, <1>8, <2>2 DEF BatchBegin
  <2> QED
    BY <1>6, <2>1, <2>3, <2>4, <2>5
<1>9. CASE UpdateItem(t)
  <2>1. PICK new : new = [view EXCEPT !.applied = @ \cup {Mark(t, "update")}]
    OBVIOUS
  <2>2. new.history = view.history /\ Exec(new)
    BY <1>0, <1>9, <2>1 DEF Db, UpdateItem
  <2>3. Updated(new, j.id) = V
    BY <1>3, <2>2 DEF Updated
  <2>4. W = V /\ (E = D \/ E = V)
    BY <1>3, <1>4, <2>2, <2>3 DEF Exec
  <2>6. tx = None => V = D
    BY <1>3 DEF BatchInv, Settled
  <2>7. E = D
    <3>1. tx # None => E = D
      BY <1>3, <1>4, <2>2 DEF Exec
    <3> QED
      BY <2>4, <2>6, <3>1
  <2>5. Progress("itemlog", j, W, E)
    BY <1>3, <1>5, <1>9, <2>4, <2>7 DEF Progress, UpdateItem, Earlier
  <2> QED
    BY <1>3, <1>6, <1>9, <2>7, <2>5 DEF UpdateItem
<1>10. ASSUME ItemMissing(t) \/ (LogViolation(t) /\ pc[t] = "itemlog")
       PROVE  BatchOK(t)' /\ Whole(t)
  <2>1. W = V /\ E = D /\ Thrown(t) /\ p \in {"item", "itemlog"}
    BY <1>3, <1>7, <1>10 DEF ItemMissing, LogViolation
  <2>2. CASE j.call.op = "update"
    BY <1>3, <1>6, <2>1, <2>2 DEF Thrown, Fail
  <2>3. CASE j.call.op # "update"
    <3>1. Progress("rollback", j, W, E)
      BY <1>5, <2>1, <2>3 DEF Progress, Earlier
    <3> QED
      BY <1>3, <1>6, <2>1, <2>3, <3>1 DEF Thrown
  <2> QED
    BY <2>2, <2>3
<1>11. CASE LogItem(t, "update")
  <2>1. p = "itemlog" /\ Left(t) = Head(j.left) /\ Rest(t) = Tail(j.left)
    BY <1>3, <1>11 DEF LogItem, Left, Rest
  <2>2. j.left \in Seq(Address) /\ j.left # <<>> /\ j.call.items \in Seq(Address)
    BY <1>2, <1>3, <2>1, JobParts DEF JobOK
  <2>3. Elements(j.left) = {Head(j.left)} \cup Elements(Tail(j.left))
    BY <2>2, ElementsSplit
  <2>4. PICK w, new : w = Mark(t, "update") /\ new = [view EXCEPT !.history = @ \cup {w}]
    OBVIOUS
  <2>5. /\ w \in Write /\ w.kind = "update" /\ w.call = j.id /\ w.address = Head(j.left)
        /\ new.history = view.history \cup {w} /\ Exec(new)
    BY <1>0, <1>2, <1>3, <1>11, <2>1, <2>2, <2>4, MarkType DEF Mark, Db, LogItem
  <2>6. W = V \cup {Head(j.left)}
    <3>1. Updated(new, w.call) = Updated(view, w.call) \cup {w.address}
      BY <2>5, UpdatedMore
    <3> QED
      BY <1>3, <1>4, <2>5, <3>1 DEF Exec
  <2>7. E = D \/ (E = W /\ tx = None /\ V = D)
    <3>1. tx = None => view = disk
      BY DEF BatchInv, Settled
    <3>2. tx = None => disk' = view'
      BY <2>5 DEF Exec
    <3>3. tx # None => disk' = disk
      BY <2>5 DEF Exec
    <3>4. CASE tx = None
      <4>1. V = D
        BY <1>3, <3>1, <3>4
      <4>2. E = W
        BY <1>4, <3>2, <3>4
      <4> QED
        BY <3>4, <4>1, <4>2
    <3>5. CASE tx # None
      BY <1>3, <1>4, <3>3, <3>5
    <3> QED
      BY <3>4, <3>5
  <2>8. PICK place, k : place = After(t, Tail(j.left)) /\ k = Logged(t, "update")
    OBVIOUS
  <2>9. Go(t, place, k)
    BY <1>11, <2>1, <2>8 DEF LogItem
  <2>10. PICK l : /\ l = IF place \in {"item", "create"} THEN Tail(j.left) ELSE j.call.items
                  /\ k = [j EXCEPT !.done = @ \cup {w}, !.left = l]
    BY <1>3, <2>1, <2>4, <2>8 DEF Logged
  <2>11. k.id = j.id /\ k.call = j.call /\ k.left = l
    BY <1>2, <1>3, <2>10 DEF Job
  <2>12. place = IF Tail(j.left) # <<>> THEN "item"
                 ELSE IF j.call.op = "update" THEN "reread" ELSE "commit"
    BY <1>3, <2>1, <2>8 DEF After
  <2>13. /\ Elements(j.left) \subseteq Elements(j.call.items)
         /\ V \subseteq Elements(j.call.items) /\ D \subseteq Elements(j.call.items)
    BY <1>5, <2>1 DEF Progress
  <2>14. W \subseteq Elements(j.call.items) /\ E \subseteq Elements(j.call.items)
    BY <2>3, <2>6, <2>7, <2>13
  <2>15. place = "item" => Elements(l) \subseteq Elements(j.call.items)
    BY <2>3, <2>10, <2>13
  <2>16. CASE j.call.op = "update"
    <3>1. Progress(place, k, W, E)
      BY <2>11, <2>12, <2>14, <2>15, <2>16 DEF Progress
    <3>2. E \subseteq D \/ E = Elements(j.call.items)
      BY <1>2, <1>3, <2>14, <2>16, SingleUpdate
    <3> QED
      BY <1>6, <2>9, <2>11, <3>1, <3>2
  <2>17. CASE j.call.op # "update"
    <3>1. D = {} /\ Elements(j.call.items) \subseteq V \cup Elements(j.left)
      BY <1>5, <2>1, <2>17 DEF Progress
    <3>2. tx = t
      BY <1>3, <2>1, <2>17 DEF OwnTransaction, Transacting
    <3>3. E = {}
      BY <2>7, <3>1, <3>2, ConnectionAssumption
    <3>4. Elements(j.call.items) \subseteq W \cup Elements(Tail(j.left))
      BY <2>3, <2>6, <3>1
    <3>5. Tail(j.left) = <<>> => Elements(Tail(j.left)) = {}
      BY DEF Elements
    <3>6. place = "item" => l = Tail(j.left)
      BY <2>10
    <3>7. place = "commit" => W = Elements(j.call.items)
      BY <2>12, <2>14, <3>4, <3>5
    <3>8. place \in {"item", "commit"}
      BY <2>12, <2>17
    <3>9. Progress(place, k, W, E)
      BY <2>11, <2>14, <2>15, <3>3, <3>4, <3>6, <3>7, <3>8 DEF Progress, Earlier
    <3> QED
      BY <1>6, <2>9, <2>11, <3>3, <3>9
  <2> QED
    BY <2>16, <2>17
<1>12. CASE BatchCommit(t)
  <2>1. p = "commit" /\ W = V /\ E = V
    BY <1>3, <1>4, <1>12 DEF BatchCommit, Commit
  <2>2. V \subseteq Elements(j.call.items)
    BY <1>5 DEF Progress
  <2>3. V \subseteq D \/ V = Elements(j.call.items)
    BY <1>2, <1>3, <1>5, <2>1, <2>2, SingleUpdate DEF Progress
  <2>4. PICK place : place \in {"reread", "answer"} /\ Go(t, place, j)
    BY <1>3, <1>12 DEF BatchCommit
  <2>5. Progress(place, j, W, E)
    BY <2>1, <2>2, <2>4 DEF Progress, Earlier
  <2> QED
    BY <1>6, <2>1, <2>3, <2>4, <2>5
<1>13. CASE BatchRollback(t)
  <2>1. E = D
    BY <1>3, <1>4, <1>13 DEF BatchRollback, Rollback
  <2> QED
    BY <1>6, <1>13, <2>1 DEF BatchRollback, Fail
<1>14. CASE Reread(t)
  <2>1. p = "reread" /\ W = V /\ E = D
    BY <1>3, <1>7, <1>14 DEF Reread
  <2>2. PICK k : k = [j EXCEPT !.left = Rest(t)]
    OBVIOUS
  <2>3. k.id = j.id /\ k.call = j.call
    BY <1>2, <1>3, <2>2 DEF Job
  <2>4. Progress("reread", k, W, E) /\ Progress("answer", k, W, E)
    BY <1>5, <2>1, <2>3 DEF Progress, Earlier
  <2>5. Fail(t) \/ Go(t, "answer", k) \/ Go(t, "reread", k)
    BY <1>3, <1>14, <2>2 DEF Reread
  <2> QED
    BY <1>6, <2>1, <2>3, <2>4, <2>5 DEF Fail
<1>15. CASE Answer(t)
  BY <1>6, <1>7, <1>15 DEF Answer
<1>16. ASSUME Refused(t) \/ Import(t) \/ CheckSubject(t) \/ CheckTarget(t)
              \/ InsertAddressRelationship(t) \/ DeleteBegin(t) \/ DeleteCommit(t)
              \/ (LogViolation(t) /\ pc[t] # "itemlog")
       PROVE  pc[t] \in Earlier
  BY <1>16 DEF Refused, Import, KeepRow, CreateRow, LogItem, TemplatesBegin, TemplatesCommit,
       Checked, ReplaceBegin, InsertEdge, InsertViolation, ReplaceCommit, CheckSubject,
       CheckTarget, InsertAddressRelationship, DeleteBegin, DeleteCommit, LogViolation, Earlier
<1> QED
  BY <1>8, <1>9, <1>10, <1>11, <1>12, <1>13, <1>14, <1>15, <1>16 DEF Step, Batch

\* A thread's own batch in its own step.
LEMMA OwnKeepsBatch ==
  ASSUME TypeInv, OwnTransaction, BatchInv, NEW t \in Thread, Step(t)
  PROVE  BatchOK(t)' /\ Whole(t)
<1>1. CASE pc[t] \notin Earlier \/ BatchBegin(t)
  BY <1>1, LaterStep
<1>2. CASE pc[t] \in Earlier /\ ~BatchBegin(t)
  <2>1. /\ Calm
        /\ \E place, k : Go(t, place, k) /\ (place = "idle" \/ place \in Earlier \cup {"answer"})
    BY <1>2, EarlierStep
  <2>2. PICK place, k : Go(t, place, k) /\ (place = "idle" \/ place \in Earlier \cup {"answer"})
    BY <2>1
  <2>3. PICK p, j : Go(t, p, j) /\ (p = "idle" \/ (j.id = job[t].id /\ j.call = job[t].call))
    BY StepEffect DEF Onward
  <2>4. Threads
    BY DEF TypeInv
  <2>5. p = place /\ j = k
    BY <2>2, <2>3, <2>4 DEF Go, Threads
  <2> QED
    BY <1>2, <2>1, <2>2, <2>3, <2>5, EarlierKeeps
<1> QED
  BY <1>1, <1>2

\* A step keeps what the connection reads in step with the disk, and the ids apart.
LEMMA StepApart ==
  ASSUME TypeInv, OwnTransaction, BatchInv, NEW t \in Thread, Step(t)
  PROVE  Settled' /\ IdsApart'
<1>0. Effect(t) /\ Onward(t) /\ calls' = calls /\ pc[t] # "idle"
  BY StepEffect
<1>1. Threads /\ Settled /\ IdsApart /\ None \notin Thread
  BY ConnectionAssumption DEF TypeInv, BatchInv
<1>2. Settled'
  BY <1>0, <1>1 DEF Effect, Exec, Begin, Commit, Rollback, Settled, db
<1>3. job[t].id <= calls
  BY <1>0, <1>1 DEF IdsApart
<1>4. \A w \in view'.history \cup disk'.history :
        w \in view.history \cup disk.history \/ w.call = job[t].id
  BY <1>0 DEF Effect, Exec, Begin, Commit, Rollback, Grown, db
<1>5. \A w \in view'.history \cup disk'.history : w.call <= calls'
  BY <1>0, <1>1, <1>3, <1>4 DEF IdsApart
<1>6. PICK place, j :
        /\ Go(t, place, j)
        /\ \/ place = "idle" /\ j = None
           \/ place # "idle" /\ j \in Job /\ j.id = job[t].id /\ j.call = job[t].call
  BY <1>0 DEF Onward
<1>7. /\ pc'[t] = place /\ job'[t] = j
      /\ \A s \in Thread : s # t => pc'[s] = pc[s] /\ job'[s] = job[s]
  BY <1>1, <1>6 DEF Go, Threads
<1>8. ASSUME NEW s \in Thread, pc'[s] # "idle"
      PROVE  pc[s] # "idle" /\ job'[s].id = job[s].id
  BY <1>0, <1>6, <1>7, <1>8
<1>9. ASSUME NEW s \in Thread, pc'[s] = "idle" PROVE job'[s] = None
  <2>1. CASE s = t
    BY <1>6, <1>7, <1>9, <2>1
  <2>2. CASE s # t
    BY <1>1, <1>7, <1>9, <2>2 DEF IdsApart
  <2> QED
    BY <2>1, <2>2
<1> QED
  BY <1>0, <1>1, <1>2, <1>5, <1>8, <1>9 DEF IdsApart

\* A new request has an id of its own, and no updates.
LEMMA ArrivalKeepsBatches ==
  ASSUME TypeInv, BatchInv, NEW t \in Thread, NEW c \in Call, Receive(t, c)
  PROVE  BatchInv' /\ \A s \in Thread : Whole(s)
<1>1. Threads /\ Settled /\ IdsApart /\ calls \in Nat /\ view \in Db /\ disk \in Db
  BY ConnectionAssumption DEF TypeInv, Data, BatchInv
<1>2. /\ view' = view /\ disk' = disk /\ tx' = tx /\ calls' = calls + 1 /\ pc[t] = "idle"
  BY DEF Receive, db
<1>3. PICK place, j :
        /\ place = IF c.op = "update" THEN "item"
                   ELSE IF c.op = "bulk" THEN "begin"
                   ELSE IF c.op = "delete" THEN "delete"
                   ELSE IF c.op = "import" /\ c.subjects # <<>> THEN "create"
                   ELSE "check"
        /\ j = [call |-> c, id |-> calls + 1, edge |-> None, edges |-> c.edges,
                left |-> IF c.op = "import" THEN c.subjects ELSE c.items,
                found |-> {}, done |-> {}]
  OBVIOUS
<1>4. Go(t, place, j) /\ j.id = calls + 1 /\ j.call = c /\ place # "idle"
  BY <1>3 DEF Receive
<1>5. /\ pc'[t] = place /\ job'[t] = j
      /\ \A s \in Thread : s # t => pc'[s] = pc[s] /\ job'[s] = job[s]
  BY <1>1, <1>4 DEF Go, Threads
<1>6. Settled'
  BY <1>1, <1>2 DEF Settled
<1>7. ASSUME NEW s \in Thread PROVE Whole(s)
  BY <1>2 DEF Whole
<1>8. \A s \in Thread : s # t /\ pc[s] # "idle" => job[s] \in Job /\ job[s].id \in Nat
  BY <1>1, Busy, JobParts, ConnectionAssumption
<1>9. \A w \in view.history \cup disk.history : w.call \in Nat
  BY <1>1, ConnectionAssumption DEF Db, Write
<1>10. IdsApart'
  <2>1. \A w \in view'.history \cup disk'.history : w.call <= calls'
    BY <1>1, <1>2, <1>9 DEF IdsApart
  <2>2. \A s \in Thread : pc'[s] # "idle" => job'[s].id <= calls'
    BY <1>1, <1>2, <1>4, <1>5, <1>8 DEF IdsApart
  <2>3. \A s \in Thread : pc[s] # "idle" => job[s].id < calls + 1
    BY <1>1, <1>2, <1>8 DEF IdsApart
  <2>4. \A r, s \in Thread :
          pc'[r] # "idle" /\ pc'[s] # "idle" /\ job'[r].id = job'[s].id => r = s
    <3> SUFFICES ASSUME NEW r \in Thread, NEW s \in Thread, pc'[r] # "idle",
                        pc'[s] # "idle", job'[r].id = job'[s].id, r # s
                 PROVE  FALSE
      OBVIOUS
    <3>1. CASE r = t
      BY <1>1, <1>4, <1>5, <1>8, <2>3, <3>1
    <3>2. CASE s = t
      BY <1>1, <1>4, <1>5, <1>8, <2>3, <3>2
    <3>3. CASE r # t /\ s # t
      BY <1>1, <1>5, <3>3 DEF IdsApart
    <3> QED
      BY <3>1, <3>2, <3>3
  <2>5. \A s \in Thread : pc'[s] = "idle" => job'[s] = None
    BY <1>1, <1>4, <1>5 DEF IdsApart
  <2> QED
    BY <2>1, <2>2, <2>4, <2>5 DEF IdsApart
<1>11. Updated(view, calls + 1) = {} /\ Updated(disk, calls + 1) = {}
  BY <1>1, <1>9 DEF Updated, IdsApart
<1>12. BatchOK(t)'
  <2>1. /\ place \in Earlier \cup {"item"} /\ (place = "item" => c.op = "update")
        /\ (place = "item" => j.left = c.items)
    BY <1>3 DEF Earlier
  <2>2. Progress(place, j, {}, {})
    BY <1>4, <2>1 DEF Progress, Earlier
  <2> QED
    BY <1>2, <1>4, <1>5, <1>11, <2>2 DEF BatchOK
<1>13. ASSUME NEW s \in Thread, s # t PROVE BatchOK(s)'
  BY <1>2, <1>5, <1>13 DEF BatchOK, BatchInv
<1> QED
  BY <1>6, <1>7, <1>10, <1>12, <1>13 DEF BatchInv

\* After a crash no request is left, and the open transaction is gone.
LEMMA CrashKeepsBatches ==
  ASSUME TypeInv, BatchInv, Crash
  PROVE  BatchInv' /\ \A s \in Thread : Whole(s)
<1>1. /\ view' = disk /\ disk' = disk /\ calls' = calls
      /\ \A s \in Thread : pc'[s] = "idle" /\ job'[s] = None
  BY DEF Crash, Rollback
<1>2. IdsApart'
  BY <1>1 DEF BatchInv, IdsApart
<1> QED
  BY <1>1, <1>2 DEF BatchInv, Settled, BatchOK, Whole

\* Before the first request there is no update to split.
LEMMA BatchInit == Init => BatchInv
<1> SUFFICES ASSUME Init PROVE BatchInv
  OBVIOUS
<1>1. view.history = {} /\ disk.history = {} /\ view = disk
  BY DEF Init
<1> QED
  BY <1>1 DEF Init, BatchInv, Settled, IdsApart, BatchOK

\* Any step keeps the invariant, and breaks no batch.
LEMMA BatchStep ==
  TypeInv /\ OwnTransaction /\ BatchInv /\ [Next]_vars
    => BatchInv' /\ [\A t \in Thread : Whole(t)]_vars
<1> SUFFICES ASSUME TypeInv, OwnTransaction, BatchInv, [Next]_vars
             PROVE  BatchInv' /\ [\A t \in Thread : Whole(t)]_vars
  OBVIOUS
<1>1. CASE UNCHANGED vars
  BY <1>1 DEF vars, BatchInv, Settled, IdsApart, BatchOK
<1>2. ASSUME NEW t \in Thread, NEW c \in Call, Receive(t, c)
      PROVE  BatchInv' /\ \A s \in Thread : Whole(s)
  BY <1>2, ArrivalKeepsBatches
<1>3. ASSUME NEW t \in Thread, Step(t)
      PROVE  BatchInv' /\ \A s \in Thread : Whole(s)
  BY <1>3, OwnKeepsBatch, OthersKeep, StepApart DEF BatchInv
<1>4. CASE Crash
  BY <1>4, CrashKeepsBatches
<1> QED
  BY <1>1, <1>2, <1>3, <1>4 DEF Next

\* The invariant holds throughout.
LEMMA BatchesHold == Spec => []BatchInv
<1>1. Spec => []TypeInv
  BY TypeInvInit, TypeInvInductive, PTL DEF Spec
<1> QED
  BY <1>1, BatchInit, BatchStep, TransactionsAreOwned, PTL DEF Spec

\* A batch reaches the disk as a whole: an update that appears there comes
\* with all the updates of its request (ApplyBulkUpdates), whichever thread
\* commits meanwhile.
THEOREM BatchesAreWhole == Spec => BatchAllOrNothing
<1>1. [\A t \in Thread : Whole(t)]_vars
        <=> [\A t \in Thread :
               (job[t] # None /\ ~(Updated(disk', job[t].id) \subseteq Updated(disk, job[t].id)))
                 => Updated(disk', job[t].id)
                      = {job[t].call.items[i] : i \in DOMAIN job[t].call.items}]_vars
  BY DEF Whole
<1>2. Spec => []TypeInv
  BY TypeInvInit, TypeInvInductive, PTL DEF Spec
<1> QED
  BY <1>1, <1>2, BatchesHold, BatchStep, TransactionsAreOwned, PTL DEF Spec, BatchAllOrNothing

-----------------------------------------------------------------------------
(* The mutex and the edges.                                                *)

\* The places inside a method that runs more than one statement.
Holding == {"itemlog", "createlog", "templated", "insert", "deleted"}

\* Such a method keeps the mutex between its statements.
MutexHeld == \A t \in Thread : pc[t] \in Holding => mutex = t

\* What the open transaction of a thread has made of the edges: a replacement
\* touches one subject, a deletion takes edges with their rows, any other
\* transaction only adds.
EdgesOK(t) ==
  /\ pc[t] = "insert" =>
       /\ job[t].edges \subseteq Own(t)
       /\ Out(view, Left(t)) = Own(t) \ job[t].edges
       /\ \A e \in disk.edges : e.subject # Left(t) => e \in view.edges
  /\ pc[t] = "deleted" =>
       \A e \in disk.edges \ view.edges : ~({e.subject, e.target} \subseteq view.rows)
  /\ Transacting(t) /\ pc[t] \notin {"insert", "deleted", "rollback"} =>
       disk.edges \subseteq view.edges

EdgesInv == MutexHeld /\ \A t \in Thread : EdgesOK(t)

\* A step of a thread as the edges see it.
EdgesEffect(t) ==
  \/ UNCHANGED db
  \/ \E new : /\ Exec(new)
              /\ view.edges \subseteq new.edges
              /\ Free \/ mutex = t
  \/ \E new : Begin(t, new)
  \/ /\ Commit /\ Transacting(t) /\ pc[t] # "rollback"
     /\ pc[t] = "insert" => job[t].edges = {}
  \/ Rollback /\ Transacting(t)

\* A step of a thread as the mutex sees it.
MutexEffect(t) ==
  /\ \/ UNCHANGED mutex
     \/ Free /\ mutex' = t
     \/ pc[t] \in Holding /\ mutex' = None
  /\ pc'[t] \in Holding => mutex' = t

\* Each step of a thread is such a step.
LEMMA StepEdges ==
  ASSUME TypeInv, MutexHeld, NEW t \in Thread, Step(t)
  PROVE  EdgesEffect(t) /\ MutexEffect(t)
<1>0. Threads /\ view \in Db
  BY DEF TypeInv, Data
<1>p. ASSUME NEW place, NEW j, Go(t, place, j) PROVE pc'[t] = place
  BY <1>0, <1>p DEF Go, Threads
<1>f. Fail(t) => pc'[t] = "idle"
  BY <1>p DEF Fail
<1>r. After(t, Rest(t)) \notin Holding /\ \A left : NextSubject(t, left) \notin Holding
  BY DEF After, NextSubject, Holding
<1>t. Thrown(t) => pc'[t] \notin Holding
  BY <1>f, <1>p DEF Thrown, Holding
<1>x. ASSUME NEW new, Exec(new), new.edges = view.edges, Free \/ mutex = t
      PROVE  EdgesEffect(t)
  BY <1>x DEF EdgesEffect
<1>a. ASSUME NEW e, Exec([view EXCEPT !.edges = @ \cup {e}]), Free \/ mutex = t
      PROVE  EdgesEffect(t)
  <2>1. view.edges \subseteq [view EXCEPT !.edges = @ \cup {e}].edges
    BY <1>0 DEF Db
  <2> QED
    BY <1>a, <2>1 DEF EdgesEffect
<1>1. CASE Refused(t)
  BY <1>1, <1>f DEF Refused, EdgesEffect, MutexEffect, Holding
<1>2. CASE BatchBegin(t)
  BY <1>2, <1>p DEF BatchBegin, EdgesEffect, MutexEffect, Holding
<1>3. CASE UpdateItem(t)
  <2>1. PICK new : new = [view EXCEPT !.applied = @ \cup {Mark(t, "update")}]
    OBVIOUS
  <2>2. Exec(new) /\ new.edges = view.edges
    BY <1>0, <1>3, <2>1 DEF UpdateItem, Db
  <2>3. EdgesEffect(t)
    BY <1>3, <1>x, <2>2 DEF UpdateItem
  <2> QED
    BY <1>3, <1>p, <2>3 DEF UpdateItem, MutexEffect
<1>4. CASE ItemMissing(t)
  BY <1>4, <1>t DEF ItemMissing, EdgesEffect, MutexEffect
<1>5. ASSUME NEW kind \in {"create", "update"}, LogItem(t, kind)
      PROVE  EdgesEffect(t) /\ MutexEffect(t)
  <2>1. PICK new : new = [view EXCEPT !.history = @ \cup {Mark(t, kind)}]
    OBVIOUS
  <2>2. Exec(new) /\ new.edges = view.edges /\ pc[t] \in Holding
    BY <1>0, <1>5, <2>1 DEF LogItem, Db, Holding
  <2>3. EdgesEffect(t)
    BY <1>x, <2>2 DEF MutexHeld
  <2> QED
    BY <1>5, <1>p, <1>r, <2>2, <2>3 DEF LogItem, MutexEffect
<1>6. CASE LogViolation(t)
  BY <1>6, <1>f, <1>t DEF LogViolation, EdgesEffect, MutexEffect, Holding
<1>7. CASE BatchCommit(t)
  BY <1>7, <1>p DEF BatchCommit, EdgesEffect, MutexEffect, Transacting, Holding
<1>8. CASE BatchRollback(t)
  BY <1>8, <1>f DEF BatchRollback, EdgesEffect, MutexEffect, Transacting, Holding
<1>9. CASE Reread(t)
  <2>1. pc'[t] \notin Holding
    BY <1>9, <1>f, <1>p DEF Reread, Holding
  <2> QED
    BY <1>9, <2>1 DEF Reread, EdgesEffect, MutexEffect
<1>10. CASE Answer(t)
  BY <1>10, <1>p DEF Answer, EdgesEffect, MutexEffect, Holding
<1>11. CASE KeepRow(t)
  BY <1>11, <1>p, <1>r DEF KeepRow, EdgesEffect, MutexEffect
<1>12. CASE CreateRow(t)
  <2>1. PICK new : new = [view EXCEPT !.rows = @ \cup {Left(t)},
                                      !.applied = @ \cup {Mark(t, "create")}]
    OBVIOUS
  <2>2. Exec(new) /\ new.edges = view.edges
    BY <1>0, <1>12, <2>1 DEF CreateRow, Db
  <2>3. EdgesEffect(t)
    BY <1>12, <1>x, <2>2 DEF CreateRow
  <2> QED
    BY <1>12, <1>p, <2>3 DEF CreateRow, MutexEffect
<1>13. CASE TemplatesBegin(t)
  BY <1>13, <1>p DEF TemplatesBegin, EdgesEffect, MutexEffect
<1>14. CASE TemplatesCommit(t)
  BY <1>14, <1>p DEF TemplatesCommit, EdgesEffect, MutexEffect, Transacting, Holding
<1>15. CASE CheckSubject(t)
  <2>1. pc'[t] \notin Holding
    BY <1>15, <1>f, <1>p DEF CheckSubject, Holding
  <2> QED
    BY <1>15, <2>1 DEF CheckSubject, EdgesEffect, MutexEffect
<1>16. CASE CheckTarget(t)
  <2>1. pc'[t] \notin Holding
    BY <1>16, <1>f, <1>p DEF CheckTarget, Holding
  <2> QED
    BY <1>16, <2>1 DEF CheckTarget, EdgesEffect, MutexEffect
<1>17. CASE Checked(t)
  BY <1>17, <1>p, <1>r DEF Checked, EdgesEffect, MutexEffect
<1>18. CASE ReplaceBegin(t)
  BY <1>18, <1>p DEF ReplaceBegin, EdgesEffect, MutexEffect
<1>19. CASE InsertEdge(t)
  <2>1. mutex = t /\ mutex' = mutex
    BY <1>19 DEF InsertEdge, MutexHeld, Holding
  <2> QED
    BY <1>19, <1>a, <2>1 DEF InsertEdge, MutexEffect
<1>20. CASE InsertViolation(t)
  BY <1>20, <1>f DEF InsertViolation, EdgesEffect, MutexEffect, Holding
<1>21. CASE ReplaceCommit(t)
  BY <1>21, <1>p, <1>r DEF ReplaceCommit, EdgesEffect, MutexEffect, Transacting, Holding
<1>22. CASE InsertAddressRelationship(t)
  <2>1. PICK e \in job[t].found :
          IF Joins(e)
          THEN Exec([view EXCEPT !.edges = @ \cup {e}]) /\ Go(t, "answer", job[t])
          ELSE Fail(t) /\ UNCHANGED db
    BY <1>22 DEF InsertAddressRelationship
  <2>2. EdgesEffect(t)
    <3>1. CASE Joins(e)
      BY <1>22, <1>a, <2>1, <3>1 DEF InsertAddressRelationship
    <3>2. CASE ~Joins(e)
      BY <2>1, <3>2 DEF EdgesEffect
    <3> QED
      BY <3>1, <3>2
  <2>3. pc'[t] \notin Holding
    BY <1>f, <1>p, <2>1 DEF Holding
  <2> QED
    BY <1>22, <2>2, <2>3 DEF InsertAddressRelationship, MutexEffect
<1>23. CASE DeleteBegin(t)
  BY <1>23, <1>p DEF DeleteBegin, EdgesEffect, MutexEffect
<1>24. CASE DeleteCommit(t)
  BY <1>24, <1>p DEF DeleteCommit, EdgesEffect, MutexEffect, Transacting, Holding
<1> QED
  BY <1>1, <1>2, <1>3, <1>4, <1>5, <1>6, <1>7, <1>8, <1>9, <1>10, <1>11, <1>12, <1>13,
     <1>14, <1>15, <1>16, <1>17, <1>18, <1>19, <1>20, <1>21, <1>22, <1>23, <1>24
     DEF Step, Batch, Import

\* Another thread in the middle of its transaction finds the edges as it left
\* them, or more of them if it does not hold the mutex.
LEMMA OthersEdges ==
  ASSUME TypeInv, OwnTransaction, BatchInv, EdgesInv, NEW t \in Thread, Step(t),
         NEW s \in Thread, s # t
  PROVE  (pc[s] \in Holding => mutex = s)' /\ EdgesOK(s)'
<1>1. Onward(t) /\ EdgesEffect(t) /\ MutexEffect(t) /\ Threads /\ None \notin Thread
  BY StepEffect, StepEdges, ConnectionAssumption DEF TypeInv, EdgesInv
<1>2. pc'[s] = pc[s] /\ job'[s] = job[s]
  BY <1>1 DEF Onward, Go, Threads
<1>3. pc[s] \in Holding => mutex = s /\ mutex' = s
  BY <1>1 DEF EdgesInv, MutexHeld, MutexEffect, Free
<1>4. EdgesOK(s)
  BY DEF EdgesInv
<1>5. Transacting(s) => tx = s
  BY DEF OwnTransaction
<1>6. ASSUME ~Transacting(s) PROVE EdgesOK(s)'
  BY <1>2, <1>6 DEF Transacting, EdgesOK
<1>7. ASSUME Transacting(s) PROVE EdgesOK(s)'
  <2>1. tx = s /\ ~Transacting(t)
    BY <1>5, <1>7 DEF OwnTransaction
  <2>2. ASSUME UNCHANGED db PROVE EdgesOK(s)'
    BY <1>2, <1>4, <2>2 DEF db, EdgesOK, Own, Left, Transacting
  <2>3. ASSUME NEW new, Exec(new), view.edges \subseteq new.edges, Free \/ mutex = t
        PROVE  EdgesOK(s)'
    <3>1. pc[s] \notin Holding
      BY <1>1, <1>3, <2>3 DEF Free
    <3>2. view' = new /\ disk' = disk
      BY <1>1, <2>1, <2>3 DEF Exec
    <3> QED
      BY <1>2, <1>4, <2>3, <3>1, <3>2 DEF EdgesOK, Holding, Transacting
  <2> QED
    BY <1>1, <2>1, <2>2, <2>3 DEF EdgesEffect, Begin
<1> QED
  BY <1>2, <1>3, <1>6, <1>7

\* A thread's own steps.
LEMMA OwnEdges ==
  ASSUME TypeInv, OwnTransaction, BatchInv, EdgesInv, NEW t \in Thread, Step(t)
  PROVE  EdgesOK(t)'
<1>0. Threads /\ view \in Db /\ EdgesOK(t) /\ (tx = None => view = disk)
  BY DEF TypeInv, Data, EdgesInv, BatchInv, Settled
<1>j. pc[t] # "idle" => job[t] \in Job
  BY <1>0, Busy
<1>p. ASSUME NEW place, NEW j, Go(t, place, j) PROVE pc'[t] = place /\ job'[t] = j
  BY <1>0, <1>p DEF Go, Threads
<1>s. ASSUME NEW place, NEW j, Go(t, place, j),
             place \in {"idle", "begin", "rollback", "reread", "answer", "create", "createlog",
                        "templates", "check", "checktarget", "replace", "relate", "delete"}
      PROVE  EdgesOK(t)'
  BY <1>s, <1>p DEF EdgesOK, Transacting
<1>f. Fail(t) => EdgesOK(t)'
  BY <1>s DEF Fail
<1>n. \A left : NextSubject(t, left) \in {"replace", "begin", "answer"}
  BY DEF NextSubject
<1>a. pc[t] \in {"create", "createlog"} => After(t, Rest(t)) \in {"templates", "create"}
  BY DEF After
<1>g. ASSUME NEW place \in {"item", "itemlog", "commit", "templated"}, NEW j, Go(t, place, j),
             disk'.edges \subseteq view'.edges
      PROVE  EdgesOK(t)'
  BY <1>g, <1>p DEF EdgesOK, Transacting
<1>u. ASSUME NEW place \in {"item", "itemlog"}, NEW j, Go(t, place, j), j.call.op = "update"
      PROVE  EdgesOK(t)'
  BY <1>u, <1>p DEF EdgesOK, Transacting
<1>1. CASE BatchBegin(t)
  <2>1. disk'.edges \subseteq view'.edges
    BY <1>0, <1>1 DEF BatchBegin, Begin
  <2> QED
    BY <1>1, <1>g, <2>1 DEF BatchBegin
<1>2. CASE UpdateItem(t)
  <2>1. PICK new : new = [view EXCEPT !.applied = @ \cup {Mark(t, "update")}]
    OBVIOUS
  <2>2. Exec(new) /\ new.edges = view.edges
    BY <1>0, <1>2, <2>1 DEF UpdateItem, Db
  <2>3. Go(t, "itemlog", job[t]) /\ pc[t] = "item"
    BY <1>2 DEF UpdateItem
  <2>4. CASE job[t].call.op = "update"
    BY <1>u, <2>3, <2>4
  <2>5. CASE job[t].call.op # "update"
    <3>1. disk'.edges \subseteq view'.edges
      BY <1>0, <2>2, <2>3, <2>5 DEF Exec, EdgesOK, Transacting
    <3> QED
      BY <1>g, <2>3, <3>1
  <2> QED
    BY <2>4, <2>5
<1>3. CASE ItemMissing(t)
  BY <1>3, <1>f, <1>s DEF ItemMissing, Thrown
<1>4. CASE LogItem(t, "update")
  <2>1. PICK new : new = [view EXCEPT !.history = @ \cup {Mark(t, "update")}]
    OBVIOUS
  <2>2. Exec(new) /\ new.edges = view.edges
    BY <1>0, <1>4, <2>1 DEF LogItem, Db
  <2>3. PICK place, k : place = After(t, Rest(t)) /\ k = Logged(t, "update")
    OBVIOUS
  <2>4. Go(t, place, k) /\ pc[t] = "itemlog" /\ job[t] \in Job
    BY <1>4, <1>j, <2>3 DEF LogItem
  <2>5. PICK d, l : k = [job[t] EXCEPT !.done = d, !.left = l]
    BY <2>3 DEF Logged
  <2>6. k.call = job[t].call
    BY <2>4, <2>5 DEF Job
  <2>7. /\ place \in {"item", "reread", "commit"}
        /\ place = "commit" => job[t].call.op # "update"
    BY <2>3, <2>4 DEF After
  <2>8. CASE job[t].call.op = "update"
    BY <1>s, <1>u, <2>4, <2>6, <2>7, <2>8
  <2>9. CASE job[t].call.op # "update"
    <3>1. disk'.edges \subseteq view'.edges
      BY <1>0, <2>2, <2>4, <2>9 DEF Exec, EdgesOK, Transacting
    <3> QED
      BY <1>g, <1>s, <2>4, <2>7, <3>1
  <2> QED
    BY <2>8, <2>9
<1>5. CASE TemplatesBegin(t)
  <2>1. disk'.edges \subseteq view'.edges
    BY <1>0, <1>5 DEF TemplatesBegin, Begin
  <2> QED
    BY <1>5, <1>g, <2>1 DEF TemplatesBegin
<1>6. CASE ReplaceBegin(t)
  <2>1. job[t] \in Job /\ view = disk
    BY <1>0, <1>6, <1>j DEF ReplaceBegin, Begin
  <2>2. PICK k, E : E = Own(t) /\ k = [job[t] EXCEPT !.edges = E]
    OBVIOUS
  <2>3. k.edges = E /\ k.found = job[t].found /\ k.left = job[t].left
    BY <2>1, <2>2 DEF Job
  <2>4. pc'[t] = "insert" /\ job'[t] = k
    BY <1>6, <1>p, <2>2 DEF ReplaceBegin
  <2>5. Own(t)' = E /\ Left(t)' = Left(t)
    BY <2>2, <2>3, <2>4 DEF Own, Left
  <2>6. view' = Cleared(Left(t)) /\ disk' = disk
    BY <1>6 DEF ReplaceBegin, Begin
  <2>7. view'.edges = {e \in view.edges : e.subject # Left(t)}
    BY <1>0, <2>6 DEF Cleared, Db
  <2>8. Out(view', Left(t)) = {}
    BY <2>7 DEF Out
  <2>9. \A e \in disk'.edges : e.subject # Left(t) => e \in view'.edges
    BY <2>1, <2>6, <2>7
  <2> QED
    BY <2>3, <2>4, <2>5, <2>8, <2>9 DEF EdgesOK, Transacting
<1>7. CASE InsertEdge(t)
  <2>1. PICK e \in job[t].edges : /\ Exec([view EXCEPT !.edges = @ \cup {e}])
                                  /\ Go(t, "insert", [job[t] EXCEPT !.edges = @ \ {e}])
    BY <1>7 DEF InsertEdge
  <2>2. pc[t] = "insert" /\ job[t] \in Job /\ tx = t /\ None \notin Thread
    BY <1>7, <1>j, ConnectionAssumption DEF InsertEdge, OwnTransaction, Transacting
  <2>3. PICK k, new : /\ k = [job[t] EXCEPT !.edges = @ \ {e}]
                      /\ new = [view EXCEPT !.edges = @ \cup {e}]
    OBVIOUS
  <2>4. /\ k.edges = job[t].edges \ {e} /\ k.found = job[t].found /\ k.left = job[t].left
        /\ new.edges = view.edges \cup {e}
    BY <1>0, <2>2, <2>3 DEF Job, Db
  <2>5. pc'[t] = "insert" /\ job'[t] = k /\ view' = new /\ disk' = disk
    BY <1>p, <2>1, <2>2, <2>3 DEF Exec
  <2>6. Own(t)' = Own(t) /\ Left(t)' = Left(t)
    BY <2>4, <2>5 DEF Own, Left
  <2>7. /\ job[t].edges \subseteq Own(t)
        /\ Out(view, Left(t)) = Own(t) \ job[t].edges
        /\ \A x \in disk.edges : x.subject # Left(t) => x \in view.edges
    BY <1>0, <2>2 DEF EdgesOK
  <2>8. e \in Own(t) /\ e.subject = Left(t)
    BY <2>1, <2>7 DEF Own
  <2>9. Out(new, Left(t)) = Out(view, Left(t)) \cup {e}
    BY <2>4, <2>8 DEF Out
  <2>10. Out(new, Left(t)) = Own(t) \ k.edges
    BY <2>1, <2>4, <2>7, <2>8, <2>9
  <2> QED
    BY <2>4, <2>5, <2>6, <2>7, <2>10 DEF EdgesOK, Transacting
<1>8. CASE DeleteBegin(t)
  <2>1. PICK I : I = job[t].call.instance
    OBVIOUS
  <2>2. view = disk /\ view' = Without(I) /\ disk' = disk /\ pc'[t] = "deleted"
    BY <1>0, <1>8, <1>p, <2>1 DEF DeleteBegin, Begin
  <2>3. \A e \in disk'.edges \ view'.edges : ~({e.subject, e.target} \subseteq view'.rows)
    BY <2>2 DEF Without
  <2> QED
    BY <2>2, <2>3 DEF EdgesOK, Transacting
<1>9. ASSUME \/ Refused(t) \/ LogViolation(t) \/ BatchCommit(t) \/ BatchRollback(t) \/ Reread(t)
             \/ Answer(t) \/ CreateRow(t) \/ TemplatesCommit(t) \/ CheckSubject(t)
             \/ CheckTarget(t) \/ InsertViolation(t)
             \/ InsertAddressRelationship(t) \/ DeleteCommit(t)
      PROVE  EdgesOK(t)'
  BY <1>9, <1>f, <1>s DEF Refused, LogViolation, BatchCommit, BatchRollback, Reread, Answer,
     CreateRow, TemplatesCommit, CheckSubject, CheckTarget, InsertViolation,
     InsertAddressRelationship, DeleteCommit, Thrown
<1>10. ASSUME KeepRow(t) \/ LogItem(t, "create") \/ Checked(t) \/ ReplaceCommit(t)
       PROVE  EdgesOK(t)'
  BY <1>10, <1>a, <1>n, <1>s DEF KeepRow, LogItem, Checked, ReplaceCommit
<1> QED
  BY <1>1, <1>2, <1>3, <1>4, <1>5, <1>6, <1>7, <1>8, <1>9, <1>10 DEF Step, Batch, Import

\* The edges of one row in one step.
Replaced(a) ==
  ~(Out(disk, a) \subseteq Out(disk', a)) =>
    \/ \A e \in Out(disk, a) \ Out(disk', a) : ~({e.subject, e.target} \subseteq disk'.rows)
    \/ \E t \in Thread : /\ pc[t] = "insert"
                        /\ Out(disk', a) = {e \in job[t].found : e.subject = a}

\* A step of a thread replaces the edges of a row whole.
LEMMA StepReplaces ==
  ASSUME TypeInv, OwnTransaction, BatchInv, EdgesInv, NEW t \in Thread, Step(t),
         NEW a \in Address
  PROVE  Replaced(a)
<1>1. EdgesEffect(t) /\ EdgesOK(t)
  BY StepEdges DEF EdgesInv
<1>2. CASE UNCHANGED db
  BY <1>2 DEF db, Replaced
<1>3. ASSUME NEW new, Exec(new), view.edges \subseteq new.edges PROVE Replaced(a)
  <2>1. tx = None => view = disk
    BY DEF BatchInv, Settled
  <2>2. disk.edges \subseteq disk'.edges
    BY <1>3, <2>1 DEF Exec
  <2> QED
    BY <2>2 DEF Replaced, Out
<1>4. ASSUME NEW new, Begin(t, new) PROVE Replaced(a)
  BY <1>4 DEF Begin, Replaced
<1>5. CASE /\ Commit /\ Transacting(t) /\ pc[t] # "rollback"
           /\ pc[t] = "insert" => job[t].edges = {}
  <2>1. disk' = view
    BY <1>5 DEF Commit
  <2>2. CASE pc[t] = "insert"
    <3>1. /\ Out(view, Left(t)) = Own(t)
          /\ \A e \in disk.edges : e.subject # Left(t) => e \in view.edges
      BY <1>1, <1>5, <2>2 DEF EdgesOK
    <3>2. CASE a = Left(t)
      BY <2>1, <2>2, <3>1, <3>2 DEF Replaced, Own
    <3>3. CASE a # Left(t)
      <4>1. Out(disk, a) \subseteq Out(disk', a)
        BY <2>1, <3>1, <3>3 DEF Out
      <4> QED
        BY <4>1 DEF Replaced
    <3> QED
      BY <3>2, <3>3
  <2>3. CASE pc[t] = "deleted"
    BY <1>1, <2>1, <2>3 DEF EdgesOK, Replaced, Out
  <2>4. CASE pc[t] \notin {"insert", "deleted"}
    <3>1. disk.edges \subseteq view.edges
      BY <1>1, <1>5, <2>4 DEF Transacting, EdgesOK
    <3> QED
      BY <2>1, <3>1 DEF Replaced, Out
  <2> QED
    BY <2>2, <2>3, <2>4
<1>6. CASE Rollback
  BY <1>6 DEF Rollback, Replaced
<1> QED
  BY <1>1, <1>2, <1>3, <1>4, <1>5, <1>6 DEF EdgesEffect

\* The edges of a row change on disk only as a whole (ReplaceRelationships) or
\* with the rows they touch (DeleteInstance).
THEOREM EdgesAreReplacedWhole == Spec => EdgesReplacedWhole
<1>1. Init => EdgesInv
  BY DEF Init, EdgesInv, MutexHeld, EdgesOK, Holding
<1>2. TypeInv /\ OwnTransaction /\ BatchInv /\ EdgesInv /\ [Next]_vars
        => EdgesInv' /\ [\A a \in Address : Replaced(a)]_vars
  <2> SUFFICES ASSUME TypeInv, OwnTransaction, BatchInv, EdgesInv, [Next]_vars
               PROVE  EdgesInv' /\ [\A a \in Address : Replaced(a)]_vars
    OBVIOUS
  <2>0. Threads
    BY DEF TypeInv
  <2>1. CASE UNCHANGED vars
    BY <2>1 DEF vars, EdgesInv, MutexHeld, EdgesOK, Own, Left, Transacting
  <2>2. ASSUME NEW t \in Thread, NEW c \in Call, Receive(t, c)
        PROVE  EdgesInv' /\ \A a \in Address : Replaced(a)
    <3>1. /\ view' = view /\ disk' = disk /\ mutex' = mutex
      BY <2>2 DEF Receive, db
    <3>2. PICK place, j : /\ Go(t, place, j)
                          /\ \/ place \in {"begin", "delete", "create", "check"}
                             \/ place = "item" /\ j.call.op = "update"
      BY <2>2 DEF Receive
    <3>3. /\ pc'[t] = place /\ job'[t] = j
          /\ \A s \in Thread : s # t => pc'[s] = pc[s] /\ job'[s] = job[s]
      BY <2>0, <3>2 DEF Go, Threads
    <3>4. MutexHeld'
      BY <3>1, <3>2, <3>3 DEF EdgesInv, MutexHeld, Holding
    <3>5. EdgesOK(t)'
      BY <3>2, <3>3 DEF EdgesOK, Transacting
    <3>6. ASSUME NEW s \in Thread, s # t PROVE EdgesOK(s)'
      BY <3>1, <3>3, <3>6 DEF EdgesInv, EdgesOK, Own, Left, Transacting
    <3> QED
      BY <3>1, <3>4, <3>5, <3>6 DEF EdgesInv, Replaced
  <2>3. ASSUME NEW t \in Thread, Step(t)
        PROVE  EdgesInv' /\ \A a \in Address : Replaced(a)
    <3>1. \A s \in Thread : s # t => (pc'[s] \in Holding => mutex' = s) /\ EdgesOK(s)'
      BY <2>3, OthersEdges
    <3>2. (pc'[t] \in Holding => mutex' = t) /\ EdgesOK(t)'
      BY <2>3, StepEdges, OwnEdges DEF EdgesInv, MutexEffect
    <3> QED
      BY <2>3, <3>1, <3>2, StepReplaces DEF EdgesInv, MutexHeld
  <2>4. CASE Crash
    BY <2>4 DEF Crash, Rollback, EdgesInv, MutexHeld, EdgesOK, Holding, Replaced, Transacting
  <2> QED
    BY <2>1, <2>2, <2>3, <2>4 DEF Next
<1>3. [\A a \in Address : Replaced(a)]_vars
        <=> [\A a \in Address :
               ~(Out(disk, a) \subseteq Out(disk', a)) =>
                 \/ \A e \in Out(disk, a) \ Out(disk', a) :
                      ~({e.subject, e.target} \subseteq disk'.rows)
                 \/ \E t \in Thread : /\ pc[t] = "insert"
                                     /\ Out(disk', a) = {e \in job[t].found : e.subject = a}]_vars
  BY DEF Replaced
<1>4. Spec => []TypeInv
  BY TypeInvInit, TypeInvInductive, PTL DEF Spec
<1>5. Spec => []BatchInv
  BY BatchesHold
<1> QED
  BY <1>1, <1>2, <1>3, <1>4, <1>5, TransactionsAreOwned, PTL DEF Spec, EdgesReplacedWhole
===============================================================================
