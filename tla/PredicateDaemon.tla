--------------------------- MODULE PredicateDaemon ---------------------------
(***************************************************************************)
(* ChecklistStore::ApplyUpdate and the predicate daemon it runs.           *)
(*                                                                         *)
(* A request (PATCH /api/v1/slugs/{address_id}) takes the store's mutex,   *)
(* writes its row, appends a history snapshot and then lets the predicates *)
(* on the row's outgoing edges propose further updates.  Proposals are     *)
(* pushed on a LIFO stack with one hop less of depth, and the loop pops    *)
(* until the stack is empty.  A proposal is computed when it is pushed and *)
(* applied, unchanged, when it is popped.  Every SQL statement commits on  *)
(* its own, so a process crash keeps what was executed and loses the rest. *)
(* So does a statement that throws: the OAuth store has a connection of    *)
(* its own to the same file and no connection has a busy timeout, so any   *)
(* statement may find the file locked (SQLITE_BUSY), or the disk full.     *)
(*                                                                         *)
(* The mutex is held from Accept to the return to phase "idle": the other  *)
(* operations of the store wait for that phase.                            *)
(***************************************************************************)
EXTENDS Predicates, Sequences

CONSTANTS
  Address,          \* the row addresses that may exist
  Predicate,        \* the predicate tokens in use
  Typed,            \* the texts people type into results and comments
  User,             \* the principals of people and scripts
  ChainDepth,       \* the configured predicate chain depth
  MaxTime,          \* bound: the clock stops here
  MaxEdges,         \* bound: rows of address_relationships
  MaxRequests,      \* bound: update requests
  MaxFaults,        \* bound: process crashes and failing statements
  Request,          \* the update requests that clients send
  NewEdge,          \* the edges that clients add while the system runs
  Instance,         \* the sets of rows that make up an instance
  InitialStore,     \* the stores to start from: rows and edges
  TemplateText(_),       \* section/action/spec/procedure text of a row
  SpecVerdict(_, _),     \* EvaluateSpecResultVerify: row's spec, a result
  ToSpecUnit(_, _),      \* NormalizeResultToSpecUnit: row's spec, a result
  Dataset(_, _)          \* CSV lookup of an edge and a subject value

Daemon == "predicate_daemon"
Entity == User \cup {Daemon}
Time == 0..MaxTime
Slot == 1..MaxEdges

Text ==
  Typed \cup {Blank} \cup {StatusText(s) : s \in Status}
    \cup {VerdictText(v) : v \in Verdict} \cup {TimeText(t) : t \in Time}
    \cup {FilledText(p, a) : p \in Predicate, a \in Address}

\* The runtime columns of `slugs'.
Row == [result : Text, status : Status, comment : Text,
        timestamp : Time, entity : Entity]

Edge == [subject : Address, predicate : Predicate, target : Address]

\* SlugUpdate: None is an optional that is not set.
Update == [address : Address,
           result : Text \cup {None}, status : Status \cup {None},
           comment : Text \cup {None}, timestamp : Time \cup {None},
           entity : Entity]

Pending == [update : Update, depth : Nat]

\* The row the loop is busy with, which of its columns the update changed,
\* the hops left, and the time its predicates are evaluated at.
Work == [address : Address, row : Row,
         changed : SUBSET Writable, depth : Nat, now : Time]

ASSUME ConstantsAssumption ==
  /\ ChainDepth \in Int /\ MaxTime \in Nat /\ MaxEdges \in Nat
  /\ MaxRequests \in Nat /\ MaxFaults \in Nat
  /\ Predicate \subseteq PredicateToken
  /\ None \notin Edge
  /\ None \notin Text /\ None \notin Status /\ None \notin Time /\ None \notin Row
  /\ Daemon \notin User
  /\ Request \subseteq Update /\ \A u \in Request : u.entity # Daemon
  /\ NewEdge \subseteq Edge
  /\ Instance \subseteq SUBSET Address
  /\ InitialStore \subseteq [rows : [Address -> Row \cup {None}],
                             edges : [Slot -> Edge \cup {None}]]
  /\ \A store \in InitialStore : \A s \in Slot :
       store.edges[s] # None =>
         /\ store.rows[store.edges[s].subject] # None
         /\ store.rows[store.edges[s].target] # None

ASSUME TextAssumption ==
  /\ \A t \in Text : /\ ParseStatus(t) \in Status
                     /\ IsTimestamp(t) => t[2] \in Time
  /\ \A a \in Address : TemplateText(a) \in Text
  /\ \A a \in Address, t \in Text : /\ SpecVerdict(a, t) \in Verdict
                                    /\ ToSpecUnit(a, t) \in Text
  /\ \A e \in Edge, t \in Text : Dataset(e, t) \in Text

VARIABLES
  rows,      \* slugs: address -> row, None when there is none
  edges,     \* address_relationships in rowid order, None for a free rowid
  history,   \* history: address -> timestamp -> snapshot, None when there is none
  clock,     \* the wall clock, in the whole seconds timestamps are made of
  phase,     \* where the loop of ApplyUpdate is; "idle" when nobody holds the mutex
  pending,   \* the stack of updates to apply, its top last
  current,   \* the row being worked on, None between two pops
  cursor,    \* the position in the loops over the edges of `current'
  origin,    \* the address of the request being served (for properties)
  requests,  \* requests accepted so far (bound)
  faults     \* crashes and failed statements so far (bound)

store == <<rows, edges, history>>
loop == <<phase, pending, current, cursor, origin>>
vars == <<rows, edges, history, clock, phase, pending, current, cursor,
          origin, requests, faults>>

\* SetPredicateChainDepth: a negative depth is taken as 0.
EffectiveDepth == IF ChainDepth < 0 THEN 0 ELSE ChainDepth

\* The loops over the outgoing edges, one per family of predicates: position
\* <<i, s>> is the edge with rowid s in the i-th loop.
Passes == <<"propagate", "verify", "copy", "prefill">>
Position == (1..4) \X Slot
Start == <<1, 0>>

Precedes(p, q) == p[1] < q[1] \/ (p[1] = q[1] /\ p[2] < q[2])

Exists(a) == rows[a] # None

Snapshots(row) == [t \in Time |-> IF row # None /\ row.timestamp = t THEN row ELSE None]

Init ==
  /\ \E s \in InitialStore :
       /\ rows = s.rows
       /\ edges = s.edges
       /\ history = [a \in Address |-> Snapshots(s.rows[a])]
  /\ clock = 0
  /\ phase = "idle"
  /\ pending = <<>>
  /\ current = None
  /\ cursor = Start
  /\ origin = None
  /\ requests = 0
  /\ faults = 0

-----------------------------------------------------------------------------
(* What the predicates of the current row propose.  A proposal is a set:   *)
(* empty, or the one update to push.                                       *)

\* A write of the daemon to row `a', before its fields are filled in.
DaemonUpdate(a) ==
  [address |-> a, result |-> None, status |-> None, comment |-> None,
   timestamp |-> current.now, entity |-> Daemon]

\* The rows of address_relationships that feed the same gate as `e'.
Contributors(e) ==
  {s \in Slot : /\ edges[s] # None
                /\ edges[s].target = e.target
                /\ edges[s].predicate = e.predicate}

\* A gate is open when all (AndGate) or any (OrGate) of its sources have
\* the status the predicate waits for.
Active(s) ==
  /\ Exists(edges[s].subject)
  /\ rows[edges[s].subject].status = edges[s].predicate.when

GateOpen(e) ==
  /\ e.predicate.gate = "And" =>
       Contributors(e) # {} /\ \A s \in Contributors(e) : Active(s)
  /\ e.predicate.gate = "Or" => \E s \in Contributors(e) : Active(s)

StatusWrite(e) ==
  [DaemonUpdate(e.target) EXCEPT
     !.status = e.predicate.target,
     !.comment = FilledText(e.predicate, current.address)]

\* <subject>Propagate<type><object>.
StatusProposal(e) ==
  {u \in {StatusWrite(e)} :
     /\ current.row.status # "Unknown"
     /\ e.predicate.when = current.row.status
     /\ GateOpen(e)
     /\ Exists(e.target)
     /\ e.target # current.address
     /\ "Status" \in current.changed \/ rows[e.target].status = "Unknown"
     /\ rows[e.target].status # u.status \/ rows[e.target].comment # u.comment}

SourceVerdict(s) ==
  IF Exists(edges[s].subject)
  THEN SpecVerdict(edges[s].subject, rows[edges[s].subject].result)
  ELSE "INDETERMINATE"

\* The verdict a BoolVerify edge acts on: of its gate, or of its own source.
EdgeVerdict(e) ==
  IF e.predicate.gate = "None"
  THEN SpecVerdict(current.address, current.row.result)
  ELSE GateVerdict(e.predicate.gate,
                   [v \in Verdict |-> Cardinality({s \in Contributors(e) :
                                                     SourceVerdict(s) = v})])

VerifyWrite(e) ==
  LET plan == WritePlan(e.predicate.object, EdgeVerdict(e)) IN
  [DaemonUpdate(e.target) EXCEPT
     !.status = IF plan.status # rows[e.target].status THEN plan.status ELSE None,
     !.comment = IF plan.comment # rows[e.target].comment THEN plan.comment ELSE None]

\* BoolVerify<type><object>.  A row may verify into itself.
VerifyProposal(e) ==
  {u \in {VerifyWrite(e)} :
     /\ Exists(e.target)
     /\ u.status # None \/ u.comment # None}

\* FieldValueForSlug of the current row.
FieldValue(field) ==
  [Result |-> current.row.result,
   Status |-> StatusText(current.row.status),
   Comment |-> current.row.comment,
   Timestamp |-> TimeText(current.row.timestamp),
   Template |-> TemplateText(current.address),
   Instructions |-> TemplateText(current.address)][field]

\* A write of `value' to the field `to' of row `a'.
FieldWrite(a, to, value) ==
  [DaemonUpdate(a) EXCEPT
     !.result = IF to = "Result" THEN value ELSE None,
     !.comment = IF to = "Comment" THEN value ELSE None,
     !.status = IF to = "Status" THEN ParseStatus(value) ELSE None,
     !.timestamp = IF to = "Timestamp" THEN value[2] ELSE current.now]

\* (faulty) Copies a status without asking whether the text spells one.
FieldDiffersUnparsed(a, to, value) ==
  \/ to = "Result" /\ value # rows[a].result
  \/ to = "Comment" /\ value # rows[a].comment
  \/ to = "Status" /\ ParseStatus(value) # rows[a].status
  \/ to = "Timestamp" /\ IsTimestamp(value) /\ value[2] # rows[a].timestamp

\* (faulty) Fills a text field only when it is empty, as kOnlyEmpty would.
FieldDiffersOnlyEmpty(a, to, value) ==
  \/ to = "Result" /\ rows[a].result = Blank /\ value # Blank
  \/ to = "Comment" /\ rows[a].comment = Blank /\ value # Blank
  \/ to = "Status" /\ ParseStatus(value) \notin {"Unknown", rows[a].status}
  \/ to = "Timestamp" /\ IsTimestamp(value) /\ value[2] # rows[a].timestamp

\* The field can take the value, and does not hold it already.  The result
\* is compared before it is converted to the target's unit.
FieldDiffers(a, to, value) ==
  \/ to = "Result" /\ value # rows[a].result
  \/ to = "Comment" /\ value # rows[a].comment
  \/ to = "Status" /\ ParseStatus(value) \notin {"Unknown", rows[a].status}
  \/ to = "Timestamp" /\ IsTimestamp(value) /\ value[2] # rows[a].timestamp

FilterPasses(predicate) ==
  predicate.only = None \/ predicate.only = current.row.status

HasSource(predicate) ==
  ~(predicate.from = "Status" /\ current.row.status = "Unknown")

\* <field>PropagateValidated<field>.
CopyProposal(e) ==
  LET value == FieldValue(e.predicate.from) IN
  {u \in {FieldWrite(e.target, e.predicate.to, value)} :
     /\ FilterPasses(e.predicate)
     /\ e.predicate.from # "Instructions"
     /\ e.predicate.to \in PropagateTarget
     /\ e.target # current.address
     /\ HasSource(e.predicate)
     /\ Exists(e.target)
     /\ FieldDiffers(e.target, e.predicate.to, value)}

\* <field>SearchPrefill<field>: runs when the subject field changed, and may
\* write the row it started from.
PrefillProposal(e) ==
  LET key == FieldValue(e.predicate.from)
      value == Dataset(e, key) IN
  {u \in {FieldWrite(e.target, e.predicate.to, value)} :
     /\ e.predicate.from \in current.changed
     /\ FilterPasses(e.predicate)
     /\ e.predicate.to \in Writable
     /\ HasSource(e.predicate)
     /\ key # Blank
     /\ value # Blank
     /\ Exists(e.target)
     /\ FieldDiffers(e.target, e.predicate.to, value)}

\* What the predicate at a position proposes.
Proposal(p) ==
  LET e == edges[p[2]] IN
  IF e = None THEN {}
  ELSE IF e.subject # current.address \/ e.predicate.kind # Passes[p[1]] THEN {}
  ELSE IF e.predicate.kind = "propagate" THEN StatusProposal(e)
  ELSE IF e.predicate.kind = "verify" THEN VerifyProposal(e)
  ELSE IF e.predicate.kind = "copy" THEN CopyProposal(e)
  ELSE PrefillProposal(e)

-----------------------------------------------------------------------------
(* ApplyUpdate.                                                            *)

Top == pending[Len(pending)]

\* while (!pending.empty()): take the next update, or return.
Loop(stack) == phase' = IF stack = <<>> THEN "idle" ELSE "apply"

\* The call takes the mutex and puts the request on the stack.
Accept(u) ==
  /\ phase = "idle"
  /\ requests < MaxRequests
  /\ pending' = <<[update |-> u, depth |-> EffectiveDepth]>>
  /\ phase' = "apply"
  /\ origin' = u.address
  /\ requests' = requests + 1
  /\ UNCHANGED <<store, clock, current, cursor, faults>>

\* The row as the update leaves it: `None' fields keep their values.
Applied(u, row) ==
  [result |-> IF u.result = None THEN row.result ELSE ToSpecUnit(u.address, u.result),
   status |-> IF u.status = None THEN row.status ELSE u.status,
   comment |-> IF u.comment = None THEN row.comment ELSE u.comment,
   timestamp |-> IF u.timestamp = None THEN clock ELSE u.timestamp,
   entity |-> u.entity]

\* The columns that were provided and differ.
ChangedFields(u, old, new) ==
  {f \in Writable :
     \/ f = "Result" /\ u.result # None /\ old.result # new.result
     \/ f = "Status" /\ u.status # None /\ old.status # new.status
     \/ f = "Comment" /\ u.comment # None /\ old.comment # new.comment
     \/ f = "Timestamp" /\ u.timestamp # None /\ old.timestamp # new.timestamp}

\* Pop an update and execute its UPDATE statement.
Apply ==
  /\ phase = "apply"
  /\ LET u == Top.update
         new == Applied(u, rows[u.address]) IN
     /\ Exists(u.address)
     /\ rows' = [rows EXCEPT ![u.address] = new]
     /\ current' = [address |-> u.address, row |-> new,
                    changed |-> ChangedFields(u, rows[u.address], new),
                    depth |-> Top.depth, now |-> clock]
  /\ pending' = SubSeq(pending, 1, Len(pending) - 1)
  /\ phase' = "snapshot"
  /\ UNCHANGED <<edges, history, clock, cursor, origin, requests, faults>>

\* GetSlugOrThrow finds no row: the exception drops the whole stack.
ThrowMissing ==
  /\ phase = "apply"
  /\ ~Exists(Top.update.address)
  /\ pending' = <<>>
  /\ phase' = "idle"
  /\ UNCHANGED <<store, clock, current, cursor, origin, requests, faults>>

\* (faulty) INSERT OR REPLACE.
RecordedLatest(a, row) == [history EXCEPT ![a][row.timestamp] = row]

\* (faulty) Takes no snapshot of an update that repeats the stored values.
RecordedChange(a, row) ==
  IF history[a][row.timestamp] = None /\ current.changed # {}
  THEN [history EXCEPT ![a][row.timestamp] = row]
  ELSE history

\* INSERT OR IGNORE INTO history: the primary key is (address, timestamp).
RecordedSnapshot(a, row) ==
  IF history[a][row.timestamp] = None
  THEN [history EXCEPT ![a][row.timestamp] = row]
  ELSE history

\* (faulty) The check of depth_remaining is missing.
CascadesUnbounded == current.changed # {}

\* Something changed and there are hops left.
Cascades == current.changed # {} /\ current.depth > 0

\* Append the snapshot, then go on to the predicates or to the next update.
Snapshot ==
  /\ phase = "snapshot"
  /\ history' = RecordedSnapshot(current.address, current.row)
  /\ IF Cascades
     THEN /\ phase' = "dispatch"
          /\ current' = [current EXCEPT !.now = clock]
     ELSE /\ Loop(pending)
          /\ current' = None
  /\ cursor' = Start
  /\ UNCHANGED <<rows, edges, clock, pending, origin, requests, faults>>

\* (faulty) The hop is not counted.
SameDepth(u) == [update |-> u, depth |-> current.depth]

OneHopDeeper(u) == [update |-> u, depth |-> current.depth - 1]

\* The next predicate that has something to write pushes it, one hop deeper.
Push ==
  /\ phase = "dispatch"
  /\ \E p \in Position :
       /\ Precedes(cursor, p)
       /\ \A q \in Position :
            Precedes(cursor, q) /\ Precedes(q, p) => Proposal(q) = {}
       /\ \E u \in Proposal(p) :
            pending' = Append(pending, OneHopDeeper(u))
       /\ cursor' = p
  /\ UNCHANGED <<store, clock, phase, current, origin, requests, faults>>

\* No predicate is left: on to the next update of the stack.
Dispatched ==
  /\ phase = "dispatch"
  /\ \A q \in Position : Precedes(cursor, q) => Proposal(q) = {}
  /\ Loop(pending)
  /\ current' = None
  /\ cursor' = Start
  /\ UNCHANGED <<store, clock, pending, origin, requests, faults>>

-----------------------------------------------------------------------------
(* The other operations on the same tables, and the environment.           *)

\* POST /relationships/address: both rows must exist (the endpoint checks,
\* and the foreign keys check again when the INSERT runs); the new rowid is
\* one past the largest in use.  Duplicates are accepted.
InsertAddressRelationship(e) ==
  /\ phase = "idle"
  /\ Exists(e.subject) /\ Exists(e.target)
  /\ \E s \in Slot :
       /\ \A t \in Slot : t >= s => edges[t] = None
       /\ s > 1 => edges[s - 1] # None
       /\ edges' = [edges EXCEPT ![s] = e]
  /\ UNCHANGED <<rows, history, clock, loop, requests, faults>>

\* (faulty) Only the edges that leave the rows go.
DetachedSources(instance) ==
  [s \in Slot |-> IF edges[s] # None /\ edges[s].subject \in instance
                  THEN None ELSE edges[s]]

\* ON DELETE CASCADE of both ends of an edge.
Detached(instance) ==
  [s \in Slot |-> IF edges[s] # None /\ {edges[s].subject, edges[s].target} \cap instance # {}
                  THEN None ELSE edges[s]]

\* DeleteInstance: one transaction; the foreign keys take the history and
\* the edges of the deleted rows along.
DeleteInstance(instance) ==
  /\ phase = "idle"
  /\ \E a \in instance : Exists(a)
  /\ rows' = [a \in Address |-> IF a \in instance THEN None ELSE rows[a]]
  /\ history' = [a \in Address |-> IF a \in instance THEN Snapshots(None) ELSE history[a]]
  /\ edges' = Detached(instance)
  /\ UNCHANGED <<clock, loop, requests, faults>>

\* A second passes.
Tick ==
  /\ clock < MaxTime
  /\ clock' = clock + 1
  /\ UNCHANGED <<store, loop, requests, faults>>

\* ApplyUpdate ends early: a statement throws (a lookup, EnsureEntity, the
\* UPDATE, or the INSERT of the snapshot after the UPDATE has committed) and
\* the request is answered with an error, or the process dies and is started
\* again.  What was executed stays; the rest of the stack is gone.
Interrupt ==
  /\ phase # "idle"
  /\ faults < MaxFaults
  /\ faults' = faults + 1
  /\ phase' = "idle"
  /\ pending' = <<>>
  /\ current' = None
  /\ cursor' = Start
  /\ UNCHANGED <<store, clock, origin, requests>>

Cascade == Apply \/ ThrowMissing \/ Snapshot \/ Push \/ Dispatched

Next ==
  \/ \E u \in Request : Accept(u)
  \/ Cascade
  \/ \E e \in NewEdge : InsertAddressRelationship(e)
  \/ \E instance \in Instance : DeleteInstance(instance)
  \/ Tick
  \/ Interrupt

Spec == Init /\ [][Next]_vars

\* The thread inside ApplyUpdate keeps running: nothing in the loop waits.
FairSpec == Spec /\ WF_vars(Cascade)

-----------------------------------------------------------------------------
(* Properties.                                                             *)

TypeOK ==
  /\ rows \in [Address -> Row \cup {None}]
  /\ edges \in [Slot -> Edge \cup {None}]
  /\ history \in [Address -> [Time -> Row \cup {None}]]
  /\ clock \in Time
  /\ phase \in {"idle", "apply", "snapshot", "dispatch"}
  /\ pending \in Seq(Pending)
  /\ current \in Work \cup {None}
  /\ cursor \in (1..4) \X (0..MaxEdges)
  /\ origin \in Address \cup {None}
  /\ requests \in 0..MaxRequests
  /\ faults \in 0..MaxFaults

\* An edge of the table leads from `a' to `b'.
Linked(table, a, b) ==
  \E s \in Slot : table[s] # None /\ table[s].subject = a /\ table[s].target = b

\* `b' can be reached from `a' over at most `n' edges of the table.
WithinHops(table, a, b, n) ==
  \E m \in 0..n : \E path \in [0..m -> Address] :
    /\ path[0] = a /\ path[m] = b
    /\ \A i \in 1..m : Linked(table, path[i - 1], path[i])

\* Every edge joins two existing rows (the foreign keys of
\* address_relationships, kept by every operation on either table), and every
\* update the daemon has queued goes to an existing row.  With it the
\* exception of GetSlugOrThrow can only strike the first pop of a request,
\* before anything was written: but for statements that fail, the loop never
\* stops half-way on its own.
NoDanglingWrite ==
  /\ \A s \in Slot : edges[s] # None =>
       Exists(edges[s].subject) /\ Exists(edges[s].target)
  /\ \A i \in 1..Len(pending) :
       pending[i].update.entity = Daemon => Exists(pending[i].update.address)

\* A request changes no row further than the chain depth from its own row,
\* whatever mix of predicates, gates, cycles and duplicate edges the graph
\* holds: the depth_remaining handed down the stack is a true hop count.
ReachBounded ==
  [][phase = "apply" =>
       \A a \in Address : rows'[a] # rows[a] =>
         WithinHops(edges, origin, a, EffectiveDepth)]_vars

\* The daemon never takes a status away: no chain of propagations, verdicts,
\* copies and prefills turns a row that has a status into an Unknown one.
NeverUnset ==
  [][\A a \in Address :
       (Exists(a) /\ rows'[a] # None /\ rows'[a] # rows[a]) =>
         (rows'[a].entity = Daemon /\ rows'[a].status = "Unknown"
            => rows[a].status = "Unknown")]_vars

\* The audit trail is append-only: a snapshot once taken is never altered or
\* dropped while its row exists, not even by a later write of the same second.
HistoryAppendOnly ==
  [][\A a \in Address, t \in Time :
       (history[a][t] # None /\ rows'[a] # None)
         => history'[a][t] = history[a][t]]_vars

\* The rows whose current timestamp has no snapshot.
Unlogged == {a \in Address : Exists(a) /\ history[a][rows[a].timestamp] = None}

\* Between two updates every row has a snapshot of its last second; only an end
\* of the request between the UPDATE and the INSERT (a crash, or an INSERT that
\* throws) can leave one out, and each leaves out at most one.
FaultLosesOneSnapshot ==
  phase # "snapshot" => Cardinality(Unlogged) <= faults

\* Every request is served: the loop empties its stack even when the edges
\* form cycles and the writes on them never settle.
RequestCompletes == phase # "idle" ~> phase = "idle"

\* Nothing the edge asks for is left undone: an open gate has its target in
\* the state it names, a verdict has reached the status it bridges to.
Settled(e) ==
  /\ e.predicate.kind = "propagate" =>
       ((Exists(e.subject) /\ rows[e.subject].status = e.predicate.when /\ GateOpen(e))
          => rows[e.target].status = e.predicate.target)
  /\ (e.predicate.kind = "verify" /\ e.predicate.object = "Status"
        /\ e.predicate.gate = "None") =>
       LET v == SpecVerdict(e.subject, rows[e.subject].result) IN
       WritePlan("Status", v).status \in {None, rows[e.target].status}
  /\ (e.predicate.kind = "copy" /\ e.predicate.from = "Result" /\ e.predicate.to = "Comment") =>
       rows[e.target].comment = rows[e.subject].result

\* When the store is at rest every edge is settled.  Not so on every graph:
\* see Layered.
SettledAtRest ==
  phase = "idle" => \A s \in Slot : edges[s] # None => Settled(edges[s])

\* The obligations of Settled that name a status, and the predicates that may
\* write one; the same for a comment.
AsksStatus(p) ==
  \/ p.kind = "propagate"
  \/ p.kind = "verify" /\ p.gate = "None" /\ p.object = "Status"

WritesStatus(p) ==
  \/ p.kind = "propagate"
  \/ p.kind = "verify" /\ p.object # "Comment"
  \/ p.kind \in {"copy", "prefill"} /\ p.to = "Status"

AsksComment(p) == p.kind = "copy" /\ p.from = "Result" /\ p.to = "Comment"

WritesComment(p) ==
  \/ p.kind = "propagate"
  \/ p.kind = "verify" /\ p.object = "Comment"
  \/ p.kind \in {"copy", "prefill"} /\ p.to = "Comment"

\* Two edges into one row, of which `e' asks for a status or a comment and `f'
\* may write one, never want different things: both propagate the same
\* status, or start from the same row and wait for different ones, or both
\* bridge the verdict, or copy the result, of the same row.
Agree(e, f) ==
  /\ AsksStatus(e.predicate) /\ WritesStatus(f.predicate) =>
       /\ e.predicate.kind = f.predicate.kind
       /\ IF e.predicate.kind = "propagate"
          THEN \/ e.predicate.target = f.predicate.target
               \/ e.subject = f.subject /\ e.predicate.when # f.predicate.when
          ELSE e.subject = f.subject /\ AsksStatus(f.predicate)
  /\ AsksComment(e.predicate) /\ WritesComment(f.predicate) =>
       e.subject = f.subject /\ AsksComment(f.predicate)

\* A graph whose edges lead from layer to layer and agree with each other, fed
\* by the requests at rows nothing leads to.  Copies of the result carry no
\* filter.  Its height is within the chain depth.
Layered(table, layer, fed) ==
  \A s \in Slot : table[s] # None =>
    /\ layer[table[s].target] = layer[table[s].subject] + 1
    /\ \A u \in fed : u.address # table[s].target
    /\ AsksComment(table[s].predicate) => table[s].predicate.only = None
    /\ \A r \in Slot : table[r] # None /\ table[r].target = table[s].target =>
         Agree(table[s], table[r])

\* Every one of `stores' is such a graph when `fed' are the requests.
LayeredFor(stores, fed) ==
  \A start \in stores : \E layer \in [Address -> 0..EffectiveDepth] :
    Layered(start.edges, layer, fed)

-----------------------------------------------------------------------------
(* What the repository's documents say of this code.                       *)

\* "The daemon MUST NOT apply a write to any row whose last entity_id equals
\* the daemon's own entity_id" (spec/checklist-assistant-spec.md, 9.5.5).
DaemonSkipsOwnRows ==
  [][\A a \in Address :
       (Exists(a) /\ rows'[a] # rows[a] /\ rows'[a] # None /\ rows'[a].entity = Daemon)
         => rows[a].entity # Daemon]_vars
=============================================================================
