------------------------ MODULE PredicateDaemonProofs ------------------------
(***************************************************************************)
(* Proofs about PredicateDaemon, for every graph, every set of requests    *)
(* and every chain depth.  The lemmas go from the texts and records of the *)
(* predicate vocabulary, over what a predicate may propose, to the steps   *)
(* of the loop.                                                            *)
(***************************************************************************)
EXTENDS PredicateDaemon, SequenceTheorems, FiniteSetTheorems, TLAPS

\* The texts the daemon writes are texts of the store.
LEMMA TextKinds ==
  /\ Blank \in Text
  /\ \A s \in Status : StatusText(s) \in Text
  /\ \A v \in Verdict : VerdictText(v) \in Text
  /\ \A t \in Time : TimeText(t) \in Text
  /\ \A p \in Predicate, a \in Address : FilledText(p, a) \in Text
BY DEF Text

\* The effective depth is a count of hops.
LEMMA DepthIsNat == EffectiveDepth \in Nat
BY ConstantsAssumption DEF EffectiveDepth

\* A gate gives a verdict whatever its contributors are.
LEMMA GateVerdictType ==
  ASSUME NEW gate, NEW count
  PROVE  GateVerdict(gate, count) \in Verdict
BY DEF GateVerdict, Verdict

\* The Verify bridge writes a status, a comment that is a verdict, or nothing.
LEMMA WritePlanType ==
  ASSUME NEW object \in {"Status", "Comment"} \cup Asserted, NEW v \in Verdict
  PROVE  /\ WritePlan(object, v).status \in Asserted \cup {None}
         /\ WritePlan(object, v).comment \in Text \cup {None}
BY TextKinds DEF WritePlan, Asserted, Status

-----------------------------------------------------------------------------
(* What the predicates propose.                                            *)

\* The type invariant with the shape of the loop: there is something to pop
\* in phase "apply", and a current row where one is worked on.
LoopOK ==
  /\ phase = "idle" => pending = <<>>
  /\ phase = "apply" => pending # <<>>
  /\ phase \in {"snapshot", "dispatch"} => current \in Work

\* The row whose predicates are evaluated has hops left.
CurrentHasHops == phase = "dispatch" => current.depth > 0

\* An empty update of the daemon is an update.
LEMMA DaemonUpdateType ==
  ASSUME current \in Work, NEW a \in Address
  PROVE  /\ DaemonUpdate(a) \in Update
         /\ DaemonUpdate(a).address = a
         /\ DaemonUpdate(a).entity = Daemon
BY DEF DaemonUpdate, Update, Work, Entity

\* The value of a field is a text.
LEMMA FieldValueType ==
  ASSUME current \in Work, NEW f \in Field
  PROVE  FieldValue(f) \in Text
BY TextKinds, TextAssumption DEF FieldValue, Field, Work, Row

\* Writing a text to a field gives an update of the daemon for that row.
LEMMA FieldWriteType ==
  ASSUME current \in Work, NEW a \in Address, NEW to, NEW value \in Text,
         to \in Writable, FieldDiffers(a, to, value)
  PROVE  /\ FieldWrite(a, to, value) \in Update
         /\ FieldWrite(a, to, value).address = a
         /\ FieldWrite(a, to, value).entity = Daemon
         /\ FieldWrite(a, to, value).status \in Asserted \cup {None}
<1>1. ParseStatus(value) \in Status /\ (IsTimestamp(value) => value[2] \in Time)
  BY TextAssumption
<1>2. DaemonUpdate(a) \in Update /\ DaemonUpdate(a).address = a
        /\ DaemonUpdate(a).entity = Daemon
  BY DaemonUpdateType
<1>3. to = "Timestamp" => value[2] \in Time
  BY <1>1 DEF FieldDiffers
<1>4. current.now \in Time
  BY DEF Work
<1>5. to = "Status" => ParseStatus(value) \in Asserted
  BY <1>1 DEF FieldDiffers, Asserted
<1>6. QED
  BY <1>1, <1>2, <1>3, <1>4, <1>5 DEF FieldWrite, Update

\* Whatever a predicate on an edge proposes is an update of the daemon for
\* the existing row at the end of that edge, which leaves the current row.
LEMMA ProposalType ==
  ASSUME TypeOK, current \in Work, NEW p \in Position, NEW u \in Proposal(p)
  PROVE  /\ u \in Update
         /\ u.entity = Daemon
         /\ u.status \in Asserted \cup {None}
         /\ Exists(u.address)
         /\ Linked(edges, current.address, u.address)
<1> DEFINE e == edges[p[2]]
<1>1. p[2] \in Slot
  BY DEF Position
<1>2. e # None /\ e.subject = current.address /\ e \in Edge
  BY <1>1 DEF Proposal, TypeOK
<1>3. Linked(edges, current.address, e.target)
  BY <1>1, <1>2 DEF Linked
<1>4. e.target \in Address /\ e.predicate \in PredicateToken
  BY <1>2, ConstantsAssumption DEF Edge
<1>5. rows \in [Address -> Row \cup {None}]
  BY DEF TypeOK
<1>6. u \in (IF e.predicate.kind = "propagate" THEN StatusProposal(e)
            ELSE IF e.predicate.kind = "verify" THEN VerifyProposal(e)
            ELSE IF e.predicate.kind = "copy" THEN CopyProposal(e)
            ELSE PrefillProposal(e))
        /\ e.predicate.kind = Passes[p[1]]
  BY <1>2 DEF Proposal
<1>9. e.predicate.kind \in {"propagate", "verify", "copy", "prefill"}
  BY <1>6 DEF Passes, Position
<1> HIDE DEF e
<1>7. DaemonUpdate(e.target) \in Update /\ DaemonUpdate(e.target).address = e.target
        /\ DaemonUpdate(e.target).entity = Daemon
  BY <1>4, DaemonUpdateType
<1>a. ASSUME e.predicate.kind = "propagate"
      PROVE  /\ u \in Update /\ u.entity = Daemon
             /\ u.status \in Asserted \cup {None}
             /\ u.address = e.target /\ Exists(e.target)
  <2>1. u = StatusWrite(e) /\ Exists(e.target)
    BY <1>6, <1>a DEF StatusProposal
  <2>2. e.predicate \in StatusPredicate
    BY <1>4, <1>a DEF PredicateToken, StatusPredicate, VerifyPredicate,
          CopyPredicate, PrefillPredicate, InertPredicate
  <2>3. e.predicate.target \in Asserted /\ e.predicate.target \in Status
    BY <2>2 DEF StatusPredicate, Asserted
  <2>4. FilledText(e.predicate, current.address) \in Text
    BY <1>2, TextKinds DEF Work, Edge
  <2>5. QED
    BY <1>7, <2>1, <2>3, <2>4 DEF StatusWrite, Update
<1>b. ASSUME e.predicate.kind = "verify"
      PROVE  /\ u \in Update /\ u.entity = Daemon
             /\ u.status \in Asserted \cup {None}
             /\ u.address = e.target /\ Exists(e.target)
  <2>1. u = VerifyWrite(e) /\ Exists(e.target)
    BY <1>6, <1>b DEF VerifyProposal
  <2>2. e.predicate \in VerifyPredicate
    BY <1>4, <1>b DEF PredicateToken, StatusPredicate, VerifyPredicate,
          CopyPredicate, PrefillPredicate, InertPredicate
  <2>3. EdgeVerdict(e) \in Verdict
    BY GateVerdictType, TextAssumption DEF EdgeVerdict, Work, Row
  <2> DEFINE plan == WritePlan(e.predicate.object, EdgeVerdict(e))
  <2>4. plan.status \in Asserted \cup {None} /\ plan.comment \in Text \cup {None}
    BY <2>2, <2>3, WritePlanType DEF VerifyPredicate
  <2> HIDE DEF plan
  <2>5. VerifyWrite(e) = [DaemonUpdate(e.target) EXCEPT
          !.status = IF plan.status # rows[e.target].status THEN plan.status ELSE None,
          !.comment = IF plan.comment # rows[e.target].comment THEN plan.comment ELSE None]
    BY DEF VerifyWrite, plan
  <2>6. QED
    BY <1>7, <2>1, <2>4, <2>5 DEF Update, Asserted
<1>c. ASSUME e.predicate.kind = "copy"
      PROVE  /\ u \in Update /\ u.entity = Daemon
             /\ u.status \in Asserted \cup {None}
             /\ u.address = e.target /\ Exists(e.target)
  <2>1. /\ u = FieldWrite(e.target, e.predicate.to, FieldValue(e.predicate.from))
        /\ Exists(e.target) /\ e.predicate.to \in Writable
        /\ FieldDiffers(e.target, e.predicate.to, FieldValue(e.predicate.from))
    BY <1>6, <1>c DEF CopyProposal, Writable
  <2>2. e.predicate.from \in Field
    BY <1>4, <1>c DEF PredicateToken, StatusPredicate, VerifyPredicate,
          CopyPredicate, PrefillPredicate, InertPredicate
  <2>3. QED
    BY <1>4, <2>1, <2>2, FieldValueType, FieldWriteType
<1>d. ASSUME e.predicate.kind = "prefill"
      PROVE  /\ u \in Update /\ u.entity = Daemon
             /\ u.status \in Asserted \cup {None}
             /\ u.address = e.target /\ Exists(e.target)
  <2> DEFINE value == Dataset(e, FieldValue(e.predicate.from))
  <2>1. /\ u = FieldWrite(e.target, e.predicate.to, value)
        /\ Exists(e.target) /\ e.predicate.to \in Writable
        /\ FieldDiffers(e.target, e.predicate.to, value)
    BY <1>6, <1>d DEF PrefillProposal
  <2>2. e \in Edge /\ e.predicate.from \in Field
    BY <1>2, <1>4, <1>d DEF PredicateToken, StatusPredicate, VerifyPredicate,
          CopyPredicate, PrefillPredicate, InertPredicate
  <2>3. value \in Text
    BY <2>2, FieldValueType, TextAssumption
  <2> HIDE DEF value
  <2>4. QED
    BY <1>4, <2>1, <2>3, FieldWriteType
<1>8. QED
  BY <1>3, <1>9, <1>a, <1>b, <1>c, <1>d

-----------------------------------------------------------------------------
(* Type correctness.                                                       *)

\* Popping leaves the stack below the top element.
LEMMA PopType ==
  ASSUME NEW S, NEW stack \in Seq(S), stack # <<>>
  PROVE  /\ Len(stack) \in Nat \ {0}
         /\ stack[Len(stack)] \in S
         /\ SubSeq(stack, 1, Len(stack) - 1) \in Seq(S)
         /\ Len(SubSeq(stack, 1, Len(stack) - 1)) = Len(stack) - 1
         /\ \A i \in 1..(Len(stack) - 1) :
              SubSeq(stack, 1, Len(stack) - 1)[i] = stack[i]
<1>1. Len(stack) \in Nat \ {0}
  BY EmptySeq, LenProperties
<1>2. \A i \in 1..Len(stack) : stack[i] \in S
  BY ElementOfSeq
<1> DEFINE n == Len(stack) - 1
<1>3. n \in Nat /\ \A i \in 1..n : stack[i] \in S
  BY <1>1, <1>2
<1>4. /\ SubSeq(stack, 1, n) \in Seq(S)
      /\ Len(SubSeq(stack, 1, n)) = IF 1 <= n THEN n - 1 + 1 ELSE 0
      /\ \A i \in 1..(n - 1 + 1) : SubSeq(stack, 1, n)[i] = stack[1 + i - 1]
  <2> HIDE DEF n
  <2> QED
    BY <1>3, SubSeqProperties
<1>5. Len(SubSeq(stack, 1, n)) = n /\ \A i \in 1..n : SubSeq(stack, 1, n)[i] = stack[i]
  <2> HIDE DEF n
  <2> QED
    BY <1>3, <1>4
<1>6. QED
  BY <1>1, <1>2, <1>4, <1>5

\* Applying an update to a row gives a row.
LEMMA AppliedType ==
  ASSUME TypeOK, NEW u \in Update, NEW row \in Row
  PROVE  Applied(u, row) \in Row
<1>1. u.result # None => ToSpecUnit(u.address, u.result) \in Text
  BY TextAssumption DEF Update
<1>2. QED
  BY <1>1 DEF Applied, Update, Row, TypeOK

\* A pop finds a stack to pop from and, when it writes, leaves a current row.
LEMMA ApplyStep ==
  ASSUME TypeOK, LoopOK, Apply
  PROVE  /\ Top \in Pending
         /\ current' \in Work
         /\ current'.address = Top.update.address
         /\ current'.depth = Top.depth
         /\ rows' \in [Address -> Row \cup {None}]
         /\ \A a \in Address : a # Top.update.address => rows'[a] = rows[a]
         /\ rows'[Top.update.address] = current'.row
         /\ pending' \in Seq(Pending)
         /\ Len(pending') = Len(pending) - 1
         /\ \A i \in 1..Len(pending') : pending'[i] = pending[i]
<1>1. pending # <<>> /\ pending \in Seq(Pending)
  BY DEF LoopOK, TypeOK, Apply
<1>2. Top \in Pending
  BY <1>1, PopType DEF Top
<1>3. Top.update \in Update /\ Top.update.address \in Address /\ Top.depth \in Nat
  BY <1>2 DEF Pending, Update
<1> DEFINE u == Top.update
           new == Applied(u, rows[u.address])
<1>4. rows[u.address] \in Row
  BY <1>3 DEF TypeOK, Apply, Exists
<1>5. new \in Row
  BY <1>3, <1>4, AppliedType
<1>6. ChangedFields(u, rows[u.address], new) \in SUBSET Writable
  BY DEF ChangedFields
<1>7. current' = [address |-> u.address, row |-> new,
                  changed |-> ChangedFields(u, rows[u.address], new),
                  depth |-> Top.depth, now |-> clock]
      /\ rows' = [rows EXCEPT ![u.address] = new]
  BY DEF Apply
<1>8. pending' = SubSeq(pending, 1, Len(pending) - 1)
  BY DEF Apply
<1> HIDE DEF u, new
<1>9. u.address \in Address /\ Top.depth \in Nat /\ clock \in Time
  BY <1>3 DEF u, TypeOK
<1>a. current' \in Work /\ current'.address = u.address
        /\ current'.row = new /\ current'.depth = Top.depth
  BY <1>5, <1>6, <1>7, <1>9 DEF Work
<1>b. rows' \in [Address -> Row \cup {None}] /\ rows'[u.address] = new
        /\ \A a \in Address : a # u.address => rows'[a] = rows[a]
  BY <1>5, <1>7, <1>9 DEF TypeOK
<1>c. pending' \in Seq(Pending) /\ Len(pending') = Len(pending) - 1
        /\ \A i \in 1..Len(pending') : pending'[i] = pending[i]
  BY <1>1, <1>8, PopType
<1>d. QED
  BY <1>2, <1>a, <1>b, <1>c DEF u

\* A push adds one update of the daemon, one hop further, for an existing row
\* that the current row has an edge to.
LEMMA PushStep ==
  ASSUME TypeOK, LoopOK, CurrentHasHops, Push
  PROVE  \E u \in Update :
           /\ u.entity = Daemon
           /\ u.status \in Asserted \cup {None}
           /\ Exists(u.address)
           /\ Linked(edges, current.address, u.address)
           /\ pending' = Append(pending, [update |-> u, depth |-> current.depth - 1])
           /\ pending' \in Seq(Pending)
           /\ cursor' \in Position
<1>1. current \in Work /\ current.depth > 0
  BY DEF LoopOK, CurrentHasHops, Push
<1>2. PICK p \in Position : \E u \in Proposal(p) :
        pending' = Append(pending, OneHopDeeper(u)) /\ cursor' = p
  BY DEF Push
<1>3. PICK u \in Proposal(p) : pending' = Append(pending, OneHopDeeper(u))
  BY <1>2
<1>4. u \in Update /\ u.entity = Daemon /\ u.status \in Asserted \cup {None}
        /\ Exists(u.address) /\ Linked(edges, current.address, u.address)
  BY <1>1, ProposalType
<1>5. OneHopDeeper(u) = [update |-> u, depth |-> current.depth - 1]
  BY DEF OneHopDeeper
<1>6. OneHopDeeper(u) \in Pending
  BY <1>1, <1>4, <1>5 DEF Pending, Work
<1>7. pending' \in Seq(Pending)
  BY <1>3, <1>6, AppendProperties DEF TypeOK
<1>8. QED
  BY <1>2, <1>3, <1>4, <1>5, <1>7

\* The updates on the stack.
LEMMA StackElements ==
  ASSUME TypeOK
  PROVE  /\ Len(pending) \in Nat
         /\ \A i \in 1..Len(pending) : /\ pending[i] \in Pending
                                      /\ pending[i].update \in Update
                                      /\ pending[i].update.address \in Address
                                      /\ pending[i].depth \in Nat
<1>1. pending \in Seq(Pending)
  BY DEF TypeOK
<1>2. Len(pending) \in Nat /\ \A i \in 1..Len(pending) : pending[i] \in Pending
  BY <1>1, ElementOfSeq, LenProperties
<1>3. QED
  BY <1>2 DEF Pending, Update

\* The type invariant, made inductive.
TypeInv == TypeOK /\ LoopOK /\ CurrentHasHops

LEMMA InitTypeInv == Init => TypeInv
<1> SUFFICES ASSUME Init PROVE TypeInv
  OBVIOUS
<1>1. rows \in [Address -> Row \cup {None}] /\ edges \in [Slot -> Edge \cup {None}]
  BY ConstantsAssumption DEF Init
<1>2. history \in [Address -> [Time -> Row \cup {None}]]
  <2>1. \A a \in Address : Snapshots(rows[a]) \in [Time -> Row \cup {None}]
    BY <1>1 DEF Snapshots
  <2>2. PICK s \in InitialStore :
          rows = s.rows /\ history = [a \in Address |-> Snapshots(s.rows[a])]
    BY DEF Init
  <2>3. QED
    BY <2>1, <2>2
<1>3. clock \in Time /\ requests \in 0..MaxRequests /\ faults \in 0..MaxFaults
        /\ cursor \in (1..4) \X (0..MaxEdges)
  BY ConstantsAssumption DEF Init, Time, Start
<1>4. pending \in Seq(Pending)
  BY EmptySeq DEF Init
<1>5. QED
  BY <1>1, <1>2, <1>3, <1>4 DEF Init, TypeInv, TypeOK, LoopOK, CurrentHasHops

LEMMA NextTypeInv == TypeInv /\ [Next]_vars => TypeInv'
<1> SUFFICES ASSUME TypeInv, [Next]_vars PROVE TypeInv'
  OBVIOUS
<1> USE DEF TypeInv
<1>1. ASSUME NEW u \in Request, Accept(u)
      PROVE  TypeInv'
  <2>1. u \in Update
    BY ConstantsAssumption
  <2>2. [update |-> u, depth |-> EffectiveDepth] \in Pending
    BY <2>1, DepthIsNat DEF Pending
  <2>3. pending' \in Seq(Pending) /\ pending' # <<>>
    BY <1>1, <2>2 DEF Accept
  <2>4. requests' \in 0..MaxRequests
    BY <1>1, ConstantsAssumption DEF Accept, TypeOK
  <2>5. origin' \in Address
    BY <1>1, <2>1 DEF Accept, Update
  <2>6. QED
    BY <1>1, <2>3, <2>4, <2>5 DEF Accept, TypeOK, LoopOK, CurrentHasHops, store
<1>2. ASSUME Apply
      PROVE  TypeInv'
  BY <1>2, ApplyStep DEF Apply, TypeOK, LoopOK, CurrentHasHops
<1>3. ASSUME ThrowMissing
      PROVE  TypeInv'
  BY <1>3, EmptySeq DEF ThrowMissing, TypeOK, LoopOK, CurrentHasHops, store
<1>4. ASSUME Snapshot
      PROVE  TypeInv'
  <2>1. current \in Work
    BY <1>4 DEF Snapshot, LoopOK
  <2>2. current.address \in Address /\ current.row \in Row
          /\ current.row.timestamp \in Time
    BY <2>1 DEF Work, Row
  <2>3. history' \in [Address -> [Time -> Row \cup {None}]]
    BY <1>4, <2>2 DEF Snapshot, RecordedSnapshot, TypeOK
  <2>4. cursor' \in (1..4) \X (0..MaxEdges)
    BY <1>4, ConstantsAssumption DEF Snapshot, Start
  <2>5. CASE Cascades
    <3>1. [current EXCEPT !.now = clock] \in Work
      BY <2>1 DEF Work, TypeOK
    <3>2. [current EXCEPT !.now = clock].depth > 0
      BY <2>1, <2>5 DEF Cascades, Work
    <3>3. QED
      BY <1>4, <2>3, <2>4, <2>5, <3>1, <3>2
         DEF Snapshot, TypeOK, LoopOK, CurrentHasHops
  <2>6. CASE ~Cascades
    BY <1>4, <2>3, <2>4, <2>6 DEF Snapshot, Loop, TypeOK, LoopOK, CurrentHasHops
  <2>7. QED
    BY <2>5, <2>6
<1>5. ASSUME Push
      PROVE  TypeInv'
  <2>1. pending' \in Seq(Pending) /\ cursor' \in Position
    BY <1>5, PushStep
  <2>2. cursor' \in (1..4) \X (0..MaxEdges)
    BY <2>1, ConstantsAssumption DEF Position, Slot
  <2>3. QED
    BY <1>5, <2>1, <2>2 DEF Push, TypeOK, LoopOK, CurrentHasHops, store
<1>6. ASSUME Dispatched
      PROVE  TypeInv'
  <2>1. cursor' \in (1..4) \X (0..MaxEdges)
    BY <1>6, ConstantsAssumption DEF Dispatched, Start
  <2>2. QED
    BY <1>6, <2>1 DEF Dispatched, Loop, TypeOK, LoopOK, CurrentHasHops, store
<1>7. ASSUME NEW e \in NewEdge, InsertAddressRelationship(e)
      PROVE  TypeInv'
  <2>1. edges' \in [Slot -> Edge \cup {None}]
    BY <1>7, ConstantsAssumption DEF InsertAddressRelationship, TypeOK
  <2>2. QED
    BY <1>7, <2>1 DEF InsertAddressRelationship, TypeOK, LoopOK, CurrentHasHops, loop
<1>8. ASSUME NEW instance \in Instance, DeleteInstance(instance)
      PROVE  TypeInv'
  <2>1. rows' \in [Address -> Row \cup {None}]
    BY <1>8 DEF DeleteInstance, TypeOK
  <2>2. history' \in [Address -> [Time -> Row \cup {None}]]
    BY <1>8 DEF DeleteInstance, TypeOK, Snapshots
  <2>3. edges' \in [Slot -> Edge \cup {None}]
    BY <1>8 DEF DeleteInstance, Detached, TypeOK
  <2>4. QED
    BY <1>8, <2>1, <2>2, <2>3 DEF DeleteInstance, TypeOK, LoopOK, CurrentHasHops, loop
<1>9. ASSUME Tick
      PROVE  TypeInv'
  <2>1. clock' \in Time
    BY <1>9, ConstantsAssumption DEF Tick, Time, TypeOK
  <2>2. QED
    BY <1>9, <2>1 DEF Tick, TypeOK, LoopOK, CurrentHasHops, store, loop
<1>10. ASSUME Interrupt
       PROVE  TypeInv'
  <2>1. faults' \in 0..MaxFaults
    BY <1>10, ConstantsAssumption DEF Interrupt, TypeOK
  <2>2. cursor' \in (1..4) \X (0..MaxEdges)
    BY <1>10, ConstantsAssumption DEF Interrupt, Start
  <2>3. QED
    BY <1>10, <2>1, <2>2, EmptySeq DEF Interrupt, TypeOK, LoopOK, CurrentHasHops, store
<1>11. CASE UNCHANGED vars
  BY <1>11 DEF vars, TypeOK, LoopOK, CurrentHasHops
<1>12. QED
  BY <1>1, <1>2, <1>3, <1>4, <1>5, <1>6, <1>7, <1>8, <1>9, <1>10, <1>11
     DEF Next, Cascade

\* In every reachable state of the store, the daemon's stack and the row it
\* works on have the types of the code's structures: whatever the predicates
\* on the graph copy from one column into another.
THEOREM TypeCorrect == Spec => []TypeOK
<1>1. TypeInv => TypeOK
  BY DEF TypeInv
<1>2. QED
  BY <1>1, InitTypeInv, NextTypeInv, PTL DEF Spec

-----------------------------------------------------------------------------
(* Foreign keys, and updates of the daemon that find their rows.           *)

EdgesResolve ==
  \A s \in Slot : edges[s] # None =>
    Exists(edges[s].subject) /\ Exists(edges[s].target)

\* What the queued updates of the daemon may do: they go to existing rows,
\* and no one of them clears a status.
PendingSound ==
  \A i \in 1..Len(pending) : pending[i].update.entity = Daemon =>
    /\ Exists(pending[i].update.address)
    /\ pending[i].update.status \in Asserted \cup {None}

SoundInv == TypeInv /\ EdgesResolve /\ PendingSound

LEMMA InitSound == Init => SoundInv
<1> SUFFICES ASSUME Init PROVE SoundInv
  OBVIOUS
<1>1. EdgesResolve
  BY ConstantsAssumption DEF Init, EdgesResolve, Exists
<1>2. PendingSound
  BY DEF Init, PendingSound
<1>3. QED
  BY <1>1, <1>2, InitTypeInv DEF SoundInv

LEMMA NextSound == SoundInv /\ [Next]_vars => SoundInv'
<1> SUFFICES ASSUME SoundInv, [Next]_vars PROVE EdgesResolve' /\ PendingSound'
  BY NextTypeInv DEF SoundInv
<1> USE DEF SoundInv, TypeInv
<1>1. ASSUME NEW u \in Request, Accept(u)
      PROVE  EdgesResolve' /\ PendingSound'
  <2>1. u.entity # Daemon
    BY ConstantsAssumption
  <2>2. QED
    BY <1>1, <2>1 DEF Accept, EdgesResolve, PendingSound, Exists, store
<1>2. ASSUME Apply
      PROVE  EdgesResolve' /\ PendingSound'
  <2>1. \A a \in Address : Exists(a) => Exists(a)'
    <3>1. current'.row # None
      BY <1>2, ApplyStep, ConstantsAssumption DEF Work
    <3>2. QED
      BY <1>2, <3>1, ApplyStep DEF Exists
  <2>2. \A i \in 1..Len(pending') : i \in 1..Len(pending) /\ pending'[i] = pending[i]
                                     /\ pending[i].update.address \in Address
    <3>1. Len(pending') = Len(pending) - 1
            /\ \A i \in 1..Len(pending') : pending'[i] = pending[i]
      BY <1>2, ApplyStep
    <3>2. QED
      BY <3>1, StackElements
  <2>3. PendingSound'
    BY <2>1, <2>2 DEF PendingSound
  <2>4. EdgesResolve'
    BY <1>2, <2>1 DEF Apply, EdgesResolve, TypeOK, Edge
  <2>5. QED
    BY <2>3, <2>4
<1>3. ASSUME ThrowMissing
      PROVE  EdgesResolve' /\ PendingSound'
  BY <1>3 DEF ThrowMissing, EdgesResolve, PendingSound, Exists, store
<1>4. ASSUME Snapshot
      PROVE  EdgesResolve' /\ PendingSound'
  BY <1>4 DEF Snapshot, EdgesResolve, PendingSound, Exists
<1>5. ASSUME Push
      PROVE  EdgesResolve' /\ PendingSound'
  <2>1. PICK u \in Update :
          /\ u.entity = Daemon /\ u.status \in Asserted \cup {None} /\ Exists(u.address)
          /\ pending' = Append(pending, [update |-> u, depth |-> current.depth - 1])
          /\ pending' \in Seq(Pending)
    BY <1>5, PushStep
  <2>2. \A i \in 1..Len(pending') :
          \/ i \in 1..Len(pending) /\ pending'[i] = pending[i]
          \/ pending'[i].update = u
    BY <2>1, AppendProperties, LenProperties DEF TypeOK
  <2>3. QED
    BY <1>5, <2>1, <2>2 DEF Push, EdgesResolve, PendingSound, Exists, store
<1>6. ASSUME Dispatched
      PROVE  EdgesResolve' /\ PendingSound'
  BY <1>6 DEF Dispatched, EdgesResolve, PendingSound, Exists, store
<1>7. ASSUME NEW e \in NewEdge, InsertAddressRelationship(e)
      PROVE  EdgesResolve' /\ PendingSound'
  <2>1. e.subject \in Address
    BY ConstantsAssumption DEF Edge
  <2>2. QED
    BY <1>7 DEF InsertAddressRelationship, EdgesResolve, PendingSound, Exists,
                TypeOK, loop
<1>8. ASSUME NEW instance \in Instance, DeleteInstance(instance)
      PROVE  EdgesResolve' /\ PendingSound'
  <2>1. pending = <<>> /\ pending' = <<>>
    BY <1>8 DEF DeleteInstance, LoopOK, loop
  <2>2. EdgesResolve'
    <3>1. SUFFICES ASSUME NEW s \in Slot, edges'[s] # None
                   PROVE  rows'[edges'[s].subject] # None /\ rows'[edges'[s].target] # None
      BY DEF EdgesResolve, Exists
    <3>2. edges'[s] = edges[s] /\ {edges[s].subject, edges[s].target} \cap instance = {}
      BY <1>8, <3>1 DEF DeleteInstance, Detached
    <3>3. edges[s] \in Edge
      BY <3>1, <3>2 DEF TypeOK
    <3>4. QED
      BY <1>8, <3>1, <3>2, <3>3 DEF DeleteInstance, EdgesResolve, Exists, Edge
  <2>3. QED
    BY <2>1, <2>2 DEF PendingSound
<1>9. ASSUME Tick
      PROVE  EdgesResolve' /\ PendingSound'
  BY <1>9 DEF Tick, EdgesResolve, PendingSound, Exists, store, loop
<1>10. ASSUME Interrupt
       PROVE  EdgesResolve' /\ PendingSound'
  BY <1>10 DEF Interrupt, EdgesResolve, PendingSound, Exists, store
<1>11. CASE UNCHANGED vars
  BY <1>11 DEF vars, EdgesResolve, PendingSound, Exists
<1>12. QED
  BY <1>1, <1>2, <1>3, <1>4, <1>5, <1>6, <1>7, <1>8, <1>9, <1>10, <1>11
     DEF Next, Cascade

LEMMA SoundInvariant == Spec => []SoundInv
BY InitSound, NextSound, PTL DEF Spec

\* No edge ever dangles and every queued update of the daemon has its row, so
\* a request never stops half-way because a row is missing: the exception of
\* GetSlugOrThrow can only meet the request's own, first update.
THEOREM CascadeNeverDangles == Spec => []NoDanglingWrite
<1>1. SoundInv => NoDanglingWrite
  BY DEF SoundInv, NoDanglingWrite, EdgesResolve, PendingSound
<1>2. QED
  BY <1>1, SoundInvariant, PTL

\* The daemon never turns a status into Unknown, whatever chain of
\* propagations, verdicts, copies and lookups leads to its write.
THEOREM DaemonNeverUnsets == Spec => NeverUnset
<1> DEFINE Step == \A a \in Address :
       (Exists(a) /\ rows'[a] # None /\ rows'[a] # rows[a]) =>
         (rows'[a].entity = Daemon /\ rows'[a].status = "Unknown"
            => rows[a].status = "Unknown")
<1>1. SoundInv /\ [Next]_vars => [Step]_vars
  <2> SUFFICES ASSUME SoundInv, [Next]_vars,
                      NEW a \in Address, Exists(a), rows'[a] # None, rows'[a] # rows[a],
                      rows'[a].entity = Daemon, rows'[a].status = "Unknown"
               PROVE  rows[a].status = "Unknown"
    OBVIOUS
  <2> USE DEF SoundInv, TypeInv
  <2>1. CASE Apply
    <3> DEFINE u == Top.update
    <3>1. a = u.address /\ Top \in Pending
      BY <2>1, ApplyStep
    <3>2. rows'[a] = Applied(u, rows[a])
      BY <2>1, <3>1 DEF Apply, TypeOK
    <3>3. Len(pending) \in 1..Len(pending)
      BY <2>1, PopType DEF Apply, LoopOK, TypeOK
    <3>4. u.entity = Daemon
      BY <3>2 DEF Applied
    <3>5. u.status \in Asserted \cup {None}
      BY <3>3, <3>4 DEF PendingSound, Top
    <3>6. u.status # "Unknown"
      BY <3>5, ConstantsAssumption DEF Asserted, Status
    <3>7. QED
      BY <3>2, <3>6 DEF Applied
  <2>2. CASE ~Apply
    <3>1. rows' = rows \/ \E instance \in Instance : DeleteInstance(instance)
      BY <2>2 DEF Next, Cascade, vars, store, Accept, ThrowMissing, Snapshot, Push,
                  Dispatched, InsertAddressRelationship, Tick, Interrupt
    <3>2. rows'[a] = None \/ rows'[a] = rows[a]
      BY <3>1 DEF DeleteInstance
    <3>3. QED
      BY <3>2
  <2>3. QED
    BY <2>1, <2>2
<1>2. QED
  BY <1>1, SoundInvariant, PTL DEF Spec, NeverUnset

-----------------------------------------------------------------------------
(* The audit trail.                                                        *)

\* No operation alters or removes a snapshot of a row that stays: the daemon
\* appends, and only the deletion of the row takes its history along.
THEOREM AuditTrailKept == Spec => HistoryAppendOnly
<1> DEFINE Step == \A a \in Address, t \in Time :
       (history[a][t] # None /\ rows'[a] # None) => history'[a][t] = history[a][t]
<1>1. TypeInv /\ [Next]_vars => [Step]_vars
  <2> SUFFICES ASSUME TypeInv, [Next]_vars,
                      NEW a \in Address, NEW t \in Time,
                      history[a][t] # None, rows'[a] # None
               PROVE  history'[a][t] = history[a][t]
    OBVIOUS
  <2> USE DEF TypeInv
  <2>1. CASE Snapshot
    <3>1. current.address \in Address /\ current.row.timestamp \in Time
      BY <2>1 DEF Snapshot, LoopOK, Work, Row
    <3>2. history' = RecordedSnapshot(current.address, current.row)
      BY <2>1 DEF Snapshot
    <3>3. QED
      BY <3>1, <3>2 DEF RecordedSnapshot, TypeOK
  <2>2. CASE \E instance \in Instance : DeleteInstance(instance)
    BY <2>2 DEF DeleteInstance
  <2>3. CASE ~Snapshot /\ ~\E instance \in Instance : DeleteInstance(instance)
    BY <2>3 DEF Next, Cascade, vars, store, Accept, Apply, ThrowMissing, Push,
                Dispatched, InsertAddressRelationship, Tick, Interrupt
  <2>4. QED
    BY <2>1, <2>2, <2>3
<1>2. QED
  BY <1>1, InitTypeInv, NextTypeInv, PTL DEF Spec, HistoryAppendOnly

-----------------------------------------------------------------------------
(* How far a request reaches.                                              *)

\* A row is within no hops of itself.
LEMMA HopsToItself ==
  ASSUME NEW table, NEW x \in Address, NEW n \in Nat
  PROVE  WithinHops(table, x, x, n)
<1> DEFINE path == [i \in 0..0 |-> x]
<1>1. path \in [0..0 -> Address] /\ path[0] = x
  OBVIOUS
<1>2. 0 \in 0..n
  OBVIOUS
<1> HIDE DEF path
<1>3. QED
  BY <1>1, <1>2 DEF WithinHops

\* More hops reach no fewer rows.
LEMMA MoreHops ==
  ASSUME NEW table, NEW x, NEW y, NEW n \in Nat, NEW m \in Nat, n <= m, WithinHops(table, x, y, n)
  PROVE  WithinHops(table, x, y, m)
<1>1. 0..n \subseteq 0..m
  OBVIOUS
<1>2. QED
  BY <1>1 DEF WithinHops

\* One more edge is one more hop.
LEMMA OneMoreHop ==
  ASSUME NEW table, NEW x \in Address, NEW y \in Address, NEW z \in Address, NEW n \in Nat,
         WithinHops(table, x, y, n), Linked(table, y, z)
  PROVE  WithinHops(table, x, z, n + 1)
<1>1. PICK m \in 0..n : \E path \in [0..m -> Address] :
        /\ path[0] = x /\ path[m] = y
        /\ \A i \in 1..m : Linked(table, path[i - 1], path[i])
  BY DEF WithinHops
<1>2. PICK path \in [0..m -> Address] :
        /\ path[0] = x /\ path[m] = y
        /\ \A i \in 1..m : Linked(table, path[i - 1], path[i])
  BY <1>1
<1> DEFINE longer == [i \in 0..(m + 1) |-> IF i = m + 1 THEN z ELSE path[i]]
<1>3. longer \in [0..(m + 1) -> Address]
  OBVIOUS
<1>4. longer[0] = x /\ longer[m + 1] = z
  BY <1>2
<1>5. \A i \in 1..(m + 1) : Linked(table, longer[i - 1], longer[i])
  <2> TAKE i \in 1..(m + 1)
  <2>1. CASE i = m + 1
    BY <1>2, <2>1
  <2>2. CASE i # m + 1
    <3>1. i \in 1..m /\ longer[i - 1] = path[i - 1] /\ longer[i] = path[i]
      BY <2>2
    <3>2. QED
      BY <1>2, <3>1
  <2>3. QED
    BY <2>1, <2>2
<1>6. m + 1 \in 0..(n + 1)
  OBVIOUS
<1> HIDE DEF longer
<1>7. QED
  BY <1>3, <1>4, <1>5, <1>6 DEF WithinHops

\* An update with `depth' hops left may be written to row `a' by a request for
\* row `from'.
InReach(table, from, a, depth) ==
  /\ depth \in 0..EffectiveDepth
  /\ WithinHops(table, from, a, EffectiveDepth - depth)

\* Every queued update, and the row being worked on, has been reached over as
\* many edges as it has used up hops.
ReachInv ==
  phase # "idle" =>
    /\ origin \in Address
    /\ \A i \in 1..Len(pending) :
         InReach(edges, origin, pending[i].update.address, pending[i].depth)
    /\ phase # "apply" => InReach(edges, origin, current.address, current.depth)

HopInv == TypeInv /\ ReachInv

LEMMA NextHop == HopInv /\ [Next]_vars => HopInv'
<1> SUFFICES ASSUME HopInv, [Next]_vars PROVE ReachInv'
  BY NextTypeInv DEF HopInv
<1> USE DEF HopInv, TypeInv
<1>1. ASSUME NEW u \in Request, Accept(u)
      PROVE  ReachInv'
  <2>1. u \in Update /\ u.address \in Address
    BY ConstantsAssumption DEF Update
  <2>2. pending' = <<[update |-> u, depth |-> EffectiveDepth]>> /\ origin' = u.address
          /\ phase' = "apply" /\ edges' = edges
    BY <1>1 DEF Accept, store
  <2>3. WithinHops(edges', u.address, u.address, 0)
    BY <2>1, HopsToItself
  <2>4. Len(pending') = 1 /\ pending'[1].update.address = u.address
          /\ pending'[1].depth = EffectiveDepth
    BY <2>2
  <2>5. InReach(edges', origin', u.address, EffectiveDepth)
    BY <2>2, <2>3, DepthIsNat DEF InReach
  <2>6. QED
    BY <2>1, <2>2, <2>4, <2>5 DEF ReachInv
<1>2. ASSUME Apply
      PROVE  ReachInv'
  <2>1. edges' = edges /\ origin' = origin /\ phase = "apply" /\ phase' = "snapshot"
    BY <1>2 DEF Apply
  <2>2. Len(pending) \in 1..Len(pending)
    BY <1>2, PopType DEF Apply, LoopOK, TypeOK
  <2>3. InReach(edges, origin, Top.update.address, Top.depth)
    BY <2>1, <2>2 DEF ReachInv, Top
  <2>4. InReach(edges, origin, current'.address, current'.depth)
    BY <1>2, <2>3, ApplyStep
  <2>5. \A i \in 1..Len(pending') : i \in 1..Len(pending) /\ pending'[i] = pending[i]
    <3>1. Len(pending') = Len(pending) - 1
            /\ \A i \in 1..Len(pending') : pending'[i] = pending[i]
      BY <1>2, ApplyStep
    <3>2. QED
      BY <3>1, StackElements
  <2>6. QED
    BY <2>1, <2>4, <2>5 DEF ReachInv
<1>3. ASSUME Snapshot
      PROVE  ReachInv'
  <2>1. edges' = edges /\ origin' = origin /\ phase = "snapshot" /\ pending' = pending
    BY <1>3 DEF Snapshot
  <2>2. phase' = "dispatch" =>
          current'.address = current.address /\ current'.depth = current.depth
    BY <1>3 DEF Snapshot, Loop, LoopOK, Work
  <2>3. phase' \in {"idle", "apply", "dispatch"}
    BY <1>3 DEF Snapshot, Loop
  <2>4. QED
    BY <2>1, <2>2, <2>3 DEF ReachInv
<1>4. ASSUME Push
      PROVE  ReachInv'
  <2>1. edges' = edges /\ origin' = origin /\ phase = "dispatch"
          /\ phase' = "dispatch" /\ current' = current
    BY <1>4 DEF Push, store
  <2>2. PICK u \in Update :
          /\ Linked(edges, current.address, u.address)
          /\ pending' = Append(pending, [update |-> u, depth |-> current.depth - 1])
    BY <1>4, PushStep
  <2>3. [update |-> u, depth |-> current.depth - 1] \in Pending
    BY <2>1, <2>2 DEF Pending, LoopOK, CurrentHasHops, Work
  <2>4. \A i \in 1..Len(pending') :
          \/ i \in 1..Len(pending) /\ pending'[i] = pending[i]
          \/ pending'[i] = [update |-> u, depth |-> current.depth - 1]
    BY <2>2, <2>3, AppendProperties, StackElements DEF TypeOK
  <2>5. InReach(edges, origin, u.address, current.depth - 1)
    <3>1. /\ current.depth \in Nat /\ current.depth > 0 /\ current.address \in Address
          /\ u.address \in Address /\ origin \in Address
          /\ InReach(edges, origin, current.address, current.depth)
      BY <2>1 DEF LoopOK, CurrentHasHops, Work, Update, ReachInv
    <3> DEFINE n == EffectiveDepth - current.depth
    <3>a. n \in Nat /\ WithinHops(edges, origin, current.address, n)
      BY <3>1, DepthIsNat DEF InReach
    <3>2. WithinHops(edges, origin, u.address, n + 1)
      <4> HIDE DEF n
      <4> QED
        BY <2>2, <3>1, <3>a, OneMoreHop
    <3>3. EffectiveDepth - current.depth + 1 = EffectiveDepth - (current.depth - 1)
      BY <3>1, DepthIsNat
    <3>4. QED
      BY <3>1, <3>2, <3>3, DepthIsNat DEF InReach
  <2>6. \A i \in 1..Len(pending') : 
          InReach(edges, origin, pending'[i].update.address, pending'[i].depth)
    BY <2>1, <2>4, <2>5 DEF ReachInv
  <2>7. QED
    BY <2>1, <2>6 DEF ReachInv
<1>5. ASSUME Dispatched
      PROVE  ReachInv'
  <2>1. edges' = edges /\ origin' = origin /\ phase = "dispatch" /\ pending' = pending
          /\ phase' \in {"idle", "apply"}
    BY <1>5 DEF Dispatched, Loop, store
  <2>2. QED
    BY <2>1 DEF ReachInv
<1>6. CASE phase' = "idle"
  BY <1>6 DEF ReachInv
<1>7. ASSUME Tick \/ UNCHANGED vars
      PROVE  ReachInv'
  BY <1>7 DEF Tick, vars, store, loop, ReachInv
<1>8. QED
  BY <1>1, <1>2, <1>3, <1>4, <1>5, <1>6, <1>7
     DEF Next, Cascade, ThrowMissing, Interrupt, InsertAddressRelationship,
         DeleteInstance, loop

LEMMA HopInvariant == Spec => []HopInv
<1>1. Init => HopInv
  BY InitTypeInv DEF HopInv, ReachInv, Init
<1>2. QED
  BY <1>1, NextHop, PTL DEF Spec

\* A request writes no row that is more than the chain depth away from its
\* own row, for every graph, every depth and every mix of predicates.
THEOREM ReachIsBounded == Spec => ReachBounded
<1> DEFINE Step == phase = "apply" =>
       \A a \in Address : rows'[a] # rows[a] => WithinHops(edges, origin, a, EffectiveDepth)
<1>1. HopInv /\ [Next]_vars => [Step]_vars
  <2> SUFFICES ASSUME HopInv, [Next]_vars, phase = "apply",
                      NEW a \in Address, rows'[a] # rows[a]
               PROVE  WithinHops(edges, origin, a, EffectiveDepth)
    OBVIOUS
  <2> USE DEF HopInv, TypeInv
  <2>1. Apply
    BY DEF Next, Cascade, vars, store, Accept, ThrowMissing, Snapshot, Push,
           Dispatched, InsertAddressRelationship, DeleteInstance, Tick, Interrupt
  <2>2. a = Top.update.address
    BY <2>1, ApplyStep
  <2>3. Len(pending) \in 1..Len(pending)
    BY <2>1, PopType DEF Apply, LoopOK, TypeOK
  <2>4. InReach(edges, origin, a, Top.depth)
    BY <2>2, <2>3 DEF ReachInv, Top
  <2>5. QED
    BY <2>4, MoreHops, DepthIsNat DEF InReach
<1>2. QED
  BY <1>1, HopInvariant, PTL DEF Spec, ReachBounded

-----------------------------------------------------------------------------
(* A cascade uses itself up.                                               *)

\* The positions the loops over the edges have still to come to.
Left == {q \in Position : Precedes(cursor, q)}

\* The updates that wait with `hops' hops left, and what the row at hand, if
\* it has that many, has still to go through.
Load(hops) == Cardinality({i \in 1..Len(pending) : pending[i].depth = hops})

Ahead(hops) ==
  IF phase = "snapshot" /\ current.depth = hops THEN Cardinality(Position) + 2
  ELSE IF phase = "dispatch" /\ current.depth = hops THEN Cardinality(Left) + 1
  ELSE 0

\* A step lowers that, or leaves it as it is.
Lower(hops) == Load(hops)' < Load(hops) \/ (Load(hops)' = Load(hops) /\ Ahead(hops)' < Ahead(hops))
Level(hops) == Load(hops)' = Load(hops) /\ Ahead(hops)' = Ahead(hops)

\* The work left shrinks at some number of hops and grows at no higher one.
Descends ==
  \E hops \in 0..EffectiveDepth :
    /\ Lower(hops)
    /\ \A more \in 0..EffectiveDepth : more > hops => Lower(more) \/ Level(more)

\* The positions are finitely many.
LEMMA PositionsFinite == IsFiniteSet(Position) /\ Cardinality(Position) \in Nat
<1>1. IsFiniteSet(1..4) /\ IsFiniteSet(Slot)
  <2>1. \A n \in Int : IsFiniteSet(1..n)
    BY FS_Interval
  <2>2. 4 \in Int /\ MaxEdges \in Int
    BY ConstantsAssumption
  <2> QED
    BY <2>1, <2>2 DEF Slot
<1>2. IsFiniteSet(Position)
  BY <1>1, FS_Product DEF Position
<1> QED
  BY <1>2, FS_CardinalityType

\* All these are finite numbers.
LEMMA WorkCounts ==
  ASSUME TypeOK
  PROVE  /\ Cardinality(Position) \in Nat
         /\ Cardinality(Left) \in Nat /\ Cardinality(Left) <= Cardinality(Position)
         /\ IsFiniteSet(Left)
         /\ \A hops : IsFiniteSet({i \in 1..Len(pending) : pending[i].depth = hops})
         /\ \A hops : Load(hops) \in Nat
<1>1. IsFiniteSet(Position) /\ Cardinality(Position) \in Nat
  BY PositionsFinite
<1>3. IsFiniteSet(Left) /\ Cardinality(Left) <= Cardinality(Position) /\ Cardinality(Left) \in Nat
  BY <1>1, FS_Subset, FS_CardinalityType DEF Left
<1>4. IsFiniteSet(1..Len(pending))
  BY StackElements, FS_Interval
<1>5. ASSUME NEW hops
      PROVE  IsFiniteSet({i \in 1..Len(pending) : pending[i].depth = hops})
  BY <1>4, FS_Subset
<1> QED
  BY <1>1, <1>3, <1>5, FS_CardinalityType DEF Load

\* A pop takes its update off the load of its depth and no other.
LEMMA ApplyDescends ==
  ASSUME HopInv, HopInv', Apply
  PROVE  Descends
<1>1. TypeOK /\ LoopOK /\ TypeOK' /\ phase = "apply" /\ phase' = "snapshot" /\ pending # <<>>
  BY DEF HopInv, TypeInv, Apply, LoopOK
<1>2. PICK n, hops : n = Len(pending) /\ hops = Top.depth
  OBVIOUS
<1>3. n \in Nat \ {0} /\ n \in 1..n /\ pending[n].depth = hops
  BY <1>1, <1>2, PopType DEF TypeOK, Top
<1>4. hops \in 0..EffectiveDepth
  BY <1>1, <1>2, <1>3 DEF HopInv, ReachInv, InReach
<1>5. current'.depth = hops /\ Len(pending') = n - 1
      /\ \A i \in 1..Len(pending') : pending'[i] = pending[i]
  BY <1>1, <1>2, ApplyStep
<1>6. \A more : {i \in 1..Len(pending') : pending'[i].depth = more}
                  = {i \in 1..n : pending[i].depth = more} \ {n}
  BY <1>3, <1>5
<1>7. Load(hops)' < Load(hops)
  <2>1. PICK S : S = {i \in 1..n : pending[i].depth = hops}
    OBVIOUS
  <2>2. IsFiniteSet(S) /\ n \in S /\ Load(hops) = Cardinality(S)
    BY <1>1, <1>2, <1>3, <2>1, WorkCounts DEF Load
  <2>3. Load(hops)' = Cardinality(S \ {n})
    BY <1>6, <2>1 DEF Load
  <2>4. Cardinality(S \ {n}) = Cardinality(S) - 1 /\ Cardinality(S) \in Nat
    BY <2>2, FS_RemoveElement, FS_CardinalityType
  <2> QED
    BY <2>2, <2>3, <2>4
<1>8. ASSUME NEW more \in 0..EffectiveDepth, more > hops
      PROVE  Level(more)
  <2>1. more # hops
    BY <1>4, <1>8, DepthIsNat
  <2>2. {i \in 1..Len(pending') : pending'[i].depth = more}
          = {i \in 1..Len(pending) : pending[i].depth = more}
    <3>1. PICK S : S = {i \in 1..n : pending[i].depth = more}
      OBVIOUS
    <3>2. n \notin S
      BY <1>3, <2>1, <3>1
    <3>3. {i \in 1..Len(pending') : pending'[i].depth = more} = S \ {n}
      BY <1>6, <3>1
    <3> QED
      BY <1>2, <3>1, <3>2, <3>3
  <2>3. Ahead(more)' = 0 /\ Ahead(more) = 0
    BY <1>1, <1>5, <2>1 DEF Ahead
  <2> QED
    BY <2>2, <2>3 DEF Level, Load
<1> QED
  BY <1>4, <1>7, <1>8 DEF Descends, Lower

\* With the stack as it was, the row at hand has come further or is done with.
LEMMA RowDescends ==
  ASSUME HopInv, Snapshot \/ Dispatched
  PROVE  Descends
<1>1. TypeOK /\ pending' = pending /\ current \in Work /\ phase \in {"snapshot", "dispatch"}
  BY DEF HopInv, TypeInv, LoopOK, Snapshot, Dispatched
<1>2. PICK hops : hops = current.depth
  OBVIOUS
<1>3. hops \in 0..EffectiveDepth
  BY <1>1, <1>2 DEF HopInv, ReachInv, InReach
<1>4. \A more : Load(more)' = Load(more)
  BY <1>1 DEF Load
<1>5. \/ phase' \in {"idle", "apply"}
      \/ phase = "snapshot" /\ phase' = "dispatch" /\ current'.depth = current.depth
  BY <1>1 DEF Snapshot, Dispatched, Loop, Work
<1>6. Ahead(hops)' < Ahead(hops)
  <2>1. Cardinality(Left)' \in Nat /\ Cardinality(Left)' <= Cardinality(Position)
    <3>1. IsFiniteSet(Position) /\ Left' \subseteq Position
      BY PositionsFinite DEF Left
    <3> QED
      BY <3>1, FS_Subset, FS_CardinalityType
  <2> QED
    BY <1>1, <1>2, <1>5, <2>1, WorkCounts DEF Ahead
<1>7. ASSUME NEW more \in 0..EffectiveDepth, more > hops
      PROVE  Ahead(more)' = Ahead(more)
  BY <1>1, <1>2, <1>3, <1>5, <1>7, DepthIsNat DEF Ahead
<1> QED
  BY <1>3, <1>4, <1>6, <1>7 DEF Descends, Lower, Level

\* A push adds to the load one hop below the row at hand, and the loops have
\* one position less to come to.
LEMMA PushDescends ==
  ASSUME HopInv, Push
  PROVE  Descends
<1>1. TypeOK /\ LoopOK /\ CurrentHasHops /\ current' = current /\ current \in Work
      /\ phase = "dispatch" /\ phase' = phase
  BY DEF HopInv, TypeInv, LoopOK, Push
<1>2. PICK n, hops : n = Len(pending) /\ hops = current.depth
  OBVIOUS
<1>3. hops \in 0..EffectiveDepth
  BY <1>1, <1>2 DEF HopInv, ReachInv, InReach
<1>4. PICK u \in Update : /\ pending' = Append(pending, [update |-> u, depth |-> hops - 1])
                          /\ pending' \in Seq(Pending)
  BY <1>1, <1>2, PushStep
<1>5. /\ n \in Nat /\ Len(pending') = n + 1 /\ pending'[n + 1].depth = hops - 1
      /\ \A i \in 1..n : pending'[i] = pending[i]
  <2>1. [update |-> u, depth |-> hops - 1] \in Pending
    BY <1>1, <1>2, <1>3, DepthIsNat DEF CurrentHasHops, Pending
  <2> QED
    BY <1>1, <1>2, <1>4, <2>1, AppendProperties, LenProperties DEF TypeOK
<1>6. ASSUME NEW more \in 0..EffectiveDepth, more >= hops
      PROVE  Load(more)' = Load(more)
  <2>1. hops - 1 # more
    BY <1>3, <1>6, DepthIsNat
  <2>2. {i \in 1..Len(pending') : pending'[i].depth = more}
          = {i \in 1..n : pending[i].depth = more}
    BY <1>5, <2>1
  <2> QED
    BY <1>2, <2>2 DEF Load
<1>7. Ahead(hops)' < Ahead(hops)
  <2>1. PICK p \in Position : Precedes(cursor, p) /\ cursor' = p
    BY DEF Push
  <2>2. \A q \in Position : Precedes(p, q) => Precedes(cursor, q) /\ q # p
    BY <1>1, <2>1, ConstantsAssumption DEF Precedes, Position, Slot, TypeOK
  <2>3. Left' \subseteq Left /\ p \in Left /\ p \notin Left'
    BY <2>1, <2>2 DEF Left
  <2>4. PICK S, T : S = Left /\ T = Left'
    OBVIOUS
  <2>5. IsFiniteSet(S) /\ T \subseteq S /\ T # S
    BY <1>1, <2>3, <2>4, WorkCounts
  <2>6. Cardinality(T) < Cardinality(S) /\ Cardinality(T) \in Nat /\ Cardinality(S) \in Nat
    BY <2>5, FS_Subset, FS_CardinalityType
  <2> QED
    BY <1>1, <1>2, <2>4, <2>6 DEF Ahead
<1>8. ASSUME NEW more \in 0..EffectiveDepth, more > hops
      PROVE  Ahead(more)' = Ahead(more)
  BY <1>1, <1>2, <1>3, <1>8, DepthIsNat DEF Ahead
<1>9. hops >= hops /\ \A more \in 0..EffectiveDepth : more > hops => more >= hops
  BY <1>3, DepthIsNat
<1> QED
  BY <1>3, <1>6, <1>7, <1>8, <1>9 DEF Descends, Lower, Level

\* The exception drops all that was left.
LEMMA ThrowDescends ==
  ASSUME HopInv, ThrowMissing
  PROVE  Descends
<1>1. TypeOK /\ LoopOK /\ phase = "apply" /\ phase' = "idle" /\ pending' = <<>> /\ pending # <<>>
  BY DEF HopInv, TypeInv, LoopOK, ThrowMissing
<1>2. PICK n, hops : n = Len(pending) /\ hops = Top.depth
  OBVIOUS
<1>3. n \in 1..n /\ pending[n].depth = hops
  BY <1>1, <1>2, PopType DEF TypeOK, Top
<1>4. hops \in 0..EffectiveDepth
  BY <1>1, <1>2, <1>3 DEF HopInv, ReachInv, InReach
<1>5. \A more : Load(more)' = 0 /\ Ahead(more)' = 0 /\ Ahead(more) = 0 /\ Load(more) \in Nat
  <2>1. \A more : {i \in 1..Len(pending') : pending'[i].depth = more} = {}
    BY <1>1
  <2>2. \A more : Load(more)' = 0
    BY <2>1, FS_EmptySet DEF Load
  <2>3. \A more : Ahead(more)' = 0 /\ Ahead(more) = 0
    BY <1>1 DEF Ahead
  <2> QED
    BY <1>1, <2>2, <2>3, WorkCounts
<1>6. Load(hops) # 0
  <2>1. PICK S : S = {i \in 1..Len(pending) : pending[i].depth = hops}
    OBVIOUS
  <2>2. IsFiniteSet(S) /\ n \in S
    BY <1>1, <1>2, <1>3, <2>1, WorkCounts
  <2>3. Cardinality(S) # 0
    BY <2>2, FS_EmptySet
  <2> QED
    BY <2>1, <2>3 DEF Load
<1>7. Lower(hops) /\ \A more : Lower(more) \/ Level(more)
  BY <1>5, <1>6 DEF Lower, Level
<1> QED
  BY <1>4, <1>7 DEF Descends

\* Every step of the loop lowers the work left, in the lexicographic order of
\* the hops: on any graph, with cycles and edges that never settle, and for
\* any depth, a request is served in finitely many steps.
THEOREM CascadeRunsOut == Spec => [][Cascade => Descends]_vars
<1>1. HopInv /\ [Next]_vars => [Cascade => Descends]_vars
  BY NextHop, ApplyDescends, RowDescends, PushDescends, ThrowDescends DEF Cascade
<1> QED
  BY <1>1, HopInvariant, PTL DEF Spec

-----------------------------------------------------------------------------
(* What a crash or a failed INSERT leaves out of the history.              *)

\* The rows without a snapshot of their last second, but for the one that is
\* about to get it.
Forgotten == {a \in Unlogged : ~(phase = "snapshot" /\ a = current.address)}

\* The row that is about to be recorded is the row as it stands.
CurrentStands == phase = "snapshot" => rows[current.address] = current.row

ForgottenInv ==
  TypeInv /\ CurrentStands /\ IsFiniteSet(Forgotten) /\ Cardinality(Forgotten) <= faults

\* Nothing is forgotten at the start: every row comes with a snapshot.
LEMMA InitForgotten == Init => ForgottenInv
<1> SUFFICES ASSUME Init PROVE ForgottenInv
  OBVIOUS
<1>1. TypeInv
  BY InitTypeInv
<1>2. ASSUME NEW a \in Address, Exists(a) PROVE history[a][rows[a].timestamp] # None
  <2>1. rows[a] \in Row /\ rows[a].timestamp \in Time
    BY <1>1, <1>2 DEF TypeInv, TypeOK, Exists, Row
  <2>2. history[a] = Snapshots(rows[a])
    BY DEF Init
  <2> QED
    BY <1>2, <2>1, <2>2 DEF Snapshots, Exists
<1>3. Forgotten = {}
  BY <1>2 DEF Forgotten, Unlogged
<1> QED
  BY <1>1, <1>3, FS_EmptySet DEF ForgottenInv, CurrentStands, Init

\* Of two finite sets the smaller has no more elements.
LEMMA NoMore ==
  ASSUME NEW S, NEW T, NEW n \in Nat, IsFiniteSet(S), Cardinality(S) <= n, T \subseteq S
  PROVE  IsFiniteSet(T) /\ Cardinality(T) <= n
<1>1. /\ IsFiniteSet(T) /\ Cardinality(T) <= Cardinality(S)
      /\ Cardinality(T) \in Nat /\ Cardinality(S) \in Nat
  BY FS_Subset, FS_CardinalityType
<1> QED
  BY <1>1

\* An element adds one at most.
LEMMA OneMore ==
  ASSUME NEW S, NEW T, NEW n \in Nat, NEW x, IsFiniteSet(S), Cardinality(S) <= n,
         T \subseteq S \cup {x}
  PROVE  IsFiniteSet(T) /\ Cardinality(T) <= n + 1
<1>1. /\ IsFiniteSet(S \cup {x}) /\ Cardinality(S) \in Nat
      /\ Cardinality(S \cup {x}) = IF x \in S THEN Cardinality(S) ELSE Cardinality(S) + 1
  BY FS_AddElement, FS_CardinalityType
<1>2. PICK U : U = S \cup {x}
  OBVIOUS
<1>3. IsFiniteSet(U) /\ Cardinality(U) <= n + 1
  BY <1>1, <1>2
<1> QED
  BY <1>2, <1>3, NoMore

\* Only a request that ends early can add a row to the forgotten ones: the row at
\* hand.
LEMMA StepForgotten ==
  ASSUME ForgottenInv, [Next]_vars
  PROVE  /\ CurrentStands'
         /\ \/ Forgotten' \subseteq Forgotten /\ faults' = faults
            \/ Forgotten' \subseteq Forgotten \cup {current.address} /\ faults' = faults + 1
<1> USE DEF ForgottenInv, TypeInv
<1>1. CASE Apply
  <2>1. PICK c : c = Top.update.address
    OBVIOUS
  <2>2. /\ current'.address = c /\ rows'[c] = current'.row
        /\ \A a \in Address : a # c => rows'[a] = rows[a]
    BY <1>1, <2>1, ApplyStep
  <2>3. phase = "apply" /\ phase' = "snapshot" /\ UNCHANGED <<history, faults>>
    BY <1>1 DEF Apply
  <2>4. ASSUME NEW a \in Forgotten' PROVE a \in Forgotten
    <3>1. a \in Address /\ a # c /\ rows'[a] # None /\ history'[a][rows'[a].timestamp] = None
      <4>1. a \in Unlogged' /\ ~(phase' = "snapshot" /\ a = current'.address)
        BY DEF Forgotten
      <4>2. a # c
        BY <2>2, <2>3, <4>1
      <4> QED
        BY <4>1, <4>2 DEF Unlogged, Exists
    <3>2. rows'[a] = rows[a] /\ history'[a] = history[a]
      BY <2>2, <2>3, <3>1
    <3> QED
      BY <2>3, <3>1, <3>2 DEF Forgotten, Unlogged, Exists
  <2> QED
    BY <2>2, <2>3, <2>4 DEF CurrentStands
<1>2. CASE Snapshot
  <2>1. PICK c, row : c = current.address /\ row = current.row
    OBVIOUS
  <2>2. c \in Address /\ row \in Row /\ row.timestamp \in Time /\ rows[c] = row
    BY <1>2, <2>1 DEF Snapshot, LoopOK, Work, Row, CurrentStands
  <2>3. /\ history' = RecordedSnapshot(c, row) /\ phase' # "snapshot"
        /\ UNCHANGED <<rows, faults>>
    BY <1>2, <2>1 DEF Snapshot, Loop
  <2>4. history'[c][row.timestamp] # None
    <3>1. history[c] \in [Time -> Row \cup {None}]
      BY <2>2 DEF TypeOK
    <3> QED
      BY <2>2, <2>3, <3>1, ConstantsAssumption DEF RecordedSnapshot, TypeOK
  <2>5. \A a \in Address : a # c => history'[a] = history[a]
    BY <2>2, <2>3 DEF RecordedSnapshot, TypeOK
  <2>6. ASSUME NEW a \in Forgotten' PROVE a \in Forgotten
    <3>1. a \in Address /\ rows[a] # None /\ history'[a][rows[a].timestamp] = None
      BY <2>3 DEF Forgotten, Unlogged, Exists
    <3>2. a # c
      BY <2>2, <2>4, <3>1
    <3> QED
      BY <2>1, <2>5, <3>1, <3>2 DEF Forgotten, Unlogged, Exists
  <2> QED
    BY <2>3, <2>6 DEF CurrentStands
<1>3. CASE \E instance \in Instance : DeleteInstance(instance)
  <2>1. PICK instance \in Instance : DeleteInstance(instance)
    BY <1>3
  <2>2. phase = "idle" /\ phase' = phase /\ faults' = faults
    BY <2>1 DEF DeleteInstance, loop
  <2>3. ASSUME NEW a \in Forgotten' PROVE a \in Forgotten
    <3>1. a \in Address /\ rows'[a] # None /\ history'[a][rows'[a].timestamp] = None
      BY DEF Forgotten, Unlogged, Exists
    <3>2. a \notin instance /\ rows'[a] = rows[a] /\ history'[a] = history[a]
      BY <2>1, <3>1 DEF DeleteInstance
    <3> QED
      BY <2>2, <3>1, <3>2 DEF Forgotten, Unlogged, Exists
  <2> QED
    BY <2>2, <2>3 DEF CurrentStands
<1>4. CASE Interrupt
  <2>1. UNCHANGED <<rows, history>> /\ phase' = "idle" /\ faults' = faults + 1
    BY <1>4 DEF Interrupt, store
  <2>2. Unlogged' = Unlogged
    BY <2>1 DEF Unlogged, Exists
  <2>3. Forgotten' \subseteq Unlogged /\ Unlogged \subseteq Forgotten \cup {current.address}
    BY <2>2 DEF Forgotten
  <2> QED
    BY <2>1, <2>3 DEF CurrentStands
<1>5. CASE ~Apply /\ ~Snapshot /\ ~Interrupt /\ ~\E instance \in Instance : DeleteInstance(instance)
  <2>1. /\ UNCHANGED <<rows, history, faults>>
        /\ UNCHANGED <<phase, current>> \/ (phase # "snapshot" /\ phase' # "snapshot")
    BY <1>5 DEF Next, Cascade, vars, store, loop, Accept, ThrowMissing, Push, Dispatched, Loop,
                InsertAddressRelationship, Tick
  <2>2. Unlogged' = Unlogged
    BY <2>1 DEF Unlogged, Exists
  <2>3. Forgotten' = Forgotten
    BY <2>1, <2>2 DEF Forgotten
  <2> QED
    BY <2>1, <2>3 DEF CurrentStands
<1> QED
  BY <1>1, <1>2, <1>3, <1>4, <1>5

LEMMA NextForgotten == ForgottenInv /\ [Next]_vars => ForgottenInv'
<1> SUFFICES ASSUME ForgottenInv, [Next]_vars PROVE ForgottenInv'
  OBVIOUS
<1>1. TypeInv'
  BY NextTypeInv DEF ForgottenInv
<1>2. PICK before, after, n, m : /\ before = Forgotten /\ after = Forgotten'
                                 /\ n = faults /\ m = faults'
  OBVIOUS
<1>3. n \in Nat /\ IsFiniteSet(before) /\ Cardinality(before) <= n
  BY <1>2, ConstantsAssumption DEF ForgottenInv, TypeInv, TypeOK
<1>4. CASE after \subseteq before /\ m = n
  <2>1. IsFiniteSet(after) /\ Cardinality(after) <= m
    BY <1>3, <1>4, NoMore
  <2> QED
    BY <1>1, <1>2, <2>1, StepForgotten DEF ForgottenInv
<1>5. CASE \E x : after \subseteq before \cup {x} /\ m = n + 1
  <2>1. IsFiniteSet(after) /\ Cardinality(after) <= m
    BY <1>3, <1>5, OneMore
  <2> QED
    BY <1>1, <1>2, <2>1, StepForgotten DEF ForgottenInv
<1> QED
  BY <1>2, <1>4, <1>5, StepForgotten

\* Outside the two statements of an update every row but as many as there were
\* crashes and failing statements has a snapshot of its last second, however many
\* rows are written in one cascade and however many seconds or updates share a
\* timestamp.
THEOREM FaultsForgetOneSnapshot == Spec => []FaultLosesOneSnapshot
<1>1. ForgottenInv => FaultLosesOneSnapshot
  <2> SUFFICES ASSUME ForgottenInv, phase # "snapshot" PROVE Cardinality(Unlogged) <= faults
    BY DEF FaultLosesOneSnapshot
  <2>1. Forgotten = Unlogged
    BY DEF Forgotten
  <2> QED
    BY <2>1 DEF ForgottenInv
<1> QED
  BY <1>1, InitForgotten, NextForgotten, PTL DEF Spec

-----------------------------------------------------------------------------
(* Layered graphs come to rest settled.                                    *)

\* What an edge of Settled wants its target to hold, and whether it wants
\* anything of it as the rows stand.
Wanted(e) ==
  IF e.predicate.kind = "propagate" THEN e.predicate.target
  ELSE IF e.predicate.kind = "verify"
       THEN WritePlan("Status", SpecVerdict(e.subject, rows[e.subject].result)).status
       ELSE rows[e.subject].result

Due(e) ==
  /\ AsksStatus(e.predicate) \/ AsksComment(e.predicate)
  /\ e.predicate.kind = "propagate" =>
       rows[e.subject].status = e.predicate.when /\ GateOpen(e)
  /\ e.predicate.kind = "verify" => Wanted(e) # None

\* The column of a row or of an update that `e' is about.
Named(e, x) == IF e.predicate.kind = "copy" THEN x.comment ELSE x.status

\* The target holds what `e' wants; the i-th queued update brings it.
Done(e) == Named(e, rows[e.target]) = Wanted(e)

Carries(i, e) ==
  pending[i].update.address = e.target /\ Named(e, pending[i].update) = Wanted(e)

\* The loop in which an obligation is served.
PassOf(e) ==
  IF e.predicate.kind = "propagate" THEN 1 ELSE IF e.predicate.kind = "verify" THEN 2 ELSE 3

\* Where an edge of Settled is looked at.
Turn(s) == <<PassOf(edges[s]), s>>

\* An edge of the current row that wants what `e' wants is still to be looked at.
Serves(s, e) ==
  /\ edges[s] # None
  /\ edges[s].subject = current.address
  /\ edges[s].target = e.target
  /\ edges[s].predicate = e.predicate
  /\ Due(edges[s])
  /\ Wanted(edges[s]) = Wanted(e)
  /\ Precedes(cursor, Turn(s))

\* What `e' wants has yet to be proposed.
Owed(e) ==
  /\ phase \in {"snapshot", "dispatch"}
  /\ current.changed # {}
  /\ e.predicate.kind = "propagate" => "Status" \in current.changed
  /\ \E s \in Slot : Serves(s, e)

\* The layer of the i-th update of the stack.
At(layer, i) == layer[pending[i].update.address]

\* The stack climbs from layer to layer, one above the current row at most,
\* with hops left for the layers still to come.
StackLayered(layer) ==
  /\ \A i, j \in 1..Len(pending) : i <= j => At(layer, i) <= At(layer, j)
  /\ \A i \in 1..Len(pending) :
       /\ pending[i].depth >= EffectiveDepth - At(layer, i)
       /\ phase = "snapshot" => At(layer, i) <= layer[current.address]
       /\ phase = "dispatch" => At(layer, i) <= layer[current.address] + 1
       /\ pending[i].update.entity # Daemon => Len(pending) = 1 /\ phase = "apply"

\* The row at hand is as it was written, with hops left for the layers above.
CurrentLayered(layer) ==
  /\ phase \in {"snapshot", "dispatch"} =>
       /\ current.depth >= EffectiveDepth - layer[current.address]
       /\ current.row = rows[current.address]
  /\ phase # "dispatch" => cursor = Start

\* No queued update goes against an edge into its row.
Agreed ==
  \A i \in 1..Len(pending), s \in Slot :
    (edges[s] # None /\ edges[s].target = pending[i].update.address /\ Due(edges[s])) =>
      Named(edges[s], pending[i].update) \in {None, Wanted(edges[s])}

\* What an edge wants is there, or queued, or still to be looked at.
Kept ==
  \A s \in Slot : (edges[s] # None /\ Due(edges[s])) =>
    \/ Done(edges[s])
    \/ \E i \in 1..Len(pending) : Carries(i, edges[s])
    \/ Owed(edges[s])

\* A layered graph whose stack, row at hand and edges are in order.
SettlingInv(layer) ==
  /\ SoundInv
  /\ Layered(edges, layer, Request)
  /\ StackLayered(layer)
  /\ CurrentLayered(layer)
  /\ Agreed
  /\ Kept

\* The ways to put the rows into layers.
Layering == [Address -> 0..EffectiveDepth]

\* An edge of the table, and the rows at its ends.
LEMMA EdgeType ==
  ASSUME SoundInv, NEW s \in Slot, edges[s] # None
  PROVE  /\ edges[s].subject \in Address /\ edges[s].target \in Address
         /\ edges[s].predicate \in PredicateToken
         /\ rows[edges[s].subject] \in Row /\ rows[edges[s].target] \in Row
<1>1. edges[s] \in Edge
  BY DEF SoundInv, TypeInv, TypeOK
<1>2. edges[s].subject \in Address /\ edges[s].target \in Address
      /\ edges[s].predicate \in PredicateToken
  BY <1>1, ConstantsAssumption DEF Edge
<1>3. Exists(edges[s].subject) /\ Exists(edges[s].target)
  BY DEF SoundInv, EdgesResolve
<1> QED
  BY <1>2, <1>3 DEF SoundInv, TypeInv, TypeOK, Exists

\* The fields of a predicate of each kind.
LEMMA TokenKinds ==
  ASSUME NEW p \in PredicateToken
  PROVE  /\ p.kind = "propagate" => p \in StatusPredicate
         /\ p.kind = "verify" => p \in VerifyPredicate
         /\ p.kind = "copy" => p \in CopyPredicate
         /\ p.kind = "prefill" => p \in PrefillPredicate
BY DEF PredicateToken, StatusPredicate, VerifyPredicate, CopyPredicate,
       PrefillPredicate, InertPredicate

\* What a due edge wants is something.
LEMMA WantedType ==
  ASSUME SoundInv, NEW s \in Slot, edges[s] # None, Due(edges[s])
  PROVE  Wanted(edges[s]) # None
<1>1. /\ edges[s].predicate \in PredicateToken /\ rows[edges[s].subject] \in Row
  BY EdgeType
<1>2. PICK e : e = edges[s]
  OBVIOUS
<1>3. CASE e.predicate.kind = "propagate"
  <2>1. e.predicate.target \in Status
    BY <1>1, <1>2, <1>3, TokenKinds DEF StatusPredicate, Asserted
  <2> QED
    BY <1>2, <1>3, <2>1, ConstantsAssumption DEF Wanted
<1>4. CASE e.predicate.kind = "verify"
  BY <1>2, <1>4 DEF Due
<1>5. CASE e.predicate.kind \notin {"propagate", "verify"}
  BY <1>1, <1>2, <1>5, ConstantsAssumption DEF Wanted, Row
<1> QED
  BY <1>3, <1>4, <1>5

\* What the edge at a position proposes is a write of that edge's predicate.
LEMMA ProposalShape ==
  ASSUME NEW p \in Position, NEW u \in Proposal(p)
  PROVE  LET e == edges[p[2]] IN
         /\ e # None /\ e.subject = current.address /\ e.predicate.kind = Passes[p[1]]
         /\ \/ e.predicate.kind = "propagate" /\ u \in StatusProposal(e)
            \/ e.predicate.kind = "verify" /\ u \in VerifyProposal(e)
            \/ e.predicate.kind = "copy" /\ u \in CopyProposal(e)
            \/ e.predicate.kind = "prefill" /\ u \in PrefillProposal(e)
BY DEF Proposal, Passes, Position

\* The fields of a write: what it leaves alone it leaves unset.
LEMMA WriteFields ==
  ASSUME NEW e
  PROVE  /\ StatusWrite(e).address = e.target
         /\ StatusWrite(e).status = e.predicate.target
         /\ VerifyWrite(e).address = e.target
         /\ VerifyWrite(e).status \in {None, WritePlan(e.predicate.object, EdgeVerdict(e)).status}
         /\ VerifyWrite(e).status = None =>
              WritePlan(e.predicate.object, EdgeVerdict(e)).status \in {None, rows[e.target].status}
         /\ e.predicate.object # "Comment" => VerifyWrite(e).comment = None
         /\ e.predicate.object = "Comment" => VerifyWrite(e).status = None
BY DEF StatusWrite, VerifyWrite, DaemonUpdate, WritePlan

\* The same for a write of one field.
LEMMA CopyFields ==
  ASSUME NEW a, NEW to, NEW value
  PROVE  /\ FieldWrite(a, to, value).address = a
         /\ to # "Status" => FieldWrite(a, to, value).status = None
         /\ FieldWrite(a, to, value).comment = IF to = "Comment" THEN value ELSE None
BY DEF FieldWrite, DaemonUpdate

\* A predicate that may not write a status, or a comment, proposes none.
LEMMA SilentWrites ==
  ASSUME NEW p \in Position, NEW u \in Proposal(p)
  PROVE  /\ u.address = edges[p[2]].target
         /\ ~WritesStatus(edges[p[2]].predicate) => u.status = None
         /\ ~WritesComment(edges[p[2]].predicate) => u.comment = None
<1>1. PICK e : e = edges[p[2]]
  OBVIOUS
<1>2. \/ e.predicate.kind = "propagate" /\ u \in StatusProposal(e)
      \/ e.predicate.kind = "verify" /\ u \in VerifyProposal(e)
      \/ e.predicate.kind = "copy" /\ u \in CopyProposal(e)
      \/ e.predicate.kind = "prefill" /\ u \in PrefillProposal(e)
  BY <1>1, ProposalShape
<1>3. CASE e.predicate.kind = "propagate"
  <2>1. u = StatusWrite(e)
    BY <1>2, <1>3 DEF StatusProposal
  <2> QED
    BY <1>1, <1>3, <2>1, WriteFields DEF WritesStatus, WritesComment
<1>4. CASE e.predicate.kind = "verify"
  <2>1. u = VerifyWrite(e)
    BY <1>2, <1>4 DEF VerifyProposal
  <2> QED
    BY <1>1, <1>4, <2>1, WriteFields DEF WritesStatus, WritesComment
<1>5. CASE e.predicate.kind \in {"copy", "prefill"}
  <2>1. \E value : u = FieldWrite(e.target, e.predicate.to, value)
    BY <1>2, <1>5 DEF CopyProposal, PrefillProposal
  <2> QED
    BY <1>1, <1>5, <2>1, CopyFields DEF WritesStatus, WritesComment
<1> QED
  BY <1>2, <1>3, <1>4, <1>5

\* The kinds of an edge that is due.
LEMMA DueKinds ==
  ASSUME NEW e, Due(e)
  PROVE  \/ e.predicate.kind = "propagate"
         \/ e.predicate.kind = "verify" /\ e.predicate.gate = "None" /\ e.predicate.object = "Status"
         \/ AsksComment(e.predicate)
BY DEF Due, AsksStatus

\* The verdict of the current row, for an edge without a gate.
LEMMA OwnVerdict ==
  ASSUME NEW e, current.row = rows[current.address], e.subject = current.address,
         e.predicate.kind = "verify", e.predicate.gate = "None", e.predicate.object = "Status"
  PROVE  WritePlan(e.predicate.object, EdgeVerdict(e)).status = Wanted(e)
BY DEF EdgeVerdict, Wanted

\* No proposal goes against an edge into the row it is for.
LEMMA ProposalsAgree ==
  ASSUME SoundInv, current \in Work, current.row = rows[current.address],
         NEW layer, Layered(edges, layer, Request),
         NEW p \in Position, NEW u \in Proposal(p),
         NEW s \in Slot, edges[s] # None, edges[s].target = u.address, Due(edges[s])
  PROVE  Named(edges[s], u) \in {None, Wanted(edges[s])}
<1>1. PICK e, f : e = edges[s] /\ f = edges[p[2]]
  OBVIOUS
<1>2. /\ f # None /\ f.subject = current.address /\ f.target = e.target /\ p[2] \in Slot
      /\ \/ f.predicate.kind = "propagate" /\ u \in StatusProposal(f)
         \/ f.predicate.kind = "verify" /\ u \in VerifyProposal(f)
         \/ f.predicate.kind = "copy" /\ u \in CopyProposal(f)
         \/ f.predicate.kind = "prefill" /\ u \in PrefillProposal(f)
  BY <1>1, ProposalShape, SilentWrites DEF Position
<1>3. Agree(e, f)
  BY <1>1, <1>2 DEF Layered
<1>4. /\ ~WritesStatus(f.predicate) => u.status = None
      /\ ~WritesComment(f.predicate) => u.comment = None
  BY <1>1, SilentWrites
<1>5. CASE e.predicate.kind = "propagate"
  <2>1. Named(e, u) = u.status /\ Wanted(e) = e.predicate.target
    BY <1>5 DEF Named, Wanted
  <2>2. CASE WritesStatus(f.predicate)
    <3>1. /\ f.predicate.kind = "propagate"
          /\ \/ e.predicate.target = f.predicate.target
             \/ e.subject = f.subject /\ e.predicate.when # f.predicate.when
      BY <1>3, <1>5, <2>2 DEF Agree, AsksStatus
    <3>2. u = StatusWrite(f) /\ f.predicate.when = current.row.status
      BY <1>2, <3>1 DEF StatusProposal
    <3>3. rows[e.subject].status = e.predicate.when
      BY <1>1, <1>5 DEF Due
    <3>4. e.predicate.target = f.predicate.target
      BY <1>2, <3>1, <3>2, <3>3
    <3> QED
      BY <1>1, <2>1, <3>2, <3>4, WriteFields
  <2> QED
    BY <1>1, <1>4, <2>1, <2>2
<1>6. CASE e.predicate.kind = "verify" /\ e.predicate.gate = "None" /\ e.predicate.object = "Status"
  <2>1. Named(e, u) = u.status
    BY <1>6 DEF Named
  <2>2. CASE WritesStatus(f.predicate)
    <3>1. /\ f.predicate.kind = "verify" /\ f.predicate.gate = "None"
          /\ f.predicate.object = "Status" /\ e.subject = f.subject
      BY <1>3, <1>6, <2>2 DEF Agree, AsksStatus
    <3>2. u = VerifyWrite(f)
      BY <1>2, <3>1 DEF VerifyProposal
    <3>3. WritePlan(f.predicate.object, EdgeVerdict(f)).status = Wanted(f)
      BY <1>2, <3>1, OwnVerdict
    <3>4. Wanted(f) = Wanted(e)
      BY <1>6, <3>1 DEF Wanted
    <3> QED
      BY <1>1, <2>1, <3>2, <3>3, <3>4, WriteFields
  <2> QED
    BY <1>1, <1>4, <2>1, <2>2
<1>7. CASE AsksComment(e.predicate)
  <2>1. Named(e, u) = u.comment /\ Wanted(e) = rows[e.subject].result
    BY <1>7 DEF Named, Wanted, AsksComment
  <2>2. CASE WritesComment(f.predicate)
    <3>1. AsksComment(f.predicate) /\ e.subject = f.subject
      BY <1>3, <1>7, <2>2 DEF Agree
    <3>2. u = FieldWrite(f.target, "Comment", FieldValue("Result"))
      BY <1>2, <3>1 DEF CopyProposal, AsksComment
    <3>3. u.comment = current.row.result
      BY <3>2, CopyFields DEF FieldValue
    <3> QED
      BY <1>1, <1>2, <2>1, <3>1, <3>3
  <2> QED
    BY <1>1, <1>4, <2>1, <2>2
<1> QED
  BY <1>1, <1>5, <1>6, <1>7, DueKinds

\* At its turn an edge of the current row that is due queues what it wants,
\* or finds it there.
LEMMA ProposalsServe ==
  ASSUME SoundInv, current \in Work, current.row = rows[current.address],
         NEW layer \in Layering, Layered(edges, layer, Request),
         NEW s \in Slot, edges[s] # None, edges[s].subject = current.address, Due(edges[s]),
         edges[s].predicate.kind = "propagate" => "Status" \in current.changed
  PROVE  /\ Turn(s) \in Position
         /\ \/ Done(edges[s])
            \/ /\ Proposal(Turn(s)) # {}
               /\ \A u \in Proposal(Turn(s)) : /\ u.address = edges[s].target
                                               /\ Named(edges[s], u) = Wanted(edges[s])
<1>1. PICK e : e = edges[s]
  OBVIOUS
<1>2. /\ e.subject \in Address /\ e.target \in Address /\ e.predicate \in PredicateToken
      /\ rows[e.subject] \in Row /\ rows[e.target] \in Row /\ Exists(e.target)
      /\ e # None /\ e.subject = current.address
  BY <1>1, EdgeType DEF SoundInv, EdgesResolve
<1>3. e.target # current.address
  <2>1. layer[e.target] = layer[e.subject] + 1 /\ layer[e.subject] \in Int
    BY <1>1, <1>2, DepthIsNat DEF Layered, Layering
  <2> QED
    BY <1>2, <2>1
<1>4. Turn(s) \in Position /\ Turn(s)[2] = s /\ Turn(s)[1] = PassOf(e)
  BY <1>1 DEF Turn, PassOf, Position
<1>5. CASE e.predicate.kind = "propagate"
  <2>1. Proposal(Turn(s)) = StatusProposal(e)
    BY <1>1, <1>2, <1>4, <1>5 DEF Proposal, PassOf, Passes
  <2>2. e.predicate.when = current.row.status /\ GateOpen(e)
    BY <1>1, <1>2, <1>5 DEF Due
  <2>3. current.row.status # "Unknown"
    <3>1. e.predicate.when \in Asserted
      BY <1>2, <1>5, TokenKinds DEF StatusPredicate
    <3> QED
      BY <2>2, <3>1 DEF Asserted
  <2>4. StatusWrite(e) \in StatusProposal(e) \/ rows[e.target].status = StatusWrite(e).status
    BY <1>1, <1>2, <1>3, <1>5, <2>2, <2>3 DEF StatusProposal
  <2>5. Wanted(e) = StatusWrite(e).status /\ Named(e, rows[e.target]) = rows[e.target].status
        /\ Named(e, StatusWrite(e)) = Wanted(e) /\ StatusWrite(e).address = e.target
    BY <1>5, WriteFields DEF Wanted, Named
  <2>6. \A u \in StatusProposal(e) : u = StatusWrite(e)
    BY DEF StatusProposal
  <2> QED
    BY <1>1, <1>4, <2>1, <2>4, <2>5, <2>6 DEF Done
<1>6. CASE e.predicate.kind = "verify" /\ e.predicate.gate = "None" /\ e.predicate.object = "Status"
  <2>1. Proposal(Turn(s)) = VerifyProposal(e)
    BY <1>1, <1>2, <1>4, <1>6 DEF Proposal, PassOf, Passes
  <2>2. WritePlan(e.predicate.object, EdgeVerdict(e)).status = Wanted(e)
    BY <1>2, <1>6, OwnVerdict
  <2>3. Wanted(e) # None
    BY <1>1, WantedType
  <2>4. /\ VerifyWrite(e).status \in {None, Wanted(e)} /\ VerifyWrite(e).address = e.target
        /\ VerifyWrite(e).status = None => Wanted(e) = rows[e.target].status
    BY <2>2, <2>3, WriteFields
  <2>5. VerifyWrite(e).status # None => VerifyWrite(e) \in VerifyProposal(e)
    BY <1>2 DEF VerifyProposal
  <2>6. \A u \in VerifyProposal(e) : u = VerifyWrite(e)
    BY DEF VerifyProposal
  <2>7. \A x : Named(e, x) = x.status
    BY <1>6 DEF Named
  <2> QED
    BY <1>1, <1>4, <2>1, <2>3, <2>4, <2>5, <2>6, <2>7 DEF Done
<1>7. CASE AsksComment(e.predicate)
  <2> DEFINE w == FieldWrite(e.target, "Comment", FieldValue("Result"))
  <2>1. Proposal(Turn(s)) = CopyProposal(e)
    BY <1>1, <1>2, <1>4, <1>7 DEF Proposal, PassOf, Passes, AsksComment
  <2>2. FieldValue("Result") = Wanted(e)
    BY <1>2, <1>7 DEF FieldValue, Wanted, AsksComment
  <2>3. w.address = e.target /\ w.comment = Wanted(e)
    BY <2>2, CopyFields
  <2>4. e.predicate.only = None
    BY <1>1, <1>2, <1>7 DEF Layered
  <2>5. w \in CopyProposal(e) \/ rows[e.target].comment = Wanted(e)
    BY <1>2, <1>3, <1>7, <2>2, <2>4
       DEF CopyProposal, AsksComment, FilterPasses, PropagateTarget, HasSource, FieldDiffers
  <2>6. \A u \in CopyProposal(e) : u = w
    BY <1>7 DEF CopyProposal, AsksComment
  <2>7. \A x : Named(e, x) = x.comment
    BY <1>7 DEF Named, AsksComment
  <2> HIDE DEF w
  <2> QED
    BY <1>1, <1>4, <2>1, <2>3, <2>5, <2>6, <2>7 DEF Done
<1> QED
  BY <1>1, <1>5, <1>6, <1>7, DueKinds

-----------------------------------------------------------------------------
(* What a write changes of what the edges want.                            *)

\* With the rows and the edges as they were, nothing else is wanted.
LEMMA DueStays ==
  ASSUME rows' = rows, edges' = edges, NEW e
  PROVE  /\ Due(e)' <=> Due(e)
         /\ Wanted(e)' = Wanted(e)
         /\ Done(e)' <=> Done(e)
<1>1. GateOpen(e)' <=> GateOpen(e)
  BY DEF GateOpen, Contributors, Active, Exists
<1>2. Wanted(e)' = Wanted(e)
  BY DEF Wanted
<1> QED
  BY <1>1, <1>2 DEF Due, Done, Named

\* The rows that feed a gate are a layer below the row it leads to.
LEMMA Feeders ==
  ASSUME SoundInv, NEW layer \in Layering, Layered(edges, layer, Request),
         NEW s \in Slot, edges[s] # None
  PROVE  /\ layer[edges[s].subject] \in Int /\ layer[edges[s].target] \in Int
         /\ layer[edges[s].target] = layer[edges[s].subject] + 1
         /\ \A x \in Contributors(edges[s]) :
              /\ x \in Slot /\ edges[x] # None /\ edges[x].subject \in Address
              /\ edges[x].target = edges[s].target /\ edges[x].predicate = edges[s].predicate
              /\ layer[edges[x].subject] = layer[edges[s].subject]
         /\ s \in Contributors(edges[s])
<1>1. \A x \in Slot : edges[x] # None =>
        /\ edges[x].subject \in Address /\ edges[x].target \in Address
        /\ layer[edges[x].subject] \in Int /\ layer[edges[x].target] \in Int
        /\ layer[edges[x].target] = layer[edges[x].subject] + 1
  BY EdgeType, DepthIsNat DEF Layering, Layered
<1> QED
  BY <1>1 DEF Contributors

\* A write of a row changes nothing of what is wanted in its own layer or below.
LEMMA DueBelow ==
  ASSUME SoundInv, NEW layer \in Layering, Layered(edges, layer, Request),
         NEW r \in Address, edges' = edges, \A a \in Address : a # r => rows'[a] = rows[a],
         NEW s \in Slot, edges[s] # None, layer[edges[s].target] <= layer[r]
  PROVE  /\ Due(edges[s])' <=> Due(edges[s])
         /\ Wanted(edges[s])' = Wanted(edges[s])
<1>1. PICK e : e = edges[s]
  OBVIOUS
<1>2. edges'[s] = e
  BY <1>1
<1>3. layer[r] \in Int
  BY DepthIsNat DEF Layering
<1>4. /\ e.subject \in Address /\ e.subject # r
      /\ \A x \in Contributors(e) : edges[x].subject \in Address /\ edges[x].subject # r
  BY <1>1, <1>3, Feeders, EdgeType
<1>5. rows'[e.subject] = rows[e.subject]
      /\ \A x \in Contributors(e) : rows'[edges[x].subject] = rows[edges[x].subject]
  BY <1>4
<1>6. Contributors(e)' = Contributors(e)
  BY DEF Contributors
<1>7. \A x \in Contributors(e) : Active(x)' <=> Active(x)
  BY <1>5 DEF Active, Exists
<1>8. GateOpen(e)' <=> GateOpen(e)
  BY <1>6, <1>7 DEF GateOpen
<1>9. Wanted(e)' = Wanted(e)
  BY <1>5 DEF Wanted
<1>10. Due(e)' <=> Due(e)
  BY <1>5, <1>8, <1>9 DEF Due
<1> QED
  BY <1>1, <1>2, <1>9, <1>10

\* What is wanted after a write and was not before is wanted by an edge of the
\* row written, because of the column that changed.
LEMMA DueAbove ==
  ASSUME SoundInv, NEW layer \in Layering, Layered(edges, layer, Request),
         NEW r \in Address, edges' = edges, \A a \in Address : a # r => rows'[a] = rows[a],
         NEW s \in Slot, edges[s] # None, Due(edges[s])',
         ~(Due(edges[s]) /\ Wanted(edges[s])' = Wanted(edges[s]))
  PROVE  \E x \in Slot :
           /\ edges[x] # None /\ edges[x].subject = r
           /\ edges[x].target = edges[s].target /\ edges[x].predicate = edges[s].predicate
           /\ Due(edges[x])' /\ Wanted(edges[x])' = Wanted(edges[s])'
           /\ IF edges[s].predicate.kind = "propagate"
              THEN rows'[r].status # rows[r].status
              ELSE rows'[r].result # rows[r].result
<1>1. PICK e : e = edges[s]
  OBVIOUS
<1>2. edges'[s] = e
  BY <1>1
<1>3. Due(e)' /\ ~(Due(e) /\ Wanted(e)' = Wanted(e)) /\ e.subject \in Address
  BY <1>1, <1>2, EdgeType
<1>4. CASE e.subject = r /\ rows'[r].status # rows[r].status /\ e.predicate.kind = "propagate"
  BY <1>1, <1>2, <1>3, <1>4
<1>5. CASE e.subject = r /\ rows'[r].result # rows[r].result /\ e.predicate.kind # "propagate"
  BY <1>1, <1>2, <1>3, <1>5
<1>6. CASE e.predicate.kind # "propagate" /\ ~(e.subject = r /\ rows'[r].result # rows[r].result)
  <2>1. rows'[e.subject].result = rows[e.subject].result
    BY <1>3, <1>6
  <2>2. Wanted(e)' = Wanted(e)
    BY <1>6, <2>1 DEF Wanted
  <2> QED
    BY <1>3, <1>6, <2>2 DEF Due
<1>7. CASE e.predicate.kind = "propagate" /\ ~(e.subject = r /\ rows'[r].status # rows[r].status)
  <2>1. rows'[e.subject].status = rows[e.subject].status
    BY <1>3, <1>7
  <2>2. Wanted(e)' = e.predicate.target /\ Wanted(e) = e.predicate.target
    BY <1>7 DEF Wanted
  <2>3. rows'[e.subject].status = e.predicate.when /\ GateOpen(e)' /\ ~GateOpen(e)
    BY <1>3, <1>7, <2>1, <2>2 DEF Due
  <2>4. Contributors(e)' = Contributors(e)
    BY DEF Contributors
  <2>5. s \in Contributors(e) /\ \A x \in Contributors(e) : 
          /\ x \in Slot /\ edges[x] # None /\ edges[x].subject \in Address
          /\ edges[x].target = e.target /\ edges[x].predicate = e.predicate
    BY <1>1, Feeders
  <2>6. Exists(edges[s].subject)
    BY DEF SoundInv, EdgesResolve
  <2>7. Active(s)
    BY <1>1, <2>1, <2>3, <2>6 DEF Active
  <2>8. e.predicate.gate = "And"
    BY <2>3, <2>5, <2>7 DEF GateOpen
  <2>9. PICK x \in Contributors(e) : ~Active(x)
    BY <2>3, <2>5, <2>8 DEF GateOpen
  <2>10. Active(x)'
    BY <2>3, <2>4, <2>8, <2>9 DEF GateOpen
  <2>11. x \in Slot /\ edges[x] # None /\ edges[x].subject \in Address /\ Exists(edges[x].subject)
         /\ edges[x].target = e.target /\ edges[x].predicate = e.predicate
    BY <2>5 DEF SoundInv, EdgesResolve
  <2>12. rows'[edges[x].subject].status = e.predicate.when
         /\ rows[edges[x].subject].status # e.predicate.when
    BY <2>9, <2>10, <2>11 DEF Active
  <2>13. edges[x].subject = r /\ rows'[r].status # rows[r].status
    BY <2>11, <2>12
  <2>14. PICK f : f = edges[x]
    OBVIOUS
  <2>15. GateOpen(f)'
    BY <2>3, <2>11, <2>14 DEF GateOpen, Contributors
  <2>16. Due(f)' /\ Wanted(f)' = Wanted(e)'
    BY <1>7, <2>2, <2>11, <2>12, <2>14, <2>15 DEF Due, AsksStatus, Wanted
  <2> QED
    BY <1>1, <1>2, <1>7, <2>11, <2>13, <2>14, <2>16
<1> QED
  BY <1>4, <1>5, <1>6, <1>7

\* A status or a result that a write changes is recorded as changed.
LEMMA ChangesSeen ==
  ASSUME NEW u, NEW row
  PROVE  /\ Applied(u, row).status # row.status =>
              "Status" \in ChangedFields(u, row, Applied(u, row))
         /\ Applied(u, row).result # row.result =>
              "Result" \in ChangedFields(u, row, Applied(u, row))
BY DEF Applied, ChangedFields, Writable, PropagateTarget

\* Of two positions one comes first.
LEMMA PositionsOrdered ==
  /\ \A p, q \in Position : Precedes(p, q) \/ p = q \/ Precedes(q, p)
  /\ \A p \in Position : Precedes(Start, p)
<1>1. ASSUME NEW p \in Position, NEW q \in Position, p[1] = q[1], p[2] = q[2]
      PROVE  p = q
  BY <1>1 DEF Position
<1>2. ASSUME NEW p \in Position
      PROVE  p[1] \in 1..4 /\ p[2] \in Int /\ p[2] >= 1
  BY ConstantsAssumption DEF Position, Slot
<1> QED
  BY <1>1, <1>2 DEF Precedes, Start

-----------------------------------------------------------------------------
(* The steps of the loop keep what the edges want.                         *)

\* Layers and depths are integers.
LEMMA LayerNumbers ==
  ASSUME SoundInv, NEW layer \in Layering
  PROVE  /\ EffectiveDepth \in Int
         /\ \A a \in Address : layer[a] \in Int /\ layer[a] <= EffectiveDepth
         /\ \A i \in 1..Len(pending) :
              /\ pending[i].update.address \in Address
              /\ At(layer, i) \in Int /\ pending[i].depth \in Int
         /\ Len(pending) \in Nat
         /\ current \in Work => current.address \in Address /\ current.depth \in Nat
<1>1. EffectiveDepth \in Int /\ \A a \in Address : layer[a] \in Int /\ layer[a] <= EffectiveDepth
  BY DepthIsNat DEF Layering
<1>2. /\ Len(pending) \in Nat
      /\ \A i \in 1..Len(pending) :
           pending[i].update.address \in Address /\ pending[i].depth \in Nat
  BY StackElements DEF SoundInv, TypeInv
<1> QED
  BY <1>1, <1>2 DEF At, Work

\* A request starts at rest, at a row no edge leads to.
LEMMA AcceptSettles ==
  ASSUME NEW layer \in Layering, SettlingInv(layer), NEW u \in Request, Accept(u), SoundInv'
  PROVE  SettlingInv(layer)'
<1>1. /\ rows' = rows /\ edges' = edges /\ phase = "idle" /\ phase' = "apply"
      /\ pending' = <<[update |-> u, depth |-> EffectiveDepth]>> /\ cursor' = cursor
  BY DEF Accept, store
<1>2. pending = <<>> /\ cursor = Start
  BY <1>1 DEF SettlingInv, SoundInv, TypeInv, LoopOK, CurrentLayered
<1>3. /\ Len(pending') = 1 /\ pending'[1].update = u /\ pending'[1].depth = EffectiveDepth
      /\ \A i \in 1..Len(pending') : i = 1
  BY <1>1
<1>4. u.address \in Address
  BY ConstantsAssumption DEF Update
<1>5. layer[u.address] \in Int /\ layer[u.address] >= 0 /\ EffectiveDepth \in Int
  BY <1>4, DepthIsNat DEF Layering
<1>6. StackLayered(layer)'
  BY <1>1, <1>3, <1>5 DEF StackLayered, At
<1>7. CurrentLayered(layer)'
  BY <1>1, <1>2 DEF CurrentLayered
<1>8. Layered(edges, layer, Request)
  BY DEF SettlingInv
<1>9. Agreed'
  <2>1. \A s \in Slot : edges'[s] # None => edges'[s].target # u.address
    BY <1>1, <1>8 DEF Layered
  <2> QED
    BY <1>3, <2>1 DEF Agreed
<1>10. Kept'
  <2> SUFFICES ASSUME NEW s \in Slot, edges'[s] # None, Due(edges[s])'
               PROVE  Done(edges[s])'
    BY DEF Kept
  <2>1. PICK e : e = edges[s]
    OBVIOUS
  <2>2. Due(e)' /\ e # None /\ edges'[s] = e
    BY <1>1, <2>1
  <2>3. Due(e)
    BY <1>1, <2>2, DueStays
  <2>4. Done(e)
    BY <1>1, <1>2, <2>1, <2>2, <2>3 DEF SettlingInv, Kept, Owed
  <2>5. Done(e)'
    BY <1>1, <2>4, DueStays
  <2> QED
    BY <2>2, <2>5
<1> QED
  BY <1>1, <1>6, <1>7, <1>8, <1>9, <1>10 DEF SettlingInv

\* What a step that leaves the rows, the edges and the stack alone keeps.
LEMMA SameStack ==
  ASSUME NEW layer \in Layering, SettlingInv(layer), SoundInv',
         rows' = rows, edges' = edges, pending' = pending,
         \A e : Owed(e) => Owed(e)' \/ Done(e)
  PROVE  Agreed' /\ Kept'
<1>1. ASSUME NEW s \in Slot, edges'[s] # None, Due(edges[s])'
      PROVE  /\ edges'[s] = edges[s] /\ Due(edges[s])
             /\ Wanted(edges[s])' = Wanted(edges[s])
             /\ Done(edges[s])' <=> Done(edges[s])
  <2>1. PICK e : e = edges[s] /\ e = edges'[s]
    OBVIOUS
  <2> QED
    BY <1>1, <2>1, DueStays
<1>2. Agreed'
  <2> SUFFICES ASSUME NEW i \in 1..Len(pending'), NEW s \in Slot,
                      edges'[s] # None, edges'[s].target = pending'[i].update.address, Due(edges[s])'
               PROVE  (Named(edges[s], pending[i].update) \in {None, Wanted(edges[s])})'
    BY DEF Agreed
  <2>1. Named(edges[s], pending[i].update) \in {None, Wanted(edges[s])}
    BY <1>1 DEF SettlingInv, Agreed
  <2> QED
    BY <1>1, <2>1 DEF Named
<1>3. Kept'
  <2> SUFFICES ASSUME NEW s \in Slot, edges'[s] # None, Due(edges[s])'
               PROVE  \/ Done(edges[s])'
                      \/ \E i \in 1..Len(pending') : Carries(i, edges[s])'
                      \/ Owed(edges[s])'
    BY DEF Kept
  <2>1. PICK e : e = edges[s] /\ e = edges'[s]
    OBVIOUS
  <2>2. Done(e) \/ (\E i \in 1..Len(pending) : Carries(i, e)) \/ Owed(e)
    BY <1>1, <2>1 DEF SettlingInv, Kept
  <2>3. CASE \E i \in 1..Len(pending) : Carries(i, e)
    <3>1. PICK i \in 1..Len(pending) : Carries(i, e)
      BY <2>3
    <3>2. Wanted(e)' = Wanted(e)
      BY DueStays
    <3>3. i \in 1..Len(pending') /\ Carries(i, e)'
      BY <3>1, <3>2 DEF Carries, Named
    <3> QED
      BY <2>1, <3>3
  <2>4. CASE Done(e) \/ Owed(e)
    <3>1. Done(e)' \/ Owed(e)'
      BY <2>4, DueStays
    <3> QED
      BY <2>1, <3>1
  <2> QED
    BY <2>2, <2>3, <2>4
<1> QED
  BY <1>2, <1>3

\* Taking the snapshot starts the loops over the edges, or finds none to look at.
LEMMA SnapshotSettles ==
  ASSUME NEW layer \in Layering, SettlingInv(layer), Snapshot, SoundInv'
  PROVE  SettlingInv(layer)'
<1>1. /\ rows' = rows /\ edges' = edges /\ pending' = pending /\ phase = "snapshot"
      /\ cursor' = Start /\ cursor = Start /\ current \in Work
      /\ current.row = rows[current.address]
      /\ current.depth >= EffectiveDepth - layer[current.address]
      /\ Layered(edges, layer, Request)
  BY DEF Snapshot, SettlingInv, CurrentLayered, SoundInv, TypeInv, LoopOK
<1>2. CASE Cascades
  <2>1. /\ phase' = "dispatch" /\ current'.address = current.address /\ current'.row = current.row
        /\ current'.depth = current.depth /\ current'.changed = current.changed
    BY <1>1, <1>2 DEF Snapshot, Work
  <2>2. ASSUME NEW e, Owed(e) PROVE Owed(e)'
    <3>1. PICK s \in Slot : Serves(s, e)
      BY <2>2 DEF Owed
    <3>2. PICK f : f = edges[s] /\ f = edges'[s]
      BY <1>1
    <3>3. /\ Due(f)' <=> Due(f)
          /\ Wanted(f)' = Wanted(f) /\ Wanted(e)' = Wanted(e)
      BY <1>1, DueStays
    <3>4. Serves(s, e)'
      BY <1>1, <2>1, <3>1, <3>2, <3>3 DEF Serves, Turn, PassOf
    <3> QED
      BY <2>1, <2>2, <3>4 DEF Owed
  <2>3. Agreed' /\ Kept'
    BY <1>1, <2>2, SameStack
  <2>4. StackLayered(layer)'
    <3>1. \A i \in 1..Len(pending) : At(layer, i)' = At(layer, i)
      BY <1>1 DEF At
    <3>2. layer[current.address] \in Int /\ \A i \in 1..Len(pending) : At(layer, i) \in Int
      BY <1>1, LayerNumbers DEF SettlingInv
    <3> QED
      BY <1>1, <2>1, <3>1, <3>2 DEF SettlingInv, StackLayered
  <2>5. CurrentLayered(layer)'
    BY <1>1, <2>1 DEF CurrentLayered
  <2> QED
    BY <1>1, <2>3, <2>4, <2>5 DEF SettlingInv
<1>3. CASE ~Cascades
  <2>1. phase' \in {"idle", "apply"}
    BY <1>3 DEF Snapshot, Loop
  <2>2. ASSUME NEW e, Owed(e) PROVE FALSE
    <3>1. PICK s \in Slot : Serves(s, e)
      BY <2>2 DEF Owed
    <3>2. /\ layer[edges[s].target] = layer[current.address] + 1
          /\ layer[edges[s].target] <= EffectiveDepth
      BY <1>1, <3>1, EdgeType, LayerNumbers DEF Serves, Layered, SettlingInv
    <3>3. current.depth <= 0
      BY <1>1, <1>3, <2>2, LayerNumbers DEF Cascades, Owed, SettlingInv
    <3> QED
      BY <1>1, <3>2, <3>3, LayerNumbers DEF SettlingInv
  <2>3. Agreed' /\ Kept'
    BY <1>1, <2>2, SameStack
  <2>4. StackLayered(layer)'
    BY <1>1, <2>1 DEF SettlingInv, StackLayered, At
  <2>5. CurrentLayered(layer)'
    BY <1>1, <2>1 DEF CurrentLayered
  <2> QED
    BY <1>1, <2>3, <2>4, <2>5 DEF SettlingInv
<1> QED
  BY <1>2, <1>3

\* When no edge of the current row has anything left to propose, all it wants
\* is there.
LEMMA DispatchedSettles ==
  ASSUME NEW layer \in Layering, SettlingInv(layer), Dispatched, SoundInv'
  PROVE  SettlingInv(layer)'
<1>1. /\ rows' = rows /\ edges' = edges /\ pending' = pending /\ phase = "dispatch"
      /\ phase' \in {"idle", "apply"} /\ cursor' = Start /\ current \in Work
      /\ current.row = rows[current.address]
      /\ SoundInv /\ Layered(edges, layer, Request)
      /\ \A q \in Position : Precedes(cursor, q) => Proposal(q) = {}
  BY DEF Dispatched, Loop, store, SettlingInv, CurrentLayered, SoundInv, TypeInv, LoopOK
<1>2. ASSUME NEW e, Owed(e) PROVE Done(e)
  <2>1. PICK s \in Slot : Serves(s, e)
    BY <1>2 DEF Owed
  <2>2. edges[s].predicate.kind = "propagate" => "Status" \in current.changed
    BY <1>2, <2>1 DEF Owed, Serves
  <2>3. Turn(s) \in Position /\ (Done(edges[s]) \/ Proposal(Turn(s)) # {})
    BY <1>1, <2>1, <2>2, ProposalsServe DEF Serves
  <2>4. Done(edges[s])
    BY <1>1, <2>1, <2>3 DEF Serves
  <2> QED
    BY <2>1, <2>4 DEF Serves, Done, Named
<1>3. Agreed' /\ Kept'
  BY <1>1, <1>2, SameStack
<1>4. StackLayered(layer)'
  BY <1>1 DEF SettlingInv, StackLayered, At
<1>5. CurrentLayered(layer)'
  BY <1>1 DEF CurrentLayered
<1> QED
  BY <1>1, <1>3, <1>4, <1>5 DEF SettlingInv

\* A push keeps the stack layered and in agreement; what was owed at the edge
\* is now on the stack, what was owed later still is.
LEMMA PushSettles ==
  ASSUME NEW layer \in Layering, SettlingInv(layer), Push, SoundInv'
  PROVE  SettlingInv(layer)'
<1>1. /\ rows' = rows /\ edges' = edges /\ phase = "dispatch" /\ phase' = phase
      /\ current' = current /\ current \in Work /\ current.row = rows[current.address]
      /\ current.depth >= EffectiveDepth - layer[current.address]
      /\ SoundInv /\ Layered(edges, layer, Request) /\ StackLayered(layer)
  BY DEF Push, store, SettlingInv, CurrentLayered, SoundInv, TypeInv, LoopOK
<1>2. PICK p \in Position :
        /\ \A q \in Position : Precedes(cursor, q) /\ Precedes(q, p) => Proposal(q) = {}
        /\ \E u \in Proposal(p) : pending' = Append(pending, OneHopDeeper(u))
        /\ cursor' = p
  BY DEF Push
<1>3. PICK u \in Proposal(p) : pending' = Append(pending, OneHopDeeper(u))
  BY <1>2
<1>4. u \in Update /\ u.entity = Daemon /\ u.address \in Address
  BY <1>1, ProposalType DEF SoundInv, TypeInv, Update
<1>5. OneHopDeeper(u).update = u /\ OneHopDeeper(u).depth = current.depth - 1
  BY DEF OneHopDeeper
<1>a. PICK n : n = Len(pending)
  OBVIOUS
<1>6. /\ n \in Nat /\ Len(pending') = n + 1
      /\ \A i \in 1..n : pending'[i] = pending[i]
      /\ pending'[n + 1] = OneHopDeeper(u)
  <2>1. pending \in Seq(Pending) /\ OneHopDeeper(u) \in Pending
    BY <1>1, <1>4 DEF SoundInv, TypeInv, TypeOK, OneHopDeeper, Pending, Work, CurrentHasHops
  <2> QED
    BY <1>3, <1>a, <2>1, AppendProperties, LenProperties
<1>7. \A i \in 1..(n + 1) : i \in 1..n \/ i = n + 1
  BY <1>6
<1>8. /\ p[2] \in Slot /\ edges[p[2]] # None
      /\ edges[p[2]].subject = current.address /\ edges[p[2]].target = u.address
  BY ProposalShape, SilentWrites DEF Position
<1>9. layer[u.address] = layer[current.address] + 1
  BY <1>1, <1>8 DEF Layered
<1>10. StackLayered(layer)'
  <2>1. \A i \in 1..n : /\ At(layer, i)' = At(layer, i) /\ At(layer, i) \in Int
                        /\ At(layer, i) <= layer[current.address] + 1
                        /\ pending[i].depth >= EffectiveDepth - At(layer, i)
                        /\ pending[i].update.entity = Daemon
    BY <1>1, <1>6, <1>a, LayerNumbers DEF At, StackLayered
  <2>2. At(layer, n + 1)' = layer[current.address] + 1
    BY <1>5, <1>6, <1>9 DEF At
  <2>3. layer[current.address] \in Int /\ EffectiveDepth \in Int /\ current.depth \in Nat
    BY <1>1, LayerNumbers
  <2>4. current.depth - 1 >= EffectiveDepth - (layer[current.address] + 1)
    BY <1>1, <2>3
  <2>5. \A i, j \in 1..n : i <= j => At(layer, i) <= At(layer, j)
    BY <1>1, <1>a DEF StackLayered
  <2>6. \A i, j \in 1..Len(pending') : i <= j => At(layer, i)' <= At(layer, j)'
    <3> SUFFICES ASSUME NEW i \in 1..Len(pending'), NEW j \in 1..Len(pending'), i <= j
                 PROVE  At(layer, i)' <= At(layer, j)'
      OBVIOUS
    <3>1. CASE j \in 1..n
      <4>1. i \in 1..n
        BY <1>6, <3>1
      <4> QED
        BY <2>1, <2>5, <3>1, <4>1
    <3>2. CASE j = n + 1
      BY <1>6, <1>7, <2>1, <2>2, <2>3, <3>2
    <3> QED
      BY <1>6, <1>7, <3>1, <3>2
  <2>7. ASSUME NEW i \in 1..Len(pending')
        PROVE  /\ pending'[i].depth >= EffectiveDepth - At(layer, i)'
               /\ At(layer, i)' <= layer[current.address] + 1
               /\ pending'[i].update.entity = Daemon
    <3>1. CASE i \in 1..n
      BY <1>6, <2>1, <3>1
    <3>2. CASE i = n + 1
      BY <1>4, <1>5, <1>6, <2>2, <2>3, <2>4, <3>2
    <3> QED
      BY <1>6, <1>7, <3>1, <3>2
  <2> QED
    BY <1>1, <2>6, <2>7 DEF StackLayered
<1>11. CurrentLayered(layer)'
  BY <1>1 DEF CurrentLayered
<1>12. ASSUME NEW s \in Slot, edges'[s] # None, Due(edges[s])'
       PROVE  /\ edges'[s] = edges[s] /\ Due(edges[s])
              /\ Wanted(edges[s])' = Wanted(edges[s])
              /\ Done(edges[s])' <=> Done(edges[s])
  <2>1. PICK e : e = edges[s] /\ e = edges'[s]
    BY <1>1
  <2> QED
    BY <1>1, <1>12, <2>1, DueStays
<1>13. Agreed'
  <2> SUFFICES ASSUME NEW i \in 1..Len(pending'), NEW s \in Slot,
                      edges'[s] # None, edges'[s].target = pending'[i].update.address, Due(edges[s])'
               PROVE  (Named(edges[s], pending[i].update) \in {None, Wanted(edges[s])})'
    BY DEF Agreed
  <2>1. PICK e : e = edges[s] /\ e = edges'[s]
    BY <1>12
  <2>2. Due(e) /\ Wanted(e)' = Wanted(e)
    BY <1>12, <2>1
  <2>3. Named(e, pending'[i].update) \in {None, Wanted(e)}
    <3>1. CASE i \in 1..n
      BY <1>6, <1>a, <2>1, <2>2, <3>1 DEF SettlingInv, Agreed
    <3>2. CASE i = n + 1
      BY <1>1, <1>5, <1>6, <2>1, <2>2, <3>2, ProposalsAgree
    <3> QED
      BY <1>6, <1>7, <3>1, <3>2
  <2>4. (Named(e, pending[i].update) \in {None, Wanted(e)})'
    BY <2>2, <2>3 DEF Named
  <2> QED
    BY <2>1, <2>4
<1>14. Kept'
  <2> SUFFICES ASSUME NEW s \in Slot, edges'[s] # None, Due(edges[s])'
               PROVE  \/ Done(edges[s])'
                      \/ \E i \in 1..Len(pending') : Carries(i, edges[s])'
                      \/ Owed(edges[s])'
    BY DEF Kept
  <2>1. PICK e : e = edges[s] /\ e = edges'[s]
    BY <1>12
  <2>2. Wanted(e)' = Wanted(e) /\ (Done(e)' <=> Done(e))
    BY <1>12, <2>1
  <2>3. Done(e) \/ (\E i \in 1..Len(pending) : Carries(i, e)) \/ Owed(e)
    BY <1>12, <2>1 DEF SettlingInv, Kept
  <2>4. CASE \E i \in 1..n : Carries(i, e)
    <3>1. PICK i \in 1..n : Carries(i, e)
      BY <2>4
    <3>2. i \in 1..Len(pending') /\ Carries(i, e)'
      BY <1>6, <2>2, <3>1 DEF Carries, Named
    <3> QED
      BY <2>1, <3>2
  <2>5. CASE Owed(e)
    <3>1. PICK x \in Slot : Serves(x, e)
      BY <2>5 DEF Owed
    <3>2. edges[x].predicate.kind = "propagate" => "Status" \in current.changed
      BY <2>5, <3>1 DEF Owed, Serves
    <3>3. /\ Turn(x) \in Position
          /\ \/ Done(edges[x])
             \/ /\ Proposal(Turn(x)) # {}
                /\ \A w \in Proposal(Turn(x)) : /\ w.address = edges[x].target
                                                /\ Named(edges[x], w) = Wanted(edges[x])
      BY <1>1, <3>1, <3>2, ProposalsServe DEF Serves
    <3>4. Done(edges[x]) => Done(e)
      BY <3>1 DEF Serves, Done, Named
    <3>5. CASE Precedes(Turn(x), p)
      <4>1. Done(e)
        BY <1>2, <3>1, <3>3, <3>4, <3>5 DEF Serves
      <4> QED
        BY <2>1, <2>2, <4>1
    <3>6. CASE Turn(x) = p
      <4>1. Done(e) \/ (u.address = e.target /\ Named(e, u) = Wanted(e))
        BY <3>1, <3>3, <3>4, <3>6 DEF Serves, Named
      <4>2. CASE Done(e)
        BY <2>1, <2>2, <4>2
      <4>3. CASE u.address = e.target /\ Named(e, u) = Wanted(e)
        <5>1. n + 1 \in 1..Len(pending') /\ Carries(n + 1, e)'
          BY <1>5, <1>6, <2>2, <4>3 DEF Carries, Named
        <5> QED
          BY <2>1, <5>1
      <4> QED
        BY <4>1, <4>2, <4>3
    <3>7. CASE Precedes(p, Turn(x))
      <4>1. PICK f : f = edges[x] /\ f = edges'[x]
        BY <1>1
      <4>2. /\ Due(f)' <=> Due(f)
            /\ Wanted(f)' = Wanted(f)
        BY <1>1, DueStays
      <4>3. Turn(x)' = Turn(x)
        BY <4>1 DEF Turn, PassOf
      <4>4. Serves(x, e)'
        BY <1>1, <1>2, <2>2, <3>1, <3>7, <4>1, <4>2, <4>3 DEF Serves
      <4>5. Owed(e)'
        BY <1>1, <2>5, <4>4 DEF Owed
      <4> QED
        BY <2>1, <4>5
    <3> QED
      BY <3>3, <3>5, <3>6, <3>7, PositionsOrdered
  <2>6. CASE Done(e)
    BY <2>1, <2>2, <2>6
  <2> QED
    BY <1>a, <2>3, <2>4, <2>5, <2>6
<1> QED
  BY <1>1, <1>10, <1>11, <1>13, <1>14 DEF SettlingInv

\* A pop writes what the edges into the row agree on, disturbs nothing else in
\* the row's layer or below, and leaves all that its new columns ask for to the
\* loops that start.
LEMMA ApplySettles ==
  ASSUME NEW layer \in Layering, SettlingInv(layer), Apply, SoundInv'
  PROVE  SettlingInv(layer)'
<1>1. /\ edges' = edges /\ phase = "apply" /\ phase' = "snapshot" /\ cursor' = cursor
      /\ cursor = Start /\ pending # <<>>
      /\ SoundInv /\ TypeOK /\ LoopOK /\ Layered(edges, layer, Request) /\ StackLayered(layer)
  BY DEF Apply, SettlingInv, CurrentLayered, SoundInv, TypeInv, LoopOK
<1>2. PICK n, r, u : n = Len(pending) /\ r = Top.update.address /\ u = Top.update
  OBVIOUS
<1>3. /\ current' \in Work /\ current'.address = r /\ current'.depth = Top.depth
      /\ current'.row = rows'[r]
      /\ \A a \in Address : a # r => rows'[a] = rows[a]
      /\ Len(pending') = n - 1 /\ \A i \in 1..Len(pending') : pending'[i] = pending[i]
  BY <1>1, <1>2, ApplyStep
<1>4. /\ n \in Nat \ {0} /\ n \in 1..n /\ Top = pending[n]
      /\ \A i \in 1..n : i \in 1..(n - 1) \/ i = n
      /\ \A i \in 1..(n - 1) : i \in 1..n
  <2>1. n \in Nat \ {0} /\ Top = pending[n]
    BY <1>1, <1>2, PopType DEF TypeOK, Top
  <2> QED
    BY <2>1
<1>5. /\ r \in Address /\ layer[r] = At(layer, n) /\ layer[r] \in Int /\ EffectiveDepth \in Int
      /\ \A i \in 1..n : At(layer, i) \in Int /\ At(layer, i) <= layer[r]
  <2>1. r = pending[n].update.address
    BY <1>2, <1>4
  <2>2. r \in Address /\ EffectiveDepth \in Int /\ \A i \in 1..n : At(layer, i) \in Int
    BY <1>1, <1>2, <1>4, <2>1, LayerNumbers
  <2>3. layer[r] = At(layer, n)
    BY <2>1 DEF At
  <2>4. \A i \in 1..n : At(layer, i) <= At(layer, n)
    BY <1>1, <1>2, <1>4 DEF StackLayered
  <2> QED
    BY <1>4, <2>2, <2>3, <2>4
<1>6. /\ rows'[r] = Applied(u, rows[r])
      /\ current'.changed = ChangedFields(u, rows[r], rows'[r])
  BY <1>1, <1>2, <1>5 DEF Apply, TypeOK
<1>7. StackLayered(layer)'
  <2>1. \A i \in 1..(n - 1) : At(layer, i)' = At(layer, i) /\ pending'[i] = pending[i]
    BY <1>3 DEF At
  <2>2. \A i \in 1..(n - 1) : pending[i].update.entity = Daemon
    BY <1>1, <1>2, <1>4 DEF StackLayered
  <2>3. /\ \A i, j \in 1..n : i <= j => At(layer, i) <= At(layer, j)
        /\ \A i \in 1..n : pending[i].depth >= EffectiveDepth - At(layer, i)
    BY <1>1, <1>2 DEF StackLayered
  <2>4. \A i, j \in 1..Len(pending') : i <= j => At(layer, i)' <= At(layer, j)'
    BY <1>3, <1>4, <2>1, <2>3
  <2>5. ASSUME NEW i \in 1..Len(pending')
        PROVE  /\ pending'[i].depth >= EffectiveDepth - At(layer, i)'
               /\ At(layer, i)' <= layer[current'.address]
               /\ pending'[i].update.entity = Daemon
    BY <1>3, <1>4, <1>5, <2>1, <2>2, <2>3
  <2> QED
    BY <1>1, <2>4, <2>5 DEF StackLayered
<1>8. CurrentLayered(layer)'
  BY <1>1, <1>2, <1>3, <1>4, <1>5 DEF CurrentLayered, StackLayered
<1>9. ASSUME NEW s \in Slot, edges'[s] # None, layer[edges[s].target] <= layer[r]
      PROVE  /\ Due(edges[s])' <=> Due(edges[s])
             /\ Wanted(edges[s])' = Wanted(edges[s])
  BY <1>1, <1>3, <1>5, <1>9, DueBelow
<1>10. Agreed'
  <2> SUFFICES ASSUME NEW i \in 1..Len(pending'), NEW s \in Slot,
                      edges'[s] # None, edges'[s].target = pending'[i].update.address, Due(edges[s])'
               PROVE  (Named(edges[s], pending[i].update) \in {None, Wanted(edges[s])})'
    BY DEF Agreed
  <2>1. i \in 1..n /\ pending'[i] = pending[i] /\ edges'[s] = edges[s]
    BY <1>1, <1>3, <1>4
  <2>2. layer[edges[s].target] <= layer[r]
    BY <1>5, <2>1 DEF At
  <2>3. Due(edges[s]) /\ Wanted(edges[s])' = Wanted(edges[s])
    BY <1>9, <2>2
  <2>4. Named(edges[s], pending[i].update) \in {None, Wanted(edges[s])}
    BY <1>2, <2>1, <2>3 DEF SettlingInv, Agreed
  <2> QED
    BY <2>1, <2>3, <2>4 DEF Named
<1>11. Kept'
  <2> SUFFICES ASSUME NEW s \in Slot, edges'[s] # None, Due(edges[s])'
               PROVE  \/ Done(edges[s])'
                      \/ \E i \in 1..Len(pending') : Carries(i, edges[s])'
                      \/ Owed(edges[s])'
    BY DEF Kept
  <2>1. PICK e : e = edges[s] /\ e = edges'[s]
    BY <1>1
  <2>2. Due(e)' /\ e # None
    BY <2>1
  <2>3. Due(e) => Done(e) \/ \E i \in 1..n : Carries(i, e)
    BY <1>1, <1>2, <2>1 DEF SettlingInv, Kept, Owed
  <2>4. e.target \in Address /\ layer[e.target] \in Int
    BY <1>1, <2>1, EdgeType, LayerNumbers
  <2>5. CASE layer[e.target] <= layer[r]
    <3>1. Due(e) /\ Wanted(e)' = Wanted(e) /\ Wanted(e) # None
      BY <1>1, <1>9, <2>1, <2>5, WantedType
    <3>2. CASE \E i \in 1..(n - 1) : Carries(i, e)
      <4>1. PICK i \in 1..(n - 1) : Carries(i, e)
        BY <3>2
      <4>2. i \in 1..Len(pending') /\ Carries(i, e)'
        BY <1>3, <3>1, <4>1 DEF Carries, Named
      <4> QED
        BY <2>1, <4>2
    <3>3. CASE Done(e) /\ e.target # r
      <4>1. Done(e)'
        BY <1>3, <2>4, <3>1, <3>3 DEF Done, Named
      <4> QED
        BY <2>1, <4>1
    <3>4. CASE e.target = r /\ (Done(e) \/ Carries(n, e))
      <4>1. Named(e, u) \in {None, Wanted(e)}
        BY <1>2, <1>4, <2>1, <3>1, <3>4 DEF SettlingInv, Agreed
      <4>2. Named(e, rows[r]) = Wanted(e) \/ Named(e, u) = Wanted(e)
        BY <1>2, <1>4, <3>4 DEF Done, Carries
      <4>3. Named(e, rows'[r]) = IF Named(e, u) = None THEN Named(e, rows[r]) ELSE Named(e, u)
        BY <1>6 DEF Named, Applied
      <4>4. Named(e, rows'[r]) = Wanted(e)
        BY <3>1, <4>1, <4>2, <4>3
      <4>5. Done(e)'
        BY <3>1, <3>4, <4>4 DEF Done, Named
      <4> QED
        BY <2>1, <4>5
    <3>5. Carries(n, e) => e.target = r
      BY <1>2, <1>4 DEF Carries
    <3> QED
      BY <1>4, <2>3, <3>1, <3>2, <3>3, <3>4, <3>5
  <2>6. CASE ~(layer[e.target] <= layer[r])
    <3>1. e.target # r /\ \A i \in 1..n : ~Carries(i, e)
      BY <1>5, <2>6 DEF Carries, At
    <3>2. CASE Due(e) /\ Wanted(e)' = Wanted(e)
      <4>1. Done(e)
        BY <2>3, <3>1, <3>2
      <4>2. Done(e)'
        BY <1>3, <2>4, <3>1, <3>2, <4>1 DEF Done, Named
      <4> QED
        BY <2>1, <4>2
    <3>3. CASE ~(Due(e) /\ Wanted(e)' = Wanted(e))
      <4>1. PICK x \in Slot :
              /\ edges[x] # None /\ edges[x].subject = r
              /\ edges[x].target = e.target /\ edges[x].predicate = e.predicate
              /\ Due(edges[x])' /\ Wanted(edges[x])' = Wanted(e)'
              /\ IF e.predicate.kind = "propagate"
                 THEN rows'[r].status # rows[r].status
                 ELSE rows'[r].result # rows[r].result
        BY <1>1, <1>3, <1>5, <2>1, <2>2, <3>3, DueAbove
      <4>2. /\ current'.changed # {}
            /\ e.predicate.kind = "propagate" => "Status" \in current'.changed
        BY <1>6, <4>1, ChangesSeen
      <4>3. Turn(x)' \in Position
        BY DEF Turn, PassOf, Position
      <4>4. Precedes(cursor', Turn(x)')
        BY <1>1, <4>3, PositionsOrdered
      <4>5. Serves(x, e)'
        BY <1>1, <1>3, <4>1, <4>4 DEF Serves, Precedes
      <4>6. Owed(e)'
        BY <1>1, <4>2, <4>5 DEF Owed
      <4> QED
        BY <2>1, <4>6
    <3> QED
      BY <3>2, <3>3
  <2> QED
    BY <2>5, <2>6
<1> QED
  BY <1>1, <1>7, <1>8, <1>10, <1>11 DEF SettlingInv

\* The update that finds no row is the request itself: nothing else is lost.
LEMMA ThrowSettles ==
  ASSUME NEW layer \in Layering, SettlingInv(layer), ThrowMissing, SoundInv'
  PROVE  SettlingInv(layer)'
<1>1. /\ rows' = rows /\ edges' = edges /\ phase = "apply" /\ phase' = "idle"
      /\ pending' = <<>> /\ cursor' = Start /\ pending # <<>>
      /\ SoundInv /\ TypeOK /\ Layered(edges, layer, Request) /\ StackLayered(layer)
      /\ ~Exists(Top.update.address)
  BY DEF ThrowMissing, store, SettlingInv, CurrentLayered, SoundInv, TypeInv, LoopOK
<1>2. Len(pending) \in 1..Len(pending) /\ Top = pending[Len(pending)]
  BY <1>1, PopType DEF TypeOK, Top
<1>3. Top.update.entity # Daemon
  BY <1>1, <1>2 DEF SoundInv, PendingSound
<1>4. Len(pending) = 1
  BY <1>1, <1>2, <1>3 DEF StackLayered
<1>5. Len(pending') = 0
  BY <1>1
<1>6. StackLayered(layer)' /\ CurrentLayered(layer)' /\ Agreed'
  BY <1>1, <1>5 DEF StackLayered, CurrentLayered, Agreed
<1>7. Kept'
  <2> SUFFICES ASSUME NEW s \in Slot, edges'[s] # None, Due(edges[s])'
               PROVE  Done(edges[s])'
    BY DEF Kept
  <2>1. PICK e : e = edges[s] /\ e = edges'[s]
    BY <1>1
  <2>2. Due(e) /\ (Done(e)' <=> Done(e))
    BY <1>1, <2>1, DueStays
  <2>3. Exists(e.target)
    BY <1>1, <2>1 DEF SoundInv, EdgesResolve
  <2>4. \A i \in 1..Len(pending) : ~Carries(i, e)
    BY <1>1, <1>2, <1>4, <2>3 DEF Carries
  <2>5. Done(e)
    BY <1>1, <2>1, <2>2, <2>4 DEF SettlingInv, Kept, Owed
  <2> QED
    BY <2>1, <2>2, <2>5
<1> QED
  BY <1>1, <1>6, <1>7 DEF SettlingInv

\* The passing of time changes nothing that is wanted.
LEMMA RestSettles ==
  ASSUME NEW layer \in Layering, SettlingInv(layer), SoundInv',
         UNCHANGED <<rows, edges, phase, pending, current, cursor>>
  PROVE  SettlingInv(layer)'
<1>1. ASSUME NEW e, Owed(e) PROVE Owed(e)'
  <2>1. PICK s \in Slot : Serves(s, e)
    BY <1>1 DEF Owed
  <2>2. PICK f : f = edges[s] /\ f = edges'[s]
    OBVIOUS
  <2>3. /\ Due(f)' <=> Due(f)
        /\ Wanted(f)' = Wanted(f) /\ Wanted(e)' = Wanted(e)
    BY DueStays
  <2>4. Serves(s, e)'
    BY <2>1, <2>2, <2>3 DEF Serves, Turn, PassOf
  <2> QED
    BY <1>1, <2>4 DEF Owed
<1>2. Agreed' /\ Kept'
  BY <1>1, SameStack
<1>3. StackLayered(layer)' /\ CurrentLayered(layer)' /\ Layered(edges, layer, Request)'
  BY DEF SettlingInv, StackLayered, CurrentLayered, At
<1> QED
  BY <1>2, <1>3 DEF SettlingInv

\* No crash, no failing statement, and nobody but the requests changes the store.
LEMMA StepSettles ==
  ASSUME MaxFaults = 0, NewEdge = {}, Instance = {},
         NEW layer \in Layering, SettlingInv(layer), [Next]_vars
  PROVE  SettlingInv(layer)'
<1>1. SoundInv'
  BY NextSound DEF SettlingInv
<1>2. ~Interrupt
  BY DEF Interrupt, SettlingInv, SoundInv, TypeInv, TypeOK
<1>3. CASE \E u \in Request : Accept(u)
  BY <1>1, <1>3, AcceptSettles
<1>4. CASE Cascade
  BY <1>1, <1>4, ApplySettles, ThrowSettles, SnapshotSettles, PushSettles, DispatchedSettles
     DEF Cascade
<1>5. CASE Tick \/ UNCHANGED vars
  <2>1. UNCHANGED <<rows, edges, phase, pending, current, cursor>>
    BY <1>5 DEF Tick, vars, store, loop
  <2> QED
    BY <1>1, <2>1, RestSettles
<1> QED
  BY <1>2, <1>3, <1>4, <1>5 DEF Next

\* A store that is settled at the start has nothing outstanding.
LEMMA InitSettles ==
  ASSUME LayeredFor(InitialStore, Request), Init, SettledAtRest
  PROVE  \E layer \in Layering : SettlingInv(layer)
<1>1. PICK layer \in Layering : Layered(edges, layer, Request)
  BY DEF Init, LayeredFor, Layering
<1>2. SoundInv /\ phase = "idle" /\ pending = <<>> /\ cursor = Start /\ Len(pending) = 0
  BY InitSound DEF Init
<1>3. StackLayered(layer) /\ CurrentLayered(layer) /\ Agreed
  BY <1>2 DEF StackLayered, CurrentLayered, Agreed
<1>4. Kept
  <2> SUFFICES ASSUME NEW s \in Slot, edges[s] # None, Due(edges[s]) PROVE Done(edges[s])
    BY DEF Kept
  <2>1. PICK e : e = edges[s]
    OBVIOUS
  <2>2. Settled(e) /\ Due(e) /\ Exists(e.subject)
    BY <1>2, <2>1 DEF SettledAtRest, SoundInv, EdgesResolve
  <2>3. Done(e)
    BY <2>2, DueKinds DEF Due, Done, Settled, Wanted, Named, AsksComment
  <2> QED
    BY <2>1, <2>3
<1> QED
  BY <1>1, <1>2, <1>3, <1>4 DEF SettlingInv

\* When the loop has run out of updates, what is due is done.
LEMMA SettlingRests ==
  ASSUME NEW layer \in Layering, SettlingInv(layer)
  PROVE  SettledAtRest
<1> SUFFICES ASSUME phase = "idle", NEW s \in Slot, edges[s] # None PROVE Settled(edges[s])
  BY DEF SettledAtRest
<1>1. pending = <<>> /\ Len(pending) = 0
  BY DEF SettlingInv, SoundInv, TypeInv, LoopOK
<1>2. PICK e : e = edges[s]
  OBVIOUS
<1>3. Due(e) => Done(e)
  BY <1>1, <1>2 DEF SettlingInv, Kept, Owed
<1>4. CASE e.predicate.kind = "propagate"
  BY <1>2, <1>3, <1>4 DEF Settled, Due, Done, Wanted, Named, AsksStatus
<1>5. CASE e.predicate.kind = "verify"
  BY <1>2, <1>3, <1>5 DEF Settled, Due, Done, Wanted, Named, AsksStatus
<1>6. CASE e.predicate.kind \notin {"propagate", "verify"}
  BY <1>2, <1>3, <1>6 DEF Settled, Due, Done, Wanted, Named, AsksComment
<1> QED
  BY <1>4, <1>5, <1>6

\* Where no request ends early, on every layered graph whose edges agree, fed at
\* rows nothing leads to and no higher than the chain depth, a store that is settled
\* is settled again whenever ApplyUpdate returns: the proposals computed at push time
\* are not stale when they are popped, no later pop undoes an earlier one, and a gate
\* that the last of its sources opens is passed on by that source.
THEOREM LayeredGraphsSettle ==
  ASSUME MaxFaults = 0, NewEdge = {}, Instance = {}, LayeredFor(InitialStore, Request)
  PROVE  Spec /\ SettledAtRest => []SettledAtRest
<1> DEFINE Inv == \E layer \in Layering : SettlingInv(layer)
<1>1. Init /\ SettledAtRest => Inv
  BY InitSettles
<1>2. Inv /\ [Next]_vars => Inv'
  BY StepSettles
<1>3. Inv => SettledAtRest
  BY SettlingRests
<1> QED
  BY <1>1, <1>2, <1>3, PTL DEF Spec
=============================================================================
