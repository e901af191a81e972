--------------------------- MODULE OAuthStoreProofs ---------------------------
(***************************************************************************)
(* Proofs about OAuthStore, for any number of workers, clients, codes,     *)
(* tokens, clock values, crashes and failing statements: its types, that   *)
(* it implements OneTimeGrants, what follows for rotation, scopes and the  *)
(* bearer check, and the rate limit.                                       *)
(*                                                                         *)
(* The invariant says what each worker may rely on at its place, because   *)
(* the handlers leave the store's mutex between their methods.             *)
(***************************************************************************)
EXTENDS OAuthStore, SequenceTheorems, FiniteSetTheorems, TLAPS

-----------------------------------------------------------------------------
(* The invariant.                                                          *)

\* The places of an open transaction.
Inside == {"consumeCommit", "revoke", "mint"}

Consumed(c) == codes[c] # None /\ codes[c].consumed
Spent(c) == IF Consumed(c) THEN 1 ELSE 0
Spare(p) == saved.tokens[p] # None /\ saved.tokens[p].refreshExpires # None
Unclaimed(g) == \A p \in Pair : origin[p] # g

\* The workers that have a code to mint a pair for.
Owing(c) == {t \in Thread : pc[t] = "issue" /\ Req(t).code = c}

\* What worker t may rely on.
PlaceOK(t) ==
  /\ holder = t <=> pc[t] \in Inside
  /\ pc[t] \in {"session", "insertCode"} => Valid(Req(t))
  /\ pc[t] = "consumeCommit" => codes[Req(t).code] # None /\ ~codes[Req(t).code].consumed
  /\ pc[t] = "issue" => codes[Req(t).code] # None
  /\ pc[t] \in {"revoke", "mint"} => Spare(Req(t).pair) /\ ~saved.tokens[Req(t).pair].revoked
  /\ pc[t] = "mint" => tokens = [saved.tokens EXCEPT ![Req(t).pair].revoked = TRUE]

\* The connection sees what is committed, but for a revocation in progress.
Committed ==
  /\ codes = saved.codes
  /\ (\A t \in Thread : pc[t] # "mint") => tokens = saved.tokens

\* Which pairs came from which grants.
Lineal ==
  /\ \A p \in Pair : origin[p] = None <=> saved.tokens[p] = None
  /\ \A p \in Pair : origin[p] \in Code => codes[origin[p]] # None
  /\ \A p \in Pair : origin[p] \in Pair => Spare(origin[p]) /\ saved.tokens[origin[p]].revoked
  /\ \A p, q \in Pair : origin[p] \in Pair /\ origin[q] = origin[p] => q = p

\* A code pays for the pairs that it gave and for those that workers still owe: one
\* when it is spent, and one for every lapse.
Counted ==
  \A c \in Code :
    /\ IsFiniteSet(Yield(c, origin))
    /\ Cardinality(Yield(c, origin)) + Cardinality(Owing(c)) <= lapses[c] + Spent(c)

Parent(p) == IF origin[p] \in Code THEN codes[origin[p]] ELSE saved.tokens[origin[p]]

Scoped ==
  /\ \A c \in Code : codes[c] # None => codes[c].scope \subseteq ClientScopes[codes[c].client]
  /\ \A p \in Pair : origin[p] # None =>
       saved.tokens[p].client = Parent(p).client /\ saved.tokens[p].scope = Parent(p).scope

GrantInv ==
  /\ \A t \in Thread : PlaceOK(t)
  /\ Committed /\ Lineal /\ Counted /\ RotationIsWhole /\ Scoped

-----------------------------------------------------------------------------
(* Types.                                                                  *)

LEMMA RecentTyped ==
  ASSUME NEW stamps \in Seq(Nat), NEW now \in Nat
  PROVE  Recent(stamps, now) \in Seq(Nat)
<1> DEFINE old == {i \in DOMAIN stamps : \A j \in 1..i : now - stamps[j] > Window}
           n == Cardinality(old)
<1>1. Len(stamps) \in Nat /\ DOMAIN stamps = 1 .. Len(stamps) /\ stamps \in [1 .. Len(stamps) -> Nat]
  BY LenProperties
<1>2. IsFiniteSet(1 .. Len(stamps)) /\ Cardinality(1 .. Len(stamps)) = Len(stamps)
  <2>1. 1 \in Int /\ Len(stamps) \in Int BY <1>1
  <2>2. /\ IsFiniteSet(1 .. Len(stamps))
        /\ Cardinality(1 .. Len(stamps)) = IF 1 > Len(stamps) THEN 0 ELSE Len(stamps) - 1 + 1
    BY ONLY <2>1, FS_Interval
  <2> QED BY <1>1, <2>2
<1>3. old \in SUBSET (1 .. Len(stamps)) BY <1>1
<1>7. Recent(stamps, now) = SubSeq(stamps, n + 1, Len(stamps)) BY DEF Recent
<1> HIDE DEF old
<1>4. n \in Nat BY <1>2, <1>3, FS_Subset, FS_CardinalityType
<1> HIDE DEF n
<1>5. \A i \in n + 1 .. Len(stamps) : stamps[i] \in Nat BY <1>1, <1>4
<1>6. n + 1 \in Int /\ Len(stamps) \in Int BY <1>1, <1>4
<1>8. SubSeq(stamps, n + 1, Len(stamps)) \in Seq(Nat)
  BY <1>5, <1>6, SubSeqProperties
<1> QED BY <1>7, <1>8

\* What a request holds.
LEMMA RequestParts ==
  ASSUME NEW r \in RequestType
  PROVE  /\ r.kind \in Kind /\ r.client \in Client /\ r.redirect \in Redirect
         /\ r.scope \in SUBSET Scope /\ r.code \in Code /\ r.pair \in Pair
         /\ r.session \in Session /\ r.good \in BOOLEAN
BY DEF RequestType

\* A worker that is not idle has a request.
LEMMA HasRequest ==
  ASSUME TypeOK, NEW t \in Thread, pc[t] # "idle"
  PROVE  Req(t) \in RequestType
BY DEF TypeOK, Req

LEMMA RequestedScopeTyped ==
  ASSUME NEW r \in RequestType, r.client \in Registered
  PROVE  RequestedScope(r) \in SUBSET Scope
BY RequestParts, OAuthAssumption DEF RequestedScope

LEMMA ValidClient ==
  ASSUME NEW r, Valid(r)
  PROVE  r.client \in Registered /\ RequestedScope(r) \subseteq ClientScopes[r.client]
BY DEF Valid

\* The names that are drawn are new.
LEMMA DrawnIsNew ==
  /\ NewCodes # {} => Draw(NewCodes) \in Code /\ codes[Draw(NewCodes)] = None
  /\ NewPairs # {} => Draw(NewPairs) \in Pair /\ tokens[Draw(NewPairs)] = None
BY DEF NewCodes, NewPairs, Draw

LEMMA NewTokenTyped ==
  ASSUME NEW client \in Registered, NEW scope \in SUBSET Scope, NEW now \in Nat,
         NEW refresh
  PROVE  /\ NewToken(client, scope, now, refresh) \in TokenRow
         /\ NewToken(client, scope, now, refresh) # None
         /\ NewToken(client, scope, now, refresh).client = client
         /\ NewToken(client, scope, now, refresh).scope = scope
         /\ ~NewToken(client, scope, now, refresh).revoked
         /\ NewToken(client, scope, now, refresh).refreshExpires
              = IF refresh THEN now + RefreshTtl ELSE None
<1> DEFINE expires == IF refresh THEN now + RefreshTtl ELSE None
           row == NewToken(client, scope, now, refresh)
<1>1. expires \in Int \cup {None} /\ now + AccessTtl \in Int BY OAuthAssumption
<1>2. row = [client |-> client, scope |-> scope, accessExpires |-> now + AccessTtl,
             refreshExpires |-> expires, revoked |-> FALSE]
  BY DEF NewToken
<1> HIDE DEF expires
<1>3. row \in TokenRow BY <1>1, <1>2 DEF TokenRow
<1>4. row # None BY <1>3, OAuthAssumption
<1> QED BY <1>2, <1>3, <1>4 DEF expires

\* A row that is used up is a row.
LEMMA UsedUp ==
  /\ \A row \in CodeRow : /\ [row EXCEPT !.consumed = TRUE] \in CodeRow
                          /\ [row EXCEPT !.consumed = TRUE].consumed
                          /\ [row EXCEPT !.consumed = TRUE].scope = row.scope
                          /\ [row EXCEPT !.consumed = TRUE].client = row.client
                          /\ [row EXCEPT !.consumed = TRUE] # None
  /\ \A row \in TokenRow : /\ [row EXCEPT !.revoked = TRUE] \in TokenRow
                           /\ [row EXCEPT !.revoked = TRUE].revoked
                           /\ [row EXCEPT !.revoked = TRUE].scope = row.scope
                           /\ [row EXCEPT !.revoked = TRUE].client = row.client
                           /\ [row EXCEPT !.revoked = TRUE].refreshExpires = row.refreshExpires
                           /\ [row EXCEPT !.revoked = TRUE] # None
BY OAuthAssumption DEF CodeRow, TokenRow

\* The part of the type invariant that is about the tables.
Data == /\ codes \in [Code -> CodeRow \cup {None}]
        /\ tokens \in [Pair -> TokenRow \cup {None}]
        /\ saved \in [codes : [Code -> CodeRow \cup {None}],
                      tokens : [Pair -> TokenRow \cup {None}]]
        /\ holder \in Thread \cup {None}
        /\ origin \in [Pair -> Grant \cup {None}] /\ lapses \in [Code -> Nat]

\* The part about the workers and what they share besides.
Run == /\ config \in Config /\ clock \in Nat
       /\ sessions \in [Session -> Nat \cup {None}]
       /\ buckets \in [Client -> Seq(Nat)] /\ admitted \in [Client -> Seq(Passage)]
       /\ forms \in [{"get", "post"} -> Thread \cup {None}]
       /\ pc \in [Thread -> Places]
       /\ job \in [Thread -> [req : RequestType \cup {None}, now : Nat]]
       /\ \A t \in Thread : pc[t] # "idle" => job[t].req # None
       /\ arrivals \in Nat /\ faults \in Nat

LEMMA TypeParts == TypeOK <=> Data /\ Run
BY DEF TypeOK, Data, Run

\* A worker that goes on keeps the workers typed.
LEMMA GoTyped ==
  ASSUME Run, NEW t \in Thread, NEW place \in Places, pc[t] # "idle",
         Go(t, place), job' = job \/ job' = [job EXCEPT ![t].now = clock]
  PROVE  /\ pc' \in [Thread -> Places]
         /\ job' \in [Thread -> [req : RequestType \cup {None}, now : Nat]]
         /\ \A u \in Thread : pc'[u] # "idle" => job'[u].req # None
         /\ \A u \in Thread : job'[u].req = job[u].req
<1>1. pc' \in [Thread -> Places] /\ \A u \in Thread : pc'[u] # "idle" => pc[u] # "idle"
  BY DEF Run, Go
<1> DEFINE Job == [req : RequestType \cup {None}, now : Nat]
<1>2. ASSUME NEW u \in Thread PROVE job'[u].req = job[u].req /\ job'[u] \in Job
  <2>1. job[u] \in Job /\ clock \in Nat BY DEF Run
  <2>2. job'[u] = job[u] \/ job'[u] = [job[u] EXCEPT !.now = clock]
    BY DEF Run
  <2>3. [job[u] EXCEPT !.now = clock].req = job[u].req /\ [job[u] EXCEPT !.now = clock] \in Job
    BY <2>1
  <2> HIDE DEF Job
  <2> QED BY <2>1, <2>2, <2>3
<1>3. job' \in [Thread -> [req : RequestType \cup {None}, now : Nat]]
  BY <1>2 DEF Run
<1> QED BY <1>1, <1>2, <1>3 DEF Run

-----------------------------------------------------------------------------
(* Steps of the workers.                                                   *)

\* Nobody inside the mutex: nothing is uncommitted.
LEMMA NobodyInside ==
  ASSUME GrantInv, Data, holder = None
  PROVE  /\ \A t \in Thread : pc[t] \notin Inside
         /\ tokens = saved.tokens
<1>1. \A t \in Thread : pc[t] \notin Inside
  BY OAuthAssumption DEF GrantInv, PlaceOK
<1> QED BY <1>1 DEF GrantInv, Committed, Inside

\* The statements that write to one of the committed tables.
LEMMA SavedParts ==
  ASSUME Data
  PROVE  /\ \A f : /\ [saved EXCEPT !.codes = f] = [codes |-> f, tokens |-> saved.tokens]
                   /\ [saved EXCEPT !.tokens = f] = [codes |-> saved.codes, tokens |-> f]
         /\ \A x, row : /\ [saved EXCEPT !.codes[x] = row]
                             = [codes |-> [saved.codes EXCEPT ![x] = row],
                                tokens |-> saved.tokens]
                        /\ [saved EXCEPT !.tokens[x] = row]
                             = [codes |-> saved.codes,
                                tokens |-> [saved.tokens EXCEPT ![x] = row]]
BY DEF Data

\* Counting the pairs of a code and the workers that owe one.
LEMMA CountPairs ==
  ASSUME NEW Y, NEW O, IsFiniteSet(Y), IsFiniteSet(O), NEW k \in Nat, NEW t, NEW p,
         Cardinality(Y) + Cardinality(O) <= k
  PROVE  /\ \A P \in SUBSET O : Cardinality(Y) + Cardinality(P) <= k
         /\ \A P \in SUBSET (O \cup {t}) : Cardinality(Y) + Cardinality(P) <= k + 1
         /\ t \in O => /\ IsFiniteSet(Y \cup {p}) /\ Cardinality(Y) < k
                       /\ Cardinality(Y \cup {p}) + Cardinality(O \ {t}) <= k
<1>1. PICK y, o \in Nat : y = Cardinality(Y) /\ o = Cardinality(O) BY FS_CardinalityType
<1>2. ASSUME NEW P \in SUBSET O PROVE Cardinality(Y) + Cardinality(P) <= k
  <2>1. Cardinality(P) \in Nat /\ Cardinality(P) <= o BY <1>1, FS_Subset, FS_CardinalityType
  <2> QED BY <1>1, <2>1
<1>3. ASSUME NEW P \in SUBSET (O \cup {t}) PROVE Cardinality(Y) + Cardinality(P) <= k + 1
  <2>1. PICK N : N = O \cup {t} OBVIOUS
  <2>2. IsFiniteSet(N) /\ Cardinality(N) = IF t \in O THEN o ELSE o + 1
    BY <1>1, <2>1, FS_AddElement
  <2>3. Cardinality(P) \in Nat /\ Cardinality(P) <= Cardinality(N)
    BY <2>1, <2>2, FS_Subset, FS_CardinalityType
  <2> QED BY <1>1, <2>2, <2>3
<1>4. ASSUME t \in O
      PROVE  /\ IsFiniteSet(Y \cup {p}) /\ Cardinality(Y) < k
             /\ Cardinality(Y \cup {p}) + Cardinality(O \ {t}) <= k
  <2>1. Cardinality(O \ {t}) = o - 1 BY <1>1, <1>4, FS_RemoveElement
  <2>2. /\ IsFiniteSet(Y \cup {p})
        /\ Cardinality(Y \cup {p}) = IF p \in Y THEN y ELSE y + 1
    BY <1>1, FS_AddElement
  <2>3. o >= 1
    <3>1. IsFiniteSet(O \ {t}) /\ Cardinality(O \ {t}) \in Nat
      BY <1>4, FS_RemoveElement, FS_CardinalityType
    <3> QED BY <1>1, <2>1, <3>1
  <2> QED BY <1>1, <2>1, <2>2, <2>3
<1> QED BY <1>2, <1>3, <1>4

\* What is counted of a code is finite.
LEMMA CountTyped ==
  ASSUME Data, NEW c \in Code
  PROVE  IsFiniteSet(Owing(c)) /\ lapses[c] + Spent(c) \in Nat
<1>1. Owing(c) \subseteq Thread /\ IsFiniteSet(Thread) BY OAuthAssumption DEF Owing
<1>2. lapses[c] \in Nat /\ Spent(c) \in Nat BY DEF Data, Spent
<1> QED BY <1>1, <1>2, FS_Subset

\* No worker comes to owe a pair.
LEMMA CountKept ==
  ASSUME Data, Counted, lapses' = lapses,
         \A c \in Code : Yield(c, origin)' = Yield(c, origin) /\ (Consumed(c) <=> Consumed(c)'),
         \A t \in Thread : pc'[t] = "issue" => pc[t] = "issue" /\ Req(t)' = Req(t)
  PROVE  Counted'
<1> SUFFICES ASSUME NEW c \in Code
             PROVE  /\ IsFiniteSet(Yield(c, origin)')
                    /\ Cardinality(Yield(c, origin)') + Cardinality(Owing(c)')
                         <= lapses'[c] + Spent(c)'
  BY DEF Counted
<1>1. Owing(c)' \in SUBSET Owing(c) BY DEF Owing
<1>2. lapses'[c] + Spent(c)' = lapses[c] + Spent(c) BY DEF Spent
<1>3. PICK k \in Nat : k = lapses[c] + Spent(c) BY CountTyped
<1>4. PICK Y, O, P : Y = Yield(c, origin) /\ O = Owing(c) /\ P = Owing(c)' OBVIOUS
<1>5. IsFiniteSet(Y) /\ IsFiniteSet(O) /\ Cardinality(Y) + Cardinality(O) <= k
  BY <1>3, <1>4, CountTyped DEF Counted
<1>6. Cardinality(Y) + Cardinality(P) <= k BY <1>1, <1>4, <1>5, CountPairs
<1> QED BY <1>2, <1>3, <1>4, <1>5, <1>6

\* A worker comes to owe a pair of a code, which pays for it.
LEMMA CountJoins ==
  ASSUME Data, Counted, UNCHANGED origin, NEW t \in Thread, NEW c \in Code,
         \A d \in Code : lapses'[d] + Spent(d)'
                         = IF d = c THEN lapses[d] + Spent(d) + 1 ELSE lapses[d] + Spent(d),
         \A u \in Thread : Req(u)' = Req(u) /\ (u # t /\ pc'[u] = "issue" => pc[u] = "issue"),
         Req(t).code = c
  PROVE  Counted'
<1> SUFFICES ASSUME NEW d \in Code
             PROVE  /\ IsFiniteSet(Yield(d, origin)')
                    /\ Cardinality(Yield(d, origin)') + Cardinality(Owing(d)')
                         <= lapses'[d] + Spent(d)'
  BY DEF Counted
<1>1. PICK k \in Nat : k = lapses[d] + Spent(d) BY CountTyped
<1>2. PICK Y, O, P : Y = Yield(d, origin) /\ O = Owing(d) /\ P = Owing(d)' OBVIOUS
<1>3. IsFiniteSet(Y) /\ IsFiniteSet(O) /\ Cardinality(Y) + Cardinality(O) <= k
  BY <1>1, <1>2, CountTyped DEF Counted
<1>4. Yield(d, origin)' = Y BY <1>2 DEF Yield
<1>5. CASE d = c
  <2>1. P \in SUBSET (O \cup {t}) BY <1>2 DEF Owing
  <2>2. Cardinality(Y) + Cardinality(P) <= k + 1 BY <1>3, <2>1, CountPairs
  <2> QED BY <1>1, <1>2, <1>3, <1>4, <1>5, <2>2
<1>6. CASE d # c
  <2>1. P \in SUBSET O BY <1>2, <1>6 DEF Owing
  <2>2. Cardinality(Y) + Cardinality(P) <= k BY <1>3, <2>1, CountPairs
  <2> QED BY <1>1, <1>2, <1>3, <1>4, <1>6, <2>2
<1> QED BY <1>5, <1>6

\* A worker moves, outside the mutex, and touches no table.
LEMMA Moves ==
  ASSUME Data, GrantInv, NEW t \in Thread, NEW place, UNCHANGED tables,
         pc \in [Thread -> Places], Go(t, place),
         \A u \in Thread : u # t => job'[u].req = job[u].req,
         pc[t] \notin Inside, place \notin Inside \cup {"issue"},
         place \in {"session", "insertCode"} => Valid(Req(t)')
  PROVE  Data' /\ GrantInv'
<1>1. UNCHANGED <<codes, tokens, saved, holder, origin, lapses>> BY DEF tables
<1>2. Data' BY <1>1 DEF Data
<1>3. \A u \in Thread : pc'[u] = "issue" => pc[u] = "issue" /\ Req(u)' = Req(u)
  BY DEF Go, Req
<1>4. ASSUME NEW u \in Thread PROVE PlaceOK(u)'
  <2>1. CASE u = t
    BY <1>1, <2>1 DEF Go, GrantInv, PlaceOK, Inside
  <2>2. CASE u # t
    <3>1. pc'[u] = pc[u] /\ Req(u)' = Req(u) BY <2>2 DEF Go, Req
    <3>2. PlaceOK(u) BY DEF GrantInv
    <3> QED BY <1>1, <3>1, <3>2 DEF PlaceOK, Spare
  <2> QED BY <2>1, <2>2
<1>5. \A u \in Thread : pc'[u] # "mint" => pc[u] # "mint" BY DEF Go, Inside
<1>6. Committed' /\ Lineal' /\ RotationIsWhole' /\ Scoped'
  BY <1>1, <1>5 DEF GrantInv, Committed, Lineal, RotationIsWhole, Scoped, Spare, Parent
<1>7. Counted' BY <1>1, <1>3, CountKept DEF GrantInv, Yield, Consumed
<1> QED BY <1>2, <1>4, <1>6, <1>7 DEF GrantInv

\* A code is for a client and scopes that were validated.
LEMMA NewCodeTyped ==
  ASSUME Data, Run, GrantInv, NEW t \in Thread, IssueAuthorizationCode(t)
  PROVE  /\ NewCode(t) \in CodeRow /\ NewCode(t) # None /\ ~NewCode(t).consumed
         /\ NewCode(t).scope \subseteq ClientScopes[NewCode(t).client]
<1>1. Req(t) \in RequestType /\ job[t].now \in Nat
  BY TypeParts, HasRequest DEF IssueAuthorizationCode, Run
<1>2. Valid(Req(t)) BY DEF IssueAuthorizationCode, GrantInv, PlaceOK
<1>3. Req(t).client \in Registered /\ RequestedScope(Req(t)) \subseteq ClientScopes[Req(t).client]
  BY <1>2, ValidClient
<1>4. RequestedScope(Req(t)) \in SUBSET Scope BY <1>1, <1>3, RequestedScopeTyped
<1>5. NewCode(t) \in CodeRow
  BY <1>1, <1>3, <1>4, RequestParts, OAuthAssumption DEF NewCode, CodeRow
<1> QED BY <1>3, <1>5, OAuthAssumption DEF NewCode

LEMMA IssueAuthorizationCodeKeeps ==
  ASSUME Data, Run, GrantInv, NEW t \in Thread, IssueAuthorizationCode(t)
  PROVE  Data' /\ GrantInv'
<1> DEFINE c == Draw(NewCodes)
           row == NewCode(t)
<1>1. c \in Code /\ codes[c] = None BY DrawnIsNew DEF IssueAuthorizationCode
<1>2. /\ row \in CodeRow /\ row # None /\ ~row.consumed
      /\ row.scope \subseteq ClientScopes[row.client]
  BY NewCodeTyped
<1> HIDE DEF c, row
<1>3. /\ codes' = [codes EXCEPT ![c] = row]
      /\ saved' = [codes |-> [saved.codes EXCEPT ![c] = row], tokens |-> saved.tokens]
      /\ UNCHANGED <<tokens, holder, origin, lapses, job>>
      /\ pc[t] = "insertCode" /\ pc' = [pc EXCEPT ![t] = "answer"] /\ holder = None
  BY SavedParts DEF IssueAuthorizationCode, Go, c, row
<1>4. Data' BY <1>1, <1>2, <1>3 DEF Data
<1>5. \A d \in Code : codes[d] # None => codes'[d] = codes[d] BY <1>1, <1>3 DEF Data
<1>6. ASSUME NEW u \in Thread PROVE PlaceOK(u)'
  <2>1. pc[u] \notin Inside /\ PlaceOK(u) BY <1>3, NobodyInside DEF GrantInv
  <2>2. pc'[u] = pc[u] \/ pc'[u] = "answer" BY <1>3 DEF Run
  <2>3. \A v \in Thread : Req(v)' = Req(v) /\ (pc'[v] = "issue" => pc[v] = "issue")
    BY <1>3 DEF Run, Req
  <2>4. pc[u] = "issue" => Req(u).code \in Code
    BY TypeParts, HasRequest, RequestParts
  <2> QED BY <1>3, <1>5, <2>1, <2>2, <2>3, <2>4 DEF PlaceOK, Inside, Spare
<1>7. Committed' /\ RotationIsWhole'
  BY <1>3, NobodyInside DEF GrantInv, Committed, RotationIsWhole, Inside
<1>8. Lineal'
  BY <1>3, <1>5 DEF GrantInv, Lineal, Spare
<1>10. Counted'
  <2>1. \A d \in Code : Consumed(d) <=> Consumed(d)'
    BY <1>1, <1>2, <1>3 DEF Data, Consumed
  <2>2. \A u \in Thread : pc'[u] = "issue" => pc[u] = "issue" /\ Req(u)' = Req(u)
    BY <1>3 DEF Run, Req
  <2> QED BY <1>3, <2>1, <2>2, CountKept DEF GrantInv, Yield
<1>9. Scoped'
  <2>1. \A d \in Code : codes'[d] # None => codes'[d].scope \subseteq ClientScopes[codes'[d].client]
    BY <1>1, <1>2, <1>3 DEF GrantInv, Scoped, Data
  <2>2. \A p \in Pair : origin[p] # None => Parent(p)' = Parent(p)
    BY <1>3, <1>5 DEF GrantInv, Lineal, Parent
  <2> QED BY <1>3, <2>1, <2>2 DEF GrantInv, Scoped
<1> QED BY <1>4, <1>6, <1>7, <1>8, <1>9, <1>10 DEF GrantInv

\* A worker takes the mutex with a code or a token that it may use.
LEMMA TakesMutex ==
  ASSUME Data, Run, GrantInv, NEW t \in Thread, NEW place \in {"consumeCommit", "revoke"},
         UNCHANGED <<codes, tokens, saved, origin, lapses, job>>, holder = None, holder' = t,
         pc[t] # "idle", Go(t, place),
         place = "consumeCommit" => codes[Req(t).code] # None /\ ~codes[Req(t).code].consumed,
         place = "revoke" => Spare(Req(t).pair) /\ ~saved.tokens[Req(t).pair].revoked
  PROVE  Data' /\ GrantInv'
<1>1. Data' BY DEF Data
<1>2. ASSUME NEW u \in Thread PROVE PlaceOK(u)'
  <2>1. \A v \in Thread : Req(v)' = Req(v) /\ (pc'[v] = "issue" => pc[v] = "issue")
    BY DEF Go, Req, Run
  <2>2. pc[u] \notin Inside /\ PlaceOK(u) BY NobodyInside DEF GrantInv
  <2>3. CASE u = t
    BY <2>1, <2>3 DEF Go, Run, PlaceOK, Inside, Spare
  <2>4. CASE u # t
    BY <2>1, <2>2, <2>4 DEF Go, Run, PlaceOK, Inside, Spare
  <2> QED BY <2>3, <2>4
<1>3. Committed' BY NobodyInside DEF GrantInv, Committed
<1>4. Lineal' /\ RotationIsWhole' /\ Scoped'
  BY DEF GrantInv, Lineal, RotationIsWhole, Scoped, Spare, Parent
<1>5. Counted'
  <2>1. \A v \in Thread : pc'[v] = "issue" => pc[v] = "issue" /\ Req(v)' = Req(v)
    BY DEF Go, Req, Run
  <2> QED BY <2>1, CountKept DEF GrantInv, Yield, Consumed
<1> QED BY <1>1, <1>2, <1>3, <1>4, <1>5 DEF GrantInv

LEMMA ConsumeCommitKeeps ==
  ASSUME Data, Run, GrantInv, NEW t \in Thread, ConsumeCommit(t)
  PROVE  Data' /\ GrantInv'
<1> DEFINE c == Req(t).code
           row == [codes[c] EXCEPT !.consumed = TRUE]
<1>1. c \in Code /\ codes[c] \in CodeRow /\ ~codes[c].consumed /\ holder = t
  BY TypeParts, HasRequest, RequestParts DEF ConsumeCommit, GrantInv, PlaceOK, Data
<1>2. /\ row \in CodeRow /\ row # None /\ row.consumed
      /\ row.scope = codes[c].scope /\ row.client = codes[c].client
  BY <1>1, UsedUp
<1>3. /\ codes' = [codes EXCEPT ![c] = row]
      /\ saved' = [codes |-> codes', tokens |-> saved.tokens]
      /\ UNCHANGED <<tokens, origin, lapses>> /\ holder' = None
      /\ pc[t] = "consumeCommit" /\ pc' = [pc EXCEPT ![t] = "issue"]
      /\ \A u \in Thread : Req(u)' = Req(u)
  <2>1. /\ codes' = [codes EXCEPT ![c].consumed = TRUE]
        /\ saved' = [saved EXCEPT !.codes = codes']
        /\ job' = [job EXCEPT ![t].now = clock]
        /\ UNCHANGED <<tokens, origin, lapses>> /\ holder' = None
        /\ pc[t] = "consumeCommit" /\ pc' = [pc EXCEPT ![t] = "issue"]
    BY DEF ConsumeCommit, GoOn, Go
  <2>2. saved' = [codes |-> codes', tokens |-> saved.tokens] BY <2>1, SavedParts
  <2>3. codes' = [codes EXCEPT ![c] = row] BY <2>1
  <2>4. \A u \in Thread : job'[u].req = job[u].req BY <2>1 DEF Run
  <2> QED BY <2>1, <2>2, <2>3, <2>4 DEF Req
<1> HIDE DEF row
<1>4. Data' BY <1>1, <1>2, <1>3 DEF Data
<1>5. /\ \A d \in Code : codes[d] # None =>
           codes'[d] # None /\ codes'[d].client = codes[d].client /\ codes'[d].scope = codes[d].scope
      /\ \A d \in Code : Spent(d)' = IF d = c THEN Spent(d) + 1 ELSE Spent(d)
  <2>1. codes'[c] = row /\ \A d \in Code : d # c => codes'[d] = codes[d]
    BY <1>1, <1>3 DEF Data
  <2>2. codes[c] # None BY <1>1, OAuthAssumption
  <2> QED BY <1>1, <1>2, <2>1, <2>2 DEF Consumed, Spent
<1>6. Counted'
  <2>1. \A u \in Thread : u # t /\ pc'[u] = "issue" => pc[u] = "issue" BY <1>3 DEF Run
  <2>2. \A d \in Code : lapses'[d] + Spent(d)'
                         = IF d = c THEN lapses[d] + Spent(d) + 1 ELSE lapses[d] + Spent(d)
    <3>1. \A d \in Code : lapses[d] \in Nat /\ Spent(d) \in Nat /\ lapses'[d] = lapses[d]
      BY <1>3 DEF Data, Spent
    <3> QED BY <1>5, <3>1
  <2>3. Req(t).code = c OBVIOUS
  <2> HIDE DEF c
  <2> QED BY ONLY Data, GrantInv, <1>1, <1>3, <2>1, <2>2, <2>3, CountJoins DEF GrantInv
<1>7. \A u \in Thread : u # t => pc[u] \notin Inside /\ PlaceOK(u) /\ pc'[u] = pc[u]
  BY <1>1, <1>3 DEF GrantInv, PlaceOK, Run
<1>9. pc'[t] = "issue" BY <1>3 DEF Run
<1>10. ASSUME NEW u \in Thread PROVE PlaceOK(u)'
  <2>1. CASE u = t
    <3>1. codes'[c] # None BY <1>1, <1>2, <1>3 DEF Data
    <3> QED BY <1>3, <1>9, <2>1, <3>1, OAuthAssumption DEF PlaceOK, Inside
  <2>2. CASE u # t
    <3>1. pc[u] = "issue" => Req(u).code \in Code BY TypeParts, HasRequest, RequestParts
    <3> QED BY <1>3, <1>5, <1>7, <2>2, <3>1, OAuthAssumption DEF PlaceOK, Inside
  <2> QED BY <2>1, <2>2
<1>11. Committed' /\ RotationIsWhole'
  <2>1. tokens = saved.tokens
    BY <1>3, <1>7 DEF GrantInv, Committed, Inside
  <2> QED BY <1>3, <2>1 DEF GrantInv, Committed, RotationIsWhole
<1>12. Lineal'
  BY <1>3, <1>5 DEF GrantInv, Lineal, Spare
<1>13. Scoped'
  <2>1. \A d \in Code : codes'[d] # None => codes[d] # None
    BY <1>1, <1>3, OAuthAssumption DEF Data
  <2>2. \A p \in Pair : origin[p] # None =>
           Parent(p)'.client = Parent(p).client /\ Parent(p)'.scope = Parent(p).scope
    BY <1>3, <1>5 DEF GrantInv, Lineal, Parent
  <2> QED BY <1>3, <1>5, <2>1, <2>2 DEF GrantInv, Scoped
<1> QED BY <1>4, <1>6, <1>10, <1>11, <1>12, <1>13 DEF GrantInv

\* A COMMIT that fails unnoticed leaves the code as it was, and its worker goes on.
LEMMA ConsumeLapseKeeps ==
  ASSUME Data, Run, GrantInv, NEW t \in Thread, ConsumeLapse(t)
  PROVE  Data' /\ GrantInv'
<1> DEFINE c == Req(t).code
<1>1. c \in Code /\ codes[c] # None /\ holder = t
  BY TypeParts, HasRequest, RequestParts DEF ConsumeLapse, GrantInv, PlaceOK
<1>2. /\ lapses' = [lapses EXCEPT ![c] = lapses[c] + 1]
      /\ UNCHANGED <<codes, tokens, saved, origin>> /\ holder' = None
      /\ pc[t] = "consumeCommit" /\ pc' = [pc EXCEPT ![t] = "issue"]
      /\ \A u \in Thread : Req(u)' = Req(u)
  <2>1. /\ lapses' = [lapses EXCEPT ![c] = lapses[c] + 1]
        /\ UNCHANGED <<codes, tokens, saved, origin>> /\ holder' = None
        /\ pc[t] = "consumeCommit" /\ pc' = [pc EXCEPT ![t] = "issue"]
        /\ job' = [job EXCEPT ![t].now = clock]
    BY <1>1 DEF ConsumeLapse, GoOn, Go, Data
  <2>2. \A u \in Thread : job'[u].req = job[u].req BY <2>1 DEF Run
  <2> QED BY <2>1, <2>2 DEF Req
<1>3. Data'
  <2>1. lapses' \in [Code -> Nat] BY <1>1, <1>2 DEF Data
  <2> QED BY <1>2, <2>1 DEF Data
<1>4. ASSUME NEW u \in Thread PROVE PlaceOK(u)'
  <2>1. CASE u = t
    <3>1. pc'[t] = "issue" BY <1>2 DEF Run
    <3> QED BY <1>1, <1>2, <2>1, <3>1, OAuthAssumption DEF PlaceOK, Inside
  <2>2. CASE u # t
    <3>1. pc[u] \notin Inside /\ PlaceOK(u) /\ pc'[u] = pc[u]
      BY <1>1, <1>2, <2>2 DEF GrantInv, PlaceOK, Run
    <3> QED BY <1>2, <2>2, <3>1, OAuthAssumption DEF PlaceOK, Inside
  <2> QED BY <2>1, <2>2
<1>5. Counted'
  <2>1. \A u \in Thread : u # t /\ pc'[u] = "issue" => pc[u] = "issue" BY <1>2 DEF Run
  <2>2. \A d \in Code : lapses'[d] + Spent(d)'
                         = IF d = c THEN lapses[d] + Spent(d) + 1 ELSE lapses[d] + Spent(d)
    <3>1. \A d \in Code : Spent(d)' = Spent(d) /\ Spent(d) \in Nat /\ lapses[d] \in Nat
      BY <1>2 DEF Data, Spent, Consumed
    <3>2. \A d \in Code : lapses'[d] = IF d = c THEN lapses[d] + 1 ELSE lapses[d]
      BY <1>2 DEF Data
    <3> QED BY <3>1, <3>2
  <2>3. Req(t).code = c OBVIOUS
  <2> HIDE DEF c
  <2> QED BY ONLY Data, GrantInv, <1>1, <1>2, <2>1, <2>2, <2>3, CountJoins DEF GrantInv
<1>6. Committed'
  <2>1. \A u \in Thread : pc[u] # "mint" BY <1>1, <1>2 DEF GrantInv, PlaceOK, Inside
  <2> QED BY <1>2, <2>1 DEF GrantInv, Committed
<1>7. Lineal' /\ RotationIsWhole' /\ Scoped'
  BY <1>2 DEF GrantInv, Lineal, RotationIsWhole, Scoped, Spare, Parent
<1> QED BY <1>3, <1>4, <1>5, <1>6, <1>7 DEF GrantInv

\* Who mints a pair has a grant that gave none, and the pair is new.
LEMMA IssueTokensStep ==
  ASSUME Data, Run, GrantInv, NEW t \in Thread, IssueTokens(t)
  PROVE  \E p \in Pair, row \in TokenRow :
           /\ saved.tokens[p] = None /\ row # None /\ ~row.revoked
           /\ row.client = codes[Req(t).code].client /\ row.scope = codes[Req(t).code].scope
           /\ tokens' = [saved.tokens EXCEPT ![p] = row]
           /\ saved' = [codes |-> saved.codes, tokens |-> tokens']
           /\ origin' = [origin EXCEPT ![p] = Req(t).code]
           /\ UNCHANGED <<codes, holder, lapses, job>> /\ holder = None
           /\ pc[t] = "issue" /\ pc' = [pc EXCEPT ![t] = "granted"]
<1> DEFINE c == Req(t).code
           p == Draw(NewPairs)
           row == NewToken(codes[c].client, codes[c].scope, job[t].now, RefreshIssued)
<1>1. tokens = saved.tokens BY NobodyInside DEF IssueTokens
<1>2. p \in Pair /\ tokens[p] = None BY DrawnIsNew DEF IssueTokens
<1>3. codes[c] \in CodeRow
  BY TypeParts, HasRequest, RequestParts DEF IssueTokens, GrantInv, PlaceOK, Data
<1>4. codes[c].client \in Registered /\ codes[c].scope \in SUBSET Scope BY <1>3 DEF CodeRow
<1>5. job[t].now \in Nat BY DEF Run
<1>6. /\ row \in TokenRow /\ row # None /\ ~row.revoked
      /\ row.client = codes[c].client /\ row.scope = codes[c].scope
  BY <1>4, <1>5, NewTokenTyped
<1> HIDE DEF row, p
<1>7. /\ tokens' = [saved.tokens EXCEPT ![p] = row]
      /\ saved' = [codes |-> saved.codes, tokens |-> tokens']
      /\ origin' = [origin EXCEPT ![p] = c]
      /\ UNCHANGED <<codes, holder, lapses, job>> /\ holder = None
      /\ pc[t] = "issue" /\ pc' = [pc EXCEPT ![t] = "granted"]
  BY <1>1, SavedParts DEF IssueTokens, Go, row, p
<1> QED BY <1>1, <1>2, <1>6, <1>7

LEMMA IssueTokensKeeps ==
  ASSUME Data, Run, GrantInv, NEW t \in Thread, IssueTokens(t)
  PROVE  Data' /\ GrantInv'
<1> DEFINE c == Req(t).code
<1>1. PICK p \in Pair, row \in TokenRow :
           /\ saved.tokens[p] = None /\ row # None /\ ~row.revoked
           /\ row.client = codes[c].client /\ row.scope = codes[c].scope
           /\ tokens' = [saved.tokens EXCEPT ![p] = row]
           /\ saved' = [codes |-> saved.codes, tokens |-> tokens']
           /\ origin' = [origin EXCEPT ![p] = c]
           /\ UNCHANGED <<codes, holder, lapses, job>> /\ holder = None
           /\ pc[t] = "issue" /\ pc' = [pc EXCEPT ![t] = "granted"]
  BY IssueTokensStep
<1>2. c \in Code BY <1>1, TypeParts, HasRequest, RequestParts
<1> HIDE DEF c
<1>3. codes[c] # None BY <1>1 DEF GrantInv, PlaceOK, c
<1>4. Data' BY <1>1, <1>2 DEF Data, Grant
<1>5. /\ \A q \in Pair : saved.tokens[q] # None => saved'.tokens[q] = saved.tokens[q] /\ q # p
      /\ \A q \in Pair : q # p => saved'.tokens[q] = saved.tokens[q] /\ origin'[q] = origin[q]
      /\ saved'.tokens[p] = row /\ origin'[p] = c /\ saved'.codes = saved.codes
      /\ tokens' = saved'.tokens
  BY <1>1 DEF Data
<1>6. ASSUME NEW u \in Thread PROVE PlaceOK(u)'
  <2>1. \A v \in Thread : Req(v)' = Req(v) /\ (pc'[v] = "issue" => pc[v] = "issue" /\ v # t)
    BY <1>1 DEF Req, Run
  <2>2. pc[u] \notin Inside /\ PlaceOK(u) /\ (pc'[u] = pc[u] \/ pc'[u] = "granted")
    BY <1>1, NobodyInside DEF GrantInv, Run
  <2> QED BY <1>1, <2>1, <2>2, OAuthAssumption DEF PlaceOK, Inside
<1>7. Committed' BY <1>1, <1>5 DEF GrantInv, Committed
<1>8. Lineal'
  <2>1. ASSUME NEW q \in Pair
        PROVE  /\ origin'[q] = None <=> saved'.tokens[q] = None
               /\ origin'[q] \in Code => codes'[origin'[q]] # None
               /\ origin'[q] \in Pair => Spare(origin[q])' /\ saved'.tokens[origin'[q]].revoked
    <3>1. CASE q = p
      BY <1>1, <1>2, <1>3, <1>5, <3>1, OAuthAssumption
    <3>2. CASE q # p
      BY <1>1, <1>5, <3>2 DEF GrantInv, Lineal, Spare
    <3> QED BY <3>1, <3>2
  <2>2. \A q, r \in Pair : origin'[q] \in Pair /\ origin'[r] = origin'[q] => r = q
    BY <1>2, <1>5, OAuthAssumption DEF GrantInv, Lineal
  <2> QED BY <2>1, <2>2 DEF Lineal
<1>11. Counted'
  <2>1. origin[p] = None BY <1>1 DEF GrantInv, Lineal
  <2>2. \A d \in Code : Yield(d, origin)' = IF d = c THEN Yield(d, origin) \cup {p} ELSE Yield(d, origin)
    BY <1>2, <1>5, <2>1, OAuthAssumption DEF Yield
  <2>3. \A d \in Code : Owing(d)' = IF d = c THEN Owing(d) \ {t} ELSE Owing(d)
    <3>1. \A u \in Thread : Req(u)' = Req(u) /\ pc'[u] = IF u = t THEN "granted" ELSE pc[u]
      BY <1>1 DEF Req, Run
    <3>2. Req(t).code = c BY DEF c
    <3> QED BY <1>1, <3>1, <3>2 DEF Owing
  <2>4. t \in Owing(c) BY <1>1 DEF Owing, c
  <2> SUFFICES ASSUME NEW d \in Code
               PROVE  /\ IsFiniteSet(Yield(d, origin)')
                      /\ Cardinality(Yield(d, origin)') + Cardinality(Owing(d)')
                           <= lapses'[d] + Spent(d)'
    BY DEF Counted
  <2>5. lapses'[d] + Spent(d)' = lapses[d] + Spent(d) BY <1>1 DEF Spent, Consumed
  <2>6. PICK k \in Nat : k = lapses[d] + Spent(d) BY CountTyped
  <2>7. PICK Y, O : Y = Yield(d, origin) /\ O = Owing(d) OBVIOUS
  <2>8. IsFiniteSet(Y) /\ IsFiniteSet(O) /\ Cardinality(Y) + Cardinality(O) <= k
    BY <2>6, <2>7, CountTyped DEF GrantInv, Counted
  <2>9. CASE d = c
    <3>1. /\ IsFiniteSet(Y \cup {p})
          /\ Cardinality(Y \cup {p}) + Cardinality(O \ {t}) <= k
      BY <2>4, <2>7, <2>8, <2>9, CountPairs
    <3> QED BY <2>2, <2>3, <2>5, <2>6, <2>7, <2>9, <3>1
  <2>10. CASE d # c BY <2>2, <2>3, <2>5, <2>6, <2>7, <2>8, <2>10
  <2> QED BY <2>9, <2>10
<1>9. RotationIsWhole'
  <2> SUFFICES ASSUME NEW q \in Pair, saved'.tokens[q] # None, saved'.tokens[q].revoked
               PROVE  \E r \in Pair : origin'[r] = q
    BY DEF RotationIsWhole
  <2>1. q # p BY <1>1, <1>5
  <2>2. PICK r \in Pair : origin[r] = q BY <1>5, <2>1 DEF GrantInv, RotationIsWhole
  <2>3. r # p BY <1>1, <2>2, OAuthAssumption DEF GrantInv, Lineal
  <2> QED BY <1>5, <2>2, <2>3
<1>10. Scoped'
  <2>1. Parent(p)' = codes[c] BY <1>1, <1>2, <1>5 DEF Parent
  <2>2. ASSUME NEW q \in Pair, q # p, origin[q] # None
        PROVE  Parent(q)' = Parent(q) /\ saved'.tokens[q] = saved.tokens[q] /\ origin'[q] = origin[q]
    <3>1. origin[q] \in Code \/ origin[q] \in Pair BY <2>2 DEF Data, Grant
    <3> QED BY <1>1, <1>5, <2>2, <3>1 DEF GrantInv, Lineal, Spare, Parent
  <2>3. \A q \in Pair : origin'[q] # None =>
          saved'.tokens[q].client = Parent(q)'.client /\ saved'.tokens[q].scope = Parent(q)'.scope
    BY <1>1, <1>5, <2>1, <2>2 DEF GrantInv, Scoped
  <2> QED BY <1>1, <2>3 DEF GrantInv, Scoped
<1> QED BY <1>4, <1>6, <1>7, <1>8, <1>9, <1>10, <1>11 DEF GrantInv

\* Only the worker inside the mutex is at a place of an open transaction.
LEMMA OnlyInside ==
  ASSUME GrantInv, NEW t \in Thread, holder = t
  PROVE  \A u \in Thread : u # t => pc[u] \notin Inside
BY DEF GrantInv, PlaceOK

LEMMA RevokeKeeps ==
  ASSUME Data, Run, GrantInv, NEW t \in Thread, Revoke(t)
  PROVE  Data' /\ GrantInv'
<1> DEFINE old == Req(t).pair
           row == [tokens[old] EXCEPT !.revoked = TRUE]
<1>1. /\ holder = t /\ pc[t] = "revoke" /\ pc' = [pc EXCEPT ![t] = "mint"]
      /\ tokens' = [tokens EXCEPT ![old].revoked = TRUE]
      /\ UNCHANGED <<codes, saved, holder, origin, lapses, job>>
  BY DEF Revoke, Go
<1>2. \A u \in Thread : u # t => pc[u] \notin Inside BY <1>1, OnlyInside
<1>3. tokens = saved.tokens BY <1>1, <1>2 DEF GrantInv, Committed, Inside
<1>4. old \in Pair /\ Spare(old) /\ ~saved.tokens[old].revoked
  BY <1>1, TypeParts, HasRequest, RequestParts DEF GrantInv, PlaceOK
<1>5. tokens[old] \in TokenRow BY <1>3, <1>4 DEF Data, Spare
<1>6. row \in TokenRow BY <1>5, UsedUp
<1>7. tokens' = [tokens EXCEPT ![old] = row] BY <1>1
<1> HIDE DEF row
<1>8. Data' BY <1>1, <1>4, <1>6, <1>7 DEF Data
<1>9. ASSUME NEW u \in Thread PROVE PlaceOK(u)'
  <2>1. \A v \in Thread : Req(v)' = Req(v) /\ (pc'[v] = "issue" => pc[v] = "issue")
    BY <1>1 DEF Req, Run
  <2>2. PlaceOK(u) BY DEF GrantInv
  <2>3. CASE u = t
    BY <1>1, <1>3, <1>4, <2>1, <2>3 DEF Run, PlaceOK, Inside, Spare
  <2>4. CASE u # t
    BY <1>1, <1>2, <2>1, <2>2, <2>4 DEF Run, PlaceOK, Inside, Spare
  <2> QED BY <2>3, <2>4
<1>10. Committed' BY <1>1 DEF Run, GrantInv, Committed
<1>11. Lineal' /\ RotationIsWhole' /\ Scoped'
  BY <1>1 DEF GrantInv, Lineal, RotationIsWhole, Scoped, Spare, Parent
<1>12. Counted'
  <2>1. \A u \in Thread : pc'[u] = "issue" => pc[u] = "issue" /\ Req(u)' = Req(u)
    BY <1>1 DEF Req, Run
  <2> QED BY <1>1, <2>1, CountKept DEF GrantInv, Yield, Consumed
<1> QED BY <1>8, <1>9, <1>10, <1>11, <1>12 DEF GrantInv

LEMMA RotateCommitStep ==
  ASSUME Data, Run, GrantInv, NEW t \in Thread, RotateCommit(t)
  PROVE  \E p \in Pair, row \in TokenRow :
           LET old == Req(t).pair
           IN /\ p # old /\ saved.tokens[p] = None /\ row # None /\ ~row.revoked
              /\ old \in Pair /\ Spare(old) /\ ~saved.tokens[old].revoked
              /\ row.refreshExpires # None
              /\ row.client = saved.tokens[old].client /\ row.scope = saved.tokens[old].scope
              /\ tokens' = [saved.tokens EXCEPT ![old].revoked = TRUE, ![p] = row]
              /\ saved' = [codes |-> saved.codes, tokens |-> tokens']
              /\ origin' = [origin EXCEPT ![p] = old]
              /\ UNCHANGED <<codes, lapses, job>> /\ holder = t /\ holder' = None
              /\ pc[t] = "mint" /\ pc' = [pc EXCEPT ![t] = "granted"]
<1> DEFINE old == Req(t).pair
           p == Draw(NewPairs)
           row == NewToken(tokens[old].client, tokens[old].scope, job[t].now, TRUE)
<1>1. /\ old \in Pair /\ Spare(old) /\ ~saved.tokens[old].revoked
      /\ tokens = [saved.tokens EXCEPT ![old].revoked = TRUE]
  BY TypeParts, HasRequest, RequestParts DEF RotateCommit, GrantInv, PlaceOK
<1>2. p \in Pair /\ tokens[p] = None BY DrawnIsNew DEF RotateCommit
<1>3. saved.tokens[old] \in TokenRow BY <1>1 DEF Data, Spare
<1>4. /\ tokens[old] \in TokenRow /\ tokens[old] # None
      /\ tokens[old].client = saved.tokens[old].client
      /\ tokens[old].scope = saved.tokens[old].scope
  <2>1. tokens[old] = [saved.tokens[old] EXCEPT !.revoked = TRUE] BY <1>1 DEF Data
  <2> QED BY <1>3, <2>1, UsedUp
<1>5. p # old /\ saved.tokens[p] = None BY <1>1, <1>2, <1>4 DEF Data
<1>6. tokens[old].client \in Registered /\ tokens[old].scope \in SUBSET Scope
  BY <1>4 DEF TokenRow
<1>7. job[t].now \in Nat BY DEF Run
<1>8. /\ row \in TokenRow /\ row # None /\ ~row.revoked
      /\ row.client = tokens[old].client /\ row.scope = tokens[old].scope
  <2> DEFINE yes == TRUE
  <2> HIDE DEF yes
  <2>1. NewToken(tokens[old].client, tokens[old].scope, job[t].now, yes) = row BY DEF yes
  <2> HIDE DEF row
  <2> QED BY <1>6, <1>7, <2>1, NewTokenTyped
<1>9. row.refreshExpires # None
  <2>1. row.refreshExpires = job[t].now + RefreshTtl BY DEF NewToken
  <2>2. job[t].now + RefreshTtl \in Int BY <1>7, OAuthAssumption
  <2> QED BY <2>1, <2>2, OAuthAssumption
<1> HIDE DEF row, p
<1>10. /\ tokens' = [tokens EXCEPT ![p] = row]
       /\ saved' = [saved EXCEPT !.tokens = tokens']
       /\ origin' = [origin EXCEPT ![p] = old]
       /\ UNCHANGED <<codes, lapses, job>> /\ holder = t /\ holder' = None
       /\ pc[t] = "mint" /\ pc' = [pc EXCEPT ![t] = "granted"]
  BY DEF RotateCommit, Go, row, p
<1>11. tokens' = [saved.tokens EXCEPT ![old].revoked = TRUE, ![p] = row] BY <1>1, <1>10
<1>12. saved' = [codes |-> saved.codes, tokens |-> tokens'] BY <1>10, SavedParts
<1> QED BY <1>1, <1>2, <1>4, <1>5, <1>8, <1>9, <1>10, <1>11, <1>12

LEMMA RotateCommitKeeps ==
  ASSUME Data, Run, GrantInv, NEW t \in Thread, RotateCommit(t)
  PROVE  Data' /\ GrantInv'
<1> DEFINE old == Req(t).pair
<1>1. PICK p \in Pair, row \in TokenRow :
         /\ p # old /\ saved.tokens[p] = None /\ row # None /\ ~row.revoked
         /\ old \in Pair /\ Spare(old) /\ ~saved.tokens[old].revoked
         /\ row.refreshExpires # None
         /\ row.client = saved.tokens[old].client /\ row.scope = saved.tokens[old].scope
         /\ tokens' = [saved.tokens EXCEPT ![old].revoked = TRUE, ![p] = row]
         /\ saved' = [codes |-> saved.codes, tokens |-> tokens']
         /\ origin' = [origin EXCEPT ![p] = old]
         /\ UNCHANGED <<codes, lapses, job>> /\ holder = t /\ holder' = None
         /\ pc[t] = "mint" /\ pc' = [pc EXCEPT ![t] = "granted"]
  BY RotateCommitStep
<1> HIDE DEF old
<1>2. saved.tokens[old] \in TokenRow BY <1>1 DEF Data, Spare
<1> DEFINE used == [saved.tokens[old] EXCEPT !.revoked = TRUE]
<1>3. /\ used \in TokenRow /\ used # None /\ used.revoked
      /\ used.client = saved.tokens[old].client /\ used.scope = saved.tokens[old].scope
      /\ used.refreshExpires # None
  BY <1>1, <1>2, UsedUp DEF Spare
<1>4. tokens' = [saved.tokens EXCEPT ![old] = used, ![p] = row] BY <1>1 DEF Data
<1> HIDE DEF used
<1>5. Data'
  <2>1. tokens' \in [Pair -> TokenRow \cup {None}] BY <1>1, <1>3, <1>4 DEF Data
  <2>2. origin' \in [Pair -> Grant \cup {None}] BY <1>1 DEF Data, Grant
  <2>3. saved' \in [codes : [Code -> CodeRow \cup {None}],
                    tokens : [Pair -> TokenRow \cup {None}]]
    BY <1>1, <2>1 DEF Data
  <2> QED BY <1>1, <2>1, <2>2, <2>3 DEF Data
<1>6. /\ saved'.tokens = tokens' /\ saved'.codes = saved.codes
      /\ saved'.tokens[p] = row /\ saved'.tokens[old] = used /\ origin'[p] = old
      /\ \A q \in Pair : q # p => origin'[q] = origin[q]
      /\ \A q \in Pair : q # p /\ q # old => saved'.tokens[q] = saved.tokens[q]
      /\ \A q \in Pair : q # p => /\ saved'.tokens[q] = None <=> saved.tokens[q] = None
                                  /\ saved'.tokens[q].client = saved.tokens[q].client
                                  /\ saved'.tokens[q].scope = saved.tokens[q].scope
  <2>1. saved'.tokens = tokens' /\ saved'.codes = saved.codes BY <1>1
  <2>2. /\ tokens'[p] = row /\ tokens'[old] = used
        /\ \A q \in Pair : q # p /\ q # old => tokens'[q] = saved.tokens[q]
    BY <1>1, <1>4 DEF Data
  <2>3. origin'[p] = old /\ \A q \in Pair : q # p => origin'[q] = origin[q] BY <1>1 DEF Data
  <2>4. saved.tokens[old] # None BY <1>1 DEF Spare
  <2>5. ASSUME NEW q \in Pair, q # p
        PROVE  /\ tokens'[q] = None <=> saved.tokens[q] = None
               /\ tokens'[q].client = saved.tokens[q].client
               /\ tokens'[q].scope = saved.tokens[q].scope
    BY <1>3, <2>2, <2>4, <2>5
  <2> QED BY <2>1, <2>2, <2>3, <2>5
<1>7. Unclaimed(old) BY <1>1 DEF GrantInv, Lineal, Unclaimed
<1>8. \A u \in Thread : u # t => pc[u] \notin Inside BY <1>1, OnlyInside
<1>9. ASSUME NEW u \in Thread PROVE PlaceOK(u)'
  <2>1. \A v \in Thread : Req(v)' = Req(v) /\ (pc'[v] = "issue" => pc[v] = "issue")
    BY <1>1 DEF Req, Run
  <2>2. PlaceOK(u) /\ pc'[u] \notin Inside BY <1>1, <1>8 DEF GrantInv, Run, Inside
  <2>3. u # t => pc'[u] = pc[u] BY <1>1 DEF Run
  <2>4. u = t => pc'[u] = "granted" BY <1>1 DEF Run
  <2> QED BY <1>1, <2>1, <2>2, <2>3, <2>4, OAuthAssumption DEF PlaceOK, Inside
<1>10. Committed' BY <1>1, <1>6 DEF GrantInv, Committed
<1>11. Lineal'
  <2>1. ASSUME NEW q \in Pair
        PROVE  /\ origin'[q] = None <=> saved'.tokens[q] = None
               /\ origin'[q] \in Code => codes'[origin'[q]] # None
               /\ origin'[q] \in Pair => Spare(origin[q])' /\ saved'.tokens[origin'[q]].revoked
    <3>1. CASE q = p
      BY <1>1, <1>3, <1>6, <3>1, OAuthAssumption DEF Spare
    <3>2. CASE q # p
      <4>1. origin'[q] = origin[q] /\ (origin[q] = None <=> saved.tokens[q] = None)
        BY <1>6, <3>2 DEF GrantInv, Lineal
      <4>2. origin'[q] \in Code => codes'[origin'[q]] # None
        BY <1>1, <4>1 DEF GrantInv, Lineal
      <4>3. origin[q] \in Pair => /\ origin[q] # p /\ origin[q] # old
                                  /\ Spare(origin[q]) /\ saved.tokens[origin[q]].revoked
        BY <1>1, <1>7 DEF GrantInv, Lineal, Spare, Unclaimed
      <4>4. origin[q] \in Pair => Spare(origin[q])' /\ saved'.tokens[origin'[q]].revoked
        BY <1>6, <4>1, <4>3 DEF Spare
      <4> QED BY <1>6, <3>2, <4>1, <4>2, <4>4
    <3> QED BY <3>1, <3>2
  <2>2. \A q, r \in Pair : origin'[q] \in Pair /\ origin'[r] = origin'[q] => r = q
    BY <1>6, <1>7 DEF GrantInv, Lineal, Unclaimed
  <2> QED BY <2>1, <2>2 DEF Lineal
<1>12. RotationIsWhole'
  <2> SUFFICES ASSUME NEW q \in Pair, saved'.tokens[q] # None, saved'.tokens[q].revoked
               PROVE  \E r \in Pair : origin'[r] = q
    BY DEF RotationIsWhole
  <2>1. q # p BY <1>1, <1>6, ZenonT(60)
  <2>2. CASE q = old BY <1>6, <2>2
  <2>3. CASE q # old
    <3>1. PICK r \in Pair : origin[r] = q BY <1>6, <2>1, <2>3 DEF GrantInv, RotationIsWhole
    <3>2. r # p BY <1>1, <3>1, OAuthAssumption DEF GrantInv, Lineal
    <3> QED BY <1>6, <3>1, <3>2
  <2> QED BY <2>2, <2>3
<1>13. Scoped'
  <2>1. old \notin Code BY <1>1, OAuthAssumption
  <2>2. ASSUME NEW q \in Pair, q # p, origin[q] # None
        PROVE  Parent(q)' = Parent(q)
    <3>1. origin[q] \in Code \/ origin[q] \in Pair BY <2>2 DEF Data, Grant
    <3>2. origin'[q] = origin[q] BY <1>6, <2>2
    <3>3. CASE origin[q] \in Code BY <1>1, <3>2, <3>3 DEF Parent
    <3>4. CASE origin[q] \in Pair
      <4>1. origin[q] # p /\ origin[q] # old
        BY <1>1, <1>7, <3>4 DEF GrantInv, Lineal, Spare, Unclaimed
      <4> QED BY <1>6, <3>2, <3>4, <4>1, OAuthAssumption DEF Parent
    <3> QED BY <3>1, <3>3, <3>4
  <2>3. \A q \in Pair : origin'[q] # None =>
          saved'.tokens[q].client = Parent(q)'.client /\ saved'.tokens[q].scope = Parent(q)'.scope
    <3> SUFFICES ASSUME NEW q \in Pair, origin'[q] # None
                 PROVE  /\ saved'.tokens[q].client = Parent(q)'.client
                        /\ saved'.tokens[q].scope = Parent(q)'.scope
      OBVIOUS
    <3>1. CASE q = p
      <4>1. origin'[q] = old /\ saved'.tokens[q] = row /\ saved'.tokens[old] = used
        BY <1>6, <3>1
      <4>2. Parent(q)' = used BY <2>1, <4>1 DEF Parent
      <4>3. used.client = row.client /\ used.scope = row.scope BY <1>1, <1>3
      <4> QED BY <4>1, <4>2, <4>3
    <3>2. CASE q # p
      <4>1. origin[q] # None BY <1>6, <3>2
      <4>2. /\ saved.tokens[q].client = Parent(q).client
            /\ saved.tokens[q].scope = Parent(q).scope
        BY <4>1 DEF GrantInv, Scoped
      <4> QED BY <1>6, <2>2, <3>2, <4>1, <4>2
    <3> QED BY <3>1, <3>2
  <2> QED BY <1>1, <2>3 DEF GrantInv, Scoped
<1>14. Counted'
  <2>1. origin[p] = None BY <1>1 DEF GrantInv, Lineal
  <2>2. old \notin Code /\ None \notin Code BY <1>1, OAuthAssumption
  <2>3. \A d \in Code : Yield(d, origin)' = Yield(d, origin)
    BY <1>6, <2>1, <2>2 DEF Yield
  <2>4. \A u \in Thread : pc'[u] = "issue" => pc[u] = "issue" /\ Req(u)' = Req(u)
    BY <1>1 DEF Req, Run
  <2> QED BY <1>1, <2>3, <2>4, CountKept DEF GrantInv, Consumed
<1> QED BY <1>5, <1>9, <1>10, <1>11, <1>12, <1>13, <1>14 DEF GrantInv

\* What is not committed is lost, and the mutex is free again.
LEMMA RollbackKeeps ==
  ASSUME Data, Run, GrantInv, codes' = saved.codes, tokens' = saved.tokens, holder' = None,
         UNCHANGED <<saved, origin, lapses>>,
         \A u \in Thread : /\ pc'[u] \notin Inside
                           /\ \/ pc'[u] \notin {"session", "insertCode", "issue"}
                              \/ pc'[u] = pc[u] /\ Req(u)' = Req(u)
  PROVE  Data' /\ GrantInv'
<1>1. codes' = codes BY DEF GrantInv, Committed
<1>2. Data' BY DEF Data
<1>3. ASSUME NEW u \in Thread PROVE PlaceOK(u)'
  <2>1. \A v \in Thread : pc'[v] = "issue" => pc[v] = "issue" /\ Req(v)' = Req(v) OBVIOUS
  <2>2. pc'[u] \in {"session", "insertCode", "issue"} => pc'[u] = pc[u] /\ Req(u)' = Req(u)
    OBVIOUS
  <2>3. PlaceOK(u) BY DEF GrantInv
  <2>4. pc'[u] \in {"session", "insertCode"} => Valid(Req(u)')
    BY <2>2, <2>3 DEF PlaceOK
  <2>5. pc'[u] = "issue" => codes'[Req(u)'.code] # None
    BY <1>1, <2>2, <2>3 DEF PlaceOK
  <2> QED BY <1>1, <2>4, <2>5, OAuthAssumption DEF PlaceOK, Inside
<1>4. Committed' /\ Lineal' /\ RotationIsWhole' /\ Scoped'
  BY <1>1 DEF GrantInv, Committed, Lineal, RotationIsWhole, Scoped, Spare, Parent
<1>5. Counted'
  <2>1. \A v \in Thread : pc'[v] = "issue" => pc[v] = "issue" /\ Req(v)' = Req(v) OBVIOUS
  <2> QED BY <1>1, <2>1, CountKept DEF GrantInv, Yield, Consumed
<1> QED BY <1>2, <1>3, <1>4, <1>5 DEF GrantInv

\* Reading the clock does not change the request.
LEMMA SameRequests ==
  ASSUME Run, NEW t \in Thread, job' = job \/ job' = [job EXCEPT ![t].now = clock]
  PROVE  \A u \in Thread : job'[u].req = job[u].req
<1>1. CASE job' = job BY <1>1
<1>2. CASE job' = [job EXCEPT ![t].now = clock] BY <1>2 DEF Run
<1> QED BY <1>1, <1>2

\* Steps of one worker.
LEMMA WorkerKeeps ==
  ASSUME Data, Run, GrantInv, NEW t \in Thread, Step(t) \/ Arrive(t) \/ Fault(t)
  PROVE  Data' /\ GrantInv'
<1> USE DEF tables
<1>0. pc \in [Thread -> Places] /\ PlaceOK(t) BY DEF Run, GrantInv
<1>1. CASE Arrive(t)
  <2>1. PICK r \in Request : Go(t, FirstPlace(r)) BY <1>1 DEF Arrive
  <2>2. r.kind \in Kind BY OAuthAssumption, RequestParts
  <2>3. FirstPlace(r) \in {"form", "limit", "bearer"} BY <2>2 DEF Kind, FirstPlace
  <2>4. \A u \in Thread : u # t => job'[u].req = job[u].req BY <1>1 DEF Arrive, Run
  <2> QED BY <1>0, <1>1, <2>1, <2>3, <2>4, Moves DEF Arrive, Inside
<1>2. CASE Answer(t)
  <2>1. \A u \in Thread : u # t => job'[u].req = job[u].req BY <1>2 DEF Answer, Run
  <2> QED BY <1>0, <1>2, <2>1, Moves DEF Answer, Inside
<1>3. CASE EnterForm(t)
  BY <1>0, <1>3, Moves DEF EnterForm, Inside
<1>4. CASE Validate(t)
  <2> DEFINE place == AfterValidation(Req(t))
  <2>1. place \in {"answer", "insertCode", "login", "session"}
        /\ (place # "answer" => Valid(Req(t)))
    BY DEF AfterValidation
  <2>2. /\ pc[t] = "validate" /\ Go(t, place)
        /\ job' = job \/ job' = [job EXCEPT ![t].now = clock]
    BY <1>4 DEF Validate, GoOn
  <2> HIDE DEF place
  <2>3. \A u \in Thread : job'[u].req = job[u].req BY <2>2, SameRequests
  <2>4. Req(t)' = Req(t) BY <2>3 DEF Req
  <2>5. place \in {"session", "insertCode"} => Valid(Req(t)') BY <2>1, <2>4
  <2> QED BY <1>0, <1>4, <2>1, <2>2, <2>3, <2>5, Moves DEF Validate, Inside
<1>5. CASE Login(t)
  BY <1>0, <1>5, Moves DEF Login, Inside
<1>6. CASE CheckSession(t)
  <2>1. PICK place \in {"insertCode", "answer"} :
           /\ Go(t, place)
           /\ job' = job \/ job' = [job EXCEPT ![t].now = clock]
    BY <1>6 DEF CheckSession, GoOn
  <2>2. \A u \in Thread : job'[u].req = job[u].req BY <2>1, SameRequests
  <2>3. Req(t)' = Req(t) /\ Valid(Req(t)) BY <1>0, <1>6, <2>2 DEF CheckSession, PlaceOK, Req
  <2>4. Valid(Req(t)') BY <2>3
  <2> QED BY <1>0, <1>6, <2>1, <2>2, <2>4, Moves DEF CheckSession, Inside
<1>7. CASE IssueAuthorizationCode(t) BY <1>7, IssueAuthorizationCodeKeeps
<1>8. CASE Allow(t)
  <2>1. PICK place \in {"client", "answer"} : Go(t, place) BY <1>8 DEF Allow
  <2> QED BY <1>0, <1>8, <2>1, Moves DEF Allow, Inside
<1>9. CASE CheckClient(t)
  <2>1. PICK place \in {"answer", "consume", "rotate"} :
           /\ Go(t, place)
           /\ job' = job \/ job' = [job EXCEPT ![t].now = clock]
    BY <1>9 DEF CheckClient, GoOn
  <2>2. \A u \in Thread : job'[u].req = job[u].req BY <2>1, SameRequests
  <2> QED BY <1>0, <1>9, <2>1, <2>2, Moves DEF CheckClient, Inside
<1>10. CASE ConsumeBegin(t)
  <2>1. CASE Redeemable(Req(t))
    BY <1>10, <2>1, TakesMutex DEF ConsumeBegin, Redeemable
  <2>2. CASE ~Redeemable(Req(t))
    BY <1>0, <1>10, <2>2, Moves DEF ConsumeBegin, Inside
  <2> QED BY <2>1, <2>2
<1>11. CASE ConsumeCommit(t) BY <1>11, ConsumeCommitKeeps
<1>12. CASE IssueTokens(t) BY <1>12, IssueTokensKeeps
<1>13. CASE RotateBegin(t)
  <2>1. CASE Rotatable(Req(t).pair, job[t].now)
    <3>1. tokens = saved.tokens BY <1>13, NobodyInside DEF RotateBegin
    <3>2. Spare(Req(t).pair) /\ ~saved.tokens[Req(t).pair].revoked
      BY <2>1, <3>1 DEF Rotatable, Spare
    <3> QED BY <1>13, <2>1, <3>2, TakesMutex DEF RotateBegin
  <2>2. CASE ~Rotatable(Req(t).pair, job[t].now)
    BY <1>0, <1>13, <2>2, Moves DEF RotateBegin, Inside
  <2> QED BY <2>1, <2>2
<1>14. CASE Revoke(t) BY <1>14, RevokeKeeps
<1>15. CASE RotateCommit(t) BY <1>15, RotateCommitKeeps
<1>16. CASE FindAccessToken(t)
  <2>1. PICK place \in {"handler", "answer"} : Go(t, place) BY <1>16 DEF FindAccessToken
  <2> QED BY <1>0, <1>16, <2>1, Moves DEF FindAccessToken, Inside
<1>17. CASE StatementFails(t) \/ RotateLapse(t)
  <2>1. PICK place \in {"answer", "granted"} :
           /\ codes' = saved.codes /\ tokens' = saved.tokens /\ holder' = None
           /\ UNCHANGED <<saved, origin, lapses, job>> /\ pc' = [pc EXCEPT ![t] = place]
    BY <1>17 DEF StatementFails, RotateLapse, Go, GrantInv, Committed
  <2>2. \A u \in Thread : u # t => pc[u] \notin Inside
    BY <1>17, NobodyInside, OnlyInside DEF StatementFails, RotateLapse
  <2>3. \A u \in Thread : pc'[u] \in {"answer", "granted"} \/ (pc'[u] = pc[u] /\ pc[u] \notin Inside)
    BY <1>0, <2>1, <2>2
  <2>4. \A u \in Thread : Req(u)' = Req(u) BY <2>1 DEF Req
  <2> QED BY <2>1, <2>3, <2>4, RollbackKeeps DEF Inside
<1>18. CASE ConsumeLapse(t) BY <1>18, ConsumeLapseKeeps
<1> QED
  BY <1>1, <1>2, <1>3, <1>4, <1>5, <1>6, <1>7, <1>8, <1>9, <1>10, <1>11, <1>12, <1>13, <1>14,
     <1>15, <1>16, <1>17, <1>18 DEF Step, Fault

LEMMA GrantStep == ASSUME Data, Run, GrantInv, [Next]_vars PROVE Data' /\ GrantInv'
<1>1. CASE \E t \in Thread : Step(t) \/ Arrive(t) \/ Fault(t)
  BY <1>1, WorkerKeeps
<1>2. CASE Crash
  <2>1. \A u \in Thread : pc'[u] = "idle" BY <1>2 DEF Crash
  <2> QED BY <1>2, <2>1, RollbackKeeps DEF Crash, Inside
<1>3. CASE UNCHANGED <<codes, tokens, saved, holder, origin, lapses, pc, job>>
  <2>1. Data' BY <1>3 DEF Data
  <2>2. \A t \in Thread : PlaceOK(t)' BY <1>3 DEF GrantInv, PlaceOK, Spare, Req
  <2>3. Committed' /\ Lineal' /\ RotationIsWhole' /\ Scoped'
    BY <1>3 DEF GrantInv, Committed, Lineal, RotationIsWhole, Scoped, Spare, Parent
  <2>4. Counted' BY <1>3, CountKept DEF GrantInv, Yield, Consumed, Req
  <2> QED BY <2>1, <2>2, <2>3, <2>4 DEF GrantInv
<1>4. CASE Tick \/ UNCHANGED vars BY <1>3, <1>4 DEF Tick, vars, tables
<1> QED BY <1>1, <1>2, <1>4 DEF Next

LEMMA WorkerRuns ==
  ASSUME Data, Run, GrantInv, NEW t \in Thread, Step(t) \/ Arrive(t) \/ Fault(t)
  PROVE  Run'
<1> USE DEF limits, bounds
<1>0. /\ config \in Config /\ clock \in Nat
      /\ sessions \in [Session -> Nat \cup {None}]
      /\ buckets \in [Client -> Seq(Nat)] /\ admitted \in [Client -> Seq(Passage)]
      /\ forms \in [{"get", "post"} -> Thread \cup {None}]
      /\ arrivals \in Nat /\ faults \in Nat
  BY DEF Run
<1>1. ASSUME NEW place \in Places, pc[t] # "idle", Go(t, place),
             job' = job \/ job' = [job EXCEPT ![t].now = clock],
             UNCHANGED <<config, clock>>,
             sessions' \in [Session -> Nat \cup {None}],
             buckets' \in [Client -> Seq(Nat)], admitted' \in [Client -> Seq(Passage)],
             forms' \in [{"get", "post"} -> Thread \cup {None}],
             arrivals' \in Nat, faults' \in Nat
      PROVE  Run'
  BY <1>1, GoTyped DEF Run
<1>2. CASE Arrive(t)
  <2>1. PICK r \in Request, n \in {0, clock} : /\ job' = [job EXCEPT ![t] = [req |-> r, now |-> n]]
                                               /\ Go(t, FirstPlace(r))
    BY <1>2 DEF Arrive
  <2>2. r \in RequestType /\ r # None BY OAuthAssumption
  <2>3. FirstPlace(r) \in Places
    BY <2>2, RequestParts DEF Kind, FirstPlace, Places
  <2>4. job' \in [Thread -> [req : RequestType \cup {None}, now : Nat]]
    <3>1. n \in Nat BY <1>0
    <3> QED BY <2>1, <2>2, <3>1 DEF Run
  <2>5. pc' \in [Thread -> Places] BY <2>1, <2>3 DEF Run, Go
  <2>6. \A u \in Thread : pc'[u] # "idle" => job'[u].req # None
    BY <2>1, <2>2 DEF Run, Go
  <2>7. arrivals' \in Nat BY <1>0, <1>2 DEF Arrive
  <2> QED BY <1>2, <2>4, <2>5, <2>6, <2>7 DEF Arrive, Run
<1>3. CASE Answer(t)
  <2>1. pc' \in [Thread -> Places] BY <1>3 DEF Answer, Run, Go, Places
  <2>2. job' \in [Thread -> [req : RequestType \cup {None}, now : Nat]]
    BY <1>3 DEF Answer, Run, NoJob
  <2>3. \A u \in Thread : pc'[u] # "idle" => job'[u].req # None
    BY <1>3 DEF Answer, Run, Go
  <2>4. forms' \in [{"get", "post"} -> Thread \cup {None}] BY <1>3 DEF Answer, Run
  <2> QED BY <1>3, <2>1, <2>2, <2>3, <2>4 DEF Answer, Run
<1>4. CASE EnterForm(t)
  <2>1. forms' \in [{"get", "post"} -> Thread \cup {None}]
    BY <1>4 DEF EnterForm, Run, Door
  <2> QED BY <1>0, <1>1, <1>4, <2>1 DEF EnterForm, Places
<1>5. CASE Validate(t)
  <2>1. AfterValidation(Req(t)) \in Places BY DEF AfterValidation, Places
  <2> QED BY <1>0, <1>1, <1>5, <2>1 DEF Validate, GoOn
<1>6. CASE Login(t)
  <2>1. sessions' \in [Session -> Nat \cup {None}]
    <3>1. clock + SessionTtl \in Nat BY <1>0, OAuthAssumption
    <3>2. sessions' = sessions \/ sessions' = [sessions EXCEPT ![Req(t).session] = clock + SessionTtl]
      BY <1>6 DEF Login
    <3> QED BY <1>0, <3>1, <3>2
  <2> QED BY <1>0, <1>1, <1>6, <2>1 DEF Login, Places
<1>7. CASE CheckSession(t)
  <2>1. sessions' \in [Session -> Nat \cup {None}] BY <1>0, <1>7 DEF CheckSession
  <2>2. PICK place \in {"insertCode", "answer"} : GoOn(t, place) BY <1>7 DEF CheckSession
  <2> QED BY <1>0, <1>1, <1>7, <2>1, <2>2 DEF CheckSession, GoOn, Places
<1>8. CASE IssueAuthorizationCode(t)
  BY <1>0, <1>1, <1>8 DEF IssueAuthorizationCode, Places
<1>9. CASE Allow(t)
  <2>1. Req(t).client \in Client BY <1>9, TypeParts, HasRequest, RequestParts DEF Allow
  <2> DEFINE c == Req(t).client
         now == job[t].now
  <2>6. now \in Nat BY DEF Run
  <2>2. Recent(buckets[c], now) \in Seq(Nat) BY <1>0, <2>1, <2>6, RecentTyped
  <2>3. /\ Append(Recent(buckets[c], now), now) \in Seq(Nat)
        /\ Append(admitted[c], [asked |-> now, passed |-> clock]) \in Seq(Passage)
    <3>1. [asked |-> now, passed |-> clock] \in Passage BY <1>0, <2>6 DEF Passage
    <3> QED BY <1>0, <2>1, <2>2, <2>6, <3>1, AppendProperties
  <2>4. buckets' \in [Client -> Seq(Nat)] /\ admitted' \in [Client -> Seq(Passage)]
    BY <1>0, <1>9, <2>2, <2>3 DEF Allow
  <2>5. PICK place \in {"client", "answer"} : Go(t, place) BY <1>9 DEF Allow
  <2> QED BY <1>0, <1>1, <1>9, <2>4, <2>5 DEF Allow, Places
<1>10. CASE CheckClient(t)
  <2>1. PICK place \in {"answer", "consume", "rotate"} : GoOn(t, place) BY <1>10 DEF CheckClient
  <2> QED BY <1>0, <1>1, <1>10, <2>1 DEF CheckClient, GoOn, Places
<1>11. CASE ConsumeBegin(t)
  BY <1>0, <1>1, <1>11 DEF ConsumeBegin, Places
<1>12. CASE ConsumeCommit(t)
  BY <1>0, <1>1, <1>12 DEF ConsumeCommit, GoOn, Places
<1>13. CASE IssueTokens(t)
  BY <1>0, <1>1, <1>13 DEF IssueTokens, Places
<1>14. CASE RotateBegin(t)
  BY <1>0, <1>1, <1>14 DEF RotateBegin, Places
<1>15. CASE Revoke(t) \/ RotateCommit(t)
  BY <1>0, <1>1, <1>15 DEF Revoke, RotateCommit, Places
<1>16. CASE FindAccessToken(t)
  <2>1. PICK place \in {"handler", "answer"} : Go(t, place) BY <1>16 DEF FindAccessToken
  <2> QED BY <1>0, <1>1, <1>16, <2>1 DEF FindAccessToken, Places
<1>17. CASE Fault(t)
  <2>1. faults' \in Nat BY <1>0, <1>17 DEF Fault, StatementFails, ConsumeLapse, RotateLapse
  <2>2. PICK place \in {"answer", "granted", "issue"} :
           /\ Go(t, place) /\ pc[t] # "idle"
           /\ job' = job \/ job' = [job EXCEPT ![t].now = clock]
    BY <1>17 DEF Fault, StatementFails, ConsumeLapse, RotateLapse, GoOn
  <2>3. UNCHANGED <<config, clock, sessions, limits, forms, arrivals>>
    BY <1>17 DEF Fault, StatementFails, ConsumeLapse, RotateLapse
  <2> QED BY <1>0, <1>1, <2>1, <2>2, <2>3 DEF Places
<1> QED
  BY <1>2, <1>3, <1>4, <1>5, <1>6, <1>7, <1>8, <1>9, <1>10, <1>11, <1>12, <1>13, <1>14,
     <1>15, <1>16, <1>17 DEF Step

LEMMA RunStep == ASSUME Data, Run, GrantInv, [Next]_vars PROVE Run'
<1>1. CASE \E t \in Thread : Step(t) \/ Arrive(t) \/ Fault(t)
  BY <1>1, WorkerRuns
<1>2. CASE Tick BY <1>2 DEF Tick, Run, limits, bounds
<1>3. CASE Crash
  <2>1. "idle" \in Places /\ <<>> \in Seq(Nat) /\ NoJob \in [req : RequestType \cup {None}, now : Nat]
    BY EmptySeq DEF Places, NoJob
  <2> QED BY <1>3, <2>1 DEF Crash, Run
<1>4. CASE UNCHANGED vars BY <1>4 DEF vars, Run, limits, bounds
<1> QED BY <1>1, <1>2, <1>3, <1>4 DEF Next

LEMMA GrantsInit == Init => Data /\ Run /\ GrantInv
<1> SUFFICES ASSUME Init PROVE Data /\ Run /\ GrantInv
  OBVIOUS
<1>1. Data BY StoredAssumption DEF Init, Data
<1>2. Run
  <2>1. "idle" \in Places /\ <<>> \in Seq(Nat) /\ NoJob \in [req : RequestType \cup {None}, now : Nat]
    BY EmptySeq DEF Places, NoJob
  <2> QED BY <2>1 DEF Init, Run
<1>3. /\ codes = saved.codes /\ tokens = saved.tokens /\ holder = None
      /\ \A t \in Thread : pc[t] = "idle"
      /\ saved.codes = StoredCodes /\ saved.tokens = StoredTokens /\ origin = StoredOrigin
  BY DEF Init
<1>4. \A t \in Thread : PlaceOK(t) BY <1>3, OAuthAssumption DEF PlaceOK, Inside
<1>5. Committed BY <1>3 DEF Committed
<1>6. Lineal /\ RotationIsWhole
  BY <1>3, StoredAssumption DEF Lineal, RotationIsWhole, Spare
<1>7. Scoped BY <1>3, ScopesAssumption DEF Scoped, Parent
<1>8. Counted
  <2> SUFFICES ASSUME NEW c \in Code
               PROVE  /\ IsFiniteSet(Yield(c, origin))
                      /\ Cardinality(Yield(c, origin)) + Cardinality(Owing(c))
                           <= lapses[c] + Spent(c)
    BY DEF Counted
  <2>1. Owing(c) = {} BY <1>3 DEF Owing
  <2>2. Cardinality(Owing(c)) = 0 BY <2>1, FS_EmptySet
  <2>3. /\ IsFiniteSet(Yield(c, origin))
        /\ Cardinality(Yield(c, origin)) <= lapses[c] + Spent(c)
    BY <1>3, StoredAssumption DEF Init, Spent, Consumed
  <2>4. Cardinality(Yield(c, origin)) \in Nat BY <2>3, FS_CardinalityType
  <2> QED BY <2>2, <2>3, <2>4
<1> QED BY <1>1, <1>2, <1>4, <1>5, <1>6, <1>7, <1>8 DEF GrantInv

LEMMA GrantsKept == Spec => [](Data /\ Run /\ GrantInv)
<1>1. Init => Data /\ Run /\ GrantInv BY GrantsInit
<1>2. Data /\ Run /\ GrantInv /\ [Next]_vars => (Data /\ Run /\ GrantInv)'
  BY GrantStep, RunStep
<1> QED BY <1>1, <1>2, PTL DEF Spec

-----------------------------------------------------------------------------
(* Theorems.                                                               *)

\* Whatever requests race, crash or fail, every place, row, stamp and session
\* of the server has its type.
THEOREM OAuthTypeCorrect == Spec => []TypeOK
BY GrantsKept, TypeParts, PTL

\* RotateRefreshToken revokes a refresh token on disk only together with its
\* successor, for any number of workers, crashes and failing statements.
THEOREM RotationNeverHalf == Spec => []RotationIsWhole
<1>1. GrantInv => RotationIsWhole BY DEF GrantInv
<1> QED BY <1>1, GrantsKept, PTL

\* A pair of tokens has the client and scope of the grant it came from, back to
\* a code whose scope its client was allowed to ask for.
THEOREM ScopesAreInherited == Spec => []ScopesNeverGrow
<1>1. Data /\ GrantInv => ScopesNeverGrow
  <2> SUFFICES ASSUME Data, GrantInv PROVE ScopesNeverGrow
    OBVIOUS
  <2>1. ASSUME NEW q \in Pair, saved.tokens[q] # None
        PROVE  tokens[q].client = saved.tokens[q].client /\ tokens[q].scope = saved.tokens[q].scope
    <3>1. CASE \A t \in Thread : pc[t] # "mint" BY <3>1 DEF GrantInv, Committed
    <3>2. ASSUME NEW t \in Thread, pc[t] = "mint"
          PROVE  tokens[q].client = saved.tokens[q].client /\ tokens[q].scope = saved.tokens[q].scope
      <4>1. tokens = [saved.tokens EXCEPT ![Req(t).pair].revoked = TRUE]
        BY <3>2 DEF GrantInv, PlaceOK
      <4>2. saved.tokens[q] \in TokenRow BY <2>1 DEF Data
      <4>3. tokens[q] = saved.tokens[q] \/ tokens[q] = [saved.tokens[q] EXCEPT !.revoked = TRUE]
        BY <4>1 DEF Data
      <4> QED BY <4>2, <4>3, UsedUp
    <3> QED BY <3>1, <3>2
  <2>2. ASSUME NEW p \in Pair, origin[p] # None
        PROVE  LET parent == IF origin[p] \in Code THEN codes[origin[p]] ELSE tokens[origin[p]]
               IN tokens[p].client = parent.client /\ tokens[p].scope = parent.scope
    <3>1. /\ tokens[p].client = saved.tokens[p].client /\ tokens[p].scope = saved.tokens[p].scope
          /\ saved.tokens[p].client = Parent(p).client /\ saved.tokens[p].scope = Parent(p).scope
      BY <2>1, <2>2 DEF GrantInv, Lineal, Scoped
    <3>2. CASE origin[p] \in Code BY <3>1, <3>2 DEF Parent
    <3>3. CASE origin[p] \notin Code
      <4>1. origin[p] \in Pair BY <2>2, <3>3 DEF Data, Grant
      <4>2. saved.tokens[origin[p]] # None BY <4>1 DEF GrantInv, Lineal, Spare
      <4>3. /\ tokens[origin[p]].client = saved.tokens[origin[p]].client
            /\ tokens[origin[p]].scope = saved.tokens[origin[p]].scope
        BY <2>1, <4>1, <4>2
      <4> QED BY <3>1, <3>3, <4>3 DEF Parent
    <3> QED BY <3>2, <3>3
  <2> QED BY <2>2 DEF GrantInv, Scoped, ScopesNeverGrow
<1> QED BY <1>1, GrantsKept, PTL

\* FindAccessToken opens no handler for a pair that was rotated.
THEOREM RotationEndsAccess == Spec => AccessEndsWithRotation
<1>1. Data /\ Run /\ GrantInv /\ [Next]_vars =>
        [\A t \in Thread : pc[t] = "bearer" /\ pc'[t] = "handler"
           => \A q \in Pair : origin[q] # Req(t).pair]_vars
  <2> SUFFICES ASSUME Data, Run, GrantInv, Next,
                      NEW t \in Thread, pc[t] = "bearer", pc'[t] = "handler",
                      NEW q \in Pair
               PROVE  origin[q] # Req(t).pair
    OBVIOUS
  <2>1. FindAccessToken(t)
    <3>1. PICK u \in Thread : Step(u) \/ Arrive(u) \/ Fault(u)
      BY DEF Next, Tick, Crash
    <3>2. ASSUME u # t PROVE pc'[t] = pc[t]
      BY <3>1, <3>2 DEF Step, Arrive, Fault, StatementFails, ConsumeLapse, RotateLapse, Answer,
           EnterForm, Validate, Login,
           CheckSession, IssueAuthorizationCode, Allow, CheckClient, ConsumeBegin, ConsumeCommit,
           IssueTokens, RotateBegin, Revoke, RotateCommit, FindAccessToken, Go, GoOn, Run
    <3>3. u = t BY <3>2
    <3> QED
      BY <3>1, <3>3 DEF Step, Arrive, Fault, StatementFails, ConsumeLapse, RotateLapse, Answer,
           EnterForm, Validate, Login,
           CheckSession, IssueAuthorizationCode, Allow, CheckClient, ConsumeBegin, ConsumeCommit,
           IssueTokens, RotateBegin, Revoke, RotateCommit
  <2>2. tokens[Req(t).pair] # None /\ ~tokens[Req(t).pair].revoked /\ tokens = saved.tokens
    BY <2>1, NobodyInside DEF FindAccessToken, AccessGranted, Go, Run
  <2>3. Req(t).pair \in Pair BY TypeParts, HasRequest, RequestParts
  <2> QED BY <2>2, <2>3 DEF GrantInv, Lineal
<1> QED BY <1>1, GrantsKept, PTL DEF Spec, AccessEndsWithRotation

-----------------------------------------------------------------------------
(* The store implements OneTimeGrants.                                     *)

LEMMA StandingValues ==
  /\ Standing \in [Grant -> {"new", "live", "spent"}]
  /\ \A c \in Code : Standing[c] = StandingOfCode(saved.codes[c])
  /\ \A p \in Pair : Standing[p] = StandingOfPair(saved.tokens[p])
<1>1. \A row : StandingOfCode(row) \in {"new", "live", "spent"} BY DEF StandingOfCode
<1>2. \A row : StandingOfPair(row) \in {"new", "live", "spent"} BY DEF StandingOfPair
<1> QED BY <1>1, <1>2, OAuthAssumption DEF Standing, Grant

\* What a code may have yielded.
LEMMA CodePays ==
  ASSUME Data, GrantInv, NEW c \in Code
  PROVE  OneUse!Allowed(c) = lapses[c] + Spent(c)
<1>1. Standing[c] = "spent" <=> Consumed(c)
  BY StandingValues DEF GrantInv, Committed, Consumed, StandingOfCode
<1>2. lapses[c] \in Nat BY DEF Data
<1> QED BY <1>1, <1>2 DEF OneUse!Allowed, Spent

\* The abstract store counts as this module does.
LEMMA SameCounting ==
  \A S : /\ OneUse!Cardinality(S) = Cardinality(S)
         /\ OneUse!IsFiniteSet(S) <=> IsFiniteSet(S)
BY DEF OneUse!Cardinality, Cardinality, OneUse!IsFiniteSet, IsFiniteSet

\* What the tables say of used grants is what the abstract store requires.
LEMMA GrantsConsistent == Data /\ GrantInv => OneUse!Consistent
<1> SUFFICES ASSUME Data, GrantInv PROVE OneUse!Consistent
  OBVIOUS
<1>1. OneUse!TypeOK
  BY StandingValues DEF OneUse!TypeOK, OneUse!Grant, Grant, Data
<1>2. ASSUME NEW g \in OneUse!Grant
      PROVE  IsFiniteSet(OneUse!Yield(g)) /\ Cardinality(OneUse!Yield(g)) <= OneUse!Allowed(g)
  <2>1. PICK Y : Y = {p \in Pair : origin[p] = g} OBVIOUS
  <2>2. OneUse!Yield(g) = Y BY <2>1 DEF OneUse!Yield
  <2>3. CASE g \in Code
    <3>1. OneUse!Allowed(g) = lapses[g] + Spent(g) BY <2>3, CodePays
    <3>2. Y = Yield(g, origin) BY <2>1 DEF Yield
    <3>3. PICK O : O = Owing(g) OBVIOUS
    <3>4. IsFiniteSet(Y) /\ IsFiniteSet(O) /\ Cardinality(Y) + Cardinality(O) <= lapses[g] + Spent(g)
      BY <2>3, <3>2, <3>3, CountTyped DEF GrantInv, Counted
    <3>5. Cardinality(Y) \in Nat /\ Cardinality(O) \in Nat BY <3>4, FS_CardinalityType
    <3>6. PICK k \in Nat : k = lapses[g] + Spent(g) BY <2>3, CountTyped
    <3>7. Cardinality(Y) <= k BY <3>4, <3>5, <3>6
    <3> QED BY <2>2, <3>1, <3>4, <3>6, <3>7
  <2>4. CASE g \in Pair
    <3>1. g \notin Code BY <2>4, OAuthAssumption
    <3>2. CASE Y = {}
      <4>1. IsFiniteSet(Y) /\ Cardinality(Y) = 0 BY <3>2, FS_EmptySet
      <4> QED BY <2>2, <3>1, <4>1 DEF OneUse!Allowed
    <3>3. CASE Y # {}
      <4>1. PICK p \in Pair : origin[p] = g BY <2>1, <3>3
      <4>2. Y = {p} BY <2>1, <2>4, <4>1 DEF GrantInv, Lineal
      <4>3. IsFiniteSet(Y) /\ Cardinality(Y) = 1 BY <4>2, FS_Singleton
      <4>4. Standing[g] = "spent"
        BY <2>4, <4>1, StandingValues DEF GrantInv, Lineal, Spare, StandingOfPair
      <4> QED BY <2>2, <3>1, <4>3, <4>4 DEF OneUse!Allowed
    <3> QED BY <3>2, <3>3
  <2> QED BY <2>3, <2>4 DEF OneUse!Grant
<1> QED BY <1>1, <1>2, SameCounting DEF OneUse!Consistent

\* One row changes.
LEMMA StandingExcept ==
  ASSUME NEW g \in Grant, NEW s,
         g \in Code => StandingOfCode(saved'.codes[g]) = s,
         g \notin Code => StandingOfPair(saved'.tokens[g]) = s,
         \A c \in Code : c # g => StandingOfCode(saved'.codes[c]) = StandingOfCode(saved.codes[c]),
         \A p \in Pair : p # g => StandingOfPair(saved'.tokens[p]) = StandingOfPair(saved.tokens[p])
  PROVE  Standing' = [Standing EXCEPT ![g] = s]
<1> DEFINE after(x) == IF x \in Code THEN StandingOfCode(saved'.codes[x])
                       ELSE StandingOfPair(saved'.tokens[x])
           before(x) == IF x \in Code THEN StandingOfCode(saved.codes[x])
                        ELSE StandingOfPair(saved.tokens[x])
<1>1. Standing = [x \in Grant |-> before(x)] /\ Standing' = [x \in Grant |-> after(x)]
  BY DEF Standing
<1>2. after(g) = s /\ \A x \in Grant : x # g => after(x) = before(x)
  BY DEF Grant
<1> HIDE DEF after, before
<1> QED BY <1>1, <1>2

\* Two rows change.
LEMMA StandingExcept2 ==
  ASSUME NEW g \in Pair, NEW h \in Pair, g # h, NEW r, NEW s,
         StandingOfPair(saved'.tokens[g]) = r, StandingOfPair(saved'.tokens[h]) = s,
         saved'.codes = saved.codes,
         \A p \in Pair : p # g /\ p # h => saved'.tokens[p] = saved.tokens[p]
  PROVE  Standing' = [Standing EXCEPT ![g] = r, ![h] = s]
<1> DEFINE after(x) == IF x \in Code THEN StandingOfCode(saved'.codes[x])
                       ELSE StandingOfPair(saved'.tokens[x])
           before(x) == IF x \in Code THEN StandingOfCode(saved.codes[x])
                        ELSE StandingOfPair(saved.tokens[x])
<1>1. Standing = [x \in Grant |-> before(x)] /\ Standing' = [x \in Grant |-> after(x)]
  BY DEF Standing
<1>2. /\ after(g) = r /\ after(h) = s
      /\ \A x \in Grant : x # g /\ x # h => after(x) = before(x)
  BY OAuthAssumption DEF Grant
<1>3. g \in Grant /\ h \in Grant BY DEF Grant
<1> HIDE DEF after, before
<1> QED BY <1>1, <1>2, <1>3

LEMMA IssueIsIssue ==
  ASSUME Data, Run, GrantInv, NEW t \in Thread, IssueAuthorizationCode(t)
  PROVE  OneUse!Next
<1> DEFINE c == Draw(NewCodes)
           row == NewCode(t)
<1>1. c \in Code /\ saved.codes[c] = None
  BY DrawnIsNew DEF IssueAuthorizationCode, GrantInv, Committed
<1>2. row # None /\ ~row.consumed BY NewCodeTyped
<1> HIDE DEF c, row
<1>3. /\ saved' = [codes |-> [saved.codes EXCEPT ![c] = row], tokens |-> saved.tokens]
      /\ origin' = origin
  BY SavedParts DEF IssueAuthorizationCode, c, row
<1>4. /\ saved'.codes[c] = row /\ saved'.tokens = saved.tokens
      /\ \A d \in Code : d # c => saved'.codes[d] = saved.codes[d]
  BY <1>1, <1>3 DEF Data
<1>5. Standing[c] = "new" BY <1>1, StandingValues DEF StandingOfCode
<1>6. StandingOfCode(row) = "live" BY <1>2 DEF StandingOfCode
<1>7. Standing' = [Standing EXCEPT ![c] = "live"]
  BY <1>1, <1>4, <1>6, StandingExcept DEF Grant
<1>8. OneUse!Issue(c) BY <1>3, <1>5, <1>7 DEF OneUse!Issue, IssueAuthorizationCode
<1> QED BY <1>1, <1>8 DEF OneUse!Next

LEMMA ConsumeIsSpend ==
  ASSUME Data, Run, GrantInv, NEW t \in Thread, ConsumeCommit(t)
  PROVE  OneUse!Next
<1> DEFINE c == Req(t).code
           row == [codes[c] EXCEPT !.consumed = TRUE]
<1>1. c \in Code /\ codes[c] \in CodeRow /\ ~codes[c].consumed /\ codes[c] # None
  BY TypeParts, HasRequest, RequestParts DEF ConsumeCommit, GrantInv, PlaceOK, Data
<1>2. row # None /\ row.consumed BY <1>1, UsedUp
<1>3. codes = saved.codes BY DEF GrantInv, Committed
<1>4. /\ saved' = [codes |-> [saved.codes EXCEPT ![c] = row], tokens |-> saved.tokens]
      /\ origin' = origin
  BY <1>3, SavedParts DEF ConsumeCommit
<1> HIDE DEF c, row
<1>5. /\ saved'.codes[c] = row /\ saved'.tokens = saved.tokens
      /\ \A d \in Code : d # c => saved'.codes[d] = saved.codes[d]
  BY <1>1, <1>4 DEF Data
<1>6. Standing[c] = "live" BY <1>1, <1>3, StandingValues DEF StandingOfCode
<1>7. StandingOfCode(row) = "spent" BY <1>2 DEF StandingOfCode
<1>8. Standing' = [Standing EXCEPT ![c] = "spent"]
  BY <1>1, <1>5, <1>7, StandingExcept DEF Grant
<1>9. lapses' = lapses BY DEF ConsumeCommit
<1>10. OneUse!Spend(c) BY <1>4, <1>6, <1>8, <1>9 DEF OneUse!Spend
<1> QED BY <1>1, <1>10 DEF OneUse!Next

LEMMA ConsumeLapseIsLapse ==
  ASSUME Data, Run, GrantInv, NEW t \in Thread, ConsumeLapse(t)
  PROVE  OneUse!Next
<1> DEFINE c == Req(t).code
<1>1. c \in Code /\ codes[c] # None /\ ~codes[c].consumed
  BY TypeParts, HasRequest, RequestParts DEF ConsumeLapse, GrantInv, PlaceOK
<1>2. lapses' = [lapses EXCEPT ![c] = @ + 1] /\ UNCHANGED <<saved, origin>>
  BY DEF ConsumeLapse
<1> HIDE DEF c
<1>3. Standing[c] = "live"
  BY <1>1, StandingValues DEF GrantInv, Committed, StandingOfCode
<1>4. Standing' = Standing BY <1>2 DEF Standing
<1>5. OneUse!Lapse(c) BY <1>2, <1>3, <1>4 DEF OneUse!Lapse
<1> QED BY <1>1, <1>5 DEF OneUse!Next

LEMMA IssueTokensIsMint ==
  ASSUME Data, Run, GrantInv, NEW t \in Thread, IssueTokens(t)
  PROVE  OneUse!Next
<1> DEFINE c == Req(t).code
<1>1. PICK p \in Pair, row \in TokenRow :
           /\ saved.tokens[p] = None /\ row # None /\ ~row.revoked
           /\ tokens' = [saved.tokens EXCEPT ![p] = row]
           /\ saved' = [codes |-> saved.codes, tokens |-> tokens']
           /\ origin' = [origin EXCEPT ![p] = c]
           /\ lapses' = lapses /\ pc[t] = "issue"
  BY IssueTokensStep
<1>2. c \in Code BY <1>1, TypeParts, HasRequest, RequestParts
<1>3. t \in Owing(c) BY <1>1 DEF Owing
<1> HIDE DEF c
<1>4. /\ saved'.tokens[p] = row /\ saved'.codes = saved.codes
      /\ \A q \in Pair : q # p => saved'.tokens[q] = saved.tokens[q]
  BY <1>1 DEF Data
<1>5. Cardinality(OneUse!Yield(c)) < OneUse!Allowed(c)
  <2>1. PICK Y, O : Y = Yield(c, origin) /\ O = Owing(c) OBVIOUS
  <2>2. PICK k \in Nat : k = lapses[c] + Spent(c) BY <1>2, CountTyped
  <2>3. IsFiniteSet(Y) /\ IsFiniteSet(O) /\ Cardinality(Y) + Cardinality(O) <= k
    BY <1>2, <2>1, <2>2, CountTyped DEF GrantInv, Counted
  <2>4. Cardinality(Y) < k
    <3>1. t \in O BY <1>3, <2>1
    <3>2. Cardinality(Y) \in Nat /\ Cardinality(O) \in Nat /\ Cardinality(O) # 0
      BY <2>3, <3>1, FS_CardinalityType, FS_EmptySet
    <3> QED BY <2>2, <2>3, <3>2
  <2>5. OneUse!Yield(c) = Y BY <2>1 DEF Yield, OneUse!Yield
  <2> QED BY <1>2, <2>2, <2>4, <2>5, CodePays
<1>6. PICK s \in {"new", "live"} : StandingOfPair(row) = s BY <1>1 DEF StandingOfPair
<1>7. Standing' = [Standing EXCEPT ![p] = s]
  <2>1. p \in Grant /\ p \notin Code BY OAuthAssumption DEF Grant
  <2> QED BY <1>4, <1>6, <2>1, StandingExcept
<1>8. origin[p] = None BY <1>1 DEF GrantInv, Lineal
<1>9. OneUse!Mint(c, p) BY <1>1, <1>5, <1>6, <1>7, <1>8, SameCounting DEF OneUse!Mint
<1> QED BY <1>2, <1>9 DEF OneUse!Next

LEMMA RotateIsExchange ==
  ASSUME Data, Run, GrantInv, NEW t \in Thread, RotateCommit(t)
  PROVE  OneUse!Next
<1> DEFINE old == Req(t).pair
<1>1. PICK p \in Pair, row \in TokenRow :
         /\ p # old /\ saved.tokens[p] = None /\ row # None /\ ~row.revoked
         /\ old \in Pair /\ Spare(old) /\ ~saved.tokens[old].revoked
         /\ row.refreshExpires # None
         /\ tokens' = [saved.tokens EXCEPT ![old].revoked = TRUE, ![p] = row]
         /\ saved' = [codes |-> saved.codes, tokens |-> tokens']
         /\ origin' = [origin EXCEPT ![p] = old] /\ lapses' = lapses
  BY RotateCommitStep
<1> HIDE DEF old
<1> DEFINE used == [saved.tokens[old] EXCEPT !.revoked = TRUE]
<1>2. saved.tokens[old] \in TokenRow BY <1>1 DEF Data, Spare
<1>3. used # None /\ used.revoked /\ used.refreshExpires # None
  BY <1>1, <1>2, UsedUp DEF Spare
<1>4. tokens' = [saved.tokens EXCEPT ![old] = used, ![p] = row] BY <1>1 DEF Data
<1> HIDE DEF used
<1>5. /\ saved'.tokens[p] = row /\ saved'.tokens[old] = used /\ saved'.codes = saved.codes
      /\ \A q \in Pair : q # old /\ q # p => saved'.tokens[q] = saved.tokens[q]
  BY <1>1, <1>4 DEF Data
<1>6. StandingOfPair(used) = "spent" /\ StandingOfPair(row) = "live"
  BY <1>1, <1>3 DEF StandingOfPair
<1>7. Standing' = [Standing EXCEPT ![old] = "spent", ![p] = "live"]
  <2>1. /\ old \in Pair /\ old # p
        /\ StandingOfPair(saved'.tokens[old]) = "spent" /\ StandingOfPair(saved'.tokens[p]) = "live"
    BY <1>1, <1>5, <1>6
  <2> QED BY ONLY <1>5, <2>1, StandingExcept2
<1>8. Standing[old] = "live" BY <1>1, StandingValues DEF StandingOfPair, Spare
<1>9. origin[p] = None /\ OneUse!Yield(old) = {}
  BY <1>1 DEF GrantInv, Lineal, OneUse!Yield
<1>10. OneUse!Exchange(old, p)
  BY <1>1, <1>7, <1>8, <1>9 DEF OneUse!Exchange
<1> QED BY <1>1, <1>10 DEF OneUse!Next

\* Every other step leaves the tables on disk alone.
LEMMA StoreSteps ==
  ASSUME Data, Run, GrantInv, [Next]_vars
  PROVE  OneUse!Next \/ UNCHANGED OneUse!vars
<1>1. CASE \E t \in Thread : \/ IssueAuthorizationCode(t) \/ ConsumeCommit(t) \/ ConsumeLapse(t)
                             \/ IssueTokens(t) \/ RotateCommit(t)
  BY <1>1, IssueIsIssue, ConsumeIsSpend, ConsumeLapseIsLapse, IssueTokensIsMint, RotateIsExchange
<1>2. CASE UNCHANGED <<saved, origin, lapses>>
  BY <1>2 DEF OneUse!vars, Standing
<1>3. ASSUME NEW t \in Thread, Step(t) \/ Arrive(t) \/ Fault(t)
      PROVE  \/ IssueAuthorizationCode(t) \/ ConsumeCommit(t) \/ ConsumeLapse(t)
             \/ IssueTokens(t) \/ RotateCommit(t)
             \/ UNCHANGED <<saved, origin, lapses>>
  BY <1>3 DEF tables, Step, Arrive, Fault, StatementFails, RotateLapse, Answer, EnterForm, Validate,
              Login, CheckSession, Allow, CheckClient, ConsumeBegin, RotateBegin, Revoke,
              FindAccessToken
<1>4. CASE Tick \/ Crash \/ UNCHANGED vars
  BY <1>2, <1>4 DEF Tick, Crash, vars, tables
<1> QED BY <1>1, <1>2, <1>3, <1>4 DEF Next

\* However requests for one code or one refresh token race, whatever crashes or
\* fails, the tables on disk behave as a store of grants that are used once, but for
\* the codes of which a COMMIT failed unnoticed: each of those yields at most one
\* pair more for every time.
THEOREM StoreKeepsGrants == Spec => GrantsUsedOnce
<1>1. Init => OneUse!Init BY GrantsInit, GrantsConsistent DEF OneUse!Init
<1>2. Data /\ Run /\ GrantInv /\ [Next]_vars => [OneUse!Next]_(OneUse!vars)
  BY StoreSteps
<1> QED BY <1>1, <1>2, GrantsKept, PTL DEF Spec, GrantsUsedOnce, OneUse!Spec

-----------------------------------------------------------------------------
(* The rate limiter.                                                       *)

\* The numbers up to n are n.
LEMMA FirstNumbers ==
  ASSUME NEW n \in Nat
  PROVE  IsFiniteSet(1 .. n) /\ Cardinality(1 .. n) = n
<1>1. 1 \in Int /\ n \in Int OBVIOUS
<1>2. IsFiniteSet(1 .. n) /\ Cardinality(1 .. n) = IF 1 > n THEN 0 ELSE n - 1 + 1
  BY ONLY <1>1, FS_Interval
<1> QED BY <1>2

\* A set of numbers that holds whatever lies below one of its elements is the
\* first so many numbers.
LEMMA LowerPart ==
  ASSUME NEW n \in Nat, NEW S \in SUBSET (1 .. n),
         \A i \in S : \A j \in 1 .. i : j \in S
  PROVE  Cardinality(S) \in 0 .. n /\ S = 1 .. Cardinality(S)
<1>0. PICK all : all = 1 .. n OBVIOUS
<1>1. IsFiniteSet(S) /\ Cardinality(S) \in Nat /\ Cardinality(S) <= n
  <2>1. IsFiniteSet(all) /\ Cardinality(all) = n /\ S \in SUBSET all BY <1>0, FirstNumbers
  <2> QED BY <2>1, FS_Subset, FS_CardinalityType
<1>2. PICK m \in 0 .. n : m = Cardinality(S) BY <1>1
<1>3. ASSUME NEW i \in S PROVE i \in 1 .. m
  <2>1. 1 .. i \subseteq S /\ i \in Nat OBVIOUS
  <2>2. Cardinality(1 .. i) <= Cardinality(S) BY <1>1, <2>1, FS_Subset
  <2> QED BY <1>2, <2>1, <2>2, FirstNumbers
<1>4. ASSUME NEW i \in 1 .. m, i \notin S PROVE FALSE
  <2>1. i - 1 \in Nat /\ \A j \in S : j < i
    BY <1>2, <1>4
  <2>2. S \subseteq 1 .. (i - 1) BY <2>1
  <2>3. Cardinality(S) <= Cardinality(1 .. (i - 1)) BY <2>1, <2>2, FirstNumbers, FS_Subset
  <2> QED BY <1>2, <2>1, <2>3, FirstNumbers
<1> QED BY <1>2, <1>3, <1>4

\* What the limiter drops are stamps at the front, all of them older than the window.
LEMMA RecentDropsOld ==
  ASSUME NEW stamps \in Seq(Nat), NEW now \in Nat
  PROVE  \E m \in 0 .. Len(stamps) :
           /\ Len(Recent(stamps, now)) = Len(stamps) - m
           /\ \A i \in 1 .. Len(stamps) - m : Recent(stamps, now)[i] = stamps[m + i]
           /\ \A i \in 1 .. m : now - stamps[i] > Window
<1> DEFINE old == {i \in DOMAIN stamps : \A j \in 1..i : now - stamps[j] > Window}
<1>1. PICK n \in Nat : n = Len(stamps) BY LenProperties
<1>2. DOMAIN stamps = 1 .. n /\ \A i \in 1 .. n : stamps[i] \in Nat BY <1>1, LenProperties
<1>3. \A i \in old : \A j \in 1 .. i : j \in old
  <2> SUFFICES ASSUME NEW i \in old, NEW j \in 1 .. i PROVE j \in old
    OBVIOUS
  <2>1. i \in 1 .. n /\ j \in 1 .. n BY <1>2
  <2>2. \A h \in 1 .. j : h \in 1 .. i BY <2>1
  <2>3. \A h \in 1 .. i : now - stamps[h] > Window OBVIOUS
  <2> QED BY <1>2, <2>1, <2>2, <2>3
<1>4. old \in SUBSET (1 .. n) BY <1>2
<1>5. \A i \in old : now - stamps[i] > Window
  <2> SUFFICES ASSUME NEW i \in old PROVE now - stamps[i] > Window
    OBVIOUS
  <2>1. i \in 1 .. i BY <1>2
  <2> QED BY <2>1
<1>6. Recent(stamps, now) = SubSeq(stamps, Cardinality(old) + 1, Len(stamps)) BY DEF Recent
<1> HIDE DEF old
<1>7. Cardinality(old) \in 0 .. n /\ old = 1 .. Cardinality(old) BY <1>3, <1>4, LowerPart
<1>8. PICK m \in 0 .. n : m = Cardinality(old) BY <1>7
<1>9. \A i \in m + 1 .. n : stamps[i] \in Nat BY <1>2, <1>8
<1>10. m + 1 \in Int /\ n \in Int BY <1>8
<1>11. /\ Len(SubSeq(stamps, m + 1, n)) = IF m + 1 <= n THEN n - (m + 1) + 1 ELSE 0
       /\ \A i \in 1 .. n - (m + 1) + 1 : SubSeq(stamps, m + 1, n)[i] = stamps[m + 1 + i - 1]
  BY <1>9, <1>10, SubSeqProperties
<1>12. Recent(stamps, now) = SubSeq(stamps, m + 1, n) BY <1>1, <1>6, <1>8
<1>13. Len(Recent(stamps, now)) = n - m BY <1>8, <1>11, <1>12
<1>14. \A i \in 1 .. n - m : Recent(stamps, now)[i] = stamps[m + i]
  <2> SUFFICES ASSUME NEW i \in 1 .. n - m PROVE Recent(stamps, now)[i] = stamps[m + i]
    OBVIOUS
  <2>1. i \in 1 .. n - (m + 1) + 1 /\ m + 1 + i - 1 = m + i BY <1>8
  <2> QED BY <1>11, <1>12, <2>1
<1> QED BY <1>1, <1>5, <1>7, <1>8, <1>13, <1>14

\* What the limiter let through, and what of it is still in the bucket: all that
\* asked within the last window.
Remembered(passages, kept) ==
  \E k \in 0 .. Len(passages) :
    /\ Len(kept) = Len(passages) - k
    /\ \A i \in 1 .. Len(passages) - k : kept[i] = passages[k + i].asked
    /\ \A i \in 1 .. k : clock - passages[i].asked > Window

\* The requests that asked and passed within the window from "from".
Within(passages, from) ==
  {i \in DOMAIN passages : passages[i].asked >= from /\ passages[i].passed <= from + Window}

LimitOK(passages, kept) ==
  /\ Remembered(passages, kept)
  /\ \A from \in Nat : Cardinality(Within(passages, from)) <= MaxTokenRequests

LimitInv == /\ \A t \in Thread : job[t].now <= clock
            /\ Limiting => \A c \in Client : LimitOK(admitted[c], buckets[c])

LEMMA PassagesTyped ==
  ASSUME NEW passages \in Seq(Passage)
  PROVE  /\ Len(passages) \in Nat /\ DOMAIN passages = 1 .. Len(passages)
         /\ \A i \in 1 .. Len(passages) : passages[i].asked \in Nat
<1>1. /\ Len(passages) \in Nat /\ DOMAIN passages = 1 .. Len(passages)
      /\ passages \in [1 .. Len(passages) -> Passage]
  BY LenProperties
<1>2. \A i \in 1 .. Len(passages) : passages[i] \in Passage BY <1>1
<1> QED BY <1>1, <1>2 DEF Passage

\* After a clean-up the bucket still has what the window needs, although the time
\* that the clean-up uses may be long past.
LEMMA CleanUp ==
  ASSUME NEW passages \in Seq(Passage), NEW kept \in Seq(Nat), clock \in Nat,
         NEW now \in Nat, now <= clock, Remembered(passages, kept)
  PROVE  Remembered(passages, Recent(kept, now))
<1>1. PICK k \in 0 .. Len(passages) :
           /\ Len(kept) = Len(passages) - k
           /\ \A i \in 1 .. Len(passages) - k : kept[i] = passages[k + i].asked
           /\ \A i \in 1 .. k : clock - passages[i].asked > Window
  BY DEF Remembered
<1>2. PICK m \in 0 .. Len(kept) :
           /\ Len(Recent(kept, now)) = Len(kept) - m
           /\ \A i \in 1 .. Len(kept) - m : Recent(kept, now)[i] = kept[m + i]
           /\ \A i \in 1 .. m : now - kept[i] > Window
  BY RecentDropsOld
<1>3. PICK n \in Nat : n = Len(passages) BY LenProperties
<1>4. PICK r : r = Recent(kept, now) OBVIOUS
<1>5. k + m \in 0 .. n /\ Len(r) = n - (k + m)
  <2>1. PICK q, lr : q = Len(kept) /\ lr = Len(r) OBVIOUS
  <2>2. k \in 0 .. n /\ q = n - k /\ m \in 0 .. q /\ lr = q - m BY <1>1, <1>2, <1>3, <1>4, <2>1
  <2> QED BY <2>1, <2>2
<1>6. ASSUME NEW i \in 1 .. n - (k + m) PROVE r[i] = passages[k + m + i].asked
  <2>1. i \in 1 .. Len(kept) - m /\ m + i \in 1 .. n - k /\ k + (m + i) = k + m + i
    BY <1>1, <1>2, <1>3
  <2>2. r[i] = kept[m + i] BY <1>2, <1>4, <2>1
  <2>3. kept[m + i] = passages[k + (m + i)].asked BY <1>1, <1>3, <2>1
  <2> QED BY <2>1, <2>2, <2>3
<1>7. ASSUME NEW i \in 1 .. k + m PROVE clock - passages[i].asked > Window
  <2>1. CASE i <= k BY <1>1, <2>1
  <2>2. CASE i > k
    <3>1. i - k \in 1 .. m /\ i - k \in 1 .. n - k /\ k + (i - k) = i
      BY <1>1, <1>2, <1>3, <1>5, <2>2
    <3>2. kept[i - k] = passages[i].asked BY <1>1, <1>3, <3>1
    <3>3. PICK x, w \in Nat : x = kept[i - k] /\ w = Window
      <4>1. i - k \in 1 .. Len(kept) BY <1>2, <3>1
      <4> QED BY <4>1, LenProperties, OAuthAssumption
    <3>4. now - x > w BY <1>2, <3>1, <3>3
    <3> QED BY <3>2, <3>3, <3>4
  <2> QED BY <1>1, <2>1, <2>2
<1> QED BY <1>3, <1>4, <1>5, <1>6, <1>7 DEF Remembered

\* The requests of a window that the one just passing closes are all in the bucket,
\* and so are fewer than the limit.
LEMMA LetThrough ==
  ASSUME NEW passages \in Seq(Passage), NEW recent \in Seq(Nat), clock \in Nat,
         NEW now \in Nat, LimitOK(passages, recent), Len(recent) < MaxTokenRequests
  PROVE  LimitOK(Append(passages, [asked |-> now, passed |-> clock]), Append(recent, now))
<1>1. PICK k \in 0 .. Len(passages) :
           /\ Len(recent) = Len(passages) - k
           /\ \A i \in 1 .. Len(passages) - k : recent[i] = passages[k + i].asked
           /\ \A i \in 1 .. k : clock - passages[i].asked > Window
  BY DEF LimitOK, Remembered
<1>2. PICK n \in Nat : n = Len(passages) BY LenProperties
<1>3. PICK last, l, r : /\ last = [asked |-> now, passed |-> clock]
                        /\ l = Append(passages, last) /\ r = Append(recent, now)
  OBVIOUS
<1>4. last \in Passage BY <1>3 DEF Passage
<1>5. /\ Len(l) = n + 1 /\ DOMAIN l = 1 .. n + 1 /\ l[n + 1] = last
      /\ \A i \in 1 .. n : l[i] = passages[i]
  <2>1. /\ l \in Seq(Passage) /\ Len(l) = n + 1 /\ l[n + 1] = last
        /\ \A i \in 1 .. n : l[i] = passages[i]
    BY <1>2, <1>3, <1>4, AppendProperties
  <2> QED BY <2>1, LenProperties
<1>6. /\ Len(r) = n + 1 - k /\ r[n + 1 - k] = now /\ \A i \in 1 .. n - k : r[i] = recent[i]
  <2>1. Len(recent) = n - k /\ n - k \in Nat BY <1>1, <1>2
  <2>2. /\ Len(r) = Len(recent) + 1 /\ r[Len(recent) + 1] = now
        /\ \A i \in 1 .. Len(recent) : r[i] = recent[i]
    BY <1>3, AppendProperties
  <2>3. (n - k) + 1 = n + 1 - k BY <1>1, <1>2
  <2> QED BY <2>1, <2>2, <2>3
<1>7. DOMAIN passages = 1 .. n /\ \A i \in 1 .. n : passages[i].asked \in Nat
  BY <1>2, PassagesTyped
<1>8. Remembered(l, r)
  <2>1. k \in 0 .. n + 1 /\ \A i \in 1 .. k : clock - l[i].asked > Window
    <3>1. k \in 0 .. n + 1 /\ \A i \in 1 .. k : i \in 1 .. n BY <1>1, <1>2
    <3>2. \A i \in 1 .. k : l[i] = passages[i] BY <1>5, <3>1
    <3> QED BY <1>1, <3>1, <3>2
  <2>2. ASSUME NEW i \in 1 .. n + 1 - k PROVE r[i] = l[k + i].asked
    <3>1. CASE i = n + 1 - k
      <4>1. k + i = n + 1 BY <1>1, <1>2, <3>1
      <4> QED BY <1>3, <1>5, <1>6, <3>1, <4>1
    <3>2. CASE i # n + 1 - k
      <4>1. i \in 1 .. n - k /\ k + i \in 1 .. n BY <1>1, <1>2, <3>2
      <4> QED BY <1>1, <1>2, <1>5, <1>6, <4>1
    <3> QED BY <3>1, <3>2
  <2> QED BY <1>5, <1>6, <2>1, <2>2 DEF Remembered
<1>9. ASSUME NEW from \in Nat PROVE Cardinality(Within(l, from)) <= MaxTokenRequests
  <2>1. PICK V, W : V = Within(passages, from) /\ W = Within(l, from) OBVIOUS
  <2>2. V \in SUBSET (1 .. n) /\ n + 1 \notin V BY <1>7, <2>1 DEF Within
  <2>3. Cardinality(V) <= MaxTokenRequests BY <2>1 DEF LimitOK
  <2>4. W \subseteq V \cup {n + 1} /\ (n + 1 \in W => clock <= from + Window)
    BY <1>3, <1>5, <1>7, <2>1 DEF Within
  <2>5. W \subseteq V \/ (W \subseteq V \cup {n + 1} /\ n + 1 \in W) BY <2>4
  <2>6. MaxTokenRequests \in Nat /\ Window \in Nat BY OAuthAssumption
  <2>7. IsFiniteSet(V) /\ Cardinality(V) \in Nat
    <3>1. PICK all : all = 1 .. n OBVIOUS
    <3>2. IsFiniteSet(all) /\ V \in SUBSET all BY <2>2, <3>1, FirstNumbers
    <3> QED BY <3>2, FS_Subset, FS_CardinalityType
  <2>8. CASE n + 1 \notin W
    <3>1. W \in SUBSET V BY <2>4, <2>8
    <3>2. Cardinality(W) \in Nat /\ Cardinality(W) <= Cardinality(V)
      BY <2>7, <3>1, FS_Subset, FS_CardinalityType
    <3> QED BY <2>1, <2>3, <2>6, <2>7, <3>2
  <2>9. CASE n + 1 \in W
    <3>1. ASSUME NEW i \in V PROVE i \in (k + 1) .. n
      <4>1. i \in 1 .. n /\ passages[i].asked >= from BY <2>1, <2>2 DEF Within
      <4>2. CASE i <= k
        <5>1. PICK a, w \in Nat : a = passages[i].asked /\ w = Window BY <1>7, <2>6, <4>1
        <5>2. clock - a > w /\ a >= from /\ clock <= from + w
          BY <1>1, <2>4, <2>9, <4>1, <4>2, <5>1
        <5> QED BY <5>2
      <4> QED BY <1>1, <1>2, <4>1, <4>2
    <3>2. PICK lo \in Int : lo = k + 1 BY <1>1
    <3>3. n \in Int OBVIOUS
    <3>4. /\ IsFiniteSet(lo .. n) /\ Cardinality(lo .. n) = IF lo > n THEN 0 ELSE n - lo + 1
      BY ONLY <3>2, <3>3, FS_Interval
    <3>5. Cardinality(lo .. n) = n - k BY <1>1, <1>2, <3>2, <3>4
    <3>6. V \subseteq lo .. n BY <3>1, <3>2
    <3>7. Cardinality(V) <= Cardinality(lo .. n) BY <3>4, <3>6, FS_Subset
    <3>8. PICK U : U = V \cup {n + 1} OBVIOUS
    <3>9. IsFiniteSet(U) /\ Cardinality(U) = Cardinality(V) + 1 BY <2>2, <2>7, <3>8, FS_AddElement
    <3>10. W \in SUBSET U BY <2>4, <3>8
    <3>11. Cardinality(W) \in Nat /\ Cardinality(W) <= Cardinality(U)
      BY <3>9, <3>10, FS_Subset, FS_CardinalityType
    <3>12. n - k < MaxTokenRequests BY <1>1, <1>2
    <3>13. PICK v, w, d \in Nat : v = Cardinality(V) /\ w = Cardinality(W) /\ d = n - k
      <4>1. n - k \in Nat BY <1>1, <1>2
      <4> QED BY <2>7, <3>11, <4>1
    <3>14. w <= v + 1 /\ v <= d BY <3>5, <3>7, <3>9, <3>11, <3>13
    <3> QED BY <2>1, <2>6, <3>12, <3>13, <3>14
  <2> QED BY <2>8, <2>9
<1> QED BY <1>3, <1>8, <1>9 DEF LimitOK

\* Nobody was let through yet.
LEMMA LimitEmpty == LimitOK(<<>>, <<>>)
<1>1. \A from \in Nat : Within(<<>>, from) = {} BY DEF Within
<1>2. Cardinality({}) = 0 /\ MaxTokenRequests \in Nat BY FS_EmptySet, OAuthAssumption
<1>3. Remembered(<<>>, <<>>) BY DEF Remembered
<1>4. ASSUME NEW from \in Nat PROVE Cardinality(Within(<<>>, from)) <= MaxTokenRequests
  <2>1. Within(<<>>, from) = {} BY <1>1
  <2>2. Cardinality(Within(<<>>, from)) = 0 BY ONLY <1>2, <2>1
  <2> QED BY <1>2, <2>2
<1> QED BY <1>3, <1>4 DEF LimitOK

LEMMA LimitInit == Init => LimitInv
BY LimitEmpty DEF Init, LimitInv, NoJob

LEMMA AllowKeepsLimit ==
  ASSUME Run, LimitInv, Limiting, NEW t \in Thread, Allow(t), NEW c \in Client
  PROVE  LimitOK(admitted[c], buckets[c])'
<1>1. PICK d : d = Req(t).client OBVIOUS
<1>2. d \in Client
  <2>1. Req(t) \in RequestType BY DEF Allow, Run, Req
  <2> QED BY <1>1, <2>1, RequestParts
<1>3. PICK passages, kept, now, recent :
         /\ passages = admitted[d] /\ kept = buckets[d]
         /\ now = job[t].now /\ recent = Recent(kept, now)
  OBVIOUS
<1>4. /\ passages \in Seq(Passage) /\ kept \in Seq(Nat) /\ clock \in Nat
      /\ now \in Nat /\ now <= clock
  BY <1>2, <1>3 DEF Run, LimitInv
<1>5. recent \in Seq(Nat) BY <1>3, <1>4, RecentTyped
<1>6. LimitOK(passages, recent)
  <2>1. LimitOK(passages, kept) BY <1>2, <1>3 DEF LimitInv
  <2>2. Remembered(passages, recent) BY <1>3, <1>4, <2>1, CleanUp DEF LimitOK
  <2> QED BY <2>1, <2>2 DEF LimitOK
<1>7. clock' = clock BY DEF Allow
<1>8. CASE c # d
  <2>1. admitted'[c] = admitted[c] /\ buckets'[c] = buckets[c]
    BY <1>1, <1>8 DEF Allow, Run
  <2> QED BY <1>7, <2>1 DEF LimitInv, LimitOK, Remembered, Within
<1>9. CASE c = d /\ Len(recent) < MaxTokenRequests
  <2>1. /\ admitted'[c] = Append(passages, [asked |-> now, passed |-> clock])
        /\ buckets'[c] = Append(recent, now)
    BY <1>1, <1>2, <1>3, <1>9 DEF Allow, Run
  <2>2. LimitOK(Append(passages, [asked |-> now, passed |-> clock]), Append(recent, now))
    BY <1>4, <1>5, <1>6, <1>9, LetThrough
  <2> QED BY <1>7, <2>1, <2>2 DEF LimitOK, Remembered, Within
<1>10. CASE c = d /\ ~(Len(recent) < MaxTokenRequests)
  <2>1. admitted'[c] = passages /\ buckets'[c] = recent
    BY <1>1, <1>2, <1>3, <1>10 DEF Allow, Run
  <2> QED BY <1>6, <1>7, <2>1 DEF LimitOK, Remembered, Within
<1> QED BY <1>8, <1>9, <1>10

LEMMA LimitStep == ASSUME Run, LimitInv, [Next]_vars PROVE LimitInv'
<1>1. /\ clock' \in Nat /\ clock' >= clock
      /\ \A t \in Thread : \/ job'[t].now = job[t].now
                          \/ job'[t].now \in {0, clock}
  <2>1. clock' = clock \/ clock' = clock + 1
    BY DEF Next, Step, vars, Arrive, Fault, StatementFails, ConsumeLapse, RotateLapse, Answer,
           EnterForm, Validate, Login, CheckSession, IssueAuthorizationCode, Allow, CheckClient,
           ConsumeBegin, ConsumeCommit, IssueTokens, RotateBegin, Revoke, RotateCommit,
           FindAccessToken, Tick, Crash
  <2>2. CASE job' = job BY <2>1, <2>2 DEF Run
  <2>3. CASE Crash BY <2>3 DEF Crash, NoJob, Run
  <2>4. CASE \E u \in Thread : Arrive(u) \/ Answer(u)
    <3>1. PICK u \in Thread : Arrive(u) \/ Answer(u) BY <2>4
    <3>2. \E r, n : n \in {0, clock} /\ job' = [job EXCEPT ![u] = [req |-> r, now |-> n]]
      <4>1. CASE Answer(u) BY <4>1 DEF Answer, NoJob
      <4>2. CASE Arrive(u) BY <4>2 DEF Arrive
      <4> QED BY <3>1, <4>1, <4>2
    <3>3. PICK r, n : n \in {0, clock} /\ job' = [job EXCEPT ![u] = [req |-> r, now |-> n]]
      BY <3>2
    <3>4. \A t \in Thread : job'[t].now = IF t = u THEN n ELSE job[t].now BY <3>3 DEF Run
    <3> QED BY <2>1, <3>3, <3>4 DEF Run
  <2>5. CASE \E u \in Thread : job' = [job EXCEPT ![u].now = clock]
    <3>1. PICK u \in Thread : job' = [job EXCEPT ![u].now = clock] BY <2>5
    <3>2. \A t \in Thread : job'[t].now = IF t = u THEN clock ELSE job[t].now
      BY <3>1 DEF Run
    <3> QED BY <2>1, <3>2 DEF Run
  <2>6. \/ job' = job \/ Crash \/ \E u \in Thread : Arrive(u) \/ Answer(u)
        \/ \E u \in Thread : job' = [job EXCEPT ![u].now = clock]
    BY DEF Next, Step, vars, Fault, StatementFails, ConsumeLapse, RotateLapse, EnterForm, Validate,
           Login, CheckSession, IssueAuthorizationCode, Allow, CheckClient, ConsumeBegin,
           ConsumeCommit, IssueTokens, RotateBegin, Revoke, RotateCommit, FindAccessToken, Tick,
           GoOn
  <2> QED BY <2>2, <2>3, <2>4, <2>5, <2>6
<1>2. \A t \in Thread : job'[t].now <= clock'
  <2> SUFFICES ASSUME NEW t \in Thread PROVE job'[t].now <= clock'
    OBVIOUS
  <2>1. job[t].now \in Nat /\ clock \in Nat /\ job[t].now <= clock BY DEF Run, LimitInv
  <2> QED BY <1>1, <2>1
<1> SUFFICES ASSUME Limiting, NEW c \in Client PROVE LimitOK(admitted[c], buckets[c])'
  BY <1>2 DEF LimitInv, Limiting
<1>3. CASE \E t \in Thread : Allow(t) BY <1>3, AllowKeepsLimit
<1>4. CASE Crash
  <2>1. admitted'[c] = <<>> /\ buckets'[c] = <<>> BY <1>4 DEF Crash
  <2>2. Remembered(<<>>, <<>>)' BY DEF Remembered
  <2> QED BY <2>1, <2>2, LimitEmpty DEF LimitOK, Within
<1>5. CASE UNCHANGED limits
  <2>1. PICK passages, kept, n : passages = admitted[c] /\ kept = buckets[c] /\ n = Len(passages)
    OBVIOUS
  <2>2. /\ passages \in Seq(Passage) /\ n \in Nat /\ clock \in Nat
        /\ \A i \in 1 .. n : passages[i].asked \in Nat
    <3>1. passages \in Seq(Passage) /\ clock \in Nat BY <2>1 DEF Run
    <3> QED BY <2>1, <3>1, PassagesTyped
  <2>3. admitted'[c] = passages /\ buckets'[c] = kept BY <1>5, <2>1 DEF limits
  <2>4. LimitOK(passages, kept) BY <2>1 DEF LimitInv
  <2>5. PICK k \in 0 .. n :
             /\ Len(kept) = n - k /\ \A i \in 1 .. n - k : kept[i] = passages[k + i].asked
             /\ \A i \in 1 .. k : clock - passages[i].asked > Window
    BY <2>1, <2>4 DEF LimitOK, Remembered
  <2>6. ASSUME NEW i \in 1 .. k PROVE clock' - passages[i].asked > Window
    <3>1. PICK x, w \in Nat : x = passages[i].asked /\ w = Window BY <2>2, <2>5, OAuthAssumption
    <3>2. PICK old, new \in Nat : old = clock /\ new = clock' BY <1>1, <2>2
    <3>3. old - x > w /\ new >= old BY <1>1, <2>5, <3>1, <3>2
    <3> QED BY <3>1, <3>2, <3>3
  <2>7. Remembered(passages, kept)' BY <2>1, <2>5, <2>6 DEF Remembered
  <2> QED BY <2>3, <2>4, <2>7 DEF LimitOK, Within
<1>6. CASE ~Crash /\ ~\E t \in Thread : Allow(t)
  <2>1. UNCHANGED limits
    BY <1>6 DEF Next, Step, vars, Arrive, Fault, StatementFails, ConsumeLapse, RotateLapse, Answer,
                EnterForm, Validate, Login, CheckSession, IssueAuthorizationCode, CheckClient,
                ConsumeBegin, ConsumeCommit, IssueTokens, RotateBegin, Revoke, RotateCommit,
                FindAccessToken, Tick
  <2> QED BY <1>5, <2>1
<1> QED BY <1>3, <1>4, <1>6

\* However the waits for the limiter's mutex overlap, and although a request may be
\* judged by a time that is long past, of the requests of a client that asked and
\* passed within one window no more passed than the limit says.
THEOREM LimiterHolds == Spec => []RateHeld
<1>1. Run /\ LimitInv => RateHeld
  <2> SUFFICES ASSUME Run, LimitInv, Limiting, NEW c \in Client, NEW from \in 0 .. MaxTime
               PROVE  Cardinality(Within(admitted[c], from)) <= MaxTokenRequests
    BY DEF RateHeld, Within
  <2>1. from \in Nat BY OAuthAssumption
  <2> QED BY <2>1 DEF LimitInv, LimitOK
<1>2. Run /\ LimitInv /\ [Next]_vars => LimitInv' BY LimitStep
<1>3. Spec => []LimitInv BY <1>2, LimitInit, GrantsKept, PTL DEF Spec
<1> QED BY <1>1, <1>3, GrantsKept, PTL

-----------------------------------------------------------------------------
(* Codes that were consumed for nothing.                                   *)

\* The codes of this run that are consumed and have no pair.
Lost == {c \in Code : Barren(c) /\ ~UsedBefore(c)}

\* The codes that workers are redeeming.
Redeemed == {Req(t).code : t \in Redeeming}

\* The codes that no worker will mint a pair for any more.
Abandoned == Lost \ Redeemed

YieldInv ==
  IsFiniteSet(Abandoned) /\ Cardinality(Abandoned) <= faults * Cardinality(Thread)

\* A part of two sets is no larger than both together.
LEMMA CountUnion ==
  ASSUME NEW A, NEW B, IsFiniteSet(A), IsFiniteSet(B), NEW a \in Nat, NEW b \in Nat,
         Cardinality(A) <= a, Cardinality(B) <= b, NEW M \in SUBSET (A \cup B)
  PROVE  IsFiniteSet(M) /\ Cardinality(M) <= a + b
<1>1. PICK N : N = A \cup B OBVIOUS
<1>2. /\ Cardinality(A) \in Nat /\ Cardinality(B) \in Nat
      /\ IsFiniteSet(A \cap B) /\ Cardinality(A \cap B) \in Nat
  BY FS_CardinalityType, FS_Intersection
<1>3. /\ IsFiniteSet(N)
      /\ Cardinality(N) = Cardinality(A) + Cardinality(B) - Cardinality(A \cap B)
  BY <1>1, FS_Union
<1>4. IsFiniteSet(M) /\ Cardinality(M) \in Nat /\ Cardinality(M) <= Cardinality(N)
  BY <1>1, <1>3, FS_Subset, FS_CardinalityType
<1> QED BY <1>2, <1>3, <1>4

\* A worker redeems one code at a time.
LEMMA FewRedeemed ==
  /\ IsFiniteSet(Redeeming) /\ Cardinality(Redeeming) \in Nat
  /\ Cardinality(Thread) \in Nat /\ Cardinality(Redeeming) <= Cardinality(Thread)
  /\ IsFiniteSet(Redeemed) /\ Cardinality(Redeemed) <= Cardinality(Redeeming)
<1>1. Redeeming \subseteq Thread /\ IsFiniteSet(Thread) BY OAuthAssumption DEF Redeeming
<1>2. /\ IsFiniteSet(Redeeming) /\ Cardinality(Redeeming) \in Nat
      /\ Cardinality(Thread) \in Nat /\ Cardinality(Redeeming) <= Cardinality(Thread)
  BY <1>1, FS_Subset, FS_CardinalityType
<1>3. PICK f : f = [t \in Redeeming |-> Req(t).code] OBVIOUS
<1>4. f \in Surjection(Redeeming, Redeemed) BY <1>3 DEF Redeemed, Surjection
<1>5. IsFiniteSet(Redeemed) /\ Cardinality(Redeemed) <= Cardinality(Redeeming)
  BY <1>2, <1>4, FS_Surjection
<1> QED BY <1>2, <1>5

LEMMA YieldInit == Init => YieldInv
<1> SUFFICES ASSUME Init PROVE YieldInv
  OBVIOUS
<1>1. saved.codes = StoredCodes /\ faults = 0 BY DEF Init
<1>2. Abandoned = {} BY <1>1 DEF Abandoned, Lost, Barren, UsedBefore
<1>3. IsFiniteSet({}) /\ Cardinality({}) = 0 BY FS_EmptySet
<1>4. PICK n \in Nat : n = Cardinality(Thread) BY FewRedeemed
<1>5. faults * n = 0 BY <1>1, <1>4
<1>6. IsFiniteSet(Abandoned) /\ Cardinality(Abandoned) = 0 BY ONLY <1>2, <1>3
<1> QED BY <1>4, <1>5, <1>6 DEF YieldInv

\* Nobody abandons a code.
LEMMA NoneAbandoned ==
  ASSUME Run, YieldInv, Abandoned' \subseteq Abandoned, faults' \in {faults, faults + 1}
  PROVE  YieldInv'
<1>1. PICK A, B : A = Abandoned /\ B = Abandoned' OBVIOUS
<1>2. PICK n \in Nat : n = Cardinality(Thread) BY FewRedeemed
<1>3. faults \in Nat BY DEF Run
<1>4. faults * n <= faults' * n
  <2>1. (faults + 1) * n = faults * n + n /\ faults * n \in Nat BY <1>2, <1>3
  <2>2. CASE faults' = faults BY <2>1, <2>2
  <2>3. CASE faults' = faults + 1 BY <1>2, <2>1, <2>3
  <2> QED BY <2>2, <2>3
<1>5. PICK k, m \in Int : k = faults * n /\ m = faults' * n BY <1>2, <1>3
<1>6. IsFiniteSet(A) /\ Cardinality(A) <= k BY <1>1, <1>2, <1>5 DEF YieldInv
<1>7. /\ IsFiniteSet(B) /\ Cardinality(B) \in Nat /\ Cardinality(A) \in Nat
      /\ Cardinality(B) <= Cardinality(A)
  BY <1>1, <1>6, FS_Subset, FS_CardinalityType
<1>8. Cardinality(B) <= m BY <1>4, <1>5, <1>6, <1>7
<1> QED BY <1>1, <1>2, <1>5, <1>7, <1>8 DEF YieldInv

\* A crash or a fault: no code is consumed, and workers may abandon theirs.
LEMMA FaultYields ==
  ASSUME Run, YieldInv, faults' = faults + 1, UNCHANGED <<saved, origin>>
  PROVE  YieldInv'
<1>1. Lost' = Lost BY DEF Lost, Barren
<1>2. PICK A, B, M : A = Abandoned /\ B = Redeemed /\ M = Abandoned' OBVIOUS
<1>3. M \in SUBSET (A \cup B) BY <1>1, <1>2 DEF Abandoned
<1>4. PICK n \in Nat : n = Cardinality(Thread) BY FewRedeemed
<1>5. faults \in Nat BY DEF Run
<1>6. (faults + 1) * n = faults * n + n /\ faults * n \in Nat BY <1>4, <1>5
<1>7. PICK k \in Nat : k = faults * n BY <1>6
<1>8. IsFiniteSet(A) /\ Cardinality(A) <= k BY <1>2, <1>4, <1>7 DEF YieldInv
<1>9. IsFiniteSet(B) /\ Cardinality(B) <= n
  BY <1>2, <1>4, FewRedeemed, FS_CardinalityType
<1>10. IsFiniteSet(M) /\ Cardinality(M) <= k + n BY <1>3, <1>8, <1>9, CountUnion
<1> QED BY <1>2, <1>4, <1>6, <1>7, <1>10 DEF YieldInv

\* A worker that consumes a code goes on to redeem it.
LEMMA ConsumeYields ==
  ASSUME Data, Run, GrantInv, YieldInv, NEW t \in Thread, ConsumeCommit(t)
  PROVE  YieldInv'
<1>1. PICK c : c = Req(t).code OBVIOUS
<1>2. /\ codes' = [codes EXCEPT ![c].consumed = TRUE] /\ saved' = [saved EXCEPT !.codes = codes']
      /\ UNCHANGED <<origin, faults>>
      /\ pc[t] = "consumeCommit" /\ pc' = [pc EXCEPT ![t] = "issue"]
      /\ job' = [job EXCEPT ![t].now = clock]
  BY <1>1 DEF ConsumeCommit, GoOn, Go, bounds
<1>3. codes = saved.codes /\ saved'.codes = codes'
  BY <1>2, SavedParts DEF GrantInv, Committed
<1>4. \A d \in Code : d # c => codes'[d] = codes[d] BY <1>2 DEF Data
<1>5. Lost' \subseteq Lost \cup {c} BY <1>2, <1>3, <1>4 DEF Lost, Barren
<1>6. \A u \in Thread : pc'[u] = IF u = t THEN "issue" ELSE pc[u] BY <1>2 DEF Run
<1>7. \A u \in Thread : Req(u)' = Req(u)
  <2>1. \A u \in Thread : job'[u].req = job[u].req BY <1>2, SameRequests
  <2> QED BY <2>1 DEF Req
<1>8. Redeemed \cup {c} \subseteq Redeemed'
  BY <1>1, <1>6, <1>7 DEF Redeemed, Redeeming
<1>9. Abandoned' \subseteq Abandoned BY <1>5, <1>8 DEF Abandoned
<1> QED BY <1>2, <1>9, NoneAbandoned

\* The code of a worker that mints a pair is not lost.
LEMMA IssueYields ==
  ASSUME Data, Run, GrantInv, YieldInv, NEW t \in Thread, IssueTokens(t)
  PROVE  YieldInv'
<1>1. PICK c : c = Req(t).code OBVIOUS
<1>2. PICK p \in Pair :
         /\ origin' = [origin EXCEPT ![p] = c] /\ saved.tokens[p] = None
         /\ saved'.codes = saved.codes /\ job' = job
         /\ pc[t] = "issue" /\ pc' = [pc EXCEPT ![t] = "granted"]
  <2>1. PICK p \in Pair, row \in TokenRow :
           /\ saved.tokens[p] = None
           /\ saved' = [codes |-> saved.codes, tokens |-> tokens']
           /\ origin' = [origin EXCEPT ![p] = Req(t).code]
           /\ UNCHANGED <<codes, job>>
           /\ pc[t] = "issue" /\ pc' = [pc EXCEPT ![t] = "granted"]
    BY IssueTokensStep
  <2> QED BY <1>1, <2>1
<1>3. /\ origin'[p] = c /\ origin[p] = None
      /\ \A q \in Pair : q # p => origin'[q] = origin[q]
  BY <1>2 DEF Data, GrantInv, Lineal
<1>4. Lost' \subseteq Lost \ {c}
  <2>1. None \notin Code BY OAuthAssumption
  <2>2. ASSUME NEW d \in Code, Barren(d)' PROVE Barren(d) /\ d # c
    BY <1>2, <1>3, <2>1, <2>2 DEF Barren
  <2> QED BY <2>2 DEF Lost
<1>5. \A u \in Thread : pc'[u] = IF u = t THEN "granted" ELSE pc[u] BY <1>2 DEF Run
<1>6. Redeemed \subseteq Redeemed' \cup {c}
  BY <1>1, <1>2, <1>5 DEF Redeemed, Redeeming, Req
<1>7. Abandoned' \subseteq Abandoned BY <1>4, <1>6 DEF Abandoned
<1>8. faults' = faults BY DEF IssueTokens, bounds
<1> QED BY <1>7, <1>8, NoneAbandoned

\* The other steps of a worker consume no code, redeem none and take no pair back.
LEMMA AsideYields ==
  ASSUME Data, Run, GrantInv, YieldInv, NEW t \in Thread, Step(t) \/ Arrive(t),
         ~ConsumeCommit(t), ~IssueTokens(t)
  PROVE  YieldInv'
<1>0. pc \in [Thread -> Places] BY DEF Run
<1>1. PICK place : /\ pc[t] # "issue" /\ place # "issue" /\ Go(t, place)
                   /\ \A u \in Thread : u # t => job'[u].req = job[u].req
  <2>1. CASE Arrive(t)
    <3>1. PICK r \in Request : Go(t, FirstPlace(r)) BY <2>1 DEF Arrive
    <3>2. r.kind \in Kind BY OAuthAssumption, RequestParts
    <3>3. FirstPlace(r) \in {"form", "limit", "bearer"} BY <3>2 DEF Kind, FirstPlace
    <3> QED BY <2>1, <3>1, <3>3 DEF Arrive, Run
  <2>2. CASE Answer(t) BY <2>2 DEF Answer, Run
  <2>3. CASE Validate(t)
    <3>1. AfterValidation(Req(t)) # "issue" BY DEF AfterValidation
    <3>2. job' = job \/ job' = [job EXCEPT ![t].now = clock] BY <2>3 DEF Validate, GoOn
    <3> QED BY <2>3, <3>1, <3>2, SameRequests DEF Validate, GoOn
  <2>4. CASE CheckSession(t)
    <3>1. job' = job \/ job' = [job EXCEPT ![t].now = clock] BY <2>4 DEF CheckSession, GoOn
    <3>2. PICK place \in {"insertCode", "answer"} : Go(t, place) BY <2>4 DEF CheckSession, GoOn
    <3> QED BY <2>4, <3>1, <3>2, SameRequests DEF CheckSession
  <2>5. CASE CheckClient(t)
    <3>1. job' = job \/ job' = [job EXCEPT ![t].now = clock] BY <2>5 DEF CheckClient, GoOn
    <3>2. PICK place \in {"answer", "consume", "rotate"} : Go(t, place)
      BY <2>5 DEF CheckClient, GoOn
    <3> QED BY <2>5, <3>1, <3>2, SameRequests DEF CheckClient
  <2>6. CASE EnterForm(t) \/ Login(t) \/ IssueAuthorizationCode(t) \/ Allow(t)
    <3>1. PICK place \in {"validate", "answer", "client"} : Go(t, place)
      BY <2>6 DEF EnterForm, Login, IssueAuthorizationCode, Allow
    <3> QED BY <2>6, <3>1 DEF EnterForm, Login, IssueAuthorizationCode, Allow
  <2>7. CASE ConsumeBegin(t) \/ RotateBegin(t)
    <3>1. PICK place \in {"consumeCommit", "revoke", "answer"} : Go(t, place)
      BY <2>7 DEF ConsumeBegin, RotateBegin
    <3> QED BY <2>7, <3>1 DEF ConsumeBegin, RotateBegin
  <2>8. CASE Revoke(t) \/ RotateCommit(t) \/ FindAccessToken(t)
    <3>1. PICK place \in {"mint", "granted", "answer", "handler"} : Go(t, place)
      BY <2>8 DEF Revoke, RotateCommit, FindAccessToken
    <3> QED BY <2>8, <3>1 DEF Revoke, RotateCommit, FindAccessToken
  <2> QED BY <2>1, <2>2, <2>3, <2>4, <2>5, <2>6, <2>7, <2>8 DEF Step
<1>2. faults' = faults
  BY DEF bounds, Step, Arrive, Answer, EnterForm, Validate, Login, CheckSession,
         IssueAuthorizationCode, Allow, CheckClient, ConsumeBegin, RotateBegin, Revoke,
         RotateCommit, FindAccessToken
<1>3. Redeemed \subseteq Redeemed'
  <2>1. \A u \in Thread : pc'[u] = IF u = t THEN place ELSE pc[u] BY <1>0, <1>1 DEF Go
  <2> QED BY <1>1, <2>1 DEF Redeemed, Redeeming, Req
<1>4. \A c \in Code : Consumed(c)' => Consumed(c)
  <2>1. CASE IssueAuthorizationCode(t)
    <3>1. PICK d, row : d = Draw(NewCodes) /\ row = NewCode(t) OBVIOUS
    <3>2. d \in Code /\ codes[d] = None BY <2>1, <3>1, DrawnIsNew DEF IssueAuthorizationCode
    <3>3. ~row.consumed BY <2>1, <3>1, NewCodeTyped
    <3>4. codes' = [codes EXCEPT ![d] = row] BY <2>1, <3>1 DEF IssueAuthorizationCode
    <3>5. codes'[d] = row /\ \A c \in Code : c # d => codes'[c] = codes[c]
      BY <3>2, <3>4 DEF Data
    <3> QED BY <3>2, <3>3, <3>5 DEF Consumed
  <2>2. CASE ~IssueAuthorizationCode(t)
    <3>1. codes' = codes
      BY <2>2 DEF tables, Step, Arrive, Answer, EnterForm, Validate, Login, CheckSession, Allow,
                  CheckClient, ConsumeBegin, RotateBegin, Revoke, RotateCommit, FindAccessToken
    <3> QED BY <3>1 DEF Consumed
  <2> QED BY <2>1, <2>2
<1>5. \A p \in Pair : origin[p] # None => origin'[p] = origin[p]
  <2>1. CASE RotateCommit(t)
    <3>1. PICK q \in Pair : /\ saved.tokens[q] = None
                            /\ origin' = [origin EXCEPT ![q] = Req(t).pair]
      BY <2>1, RotateCommitStep
    <3>2. origin[q] = None BY <3>1 DEF GrantInv, Lineal
    <3> QED BY <3>1, <3>2 DEF Data
  <2>2. CASE ~RotateCommit(t)
    <3>1. origin' = origin
      BY <2>2 DEF tables, Step, Arrive, Answer, EnterForm, Validate, Login, CheckSession, Allow,
                  IssueAuthorizationCode, CheckClient, ConsumeBegin, RotateBegin, Revoke,
                  FindAccessToken
    <3> QED BY <3>1
  <2> QED BY <2>1, <2>2
<1>6. Lost' \subseteq Lost
  <2>1. codes = saved.codes /\ codes' = saved'.codes
    BY WorkerKeeps DEF GrantInv, Committed
  <2>2. None \notin Code BY OAuthAssumption
  <2>3. ASSUME NEW c \in Code, Barren(c)' PROVE Barren(c)
    BY <1>4, <1>5, <2>1, <2>2, <2>3 DEF Barren, Consumed
  <2> QED BY <2>3 DEF Lost
<1>7. Abandoned' \subseteq Abandoned BY <1>3, <1>6 DEF Abandoned
<1> QED BY <1>2, <1>7, NoneAbandoned

LEMMA YieldStep ==
  ASSUME Data, Run, GrantInv, YieldInv, [Next]_vars
  PROVE  YieldInv'
<1>1. CASE \E t \in Thread : ConsumeCommit(t) BY <1>1, ConsumeYields
<1>2. CASE \E t \in Thread : IssueTokens(t) BY <1>2, IssueYields
<1>3. ASSUME NEW t \in Thread, Step(t) \/ Arrive(t), ~ConsumeCommit(t), ~IssueTokens(t)
      PROVE  YieldInv'
  BY <1>3, AsideYields
<1>4. CASE \E t \in Thread : Fault(t)
  BY <1>4, FaultYields DEF Fault, StatementFails, ConsumeLapse, RotateLapse
<1>5. CASE Crash BY <1>5, FaultYields DEF Crash
<1>6. CASE UNCHANGED <<saved, origin, pc, job, faults>>
  <2>1. Abandoned' = Abandoned
    BY <1>6 DEF Abandoned, Lost, Barren, Redeemed, Redeeming, Req
  <2> QED BY <1>6, <2>1 DEF YieldInv
<1>7. CASE Tick \/ UNCHANGED vars BY <1>6, <1>7 DEF Tick, vars, tables, bounds
<1> QED BY <1>1, <1>2, <1>3, <1>4, <1>5, <1>7 DEF Next

LEMMA FewLost == Run /\ YieldInv => CodesYieldTokens
<1> SUFFICES ASSUME Run, YieldInv PROVE CodesYieldTokens
  OBVIOUS
<1>1. PICK A, B, L : A = Abandoned /\ B = Redeemed /\ L = Lost OBVIOUS
<1>2. L \in SUBSET (A \cup B) BY <1>1 DEF Abandoned
<1>3. PICK n, r \in Nat : n = Cardinality(Thread) /\ r = Cardinality(Redeeming)
  BY FewRedeemed
<1>4. faults \in Nat BY DEF Run
<1>5. PICK k \in Nat : k = faults * n BY <1>3, <1>4
<1>6. IsFiniteSet(A) /\ Cardinality(A) <= k BY <1>1, <1>3, <1>5 DEF YieldInv
<1>7. IsFiniteSet(B) /\ Cardinality(B) <= r BY <1>1, <1>3, FewRedeemed
<1>8. Cardinality(L) <= k + r BY <1>2, <1>6, <1>7, CountUnion
<1>9. Cardinality(L) \in Nat BY <1>2, <1>6, <1>7, CountUnion, FS_CardinalityType
<1>10. Cardinality(L) <= r + k BY <1>8, <1>9
<1> QED BY <1>1, <1>3, <1>5, <1>10 DEF CodesYieldTokens, Lost

\* A consumed code that yields no token pair is one that a worker is redeeming, or
\* was lost to a crash or a failing statement: no race of requests, no expiry
\* between the two methods and no refused client loses one.
THEOREM CodesAreNotWasted == Spec => []CodesYieldTokens
<1>1. Data /\ Run /\ GrantInv /\ YieldInv /\ [Next]_vars => YieldInv' BY YieldStep
<1> QED BY <1>1, FewLost, YieldInit, GrantsKept, PTL DEF Spec
===============================================================================
