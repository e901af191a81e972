------------------------------ MODULE OAuthStore ------------------------------
(***************************************************************************)
(* The OAuth endpoints of the server: the authorize form, the token        *)
(* endpoint and the bearer check of every API call, over OAuthStore and    *)
(* its tables.                                                             *)
(*                                                                         *)
(* Worker threads run the handlers.  A method of OAuthStore takes the      *)
(* store's mutex for as long as it runs, and commits either one statement  *)
(* or one transaction; everything between two methods of a handler         *)
(* interleaves with the other threads.  Consuming a code and issuing its   *)
(* tokens are two methods, rotating a refresh token is one.  A method      *)
(* reads the clock before it waits for the mutex.                          *)
(*                                                                         *)
(* The tables are in the same SQLite file as those of ChecklistStore,      *)
(* which has a connection of its own.  The file is in WAL mode and neither *)
(* connection sets a busy timeout: while the other one writes, a statement *)
(* of this one that wants to write fails at once.  A statement that fails  *)
(* throws, but for COMMIT, whose result the two methods with a transaction *)
(* do not look at.                                                         *)
(*                                                                         *)
(* Names of codes, token pairs and sessions stand for the random strings   *)
(* that the server draws; their hashes never collide.  The only user is    *)
(* the administrator.  One-step methods that take nothing but the mutex    *)
(* of SessionManager or TokenRateLimiter are single actions.               *)
(***************************************************************************)
EXTENDS Integers, FiniteSets, Sequences

CONSTANTS
  None,
  Thread,
  Client,           \* the client names that requests carry
  Redirect, Scope,
  Code, Pair, Session,
  Request,          \* the requests that clients and browsers send
  ClientScopes,     \* allowed_scopes of the clients in oauth_clients
  ClientRedirects,  \* redirect_uris of the clients in oauth_clients
  UiRedirects,      \* what serve_ui adds to every client's redirects
  Canonical(_),     \* a redirect's scheme, loopback host, port and path
  Trusted,          \* the redirects that are https or loopback
  CodeTtl, AccessTtl, RefreshTtl, SessionTtl,
  MaxTokenRequests, Window, \* token_rate_limit and token_rate_window
  Config,           \* the configurations the server may be started with
  StoredCodes, StoredTokens, StoredOrigin, StoredLapses, \* what earlier runs left
  MaxArrivals, MaxTime, MaxFaults \* bounds; a fault is a crash or a failed statement

Registered == DOMAIN ClientScopes

\* What can be exchanged for a token pair.
Grant == Code \cup Pair

CodeRow == [client : Registered, redirect : Redirect, scope : SUBSET Scope,
            expires : Int, consumed : BOOLEAN]

\* A row of oauth_tokens; without a refresh token refreshExpires is None.
TokenRow == [client : Registered, scope : SUBSET Scope, accessExpires : Int,
             refreshExpires : Int \cup {None}, revoked : BOOLEAN]

Kind == {"get", "login", "approve", "deny", "code", "refresh", "call"}

RequestType == [kind : Kind, client : Client, redirect : Redirect,
                scope : SUBSET Scope, code : Code, pair : Pair,
                session : Session, good : BOOLEAN]

ASSUME OAuthAssumption ==
  /\ None \notin Thread \cup Code \cup Pair
  /\ None \notin CodeRow \cup TokenRow \cup RequestType \cup Int
  /\ Code \cap Pair = {} /\ IsFiniteSet(Thread)
  /\ Registered \subseteq Client
  /\ ClientScopes \in [Registered -> SUBSET Scope]
  /\ ClientRedirects \in [Registered -> SUBSET Redirect]
  /\ UiRedirects \subseteq Redirect
  /\ Request \subseteq RequestType
  /\ Config # {} /\ Config \subseteq [simple : BOOLEAN, refresh : BOOLEAN]
  /\ CodeTtl \in Nat /\ AccessTtl \in Nat /\ RefreshTtl \in Nat
  /\ SessionTtl \in Nat /\ MaxTokenRequests \in Nat /\ Window \in Nat
  /\ MaxArrivals \in Nat /\ MaxTime \in Nat /\ MaxFaults \in Nat

\* The pairs that came from a grant.
Yield(g, from) == {p \in Pair : from[p] = g}

\* What earlier runs leave: pairs come from grants that were used up, or from codes
\* whose use was not recorded.
ASSUME StoredAssumption ==
  /\ StoredCodes \in [Code -> CodeRow \cup {None}]
  /\ StoredTokens \in [Pair -> TokenRow \cup {None}]
  /\ StoredOrigin \in [Pair -> Grant \cup {None}]
  /\ StoredLapses \in [Code -> Nat]
  /\ \A c \in Code :
       /\ IsFiniteSet(Yield(c, StoredOrigin))
       /\ Cardinality(Yield(c, StoredOrigin))
            <= StoredLapses[c] + IF StoredCodes[c] = None THEN 0
                                 ELSE IF StoredCodes[c].consumed THEN 1 ELSE 0
  /\ \A p \in Pair :
       /\ (StoredOrigin[p] = None) <=> (StoredTokens[p] = None)
       /\ StoredOrigin[p] \in Code => StoredCodes[StoredOrigin[p]] # None
       /\ StoredOrigin[p] \in Pair =>
            /\ StoredTokens[StoredOrigin[p]] # None
            /\ StoredTokens[StoredOrigin[p]].refreshExpires # None
            /\ StoredTokens[StoredOrigin[p]].revoked
       /\ StoredTokens[p] # None /\ StoredTokens[p].revoked
            => \E q \in Pair : StoredOrigin[q] = p
       /\ \A q \in Pair : StoredOrigin[p] \in Pair /\ StoredOrigin[q] = StoredOrigin[p]
                            => q = p

\* The scopes of the clients were not narrowed since.
ASSUME ScopesAssumption ==
  /\ \A c \in Code : StoredCodes[c] # None
                       => StoredCodes[c].scope \subseteq ClientScopes[StoredCodes[c].client]
  /\ \A p \in Pair : StoredOrigin[p] # None =>
       LET parent == IF StoredOrigin[p] \in Code THEN StoredCodes[StoredOrigin[p]]
                     ELSE StoredTokens[StoredOrigin[p]]
       IN StoredTokens[p].client = parent.client /\ StoredTokens[p].scope = parent.scope

VARIABLES
  config,    \* the configuration of this run of the server
  clock,     \* seconds
  codes,     \* oauth_auth_codes as the connection reads it
  tokens,    \* oauth_tokens as the connection reads it
  saved,     \* both tables as committed
  holder,    \* the thread inside the store's mutex
  sessions,  \* SessionManager: when each session expires
  buckets,   \* TokenRateLimiter: the stamps of the requests it let through
  forms,     \* who holds the static mutex of GET and of POST /oauth/authorize
  pc, job,   \* where each thread is, and its request
  arrivals, faults, \* bounds
  origin,    \* the code or pair each committed pair came from (for properties)
  lapses,    \* how often a code was redeemed and stayed unused (for properties)
  admitted   \* the requests the limiter let through in this run, each with the time
             \* it read and the time it passed (for properties)

tables == <<codes, tokens, saved, holder, origin, lapses>>
limits == <<buckets, admitted>>
bounds == <<arrivals, faults>>
vars == <<config, clock, tables, sessions, limits, forms, pc, job, bounds>>

Places == {"idle", "form", "validate", "login", "session", "insertCode",
           "limit", "client", "consume", "consumeCommit", "issue",
           "rotate", "revoke", "mint", "bearer", "handler", "granted", "answer"}

Passage == [asked : Nat, passed : Nat]

TypeOK ==
  /\ config \in Config /\ clock \in Nat
  /\ codes \in [Code -> CodeRow \cup {None}]
  /\ tokens \in [Pair -> TokenRow \cup {None}]
  /\ saved \in [codes : [Code -> CodeRow \cup {None}],
                tokens : [Pair -> TokenRow \cup {None}]]
  /\ holder \in Thread \cup {None}
  /\ sessions \in [Session -> Nat \cup {None}]
  /\ buckets \in [Client -> Seq(Nat)] /\ admitted \in [Client -> Seq(Passage)]
  /\ forms \in [{"get", "post"} -> Thread \cup {None}]
  /\ pc \in [Thread -> Places]
  /\ job \in [Thread -> [req : RequestType \cup {None}, now : Nat]]
  /\ \A t \in Thread : pc[t] # "idle" => job[t].req # None
  /\ arrivals \in Nat /\ faults \in Nat
  /\ origin \in [Pair -> Grant \cup {None}] /\ lapses \in [Code -> Nat]

NoJob == [req |-> None, now |-> 0]

Init ==
  /\ config \in Config /\ clock = 1
  /\ codes = StoredCodes /\ tokens = StoredTokens
  /\ saved = [codes |-> StoredCodes, tokens |-> StoredTokens]
  /\ origin = StoredOrigin /\ lapses = StoredLapses
  /\ holder = None
  /\ sessions = [s \in Session |-> None]
  /\ buckets = [c \in Client |-> <<>>] /\ admitted = [c \in Client |-> <<>>]
  /\ forms = [d \in {"get", "post"} |-> None]
  /\ pc = [t \in Thread |-> "idle"]
  /\ job = [t \in Thread |-> NoJob]
  /\ arrivals = 0 /\ faults = 0

Req(t) == job[t].req
Go(t, place) == pc' = [pc EXCEPT ![t] = place]

\* The limiter and the methods of the store that write read the clock first and wait
\* for their mutex then: the step that leads to one keeps the time.
GoOn(t, place) ==
  /\ Go(t, place)
  /\ job' = IF place \in {"insertCode", "issue", "rotate"} THEN [job EXCEPT ![t].now = clock]
            ELSE job

(***************************************************************************)
(* Arrivals and answers.  The authorize handlers hold a mutex that is      *)
(* static in each of the two lambdas, so GET and POST do not exclude each  *)
(* other.                                                                  *)
(***************************************************************************)
Door(r) == IF r.kind = "get" THEN "get" ELSE "post"

FirstPlace(r) ==
  CASE r.kind \in {"get", "login", "approve", "deny"} -> "form"
    [] r.kind \in {"code", "refresh"} -> "limit"
    [] r.kind = "call" -> "bearer"

Arrive(t) ==
  /\ pc[t] = "idle" /\ arrivals < MaxArrivals
  /\ \E r \in Request :
       /\ job' = [job EXCEPT ![t] =
                    [req |-> r, now |-> IF FirstPlace(r) = "limit" THEN clock ELSE 0]]
       /\ Go(t, FirstPlace(r))
  /\ arrivals' = arrivals + 1
  /\ UNCHANGED <<config, clock, tables, sessions, limits, forms, faults>>

\* (faulty) The worker forgets its request before it has finished.
AnswerForgetting(t) ==
  /\ pc[t] \in {"answer", "granted", "handler"}
  /\ Go(t, "answer")
  /\ job' = [job EXCEPT ![t] = NoJob]
  /\ UNCHANGED <<config, clock, tables, sessions, limits, forms, bounds>>

Answer(t) ==
  /\ pc[t] \in {"answer", "granted", "handler"}
  /\ Go(t, "idle")
  /\ job' = [job EXCEPT ![t] = NoJob]
  /\ forms' = [d \in {"get", "post"} |-> IF forms[d] = t THEN None ELSE forms[d]]
  /\ UNCHANGED <<config, clock, tables, sessions, limits, bounds>>

(***************************************************************************)
(* The authorize form.                                                     *)
(***************************************************************************)
EnterForm(t) ==
  /\ pc[t] = "form" /\ forms[Door(Req(t))] = None
  /\ forms' = [forms EXCEPT ![Door(Req(t))] = t]
  /\ Go(t, "validate")
  /\ UNCHANGED <<config, clock, tables, sessions, limits, job, bounds>>

\* Without a scope parameter a client asks for all it may have.
RequestedScope(r) == IF r.scope = {} THEN ClientScopes[r.client] ELSE r.scope

RedirectUrisMatch(u, allowed) == Canonical(u) = Canonical(allowed)

Valid(r) ==
  /\ r.client \in Registered
  /\ \E u \in ClientRedirects[r.client] \cup UiRedirects : RedirectUrisMatch(r.redirect, u)
  /\ r.redirect \in Trusted
  /\ RequestedScope(r) \subseteq ClientScopes[r.client]

AfterValidation(r) ==
  IF ~Valid(r) THEN "answer"
  ELSE IF config.simple THEN "insertCode"
  ELSE IF r.kind = "login" THEN "login" ELSE "session"

\* validate_authorize looks the client up in the store.
Validate(t) ==
  /\ pc[t] = "validate" /\ holder = None
  /\ GoOn(t, AfterValidation(Req(t)))
  /\ UNCHANGED <<config, clock, tables, sessions, limits, forms, bounds>>

\* The name of a new session is drawn at random; here the request foretells it.
Login(t) ==
  /\ pc[t] = "login"
  /\ sessions' = IF Req(t).good THEN [sessions EXCEPT ![Req(t).session] = clock + SessionTtl]
                 ELSE sessions
  /\ Go(t, "answer")
  /\ UNCHANGED <<config, clock, tables, limits, forms, job, bounds>>

\* SessionManager::Validate forgets a session that it finds expired.
CheckSession(t) ==
  LET s == Req(t).session
      live == sessions[s] # None /\ sessions[s] > clock
  IN /\ pc[t] = "session"
     /\ sessions' = IF live THEN sessions ELSE [sessions EXCEPT ![s] = None]
     /\ GoOn(t, IF live /\ Req(t).kind = "approve" THEN "insertCode" ELSE "answer")
     /\ UNCHANGED <<config, clock, tables, limits, forms, bounds>>

\* GenerateTokenString draws a name that nothing has; which one does not matter.
NewCodes == {c \in Code : codes[c] = None}
NewPairs == {p \in Pair : tokens[p] = None}
Draw(names) == CHOOSE x \in names : TRUE

NewCode(t) ==
  [client |-> Req(t).client, redirect |-> Req(t).redirect, scope |-> RequestedScope(Req(t)),
   expires |-> job[t].now + CodeTtl, consumed |-> FALSE]

\* A single INSERT, which commits at once.
IssueAuthorizationCode(t) ==
  /\ pc[t] = "insertCode" /\ holder = None
  /\ NewCodes # {}
  /\ codes' = [codes EXCEPT ![Draw(NewCodes)] = NewCode(t)]
  /\ saved' = [saved EXCEPT !.codes[Draw(NewCodes)] = NewCode(t)]
  /\ Go(t, "answer")
  /\ UNCHANGED <<config, clock, tokens, holder, origin, lapses, sessions, limits, forms, job,
                 bounds>>

(***************************************************************************)
(* The token endpoint.                                                     *)
(***************************************************************************)
\* (faulty) A stamp as old as the window is dropped already.
RecentShort(stamps, now) ==
  LET old == {i \in DOMAIN stamps : \A j \in 1..i : now - stamps[j] >= Window}
  IN SubSeq(stamps, Cardinality(old) + 1, Len(stamps))

\* TokenRateLimiter drops stamps from the front until one is not older than the
\* window.  The stamps need not be in order.
Recent(stamps, now) ==
  LET old == {i \in DOMAIN stamps : \A j \in 1..i : now - stamps[j] > Window}
  IN SubSeq(stamps, Cardinality(old) + 1, Len(stamps))

\* A limit of 0 switches the limiter off.
Limiting == MaxTokenRequests > 0 /\ Window > 0

Allow(t) ==
  LET c == Req(t).client
      now == job[t].now
      recent == Recent(buckets[c], now)
      allowed == Limiting => Len(recent) < MaxTokenRequests
  IN /\ pc[t] = "limit"
     /\ buckets' = IF ~Limiting THEN buckets
                   ELSE [buckets EXCEPT ![c] = IF allowed THEN Append(recent, now)
                                               ELSE recent]
     /\ admitted' = IF allowed
                    THEN [admitted EXCEPT ![c] = Append(@, [asked |-> now, passed |-> clock])]
                    ELSE admitted
     /\ Go(t, IF allowed THEN "client" ELSE "answer")
     /\ UNCHANGED <<config, clock, tables, sessions, forms, job, bounds>>

\* GetClient and the comparison of the secrets.
CheckClient(t) ==
  /\ pc[t] = "client" /\ holder = None
  /\ GoOn(t, IF Req(t).client \notin Registered \/ ~Req(t).good THEN "answer"
           ELSE IF Req(t).kind = "code" THEN "consume" ELSE "rotate")
  /\ UNCHANGED <<config, clock, tables, sessions, limits, forms, bounds>>

\* IsExpired: a time of 0 or less never expires.
IsExpired(time) == time > 0 /\ time <= clock

\* (faulty) A consumed code is good until it expires.
RedeemableAgain(r) ==
  LET row == codes[r.code]
  IN /\ row # None
     /\ row.client = r.client /\ row.redirect = r.redirect
     /\ ~IsExpired(row.expires)

Redeemable(r) ==
  LET row == codes[r.code]
  IN /\ row # None
     /\ row.client = r.client /\ row.redirect = r.redirect
     /\ ~IsExpired(row.expires) /\ ~row.consumed

\* (faulty) The early return for a bad code does not end the transaction.
ConsumeBeginOpen(t) ==
  /\ pc[t] = "consume" /\ holder = None
  /\ holder' = t
  /\ Go(t, IF Redeemable(Req(t)) THEN "consumeCommit" ELSE "answer")
  /\ UNCHANGED <<config, clock, codes, tokens, saved, origin, lapses, sessions, limits, forms,
                 job, bounds>>

\* BEGIN IMMEDIATE and the SELECT; ROLLBACK when the code cannot be redeemed.
ConsumeBegin(t) ==
  /\ pc[t] = "consume" /\ holder = None
  /\ IF Redeemable(Req(t)) THEN holder' = t /\ Go(t, "consumeCommit")
     ELSE UNCHANGED holder /\ Go(t, "answer")
  /\ UNCHANGED <<config, clock, codes, tokens, saved, origin, lapses, sessions, limits, forms,
                 job, bounds>>

\* The UPDATE and a COMMIT that goes through.
ConsumeCommit(t) ==
  /\ pc[t] = "consumeCommit" /\ holder = t
  /\ codes' = [codes EXCEPT ![Req(t).code].consumed = TRUE]
  /\ saved' = [saved EXCEPT !.codes = codes']
  /\ holder' = None
  /\ GoOn(t, "issue")
  /\ UNCHANGED <<config, clock, tokens, origin, lapses, sessions, limits, forms, bounds>>

\* The COMMIT fails (a full disk, an I/O error) and SQLite rolls the transaction back.
\* The method does not look at the result and returns the authorization all the same.
ConsumeLapse(t) ==
  /\ pc[t] = "consumeCommit" /\ holder = t
  /\ faults < MaxFaults
  /\ faults' = faults + 1
  /\ lapses' = [lapses EXCEPT ![Req(t).code] = @ + 1]
  /\ holder' = None
  /\ GoOn(t, "issue")
  /\ UNCHANGED <<config, clock, codes, tokens, saved, origin, sessions, limits, forms,
                 arrivals>>

\* A refresh token comes with the pair if the configuration says so.
NewToken(client, scope, now, refresh) ==
  [client |-> client, scope |-> scope, accessExpires |-> now + AccessTtl,
   refreshExpires |-> IF refresh THEN now + RefreshTtl ELSE None, revoked |-> FALSE]

RefreshIssued == config.refresh /\ RefreshTtl > 0

\* (faulty) The code's expiry is checked once more, after it was consumed.
IssueTokensUnlessExpired(t) ==
  LET c == Req(t).code
      row == NewToken(codes[c].client, codes[c].scope, job[t].now, RefreshIssued)
  IN /\ pc[t] = "issue" /\ holder = None
     /\ NewPairs # {}
     /\ IF IsExpired(codes[c].expires) THEN UNCHANGED <<tokens, saved, origin>>
        ELSE /\ tokens' = [tokens EXCEPT ![Draw(NewPairs)] = row]
             /\ saved' = [saved EXCEPT !.tokens[Draw(NewPairs)] = row]
             /\ origin' = [origin EXCEPT ![Draw(NewPairs)] = c]
     /\ Go(t, "granted")
     /\ UNCHANGED <<config, clock, codes, holder, lapses, sessions, limits, forms, job,
                    bounds>>

\* (faulty) The token gets all that the client may have.
IssueTokensAllScopes(t) ==
  LET c == Req(t).code
      row == NewToken(codes[c].client, ClientScopes[codes[c].client], job[t].now, RefreshIssued)
  IN /\ pc[t] = "issue" /\ holder = None
     /\ NewPairs # {}
     /\ tokens' = [tokens EXCEPT ![Draw(NewPairs)] = row]
     /\ saved' = [saved EXCEPT !.tokens[Draw(NewPairs)] = row]
     /\ origin' = [origin EXCEPT ![Draw(NewPairs)] = c]
     /\ Go(t, "granted")
     /\ UNCHANGED <<config, clock, codes, holder, lapses, sessions, limits, forms, job,
                    bounds>>

IssueTokens(t) ==
  LET c == Req(t).code
      row == NewToken(codes[c].client, codes[c].scope, job[t].now, RefreshIssued)
  IN /\ pc[t] = "issue" /\ holder = None
     /\ NewPairs # {}
     /\ tokens' = [tokens EXCEPT ![Draw(NewPairs)] = row]
     /\ saved' = [saved EXCEPT !.tokens[Draw(NewPairs)] = row]
     /\ origin' = [origin EXCEPT ![Draw(NewPairs)] = c]
     /\ Go(t, "granted")
     /\ UNCHANGED <<config, clock, codes, holder, lapses, sessions, limits, forms, job,
                    bounds>>

\* The comparison uses the time read before the wait for the mutex.
Rotatable(p, now) ==
  LET row == tokens[p]
  IN /\ row # None /\ row.refreshExpires # None
     /\ ~row.revoked
     /\ row.refreshExpires > now
     /\ RefreshIssued

RotateBegin(t) ==
  /\ pc[t] = "rotate" /\ holder = None
  /\ IF Rotatable(Req(t).pair, job[t].now) THEN holder' = t /\ Go(t, "revoke")
     ELSE UNCHANGED holder /\ Go(t, "answer")
  /\ UNCHANGED <<config, clock, codes, tokens, saved, origin, lapses, sessions, limits, forms,
                 job, bounds>>

\* (faulty) Without BEGIN the UPDATE commits at once.
RevokeAutocommit(t) ==
  /\ pc[t] = "revoke" /\ holder = t
  /\ tokens' = [tokens EXCEPT ![Req(t).pair].revoked = TRUE]
  /\ saved' = [saved EXCEPT !.tokens = tokens']
  /\ Go(t, "mint")
  /\ UNCHANGED <<config, clock, codes, holder, origin, lapses, sessions, limits, forms, job,
                 bounds>>

Revoke(t) ==
  /\ pc[t] = "revoke" /\ holder = t
  /\ tokens' = [tokens EXCEPT ![Req(t).pair].revoked = TRUE]
  /\ Go(t, "mint")
  /\ UNCHANGED <<config, clock, codes, saved, holder, origin, lapses, sessions, limits, forms,
                 job, bounds>>

\* The INSERT of the new pair and a COMMIT that goes through.
RotateCommit(t) ==
  LET old == Req(t).pair
      row == NewToken(tokens[old].client, tokens[old].scope, job[t].now, TRUE)
  IN /\ pc[t] = "mint" /\ holder = t
     /\ NewPairs # {}
     /\ tokens' = [tokens EXCEPT ![Draw(NewPairs)] = row]
     /\ origin' = [origin EXCEPT ![Draw(NewPairs)] = old]
     /\ saved' = [saved EXCEPT !.tokens = tokens']
     /\ holder' = None
     /\ Go(t, "granted")
     /\ UNCHANGED <<config, clock, codes, lapses, sessions, limits, forms, job, bounds>>

\* The COMMIT fails and is rolled back.  The method does not look at the result: it
\* answers with a pair that is in no table, and the old one stays as it was.
RotateLapse(t) ==
  /\ pc[t] = "mint" /\ holder = t
  /\ faults < MaxFaults
  /\ faults' = faults + 1
  /\ tokens' = saved.tokens
  /\ holder' = None
  /\ Go(t, "granted")
  /\ UNCHANGED <<config, clock, codes, saved, origin, lapses, sessions, limits, forms, job,
                 arrivals>>

\* A statement other than COMMIT fails and throws (the other connection writes, a full
\* disk, an I/O error): an open transaction is rolled back, the mutex released, and
\* the handler answers with an error.  BEGIN IMMEDIATE wants to write already.
StatementFails(t) ==
  /\ \/ pc[t] \in {"insertCode", "consume", "issue", "rotate"} /\ holder = None
     \/ pc[t] \in {"consumeCommit", "revoke", "mint"} /\ holder = t
  /\ faults < MaxFaults
  /\ faults' = faults + 1
  /\ codes' = saved.codes /\ tokens' = saved.tokens
  /\ holder' = None
  /\ Go(t, "answer")
  /\ UNCHANGED <<config, clock, saved, origin, lapses, sessions, limits, forms, job, arrivals>>

(***************************************************************************)
(* The bearer check in front of every API handler.                         *)
(***************************************************************************)
\* (faulty) Only the expiry is looked at.
AccessGrantedUnexpired(r) ==
  LET row == tokens[r.pair]
  IN row # None /\ row.accessExpires > clock /\ r.scope \subseteq row.scope

AccessGranted(r) ==
  LET row == tokens[r.pair]
  IN /\ row # None /\ ~row.revoked
     /\ row.accessExpires > clock
     /\ r.scope \subseteq row.scope

FindAccessToken(t) ==
  /\ pc[t] = "bearer" /\ holder = None
  /\ Go(t, IF AccessGranted(Req(t)) THEN "handler" ELSE "answer")
  /\ UNCHANGED <<config, clock, tables, sessions, limits, forms, job, bounds>>

(***************************************************************************)
(* Time, crashes and restarts.                                             *)
(***************************************************************************)
Tick ==
  /\ clock < MaxTime
  /\ clock' = clock + 1
  /\ UNCHANGED <<config, tables, sessions, limits, forms, pc, job, bounds>>

\* The server restarts, perhaps with another configuration.  Sessions, the
\* limiter and whatever was not committed are gone.
Crash ==
  /\ faults < MaxFaults
  /\ faults' = faults + 1
  /\ config' \in Config
  /\ codes' = saved.codes /\ tokens' = saved.tokens
  /\ holder' = None
  /\ sessions' = [s \in Session |-> None]
  /\ buckets' = [c \in Client |-> <<>>] /\ admitted' = [c \in Client |-> <<>>]
  /\ forms' = [d \in {"get", "post"} |-> None]
  /\ pc' = [t \in Thread |-> "idle"]
  /\ job' = [t \in Thread |-> NoJob]
  /\ UNCHANGED <<clock, saved, origin, lapses, arrivals>>

Step(t) ==
  \/ EnterForm(t) \/ Validate(t) \/ Login(t) \/ CheckSession(t)
  \/ IssueAuthorizationCode(t)
  \/ Allow(t) \/ CheckClient(t) \/ ConsumeBegin(t) \/ ConsumeCommit(t) \/ IssueTokens(t)
  \/ RotateBegin(t) \/ Revoke(t) \/ RotateCommit(t)
  \/ FindAccessToken(t) \/ Answer(t)

Fault(t) == StatementFails(t) \/ ConsumeLapse(t) \/ RotateLapse(t)

Next ==
  \/ \E t \in Thread : Step(t) \/ Arrive(t) \/ Fault(t)
  \/ Tick \/ Crash

Spec == Init /\ [][Next]_vars

\* Threads that can run are scheduled.
FairSpec == Spec /\ \A t \in Thread : WF_vars(Step(t))

(***************************************************************************)
(* Properties.                                                             *)
(***************************************************************************)
StandingOfCode(row) ==
  IF row = None THEN "new" ELSE IF row.consumed THEN "spent" ELSE "live"

StandingOfPair(row) ==
  IF row = None THEN "new"
  ELSE IF row.refreshExpires = None THEN "new"
  ELSE IF row.revoked THEN "spent" ELSE "live"

\* The abstract view of the two tables on disk.
Standing == [g \in Grant |-> IF g \in Code THEN StandingOfCode(saved.codes[g])
                                      ELSE StandingOfPair(saved.tokens[g])]

OneUse == INSTANCE OneTimeGrants WITH standing <- Standing, source <- origin

\* Requests that race for one authorization code or one refresh token, retries,
\* crashes and statements that throw never make a grant yield two token pairs.  Only
\* a COMMIT that fails does: each one that ConsumeAuthorizationCode overlooks lets
\* its code yield one pair more; a refresh token yields one pair even then
\* (ConsumeAuthorizationCode, IssueTokens, RotateRefreshToken).
GrantsUsedOnce == OneUse!Spec

\* "Auth codes must be single-use" (tests/oauth_flow_test.cpp:332): no two token
\* pairs come from one authorization code.
CodesSingleUse ==
  \A p, q \in Pair : origin[p] \in Code /\ origin[q] = origin[p] => q = p

\* A refresh token on disk is revoked only together with its successor: no crash
\* or error inside RotateRefreshToken takes a client's last token away.
RotationIsWhole ==
  \A p \in Pair : saved.tokens[p] # None /\ saved.tokens[p].revoked
                  => \E q \in Pair : origin[q] = p

Barren(c) == saved.codes[c] # None /\ saved.codes[c].consumed /\ \A p \in Pair : origin[p] # c
Redeeming == {t \in Thread : pc[t] \in {"issue"}}

UsedBefore(c) == StoredCodes[c] # None /\ StoredCodes[c].consumed

\* The two methods of the code grant lose a consumed code only when the server
\* crashes or a statement fails between them: one code each time per worker.
CodesYieldTokens ==
  Cardinality({c \in Code : Barren(c) /\ ~UsedBefore(c)})
    <= Cardinality(Redeeming) + faults * Cardinality(Thread)

\* However often it is rotated, a token keeps the client and the scope that the
\* administrator approved with the code, which the client was allowed to ask for.
ScopesNeverGrow ==
  /\ \A c \in Code : codes[c] # None => codes[c].scope \subseteq ClientScopes[codes[c].client]
  /\ \A p \in Pair : origin[p] # None =>
       LET parent == IF origin[p] \in Code THEN codes[origin[p]] ELSE tokens[origin[p]]
       IN tokens[p].client = parent.client /\ tokens[p].scope = parent.scope

\* A request reads the clock and waits for the limiter's mutex then.  However the
\* waits overlap, of the requests of a client that do both, read the clock and pass,
\* within one window of time the limiter lets at most MaxTokenRequests through
\* (TokenRateLimiter).
RateHeld ==
  Limiting => \A c \in Client : \A from \in 0..MaxTime :
    Cardinality({i \in DOMAIN admitted[c] : /\ admitted[c][i].asked >= from
                                            /\ admitted[c][i].passed <= from + Window})
      <= MaxTokenRequests

\* Once a pair has a successor its access token opens no API handler any more,
\* although the access token has not expired (the row is revoked as a whole).
AccessEndsWithRotation ==
  [][\A t \in Thread : pc[t] = "bearer" /\ pc'[t] = "handler"
       => \A q \in Pair : origin[q] # Req(t).pair]_vars

\* The static mutexes of the authorize form, the store's mutex and the open
\* transactions never block each other: every request is answered or dies in a crash.
EveryRequestAnswered == \A t \in Thread : pc[t] # "idle" ~> pc[t] = "idle"
==============================================================================
