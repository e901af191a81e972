----------------------------- MODULE MCOAuthStore -----------------------------
(***************************************************************************)
(* Two workers; a client that was registered and one that was not; a code  *)
(* c0 that an earlier run redeemed for the pair p0 and a code c1 that is   *)
(* still good.  Requests race for c1, for the refresh token of the pair p1 *)
(* that c1 yields first, and for the use of its access token.              *)
(***************************************************************************)
EXTENDS OAuthStore

CONSTANTS t1, t2, app, stranger, home, alias, s1, c0, c1, c2, c3, c4, p0, p1, p2, p3

MCThread == {t1, t2}
MCClient == {app, stranger}
MCRedirect == {home, alias}
MCScope == {"read", "write"}
MCCode == {c0, c1, c2, c3, c4}
MCPair == {p0, p1, p2, p3}
MCSession == {s1}

MCClientScopes == [c \in {app} |-> {"read", "write"}]
MCClientRedirects == [c \in {app} |-> {home}]
\* 127.0.0.1 and localhost are the same redirect.
MCCanonical(u) == home

MCStoredCodes ==
  [c \in MCCode |->
     IF c \in {c0, c1}
     THEN [client |-> app, redirect |-> home, scope |-> {"read"}, expires |-> 2,
           consumed |-> c = c0]
     ELSE None]

MCStoredTokens ==
  [p \in MCPair |->
     IF p = p0 THEN [client |-> app, scope |-> {"read"}, accessExpires |-> 2,
                     refreshExpires |-> 3, revoked |-> FALSE]
     ELSE None]

MCStoredOrigin == [p \in MCPair |-> IF p = p0 THEN c0 ELSE None]
MCStoredLapses == [c \in MCCode |-> 0]

Sent(kind, client, redirect, scope, code, pair, good) ==
  [kind |-> kind, client |-> client, redirect |-> redirect, scope |-> scope, code |-> code,
   pair |-> pair, session |-> s1, good |-> good]

MCRequest ==
  {Sent("login", app, home, {}, c1, p0, TRUE),
   Sent("approve", app, alias, {}, c1, p0, TRUE),
   Sent("code", app, home, {}, c1, p0, TRUE),
   Sent("refresh", app, home, {}, c1, p1, TRUE),
   Sent("call", app, home, {"read"}, c1, p1, TRUE)}
MCConfig == {[simple |-> FALSE, refresh |-> TRUE]}
==============================================================================
