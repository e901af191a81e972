---------------------------- MODULE OneTimeGrants ----------------------------
(***************************************************************************)
(* What the OAuth store promises of its grants, without saying how.        *)
(*                                                                         *)
(* A grant is an authorization code or the refresh token of a token pair.  *)
(* Spending a grant and minting its pair are two steps for a code and one  *)
(* for a refresh token; a grant may be spent without ever yielding a pair. *)
(* A grant yields one token pair, and a code one more for every lapse:     *)
(* the server believed it had spent the code, and the disk has not.        *)
(***************************************************************************)
EXTENDS Integers, FiniteSets

CONSTANTS
  None,
  Code,  \* authorization codes
  Pair   \* token pairs; a pair with a refresh token is a grant itself

VARIABLES
  standing,  \* of every grant: "new" (not issued), "live" or "spent"
  source,    \* the grant a token pair was minted from, None before
  lapses     \* how often spending a code went wrong unnoticed

vars == <<standing, source, lapses>>

Grant == Code \cup Pair

TypeOK ==
  /\ standing \in [Grant -> {"new", "live", "spent"}]
  /\ source \in [Pair -> Grant \cup {None}]
  /\ lapses \in [Code -> Nat]

Yield(g) == {p \in Pair : source[p] = g}

\* The number of pairs that a grant may have yielded by now.
Allowed(g) ==
  (IF standing[g] = "spent" THEN 1 ELSE 0) + (IF g \in Code THEN lapses[g] ELSE 0)

Consistent ==
  /\ TypeOK
  /\ \A g \in Grant : IsFiniteSet(Yield(g)) /\ Cardinality(Yield(g)) <= Allowed(g)

\* The store outlives the server: it starts with whatever was issued before.
Init == Consistent

Issue(c) ==
  /\ standing[c] = "new"
  /\ standing' = [standing EXCEPT ![c] = "live"]
  /\ UNCHANGED <<source, lapses>>

Spend(c) ==
  /\ standing[c] = "live"
  /\ standing' = [standing EXCEPT ![c] = "spent"]
  /\ UNCHANGED <<source, lapses>>

Lapse(c) ==
  /\ standing[c] = "live"
  /\ lapses' = [lapses EXCEPT ![c] = @ + 1]
  /\ UNCHANGED <<standing, source>>

\* A pair for a code.
Mint(c, p) ==
  /\ Cardinality(Yield(c)) < Allowed(c)
  /\ source[p] = None
  /\ source' = [source EXCEPT ![p] = c]
  /\ \E s \in {"new", "live"} : standing' = [standing EXCEPT ![p] = s]
  /\ UNCHANGED lapses

\* A refresh token exchanged for its successor.
Exchange(q, p) ==
  /\ standing[q] = "live" /\ Yield(q) = {} /\ p # q
  /\ source[p] = None
  /\ source' = [source EXCEPT ![p] = q]
  /\ standing' = [standing EXCEPT ![q] = "spent", ![p] = "live"]
  /\ UNCHANGED lapses

Next ==
  \/ \E c \in Code : Issue(c) \/ Spend(c) \/ Lapse(c)
  \/ \E c \in Code, p \in Pair : Mint(c, p)
  \/ \E q, p \in Pair : Exchange(q, p)

Spec == Init /\ [][Next]_vars
==============================================================================
