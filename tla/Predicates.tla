----------------------------- MODULE Predicates -----------------------------
(***************************************************************************)
(* The predicate vocabulary of the checklist store: what the tokens on     *)
(* relationship edges mean, and how the gates and the Verify bridge turn   *)
(* the values of source rows into a write.  Tokens are parsed from strings *)
(* by the code (ParseCanonicalPredicateToken, ParseVerifyPredicateToken,   *)
(* ParseSlotPredicateToken); here a predicate is the record those parsers  *)
(* return, with the three epistemic types Validated/Implied/Assumed, which *)
(* the daemon never tells apart, folded into gate "None".                  *)
(*                                                                         *)
(* Texts are tagged tuples, so that a text copied from one column to       *)
(* another keeps its meaning and TLC can compare any two of them.          *)
(***************************************************************************)
EXTENDS Integers, FiniteSets

CONSTANT None       \* "absent": an unset optional, a NULL, a missing row

-----------------------------------------------------------------------------
(* Statuses and the texts that columns hold.                               *)

Status == {"Pass", "Fail", "NA", "Other", "Unknown"}

\* The statuses a predicate token can name: there is no token for Unknown.
Asserted == Status \ {"Unknown"}

StatusText(s) == <<"status", s>>
VerdictText(v) == <<"verdict", v>>
TimeText(t) == <<"time", t>>

\* The provenance comment of a status propagation.
FilledText(predicate, subject) == <<"filled", predicate, subject>>

Blank == <<"typed", "">>

\* ParseStatus: the status a text spells, Unknown when it spells none.
ParseStatus(text) == IF text[1] = "status" THEN text[2] ELSE "Unknown"

\* IsIsoTimestamp: the text is a timestamp.
IsTimestamp(text) == text[1] = "time"

-----------------------------------------------------------------------------
(* Predicate tokens.                                                       *)

Gate == {"None", "And", "Or"}

\* Section, action, spec and procedure never change and are "Template".
Field == {"Result", "Status", "Comment", "Timestamp", "Template", "Instructions"}

\* passPropagateImpliedPass, failPropagateAndGateOther, ...
StatusPredicate ==
  [kind : {"propagate"}, when : Asserted, gate : Gate, target : Asserted]

\* BoolVerifyValidatedStatus, BoolVerifyAndGateComment, BoolVerifyAssumedFail...
VerifyPredicate ==
  [kind : {"verify"}, gate : Gate, object : {"Status", "Comment"} \cup Asserted]

\* ResultPropagateValidatedComment, failPropagateValidatedResult (a status
\* used as a filter names the Status field as its source), ...
CopyPredicate ==
  [kind : {"copy"}, from : Field, only : Asserted \cup {None}, to : Field]

\* ResultSearchPrefillComment, passSearchPrefillResult, ...
PrefillPredicate ==
  [kind : {"prefill"}, from : Field, only : Asserted \cup {None}, to : Field]

\* Tokens no parser of the daemon acts on: Sync, plain labels, extensions.
InertPredicate == [kind : {"inert"}]

PredicateToken ==
  StatusPredicate \cup VerifyPredicate \cup CopyPredicate
    \cup PrefillPredicate \cup InertPredicate

-----------------------------------------------------------------------------
(* The Verify bridge.                                                      *)

Verdict == {"TRUE", "FALSE", "INDETERMINATE"}

\* EvaluateVerifyGate over the verdicts of the contributors; `count' says
\* how many contributors gave each verdict.
GateVerdict(gate, count) ==
  IF \A v \in Verdict : count[v] = 0 THEN "INDETERMINATE"
  ELSE IF gate = "And"
       THEN IF count["FALSE"] > 0 THEN "FALSE"
            ELSE IF count["INDETERMINATE"] > 0 THEN "INDETERMINATE"
            ELSE "TRUE"
       ELSE IF count["TRUE"] > 0 THEN "TRUE"
            ELSE IF count["INDETERMINATE"] > 0 THEN "INDETERMINATE"
            ELSE "FALSE"

\* BuildVerifyWritePlan: the status and the comment to write, None for neither.
WritePlan(object, verdict) ==
  [status |-> IF object = "Comment" THEN None
              ELSE IF verdict = "TRUE"
                   THEN IF object = "Status" THEN "Pass" ELSE object
              ELSE IF verdict = "FALSE" /\ object = "Status" THEN "Fail"
              ELSE None,
   comment |-> IF object = "Comment" THEN VerdictText(verdict) ELSE None]

\* IsPropagateTargetField and IsWritableSlotField.
PropagateTarget == {"Result", "Status", "Comment"}
Writable == PropagateTarget \cup {"Timestamp"}
=============================================================================
