------------------------- MODULE MCServerLifecycle -------------------------
(***************************************************************************)
(* Instance of ServerLifecycle: two commands that bring a server up, the   *)
(* second of which may also be a stop, and one that looks at or stops what *)
(* is there; they run concurrently, so a start can race a start, and a     *)
(* stop a start, a running server or another stop.                         *)
(***************************************************************************)
EXTENDS ServerLifecycle

CONSTANTS c1, c2, c3

KindsPerCommand ==
  [c \in Cmds |-> CASE c = c1 -> {"run"}
                    [] c = c2 -> {"start", "launch", "stop"}
                    [] c = c3 -> {"status", "stop"}]
=============================================================================
