-------------------------------- MODULE GateMC --------------------------------
(* A small instance of the generation gate. *)
EXTENDS GenerationGate, TLC

CONSTANTS t1, t2, t3, t4, u1

(* One lane is configured, the other is created with a limit of one when   *)
(* it is first asked for (GenerationGate(maxConcurrent: 2)).               *)
OneConfigured == [l \in {"interactive"} |-> 2]

TwoLanes == [t \in Tasks |-> IF t = u1 THEN "ingest" ELSE "interactive"]
===============================================================================
