-------------------------- MODULE ClientRefinement --------------------------
(***************************************************************************)
(* CiscoClient implements SerialClient while no answer comes late.         *)
(***************************************************************************)
EXTENDS CiscoClient

\* The positions of the commands of an operation that change the switch: the
\* configuration commands of its batch, or its "write memory".
WritesOf(p) ==
    IF Op[p] = "save" THEN {0}
    ELSE IF Op[p] \in {"apply", "delete"}
    THEN { k \in DOMAIN Batch[p] : Batch[p][k].op \in ConfigOp }
    ELSE {}

Serial == INSTANCE SerialClient WITH
    Exclusive <- { p \in Proc : Op[p] \in {"apply", "delete", "save"} },
    Writes    <- [p \in Proc |-> WritesOf(p)],
    Tries     <- [p \in Proc |-> IF Op[p] = "save" THEN 1 ELSE 2],
    phase     <- [p \in Proc |-> IF phase[p] = "failing" THEN "running" ELSE phase[p]],
    owner     <- opMu

(***************************************************************************)
(* "opMu serialises full resource operations ... so that commands from     *)
(* different Terraform goroutines never interleave": whatever the          *)
(* session does, the switch sees operations one after the other, each a    *)
(* beginning of its batch or two, and all of it when it reports success.   *)
(***************************************************************************)
SerialOperations == Serial!Spec

(***************************************************************************)
(* The same, and every operation that begins ends.                         *)
(***************************************************************************)
SerialAndFair == Serial!FairSpec

=============================================================================
