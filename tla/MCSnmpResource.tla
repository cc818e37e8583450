--------------------------- MODULE MCSnmpResource ---------------------------
(***************************************************************************)
(* Small instances of SnmpResource: how often the user, the operator and   *)
(* the network interfere.                                                  *)
(***************************************************************************)
EXTENDS SnmpResource

Disturbed == [e \in Event |-> IF e = "edit" THEN 2 ELSE 1]
OneEdit   == [e \in Event |-> IF e = "edit" THEN 1 ELSE 0]

=============================================================================
