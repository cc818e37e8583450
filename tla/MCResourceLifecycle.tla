------------------------- MODULE MCResourceLifecycle -------------------------
(***************************************************************************)
(* Small instances of ResourceLifecycle: which resources, and how often    *)
(* the user, the operator and the network interfere.                       *)
(***************************************************************************)
EXTENDS ResourceLifecycle

Events(edit, drift, fail, redo, reboot, import) ==
    [e \in Event |-> CASE e = "edit" -> edit [] e = "drift" -> drift [] e = "fail" -> fail
                       [] e = "redo" -> redo [] e = "reboot" -> reboot
                       [] e = "import" -> import]
Restarts == Events(1, 0, 1, 0, 1, 0)
Repeated == Events(1, 1, 1, 1, 1, 1)
OneEdit  == Events(1, 0, 0, 0, 0, 0)
OneChange == Events(0, 1, 0, 0, 0, 0)

\* Resources whose attributes can all be removed again.
Converging == ReadInFull \cup {"snmp_community", "interface_ip"}

=============================================================================
