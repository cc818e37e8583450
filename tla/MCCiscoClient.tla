--------------------------- MODULE MCCiscoClient ---------------------------
(***************************************************************************)
(* Small instances of CiscoClient: who runs, what each batch holds, and    *)
(* how many faults may happen.                                             *)
(***************************************************************************)
EXTENDS ClientRefinement, TLC

CONSTANTS conf, vlan, svi, route, refresh, save

\* The provider's Configure, the Create of a VLAN and of an SVI, the Delete of
\* a route, the Read of a refresh, and cisco_write_memory.
Plan == conf :> "configure" @@ vlan :> "apply" @@ svi :> "apply"
        @@ route :> "delete" @@ refresh :> "read" @@ save :> "save"
OpOf == [p \in Proc |-> Plan[p]]

Plain(op) == [op |-> op, eof |-> FALSE]

\* vlan 10, name geofence, end; interface, ip address, end; no ip route, end.
BatchOf ==
    [p \in Proc |->
       CASE Op[p] = "apply"  -> <<Plain("open"), [op |-> "line", eof |-> p = vlan], Plain("end")>>
         [] Op[p] = "delete" -> <<Plain("global"), Plain("end")>>
         [] OTHER            -> <<>>]

Faults(drop, dial, reject, timeout) ==
    [f \in Fault |-> CASE f = "drop" -> drop [] f = "dial" -> dial
                       [] f = "reject" -> reject [] f = "timeout" -> timeout]
LossyLink  == Faults(2, 1, 1, 0)
SlowSwitch == Faults(1, 0, 1, 2)
OneTimeout == Faults(0, 0, 0, 1)
OneRefusal == Faults(0, 0, 1, 0)
OneDialFailure == Faults(1, 1, 0, 0)

RefusedConfig == {"open", "line", "global", "show", "write", "configure"}
RefusedEnable == {"enable"}
RefusedAny    == RefusedConfig \cup RefusedEnable

=============================================================================
