---------------------------- MODULE SharedSwitch ----------------------------
(***************************************************************************)
(* Resources that write each other's part of one switch: cisco_svi sends   *)
(* "ip routing" before it configures its interface, and that line is       *)
(* cisco_ip_routing's, which may ask for the opposite.  Terraform knows of *)
(* no dependency between them and runs them in any order; an operation is  *)
(* one step here, for opMu makes it one (SerialClient), and to execute its *)
(* batch twice changes nothing.                                            *)
(*                                                                         *)
(* The helpers stand for all that Update adds and never removes and that a *)
(* read keeps when the switch has none (ResourceKinds.Svi has each).       *)
(***************************************************************************)
EXTENDS Naturals

CONSTANTS
    SVI,         \* the cisco_svi resources
    Address,     \* the addresses of their interfaces
    Helper,      \* the values of dhcp_servers
    None,        \* an interface that has no address yet
    Absent,      \* not in the file, not in the state, not on the switch
    Budget       \* Event -> how often each event may happen

Resource == SVI \cup {"ip_routing"}
Event    == {"edit", "drift", "fail"}
Config   == [address : Address, helpers : SUBSET Helper]

\* What the file can say, and what the running configuration can have.
File(r) == (IF r \in SVI THEN Config ELSE {"on", "off"}) \cup {Absent}
Cell(r) == IF r \in SVI
           THEN [address : Address \cup {None}, helpers : SUBSET Helper] \cup {Absent}
           ELSE {"on", "off"}

ASSUME SviAssumption    == "ip_routing" \notin SVI
ASSUME BudgetAssumption == Budget \in [Event -> Nat]
ASSUME NamesAssumption  ==
    /\ None \notin Address /\ Absent \notin {"on", "off"}
    /\ Absent \notin [address : Address \cup {None}, helpers : SUBSET Helper]

VARIABLES
    want,        \* what the .tf file says of each resource
    state,       \* what Terraform's state says of it
    tainted,     \* the SVIs whose Create was not accepted
    running,     \* the running configuration
    pending,     \* the operations of this apply that have not run
    clean,       \* none of its operations has failed
    calm,        \* complete applies since the last event; 3: or more
    spent        \* Event -> how often it has happened

vars == <<want, state, tainted, running, pending, clean, calm, spent>>

Init ==
    /\ \E svis \in [SVI -> Config \cup {Absent}], routing \in File("ip_routing") :
          want = [r \in Resource |-> IF r \in SVI THEN svis[r] ELSE routing]
    /\ state = [r \in Resource |-> Absent] /\ tainted = {}
    /\ running = [r \in Resource |-> IF r \in SVI THEN Absent ELSE "off"]
    /\ pending = {} /\ clean = TRUE /\ calm = 0
    /\ spent = [e \in Event |-> 0]

Happens(e) == spent[e] < Budget[e] /\ spent' = [spent EXCEPT ![e] = @ + 1]

-----------------------------------------------------------------------------
(***************************************************************************)
(* The batches.  Create and Update of an SVI begin with the routing and    *)
(* add helpers to those there are; Delete leaves the routing.              *)
(***************************************************************************)
Opened(r)   == IF running[r] = Absent THEN [address |-> None, helpers |-> {}] ELSE running[r]
Changed(r, helpers) ==
    [address |-> want[r].address, helpers |-> Opened(r).helpers \cup helpers]

Routed(r, cell) == [running EXCEPT !["ip_routing"] = "on", ![r] = cell]
Written(r)      == Changed(r, want[r].helpers)

\* What a batch that stops somewhere leaves.
StoppedSvi(r) ==
    IF want[r] = Absent \/ r \in tainted THEN {running, [running EXCEPT ![r] = Absent]}
    ELSE {running, Routed(r, running[r]), Routed(r, Opened(r))}
         \cup { Routed(r, Changed(r, h)) : h \in SUBSET want[r].helpers }

\* Delete is "no ip routing".
RoutingSet == [running EXCEPT !["ip_routing"] =
                  IF want["ip_routing"] = Absent THEN "off" ELSE want["ip_routing"]]

Stopped(r) == IF r \in SVI THEN StoppedSvi(r) ELSE {running, RoutingSet}

\* updateModelFromInfo: no helper on the switch leaves those of the model.
UpdateModelFromInfo(data, cell) ==
    [address |-> cell.address,
     helpers |-> IF cell.helpers = {} THEN data.helpers ELSE cell.helpers]

\* mutant: the Read of cisco_ip_routing keeps what the state holds
ReadKeepsRouting(r) ==
    IF state[r] = Absent \/ running[r] = Absent THEN Absent
    ELSE IF r \in SVI THEN UpdateModelFromInfo(state[r], running[r]) ELSE state[r]

\* An SVI that is gone is read as gone, as the mock of the tests answers; where
\* the switch refuses the show command instead no apply is complete.
Read(r) ==
    IF state[r] = Absent \/ running[r] = Absent THEN Absent
    ELSE IF r \in SVI THEN UpdateModelFromInfo(state[r], running[r]) ELSE running[r]

-----------------------------------------------------------------------------
Idle    == pending = {}
Differs == { r \in Resource : Read(r) # want[r] \/ (r \in tainted /\ Read(r) # Absent) }
Calmer  == IF calm < 3 THEN calm + 1 ELSE calm

Edit(r, v) ==
    /\ Idle /\ v # want[r] /\ Happens("edit")
    /\ want' = [want EXCEPT ![r] = v] /\ calm' = 0
    /\ UNCHANGED <<state, tainted, running, pending, clean>>

\* By hand.
Drift(r, v) ==
    /\ Idle /\ v # running[r] /\ Happens("drift")
    /\ running' = [running EXCEPT ![r] = v] /\ calm' = 0
    /\ UNCHANGED <<want, state, tainted, pending, clean>>

\* terraform apply: every resource is read, and those that differ are written.
Refresh ==
    /\ Idle
    /\ state' = [r \in Resource |-> Read(r)]
    /\ tainted' = { r \in tainted : Read(r) # Absent }
    /\ pending' = Differs /\ clean' = TRUE
    /\ calm' = IF Differs = {} THEN Calmer ELSE calm
    /\ UNCHANGED <<want, running, spent>>

\* The last operation ends the apply.
Leave(r, ok) ==
    /\ pending' = pending \ {r}
    /\ clean' = (clean /\ ok)
    /\ calm' = IF ~(clean /\ ok) THEN 0 ELSE IF pending = {r} THEN Calmer ELSE calm

\* Create and Update of cisco_svi read back what they wrote, and Terraform
\* takes the result only if it is the plan; a Create it does not take leaves
\* the SVI tainted.
WriteSvi(r) ==
    /\ r \in pending \cap SVI /\ want[r] # Absent /\ r \notin tainted
    /\ LET readBack == UpdateModelFromInfo(want[r], Written(r))
       IN  /\ running' = Routed(r, Written(r))
           /\ state' = [state EXCEPT ![r] = readBack]
           /\ tainted' = IF state[r] = Absent /\ readBack # want[r] THEN tainted \cup {r}
                                                                    ELSE tainted
           /\ Leave(r, readBack = want[r])
    /\ UNCHANGED <<want, spent>>

\* Delete of cisco_svi; a tainted SVI is created again in the same apply.
DestroySvi(r) ==
    /\ r \in pending \cap SVI /\ (want[r] = Absent \/ r \in tainted)
    /\ running' = [running EXCEPT ![r] = Absent]
    /\ state' = [state EXCEPT ![r] = Absent]
    /\ tainted' = tainted \ {r}
    /\ IF want[r] = Absent THEN Leave(r, TRUE) ELSE UNCHANGED <<pending, clean, calm>>
    /\ UNCHANGED <<want, spent>>

\* cisco_ip_routing stores the plan.
WriteRouting ==
    /\ "ip_routing" \in pending
    /\ running' = RoutingSet
    /\ state' = [state EXCEPT !["ip_routing"] = want["ip_routing"]]
    /\ Leave("ip_routing", TRUE)
    /\ UNCHANGED <<want, tainted, spent>>

\* A beginning of the batch is executed, and Terraform's state stays.
OperationFails(r) ==
    /\ r \in pending /\ Happens("fail")
    /\ running' \in Stopped(r)
    /\ Leave(r, FALSE)
    /\ UNCHANGED <<want, state, tainted>>

Next ==
    \/ Refresh \/ WriteRouting
    \/ \E r \in SVI : WriteSvi(r) \/ DestroySvi(r)
    \/ \E r \in Resource : \/ OperationFails(r)
                           \/ \E v \in File(r) : Edit(r, v)
                           \/ \E v \in Cell(r) : Drift(r, v)

Spec == Init /\ [][Next]_vars

-----------------------------------------------------------------------------
TypeOK ==
    /\ DOMAIN want = Resource /\ DOMAIN state = Resource /\ DOMAIN running = Resource
    /\ \A r \in Resource : want[r] \in File(r) /\ state[r] \in Cell(r) \cup {Absent}
                           /\ running[r] \in Cell(r)
    /\ tainted \in SUBSET SVI /\ pending \in SUBSET Resource
    /\ clean \in BOOLEAN /\ calm \in 0..3

\* A change by hand that removes all helpers is the one that a read, which
\* keeps those of the state, does not see.
Configured(r) ==
    want[r] # Absent =>
        IF r \in SVI
        THEN /\ running[r] # Absent /\ running[r].address = want[r].address
             /\ \/ running[r].helpers = want[r].helpers
                \/ running[r].helpers = {} /\ spent["drift"] > 0
        ELSE running[r] = want[r]

(***************************************************************************)
(* Whatever order the operations of an apply run in, and whatever a failed *)
(* apply or an operator has left: after two complete applies of one file   *)
(* every resource of it is on the switch as the file says, although        *)
(* cisco_svi writes what cisco_ip_routing manages (resource_svi.go,        *)
(* "ip routing is always enabled first").  Only helpers that somebody has  *)
(* removed by hand, all of an SVI's, may stay away.                        *)
(***************************************************************************)
TwoAppliesSettle == Idle /\ calm >= 2 => \A r \in Resource : Configured(r)

(***************************************************************************)
(* The same after one apply; not so when a file disables the routing.      *)
(***************************************************************************)
OneApplySettles == Idle /\ calm >= 1 => \A r \in Resource : Configured(r)

(***************************************************************************)
(* The README on cisco_svi: "inter-VLAN routing is always enabled          *)
(* regardless of resource declaration order".  While the file has an SVI   *)
(* and does not disable the routing, two applies leave it enabled.         *)
(***************************************************************************)
RoutingAlwaysEnabled ==
    Idle /\ calm >= 2 /\ want["ip_routing"] # "off" /\ (\E r \in SVI : want[r] # Absent)
        => running["ip_routing"] = "on"

=============================================================================
