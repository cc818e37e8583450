---------------------------- MODULE ResourceKinds ----------------------------
(***************************************************************************)
(* What the resources of internal/provider/resources write to the switch   *)
(* and what they make of its answer.  Every resource is a table of its     *)
(* attributes, in the order of its commands; the operators below the       *)
(* tables turn a table into the command batches of Create, Update and      *)
(* Delete and into the model a read leaves in Terraform's state.  The      *)
(* access lists and cisco_snmp, whose Delete and Update go by the values   *)
(* in the state, have modules of their own.                                *)
(*                                                                         *)
(* The value of an attribute is the set of its elements: {} is null, a     *)
(* scalar has one element.  The attributes that identify a resource (a     *)
(* VLAN's number, a pool's name) force a new resource and have no row.     *)
(***************************************************************************)
EXTENDS Integers, Sequences, SequencesExt

CONSTANT Text     \* the values of names, addresses and lists

(***************************************************************************)
(* A row:  wants    what the user may ask for                              *)
(*         verb     "set": one command replaces the value                  *)
(*                  "add": one command for each element, values accumulate *)
(*         cleared  when Update sends the "no" command: "never"; "emptied" *)
(*                  (the value goes); "changed" (or is replaced)           *)
(*         unsent   the values Create and Update send no command for       *)
(*         initial  the value of a new or defaulted object                 *)
(*         keep     a read that finds no value keeps the state's,          *)
(*         empty    otherwise it takes this one                            *)
(*         blind    the values a read cannot tell apart                    *)
(*         only     the modes of a port the row is used in; {} is all      *)
(***************************************************************************)
Required(attr, values) ==
    [attr |-> attr, wants |-> { {v} : v \in values }, verb |-> "set",
     cleared |-> "never", unsent |-> [create |-> {}, update |-> {}],
     initial |-> {}, keep |-> FALSE, empty |-> {}, blind |-> {}, only |-> {}]
Optional(attr, values) ==
    [Required(attr, values) EXCEPT !.wants = @ \cup {{}}, !.keep = TRUE]
OptionalList(attr, verb) ==
    [Optional(attr, Text) EXCEPT !.wants = SUBSET Text, !.verb = verb]

(***************************************************************************)
(* A resource:  presence    "object": the switch has it or not; "always":  *)
(*                          it always has; "lines": it has it while some   *)
(*                          attribute has a value                          *)
(*              oneLine     all attributes are on one configuration line   *)
(*              verified    Create and Update read back what they wrote    *)
(***************************************************************************)
Resource(rows) == [rows |-> rows, presence |-> "object", oneLine |-> FALSE,
                   verified |-> TRUE]

\* Create sends "state" only when it is not active, Update always.
Vlan == Resource(<< Required("name", Text),
                    [Required("state", {"active", "suspend"}) EXCEPT
                        !.unsent.create = {"active"}, !.initial = {"active"}] >>)

\* access_group_out is treated line for line as access_group_in, and enabled
\* ("shutdown" or "no shutdown", always sent) as ip_address.
Svi == Resource(<< Optional("description", Text),
                   Required("ip_address", Text),
                   OptionalList("dhcp_servers", "add"),
                   [Optional("access_group", Text) EXCEPT !.cleared = "changed"] >>)

\* A native VLAN of 1 is never sent, and a port without one is read as 0.
\* description is treated as that of Svi, enabled is always sent.
Interface ==
    [Resource(<< [Required("mode", {"access", "trunk"}) EXCEPT !.initial = {"access"}],
                 [Required("access_vlan", Text) EXCEPT !.only = {"access"}, !.empty = {"0"}],
                 [OptionalList("trunk_vlans", "set") EXCEPT
                     !.wants = @ \ {{}}, !.only = {"trunk"}, !.keep = FALSE],
                 [Required("native_vlan", {"1", "9"}) EXCEPT
                     !.only = {"trunk"}, !.empty = {"0"},
                     !.unsent = [create |-> {"1"}, update |-> {"1"}]] >>)
     EXCEPT !.presence = "always"]

\* Read looks for "ip address dhcp" and for "ip address", not at the address.
\* The "no shutdown" that Create adds is the port's enabled, of Interface.
InterfaceIP ==
    [Resource(<< [Required("ip_address", Text \cup {"dhcp"}) EXCEPT !.blind = Text] >>)
     EXCEPT !.presence = "lines", !.verified = FALSE]

\* subnet_mask and the lease go with the network, domain_name is treated as
\* default_router; "dns-server" has the whole list on one line.
DhcpPool == Resource(<< Required("network", Text),
                        Optional("default_router", Text),
                        OptionalList("dns_servers", "set") >>)

\* The hardware address goes with the host, default_router is treated as
\* client_name.
DhcpHost == Resource(<< Required("ip_address", Text),
                        [Optional("client_name", Text) EXCEPT
                            !.cleared = "emptied", !.keep = FALSE] >>)

SnmpCommunity == [Resource(<< Required("access", {"ro", "rw"}), Optional("acl", Text) >>)
                  EXCEPT !.oneLine = TRUE, !.verified = FALSE]

\* A route without a distance has distance 1, and 1 is not sent.
StaticRoute == [Resource(<< [Required("admin_distance", {"1"} \cup Text) EXCEPT
                                !.initial = {"1"}, !.empty = {"1"}] >>)
                EXCEPT !.oneLine = TRUE]

IpRouting == [Resource(<< [Required("enabled", {"up", "down"}) EXCEPT !.initial = {"down"}] >>)
              EXCEPT !.presence = "always", !.oneLine = TRUE, !.verified = FALSE]

\* Both addresses force a new resource: the range is there or not.
DhcpExcludedRange == [Resource(<<>>) EXCEPT !.oneLine = TRUE]

Resources == [vlan |-> Vlan, svi |-> Svi, interface |-> Interface,
              interface_ip |-> InterfaceIP, dhcp_pool |-> DhcpPool,
              dhcp_host |-> DhcpHost, snmp_community |-> SnmpCommunity,
              static_route |-> StaticRoute, ip_routing |-> IpRouting,
              dhcp_excluded_range |-> DhcpExcludedRange]
Kind == DOMAIN Resources

Rows(k) == Resources[k].rows

Attr(k)   == { row.attr : row \in Range(Rows(k)) }
Row(k, a) == CHOOSE row \in Range(Rows(k)) : row.attr = a
Value(k)  == UNION UNION { row.wants : row \in Range(Rows(k)) }

NoModel(k) == [a \in Attr(k) |-> {}]

\* What the user may write.
Models(k) ==
    LET rows == Rows(k)
        upTo[i \in 0..Len(rows)] ==
            IF i = 0 THEN {NoModel(k)}
            ELSE { [m EXCEPT ![rows[i].attr] = w] : m \in upTo[i - 1], w \in rows[i].wants }
    IN  upTo[Len(rows)]

-----------------------------------------------------------------------------
(***************************************************************************)
(* The switch's side: exists is FALSE when it has no such object.          *)
(***************************************************************************)
Initial(k) == [a \in Attr(k) |-> Row(k, a).initial]
Missing(k) == [exists |-> Resources[k].presence # "object", val |-> Initial(k)]

Present(k, r) == IF Resources[k].presence = "lines" THEN \E a \in Attr(k) : r.val[a] # {}
                                                    ELSE r.exists

\* "open" enters the object and creates it, "line" writes all of it at once,
\* "destroy" is its "no" or "default" command.
Exec(k, r, c) ==
    CASE c.do = "open"    -> [r EXCEPT !.exists = TRUE]
      [] c.do = "line"    -> [exists |-> TRUE, val |-> c.val]
      [] c.do = "set"     -> [r EXCEPT !.val[c.attr] = c.val]
      [] c.do = "add"     -> [r EXCEPT !.val[c.attr] = @ \cup c.val]
      [] c.do = "destroy" -> Missing(k)

Command(do, attr, val) == [do |-> do, attr |-> attr, val |-> val]

-----------------------------------------------------------------------------
(***************************************************************************)
(* The command batches.  how is create or update, old the state Update is  *)
(* given ({} everywhere for Create), plan what the user asks for.          *)
(***************************************************************************)
InUse(k, row, m) == row.only = {} \/ m["mode"] \subseteq row.only

\* mutant: Update sends what the plan has, nothing for what it no longer has
CleanupForgotten(row, old, new) == <<>>

Cleanup(row, old, new) ==
    CASE row.cleared = "emptied" /\ old # {} /\ new = {}        -> <<Command("set", row.attr, {})>>
      [] row.cleared = "changed" /\ old # {} /\ old # new       -> <<Command("set", row.attr, {})>>
      [] OTHER -> <<>>

Write(k, row, how, plan) ==
    LET new == plan[row.attr]
    IN  IF new = {} \/ new \subseteq row.unsent[how] \/ ~InUse(k, row, plan) THEN <<>>
        ELSE IF row.verb = "set" THEN <<Command("set", row.attr, new)>>
        ELSE [i \in 1..Cardinality(new) |-> Command("add", row.attr, {SetToSeq(new)[i]})]

BuildCommands(k, how, old, plan) ==
    LET rows     == Rows(k)
        cleanups == [i \in DOMAIN rows |-> Cleanup(rows[i], old[rows[i].attr], plan[rows[i].attr])]
        writes   == [i \in DOMAIN rows |-> Write(k, rows[i], how, plan)]
    IN  IF Resources[k].oneLine THEN <<Command("line", "all", plan)>>
        ELSE <<Command("open", "all", {})>>
             \o FlattenSeq([i \in DOMAIN rows |-> cleanups[i] \o writes[i]])

\* mutant: what cannot be removed is left as it is
DeleteObjectsOnly(k) == IF Resources[k].presence = "always" THEN <<>>
                        ELSE <<Command("destroy", "all", {})>>

DeleteCommands(k) == <<Command("destroy", "all", {})>>

-----------------------------------------------------------------------------
(***************************************************************************)
(* updateModelFromInfo: what becomes of the model data when the object is  *)
(* read as r.                                                              *)
(***************************************************************************)
\* mutant: types.StringValue("") where types.StringNull() is meant
ReadEmptyString(row, found, had) ==
    IF found = {} THEN (IF row.keep THEN had ELSE {""}) ELSE found

ReadValue(row, found, had) ==
    IF found = {} THEN (IF row.keep THEN had ELSE row.empty)
    ELSE IF found \subseteq row.blind
    THEN IF had \subseteq row.blind THEN had ELSE {"other"}
    ELSE found

\* The parser of a missing object leaves every field empty.
UpdateModelFromInfo(k, r, data) ==
    [a \in Attr(k) |->
        LET row == Row(k, a)
        IN  IF Present(k, r) /\ ~InUse(k, row, r.val) THEN data[a]
            ELSE ReadValue(row, IF Present(k, r) THEN r.val[a] ELSE {}, data[a])]

=============================================================================
